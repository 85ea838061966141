----------------------------- MODULE AgentRuns -----------------------------
(***************************************************************************)
(* What the agents report of their executions, under the limits of the     *)
(* version each execution started with.  An execution beyond a limit is    *)
(* aborted: it failed, and its message begins with a prefix that only the  *)
(* server writes.                                                          *)
(***************************************************************************)
EXTENDS AgentVersions

CONSTANTS
  Runs,        \* identifiers of executions
  NoOne,       \* agent_id = NULL
  Reassigned   \* whether an event may name an agent that is not the execution's

ASSUME RunAssumption == NoOne \notin Agents /\ Reassigned \in BOOLEAN

VARIABLE
  run          \* agent_runs

vars == <<versionVars, run>>

Reported == {"running", "completed", "failed"}

\* The snapshot of no agent; any configuration does.
NoConfig == CHOOSE c \in Config : TRUE

\* late: it is running, and since longer ago than its timeout_seconds.
Run == [status : {"none"} \cup Reported, owner : Agents \cup {NoOne}, config : Config,
        aborted : BOOLEAN, late : BOOLEAN]

NoRun == [status |-> "none", owner |-> NoOne, config |-> NoConfig,
          aborted |-> FALSE, late |-> FALSE]

Aborted(row) == [row EXCEPT !.status = "failed", !.aborted = TRUE, !.late = FALSE]

Overdue(r) == run[r].status = "running" /\ run[r].owner # NoOne /\ run[r].late

\* Mutant: the sweep is left to the timer of the server.
SweptByTimer(who) == run

\* The sweep comes first when the report is of an agent.
Swept(who) ==
  [r \in Runs |-> IF who # NoOne /\ Overdue(r) THEN Aborted(run[r]) ELSE run[r]]

Running(rows, who) == {r \in Runs : rows[r].status = "running" /\ rows[r].owner = who}

\* Mutant: one too many.
RoomAtLimit(rows, r, who, config) == Cardinality(Running(rows, who) \ {r}) <= config.concurrency

Room(rows, r, who, config) == Cardinality(Running(rows, who) \ {r}) < config.concurrency

\* Neither an aborted execution nor, as running, one that ended.
Reopens(row, status) ==
  /\ ~row.aborted
  /\ status = "running" => row.status \in {"none", "running"}

(* recordAgentRun; a is the agent_id given, if any, and over says that the *)
(* costs, tokens or latency given are above a limit.  started_at is only   *)
(* written with the row: late is its age by then.  What is refused leaves  *)
(* the sweep done.                                                         *)
RecordAgentRun(r, a, status, over, late) ==
  LET old == run[r]
      who == IF a # NoOne THEN a ELSE old.owner
      rows == Swept(who)
      kept == old.owner # NoOne /\ old.owner = who
      config == IF kept THEN old.config
                ELSE IF who # NoOne THEN PublishedVersion(who) ELSE NoConfig
      limited == who # NoOne
      starts == limited /\ rows[r].status # "running" /\ status = "running"
      accepted == /\ Reopens(rows[r], status)
                  /\ limited /\ ~kept => Exists(who)
                  /\ starts => Room(rows, r, who, config)
      new == [status |-> status, owner |-> who, config |-> config, aborted |-> FALSE,
              late |-> /\ status = "running"
                       /\ IF old.status = "none" THEN late ELSE rows[r].late /\ kept]
  IN  /\ run' = CASE ~accepted -> rows
                 [] accepted /\ ~(limited /\ over) -> [rows EXCEPT ![r] = new]
                 [] accepted /\ limited /\ over -> [rows EXCEPT ![r] = Aborted(new)]
      /\ UNCHANGED versionVars

\* The route of the agents: an agent reports its own executions only.
RecordAgentRunForAgent(r, a, status, over, late) ==
  /\ Enabled(a)
  /\ run[r].status # "none" => run[r].owner = a
  /\ RecordAgentRun(r, a, status, over, late)

\* The event agent.status: the body says which agent, if any.
AgentStatus(r, a, status, over, late) ==
  /\ run[r].status # "none" => a \in {NoOne, run[r].owner} \/ Reassigned
  /\ RecordAgentRun(r, a, status, over, late)

\* The collection of the connectors applies the limits itself: enforceLimits is false.
RecordCollection(r, a, status) ==
  /\ run[r].status = "none" /\ status # "running"
  /\ a # NoOne => Exists(a)
  /\ run' = [run EXCEPT ![r] = [NoRun EXCEPT !.status = status, !.owner = a,
       !.config = IF a = NoOne THEN NoConfig ELSE PublishedVersion(a)]]
  /\ UNCHANGED versionVars

\* The timer of the server.
ExpireTimedOutAgentRuns ==
  /\ \E r \in Runs : Overdue(r)
  /\ run' = [r \in Runs |-> IF Overdue(r) THEN Aborted(run[r]) ELSE run[r]]
  /\ UNCHANGED versionVars

\* The execution outlasts its timeout.
Outlast(r) ==
  /\ run[r].status = "running" /\ ~run[r].late
  /\ run' = [run EXCEPT ![r].late = TRUE]
  /\ UNCHANGED versionVars

Init == VersionInit /\ run = [r \in Runs |-> NoRun]

Report ==
  \E r \in Runs, status \in Reported :
    \/ \E a \in Agents, over, late \in BOOLEAN : RecordAgentRunForAgent(r, a, status, over, late)
    \/ \E a \in Agents \cup {NoOne}, over, late \in BOOLEAN : AgentStatus(r, a, status, over, late)
    \/ \E a \in Agents \cup {NoOne} : RecordCollection(r, a, status)

Next ==
  \/ VersionRequest /\ UNCHANGED run
  \/ Report
  \/ ExpireTimedOutAgentRuns
  \/ \E r \in Runs : Outlast(r)

Spec == Init /\ [][Next]_vars

-----------------------------------------------------------------------------
(* Properties *)

\* The published version is the one the agent points at, and the only one.
OnePublished ==
  \A a \in Agents : \A v \in DOMAIN versions[a] :
    versions[a][v].status = "published" <=> agent[a].published = v

TypeOK ==
  /\ OnePublished
  /\ agent \in [Agents -> Agent]
  /\ \A a \in Agents : Len(versions[a]) <= MaxVersions /\ \A v \in DOMAIN versions[a] : versions[a][v] \in Version
  /\ known \subseteq Prompts /\ paused \subseteq Agents /\ crashes \in 0..MaxCrashes
  /\ run \in [Runs -> Run]

(* An agent never works under instructions nobody read: the ones in force  *)
(* were written by a person or shown to one, with proposals, edits, a      *)
(* rollback and crashes in any order (publishAgentVersion).                *)
InstructionsWereRead ==
  \A a \in Agents : Exists(a) =>
    agent[a].live.prompt \in known /\ PublishedVersion(a).prompt \in known

(* A paused agent stays paused through every edit and proposal that does   *)
(* not speak of it: nothing turns it on but a version whose author did, or *)
(* a person who restores an old one (updateAgentConfig).                   *)
PauseHolds == \A a \in paused : ~agent[a].live.enabled

(* The executions an agent has running never exceed the concurrency the    *)
(* last of them to start began with, whatever is published, swept,         *)
(* reported twice or late (recordAgentRun).                                *)
ConcurrencyRespected ==
  \A a \in Agents : Running(run, a) # {} =>
    \E r \in Running(run, a) : Cardinality(Running(run, a)) <= run[r].config.concurrency

(* An execution that outlasted its limit ends as failed and stays so: a    *)
(* late answer, of the agent or of an event, never makes it a success.     *)
LateNeverSucceeds ==
  [][\A r \in Runs : Overdue(r) \/ run[r].aborted => run'[r].status # "completed"]_vars
=============================================================================
