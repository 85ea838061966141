------------------------------- MODULE Rounds -------------------------------
(***************************************************************************)
(* Sources and search rounds.  A source may be searched when it is on, has *)
(* its login, a person accepted the terms of its site and its access was   *)
(* tested.  A round freezes the sources that were ready when it was opened;*)
(* agents deliver batches to it, at any time and more than once, and any   *)
(* process reports what became of a source.                                *)
(*                                                                         *)
(* Two processes write: the server, which runs one request after another,  *)
(* and the collector of the connectors.  A batch is one transaction.  A    *)
(* report of a source is four statements, each its own transaction; call   *)
(* holds where in them a process is.                                       *)
(***************************************************************************)
EXTENDS Naturals, FiniteSets, Sequences

CONSTANTS
  Sources,     \* identifiers of sources
  Rounds,      \* rounds that may ever be opened
  Domains,     \* sites
  Used,        \* sources some agent names
  Item,        \* vacancies a source may list
  NoCursor,    \* next_cursor = null: the last batch
  Sent,        \* batches agents send
  Home,        \* the site each source is born with
  Tested,      \* results a test of the access may have
  Told,        \* what a request may report of a source,
  Reports,     \* and of its cursor and counts
  MaxEdits     \* bound on the edits and reports by requests

\* next_cursor: how far the batches of a source have come.
Cursor == Nat \cup {NoCursor}

Batch == [source : Sources, items : Seq(Item), cursor : Cursor]

ASSUME SourceAssumption == Used \subseteq Sources /\ Home \in [Sources -> Domains]
ASSUME ToldAssumption ==
  /\ Tested \subseteq {"configured", "not_ready", "ready", "paused", "blocked"}
  /\ Told \subseteq {"ready", "running", "completed", "failed", "cancelled",
                     "not_ready", "paused", "blocked"}
ASSUME EditAssumption == MaxEdits \in Nat
ASSUME SentAssumption == Sent \subseteq Batch /\ NoCursor \notin Nat
ASSUME ReportAssumption ==
  \A said \in Reports :
    /\ "cursor" \in DOMAIN said => said["cursor"] \in Cursor
    /\ \A field \in {"batch", "received"} : field \in DOMAIN said => said[field] \in Nat

VARIABLES
  profile,     \* a profile was confirmed
  config,      \* source_configs
  accepted,    \* sites whose terms a person accepted, by source
  edits,       \* edits and reports by requests so far
  round,       \* search_rounds: status and counters
  row,         \* round_sources
  taken,       \* payloads of the completed checkpoints
  call         \* report each process is making

sourceVars == <<profile, config, accepted, edits>>
roundVars == <<round, row, taken>>
roundsVars == <<sourceVars, roundVars, call>>

Process == {"server", "collector"}

-----------------------------------------------------------------------------
(* Sources *)

Setting == {"configured", "not_ready", "ready", "paused", "blocked"}

\* login: no authentication, or a secret or browser profile for it.
Config == [exists : BOOLEAN, domain : Domains, enabled : BOOLEAN,
           login : BOOLEAN, terms : BOOLEAN, readiness : Setting]

Fresh(d) == [exists |-> TRUE, domain |-> d, enabled |-> TRUE, login |-> TRUE,
             terms |-> FALSE, readiness |-> "configured"]

\* sourceReadiness: what the stored result of the last test is worth now.
Readiness(s) ==
  LET c == config[s] IN
  CASE ~c.exists \/ ~c.enabled -> "paused"
    [] c.exists /\ c.enabled /\ ~(c.login /\ c.terms) -> "not_ready"
    [] OTHER -> c.readiness

(* Only the opening of a round reads the sources: when the last round of   *)
(* the instance is open, further edits of them are left out.               *)
Edited ==
  /\ edits < MaxEdits /\ \E r \in Rounds : round[r].status = "none"
  /\ edits' = edits + 1
  /\ UNCHANGED <<profile, roundVars, call>>

(* A test of the access, of one request or by hand; the server's own test  *)
(* waits for the portal, so its result may come at any later time.         *)
SetReadiness(s, readiness) ==
  /\ Edited /\ config[s].exists
  /\ config' = [config EXCEPT ![s].readiness = readiness]
  /\ UNCHANGED accepted

ApproveTerms(s) ==
  /\ Edited /\ config[s].exists
  /\ config' = [config EXCEPT ![s].terms = TRUE]
  /\ accepted' = accepted \cup {<<s, config[s].domain>>}

\* Mutant: a source that moves to another site keeps the terms of the old one.
KeptAcrossSites(old, domain) == old.terms

\* The terms kept by an edit of the source.
KeptTerms(old, domain) == old.terms /\ old.domain = domain

(* material: the type, the login or its secret changed too.  A validated   *)
(* source has what its login needs.  Only a person turns a source on again.*)
UpsertSource(s, domain, enabled, material) ==
  LET old == config[s]
      changed == old.exists /\ (material \/ domain # old.domain)
  IN  /\ Edited /\ UNCHANGED accepted
      /\ config' = [config EXCEPT ![s] =
           [exists |-> TRUE, domain |-> domain, enabled |-> enabled, login |-> TRUE,
            terms |-> old.exists /\ KeptTerms(old, domain),
            readiness |-> IF changed THEN "configured" ELSE old.readiness]]

DeleteSource(s) ==
  /\ Edited /\ config[s].exists /\ s \notin Used
  /\ config' = [config EXCEPT ![s] = [Fresh(@.domain) EXCEPT !.exists = FALSE]]
  /\ UNCHANGED accepted

ConfirmProfile ==
  /\ ~profile /\ profile' = TRUE
  /\ UNCHANGED <<config, accepted, edits, roundVars, call>>

EditSources ==
  \/ ConfirmProfile
  \/ \E s \in Sources :
       \/ ApproveTerms(s)
       \/ DeleteSource(s)
       \/ \E readiness \in Tested : SetReadiness(s, readiness)
       \/ \E d \in Domains, enabled, material \in BOOLEAN : UpsertSource(s, d, enabled, material)

-----------------------------------------------------------------------------
(* Rounds *)

RowStatus == {"none", "ready", "running", "completed", "failed", "cancelled",
              "not_ready", "paused", "blocked"}

\* domain is the one of readiness_snapshot; "none" is a source not in the round.
Row == [status : RowStatus, domain : Domains, cursor : Cursor,
        batch : Nat, received : Nat]

Round == [status : {"none", "running", "completed", "partial", "failed"},
          batches : Nat, received : Nat]

NoRound == [status |-> "none", batches |-> 0, received |-> 0]

Listed(rows) == {s \in Sources : rows[s].status # "none"}

AllIn(rows, rest) == \A s \in Listed(rows) : rows[s].status \in rest

\* Mutant: the round takes the status of one of its sources.
VerdictOfAll(rows, bad) == rows[CHOOSE s \in Listed(rows) : TRUE].status

Verdict(rows, bad) ==
  LET failed == {s \in Listed(rows) : rows[s].status \in bad} IN
  CASE failed = {} -> "completed"
    [] failed # {} /\ failed = Listed(rows) -> "failed"
    [] OTHER -> "partial"

\* Mutant: the verdict is written whatever the round is by then.
ClosedAgain(r, verdict) == [r EXCEPT !.status = verdict]

\* UPDATE search_rounds ... WHERE status='running'
Closed(r, verdict) == IF r.status = "running" THEN [r EXCEPT !.status = verdict] ELSE r

(* What startSearchRound reads, it reads before its transaction; nobody    *)
(* sees the round before that, so the opening is one step.                 *)
OpenRound(r, wanted) ==
  LET ready == {s \in wanted : Readiness(s) = "ready"} IN
  /\ profile /\ ready # {}
  /\ round[r].status = "none"
  /\ round' = [round EXCEPT ![r] = [NoRound EXCEPT !.status = "running"]]
  /\ row' = [row EXCEPT ![r] = [s \in Sources |->
       IF s \in ready
       THEN [status |-> "ready", domain |-> config[s].domain, cursor |-> NoCursor,
             batch |-> 0, received |-> 0]
       ELSE @[s]]]
  /\ UNCHANGED <<sourceVars, taken, call>>

\* planning is accepted too, and never written.
Takes(r, s) == round[r].status = "running" /\ row[r][s].status \in {"ready", "running"}

Done == {"completed", "failed", "cancelled"}

\* Mutant: the checkpoints are not looked up.
NeverRepeated(r, b) == FALSE

\* A payload that has its completed checkpoint is answered as a duplicate.
Repeated(r, b) == b \in taken[r]

\* What a batch makes of the row of its source, of the rows of the round, and of the round.
TakenRow(q, b) ==
  [q EXCEPT !.status = IF b.cursor = NoCursor THEN "completed" ELSE "running",
            !.cursor = b.cursor, !.batch = @ + 1, !.received = @ + Len(b.items)]

TakenRows(r, b) == [row[r] EXCEPT ![b.source] = TakenRow(@, b)]

CountedRound(q, b) == [q EXCEPT !.batches = @ + 1, !.received = @ + Len(b.items)]

TakenRound(r, b) ==
  LET rows == TakenRows(r, b)
      counted == CountedRound(round[r], b)
  IN  IF AllIn(rows, Done) THEN Closed(counted, Verdict(rows, {"failed"})) ELSE counted

(* The transaction of ingestRoundBatch: what it tests before BEGIN it      *)
(* tests again inside.  Each item received is accepted.                    *)
TakeBatch(r, b) ==
  /\ ~Repeated(r, b) /\ Takes(r, b.source)
  /\ taken' = [taken EXCEPT ![r] = @ \cup {b}]
  /\ row' = [row EXCEPT ![r] = TakenRows(r, b)]
  /\ round' = [round EXCEPT ![r] = TakenRound(r, b)]
  /\ UNCHANGED <<sourceVars, call>>

-----------------------------------------------------------------------------
(* recordRoundSourceStatus *)

Idle == [step |-> "idle"]

Resting == Done \cup {"not_ready", "blocked", "paused"}

Failing == {"failed", "not_ready", "blocked"}

\* What a report says of a column, or what the row said.
Said(said, field, old) == IF field \in DOMAIN said THEN said[field] ELSE old

\* The row a report writes: what it does not say is taken from the row that was read.
ReportedRow(q, status, said) ==
  [q EXCEPT !.status = status, !.cursor = Said(said, "cursor", @),
            !.batch = Said(said, "batch", @), !.received = Said(said, "received", @)]

Report(p, r, s, status, said) ==
  /\ call[p].step = "idle" /\ row[r][s].status # "none"
  /\ call' = [call EXCEPT ![p] =
       [step |-> "read", round |-> r, source |-> s, rows |-> row[r],
        new |-> ReportedRow(row[r][s], status, said)]]

WriteRow(p) ==
  LET c == call[p] IN
  /\ c.step = "read"
  /\ row' = [row EXCEPT ![c.round][c.source] = c.new]
  /\ call' = [call EXCEPT ![p].step = "written"]
  /\ UNCHANGED <<sourceVars, round, taken>>

\* Mutant: the rows read at the beginning are used, with the new status.
JudgedBefore(c) == [c.rows EXCEPT ![c.source] = c.new]

\* The statuses the end of the round is decided from: a new SELECT.
Judged(c) == row[c.round]

JudgeRows(p) ==
  LET c == call[p]
      rows == Judged(c)
  IN  /\ c.step = "written"
      /\ call' = [call EXCEPT ![p] =
           IF AllIn(rows, Resting)
           THEN [step |-> "judged", round |-> c.round, verdict |-> Verdict(rows, Failing)]
           ELSE Idle]
      /\ UNCHANGED <<sourceVars, roundVars>>

CloseRound(p) ==
  LET c == call[p] IN
  /\ c.step = "judged"
  /\ round' = [round EXCEPT ![c.round] = Closed(@, c.verdict)]
  /\ call' = [call EXCEPT ![p] = Idle]
  /\ UNCHANGED <<sourceVars, row, taken>>

Continue(p) == WriteRow(p) \/ JudgeRows(p) \/ CloseRound(p)

-----------------------------------------------------------------------------

RoundsInit ==
  /\ profile = FALSE
  /\ \E ready \in SUBSET Sources :
       /\ config = [s \in Sources |->
            IF s \in ready THEN [Fresh(Home[s]) EXCEPT !.terms = TRUE, !.readiness = "ready"]
                           ELSE Fresh(Home[s])]
       /\ accepted = {<<s, Home[s]>> : s \in ready}
  /\ edits = 0
  /\ round = [r \in Rounds |-> NoRound]
  /\ row = [r \in Rounds |-> [s \in Sources |->
       [status |-> "none", domain |-> config[s].domain, cursor |-> NoCursor,
        batch |-> 0, received |-> 0]]]
  /\ taken = [r \in Rounds |-> {}]
  /\ call = [p \in Process |-> Idle]

(* The requests of the server.  A batch sent without a round opens one:    *)
(* the two actions, one after the other.                                   *)
Request ==
  /\ call["server"].step = "idle"
  /\ \/ EditSources
     \/ \E r \in Rounds :
          \/ \E wanted \in SUBSET Sources : OpenRound(r, wanted)
          \/ \E b \in Sent : TakeBatch(r, b)
          \/ \E s \in Sources, status \in Told, said \in Reports :
               /\ edits < MaxEdits /\ edits' = edits + 1
               /\ Report("server", r, s, status, said)
               /\ UNCHANGED <<profile, config, accepted, roundVars>>

ServerStep == Request \/ Continue("server")

-----------------------------------------------------------------------------
(* Properties *)

RoundsTypeOK ==
  /\ profile \in BOOLEAN /\ edits \in 0..MaxEdits
  /\ config \in [Sources -> Config]
  /\ accepted \subseteq Sources \X Domains
  /\ round \in [Rounds -> Round]
  /\ row \in [Rounds -> [Sources -> Row]]
  /\ \A r \in Rounds : taken[r] \subseteq Batch
  /\ \A p \in Process : call[p].step \in {"idle", "read", "written", "judged"}

(* No search before the two human decisions: whoever opened the round, and *)
(* however the sources were edited, each source in it is searched at a     *)
(* site whose terms a person accepted, for a confirmed profile             *)
(* (startSearchRound, upsertSourceConfig).                                 *)
TwoGates ==
  \A r \in Rounds : \A s \in Listed(row[r]) :
    profile /\ <<s, row[r][s].domain>> \in accepted

(* A batch counts once: the counters of a round are those of its completed *)
(* checkpoints, with batches repeated, refused and concurrent with reports *)
(* (ingestRoundBatch).                                                     *)
CountersAgree ==
  \A r \in Rounds :
    /\ round[r].batches = Cardinality(taken[r])
    /\ round[r].received = Cardinality(UNION {{b} \X DOMAIN b.items : b \in taken[r]})

(* A round that ended keeps its verdict and its counters, whatever arrives *)
(* late: batches, reports, another process that decides the end too.       *)
ClosedStaysClosed ==
  [][\A r \in Rounds :
       round[r].status \in {"completed", "partial", "failed"} => round'[r] = round[r]]_roundsVars
=============================================================================
