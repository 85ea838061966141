---------------------------- MODULE RoundsProofs -----------------------------
(***************************************************************************)
(* Rounds and their collector, proved for any number of sources, rounds,   *)
(* companies, pages and batches.                                           *)
(*                                                                         *)
(* Three parts.  The rounds: what a step of either process may do to a     *)
(* round, its rows and its checkpoints, seen together with the report each *)
(* process is in the middle of.  The two gates and the end of a round are  *)
(* read from it.  The collector: where each item that was fetched is, from *)
(* the answer of the portal to the batch that delivers it or the queue.    *)
(***************************************************************************)
EXTENDS Collection, FiniteSetTheorems, TLAPS

-----------------------------------------------------------------------------
(* Types *)

Verdicts == {"completed", "partial", "failed"}

Reporting == [step : {"read", "written"}, round : Rounds, source : Sources,
              rows : [Sources -> Row], new : Row]
Ending == [step : {"judged"}, round : Rounds, verdict : Verdicts]

\* What a process is in the middle of.
Call(c) == c = Idle \/ c \in Reporting \/ c \in Ending

RoundTypes ==
  /\ profile \in BOOLEAN /\ edits \in 0..MaxEdits
  /\ config \in [Sources -> Config]
  /\ accepted \subseteq Sources \X Domains
  /\ round \in [Rounds -> Round]
  /\ row \in [Rounds -> [Sources -> Row]]
  /\ taken \in [Rounds -> SUBSET Batch]
  /\ call = [p \in Process |-> call[p]] /\ \A p \in Process : Call(call[p])

CollectorTypes ==
  /\ pc \in {"idle", "fetching", "enriching", "delivering", "queueing", "done", "dead"}
  /\ mine = {} \/ \E r \in Rounds : mine = {r}
  /\ company \in [Companies -> {"out", "todo", "asked", "ok", "failed", "skipped"}]
  /\ answered \in [Companies -> Nat]
  /\ fetched \in [Sources -> Seq(Item)]
  /\ budget \in {"open", "spent", "late"}
  /\ page \in [{"todo", "asked", "read"} -> SUBSET Item]
  /\ tail \subseteq Item
  /\ left \subseteq Sources /\ chunks \in Seq(Batch) /\ lost \subseteq Sources
  /\ queue \in [Item -> Queued]

Types == RoundTypes /\ CollectorTypes

(* A source, as it is added and as it is forgotten. *)
LEMMA FreshConfig ==
  ASSUME NEW d \in Domains
  PROVE  /\ Fresh(d) \in Config /\ [Fresh(d) EXCEPT !.exists = FALSE] \in Config
         /\ [Fresh(d) EXCEPT !.terms = TRUE, !.readiness = "ready"] \in Config
         /\ ~Fresh(d).terms /\ Fresh(d).domain = d
BY DEF Fresh, Config, Setting

(* The edits of a source keep the types. *)
LEMMA EditTypes ==
  ASSUME RoundTypes, EditSources
  PROVE  RoundTypes'
<1>1. CASE ConfirmProfile
  BY <1>1 DEF ConfirmProfile, RoundTypes, roundVars
<1>2. ASSUME Edited, config' \in [Sources -> Config], accepted' \subseteq Sources \X Domains
      PROVE  RoundTypes'
  BY <1>2, EditAssumption DEF Edited, RoundTypes, roundVars
<1>3. ASSUME NEW s \in Sources, ApproveTerms(s)
      PROVE  RoundTypes'
  <2>1. config[s] \in Config
    BY DEF RoundTypes
  <2>2. [config[s] EXCEPT !.terms = TRUE] \in Config /\ config[s].domain \in Domains
    BY <2>1 DEF Config
  <2>3. accepted' \subseteq Sources \X Domains
    BY <1>3, <2>2 DEF ApproveTerms, RoundTypes
  <2>4. config' \in [Sources -> Config]
    BY <1>3, <2>2 DEF ApproveTerms, RoundTypes
  <2> QED
    BY <1>2, <1>3, <2>3, <2>4 DEF ApproveTerms
<1>4. ASSUME NEW s \in Sources, DeleteSource(s)
      PROVE  RoundTypes'
  <2>1. config[s].domain \in Domains
    BY DEF RoundTypes, Config
  <2> QED
    BY <1>2, <1>4, <2>1, FreshConfig DEF DeleteSource, RoundTypes
<1>5. ASSUME NEW s \in Sources, NEW readiness \in Tested, SetReadiness(s, readiness)
      PROVE  RoundTypes'
  BY <1>2, <1>5, ToldAssumption DEF SetReadiness, RoundTypes, Config, Setting
<1>6. ASSUME NEW s \in Sources, NEW d \in Domains, NEW enabled \in BOOLEAN, NEW material \in BOOLEAN,
             UpsertSource(s, d, enabled, material)
      PROVE  RoundTypes'
  <2> DEFINE n == [exists |-> TRUE, domain |-> d, enabled |-> enabled, login |-> TRUE,
                   terms |-> config[s].exists /\ KeptTerms(config[s], d),
                   readiness |-> IF config[s].exists /\ (material \/ d # config[s].domain)
                                 THEN "configured" ELSE config[s].readiness]
  <2>1. n \in Config
    BY DEF RoundTypes, Config, Setting
  <2>2. config' = [config EXCEPT ![s] = n]
    BY <1>6 DEF UpsertSource
  <2> HIDE DEF n
  <2> QED
    BY <1>2, <1>6, <2>1, <2>2 DEF UpsertSource, RoundTypes
<1> QED
  BY <1>1, <1>3, <1>4, <1>5, <1>6 DEF EditSources

(* A row that opens is at the site its source is configured for. *)
LEMMA OpenTypes ==
  ASSUME RoundTypes, NEW r \in Rounds, NEW wanted \in SUBSET Sources, OpenRound(r, wanted)
  PROVE  RoundTypes'
<1> DEFINE n(s) == [status |-> "ready", domain |-> config[s].domain, cursor |-> NoCursor,
                    batch |-> 0, received |-> 0]
           rows == [s \in Sources |-> IF s \in wanted /\ Readiness(s) = "ready" THEN n(s) ELSE row[r][s]]
<1>1. \A s \in Sources : n(s) \in Row
  <2>1. \A s \in Sources : config[s].domain \in Domains
    BY DEF RoundTypes, Config
  <2> QED
    BY <2>1 DEF Row, RowStatus, Cursor
<1>2. rows \in [Sources -> Row]
  BY <1>1 DEF RoundTypes
<1>3. row' = [row EXCEPT ![r] = rows]
  BY DEF OpenRound, RoundTypes
<1>4. [NoRound EXCEPT !.status = "running"] \in Round
  BY DEF NoRound, Round
<1>5. round' = [round EXCEPT ![r] = [NoRound EXCEPT !.status = "running"]]
  BY DEF OpenRound
<1>6. row' \in [Rounds -> [Sources -> Row]] /\ round' \in [Rounds -> Round]
  <2> HIDE DEF rows
  <2> QED
    BY <1>2, <1>3, <1>4, <1>5 DEF RoundTypes
<1> QED
  BY <1>6 DEF OpenRound, sourceVars, RoundTypes

(* The verdict of a round is one of three. *)
LEMMA VerdictIsOne ==
  ASSUME NEW rows, NEW bad
  PROVE  Verdict(rows, bad) \in Verdicts
BY DEF Verdict, Verdicts

(* An end writes the status, of a round that was running. *)
LEMMA ClosedRound ==
  ASSUME NEW r \in Round, NEW v \in Verdicts
  PROVE  /\ Closed(r, v) \in Round
         /\ Closed(r, v).batches = r.batches /\ Closed(r, v).received = r.received
         /\ r.status = "running" => Closed(r, v).status = v
         /\ r.status # "running" => Closed(r, v) = r
BY DEF Closed, Round, Verdicts

(* A batch has finitely many items. *)
LEMMA BatchSize ==
  ASSUME NEW b \in Batch
  PROVE  b.items \in Seq(Item) /\ Len(b.items) \in Nat /\ DOMAIN b.items = 1..Len(b.items)
<1>1. b.items \in Seq(Item)
  BY DEF Batch
<1> QED
  BY <1>1

(* A batch moves its row on, at the site it has. *)
LEMMA TakenRowIs ==
  ASSUME NEW q \in Row, NEW b \in Batch
  PROVE  /\ TakenRow(q, b) \in Row
         /\ TakenRow(q, b).domain = q.domain /\ TakenRow(q, b).status \in {"completed", "running"}
<1>1. b.cursor \in Cursor
  BY DEF Batch
<1>2. PICK n \in Nat : Len(b.items) = n
  BY BatchSize
<1>3. PICK t \in {"completed", "running"} : (IF b.cursor = NoCursor THEN "completed" ELSE "running") = t
  OBVIOUS
<1>4. TakenRow(q, b) = [q EXCEPT !.status = t, !.cursor = b.cursor, !.batch = @ + 1, !.received = @ + n]
  BY <1>2, <1>3, Zenon DEF TakenRow
<1>5. t \in RowStatus
  BY DEF RowStatus
<1>6. q.batch + 1 \in Nat /\ q.received + n \in Nat
  BY DEF Row
<1> QED
  BY <1>1, <1>4, <1>5, <1>6 DEF Row

(* It adds one to the batches of its round and its items to the items. *)
LEMMA CountedRoundIs ==
  ASSUME NEW q \in Round, NEW b \in Batch
  PROVE  /\ CountedRound(q, b) \in Round /\ CountedRound(q, b).status = q.status
         /\ CountedRound(q, b).batches = q.batches + 1
         /\ CountedRound(q, b).received = q.received + Len(b.items)
<1>1. PICK n \in Nat : Len(b.items) = n
  BY BatchSize
<1>2. CountedRound(q, b) = [q EXCEPT !.batches = q.batches + 1, !.received = q.received + n]
  BY <1>1 DEF CountedRound, Round
<1>3. PICK m \in Nat, k \in Nat : m = q.batches + 1 /\ k = q.received + n
  BY DEF Round
<1>4. CountedRound(q, b) = [q EXCEPT !.batches = m, !.received = k]
  BY <1>2, <1>3
<1>5. [q EXCEPT !.batches = m, !.received = k] \in Round
  BY DEF Round
<1> QED
  BY <1>1, <1>3, <1>4, <1>5 DEF Round

(* It ends its round when no source is left, and else leaves it running. *)
LEMMA TakenRoundIs ==
  ASSUME RoundTypes, NEW r \in Rounds, NEW b \in Batch, Takes(r, b.source)
  PROVE  /\ TakenRound(r, b) \in Round
         /\ TakenRound(r, b).batches = round[r].batches + 1
         /\ TakenRound(r, b).received = round[r].received + Len(b.items)
         /\ AllIn(TakenRows(r, b), Done) => TakenRound(r, b).status \in Verdicts
         /\ ~AllIn(TakenRows(r, b), Done) => TakenRound(r, b).status = "running"
<1>1. round[r] \in Round /\ round[r].status = "running"
  BY DEF RoundTypes, Takes
<1>2. Verdict(TakenRows(r, b), {"failed"}) \in Verdicts
  BY VerdictIsOne
<1> QED
  <2> DEFINE counted == CountedRound(round[r], b)
  <2>1. /\ counted \in Round /\ counted.status = "running"
        /\ counted.batches = round[r].batches + 1
        /\ counted.received = round[r].received + Len(b.items)
    BY <1>1, CountedRoundIs
  <2> HIDE DEF counted
  <2> DEFINE ended == Closed(counted, Verdict(TakenRows(r, b), {"failed"}))
  <2>2. /\ ended \in Round /\ ended.status \in Verdicts
        /\ ended.batches = counted.batches /\ ended.received = counted.received
    BY <2>1, <1>2, ClosedRound
  <2> HIDE DEF ended
  <2>3. TakenRound(r, b) = IF AllIn(TakenRows(r, b), Done) THEN ended ELSE counted
    BY DEF TakenRound, ended, counted
  <2> QED
    BY <2>1, <2>2, <2>3

(* A batch keeps the types. *)
LEMMA TakeTypes ==
  ASSUME RoundTypes, NEW r \in Rounds, NEW b \in Batch, TakeBatch(r, b)
  PROVE  RoundTypes'
<1>1. b.source \in Sources
  BY DEF Batch
<1>2. TakenRows(r, b) \in [Sources -> Row]
  <2>1. row[r] \in [Sources -> Row] /\ row[r][b.source] \in Row
    BY <1>1 DEF RoundTypes
  <2>2. TakenRow(row[r][b.source], b) \in Row
    BY <2>1, TakenRowIs
  <2> QED
    BY <2>1, <2>2 DEF TakenRows
<1>3. TakenRound(r, b) \in Round
  BY TakenRoundIs DEF TakeBatch
<1>4. /\ row' \in [Rounds -> [Sources -> Row]] /\ round' \in [Rounds -> Round]
      /\ taken' \in [Rounds -> SUBSET Batch]
  BY <1>2, <1>3 DEF TakeBatch, RoundTypes
<1> QED
  BY <1>4 DEF TakeBatch, sourceVars, RoundTypes

\* What a report may say.
Sayable(said) ==
  /\ "cursor" \in DOMAIN said => said["cursor"] \in Cursor
  /\ \A field \in {"batch", "received"} : field \in DOMAIN said => said[field] \in Nat

(* A report writes the status it says and leaves the site. *)
LEMMA ReportedRowIs ==
  ASSUME NEW q \in Row, NEW status \in RowStatus, NEW said, Sayable(said)
  PROVE  /\ ReportedRow(q, status, said) \in Row
         /\ ReportedRow(q, status, said).status = status
         /\ ReportedRow(q, status, said).domain = q.domain
BY DEF ReportedRow, Row, Said, Sayable

\* The call of a report of source s in round r.
CallOf(r, s, status, said) ==
  [step |-> "read", round |-> r, source |-> s, rows |-> row[r], new |-> ReportedRow(row[r][s], status, said)]

(* The first statement of a report keeps the types. *)
LEMMA ReportTypes ==
  ASSUME RoundTypes, NEW p \in Process, NEW r \in Rounds, NEW s \in Sources,
         NEW status \in RowStatus, NEW said, Sayable(said),
         Report(p, r, s, status, said), UNCHANGED <<profile, config, accepted, roundVars>>,
         edits' \in 0..MaxEdits
  PROVE  RoundTypes'
<1>1. CallOf(r, s, status, said) \in Reporting
  <2>1. row[r] \in [Sources -> Row] /\ row[r][s] \in Row
    BY DEF RoundTypes
  <2> QED
    BY <2>1, ReportedRowIs DEF CallOf, Reporting
<1>2. call' = [q \in Process |-> call'[q]] /\ \A q \in Process : Call(call'[q])
  <2>1. call' = [call EXCEPT ![p] = CallOf(r, s, status, said)]
    BY DEF Report, CallOf
  <2> QED
    BY <1>1, <2>1 DEF RoundTypes, Call
<1> QED
  BY <1>2 DEF RoundTypes, roundVars

\* The report of a process, when it is in the middle of one.
LEMMA CallStep ==
  ASSUME RoundTypes, NEW p \in Process
  PROVE  /\ call[p].step \in {"read", "written"} => call[p] \in Reporting
         /\ call[p].step = "judged" => call[p] \in Ending
BY DEF RoundTypes, Call, Idle, Reporting, Ending

(* So do the others. *)
LEMMA ContinueTypes ==
  ASSUME RoundTypes, NEW p \in Process, Continue(p)
  PROVE  RoundTypes'
<1>1. CASE WriteRow(p)
  <2>1. call[p] \in Reporting
    BY <1>1, CallStep DEF WriteRow
  <2>2. row' = [row EXCEPT ![call[p].round][call[p].source] = call[p].new]
    BY <1>1 DEF WriteRow
  <2>3. row' \in [Rounds -> [Sources -> Row]]
    BY <2>1, <2>2 DEF RoundTypes, Reporting
  <2>4. [call[p] EXCEPT !.step = "written"] \in Reporting
    BY <2>1 DEF Reporting
  <2>5. call' = [call EXCEPT ![p] = [call[p] EXCEPT !.step = "written"]]
    BY <1>1 DEF WriteRow
  <2>6. call' = [q \in Process |-> call'[q]] /\ \A q \in Process : Call(call'[q])
    BY <2>4, <2>5 DEF RoundTypes, Call
  <2> QED
    BY <1>1, <2>3, <2>6 DEF WriteRow, sourceVars, RoundTypes
<1>2. CASE JudgeRows(p)
  <2> DEFINE c == call[p]
             n == [step |-> "judged", round |-> c.round, verdict |-> Verdict(row[c.round], Failing)]
  <2>1. c \in Reporting
    BY <1>2, CallStep DEF JudgeRows
  <2>2. n \in Ending
    BY <2>1, VerdictIsOne DEF Reporting, Ending
  <2>3. call' = [call EXCEPT ![p] = IF AllIn(row[c.round], Resting) THEN n ELSE Idle]
    BY <1>2 DEF JudgeRows, Judged
  <2>4. call' = [q \in Process |-> call'[q]] /\ \A q \in Process : Call(call'[q])
    <3> HIDE DEF n
    <3> QED
      BY <2>2, <2>3 DEF RoundTypes, Call
  <2> QED
    BY <1>2, <2>4 DEF JudgeRows, sourceVars, roundVars, RoundTypes
<1>3. CASE CloseRound(p)
  <2>1. call[p] \in Ending
    BY <1>3, CallStep DEF CloseRound
  <2>2. call[p].round \in Rounds /\ call[p].verdict \in Verdicts
    BY <2>1 DEF Ending
  <2>3. Closed(round[call[p].round], call[p].verdict) \in Round
    BY <2>2, ClosedRound DEF RoundTypes
  <2>4. round' \in [Rounds -> Round]
    BY <1>3, <2>2, <2>3 DEF CloseRound, RoundTypes
  <2>5. call' = [q \in Process |-> call'[q]] /\ \A q \in Process : Call(call'[q])
    BY <1>3 DEF CloseRound, RoundTypes, Call
  <2> QED
    BY <1>3, <2>4, <2>5 DEF CloseRound, sourceVars, RoundTypes
<1> QED
  BY <1>1, <1>2, <1>3 DEF Continue

(* The types at the beginning. *)
LEMMA InitTypes == RoundsInit => RoundTypes
<1> SUFFICES ASSUME RoundsInit PROVE RoundTypes
  OBVIOUS
<1>1. PICK ready \in SUBSET Sources :
         /\ config = [s \in Sources |->
              IF s \in ready THEN [Fresh(Home[s]) EXCEPT !.terms = TRUE, !.readiness = "ready"]
                             ELSE Fresh(Home[s])]
         /\ accepted = {<<s, Home[s]>> : s \in ready}
  BY DEF RoundsInit
<1>2. \A s \in Sources : Home[s] \in Domains
  BY SourceAssumption
<1>3. config \in [Sources -> Config]
  BY <1>1, <1>2, FreshConfig
<1>4. accepted \subseteq Sources \X Domains
  <2>1. \A s \in ready : <<s, Home[s]>> \in Sources \X Domains
    BY <1>2
  <2> QED
    BY <1>1, <2>1, Zenon
<1>5. NoRound \in Round
  BY DEF NoRound, Round
<1>6. row \in [Rounds -> [Sources -> Row]]
  <2>1. \A s \in Sources : config[s].domain \in Domains
    BY <1>3 DEF Config
  <2>2. \A s \in Sources : [status |-> "none", domain |-> config[s].domain, cursor |-> NoCursor,
                            batch |-> 0, received |-> 0] \in Row
    BY <2>1 DEF Row, RowStatus, Cursor
  <2> QED
    BY <2>2 DEF RoundsInit
<1>7. call = [p \in Process |-> call[p]] /\ \A p \in Process : Call(call[p])
  BY DEF RoundsInit, Call
<1>8. round \in [Rounds -> Round] /\ taken \in [Rounds -> SUBSET Batch] /\ profile \in BOOLEAN
  BY <1>5 DEF RoundsInit
<1>9. edits \in 0..MaxEdits
  <2>1. edits = 0
    BY DEF RoundsInit
  <2> QED
    BY <2>1, EditAssumption, SMT
<1> QED
  BY <1>3, <1>4, <1>6, <1>7, <1>8, <1>9 DEF RoundTypes

-----------------------------------------------------------------------------
(* What a step does to the rounds *)

\* The collector dies; what it had reported stays.
Dies ==
  /\ pc' = "dead" /\ call' = [call EXCEPT !["collector"] = Idle]
  /\ UNCHANGED <<sourceVars, roundVars>>

\* A report begins.
Begins(p, r, s, status, said) ==
  /\ status \in RowStatus \ {"none"} /\ Sayable(said)
  /\ Report(p, r, s, status, said)
  /\ UNCHANGED <<profile, config, accepted, roundVars>> /\ edits' \in 0..MaxEdits

RoundsStep ==
  \/ EditSources
  \/ \E r \in Rounds : \E wanted \in SUBSET Sources : OpenRound(r, wanted)
  \/ \E r \in Rounds : \E b \in Batch : TakeBatch(r, b)
  \/ \E p \in Process, r \in Rounds, s \in Sources : \E status, said : Begins(p, r, s, status, said)
  \/ \E p \in Process : Continue(p)
  \/ Dies
  \/ UNCHANGED roundsVars

(* A request of the server is one of them. *)
LEMMA ServerIsStep ==
  ASSUME RoundTypes, ServerStep
  PROVE  RoundsStep
<1>1. CASE Continue("server")
  BY <1>1 DEF RoundsStep, Process
<1>2. CASE EditSources
  BY <1>2 DEF RoundsStep
<1>3. ASSUME NEW r \in Rounds, NEW b \in Sent, TakeBatch(r, b)
      PROVE  RoundsStep
  BY <1>3, SentAssumption DEF RoundsStep
<1>4. ASSUME NEW r \in Rounds, NEW s \in Sources, NEW status \in Told, NEW said \in Reports,
             edits < MaxEdits, edits' = edits + 1, Report("server", r, s, status, said),
             UNCHANGED <<profile, config, accepted, roundVars>>
      PROVE  RoundsStep
  <2>1. Sayable(said)
    BY ReportAssumption DEF Sayable
  <2>2. status \in RowStatus \ {"none"}
    BY ToldAssumption DEF RowStatus
  <2>3. edits' \in 0..MaxEdits
    BY <1>4, EditAssumption DEF RoundTypes
  <2>4. Begins("server", r, s, status, said)
    BY <1>4, <2>1, <2>2, <2>3 DEF Begins
  <2> QED
    BY <2>4 DEF RoundsStep, Process
<1>5. ASSUME NEW r \in Rounds, NEW wanted \in SUBSET Sources, OpenRound(r, wanted)
      PROVE  RoundsStep
  BY <1>5 DEF RoundsStep
<1> QED
  BY <1>1, <1>2, <1>3, <1>4, <1>5 DEF ServerStep, Request

(* The batch the collector delivers is the first of its chunks. *)
LEMMA HeadChunk ==
  ASSUME CollectorTypes, chunks # <<>>
  PROVE  Head(chunks) \in Batch /\ Tail(chunks) \in Seq(Batch)
BY DEF CollectorTypes

(* So is what the collector does. *)
LEMMA GiveUpIsStep ==
  ASSUME RoundTypes, NEW r \in Rounds, NEW s \in Sources, GiveUp(r, s), UNCHANGED sourceVars
  PROVE  RoundsStep
<1>1. Sayable(<<>>)
  BY DEF Sayable
<1>2. "failed" \in RowStatus \ {"none"}
  BY DEF RowStatus
<1>3. Begins("collector", r, s, "failed", <<>>)
  BY <1>1, <1>2 DEF GiveUp, Begins, sourceVars, RoundTypes
<1> QED
  BY <1>3 DEF RoundsStep, Process

(* Every step of the system is a step of the rounds. *)
LEMMA NextIsStep ==
  ASSUME Types, [Next]_vars
  PROVE  RoundsStep
<1> USE DEF Types
<1>1. CASE UNCHANGED vars
  BY <1>1 DEF vars, RoundsStep
<1>2. CASE Server
  BY <1>2, ServerIsStep DEF Server
<1>3. ASSUME NEW i \in Item, Resolve(i)
      PROVE  RoundsStep
  BY <1>3 DEF Resolve, RoundsStep
<1>4. ASSUME NEW r \in Rounds, Start(r)
      PROVE  RoundsStep
  <2>1. {Connector[c] : c \in Companies} \in SUBSET Sources
    BY CompanyAssumption
  <2> QED
    BY <1>4, <2>1 DEF Start, RoundsStep
<1>5. CASE Gather /\ UNCHANGED <<roundsVars, queue>>
  BY <1>5 DEF RoundsStep
<1>6. CASE Continue("collector")
  BY <1>6 DEF RoundsStep, Process
<1>7. CASE QueueItem /\ UNCHANGED roundsVars
  BY <1>7 DEF RoundsStep
<1>8. CASE Crash
  BY <1>8 DEF Crash, Dies, RoundsStep
<1>9. ASSUME NEW r \in Rounds, NEW s \in Sources, NextSource(r, s)
      PROVE  RoundsStep
  BY <1>9, GiveUpIsStep DEF NextSource, RoundsStep
<1>10. ASSUME NEW r \in Rounds, DeliverBatch(r)
       PROVE  RoundsStep
  <2>1. Head(chunks) \in Batch /\ Head(chunks).source \in Sources
    BY <1>10, HeadChunk DEF DeliverBatch, Batch
  <2> QED
    BY <1>10, <2>1, GiveUpIsStep DEF DeliverBatch, RoundsStep
<1>11. ASSUME NEW r \in Rounds, Delivered(r)
       PROVE  RoundsStep
  BY <1>11 DEF Delivered, RoundsStep
<1> QED
  BY <1>1, <1>2, <1>3, <1>4, <1>5, <1>6, <1>7, <1>8, <1>9, <1>10, <1>11 DEF Next, Collector, Deliver

(* Every step keeps the types of the rounds. *)
LEMMA StepTypes ==
  ASSUME RoundTypes, RoundsStep
  PROVE  RoundTypes'
<1>1. CASE UNCHANGED roundsVars
  BY <1>1 DEF roundsVars, sourceVars, roundVars, RoundTypes
<1>2. CASE Dies
  <2>1. call' = [q \in Process |-> call'[q]] /\ \A q \in Process : Call(call'[q])
    BY <1>2 DEF Dies, RoundTypes, Call
  <2> QED
    BY <1>2, <2>1 DEF Dies, sourceVars, roundVars, RoundTypes
<1>3. ASSUME NEW p \in Process, NEW r \in Rounds, NEW s \in Sources, NEW status, NEW said,
             Begins(p, r, s, status, said)
      PROVE  RoundTypes'
  BY <1>3, ReportTypes DEF Begins
<1> QED
  BY <1>1, <1>2, <1>3, EditTypes, OpenTypes, TakeTypes, ContinueTypes DEF RoundsStep

-----------------------------------------------------------------------------
(* The two gates *)

Accepted(s, d) == <<s, d>> \in accepted

\* Terms are of the site a source has now.
TermsAccepted == \A s \in Sources : config[s].terms => Accepted(s, config[s].domain)

\* Before it opens a round has no sources.
UnopenedIsEmpty == \A r \in Rounds : round[r].status = "none" => Listed(row[r]) = {}

\* The source a report is about is of its round, at the site it had when the round opened.
ReportsListed ==
  \A p \in Process : call[p].step \in {"read", "written"} =>
    LET q == row[call[p].round][call[p].source] IN
    q.status # "none" /\ call[p].new.status # "none" /\ call[p].new.domain = q.domain

GateInv == TermsAccepted /\ TwoGates /\ UnopenedIsEmpty /\ ReportsListed

(* A source that is ready had the terms of its site accepted. *)
LEMMA ReadyIsAccepted ==
  ASSUME RoundTypes, NEW s \in Sources, Readiness(s) = "ready"
  PROVE  config[s].terms
BY DEF Readiness, RoundTypes, Config

(* Edits keep the gates: what is accepted stays, and terms do not follow a source to *)
(* another site. *)
LEMMA EditGates ==
  ASSUME RoundTypes, GateInv, EditSources
  PROVE  GateInv'
<1>1. /\ UNCHANGED <<roundVars, call>>
      /\ profile => profile'
      /\ accepted \subseteq accepted'
  BY DEF EditSources, ConfirmProfile, ApproveTerms, DeleteSource, SetReadiness, UpsertSource, Edited
<1>2. TermsAccepted'
  <2>1. CASE ConfirmProfile
    BY <2>1 DEF ConfirmProfile, GateInv, TermsAccepted, Accepted
  <2>2. ASSUME NEW s \in Sources, ApproveTerms(s)
        PROVE  TermsAccepted'
    <3>1. config' = [config EXCEPT ![s] = [config[s] EXCEPT !.terms = TRUE]]
      BY <2>2 DEF ApproveTerms
    <3>2. config'[s].domain = config[s].domain /\ \A t \in Sources : t # s => config'[t] = config[t]
      BY <3>1 DEF RoundTypes, Config
    <3> QED
      BY <2>2, <3>2 DEF ApproveTerms, GateInv, TermsAccepted, Accepted
  <2>3. ASSUME NEW s \in Sources, DeleteSource(s)
        PROVE  TermsAccepted'
    <3>1. config' = [config EXCEPT ![s] = [Fresh(config[s].domain) EXCEPT !.exists = FALSE]]
      BY <2>3 DEF DeleteSource
    <3>2. ~config'[s].terms /\ \A t \in Sources : t # s => config'[t] = config[t]
      BY <3>1 DEF RoundTypes, Fresh
    <3> QED
      BY <2>3, <3>2 DEF DeleteSource, GateInv, TermsAccepted, Accepted
  <2>4. ASSUME NEW s \in Sources, NEW readiness \in Tested, SetReadiness(s, readiness)
        PROVE  TermsAccepted'
    <3>1. /\ config'[s].terms = config[s].terms /\ config'[s].domain = config[s].domain
          /\ \A t \in Sources : t # s => config'[t] = config[t]
      BY <2>4 DEF SetReadiness, RoundTypes, Config
    <3> QED
      BY <2>4, <3>1 DEF SetReadiness, GateInv, TermsAccepted, Accepted
  <2>5. ASSUME NEW s \in Sources, NEW d \in Domains, NEW enabled \in BOOLEAN, NEW material \in BOOLEAN,
               UpsertSource(s, d, enabled, material)
        PROVE  TermsAccepted'
    <3>1. /\ config'[s].terms => config[s].terms /\ config[s].domain = d
          /\ config'[s].domain = d
          /\ \A t \in Sources : t # s => config'[t] = config[t]
      BY <2>5 DEF UpsertSource, KeptTerms, RoundTypes, Config
    <3> QED
      BY <2>5, <3>1 DEF UpsertSource, GateInv, TermsAccepted, Accepted
  <2> QED
    BY <2>1, <2>2, <2>3, <2>4, <2>5 DEF EditSources
<1>3. TwoGates' /\ UnopenedIsEmpty' /\ ReportsListed'
  BY <1>1 DEF GateInv, TwoGates, UnopenedIsEmpty, ReportsListed, Listed, roundVars
<1> QED
  BY <1>2, <1>3 DEF GateInv

(* A round opens with sources that were ready, and nobody reports about it yet. *)
LEMMA OpenGates ==
  ASSUME RoundTypes, GateInv, NEW r \in Rounds, NEW wanted \in SUBSET Sources, OpenRound(r, wanted)
  PROVE  GateInv'
<1>1. /\ profile /\ round[r].status = "none" /\ UNCHANGED <<sourceVars, taken, call>>
      /\ Listed(row[r]) = {}
  BY DEF OpenRound, GateInv, UnopenedIsEmpty
<1>2. /\ \A q \in Rounds \ {r} : round'[q] = round[q] /\ row'[q] = row[q]
      /\ round'[r].status = "running"
  BY DEF OpenRound, RoundTypes, NoRound
<1>3. \A s \in Sources :
        row'[r][s].status # "none" => Readiness(s) = "ready" /\ row'[r][s].domain = config[s].domain
  <2>1. \A s \in Sources : row[r][s].status = "none"
    BY <1>1 DEF Listed
  <2> QED
    BY <2>1 DEF OpenRound, RoundTypes
<1>4. TwoGates'
  <2>1. ASSUME NEW s \in Sources, row'[r][s].status # "none"
        PROVE  profile /\ <<s, row'[r][s].domain>> \in accepted
    BY <2>1, <1>1, <1>3, ReadyIsAccepted DEF GateInv, TermsAccepted, Accepted
  <2> QED
    BY <2>1, <1>1, <1>2 DEF GateInv, TwoGates, Listed, sourceVars
<1>5. UnopenedIsEmpty'
  BY <1>1, <1>2 DEF GateInv, UnopenedIsEmpty, Listed
<1>6. ReportsListed'
  <2>1. ASSUME NEW p \in Process, call[p].step \in {"read", "written"}
        PROVE  call[p].round \in Rounds \ {r}
    <3>1. call[p] \in Reporting
      BY <2>1, CallStep
    <3>2. row[call[p].round][call[p].source].status # "none"
      BY <2>1 DEF GateInv, ReportsListed
    <3> QED
      BY <3>1, <3>2, <1>1 DEF Reporting, Listed
  <2> QED
    BY <2>1, <1>1, <1>2 DEF GateInv, ReportsListed
<1>7. TermsAccepted'
  BY <1>1 DEF GateInv, TermsAccepted, Accepted, sourceVars
<1> QED
  BY <1>4, <1>5, <1>6, <1>7 DEF GateInv

(* Where rounds stay opened and their rows keep their sites, the gates hold. *)
LEMMA KeptGates ==
  ASSUME RoundTypes, GateInv, RoundTypes', UNCHANGED <<profile, config, accepted>>,
         \A r \in Rounds : \A s \in Sources :
           /\ row'[r][s].status # "none" <=> row[r][s].status # "none"
           /\ row'[r][s].domain = row[r][s].domain,
         \A r \in Rounds : round'[r].status = "none" => round[r].status = "none",
         \A p \in Process : call'[p].step \in {"read", "written"} =>
           \/ /\ call[p].step \in {"read", "written"} /\ call'[p].round = call[p].round
              /\ call'[p].source = call[p].source /\ call'[p].new = call[p].new
           \/ /\ row[call'[p].round][call'[p].source].status # "none"
              /\ call'[p].new.status # "none"
              /\ call'[p].new.domain = row[call'[p].round][call'[p].source].domain
  PROVE  GateInv'
<1>1. TermsAccepted' /\ TwoGates' /\ UnopenedIsEmpty'
  BY DEF GateInv, TermsAccepted, Accepted, TwoGates, UnopenedIsEmpty, Listed
<1>2. ASSUME NEW p \in Process, call'[p].step \in {"read", "written"}
      PROVE  LET q == row'[call'[p].round][call'[p].source] IN
             q.status # "none" /\ call'[p].new.status # "none" /\ call'[p].new.domain = q.domain
  <2>1. call'[p] \in Reporting
    BY <1>2 DEF RoundTypes, Call, Idle, Reporting, Ending
  <2>2. call'[p].round \in Rounds /\ call'[p].source \in Sources
    BY <2>1 DEF Reporting
  <2> QED
    BY <1>2, <2>2 DEF GateInv, ReportsListed
<1> QED
  BY <1>1, <1>2 DEF GateInv, ReportsListed

(* A batch writes the row of a source of the round. *)
LEMMA TakeGates ==
  ASSUME RoundTypes, GateInv, NEW r \in Rounds, NEW b \in Batch, TakeBatch(r, b)
  PROVE  GateInv'
<1>1. RoundTypes'
  BY TakeTypes
<1>2. b.source \in Sources /\ Takes(r, b.source)
  BY DEF Batch, TakeBatch
<1>3. row[r] \in [Sources -> Row] /\ row[r][b.source] \in Row
  BY <1>2 DEF RoundTypes
<1>4. /\ TakenRow(row[r][b.source], b).status \in {"completed", "running"}
      /\ TakenRow(row[r][b.source], b).domain = row[r][b.source].domain
  BY <1>3, TakenRowIs
<1>5. row[r][b.source].status \in {"ready", "running"}
  BY <1>2 DEF Takes
<1>6. \A q \in Rounds : \A s \in Sources :
        /\ row'[q][s].status # "none" <=> row[q][s].status # "none"
        /\ row'[q][s].domain = row[q][s].domain
  <2>1. row' = [row EXCEPT ![r] = TakenRows(r, b)]
    BY DEF TakeBatch
  <2>2. TakenRows(r, b) = [row[r] EXCEPT ![b.source] = TakenRow(row[r][b.source], b)]
    BY DEF TakenRows
  <2> QED
    BY <2>1, <2>2, <1>3, <1>4, <1>5 DEF RoundTypes
<1>7. \A q \in Rounds : round'[q].status = "none" => round[q].status = "none"
  <2>1. TakenRound(r, b).status # "none"
    BY <1>2, TakenRoundIs DEF Verdicts
  <2> QED
    BY <2>1 DEF TakeBatch, RoundTypes
<1> QED
  BY <1>1, <1>6, <1>7, KeptGates DEF TakeBatch, sourceVars

(* A report reads the row of a source of the round. *)
LEMMA BeginGates ==
  ASSUME RoundTypes, GateInv, NEW p \in Process, NEW r \in Rounds, NEW s \in Sources,
         NEW status, NEW said, Begins(p, r, s, status, said)
  PROVE  GateInv'
<1>1. RoundTypes'
  BY ReportTypes DEF Begins
<1>2. row[r][s] \in Row /\ row[r][s].status # "none"
  BY DEF RoundTypes, Begins, Report
<1>3. /\ ReportedRow(row[r][s], status, said).status # "none"
      /\ ReportedRow(row[r][s], status, said).domain = row[r][s].domain
  BY <1>2, ReportedRowIs DEF Begins
<1>4. call' = [call EXCEPT ![p] = CallOf(r, s, status, said)]
  BY DEF Begins, Report, CallOf
<1>5. \A q \in Process : q # p => call'[q] = call[q]
  BY <1>4 DEF RoundTypes
<1>6. /\ call'[p].round = r /\ call'[p].source = s
      /\ call'[p].new = ReportedRow(row[r][s], status, said)
  <2>1. call'[p] = CallOf(r, s, status, said)
    BY <1>4 DEF RoundTypes
  <2> QED
    BY <2>1 DEF CallOf
<1> QED
  BY <1>1, <1>2, <1>3, <1>5, <1>6, KeptGates DEF Begins, roundVars

(* A report writes the row it read, at its site. *)
LEMMA ContinueGates ==
  ASSUME RoundTypes, GateInv, NEW p \in Process, Continue(p)
  PROVE  GateInv'
<1>1. RoundTypes'
  BY ContinueTypes
<1>2. CASE WriteRow(p)
  <2>1. call[p] \in Reporting
    BY <1>2, CallStep DEF WriteRow
  <2> DEFINE q == call[p].round
             s == call[p].source
  <2>2. q \in Rounds /\ s \in Sources
    BY <2>1 DEF Reporting
  <2>3. /\ row[q][s].status # "none" /\ call[p].new.status # "none"
        /\ call[p].new.domain = row[q][s].domain
    BY <1>2 DEF WriteRow, GateInv, ReportsListed
  <2>4. row' = [row EXCEPT ![q][s] = call[p].new]
    BY <1>2 DEF WriteRow
  <2>5. \A x \in Rounds : \A y \in Sources :
          /\ row'[x][y].status # "none" <=> row[x][y].status # "none"
          /\ row'[x][y].domain = row[x][y].domain
    BY <2>2, <2>3, <2>4 DEF RoundTypes
  <2>6. call' = [call EXCEPT ![p] = [call[p] EXCEPT !.step = "written"]]
    BY <1>2 DEF WriteRow
  <2>7. \A x \in Process : x # p => call'[x] = call[x]
    BY <2>6 DEF RoundTypes
  <2>8. call[p].step = "read" /\ call'[p].round = q /\ call'[p].source = s /\ call'[p].new = call[p].new
    BY <1>2, <2>1, <2>6 DEF WriteRow, RoundTypes, Reporting
  <2> QED
    BY <1>1, <1>2, <2>5, <2>7, <2>8, KeptGates DEF WriteRow, sourceVars
<1>3. CASE JudgeRows(p)
  <2>1. \A x \in Process : call'[x].step \in {"read", "written"} => call'[x] = call[x]
    BY <1>3 DEF JudgeRows, RoundTypes, Idle
  <2> QED
    BY <1>1, <1>3, <2>1, KeptGates DEF JudgeRows, sourceVars, roundVars
<1>4. CASE CloseRound(p)
  <2>1. \A x \in Process : call'[x].step \in {"read", "written"} => call'[x] = call[x]
    BY <1>4 DEF CloseRound, RoundTypes, Idle
  <2>2. call[p] \in Ending
    BY <1>4, CallStep DEF CloseRound
  <2>3. call[p].round \in Rounds /\ call[p].verdict \in Verdicts
    BY <2>2 DEF Ending
  <2>4. \A q \in Rounds : round'[q].status = "none" => round[q].status = "none"
    <3>1. round[call[p].round] \in Round
      BY <2>3 DEF RoundTypes
    <3>2. round' = [round EXCEPT ![call[p].round] = Closed(round[call[p].round], call[p].verdict)]
      BY <1>4 DEF CloseRound
    <3>3. Closed(round[call[p].round], call[p].verdict).status = "none" => round[call[p].round].status = "none"
      BY <2>3, <3>1, ClosedRound DEF Verdicts
    <3> QED
      BY <3>2, <3>3 DEF RoundTypes
  <2> QED
    BY <1>1, <1>4, <2>1, <2>4, KeptGates DEF CloseRound, sourceVars
<1> QED
  BY <1>2, <1>3, <1>4 DEF Continue

(* Every step keeps the gates. *)
LEMMA StepGates ==
  ASSUME RoundTypes, GateInv, RoundsStep
  PROVE  GateInv'
<1>1. CASE UNCHANGED roundsVars
  BY <1>1 DEF roundsVars, sourceVars, roundVars, GateInv, TermsAccepted, Accepted, TwoGates,
              UnopenedIsEmpty, ReportsListed, Listed
<1>2. CASE Dies
  <2>1. RoundTypes'
    BY <1>2, StepTypes
  <2>2. \A x \in Process : call'[x].step \in {"read", "written"} => call'[x] = call[x]
    BY <1>2 DEF Dies, RoundTypes, Idle
  <2> QED
    BY <1>2, <2>1, <2>2, KeptGates DEF Dies, sourceVars, roundVars
<1> QED
  BY <1>1, <1>2, EditGates, OpenGates, TakeGates, BeginGates, ContinueGates DEF RoundsStep

(* At the beginning the sources with terms are those that were accepted, and no round is open. *)
LEMMA InitGates == RoundsInit => GateInv
<1> SUFFICES ASSUME RoundsInit PROVE GateInv
  OBVIOUS
<1>1. PICK ready \in SUBSET Sources :
         /\ config = [s \in Sources |->
              IF s \in ready THEN [Fresh(Home[s]) EXCEPT !.terms = TRUE, !.readiness = "ready"]
                             ELSE Fresh(Home[s])]
         /\ accepted = {<<s, Home[s]>> : s \in ready}
  BY DEF RoundsInit
<1>2. TermsAccepted
  <2>1. ASSUME NEW s \in Sources
        PROVE  config[s].domain = Home[s] /\ (config[s].terms => s \in ready)
    <3>1. Home[s] \in Domains
      BY SourceAssumption
    <3>2. ~Fresh(Home[s]).terms /\ Fresh(Home[s]).domain = Home[s]
      BY <3>1, FreshConfig
    <3>3. [Fresh(Home[s]) EXCEPT !.terms = TRUE, !.readiness = "ready"].domain = Home[s]
      BY DEF Fresh
    <3>4. config[s] = IF s \in ready THEN [Fresh(Home[s]) EXCEPT !.terms = TRUE, !.readiness = "ready"]
                                    ELSE Fresh(Home[s])
      BY <1>1
    <3> QED
      BY <3>2, <3>3, <3>4
  <2>2. \A s \in ready : <<s, Home[s]>> \in accepted
    BY <1>1
  <2> QED
    BY <2>1, <2>2 DEF TermsAccepted, Accepted
<1>3. \A r \in Rounds : Listed(row[r]) = {}
  BY DEF RoundsInit, Listed
<1>4. ReportsListed
  BY DEF RoundsInit, ReportsListed, Idle
<1> QED
  BY <1>2, <1>3, <1>4 DEF GateInv, TwoGates, UnopenedIsEmpty

-----------------------------------------------------------------------------
(* The end of a round *)

\* Once all the sources of a running round have ended, a report is about to end it.
EndInv ==
  \A r \in Rounds :
    round[r].status = "running" /\ AllIn(row[r], Done) => Deciding(r) \/ pc = "dead"

(* A round that just opened has a source that has not ended. *)
LEMMA OpenEnds ==
  ASSUME RoundTypes, NEW r \in Rounds, NEW wanted \in SUBSET Sources, OpenRound(r, wanted)
  PROVE  ~AllIn(row'[r], Done)
<1>1. PICK s \in wanted : Readiness(s) = "ready"
  BY DEF OpenRound
<1>2. row'[r][s].status = "ready"
  BY <1>1 DEF OpenRound, RoundTypes
<1> QED
  BY <1>1, <1>2 DEF AllIn, Listed, Done

(* Of the two that may end a round, a batch and a report, the one that comes last sees that *)
(* all sources have ended. *)
LEMMA StepEnds ==
  ASSUME RoundTypes, EndInv, RoundsStep, pc = "dead" => pc' = "dead", Dies => pc' = "dead"
  PROVE  EndInv'
<1>1. CASE UNCHANGED <<round, row, call>>
  BY <1>1 DEF EndInv, Deciding
<1>2. ASSUME NEW r \in Rounds, NEW wanted \in SUBSET Sources, OpenRound(r, wanted)
      PROVE  EndInv'
  <2>1. \A q \in Rounds \ {r} : round'[q] = round[q] /\ row'[q] = row[q]
    BY <1>2 DEF OpenRound, RoundTypes
  <2> QED
    BY <1>2, <2>1, OpenEnds DEF EndInv, Deciding, OpenRound
<1>3. ASSUME NEW r \in Rounds, NEW b \in Batch, TakeBatch(r, b)
      PROVE  EndInv'
  <2>1. \A q \in Rounds \ {r} : round'[q] = round[q] /\ row'[q] = row[q]
    BY <1>3 DEF TakeBatch, RoundTypes
  <2>2. row'[r] = TakenRows(r, b) /\ round'[r] = TakenRound(r, b)
    BY <1>3 DEF TakeBatch, RoundTypes
  <2>3. AllIn(row'[r], Done) => round'[r].status # "running"
    BY <1>3, <2>2, TakenRoundIs DEF TakeBatch, Verdicts
  <2> QED
    BY <1>3, <2>1, <2>3 DEF EndInv, Deciding, TakeBatch
<1>4. ASSUME NEW p \in Process, NEW r \in Rounds, NEW s \in Sources, NEW status, NEW said,
             Begins(p, r, s, status, said)
      PROVE  EndInv'
  <2>1. call[p].step = "idle" /\ \A q \in Process \ {p} : call'[q] = call[q]
    BY <1>4 DEF Begins, Report, RoundTypes
  <2> QED
    BY <1>4, <2>1 DEF Begins, roundVars, EndInv, Deciding
<1>5. ASSUME NEW p \in Process, WriteRow(p)
      PROVE  EndInv'
  <2>1. call[p] \in Reporting
    BY <1>5, CallStep DEF WriteRow
  <2>2. call' = [call EXCEPT ![p] = [call[p] EXCEPT !.step = "written"]]
    BY <1>5 DEF WriteRow
  <2>3. \A q \in Process \ {p} : call'[q] = call[q]
    BY <2>2 DEF RoundTypes
  <2>4. call'[p].step = "written" /\ call'[p].round = call[p].round
    BY <2>1, <2>2 DEF RoundTypes, Reporting
  <2>5. \A q \in Rounds : q # call[p].round => row'[q] = row[q]
    BY <1>5 DEF WriteRow, RoundTypes
  <2> QED
    BY <1>5, <2>3, <2>4, <2>5 DEF WriteRow, EndInv, Deciding
<1>6. ASSUME NEW p \in Process, JudgeRows(p)
      PROVE  EndInv'
  <2> DEFINE r == call[p].round
  <2>1. \A q \in Process \ {p} : call'[q] = call[q]
    BY <1>6 DEF JudgeRows, RoundTypes
  <2>2. call'[p] = IF AllIn(row[r], Resting)
                   THEN [step |-> "judged", round |-> r, verdict |-> Verdict(row[r], Failing)] ELSE Idle
    BY <1>6 DEF JudgeRows, Judged, RoundTypes
  <2>3. AllIn(row[r], Done) => call'[p].step = "judged" /\ call'[p].round = r
    BY <2>2 DEF AllIn, Resting
  <2> QED
    BY <1>6, <2>1, <2>3 DEF JudgeRows, roundVars, EndInv, Deciding
<1>7. ASSUME NEW p \in Process, CloseRound(p)
      PROVE  EndInv'
  <2> DEFINE r == call[p].round
  <2>1. \A q \in Process \ {p} : call'[q] = call[q]
    BY <1>7 DEF CloseRound, RoundTypes
  <2>2. call[p] \in Ending
    BY <1>7, CallStep DEF CloseRound
  <2>3. r \in Rounds /\ call[p].verdict \in Verdicts
    BY <2>2 DEF Ending
  <2>4. round' = [round EXCEPT ![r] = Closed(round[r], call[p].verdict)]
    BY <1>7 DEF CloseRound
  <2>5. round'[r].status # "running" /\ \A q \in Rounds \ {r} : round'[q] = round[q]
    BY <2>3, <2>4, ClosedRound DEF RoundTypes, Verdicts
  <2> QED
    BY <1>7, <2>1, <2>5 DEF CloseRound, EndInv, Deciding
<1>8. CASE EditSources
  <2>1. UNCHANGED <<round, row, call>>
    BY <1>8 DEF EditSources, ConfirmProfile, ApproveTerms, DeleteSource, SetReadiness, UpsertSource,
                Edited, roundVars
  <2> QED
    BY <1>1, <2>1
<1>9. CASE Dies
  BY <1>9 DEF EndInv
<1>10. CASE UNCHANGED roundsVars
  BY <1>1, <1>10 DEF roundsVars, roundVars
<1> QED
  BY <1>2, <1>3, <1>4, <1>5, <1>6, <1>7, <1>8, <1>9, <1>10 DEF RoundsStep, Continue

(* No step changes a round that ended. *)
LEMMA StepFinal ==
  ASSUME RoundTypes, RoundsStep, NEW r \in Rounds, round[r].status \in Verdicts
  PROVE  round'[r] = round[r]
<1>1. ASSUME NEW q \in Rounds, NEW wanted \in SUBSET Sources, OpenRound(q, wanted)
      PROVE  round'[r] = round[r]
  BY <1>1 DEF OpenRound, RoundTypes, Verdicts
<1>2. ASSUME NEW q \in Rounds, NEW b \in Batch, TakeBatch(q, b)
      PROVE  round'[r] = round[r]
  BY <1>2 DEF TakeBatch, Takes, RoundTypes, Verdicts
<1>3. ASSUME NEW p \in Process, CloseRound(p)
      PROVE  round'[r] = round[r]
  BY <1>3 DEF CloseRound, Closed, RoundTypes, Verdicts
<1>4. ASSUME NEW p \in Process, WriteRow(p) \/ JudgeRows(p)
      PROVE  round'[r] = round[r]
  BY <1>4 DEF WriteRow, JudgeRows, roundVars
<1>5. CASE EditSources
  BY <1>5 DEF EditSources, ConfirmProfile, ApproveTerms, DeleteSource, SetReadiness, UpsertSource,
              Edited, roundVars
<1> QED
  BY <1>1, <1>2, <1>3, <1>4, <1>5 DEF RoundsStep, Continue, Begins, Dies, roundsVars, roundVars

-----------------------------------------------------------------------------
(* The counters of a round *)

\* The items of a set of batches, each with its batch.
ItemsIn(T) == UNION {{b} \X DOMAIN b.items : b \in T}

CountInv ==
  \A r \in Rounds :
    /\ IsFiniteSet(taken[r]) /\ IsFiniteSet(ItemsIn(taken[r]))
    /\ round[r].status = "none" => taken[r] = {}
    /\ round[r].batches = Cardinality(taken[r])
    /\ round[r].received = Cardinality(ItemsIn(taken[r]))

(* A batch that is not among them adds one to the batches and its items to the items. *)
LEMMA OneMoreBatch ==
  ASSUME NEW T \in SUBSET Batch, IsFiniteSet(T), IsFiniteSet(ItemsIn(T)), NEW b \in Batch, b \notin T
  PROVE  /\ IsFiniteSet(T \cup {b}) /\ Cardinality(T \cup {b}) = Cardinality(T) + 1
         /\ IsFiniteSet(ItemsIn(T \cup {b}))
         /\ Cardinality(ItemsIn(T \cup {b})) = Cardinality(ItemsIn(T)) + Len(b.items)
<1>1. IsFiniteSet(T \cup {b}) /\ Cardinality(T \cup {b}) = Cardinality(T) + 1
  BY FS_AddElement
<1> DEFINE own == {b} \X DOMAIN b.items
<1>2. Len(b.items) \in Nat /\ DOMAIN b.items = 1..Len(b.items)
  BY BatchSize
<1>3. IsFiniteSet({b}) /\ Cardinality({b}) = 1
  BY FS_Singleton
<1>4. IsFiniteSet(DOMAIN b.items) /\ Cardinality(DOMAIN b.items) = Len(b.items)
  <2>1. PICK n \in Nat : n = Len(b.items) /\ DOMAIN b.items = 1..n
    BY <1>2
  <2>2. IsFiniteSet(1..n) /\ Cardinality(1..n) = IF 1 > n THEN 0 ELSE n - 1 + 1
    BY FS_Interval
  <2>3. Cardinality(1..n) = n
    BY <2>2
  <2> QED
    BY <2>1, <2>2, <2>3
<1>5. IsFiniteSet(own) /\ Cardinality(own) = 1 * Cardinality(DOMAIN b.items)
  BY <1>3, <1>4, FS_Product
<1>6. Cardinality(own) = Len(b.items)
  BY <1>2, <1>4, <1>5
<1>7. Cardinality(ItemsIn(T)) \in Nat
  BY FS_CardinalityType
<1>8. ItemsIn(T \cup {b}) = ItemsIn(T) \cup own
  BY Zenon DEF ItemsIn
<1>9. ItemsIn(T) \cap own = {}
  BY DEF ItemsIn
<1>10. /\ IsFiniteSet(ItemsIn(T) \cup own)
       /\ Cardinality(ItemsIn(T) \cup own)
            = Cardinality(ItemsIn(T)) + Cardinality(own) - Cardinality(ItemsIn(T) \cap own)
  BY <1>5, FS_Union
<1>11. Cardinality(ItemsIn(T) \cap own) = 0
  BY <1>9, FS_EmptySet
<1> HIDE DEF own
<1>12. Cardinality(ItemsIn(T \cup {b})) = Cardinality(ItemsIn(T)) + Len(b.items)
  <2>1. PICK m \in Nat, n \in Nat : m = Cardinality(ItemsIn(T)) /\ n = Len(b.items)
    BY <1>2, <1>7
  <2>2. Cardinality(ItemsIn(T \cup {b})) = m + n - 0
    BY <1>6, <1>8, <1>10, <1>11, <2>1
  <2>3. m + n - 0 = m + n
    OBVIOUS
  <2> QED
    BY <2>1, <2>2, <2>3
<1> QED
  BY <1>1, <1>8, <1>10, <1>12

(* Only a batch that was not taken before counts. *)
LEMMA StepCounts ==
  ASSUME RoundTypes, CountInv, RoundsStep
  PROVE  CountInv'
<1>1. CASE UNCHANGED <<round, taken>>
  BY <1>1 DEF CountInv
<1>2. ASSUME NEW r \in Rounds, NEW wanted \in SUBSET Sources, OpenRound(r, wanted)
      PROVE  CountInv'
  <2>1. \A q \in Rounds : q # r => round'[q] = round[q]
    BY <1>2 DEF OpenRound, RoundTypes
  <2>2. taken' = taken /\ taken[r] = {}
    BY <1>2 DEF OpenRound, CountInv
  <2>3. round'[r].status = "running" /\ round'[r].batches = 0 /\ round'[r].received = 0
    BY <1>2 DEF OpenRound, RoundTypes, NoRound
  <2>4. ItemsIn({}) = {} /\ Cardinality({}) = 0 /\ IsFiniteSet({})
    BY FS_EmptySet DEF ItemsIn
  <2> QED
    BY <2>1, <2>2, <2>3, <2>4 DEF CountInv
<1>3. ASSUME NEW r \in Rounds, NEW b \in Batch, TakeBatch(r, b)
      PROVE  CountInv'
  <2>1. \A q \in Rounds \ {r} : round'[q] = round[q] /\ taken'[q] = taken[q]
    BY <1>3 DEF TakeBatch, RoundTypes
  <2>2. taken'[r] = taken[r] \cup {b} /\ round'[r] = TakenRound(r, b) /\ b \notin taken[r]
    BY <1>3 DEF TakeBatch, RoundTypes, Repeated
  <2>3. taken[r] \in SUBSET Batch /\ IsFiniteSet(taken[r]) /\ IsFiniteSet(ItemsIn(taken[r]))
    BY DEF RoundTypes, CountInv
  <2>4. /\ IsFiniteSet(taken'[r]) /\ Cardinality(taken'[r]) = Cardinality(taken[r]) + 1
        /\ IsFiniteSet(ItemsIn(taken'[r]))
        /\ Cardinality(ItemsIn(taken'[r])) = Cardinality(ItemsIn(taken[r])) + Len(b.items)
    BY <2>2, <2>3, OneMoreBatch
  <2>5. /\ round'[r].batches = round[r].batches + 1 /\ round'[r].status # "none"
        /\ round'[r].received = round[r].received + Len(b.items)
    BY <1>3, <2>2, TakenRoundIs DEF TakeBatch, Verdicts
  <2> QED
    BY <2>1, <2>4, <2>5 DEF CountInv
<1>4. ASSUME NEW p \in Process, CloseRound(p)
      PROVE  CountInv'
  <2> DEFINE r == call[p].round
  <2>1. call[p] \in Ending
    BY <1>4, CallStep DEF CloseRound
  <2>2. r \in Rounds /\ call[p].verdict \in Verdicts /\ round[r] \in Round
    BY <2>1 DEF Ending, RoundTypes
  <2>3. round' = [round EXCEPT ![r] = Closed(round[r], call[p].verdict)]
    BY <1>4 DEF CloseRound
  <2>4. /\ \A q \in Rounds : round'[q].batches = round[q].batches /\ round'[q].received = round[q].received
        /\ \A q \in Rounds : round'[q].status = "none" => round[q].status = "none"
    BY <2>2, <2>3, ClosedRound DEF RoundTypes, Verdicts
  <2> QED
    BY <1>4, <2>4 DEF CloseRound, CountInv
<1>5. CASE EditSources
  BY <1>1, <1>5 DEF EditSources, ConfirmProfile, ApproveTerms, DeleteSource, SetReadiness, UpsertSource,
              Edited, roundVars
<1> QED
  BY <1>1, <1>2, <1>3, <1>4, <1>5 DEF RoundsStep, Continue, WriteRow, JudgeRows, Begins, Dies,
                                     roundsVars, roundVars

-----------------------------------------------------------------------------
(* What the collector fetches *)

(* An element of a sequence is of the set the sequence is over. *)
LEMMA ElementType ==
  ASSUME NEW S, NEW q \in Seq(S), NEW i \in DOMAIN q
  PROVE  q[i] \in S
OBVIOUS

(* One list after another has the elements of both. *)
LEMMA ConcatIs ==
  ASSUME NEW S, NEW p \in Seq(S), NEW q \in Seq(S)
  PROVE  /\ \A n \in DOMAIN p : n \in DOMAIN (p \o q) /\ (p \o q)[n] = p[n]
         /\ \A n \in DOMAIN q : Len(p) + n \in DOMAIN (p \o q) /\ (p \o q)[Len(p) + n] = q[n]
<1>1. DOMAIN p = 1..Len(p) /\ DOMAIN q = 1..Len(q) /\ Len(p) \in Nat /\ Len(q) \in Nat
  OBVIOUS
<1>2. DOMAIN (p \o q) = 1..(Len(p) + Len(q))
  OBVIOUS
<1>3. ASSUME NEW n \in 1..Len(p)
      PROVE  n \in 1..(Len(p) + Len(q)) /\ (p \o q)[n] = p[n]
  BY <1>1
<1>4. ASSUME NEW n \in 1..Len(q)
      PROVE  Len(p) + n \in 1..(Len(p) + Len(q)) /\ (p \o q)[Len(p) + n] = q[n]
  BY <1>1
<1> QED
  BY <1>1, <1>2, <1>3, <1>4

(* A place among the items of a company is one of its pages and a record of it. *)
LEMMA KeptPlaces ==
  ASSUME NEW c \in Companies, NEW x \in Kept(c)
  PROVE  x[1] \in DOMAIN Pages[c] /\ x[2] \in DOMAIN Pages[c][x[1]] /\ ItemAt(c, x) \in Item
<1>1. PICK n \in DOMAIN Pages[c] \cap 1..PageLimit : x \in {n} \X Collected(Pages[c][n])
  BY DEF Kept
<1>2. x[1] = n /\ x[2] \in DOMAIN Pages[c][n]
  BY <1>1 DEF Collected
<1>3. Pages[c] \in Seq(Seq([item : Item, own : BOOLEAN, whole : BOOLEAN]))
  BY CompanyAssumption
<1>4. Pages[c][n] \in Seq([item : Item, own : BOOLEAN, whole : BOOLEAN])
  BY <1>3
<1>5. Pages[c][n][x[2]] \in [item : Item, own : BOOLEAN, whole : BOOLEAN]
  BY <1>2, <1>4, ElementType
<1> QED
  BY <1>2, <1>5 DEF ItemAt

(* A company has finitely many. *)
LEMMA KeptIsFinite ==
  ASSUME NEW c \in Companies
  PROVE  IsFiniteSet(Kept(c)) /\ Cardinality(Kept(c)) \in Nat
<1> DEFINE D == DOMAIN Pages[c] \cap 1..PageLimit
           F == [n \in D |-> {n} \X Collected(Pages[c][n])]
           T == {{n} \X Collected(Pages[c][n]) : n \in D}
<1>1. Pages[c] \in Seq(Seq([item : Item, own : BOOLEAN, whole : BOOLEAN]))
  BY CompanyAssumption
<1>2. IsFiniteSet(D)
  <2>1. PICK n \in Nat : DOMAIN Pages[c] = 1..n
    BY <1>1
  <2>2. IsFiniteSet(DOMAIN Pages[c])
    <3>1. 1 \in Int /\ n \in Int
      OBVIOUS
    <3>2. IsFiniteSet(1..n)
      BY <3>1, FS_Interval, Zenon
    <3> QED
      BY <2>1, <3>2, Zenon
  <2>3. D \in SUBSET DOMAIN Pages[c]
    OBVIOUS
  <2> QED
    BY <2>2, <2>3, FS_Subset
<1>3. F \in Surjection(D, T)
  BY DEF Surjection
<1>4. IsFiniteSet(T)
  <2> HIDE DEF D, F, T
  <2> QED
    BY <1>2, <1>3, FS_Surjection
<1>5. ASSUME NEW n \in D
      PROVE  IsFiniteSet({n} \X Collected(Pages[c][n]))
  <2>1. Pages[c][n] \in Seq([item : Item, own : BOOLEAN, whole : BOOLEAN])
    BY <1>1
  <2>2. DOMAIN Pages[c][n] = 1..Len(Pages[c][n]) /\ Len(Pages[c][n]) \in Nat
    BY <2>1
  <2>3. IsFiniteSet(DOMAIN Pages[c][n])
    BY <2>2, FS_Interval
  <2>4. Collected(Pages[c][n]) \in SUBSET DOMAIN Pages[c][n]
    BY DEF Collected
  <2>5. IsFiniteSet(Collected(Pages[c][n]))
    BY <2>3, <2>4, FS_Subset
  <2>6. IsFiniteSet({n})
    BY FS_Singleton
  <2> QED
    BY <2>5, <2>6, FS_Product
<1>6. IsFiniteSet(UNION T)
  <2>1. \A t \in T : IsFiniteSet(t)
    BY <1>5
  <2> HIDE DEF T
  <2> QED
    BY <1>4, <2>1, FS_UNION
<1>7. Kept(c) = UNION T
  BY DEF Kept
<1> QED
  BY <1>6, <1>7, FS_CardinalityType

\* What the answer of a company adds to the items of its source.
ItemList(c, list) == [n \in DOMAIN list |-> ItemAt(c, list[n])]

(* The answer of a company is a list of all its vacancies. *)
LEMMA AnswerList ==
  ASSUME NEW c \in Companies, NEW list \in [1..Cardinality(Kept(c)) -> Kept(c)]
  PROVE  /\ ItemList(c, list) \in Seq(Item)
         /\ InOrder(list, c) => \A i \in Vacancies(c) : \E n \in DOMAIN ItemList(c, list) : ItemList(c, list)[n] = i
<1>1. Cardinality(Kept(c)) \in Nat
  BY KeptIsFinite
<1>2. \A n \in 1..Cardinality(Kept(c)) : ItemAt(c, list[n]) \in Item
  BY KeptPlaces
<1>3. DOMAIN list = 1..Cardinality(Kept(c))
  OBVIOUS
<1>4. ItemList(c, list) \in Seq(Item)
  <2>1. PICK k \in Nat : Cardinality(Kept(c)) = k
    BY <1>1
  <2>2. ItemList(c, list) \in [1..k -> Item]
    BY <1>2, <1>3, <2>1 DEF ItemList
  <2> QED
    BY <2>2
<1>5. ASSUME InOrder(list, c), NEW i \in Vacancies(c)
      PROVE  \E n \in DOMAIN ItemList(c, list) : ItemList(c, list)[n] = i
  <2>1. PICK x \in Kept(c) : ItemAt(c, x) = i
    BY DEF Vacancies
  <2>2. PICK n \in DOMAIN list : list[n] = x
    BY <1>5, <2>1 DEF InOrder
  <2> QED
    BY <2>1, <2>2 DEF ItemList
<1> QED
  BY <1>4, <1>5

-----------------------------------------------------------------------------
(* The batches of a source *)

(* Each item is in a batch, the last of which is the one of the last item. *)
LEMMA ChunkBounds ==
  ASSUME NEW m \in Nat, NEW n \in Nat, 1 <= m, m <= n
  PROVE  ChunkOf(m) \in Nat /\ 1 <= ChunkOf(m) /\ ChunkOf(m) <= ChunkOf(n)
<1>1. PICK k \in Nat \ {0} : k = Chunk
  BY LimitAssumption
<1>2. PICK a \in Nat, b \in Nat : a = m - 1 /\ b = n - 1 /\ a <= b
  OBVIOUS
<1> DEFINE p == a \div k
           q == b \div k
<1>3. p \in Nat /\ q \in Nat
  OBVIOUS
<1>4. p * k <= a /\ b < (q + 1) * k
  BY Z3
<1>5. p <= q
  <2> HIDE DEF p, q
  <2>1. SUFFICES ASSUME q + 1 <= p PROVE FALSE
    BY <1>3
  <2>2. (q + 1) * k <= p * k
    BY <1>3, <2>1, Z3
  <2> QED
    BY <1>2, <1>3, <1>4, <2>2, Z3
<1>6. ChunkOf(m) = p + 1 /\ ChunkOf(n) = q + 1
  BY <1>1, <1>2 DEF ChunkOf
<1> HIDE DEF p, q
<1> QED
  BY <1>3, <1>5, <1>6

(* The k-th batch of n items ends after k chunks of items, the last one after the items. *)
LEMMA SliceBounds ==
  ASSUME NEW n \in Nat, NEW k \in Nat, 1 <= k, k <= Batches(n)
  PROVE  /\ (k - 1) * Chunk \in Nat /\ (k - 1) * Chunk <= n /\ k * Chunk \in Nat
         /\ k < Batches(n) => k * Chunk <= n
<1>1. PICK c \in Nat \ {0} : c = Chunk
  BY LimitAssumption
<1>2. (k - 1) * c \in Nat /\ k * c \in Nat
  OBVIOUS
<1>3. CASE n = 0
  <2>1. k = 1
    BY <1>3 DEF Batches
  <2> QED
    BY <1>1, <1>3, <2>1 DEF Batches
<1>4. CASE n # 0
  <2>1. PICK a \in Nat : a = n - 1
    BY <1>4
  <2> DEFINE p == a \div c
  <2>2. p \in Nat /\ p * c <= a
    BY Z3
  <2>3. Batches(n) = p + 1
    BY <1>1, <1>4, <2>1 DEF Batches, ChunkOf
  <2> HIDE DEF p
  <2>4. ASSUME NEW j \in Nat, j <= p
        PROVE  j * c <= n
    <3>1. j * c <= p * c
      BY <2>2, <2>4, Z3
    <3>2. j * c \in Nat /\ p * c \in Nat
      BY <2>2
    <3> QED
      BY <2>1, <2>2, <3>1, <3>2, Z3
  <2>5. (k - 1) * c <= n
    <3>1. k - 1 \in Nat /\ k - 1 <= p
      BY <2>2, <2>3
    <3> QED
      BY <2>4, <3>1
  <2>6. k < Batches(n) => k * c <= n
    BY <2>2, <2>3, <2>4
  <2> QED
    BY <1>1, <1>2, <2>5, <2>6
<1> QED
  BY <1>3, <1>4

(* The m-th item is among those of its batch. *)
LEMMA SliceOf ==
  ASSUME NEW m \in Nat, 1 <= m
  PROVE  (ChunkOf(m) - 1) * Chunk < m /\ m <= ChunkOf(m) * Chunk
<1>1. PICK c \in Nat \ {0} : c = Chunk
  BY LimitAssumption
<1>2. PICK a \in Nat : a = m - 1
  OBVIOUS
<1> DEFINE p == a \div c
<1>3. p \in Nat /\ p * c <= a /\ a < (p + 1) * c
  BY Z3
<1>4. ChunkOf(m) = p + 1
  BY <1>1, <1>2 DEF ChunkOf
<1> HIDE DEF p
<1>5. (p + 1) - 1 = p /\ p * c \in Nat /\ (p + 1) * c \in Nat
  BY <1>3
<1>6. p * c < m /\ m <= (p + 1) * c
  BY <1>2, <1>3, <1>5
<1> QED
  BY <1>1, <1>4, <1>5, <1>6

(* A slice of a list has the elements between its ends. *)
LEMMA SliceIs ==
  ASSUME NEW S, NEW q \in Seq(S), NEW a \in Nat, NEW b \in Nat, b <= Len(q)
  PROVE  /\ SubSeq(q, a + 1, b) \in Seq(S)
         /\ \A m \in Nat : a < m /\ m <= b =>
              m - a \in DOMAIN SubSeq(q, a + 1, b) /\ SubSeq(q, a + 1, b)[m - a] = q[m]
OBVIOUS

\* The items of a source that were fetched.
Fetched(s) == {fetched[s][n] : n \in DOMAIN fetched[s]}

(* The batches of a source are of that source and carry all that was fetched from it. *)
LEMMA ChunkedIs ==
  ASSUME CollectorTypes, NEW s \in Sources
  PROVE  /\ Chunked(s) \in Seq(Batch)
         /\ \A k \in DOMAIN Chunked(s) : Chunked(s)[k].source = s
         /\ \A i \in Fetched(s) : \E k \in DOMAIN Chunked(s) : Carries(Chunked(s)[k], i)
<1>1. fetched[s] \in Seq(Item)
  BY DEF CollectorTypes
<1>2. PICK n \in Nat : n = Len(fetched[s]) /\ DOMAIN fetched[s] = 1..n
  BY <1>1
<1>3. PICK last \in Nat : last = Batches(n) /\ (n # 0 => last = ChunkOf(n)) /\ 1 <= last
  <2>1. CASE n = 0
    BY <2>1 DEF Batches
  <2>2. CASE n # 0
    BY <2>2, ChunkBounds DEF Batches
  <2> QED
    BY <2>1, <2>2
<1> DEFINE end(k) == IF k < last THEN k * Chunk ELSE n
           items(k) == SubSeq(fetched[s], (k - 1) * Chunk + 1, end(k))
           f == [k \in 1..last |->
                  [source |-> s, items |-> items(k), cursor |-> IF k < last THEN k ELSE NoCursor]]
<1>4. Chunked(s) = f
  BY <1>2, <1>3 DEF Chunked
<1>5. ASSUME NEW k \in 1..last
      PROVE  (k - 1) * Chunk \in Nat /\ end(k) \in Nat /\ end(k) <= Len(fetched[s])
  BY <1>2, <1>3, SliceBounds
<1>6. ASSUME NEW k \in 1..last
      PROVE  f[k] \in Batch
  <2>1. items(k) \in Seq(Item)
    <3> HIDE DEF end
    <3> QED
      BY <1>1, <1>5, SliceIs
  <2>2. (IF k < last THEN k ELSE NoCursor) \in Cursor
    BY DEF Cursor
  <2>3. f[k] = [source |-> s, items |-> items(k), cursor |-> IF k < last THEN k ELSE NoCursor]
    OBVIOUS
  <2> HIDE DEF f, items
  <2> QED
    BY <2>1, <2>2, <2>3 DEF Batch
<1>7. f \in Seq(Batch) /\ DOMAIN f = 1..last
  <2>1. f \in [1..last -> Batch]
    <3>1. DOMAIN f = 1..last /\ f = [k \in 1..last |-> f[k]]
      OBVIOUS
    <3> HIDE DEF f
    <3> QED
      BY <1>6, <3>1
  <2> HIDE DEF f
  <2> QED
    BY <2>1
<1>8. ASSUME NEW i \in Fetched(s)
      PROVE  \E k \in 1..last : Carries(f[k], i)
  <2>1. PICK m \in 1..n : i = fetched[s][m]
    BY <1>2 DEF Fetched
  <2>2. PICK k \in 1..last : k = ChunkOf(m)
    BY <1>3, <2>1, ChunkBounds
  <2>3. (k - 1) * Chunk < m /\ m <= end(k)
    BY <2>1, <2>2, SliceOf
  <2>4. m - (k - 1) * Chunk \in DOMAIN items(k) /\ items(k)[m - (k - 1) * Chunk] = i
    <3> DEFINE a == (k - 1) * Chunk
               e == end(k)
               q == fetched[s]
    <3>1. a \in Nat /\ e \in Nat /\ e <= Len(q) /\ q \in Seq(Item)
      BY <1>1, <1>5
    <3>2. m \in Nat /\ a < m /\ m <= e /\ q[m] = i
      BY <2>1, <2>3
    <3> HIDE DEF a, e, q
    <3>3. m - a \in DOMAIN SubSeq(q, a + 1, e) /\ SubSeq(q, a + 1, e)[m - a] = i
      BY <3>1, <3>2, SliceIs
    <3> QED
      BY <3>3 DEF a, e, q
  <2>5. f[k].items = items(k)
    OBVIOUS
  <2> HIDE DEF f, items
  <2> QED
    BY <2>4, <2>5 DEF Carries
<1>9. \A k \in 1..last : f[k].source = s
  OBVIOUS
<1> HIDE DEF f
<1> QED
  BY <1>4, <1>7, <1>8, <1>9

-----------------------------------------------------------------------------
(* The collector's types *)

(* The answer of a company goes to the end of the items of its source. *)
LEMMA AnswerIs ==
  ASSUME CollectorTypes, NEW c \in Companies, AnswerLast(c)
  PROVE  \E l \in Seq(Item) :
           /\ fetched' = [fetched EXCEPT ![Connector[c]] = fetched[Connector[c]] \o l]
           /\ \A i \in Vacancies(c) : \E n \in DOMAIN l : l[n] = i
<1>1. PICK list \in [1..Cardinality(Kept(c)) -> Kept(c)] :
        /\ InOrder(list, c)
        /\ fetched' = [fetched EXCEPT ![Connector[c]] = fetched[Connector[c]] \o ItemList(c, list)]
  BY DEF AnswerLast, ItemList
<1> QED
  BY <1>1, AnswerList

\* The items of some places among what was fetched.
LEMMA PlacesAreItems ==
  ASSUME CollectorTypes
  PROVE  /\ Budgeted \subseteq Pending /\ ItemsOf(Budgeted) \subseteq ItemsOf(Pending)
         /\ ItemsOf(Pending) \subseteq Item
         /\ \A s \in Sources : Fetched(s) \cap Thin \subseteq ItemsOf(Pending)
<1>1. \A x \in Pending : x[1] \in Sources /\ x[2] \in DOMAIN fetched[x[1]]
  BY DEF Pending
<1>2. \A x \in Pending : fetched[x[1]][x[2]] \in Item
  BY <1>1, ElementType DEF CollectorTypes
<1>3. ASSUME NEW s \in Sources, NEW i \in Fetched(s) \cap Thin
      PROVE  i \in ItemsOf(Pending)
  <2>1. PICK n \in DOMAIN fetched[s] : i = fetched[s][n]
    BY <1>3 DEF Fetched
  <2>2. <<s, n>> \in Pending
    BY <1>3, <2>1 DEF Pending
  <2> QED
    BY <2>1, <2>2 DEF ItemsOf
<1> QED
  BY <1>2, <1>3 DEF Budgeted, ItemsOf

(* Until the delivery the collector keeps the types. *)
LEMMA GatherTypes ==
  ASSUME CollectorTypes, Gather, UNCHANGED <<roundsVars, queue>>
  PROVE  CollectorTypes'
<1>1. ASSUME NEW c \in Companies, Ask(c) \/ Answer(c) \/ AnswerFails(c) \/ AnswerRefused(c)
      PROVE  CollectorTypes'
  <2>1. answered' \in [Companies -> Nat]
    BY <1>1 DEF Ask, Answer, AnswerPage, AnswerFails, AnswerRefused, CollectorTypes
  <2>2. company' \in [Companies -> {"out", "todo", "asked", "ok", "failed", "skipped"}]
    BY <1>1 DEF Ask, Answer, AnswerFails, AnswerRefused, CollectorTypes
  <2> QED
    BY <1>1, <2>1, <2>2 DEF Ask, Answer, AnswerFails, AnswerRefused, Overspent, CollectorTypes
<1>2. ASSUME NEW c \in Companies, AnswerLast(c)
      PROVE  CollectorTypes'
  <2>1. PICK l \in Seq(Item) : fetched' = [fetched EXCEPT ![Connector[c]] = fetched[Connector[c]] \o l]
    BY <1>2, AnswerIs
  <2>2. Connector[c] \in Sources
    BY CompanyAssumption
  <2>3. fetched' \in [Sources -> Seq(Item)]
    BY <2>1, <2>2 DEF CollectorTypes
  <2>4. company' \in [Companies -> {"out", "todo", "asked", "ok", "failed", "skipped"}]
    BY <1>2 DEF AnswerLast, CollectorTypes
  <2>5. answered' \in [Companies -> Nat]
    BY <1>2 DEF AnswerLast, AnswerPage, CollectorTypes
  <2> QED
    BY <1>2, <2>3, <2>4, <2>5 DEF AnswerLast, CollectorTypes
<1>3. ASSUME NEW i \in Item, ReadPage(i) \/ PageRefused(i)
      PROVE  CollectorTypes'
  <2>1. page' \in [{"todo", "asked", "read"} -> SUBSET Item]
    BY <1>3 DEF ReadPage, PageRefused, Move, CollectorTypes
  <2> QED
    BY <1>3, <2>1 DEF ReadPage, PageRefused, Overspent, CollectorTypes
<1>4. ASSUME NEW i \in Item, NEW stage \in Stages, PageRead(i, stage)
      PROVE  CollectorTypes'
  <2>1. page' \in [{"todo", "asked", "read"} -> SUBSET Item]
    BY <1>4 DEF PageRead, Move, CollectorTypes
  <2>2. tail' \subseteq Item
    BY <1>4 DEF PageRead, CollectorTypes
  <2> QED
    BY <1>4, <2>1, <2>2 DEF PageRead, CollectorTypes
<1>5. CASE Deadline
  BY <1>5 DEF Deadline, CollectorTypes
<1>6. CASE StartPages
  <2>1. page' \in [{"todo", "asked", "read"} -> SUBSET Item] /\ tail' \subseteq Item
    BY <1>6, PlacesAreItems DEF StartPages, CollectorTypes
  <2> QED
    BY <1>6, <2>1 DEF StartPages, CollectorTypes
<1>7. CASE StartDelivery
  <2>1. tail' \subseteq Item /\ left' \subseteq Sources
    BY <1>7 DEF StartDelivery, Undone, CollectorTypes
  <2> QED
    BY <1>7, <2>1 DEF StartDelivery, CollectorTypes
<1>8. CASE Finish
  BY <1>8 DEF Finish, CollectorTypes
<1> QED
  BY <1>1, <1>2, <1>3, <1>4, <1>5, <1>6, <1>7, <1>8 DEF Gather

(* So it does while it delivers. *)
LEMMA DeliverTypes ==
  ASSUME CollectorTypes, Deliver, UNCHANGED queue
  PROVE  CollectorTypes'
<1>1. ASSUME NEW r \in Rounds, NEW s \in Sources, NextSource(r, s)
      PROVE  CollectorTypes'
  <2>1. chunks' \in Seq(Batch) /\ lost' \subseteq Sources
    BY <1>1, ChunkedIs DEF NextSource, GiveUp, CollectorTypes
  <2> QED
    BY <1>1, <2>1 DEF NextSource, CollectorTypes
<1>2. ASSUME NEW r \in Rounds, DeliverBatch(r)
      PROVE  CollectorTypes'
  <2>1. Head(chunks) \in Batch /\ Tail(chunks) \in Seq(Batch)
    BY <1>2, HeadChunk DEF DeliverBatch
  <2>2. Head(chunks).source \in Sources
    BY <2>1 DEF Batch
  <2>3. (chunks' = Tail(chunks) \/ chunks' = <<>>) /\ (lost' = lost \/ lost' = lost \cup {Head(chunks).source})
    BY <1>2 DEF DeliverBatch, GiveUp
  <2>4. chunks' \in Seq(Batch)
    <3>1. <<>> \in Seq(Batch)
      OBVIOUS
    <3> QED
      BY <2>1, <2>3, <3>1, Zenon
  <2>5. lost' \subseteq Sources
    BY <2>2, <2>3 DEF CollectorTypes
  <2> QED
    BY <1>2, <2>4, <2>5 DEF DeliverBatch, CollectorTypes
<1>3. ASSUME NEW r \in Rounds, Delivered(r)
      PROVE  CollectorTypes'
  BY <1>3 DEF Delivered, CollectorTypes
<1> QED
  BY <1>1, <1>2, <1>3 DEF Deliver

(* Every step keeps them. *)
LEMMA NextTypes ==
  ASSUME CollectorTypes, [Next]_vars
  PROVE  CollectorTypes'
<1>1. CASE UNCHANGED <<collectorVars, queue>>
  BY <1>1 DEF collectorVars, CollectorTypes
<1>2. ASSUME NEW r \in Rounds, Start(r), UNCHANGED queue
      PROVE  CollectorTypes'
  <2>1. company' \in [Companies -> {"out", "todo", "asked", "ok", "failed", "skipped"}]
    BY <1>2 DEF Start
  <2> QED
    BY <1>2, <2>1 DEF Start, CollectorTypes
<1>3. CASE QueueItem
  <2>1. queue' \in [Item -> Queued] /\ tail' \subseteq Item
    BY <1>3 DEF QueueItem, Requeued, Queued, CollectorTypes
  <2> QED
    BY <1>3, <2>1 DEF QueueItem, CollectorTypes
<1>4. CASE Crash /\ UNCHANGED queue
  BY <1>4 DEF Crash, CollectorTypes
<1>5. ASSUME NEW i \in Item, Resolve(i)
      PROVE  CollectorTypes'
  BY <1>5 DEF Resolve, collectorVars, Queued, CollectorTypes
<1> QED
  BY <1>1, <1>2, <1>3, <1>4, <1>5, GatherTypes, DeliverTypes DEF Next, Collector, Server, vars

(* They hold before the collector starts. *)
LEMMA InitCollector == Init => CollectorTypes
<1> SUFFICES ASSUME Init PROVE CollectorTypes
  OBVIOUS
<1>1. queue \in [Item -> Queued]
  BY DEF Init, Queued
<1>2. fetched \in [Sources -> Seq(Item)] /\ chunks \in Seq(Batch)
  BY DEF Init
<1>3. page \in [{"todo", "asked", "read"} -> SUBSET Item]
  BY DEF Init
<1> QED
  BY <1>1, <1>2, <1>3 DEF Init, CollectorTypes

-----------------------------------------------------------------------------
(* Where the vacancies are *)

\* What was answered was fetched.
AnsweredIsFetched == \A c \in Companies : company[c] = "ok" => Vacancies(c) \subseteq Fetched(Connector[c])

\* The batches that wait are of one source, the one being delivered.
OneSource == \A j, k \in DOMAIN chunks : chunks[j].source = chunks[k].source

Arrived(i) == \E r \in mine : \E b \in taken[r] : Carries(b, i)
Waits(s, i) == \E k \in DOMAIN chunks : chunks[k].source = s /\ Carries(chunks[k], i)

\* From the delivery on, what was answered waits its turn, was given up, or arrives.
HandedOver ==
  pc \in {"delivering", "queueing", "done"} =>
    \A c \in Companies : company[c] = "ok" =>
      \/ Connector[c] \in left \cup lost
      \/ \A i \in Vacancies(c) : Arrived(i) \/ Waits(Connector[c], i)

NothingWaits == pc \in {"queueing", "done"} => left = {} /\ chunks = <<>>

\* From the end of the fetching on, an item without a description is to be read, read or queued.
ThinIsKept ==
  /\ pc \in {"enriching", "delivering", "queueing", "done"} =>
       \A i \in ItemsOf(Pending) :
         \/ i \in page["read"] \cup tail \/ queue[i] # "none"
         \/ pc = "enriching" /\ i \in page["todo"] \cup page["asked"]
  /\ pc = "done" => tail = {}

LossInv == AnsweredIsFetched /\ OneSource /\ HandedOver /\ NothingWaits /\ ThinIsKept

(* Checkpoints are never taken back. *)
LEMMA TakenGrows ==
  ASSUME RoundTypes, RoundsStep, NEW r \in Rounds
  PROVE  taken[r] \subseteq taken'[r]
<1>1. ASSUME NEW q \in Rounds, NEW b \in Batch, TakeBatch(q, b)
      PROVE  taken[r] \subseteq taken'[r]
  BY <1>1 DEF TakeBatch, RoundTypes
<1>2. CASE EditSources
  BY <1>2 DEF EditSources, ConfirmProfile, ApproveTerms, DeleteSource, SetReadiness, UpsertSource,
              Edited, roundVars
<1> QED
  BY <1>1, <1>2 DEF RoundsStep, Continue, WriteRow, JudgeRows, CloseRound, OpenRound, Begins, Dies,
                    roundsVars, roundVars

(* Where the collector does nothing, nothing is lost. *)
LEMMA QuietKeeps ==
  ASSUME Types, LossInv, UNCHANGED collectorVars,
         \A r \in Rounds : taken[r] \subseteq taken'[r],
         \A i \in Item : queue[i] # "none" => queue'[i] # "none"
  PROVE  LossInv'
<1>1. UNCHANGED <<pc, mine, company, fetched, page, tail, left, chunks, lost>>
  BY DEF collectorVars
<1>2. AnsweredIsFetched' /\ OneSource' /\ NothingWaits'
  BY <1>1 DEF LossInv, AnsweredIsFetched, OneSource, NothingWaits, Fetched
<1>3. \A i : Arrived(i) => Arrived(i)'
  BY <1>1 DEF Arrived, Types, CollectorTypes
<1>4. HandedOver'
  BY <1>1, <1>3 DEF LossInv, HandedOver, Waits
<1>5. ThinIsKept'
  <2>1. ItemsOf(Pending)' = ItemsOf(Pending) /\ ItemsOf(Pending) \subseteq Item
    BY <1>1, PlacesAreItems DEF ItemsOf, Pending, Types
  <2> QED
    BY <1>1, <2>1 DEF LossInv, ThinIsKept
<1> QED
  BY <1>2, <1>4, <1>5 DEF LossInv

(* While it fetches, the answer of a company goes among the items of its source. *)
LEMMA FetchKeeps ==
  ASSUME Types, LossInv, pc = "fetching", pc' = "fetching",
         UNCHANGED <<mine, page, tail, left, chunks, lost>>,
         NEW c \in Companies,
         company' = [company EXCEPT ![c] = "ok"],
         NEW l \in Seq(Item),
         fetched' = [fetched EXCEPT ![Connector[c]] = fetched[Connector[c]] \o l],
         \A i \in Vacancies(c) : \E n \in DOMAIN l : l[n] = i
  PROVE  LossInv'
<1>1. Connector \in [Companies -> Sources]
  BY CompanyAssumption
<1>2. fetched \in [Sources -> Seq(Item)] /\ Connector[c] \in Sources
  BY <1>1 DEF Types, CollectorTypes
<1> DEFINE old == fetched[Connector[c]]
<1>3. old \in Seq(Item) /\ fetched'[Connector[c]] = old \o l
  BY <1>2
<1>4. /\ \A n \in DOMAIN old : n \in DOMAIN (old \o l) /\ (old \o l)[n] = old[n]
      /\ \A n \in DOMAIN l : Len(old) + n \in DOMAIN (old \o l) /\ (old \o l)[Len(old) + n] = l[n]
  <2> HIDE DEF old
  <2> QED
    BY <1>3, ConcatIs
<1> HIDE DEF old
<1>5. \A s \in Sources : Fetched(s) \subseteq Fetched(s)'
  <2> SUFFICES ASSUME NEW s \in Sources, NEW n \in DOMAIN fetched[s]
               PROVE  n \in DOMAIN fetched'[s] /\ fetched'[s][n] = fetched[s][n]
    BY DEF Fetched
  <2>1. CASE s = Connector[c]
    <3>1. old = fetched[s]
      BY <2>1 DEF old
    <3> QED
      BY <1>3, <1>4, <2>1, <3>1
  <2>2. CASE s # Connector[c]
    <3>1. fetched'[s] = fetched[s]
      BY <1>2, <2>2
    <3> QED
      BY <3>1
  <2> QED
    BY <2>1, <2>2
<1>6. Vacancies(c) \subseteq Fetched(Connector[c])'
  <2> SUFFICES ASSUME NEW i \in Vacancies(c)
               PROVE  \E n \in DOMAIN fetched'[Connector[c]] : fetched'[Connector[c]][n] = i
    BY DEF Fetched
  <2>1. PICK n \in DOMAIN l : l[n] = i
    OBVIOUS
  <2> QED
    BY <1>3, <1>4, <2>1
<1>7. AnsweredIsFetched'
  <2>1. \A d \in Companies : d # c => company'[d] = company[d]
    BY DEF Types, CollectorTypes
  <2> QED
    BY <1>1, <1>5, <1>6, <2>1 DEF LossInv, AnsweredIsFetched
<1> QED
  BY <1>7 DEF LossInv, OneSource, HandedOver, NothingWaits, ThinIsKept

(* The other steps until the delivery. *)
LEMMA GatherKeeps ==
  ASSUME Types, LossInv, Gather, UNCHANGED <<roundsVars, queue>>
  PROVE  LossInv'
<1>1. ASSUME NEW c \in Companies, Ask(c) \/ Answer(c) \/ AnswerFails(c) \/ AnswerRefused(c)
      PROVE  LossInv'
  <2>1. /\ UNCHANGED <<pc, fetched, chunks>> /\ pc = "fetching"
        /\ \A d \in Companies : company'[d] = "ok" => company[d] = "ok"
    BY <1>1 DEF Ask, Answer, AnswerFails, AnswerRefused, Types, CollectorTypes
  <2> QED
    BY <2>1 DEF LossInv, AnsweredIsFetched, Fetched, OneSource, HandedOver, NothingWaits, ThinIsKept
<1>2. ASSUME NEW c \in Companies, AnswerLast(c)
      PROVE  LossInv'
  BY <1>2, AnswerIs, FetchKeeps DEF AnswerLast, Types
<1>3. ASSUME UNCHANGED <<mine, company, fetched, left, chunks, lost>>,
             pc \in {"fetching", "enriching"}, pc' \in {pc, "enriching"}, ThinIsKept'
      PROVE  LossInv'
  BY <1>3 DEF LossInv, AnsweredIsFetched, Fetched, OneSource, HandedOver, NothingWaits
<1>4. ItemsOf(Pending) \subseteq Item
  BY PlacesAreItems DEF Types
<1>5. UNCHANGED fetched => ItemsOf(Pending)' = ItemsOf(Pending)
  BY DEF ItemsOf, Pending
<1>6. ASSUME NEW i \in Item, ReadPage(i) \/ PageRefused(i) \/ \E stage \in Stages : PageRead(i, stage)
      PROVE  LossInv'
  <2>1. /\ UNCHANGED <<pc, mine, company, fetched, left, chunks, lost>> /\ pc = "enriching"
        /\ tail \subseteq tail'
    BY <1>6 DEF ReadPage, PageRefused, PageRead
  <2>2. page["read"] \subseteq page'["read"]
    BY <1>6 DEF ReadPage, PageRefused, PageRead, Move, Types, CollectorTypes
  <2>3. page["todo"] \cup page["asked"] \subseteq page'["todo"] \cup page'["asked"] \cup page'["read"]
    BY <1>6 DEF ReadPage, PageRefused, PageRead, Move, Types, CollectorTypes
  <2>4. ThinIsKept'
    BY <1>5, <2>1, <2>2, <2>3 DEF LossInv, ThinIsKept
  <2> QED
    BY <1>3, <2>1, <2>4
<1>7. CASE Deadline
  <2>1. ThinIsKept'
    BY <1>5, <1>7 DEF Deadline, LossInv, ThinIsKept
  <2> QED
    BY <1>3, <1>7, <2>1 DEF Deadline
<1>8. CASE StartPages
  <2>1. /\ page'["todo"] = ItemsOf(Budgeted) /\ tail' = ItemsOf(Pending) \ ItemsOf(Budgeted)
        /\ pc' = "enriching"
    BY <1>8 DEF StartPages, Types, CollectorTypes
  <2>2. ThinIsKept'
    BY <1>5, <1>8, <2>1 DEF StartPages, ThinIsKept
  <2> QED
    BY <1>3, <1>8, <2>2 DEF StartPages
<1>9. CASE StartDelivery
  <2>1. UNCHANGED <<mine, company, fetched, page, chunks, lost>> /\ pc' = "delivering" /\ pc = "enriching"
    BY <1>9 DEF StartDelivery
  <2>2. page["asked"] = {} /\ tail' = tail \cup page["todo"]
    BY <1>9 DEF StartDelivery, Undone
  <2>3. ThinIsKept'
    BY <1>5, <2>1, <2>2 DEF LossInv, ThinIsKept
  <2>4. HandedOver'
    <3>1. \A c \in Companies : Connector[c] \in Sources
      BY CompanyAssumption
    <3>2. \A c \in Companies : company[c] = "ok" => Connector[c] \in left'
      BY <1>9, <3>1 DEF StartDelivery
    <3> QED
      BY <2>1, <3>2 DEF HandedOver
  <2> QED
    BY <2>1, <2>3, <2>4 DEF LossInv, AnsweredIsFetched, Fetched, OneSource, NothingWaits
<1>10. CASE Finish
  <2>1. UNCHANGED <<mine, company, fetched, page, tail, left, chunks, lost, taken>>
    BY <1>10 DEF Finish, roundsVars, roundVars
  <2>2. pc = "queueing" /\ pc' = "done" /\ tail = {}
    BY <1>10 DEF Finish
  <2>3. ThinIsKept'
    BY <1>5, <2>1, <2>2 DEF LossInv, ThinIsKept
  <2>4. HandedOver'
    BY <2>1, <2>2 DEF LossInv, HandedOver, Arrived, Waits
  <2> QED
    BY <2>1, <2>2, <2>3, <2>4 DEF LossInv, AnsweredIsFetched, Fetched, OneSource, NothingWaits
<1> QED
  BY <1>1, <1>2, <1>6, <1>7, <1>8, <1>9, <1>10 DEF Gather

(* A source is taken up: given up if no company of it answered, else all of it waits. *)
LEMMA NextSourceKeeps ==
  ASSUME Types, LossInv, NEW r \in Rounds, NEW s \in Sources, NextSource(r, s), UNCHANGED queue
  PROVE  LossInv'
<1>1. /\ UNCHANGED <<pc, mine, company, fetched, page, tail>> /\ pc = "delivering"
      /\ UNCHANGED taken /\ chunks = <<>> /\ left' = left \ {s}
      /\ lost \subseteq lost'
  BY DEF NextSource, Delivering, GiveUp, roundsVars, roundVars
<1>2. \/ chunks' = <<>> /\ s \in lost'
      \/ chunks' = Chunked(s)
  BY <1>1 DEF NextSource, GiveUp
<1>3. OneSource'
  BY <1>2, ChunkedIs DEF Types, OneSource
<1>4. AnsweredIsFetched' /\ NothingWaits' /\ ThinIsKept'
  <2>1. ItemsOf(Pending)' = ItemsOf(Pending)
    BY <1>1 DEF ItemsOf, Pending
  <2> QED
    BY <1>1, <2>1 DEF LossInv, AnsweredIsFetched, Fetched, NothingWaits, ThinIsKept
<1>5. ASSUME NEW c \in Companies, company[c] = "ok"
      PROVE  \/ Connector[c] \in left' \cup lost'
             \/ \A i \in Vacancies(c) : Arrived(i)' \/ Waits(Connector[c], i)'
  <2>1. CASE Connector[c] # s
    <3>1. \A i : ~Waits(Connector[c], i)
      BY <1>1 DEF Waits
    <3>2. \A i : Arrived(i)' = Arrived(i)
      BY <1>1 DEF Arrived
    <3> QED
      BY <1>1, <1>5, <2>1, <3>1, <3>2 DEF LossInv, HandedOver
  <2>2. CASE Connector[c] = s /\ chunks' = Chunked(s)
    <3>1. Vacancies(c) \subseteq Fetched(s)
      BY <1>5, <2>2 DEF LossInv, AnsweredIsFetched
    <3>2. \A i \in Vacancies(c) : Waits(s, i)'
      BY <2>2, <3>1, ChunkedIs DEF Types, Waits
    <3> QED
      BY <2>2, <3>2
  <2> QED
    BY <1>2, <2>1, <2>2
<1>6. HandedOver'
  BY <1>1, <1>5 DEF HandedOver
<1> QED
  BY <1>3, <1>4, <1>6 DEF LossInv

(* The first batch arrives, or arrived before; or its source is given up. *)
LEMMA BatchKeeps ==
  ASSUME Types, LossInv, NEW r \in Rounds, DeliverBatch(r), UNCHANGED queue
  PROVE  LossInv'
<1> DEFINE b == Head(chunks)
<1>1. /\ UNCHANGED <<pc, mine, company, fetched, page, tail, left>> /\ pc = "delivering"
      /\ chunks # <<>> /\ r \in mine
  BY DEF DeliverBatch, Delivering
<1>2. \A q \in Rounds : taken[q] \subseteq taken'[q]
  BY DEF DeliverBatch, TakeBatch, GiveUp, Types, RoundTypes, roundsVars, roundVars
<1>3. \/ chunks' = Tail(chunks) /\ lost' = lost /\ b \in taken'[r]
      \/ chunks' = <<>> /\ lost' = lost \cup {b.source}
  <2>1. CASE TakeBatch(r, b) /\ chunks' = Tail(chunks) /\ lost' = lost
    BY <2>1 DEF TakeBatch, Types, RoundTypes
  <2>2. CASE Repeated(r, b) /\ chunks' = Tail(chunks) /\ UNCHANGED <<lost, roundsVars>>
    BY <2>2 DEF Repeated, roundsVars, roundVars
  <2>3. CASE GiveUp(r, b.source) /\ chunks' = <<>>
    BY <2>3 DEF GiveUp
  <2> QED
    BY <2>1, <2>2, <2>3 DEF DeliverBatch
<1>4. chunks \in Seq(Batch) /\ mine \subseteq Rounds
  BY DEF Types, CollectorTypes
<1>5. /\ 1 \in DOMAIN chunks /\ b = chunks[1]
      /\ \A k \in DOMAIN Tail(chunks) : k + 1 \in DOMAIN chunks /\ Tail(chunks)[k] = chunks[k + 1]
      /\ \A k \in DOMAIN chunks : k # 1 => k - 1 \in DOMAIN Tail(chunks) /\ Tail(chunks)[k - 1] = chunks[k]
  BY <1>1, <1>4
<1> HIDE DEF b
<1>6. OneSource'
  BY <1>3, <1>5 DEF LossInv, OneSource
<1>7. AnsweredIsFetched' /\ NothingWaits' /\ ThinIsKept'
  <2>1. ItemsOf(Pending)' = ItemsOf(Pending)
    BY <1>1 DEF ItemsOf, Pending
  <2> QED
    BY <1>1, <2>1 DEF LossInv, AnsweredIsFetched, Fetched, NothingWaits, ThinIsKept
<1>8. \A i : Arrived(i) => Arrived(i)'
  BY <1>1, <1>2, <1>4 DEF Arrived
<1>9. ASSUME NEW s, NEW i, Waits(s, i)
      PROVE  s \in lost' \/ Arrived(i)' \/ Waits(s, i)'
  <2>1. PICK k \in DOMAIN chunks : chunks[k].source = s /\ Carries(chunks[k], i)
    BY <1>9 DEF Waits
  <2>2. CASE chunks' = Tail(chunks) /\ b \in taken'[r]
    <3>1. CASE k = 1
      BY <1>1, <1>5, <2>1, <2>2, <3>1 DEF Arrived
    <3>2. CASE k # 1
      BY <1>5, <2>1, <2>2, <3>2 DEF Waits
    <3> QED
      BY <3>1, <3>2
  <2>3. CASE chunks' = <<>> /\ lost' = lost \cup {b.source}
    BY <1>5, <2>1, <2>3 DEF LossInv, OneSource
  <2> QED
    BY <1>3, <2>2, <2>3
<1>10. HandedOver'
  <2>1. lost \subseteq lost'
    BY <1>3
  <2> QED
    BY <1>1, <1>8, <1>9, <2>1 DEF LossInv, HandedOver
<1> QED
  BY <1>6, <1>7, <1>10 DEF LossInv

(* The delivery ends when nothing waits. *)
LEMMA DeliveredKeeps ==
  ASSUME Types, LossInv, NEW r \in Rounds, Delivered(r), UNCHANGED queue
  PROVE  LossInv'
<1>1. /\ UNCHANGED <<taken, mine, company, fetched, page, tail, left, chunks, lost>>
      /\ left = {} /\ chunks = <<>> /\ pc = "delivering" /\ pc' = "queueing"
  BY DEF Delivered, Delivering, roundsVars, roundVars
<1>2. ItemsOf(Pending)' = ItemsOf(Pending)
  BY <1>1 DEF ItemsOf, Pending
<1> QED
  BY <1>1, <1>2 DEF LossInv, AnsweredIsFetched, Fetched, OneSource, HandedOver, Arrived, Waits,
                    NothingWaits, ThinIsKept

(* An item leaves what is left to queue for the queue. *)
LEMMA QueueKeeps ==
  ASSUME Types, LossInv, QueueItem, UNCHANGED roundsVars
  PROVE  LossInv'
<1>1. /\ UNCHANGED <<taken, pc, mine, company, fetched, page, left, chunks, lost>> /\ pc = "queueing"
  BY DEF QueueItem, roundsVars, roundVars
<1>2. PICK i \in tail : queue' = [queue EXCEPT ![i] = Requeued(queue[i])] /\ tail' = tail \ {i}
  BY DEF QueueItem
<1>3. /\ queue'[i] # "none" /\ \A j \in Item : queue[j] # "none" => queue'[j] # "none"
  BY <1>2 DEF Types, CollectorTypes, Requeued
<1>4. ItemsOf(Pending)' = ItemsOf(Pending) /\ ItemsOf(Pending) \subseteq Item
  BY <1>1, PlacesAreItems DEF ItemsOf, Pending, Types
<1>5. ThinIsKept'
  BY <1>1, <1>2, <1>3, <1>4 DEF LossInv, ThinIsKept
<1> QED
  BY <1>1, <1>5 DEF LossInv, AnsweredIsFetched, Fetched, OneSource, HandedOver, Arrived, Waits, NothingWaits

(* No step loses a vacancy. *)
LEMMA NextKeeps ==
  ASSUME Types, LossInv, [Next]_vars
  PROVE  LossInv'
<1>1. RoundsStep
  BY NextIsStep
<1>2. \A r \in Rounds : taken[r] \subseteq taken'[r]
  BY <1>1, TakenGrows DEF Types
<1>3. CASE UNCHANGED <<collectorVars, queue>>
  BY <1>2, <1>3, QuietKeeps
<1>4. ASSUME NEW i \in Item, Resolve(i)
      PROVE  LossInv'
  <2>1. \A j \in Item : queue[j] # "none" => queue'[j] # "none"
    BY <1>4 DEF Resolve, Types, CollectorTypes
  <2> QED
    BY <1>2, <1>4, <2>1, QuietKeeps DEF Resolve
<1>5. ASSUME NEW r \in Rounds, Start(r), UNCHANGED queue
      PROVE  LossInv'
  BY <1>5 DEF Start, LossInv, AnsweredIsFetched, OneSource, HandedOver, NothingWaits, ThinIsKept
<1>6. CASE Crash /\ UNCHANGED queue
  BY <1>6 DEF Crash, LossInv, AnsweredIsFetched, Fetched, OneSource, HandedOver, NothingWaits, ThinIsKept
<1> QED
  BY <1>3, <1>4, <1>5, <1>6, GatherKeeps, NextSourceKeeps, BatchKeeps, DeliveredKeeps, QueueKeeps
     DEF Next, Collector, Deliver, Server, vars

\* A company nobody asked answered no page, and none is asked once the fetching is over.
SettledInv ==
  /\ \A c \in Companies : pc = "idle" \/ company[c] \in {"out", "todo"} => answered[c] = 0
  /\ pc \in {"enriching", "delivering", "queueing", "done"} => \A c \in Companies : company[c] # "asked"

(* Every step keeps it. *)
LEMMA NextSettles ==
  ASSUME Types, SettledInv, [Next]_vars
  PROVE  SettledInv'
<1>1. CASE UNCHANGED <<pc, company, answered>>
  BY <1>1 DEF SettledInv
<1>2. ASSUME NEW c \in Companies,
             Ask(c) \/ Answer(c) \/ AnswerLast(c) \/ AnswerFails(c) \/ AnswerRefused(c)
      PROVE  SettledInv'
  <2>1. /\ pc = "fetching" /\ pc' = "fetching" /\ company[c] \in {"todo", "asked"}
        /\ \A d \in Companies : d # c => company'[d] = company[d] /\ answered'[d] = answered[d]
        /\ company'[c] \notin {"out", "todo"}
    BY <1>2 DEF Ask, Answer, AnswerLast, AnswerPage, AnswerFails, AnswerRefused, Types, CollectorTypes
  <2> QED
    BY <2>1 DEF SettledInv
<1>3. ASSUME NEW r \in Rounds, Start(r)
      PROVE  SettledInv'
  BY <1>3 DEF Start, SettledInv
<1>4. CASE StartPages
  BY <1>4 DEF StartPages, Asked, SettledInv
<1>5. ASSUME UNCHANGED <<company, answered>>,
             pc' \in {"enriching", "delivering", "queueing", "done"} =>
               pc \in {"enriching", "delivering", "queueing", "done"},
             pc' = "idle" => pc = "idle"
      PROVE  SettledInv'
  BY <1>5 DEF SettledInv
<1>6. ASSUME NEW i \in Item, ReadPage(i) \/ PageRefused(i) \/ \E stage \in Stages : PageRead(i, stage)
      PROVE  SettledInv'
  BY <1>1, <1>6 DEF ReadPage, PageRefused, PageRead
<1>7. CASE Deadline \/ StartDelivery \/ Finish \/ QueueItem \/ Crash
  BY <1>5, <1>7 DEF Deadline, StartDelivery, Finish, QueueItem, Crash
<1>8. ASSUME NEW r \in Rounds, (\E s \in Sources : NextSource(r, s)) \/ DeliverBatch(r) \/ Delivered(r)
      PROVE  SettledInv'
  BY <1>5, <1>8 DEF NextSource, DeliverBatch, Delivered, Delivering
<1>9. UNCHANGED collectorVars => UNCHANGED <<pc, company, answered>>
  BY DEF collectorVars
<1> QED
  BY <1>1, <1>2, <1>3, <1>4, <1>6, <1>7, <1>8, <1>9 DEF Next, Collector, Gather, Deliver, Server, Resolve, vars

-----------------------------------------------------------------------------
(* The theorems *)

\* A collector that died stays dead, and when it dies in a report it is dead.
LEMMA DeadStays ==
  ASSUME Types, [Next]_vars
  PROVE  (pc = "dead" => pc' = "dead") /\ (Dies => pc' = "dead")
<1>1. pc = "dead" => pc' = "dead"
  BY DEF Next, Collector, Server, Resolve, Gather, Deliver, Start, Ask, Answer, AnswerLast, AnswerFails, AnswerRefused,
         ReadPage, PageRefused, PageRead, Deadline, StartPages, StartDelivery, Finish, NextSource,
         DeliverBatch, Delivered, Delivering, QueueItem, Crash, collectorVars, vars
<1> QED
  BY <1>1 DEF Dies

RoundsInv == Types /\ GateInv /\ EndInv /\ CountInv /\ LossInv /\ SettledInv

(* The invariant holds at the beginning. *)
LEMMA InitHolds == Init => RoundsInv
<1> SUFFICES ASSUME Init PROVE RoundsInv
  OBVIOUS
<1>1. RoundsInit
  BY DEF Init
<1>2. Types /\ GateInv
  BY <1>1, InitTypes, InitCollector, InitGates DEF Types
<1>3. EndInv
  BY <1>1 DEF RoundsInit, EndInv, NoRound
<1>4. CountInv
  <2>1. ItemsIn({}) = {} /\ IsFiniteSet({}) /\ Cardinality({}) = 0
    BY FS_EmptySet DEF ItemsIn
  <2> QED
    BY <1>1, <2>1 DEF RoundsInit, CountInv, NoRound
<1>5. LossInv
  BY DEF Init, LossInv, AnsweredIsFetched, OneSource, HandedOver, NothingWaits, ThinIsKept
<1>6. SettledInv
  BY DEF Init, SettledInv
<1> QED
  BY <1>2, <1>3, <1>4, <1>5, <1>6 DEF RoundsInv

(* Every step keeps the invariant. *)
LEMMA NextHolds ==
  ASSUME RoundsInv, [Next]_vars
  PROVE  RoundsInv'
<1>1. RoundsStep
  BY NextIsStep DEF RoundsInv
<1>2. Types'
  BY <1>1, StepTypes, NextTypes DEF RoundsInv, Types
<1>3. GateInv'
  BY <1>1, StepGates DEF RoundsInv, Types
<1>4. EndInv'
  BY <1>1, StepEnds, DeadStays DEF RoundsInv, Types
<1>5. CountInv'
  BY <1>1, StepCounts DEF RoundsInv, Types
<1>6. LossInv'
  BY NextKeeps DEF RoundsInv
<1>7. SettledInv'
  BY NextSettles DEF RoundsInv
<1> QED
  BY <1>2, <1>3, <1>4, <1>5, <1>6, <1>7 DEF RoundsInv

(* Sources, rounds and the collector keep together: types, terms, ends, counters, and the   *)
(* place of each vacancy that was fetched (startSearchRound, recordRoundSourceStatus,       *)
(* ingestRoundBatch, runConnectorCollection).                                               *)
THEOREM RoundsInvariant == Spec => []RoundsInv
<1>1. RoundsInv /\ [Next]_vars => RoundsInv'
  BY NextHolds
<1> QED
  BY <1>1, InitHolds, PTL DEF Spec

(* No search before the two human decisions, for any number of sources, sites and rounds    *)
(* (startSearchRound, upsertSourceConfig).                                                  *)
THEOREM GatesHold == Spec => []TwoGates
<1>1. RoundsInv => TwoGates
  BY DEF RoundsInv, GateInv
<1> QED
  BY <1>1, RoundsInvariant, PTL

(* The counters of a round are those of its completed checkpoints: a batch that comes again *)
(* counts once (ingestRoundBatch).                                                          *)
THEOREM CountersHold == Spec => []CountersAgree
<1>1. RoundsInv => CountersAgree
  BY DEF RoundsInv, CountInv, CountersAgree, ItemsIn
<1> QED
  BY <1>1, RoundsInvariant, PTL

(* A running round whose sources have all ended is about to end, unless the collector died  *)
(* in a report of its own (recordRoundSourceStatus, ingestRoundBatch).                      *)
THEOREM DoneRoundsClose == Spec => []ClosedWhenDone
<1>1. RoundsInv => ClosedWhenDone
  BY DEF RoundsInv, EndInv, ClosedWhenDone
<1> QED
  BY <1>1, RoundsInvariant, PTL

(* What a portal answered is in the round, or its source ends as failed; and what has no    *)
(* description is in the queue, whatever stopped the pools: but for the pages of a company  *)
(* cut short by a later page, which the code drops (paginate, runConnectorCollection).      *)
THEOREM NothingIsLost == Spec => []NothingFetchedIsLost
<1>1. RoundsInv => NothingFetchedIsLost
  <2> SUFFICES ASSUME RoundsInv, pc = "done", NEW c \in Companies, NEW i \in Received(c), ~CutShort(c)
               PROVE  /\ Connector[c] \in lost \/ \E r \in mine : \E b \in taken[r] : Carries(b, i)
                      /\ i \in Thin => i \in page["read"] \/ queue[i] # "none"
    BY DEF NothingFetchedIsLost
  <2>1. PICK x \in Kept(c) : x[1] <= answered[c] /\ i = ItemAt(c, x)
    BY DEF Received
  <2>2. i \in Vacancies(c)
    BY <2>1 DEF Vacancies
  <2>3. company[c] = "ok"
    <3>1. x[1] \in 1..PageLimit /\ PageLimit \in Nat
      BY <2>1, LimitAssumption DEF Kept
    <3>2. answered[c] # 0
      BY <2>1, <3>1
    <3> QED
      BY <3>2 DEF RoundsInv, Types, CollectorTypes, SettledInv, CutShort
  <2>4. left = {} /\ chunks = <<>> /\ tail = {}
    BY DEF RoundsInv, LossInv, NothingWaits, ThinIsKept
  <2>5. \A s, j : ~Waits(s, j)
    BY <2>4 DEF Waits
  <2>6. Connector[c] \in lost \/ Arrived(i)
    BY <2>2, <2>3, <2>4, <2>5 DEF RoundsInv, LossInv, HandedOver
  <2>7. Connector[c] \in Sources
    BY CompanyAssumption
  <2>8. i \in Thin => i \in ItemsOf(Pending)
    BY <2>2, <2>3, <2>7, PlacesAreItems DEF RoundsInv, Types, LossInv, AnsweredIsFetched
  <2>9. i \in Thin => i \in page["read"] \/ queue[i] # "none"
    BY <2>4, <2>8 DEF RoundsInv, LossInv, ThinIsKept
  <2> QED
    BY <2>6, <2>9 DEF Arrived
<1> QED
  BY <1>1, RoundsInvariant, PTL

(* No process and no late batch or report changes a round that ended (Closed, Takes).       *)
THEOREM EndsAreFinal == Spec => ClosedStaysClosed
<1>1. RoundsInv /\ [Next]_vars =>
        [\A r \in Rounds : round[r].status \in {"completed", "partial", "failed"} => round'[r] = round[r]]_roundsVars
  <2> SUFFICES ASSUME RoundsInv, [Next]_vars, NEW r \in Rounds,
                      round[r].status \in {"completed", "partial", "failed"}
               PROVE  round'[r] = round[r]
    OBVIOUS
  <2>1. RoundTypes /\ RoundsStep /\ round[r].status \in Verdicts
    BY NextIsStep DEF RoundsInv, Types, Verdicts
  <2> QED
    BY <2>1, StepFinal
<1> QED
  BY <1>1, RoundsInvariant, PTL DEF Spec, ClosedStaysClosed
=============================================================================
