----------------------------- MODULE Provenance -----------------------------
(***************************************************************************)
(* Where each value of a card comes from.  Whatever a source, an agent or  *)
(* a person says of a field is kept as evidence; a row of provenance says  *)
(* which evidence was chosen, when, and whether it still is.  A source     *)
(* that disagrees with the card queues a conflict for a person and leaves  *)
(* the card alone; so does an agent, except on an empty field.  Only the   *)
(* closing of a vacancy is taken from the sources, and from the portal,    *)
(* which the server asks and waits for.                                    *)
(*                                                                         *)
(* The archive, the stage of the card, suppression and reposts are not     *)
(* here: no choice below reads them.                                       *)
(***************************************************************************)
EXTENDS Discovery, Liveness

CONSTANTS
  Older,       \* forms whose cards are older than evidence
  HumanEdits,  \* <<field, value>> a person may write
  AgentPatches, \* <<field, value>> an agent may propose
  Portal,      \* the portal of each address
  Replies,     \* what portals may answer
  MaxChecks    \* bound: portals asked at a time

VARIABLES
  evidence,    \* evidence_records, each with its row of job_field_provenance
  conflicts,   \* field_conflicts
  checking     \* cards whose portal was asked and has not answered

vars == <<discoveryVars, evidence, conflicts, checking>>

Text == {"title", "company", "description"}
Fields == Text \cup {"opening"}

ASSUME FieldAssumption ==
  /\ Older \subseteq Forms
  /\ \A edit \in HumanEdits \cup AgentPatches :
       /\ edit[1] \in Fields
       /\ edit[1] = "opening" => edit[2] \in Statuses
       /\ edit[1] \in {"title", "company"} => edit[2] # Blank

EvidenceId == [n : 1..MaxWrites, role : {"said", "legacy", "closing"}, job : DOMAIN jobs, field : Fields]

\* `at` is selected_at, 0 without a row; `open` says superseded_at is null.
TypeOK ==
  /\ writes \in 0..MaxWrites
  /\ \A j \in DOMAIN jobs : jobs[j].opening \in Statuses /\ jobs[j].created \in 0..writes
  /\ \A o \in occurrences : o.job \in DOMAIN jobs /\ o.round \in Rounds /\ o.at \in 1..writes
  /\ \A d \in duplicates : d.job \in DOMAIN jobs /\ d.candidate \in DOMAIN jobs \ {d.job}
  /\ DOMAIN evidence \subseteq EvidenceId
  /\ \A id \in DOMAIN evidence : /\ evidence[id].origin \in {"agent", "human", "legacy"}
                                 /\ evidence[id].at \in 0..writes /\ evidence[id].open \in BOOLEAN
  /\ \A c \in conflicts : c.current \in DOMAIN evidence /\ c.candidate \in DOMAIN evidence
  /\ checking \subseteq DOMAIN jobs

-----------------------------------------------------------------------------
(* Evidence and its choice *)

Id(job, field, role) == [n |-> now, role |-> role, job |-> job, field |-> field]

\* addEvidence, for each value said; no row of provenance yet.
Add(known, said, origin) ==
  [id \in DOMAIN known \cup DOMAIN said |->
     IF id \in DOMAIN said THEN [value |-> said[id], origin |-> origin, at |-> 0, open |-> FALSE]
     ELSE known[id]]

\* One value said.
One(id, value) == [i \in {id} |-> value]

\* selectEvidence: those of ids are the open ones of their fields.
SelectEvidence(known, ids) ==
  [id \in DOMAIN known |->
     IF id \in ids THEN [known[id] EXCEPT !.at = now, !.open = TRUE]
     ELSE [known[id] EXCEPT !.open = @ /\ ~\E c \in ids : c.job = id.job /\ c.field = id.field]]

\* A row of provenance that supersedes nothing.
Row(known, ids, open) ==
  [id \in DOMAIN known |-> IF id \in ids THEN [known[id] EXCEPT !.at = now, !.open = open] ELSE known[id]]

Choose(known, said, origin) == SelectEvidence(Add(known, said, origin), DOMAIN said)

\* What a posting, a form or a card says of fields.
Says(row, job, fields, role) ==
  [id \in {Id(job, f, role) : f \in fields} |-> row[id.field]]

Open(known, job, field) == {id \in DOMAIN known : id.job = job /\ id.field = field /\ known[id].open}

(* The evidence the code takes for the field's, if any: the last chosen of *)
(* the open ones.  A request writes legacy evidence after its own.         *)
Selected(known, job, field) ==
  LET open == Open(known, job, field)
  IN  {id \in open : \A other \in open :
         \/ known[other].at < known[id].at
         \/ known[other].at = known[id].at /\ id.role \in {other.role, "legacy"}}

\* What an older card shows is evidence from the first time it is needed.
WithLegacy(known, job, fields) ==
  LET bare == {f \in fields : Selected(known, job, f) = {}}
  IN  Choose(known, Says(jobs[job], job, bare, "legacy"), "legacy")

Conflict(job, current, candidate) ==
  [job |-> job, field |-> candidate.field, current |-> current, candidate |-> candidate, status |-> "pending"]

\* closeJobFromSource: its three writes.
ClosedEvidence(known, job) == Choose(known, One(Id(job, "opening", "closing"), "closed"), "agent")
ClosedConflicts(job) ==
  {IF c.job = job /\ c.field = "opening" /\ c.status = "pending"
   THEN [c EXCEPT !.status = "resolved_candidate"] ELSE c : c \in conflicts}
ClosedCard(card) == [card EXCEPT !.opening = "closed", !.closed = TRUE]

-----------------------------------------------------------------------------
(* A posting is delivered *)

\* The fields a posting speaks of; a closing is not one of them.
Spoken(item) == {f \in Fields : item[f] # Blank /\ ~(f = "opening" /\ item[f] = "closed")}

Closes(item) == item.opening = "closed"

\* What the rest of a posting is added to: a closing is chosen before it.
WithClosing(item, id) == IF Closes(item) THEN ClosedEvidence(evidence, id) ELSE evidence

\* Nothing recognises it: upsertJob of its id, and its evidence is the card's.
IngestNew(item, round) ==
  LET id == FoundId(item)
      card == Card(item, id)
  IN  /\ Recognised(item) = NoJob
      /\ Write
      /\ jobs' = With(id, IF Closes(item) THEN ClosedCard(card) ELSE card)
      /\ occurrences' = Observe(item, id, round)
      /\ duplicates' = Suspect(item, id)
      /\ evidence' = Choose(WithClosing(item, id), Says(item, id, Spoken(item), "said"), "agent")
      /\ conflicts' = IF Closes(item) THEN ClosedConflicts(id) ELSE conflicts
      /\ UNCHANGED checking

\* A sighting: what it repeats is noted, what it denies is a conflict.
IngestKnown(item, round) ==
  LET id == Recognised(item)
      said == Says(item, id, Spoken(item), "said")
      same == {e \in DOMAIN said : jobs[id][e.field] = said[e]}
      denied == DOMAIN said \ same
      after == Row(WithLegacy(Add(WithClosing(item, id), said, "agent"), id, {e.field : e \in denied}),
                   same, FALSE)
      pending == IF Closes(item) THEN ClosedConflicts(id) ELSE conflicts
  IN  /\ id # NoJob
      /\ Write
      /\ jobs' = IF Closes(item) THEN With(id, ClosedCard(jobs[id])) ELSE jobs
      /\ occurrences' = Observe(item, id, round)
      /\ evidence' = after
      /\ conflicts' = pending \cup UNION {{Conflict(id, current, e) : current \in Selected(after, id, e.field)} : e \in denied}
      /\ UNCHANGED <<duplicates, checking>>

-----------------------------------------------------------------------------
(* An agent enriches a card, a person writes or decides *)

\* Mutant: any value no person is selected for may be replaced.
EmptyOrUnclaimed(job, field) ==
  \/ jobs[job][field] \in {Blank, "unknown"}
  \/ \A id \in Selected(evidence, job, field) : evidence[id].origin # "human"

\* A field an agent may fill.  No confidence of a text is low enough for its 0.8.
Empty(job, field) == jobs[job][field] \in {Blank, "unknown"}

EnrichJobFromAgent(job, field, value) ==
  LET said == Id(job, field, "said")
      added == Add(evidence, One(said, value), "agent")
      known == IF Empty(job, field) THEN added ELSE WithLegacy(added, job, {field})
      held == Selected(known, job, field)
      repeats == jobs[job][field] = value /\ held # {}
  IN  /\ Write
      /\ \/ /\ repeats
            /\ evidence' = Row(known, {said}, TRUE)
            /\ UNCHANGED <<jobs, conflicts>>
         \/ /\ ~repeats /\ (held = {} \/ Empty(job, field))
            /\ evidence' = SelectEvidence(known, {said})
            /\ jobs' = [jobs EXCEPT ![job][field] = value]
            /\ UNCHANGED conflicts
         \/ /\ ~repeats /\ held # {} /\ ~Empty(job, field)
            /\ evidence' = known
            /\ conflicts' = conflicts \cup {Conflict(job, current, said) : current \in held}
            /\ UNCHANGED jobs
      /\ UNCHANGED <<occurrences, duplicates, checking>>

\* updateJob by a person: the keys of recognition stay as they were.
UpdateJob(job, field, value) ==
  /\ Write
  /\ jobs' = [jobs EXCEPT ![job][field] = value]
  /\ evidence' = Choose(evidence, One(Id(job, field, "said"), value), "human")
  /\ UNCHANGED <<occurrences, duplicates, conflicts, checking>>

\* A card is typed: it never replaces one.
CreateJobFromHuman(form) ==
  LET id == TypedId(form)
      given == {f \in Fields : form[f] # Blank}
  IN  /\ id \notin DOMAIN jobs
      /\ Write
      /\ jobs' = With(id, Card(form, id))
      /\ evidence' = Choose(evidence, Says(form, id, given, "said"), "human")
      /\ UNCHANGED <<occurrences, duplicates, conflicts, checking>>

\* "current" is the evidence the conflict was queued with: nothing is written.
ResolveFieldConflict(c, choice) ==
  LET id == IF choice = "candidate" THEN c.candidate ELSE c.current
      status == IF choice = "candidate" THEN "resolved_candidate" ELSE "resolved_current"
  IN  /\ c.status = "pending"
      /\ Write
      /\ jobs' = IF choice = "candidate" THEN [jobs EXCEPT ![c.job][c.field] = evidence[id].value] ELSE jobs
      /\ evidence' = SelectEvidence(evidence, {id})
      /\ conflicts' = (conflicts \ {c}) \cup {[c EXCEPT !.status = status]}
      /\ UNCHANGED <<occurrences, duplicates, checking>>

-----------------------------------------------------------------------------
(* The portal is asked whether a vacancy is open *)

CheckJobLivenessNow(job) ==
  /\ job \notin checking
  /\ Cardinality(checking) < MaxChecks /\ writes < MaxWrites
  /\ checking' = checking \cup {job}
  /\ UNCHANGED <<discoveryVars, evidence, conflicts>>

\* Mutant: the card is not read again.
ClosedWhenAsked(job) == FALSE

\* The card is read again when the answer comes.
AlreadyClosed(job) == jobs[job].opening = "closed" \/ jobs[job].closed

RecordLivenessCheck(job, reply) ==
  LET status == CheckJobLiveness(Portal[jobs[job].url], reply) IN
  /\ job \in checking
  /\ Write
  /\ checking' = checking \ {job}
  /\ \/ /\ status = "open" /\ ~AlreadyClosed(job)
        /\ jobs' = [jobs EXCEPT ![job].opening = "open"]
        /\ UNCHANGED <<evidence, conflicts>>
     \/ /\ status = "closed" /\ ~AlreadyClosed(job)
        /\ jobs' = With(job, ClosedCard(jobs[job]))
        /\ evidence' = ClosedEvidence(evidence, job)
        /\ conflicts' = ClosedConflicts(job)
     \/ /\ status = "unknown" \/ AlreadyClosed(job)
        /\ UNCHANGED <<jobs, evidence, conflicts>>
  /\ UNCHANGED <<occurrences, duplicates>>

-----------------------------------------------------------------------------

Init ==
  /\ writes = 0
  /\ jobs = [id \in {TypedId(form) : form \in Older} |->
               LET form == CHOOSE f \in Older : TypedId(f) = id
               IN  [source |-> form.source, native |-> form.native, url |-> form.url, title |-> form.title,
                    company |-> form.company, description |-> form.description, opening |-> form.opening,
                    closed |-> FALSE, created |-> 0, key |-> DedupKey(form), hash |-> DescriptionHash(form)]]
  /\ occurrences = {} /\ duplicates = {} /\ conflicts = {} /\ checking = {}
  /\ evidence = <<>>

Next ==
  \/ \E d \in Delivered : IngestNew(d[1], d[2]) \/ IngestKnown(d[1], d[2])
  \/ \E form \in Forms : CreateJobFromHuman(form)
  \/ \E job \in DOMAIN jobs :
       \/ \E edit \in AgentPatches : EnrichJobFromAgent(job, edit[1], edit[2])
       \/ \E edit \in HumanEdits : UpdateJob(job, edit[1], edit[2])
       \/ CheckJobLivenessNow(job)
       \/ \E reply \in Replies : RecordLivenessCheck(job, reply)
  \/ \E c \in conflicts, choice \in {"current", "candidate"} : ResolveFieldConflict(c, choice)
  \/ Duplicates /\ UNCHANGED <<evidence, conflicts, checking>>

Spec == Init /\ [][Next]_vars

-----------------------------------------------------------------------------
(* Properties *)

(* A posting a portal identifies is on one card, whatever became of its    *)
(* address, its title and the text, in whichever round that portal was     *)
(* searched: an identifier is of its source, and says nothing of another.  *)
OneCardPerPosting == \A o, p \in occurrences : SameNative(o, p) => o.job = p.job

\* A person wrote the field, or decided a conflict about it, in this step.
ByPerson(job, field) ==
  \/ \E id \in Open(evidence', job, field) : id.n = writes' /\ id \notin DOMAIN evidence /\ evidence'[id].origin = "human"
  \/ \E c \in conflicts' : /\ c.job = job /\ c.field = field /\ c.status # "pending"
                           /\ [c EXCEPT !.status = "pending"] \in conflicts

(* What a person wrote in a card, unless it says nothing, stays there      *)
(* until a person changes it: sources and agents that later agree and then *)
(* disagree, in any order, never write over it.                            *)
HumanValueKept ==
  [][\A j \in DOMAIN jobs, f \in Text :
       /\ jobs'[j][f] # jobs[j][f] /\ jobs[j][f] \notin {Blank, "unknown"}
       /\ \E id \in Open(evidence, j, f) : evidence[id].origin = "human" /\ evidence[id].value = jobs[j][f]
       => ByPerson(j, f)]_vars

\* A card is reported closed in this step.
ReportedClosed(job) == jobs'[job].closed /\ ~(job \in DOMAIN jobs /\ jobs[job].closed)

\* The closing is the one evidence chosen of its opening, whatever was before.
ClosingChosen(job) ==
  LET closing == Id(job, "opening", "closing")
  IN  Open(evidence', job, "opening") = {closing} /\ evidence'[closing].value = "closed"

(* A vacancy reported closed is never open again on the word of a source,  *)
(* an agent or a portal that was asked before it closed, and the report is *)
(* chosen over all that was said of its opening.                           *)
ClosedStaysClosed ==
  [][/\ \A j \in DOMAIN jobs :
          jobs[j].opening = "closed" /\ jobs'[j].opening # "closed" => ByPerson(j, "opening")
     /\ \A j \in DOMAIN jobs' : ReportedClosed(j) => ClosingChosen(j)]_vars

=============================================================================
