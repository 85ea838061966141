-------------------------- MODULE ProvenanceProofs --------------------------
(***************************************************************************)
(* What is proved of the cards, their evidence and their conflicts, for    *)
(* whatever the sources deliver, the agents propose, the portals answer    *)
(* and the person types, edits and decides.                                *)
(*                                                                         *)
(* First what recognises a posting: the first of its signals exists when   *)
(* there is one, so that a posting already seen is found again.  Then what *)
(* the choices of evidence do to the table, and the invariant, with a step *)
(* per action.  Last what a step may do to what a card says.               *)
(***************************************************************************)
EXTENDS Provenance, FiniteSetTheorems, TLAPS

-----------------------------------------------------------------------------
(* The first of the signals *)

\* A set of naturals that is not empty has a least one.
LEMMA LeastNatural ==
  ASSUME NEW T \in SUBSET Nat, T # {}
  PROVE  \E m \in T : \A n \in T : m <= n
<1>1. IsWellFoundedOn(OpToRel(<, Nat), Nat)
  BY NatLessThanWellFounded
<1>2. PICK m \in T : \A n \in T : <<n, m>> \notin OpToRel(<, Nat)
  BY <1>1, WFMin
<1>3. \A n \in T : ~(n < m)
  BY <1>2 DEF OpToRel
<1> QED
  BY <1>3

\* The signals no other precedes: Recognised takes one of them.
First(signals) ==
  {s \in signals : \A r \in signals : s.tier < r.tier \/ (s.tier = r.tier /\ s.age <= r.age)}

\* Signals whose ages are bounded below have a first.
LEMMA FirstExists ==
  ASSUME NEW S, S # {}, NEW B \in Nat,
         \A s \in S : s.tier \in Nat /\ s.age \in Int /\ s.age + B \in Nat
  PROVE  First(S) # {}
<1>1. PICK t \in {s.tier : s \in S} : \A u \in {s.tier : s \in S} : t <= u
  <2>1. {s.tier : s \in S} \in SUBSET Nat /\ {s.tier : s \in S} # {}
    OBVIOUS
  <2> QED
    BY <2>1, LeastNatural
<1> DEFINE T == {s \in S : s.tier = t}
<1>2. PICK a \in {s.age + B : s \in T} : \A u \in {s.age + B : s \in T} : a <= u
  <2>1. {s.age + B : s \in T} \in SUBSET Nat /\ {s.age + B : s \in T} # {}
    BY <1>1
  <2> QED
    BY <2>1, LeastNatural
<1>3. PICK s \in T : a = s.age + B
  BY <1>2
<1>4. s \in First(S)
  <2> SUFFICES ASSUME NEW r \in S
               PROVE  s.tier < r.tier \/ (s.tier = r.tier /\ s.age <= r.age)
    BY <1>3 DEF First
  <2>1. t <= r.tier /\ s.tier = t /\ s.tier \in Nat /\ r.tier \in Nat
    BY <1>1, <1>3
  <2>2. CASE r.tier = t
    <3>1. a <= r.age + B
      BY <1>2, <2>2
    <3>2. PICK m \in Int, n \in Int : m = s.age /\ n = r.age
      BY <1>3
    <3>3. m <= n
      BY <1>3, <3>1, <3>2
    <3> QED
      BY <2>1, <2>2, <3>2, <3>3
  <2>3. CASE r.tier # t
    BY <2>1, <2>3
  <2> QED
    BY <2>2, <2>3
<1> QED
  BY <1>4

-----------------------------------------------------------------------------
(* The invariant *)

Columns == {"source", "native", "url", "title", "company", "description", "opening",
            "closed", "created", "key", "hash"}
Roles == {"said", "legacy", "closing"}
Origins == {"agent", "human", "legacy"}

\* A card and the id it has: the address of a card found is that of the posting.
CardOK(id, card, n) ==
  /\ DOMAIN card = Columns /\ card.opening \in Statuses /\ card.created \in 0..n
  /\ \/ \E item \in Items : id = FoundId(item) /\ card.url = item.url
     \/ \E form \in Forms : id = TypedId(form)

CardsOK(cards, n) == \A id \in DOMAIN cards : CardOK(id, cards[id], n)

SightingOK(o, ids, n) ==
  /\ DOMAIN o = {"round", "source", "native", "url", "job", "at"}
  /\ o.round \in Rounds /\ o.job \in ids /\ o.at \in 1..n

SightingsOK(seen, ids, n) == \A o \in seen : SightingOK(o, ids, n)

DuplicateOK(d, ids) ==
  /\ DOMAIN d = {"job", "candidate", "status", "old"}
  /\ d.job \in ids /\ d.candidate \in ids \ {d.job}

DuplicatesOK(queue, ids) == \A d \in queue : DuplicateOK(d, ids)

\* A row of evidence, of whatever field: what is said of the opening is a status.
EntryOK(id, entry, n) ==
  /\ DOMAIN entry = {"value", "origin", "at", "open"}
  /\ entry.origin \in Origins /\ entry.at \in 0..n /\ entry.open \in BOOLEAN
  /\ id.field = "opening" => entry.value \in Statuses

IdOK(id, ids, n) == id \in [n : 1..n, role : Roles, job : ids, field : Fields]

EvidenceOK(known, ids, n) ==
  \A id \in DOMAIN known : IdOK(id, ids, n) /\ EntryOK(id, known[id], n)

\* Both sides of a conflict are evidence of its field.
ConflictOK(c, ids, known) ==
  /\ c = [job |-> c.job, field |-> c.field, current |-> c.current, candidate |-> c.candidate,
          status |-> c.status]
  /\ c.job \in ids /\ c.field \in Fields
  /\ c.current \in DOMAIN known /\ c.candidate \in DOMAIN known
  /\ c.current.field = c.field /\ c.candidate.field = c.field

ConflictsOK(queue, ids, known) == \A c \in queue : ConflictOK(c, ids, known)

ProvenanceInv ==
  /\ writes \in 0..MaxWrites
  /\ CardsOK(jobs, writes)
  /\ SightingsOK(occurrences, DOMAIN jobs, writes)
  /\ DuplicatesOK(duplicates, DOMAIN jobs)
  /\ EvidenceOK(evidence, DOMAIN jobs, writes)
  /\ ConflictsOK(conflicts, DOMAIN jobs, evidence)
  /\ checking \subseteq DOMAIN jobs
  /\ OneCardPerPosting

\* The company of a card is still that of the postings it was found by.
EmployerOK(cards) ==
  \A item \in Items : FoundId(item) \in DOMAIN cards => cards[FoundId(item)].company = item.company

\* A step that edits the company of no card.
EmployersStay == \A j \in DOMAIN jobs : jobs'[j].company = jobs[j].company

\* A posting nothing recognises is written over the card of its id.
Rewritten(j) == \E d \in Delivered : j = FoundId(d[1]) /\ Recognised(d[1]) = NoJob

(* A field that says something is written by a person, or by a posting     *)
(* nothing recognises whose id is the card's; except that the closing of a *)
(* vacancy is taken from the sources and the portals.                      *)
WriterKnown ==
  \A j \in DOMAIN jobs, f \in Fields :
    /\ jobs'[j][f] # jobs[j][f] /\ jobs[j][f] \notin {Blank, "unknown"}
    /\ ~(f = "opening" /\ jobs'[j].opening = "closed")
    => ByPerson(j, f) \/ Rewritten(j)

-----------------------------------------------------------------------------
(* The table of evidence *)

\* What is well formed stays so as cards are added and time passes.
LEMMA EvidenceGrows ==
  ASSUME NEW known, NEW ids, NEW more, NEW n \in Nat, NEW m \in Nat,
         EvidenceOK(known, ids, n), ids \subseteq more, n <= m
  PROVE  EvidenceOK(known, more, m)
<1> SUFFICES ASSUME NEW id \in DOMAIN known
             PROVE  IdOK(id, more, m) /\ EntryOK(id, known[id], m)
  BY DEF EvidenceOK
<1>1. IdOK(id, ids, n) /\ EntryOK(id, known[id], n)
  BY DEF EvidenceOK
<1>2. 1..n \subseteq 1..m /\ 0..n \subseteq 0..m
  OBVIOUS
<1>3. IdOK(id, more, m)
  BY <1>1, <1>2 DEF IdOK
<1>4. EntryOK(id, known[id], m)
  BY <1>1, <1>2 DEF EntryOK
<1> QED
  BY <1>3, <1>4

\* The identifiers of a request are its own.
LEMMA IdIsOK ==
  ASSUME NEW ids, NEW job \in ids, NEW field \in Fields, NEW role \in Roles, writes \in Nat
  PROVE  /\ IdOK(Id(job, field, role), ids, now)
         /\ Id(job, field, role).job = job /\ Id(job, field, role).field = field
         /\ Id(job, field, role).role = role /\ Id(job, field, role).n = now
<1>1. now \in 1..now
  BY DEF now
<1> QED
  BY <1>1 DEF IdOK, Id

\* The values said may be added.
SaidOK(said, ids, n) ==
  \A id \in DOMAIN said : IdOK(id, ids, n) /\ (id.field = "opening" => said[id] \in Statuses)

LEMMA AddKeeps ==
  ASSUME NEW known, NEW said, NEW ids, NEW origin \in Origins, NEW n \in Nat,
         EvidenceOK(known, ids, n), SaidOK(said, ids, n)
  PROVE  /\ EvidenceOK(Add(known, said, origin), ids, n)
         /\ DOMAIN Add(known, said, origin) = DOMAIN known \cup DOMAIN said
<1> DEFINE after == Add(known, said, origin)
<1>1. DOMAIN after = DOMAIN known \cup DOMAIN said
  BY DEF Add
<1>2. ASSUME NEW id \in DOMAIN after
      PROVE  IdOK(id, ids, n) /\ EntryOK(id, after[id], n)
  <2>1. CASE id \in DOMAIN said
    <3>1. after[id] = [value |-> said[id], origin |-> origin, at |-> 0, open |-> FALSE]
      BY <1>2, <2>1 DEF Add
    <3>2. EntryOK(id, after[id], n)
      BY <3>1, <2>1 DEF EntryOK, SaidOK
    <3> QED
      BY <3>2, <2>1 DEF SaidOK
  <2>2. CASE id \notin DOMAIN said
    <3>1. id \in DOMAIN known /\ after[id] = known[id]
      BY <1>2, <2>2 DEF Add
    <3> QED
      BY <3>1 DEF EvidenceOK
  <2> QED
    BY <2>1, <2>2
<1> QED
  BY <1>1, <1>2 DEF EvidenceOK

\* A row of provenance is written or marked; what was said does not change.
LEMMA EntryMarked ==
  ASSUME NEW id, NEW entry, NEW n \in Nat, EntryOK(id, entry, n),
         NEW at \in 0..n, NEW open \in BOOLEAN
  PROVE  /\ EntryOK(id, [entry EXCEPT !.at = at, !.open = open], n)
         /\ EntryOK(id, [entry EXCEPT !.open = open], n)
<1>1. EntryOK(id, [entry EXCEPT !.at = at, !.open = open], n)
  BY DEF EntryOK
<1>2. EntryOK(id, [entry EXCEPT !.open = open], n)
  BY DEF EntryOK
<1> QED
  BY <1>1, <1>2

LEMMA SelectKeeps ==
  ASSUME NEW known, NEW chosen, NEW ids, writes \in Nat, EvidenceOK(known, ids, now)
  PROVE  /\ EvidenceOK(SelectEvidence(known, chosen), ids, now)
         /\ DOMAIN SelectEvidence(known, chosen) = DOMAIN known
<1> DEFINE after == SelectEvidence(known, chosen)
<1>1. DOMAIN after = DOMAIN known
  BY DEF SelectEvidence
<1>2. now \in Nat /\ now \in 0..now
  BY DEF now
<1>3. ASSUME NEW id \in DOMAIN known
      PROVE  IdOK(id, ids, now) /\ EntryOK(id, after[id], now)
  <2>1. IdOK(id, ids, now) /\ EntryOK(id, known[id], now)
    BY DEF EvidenceOK
  <2>2. CASE id \in chosen
    <3>1. after[id] = [known[id] EXCEPT !.at = now, !.open = TRUE]
      BY <2>2 DEF SelectEvidence
    <3>2. TRUE \in BOOLEAN
      OBVIOUS
    <3>3. EntryOK(id, [known[id] EXCEPT !.at = now, !.open = TRUE], now)
      BY <3>2, <2>1, <1>2, EntryMarked, Zenon
    <3> QED
      BY <3>1, <3>3, <2>1
  <2>3. CASE id \notin chosen
    <3> DEFINE open == known[id].open /\ ~\E c \in chosen : c.job = id.job /\ c.field = id.field
    <3>1. after[id] = [known[id] EXCEPT !.open = open]
      BY <2>3 DEF SelectEvidence
    <3>2. open \in BOOLEAN
      OBVIOUS
    <3> HIDE DEF open
    <3>3. EntryOK(id, [known[id] EXCEPT !.open = open], now)
      BY <3>2, <2>1, <1>2, EntryMarked, Zenon
    <3> QED
      BY <3>1, <3>3, <2>1
  <2> QED
    BY <2>2, <2>3
<1> QED
  BY <1>1, <1>3 DEF EvidenceOK

LEMMA RowKeeps ==
  ASSUME NEW known, NEW chosen, NEW ids, NEW open \in BOOLEAN, writes \in Nat,
         EvidenceOK(known, ids, now)
  PROVE  /\ EvidenceOK(Row(known, chosen, open), ids, now)
         /\ DOMAIN Row(known, chosen, open) = DOMAIN known
<1> DEFINE after == Row(known, chosen, open)
<1>1. DOMAIN after = DOMAIN known
  BY DEF Row
<1>2. now \in Nat /\ now \in 0..now
  BY DEF now
<1>3. ASSUME NEW id \in DOMAIN known
      PROVE  IdOK(id, ids, now) /\ EntryOK(id, after[id], now)
  <2>1. IdOK(id, ids, now) /\ EntryOK(id, known[id], now)
    BY DEF EvidenceOK
  <2>2. CASE id \in chosen
    <3>1. after[id] = [known[id] EXCEPT !.at = now, !.open = open]
      BY <2>2 DEF Row
    <3>2. EntryOK(id, [known[id] EXCEPT !.at = now, !.open = open], now)
      BY <2>1, <1>2, EntryMarked, Zenon
    <3> QED
      BY <3>1, <3>2, <2>1
  <2>3. CASE id \notin chosen
    BY <2>1, <2>3 DEF Row
  <2> QED
    BY <2>2, <2>3
<1> QED
  BY <1>1, <1>3 DEF EvidenceOK

LEMMA ChooseKeeps ==
  ASSUME NEW known, NEW said, NEW ids, NEW origin \in Origins, writes \in Nat,
         EvidenceOK(known, ids, now), SaidOK(said, ids, now)
  PROVE  /\ EvidenceOK(Choose(known, said, origin), ids, now)
         /\ DOMAIN Choose(known, said, origin) = DOMAIN known \cup DOMAIN said
<1>1. now \in Nat
  BY DEF now
<1>2. /\ EvidenceOK(Add(known, said, origin), ids, now)
      /\ DOMAIN Add(known, said, origin) = DOMAIN known \cup DOMAIN said
  BY <1>1, AddKeeps
<1> QED
  BY <1>2, SelectKeeps DEF Choose

\* What a posting, a form or a card says of some fields.
LEMMA SaysOK ==
  ASSUME NEW row, NEW ids, NEW job \in ids, NEW fields \in SUBSET Fields, NEW role \in Roles,
         row.opening \in Statuses, writes \in Nat
  PROVE  /\ SaidOK(Says(row, job, fields, role), ids, now)
         /\ DOMAIN Says(row, job, fields, role) = {Id(job, f, role) : f \in fields}
<1>1. DOMAIN Says(row, job, fields, role) = {Id(job, f, role) : f \in fields}
  BY DEF Says
<1>2. ASSUME NEW f \in fields
      PROVE  LET id == Id(job, f, role)
             IN  IdOK(id, ids, now) /\ (id.field = "opening" => Says(row, job, fields, role)[id] \in Statuses)
  <2>1. IdOK(Id(job, f, role), ids, now) /\ Id(job, f, role).field = f
    BY IdIsOK
  <2>2. Says(row, job, fields, role)[Id(job, f, role)] = row[Id(job, f, role).field]
    BY DEF Says
  <2> QED
    BY <2>1, <2>2
<1> QED
  BY <1>1, <1>2 DEF SaidOK

LEMMA OneOK ==
  ASSUME NEW ids, NEW job \in ids, NEW field \in Fields, NEW role \in Roles, NEW value,
         field = "opening" => value \in Statuses, writes \in Nat
  PROVE  /\ SaidOK(One(Id(job, field, role), value), ids, now)
         /\ DOMAIN One(Id(job, field, role), value) = {Id(job, field, role)}
<1>1. IdOK(Id(job, field, role), ids, now) /\ Id(job, field, role).field = field
  BY IdIsOK
<1> QED
  BY <1>1 DEF One, SaidOK

LEMMA ClosedKeeps ==
  ASSUME NEW known, NEW ids, NEW job \in ids, writes \in Nat, EvidenceOK(known, ids, now)
  PROVE  /\ EvidenceOK(ClosedEvidence(known, job), ids, now)
         /\ DOMAIN known \subseteq DOMAIN ClosedEvidence(known, job)
<1>1. /\ SaidOK(One(Id(job, "opening", "closing"), "closed"), ids, now)
      /\ "agent" \in Origins
  BY OneOK DEF Fields, Roles, Statuses, Origins
<1>2. /\ EvidenceOK(ClosedEvidence(known, job), ids, now)
      /\ DOMAIN ClosedEvidence(known, job)
           = DOMAIN known \cup DOMAIN One(Id(job, "opening", "closing"), "closed")
  BY <1>1, ChooseKeeps, Zenon DEF ClosedEvidence
<1> QED
  BY <1>2

\* The evidence taken for a field is in the table, and is of that field.
LEMMA SelectedIsOfField ==
  ASSUME NEW known, NEW job, NEW field, NEW id \in Selected(known, job, field)
  PROVE  id \in DOMAIN known /\ id.field = field /\ id.job = job
BY DEF Selected, Open

LEMMA LegacyKeeps ==
  ASSUME NEW known, NEW ids, NEW job \in ids, NEW fields \in SUBSET Fields,
         jobs[job].opening \in Statuses, writes \in Nat, EvidenceOK(known, ids, now)
  PROVE  /\ EvidenceOK(WithLegacy(known, job, fields), ids, now)
         /\ DOMAIN known \subseteq DOMAIN WithLegacy(known, job, fields)
<1> DEFINE bare == {f \in fields : Selected(known, job, f) = {}}
           said == Says(jobs[job], job, bare, "legacy")
<1>1. bare \in SUBSET Fields /\ "legacy" \in Roles /\ "legacy" \in Origins
  BY DEF Roles, Origins
<1>2. WithLegacy(known, job, fields) = Choose(known, said, "legacy")
  BY DEF WithLegacy
<1> HIDE DEF bare
<1>3. SaidOK(said, ids, now)
  BY <1>1, SaysOK
<1> HIDE DEF said
<1>4. /\ EvidenceOK(Choose(known, said, "legacy"), ids, now)
      /\ DOMAIN Choose(known, said, "legacy") = DOMAIN known \cup DOMAIN said
  BY <1>1, <1>3, ChooseKeeps, Zenon
<1> QED
  BY <1>2, <1>4

(* After what the card shows was written down there is evidence for each   *)
(* of the fields: the card's own, or the one there was.                    *)
LEMMA LegacyFound ==
  ASSUME NEW known, NEW job, NEW fields, NEW f \in fields,
         \A id \in DOMAIN known : DOMAIN known[id] = {"value", "origin", "at", "open"} /\ known[id].open \in BOOLEAN
  PROVE  Selected(WithLegacy(known, job, fields), job, f) # {}
<1> DEFINE bare == {g \in fields : Selected(known, job, g) = {}}
           said == Says(jobs[job], job, bare, "legacy")
           after == WithLegacy(known, job, fields)
           own == Id(job, f, "legacy")
<1>1. after = SelectEvidence(Add(known, said, "legacy"), DOMAIN said)
  BY DEF WithLegacy, Choose
<1>2. DOMAIN said = {Id(job, g, "legacy") : g \in bare}
  BY DEF Says
<1>3. \A g : Id(job, g, "legacy").job = job /\ Id(job, g, "legacy").field = g
             /\ Id(job, g, "legacy").role = "legacy"
  BY DEF Id
<1>4. DOMAIN after = DOMAIN known \cup DOMAIN said
  BY <1>1 DEF SelectEvidence, Add
<1>5. \A id \in DOMAIN after :
        after[id] = IF id \in DOMAIN said THEN [Add(known, said, "legacy")[id] EXCEPT !.at = now, !.open = TRUE]
                    ELSE [Add(known, said, "legacy")[id] EXCEPT
                            !.open = @ /\ ~\E c \in DOMAIN said : c.job = id.job /\ c.field = id.field]
  BY <1>1, <1>4 DEF SelectEvidence, Add
<1>6. CASE f \in bare
  <2>1. own \in DOMAIN said /\ own \in DOMAIN after
    BY <1>2, <1>4, <1>6
  <2>2. Add(known, said, "legacy")[own] = [value |-> said[own], origin |-> "legacy", at |-> 0, open |-> FALSE]
    BY <2>1 DEF Add
  <2>3. after[own].open
    BY <2>1, <2>2, <1>5
  <2>4. ASSUME NEW id \in Open(after, job, f)
        PROVE  id = own
    <3>1. id \in DOMAIN after /\ id.job = job /\ id.field = f /\ after[id].open
      BY DEF Open
    <3>2. CASE id \in DOMAIN said
      BY <3>1, <3>2, <1>2, <1>3
    <3>3. CASE id \notin DOMAIN said
      <4> DEFINE open == /\ Add(known, said, "legacy")[id].open
                         /\ ~\E c \in DOMAIN said : c.job = id.job /\ c.field = id.field
      <4>1. ~open
        BY <3>1, <2>1, <1>3
      <4>2. after[id] = [known[id] EXCEPT !.open = open] /\ known[id] = Add(known, said, "legacy")[id]
        BY <3>1, <3>3, <1>4, <1>5 DEF Add
      <4> HIDE DEF open
      <4> QED
        BY <3>1, <4>1, <4>2
    <3> QED
      BY <3>2, <3>3
  <2>5. own \in Open(after, job, f)
    BY <2>1, <2>3, <1>3 DEF Open
  <2>6. own \in Selected(after, job, f)
    BY <2>4, <2>5, <1>3 DEF Selected
  <2> QED
    BY <2>6
<1>7. CASE f \notin bare
  <2>1. PICK id \in Selected(known, job, f) : TRUE
    BY <1>7
  <2>2. \A c \in DOMAIN said : ~(c.job = job /\ c.field = f)
    BY <1>2, <1>3, <1>7
  <2>3. ASSUME NEW other \in DOMAIN after, other.job = job, other.field = f
        PROVE  other \in DOMAIN known /\ (after[other].at = known[other].at)
               /\ (after[other].open = known[other].open)
    <3>1. other \notin DOMAIN said
      BY <2>2, <2>3
    <3>2. other \in DOMAIN known /\ Add(known, said, "legacy")[other] = known[other]
      BY <3>1, <2>3, <1>4 DEF Add
    <3> DEFINE open == known[other].open /\ ~\E c \in DOMAIN said : c.job = other.job /\ c.field = other.field
    <3>3. after[other] = [known[other] EXCEPT !.open = open]
      <4>1. after[other] = [Add(known, said, "legacy")[other] EXCEPT
                !.open = @ /\ ~\E c \in DOMAIN said : c.job = other.job /\ c.field = other.field]
        BY <3>1, <2>3, <1>5
      <4>2. after[other] = [known[other] EXCEPT
                !.open = known[other].open /\ ~\E c \in DOMAIN said : c.job = other.job /\ c.field = other.field]
        BY <3>2, <4>1
      <4> QED
        BY <4>2
    <3>4. open = known[other].open
      BY <2>2, <2>3, <3>2
    <3> HIDE DEF open
    <3>5. DOMAIN known[other] = {"value", "origin", "at", "open"}
      BY <3>2
    <3>6. after[other].at = known[other].at /\ after[other].open = open
      BY <3>3, <3>5
    <3> QED
      BY <3>2, <3>4, <3>6
  <2> HIDE DEF after
  <2>4. Open(after, job, f) \subseteq Open(known, job, f)
    <3> SUFFICES ASSUME NEW other \in Open(after, job, f)
                 PROVE  other \in Open(known, job, f)
      OBVIOUS
    <3>1. other \in DOMAIN after /\ other.job = job /\ other.field = f /\ after[other].open
      BY DEF Open
    <3> QED
      BY <3>1, <2>3 DEF Open
  <2>5. id \in Open(known, job, f)
    BY <2>1 DEF Selected
  <2>6. id \in DOMAIN after
    BY <2>5, <1>4 DEF Open
  <2>7. id \in Open(after, job, f)
    BY <2>5, <2>6, <2>3 DEF Open
  <2>8. \A other \in Open(after, job, f) :
          \/ after[other].at < after[id].at
          \/ after[other].at = after[id].at /\ id.role \in {other.role, "legacy"}
    <3> SUFFICES ASSUME NEW other \in Open(after, job, f)
                 PROVE  \/ after[other].at < after[id].at
                        \/ after[other].at = after[id].at /\ id.role \in {other.role, "legacy"}
      OBVIOUS
    <3>1. after[other].at = known[other].at /\ after[id].at = known[id].at
      BY <2>3, <2>7 DEF Open
    <3>2. \/ known[other].at < known[id].at
          \/ known[other].at = known[id].at /\ id.role \in {other.role, "legacy"}
      BY <2>1, <2>4 DEF Selected
    <3> QED
      BY <3>1, <3>2
  <2>9. id \in Selected(after, job, f)
    BY <2>7, <2>8 DEF Selected
  <2> QED
    BY <2>9 DEF after
<1> QED
  BY <1>6, <1>7

-----------------------------------------------------------------------------
(* What recognises a posting *)

\* The name of no card says that there is none.
LEMMA NoJobIsNoCard ==
  ASSUME ProvenanceInv
  PROVE  NoJob \notin DOMAIN jobs
BY NoJobAssumption DEF ProvenanceInv, CardsOK, CardOK

\* The two times a signal is ordered by.
LEMMA SignalAges ==
  ASSUME ProvenanceInv
  PROVE  /\ \A o \in occurrences : o.job \in DOMAIN jobs /\ -o.at \in Int /\ (-o.at) + writes \in Nat
         /\ \A j \in DOMAIN jobs : jobs[j].created \in Int /\ jobs[j].created + writes \in Nat
<1>1. writes \in Nat
  BY DiscoveryAssumption DEF ProvenanceInv
<1>2. ASSUME NEW o \in occurrences
      PROVE  o.job \in DOMAIN jobs /\ -o.at \in Int /\ (-o.at) + writes \in Nat
  <2>1. PICK at \in 1..writes : at = o.at
    BY DEF ProvenanceInv, SightingsOK, SightingOK
  <2>2. o.job \in DOMAIN jobs
    BY DEF ProvenanceInv, SightingsOK, SightingOK
  <2> QED
    BY <1>1, <2>1, <2>2
<1>3. ASSUME NEW j \in DOMAIN jobs
      PROVE  jobs[j].created \in Int /\ jobs[j].created + writes \in Nat
  <2>1. PICK at \in 0..writes : at = jobs[j].created
    BY DEF ProvenanceInv, CardsOK, CardOK
  <2> QED
    BY <1>1, <2>1
<1> QED
  BY <1>2, <1>3

SignalOK(item, s) ==
  /\ s.tier \in Nat /\ s.tier >= 1 /\ s.age \in Int /\ s.age + writes \in Nat
  /\ s.job \in DOMAIN jobs
  /\ s.tier = 1 => \E o \in occurrences : SameNative(item, o) /\ s.job = o.job

LEMMA SignalShape ==
  ASSUME ProvenanceInv, NEW item
  PROVE  \A s \in Signals(item) : SignalOK(item, s)
<1> DEFINE signal(tier, age, job) == [tier |-> tier, age |-> age, job |-> job]
           sees(o) == SameIdentity(item, o.url, o, jobs[o.job].company)
<1>1. ASSUME NEW o \in occurrences
      PROVE  /\ SameNative(item, o) => SignalOK(item, signal(1, -o.at, o.job))
             /\ SignalOK(item, signal(2, -o.at, o.job))
  BY SignalAges DEF SignalOK
<1>2. ASSUME NEW j \in DOMAIN jobs, NEW tier \in {3, 4, 5}
      PROVE  SignalOK(item, signal(tier, jobs[j].created, j))
  BY SignalAges DEF SignalOK
<1>3. SUFFICES ASSUME NEW s \in Signals(item)
               PROVE  \/ \E o \in occurrences : SameNative(item, o) /\ s = signal(1, -o.at, o.job)
                      \/ \E o \in occurrences : s = signal(2, -o.at, o.job)
                      \/ \E j \in DOMAIN jobs, tier \in {3, 4, 5} : s = signal(tier, jobs[j].created, j)
  <2> HIDE DEF signal
  <2> QED
    BY <1>1, <1>2
<1> QED
  BY DEF Signals

LEMMA RecognisedIsCard ==
  ASSUME ProvenanceInv, NEW item, Signals(item) # {}
  PROVE  \E s \in First(Signals(item)) : Recognised(item) = s.job /\ s.job \in DOMAIN jobs
<1>1. writes \in Nat
  BY DiscoveryAssumption DEF ProvenanceInv
<1>2. \A s \in Signals(item) : s.tier \in Nat /\ s.age \in Int /\ s.age + writes \in Nat
  BY SignalShape DEF SignalOK
<1>3. First(Signals(item)) # {}
  BY <1>1, <1>2, FirstExists
<1>4. Recognised(item) = (CHOOSE s \in First(Signals(item)) : TRUE).job
  BY <1>3 DEF Recognised, First
<1>5. (CHOOSE s \in First(Signals(item)) : TRUE) \in First(Signals(item))
  BY <1>3
<1>6. \A s \in First(Signals(item)) : s.job \in DOMAIN jobs
  BY SignalShape DEF SignalOK, First
<1> QED
  BY <1>4, <1>5, <1>6

LEMMA RecognisedType ==
  ASSUME ProvenanceInv, NEW item
  PROVE  Recognised(item) \in DOMAIN jobs \cup {NoJob}
<1>1. CASE Signals(item) = {}
  BY <1>1 DEF Recognised
<1>2. CASE Signals(item) # {}
  BY <1>2, RecognisedIsCard
<1> QED
  BY <1>1, <1>2

\* A posting of an identifier already seen is on the card of that sighting.
LEMMA SeenIsRecognised ==
  ASSUME ProvenanceInv, NEW item, NEW o \in occurrences, SameNative(item, o)
  PROVE  Recognised(item) = o.job
<1> DEFINE top == [tier |-> 1, age |-> -o.at, job |-> o.job]
<1>1. top \in Signals(item)
  BY DEF Signals
<1>2. PICK s \in First(Signals(item)) : Recognised(item) = s.job /\ s.job \in DOMAIN jobs
  BY <1>1, RecognisedIsCard
<1>3. s \in Signals(item) /\ (s.tier < 1 \/ s.tier = 1)
  BY <1>1, <1>2 DEF First
<1>4. SignalOK(item, s)
  BY <1>3, SignalShape
<1>5. s.tier = 1
  BY <1>3, <1>4 DEF SignalOK
<1>6. PICK p \in occurrences : SameNative(item, p) /\ s.job = p.job
  BY <1>4, <1>5 DEF SignalOK
<1>7. SameNative(o, p)
  BY <1>6 DEF SameNative
<1>8. o.job = p.job
  BY <1>7 DEF ProvenanceInv, OneCardPerPosting
<1> QED
  BY <1>2, <1>6, <1>8

\* A card with the address and the company of a posting recognises it.
LEMMA AddressIsRecognised ==
  ASSUME ProvenanceInv, NEW item, NEW j \in DOMAIN jobs,
         jobs[j].url = item.url, jobs[j].company = item.company
  PROVE  Recognised(item) # NoJob
<1>1. [tier |-> 3, age |-> jobs[j].created, job |-> j] \in Signals(item)
  BY DEF Signals, SameIdentity
<1> QED
  BY <1>1, RecognisedIsCard, NoJobIsNoCard

-----------------------------------------------------------------------------
(* The tables a request writes *)

\* The clock goes on by one.
LEMMA ClockGoesOn ==
  ASSUME ProvenanceInv, Write
  PROVE  writes \in Nat /\ now \in Nat /\ writes <= now /\ writes' = now /\ writes' \in 0..MaxWrites
BY DiscoveryAssumption DEF ProvenanceInv, Write, now

LEMMA CardGrows ==
  ASSUME NEW id, NEW card, NEW n \in Nat, NEW m \in Nat, n <= m, CardOK(id, card, n)
  PROVE  CardOK(id, card, m)
<1>1. 0..n \subseteq 0..m
  OBVIOUS
<1> QED
  BY <1>1 DEF CardOK

LEMMA CardsGrow ==
  ASSUME NEW cards, NEW n \in Nat, NEW m \in Nat, n <= m, CardsOK(cards, n)
  PROVE  CardsOK(cards, m)
BY CardGrows DEF CardsOK

LEMMA WithKeeps ==
  ASSUME NEW id, NEW card, NEW n, CardsOK(jobs, n), CardOK(id, card, n)
  PROVE  CardsOK(With(id, card), n) /\ DOMAIN With(id, card) = DOMAIN jobs \cup {id}
<1>1. DOMAIN With(id, card) = DOMAIN jobs \cup {id}
  BY DEF With
<1>2. \A j \in DOMAIN With(id, card) : With(id, card)[j] = IF j = id THEN card ELSE jobs[j]
  BY DEF With
<1> QED
  BY <1>1, <1>2 DEF CardsOK

LEMMA PostingType ==
  /\ \A item \in Items \cup Forms : item.opening \in Statuses
  /\ \A d \in Delivered : d[1] \in Items /\ d[2] \in Rounds
BY DiscoveryAssumption

\* What is written over a card keeps its age.
LEMMA CardIsOK ==
  ASSUME ProvenanceInv, NEW item, NEW id, item.opening \in Statuses,
         \/ item \in Items /\ id = FoundId(item)
         \/ item \in Forms /\ id = TypedId(item)
  PROVE  CardOK(id, Card(item, id), now)
<1>1. writes \in Nat
  BY DiscoveryAssumption DEF ProvenanceInv
<1>2. Card(item, id).created \in 0..now
  <2>1. CASE id \in DOMAIN jobs
    <3>1. Card(item, id).created = jobs[id].created
      BY <2>1 DEF Card
    <3>2. jobs[id].created \in 0..writes
      BY <2>1 DEF ProvenanceInv, CardsOK, CardOK
    <3> QED
      BY <1>1, <3>1, <3>2 DEF now
  <2>2. CASE id \notin DOMAIN jobs
    <3>1. Card(item, id).created = now
      BY <2>2 DEF Card
    <3> QED
      BY <1>1, <3>1 DEF now
  <2> QED
    BY <2>1, <2>2
<1>3. DOMAIN Card(item, id) = Columns
  BY DEF Card, Columns
<1>4. Card(item, id).opening \in Statuses /\ Card(item, id).url = item.url
  BY DEF Card
<1> QED
  BY <1>2, <1>3, <1>4 DEF CardOK

LEMMA EditIsOK ==
  ASSUME NEW id, NEW card, NEW n, NEW field \in Fields, NEW value, CardOK(id, card, n),
         field = "opening" => value \in Statuses
  PROVE  CardOK(id, [card EXCEPT ![field] = value], n)
<1> DEFINE edited == [card EXCEPT ![field] = value]
<1>1. DOMAIN card = Columns
  BY DEF CardOK
<1>2. DOMAIN edited = Columns /\ edited[field] = value /\ \A g \in Columns \ {field} : edited[g] = card[g]
  BY <1>1 DEF Fields, Text, Columns
<1>3. edited["url"] = card["url"] /\ edited["created"] = card["created"]
  BY <1>2 DEF Fields, Text, Columns
<1>4. edited["opening"] \in Statuses
  BY <1>2 DEF Fields, Text, Columns, CardOK
<1> HIDE DEF edited
<1>5. edited.url = card.url /\ edited.created = card.created /\ edited.opening \in Statuses
  BY <1>3, <1>4
<1> QED
  BY <1>2, <1>5 DEF CardOK, edited

LEMMA EditKeeps ==
  ASSUME NEW job \in DOMAIN jobs, NEW n, NEW field \in Fields, NEW value, CardsOK(jobs, n),
         field = "opening" => value \in Statuses
  PROVE  /\ CardsOK([jobs EXCEPT ![job][field] = value], n)
         /\ DOMAIN [jobs EXCEPT ![job][field] = value] = DOMAIN jobs
<1> DEFINE after == [jobs EXCEPT ![job][field] = value]
<1>1. DOMAIN after = DOMAIN jobs
  OBVIOUS
<1>2. after[job] = [jobs[job] EXCEPT ![field] = value] /\ \A j \in DOMAIN jobs \ {job} : after[j] = jobs[j]
  OBVIOUS
<1>3. CardOK(job, [jobs[job] EXCEPT ![field] = value], n)
  BY EditIsOK DEF CardsOK
<1> QED
  BY <1>1, <1>2, <1>3 DEF CardsOK

LEMMA ClosedCardIsOK ==
  ASSUME NEW id, NEW card, NEW n, CardOK(id, card, n)
  PROVE  /\ CardOK(id, ClosedCard(card), n)
         /\ \A g \in Columns \ {"opening", "closed"} : ClosedCard(card)[g] = card[g]
         /\ ClosedCard(card).opening = "closed"
BY DEF CardOK, ClosedCard, Columns, Statuses

LEMMA SightingsGrow ==
  ASSUME NEW seen, NEW ids, NEW more, NEW n \in Nat, NEW m \in Nat, n <= m, ids \subseteq more,
         SightingsOK(seen, ids, n)
  PROVE  SightingsOK(seen, more, m)
<1>1. 1..n \subseteq 1..m
  OBVIOUS
<1> QED
  BY <1>1 DEF SightingsOK, SightingOK

\* A sighting written again, or one more: of the card, and of its posting.
LEMMA ObserveShape ==
  ASSUME NEW item, NEW id, NEW round,
         \A o \in occurrences : DOMAIN o = {"round", "source", "native", "url", "job", "at"},
         NEW new \in Observe(item, id, round)
  PROVE  \/ new \in occurrences
         \/ \E o \in occurrences : new = [o EXCEPT !.at = now]
         \/ new = [round |-> round, source |-> item.source, native |-> item.native,
                   url |-> item.url, job |-> id, at |-> now]
BY DEF Observe

LEMMA ObserveKeeps ==
  ASSUME ProvenanceInv, NEW item, NEW id, NEW round \in Rounds, NEW ids,
         id \in ids, DOMAIN jobs \subseteq ids
  PROVE  SightingsOK(Observe(item, id, round), ids, now)
<1>1. writes \in Nat /\ now \in Nat /\ writes <= now /\ now \in 1..now
  BY DiscoveryAssumption DEF ProvenanceInv, now
<1>2. SightingsOK(occurrences, ids, now)
  BY <1>1, SightingsGrow DEF ProvenanceInv
<1> SUFFICES ASSUME NEW new \in Observe(item, id, round)
             PROVE  SightingOK(new, ids, now)
  BY DEF SightingsOK
<1>3. \A o \in occurrences : DOMAIN o = {"round", "source", "native", "url", "job", "at"}
  BY <1>2 DEF SightingsOK, SightingOK
<1>4. CASE new \in occurrences
  BY <1>2, <1>4 DEF SightingsOK
<1>5. ASSUME NEW o \in occurrences, new = [o EXCEPT !.at = now]
      PROVE  SightingOK(new, ids, now)
  BY <1>1, <1>2, <1>5 DEF SightingsOK, SightingOK
<1>6. CASE new = [round |-> round, source |-> item.source, native |-> item.native,
                  url |-> item.url, job |-> id, at |-> now]
  BY <1>1, <1>6 DEF SightingOK
<1> QED
  BY <1>3, <1>4, <1>5, <1>6, ObserveShape

\* A posting observed on the card of its other sightings is on one card.
LEMMA ObserveOnOne ==
  ASSUME ProvenanceInv, NEW item, NEW id, NEW round,
         \A o \in occurrences : SameNative(item, o) => o.job = id
  PROVE  \A o, p \in Observe(item, id, round) : SameNative(o, p) => o.job = p.job
<1>1. \A o \in occurrences : DOMAIN o = {"round", "source", "native", "url", "job", "at"}
  BY DEF ProvenanceInv, SightingsOK, SightingOK
<1> DEFINE alike(new, o) == new.source = o.source /\ new.native = o.native /\ new.job = o.job
           fresh(new) == new.source = item.source /\ new.native = item.native /\ new.job = id
<1>2. ASSUME NEW new \in Observe(item, id, round)
      PROVE  (\E o \in occurrences : alike(new, o)) \/ fresh(new)
  <2>1. ASSUME NEW o \in occurrences, new = [o EXCEPT !.at = now]
        PROVE  alike(new, o)
    BY <1>1, <2>1
  <2> QED
    BY <1>1, <2>1, ObserveShape
<1>3. TAKE o, p \in Observe(item, id, round)
<1>4. HAVE SameNative(o, p)
<1>5. CASE fresh(o) /\ fresh(p)
  BY <1>5
<1>6. ASSUME NEW q \in occurrences, alike(o, q), fresh(p)
      PROVE  o.job = p.job
  BY <1>4, <1>6 DEF SameNative
<1>7. ASSUME NEW q \in occurrences, alike(p, q), fresh(o)
      PROVE  o.job = p.job
  BY <1>4, <1>7 DEF SameNative
<1>8. ASSUME NEW q \in occurrences, NEW r \in occurrences, alike(o, q), alike(p, r)
      PROVE  o.job = p.job
  <2>1. SameNative(q, r)
    BY <1>4, <1>8 DEF SameNative
  <2> QED
    BY <2>1, <1>8 DEF ProvenanceInv, OneCardPerPosting
<1> HIDE DEF alike, fresh
<1> QED
  BY <1>2, <1>5, <1>6, <1>7, <1>8

LEMMA SuspectKeeps ==
  ASSUME NEW item, NEW id, DuplicatesOK(duplicates, DOMAIN jobs)
  PROVE  DuplicatesOK(Suspect(item, id), DOMAIN jobs \cup {id})
<1> SUFFICES ASSUME NEW d \in Suspect(item, id)
             PROVE  DuplicateOK(d, DOMAIN jobs \cup {id})
  BY DEF DuplicatesOK
<1>1. CASE d \in duplicates
  BY <1>1 DEF DuplicatesOK, DuplicateOK
<1>2. ASSUME NEW j \in Resembled(item, id),
             d = [job |-> id, candidate |-> j, status |-> "pending", old |-> FALSE]
      PROVE  DuplicateOK(d, DOMAIN jobs \cup {id})
  <2>1. j \in DOMAIN jobs \ {id}
    BY DEF Resembled
  <2> QED
    BY <1>2, <2>1 DEF DuplicateOK
<1> QED
  BY <1>1, <1>2 DEF Suspect

LEMMA ConflictsGrow ==
  ASSUME NEW queue, NEW ids, NEW more, NEW known, NEW after,
         ConflictsOK(queue, ids, known), ids \subseteq more, DOMAIN known \subseteq DOMAIN after
  PROVE  ConflictsOK(queue, more, after)
BY DEF ConflictsOK, ConflictOK

\* A conflict decided is the same conflict.
LEMMA ConflictDecided ==
  ASSUME NEW c, NEW ids, NEW known, NEW status, ConflictOK(c, ids, known)
  PROVE  /\ ConflictOK([c EXCEPT !.status = status], ids, known)
         /\ \A f \in {"job", "field", "current", "candidate"} : [c EXCEPT !.status = status][f] = c[f]
         /\ [c EXCEPT !.status = status].status = status
BY DEF ConflictOK

LEMMA ClosedConflictsKeep ==
  ASSUME NEW job, NEW ids, NEW known, ConflictsOK(conflicts, ids, known)
  PROVE  ConflictsOK(ClosedConflicts(job), ids, known)
BY ConflictDecided DEF ConflictsOK, ClosedConflicts

LEMMA ConflictIsOK ==
  ASSUME NEW ids, NEW job \in ids, NEW known, NEW current \in DOMAIN known, NEW candidate \in DOMAIN known,
         candidate.field \in Fields, current.field = candidate.field
  PROVE  ConflictOK(Conflict(job, current, candidate), ids, known)
BY DEF ConflictOK, Conflict

-----------------------------------------------------------------------------
(* The invariant holds *)

LEMMA InvIsTyped ==
  ASSUME ProvenanceInv
  PROVE  TypeOK
<1>1. DOMAIN evidence \subseteq EvidenceId
  <2> SUFFICES ASSUME NEW id \in DOMAIN evidence
               PROVE  id \in EvidenceId
    OBVIOUS
  <2>1. id \in [n : 1..writes, role : Roles, job : DOMAIN jobs, field : Fields]
    BY DEF ProvenanceInv, EvidenceOK, IdOK
  <2>2. 1..writes \subseteq 1..MaxWrites
    BY DiscoveryAssumption DEF ProvenanceInv
  <2> QED
    BY <2>1, <2>2 DEF EvidenceId, Roles
<1>2. \A id \in DOMAIN evidence : /\ evidence[id].origin \in {"agent", "human", "legacy"}
                                  /\ evidence[id].at \in 0..writes /\ evidence[id].open \in BOOLEAN
  BY DEF ProvenanceInv, EvidenceOK, EntryOK, Origins
<1>3. \A j \in DOMAIN jobs : jobs[j].opening \in Statuses /\ jobs[j].created \in 0..writes
  BY DEF ProvenanceInv, CardsOK, CardOK
<1>4. \A o \in occurrences : o.job \in DOMAIN jobs /\ o.round \in Rounds /\ o.at \in 1..writes
  BY DEF ProvenanceInv, SightingsOK, SightingOK
<1>5. \A d \in duplicates : d.job \in DOMAIN jobs /\ d.candidate \in DOMAIN jobs \ {d.job}
  BY DEF ProvenanceInv, DuplicatesOK, DuplicateOK
<1>6. \A c \in conflicts : c.current \in DOMAIN evidence /\ c.candidate \in DOMAIN evidence
  BY DEF ProvenanceInv, ConflictsOK, ConflictOK
<1> QED
  BY <1>1, <1>2, <1>3, <1>4, <1>5, <1>6 DEF TypeOK, ProvenanceInv

\* What no step of the table writes grows with the cards and the clock.
LEMMA InvGrows ==
  ASSUME ProvenanceInv, NEW ids, Write, DOMAIN jobs \subseteq ids
  PROVE  /\ CardsOK(jobs, now) /\ SightingsOK(occurrences, ids, now)
         /\ DuplicatesOK(duplicates, ids) /\ EvidenceOK(evidence, ids, now)
         /\ ConflictsOK(conflicts, ids, evidence) /\ checking \subseteq ids
<1>1. writes \in Nat /\ now \in Nat /\ writes <= now
  BY ClockGoesOn
<1>2. CardsOK(jobs, now)
  BY <1>1, CardsGrow DEF ProvenanceInv
<1>3. SightingsOK(occurrences, ids, now)
  BY <1>1, SightingsGrow DEF ProvenanceInv
<1>4. EvidenceOK(evidence, ids, now)
  BY <1>1, EvidenceGrows DEF ProvenanceInv
<1>5. ConflictsOK(conflicts, ids, evidence)
  BY ConflictsGrow DEF ProvenanceInv
<1>6. DuplicatesOK(duplicates, ids)
  BY DEF ProvenanceInv, DuplicatesOK, DuplicateOK
<1> QED
  BY <1>2, <1>3, <1>4, <1>5, <1>6 DEF ProvenanceInv

LEMMA InvStart ==
  ASSUME Init
  PROVE  ProvenanceInv
<1>1. DOMAIN jobs = {TypedId(form) : form \in Older}
  BY DEF Init
<1>2. ASSUME NEW id \in DOMAIN jobs
      PROVE  CardOK(id, jobs[id], 0)
  <2> DEFINE form == CHOOSE f \in Older : TypedId(f) = id
  <2>1. form \in Older /\ TypedId(form) = id
    BY <1>1
  <2>2. form \in Forms /\ form.opening \in Statuses
    BY <2>1, FieldAssumption, PostingType
  <2>3. jobs[id] = [source |-> form.source, native |-> form.native, url |-> form.url, title |-> form.title,
                    company |-> form.company, description |-> form.description, opening |-> form.opening,
                    closed |-> FALSE, created |-> 0, key |-> DedupKey(form), hash |-> DescriptionHash(form)]
    BY <1>1 DEF Init
  <2> HIDE DEF form
  <2>4. DOMAIN jobs[id] = Columns /\ jobs[id].opening = form.opening /\ jobs[id].created = 0
    BY <2>3 DEF Columns
  <2> QED
    BY <2>1, <2>2, <2>4 DEF CardOK
<1>3. EvidenceOK(evidence, DOMAIN jobs, 0)
  BY DEF Init, EvidenceOK
<1>4. writes = 0 /\ 0 \in 0..MaxWrites
  BY DiscoveryAssumption DEF Init
<1>5. CardsOK(jobs, writes) /\ EvidenceOK(evidence, DOMAIN jobs, writes)
  BY <1>2, <1>3, <1>4 DEF CardsOK
<1>6. /\ SightingsOK(occurrences, DOMAIN jobs, writes) /\ OneCardPerPosting
      /\ DuplicatesOK(duplicates, DOMAIN jobs) /\ ConflictsOK(conflicts, DOMAIN jobs, evidence)
      /\ checking \subseteq DOMAIN jobs
  BY DEF Init, SightingsOK, DuplicatesOK, ConflictsOK, OneCardPerPosting
<1> QED
  BY <1>4, <1>5, <1>6 DEF ProvenanceInv

\* The fields a posting speaks of are said in its evidence.
LEMMA SpokenSaid ==
  ASSUME ProvenanceInv, NEW item \in Items, NEW ids, NEW id \in ids
  PROVE  /\ SaidOK(Says(item, id, Spoken(item), "said"), ids, now)
         /\ DOMAIN Says(item, id, Spoken(item), "said") = {Id(id, f, "said") : f \in Spoken(item)}
<1>1. item.opening \in Statuses /\ writes \in Nat
  BY PostingType, DiscoveryAssumption DEF ProvenanceInv
<1> DEFINE fields == Spoken(item)
           role == "said"
<1>2. fields \in SUBSET Fields /\ role \in Roles
  BY DEF Spoken, Roles
<1> HIDE DEF fields, role
<1>3. SaidOK(Says(item, id, fields, role), ids, now)
  BY <1>1, <1>2, SaysOK
<1>4. DOMAIN Says(item, id, fields, role) = {Id(id, f, role) : f \in fields}
  BY DEF Says
<1> QED
  BY <1>3, <1>4 DEF fields, role

LEMMA NewKeeps ==
  ASSUME ProvenanceInv, NEW d \in Delivered, IngestNew(d[1], d[2])
  PROVE  ProvenanceInv'
<1> DEFINE item == d[1]
           id == FoundId(item)
           card == Card(item, id)
           written == IF Closes(item) THEN ClosedCard(card) ELSE card
           known == IF Closes(item) THEN ClosedEvidence(evidence, id) ELSE evidence
           ids == DOMAIN jobs \cup {id}
<1>1. item \in Items /\ d[2] \in Rounds /\ item.opening \in Statuses
  BY PostingType
<1>2. /\ Recognised(item) = NoJob /\ Write
      /\ jobs' = With(id, written)
      /\ occurrences' = Observe(item, id, d[2])
      /\ duplicates' = Suspect(item, id)
      /\ evidence' = Choose(known, Says(item, id, Spoken(item), "said"), "agent")
      /\ conflicts' = (IF Closes(item) THEN ClosedConflicts(id) ELSE conflicts)
      /\ checking' = checking
  BY DEF IngestNew, WithClosing
<1>3. writes \in Nat /\ now \in Nat /\ writes <= now /\ writes' = now /\ writes' \in 0..MaxWrites
  BY <1>2, ClockGoesOn
<1>4. /\ CardsOK(jobs, now) /\ EvidenceOK(evidence, ids, now)
      /\ ConflictsOK(conflicts, ids, evidence) /\ checking \subseteq ids
  BY <1>2, InvGrows
<1>5. CardOK(id, written, now)
  BY <1>1, CardIsOK, ClosedCardIsOK
<1>6. CardsOK(jobs', now) /\ DOMAIN jobs' = ids
  <2> HIDE DEF written, id
  <2> QED
    BY <1>2, <1>4, <1>5, WithKeeps DEF ids
<1>7. SightingsOK(occurrences', ids, now)
  BY <1>1, <1>2, ObserveKeeps
<1>8. DuplicatesOK(duplicates', ids)
  BY <1>2, SuspectKeeps DEF ProvenanceInv
<1>9. EvidenceOK(known, ids, now) /\ DOMAIN evidence \subseteq DOMAIN known
  BY <1>3, <1>4, ClosedKeeps
<1>10. EvidenceOK(evidence', ids, now) /\ DOMAIN known \subseteq DOMAIN evidence'
  <2> DEFINE said == Says(item, id, Spoken(item), "said")
  <2>1. SaidOK(said, ids, now) /\ "agent" \in Origins
    BY <1>1, SpokenSaid DEF Origins
  <2>2. evidence' = Choose(known, said, "agent")
    BY <1>2
  <2> HIDE DEF known, said, ids
  <2>3. /\ EvidenceOK(Choose(known, said, "agent"), ids, now)
        /\ DOMAIN Choose(known, said, "agent") = DOMAIN known \cup DOMAIN said
    BY <1>3, <1>9, <2>1, ChooseKeeps, Zenon
  <2> QED
    BY <2>2, <2>3
<1>11. ConflictsOK(conflicts', ids, evidence')
  <2>1. ConflictsOK(conflicts', ids, evidence)
    BY <1>2, <1>4, ClosedConflictsKeep
  <2> HIDE DEF known, ids
  <2> QED
    BY <2>1, <1>9, <1>10, ConflictsGrow
<1>12. OneCardPerPosting'
  <2>1. \A o \in occurrences : ~SameNative(item, o)
    <3> SUFFICES ASSUME NEW o \in occurrences, SameNative(item, o)
                 PROVE  FALSE
      OBVIOUS
    <3>1. Recognised(item) = o.job
      BY SeenIsRecognised
    <3>2. o.job \in DOMAIN jobs
      BY DEF ProvenanceInv, SightingsOK, SightingOK
    <3> QED
      BY <3>1, <3>2, <1>2, NoJobIsNoCard
  <2>2. \A o, p \in Observe(item, id, d[2]) : SameNative(o, p) => o.job = p.job
    BY <2>1, ObserveOnOne
  <2> QED
    BY <2>2, <1>2 DEF OneCardPerPosting, SameNative
<1> HIDE DEF item, id, card, written, known, ids
<1> QED
  BY <1>2, <1>3, <1>4, <1>6, <1>7, <1>8, <1>10, <1>11, <1>12 DEF ProvenanceInv

LEMMA KnownKeeps ==
  ASSUME ProvenanceInv, NEW d \in Delivered, IngestKnown(d[1], d[2])
  PROVE  ProvenanceInv'
<1> DEFINE item == d[1]
           id == Recognised(item)
           known == IF Closes(item) THEN ClosedEvidence(evidence, id) ELSE evidence
           said == Says(item, id, Spoken(item), "said")
           same == {e \in DOMAIN said : jobs[id][e.field] = said[e]}
           denied == DOMAIN said \ same
           added == Add(known, said, "agent")
           legacy == WithLegacy(added, id, {e.field : e \in denied})
           after == Row(legacy, same, FALSE)
           pending == IF Closes(item) THEN ClosedConflicts(id) ELSE conflicts
           ids == DOMAIN jobs
<1>1. item \in Items /\ d[2] \in Rounds /\ item.opening \in Statuses
  BY PostingType
<1>2. /\ id # NoJob /\ Write
      /\ jobs' = (IF Closes(item) THEN With(id, ClosedCard(jobs[id])) ELSE jobs)
      /\ occurrences' = Observe(item, id, d[2])
      /\ evidence' = after
      /\ conflicts' = pending \cup UNION {{Conflict(id, current, e) : current \in Selected(after, id, e.field)} : e \in denied}
      /\ duplicates' = duplicates /\ checking' = checking
  BY DEF IngestKnown, WithClosing
<1>3. id \in DOMAIN jobs
  BY <1>2, RecognisedType
<1>4. writes \in Nat /\ now \in Nat /\ writes <= now /\ writes' = now /\ writes' \in 0..MaxWrites
  BY <1>2, ClockGoesOn
<1>5. /\ CardsOK(jobs, now) /\ EvidenceOK(evidence, ids, now)
      /\ ConflictsOK(conflicts, ids, evidence) /\ checking \subseteq ids
  BY <1>2, InvGrows
<1>6. CardsOK(jobs', now) /\ DOMAIN jobs' = ids
  <2>1. CardOK(id, ClosedCard(jobs[id]), now)
    BY <1>3, <1>5, ClosedCardIsOK DEF CardsOK
  <2>2. CASE Closes(item)
    <3> DEFINE card == ClosedCard(jobs[id])
    <3>1. jobs' = With(id, card) /\ CardOK(id, card, now)
      BY <1>2, <2>1, <2>2
    <3> HIDE DEF id, card
    <3>2. CardsOK(With(id, card), now) /\ DOMAIN With(id, card) = DOMAIN jobs \cup {id}
      BY <1>5, <3>1, WithKeeps
    <3> QED
      BY <1>3, <3>1, <3>2
  <2>3. CASE ~Closes(item)
    BY <1>2, <1>5, <2>3
  <2> QED
    BY <2>2, <2>3
<1>7. SightingsOK(occurrences', ids, now)
  BY <1>1, <1>2, <1>3, ObserveKeeps
<1>8. EvidenceOK(known, ids, now) /\ DOMAIN evidence \subseteq DOMAIN known
  BY <1>3, <1>4, <1>5, ClosedKeeps
<1>9. SaidOK(said, ids, now) /\ DOMAIN said = {Id(id, f, "said") : f \in Spoken(item)}
  BY <1>1, <1>3, SpokenSaid
<1>10. \A e \in DOMAIN said : e.field \in Fields
  BY <1>9 DEF SaidOK, IdOK
<1> HIDE DEF known, said
<1>11. /\ EvidenceOK(added, ids, now)
       /\ DOMAIN added = DOMAIN known \cup DOMAIN said
  <2>1. "agent" \in Origins
    BY DEF Origins
  <2> QED
    BY <1>4, <1>8, <1>9, <2>1, AddKeeps, Zenon
<1> HIDE DEF added
<1>12. /\ EvidenceOK(legacy, ids, now)
       /\ DOMAIN added \subseteq DOMAIN legacy
  <2> DEFINE fields == {e.field : e \in denied}
  <2>1. fields \in SUBSET Fields
    BY <1>10
  <2>2. jobs[id].opening \in Statuses
    BY <1>3, <1>5 DEF CardsOK, CardOK
  <2> HIDE DEF fields, id
  <2>3. /\ EvidenceOK(WithLegacy(added, id, fields), ids, now)
        /\ DOMAIN added \subseteq DOMAIN WithLegacy(added, id, fields)
    BY <1>3, <1>4, <1>11, <2>1, <2>2, LegacyKeeps, Zenon
  <2> QED
    BY <2>3 DEF fields
<1> HIDE DEF legacy
<1>13. EvidenceOK(after, ids, now) /\ DOMAIN after = DOMAIN legacy
  <2>1. FALSE \in BOOLEAN
    OBVIOUS
  <2> HIDE DEF same
  <2> QED
    BY <1>4, <1>12, <2>1, RowKeeps, Zenon
<1> HIDE DEF after
<1>14. ConflictsOK(conflicts', ids, after)
  <2>1. ConflictsOK(pending, ids, evidence)
    BY <1>5, ClosedConflictsKeep
  <2>2. DOMAIN evidence \subseteq DOMAIN after
    BY <1>8, <1>11, <1>12, <1>13
  <2> HIDE DEF pending
  <2>3. ConflictsOK(pending, ids, after)
    BY <2>1, <2>2, ConflictsGrow
  <2>4. ASSUME NEW e \in denied, NEW current \in Selected(after, id, e.field)
        PROVE  ConflictOK(Conflict(id, current, e), ids, after)
    <3>1. current \in DOMAIN after /\ current.field = e.field
      BY SelectedIsOfField
    <3>2. e \in DOMAIN after /\ e.field \in Fields
      BY <1>10, <1>11, <1>12, <1>13
    <3> HIDE DEF id
    <3> QED
      BY <1>3, <3>1, <3>2, ConflictIsOK
  <2>5. conflicts' = pending \cup UNION {{Conflict(id, current, e) : current \in Selected(after, id, e.field)} : e \in denied}
    BY <1>2
  <2> HIDE DEF id, denied, same
  <2> QED
    BY <2>3, <2>4, <2>5 DEF ConflictsOK
<1>15. OneCardPerPosting'
  <2>1. \A o, p \in Observe(item, id, d[2]) : SameNative(o, p) => o.job = p.job
    BY SeenIsRecognised, ObserveOnOne
  <2> QED
    BY <2>1, <1>2 DEF OneCardPerPosting, SameNative
<1>16. evidence' = after /\ duplicates' = duplicates /\ checking' = checking
  BY <1>2
<1> HIDE DEF item, id, same, denied, pending
<1> QED
  BY <1>4, <1>5, <1>6, <1>7, <1>13, <1>14, <1>15, <1>16 DEF ProvenanceInv

LEMMA EnrichKeeps ==
  ASSUME ProvenanceInv, NEW job \in DOMAIN jobs, NEW edit \in AgentPatches,
         EnrichJobFromAgent(job, edit[1], edit[2])
  PROVE  ProvenanceInv'
<1> DEFINE field == edit[1]
           value == edit[2]
           said == Id(job, field, "said")
           added == Add(evidence, One(said, value), "agent")
           known == IF Empty(job, field) THEN added ELSE WithLegacy(added, job, {field})
           held == Selected(known, job, field)
           ids == DOMAIN jobs
<1>1. field \in Fields /\ (field = "opening" => value \in Statuses)
  BY FieldAssumption
<1>2. Write /\ occurrences' = occurrences /\ duplicates' = duplicates /\ checking' = checking
  BY DEF EnrichJobFromAgent
<1>3. \/ evidence' = Row(known, {said}, TRUE) /\ jobs' = jobs /\ conflicts' = conflicts
      \/ /\ evidence' = SelectEvidence(known, {said})
         /\ jobs' = [jobs EXCEPT ![job][field] = value] /\ conflicts' = conflicts
      \/ /\ evidence' = known /\ jobs' = jobs
         /\ conflicts' = conflicts \cup {Conflict(job, current, said) : current \in held}
  BY DEF EnrichJobFromAgent
<1>4. writes \in Nat /\ now \in Nat /\ writes <= now /\ writes' = now /\ writes' \in 0..MaxWrites
  BY <1>2, ClockGoesOn
<1>5. /\ CardsOK(jobs, now) /\ EvidenceOK(evidence, ids, now) /\ SightingsOK(occurrences, ids, now)
      /\ DuplicatesOK(duplicates, ids)
      /\ ConflictsOK(conflicts, ids, evidence) /\ checking \subseteq ids
  BY <1>2, InvGrows
<1>6. SaidOK(One(said, value), ids, now) /\ DOMAIN One(said, value) = {said} /\ said.field = field
  <2>1. "said" \in Roles
    BY DEF Roles
  <2>2. SaidOK(One(said, value), ids, now)
    BY <1>1, <1>4, <2>1, OneOK
  <2>3. DOMAIN One(said, value) = {said}
    BY DEF One
  <2>4. said.field = field
    BY DEF Id
  <2> QED
    BY <2>2, <2>3, <2>4
<1>7. EvidenceOK(added, ids, now) /\ DOMAIN added = DOMAIN evidence \cup {said}
  <2>1. "agent" \in Origins
    BY DEF Origins
  <2>2. /\ EvidenceOK(added, ids, now)
        /\ DOMAIN added = DOMAIN evidence \cup DOMAIN One(said, value)
    <3> HIDE DEF said
    <3> QED
      BY <1>4, <1>5, <1>6, <2>1, AddKeeps, Zenon
  <2> QED
    BY <2>2, <1>6
<1> HIDE DEF said, added, field, value
<1>8. EvidenceOK(known, ids, now) /\ DOMAIN added \subseteq DOMAIN known
  <2>1. jobs[job].opening \in Statuses
    BY <1>5 DEF CardsOK, CardOK
  <2>2. {field} \in SUBSET Fields
    BY <1>1
  <2>3. /\ EvidenceOK(WithLegacy(added, job, {field}), ids, now)
        /\ DOMAIN added \subseteq DOMAIN WithLegacy(added, job, {field})
    BY <1>4, <1>7, <2>1, <2>2, LegacyKeeps, Zenon
  <2> QED
    BY <1>7, <2>3
<1> HIDE DEF known
<1>9. CardsOK(jobs', now) /\ DOMAIN jobs' = ids
  <2>1. CardsOK([jobs EXCEPT ![job][field] = value], now) /\ DOMAIN [jobs EXCEPT ![job][field] = value] = ids
    BY <1>1, <1>5, EditKeeps
  <2> QED
    BY <1>3, <1>5, <2>1
<1>10. EvidenceOK(evidence', ids, now) /\ DOMAIN known \subseteq DOMAIN evidence'
  <2>1. TRUE \in BOOLEAN
    OBVIOUS
  <2>2. EvidenceOK(Row(known, {said}, TRUE), ids, now) /\ DOMAIN Row(known, {said}, TRUE) = DOMAIN known
    BY <1>4, <1>8, <2>1, RowKeeps, Zenon
  <2>3. EvidenceOK(SelectEvidence(known, {said}), ids, now) /\ DOMAIN SelectEvidence(known, {said}) = DOMAIN known
    BY <1>4, <1>8, SelectKeeps, Zenon
  <2> QED
    BY <1>3, <1>8, <2>2, <2>3
<1>11. ConflictsOK(conflicts', ids, evidence')
  <2>1. DOMAIN evidence \subseteq DOMAIN evidence' /\ said \in DOMAIN evidence'
    BY <1>7, <1>8, <1>10
  <2>2. ConflictsOK(conflicts, ids, evidence')
    BY <1>5, <2>1, ConflictsGrow
  <2>3. ASSUME NEW current \in held
        PROVE  ConflictOK(Conflict(job, current, said), ids, evidence')
    <3>1. current \in DOMAIN known /\ current.field = field
      BY SelectedIsOfField
    <3> QED
      BY <1>1, <1>6, <1>10, <2>1, <3>1, ConflictIsOK
  <2> QED
    BY <1>3, <2>2, <2>3 DEF ConflictsOK
<1>12. OneCardPerPosting'
  BY <1>2 DEF ProvenanceInv, OneCardPerPosting, SameNative
<1> HIDE DEF held
<1> QED
  BY <1>2, <1>4, <1>5, <1>9, <1>10, <1>11, <1>12 DEF ProvenanceInv

LEMMA UpdateKeeps ==
  ASSUME ProvenanceInv, NEW job \in DOMAIN jobs, NEW edit \in HumanEdits,
         UpdateJob(job, edit[1], edit[2])
  PROVE  ProvenanceInv'
<1> DEFINE field == edit[1]
           value == edit[2]
           said == One(Id(job, field, "said"), value)
           ids == DOMAIN jobs
<1>1. field \in Fields /\ (field = "opening" => value \in Statuses)
  BY FieldAssumption
<1>2. /\ Write /\ occurrences' = occurrences /\ duplicates' = duplicates /\ checking' = checking
      /\ conflicts' = conflicts
      /\ jobs' = [jobs EXCEPT ![job][field] = value]
      /\ evidence' = Choose(evidence, said, "human")
  BY DEF UpdateJob
<1>3. writes \in Nat /\ now \in Nat /\ writes <= now /\ writes' = now /\ writes' \in 0..MaxWrites
  BY <1>2, ClockGoesOn
<1>4. /\ CardsOK(jobs, now) /\ EvidenceOK(evidence, ids, now) /\ SightingsOK(occurrences, ids, now)
      /\ DuplicatesOK(duplicates, ids)
      /\ ConflictsOK(conflicts, ids, evidence) /\ checking \subseteq ids
  BY <1>2, InvGrows
<1>5. SaidOK(said, ids, now) /\ "human" \in Origins
  BY <1>1, <1>3, OneOK DEF Roles, Origins
<1> HIDE DEF field, value, said
<1>6. CardsOK(jobs', now) /\ DOMAIN jobs' = ids
  BY <1>1, <1>2, <1>4, EditKeeps
<1>7. EvidenceOK(evidence', ids, now) /\ DOMAIN evidence \subseteq DOMAIN evidence'
  <2>1. /\ EvidenceOK(Choose(evidence, said, "human"), ids, now)
        /\ DOMAIN Choose(evidence, said, "human") = DOMAIN evidence \cup DOMAIN said
    BY <1>3, <1>4, <1>5, ChooseKeeps, Zenon
  <2> QED
    BY <1>2, <2>1
<1>8. ConflictsOK(conflicts', ids, evidence')
  BY <1>2, <1>4, <1>7, ConflictsGrow
<1>9. OneCardPerPosting'
  BY <1>2 DEF ProvenanceInv, OneCardPerPosting, SameNative
<1> QED
  BY <1>2, <1>3, <1>4, <1>6, <1>7, <1>8, <1>9 DEF ProvenanceInv

LEMMA CreateKeeps ==
  ASSUME ProvenanceInv, NEW form \in Forms, CreateJobFromHuman(form)
  PROVE  ProvenanceInv'
<1> DEFINE id == TypedId(form)
           given == {f \in Fields : form[f] # Blank}
           said == Says(form, id, given, "said")
           card == Card(form, id)
           ids == DOMAIN jobs \cup {id}
<1>1. form.opening \in Statuses
  BY PostingType
<1>2. /\ Write /\ occurrences' = occurrences /\ duplicates' = duplicates /\ checking' = checking
      /\ conflicts' = conflicts
      /\ jobs' = With(id, card)
      /\ evidence' = Choose(evidence, said, "human")
  BY DEF CreateJobFromHuman
<1>3. writes \in Nat /\ now \in Nat /\ writes <= now /\ writes' = now /\ writes' \in 0..MaxWrites
  BY <1>2, ClockGoesOn
<1>4. /\ CardsOK(jobs, now) /\ EvidenceOK(evidence, ids, now) /\ SightingsOK(occurrences, ids, now)
      /\ DuplicatesOK(duplicates, ids)
      /\ ConflictsOK(conflicts, ids, evidence) /\ checking \subseteq ids
  BY <1>2, InvGrows
<1>5. CardOK(id, card, now)
  BY <1>1, CardIsOK
<1>6. SaidOK(said, ids, now) /\ "human" \in Origins
  <2>1. given \in SUBSET Fields /\ "said" \in Roles /\ "human" \in Origins /\ id \in ids
    BY DEF Roles, Origins
  <2> HIDE DEF given, ids, id
  <2> QED
    BY <1>1, <1>3, <2>1, SaysOK
<1> HIDE DEF id, said, card
<1>7. CardsOK(jobs', now) /\ DOMAIN jobs' = ids
  BY <1>2, <1>4, <1>5, WithKeeps
<1> HIDE DEF ids
<1>8. EvidenceOK(evidence', ids, now) /\ DOMAIN evidence \subseteq DOMAIN evidence'
  <2>1. /\ EvidenceOK(Choose(evidence, said, "human"), ids, now)
        /\ DOMAIN Choose(evidence, said, "human") = DOMAIN evidence \cup DOMAIN said
    BY <1>3, <1>4, <1>6, ChooseKeeps, Zenon
  <2> QED
    BY <1>2, <2>1
<1>9. ConflictsOK(conflicts', ids, evidence')
  BY <1>2, <1>4, <1>8, ConflictsGrow
<1>10. OneCardPerPosting'
  BY <1>2 DEF ProvenanceInv, OneCardPerPosting, SameNative
<1> QED
  BY <1>2, <1>3, <1>4, <1>7, <1>8, <1>9, <1>10 DEF ProvenanceInv

LEMMA ResolveKeeps ==
  ASSUME ProvenanceInv, NEW c \in conflicts, NEW choice \in {"current", "candidate"},
         ResolveFieldConflict(c, choice)
  PROVE  ProvenanceInv'
<1> DEFINE id == IF choice = "candidate" THEN c.candidate ELSE c.current
           value == evidence[id].value
           status == IF choice = "candidate" THEN "resolved_candidate" ELSE "resolved_current"
           ids == DOMAIN jobs
<1>1. /\ Write /\ occurrences' = occurrences /\ duplicates' = duplicates /\ checking' = checking
      /\ jobs' = (IF choice = "candidate" THEN [jobs EXCEPT ![c.job][c.field] = value] ELSE jobs)
      /\ evidence' = SelectEvidence(evidence, {id})
      /\ conflicts' = (conflicts \ {c}) \cup {[c EXCEPT !.status = status]}
  BY DEF ResolveFieldConflict
<1>2. writes \in Nat /\ now \in Nat /\ writes <= now /\ writes' = now /\ writes' \in 0..MaxWrites
  BY <1>1, ClockGoesOn
<1>3. /\ CardsOK(jobs, now) /\ EvidenceOK(evidence, ids, now) /\ SightingsOK(occurrences, ids, now)
      /\ DuplicatesOK(duplicates, ids)
      /\ ConflictsOK(conflicts, ids, evidence) /\ checking \subseteq ids
  BY <1>1, InvGrows
<1>4. ConflictOK(c, ids, evidence)
  BY <1>3 DEF ConflictsOK
<1>5. /\ c.job \in DOMAIN jobs /\ c.field \in Fields /\ id \in DOMAIN evidence
      /\ c.field = "opening" => value \in Statuses
  <2>1. c.job \in DOMAIN jobs /\ c.field \in Fields /\ id \in DOMAIN evidence /\ id.field = c.field
    BY <1>4 DEF ConflictOK
  <2>2. EntryOK(id, evidence[id], now)
    BY <1>3, <2>1 DEF EvidenceOK
  <2> QED
    BY <2>1, <2>2 DEF EntryOK
<1> HIDE DEF id, value, status
<1>6. CardsOK(jobs', now) /\ DOMAIN jobs' = ids
  BY <1>1, <1>3, <1>5, EditKeeps
<1>7. EvidenceOK(evidence', ids, now) /\ DOMAIN evidence' = DOMAIN evidence
  BY <1>1, <1>2, <1>3, SelectKeeps
<1>8. ConflictsOK(conflicts', ids, evidence')
  <2>1. ConflictOK([c EXCEPT !.status = status], ids, evidence)
    BY <1>4, ConflictDecided
  <2>2. ConflictsOK(conflicts', ids, evidence)
    BY <1>1, <1>3, <2>1 DEF ConflictsOK
  <2> QED
    BY <1>7, <2>2, ConflictsGrow
<1>9. OneCardPerPosting'
  BY <1>1 DEF ProvenanceInv, OneCardPerPosting, SameNative
<1> QED
  BY <1>1, <1>2, <1>3, <1>6, <1>7, <1>8, <1>9 DEF ProvenanceInv

LEMMA LivenessKeeps ==
  ASSUME ProvenanceInv, NEW job \in DOMAIN jobs, NEW reply \in Replies, RecordLivenessCheck(job, reply)
  PROVE  ProvenanceInv'
<1> DEFINE ids == DOMAIN jobs
<1>1. /\ Write /\ occurrences' = occurrences /\ duplicates' = duplicates /\ checking' = checking \ {job}
      /\ \/ jobs' = [jobs EXCEPT ![job].opening = "open"] /\ evidence' = evidence /\ conflicts' = conflicts
         \/ /\ jobs' = With(job, ClosedCard(jobs[job]))
            /\ evidence' = ClosedEvidence(evidence, job) /\ conflicts' = ClosedConflicts(job)
         \/ jobs' = jobs /\ evidence' = evidence /\ conflicts' = conflicts
  BY DEF RecordLivenessCheck
<1>2. writes \in Nat /\ now \in Nat /\ writes <= now /\ writes' = now /\ writes' \in 0..MaxWrites
  BY <1>1, ClockGoesOn
<1>3. /\ CardsOK(jobs, now) /\ EvidenceOK(evidence, ids, now) /\ SightingsOK(occurrences, ids, now)
      /\ DuplicatesOK(duplicates, ids)
      /\ ConflictsOK(conflicts, ids, evidence) /\ checking \subseteq ids
  BY <1>1, InvGrows
<1>4. CardsOK(jobs', now) /\ DOMAIN jobs' = ids
  <2>1. CardsOK([jobs EXCEPT ![job]["opening"] = "open"], now) /\ DOMAIN [jobs EXCEPT ![job]["opening"] = "open"] = ids
    BY <1>3, EditKeeps DEF Fields, Statuses
  <2>2. [jobs EXCEPT ![job].opening = "open"] = [jobs EXCEPT ![job]["opening"] = "open"]
    OBVIOUS
  <2>3. CardOK(job, ClosedCard(jobs[job]), now)
    BY <1>3, ClosedCardIsOK DEF CardsOK
  <2>4. CardsOK(With(job, ClosedCard(jobs[job])), now) /\ DOMAIN With(job, ClosedCard(jobs[job])) = ids \cup {job}
    BY <1>3, <2>3, WithKeeps
  <2> QED
    BY <1>1, <1>3, <2>1, <2>2, <2>4
<1>5. EvidenceOK(evidence', ids, now) /\ DOMAIN evidence \subseteq DOMAIN evidence'
  <2>1. EvidenceOK(ClosedEvidence(evidence, job), ids, now) /\ DOMAIN evidence \subseteq DOMAIN ClosedEvidence(evidence, job)
    BY <1>2, <1>3, ClosedKeeps
  <2> QED
    BY <1>1, <1>3, <2>1
<1>6. ConflictsOK(conflicts', ids, evidence')
  <2>1. ConflictsOK(conflicts', ids, evidence)
    BY <1>1, <1>3, ClosedConflictsKeep
  <2> QED
    BY <1>5, <2>1, ConflictsGrow
<1>7. OneCardPerPosting'
  BY <1>1 DEF ProvenanceInv, OneCardPerPosting, SameNative
<1> QED
  BY <1>1, <1>2, <1>3, <1>4, <1>5, <1>6, <1>7 DEF ProvenanceInv

LEMMA AskKeeps ==
  ASSUME ProvenanceInv, NEW job \in DOMAIN jobs, CheckJobLivenessNow(job)
  PROVE  ProvenanceInv'
BY DEF ProvenanceInv, CheckJobLivenessNow, discoveryVars, OneCardPerPosting, SameNative,
       CardsOK, SightingsOK, DuplicatesOK, EvidenceOK, ConflictsOK

\* A possible duplicate that is decided, or undone, is of the same cards.
LEMMA DuplicatesKeep ==
  ASSUME ProvenanceInv, Duplicates, UNCHANGED <<evidence, conflicts, checking>>
  PROVE  ProvenanceInv'
<1> DEFINE ids == DOMAIN jobs
<1>1. PICK d \in duplicates :
        /\ jobs' = jobs /\ occurrences' = occurrences /\ (Write \/ writes' = writes)
        /\ \/ \E status : duplicates' = (duplicates \ {d}) \cup {[d EXCEPT !.status = status]}
           \/ duplicates' = (duplicates \ {d}) \cup {[d EXCEPT !.old = TRUE]}
  BY DEF Duplicates, ResolvePossibleDuplicate, UndoPossibleDuplicate, DecisionAges, Change
<1>2. DuplicatesOK(duplicates', ids)
  <2>1. DuplicateOK(d, ids)
    BY DEF ProvenanceInv, DuplicatesOK
  <2>2. \A status : DuplicateOK([d EXCEPT !.status = status], ids)
    BY <2>1 DEF DuplicateOK
  <2>3. DuplicateOK([d EXCEPT !.old = TRUE], ids)
    BY <2>1 DEF DuplicateOK
  <2> QED
    BY <1>1, <2>2, <2>3 DEF ProvenanceInv, DuplicatesOK
<1>3. OneCardPerPosting'
  BY <1>1 DEF ProvenanceInv, OneCardPerPosting, SameNative
<1>4. CASE Write
  <2>1. writes' = now /\ writes' \in 0..MaxWrites
    BY <1>4, ClockGoesOn
  <2>2. /\ CardsOK(jobs, now) /\ EvidenceOK(evidence, ids, now) /\ SightingsOK(occurrences, ids, now)
        /\ ConflictsOK(conflicts, ids, evidence) /\ checking \subseteq ids
    BY <1>4, InvGrows
  <2> QED
    BY <1>1, <1>2, <1>3, <2>1, <2>2 DEF ProvenanceInv
<1>5. CASE writes' = writes
  BY <1>1, <1>2, <1>3, <1>5 DEF ProvenanceInv
<1> QED
  BY <1>1, <1>4, <1>5

LEMMA InvKept ==
  ASSUME ProvenanceInv, [Next]_vars
  PROVE  ProvenanceInv'
<1>1. ASSUME NEW d \in Delivered, IngestNew(d[1], d[2]) \/ IngestKnown(d[1], d[2])
      PROVE  ProvenanceInv'
  BY <1>1, NewKeeps, KnownKeeps
<1>2. ASSUME NEW form \in Forms, CreateJobFromHuman(form)
      PROVE  ProvenanceInv'
  BY <1>2, CreateKeeps
<1>3. ASSUME NEW job \in DOMAIN jobs, NEW edit \in AgentPatches, EnrichJobFromAgent(job, edit[1], edit[2])
      PROVE  ProvenanceInv'
  BY <1>3, EnrichKeeps
<1>4. ASSUME NEW job \in DOMAIN jobs, NEW edit \in HumanEdits, UpdateJob(job, edit[1], edit[2])
      PROVE  ProvenanceInv'
  BY <1>4, UpdateKeeps
<1>5. ASSUME NEW job \in DOMAIN jobs, CheckJobLivenessNow(job)
      PROVE  ProvenanceInv'
  BY <1>5, AskKeeps
<1>6. ASSUME NEW job \in DOMAIN jobs, NEW reply \in Replies, RecordLivenessCheck(job, reply)
      PROVE  ProvenanceInv'
  BY <1>6, LivenessKeeps
<1>7. ASSUME NEW c \in conflicts, NEW choice \in {"current", "candidate"}, ResolveFieldConflict(c, choice)
      PROVE  ProvenanceInv'
  BY <1>7, ResolveKeeps
<1>8. CASE Duplicates /\ UNCHANGED <<evidence, conflicts, checking>>
  BY <1>8, DuplicatesKeep
<1>9. CASE UNCHANGED vars
  BY <1>9 DEF ProvenanceInv, vars, discoveryVars, OneCardPerPosting, SameNative,
       CardsOK, SightingsOK, DuplicatesOK, EvidenceOK, ConflictsOK
<1> QED
  BY <1>1, <1>2, <1>3, <1>4, <1>5, <1>6, <1>7, <1>8, <1>9 DEF Next

(* The cards, their sightings, the evidence, the conflicts and the         *)
(* possible duplicates are well formed, and a posting is on one card,      *)
(* however sources, agents, portals and the person take turns.             *)
THEOREM ProvenanceInvariant == Spec => []ProvenanceInv
<1>1. Init => ProvenanceInv
  BY InvStart
<1>2. ProvenanceInv /\ [Next]_vars => ProvenanceInv'
  BY InvKept
<1> QED
  BY <1>1, <1>2, PTL DEF Spec

(* Type correctness: every sighting, duplicate, conflict and row of        *)
(* evidence is of a card there is, and nothing is later than the clock.    *)
THEOREM ProvenanceTyped == Spec => []TypeOK
<1>1. ProvenanceInv => TypeOK
  BY InvIsTyped
<1> QED
  BY <1>1, ProvenanceInvariant, PTL

(* SameNative: a posting a portal identifies is on one card, whatever      *)
(* became of its address, title and text between two sightings there (the  *)
(* identifier of a source first, then address, key and description).       *)
THEOREM PostingsHaveOneCard == Spec => []OneCardPerPosting
<1>1. ProvenanceInv => OneCardPerPosting
  BY DEF ProvenanceInv
<1> QED
  BY <1>1, ProvenanceInvariant, PTL

-----------------------------------------------------------------------------
(* Who writes over what a card says *)

\* A field of a card that says something, is changed, and is not closed by it.
WrittenOver(j, f) ==
  /\ jobs'[j][f] # jobs[j][f] /\ jobs[j][f] \notin {Blank, "unknown"}
  /\ ~(f = "opening" /\ jobs'[j].opening = "closed")

\* A closing changes no text.
LEMMA ClosingIsOfOpening ==
  ASSUME ProvenanceInv, NEW job \in DOMAIN jobs, jobs' = With(job, ClosedCard(jobs[job])),
         NEW j \in DOMAIN jobs, NEW f \in Fields
  PROVE  ~WrittenOver(j, f)
<1>1. CASE j # job
  <2>1. jobs'[j] = jobs[j]
    BY <1>1 DEF With
  <2> QED
    BY <2>1 DEF WrittenOver
<1>2. CASE j = job
  <2>1. jobs'[j] = ClosedCard(jobs[j])
    BY <1>2 DEF With
  <2>2. CardOK(j, jobs[j], writes)
    BY DEF ProvenanceInv, CardsOK
  <2>3. /\ \A g \in Columns \ {"opening", "closed"} : jobs'[j][g] = jobs[j][g]
        /\ jobs'[j].opening = "closed"
    BY <2>1, <2>2, ClosedCardIsOK
  <2> QED
    BY <2>3 DEF WrittenOver, Fields, Text, Columns
<1> QED
  BY <1>1, <1>2

\* An edit of one field of one card changes no other.
LEMMA EditIsOfField ==
  ASSUME ProvenanceInv, NEW job \in DOMAIN jobs, NEW field \in Fields, NEW value,
         jobs' = [jobs EXCEPT ![job][field] = value],
         NEW j \in DOMAIN jobs, NEW f \in Fields, WrittenOver(j, f)
  PROVE  j = job /\ f = field /\ jobs'[j][f] = value
<1>1. jobs'[j] = IF j = job THEN [jobs[job] EXCEPT ![field] = value] ELSE jobs[j]
  OBVIOUS
<1>2. j = job
  BY <1>1 DEF WrittenOver
<1>3. DOMAIN jobs[job] = Columns
  BY DEF ProvenanceInv, CardsOK, CardOK
<1>4. f \in Columns
  BY DEF Fields, Text, Columns
<1>5. jobs'[j][f] = IF f = field THEN value ELSE jobs[j][f]
  BY <1>1, <1>2, <1>3, <1>4
<1> QED
  BY <1>2, <1>5 DEF WrittenOver

\* A posting nothing recognises writes one card, that of its id.
LEMMA NewWrites ==
  ASSUME NEW d \in Delivered, IngestNew(d[1], d[2]),
         NEW j \in DOMAIN jobs, NEW f \in Fields, WrittenOver(j, f)
  PROVE  Rewritten(j)
<1> DEFINE id == FoundId(d[1])
<1>1. Recognised(d[1]) = NoJob /\ \E card : jobs' = With(id, card)
  BY DEF IngestNew
<1>2. j = id
  BY <1>1 DEF With, WrittenOver
<1> QED
  BY <1>1, <1>2 DEF Rewritten

LEMMA KnownWrites ==
  ASSUME ProvenanceInv, NEW d \in Delivered, IngestKnown(d[1], d[2]),
         NEW j \in DOMAIN jobs, NEW f \in Fields
  PROVE  ~WrittenOver(j, f)
<1> DEFINE id == Recognised(d[1])
<1>1. id # NoJob /\ jobs' = (IF Closes(d[1]) THEN With(id, ClosedCard(jobs[id])) ELSE jobs)
  BY DEF IngestKnown
<1>2. id \in DOMAIN jobs
  BY <1>1, RecognisedType
<1> HIDE DEF id
<1>3. CASE Closes(d[1])
  BY <1>1, <1>2, <1>3, ClosingIsOfOpening
<1>4. CASE ~Closes(d[1])
  BY <1>1, <1>4 DEF WrittenOver
<1> QED
  BY <1>3, <1>4

(* An agent fills a field that says nothing: one that says something has   *)
(* evidence, its own or the card's, and what the agent said is queued.     *)
LEMMA EnrichWrites ==
  ASSUME ProvenanceInv, NEW job \in DOMAIN jobs, NEW edit \in AgentPatches,
         EnrichJobFromAgent(job, edit[1], edit[2]),
         NEW j \in DOMAIN jobs, NEW f \in Fields
  PROVE  ~WrittenOver(j, f)
<1> DEFINE field == edit[1]
           value == edit[2]
           said == Id(job, field, "said")
           added == Add(evidence, One(said, value), "agent")
           known == IF Empty(job, field) THEN added ELSE WithLegacy(added, job, {field})
           held == Selected(known, job, field)
<1> SUFFICES ASSUME WrittenOver(j, f)
             PROVE  FALSE
  OBVIOUS
<1>1. jobs' # jobs
  BY DEF WrittenOver
<1>2. jobs' = [jobs EXCEPT ![job][field] = value] /\ (held = {} \/ Empty(job, field)) /\ Write
  BY <1>1 DEF EnrichJobFromAgent
<1>3. field \in Fields /\ (field = "opening" => value \in Statuses)
  BY FieldAssumption
<1>4. j = job /\ f = field
  <2> HIDE DEF field, value, held
  <2> QED
    BY <1>2, <1>3, EditIsOfField
<1>5. ~Empty(job, field)
  BY <1>4 DEF WrittenOver, Empty
<1>6. known = WithLegacy(added, job, {field})
  BY <1>5
<1>7. writes \in Nat /\ now \in Nat /\ EvidenceOK(evidence, DOMAIN jobs, now)
  BY <1>2, InvGrows, ClockGoesOn
<1>8. SaidOK(One(said, value), DOMAIN jobs, now)
  BY <1>3, <1>7, OneOK DEF Roles
<1>9. "agent" \in Origins
  BY DEF Origins
<1>10. EvidenceOK(added, DOMAIN jobs, now)
  <2> HIDE DEF said
  <2> QED
    BY <1>7, <1>8, <1>9, AddKeeps, Zenon
<1> HIDE DEF added, known
<1>11. \A id \in DOMAIN added : DOMAIN added[id] = {"value", "origin", "at", "open"} /\ added[id].open \in BOOLEAN
  BY <1>10 DEF EvidenceOK, EntryOK
<1>12. held # {}
  BY <1>6, <1>11, LegacyFound
<1> QED
  BY <1>2, <1>5, <1>12

\* What a person edits is chosen from then on.
LEMMA UpdateWrites ==
  ASSUME ProvenanceInv, NEW job \in DOMAIN jobs, NEW edit \in HumanEdits,
         UpdateJob(job, edit[1], edit[2]),
         NEW j \in DOMAIN jobs, NEW f \in Fields, WrittenOver(j, f)
  PROVE  ByPerson(j, f)
<1> DEFINE said == Id(job, edit[1], "said")
           added == Add(evidence, One(said, edit[2]), "human")
<1>1. /\ Write /\ jobs' = [jobs EXCEPT ![job][edit[1]] = edit[2]]
      /\ evidence' = SelectEvidence(added, DOMAIN One(said, edit[2]))
  BY DEF UpdateJob, Choose
<1>2. edit[1] \in Fields
  BY FieldAssumption
<1>3. j = job /\ f = edit[1]
  <2> DEFINE field == edit[1]
             value == edit[2]
  <2>1. jobs' = [jobs EXCEPT ![job][field] = value] /\ field \in Fields
    BY <1>1, <1>2
  <2> HIDE DEF field, value
  <2>2. j = job /\ f = field
    BY <2>1, EditIsOfField
  <2> QED
    BY <2>2 DEF field
<1>4. said.n = now /\ said.job = job /\ said.field = edit[1] /\ DOMAIN One(said, edit[2]) = {said}
  BY DEF Id, One
<1>5. said \notin DOMAIN evidence
  <2>1. \A id \in DOMAIN evidence : id.n \in 1..writes
    BY DEF ProvenanceInv, EvidenceOK, IdOK
  <2>2. writes \in Nat /\ now \notin 1..writes
    BY DiscoveryAssumption DEF ProvenanceInv, now
  <2> QED
    BY <2>1, <2>2, <1>4
<1>6. said \in DOMAIN added /\ added[said] = [value |-> One(said, edit[2])[said], origin |-> "human", at |-> 0, open |-> FALSE]
  BY <1>4 DEF Add
<1> HIDE DEF said, added
<1>7. said \in DOMAIN evidence' /\ evidence'[said] = [added[said] EXCEPT !.at = now, !.open = TRUE]
  BY <1>1, <1>4, <1>6 DEF SelectEvidence
<1>8. evidence'[said].open /\ evidence'[said].origin = "human"
  BY <1>6, <1>7
<1>9. said \in Open(evidence', j, f)
  BY <1>3, <1>4, <1>7, <1>8 DEF Open
<1>10. said.n = writes'
  BY <1>1, <1>4 DEF Write
<1> QED
  BY <1>5, <1>8, <1>9, <1>10 DEF ByPerson

\* What a person chooses in a conflict is written, and the conflict is over.
LEMMA ResolveWrites ==
  ASSUME ProvenanceInv, NEW c \in conflicts, NEW choice \in {"current", "candidate"},
         ResolveFieldConflict(c, choice),
         NEW j \in DOMAIN jobs, NEW f \in Fields, WrittenOver(j, f)
  PROVE  ByPerson(j, f)
<1> DEFINE value == evidence[c.candidate].value
           over == [c EXCEPT !.status = "resolved_candidate"]
<1>1. ConflictOK(c, DOMAIN jobs, evidence)
  BY DEF ProvenanceInv, ConflictsOK
<1>2. choice = "candidate"
  BY DEF ResolveFieldConflict, WrittenOver
<1>3. /\ c.status = "pending" /\ jobs' = [jobs EXCEPT ![c.job][c.field] = value]
      /\ over \in conflicts'
  BY <1>2 DEF ResolveFieldConflict
<1>4. c.job \in DOMAIN jobs /\ c.field \in Fields
  BY <1>1 DEF ConflictOK
<1>5. j = c.job /\ f = c.field
  <2> DEFINE job == c.job
             field == c.field
  <2>1. jobs' = [jobs EXCEPT ![job][field] = value] /\ job \in DOMAIN jobs /\ field \in Fields
    BY <1>3, <1>4
  <2> HIDE DEF job, field, value
  <2>2. j = job /\ f = field
    BY <2>1, EditIsOfField
  <2> QED
    BY <2>2 DEF job, field
<1>6. over = [job |-> c.job, field |-> c.field, current |-> c.current, candidate |-> c.candidate,
              status |-> "resolved_candidate"]
  BY <1>1 DEF ConflictOK
<1>7. over.job = j /\ over.field = f /\ over.status # "pending"
  BY <1>5, <1>6
<1>8. [over EXCEPT !.status = "pending"] = c
  BY <1>1, <1>3, <1>6 DEF ConflictOK
<1> QED
  BY <1>3, <1>7, <1>8 DEF ByPerson

\* A vacancy that answers "open" is written where it was not known to be.
LEMMA LivenessWrites ==
  ASSUME ProvenanceInv, NEW job \in DOMAIN jobs, NEW reply \in Replies, RecordLivenessCheck(job, reply),
         NEW j \in DOMAIN jobs, NEW f \in Fields
  PROVE  ~WrittenOver(j, f)
<1>1. \/ ~AlreadyClosed(job) /\ jobs' = [jobs EXCEPT ![job].opening = "open"]
      \/ jobs' = With(job, ClosedCard(jobs[job]))
      \/ jobs' = jobs
  BY DEF RecordLivenessCheck
<1>2. ASSUME ~AlreadyClosed(job), jobs' = [jobs EXCEPT ![job].opening = "open"], WrittenOver(j, f)
      PROVE  FALSE
  <2>1. "opening" \in Fields
    BY DEF Fields
  <2>2. jobs' = [jobs EXCEPT ![job]["opening"] = "open"]
    BY <1>2
  <2>3. j = job /\ f = "opening" /\ jobs'[j][f] = "open"
    BY <1>2, <2>1, <2>2, EditIsOfField
  <2>4. jobs[j].opening \in {"open", "closed", "unknown"}
    BY DEF ProvenanceInv, CardsOK, CardOK, Statuses
  <2>5. jobs[j].opening # "closed"
    BY <1>2, <2>3 DEF AlreadyClosed
  <2> QED
    BY <1>2, <2>3, <2>4, <2>5 DEF WrittenOver
<1>3. CASE jobs' = With(job, ClosedCard(jobs[job]))
  BY <1>3, ClosingIsOfOpening
<1>4. CASE jobs' = jobs
  BY <1>4 DEF WrittenOver
<1> QED
  BY <1>1, <1>2, <1>3, <1>4

LEMMA StepWriters ==
  ASSUME ProvenanceInv, [Next]_vars
  PROVE  WriterKnown
<1> SUFFICES ASSUME NEW j \in DOMAIN jobs, NEW f \in Fields, WrittenOver(j, f)
             PROVE  ByPerson(j, f) \/ Rewritten(j)
  BY DEF WriterKnown, WrittenOver
<1>1. ASSUME NEW d \in Delivered, IngestNew(d[1], d[2]) \/ IngestKnown(d[1], d[2])
      PROVE  Rewritten(j)
  BY <1>1, NewWrites, KnownWrites
<1>2. ASSUME NEW form \in Forms, CreateJobFromHuman(form)
      PROVE  FALSE
  <2>1. TypedId(form) # j /\ jobs' = With(TypedId(form), Card(form, TypedId(form)))
    BY <1>2 DEF CreateJobFromHuman
  <2>2. jobs'[j] = jobs[j]
    BY <2>1 DEF With
  <2> QED
    BY <2>2 DEF WrittenOver
<1>3. ASSUME NEW job \in DOMAIN jobs, NEW edit \in AgentPatches, EnrichJobFromAgent(job, edit[1], edit[2])
      PROVE  FALSE
  BY <1>3, EnrichWrites
<1>4. ASSUME NEW job \in DOMAIN jobs, NEW edit \in HumanEdits, UpdateJob(job, edit[1], edit[2])
      PROVE  ByPerson(j, f)
  BY <1>4, UpdateWrites
<1>5. ASSUME NEW job \in DOMAIN jobs, CheckJobLivenessNow(job)
      PROVE  FALSE
  BY <1>5 DEF CheckJobLivenessNow, discoveryVars, WrittenOver
<1>6. ASSUME NEW job \in DOMAIN jobs, NEW reply \in Replies, RecordLivenessCheck(job, reply)
      PROVE  FALSE
  BY <1>6, LivenessWrites
<1>7. ASSUME NEW c \in conflicts, NEW choice \in {"current", "candidate"}, ResolveFieldConflict(c, choice)
      PROVE  ByPerson(j, f)
  BY <1>7, ResolveWrites
<1>8. CASE Duplicates
  BY <1>8 DEF Duplicates, ResolvePossibleDuplicate, UndoPossibleDuplicate, DecisionAges, WrittenOver
<1>9. CASE UNCHANGED vars
  BY <1>9 DEF vars, discoveryVars, WrittenOver
<1> QED
  BY <1>1, <1>2, <1>3, <1>4, <1>5, <1>6, <1>7, <1>8, <1>9 DEF Next

(* Sources, agents and portals never write over what a card says, except   *)
(* that they close it: only a person does, or a posting nothing recognises *)
(* whose id is that of the card (upsertJob, reached when the company of    *)
(* the card was edited).                                                   *)
THEOREM WritersAreKnown == Spec => [][WriterKnown]_vars
<1>1. ProvenanceInv /\ [Next]_vars => [WriterKnown]_vars
  BY StepWriters
<1> QED
  BY <1>1, ProvenanceInvariant, PTL DEF Spec

-----------------------------------------------------------------------------
(* A closing is chosen over what the card had said of its opening *)

\* The one evidence chosen for the opening of a card is the closing of this step.
ClosingIn(known, job) ==
  LET own == Id(job, "opening", "closing")
  IN  /\ own \in DOMAIN known /\ known[own].value = "closed" /\ known[own].open
      /\ \A id \in DOMAIN known : id.job = job /\ id.field = "opening" /\ known[id].open => id = own

LEMMA ClosingTaken ==
  ASSUME NEW known, NEW ids, NEW n, EvidenceOK(known, ids, n), NEW job
  PROVE  ClosingIn(ClosedEvidence(known, job), job)
<1> DEFINE own == Id(job, "opening", "closing")
           said == One(own, "closed")
           added == Add(known, said, "agent")
           after == ClosedEvidence(known, job)
<1>1. own.job = job /\ own.field = "opening" /\ DOMAIN said = {own} /\ said[own] = "closed"
  BY DEF Id, One
<1>2. after = SelectEvidence(added, DOMAIN said)
  BY DEF ClosedEvidence, Choose
<1> HIDE DEF own, said
<1>3. DOMAIN added = DOMAIN known \cup {own}
  BY <1>1 DEF Add
<1>4. added[own] = [value |-> "closed", origin |-> "agent", at |-> 0, open |-> FALSE]
  BY <1>1 DEF Add
<1>5. \A id \in DOMAIN known \ {own} : added[id] = known[id] /\ "open" \in DOMAIN added[id]
  BY <1>1 DEF Add, EvidenceOK, EntryOK
<1> HIDE DEF added, after
<1>6. own \in DOMAIN after /\ after[own] = [added[own] EXCEPT !.at = now, !.open = TRUE]
  BY <1>1, <1>2, <1>3 DEF SelectEvidence
<1>7. after[own].value = "closed" /\ after[own].open
  BY <1>4, <1>6
<1>8. ASSUME NEW id \in DOMAIN after, id # own, id.job = job, id.field = "opening"
      PROVE  ~after[id].open
  <2>1. id \in DOMAIN known \ {own}
    BY <1>2, <1>3, <1>8 DEF SelectEvidence
  <2>2. after[id] = [added[id] EXCEPT !.open = @ /\ ~\E c \in {own} : c.job = id.job /\ c.field = id.field]
    BY <1>1, <1>2, <1>3, <1>8, <2>1 DEF SelectEvidence
  <2>3. \E c \in {own} : c.job = id.job /\ c.field = id.field
    BY <1>1, <1>8
  <2> QED
    BY <1>5, <2>1, <2>2, <2>3
<1> QED
  BY <1>6, <1>7, <1>8 DEF ClosingIn, own, after

\* Evidence of other fields leaves it chosen: added, chosen, or noted.
Elsewhere(ids) == \A id \in ids : id.field # "opening"

LEMMA AddLeavesClosing ==
  ASSUME NEW known, NEW said, NEW origin, NEW job, ClosingIn(known, job), Elsewhere(DOMAIN said)
  PROVE  ClosingIn(Add(known, said, origin), job)
<1> DEFINE own == Id(job, "opening", "closing")
           after == Add(known, said, origin)
<1>1. own.field = "opening"
  BY DEF Id
<1>2. DOMAIN after = DOMAIN known \cup DOMAIN said
  BY DEF Add
<1>3. \A id \in DOMAIN after : id.field = "opening" => id \in DOMAIN known /\ after[id] = known[id]
  BY DEF Add, Elsewhere
<1> HIDE DEF after
<1> QED
  BY <1>1, <1>2, <1>3 DEF ClosingIn, after

LEMMA SelectLeavesClosing ==
  ASSUME NEW known, NEW ids, NEW job, ClosingIn(known, job), Elsewhere(ids),
         \A id \in DOMAIN known : {"value", "open"} \subseteq DOMAIN known[id]
  PROVE  ClosingIn(SelectEvidence(known, ids), job)
<1> DEFINE own == Id(job, "opening", "closing")
           after == SelectEvidence(known, ids)
<1>1. own.field = "opening"
  BY DEF Id
<1>2. DOMAIN after = DOMAIN known
  BY DEF SelectEvidence
<1>3. ASSUME NEW id \in DOMAIN known, id.field = "opening"
      PROVE  after[id].value = known[id].value /\ (after[id].open <=> known[id].open)
  <2>1. id \notin ids /\ ~\E c \in ids : c.job = id.job /\ c.field = id.field
    BY <1>3 DEF Elsewhere
  <2>2. after[id] = [known[id] EXCEPT !.open = @ /\ ~\E c \in ids : c.job = id.job /\ c.field = id.field]
    BY <1>3, <2>1 DEF SelectEvidence
  <2> QED
    BY <2>1, <2>2
<1> HIDE DEF after
<1> QED
  BY <1>1, <1>2, <1>3 DEF ClosingIn, after

LEMMA RowLeavesClosing ==
  ASSUME NEW known, NEW ids, NEW open, NEW job, ClosingIn(known, job), Elsewhere(ids)
  PROVE  ClosingIn(Row(known, ids, open), job)
<1> DEFINE own == Id(job, "opening", "closing")
           after == Row(known, ids, open)
<1>1. own.field = "opening"
  BY DEF Id
<1>2. DOMAIN after = DOMAIN known /\ \A id \in DOMAIN known : id.field = "opening" => after[id] = known[id]
  BY DEF Row, Elsewhere
<1> HIDE DEF after
<1> QED
  BY <1>1, <1>2 DEF ClosingIn, after

\* The columns of a table that is well formed.
LEMMA EntryColumns ==
  ASSUME NEW known, NEW ids, NEW n, EvidenceOK(known, ids, n)
  PROVE  \A id \in DOMAIN known : {"value", "open"} \subseteq DOMAIN known[id]
BY DEF EvidenceOK, EntryOK

LEMMA ChooseLeavesClosing ==
  ASSUME NEW known, NEW ids, NEW n \in Nat, n = now, writes \in Nat, NEW said, NEW origin \in Origins, NEW job,
         EvidenceOK(known, ids, n), SaidOK(said, ids, n),
         ClosingIn(known, job), Elsewhere(DOMAIN said)
  PROVE  ClosingIn(Choose(known, said, origin), job)
<1> DEFINE added == Add(known, said, origin)
<1>1. ClosingIn(added, job)
  BY AddLeavesClosing
<1>2. EvidenceOK(added, ids, n)
  BY AddKeeps
<1> HIDE DEF added
<1>3. \A id \in DOMAIN added : {"value", "open"} \subseteq DOMAIN added[id]
  BY <1>2, EntryColumns
<1>4. ClosingIn(SelectEvidence(added, DOMAIN said), job)
  BY <1>1, <1>3, SelectLeavesClosing
<1> QED
  BY <1>4 DEF Choose, added

\* What is said of other fields is evidence of other fields.
LEMMA SaysElsewhere ==
  ASSUME NEW item, NEW job, NEW fields \in SUBSET Fields, NEW role, "opening" \notin fields
  PROVE  Elsewhere(DOMAIN Says(item, job, fields, role))
BY DEF Says, Id, Elsewhere

LEMMA NewCloses ==
  ASSUME ProvenanceInv, NEW d \in Delivered, IngestNew(d[1], d[2]),
         NEW j \in DOMAIN jobs', ReportedClosed(j)
  PROVE  ClosingIn(evidence', j)
<1> DEFINE item == d[1]
           id == FoundId(item)
           card == Card(item, id)
           ids == DOMAIN jobs \cup {id}
           said == Says(item, id, Spoken(item), "said")
           known == ClosedEvidence(evidence, id)
<1>1. /\ Write /\ jobs' = With(id, IF Closes(item) THEN ClosedCard(card) ELSE card)
      /\ evidence' = Choose(WithClosing(item, id), said, "agent")
  BY DEF IngestNew
<1>2. card.closed = (id \in DOMAIN jobs /\ jobs[id].closed)
  BY DEF Card
<1>3. j = id /\ Closes(item)
  <2> HIDE DEF id, card
  <2>1. \A k \in DOMAIN jobs' : k # id => k \in DOMAIN jobs /\ jobs'[k] = jobs[k]
    BY <1>1 DEF With
  <2>2. j = id
    BY <2>1 DEF ReportedClosed
  <2>3. ~Closes(item) => jobs'[id] = card
    BY <1>1 DEF With
  <2> QED
    BY <1>2, <2>2, <2>3 DEF ReportedClosed
<1>4. writes \in Nat /\ now \in Nat /\ EvidenceOK(evidence, ids, now)
  BY <1>1, ClockGoesOn, InvGrows
<1>5. item \in Items /\ Spoken(item) \in SUBSET Fields /\ "opening" \notin Spoken(item)
  BY <1>3, PostingType DEF Spoken, Closes
<1>6. SaidOK(said, ids, now) /\ "agent" \in Origins
  BY <1>5, SpokenSaid DEF Origins
<1>7. Elsewhere(DOMAIN said)
  <2> DEFINE fields == Spoken(item)
  <2> HIDE DEF fields
  <2>1. Elsewhere(DOMAIN Says(item, id, fields, "said"))
    BY <1>5, SaysElsewhere DEF fields
  <2> QED
    BY <2>1 DEF fields
<1>8. evidence' = Choose(known, said, "agent")
  BY <1>1, <1>3 DEF WithClosing
<1> HIDE DEF id, said
<1>9. ClosingIn(known, id) /\ EvidenceOK(known, ids, now)
  BY <1>4, ClosingTaken, ClosedKeeps
<1> HIDE DEF known, ids
<1>10. ClosingIn(Choose(known, said, "agent"), id)
  BY <1>4, <1>6, <1>7, <1>9, ChooseLeavesClosing
<1> QED
  BY <1>3, <1>8, <1>10

LEMMA KnownCloses ==
  ASSUME ProvenanceInv, NEW d \in Delivered, IngestKnown(d[1], d[2]),
         NEW j \in DOMAIN jobs', ReportedClosed(j)
  PROVE  ClosingIn(evidence', j)
<1> DEFINE item == d[1]
           id == Recognised(item)
           ids == DOMAIN jobs
           known == ClosedEvidence(evidence, id)
           said == Says(item, id, Spoken(item), "said")
           same == {e \in DOMAIN said : jobs[id][e.field] = said[e]}
           denied == DOMAIN said \ same
           fields == {e.field : e \in denied}
           bare(table) == {f \in fields : Selected(table, id, f) = {}}
<1>1. /\ id # NoJob /\ Write
      /\ jobs' = (IF Closes(item) THEN With(id, ClosedCard(jobs[id])) ELSE jobs)
      /\ evidence' = Row(WithLegacy(Add(WithClosing(item, id), said, "agent"), id, fields), same, FALSE)
  BY DEF IngestKnown
<1>2. id \in DOMAIN jobs
  BY <1>1, RecognisedType
<1>3. j = id /\ Closes(item)
  <2> HIDE DEF id
  <2>1. Closes(item)
    BY <1>1 DEF ReportedClosed
  <2>2. \A k \in DOMAIN jobs' : k # id => k \in DOMAIN jobs /\ jobs'[k] = jobs[k]
    BY <1>1, <2>1 DEF With
  <2> QED
    BY <2>1, <2>2 DEF ReportedClosed
<1>4. writes \in Nat /\ now \in Nat /\ EvidenceOK(evidence, ids, now) /\ CardsOK(jobs, now)
  BY <1>1, ClockGoesOn, InvGrows
<1>5. item \in Items /\ Spoken(item) \in SUBSET Fields /\ "opening" \notin Spoken(item)
  BY <1>3, PostingType DEF Spoken, Closes
<1>6. SaidOK(said, ids, now) /\ "agent" \in Origins
  BY <1>2, <1>5, SpokenSaid DEF Origins
<1>7. Elsewhere(DOMAIN said) /\ Elsewhere(same) /\ fields \in SUBSET Fields /\ "opening" \notin fields
  <2> DEFINE spoken == Spoken(item)
  <2>1. Elsewhere(DOMAIN Says(item, id, spoken, "said"))
    <3> HIDE DEF spoken, id
    <3> QED
      BY <1>5, SaysElsewhere DEF spoken
  <2>2. Elsewhere(DOMAIN said)
    BY <2>1
  <2>3. \A e \in DOMAIN said : e.field \in Fields
    BY <1>6 DEF SaidOK, IdOK
  <2> HIDE DEF said
  <2> QED
    BY <2>2, <2>3 DEF Elsewhere
<1>8. WithClosing(item, id) = known
  BY <1>3 DEF WithClosing
<1>9. jobs[id].opening \in Statuses
  BY <1>2, <1>4 DEF CardsOK, CardOK
<1> HIDE DEF id, said, same
<1>10. ClosingIn(known, id) /\ EvidenceOK(known, ids, now)
  BY <1>2, <1>4, ClosingTaken, ClosedKeeps
<1> HIDE DEF known
<1> DEFINE added == Add(known, said, "agent")
<1>11. ClosingIn(added, id) /\ EvidenceOK(added, ids, now)
  <2>1. ClosingIn(added, id)
    BY <1>7, <1>10, AddLeavesClosing
  <2>2. EvidenceOK(added, ids, now)
    BY <1>4, <1>6, <1>10, AddKeeps, Zenon
  <2> QED
    BY <2>1, <2>2
<1> HIDE DEF added, ids
<1> DEFINE legacy == Says(jobs[id], id, bare(added), "legacy")
<1>12. bare(added) \in SUBSET Fields /\ "opening" \notin bare(added)
  BY <1>7
<1>13. WithLegacy(added, id, fields) = Choose(added, legacy, "legacy")
  BY DEF WithLegacy
<1> HIDE DEF fields, bare
<1>14. Elsewhere(DOMAIN legacy) /\ SaidOK(legacy, ids, now) /\ "legacy" \in Origins
  <2> DEFINE these == bare(added)
             card == jobs[id]
  <2>1. these \in SUBSET Fields /\ "opening" \notin these /\ card.opening \in Statuses /\ "legacy" \in Roles /\ id \in ids
    BY <1>2, <1>9, <1>12 DEF Roles, ids
  <2> HIDE DEF these, card
  <2>2. Elsewhere(DOMAIN Says(card, id, these, "legacy")) /\ SaidOK(Says(card, id, these, "legacy"), ids, now)
    BY <1>4, <2>1, SaysElsewhere, SaysOK
  <2> QED
    BY <2>2 DEF these, card, Origins
<1> HIDE DEF legacy
<1>15. ClosingIn(Choose(added, legacy, "legacy"), id)
  BY <1>4, <1>11, <1>14, ChooseLeavesClosing
<1>16. ClosingIn(WithLegacy(added, id, fields), id)
  BY <1>13, <1>15
<1>17. ClosingIn(Row(WithLegacy(added, id, fields), same, FALSE), id)
  BY <1>7, <1>16, RowLeavesClosing
<1>18. evidence' = Row(WithLegacy(added, id, fields), same, FALSE)
  BY <1>1, <1>8 DEF added, fields
<1> QED
  BY <1>3, <1>17, <1>18

\* An edit of a field closes nothing: `closed` is a column of its own.
LEMMA EditClosesNothing ==
  ASSUME ProvenanceInv, NEW job \in DOMAIN jobs, NEW field \in Fields, NEW value,
         jobs' = [jobs EXCEPT ![job][field] = value], NEW j \in DOMAIN jobs'
  PROVE  ~ReportedClosed(j)
<1>1. j \in DOMAIN jobs /\ DOMAIN jobs[j] = Columns /\ field # "closed"
  BY DEF ProvenanceInv, CardsOK, CardOK, Fields, Text
<1>2. jobs'[j] = IF j = job THEN [jobs[j] EXCEPT ![field] = value] ELSE jobs[j]
  BY <1>1
<1>3. jobs'[j].closed = jobs[j].closed
  BY <1>1, <1>2
<1> QED
  BY <1>1, <1>3 DEF ReportedClosed

LEMMA LivenessCloses ==
  ASSUME ProvenanceInv, NEW job \in DOMAIN jobs, NEW reply \in Replies, RecordLivenessCheck(job, reply),
         NEW j \in DOMAIN jobs', ReportedClosed(j)
  PROVE  ClosingIn(evidence', j)
<1>1. \/ jobs' = [jobs EXCEPT ![job].opening = "open"]
      \/ jobs' = With(job, ClosedCard(jobs[job])) /\ evidence' = ClosedEvidence(evidence, job)
      \/ jobs' = jobs
  BY DEF RecordLivenessCheck
<1>2. jobs' # jobs
  BY DEF ReportedClosed
<1>3. jobs' # [jobs EXCEPT ![job].opening = "open"]
  <2> DEFINE field == "opening"
             value == "open"
  <2>1. field \in Fields
    BY DEF Fields
  <2> HIDE DEF field, value
  <2>2. jobs' # [jobs EXCEPT ![job][field] = value]
    BY <2>1, EditClosesNothing
  <2> QED
    BY <2>2 DEF field, value
<1>4. j = job
  BY <1>1, <1>2, <1>3 DEF ReportedClosed, With
<1>5. EvidenceOK(evidence, DOMAIN jobs, writes)
  BY DEF ProvenanceInv
<1> QED
  BY <1>1, <1>2, <1>3, <1>4, <1>5, ClosingTaken

LEMMA StepCloses ==
  ASSUME ProvenanceInv, [Next]_vars, NEW j \in DOMAIN jobs', ReportedClosed(j)
  PROVE  ClosingChosen(j)
<1>1. ASSUME NEW d \in Delivered, IngestNew(d[1], d[2]) \/ IngestKnown(d[1], d[2])
      PROVE  ClosingIn(evidence', j)
  BY <1>1, NewCloses, KnownCloses
<1>2. ASSUME NEW form \in Forms, CreateJobFromHuman(form)
      PROVE  FALSE
  <2>1. TypedId(form) \notin DOMAIN jobs /\ jobs' = With(TypedId(form), Card(form, TypedId(form)))
    BY <1>2 DEF CreateJobFromHuman
  <2>2. ~jobs'[TypedId(form)].closed /\ \A k \in DOMAIN jobs : jobs'[k] = jobs[k]
    BY <2>1 DEF With, Card
  <2>3. DOMAIN jobs' = DOMAIN jobs \cup {TypedId(form)}
    BY <2>1 DEF With
  <2> QED
    BY <2>2, <2>3 DEF ReportedClosed
<1>3. ASSUME jobs' = jobs
      PROVE  FALSE
  BY <1>3 DEF ReportedClosed
<1>4. ASSUME NEW job \in DOMAIN jobs, NEW edit \in AgentPatches, EnrichJobFromAgent(job, edit[1], edit[2])
      PROVE  FALSE
  <2> DEFINE field == edit[1]
             value == edit[2]
  <2>1. field \in Fields /\ jobs' \in {jobs, [jobs EXCEPT ![job][field] = value]}
    BY <1>4, FieldAssumption DEF EnrichJobFromAgent
  <2> HIDE DEF field, value
  <2> QED
    BY <1>3, <2>1, EditClosesNothing
<1>5. ASSUME NEW job \in DOMAIN jobs, NEW edit \in HumanEdits, UpdateJob(job, edit[1], edit[2])
      PROVE  FALSE
  <2> DEFINE field == edit[1]
             value == edit[2]
  <2>1. field \in Fields /\ jobs' = [jobs EXCEPT ![job][field] = value]
    BY <1>5, FieldAssumption DEF UpdateJob
  <2> HIDE DEF field, value
  <2> QED
    BY <2>1, EditClosesNothing
<1>6. ASSUME NEW job \in DOMAIN jobs, CheckJobLivenessNow(job)
      PROVE  FALSE
  BY <1>3, <1>6 DEF CheckJobLivenessNow, discoveryVars
<1>7. ASSUME NEW job \in DOMAIN jobs, NEW reply \in Replies, RecordLivenessCheck(job, reply)
      PROVE  ClosingIn(evidence', j)
  BY <1>7, LivenessCloses
<1>8. ASSUME NEW c \in conflicts, NEW choice \in {"current", "candidate"}, ResolveFieldConflict(c, choice)
      PROVE  FALSE
  <2> DEFINE job == c.job
             field == c.field
             value == evidence[IF choice = "candidate" THEN c.candidate ELSE c.current].value
  <2>1. job \in DOMAIN jobs /\ field \in Fields
    BY DEF ProvenanceInv, ConflictsOK, ConflictOK
  <2>2. jobs' \in {jobs, [jobs EXCEPT ![job][field] = value]}
    BY <1>8 DEF ResolveFieldConflict
  <2> HIDE DEF job, field, value
  <2> QED
    BY <1>3, <2>1, <2>2, EditClosesNothing
<1>9. ~Duplicates
  BY <1>3 DEF Duplicates, ResolvePossibleDuplicate, UndoPossibleDuplicate, DecisionAges
<1>10. ~UNCHANGED vars
  BY <1>3 DEF vars, discoveryVars
<1>11. ClosingIn(evidence', j)
  BY <1>1, <1>2, <1>4, <1>5, <1>6, <1>7, <1>8, <1>9, <1>10 DEF Next
<1>12. Id(j, "opening", "closing").job = j /\ Id(j, "opening", "closing").field = "opening"
  BY DEF Id
<1> QED
  BY <1>11, <1>12 DEF ClosingIn, ClosingChosen, Open

(* closeJobFromSource: a vacancy a source or a portal reports closed has   *)
(* the report as the one evidence chosen of its opening, whatever sources, *)
(* agents and the person had said of it before, and whatever else the same *)
(* posting says; without any condition.                                    *)
THEOREM ClosingsAreChosen ==
  Spec => [][\A j \in DOMAIN jobs' : ReportedClosed(j) => ClosingChosen(j)]_vars
<1>1. ProvenanceInv /\ [Next]_vars => [\A j \in DOMAIN jobs' : ReportedClosed(j) => ClosingChosen(j)]_vars
  BY StepCloses
<1> QED
  BY <1>1, ProvenanceInvariant, PTL DEF Spec

-----------------------------------------------------------------------------
(* While no step edits the company of a card *)

LEMMA FoundIsNotTyped ==
  ASSUME NEW item, NEW form
  PROVE  FoundId(item) # TypedId(form)
BY DEF FoundId, TypedId

LEMMA FoundIdNames ==
  ASSUME NEW item, NEW other, FoundId(item) = FoundId(other)
  PROVE  item.url = other.url /\ item.company = other.company
BY DEF FoundId

LEMMA EmployersStart ==
  ASSUME Init
  PROVE  EmployerOK(jobs)
BY FoundIsNotTyped DEF Init, EmployerOK

\* A card that appears is of the company of its posting.
LEMMA EmployersKept ==
  ASSUME ProvenanceInv, EmployerOK(jobs), [Next]_vars, EmployersStay
  PROVE  EmployerOK(jobs')
<1> SUFFICES ASSUME NEW item \in Items, FoundId(item) \in DOMAIN jobs'
             PROVE  jobs'[FoundId(item)].company = item.company
  BY DEF EmployerOK
<1> DEFINE j == FoundId(item)
<1>1. CASE j \in DOMAIN jobs
  BY <1>1 DEF EmployerOK, EmployersStay
<1>2. CASE j \notin DOMAIN jobs
  <2>1. ASSUME NEW d \in Delivered, IngestNew(d[1], d[2])
        PROVE  jobs'[j].company = item.company
    <3> DEFINE id == FoundId(d[1])
               card == Card(d[1], id)
               written == IF Closes(d[1]) THEN ClosedCard(card) ELSE card
    <3>1. jobs' = With(id, written)
      BY <2>1 DEF IngestNew
    <3>2. card.company = d[1].company /\ DOMAIN card = Columns
      BY DEF Card, Columns
    <3>3. written.company = d[1].company
      BY <3>2 DEF ClosedCard, Columns
    <3> HIDE DEF written, card
    <3>4. DOMAIN jobs' = DOMAIN jobs \cup {id} /\ jobs'[id] = written
      BY <3>1 DEF With
    <3>5. j = id
      BY <1>2, <3>4
    <3>6. item.company = d[1].company
      BY <3>5, FoundIdNames
    <3> QED
      BY <3>3, <3>4, <3>5, <3>6
  <2>2. ASSUME NEW form \in Forms, CreateJobFromHuman(form)
        PROVE  FALSE
    <3>1. DOMAIN jobs' = DOMAIN jobs \cup {TypedId(form)}
      BY <2>2 DEF CreateJobFromHuman, With
    <3> QED
      BY <1>2, <3>1, FoundIsNotTyped
  <2>3. ASSUME DOMAIN jobs' = DOMAIN jobs
        PROVE  FALSE
    BY <1>2, <2>3
  <2>4. ASSUME NEW d \in Delivered, IngestKnown(d[1], d[2])
        PROVE  DOMAIN jobs' = DOMAIN jobs
    BY <2>4, RecognisedType DEF IngestKnown, With
  <2>5. ASSUME NEW job \in DOMAIN jobs, NEW edit \in AgentPatches, EnrichJobFromAgent(job, edit[1], edit[2])
        PROVE  DOMAIN jobs' = DOMAIN jobs
    BY <2>5 DEF EnrichJobFromAgent
  <2>6. ASSUME NEW job \in DOMAIN jobs, NEW edit \in HumanEdits, UpdateJob(job, edit[1], edit[2])
        PROVE  DOMAIN jobs' = DOMAIN jobs
    BY <2>6 DEF UpdateJob
  <2>7. ASSUME NEW job \in DOMAIN jobs, NEW reply \in Replies, RecordLivenessCheck(job, reply)
        PROVE  DOMAIN jobs' = DOMAIN jobs
    BY <2>7 DEF RecordLivenessCheck, With
  <2>8. ASSUME NEW job \in DOMAIN jobs, CheckJobLivenessNow(job)
        PROVE  DOMAIN jobs' = DOMAIN jobs
    BY <2>8 DEF CheckJobLivenessNow, discoveryVars
  <2>9. ASSUME NEW c \in conflicts, NEW choice \in {"current", "candidate"},
               ResolveFieldConflict(c, choice)
        PROVE  DOMAIN jobs' = DOMAIN jobs
    BY <2>9 DEF ResolveFieldConflict
  <2>10. CASE Duplicates
    BY <2>3, <2>10 DEF Duplicates, ResolvePossibleDuplicate, UndoPossibleDuplicate, DecisionAges
  <2>11. CASE UNCHANGED vars
    BY <2>3, <2>11 DEF vars, discoveryVars
  <2> QED
    BY <2>1, <2>2, <2>3, <2>4, <2>5, <2>6, <2>7, <2>8, <2>9, <2>10, <2>11 DEF Next
<1> QED
  BY <1>1, <1>2

\* The card of the id is recognised by its address and company.
LEMMA NothingRewritten ==
  ASSUME ProvenanceInv, EmployerOK(jobs), NEW j \in DOMAIN jobs
  PROVE  ~Rewritten(j)
<1> SUFFICES ASSUME NEW d \in Delivered, j = FoundId(d[1]), Recognised(d[1]) = NoJob
             PROVE  FALSE
  BY DEF Rewritten
<1>1. d[1] \in Items
  BY PostingType
<1>2. jobs[j].company = d[1].company
  BY <1>1 DEF EmployerOK
<1>3. CardOK(j, jobs[j], writes)
  BY DEF ProvenanceInv, CardsOK
<1>4. PICK item \in Items : j = FoundId(item) /\ jobs[j].url = item.url
  BY <1>3, FoundIsNotTyped DEF CardOK
<1>5. jobs[j].url = d[1].url
  BY <1>4, FoundIdNames
<1> QED
  BY <1>2, <1>5, AddressIsRecognised

\* A step that edits no company changes what a card says by a person alone.
LEMMA PersonAlone ==
  ASSUME ProvenanceInv, EmployerOK(jobs), [Next]_vars, NEW j \in DOMAIN jobs, NEW f \in Fields,
         jobs'[j][f] # jobs[j][f], jobs[j][f] \notin {Blank, "unknown"},
         ~(f = "opening" /\ jobs'[j].opening = "closed")
  PROVE  ByPerson(j, f)
BY StepWriters, NothingRewritten DEF WriterKnown

EmployersAlwaysStay == [][EmployersStay]_vars

LEMMA EmployersHold == Spec /\ EmployersAlwaysStay => []EmployerOK(jobs)
<1>1. Init => EmployerOK(jobs)
  BY EmployersStart
<1>2. ProvenanceInv /\ EmployerOK(jobs) /\ [Next]_vars /\ [EmployersStay]_vars => EmployerOK(jobs)'
  <2> SUFFICES ASSUME ProvenanceInv, EmployerOK(jobs), [Next]_vars, [EmployersStay]_vars
               PROVE  EmployerOK(jobs)'
    OBVIOUS
  <2>1. CASE EmployersStay
    BY <2>1, EmployersKept
  <2>2. CASE UNCHANGED vars
    BY <2>2 DEF vars, discoveryVars, EmployerOK
  <2> QED
    BY <2>1, <2>2
<1> QED
  BY <1>1, <1>2, ProvenanceInvariant, PTL DEF Spec, EmployersAlwaysStay

(* What a person wrote in a card stays until a person changes it, while no *)
(* edit and no decision gives a card another company.  With one, a source  *)
(* whose posting nothing recognises writes over the card: upsertJob by the *)
(* id, which is of the address and company the posting had.                *)
THEOREM HumanValuesKept == Spec /\ EmployersAlwaysStay => HumanValueKept
<1>1. ProvenanceInv /\ EmployerOK(jobs) /\ [Next]_vars =>
        [\A j \in DOMAIN jobs, f \in Text :
           /\ jobs'[j][f] # jobs[j][f] /\ jobs[j][f] \notin {Blank, "unknown"}
           /\ \E id \in Open(evidence, j, f) : evidence[id].origin = "human" /\ evidence[id].value = jobs[j][f]
           => ByPerson(j, f)]_vars
  BY PersonAlone DEF Fields, Text
<1> QED
  BY <1>1, ProvenanceInvariant, EmployersHold, PTL DEF Spec, HumanValueKept

\* Only a person opens what was closed.
Reopening ==
  \A j \in DOMAIN jobs :
    jobs[j].opening = "closed" /\ jobs'[j].opening # "closed" => ByPerson(j, "opening")

(* A vacancy reported closed is opened again by a person alone, under the  *)
(* same condition: not by a source, an agent, or a portal that was asked   *)
(* before it closed (recordLivenessCheck reads the card again).            *)
THEOREM ClosingsStay == Spec /\ EmployersAlwaysStay => ClosedStaysClosed
<1>1. "closed" \notin {Blank, "unknown"} /\ "opening" \in Fields
  BY DiscoveryAssumption DEF Statuses, Fields
<1>2. ProvenanceInv /\ EmployerOK(jobs) /\ [Next]_vars =>
        [Reopening]_vars
  BY <1>1, PersonAlone DEF Reopening
<1>3. [][Reopening]_vars /\ [][\A j \in DOMAIN jobs' : ReportedClosed(j) => ClosingChosen(j)]_vars
        => ClosedStaysClosed
  BY PTL DEF ClosedStaysClosed, Reopening
<1> QED
  BY <1>2, <1>3, ProvenanceInvariant, EmployersHold, ClosingsAreChosen, PTL DEF Spec, Reopening
=============================================================================
