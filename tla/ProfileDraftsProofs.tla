------------------------ MODULE ProfileDraftsProofs --------------------------
(***************************************************************************)
(* The versions of the profile, proved for any number of versions, of      *)
(* facts and of extractions under way.                                     *)
(*                                                                         *)
(* The numbers in use are those up to one, so that a new version never     *)
(* takes a number that was used; the facts of a version change only while  *)
(* it is a draft; and a draft opened from the active version, the only     *)
(* draft open at the time, keeps what it copied in place until a newer     *)
(* version is active, which it may then not replace.                       *)
(***************************************************************************)
EXTENDS ProfileDrafts, FiniteSetTheorems, SequenceTheorems, TLAPS

-----------------------------------------------------------------------------
(* The invariant *)

TypeOK ==
  /\ profile \in [Versions -> Profile] /\ facts \in [Versions -> Seq(Fact)]
  /\ answered \in [Versions -> SUBSET Types] /\ snapshot \in [Versions -> SUBSET Fact]
  /\ waiting \in Nat

\* The versions there were are the first ones.
UpTo(k) == \A v \in Versions : profile[v].status # "none" <=> v <= k

InOrder == \E k \in 0..MaxVersions : UpTo(k)

\* No fact is confirmed that nobody declared and nothing shows.
Evident(s) == \A n \in DOMAIN s : s[n].state = "confirmed" => FactHasEvidence(s[n])

Settled == {v \in Versions : profile[v].status \in {"confirmed", "retired"}}

\* A version that was confirmed says what its snapshot says.
Frozen(v) ==
  /\ snapshot[v] = ConfirmedFacts(facts[v])
  /\ \A n \in DOMAIN facts[v] : ~IsPendingFact(facts[v][n])

OneActive == \A a, b \in Actives : a = b

\* Fact f of a version, in the place it was copied to.
Follows(g, f) ==
  /\ g.type = f.type /\ g.origin = f.origin /\ ~g.asked
  /\ g.value = f.value \/ g.origin = "user"

\* What was confirmed in list s is in its place in list u.
Holds(u, s) ==
  \A n \in DOMAIN s : s[n].state = "confirmed" => n \in DOMAIN u /\ Follows(u[n], s[n])

\* A draft opened from an active version.
Heir(v) ==
  LET a == profile[v].from IN
  /\ a \in Settled /\ Holds(facts[v], facts[a])
  /\ \A w \in Versions : w < v => ~IsDraft(w)
  /\ \A b \in Actives : b = a \/ b > v

Heirs == {v \in Versions : IsDraft(v) /\ profile[v].from # 0}

ProfileInv ==
  /\ TypeOK /\ InOrder /\ OneActive
  /\ \A v \in Versions : Evident(facts[v])
  /\ \A v \in Settled : Frozen(v)
  /\ \A v \in Heirs : Heir(v)

-----------------------------------------------------------------------------
(* Lists of facts *)

(* A list made of another, fact by fact.                                   *)
LEMMA ListOf ==
  ASSUME NEW q \in Seq(Fact), NEW r \in [DOMAIN q -> Fact]
  PROVE  r \in Seq(Fact) /\ DOMAIN r = DOMAIN q
<1>1. DOMAIN q = 1..Len(q) /\ Len(q) \in Nat
  OBVIOUS
<1>2. r \in [1..Len(q) -> Fact]
  BY <1>1
<1>3. r \in Seq(Fact)
  BY <1>1, <1>2
<1> QED
  BY <1>1, <1>3

\* List u is what an edit of list s may leave: what was not asked stays in its place.
Edited(s, u) ==
  /\ u \in Seq(Fact) /\ (Evident(s) => Evident(u))
  /\ \A n \in DOMAIN s : ~s[n].asked => n \in DOMAIN u /\ Follows(u[n], s[n])

(* An edit leaves what was copied where it was.                            *)
LEMMA EditHolds ==
  ASSUME NEW s \in Seq(Fact), NEW u, NEW b \in Seq(Fact), Edited(s, u), Holds(s, b)
  PROVE  Holds(u, b)
BY DEF Edited, Holds, Follows

(* The columns of a fact.                                                  *)
LEMMA FactRow ==
  ASSUME NEW f \in Fact
  PROVE  /\ f.type \in Types /\ f.value \in Values /\ f.origin \in {"pdf", "user", "derived"}
         /\ f.state \in {"proposed", "confirmed", "rejected"}
         /\ f.evidence \in BOOLEAN /\ f.asked \in BOOLEAN
BY DEF Fact

(* A fact written at the end of the list.                                  *)
LEMMA AppendEdits ==
  ASSUME NEW s \in Seq(Fact), NEW f \in Fact, f.state = "confirmed" => FactHasEvidence(f)
  PROVE  Edited(s, Append(s, f))
<1> DEFINE u == Append(s, f)
<1>1. /\ u \in Seq(Fact) /\ Len(u) = Len(s) + 1 /\ u[Len(s) + 1] = f
      /\ DOMAIN s = 1..Len(s) /\ DOMAIN u = 1..Len(u) /\ Len(s) \in Nat
      /\ \A n \in 1..Len(s) : u[n] = s[n]
  OBVIOUS
<1> HIDE DEF u
<1>2. ASSUME NEW n \in DOMAIN u PROVE n \in DOMAIN s \/ n = Len(s) + 1
  BY <1>1
<1>3. Evident(s) => Evident(u)
  BY <1>1, <1>2 DEF Evident
<1>4. \A n \in DOMAIN s : ~s[n].asked => n \in DOMAIN u /\ Follows(u[n], s[n])
  BY <1>1 DEF Follows
<1>5. Edited(s, u)
  BY <1>1, <1>3, <1>4 DEF Edited
<1> QED
  BY <1>5 DEF u

(* What a request brings is a fact or nothing, with its evidence.          *)
LEMMA BroughtFacts ==
  ASSUME NEW by \in Actor
  PROVE  /\ \A f \in MayAdd(by) : f \in Fact /\ (f.state = "confirmed" => FactHasEvidence(f))
         /\ \A new \in Brought(by) : new = <<>> \/ \E f \in MayAdd(by) : new = <<f>>
<1>1. \A f \in Given : f \in Fact /\ (f.state = "confirmed" => FactHasEvidence(f))
  BY ProfileAssumption DEF FactHasEvidence
<1> QED
  BY <1>1 DEF MayAdd, Brought

(* A list of what a request brings.                                        *)
LEMMA OneFact ==
  ASSUME NEW f \in Fact, f.state = "confirmed" => FactHasEvidence(f)
  PROVE  <<f>> \in Seq(Fact) /\ Evident(<<f>>)
BY DEF Evident

(* A version without facts has none confirmed without evidence.            *)
LEMMA NoFact == <<>> \in Seq(Fact) /\ Evident(<<>>)
BY DEF Evident

(* updateProfessionalProfile adds what the request brings.                 *)
LEMMA BroughtEdits ==
  ASSUME NEW s \in Seq(Fact), NEW by \in Actor, NEW new \in Brought(by)
  PROVE  Edited(s, s \o new)
<1>1. CASE new = <<>>
  <2>1. s \o new = s
    BY <1>1, ConcatEmptySeq
  <2> QED
    BY <2>1 DEF Edited, Follows
<1>2. CASE \E f \in MayAdd(by) : new = <<f>>
  <2>1. PICK f \in MayAdd(by) : new = <<f>>
    BY <1>2
  <2>2. f \in Fact /\ (f.state = "confirmed" => FactHasEvidence(f))
    BY <2>1, BroughtFacts
  <2>3. s \o new = Append(s, f)
    BY <2>1, <2>2, AppendIsConcat
  <2> QED
    BY <2>2, <2>3, AppendEdits
<1> QED
  BY <1>1, <1>2, BroughtFacts

(* A review writes the state of one fact, which has its evidence.          *)
LEMMA ReviewEdits ==
  ASSUME NEW s \in Seq(Fact), NEW n \in DOMAIN s,
         NEW state \in {"proposed", "confirmed", "rejected"},
         state = "confirmed" => FactHasEvidence(s[n])
  PROVE  Edited(s, [s EXCEPT ![n].state = state])
<1> DEFINE f == [s[n] EXCEPT !.state = state]
           u == [s EXCEPT ![n] = f]
<1>1. s \in [DOMAIN s -> Fact] /\ s[n] \in Fact
  OBVIOUS
<1>2. /\ f \in Fact /\ f.state = state /\ f.type = s[n].type /\ f.origin = s[n].origin
      /\ f.value = s[n].value /\ f.asked = s[n].asked /\ f.evidence = s[n].evidence
  BY <1>1 DEF Fact
<1>3. u = [s EXCEPT ![n].state = state]
  BY <1>1
<1> HIDE DEF f
<1>4. u \in [DOMAIN s -> Fact] /\ u[n] = f /\ \A m \in DOMAIN s : m # n => u[m] = s[m]
  BY <1>1, <1>2
<1> HIDE DEF u
<1>5. u \in Seq(Fact) /\ DOMAIN u = DOMAIN s
  BY <1>4, ListOf
<1>6. state = "confirmed" => FactHasEvidence(f)
  BY <1>2 DEF FactHasEvidence
<1>7. Evident(s) => Evident(u)
  BY <1>2, <1>4, <1>5, <1>6 DEF Evident
<1>8. \A m \in DOMAIN s : ~s[m].asked => m \in DOMAIN u /\ Follows(u[m], s[m])
  BY <1>2, <1>4, <1>5 DEF Follows
<1> QED
  BY <1>3, <1>5, <1>7, <1>8 DEF Edited

(* A list written fact by fact, each with its evidence.                    *)
LEMMA MapEdits ==
  ASSUME NEW s \in Seq(Fact), NEW u, u = [n \in DOMAIN s |-> u[n]],
         \A n \in DOMAIN s :
           /\ u[n] \in Fact
           /\ Evident(s) /\ u[n].state = "confirmed" => FactHasEvidence(u[n])
           /\ ~s[n].asked => Follows(u[n], s[n])
  PROVE  Edited(s, u) /\ DOMAIN u = DOMAIN s
<1>1. u \in [DOMAIN s -> Fact]
  OBVIOUS
<1>2. u \in Seq(Fact) /\ DOMAIN u = DOMAIN s
  BY <1>1, ListOf
<1> QED
  BY <1>2 DEF Edited, Evident

(* The review of all that waits confirms what has its evidence.            *)
LEMMA ReviewedAllEdits ==
  ASSUME NEW s \in Seq(Fact)
  PROVE  Edited(s, ReviewedAll(s))
<1> DEFINE u == ReviewedAll(s)
<1>1. u = [n \in DOMAIN s |-> u[n]]
  BY DEF ReviewedAll
<1>2. ASSUME NEW n \in DOMAIN s
      PROVE  /\ u[n] \in Fact
             /\ Evident(s) /\ u[n].state = "confirmed" => FactHasEvidence(u[n])
             /\ ~s[n].asked => Follows(u[n], s[n])
  <2> DEFINE c == [s[n] EXCEPT !.state = "confirmed"]
  <2>1. s[n] \in Fact
    OBVIOUS
  <2>2. /\ c \in Fact /\ c.type = s[n].type /\ c.origin = s[n].origin
        /\ c.value = s[n].value /\ c.asked = s[n].asked /\ c.evidence = s[n].evidence
    BY <2>1 DEF Fact
  <2>3. \/ u[n] = c /\ FactHasEvidence(s[n])
        \/ u[n] = s[n]
    BY DEF ReviewedAll
  <2> HIDE DEF c, u
  <2>4. FactHasEvidence(s[n]) => FactHasEvidence(c)
    BY <2>2 DEF FactHasEvidence
  <2> QED
    BY <2>1, <2>2, <2>3, <2>4 DEF Evident, Follows
<1> HIDE DEF u
<1>3. Edited(s, u)
  BY <1>1, <1>2, MapEdits
<1> QED
  BY <1>3 DEF u

(* What an agent proposes in the interview replaces its own proposals.     *)
LEMMA ReproposeEdits ==
  ASSUME NEW s \in Seq(Fact), NEW t \in Types, NEW value \in Values
  PROVE  Edited(s, Repropose(s, t, value))
<1> DEFINE was == {n \in DOMAIN s : s[n].type = t /\ s[n].asked}
           p == AsProposed(t, value)
           u == [n \in DOMAIN s |-> IF n \in was /\ s[n].value # value THEN p ELSE s[n]]
<1>1. p \in Fact /\ p.state = "proposed"
  BY DEF AsProposed, Fact
<1>2. CASE was = {}
  <2>1. Repropose(s, t, value) = Append(s, p)
    BY <1>2 DEF Repropose
  <2> QED
    BY <1>1, <2>1, AppendEdits
<1>3. CASE was # {}
  <2>1. Repropose(s, t, value) = u
    BY <1>3 DEF Repropose
  <2>2. u = [n \in DOMAIN s |-> u[n]]
    OBVIOUS
  <2>3. ASSUME NEW n \in DOMAIN s
        PROVE  /\ u[n] \in Fact
               /\ Evident(s) /\ u[n].state = "confirmed" => FactHasEvidence(u[n])
               /\ ~s[n].asked => Follows(u[n], s[n])
    <3>1. s[n] \in Fact /\ (u[n] = s[n] \/ (u[n] = p /\ s[n].asked))
      OBVIOUS
    <3> HIDE DEF u, p
    <3> QED
      BY <1>1, <3>1 DEF Evident, Follows
  <2> HIDE DEF u
  <2> QED
    BY <2>1, <2>2, <2>3, MapEdits
<1> QED
  BY <1>2, <1>3

(* The answer of a person takes the place of the person's declaration.     *)
LEMMA DeclareEdits ==
  ASSUME NEW s \in Seq(Fact), NEW t \in Types, NEW value \in Values
  PROVE  Edited(s, Declare(s, t, value))
<1> DEFINE own == {n \in DOMAIN s : s[n].type = t /\ s[n].origin = "user"}
           d == Declared(t, value)
           one(n) == IF n \in own /\ \A m \in own : n <= m THEN d
                     ELSE IF s[n].type = t /\ n \notin own /\ t \in Blockers
                            THEN [s[n] EXCEPT !.state = "rejected"] ELSE s[n]
           u == [n \in DOMAIN s |-> one(n)]
<1>1. d \in Fact /\ d.type = t /\ d.origin = "user" /\ ~d.asked /\ FactHasEvidence(d)
  BY DEF Declared, Fact, FactHasEvidence
<1>2. Declare(s, t, value) = IF own = {} THEN Append(u, d) ELSE u
  BY DEF Declare
<1>3. u = [n \in DOMAIN s |-> u[n]]
  OBVIOUS
<1>4. ASSUME NEW n \in DOMAIN s
      PROVE  /\ u[n] \in Fact
             /\ Evident(s) /\ u[n].state = "confirmed" => FactHasEvidence(u[n])
             /\ ~s[n].asked => Follows(u[n], s[n])
  <2> DEFINE r == [s[n] EXCEPT !.state = "rejected"]
  <2>1. s[n] \in Fact
    OBVIOUS
  <2>2. /\ r \in Fact /\ r.state = "rejected" /\ r.type = s[n].type /\ r.origin = s[n].origin
        /\ r.value = s[n].value /\ r.asked = s[n].asked
    BY <2>1 DEF Fact
  <2>3. u[n] = s[n] \/ u[n] = r \/ (u[n] = d /\ s[n].type = t /\ s[n].origin = "user")
    OBVIOUS
  <2> HIDE DEF u, d, r
  <2> QED
    BY <1>1, <2>1, <2>2, <2>3 DEF Evident, Follows
<1> HIDE DEF u, d, own
<1>5. Edited(s, u) /\ u \in Seq(Fact)
  BY <1>3, <1>4, MapEdits DEF Edited
<1>6. Edited(u, Append(u, d))
  BY <1>1, <1>5, AppendEdits
<1>7. Edited(s, Append(u, d))
  BY <1>5, <1>6 DEF Edited, Follows
<1> QED
  BY <1>2, <1>5, <1>7

(* A copy holds what it copies, in place.                                  *)
LEMMA CopyHolds ==
  ASSUME TypeOK, NEW v \in Versions, Evident(facts[v])
  PROVE  /\ Copy(v) \in Seq(Fact) /\ DOMAIN Copy(v) = DOMAIN facts[v]
         /\ Evident(Copy(v)) /\ Holds(Copy(v), facts[v])
<1> DEFINE s == facts[v]
           u == Copy(v)
<1>1. s \in Seq(Fact)
  BY DEF TypeOK
<1>2. u = [n \in DOMAIN s |-> [s[n] EXCEPT !.asked = FALSE]]
  BY DEF Copy
<1> HIDE DEF u
<1>3. ASSUME NEW n \in DOMAIN s
      PROVE  /\ u[n] \in Fact /\ u[n].state = s[n].state /\ u[n].evidence = s[n].evidence
             /\ u[n].type = s[n].type /\ u[n].origin = s[n].origin /\ u[n].value = s[n].value
             /\ u[n].asked = FALSE
  <2>1. s[n] \in Fact /\ u[n] = [s[n] EXCEPT !.asked = FALSE]
    BY <1>1, <1>2
  <2> QED
    BY <2>1 DEF Fact
<1>4. u \in [DOMAIN s -> Fact]
  BY <1>2, <1>3
<1>5. u \in Seq(Fact) /\ DOMAIN u = DOMAIN s
  BY <1>1, <1>4, ListOf
<1>6. Evident(u)
  BY <1>3, <1>5 DEF Evident, FactHasEvidence
<1>7. Holds(u, s)
  BY <1>3, <1>5 DEF Holds, Follows
<1> QED
  BY <1>5, <1>6, <1>7 DEF u

-----------------------------------------------------------------------------
(* Versions *)

(* The columns of a version.                                               *)
LEMMA ProfileRow ==
  ASSUME NEW p \in Profile
  PROVE  /\ p.status \in {"none", "draft", "confirmed", "retired", "deleted"}
         /\ p.from \in 0..MaxVersions /\ p.filled \in BOOLEAN
BY DEF Profile

(* nextProfileVersion: a number past every one that was used.              *)
LEMMA NextIsNew ==
  ASSUME InOrder
  PROVE  /\ NextProfileVersion \in Nat /\ NextProfileVersion > 0
         /\ UpTo(NextProfileVersion - 1)
<1>1. PICK k \in 0..MaxVersions : UpTo(k)
  BY DEF InOrder
<1>2. k \in Nat /\ MaxVersions \in Nat /\ k <= MaxVersions
  BY BoundAssumption
<1>3. {v \in Versions : profile[v].status # "none"} = 1..k
  BY <1>1, <1>2 DEF UpTo, Versions
<1>4. Cardinality(1..k) = k
  BY <1>2, FS_Interval
<1>5. NextProfileVersion = 1 + k
  BY <1>3, <1>4 DEF NextProfileVersion
<1> QED
  BY <1>1, <1>2, <1>5

(* What a step that leaves the confirmed versions alone keeps of them.     *)
LEMMA SettledKept ==
  ASSUME ProfileInv, snapshot' = snapshot,
         \A v \in Versions : v \in Settled' => v \in Settled /\ facts'[v] = facts[v]
  PROVE  \A v \in Settled' : Frozen(v)'
BY DEF ProfileInv, Settled, Frozen, ConfirmedFacts

(* The rows of a new draft.                                                *)
LEMMA InsertKeeps ==
  ASSUME ProfileInv, NEW from \in 0..MaxVersions, NEW filled \in BOOLEAN, NEW new \in Seq(Fact),
         Insert(NextProfileVersion, from, filled, new), Evident(new),
         from # 0 => from \in Actives /\ NoOpenDraft /\ Holds(new, facts[from]),
         answered' = answered, snapshot' = snapshot, waiting' \in Nat
  PROVE  ProfileInv'
<1> DEFINE n == NextProfileVersion
           row == [status |-> "draft", from |-> from, filled |-> filled]
<1>1. /\ TypeOK /\ n \in Nat /\ n > 0 /\ UpTo(n - 1) /\ n \in Versions
      /\ profile' = [profile EXCEPT ![n] = row] /\ facts' = [facts EXCEPT ![n] = new]
      /\ MaxVersions \in Nat
  BY NextIsNew, BoundAssumption DEF ProfileInv, Insert
<1> HIDE DEF n
<1>2. /\ row \in Profile /\ row.status = "draft" /\ row.from = from
  BY DEF Profile
<1> HIDE DEF row
<1>3. TypeOK'
  BY <1>1, <1>2 DEF TypeOK
<1>4. /\ profile'[n] = row /\ facts'[n] = new /\ profile[n].status = "none"
      /\ \A w \in Versions : w # n => profile'[w] = profile[w] /\ facts'[w] = facts[w]
      /\ \A w \in Versions : profile[w].status # "none" => w < n
  BY <1>1 DEF TypeOK, UpTo, Versions
<1>5. InOrder'
  <2>1. n \in 0..MaxVersions
    BY <1>1 DEF Versions
  <2>2. ASSUME NEW w \in Versions PROVE profile'[w].status # "none" <=> w <= n
    BY <1>1, <1>2, <1>4 DEF UpTo, Versions
  <2> QED
    BY <2>1, <2>2 DEF InOrder, UpTo
<1>6. Actives' = Actives /\ n \notin Actives /\ n \notin Settled
  BY <1>2, <1>4 DEF Actives, Settled
<1>7. OneActive'
  BY <1>6 DEF OneActive, ProfileInv
<1>8. \A w \in Versions : Evident(facts'[w])
  BY <1>4 DEF ProfileInv
<1>9. \A w \in Settled' : Frozen(w)'
  <2>1. \A w \in Versions : w \in Settled' => w \in Settled /\ facts'[w] = facts[w]
    BY <1>2, <1>4 DEF Settled
  <2> QED
    BY <2>1, SettledKept
<1>10. Settled' = Settled
  BY <1>2, <1>4 DEF Settled
<1>11. ASSUME NEW w \in Heirs' PROVE Heir(w)'
  <2>1. CASE w = n
    <3>1. from # 0 /\ profile'[w].from = from
      BY <1>2, <1>4, <1>11, <2>1 DEF Heirs
    <3>2. from \in Actives /\ from \in Settled' /\ from # n /\ facts'[from] = facts[from]
      BY <1>4, <1>6, <1>10, <3>1 DEF Actives, Settled
    <3>3. Holds(facts'[w], facts'[from])
      BY <1>4, <2>1, <3>1, <3>2
    <3>4. \A x \in Versions : x < w => ~IsDraft(x)'
      BY <1>1, <1>4, <2>1, <3>1 DEF NoOpenDraft, IsDraft
    <3>5. \A b \in Actives' : b = from
      BY <1>6, <3>2 DEF OneActive, ProfileInv
    <3> QED
      BY <3>1, <3>2, <3>3, <3>4, <3>5 DEF Heir
  <2>2. CASE w # n
    <3> DEFINE a == profile[w].from
    <3>1. w \in Heirs /\ profile'[w] = profile[w] /\ facts'[w] = facts[w] /\ w < n
      BY <1>4, <1>11, <2>2 DEF Heirs, IsDraft
    <3>2. Heir(w)
      BY <3>1 DEF ProfileInv
    <3>3. a \in Settled /\ facts'[a] = facts[a]
      BY <1>4, <1>6, <3>2 DEF Heir, Settled
    <3>4. \A x \in Versions : x < w => ~IsDraft(x)'
      BY <1>1, <1>4, <3>1, <3>2 DEF Heir, IsDraft, Versions, Heirs
    <3> QED
      BY <1>6, <1>10, <3>1, <3>2, <3>3, <3>4 DEF Heir
  <2> QED
    BY <2>1, <2>2
<1> QED
  BY <1>3, <1>5, <1>7, <1>8, <1>9, <1>11 DEF ProfileInv

(* An edit of a draft.                                                     *)
LEMMA EditKeeps ==
  ASSUME ProfileInv, NEW v \in Versions, IsDraft(v), NEW u, Edited(facts[v], u),
         facts' = [facts EXCEPT ![v] = u], NEW filled \in BOOLEAN,
         profile' = [profile EXCEPT ![v].filled = filled],
         answered' \in [Versions -> SUBSET Types], snapshot' = snapshot, waiting' = waiting
  PROVE  ProfileInv'
<1> DEFINE row == [profile[v] EXCEPT !.filled = filled]
<1>1. TypeOK /\ profile[v] \in Profile /\ u \in Seq(Fact)
  BY DEF ProfileInv, TypeOK, Edited
<1>2. row \in Profile /\ row.status = profile[v].status /\ row.from = profile[v].from
  BY <1>1 DEF Profile
<1>3. profile' = [profile EXCEPT ![v] = row]
  BY <1>1 DEF TypeOK
<1> HIDE DEF row
<1>4. TypeOK'
  BY <1>1, <1>2, <1>3 DEF TypeOK
<1>5. \A w \in Versions : profile'[w].status = profile[w].status /\ profile'[w].from = profile[w].from
  BY <1>1, <1>2, <1>3 DEF TypeOK
<1>6. facts'[v] = u /\ \A w \in Versions : w # v => facts'[w] = facts[w]
  BY <1>1 DEF TypeOK
<1>7. /\ InOrder' /\ Actives' = Actives /\ Settled' = Settled /\ Heirs' = Heirs
      /\ \A w \in Versions : IsDraft(w)' = IsDraft(w)
  <2>1. InOrder'
    BY <1>5 DEF ProfileInv, InOrder, UpTo
  <2>2. Actives' = Actives /\ Settled' = Settled
    BY <1>5 DEF Actives, Settled
  <2>3. \A w \in Versions : IsDraft(w)' = IsDraft(w)
    BY <1>5 DEF IsDraft
  <2>4. Heirs' = Heirs
    BY <1>5, <2>3 DEF Heirs
  <2> QED
    BY <2>1, <2>2, <2>3, <2>4
<1>8. \A w \in Versions : Evident(facts'[w])
  BY <1>6 DEF ProfileInv, Edited
<1>9. \A w \in Settled : facts'[w] = facts[w]
  BY <1>6 DEF Settled, IsDraft
<1>10. \A w \in Settled' : Frozen(w)'
  <2>1. \A w \in Versions : w \in Settled' => w \in Settled /\ facts'[w] = facts[w]
    BY <1>7, <1>9
  <2> QED
    BY <2>1, SettledKept
<1>11. ASSUME NEW w \in Heirs' PROVE Heir(w)'
  <2> DEFINE a == profile[w].from
  <2>1. w \in Versions /\ Heir(w) /\ profile'[w].from = a /\ facts'[a] = facts[a]
    BY <1>5, <1>7, <1>9 DEF ProfileInv, Heir, Heirs
  <2>2. facts[a] \in Seq(Fact) /\ facts[w] \in Seq(Fact) /\ Holds(facts[w], facts[a])
    BY <1>1, <2>1 DEF Heir, TypeOK, Settled
  <2>3. Holds(facts'[w], facts[a])
    <3>1. CASE w = v
      BY <1>6, <2>2, <3>1, EditHolds
    <3>2. CASE w # v
      BY <1>6, <2>1, <2>2, <3>2
    <3> QED
      BY <3>1, <3>2
  <2> QED
    BY <1>7, <2>1, <2>3 DEF Heir
<1> QED
  BY <1>4, <1>7, <1>8, <1>10, <1>11 DEF ProfileInv, OneActive

(* A draft discarded: its number is not used again.                        *)
LEMMA DeleteKeeps ==
  ASSUME ProfileInv, NEW v \in Versions, DeleteDraftProfile(v)
  PROVE  ProfileInv'
<1> DEFINE row == [status |-> "deleted", from |-> 0, filled |-> FALSE]
<1>1. /\ TypeOK /\ IsDraft(v) /\ profile' = [profile EXCEPT ![v] = row]
      /\ facts' = [facts EXCEPT ![v] = <<>>] /\ answered' = [answered EXCEPT ![v] = {}]
      /\ snapshot' = snapshot /\ waiting' = waiting
  BY DEF ProfileInv, DeleteDraftProfile
<1>2. row \in Profile /\ row.status = "deleted"
  BY BoundAssumption DEF Profile
<1> HIDE DEF row
<1>3. TypeOK'
  BY <1>1, <1>2, NoFact DEF TypeOK
<1>4. /\ profile'[v] = row /\ facts'[v] = <<>>
      /\ \A w \in Versions : w # v => profile'[w] = profile[w] /\ facts'[w] = facts[w]
  BY <1>1 DEF TypeOK
<1>5. InOrder'
  BY <1>1, <1>2, <1>4 DEF ProfileInv, InOrder, UpTo, IsDraft
<1>6. Actives' = Actives /\ Settled' = Settled /\ v \notin Settled
  BY <1>1, <1>2, <1>4 DEF Actives, Settled, IsDraft
<1>7. \A w \in Versions : Evident(facts'[w])
  BY <1>4, NoFact DEF ProfileInv
<1>8. \A w \in Settled' : Frozen(w)'
  <2>1. \A w \in Versions : w \in Settled' => w \in Settled /\ facts'[w] = facts[w]
    BY <1>4, <1>6
  <2> QED
    BY <1>1, <2>1, SettledKept
<1>9. ASSUME NEW w \in Heirs' PROVE Heir(w)'
  <2> DEFINE a == profile[w].from
  <2>1. w # v /\ w \in Heirs /\ profile'[w] = profile[w] /\ facts'[w] = facts[w]
    BY <1>2, <1>4 DEF Heirs, IsDraft
  <2>2. Heir(w)
    BY <2>1 DEF ProfileInv
  <2>3. a \in Settled /\ facts'[a] = facts[a]
    BY <1>4, <1>6, <2>2 DEF Heir, Settled
  <2>4. \A x \in Versions : x < w => ~IsDraft(x)'
    BY <1>2, <1>4, <2>2 DEF Heir, IsDraft
  <2> QED
    BY <1>6, <2>1, <2>2, <2>3, <2>4 DEF Heir
<1> QED
  BY <1>3, <1>5, <1>6, <1>7, <1>8, <1>9 DEF ProfileInv, OneActive

(* A version becomes the active one, and the one before it is retired.     *)
LEMMA ActivateKeeps ==
  ASSUME ProfileInv, NEW v \in Versions, NEW from \in 0..MaxVersions, NEW filled \in BOOLEAN,
         NEW new \in Seq(Fact), Activate(v, from, filled, new),
         v \notin Settled, NEW k \in 0..MaxVersions,
         \A w \in Versions : profile[w].status # "none" \/ w = v <=> w <= k,
         \A w \in Heirs : w # v => w < v,
         Evident(new), \A n \in DOMAIN new : ~IsPendingFact(new[n]),
         facts' = [facts EXCEPT ![v] = new], answered' = answered, waiting' = waiting
  PROVE  ProfileInv'
<1> DEFINE row == [status |-> "confirmed", from |-> from, filled |-> filled]
           old(w) == [profile[w] EXCEPT !.status = "retired"]
           snap == ConfirmedFacts(new)
<1>1. /\ TypeOK
      /\ profile' = [w \in Versions |-> IF w = v THEN row
                                        ELSE IF w \in Actives THEN old(w) ELSE profile[w]]
      /\ snapshot' = [snapshot EXCEPT ![v] = snap]
  BY DEF ProfileInv, Activate
<1>2. row \in Profile /\ row.status = "confirmed"
  BY DEF Profile
<1>3. \A w \in Versions : profile[w] \in Profile
  BY <1>1 DEF TypeOK
<1>4. \A w \in Versions : old(w) \in Profile /\ old(w).status = "retired" /\ old(w).from = profile[w].from
  BY <1>3 DEF Profile
<1>5. snap \in SUBSET Fact
  BY DEF ConfirmedFacts, ToSet
<1> HIDE DEF row, old
<1>6. TypeOK'
  <2>1. profile' \in [Versions -> Profile]
    BY <1>1, <1>2, <1>3, <1>4
  <2> QED
    BY <1>1, <1>5, <2>1 DEF TypeOK
<1>7. /\ profile'[v] = row /\ facts'[v] = new /\ snapshot'[v] = snap
      /\ \A w \in Versions : w # v =>
           /\ facts'[w] = facts[w] /\ snapshot'[w] = snapshot[w]
           /\ profile'[w] = IF w \in Actives THEN old(w) ELSE profile[w]
  BY <1>1 DEF TypeOK
<1>8. Actives' = {v}
  BY <1>2, <1>4, <1>7 DEF Actives
<1>9. Settled' = Settled \cup {v}
  BY <1>2, <1>4, <1>7 DEF Settled, Actives
<1>10. InOrder'
  BY <1>2, <1>4, <1>7 DEF InOrder, UpTo, Actives
<1>11. \A w \in Versions : Evident(facts'[w])
  BY <1>7 DEF ProfileInv
<1>12. ASSUME NEW w \in Settled' PROVE Frozen(w)'
  BY <1>7, <1>9 DEF ProfileInv, Frozen, Settled, ConfirmedFacts
<1>13. ASSUME NEW w \in Heirs' PROVE Heir(w)'
  <2> DEFINE a == profile[w].from
  <2>1. w \in Versions /\ w # v /\ w \notin Actives /\ w \in Heirs /\ profile'[w] = profile[w]
    BY <1>2, <1>4, <1>7 DEF Heirs, IsDraft, Actives
  <2>2. Heir(w) /\ w < v
    BY <2>1 DEF ProfileInv
  <2>3. a \in Settled /\ a # v /\ facts'[a] = facts[a] /\ facts'[w] = facts[w]
    BY <1>7, <2>1, <2>2 DEF Heir, Settled
  <2>4. \A x \in Versions : x < w => ~IsDraft(x)'
    BY <1>2, <1>4, <1>7, <2>2 DEF Heir, IsDraft
  <2> QED
    BY <1>8, <1>9, <2>1, <2>2, <2>3, <2>4 DEF Heir
<1> QED
  BY <1>6, <1>8, <1>10, <1>11, <1>12, <1>13 DEF ProfileInv, OneActive

-----------------------------------------------------------------------------
(* Requests *)

(* A draft from nothing: by hand, of a JSON Resume or of a PDF.            *)
LEMMA CreateKeeps ==
  ASSUME ProfileInv, NEW filled \in BOOLEAN, NEW new \in Seq(Fact), Evident(new),
         Insert(NextProfileVersion, 0, filled, new),
         answered' = answered, snapshot' = snapshot, waiting' \in Nat
  PROVE  ProfileInv'
<1>1. 0 \in 0..MaxVersions
  BY BoundAssumption
<1> QED
  BY <1>1, InsertKeeps

(* A new draft copies no other version.                                    *)
LEMMA CreateProfessionalProfileKeeps ==
  ASSUME ProfileInv, NEW by \in Actor, CreateProfessionalProfile(by)
  PROVE  ProfileInv'
<1>1. PICK filled \in Contexts \cup {FALSE}, new \in Brought(by) :
        Insert(NextProfileVersion, 0, filled, new)
  BY DEF CreateProfessionalProfile
<1>2. filled \in BOOLEAN /\ UNCHANGED <<answered, snapshot, waiting>>
  BY ProfileAssumption DEF CreateProfessionalProfile
<1>3. new \in Seq(Fact) /\ Evident(new)
  BY BroughtFacts, OneFact, NoFact
<1> QED
  BY <1>1, <1>2, <1>3, CreateKeeps DEF ProfileInv, TypeOK

(* What a file brings waits for its review.                                *)
LEMMA ImportedFacts ==
  ASSUME NEW f \in Imported
  PROVE  <<f>> \in Seq(Fact) /\ Evident(<<f>>)
<1>1. f \in Fact /\ f.state = "proposed"
  BY ProfileAssumption DEF Imported
<1> QED
  BY <1>1, OneFact

(* A resume that is imported opens a draft of its own.                     *)
LEMMA ImportKeeps ==
  ASSUME ProfileInv, ImportJsonResumeProfile
  PROVE  ProfileInv'
<1>1. PICK f \in Imported : Insert(NextProfileVersion, 0, FALSE, <<f>>)
  BY DEF ImportJsonResumeProfile
<1>2. UNCHANGED <<answered, snapshot, waiting>>
  BY DEF ImportJsonResumeProfile
<1> QED
  BY <1>1, <1>2, ImportedFacts, CreateKeeps DEF ProfileInv, TypeOK

\* What the versions are made of.
versionVars == <<profile, facts, answered, snapshot>>

(* A step of the versions themselves.                                      *)
LEMMA SameVersions ==
  ASSUME ProfileInv, UNCHANGED versionVars, waiting' \in Nat
  PROVE  ProfileInv'
<1>1. UNCHANGED <<profile, facts, answered, snapshot>>
  BY DEF versionVars
<1>2. Settled' = Settled /\ Heirs' = Heirs /\ Actives' = Actives
  BY <1>1 DEF Settled, Heirs, Actives, IsDraft
<1>3. (\A v \in Settled' : Frozen(v)') /\ \A v \in Heirs' : Heir(v)'
  BY <1>1, <1>2 DEF ProfileInv, Frozen, Heir, IsDraft
<1> QED
  BY <1>1, <1>2, <1>3 DEF ProfileInv, TypeOK, InOrder, UpTo, OneActive

(* An extraction is asked for, and what it reads becomes a draft of its    *)
(* own.                                                                    *)
LEMMA PdfKeeps ==
  ASSUME ProfileInv, ProposeBaseResumeFacts \/ CreateProfileFromBaseResume
  PROVE  ProfileInv'
<1>1. waiting \in Nat
  BY DEF ProfileInv, TypeOK
<1>2. CASE ProposeBaseResumeFacts
  BY <1>1, <1>2, SameVersions DEF ProposeBaseResumeFacts, versionVars
<1>3. CASE CreateProfileFromBaseResume
  <2>1. waiting' \in Nat /\ UNCHANGED <<answered, snapshot>>
    BY <1>1, <1>3 DEF CreateProfileFromBaseResume
  <2>2. CASE UNCHANGED <<profile, facts>>
    BY <2>1, <2>2, SameVersions DEF versionVars
  <2>3. CASE \E new \in {<<>>} \cup {<<f>> : f \in Imported} : Insert(NextProfileVersion, 0, FALSE, new)
    <3>1. PICK new \in {<<>>} \cup {<<f>> : f \in Imported} : Insert(NextProfileVersion, 0, FALSE, new)
      BY <2>3
    <3>2. new \in Seq(Fact) /\ Evident(new)
      BY ImportedFacts, NoFact
    <3> QED
      BY <2>1, <3>1, <3>2, CreateKeeps
  <2> QED
    BY <1>3, <2>2, <2>3 DEF CreateProfileFromBaseResume
<1> QED
  BY <1>2, <1>3

(* A copy of the active version.                                           *)
LEMMA NewVersionKeeps ==
  ASSUME ProfileInv, NEW v \in Versions, CreateProfileNewVersion(v)
  PROVE  ProfileInv'
<1>1. /\ v \in Actives /\ NoOpenDraft /\ Insert(NextProfileVersion, v, profile[v].filled, Copy(v))
      /\ UNCHANGED <<answered, snapshot, waiting>>
  BY DEF CreateProfileNewVersion
<1>2. TypeOK /\ Evident(facts[v]) /\ profile[v].filled \in BOOLEAN
  BY ProfileRow DEF ProfileInv, TypeOK
<1>3. v \in 0..MaxVersions /\ waiting' \in Nat
  BY <1>1, <1>2, BoundAssumption DEF Versions, TypeOK
<1>4. Copy(v) \in Seq(Fact) /\ Evident(Copy(v)) /\ Holds(Copy(v), facts[v])
  BY <1>2, CopyHolds
<1> QED
  BY <1>1, <1>2, <1>3, <1>4, InsertKeeps

(* The edits of the facts of a draft.                                      *)
LEMMA FactsKeep ==
  ASSUME ProfileInv, NEW v \in Versions, IsDraft(v), NEW u, Edited(facts[v], u),
         facts' = [facts EXCEPT ![v] = u], profile' = profile,
         answered' \in [Versions -> SUBSET Types], snapshot' = snapshot, waiting' = waiting
  PROVE  ProfileInv'
<1>1. profile \in [Versions -> Profile] /\ profile[v] \in Profile
  BY DEF ProfileInv, TypeOK
<1>2. profile[v] = [profile[v] EXCEPT !.filled = profile[v].filled]
  BY <1>1 DEF Profile
<1>3. profile' = [profile EXCEPT ![v].filled = profile[v].filled]
  BY <1>1, <1>2
<1>4. profile[v].filled \in BOOLEAN
  BY <1>1, ProfileRow
<1> QED
  BY <1>3, <1>4, EditKeeps

(* The facts of a draft are proposed, edited, reviewed and answered.       *)
LEMMA EditStepsKeep ==
  ASSUME ProfileInv, NEW v \in Versions,
         \/ \E by \in Actor : UpdateProfessionalProfile(by, v) \/ AddProfileFact(by, v)
         \/ \E n \in 1..MaxFacts, state \in Reviews : ReviewProfileFact(v, n, state)
         \/ ReviewAllProfileFacts(v)
         \/ \E t \in Types, value \in Values : AnswerByMachine(v, t, value) \/ AnswerByHuman(v, t, value)
  PROVE  ProfileInv'
<1>1. TypeOK /\ facts[v] \in Seq(Fact)
  BY DEF ProfileInv, TypeOK
<1>2. ASSUME NEW by \in Actor, UpdateProfessionalProfile(by, v) PROVE ProfileInv'
  <2>1. PICK filled \in Contexts \cup {profile[v].filled}, new \in Brought(by) :
          /\ profile' = [profile EXCEPT ![v].filled = filled]
          /\ facts' = [facts EXCEPT ![v] = facts[v] \o new]
    BY <1>2 DEF UpdateProfessionalProfile
  <2>2. IsDraft(v) /\ UNCHANGED <<answered, snapshot, waiting>>
    BY <1>2 DEF UpdateProfessionalProfile
  <2>3. filled \in BOOLEAN
    BY <1>1, ProfileAssumption, ProfileRow DEF TypeOK
  <2>4. Edited(facts[v], facts[v] \o new)
    BY <1>1, BroughtEdits
  <2> QED
    BY <1>1, <2>1, <2>2, <2>3, <2>4, EditKeeps DEF TypeOK
<1>3. ASSUME NEW by \in Actor, AddProfileFact(by, v) PROVE ProfileInv'
  <2>1. PICK f \in MayAdd(by) : facts' = [facts EXCEPT ![v] = Append(facts[v], f)]
    BY <1>3 DEF AddProfileFact
  <2>2. IsDraft(v) /\ UNCHANGED <<profile, answered, snapshot, waiting>>
    BY <1>3 DEF AddProfileFact
  <2>3. Edited(facts[v], Append(facts[v], f))
    BY <1>1, BroughtFacts, AppendEdits
  <2> QED
    BY <1>1, <2>1, <2>2, <2>3, FactsKeep DEF TypeOK
<1>4. ASSUME NEW n \in 1..MaxFacts, NEW state \in Reviews, ReviewProfileFact(v, n, state)
      PROVE  ProfileInv'
  <2> DEFINE u == [facts[v] EXCEPT ![n].state = state]
  <2>1. /\ IsDraft(v) /\ n \in DOMAIN facts[v] /\ (state = "confirmed" => FactHasEvidence(facts[v][n]))
        /\ facts' = [facts EXCEPT ![v][n].state = state]
        /\ UNCHANGED <<profile, answered, snapshot, waiting>>
    BY <1>4 DEF ReviewProfileFact
  <2>2. state \in {"proposed", "confirmed", "rejected"}
    BY ProfileAssumption
  <2>3. Edited(facts[v], u)
    BY <1>1, <2>1, <2>2, ReviewEdits
  <2>4. facts' = [facts EXCEPT ![v] = u]
    BY <1>1, <2>1 DEF TypeOK
  <2> HIDE DEF u
  <2> QED
    BY <1>1, <2>1, <2>3, <2>4, FactsKeep DEF TypeOK
<1>5. ASSUME ReviewAllProfileFacts(v) PROVE ProfileInv'
  <2>1. /\ IsDraft(v) /\ facts' = [facts EXCEPT ![v] = ReviewedAll(facts[v])]
        /\ UNCHANGED <<profile, answered, snapshot, waiting>>
    BY <1>5 DEF ReviewAllProfileFacts
  <2>2. Edited(facts[v], ReviewedAll(facts[v]))
    BY <1>1, ReviewedAllEdits
  <2> QED
    BY <1>1, <2>1, <2>2, FactsKeep DEF TypeOK
<1>6. ASSUME NEW t \in Types, NEW value \in Values, AnswerByMachine(v, t, value) PROVE ProfileInv'
  <2>1. /\ IsDraft(v) /\ facts' = [facts EXCEPT ![v] = Repropose(facts[v], t, value)]
        /\ UNCHANGED <<profile, answered, snapshot, waiting>>
    BY <1>6 DEF AnswerByMachine
  <2>2. Edited(facts[v], Repropose(facts[v], t, value))
    BY <1>1, ReproposeEdits
  <2> QED
    BY <1>1, <2>1, <2>2, FactsKeep DEF TypeOK
<1>7. ASSUME NEW t \in Types, NEW value \in Values, AnswerByHuman(v, t, value) PROVE ProfileInv'
  <2>1. /\ IsDraft(v) /\ facts' = [facts EXCEPT ![v] = Declare(facts[v], t, value)]
        /\ answered' = [answered EXCEPT ![v] = answered[v] \cup {t}]
        /\ UNCHANGED <<profile, snapshot, waiting>>
    BY <1>7 DEF AnswerByHuman
  <2>2. Edited(facts[v], Declare(facts[v], t, value))
    BY <1>1, DeclareEdits
  <2>3. answered' \in [Versions -> SUBSET Types]
    BY <1>1, <2>1 DEF TypeOK
  <2> QED
    BY <1>1, <2>1, <2>2, <2>3, FactsKeep DEF TypeOK
<1> QED
  BY <1>2, <1>3, <1>4, <1>5, <1>6, <1>7

(* The person confirms a draft that is not older than the active version.  *)
LEMMA ConfirmKeeps ==
  ASSUME ProfileInv, NEW v \in Versions, ConfirmProfessionalProfile(v)
  PROVE  ProfileInv'
<1> DEFINE from == profile[v].from
           filled == profile[v].filled
           new == facts[v]
<1>1. /\ IsDraft(v) /\ Confirmable(new, filled) /\ Activate(v, from, filled, new)
      /\ UNCHANGED <<facts, answered, waiting>>
  BY DEF ConfirmProfessionalProfile
<1>2. /\ TypeOK /\ from \in 0..MaxVersions /\ filled \in BOOLEAN /\ new \in Seq(Fact) /\ Evident(new)
  BY ProfileRow DEF ProfileInv, TypeOK
<1>3. v \notin Settled
  BY <1>1 DEF Settled, IsDraft
<1>4. PICK k \in 0..MaxVersions : UpTo(k)
  BY DEF ProfileInv, InOrder
<1>5. \A w \in Versions : profile[w].status # "none" \/ w = v <=> w <= k
  BY <1>1, <1>4 DEF UpTo, IsDraft
<1>6. ASSUME NEW w \in Heirs, w # v PROVE w < v
  <2>1. Heir(w) /\ w \in Versions
    BY DEF ProfileInv, Heirs
  <2>2. ~(v < w)
    BY <1>1, <2>1 DEF Heir
  <2> QED
    BY <1>6, <2>1, <2>2, BoundAssumption DEF Versions
<1>7. \A n \in DOMAIN new : ~IsPendingFact(new[n])
  BY <1>1 DEF Confirmable, ToSet
<1>8. facts' = [facts EXCEPT ![v] = new]
  BY <1>1, <1>2 DEF TypeOK
<1> HIDE DEF from, filled, new
<1> QED
  BY <1>1, <1>2, <1>3, <1>5, <1>6, <1>7, <1>8, ActivateKeeps

\* The version a claim confirmed on a resume is added to: the active one, or none.
Base == IF Actives = {} THEN 0 ELSE CHOOSE a \in Actives : \A b \in Actives : a >= b

(* There is one when there is an active version.                           *)
LEMMA BaseIsActive ==
  ASSUME ProfileInv
  PROVE  Base \in 0..MaxVersions /\ (Base = 0 \/ Base \in Actives) /\ \A a \in Actives : a = Base
<1>1. Actives \subseteq 1..MaxVersions /\ MaxVersions \in Nat
  BY BoundAssumption DEF Actives, Versions
<1>2. CASE Actives = {}
  BY <1>1, <1>2 DEF Base
<1>3. CASE Actives # {}
  <2>1. PICK a \in Actives : TRUE
    BY <1>3
  <2>2. \A b \in Actives : b = a
    BY <2>1 DEF ProfileInv, OneActive
  <2>3. a \in Actives /\ a \in 0..MaxVersions /\ \A b \in Actives : a >= b
    BY <1>1, <2>1, <2>2
  <2>4. Base \in Actives
    BY <1>3, <2>3 DEF Base
  <2> QED
    BY <2>2, <2>3, <2>4
<1> QED
  BY <1>2, <1>3

(* A claim confirmed on a resume makes a version of its own.               *)
LEMMA WithFactKeeps ==
  ASSUME ProfileInv, NEW t \in Types, NEW value \in Claims, CreateProfileVersionWithFact(t, value)
  PROVE  /\ ProfileInv'
         /\ profile'[NextProfileVersion].from = Base
         /\ Base # 0 => Holds(facts'[NextProfileVersion], facts[Base])
         /\ \A w \in Versions : w # NextProfileVersion /\ profile'[w].status = "confirmed" => w \in Actives
<1> DEFINE v == NextProfileVersion
           filled == Base # 0 /\ profile[Base].filled
           copy == IF Base = 0 THEN <<>> ELSE Copy(Base)
           new == Append(copy, Declared(t, value))
<1>1. /\ v \in Versions /\ Confirmable(new, filled) /\ facts' = [facts EXCEPT ![v] = new]
      /\ Activate(v, Base, filled, new) /\ UNCHANGED <<answered, waiting>>
  BY DEF CreateProfileVersionWithFact, Base
<1>2. v \in Nat /\ v > 0 /\ UpTo(v - 1) /\ MaxVersions \in Nat
  BY NextIsNew, BoundAssumption DEF ProfileInv
<1> HIDE DEF v
<1>3. TypeOK /\ Base \in 0..MaxVersions /\ (Base = 0 \/ Base \in Actives)
  BY BaseIsActive DEF ProfileInv
<1>4. /\ copy \in Seq(Fact) /\ Evident(copy) /\ (Base # 0 => Holds(copy, facts[Base]))
  <2>1. CASE Base = 0
    BY <2>1, NoFact
  <2>2. CASE Base # 0
    <3>1. Base \in Versions /\ Evident(facts[Base])
      BY <1>3, <2>2 DEF Actives, ProfileInv
    <3> QED
      BY <1>3, <2>2, <3>1, CopyHolds
  <2> QED
    BY <2>1, <2>2
<1>5. Declared(t, value) \in Fact /\ FactHasEvidence(Declared(t, value))
  BY ProfileAssumption DEF Declared, Fact, FactHasEvidence
<1> HIDE DEF copy
<1>6. Edited(copy, new)
  BY <1>4, <1>5, AppendEdits
<1>7. new \in Seq(Fact) /\ Evident(new)
  BY <1>4, <1>6 DEF Edited
<1>8. Base # 0 => Holds(new, facts[Base])
  <2>1. CASE Base # 0
    <3>1. facts[Base] \in Seq(Fact)
      BY <1>3, <2>1 DEF TypeOK, Actives
    <3> QED
      BY <1>4, <1>6, <2>1, <3>1, EditHolds
  <2> QED
    BY <2>1
<1> HIDE DEF new
<1>9. filled \in BOOLEAN
  BY <1>3, ProfileRow DEF TypeOK, Actives
<1>10. profile[v].status = "none" /\ v \notin Settled
  BY <1>1, <1>2 DEF UpTo, Settled
<1>11. v \in 0..MaxVersions /\ \A w \in Versions : profile[w].status # "none" \/ w = v <=> w <= v
  BY <1>1, <1>2 DEF UpTo, Versions
<1>12. \A w \in Heirs : w # v => w < v
  BY <1>2 DEF UpTo, Heirs, IsDraft, Versions
<1>13. \A n \in DOMAIN new : ~IsPendingFact(new[n])
  BY <1>1 DEF Confirmable, ToSet
<1> HIDE DEF filled
<1>14. ProfileInv'
  BY <1>1, <1>3, <1>7, <1>9, <1>10, <1>11, <1>12, <1>13, ActivateKeeps
<1>15. profile'[v].from = Base /\ facts'[v] = new
  BY <1>1, <1>3 DEF Activate, TypeOK
<1>16. ASSUME NEW w \in Versions, w # v, profile'[w].status = "confirmed" PROVE w \in Actives
  <2>1. CASE w \notin Actives
    <3>1. profile'[w] = profile[w]
      BY <1>1, <1>16, <2>1 DEF Activate
    <3> QED
      BY <1>16, <3>1 DEF Actives
  <2> QED
    BY <2>1
<1> QED
  BY <1>8, <1>14, <1>15, <1>16 DEF v

-----------------------------------------------------------------------------
(* The specification *)

(* There is no version yet.                                                *)
LEMMA InitHolds ==
  ASSUME Init
  PROVE  ProfileInv
<1>1. MaxVersions \in Nat
  BY BoundAssumption
<1>2. TypeOK
  <2>1. [status |-> "none", from |-> 0, filled |-> FALSE] \in Profile
    BY <1>1 DEF Profile
  <2> QED
    BY <2>1, NoFact DEF Init, TypeOK
<1>3. UpTo(0) /\ 0 \in 0..MaxVersions
  BY <1>1 DEF Init, UpTo, Versions
<1>4. Actives = {} /\ Settled = {} /\ Heirs = {}
  BY DEF Init, Actives, Settled, Heirs, IsDraft
<1>5. \A v \in Versions : Evident(facts[v])
  BY NoFact DEF Init
<1> QED
  BY <1>2, <1>3, <1>4, <1>5 DEF ProfileInv, InOrder, OneActive

(* Every step keeps the invariant.                                         *)
LEMMA NextKeeps ==
  ASSUME ProfileInv, [Next]_vars
  PROVE  ProfileInv'
<1>1. CASE ImportJsonResumeProfile \/ ProposeBaseResumeFacts \/ CreateProfileFromBaseResume
  BY <1>1, ImportKeeps, PdfKeeps
<1>2. CASE \E by \in Actor : CreateProfessionalProfile(by)
  BY <1>2, CreateProfessionalProfileKeeps
<1>3. CASE \E by \in Actor, v \in Versions : UpdateProfessionalProfile(by, v) \/ AddProfileFact(by, v)
  BY <1>3, EditStepsKeep
<1>4. CASE \E v \in Versions : CreateProfileNewVersion(v)
  BY <1>4, NewVersionKeeps
<1>5. CASE \E v \in Versions :
        \/ ReviewAllProfileFacts(v)
        \/ \E n \in 1..MaxFacts, state \in Reviews : ReviewProfileFact(v, n, state)
        \/ \E t \in Types, value \in Values : AnswerByMachine(v, t, value) \/ AnswerByHuman(v, t, value)
  BY <1>5, EditStepsKeep
<1>6. CASE \E v \in Versions : DeleteDraftProfile(v)
  BY <1>6, DeleteKeeps
<1>7. CASE \E v \in Versions : ConfirmProfessionalProfile(v)
  BY <1>7, ConfirmKeeps
<1>8. CASE \E t \in Types, value \in Claims : CreateProfileVersionWithFact(t, value)
  BY <1>8, WithFactKeeps
<1>9. CASE UNCHANGED vars
  BY <1>9, SameVersions DEF vars, versionVars, ProfileInv, TypeOK
<1> QED
  BY <1>1, <1>2, <1>3, <1>4, <1>5, <1>6, <1>7, <1>8, <1>9 DEF Next

(* The invariant of the versions holds in every state.                     *)
THEOREM ProfilesInvariant == Spec => []ProfileInv
<1>1. Init => ProfileInv
  BY InitHolds
<1>2. ProfileInv /\ [Next]_vars => ProfileInv'
  BY NextKeeps
<1> QED
  BY <1>1, <1>2, PTL DEF Spec

(***************************************************************************)
(* What a confirmed version says stays what was confirmed, and one version *)
(* is in use at most: for any number of versions, facts and extractions.   *)
(***************************************************************************)
THEOREM SnapshotsHold == Spec => []SnapshotHolds
<1>1. ASSUME ProfileInv PROVE SnapshotHolds
  <2>1. ASSUME NEW v \in Versions, profile[v].status \in {"confirmed", "retired"}
        PROVE  /\ snapshot[v] = ConfirmedFacts(facts[v])
               /\ \A f \in ToSet(facts[v]) : ~IsPendingFact(f)
               /\ \A f \in snapshot[v] : FactHasEvidence(f)
    <3>1. Frozen(v) /\ Evident(facts[v])
      BY <1>1, <2>1 DEF ProfileInv, Settled
    <3> QED
      BY <3>1 DEF Frozen, Evident, ConfirmedFacts, ToSet
  <2>2. Cardinality(Actives) <= 1
    <3>1. CASE Actives = {}
      BY <3>1, FS_EmptySet
    <3>2. CASE Actives # {}
      <4>1. PICK a \in Actives : TRUE
        BY <3>2
      <4>2. Actives = {a}
        BY <1>1, <4>1 DEF ProfileInv, OneActive
      <4> QED
        BY <4>2, FS_Singleton
    <3> QED
      BY <3>1, <3>2
  <2> QED
    BY <2>1, <2>2 DEF SnapshotHolds
<1> QED
  BY <1>1, ProfilesInvariant, PTL

(* A place that holds a fact says it still.                                *)
LEMMA HeldIsCarried ==
  ASSUME NEW v \in Versions, NEW a \in Versions, Holds(facts'[v], facts[a])
  PROVE  Carries(v, a)
BY DEF Holds, Follows, Carries

(***************************************************************************)
(* A version opened from another never takes the place of the active one   *)
(* without what the active one says, whatever was confirmed meanwhile.     *)
(***************************************************************************)
THEOREM ConfirmedFactsCarry == Spec => NothingConfirmedIsLost
<1> DEFINE A == \A v, a \in Versions :
       a \in Actives /\ v \notin Actives
         /\ profile'[v].status = "confirmed" /\ profile'[v].from # 0
       => Carries(v, a)
<1>1. ASSUME ProfileInv, [Next]_vars PROVE A
  <2> SUFFICES ASSUME NEW v \in Versions, NEW a \in Versions, a \in Actives, v \notin Actives,
                      profile'[v].status = "confirmed", profile'[v].from # 0
               PROVE  Carries(v, a)
    OBVIOUS
  <2>1. profile \in [Versions -> Profile] /\ profile[v].status # "confirmed"
    BY <1>1 DEF ProfileInv, TypeOK, Actives
  <2>2. ASSUME NEW w \in Versions, ConfirmProfessionalProfile(w) PROVE Carries(v, a)
    <3>1. /\ IsDraft(w) /\ ~IsStale(w) /\ facts' = facts
          /\ Activate(w, profile[w].from, profile[w].filled, facts[w])
      BY <2>2 DEF ConfirmProfessionalProfile
    <3>2. v = w
      BY <2>1, <3>1 DEF Activate, Actives
    <3>3. profile'[v].from = profile[v].from
      BY <3>1, <3>2 DEF Activate
    <3>4. Heir(v)
      BY <1>1, <3>1, <3>2, <3>3 DEF ProfileInv, Heirs
    <3>5. a = profile[v].from
      BY <3>1, <3>2, <3>4 DEF Heir, IsStale
    <3> QED
      BY <3>1, <3>4, <3>5, HeldIsCarried DEF Heir
  <2>3. ASSUME NEW t \in Types, NEW value \in Claims, CreateProfileVersionWithFact(t, value)
        PROVE  Carries(v, a)
    <3>1. v = NextProfileVersion
      BY <1>1, <2>3, WithFactKeeps
    <3>2. Base # 0 /\ a = Base
      BY <1>1, <2>3, <3>1, WithFactKeeps, BaseIsActive
    <3>3. Holds(facts'[v], facts[a])
      BY <1>1, <2>3, <3>1, <3>2, WithFactKeeps
    <3> QED
      BY <3>3, HeldIsCarried
  <2>4. ASSUME NEW n, NEW from, NEW filled, NEW new, Insert(n, from, filled, new) PROVE FALSE
    BY <2>1, <2>4 DEF Insert
  <2>5. ASSUME NEW w \in Versions, DeleteDraftProfile(w) PROVE FALSE
    BY <2>1, <2>5 DEF DeleteDraftProfile
  <2>6. ASSUME NEW w \in Versions, NEW filled, profile' = [profile EXCEPT ![w].filled = filled]
        PROVE  FALSE
    <3>1. profile[w] \in Profile /\ profile'[v].status = profile[v].status
      BY <2>1, <2>6 DEF Profile
    <3> QED
      BY <2>1, <3>1
  <2>7. ASSUME profile' = profile PROVE FALSE
    BY <2>1, <2>7
  <2>8. CASE ImportJsonResumeProfile \/ ProposeBaseResumeFacts \/ CreateProfileFromBaseResume
    BY <2>4, <2>7, <2>8 DEF ImportJsonResumeProfile, ProposeBaseResumeFacts, CreateProfileFromBaseResume
  <2>9. CASE \E by \in Actor :
          \/ CreateProfessionalProfile(by)
          \/ \E w \in Versions : UpdateProfessionalProfile(by, w) \/ AddProfileFact(by, w)
    BY <2>4, <2>6, <2>7, <2>9 DEF CreateProfessionalProfile, UpdateProfessionalProfile, AddProfileFact
  <2>10. CASE \E w \in Versions :
           \/ CreateProfileNewVersion(w) \/ ReviewAllProfileFacts(w) \/ DeleteDraftProfile(w)
           \/ \E n \in 1..MaxFacts, state \in Reviews : ReviewProfileFact(w, n, state)
           \/ \E t \in Types, value \in Values : AnswerByMachine(w, t, value) \/ AnswerByHuman(w, t, value)
    BY <2>4, <2>5, <2>7, <2>10 DEF CreateProfileNewVersion, ReviewAllProfileFacts, ReviewProfileFact,
         AnswerByMachine, AnswerByHuman
  <2>11. CASE UNCHANGED vars
    BY <2>7, <2>11 DEF vars
  <2> QED
    BY <1>1, <2>2, <2>3, <2>8, <2>9, <2>10, <2>11 DEF Next
<1>2. ProfileInv /\ [Next]_vars => [A]_vars
  BY <1>1
<1> QED
  BY <1>2, ProfilesInvariant, PTL DEF Spec, NothingConfirmedIsLost
=============================================================================
