--------------------------- MODULE FeedbackProofs ---------------------------
(***************************************************************************)
(* What is hidden, what may be taken back and what was learned, proved for *)
(* any number of vacancies, postings, reasons and rejections.              *)
(*                                                                         *)
(* The invariant of the feedback has three parts.  Of the cards and the    *)
(* rules: a card is hidden by rules in force, and a rule is of a total     *)
(* rejection and ends with it.  Of the notice: it names a rejection that   *)
(* was made, and the decision it was raised for is the one an undo would   *)
(* find.  Of what was learned: the copies of a facet are the interests, or *)
(* the rejections, that have it.                                           *)
(*                                                                         *)
(* The scores have an invariant of their own, for any number of versions   *)
(* of the profile: a row is of a confirmed version, its round's if it has  *)
(* one, and the board shows the last row of the active version.  A row is  *)
(* of six criteria, and its base, band and final score are theirs: that a  *)
(* mean lies between the least and the greatest, and that a sum of numbers *)
(* is a number, are proved here of the community modules' folds.           *)
(***************************************************************************)
EXTENDS MatchScores, FiniteSetTheorems, SequenceTheorems, WellFoundedInduction, NaturalsInduction, TLAPS

\* What a rejection records, what its rule keeps and what a card is.
Details == {r[2] : r \in Reasons}
Values == {FacetValue(c, d) : c \in Contents, d \in Details}
Event == [job : Jobs, mode : Modes, detail : Details, value : Values, undone : BOOLEAN]

Kept == {Rule(r[1], r[2], c) : r \in Reasons, c \in Contents}
RuleRow == [match : Kept, state : {"active", "paused", "undone"}]

Cards == {"absent", "listed", "archived"}
Decisions == {"pending", "interested", "not_interested", "no_time"}
Card == [card : Cards, content : Contents \cup {NoContent}, decision : Decisions, hidden : BOOLEAN,
         hiddenBy : SUBSET Nat, reshown : BOOLEAN, discarded : BOOLEAN, stage : Stages]

\* A card that was found has a posting; before, nobody decided about it.
Found(c) ==
  /\ c \in Card
  /\ c.card # "absent" => c.content \in Contents
  /\ c.card = "absent" => c.decision = "pending"

\* A card is hidden by rules in force, and not once it was shown again.
Justified(c, known) ==
  /\ c.hidden <=> c.hiddenBy # {}
  /\ c.hiddenBy \subseteq ActiveRules(known)
  /\ c.reshown => ~c.hidden

Sound(c, known) == Found(c) /\ Justified(c, known)

CardsInv == job \in [Jobs -> Card] /\ \A j \in Jobs : Sound(job[j], rules)

\* A rule is of a total rejection, and undone when that is.
RulesInv ==
  /\ feedback \in Seq(Event)
  /\ rules \in [DOMAIN rules -> RuleRow]
  /\ DOMAIN rules \subseteq DOMAIN feedback
  /\ \A i \in DOMAIN rules :
       feedback[i].mode = "total" /\ (rules[i].state = "undone" <=> feedback[i].undone)

Notice == [job : Jobs, decision : {"no_time", "not_interested", "partial", "archived"}, id : Nat]

OfferInv ==
  offer # NoOffer => /\ offer \in Notice
                     /\ offer.decision = "partial" => offer.id \in DOMAIN feedback

FeedbackInv == CardsInv /\ RulesInv /\ OfferInv

-----------------------------------------------------------------------------
(* Cards *)

(* A rule in force is a rejection's, by its number. *)
LEMMA RuleNumbers ==
  ASSUME RulesInv
  PROVE  DOMAIN rules \subseteq Nat /\ DOMAIN feedback = 1..Len(feedback) /\ Len(feedback) \in Nat
<1>1. DOMAIN feedback = 1..Len(feedback) /\ Len(feedback) \in Nat
  BY LenProperties DEF RulesInv
<1>2. 1..Len(feedback) \subseteq Nat
  BY <1>1, SMT
<1> QED
  BY <1>1, <1>2, Zenon DEF RulesInv

(* The rules that match a posting are in force. *)
LEMMA MatchedAreActive ==
  ASSUME NEW known, NEW c
  PROVE  ActiveSuppression(known, c) \subseteq ActiveRules(known)
BY Zenon DEF ActiveSuppression

(* Writing a sound card keeps the cards, when no rule in force ends. *)
LEMMA OneCard ==
  ASSUME CardsInv, NEW j \in Jobs, NEW c, Sound(c, rules'),
         job' = [job EXCEPT ![j] = c], ActiveRules(rules) \subseteq ActiveRules(rules')
  PROVE  CardsInv'
<1>1. c \in Card
  BY Zenon DEF Sound, Found
<1>2. job' \in [Jobs -> Card]
  BY <1>1, Zenon DEF CardsInv
<1>3. ASSUME NEW k \in Jobs PROVE Sound(job'[k], rules')
  <2>1. CASE k = j
    BY <2>1, Zenon DEF CardsInv
  <2>2. CASE k # j
    <3>1. job'[k] = job[k]
      BY <2>2, Zenon DEF CardsInv
    <3>2. Sound(job[k], rules)
      BY Zenon DEF CardsInv
    <3> QED
      BY <3>1, <3>2, Zenon DEF Sound, Justified
  <2> QED
    BY <2>1, <2>2
<1> QED
  BY <1>2, <1>3, Zenon DEF CardsInv

(* A card whose decision, place or content is written stays sound. *)
LEMMA Rewritten ==
  ASSUME NEW known, NEW c, Sound(c, known), NEW d, Found(d),
         d.hidden = c.hidden, d.hiddenBy = c.hiddenBy, d.reshown = c.reshown
  PROVE  Sound(d, known)
BY Zenon DEF Sound, Justified

(* applySuppression leaves a sound card, and no other decision. *)
LEMMA ApplySound ==
  ASSUME RulesInv, NEW c, Sound(c, rules)
  PROVE  /\ Sound(ApplySuppression(c), rules)
         /\ ApplySuppression(c).card = c.card /\ ApplySuppression(c).decision = c.decision
<1> DEFINE previous == IF c.hidden THEN c.hiddenBy ELSE {}
           added == ActiveSuppression(rules, c.content) \ previous
           d == [c EXCEPT !.hidden = TRUE, !.hiddenBy = previous \cup added]
<1>1. c \in Card
  BY Zenon DEF Sound, Found
<1>2. CASE c.reshown \/ c.decision # "pending" \/ added = {}
  BY <1>2, Zenon DEF ApplySuppression
<1>3. CASE ~(c.reshown \/ c.decision # "pending" \/ added = {})
  <2>1. ApplySuppression(c) = d
    BY <1>3, Zenon DEF ApplySuppression
  <2>2. previous \subseteq ActiveRules(rules) /\ added \subseteq ActiveRules(rules)
    BY MatchedAreActive, Zenon DEF Sound, Justified
  <2>3. ActiveRules(rules) \subseteq Nat
    BY RuleNumbers, Zenon DEF ActiveRules
  <2>4. d \in Card
    <3>1. previous \cup added \in SUBSET Nat
      BY <2>2, <2>3, Zenon
    <3> HIDE DEF previous, added
    <3> QED
      BY <1>1, <3>1, Zenon DEF Card
  <2>5. /\ d.card = c.card /\ d.decision = c.decision /\ d.content = c.content
        /\ d.hidden = TRUE /\ d.hiddenBy = previous \cup added /\ d.reshown = c.reshown
    BY <1>1, Zenon DEF Card
  <2>6. previous \cup added # {} /\ ~c.reshown
    BY <1>3, Zenon
  <2> HIDE DEF d, previous, added
  <2>7. Found(d)
    BY <2>4, <2>5, Zenon DEF Sound, Found
  <2>8. Justified(d, rules)
    BY <2>2, <2>5, <2>6, Zenon DEF Justified
  <2> QED
    BY <2>1, <2>5, <2>7, <2>8, Zenon DEF Sound
<1> QED
  BY <1>2, <1>3, Zenon

(* refreshSuppression leaves the cards sound, for the rules that remain. *)
LEMMA RefreshSound ==
  ASSUME CardsInv, NEW known, DOMAIN known \subseteq Nat
  PROVE  /\ RefreshSuppression(known) \in [Jobs -> Card]
         /\ \A j \in Jobs : /\ Sound(RefreshSuppression(known)[j], known)
                            /\ RefreshSuppression(known)[j].card = job[j].card
                            /\ RefreshSuppression(known)[j].decision = job[j].decision
<1>1. ASSUME NEW j \in Jobs
      PROVE  /\ Sound(RefreshSuppression(known)[j], known)
             /\ RefreshSuppression(known)[j].card = job[j].card
             /\ RefreshSuppression(known)[j].decision = job[j].decision
  <2> DEFINE matched == ActiveSuppression(known, job[j].content)
             d == [job[j] EXCEPT !.hidden = matched # {}, !.hiddenBy = matched]
  <2>1. Sound(job[j], rules) /\ job[j] \in Card
    BY Zenon DEF CardsInv
  <2>2. CASE ~job[j].hidden
    <3>1. RefreshSuppression(known)[j] = job[j]
      BY <2>2, Zenon DEF RefreshSuppression
    <3>2. job[j].hiddenBy = {}
      BY <2>1, <2>2, Zenon DEF Sound, Justified
    <3> QED
      BY <2>1, <2>2, <3>1, <3>2, Zenon DEF Sound, Justified
  <2>3. CASE job[j].hidden
    <3>1. RefreshSuppression(known)[j] = d
      BY <2>3, Zenon DEF RefreshSuppression
    <3>2. matched \subseteq ActiveRules(known)
      BY MatchedAreActive, Zenon
    <3>3. matched \in SUBSET Nat
      BY <3>2, Zenon DEF ActiveRules
    <3> HIDE DEF matched
    <3>4. (matched # {}) \in BOOLEAN
      OBVIOUS
    <3>5. d \in Card
      BY <2>1, <3>3, <3>4, Zenon DEF Card
    <3>6. /\ d.card = job[j].card /\ d.decision = job[j].decision /\ d.content = job[j].content
          /\ d.hidden = (matched # {}) /\ d.hiddenBy = matched /\ d.reshown = job[j].reshown
      BY <2>1, Zenon DEF Card
    <3>7. ~job[j].reshown
      BY <2>1, <2>3, Zenon DEF Sound, Justified
    <3> HIDE DEF d
    <3>8. Found(d)
      BY <2>1, <3>5, <3>6, Zenon DEF Sound, Found
    <3>9. Justified(d, known)
      BY <3>2, <3>6, <3>7, Zenon DEF Justified
    <3> QED
      BY <3>1, <3>6, <3>8, <3>9, Zenon DEF Sound
  <2> QED
    BY <2>2, <2>3
<1>2. RefreshSuppression(known) \in [Jobs -> Card]
  <2>1. \A j \in Jobs : RefreshSuppression(known)[j] \in Card
    BY <1>1, Zenon DEF Sound, Found
  <2> QED
    BY <2>1, Zenon DEF RefreshSuppression
<1> QED
  BY <1>1, <1>2
(* Writing one sound card, and no rule or rejection. *)
LEMMA CardOnly ==
  ASSUME CardsInv, RulesInv, NEW j \in Jobs, NEW c, Sound(c, rules),
         job' = [job EXCEPT ![j] = c], UNCHANGED <<feedback, rules>>
  PROVE  CardsInv' /\ RulesInv'
<1>1. Sound(c, rules') /\ ActiveRules(rules) \subseteq ActiveRules(rules')
  BY Zenon
<1>2. CardsInv'
  BY <1>1, OneCard
<1>3. RulesInv'
  BY Zenon DEF RulesInv
<1> QED
  BY <1>2, <1>3

(* A card that was found keeps what hides it, whatever else is written. *)
LEMMA Marked ==
  ASSUME CardsInv, RulesInv, NEW j \in Jobs, NEW c \in Card, job' = [job EXCEPT ![j] = c],
         UNCHANGED <<feedback, rules>>,
         c.card # "absent", c.content \in Contents,
         c.hidden = job[j].hidden, c.hiddenBy = job[j].hiddenBy, c.reshown = job[j].reshown
  PROVE  CardsInv' /\ RulesInv'
<1>1. Found(c)
  BY Zenon DEF Found
<1>2. Sound(c, rules)
  BY <1>1, Rewritten, Zenon DEF CardsInv
<1> QED
  BY <1>2, CardOnly

(* A card that was found has a posting. *)
LEMMA FoundCard ==
  ASSUME CardsInv, NEW j \in Jobs, job[j].card # "absent"
  PROVE  job[j] \in Card /\ job[j].content \in Contents
BY Zenon DEF CardsInv, Sound, Found

(* upsertJob, for a posting that is new. *)
LEMMA DiscoverKept ==
  ASSUME CardsInv, RulesInv, NEW j \in Jobs, NEW c \in Contents, Discover(j, c)
  PROVE  CardsInv' /\ RulesInv'
<1> DEFINE n == [Absent EXCEPT !.card = "listed", !.content = c]
<1>1. Absent \in Card
  BY StageAssumption, Zenon DEF Absent, Card, Cards, Decisions
<1>2. Absent.hidden = FALSE /\ Absent.hiddenBy = {} /\ Absent.reshown = FALSE
  BY Zenon DEF Absent
<1>3. /\ n \in Card /\ n.card = "listed" /\ n.content = c
      /\ n.hidden = FALSE /\ n.hiddenBy = {} /\ n.reshown = FALSE
  <2>1. "listed" \in Cards
    BY DEF Cards
  <2> QED
    BY <1>1, <1>2, <2>1, Zenon DEF Card
<1>4. job' = [job EXCEPT ![j] = ApplySuppression(n)] /\ UNCHANGED <<feedback, rules>>
  BY Zenon DEF Discover
<1> HIDE DEF n
<1>5. Sound(n, rules)
  BY <1>3, Zenon DEF Sound, Found, Justified
<1>6. Sound(ApplySuppression(n), rules)
  BY <1>5, ApplySound
<1> QED
  BY <1>4, <1>6, CardOnly

(* upsertJob, for one that is seen again. *)
LEMMA SightingKept ==
  ASSUME CardsInv, RulesInv, NEW j \in Jobs, Sighting(j)
  PROVE  CardsInv' /\ RulesInv'
<1>1. Sound(job[j], rules)
  BY Zenon DEF CardsInv
<1>2. Sound(ApplySuppression(job[j]), rules)
  BY <1>1, ApplySound
<1>3. job' = [job EXCEPT ![j] = ApplySuppression(job[j])] /\ UNCHANGED <<feedback, rules>>
  BY Zenon DEF Sighting
<1> QED
  BY <1>2, <1>3, CardOnly

(* updateJob *)
LEMMA EditKept ==
  ASSUME CardsInv, RulesInv, NEW j \in Jobs, NEW c \in Contents, Edit(j, c)
  PROVE  CardsInv' /\ RulesInv'
<1> DEFINE n == [job[j] EXCEPT !.content = c]
<1>1. job' = [job EXCEPT ![j] = n] /\ UNCHANGED <<feedback, rules>> /\ job[j].card = "listed"
  BY Zenon DEF Edit
<1>2. job[j] \in Card
  BY <1>1, FoundCard, Zenon
<1>3. n \in Card /\ n.card = "listed" /\ n.content = c /\ n.hidden = job[j].hidden
      /\ n.hiddenBy = job[j].hiddenBy /\ n.reshown = job[j].reshown
  BY <1>1, <1>2, Zenon DEF Card
<1> HIDE DEF n
<1> QED
  BY <1>1, <1>3, Marked, Zenon

(* A resume or an application goes on. *)
LEMMA ProgressKept ==
  ASSUME CardsInv, RulesInv, NEW j \in Jobs, NEW s \in Stages, Progress(j, s)
  PROVE  CardsInv' /\ RulesInv'
<1> DEFINE n == [job[j] EXCEPT !.stage = s]
<1>1. job' = [job EXCEPT ![j] = n] /\ UNCHANGED <<feedback, rules>> /\ job[j].card = "listed"
  BY Zenon DEF Progress
<1>2. job[j] \in Card /\ job[j].content \in Contents
  BY <1>1, FoundCard, Zenon
<1>3. n \in Card /\ n.card = "listed" /\ n.content = job[j].content /\ n.hidden = job[j].hidden
      /\ n.hiddenBy = job[j].hiddenBy /\ n.reshown = job[j].reshown
  BY <1>1, <1>2, Zenon DEF Card
<1> HIDE DEF n
<1> QED
  BY <1>1, <1>2, <1>3, Marked, Zenon

(* The reopen command. *)
LEMMA ReopenKept ==
  ASSUME CardsInv, RulesInv, NEW j \in Jobs, Reopen(j)
  PROVE  CardsInv' /\ RulesInv'
<1> DEFINE n == [job[j] EXCEPT !.discarded = FALSE]
<1>1. job' = [job EXCEPT ![j] = n] /\ UNCHANGED <<feedback, rules>> /\ job[j].card = "listed"
  BY Zenon DEF Reopen
<1>2. job[j] \in Card /\ job[j].content \in Contents
  BY <1>1, FoundCard, Zenon
<1>3. n \in Card /\ n.card = "listed" /\ n.content = job[j].content /\ n.hidden = job[j].hidden
      /\ n.hiddenBy = job[j].hiddenBy /\ n.reshown = job[j].reshown
  BY <1>1, <1>2, Zenon DEF Card
<1> HIDE DEF n
<1> QED
  BY <1>1, <1>2, <1>3, Marked, Zenon

(* A decision is written. *)
LEMMA DecisionKept ==
  ASSUME CardsInv, RulesInv, NEW j \in Jobs, NEW d \in Decisions, job[j].card = "listed",
         job' = [job EXCEPT ![j].decision = d], UNCHANGED <<feedback, rules>>
  PROVE  CardsInv' /\ RulesInv'
<1> DEFINE n == [job[j] EXCEPT !.decision = d]
<1>1. job' = [job EXCEPT ![j] = n]
  BY Zenon
<1>2. job[j] \in Card /\ job[j].content \in Contents
  BY FoundCard, Zenon
<1>3. n \in Card /\ n.card = "listed" /\ n.content = job[j].content /\ n.hidden = job[j].hidden
      /\ n.hiddenBy = job[j].hiddenBy /\ n.reshown = job[j].reshown
  BY <1>2, Zenon DEF Card
<1> HIDE DEF n
<1> QED
  BY <1>1, <1>2, <1>3, Marked, Zenon

(* The card is archived, or comes back. *)
LEMMA PlaceKept ==
  ASSUME CardsInv, RulesInv, NEW j \in Jobs, NEW p \in {"listed", "archived"}, job[j].card # "absent",
         job' = [job EXCEPT ![j].card = p], UNCHANGED <<feedback, rules>>
  PROVE  CardsInv' /\ RulesInv'
<1> DEFINE n == [job[j] EXCEPT !.card = p]
<1>1. job' = [job EXCEPT ![j] = n]
  BY Zenon
<1>2. job[j] \in Card /\ job[j].content \in Contents
  BY FoundCard, Zenon
<1>3. p \in Cards /\ p # "absent"
  BY Zenon DEF Cards
<1>4. n \in Card /\ n.card = p /\ n.content = job[j].content /\ n.hidden = job[j].hidden
      /\ n.hiddenBy = job[j].hiddenBy /\ n.reshown = job[j].reshown
  BY <1>2, <1>3, Zenon DEF Card
<1> HIDE DEF n
<1> QED
  BY <1>1, <1>2, <1>3, <1>4, Marked, Zenon

(* unsuppressJob *)
LEMMA UnsuppressKept ==
  ASSUME CardsInv, RulesInv, NEW j \in Jobs, UnsuppressJob(j)
  PROVE  CardsInv' /\ RulesInv'
<1> DEFINE n == [job[j] EXCEPT !.hidden = FALSE, !.hiddenBy = {}, !.reshown = TRUE]
<1>1. job' = [job EXCEPT ![j] = n] /\ UNCHANGED <<feedback, rules>>
  BY Zenon DEF UnsuppressJob
<1>2. Found(job[j]) /\ job[j] \in Card
  BY Zenon DEF CardsInv, Sound, Found
<1>3. n \in Card /\ n.card = job[j].card /\ n.content = job[j].content /\ n.decision = job[j].decision
      /\ n.hidden = FALSE /\ n.hiddenBy = {} /\ n.reshown = TRUE
  BY <1>2, Zenon DEF Card
<1> HIDE DEF n
<1>4. Sound(n, rules)
  BY <1>2, <1>3, Zenon DEF Sound, Found, Justified
<1> QED
  BY <1>1, <1>4, CardOnly
-----------------------------------------------------------------------------
(* Rejections and rules *)

(* A rejection is a row of the type. *)
LEMMA RecordedEvent ==
  ASSUME CardsInv, NEW j \in Jobs, job[j].card = "listed", NEW m \in Modes, NEW r \in Reasons
  PROVE  [job |-> j, mode |-> m, detail |-> r[2],
          value |-> FacetValue(job[j].content, r[2]), undone |-> FALSE] \in Event
<1>1. job[j].content \in Contents
  BY FoundCard, Zenon
<1>2. r[2] \in Details
  BY SMT DEF Details
<1>3. FacetValue(job[j].content, r[2]) \in Values
  BY <1>1, <1>2, SMT DEF Values
<1> QED
  BY <1>2, <1>3, SMT DEF Event

(* recordJobFeedback: a total rejection makes a rule and writes the card. *)
LEMMA RecordKept ==
  ASSUME CardsInv, RulesInv, NEW j \in Jobs, NEW m \in Modes, NEW r \in Reasons,
         RecordJobFeedback(j, m, r[1], r[2])
  PROVE  /\ CardsInv' /\ RulesInv' /\ Len(feedback) + 1 \in DOMAIN feedback'
         /\ DOMAIN feedback \subseteq DOMAIN feedback'
<1> DEFINE id == Len(feedback) + 1
           e == [job |-> j, mode |-> m, detail |-> r[2],
                 value |-> FacetValue(job[j].content, r[2]), undone |-> FALSE]
           row == [match |-> Rule(r[1], r[2], job[j].content), state |-> "active"]
           n == [job[j] EXCEPT !.decision = "not_interested", !.discarded = TRUE]
<1>1. job[j].card = "listed" /\ feedback' = Append(feedback, e)
  BY Zenon DEF RecordJobFeedback, Open
<1>2. job[j] \in Card /\ job[j].content \in Contents
  BY <1>1, FoundCard, Zenon
<1>3. e \in Event /\ e.mode = m /\ e.undone = FALSE
  BY <1>1, RecordedEvent, Zenon
<1>4. row \in RuleRow /\ row.state = "active"
  <2>1. Rule(r[1], r[2], job[j].content) \in Kept
    BY <1>2, SMT DEF Kept
  <2> QED
    BY <2>1, SMT DEF RuleRow
<1>5. feedback \in Seq(Event) /\ Len(feedback) \in Nat /\ DOMAIN feedback = 1..Len(feedback)
  BY RuleNumbers, Zenon DEF RulesInv
<1> HIDE DEF e, row
<1>6. /\ feedback' \in Seq(Event) /\ DOMAIN feedback' = 1..id /\ feedback'[id] = e
      /\ \A i \in DOMAIN feedback : i # id /\ feedback'[i] = feedback[i]
  BY <1>1, <1>3, <1>5, SMT
<1>7. id \in DOMAIN feedback' /\ DOMAIN feedback \subseteq DOMAIN feedback'
  BY <1>5, <1>6, SMT
<1> HIDE DEF id
<1>8. CASE m = "total"
  <2>1. /\ rules' = [i \in DOMAIN rules \cup {id} |-> IF i = id THEN row ELSE rules[i]]
        /\ job' = [job EXCEPT ![j].decision = "not_interested", ![j].discarded = TRUE]
    BY <1>8, Zenon DEF RecordJobFeedback, id, row
  <2>2. DOMAIN rules' = DOMAIN rules \cup {id} /\ id \notin DOMAIN rules
    BY <1>6, <2>1, Zenon DEF RulesInv
  <2>3. rules'[id] = row /\ \A i \in DOMAIN rules : rules'[i] = rules[i]
    BY <2>1, <2>2, Zenon
  <2>4. RulesInv'
    <3>1. rules' \in [DOMAIN rules' -> RuleRow]
      BY <1>4, <2>1, <2>2, <2>3, Zenon DEF RulesInv
    <3>2. DOMAIN rules' \subseteq DOMAIN feedback'
      BY <1>7, <2>2, Zenon DEF RulesInv
    <3>3. ASSUME NEW i \in DOMAIN rules'
          PROVE  feedback'[i].mode = "total" /\ (rules'[i].state = "undone" <=> feedback'[i].undone)
      <4>1. CASE i = id
        BY <1>3, <1>4, <1>6, <1>8, <2>3, <4>1, Zenon
      <4>2. CASE i # id
        <5>1. i \in DOMAIN rules /\ i \in DOMAIN feedback
          BY <2>2, <4>2, Zenon DEF RulesInv
        <5> QED
          BY <1>6, <2>3, <5>1, Zenon DEF RulesInv
      <4> QED
        BY <4>1, <4>2
    <3> QED
      BY <1>6, <3>1, <3>2, <3>3, Zenon DEF RulesInv
  <2>5. ActiveRules(rules) \subseteq ActiveRules(rules')
    BY <2>2, <2>3, Zenon DEF ActiveRules
  <2>6. job' = [job EXCEPT ![j] = n]
    BY <2>1, Zenon DEF CardsInv
  <2>7. /\ n \in Card /\ n.card = "listed" /\ n.content = job[j].content /\ n.hidden = job[j].hidden
        /\ n.hiddenBy = job[j].hiddenBy /\ n.reshown = job[j].reshown
    <3>1. "not_interested" \in Decisions
      BY DEF Decisions
    <3> QED
      BY <1>1, <1>2, <3>1, Zenon DEF Card
  <2> HIDE DEF n
  <2>8. Sound(n, rules')
    <3>1. Sound(job[j], rules)
      BY Zenon DEF CardsInv
    <3>2. Sound(job[j], rules')
      BY <2>5, <3>1, Zenon DEF Sound, Justified
    <3>3. Found(n)
      BY <1>2, <2>7, Zenon DEF Found
    <3> QED
      BY <2>7, <3>2, <3>3, Rewritten
  <2> QED
    BY <1>7, <2>4, <2>5, <2>6, <2>8, OneCard, Zenon DEF id
<1>9. CASE m # "total"
  <2>1. UNCHANGED <<rules, job>>
    BY <1>9, Zenon DEF RecordJobFeedback
  <2>2. RulesInv'
    <3>1. ASSUME NEW i \in DOMAIN rules
          PROVE  i \in DOMAIN feedback /\ feedback'[i] = feedback[i]
      BY <1>6, Zenon DEF RulesInv
    <3> QED
      BY <1>6, <1>7, <2>1, <3>1, Zenon DEF RulesInv
  <2>3. CardsInv'
    BY <2>1, Zenon DEF CardsInv
  <2> QED
    BY <1>7, <2>2, <2>3, Zenon DEF id
<1> QED
  BY <1>8, <1>9

(* undoFeedbackRows: a rule ends with its rejection. *)
LEMMA UndoRowsKept ==
  ASSUME RulesInv, NEW ids, UndoFeedbackRows(ids)
  PROVE  /\ RulesInv' /\ DOMAIN feedback' = DOMAIN feedback /\ DOMAIN rules' = DOMAIN rules
         /\ rules' = WithoutRules(ids)
         /\ \A i \in DOMAIN feedback : feedback'[i] = IF i \in ids THEN [feedback[i] EXCEPT !.undone = TRUE] ELSE feedback[i]
<1>1. feedback' = [i \in DOMAIN feedback |-> IF i \in ids THEN [feedback[i] EXCEPT !.undone = TRUE] ELSE feedback[i]]
  BY Zenon DEF UndoFeedbackRows
<1>2. rules' = WithoutRules(ids) /\ rules' = [i \in DOMAIN rules |-> IF i \in ids THEN [rules[i] EXCEPT !.state = "undone"] ELSE rules[i]]
  BY Zenon DEF UndoFeedbackRows, WithoutRules
<1>3. feedback \in Seq(Event) /\ Len(feedback) \in Nat /\ DOMAIN feedback = 1..Len(feedback)
  BY RuleNumbers, Zenon DEF RulesInv
<1>4. \A i \in DOMAIN feedback : feedback[i] \in Event
  BY <1>3, ElementOfSeq, SMT
<1>5. \A i \in DOMAIN feedback : feedback'[i] \in Event /\ (i \in ids => feedback'[i].undone = TRUE) /\ feedback'[i].mode = feedback[i].mode
  BY <1>1, <1>4, Zenon DEF Event
<1>6. feedback' \in Seq(Event)
  <2>1. feedback' \in [1..Len(feedback) -> Event]
    BY <1>1, <1>3, <1>5, Zenon
  <2> QED
    BY <1>3, <2>1, SeqDef, Zenon
<1>7. \A i \in DOMAIN rules : rules[i] \in RuleRow
  BY Zenon DEF RulesInv
<1>8. ASSUME NEW i \in DOMAIN rules
      PROVE  rules'[i] \in RuleRow /\ (i \in ids => rules'[i].state = "undone")
  <2>1. rules[i] \in RuleRow
    BY <1>7
  <2>2. CASE i \in ids
    <3>1. rules'[i] = [rules[i] EXCEPT !.state = "undone"]
      BY <1>2, <2>2, Zenon
    <3> QED
      BY <2>1, <3>1, Zenon DEF RuleRow
  <2>3. CASE i \notin ids
    BY <1>2, <2>1, <2>3, Zenon
  <2> QED
    BY <2>2, <2>3
<1>9. DOMAIN rules' = DOMAIN rules /\ DOMAIN feedback' = DOMAIN feedback
  BY <1>1, <1>2, Zenon
<1>10. rules' \in [DOMAIN rules' -> RuleRow]
  BY <1>2, <1>8, <1>9, Zenon
<1>11. ASSUME NEW i \in DOMAIN rules
       PROVE  feedback'[i].mode = "total" /\ (rules'[i].state = "undone" <=> feedback'[i].undone)
  <2>1. i \in DOMAIN feedback /\ feedback[i].mode = "total" /\ (rules[i].state = "undone" <=> feedback[i].undone)
    BY Zenon DEF RulesInv
  <2>2. CASE i \in ids
    BY <1>5, <1>8, <2>1, <2>2, Zenon
  <2>3. CASE i \notin ids
    <3>1. feedback'[i] = feedback[i] /\ rules'[i] = rules[i]
      BY <1>1, <1>2, <2>1, <2>3, Zenon
    <3> QED
      BY <2>1, <3>1, Zenon
  <2> QED
    BY <2>2, <2>3
<1>12. RulesInv'
  BY <1>6, <1>9, <1>10, <1>11, Zenon DEF RulesInv
<1> QED
  BY <1>1, <1>2, <1>9, <1>12, Zenon

(* A partial rejection has no rule to end. *)
LEMMA UndoPartialKept ==
  ASSUME CardsInv, RulesInv, NEW j \in Jobs, NEW id \in DOMAIN feedback, UndoPartial(j, id)
  PROVE  CardsInv' /\ RulesInv' /\ DOMAIN feedback' = DOMAIN feedback
<1>1. UndoFeedbackRows({id}) /\ job' = job /\ feedback[id].mode = "partial"
  BY Zenon DEF UndoPartial
<1>2. RulesInv' /\ rules' = WithoutRules({id}) /\ DOMAIN rules' = DOMAIN rules /\ DOMAIN feedback' = DOMAIN feedback
  BY <1>1, UndoRowsKept, Zenon
<1>3. id \notin DOMAIN rules
  <2> SUFFICES ASSUME id \in DOMAIN rules PROVE FALSE
    OBVIOUS
  <2>1. feedback[id].mode = "total"
    BY Zenon DEF RulesInv
  <2> QED
    BY <1>1, <2>1
<1>4. \A i \in DOMAIN rules : rules'[i] = rules[i]
  BY <1>2, <1>3, Zenon DEF WithoutRules
<1>5. ActiveRules(rules') = ActiveRules(rules)
  BY <1>2, <1>4, Zenon DEF ActiveRules
<1>6. CardsInv'
  BY <1>1, <1>5, Zenon DEF CardsInv, Sound, Justified
<1> QED
  BY <1>2, <1>6

(* undoJobDecision, of a rejection: its rule ends and the cards are looked at again. *)
LEMMA UndoRejectionKept ==
  ASSUME CardsInv, RulesInv, NEW j \in Jobs, Open(j), UndoRejection(j)
  PROVE  CardsInv' /\ RulesInv' /\ DOMAIN feedback' = DOMAIN feedback
<1> DEFINE ids == LatestTotal(j)
           left == IF ids = {} THEN job ELSE RefreshSuppression(WithoutRules(ids))
           n == [left[j] EXCEPT !.decision = "pending", !.discarded = FALSE]
<1>1. UndoFeedbackRows(ids) /\ job' = [left EXCEPT ![j].decision = "pending", ![j].discarded = FALSE]
  BY Zenon DEF UndoRejection
<1>2. RulesInv' /\ rules' = WithoutRules(ids) /\ DOMAIN rules' = DOMAIN rules /\ DOMAIN feedback' = DOMAIN feedback
  BY <1>1, UndoRowsKept, Zenon
<1>3. DOMAIN WithoutRules(ids) \subseteq Nat
  BY <1>2, RuleNumbers, Zenon
<1>4. left \in [Jobs -> Card] /\ \A k \in Jobs : Sound(left[k], rules') /\ left[k].card = job[k].card
  <2>1. CASE ids = {}
    <3>1. left = job
      BY <2>1, Zenon
    <3>2. \A i \in DOMAIN rules : rules'[i] = rules[i]
      BY <1>2, <2>1, Zenon DEF WithoutRules
    <3>3. ActiveRules(rules') = ActiveRules(rules)
      BY <1>2, <3>2, Zenon DEF ActiveRules
    <3> HIDE DEF left, ids
    <3> QED
      BY <3>1, <3>3, Zenon DEF CardsInv, Sound, Justified
  <2>2. CASE ids # {}
    <3>1. left = RefreshSuppression(WithoutRules(ids))
      BY <2>2, Zenon
    <3> HIDE DEF left, ids
    <3> QED
      BY <1>2, <1>3, <3>1, RefreshSound, Zenon
  <2> QED
    BY <2>1, <2>2, Zenon
<1> HIDE DEF left, ids
<1>5. job' = [left EXCEPT ![j] = n]
  BY <1>1, <1>4, Zenon
<1>6. left[j] \in Card /\ left[j].card = "listed"
  BY <1>4, Zenon DEF Open
<1>7. /\ n \in Card /\ n.card = "listed" /\ n.content = left[j].content /\ n.hidden = left[j].hidden
      /\ n.hiddenBy = left[j].hiddenBy /\ n.reshown = left[j].reshown
  <2>1. "pending" \in Decisions
    BY DEF Decisions
  <2> QED
    BY <1>6, <2>1, Zenon DEF Card
<1> HIDE DEF n
<1>8. Sound(n, rules')
  <2>1. Sound(left[j], rules')
    BY <1>4, Zenon
  <2>2. Found(n)
    BY <1>6, <1>7, <2>1, Zenon DEF Sound, Found
  <2> QED
    BY <1>7, <2>1, <2>2, Rewritten
<1>9. CardsInv'
  <2>1. job' \in [Jobs -> Card]
    BY <1>4, <1>5, <1>7, Zenon
  <2>2. ASSUME NEW k \in Jobs PROVE Sound(job'[k], rules')
    BY <1>4, <1>5, <1>8, Zenon
  <2> QED
    BY <2>1, <2>2, Zenon DEF CardsInv
<1> QED
  BY <1>2, <1>9

(* undoJobDecision *)
LEMMA UndoDecisionKept ==
  ASSUME CardsInv, RulesInv, NEW j \in Jobs, UndoJobDecision(j)
  PROVE  CardsInv' /\ RulesInv' /\ DOMAIN feedback' = DOMAIN feedback
<1>1. Open(j) /\ job[j].card = "listed"
  BY Zenon DEF UndoJobDecision, Open
<1>2. CASE UndoRejection(j)
  BY <1>1, <1>2, UndoRejectionKept
<1>3. CASE UndoInterest(j) \/ UndoNoTime(j)
  <2>1. job' = [job EXCEPT ![j].decision = "pending"] /\ UNCHANGED <<feedback, rules>>
    BY <1>3, Zenon DEF UndoInterest, UndoNoTime
  <2>2. "pending" \in Decisions
    BY DEF Decisions
  <2> QED
    BY <1>1, <2>1, <2>2, DecisionKept, Zenon
<1> QED
  BY <1>2, <1>3, Zenon DEF UndoJobDecision

(* A rule is paused, and the cards looked at again. *)
LEMMA PauseKept ==
  ASSUME CardsInv, RulesInv, NEW i \in DOMAIN rules, PausePreferenceRule(i)
  PROVE  CardsInv' /\ RulesInv' /\ feedback' = feedback
<1> DEFINE known == [rules EXCEPT ![i].state = "paused"]
<1>1. rules[i].state = "active" /\ rules' = known /\ job' = RefreshSuppression(known) /\ feedback' = feedback
  BY Zenon DEF PausePreferenceRule
<1>2. DOMAIN known = DOMAIN rules /\ DOMAIN rules \subseteq Nat
  BY RuleNumbers, Zenon
<1>3. rules[i] \in RuleRow
  BY Zenon DEF RulesInv
<1>4. known[i] \in RuleRow /\ known[i].state = "paused" /\ \A k \in DOMAIN rules : k # i => known[k] = rules[k]
  BY <1>3, Zenon DEF RuleRow, RulesInv
<1> HIDE DEF known
<1>5. RulesInv'
  <2>1. rules' \in [DOMAIN rules' -> RuleRow]
    <3>1. known \in [DOMAIN rules -> RuleRow]
      BY <1>3, <1>4, Zenon DEF RulesInv, RuleRow, known
    <3> QED
      BY <1>1, <1>2, <3>1, Zenon
  <2>2. ASSUME NEW k \in DOMAIN rules
        PROVE  feedback[k].mode = "total" /\ (known[k].state = "undone" <=> feedback[k].undone)
    <3>1. feedback[k].mode = "total" /\ (rules[k].state = "undone" <=> feedback[k].undone)
      BY Zenon DEF RulesInv
    <3>2. CASE k = i
      BY <1>1, <1>4, <3>1, <3>2, Zenon
    <3>3. CASE k # i
      BY <1>4, <3>1, <3>3, Zenon
    <3> QED
      BY <3>2, <3>3
  <2> QED
    BY <1>1, <1>2, <2>1, <2>2, Zenon DEF RulesInv
<1>6. CardsInv'
  BY <1>1, <1>2, RefreshSound, Zenon DEF CardsInv
<1> QED
  BY <1>1, <1>5, <1>6

(* A rule acts again, on what is seen from then on. *)
LEMMA ActivateKept ==
  ASSUME CardsInv, RulesInv, NEW i \in DOMAIN rules, ActivatePreferenceRule(i)
  PROVE  CardsInv' /\ RulesInv' /\ feedback' = feedback
<1> DEFINE known == [rules EXCEPT ![i].state = "active"]
<1>1. rules[i].state = "paused" /\ rules' = known /\ job' = job /\ feedback' = feedback
  BY Zenon DEF ActivatePreferenceRule
<1>2. DOMAIN known = DOMAIN rules
  BY Zenon
<1>3. rules[i] \in RuleRow
  BY Zenon DEF RulesInv
<1>4. known[i] \in RuleRow /\ known[i].state = "active" /\ \A k \in DOMAIN rules : k # i => known[k] = rules[k]
  BY <1>3, Zenon DEF RuleRow, RulesInv
<1> HIDE DEF known
<1>5. RulesInv'
  <2>1. rules' \in [DOMAIN rules' -> RuleRow]
    <3>1. known \in [DOMAIN rules -> RuleRow]
      BY <1>3, <1>4, Zenon DEF RulesInv, RuleRow, known
    <3> QED
      BY <1>1, <1>2, <3>1, Zenon
  <2>2. ASSUME NEW k \in DOMAIN rules
        PROVE  feedback[k].mode = "total" /\ (known[k].state = "undone" <=> feedback[k].undone)
    <3>1. feedback[k].mode = "total" /\ (rules[k].state = "undone" <=> feedback[k].undone)
      BY Zenon DEF RulesInv
    <3>2. CASE k = i
      BY <1>1, <1>4, <3>1, <3>2, Zenon
    <3>3. CASE k # i
      BY <1>4, <3>1, <3>3, Zenon
    <3> QED
      BY <3>2, <3>3
  <2> QED
    BY <1>1, <1>2, <2>1, <2>2, Zenon DEF RulesInv
<1>6. ActiveRules(rules) \subseteq ActiveRules(rules')
  <2>1. ASSUME NEW k \in DOMAIN rules, rules[k].state = "active"
        PROVE  known[k].state = "active"
    BY <1>1, <1>4, <2>1, Zenon
  <2> QED
    BY <1>1, <1>2, <2>1, Zenon DEF ActiveRules
<1>7. CardsInv'
  BY <1>1, <1>6, Zenon DEF CardsInv, Sound, Justified
<1> QED
  BY <1>1, <1>5, <1>7
-----------------------------------------------------------------------------
(* The notice *)

\* The step leaves the notice, and all that an undo of its decision reads.
NoticeStays ==
  /\ offer' = offer
  /\ DOMAIN feedback' = DOMAIN feedback
  /\ \A k \in Jobs : /\ job'[k].decision = job[k].decision
                     /\ job[k].card = "archived" => job'[k].card = "archived"
                     /\ LatestTotal(k)' = LatestTotal(k)

OffersHold == OfferInv /\ OfferIsCurrent

(* What an undo would take back is still what the notice says. *)
LEMMA StaysCurrent ==
  ASSUME OffersHold, NoticeStays
  PROVE  OffersHold'
<1>1. OfferInv'
  BY Zenon DEF OffersHold, OfferInv, NoticeStays
<1>2. OfferIsCurrent'
  <2>1. CASE offer = NoOffer \/ offer.decision = "partial"
    BY <2>1, Zenon DEF NoticeStays, OfferIsCurrent
  <2>2. CASE offer # NoOffer /\ offer.decision # "partial"
    <3>1. offer.job \in Jobs
      BY <2>2, Zenon DEF OffersHold, OfferInv, Notice
    <3>2. /\ job'[offer.job].decision = job[offer.job].decision
          /\ job[offer.job].card = "archived" => job'[offer.job].card = "archived"
          /\ LatestTotal(offer.job)' = LatestTotal(offer.job) /\ offer' = offer
      BY <3>1, Zenon DEF NoticeStays
    <3> QED
      BY <2>2, <3>2, SMT DEF OffersHold, OfferIsCurrent
  <2> QED
    BY <2>1, <2>2
<1> QED
  BY <1>1, <1>2 DEF OffersHold

(* No notice, nothing to take back. *)
LEMMA NoNotice ==
  ASSUME offer' = NoOffer
  PROVE  OffersHold'
BY Zenon DEF OffersHold, OfferInv, OfferIsCurrent

(* What an undo of a rejection reads is the rejections. *)
LEMMA SameTotals ==
  ASSUME feedback' = feedback
  PROVE  \A k \in Jobs : LatestTotal(k)' = LatestTotal(k)
BY Zenon DEF LatestTotal, Standing

(* A posting that is found, seen again or edited, or an application that   *)
(* goes on, changes no decision.                                           *)
LEMMA OtherStepStays ==
  ASSUME CardsInv, RulesInv, NEW j \in Jobs, NEW c, job' = [job EXCEPT ![j] = c], feedback' = feedback, offer' = offer,
         c.decision = job[j].decision, job[j].card = "archived" => c.card = "archived"
  PROVE  NoticeStays
<1>1. ASSUME NEW k \in Jobs
      PROVE  /\ job'[k].decision = job[k].decision
             /\ job[k].card = "archived" => job'[k].card = "archived"
  <2>1. CASE k = j
    BY <2>1, Zenon DEF CardsInv
  <2>2. CASE k # j
    BY <2>2, Zenon DEF CardsInv
  <2> QED
    BY <2>1, <2>2
<1> QED
  BY <1>1, SameTotals, Zenon DEF NoticeStays

(* A vacancy that is found is a new card, of which there is no notice. *)
LEMMA DiscoverStays ==
  ASSUME CardsInv, RulesInv, NEW j \in Jobs, NEW c \in Contents, Discover(j, c)
  PROVE  NoticeStays
<1> DEFINE n == [Absent EXCEPT !.card = "listed", !.content = c]
<1>1. Absent \in Card /\ Absent.decision = "pending"
  BY StageAssumption, Zenon DEF Absent, Card, Cards, Decisions
<1>2. Absent.hidden = FALSE /\ Absent.hiddenBy = {} /\ Absent.reshown = FALSE
  BY Zenon DEF Absent
<1>3. /\ n \in Card /\ n.card = "listed" /\ n.content = c /\ n.decision = "pending"
      /\ n.hidden = FALSE /\ n.hiddenBy = {} /\ n.reshown = FALSE
  <2>1. "listed" \in Cards
    BY DEF Cards
  <2> QED
    BY <1>1, <1>2, <2>1, Zenon DEF Card
<1>4. job[j].card = "absent" /\ job' = [job EXCEPT ![j] = ApplySuppression(n)]
      /\ feedback' = feedback /\ offer' = offer
  BY Zenon DEF Discover
<1> HIDE DEF n
<1>5. Sound(n, rules)
  BY <1>3, Zenon DEF Sound, Found, Justified
<1>6. ApplySuppression(n).decision = "pending"
  BY <1>3, <1>5, ApplySound, Zenon
<1>7. job[j].decision = "pending" /\ job[j].card # "archived"
  BY <1>4, Zenon DEF CardsInv, Sound, Found
<1> QED
  BY <1>4, <1>6, <1>7, OtherStepStays, Zenon

(* A sighting applies the rules to the card, and decides nothing (applyActiveSuppression). *)
LEMMA SightingStays ==
  ASSUME CardsInv, RulesInv, NEW j \in Jobs, Sighting(j)
  PROVE  NoticeStays
<1>1. Sound(job[j], rules)
  BY Zenon DEF CardsInv
<1>2. ApplySuppression(job[j]).card = job[j].card /\ ApplySuppression(job[j]).decision = job[j].decision
  BY <1>1, ApplySound
<1>3. job' = [job EXCEPT ![j] = ApplySuppression(job[j])] /\ feedback' = feedback /\ offer' = offer
  BY Zenon DEF Sighting
<1> QED
  BY <1>2, <1>3, OtherStepStays, Zenon

(* An edit changes the posting, not the decision. *)
LEMMA EditStays ==
  ASSUME CardsInv, RulesInv, NEW j \in Jobs, NEW c \in Contents, Edit(j, c)
  PROVE  NoticeStays
<1> DEFINE n == [job[j] EXCEPT !.content = c]
<1>1. job' = [job EXCEPT ![j] = n] /\ feedback' = feedback /\ offer' = offer
  BY Zenon DEF Edit
<1>2. n.decision = job[j].decision /\ n.card = job[j].card
  BY Zenon DEF CardsInv, Card
<1> HIDE DEF n
<1> QED
  BY <1>1, <1>2, OtherStepStays, Zenon

(* Nor does a step of the workflow. *)
LEMMA ProgressStays ==
  ASSUME CardsInv, RulesInv, NEW j \in Jobs, NEW s \in Stages, Progress(j, s)
  PROVE  NoticeStays
<1> DEFINE n == [job[j] EXCEPT !.stage = s]
<1>1. job' = [job EXCEPT ![j] = n] /\ feedback' = feedback /\ offer' = offer
  BY Zenon DEF Progress
<1>2. n.decision = job[j].decision /\ n.card = job[j].card
  BY Zenon DEF CardsInv, Card
<1> HIDE DEF n
<1> QED
  BY <1>1, <1>2, OtherStepStays, Zenon

(* Nor does the reopening of a discarded job. *)
LEMMA ReopenStays ==
  ASSUME CardsInv, RulesInv, NEW j \in Jobs, Reopen(j)
  PROVE  NoticeStays
<1> DEFINE n == [job[j] EXCEPT !.discarded = FALSE]
<1>1. job' = [job EXCEPT ![j] = n] /\ feedback' = feedback /\ offer' = offer
  BY Zenon DEF Reopen
<1>2. n.decision = job[j].decision /\ n.card = job[j].card
  BY Zenon DEF CardsInv, Card
<1> HIDE DEF n
<1> QED
  BY <1>1, <1>2, OtherStepStays, Zenon

(* A partial rejection is none of those an undo of a decision takes back. *)
LEMMA PartialStays ==
  ASSUME CardsInv, RulesInv, NEW j \in Jobs, NEW id \in DOMAIN feedback, UndoPartialByRequest(j, id)
  PROVE  NoticeStays
<1>1. UndoFeedbackRows({id}) /\ job' = job /\ offer' = offer /\ feedback[id].mode = "partial"
  BY Zenon DEF UndoPartialByRequest, UndoPartial
<1>2. feedback' = [i \in DOMAIN feedback |-> IF i \in {id} THEN [feedback[i] EXCEPT !.undone = TRUE] ELSE feedback[i]]
  BY <1>1, Zenon DEF UndoFeedbackRows
<1>3. DOMAIN feedback' = DOMAIN feedback
  BY <1>2, Zenon
<1>4. feedback[id] \in Event
  BY ElementOfSeq, RuleNumbers, SMT DEF RulesInv
<1>5. feedback'[id].mode = "partial" /\ \A i \in DOMAIN feedback : i # id => feedback'[i] = feedback[i]
  BY <1>1, <1>2, <1>4, Zenon DEF Event
<1>6. ASSUME NEW k \in Jobs PROVE LatestTotal(k)' = LatestTotal(k)
  <2> DEFINE totals == {i \in DOMAIN feedback : feedback[i].job = k /\ feedback[i].mode = "total" /\ Standing(i)}
  <2>1. \A i \in DOMAIN feedback : i # id => Standing(i)' = Standing(i)
    BY <1>5, Zenon DEF Standing
  <2>2. ASSUME NEW i \in DOMAIN feedback
        PROVE  (feedback[i].job = k /\ feedback[i].mode = "total" /\ Standing(i))
               <=> (feedback'[i].job = k /\ feedback'[i].mode = "total" /\ Standing(i)')
    <3>1. CASE i = id
      BY <1>1, <1>5, <3>1, Zenon
    <3>2. CASE i # id
      BY <1>5, <2>1, <3>2, Zenon
    <3> QED
      BY <3>1, <3>2
  <2>3. totals' = totals
    BY <1>3, <2>2, Zenon
  <2> QED
    BY <2>3, Zenon DEF LatestTotal
<1> QED
  BY <1>1, <1>3, <1>6, Zenon DEF NoticeStays

(* The notice the panel raises for a rejection is of the newest total one. *)
LEMMA RejectionOffered ==
  ASSUME CardsInv, RulesInv, NEW j \in Jobs, NEW m \in Modes, NEW r \in Reasons,
         MarkNotInterested(j, m, r[1], r[2])
  PROVE  OffersHold'
<1> DEFINE id == Len(feedback) + 1
           e == [job |-> j, mode |-> m, detail |-> r[2],
                 value |-> FacetValue(job[j].content, r[2]), undone |-> FALSE]
<1>1. RecordJobFeedback(j, m, r[1], r[2])
      /\ offer' = [job |-> j, decision |-> IF m = "total" THEN "not_interested" ELSE "partial", id |-> id]
  BY Zenon DEF MarkNotInterested, LoadData, Offer
<1>2. id \in DOMAIN feedback'
  BY <1>1, RecordKept
<1>3. Len(feedback) \in Nat /\ DOMAIN feedback = 1..Len(feedback) /\ feedback \in Seq(Event)
  BY RuleNumbers, Zenon DEF RulesInv
<1>4. id \in Nat
  BY <1>3, SMT
<1>5. feedback' = Append(feedback, e)
  BY <1>1, Zenon DEF RecordJobFeedback
<1>6. e.job = j /\ e.mode = m /\ e.undone = FALSE
  BY Zenon
<1>7. CASE m = "total"
  <2>1. offer' \in Notice /\ offer'.decision = "not_interested" /\ offer'.job = j /\ offer'.id = id
    <3>1. offer' = [job |-> j, decision |-> "not_interested", id |-> id]
      BY <1>1, <1>7, Zenon
    <3> HIDE DEF id
    <3> QED
      BY <1>4, <3>1, Zenon DEF Notice
  <2>2. job'[j].decision = "not_interested"
    <3>1. job' = [job EXCEPT ![j].decision = "not_interested", ![j].discarded = TRUE]
      BY <1>1, <1>7, Zenon DEF RecordJobFeedback
    <3> QED
      BY <3>1, Zenon DEF CardsInv, Card
  <2>3. LatestTotal(j)' = {id}
    <3> HIDE DEF e
    <3>1. /\ DOMAIN feedback' = 1..id /\ feedback'[id] = e
      BY <1>3, <1>5, SMT
    <3>2. feedback'[id].job = j /\ feedback'[id].mode = "total" /\ ~feedback'[id].undone
      BY <1>6, <1>7, <3>1, Zenon
    <3> DEFINE totals == {i \in DOMAIN feedback' :
                            feedback'[i].job = j /\ feedback'[i].mode = "total" /\ ~feedback'[i].undone}
    <3>3. id \in totals
      BY <1>2, <3>2
    <3>4. \A k \in totals : k \in 1..id
      BY <3>1
    <3>5. LatestTotal(j)' = {i \in totals : \A k \in totals : k <= i}
      BY DEF LatestTotal, Standing
    <3> HIDE DEF totals
    <3>6. \A i \in totals : (\A k \in totals : k <= i) <=> i = id
      BY <1>4, <3>3, <3>4, SMT DEF id
    <3> QED
      BY <3>3, <3>5, <3>6, Zenon
  <2>4. OfferInv'
    BY <2>1, Zenon DEF OfferInv
  <2>5. OfferIsCurrent'
    BY <2>1, <2>2, <2>3, SMT DEF OfferIsCurrent
  <2> QED
    BY <2>4, <2>5 DEF OffersHold
<1>8. CASE m # "total"
  <2>1. offer' = [job |-> j, decision |-> "partial", id |-> id]
    BY <1>1, <1>8, Zenon
  <2> HIDE DEF id
  <2>2. offer' \in Notice /\ offer'.decision = "partial" /\ offer'.id = id
    BY <1>4, <2>1, Zenon DEF Notice
  <2> QED
    BY <1>2, <2>2, Zenon DEF OffersHold, OfferInv, OfferIsCurrent
<1> QED
  BY <1>7, <1>8

(* SEM TEMPO, and archiving, raise a notice of what they wrote. *)
LEMMA NoTimeOffered ==
  ASSUME CardsInv, NEW j \in Jobs, MarkNoTime(j)
  PROVE  OffersHold'
<1>1. offer' = [job |-> j, decision |-> "no_time", id |-> 0] /\ job' = [job EXCEPT ![j].decision = "no_time"]
  BY Zenon DEF MarkNoTime, RecordNoTime, LoadData, Offer
<1>2. job'[j].decision = "no_time"
  BY <1>1, Zenon DEF CardsInv, Card
<1>3. offer' \in Notice /\ offer'.decision = "no_time" /\ offer'.job = j
  <2>1. 0 \in Nat
    BY SMT
  <2> QED
    BY <1>1, <2>1, Zenon DEF Notice
<1> QED
  BY <1>2, <1>3, SMT DEF OffersHold, OfferInv, OfferIsCurrent

(* The notice of an archived card is of the card that was archived. *)
LEMMA ArchiveOffered ==
  ASSUME CardsInv, NEW j \in Jobs, ArchiveJob(j)
  PROVE  OffersHold'
<1>1. offer' = [job |-> j, decision |-> "archived", id |-> 0] /\ job' = [job EXCEPT ![j].card = "archived"]
  BY Zenon DEF ArchiveJob, Archived, LoadData, Offer
<1>2. job'[j].card = "archived"
  BY <1>1, Zenon DEF CardsInv, Card
<1>3. offer' \in Notice /\ offer'.decision = "archived" /\ offer'.job = j
  <2>1. 0 \in Nat
    BY SMT
  <2> QED
    BY <1>1, <2>1, Zenon DEF Notice
<1> QED
  BY <1>2, <1>3, SMT DEF OffersHold, OfferInv, OfferIsCurrent
-----------------------------------------------------------------------------
(* The invariant *)

(* Before anything is found there is no card, no rule and no notice. *)
LEMMA FeedbackStarts == FeedbackInit => CardsInv /\ RulesInv /\ OffersHold
<1> SUFFICES ASSUME FeedbackInit PROVE CardsInv /\ RulesInv /\ OffersHold
  OBVIOUS
<1>1. /\ job = [j \in Jobs |-> Absent] /\ feedback = <<>> /\ rules = <<>> /\ offer = NoOffer
  BY Zenon DEF FeedbackInit
<1>2. Absent \in Card /\ Found(Absent)
  <2>1. Absent \in Card
    BY StageAssumption, Zenon DEF Absent, Card, Cards, Decisions
  <2>2. Absent.card = "absent" /\ Absent.decision = "pending"
    BY Zenon DEF Absent
  <2> QED
    BY <2>1, <2>2, Zenon DEF Found
<1>3. Justified(Absent, rules)
  <2>1. Absent.hidden = FALSE /\ Absent.hiddenBy = {} /\ Absent.reshown = FALSE
    BY Zenon DEF Absent
  <2> QED
    BY <2>1, Zenon DEF Justified
<1>4. CardsInv
  BY <1>1, <1>2, <1>3, Zenon DEF CardsInv, Sound
<1>5. RulesInv
  BY <1>1, SMT DEF RulesInv
<1>6. OffersHold
  BY <1>1, Zenon DEF OffersHold, OfferInv, OfferIsCurrent
<1> QED
  BY <1>4, <1>5, <1>6

(* What the notice's button takes back keeps the cards and the rules. *)
LEMMA TakeKept ==
  ASSUME CardsInv, RulesInv, OfferInv, TakeOffer
  PROVE  CardsInv' /\ RulesInv'
<1>1. offer # NoOffer /\ offer.job \in Jobs
  BY Zenon DEF TakeOffer, OfferInv, Notice
<1>2. CASE offer.decision = "partial"
  <2>1. UndoPartial(offer.job, offer.id)
    BY <1>2, SMT DEF TakeOffer
  <2>2. offer.id \in DOMAIN feedback
    BY <1>1, <1>2, Zenon DEF OfferInv
  <2> QED
    BY <1>1, <2>1, <2>2, UndoPartialKept
<1>3. CASE offer.decision = "archived"
  <2>1. Restored(offer.job)
    BY <1>3, SMT DEF TakeOffer
  <2>2. job[offer.job].card # "absent" /\ job' = [job EXCEPT ![offer.job].card = "listed"] /\ UNCHANGED <<feedback, rules>>
    BY <2>1, Zenon DEF Restored
  <2>3. "listed" \in {"listed", "archived"}
    OBVIOUS
  <2> QED
    BY <1>1, <2>2, <2>3, PlaceKept
<1>4. CASE offer.decision \notin {"partial", "archived"}
  <2>1. UndoJobDecision(offer.job)
    BY <1>4, SMT DEF TakeOffer
  <2> QED
    BY <1>1, <2>1, UndoDecisionKept
<1> QED
  BY <1>2, <1>3, <1>4

(* Every step keeps the cards and the rules. *)
LEMMA CardsKept ==
  ASSUME CardsInv, RulesInv, OfferInv, [FeedbackNext]_feedbackVars
  PROVE  CardsInv' /\ RulesInv'
<1>1. CASE \E j \in Jobs, c \in Contents : Discover(j, c)
  BY <1>1, DiscoverKept, Zenon
<1>2. CASE \E j \in Jobs, c \in Contents : Edit(j, c)
  BY <1>2, EditKept, Zenon
<1>3. CASE \E j \in Jobs : Sighting(j)
  BY <1>3, SightingKept, Zenon
<1>4. CASE \E j \in Jobs, s \in Stages : Progress(j, s)
  BY <1>4, ProgressKept, Zenon
<1>5. CASE \E j \in Jobs : Reopen(j)
  BY <1>5, ReopenKept, Zenon
<1>6. CASE \E j \in Decided : MarkInterested(j) \/ MarkNoTime(j)
  <2>1. PICK j \in Decided : MarkInterested(j) \/ MarkNoTime(j)
    BY <1>6
  <2>2. PICK d \in {"interested", "no_time"} :
          job[j].card = "listed" /\ job' = [job EXCEPT ![j].decision = d] /\ UNCHANGED <<feedback, rules>>
    BY <2>1, Zenon DEF MarkInterested, RecordInterest, MarkNoTime, RecordNoTime, Open
  <2>3. d \in Decisions /\ j \in Jobs
    BY DecidedAssumption, Zenon DEF Decisions
  <2> QED
    BY <2>2, <2>3, DecisionKept
<1>7. CASE \E j \in Decided, m \in Modes, r \in Reasons : MarkNotInterested(j, m, r[1], r[2])
  <2>1. PICK j \in Decided, m \in Modes, r \in Reasons : MarkNotInterested(j, m, r[1], r[2])
    BY <1>7
  <2>2. RecordJobFeedback(j, m, r[1], r[2]) /\ j \in Jobs
    BY <2>1, DecidedAssumption, Zenon DEF MarkNotInterested
  <2> QED
    BY <2>2, RecordKept
<1>8. CASE \E j \in Jobs : UndoFromCard(j)
  BY <1>8, UndoDecisionKept, Zenon DEF UndoFromCard
<1>9. CASE \E j \in Jobs, id \in DOMAIN feedback : UndoPartialByRequest(j, id)
  BY <1>9, UndoPartialKept, Zenon DEF UndoPartialByRequest
<1>10. CASE \E j \in Jobs : (j \in Decided /\ ArchiveJob(j)) \/ RestoreJob(j)
  <2>1. PICK j \in Jobs : ArchiveJob(j) \/ RestoreJob(j)
    BY <1>10
  <2>2. PICK p \in {"listed", "archived"} :
          job[j].card # "absent" /\ job' = [job EXCEPT ![j].card = p] /\ UNCHANGED <<feedback, rules>>
    BY <2>1, Zenon DEF ArchiveJob, Archived, RestoreJob, Restored
  <2> QED
    BY <2>2, PlaceKept
<1>11. CASE TakeOffer
  BY <1>11, TakeKept
<1>12. CASE OfferExpires \/ UNCHANGED feedbackVars
  <2>1. UNCHANGED <<job, feedback, rules>>
    BY <1>12, Zenon DEF OfferExpires, feedbackVars
  <2> QED
    BY <2>1, Zenon DEF CardsInv, RulesInv, Sound, Justified
<1>13. CASE \E i \in DOMAIN rules : PausePreferenceRule(i)
  BY <1>13, PauseKept, Zenon
<1>14. CASE \E i \in DOMAIN rules : ActivatePreferenceRule(i)
  BY <1>14, ActivateKept, Zenon
<1>15. CASE \E j \in Jobs : UnsuppressJob(j)
  BY <1>15, UnsuppressKept, Zenon
<1> QED
  BY <1>1, <1>2, <1>3, <1>4, <1>5, <1>6, <1>7, <1>8, <1>9, <1>10, <1>11, <1>12, <1>13, <1>14, <1>15,
     DecidedAssumption, Zenon DEF FeedbackNext

(* Every step keeps the notice true: it raises its own, drops it, or leaves *)
(* what it is about alone.                                                  *)
LEMMA NoticeKept ==
  ASSUME CardsInv, RulesInv, OffersHold, [FeedbackNext]_feedbackVars
  PROVE  OffersHold'
<1>1. CASE \E j \in Jobs, c \in Contents : Discover(j, c) \/ Edit(j, c)
  BY <1>1, DiscoverStays, EditStays, StaysCurrent, Zenon
<1>2. CASE \E j \in Jobs : Sighting(j) \/ Reopen(j)
  BY <1>2, SightingStays, ReopenStays, StaysCurrent, Zenon
<1>3. CASE \E j \in Jobs, s \in Stages : Progress(j, s)
  BY <1>3, ProgressStays, StaysCurrent, Zenon
<1>4. CASE \E j \in Decided : MarkInterested(j)
  BY <1>4, NoNotice, Zenon DEF MarkInterested, LoadData
<1>5. CASE \E j \in Decided : MarkNoTime(j)
  BY <1>5, NoTimeOffered, DecidedAssumption, Zenon
<1>6. CASE \E j \in Decided, m \in Modes, r \in Reasons : MarkNotInterested(j, m, r[1], r[2])
  BY <1>6, RejectionOffered, DecidedAssumption, Zenon
<1>7. CASE \E j \in Jobs : UndoFromCard(j) \/ RestoreJob(j) \/ UnsuppressJob(j)
  BY <1>7, NoNotice, Zenon DEF UndoFromCard, RestoreJob, UnsuppressJob, LoadData
<1>8. CASE \E j \in Jobs, id \in DOMAIN feedback : UndoPartialByRequest(j, id)
  BY <1>8, PartialStays, StaysCurrent, Zenon
<1>9. CASE \E j \in Decided : ArchiveJob(j)
  BY <1>9, ArchiveOffered, DecidedAssumption, Zenon
<1>10. CASE TakeOffer \/ OfferExpires
  BY <1>10, NoNotice, Zenon DEF TakeOffer, OfferExpires, LoadData
<1>11. CASE \E i \in DOMAIN rules : PausePreferenceRule(i) \/ ActivatePreferenceRule(i)
  BY <1>11, NoNotice, Zenon DEF PausePreferenceRule, ActivatePreferenceRule, LoadData
<1>12. CASE UNCHANGED feedbackVars
  <2>1. UNCHANGED <<job, feedback, offer>>
    BY <1>12, Zenon DEF feedbackVars
  <2> QED
    BY <2>1, SameTotals, StaysCurrent, Zenon DEF NoticeStays
<1> QED
  BY <1>1, <1>2, <1>3, <1>4, <1>5, <1>6, <1>7, <1>8, <1>9, <1>10, <1>11, <1>12,
     DecidedAssumption, Zenon DEF FeedbackNext

(* The invariant of the cards, the rules and the notice, whatever is found, *)
(* edited, decided, taken back, paused or shown again (preferences.ts,      *)
(* jobs.ts, app.ts).                                                        *)
THEOREM FeedbackInvariant == FeedbackSpec => [](CardsInv /\ RulesInv /\ OffersHold)
<1>1. FeedbackInit => CardsInv /\ RulesInv /\ OffersHold
  BY FeedbackStarts
<1>2. CardsInv /\ RulesInv /\ OffersHold /\ [FeedbackNext]_feedbackVars => (CardsInv /\ RulesInv /\ OffersHold)'
  BY CardsKept, NoticeKept DEF OffersHold
<1> QED
  BY <1>1, <1>2, PTL DEF FeedbackSpec

(* A card is hidden only by rules in force, each of a rejection that stands, *)
(* and never once the person asked to see it, for any number of cards and    *)
(* rejections and whatever a rule compares (preferences.ts                   *)
(* refreshSuppression, setPreferenceRuleState, applySuppression).            *)
THEOREM HiddenForAReason == FeedbackSpec => []HiddenHasReason
<1>1. CardsInv /\ RulesInv => HiddenHasReason
  BY Zenon DEF CardsInv, RulesInv, Sound, Justified, HiddenHasReason, Standing
<1> QED
  BY <1>1, FeedbackInvariant, PTL

(* "Desfazer" takes back the decision it was raised for, whatever was found, *)
(* edited or taken back by a request of the API since (app.ts toast).        *)
THEOREM OffersAreCurrent == FeedbackSpec => []OfferIsCurrent
<1>1. OffersHold => OfferIsCurrent
  BY DEF OffersHold
<1> QED
  BY <1>1, FeedbackInvariant, PTL
-----------------------------------------------------------------------------
(* What was learned *)

One(f, facets) == IF f \in facets THEN 1 ELSE 0

(* A bag has a number of copies of everything. *)
LEMMA CopiesAreNumbers ==
  ASSUME NEW bag, IsABag(bag), NEW f
  PROVE  Copies(f, bag) \in Nat /\ (f \notin DOMAIN bag => Copies(f, bag) = 0)
BY SMT DEF IsABag, Copies, BagIn, BagToSet

(* An interest or a rejection counts each of its facets once more. *)
LEMMA FacetsCounted ==
  ASSUME NEW bag, IsABag(bag), NEW facets
  PROVE  /\ IsABag(bag (+) SetToBag(facets))
         /\ \A f : Copies(f, bag (+) SetToBag(facets)) = Copies(f, bag) + One(f, facets)
<1> DEFINE new == bag (+) SetToBag(facets)
<1>1. DOMAIN SetToBag(facets) = facets /\ \A f \in facets : SetToBag(facets)[f] = 1
  BY Zenon DEF SetToBag
<1>2. new = [f \in DOMAIN bag \cup facets |->
               (IF f \in DOMAIN bag THEN bag[f] ELSE 0) + (IF f \in facets THEN SetToBag(facets)[f] ELSE 0)]
  BY <1>1, Zenon DEF (+)
<1>3. \A f \in DOMAIN bag : bag[f] \in Nat /\ bag[f] > 0
  BY SMT DEF IsABag
<1> HIDE DEF new
<1>4. DOMAIN new = DOMAIN bag \cup facets
  BY <1>2, Zenon
<1>5. ASSUME NEW f \in DOMAIN new
      PROVE  new[f] = Copies(f, bag) + One(f, facets) /\ new[f] \in Nat /\ new[f] > 0
  <2>1. new[f] = (IF f \in DOMAIN bag THEN bag[f] ELSE 0) + (IF f \in facets THEN SetToBag(facets)[f] ELSE 0)
    BY <1>2, <1>4, Zenon
  <2>2. f \in facets => SetToBag(facets)[f] = 1
    BY <1>1
  <2> QED
    BY <1>3, <1>4, <2>1, <2>2, SMT DEF Copies, One, BagIn, BagToSet
<1>6. IsABag(new)
  <2>1. new \in [DOMAIN new -> {n \in Nat : n > 0}]
    BY <1>2, <1>4, <1>5, Zenon
  <2> QED
    BY <2>1 DEF IsABag
<1>7. ASSUME NEW f PROVE Copies(f, new) = Copies(f, bag) + One(f, facets)
  <2>1. CASE f \in DOMAIN new
    BY <1>5, <2>1, Zenon DEF Copies, BagIn, BagToSet
  <2>2. CASE f \notin DOMAIN new
    BY <1>4, <2>2, SMT DEF Copies, One, BagIn, BagToSet
  <2> QED
    BY <2>1, <2>2
<1> QED
  BY <1>6, <1>7, Zenon DEF new

(* Taking one back counts each of them once less. *)
LEMMA FacetsTaken ==
  ASSUME NEW bag, IsABag(bag), NEW facets
  PROVE  /\ IsABag(bag (-) SetToBag(facets))
         /\ \A f : (f \in facets => f \in DOMAIN bag) =>
              Copies(f, bag (-) SetToBag(facets)) = Copies(f, bag) - One(f, facets)
<1> DEFINE less == [e \in DOMAIN bag |-> IF e \in facets THEN bag[e] - SetToBag(facets)[e] ELSE bag[e]]
           new == [e \in {d \in DOMAIN less : less[d] > 0} |-> less[e]]
<1>1. DOMAIN SetToBag(facets) = facets /\ \A f \in facets : SetToBag(facets)[f] = 1
  BY Zenon DEF SetToBag
<1>2. new = bag (-) SetToBag(facets)
  BY <1>1 DEF (-)
<1>3. \A f \in DOMAIN bag : bag[f] \in Nat /\ bag[f] > 0
  BY SMT DEF IsABag
<1>4. DOMAIN less = DOMAIN bag /\ \A f \in DOMAIN bag : less[f] = bag[f] - One(f, facets) /\ less[f] \in Nat
  <2>1. ASSUME NEW f \in DOMAIN bag PROVE less[f] = bag[f] - One(f, facets) /\ less[f] \in Nat
    <3>1. less[f] = IF f \in facets THEN bag[f] - SetToBag(facets)[f] ELSE bag[f]
      BY Zenon
    <3> HIDE DEF less
    <3> QED
      BY <1>1, <1>3, <3>1, SMT DEF One
  <2> QED
    BY <2>1, Zenon
<1>5. DOMAIN new = {d \in DOMAIN bag : less[d] > 0} /\ \A f \in DOMAIN new : new[f] = less[f]
  BY <1>4, Zenon
<1>6. new \in [DOMAIN new -> {n \in Nat : n > 0}]
  <2>1. \A f \in DOMAIN new : new[f] \in {n \in Nat : n > 0}
    <3> HIDE DEF less, new
    <3> QED
      BY <1>4, <1>5, SMT
  <2> QED
    BY <2>1, Zenon
<1> HIDE DEF less, new
<1>7. ASSUME NEW f, f \in facets => f \in DOMAIN bag
      PROVE  Copies(f, new) = Copies(f, bag) - One(f, facets)
  <2>1. CASE f \in DOMAIN bag
    <3>1. Copies(f, bag) = bag[f] /\ less[f] = bag[f] - One(f, facets) /\ less[f] \in Nat
      BY <1>4, <2>1, Zenon DEF Copies, BagIn, BagToSet
    <3>2. Copies(f, new) = less[f]
      BY <1>5, <2>1, <3>1, SMT DEF Copies, BagIn, BagToSet
    <3> QED
      BY <3>1, <3>2
  <2>2. CASE f \notin DOMAIN bag
    BY <1>5, <1>7, <2>2, SMT DEF Copies, One, BagIn, BagToSet
  <2> QED
    BY <2>1, <2>2
<1> QED
  BY <1>2, <1>6, <1>7, Zenon DEF IsABag

\* The interests that count for a facet, and the rejections that count against.
Backers(f) == {j \in Jobs : signal[j] # NoSignal /\ f \in signal[j]}
Facet(i) == <<feedback[i].detail, feedback[i].value>>
Against(f) == {i \in DOMAIN feedback : Standing(i) /\ f = Facet(i)}

Signals == {PositiveSignalFacets(c) : c \in Contents} \cup {NoSignal}

\* A facet was counted as often as something that counts for it, or against.
TalliedFor ==
  /\ signal \in [Jobs -> Signals]
  /\ IsABag(positive)
  /\ \A f : IsFiniteSet(Backers(f)) /\ Copies(f, positive) = Cardinality(Backers(f))

TalliedAgainst ==
  /\ IsABag(negative)
  /\ \A f : IsFiniteSet(Against(f)) /\ Copies(f, negative) = Cardinality(Against(f))
(* A member more, or less, in what is counted. *)
LEMMA OneMore ==
  ASSUME NEW S, IsFiniteSet(S), NEW x, x \notin S
  PROVE  IsFiniteSet(S \cup {x}) /\ Cardinality(S \cup {x}) = Cardinality(S) + 1
BY FS_AddElement

(* A finite set that loses a member has one less, and had one. *)
LEMMA OneLess ==
  ASSUME NEW S, IsFiniteSet(S), NEW x \in S
  PROVE  IsFiniteSet(S \ {x}) /\ Cardinality(S \ {x}) = Cardinality(S) - 1 /\ Cardinality(S) > 0
<1>1. IsFiniteSet(S \ {x}) /\ Cardinality(S \ {x}) = Cardinality(S) - 1
  BY FS_RemoveElement
<1>2. Cardinality(S) \in Nat /\ Cardinality(S \ {x}) \in Nat
  BY <1>1, FS_CardinalityType
<1> QED
  BY <1>1, <1>2, SMT

(* A bag with something in it has it. *)
LEMMA CountedIsIn ==
  ASSUME NEW bag, IsABag(bag), NEW f, Copies(f, bag) > 0
  PROVE  f \in DOMAIN bag
BY SMT DEF Copies, BagIn, BagToSet

(* Interests are tallied the same while none is recorded or taken back. *)
LEMMA ForKept ==
  ASSUME TalliedFor, UNCHANGED <<positive, signal>>
  PROVE  TalliedFor'
<1>1. \A f : Backers(f)' = Backers(f)
  BY Zenon DEF Backers
<1> QED
  BY <1>1, Zenon DEF TalliedFor

(* recordJobDecision counts the facets of a posting once, and keeps them. *)
LEMMA InterestTallied ==
  ASSUME CardsInv, TalliedFor, NEW j \in Jobs, RecordInterest(j)
  PROVE  TalliedFor'
<1> DEFINE facets == PositiveSignalFacets(job[j].content)
<1>1. job[j].content \in Contents
  BY FoundCard, Zenon DEF RecordInterest, Open
<1>2. facets \in Signals /\ facets # NoSignal
  BY <1>1, SignalAssumption, Zenon DEF Signals
<1>3. CASE signal[j] = NoSignal
  <2>1. positive' = positive (+) SetToBag(facets) /\ signal' = [signal EXCEPT ![j] = facets]
    BY <1>3, Zenon DEF RecordInterest, FirstSignal
  <2> HIDE DEF facets
  <2>2. signal' \in [Jobs -> Signals] /\ signal'[j] = facets /\ \A k \in Jobs : k # j => signal'[k] = signal[k]
    BY <1>2, <2>1, Zenon DEF TalliedFor
  <2>3. IsABag(positive') /\ \A f : Copies(f, positive') = Copies(f, positive) + One(f, facets)
    BY <2>1, FacetsCounted, Zenon DEF TalliedFor
  <2>4. ASSUME NEW f
        PROVE  IsFiniteSet(Backers(f)') /\ Copies(f, positive') = Cardinality(Backers(f)')
    <3>1. j \notin Backers(f)
      BY <1>3, Zenon DEF Backers
    <3>2. IsFiniteSet(Backers(f)) /\ Copies(f, positive) = Cardinality(Backers(f)) /\ Copies(f, positive) \in Nat
      BY CopiesAreNumbers, Zenon DEF TalliedFor
    <3>3. CASE f \in facets
      <4>1. Backers(f)' = Backers(f) \cup {j}
        BY <1>2, <2>2, <3>3, Zenon DEF Backers
      <4>2. One(f, facets) = 1
        BY <3>3 DEF One
      <4> QED
        BY <2>3, <3>1, <3>2, <4>1, <4>2, OneMore
    <3>4. CASE f \notin facets
      <4>1. Backers(f)' = Backers(f)
        <5>1. ASSUME NEW k \in Jobs
              PROVE  (signal'[k] # NoSignal /\ f \in signal'[k]) <=> (signal[k] # NoSignal /\ f \in signal[k])
          <6>1. CASE k = j
            BY <1>3, <2>2, <3>4, <6>1, Zenon
          <6>2. CASE k # j
            BY <2>2, <6>2, Zenon
          <6> QED
            BY <6>1, <6>2
        <5> QED
          BY <5>1, Zenon DEF Backers
      <4>2. One(f, facets) = 0
        BY <3>4 DEF One
      <4>3. Copies(f, positive') = Copies(f, positive)
        BY <2>3, <3>2, <4>2, SMT
      <4> QED
        BY <3>2, <4>1, <4>3, Zenon
    <3> QED
      BY <3>3, <3>4
  <2> QED
    BY <2>2, <2>3, <2>4, Zenon DEF TalliedFor
<1>4. CASE signal[j] # NoSignal
  <2>1. positive' = positive (+) SetToBag({}) /\ signal' = [signal EXCEPT ![j] = signal[j]]
    BY <1>4, Zenon DEF RecordInterest, FirstSignal, EmptyBag
  <2>2. signal' = signal
    BY <2>1, Zenon DEF TalliedFor
  <2>3. IsABag(positive') /\ \A f : Copies(f, positive') = Copies(f, positive) + One(f, {})
    BY <2>1, FacetsCounted, Zenon DEF TalliedFor
  <2>4. ASSUME NEW f PROVE Copies(f, positive') = Copies(f, positive)
    <3>1. Copies(f, positive) \in Nat
      BY CopiesAreNumbers, Zenon DEF TalliedFor
    <3>2. One(f, {}) = 0
      BY DEF One
    <3> QED
      BY <2>3, <3>1, <3>2, SMT
  <2>5. \A f : Backers(f)' = Backers(f)
    BY <2>2, Zenon DEF Backers
  <2> QED
    BY <2>2, <2>3, <2>4, <2>5, Zenon DEF TalliedFor
<1> QED
  BY <1>3, <1>4

(* undoJobDecision takes back the facets the interest kept, whatever the *)
(* posting says now.                                                     *)
LEMMA UndoInterestTallied ==
  ASSUME TalliedFor, NEW j \in Jobs, UndoInterest(j)
  PROVE  TalliedFor'
<1> DEFINE facets == signal[j]
<1>1. signal' = [signal EXCEPT ![j] = NoSignal] /\ NoSignal \in Signals
  BY Zenon DEF UndoInterest, Signals
<1>2. signal' \in [Jobs -> Signals] /\ signal'[j] = NoSignal /\ \A k \in Jobs : k # j => signal'[k] = signal[k]
  BY <1>1, Zenon DEF TalliedFor
<1>3. CASE signal[j] = NoSignal
  <2>1. positive' = positive
    BY <1>3, Zenon DEF UndoInterest
  <2>2. signal' = signal
    BY <1>1, <1>3, Zenon DEF TalliedFor
  <2> QED
    BY <2>1, <2>2, ForKept
<1>4. CASE signal[j] # NoSignal
  <2>1. positive' = positive (-) SetToBag(facets)
    BY <1>4, Zenon DEF UndoInterest
  <2>2. ASSUME NEW f \in facets PROVE j \in Backers(f) /\ f \in DOMAIN positive
    <3>1. j \in Backers(f)
      BY <1>4, Zenon DEF Backers
    <3>2. Cardinality(Backers(f)) > 0
      BY <3>1, OneLess, Zenon DEF TalliedFor
    <3> QED
      BY <3>1, <3>2, CountedIsIn, Zenon DEF TalliedFor
  <2>3. IsABag(positive') /\ \A f : Copies(f, positive') = Copies(f, positive) - One(f, facets)
    BY <2>1, <2>2, FacetsTaken, Zenon DEF TalliedFor
  <2>4. ASSUME NEW f
        PROVE  IsFiniteSet(Backers(f)') /\ Copies(f, positive') = Cardinality(Backers(f)')
    <3>1. IsFiniteSet(Backers(f)) /\ Copies(f, positive) = Cardinality(Backers(f)) /\ Copies(f, positive) \in Nat
      BY CopiesAreNumbers, Zenon DEF TalliedFor
    <3>2. Backers(f)' = Backers(f) \ {j}
      BY <1>2, Zenon DEF Backers
    <3>3. CASE f \in facets
      <4>1. j \in Backers(f) /\ One(f, facets) = 1
        BY <2>2, <3>3, Zenon DEF One
      <4> QED
        BY <2>3, <3>1, <3>2, <4>1, OneLess, Zenon
    <3>4. CASE f \notin facets
      <4>1. Backers(f) \ {j} = Backers(f)
        BY <3>4, Zenon DEF Backers
      <4>2. One(f, facets) = 0
        BY <3>4 DEF One
      <4>3. Copies(f, positive') = Copies(f, positive)
        BY <2>3, <3>1, <4>2, SMT
      <4> QED
        BY <3>1, <3>2, <4>1, <4>3, Zenon
    <3> QED
      BY <3>3, <3>4
  <2> QED
    BY <1>2, <2>3, <2>4, Zenon DEF TalliedFor
<1> QED
  BY <1>3, <1>4
(* recordJobFeedback counts the facet of the rejection. *)
LEMMA RejectionTallied ==
  ASSUME CardsInv, RulesInv, TalliedAgainst, NEW j \in Jobs, NEW m \in Modes, NEW r \in Reasons,
         RecordJobFeedback(j, m, r[1], r[2])
  PROVE  TalliedAgainst'
<1> DEFINE e == [job |-> j, mode |-> m, detail |-> r[2],
                 value |-> FacetValue(job[j].content, r[2]), undone |-> FALSE]
           facet == <<r[2], FacetValue(job[j].content, r[2])>>
<1>1. PICK id : id = Len(feedback) + 1
  OBVIOUS
<1>2. feedback' = Append(feedback, e) /\ negative' = negative (+) SetToBag({facet})
  BY Zenon DEF RecordJobFeedback
<1>3. e.detail = r[2] /\ e.value = FacetValue(job[j].content, r[2]) /\ e.undone = FALSE
  BY Zenon
<1>4. Len(feedback) \in Nat /\ DOMAIN feedback = 1..Len(feedback) /\ feedback \in Seq(Event)
  BY RuleNumbers, Zenon DEF RulesInv
<1> HIDE DEF e
<1>5. /\ DOMAIN feedback' = DOMAIN feedback \cup {id} /\ feedback'[id] = e /\ id \notin DOMAIN feedback
      /\ \A i \in DOMAIN feedback : feedback'[i] = feedback[i]
  BY <1>1, <1>2, <1>4, SMT
<1>6. Facet(id)' = facet /\ Standing(id)'
  BY <1>3, <1>5, Zenon DEF Facet, Standing
<1>7. \A i \in DOMAIN feedback : Facet(i)' = Facet(i) /\ Standing(i)' = Standing(i)
  BY <1>5, Zenon DEF Facet, Standing
<1> HIDE DEF facet
<1>8. IsABag(negative') /\ \A f : Copies(f, negative') = Copies(f, negative) + One(f, {facet})
  BY <1>2, FacetsCounted, Zenon DEF TalliedAgainst
<1>9. ASSUME NEW f
      PROVE  IsFiniteSet(Against(f)') /\ Copies(f, negative') = Cardinality(Against(f)')
  <2>1. IsFiniteSet(Against(f)) /\ Copies(f, negative) = Cardinality(Against(f)) /\ Copies(f, negative) \in Nat
    BY CopiesAreNumbers, Zenon DEF TalliedAgainst
  <2>2. id \notin Against(f)
    BY <1>5, Zenon DEF Against
  <2>3. CASE f = facet
    <3>1. Against(f)' = Against(f) \cup {id}
      BY <1>5, <1>6, <1>7, <2>3, Zenon DEF Against
    <3>2. One(f, {facet}) = 1
      BY <2>3 DEF One
    <3> QED
      BY <1>8, <2>1, <2>2, <3>1, <3>2, OneMore
  <2>4. CASE f # facet
    <3>1. Against(f)' = Against(f)
      BY <1>5, <1>6, <1>7, <2>4, Zenon DEF Against
    <3>2. One(f, {facet}) = 0
      BY <2>4 DEF One
    <3>3. Copies(f, negative') = Copies(f, negative)
      BY <1>8, <2>1, <3>2, SMT
    <3> QED
      BY <2>1, <3>1, <3>3, Zenon
  <2> QED
    BY <2>3, <2>4
<1> QED
  BY <1>8, <1>9, Zenon DEF TalliedAgainst

(* So are rejections. *)
LEMMA AgainstKept ==
  ASSUME TalliedAgainst, UNCHANGED <<negative, feedback>>
  PROVE  TalliedAgainst'
<1>1. \A f : Against(f)' = Against(f)
  BY Zenon DEF Against, Standing, Facet
<1> QED
  BY <1>1, Zenon DEF TalliedAgainst

(* undoFeedbackRows takes back the facet as the rejection recorded it. *)
LEMMA UndoRowTallied ==
  ASSUME RulesInv, TalliedAgainst, NEW id \in DOMAIN feedback, Standing(id), UndoFeedbackRows({id})
  PROVE  TalliedAgainst'
<1>1. /\ feedback' = [i \in DOMAIN feedback |-> IF i \in {id} THEN [feedback[i] EXCEPT !.undone = TRUE] ELSE feedback[i]]
      /\ negative' = negative (-) StoredFacets({id})
  BY Zenon DEF UndoFeedbackRows
<1>2. feedback[id] \in Event
  BY ElementOfSeq, RuleNumbers, SMT DEF RulesInv
<1>3. DOMAIN feedback' = DOMAIN feedback /\ \A i \in DOMAIN feedback : i # id => feedback'[i] = feedback[i]
  BY <1>1, Zenon
<1>4. ~Standing(id)'
  <2>1. feedback'[id] = [feedback[id] EXCEPT !.undone = TRUE]
    BY <1>1, Zenon
  <2>2. feedback'[id].undone
    BY <1>2, <2>1, Zenon DEF Event
  <2> QED
    BY <2>2, Zenon DEF Standing
<1>5. \A i \in DOMAIN feedback : i # id => Facet(i)' = Facet(i) /\ Standing(i)' = Standing(i)
  BY <1>3, Zenon DEF Facet, Standing
<1> DEFINE facet == Facet(id)
<1>6. StoredFacets({id}) = SetToBag({facet})
  BY Zenon DEF StoredFacets, Facet
<1>7. id \in Against(facet) /\ facet \in DOMAIN negative
  <2>1. id \in Against(facet)
    BY Zenon DEF Against
  <2> HIDE DEF facet
  <2>2. Cardinality(Against(facet)) > 0
    BY <2>1, OneLess, Zenon DEF TalliedAgainst
  <2> QED
    BY <2>1, <2>2, CountedIsIn, Zenon DEF TalliedAgainst
<1>8. \A f : Against(f)' = Against(f) \ {id}
  BY <1>3, <1>4, <1>5, Zenon DEF Against
<1>9. \A f : f # facet => id \notin Against(f)
  BY Zenon DEF Against
<1> HIDE DEF facet
<1>10. IsABag(negative') /\ \A f : Copies(f, negative') = Copies(f, negative) - One(f, {facet})
  <2>1. \A f \in {facet} : f \in DOMAIN negative
    BY <1>7
  <2> QED
    BY <1>1, <1>6, <2>1, FacetsTaken, Zenon DEF TalliedAgainst
<1>11. ASSUME NEW f
       PROVE  IsFiniteSet(Against(f)') /\ Copies(f, negative') = Cardinality(Against(f)')
  <2>1. IsFiniteSet(Against(f)) /\ Copies(f, negative) = Cardinality(Against(f)) /\ Copies(f, negative) \in Nat
    BY CopiesAreNumbers, Zenon DEF TalliedAgainst
  <2>2. CASE f = facet
    <3>1. id \in Against(f) /\ One(f, {facet}) = 1
      BY <1>7, <2>2, Zenon DEF One
    <3> QED
      BY <1>8, <1>10, <2>1, <3>1, OneLess, Zenon
  <2>3. CASE f # facet
    <3>1. Against(f)' = Against(f)
      BY <1>8, <1>9, <2>3, Zenon
    <3>2. One(f, {facet}) = 0
      BY <2>3 DEF One
    <3>3. Copies(f, negative') = Copies(f, negative)
      BY <1>10, <2>1, <3>2, SMT
    <3> QED
      BY <2>1, <3>1, <3>3, Zenon
  <2> QED
    BY <2>2, <2>3
<1> QED
  BY <1>10, <1>11, Zenon DEF TalliedAgainst

(* With none to take back, nothing is. *)
LEMMA UndoNoneTallied ==
  ASSUME RulesInv, TalliedAgainst, UndoFeedbackRows({})
  PROVE  TalliedAgainst'
<1>1. /\ feedback' = [i \in DOMAIN feedback |-> feedback[i]]
      /\ negative' = negative (-) StoredFacets({})
  BY Zenon DEF UndoFeedbackRows
<1>2. DOMAIN feedback' = DOMAIN feedback /\ \A i \in DOMAIN feedback : feedback'[i] = feedback[i]
  BY <1>1, Zenon
<1>3. StoredFacets({}) = SetToBag({})
  BY Zenon DEF StoredFacets
<1>4. IsABag(negative') /\ \A f : Copies(f, negative') = Copies(f, negative) - One(f, {})
  BY <1>1, <1>3, FacetsTaken, Zenon DEF TalliedAgainst
<1>5. ASSUME NEW f PROVE Copies(f, negative') = Copies(f, negative) /\ Against(f)' = Against(f)
  <2>1. Copies(f, negative) \in Nat
    BY CopiesAreNumbers, Zenon DEF TalliedAgainst
  <2>2. One(f, {}) = 0
    BY DEF One
  <2>3. Copies(f, negative') = Copies(f, negative)
    BY <1>4, <2>1, <2>2, SMT
  <2>4. \A i \in DOMAIN feedback : Facet(i)' = Facet(i) /\ Standing(i)' = Standing(i)
    BY <1>2, Zenon DEF Facet, Standing
  <2>5. Against(f)' = Against(f)
    BY <1>2, <2>4, Zenon DEF Against
  <2> QED
    BY <2>3, <2>5
<1> QED
  BY <1>4, <1>5, Zenon DEF TalliedAgainst

(* An undo of a decision takes back one rejection, or none. *)
LEMMA LatestIsOne ==
  ASSUME RulesInv, NEW j \in Jobs
  PROVE  \/ LatestTotal(j) = {}
         \/ \E id \in DOMAIN feedback : LatestTotal(j) = {id} /\ Standing(id)
<1> DEFINE totals == {i \in DOMAIN feedback : feedback[i].job = j /\ feedback[i].mode = "total" /\ Standing(i)}
<1>1. LatestTotal(j) = {i \in totals : \A k \in totals : k <= i}
  BY Zenon DEF LatestTotal
<1>2. totals \subseteq DOMAIN feedback /\ \A i \in totals : Standing(i)
  BY Zenon
<1>3. DOMAIN feedback \subseteq Nat
  BY RuleNumbers, SMT
<1> HIDE DEF totals
<1>4. \A x, y \in LatestTotal(j) : x = y
  <2> SUFFICES ASSUME NEW x \in LatestTotal(j), NEW y \in LatestTotal(j) PROVE x = y
    OBVIOUS
  <2>1. x \in totals /\ y \in totals /\ x <= y /\ y <= x
    BY <1>1, Zenon
  <2>2. x \in Nat /\ y \in Nat
    BY <1>2, <1>3, <2>1, Zenon
  <2> QED
    BY <2>1, <2>2, SMT
<1>5. ASSUME LatestTotal(j) # {}
      PROVE  \E id \in DOMAIN feedback : LatestTotal(j) = {id} /\ Standing(id)
  <2>1. PICK id : id \in LatestTotal(j)
    BY <1>5
  <2>2. id \in DOMAIN feedback /\ Standing(id)
    BY <1>1, <1>2, <2>1, Zenon
  <2>3. LatestTotal(j) = {id}
    BY <1>4, <2>1, Zenon
  <2> QED
    BY <2>2, <2>3
<1> QED
  BY <1>5

(* Undoing a decision takes back what it taught: the last rejection, or the interest (undoJobDecision). *)
LEMMA UndoTallied ==
  ASSUME RulesInv, TalliedFor, TalliedAgainst, NEW j \in Jobs, UndoJobDecision(j)
  PROVE  TalliedFor' /\ TalliedAgainst'
<1>1. CASE UndoRejection(j)
  <2>1. UndoFeedbackRows(LatestTotal(j)) /\ UNCHANGED <<positive, signal>>
    BY <1>1, Zenon DEF UndoRejection
  <2>2. TalliedFor'
    BY <2>1, ForKept
  <2>3. CASE LatestTotal(j) = {}
    <3>1. UndoFeedbackRows({})
      BY <2>1, <2>3, Zenon
    <3> QED
      BY <2>2, <3>1, UndoNoneTallied
  <2>4. CASE LatestTotal(j) # {}
    <3>1. PICK id \in DOMAIN feedback : LatestTotal(j) = {id} /\ Standing(id)
      BY <2>4, LatestIsOne
    <3>2. UndoFeedbackRows({id})
      BY <2>1, <3>1, Zenon
    <3> QED
      BY <2>2, <3>1, <3>2, UndoRowTallied
  <2> QED
    BY <2>3, <2>4
<1>2. CASE UndoInterest(j)
  <2>1. UNCHANGED <<negative, feedback>>
    BY <1>2, Zenon DEF UndoInterest
  <2> QED
    BY <1>2, <2>1, UndoInterestTallied, AgainstKept
<1>3. CASE UndoNoTime(j)
  <2>1. UNCHANGED <<negative, feedback>> /\ UNCHANGED <<positive, signal>>
    BY <1>3, Zenon DEF UndoNoTime
  <2> QED
    BY <2>1, ForKept, AgainstKept
<1> QED
  BY <1>1, <1>2, <1>3, Zenon DEF UndoJobDecision

(* So does undoing a partial rejection (undoJobFeedback). *)
LEMMA PartialTallied ==
  ASSUME RulesInv, TalliedFor, TalliedAgainst, NEW j \in Jobs, NEW id \in DOMAIN feedback, UndoPartial(j, id)
  PROVE  TalliedFor' /\ TalliedAgainst'
<1>1. Standing(id) /\ UndoFeedbackRows({id}) /\ UNCHANGED <<positive, signal>>
  BY Zenon DEF UndoPartial
<1> QED
  BY <1>1, ForKept, UndoRowTallied

(* Every step keeps the tally. *)
LEMMA TallyKept ==
  ASSUME CardsInv, RulesInv, OfferInv, TalliedFor, TalliedAgainst, [FeedbackNext]_feedbackVars
  PROVE  TalliedFor' /\ TalliedAgainst'
<1> DEFINE Quiet == UNCHANGED <<positive, signal>> /\ UNCHANGED <<negative, feedback>>
<1>1. CASE Quiet
  BY <1>1, ForKept, AgainstKept
<1>2. CASE \E j \in Jobs, c \in Contents : Discover(j, c) \/ Edit(j, c)
  BY <1>1, <1>2, Zenon DEF Discover, Edit
<1>3. CASE \E j \in Jobs : Sighting(j) \/ Reopen(j) \/ RestoreJob(j) \/ UnsuppressJob(j) \/ ArchiveJob(j)
  BY <1>1, <1>3, Zenon DEF Sighting, Reopen, RestoreJob, Restored, UnsuppressJob, ArchiveJob, Archived
<1>4. CASE \E j \in Jobs, s \in Stages : Progress(j, s)
  BY <1>1, <1>4, Zenon DEF Progress
<1>5. CASE \E j \in Decided : MarkInterested(j)
  <2>1. PICK j \in Decided : RecordInterest(j)
    BY <1>5, Zenon DEF MarkInterested
  <2>2. j \in Jobs /\ UNCHANGED <<negative, feedback>>
    BY <2>1, DecidedAssumption, Zenon DEF RecordInterest
  <2> QED
    BY <2>1, <2>2, InterestTallied, AgainstKept
<1>6. CASE \E j \in Decided : MarkNoTime(j)
  BY <1>1, <1>6, Zenon DEF MarkNoTime, RecordNoTime
<1>7. CASE \E j \in Decided, m \in Modes, r \in Reasons : MarkNotInterested(j, m, r[1], r[2])
  <2>1. PICK j \in Decided, m \in Modes, r \in Reasons : RecordJobFeedback(j, m, r[1], r[2])
    BY <1>7, Zenon DEF MarkNotInterested
  <2>2. j \in Jobs /\ UNCHANGED <<positive, signal>>
    BY <2>1, DecidedAssumption, Zenon DEF RecordJobFeedback
  <2> QED
    BY <2>1, <2>2, RejectionTallied, ForKept
<1>8. CASE \E j \in Jobs : UndoFromCard(j)
  BY <1>8, UndoTallied, Zenon DEF UndoFromCard
<1>9. CASE \E j \in Jobs, id \in DOMAIN feedback : UndoPartialByRequest(j, id)
  BY <1>9, PartialTallied, Zenon DEF UndoPartialByRequest
<1>10. CASE TakeOffer
  <2>1. offer # NoOffer /\ offer.job \in Jobs
    BY <1>10, Zenon DEF TakeOffer, OfferInv, Notice
  <2>2. CASE offer.decision = "partial"
    <3>1. UndoPartial(offer.job, offer.id)
      BY <1>10, <2>2, SMT DEF TakeOffer
    <3>2. offer.id \in DOMAIN feedback
      BY <2>1, <2>2, Zenon DEF OfferInv
    <3> QED
      BY <2>1, <3>1, <3>2, PartialTallied
  <2>3. CASE offer.decision = "archived"
    <3>1. Restored(offer.job)
      BY <1>10, <2>3, SMT DEF TakeOffer
    <3> QED
      BY <1>1, <3>1, Zenon DEF Restored
  <2>4. CASE offer.decision \notin {"partial", "archived"}
    <3>1. UndoJobDecision(offer.job)
      BY <1>10, <2>4, SMT DEF TakeOffer
    <3> QED
      BY <2>1, <3>1, UndoTallied
  <2> QED
    BY <2>2, <2>3, <2>4
<1>11. CASE \E i \in DOMAIN rules : PausePreferenceRule(i) \/ ActivatePreferenceRule(i)
  BY <1>1, <1>11, Zenon DEF PausePreferenceRule, ActivatePreferenceRule
<1>12. CASE OfferExpires \/ UNCHANGED feedbackVars
  BY <1>1, <1>12, Zenon DEF OfferExpires, feedbackVars
<1> QED
  BY <1>2, <1>3, <1>4, <1>5, <1>6, <1>7, <1>8, <1>9, <1>10, <1>11, <1>12,
     DecidedAssumption, Zenon DEF FeedbackNext

(* Nothing was learned at first. *)
LEMMA TallyStarts == FeedbackInit => TalliedFor /\ TalliedAgainst
<1> SUFFICES ASSUME FeedbackInit PROVE TalliedFor /\ TalliedAgainst
  OBVIOUS
<1>1. /\ signal = [j \in Jobs |-> NoSignal] /\ positive = SetToBag({}) /\ negative = SetToBag({}) /\ feedback = <<>>
  BY Zenon DEF FeedbackInit, EmptyBag
<1>2. IsABag(SetToBag({})) /\ \A f : Copies(f, SetToBag({})) = 0
  BY Zenon DEF IsABag, SetToBag, Copies, BagIn, BagToSet
<1>3. \A f : Backers(f) = {} /\ Against(f) = {}
  <2>1. DOMAIN feedback = {}
    BY <1>1, SMT
  <2> QED
    BY <1>1, <2>1, Zenon DEF Backers, Against
<1>4. IsFiniteSet({}) /\ Cardinality({}) = 0
  BY FS_EmptySet
<1>5. signal \in [Jobs -> Signals]
  BY <1>1, Zenon DEF Signals
<1> QED
  BY <1>1, <1>2, <1>3, <1>4, <1>5, Zenon DEF TalliedFor, TalliedAgainst

(* What counts for a facet is the interests that kept it, and what counts   *)
(* against it each of the rejections that stand, two of one vacancy too,    *)
(* for any number of vacancies, facets and rejections and whatever was      *)
(* edited in between (preferences.ts undoFeedbackRows, jobs.ts              *)
(* recordJobDecision).                                                      *)
THEOREM LearningIsBacked == FeedbackSpec => []LearnedIsBacked
<1>1. FeedbackInit => TalliedFor /\ TalliedAgainst
  BY TallyStarts
<1>2. CardsInv /\ RulesInv /\ OffersHold /\ TalliedFor /\ TalliedAgainst /\ [FeedbackNext]_feedbackVars
        => TalliedFor' /\ TalliedAgainst'
  BY TallyKept DEF OffersHold
<1>3. TalliedFor /\ TalliedAgainst => LearnedIsBacked
  <2> SUFFICES ASSUME TalliedFor, TalliedAgainst PROVE LearnedIsBacked
    OBVIOUS
  <2>1. \A f : Copies(f, positive) = Cardinality({j \in Jobs : signal[j] # NoSignal /\ f \in signal[j]})
    BY Zenon DEF TalliedFor, Backers
  <2>2. \A f : Copies(f, negative) =
                 Cardinality({i \in DOMAIN feedback : Standing(i) /\ f = <<feedback[i].detail, feedback[i].value>>})
    BY Zenon DEF TalliedAgainst, Against, Facet
  <2> QED
    BY <2>1, <2>2, Zenon DEF LearnedIsBacked
<1> QED
  BY <1>1, <1>2, <1>3, FeedbackInvariant, PTL DEF FeedbackSpec

-----------------------------------------------------------------------------
(* Sums *)

\* A set of natural numbers that is not empty has a least one.
LEMMA LeastNumber ==
  ASSUME NEW T \in SUBSET Nat, T # {}
  PROVE  \E m \in T : \A n \in T : m <= n
<1>1. IsWellFoundedOn(OpToRel(<, Nat), Nat)
  BY NatLessThanWellFounded
<1>2. PICK m \in T : \A n \in T : <<n, m>> \notin OpToRel(<, Nat)
  BY <1>1, WFMin
<1>3. \A n \in T : ~(n < m)
  BY <1>2 DEF OpToRel
<1> QED
  BY <1>3

\* The one a sum takes next.
Taken(s) == CHOOSE x \in s : TRUE

\* sums gives the sum of w over each set of a family closed under taking one.
SumsOf(w, family, sums) ==
  sums = [s \in family |-> IF s = {} THEN 0 ELSE w[Taken(s)] + sums[s \ {Taken(s)}]]

LEMMA SumIsFold ==
  ASSUME NEW w, NEW S
  PROVE  SumFunctionOnSet(w, S) = (CHOOSE sums : SumsOf(w, SUBSET S, sums))[S]
BY DEF SumFunctionOnSet, FoldFunctionOnSet, MapThenFoldSet, SumsOf, Taken

\* The subsets of S with n members at most.
UpTo(S, n) == {s \in SUBSET S : Cardinality(s) <= n}

LEMMA OneTaken ==
  ASSUME NEW S, IsFiniteSet(S), NEW s \in SUBSET S, s # {}
  PROVE  /\ Taken(s) \in s /\ s \ {Taken(s)} \in SUBSET S
         /\ Cardinality(s) \in Nat /\ Cardinality(s \ {Taken(s)}) = Cardinality(s) - 1
         /\ Cardinality(s \ {Taken(s)}) \in Nat
<1>1. Taken(s) \in s
  BY DEF Taken
<1>2. IsFiniteSet(s)
  BY FS_Subset
<1>3. Cardinality(s \ {Taken(s)}) = Cardinality(s) - 1 /\ IsFiniteSet(s \ {Taken(s)})
  BY <1>1, <1>2, FS_RemoveElement
<1> QED
  BY <1>1, <1>2, <1>3, FS_CardinalityType

LEMMA SumsGrow ==
  ASSUME NEW w, NEW S, IsFiniteSet(S), NEW n \in Nat, NEW sums, SumsOf(w, UpTo(S, n), sums)
  PROVE  \E more : SumsOf(w, UpTo(S, n + 1), more)
<1> DEFINE more == [s \in UpTo(S, n + 1) |-> IF s = {} THEN 0 ELSE w[Taken(s)] + sums[s \ {Taken(s)}]]
<1>1. ASSUME NEW s \in UpTo(S, n + 1), s # {}
      PROVE  s \ {Taken(s)} \in UpTo(S, n) /\ s \ {Taken(s)} \in UpTo(S, n + 1)
  <2>1. s \in SUBSET S /\ Cardinality(s) <= n + 1
    BY DEF UpTo
  <2>2. /\ s \ {Taken(s)} \in SUBSET S /\ Cardinality(s \ {Taken(s)}) = Cardinality(s) - 1
        /\ Cardinality(s) \in Nat
    BY <1>1, <2>1, OneTaken
  <2> QED
    BY <2>1, <2>2 DEF UpTo
<1>2. ASSUME NEW t \in UpTo(S, n), t \in UpTo(S, n + 1)
      PROVE  more[t] = sums[t]
  BY <1>2 DEF SumsOf
<1>3. ASSUME NEW s \in UpTo(S, n + 1)
      PROVE  more[s] = IF s = {} THEN 0 ELSE w[Taken(s)] + more[s \ {Taken(s)}]
  BY <1>1, <1>2
<1>4. more = [s \in UpTo(S, n + 1) |-> IF s = {} THEN 0 ELSE w[Taken(s)] + more[s \ {Taken(s)}]]
  <2>1. more = [s \in UpTo(S, n + 1) |-> more[s]]
    OBVIOUS
  <2> HIDE DEF more
  <2> QED
    BY <1>3, <2>1
<1> HIDE DEF more
<1> QED
  BY <1>4 DEF SumsOf

LEMMA SumsStart ==
  ASSUME NEW w, NEW S, IsFiniteSet(S)
  PROVE  \E sums : SumsOf(w, UpTo(S, 0), sums)
<1> DEFINE sums == [s \in UpTo(S, 0) |-> 0]
<1>1. ASSUME NEW s \in UpTo(S, 0)
      PROVE  s = {}
  <2>1. IsFiniteSet(s) /\ Cardinality(s) <= 0 /\ Cardinality(s) \in Nat
    BY FS_Subset, FS_CardinalityType DEF UpTo
  <2>2. Cardinality(s) = 0
    BY <2>1
  <2> QED
    BY <2>1, <2>2, FS_EmptySet
<1>2. sums = [s \in UpTo(S, 0) |-> IF s = {} THEN 0 ELSE w[Taken(s)] + sums[s \ {Taken(s)}]]
  BY <1>1
<1> HIDE DEF sums
<1> QED
  BY <1>2 DEF SumsOf

LEMMA SumsExist ==
  ASSUME NEW w, NEW S, IsFiniteSet(S)
  PROVE  \E sums : SumsOf(w, SUBSET S, sums)
<1> DEFINE without == {n \in Nat : ~\E sums : SumsOf(w, UpTo(S, n), sums)}
<1>1. without = {}
  <2> SUFFICES ASSUME without # {}
               PROVE  FALSE
    OBVIOUS
  <2>1. PICK n \in without : \A m \in without : n <= m
    <3>1. without \in SUBSET Nat
      OBVIOUS
    <3> HIDE DEF without
    <3> QED
      BY <3>1, LeastNumber
  <2>2. n # 0
    BY SumsStart
  <2>3. n - 1 \in Nat /\ n - 1 \notin without
    BY <2>1, <2>2
  <2>4. PICK sums : SumsOf(w, UpTo(S, n - 1), sums)
    BY <2>3
  <2>5. \E more : SumsOf(w, UpTo(S, (n - 1) + 1), more)
    BY <2>3, <2>4, SumsGrow
  <2>6. (n - 1) + 1 = n
    BY <2>3
  <2> QED
    BY <2>5, <2>6
<1>2. UpTo(S, Cardinality(S)) = SUBSET S /\ Cardinality(S) \in Nat
  <2>1. \A s \in SUBSET S : Cardinality(s) <= Cardinality(S)
    BY FS_Subset
  <2> QED
    BY <2>1, FS_CardinalityType DEF UpTo
<1>3. \E sums : SumsOf(w, UpTo(S, Cardinality(S)), sums)
  BY <1>1, <1>2
<1> QED
  BY <1>2, <1>3

\* Two such tables agree where both are.
LEMMA SumsAgree ==
  ASSUME NEW w, NEW S, IsFiniteSet(S), NEW R \in SUBSET S, NEW sums, NEW other,
         SumsOf(w, SUBSET S, sums), SumsOf(w, SUBSET R, other)
  PROVE  sums[R] = other[R]
<1> DEFINE differ == {n \in Nat : \E s \in SUBSET R : Cardinality(s) = n /\ sums[s] # other[s]}
<1>1. ASSUME NEW s \in SUBSET R
      PROVE  /\ sums[s] = IF s = {} THEN 0 ELSE w[Taken(s)] + sums[s \ {Taken(s)}]
             /\ other[s] = IF s = {} THEN 0 ELSE w[Taken(s)] + other[s \ {Taken(s)}]
  BY DEF SumsOf
<1>2. IsFiniteSet(R)
  BY FS_Subset
<1>3. differ = {}
  <2> SUFFICES ASSUME differ # {}
               PROVE  FALSE
    OBVIOUS
  <2>1. PICK n \in differ : \A m \in differ : n <= m
    <3>1. differ \in SUBSET Nat
      OBVIOUS
    <3> HIDE DEF differ
    <3> QED
      BY <3>1, LeastNumber
  <2>2. PICK s \in SUBSET R : Cardinality(s) = n /\ sums[s] # other[s]
    OBVIOUS
  <2>3. s # {}
    BY <1>1, <2>2
  <2>4. /\ s \ {Taken(s)} \in SUBSET R /\ Cardinality(s \ {Taken(s)}) = n - 1
        /\ Cardinality(s \ {Taken(s)}) \in Nat /\ n \in Nat
    BY <1>2, <2>2, <2>3, OneTaken
  <2>5. n - 1 \notin differ
    BY <2>1, <2>4
  <2>6. sums[s \ {Taken(s)}] = other[s \ {Taken(s)}]
    BY <2>4, <2>5
  <2> QED
    BY <1>1, <2>2, <2>3, <2>6
<1> QED
  BY <1>2, <1>3, FS_CardinalityType

\* The sum over nothing, and over what one was taken from.
LEMMA SumTakes ==
  ASSUME NEW w, NEW S, IsFiniteSet(S)
  PROVE  SumFunctionOnSet(w, S) =
           IF S = {} THEN 0 ELSE w[Taken(S)] + SumFunctionOnSet(w, S \ {Taken(S)})
<1> DEFINE rest == S \ {Taken(S)}
           sums == CHOOSE f : SumsOf(w, SUBSET S, f)
           other == CHOOSE f : SumsOf(w, SUBSET rest, f)
<1>1. IsFiniteSet(rest) /\ rest \in SUBSET S
  BY FS_Subset
<1>2. SumsOf(w, SUBSET S, sums) /\ SumsOf(w, SUBSET rest, other)
  <2> HIDE DEF rest
  <2> QED
    BY <1>1, SumsExist
<1>3. SumFunctionOnSet(w, S) = sums[S] /\ SumFunctionOnSet(w, rest) = other[rest]
  BY SumIsFold
<1> HIDE DEF sums, other
<1>4. sums[S] = IF S = {} THEN 0 ELSE w[Taken(S)] + sums[rest]
  BY <1>2 DEF SumsOf
<1>5. sums[rest] = other[rest]
  <2> HIDE DEF rest
  <2> QED
    BY <1>1, <1>2, SumsAgree
<1> QED
  BY <1>3, <1>4, <1>5

LEMMA SumOfNone ==
  ASSUME NEW w
  PROVE  SumFunctionOnSet(w, {}) = 0
<1>1. IsFiniteSet({})
  BY FS_EmptySet
<1> QED
  BY <1>1, SumTakes

LEMMA SumType ==
  ASSUME NEW w, NEW S, IsFiniteSet(S), \A x \in S : w[x] \in Int
  PROVE  SumFunctionOnSet(w, S) \in Int
<1> DEFINE bad == {n \in Nat : \E s \in SUBSET S : Cardinality(s) = n /\ SumFunctionOnSet(w, s) \notin Int}
<1>1. bad = {}
  <2> SUFFICES ASSUME bad # {}
               PROVE  FALSE
    OBVIOUS
  <2>1. PICK n \in bad : \A m \in bad : n <= m
    <3>1. bad \in SUBSET Nat
      OBVIOUS
    <3> HIDE DEF bad
    <3> QED
      BY <3>1, LeastNumber
  <2>2. PICK s \in SUBSET S : Cardinality(s) = n /\ SumFunctionOnSet(w, s) \notin Int
    OBVIOUS
  <2>3. IsFiniteSet(s)
    BY FS_Subset
  <2>4. s # {}
    BY <2>2, SumOfNone
  <2>5. /\ Taken(s) \in s /\ s \ {Taken(s)} \in SUBSET S /\ Cardinality(s \ {Taken(s)}) = n - 1
        /\ Cardinality(s \ {Taken(s)}) \in Nat /\ n \in Nat
    BY <2>2, <2>4, OneTaken
  <2>6. n - 1 \notin bad
    BY <2>1, <2>5
  <2>7. SumFunctionOnSet(w, s \ {Taken(s)}) \in Int
    BY <2>5, <2>6
  <2>8. w[Taken(s)] \in Int
    BY <2>5
  <2>9. SumFunctionOnSet(w, s) = w[Taken(s)] + SumFunctionOnSet(w, s \ {Taken(s)})
    BY <2>3, <2>4, SumTakes
  <2> QED
    BY <2>2, <2>7, <2>8, <2>9
<1> QED
  BY <1>1, FS_CardinalityType

\* Any one may be taken.
LEMMA SumWithout ==
  ASSUME NEW w, NEW S, IsFiniteSet(S), \A x \in S : w[x] \in Int, NEW x \in S
  PROVE  SumFunctionOnSet(w, S) = w[x] + SumFunctionOnSet(w, S \ {x})
<1> DEFINE Takes(s, y) == SumFunctionOnSet(w, s) = w[y] + SumFunctionOnSet(w, s \ {y})
           bad == {n \in Nat : \E s \in SUBSET S : Cardinality(s) = n /\ \E y \in s : ~Takes(s, y)}
<1>1. bad = {}
  <2> SUFFICES ASSUME bad # {}
               PROVE  FALSE
    OBVIOUS
  <2>1. PICK n \in bad : \A m \in bad : n <= m
    <3>1. bad \in SUBSET Nat
      OBVIOUS
    <3> HIDE DEF bad
    <3> QED
      BY <3>1, LeastNumber
  <2>0. PICK s \in SUBSET S : Cardinality(s) = n /\ \E y \in s : ~Takes(s, y)
    OBVIOUS
  <2>2. PICK y \in s : Cardinality(s) = n /\ ~Takes(s, y)
    BY <2>0
  <2> DEFINE p == Taken(s)
             rest == s \ {p}
             less == s \ {y}
             both == rest \ {y}
  <2>3. IsFiniteSet(s) /\ IsFiniteSet(rest) /\ IsFiniteSet(less) /\ IsFiniteSet(both)
    BY FS_Subset
  <2>4. SumFunctionOnSet(w, s) = w[p] + SumFunctionOnSet(w, rest)
    BY <2>3, SumTakes
  <2>5. /\ p \in s /\ rest \in SUBSET S /\ Cardinality(rest) = n - 1
        /\ n - 1 \in Nat /\ n \in Nat
    <3>1. s # {}
      OBVIOUS
    <3> HIDE DEF bad
    <3>2. /\ Taken(s) \in s /\ s \ {Taken(s)} \in SUBSET S
          /\ Cardinality(s) \in Nat /\ Cardinality(s \ {Taken(s)}) = Cardinality(s) - 1
          /\ Cardinality(s \ {Taken(s)}) \in Nat
      BY <3>1, OneTaken, Zenon
    <3> QED
      BY <2>2, <3>2
  <2>6. p # y
    BY <2>2, <2>4
  <2>7. less \in SUBSET S /\ Cardinality(less) = n - 1 /\ p \in less /\ y \in rest
    <3>1. Cardinality(less) = n - 1
      BY <2>2, <2>3, FS_RemoveElement
    <3> QED
      BY <3>1, <2>5, <2>6
  <2>8. n - 1 \notin bad
    BY <2>1, <2>5
  <2>9. Takes(rest, y) /\ Takes(less, p)
    <3> HIDE DEF Takes, rest, less, p
    <3> QED
      BY <2>5, <2>7, <2>8
  <2>10. less \ {p} = both
    OBVIOUS
  <2>11. /\ SumFunctionOnSet(w, rest) = w[y] + SumFunctionOnSet(w, both)
         /\ SumFunctionOnSet(w, less) = w[p] + SumFunctionOnSet(w, both)
    BY <2>9, <2>10
  <2>12. w[p] \in Int /\ w[y] \in Int /\ SumFunctionOnSet(w, both) \in Int
    BY <2>3, <2>5, SumType
  <2>13. SumFunctionOnSet(w, s) = w[y] + SumFunctionOnSet(w, less)
    <3> HIDE DEF p, rest, less, both
    <3> QED
      BY <2>4, <2>11, <2>12
  <2> QED
    BY <2>2, <2>13
<1>2. Cardinality(S) \in Nat
  BY FS_CardinalityType
<1>3. Takes(S, x)
  <2> HIDE DEF Takes
  <2> QED
    BY <1>1, <1>2
<1> QED
  BY <1>3

\* Sums compare as their terms do, each times the same number.
LEMMA SumBelow ==
  ASSUME NEW w, NEW v, NEW S, IsFiniteSet(S), NEW c \in Int, NEW d \in Int,
         \A x \in S : w[x] \in Int /\ v[x] \in Int /\ c * w[x] <= d * v[x]
  PROVE  c * SumFunctionOnSet(w, S) <= d * SumFunctionOnSet(v, S)
<1> DEFINE Below(s) == c * SumFunctionOnSet(w, s) <= d * SumFunctionOnSet(v, s)
           bad == {n \in Nat : \E s \in SUBSET S : Cardinality(s) = n /\ ~Below(s)}
<1>1. bad = {}
  <2> SUFFICES ASSUME bad # {}
               PROVE  FALSE
    OBVIOUS
  <2>1. PICK n \in bad : \A m \in bad : n <= m
    <3>1. bad \in SUBSET Nat
      OBVIOUS
    <3> HIDE DEF bad
    <3> QED
      BY <3>1, LeastNumber
  <2>2. PICK s \in SUBSET S : Cardinality(s) = n /\ ~Below(s)
    OBVIOUS
  <2> DEFINE p == Taken(s)
             rest == s \ {p}
  <2>3. IsFiniteSet(s) /\ IsFiniteSet(rest)
    BY FS_Subset
  <2>4. s # {}
    <3>1. ASSUME s = {}
          PROVE  SumFunctionOnSet(w, s) = 0 /\ SumFunctionOnSet(v, s) = 0
      BY <3>1, SumOfNone
    <3> QED
      BY <2>2, <3>1
  <2>5. /\ p \in s /\ rest \in SUBSET S /\ Cardinality(rest) = n - 1 /\ n - 1 \in Nat
    <3> HIDE DEF bad
    <3>1. /\ Taken(s) \in s /\ s \ {Taken(s)} \in SUBSET S
          /\ Cardinality(s) \in Nat /\ Cardinality(s \ {Taken(s)}) = Cardinality(s) - 1
          /\ Cardinality(s \ {Taken(s)}) \in Nat
      BY <2>4, OneTaken, Zenon
    <3> QED
      BY <2>2, <3>1
  <2>6. n - 1 \notin bad
    BY <2>1, <2>5
  <2>7. Below(rest)
    <3> HIDE DEF Below, rest
    <3> QED
      BY <2>5, <2>6
  <2>8. /\ SumFunctionOnSet(w, s) = w[p] + SumFunctionOnSet(w, rest)
        /\ SumFunctionOnSet(v, s) = v[p] + SumFunctionOnSet(v, rest)
    BY <2>3, <2>4, SumTakes
  <2>9. PICK a \in Int, b \in Int, e \in Int, f \in Int :
          a = w[p] /\ b = SumFunctionOnSet(w, rest) /\ e = v[p] /\ f = SumFunctionOnSet(v, rest)
    BY <2>3, <2>5, SumType
  <2>10. c * a <= d * e /\ c * b <= d * f
    BY <2>5, <2>7, <2>9
  <2>11. c * (a + b) = c * a + c * b /\ d * (e + f) = d * e + d * f
         /\ c * a \in Int /\ c * b \in Int /\ d * e \in Int /\ d * f \in Int
    OBVIOUS
  <2>12. c * (a + b) <= d * (e + f)
    <3>1. PICK ca \in Int, cb \in Int, de \in Int, df \in Int :
            ca = c * a /\ cb = c * b /\ de = d * e /\ df = d * f
      BY <2>11
    <3> QED
      BY <3>1, <2>10, <2>11
  <2> QED
    BY <2>2, <2>8, <2>9, <2>12
<1>2. Cardinality(S) \in Nat
  BY FS_CardinalityType
<1>3. Below(S)
  <2> HIDE DEF Below
  <2> QED
    BY <1>1, <1>2
<1> QED
  BY <1>3

-----------------------------------------------------------------------------
(* A mean lies between the least and the greatest *)

(* A quotient is a whole number, and the remainder is less than the divisor. *)
LEMMA Quotient ==
  ASSUME NEW x \in Int, NEW y \in Nat, y > 0
  PROVE  /\ x \div y \in Int
         /\ y * (x \div y) <= x /\ x < y * (x \div y) + y
BY SMT

(* What lies between two multiples rounds to a number between them. *)
LEMMA RoundedWithin ==
  ASSUME NEW a \in Int, NEW b \in Nat, b > 0, NEW lo \in Int, NEW hi \in Int,
         lo * b <= a, a <= hi * b
  PROVE  Rounded(a, b) \in lo..hi
<1>1. PICK r : r = Rounded(a, b)
  OBVIOUS
<1>2. 2 * a + b \in Int /\ 2 * b \in Nat /\ 2 * b > 0
  BY SMT
<1>3. r \in Int /\ (2 * b) * r <= 2 * a + b /\ 2 * a + b < (2 * b) * r + 2 * b
  BY <1>1, <1>2, Quotient DEF Rounded
<1>4. r <= hi
  <2> SUFFICES ASSUME r >= hi + 1 PROVE FALSE
    BY <1>3, SMT
  <2>1. (2 * b) * r >= (2 * b) * (hi + 1)
    BY <1>3, SMT
  <2> QED
    BY <1>3, <2>1, SMT
<1>5. lo <= r
  <2> SUFFICES ASSUME lo >= r + 1 PROVE FALSE
    BY <1>3, SMT
  <2>1. (2 * b) * lo >= (2 * b) * (r + 1)
    BY <1>3, SMT
  <2> QED
    BY <1>3, <2>1, SMT
<1> QED
  BY <1>1, <1>3, <1>4, <1>5, SMT

(* In tenths, it is less than half a unit off. *)
LEMMA RoundedToTenths ==
  ASSUME NEW a \in Int, NEW b \in Nat, b > 0, NEW lo \in Int, NEW hi \in Int,
         lo * b <= a, a <= hi * b
  PROVE  10 * Rounded(a, 10 * b) \in (lo - 5)..(hi + 5)
<1>1. PICK r : r = Rounded(a, 10 * b)
  OBVIOUS
<1>2. 2 * a + 10 * b \in Int /\ 2 * (10 * b) \in Nat /\ 2 * (10 * b) > 0
  BY SMT
<1>3. r \in Int /\ (2 * (10 * b)) * r <= 2 * a + 10 * b /\ 2 * a + 10 * b < (2 * (10 * b)) * r + 2 * (10 * b)
  BY <1>1, <1>2, Quotient DEF Rounded
<1>4. 10 * r <= hi + 5
  <2> SUFFICES ASSUME 10 * r >= hi + 6 PROVE FALSE
    BY <1>3, SMT
  <2>1. (2 * b) * (10 * r) >= (2 * b) * (hi + 6)
    BY <1>3, SMT
  <2> QED
    BY <1>3, <2>1, SMT
<1>5. lo - 5 <= 10 * r
  <2> SUFFICES ASSUME lo - 6 >= 10 * r PROVE FALSE
    BY <1>3, SMT
  <2>1. (2 * b) * (lo - 6) >= (2 * b) * (10 * r)
    BY <1>3, SMT
  <2> QED
    BY <1>3, <2>1, SMT
<1> QED
  BY <1>1, <1>3, <1>4, <1>5, SMT

(* A sum of positive numbers is positive. *)
LEMMA SumPositive ==
  ASSUME NEW w, NEW S, IsFiniteSet(S), S # {}, \A x \in S : w[x] \in Nat /\ w[x] > 0
  PROVE  SumFunctionOnSet(w, S) \in Nat /\ SumFunctionOnSet(w, S) > 0
<1>1. \A x \in S : w[x] \in Int
  BY SMT
<1>2. PICK x \in S : TRUE
  OBVIOUS
<1> DEFINE R == S \ {x}
<1>3. SumFunctionOnSet(w, S) = w[x] + SumFunctionOnSet(w, R)
  BY <1>1, SumWithout
<1>4. IsFiniteSet(R) /\ \A y \in R : w[y] \in Int
  BY <1>1, FS_RemoveElement
<1> HIDE DEF R
<1>5. SumFunctionOnSet(w, R) \in Int
  BY <1>4, SumType
<1>6. SumFunctionOnSet(w, R) >= 0
  <2>1. R \subseteq S
    BY DEF R
  <2>2. \A y \in R : w[y] \in Int /\ w[y] \in Int /\ 0 * w[y] <= 1 * w[y]
    BY <2>1, SMT
  <2>3. 0 * SumFunctionOnSet(w, R) <= 1 * SumFunctionOnSet(w, R)
    BY <1>4, <2>2, SumBelow
  <2> QED
    BY <1>5, <2>3, SMT
<1>7. w[x] \in Nat /\ w[x] > 0
  BY <1>2
<1> QED
  BY <1>3, <1>5, <1>6, <1>7, SMT

(* Of some numbers up to n, one is the least and one the greatest. *)
LEMMA Extremes ==
  ASSUME NEW n \in Nat, NEW N, N \subseteq 0..n, N # {}
  PROVE  /\ Min(N) \in N /\ Max(N) \in N
         /\ \A k \in N : Min(N) <= k /\ k <= Max(N)
<1>1. N \in SUBSET Nat
  BY SMT
<1>2. Min(N) \in N /\ \A k \in N : Min(N) <= k
  <2>1. \E m \in N : \A k \in N : m <= k
    BY <1>1, LeastNumber
  <2> QED
    BY <2>1, Zenon DEF Min
<1>3. Max(N) \in N /\ \A k \in N : k <= Max(N)
  <2> DEFINE B == {b \in Nat : \A k \in N : k <= b}
  <2>1. n \in B /\ B \in SUBSET Nat
    BY SMT
  <2>2. PICK m \in B : \A b \in B : m <= b
    BY <2>1, LeastNumber
  <2>3. m \in Nat /\ \A k \in N : k <= m /\ k \in Nat
    BY <1>1, <2>2
  <2>4. m \in N
    <3> SUFFICES ASSUME m \notin N PROVE FALSE
      OBVIOUS
    <3>1. \A k \in N : k <= m - 1 /\ m > 0
      BY <2>3, SMT
    <3>2. m > 0 /\ m - 1 \in Nat
      <4>1. \E k \in N : TRUE
        OBVIOUS
      <4>2. m > 0
        BY <3>1, <4>1
      <4> QED
        BY <2>3, <4>2, SMT
    <3>3. m - 1 \in B
      BY <3>1, <3>2
    <3>4. m <= m - 1
      BY <2>2, <3>3
    <3> QED
      BY <2>3, <3>4, SMT
  <2>5. \E x \in N : \A k \in N : x >= k
    BY <2>3, <2>4, SMT
  <2>6. Max(N) \in N /\ \A k \in N : Max(N) >= k
    BY <2>5, Zenon DEF Max
  <2> QED
    BY <1>1, <2>6, SMT
<1> QED
  BY <1>2, <1>3
-----------------------------------------------------------------------------
(* Scores and the versions of the profile *)

(* A score takes the place of the one with its key, and comes last. *)
LEMMA Upserted ==
  ASSUME NEW S, scores \in Seq(S), NEW row
  PROVE  \E T, k : LET t == Upsert(row) n == Len(scores) IN
           /\ t \in Seq(T) /\ k \in 1..(n + 1) /\ Len(t) \in Nat /\ Len(t) > 0
           /\ k <= n => k \in SameKey(row)
           /\ Len(t) = IF k <= n THEN n ELSE n + 1
           /\ t[Len(t)] = row
           /\ \A i \in 1..(Len(t) - 1) : t[i] = IF i < k THEN scores[i] ELSE scores[i + 1]
<1> DEFINE n == Len(scores)
           T == S \cup {row}
<1>1. n \in Nat /\ DOMAIN scores = 1..n /\ \A i \in 1..n : scores[i] \in T
  BY LenProperties, ElementOfSeq, Zenon
<1>2. scores \in Seq(T) /\ row \in T
  BY SeqMonotonic, Zenon
<1> HIDE DEF T
<1>3. CASE SameKey(row) = {}
  <2>1. Upsert(row) = Append(scores, row)
    BY <1>3, Zenon DEF Upsert
  <2>2. /\ Append(scores, row) \in Seq(T) /\ Len(Append(scores, row)) = n + 1
        /\ Append(scores, row)[n + 1] = row
        /\ \A i \in 1..n : Append(scores, row)[i] = scores[i]
    BY <1>2, SMT
  <2>3. \A i \in 1..n : i < n + 1
    BY <1>1, SMT
  <2>4. n + 1 \in 1..(n + 1) /\ ~(n + 1 <= n) /\ n + 1 > 0 /\ (n + 1) - 1 = n /\ n + 1 \in Nat
    BY <1>1, SMT
  <2> HIDE DEF n
  <2>5. /\ Upsert(row) \in Seq(T) /\ Len(Upsert(row)) = n + 1 /\ Upsert(row)[Len(Upsert(row))] = row
        /\ \A i \in 1..(Len(Upsert(row)) - 1) : Upsert(row)[i] = IF i < n + 1 THEN scores[i] ELSE scores[i + 1]
    BY <2>1, <2>2, <2>3, <2>4, Zenon
  <2> QED
    BY <2>4, <2>5, Zenon DEF n
<1>4. CASE SameKey(row) # {}
  <2> DEFINE k == CHOOSE i \in SameKey(row) : TRUE
             a == SubSeq(scores, 1, k - 1)
             b == SubSeq(scores, k + 1, n)
  <2>1. k \in SameKey(row)
    BY <1>4, Zenon
  <2>2. k \in 1..n
    BY <1>1, <2>1, Zenon DEF SameKey
  <2>3. Upsert(row) = Append(a \o b, row)
    BY <1>4, Zenon DEF Upsert, RemoveAt
  <2> HIDE DEF k
  <2>4. a \in Seq(T) /\ Len(a) = k - 1 /\ \A i \in 1..(k - 1) : a[i] = scores[i]
    <3>1. \A i \in 1..(k - 1) : scores[i] \in T /\ 1 + i - 1 = i
      BY <1>1, <2>2, SMT
    <3>2. /\ a \in Seq(T) /\ Len(a) = (IF 1 <= k - 1 THEN (k - 1) - 1 + 1 ELSE 0)
          /\ \A i \in 1..((k - 1) - 1 + 1) : a[i] = scores[1 + i - 1]
      <4>1. 1 \in Int /\ k - 1 \in Int
        BY <2>2, SMT
      <4> QED
        BY <3>1, <4>1, SubSeqProperties, SMT
    <3> HIDE DEF a
    <3> QED
      BY <2>2, <3>1, <3>2, SMT
  <2>5. b \in Seq(T) /\ Len(b) = n - k /\ \A i \in 1..(n - k) : b[i] = scores[k + i]
    <3>1. \A i \in (k + 1)..n : scores[i] \in T
      BY <1>1, <2>2, SMT
    <3>2. /\ b \in Seq(T) /\ Len(b) = (IF k + 1 <= n THEN n - (k + 1) + 1 ELSE 0)
          /\ \A i \in 1..(n - (k + 1) + 1) : b[i] = scores[(k + 1) + i - 1]
      <4>1. k + 1 \in Int /\ n \in Int
        BY <1>1, <2>2, SMT
      <4> QED
        BY <3>1, <4>1, SubSeqProperties, SMT
    <3>3. n - (k + 1) + 1 = n - k /\ \A i \in 1..(n - k) : (k + 1) + i - 1 = k + i
      BY <1>1, <2>2, SMT
    <3> HIDE DEF b, n
    <3>4. \A i \in 1..(n - k) : b[i] = scores[k + i]
      BY <3>2, <3>3, Zenon
    <3>5. Len(b) = n - k
      BY <1>1, <2>2, <3>2, SMT
    <3> QED
      BY <3>2, <3>4, <3>5
  <2> HIDE DEF a, b
  <2>6. a \o b \in Seq(T) /\ Len(a \o b) = n - 1
        /\ \A i \in 1..(n - 1) : (a \o b)[i] = IF i < k THEN scores[i] ELSE scores[i + 1]
    <3>1. /\ a \o b \in Seq(T) /\ Len(a \o b) = Len(a) + Len(b)
          /\ \A i \in 1..(Len(a) + Len(b)) : (a \o b)[i] = IF i <= Len(a) THEN a[i] ELSE b[i - Len(a)]
      BY <2>4, <2>5, ConcatProperties, Zenon
    <3>2. Len(a) + Len(b) = n - 1
      BY <1>1, <2>2, <2>4, <2>5, SMT
    <3>3. ASSUME NEW i \in 1..(n - 1)
          PROVE  (a \o b)[i] = IF i < k THEN scores[i] ELSE scores[i + 1]
      <4>1. (a \o b)[i] = IF i <= k - 1 THEN a[i] ELSE b[i - (k - 1)]
        BY <2>4, <3>1, <3>2, Zenon
      <4>2. CASE i < k
        <5>1. i <= k - 1 /\ i \in 1..(k - 1)
          BY <1>1, <2>2, <4>2, SMT
        <5> QED
          BY <2>4, <4>1, <4>2, <5>1, Zenon
      <4>3. CASE ~(i < k)
        <5>1. ~(i <= k - 1) /\ i - (k - 1) \in 1..(n - k) /\ k + (i - (k - 1)) = i + 1
          BY <1>1, <2>2, <4>3, SMT
        <5>2. b[i - (k - 1)] = scores[i + 1]
          BY <2>5, <5>1, Zenon
        <5> QED
          BY <4>1, <4>3, <5>1, <5>2, Zenon
      <4> QED
        BY <4>2, <4>3
    <3> QED
      BY <3>1, <3>2, <3>3, Zenon
  <2>7. /\ Upsert(row) \in Seq(T) /\ Len(Upsert(row)) = n /\ Upsert(row)[n] = row
        /\ \A i \in 1..(n - 1) : Upsert(row)[i] = IF i < k THEN scores[i] ELSE scores[i + 1]
    <3>1. /\ Upsert(row) \in Seq(T) /\ Len(Upsert(row)) = Len(a \o b) + 1
          /\ \A i \in 1..Len(a \o b) : Upsert(row)[i] = (a \o b)[i]
          /\ Upsert(row)[Len(a \o b) + 1] = row
      BY <1>2, <2>3, <2>6, SMT
    <3>2. Len(a \o b) + 1 = n
      BY <1>1, <2>6, SMT
    <3> QED
      BY <2>6, <3>1, <3>2, Zenon
  <2>8. k \in 1..(n + 1) /\ k <= n /\ n > 0 /\ n \in Nat
    BY <1>1, <2>2, SMT
  <2> HIDE DEF n
  <2> QED
    BY <2>1, <2>7, <2>8, Zenon DEF n
<1> QED
  BY <1>3, <1>4
\* The scores say which version they are of, the one of their round.
RowsInv ==
  /\ \E S : scores \in Seq(S)
  /\ \A i \in DOMAIN scores :
       /\ scores[i].version \in 1..version
       /\ scores[i].round \in Rounds \cup {NoRound}
       /\ scores[i].round # NoRound => scores[i].version = pinned[scores[i].round]

VersionsInv ==
  /\ version \in Nat
  /\ pinned \in [Rounds -> Nat] /\ \A r \in Rounds : pinned[r] <= version

\* The board shows the newest score of the active version.
BoardInv ==
  /\ board = [j \in Jobs |-> board[j]]
  /\ \A j \in Jobs : \A i \in Newest(j, version) :
       (\A k \in Newest(j, version) : k <= i) => board[j] = Rounded(scores[i].final, 100)

ScoresInv == VersionsInv /\ RowsInv /\ BoardInv

(* The indices of the scores. *)
LEMMA ScoreNumbers ==
  ASSUME RowsInv
  PROVE  DOMAIN scores = 1..Len(scores) /\ Len(scores) \in Nat
BY LenProperties, Zenon DEF RowsInv

(* A score is of a version that was confirmed, of its round's when it has one. *)
LEMMA Resolved ==
  ASSUME VersionsInv, NEW asked \in 0..version, NEW round \in Rounds \cup {NoRound},
         ResolveScoreSnapshot(asked, round) # 0
  PROVE  /\ ResolveScoreSnapshot(asked, round) \in 1..version
         /\ round # NoRound => ResolveScoreSnapshot(asked, round) = pinned[round]
<1>1. CASE round # NoRound
  <2>1. ResolveScoreSnapshot(asked, round) = IF asked \in {0, pinned[round]} THEN pinned[round] ELSE 0
    BY <1>1, Zenon DEF ResolveScoreSnapshot
  <2>2. ResolveScoreSnapshot(asked, round) = pinned[round]
    BY <2>1, Zenon
  <2>3. pinned[round] \in Nat /\ pinned[round] <= version
    BY <1>1, Zenon DEF VersionsInv
  <2> QED
    BY <2>2, <2>3, SMT DEF VersionsInv
<1>2. CASE round = NoRound
  <2>1. ResolveScoreSnapshot(asked, round) = IF asked # 0 THEN asked ELSE version
    BY <1>2, Zenon DEF ResolveScoreSnapshot
  <2> QED
    BY <1>2, <2>1, SMT DEF VersionsInv
<1> QED
  BY <1>1, <1>2

(* recordMatchScore: a late score of an older version takes no place on the *)
(* board, and leaves those of the active one in their order.                *)
LEMMA ScoreKept ==
  ASSUME ScoresInv, NEW j \in Scored, NEW s \in Inputs, NEW asked \in 0..version, NEW round \in Rounds \cup {NoRound},
         RecordMatchScore(j, s, asked, round)
  PROVE  ScoresInv'
<1> DEFINE row == ScoreRow(j, s, asked, round)
<1>1. /\ scores' = Upsert(row) /\ board' = Shown(j, row) /\ UNCHANGED <<version, pinned>>
      /\ ResolveScoreSnapshot(asked, round) # 0
  BY Zenon DEF RecordMatchScore
<1>2. row.job = j /\ row.version = ResolveScoreSnapshot(asked, round) /\ row.round = round
  BY DEF ScoreRow
<1> HIDE DEF row
<1>3. row.version \in 1..version /\ (round # NoRound => row.version = pinned[round])
  BY <1>1, <1>2, Resolved, Zenon DEF ScoresInv
<1>4. PICK n : n = Len(scores)
  OBVIOUS
<1>5. DOMAIN scores = 1..n /\ n \in Nat
  BY <1>4, ScoreNumbers, Zenon DEF ScoresInv
<1>6. PICK T, k, m :
        /\ scores' \in Seq(T) /\ k \in 1..(n + 1) /\ m \in Nat /\ m > 0 /\ Len(scores') = m
        /\ k <= n => k \in SameKey(row)
        /\ m = IF k <= n THEN n ELSE n + 1
        /\ scores'[m] = row
        /\ \A i \in 1..(m - 1) : scores'[i] = IF i < k THEN scores[i] ELSE scores[i + 1]
  <2>1. PICK S : scores \in Seq(S)
    BY Zenon DEF ScoresInv, RowsInv
  <2> QED
    <3>1. PICK T, k :
            /\ Upsert(row) \in Seq(T) /\ k \in 1..(n + 1) /\ Len(Upsert(row)) \in Nat /\ Len(Upsert(row)) > 0
            /\ k <= n => k \in SameKey(row)
            /\ Len(Upsert(row)) = IF k <= n THEN n ELSE n + 1
            /\ Upsert(row)[Len(Upsert(row))] = row
            /\ \A i \in 1..(Len(Upsert(row)) - 1) : Upsert(row)[i] = IF i < k THEN scores[i] ELSE scores[i + 1]
      BY <1>4, <2>1, Upserted
    <3> QED
      BY <1>1, <3>1
<1> DEFINE From(i) == IF i < k THEN i ELSE i + 1
<1>7. DOMAIN scores' = 1..m
  BY <1>6, LenProperties, Zenon
<1>8. ASSUME NEW i \in 1..(m - 1)
      PROVE  From(i) \in 1..n /\ From(i) # k /\ scores'[i] = scores[From(i)] /\ i \in Nat
  <2>1. scores'[i] = IF i < k THEN scores[i] ELSE scores[i + 1]
    BY <1>6
  <2>2. CASE i < k
    BY <1>5, <1>6, <2>1, <2>2, SMT
  <2>3. CASE ~(i < k)
    BY <1>5, <1>6, <2>1, <2>3, SMT
  <2> QED
    BY <2>2, <2>3
<1>9. \A x \in 1..m : x = m \/ x \in 1..(m - 1)
  BY <1>6, SMT
<1>10. RowsInv'
  <2>1. ASSUME NEW i \in DOMAIN scores'
        PROVE  /\ scores'[i].version \in 1..version
               /\ scores'[i].round \in Rounds \cup {NoRound}
               /\ scores'[i].round # NoRound => scores'[i].version = pinned[scores'[i].round]
    <3>1. CASE i = m
      BY <1>2, <1>3, <1>6, <3>1, Zenon
    <3>2. CASE i \in 1..(m - 1)
      <4>1. From(i) \in DOMAIN scores /\ scores'[i] = scores[From(i)]
        BY <1>5, <1>8, <3>2, Zenon
      <4> HIDE DEF From
      <4> QED
        BY <4>1, Zenon DEF ScoresInv, RowsInv
    <3> QED
      BY <1>7, <1>9, <3>1, <3>2, Zenon
  <2> QED
    BY <1>1, <1>6, <2>1, Zenon DEF RowsInv
<1>11. DOMAIN board = Jobs /\ DOMAIN board' = Jobs /\ board' = [q \in Jobs |-> board'[q]]
  BY <1>1, Zenon DEF ScoresInv, BoardInv, Shown
<1>12. ASSUME NEW q \in Jobs, NEW i \in Newest(q, version)', \A x \in Newest(q, version)' : x <= i
       PROVE  board'[q] = Rounded(scores'[i].final, 100)
  <2>1. i \in 1..m /\ scores'[i].job = q /\ scores'[i].version = version
    BY <1>1, <1>7, <1>12, Zenon DEF Newest
  <2>2. CASE i = m
    <3>1. row.version = version /\ q = j /\ scores'[i] = row
      BY <1>2, <1>6, <2>1, <2>2, Zenon
    <3>2. board' = [board EXCEPT ![j] = Rounded(row.final, 100)]
      BY <1>1, <3>1, Zenon DEF Shown
    <3> QED
      BY <1>11, <3>1, <3>2, Zenon
  <2>3. CASE i \in 1..(m - 1)
    <3>1. From(i) \in Newest(q, version)
      <4>1. From(i) \in DOMAIN scores /\ scores'[i] = scores[From(i)]
        BY <1>5, <1>8, <2>3, Zenon
      <4> HIDE DEF From
      <4> QED
        BY <2>1, <4>1, Zenon DEF Newest
    <3>2. ~(row.job = q /\ row.version = version)
      <4> SUFFICES ASSUME row.job = q, row.version = version PROVE FALSE
        OBVIOUS
      <4>1. m \in DOMAIN scores'
        BY <1>6, <1>7, SMT
      <4>2. m \in Newest(q, version)'
        BY <1>1, <1>6, <4>1, Zenon DEF Newest
      <4>3. m <= i
        BY <1>12, <4>2
      <4> QED
        BY <1>6, <2>3, <4>3, SMT
    <3>3. board'[q] = board[q]
      <4>1. CASE row.version = version
        <5>1. board' = [board EXCEPT ![j] = Rounded(row.final, 100)] /\ q # j
          BY <1>1, <1>2, <3>2, <4>1, Zenon DEF Shown
        <5> QED
          BY <1>11, <5>1, Zenon
      <4>2. CASE row.version # version
        BY <1>1, <4>2, Zenon DEF Shown
      <4> QED
        BY <4>1, <4>2
    <3>4. ASSUME NEW x \in Newest(q, version) PROVE x <= From(i)
      <4>1. x \in 1..n /\ scores[x].job = q /\ scores[x].version = version
        BY <1>5, Zenon DEF Newest
      <4>2. x # k
        <5> SUFFICES ASSUME x = k PROVE FALSE
          OBVIOUS
        <5>1. k <= n
          BY <1>5, <4>1, SMT
        <5>2. k \in SameKey(row)
          BY <1>6, <5>1
        <5>3. scores[k].job = row.job /\ scores[k].version = row.version
          BY <5>2, Zenon DEF SameKey
        <5> QED
          BY <3>2, <4>1, <5>3, Zenon
      <4>3. PICK y : y \in 1..(m - 1) /\ From(y) = x
        <5>1. CASE x < k
          <6>1. x \in 1..(m - 1) /\ From(x) = x
            BY <1>5, <1>6, <4>1, <5>1, SMT
          <6> QED
            BY <6>1
        <5>2. CASE x > k
          <6>1. x - 1 \in 1..(m - 1) /\ From(x - 1) = x
            BY <1>5, <1>6, <4>1, <5>2, SMT
          <6> QED
            BY <6>1
        <5> QED
          BY <1>5, <1>6, <4>1, <4>2, <5>1, <5>2, SMT
      <4>4. scores'[y] = scores[x] /\ y \in DOMAIN scores'
        <5>1. scores'[y] = scores[From(y)]
          BY <1>8, <4>3
        <5>2. y \in 1..m
          BY <1>6, <4>3, SMT
        <5> HIDE DEF From
        <5> QED
          BY <1>7, <4>3, <5>1, <5>2, Zenon
      <4>5. y \in Newest(q, version)'
        BY <1>1, <4>1, <4>4, Zenon DEF Newest
      <4>6. y <= i
        BY <1>12, <4>5
      <4> QED
        BY <1>6, <2>3, <4>3, <4>6, SMT
    <3>5. board[q] = Rounded(scores[From(i)].final, 100)
      <4> HIDE DEF From
      <4> QED
        BY <3>1, <3>4, Zenon DEF ScoresInv, BoardInv
    <3> QED
      BY <1>8, <2>3, <3>3, <3>5
  <2> QED
    BY <1>9, <2>1, <2>2, <2>3
<1>13. BoardInv'
  BY <1>1, <1>11, <1>12, Zenon DEF BoardInv
<1>14. VersionsInv'
  BY <1>1, Zenon DEF ScoresInv, VersionsInv
<1> QED
  BY <1>10, <1>13, <1>14 DEF ScoresInv

(* The board shows the same while no score, version or board entry is written. *)
LEMMA BoardStays ==
  ASSUME BoardInv, UNCHANGED <<version, scores, board>>
  PROVE  BoardInv'
<1>1. \A q \in Jobs : Newest(q, version)' = Newest(q, version)
  BY Zenon DEF Newest
<1>2. board' = [j \in Jobs |-> board'[j]]
  BY Zenon DEF BoardInv
<1>3. ASSUME NEW j \in Jobs, NEW i \in Newest(j, version)', \A k \in Newest(j, version)' : k <= i
      PROVE  board'[j] = Rounded(scores'[i].final, 100)
  <2>1. i \in Newest(j, version) /\ \A k \in Newest(j, version) : k <= i
    BY <1>1, <1>3, Zenon
  <2>2. board[j] = Rounded(scores[i].final, 100)
    BY <2>1, Zenon DEF BoardInv
  <2> QED
    BY <2>2, Zenon
<1> QED
  BY <1>2, <1>3, Zenon DEF BoardInv

(* A round keeps the version it began with, and had no score before. *)
LEMMA RoundKept ==
  ASSUME ScoresInv, NEW r \in Rounds, StartSearchRound(r)
  PROVE  ScoresInv'
<1>1. pinned[r] = 0 /\ pinned' = [pinned EXCEPT ![r] = version] /\ UNCHANGED <<version, scores, board>>
  BY Zenon DEF StartSearchRound
<1>2. VersionsInv'
  <2>1. version <= version
    BY SMT DEF ScoresInv, VersionsInv
  <2> QED
    BY <1>1, <2>1, Zenon DEF ScoresInv, VersionsInv
<1>3. ASSUME NEW i \in DOMAIN scores, scores[i].round # NoRound
      PROVE  scores[i].version = pinned'[scores[i].round]
  <2>1. scores[i].version = pinned[scores[i].round] /\ scores[i].version \in 1..version /\ scores[i].round \in Rounds
    BY <1>3, Zenon DEF ScoresInv, RowsInv
  <2>2. scores[i].version # 0
    BY <2>1, SMT
  <2> QED
    BY <1>1, <2>1, <2>2, Zenon DEF ScoresInv, VersionsInv
<1>4. RowsInv'
  BY <1>1, <1>3, Zenon DEF ScoresInv, RowsInv
<1>5. BoardInv'
  BY <1>1, BoardStays DEF ScoresInv
<1> QED
  BY <1>2, <1>4, <1>5 DEF ScoresInv

(* A new version has no score yet. *)
LEMMA ConfirmKept ==
  ASSUME ScoresInv, ConfirmProfile
  PROVE  ScoresInv'
<1>1. version' = version + 1 /\ UNCHANGED <<pinned, scores, board>> /\ version \in Nat
  BY Zenon DEF ConfirmProfile, ScoresInv, VersionsInv
<1>2. VersionsInv'
  BY <1>1, SMT DEF ScoresInv, VersionsInv
<1>3. \A x \in 1..version : x \in 1..version' /\ x # version'
  BY <1>1, SMT
<1>4. RowsInv'
  BY <1>1, <1>3, Zenon DEF ScoresInv, RowsInv
<1>5. \A q \in Jobs : Newest(q, version)' = {}
  BY <1>1, <1>3, Zenon DEF ScoresInv, RowsInv, Newest
<1>6. BoardInv'
  BY <1>1, <1>5, Zenon DEF ScoresInv, BoardInv
<1> QED
  BY <1>2, <1>4, <1>6 DEF ScoresInv

(* The scores start with none, and every step keeps them. *)
LEMMA ScoresStart == Init => ScoresInv
<1> SUFFICES ASSUME Init PROVE ScoresInv
  OBVIOUS
<1>1. version = 0 /\ scores = <<>> /\ pinned = [r \in Rounds |-> 0] /\ board = [j \in Jobs |-> 0]
  BY Zenon DEF Init
<1>2. VersionsInv
  BY <1>1, SMT DEF VersionsInv
<1>3. <<>> \in Seq({}) /\ DOMAIN scores = {}
  BY <1>1, SMT
<1>4. RowsInv
  BY <1>1, <1>3, Zenon DEF RowsInv
<1>5. BoardInv
  BY <1>1, <1>3, Zenon DEF BoardInv, Newest
<1> QED
  BY <1>2, <1>4, <1>5 DEF ScoresInv

LEMMA ScoresKept == ScoresInv /\ [Next]_vars => ScoresInv'
<1> SUFFICES ASSUME ScoresInv, [Next]_vars PROVE ScoresInv'
  OBVIOUS
<1>1. CASE UNCHANGED scoreVars
  <2>1. UNCHANGED <<version, pinned, scores, board>>
    BY <1>1, Zenon DEF scoreVars
  <2>2. VersionsInv' /\ RowsInv'
    BY <2>1, Zenon DEF ScoresInv, VersionsInv, RowsInv
  <2>3. BoardInv'
    BY <2>1, BoardStays DEF ScoresInv
  <2> QED
    BY <2>2, <2>3 DEF ScoresInv
<1>2. CASE \E j \in Scored, s \in Inputs, v \in 0..version, r \in Rounds \cup {NoRound} : RecordMatchScore(j, s, v, r)
  BY <1>2, ScoreKept
<1>3. CASE \E r \in Rounds : StartSearchRound(r)
  BY <1>3, RoundKept
<1>4. CASE ConfirmProfile
  BY <1>4, ConfirmKept
<1> QED
  BY <1>1, <1>2, <1>3, <1>4, Zenon DEF Next, vars

(* The versions of the profile do not mix: the scores of a round are of the  *)
(* version it began with, and the board shows the newest score of the active *)
(* version, whatever late answers about older versions are recorded after    *)
(* it, for any number of vacancies, rounds, versions and scores              *)
(* (match-scores.ts resolveScoreSnapshot, recordMatchScore).                 *)
THEOREM VersionsStayApart == Spec => []VersionsDoNotMix
<1>1. Init => ScoresInv
  BY ScoresStart
<1>2. ScoresInv /\ [Next]_vars => ScoresInv'
  BY ScoresKept
<1>3. ScoresInv => VersionsDoNotMix
  <2> SUFFICES ASSUME ScoresInv PROVE VersionsDoNotMix
    OBVIOUS
  <2>1. ASSUME NEW j \in Jobs, Newest(j, version) # {}
        PROVE  board[j] = Rounded(scores[Max(Newest(j, version))].final, 100)
    <3>1. Newest(j, version) \subseteq 0..Len(scores) /\ Len(scores) \in Nat
      <4>1. DOMAIN scores = 1..Len(scores) /\ Len(scores) \in Nat
        BY ScoreNumbers DEF ScoresInv
      <4>2. 1..Len(scores) \subseteq 0..Len(scores)
        BY <4>1, SMT
      <4> QED
        BY <4>1, <4>2, Zenon DEF Newest
    <3>2. Max(Newest(j, version)) \in Newest(j, version)
          /\ \A k \in Newest(j, version) : k <= Max(Newest(j, version))
      BY <2>1, <3>1, Extremes
    <3> QED
      BY <3>2, Zenon DEF ScoresInv, BoardInv
  <2> QED
    BY <2>1, Zenon DEF ScoresInv, RowsInv, VersionsDoNotMix
<1> QED
  BY <1>1, <1>2, <1>3, PTL DEF Spec

-----------------------------------------------------------------------------
(* The mean of the criteria given *)

(* A few members keep a set finite. *)
LEMMA ThreeMore ==
  ASSUME NEW S, IsFiniteSet(S), NEW a, NEW b, NEW c
  PROVE  IsFiniteSet(S \cup {a, b, c})
<1>1. IsFiniteSet(S \cup {a})
  BY FS_AddElement
<1>2. IsFiniteSet((S \cup {a}) \cup {b})
  BY <1>1, FS_AddElement
<1>3. IsFiniteSet(((S \cup {a}) \cup {b}) \cup {c})
  BY <1>2, FS_AddElement
<1>4. ((S \cup {a}) \cup {b}) \cup {c} = S \cup {a, b, c}
  OBVIOUS
<1> QED
  BY <1>3, <1>4

(* The six weights are positive. *)
LEMMA CriteriaWeigh ==
  /\ Criteria = {"role_family", "skills", "seniority", "location_work_model", "compensation", "explicit_preferences"}
  /\ IsFiniteSet(Criteria)
  /\ \A k \in Criteria : MatchWeights[k] \in Nat /\ MatchWeights[k] > 0
<1>1. Criteria = {"role_family", "skills", "seniority", "location_work_model", "compensation", "explicit_preferences"}
  BY DEF Criteria, MatchWeights
<1>2. IsFiniteSet(Criteria)
  <2>1. IsFiniteSet({})
    BY FS_EmptySet
  <2>2. IsFiniteSet({} \cup {"role_family", "skills", "seniority"})
    BY <2>1, ThreeMore
  <2>3. IsFiniteSet(({} \cup {"role_family", "skills", "seniority"})
                      \cup {"location_work_model", "compensation", "explicit_preferences"})
    BY <2>2, ThreeMore
  <2>4. ({} \cup {"role_family", "skills", "seniority"})
          \cup {"location_work_model", "compensation", "explicit_preferences"} = Criteria
    BY <1>1
  <2> QED
    BY <2>3, <2>4
<1>3. \A k \in Criteria : MatchWeights[k] \in Nat /\ MatchWeights[k] > 0
  BY <1>1, SMT DEF MatchWeights
<1> QED
  BY <1>1, <1>2, <1>3

(* The weight of some criteria is the sum of theirs. *)
LEMMA WeightIsSum ==
  ASSUME NEW ks \in SUBSET Criteria
  PROVE  /\ IsFiniteSet(ks) /\ Weight(ks) = SumFunctionOnSet(MatchWeights, ks)
         /\ Weight(ks) \in Nat /\ (ks # {} => Weight(ks) > 0)
<1>1. IsFiniteSet(ks)
  BY CriteriaWeigh, FS_Subset
<1>2. Weight(ks) = SumFunctionOnSet(MatchWeights, ks)
  BY Zenon DEF Weight, WeightOf
<1>3. \A k \in ks : MatchWeights[k] \in Nat /\ MatchWeights[k] > 0
  BY CriteriaWeigh
<1>4. CASE ks = {}
  BY <1>1, <1>2, <1>4, SumOfNone, SMT
<1>5. CASE ks # {}
  BY <1>1, <1>2, <1>3, <1>5, SumPositive
<1> QED
  BY <1>1, <1>2, <1>4, <1>5

(* The six weigh a hundred. *)
LEMMA SixWeighHundred == Weight(Criteria) = 100
<1> DEFINE Sum(S) == SumFunctionOnSet(MatchWeights, S)
<1>1. \A S \in SUBSET Criteria : \A k \in S : Sum(S) = MatchWeights[k] + Sum(S \ {k})
  <2> SUFFICES ASSUME NEW S \in SUBSET Criteria, NEW k \in S
               PROVE  Sum(S) = MatchWeights[k] + Sum(S \ {k})
    OBVIOUS
  <2>1. IsFiniteSet(S) /\ \A x \in S : MatchWeights[x] \in Int
    <3>1. IsFiniteSet(S)
      BY WeightIsSum
    <3>2. \A x \in Criteria : MatchWeights[x] \in Int
      BY CriteriaWeigh, SMT
    <3> QED
      BY <3>1, <3>2
  <2> QED
    BY <2>1, SumWithout
<1>2. Sum({}) = 0
  BY SumOfNone
<1>3. /\ MatchWeights["role_family"] = 25 /\ MatchWeights["skills"] = 25 /\ MatchWeights["seniority"] = 15
      /\ MatchWeights["location_work_model"] = 15 /\ MatchWeights["compensation"] = 10
      /\ MatchWeights["explicit_preferences"] = 10
  BY DEF MatchWeights
<1> DEFINE a == {"explicit_preferences"}
           b == {"compensation", "explicit_preferences"}
           c == {"location_work_model", "compensation", "explicit_preferences"}
           d == {"seniority", "location_work_model", "compensation", "explicit_preferences"}
           e == {"skills", "seniority", "location_work_model", "compensation", "explicit_preferences"}
<1>4. /\ a \subseteq Criteria /\ b \subseteq Criteria /\ c \subseteq Criteria /\ d \subseteq Criteria
      /\ e \subseteq Criteria
  BY CriteriaWeigh
<1>5. /\ a \ {"explicit_preferences"} = {} /\ b \ {"compensation"} = a /\ c \ {"location_work_model"} = b
      /\ d \ {"seniority"} = c /\ e \ {"skills"} = d /\ Criteria \ {"role_family"} = e
  BY CriteriaWeigh
<1>6. /\ "explicit_preferences" \in a /\ "compensation" \in b /\ "location_work_model" \in c
      /\ "seniority" \in d /\ "skills" \in e /\ "role_family" \in Criteria
  BY CriteriaWeigh
<1>7. Weight(Criteria) = Sum(Criteria)
  BY WeightIsSum
<1> HIDE DEF a, b, c, d, e, Sum
<1>8. Sum(a) = 10
  BY <1>1, <1>2, <1>3, <1>4, <1>5, <1>6
<1>9. Sum(b) = 20
  BY <1>1, <1>3, <1>4, <1>5, <1>6, <1>8
<1>10. Sum(c) = 35
  BY <1>1, <1>3, <1>4, <1>5, <1>6, <1>9
<1>11. Sum(d) = 50
  BY <1>1, <1>3, <1>4, <1>5, <1>6, <1>10
<1>12. Sum(e) = 75
  BY <1>1, <1>3, <1>4, <1>5, <1>6, <1>11
<1>13. Sum(Criteria) = 25 + Sum(e)
  BY <1>1, <1>3, <1>4, <1>5, <1>6, Zenon
<1> QED
  BY <1>7, <1>12, <1>13, SMT

(* A criterion that is given is a number up to a hundred. *)
LEMMA GivenIsNumber ==
  ASSUME NEW s \in WellGiven
  PROVE  /\ Comparable(s) \in SUBSET Criteria
         /\ \A k \in Comparable(s) : s[k] \in 0..100
<1>1. s \in Inputs /\ DOMAIN s = Criteria
  BY Zenon DEF WellGiven
<1>2. \A k \in Criteria : s[k] = None \/ s[k] \in 0..100
  BY <1>1, InputAssumption, Zenon
<1> QED
  BY <1>2, Zenon DEF Comparable

Given(s) == {100 * s[k] : k \in Comparable(s)}

(* The base is a mean of the criteria given. *)
LEMMA BaseIsMean ==
  ASSUME NEW s \in WellGiven, Comparable(s) # {}
  PROVE  /\ Given(s) \subseteq 0..10000 /\ Given(s) # {}
         /\ ScoreBase[s] \in Min(Given(s))..Max(Given(s))
<1> DEFINE C == Comparable(s)
           given == {100 * s[k] : k \in C}
           f == [k \in C |-> s[k] * MatchWeights[k]]
<1>1. /\ C \in SUBSET Criteria /\ C # {} /\ \A k \in C : s[k] \in 0..100
  BY GivenIsNumber
<1>n. PICK n : n = 10000
  OBVIOUS
<1>2. given \subseteq 0..n /\ given # {} /\ n \in Nat
  <2>1. \A k \in C : 100 * s[k] \in 0..n
    <3> SUFFICES ASSUME NEW k \in C PROVE 100 * s[k] \in 0..n
      OBVIOUS
    <3>1. s[k] \in 0..100
      BY <1>1
    <3> QED
      BY <1>n, <3>1, SMT
  <2> HIDE DEF C
  <2>2. n \in Nat
    BY <1>n, SMT
  <2> QED
    BY <1>1, <2>1, <2>2
<1>3. /\ Min(given) \in given /\ Max(given) \in given
      /\ \A g \in given : Min(given) <= g /\ g <= Max(given)
  <2> HIDE DEF given
  <2> QED
    BY <1>2, Extremes
<1>4. PICK lo, hi : lo = Min(given) /\ hi = Max(given)
  OBVIOUS
<1>5. lo \in Int /\ hi \in Int
  <2>1. lo \in 0..n /\ hi \in 0..n
    <3> HIDE DEF given
    <3> QED
      BY <1>2, <1>3, <1>4, Zenon
  <2> QED
    BY <1>2, <2>1, SMT
<1>6. IsFiniteSet(C) /\ Weight(C) = SumFunctionOnSet(MatchWeights, C) /\ Weight(C) \in Nat /\ Weight(C) > 0
  BY <1>1, WeightIsSum
<1>7. DOMAIN f = C /\ Weighed(s) = SumFunctionOnSet(f, C)
  BY Zenon DEF Weighed, SumFunction, SumFunctionOnSet, FoldFunction
<1>8. ASSUME NEW k \in C
      PROVE  /\ f[k] \in Int /\ MatchWeights[k] \in Int
             /\ lo * MatchWeights[k] <= 100 * f[k] /\ 100 * f[k] <= hi * MatchWeights[k]
  <2>1. PICK w : w = MatchWeights[k]
    OBVIOUS
  <2>2. w \in Nat /\ w > 0
    BY <1>1, <2>1, CriteriaWeigh
  <2>3. PICK v : v = s[k]
    OBVIOUS
  <2>4. v \in 0..100
    BY <1>1, <2>3
  <2>5. f[k] = v * w
    BY <2>1, <2>3
  <2>6. lo <= 100 * v /\ 100 * v <= hi
    <3>1. 100 * v \in given
      BY <2>3
    <3> HIDE DEF given
    <3> QED
      BY <1>3, <1>4, <3>1, Zenon
  <2>7. lo * w <= (100 * v) * w /\ (100 * v) * w <= hi * w
    BY <1>5, <2>2, <2>4, <2>6, SMT
  <2>8. (100 * v) * w = 100 * (v * w) /\ v * w \in Int
    BY <2>2, <2>4, SMT
  <2> QED
    BY <2>1, <2>2, <2>5, <2>7, <2>8
<1> HIDE DEF C, given, f
<1>9. SumFunctionOnSet(f, C) \in Int
  BY <1>6, <1>8, SumType
<1>10. lo * Weight(C) <= 100 * Weighed(s)
  <2>1. 100 \in Int
    BY SMT
  <2> QED
    BY <1>5, <1>6, <1>7, <1>8, <2>1, SumBelow
<1>11. 100 * Weighed(s) <= hi * Weight(C)
  <2>1. 100 \in Int
    BY SMT
  <2> QED
    BY <1>5, <1>6, <1>7, <1>8, <2>1, SumBelow
<1>12. 100 * Weighed(s) \in Int
  BY <1>7, <1>9, SMT
<1>13. Rounded(100 * Weighed(s), Weight(C)) \in lo..hi
  BY <1>5, <1>6, <1>10, <1>11, <1>12, RoundedWithin
<1>14. ScoreBase[s] = Rounded(100 * Weighed(s), Weight(C))
  BY <1>1, Zenon DEF ScoreBase, C
<1>15. given \subseteq 0..10000
  BY <1>n, <1>2
<1>16. given = Given(s)
  BY Zenon DEF C, given, Given
<1>17. ScoreBase[s] \in Min(given)..Max(given)
  BY <1>4, <1>13, <1>14
<1> QED
  BY <1>2, <1>15, <1>16, <1>17

(* With nothing given the base is zero; it is a score all the same. *)
LEMMA BaseIsScore ==
  ASSUME NEW s \in WellGiven
  PROVE  ScoreBase[s] \in Nat /\ ScoreBase[s] <= 10000
<1>1. CASE Comparable(s) = {}
  <2>1. ScoreBase[s] = 0
    BY <1>1, Zenon DEF ScoreBase
  <2> QED
    BY <2>1, SMT
<1>2. CASE Comparable(s) # {}
  <2>1. PICK given, n : given = Given(s) /\ n = 10000
    OBVIOUS
  <2>2. given \subseteq 0..n /\ ScoreBase[s] \in Min(given)..Max(given) /\ given # {}
    BY <1>2, <2>1, BaseIsMean
  <2>3. n \in Nat
    BY <2>1, SMT
  <2>4. PICK lo, hi, base : lo = Min(given) /\ hi = Max(given) /\ base = ScoreBase[s]
    OBVIOUS
  <2>5. lo \in given /\ hi \in given
    BY <2>2, <2>3, <2>4, Extremes
  <2>6. lo \in 0..n /\ hi \in 0..n /\ base \in lo..hi
    BY <2>2, <2>4, <2>5, Zenon
  <2>7. base \in Nat /\ base <= n
    BY <2>3, <2>6, SMT
  <2> QED
    BY <2>1, <2>4, <2>7
<1> QED
  BY <1>1, <1>2

(* With less than sixty parts of the weight given, the data is insufficient. *)
LEMMA LittleIsInsufficient ==
  ASSUME NEW s \in WellGiven, 100 * Weight(Comparable(s)) < 60 * Weight(Criteria)
  PROVE  Band(ScoreBase[s], CoveragePercent(s)) = "insufficient_data"
<1>1. PICK w : w = Weight(Comparable(s))
  OBVIOUS
<1>2. w \in Nat
  BY <1>1, GivenIsNumber, WeightIsSum
<1>3. CoveragePercent(s) = Rounded(10000 * w, 100)
  BY <1>1, SixWeighHundred DEF CoveragePercent
<1>4. /\ 10000 * w \in Int /\ 100 \in Nat /\ 100 > 0 /\ 100 * w \in Int
      /\ (100 * w) * 100 <= 10000 * w /\ 10000 * w <= (100 * w) * 100
  BY <1>2, SMT
<1>5. Rounded(10000 * w, 100) \in (100 * w)..(100 * w)
  <2>1. PICK a, b, m : a = 10000 * w /\ b = 100 /\ m = 100 * w
    OBVIOUS
  <2>2. a \in Int /\ b \in Nat /\ b > 0 /\ m \in Int /\ m * b <= a /\ a <= m * b
    BY <1>4, <2>1
  <2>3. Rounded(a, b) \in m..m
    BY <2>2, RoundedWithin
  <2> QED
    BY <2>1, <2>3
<1>6. 100 * w < 6000
  BY <1>1, <1>2, SixWeighHundred, SMT
<1>7. CoveragePercent(s) < 6000 /\ CoveragePercent(s) \in Int
  BY <1>2, <1>3, <1>5, <1>6, SMT
<1> QED
  BY <1>7, SMT DEF Band

-----------------------------------------------------------------------------
(* What was learned moves a score by ten points at most *)

\* What a rejection or an interest may be about.
Kinds ==
  {"role_family", "seniority", "location", "work_model", "title", "company", "required_skill", "salary",
   "contract", "schedule", "benefits", "responsibilities", "other", "repost_bucket"}

LEMMA KindsAreFew == IsFiniteSet(Kinds)
<1>1. IsFiniteSet({})
  BY FS_EmptySet
<1>2. IsFiniteSet({} \cup {"role_family", "seniority", "location"})
  BY <1>1, ThreeMore
<1>3. IsFiniteSet({"role_family", "seniority", "location"} \cup {"work_model", "title", "company"})
  BY <1>2, ThreeMore
<1> DEFINE six == {"role_family", "seniority", "location"} \cup {"work_model", "title", "company"}
<1>4. IsFiniteSet(six \cup {"required_skill", "salary", "contract"})
  BY <1>3, ThreeMore
<1> DEFINE nine == six \cup {"required_skill", "salary", "contract"}
<1>5. IsFiniteSet(nine \cup {"schedule", "benefits", "responsibilities"})
  BY <1>4, ThreeMore
<1> DEFINE twelve == nine \cup {"schedule", "benefits", "responsibilities"}
<1>6. IsFiniteSet(twelve \cup {"other", "repost_bucket", "repost_bucket"})
  BY <1>5, ThreeMore
<1>7. twelve \cup {"other", "repost_bucket", "repost_bucket"} = Kinds
  BY Zenon DEF Kinds
<1> QED
  BY <1>6, <1>7

LEMMA DetailsAreKinds == Details \subseteq Kinds
<1> SUFFICES ASSUME NEW r \in Reasons PROVE r[2] \in Kinds
  BY DEF Details
<1>1. r[1] \in DOMAIN DetailsByReason /\ r[2] \in DetailsByReason[r[1]]
  BY ReasonAssumption
<1>2. \A x \in DOMAIN DetailsByReason : DetailsByReason[x] \subseteq Kinds
  BY DEF DetailsByReason, Kinds
<1> QED
  BY <1>1, <1>2, Zenon

(* A value that was counted is of a kind, and one of the posting is the      *)
(* posting's of that kind.                                                   *)
LEMMA CountedIsOfKind ==
  ASSUME RulesInv, TalliedFor, TalliedAgainst, NEW f \in BagToSet(positive) \cup BagToSet(negative)
  PROVE  \E k \in Kinds : \E v : f = <<k, v>>
<1>1. CASE f \in BagToSet(positive)
  <2>1. f \in DOMAIN positive /\ Copies(f, positive) = positive[f] /\ positive[f] \in Nat /\ positive[f] > 0
    BY <1>1, SMT DEF TalliedFor, IsABag, BagToSet, Copies, BagIn
  <2>2. Backers(f) # {}
    <3>1. Cardinality({}) = 0
      BY FS_EmptySet
    <3>2. Copies(f, positive) = Cardinality(Backers(f))
      BY Zenon DEF TalliedFor
    <3> QED
      BY <2>1, <3>1, <3>2, SMT
  <2>3. PICK j \in Jobs : signal[j] # NoSignal /\ f \in signal[j]
    BY <2>2, Zenon DEF Backers
  <2>4. PICK c \in Contents : signal[j] = PositiveSignalFacets(c)
    BY <2>3, Zenon DEF TalliedFor, Signals
  <2>5. \E k \in {"role_family", "seniority", "location", "work_model"} : f = <<k, FacetValue(c, k)>>
    BY <2>3, <2>4, Zenon DEF PositiveSignalFacets
  <2> QED
    BY <2>5, Zenon DEF Kinds
<1>2. CASE f \in BagToSet(negative)
  <2>1. f \in DOMAIN negative /\ Copies(f, negative) = negative[f] /\ negative[f] \in Nat /\ negative[f] > 0
    BY <1>2, SMT DEF TalliedAgainst, IsABag, BagToSet, Copies, BagIn
  <2>2. Against(f) # {}
    <3>1. Cardinality({}) = 0
      BY FS_EmptySet
    <3>2. Copies(f, negative) = Cardinality(Against(f))
      BY Zenon DEF TalliedAgainst
    <3> QED
      BY <2>1, <3>1, <3>2, SMT
  <2>3. PICK i \in DOMAIN feedback : f = <<feedback[i].detail, feedback[i].value>>
    BY <2>2, Zenon DEF Against, Facet
  <2>4. DOMAIN feedback = 1..Len(feedback)
    BY RuleNumbers
  <2>5. feedback[i] \in Event
    BY <2>3, <2>4, ElementOfSeq, Zenon DEF RulesInv
  <2>6. feedback[i].detail \in Kinds
    <3>1. feedback[i].detail \in Details
      BY <2>5, Zenon DEF Event
    <3> QED
      BY <3>1, DetailsAreKinds
  <2> QED
    BY <2>3, <2>6
<1> QED
  BY <1>1, <1>2

LEMMA MatchingAreFew ==
  ASSUME RulesInv, TalliedFor, TalliedAgainst, NEW c
  PROVE  IsFiniteSet(MatchingValues(c))
<1> DEFINE f == [k \in Kinds |-> <<k, FacetValue(c, k)>>]
           F == {f[k] : k \in Kinds}
<1>1. f \in Surjection(Kinds, F)
  BY Zenon DEF Surjection
<1>2. IsFiniteSet(F)
  <2> HIDE DEF f, F
  <2> QED
    BY <1>1, KindsAreFew, FS_Surjection
<1>3. MatchingValues(c) \subseteq F
  <2> SUFFICES ASSUME NEW x \in MatchingValues(c) PROVE x \in F
    OBVIOUS
  <2>1. x \in BagToSet(positive) \cup BagToSet(negative) /\ FacetValue(c, x[1]) = x[2]
    BY Zenon DEF MatchingValues
  <2>2. PICK k \in Kinds : \E v : x = <<k, v>>
    BY <2>1, CountedIsOfKind
  <2>3. x[1] = k /\ x = <<k, x[2]>>
    BY <2>2
  <2>4. x = <<k, FacetValue(c, k)>>
    BY <2>1, <2>3
  <2> QED
    BY <2>4
<1> QED
  BY <1>2, <1>3, FS_Subset

(* What one value says is a number. *)
LEMMA SignalIsNumber ==
  ASSUME NEW p \in Nat, NEW n \in Nat
  PROVE  LearnedSignal(p, n) \in Int
<1>1. PICK a, b : a = 50000000 * (p - n) * (p + n) /\ b = (p + n + 3) * (p + n + 2)
  OBVIOUS
<1>2. a \in Int /\ b \in Nat /\ b > 0
  <2>1. a \in Int
    BY <1>1, SMT
  <2>2. PICK x : x = p + n
    OBVIOUS
  <2>3. x \in Nat /\ b = (x + 3) * (x + 2)
    BY <1>1, <2>2, SMT
  <2>4. (x + 3) * (x + 2) = x * x + 5 * x + 6 /\ x * x \in Nat
    BY <2>3, SMT
  <2> QED
    BY <2>1, <2>3, <2>4, SMT
<1>3. a \div b \in Int
  BY <1>2, Quotient
<1> QED
  BY <1>1, <1>3 DEF LearnedSignal

(* A clamped number is between its bounds. *)
LEMMA ClampedWithin ==
  ASSUME NEW low \in Int, NEW high \in Int, low <= high, NEW x \in Int
  PROVE  Clamp(low, x, high) \in low..high
BY SMT DEF Clamp

LEMMA AdjustmentIsSmall ==
  ASSUME RulesInv, TalliedFor, TalliedAgainst, NEW c
  PROVE  PreferenceAdjustment(c) \in (-1000)..1000
<1> DEFINE learned == MatchingValues(c)
           g == [f \in learned |-> LearnedSignal(Copies(f, positive), Copies(f, negative))]
           total == SumFunction(g)
<1>1. CASE learned = {}
  BY <1>1, SMT DEF PreferenceAdjustment
<1>2. CASE learned # {}
  <2>1. IsFiniteSet(learned)
    BY MatchingAreFew
  <2>2. \A f \in learned : g[f] \in Int
    <3> SUFFICES ASSUME NEW f \in learned PROVE g[f] \in Int
      OBVIOUS
    <3>1. Copies(f, positive) \in Nat /\ Copies(f, negative) \in Nat
      BY CopiesAreNumbers, Zenon DEF TalliedFor, TalliedAgainst
    <3>2. g[f] = LearnedSignal(Copies(f, positive), Copies(f, negative))
      BY DEF g
    <3> QED
      BY <3>1, <3>2, SignalIsNumber
  <2>3. total = SumFunctionOnSet(g, learned)
    BY Zenon DEF SumFunction, SumFunctionOnSet, FoldFunction
  <2>4. total \in Int
    <3> HIDE DEF g, learned, total
    <3>1. SumFunctionOnSet(g, learned) \in Int
      BY <2>1, <2>2, SumType, Zenon
    <3> QED
      BY <2>3, <3>1
  <2>5. Cardinality(learned) \in Nat /\ Cardinality(learned) > 0
    <3> HIDE DEF learned
    <3>1. Cardinality(learned) \in Nat
      BY <2>1, FS_CardinalityType
    <3>2. Cardinality(learned) # 0
      BY <1>2, <2>1, FS_EmptySet
    <3> QED
      BY <3>1, <3>2, SMT
  <2>6. PreferenceAdjustment(c) = Clamp(-1000, Rounded(total \div Cardinality(learned), 50000), 1000)
    BY <1>2 DEF PreferenceAdjustment
  <2> HIDE DEF learned, g, total
  <2>7. PICK m : m = total \div Cardinality(learned)
    OBVIOUS
  <2>8. m \in Int
    BY <2>4, <2>5, <2>7, Quotient
  <2>9. 2 * m + 50000 \in Int /\ 2 * 50000 \in Nat /\ 2 * 50000 > 0
    BY <2>8, SMT
  <2>10. Rounded(m, 50000) \in Int
    BY <2>9, Quotient DEF Rounded
  <2>11. PICK x : x = Rounded(m, 50000)
    OBVIOUS
  <2>12. Clamp(-1000, x, 1000) \in (-1000)..1000
    BY <2>10, <2>11, SMT DEF Clamp
  <2> QED
    BY <2>6, <2>7, <2>11, <2>12
<1> QED
  BY <1>1, <1>2

-----------------------------------------------------------------------------
(* The coverage of a resume *)

CoverageKinds == {"keywords", "skills", "title", "sections", "dates"}

(* The five weights are positive. *)
LEMMA PartsWeigh ==
  /\ DOMAIN CoverageWeights = CoverageKinds /\ IsFiniteSet(CoverageKinds)
  /\ \A k \in CoverageKinds : CoverageWeights[k] \in Nat /\ CoverageWeights[k] > 0
<1>1. IsFiniteSet(CoverageKinds)
  <2>1. IsFiniteSet({})
    BY FS_EmptySet
  <2>2. IsFiniteSet({} \cup {"keywords", "skills", "title"})
    BY <2>1, ThreeMore
  <2>3. IsFiniteSet({"keywords", "skills", "title"} \cup {"title", "sections", "dates"})
    BY <2>2, ThreeMore
  <2>4. {"keywords", "skills", "title"} \cup {"title", "sections", "dates"} = CoverageKinds
    BY DEF CoverageKinds
  <2> QED
    BY <2>3, <2>4
<1>2. DOMAIN CoverageWeights = CoverageKinds
  BY DEF CoverageWeights, CoverageKinds
<1>3. \A k \in CoverageKinds : CoverageWeights[k] \in Nat /\ CoverageWeights[k] > 0
  BY SMT DEF CoverageWeights, CoverageKinds
<1> QED
  BY <1>1, <1>2, <1>3

(* A part of a whole is at most the whole, and the whole when it is all of it. *)
LEMMA PartOfWhole ==
  ASSUME NEW m \in Nat, NEW n \in Nat, n > 0, m <= n
  PROVE  Rounded(1000 * m, n) \in 0..1000 /\ (m = n => Rounded(1000 * m, n) = 1000)
<1>1. PICK a, lo, hi : a = 1000 * m /\ lo = 0 /\ hi = 1000
  OBVIOUS
<1>2. a \in Int /\ lo \in Int /\ hi \in Int /\ lo * n <= a /\ a <= hi * n
  BY <1>1, SMT
<1>3. Rounded(a, n) \in lo..hi
  BY <1>2, RoundedWithin
<1>4. m = n => Rounded(a, n) \in hi..hi
  <2> SUFFICES ASSUME m = n PROVE Rounded(a, n) \in hi..hi
    OBVIOUS
  <2>1. hi * n <= a
    BY <1>1, SMT
  <2> QED
    BY <1>2, <2>1, RoundedWithin
<1>5. PICK x : x = Rounded(a, n)
  OBVIOUS
<1>6. x \in 0..1000 /\ (m = n => x = 1000)
  BY <1>1, <1>3, <1>4, <1>5, SMT
<1> QED
  BY <1>1, <1>5, <1>6

(* A share is of what is asked, if anything is; all of it is all. *)
LEMMA ShareWithin ==
  ASSUME NEW found, NEW asked, IsFiniteSet(asked)
  PROVE  /\ Share(found, asked) = None \/ Share(found, asked) \in 0..1000
         /\ asked \subseteq found => Share(found, asked) = None \/ Share(found, asked) = 1000
<1>1. CASE asked = {}
  BY <1>1, Zenon DEF Share
<1>2. CASE asked # {}
  <2>1. PICK m, n : m = Cardinality(found \cap asked) /\ n = Cardinality(asked)
    OBVIOUS
  <2>2. n \in Nat /\ n > 0
    <3>1. n \in Nat
      BY <2>1, FS_CardinalityType
    <3>2. n # 0
      BY <1>2, <2>1, FS_EmptySet
    <3> QED
      BY <3>1, <3>2, SMT
  <2>3. m \in Nat /\ m <= n
    <3>1. found \cap asked \in SUBSET asked
      OBVIOUS
    <3>2. IsFiniteSet(found \cap asked) /\ Cardinality(found \cap asked) <= Cardinality(asked)
      BY <3>1, FS_Subset
    <3>3. Cardinality(found \cap asked) \in Nat
      BY <3>2, FS_CardinalityType
    <3> QED
      BY <2>1, <3>2, <3>3
  <2>4. Share(found, asked) = Rounded(1000 * m, n)
    BY <1>2, <2>1 DEF Share
  <2>5. asked \subseteq found => m = n
    <3>1. asked \subseteq found => found \cap asked = asked
      OBVIOUS
    <3> QED
      BY <2>1, <3>1
  <2>6. PICK x : x = Rounded(1000 * m, n)
    OBVIOUS
  <2>7. x \in 0..1000 /\ (m = n => x = 1000)
    BY <2>2, <2>3, <2>6, PartOfWhole
  <2> QED
    BY <2>4, <2>5, <2>6, <2>7
<1> QED
  BY <1>1, <1>2

(* What is asked is finite, and a text has some of the sections. *)
LEMMA AskedIsFinite ==
  ASSUME NEW advert \in Adverts
  PROVE  IsFiniteSet(JobKeywords(advert)) /\ IsFiniteSet(SkillTerms(advert)) /\ IsFiniteSet(advert.title)
<1>1. /\ IsFiniteSet(advert.terms) /\ IsFiniteSet(advert.phrases) /\ IsFiniteSet(advert.required)
      /\ IsFiniteSet(advert.described) /\ IsFiniteSet(advert.title)
  BY CoverageAssumption, Zenon
<1>2. IsFiniteSet(JobKeywords(advert))
  BY <1>1, FS_Union DEF JobKeywords
<1> QED
  BY <1>1, <1>2, Zenon DEF SkillTerms

(* The sections are always measured. *)
LEMMA SectionsWithin ==
  ASSUME NEW text \in Texts
  PROVE  LET share == Rounded(1000 * Cardinality(text.sections), Cardinality(Sections))
         IN  share \in 0..1000 /\ (text.sections = Sections => share = 1000)
<1>1. IsFiniteSet(Sections) /\ Sections # {}
  <2>1. IsFiniteSet({})
    BY FS_EmptySet
  <2>2. IsFiniteSet({} \cup {"experience", "education", "skills"})
    BY <2>1, ThreeMore
  <2>3. IsFiniteSet({"experience", "education", "skills"} \cup {"contact", "contact", "contact"})
    BY <2>2, ThreeMore
  <2>4. {"experience", "education", "skills"} \cup {"contact", "contact", "contact"} = Sections
    BY DEF Sections
  <2> QED
    BY <2>3, <2>4
<1>2. text.sections \in SUBSET Sections
  BY CoverageAssumption, Zenon
<1>3. IsFiniteSet(text.sections) /\ Cardinality(text.sections) <= Cardinality(Sections)
  BY <1>1, <1>2, FS_Subset
<1>4. Cardinality(text.sections) \in Nat /\ Cardinality(Sections) \in Nat /\ Cardinality(Sections) # 0
  BY <1>1, <1>3, FS_CardinalityType, FS_EmptySet
<1>5. PICK m, n : m = Cardinality(text.sections) /\ n = Cardinality(Sections)
  OBVIOUS
<1>6. m \in Nat /\ n \in Nat /\ n > 0 /\ m <= n
  BY <1>3, <1>4, <1>5, SMT
<1>7. Rounded(1000 * m, n) \in 0..1000 /\ (m = n => Rounded(1000 * m, n) = 1000)
  BY <1>6, PartOfWhole
<1>8. text.sections = Sections => m = n
  BY <1>5
<1> QED
  BY <1>5, <1>7, <1>8

(* And the dates. *)
LEMMA DatesWithin ==
  ASSUME NEW text \in Texts
  PROVE  LET share == IF text.readable + text.ambiguous = 0 THEN 0
                      ELSE Rounded(1000 * text.readable, text.readable + text.ambiguous)
         IN  share \in 0..1000 /\ (text.readable > 0 /\ text.ambiguous = 0 => share = 1000)
<1>1. text.readable \in Nat /\ text.ambiguous \in Nat
  BY CoverageAssumption, Zenon
<1>2. PICK m, u, n : m = text.readable /\ u = text.ambiguous /\ n = m + u
  OBVIOUS
<1>3. m \in Nat /\ u \in Nat /\ n \in Nat /\ m <= n
  BY <1>1, <1>2, SMT
<1>4. CASE n = 0
  BY <1>2, <1>3, <1>4, SMT
<1>5. CASE n # 0
  <2>1. n > 0
    BY <1>3, <1>5, SMT
  <2>2. Rounded(1000 * m, n) \in 0..1000 /\ (m = n => Rounded(1000 * m, n) = 1000)
    BY <1>3, <2>1, PartOfWhole
  <2>3. u = 0 => m = n
    BY <1>2, <1>3, SMT
  <2> QED
    BY <1>2, <1>5, <2>2, <2>3
<1> QED
  BY <1>4, <1>5

SaysAll(advert, text) ==
  /\ JobKeywords(advert) \cup advert.title \subseteq text.words
  /\ SkillTerms(advert) \subseteq text.skills
  /\ text.sections = Sections /\ text.readable > 0 /\ text.ambiguous = 0

(* Every part is a share or is not measured, and two always are. *)
LEMMA PartsWithin ==
  ASSUME NEW advert \in Adverts, NEW text \in Texts, NEW parts, parts = CoverageComponents(advert, text)
  PROVE  /\ DOMAIN parts = CoverageKinds
         /\ \A k \in CoverageKinds : parts[k] = None \/ parts[k] \in 0..1000
         /\ parts["sections"] \in 0..1000
         /\ SaysAll(advert, text) => \A k \in CoverageKinds : parts[k] = None \/ parts[k] = 1000
<1>1. IsFiniteSet(JobKeywords(advert)) /\ IsFiniteSet(SkillTerms(advert)) /\ IsFiniteSet(advert.title)
  BY AskedIsFinite
<1>2. /\ parts["keywords"] = None \/ parts["keywords"] \in 0..1000
      /\ SaysAll(advert, text) => parts["keywords"] = None \/ parts["keywords"] = 1000
  <2>1. parts["keywords"] = Share(text.words \cup text.keywords, JobKeywords(advert))
    BY DEF CoverageComponents
  <2>2. SaysAll(advert, text) => JobKeywords(advert) \subseteq text.words \cup text.keywords
    BY Zenon DEF SaysAll
  <2> QED
    BY <1>1, <2>1, <2>2, ShareWithin
<1>3. /\ parts["skills"] = None \/ parts["skills"] \in 0..1000
      /\ SaysAll(advert, text) => parts["skills"] = None \/ parts["skills"] = 1000
  <2>1. parts["skills"] = Share(text.skills \cup text.keywords, SkillTerms(advert))
    BY DEF CoverageComponents
  <2>2. SaysAll(advert, text) => SkillTerms(advert) \subseteq text.skills \cup text.keywords
    BY Zenon DEF SaysAll
  <2> QED
    BY <1>1, <2>1, <2>2, ShareWithin
<1>4. /\ parts["title"] = None \/ parts["title"] \in 0..1000
      /\ SaysAll(advert, text) => parts["title"] = None \/ parts["title"] = 1000
  <2>1. parts["title"] = Share(text.words, advert.title)
    BY DEF CoverageComponents
  <2>2. SaysAll(advert, text) => advert.title \subseteq text.words
    BY Zenon DEF SaysAll
  <2> QED
    BY <1>1, <2>1, <2>2, ShareWithin
<1>5. parts["sections"] \in 0..1000 /\ (SaysAll(advert, text) => parts["sections"] = 1000)
  <2>1. parts["sections"] = Rounded(1000 * Cardinality(text.sections), Cardinality(Sections))
    BY DEF CoverageComponents
  <2> QED
    BY <2>1, SectionsWithin DEF SaysAll
<1>6. parts["dates"] \in 0..1000 /\ (SaysAll(advert, text) => parts["dates"] = 1000)
  <2>1. parts["dates"] = IF text.readable + text.ambiguous = 0 THEN 0
                         ELSE Rounded(1000 * text.readable, text.readable + text.ambiguous)
    BY DEF CoverageComponents
  <2> QED
    BY <2>1, DatesWithin DEF SaysAll
<1>7. DOMAIN parts = CoverageKinds
  BY DEF CoverageComponents, CoverageKinds
<1>8. \A k \in CoverageKinds : k \in {"keywords", "skills", "title"} \/ k = "sections" \/ k = "dates"
  BY DEF CoverageKinds
<1>9. ASSUME NEW k \in CoverageKinds
      PROVE  /\ parts[k] = None \/ parts[k] \in 0..1000
             /\ SaysAll(advert, text) => parts[k] = None \/ parts[k] = 1000
  <2>1. CASE k \in {"keywords", "skills", "title"}
    BY <1>2, <1>3, <1>4, <2>1
  <2>2. CASE k = "sections"
    BY <1>5, <2>2
  <2>3. CASE k = "dates"
    BY <1>6, <2>3
  <2> QED
    BY <1>8, <2>1, <2>2, <2>3
<1> QED
  BY <1>5, <1>7, <1>9

(* The coverage is a mean of the measured parts, and whole when all is said. *)
LEMMA CoverageIsMean == CoverageIsOfWhatIsAsked
<1> SUFFICES ASSUME NEW advert \in Adverts, NEW text \in Texts
    PROVE  LET parts == CoverageComponents(advert, text)
               measured == {parts[k] : k \in {m \in DOMAIN parts : parts[m] # None}}
               total == Coverage(advert, text)
           IN  /\ 10 * total \in (Min(measured) - 5)..(Max(measured) + 5)
               /\ SaysAll(advert, text) => total = 100
  BY Zenon DEF CoverageIsOfWhatIsAsked, SaysAll
<1>1. PICK parts : parts = CoverageComponents(advert, text)
  OBVIOUS
<1> DEFINE K == {k \in DOMAIN parts : parts[k] # None}
           measured == {parts[k] : k \in K}
           f == [k \in K |-> parts[k] * CoverageWeights[k]]
           A == SumFunctionOnSet(f, K)
           B == SumFunctionOnSet(CoverageWeights, K)
<1>2. /\ DOMAIN parts = CoverageKinds /\ \A k \in CoverageKinds : parts[k] = None \/ parts[k] \in 0..1000
      /\ parts["sections"] \in 0..1000
      /\ SaysAll(advert, text) => \A k \in CoverageKinds : parts[k] = None \/ parts[k] = 1000
  BY <1>1, PartsWithin
<1>3. K \subseteq CoverageKinds /\ "sections" \in K /\ \A k \in K : parts[k] \in 0..1000
  <2>1. parts["sections"] # None
    <3>1. \A n \in 0..1000 : n \in Nat
      BY SMT
    <3> QED
      BY <1>2, <3>1, InputAssumption
  <2>2. "sections" \in CoverageKinds
    BY DEF CoverageKinds
  <2> QED
    BY <1>2, <2>1, <2>2
<1>4. IsFiniteSet(K) /\ K # {}
  <2> HIDE DEF K
  <2>1. K \in SUBSET CoverageKinds
    BY <1>3
  <2> QED
    BY <1>3, <2>1, PartsWeigh, FS_Subset
<1>5. measured # {} /\ \A k \in K : parts[k] \in measured
  BY <1>3
<1>6. PICK n : n = 1000
  OBVIOUS
<1>7. n \in Nat /\ measured \subseteq 0..n
  BY <1>3, <1>6, SMT
<1>8. PICK lo, hi : lo = Min(measured) /\ hi = Max(measured)
  OBVIOUS
<1>9. lo \in measured /\ hi \in measured /\ \A x \in measured : lo <= x /\ x <= hi
  <2> HIDE DEF measured
  <2> QED
    BY <1>5, <1>7, <1>8, Extremes
<1>10. lo \in Int /\ hi \in Int
  <2>1. lo \in 0..n /\ hi \in 0..n
    <3> HIDE DEF measured
    <3> QED
      BY <1>7, <1>9, Zenon
  <2> QED
    BY <1>7, <2>1, SMT
<1>11. Coverage(advert, text) = Rounded(A, 10 * B)
  <2>1. DOMAIN f = K
    OBVIOUS
  <2>2. SumFunction(f) = A
    BY <2>1, Zenon DEF SumFunction, SumFunctionOnSet, FoldFunction
  <2> QED
    BY <1>1, <2>2 DEF Coverage
<1>12. ASSUME NEW k \in K
       PROVE  /\ CoverageWeights[k] \in Nat /\ CoverageWeights[k] > 0 /\ f[k] = parts[k] * CoverageWeights[k]
              /\ f[k] \in Int
              /\ lo * CoverageWeights[k] <= 1 * f[k] /\ 1 * f[k] <= hi * CoverageWeights[k]
  <2>1. CoverageWeights[k] \in Nat /\ CoverageWeights[k] > 0
    BY <1>3, PartsWeigh
  <2>2. PICK w, v : w = CoverageWeights[k] /\ v = parts[k]
    OBVIOUS
  <2>3. w \in Nat /\ w > 0 /\ v \in 0..1000
    BY <1>3, <2>1, <2>2
  <2>4. lo <= v /\ v <= hi
    <3>1. v \in measured
      BY <1>5, <2>2
    <3> HIDE DEF measured
    <3> QED
      BY <1>9, <3>1
  <2>5. f[k] = v * w
    BY <2>2
  <2>6. v * w \in Int /\ lo * w <= v * w /\ v * w <= hi * w
    BY <1>10, <2>3, <2>4, SMT
  <2>7. lo * w <= 1 * (v * w) /\ 1 * (v * w) <= hi * w
    BY <2>6, SMT
  <2> HIDE DEF f, K
  <2> QED
    BY <2>1, <2>2, <2>5, <2>6, <2>7
<1>13. B \in Nat /\ B > 0
  <2> HIDE DEF K
  <2> QED
    BY <1>4, <1>12, SumPositive
<1>14. A \in Int
  <2> HIDE DEF f, K
  <2> QED
    BY <1>4, <1>12, SumType
<1>15. 1 \in Int /\ n \in Int
  BY <1>7, SMT
<1>16. \A k \in K : CoverageWeights[k] \in Int
  <2> HIDE DEF f, K
  <2> QED
    BY <1>12, SMT
<1>17. lo * B <= 1 * A /\ 1 * A <= hi * B
  <2> HIDE DEF f, K
  <2>1. lo * B <= 1 * A
    BY <1>4, <1>10, <1>12, <1>15, <1>16, SumBelow
  <2>2. 1 * A <= hi * B
    BY <1>4, <1>10, <1>12, <1>15, <1>16, SumBelow
  <2> QED
    BY <2>1, <2>2
<1> HIDE DEF A, B, f, K, measured
<1>18. lo * B <= A /\ A <= hi * B
  BY <1>14, <1>17, SMT
<1>19. 10 * Rounded(A, 10 * B) \in (lo - 5)..(hi + 5)
  BY <1>10, <1>13, <1>14, <1>18, RoundedToTenths
<1>20. SaysAll(advert, text) => Rounded(A, 10 * B) = 100
  <2> SUFFICES ASSUME SaysAll(advert, text) PROVE Rounded(A, 10 * B) = 100
    OBVIOUS
  <2>1. measured \subseteq {1000}
    BY <1>2, <1>3 DEF measured, K
  <2>2. lo = 1000 /\ hi = 1000
    BY <1>9, <2>1
  <2>3. PICK d, h : d = 10 * B /\ h = 100
    OBVIOUS
  <2>4. d \in Nat /\ d > 0 /\ h \in Int /\ h * d <= A /\ A <= h * d
    BY <1>13, <1>14, <1>18, <2>2, <2>3, SMT
  <2>5. Rounded(A, d) \in h..h
    BY <1>14, <2>4, RoundedWithin
  <2>6. PICK x : x = Rounded(A, d)
    OBVIOUS
  <2>7. x = 100
    BY <2>3, <2>5, <2>6, SMT
  <2> QED
    BY <2>3, <2>6, <2>7
<1> QED
  BY <1>1, <1>8, <1>11, <1>19, <1>20 DEF measured, K

-----------------------------------------------------------------------------
(* Blockers *)

(* A demand is known when the whole column is well demanded, and then quoted. *)
LEMMA DemandIsQuoted ==
  ASSUME NEW column, NEW k \in DOMAIN Requirements(column)
  PROVE  k \in DOMAIN column /\ column[k].quoted /\ Requirements(column)[k] = column[k].value
<1>1. CASE \A q \in DOMAIN column : WellDemanded(q, column[q])
  <2>1. Requirements(column) = [q \in DOMAIN column |-> column[q].value]
    BY <1>1, Zenon DEF Requirements
  <2>2. k \in DOMAIN column /\ Requirements(column)[k] = column[k].value
    BY <2>1
  <2> QED
    BY <1>1, <2>2, Zenon DEF WellDemanded
<1>2. CASE ~\A q \in DOMAIN column : WellDemanded(q, column[q])
  <2>1. Requirements(column) = <<>>
    BY <1>2, Zenon DEF Requirements
  <2> QED
    BY <2>1
<1> QED
  BY <1>1, <1>2

(* What is not demanded, or not confirmed, blocks nothing. *)
LEMMA BlockerHasReasons ==
  ASSUME NEW facts, NEW needs, NEW k \in Demands
  PROVE  /\ Blocker(facts, needs, k) # "unchecked" => k \in DOMAIN needs
         /\ Blocker(facts, needs, k) = "blocked" =>
              /\ \E i \in DOMAIN facts : facts[i].type = FactType[k] /\ facts[i].state = "confirmed"
              /\ ~(k = "location" /\ "work_model" \in DOMAIN needs /\ needs["work_model"] = "remote")
<1>1. Blocker(facts, needs, k) # "unchecked" => k \in DOMAIN needs
  BY Zenon DEF Blocker
<1>2. ASSUME Blocker(facts, needs, k) = "blocked"
      PROVE  /\ Confirmed(facts, FactType[k]) # {}
             /\ ~(k = "location" /\ "work_model" \in DOMAIN needs /\ needs["work_model"] = "remote")
  <2>1. "ok" # "blocked" /\ "unchecked" # "blocked"
    OBVIOUS
  <2> QED
    BY <1>2, <2>1, Zenon DEF Blocker
<1> QED
  BY <1>1, <1>2, Zenon DEF Confirmed

LEMMA BlockersAreFounded ==
  ASSUME NEW j \in Jobs, NEW k \in Demands
  PROVE  /\ Blockers(j)[k] # "unchecked" =>
              k \in DOMAIN job[j].content.demands /\ job[j].content.demands[k].quoted
         /\ Blockers(j)[k] = "blocked" =>
              /\ \E i \in DOMAIN ActiveFacts : ActiveFacts[i].type = FactType[k] /\ ActiveFacts[i].state = "confirmed"
              /\ k = "location" /\ "work_model" \in DOMAIN job[j].content.demands =>
                   job[j].content.demands["work_model"].value # "remote"
<1> DEFINE column == job[j].content.demands
           needs == Requirements(column)
<1>1. Blockers(j)[k] = Blocker(ActiveFacts, needs, k)
  BY Zenon DEF Blockers
<1> HIDE DEF column, needs
<1>2. ASSUME Blockers(j)[k] # "unchecked" PROVE k \in DOMAIN needs
  BY <1>1, <1>2, BlockerHasReasons, Zenon
<1>3. k \in DOMAIN needs => k \in DOMAIN column /\ column[k].quoted
  BY DemandIsQuoted, Zenon DEF needs
<1>4. ASSUME Blockers(j)[k] = "blocked"
      PROVE  /\ \E i \in DOMAIN ActiveFacts : ActiveFacts[i].type = FactType[k] /\ ActiveFacts[i].state = "confirmed"
             /\ ~(k = "location" /\ "work_model" \in DOMAIN needs /\ needs["work_model"] = "remote")
  <2>1. Blocker(ActiveFacts, needs, k) = "blocked"
    BY <1>1, <1>4
  <2>2. Blocker(ActiveFacts, needs, k) = "blocked" =>
          /\ \E i \in DOMAIN ActiveFacts : ActiveFacts[i].type = FactType[k] /\ ActiveFacts[i].state = "confirmed"
          /\ ~(k = "location" /\ "work_model" \in DOMAIN needs /\ needs["work_model"] = "remote")
    BY BlockerHasReasons
  <2> QED
    BY <2>1, <2>2
<1>5. ASSUME Blockers(j)[k] = "blocked", k = "location", "work_model" \in DOMAIN column
      PROVE  column["work_model"].value # "remote"
  <2>1. k \in DOMAIN needs
    <3>1. "blocked" # "unchecked"
      OBVIOUS
    <3> QED
      BY <1>2, <1>5, <3>1
  <2>2. needs = [q \in DOMAIN column |-> column[q].value]
    <3>1. needs = [q \in DOMAIN column |-> column[q].value] \/ needs = <<>>
      BY Zenon DEF needs, Requirements
    <3>2. DOMAIN <<>> = {}
      BY SMT
    <3> QED
      BY <2>1, <3>1, <3>2, Zenon
  <2>3. "work_model" \in DOMAIN needs /\ needs["work_model"] = column["work_model"].value
    BY <1>5, <2>2, Zenon
  <2> QED
    BY <1>4, <1>5, <2>3
<1> QED
  BY <1>2, <1>3, <1>4, <1>5, Zenon DEF column

-----------------------------------------------------------------------------
(* Every score says no more than was given *)

\* A score is of its criteria, and moved by ten points at most.
Says(row) ==
  /\ row.criteria \in WellGiven
  /\ row.base = ScoreBase[row.criteria]
  /\ row.band = Band(row.base, CoveragePercent(row.criteria))
  /\ row.final \in (row.base - 1000)..(row.base + 1000)

SaidInv == \A i \in DOMAIN scores : Says(scores[i])

LearnedInv == RulesInv /\ TalliedFor /\ TalliedAgainst

(* recordMatchScore writes such a row. *)
LEMMA RowSays ==
  ASSUME LearnedInv, NEW j, NEW s \in WellGiven, NEW asked, NEW round
  PROVE  Says(ScoreRow(j, s, asked, round))
<1>1. PICK row, base, move :
        /\ row = ScoreRow(j, s, asked, round) /\ base = ScoreBase[s]
        /\ move = PreferenceAdjustment(job[j].content)
  OBVIOUS
<1>2. /\ row.criteria = s /\ row.base = base /\ row.band = Band(base, CoveragePercent(s))
      /\ row.final = Clamp(0, base + move, 10000)
  BY <1>1 DEF ScoreRow
<1>3. base \in Nat /\ base <= 10000
  <2>1. ScoreBase[s] \in Nat /\ ScoreBase[s] <= 10000
    BY BaseIsScore
  <2> QED
    BY <1>1, <2>1
<1>4. move \in (-1000)..1000
  <2>1. PreferenceAdjustment(job[j].content) \in (-1000)..1000
    BY AdjustmentIsSmall DEF LearnedInv
  <2> QED
    BY <1>1, <2>1
<1>5. Clamp(0, base + move, 10000) \in (base - 1000)..(base + 1000)
  BY <1>3, <1>4, SMT DEF Clamp
<1> QED
  BY <1>1, <1>2, <1>5 DEF Says

(* And the others keep theirs. *)
LEMMA SaidKept ==
  ASSUME LearnedInv, ScoresInv, SaidInv, NEW j \in Scored, NEW s \in Inputs, NEW asked \in 0..version,
         NEW round \in Rounds \cup {NoRound}, RecordMatchScore(j, s, asked, round)
  PROVE  SaidInv'
<1>1. PICK row : row = ScoreRow(j, s, asked, round)
  OBVIOUS
<1>2. scores' = Upsert(row) /\ s \in WellGiven
  BY <1>1, Zenon DEF RecordMatchScore
<1>3. Says(row)
  BY <1>1, <1>2, RowSays
<1>4. PICK S : scores \in Seq(S)
  BY Zenon DEF ScoresInv, RowsInv
<1>5. PICK n : n = Len(scores)
  OBVIOUS
<1>6. DOMAIN scores = 1..n /\ n \in Nat
  BY <1>5, ScoreNumbers, Zenon DEF ScoresInv
<1>7. PICK T, k :
        /\ Upsert(row) \in Seq(T) /\ k \in 1..(n + 1) /\ Len(Upsert(row)) \in Nat /\ Len(Upsert(row)) > 0
        /\ Len(Upsert(row)) = IF k <= n THEN n ELSE n + 1
        /\ Upsert(row)[Len(Upsert(row))] = row
        /\ \A i \in 1..(Len(Upsert(row)) - 1) : Upsert(row)[i] = IF i < k THEN scores[i] ELSE scores[i + 1]
  BY <1>4, <1>5, Upserted
<1>8. PICK t, m : t = Upsert(row) /\ m = Len(t)
  OBVIOUS
<1>9. DOMAIN t = 1..m /\ m \in Nat /\ m > 0
  BY <1>7, <1>8, LenProperties
<1>10. ASSUME NEW i \in 1..m PROVE Says(t[i])
  <2>1. CASE i = m
    BY <1>3, <1>7, <1>8, <2>1
  <2>2. CASE i # m
    <3>1. i \in 1..(m - 1)
      BY <1>9, <2>2, SMT
    <3>2. t[i] = IF i < k THEN scores[i] ELSE scores[i + 1]
      BY <1>7, <1>8, <3>1
    <3>3. i \in DOMAIN scores \/ ~(i < k)
      BY <1>6, <1>7, <3>1, SMT
    <3>4. i + 1 \in DOMAIN scores \/ i < k
      BY <1>6, <1>7, <1>8, <1>9, <3>1, SMT
    <3> QED
      BY <3>2, <3>3, <3>4 DEF SaidInv
  <2> QED
    BY <2>1, <2>2
<1> QED
  BY <1>2, <1>8, <1>9, <1>10 DEF SaidInv, Says

(* What the feedback's invariants say of what was learned. *)
LEMMA PreferencesTallied == FeedbackSpec => []LearnedInv
<1>1. FeedbackInit => TalliedFor /\ TalliedAgainst
  BY TallyStarts
<1>2. CardsInv /\ RulesInv /\ OffersHold /\ TalliedFor /\ TalliedAgainst /\ [FeedbackNext]_feedbackVars
        => TalliedFor' /\ TalliedAgainst'
  BY TallyKept DEF OffersHold
<1>3. RulesInv /\ TalliedFor /\ TalliedAgainst => LearnedInv
  BY DEF LearnedInv
<1> QED
  BY <1>1, <1>2, <1>3, FeedbackInvariant, PTL DEF FeedbackSpec

(* With the scores beside it, the feedback does what it does alone. *)
LEMMA ScoresKeepFeedback == Spec => FeedbackSpec
<1>1. Init => FeedbackInit
  BY Zenon DEF Init
<1>2. [Next]_vars => [FeedbackNext]_feedbackVars
  BY Zenon DEF Next, vars, RecordMatchScore, StartSearchRound, ConfirmProfile
<1> QED
  BY <1>1, <1>2, PTL DEF Spec, FeedbackSpec

(* What nobody said counts neither way, for any criteria, preferences       *)
(* learned, facts, demands, postings and texts: a score lies between the    *)
(* least and the greatest of the criteria given and what was learned moves  *)
(* it by ten points at most, with too little given it is not a strong       *)
(* match, a blocker is of a quoted demand and a confirmed limit, and a      *)
(* resume that says all that is asked covers it whole                       *)
(* (match-scores.ts calculateScore, applyPreferenceAdjustment,              *)
(* blockers.ts evaluateBlockers, coverage.ts computeCoverage).              *)
THEOREM TheUnsaidDoesNotCount == Spec => []UnsaidDoesNotCount
<1>1. Spec => []LearnedInv
  BY PreferencesTallied, ScoresKeepFeedback, PTL
<1>2. Init => ScoresInv /\ SaidInv
  <2> SUFFICES ASSUME Init PROVE ScoresInv /\ SaidInv
    OBVIOUS
  <2>1. ScoresInv
    BY ScoresStart
  <2>2. DOMAIN scores = {}
    <3>1. scores = <<>>
      BY Zenon DEF Init
    <3> QED
      BY <3>1, SMT
  <2> QED
    BY <2>1, <2>2, Zenon DEF SaidInv
<1>3. ScoresInv /\ SaidInv /\ LearnedInv /\ [Next]_vars => ScoresInv' /\ SaidInv'
  <2> SUFFICES ASSUME ScoresInv, SaidInv, LearnedInv, [Next]_vars PROVE ScoresInv' /\ SaidInv'
    OBVIOUS
  <2>1. ScoresInv'
    BY ScoresKept
  <2>2. CASE UNCHANGED scores
    <3>1. SaidInv'
      BY <2>2 DEF SaidInv, Says
    <3> QED
      BY <2>1, <3>1
  <2>3. CASE \E j \in Scored, s \in Inputs, v \in 0..version, r \in Rounds \cup {NoRound} : RecordMatchScore(j, s, v, r)
    BY <2>1, <2>3, SaidKept
  <2>4. UNCHANGED scores
        \/ \E j \in Scored, s \in Inputs, v \in 0..version, r \in Rounds \cup {NoRound} : RecordMatchScore(j, s, v, r)
    BY Zenon DEF Next, vars, scoreVars, StartSearchRound, ConfirmProfile
  <2> QED
    BY <2>2, <2>3, <2>4
<1>4. SaidInv => UnsaidDoesNotCount
  <2> SUFFICES ASSUME SaidInv PROVE UnsaidDoesNotCount
    OBVIOUS
  <2>1. ASSUME NEW i \in DOMAIN scores, NEW s, s = scores[i].criteria
        PROVE  /\ Given(s) # {} => scores[i].base \in Min(Given(s))..Max(Given(s))
               /\ scores[i].final \in (scores[i].base - 1000)..(scores[i].base + 1000)
               /\ 100 * Weight(Comparable(s)) < 60 * Weight(Criteria) => scores[i].band = "insufficient_data"
    <3>1. /\ s \in WellGiven /\ scores[i].base = ScoreBase[s]
          /\ scores[i].band = Band(ScoreBase[s], CoveragePercent(s))
          /\ scores[i].final \in (scores[i].base - 1000)..(scores[i].base + 1000)
      BY <2>1 DEF SaidInv, Says
    <3>2. Given(s) # {} => scores[i].base \in Min(Given(s))..Max(Given(s))
      <4> SUFFICES ASSUME Given(s) # {} PROVE scores[i].base \in Min(Given(s))..Max(Given(s))
        OBVIOUS
      <4>1. Comparable(s) # {}
        BY DEF Given
      <4> QED
        BY <3>1, <4>1, BaseIsMean
    <3>3. 100 * Weight(Comparable(s)) < 60 * Weight(Criteria) => scores[i].band = "insufficient_data"
      BY <3>1, LittleIsInsufficient
    <3> QED
      BY <3>1, <3>2, <3>3
  <2>2. \A i \in DOMAIN scores :
          LET s == scores[i].criteria
              given == {100 * s[k] : k \in Comparable(s)}
          IN  /\ given # {} => scores[i].base \in Min(given)..Max(given)
              /\ scores[i].final \in (scores[i].base - 1000)..(scores[i].base + 1000)
              /\ 100 * Weight(Comparable(s)) < 60 * Weight(Criteria) => scores[i].band = "insufficient_data"
    BY <2>1 DEF Given
  <2>3. \A j \in Jobs : job[j].card # "absent" =>
          \A k \in Demands :
            /\ Blockers(j)[k] # "unchecked" =>
                 k \in DOMAIN job[j].content.demands /\ job[j].content.demands[k].quoted
            /\ Blockers(j)[k] = "blocked" =>
                 /\ \E i \in DOMAIN ActiveFacts :
                       ActiveFacts[i].type = FactType[k] /\ ActiveFacts[i].state = "confirmed"
                 /\ k = "location" /\ "work_model" \in DOMAIN job[j].content.demands =>
                      job[j].content.demands["work_model"].value # "remote"
    BY BlockersAreFounded, Zenon
  <2>4. CoverageIsOfWhatIsAsked
    BY CoverageIsMean
  <2> HIDE DEF SaidInv
  <2> QED
    BY ONLY <2>2, <2>3, <2>4 DEF UnsaidDoesNotCount
<1> QED
  BY <1>1, <1>2, <1>3, <1>4, PTL DEF Spec
=============================================================================
