------------------------------- MODULE Feedback -------------------------------
(***************************************************************************)
(* What the person says of vacancies, and what is learned from it.  A      *)
(* decision, or a rejection with its reason, counts for or against the     *)
(* facets of the posting; a total rejection also makes a rule that hides   *)
(* postings like it.  Rules act when a posting is found or seen again; a   *)
(* posting the person decided about, or asked to see again, stays.  Every  *)
(* decision can be taken back, from the card or from the notice the panel  *)
(* raised for it.                                                          *)
(*                                                                         *)
(* One panel is open.  Authorizations, the workflow beyond a discarded     *)
(* card, the count of vacancies a rule ever hid and the suggestions are    *)
(* not here.                                                               *)
(***************************************************************************)
EXTENDS Integers, FiniteSets, Sequences, Bags

CONSTANTS
  Jobs,
  Contents,    \* what rules, facets and blockers read of a posting
  Likeness,    \* how alike two titles are, of 100
  Reasons,     \* <<reason, detail>> a person may give
  Modes,
  Stages,      \* how far an application may go: none, resume, locked
  Decided,     \* bound: the vacancies the person decides about
  MaxFeedback, \* bound: rejections recorded
  NoContent, NoSignal, NoOffer

VARIABLES
  job,       \* jobs: the card and its decision
  feedback,  \* job_feedback_events, in order
  rules,     \* preference_rules, by the rejection each was made from
  positive,  \* preference_values: what counts for a facet
  negative,  \* and against it
  signal,    \* preference_signal_events: the facets an interest counted
  offer      \* what the panel's "Desfazer" notice would take back

feedbackVars == <<job, feedback, rules, positive, negative, signal, offer>>

\* feedbackDetailByReason
DetailsByReason ==
  [role |-> {"title", "role_family"}, company |-> {"company"}, seniority |-> {"seniority"},
   skill |-> {"required_skill"}, salary |-> {"salary"}, location |-> {"location"},
   work_model |-> {"work_model"}, contract |-> {"contract"},
   schedule_benefits |-> {"schedule", "benefits"}, responsibility |-> {"responsibilities"},
   other |-> {"other"}, repost |-> {"repost_bucket"}]

ASSUME ReasonAssumption ==
  \A r \in Reasons : r[1] \in DOMAIN DetailsByReason /\ r[2] \in DetailsByReason[r[1]]

\* A card is found with no resume; only cards are decided about.
ASSUME StageAssumption == "none" \in Stages
ASSUME DecidedAssumption == Decided \subseteq Jobs

Unheard == {"unknown", "feedback-specified"}
NotInformed == "nao informado"

FeedbackTypeOK ==
  /\ \A j \in Jobs :
       /\ job[j].card \in {"absent", "listed", "archived"} /\ job[j].stage \in Stages
       /\ job[j].decision \in {"pending", "interested", "not_interested", "no_time"}
       /\ {job[j].hidden, job[j].reshown, job[j].discarded} \subseteq BOOLEAN
       /\ job[j].hiddenBy \subseteq DOMAIN rules
       /\ job[j].card # "absent" => job[j].content \in Contents
  /\ DOMAIN rules \subseteq DOMAIN feedback
  /\ \A i \in DOMAIN rules : rules[i].state \in {"active", "paused", "undone"}
  /\ IsABag(positive) /\ IsABag(negative)
  /\ offer # NoOffer => offer.job \in Jobs

-----------------------------------------------------------------------------
(* Facets and rules *)

Family(c) == IF c.family = "unknown" THEN c.title ELSE c.family

\* A posting that was never seen before has no bucket.
RepostBucket(c) ==
  IF "reposts" \notin DOMAIN c \/ c.reposts = 0 THEN "unknown" ELSE IF c.reposts = 1 THEN "1" ELSE "2+"

FacetValue(c, detail) ==
  CASE detail = "role_family" -> Family(c)
    [] detail = "repost_bucket" -> RepostBucket(c)
    [] detail \in {"title", "company", "seniority", "salary", "location", "work_model"}
         -> IF detail \in DOMAIN c THEN c[detail] ELSE "unknown"
    [] detail = "contract" -> "unknown"
    [] OTHER -> "feedback-specified"

PositiveSignalFacets(c) ==
  {f \in {<<k, FacetValue(c, k)>> : k \in {"role_family", "seniority", "location", "work_model"}} :
     f[2] \notin {NotInformed, "unknown"}}

\* How often a facet was counted.
Copies(f, counted) == IF BagIn(f, counted) THEN counted[f] ELSE 0

\* No interest is kept as the value that stands for none.
ASSUME SignalAssumption == \A c \in Contents : PositiveSignalFacets(c) # NoSignal

\* The part of the rejected posting its rule keeps.
Rule(reason, detail, c) ==
  IF reason = "company" THEN [type |-> "company", of |-> c]
  ELSE IF reason \in {"role", "skill"} THEN [type |-> "similar_role", of |-> c]
  ELSE [type |-> "facet_match", detail |-> detail, value |-> FacetValue(c, detail)]

\* jaccard, in hundredths, of sets that are not both empty
Jaccard(left, right) ==
  (100 * Cardinality(left \cap right)) \div Cardinality(left \cup right)

(* compareTotalRejection: with families both sure of, the same one and a   *)
(* like title or like requirements; else a nearly equal title, and like    *)
(* requirements when both list some.                                       *)
SimilarRole(rejected, c) ==
  LET title == IF rejected.title = c.title THEN 100 ELSE Likeness[{rejected.title, c.title}]
      both == rejected.requirements # {} /\ c.requirements # {}
      alike == both /\ Jaccard(rejected.requirements, c.requirements) >= 60
      usable == \A x \in {rejected, c} : x.family # "unknown" /\ x.sure
  IN  IF usable THEN rejected.family = c.family /\ (title >= 75 \/ alike)
      ELSE IF both THEN title >= 90 /\ alike ELSE title >= 95

Matches(rule, c) ==
  \/ rule.type = "company" /\ rule.of.company = c.company
  \/ rule.type = "similar_role" /\ SimilarRole(rule.of, c)
  \/ rule.type = "facet_match" /\ rule.value \notin Unheard /\ FacetValue(c, rule.detail) = rule.value

ActiveRules(known) == {i \in DOMAIN known : known[i].state = "active"}
ActiveSuppression(known, c) == {i \in ActiveRules(known) : Matches(known[i].match, c)}

\* applySuppression, for a card the person said nothing of.
ApplySuppression(card) ==
  LET previous == IF card.hidden THEN card.hiddenBy ELSE {}
      added == ActiveSuppression(rules, card.content) \ previous
  IN  IF card.reshown \/ card.decision # "pending" \/ added = {} THEN card
      ELSE [card EXCEPT !.hidden = TRUE, !.hiddenBy = previous \cup added]

(* Mutant: the rule that ended is forgotten by the cards nothing else hides only. *)
RefreshKeepsIds(known) ==
  [j \in Jobs |->
     IF job[j].hidden /\ ActiveSuppression(known, job[j].content) = {}
     THEN [job[j] EXCEPT !.hidden = FALSE, !.hiddenBy = {}] ELSE job[j]]

\* refreshSuppression: the cards, once a rule of known ended.
RefreshSuppression(known) ==
  [j \in Jobs |->
     IF ~job[j].hidden THEN job[j]
     ELSE LET matched == ActiveSuppression(known, job[j].content)
          IN  [job[j] EXCEPT !.hidden = matched # {}, !.hiddenBy = matched]]

-----------------------------------------------------------------------------
(* The posting *)

Absent == [card |-> "absent", content |-> NoContent, decision |-> "pending", hidden |-> FALSE,
           hiddenBy |-> {}, reshown |-> FALSE, discarded |-> FALSE, stage |-> "none"]

\* A source or a form brings it: upsertJob.
Discover(j, c) ==
  /\ job[j].card = "absent"
  /\ job' = [job EXCEPT ![j] = ApplySuppression([Absent EXCEPT !.card = "listed", !.content = c])]
  /\ UNCHANGED <<feedback, rules, positive, negative, signal, offer>>

\* A source brings it again; an archived one too.
Sighting(j) ==
  /\ job[j].card # "absent"
  /\ job' = [job EXCEPT ![j] = ApplySuppression(@)]
  /\ UNCHANGED <<feedback, rules, positive, negative, signal, offer>>

\* updateJob, and what an agent or a solved conflict writes; no rule is applied.
Edit(j, c) ==
  /\ job[j].card = "listed" /\ c # job[j].content
  /\ job' = [job EXCEPT ![j].content = c]
  /\ UNCHANGED <<feedback, rules, positive, negative, signal, offer>>

\* A resume is made, an application goes on: only what a decision reads of it.
Progress(j, s) ==
  /\ job[j].card = "listed" /\ job[j].decision = "interested"
  /\ \/ job[j].stage = "none" /\ s # "none"
     \/ job[j].stage = "resume" /\ s = "locked"
  /\ job' = [job EXCEPT ![j].stage = s]
  /\ UNCHANGED <<feedback, rules, positive, negative, signal, offer>>

\* The reopen command: the card is found again, its decision stays.
Reopen(j) ==
  /\ job[j].card = "listed" /\ job[j].discarded
  /\ job' = [job EXCEPT ![j].discarded = FALSE]
  /\ UNCHANGED <<feedback, rules, positive, negative, signal, offer>>

-----------------------------------------------------------------------------
(* Decisions.  Each request of the panel loads the data again, which drops *)
(* the notice, and then raises its own.                                    *)

(* Mutant: the notice of an earlier decision outlives the load. *)
KeepsOld(notice) == IF notice = NoOffer THEN offer ELSE notice

LoadData(notice) == notice

Offer(j, decision, id) == [job |-> j, decision |-> decision, id |-> id]

Open(j) == job[j].card = "listed" /\ job[j].stage # "locked"

\* The facets an interest adds: one signal per vacancy.
FirstSignal(j) ==
  IF signal[j] = NoSignal THEN SetToBag(PositiveSignalFacets(job[j].content)) ELSE EmptyBag

\* recordJobDecision, TENHO INTERESSE
RecordInterest(j) ==
  /\ Open(j) /\ ~job[j].discarded
  /\ job' = [job EXCEPT ![j].decision = "interested"]
  /\ positive' = positive (+) FirstSignal(j)
  /\ signal' = [signal EXCEPT ![j] = IF @ = NoSignal THEN PositiveSignalFacets(job[j].content) ELSE @]
  /\ UNCHANGED <<feedback, rules, negative>>

MarkInterested(j) == RecordInterest(j) /\ offer' = LoadData(NoOffer)

\* recordJobDecision, SEM TEMPO
RecordNoTime(j) ==
  /\ Open(j)
  /\ job' = [job EXCEPT ![j].decision = "no_time"]
  /\ UNCHANGED <<feedback, rules, positive, negative, signal>>

MarkNoTime(j) == RecordNoTime(j) /\ offer' = LoadData(Offer(j, "no_time", 0))

RecordJobFeedback(j, mode, reason, detail) ==
  LET id == Len(feedback) + 1
      value == FacetValue(job[j].content, detail)
  IN  /\ Open(j) /\ id <= MaxFeedback
      /\ feedback' = Append(feedback, [job |-> j, mode |-> mode, detail |-> detail, value |-> value, undone |-> FALSE])
      /\ negative' = negative (+) SetToBag({<<detail, value>>})
      /\ IF mode = "total"
         THEN /\ rules' = [i \in DOMAIN rules \cup {id} |->
                             IF i = id THEN [match |-> Rule(reason, detail, job[j].content), state |-> "active"] ELSE rules[i]]
              /\ job' = [job EXCEPT ![j].decision = "not_interested", ![j].discarded = TRUE]
         ELSE UNCHANGED <<rules, job>>
      /\ UNCHANGED <<positive, signal>>

MarkNotInterested(j, mode, reason, detail) ==
  /\ RecordJobFeedback(j, mode, reason, detail)
  /\ offer' = LoadData(Offer(j, IF mode = "total" THEN "not_interested" ELSE "partial", Len(feedback) + 1))

-----------------------------------------------------------------------------
(* Taking back *)

Standing(i) == ~feedback[i].undone

\* The rejection an undo of j's decision takes back: its newest total one.
LatestTotal(j) ==
  LET totals == {i \in DOMAIN feedback : feedback[i].job = j /\ feedback[i].mode = "total" /\ Standing(i)}
  IN  {i \in totals : \A k \in totals : k <= i}

(* Mutant: the facet is read from the card as it is now. *)
CurrentFacets(ids) ==
  SetToBag({<<feedback[i].detail, FacetValue(job[feedback[i].job].content, feedback[i].detail)>> : i \in ids})

\* The facets rejections counted, as each recorded them.
StoredFacets(ids) == SetToBag({<<feedback[i].detail, feedback[i].value>> : i \in ids})

\* The rules made from rejections are undone with them.
WithoutRules(ids) ==
  [i \in DOMAIN rules |-> IF i \in ids THEN [rules[i] EXCEPT !.state = "undone"] ELSE rules[i]]

\* undoFeedbackRows, for at most one rejection
UndoFeedbackRows(ids) ==
  /\ feedback' = [i \in DOMAIN feedback |-> IF i \in ids THEN [feedback[i] EXCEPT !.undone = TRUE] ELSE feedback[i]]
  /\ negative' = negative (-) StoredFacets(ids)
  /\ rules' = WithoutRules(ids)

UndoPartial(j, id) ==
  /\ job[j].card = "listed"
  /\ feedback[id].job = j /\ feedback[id].mode = "partial" /\ Standing(id)
  /\ UndoFeedbackRows({id})
  /\ UNCHANGED <<job, positive, signal>>

UndoRejection(j) ==
  LET ids == LatestTotal(j)
  IN  /\ job[j].decision = "not_interested"
      /\ UndoFeedbackRows(ids)
      /\ job' = [(IF ids = {} THEN job ELSE RefreshSuppression(WithoutRules(ids)))
                   EXCEPT ![j].decision = "pending", ![j].discarded = FALSE]
      /\ UNCHANGED <<positive, signal>>

UndoInterest(j) ==
  /\ job[j].decision = "interested" /\ job[j].stage = "none"
  /\ job' = [job EXCEPT ![j].decision = "pending"]
  /\ positive' = IF signal[j] = NoSignal THEN positive ELSE positive (-) SetToBag(signal[j])
  /\ signal' = [signal EXCEPT ![j] = NoSignal]
  /\ UNCHANGED <<feedback, rules, negative>>

UndoNoTime(j) ==
  /\ job[j].decision = "no_time"
  /\ job' = [job EXCEPT ![j].decision = "pending"]
  /\ UNCHANGED <<feedback, rules, positive, negative, signal>>

\* undoJobDecision, without the rejection to undo
UndoJobDecision(j) ==
  /\ Open(j)
  /\ UndoRejection(j) \/ UndoInterest(j) \/ UndoNoTime(j)

\* The button of the card.
UndoFromCard(j) == UndoJobDecision(j) /\ offer' = LoadData(NoOffer)

\* The panel takes a partial rejection back in its notice only, the API any of them.
UndoPartialByRequest(j, id) == UndoPartial(j, id) /\ UNCHANGED offer

\* archiveJob; of the locked applications only the running ones refuse it.
Archived(j) ==
  /\ job[j].card = "listed"
  /\ job' = [job EXCEPT ![j].card = "archived"]
  /\ UNCHANGED <<feedback, rules, positive, negative, signal>>

ArchiveJob(j) == Archived(j) /\ offer' = LoadData(Offer(j, "archived", 0))

\* restoreJob
Restored(j) ==
  /\ job[j].card = "archived"
  /\ job' = [job EXCEPT ![j].card = "listed"]
  /\ UNCHANGED <<feedback, rules, positive, negative, signal>>

RestoreJob(j) == Restored(j) /\ offer' = LoadData(NoOffer)

\* The notice's button; it names the rejection of a partial one only.
TakeOffer ==
  /\ offer # NoOffer
  /\ CASE offer.decision = "partial" -> UndoPartial(offer.job, offer.id)
       [] offer.decision = "archived" -> Restored(offer.job)
       [] OTHER -> UndoJobDecision(offer.job)
  /\ offer' = LoadData(NoOffer)

\* The notice leaves by itself.
OfferExpires ==
  /\ offer # NoOffer /\ offer' = NoOffer
  /\ UNCHANGED <<job, feedback, rules, positive, negative, signal>>

-----------------------------------------------------------------------------
(* Rules and hidden cards *)

PausePreferenceRule(i) ==
  LET known == [rules EXCEPT ![i].state = "paused"]
  IN  /\ rules[i].state = "active"
      /\ rules' = known
      /\ job' = RefreshSuppression(known)
      /\ offer' = LoadData(NoOffer)
      /\ UNCHANGED <<feedback, positive, negative, signal>>

ActivatePreferenceRule(i) ==
  /\ rules[i].state = "paused"
  /\ rules' = [rules EXCEPT ![i].state = "active"]
  /\ offer' = LoadData(NoOffer)
  /\ UNCHANGED <<job, feedback, positive, negative, signal>>

\* unsuppressJob
UnsuppressJob(j) ==
  /\ job[j].hidden
  /\ job' = [job EXCEPT ![j].hidden = FALSE, ![j].hiddenBy = {}, ![j].reshown = TRUE]
  /\ offer' = LoadData(NoOffer)
  /\ UNCHANGED <<feedback, rules, positive, negative, signal>>

-----------------------------------------------------------------------------
FeedbackInit ==
  /\ job = [j \in Jobs |-> Absent]
  /\ feedback = <<>> /\ rules = <<>>
  /\ positive = EmptyBag /\ negative = EmptyBag
  /\ signal = [j \in Jobs |-> NoSignal]
  /\ offer = NoOffer

FeedbackNext ==
  \/ \E j \in Jobs, c \in Contents : Discover(j, c)
  \/ \E j \in Jobs, c \in Contents : Edit(j, c)
  \/ \E j \in Jobs : Sighting(j)
  \/ \E j \in Jobs, s \in Stages : Progress(j, s)
  \/ \E j \in Jobs : Reopen(j)
  \/ \E j \in Decided : MarkInterested(j)
  \/ \E j \in Decided : MarkNoTime(j)
  \/ \E j \in Decided, m \in Modes, r \in Reasons : MarkNotInterested(j, m, r[1], r[2])
  \/ \E j \in Jobs : UndoFromCard(j)
  \/ \E j \in Jobs, id \in DOMAIN feedback : UndoPartialByRequest(j, id)
  \/ \E j \in Decided : ArchiveJob(j)
  \/ \E j \in Jobs : RestoreJob(j)
  \/ TakeOffer
  \/ OfferExpires
  \/ \E i \in DOMAIN rules : PausePreferenceRule(i)
  \/ \E i \in DOMAIN rules : ActivatePreferenceRule(i)
  \/ \E j \in Jobs : UnsuppressJob(j)

FeedbackSpec == FeedbackInit /\ [][FeedbackNext]_feedbackVars

-----------------------------------------------------------------------------
(* Whatever was edited in between, undone or decided again, what counts for *)
(* a facet is the interests stored with it, and what counts against it the  *)
(* rejections that stand (preferences.ts undoFeedbackRows, jobs.ts          *)
(* recordJobDecision).  This is how the code counts: one for each standing  *)
(* rejection, and an interest beside a later rejection of the same facet.   *)
(* The text of docs/production-sdd-bdd-tdd.md:377, one signal of a vacancy  *)
(* and facet, the last in the place of the one before, is not what it does. *)
LearnedIsBacked ==
  /\ \A f \in BagToSet(positive) \cup UNION {signal[j] : j \in {k \in Jobs : signal[k] # NoSignal}} :
       Copies(f, positive) = Cardinality({j \in Jobs : signal[j] # NoSignal /\ f \in signal[j]})
  /\ \A f \in BagToSet(negative) \cup {<<feedback[i].detail, feedback[i].value>> : i \in DOMAIN feedback} :
       Copies(f, negative) = Cardinality({i \in DOMAIN feedback : Standing(i) /\ f = <<feedback[i].detail, feedback[i].value>>})

(* A card is hidden only by rules in force, each of them by a rejection     *)
(* that stands, and never once the person asked to see it: pausing, undoing *)
(* and showing again leave nothing hidden behind, in whatever order with    *)
(* the postings seen again (preferences.ts refreshSuppression,              *)
(* setPreferenceRuleState, applySuppression).                               *)
HiddenHasReason ==
  /\ \A j \in Jobs : /\ job[j].hidden <=> job[j].hiddenBy # {}
                     /\ job[j].hiddenBy \subseteq ActiveRules(rules)
                     /\ job[j].reshown => ~job[j].hidden
  /\ \A i \in DOMAIN rules : (rules[i].state = "undone") <=> ~Standing(i)

(* "Desfazer" takes back the decision it was raised for, and no other: while *)
(* the notice is there, the decision the server would undo is that one       *)
(* (app.ts toast: "evita desfazer a ação errada").  A partial rejection is   *)
(* named in the request.                                                     *)
OfferIsCurrent ==
  offer # NoOffer /\ offer.decision # "partial" =>
    CASE offer.decision = "archived" -> job[offer.job].card = "archived"
      [] offer.decision = "not_interested" -> /\ job[offer.job].decision = "not_interested"
                                              /\ LatestTotal(offer.job) = {offer.id}
      [] OTHER -> job[offer.job].decision = offer.decision
=============================================================================
