----------------------------- MODULE MatchScores -----------------------------
(***************************************************************************)
(* How well a vacancy matches the profile: six criteria an agent gives,    *)
(* weighed, adjusted by what was learned from the person, and kept for the *)
(* version of the profile they are about.  A round keeps the version it    *)
(* began with.  Beside the score, four blockers say what the posting       *)
(* demands against what the profile's confirmed facts allow.               *)
(*                                                                         *)
(* A score is in hundredths.  A version of the profile stands for its      *)
(* facts; how it comes to be confirmed is ProfileDrafts'.                  *)
(***************************************************************************)
EXTENDS Feedback, FiniteSetsExt, SequencesExt

CONSTANTS
  Scored,      \* bound: the vacancies that are scored
  Inputs,      \* criteria an agent may give: 0..100 or None
  Rounds,
  MaxVersions, \* bound: versions of the profile confirmed
  MaxScores,   \* bound: rows of match_scores
  FactsOf,     \* the facts of each version, in order
  Adverts,     \* what the coverage of a resume reads of a posting
  Texts,       \* and of the resume
  Nearby,      \* pairs of places one of which names the other
  None, NoRound

VARIABLES
  version,  \* the active profile's snapshot, 0 with no profile
  pinned,   \* search_rounds.profile_snapshot_id, 0 before the round
  scores,   \* match_scores, the last written last
  board     \* jobs.match_score

scoreVars == <<version, pinned, scores, board>>
vars == <<feedbackVars, scoreVars>>

MatchWeights ==
  [role_family |-> 25, skills |-> 25, seniority |-> 15,
   location_work_model |-> 15, compensation |-> 10, explicit_preferences |-> 10]

Criteria == DOMAIN MatchWeights

ASSUME InputAssumption ==
  /\ None \notin Nat
  /\ \A s \in Inputs : \A k \in DOMAIN s : s[k] = None \/ s[k] \in 0..100

Sections == {"experience", "education", "skills", "contact"}

ASSUME CoverageAssumption ==
  /\ \A advert \in Adverts : \A asked \in {advert.terms, advert.phrases, advert.required,
                                           advert.described, advert.title} : IsFiniteSet(asked)
  \* extractJobKeywords keeps the first 40: with no more than that it keeps them all.
  /\ \A advert \in Adverts : Cardinality(advert.terms \cup advert.phrases) <= 40
  /\ \A text \in Texts : text.sections \subseteq Sections /\ {text.readable, text.ambiguous} \subseteq Nat

TypeOK ==
  /\ FeedbackTypeOK
  /\ version \in 0..MaxVersions /\ pinned \in [Rounds -> 0..MaxVersions]
  /\ \A i \in DOMAIN scores : /\ scores[i].job \in Jobs /\ scores[i].version \in 1..version
                              /\ scores[i].base \in 0..10000 /\ scores[i].final \in 0..10000
  /\ board \in [Jobs -> 0..100]

-----------------------------------------------------------------------------
(* The score *)

Rounded(a, b) == (2 * a + b) \div (2 * b)

Comparable(s) == {k \in Criteria : s[k] # None}
WeightOf == [ks \in SUBSET Criteria |-> SumFunctionOnSet(MatchWeights, ks)]
Weight(ks) == WeightOf[ks]

\* calculateMatchScore takes exactly the six.
WellGiven == {s \in Inputs : DOMAIN s = Criteria}

Weighed(s) == SumFunction([k \in Comparable(s) |-> s[k] * MatchWeights[k]])

(* Mutant: a criterion without data counts as zero. *)
MissingAsZero == [s \in WellGiven |-> Rounded(100 * Weighed(s), Weight(Criteria))]

\* calculateScore: the mean of what is known, by its weights
ScoreBase ==
  [s \in WellGiven |->
     IF Comparable(s) = {} THEN 0 ELSE Rounded(100 * Weighed(s), Weight(Comparable(s)))]

CoveragePercent(s) == Rounded(10000 * Weight(Comparable(s)), Weight(Criteria))

Band(base, coverage) ==
  CASE coverage < 6000 -> "insufficient_data"
    [] coverage >= 6000 /\ base >= 8000 -> "strong_match"
    [] coverage >= 6000 /\ base < 8000 /\ base >= 6500 -> "review"
    [] OTHER -> "low_match"

(* What one value learned says beyond 50, in millionths: p for it and n    *)
(* against it (calculateLearnedPreference).                                *)
LearnedSignal(p, n) == (50000000 * (p - n) * (p + n)) \div ((p + n + 3) * (p + n + 2))

Clamp(low, x, high) == IF x < low THEN low ELSE IF x > high THEN high ELSE x

\* The values learned that the posting has.
MatchingValues(c) ==
  {f \in BagToSet(positive) \cup BagToSet(negative) :
     f[2] \notin Unheard /\ FacetValue(c, f[1]) = f[2]}

\* applyPreferenceAdjustment
PreferenceAdjustment(c) ==
  LET learned == MatchingValues(c)
      total == SumFunction([f \in learned |-> LearnedSignal(Copies(f, positive), Copies(f, negative))])
  IN  IF learned = {} THEN 0
      ELSE Clamp(-1000, Rounded(total \div Cardinality(learned), 50000), 1000)

-----------------------------------------------------------------------------
(* The coverage of a resume: what the posting asks that the text says.      *)
(* Scores are in tenths.                                                    *)

CoverageWeights == [keywords |-> 40, skills |-> 20, title |-> 15, sections |-> 15, dates |-> 10]

\* extractJobKeywords: skills the dictionary knows, and short phrases of the requirements.
JobKeywords(advert) == advert.terms \cup advert.phrases

\* Of the requirements or, with none listed, of the description.
SkillTerms(advert) == IF advert.listed THEN advert.required ELSE advert.described

Share(found, asked) ==
  IF asked = {} THEN None ELSE Rounded(1000 * Cardinality(found \cap asked), Cardinality(asked))

CoverageComponents(advert, text) ==
  [keywords |-> Share(text.words \cup text.keywords, JobKeywords(advert)),
   skills |-> Share(text.skills \cup text.keywords, SkillTerms(advert)),
   title |-> Share(text.words, advert.title),
   sections |-> Rounded(1000 * Cardinality(text.sections), Cardinality(Sections)),
   dates |-> IF text.readable + text.ambiguous = 0 THEN 0
             ELSE Rounded(1000 * text.readable, text.readable + text.ambiguous)]

\* computeCoverage, of 100
Coverage(advert, text) ==
  LET parts == CoverageComponents(advert, text)
      measured == {k \in DOMAIN parts : parts[k] # None}
  IN  Rounded(SumFunction([k \in measured |-> parts[k] * CoverageWeights[k]]),
              10 * SumFunctionOnSet(CoverageWeights, measured))

-----------------------------------------------------------------------------
(* Blockers *)

Demands == {"work_model", "location", "work_authorization", "min_years"}
WorkModels == {"remote", "hybrid", "onsite"}

\* A demand as the posting's column has it: a value and whether it is quoted.
\* Of an authorization, `sponsor` is offered by the one side, needed by the other.
WellDemanded(kind, demand) ==
  /\ demand.quoted
  /\ CASE kind = "work_model" -> demand.value \in WorkModels
       [] kind = "work_authorization" -> demand.value.countries # {}
       [] kind = "min_years" -> demand.value \in 0..60
       [] OTHER -> TRUE

\* parseJobRequirementsColumn: one demand amiss and there are none.
Requirements(column) ==
  IF \A k \in DOMAIN column : WellDemanded(k, column[k])
  THEN [k \in DOMAIN column |-> column[k].value] ELSE <<>>

FactType ==
  [work_model |-> "work_models", location |-> "accepted_locations",
   work_authorization |-> "work_authorization", min_years |-> "years_experience"]

\* normalizeBlockerFact does not throw.
WellFormed(fact) ==
  CASE fact.type = "accepted_locations" -> fact.value # {}
    [] fact.type = "work_authorization" -> fact.value.countries # {}
    [] fact.type = "work_models" -> fact.value # {} /\ fact.value \subseteq WorkModels
    [] OTHER -> fact.value \in 0..70

Confirmed(facts, type) ==
  {i \in DOMAIN facts : facts[i].type = type /\ facts[i].state = "confirmed" /\ WellFormed(facts[i])}

\* blockerProfileFrom: of each type, the last.
Limit(facts, type) == facts[Max(Confirmed(facts, type))].value

LocationMatches(place, accepted) ==
  \E item \in accepted : item \in {place, "any"} \/ {item, place} \in Nearby

\* evaluateBlockers
Blocker(facts, needs, kind) ==
  LET known == Confirmed(facts, FactType[kind]) # {}
      limit == Limit(facts, FactType[kind])
      need == needs[kind]
      met == CASE kind = "work_model" -> need \in limit
               [] kind = "location" -> LocationMatches(need, limit)
               [] kind = "work_authorization" ->
                    \/ \E country \in need.countries : LocationMatches(country, limit.countries)
                    \/ limit.sponsor /\ need.sponsor
               [] OTHER -> limit >= need
  IN  IF kind \notin DOMAIN needs THEN "unchecked"
      ELSE IF kind = "location" /\ "work_model" \in DOMAIN needs /\ needs["work_model"] = "remote" THEN "ok"
      ELSE IF ~known THEN "unchecked"
      ELSE IF met THEN "ok" ELSE "blocked"

\* The profile as the panel reads it, and what it says of a card.
ActiveFacts == IF version = 0 THEN <<>> ELSE FactsOf[version]
Blockers(j) == [k \in Demands |-> Blocker(ActiveFacts, Requirements(job[j].content.demands), k)]

-----------------------------------------------------------------------------
(* Scores are recorded *)

\* resolveScoreSnapshot: the version the score is of, 0 when it is refused.
ResolveScoreSnapshot(asked, round) ==
  IF round # NoRound
  THEN IF asked \in {0, pinned[round]} THEN pinned[round] ELSE 0
  ELSE IF asked # 0 THEN asked ELSE version

(* Mutant: whatever version the score is of, the board shows it. *)
ShownAlways(j, row) == [board EXCEPT ![j] = Rounded(row.final, 100)]

\* The board shows scores of the active version only.
Shown(j, row) == IF row.version = version THEN [board EXCEPT ![j] = Rounded(row.final, 100)] ELSE board

\* The row of the same vacancy, version and round, of which there is at most one.
SameKey(row) == {i \in DOMAIN scores : <<scores[i].job, scores[i].version, scores[i].round>> = <<row.job, row.version, row.round>>}

\* INSERT ... ON CONFLICT(job, snapshot, round) DO UPDATE
Upsert(row) ==
  Append(IF SameKey(row) = {} THEN scores ELSE RemoveAt(scores, CHOOSE i \in SameKey(row) : TRUE), row)

ScoreRow(j, s, asked, round) ==
  LET base == ScoreBase[s]
  IN  [job |-> j, version |-> ResolveScoreSnapshot(asked, round), round |-> round, criteria |-> s,
       base |-> base, band |-> Band(base, CoveragePercent(s)),
       final |-> Clamp(0, base + PreferenceAdjustment(job[j].content), 10000)]

\* recordMatchScore
RecordMatchScore(j, s, asked, round) ==
  LET row == ScoreRow(j, s, asked, round)
  IN  /\ job[j].card # "absent" /\ s \in WellGiven
      /\ round # NoRound => pinned[round] # 0
      /\ ResolveScoreSnapshot(asked, round) # 0
      /\ Len(Upsert(row)) <= MaxScores
      /\ scores' = Upsert(row)
      /\ board' = Shown(j, row)
      /\ UNCHANGED <<feedbackVars, version, pinned>>

\* startSearchRound: what a score reads of it.
StartSearchRound(r) ==
  /\ pinned[r] = 0 /\ version # 0
  /\ pinned' = [pinned EXCEPT ![r] = version]
  /\ UNCHANGED <<feedbackVars, version, scores, board>>

\* confirmProfile: a new snapshot is the active one.
ConfirmProfile ==
  /\ version < MaxVersions
  /\ version' = version + 1
  /\ UNCHANGED <<feedbackVars, pinned, scores, board>>

Init ==
  /\ FeedbackInit
  /\ version = 0 /\ scores = <<>>
  /\ pinned = [r \in Rounds |-> 0]
  /\ board = [j \in Jobs |-> 0]

Next ==
  \/ FeedbackNext /\ UNCHANGED scoreVars
  \/ \E j \in Scored, s \in Inputs, v \in 0..version, r \in Rounds \cup {NoRound} : RecordMatchScore(j, s, v, r)
  \/ \E r \in Rounds : StartSearchRound(r)
  \/ ConfirmProfile

Spec == Init /\ [][Next]_vars

-----------------------------------------------------------------------------
Newest(j, v) == {i \in DOMAIN scores : scores[i].job = j /\ scores[i].version = v}

(* The versions of the profile do not mix: the scores of a round are of the *)
(* version it began with, and once the active version has a score of a      *)
(* vacancy the board shows the newest of them, whatever late answers about  *)
(* older versions are recorded after it (resolveScoreSnapshot).             *)
VersionsDoNotMix ==
  /\ \A i \in DOMAIN scores : scores[i].round # NoRound => scores[i].version = pinned[scores[i].round]
  /\ \A j \in Jobs : Newest(j, version) # {} =>
       board[j] = Rounded(scores[Max(Newest(j, version))].final, 100)

(* The coverage of a resume lies between its measured parts, and a resume   *)
(* that says all that is asked covers it whole.                             *)
CoverageIsOfWhatIsAsked ==
  \A advert \in Adverts, text \in Texts :
    LET parts == CoverageComponents(advert, text)
        measured == {parts[k] : k \in {m \in DOMAIN parts : parts[m] # None}}
        total == Coverage(advert, text)
    IN  /\ 10 * total \in (Min(measured) - 5)..(Max(measured) + 5)
        /\ /\ JobKeywords(advert) \cup advert.title \subseteq text.words
           /\ SkillTerms(advert) \subseteq text.skills
           /\ text.sections = Sections /\ text.readable > 0 /\ text.ambiguous = 0
           => total = 100

(* What nobody said counts neither way.  A score lies between the least and *)
(* the greatest of the criteria given, whatever is missing, and what was    *)
(* learned moves it by ten points at most; with too little given it is not  *)
(* a strong match.  A blocker is checked only when the posting quotes the   *)
(* demand and the person confirmed the limit, and none is of the place of a *)
(* remote vacancy; and so with the coverage of a resume (calculateScore,    *)
(* evaluateBlockers, computeCoverage).                                      *)
UnsaidDoesNotCount ==
  /\ \A i \in DOMAIN scores :
       LET s == scores[i].criteria
           given == {100 * s[k] : k \in Comparable(s)}
       IN  /\ given # {} => scores[i].base \in Min(given)..Max(given)
           /\ scores[i].final \in (scores[i].base - 1000)..(scores[i].base + 1000)
           /\ 100 * Weight(Comparable(s)) < 60 * Weight(Criteria) => scores[i].band = "insufficient_data"
  /\ CoverageIsOfWhatIsAsked
  /\ \A j \in Jobs : job[j].card # "absent" =>
       \A k \in Demands :
         /\ Blockers(j)[k] # "unchecked" =>
              k \in DOMAIN job[j].content.demands /\ job[j].content.demands[k].quoted
         /\ Blockers(j)[k] = "blocked" =>
              /\ \E i \in DOMAIN ActiveFacts : ActiveFacts[i].type = FactType[k] /\ ActiveFacts[i].state = "confirmed"
              /\ k = "location" /\ "work_model" \in DOMAIN job[j].content.demands =>
                   job[j].content.demands["work_model"].value # "remote"
=============================================================================
