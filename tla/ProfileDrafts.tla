--------------------------- MODULE ProfileDrafts ----------------------------
(***************************************************************************)
(* The professional profile: drafts, their facts, the interview, the       *)
(* confirmation with its snapshot, and the versions that come after.       *)
(* A person reviews and confirms; agents and services only propose.        *)
(*                                                                         *)
(* Requests run to their end one after the other, but for the draft made   *)
(* from a PDF, which waits for the extraction between its test and its     *)
(* insertion; and a claim a person confirms on a resume makes a version of *)
(* its own, with or without a draft open.                                  *)
(***************************************************************************)
EXTENDS Naturals, Sequences, FiniteSets, SequencesExt

CONSTANTS
  Types,        \* types of facts, and keys of the interview
  Blockers,     \* types with a single value: an answer replaces the proposals
  Values,       \* values of facts
  Claims,       \* values of the claims of resumes
  Given,        \* facts a request may bring
  Contexts,     \* whether a person writes the context
  Reviews,      \* states a person gives to a fact
  MaxVersions,  \* bound on the versions of the profile
  MaxFacts,     \* bound on the facts of a version
  MaxWaiting    \* bound on the extractions under way

\* needs_review is another name of proposed; import is another of pdf.
Fact == [type : Types, value : Values, origin : {"pdf", "user", "derived"},
         state : {"proposed", "confirmed", "rejected"},
         evidence : BOOLEAN, asked : BOOLEAN]

ASSUME ProfileAssumption ==
  /\ Blockers \subseteq Types /\ Claims \subseteq Values /\ Given \subseteq {f \in Fact : ~f.asked}
  /\ Contexts \subseteq BOOLEAN /\ Reviews \subseteq {"proposed", "confirmed", "rejected"}
  /\ \A f \in Given : f.state = "confirmed" /\ f.origin # "user" => f.evidence

ASSUME BoundAssumption == MaxVersions \in Nat /\ MaxFacts \in Nat /\ MaxWaiting \in Nat

VARIABLES
  profile,     \* professional_profiles, by version
  facts,       \* profile_facts of each version, in order
  answered,    \* profile_interviews: what a person answered; the others are never read
  snapshot,    \* profile_snapshots
  waiting      \* requests that wait for the extraction of a PDF

vars == <<profile, facts, answered, snapshot, waiting>>

Versions == 1..MaxVersions

\* from: the version it is a copy of; filled: it has a context.
Profile == [status : {"none", "draft", "confirmed", "retired", "deleted"},
            from : 0..MaxVersions, filled : BOOLEAN]

Actor == {"human", "machine"}

\* Mutant: the confirmed profile goes on taking facts.
DraftOrActive(v) == profile[v].status \in {"draft", "confirmed"}

IsDraft(v) == profile[v].status = "draft"

\* No draft is open: tested before some creations only.
NoOpenDraft == \A v \in Versions : profile[v].status # "draft"

Actives == {v \in Versions : profile[v].status = "confirmed"}

\* Past every version there was, the discarded ones too.
NextProfileVersion == 1 + Cardinality({v \in Versions : profile[v].status # "none"})

FactHasEvidence(f) == f.origin = "user" \/ f.evidence

IsPendingFact(f) == f.state = "proposed"

ConfirmedFacts(s) == {f \in ToSet(s) : f.state = "confirmed"}

(* What each actor may add: a service neither declares nor confirms, and   *)
(* gives the page of what comes from a PDF.                                *)
MayAdd(by) ==
  {f \in Given : by = "machine" =>
     f.origin # "user" /\ f.state # "confirmed" /\ (f.origin = "pdf" => f.evidence)}

\* The facts a request brings: none or one.
Brought(by) == {<<>>} \cup {<<f>> : f \in MayAdd(by)}

-----------------------------------------------------------------------------
(* Drafts *)

\* The rows of a new draft.
Insert(v, from, filled, new) ==
  /\ v \in Versions
  /\ profile' = [profile EXCEPT ![v] = [status |-> "draft", from |-> from, filled |-> filled]]
  /\ facts' = [facts EXCEPT ![v] = new]

\* A draft from nothing, even with another one open.
CreateProfessionalProfile(by) ==
  /\ \E filled \in Contexts \cup {FALSE}, new \in Brought(by) :
       (filled => by = "human") /\ Insert(NextProfileVersion, 0, filled, new)
  /\ UNCHANGED <<answered, snapshot, waiting>>

Imported == {f \in Given : f.origin = "pdf" /\ f.state = "proposed" /\ f.evidence}

ImportJsonResumeProfile ==
  /\ NoOpenDraft
  /\ \E f \in Imported : Insert(NextProfileVersion, 0, FALSE, <<f>>)
  /\ UNCHANGED <<answered, snapshot, waiting>>

\* The PDF is read by a worker while other requests go on.
ProposeBaseResumeFacts ==
  /\ NoOpenDraft /\ waiting < MaxWaiting
  /\ waiting' = waiting + 1
  /\ UNCHANGED <<profile, facts, answered, snapshot>>

\* The worker ended; by now the resume may be gone.
CreateProfileFromBaseResume ==
  /\ waiting > 0 /\ waiting' = waiting - 1
  /\ \/ \E new \in {<<>>} \cup {<<f>> : f \in Imported} : Insert(NextProfileVersion, 0, FALSE, new)
     \/ UNCHANGED <<profile, facts>>
  /\ UNCHANGED <<answered, snapshot>>

\* The facts are copied as they stand; an answer of the interview is no more than a fact.
Copy(v) == [n \in DOMAIN facts[v] |-> [facts[v][n] EXCEPT !.asked = FALSE]]

CreateProfileNewVersion(v) ==
  /\ v \in Actives /\ NoOpenDraft
  /\ Insert(NextProfileVersion, v, profile[v].filled, Copy(v))
  /\ UNCHANGED <<answered, snapshot, waiting>>

\* The context is a person's to write.
UpdateProfessionalProfile(by, v) ==
  /\ IsDraft(v)
  /\ \E filled \in Contexts \cup {profile[v].filled}, new \in Brought(by) :
       /\ (by = "machine" => filled = profile[v].filled) /\ Len(facts[v]) + Len(new) <= MaxFacts
       /\ profile' = [profile EXCEPT ![v].filled = filled]
       /\ facts' = [facts EXCEPT ![v] = @ \o new]
  /\ UNCHANGED <<answered, snapshot, waiting>>

AddProfileFact(by, v) ==
  /\ IsDraft(v) /\ Len(facts[v]) < MaxFacts
  /\ \E f \in MayAdd(by) : facts' = [facts EXCEPT ![v] = Append(@, f)]
  /\ UNCHANGED <<profile, answered, snapshot, waiting>>

\* The fact is named by its identifier, whatever its value is by now.
ReviewProfileFact(v, n, state) ==
  /\ IsDraft(v) /\ n \in DOMAIN facts[v]
  /\ state = "confirmed" => FactHasEvidence(facts[v][n])
  /\ facts' = [facts EXCEPT ![v][n].state = state]
  /\ UNCHANGED <<profile, answered, snapshot, waiting>>

\* What an agent passed on as an answer is confirmed one by one only.
IsInterviewProposal(f) == f.asked

ReviewedAll(s) ==
  [n \in DOMAIN s |->
     IF IsPendingFact(s[n]) /\ FactHasEvidence(s[n]) /\ ~IsInterviewProposal(s[n])
       THEN [s[n] EXCEPT !.state = "confirmed"] ELSE s[n]]

ReviewAllProfileFacts(v) ==
  /\ IsDraft(v)
  /\ facts' = [facts EXCEPT ![v] = ReviewedAll(@)]
  /\ UNCHANGED <<profile, answered, snapshot, waiting>>

\* Its number is not used again.
DeleteDraftProfile(v) ==
  /\ IsDraft(v)
  /\ profile' = [profile EXCEPT ![v] = [status |-> "deleted", from |-> 0, filled |-> FALSE]]
  /\ facts' = [facts EXCEPT ![v] = <<>>]
  /\ answered' = [answered EXCEPT ![v] = {}]
  /\ UNCHANGED <<snapshot, waiting>>

-----------------------------------------------------------------------------
(* The interview *)

AsProposed(t, value) ==
  [type |-> t, value |-> value, origin |-> "derived", state |-> "proposed",
   evidence |-> TRUE, asked |-> TRUE]

Declared(t, value) ==
  [type |-> t, value |-> value, origin |-> "user", state |-> "confirmed",
   evidence |-> TRUE, asked |-> FALSE]

\* One proposal per question; another value opens its review again.
Repropose(s, t, value) ==
  LET was == {n \in DOMAIN s : s[n].type = t /\ s[n].asked}
  IN  IF was = {} THEN Append(s, AsProposed(t, value))
      ELSE [n \in DOMAIN s |->
             IF n \in was /\ s[n].value # value THEN AsProposed(t, value) ELSE s[n]]

\* A person who answered is not spoken over.
AnswerByMachine(v, t, value) ==
  /\ IsDraft(v) /\ t \notin answered[v]
  /\ facts' = [facts EXCEPT ![v] = Repropose(@, t, value)]
  /\ Len(facts'[v]) <= MaxFacts
  /\ UNCHANGED <<profile, answered, snapshot, waiting>>

\* The first declaration takes the answer; a blocker's proposals are rejected.
Declare(s, t, value) ==
  LET own == {n \in DOMAIN s : s[n].type = t /\ s[n].origin = "user"}
      Answered(n) == IF n \in own /\ \A m \in own : n <= m THEN Declared(t, value)
                     ELSE IF s[n].type = t /\ n \notin own /\ t \in Blockers
                            THEN [s[n] EXCEPT !.state = "rejected"] ELSE s[n]
      all == [n \in DOMAIN s |-> Answered(n)]
  IN  IF own = {} THEN Append(all, Declared(t, value)) ELSE all

AnswerByHuman(v, t, value) ==
  /\ IsDraft(v)
  /\ facts' = [facts EXCEPT ![v] = Declare(@, t, value)]
  /\ Len(facts'[v]) <= MaxFacts
  /\ answered' = [answered EXCEPT ![v] = @ \cup {t}]
  /\ UNCHANGED <<profile, snapshot, waiting>>

-----------------------------------------------------------------------------
(* Confirmation *)

\* Mutant: any draft may take the place of the active profile.
NeverStale(v) == FALSE

\* The active profile is newer than the draft.
IsStale(v) == \E a \in Actives : a > v

Confirmable(s, filled) ==
  /\ \A f \in ToSet(s) : ~IsPendingFact(f)
  /\ ConfirmedFacts(s) # {} \/ filled

\* The version becomes the active one; the one before it is retired.
Activate(v, from, filled, new) ==
  /\ profile' = [w \in Versions |->
       IF w = v THEN [status |-> "confirmed", from |-> from, filled |-> filled]
       ELSE IF w \in Actives THEN [profile[w] EXCEPT !.status = "retired"] ELSE profile[w]]
  /\ snapshot' = [snapshot EXCEPT ![v] = ConfirmedFacts(new)]

ConfirmProfessionalProfile(v) ==
  /\ IsDraft(v) /\ ~IsStale(v)
  /\ Confirmable(facts[v], profile[v].filled)
  /\ Activate(v, profile[v].from, profile[v].filled, facts[v])
  /\ UNCHANGED <<facts, answered, waiting>>

\* A person confirmed a claim of a resume.
CreateProfileVersionWithFact(t, value) ==
  LET v == NextProfileVersion
      from == IF Actives = {} THEN 0 ELSE CHOOSE a \in Actives : \A b \in Actives : a >= b
      filled == from # 0 /\ profile[from].filled
      new == Append(IF from = 0 THEN <<>> ELSE Copy(from), Declared(t, value))
  IN  /\ v \in Versions /\ Len(new) <= MaxFacts /\ Confirmable(new, filled)
      /\ facts' = [facts EXCEPT ![v] = new]
      /\ Activate(v, from, filled, new)
      /\ UNCHANGED <<answered, waiting>>

-----------------------------------------------------------------------------
Init ==
  /\ profile = [v \in Versions |-> [status |-> "none", from |-> 0, filled |-> FALSE]]
  /\ facts = [v \in Versions |-> <<>>]
  /\ answered = [v \in Versions |-> {}]
  /\ snapshot = [v \in Versions |-> {}]
  /\ waiting = 0

Next ==
  \/ ImportJsonResumeProfile \/ ProposeBaseResumeFacts \/ CreateProfileFromBaseResume
  \/ \E by \in Actor :
       \/ CreateProfessionalProfile(by)
       \/ \E v \in Versions : UpdateProfessionalProfile(by, v) \/ AddProfileFact(by, v)
  \/ \E v \in Versions :
       \/ CreateProfileNewVersion(v) \/ ReviewAllProfileFacts(v)
       \/ DeleteDraftProfile(v) \/ ConfirmProfessionalProfile(v)
       \/ \E n \in 1..MaxFacts, state \in Reviews :
            ReviewProfileFact(v, n, state)
       \/ \E t \in Types, value \in Values :
            AnswerByMachine(v, t, value) \/ AnswerByHuman(v, t, value)
  \/ \E t \in Types, value \in Claims : CreateProfileVersionWithFact(t, value)

Spec == Init /\ [][Next]_vars

-----------------------------------------------------------------------------
(* Properties *)

(* What a confirmed version says stays what was confirmed, in use or       *)
(* retired: its facts are those of its snapshot, none waits for a review,  *)
(* each is declared or has evidence, and one version is in use at most,    *)
(* whatever drafts, answers and proposals come later                       *)
(* (confirmProfessionalProfile, profile.draft_required).                   *)
SnapshotHolds ==
  /\ \A v \in Versions : profile[v].status \in {"confirmed", "retired"} =>
       /\ snapshot[v] = ConfirmedFacts(facts[v])
       /\ \A f \in ToSet(facts[v]) : ~IsPendingFact(f)
       /\ \A f \in snapshot[v] : FactHasEvidence(f)
  /\ Cardinality(Actives) <= 1

\* Each fact in use in a is in v, unless a person rejected it or answered otherwise.
Carries(v, a) ==
  \A n \in DOMAIN facts[a] : facts[a][n].state = "confirmed" =>
    /\ n \in DOMAIN facts'[v]
    /\ facts'[v][n].type = facts[a][n].type /\ facts'[v][n].origin = facts[a][n].origin
    /\ facts'[v][n].value = facts[a][n].value \/ facts'[v][n].origin = "user"

(* A version opened from the active one never drops what the profile in    *)
(* use gained meanwhile: a fact confirmed on a resume while the draft was  *)
(* open, or a second draft confirmed before it (profile.draft_stale,       *)
(* assertNoOpenDraft).                                                     *)
NothingConfirmedIsLost ==
  [][\A v, a \in Versions :
       a \in Actives /\ v \notin Actives
         /\ profile'[v].status = "confirmed" /\ profile'[v].from # 0
       => Carries(v, a)]_vars
=============================================================================
