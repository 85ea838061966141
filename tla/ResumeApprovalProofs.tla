------------------------ MODULE ResumeApprovalProofs -------------------------
(***************************************************************************)
(* The resumes of a job, proved for any number of resumes, of requests     *)
(* that wait, of texts and of claims.                                      *)
(*                                                                         *)
(* A row of resumes depends on the others only through the facts that were *)
(* ever confirmed, which only grow: so the invariant is a predicate of one *)
(* row and of those facts, each helper of the code keeps it, and each      *)
(* action writes rows that a helper made.                                  *)
(***************************************************************************)
EXTENDS ResumeApproval, TLAPS

-----------------------------------------------------------------------------
(* The invariant *)

\* What a text says that must be confirmed is in some profile of N.
Vouches(t, N) == t.form # "empty" /\ t.claims \cap Blocking \subseteq UNION N

\* A row, when N are the facts of the profiles that were confirmed.
Sound(s, N) ==
  /\ s \in Resume
  /\ s.snapshot \subseteq N /\ s.confirmed \subseteq UNION N
  /\ s.status = "approved" \/ s.passed => Vouches(s.text, N)
  /\ s.status = "none" => s.check = None

\* A request waits with a resume that exists.
Waiting(q) == request[q] # None => resume[request[q].id].status # "none"

ResumeInv ==
  /\ TypeOK /\ profile \in snapshots
  /\ resume \in [Ids -> Resume] /\ \A r \in Ids : Sound(resume[r], snapshots)
  /\ \A q \in Requests : Waiting(q)

HasApproved == \E r \in Ids : resume[r].status = "approved"

Stage == {"resume_approved", "ready_to_apply", "applying"}

-----------------------------------------------------------------------------
(* Rows *)

(* The columns of a resume.                                                *)
LEMMA ResumeRow ==
  ASSUME NEW s \in Resume
  PROVE  /\ s.status \in {"none", "draft", "approved", "superseded"}
         /\ s.title \in Titles /\ s.text \in Texts /\ s.passed \in BOOLEAN
         /\ s.used \in SUBSET Claim /\ s.snapshot \in SUBSET SUBSET Claim
         /\ s.confirmed \in SUBSET Claim /\ s.check \in Check \cup {None}
BY DEF Resume

(* What was confirmed stays confirmed, whatever is confirmed later.        *)
LEMMA SoundGrows ==
  ASSUME NEW s, NEW N, NEW M, N \subseteq M, Sound(s, N)
  PROVE  Sound(s, M)
BY DEF Sound, Vouches

(* A new draft says nothing anybody has to answer for yet.                 *)
LEMMA NewResumeSound ==
  ASSUME NEW N, NEW by \in {"manual", "writer"}, NEW title \in Titles, NEW t \in Texts,
         NEW used \in SUBSET Claim, NEW snap \in SUBSET N, snap \in SUBSET SUBSET Claim,
         NEW u, u = NewResume(by, title, t, used, snap)
  PROVE  Sound(u, N) /\ u.status = "draft"
<1>1. u \in Resume
  BY DEF NewResume, Resume
<1>2. /\ u.snapshot = snap /\ u.confirmed = {} /\ u.status = "draft" /\ u.passed = FALSE
  BY DEF NewResume
<1> QED
  BY <1>1, <1>2 DEF Sound

(* A generation supersedes drafts only.                                    *)
LEMMA SupersededSound ==
  ASSUME NEW N, NEW s, Sound(s, N), NEW u, u = [s EXCEPT !.status = "superseded"]
  PROVE  Sound(u, N) /\ u.status = "superseded"
<1>1. s \in Resume
  BY DEF Sound
<1>2. /\ u \in Resume /\ u.status = "superseded" /\ u.snapshot = s.snapshot
      /\ u.confirmed = s.confirmed /\ u.passed = s.passed /\ u.text = s.text /\ u.check = s.check
  BY <1>1 DEF Resume
<1> QED
  BY <1>2 DEF Sound, Vouches

(* updateResume: a draft stays one and loses its review with its text; an  *)
(* approved resume goes back to draft.                                     *)
LEMMA PatchedSound ==
  ASSUME NEW N, NEW s, Sound(s, N), NEW p \in Patch,
         s.status = "draft" \/ (s.status = "approved" /\ p.back),
         NEW u, u = Patched(s, p)
  PROVE  Sound(u, N) /\ u.status = "draft" /\ u.check = s.check
<1>1. s \in Resume /\ s.passed \in BOOLEAN
  BY ResumeRow DEF Sound
<1>2. p.title \in Titles \cup {None} /\ p.text \in Texts \cup {None} /\ p.back \in BOOLEAN
  BY DEF Patch
<1>3. Given(p.title, s.title) \in Titles /\ Given(p.text, s.text) \in Texts
  BY <1>1, <1>2, ResumeRow DEF Given
<1> DEFINE status == IF p.back THEN "draft" ELSE s.status
           passed == s.passed /\ p.text = None
<1>4. /\ status = "draft" /\ passed \in BOOLEAN
      /\ passed => s.passed /\ Given(p.text, s.text) = s.text
  BY <1>1 DEF Given
<1>5. u = [s EXCEPT !.title = Given(p.title, s.title), !.text = Given(p.text, s.text),
                    !.status = status, !.passed = passed]
  BY <1>1 DEF Patched, Resume
<1> HIDE DEF status, passed
<1>6. u \in Resume
  BY <1>1, <1>3, <1>4, <1>5 DEF Resume
<1>7. /\ u.status = "draft" /\ u.snapshot = s.snapshot /\ u.confirmed = s.confirmed
      /\ u.check = s.check /\ u.passed = passed /\ u.text = Given(p.text, s.text)
  BY <1>1, <1>4, <1>5 DEF Resume
<1> QED
  BY <1>4, <1>6, <1>7 DEF Sound, Vouches

(* resolveResumeFact: the resume is checked against the new profile, and   *)
(* its review goes.                                                        *)
LEMMA ConfirmedSound ==
  ASSUME NEW N, NEW s, Sound(s, N), s.status = "draft", NEW F \in N, F \subseteq Claim, NEW c \in F,
         NEW u, u = Confirmed(s, F, c)
  PROVE  Sound(u, N) /\ u.status = "draft" /\ u.check = s.check
<1>1. s \in Resume
  BY DEF Sound
<1>2. {F} \in SUBSET SUBSET Claim /\ s.confirmed \cup {c} \in SUBSET Claim
  BY <1>1, ResumeRow
<1>3. /\ u \in Resume /\ u.status = "draft" /\ u.snapshot = {F} /\ u.passed = FALSE
      /\ u.confirmed = s.confirmed \cup {c} /\ u.check = s.check
  BY <1>1, <1>2 DEF Resume, Confirmed
<1> QED
  BY <1>3 DEF Sound

(* A reading test writes its own column only.                              *)
LEMMA CheckedSound ==
  ASSUME NEW N, NEW s, Sound(s, N), NEW x \in Check, s.status # "none",
         NEW u, u = [s EXCEPT !.check = x]
  PROVE  /\ Sound(u, N) /\ u.check = x /\ u.status = s.status
         /\ u.text = s.text /\ u.title = s.title
<1>1. s \in Resume
  BY DEF Sound
<1>2. /\ u \in Resume /\ u.check = x /\ u.status = s.status /\ u.snapshot = s.snapshot
      /\ u.confirmed = s.confirmed /\ u.passed = s.passed /\ u.text = s.text /\ u.title = s.title
  BY <1>1 DEF Resume
<1> QED
  BY <1>2 DEF Sound, Vouches

(* computeFactChecks: with nothing pending, every claim that must be       *)
(* confirmed is in the profile, in the snapshot of the resume or was       *)
(* confirmed on it.                                                        *)
LEMMA NothingPending ==
  ASSUME NEW N, NEW s, Sound(s, N), profile \in N, Pending(s) = {}
  PROVE  s.text.claims \cap Blocking \subseteq UNION N
<1>1. Corpus(s) \subseteq UNION N
  BY DEF Corpus, Sound
<1>2. Covered(s) \subseteq UNION N
  BY <1>1 DEF Covered, Sound
<1> QED
  BY <1>2 DEF Pending, Claims

(* reviewResume: a review that passes found nothing pending.               *)
LEMMA ReviewedSound ==
  ASSUME NEW N, NEW s, Sound(s, N), profile \in N, NEW others \in BOOLEAN,
         NEW u, u = [s EXCEPT !.passed = ~others /\ ~ReviewFails(s)]
  PROVE  Sound(u, N) /\ u.status = s.status /\ u.check = s.check
<1> DEFINE pass == ~others /\ ~ReviewFails(s)
<1>1. s \in Resume /\ pass \in BOOLEAN
  BY DEF Sound
<1>2. pass => Vouches(s.text, N)
  BY NothingPending DEF Vouches, ReviewFails
<1> HIDE DEF pass
<1>3. u = [s EXCEPT !.passed = pass]
  BY DEF pass
<1>4. /\ u \in Resume /\ u.check = s.check /\ u.status = s.status /\ u.snapshot = s.snapshot
      /\ u.confirmed = s.confirmed /\ u.passed = pass /\ u.text = s.text
  BY <1>1, <1>3 DEF Resume
<1> QED
  BY <1>2, <1>4 DEF Sound, Vouches

(* approveResume: a text with nothing pending, reviewed or with a reason.  *)
LEMMA ApprovedSound ==
  ASSUME NEW N, NEW s, Sound(s, N), profile \in N, NEW reason, MayApprove(s, reason),
         NEW u, u = Approved(s)
  PROVE  Sound(u, N) /\ u.status = "approved" /\ u.check = s.check
<1>1. s \in Resume /\ Vouches(s.text, N)
  BY NothingPending DEF Sound, Vouches, MayApprove
<1>2. /\ u \in Resume /\ u.check = s.check /\ u.status = "approved" /\ u.snapshot = s.snapshot
      /\ u.confirmed = s.confirmed /\ u.text = s.text
  BY <1>1 DEF Resume, Approved
<1> QED
  BY <1>1, <1>2 DEF Sound, Vouches

-----------------------------------------------------------------------------
(* Steps *)

\* The test of the text u has now is s's, unless s had none or u's is of that very text.
CheckKept(s, u) ==
  u.check = s.check \/ s.status = "none" \/ HasCheck(u)

\* What any step may do to one row.
RowStep(s, u) ==
  /\ Sound(u, snapshots') /\ (s.status # "none" => u.status # "none")
  /\ CheckKept(s, u)

Rows ==
  /\ resume' \in [Ids -> Resume]
  /\ \A r \in Ids : RowStep(resume[r], resume'[r])

\* The other variables.
Rest ==
  /\ job' \in Job /\ app' \in Application
  /\ profile' \in snapshots' /\ snapshots \subseteq snapshots'
  /\ snapshots' \in SUBSET (SUBSET Claim)
  /\ request' \in [Requests -> Request \cup {None}]
  /\ \A q \in Requests :
       request'[q] = None \/ request'[q] = request[q] \/ resume[request'[q].id].status # "none"

\* No row that was approved stops being so.
ApprovedKept == \A r \in Ids : resume[r].status = "approved" => resume'[r].status = "approved"

(* A row no step touches.                                                  *)
LEMMA RowAlone ==
  ASSUME NEW s, Sound(s, snapshots), snapshots \subseteq snapshots'
  PROVE  RowStep(s, s)
BY SoundGrows DEF RowStep, CheckKept

(* An action that writes one row.                                          *)
LEMMA OneRow ==
  ASSUME ResumeInv, snapshots \subseteq snapshots', NEW r \in Ids, NEW u,
         RowStep(resume[r], u), resume' = [resume EXCEPT ![r] = u]
  PROVE  Rows
<1>1. u \in Resume
  BY DEF RowStep, Sound
<1>2. resume' \in [Ids -> Resume]
  BY <1>1 DEF ResumeInv
<1>3. ASSUME NEW x \in Ids PROVE RowStep(resume[x], resume'[x])
  <2>1. CASE x = r
    BY <2>1 DEF ResumeInv
  <2>2. CASE x # r
    <3>1. resume'[x] = resume[x]
      BY <2>2 DEF ResumeInv
    <3>2. RowStep(resume[x], resume[x])
      BY RowAlone DEF ResumeInv
    <3> QED
      BY <3>1, <3>2
  <2> QED
    BY <2>1, <2>2
<1> QED
  BY <1>2, <1>3 DEF Rows

(* An action that writes none.                                             *)
LEMMA NoRow ==
  ASSUME ResumeInv, snapshots \subseteq snapshots', resume' = resume
  PROVE  Rows /\ ApprovedKept
<1>1. \A r \in Ids : RowStep(resume[r], resume[r])
  BY RowAlone DEF ResumeInv
<1> QED
  BY <1>1 DEF Rows, ResumeInv, ApprovedKept

(* What the step of every action keeps.                                    *)
LEMMA StepKeeps ==
  ASSUME ResumeInv, Rows, Rest
  PROVE  ResumeInv'
<1>1. TypeOK'
  BY DEF Rows, Rest, TypeOK
<1>2. \A r \in Ids : Sound(resume'[r], snapshots')
  BY DEF Rows, RowStep
<1>3. ASSUME NEW q \in Requests, request'[q] # None
      PROVE  resume'[request'[q].id].status # "none"
  <2>1. request'[q].id \in Ids
    BY <1>3 DEF Rest, Request
  <2>2. resume[request'[q].id].status # "none"
    BY <1>3 DEF Rest, ResumeInv, Waiting
  <2> QED
    BY <2>1, <2>2 DEF Rows, RowStep
<1> QED
  BY <1>1, <1>2, <1>3 DEF ResumeInv, Waiting, Rows, Rest

(* The walk of a job ends in one of the statuses of the workflow, and it   *)
(* reaches a stage that needs an approved resume, from one that does not,  *)
(* only through approve_resume, which asks for one.                        *)
LEMMA WalkStatus ==
  ASSUME NEW s \in JobStatus, NEW t \in JobStatus
  PROVE  Advanced(s, t) \in JobStatus /\ Aborted(s) \in JobStatus
BY DEF Advanced, Aborted, Rules, Rule, JobStatus, Active, PreApplication, Terminal

(* A job enters the stages that follow the approval of a resume only when  *)
(* its own is approved.                                                    *)
LEMMA WalkApproved ==
  ASSUME NEW s \in JobStatus, NEW t \in JobStatus, NEW f, CanAdvance(s, t, f),
         s \notin Stage, Advanced(s, t) \in Stage
  PROVE  f.approved
<1>1. t \in Stage /\ ~(Rank[s] >= Rank[t])
  BY DEF Advanced
<1>2. Rank[s] >= 0 /\ \A u \in DOMAIN ForwardCommand :
          Rank[s] <= Rank[u] /\ Rank[u] < Rank[t] => FactsAllow(ForwardCommand[u], f)
  BY <1>1 DEF CanAdvance
<1>3. Rank["resume"] = 5 /\ Rank[t] \in {6, 7, 8}
  BY <1>1 DEF Rank, Stage
<1>4. Rank[s] <= 5
  BY <1>1, <1>2, <1>3 DEF Rank, Stage, JobStatus, Active, PreApplication, Terminal
<1>5. "resume" \in DOMAIN ForwardCommand /\ ForwardCommand["resume"] = "approve_resume"
  BY DEF ForwardCommand
<1>6. FactsAllow("approve_resume", f)
  BY <1>2, <1>3, <1>4, <1>5
<1> QED
  BY <1>6 DEF FactsAllow

(* A walk of the job, with the resumes R of the step.                      *)
LEMMA WalkKeeps ==
  ASSUME NEW j \in Job, NEW t \in JobStatus, NEW R, NEW m, Walk(j, t, R, m)
  PROVE  /\ job' \in Job
         /\ job'.status \in Stage =>
              j.status \in Stage \/ \E r \in Ids : R[r].status = "approved"
<1>1. j.status \in JobStatus
  BY DEF Job
<1>2. job' = [j EXCEPT !.status = Advanced(j.status, t)] /\ CanAdvance(j.status, t, Facts(j, R, m))
  BY DEF Walk, Job
<1>3. job' \in Job /\ job'.status = Advanced(j.status, t)
  BY <1>1, <1>2, WalkStatus DEF Job
<1>4. j.status \notin Stage /\ job'.status \in Stage => Facts(j, R, m).approved
  BY <1>1, <1>2, <1>3, WalkApproved
<1> QED
  BY <1>3, <1>4 DEF Facts

-----------------------------------------------------------------------------
(* Drafts *)

\* The stage of the job keeps having its approved resume.
StageStep ==
  (job.status \in Stage => HasApproved) => (job'.status \in Stage => HasApproved')

(* The stage follows a walk, when no approval is lost.                     *)
LEMMA WalkStage ==
  ASSUME ResumeInv, NEW t \in JobStatus, NEW m, Walk(job, t, resume', m), ApprovedKept
  PROVE  job' \in Job /\ StageStep
<1>1. job \in Job
  BY DEF ResumeInv, TypeOK
<1>2. /\ job' \in Job
      /\ job'.status \in Stage =>
           job.status \in Stage \/ \E r \in Ids : resume'[r].status = "approved"
  BY <1>1, WalkKeeps
<1> QED
  BY <1>2 DEF StageStep, HasApproved, ApprovedKept

(* A draft of the person's or of an agent's.                               *)
LEMMA CreateResumeKeeps ==
  ASSUME ResumeInv, NEW r \in Ids, NEW by \in {"manual", "writer"}, NEW title \in Titles,
         NEW t \in Texts, CreateResume(r, by, title, t)
  PROVE  Rows /\ Rest /\ StageStep
<1> DEFINE u == NewResume(by, title, t, {}, {})
<1>1. /\ resume[r].status = "none" /\ resume' = [resume EXCEPT ![r] = u]
      /\ Walk(job, "resume", resume', app)
      /\ UNCHANGED <<app, profile, snapshots, request>>
  BY DEF CreateResume
<1>2. Sound(u, snapshots) /\ u.status = "draft"
  BY NewResumeSound
<1> HIDE DEF u
<1>3. RowStep(resume[r], u)
  BY <1>1, <1>2 DEF RowStep, CheckKept
<1>4. Rows
  BY <1>1, <1>3, OneRow
<1>5. ApprovedKept
  BY <1>1 DEF ApprovedKept, ResumeInv
<1>6. job' \in Job /\ StageStep
  BY <1>1, <1>5, WalkStage DEF JobStatus, Active, PreApplication
<1>7. Rest
  BY <1>1, <1>6 DEF Rest, ResumeInv, TypeOK
<1> QED
  BY <1>4, <1>6, <1>7

(* A draft of the writer, which supersedes the drafts it replaces.         *)
LEMMA GenerateKeeps ==
  ASSUME ResumeInv, NEW r \in Ids, NEW title \in Titles,
         NEW F \in SUBSET Claim, NEW S \in SUBSET Claim, Generate(r, title, F, S)
  PROVE  Rows /\ Rest /\ StageStep
<1> DEFINE n == NewResume("writer", title, FactualText(F), F, {S})
           row(u) == IF u = r THEN n
                     ELSE IF Replaceable(resume[u], u)
                          THEN [resume[u] EXCEPT !.status = "superseded"] ELSE resume[u]
<1>1. /\ resume[r].status = "none" /\ S \in snapshots /\ FactualText(F) \in Texts
      /\ resume' = [u \in Ids |-> row(u)] /\ Walk(job, "resume", resume', app)
      /\ UNCHANGED <<app, profile, snapshots, request>>
  BY DEF Generate
<1>2. Sound(n, snapshots) /\ n.status = "draft"
  <2>1. {S} \in SUBSET snapshots /\ {S} \in SUBSET SUBSET Claim
    BY <1>1
  <2> QED
    BY <1>1, <2>1, NewResumeSound
<1> HIDE DEF n
<1>3. ASSUME NEW u \in Ids
      PROVE  /\ RowStep(resume[u], row(u)) /\ row(u) \in Resume
             /\ resume[u].status = "approved" => row(u).status = "approved"
  <2>1. CASE u = r
    BY <1>1, <1>2, <2>1 DEF RowStep, CheckKept, Sound
  <2>2. CASE u # r /\ Replaceable(resume[u], u)
    <3> DEFINE v == [resume[u] EXCEPT !.status = "superseded"]
    <3>1. resume[u].status = "draft" /\ Sound(resume[u], snapshots) /\ resume[u] \in Resume
      BY <2>2 DEF Replaceable, ResumeInv, Sound
    <3>2. Sound(v, snapshots) /\ v.status = "superseded"
      BY <3>1, SupersededSound
    <3>3. v.check = resume[u].check /\ row(u) = v
      BY <2>2, <3>1 DEF Resume
    <3> HIDE DEF v, row
    <3> QED
      BY <1>1, <3>1, <3>2, <3>3 DEF RowStep, CheckKept, Sound
  <2>3. CASE u # r /\ ~Replaceable(resume[u], u)
    <3>1. row(u) = resume[u] /\ Sound(resume[u], snapshots)
      BY <2>3 DEF ResumeInv
    <3> HIDE DEF row
    <3> QED
      BY <1>1, <3>1, RowAlone DEF Sound
  <2> QED
    BY <2>1, <2>2, <2>3
<1> HIDE DEF row
<1>4. Rows /\ ApprovedKept
  BY <1>1, <1>3 DEF Rows, ApprovedKept
<1>5. job' \in Job /\ StageStep
  BY <1>1, <1>4, WalkStage DEF JobStatus, Active, PreApplication
<1>6. Rest
  BY <1>1, <1>5 DEF Rest, ResumeInv, TypeOK
<1> QED
  BY <1>4, <1>5, <1>6

-----------------------------------------------------------------------------
(* Edition and facts *)

(* The application without its authorization.                              *)
LEMMA UngrantedType ==
  ASSUME NEW m \in Application
  PROVE  Ungranted(m) \in Application
BY DEF Ungranted, Application

(* An edit, of a draft or of an approved resume that goes back to draft.   *)
LEMMA UpdateResumeKeeps ==
  ASSUME ResumeInv, NEW r \in Ids, NEW p \in Patch, UpdateResume(r, p)
  PROVE  Rows /\ Rest /\ StageStep
<1> DEFINE s == resume[r]
           u == Patched(s, p)
<1>1. /\ s.status = "draft" \/ (s.status = "approved" /\ p.back)
      /\ resume' = [resume EXCEPT ![r] = u]
      /\ UNCHANGED <<profile, snapshots, request>>
  BY DEF UpdateResume
<1>2. Sound(s, snapshots) /\ resume \in [Ids -> Resume] /\ job \in Job /\ app \in Application
  BY DEF ResumeInv, TypeOK
<1>3. Sound(u, snapshots) /\ u.status = "draft" /\ u.check = s.check
  BY <1>1, <1>2, PatchedSound
<1>4. RowStep(s, u)
  <2> HIDE DEF u
  <2> QED
    BY <1>1, <1>3 DEF RowStep, CheckKept
<1>5. Rows
  BY <1>1, <1>4, OneRow
<1>6. app' \in Application
  <2>1. app' = app \/ app' = Ungranted(app)
    BY DEF UpdateResume
  <2> QED
    BY <1>2, <2>1, UngrantedType
<1>7. job' \in Job /\ StageStep
  <2>1. CASE s.status = "approved"
    <3>1. job' = JobRevised(r)
      BY <2>1 DEF UpdateResume
    <3>2. CASE \E x \in Ids \ {r} : resume[x].status = "approved"
      <4>1. PICK x \in Ids \ {r} : resume[x].status = "approved"
        BY <3>2
      <4>2. resume'[x] = resume[x]
        BY <1>1, <1>2
      <4>3. HasApproved'
        BY <4>1, <4>2 DEF HasApproved
      <4>4. job' = job
        BY <3>1, <3>2 DEF JobRevised
      <4> QED
        BY <1>2, <4>3, <4>4 DEF StageStep
    <3>3. CASE ~\E x \in Ids \ {r} : resume[x].status = "approved"
      <4> DEFINE t == IF Aborted(job.status) \in Rules["revise_resume"].from
                      THEN Rules["revise_resume"].to ELSE job.status
      <4>1. job.status \in JobStatus
        BY <1>2 DEF Job
      <4>2. job' = [job EXCEPT !.status = t]
        BY <1>2, <3>1, <3>3 DEF JobRevised, Job
      <4>3. t \in JobStatus /\ t \notin Stage
        BY <4>1 DEF Aborted, Rules, Rule, Stage, JobStatus, Active, PreApplication, Terminal
      <4>4. job' \in Job /\ job'.status \notin Stage
        BY <1>2, <4>2, <4>3 DEF Job
      <4> QED
        BY <4>4 DEF StageStep
    <3> QED
      BY <3>2, <3>3
  <2>2. CASE s.status # "approved"
    <3>1. job' = job
      BY <2>2 DEF UpdateResume
    <3>2. ApprovedKept
      BY <1>1, <1>2, <2>2 DEF ApprovedKept
    <3> QED
      BY <1>2, <3>1, <3>2 DEF StageStep, HasApproved, ApprovedKept
  <2> QED
    BY <2>1, <2>2
<1>8. Rest
  BY <1>1, <1>2, <1>6, <1>7 DEF Rest, ResumeInv, TypeOK
<1> QED
  BY <1>5, <1>7, <1>8

(* A claim corrected or removed is an edit of the text.                    *)
LEMMA EditClaimKeeps ==
  ASSUME ResumeInv, NEW r \in Ids, NEW c, NEW t, EditClaim(r, c, t)
  PROVE  Rows /\ Rest /\ StageStep
<1> DEFINE p == [title |-> None, text |-> t, back |-> FALSE]
<1>1. t \in Texts /\ UpdateResume(r, p)
  BY DEF EditClaim
<1>2. p \in Patch
  BY <1>1 DEF Patch
<1> QED
  BY <1>1, <1>2, UpdateResumeKeeps

(* A claim confirmed: a profile with it, and the resume on that profile.   *)
LEMMA ConfirmFactKeeps ==
  ASSUME ResumeInv, NEW r \in Ids, NEW c \in Claim, ConfirmFact(r, c)
  PROVE  Rows /\ Rest /\ StageStep
<1> DEFINE s == resume[r]
           F == profile \cup {c}
           u == Confirmed(s, F, c)
<1>1. /\ s.status = "draft" /\ profile' = F /\ snapshots' = snapshots \cup {F}
      /\ resume' = [resume EXCEPT ![r] = u] /\ UNCHANGED <<job, app, request>>
  BY DEF ConfirmFact
<1>2. /\ Sound(s, snapshots) /\ resume \in [Ids -> Resume] /\ job \in Job
      /\ F \in SUBSET Claim /\ snapshots \subseteq snapshots'
  BY <1>1 DEF ResumeInv, TypeOK
<1>3. Sound(s, snapshots')
  BY <1>2, SoundGrows
<1>4. Sound(u, snapshots') /\ u.status = "draft" /\ u.check = s.check
  BY <1>1, <1>2, <1>3, ConfirmedSound
<1> HIDE DEF u
<1>5. RowStep(s, u)
  BY <1>4 DEF RowStep, CheckKept
<1>6. Rows
  BY <1>1, <1>2, <1>5, OneRow
<1>7. ApprovedKept
  BY <1>1, <1>2 DEF ApprovedKept
<1>8. Rest
  BY <1>1, <1>2 DEF Rest, ResumeInv, TypeOK
<1> QED
  BY <1>1, <1>6, <1>7, <1>8 DEF StageStep, HasApproved, ApprovedKept

(* The person reviews the profile.                                         *)
LEMMA ConfirmProfileKeeps ==
  ASSUME ResumeInv, NEW F \in SUBSET Claim, ConfirmProfile(F)
  PROVE  Rows /\ Rest /\ StageStep
<1>1. /\ profile' = F /\ snapshots' = snapshots \cup {F} /\ UNCHANGED <<job, app, resume, request>>
  BY DEF ConfirmProfile
<1>2. Rows
  BY <1>1, NoRow
<1>3. Rest
  BY <1>1 DEF Rest, ResumeInv, TypeOK
<1> QED
  BY <1>1, <1>2, <1>3 DEF StageStep, HasApproved

-----------------------------------------------------------------------------
(* Reading test, review, approval *)

\* R: the rows a reading test left, of the same resumes, with the same texts.
Left(R) ==
  /\ R \in [Ids -> Resume]
  /\ \A r \in Ids :
       /\ Sound(R[r], snapshots) /\ R[r].status = resume[r].status
       /\ R[r].title = resume[r].title /\ R[r].text = resume[r].text
       /\ CheckKept(resume[r], R[r])

\* Row u of the step, with the test that R has.
Answered(s, u) ==
  /\ Sound(u, snapshots) /\ u.check = s.check /\ u.title = s.title /\ u.text = s.text
  /\ u.status = s.status \/ (s.status = "draft" /\ u.status = "approved")

(* A row that is answered over a row the test left.                        *)
LEMMA AnsweredStep ==
  ASSUME NEW s, NEW l, NEW u, snapshots' = snapshots, CheckKept(s, l), l.status = s.status,
         l.title = s.title, l.text = s.text, Answered(l, u)
  PROVE  RowStep(s, u)
<1>1. CheckKept(s, u)
  BY DEF CheckKept, HasCheck, Answered
<1> QED
  BY <1>1 DEF RowStep, Answered

(* What a request does once the test is at hand: R with at most one row    *)
(* reviewed or approved.                                                   *)
LEMMA AnswerKeeps ==
  ASSUME ResumeInv, NEW R, Left(R), NEW k \in Request, Answer(k, R), snapshots' = snapshots
  PROVE  Rows /\ job' \in Job /\ StageStep
<1> DEFINE s == R[k.id]
<1>1. k.id \in Ids /\ R \in [Ids -> Resume] /\ profile \in snapshots /\ job \in Job
  BY DEF Request, Left, ResumeInv, TypeOK
<1>2. Sound(s, snapshots)
  BY <1>1 DEF Left
<1>3. \A r \in Ids : Answered(R[r], R[r])
  BY DEF Left, Answered
<1>4. ASSUME NEW u, Answered(s, u), resume' = [R EXCEPT ![k.id] = u]
      PROVE  Rows /\ ApprovedKept
  <2>1. u \in Resume
    BY <1>4 DEF Answered, Sound
  <2>2. \A r \in Ids : Answered(R[r], resume'[r])
    BY <1>1, <1>3, <1>4
  <2>3. \A r \in Ids : RowStep(resume[r], resume'[r])
    BY <2>2, AnsweredStep DEF Left
  <2>4. resume' \in [Ids -> Resume]
    BY <1>1, <1>4, <2>1
  <2>5. ApprovedKept
    BY <2>2 DEF ApprovedKept, Answered, Left
  <2> QED
    BY <2>3, <2>4, <2>5 DEF Rows
<1>5. ASSUME resume' = R PROVE Rows /\ ApprovedKept
  <2>1. R = [R EXCEPT ![k.id] = s]
    BY <1>1
  <2> QED
    BY <1>1, <1>3, <1>4, <1>5, <2>1
<1>6. ASSUME ApprovedKept, job' = job PROVE StageStep
  BY <1>6 DEF StageStep, HasApproved, ApprovedKept
<1>7. CASE resume' = R /\ job' = job
  BY <1>1, <1>5, <1>6, <1>7
<1>8. CASE \E others \in BOOLEAN : resume' = Reviewed(R, k.id, others) /\ job' = job
  <2>1. PICK others \in BOOLEAN : resume' = Reviewed(R, k.id, others) /\ job' = job
    BY <1>8
  <2> DEFINE u == [s EXCEPT !.passed = ~others /\ ~ReviewFails(s)]
  <2>2. resume' = [R EXCEPT ![k.id] = u]
    BY <1>1, <2>1 DEF Reviewed
  <2>3. Sound(u, snapshots) /\ u.status = s.status /\ u.check = s.check
    BY <1>1, <1>2, ReviewedSound
  <2>4. u.title = s.title /\ u.text = s.text
    BY <1>2 DEF Sound, Resume
  <2> HIDE DEF u
  <2>5. Answered(s, u)
    BY <2>3, <2>4 DEF Answered
  <2>6. Rows /\ ApprovedKept
    BY <1>4, <2>2, <2>5
  <2> QED
    BY <1>1, <1>6, <2>1, <2>6
<1>9. CASE /\ MayApprove(s, k.reason) /\ resume' = [R EXCEPT ![k.id] = Approved(s)]
           /\ \E t \in {"ready_to_apply", "resume_approved"} : Walk(job, t, resume', app)
  <2> DEFINE u == Approved(s)
  <2>1. Sound(u, snapshots) /\ u.status = "approved" /\ u.check = s.check
    BY <1>1, <1>2, <1>9, ApprovedSound
  <2>2. u.title = s.title /\ u.text = s.text /\ s.status = "draft"
    BY <1>2, <1>9 DEF Sound, Resume, Approved, MayApprove
  <2>3. resume' = [R EXCEPT ![k.id] = u]
    BY <1>9
  <2> HIDE DEF u
  <2>4. Answered(s, u)
    BY <2>1, <2>2 DEF Answered
  <2>5. Rows /\ ApprovedKept
    BY <1>4, <2>3, <2>4
  <2>6. PICK t \in {"ready_to_apply", "resume_approved"} : Walk(job, t, resume', app)
    BY <1>9
  <2>7. t \in JobStatus
    BY DEF JobStatus, Active, PreApplication
  <2> QED
    BY <2>5, <2>6, <2>7, WalkStage
<1> QED
  BY <1>7, <1>8, <1>9 DEF Answer

(* Before a test is stored.                                                *)
LEMMA NothingLeft ==
  ASSUME ResumeInv
  PROVE  Left(resume)
BY DEF Left, ResumeInv, CheckKept

(* The result of a reading test is stored if the text is still the one     *)
(* that was read.                                                          *)
LEMMA StoredLeft ==
  ASSUME ResumeInv, NEW k \in Request, NEW ok \in BOOLEAN, resume[k.id].status # "none"
  PROVE  Left(Stored(k, ok))
<1> DEFINE s == resume[k.id]
           x == [title |-> k.title, text |-> k.text, ok |-> ok]
           u == [s EXCEPT !.check = x]
<1>1. k.id \in Ids /\ x \in Check /\ Sound(s, snapshots) /\ resume \in [Ids -> Resume]
  BY DEF Request, Check, ResumeInv
<1>2. CASE s.title = k.title /\ s.text = k.text
  <2>1. Stored(k, ok) = [resume EXCEPT ![k.id] = u]
    BY <1>1, <1>2 DEF Stored
  <2>2. /\ Sound(u, snapshots) /\ u.check = x /\ u.status = s.status
        /\ u.text = s.text /\ u.title = s.title
    BY <1>1, CheckedSound
  <2>3. x # None /\ x.title = k.title /\ x.text = k.text
    BY <1>1, RecordAssumption
  <2> HIDE DEF x, u
  <2>4. HasCheck(u)
    BY <1>2, <2>2, <2>3 DEF HasCheck
  <2>5. u \in Resume
    BY <2>2 DEF Sound
  <2>6. ASSUME NEW r \in Ids
        PROVE  LET v == [resume EXCEPT ![k.id] = u][r] IN
               /\ Sound(v, snapshots) /\ v.status = resume[r].status
               /\ v.title = resume[r].title /\ v.text = resume[r].text
               /\ CheckKept(resume[r], v)
    <3>1. CASE r = k.id
      BY <1>1, <2>2, <2>4, <3>1 DEF CheckKept
    <3>2. CASE r # k.id
      BY <1>1, <3>2 DEF CheckKept, ResumeInv
    <3> QED
      BY <3>1, <3>2
  <2>7. [resume EXCEPT ![k.id] = u] \in [Ids -> Resume]
    BY <1>1, <2>5
  <2> QED
    BY <2>1, <2>6, <2>7 DEF Left
<1>3. CASE ~(s.title = k.title /\ s.text = k.text)
  BY <1>3, NothingLeft DEF Stored
<1> QED
  BY <1>2, <1>3

(* A route of a resume is called: it answers or waits.                     *)
LEMMA CallKeeps ==
  ASSUME ResumeInv, NEW q \in Requests, NEW k \in Request, Call(q, k)
  PROVE  Rows /\ Rest /\ StageStep
<1>1. resume[k.id].status # "none" /\ UNCHANGED <<app, profile, snapshots>>
  BY DEF Call
<1>2. CASE Answer(k, resume) /\ UNCHANGED request
  <2>1. Rows /\ job' \in Job /\ StageStep
    BY <1>1, <1>2, NothingLeft, AnswerKeeps
  <2>2. Rest
    BY <1>1, <1>2, <2>1 DEF Rest, ResumeInv, TypeOK
  <2> QED
    BY <2>1, <2>2
<1>3. CASE request' = [request EXCEPT ![q] = k] /\ UNCHANGED <<resume, job>>
  <2>1. Rows
    BY <1>1, <1>3, NoRow
  <2>2. Rest
    BY <1>1, <1>3 DEF Rest, ResumeInv, TypeOK
  <2>3. StageStep
    BY <1>3 DEF StageStep, HasApproved
  <2> QED
    BY <2>1, <2>2, <2>3
<1> QED
  BY <1>2, <1>3 DEF Call

(* The PDF was read, after whatever other requests did.                    *)
LEMMA PdfReadKeeps ==
  ASSUME ResumeInv, NEW q \in Requests, NEW ok \in BOOLEAN, PdfRead(q, ok)
  PROVE  Rows /\ Rest /\ StageStep
<1> DEFINE k == request[q]
<1>1. /\ k # None /\ Answer(k, Stored(k, ok))
      /\ request' = [request EXCEPT ![q] = None] /\ UNCHANGED <<app, profile, snapshots>>
  BY DEF PdfRead
<1>2. k \in Request /\ resume[k.id].status # "none"
  BY <1>1 DEF ResumeInv, TypeOK, Waiting
<1>3. Left(Stored(k, ok))
  BY <1>2, StoredLeft
<1> HIDE DEF k
<1>4. Rows /\ job' \in Job /\ StageStep
  BY <1>1, <1>2, <1>3, AnswerKeeps
<1>5. Rest
  BY <1>1, <1>4 DEF Rest, ResumeInv, TypeOK
<1> QED
  BY <1>4, <1>5

-----------------------------------------------------------------------------
(* The job and the application *)

(* What they do leaves the resumes and the profiles alone.                 *)
LEMMA JobStepKeeps ==
  ASSUME ResumeInv, JobStep
  PROVE  Rows /\ Rest /\ StageStep
<1>1. /\ job \in Job /\ app \in Application /\ resume \in [Ids -> Resume]
      /\ job.status \in JobStatus /\ app.mode \in {"assisted", "manual", "authorized_auto"}
  BY DEF ResumeInv, TypeOK, Job, Application
<1>2. Stage \subseteq JobStatus /\ {"resume", "selected", "found", "discarded", "applied"} \subseteq JobStatus
  BY DEF Stage, JobStatus, Active, PreApplication, Terminal
<1>3. UNCHANGED <<resume, profile, snapshots, request>>
  BY DEF JobStep, CreateApplication, Authorize, ClaimRun, EndRun, StartManual, LoseInterest,
         UndoDecision, DecideInterested
<1>4. Rows /\ ApprovedKept
  BY <1>3, NoRow
<1>5. ASSUME job' \in Job, app' \in Application PROVE Rest
  BY <1>3, <1>5 DEF Rest, ResumeInv, TypeOK
<1>6. ASSUME NEW t \in JobStatus, NEW m, Walk(job, t, resume, m)
      PROVE  job' \in Job /\ StageStep
  <2>1. Walk(job, t, resume', m)
    BY <1>3, <1>6
  <2> QED
    BY <1>4, <2>1, WalkStage
<1>7. ASSUME job'.status \in Stage => job.status \in Stage PROVE StageStep
  BY <1>4, <1>7 DEF StageStep, HasApproved, ApprovedKept
<1>8. ASSUME NEW r \in Ids, NEW mode \in {"assisted", "manual"}, CreateApplication(r, mode)
      PROVE  job' \in Job /\ app' \in Application /\ StageStep
  <2> DEFINE m == [status |-> "queued", mode |-> mode, resume |-> r]
  <2>1. app' = m /\ Walk(job, "ready_to_apply", resume, m)
    BY <1>8 DEF CreateApplication
  <2>2. m \in Application
    BY DEF Application
  <2>3. "ready_to_apply" \in JobStatus
    BY <1>2 DEF Stage
  <2> QED
    BY <1>6, <2>1, <2>2, <2>3
<1>9. ASSUME Authorize PROVE job' \in Job /\ app' \in Application /\ StageStep
  <2>1. job' = job /\ app' = [app EXCEPT !.mode = "authorized_auto"]
    BY <1>9 DEF Authorize
  <2>2. app' \in Application
    BY <1>1, <2>1 DEF Application
  <2> QED
    BY <1>1, <1>7, <2>1, <2>2
<1>10. ASSUME ClaimRun PROVE job' \in Job /\ app' \in Application /\ StageStep
  <2>1. app' = [app EXCEPT !.status = "in_progress"] /\ Walk(job, "applying", resume, app)
    BY <1>10 DEF ClaimRun
  <2>2. app' \in Application
    BY <1>1, <2>1 DEF Application
  <2>3. "applying" \in JobStatus
    BY <1>2 DEF Stage
  <2> QED
    BY <1>6, <2>1, <2>2, <2>3
<1>11. ASSUME EndRun PROVE job' \in Job /\ app' \in Application /\ StageStep
  <2>1. CASE /\ app' = [Ungranted(app) EXCEPT !.status = "queued"]
             /\ job' = [job EXCEPT !.status = Aborted(job.status)]
    <3>1. app' \in Application
      <4>1. Ungranted(app) \in Application
        BY <1>1, UngrantedType
      <4> QED
        BY <2>1, <4>1 DEF Application
    <3>2. Aborted(job.status) \in JobStatus
      BY <1>1, WalkStatus
    <3>3. Aborted(job.status) \in Stage => job.status \in Stage
      BY DEF Aborted, Stage
    <3>4. job' \in Job /\ job'.status = Aborted(job.status)
      BY <1>1, <2>1, <3>2 DEF Job
    <3> QED
      BY <1>7, <3>1, <3>3, <3>4
  <2>2. CASE /\ app' = [app EXCEPT !.status = "submitted"]
             /\ job' = [status |-> Advanced(job.status, "applied"), decision |-> "applied"]
    <3>1. app' \in Application
      BY <1>1, <2>2 DEF Application
    <3>2. Advanced(job.status, "applied") \in JobStatus
      BY <1>1, <1>2, WalkStatus
    <3>3. Advanced(job.status, "applied") \in Stage => job.status \in Stage
      BY DEF Advanced, Stage
    <3>4. job' \in Job /\ job'.status = Advanced(job.status, "applied")
      BY <2>2, <3>2 DEF Job
    <3> QED
      BY <1>7, <3>1, <3>3, <3>4
  <2> QED
    BY <1>1, <1>11, <2>1, <2>2 DEF EndRun
<1>12. ASSUME StartManual PROVE job' \in Job /\ app' \in Application /\ StageStep
  <2>1. job' = [job EXCEPT !.status = "applying"] /\ app' = app /\ job.status = "ready_to_apply"
    BY <1>12 DEF StartManual, Legal, Rules, Rule
  <2>2. job' \in Job
    BY <1>1, <1>2, <2>1 DEF Job, Stage
  <2> QED
    BY <1>1, <1>7, <2>1, <2>2 DEF Stage
<1>13. ASSUME NEW d \in {"no_time", "not_interested"}, LoseInterest(d)
       PROVE  job' \in Job /\ app' \in Application /\ StageStep
  <2> DEFINE t == IF d = "no_time" THEN Aborted(job.status)
                  ELSE IF job.status \in Active THEN "discarded" ELSE job.status
  <2>1. job' = [status |-> t, decision |-> d] /\ (app' = app \/ app' = Ungranted(app))
    BY <1>13 DEF LoseInterest
  <2>2. t \in JobStatus /\ (t \in Stage => job.status \in Stage)
    BY <1>1, <1>2, WalkStatus DEF Aborted, Stage
  <2> HIDE DEF t
  <2>3. job' \in Job /\ job'.status = t
    BY <2>1, <2>2 DEF Job
  <2>4. app' \in Application
    BY <1>1, <2>1, UngrantedType
  <2> QED
    BY <1>7, <2>2, <2>3, <2>4
<1>14. ASSUME UndoDecision PROVE job' \in Job /\ app' \in Application /\ StageStep
  <2> DEFINE t == IF job.decision = "not_interested" /\ job.status = "discarded"
                  THEN "found" ELSE job.status
  <2>1. job' = [status |-> t, decision |-> "pending"] /\ app' = app
    BY <1>14 DEF UndoDecision
  <2>2. t \in JobStatus /\ (t \in Stage => job.status \in Stage)
    BY <1>1, <1>2 DEF Stage
  <2> HIDE DEF t
  <2>3. job' \in Job /\ job'.status = t
    BY <2>1, <2>2 DEF Job
  <2> QED
    BY <1>1, <1>7, <2>1, <2>2, <2>3
<1>15. ASSUME DecideInterested PROVE job' \in Job /\ app' \in Application /\ StageStep
  <2> DEFINE j == [job EXCEPT !.decision = "interested"]
  <2>1. PICK t \in {"ready_to_apply", "resume_approved", "resume", "selected"} :
          Walk(j, t, resume, app) /\ app' = app
    BY <1>15 DEF DecideInterested
  <2>2. j \in Job /\ j.status = job.status /\ t \in JobStatus
    BY <1>1, <1>2 DEF Job, Stage
  <2> HIDE DEF j
  <2>3. job' \in Job /\ (job'.status \in Stage => job.status \in Stage \/ HasApproved)
    BY <2>1, <2>2, WalkKeeps DEF HasApproved
  <2>4. StageStep
    BY <1>4, <2>3 DEF StageStep, HasApproved, ApprovedKept
  <2> QED
    BY <1>1, <2>1, <2>3, <2>4
<1>16. job' \in Job /\ app' \in Application /\ StageStep
  BY <1>8, <1>9, <1>10, <1>11, <1>12, <1>13, <1>14, <1>15 DEF JobStep
<1> QED
  BY <1>4, <1>5, <1>16

-----------------------------------------------------------------------------
(* The specification *)

(* The job has no resume yet.                                              *)
LEMMA InitHolds ==
  ASSUME Init
  PROVE  ResumeInv /\ (job.status \in Stage => HasApproved)
<1>1. (CHOOSE t \in Titles : TRUE) \in Titles /\ (CHOOSE t \in Texts : TRUE) \in Texts
  BY TextAssumption
<1> DEFINE e == [status |-> "none", by |-> "manual", title |-> CHOOSE t \in Titles : TRUE,
                 text |-> CHOOSE t \in Texts : TRUE, used |-> {}, snapshot |-> {},
                 passed |-> FALSE, check |-> None, confirmed |-> {}]
<1>2. /\ e \in Resume /\ e.status = "none" /\ e.snapshot = {} /\ e.confirmed = {}
      /\ e.passed = FALSE /\ e.check = None
  BY <1>1 DEF Resume
<1>3. resume = [r \in Ids |-> e]
  BY DEF Init
<1> HIDE DEF e
<1>4. Sound(e, snapshots)
  BY <1>2 DEF Sound
<1>5. job \in Job /\ app \in Application /\ job.status \notin Stage
  BY DEF Init, Job, Application, JobStatus, Active, PreApplication, Stage
<1>6. /\ profile \in snapshots /\ snapshots \in SUBSET (SUBSET Claim) /\ profile \in SUBSET Claim
      /\ request \in [Requests -> Request \cup {None}] /\ \A q \in Requests : request[q] = None
  BY DEF Init
<1> QED
  BY <1>2, <1>3, <1>4, <1>5, <1>6 DEF ResumeInv, TypeOK, Waiting

(* Every step keeps the rows sound, and the stage of the job.              *)
LEMMA NextKeeps ==
  ASSUME ResumeInv, [Next]_vars
  PROVE  ResumeInv' /\ Rows /\ StageStep
<1>1. ASSUME DraftStep PROVE Rows /\ Rest /\ StageStep
  BY <1>1, CreateResumeKeeps, GenerateKeeps DEF DraftStep
<1>2. ASSUME EditStep PROVE Rows /\ Rest /\ StageStep
  BY <1>2, UpdateResumeKeeps, ConfirmFactKeeps, EditClaimKeeps DEF EditStep, Changes, RemoveFact, CorrectFact
<1>3. ASSUME RequestStep PROVE Rows /\ Rest /\ StageStep
  <2>1. ASSUME NEW r \in Ids, NEW kind \in {"check", "review", "approve"}, NEW reason \in BOOLEAN
        PROVE  RequestFor(r, kind, reason) \in Request
    BY DEF RequestFor, Request, ResumeInv, TypeOK, Resume
  <2> QED
    BY <1>3, <2>1, CallKeeps, PdfReadKeeps DEF RequestStep
<1>4. ASSUME NEW F \in SUBSET Claim, ConfirmProfile(F) PROVE Rows /\ Rest /\ StageStep
  BY <1>4, ConfirmProfileKeeps
<1>5. ASSUME UNCHANGED vars PROVE Rows /\ Rest /\ StageStep
  <2>1. UNCHANGED <<job, app, resume, profile, snapshots, request>>
    BY <1>5 DEF vars
  <2>2. Rows
    BY <2>1, NoRow
  <2> QED
    BY <2>1, <2>2 DEF Rest, ResumeInv, TypeOK, StageStep, HasApproved
<1>6. Rows /\ Rest /\ StageStep
  BY <1>1, <1>2, <1>3, <1>4, <1>5, JobStepKeeps DEF Next
<1> QED
  BY <1>6, StepKeeps

(* The rows are sound in every state.                                      *)
THEOREM ResumesInvariant == Spec => []ResumeInv
<1>1. Init => ResumeInv
  BY InitHolds
<1>2. ResumeInv /\ [Next]_vars => ResumeInv'
  BY NextKeeps
<1> QED
  BY <1>1, <1>2, PTL DEF Spec

(* Types of the resumes, of their profiles and of the requests.            *)
THEOREM ResumesTypeCorrect == Spec => []TypeOK
<1>1. ResumeInv => TypeOK
  BY DEF ResumeInv
<1> QED
  BY <1>1, ResumesInvariant, PTL

(***************************************************************************)
(* An approved resume, or one whose review passed, says nothing that must  *)
(* be confirmed and that the person did not: for any number of resumes,    *)
(* requests that wait, claims and texts.                                   *)
(***************************************************************************)
THEOREM ApprovedIsVouched == Spec => []TextIsVouched
<1>1. ResumeInv => TextIsVouched
  BY DEF ResumeInv, Sound, Vouches, TextIsVouched, Vouched
<1> QED
  BY <1>1, ResumesInvariant, PTL

(***************************************************************************)
(* A job at a stage that needs an approved resume has one, whatever order  *)
(* of edits, approvals, requests and decisions led there.                  *)
(***************************************************************************)
THEOREM StagesHaveApproved == Spec => []StageHasApproved
<1> DEFINE Inv == job.status \in Stage => HasApproved
<1>1. Init => Inv
  BY InitHolds
<1>2. ResumeInv /\ Inv /\ [Next]_vars => Inv'
  BY NextKeeps DEF StageStep
<1>3. Inv => StageHasApproved
  BY DEF Stage, HasApproved, StageHasApproved
<1> QED
  BY <1>1, <1>2, <1>3, ResumesInvariant, PTL DEF Spec

(***************************************************************************)
(* No late result of the reading test of an older text takes the place of  *)
(* one that failed on the text the resume has.                             *)
(***************************************************************************)
THEOREM FailedChecksStay == Spec => FailedCheckStays
<1> DEFINE A == \A r \in Ids :
       /\ ParseFails(resume[r])
       /\ resume'[r].title = resume[r].title /\ resume'[r].text = resume[r].text
       => HasCheck(resume'[r])
<1>1. ASSUME ResumeInv, [Next]_vars PROVE A
  <2>1. ASSUME NEW r \in Ids, ParseFails(resume[r]),
               resume'[r].title = resume[r].title, resume'[r].text = resume[r].text
        PROVE  HasCheck(resume'[r])
    <3>1. HasCheck(resume[r]) /\ CheckKept(resume[r], resume'[r])
      BY <1>1, <2>1, NextKeeps DEF ParseFails, Rows, RowStep
    <3>2. resume[r].status # "none"
      BY <1>1, <3>1 DEF ResumeInv, Sound, HasCheck
    <3> QED
      BY <2>1, <3>1, <3>2 DEF CheckKept, HasCheck
  <2> QED
    BY <2>1
<1>2. ResumeInv /\ [Next]_vars => [A]_vars
  BY <1>1
<1> QED
  BY <1>2, ResumesInvariant, PTL DEF Spec, FailedCheckStays
=============================================================================
