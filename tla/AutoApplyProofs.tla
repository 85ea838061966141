-------------------------- MODULE AutoApplyProofs ---------------------------
(***************************************************************************)
(* Type correctness of the automatic application, its inductive invariant, *)
(* the safety properties of its states and steps, the gate it implements   *)
(* and what its executors keep, for every value of the constants.          *)
(*                                                                         *)
(* The types first.  The lemmas follow the layers of the code: the records *)
(* and what each helper makes of them, then one lemma per group of         *)
(* actions, with a step per action.                                        *)
(*                                                                         *)
(* Then the invariant, in two halves.  KeptStep says what any step may do  *)
(* to an authorization row, to an application and to a job, seen together; *)
(* KeptInductive shows that this is enough to keep Inductive.  Then every  *)
(* action is shown to be such a step: a lemma for each of the code's       *)
(* shared helpers (revoke the rows of an application, end an execution,    *)
(* withdraw what waits, renew a lease, walk a job forward), and one per    *)
(* group of actions, with a step per action.                               *)
(*                                                                         *)
(* Then what steps do: the refinement of the gate, the day's limit and the *)
(* marks of a job that was applied to.  Last the executors, whose          *)
(* invariant says what is true of the tokens, forms and answers they       *)
(* remember, over what is true of the rows those stand for.                *)
(***************************************************************************)
EXTENDS AutoApplySafety, AutoApplyGate, Executor, FiniteSetTheorems, TLAPS

-----------------------------------------------------------------------------
(* Types *)

(* The least and the initial value of each bounded counter is within its bound. *)
LEMMA Bounds ==
  /\ 0 \in 0..MaxShots /\ 0 \in 0..MaxUrl /\ 0 \in 0..MaxVersion
  /\ 1 \in 1..MaxShots /\ 1 \in 1..MaxUrl /\ 1 \in 1..MaxVersion
  /\ 1..MaxUrl \subseteq 0..MaxUrl /\ 1..MaxVersion \subseteq 0..MaxVersion
BY BoundsAssumption

(* An authorization id that was never issued stands for a record of the type. *)
LEMMA NoAuthorizationType == NoAuthorization \in Authorization
BY Bounds, Zenon DEF NoAuthorization, Authorization

(* A row the code closes (revoked, expired, consumed) is still an authorization. *)
LEMMA ClosedType ==
  ASSUME NEW r \in Authorization, NEW st \in {"consumed", "revoked", "expired"}
  PROVE  Closed(r, st) \in Authorization
<1>1. r.app \in Apps \cup {None}
  BY Zenon DEF Authorization
<1>2. st \in {"none", "consumed", "revoked", "expired"} \cup Live
  OBVIOUS
<1>3. (st = "consumed") \in BOOLEAN
  OBVIOUS
<1> QED
  BY <1>1, <1>2, <1>3, NoAuthorizationType, Zenon DEF Closed, Authorization

(* So is a row whose lease the code renews.                              *)
LEMMA RenewedType ==
  ASSUME NEW r \in Authorization
  PROVE  Renewed(r) \in Authorization
BY Zenon DEF Renewed, Authorization

(* So is a row of which time takes the TTL, the lease or the day, and a row *)
(* whose executor lost its token.                                        *)
LEMMA TimedType ==
  ASSUME NEW r \in Authorization
  PROVE  /\ [r EXCEPT !.ttlOver = TRUE] \in Authorization
         /\ [r EXCEPT !.leaseOver = TRUE] \in Authorization
         /\ [r EXCEPT !.today = FALSE] \in Authorization
         /\ [r EXCEPT !.given = {}] \in Authorization
BY Zenon DEF Authorization

(* revokeAuthorizationRows (authorizations.ts) keeps the table well typed. *)
LEMMA RevokedRowsType ==
  ASSUME TypeOK, NEW S
  PROVE  RevokedRows(S) \in [AuthIds -> Authorization]
BY ClosedType, Zenon DEF RevokedRows, TypeOK

(* An application put back in a mode keeps its type.                     *)
LEMMA InModeType ==
  ASSUME NEW m \in Application, NEW mode \in Mode \cup {None}
  PROVE  InMode(m, mode) \in Application
BY Zenon DEF InMode, Application

(* The mode a withdrawal leaves: the user's own, the automatic one taken back. *)
LEMMA ByUserType ==
  ASSUME NEW mode \in Mode \cup {None}
  PROVE  ByUser(mode) \in Mode \cup {None}
BY Zenon DEF ByUser, Mode

(* select-manual keeps the application's type.                           *)
LEMMA ByHandType ==
  ASSUME NEW m \in Application
  PROVE  ByHand(m) \in Application
<1>1. InMode(m, "manual") \in Application
  BY InModeType DEF Mode
<1>2. Restarted(InMode(m, "manual").status, "queued") \in ApplicationStatus
  BY <1>1, Zenon DEF Restarted, Application, ApplicationStatus, ModeChange, ApplicationStatus
<1> QED
  BY <1>1, <1>2, Zenon DEF ByHand, Application, ApplicationStatus

(* So does AUTORIZO.                                                     *)
LEMMA GrantedType ==
  ASSUME NEW m \in Application, NEW x \in AuthIds
  PROVE  Granted(m, x) \in Application
<1>1. Restarted(m.status, "needs_review") \in ApplicationStatus
  BY Zenon DEF Restarted, Application, ApplicationStatus, ModeChange, ApplicationStatus
<1> QED
  BY <1>1, Zenon DEF Granted, Application, Mode, ApplicationStatus

(* So does the end of an execution, in whatever status it leaves the application. *)
LEMMA ReleasedType ==
  ASSUME NEW m \in Application, NEW s \in ApplicationStatus
  PROVE  Released(m, s) \in Application
<1>1. InMode(m, "assisted") \in Application
  BY InModeType DEF Mode
<1> QED
  BY <1>1, Zenon DEF Released, Application, ApplicationStatus

(* So does withdrawPendingAuthorizations (authorizations.ts).            *)
LEMMA WithdrawnType ==
  ASSUME NEW m \in Application
  PROVE  Withdrawn(m) \in Application
<1>1. ByUser(m.mode) \in Mode \cup {None}
  BY ByUserType, Zenon DEF Application
<1>2. InMode(m, ByUser(m.mode)) \in Application
  BY <1>1, InModeType
<1> QED
  BY <1>2, Zenon DEF Withdrawn, Application

(* advanceJobTo (job-workflow.ts) reaches its target or stays where it was. *)
LEMMA AdvancedJobType ==
  ASSUME NEW j \in Job, NEW t \in JobStatus
  PROVE  AdvancedJob(j, t) \in Job
<1>1. Advanced(j.status, t) \in JobStatus
  BY Zenon DEF Advanced, Job
<1> QED
  BY <1>1, Zenon DEF AdvancedJob, Job

(* Every public command of the workflow leads to a status of a job (workflow.ts). *)
LEMMA RulesType ==
  ASSUME NEW c \in Command
  PROVE  Rules[c].to \in JobStatus
BY SMT DEF Command, Rules, Rule, JobStatus, Active, PreApplication, Terminal

(* So does the abort of an execution.                                    *)
LEMMA AbortedType ==
  ASSUME NEW s \in JobStatus
  PROVE  Aborted(s) \in JobStatus
BY SMT DEF Aborted, Rules, Rule, JobStatus, Active, PreApplication, Terminal

(* abortApplyingJob keeps the jobs well typed.                           *)
LEMMA AbortedJobsType ==
  ASSUME TypeOK, NEW S
  PROVE  AbortedJobs(S) \in [Apps -> Job]
BY AbortedType, Zenon DEF AbortedJobs, TypeOK, Job

(* So does markJobApplied, which submit and the manual PATCH share.      *)
LEMMA MarkAppliedType ==
  ASSUME TypeOK, NEW a \in Apps, NEW m, NEW rows, MarkApplied(a, m, rows)
  PROVE  job' \in [Apps -> Job]
<1>1. AdvancedJob(job[a], "applied") \in Job
  BY AdvancedJobType, Zenon DEF TypeOK, JobStatus, Active
<1>2. AppliedJob(job[a]) \in Job
  BY <1>1, Zenon DEF AppliedJob, Job, Decision
<1> QED
  BY <1>2, Zenon DEF MarkApplied, TypeOK

(* Cancelling the open questions of an application keeps them well typed. *)
LEMMA CancelQuestionsType ==
  ASSUME TypeOK, NEW a, CancelQuestions(a)
  PROVE  question' \in [Questions -> Question]
BY Zenon DEF CancelQuestions, TypeOK, Question

(* The end of an execution, by a failure, the limit or the recovery, touches the *)
(* job, the application, its rows and its questions, and keeps the four types. *)
LEMMA EndExecutionType ==
  ASSUME TypeOK, NEW a \in Apps, NEW s \in ModeChange, EndExecution(a, s)
  PROVE  /\ job' \in [Apps -> Job] /\ app' \in [Apps -> Application]
         /\ auth' \in [AuthIds -> Authorization] /\ question' \in [Questions -> Question]
<1>1. app' \in [Apps -> Application]
  BY ReleasedType, Zenon DEF EndExecution, TypeOK, ApplicationStatus
<1> QED
  BY <1>1, RevokedRowsType, AbortedJobsType, CancelQuestionsType, Zenon DEF EndExecution

(* withdrawPendingAuthorizations keeps the types of the two tables it writes. *)
LEMMA WithdrawPendingType ==
  ASSUME TypeOK, NEW a \in Apps, WithdrawPending(a)
  PROVE  app' \in [Apps -> Application] /\ auth' \in [AuthIds -> Authorization]
BY WithdrawnType, RevokedRowsType, Zenon DEF WithdrawPending, TypeOK

(* The state in which a job is first shortlisted is well typed.          *)
LEMMA InitTypeOK == Init => TypeOK
<1> SUFFICES ASSUME Init PROVE TypeOK
  OBVIOUS
<1>1. job \in [Apps -> Job]
  BY Bounds, Zenon DEF Init, Job, JobStatus, Active, PreApplication, Decision, Opening
<1>2. resume \in [Apps -> Resume]
  BY Bounds, Zenon DEF Init, Resume
<1>3. app \in [Apps -> Application]
  BY Zenon DEF Init, NoApplication, Application, ApplicationStatus
<1>4. auth \in [AuthIds -> Authorization]
  BY NoAuthorizationType, Zenon DEF Init
<1>5. question \in [Questions -> Question]
  BY Zenon DEF Init, Question
<1> QED
  BY <1>1, <1>2, <1>3, <1>4, <1>5, Zenon DEF Init, TypeOK

(* What the user does to an application from the panel keeps every type: one *)
(* step per route of server.ts, one conjunct per table the route writes. *)
LEMMA UserStepTypeOK ==
  ASSUME TypeOK, NEW a \in Apps, UserStep(a)
  PROVE  TypeOK'
<1> USE DEF settings, processes, panelVars
<1>1. ASSUME NEW mode \in {"assisted", "manual"}, CreateApplication(a, mode)
      PROVE  TypeOK'
  <2>1. app' \in [Apps -> Application]
    BY <1>1, Zenon DEF TypeOK, CreateApplication, NoApplication, Application, Mode, ModeChange, ApplicationStatus
  <2>2. job' \in [Apps -> Job]
    BY <1>1, AdvancedJobType, Zenon DEF TypeOK, CreateApplication, Walk, JobStatus, Active, PreApplication
  <2> QED
    BY <1>1, <2>1, <2>2, Zenon DEF TypeOK, CreateApplication
<1>2. CASE AuthorizeRead(a)
  <2>1. desk' \in Call
    BY <1>2, Zenon DEF TypeOK, AuthorizeRead, Call, Resume, Job
  <2> QED
    BY <1>2, <2>1, Zenon DEF TypeOK, AuthorizeRead
<1>3. CASE Revoke(a)
  <2>1. app' \in [Apps -> Application]
    BY <1>3, InModeType, Zenon DEF TypeOK, Revoke, Mode
  <2> QED
    BY <1>3, <2>1, RevokedRowsType, Zenon DEF TypeOK, Revoke
<1>4. CASE SelectManual(a)
  <2>1. app' \in [Apps -> Application]
    BY <1>4, ByHandType, Zenon DEF TypeOK, SelectManual
  <2> QED
    BY <1>4, <2>1, RevokedRowsType, Zenon DEF TypeOK, SelectManual
<1>5. CASE SendToReview(a)
  <2>1. app' \in [Apps -> Application]
    BY <1>5, Zenon DEF TypeOK, SendToReview, Application, ModeChange, ApplicationStatus
  <2> QED
    BY <1>5, <2>1, Zenon DEF TypeOK, SendToReview
<1>7. CASE ReportSubmission(a)
  <2> DEFINE m == [app[a] EXCEPT !.status = "submitted"]
  <2>1. m \in Application
    BY Zenon DEF TypeOK, Application, Locked, ApplicationStatus, Sent
  <2>2. app' = [app EXCEPT ![a] = m] /\ MarkApplied(a, m, auth)
    BY <1>7, Zenon DEF ReportSubmission
  <2>3. app' \in [Apps -> Application] /\ job' \in [Apps -> Job]
    BY <2>1, <2>2, MarkAppliedType, Zenon DEF TypeOK
  <2> QED
    BY <1>7, <2>3, Zenon DEF ReportSubmission, TypeOK
<1>8. ASSUME NEW outcome \in {"accepted", "rejected"}, ReportOutcome(a, outcome)
      PROVE  TypeOK'
  <2> DEFINE m == [app[a] EXCEPT !.status = outcome]
  <2>1. m \in Application
    BY Zenon DEF TypeOK, Application, Locked, ApplicationStatus, Sent
  <2>2. app' = [app EXCEPT ![a] = m] /\ MarkApplied(a, m, auth)
    BY <1>8, Zenon DEF ReportOutcome
  <2>3. app' \in [Apps -> Application] /\ job' \in [Apps -> Job]
    BY <2>1, <2>2, MarkAppliedType, Zenon DEF TypeOK
  <2> QED
    BY <1>8, <2>3, Zenon DEF ReportOutcome, TypeOK
<1>9. CASE ConfirmFinal(a)
  <2>1. app' \in [Apps -> Application]
    BY <1>9, Zenon DEF TypeOK, ConfirmFinal, Application, Locked, ApplicationStatus
  <2>2. auth' \in [AuthIds -> Authorization]
    <3> DEFINE x == app[a].auth
    <3>1. x \in AuthIds
      BY <1>9, Zenon DEF ConfirmFinal, Current, TypeOK, Application
    <3>2. auth' = WithRow(x, [Renewed(auth[x]) EXCEPT !.confirmed = auth[x].shot])
      BY <1>9, Zenon DEF ConfirmFinal
    <3>3. auth[x].shot \in 0..MaxShots
      BY <3>1, Zenon DEF TypeOK, Authorization
    <3> HIDE DEF x
    <3>5. Renewed(auth[x]) \in Authorization
      BY <3>1, RenewedType, Zenon DEF TypeOK
    <3>6. [Renewed(auth[x]) EXCEPT !.confirmed = auth[x].shot] \in Authorization
      BY <3>5, <3>3, Zenon DEF Authorization
    <3> QED
      BY <3>1, <3>2, <3>6, Zenon DEF WithRow, TypeOK
  <2> QED
    BY <1>9, <2>1, <2>2, Zenon DEF ConfirmFinal, TypeOK
<1>10. CASE CancelFinal(a)
  BY <1>10, EndExecutionType, Zenon DEF CancelFinal, TypeOK, ModeChange
<1> QED
  BY <1>1, <1>2, <1>3, <1>4, <1>5, <1>7, <1>8, <1>9, <1>10, Zenon DEF UserStep

(* So does what an executor calls, from the claim to submit and fail.    *)
LEMMA ExecutorStepTypeOK ==
  ASSUME TypeOK, NEW a \in Apps, NEW w \in alive, ExecutorStep(a, w)
  PROVE  TypeOK'
<1> USE DEF settings, processes, panelVars
<1> DEFINE x == app[a].auth
<1>1. ASSUME NEW st, Current(a, st)
      PROVE  x \in AuthIds /\ auth[x] \in Authorization /\ auth[x].shot \in 0..MaxShots
  BY <1>1, Zenon DEF Current, TypeOK, Application, Authorization
<1>2. ASSUME NEW y \in AuthIds, NEW r \in Authorization
      PROVE  WithRow(y, r) \in [AuthIds -> Authorization]
  BY <1>2, Zenon DEF WithRow, TypeOK
<1>3. w \in Workers
  BY Zenon DEF TypeOK
<1>4. ASSUME NEW s \in ApplicationStatus
      PROVE  [app EXCEPT ![a].status = s] \in [Apps -> Application]
  BY Zenon DEF TypeOK, Application
<1>5. CASE Claim(a, w)
  <2> DEFINE r == [auth[x] EXCEPT !.state = "claimed", !.claimedBy = w, !.leaseOver = FALSE]
             m == [app[a] EXCEPT !.status = "in_progress", !.claimedBy = w]
  <2>1. x \in AuthIds /\ auth[x] \in Authorization
    BY <1>1, <1>5, Zenon DEF Claim
  <2>2. r \in Authorization
    BY <2>1, <1>3, Zenon DEF Authorization, Live
  <2>3. m \in Application
    BY <1>3, Zenon DEF TypeOK, Application, ApplicationStatus, Locked
  <2>4. /\ auth' = WithRow(x, r) /\ app' = [app EXCEPT ![a] = m]
        /\ job' = [job EXCEPT ![a] = AdvancedJob(job[a], "applying")]
        /\ UNCHANGED <<resume, question, settings, processes>>
    BY <1>5, Zenon DEF Claim, Walk
  <2> HIDE DEF r, m, x
  <2>5. auth' \in [AuthIds -> Authorization] /\ app' \in [Apps -> Application]
    BY <1>2, <2>1, <2>2, <2>3, <2>4, Zenon DEF TypeOK
  <2>6. job' \in [Apps -> Job]
    BY <2>4, AdvancedJobType, Zenon DEF TypeOK, JobStatus, Active, PreApplication
  <2> QED
    BY <2>4, <2>5, <2>6, Zenon DEF TypeOK
<1>6. CASE Heartbeat(a, w)
  <2>1. auth' \in [AuthIds -> Authorization]
    BY <1>1, <1>2, <1>6, RenewedType, Zenon DEF Heartbeat, HeldBy
  <2> QED
    BY <1>6, <2>1, Zenon DEF Heartbeat, TypeOK
<1>7. CASE RequestFinal(a, w)
  <2>1. CASE EndExecution(a, "needs_review")
    BY <1>7, <2>1, EndExecutionType, Zenon DEF RequestFinal, TypeOK, ModeChange
  <2>2. CASE /\ auth[x].shot < MaxShots
             /\ auth' = WithRow(x, [Renewed(auth[x]) EXCEPT
                                 !.requested = TRUE, !.shot = @ + 1,
                                 !.confirmed = 0, !.token = 0])
             /\ app' = [app EXCEPT ![a].status = "awaiting_final_confirmation"]
             /\ UNCHANGED <<job, question>>
    <3>1. x \in AuthIds /\ auth[x] \in Authorization /\ auth[x].shot \in 0..MaxShots
      BY <1>1, <1>7, Zenon DEF RequestFinal, HeldBy
    <3> HIDE DEF x
    <3>2. Renewed(auth[x]) \in Authorization
      BY <3>1, RenewedType
    <3>3. Renewed(auth[x]).shot + 1 \in 0..MaxShots
      <4>1. Renewed(auth[x]).shot = auth[x].shot
        BY <3>1, Zenon DEF Renewed, Authorization
      <4> QED
        BY <3>1, <2>2, <4>1, BoundsAssumption, SMT
    <3>4. [Renewed(auth[x]) EXCEPT !.requested = TRUE, !.shot = @ + 1,
              !.confirmed = 0, !.token = 0] \in Authorization
      BY <3>2, <3>3, Bounds, Zenon DEF Authorization
    <3>5. auth' \in [AuthIds -> Authorization]
      BY <1>2, <3>1, <3>4, <2>2, Zenon
    <3>6. app' \in [Apps -> Application]
      BY <1>4, <2>2, Zenon DEF ApplicationStatus, Locked
    <3> QED
      BY <1>7, <2>2, <3>5, <3>6, Zenon DEF RequestFinal, TypeOK
  <2> QED
    BY <1>7, <2>1, <2>2, Zenon DEF RequestFinal
<1>8. CASE Poll(a, w)
  <2>1. x \in AuthIds /\ auth[x] \in Authorization
    BY <1>1, <1>8, Zenon DEF Poll, HeldBy
  <2>2. CASE auth' = WithRow(x, Renewed(auth[x]))
    BY <1>2, <1>8, <2>1, <2>2, RenewedType, Zenon DEF Poll, TypeOK
  <2>3. CASE /\ auth[x].confirmed # 0
             /\ auth' = WithRow(x, [Renewed(auth[x]) EXCEPT
                           !.token = auth[x].confirmed, !.given = @ \cup {auth[x].confirmed}])
    <3> HIDE DEF x
    <3>1. Renewed(auth[x]) \in Authorization
      BY <2>1, RenewedType
    <3>2. auth[x].confirmed \in 0..MaxShots
      BY <2>1, Zenon DEF Authorization
    <3>3. auth[x].confirmed \in 1..MaxShots
      BY <3>2, <2>3, BoundsAssumption, SMT
    <3>4. Renewed(auth[x]).given \cup {auth[x].confirmed} \in SUBSET (1..MaxShots)
      BY <3>1, <3>3, Zenon DEF Authorization
    <3>5. [Renewed(auth[x]) EXCEPT
              !.token = auth[x].confirmed, !.given = @ \cup {auth[x].confirmed}] \in Authorization
      BY <3>1, <3>2, <3>4, Zenon DEF Authorization
    <3>6. auth' \in [AuthIds -> Authorization]
      BY <1>2, <2>1, <2>3, <3>5, Zenon
    <3> QED
      BY <1>8, <3>6, Zenon DEF Poll, TypeOK
  <2> QED
    BY <1>8, <2>2, <2>3, Zenon DEF Poll
<1>9. CASE Submit(a, w)
  <2> DEFINE rows == WithRow(x, Closed(auth[x], "consumed"))
             m == [app[a] EXCEPT !.status = "submitted"]
  <2>1. CASE EndExecution(a, "needs_review")
    BY <1>9, <2>1, EndExecutionType, Zenon DEF Submit, TypeOK, ModeChange
  <2>2. CASE auth' = rows /\ app' = [app EXCEPT ![a] = m] /\ MarkApplied(a, m, rows) /\ UNCHANGED question
    <3>1. x \in AuthIds /\ auth[x] \in Authorization
      BY <1>1, <1>9, Zenon DEF Submit, HeldBy
    <3>2. rows \in [AuthIds -> Authorization]
      BY <1>2, <3>1, ClosedType, Zenon
    <3>3. m \in Application
      BY Zenon DEF TypeOK, Application, ApplicationStatus, Locked, Sent
    <3>4. job' \in [Apps -> Job]
      BY <2>2, MarkAppliedType, Zenon
    <3> HIDE DEF rows, m, x
    <3> QED
      BY <1>9, <2>2, <3>2, <3>3, <3>4, Zenon DEF Submit, TypeOK
  <2> QED
    BY <1>9, <2>1, <2>2, Zenon DEF Submit
<1>10. CASE Fail(a, w)
  BY <1>10, EndExecutionType, Zenon DEF Fail, TypeOK, ModeChange
<1> QED
  BY <1>5, <1>6, <1>7, <1>8, <1>9, <1>10, Zenon DEF ExecutorStep

(* So does what happens to a question: asked, delivered, failed, answered. *)
LEMMA QuestionStepTypeOK ==
  ASSUME TypeOK, NEW q \in Questions, QuestionStep(q)
  PROVE  TypeOK'
<1> USE DEF settings, processes
<1>1. ASSUME NEW a \in Apps, CreateQuestion(a, q)
      PROVE  TypeOK'
  <2>1. question' \in [Questions -> Question]
    BY <1>1, Zenon DEF CreateQuestion, TypeOK, Question, ActiveQuestion
  <2>2. app' \in [Apps -> Application]
    BY <1>1, Zenon DEF CreateQuestion, TypeOK, Application, ApplicationStatus, ModeChange
  <2> QED
    BY <1>1, <2>1, <2>2, Zenon DEF CreateQuestion, TypeOK
<1>2. ASSUME NEW outcome \in {"delivered", "delivery_failed"}, MarkDelivery(q, outcome)
      PROVE  TypeOK'
  BY <1>2, Zenon DEF MarkDelivery, TypeOK, Question, ActiveQuestion
<1>3. ASSUME NEW status \in {"answered", "cancelled"}, Answered(q, status)
      PROVE  question' \in [Questions -> Question]
  BY <1>3, Zenon DEF Answered, TypeOK, Question
<1>4. ASSUME NEW via \in {"telegram", "panel"}, Answer(q, via)
      PROVE  TypeOK'
  <2> DEFINE a == question[q].app
             x == app[a].auth
  <2>1. /\ x # None /\ Answered(q, "answered")
        /\ auth' = WithRow(x, Renewed(auth[x]))
        /\ app' = [app EXCEPT ![a].status = IF @ = "needs_review" THEN "in_progress" ELSE @]
        /\ UNCHANGED <<job, resume, settings, processes>>
    BY <1>4, Zenon DEF Answer
  <2>2. auth' \in [AuthIds -> Authorization]
    <3>1. CASE x \in AuthIds
      BY <2>1, <3>1, RenewedType, Zenon DEF WithRow, TypeOK
    <3>2. CASE x \notin AuthIds
      BY <2>1, <3>2, Zenon DEF WithRow, TypeOK
    <3> QED
      BY <3>1, <3>2
  <2>3. app' \in [Apps -> Application]
    <3>1. CASE a \in Apps
      <4>1. (IF app[a].status = "needs_review" THEN "in_progress" ELSE app[a].status)
              \in ApplicationStatus
        BY <3>1, Zenon DEF TypeOK, Application, ApplicationStatus, Locked
      <4> QED
        BY <2>1, <3>1, <4>1, Zenon DEF TypeOK, Application
    <3>2. CASE a \notin Apps
      BY <2>1, <3>2, Zenon DEF TypeOK
    <3> QED
      BY <3>1, <3>2
  <2> QED
    BY <2>1, <2>2, <2>3, <1>3, Zenon DEF TypeOK
<1>5. ASSUME NEW via \in {"telegram", "panel"}, NEW answer \in {"manual", "stop"},
             AnswerEnds(q, via, answer)
      PROVE  TypeOK'
  <2> DEFINE a == question[q].app
             ended == IF answer = "stop" THEN Released(app[a], "failed")
                      ELSE [Released(app[a], "queued") EXCEPT !.mode = "manual"]
  <2>1. /\ Answered(q, IF answer = "stop" THEN "cancelled" ELSE "answered")
        /\ auth' = RevokedRows({a}) /\ job' = AbortedJobs({a})
        /\ app' = [app EXCEPT ![a] = IF app[a].status = "needs_review" THEN ended ELSE app[a]]
        /\ UNCHANGED <<resume, settings, processes>>
    BY <1>5, Zenon DEF AnswerEnds
  <2>2. app' \in [Apps -> Application]
    <3>1. CASE a \in Apps
      <4>1. /\ Released(app[a], "failed") \in Application
            /\ Released(app[a], "queued") \in Application
        BY <3>1, ReleasedType, Zenon DEF TypeOK, ApplicationStatus, ModeChange
      <4>2. ended \in Application
        BY <4>1, Zenon DEF Application, Mode
      <4> HIDE DEF ended
      <4> QED
        BY <2>1, <3>1, <4>2, Zenon DEF TypeOK
    <3>2. CASE a \notin Apps
      BY <2>1, <3>2, Zenon DEF TypeOK
    <3> QED
      BY <3>1, <3>2
  <2>3. question' \in [Questions -> Question]
    BY <2>1, <1>3, Zenon
  <2> QED
    BY <2>1, <2>2, <2>3, RevokedRowsType, AbortedJobsType, Zenon DEF TypeOK
<1> QED
  BY <1>1, <1>2, <1>4, <1>5, Zenon DEF QuestionStep

(* expireJob (jobs.ts) keeps the types of the job and of what it withdraws. *)
LEMMA ExpireJobType ==
  ASSUME TypeOK, NEW a \in Apps, NEW j \in Job, ExpireJob(a, j)
  PROVE  /\ job' \in [Apps -> Job] /\ app' \in [Apps -> Application]
         /\ auth' \in [AuthIds -> Authorization]
<1>1. [j EXCEPT !.status = "expired", !.decision = "expired"] \in Job
  BY Zenon DEF Job, JobStatus, Terminal, Decision
<1>2. job' \in [Apps -> Job]
  BY <1>1, Zenon DEF ExpireJob, TypeOK
<1> QED
  BY <1>2, WithdrawPendingType, Zenon DEF ExpireJob

(* So do the two halves of the expiration cron.                          *)
LEMMA CronStepTypeOK ==
  ASSUME TypeOK, CronStep
  PROVE  TypeOK'
<1> USE DEF settings, processes, panelVars
<1>1. CASE CronRead
  BY <1>1, Zenon DEF CronRead, TypeOK
<1>2. ASSUME NEW a \in Apps, CronExpire(a)
      PROVE  TypeOK'
  <2>1. /\ job' \in [Apps -> Job] /\ app' \in [Apps -> Application]
        /\ auth' \in [AuthIds -> Authorization]
    <3>1. CASE ExpireJob(a, job[a])
      BY <3>1, ExpireJobType, Zenon DEF TypeOK
    <3>2. CASE UNCHANGED <<job, app, auth>>
      BY <3>2, Zenon DEF TypeOK
    <3> QED
      BY <1>2, <3>1, <3>2, Zenon DEF CronExpire
  <2> QED
    BY <1>2, <2>1, Zenon DEF CronExpire, TypeOK
<1>3. ASSUME NEW a \in Apps, NEW url \in 1..MaxUrl, NEW opening \in Opening,
             WriteFromSource(a, url, opening)
      PROVE  TypeOK'
  <2> DEFINE j == [job[a] EXCEPT !.url = url, !.opening = opening]
  <2>1. j \in Job
    BY Zenon DEF TypeOK, Job, Opening
  <2>2. \/ ExpireJob(a, j)
        \/ job' = [job EXCEPT ![a] = j] /\ UNCHANGED <<app, auth>>
    BY <1>3, Zenon DEF WriteFromSource
  <2> HIDE DEF j
  <2>3. /\ job' \in [Apps -> Job] /\ app' \in [Apps -> Application]
        /\ auth' \in [AuthIds -> Authorization]
    <3>1. CASE ExpireJob(a, j)
      BY <2>1, <3>1, ExpireJobType
    <3>2. CASE job' = [job EXCEPT ![a] = j] /\ UNCHANGED <<app, auth>>
      BY <2>1, <3>2, Zenon DEF TypeOK
    <3> QED
      BY <2>2, <3>1, <3>2
  <2> QED
    BY <1>3, <2>3, Zenon DEF WriteFromSource, TypeOK
<1> QED
  BY <1>1, <1>2, <1>3, Zenon DEF CronStep

(* So do the operations on a job: its decision, its URL, its archive, its resume. *)
LEMMA JobStepTypeOK ==
  ASSUME TypeOK, NEW a \in Apps, JobStep(a)
  PROVE  TypeOK'
<1> USE DEF settings, processes
<1>1. ASSUME NEW j \in Job PROVE [job EXCEPT ![a] = j] \in [Apps -> Job]
  BY <1>1, Zenon DEF TypeOK
<1>2. job[a] \in Job /\ AbortedJobs({a}) \in [Apps -> Job]
  BY AbortedJobsType, Zenon DEF TypeOK
<1>3. ASSUME NEW url \in 1..MaxUrl, UpdateUrl(a, url)
      PROVE  TypeOK'
  <2>1. job' \in [Apps -> Job]
    BY <1>2, <1>3, Zenon DEF UpdateUrl, Job
  <2>2. auth' \in [AuthIds -> Authorization]
    BY <1>3, RevokedRowsType, Zenon DEF UpdateUrl, TypeOK
  <2>3. app' \in [Apps -> Application]
    <3>1. Released(app[a], "needs_review") \in Application
      BY ReleasedType, Zenon DEF TypeOK, ApplicationStatus, ModeChange
    <3> QED
      BY <1>3, <3>1, Zenon DEF UpdateUrl, TypeOK
  <2> QED
    BY <1>3, <2>1, <2>2, <2>3, Zenon DEF UpdateUrl, TypeOK
<1>4. ASSUME NEW opening \in Opening, EditOpening(a, opening)
      PROVE  TypeOK'
  BY <1>4, Zenon DEF EditOpening, TypeOK, Job
<1>5. CASE DecideInterested(a)
  <2> DEFINE j == [job[a] EXCEPT !.decision = "interested"]
             target == IF resume[a].status # "approved" THEN "resume"
                       ELSE IF app[a].status # "none" THEN "ready_to_apply" ELSE "resume_approved"
  <2>1. j \in Job
    BY <1>2, Zenon DEF Job, Decision
  <2>2. target \in JobStatus
    BY Zenon DEF JobStatus, Active, PreApplication
  <2>3. job' = [job EXCEPT ![a] = AdvancedJob(j, target)]
    BY <1>5, Zenon DEF DecideInterested, Walk
  <2> HIDE DEF j, target
  <2>4. job' \in [Apps -> Job]
    BY <1>1, <2>1, <2>2, <2>3, AdvancedJobType, Zenon
  <2> QED
    BY <1>5, <2>4, Zenon DEF DecideInterested, TypeOK
<1>6. CASE DecideNoTime(a)
  <2>1. job' \in [Apps -> Job]
    BY <1>2, <1>6, Zenon DEF DecideNoTime, Job, Decision
  <2> QED
    BY <1>6, <2>1, WithdrawPendingType, Zenon DEF DecideNoTime, TypeOK
<1>7. CASE RejectJob(a)
  <2>1. (IF job[a].status \in Active THEN "discarded" ELSE job[a].status) \in JobStatus
    BY <1>2, Zenon DEF Job, JobStatus, Terminal
  <2>2. Rejected(job[a]) \in Job
    BY <1>2, <2>1, Zenon DEF Rejected, Job, Decision
  <2> QED
    BY <1>1, <1>7, <2>2, WithdrawPendingType, Zenon DEF RejectJob, TypeOK
<1>8. CASE UndoDecision(a)
  <2>1. (IF job[a].decision = "not_interested" /\ job[a].status = "discarded"
         THEN "found" ELSE job[a].status) \in JobStatus
    BY <1>2, Zenon DEF Job, JobStatus, Active, PreApplication
  <2>2. Undone(job[a]) \in Job
    BY <1>2, <2>1, Zenon DEF Undone, Job, Decision
  <2> QED
    BY <1>1, <1>8, <2>2, Zenon DEF UndoDecision, TypeOK
<1>9. CASE Archive(a)
  <2>1. job' \in [Apps -> Job]
    BY <1>9, Zenon DEF Archive, TypeOK, Job
  <2> QED
    BY <1>9, <2>1, WithdrawPendingType, Zenon DEF Archive, TypeOK
<1>10. CASE Restore(a)
  <2>1. job' \in [Apps -> Job]
    BY <1>10, Zenon DEF Restore, TypeOK, Job
  <2> QED
    BY <1>10, <2>1, Zenon DEF Restore, TypeOK
<1>11. ASSUME NEW c \in Commands, TransitionJob(a, c)
       PROVE  TypeOK'
  <2>1. Rules[c].to \in JobStatus
    BY CommandsAssumption, RulesType, Zenon
  <2>2. job' \in [Apps -> Job]
    BY <1>11, <2>1, Zenon DEF TransitionJob, TypeOK, Job
  <2> QED
    BY <1>11, <2>2, Zenon DEF TransitionJob, TypeOK
<1>12. CASE EditResume(a)
  <2>1. resume[a].version + 1 \in 1..MaxVersion
    <3>1. resume[a].version \in 1..MaxVersion
      BY Zenon DEF TypeOK, Resume
    <3>2. resume[a].version < MaxVersion
      BY <1>12, Zenon DEF EditResume
    <3> QED
      BY <3>1, <3>2, BoundsAssumption, SMT
  <2>2. resume' \in [Apps -> Resume]
    BY <1>12, <2>1, Zenon DEF EditResume, TypeOK, Resume
  <2>3. /\ job' \in [Apps -> Job] /\ app' \in [Apps -> Application]
        /\ auth' \in [AuthIds -> Authorization]
    <3>1. CASE UNCHANGED <<job, app, auth>>
      BY <3>1, Zenon DEF TypeOK
    <3>2. CASE /\ WithdrawPending(a)
               /\ job' = [job EXCEPT ![a].status =
                     IF Aborted(@) \in Rules["revise_resume"].from THEN "resume" ELSE @]
      <4>1. (IF Aborted(job[a].status) \in Rules["revise_resume"].from
             THEN "resume" ELSE job[a].status) \in JobStatus
        BY <1>2, Zenon DEF Job, JobStatus, Active, PreApplication
      <4>2. job' \in [Apps -> Job]
        BY <3>2, <4>1, Zenon DEF TypeOK, Job
      <4> QED
        BY <3>2, <4>2, WithdrawPendingType
    <3> QED
      BY <1>12, <3>1, <3>2, Zenon DEF EditResume
  <2> QED
    BY <1>12, <2>2, <2>3, Zenon DEF EditResume, TypeOK
<1>13. CASE ApproveResume(a)
  <2> DEFINE s == [resume[a] EXCEPT !.status = "approved"]
             target == IF app[a].status \in ModeChange THEN "ready_to_apply" ELSE "resume_approved"
  <2>1. s \in Resume
    BY Zenon DEF TypeOK, Resume
  <2>2. target \in JobStatus
    BY Zenon DEF JobStatus, Active, PreApplication
  <2>3. /\ resume' = [resume EXCEPT ![a] = s]
        /\ job' = [job EXCEPT ![a] = AdvancedJob(job[a], target)]
    BY <1>13, Zenon DEF ApproveResume, Walk
  <2> HIDE DEF s, target
  <2>4. job' \in [Apps -> Job] /\ resume' \in [Apps -> Resume]
    BY <1>1, <1>2, <2>1, <2>2, <2>3, AdvancedJobType, Zenon DEF TypeOK
  <2> QED
    BY <1>13, <2>4, Zenon DEF ApproveResume, TypeOK
<1> QED
  BY <1>3, <1>4, <1>5, <1>6, <1>7, <1>8, <1>9, <1>10, <1>11, <1>12, <1>13, Zenon DEF JobStep

(* So do the sweep of expired authorizations and the recovery of stuck jobs. *)
LEMMA SweepTypeOK ==
  ASSUME TypeOK, ExpireDue \/ RecoverStuck
  PROVE  TypeOK'
<1> USE DEF settings, processes
<1>1. ASSUME NEW a \in Apps
      PROVE  app[a] \in Application /\ Released(app[a], "needs_review") \in Application
  BY <1>1, ReleasedType, Zenon DEF TypeOK, ApplicationStatus, ModeChange
<1>2. CASE ExpireDue
  <2>1. app' \in [Apps -> Application]
    BY <1>1, <1>2, Zenon DEF ExpireDue
  <2>2. auth' \in [AuthIds -> Authorization]
    BY <1>2, ClosedType, Zenon DEF ExpireDue, TypeOK
  <2> QED
    BY <1>2, <2>1, <2>2, AbortedJobsType, Zenon DEF ExpireDue, TypeOK
<1>3. CASE RecoverStuck
  <2>1. ASSUME NEW a \in Apps
        PROVE  [Released(app[a], "needs_review") EXCEPT !.mode = ByUser(app[a].mode)] \in Application
    <3>1. ByUser(app[a].mode) \in Mode \cup {None}
      BY <1>1, ByUserType, Zenon DEF Application
    <3> QED
      BY <1>1, <3>1, Zenon DEF Application
  <2>2. app' \in [Apps -> Application]
    BY <1>1, <1>3, <2>1, Zenon DEF RecoverStuck
  <2> QED
    BY <1>3, <2>2, RevokedRowsType, AbortedJobsType, Zenon DEF RecoverStuck, TypeOK
<1> QED
  BY <1>2, <1>3

(* So do the kill-switch and the daily limit.                            *)
LEMMA SettingsStepTypeOK ==
  ASSUME TypeOK, SettingsStep
  PROVE  TypeOK'
<1> USE DEF settings, processes, panelVars
<1>1. ASSUME NEW a \in Apps, NEW s \in ApplicationStatus
      PROVE  app[a] \in Application /\ [app[a] EXCEPT !.status = s] \in Application
  BY <1>1, Zenon DEF TypeOK, Application
<1>2. {"needs_review", "in_progress"} \subseteq ApplicationStatus
  BY Zenon DEF ApplicationStatus, ModeChange, Locked
<1>3. CASE Pause
  <2>1. ASSUME NEW x \in AuthIds
        PROVE  [auth[x] EXCEPT !.paused = TRUE, !.requested = FALSE,
                               !.confirmed = 0, !.token = 0] \in Authorization
    <3>1. auth[x] \in Authorization
      BY <2>1, Zenon DEF TypeOK
    <3> QED
      BY <3>1, Bounds, Zenon DEF Authorization
  <2>2. auth' \in [AuthIds -> Authorization]
    BY <1>3, <2>1, Zenon DEF Pause, TypeOK
  <2>3. app' \in [Apps -> Application]
    BY <1>1, <1>2, <1>3, Zenon DEF Pause
  <2> QED
    BY <1>3, <2>2, <2>3, Zenon DEF Pause, TypeOK
<1>4. CASE ResumeAutomation
  <2>1. ASSUME NEW x \in AuthIds
        PROVE  [Renewed(auth[x]) EXCEPT !.paused = FALSE] \in Authorization
    <3>1. Renewed(auth[x]) \in Authorization
      BY <2>1, RenewedType, Zenon DEF TypeOK
    <3> QED
      BY <3>1, Zenon DEF Authorization
  <2>2. auth' \in [AuthIds -> Authorization]
    BY <1>4, <2>1, Zenon DEF ResumeAutomation, TypeOK
  <2>3. app' \in [Apps -> Application]
    BY <1>1, <1>2, <1>4, Zenon DEF ResumeAutomation
  <2> QED
    BY <1>4, <2>2, <2>3, Zenon DEF ResumeAutomation, TypeOK
<1>5. ASSUME NEW n \in Limits, SetDailyLimit(n)
      PROVE  TypeOK'
  BY <1>5, Zenon DEF SetDailyLimit, TypeOK
<1> QED
  BY <1>3, <1>4, <1>5, Zenon DEF SettingsStep

(* So do the two halves of AUTORIZO, its reads and its transaction.      *)
LEMMA AuthorizeStepTypeOK ==
  ASSUME TypeOK, AuthorizeStep
  PROVE  TypeOK'
<1> USE DEF settings, processes, panelVars
<1>1. CASE AuthorizeRefused
  BY <1>1, Zenon DEF AuthorizeRefused, TypeOK
<1>2. ASSUME NEW x \in AuthIds, AuthorizeWrite(x)
      PROVE  TypeOK'
  <2> DEFINE a == desk.app
             r == [NoAuthorization EXCEPT !.state = "issued", !.app = a,
                                          !.version = desk.version, !.url = desk.url]
  <2>1. a \in Apps /\ desk.version \in 0..MaxVersion /\ desk.url \in 0..MaxUrl
    BY <1>2, Bounds, Zenon DEF AuthorizeWrite, TypeOK, Call
  <2>2. r \in Authorization
    BY <2>1, NoAuthorizationType, Zenon DEF Authorization, Live
  <2>3. /\ app' = [app EXCEPT ![a] = Granted(app[a], x)]
        /\ auth' = WithRow(x, r) /\ desk' = None
        /\ UNCHANGED <<job, resume, question, settings, alive, cron>>
    BY <1>2, Zenon DEF AuthorizeWrite
  <2> HIDE DEF a, r
  <2>4. app' \in [Apps -> Application]
    BY <2>1, <2>3, GrantedType, Zenon DEF TypeOK
  <2>5. auth' \in [AuthIds -> Authorization]
    BY <2>2, <2>3, Zenon DEF WithRow, TypeOK
  <2> QED
    BY <2>3, <2>4, <2>5, Zenon DEF TypeOK
<1> QED
  BY <1>1, <1>2, Zenon DEF AuthorizeStep

(* So do the passage of time and the crash of an executor.               *)
LEMMA TimeStepTypeOK ==
  ASSUME TypeOK, TimeStep
  PROVE  TypeOK'
<1> USE DEF settings, processes, panelVars
<1>1. ASSUME NEW x \in AuthIds, TtlLapse(x)
      PROVE  TypeOK'
  <2>1. auth' \in [AuthIds -> Authorization]
    BY <1>1, TimedType, Zenon DEF TtlLapse, TypeOK
  <2> QED
    BY <1>1, <2>1, Zenon DEF TtlLapse, TypeOK
<1>2. ASSUME NEW x \in AuthIds, LeaseLapse(x)
      PROVE  TypeOK'
  <2>1. auth' \in [AuthIds -> Authorization]
    BY <1>2, TimedType, Zenon DEF LeaseLapse, TypeOK
  <2> QED
    BY <1>2, <2>1, Zenon DEF LeaseLapse, TypeOK
<1>3. ASSUME NEW a \in Apps, DeadlinePasses(a)
      PROVE  TypeOK'
  <2>1. job' \in [Apps -> Job]
    BY <1>3, Zenon DEF DeadlinePasses, TypeOK, Job, Opening
  <2> QED
    BY <1>3, <2>1, Zenon DEF DeadlinePasses, TypeOK
<1>4. CASE NewDay
  <2>1. auth' \in [AuthIds -> Authorization]
    BY <1>4, TimedType, Zenon DEF NewDay, TypeOK
  <2> QED
    BY <1>4, <2>1, Zenon DEF NewDay, TypeOK
<1>5. ASSUME NEW w \in Workers, WorkerCrash(w)
      PROVE  TypeOK'
  <2>1. auth' \in [AuthIds -> Authorization]
    BY <1>5, TimedType, Zenon DEF WorkerCrash, TypeOK
  <2> QED
    BY <1>5, <2>1, Zenon DEF WorkerCrash, TypeOK
<1>6. ASSUME NEW w \in Workers, WorkerRestart(w)
      PROVE  TypeOK'
  BY <1>6, Zenon DEF WorkerRestart, TypeOK
<1> QED
  BY <1>1, <1>2, <1>3, <1>4, <1>5, <1>6, Zenon DEF TimeStep

(* Every step of the system, and every stutter, keeps every type.        *)
LEMMA NextTypeOK == TypeOK /\ [Next]_vars => TypeOK'
<1> SUFFICES ASSUME TypeOK, [Next]_vars PROVE TypeOK'
  OBVIOUS
<1>1. CASE DashboardStep
  BY <1>1, UserStepTypeOK, JobStepTypeOK, ExecutorStepTypeOK, QuestionStepTypeOK, SweepTypeOK,
     Zenon DEF DashboardStep
<1>2. CASE UNCHANGED vars
  BY <1>2, Zenon DEF vars, panelVars, settings, processes, TypeOK
<1> QED
  BY <1>1, <1>2, SettingsStepTypeOK, AuthorizeStepTypeOK, CronStepTypeOK, TimeStepTypeOK,
     Zenon DEF Next

(* Every value the application's tables, the settings and the readings in *)
(* progress can ever take is one the module declares, whatever the sets of *)
(* applications, authorizations, questions and executors and whatever the bounds: *)
(* no route, sweep, cron or crash of the code writes a status, a mode or a counter *)
(* out of its range.                                                     *)
THEOREM TypeCorrect == Spec => []TypeOK
<1>1. Init => TypeOK
  BY InitTypeOK
<1>2. TypeOK /\ [Next]_vars => TypeOK'
  BY NextTypeOK
<1> QED
  BY <1>1, <1>2, PTL DEF Spec

-----------------------------------------------------------------------------
(* What a step may do *)

\* No row of application a is live after the step.
Gone(a) == \A x \in AuthIds : auth[x].app = a => auth'[x].state \notin Live

\* Row x is consumed by this step, and everything its grant names holds.
Submitted(x) ==
  LET a == auth[x].app IN
  /\ auth[x].state = "claimed" /\ auth'[x].state = "consumed"
  /\ auth'[x].app = a /\ a \in Apps
  /\ app'[a].auth = x /\ app'[a].status \in Sent
  /\ enabled
  /\ resume[a].status = "approved" /\ resume[a].version = auth[x].version
  /\ job[a].decision = "interested" /\ job[a].url = auth[x].url /\ ~job[a].archived
  /\ auth[x].requested /\ auth[x].confirmed = auth[x].shot
  /\ auth[x].token = auth[x].shot /\ auth[x].token \in auth[x].given

\* Row x is issued by this step, to an application that had none.
Issued(x) ==
  LET a == auth'[x].app IN
  /\ auth[x].state = "none" /\ auth'[x].state = "issued"
  /\ a \in Apps /\ app[a].auth = None
  /\ app'[a].auth = x /\ app'[a].mode = "authorized_auto"
  /\ app'[a].status \notin Sent \cup {"none"} /\ ~job'[a].archived

\* What a step may do to row x of application_authorizations.
RowKept(x) ==
  \/ auth'[x].app = auth[x].app /\ auth'[x].state = auth[x].state
  \/ /\ auth'[x].app = auth[x].app
     /\ auth[x].state \in Live /\ auth'[x].state \in {"claimed", "revoked", "expired"}
  \/ Submitted(x)
  \/ Issued(x)

\* The three columns that say "granted" are not touched.
SameGrant(a) ==
  /\ app'[a].auth = app[a].auth
  /\ app'[a].granted = app[a].granted /\ app'[a].mode = app[a].mode

\* They are taken back, together with every live row of the application.
Ungranted(a) ==
  /\ app'[a].auth = None /\ app'[a].granted = FALSE /\ app'[a].mode # "authorized_auto"
  /\ app[a].status \notin Sent /\ Gone(a)

\* They are given, together with the row the application now points at.
NewlyGranted(a) ==
  LET x == app'[a].auth IN
  /\ app[a].auth = None /\ app'[a].granted = TRUE /\ app'[a].mode = "authorized_auto"
  /\ x \in AuthIds /\ auth'[x].app = a /\ auth'[x].state = "issued"

(***************************************************************************)
(* What a step may do to application a: it does not cease to exist, a sent *)
(* one stays sent, and the three columns move together with the rows.      *)
(***************************************************************************)
AppKept(a) ==
  /\ app[a].status # "none" => app'[a].status # "none"
  /\ app[a].status \in Sent => app'[a].status \in Sent
  /\ app'[a].status \in Sent => app[a].status \in Sent \/ Gone(a)
  /\ SameGrant(a) \/ Ungranted(a) \/ NewlyGranted(a)

(***************************************************************************)
(* A job is archived only with no live row and no AUTORIZO between its     *)
(* reads and its transaction.                                              *)
(***************************************************************************)
JobKept(a) == job'[a].archived => job[a].archived \/ (desk' = None /\ Gone(a))

(***************************************************************************)
(* The handler between reads and transaction is the same, gone, or one     *)
(* that has just read a job that is not archived.                          *)
(***************************************************************************)
DeskKept ==
  \/ desk' = None \/ desk' = desk
  \/ desk'.app \in Apps /\ ~job'[desk'.app].archived

\* The columns of row r that lead to the submission, with the switch at on.
Gated(r, on) ==
  /\ r.state = "claimed" =>
       (r.paused <=> ~on) /\ (r.paused => ~r.requested /\ r.confirmed = 0 /\ r.token = 0)
  /\ r.token # 0 =>
       /\ r.state = "claimed" /\ ~r.paused /\ r.requested
       /\ r.token = r.shot /\ r.confirmed = r.shot
  /\ r.confirmed # 0 =>
       r.state = "claimed" /\ ~r.paused /\ r.requested /\ r.confirmed = r.shot
  /\ r.state # "claimed" => ~r.paused /\ ~r.requested

RowsKept == \A x \in AuthIds : RowKept(x) /\ Gated(auth'[x], enabled')
AppsKept == \A a \in Apps : AppKept(a)
JobsKept == DeskKept /\ \A a \in Apps : JobKept(a)

\* A step of the system, reduced to what the inductive invariant is about.
KeptStep == RowsKept /\ AppsKept /\ JobsKept

-----------------------------------------------------------------------------
(* What a kept step keeps *)

\* The inductive invariant, read one row at a time.
LEMMA RowsAreGated == Inductive => \A x \in AuthIds : Gated(auth[x], enabled)
BY Zenon DEF Inductive, Gating, KillSwitchHolds, TokenGate, ConfirmationIsOfCapture,
             OnlyClaimedIsPaused, Gated

\* Gated rows make the second part of the invariant.
LEMMA KeptGating == RowsKept => Gating'
BY Zenon DEF RowsKept, Gating, KillSwitchHolds, TokenGate, ConfirmationIsOfCapture,
             OnlyClaimedIsPaused, Gated

(***************************************************************************)
(* What the invariant says of a live row: it is the current row of a job   *)
(* that is not archived, in automatic mode, not sent.                      *)
(***************************************************************************)
LEMMA LiveFacts ==
  ASSUME Inductive, NEW x \in AuthIds, auth[x].state \in Live
  PROVE  /\ auth[x].app \in Apps /\ app[auth[x].app].auth = x
         /\ app[auth[x].app].mode = "authorized_auto"
         /\ app[auth[x].app].status \notin Sent \cup {"none"}
         /\ ~job[auth[x].app].archived
BY Zenon DEF Inductive, Ownership, LiveRowIsCurrent, LiveRowIsUnsent, Archiving,
             ArchivedHasNoLiveRow

\* A row that is live after a step was live before, or is issued by it.
LEMMA LiveAfter ==
  ASSUME RowsKept, NEW x \in AuthIds, auth'[x].state \in Live
  PROVE  Issued(x) \/ (auth[x].state \in Live /\ auth'[x].app = auth[x].app)
BY Zenon DEF RowsKept, RowKept, Submitted, Live

\* Such a step keeps the first part of the invariant.
LEMMA KeptOwnership ==
  ASSUME Inductive, KeptStep
  PROVE  Ownership'
<1> USE DEF KeptStep
<1>1. LiveRowIsCurrent'
  <2> SUFFICES ASSUME NEW x \in AuthIds, auth'[x].state \in Live
               PROVE  /\ auth'[x].app \in Apps /\ app'[auth'[x].app].auth = x
                      /\ app'[auth'[x].app].mode = "authorized_auto"
    BY Zenon DEF LiveRowIsCurrent
  <2>1. CASE Issued(x)
    BY <2>1, Zenon DEF Issued
  <2>2. CASE auth[x].state \in Live /\ auth'[x].app = auth[x].app
    <3>1. /\ auth[x].app \in Apps /\ app[auth[x].app].auth = x
          /\ app[auth[x].app].mode = "authorized_auto"
      BY <2>2, LiveFacts, Zenon
    <3>2. AppKept(auth[x].app)
      BY <3>1, Zenon DEF AppsKept
    <3>3. ~Ungranted(auth[x].app)
      BY <3>1, Zenon DEF Ungranted, Gone
    <3>4. x # None
      BY NoneAssumption, Zenon
    <3>5. SameGrant(auth[x].app)
      BY <3>1, <3>2, <3>3, <3>4, Zenon DEF AppKept, NewlyGranted
    <3> QED
      BY <2>2, <3>1, <3>5, Zenon DEF SameGrant
  <2> QED
    BY <2>1, <2>2, LiveAfter, Zenon
<1>2. GrantIsWhole'
  <2> SUFFICES ASSUME NEW a \in Apps
               PROVE  /\ app'[a].granted <=> app'[a].mode = "authorized_auto"
                      /\ app'[a].granted <=> app'[a].auth # None
    BY Zenon DEF GrantIsWhole
  <2>1. AppKept(a)
    BY Zenon DEF AppsKept
  <2>2. CASE SameGrant(a)
    BY <2>2, Zenon DEF SameGrant, Inductive, Ownership, GrantIsWhole
  <2>3. CASE Ungranted(a)
    BY <2>3, Zenon DEF Ungranted
  <2>4. CASE NewlyGranted(a)
    <3>1. app'[a].auth # None
      BY <2>4, NoneAssumption, Zenon DEF NewlyGranted
    <3> QED
      BY <2>4, <3>1, Zenon DEF NewlyGranted
  <2> QED
    BY <2>1, <2>2, <2>3, <2>4, Zenon DEF AppKept
<1>3. SubmissionIsFinal'
  <2> SUFFICES ASSUME NEW x \in AuthIds, auth'[x].state = "consumed"
               PROVE  /\ auth'[x].app \in Apps /\ app'[auth'[x].app].auth = x
                      /\ app'[auth'[x].app].status \in Sent
    BY Zenon DEF SubmissionIsFinal
  <2>1. CASE Submitted(x)
    BY <2>1, Zenon DEF Submitted
  <2>2. CASE auth'[x].app = auth[x].app /\ auth'[x].state = auth[x].state
    <3>1. /\ auth[x].app \in Apps /\ app[auth[x].app].auth = x
          /\ app[auth[x].app].status \in Sent
      BY <2>2, Zenon DEF Inductive, Ownership, SubmissionIsFinal
    <3>2. AppKept(auth[x].app)
      BY <3>1, Zenon DEF AppsKept
    <3>3. x # None
      BY NoneAssumption, Zenon
    <3>4. SameGrant(auth[x].app)
      BY <3>1, <3>2, <3>3, Zenon DEF AppKept, Ungranted, NewlyGranted
    <3> QED
      BY <2>2, <3>1, <3>2, <3>4, Zenon DEF AppKept, SameGrant
  <2>3. RowKept(x)
    BY Zenon DEF RowsKept
  <2> QED
    BY <2>1, <2>2, <2>3, Zenon DEF RowKept, Issued
<1>4. PointsAtOwnRow'
  <2> SUFFICES ASSUME NEW a \in Apps, app'[a].auth # None
               PROVE  auth'[app'[a].auth].app = a /\ auth'[app'[a].auth].state # "none"
    BY Zenon DEF PointsAtOwnRow
  <2>1. AppKept(a)
    BY Zenon DEF AppsKept
  <2>2. CASE SameGrant(a)
    <3> DEFINE x == app[a].auth
    <3>1. x # None /\ app'[a].auth = x
      BY <2>2, Zenon DEF SameGrant
    <3>2. x \in AuthIds
      BY <3>1, Zenon DEF Inductive, TypeOK, Application
    <3>3. auth[x].app = a /\ auth[x].state # "none"
      BY <3>1, Zenon DEF Inductive, Ownership, PointsAtOwnRow
    <3> HIDE DEF x
    <3>4. RowKept(x)
      BY <3>2, Zenon DEF RowsKept
    <3>5. auth'[x].app = a /\ auth'[x].state # "none"
      BY <3>3, <3>4, Zenon DEF RowKept, Submitted, Issued
    <3> QED
      BY <3>1, <3>5, Zenon
  <2>3. CASE NewlyGranted(a)
    BY <2>3, Zenon DEF NewlyGranted
  <2> QED
    BY <2>1, <2>2, <2>3, Zenon DEF AppKept, Ungranted
<1>5. LiveRowIsUnsent'
  <2> SUFFICES ASSUME NEW x \in AuthIds, auth'[x].state \in Live
               PROVE  app'[auth'[x].app].status \notin Sent \cup {"none"}
    BY Zenon DEF LiveRowIsUnsent
  <2>1. CASE Issued(x)
    BY <2>1, Zenon DEF Issued
  <2>2. CASE auth[x].state \in Live /\ auth'[x].app = auth[x].app
    <3>1. auth[x].app \in Apps /\ app[auth[x].app].status \notin Sent \cup {"none"}
      BY <2>2, LiveFacts, Zenon
    <3>2. AppKept(auth[x].app)
      BY <3>1, Zenon DEF AppsKept
    <3>3. ~Gone(auth[x].app)
      BY Zenon DEF Gone
    <3> QED
      BY <2>2, <3>1, <3>2, <3>3, Zenon DEF AppKept
  <2> QED
    BY <2>1, <2>2, LiveAfter, Zenon
<1> QED
  BY <1>1, <1>2, <1>3, <1>4, <1>5, Zenon DEF Ownership

\* Such a step keeps the third part of the invariant.
LEMMA KeptArchiving ==
  ASSUME Inductive, KeptStep
  PROVE  Archiving'
<1> USE DEF KeptStep
<1>1. ArchivedHasNoLiveRow'
  <2> SUFFICES ASSUME NEW x \in AuthIds, auth'[x].state \in Live
               PROVE  ~job'[auth'[x].app].archived
    BY Zenon DEF ArchivedHasNoLiveRow
  <2>1. CASE Issued(x)
    BY <2>1, Zenon DEF Issued
  <2>2. CASE auth[x].state \in Live /\ auth'[x].app = auth[x].app
    BY <2>2, LiveFacts, Zenon DEF JobsKept, JobKept, Gone
  <2> QED
    BY <2>1, <2>2, LiveAfter, Zenon
<1>2. DeskIsNotArchived'
  <2> SUFFICES ASSUME desk' # None PROVE ~job'[desk'.app].archived
    BY Zenon DEF DeskIsNotArchived
  <2>1. CASE desk' = desk
    <3>1. ~job[desk.app].archived
      BY <2>1, Zenon DEF Inductive, Archiving, DeskIsNotArchived
    <3>2. desk.app \in Apps
      BY <2>1, Zenon DEF Inductive, TypeOK, Call
    <3> QED
      BY <2>1, <3>1, <3>2, Zenon DEF JobsKept, JobKept
  <2> QED
    BY <2>1, Zenon DEF JobsKept, DeskKept
<1> QED
  BY <1>1, <1>2, Zenon DEF Archiving

(***************************************************************************)
(* So it keeps the invariant: what is left is to show that every step of   *)
(* the system is such a step.                                              *)
(***************************************************************************)
LEMMA KeptInductive ==
  ASSUME Inductive, [Next]_vars, KeptStep
  PROVE  Inductive'
BY KeptOwnership, KeptArchiving, KeptGating, NextTypeOK, Zenon DEF Inductive, KeptStep

-----------------------------------------------------------------------------
(* Rows *)

\* Rows r and s differ at most in time, in the claimer and in the executor's memory.
SameRow(r, s) ==
  /\ s.state = r.state /\ s.app = r.app /\ s.paused = r.paused /\ s.requested = r.requested
  /\ s.shot = r.shot /\ s.confirmed = r.confirmed /\ s.token = r.token

\* A row that is not claimed, with nothing asked, confirmed or minted.
Blank(r) ==
  r.state # "claimed" /\ ~r.paused /\ ~r.requested /\ r.confirmed = 0 /\ r.token = 0

\* Time does not open the gate.
LEMMA GatedSame ==
  ASSUME NEW r, NEW s, NEW on, Gated(r, on), SameRow(r, s)
  PROVE  Gated(s, on)
BY Zenon DEF Gated, SameRow

\* A blank row is gated whatever the switch says.
LEMMA GatedBlank ==
  ASSUME NEW r, NEW on, Blank(r)
  PROVE  Gated(r, on)
BY Zenon DEF Gated, Blank

\* A closed row is blank, and still its application's.
LEMMA ClosedShape ==
  ASSUME NEW r, NEW st \in {"consumed", "revoked", "expired"}
  PROVE  Closed(r, st).state = st /\ Closed(r, st).app = r.app /\ Blank(Closed(r, st))
<1>1. st # "claimed"
  BY Zenon
<1> QED
  BY <1>1, Zenon DEF Closed, NoAuthorization, Blank

\* A renewed lease, a lapse, a new day and a lost token leave a row the same.
LEMMA SameRowShapes ==
  ASSUME NEW r \in Authorization
  PROVE  /\ SameRow(r, r) /\ SameRow(r, Renewed(r))
         /\ SameRow(r, [r EXCEPT !.ttlOver = TRUE])
         /\ SameRow(r, [r EXCEPT !.leaseOver = TRUE])
         /\ SameRow(r, [r EXCEPT !.today = FALSE])
         /\ SameRow(r, [r EXCEPT !.given = {}])
BY Zenon DEF Authorization, SameRow, Renewed

\* Rows that stay the same are kept.
LEMMA RowsSame ==
  ASSUME Inductive, enabled' = enabled, \A x \in AuthIds : SameRow(auth[x], auth'[x])
  PROVE  RowsKept
<1> SUFFICES ASSUME NEW x \in AuthIds PROVE RowKept(x) /\ Gated(auth'[x], enabled')
  BY Zenon DEF RowsKept
<1>1. Gated(auth[x], enabled)
  BY RowsAreGated, Zenon
<1>2. Gated(auth'[x], enabled)
  BY <1>1, GatedSame, Zenon
<1> QED
  BY <1>2, Zenon DEF RowKept, SameRow

\* So is a table nobody writes.
LEMMA RowsUnchanged ==
  ASSUME Inductive, enabled' = enabled, auth' = auth
  PROVE  RowsKept
<1>1. \A x \in AuthIds : SameRow(auth[x], auth'[x])
  BY Zenon DEF SameRow
<1> QED
  BY <1>1, RowsSame

\* A step that writes one row keeps the table if it keeps that row.
LEMMA OneRow ==
  ASSUME Inductive, enabled' = enabled, NEW x, NEW r, auth' = WithRow(x, r),
         x \in AuthIds => RowKept(x) /\ Gated(r, enabled)
  PROVE  RowsKept
<1> SUFFICES ASSUME NEW y \in AuthIds PROVE RowKept(y) /\ Gated(auth'[y], enabled')
  BY Zenon DEF RowsKept
<1>1. auth \in [AuthIds -> Authorization]
  BY Zenon DEF Inductive, TypeOK
<1>2. CASE y = x
  <2>1. auth'[x] = r
    BY <1>1, <1>2, Zenon DEF WithRow
  <2> QED
    BY <1>2, <2>1, Zenon
<1>3. CASE y # x
  <2>1. auth'[y] = auth[y]
    BY <1>1, <1>3, Zenon DEF WithRow
  <2>2. Gated(auth[y], enabled)
    BY RowsAreGated, Zenon
  <2> QED
    BY <2>1, <2>2, Zenon DEF RowKept
<1> QED
  BY <1>2, <1>3, Zenon

\* A heartbeat, a poll or an answer renews one lease.
LEMMA RenewedRow ==
  ASSUME Inductive, enabled' = enabled, NEW x, auth' = WithRow(x, Renewed(auth[x]))
  PROVE  RowsKept
<1> SUFFICES ASSUME NEW y \in AuthIds PROVE SameRow(auth[y], auth'[y])
  BY RowsSame, Zenon
<1>1. auth \in [AuthIds -> Authorization]
  BY Zenon DEF Inductive, TypeOK
<1>2. SameRow(auth[y], auth[y]) /\ SameRow(auth[y], Renewed(auth[y]))
  BY <1>1, SameRowShapes, Zenon
<1>3. auth'[y] = auth[y] \/ auth'[y] = Renewed(auth[y])
  BY <1>1, Zenon DEF WithRow
<1> QED
  BY <1>2, <1>3, Zenon

\* Any set of live rows may be closed.
LEMMA ClosedRows ==
  ASSUME Inductive, enabled' = enabled, NEW X, NEW st \in {"revoked", "expired"},
         \A x \in AuthIds : IF x \in X THEN auth[x].state \in Live /\ auth'[x] = Closed(auth[x], st)
                                        ELSE auth'[x] = auth[x]
  PROVE  RowsKept /\ \A x \in AuthIds : x \in X => auth'[x].state \notin Live
<1>1. ASSUME NEW x \in AuthIds
      PROVE  /\ RowKept(x) /\ Gated(auth'[x], enabled')
             /\ x \in X => auth'[x].state \notin Live
  <2>1. CASE x \in X
    <3>1. auth[x].state \in Live /\ auth'[x] = Closed(auth[x], st)
      BY <2>1, Zenon
    <3>5. st \in {"consumed", "revoked", "expired"}
      BY Zenon
    <3>6. /\ Closed(auth[x], st).state = st /\ Closed(auth[x], st).app = auth[x].app
          /\ Blank(Closed(auth[x], st))
      BY <3>5, ClosedShape, Zenon
    <3>2. auth'[x].state = st /\ auth'[x].app = auth[x].app /\ Blank(auth'[x])
      BY <3>1, <3>6, Zenon
    <3>3. st \notin Live
      BY Zenon DEF Live
    <3>4. RowKept(x)
      BY <3>1, <3>2, Zenon DEF RowKept
    <3> QED
      BY <3>2, <3>3, <3>4, GatedBlank, Zenon
  <2>2. CASE x \notin X
    <3>1. auth'[x] = auth[x]
      BY <2>2, Zenon
    <3>2. Gated(auth[x], enabled)
      BY RowsAreGated, Zenon
    <3> QED
      BY <2>2, <3>1, <3>2, Zenon DEF RowKept
  <2> QED
    BY <2>1, <2>2, Zenon
<1> QED
  BY <1>1, Zenon DEF RowsKept

\* revokeAuthorizationRows (authorizations.ts) leaves its applications no live row.
LEMMA RevokedRowsKept ==
  ASSUME Inductive, enabled' = enabled, NEW S, auth' = RevokedRows(S)
  PROVE  RowsKept /\ \A a \in S : Gone(a)
<1> DEFINE X == {x \in AuthIds : auth[x].app \in S /\ auth[x].state \in Live}
<1>1. \A x \in AuthIds : auth'[x] = IF auth[x].app \in S /\ auth[x].state \in Live
                                    THEN Closed(auth[x], "revoked") ELSE auth[x]
  BY Zenon DEF RevokedRows
<1>2. \A x \in AuthIds : IF x \in X THEN auth[x].state \in Live /\ auth'[x] = Closed(auth[x], "revoked")
                                     ELSE auth'[x] = auth[x]
  BY <1>1, Zenon
<1>3. RowsKept /\ \A x \in AuthIds : x \in X => auth'[x].state \notin Live
  BY <1>2, ClosedRows, Zenon
<1>4. \A a \in S : Gone(a)
  BY <1>1, <1>3, Zenon DEF Gone
<1> QED
  BY <1>3, <1>4

-----------------------------------------------------------------------------
(* Applications and jobs *)

\* A step that writes no application keeps them.
LEMMA AppsUnchanged ==
  ASSUME app' = app
  PROVE  AppsKept
BY Zenon DEF AppsKept, AppKept, SameGrant

\* A step that writes one application keeps the table if it keeps that one.
LEMMA OneApp ==
  ASSUME Inductive, NEW a, NEW m, app' = [app EXCEPT ![a] = m], a \in Apps => AppKept(a)
  PROVE  AppsKept
<1>1. app \in [Apps -> Application]
  BY Zenon DEF Inductive, TypeOK
<1> SUFFICES ASSUME NEW b \in Apps, b # a PROVE AppKept(b)
  BY Zenon DEF AppsKept
<1>2. app'[b] = app[b]
  BY <1>1, Zenon
<1> QED
  BY <1>2, Zenon DEF AppKept, SameGrant

\* A status that moves between statuses that are not sent.
LEMMA StatusMoves ==
  ASSUME Inductive, NEW a \in Apps, NEW s, s \notin Sent \cup {"none"},
         app[a].status \notin Sent,
         app'[a] = [app[a] EXCEPT !.status = s]
  PROVE  AppKept(a)
<1>1. app[a] \in Application
  BY Zenon DEF Inductive, TypeOK
<1>2. SameGrant(a)
  BY <1>1, Zenon DEF SameGrant, Application
<1>3. app'[a].status = s
  BY <1>1, Zenon DEF Application
<1> QED
  BY <1>2, <1>3, Zenon DEF AppKept

\* An application that gives up its grant, its live rows closed.
LEMMA GrantDropped ==
  ASSUME Inductive, NEW a \in Apps, Gone(a), app[a].status \notin Sent,
         app'[a].auth = None, app'[a].granted = FALSE, app'[a].mode # "authorized_auto",
         app'[a].status \notin Sent, app[a].status = "none" \/ app'[a].status # "none"
  PROVE  AppKept(a)
BY Zenon DEF AppKept, Ungranted

\* A step that archives nothing keeps the jobs.
LEMMA JobsSame ==
  ASSUME Inductive, desk' = desk \/ desk' = None, \A a \in Apps : job'[a].archived => job[a].archived
  PROVE  JobsKept
BY Zenon DEF JobsKept, JobKept, DeskKept

\* A step that writes one job archives no other.
LEMMA OneJob ==
  ASSUME Inductive, NEW a \in Apps, NEW j, job' = [job EXCEPT ![a] = j], j.archived => job[a].archived
  PROVE  \A b \in Apps : job'[b].archived => job[b].archived
<1>1. job \in [Apps -> Job]
  BY Zenon DEF Inductive, TypeOK
<1> QED
  BY <1>1, Zenon

\* abortApplyingJob archives nothing.
LEMMA AbortedJobsShape ==
  ASSUME TypeOK, NEW S
  PROVE  /\ AbortedJobs(S) \in [Apps -> Job]
         /\ \A a \in Apps : AbortedJobs(S)[a].archived = job[a].archived
<1>1. \A a \in Apps : job[a] \in Job
  BY Zenon DEF TypeOK
<1> QED
  BY <1>1, AbortedJobsType, Zenon DEF AbortedJobs, Job

\* What an application is that gives its authorization up.
LEMMA ReleasedShape ==
  ASSUME NEW m \in Application, NEW s
  PROVE  /\ Released(m, s).auth = None /\ Released(m, s).granted = FALSE
         /\ Released(m, s).mode = "assisted" /\ Released(m, s).status = s
BY Zenon DEF Released, InMode, Application

\* What an application is that is put in another mode.
LEMMA InModeShape ==
  ASSUME NEW m \in Application, NEW mode
  PROVE  /\ InMode(m, mode).auth = None /\ InMode(m, mode).granted = FALSE
         /\ InMode(m, mode).mode = mode /\ InMode(m, mode).status = m.status
BY Zenon DEF InMode, Application

(***************************************************************************)
(* The end of an execution (a failure, a cancelled confirmation, the day's *)
(* limit) takes the row, the application and its columns together.         *)
(***************************************************************************)
LEMMA EndExecutionKept ==
  ASSUME Inductive, NEW a \in Apps, NEW s \in ModeChange, app[a].status \notin Sent,
         EndExecution(a, s), enabled' = enabled, desk' = desk
  PROVE  KeptStep
<1>1. RowsKept /\ Gone(a)
  BY RevokedRowsKept, Zenon DEF EndExecution
<1>2. app'[a] = Released(app[a], s)
  BY Zenon DEF EndExecution, Inductive, TypeOK
<1>3. app[a] \in Application
  BY Zenon DEF Inductive, TypeOK
<1>4. s \notin Sent /\ s # "none"
  BY Zenon DEF Sent, ModeChange
<1>7. /\ Released(app[a], s).auth = None /\ Released(app[a], s).granted = FALSE
      /\ Released(app[a], s).mode = "assisted" /\ Released(app[a], s).status = s
  BY <1>3, ReleasedShape, Zenon
<1>8. /\ app'[a].auth = None /\ app'[a].granted = FALSE
      /\ app'[a].mode = "assisted" /\ app'[a].status = s
  BY <1>2, <1>7
<1>9. app'[a].mode # "authorized_auto"
  BY <1>8, Zenon
<1>5. AppKept(a)
  BY <1>1, <1>4, <1>8, <1>9, GrantDropped, Zenon
<1>6. AppsKept
  BY <1>5, OneApp, Zenon DEF EndExecution
<1>10. JobsKept
  BY AbortedJobsShape, JobsSame, Zenon DEF EndExecution, Inductive
<1> QED
  BY <1>1, <1>6, <1>10 DEF KeptStep

\* withdrawPendingAuthorizations does the same to an application that waits.
LEMMA WithdrawPendingKept ==
  ASSUME Inductive, NEW a \in Apps, WithdrawPending(a), enabled' = enabled
  PROVE  /\ RowsKept /\ AppsKept
         /\ app[a].status \notin {"in_progress", "awaiting_final_confirmation"} => Gone(a)
<1>1. app[a] \in Application /\ app'[a] = Withdrawn(app[a])
  BY Zenon DEF Inductive, TypeOK, WithdrawPending
<1>2. CASE app[a].status \in ModeChange
  <2>1. RowsKept /\ Gone(a)
    BY <1>2, RevokedRowsKept, Zenon DEF WithdrawPending
  <2>2. app'[a] = [InMode(app[a], ByUser(app[a].mode)) EXCEPT !.claimedBy = None]
    BY <1>1, <1>2, Zenon DEF Withdrawn
  <2>3. InMode(app[a], ByUser(app[a].mode)) \in Application
    BY <1>1, ByUserType, InModeType, Zenon DEF Application
  <2> DEFINE n == InMode(app[a], ByUser(app[a].mode))
  <2>8. n.auth = None /\ n.granted = FALSE /\ n.mode = ByUser(app[a].mode) /\ n.status = app[a].status
    BY <1>1, InModeShape, Zenon
  <2>9. n \in Application /\ app'[a] = [n EXCEPT !.claimedBy = None]
    BY <2>2, <2>3
  <2> HIDE DEF n
  <2>4. /\ app'[a].auth = None /\ app'[a].granted = FALSE
        /\ app'[a].mode = ByUser(app[a].mode) /\ app'[a].status = app[a].status
    BY <2>8, <2>9, Zenon DEF Application
  <2>5. ByUser(app[a].mode) # "authorized_auto"
    BY Zenon DEF ByUser
  <2>6. app[a].status \notin Sent /\ app[a].status # "none"
    BY <1>2, Zenon DEF Sent, ModeChange
  <2>7. AppKept(a)
    BY <2>1, <2>4, <2>5, <2>6, GrantDropped, Zenon
  <2> QED
    BY <2>1, <2>7, OneApp, Zenon DEF WithdrawPending
<1>3. CASE app[a].status \notin ModeChange
  <2>1. auth' = auth
    BY <1>3, Zenon DEF WithdrawPending
  <2>2. app'[a] = app[a]
    BY <1>1, <1>3, Zenon DEF Withdrawn
  <2>3. AppsKept
    BY <2>2, OneApp, Zenon DEF WithdrawPending, AppKept, SameGrant
  <2>4. ASSUME app[a].status \notin {"in_progress", "awaiting_final_confirmation"} PROVE Gone(a)
    <3>1. app[a].status \in Sent \cup {"none"}
      BY <1>1, <1>3, <2>4, Zenon DEF Application, ApplicationStatus, Locked, ApplicationStatus
    <3> QED
      BY <2>1, <3>1, LiveFacts, Zenon DEF Gone
  <2> QED
    BY <2>1, <2>3, <2>4, RowsUnchanged
<1> QED
  BY <1>2, <1>3

-----------------------------------------------------------------------------
(* The steps of the system *)

\* advanceJobTo and markJobApplied archive nothing.
LEMMA AdvancedJobShape ==
  ASSUME NEW j \in Job, NEW t
  PROVE  AdvancedJob(j, t).archived = j.archived /\ AppliedJob(j).archived = j.archived
BY Zenon DEF AdvancedJob, AppliedJob, Job

\* A job that walks forward is kept.
LEMMA WalkedJob ==
  ASSUME Inductive, desk' = desk, NEW a \in Apps, NEW t, job' = [job EXCEPT ![a] = AdvancedJob(job[a], t)]
  PROVE  JobsKept
<1>1. job[a] \in Job
  BY Zenon DEF Inductive, TypeOK
<1>2. AdvancedJob(job[a], t).archived = job[a].archived
  BY <1>1, AdvancedJobShape, Zenon
<1>3. \A b \in Apps : job'[b].archived => job[b].archived
  BY <1>2, OneJob, Zenon
<1> QED
  BY <1>3, JobsSame

\* So is one marked as applied.
LEMMA MarkedJob ==
  ASSUME Inductive, desk' = desk, NEW a \in Apps, NEW m, NEW rows, MarkApplied(a, m, rows)
  PROVE  JobsKept
<1>1. job[a] \in Job
  BY Zenon DEF Inductive, TypeOK
<1>2. AppliedJob(job[a]).archived = job[a].archived
  BY <1>1, AdvancedJobShape, Zenon
<1>4. job' = [job EXCEPT ![a] = AppliedJob(job[a])]
  BY Zenon DEF MarkApplied
<1>3. \A b \in Apps : job'[b].archived => job[b].archived
  BY <1>2, <1>4, OneJob, Zenon
<1> QED
  BY <1>3, JobsSame

\* An application that points at a row points at its own.
LEMMA OwnRow ==
  ASSUME Inductive, NEW a \in Apps, app[a].auth # None
  PROVE  app[a].auth \in AuthIds /\ auth[app[a].auth].app = a
BY Zenon DEF Inductive, TypeOK, Application, Ownership, PointsAtOwnRow

\* The user's routes of the panel.
LEMMA UserStepKept ==
  ASSUME Inductive, NEW a \in Apps, UserStep(a)
  PROVE  KeptStep
<1> USE DEF KeptStep
<1>1. app[a] \in Application /\ app \in [Apps -> Application] /\ TypeOK
  BY Zenon DEF Inductive, TypeOK
<1>2. ASSUME NEW mode \in {"assisted", "manual"}, CreateApplication(a, mode)
      PROVE  KeptStep
  <2> DEFINE m == [NoApplication EXCEPT !.status = "queued", !.mode = mode]
  <2>1. /\ app' = [app EXCEPT ![a] = m] /\ auth' = auth /\ enabled' = enabled /\ desk' = desk
        /\ job' = [job EXCEPT ![a] = AdvancedJob(job[a], "ready_to_apply")]
        /\ app[a].status = "none"
    BY <1>2, Zenon DEF CreateApplication, Walk, settings, processes
  <2>2. m.auth = None /\ m.granted = FALSE /\ m.mode = mode /\ m.status = "queued"
    BY Zenon DEF NoApplication
  <2> HIDE DEF m
  <2>3. app'[a] = m
    BY <1>1, <2>1, Zenon
  <2>4. Gone(a)
    BY <2>1, LiveFacts, Zenon DEF Gone
  <2>5. app[a].status \notin Sent /\ m.status \notin Sent /\ m.mode # "authorized_auto"
    BY <2>1, <2>2, Zenon DEF Sent
  <2>6. AppKept(a)
    BY <2>1, <2>2, <2>3, <2>4, <2>5, GrantDropped
  <2>7. AppsKept
    BY <2>1, <2>6, OneApp
  <2> QED
    BY <2>1, <2>7, RowsUnchanged, WalkedJob
<1>3. CASE AuthorizeRead(a)
  <2>1. auth' = auth /\ app' = app /\ job' = job /\ enabled' = enabled
    BY <1>3, Zenon DEF AuthorizeRead, panelVars, settings
  <2>2. desk'.app = a /\ ~job[a].archived
    BY <1>3, Zenon DEF AuthorizeRead
  <2>3. JobsKept
    BY <2>1, <2>2, Zenon DEF JobsKept, JobKept, DeskKept
  <2> QED
    BY <2>1, <2>3, RowsUnchanged, AppsUnchanged
<1>4. CASE Revoke(a)
  <2>1. /\ auth' = RevokedRows({a}) /\ job' = job /\ enabled' = enabled /\ desk' = desk
        /\ app' = [app EXCEPT ![a] = InMode(app[a], "assisted")] /\ app[a].status \in ModeChange
    BY <1>4, Zenon DEF Revoke, settings, processes
  <2>2. RowsKept /\ Gone(a)
    BY <2>1, RevokedRowsKept, Zenon
  <2>3. app'[a] = InMode(app[a], "assisted")
    BY <1>1, <2>1, Zenon
  <2>4. /\ app'[a].auth = None /\ app'[a].granted = FALSE
        /\ app'[a].mode = "assisted" /\ app'[a].status = app[a].status
    <3>1. /\ InMode(app[a], "assisted").auth = None /\ InMode(app[a], "assisted").granted = FALSE
          /\ InMode(app[a], "assisted").mode = "assisted"
          /\ InMode(app[a], "assisted").status = app[a].status
      BY <1>1, InModeShape, Zenon
    <3> QED
      BY <2>3, <3>1
  <2>5. app[a].status \notin Sent /\ app[a].status # "none" /\ app'[a].mode # "authorized_auto"
    BY <2>1, <2>4, Zenon DEF Sent, ModeChange
  <2>6. AppKept(a)
    BY <2>2, <2>4, <2>5, GrantDropped
  <2>7. AppsKept
    BY <2>1, <2>6, OneApp
  <2> QED
    BY <2>1, <2>2, <2>7, JobsSame
<1>5. CASE SelectManual(a)
  <2>1. /\ auth' = RevokedRows({a}) /\ job' = job /\ enabled' = enabled /\ desk' = desk
        /\ app' = [app EXCEPT ![a] = ByHand(app[a])] /\ app[a].status \in ModeChange
    BY <1>5, Zenon DEF SelectManual, settings, processes
  <2>2. RowsKept /\ Gone(a)
    BY <2>1, RevokedRowsKept, Zenon
  <2>3. app'[a] = ByHand(app[a])
    BY <1>1, <2>1, Zenon
  <2> DEFINE n == InMode(app[a], "manual")
  <2>8. n \in Application
    BY <1>1, InModeType, Zenon DEF Mode
  <2>9. n.auth = None /\ n.granted = FALSE /\ n.mode = "manual" /\ n.status = app[a].status
    BY <1>1, InModeShape
  <2>10. app'[a] = [n EXCEPT !.status = Restarted(n.status, "queued")]
    BY <2>3 DEF ByHand
  <2> HIDE DEF n
  <2>4. /\ app'[a].auth = None /\ app'[a].granted = FALSE
        /\ app'[a].mode = "manual" /\ app'[a].status = Restarted(app[a].status, "queued")
    BY <2>8, <2>9, <2>10, Zenon DEF Application
  <2>11. Restarted(app[a].status, "queued") \in ModeChange
    BY <2>1, Zenon DEF ModeChange, Restarted
  <2>5. /\ app[a].status \notin Sent /\ app'[a].mode # "authorized_auto"
        /\ app'[a].status # "none" /\ app'[a].status \notin Sent
    BY <2>1, <2>4, <2>11, Zenon DEF Sent, ModeChange
  <2>6. AppKept(a)
    BY <2>2, <2>4, <2>5, GrantDropped
  <2>7. AppsKept
    BY <2>1, <2>6, OneApp
  <2> QED
    BY <2>1, <2>2, <2>7, JobsSame
<1>6. CASE SendToReview(a)
  <2>1. /\ auth' = auth /\ job' = job /\ enabled' = enabled /\ desk' = desk
        /\ app' = [app EXCEPT ![a] = [app[a] EXCEPT !.status = "needs_review"]]
        /\ app[a].status \in {"queued", "in_progress", "failed"}
    BY <1>6, Zenon DEF SendToReview, settings, processes
  <2>2. app'[a] = [app[a] EXCEPT !.status = "needs_review"]
    BY <1>1, <2>1, Zenon
  <2>3. app[a].status \notin Sent /\ "needs_review" \notin Sent \cup {"none"}
    BY <2>1, Zenon DEF Sent
  <2>4. AppKept(a)
    BY <2>2, <2>3, StatusMoves, Zenon
  <2>5. AppsKept
    BY <2>1, <2>4, OneApp
  <2> QED
    BY <2>1, <2>5, RowsUnchanged, JobsSame
<1>7. CASE ReportSubmission(a)
  <2> DEFINE m == [app[a] EXCEPT !.status = "submitted"]
  <2>1. /\ auth' = auth /\ enabled' = enabled /\ desk' = desk
        /\ app' = [app EXCEPT ![a] = m] /\ MarkApplied(a, m, auth) /\ app[a].mode = "manual"
    BY <1>7, Zenon DEF ReportSubmission, settings, processes
  <2>2. Gone(a)
    BY <2>1, LiveFacts, Zenon DEF Gone
  <2>3. app'[a] = m
    BY <1>1, <2>1, Zenon
  <2>4. SameGrant(a) /\ app'[a].status = "submitted"
    BY <1>1, <2>3, Zenon DEF SameGrant, Application
  <2>5. AppKept(a)
    BY <2>2, <2>4, Zenon DEF AppKept, Sent
  <2> HIDE DEF m
  <2>6. AppsKept
    BY <2>1, <2>5, OneApp
  <2> QED
    BY <2>1, <2>6, RowsUnchanged, MarkedJob
<1>8. ASSUME NEW outcome \in {"accepted", "rejected"}, ReportOutcome(a, outcome)
      PROVE  KeptStep
  <2> DEFINE m == [app[a] EXCEPT !.status = outcome]
  <2>1. /\ auth' = auth /\ enabled' = enabled /\ desk' = desk
        /\ app' = [app EXCEPT ![a] = m] /\ MarkApplied(a, m, auth) /\ app[a].status = "submitted"
    BY <1>8, Zenon DEF ReportOutcome, settings, processes
  <2>3. app'[a] = m
    BY <1>1, <2>1, Zenon
  <2>4. SameGrant(a) /\ app'[a].status = outcome
    BY <1>1, <2>3, Zenon DEF SameGrant, Application
  <2>5. AppKept(a)
    BY <2>1, <2>4, Zenon DEF AppKept, Sent
  <2> HIDE DEF m
  <2>6. AppsKept
    BY <2>1, <2>5, OneApp
  <2> QED
    BY <2>1, <2>6, RowsUnchanged, MarkedJob
<1>9. CASE ConfirmFinal(a)
  <2> DEFINE x == app[a].auth
             r == [Renewed(auth[x]) EXCEPT !.confirmed = auth[x].shot]
  <2>1. /\ auth' = WithRow(x, r) /\ job' = job /\ enabled' = enabled /\ desk' = desk
        /\ app' = [app EXCEPT ![a] = [app[a] EXCEPT !.status = "in_progress"]]
        /\ app[a].status = "awaiting_final_confirmation"
        /\ x # None /\ auth[x].state = "claimed" /\ auth[x].requested
        /\ auth[x].confirmed = 0 /\ ~auth[x].paused
    BY <1>9, Zenon DEF ConfirmFinal, Current, settings, processes
  <2>2. x \in AuthIds
    BY <2>1, OwnRow
  <2>3. auth[x] \in Authorization /\ auth \in [AuthIds -> Authorization]
    BY <1>1, <2>2, Zenon DEF TypeOK
  <2>4. /\ r.state = auth[x].state /\ r.app = auth[x].app /\ r.paused = auth[x].paused
        /\ r.requested = auth[x].requested /\ r.shot = auth[x].shot /\ r.token = auth[x].token
        /\ r.confirmed = auth[x].shot
    BY <2>3, Zenon DEF Renewed, Authorization
  <2>5. Gated(auth[x], enabled)
    BY <2>2, RowsAreGated, Zenon
  <2> HIDE DEF r
  <2>6. Gated(r, enabled)
    <3>1. r.token = 0
      BY <2>1, <2>4, <2>5, Zenon DEF Gated
    <3> QED
      BY <2>1, <2>4, <2>5, <3>1, Zenon DEF Gated
  <2>7. auth'[x] = r
    BY <2>1, <2>2, <2>3, Zenon DEF WithRow
  <2>8. RowKept(x)
    BY <2>4, <2>7, Zenon DEF RowKept
  <2>9. RowsKept
    BY <2>1, <2>6, <2>8, OneRow
  <2>10. app'[a] = [app[a] EXCEPT !.status = "in_progress"]
    BY <1>1, <2>1, Zenon
  <2>11. app[a].status \notin Sent /\ "in_progress" \notin Sent \cup {"none"}
    BY <2>1, Zenon DEF Sent
  <2>12. AppKept(a)
    BY <2>10, <2>11, StatusMoves, Zenon
  <2>13. AppsKept
    BY <2>1, <2>12, OneApp
  <2> QED
    BY <2>1, <2>9, <2>13, JobsSame
<1>10. CASE CancelFinal(a)
  <2>1. /\ EndExecution(a, "needs_review") /\ enabled' = enabled /\ desk' = desk
        /\ app[a].status \in {"awaiting_final_confirmation", "in_progress", "needs_review"}
    BY <1>10, Zenon DEF CancelFinal, settings, processes
  <2>2. app[a].status \notin Sent /\ "needs_review" \in ModeChange
    BY <2>1, Zenon DEF Sent, ModeChange
  <2> QED
    BY <2>1, <2>2, EndExecutionKept
<1> QED
  BY <1>2, <1>3, <1>4, <1>5, <1>6, <1>7, <1>8, <1>9, <1>10, Zenon DEF UserStep

\* What the executor's routes know of the row they found (claimedAuthorizationFor).
LEMMA HeldRow ==
  ASSUME Inductive, NEW a \in Apps, NEW w, HeldBy(a, w)
  PROVE  /\ app[a].auth # None /\ app[a].auth \in AuthIds /\ auth[app[a].auth].app = a
         /\ auth[app[a].auth].state = "claimed" /\ auth[app[a].auth] \in Authorization
         /\ Gated(auth[app[a].auth], enabled)
<1>1. app[a].auth # None /\ auth[app[a].auth].state = "claimed"
  BY Zenon DEF HeldBy, Current
<1>2. app[a].auth \in AuthIds /\ auth[app[a].auth].app = a
  BY <1>1, OwnRow
<1>3. auth[app[a].auth] \in Authorization
  BY <1>2, Zenon DEF Inductive, TypeOK
<1> QED
  BY <1>1, <1>2, <1>3, RowsAreGated, Zenon

\* The executor's routes.  Submit is the one step that consumes a row.
LEMMA ExecutorStepKept ==
  ASSUME Inductive, NEW a \in Apps, NEW w \in alive, ExecutorStep(a, w)
  PROVE  KeptStep
<1> USE DEF KeptStep
<1> DEFINE x == app[a].auth
<1>1. /\ app[a] \in Application /\ app \in [Apps -> Application]
      /\ auth \in [AuthIds -> Authorization] /\ TypeOK
  BY Zenon DEF Inductive, TypeOK
<1>2. CASE Claim(a, w)
  <2> DEFINE r == [auth[x] EXCEPT !.state = "claimed", !.claimedBy = w, !.leaseOver = FALSE]
             m == [app[a] EXCEPT !.status = "in_progress", !.claimedBy = w]
  <2>1. /\ auth' = WithRow(x, r) /\ enabled /\ enabled' = enabled /\ desk' = desk
        /\ app' = [app EXCEPT ![a] = m]
        /\ job' = [job EXCEPT ![a] = AdvancedJob(job[a], "applying")]
        /\ app[a].status \in {"queued", "needs_review"}
        /\ x # None /\ auth[x].state = "issued"
    BY <1>2, Zenon DEF Claim, Current, Walk, settings, processes
  <2>2. x \in AuthIds /\ auth[x] \in Authorization
    BY <1>1, <2>1, OwnRow, Zenon
  <2>3. /\ r.state = "claimed" /\ r.app = auth[x].app /\ r.paused = auth[x].paused
        /\ r.requested = auth[x].requested /\ r.shot = auth[x].shot /\ r.token = auth[x].token
        /\ r.confirmed = auth[x].confirmed
    BY <2>2, Zenon DEF Authorization
  <2>4. app'[a] = m
    BY <1>1, <2>1, Zenon
  <2>5. /\ app'[a].status = "in_progress" /\ SameGrant(a)
    BY <1>1, <2>4, Zenon DEF SameGrant, Application
  <2> HIDE DEF r, m
  <2>6. Gated(auth[x], enabled)
    BY <2>2, RowsAreGated, Zenon
  <2>7. Blank(auth[x])
    BY <2>1, <2>6, Zenon DEF Gated, Blank
  <2>8. Gated(r, enabled)
    BY <2>1, <2>3, <2>7, Zenon DEF Gated, Blank
  <2>9. auth'[x] = r
    BY <1>1, <2>1, <2>2, Zenon DEF WithRow
  <2>10. RowKept(x)
    BY <2>1, <2>3, <2>9, Zenon DEF RowKept, Live
  <2>11. RowsKept
    BY <2>1, <2>8, <2>10, OneRow
  <2>12. AppKept(a)
    BY <2>1, <2>5, Zenon DEF AppKept, Sent
  <2>13. AppsKept
    BY <2>1, <2>12, OneApp
  <2> QED
    BY <2>1, <2>11, <2>13, WalkedJob
<1>3. CASE Heartbeat(a, w)
  <2>1. /\ auth' = WithRow(x, Renewed(auth[x])) /\ app' = app /\ job' = job
        /\ enabled' = enabled /\ desk' = desk
    BY <1>3, Zenon DEF Heartbeat, settings, processes
  <2> QED
    BY <2>1, RenewedRow, AppsUnchanged, JobsSame
<1>4. CASE RequestFinal(a, w)
  <2>1. /\ enabled /\ enabled' = enabled /\ desk' = desk /\ ~auth[x].paused
        /\ app[a].status \in {"in_progress", "awaiting_final_confirmation"}
    BY <1>4, Zenon DEF RequestFinal, settings, processes
  <2>2. app[a].status \notin Sent /\ "needs_review" \in ModeChange
    BY <2>1, Zenon DEF Sent, ModeChange
  <2>3. CASE EndExecution(a, "needs_review")
    BY <2>1, <2>2, <2>3, EndExecutionKept
  <2>4. CASE ~EndExecution(a, "needs_review")
    <3> DEFINE n == Renewed(auth[x])
               r == [n EXCEPT !.requested = TRUE, !.shot = n.shot + 1,
                              !.confirmed = 0, !.token = 0]
    <3>1. /\ auth' = WithRow(x, r) /\ job' = job
          /\ app' = [app EXCEPT ![a] = [app[a] EXCEPT !.status = "awaiting_final_confirmation"]]
      BY <1>4, <2>4, Zenon DEF RequestFinal
    <3>2. x \in AuthIds /\ auth[x].state = "claimed" /\ auth[x] \in Authorization
      BY <1>4, HeldRow, Zenon DEF RequestFinal
    <3>3. n \in Authorization /\ SameRow(auth[x], n)
      BY <3>2, RenewedType, SameRowShapes, Zenon
    <3> HIDE DEF n
    <3>4. /\ r.state = n.state /\ r.app = n.app /\ r.paused = n.paused
          /\ r.requested = TRUE /\ r.confirmed = 0 /\ r.token = 0
      BY <3>3, Zenon DEF Authorization
    <3> HIDE DEF r
    <3>5. r.state = "claimed" /\ r.app = auth[x].app /\ ~r.paused
      BY <2>1, <3>2, <3>3, <3>4, Zenon DEF SameRow
    <3>6. Gated(r, enabled)
      BY <2>1, <3>4, <3>5, Zenon DEF Gated
    <3>7. auth'[x] = r
      BY <1>1, <3>1, <3>2, Zenon DEF WithRow
    <3>8. RowKept(x)
      BY <3>2, <3>5, <3>7, Zenon DEF RowKept
    <3>9. RowsKept
      BY <2>1, <3>1, <3>6, <3>8, OneRow
    <3>10. app'[a] = [app[a] EXCEPT !.status = "awaiting_final_confirmation"]
      BY <1>1, <3>1, Zenon
    <3>11. "awaiting_final_confirmation" \notin Sent \cup {"none"}
      BY Zenon DEF Sent
    <3>12. AppKept(a)
      BY <2>2, <3>10, <3>11, StatusMoves, Zenon
    <3>13. AppsKept
      BY <3>1, <3>12, OneApp
    <3> QED
      BY <2>1, <3>1, <3>9, <3>13, JobsSame
  <2> QED
    BY <2>3, <2>4
<1>5. CASE Poll(a, w)
  <2>1. app' = app /\ job' = job /\ enabled' = enabled /\ desk' = desk
    BY <1>5, Zenon DEF Poll, settings, processes
  <2>2. CASE auth' = WithRow(x, Renewed(auth[x]))
    BY <2>1, <2>2, RenewedRow, AppsUnchanged, JobsSame
  <2>3. CASE auth' # WithRow(x, Renewed(auth[x]))
    <3> DEFINE n == Renewed(auth[x])
               r == [n EXCEPT !.token = auth[x].confirmed, !.given = n.given \cup {auth[x].confirmed}]
    <3>1. /\ auth' = WithRow(x, r) /\ ~auth[x].paused /\ auth[x].requested /\ auth[x].confirmed # 0
      BY <1>5, <2>3, Zenon DEF Poll
    <3>2. /\ x \in AuthIds /\ auth[x].state = "claimed" /\ auth[x] \in Authorization
          /\ Gated(auth[x], enabled)
      BY <1>5, HeldRow, Zenon DEF Poll
    <3>3. n \in Authorization /\ SameRow(auth[x], n)
      BY <3>2, RenewedType, SameRowShapes, Zenon
    <3> HIDE DEF n
    <3>4. /\ r.state = n.state /\ r.app = n.app /\ r.paused = n.paused /\ r.shot = n.shot
          /\ r.requested = n.requested /\ r.confirmed = n.confirmed /\ r.token = auth[x].confirmed
      BY <3>3, Zenon DEF Authorization
    <3> HIDE DEF r
    <3>5. /\ r.state = "claimed" /\ r.app = auth[x].app /\ ~r.paused /\ r.requested
          /\ r.shot = auth[x].shot /\ r.confirmed = auth[x].confirmed
          /\ r.token = auth[x].confirmed
      BY <3>1, <3>2, <3>3, <3>4, Zenon DEF SameRow
    <3>6. Gated(r, enabled)
      BY <3>1, <3>2, <3>5, Zenon DEF Gated
    <3>7. auth'[x] = r
      BY <1>1, <3>1, <3>2, Zenon DEF WithRow
    <3>8. RowKept(x)
      BY <3>2, <3>5, <3>7, Zenon DEF RowKept
    <3>9. RowsKept
      BY <2>1, <3>1, <3>6, <3>8, OneRow
    <3> QED
      BY <2>1, <3>9, AppsUnchanged, JobsSame
  <2> QED
    BY <2>2, <2>3
<1>6. CASE Submit(a, w)
  <2> DEFINE r == Closed(auth[x], "consumed")
             m == [app[a] EXCEPT !.status = "submitted"]
  <2>1. /\ enabled /\ enabled' = enabled /\ desk' = desk /\ resume' = resume
        /\ app[a].status = "in_progress" /\ HeldBy(a, w)
        /\ auth[x].confirmed # 0 /\ auth[x].token # 0 /\ auth[x].token \in auth[x].given
    BY <1>6, Zenon DEF Submit, settings, processes
  <2>2. app[a].status \notin Sent /\ "needs_review" \in ModeChange
    BY <2>1, Zenon DEF Sent, ModeChange
  <2>3. CASE EndExecution(a, "needs_review")
    BY <2>1, <2>2, <2>3, EndExecutionKept
  <2>4. CASE ~EndExecution(a, "needs_review")
    <3>1. /\ auth' = WithRow(x, r) /\ app' = [app EXCEPT ![a] = m]
          /\ MarkApplied(a, m, WithRow(x, r))
      BY <1>6, <2>4, Zenon DEF Submit
    <3>2. /\ x # None /\ x \in AuthIds /\ auth[x].app = a /\ auth[x].state = "claimed"
          /\ Gated(auth[x], enabled)
      BY <2>1, HeldRow, Zenon
    <3>3. /\ resume[a].status = "approved" /\ resume[a].version = auth[x].version
          /\ job[a].decision = "interested" /\ job[a].url = auth[x].url
      BY <2>1, Zenon DEF HeldBy, Current, GrantHolds
    <3>4. ~job[a].archived
      BY <3>2, LiveFacts, Zenon DEF Live
    <3>5. /\ auth[x].requested /\ auth[x].confirmed = auth[x].shot
          /\ auth[x].token = auth[x].shot
      BY <2>1, <3>2, Zenon DEF Gated
    <3>6. "consumed" \in {"consumed", "revoked", "expired"}
      OBVIOUS
    <3>7. r.state = "consumed" /\ r.app = auth[x].app /\ Blank(r)
      BY <3>6, ClosedShape, Zenon
    <3>8. app'[a] = m
      BY <1>1, <3>1, Zenon
    <3>9. app'[a].status = "submitted" /\ SameGrant(a)
      BY <1>1, <3>8, Zenon DEF SameGrant, Application
    <3> HIDE DEF r, m
    <3>10. auth'[x] = r
      BY <1>1, <3>1, <3>2, Zenon DEF WithRow
    <3>11. Submitted(x)
      BY <2>1, <3>2, <3>3, <3>4, <3>5, <3>7, <3>9, <3>10, Zenon DEF Submitted, SameGrant, Sent
    <3>12. Gated(r, enabled)
      BY <3>7, GatedBlank, Zenon
    <3>13. RowsKept
      BY <2>1, <3>1, <3>11, <3>12, OneRow, Zenon DEF RowKept
    <3>14. Gone(a)
      <4> SUFFICES ASSUME NEW y \in AuthIds, auth[y].app = a, auth'[y].state \in Live
                   PROVE  FALSE
        BY Zenon DEF Gone
      <4>1. y # x
        BY <3>7, <3>10, Zenon DEF Live
      <4>2. auth'[y] = auth[y]
        BY <1>1, <3>1, <4>1, Zenon DEF WithRow
      <4>3. app[a].auth = y
        BY <4>2, LiveFacts, Zenon
      <4> QED
        BY <4>1, <4>3
    <3>15. AppKept(a)
      BY <2>2, <3>9, <3>14, Zenon DEF AppKept, Sent
    <3>16. AppsKept
      BY <3>1, <3>15, OneApp
    <3> QED
      BY <2>1, <3>1, <3>13, <3>16, MarkedJob
  <2> QED
    BY <2>3, <2>4
<1>7. CASE Fail(a, w)
  <2>1. /\ EndExecution(a, "failed") /\ enabled' = enabled /\ desk' = desk
        /\ app[a].status \in {"in_progress", "needs_review", "awaiting_final_confirmation"}
    BY <1>7, Zenon DEF Fail, settings, processes
  <2>2. app[a].status \notin Sent /\ "failed" \in ModeChange
    BY <2>1, Zenon DEF Sent, ModeChange
  <2> QED
    BY <2>1, <2>2, EndExecutionKept
<1> QED
  BY <1>2, <1>3, <1>4, <1>5, <1>6, <1>7, Zenon DEF ExecutorStep

(***************************************************************************)
(* The steps of the questions, whose answers revoke whatever the           *)
(* application's status is.                                                *)
(***************************************************************************)
LEMMA QuestionStepKept ==
  ASSUME Inductive, NEW q \in Questions, QuestionStep(q)
  PROVE  KeptStep
<1> USE DEF KeptStep
<1>1. /\ app \in [Apps -> Application] /\ auth \in [AuthIds -> Authorization] /\ TypeOK
      /\ question[q] \in Question
  BY Zenon DEF Inductive, TypeOK
<1>2. ASSUME NEW a \in Apps, CreateQuestion(a, q)
      PROVE  KeptStep
  <2>1. /\ auth' = auth /\ job' = job /\ enabled' = enabled /\ desk' = desk
        /\ app' = [app EXCEPT ![a] = [app[a] EXCEPT !.status = "needs_review"]]
        /\ app[a].status = "in_progress"
    BY <1>2, Zenon DEF CreateQuestion, settings, processes
  <2>2. app'[a] = [app[a] EXCEPT !.status = "needs_review"]
    BY <1>1, <2>1, Zenon
  <2>3. app[a].status \notin Sent /\ "needs_review" \notin Sent \cup {"none"}
    BY <2>1, Zenon DEF Sent
  <2>4. AppKept(a)
    BY <2>2, <2>3, StatusMoves, Zenon
  <2>5. AppsKept
    BY <2>1, <2>4, OneApp
  <2> QED
    BY <2>1, <2>5, RowsUnchanged, JobsSame
<1>3. ASSUME NEW outcome, MarkDelivery(q, outcome)
      PROVE  KeptStep
  <2>1. auth' = auth /\ app' = app /\ job' = job /\ enabled' = enabled /\ desk' = desk
    BY <1>3, Zenon DEF MarkDelivery, settings, processes
  <2> QED
    BY <2>1, RowsUnchanged, AppsUnchanged, JobsSame
<1>4. ASSUME NEW via, Answer(q, via)
      PROVE  KeptStep
  <2> DEFINE a == question[q].app
             x == app[a].auth
             s == IF app[a].status = "needs_review" THEN "in_progress" ELSE app[a].status
  <2>1. /\ auth' = WithRow(x, Renewed(auth[x])) /\ job' = job
        /\ enabled' = enabled /\ desk' = desk
        /\ app' = [app EXCEPT ![a] = [app[a] EXCEPT !.status = s]]
    BY <1>4, Zenon DEF Answer, settings, processes
  <2>2. ASSUME a \in Apps PROVE AppKept(a)
    <3>1. app'[a] = [app[a] EXCEPT !.status = s]
      BY <1>1, <2>1, <2>2, Zenon
    <3>2. app[a] \in Application
      BY <1>1, <2>2, Zenon
    <3>3. (app[a].status = "needs_review" /\ s = "in_progress") \/ s = app[a].status
      OBVIOUS
    <3> HIDE DEF s, a
    <3>4. app'[a].status = s /\ SameGrant(a)
      BY <3>1, <3>2, Zenon DEF Application, SameGrant
    <3> QED
      BY <3>3, <3>4, Zenon DEF AppKept, Sent
  <2>3. AppsKept
    BY <2>1, <2>2, OneApp
  <2>4. RowsKept
    BY <2>1, RenewedRow
  <2> QED
    BY <2>1, <2>3, <2>4, JobsSame
<1>5. ASSUME NEW via, NEW answer, AnswerEnds(q, via, answer)
      PROVE  KeptStep
  <2> DEFINE a == question[q].app
             ended == IF answer = "stop" THEN Released(app[a], "failed")
                      ELSE [Released(app[a], "queued") EXCEPT !.mode = "manual"]
             m == IF app[a].status = "needs_review" THEN ended ELSE app[a]
  <2>1. /\ auth' = RevokedRows({a}) /\ job' = AbortedJobs({a})
        /\ enabled' = enabled /\ desk' = desk
        /\ app' = [app EXCEPT ![a] = m]
    BY <1>5, Zenon DEF AnswerEnds, settings, processes
  <2>2. RowsKept /\ Gone(a)
    BY <2>1, RevokedRowsKept, Zenon
  <2>3. ASSUME a \in Apps PROVE AppKept(a)
    <3>1. app'[a] = m /\ app[a] \in Application
      BY <1>1, <2>1, <2>3, Zenon
    <3>2. CASE app[a].status # "needs_review"
      BY <3>1, <3>2, Zenon DEF AppKept, SameGrant
    <3>3. CASE app[a].status = "needs_review"
      <4>1. app'[a] = ended
        BY <3>1, <3>3
      <4>2. /\ ended.auth = None /\ ended.granted = FALSE
            /\ ended.mode \in {"assisted", "manual"} /\ ended.status \in {"failed", "queued"}
        <5>1. CASE answer = "stop"
          BY <5>1, <3>1, ReleasedShape, Zenon
        <5>2. CASE answer # "stop"
          <6> DEFINE n == Released(app[a], "queued")
          <6>1. n \in Application
            BY <3>1, ReleasedType, Zenon DEF ApplicationStatus, ModeChange
          <6>2. n.auth = None /\ n.granted = FALSE /\ n.status = "queued"
            BY <3>1, ReleasedShape, Zenon
          <6>3. ended = [n EXCEPT !.mode = "manual"]
            BY <5>2
          <6> HIDE DEF n, ended
          <6> QED
            BY <6>1, <6>2, <6>3, Zenon DEF Application
        <5> QED
          BY <5>1, <5>2
      <4> HIDE DEF ended, m
      <4>3. /\ app[a].status \notin Sent /\ app'[a].status \notin Sent
            /\ app'[a].status # "none" /\ app'[a].mode # "authorized_auto"
        BY <3>3, <4>1, <4>2, Zenon DEF Sent
      <4> QED
        BY <2>2, <2>3, <4>1, <4>2, <4>3, GrantDropped
    <3> QED
      BY <3>2, <3>3
  <2> HIDE DEF m
  <2>4. AppsKept
    BY <2>1, <2>3, OneApp
  <2>5. JobsKept
    BY <1>1, <2>1, AbortedJobsShape, JobsSame, Zenon
  <2> QED
    BY <2>2, <2>4, <2>5
<1> QED
  BY <1>2, <1>3, <1>4, <1>5, Zenon DEF QuestionStep

(***************************************************************************)
(* Every claimed row is its application's current one, so that the kill-   *)
(* switch reaches it (pauseAutomaticRuns joins on the current row).        *)
(***************************************************************************)
LEMMA CurrentRowsRun ==
  ASSUME Inductive, NEW x \in AuthIds, auth[x].state = "claimed"
  PROVE  x \in Running
BY LiveFacts, Zenon DEF Running, Live

\* Applications that move between in progress and review.
LEMMA ReviewedApps ==
  ASSUME Inductive, NEW A, NEW s \in {"needs_review", "in_progress"},
         \A a \in Apps : a \in A => app[a].status \notin Sent,
         app' = [a \in Apps |-> IF a \in A THEN [app[a] EXCEPT !.status = s] ELSE app[a]]
  PROVE  AppsKept
<1> SUFFICES ASSUME NEW a \in Apps PROVE AppKept(a)
  BY Zenon DEF AppsKept
<1>1. s \notin Sent \cup {"none"}
  BY Zenon DEF Sent
<1>2. CASE a \in A
  <2>1. app'[a] = [app[a] EXCEPT !.status = s]
    BY <1>2, Zenon
  <2> QED
    BY <1>1, <1>2, <2>1, StatusMoves, Zenon
<1>3. CASE a \notin A
  <2>1. app'[a] = app[a]
    BY <1>3, Zenon
  <2> QED
    BY <2>1, Zenon DEF AppKept, SameGrant
<1> QED
  BY <1>2, <1>3

\* The kill-switch and the limit.
LEMMA SettingsStepKept ==
  ASSUME Inductive, SettingsStep
  PROVE  KeptStep
<1> USE DEF KeptStep
<1>1. app \in [Apps -> Application] /\ auth \in [AuthIds -> Authorization]
  BY Zenon DEF Inductive, TypeOK
<1>2. CASE Pause
  <2>1. /\ enabled /\ enabled' = FALSE /\ job' = job /\ desk' = desk
        /\ auth' = [x \in AuthIds |->
                      IF x \in Running
                      THEN [auth[x] EXCEPT !.paused = TRUE, !.requested = FALSE,
                                           !.confirmed = 0, !.token = 0]
                      ELSE auth[x]]
        /\ app' = [a \in Apps |->
                     IF /\ app[a].auth \in Running
                        /\ app[a].status \in {"in_progress", "awaiting_final_confirmation"}
                     THEN [app[a] EXCEPT !.status = "needs_review"] ELSE app[a]]
    BY <1>2, Zenon DEF Pause, processes
  <2>2. ASSUME NEW x \in AuthIds
        PROVE  RowKept(x) /\ Gated(auth'[x], enabled')
    <3>1. Gated(auth[x], enabled) /\ auth[x] \in Authorization
      BY <1>1, RowsAreGated, Zenon
    <3>2. CASE x \in Running
      <4>1. auth'[x] = [auth[x] EXCEPT !.paused = TRUE, !.requested = FALSE,
                                       !.confirmed = 0, !.token = 0]
        BY <2>1, <3>2, Zenon
      <4>2. /\ auth'[x].state = auth[x].state /\ auth'[x].app = auth[x].app
            /\ auth'[x].paused = TRUE /\ auth'[x].requested = FALSE
            /\ auth'[x].confirmed = 0 /\ auth'[x].token = 0
        BY <3>1, <4>1, Zenon DEF Authorization
      <4>3. auth[x].state = "claimed"
        BY <3>2, Zenon DEF Running
      <4> QED
        BY <2>1, <4>2, <4>3, Zenon DEF RowKept, Gated
    <3>3. CASE x \notin Running
      <4>1. auth'[x] = auth[x]
        BY <2>1, <3>3, Zenon
      <4>2. auth[x].state # "claimed"
        BY <3>3, CurrentRowsRun
      <4> QED
        BY <3>1, <4>1, <4>2, Zenon DEF RowKept, Gated
    <3> QED
      BY <3>2, <3>3
  <2>3. AppsKept
    <3> DEFINE A == {a \in Apps : /\ app[a].auth \in Running
                                  /\ app[a].status \in {"in_progress", "awaiting_final_confirmation"}}
    <3>1. \A a \in Apps : a \in A => app[a].status \notin Sent
      BY Zenon DEF Sent
    <3>2. app' = [a \in Apps |-> IF a \in A THEN [app[a] EXCEPT !.status = "needs_review"] ELSE app[a]]
      BY <2>1, Zenon
    <3> HIDE DEF A
    <3> QED
      BY <3>1, <3>2, ReviewedApps
  <2> QED
    BY <2>1, <2>2, <2>3, JobsSame, Zenon DEF RowsKept
<1>3. CASE ResumeAutomation
  <2> DEFINE paused == {x \in Running : auth[x].paused}
  <2>1. /\ ~enabled /\ enabled' = TRUE /\ job' = job /\ desk' = desk
        /\ auth' = [x \in AuthIds |->
                      IF x \in paused THEN [Renewed(auth[x]) EXCEPT !.paused = FALSE] ELSE auth[x]]
        /\ app' = [a \in Apps |->
                     IF app[a].auth \in paused /\ app[a].status = "needs_review" /\ ~Asked(a)
                     THEN [app[a] EXCEPT !.status = "in_progress"] ELSE app[a]]
    BY <1>3, Zenon DEF ResumeAutomation, processes
  <2>2. ASSUME NEW x \in AuthIds
        PROVE  RowKept(x) /\ Gated(auth'[x], enabled')
    <3>1. Gated(auth[x], enabled) /\ auth[x] \in Authorization
      BY <1>1, RowsAreGated, Zenon
    <3>2. CASE x \in paused
      <4> DEFINE n == Renewed(auth[x])
      <4>1. auth'[x] = [n EXCEPT !.paused = FALSE]
        BY <2>1, <3>2, Zenon
      <4>2. n \in Authorization /\ SameRow(auth[x], n)
        BY <3>1, RenewedType, SameRowShapes, Zenon
      <4> HIDE DEF n
      <4>3. /\ auth'[x].state = n.state /\ auth'[x].app = n.app /\ auth'[x].paused = FALSE
            /\ auth'[x].requested = n.requested /\ auth'[x].shot = n.shot
            /\ auth'[x].confirmed = n.confirmed /\ auth'[x].token = n.token
        BY <4>1, <4>2, Zenon DEF Authorization
      <4>4. auth[x].state = "claimed" /\ auth[x].paused
        BY <3>2, Zenon DEF Running
      <4>5. auth[x].confirmed = 0 /\ auth[x].token = 0 /\ ~auth[x].requested
        BY <3>1, <4>4, Zenon DEF Gated
      <4>6. /\ auth'[x].state = "claimed" /\ auth'[x].app = auth[x].app
            /\ auth'[x].confirmed = 0 /\ auth'[x].token = 0
        BY <4>2, <4>3, <4>4, <4>5, Zenon DEF SameRow
      <4> QED
        BY <2>1, <4>3, <4>4, <4>6, Zenon DEF RowKept, Gated
    <3>3. CASE x \notin paused
      <4>1. auth'[x] = auth[x]
        BY <2>1, <3>3, Zenon
      <4>2. auth[x].state # "claimed"
        BY <2>1, <3>1, <3>3, CurrentRowsRun, Zenon DEF Gated
      <4> QED
        BY <3>1, <4>1, <4>2, Zenon DEF RowKept, Gated
    <3> QED
      BY <3>2, <3>3
  <2>3. AppsKept
    <3> DEFINE A == {a \in Apps : app[a].auth \in paused /\ app[a].status = "needs_review" /\ ~Asked(a)}
    <3>1. \A a \in Apps : a \in A => app[a].status \notin Sent
      BY Zenon DEF Sent
    <3>2. app' = [a \in Apps |-> IF a \in A THEN [app[a] EXCEPT !.status = "in_progress"] ELSE app[a]]
      BY <2>1, Zenon
    <3> HIDE DEF A
    <3> QED
      BY <3>1, <3>2, ReviewedApps
  <2> QED
    BY <2>1, <2>2, <2>3, JobsSame, Zenon DEF RowsKept
<1>4. ASSUME NEW n, SetDailyLimit(n)
      PROVE  KeptStep
  <2>1. auth' = auth /\ app' = app /\ job' = job /\ enabled' = enabled /\ desk' = desk
    BY <1>4, Zenon DEF SetDailyLimit, panelVars, processes
  <2> QED
    BY <2>1, RowsUnchanged, AppsUnchanged, JobsSame
<1> QED
  BY <1>2, <1>3, <1>4, Zenon DEF SettingsStep

\* The transaction of AUTORIZO, on what was read before it.
LEMMA AuthorizeStepKept ==
  ASSUME Inductive, AuthorizeStep
  PROVE  KeptStep
<1> USE DEF KeptStep
<1>1. app \in [Apps -> Application] /\ auth \in [AuthIds -> Authorization]
  BY Zenon DEF Inductive, TypeOK
<1>2. CASE AuthorizeRefused
  <2>1. auth' = auth /\ app' = app /\ job' = job /\ enabled' = enabled /\ desk' = None
    BY <1>2, Zenon DEF AuthorizeRefused, panelVars, settings
  <2> QED
    BY <2>1, RowsUnchanged, AppsUnchanged, JobsSame
<1>3. ASSUME NEW x \in AuthIds, AuthorizeWrite(x)
      PROVE  KeptStep
  <2> DEFINE a == desk.app
             r == [NoAuthorization EXCEPT !.state = "issued", !.app = a,
                                          !.version = desk.version, !.url = desk.url]
  <2>1. /\ desk # None /\ auth[x].state = "none" /\ ~app[a].granted
        /\ app[a].status \in ModeChange /\ app' = [app EXCEPT ![a] = Granted(app[a], x)]
        /\ auth' = WithRow(x, r) /\ desk' = None /\ job' = job /\ enabled' = enabled
    BY <1>3, Zenon DEF AuthorizeWrite, settings
  <2>2. a \in Apps /\ ~job[a].archived
    BY <2>1, Zenon DEF Inductive, TypeOK, Call, Archiving, DeskIsNotArchived
  <2>3. app[a].auth = None /\ app[a] \in Application
    BY <1>1, <2>1, <2>2, Zenon DEF Inductive, Ownership, GrantIsWhole
  <2>4. r.state = "issued" /\ r.app = a /\ Blank(r)
    BY Zenon DEF NoAuthorization, Blank
  <2>5. app'[a] = Granted(app[a], x)
    BY <1>1, <2>1, <2>2, Zenon
  <2>6. /\ app'[a].auth = x /\ app'[a].granted = TRUE /\ app'[a].mode = "authorized_auto"
        /\ app'[a].status = Restarted(app[a].status, "needs_review")
    BY <2>3, <2>5, Zenon DEF Granted, Application
  <2>7. Restarted(app[a].status, "needs_review") \in ModeChange
    BY <2>1, Zenon DEF Restarted, ModeChange
  <2>8. app'[a].status \notin Sent \cup {"none"} /\ app[a].status \notin Sent
    BY <2>1, <2>6, <2>7, Zenon DEF Sent, ModeChange
  <2>9. auth'[x] = r
    BY <1>1, <2>1, Zenon DEF WithRow
  <2> HIDE DEF r, a
  <2>10. Issued(x)
    BY <2>1, <2>2, <2>3, <2>4, <2>6, <2>8, <2>9, Zenon DEF Issued
  <2>11. Gated(r, enabled)
    BY <2>4, GatedBlank, Zenon
  <2>12. RowsKept
    BY <2>1, <2>10, <2>11, OneRow, Zenon DEF RowKept
  <2>13. NewlyGranted(a)
    BY <2>3, <2>4, <2>6, <2>9, Zenon DEF NewlyGranted
  <2>14. AppKept(a)
    BY <2>8, <2>13, Zenon DEF AppKept
  <2>15. AppsKept
    BY <2>1, <2>14, OneApp
  <2> QED
    BY <2>1, <2>12, <2>15, JobsSame
<1> QED
  BY <1>2, <1>3, Zenon DEF AuthorizeStep

\* A change to one job that does not archive it.
LEMMA ChangedJob ==
  ASSUME Inductive, desk' = desk, NEW a \in Apps, NEW j, job' = [job EXCEPT ![a] = j],
         j.archived => job[a].archived
  PROVE  JobsKept
BY OneJob, JobsSame

\* A change to a job whose execution was aborted.
LEMMA FreedJob ==
  ASSUME Inductive, desk' = desk, NEW a \in Apps, NEW S, NEW f, NEW v,
         \/ job' = [AbortedJobs(S) EXCEPT ![a].url = v]
         \/ job' = [AbortedJobs(S) EXCEPT ![a].decision = v]
  PROVE  JobsKept
<1> DEFINE J == AbortedJobs(S)
<1>1. J \in [Apps -> Job] /\ \A b \in Apps : J[b].archived = job[b].archived
  BY AbortedJobsShape, Zenon DEF Inductive
<1>2. job' = [J EXCEPT ![a].url = v] \/ job' = [J EXCEPT ![a].decision = v]
  OBVIOUS
<1> HIDE DEF J
<1>3. ASSUME NEW b \in Apps PROVE job'[b].archived = J[b].archived
  <2>1. J[b] \in Job
    BY <1>1, Zenon
  <2>2. job'[b] \in {J[b], [J[b] EXCEPT !.url = v], [J[b] EXCEPT !.decision = v]}
    BY <1>1, <1>2, Zenon
  <2> QED
    BY <2>1, <2>2, Zenon DEF Job
<1> QED
  BY <1>1, <1>3, JobsSame

\* No such change archives a job, Archive's own excepted.
LEMMA JobShapes ==
  ASSUME NEW j \in Job, NEW v
  PROVE  /\ [j EXCEPT !.opening = v].archived = j.archived
         /\ [j EXCEPT !.status = v].archived = j.archived
         /\ [j EXCEPT !.decision = v].archived = j.archived
         /\ [j EXCEPT !.archived = v].archived = v
         /\ Rejected(j).archived = j.archived /\ Undone(j).archived = j.archived
BY Zenon DEF Job, Rejected, Undone

\* What the user does to the job and its resume.
LEMMA JobStepKept ==
  ASSUME Inductive, Idle, NEW a \in Apps, JobStep(a)
  PROVE  KeptStep
<1> USE DEF KeptStep
<1>1. /\ app[a] \in Application /\ app \in [Apps -> Application] /\ job[a] \in Job
      /\ job \in [Apps -> Job] /\ TypeOK
  BY Zenon DEF Inductive, TypeOK
<1>2. ASSUME NEW url, UpdateUrl(a, url)
      PROVE  KeptStep
  <2> DEFINE revoked == /\ app[a].mode = "authorized_auto"
                        /\ app[a].status \in {"queued", "needs_review", "in_progress",
                                              "awaiting_final_confirmation"}
  <2>1. /\ job' = [AbortedJobs({a}) EXCEPT ![a].url = url]
        /\ auth' = IF revoked THEN RevokedRows({a}) ELSE auth
        /\ app' = [app EXCEPT ![a] = IF revoked THEN Released(app[a], "needs_review") ELSE app[a]]
        /\ enabled' = enabled /\ desk' = desk
    BY <1>2, Zenon DEF UpdateUrl, settings, processes
  <2>2. JobsKept
    BY <2>1, FreedJob
  <2>3. CASE revoked
    <3>1. RowsKept /\ Gone(a)
      BY <2>1, <2>3, RevokedRowsKept, Zenon
    <3>2. app'[a] = Released(app[a], "needs_review")
      BY <1>1, <2>1, <2>3, Zenon
    <3>3. /\ Released(app[a], "needs_review").auth = None
          /\ Released(app[a], "needs_review").granted = FALSE
          /\ Released(app[a], "needs_review").mode = "assisted"
          /\ Released(app[a], "needs_review").status = "needs_review"
      BY <1>1, ReleasedShape, Zenon
    <3>4. /\ app'[a].auth = None /\ app'[a].granted = FALSE
          /\ app'[a].mode # "authorized_auto"
          /\ app'[a].status \notin Sent /\ app'[a].status # "none" /\ app[a].status \notin Sent
      BY <2>3, <3>2, <3>3, Zenon DEF Sent
    <3>5. AppKept(a)
      BY <3>1, <3>4, GrantDropped
    <3>6. AppsKept
      BY <2>1, <3>5, OneApp
    <3> QED
      BY <2>2, <3>1, <3>6
  <2>4. CASE ~revoked
    <3>1. auth' = auth /\ app' = app
      BY <1>1, <2>1, <2>4, Zenon
    <3> QED
      BY <2>1, <2>2, <3>1, RowsUnchanged, AppsUnchanged
  <2> QED
    BY <2>3, <2>4
<1>3. ASSUME NEW opening, EditOpening(a, opening)
      PROVE  KeptStep
  <2>1. /\ auth' = auth /\ app' = app /\ enabled' = enabled /\ desk' = desk
        /\ job' = [job EXCEPT ![a] = [job[a] EXCEPT !.opening = opening]]
    BY <1>3, Zenon DEF EditOpening, settings, processes
  <2>2. [job[a] EXCEPT !.opening = opening].archived = job[a].archived
    BY <1>1, JobShapes, Zenon
  <2> QED
    BY <2>1, <2>2, RowsUnchanged, AppsUnchanged, ChangedJob
<1>4. CASE DecideInterested(a)
  <2> DEFINE j == [job[a] EXCEPT !.decision = "interested"]
  <2>1. /\ auth' = auth /\ app' = app /\ enabled' = enabled /\ desk' = desk
        /\ \E t : job' = [job EXCEPT ![a] = AdvancedJob(j, t)]
    BY <1>4, Zenon DEF DecideInterested, Walk, settings, processes
  <2>2. j \in Job /\ j.archived = job[a].archived
    BY <1>1, Zenon DEF Job, Decision
  <2> HIDE DEF j
  <2>3. PICK t : job' = [job EXCEPT ![a] = AdvancedJob(j, t)]
    BY <2>1, Zenon
  <2>4. AdvancedJob(j, t).archived = job[a].archived
    BY <2>2, AdvancedJobShape, Zenon
  <2> QED
    BY <2>1, <2>3, <2>4, RowsUnchanged, AppsUnchanged, ChangedJob
<1>5. CASE DecideNoTime(a)
  <2>1. /\ WithdrawPending(a) /\ enabled' = enabled /\ desk' = desk
        /\ job' = [AbortedJobs({a}) EXCEPT ![a].decision = "no_time"]
    BY <1>5, Zenon DEF DecideNoTime, settings, processes
  <2> QED
    BY <2>1, WithdrawPendingKept, FreedJob
<1>6. CASE RejectJob(a)
  <2>1. /\ WithdrawPending(a) /\ enabled' = enabled /\ desk' = desk
        /\ job' = [job EXCEPT ![a] = Rejected(job[a])]
    BY <1>6, Zenon DEF RejectJob, settings, processes
  <2>2. Rejected(job[a]).archived = job[a].archived
    BY <1>1, JobShapes, Zenon
  <2> QED
    BY <2>1, <2>2, WithdrawPendingKept, ChangedJob
<1>7. CASE UndoDecision(a)
  <2>1. /\ auth' = auth /\ app' = app /\ enabled' = enabled /\ desk' = desk
        /\ job' = [job EXCEPT ![a] = Undone(job[a])]
    BY <1>7, Zenon DEF UndoDecision, settings, processes
  <2>2. Undone(job[a]).archived = job[a].archived
    BY <1>1, JobShapes, Zenon
  <2> QED
    BY <2>1, <2>2, RowsUnchanged, AppsUnchanged, ChangedJob
<1>8. CASE Archive(a)
  <2>1. /\ WithdrawPending(a) /\ enabled' = enabled /\ desk' = None
        /\ job' = [job EXCEPT ![a] = [job[a] EXCEPT !.archived = TRUE]]
        /\ app[a].status \notin {"in_progress", "awaiting_final_confirmation"}
    BY <1>8, Zenon DEF Archive, settings, processes, Idle
  <2>2. RowsKept /\ AppsKept /\ Gone(a)
    BY <2>1, WithdrawPendingKept, Zenon
  <2>3. \A b \in Apps : b # a => job'[b] = job[b]
    BY <1>1, <2>1, Zenon
  <2>4. JobsKept
    BY <2>1, <2>2, <2>3, Zenon DEF JobsKept, JobKept, DeskKept
  <2> QED
    BY <2>2, <2>4
<1>9. CASE Restore(a)
  <2>1. /\ auth' = auth /\ app' = app /\ enabled' = enabled /\ desk' = desk
        /\ job' = [job EXCEPT ![a] = [job[a] EXCEPT !.archived = FALSE]]
    BY <1>9, Zenon DEF Restore, settings, processes
  <2>2. [job[a] EXCEPT !.archived = FALSE].archived = FALSE
    BY <1>1, JobShapes, Zenon
  <2> QED
    BY <2>1, <2>2, RowsUnchanged, AppsUnchanged, ChangedJob
<1>10. ASSUME NEW c, TransitionJob(a, c)
       PROVE  KeptStep
  <2> DEFINE t == Rules[c].to
  <2>1. /\ auth' = auth /\ app' = app /\ enabled' = enabled /\ desk' = desk
        /\ job' = [job EXCEPT ![a] = [job[a] EXCEPT !.status = t]]
    BY <1>10, Zenon DEF TransitionJob, settings, processes
  <2> HIDE DEF t
  <2>2. [job[a] EXCEPT !.status = t].archived = job[a].archived
    BY <1>1, JobShapes, Zenon
  <2> QED
    BY <2>1, <2>2, RowsUnchanged, AppsUnchanged, ChangedJob
<1>11. CASE EditResume(a)
  <2>1. enabled' = enabled /\ desk' = desk
    BY <1>11, Zenon DEF EditResume, settings, processes
  <2>2. CASE job' = job /\ app' = app /\ auth' = auth
    BY <2>1, <2>2, RowsUnchanged, AppsUnchanged, JobsSame
  <2>3. CASE ~(job' = job /\ app' = app /\ auth' = auth)
    <3>1. /\ WithdrawPending(a)
          /\ \E t : job' = [job EXCEPT ![a] = [job[a] EXCEPT !.status = t]]
      BY <1>11, <2>3, Zenon DEF EditResume
    <3>2. PICK t : job' = [job EXCEPT ![a] = [job[a] EXCEPT !.status = t]]
      BY <3>1, Zenon
    <3>3. [job[a] EXCEPT !.status = t].archived = job[a].archived
      BY <1>1, JobShapes, Zenon
    <3> QED
      BY <2>1, <3>1, <3>2, <3>3, WithdrawPendingKept, ChangedJob
  <2> QED
    BY <2>2, <2>3
<1>12. CASE ApproveResume(a)
  <2>1. /\ auth' = auth /\ app' = app /\ enabled' = enabled /\ desk' = desk
        /\ \E t : job' = [job EXCEPT ![a] = AdvancedJob(job[a], t)]
    BY <1>12, Zenon DEF ApproveResume, Walk, settings, processes
  <2> QED
    BY <2>1, RowsUnchanged, AppsUnchanged, WalkedJob
<1> QED
  BY <1>2, <1>3, <1>4, <1>5, <1>6, <1>7, <1>8, <1>9, <1>10, <1>11, <1>12, Zenon DEF JobStep

\* expireJob, of the job as it is or as a source has just closed it.
LEMMA ExpireJobKept ==
  ASSUME Inductive, NEW a \in Apps, NEW j \in Job, j.archived = job[a].archived, ExpireJob(a, j),
         enabled' = enabled, desk' = desk
  PROVE  KeptStep
<1> DEFINE k == [j EXCEPT !.status = "expired", !.decision = "expired"]
<1>1. WithdrawPending(a) /\ job' = [job EXCEPT ![a] = k]
  BY Zenon DEF ExpireJob
<1>2. k.archived = job[a].archived
  BY Zenon DEF Job
<1> HIDE DEF k
<1> QED
  BY <1>1, <1>2, WithdrawPendingKept, ChangedJob DEF KeptStep

\* The expiration cron and the collector, whose steps fall anywhere.
LEMMA CronStepKept ==
  ASSUME Inductive, CronStep
  PROVE  KeptStep
<1> USE DEF KeptStep
<1>1. job \in [Apps -> Job]
  BY Zenon DEF Inductive, TypeOK
<1>2. CASE CronRead
  <2>1. auth' = auth /\ app' = app /\ job' = job /\ enabled' = enabled /\ desk' = desk
    BY <1>2, Zenon DEF CronRead, panelVars, settings
  <2> QED
    BY <2>1, RowsUnchanged, AppsUnchanged, JobsSame
<1>3. ASSUME NEW a \in Apps, CronExpire(a)
      PROVE  KeptStep
  <2>1. enabled' = enabled /\ desk' = desk
    BY <1>3, Zenon DEF CronExpire, settings
  <2>2. CASE ExpireJob(a, job[a])
    BY <1>1, <2>1, <2>2, ExpireJobKept
  <2>3. CASE ~ExpireJob(a, job[a])
    <3>1. job' = job /\ app' = app /\ auth' = auth
      BY <1>3, <2>3, Zenon DEF CronExpire
    <3> QED
      BY <2>1, <3>1, RowsUnchanged, AppsUnchanged, JobsSame
  <2> QED
    BY <2>2, <2>3
<1>4. ASSUME NEW a \in Apps, NEW url \in 1..MaxUrl, NEW opening \in Opening,
             WriteFromSource(a, url, opening)
      PROVE  KeptStep
  <2> DEFINE j == [job[a] EXCEPT !.url = url, !.opening = opening]
  <2>1. enabled' = enabled /\ desk' = desk
    BY <1>4, Zenon DEF WriteFromSource, settings, processes
  <2>2. ExpireJob(a, j) \/ (job' = [job EXCEPT ![a] = j] /\ app' = app /\ auth' = auth)
    BY <1>4, Zenon DEF WriteFromSource
  <2>3. j \in Job /\ j.archived = job[a].archived
    BY <1>1, Zenon DEF Job, Opening
  <2> HIDE DEF j
  <2>4. CASE ExpireJob(a, j)
    BY <2>1, <2>3, <2>4, ExpireJobKept
  <2>5. CASE job' = [job EXCEPT ![a] = j] /\ app' = app /\ auth' = auth
    BY <2>1, <2>3, <2>5, RowsUnchanged, AppsUnchanged, ChangedJob
  <2> QED
    BY <2>2, <2>4, <2>5
<1> QED
  BY <1>2, <1>3, <1>4, Zenon DEF CronStep

\* Time and crashes touch no column the invariant reads.
LEMMA TimedRows ==
  ASSUME Inductive, enabled' = enabled, app' = app, desk' = desk,
         \A b \in Apps : job'[b].archived => job[b].archived,
         \A x \in AuthIds : \/ auth'[x] = auth[x]
                            \/ auth'[x] = [auth[x] EXCEPT !.ttlOver = TRUE]
                            \/ auth'[x] = [auth[x] EXCEPT !.leaseOver = TRUE]
                            \/ auth'[x] = [auth[x] EXCEPT !.today = FALSE]
                            \/ auth'[x] = [auth[x] EXCEPT !.given = {}]
  PROVE  KeptStep
<1>1. ASSUME NEW x \in AuthIds PROVE SameRow(auth[x], auth'[x])
  <2>1. auth[x] \in Authorization
    BY Zenon DEF Inductive, TypeOK
  <2> QED
    BY <2>1, SameRowShapes, Zenon
<1>2. RowsKept
  BY <1>1, RowsSame
<1> QED
  BY <1>2, AppsUnchanged, JobsSame DEF KeptStep

\* The passage of time, and crashes.
LEMMA TimeStepKept ==
  ASSUME Inductive, TimeStep
  PROVE  KeptStep
<1>1. job \in [Apps -> Job] /\ auth \in [AuthIds -> Authorization]
  BY Zenon DEF Inductive, TypeOK
<1>2. ASSUME NEW x \in AuthIds, TtlLapse(x)
      PROVE  KeptStep
  <2>1. /\ app' = app /\ job' = job /\ enabled' = enabled /\ desk' = desk
        /\ auth' = [auth EXCEPT ![x] = [auth[x] EXCEPT !.ttlOver = TRUE]]
    BY <1>2, Zenon DEF TtlLapse, settings, processes
  <2>2. \A y \in AuthIds : auth'[y] = auth[y] \/ auth'[y] = [auth[y] EXCEPT !.ttlOver = TRUE]
    BY <1>1, <2>1, Zenon
  <2> QED
    BY <2>1, <2>2, TimedRows, Zenon
<1>3. ASSUME NEW x \in AuthIds, LeaseLapse(x)
      PROVE  KeptStep
  <2>1. /\ app' = app /\ job' = job /\ enabled' = enabled /\ desk' = desk
        /\ auth' = [auth EXCEPT ![x] = [auth[x] EXCEPT !.leaseOver = TRUE]]
    BY <1>3, Zenon DEF LeaseLapse, settings, processes
  <2>2. \A y \in AuthIds : auth'[y] = auth[y] \/ auth'[y] = [auth[y] EXCEPT !.leaseOver = TRUE]
    BY <1>1, <2>1, Zenon
  <2> QED
    BY <2>1, <2>2, TimedRows, Zenon
<1>4. ASSUME NEW a \in Apps, DeadlinePasses(a)
      PROVE  KeptStep
  <2>1. /\ auth' = auth /\ app' = app /\ enabled' = enabled /\ desk' = desk
        /\ job' = [job EXCEPT ![a] = [job[a] EXCEPT !.opening = "overdue"]]
    BY <1>4, Zenon DEF DeadlinePasses, settings, processes
  <2>2. [job[a] EXCEPT !.opening = "overdue"].archived = job[a].archived
    BY <1>1, JobShapes, Zenon
  <2> QED
    BY <2>1, <2>2, RowsUnchanged, AppsUnchanged, ChangedJob DEF KeptStep
<1>5. CASE NewDay
  <2>1. /\ app' = app /\ job' = job /\ enabled' = enabled /\ desk' = desk
        /\ \A x \in AuthIds : auth'[x] = [auth[x] EXCEPT !.today = FALSE]
    BY <1>5, Zenon DEF NewDay, settings, processes
  <2> QED
    BY <2>1, TimedRows, Zenon
<1>6. ASSUME NEW w, WorkerCrash(w)
      PROVE  KeptStep
  <2>1. /\ app' = app /\ job' = job /\ enabled' = enabled /\ desk' = desk
        /\ \A x \in AuthIds : auth'[x] = auth[x] \/ auth'[x] = [auth[x] EXCEPT !.given = {}]
    BY <1>6, Zenon DEF WorkerCrash, settings
  <2> QED
    BY <2>1, TimedRows, Zenon
<1>7. ASSUME NEW w, WorkerRestart(w)
      PROVE  KeptStep
  <2>1. auth' = auth /\ app' = app /\ job' = job /\ enabled' = enabled /\ desk' = desk
    BY <1>7, Zenon DEF WorkerRestart, panelVars, settings
  <2> QED
    BY <2>1, RowsUnchanged, AppsUnchanged, JobsSame DEF KeptStep
<1> QED
  BY <1>2, <1>3, <1>4, <1>5, <1>6, <1>7, Zenon DEF TimeStep

\* The sweep: a row it expires is its application's only live one.
LEMMA ExpireDueKept ==
  ASSUME Inductive, ExpireDue
  PROVE  KeptStep
<1> USE DEF KeptStep
<1>1. /\ auth' = [x \in AuthIds |-> IF x \in Due THEN Closed(auth[x], "expired") ELSE auth[x]]
      /\ app' = [a \in Apps |-> IF a \in Expiring THEN Released(app[a], "needs_review") ELSE app[a]]
      /\ job' = AbortedJobs(Expiring \cup {auth[x].app : x \in DueWaiting})
      /\ enabled' = enabled /\ desk' = desk
  BY Zenon DEF ExpireDue, settings, processes
<1>2. \A x \in AuthIds : x \in Due => auth[x].state \in Live
  BY Zenon DEF Due, DueIssued, DueLease, DueWaiting, Live
<1>3. \A x \in AuthIds : IF x \in Due THEN auth[x].state \in Live /\ auth'[x] = Closed(auth[x], "expired")
                                       ELSE auth'[x] = auth[x]
  BY <1>1, <1>2, Zenon
<1>4. RowsKept /\ \A x \in AuthIds : x \in Due => auth'[x].state \notin Live
  BY <1>1, <1>3, ClosedRows, Zenon
<1>5. ASSUME NEW a \in Apps PROVE AppKept(a)
  <2>1. app[a] \in Application
    BY Zenon DEF Inductive, TypeOK
  <2>2. CASE a \in Expiring
    <3>1. app[a].auth \in Due /\ app[a].status \notin Sent
      BY <2>2, Zenon DEF Expiring, Due, Sent
    <3>2. Gone(a)
      <4> SUFFICES ASSUME NEW x \in AuthIds, auth[x].app = a, auth'[x].state \in Live
                   PROVE  FALSE
        BY Zenon DEF Gone
      <4>1. x \notin Due
        BY <1>4, Zenon
      <4>2. auth'[x] = auth[x]
        BY <1>1, <4>1, Zenon
      <4>3. app[a].auth = x
        BY <4>2, LiveFacts, Zenon
      <4> QED
        BY <3>1, <4>1, <4>3
    <3>3. app'[a] = Released(app[a], "needs_review")
      BY <1>1, <2>2, Zenon
    <3>4. /\ Released(app[a], "needs_review").auth = None
          /\ Released(app[a], "needs_review").granted = FALSE
          /\ Released(app[a], "needs_review").mode = "assisted"
          /\ Released(app[a], "needs_review").status = "needs_review"
      BY <2>1, ReleasedShape, Zenon
    <3>5. /\ app'[a].auth = None /\ app'[a].granted = FALSE
          /\ app'[a].mode # "authorized_auto"
          /\ app'[a].status \notin Sent /\ app'[a].status # "none"
      BY <3>3, <3>4, Zenon DEF Sent
    <3> QED
      BY <3>1, <3>2, <3>5, GrantDropped
  <2>3. CASE a \notin Expiring
    <3>1. app'[a] = app[a]
      BY <1>1, <2>3, Zenon
    <3> QED
      BY <3>1, Zenon DEF AppKept, SameGrant
  <2> QED
    BY <2>2, <2>3
<1>6. JobsKept
  BY <1>1, AbortedJobsShape, JobsSame, Zenon DEF Inductive
<1> QED
  BY <1>4, <1>5, <1>6, Zenon DEF AppsKept

\* The recovery of stuck applications.
LEMMA RecoverStuckKept ==
  ASSUME Inductive, RecoverStuck
  PROVE  KeptStep
<1> USE DEF KeptStep
<1>1. /\ auth' = RevokedRows(Stuck)
      /\ app' = [a \in Apps |->
                   IF a \in Stuck
                   THEN [Released(app[a], "needs_review") EXCEPT !.mode = ByUser(app[a].mode)]
                   ELSE app[a]]
      /\ job' = AbortedJobs(Stuck) /\ enabled' = enabled /\ desk' = desk
  BY Zenon DEF RecoverStuck, settings, processes
<1>2. RowsKept /\ \A a \in Stuck : Gone(a)
  BY <1>1, RevokedRowsKept, Zenon
<1>3. ASSUME NEW a \in Apps PROVE AppKept(a)
  <2>1. app[a] \in Application
    BY Zenon DEF Inductive, TypeOK
  <2>2. CASE a \in Stuck
    <3> DEFINE n == Released(app[a], "needs_review")
    <3>1. app'[a] = [n EXCEPT !.mode = ByUser(app[a].mode)]
      BY <1>1, <2>2, Zenon
    <3>2. n \in Application
      BY <2>1, ReleasedType, Zenon DEF ApplicationStatus, ModeChange
    <3>3. n.auth = None /\ n.granted = FALSE /\ n.status = "needs_review"
      BY <2>1, ReleasedShape, Zenon
    <3> HIDE DEF n
    <3>4. /\ app'[a].auth = None /\ app'[a].granted = FALSE
          /\ app'[a].mode = ByUser(app[a].mode) /\ app'[a].status = "needs_review"
      BY <3>1, <3>2, <3>3, Zenon DEF Application
    <3>5. app'[a].mode # "authorized_auto"
      BY <3>4, Zenon DEF ByUser
    <3>6. app[a].status \notin Sent
      BY <2>2, Zenon DEF Stuck, Sent
    <3>7. app'[a].status \notin Sent /\ app'[a].status # "none"
      BY <3>4, Zenon DEF Sent
    <3> QED
      BY <1>2, <2>2, <3>4, <3>5, <3>6, <3>7, GrantDropped
  <2>3. CASE a \notin Stuck
    <3>1. app'[a] = app[a]
      BY <1>1, <2>3, Zenon
    <3> QED
      BY <3>1, Zenon DEF AppKept, SameGrant
  <2> QED
    BY <2>2, <2>3
<1>4. JobsKept
  BY <1>1, AbortedJobsShape, JobsSame, Zenon DEF Inductive
<1> QED
  BY <1>2, <1>3, <1>4, Zenon DEF AppsKept

\* A step that changes nothing.
LEMMA StutterKept ==
  ASSUME Inductive, UNCHANGED vars
  PROVE  KeptStep
<1>1. auth' = auth /\ app' = app /\ job' = job /\ enabled' = enabled /\ desk' = desk
  BY Zenon DEF vars, panelVars, settings, processes
<1> QED
  BY <1>1, RowsUnchanged, AppsUnchanged, JobsSame DEF KeptStep

-----------------------------------------------------------------------------
(* The theorems *)

\* Every step of the system keeps rows, applications and jobs together.
LEMMA NextKept == Inductive /\ [Next]_vars => KeptStep
<1> SUFFICES ASSUME Inductive, [Next]_vars PROVE KeptStep
  OBVIOUS
<1>1. CASE DashboardStep
  BY <1>1, UserStepKept, JobStepKept, ExecutorStepKept, QuestionStepKept, ExpireDueKept,
     RecoverStuckKept, Zenon DEF DashboardStep
<1> QED
  BY <1>1, SettingsStepKept, AuthorizeStepKept, CronStepKept, TimeStepKept, StutterKept, Zenon
     DEF Next

\* The invariant holds before any application exists.
LEMMA InitInductive == Init => Inductive
<1> SUFFICES ASSUME Init PROVE Inductive
  OBVIOUS
<1>1. \A x \in AuthIds : auth[x].state = "none" /\ Blank(auth[x])
  BY Zenon DEF Init, NoAuthorization, Blank
<1>2. \A a \in Apps : app[a].auth = None /\ app[a].granted = FALSE /\ app[a].mode = None
  BY Zenon DEF Init, NoApplication
<1>3. None # "authorized_auto"
  BY NoneAssumption, Zenon
<1>4. enabled = TRUE /\ desk = None
  BY Zenon DEF Init
<1>5. Ownership
  <2>1. LiveRowIsCurrent /\ SubmissionIsFinal /\ LiveRowIsUnsent
    BY <1>1, Zenon DEF LiveRowIsCurrent, SubmissionIsFinal, LiveRowIsUnsent, Live
  <2>2. GrantIsWhole
    <3> SUFFICES ASSUME NEW a \in Apps
                 PROVE  /\ app[a].granted <=> app[a].mode = "authorized_auto"
                        /\ app[a].granted <=> app[a].auth # None
      BY Zenon DEF GrantIsWhole
    <3>1. app[a].auth = None /\ app[a].granted = FALSE /\ app[a].mode # "authorized_auto"
      BY <1>2, <1>3
    <3> QED
      BY <3>1, Zenon
  <2>3. PointsAtOwnRow
    BY <1>2, Zenon DEF PointsAtOwnRow
  <2> QED
    BY <2>1, <2>2, <2>3, Zenon DEF Ownership
<1>6. Gating
  BY <1>1, Zenon DEF Gating, KillSwitchHolds, TokenGate, ConfirmationIsOfCapture,
                     OnlyClaimedIsPaused, Blank
<1>7. Archiving
  BY <1>1, <1>4, Zenon DEF Archiving, ArchivedHasNoLiveRow, DeskIsNotArchived, Live
<1> QED
  BY InitTypeOK, <1>5, <1>6, <1>7, Zenon DEF Inductive

(***************************************************************************)
(* The inductive invariant of the automatic application holds in every     *)
(* reachable state: every handler, command line, cron, timer and crash     *)
(* keeps it, in any order.                                                 *)
(***************************************************************************)
THEOREM InductiveHolds == Spec => []Inductive
<1>1. Inductive /\ [Next]_vars => Inductive'
  BY NextKept, KeptInductive
<1> QED
  BY InitInductive, <1>1, PTL DEF Spec

(***************************************************************************)
(* An application has at most one authorization that an executor could     *)
(* claim or is executing, and it is the one the application points at; the *)
(* three columns that say "granted" agree (authorizations.ts, application- *)
(* store.ts, questions.ts, preferences.ts, jobs.ts all write them).        *)
(***************************************************************************)
THEOREM OneGrant == Spec => [](LiveRowIsCurrent /\ GrantIsWhole)
<1>1. Inductive => LiveRowIsCurrent /\ GrantIsWhole
  BY Zenon DEF Inductive, Ownership
<1> QED
  BY <1>1, InductiveHolds, PTL

(***************************************************************************)
(* The application of a consumed authorization stays sent and stays that   *)
(* authorization's: no later route, sweep or answer submits it again or    *)
(* takes it back.                                                          *)
(***************************************************************************)
THEOREM FinalSubmission == Spec => []SubmissionIsFinal
<1>1. Inductive => SubmissionIsFinal
  BY Zenon DEF Inductive, Ownership
<1> QED
  BY <1>1, InductiveHolds, PTL

(***************************************************************************)
(* While the kill-switch is off, every reserved execution is paused with   *)
(* no confirmation and no token; while it is on, none is paused            *)
(* (applications.ts, pauseAutomaticRuns and resumeAutomaticRuns).          *)
(***************************************************************************)
THEOREM SwitchHoldsRuns == Spec => []KillSwitchHolds
<1>1. Inductive => KillSwitchHolds
  BY Zenon DEF Inductive, Gating
<1> QED
  BY <1>1, InductiveHolds, PTL

(***************************************************************************)
(* A submit token in force is that of the capture the row holds, which is  *)
(* the one ENVIAR confirmed, on a claimed row that is not paused           *)
(* (applications.ts).                                                      *)
(***************************************************************************)
THEOREM TokenIsGated == Spec => []TokenGate
<1>1. Inductive => TokenGate
  BY Zenon DEF Inductive, Gating
<1> QED
  BY <1>1, InductiveHolds, PTL

(***************************************************************************)
(* An archived job has no authorization an executor could claim or finish, *)
(* although AUTORIZO tests the archive before its transaction only.        *)
(***************************************************************************)
THEOREM ArchivedIsInert == Spec => []ArchivedHasNoLiveRow
<1>1. Inductive => ArchivedHasNoLiveRow
  BY Zenon DEF Inductive, Archiving
<1> QED
  BY <1>1, InductiveHolds, PTL

\* No step but a submission consumes a row.
LEMMA ConsumedBySubmit ==
  ASSUME RowsKept, NEW x \in AuthIds, Consumes(x)
  PROVE  Submitted(x)
<1>1. auth[x].state # "consumed" /\ auth'[x].state = "consumed" /\ RowKept(x)
  BY Zenon DEF Consumes, RowsKept
<1> QED
  BY <1>1, Zenon DEF RowKept, Issued

(***************************************************************************)
(* Whatever is submitted automatically is what the user granted and        *)
(* confirmed: switch on, resume approved in the granted version, job       *)
(* wanted, not archived and at the granted URL, the capture confirmed      *)
(* being the last and the token that capture's                             *)
(* (submitAuthorizedApplication).                                          *)
(***************************************************************************)
THEOREM SubmissionMatches == Spec => SubmitMatchesGrant
<1>1. ASSUME Inductive, [Next]_vars, NEW x \in AuthIds, Consumes(x)
      PROVE  LET a == auth[x].app IN
             /\ enabled /\ auth[x].state = "claimed"
             /\ resume[a].status = "approved" /\ resume[a].version = auth[x].version
             /\ job[a].decision = "interested" /\ job[a].url = auth[x].url /\ ~job[a].archived
             /\ auth[x].requested /\ auth[x].confirmed = auth[x].shot
             /\ auth[x].token = auth[x].shot /\ auth[x].token \in auth[x].given
  <2>1. RowsKept
    BY <1>1, NextKept DEF KeptStep
  <2>2. Submitted(x)
    BY <1>1, <2>1, ConsumedBySubmit
  <2> QED
    BY <2>2, Zenon DEF Submitted
<1> DEFINE Match == \A x \in AuthIds : Consumes(x) =>
              LET a == auth[x].app IN
              /\ enabled /\ auth[x].state = "claimed"
              /\ resume[a].status = "approved" /\ resume[a].version = auth[x].version
              /\ job[a].decision = "interested" /\ job[a].url = auth[x].url /\ ~job[a].archived
              /\ auth[x].requested /\ auth[x].confirmed = auth[x].shot
              /\ auth[x].token = auth[x].shot /\ auth[x].token \in auth[x].given
<1>2. Inductive /\ [Next]_vars => Match
  BY <1>1
<1> HIDE DEF Match
<1>3. Spec => [][Match]_vars
  BY <1>2, InductiveHolds, PTL DEF Spec
<1> QED
  BY <1>3 DEF Match, SubmitMatchesGrant

-----------------------------------------------------------------------------
(* The gate *)

\* Inductive: what asked for the confirmation has a capture to confirm.
RequestHasCapture == \A x \in AuthIds : auth[x].requested => auth[x].shot # 0

\* Rows keep RequestHasCapture one by one.
Captured(r) == r.requested => r.shot # 0

\* A step of the code, seen from the gate.
GateStep == [Gate!Next]_(Gate!vars) /\ RequestHasCapture'

-----------------------------------------------------------------------------
(* Stages *)

\* The stage is read from the columns SameRow is about.
LEMMA StageSame ==
  ASSUME NEW r, NEW s, SameRow(r, s)
  PROVE  GateStage(s) = GateStage(r) /\ s.app = r.app /\ (Captured(r) => Captured(s))
BY Zenon DEF SameRow, GateStage, ClaimedStage, Captured

\* A closed row is sent or void, and asks for nothing.
LEMMA StageClosed ==
  ASSUME NEW r, NEW st \in {"consumed", "revoked", "expired"}
  PROVE  /\ GateStage(Closed(r, st)) = IF st = "consumed" THEN "sent" ELSE "void"
         /\ Closed(r, st).app = r.app /\ Captured(Closed(r, st))
<1>1. Closed(r, st).state = st /\ Closed(r, st).app = r.app /\ ~Closed(r, st).requested
  BY ClosedShape, Zenon DEF Blank
<1> QED
  BY <1>1 DEF GateStage, Captured

\* A live row is open.
LEMMA StageLive ==
  ASSUME NEW r, r.state \in Live
  PROVE  GateStage(r) \in Gate!Open
BY DEF Live, GateStage, ClaimedStage, Gate!Open, Gate!Reserved

-----------------------------------------------------------------------------
(* Shapes of a step *)

\* Nothing of the gate moves while time passes.
LEMMA SameGate ==
  ASSUME RequestHasCapture, enabled' = enabled, \A x \in AuthIds : SameRow(auth[x], auth'[x])
  PROVE  GateStep
<1>1. \A x \in AuthIds : GateStage(auth'[x]) = GateStage(auth[x]) /\ auth'[x].app = auth[x].app
  BY StageSame
<1>2. RequestHasCapture'
  BY StageSame DEF RequestHasCapture, Captured
<1>3. UNCHANGED Gate!vars
  BY <1>1 DEF Gate!vars
<1> QED
  BY <1>2, <1>3 DEF GateStep

\* Rows that are closed together are one step of the gate.
LEMMA CloseGate ==
  ASSUME RequestHasCapture, enabled' = enabled,
         NEW X \in SUBSET AuthIds, NEW st \in {"revoked", "expired"},
         \A x \in AuthIds : IF x \in X THEN auth[x].state \in Live /\ auth'[x] = Closed(auth[x], st)
                                       ELSE auth'[x] = auth[x]
  PROVE  GateStep
<1>0. st \in {"consumed", "revoked", "expired"} /\ st # "consumed"
  OBVIOUS
<1>1. ASSUME NEW x \in AuthIds
      PROVE /\ GateStage(auth'[x]) = IF x \in X THEN "void" ELSE GateStage(auth[x])
            /\ auth'[x].app = auth[x].app /\ Captured(auth'[x])
            /\ x \in X => GateStage(auth[x]) \in Gate!Open
  BY <1>0, StageClosed, StageLive, Zenon DEF RequestHasCapture, Captured
<1>2. RequestHasCapture'
  BY <1>1 DEF RequestHasCapture, Captured
<1>3. Gate!Close(X)
  BY <1>1 DEF Gate!Close
<1> QED
  BY <1>2, <1>3 DEF GateStep, Gate!Next

\* A step of one row that the switch can forbid.
LEMMA GoesGate ==
  ASSUME RequestHasCapture, auth \in [AuthIds -> Authorization],
         enabled, enabled' = enabled, NEW x \in AuthIds, NEW r, auth' = WithRow(x, r),
         r.app = auth[x].app, Captured(r),
         NEW from, GateStage(auth[x]) \in from
  PROVE  RequestHasCapture' /\ Gate!Goes(x, from, GateStage(r))
<1>1. ASSUME NEW y \in AuthIds
      PROVE auth'[y] = IF y = x THEN r ELSE auth[y]
  BY Zenon DEF WithRow
<1>2. RequestHasCapture'
  BY <1>1 DEF RequestHasCapture, Captured
<1>3. Gate!Goes(x, from, GateStage(r))
  BY <1>1 DEF Gate!Goes
<1> QED
  BY <1>2, <1>3

\* A handler that writes no row.
LEMMA NoRowGate ==
  ASSUME RequestHasCapture, enabled' = enabled, auth' = auth
  PROVE  GateStep
BY SameGate, Zenon DEF SameRow

\* A row that is renewed.
LEMMA RenewedGate ==
  ASSUME Inductive, RequestHasCapture, enabled' = enabled, NEW x, auth' = WithRow(x, Renewed(auth[x]))
  PROVE  GateStep
<1> SUFFICES ASSUME NEW y \in AuthIds PROVE SameRow(auth[y], auth'[y])
  BY SameGate, Zenon
<1>1. auth \in [AuthIds -> Authorization]
  BY Zenon DEF Inductive, TypeOK
<1>2. SameRow(auth[y], auth[y]) /\ SameRow(auth[y], Renewed(auth[y]))
  BY <1>1, SameRowShapes, Zenon
<1>3. auth'[y] = auth[y] \/ auth'[y] = Renewed(auth[y])
  BY <1>1, Zenon DEF WithRow
<1> QED
  BY <1>2, <1>3, Zenon

\* revokeAuthorizationRows, for whatever applications.
LEMMA RevokedGate ==
  ASSUME RequestHasCapture, enabled' = enabled, NEW S, auth' = RevokedRows(S)
  PROVE  GateStep
<1> DEFINE X == {x \in AuthIds : auth[x].app \in S /\ auth[x].state \in Live}
<1>1. \A x \in AuthIds : IF x \in X THEN auth[x].state \in Live /\ auth'[x] = Closed(auth[x], "revoked")
                                     ELSE auth'[x] = auth[x]
  BY Zenon DEF RevokedRows
<1>2. X \in SUBSET AuthIds
  OBVIOUS
<1>3. "revoked" \in {"revoked", "expired"}
  OBVIOUS
<1> HIDE DEF X
<1> QED
  BY <1>1, <1>2, <1>3, CloseGate

\* Withdrawals revoke rows or leave them.
LEMMA WithdrawnGate ==
  ASSUME RequestHasCapture, enabled' = enabled, NEW a \in Apps, WithdrawPending(a)
  PROVE  GateStep
<1>1. auth' = RevokedRows({a}) \/ auth' = auth
  BY Zenon DEF WithdrawPending
<1> QED
  BY <1>1, RevokedGate, NoRowGate, Zenon

\* What the stage of a claimed row is read from.
LEMMA ClaimedIs ==
  ASSUME Inductive, NEW x \in AuthIds, auth[x].state = "claimed"
  PROVE  /\ auth[x] \in Authorization
         /\ auth[x].paused <=> ~enabled
         /\ auth[x].paused => ~auth[x].requested /\ auth[x].confirmed = 0 /\ auth[x].token = 0
         /\ auth[x].token # 0 => auth[x].requested /\ auth[x].confirmed = auth[x].token
         /\ GateStage(auth[x]) = ClaimedStage(auth[x])
<1>1. auth[x] \in Authorization
  BY Zenon DEF Inductive, TypeOK
<1>2. Gating
  BY Zenon DEF Inductive
<1>3. GateStage(auth[x]) = ClaimedStage(auth[x])
  BY DEF GateStage
<1>4. auth[x].token # 0 => auth[x].requested /\ auth[x].confirmed = auth[x].token
  BY <1>2, Zenon DEF Gating, TokenGate
<1> QED
  BY <1>1, <1>2, <1>3, <1>4, Zenon DEF Gating, KillSwitchHolds

-----------------------------------------------------------------------------
(* The steps of the system *)

\* The user's routes: ENVIAR approves what is shown.
LEMMA UserStepGate ==
  ASSUME Inductive, RequestHasCapture, NEW a \in Apps, UserStep(a)
  PROVE  GateStep
<1>1. enabled' = enabled
  BY Zenon DEF UserStep, CreateApplication, AuthorizeRead, Revoke, SelectManual, SendToReview,
     ReportSubmission, ReportOutcome, ConfirmFinal, CancelFinal, settings
<1>2. ASSUME NEW mode \in {"assisted", "manual"}, CreateApplication(a, mode) PROVE GateStep
  BY <1>1, <1>2, NoRowGate, Zenon DEF CreateApplication
<1>3. CASE AuthorizeRead(a)
  BY <1>1, <1>3, NoRowGate, Zenon DEF AuthorizeRead, panelVars
<1>4. CASE Revoke(a)
  BY <1>1, <1>4, RevokedGate, Zenon DEF Revoke
<1>5. CASE SelectManual(a)
  BY <1>1, <1>5, RevokedGate, Zenon DEF SelectManual
<1>6. CASE SendToReview(a)
  BY <1>1, <1>6, NoRowGate, Zenon DEF SendToReview
<1>7. CASE ReportSubmission(a)
  BY <1>1, <1>7, NoRowGate, Zenon DEF ReportSubmission
<1>8. ASSUME NEW outcome \in {"accepted", "rejected"}, ReportOutcome(a, outcome) PROVE GateStep
  BY <1>1, <1>8, NoRowGate, Zenon DEF ReportOutcome
<1>9. CASE CancelFinal(a)
  BY <1>1, <1>9, RevokedGate, Zenon DEF CancelFinal, EndExecution
<1>10. CASE ConfirmFinal(a)
  <2> DEFINE x == app[a].auth
             r == [Renewed(auth[x]) EXCEPT !.confirmed = auth[x].shot]
  <2>1. /\ enabled /\ Current(a, "claimed") /\ auth[x].requested /\ auth[x].confirmed = 0
        /\ auth' = WithRow(x, r)
    BY <1>10, Zenon DEF ConfirmFinal
  <2>2. x # None /\ auth[x].state = "claimed"
    BY <2>1, Zenon DEF Current
  <2>3. x \in AuthIds
    BY <2>2, OwnRow, Zenon
  <2> HIDE DEF x
  <2>4. /\ auth[x] \in Authorization /\ ~auth[x].paused /\ auth[x].token = 0
        /\ GateStage(auth[x]) = ClaimedStage(auth[x])
    BY <2>1, <2>2, <2>3, ClaimedIs
  <2>5. auth[x].shot # 0
    BY <2>1, <2>3, Zenon DEF RequestHasCapture
  <2>6. /\ r.state = auth[x].state /\ r.app = auth[x].app /\ r.paused = auth[x].paused
        /\ r.requested = auth[x].requested /\ r.shot = auth[x].shot
        /\ r.confirmed = auth[x].shot /\ r.token = auth[x].token
    BY <2>4, Zenon DEF Authorization, Renewed
  <2> HIDE DEF r
  <2>7. GateStage(auth[x]) = "shown"
    BY <2>1, <2>4 DEF ClaimedStage
  <2>8. GateStage(r) = "approved"
    BY <2>2, <2>4, <2>5, <2>6 DEF GateStage, ClaimedStage
  <2>9. RequestHasCapture' /\ Gate!Goes(x, {"shown"}, "approved")
    <3>1. GateStage(auth[x]) \in {"shown"} /\ Captured(r) /\ auth \in [AuthIds -> Authorization]
      BY <2>5, <2>6, <2>7, Zenon DEF Captured, Inductive, TypeOK
    <3> QED
      BY <1>1, <2>1, <2>3, <2>6, <2>8, <3>1, GoesGate
  <2> QED
    BY <2>3, <2>9 DEF GateStep, Gate!Next, Gate!Approve
<1> QED
  BY <1>2, <1>3, <1>4, <1>5, <1>6, <1>7, <1>8, <1>9, <1>10, Zenon DEF UserStep

\* The executor's routes: claim reserves, a capture shows, a poll arms, submit sends.
LEMMA ExecutorStepGate ==
  ASSUME Inductive, RequestHasCapture, NEW a \in Apps, NEW w \in alive, ExecutorStep(a, w)
  PROVE  GateStep
<1> DEFINE x == app[a].auth
<1>1. auth \in [AuthIds -> Authorization] /\ enabled' = enabled
  BY Zenon DEF Inductive, TypeOK, ExecutorStep, Claim, Heartbeat, RequestFinal, Poll, Submit, Fail,
     settings
<1>2. CASE Claim(a, w)
  <2> DEFINE r == [auth[x] EXCEPT !.state = "claimed", !.claimedBy = w, !.leaseOver = FALSE]
  <2>1. auth' = WithRow(x, r) /\ enabled /\ x # None /\ auth[x].state = "issued"
    BY <1>2, Zenon DEF Claim, Current
  <2>2. x \in AuthIds /\ auth[x] \in Authorization
    BY <1>1, <2>1, OwnRow, Zenon
  <2>3. /\ r.state = "claimed" /\ r.app = auth[x].app /\ r.paused = auth[x].paused
        /\ r.requested = auth[x].requested /\ r.token = auth[x].token
        /\ r.confirmed = auth[x].confirmed
    BY <2>2, Zenon DEF Authorization
  <2> HIDE DEF r
  <2>4. Gated(auth[x], enabled)
    BY <2>2, RowsAreGated, Zenon
  <2>5. Blank(auth[x])
    BY <2>1, <2>4, Zenon DEF Gated, Blank
  <2>6. GateStage(auth[x]) \in {"granted"} /\ GateStage(r) = "reserved" /\ Captured(r)
    BY <2>1, <2>3, <2>5 DEF Blank, GateStage, ClaimedStage, Captured
  <2> HIDE DEF x
  <2>7. RequestHasCapture' /\ Gate!Goes(x, {"granted"}, "reserved")
    BY <1>1, <2>1, <2>2, <2>3, <2>6, GoesGate
  <2> QED
    BY <2>2, <2>7 DEF GateStep, Gate!Next, Gate!Reserve
<1>3. CASE Heartbeat(a, w)
  BY <1>1, <1>3, RenewedGate, Zenon DEF Heartbeat
<1>4. CASE RequestFinal(a, w)
  <2>1. CASE EndExecution(a, "needs_review")
    BY <1>1, <2>1, RevokedGate, Zenon DEF EndExecution
  <2>2. CASE ~EndExecution(a, "needs_review")
    <3> DEFINE n == Renewed(auth[x])
               r == [n EXCEPT !.requested = TRUE, !.shot = n.shot + 1,
                              !.confirmed = 0, !.token = 0]
    <3>1. auth' = WithRow(x, r) /\ enabled /\ ~auth[x].paused
      BY <1>4, <2>2, Zenon DEF RequestFinal
    <3>2. x \in AuthIds /\ auth[x].state = "claimed" /\ auth[x] \in Authorization
      BY <1>4, HeldRow, Zenon DEF RequestFinal
    <3>3. n \in Authorization /\ SameRow(auth[x], n)
      BY <3>2, RenewedType, SameRowShapes, Zenon
    <3> HIDE DEF n
    <3>4. /\ r.state = n.state /\ r.app = n.app /\ r.paused = n.paused
          /\ r.requested = TRUE /\ r.confirmed = 0 /\ r.token = 0 /\ r.shot = n.shot + 1
      BY <3>3, Zenon DEF Authorization
    <3> HIDE DEF r
    <3>5. n.shot \in Nat
      BY <3>3, BoundsAssumption DEF Authorization
    <3>6. r.state = "claimed" /\ r.app = auth[x].app /\ ~r.paused /\ Captured(r)
      BY <3>1, <3>2, <3>3, <3>4, <3>5 DEF SameRow, Captured
    <3>7. GateStage(r) = "shown"
      BY <3>4, <3>6 DEF GateStage, ClaimedStage
    <3>8. GateStage(auth[x]) \in Gate!Reserved
      BY <3>1, <3>2 DEF GateStage, ClaimedStage, Gate!Reserved
    <3> HIDE DEF x
    <3>9. RequestHasCapture' /\ Gate!Goes(x, Gate!Reserved, "shown")
      BY <1>1, <3>1, <3>2, <3>6, <3>7, <3>8, GoesGate
    <3> QED
      BY <3>2, <3>9 DEF GateStep, Gate!Next, Gate!Show
  <2> QED
    BY <2>1, <2>2
<1>5. CASE Poll(a, w)
  <2>1. CASE auth' = WithRow(x, Renewed(auth[x]))
    BY <1>1, <2>1, RenewedGate, Zenon
  <2>2. CASE auth' # WithRow(x, Renewed(auth[x]))
    <3> DEFINE n == Renewed(auth[x])
               r == [n EXCEPT !.token = auth[x].confirmed, !.given = n.given \cup {auth[x].confirmed}]
    <3>1. /\ auth' = WithRow(x, r) /\ enabled /\ ~auth[x].paused /\ auth[x].requested
          /\ auth[x].confirmed # 0 /\ auth[x].token = 0
      BY <1>5, <2>2, Zenon DEF Poll
    <3>2. x \in AuthIds /\ auth[x].state = "claimed" /\ auth[x] \in Authorization
      BY <1>5, HeldRow, Zenon DEF Poll
    <3>3. n \in Authorization /\ SameRow(auth[x], n)
      BY <3>2, RenewedType, SameRowShapes, Zenon
    <3> HIDE DEF n
    <3>4. /\ r.state = n.state /\ r.app = n.app /\ r.paused = n.paused /\ r.shot = n.shot
          /\ r.requested = n.requested /\ r.token = auth[x].confirmed
      BY <3>3, Zenon DEF Authorization
    <3> HIDE DEF r
    <3>5. /\ r.state = "claimed" /\ r.app = auth[x].app /\ ~r.paused
          /\ r.shot = auth[x].shot /\ r.requested = auth[x].requested /\ r.token # 0
      BY <3>1, <3>2, <3>3, <3>4, Zenon DEF SameRow
    <3>6. GateStage(auth[x]) \in {"approved"} /\ GateStage(r) = "armed"
      BY <3>1, <3>2, <3>5 DEF GateStage, ClaimedStage
    <3>7. Captured(r)
      BY <3>2, <3>5, Zenon DEF Captured, RequestHasCapture
    <3> HIDE DEF x
    <3>8. RequestHasCapture' /\ Gate!Goes(x, {"approved"}, "armed")
      BY <1>1, <3>1, <3>2, <3>5, <3>6, <3>7, GoesGate
    <3> QED
      BY <3>2, <3>8 DEF GateStep, Gate!Next, Gate!Arm
  <2> QED
    BY <2>1, <2>2
<1>6. CASE Submit(a, w)
  <2>1. CASE EndExecution(a, "needs_review")
    BY <1>1, <2>1, RevokedGate, Zenon DEF EndExecution
  <2>2. CASE ~EndExecution(a, "needs_review")
    <3>1. /\ auth' = WithRow(x, Closed(auth[x], "consumed"))
          /\ enabled /\ ~auth[x].paused /\ auth[x].token # 0
      BY <1>6, <2>2, Zenon DEF Submit
    <3>2. x \in AuthIds /\ auth[x].state = "claimed"
      BY <1>6, HeldRow, Zenon DEF Submit
    <3>3. /\ GateStage(Closed(auth[x], "consumed")) = "sent"
          /\ Closed(auth[x], "consumed").app = auth[x].app /\ Captured(Closed(auth[x], "consumed"))
      BY StageClosed
    <3>4. GateStage(auth[x]) \in {"armed"}
      BY <3>1, <3>2 DEF GateStage, ClaimedStage
    <3> HIDE DEF x
    <3>5. RequestHasCapture' /\ Gate!Goes(x, {"armed"}, "sent")
      BY <1>1, <3>1, <3>2, <3>3, <3>4, GoesGate
    <3> QED
      BY <3>2, <3>5 DEF GateStep, Gate!Next, Gate!Send
  <2> QED
    BY <2>1, <2>2
<1>7. CASE Fail(a, w)
  BY <1>1, <1>7, RevokedGate, Zenon DEF Fail, EndExecution
<1> QED
  BY <1>2, <1>3, <1>4, <1>5, <1>6, <1>7, Zenon DEF ExecutorStep

\* Questions renew a lease, close rows, or leave them.
LEMMA QuestionStepGate ==
  ASSUME Inductive, RequestHasCapture, NEW q \in Questions, QuestionStep(q)
  PROVE  GateStep
<1>1. enabled' = enabled
  BY Zenon DEF QuestionStep, CreateQuestion, MarkDelivery, Answer, AnswerEnds, settings
<1>2. ASSUME NEW a \in Apps, CreateQuestion(a, q) PROVE GateStep
  BY <1>1, <1>2, NoRowGate, Zenon DEF CreateQuestion
<1>3. ASSUME NEW outcome \in {"delivered", "delivery_failed"}, MarkDelivery(q, outcome)
      PROVE  GateStep
  BY <1>1, <1>3, NoRowGate, Zenon DEF MarkDelivery
<1>4. ASSUME NEW via \in {"telegram", "panel"}, Answer(q, via) PROVE GateStep
  BY <1>1, <1>4, RenewedGate, Zenon DEF Answer
<1>5. ASSUME NEW via \in {"telegram", "panel"}, NEW answer \in {"manual", "stop"},
             AnswerEnds(q, via, answer)
      PROVE  GateStep
  BY <1>1, <1>5, RevokedGate, Zenon DEF AnswerEnds
<1> QED
  BY <1>2, <1>3, <1>4, <1>5, Zenon DEF QuestionStep

\* The kill-switch holds every reserved row and gives it back unapproved.
LEMMA SettingsStepGate ==
  ASSUME Inductive, RequestHasCapture, SettingsStep
  PROVE  GateStep
<1>1. auth \in [AuthIds -> Authorization]
  BY Zenon DEF Inductive, TypeOK
<1>2. CASE Pause
  <2>1. /\ enabled /\ enabled' = FALSE
        /\ auth' = [x \in AuthIds |->
                      IF x \in Running
                      THEN [auth[x] EXCEPT !.paused = TRUE, !.requested = FALSE,
                                           !.confirmed = 0, !.token = 0]
                      ELSE auth[x]]
    BY <1>2, Zenon DEF Pause
  <2>2. ASSUME NEW x \in AuthIds
        PROVE  /\ GateStage(auth'[x]) = IF GateStage(auth[x]) \in Gate!Reserved
                                        THEN "held" ELSE GateStage(auth[x])
               /\ auth'[x].app = auth[x].app /\ Captured(auth'[x])
    <3>1. CASE auth[x].state = "claimed"
      <4>1. x \in Running /\ auth[x] \in Authorization /\ ~auth[x].paused
        BY <2>1, <3>1, CurrentRowsRun, ClaimedIs, Zenon
      <4>2. auth'[x] = [auth[x] EXCEPT !.paused = TRUE, !.requested = FALSE,
                                       !.confirmed = 0, !.token = 0]
        BY <2>1, <4>1, Zenon
      <4>3. /\ auth'[x].state = auth[x].state /\ auth'[x].app = auth[x].app
            /\ auth'[x].paused = TRUE /\ auth'[x].requested = FALSE
        BY <4>1, <4>2, Zenon DEF Authorization
      <4>4. GateStage(auth[x]) \in Gate!Reserved
        BY <3>1, <4>1 DEF GateStage, ClaimedStage, Gate!Reserved
      <4>5. GateStage(auth'[x]) = "held"
        BY <3>1, <4>3 DEF GateStage, ClaimedStage
      <4> QED
        BY <4>3, <4>4, <4>5, Zenon DEF Captured
    <3>2. CASE auth[x].state # "claimed"
      <4>1. x \notin Running
        BY <3>2, Zenon DEF Running
      <4>2. auth'[x] = auth[x]
        BY <2>1, <4>1, Zenon
      <4>3. auth[x] \in Authorization
        BY <1>1, Zenon
      <4>4. GateStage(auth[x]) \notin Gate!Reserved
        BY <3>2, <4>3 DEF GateStage, Gate!Reserved, Authorization, Live
      <4> QED
        BY <4>2, <4>4, Zenon DEF Captured, RequestHasCapture
    <3> QED
      BY <3>1, <3>2
  <2>3. RequestHasCapture'
    BY <2>2 DEF RequestHasCapture, Captured
  <2>4. enabled /\ enabled' = FALSE
    BY <2>1, Zenon
  <2>5. Gate!Hold
    <3> DEFINE st == [x \in AuthIds |-> GateStage(auth[x])]
    <3>1. [x \in AuthIds |-> GateStage(auth'[x])]
            = [x \in AuthIds |-> IF st[x] \in Gate!Reserved THEN "held" ELSE st[x]]
      BY <2>2, Zenon
    <3>2. [x \in AuthIds |-> auth'[x].app] = [x \in AuthIds |-> auth[x].app]
      BY <2>2, Zenon
    <3> QED
      BY <2>4, <3>1, <3>2, Zenon DEF Gate!Hold
  <2> QED
    BY <2>3, <2>5 DEF GateStep, Gate!Next
<1>3. CASE ResumeAutomation
  <2> DEFINE paused == {x \in Running : auth[x].paused}
  <2>1. /\ ~enabled /\ enabled' = TRUE
        /\ auth' = [x \in AuthIds |->
                      IF x \in paused THEN [Renewed(auth[x]) EXCEPT !.paused = FALSE] ELSE auth[x]]
    BY <1>3, Zenon DEF ResumeAutomation
  <2>2. ASSUME NEW x \in AuthIds
        PROVE  /\ GateStage(auth'[x]) = IF GateStage(auth[x]) = "held"
                                        THEN "reserved" ELSE GateStage(auth[x])
               /\ auth'[x].app = auth[x].app /\ Captured(auth'[x])
    <3>1. CASE auth[x].state = "claimed"
      <4> DEFINE n == Renewed(auth[x])
      <4>1. /\ x \in Running /\ auth[x] \in Authorization /\ auth[x].paused
            /\ ~auth[x].requested /\ auth[x].confirmed = 0 /\ auth[x].token = 0
        BY <2>1, <3>1, CurrentRowsRun, ClaimedIs
      <4>2. auth'[x] = [n EXCEPT !.paused = FALSE]
        BY <2>1, <4>1, Zenon
      <4>3. n \in Authorization /\ SameRow(auth[x], n)
        BY <4>1, RenewedType, SameRowShapes, Zenon
      <4> HIDE DEF n
      <4>4. /\ auth'[x].state = n.state /\ auth'[x].app = n.app /\ auth'[x].paused = FALSE
            /\ auth'[x].requested = n.requested
            /\ auth'[x].confirmed = n.confirmed /\ auth'[x].token = n.token
        BY <4>2, <4>3, Zenon DEF Authorization
      <4>5. /\ auth'[x].state = "claimed" /\ auth'[x].app = auth[x].app /\ ~auth'[x].paused
            /\ ~auth'[x].requested /\ auth'[x].confirmed = 0 /\ auth'[x].token = 0
        BY <3>1, <4>1, <4>3, <4>4, Zenon DEF SameRow
      <4>6. GateStage(auth[x]) = "held" /\ GateStage(auth'[x]) = "reserved"
        BY <3>1, <4>1, <4>5 DEF GateStage, ClaimedStage
      <4> QED
        BY <4>5, <4>6, Zenon DEF Captured
    <3>2. CASE auth[x].state # "claimed"
      <4>1. x \notin paused
        BY <3>2, Zenon DEF Running
      <4>2. auth'[x] = auth[x]
        BY <2>1, <4>1, Zenon
      <4>3. auth[x] \in Authorization
        BY <1>1, Zenon
      <4>4. GateStage(auth[x]) # "held"
        BY <3>2, <4>3 DEF GateStage, Authorization, Live
      <4> QED
        BY <4>2, <4>4, Zenon DEF Captured, RequestHasCapture
    <3> QED
      BY <3>1, <3>2
  <2>3. RequestHasCapture'
    BY <2>2 DEF RequestHasCapture, Captured
  <2>4. Gate!Resume
    BY <2>1, <2>2 DEF Gate!Resume
  <2> QED
    BY <2>3, <2>4 DEF GateStep, Gate!Next
<1>4. ASSUME NEW n, SetDailyLimit(n) PROVE GateStep
  BY <1>4, NoRowGate, Zenon DEF SetDailyLimit, panelVars
<1> QED
  BY <1>2, <1>3, <1>4, Zenon DEF SettingsStep

\* The transaction of AUTORIZO grants to an application that has nothing open and nothing sent.
LEMMA AuthorizeStepGate ==
  ASSUME Inductive, RequestHasCapture, AuthorizeStep
  PROVE  GateStep
<1>1. app \in [Apps -> Application] /\ auth \in [AuthIds -> Authorization]
  BY Zenon DEF Inductive, TypeOK
<1>2. CASE AuthorizeRefused
  BY <1>2, NoRowGate, Zenon DEF AuthorizeRefused, panelVars, settings
<1>3. ASSUME NEW x \in AuthIds, AuthorizeWrite(x)
      PROVE  GateStep
  <2>1. PICK a \in Apps : a = desk.app
    BY <1>3, Zenon DEF AuthorizeWrite, Inductive, TypeOK, Call
  <2> DEFINE r == [NoAuthorization EXCEPT !.state = "issued", !.app = a,
                                          !.version = desk.version, !.url = desk.url]
  <2>2. /\ auth[x].state = "none" /\ ~app[a].granted
        /\ auth' = WithRow(x, r) /\ enabled /\ enabled' = enabled
    BY <1>3, <2>1, Zenon DEF AuthorizeWrite, settings
  <2>3. app[a].auth = None
    BY <2>2, Zenon DEF Inductive, Ownership, GrantIsWhole
  <2>4. r.state = "issued" /\ r.app = a /\ ~r.requested
    BY Zenon DEF NoAuthorization
  <2> HIDE DEF r
  <2>5. ASSUME NEW y \in AuthIds PROVE auth'[y] = IF y = x THEN r ELSE auth[y]
    BY <1>1, <2>2, Zenon DEF WithRow
  <2>6. ASSUME NEW y \in AuthIds, auth[y].app = a
        PROVE  auth[y].state \notin Live \cup {"consumed"}
    <3>1. y # None
      BY NoneAssumption, Zenon
    <3> QED
      BY <2>3, <2>6, <3>1, Zenon
         DEF Inductive, Ownership, LiveRowIsCurrent, SubmissionIsFinal
  <2>7. ASSUME NEW y \in AuthIds, auth[y].app = a
        PROVE  GateStage(auth[y]) \notin Gate!Open \cup {"sent"}
    <3>1. auth[y] \in Authorization /\ auth[y].state \notin Live \cup {"consumed"}
      BY <1>1, <2>6, <2>7, Zenon
    <3> QED
      BY <3>1 DEF GateStage, Gate!Open, Gate!Reserved, Live, Authorization
  <2>8. GateStage(auth[x]) = "none" /\ GateStage(r) = "granted"
    BY <2>2, <2>4 DEF GateStage
  <2>9. RequestHasCapture'
    BY <2>4, <2>5, Zenon DEF RequestHasCapture
  <2>10. /\ enabled /\ enabled' = enabled
         /\ \A y \in AuthIds : /\ GateStage(auth'[y]) = IF y = x THEN "granted" ELSE GateStage(auth[y])
                               /\ auth'[y].app = IF y = x THEN a ELSE auth[y].app
    BY <2>2, <2>4, <2>5, <2>8, Zenon
  <2>11. Gate!Grant(x, a)
    <3> DEFINE st == [y \in AuthIds |-> GateStage(auth[y])]
               ow == [y \in AuthIds |-> auth[y].app]
    <3>1. st[x] = "none" /\ ~\E y \in AuthIds : ow[y] = a /\ st[y] \in Gate!Open \cup {"sent"}
      BY <2>7, <2>8, Zenon
    <3>2. [y \in AuthIds |-> GateStage(auth'[y])] = [st EXCEPT ![x] = "granted"]
      BY <2>10
    <3>3. [y \in AuthIds |-> auth'[y].app] = [ow EXCEPT ![x] = a]
      BY <2>10
    <3> QED
      BY <2>10, <3>1, <3>2, <3>3, Zenon DEF Gate!Grant
  <2> QED
    BY <2>9, <2>11 DEF GateStep, Gate!Next
<1> QED
  BY <1>2, <1>3, Zenon DEF AuthorizeStep

\* What the user does to the job and its resume closes rows or leaves them.
LEMMA JobStepGate ==
  ASSUME RequestHasCapture, NEW a \in Apps, JobStep(a)
  PROVE  GateStep
<1>1. enabled' = enabled
  BY Zenon DEF JobStep, UpdateUrl, EditOpening, DecideInterested, DecideNoTime, RejectJob,
     UndoDecision, Archive, Restore, TransitionJob, EditResume, ApproveResume, settings
<1>2. CASE \E url \in 1..MaxUrl : UpdateUrl(a, url)
  <2>1. auth' = RevokedRows({a}) \/ auth' = auth
    BY <1>2, Zenon DEF UpdateUrl
  <2> QED
    BY <1>1, <2>1, RevokedGate, NoRowGate, Zenon
<1>3. CASE DecideNoTime(a) \/ RejectJob(a) \/ Archive(a)
  BY <1>1, <1>3, WithdrawnGate, Zenon DEF DecideNoTime, RejectJob, Archive
<1>4. CASE EditResume(a)
  BY <1>1, <1>4, WithdrawnGate, NoRowGate, Zenon DEF EditResume
<1>5. CASE \/ \E opening \in Opening : EditOpening(a, opening)
           \/ \E c \in Commands : TransitionJob(a, c)
           \/ DecideInterested(a) \/ UndoDecision(a) \/ Restore(a) \/ ApproveResume(a)
  <2>1. auth' = auth
    BY <1>5, Zenon DEF EditOpening, DecideInterested, UndoDecision, Restore, TransitionJob,
       ApproveResume
  <2> QED
    BY <1>1, <2>1, NoRowGate
<1> QED
  BY <1>2, <1>3, <1>4, <1>5, Zenon DEF JobStep

\* So do the expiration cron and the collector.
LEMMA CronStepGate ==
  ASSUME RequestHasCapture, CronStep
  PROVE  GateStep
<1>1. CASE CronRead
  BY <1>1, NoRowGate, Zenon DEF CronRead, panelVars, settings
<1>2. ASSUME NEW a \in Apps, CronExpire(a) PROVE GateStep
  <2>1. enabled' = enabled /\ (WithdrawPending(a) \/ auth' = auth)
    BY <1>2, Zenon DEF CronExpire, ExpireJob, settings
  <2> QED
    BY <2>1, WithdrawnGate, NoRowGate, Zenon
<1>3. ASSUME NEW a \in Apps, NEW url \in 1..MaxUrl, NEW opening \in Opening,
             WriteFromSource(a, url, opening)
      PROVE  GateStep
  <2>1. enabled' = enabled /\ (WithdrawPending(a) \/ auth' = auth)
    BY <1>3, Zenon DEF WriteFromSource, ExpireJob, settings
  <2> QED
    BY <2>1, WithdrawnGate, NoRowGate, Zenon
<1> QED
  BY <1>1, <1>2, <1>3, Zenon DEF CronStep

\* Time and crashes leave every row in its stage.
LEMMA TimeStepGate ==
  ASSUME Inductive, RequestHasCapture, TimeStep
  PROVE  GateStep
<1>1. auth \in [AuthIds -> Authorization] /\ enabled' = enabled
  BY Zenon DEF Inductive, TypeOK, TimeStep, TtlLapse, LeaseLapse, DeadlinePasses, NewDay,
     WorkerCrash, WorkerRestart, settings
<1>2. ASSUME NEW x \in AuthIds
      PROVE  \/ auth'[x] = auth[x]
             \/ auth'[x] = [auth[x] EXCEPT !.ttlOver = TRUE]
             \/ auth'[x] = [auth[x] EXCEPT !.leaseOver = TRUE]
             \/ auth'[x] = [auth[x] EXCEPT !.today = FALSE]
             \/ auth'[x] = [auth[x] EXCEPT !.given = {}]
  <2>1. ASSUME NEW y \in AuthIds, TtlLapse(y)
        PROVE  auth'[x] = auth[x] \/ auth'[x] = [auth[x] EXCEPT !.ttlOver = TRUE]
    BY <1>1, <2>1, Zenon DEF TtlLapse
  <2>2. ASSUME NEW y \in AuthIds, LeaseLapse(y)
        PROVE  auth'[x] = auth[x] \/ auth'[x] = [auth[x] EXCEPT !.leaseOver = TRUE]
    BY <1>1, <2>2, Zenon DEF LeaseLapse
  <2>3. ASSUME NewDay PROVE auth'[x] = [auth[x] EXCEPT !.today = FALSE]
    BY <2>3, Zenon DEF NewDay
  <2>4. ASSUME NEW w \in Workers, WorkerCrash(w)
        PROVE  auth'[x] = auth[x] \/ auth'[x] = [auth[x] EXCEPT !.given = {}]
    BY <2>4, Zenon DEF WorkerCrash
  <2>5. ASSUME \/ \E a \in Apps : DeadlinePasses(a)
               \/ \E w \in Workers : WorkerRestart(w)
        PROVE  auth'[x] = auth[x]
    BY <2>5, Zenon DEF DeadlinePasses, WorkerRestart, panelVars
  <2> QED
    BY <2>1, <2>2, <2>3, <2>4, <2>5, Zenon DEF TimeStep
<1>3. ASSUME NEW x \in AuthIds PROVE SameRow(auth[x], auth'[x])
  <2>1. auth[x] \in Authorization
    BY <1>1, Zenon
  <2> QED
    BY <1>2, <2>1, SameRowShapes, Zenon
<1> QED
  BY <1>1, <1>3, SameGate

\* The sweep closes all it condemns at once.
LEMMA ExpireDueGate ==
  ASSUME RequestHasCapture, ExpireDue
  PROVE  GateStep
<1>1. /\ enabled' = enabled
      /\ auth' = [x \in AuthIds |-> IF x \in Due THEN Closed(auth[x], "expired") ELSE auth[x]]
  BY Zenon DEF ExpireDue, settings
<1>2. Due \in SUBSET AuthIds /\ \A x \in Due : auth[x].state \in Live
  BY Zenon DEF Due, DueIssued, DueLease, DueWaiting, Live
<1>3. \A x \in AuthIds : IF x \in Due THEN auth[x].state \in Live /\ auth'[x] = Closed(auth[x], "expired")
                                       ELSE auth'[x] = auth[x]
  BY <1>1, <1>2, Zenon
<1> QED
  BY <1>1, <1>2, <1>3, CloseGate

-----------------------------------------------------------------------------
(* The theorem *)

\* Every step of the system is a step of the gate, or none.
LEMMA NextGate == Inductive /\ RequestHasCapture /\ [Next]_vars => GateStep
<1> SUFFICES ASSUME Inductive, RequestHasCapture, [Next]_vars PROVE GateStep
  OBVIOUS
<1>1. CASE DashboardStep
  <2>1. CASE RecoverStuck
    BY <2>1, RevokedGate, Zenon DEF RecoverStuck, settings
  <2> QED
    BY <1>1, <2>1, UserStepGate, JobStepGate, ExecutorStepGate, QuestionStepGate, ExpireDueGate,
       Zenon DEF DashboardStep
<1>2. CASE UNCHANGED vars
  BY <1>2, NoRowGate, Zenon DEF vars, panelVars, settings
<1> QED
  BY <1>1, <1>2, SettingsStepGate, AuthorizeStepGate, CronStepGate, TimeStepGate, Zenon DEF Next

\* The code and the gate start alike.
LEMMA InitGate == Init => Gate!Init /\ RequestHasCapture
<1> SUFFICES ASSUME Init PROVE Gate!Init /\ RequestHasCapture
  OBVIOUS
<1>1. /\ enabled = TRUE
      /\ \A x \in AuthIds : /\ auth[x].state = "none" /\ auth[x].app = None
                            /\ auth[x].requested = FALSE
  BY Zenon DEF Init, NoAuthorization
<1>2. \A x \in AuthIds : GateStage(auth[x]) = "none"
  BY <1>1 DEF GateStage
<1> QED
  BY <1>1, <1>2 DEF Gate!Init, RequestHasCapture

(***************************************************************************)
(* Every behaviour of the code is one of the gate's: whatever the order of *)
(* panel, executor, question, kill-switch, cron, collector, timer and      *)
(* crash, an authorization is sent only after a reservation, a capture, an *)
(* ENVIAR and a token in that order, all after the last time the kill-     *)
(* switch was turned off; and what is closed stays closed.                 *)
(***************************************************************************)
THEOREM GateIsImplemented == Spec => ImplementsGate
<1>1. Init => Gate!Init /\ RequestHasCapture
  BY InitGate
<1>2. Inductive /\ RequestHasCapture /\ [Next]_vars => [Gate!Next]_(Gate!vars) /\ RequestHasCapture'
  BY NextGate DEF GateStep
<1>3. Spec => []Inductive
  BY InductiveHolds
<1> QED
  BY <1>1, <1>2, <1>3, PTL DEF Spec, ImplementsGate, Gate!Spec

-----------------------------------------------------------------------------
(* The day's limit *)

\* The rows checkFinalSubmit counts.
Counts(r) == r.state = "consumed" /\ r.today
Counted == {x \in AuthIds : Counts(auth[x])}

\* The step adds nothing to the day's count.
NoneSpent == \A x \in AuthIds : Counts(auth'[x]) => Counts(auth[x])

\* The step writes one row, with the count below the limit.
OneSpent ==
  Usage < dailyLimit /\ \E x \in AuthIds : \A y \in AuthIds : y # x => auth'[y] = auth[y]

-----------------------------------------------------------------------------
(* The ways the handlers write application_authorizations *)

\* A table nobody writes.
LEMMA SpentSame ==
  ASSUME auth' = auth
  PROVE  NoneSpent
BY Zenon DEF NoneSpent

\* One row, written as something that is not a submission.
LEMMA SpentRow ==
  ASSUME TypeOK, NEW x, NEW r, auth' = WithRow(x, r), x \in AuthIds => r.state # "consumed"
  PROVE  NoneSpent
<1> SUFFICES ASSUME NEW y \in AuthIds, Counts(auth'[y]) PROVE Counts(auth[y])
  BY Zenon DEF NoneSpent
<1>1. auth \in [AuthIds -> Authorization]
  BY Zenon DEF TypeOK
<1>2. CASE y = x
  BY <1>1, <1>2, Zenon DEF WithRow, Counts
<1>3. CASE y # x
  BY <1>1, <1>3, Zenon DEF WithRow
<1> QED
  BY <1>2, <1>3

\* A claimed row whose lease is renewed.
LEMMA SpentRenewed ==
  ASSUME TypeOK, NEW x, auth' = WithRow(x, Renewed(auth[x])), auth[x].state = "claimed"
  PROVE  NoneSpent
<1>1. ASSUME x \in AuthIds PROVE Renewed(auth[x]).state # "consumed"
  <2>1. auth[x] \in Authorization
    BY <1>1, Zenon DEF TypeOK
  <2>2. Renewed(auth[x]).state = auth[x].state
    BY <2>1, SameRowShapes, Zenon DEF SameRow
  <2> QED
    BY <2>2, Zenon
<1> QED
  BY <1>1, SpentRow, Zenon

\* revokeAuthorizationRows, of any applications.
LEMMA SpentRevoked ==
  ASSUME NEW S, auth' = RevokedRows(S)
  PROVE  NoneSpent
<1> SUFFICES ASSUME NEW x \in AuthIds, Counts(auth'[x]) PROVE Counts(auth[x])
  BY Zenon DEF NoneSpent
<1>1. auth'[x] = Closed(auth[x], "revoked") \/ auth'[x] = auth[x]
  BY Zenon DEF RevokedRows
<1>2. Closed(auth[x], "revoked").state # "consumed"
  BY ClosedShape, Zenon
<1> QED
  BY <1>1, <1>2, Zenon DEF Counts

\* withdrawPendingAuthorizations revokes, or has nothing to withdraw.
LEMMA SpentWithdrawn ==
  ASSUME NEW a, WithdrawPending(a)
  PROVE  NoneSpent
BY SpentRevoked, SpentSame, Zenon DEF WithdrawPending

\* expireJob withdraws what waits.
LEMMA SpentExpired ==
  ASSUME NEW a, NEW j, ExpireJob(a, j)
  PROVE  NoneSpent
BY SpentWithdrawn, Zenon DEF ExpireJob

\* The end of an execution revokes.
LEMMA SpentEnded ==
  ASSUME NEW a, NEW s, EndExecution(a, s)
  PROVE  NoneSpent
BY SpentRevoked, Zenon DEF EndExecution

-----------------------------------------------------------------------------
(* The actions *)

\* The user's decisions about the application.
LEMMA UserStepSpends ==
  ASSUME TypeOK, NEW a \in Apps, UserStep(a)
  PROVE  NoneSpent
<1>1. CASE \E mode \in {"assisted", "manual"} : CreateApplication(a, mode)
  BY <1>1, SpentSame, Zenon DEF CreateApplication
<1>2. CASE AuthorizeRead(a)
  BY <1>2, SpentSame, Zenon DEF AuthorizeRead, panelVars
<1>3. CASE Revoke(a)
  BY <1>3, SpentRevoked, Zenon DEF Revoke
<1>4. CASE SelectManual(a)
  BY <1>4, SpentRevoked, Zenon DEF SelectManual
<1>5. CASE SendToReview(a)
  BY <1>5, SpentSame, Zenon DEF SendToReview
<1>6. CASE ReportSubmission(a)
  BY <1>6, SpentSame, Zenon DEF ReportSubmission
<1>7. CASE \E outcome \in {"accepted", "rejected"} : ReportOutcome(a, outcome)
  BY <1>7, SpentSame, Zenon DEF ReportOutcome
<1>8. CASE ConfirmFinal(a)
  <2> DEFINE x == app[a].auth
             n == Renewed(auth[x])
             r == [n EXCEPT !.confirmed = auth[x].shot]
  <2>1. auth' = WithRow(x, r) /\ auth[x].state = "claimed"
    BY <1>8, Zenon DEF ConfirmFinal, Current
  <2>2. ASSUME x \in AuthIds PROVE r.state # "consumed"
    <3>1. auth[x] \in Authorization
      BY <2>2, Zenon DEF TypeOK
    <3>2. n \in Authorization /\ n.state = auth[x].state
      BY <3>1, RenewedType, SameRowShapes, Zenon DEF SameRow
    <3> HIDE DEF n
    <3>3. r.state = n.state
      BY <3>2, Zenon DEF Authorization
    <3> QED
      BY <2>1, <3>2, <3>3, Zenon
  <2> HIDE DEF r
  <2> QED
    BY <2>1, <2>2, SpentRow, Zenon
<1>9. CASE CancelFinal(a)
  BY <1>9, SpentEnded, Zenon DEF CancelFinal
<1> QED
  BY <1>1, <1>2, <1>3, <1>4, <1>5, <1>6, <1>7, <1>8, <1>9, Zenon DEF UserStep

\* The job or its resume changes under the application.
LEMMA JobStepSpends ==
  ASSUME TypeOK, NEW a \in Apps, JobStep(a)
  PROVE  NoneSpent
<1>1. CASE \E url \in 1..MaxUrl : UpdateUrl(a, url)
  BY <1>1, SpentRevoked, SpentSame, Zenon DEF UpdateUrl
<1>2. CASE \E opening \in Opening : EditOpening(a, opening)
  BY <1>2, SpentSame, Zenon DEF EditOpening
<1>3. CASE DecideInterested(a) \/ UndoDecision(a) \/ Restore(a) \/ ApproveResume(a)
  BY <1>3, SpentSame, Zenon DEF DecideInterested, UndoDecision, Restore, ApproveResume
<1>4. CASE DecideNoTime(a) \/ RejectJob(a) \/ Archive(a)
  BY <1>4, SpentWithdrawn, Zenon DEF DecideNoTime, RejectJob, Archive
<1>5. CASE \E c \in Commands : TransitionJob(a, c)
  BY <1>5, SpentSame, Zenon DEF TransitionJob
<1>6. CASE EditResume(a)
  BY <1>6, SpentSame, SpentWithdrawn, Zenon DEF EditResume
<1> QED
  BY <1>1, <1>2, <1>3, <1>4, <1>5, <1>6, Zenon DEF JobStep

\* The executor's routes: a submission is counted before it is made.
LEMMA ExecutorStepSpends ==
  ASSUME TypeOK, NEW a \in Apps, NEW w \in alive, ExecutorStep(a, w)
  PROVE  NoneSpent \/ OneSpent
<1> DEFINE x == app[a].auth
<1>1. CASE Claim(a, w)
  <2> DEFINE r == [auth[x] EXCEPT !.state = "claimed", !.claimedBy = w, !.leaseOver = FALSE]
  <2>1. auth' = WithRow(x, r)
    BY <1>1, Zenon DEF Claim
  <2>2. ASSUME x \in AuthIds PROVE r.state # "consumed"
    <3>1. auth[x] \in Authorization
      BY <2>2, Zenon DEF TypeOK
    <3>2. r.state = "claimed"
      BY <3>1, Zenon DEF Authorization
    <3> QED
      BY <3>2, Zenon
  <2> HIDE DEF r
  <2> QED
    BY <2>1, <2>2, SpentRow, Zenon
<1>2. CASE Heartbeat(a, w)
  BY <1>2, SpentRenewed, Zenon DEF Heartbeat, HeldBy, Current
<1>3. CASE RequestFinal(a, w)
  <2>1. CASE EndExecution(a, "needs_review")
    BY <2>1, SpentEnded
  <2>2. CASE ~EndExecution(a, "needs_review")
    <3> DEFINE n == Renewed(auth[x])
               r == [n EXCEPT !.requested = TRUE, !.shot = n.shot + 1,
                              !.confirmed = 0, !.token = 0]
    <3>1. auth' = WithRow(x, r) /\ auth[x].state = "claimed"
      BY <1>3, <2>2, Zenon DEF RequestFinal, HeldBy, Current
    <3>2. ASSUME x \in AuthIds PROVE r.state # "consumed"
      <4>1. auth[x] \in Authorization
        BY <3>2, Zenon DEF TypeOK
      <4>2. n \in Authorization /\ n.state = auth[x].state
        BY <4>1, RenewedType, SameRowShapes, Zenon DEF SameRow
      <4> HIDE DEF n
      <4>3. r.state = n.state
        BY <4>2, Zenon DEF Authorization
      <4> QED
        BY <3>1, <4>2, <4>3, Zenon
    <3> HIDE DEF r
    <3> QED
      BY <3>1, <3>2, SpentRow, Zenon
  <2> QED
    BY <2>1, <2>2
<1>4. CASE Poll(a, w)
  <2>1. auth[x].state = "claimed"
    BY <1>4, Zenon DEF Poll, HeldBy, Current
  <2>2. CASE auth' = WithRow(x, Renewed(auth[x]))
    BY <2>1, <2>2, SpentRenewed
  <2>3. CASE auth' # WithRow(x, Renewed(auth[x]))
    <3> DEFINE n == Renewed(auth[x])
               r == [n EXCEPT !.token = auth[x].confirmed, !.given = n.given \cup {auth[x].confirmed}]
    <3>1. auth' = WithRow(x, r)
      BY <1>4, <2>3, Zenon DEF Poll
    <3>2. ASSUME x \in AuthIds PROVE r.state # "consumed"
      <4>1. auth[x] \in Authorization
        BY <3>2, Zenon DEF TypeOK
      <4>2. n \in Authorization /\ n.state = auth[x].state
        BY <4>1, RenewedType, SameRowShapes, Zenon DEF SameRow
      <4> HIDE DEF n
      <4>3. r.state = n.state
        BY <4>2, Zenon DEF Authorization
      <4> QED
        BY <2>1, <4>2, <4>3, Zenon
    <3> HIDE DEF r
    <3> QED
      BY <3>1, <3>2, SpentRow, Zenon
  <2> QED
    BY <2>2, <2>3
<1>5. CASE Submit(a, w)
  <2>1. CASE EndExecution(a, "needs_review")
    BY <2>1, SpentEnded
  <2>2. CASE ~EndExecution(a, "needs_review")
    <3>1. Usage < dailyLimit /\ auth' = WithRow(x, Closed(auth[x], "consumed"))
      BY <1>5, <2>2, Zenon DEF Submit
    <3>2. CASE x \in AuthIds
      BY <3>1, <3>2, Zenon DEF WithRow, OneSpent, TypeOK
    <3>3. CASE x \notin AuthIds
      BY <3>1, <3>3, SpentRow, Zenon
    <3> QED
      BY <3>2, <3>3
  <2> QED
    BY <2>1, <2>2
<1>6. CASE Fail(a, w)
  BY <1>6, SpentEnded, Zenon DEF Fail
<1> QED
  BY <1>1, <1>2, <1>3, <1>4, <1>5, <1>6, Zenon DEF ExecutorStep

\* The questions, whose answers renew a claim or end it.
LEMMA QuestionStepSpends ==
  ASSUME TypeOK, NEW q \in Questions, QuestionStep(q)
  PROVE  NoneSpent
<1>1. CASE \E a \in Apps : CreateQuestion(a, q)
  BY <1>1, SpentSame, Zenon DEF CreateQuestion
<1>2. CASE \E outcome \in {"delivered", "delivery_failed"} : MarkDelivery(q, outcome)
  BY <1>2, SpentSame, Zenon DEF MarkDelivery
<1>3. ASSUME NEW via \in {"telegram", "panel"}, Answer(q, via) PROVE NoneSpent
  BY <1>3, SpentRenewed, Zenon DEF Answer
<1>4. ASSUME NEW via \in {"telegram", "panel"}, NEW answer \in {"manual", "stop"},
             AnswerEnds(q, via, answer)
      PROVE  NoneSpent
  BY <1>4, SpentRevoked, Zenon DEF AnswerEnds
<1> QED
  BY <1>1, <1>2, <1>3, <1>4, Zenon DEF QuestionStep

\* The server's sweep closes rows as expired or revoked.
LEMMA SweepSpends ==
  ASSUME ExpireDue \/ RecoverStuck
  PROVE  NoneSpent
<1>1. CASE ExpireDue
  <2> SUFFICES ASSUME NEW x \in AuthIds, Counts(auth'[x]) PROVE Counts(auth[x])
    BY Zenon DEF NoneSpent
  <2>1. auth'[x] = Closed(auth[x], "expired") \/ auth'[x] = auth[x]
    BY <1>1, Zenon DEF ExpireDue
  <2>2. Closed(auth[x], "expired").state # "consumed"
    BY ClosedShape, Zenon
  <2> QED
    BY <2>1, <2>2, Zenon DEF Counts
<1>2. CASE RecoverStuck
  BY <1>2, SpentRevoked, Zenon DEF RecoverStuck
<1> QED
  BY <1>1, <1>2

\* The kill-switch, the limit itself, and the second half of AUTORIZO.
LEMMA SettingsStepSpends ==
  ASSUME TypeOK, SettingsStep \/ AuthorizeStep
  PROVE  NoneSpent
<1> USE DEF Counts
<1>1. CASE Pause \/ ResumeAutomation
  <2> SUFFICES ASSUME NEW x \in AuthIds, Counts(auth'[x]) PROVE Counts(auth[x])
    BY Zenon DEF NoneSpent
  <2>1. auth[x] \in Authorization
    BY Zenon DEF TypeOK
  <2>2. CASE x \notin Running
    BY <1>1, <2>2, Zenon DEF Pause, ResumeAutomation
  <2>3. CASE x \in Running
    <3>1. auth[x].state = "claimed"
      BY <2>3, Zenon DEF Running
    <3> DEFINE n == Renewed(auth[x])
    <3>2. n \in Authorization /\ n.state = auth[x].state
      BY <2>1, RenewedType, SameRowShapes, Zenon DEF SameRow
    <3>3. \/ auth'[x] = [auth[x] EXCEPT !.paused = TRUE, !.requested = FALSE,
                                        !.confirmed = 0, !.token = 0]
          \/ auth'[x] = [n EXCEPT !.paused = FALSE]
          \/ auth'[x] = auth[x]
      BY <1>1, <2>3, Zenon DEF Pause, ResumeAutomation
    <3> HIDE DEF n
    <3>4. auth'[x].state = "claimed"
      BY <2>1, <3>1, <3>2, <3>3, Zenon DEF Authorization
    <3> QED
      BY <3>4, Zenon
  <2> QED
    BY <2>2, <2>3
<1>2. CASE \E n \in Limits : SetDailyLimit(n)
  BY <1>2, SpentSame, Zenon DEF SetDailyLimit, panelVars
<1>3. CASE AuthorizeRefused
  BY <1>3, SpentSame, Zenon DEF AuthorizeRefused, panelVars
<1>4. ASSUME NEW x \in AuthIds, AuthorizeWrite(x) PROVE NoneSpent
  <2> DEFINE r == [NoAuthorization EXCEPT !.state = "issued", !.app = desk.app,
                                          !.version = desk.version, !.url = desk.url]
  <2>1. auth' = WithRow(x, r)
    BY <1>4, Zenon DEF AuthorizeWrite
  <2>2. r.state = "issued"
    BY Zenon DEF NoAuthorization
  <2> HIDE DEF r
  <2> QED
    BY <2>1, <2>2, SpentRow, Zenon
<1> QED
  BY <1>1, <1>2, <1>3, <1>4, Zenon DEF SettingsStep, AuthorizeStep

\* The expiration cron and the sources withdraw what waits.
LEMMA CronStepSpends ==
  ASSUME CronStep
  PROVE  NoneSpent
<1>1. CASE CronRead
  BY <1>1, SpentSame, Zenon DEF CronRead, panelVars
<1>2. ASSUME NEW a \in Apps, CronExpire(a) PROVE NoneSpent
  BY <1>2, SpentExpired, SpentSame, Zenon DEF CronExpire
<1>3. ASSUME NEW a \in Apps, NEW url \in 1..MaxUrl, NEW opening \in Opening,
             WriteFromSource(a, url, opening)
      PROVE  NoneSpent
  BY <1>3, SpentExpired, SpentSame, Zenon DEF WriteFromSource
<1> QED
  BY <1>1, <1>2, <1>3, Zenon DEF CronStep

\* Time, crashes and restarts submit nothing; a new day empties the count.
LEMMA TimeStepSpends ==
  ASSUME TypeOK, TimeStep
  PROVE  NoneSpent
<1> SUFFICES ASSUME NEW x \in AuthIds, Counts(auth'[x]) PROVE Counts(auth[x])
  BY Zenon DEF NoneSpent
<1>1. auth[x] \in Authorization /\ auth \in [AuthIds -> Authorization]
  BY Zenon DEF TypeOK
<1>2. \/ auth'[x] = auth[x]
      \/ auth'[x] = [auth[x] EXCEPT !.ttlOver = TRUE]
      \/ auth'[x] = [auth[x] EXCEPT !.leaseOver = TRUE]
      \/ auth'[x] = [auth[x] EXCEPT !.today = FALSE]
      \/ auth'[x] = [auth[x] EXCEPT !.given = {}]
  BY <1>1, Zenon DEF TimeStep, TtlLapse, LeaseLapse, DeadlinePasses, NewDay, WorkerCrash,
     WorkerRestart, panelVars
<1> QED
  BY <1>1, <1>2, Zenon DEF Counts, Authorization

\* Every step of the system.
LEMMA NextSpends ==
  ASSUME TypeOK, [Next]_vars
  PROVE  NoneSpent \/ OneSpent
<1>1. CASE DashboardStep
  BY <1>1, UserStepSpends, JobStepSpends, ExecutorStepSpends, QuestionStepSpends, SweepSpends,
     Zenon DEF DashboardStep
<1>2. CASE UNCHANGED vars
  BY <1>2, SpentSame, Zenon DEF vars, panelVars
<1> QED
  BY <1>1, <1>2, SettingsStepSpends, CronStepSpends, TimeStepSpends, Zenon DEF Next

-----------------------------------------------------------------------------

\* What the two kinds of step do to the count.
LEMMA CountGrows ==
  ASSUME TypeOK, NoneSpent \/ OneSpent, Usage' > Usage
  PROVE  Usage' <= dailyLimit
<1>1. /\ IsFiniteSet(Counted) /\ IsFiniteSet(Counted')
      /\ Usage = Cardinality(Counted) /\ Usage' = Cardinality(Counted')
  <2>1. IsFiniteSet(Counted) /\ IsFiniteSet(Counted')
    BY FiniteAssumption, FS_Subset, Zenon DEF Counted
  <2>2. Usage = Cardinality(Counted) /\ Usage' = Cardinality(Counted')
    BY Zenon DEF Usage, Counted, Counts
  <2> QED
    BY <2>1, <2>2
<1>2. Usage \in Nat /\ Usage' \in Nat /\ dailyLimit \in Nat
  BY <1>1, FS_CardinalityType, BoundsAssumption DEF TypeOK
<1>3. CASE NoneSpent
  <2>1. Counted' \subseteq Counted
    BY <1>3, Zenon DEF Counted, NoneSpent
  <2>2. Cardinality(Counted') <= Cardinality(Counted)
    BY <1>1, <2>1, FS_Subset
  <2> QED
    BY <1>1, <1>2, <2>2
<1>4. CASE OneSpent
  <2>1. PICK x \in AuthIds : \A y \in AuthIds : y # x => auth'[y] = auth[y]
    BY <1>4, Zenon DEF OneSpent
  <2>2. Counted' \subseteq Counted \cup {x}
    BY <2>1, Zenon DEF Counted
  <2>3. /\ IsFiniteSet(Counted \cup {x})
        /\ Cardinality(Counted \cup {x}) <= Cardinality(Counted) + 1
    <3>1. /\ IsFiniteSet(Counted \cup {x})
          /\ Cardinality(Counted \cup {x})
               = IF x \in Counted THEN Cardinality(Counted) ELSE Cardinality(Counted) + 1
      BY <1>1, FS_AddElement, Zenon
    <3> QED
      BY <1>1, <1>2, <3>1
  <2>4. Cardinality(Counted') <= Cardinality(Counted \cup {x})
    BY <2>2, <2>3, FS_Subset
  <2>5. Cardinality(Counted \cup {x}) \in Nat /\ Usage < dailyLimit
    BY <1>4, <2>3, FS_CardinalityType DEF OneSpent
  <2> QED
    BY <1>1, <1>2, <2>3, <2>4, <2>5
<1> QED
  BY <1>3, <1>4

(***************************************************************************)
(* No automatic submission takes the day past the limit in force when it   *)
(* is recorded, however many executions passed the count of their dry run  *)
(* before it and whatever the user did to the limit since                  *)
(* (checkFinalSubmit, submitAuthorizedApplication).                        *)
(***************************************************************************)
THEOREM LimitHolds == Spec => SubmitWithinLimit
<1>1. TypeOK /\ [Next]_vars => (Usage' > Usage => Usage' <= dailyLimit)
  BY NextSpends, CountGrows
<1> QED
  BY <1>1, TypeCorrect, PTL DEF Spec, SubmitWithinLimit

-----------------------------------------------------------------------------
(* The marks of a job whose application was sent *)

\* What the pipeline shows of a job that was applied for, and where such a job may go.
Past == {"applied", "interview_scheduled", "interview_completed", "completed"}
After == Past \cup {"discarded"}

\* The step sends nothing.
AppQuiet(a) == app'[a].status \in Sent => app[a].status \in Sent

(***************************************************************************)
(* No job passes for applied but by the confirmation of an application     *)
(* that was sent; one whose application was sent keeps its decision and    *)
(* stays past the application, but for `reopen`.                           *)
(***************************************************************************)
JobQuiet(a) ==
  /\ job'[a].status \in Past => job[a].status \in Past \/ app[a].status \in Sent
  /\ "reopen" \notin Commands /\ app[a].status \in Sent /\ job[a].status \in After =>
       job'[a].status \in After /\ job'[a].decision = job[a].decision

\* The application is sent, and the job marked with it.
Marked(a) ==
  app'[a].status \in Sent /\ job'[a].status \in Past /\ job'[a].decision = "applied"

MarksKept == \A a \in Apps : Marked(a) \/ (AppQuiet(a) /\ JobQuiet(a))

\* Job k is job j further on, its application apart.
Follows(j, k) ==
  /\ k.status \in Past => j.status \in Past
  /\ j.status \in After => k.status \in After /\ k.decision = j.decision

\* What a job may become without its application.
LEMMA FollowingShapes ==
  ASSUME NEW j \in Job, NEW v
  PROVE  /\ Follows(j, j)
         /\ Follows(j, [j EXCEPT !.opening = v]) /\ Follows(j, [j EXCEPT !.archived = v])
         /\ Follows(j, [j EXCEPT !.url = v])
         /\ Follows(j, [j EXCEPT !.status = Aborted(j.status)])
<1>1. /\ [j EXCEPT !.opening = v].status = j.status /\ [j EXCEPT !.opening = v].decision = j.decision
      /\ [j EXCEPT !.archived = v].status = j.status /\ [j EXCEPT !.archived = v].decision = j.decision
      /\ [j EXCEPT !.url = v].status = j.status /\ [j EXCEPT !.url = v].decision = j.decision
      /\ [j EXCEPT !.status = Aborted(j.status)].status = Aborted(j.status)
      /\ [j EXCEPT !.status = Aborted(j.status)].decision = j.decision
  BY Zenon DEF Job
<1>2. /\ Aborted(j.status) \in Past => j.status \in Past
      /\ j.status \in After => Aborted(j.status) = j.status
  BY DEF Aborted, Rules, Rule, Past, After
<1> QED
  BY <1>1, <1>2, Zenon DEF Follows

\* The walk that stops before "applied" leaves a job that is past it, or discarded, alone.
LEMMA WalkFollows ==
  ASSUME NEW j \in Job, NEW f,
         NEW t \in {"resume", "resume_approved", "ready_to_apply", "applying"},
         CanAdvance(j.status, t, f)
  PROVE  Follows(j, AdvancedJob(j, t)) /\ AdvancedJob(j, t).decision = j.decision
<1>1. /\ AdvancedJob(j, t).status = Advanced(j.status, t)
      /\ AdvancedJob(j, t).decision = j.decision
  BY Zenon DEF AdvancedJob, Job
<1>2. j.status \in JobStatus
  BY Zenon DEF Job
<1>3. /\ Advanced(j.status, t) \in Past => j.status \in Past
      /\ j.status \in After => Advanced(j.status, t) = j.status
  BY <1>2 DEF Advanced, CanAdvance, Rank, Past, After
<1> QED
  BY <1>1, <1>3, Zenon DEF Follows

\* A job that is marked as applied is past the application.
LEMMA MarkedShape ==
  ASSUME NEW j \in Job, NEW f, CanAdvance(j.status, "applied", f)
  PROVE  AppliedJob(j).status \in Past /\ AppliedJob(j).decision = "applied"
<1>1. AdvancedJob(j, "applied") = [j EXCEPT !.status = Advanced(j.status, "applied")]
  BY Zenon DEF AdvancedJob
<1>2. /\ AppliedJob(j).status = Advanced(j.status, "applied")
      /\ AppliedJob(j).decision = "applied"
  BY <1>1, Zenon DEF AppliedJob, Job
<1>3. j.status \in JobStatus
  BY Zenon DEF Job
<1>4. Advanced(j.status, "applied") \in Past
  BY <1>3 DEF Advanced, CanAdvance, Rank, Past, JobStatus, Active, PreApplication, Terminal
<1> QED
  BY <1>2, <1>4

\* A job that follows what it was is quiet.
LEMMA FollowsQuiet ==
  ASSUME NEW a, Follows(job[a], job'[a])
  PROVE  JobQuiet(a)
BY Zenon DEF Follows, JobQuiet

\* A step that writes one job, and no other.
LEMMA OneQuietJob ==
  ASSUME TypeOK, NEW a \in Apps, NEW j, job' = [job EXCEPT ![a] = j],
         Follows(job[a], j) \/ (app[a].status \notin Sent /\ (j.status \in Past => job[a].status \in Past))
  PROVE  \A b \in Apps : JobQuiet(b)
<1> SUFFICES ASSUME NEW b \in Apps PROVE JobQuiet(b)
  OBVIOUS
<1>1. job \in [Apps -> Job]
  BY Zenon DEF TypeOK
<1>2. CASE b = a
  <2>1. job'[a] = j
    BY <1>1, Zenon
  <2> QED
    BY <1>2, <2>1, FollowsQuiet, Zenon DEF JobQuiet
<1>3. CASE b # a
  <2>1. job'[b] = job[b]
    BY <1>1, <1>3, Zenon
  <2> QED
    BY <2>1, Zenon DEF JobQuiet
<1> QED
  BY <1>2, <1>3

\* So is a step that writes none, and one that frees the jobs under way.
LEMMA QuietJobs ==
  ASSUME TypeOK, job' = job \/ \E S : job' = AbortedJobs(S)
  PROVE  \A b \in Apps : JobQuiet(b)
<1> SUFFICES ASSUME NEW b \in Apps PROVE JobQuiet(b)
  OBVIOUS
<1>1. job[b] \in Job
  BY Zenon DEF TypeOK
<1>2. job'[b] = job[b] \/ job'[b] = [job[b] EXCEPT !.status = Aborted(job[b].status)]
  BY Zenon DEF AbortedJobs
<1> QED
  BY <1>1, <1>2, FollowingShapes, FollowsQuiet, Zenon

\* A step that writes one application, and sends it not.
LEMMA OneQuietApp ==
  ASSUME TypeOK, NEW a, NEW m, app' = [app EXCEPT ![a] = m],
         m.status \in Sent => app[a].status \in Sent
  PROVE  \A b \in Apps : AppQuiet(b)
<1>1. app \in [Apps -> Application]
  BY Zenon DEF TypeOK
<1> QED
  BY <1>1, Zenon DEF AppQuiet

\* A step that writes none.
LEMMA QuietApps ==
  ASSUME app' = app
  PROVE  \A b \in Apps : AppQuiet(b)
BY Zenon DEF AppQuiet

\* The status of an application is the one written, and by no other column.
LEMMA StatusWritten ==
  ASSUME NEW m \in Application, NEW s
  PROVE  [m EXCEPT !.status = s].status = s
BY Zenon DEF Application

\* Nothing becomes sent by a claim, a mode, a grant or its withdrawal.
LEMMA ClaimedStatus ==
  ASSUME NEW m \in Application, NEW s, NEW w
  PROVE  [m EXCEPT !.status = s, !.claimedBy = w].status = s
BY Zenon DEF Application

(* A submission by hand moves the application between two plain statuses. *)
LEMMA ByHandStatus ==
  ASSUME NEW m \in Application
  PROVE  ByHand(m).status \in {m.status, "queued"}
<1>1. InMode(m, "manual").status = m.status
  BY InModeShape, Zenon
<1>2. InMode(m, "manual") \in Application
  BY InModeType, Zenon DEF Mode
<1>3. ByHand(m).status = Restarted(m.status, "queued")
  BY <1>1, <1>2, Zenon DEF ByHand, Application
<1> QED
  BY <1>3, Zenon DEF Restarted

(* AUTORIZO leaves the application with a grant. *)
LEMMA GrantedStatus ==
  ASSUME NEW m \in Application, NEW x
  PROVE  Granted(m, x).status \in {m.status, "needs_review"}
BY Zenon DEF Granted, Application, Restarted

(* Taking a grant back leaves the application as a draft or approved. *)
LEMMA ReleasedStatus ==
  ASSUME NEW m \in Application, NEW s, NEW mode
  PROVE  Released(m, s).status = s /\ [Released(m, s) EXCEPT !.mode = mode].status = s
BY Zenon DEF Released, InMode, Application

(* Archiving withdraws it. *)
LEMMA WithdrawnStatus ==
  ASSUME NEW m \in Application
  PROVE  Withdrawn(m).status = m.status
<1> DEFINE n == InMode(m, ByUser(m.mode))
<1>1. CASE m.status \in ModeChange
  <2>1. Withdrawn(m) = [n EXCEPT !.claimedBy = None]
    BY <1>1, Zenon DEF Withdrawn
  <2>2. n.status = m.status
    BY InModeShape, Zenon
  <2>3. n \in Application
    BY ByUserType, InModeType, Zenon DEF Application
  <2> HIDE DEF n
  <2> QED
    BY <2>1, <2>2, <2>3, Zenon DEF Application
<1>2. CASE m.status \notin ModeChange
  BY <1>2, Zenon DEF Withdrawn
<1> QED
  BY <1>1, <1>2

\* The end of an execution marks nothing.
LEMMA EndExecutionMarks ==
  ASSUME TypeOK, NEW a \in Apps, NEW s \in ModeChange, EndExecution(a, s)
  PROVE  MarksKept
<1>1. app' = [app EXCEPT ![a] = Released(app[a], s)] /\ job' = AbortedJobs({a})
  BY Zenon DEF EndExecution
<1>2. app[a] \in Application
  BY Zenon DEF TypeOK
<1>3. Released(app[a], s).status = s /\ s \notin Sent
  BY <1>2, ReleasedShape, Zenon DEF Sent, ModeChange
<1>4. \A b \in Apps : AppQuiet(b)
  BY <1>1, <1>3, OneQuietApp, Zenon
<1>5. \A b \in Apps : JobQuiet(b)
  BY <1>1, QuietJobs, Zenon
<1> QED
  BY <1>4, <1>5, Zenon DEF MarksKept

\* An application withdrawn has the status it had.
LEMMA WithdrawPendingQuiet ==
  ASSUME TypeOK, NEW a \in Apps, WithdrawPending(a)
  PROVE  \A b \in Apps : AppQuiet(b)
<1>1. app[a] \in Application /\ app' = [app EXCEPT ![a] = Withdrawn(app[a])]
  BY Zenon DEF TypeOK, WithdrawPending
<1>2. Withdrawn(app[a]).status = app[a].status
  BY <1>1, WithdrawnStatus, Zenon
<1> QED
  BY <1>1, <1>2, OneQuietApp, Zenon

\* A report of a submission or of its outcome, by the user or the executor.
LEMMA ReportMarks ==
  ASSUME TypeOK, NEW a \in Apps, NEW s \in Sent, NEW rows,
         app' = [app EXCEPT ![a] = [app[a] EXCEPT !.status = s]],
         MarkApplied(a, [app[a] EXCEPT !.status = s], rows)
  PROVE  MarksKept
<1>1. job \in [Apps -> Job] /\ app \in [Apps -> Application]
  BY Zenon DEF TypeOK
<1> DEFINE f == Facts(job[a], resume[a], [app[a] EXCEPT !.status = s], rows)
<1>2. CanAdvance(job[a].status, "applied", f) /\ job' = [job EXCEPT ![a] = AppliedJob(job[a])]
  BY Zenon DEF MarkApplied
<1> HIDE DEF f
<1>3. job'[a].status \in Past /\ job'[a].decision = "applied"
  <2>1. job[a] \in Job /\ job'[a] = AppliedJob(job[a])
    BY <1>1, <1>2, Zenon
  <2> QED
    BY <1>2, <2>1, MarkedShape, Zenon
<1>4. Marked(a)
  <2>1. app[a] \in Application /\ app'[a] = [app[a] EXCEPT !.status = s]
    BY <1>1, Zenon
  <2>2. app'[a].status = s
    BY <2>1, StatusWritten, Zenon
  <2> QED
    BY <1>3, <2>2, Zenon DEF Marked
<1>5. ASSUME NEW b \in Apps, b # a PROVE AppQuiet(b) /\ JobQuiet(b)
  <2>1. app'[b] = app[b] /\ job'[b] = job[b]
    BY <1>1, <1>2, <1>5, Zenon
  <2> QED
    BY <2>1, Zenon DEF AppQuiet, JobQuiet
<1> QED
  BY <1>4, <1>5, Zenon DEF MarksKept

\* Nothing but the two: no job is written and one status is, to one that is not sent.
LEMMA StatusMarks ==
  ASSUME TypeOK, NEW a \in Apps, NEW m, app' = [app EXCEPT ![a] = m], job' = job,
         m.status \in Sent => app[a].status \in Sent
  PROVE  MarksKept
BY OneQuietApp, QuietJobs, Zenon DEF MarksKept

\* Only a status, to one that is not sent.
LEMMA OneStatusMarks ==
  ASSUME TypeOK, NEW a \in Apps, NEW s, app' = [app EXCEPT ![a] = [app[a] EXCEPT !.status = s]],
         job' = job, s \in Sent => app[a].status \in Sent
  PROVE  MarksKept
<1>1. app[a] \in Application
  BY Zenon DEF TypeOK
<1>2. [app[a] EXCEPT !.status = s].status = s
  BY <1>1, StatusWritten
<1> QED
  BY <1>2, StatusMarks, Zenon

\* No application is written, and no job.
LEMMA SameMarks ==
  ASSUME TypeOK, app' = app, job' = job
  PROVE  MarksKept
BY QuietApps, QuietJobs, Zenon DEF MarksKept

\* One job is written, and no application.
LEMMA OneJobMarks ==
  ASSUME TypeOK, \A b \in Apps : AppQuiet(b), NEW a \in Apps, NEW j, job' = [job EXCEPT ![a] = j],
         Follows(job[a], j) \/ (app[a].status \notin Sent /\ (j.status \in Past => job[a].status \in Past))
  PROVE  MarksKept
BY OneQuietJob, Zenon DEF MarksKept

\* The walk of one job, up to the execution.
LEMMA WalkMarks ==
  ASSUME TypeOK, \A b \in Apps : AppQuiet(b), NEW a \in Apps, NEW s, NEW m, NEW rows,
         NEW t \in {"resume", "resume_approved", "ready_to_apply", "applying"},
         Walk(a, job[a], t, s, m, rows)
  PROVE  MarksKept
<1>1. job[a] \in Job /\ job' = [job EXCEPT ![a] = AdvancedJob(job[a], t)]
  BY Zenon DEF TypeOK, Walk
<1>2. Follows(job[a], AdvancedJob(job[a], t))
  BY <1>1, WalkFollows, Zenon DEF Walk
<1> QED
  BY <1>1, <1>2, OneJobMarks, Zenon

-----------------------------------------------------------------------------
(* The steps, and what they mark *)

\* The user marks a job by reporting a submission or its outcome, and in no other way.
LEMMA UserStepMarks ==
  ASSUME TypeOK, NEW a \in Apps, UserStep(a)
  PROVE  MarksKept
<1>1. app[a] \in Application
  BY Zenon DEF TypeOK
<1>2. ASSUME NEW mode, CreateApplication(a, mode) PROVE MarksKept
  <2> DEFINE m == [NoApplication EXCEPT !.status = "queued", !.mode = mode]
  <2>1. app' = [app EXCEPT ![a] = m] /\ Walk(a, job[a], "ready_to_apply", resume[a], m, auth)
    BY <1>2, Zenon DEF CreateApplication
  <2>2. m.status = "queued"
    BY Zenon DEF NoApplication
  <2> HIDE DEF m
  <2>3. m.status \notin Sent
    BY <2>2, Zenon DEF Sent
  <2>4. \A b \in Apps : AppQuiet(b)
    BY <2>1, <2>3, OneQuietApp, Zenon
  <2> QED
    BY <2>1, <2>4, WalkMarks, Zenon
<1>3. CASE AuthorizeRead(a)
  BY <1>3, SameMarks, Zenon DEF AuthorizeRead, panelVars
<1>4. CASE Revoke(a)
  BY <1>1, <1>4, InModeShape, StatusMarks, Zenon DEF Revoke
<1>5. CASE SelectManual(a)
  <2>1. ByHand(app[a]).status \in {app[a].status, "queued"}
    BY <1>1, ByHandStatus, Zenon
  <2>2. ByHand(app[a]).status \in Sent => app[a].status \in Sent
    BY <2>1, Zenon DEF Sent
  <2>3. app' = [app EXCEPT ![a] = ByHand(app[a])] /\ job' = job
    BY <1>5, Zenon DEF SelectManual
  <2> QED
    BY <2>2, <2>3, StatusMarks, Zenon
<1>6. CASE SendToReview(a)
  <2>1. app' = [app EXCEPT ![a] = [app[a] EXCEPT !.status = "needs_review"]] /\ job' = job
    BY <1>6, Zenon DEF SendToReview
  <2>2. "needs_review" \notin Sent
    BY Zenon DEF Sent
  <2> QED
    BY <2>1, <2>2, OneStatusMarks
<1>7. CASE ReportSubmission(a)
  BY <1>7, ReportMarks, Zenon DEF ReportSubmission, Sent
<1>8. ASSUME NEW outcome \in {"accepted", "rejected"}, ReportOutcome(a, outcome) PROVE MarksKept
  BY <1>8, ReportMarks, Zenon DEF ReportOutcome, Sent
<1>9. CASE ConfirmFinal(a)
  <2>1. app' = [app EXCEPT ![a] = [app[a] EXCEPT !.status = "in_progress"]] /\ job' = job
    BY <1>9, Zenon DEF ConfirmFinal
  <2>2. "in_progress" \notin Sent
    BY Zenon DEF Sent
  <2> QED
    BY <2>1, <2>2, OneStatusMarks
<1>10. CASE CancelFinal(a)
  BY <1>10, EndExecutionMarks, Zenon DEF CancelFinal, ModeChange
<1> QED
  BY <1>2, <1>3, <1>4, <1>5, <1>6, <1>7, <1>8, <1>9, <1>10, Zenon DEF UserStep

\* The executor marks a job by its submission.
LEMMA ExecutorStepMarks ==
  ASSUME TypeOK, NEW a \in Apps, NEW w, ExecutorStep(a, w)
  PROVE  MarksKept
<1>1. app[a] \in Application
  BY Zenon DEF TypeOK
<1>2. CASE Claim(a, w)
  <2> DEFINE m == [app[a] EXCEPT !.status = "in_progress", !.claimedBy = w]
  <2>1. /\ app' = [app EXCEPT ![a] = m]
        /\ \E rows : Walk(a, job[a], "applying", resume[a], m, rows)
    BY <1>2, Zenon DEF Claim
  <2>2. m.status = "in_progress"
    BY <1>1, ClaimedStatus
  <2> HIDE DEF m
  <2>3. m.status \notin Sent
    BY <2>2, Zenon DEF Sent
  <2>4. \A b \in Apps : AppQuiet(b)
    BY <2>1, <2>3, OneQuietApp, Zenon
  <2>5. PICK rows : Walk(a, job[a], "applying", resume[a], m, rows)
    BY <2>1, Zenon
  <2> QED
    BY <2>4, <2>5, WalkMarks, Zenon
<1>3. CASE Heartbeat(a, w)
  BY <1>3, SameMarks, Zenon DEF Heartbeat
<1>4. CASE RequestFinal(a, w)
  <2>1. CASE EndExecution(a, "needs_review")
    BY <2>1, EndExecutionMarks, Zenon DEF ModeChange
  <2>2. CASE ~EndExecution(a, "needs_review")
    <3>1. /\ app' = [app EXCEPT ![a] = [app[a] EXCEPT !.status = "awaiting_final_confirmation"]]
          /\ job' = job
      BY <1>4, <2>2, Zenon DEF RequestFinal
    <3>2. "awaiting_final_confirmation" \notin Sent
      BY Zenon DEF Sent
    <3> QED
      BY <3>1, <3>2, OneStatusMarks
  <2> QED
    BY <2>1, <2>2
<1>5. CASE Poll(a, w)
  BY <1>5, SameMarks, Zenon DEF Poll
<1>6. CASE Submit(a, w)
  <2>1. CASE EndExecution(a, "needs_review")
    BY <2>1, EndExecutionMarks, Zenon DEF ModeChange
  <2>2. CASE ~EndExecution(a, "needs_review")
    <3> DEFINE m == [app[a] EXCEPT !.status = "submitted"]
    <3>1. app' = [app EXCEPT ![a] = m] /\ \E rows : MarkApplied(a, m, rows)
      BY <1>6, <2>2, Zenon DEF Submit
    <3>2. "submitted" \in Sent
      BY Zenon DEF Sent
    <3> QED
      BY <3>1, <3>2, ReportMarks, Zenon
  <2> QED
    BY <2>1, <2>2
<1>7. CASE Fail(a, w)
  BY <1>7, EndExecutionMarks, Zenon DEF Fail, ModeChange
<1> QED
  BY <1>2, <1>3, <1>4, <1>5, <1>6, <1>7, Zenon DEF ExecutorStep

\* Questions and their answers mark nothing.
LEMMA QuestionStepMarks ==
  ASSUME TypeOK, NEW q \in Questions, QuestionStep(q)
  PROVE  MarksKept
<1>1. app \in [Apps -> Application]
  BY Zenon DEF TypeOK
<1>2. ASSUME NEW a \in Apps, CreateQuestion(a, q) PROVE MarksKept
  <2>1. app' = [app EXCEPT ![a] = [app[a] EXCEPT !.status = "needs_review"]] /\ job' = job
    BY <1>2, Zenon DEF CreateQuestion
  <2>2. "needs_review" \notin Sent
    BY Zenon DEF Sent
  <2> QED
    BY <2>1, <2>2, OneStatusMarks
<1>3. ASSUME NEW outcome, MarkDelivery(q, outcome) PROVE MarksKept
  BY <1>3, SameMarks, Zenon DEF MarkDelivery
<1>4. ASSUME NEW via, Answer(q, via) PROVE MarksKept
  <2> DEFINE a == question[q].app
             s == IF app[a].status = "needs_review" THEN "in_progress" ELSE app[a].status
  <2>1. app' = [app EXCEPT ![a] = [app[a] EXCEPT !.status = s]] /\ job' = job
    BY <1>4, Zenon DEF Answer
  <2>2. s \in Sent => app[a].status \in Sent
    BY Zenon DEF Sent
  <2> HIDE DEF a, s
  <2>3. CASE a \in Apps
    BY <2>1, <2>2, <2>3, OneStatusMarks
  <2>4. CASE a \notin Apps
    <3>1. app' = app
      BY <1>1, <2>1, <2>4, Zenon
    <3> QED
      BY <2>1, <3>1, SameMarks, Zenon
  <2> QED
    BY <2>3, <2>4
<1>5. ASSUME NEW via, NEW answer, AnswerEnds(q, via, answer) PROVE MarksKept
  <2> DEFINE a == question[q].app
             n == IF answer = "stop" THEN Released(app[a], "failed")
                  ELSE [Released(app[a], "queued") EXCEPT !.mode = "manual"]
             m == IF app[a].status = "needs_review" THEN n ELSE app[a]
  <2>1. app' = [app EXCEPT ![a] = m] /\ job' = AbortedJobs({a})
    BY <1>5, Zenon DEF AnswerEnds
  <2>2. \A b \in Apps : JobQuiet(b)
    BY <2>1, QuietJobs, Zenon
  <2>3. ASSUME a \in Apps PROVE m.status \in Sent => app[a].status \in Sent
    <3>1. n.status \in {"failed", "queued"}
      <4>1. app[a] \in Application
        BY <1>1, <2>3, Zenon
      <4>2. /\ Released(app[a], "failed").status = "failed"
            /\ [Released(app[a], "queued") EXCEPT !.mode = "manual"].status = "queued"
        BY <4>1, ReleasedStatus
      <4> QED
        BY <4>2, Zenon
    <3> HIDE DEF n
    <3> QED
      BY <3>1, Zenon DEF Sent
  <2> HIDE DEF a, m
  <2>4. \A b \in Apps : AppQuiet(b)
    <3>1. CASE a \in Apps
      BY <2>1, <2>3, <3>1, OneQuietApp, Zenon
    <3>2. CASE a \notin Apps
      <4>1. app' = app
        BY <1>1, <2>1, <3>2, Zenon
      <4> QED
        BY <4>1, QuietApps, Zenon
    <3> QED
      BY <3>1, <3>2
  <2> QED
    BY <2>2, <2>4, Zenon DEF MarksKept
<1> QED
  BY <1>2, <1>3, <1>4, <1>5, Zenon DEF QuestionStep

\* The commands of the transition endpoint: "applied" is for what was sent.
LEMMA CommandMarks ==
  ASSUME NEW s, NEW c \in Commands, NEW f, Legal(s, c, f)
  PROVE  /\ Rules[c].to \in Past => s \in Past \/ f.sent
         /\ c # "reopen" /\ s \in After => Rules[c].to \in After
<1>1. c \in DOMAIN Rules \ InternalOnly /\ s \in Rules[c].from
  BY CommandsAssumption, Zenon DEF Command, Legal
<1>2. c = "confirm_applied" => f.sent
  BY Zenon DEF Legal, FactsAllow
<1> QED
  BY <1>1, <1>2 DEF Rules, Rule, InternalOnly, Past, After, Active, PreApplication, Terminal

\* A job whose execution is freed while it is edited or put off.
LEMMA FreedQuiet ==
  ASSUME TypeOK, NEW a \in Apps, NEW v,
         \/ job' = [AbortedJobs({a}) EXCEPT ![a].url = v]
         \/ job' = [AbortedJobs({a}) EXCEPT ![a].decision = v] /\ app[a].status \notin Sent
  PROVE  \A b \in Apps : JobQuiet(b)
<1> DEFINE J == AbortedJobs({a})
<1>1. J \in [Apps -> Job] /\ job \in [Apps -> Job]
  BY AbortedJobsType, Zenon DEF TypeOK
<1>2. \A b \in Apps : J[b] = job[b] \/ J[b] = [job[b] EXCEPT !.status = Aborted(job[b].status)]
  BY Zenon DEF AbortedJobs
<1>3. \/ job' = [J EXCEPT ![a] = [J[a] EXCEPT !.url = v]]
      \/ job' = [J EXCEPT ![a] = [J[a] EXCEPT !.decision = v]] /\ app[a].status \notin Sent
  BY Zenon
<1> HIDE DEF J
<1>4. ASSUME NEW b \in Apps PROVE Follows(job[b], J[b])
  BY <1>1, <1>2, FollowingShapes, Zenon
<1>5. /\ [J[a] EXCEPT !.url = v].status = J[a].status
      /\ [J[a] EXCEPT !.url = v].decision = J[a].decision
      /\ [J[a] EXCEPT !.decision = v].status = J[a].status
  BY <1>1, Zenon DEF Job
<1>6. JobQuiet(a)
  <2>1. CASE job' = [J EXCEPT ![a] = [J[a] EXCEPT !.url = v]]
    <3>1. job'[a].status = J[a].status /\ job'[a].decision = J[a].decision
      BY <1>1, <1>5, <2>1, Zenon
    <3> QED
      BY <1>4, <3>1, Zenon DEF Follows, JobQuiet
  <2>2. CASE /\ job' = [J EXCEPT ![a] = [J[a] EXCEPT !.decision = v]]
             /\ app[a].status \notin Sent
    <3>1. job'[a].status = J[a].status
      BY <1>1, <1>5, <2>2, Zenon
    <3> QED
      BY <1>4, <2>2, <3>1, Zenon DEF Follows, JobQuiet
  <2> QED
    BY <1>3, <2>1, <2>2
<1>7. ASSUME NEW b \in Apps, b # a PROVE JobQuiet(b)
  <2>1. job'[b] = J[b]
    BY <1>1, <1>3, <1>7, Zenon
  <2> QED
    BY <1>4, <2>1, FollowsQuiet, Zenon
<1> QED
  BY <1>6, <1>7

\* Decisions of the user are kept out of a job whose application was sent.
LEMMA JobStepMarks ==
  ASSUME TypeOK, NEW a \in Apps, JobStep(a)
  PROVE  MarksKept
<1>1. app \in [Apps -> Application] /\ job \in [Apps -> Job] /\ job[a] \in Job
  BY Zenon DEF TypeOK
<1>2. app[a].status \notin Locked => app[a].status \notin Sent
  BY Zenon DEF Locked
<1>3. ASSUME NEW url, UpdateUrl(a, url) PROVE MarksKept
  <2>1. \A b \in Apps : JobQuiet(b)
    BY <1>3, FreedQuiet, Zenon DEF UpdateUrl
  <2>2. \E m : app' = [app EXCEPT ![a] = m] /\ m \in {app[a], Released(app[a], "needs_review")}
    BY <1>3, Zenon DEF UpdateUrl
  <2>3. Released(app[a], "needs_review").status = "needs_review"
    BY <1>1, ReleasedShape, Zenon
  <2>4. Released(app[a], "needs_review").status \notin Sent
    BY <2>3, Zenon DEF Sent
  <2>5. \A b \in Apps : AppQuiet(b)
    BY <2>2, <2>4, OneQuietApp, Zenon
  <2> QED
    BY <2>1, <2>5, Zenon DEF MarksKept
<1>4. ASSUME NEW opening, EditOpening(a, opening) PROVE MarksKept
  <2>1. app' = app /\ job' = [job EXCEPT ![a] = [job[a] EXCEPT !.opening = opening]]
    BY <1>4, Zenon DEF EditOpening
  <2>2. Follows(job[a], [job[a] EXCEPT !.opening = opening])
    BY <1>1, FollowingShapes
  <2> QED
    BY <2>1, <2>2, QuietApps, OneJobMarks
<1>5. CASE DecideInterested(a)
  <2> DEFINE j == [job[a] EXCEPT !.decision = "interested"]
             t == IF resume[a].status # "approved" THEN "resume"
                  ELSE IF app[a].status # "none" THEN "ready_to_apply" ELSE "resume_approved"
  <2>1. /\ app[a].status \notin Sent /\ app' = app
        /\ Walk(a, j, t, resume[a], app[a], auth)
    BY <1>2, <1>5, Zenon DEF DecideInterested
  <2>2. t \in {"resume", "resume_approved", "ready_to_apply", "applying"}
    BY Zenon
  <2>3. j \in Job /\ j.status = job[a].status
    BY <1>1, Zenon DEF Job, Decision
  <2> HIDE DEF j, t
  <2>4. Follows(j, AdvancedJob(j, t)) /\ job' = [job EXCEPT ![a] = AdvancedJob(j, t)]
    BY <2>1, <2>2, <2>3, WalkFollows, Zenon DEF Walk
  <2>5. AdvancedJob(j, t).status \in Past => job[a].status \in Past
    BY <2>3, <2>4, Zenon DEF Follows
  <2> QED
    BY <2>1, <2>4, <2>5, QuietApps, OneJobMarks
<1>6. CASE DecideNoTime(a)
  <2>1. \A b \in Apps : JobQuiet(b)
    BY <1>2, <1>6, FreedQuiet, Zenon DEF DecideNoTime
  <2>2. \A b \in Apps : AppQuiet(b)
    BY <1>6, WithdrawPendingQuiet DEF DecideNoTime
  <2> QED
    BY <2>1, <2>2, Zenon DEF MarksKept
<1>7. CASE RejectJob(a)
  <2>1. /\ app[a].status \notin Sent /\ \A b \in Apps : AppQuiet(b)
        /\ job' = [job EXCEPT ![a] = Rejected(job[a])]
    BY <1>2, <1>7, WithdrawPendingQuiet, Zenon DEF RejectJob
  <2>2. Rejected(job[a]).status \in {job[a].status, "discarded"}
    BY <1>1, Zenon DEF Rejected, Job
  <2>3. Rejected(job[a]).status \in Past => job[a].status \in Past
    BY <2>2, Zenon DEF Past
  <2> QED
    BY <2>1, <2>3, OneJobMarks
<1>8. CASE UndoDecision(a)
  <2>1. /\ app[a].status \notin Sent /\ app' = app
        /\ job' = [job EXCEPT ![a] = Undone(job[a])]
    BY <1>2, <1>8, Zenon DEF UndoDecision
  <2>2. Undone(job[a]).status \in {job[a].status, "found"}
    BY <1>1, Zenon DEF Undone, Job
  <2>3. Undone(job[a]).status \in Past => job[a].status \in Past
    BY <2>2, Zenon DEF Past
  <2> QED
    BY <2>1, <2>3, QuietApps, OneJobMarks
<1>9. CASE Archive(a) \/ Restore(a)
  <2>1. /\ \A b \in Apps : AppQuiet(b)
        /\ \E v \in BOOLEAN : job' = [job EXCEPT ![a] = [job[a] EXCEPT !.archived = v]]
    BY <1>9, QuietApps, WithdrawPendingQuiet, Zenon DEF Archive, Restore
  <2>2. PICK v \in BOOLEAN : job' = [job EXCEPT ![a] = [job[a] EXCEPT !.archived = v]]
    BY <2>1
  <2>3. Follows(job[a], [job[a] EXCEPT !.archived = v])
    BY <1>1, FollowingShapes
  <2> QED
    BY <2>1, <2>2, <2>3, OneJobMarks
<1>10. ASSUME NEW c \in Commands, TransitionJob(a, c) PROVE MarksKept
  <2> DEFINE f == Facts(job[a], resume[a], app[a], auth)
             t == Rules[c].to
  <2>1. /\ app' = app /\ Legal(job[a].status, c, f)
        /\ job' = [job EXCEPT ![a] = [job[a] EXCEPT !.status = t]]
    BY <1>10, Zenon DEF TransitionJob
  <2>2. f.sent => app[a].status \in Sent
    BY Zenon DEF Facts
  <2> HIDE DEF f
  <2>3. /\ t \in Past => job[a].status \in Past \/ app[a].status \in Sent
        /\ c # "reopen" /\ job[a].status \in After => t \in After
    BY <2>1, <2>2, CommandMarks, Zenon
  <2> HIDE DEF t
  <2>4. ASSUME NEW b \in Apps PROVE JobQuiet(b)
    <3>1. CASE b = a
      <4>1. job'[a] = [job[a] EXCEPT !.status = t]
        BY <1>1, <2>1, Zenon
      <4>2. job'[a].status = t /\ job'[a].decision = job[a].decision
        BY <1>1, <4>1, Zenon DEF Job
      <4> QED
        BY <2>3, <3>1, <4>2, Zenon DEF JobQuiet
    <3>2. CASE b # a
      <4>1. job'[b] = job[b]
        BY <1>1, <2>1, <3>2, Zenon
      <4> QED
        BY <4>1, Zenon DEF JobQuiet
    <3> QED
      BY <3>1, <3>2
  <2> QED
    BY <2>1, <2>4, QuietApps, Zenon DEF MarksKept
<1>11. CASE EditResume(a)
  <2>1. CASE job' = job /\ app' = app
    BY <2>1, SameMarks
  <2>2. CASE ~(job' = job /\ app' = app)
    <3> DEFINE s == job[a].status
               t == IF Aborted(s) \in Rules["revise_resume"].from THEN "resume" ELSE s
    <3>1. WithdrawPending(a) /\ job' = [job EXCEPT ![a] = [job[a] EXCEPT !.status = t]]
      BY <1>11, <2>2, Zenon DEF EditResume
    <3>2. t \in Past => s \in Past
      BY Zenon DEF Past
    <3>3. s \in After => t = s
      BY DEF After, Past, Aborted, Rules, Rule
    <3> HIDE DEF t
    <3>4. [job[a] EXCEPT !.status = t].status = t /\ [job[a] EXCEPT !.status = t].decision = job[a].decision
      BY <1>1, Zenon DEF Job
    <3>5. Follows(job[a], [job[a] EXCEPT !.status = t])
      BY <3>2, <3>3, <3>4, Zenon DEF Follows
    <3> QED
      BY <3>1, <3>5, WithdrawPendingQuiet, OneJobMarks
  <2> QED
    BY <2>1, <2>2
<1>12. CASE ApproveResume(a)
  <2> DEFINE t == IF app[a].status \in ModeChange THEN "ready_to_apply" ELSE "resume_approved"
  <2>1. app' = app /\ \E s : Walk(a, job[a], t, s, app[a], auth)
    BY <1>12, Zenon DEF ApproveResume
  <2>2. t \in {"resume", "resume_approved", "ready_to_apply", "applying"}
    BY Zenon
  <2> HIDE DEF t
  <2> QED
    BY <2>1, <2>2, QuietApps, WalkMarks, Zenon
<1> QED
  BY <1>3, <1>4, <1>5, <1>6, <1>7, <1>8, <1>9, <1>10, <1>11, <1>12, Zenon DEF JobStep

\* An expiration finds no job that was applied for: the test is in its transaction.
LEMMA ExpireJobMarks ==
  ASSUME TypeOK, NEW a \in Apps, NEW j \in Job, j.status = job[a].status, ExpireJob(a, j)
  PROVE  MarksKept
<1> DEFINE k == [j EXCEPT !.status = "expired", !.decision = "expired"]
<1>1. /\ WithdrawPending(a) /\ job' = [job EXCEPT ![a] = k]
      /\ job[a].status \in PreApplication
  BY DEF ExpireJob, Rules, Rule
<1>2. k.status = "expired"
  BY Zenon DEF Job
<1> HIDE DEF k
<1>3. Follows(job[a], k)
  <2>1. k.status \notin Past /\ job[a].status \notin After
    BY <1>1, <1>2, Zenon DEF Past, After, PreApplication
  <2> QED
    BY <2>1, Zenon DEF Follows
<1> QED
  BY <1>1, <1>3, WithdrawPendingQuiet, OneJobMarks

\* The cron and the collector expire what was not applied for, or close the opening only.
LEMMA CronStepMarks ==
  ASSUME TypeOK, CronStep
  PROVE  MarksKept
<1>1. CASE CronRead
  BY <1>1, SameMarks, Zenon DEF CronRead, panelVars
<1>2. ASSUME NEW a \in Apps, CronExpire(a) PROVE MarksKept
  <2>1. ExpireJob(a, job[a]) \/ (job' = job /\ app' = app)
    BY <1>2, Zenon DEF CronExpire
  <2>2. job[a] \in Job
    BY Zenon DEF TypeOK
  <2> QED
    BY <2>1, <2>2, ExpireJobMarks, SameMarks
<1>3. ASSUME NEW a \in Apps, NEW url \in 1..MaxUrl, NEW opening \in Opening,
             WriteFromSource(a, url, opening)
      PROVE  MarksKept
  <2> DEFINE j == [job[a] EXCEPT !.url = url, !.opening = opening]
  <2>1. ExpireJob(a, j) \/ (job' = [job EXCEPT ![a] = j] /\ app' = app)
    BY <1>3, Zenon DEF WriteFromSource
  <2>2. job[a] \in Job
    BY Zenon DEF TypeOK
  <2>3. j \in Job /\ j.status = job[a].status
    BY <2>2, Zenon DEF Job, Opening
  <2>4. Follows(job[a], j)
    <3>1. [job[a] EXCEPT !.url = url] \in Job
      BY <2>2, Zenon DEF Job
    <3>2. /\ j.status = [job[a] EXCEPT !.url = url].status
          /\ j.decision = [job[a] EXCEPT !.url = url].decision
      BY <2>2, Zenon DEF Job
    <3> QED
      BY <2>2, <3>2, FollowingShapes, Zenon DEF Follows
  <2> HIDE DEF j
  <2> QED
    BY <2>1, <2>3, <2>4, ExpireJobMarks, QuietApps, OneJobMarks
<1> QED
  BY <1>1, <1>2, <1>3, Zenon DEF CronStep

\* The settings, AUTORIZO, time and the sweep mark nothing.
LEMMA OtherStepMarks ==
  ASSUME TypeOK, SettingsStep \/ AuthorizeStep \/ TimeStep \/ ExpireDue \/ RecoverStuck \/ UNCHANGED vars
  PROVE  MarksKept
<1>1. app \in [Apps -> Application] /\ job \in [Apps -> Job]
  BY Zenon DEF TypeOK
<1>2. ASSUME NEW S, NEW s \in {"needs_review", "in_progress"}, job' = job,
             app' = [a \in Apps |-> IF a \in S THEN [app[a] EXCEPT !.status = s] ELSE app[a]]
      PROVE  MarksKept
  <2>1. ASSUME NEW a \in Apps PROVE AppQuiet(a)
    <3>1. app'[a] = app[a] \/ app'[a] = [app[a] EXCEPT !.status = s]
      BY <1>2, Zenon
    <3>2. app[a] \in Application
      BY <1>1, Zenon
    <3>3. [app[a] EXCEPT !.status = s].status = s
      BY <3>2, StatusWritten
    <3>4. s \notin Sent
      BY Zenon DEF Sent
    <3> QED
      BY <3>1, <3>3, <3>4, Zenon DEF AppQuiet
  <2> QED
    BY <1>2, <2>1, QuietJobs, Zenon DEF MarksKept
<1>3. CASE Pause
  <2> DEFINE S == {a \in Apps : /\ app[a].auth \in Running
                                /\ app[a].status \in {"in_progress", "awaiting_final_confirmation"}}
  <2>1. /\ job' = job
        /\ app' = [a \in Apps |-> IF a \in S THEN [app[a] EXCEPT !.status = "needs_review"]
                                              ELSE app[a]]
    BY <1>3, Zenon DEF Pause
  <2> HIDE DEF S
  <2> QED
    BY <1>2, <2>1, Zenon
<1>4. CASE ResumeAutomation
  <2> DEFINE paused == {x \in Running : auth[x].paused}
             S == {a \in Apps : /\ app[a].auth \in paused /\ app[a].status = "needs_review"
                                /\ ~Asked(a)}
  <2>1. /\ job' = job
        /\ app' = [a \in Apps |-> IF a \in S THEN [app[a] EXCEPT !.status = "in_progress"]
                                              ELSE app[a]]
    BY <1>4, Zenon DEF ResumeAutomation
  <2> HIDE DEF S
  <2> QED
    BY <1>2, <2>1, Zenon
<1>5. ASSUME NEW n, SetDailyLimit(n) PROVE MarksKept
  BY <1>5, SameMarks, Zenon DEF SetDailyLimit, panelVars
<1>6. CASE AuthorizeRefused \/ UNCHANGED vars
  BY <1>6, SameMarks, Zenon DEF AuthorizeRefused, panelVars, vars
<1>7. ASSUME NEW x \in AuthIds, AuthorizeWrite(x) PROVE MarksKept
  <2>1. desk \in Call
    BY <1>7, Zenon DEF AuthorizeWrite, TypeOK
  <2>2. desk.app \in Apps /\ app[desk.app] \in Application
    BY <1>1, <2>1, Zenon DEF Call
  <2>3. Granted(app[desk.app], x).status \in {app[desk.app].status, "needs_review"}
    BY <2>2, GrantedStatus
  <2>4. Granted(app[desk.app], x).status \in Sent => app[desk.app].status \in Sent
    BY <2>3, Zenon DEF Sent
  <2>5. app' = [app EXCEPT ![desk.app] = Granted(app[desk.app], x)] /\ job' = job
    BY <1>7, Zenon DEF AuthorizeWrite
  <2> QED
    BY <2>2, <2>4, <2>5, StatusMarks
<1>8. CASE TimeStep
  <2>1. ASSUME NEW a \in Apps, DeadlinePasses(a) PROVE MarksKept
    <3>1. app' = app /\ job' = [job EXCEPT ![a] = [job[a] EXCEPT !.opening = "overdue"]]
      BY <2>1, Zenon DEF DeadlinePasses
    <3>2. Follows(job[a], [job[a] EXCEPT !.opening = "overdue"])
      BY <1>1, FollowingShapes
    <3> QED
      BY <3>1, <3>2, QuietApps, OneJobMarks
  <2>2. (\E a \in Apps : DeadlinePasses(a)) \/ (app' = app /\ job' = job)
    BY <1>8, Zenon DEF TimeStep, TtlLapse, LeaseLapse, NewDay, WorkerCrash, WorkerRestart, panelVars
  <2> QED
    BY <2>1, <2>2, SameMarks, Zenon
<1>9. CASE ExpireDue \/ RecoverStuck
  <2>1. \E S : job' = AbortedJobs(S)
    BY <1>9, Zenon DEF ExpireDue, RecoverStuck
  <2>2. ASSUME NEW a \in Apps PROVE AppQuiet(a)
    <3> DEFINE n == Released(app[a], "needs_review")
    <3>1. app'[a] \in {app[a], n, [n EXCEPT !.mode = ByUser(app[a].mode)]}
      BY <1>9, Zenon DEF ExpireDue, RecoverStuck
    <3>2. n.status = "needs_review" /\ [n EXCEPT !.mode = ByUser(app[a].mode)].status = "needs_review"
      <4>1. app[a] \in Application
        BY <1>1, Zenon
      <4> QED
        BY <4>1, ReleasedStatus
    <3> HIDE DEF n
    <3> QED
      BY <3>1, <3>2, Zenon DEF AppQuiet, Sent
  <2> QED
    BY <2>1, <2>2, QuietJobs, Zenon DEF MarksKept
<1> QED
  BY <1>3, <1>4, <1>5, <1>6, <1>7, <1>8, <1>9, Zenon DEF SettingsStep, AuthorizeStep

\* Every step keeps the marks.
LEMMA NextMarks == TypeOK /\ [Next]_vars => MarksKept
<1> SUFFICES ASSUME TypeOK, [Next]_vars PROVE MarksKept
  OBVIOUS
<1> QED
  BY UserStepMarks, JobStepMarks, ExecutorStepMarks, QuestionStepMarks, CronStepMarks,
     OtherStepMarks, Zenon DEF Next, DashboardStep

(***************************************************************************)
(* The pipeline shows a job as applied, in interviews or completed only    *)
(* when its application was sent, through which of the commands, walks and *)
(* decisions it may have come there (transitionJob, advanceJobTo).         *)
(***************************************************************************)
THEOREM AppliedIsSent == Spec => []AppliedMeansSent
<1>1. Init => AppliedMeansSent
  <2> SUFFICES ASSUME Init PROVE AppliedMeansSent
    OBVIOUS
  <2>1. \A a \in Apps : job[a].status = "resume_approved"
    BY Zenon DEF Init
  <2> QED
    BY <2>1 DEF AppliedMeansSent
<1>2. Inductive /\ AppliedMeansSent /\ [Next]_vars => AppliedMeansSent'
  <2> SUFFICES ASSUME Inductive, AppliedMeansSent, [Next]_vars, NEW a \in Apps,
                      job'[a].status \in Past
               PROVE  app'[a].status \in Sent
    BY Zenon DEF AppliedMeansSent, Past
  <2>1. MarksKept
    BY NextMarks, Zenon DEF Inductive
  <2>2. app[a].status \in Sent => app'[a].status \in Sent
    BY NextKept, Zenon DEF KeptStep, AppsKept, AppKept
  <2>3. job[a].status \in Past => app[a].status \in Sent
    BY Zenon DEF AppliedMeansSent, Past
  <2> QED
    BY <2>1, <2>2, <2>3, Zenon DEF MarksKept, Marked, JobQuiet
<1> QED
  BY <1>1, <1>2, InductiveHolds, PTL DEF Spec

\* Inductive: where the job of a sent application is.
SentIsMarked ==
  \A a \in Apps : app[a].status \in Sent => job[a].decision = "applied" /\ job[a].status \in After

(***************************************************************************)
(* A job whose application was sent stays marked as applied: no expiration *)
(* that read it before, no source that closes it, no rejection and no undo *)
(* says otherwise later (expireJob, setJobDecision, undoJobDecision), when *)
(* the transition endpoint is not asked to reopen it.                      *)
(***************************************************************************)
THEOREM SentIsApplied ==
  ASSUME "reopen" \notin Commands
  PROVE  Spec => []SentStaysApplied
<1>1. Init => SentIsMarked
  <2> SUFFICES ASSUME Init PROVE SentIsMarked
    OBVIOUS
  <2>1. \A a \in Apps : app[a].status = "none"
    BY Zenon DEF Init, NoApplication
  <2> QED
    BY <2>1 DEF SentIsMarked, Sent
<1>2. Inductive /\ SentIsMarked /\ [Next]_vars => SentIsMarked'
  <2> SUFFICES ASSUME Inductive, SentIsMarked, [Next]_vars, NEW a \in Apps,
                      app'[a].status \in Sent
               PROVE  job'[a].decision = "applied" /\ job'[a].status \in After
    BY Zenon DEF SentIsMarked
  <2>1. MarksKept
    BY NextMarks, Zenon DEF Inductive
  <2>2. CASE Marked(a)
    BY <2>2, Zenon DEF Marked, After
  <2>3. CASE AppQuiet(a) /\ JobQuiet(a)
    BY <2>3, Zenon DEF AppQuiet, JobQuiet, SentIsMarked
  <2> QED
    BY <2>1, <2>2, <2>3, Zenon DEF MarksKept
<1>3. SentIsMarked => SentStaysApplied
  BY Zenon DEF SentIsMarked, SentStaysApplied
<1> QED
  BY <1>1, <1>2, <1>3, InductiveHolds, PTL DEF Spec

-----------------------------------------------------------------------------
(* The reservation and the execution *)

\* An application under way that stays so keeps its reservation, or a question of it moved.
RunKept(a) ==
  InFlight(a) /\ Reserved(a) /\ InFlight(a)' /\ ~Reserved(a)' =>
    \E q \in Questions : question[q].app = a /\ question'[q] # question[q]

RunsKept == \A a \in Apps : RunKept(a)

\* The claimed rows stay claimed.
RowsHold == \A x \in AuthIds : auth[x].state = "claimed" => auth'[x].state = "claimed"

\* A claimed row that stays claimed, of an application that stays with it, ends nothing.
LEMMA HeldRuns ==
  ASSUME Inductive, RowsHold, NEW a \in Apps,
         app[a].status \notin {"in_progress", "awaiting_final_confirmation"}
           \/ app'[a].status \notin {"in_progress", "awaiting_final_confirmation"}
           \/ app'[a].auth = app[a].auth
  PROVE  RunKept(a)
<1>1. app[a].auth # None => app[a].auth \in AuthIds
  BY OwnRow, Zenon
<1> QED
  BY <1>1, Zenon DEF RunKept, InFlight, Reserved, RowsHold

\* Nobody writes an application, and the reservations stand.
LEMMA RowsHoldRuns ==
  ASSUME Inductive, RowsHold, \A a \in Apps : app'[a].auth = app[a].auth
  PROVE  RunsKept
BY HeldRuns, Zenon DEF RunsKept

\* A table of rows nobody writes, or whose rows differ in other columns.
LEMMA SameRowsHold ==
  ASSUME auth' = auth \/ \A x \in AuthIds : SameRow(auth[x], auth'[x])
  PROVE  RowsHold
BY Zenon DEF RowsHold, SameRow

(***************************************************************************)
(* Where one application is written with its own rows: it was not under    *)
(* way, or is no longer, or keeps the row.  The rows of the others are not *)
(* its own.                                                                *)
(***************************************************************************)
LEMMA OneRun ==
  ASSUME Inductive, NEW a \in Apps, NEW m, app' = [app EXCEPT ![a] = m],
         \A x \in AuthIds : auth[x].state = "claimed" /\ auth[x].app # a => auth'[x].state = "claimed",
         \/ app[a].status \notin {"in_progress", "awaiting_final_confirmation"}
         \/ m.status \notin {"in_progress", "awaiting_final_confirmation"}
         \/ m.auth = app[a].auth /\ RowsHold
         \/ \E q \in Questions : question[q].app = a /\ question'[q] # question[q]
  PROVE  RunsKept
<1> SUFFICES ASSUME NEW b \in Apps PROVE RunKept(b)
  BY DEF RunsKept
<1>1. app \in [Apps -> Application]
  BY Zenon DEF Inductive, TypeOK
<1>2. CASE b = a
  <2>1. app'[a] = m
    BY <1>1, Zenon
  <2>2. CASE \E q \in Questions : question[q].app = a /\ question'[q] # question[q]
    BY <1>2, <2>2, Zenon DEF RunKept
  <2>3. CASE m.auth = app[a].auth /\ RowsHold
    BY <1>2, <2>1, <2>3, HeldRuns
  <2>4. CASE m.status \notin {"in_progress", "awaiting_final_confirmation"}
    BY <1>2, <2>1, <2>4, Zenon DEF RunKept, InFlight
  <2>5. CASE app[a].status \notin {"in_progress", "awaiting_final_confirmation"}
    BY <1>2, <2>5, Zenon DEF RunKept, InFlight
  <2> QED
    BY <2>2, <2>3, <2>4, <2>5
<1>3. CASE b # a
  <2>1. app'[b] = app[b]
    BY <1>1, <1>3, Zenon
  <2>2. app[b].auth # None => app[b].auth \in AuthIds /\ auth[app[b].auth].app = b
    BY OwnRow, Zenon
  <2> QED
    BY <1>3, <2>1, <2>2, Zenon DEF RunKept, InFlight, Reserved
<1> QED
  BY <1>2, <1>3

\* Revoking the rows of one application leaves the others theirs.
LEMMA RevokedOthers ==
  ASSUME NEW a, auth' = auth \/ auth' = RevokedRows({a})
  PROVE  \A x \in AuthIds : auth[x].state = "claimed" /\ auth[x].app # a => auth'[x].state = "claimed"
BY Zenon DEF RevokedRows

\* The end of an execution ends it.
LEMMA EndExecutionRuns ==
  ASSUME Inductive, NEW a \in Apps, NEW s \in ModeChange, EndExecution(a, s)
  PROVE  RunsKept
<1>1. app' = [app EXCEPT ![a] = Released(app[a], s)] /\ auth' = RevokedRows({a})
  BY Zenon DEF EndExecution
<1>2. app[a] \in Application
  BY Zenon DEF Inductive, TypeOK
<1>3. /\ Released(app[a], s).status = s
      /\ s \notin {"in_progress", "awaiting_final_confirmation"}
  BY <1>2, ReleasedShape, Zenon DEF ModeChange
<1>4. Released(app[a], s).status \notin {"in_progress", "awaiting_final_confirmation"}
  BY <1>3
<1> QED
  BY <1>1, <1>4, RevokedOthers, OneRun

\* A withdrawal takes the grant of what waits, never of what is under way.
LEMMA WithdrawPendingRuns ==
  ASSUME Inductive, NEW a \in Apps, WithdrawPending(a)
  PROVE  RunsKept
<1>1. app' = [app EXCEPT ![a] = Withdrawn(app[a])]
  BY Zenon DEF WithdrawPending
<1>2. CASE app[a].status \in ModeChange
  <2>1. app[a].status \notin {"in_progress", "awaiting_final_confirmation"}
    BY <1>2, Zenon DEF ModeChange
  <2>2. auth' = RevokedRows({a})
    BY <1>2, Zenon DEF WithdrawPending
  <2> QED
    BY <1>1, <2>1, <2>2, RevokedOthers, OneRun
<1>3. CASE app[a].status \notin ModeChange
  <2>1. auth' = auth /\ Withdrawn(app[a]).auth = app[a].auth
    BY <1>3, Zenon DEF WithdrawPending, Withdrawn
  <2> QED
    BY <1>1, <2>1, RevokedOthers, SameRowsHold, OneRun
<1> QED
  BY <1>2, <1>3

\* Row x alone is written, to a claimed one, with the application that points at it.
LEMMA OwnRowRuns ==
  ASSUME Inductive, NEW a \in Apps, NEW r, auth' = WithRow(app[a].auth, r), r.state = "claimed",
         app' = app \/ \E s : app' = [app EXCEPT ![a] = [app[a] EXCEPT !.status = s]]
  PROVE  RunsKept
<1>1. app \in [Apps -> Application] /\ auth \in [AuthIds -> Authorization]
  BY Zenon DEF Inductive, TypeOK
<1>2. RowsHold
  BY <1>1, Zenon DEF WithRow, RowsHold
<1>3. ASSUME NEW b \in Apps PROVE app'[b].auth = app[b].auth
  <2>1. app'[b] = app[b] \/ \E s : app'[b] = [app[b] EXCEPT !.status = s]
    BY <1>1, Zenon
  <2>2. app[b] \in Application
    BY <1>1, Zenon
  <2> QED
    BY <2>1, <2>2, Zenon DEF Application
<1> QED
  BY <1>2, <1>3, RowsHoldRuns

\* No row is written, and of the applications a status or nothing.
LEMMA NoRowRuns ==
  ASSUME Inductive, auth' = auth, \A a \in Apps : app'[a].auth = app[a].auth
  PROVE  RunsKept
BY SameRowsHold, RowsHoldRuns

\* The user's routes end the reservations they take.
LEMMA UserStepRuns ==
  ASSUME Inductive, NEW a \in Apps, UserStep(a)
  PROVE  RunsKept
<1>1. app[a] \in Application
  BY Zenon DEF Inductive, TypeOK
<1> DEFINE Under == {"in_progress", "awaiting_final_confirmation"}
<1>2. ASSUME NEW mode, CreateApplication(a, mode) PROVE RunsKept
  <2>1. /\ \E m : app' = [app EXCEPT ![a] = m]
        /\ app[a].status \notin Under /\ auth' = auth
    BY <1>2, Zenon DEF CreateApplication
  <2> QED
    BY <2>1, RevokedOthers, OneRun
<1>3. CASE AuthorizeRead(a)
  <2>1. app' = app /\ auth' = auth
    BY <1>3, Zenon DEF AuthorizeRead, panelVars
  <2> QED
    BY <2>1, NoRowRuns
<1>4. CASE Revoke(a) \/ SelectManual(a)
  <2>1. /\ \E m : app' = [app EXCEPT ![a] = m]
        /\ app[a].status \in ModeChange /\ auth' = RevokedRows({a})
    BY <1>4, Zenon DEF Revoke, SelectManual
  <2>2. app[a].status \notin Under
    BY <2>1, Zenon DEF ModeChange
  <2>3. \A y \in AuthIds : auth[y].state = "claimed" /\ auth[y].app # a => auth'[y].state = "claimed"
    BY <2>1, RevokedOthers
  <2>4. PICK m : app' = [app EXCEPT ![a] = m]
    BY <2>1
  <2> QED
    BY <2>2, <2>3, <2>4, OneRun
<1>5. CASE SendToReview(a) \/ ReportSubmission(a) \/ \E outcome \in {"accepted", "rejected"} : ReportOutcome(a, outcome)
  <2>1. /\ \E s : app' = [app EXCEPT ![a] = [app[a] EXCEPT !.status = s]]
        /\ auth' = auth
    BY <1>5, Zenon DEF SendToReview, ReportSubmission, ReportOutcome
  <2>2. PICK s : app' = [app EXCEPT ![a] = [app[a] EXCEPT !.status = s]]
    BY <2>1, Zenon
  <2>3. [app[a] EXCEPT !.status = s].auth = app[a].auth
    BY <1>1, Zenon DEF Application
  <2> QED
    BY <2>1, <2>2, <2>3, RevokedOthers, SameRowsHold, OneRun
<1>6. CASE ConfirmFinal(a)
  <2> DEFINE x == app[a].auth
             r == [Renewed(auth[x]) EXCEPT !.confirmed = auth[x].shot]
  <2>1. /\ auth' = WithRow(x, r) /\ auth[x].state = "claimed" /\ x # None
        /\ \E s : app' = [app EXCEPT ![a] = [app[a] EXCEPT !.status = s]]
    BY <1>6, Zenon DEF ConfirmFinal, Current
  <2>2. auth[x] \in Authorization
    BY <2>1, OwnRow, Zenon DEF Inductive, TypeOK
  <2>3. r.state = "claimed"
    BY <2>1, <2>2, Zenon DEF Renewed, Authorization
  <2> QED
    BY <2>1, <2>3, OwnRowRuns, Zenon
<1>7. CASE CancelFinal(a)
  BY <1>7, EndExecutionRuns, Zenon DEF CancelFinal, ModeChange
<1> QED
  BY <1>2, <1>3, <1>4, <1>5, <1>6, <1>7, Zenon DEF UserStep

\* The executor's routes keep the reservation, or end the execution with it.
LEMMA ExecutorStepRuns ==
  ASSUME Inductive, NEW a \in Apps, NEW w \in alive, ExecutorStep(a, w)
  PROVE  RunsKept
<1> DEFINE x == app[a].auth
<1>1. /\ app[a] \in Application /\ auth \in [AuthIds -> Authorization]
      /\ HeldBy(a, w) => /\ auth[x].state = "claimed" /\ auth[x] \in Authorization
                         /\ x \in AuthIds /\ auth[x].app = a
  BY HeldRow, Zenon DEF Inductive, TypeOK
<1>2. CASE Claim(a, w)
  <2>1. /\ \E m : app' = [app EXCEPT ![a] = m]
        /\ app[a].status \in {"queued", "needs_review"}
        /\ x # None /\ auth[x].state = "issued" /\ \E r : auth' = WithRow(x, r)
    BY <1>2, Zenon DEF Claim, Current
  <2>2. app[a].status \notin {"in_progress", "awaiting_final_confirmation"}
    BY <2>1, Zenon
  <2>3. \A y \in AuthIds : auth[y].state = "claimed" => auth'[y] = auth[y]
    BY <1>1, <2>1, Zenon DEF WithRow
  <2> QED
    BY <2>1, <2>2, <2>3, OneRun
<1>3. CASE Heartbeat(a, w)
  <2>1. auth' = WithRow(x, Renewed(auth[x])) /\ app' = app /\ HeldBy(a, w)
    BY <1>3, Zenon DEF Heartbeat
  <2>2. Renewed(auth[x]).state = "claimed"
    BY <1>1, <2>1, Zenon DEF Renewed, Authorization
  <2> QED
    BY <2>1, <2>2, OwnRowRuns
<1>4. CASE RequestFinal(a, w)
  <2>1. CASE EndExecution(a, "needs_review")
    BY <2>1, EndExecutionRuns, Zenon DEF ModeChange
  <2>2. CASE ~EndExecution(a, "needs_review")
    <3> DEFINE r == [Renewed(auth[x]) EXCEPT !.requested = TRUE, !.shot = @ + 1,
                                             !.confirmed = 0, !.token = 0]
    <3>1. /\ app' = [app EXCEPT ![a] = [app[a] EXCEPT !.status = "awaiting_final_confirmation"]]
          /\ auth' = WithRow(x, r) /\ HeldBy(a, w)
      BY <1>4, <2>2, Zenon DEF RequestFinal
    <3>2. r.state = "claimed"
      BY <1>1, <3>1, Zenon DEF Renewed, Authorization
    <3> HIDE DEF r
    <3> QED
      BY <3>1, <3>2, OwnRowRuns
  <2> QED
    BY <2>1, <2>2
<1>5. CASE Poll(a, w)
  <2> DEFINE r == [Renewed(auth[x]) EXCEPT !.token = auth[x].confirmed,
                                           !.given = @ \cup {auth[x].confirmed}]
  <2>1. /\ auth' = WithRow(x, Renewed(auth[x])) \/ auth' = WithRow(x, r)
        /\ app' = app /\ HeldBy(a, w)
    BY <1>5, Zenon DEF Poll
  <2>2. Renewed(auth[x]).state = "claimed" /\ r.state = "claimed"
    BY <1>1, <2>1, Zenon DEF Renewed, Authorization
  <2> HIDE DEF r
  <2> QED
    BY <2>1, <2>2, OwnRowRuns
<1>6. CASE Submit(a, w)
  <2>1. CASE EndExecution(a, "needs_review")
    BY <2>1, EndExecutionRuns, Zenon DEF ModeChange
  <2>2. CASE ~EndExecution(a, "needs_review")
    <3>1. /\ app' = [app EXCEPT ![a] = [app[a] EXCEPT !.status = "submitted"]]
          /\ \E r : auth' = WithRow(x, r)
          /\ HeldBy(a, w)
      BY <1>6, <2>2, Zenon DEF Submit
    <3>2. [app[a] EXCEPT !.status = "submitted"].status = "submitted"
      BY <1>1, StatusWritten
    <3>3. "submitted" \notin {"in_progress", "awaiting_final_confirmation"}
      BY Zenon
    <3>4. \A y \in AuthIds : auth[y].app # a => auth'[y] = auth[y]
      BY <1>1, <3>1, Zenon DEF WithRow
    <3> QED
      BY <3>1, <3>2, <3>3, <3>4, OneRun
  <2> QED
    BY <2>1, <2>2
<1>7. CASE Fail(a, w)
  BY <1>7, EndExecutionRuns, Zenon DEF Fail, ModeChange
<1> QED
  BY <1>2, <1>3, <1>4, <1>5, <1>6, <1>7, Zenon DEF ExecutorStep

\* An answer takes the reservation of its own question's application only.
LEMMA QuestionStepRuns ==
  ASSUME Inductive, NEW q \in Questions, QuestionStep(q)
  PROVE  RunsKept
<1> DEFINE a == question[q].app
           x == app[a].auth
<1>1. /\ app \in [Apps -> Application] /\ question \in [Questions -> Question]
      /\ auth \in [AuthIds -> Authorization]
  BY Zenon DEF Inductive, TypeOK
<1>2. ASSUME NEW b \in Apps, CreateQuestion(b, q) PROVE RunsKept
  <2>1. app' = [app EXCEPT ![b] = [app[b] EXCEPT !.status = "needs_review"]] /\ auth' = auth
    BY <1>2, Zenon DEF CreateQuestion
  <2>2. [app[b] EXCEPT !.status = "needs_review"].auth = app[b].auth
    BY <1>1, Zenon DEF Application
  <2> QED
    BY <2>1, <2>2, RevokedOthers, SameRowsHold, OneRun
<1>3. ASSUME NEW outcome, MarkDelivery(q, outcome) PROVE RunsKept
  <2>1. app' = app /\ auth' = auth
    BY <1>3, Zenon DEF MarkDelivery
  <2> QED
    BY <2>1, NoRowRuns
<1>4. CASE a \notin Apps
  <2>1. ASSUME NEW via, Answer(q, via) PROVE RunsKept
    <3>1. /\ auth' = WithRow(x, Renewed(auth[x])) /\ auth[x].state = "claimed"
          /\ \E m : app' = [app EXCEPT ![a] = m]
      BY <2>1, Zenon DEF Answer
    <3>2. app' = app
      BY <1>1, <1>4, <3>1, Zenon
    <3>3. RowsHold
      <4> SUFFICES ASSUME NEW y \in AuthIds, auth[y].state = "claimed" PROVE auth'[y].state = "claimed"
        BY DEF RowsHold
      <4>1. auth'[y] = auth[y] \/ (y = x /\ auth'[y] = Renewed(auth[y]))
        BY <1>1, <3>1, Zenon DEF WithRow
      <4>2. auth[y] \in Authorization
        BY <1>1, Zenon
      <4> QED
        BY <4>1, <4>2, Zenon DEF Renewed, Authorization
    <3> QED
      BY <3>2, <3>3, RowsHoldRuns, Zenon
  <2>2. ASSUME NEW via, NEW answer, AnswerEnds(q, via, answer) PROVE RunsKept
    <3>1. auth' = RevokedRows({a}) /\ \E m : app' = [app EXCEPT ![a] = m]
      BY <2>2, Zenon DEF AnswerEnds
    <3>2. app' = app
      BY <1>1, <1>4, <3>1, Zenon
    <3>3. RowsHold
      <4> SUFFICES ASSUME NEW y \in AuthIds, auth[y].state = "claimed" PROVE auth'[y].state = "claimed"
        BY DEF RowsHold
      <4>1. auth[y].app \in Apps
        BY LiveFacts, Zenon DEF Live
      <4> QED
        BY <1>4, <3>1, <4>1, RevokedOthers
    <3> QED
      BY <3>2, <3>3, RowsHoldRuns, Zenon
  <2> QED
    BY <1>2, <1>3, <2>1, <2>2, Zenon DEF QuestionStep
<1>5. CASE a \in Apps
  <2>1. ASSUME NEW via, Answer(q, via) PROVE RunsKept
    <3>1. /\ auth' = WithRow(x, Renewed(auth[x])) /\ auth[x].state = "claimed" /\ x # None
          /\ \E s : app' = [app EXCEPT ![a] = [app[a] EXCEPT !.status = s]]
      BY <2>1, Zenon DEF Answer
    <3>2. auth[x] \in Authorization
      BY <1>1, <1>5, <3>1, OwnRow, Zenon
    <3>3. Renewed(auth[x]).state = "claimed"
      BY <3>1, <3>2, Zenon DEF Renewed, Authorization
    <3> QED
      BY <1>5, <3>1, <3>3, OwnRowRuns
  <2>2. ASSUME NEW via, NEW answer, AnswerEnds(q, via, answer) PROVE RunsKept
    <3>1. /\ auth' = RevokedRows({a}) /\ \E m : app' = [app EXCEPT ![a] = m]
          /\ question[q].status \in ActiveQuestion
          /\ \E s \in {"cancelled", "answered"} : question' = [question EXCEPT ![q].status = s]
      BY <2>2, Zenon DEF AnswerEnds, Answerable, ActiveQuestion, Answered
    <3>2. question'[q] # question[q]
      <4>1. question[q] \in Question
        BY <1>1, Zenon
      <4>2. question'[q].status \in {"cancelled", "answered"}
        <5>1. PICK s \in {"cancelled", "answered"} : question' = [question EXCEPT ![q].status = s]
          BY <3>1
        <5>2. question'[q] = [question[q] EXCEPT !.status = s]
          BY <1>1, <5>1, Zenon
        <5>3. question'[q].status = s
          BY <4>1, <5>2, Zenon DEF Question
        <5> QED
          BY <5>3
      <4>3. question'[q].status \notin ActiveQuestion
        BY <4>2, Zenon DEF ActiveQuestion
      <4> QED
        BY <3>1, <4>3
    <3>3. \A y \in AuthIds : auth[y].state = "claimed" /\ auth[y].app # a => auth'[y].state = "claimed"
      BY <3>1, RevokedOthers
    <3>4. PICK m : app' = [app EXCEPT ![a] = m]
      BY <3>1
    <3>5. \E p \in Questions : question[p].app = a /\ question'[p] # question[p]
      BY <3>2, Zenon
    <3> HIDE DEF a
    <3> QED
      BY <1>5, <3>3, <3>4, <3>5, OneRun
  <2> QED
    BY <1>2, <1>3, <2>1, <2>2, Zenon DEF QuestionStep
<1> QED
  BY <1>4, <1>5

\* An edit of the URL ends the execution whose row it takes; a decision finds none under way.
LEMMA JobStepRuns ==
  ASSUME Inductive, NEW a \in Apps, JobStep(a)
  PROVE  RunsKept
<1>1. app[a] \in Application
  BY Zenon DEF Inductive, TypeOK
<1>2. ASSUME NEW url, UpdateUrl(a, url) PROVE RunsKept
  <2> DEFINE revoked == /\ app[a].mode = "authorized_auto"
                        /\ app[a].status \in {"queued", "needs_review", "in_progress",
                                              "awaiting_final_confirmation"}
             n == Released(app[a], "needs_review")
  <2>1. /\ auth' = IF revoked THEN RevokedRows({a}) ELSE auth
        /\ app' = [app EXCEPT ![a] = IF revoked THEN n ELSE app[a]]
    BY <1>2, Zenon DEF UpdateUrl
  <2>2. n.status = "needs_review"
    BY <1>1, ReleasedShape, Zenon
  <2>3. n.status \notin {"in_progress", "awaiting_final_confirmation"}
    BY <2>2, Zenon
  <2> HIDE DEF revoked, n
  <2>4. CASE revoked
    <3>1. auth' = RevokedRows({a}) /\ app' = [app EXCEPT ![a] = n]
      BY <2>1, <2>4, Zenon
    <3> QED
      BY <2>3, <3>1, RevokedOthers, OneRun
  <2>5. CASE ~revoked
    <3>1. auth' = auth /\ app' = [app EXCEPT ![a] = app[a]]
      BY <2>1, <2>5, Zenon
    <3> QED
      BY <3>1, RevokedOthers, SameRowsHold, OneRun
  <2> QED
    BY <2>4, <2>5
<1>3. CASE WithdrawPending(a)
  BY <1>3, WithdrawPendingRuns
<1>4. CASE auth' = auth /\ app' = app
  BY <1>4, NoRowRuns
<1>5. ASSUME NEW opening, EditOpening(a, opening) PROVE auth' = auth /\ app' = app
  BY <1>5, Zenon DEF EditOpening
<1>6. ASSUME NEW c, TransitionJob(a, c) PROVE auth' = auth /\ app' = app
  BY <1>6, Zenon DEF TransitionJob
<1>7. CASE DecideInterested(a) \/ UndoDecision(a) \/ Restore(a) \/ ApproveResume(a)
  <2>1. auth' = auth /\ app' = app
    BY <1>7, Zenon DEF DecideInterested, UndoDecision, Restore, ApproveResume
  <2> QED
    BY <1>4, <2>1
<1>8. CASE DecideNoTime(a) \/ RejectJob(a) \/ Archive(a) \/ EditResume(a)
  <2>1. WithdrawPending(a) \/ (auth' = auth /\ app' = app)
    BY <1>8, Zenon DEF DecideNoTime, RejectJob, Archive, EditResume
  <2> QED
    BY <1>3, <1>4, <2>1
<1> QED
  BY <1>2, <1>4, <1>5, <1>6, <1>7, <1>8, Zenon DEF JobStep

\* An expiration withdraws what waits: an execution claimed since the reading goes on.
LEMMA CronStepRuns ==
  ASSUME Inductive, CronStep
  PROVE  RunsKept
<1>1. \/ auth' = auth /\ app' = app
      \/ \E a \in Apps : WithdrawPending(a)
  <2>1. ASSUME CronRead PROVE auth' = auth /\ app' = app
    BY <2>1, Zenon DEF CronRead, panelVars
  <2>2. ASSUME NEW a \in Apps, CronExpire(a)
        PROVE  WithdrawPending(a) \/ (auth' = auth /\ app' = app)
    BY <2>2, Zenon DEF CronExpire, ExpireJob
  <2>3. ASSUME NEW a \in Apps, NEW url \in 1..MaxUrl, NEW opening \in Opening,
               WriteFromSource(a, url, opening)
        PROVE  WithdrawPending(a) \/ (auth' = auth /\ app' = app)
    BY <2>3, Zenon DEF WriteFromSource, ExpireJob
  <2> QED
    BY <2>1, <2>2, <2>3, Zenon DEF CronStep
<1> QED
  BY <1>1, NoRowRuns, WithdrawPendingRuns

\* The settings pause executions, and leave them their reservation.
LEMMA SettingsStepRuns ==
  ASSUME Inductive, SettingsStep
  PROVE  RunsKept
<1>1. app \in [Apps -> Application] /\ auth \in [AuthIds -> Authorization]
  BY Zenon DEF Inductive, TypeOK
<1>2. ASSUME NEW s, \A a \in Apps : app'[a] = app[a] \/ app'[a] = [app[a] EXCEPT !.status = s],
             NEW a \in Apps
      PROVE  app'[a].auth = app[a].auth
  <2>1. app[a] \in Application
    BY <1>1, Zenon
  <2> QED
    BY <1>2, <2>1, Zenon DEF Application
<1>3. CASE Pause
  <2>1. /\ \A x \in AuthIds :
             \/ auth'[x] = auth[x]
             \/ auth'[x] = [auth[x] EXCEPT !.paused = TRUE, !.requested = FALSE,
                                           !.confirmed = 0, !.token = 0]
        /\ \A a \in Apps : app'[a] = app[a] \/ app'[a] = [app[a] EXCEPT !.status = "needs_review"]
    BY <1>3, Zenon DEF Pause
  <2>2. RowsHold
    <3> SUFFICES ASSUME NEW x \in AuthIds PROVE auth'[x].state = auth[x].state
      BY Zenon DEF RowsHold
    <3>1. auth[x] \in Authorization
      BY <1>1, Zenon
    <3> QED
      BY <2>1, <3>1, Zenon DEF Authorization
  <2> QED
    BY <1>2, <2>1, <2>2, RowsHoldRuns
<1>4. CASE ResumeAutomation
  <2>1. /\ \A x \in AuthIds :
             auth'[x] = auth[x] \/ auth'[x] = [Renewed(auth[x]) EXCEPT !.paused = FALSE]
        /\ \A a \in Apps : app'[a] = app[a] \/ app'[a] = [app[a] EXCEPT !.status = "in_progress"]
    BY <1>4, Zenon DEF ResumeAutomation
  <2>2. RowsHold
    <3> SUFFICES ASSUME NEW x \in AuthIds PROVE auth'[x].state = auth[x].state
      BY Zenon DEF RowsHold
    <3>1. auth[x] \in Authorization
      BY <1>1, Zenon
    <3> QED
      BY <2>1, <3>1, Zenon DEF Authorization, Renewed
  <2> QED
    BY <1>2, <2>1, <2>2, RowsHoldRuns
<1>5. ASSUME NEW n, SetDailyLimit(n) PROVE RunsKept
  <2>1. auth' = auth /\ app' = app
    BY <1>5, Zenon DEF SetDailyLimit, panelVars
  <2> QED
    BY <2>1, NoRowRuns
<1> QED
  BY <1>3, <1>4, <1>5, Zenon DEF SettingsStep

\* AUTORIZO is given to what waits; time and crashes take no reservation, the sweep does.
LEMMA AuthorizeTimeRuns ==
  ASSUME Inductive, AuthorizeStep \/ TimeStep \/ UNCHANGED vars
  PROVE  RunsKept
<1>1. app \in [Apps -> Application] /\ auth \in [AuthIds -> Authorization]
  BY Zenon DEF Inductive, TypeOK
<1>2. CASE AuthorizeRefused \/ UNCHANGED vars
  <2>1. auth' = auth /\ app' = app
    BY <1>2, Zenon DEF AuthorizeRefused, panelVars, vars
  <2> QED
    BY <2>1, NoRowRuns
<1>3. ASSUME NEW x \in AuthIds, AuthorizeWrite(x) PROVE RunsKept
  <2>1. /\ desk.app \in Apps
        /\ app[desk.app].status \in ModeChange /\ auth[x].state = "none"
        /\ \E r : auth' = WithRow(x, r)
        /\ \E m : app' = [app EXCEPT ![desk.app] = m]
    BY <1>3, Zenon DEF AuthorizeWrite, Inductive, TypeOK, Call
  <2>2. \A y \in AuthIds : auth[y].state = "claimed" => auth'[y] = auth[y]
    BY <1>1, <2>1, Zenon DEF WithRow
  <2>3. app[desk.app].status \notin {"in_progress", "awaiting_final_confirmation"}
    BY <2>1, Zenon DEF ModeChange
  <2> QED
    BY <2>1, <2>2, <2>3, OneRun
<1>4. CASE TimeStep
  <2>1. app' = app
    BY <1>4, Zenon DEF TimeStep, TtlLapse, LeaseLapse, DeadlinePasses, NewDay, WorkerCrash,
                       WorkerRestart, panelVars
  <2>2. ASSUME NEW x \in AuthIds
        PROVE  \/ auth'[x] = auth[x] \/ auth'[x] = [auth[x] EXCEPT !.ttlOver = TRUE]
               \/ auth'[x] = [auth[x] EXCEPT !.leaseOver = TRUE]
               \/ auth'[x] = [auth[x] EXCEPT !.today = FALSE]
               \/ auth'[x] = [auth[x] EXCEPT !.given = {}]
    <3>1. ASSUME NEW y \in AuthIds, TtlLapse(y)
          PROVE  auth'[x] = auth[x] \/ auth'[x] = [auth[x] EXCEPT !.ttlOver = TRUE]
      BY <1>1, <3>1, Zenon DEF TtlLapse
    <3>2. ASSUME NEW y \in AuthIds, LeaseLapse(y)
          PROVE  auth'[x] = auth[x] \/ auth'[x] = [auth[x] EXCEPT !.leaseOver = TRUE]
      BY <1>1, <3>2, Zenon DEF LeaseLapse
    <3>3. ASSUME NewDay PROVE auth'[x] = [auth[x] EXCEPT !.today = FALSE]
      BY <3>3, Zenon DEF NewDay
    <3>4. ASSUME NEW w, WorkerCrash(w)
          PROVE  auth'[x] = auth[x] \/ auth'[x] = [auth[x] EXCEPT !.given = {}]
      BY <3>4, Zenon DEF WorkerCrash
    <3>5. ASSUME (\E a \in Apps : DeadlinePasses(a)) \/ \E w \in Workers : WorkerRestart(w)
          PROVE  auth'[x] = auth[x]
      BY <3>5, Zenon DEF DeadlinePasses, WorkerRestart, panelVars
    <3> QED
      BY <1>4, <3>1, <3>2, <3>3, <3>4, <3>5, Zenon DEF TimeStep
  <2>3. ASSUME NEW x \in AuthIds PROVE SameRow(auth[x], auth'[x])
    <3>1. auth[x] \in Authorization
      BY <1>1, Zenon
    <3> QED
      BY <2>2, <3>1, SameRowShapes, Zenon
  <2> QED
    BY <2>1, <2>3, SameRowsHold, RowsHoldRuns
<1> QED
  BY <1>2, <1>3, <1>4, Zenon DEF AuthorizeStep

\* A reservation the sweep expires is that of an execution it ends.
LEMMA ExpireDueRuns ==
  ASSUME Inductive, ExpireDue
  PROVE  RunsKept
<1> SUFFICES ASSUME NEW a \in Apps, InFlight(a), Reserved(a), InFlight(a)' PROVE Reserved(a)'
  BY Zenon DEF RunsKept, RunKept
<1> DEFINE x == app[a].auth
<1>1. /\ x # None /\ x \in AuthIds /\ auth[x].state = "claimed"
      /\ app[a] \in Application
  BY OwnRow, Zenon DEF Reserved, Inductive, TypeOK
<1>2. /\ auth'[x] = IF x \in Due THEN Closed(auth[x], "expired") ELSE auth[x]
      /\ app'[a] = IF a \in Expiring THEN Released(app[a], "needs_review") ELSE app[a]
  BY <1>1, Zenon DEF ExpireDue
<1>3. a \notin Expiring
  <2> SUFFICES ASSUME a \in Expiring PROVE FALSE
    OBVIOUS
  <2>1. app'[a] = Released(app[a], "needs_review")
    BY <1>2, Zenon
  <2>2. Released(app[a], "needs_review").status = "needs_review"
    BY <1>1, ReleasedShape, Zenon
  <2>3. app'[a].status = "needs_review"
    BY <2>1, <2>2
  <2> QED
    BY <2>3, Zenon DEF InFlight
<1>4. x \notin Due
  <2>1. x \notin DueIssued
    BY <1>1, Zenon DEF DueIssued
  <2>2. x \notin DueLease
    <3> SUFFICES ASSUME x \in DueLease PROVE FALSE
      OBVIOUS
    <3>1. ~HumanWait(x)
      BY Zenon DEF DueLease
    <3>2. app[a].status = "in_progress"
      BY <3>1, Zenon DEF HumanWait, InFlight
    <3> QED
      BY <1>3, <3>2, Zenon DEF Expiring
  <2>3. x \notin DueWaiting
    BY <1>3, Zenon DEF Expiring, InFlight
  <2> QED
    BY <2>1, <2>2, <2>3, Zenon DEF Due
<1> QED
  BY <1>1, <1>2, <1>3, <1>4, Zenon DEF Reserved

\* The recovery finds no application that is reserved, but in another's mode.
LEMMA RecoverStuckRuns ==
  ASSUME Inductive, RecoverStuck
  PROVE  RunsKept
<1> SUFFICES ASSUME NEW a \in Apps, InFlight(a), Reserved(a) PROVE Reserved(a)'
  BY Zenon DEF RunsKept, RunKept
<1> DEFINE x == app[a].auth
<1>1. /\ x # None /\ x \in AuthIds /\ auth[x].state = "claimed" /\ auth[x].app = a
  BY OwnRow, Zenon DEF Reserved
<1>2. app[a].mode = "authorized_auto"
  BY <1>1, LiveFacts, Zenon DEF Live
<1>3. a \notin Stuck
  BY <1>1, <1>2, Zenon DEF Stuck
<1>4. auth'[x] = auth[x] /\ app'[a] = app[a]
  BY <1>1, <1>3, Zenon DEF RecoverStuck, RevokedRows
<1> QED
  BY <1>1, <1>4, Zenon DEF Reserved

\* Every step but an answer ends the execution whose reservation it takes.
LEMMA NextRuns == Inductive /\ [Next]_vars => RunsKept
<1> SUFFICES ASSUME Inductive, [Next]_vars PROVE RunsKept
  OBVIOUS
<1> QED
  BY UserStepRuns, JobStepRuns, ExecutorStepRuns, QuestionStepRuns, CronStepRuns,
     SettingsStepRuns, AuthorizeTimeRuns, ExpireDueRuns, RecoverStuckRuns, Zenon
     DEF Next, DashboardStep

(***************************************************************************)
(* Whatever takes the reservation of an application under way (a sweep, a  *)
(* limit, an edit, a decision, the collector) also ends the execution, but *)
(* for the answer to a question of it (answerHumanQuestion).               *)
(***************************************************************************)
THEOREM ReservationsEndRuns == Spec => ReservationEndsRun
<1>1. Inductive /\ [Next]_vars => RunsKept
  BY NextRuns
<1>2. Spec => [][RunsKept]_vars
  BY <1>1, InductiveHolds, PTL DEF Spec
<1> QED
  BY <1>2 DEF RunsKept, RunKept, ReservationEndsRun

-----------------------------------------------------------------------------
(* The executor: what the server's handlers leave of an execution *)

\* Rows r and s are the same execution: no new capture and no new token.
SameRun(r, s) ==
  /\ s.state = r.state /\ s.app = r.app /\ s.claimedBy = r.claimedBy
  /\ s.url = r.url /\ s.shot = r.shot
  /\ s.requested => r.requested /\ s.token = r.token

\* What a step that is not an executor's may do to row x.
Quiet(x) ==
  \/ SameRun(auth[x], auth'[x])
  \/ auth[x].state = "none" /\ auth'[x].state = "issued"
  \/ auth'[x].state \in {"consumed", "revoked", "expired"}

AllQuiet == \A x \in AuthIds : Quiet(x)

\* Time, a pause, its end and a confirmation go on with the same execution.
LEMMA SameRunShapes ==
  ASSUME NEW r \in Authorization
  PROVE  /\ SameRun(r, r) /\ SameRun(r, Renewed(r))
         /\ SameRun(r, [r EXCEPT !.ttlOver = TRUE])
         /\ SameRun(r, [r EXCEPT !.leaseOver = TRUE])
         /\ SameRun(r, [r EXCEPT !.today = FALSE])
         /\ SameRun(r, [r EXCEPT !.given = {}])
BY Zenon DEF Authorization, SameRun, Renewed

LEMMA SameRunPaused ==
  ASSUME NEW r \in Authorization, NEW n
  PROVE  /\ SameRun(r, [r EXCEPT !.paused = TRUE, !.requested = FALSE, !.confirmed = 0, !.token = 0])
         /\ SameRun(r, [Renewed(r) EXCEPT !.paused = FALSE])
         /\ SameRun(r, [Renewed(r) EXCEPT !.confirmed = n])
<1>1. SameRun(r, [r EXCEPT !.paused = TRUE, !.requested = FALSE, !.confirmed = 0, !.token = 0])
  BY Zenon DEF Authorization, SameRun
<1> DEFINE s == Renewed(r)
<1>2. s \in Authorization /\ SameRun(r, s)
  BY RenewedType, SameRunShapes, Zenon
<1> HIDE DEF s
<1>3. SameRun(r, [s EXCEPT !.paused = FALSE])
  BY <1>2, Zenon DEF Authorization, SameRun
<1>4. SameRun(r, [s EXCEPT !.confirmed = n])
  BY <1>2, Zenon DEF Authorization, SameRun
<1> QED
  BY <1>1, <1>3, <1>4 DEF s

\* A table nobody writes.
LEMMA QuietSame ==
  ASSUME TypeOK, auth' = auth
  PROVE  AllQuiet
<1> SUFFICES ASSUME NEW x \in AuthIds PROVE Quiet(x)
  BY Zenon DEF AllQuiet
<1>1. auth[x] \in Authorization
  BY Zenon DEF TypeOK
<1> QED
  BY <1>1, SameRunShapes, Zenon DEF Quiet

\* One row, written as the same execution.
LEMMA QuietRow ==
  ASSUME TypeOK, NEW x, NEW r, auth' = WithRow(x, r), x \in AuthIds => SameRun(auth[x], r)
  PROVE  AllQuiet
<1> SUFFICES ASSUME NEW y \in AuthIds PROVE Quiet(y)
  BY Zenon DEF AllQuiet
<1>1. auth \in [AuthIds -> Authorization]
  BY Zenon DEF TypeOK
<1>2. SameRun(auth[y], auth[y])
  BY <1>1, SameRunShapes, Zenon
<1>3. CASE y = x
  BY <1>1, <1>3, Zenon DEF WithRow, Quiet
<1>4. CASE y # x
  BY <1>1, <1>2, <1>4, Zenon DEF WithRow, Quiet
<1> QED
  BY <1>3, <1>4

\* A lease that is renewed.
LEMMA QuietRenewed ==
  ASSUME TypeOK, NEW x, auth' = WithRow(x, Renewed(auth[x]))
  PROVE  AllQuiet
<1>1. ASSUME x \in AuthIds PROVE SameRun(auth[x], Renewed(auth[x]))
  BY <1>1, SameRunShapes, Zenon DEF TypeOK
<1> QED
  BY <1>1, QuietRow, Zenon

\* revokeAuthorizationRows, of any applications.
LEMMA QuietRevoked ==
  ASSUME TypeOK, NEW S, auth' = RevokedRows(S)
  PROVE  AllQuiet
<1> SUFFICES ASSUME NEW x \in AuthIds PROVE Quiet(x)
  BY Zenon DEF AllQuiet
<1>1. auth[x] \in Authorization
  BY Zenon DEF TypeOK
<1>2. auth'[x] = Closed(auth[x], "revoked") \/ auth'[x] = auth[x]
  BY Zenon DEF RevokedRows
<1>3. Closed(auth[x], "revoked").state \in {"consumed", "revoked", "expired"}
  BY ClosedShape, Zenon
<1> QED
  BY <1>1, <1>2, <1>3, SameRunShapes, Zenon DEF Quiet

\* The end of an execution revokes.
LEMMA QuietEnded ==
  ASSUME TypeOK, NEW a, NEW s, EndExecution(a, s)
  PROVE  AllQuiet
BY QuietRevoked, Zenon DEF EndExecution

-----------------------------------------------------------------------------
(* The executor: the steps of the panel, the settings and time *)

LEMMA UserStepQuiet ==
  ASSUME TypeOK, NEW a \in Apps, UserStep(a)
  PROVE  AllQuiet
<1>1. CASE \E mode \in {"assisted", "manual"} : CreateApplication(a, mode)
  BY <1>1, QuietSame, Zenon DEF CreateApplication
<1>2. CASE AuthorizeRead(a)
  BY <1>2, QuietSame, Zenon DEF AuthorizeRead, panelVars
<1>3. CASE Revoke(a) \/ SelectManual(a)
  BY <1>3, QuietRevoked, Zenon DEF Revoke, SelectManual
<1>4. CASE SendToReview(a) \/ ReportSubmission(a)
  BY <1>4, QuietSame, Zenon DEF SendToReview, ReportSubmission
<1>5. CASE \E outcome \in {"accepted", "rejected"} : ReportOutcome(a, outcome)
  BY <1>5, QuietSame, Zenon DEF ReportOutcome
<1>6. CASE ConfirmFinal(a)
  <2> DEFINE x == app[a].auth
             r == [Renewed(auth[x]) EXCEPT !.confirmed = auth[x].shot]
  <2>1. auth' = WithRow(x, r)
    BY <1>6, Zenon DEF ConfirmFinal
  <2>2. ASSUME x \in AuthIds PROVE SameRun(auth[x], r)
    BY <2>2, SameRunPaused, Zenon DEF TypeOK
  <2> HIDE DEF r, x
  <2> QED
    BY <2>1, <2>2, QuietRow, Zenon
<1>7. CASE CancelFinal(a)
  BY <1>7, QuietEnded, Zenon DEF CancelFinal
<1> QED
  BY <1>1, <1>2, <1>3, <1>4, <1>5, <1>6, <1>7, Zenon DEF UserStep

\* The kill-switch and the limit.
LEMMA SettingsStepQuiet ==
  ASSUME TypeOK, SettingsStep
  PROVE  AllQuiet
<1>1. CASE Pause
  <2> SUFFICES ASSUME NEW x \in AuthIds PROVE Quiet(x)
    BY Zenon DEF AllQuiet
  <2>1. auth[x] \in Authorization
    BY Zenon DEF TypeOK
  <2>2. \/ auth'[x] = [auth[x] EXCEPT !.paused = TRUE, !.requested = FALSE, !.confirmed = 0, !.token = 0]
        \/ auth'[x] = auth[x]
    BY <1>1, Zenon DEF Pause
  <2> QED
    BY <2>1, <2>2, SameRunShapes, SameRunPaused, Zenon DEF Quiet
<1>2. CASE ResumeAutomation
  <2> SUFFICES ASSUME NEW x \in AuthIds PROVE Quiet(x)
    BY Zenon DEF AllQuiet
  <2>1. auth[x] \in Authorization
    BY Zenon DEF TypeOK
  <2>2. auth'[x] = [Renewed(auth[x]) EXCEPT !.paused = FALSE] \/ auth'[x] = auth[x]
    BY <1>2, Zenon DEF ResumeAutomation
  <2> QED
    BY <2>1, <2>2, SameRunShapes, SameRunPaused, Zenon DEF Quiet
<1>3. CASE \E n \in Limits : SetDailyLimit(n)
  BY <1>3, QuietSame, Zenon DEF SetDailyLimit, panelVars
<1> QED
  BY <1>1, <1>2, <1>3, Zenon DEF SettingsStep

\* The two halves of AUTORIZO.
LEMMA AuthorizeStepQuiet ==
  ASSUME TypeOK, AuthorizeStep
  PROVE  AllQuiet
<1>1. CASE AuthorizeRefused
  BY <1>1, QuietSame, Zenon DEF AuthorizeRefused, panelVars
<1>2. ASSUME NEW x \in AuthIds, AuthorizeWrite(x) PROVE AllQuiet
  <2> SUFFICES ASSUME NEW y \in AuthIds PROVE Quiet(y)
    BY Zenon DEF AllQuiet
  <2> DEFINE r == [NoAuthorization EXCEPT !.state = "issued", !.app = desk.app,
                                          !.version = desk.version, !.url = desk.url]
  <2>1. auth \in [AuthIds -> Authorization]
    BY Zenon DEF TypeOK
  <2>2. auth' = WithRow(x, r) /\ auth[x].state = "none"
    BY <1>2, Zenon DEF AuthorizeWrite
  <2>3. r.state = "issued"
    BY Zenon DEF NoAuthorization
  <2>4. auth[y] \in Authorization
    BY <2>1, Zenon
  <2> HIDE DEF r
  <2>5. CASE y = x
    BY <2>1, <2>2, <2>3, <2>5, Zenon DEF WithRow, Quiet
  <2>6. CASE y # x
    BY <2>1, <2>2, <2>4, <2>6, SameRunShapes, Zenon DEF WithRow, Quiet
  <2> QED
    BY <2>5, <2>6
<1> QED
  BY <1>1, <1>2, Zenon DEF AuthorizeStep

\* A TTL, a lease or a day that passes.
LEMMA TimeQuiet ==
  ASSUME TypeOK, (\E x \in AuthIds : TtlLapse(x) \/ LeaseLapse(x)) \/ NewDay
  PROVE  AllQuiet
<1>1. CASE \E x \in AuthIds : TtlLapse(x) \/ LeaseLapse(x)
  <2> SUFFICES ASSUME NEW x \in AuthIds, TtlLapse(x) \/ LeaseLapse(x), NEW y \in AuthIds
               PROVE  Quiet(y)
    BY <1>1, Zenon DEF AllQuiet
  <2>1. auth \in [AuthIds -> Authorization] /\ auth[y] \in Authorization
    BY Zenon DEF TypeOK
  <2>2. \/ auth'[y] = auth[y]
        \/ auth'[y] = [auth[y] EXCEPT !.ttlOver = TRUE]
        \/ auth'[y] = [auth[y] EXCEPT !.leaseOver = TRUE]
    BY <2>1, Zenon DEF TtlLapse, LeaseLapse
  <2> QED
    BY <2>1, <2>2, SameRunShapes, Zenon DEF Quiet
<1>2. CASE NewDay
  <2> SUFFICES ASSUME NEW y \in AuthIds PROVE Quiet(y)
    BY Zenon DEF AllQuiet
  <2>1. auth[y] \in Authorization /\ auth'[y] = [auth[y] EXCEPT !.today = FALSE]
    BY <1>2, Zenon DEF TypeOK, NewDay
  <2> QED
    BY <2>1, SameRunShapes, Zenon DEF Quiet
<1> QED
  BY <1>1, <1>2, Zenon

\* The sweep expires what is due.
LEMMA ExpireDueQuiet ==
  ASSUME TypeOK, ExpireDue
  PROVE  AllQuiet
<1> SUFFICES ASSUME NEW x \in AuthIds PROVE Quiet(x)
  BY Zenon DEF AllQuiet
<1>1. auth[x] \in Authorization
  BY Zenon DEF TypeOK
<1>2. auth'[x] = Closed(auth[x], "expired") \/ auth'[x] = auth[x]
  BY Zenon DEF ExpireDue
<1>3. Closed(auth[x], "expired").state \in {"consumed", "revoked", "expired"}
  BY ClosedShape, Zenon
<1> QED
  BY <1>1, <1>2, <1>3, SameRunShapes, Zenon DEF Quiet

\* So is all the executor meets on the other side.
LEMMA PanelStepQuiet ==
  ASSUME TypeOK, PanelStep
  PROVE  AllQuiet
<1>1. CASE \E a \in Apps, u \in 1..MaxUrl : UpdateUrl(a, u)
  BY <1>1, QuietRevoked, QuietSame, Zenon DEF UpdateUrl
<1>2. CASE RecoverStuck
  BY <1>2, QuietRevoked, Zenon DEF RecoverStuck
<1>3. CASE \E w \in Workers : WorkerRestart(w)
  BY <1>3, QuietSame, Zenon DEF WorkerRestart, panelVars
<1> QED
  BY <1>1, <1>2, <1>3, UserStepQuiet, ExpireDueQuiet, SettingsStepQuiet, AuthorizeStepQuiet,
     TimeQuiet, Zenon DEF PanelStep

\* And the crash of an executor.
LEMMA CrashQuiet ==
  ASSUME TypeOK, NEW w, WorkerCrash(w)
  PROVE  AllQuiet
<1> SUFFICES ASSUME NEW x \in AuthIds PROVE Quiet(x)
  BY Zenon DEF AllQuiet
<1>1. auth[x] \in Authorization
  BY Zenon DEF TypeOK
<1>2. auth'[x] = [auth[x] EXCEPT !.given = {}] \/ auth'[x] = auth[x]
  BY Zenon DEF WorkerCrash
<1> QED
  BY <1>1, <1>2, SameRunShapes, Zenon DEF Quiet

-----------------------------------------------------------------------------
(* The executor: what it remembers *)

\* Row r is being executed by w, for application a.
IsRun(r, w, a) == r.state = "claimed" /\ r.claimedBy = w /\ r.app = a

\* The tokens of conversation t.
TokensOf(t) == IF t = None THEN {} ELSE t.token

\* Token k was handed out: no later poll hands it out again.
SpentIn(k, rows) ==
  LET r == rows[k[1]] IN
  /\ r.state \notin {"none", "issued"}
  /\ r.state = "claimed" => k[2] <= r.shot /\ (k[2] = r.shot /\ r.requested => r.token = k[2])

\* A token is handed out once, to one conversation, and is not clicked with before "clicked".
OneClick ==
  /\ \A k \in clicked : SpentIn(k, auth)
  /\ \A w \in Workers :
       /\ \A k \in TokensOf(talk[w]) : SpentIn(k, auth)
       /\ \A v \in Workers \ {w} : TokensOf(talk[w]) \cap TokensOf(talk[v]) = {}
       /\ talk[w] # None /\ talk[w].step # "clicked" => talk[w].token \cap clicked = {}

(***************************************************************************)
(* What conversation t of w and the form b in its browser say of w's       *)
(* executions: a token is of the row being executed, a captured form is    *)
(* the page of the row it was captured for, and what was asked or          *)
(* confirmed is captured.                                                  *)
(***************************************************************************)
Sound(w, t, b, rows) ==
  /\ t # None /\ t.step = "reading" => t.token = {}
  /\ t # None => \A x \in AuthIds : IsRun(rows[x], w, t.app) => \A k \in t.token : k[1] = x
  /\ b \in Tab /\ b.captured =>
       \A x \in AuthIds : IsRun(rows[x], w, b.app) /\ rows[x].requested => b.url = rows[x].url
  /\ b # None /\ b.captured /\ w \in Tools => b.url \in Domain
  /\ t # None /\ t.step \in {"asked", "confirmed"} =>
       b \in Tab /\ b.captured /\ b.app = t.app /\ (w \in Tools => b.url \in Domain)
  /\ t # None /\ t.step = "confirmed" =>
       \A x \in AuthIds : IsRun(rows[x], w, t.app) => b.url = rows[x].url

Clearing == \A w \in Workers : Sound(w, talk[w], tab[w], auth)

\* The inductive invariant of the executor, over the one of what it calls.
ClientInductive == ClientTypeOK /\ OneClick /\ Clearing /\ Inductive

-----------------------------------------------------------------------------
(* The executor: what its calls do to the rows *)

Others(x) == \A y \in AuthIds : y # x => auth'[y] = auth[y]

\* w starts to execute row x.
NewRun(w, a, x) ==
  /\ x \in AuthIds /\ auth[x].state = "issued"
  /\ IsRun(auth'[x], w, a) /\ ~auth'[x].requested /\ Others(x)

\* The row of an execution takes a new capture.
NewCapture(w, a, x) ==
  /\ x \in AuthIds /\ IsRun(auth[x], w, a) /\ IsRun(auth'[x], w, a)
  /\ auth'[x].url = auth[x].url /\ auth'[x].shot = auth[x].shot + 1 /\ auth[x].shot \in Nat
  /\ Others(x)

\* Its confirmation is answered with a token.
NewToken(w, a, x) ==
  /\ x \in AuthIds /\ IsRun(auth[x], w, a) /\ IsRun(auth'[x], w, a)
  /\ auth'[x].url = auth[x].url /\ auth'[x].shot = auth[x].shot
  /\ auth[x].requested /\ auth[x].token = 0
  /\ auth'[x].token = auth[x].shot /\ auth[x].shot \in 1..MaxShots
  /\ Others(x)

\* No execution of w begins, and none asks for what it had not asked for.
RunsStay(w) ==
  \A x \in AuthIds, a \in Apps : IsRun(auth'[x], w, a) =>
    /\ IsRun(auth[x], w, a) /\ auth'[x].url = auth[x].url
    /\ auth'[x].requested => auth[x].requested

SpentStays == \A k \in Token : SpentIn(k, auth) => SpentIn(k, auth')

\* Whatever is not an executor's call leaves executions and tokens as they are.
LEMMA QuietRuns ==
  ASSUME AllQuiet
  PROVE  SpentStays /\ \A w \in Workers : RunsStay(w)
<1>1. SpentStays
  <2> SUFFICES ASSUME NEW k \in Token, SpentIn(k, auth) PROVE SpentIn(k, auth')
    BY Zenon DEF SpentStays
  <2>1. Quiet(k[1])
    BY Zenon DEF Token, AllQuiet
  <2> QED
    BY <2>1 DEF SpentIn, Quiet, SameRun
<1>2. ASSUME NEW w \in Workers PROVE RunsStay(w)
  <2> SUFFICES ASSUME NEW x \in AuthIds, NEW a \in Apps, IsRun(auth'[x], w, a)
               PROVE  /\ IsRun(auth[x], w, a) /\ auth'[x].url = auth[x].url
                      /\ auth'[x].requested => auth[x].requested
    BY Zenon DEF RunsStay
  <2>1. Quiet(x) /\ auth'[x].state = "claimed"
    BY Zenon DEF AllQuiet, IsRun
  <2>2. SameRun(auth[x], auth'[x])
    BY <2>1 DEF Quiet
  <2> QED
    BY <2>2, Zenon DEF SameRun, IsRun
<1> QED
  BY <1>1, <1>2

\* A claim begins an execution of one executor.
LEMMA NewRunRuns ==
  ASSUME NEW w \in Workers, NEW a \in Apps, NEW x, NewRun(w, a, x)
  PROVE  SpentStays /\ \A v \in Workers : v # w => RunsStay(v)
<1>1. SpentStays
  <2> SUFFICES ASSUME NEW k \in Token, SpentIn(k, auth) PROVE SpentIn(k, auth')
    BY Zenon DEF SpentStays
  <2>1. k[1] # x /\ k[1] \in AuthIds
    BY DEF NewRun, SpentIn, Token
  <2> QED
    BY <2>1, Zenon DEF NewRun, Others, SpentIn
<1>2. ASSUME NEW v \in Workers, v # w PROVE RunsStay(v)
  BY <1>2, Zenon DEF RunsStay, NewRun, Others, IsRun
<1> QED
  BY <1>1, <1>2

\* A capture makes the tokens of the earlier ones old.
LEMMA NewCaptureRuns ==
  ASSUME NEW w \in Workers, NEW a \in Apps, NEW x, NewCapture(w, a, x)
  PROVE  SpentStays /\ \A v \in Workers : v # w => RunsStay(v)
<1>1. SpentStays
  <2> SUFFICES ASSUME NEW k \in Token, SpentIn(k, auth) PROVE SpentIn(k, auth')
    BY Zenon DEF SpentStays
  <2>1. k[1] \in AuthIds /\ k[2] \in Nat
    BY BoundsAssumption DEF Token
  <2>2. CASE k[1] = x
    <3>1. k[2] <= auth[x].shot /\ auth[x].shot \in Nat /\ auth'[x].shot = auth[x].shot + 1
      BY <2>2, Zenon DEF NewCapture, IsRun, SpentIn
    <3>2. k[2] <= auth'[x].shot /\ k[2] # auth'[x].shot
      BY <2>1, <3>1
    <3>3. auth'[x].state = "claimed"
      BY Zenon DEF NewCapture, IsRun
    <3> QED
      BY <2>2, <3>2, <3>3 DEF SpentIn
  <2>3. CASE k[1] # x
    BY <2>1, <2>3, Zenon DEF NewCapture, Others, SpentIn
  <2> QED
    BY <2>2, <2>3
<1>2. ASSUME NEW v \in Workers, v # w PROVE RunsStay(v)
  BY <1>2, Zenon DEF RunsStay, NewCapture, Others, IsRun
<1> QED
  BY <1>1, <1>2

\* A token that is minted was not out before.
LEMMA NewTokenRuns ==
  ASSUME NEW w \in Workers, NEW a \in Apps, NEW x, NewToken(w, a, x)
  PROVE  /\ SpentStays /\ \A v \in Workers : RunsStay(v)
         /\ <<x, auth'[x].token>> \in Token
         /\ ~SpentIn(<<x, auth'[x].token>>, auth) /\ SpentIn(<<x, auth'[x].token>>, auth')
<1> USE BoundsAssumption
<1>1. SpentStays
  <2> SUFFICES ASSUME NEW k \in Token, SpentIn(k, auth) PROVE SpentIn(k, auth')
    BY Zenon DEF SpentStays
  <2>1. k[1] \in AuthIds /\ k[2] \in 1..MaxShots
    BY DEF Token
  <2>2. CASE k[1] = x
    <3>1. /\ k[2] <= auth[x].shot /\ auth[x].shot \in 1..MaxShots /\ auth'[x].shot = auth[x].shot
          /\ k[2] = auth[x].shot => auth[x].token = k[2]
          /\ auth[x].token = 0 /\ auth'[x].state = "claimed"
      BY <2>2, Zenon DEF NewToken, IsRun, SpentIn
    <3> QED
      BY <2>1, <2>2, <3>1 DEF SpentIn
  <2>3. CASE k[1] # x
    BY <2>1, <2>3, Zenon DEF NewToken, Others, SpentIn
  <2> QED
    BY <2>2, <2>3
<1>2. ASSUME NEW v \in Workers PROVE RunsStay(v)
  BY <1>2, Zenon DEF RunsStay, NewToken, Others, IsRun
<1>3. /\ x \in AuthIds /\ auth'[x].token = auth[x].shot /\ auth[x].shot \in 1..MaxShots
      /\ auth[x].state = "claimed" /\ auth'[x].state = "claimed" /\ auth'[x].shot = auth[x].shot
      /\ auth[x].requested /\ auth[x].token = 0
  BY Zenon DEF NewToken, IsRun
<1>4. <<x, auth'[x].token>> \in Token
  BY <1>3 DEF Token
<1>5. ~SpentIn(<<x, auth'[x].token>>, auth) /\ SpentIn(<<x, auth'[x].token>>, auth')
  BY <1>3 DEF SpentIn
<1> QED
  BY <1>1, <1>2, <1>4, <1>5

-----------------------------------------------------------------------------
(* The executor: its calls *)

\* What a handler that tested the authorization of a knows of its row.
LEMMA CurrentRow ==
  ASSUME Inductive, NEW a \in Apps, NEW st, Current(a, st)
  PROVE  /\ app[a].auth \in AuthIds /\ auth[app[a].auth] \in Authorization
         /\ auth[app[a].auth].state = st /\ auth[app[a].auth].app = a
         /\ auth[app[a].auth].url = job[a].url /\ job[a].url \in 1..MaxUrl
<1>1. app[a].auth # None /\ auth[app[a].auth].state = st /\ job[a].url = auth[app[a].auth].url
  BY Zenon DEF Current, GrantHolds
<1>2. app[a] \in Application /\ job[a] \in Job
  BY Zenon DEF Inductive, TypeOK
<1>3. app[a].auth \in AuthIds /\ job[a].url \in 1..MaxUrl
  BY <1>1, <1>2, Zenon DEF Application, Job
<1>4. auth[app[a].auth].app = a
  BY <1>1, Zenon DEF Inductive, Ownership, PointsAtOwnRow
<1> QED
  BY <1>1, <1>3, <1>4, Zenon DEF Inductive, TypeOK

\* Whoever holds an application executes one row of it, the current one.
LEMMA RunningRow ==
  ASSUME Inductive, NEW a \in Apps, NEW w \in Workers, HeldBy(a, w)
  PROVE  /\ app[a].auth \in AuthIds /\ auth[app[a].auth] \in Authorization
         /\ IsRun(auth[app[a].auth], w, a)
         /\ \A y \in AuthIds : IsRun(auth[y], w, a) => y = app[a].auth
<1>1. Current(a, "claimed") /\ auth[app[a].auth].claimedBy = w
  BY Zenon DEF HeldBy
<1>2. \A y \in AuthIds : IsRun(auth[y], w, a) => y = app[a].auth
  BY Zenon DEF IsRun, Live, Inductive, Ownership, LiveRowIsCurrent
<1>3. /\ app[a].auth \in AuthIds /\ auth[app[a].auth] \in Authorization
      /\ auth[app[a].auth].state = "claimed" /\ auth[app[a].auth].app = a
  BY <1>1, CurrentRow
<1> QED
  BY <1>1, <1>2, <1>3, Zenon DEF IsRun

LEMMA WritesOne ==
  ASSUME TypeOK, NEW x \in AuthIds, NEW r, auth' = WithRow(x, r)
  PROVE  auth'[x] = r /\ Others(x)
BY Zenon DEF TypeOK, WithRow, Others

LEMMA ClaimRuns ==
  ASSUME Inductive, NEW a \in Apps, NEW w \in Workers, Claim(a, w)
  PROVE  /\ NewRun(w, a, app[a].auth)
         /\ auth[app[a].auth].url \in 1..MaxUrl /\ app'[a].auth = app[a].auth
<1> DEFINE x == app[a].auth
           r == [auth[x] EXCEPT !.state = "claimed", !.claimedBy = w, !.leaseOver = FALSE]
<1>1. /\ Current(a, "issued") /\ auth' = WithRow(x, r)
      /\ app' = [app EXCEPT ![a] = [app[a] EXCEPT !.status = "in_progress", !.claimedBy = w]]
  BY Zenon DEF Claim
<1>2. /\ x \in AuthIds /\ auth[x] \in Authorization /\ auth[x].state = "issued" /\ auth[x].app = a
      /\ auth[x].url \in 1..MaxUrl
  BY <1>1, CurrentRow
<1>3. ~auth[x].requested
  BY <1>2, Zenon DEF Inductive, Gating, OnlyClaimedIsPaused
<1>4. r.state = "claimed" /\ r.claimedBy = w /\ r.app = a /\ ~r.requested
  BY <1>2, <1>3, Zenon DEF Authorization
<1>5. app'[a].auth = x
  BY <1>1, Zenon DEF Inductive, TypeOK, Application
<1> HIDE DEF r
<1>6. auth'[x] = r /\ Others(x)
  BY <1>1, <1>2, WritesOne, Zenon DEF Inductive
<1> QED
  BY <1>2, <1>4, <1>5, <1>6, Zenon DEF NewRun, IsRun

LEMMA HeartbeatQuiet ==
  ASSUME Inductive, NEW a \in Apps, NEW w, Heartbeat(a, w)
  PROVE  AllQuiet
BY QuietRenewed, Zenon DEF Heartbeat, Inductive

LEMMA FailQuiet ==
  ASSUME Inductive, NEW a \in Apps, NEW w, Fail(a, w)
  PROVE  AllQuiet
BY QuietEnded, Zenon DEF Fail, Inductive

LEMMA SubmitQuiet ==
  ASSUME Inductive, NEW a \in Apps, NEW w \in Workers, Submit(a, w)
  PROVE  AllQuiet
<1> DEFINE x == app[a].auth
<1>1. CASE EndExecution(a, "needs_review")
  BY <1>1, QuietEnded, Zenon DEF Inductive
<1>2. CASE auth' = WithRow(x, Closed(auth[x], "consumed"))
  <2>1. x \in AuthIds
    BY RunningRow, Zenon DEF Submit
  <2>2. auth'[x] = Closed(auth[x], "consumed") /\ Others(x)
    BY <1>2, <2>1, WritesOne, Zenon DEF Inductive
  <2>3. Closed(auth[x], "consumed").state = "consumed"
    BY ClosedShape
  <2> SUFFICES ASSUME NEW y \in AuthIds PROVE Quiet(y)
    BY Zenon DEF AllQuiet
  <2>4. CASE y = x
    BY <2>2, <2>3, <2>4 DEF Quiet
  <2>5. CASE y # x
    <3>1. auth'[y] = auth[y] /\ auth[y] \in Authorization
      BY <2>2, <2>5, Zenon DEF Others, Inductive, TypeOK
    <3> QED
      BY <3>1, SameRunShapes, Zenon DEF Quiet
  <2> QED
    BY <2>4, <2>5
<1> QED
  BY <1>1, <1>2, Zenon DEF Submit

LEMMA RequestFinalRuns ==
  ASSUME Inductive, NEW a \in Apps, NEW w \in Workers, RequestFinal(a, w)
  PROVE  /\ Usage >= dailyLimit => AllQuiet
         /\ Usage < dailyLimit => NewCapture(w, a, app[a].auth)
<1> DEFINE x == app[a].auth
           s == Renewed(auth[x])
           r == [s EXCEPT !.requested = TRUE, !.shot = @ + 1, !.confirmed = 0, !.token = 0]
<1>1. ~(Usage >= dailyLimit /\ Usage < dailyLimit)
  <2>1. Usage \in Nat
    BY FiniteAssumption, FS_Subset, FS_CardinalityType DEF Usage
  <2>2. dailyLimit \in Nat
    BY BoundsAssumption DEF Inductive, TypeOK
  <2> QED
    BY <2>1, <2>2
<1>2. /\ x \in AuthIds /\ auth[x] \in Authorization /\ IsRun(auth[x], w, a)
  <2>1. HeldBy(a, w)
    BY Zenon DEF RequestFinal
  <2> QED
    BY <2>1, RunningRow, Zenon
<1>3. CASE Usage >= dailyLimit
  BY <1>1, <1>3, QuietEnded, Zenon DEF RequestFinal, Inductive
<1>4. CASE Usage < dailyLimit
  <2>1. auth' = WithRow(x, r)
    BY <1>1, <1>4, Zenon DEF RequestFinal
  <2>2. s \in Authorization /\ s.shot = auth[x].shot /\ s.url = auth[x].url /\ IsRun(s, w, a)
    BY <1>2, RenewedType, SameRunShapes, Zenon DEF SameRun, IsRun
  <2>3. auth[x].shot \in Nat
    BY <1>2, BoundsAssumption DEF Authorization
  <2> HIDE DEF s
  <2>4. IsRun(r, w, a) /\ r.shot = s.shot + 1 /\ r.url = s.url
    BY <2>2, Zenon DEF Authorization, IsRun
  <2> HIDE DEF r
  <2>5. auth'[x] = r /\ Others(x)
    BY <1>2, <2>1, WritesOne, Zenon DEF Inductive
  <2>6. NewCapture(w, a, x)
    BY <1>2, <2>2, <2>3, <2>4, <2>5, Zenon DEF NewCapture
  <2> QED
    BY <1>1, <1>4, <2>6, Zenon
<1> QED
  BY <1>1, <1>3, <1>4, Zenon DEF RequestFinal

LEMMA PollRuns ==
  ASSUME Inductive, NEW a \in Apps, NEW w \in Workers, Poll(a, w)
  PROVE  /\ app'[a].auth = app[a].auth
         /\ \/ AllQuiet /\ auth'[app[a].auth].given = auth[app[a].auth].given
            \/ NewToken(w, a, app[a].auth)
<1> DEFINE x == app[a].auth
           s == Renewed(auth[x])
           r == [s EXCEPT !.token = auth[x].confirmed, !.given = @ \cup {auth[x].confirmed}]
<1>1. x \in AuthIds /\ auth[x] \in Authorization /\ IsRun(auth[x], w, a)
  <2>1. HeldBy(a, w)
    BY Zenon DEF Poll
  <2> QED
    BY <2>1, RunningRow, Zenon
<1>2. s \in Authorization /\ s.shot = auth[x].shot /\ s.url = auth[x].url /\ IsRun(s, w, a)
  BY <1>1, RenewedType, SameRunShapes, Zenon DEF SameRun, IsRun
<1>3. app'[a].auth = x
  BY Zenon DEF Poll
<1>4. CASE auth' = WithRow(x, s)
  <2>1. AllQuiet
    BY <1>4, QuietRenewed, Zenon DEF Inductive
  <2>2. auth'[x] = s
    BY <1>1, <1>4, WritesOne, Zenon DEF Inductive
  <2>3. s.given = auth[x].given
    BY <1>1, Zenon DEF Renewed, Authorization
  <2> QED
    BY <1>3, <2>1, <2>2, <2>3, Zenon
<1>5. CASE /\ auth[x].requested /\ auth[x].confirmed # 0 /\ auth[x].token = 0
           /\ auth' = WithRow(x, r)
  <2>1. auth[x].confirmed = auth[x].shot
    BY <1>1, <1>5, Zenon DEF Inductive, Gating, ConfirmationIsOfCapture
  <2>2. auth[x].shot \in 1..MaxShots
    <3>1. auth[x].shot \in 0..MaxShots
      BY <1>1, Zenon DEF Authorization
    <3> QED
      BY <1>5, <2>1, <3>1, BoundsAssumption
  <2> HIDE DEF s
  <2>3. IsRun(r, w, a) /\ r.shot = s.shot /\ r.url = s.url /\ r.token = auth[x].confirmed
    BY <1>2, Zenon DEF Authorization, IsRun
  <2> HIDE DEF r
  <2>4. auth'[x] = r /\ Others(x)
    BY <1>1, <1>5, WritesOne, Zenon DEF Inductive
  <2>5. NewToken(w, a, x)
    BY <1>1, <1>2, <1>5, <2>1, <2>2, <2>3, <2>4, Zenon DEF NewToken
  <2> QED
    BY <1>3, <2>5
<1> QED
  BY <1>4, <1>5, Zenon DEF Poll

-----------------------------------------------------------------------------
(* The executor: a step of one conversation *)

\* What conversation T of w holds, once the step is over.
Holding(w, T) ==
  /\ \A k \in TokensOf(T) : SpentIn(k, auth')
  /\ \A v \in Workers \ {w} : TokensOf(T) \cap TokensOf(talk[v]) = {}
  /\ T # None /\ T.step # "clicked" => T.token \cap clicked' = {}

\* Executions that are kept keep conversations sound.
LEMMA SoundKept ==
  ASSUME NEW w, NEW t \in Talk \cup {None}, NEW b \in Tab \cup {None},
         Sound(w, t, b, auth), RunsStay(w)
  PROVE  Sound(w, t, b, auth')
<1>1. t # None => t.app \in Apps
  BY Zenon DEF Talk
<1>2. b \in Tab => b.app \in Apps
  BY Zenon DEF Tab
<1> QED
  BY <1>1, <1>2, Zenon DEF Sound, RunsStay

\* A conversation that gets no token holds what it held.
LEMMA HoldingLess ==
  ASSUME ClientTypeOK, OneClick, SpentStays, clicked' = clicked, NEW w \in Workers, NEW T,
         TokensOf(T) \subseteq TokensOf(talk[w]),
         T # None /\ T.step # "clicked" => T.token = {} \/ (talk[w] # None /\ talk[w].step # "clicked")
  PROVE  Holding(w, T)
<1>1. talk[w] # None => talk[w].token \in SUBSET Token
  BY Zenon DEF ClientTypeOK, Talk
<1>2. \A k \in TokensOf(talk[w]) : k \in Token /\ SpentIn(k, auth)
  BY <1>1, Zenon DEF OneClick, TokensOf
<1>3. \A k \in TokensOf(T) : SpentIn(k, auth')
  BY <1>2, Zenon DEF SpentStays
<1>4. \A v \in Workers \ {w} : TokensOf(T) \cap TokensOf(talk[v]) = {}
  BY DEF OneClick
<1>5. T # None /\ T.step # "clicked" => T.token \cap clicked' = {}
  <2> SUFFICES ASSUME T # None, T.step # "clicked", T.token # {} PROVE T.token \cap clicked = {}
    BY Zenon
  <2>1. talk[w] # None /\ talk[w].step # "clicked"
    BY Zenon
  <2>2. talk[w].token \cap clicked = {}
    BY <2>1, Zenon DEF OneClick
  <2>3. T.token \subseteq talk[w].token
    BY <2>1, Zenon DEF TokensOf
  <2> QED
    BY <2>2, <2>3, Zenon
<1> QED
  BY <1>3, <1>4, <1>5, Zenon DEF Holding

(***************************************************************************)
(* A step in which the conversation of w becomes T and its form B, and no  *)
(* other executor's moves.                                                 *)
(***************************************************************************)
LEMMA Moved ==
  ASSUME ClientInductive, NEW w \in Workers, NEW T \in Talk \cup {None}, NEW B \in Tab \cup {None},
         talk' = [talk EXCEPT ![w] = T], tab' = [tab EXCEPT ![w] = B],
         clicked \subseteq clicked', clicked' \subseteq clicked \cup TokensOf(talk[w]),
         SpentStays, \A v \in Workers : v # w => RunsStay(v),
         Holding(w, T), Sound(w, T, B, auth'),
         file' \in [Apps -> File \cup {None}], agentOn' \in BOOLEAN
  PROVE  ClientTypeOK' /\ OneClick' /\ Clearing'
<1> USE DEF ClientInductive
<1>1. talk \in [Workers -> Talk \cup {None}] /\ tab \in [Workers -> Tab \cup {None}]
  BY Zenon DEF ClientTypeOK
<1>2. \A v \in Workers : talk'[v] = (IF v = w THEN T ELSE talk[v]) /\ tab'[v] = (IF v = w THEN B ELSE tab[v])
  BY <1>1, Zenon
<1>3. \A v \in Workers : TokensOf(talk[v]) \subseteq Token
  BY <1>1, Zenon DEF TokensOf, Talk
<1>4. ClientTypeOK'
  <2>1. talk' \in [Workers -> Talk \cup {None}] /\ tab' \in [Workers -> Tab \cup {None}]
    BY <1>1, Zenon
  <2>2. clicked' \in SUBSET Token
    BY <1>3 DEF ClientTypeOK
  <2> QED
    BY <2>1, <2>2, Zenon DEF ClientTypeOK
<1>5. OneClick'
  <2>1. ASSUME NEW k \in clicked' PROVE SpentIn(k, auth')
    <3>1. k \in Token /\ SpentIn(k, auth)
      BY <1>3, Zenon DEF OneClick, ClientTypeOK
    <3> QED
      BY <3>1, Zenon DEF SpentStays
  <2>2. ASSUME NEW v \in Workers, NEW k \in TokensOf(talk'[v]) PROVE SpentIn(k, auth')
    <3>1. CASE v = w
      BY <1>2, <3>1, Zenon DEF Holding
    <3>2. CASE v # w
      <4>1. k \in Token /\ SpentIn(k, auth)
        BY <1>2, <1>3, <3>2, Zenon DEF OneClick
      <4> QED
        BY <4>1, Zenon DEF SpentStays
    <3> QED
      BY <3>1, <3>2
  <2>3. ASSUME NEW v \in Workers, NEW u \in Workers \ {v}
        PROVE  TokensOf(talk'[v]) \cap TokensOf(talk'[u]) = {}
    <3>1. CASE v = w
      BY <1>2, <3>1, Zenon DEF Holding
    <3>2. CASE u = w
      <4>1. TokensOf(T) \cap TokensOf(talk[v]) = {}
        BY <3>2, Zenon DEF Holding
      <4> QED
        BY <1>2, <3>2, <4>1
    <3>3. CASE v # w /\ u # w
      BY <1>2, <3>3, Zenon DEF OneClick
    <3> QED
      BY <3>1, <3>2, <3>3
  <2>4. ASSUME NEW v \in Workers, talk'[v] # None, talk'[v].step # "clicked"
        PROVE  talk'[v].token \cap clicked' = {}
    <3>1. CASE v = w
      BY <1>2, <2>4, <3>1, Zenon DEF Holding
    <3>2. CASE v # w
      <4>1. talk'[v] = talk[v] /\ talk[v].token \cap clicked = {}
        BY <1>2, <2>4, <3>2, Zenon DEF OneClick
      <4>2. talk[v].token \cap TokensOf(talk[w]) = {}
        BY <2>4, <3>2, <4>1, Zenon DEF OneClick, TokensOf
      <4> QED
        BY <4>1, <4>2
    <3> QED
      BY <3>1, <3>2
  <2> QED
    BY <2>1, <2>2, <2>3, <2>4, Zenon DEF OneClick
<1>6. Clearing'
  <2> SUFFICES ASSUME NEW v \in Workers PROVE Sound(v, talk'[v], tab'[v], auth')
    BY Zenon DEF Clearing
  <2>1. CASE v = w
    BY <1>2, <2>1, Zenon
  <2>2. CASE v # w
    <3>1. /\ Sound(v, talk[v], tab[v], auth) /\ RunsStay(v)
          /\ talk[v] \in Talk \cup {None} /\ tab[v] \in Tab \cup {None}
      BY <1>1, <2>2, Zenon DEF Clearing
    <3>2. Sound(v, talk[v], tab[v], auth')
      BY <3>1, SoundKept
    <3> QED
      BY <1>2, <2>2, <3>2, Zenon
  <2> QED
    BY <2>1, <2>2
<1> QED
  BY <1>4, <1>5, <1>6

ClientKept == ClientTypeOK' /\ OneClick' /\ Clearing'

\* A step none of whose executors hears of it.
LEMMA Unheard ==
  ASSUME ClientInductive, talk' = talk, tab' = tab, clicked' = clicked, SpentStays,
         \A v \in Workers : RunsStay(v),
         file' \in [Apps -> File \cup {None}], agentOn' \in BOOLEAN
  PROVE  ClientKept
<1> USE DEF ClientInductive
<1>1. ClientTypeOK'
  BY Zenon DEF ClientTypeOK
<1>2. OneClick'
  <2>1. /\ clicked \subseteq Token
        /\ \A v \in Workers : TokensOf(talk[v]) \subseteq Token
    BY Zenon DEF ClientTypeOK, TokensOf, Talk
  <2> QED
    BY <2>1, Zenon DEF OneClick, SpentStays
<1>3. Clearing'
  <2> SUFFICES ASSUME NEW v \in Workers PROVE Sound(v, talk'[v], tab'[v], auth')
    BY Zenon DEF Clearing
  <2>1. /\ Sound(v, talk[v], tab[v], auth)
        /\ talk[v] \in Talk \cup {None} /\ tab[v] \in Tab \cup {None}
    BY Zenon DEF Clearing, ClientTypeOK
  <2> QED
    BY <2>1, SoundKept, Zenon
<1> QED
  BY <1>1, <1>2, <1>3, Zenon DEF ClientKept

\* A step in which the conversation of w becomes T, and its browser stays.
LEMMA Talked ==
  ASSUME ClientInductive, NEW w \in Workers, NEW T \in Talk \cup {None}, Says(w, T),
         tab' = tab, clicked' = clicked, SpentStays, \A v \in Workers : v # w => RunsStay(v),
         Holding(w, T), Sound(w, T, tab[w], auth'),
         file' \in [Apps -> File \cup {None}], agentOn' \in BOOLEAN
  PROVE  ClientKept
<1>1. tab[w] \in Tab \cup {None} /\ tab' = [tab EXCEPT ![w] = tab[w]]
  BY Zenon DEF ClientInductive, ClientTypeOK
<1>2. talk' = [talk EXCEPT ![w] = T]
  BY Zenon DEF Says
<1>3. clicked \subseteq clicked' /\ clicked' \subseteq clicked \cup TokensOf(talk[w])
  BY Zenon
<1> QED
  BY <1>1, <1>2, <1>3, Moved, Zenon DEF ClientKept

\* A conversation that is over, or did not hear.
LEMMA Ended ==
  ASSUME ClientInductive, NEW w \in Workers, AllQuiet, Hears(w, None),
         UNCHANGED <<file, tab, agentOn, clicked>>
  PROVE  ClientKept
<1> USE DEF ClientInductive
<1>1. file' \in [Apps -> File \cup {None}] /\ agentOn' \in BOOLEAN
  BY Zenon DEF ClientTypeOK
<1>2. SpentStays /\ \A v \in Workers : RunsStay(v)
  BY QuietRuns
<1>3. CASE talk' = talk
  BY <1>1, <1>2, <1>3, Unheard, Zenon
<1>4. CASE Says(w, None)
  <2>1. Holding(w, None)
    <3>1. TokensOf(None) \subseteq TokensOf(talk[w])
      BY Zenon DEF TokensOf
    <3> QED
      BY <1>2, <3>1, HoldingLess, Zenon
  <2>2. Sound(w, None, tab[w], auth')
    <3>1. Sound(w, talk[w], tab[w], auth) /\ talk[w] \in Talk \cup {None} /\ tab[w] \in Tab \cup {None}
      BY Zenon DEF Clearing, ClientTypeOK
    <3>2. Sound(w, talk[w], tab[w], auth')
      BY <1>2, <3>1, SoundKept
    <3> QED
      BY <3>2 DEF Sound
  <2> QED
    BY <1>1, <1>2, <1>4, <2>1, <2>2, Talked, Zenon
<1> QED
  BY <1>3, <1>4, Zenon DEF Hears

\* The steps at which w may be, and a conversation that moves to another.
LEMMA TalkShape ==
  ASSUME NEW t \in Talk, NEW s \in {"reading", "filling", "asked", "confirmed", "cleared", "clicked"}
  PROVE  /\ [t EXCEPT !.step = s] \in Talk
         /\ [t EXCEPT !.step = s].app = t.app /\ [t EXCEPT !.step = s].token = t.token
         /\ [t EXCEPT !.step = s].step = s
BY Zenon DEF Talk

\* A conversation whose token changes with its step.
LEMMA TalkReset ==
  ASSUME NEW t \in Talk, NEW K \in SUBSET Token
  PROVE  /\ LET T == [t EXCEPT !.step = "asked", !.token = {}] IN
            T \in Talk /\ T.app = t.app /\ T.token = {} /\ T.step = "asked"
         /\ LET T == [t EXCEPT !.step = "confirmed", !.token = K] IN
            T \in Talk /\ T.app = t.app /\ T.token = K /\ T.step = "confirmed"
<1>1. {} \in SUBSET Token
  OBVIOUS
<1> QED
  BY <1>1, Zenon DEF Talk

LEMMA BegunShape ==
  ASSUME NEW a \in Apps, NEW s \in {"reading", "filling", "asked", "confirmed", "cleared", "clicked"}
  PROVE  Begun(a, s) \in Talk /\ Begun(a, s).app = a /\ Begun(a, s).token = {} /\ Begun(a, s).step = s
BY Zenon DEF Begun, Talk

\* Whoever talks, talks about an application.
LEMMA TalkOf ==
  ASSUME ClientInductive, NEW w \in Workers, talk[w] # None
  PROVE  talk[w] \in Talk /\ talk[w].app \in Apps
BY Zenon DEF ClientInductive, ClientTypeOK, Talk

(***************************************************************************)
(* The steps of a conversation that has no token in hand and starts to     *)
(* read or to fill in.                                                     *)
(***************************************************************************)
LEMMA Begins ==
  ASSUME ClientInductive, NEW w \in Workers, NEW T \in Talk \cup {None}, Says(w, T),
         T # None => T.token = {} /\ T.step \in {"reading", "filling"},
         tab' = tab, clicked' = clicked, SpentStays, \A v \in Workers : v # w => RunsStay(v),
         file' \in [Apps -> File \cup {None}], agentOn' \in BOOLEAN,
         Sound(w, None, tab[w], auth')
  PROVE  ClientKept
<1>1. Holding(w, T)
  <2>1. TokensOf(T) = {}
    BY Zenon DEF TokensOf
  <2> QED
    BY <2>1, HoldingLess, Zenon DEF ClientInductive
<1>2. Sound(w, T, tab[w], auth')
  BY DEF Sound
<1> QED
  BY <1>1, <1>2, Talked, Zenon

\* A claim leaves the form on the screen as sound as it was.
LEMMA ClaimSound ==
  ASSUME ClientInductive, NEW w \in Workers, NEW a, NEW x, NewRun(w, a, x), tab' = tab
  PROVE  Sound(w, None, tab[w], auth')
<1>1. Sound(w, talk[w], tab[w], auth)
  BY Zenon DEF ClientInductive, Clearing
<1>2. tab[w] \in Tab /\ tab[w].captured =>
        \A y \in AuthIds : IsRun(auth'[y], w, tab[w].app) /\ auth'[y].requested => tab[w].url = auth'[y].url
  BY <1>1, Zenon DEF Sound, NewRun, Others
<1>3. tab[w] # None /\ tab[w].captured /\ w \in Tools => tab[w].url \in Domain
  BY <1>1, Zenon DEF Sound
<1> QED
  BY <1>2, <1>3, Zenon DEF Sound

LEMMA ClaimCommandKept ==
  ASSUME ClientInductive, NEW a \in Apps, NEW w \in Workers, ClaimCommand(a, w)
  PROVE  ClientKept
<1>1. /\ talk[w] = None /\ Claim(a, w) /\ UNCHANGED <<tab, agentOn, clicked>>
      /\ \/ /\ file' = [file EXCEPT ![a] = [worker |-> w, url |-> auth[app[a].auth].url]]
            /\ Says(w, Begun(a, "filling"))
         \/ UNCHANGED <<file, talk>>
  BY Zenon DEF ClaimCommand
<1>2. NewRun(w, a, app[a].auth) /\ auth[app[a].auth].url \in 1..MaxUrl
  BY <1>1, ClaimRuns, Zenon DEF ClientInductive
<1>3. /\ SpentStays /\ \A v \in Workers : v # w => RunsStay(v)
      /\ Sound(w, None, tab[w], auth')
  BY <1>1, <1>2, NewRunRuns, ClaimSound, Zenon
<1>4. /\ agentOn' \in BOOLEAN /\ file \in [Apps -> File \cup {None}]
      /\ talk \in [Workers -> Talk \cup {None}]
  BY <1>1, Zenon DEF ClientInductive, ClientTypeOK
<1>5. CASE UNCHANGED <<file, talk>>
  <2>1. Says(w, None)
    BY <1>1, <1>4, <1>5, Zenon DEF Says
  <2> QED
    BY <1>1, <1>3, <1>4, <1>5, <2>1, Begins, Zenon
<1>6. CASE /\ file' = [file EXCEPT ![a] = [worker |-> w, url |-> auth[app[a].auth].url]]
           /\ Says(w, Begun(a, "filling"))
  <2>1. [worker |-> w, url |-> auth[app[a].auth].url] \in File
    BY <1>2, Zenon DEF File
  <2>2. file' \in [Apps -> File \cup {None}]
    BY <1>4, <1>6, <2>1, Zenon
  <2>3. /\ Begun(a, "filling") \in Talk /\ Begun(a, "filling").token = {}
        /\ Begun(a, "filling").step = "filling"
    BY BegunShape
  <2> QED
    BY <1>1, <1>3, <1>4, <1>6, <2>2, <2>3, Begins, Zenon
<1> QED
  BY <1>1, <1>5, <1>6

LEMMA ClaimToolKept ==
  ASSUME ClientInductive, NEW w \in Workers, ClaimTool(w)
  PROVE  ClientKept
<1> DEFINE a == talk[w].app
           T == [talk[w] EXCEPT !.step = "filling"]
<1>1. /\ talk[w] # None /\ talk[w].step = "reading" /\ UNCHANGED <<file, tab, agentOn, clicked>>
      /\ \/ Claim(a, w) /\ (Says(w, T) \/ Says(w, None))
         \/ Says(w, None) /\ UNCHANGED vars
  BY Zenon DEF ClaimTool
<1>2. talk[w] \in Talk /\ a \in Apps
  BY <1>1, TalkOf
<1>3. talk[w].token = {}
  BY <1>1, Zenon DEF ClientInductive, Clearing, Sound
<1>4. T \in Talk /\ T.token = {} /\ T.step = "filling"
  BY <1>2, <1>3, TalkShape
<1>5. file' \in [Apps -> File \cup {None}] /\ agentOn' \in BOOLEAN
  BY <1>1, Zenon DEF ClientInductive, ClientTypeOK
<1> HIDE DEF T
<1>6. CASE Claim(a, w) /\ (Says(w, T) \/ Says(w, None))
  <2>1. NewRun(w, a, app[a].auth)
    BY <1>2, <1>6, ClaimRuns, Zenon DEF ClientInductive
  <2>2. /\ SpentStays /\ \A v \in Workers : v # w => RunsStay(v)
        /\ Sound(w, None, tab[w], auth')
    BY <1>1, <1>2, <2>1, NewRunRuns, ClaimSound, Zenon
  <2>3. CASE Says(w, T)
    BY <1>1, <1>4, <1>5, <2>2, <2>3, Begins, Zenon
  <2>4. CASE Says(w, None)
    BY <1>1, <1>5, <2>2, <2>4, Begins, Zenon
  <2> QED
    BY <1>6, <2>3, <2>4
<1>7. CASE Says(w, None) /\ UNCHANGED vars
  <2>1. auth' = auth
    BY <1>7, Zenon DEF vars, panelVars
  <2> QED
    BY <1>1, <1>7, <2>1, QuietSame, Ended, Zenon DEF ClientInductive, Inductive, Hears
<1> QED
  BY <1>1, <1>6, <1>7

LEMMA ReadAuthorizationKept ==
  ASSUME ClientInductive, NEW a \in Apps, NEW w \in Workers, ReadAuthorization(a, w)
  PROVE  ClientKept
<1>1. Says(w, Begun(a, "reading")) /\ auth' = auth /\ UNCHANGED <<file, tab, agentOn, clicked>>
  BY Zenon DEF ReadAuthorization, vars, panelVars
<1>2. /\ Begun(a, "reading") \in Talk /\ Begun(a, "reading").token = {}
      /\ Begun(a, "reading").step = "reading"
  BY BegunShape
<1>3. SpentStays /\ \A v \in Workers : RunsStay(v)
  BY <1>1, QuietSame, QuietRuns, Zenon DEF ClientInductive, Inductive
<1>4. file' \in [Apps -> File \cup {None}] /\ agentOn' \in BOOLEAN
  BY <1>1, Zenon DEF ClientInductive, ClientTypeOK
<1>5. Sound(w, None, tab[w], auth')
  <2>1. Sound(w, talk[w], tab[w], auth)
    BY Zenon DEF ClientInductive, Clearing
  <2> QED
    BY <1>1, <2>1 DEF Sound
<1> QED
  BY <1>1, <1>2, <1>3, <1>4, <1>5, Begins, Zenon

LEMMA TakeUpKept ==
  ASSUME ClientInductive, NEW a \in Apps, NEW w \in Workers, TakeUp(a, w)
  PROVE  ClientKept
<1>1. /\ Says(w, Begun(a, IF Shows(w, a) /\ tab[w].captured THEN "asked" ELSE "filling"))
      /\ auth' = auth /\ UNCHANGED <<file, tab, agentOn, clicked>>
  BY Zenon DEF TakeUp, vars, panelVars
<1>2. SpentStays /\ \A v \in Workers : RunsStay(v)
  BY <1>1, QuietSame, QuietRuns, Zenon DEF ClientInductive, Inductive
<1>3. file' \in [Apps -> File \cup {None}] /\ agentOn' \in BOOLEAN
  BY <1>1, Zenon DEF ClientInductive, ClientTypeOK
<1>4. Sound(w, talk[w], tab[w], auth)
  BY Zenon DEF ClientInductive, Clearing
<1>5. CASE Shows(w, a) /\ tab[w].captured
  <2> DEFINE T == Begun(a, "asked")
  <2>1. T \in Talk /\ T.app = a /\ T.token = {} /\ T.step = "asked"
    BY BegunShape
  <2>2. tab[w] \in Tab /\ tab[w] # None /\ tab[w].app = a
    BY <1>5, Zenon DEF Shows, ClientInductive, ClientTypeOK
  <2> HIDE DEF T
  <2>3. Sound(w, T, tab[w], auth')
    BY <1>1, <1>4, <1>5, <2>1, <2>2 DEF Sound
  <2>4. Holding(w, T)
    <3>1. TokensOf(T) \subseteq TokensOf(talk[w])
      BY <2>1 DEF TokensOf
    <3> QED
      BY <1>1, <1>2, <2>1, <3>1, HoldingLess, Zenon DEF ClientInductive
  <2>5. Says(w, T)
    BY <1>1, <1>5, Zenon DEF T
  <2> QED
    BY <1>1, <1>2, <1>3, <2>1, <2>3, <2>4, <2>5, Talked, Zenon
<1>6. CASE ~(Shows(w, a) /\ tab[w].captured)
  <2>1. /\ Begun(a, "filling") \in Talk /\ Begun(a, "filling").token = {}
        /\ Begun(a, "filling").step = "filling"
    BY BegunShape
  <2>2. Sound(w, None, tab[w], auth')
    BY <1>1, <1>4 DEF Sound
  <2>3. Says(w, Begun(a, "filling"))
    BY <1>1, <1>6, Zenon
  <2> QED
    BY <1>1, <1>2, <1>3, <2>1, <2>2, <2>3, Begins, Zenon
<1> QED
  BY <1>5, <1>6

LEMMA NavigateKept ==
  ASSUME ClientInductive, NEW w \in Workers, NEW u \in 1..MaxUrl, Navigate(w, u)
  PROVE  ClientKept
<1> DEFINE B == [app |-> talk[w].app, url |-> u, captured |-> FALSE]
<1>1. /\ talk[w] # None /\ talk[w].step = "filling"
      /\ tab' = [tab EXCEPT ![w] = B] /\ auth' = auth /\ UNCHANGED <<file, talk, agentOn, clicked>>
  BY Zenon DEF Navigate, vars, panelVars
<1>2. talk[w] \in Talk /\ talk[w].app \in Apps
  BY <1>1, TalkOf
<1>3. B \in Tab /\ ~B.captured
  BY <1>2, Zenon DEF Tab
<1> HIDE DEF B
<1>4. SpentStays /\ \A v \in Workers : RunsStay(v)
  BY <1>1, QuietSame, QuietRuns, Zenon DEF ClientInductive, Inductive
<1>5. /\ file' \in [Apps -> File \cup {None}] /\ agentOn' \in BOOLEAN
      /\ talk' = [talk EXCEPT ![w] = talk[w]]
  BY <1>1, Zenon DEF ClientInductive, ClientTypeOK
<1>6. Sound(w, talk[w], B, auth')
  <2>1. Sound(w, talk[w], tab[w], auth)
    BY Zenon DEF ClientInductive, Clearing
  <2> QED
    BY <1>1, <1>3, <2>1 DEF Sound
<1>7. Holding(w, talk[w])
  BY <1>1, <1>4, HoldingLess, Zenon DEF ClientInductive
<1>8. clicked \subseteq clicked' /\ clicked' \subseteq clicked \cup TokensOf(talk[w])
  BY <1>1, Zenon
<1> QED
  BY <1>1, <1>2, <1>3, <1>4, <1>5, <1>6, <1>7, <1>8, Moved, Zenon DEF ClientKept

LEMMA BeatKept ==
  ASSUME ClientInductive, NEW w \in Workers, talk[w] # None, Beat(w)
  PROVE  ClientKept
<1> DEFINE T == [talk[w] EXCEPT !.step = "cleared"]
<1>1. /\ Heartbeat(talk[w].app, w) /\ UNCHANGED <<file, tab, agentOn, clicked>>
      /\ talk' = talk \/ (At(w, {"confirmed"}) /\ Says(w, T))
  BY Zenon DEF Beat
<1>2. talk[w] \in Talk /\ talk[w].app \in Apps
  BY TalkOf
<1>3. AllQuiet
  BY <1>1, <1>2, HeartbeatQuiet, Zenon DEF ClientInductive
<1>4. CASE talk' = talk
  BY <1>1, <1>3, <1>4, Ended, Zenon DEF Hears
<1>5. CASE At(w, {"confirmed"}) /\ Says(w, T)
  <2>1. SpentStays /\ \A v \in Workers : RunsStay(v)
    BY <1>3, QuietRuns
  <2>2. file' \in [Apps -> File \cup {None}] /\ agentOn' \in BOOLEAN
    BY <1>1, Zenon DEF ClientInductive, ClientTypeOK
  <2>3. T \in Talk /\ T.app = talk[w].app /\ T.token = talk[w].token /\ T.step = "cleared"
    BY <1>2, TalkShape
  <2> HIDE DEF T
  <2>4. talk[w].step = "confirmed"
    BY <1>5 DEF At
  <2>5. Holding(w, T)
    <3>1. TokensOf(T) \subseteq TokensOf(talk[w])
      BY <2>3 DEF TokensOf
    <3>2. talk[w].step # "clicked"
      BY <2>4
    <3> QED
      BY <1>1, <2>1, <3>1, <3>2, HoldingLess, Zenon DEF ClientInductive
  <2>6. Sound(w, T, tab[w], auth')
    <3>1. Sound(w, talk[w], tab[w], auth')
      BY <1>2, <2>1, SoundKept, Zenon DEF ClientInductive, Clearing, ClientTypeOK
    <3> QED
      BY <2>3, <3>1 DEF Sound
  <2> QED
    BY <1>1, <1>5, <2>1, <2>2, <2>3, <2>5, <2>6, Talked, Zenon
<1> QED
  BY <1>1, <1>4, <1>5

\* What is asked for is the page on the screen, captured.
LEMMA AskKept ==
  ASSUME ClientInductive, NEW w \in Workers, Shows(w, talk[w].app),
         w \in Tools => tab[w].url \in Domain, Ask(w)
  PROVE  ClientKept
<1> DEFINE a == talk[w].app
           x == app[a].auth
           T == [talk[w] EXCEPT !.step = "asked", !.token = {}]
           B == [tab[w] EXCEPT !.captured = TRUE]
<1>1. /\ talk[w] # None /\ talk[w].step \in {"filling", "asked", "confirmed"}
      /\ tab[w].url = auth[x].url /\ RequestFinal(a, w)
      /\ UNCHANGED <<file, agentOn, clicked>>
      /\ \/ Usage < dailyLimit /\ tab' = [tab EXCEPT ![w].captured = TRUE] /\ Hears(w, T)
         \/ Usage >= dailyLimit /\ Says(w, None) /\ UNCHANGED tab
  BY Zenon DEF Ask, At, Observed, RowOf
<1>2. talk[w] \in Talk /\ a \in Apps
  BY <1>1, TalkOf
<1>3. tab[w] \in Tab /\ tab[w].app = a
  BY Zenon DEF Shows, ClientInductive, ClientTypeOK
<1>4. file' \in [Apps -> File \cup {None}] /\ agentOn' \in BOOLEAN
  BY <1>1, Zenon DEF ClientInductive, ClientTypeOK
<1>5. CASE Usage >= dailyLimit /\ Says(w, None) /\ UNCHANGED tab
  <2>1. AllQuiet
    BY <1>1, <1>2, <1>5, RequestFinalRuns, Zenon DEF ClientInductive
  <2> QED
    BY <1>1, <1>5, <2>1, Ended, Zenon DEF Hears
<1>6. CASE Usage < dailyLimit /\ tab' = [tab EXCEPT ![w].captured = TRUE] /\ Hears(w, T)
  <2>1. NewCapture(w, a, x)
    BY <1>1, <1>2, <1>6, RequestFinalRuns, Zenon DEF ClientInductive
  <2>2. SpentStays /\ \A v \in Workers : v # w => RunsStay(v)
    BY <1>2, <2>1, NewCaptureRuns
  <2>3. B \in Tab /\ B.app = a /\ B.url = tab[w].url /\ B.captured
    BY <1>3, Zenon DEF Tab
  <2>4. tab' = [tab EXCEPT ![w] = B]
    <3>1. tab \in [Workers -> Tab \cup {None}] /\ tab' = [tab EXCEPT ![w].captured = TRUE]
      BY <1>6, Zenon DEF ClientInductive, ClientTypeOK
    <3> QED
      BY <3>1
  <2>5. T \in Talk /\ T.app = a /\ T.token = {} /\ T.step = "asked"
    BY <1>2, TalkReset
  <2> HIDE DEF T, B
  <2>6. \A y \in AuthIds : IsRun(auth'[y], w, a) => y = x /\ tab[w].url = auth'[y].url
    <3>1. HeldBy(a, w)
      BY <1>1, Zenon DEF RequestFinal
    <3>2. \A y \in AuthIds : IsRun(auth[y], w, a) => y = x
      BY <1>2, <3>1, RunningRow, Zenon DEF ClientInductive
    <3> QED
      BY <1>1, <2>1, <3>2, Zenon DEF NewCapture, Others
  <2>7. \A t \in Talk \cup {None} : t # None /\ t.app = a /\ t.step # "reading"
                                     /\ (\A k \in t.token : \A y \in AuthIds : IsRun(auth'[y], w, a) => k[1] = y)
                => Sound(w, t, B, auth')
    BY <1>3, <2>3, <2>6 DEF Sound
  <2>8. clicked \subseteq clicked' /\ clicked' \subseteq clicked \cup TokensOf(talk[w])
    BY <1>1, Zenon
  <2>9. CASE Says(w, T)
    <3>1. Holding(w, T)
      <4>1. TokensOf(T) \subseteq TokensOf(talk[w])
        BY <2>5 DEF TokensOf
      <4> QED
        BY <1>1, <2>2, <2>5, <4>1, HoldingLess, Zenon DEF ClientInductive
    <3>2. Sound(w, T, B, auth')
      <4>1. T # None \/ T = None
        OBVIOUS
      <4>2. CASE T = None
        BY <1>3, <2>3, <2>6, <4>2 DEF Sound
      <4> QED
        BY <2>5, <2>7, <4>2
    <3>3. talk' = [talk EXCEPT ![w] = T]
      BY <2>9 DEF Says
    <3> QED
      BY <1>4, <2>2, <2>3, <2>4, <2>5, <2>8, <3>1, <3>2, <3>3, Moved, Zenon DEF ClientKept
  <2>10. CASE talk' = talk
    <3>1. talk' = [talk EXCEPT ![w] = talk[w]]
      BY <2>10, Zenon DEF ClientInductive, ClientTypeOK
    <3>2. Holding(w, talk[w])
      BY <1>1, <2>2, HoldingLess, Zenon DEF ClientInductive
    <3>3. Sound(w, talk[w], B, auth')
      <4>1. \A k \in talk[w].token : \A y \in AuthIds : IsRun(auth'[y], w, a) => k[1] = y
        <5>1. IsRun(auth[x], w, a) /\ x \in AuthIds
          BY <2>1, Zenon DEF NewCapture
        <5>2. \A k \in talk[w].token : k[1] = x
          BY <1>1, <5>1, Zenon DEF ClientInductive, Clearing, Sound
        <5> QED
          BY <2>6, <5>2, Zenon
      <4>2. talk[w].step # "reading"
        BY <1>1
      <4> QED
        BY <1>1, <1>2, <2>7, <4>1, <4>2, Zenon
    <3> QED
      BY <1>2, <1>4, <2>2, <2>3, <2>4, <2>8, <3>1, <3>2, <3>3, Moved, Zenon DEF ClientKept
  <2> QED
    BY <1>6, <2>9, <2>10, Zenon DEF Hears
<1> QED
  BY <1>1, <1>5, <1>6

\* The token a poll brings is no other conversation's.
LEMMA ConsultKept ==
  ASSUME ClientInductive, NEW w \in Workers, talk[w] # None, Consult(w)
  PROVE  ClientKept
<1> DEFINE a == talk[w].app
           x == app[a].auth
           k == <<x, auth'[x].token>>
           T == [talk[w] EXCEPT !.step = "confirmed", !.token = {k}]
<1>1. /\ talk[w].step = "asked" /\ Poll(a, w) /\ UNCHANGED <<file, tab, agentOn, clicked>>
      /\ talk' = talk \/ (auth'[x].given # auth[x].given /\ Says(w, T))
  BY Zenon DEF Consult, RowOf, At
<1>2. talk[w] \in Talk /\ a \in Apps
  BY TalkOf
<1>3. /\ file' \in [Apps -> File \cup {None}] /\ agentOn' \in BOOLEAN
      /\ tab[w] \in Tab \cup {None} /\ talk \in [Workers -> Talk \cup {None}]
  BY <1>1, Zenon DEF ClientInductive, ClientTypeOK
<1>4. (AllQuiet /\ auth'[x].given = auth[x].given) \/ NewToken(w, a, x)
  BY <1>1, <1>2, PollRuns, Zenon DEF ClientInductive
<1>5. CASE AllQuiet /\ auth'[x].given = auth[x].given
  BY <1>1, <1>5, Ended, Zenon DEF Hears
<1>6. CASE NewToken(w, a, x)
  <2>1. /\ SpentStays /\ \A v \in Workers : RunsStay(v)
        /\ k \in Token /\ ~SpentIn(k, auth) /\ SpentIn(k, auth')
    BY <1>2, <1>6, NewTokenRuns
  <2>2. CASE talk' = talk
    BY <1>1, <1>3, <2>1, <2>2, Unheard, Zenon
  <2>3. CASE Says(w, T)
    <3>1. T \in Talk /\ T.app = a /\ T.token = {k} /\ T.step = "confirmed"
      <4>1. {k} \in SUBSET Token
        BY <2>1, Zenon
      <4> QED
        BY <1>2, <4>1, TalkReset
    <3>2. k \notin clicked /\ \A v \in Workers : k \notin TokensOf(talk[v])
      BY <2>1, Zenon DEF ClientInductive, OneClick
    <3>3. Holding(w, T)
      <4>1. TokensOf(T) \subseteq {k}
        BY <3>1, Zenon DEF TokensOf
      <4> HIDE DEF T, k
      <4> QED
        BY <1>1, <2>1, <3>1, <3>2, <4>1, Zenon DEF Holding
    <3>4. x \in AuthIds /\ k[1] = x
      BY <1>6, Zenon DEF NewToken
    <3>5. \A y \in AuthIds : IsRun(auth'[y], w, a) => y = x
      <4>1. HeldBy(a, w)
        BY <1>1, Zenon DEF Poll
      <4>2. \A y \in AuthIds : IsRun(auth[y], w, a) => y = x
        BY <1>2, <4>1, RunningRow, Zenon DEF ClientInductive
      <4> QED
        BY <1>2, <2>1, <4>2, Zenon DEF RunsStay
    <3>6. Sound(w, talk[w], tab[w], auth)
      BY Zenon DEF ClientInductive, Clearing
    <3>7. /\ tab[w] \in Tab /\ tab[w].captured /\ tab[w].app = a
          /\ w \in Tools => tab[w].url \in Domain
      BY <1>1, <3>6 DEF Sound
    <3>8. tab[w].url = auth'[x].url
      <4>1. IsRun(auth[x], w, a) /\ auth[x].requested /\ auth'[x].url = auth[x].url
        BY <1>6 DEF NewToken
      <4>2. tab[w].url = auth[x].url
        BY <3>4, <3>6, <3>7, <4>1 DEF Sound
      <4> QED
        BY <4>1, <4>2
    <3>9. Sound(w, talk[w], tab[w], auth')
      BY <1>2, <1>3, <2>1, <3>6, SoundKept, Zenon
    <3> HIDE DEF T
    <3>10. Sound(w, T, tab[w], auth')
      <4>1. \A y \in AuthIds : IsRun(auth'[y], w, T.app) =>
              (\A j \in T.token : j[1] = y) /\ tab[w].url = auth'[y].url
        BY <3>1, <3>4, <3>5, <3>8, Zenon
      <4> QED
        BY <3>1, <3>7, <3>9, <4>1 DEF Sound
    <3> QED
      BY <1>1, <1>3, <2>1, <2>3, <3>1, <3>3, <3>10, Talked, Zenon
  <2> QED
    BY <1>1, <2>2, <2>3
<1> QED
  BY <1>4, <1>5, <1>6

\* A click spends the tokens of one conversation.
LEMMA ClickKept ==
  ASSUME ClientInductive, NEW w \in Workers, Click(w)
  PROVE  ClientKept
<1> DEFINE T == [talk[w] EXCEPT !.step = "clicked"]
<1>1. /\ talk[w] # None /\ talk[w].step = "cleared"
      /\ clicked' = clicked \cup talk[w].token /\ Says(w, T)
      /\ auth' = auth /\ UNCHANGED <<file, tab, agentOn>>
  BY Zenon DEF Click, At, vars, panelVars
<1>2. talk[w] \in Talk
  BY <1>1, TalkOf
<1>3. T \in Talk /\ T.app = talk[w].app /\ T.token = talk[w].token /\ T.step = "clicked"
  BY <1>2, TalkShape
<1>4. SpentStays /\ \A v \in Workers : RunsStay(v)
  BY <1>1, QuietSame, QuietRuns, Zenon DEF ClientInductive, Inductive
<1>5. /\ file' \in [Apps -> File \cup {None}] /\ agentOn' \in BOOLEAN
      /\ tab[w] \in Tab \cup {None} /\ tab' = [tab EXCEPT ![w] = tab[w]]
      /\ talk' = [talk EXCEPT ![w] = T]
  BY <1>1, Zenon DEF ClientInductive, ClientTypeOK, Says
<1>6. clicked \subseteq clicked' /\ clicked' \subseteq clicked \cup TokensOf(talk[w])
  BY <1>1, Zenon DEF TokensOf
<1> HIDE DEF T
<1>7. Holding(w, T)
  <2>1. TokensOf(T) \subseteq TokensOf(talk[w])
    BY <1>1, <1>3, Zenon DEF TokensOf
  <2>2. \A k \in TokensOf(talk[w]) : SpentIn(k, auth')
    BY <1>1, Zenon DEF ClientInductive, OneClick
  <2>3. \A v \in Workers \ {w} : TokensOf(T) \cap TokensOf(talk[v]) = {}
    BY <2>1 DEF ClientInductive, OneClick
  <2> QED
    BY <1>3, <2>1, <2>2, <2>3, Zenon DEF Holding
<1>8. Sound(w, T, tab[w], auth')
  <2>1. Sound(w, talk[w], tab[w], auth)
    BY Zenon DEF ClientInductive, Clearing
  <2> QED
    BY <1>1, <1>3, <2>1 DEF Sound
<1> QED
  BY <1>3, <1>4, <1>5, <1>6, <1>7, <1>8, Moved, Zenon DEF ClientKept

LEMMA ReportKept ==
  ASSUME ClientInductive, NEW w \in Workers, talk[w] # None, Report(w) \/ GiveUp(w)
  PROVE  ClientKept
<1>1. /\ Submit(talk[w].app, w) \/ Fail(talk[w].app, w)
      /\ Hears(w, None) /\ UNCHANGED <<file, tab, agentOn, clicked>>
  BY Zenon DEF Report, GiveUp
<1>2. AllQuiet
  BY <1>1, TalkOf, SubmitQuiet, FailQuiet, Zenon DEF ClientInductive
<1> QED
  BY <1>1, <1>2, Ended, Zenon

LEMMA DieKept ==
  ASSUME ClientInductive, NEW w \in Workers, Die(w)
  PROVE  ClientKept
<1>1. WorkerCrash(w) /\ Hears(w, None) /\ UNCHANGED <<file, tab, agentOn, clicked>>
  BY Zenon DEF Die, Hears
<1> QED
  BY <1>1, CrashQuiet, Ended, Zenon DEF ClientInductive, Inductive

\* The steps of the executor's calls, its browser and its end.
LEMMA CommandStepKept ==
  ASSUME ClientInductive, NEW w \in Workers, CommandStep(w)
  PROVE  ClientKept
<1>1. CASE \E a \in Apps : ClaimCommand(a, w)
  BY <1>1, ClaimCommandKept
<1>2. CASE HeartbeatCommand(w)
  BY <1>2, BeatKept, Zenon DEF HeartbeatCommand
<1>3. CASE RequestCommand(w)
  <2>1. w \notin Tools /\ Shows(w, talk[w].app) /\ Ask(w)
    BY <1>3, Zenon DEF RequestCommand, ByCommand, OnAuthorizedPage
  <2> QED
    BY <2>1, AskKept, Zenon
<1>4. CASE StatusCommand(w)
  BY <1>4, ConsultKept, Zenon DEF StatusCommand
<1>5. CASE SubmitCommand(w) \/ FailCommand(w)
  BY <1>5, ReportKept, Zenon DEF SubmitCommand, FailCommand
<1> QED
  BY <1>1, <1>2, <1>3, <1>4, <1>5, Zenon DEF CommandStep

LEMMA ToolStepKept ==
  ASSUME ClientInductive, NEW w \in Workers, ToolStep(w)
  PROVE  ClientKept
<1>1. CASE (\E a \in Apps : ReadAuthorization(a, w)) \/ ClaimTool(w)
  BY <1>1, ReadAuthorizationKept, ClaimToolKept, Zenon
<1>2. CASE HeartbeatTool(w)
  BY <1>2, BeatKept, Zenon DEF HeartbeatTool
<1>3. CASE RequestTool(w)
  <2>1. Shows(w, talk[w].app) /\ tab[w].url \in Domain /\ Ask(w)
    BY <1>3, Zenon DEF RequestTool, OnAllowedPage
  <2> QED
    BY <2>1, AskKept, Zenon
<1>4. CASE StatusTool(w)
  BY <1>4, ConsultKept, Zenon DEF StatusTool
<1>5. CASE SubmitTool(w) \/ FailTool(w)
  BY <1>5, ReportKept, Zenon DEF SubmitTool, FailTool
<1> QED
  BY <1>1, <1>2, <1>3, <1>4, <1>5, Zenon DEF ToolStep

\* What happens with no executor's hand in it.
LEMMA AsideKept ==
  ASSUME ClientInductive, (PanelStep /\ UNCHANGED clientVars) \/ SetAgent \/ UNCHANGED execVars
  PROVE  ClientKept
<1>1. AllQuiet
  BY PanelStepQuiet, QuietSame, Zenon DEF ClientInductive, Inductive, SetAgent, execVars, vars, panelVars
<1>2. /\ talk' = talk /\ tab' = tab /\ clicked' = clicked /\ file' = file
      /\ agentOn' = agentOn \/ agentOn' = ~agentOn
  BY Zenon DEF clientVars, SetAgent, execVars
<1>3. file' \in [Apps -> File \cup {None}] /\ agentOn' \in BOOLEAN
  BY <1>2 DEF ClientInductive, ClientTypeOK
<1> QED
  BY <1>1, <1>2, <1>3, QuietRuns, Unheard, Zenon

-----------------------------------------------------------------------------
(* The executor: its steps are steps of what it calls *)

\* A call of an executor that runs, while no handler is between reads and transaction.
LEMMA CallIsNext ==
  ASSUME Idle, NEW a \in Apps, NEW w \in alive, ExecutorStep(a, w)
  PROVE  Next
BY Zenon DEF Next, DashboardStep

\* The calls of one executor are AutoApply's, or leave the server alone.
LEMMA ExecutorIsNext ==
  ASSUME ClientTypeOK, alive \subseteq Workers, Idle, NEW w \in alive,
         CommandStep(w) \/ ToolStep(w) \/ \E a \in Apps : TakeUp(a, w)
  PROVE  [Next]_vars
<1>1. talk[w] # None => talk[w].app \in Apps
  BY Zenon DEF ClientTypeOK, Talk
<1>2. CASE CommandStep(w)
  <2>1. \E a \in Apps : ExecutorStep(a, w)
    BY <1>1, <1>2, Zenon DEF CommandStep, ClaimCommand, HeartbeatCommand, RequestCommand, StatusCommand,
       SubmitCommand, FailCommand, Beat, Ask, Consult, Report, GiveUp, ExecutorStep
  <2> QED
    BY <2>1, CallIsNext, Zenon
<1>3. CASE ToolStep(w)
  <2>1. CASE \E a \in Apps : ReadAuthorization(a, w)
    BY <2>1, Zenon DEF ReadAuthorization
  <2>2. CASE ClaimTool(w)
    <3>1. UNCHANGED vars \/ \E a \in Apps : ExecutorStep(a, w)
      BY <1>1, <2>2, Zenon DEF ClaimTool, ExecutorStep
    <3> QED
      BY <3>1, CallIsNext, Zenon
  <2>3. CASE HeartbeatTool(w) \/ RequestTool(w) \/ StatusTool(w) \/ SubmitTool(w) \/ FailTool(w)
    <3>1. \E a \in Apps : ExecutorStep(a, w)
      BY <1>1, <2>3, Zenon DEF HeartbeatTool, RequestTool, StatusTool, SubmitTool, FailTool,
         Beat, Ask, Consult, Report, GiveUp, ExecutorStep
    <3> QED
      BY <3>1, CallIsNext, Zenon
  <2> QED
    BY <1>3, <2>1, <2>2, <2>3, Zenon DEF ToolStep
<1>4. CASE \E a \in Apps : TakeUp(a, w)
  BY <1>4, Zenon DEF TakeUp
<1> QED
  BY <1>2, <1>3, <1>4

\* So are those of the panel, the settings and time.
LEMMA PanelIsNext == PanelStep => Next
<1>1. ASSUME Idle, NEW a \in Apps, NEW u \in 1..MaxUrl, UpdateUrl(a, u) PROVE Next
  BY <1>1, Zenon DEF Next, DashboardStep, JobStep
<1> QED
  BY <1>1, Zenon DEF PanelStep, Next, DashboardStep, TimeStep

LEMMA ExecNextIsNext ==
  ASSUME ClientTypeOK, TypeOK, [ExecNext]_execVars
  PROVE  [Next]_vars
<1>1. alive \subseteq Workers
  BY Zenon DEF TypeOK
<1>2. CASE Idle /\ \E w \in alive : CommandStep(w) \/ ToolStep(w) \/ \E a \in Apps : TakeUp(a, w)
  BY <1>1, <1>2, ExecutorIsNext, Zenon
<1>3. CASE \E w \in alive : Click(w) \/ Die(w) \/ \E u \in 1..MaxUrl : Navigate(w, u)
  <2>1. PICK w \in alive : Click(w) \/ Die(w) \/ \E u \in 1..MaxUrl : Navigate(w, u)
    BY <1>3
  <2>2. CASE Die(w)
    <3>1. WorkerCrash(w) /\ w \in Workers
      BY <1>1, <2>2, Zenon DEF Die
    <3> QED
      BY <3>1, Zenon DEF Next, TimeStep
  <2> QED
    BY <2>1, <2>2, Zenon DEF Click, Navigate
<1>4. CASE (PanelStep /\ UNCHANGED clientVars) \/ SetAgent \/ UNCHANGED execVars
  BY <1>4, PanelIsNext, Zenon DEF SetAgent, execVars
<1> QED
  BY <1>2, <1>3, <1>4, Zenon DEF ExecNext

-----------------------------------------------------------------------------
(* The executor: the theorems *)

\* No conversation has begun and no row exists.
LEMMA ClientInit == ExecInit => ClientInductive
<1> SUFFICES ASSUME ExecInit PROVE ClientInductive
  OBVIOUS
<1>1. Inductive
  BY InitInductive, Zenon DEF ExecInit
<1>2. ClientTypeOK
  BY DEF ExecInit, ClientTypeOK
<1>3. \A w \in Workers : talk[w] = None /\ tab[w] = None
  BY Zenon DEF ExecInit
<1>4. OneClick
  BY <1>3, Zenon DEF ExecInit, OneClick, TokensOf
<1>5. \A x \in AuthIds : auth[x].state = "none"
  BY Zenon DEF ExecInit, Init, NoAuthorization
<1>6. Clearing
  <2>1. \A x \in AuthIds : auth[x].state # "claimed"
    BY <1>5
  <2> QED
    BY <1>3, <2>1, Zenon DEF Clearing, Sound, IsRun
<1> QED
  BY <1>1, <1>2, <1>4, <1>6, Zenon DEF ClientInductive

\* Every step of the executors and of what they meet keeps the invariant.
LEMMA ClientNext == ClientInductive /\ [ExecNext]_execVars => ClientInductive' /\ [Next]_vars
<1> SUFFICES ASSUME ClientInductive, [ExecNext]_execVars PROVE ClientInductive' /\ [Next]_vars
  OBVIOUS
<1>1. [Next]_vars
  BY ExecNextIsNext, Zenon DEF ClientInductive, Inductive
<1>2. Inductive'
  BY <1>1, NextKept, KeptInductive, Zenon DEF ClientInductive
<1>3. alive \subseteq Workers
  BY Zenon DEF ClientInductive, Inductive, TypeOK
<1>4. ClientKept
  <2>1. CASE \E w \in alive : CommandStep(w) \/ ToolStep(w) \/ \E a \in Apps : TakeUp(a, w)
    BY <1>3, <2>1, CommandStepKept, ToolStepKept, TakeUpKept, Zenon
  <2>2. CASE \E w \in alive : Click(w) \/ Die(w) \/ \E u \in 1..MaxUrl : Navigate(w, u)
    BY <1>3, <2>2, ClickKept, DieKept, NavigateKept, Zenon
  <2> QED
    BY <2>1, <2>2, AsideKept, Zenon DEF ExecNext
<1> QED
  BY <1>1, <1>2, <1>4, Zenon DEF ClientInductive, ClientKept

(***************************************************************************)
(* What the executor remembers is always what its types say, and the       *)
(* inductive invariant that relates it to the authorizations holds,        *)
(* whichever answers are lost and whenever a conversation dies             *)
(* (scripts/ops/apply-authorized.mjs, src/mcp-server.ts).                  *)
(***************************************************************************)
THEOREM ClientInvariant == ExecSpec => []ClientInductive
BY ClientInit, ClientNext, PTL DEF ExecSpec

(***************************************************************************)
(* The executors and what they meet are a case of the automatic            *)
(* application: every behaviour of theirs is one of AutoApply's, so that   *)
(* whatever is proved of its states and steps is true of them.             *)
(***************************************************************************)
THEOREM ExecutorIsAutoApply == ExecSpec => Spec
<1>1. ExecInit => Init
  BY Zenon DEF ExecInit
<1> QED
  BY <1>1, ClientInit, ClientNext, PTL DEF ExecSpec, Spec

(***************************************************************************)
(* One click for each ENVIAR: an executor that was told to go on (the      *)
(* heartbeat before the click) never has in hand a token it, or another    *)
(* executor, or an earlier conversation of either, has clicked with.       *)
(***************************************************************************)
THEOREM ClicksOnce == ExecSpec => []OneClickPerEnviar
<1>1. ClientInductive => OneClickPerEnviar
  <2> SUFFICES ASSUME ClientInductive, NEW w \in Workers, talk[w] # None, talk[w].step = "cleared"
               PROVE  talk[w].token \cap clicked = {}
    BY Zenon DEF OneClickPerEnviar
  <2>1. talk[w].step # "clicked"
    OBVIOUS
  <2> QED
    BY <2>1, Zenon DEF ClientInductive, OneClick
<1> QED
  BY <1>1, ClientInvariant, PTL

\* Only the heartbeat clears a conversation.
LEMMA ClearsByBeat ==
  ASSUME ClientInductive, [ExecNext]_execVars, NEW w \in Workers, Clears(w)
  PROVE  Heartbeat(talk[w].app, w) /\ tab' = tab
<1>1. talk[w] # None /\ talk[w].step = "confirmed" /\ talk'[w] # None /\ talk'[w].step = "cleared"
  BY Zenon DEF Clears
<1>2. talk[w] \in Talk /\ talk \in [Workers -> Talk \cup {None}]
  BY <1>1, TalkOf, Zenon DEF ClientInductive, ClientTypeOK
<1>3. talk' # talk
  BY <1>1
<1>4. \A T : \A v \in Workers : Says(v, T) => v = w /\ talk'[w] = T
  BY <1>1, <1>2 DEF Says
<1>5. \A T : T = None \/ T.step # "cleared" => \A v \in Workers : ~Says(v, T)
  BY <1>1, <1>4
<1>6. alive \subseteq Workers
  BY Zenon DEF ClientInductive, Inductive, TypeOK
<1>7. CASE \E v \in alive : Click(v) \/ Die(v) \/ \E u \in 1..MaxUrl : Navigate(v, u)
  <2>1. PICK v \in alive : Click(v) \/ Die(v) \/ \E u \in 1..MaxUrl : Navigate(v, u)
    BY <1>7
  <2>2. CASE Click(v)
    <3>1. talk[v].step = "cleared" /\ Says(v, [talk[v] EXCEPT !.step = "clicked"])
      BY <2>2 DEF Click, At
    <3>2. v = w
      BY <1>4, <1>6, <3>1
    <3> QED
      BY <1>1, <3>1, <3>2
  <2>3. CASE Die(v)
    BY <1>5, <1>6, <2>3, Zenon DEF Die
  <2>4. CASE \E u \in 1..MaxUrl : Navigate(v, u)
    BY <1>3, <2>4, Zenon DEF Navigate
  <2> QED
    BY <2>1, <2>2, <2>3, <2>4
<1>8. CASE \E v \in alive : CommandStep(v) \/ ToolStep(v) \/ \E a \in Apps : TakeUp(a, v)
  <2>1. PICK v \in alive : CommandStep(v) \/ ToolStep(v) \/ \E a \in Apps : TakeUp(a, v)
    BY <1>8
  <2>2. v \in Workers
    BY <1>6, <2>1
  <2>3. ~Says(v, None) /\ \A T : T.step # "cleared" => ~Says(v, T) /\ ~Hears(v, T)
    BY <1>3, <1>5, <2>2, Zenon DEF Hears
  <2>4. CASE Beat(v) /\ talk[v] # None
    <3>1. Says(v, [talk[v] EXCEPT !.step = "cleared"]) /\ Heartbeat(talk[v].app, v) /\ tab' = tab
      BY <1>3, <2>4, Zenon DEF Beat
    <3>2. v = w
      BY <1>4, <2>2, <3>1
    <3> QED
      BY <3>1, <3>2
  <2>5. CASE \E a \in Apps : ClaimCommand(a, v) \/ ReadAuthorization(a, v) \/ TakeUp(a, v)
    <3>1. PICK a \in Apps : ClaimCommand(a, v) \/ ReadAuthorization(a, v) \/ TakeUp(a, v)
      BY <2>5
    <3>2. \/ Says(v, Begun(a, "filling")) \/ Says(v, Begun(a, "reading")) \/ Says(v, Begun(a, "asked"))
      BY <1>3, <3>1, Zenon DEF ClaimCommand, ReadAuthorization, TakeUp
    <3>3. /\ Begun(a, "filling").step = "filling" /\ Begun(a, "reading").step = "reading"
          /\ Begun(a, "asked").step = "asked"
      BY BegunShape
    <3> QED
      BY <2>3, <3>2, <3>3
  <2>6. CASE ClaimTool(v)
    <3>1. talk[v] \in Talk /\ Says(v, [talk[v] EXCEPT !.step = "filling"])
      BY <2>2, <2>3, <2>6, TalkOf, Zenon DEF ClaimTool
    <3>2. [talk[v] EXCEPT !.step = "filling"].step = "filling"
      BY <3>1, TalkShape
    <3> QED
      BY <2>3, <3>1, <3>2
  <2>7. CASE Ask(v) /\ talk[v] # None
    <3>1. talk[v] \in Talk /\ Hears(v, [talk[v] EXCEPT !.step = "asked", !.token = {}])
      BY <2>2, <2>3, <2>7, TalkOf, Zenon DEF Ask
    <3>2. [talk[v] EXCEPT !.step = "asked", !.token = {}].step = "asked"
      BY <3>1, Zenon DEF Talk
    <3> QED
      BY <2>3, <3>1, <3>2
  <2>8. CASE Consult(v) /\ talk[v] # None
    <3>1. PICK K : talk[v] \in Talk /\ Says(v, [talk[v] EXCEPT !.step = "confirmed", !.token = K])
      BY <1>3, <2>2, <2>8, TalkOf, Zenon DEF Consult
    <3>2. [talk[v] EXCEPT !.step = "confirmed", !.token = K].step = "confirmed"
      BY <3>1, Zenon DEF Talk
    <3> QED
      BY <2>3, <3>1, <3>2
  <2>9. ~(Report(v) \/ GiveUp(v))
    BY <1>3, <2>3, Zenon DEF Report, GiveUp, Hears
  <2>10. CASE CommandStep(v)
    BY <2>4, <2>5, <2>7, <2>8, <2>9, <2>10, Zenon DEF CommandStep, HeartbeatCommand, RequestCommand,
       StatusCommand, SubmitCommand, FailCommand
  <2>11. CASE ToolStep(v)
    BY <2>4, <2>5, <2>6, <2>7, <2>8, <2>9, <2>11, Zenon DEF ToolStep, HeartbeatTool, RequestTool,
       StatusTool, SubmitTool, FailTool
  <2> QED
    BY <2>1, <2>5, <2>10, <2>11
<1>9. ~((PanelStep /\ UNCHANGED clientVars) \/ SetAgent \/ UNCHANGED execVars)
  BY <1>3, Zenon DEF clientVars, SetAgent, execVars
<1> QED
  BY <1>7, <1>8, <1>9, Zenon DEF ExecNext

\* What a click of w is covered by.
GrantInForce(w) ==
  LET a == talk[w].app
      x == app[a].auth
  IN
  /\ x # None /\ \A t \in talk[w].token : t[1] = x
  /\ auth[x].state = "claimed" /\ auth[x].claimedBy = w
  /\ tab[w].app = a /\ tab[w].url = auth[x].url /\ job[a].url = auth[x].url
  /\ job[a].decision = "interested"
  /\ resume[a].status = "approved" /\ resume[a].version = auth[x].version
  /\ w \in Tools => tab[w].url \in Domain

(***************************************************************************)
(* An executor is told to go on only under a grant in force: its token is  *)
(* of the row the application has now, claimed by it, for the page in its  *)
(* browser and the resume in its approved version, for a job that is       *)
(* wanted; and the tools only inside the domains of their agent.           *)
(***************************************************************************)
THEOREM ClearsGranted == ExecSpec => ClearedIsGranted
<1>1. ASSUME ClientInductive, [ExecNext]_execVars, NEW w \in Workers, Clears(w)
      PROVE  GrantInForce(w)
  <2> DEFINE a == talk[w].app
             x == app[a].auth
  <2>1. Heartbeat(a, w)
    BY <1>1, ClearsByBeat
  <2>2. talk[w] # None /\ talk[w].step = "confirmed"
    BY <1>1, Zenon DEF Clears
  <2>3. talk[w] \in Talk /\ a \in Apps
    BY <1>1, <2>2, TalkOf
  <2>4. HeldBy(a, w)
    BY <2>1, Zenon DEF Heartbeat
  <2>5. x \in AuthIds /\ IsRun(auth[x], w, a)
    BY <1>1, <2>3, <2>4, RunningRow, Zenon DEF ClientInductive
  <2>6. /\ x # None /\ job[a].url = auth[x].url /\ job[a].decision = "interested"
        /\ resume[a].status = "approved" /\ resume[a].version = auth[x].version
    BY <2>4, Zenon DEF HeldBy, Current, GrantHolds
  <2>7. Sound(w, talk[w], tab[w], auth)
    BY <1>1, Zenon DEF ClientInductive, Clearing
  <2>8. tab[w].app = a /\ (w \in Tools => tab[w].url \in Domain)
    BY <2>2, <2>7 DEF Sound
  <2>9. (\A t \in talk[w].token : t[1] = x) /\ tab[w].url = auth[x].url
    BY <2>2, <2>5, <2>7 DEF Sound
  <2> QED
    BY <2>5, <2>6, <2>8, <2>9 DEF IsRun, GrantInForce
<1>2. ClientInductive /\ [ExecNext]_execVars =>
        \A w \in Workers : Clears(w) => GrantInForce(w)
  BY <1>1
<1> QED
  BY <1>2, ClientInvariant, PTL DEF ExecSpec, ClearedIsGranted, GrantInForce

(***************************************************************************)
(* Whichever executors report, and whatever answers they did not hear, no  *)
(* automatic submission takes the day past the limit in force.             *)
(***************************************************************************)
THEOREM ExecutorsWithinLimit == ExecSpec => SubmitWithinLimit
BY ExecutorIsAutoApply, LimitHolds, PTL

=============================================================================
