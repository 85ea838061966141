----------------------------- MODULE AutoApply ------------------------------
(***************************************************************************)
(* The automatic application of the Radar: a job with an approved resume   *)
(* and its one application, the authorizations the user grants (AUTORIZO), *)
(* the executor that claims one, fills in the portal's form, stops, asks   *)
(* for the final confirmation (ENVIAR) and submits, the questions it asks  *)
(* on the way, the kill-switch, the daily limit, the lease and the TTL,    *)
(* and everything that takes an authorization back.                        *)
(*                                                                         *)
(* Three kinds of process share one SQLite file.  The dashboard server     *)
(* runs every handler to its end, one at a time; the executors reach it    *)
(* over HTTP.  The automation command, the expiration cron and the         *)
(* collector open the file themselves, so that their transactions fall     *)
(* between the reads a handler makes before its transaction and the        *)
(* transaction (desk), and the cron's own reads are old when it writes     *)
(* (cron).                                                                 *)
(*                                                                         *)
(* Time is the order of events: a flag says that a row's TTL or lease is   *)
(* over, and whatever renews the lease clears the flag.                    *)
(***************************************************************************)
EXTENDS Workflow, FiniteSets

CONSTANTS
  Apps,        \* jobs, each with its (at most) one application and its resume
  AuthIds,     \* authorization rows that may ever be issued
  Questions,   \* human questions that may ever be asked
  Workers,     \* executors
  None,        \* NULL
  Commands,    \* commands the transition endpoint is asked to run
  MaxShots,    \* bound: captures per authorization
  MaxUrl,      \* bound: application URLs a job goes through
  MaxVersion,  \* bound: versions a resume goes through
  Limits       \* daily limits the user chooses from

ASSUME NoneAssumption ==
  None \notin Apps \cup AuthIds \cup Workers \cup {"assisted", "manual", "authorized_auto"}
ASSUME CommandsAssumption == Commands \subseteq Command \ InternalOnly
ASSUME BoundsAssumption ==
  /\ MaxShots \in Nat \ {0}
  /\ MaxUrl \in Nat \ {0}
  /\ MaxVersion \in Nat \ {0}
  /\ Limits \subseteq Nat /\ Limits # {}
ASSUME FiniteAssumption == IsFiniteSet(AuthIds)

VARIABLES
  job,         \* jobs: workflow status, decision, archived, opening, URL
  resume,      \* the resume of each job
  app,         \* the application of each job
  auth,        \* application_authorizations
  question,    \* human_questions
  enabled,     \* automation.enabled, the kill-switch
  dailyLimit,  \* automation.daily_limit
  alive,       \* executors that are running
  desk,        \* the handler that has read and not yet written
  cron         \* jobs the expiration cron has read and not yet expired

panelVars == <<job, resume, app, auth, question>>
settings  == <<enabled, dailyLimit>>
processes == <<alive, desk, cron>>
vars == <<panelVars, settings, processes>>

-----------------------------------------------------------------------------
(* Records *)

Decision == {"pending", "interested", "no_time", "not_interested", "expired", "applied"}

\* "overdue": open at the source, past its deadline.
Opening == {"open", "overdue", "closed"}

Job == [status : JobStatus, decision : Decision, archived : BOOLEAN,
        opening : Opening, url : 1..MaxUrl]

Resume == [status : {"draft", "approved"}, version : 1..MaxVersion]

ModeChange == {"queued", "needs_review", "failed"}
Sent == {"submitted", "accepted", "rejected"}
Locked == {"in_progress", "awaiting_final_confirmation"} \cup Sent
Mode == {"assisted", "manual", "authorized_auto"}

\* Status "none", mode None: the application does not exist yet.
ApplicationStatus == {"none"} \cup ModeChange \cup Locked

Application ==
  [status : ApplicationStatus, mode : Mode \cup {None},
   granted : BOOLEAN, auth : AuthIds \cup {None}, claimedBy : Workers \cup {None}]

NoApplication ==
  [status |-> "none", mode |-> None, granted |-> FALSE, auth |-> None, claimedBy |-> None]

Live == {"issued", "claimed"}

(***************************************************************************)
(* requested, shot and confirmed stand for final_confirmation_requested_at,*)
(* final_evidence_id and final_confirmation_at: a capture is its number    *)
(* within the authorization, a confirmation is the capture the row held    *)
(* when ENVIAR arrived.  token is submit_token_hash: a token is named by   *)
(* the capture it was minted for, 0 is none.  given are the tokens of this *)
(* row its executor holds, in its own memory.  today: consumed_at is       *)
(* within the day.                                                         *)
(***************************************************************************)
Authorization ==
  [state : {"none", "consumed", "revoked", "expired"} \cup Live,
   app : Apps \cup {None}, version : 0..MaxVersion, url : 0..MaxUrl,
   claimedBy : Workers \cup {None}, ttlOver : BOOLEAN, leaseOver : BOOLEAN,
   paused : BOOLEAN, requested : BOOLEAN, shot : 0..MaxShots,
   confirmed : 0..MaxShots, token : 0..MaxShots,
   given : SUBSET (1..MaxShots), today : BOOLEAN]

NoAuthorization ==
  [state |-> "none", app |-> None, version |-> 0, url |-> 0, claimedBy |-> None,
   ttlOver |-> FALSE, leaseOver |-> FALSE, paused |-> FALSE, requested |-> FALSE,
   shot |-> 0, confirmed |-> 0, token |-> 0,
   given |-> {}, today |-> FALSE]

ActiveQuestion == {"pending", "delivered", "delivery_failed"}

Question ==
  [status : {"none", "answered", "cancelled"} \cup ActiveQuestion, app : Apps \cup {None}]

\* What authorizeAutoApplication read, kept until its transaction.
Call == [app : Apps, version : 1..MaxVersion, url : 1..MaxUrl]

TypeOK ==
  /\ job \in [Apps -> Job]
  /\ resume \in [Apps -> Resume]
  /\ app \in [Apps -> Application]
  /\ auth \in [AuthIds -> Authorization]
  /\ question \in [Questions -> Question]
  /\ enabled \in BOOLEAN
  /\ dailyLimit \in Limits
  /\ alive \in SUBSET Workers
  /\ desk \in Call \cup {None}
  /\ cron \in SUBSET Apps

(***************************************************************************)
(* A project starts with jobs the user is interested in, whose first       *)
(* resume is approved and which have no application yet.                   *)
(***************************************************************************)
Init ==
  /\ job = [a \in Apps |-> [status |-> "resume_approved", decision |-> "interested",
                            archived |-> FALSE, opening |-> "open", url |-> 1]]
  /\ resume = [a \in Apps |-> [status |-> "approved", version |-> 1]]
  /\ app = [a \in Apps |-> NoApplication]
  /\ auth = [x \in AuthIds |-> NoAuthorization]
  /\ question = [q \in Questions |-> [status |-> "none", app |-> None]]
  /\ enabled = TRUE
  /\ dailyLimit \in Limits
  /\ alive = Workers
  /\ desk = None
  /\ cron = {}

-----------------------------------------------------------------------------
(* Questions asked of the state *)

Asked(a) == \E q \in Questions : question[q].app = a /\ question[q].status \in ActiveQuestion

\* The executor waits for the human: paused, or the final confirmation is pending.
HumanWait(x) ==
  auth[x].paused \/ \E a \in Apps : app[a].auth = x /\ app[a].status = "awaiting_final_confirmation"

\* authorizationValidUntil has passed, for row r of application m.
Lapsed(r, m) ==
  IF r.state # "claimed" THEN r.ttlOver
  ELSE r.leaseOver /\ (r.paused \/ m.status = "awaiting_final_confirmation" => r.ttlOver)

(***************************************************************************)
(* assertCurrentAuthorization short of its test of the job's status: row r *)
(* still says what job j, resume s and application m say.                  *)
(***************************************************************************)
GrantHolds(j, s, m, r) ==
  /\ r.state \in Live /\ ~Lapsed(r, m)
  /\ m.mode = "authorized_auto" /\ m.granted
  /\ s.status = "approved" /\ s.version = r.version
  /\ j.decision = "interested" /\ j.url = r.url

\* The application's authorization is current and in state st.
Current(a, st) ==
  /\ app[a].auth # None
  /\ auth[app[a].auth].state = st
  /\ GrantHolds(job[a], resume[a], app[a], auth[app[a].auth])
  /\ job[a].status \in {"resume_approved", "ready_to_apply", "applying"}

\* claimedAuthorizationFor: the current claim is worker w's.
HeldBy(a, w) == Current(a, "claimed") /\ auth[app[a].auth].claimedBy = w

\* Mutant: an application under way counts as sent.
FactsOfLocked(j, s, m, rows) ==
  [interested |-> j.decision = "interested", draft |-> TRUE, strong |-> FALSE,
   approved |-> s.status = "approved", flow |-> m.mode, sent |-> m.status \in Locked,
   current |-> m.auth # None /\ GrantHolds(j, s, m, rows[m.auth])]

\* workflowFacts, of job j, resume s, application m and authorizations rows.
Facts(j, s, m, rows) ==
  [interested |-> j.decision = "interested", draft |-> TRUE, strong |-> FALSE,
   approved |-> s.status = "approved", flow |-> m.mode, sent |-> m.status \in Sent,
   current |-> m.auth # None /\ GrantHolds(j, s, m, rows[m.auth])]

\* Automatic submissions of the day.
Usage == Cardinality({x \in AuthIds : auth[x].state = "consumed" /\ auth[x].today})

\* Mutants: the kill-switch suspends the TTL; waiting for the human has no end.
DueIssuedWhileOn == {x \in AuthIds : enabled /\ auth[x].state = "issued" /\ auth[x].ttlOver}
NeverDue == {}

\* Rows expireAuthorizations would expire, by the rule that condemns them.
DueIssued == {x \in AuthIds : auth[x].state = "issued" /\ auth[x].ttlOver}
DueLease ==
  {x \in AuthIds : /\ auth[x].state = "claimed" /\ auth[x].leaseOver
                   /\ ~Asked(auth[x].app) /\ ~HumanWait(x)}
DueWaiting ==
  {x \in AuthIds : /\ auth[x].state = "claimed" /\ auth[x].leaseOver /\ auth[x].ttlOver
                   /\ HumanWait(x)}
Due == DueIssued \cup DueLease \cup DueWaiting

\* Applications recoverStuckApplications would free.
Stuck ==
  {a \in Apps :
     /\ job[a].status = "applying"
     /\ app[a].status \in {"in_progress", "needs_review", "awaiting_final_confirmation"}
     /\ app[a].claimedBy # None
     /\ \/ app[a].auth = None
        \/ auth[app[a].auth].state # "claimed"
        \/ app[a].mode # "authorized_auto"}

\* The handlers that first call expireAuthorizations run when it has nothing left to do.
Swept == Due = {} /\ Stuck = {}

\* No dashboard handler is between its reads and its transaction.
Idle == desk = None

-----------------------------------------------------------------------------
(* Writes the handlers share *)

(***************************************************************************)
(* Row r leaves Live for state st.  Every read of a row tests its state    *)
(* first and goes no further when it is not live, but for the day's usage: *)
(* the other columns of a closed row are forgotten.                        *)
(***************************************************************************)
Closed(r, st) ==
  [NoAuthorization EXCEPT !.state = st, !.app = r.app, !.today = (st = "consumed")]

\* revokeAuthorizationRows, for every application of S.
RevokedRows(S) ==
  [x \in AuthIds |-> IF auth[x].app \in S /\ auth[x].state \in Live
                     THEN Closed(auth[x], "revoked") ELSE auth[x]]

\* Mutant: the authorization's id stays behind.
InModeKeepingId(m, mode) == [m EXCEPT !.mode = mode, !.granted = FALSE]

\* A mode that needs no authorization.
InMode(m, mode) == [m EXCEPT !.mode = mode, !.granted = FALSE, !.auth = None]

ByUser(mode) == IF mode = "authorized_auto" THEN "assisted" ELSE mode

\* A failed application that starts again starts in status s.
Restarted(status, s) == IF status = "failed" THEN s ELSE status

ByHand(m) == [InMode(m, "manual") EXCEPT !.status = Restarted(@, "queued")]

\* The mode that needs one.
Granted(m, x) ==
  [m EXCEPT !.status = Restarted(@, "needs_review"),
            !.mode = "authorized_auto", !.granted = TRUE, !.auth = x]

\* An application that gives its authorization up and goes to status s.
Released(m, s) ==
  [InMode(m, "assisted") EXCEPT !.status = s, !.claimedBy = None]

\* Mutant: the status is not looked at.
WithdrawnAlways(m) == [InMode(m, ByUser(m.mode)) EXCEPT !.claimedBy = None]

\* The UPDATE of withdrawPendingAuthorizations.
Withdrawn(m) ==
  IF m.status \in ModeChange
  THEN [InMode(m, ByUser(m.mode)) EXCEPT !.claimedBy = None]
  ELSE m

WithdrawPending(a) ==
  /\ app' = [app EXCEPT ![a] = Withdrawn(@)]
  /\ auth' = IF app[a].status \in ModeChange THEN RevokedRows({a}) ELSE auth

\* The active questions of a are cancelled.
CancelQuestions(a) ==
  question' = [q \in Questions |->
                 IF question[q].app = a /\ question[q].status \in ActiveQuestion
                 THEN [question[q] EXCEPT !.status = "cancelled"] ELSE question[q]]

\* abortApplyingJob, for every job of S.
AbortedJobs(S) ==
  [a \in Apps |-> IF a \in S THEN [job[a] EXCEPT !.status = Aborted(@)] ELSE job[a]]

\* The execution of a ends: authorization revoked, questions cancelled, job freed.
EndExecution(a, s) ==
  /\ auth' = RevokedRows({a})
  /\ app' = [app EXCEPT ![a] = Released(@, s)]
  /\ CancelQuestions(a)
  /\ job' = AbortedJobs({a})

AdvancedJob(j, t) == [j EXCEPT !.status = Advanced(@, t)]

(***************************************************************************)
(* The job, written as j, walks forward to status t, with the facts of     *)
(* resume s, application m and authorizations rows: advanceJobTo.          *)
(***************************************************************************)
Walk(a, j, t, s, m, rows) ==
  /\ CanAdvance(j.status, t, Facts(j, s, m, rows))
  /\ job' = [job EXCEPT ![a] = AdvancedJob(j, t)]

\* Row x of the application, after a change, as the only row changed.
WithRow(x, r) == [auth EXCEPT ![x] = r]
Renewed(r) == [r EXCEPT !.leaseOver = FALSE]

-----------------------------------------------------------------------------
(* The user, in the panel *)

CreateApplication(a, mode) ==
  /\ app[a].status = "none"
  /\ ~job[a].archived /\ job[a].decision = "interested"
  /\ job[a].status \in {"resume_approved", "ready_to_apply"}
  /\ resume[a].status = "approved"
  /\ LET m == [NoApplication EXCEPT !.status = "queued", !.mode = mode]
     IN /\ app' = [app EXCEPT ![a] = m]
        /\ Walk(a, job[a], "ready_to_apply", resume[a], m, auth)
  /\ UNCHANGED <<resume, auth, question, settings, processes>>

\* Mutant: an archived job can be authorized.
AuthorizeArchived(a) ==
  /\ app[a].mode # "authorized_auto" /\ ~app[a].granted
  /\ resume[a].status = "approved" /\ job[a].decision = "interested"
  /\ job[a].status \in {"resume_approved", "ready_to_apply"}
  /\ app[a].status \in ModeChange
  /\ \E x \in AuthIds : auth[x].state = "none"
  /\ desk' = [app |-> a, version |-> resume[a].version, url |-> job[a].url]
  /\ UNCHANGED <<panelVars, settings, alive, cron>>

(***************************************************************************)
(* AUTORIZO.  Everything but the kill-switch and the application's own     *)
(* status is tested before the transaction, on what was read then.         *)
(***************************************************************************)
AuthorizeRead(a) ==
  /\ ~job[a].archived
  /\ app[a].mode # "authorized_auto" /\ ~app[a].granted
  /\ resume[a].status = "approved" /\ job[a].decision = "interested"
  /\ job[a].status \in {"resume_approved", "ready_to_apply"}
  /\ app[a].status \in ModeChange
  /\ job[a].opening # "closed"
  /\ \E x \in AuthIds : auth[x].state = "none"     \* bound
  /\ desk' = [app |-> a, version |-> resume[a].version, url |-> job[a].url]
  /\ UNCHANGED <<panelVars, settings, alive, cron>>

AuthorizeWrite(x) ==
  LET a == desk.app IN
  /\ desk # None /\ auth[x].state = "none"
  /\ enabled /\ ~app[a].granted /\ app[a].status \in ModeChange
  /\ app' = [app EXCEPT ![a] = Granted(@, x)]
  /\ auth' = WithRow(x, [NoAuthorization EXCEPT !.state = "issued", !.app = a,
                                                !.version = desk.version, !.url = desk.url])
  /\ desk' = None
  /\ UNCHANGED <<job, resume, question, settings, alive, cron>>

AuthorizeRefused ==
  /\ desk # None
  /\ ~enabled \/ app[desk.app].granted \/ app[desk.app].status \notin ModeChange
  /\ desk' = None
  /\ UNCHANGED <<panelVars, settings, alive, cron>>

\* Mutant: the row stays claimable.
RevokeApplicationOnly(a) ==
  /\ app[a].status \in ModeChange
  /\ app' = [app EXCEPT ![a] = InMode(@, "assisted")]
  /\ UNCHANGED <<job, resume, auth, question, settings, processes>>

Revoke(a) ==
  /\ app[a].status \in ModeChange
  /\ app' = [app EXCEPT ![a] = InMode(@, "assisted")]
  /\ auth' = RevokedRows({a})
  /\ UNCHANGED <<job, resume, question, settings, processes>>

SelectManual(a) ==
  /\ ~job[a].archived /\ app[a].status \in ModeChange
  /\ resume[a].status = "approved" /\ job[a].decision = "interested"
  /\ job[a].status \in {"resume_approved", "ready_to_apply"}
  /\ app' = [app EXCEPT ![a] = ByHand(@)]
  /\ auth' = RevokedRows({a})
  /\ UNCHANGED <<job, resume, question, settings, processes>>

\* PATCH status=needs_review.
SendToReview(a) ==
  /\ app[a].status \in {"queued", "in_progress", "failed"}
  /\ app' = [app EXCEPT ![a].status = "needs_review"]
  /\ UNCHANGED <<job, resume, auth, question, settings, processes>>

AppliedJob(j) == [AdvancedJob(j, "applied") EXCEPT !.decision = "applied"]

\* markJobApplied, of the application written as m.
MarkApplied(a, m, rows) ==
  /\ CanAdvance(job[a].status, "applied", Facts(job[a], resume[a], m, rows))
  /\ job' = [job EXCEPT ![a] = AppliedJob(@)]

\* PATCH status=submitted: the user sent the application by hand.
ReportSubmission(a) ==
  /\ app[a].status # "submitted" /\ app[a].mode = "manual"
  /\ job[a].decision = "interested" /\ resume[a].status = "approved"
  /\ LET m == [app[a] EXCEPT !.status = "submitted"]
     IN app' = [app EXCEPT ![a] = m] /\ MarkApplied(a, m, auth)
  /\ UNCHANGED <<resume, auth, question, settings, processes>>

\* PATCH status=accepted or rejected.
ReportOutcome(a, outcome) ==
  /\ app[a].status = "submitted"
  /\ LET m == [app[a] EXCEPT !.status = outcome]
     IN app' = [app EXCEPT ![a] = m] /\ MarkApplied(a, m, auth)
  /\ UNCHANGED <<resume, auth, question, settings, processes>>

(***************************************************************************)
(* ENVIAR.  The request names the application only, not the capture the    *)
(* panel showed: what is confirmed is the capture the row holds.           *)
(***************************************************************************)
ConfirmFinal(a) ==
  LET x == app[a].auth IN
  /\ Swept /\ enabled /\ Current(a, "claimed")
  /\ app[a].status = "awaiting_final_confirmation"
  /\ auth[x].requested /\ auth[x].confirmed = 0 /\ ~auth[x].paused
  /\ auth' = WithRow(x, [Renewed(auth[x]) EXCEPT !.confirmed = auth[x].shot])
  /\ app' = [app EXCEPT ![a].status = "in_progress"]
  /\ UNCHANGED <<job, resume, question, settings, processes>>

CancelFinal(a) ==
  /\ app[a].auth # None
  /\ auth[app[a].auth].state = "claimed" /\ auth[app[a].auth].requested
  /\ app[a].status \in {"awaiting_final_confirmation", "in_progress", "needs_review"}
  /\ EndExecution(a, "needs_review")
  /\ UNCHANGED <<resume, settings, processes>>

-----------------------------------------------------------------------------
(* The executor *)

Claim(a, w) ==
  LET x == app[a].auth
      r == [auth[x] EXCEPT !.state = "claimed", !.claimedBy = w, !.leaseOver = FALSE]
      m == [app[a] EXCEPT !.status = "in_progress", !.claimedBy = w]
  IN
  /\ Swept /\ enabled /\ Current(a, "issued")
  /\ app[a].status \in {"queued", "needs_review"}
  /\ ~job[a].archived
  /\ auth' = WithRow(x, r)
  /\ app' = [app EXCEPT ![a] = m]
  /\ Walk(a, job[a], "applying", resume[a], m, WithRow(x, r))
  /\ UNCHANGED <<resume, question, settings, processes>>

\* Mutant: the heartbeat does not ask whose reservation it is.
HeartbeatOfAnyone(a, w) ==
  /\ Swept /\ Current(a, "claimed")
  /\ app[a].status \in {"in_progress", "needs_review", "awaiting_final_confirmation"}
  /\ auth' = WithRow(app[a].auth, Renewed(auth[app[a].auth]))
  /\ UNCHANGED <<job, resume, app, question, settings, processes>>

Heartbeat(a, w) ==
  /\ Swept /\ HeldBy(a, w)
  /\ app[a].status \in {"in_progress", "needs_review", "awaiting_final_confirmation"}
  /\ auth' = WithRow(app[a].auth, Renewed(auth[app[a].auth]))
  /\ UNCHANGED <<job, resume, app, question, settings, processes>>

\* Mutant: a new capture leaves the token of the old one.
RequestFinalKeepingToken(a, w) ==
  LET x == app[a].auth IN
  /\ Swept /\ enabled /\ HeldBy(a, w) /\ ~auth[x].paused
  /\ app[a].status \in {"in_progress", "awaiting_final_confirmation"}
  /\ Usage < dailyLimit /\ auth[x].shot < MaxShots
  /\ auth' = WithRow(x, [Renewed(auth[x]) EXCEPT !.requested = TRUE, !.shot = @ + 1,
                                                !.confirmed = 0])
  /\ app' = [app EXCEPT ![a].status = "awaiting_final_confirmation"]
  /\ UNCHANGED <<job, resume, question, settings, processes>>

\* The dry run is over: a capture of the filled form, or the day's limit.
RequestFinal(a, w) ==
  LET x == app[a].auth IN
  /\ Swept /\ enabled /\ HeldBy(a, w)
  /\ app[a].status \in {"in_progress", "awaiting_final_confirmation"}
  /\ ~auth[x].paused
  /\ \/ Usage >= dailyLimit /\ EndExecution(a, "needs_review")
     \/ /\ Usage < dailyLimit /\ auth[x].shot < MaxShots
        /\ auth' = WithRow(x, [Renewed(auth[x]) EXCEPT
                                 !.requested = TRUE, !.shot = @ + 1,
                                 !.confirmed = 0, !.token = 0])
        /\ app' = [app EXCEPT ![a].status = "awaiting_final_confirmation"]
        /\ UNCHANGED <<job, question>>
  /\ UNCHANGED <<resume, settings, processes>>

\* Mutant: the token is delivered to every poll.
PollAgain(a, w) ==
  LET x == app[a].auth
      mints == ~auth[x].paused /\ auth[x].requested /\ auth[x].confirmed # 0
  IN
  /\ Swept /\ HeldBy(a, w)
  /\ \/ ~mints /\ auth' = WithRow(x, Renewed(auth[x]))
     \/ /\ mints /\ enabled
        /\ auth' = WithRow(x, [Renewed(auth[x]) EXCEPT !.token = auth[x].confirmed,
                                                      !.given = @ \cup {auth[x].confirmed}])
  /\ UNCHANGED <<job, resume, app, question, settings, processes>>

\* Every poll renews the lease; the first after the confirmation mints the token.
Poll(a, w) ==
  LET x == app[a].auth
      mints == /\ ~auth[x].paused /\ auth[x].requested
               /\ auth[x].confirmed # 0 /\ auth[x].token = 0
  IN
  /\ Swept /\ HeldBy(a, w)
  /\ \/ ~mints /\ auth' = WithRow(x, Renewed(auth[x]))
     \/ /\ mints /\ enabled
        /\ auth' = WithRow(x, [Renewed(auth[x]) EXCEPT !.token = auth[x].confirmed,
                                                      !.given = @ \cup {auth[x].confirmed}])
  /\ UNCHANGED <<job, resume, app, question, settings, processes>>

\* Mutant: the limit is not counted again inside the submission's transaction.
SubmitUncounted(a, w) ==
  LET x == app[a].auth
      rows == WithRow(x, Closed(auth[x], "consumed"))
      m == [app[a] EXCEPT !.status = "submitted"]
  IN
  /\ Swept /\ HeldBy(a, w) /\ app[a].status = "in_progress"
  /\ enabled /\ ~auth[x].paused
  /\ auth[x].confirmed # 0 /\ auth[x].token # 0 /\ auth[x].token \in auth[x].given
  /\ auth' = rows
  /\ app' = [app EXCEPT ![a] = m]
  /\ MarkApplied(a, m, rows)
  /\ UNCHANGED <<resume, question, settings, processes>>

Submit(a, w) ==
  LET x == app[a].auth
      rows == WithRow(x, Closed(auth[x], "consumed"))
      m == [app[a] EXCEPT !.status = "submitted"]
  IN
  /\ Swept /\ HeldBy(a, w) /\ app[a].status = "in_progress"
  /\ enabled /\ ~auth[x].paused
  /\ auth[x].confirmed # 0 /\ auth[x].token # 0 /\ auth[x].token \in auth[x].given
  /\ \/ Usage >= dailyLimit /\ EndExecution(a, "needs_review")
     \/ /\ Usage < dailyLimit
        /\ auth' = rows
        /\ app' = [app EXCEPT ![a] = m]
        /\ MarkApplied(a, m, rows)
        /\ UNCHANGED question
  /\ UNCHANGED <<resume, settings, processes>>

Fail(a, w) ==
  /\ HeldBy(a, w)
  /\ app[a].status \in {"in_progress", "needs_review", "awaiting_final_confirmation"}
  /\ EndExecution(a, "failed")
  /\ UNCHANGED <<resume, settings, processes>>

-----------------------------------------------------------------------------
(* Questions to the human *)

CreateQuestion(a, q) ==
  /\ question[q].status = "none"
  /\ app[a].status = "in_progress" /\ Current(a, "claimed")
  /\ ~\E p \in Questions : question[p].app = a /\ question[p].status \in {"pending", "delivered"}
  /\ question' = [question EXCEPT ![q] = [status |-> "pending", app |-> a]]
  /\ app' = [app EXCEPT ![a].status = "needs_review"]
  /\ UNCHANGED <<job, resume, auth, settings, processes>>

MarkDelivery(q, outcome) ==
  /\ question[q].status \in {"pending", "delivery_failed"}
  /\ question' = [question EXCEPT ![q].status = outcome]
  /\ UNCHANGED <<job, resume, app, auth, settings, processes>>

\* Over Telegram a question whose delivery failed cannot be answered; in the panel it can.
Answerable(via) == IF via = "telegram" THEN {"pending", "delivered"} ELSE ActiveQuestion

Answered(q, status) == question' = [question EXCEPT ![q].status = status]

\* answer (or skip): the claim's lease restarts and the execution goes on.
Answer(q, via) ==
  LET a == question[q].app
      x == app[a].auth
  IN
  /\ question[q].status \in Answerable(via)
  /\ x # None /\ auth[x].state = "claimed"
  /\ GrantHolds(job[a], resume[a], app[a], Renewed(auth[x]))
  /\ job[a].status \in {"resume_approved", "ready_to_apply", "applying"}
  /\ Answered(q, "answered")
  /\ auth' = WithRow(x, Renewed(auth[x]))
  /\ app' = [app EXCEPT ![a].status = IF @ = "needs_review" THEN "in_progress" ELSE @]
  /\ UNCHANGED <<job, resume, settings, processes>>

\* manual or stop: the execution is over, and so is the authorization.
AnswerEnds(q, via, answer) ==
  LET a == question[q].app
      ended == IF answer = "stop" THEN Released(app[a], "failed")
               ELSE [Released(app[a], "queued") EXCEPT !.mode = "manual"]
  IN
  /\ question[q].status \in Answerable(via)
  /\ Answered(q, IF answer = "stop" THEN "cancelled" ELSE "answered")
  /\ auth' = RevokedRows({a})
  /\ app' = [app EXCEPT ![a] = IF @.status = "needs_review" THEN ended ELSE @]
  /\ job' = AbortedJobs({a})
  /\ UNCHANGED <<resume, settings, processes>>

-----------------------------------------------------------------------------
(* The automation settings: panel or scripts/ops/automation.mjs *)

\* Claimed rows that are their application's current one.
Running == {x \in AuthIds : auth[x].state = "claimed" /\ \E a \in Apps : app[a].auth = x}

\* Mutants: an execution in review is not paused; the token survives the pause.
PauseUnderWayOnly ==
  LET X == {x \in Running : \E a \in Apps : app[a].auth = x /\ app[a].status = "in_progress"} IN
  /\ enabled /\ enabled' = FALSE
  /\ auth' = [x \in AuthIds |->
                IF x \in X
                THEN [auth[x] EXCEPT !.paused = TRUE, !.requested = FALSE,
                                     !.confirmed = 0, !.token = 0]
                ELSE auth[x]]
  /\ UNCHANGED <<job, resume, app, question, dailyLimit, processes>>
PauseKeepingToken ==
  /\ enabled /\ enabled' = FALSE
  /\ auth' = [x \in AuthIds |->
                IF x \in Running THEN [auth[x] EXCEPT !.paused = TRUE] ELSE auth[x]]
  /\ app' = [a \in Apps |-> IF app[a].auth \in Running
                             THEN [app[a] EXCEPT !.status = "needs_review"] ELSE app[a]]
  /\ UNCHANGED <<job, resume, question, dailyLimit, processes>>

Pause ==
  /\ enabled /\ enabled' = FALSE
  /\ auth' = [x \in AuthIds |->
                IF x \in Running
                THEN [auth[x] EXCEPT !.paused = TRUE, !.requested = FALSE,
                                     !.confirmed = 0, !.token = 0]
                ELSE auth[x]]
  /\ app' = [a \in Apps |->
               IF /\ app[a].auth \in Running
                  /\ app[a].status \in {"in_progress", "awaiting_final_confirmation"}
               THEN [app[a] EXCEPT !.status = "needs_review"] ELSE app[a]]
  /\ UNCHANGED <<job, resume, question, dailyLimit, processes>>

ResumeAutomation ==
  LET paused == {x \in Running : auth[x].paused} IN
  /\ ~enabled /\ enabled' = TRUE
  /\ auth' = [x \in AuthIds |->
                IF x \in paused THEN [Renewed(auth[x]) EXCEPT !.paused = FALSE] ELSE auth[x]]
  /\ app' = [a \in Apps |->
               IF app[a].auth \in paused /\ app[a].status = "needs_review" /\ ~Asked(a)
               THEN [app[a] EXCEPT !.status = "in_progress"] ELSE app[a]]
  /\ UNCHANGED <<job, resume, question, dailyLimit, processes>>

SetDailyLimit(n) ==
  /\ n # dailyLimit /\ dailyLimit' = n
  /\ UNCHANGED <<panelVars, enabled, processes>>

-----------------------------------------------------------------------------
(* The job and its resume change under the application *)

\* Mutant: the row is revoked under an execution that goes on.
UpdateUrlUnderRun(a, url) ==
  /\ ~job[a].archived
  /\ job' = [AbortedJobs({a}) EXCEPT ![a].url = url]
  /\ auth' = RevokedRows({a})
  /\ UNCHANGED <<resume, app, question, settings, processes>>

\* PATCH of the application URL, by the user, an enrichment or a resolved conflict.
UpdateUrl(a, url) ==
  LET revoked == /\ app[a].mode = "authorized_auto"
                 /\ app[a].status \in {"queued", "needs_review", "in_progress",
                                       "awaiting_final_confirmation"}
  IN
  /\ ~job[a].archived
  /\ job' = [AbortedJobs({a}) EXCEPT ![a].url = url]
  /\ auth' = IF revoked THEN RevokedRows({a}) ELSE auth
  /\ app' = [app EXCEPT ![a] = IF revoked THEN Released(@, "needs_review") ELSE @]
  /\ UNCHANGED <<resume, question, settings, processes>>

\* PATCH of the opening fields, or a liveness check that found the job open.
EditOpening(a, opening) ==
  /\ ~job[a].archived
  /\ job' = [job EXCEPT ![a].opening = opening]
  /\ UNCHANGED <<resume, app, auth, question, settings, processes>>

DecideInterested(a) ==
  LET j == [job[a] EXCEPT !.decision = "interested"]
      target == IF resume[a].status # "approved" THEN "resume"
                ELSE IF app[a].status # "none" THEN "ready_to_apply" ELSE "resume_approved"
  IN
  /\ ~job[a].archived /\ job[a].status \notin Terminal
  /\ app[a].status \notin Locked
  /\ Walk(a, j, target, resume[a], app[a], auth)
  /\ UNCHANGED <<resume, app, auth, question, settings, processes>>

DecideNoTime(a) ==
  /\ ~job[a].archived /\ app[a].status \notin Locked
  /\ job' = [AbortedJobs({a}) EXCEPT ![a].decision = "no_time"]
  /\ WithdrawPending(a)
  /\ UNCHANGED <<resume, question, settings, processes>>

Rejected(j) ==
  [j EXCEPT !.decision = "not_interested",
            !.status = IF @ \in Active THEN "discarded" ELSE @]

\* Mutant: a job whose application is locked can be rejected.
RejectLocked(a) ==
  /\ ~job[a].archived
  /\ job' = [job EXCEPT ![a] = Rejected(@)]
  /\ WithdrawPending(a)
  /\ UNCHANGED <<resume, question, settings, processes>>

\* Feedback in mode total: not interested.
RejectJob(a) ==
  /\ ~job[a].archived /\ app[a].status \notin Locked
  /\ job' = [job EXCEPT ![a] = Rejected(@)]
  /\ WithdrawPending(a)
  /\ UNCHANGED <<resume, question, settings, processes>>

Undone(j) ==
  [j EXCEPT !.decision = "pending",
            !.status = IF j.decision = "not_interested" /\ @ = "discarded" THEN "found" ELSE @]

\* The interest itself cannot be undone any more: the job has a resume.
UndoDecision(a) ==
  /\ ~job[a].archived /\ app[a].status \notin Locked
  /\ job[a].decision \in {"not_interested", "no_time"}
  /\ job' = [job EXCEPT ![a] = Undone(@)]
  /\ UNCHANGED <<resume, app, auth, question, settings, processes>>

Archive(a) ==
  /\ ~job[a].archived /\ job[a].status # "applying"
  /\ app[a].status \notin {"in_progress", "awaiting_final_confirmation"}
  /\ job' = [job EXCEPT ![a].archived = TRUE]
  /\ WithdrawPending(a)
  /\ UNCHANGED <<resume, question, settings, processes>>

Restore(a) ==
  /\ job[a].archived
  /\ job' = [job EXCEPT ![a].archived = FALSE]
  /\ UNCHANGED <<resume, app, auth, question, settings, processes>>

\* POST /api/jobs/{id}/transitions.
TransitionJob(a, c) ==
  /\ ~job[a].archived
  /\ Legal(job[a].status, c, Facts(job[a], resume[a], app[a], auth))
  /\ job' = [job EXCEPT ![a].status = Rules[c].to]
  /\ UNCHANGED <<resume, app, auth, question, settings, processes>>

\* Only a move back to review takes an approved resume out of its lock.
EditResume(a) ==
  /\ app[a].status \notin {"in_progress", "awaiting_final_confirmation"}
  /\ resume[a].version < MaxVersion
  /\ resume' = [resume EXCEPT ![a] = [status |-> "draft", version |-> @.version + 1]]
  /\ \/ /\ resume[a].status = "draft"
        /\ UNCHANGED <<job, app, auth>>
     \/ /\ resume[a].status = "approved"
        /\ WithdrawPending(a)
        /\ job' = [job EXCEPT ![a].status =
                     IF Aborted(@) \in Rules["revise_resume"].from THEN "resume" ELSE @]
  /\ UNCHANGED <<question, settings, processes>>

ApproveResume(a) ==
  LET s == [resume[a] EXCEPT !.status = "approved"]
      target == IF app[a].status \in ModeChange THEN "ready_to_apply" ELSE "resume_approved"
  IN
  /\ resume[a].status = "draft" /\ job[a].decision = "interested"
  /\ resume' = [resume EXCEPT ![a] = s]
  /\ Walk(a, job[a], target, s, app[a], auth)
  /\ UNCHANGED <<app, auth, question, settings, processes>>

-----------------------------------------------------------------------------
(* Expiration of jobs *)

\* expireJob, of the job written as j.
ExpireJob(a, j) ==
  /\ j.status \in Rules["expire"].from
  /\ job' = [job EXCEPT ![a] = [j EXCEPT !.status = "expired", !.decision = "expired"]]
  /\ WithdrawPending(a)

\* The test refreshExpiredJobs makes on what it reads.
Expirable(a) ==
  /\ job[a].status \in PreApplication \ {"applying"}
  /\ job[a].decision \notin {"not_interested", "applied"}
  /\ job[a].opening # "open"
  /\ app[a].status \notin {"in_progress"} \cup Sent

CronRead ==
  /\ cron = {} /\ cron' = {a \in Apps : Expirable(a)} /\ cron' # {}
  /\ UNCHANGED <<panelVars, settings, alive, desk>>

\* One transaction per job read; a job that can no longer expire is passed over.
CronExpire(a) ==
  /\ a \in cron /\ cron' = cron \ {a}
  /\ \/ ExpireJob(a, job[a])
     \/ /\ job[a].status \notin Rules["expire"].from
        /\ UNCHANGED <<job, app, auth>>
  /\ UNCHANGED <<resume, question, settings, alive, desk>>

\* A source writes over a card (upsertJob: its URL and its opening, no look at the grant),
\* and what it reports closed expires (closeJobFromSource), if nobody is applying.
WriteFromSource(a, url, opening) ==
  LET j == [job[a] EXCEPT !.url = url, !.opening = opening] IN
  /\ IF /\ opening = "closed"
        /\ j.status \in PreApplication \ {"applying"}
        /\ j.decision \notin {"not_interested", "applied"}
        /\ app[a].status \notin {"in_progress"} \cup Sent
     THEN ExpireJob(a, j)
     ELSE job' = [job EXCEPT ![a] = j] /\ UNCHANGED <<app, auth>>
  /\ UNCHANGED <<resume, question, settings, processes>>

-----------------------------------------------------------------------------
(* Time, and the server's sweep *)

TtlLapse(x) ==
  /\ auth[x].state \in Live /\ ~auth[x].ttlOver
  /\ auth' = [auth EXCEPT ![x].ttlOver = TRUE]
  /\ UNCHANGED <<job, resume, app, question, settings, processes>>

LeaseLapse(x) ==
  /\ auth[x].state = "claimed" /\ ~auth[x].leaseOver
  /\ auth' = [auth EXCEPT ![x].leaseOver = TRUE]
  /\ UNCHANGED <<job, resume, app, question, settings, processes>>

DeadlinePasses(a) ==
  /\ job[a].opening = "open"
  /\ job' = [job EXCEPT ![a].opening = "overdue"]
  /\ UNCHANGED <<resume, app, auth, question, settings, processes>>

NewDay ==
  /\ Usage # 0
  /\ auth' = [x \in AuthIds |-> [auth[x] EXCEPT !.today = FALSE]]
  /\ UNCHANGED <<job, resume, app, question, settings, processes>>

\* Applications whose authorization the sweep expires and which are still waiting or running.
Expiring ==
  {a \in Apps :
     \/ app[a].auth \in DueIssued /\ app[a].status \in {"queued", "needs_review", "in_progress"}
     \/ app[a].auth \in DueLease /\ app[a].status \in {"needs_review", "in_progress"}
     \/ /\ app[a].auth \in DueWaiting
        /\ app[a].status \in {"needs_review", "in_progress", "awaiting_final_confirmation"}}

ExpireDue ==
  /\ Due # {}
  /\ auth' = [x \in AuthIds |-> IF x \in Due THEN Closed(auth[x], "expired") ELSE auth[x]]
  /\ app' = [a \in Apps |-> IF a \in Expiring THEN Released(app[a], "needs_review") ELSE app[a]]
  /\ job' = AbortedJobs(Expiring \cup {auth[x].app : x \in DueWaiting})
  /\ UNCHANGED <<resume, question, settings, processes>>

RecoverStuck ==
  /\ Stuck # {}
  /\ auth' = RevokedRows(Stuck)
  /\ app' = [a \in Apps |->
               IF a \in Stuck
               THEN [Released(app[a], "needs_review") EXCEPT !.mode = ByUser(app[a].mode)]
               ELSE app[a]]
  /\ job' = AbortedJobs(Stuck)
  /\ UNCHANGED <<resume, question, settings, processes>>

\* The executor's process dies: the token it was handed once is lost with it.
WorkerCrash(w) ==
  /\ w \in alive /\ alive' = alive \ {w}
  /\ auth' = [x \in AuthIds |-> IF auth[x].claimedBy = w
                                 THEN [auth[x] EXCEPT !.given = {}] ELSE auth[x]]
  /\ UNCHANGED <<job, resume, app, question, settings, desk, cron>>

WorkerRestart(w) ==
  /\ w \notin alive /\ alive' = alive \cup {w}
  /\ UNCHANGED <<panelVars, settings, desk, cron>>

-----------------------------------------------------------------------------
(* The system *)

\* Decisions of the user about the application.
UserStep(a) ==
  \/ \E mode \in {"assisted", "manual"} : CreateApplication(a, mode)
  \/ AuthorizeRead(a) \/ Revoke(a) \/ SelectManual(a)
  \/ SendToReview(a) \/ ReportSubmission(a)
  \/ \E outcome \in {"accepted", "rejected"} : ReportOutcome(a, outcome)
  \/ ConfirmFinal(a) \/ CancelFinal(a)

ExecutorStep(a, w) ==
  \/ Claim(a, w) \/ Heartbeat(a, w) \/ RequestFinal(a, w)
  \/ Poll(a, w) \/ Submit(a, w) \/ Fail(a, w)

QuestionStep(q) ==
  \/ \E a \in Apps : CreateQuestion(a, q)
  \/ \E outcome \in {"delivered", "delivery_failed"} : MarkDelivery(q, outcome)
  \/ \E via \in {"telegram", "panel"} :
       Answer(q, via) \/ \E answer \in {"manual", "stop"} : AnswerEnds(q, via, answer)

\* The job or its resume changes under the application.
JobStep(a) ==
  \/ \E url \in 1..MaxUrl : UpdateUrl(a, url)
  \/ \E opening \in Opening : EditOpening(a, opening)
  \/ DecideInterested(a) \/ DecideNoTime(a) \/ RejectJob(a) \/ UndoDecision(a)
  \/ Archive(a) \/ Restore(a)
  \/ \E c \in Commands : TransitionJob(a, c)
  \/ EditResume(a) \/ ApproveResume(a)

\* Handlers of the dashboard: none runs while another is between reads and transaction.
DashboardStep ==
  /\ Idle
  /\ \/ \E a \in Apps : UserStep(a) \/ JobStep(a)
     \/ \E a \in Apps, w \in alive : ExecutorStep(a, w)
     \/ \E q \in Questions : QuestionStep(q)
     \/ ExpireDue \/ RecoverStuck

\* The rest of AUTORIZO, and the processes that open the database themselves.
SettingsStep == Pause \/ ResumeAutomation \/ \E n \in Limits : SetDailyLimit(n)
AuthorizeStep == AuthorizeRefused \/ \E x \in AuthIds : AuthorizeWrite(x)
CronStep ==
  \/ CronRead
  \/ \E a \in Apps : CronExpire(a) \/ \E url \in 1..MaxUrl, opening \in Opening : WriteFromSource(a, url, opening)

TimeStep ==
  \/ \E x \in AuthIds : TtlLapse(x) \/ LeaseLapse(x)
  \/ \E a \in Apps : DeadlinePasses(a)
  \/ NewDay
  \/ \E w \in Workers : WorkerCrash(w) \/ WorkerRestart(w)

Next == DashboardStep \/ SettingsStep \/ AuthorizeStep \/ CronStep \/ TimeStep

Spec == Init /\ [][Next]_vars

=============================================================================
