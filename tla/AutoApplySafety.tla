-------------------------- MODULE AutoApplySafety ---------------------------
(***************************************************************************)
(* What the automatic application promises of every state and every step.  *)
(* The named parts under "inductive" are true of the code too, but their   *)
(* use is to make Inductive an inductive invariant: the proofs need them.  *)
(***************************************************************************)
EXTENDS AutoApply

-----------------------------------------------------------------------------
(* Who owns which authorization *)

(***************************************************************************)
(* One grant at a time: a row that may still be claimed or is being        *)
(* executed is the one its application points at, in automatic mode, so    *)
(* that an application never has two; a new AUTORIZO never leaves an older *)
(* row behind that an executor could still use.                            *)
(***************************************************************************)
LiveRowIsCurrent ==
  \A x \in AuthIds : auth[x].state \in Live =>
    /\ auth[x].app \in Apps
    /\ app[auth[x].app].auth = x
    /\ app[auth[x].app].mode = "authorized_auto"

(***************************************************************************)
(* The three columns that say "granted" (automation_mode,                  *)
(* auto_authorized_at, authorization_id) are written by a dozen handlers   *)
(* and never disagree.                                                     *)
(***************************************************************************)
GrantIsWhole ==
  \A a \in Apps : /\ app[a].granted <=> app[a].mode = "authorized_auto"
                  /\ app[a].granted <=> app[a].auth # None

(***************************************************************************)
(* A submission is final: the application of a consumed row stays sent and *)
(* stays that row's, whatever the user, an executor or a question does     *)
(* later; so no application is submitted twice.                            *)
(***************************************************************************)
SubmissionIsFinal ==
  \A x \in AuthIds : auth[x].state = "consumed" =>
    auth[x].app \in Apps /\ app[auth[x].app].auth = x /\ app[auth[x].app].status \in Sent

\* Inductive: an application points at a row that was issued for it.
PointsAtOwnRow ==
  \A a \in Apps : app[a].auth # None =>
    auth[app[a].auth].app = a /\ auth[app[a].auth].state # "none"

\* Inductive: what does not exist or is sent already has no live row.
LiveRowIsUnsent ==
  \A x \in AuthIds : auth[x].state \in Live => app[auth[x].app].status \notin Sent \cup {"none"}

Ownership ==
  LiveRowIsCurrent /\ GrantIsWhole /\ SubmissionIsFinal /\ PointsAtOwnRow /\ LiveRowIsUnsent

-----------------------------------------------------------------------------
(* The confirmation, the token and the kill-switch *)

(***************************************************************************)
(* While the kill-switch is off every reserved execution is paused and has *)
(* lost its confirmation and its token; while it is on none is paused.     *)
(***************************************************************************)
KillSwitchHolds ==
  \A x \in AuthIds : auth[x].state = "claimed" =>
    /\ auth[x].paused <=> ~enabled
    /\ auth[x].paused => ~auth[x].requested /\ auth[x].confirmed = 0 /\ auth[x].token = 0

(***************************************************************************)
(* A submit token in force belongs to a claimed row that is not paused,    *)
(* was minted for the capture the row holds now, and that capture is the   *)
(* confirmed one: a new capture, a pause or a revocation leaves none.      *)
(***************************************************************************)
TokenGate ==
  \A x \in AuthIds : auth[x].token # 0 =>
    /\ auth[x].state = "claimed" /\ ~auth[x].paused /\ auth[x].requested
    /\ auth[x].token = auth[x].shot /\ auth[x].confirmed = auth[x].shot

\* Inductive: a confirmation is of the capture the row holds, on a row that is running.
ConfirmationIsOfCapture ==
  \A x \in AuthIds : auth[x].confirmed # 0 =>
    /\ auth[x].state = "claimed" /\ ~auth[x].paused /\ auth[x].requested
    /\ auth[x].confirmed = auth[x].shot

\* Inductive: a row nobody has claimed, or that is closed, has not been paused or asked for.
OnlyClaimedIsPaused ==
  \A x \in AuthIds : auth[x].state # "claimed" => ~auth[x].paused /\ ~auth[x].requested

Gating == KillSwitchHolds /\ TokenGate /\ ConfirmationIsOfCapture /\ OnlyClaimedIsPaused

-----------------------------------------------------------------------------
(* The jobs behind the authorizations *)

\* An archived job has no authorization an executor could claim or finish.
ArchivedHasNoLiveRow ==
  \A x \in AuthIds : auth[x].state \in Live => ~job[auth[x].app].archived

\* Inductive: nothing archives the job between the reads of AUTORIZO and its transaction.
DeskIsNotArchived == desk # None => ~job[desk.app].archived

Archiving == ArchivedHasNoLiveRow /\ DeskIsNotArchived

Inductive == TypeOK /\ Ownership /\ Gating /\ Archiving

(***************************************************************************)
(* The pipeline never shows a job as applied, in interviews or completed   *)
(* whose application was not sent, through which of the commands, walks    *)
(* and decisions it may have come there.                                   *)
(***************************************************************************)
AppliedMeansSent ==
  \A a \in Apps :
    job[a].status \in {"applied", "interview_scheduled", "interview_completed", "completed"}
      => app[a].status \in Sent

(***************************************************************************)
(* A job whose application was sent stays marked as applied: no expiration *)
(* that read it before, no source that closes it, no rejection and no undo *)
(* says otherwise later.                                                   *)
(***************************************************************************)
SentStaysApplied == \A a \in Apps : app[a].status \in Sent => job[a].decision = "applied"

-----------------------------------------------------------------------------
(* What a step may do *)

Consumes(x) == auth[x].state # "consumed" /\ auth'[x].state = "consumed"

(***************************************************************************)
(* What is submitted is what the user authorized: at the moment a row is   *)
(* consumed the kill-switch is on, the resume is approved in the version   *)
(* the row names, the job is wanted, not archived and at the URL the row   *)
(* names, the row's last capture is the confirmed one, and the executor    *)
(* holds that confirmation's token.                                        *)
(***************************************************************************)
SubmitMatchesGrant ==
  [][\A x \in AuthIds : Consumes(x) =>
       LET a == auth[x].app IN
       /\ enabled /\ auth[x].state = "claimed"
       /\ resume[a].status = "approved" /\ resume[a].version = auth[x].version
       /\ job[a].decision = "interested" /\ job[a].url = auth[x].url /\ ~job[a].archived
       /\ auth[x].requested /\ auth[x].confirmed = auth[x].shot
       /\ auth[x].token = auth[x].shot /\ auth[x].token \in auth[x].given]_vars

\* No submission takes the day's usage past the limit in force, lowered or not.
SubmitWithinLimit == [][Usage' > Usage => Usage' <= dailyLimit]_vars

InFlight(a) == app[a].status \in {"in_progress", "awaiting_final_confirmation"}
Reserved(a) == app[a].auth # None /\ auth[app[a].auth].state = "claimed"

(***************************************************************************)
(* Whatever takes the reservation of an application under way (a sweep, a  *)
(* limit, an edit, a decision, the collector) also ends the execution; the *)
(* one exception is the answer to a question: `stop` revokes the row and   *)
(* leaves the application under way (questions.ts answerHumanQuestion).    *)
(***************************************************************************)
ReservationEndsRun ==
  [][\A a \in Apps :
       InFlight(a) /\ Reserved(a) /\ InFlight(a)' /\ ~Reserved(a)' =>
         \E q \in Questions : question[q].app = a /\ question'[q] # question[q]]_vars

=============================================================================
