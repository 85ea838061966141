------------------------- MODULE AutoApplyLiveness --------------------------
(***************************************************************************)
(* What the automatic application owes the user in the end.                *)
(*                                                                         *)
(* Fairness is what the code's own machinery gives: the wall clock runs    *)
(* out a TTL, which nothing renews, and the lease of an executor that is   *)
(* no longer there to renew it; the server's timer, and every executor     *)
(* route, sweeps again and again; a handler that has read goes on to its   *)
(* transaction.  Nothing is asked of the user, nor of an executor.         *)
(***************************************************************************)
EXTENDS AutoApply

DeadLapse(x) == auth[x].claimedBy \notin alive /\ LeaseLapse(x)
Sweep == Idle /\ (ExpireDue \/ RecoverStuck)

Fairness ==
  /\ \A x \in AuthIds : WF_vars(TtlLapse(x)) /\ WF_vars(DeadLapse(x))
  /\ SF_vars(Sweep)
  /\ WF_vars(AuthorizeStep)

FairSpec == Spec /\ Fairness

-----------------------------------------------------------------------------

\* The user does not flick the kill-switch forever.
SwitchSettles == <>[]enabled \/ <>[]~enabled

\* Row x is reserved by an executor that is not running.
Orphaned(x) == auth[x].state = "claimed" /\ auth[x].claimedBy \notin alive

(***************************************************************************)
(* The reservation of an executor that died is not held forever, running,  *)
(* waiting for ENVIAR or paused: it closes, unless the executor comes back *)
(* or a human question keeps it waiting (expireAuthorizations).            *)
(***************************************************************************)
OrphanIsFreed ==
  SwitchSettles =>
    \A x \in AuthIds : Orphaned(x) ~> (~Orphaned(x) \/ Asked(auth[x].app))

(***************************************************************************)
(* An application that waits to be claimed does not wait forever: it is    *)
(* claimed, taken back or expired by its TTL, the kill-switch on or off.   *)
(***************************************************************************)
GrantIsNotForever ==
  \A x \in AuthIds : auth[x].state = "issued" ~> auth[x].state # "issued"
=============================================================================
