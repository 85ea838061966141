---------------------------- MODULE AutoApplyGate ----------------------------
(***************************************************************************)
(* The automatic application implements the submission gate: the columns   *)
(* of an authorization row, read together, are a stage of the gate, and    *)
(* every handler, sweep, crash or concurrent process is a step of the gate *)
(* or none.                                                                *)
(***************************************************************************)
EXTENDS AutoApply

\* How far a claimed row is.
ClaimedStage(r) ==
  IF r.paused THEN "held"
  ELSE IF r.token # 0 THEN "armed"
  ELSE IF r.confirmed # 0 THEN "approved"
  ELSE IF r.requested THEN "shown"
  ELSE "reserved"

GateStage(r) ==
  CASE r.state = "none"                  -> "none"
    [] r.state = "issued"                -> "granted"
    [] r.state = "claimed"               -> ClaimedStage(r)
    [] r.state = "consumed"              -> "sent"
    [] r.state \in {"revoked", "expired"} -> "void"

Gate == INSTANCE SubmissionGate WITH
  stage <- [x \in AuthIds |-> GateStage(auth[x])],
  owner <- [x \in AuthIds |-> auth[x].app],
  on <- enabled

(***************************************************************************)
(* Every behaviour of the code is one of the gate's: no order of panel,    *)
(* executor, question, kill-switch, cron and timer steps sends without a   *)
(* reservation, a capture, an ENVIAR and a token in that order, all of     *)
(* them after the last time the kill-switch was turned off.                *)
(***************************************************************************)
ImplementsGate == Gate!Spec
=============================================================================
