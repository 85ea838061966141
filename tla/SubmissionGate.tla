--------------------------- MODULE SubmissionGate ---------------------------
(***************************************************************************)
(* What the automatic application promises the user, without its jobs,     *)
(* resumes, tables or timers: an authorization goes from the user's grant  *)
(* to the submission only through the executor's reservation, a capture,   *)
(* the user's approval of it and the token the approval buys; the          *)
(* kill-switch holds every reserved one and throws away what the user      *)
(* approved; whoever closes an authorization closes it for good; and an    *)
(* application has one live authorization and one submission.              *)
(***************************************************************************)
CONSTANTS Apps, AuthIds, None

VARIABLES
  stage,   \* how far each authorization is
  owner,   \* the application it is for
  on       \* the kill-switch

vars == <<stage, owner, on>>

Reserved == {"reserved", "shown", "approved", "armed"}
Open == Reserved \cup {"granted", "held"}
Stage == Open \cup {"none", "sent", "void"}

Init ==
  /\ stage = [x \in AuthIds |-> "none"]
  /\ owner = [x \in AuthIds |-> None]
  /\ on = TRUE

\* Authorization x takes a step that only the switch can forbid.
Goes(x, from, to) ==
  /\ on /\ stage[x] \in from
  /\ stage' = [stage EXCEPT ![x] = to]
  /\ UNCHANGED <<owner, on>>

Grant(x, a) ==
  /\ on /\ stage[x] = "none"
  /\ ~\E y \in AuthIds : owner[y] = a /\ stage[y] \in Open \cup {"sent"}
  /\ stage' = [stage EXCEPT ![x] = "granted"]
  /\ owner' = [owner EXCEPT ![x] = a]
  /\ UNCHANGED on

Reserve(x) == Goes(x, {"granted"}, "reserved")
Show(x)    == Goes(x, Reserved, "shown")
Approve(x) == Goes(x, {"shown"}, "approved")
Arm(x)     == Goes(x, {"approved"}, "armed")
Send(x)    == Goes(x, {"armed"}, "sent")

Hold ==
  /\ on /\ on' = FALSE
  /\ stage' = [x \in AuthIds |-> IF stage[x] \in Reserved THEN "held" ELSE stage[x]]
  /\ UNCHANGED owner

Resume ==
  /\ ~on /\ on' = TRUE
  /\ stage' = [x \in AuthIds |-> IF stage[x] = "held" THEN "reserved" ELSE stage[x]]
  /\ UNCHANGED owner

Close(X) ==
  /\ \A x \in X : stage[x] \in Open
  /\ stage' = [x \in AuthIds |-> IF x \in X THEN "void" ELSE stage[x]]
  /\ UNCHANGED <<owner, on>>

Next ==
  \/ \E x \in AuthIds : \/ \E a \in Apps : Grant(x, a)
                        \/ Reserve(x) \/ Show(x) \/ Approve(x) \/ Arm(x) \/ Send(x)
  \/ Hold \/ Resume
  \/ \E X \in SUBSET AuthIds : Close(X)

Spec == Init /\ [][Next]_vars
=============================================================================
