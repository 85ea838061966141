----------------------------- MODULE MCProfiles -----------------------------
(* One type of fact, which is a blocker, and two values: what a PDF says,  *)
(* beside what the operations make themselves, declarations and answers    *)
(* passed on by an agent. Each of them has evidence.                       *)
EXTENDS ProfileDrafts

CONSTANTS t1, x, y

Input(value, origin, state, evidence) ==
  [type |-> t1, value |-> value, origin |-> origin, state |-> state,
   evidence |-> evidence, asked |-> FALSE]

MCGiven ==
  {Input(x, "pdf", "proposed", TRUE)}
=============================================================================
