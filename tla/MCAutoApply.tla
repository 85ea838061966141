---------------------------- MODULE MCAutoApply -----------------------------
(* The automatic application, checked on a small instance. *)
EXTENDS AutoApplySafety, AutoApplyGate, TLC

\* Authorizations, questions and executors are interchangeable.
Symmetry == Permutations(AuthIds) \cup Permutations(Questions) \cup Permutations(Workers)
=============================================================================
