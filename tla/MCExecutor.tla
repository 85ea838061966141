----------------------------- MODULE MCExecutor -----------------------------
(* The executor and the panel it works with, checked on a small instance. *)
EXTENDS Executor, AutoApplySafety, TLC

\* Authorizations are interchangeable.
Symmetry == Permutations(AuthIds)
=============================================================================
