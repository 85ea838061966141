----------------------------- MODULE MCResumes ------------------------------
(* The resumes of a job, checked on small instances. *)
EXTENDS ResumeApproval, TLC

CONSTANTS c1, r1, r2, q1

\* A text with the claim, and no text at all; what a parser makes of one is chosen.
Empty == [claims |-> {}, form |-> "empty"]
Plain(C) == [claims |-> C, form |-> "plain"]
TwoTexts == {Empty, Plain({c1})}

\* Resumes are interchangeable.
Symmetry == Permutations(Ids)
=============================================================================
