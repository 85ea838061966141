----------------------------- MODULE MCBridge ------------------------------
EXTENDS QuestionBridge

CONSTANTS n1, n2, i1, c, h1

\* The questions share a code.
MCCode == [q \in Questions |-> c]
=============================================================================
