----------------------------- MODULE MCAgents -----------------------------
EXTENDS AgentRuns, TLC

CONSTANTS A, p1, p2, r1, r2

Base == [prompt |-> p1, enabled |-> TRUE, concurrency |-> 1, learns |-> TRUE]
MCCreated == {Base}
MCEdits == [human |-> {[enabled |-> FALSE], [concurrency |-> 2, enabled |-> TRUE]},
            machine |-> {[prompt |-> p2]}]
Symmetry == Permutations({r1, r2})
=============================================================================
