------------------------------ MODULE MCRounds ------------------------------
EXTENDS Collection, TLC

CONSTANTS s1, s2, d1, d2, a1, a2, b1, i1, i2, i3

MCConnector == (a1 :> s1) @@ (a2 :> s1) @@ (b1 :> s2)
Seen(i) == [item |-> i, own |-> TRUE, whole |-> TRUE]
MCPages == (a1 :> << <<Seen(i1), [Seen(i2) EXCEPT !.own = FALSE]>> >>)
        @@ (a2 :> << <<>> >>) @@ (b1 :> << <<[Seen(i2) EXCEPT !.whole = FALSE], Seen(i2), Seen(i2)>>, <<Seen(i3)>>, <<Seen(i1)>> >>)
MCPlace == (s1 :> 1) @@ (s2 :> 2)
MCSent == {[source |-> s2, items |-> <<i3>>, cursor |-> NoCursor]}
MCHome == [s \in {s1, s2} |-> d1]
MCReports == {<<>>}
=============================================================================
