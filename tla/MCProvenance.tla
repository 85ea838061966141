---------------------------- MODULE MCProvenance ----------------------------
EXTENDS Provenance, TLC

CONSTANTS s1, s2, n1, n2, u1, u2, u3, t1, t2, t3, c1, c2, d1, d2, r1

Posting(source, native, url, title, description, opening) ==
  [source |-> source, native |-> native, url |-> url, title |-> title,
   company |-> c1, description |-> description, opening |-> opening]

Plain   == Posting(s1, n1, u1, t1, Blank, "open")
Moved   == Posting(s1, n1, u2, t2, d1, "unknown")
Elsewhere == Posting(s2, NoId, u3, t1, d2, "closed")
Another == Posting(s1, n2, u3, t2, Blank, "unknown")
Kept    == Posting(s2, NoId, u2, t3, d1, "unknown")
Typed   == Posting(s2, NoId, u1, t1, Blank, "open")

\* A portal without identifiers gives its vacancy another title.
Unnamed == Posting(s2, NoId, u1, t1, Blank, "open")
Retitled == [Unnamed EXCEPT !.title = t2]

MCItems == {Plain, Moved, Elsewhere, Another}
MCDelivered == {<<Plain, r1>>, <<Moved, r1>>, <<Moved, NoRound>>, <<Elsewhere, NoRound>>, <<Another, NoRound>>}
MCForms == {Kept, Typed}
MCOlder == {Kept}
MCAlike == {{t1, t2}}
MCHumanEdits == {<<"title", t3>>, <<"opening", "open">>}
MCAgentPatches == {<<"description", d1>>, <<"opening", "open">>, <<"title", t2>>, <<"title", t3>>}

MCPortal == (u1 :> "status") @@ (u2 :> "page") @@ (u3 :> "board")
There == [public |-> <<TRUE>>, ended |-> TRUE, status |-> 200, cut |-> FALSE, listing |-> FALSE,
          marker |-> FALSE, deadlines |-> {"ahead"}, board |-> TRUE, listed |-> TRUE, empty |-> FALSE]
MCReplies == {There, [There EXCEPT !.status = 404, !.listed = FALSE],
  [There EXCEPT !.public = <<TRUE, TRUE>>, !.marker = TRUE, !.listing = TRUE],
  [There EXCEPT !.deadlines = {"past"}, !.listed = FALSE], [There EXCEPT !.marker = TRUE, !.ended = FALSE],
  [There EXCEPT !.deadlines = {}, !.marker = TRUE], [There EXCEPT !.marker = TRUE], [There EXCEPT !.cut = TRUE]}

UnnamedItems == {Unnamed, Retitled}
UnnamedDelivered == UnnamedItems \X {NoRound}
CompanyEdits == {<<"company", c2>>, <<"title", t3>>}
=============================================================================
