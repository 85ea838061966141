------------------------------ MODULE MCFeedback ------------------------------
EXTENDS Feedback

CONSTANTS j1, j2

Posting(company, title, level) ==
  [company |-> company, title |-> title, family |-> "unknown", sure |-> FALSE,
   requirements |-> {"sql"}, seniority |-> level]

MCContents == {Posting("acme", "analyst", "junior"), Posting("acme", "dev", NotInformed)}
MCLikeness == [p \in {{"analyst", "dev"}} |-> 40]
MCReasons == {<<"company", "company">>, <<"seniority", "seniority">>}
=============================================================================
