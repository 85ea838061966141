------------------------------ MODULE MCScores ------------------------------
EXTENDS MatchScores, TLC

CONSTANTS j1, r1

Quoted(value) == [value |-> value, quoted |-> TRUE]

Posting(title, level, demands) ==
  [company |-> "acme", title |-> title, family |-> "data", sure |-> TRUE,
   requirements |-> {}, seniority |-> level, demands |-> demands]

Remote == Posting("analyst", "junior",
  ("work_model" :> Quoted("remote")) @@ ("location" :> Quoted("recife")) @@ ("min_years" :> Quoted(5)))
Onsite == Posting("dev", NotInformed,
  ("work_model" :> Quoted("onsite")) @@ ("location" :> Quoted("olinda")) @@
  ("work_authorization" :> Quoted([countries |-> {"pt"}, sponsor |-> TRUE])) @@
  ("min_years" :> [value |-> 5, quoted |-> FALSE]))

MCContents == {Remote, Onsite}
MCLikeness == [p \in {{"analyst", "dev"}} |-> 80]
MCReasons == {<<"role", "role_family">>}

Given(role, skills, rest) == [k \in Criteria |-> IF k = "role_family" THEN role ELSE IF k = "skills" THEN skills ELSE rest]
MCInputs == {Given(90, None, 80), Given(None, None, None), "skills" :> 90}

Fact(type, value, state) == [type |-> type, value |-> value, state |-> state]
MCFacts ==
  <<<<Fact("work_models", {"remote", "hybrid"}, "confirmed"), Fact("years_experience", 3, "proposed"),
      Fact("accepted_locations", {"recife"}, "confirmed"), Fact("accepted_locations", {}, "confirmed")>>,
    <<Fact("years_experience", 3, "confirmed"), Fact("work_models", {"onsite"}, "confirmed"),
      Fact("accepted_locations", {"olinda pe"}, "confirmed"),
      Fact("work_authorization", [countries |-> {"br"}, sponsor |-> FALSE], "confirmed")>>>>
Advert(listed, phrases, title) ==
  [terms |-> {"sql", "python"}, phrases |-> phrases, listed |-> listed, required |-> {"sql"},
   described |-> {"sql", "python"}, title |-> title]
MCAdverts ==
  {Advert(l, p, t) : l \in BOOLEAN, p \in {{}, {"event storming"}}, t \in {{}, {"analyst"}, {"data", "analyst"}}}
  \cup {[terms |-> {}, phrases |-> {}, listed |-> FALSE, required |-> {}, described |-> {}, title |-> {}]}
MCTexts ==
  [words : SUBSET {"sql", "analyst"} \cup {{"sql", "python", "event storming", "data", "analyst"}},
   keywords : {{}, {"python"}}, skills : {{}, {"sql", "python"}},
   sections : {{}, {"contact"}, Sections}, readable : 0..2, ambiguous : 0..1]

MCNearby == {{"olinda", "olinda pe"}}
=============================================================================
