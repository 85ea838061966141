CONSTANTS
  j1 = j1
  r1 = r1
  Jobs = {j1}
  Decided = {j1}
  Scored = {j1}
  Contents <- MCContents
  Likeness <- MCLikeness
  Reasons <- MCReasons
  Inputs <- MCInputs
  FactsOf <- MCFacts
  Nearby <- MCNearby
  Adverts <- MCAdverts
  Texts <- MCTexts
  Rounds = {r1}
  Modes = {"partial"}
  Stages = {"none"}
  MaxFeedback = 1
  MaxVersions = 2
  MaxScores = 2
  NoContent = NoContent
  NoSignal = NoSignal
  NoOffer = NoOffer
  NoRound = NoRound
  None = None
SPECIFICATION Spec
INVARIANTS VersionsDoNotMix UnsaidDoesNotCount
CHECK_DEADLOCK FALSE
