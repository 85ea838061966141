CONSTANTS
  j1 = j1
  j2 = j2
  Jobs = {j1, j2}
  Decided = {j1}
  Contents <- MCContents
  Likeness <- MCLikeness
  Reasons <- MCReasons
  Modes = {"total", "partial"}
  Stages = {"none", "locked"}
  MaxFeedback = 2
  NoContent = NoContent
  NoSignal = NoSignal
  NoOffer = NoOffer
SPECIFICATION FeedbackSpec
INVARIANTS LearnedIsBacked HiddenHasReason OfferIsCurrent
CHECK_DEADLOCK FALSE
