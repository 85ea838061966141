SPECIFICATION Spec
CONSTANTS
  c1 = c1
  r1 = r1
  r2 = r2
  q1 = q1
  Ids = {r1, r2}
  Requests = {q1}
  Claim = {c1}
  Blocking = {c1}
  Titles = {t1}
  Texts <- TwoTexts
  None = None
CHECK_DEADLOCK FALSE
SYMMETRY Symmetry
INVARIANTS
  TextIsVouched
  StageHasApproved
PROPERTIES
  FailedCheckStays
