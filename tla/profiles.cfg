CONSTANTS
  t1 = t1
  x = x
  y = y
  Types = {t1}
  Blockers = {t1}
  Values = {x, y}
  Claims = {x}
  Given <- MCGiven
  Contexts = {}
  Reviews = {"confirmed"}
  MaxVersions = 3
  MaxFacts = 2
  MaxWaiting = 1
SPECIFICATION Spec
INVARIANTS SnapshotHolds
PROPERTIES NothingConfirmedIsLost
CHECK_DEADLOCK FALSE
