SPECIFICATION FairSpec
CONSTANTS
  Apps = {a1}
  AuthIds = {x1, x2}
  Questions = {q1}
  Workers = {w1}
  None = None
  Commands = {"start_application"}
  MaxShots = 1
  MaxUrl = 1
  MaxVersion = 1
  Limits = {0, 1}
CHECK_DEADLOCK FALSE
PROPERTIES
  OrphanIsFreed
  GrantIsNotForever
