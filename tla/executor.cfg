SPECIFICATION ExecSpec
CONSTANTS
  Apps = {a1}
  AuthIds = {x1, x2}
  Questions = {}
  Workers = {w1, w2}
  None = None
  Commands = {}
  MaxShots = 1
  MaxUrl = 2
  MaxVersion = 1
  Limits = {0, 1}
  Tools = {w2}
  Domain = {1}
CHECK_DEADLOCK FALSE
SYMMETRY Symmetry
INVARIANTS
  OneClickPerEnviar
PROPERTIES
  ClearedIsGranted
  SubmitWithinLimit
