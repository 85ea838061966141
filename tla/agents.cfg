CONSTANTS
  A = A
  p1 = p1
  p2 = p2
  NoOne = NoOne
  r1 = r1
  r2 = r2
  Agents = {A}
  Prompts = {p1, p2}
  Limits = {1, 2}
  Enriched = {}
  Created <- MCCreated
  Edits <- MCEdits
  MaxVersions = 3
  MaxCrashes = 1
  Runs = {r1, r2}
  Reassigned = FALSE
SPECIFICATION Spec
INVARIANTS InstructionsWereRead PauseHolds ConcurrencyRespected
PROPERTIES LateNeverSucceeds
SYMMETRY Symmetry
