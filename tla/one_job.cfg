SPECIFICATION Spec
CONSTANTS
  Apps = {a1}
  AuthIds = {x1, x2}
  Questions = {q1}
  Workers = {w1}
  None = None
  Commands = {"start_application", "confirm_applied", "schedule_interview", "complete",
              "complete_exceptionally"}
  MaxShots = 2
  MaxUrl = 2
  MaxVersion = 2
  Limits = {1}
CHECK_DEADLOCK FALSE
SYMMETRY Symmetry
INVARIANTS
  LiveRowIsCurrent
  SubmissionIsFinal
  KillSwitchHolds
  TokenGate
  SentStaysApplied
  AppliedMeansSent
  Inductive
PROPERTIES
  SubmitMatchesGrant
  ReservationEndsRun
  ImplementsGate
