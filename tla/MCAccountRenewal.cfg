SPECIFICATION FairSpec

CONSTANTS
  MaxAttempts = 2
  Configured = FALSE
  MaxDeaths = 2
  MaxFaults = 1
  MaxTurns = 1
  MaxPeople = 1
  MaxRestarts = 1

INVARIANTS
  OneToken
  Patient

PROPERTIES
  Renews

CHECK_DEADLOCK FALSE
