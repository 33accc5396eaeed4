SPECIFICATION Spec

CONSTANTS
  MaxIds = 4

INVARIANTS
  ResetCarriedOut

PROPERTIES
  EarnedKept
  DeviceKept
