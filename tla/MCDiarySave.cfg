SPECIFICATION FairSpec

CONSTANTS
  a = a
  b = b
  Presses = {a, b}
  Nobody = Nobody
  Days = {1, 2}
  Chunks = 2
  MaxReloads = 1
  MaxFaults = 2

INVARIANTS
  SavedIsWhole

PROPERTIES
  NeverTwice
  SavedAtLast
