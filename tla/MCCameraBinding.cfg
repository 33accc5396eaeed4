SPECIFICATION FairSpec

CONSTANTS
  attic = attic
  barn = barn
  Cameras = {attic, barn}
  Configured = {barn}
  MaxTurns = 2
  MaxFaults = 1
  MaxReloads = 1

INVARIANTS
  ActsOnItsOwn
  PlaysItsOwn

PROPERTIES
  AllBoundAtLast

\* An entry with no camera bound has nothing to poll.
CHECK_DEADLOCK FALSE
