SPECIFICATION PollsFairSpec

CONSTANTS
  Interval = 2
  MaxDays = 2
  MaxFailures = 1
  MaxExpiries = 2
  MaxWrites = 1
  MaxReloads = 1

INVARIANTS
  NotYesterdays

PROPERTIES
  AskedWhenDue
  AgreesAtLast

CHECK_DEADLOCK FALSE
