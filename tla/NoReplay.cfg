SPECIFICATION ReplaySpec
CONSTANTS
  Filters <- MCFilters
  Users <- MCUsers
  Owner <- MCOwner
  Events <- MCEvents
  Wanted <- MCWanted
  Answers = {"ok"}
  MaxClock = 2
  MaxPresses = 1
  MaxFaults = 1
INVARIANT NoReplay
CHECK_DEADLOCK FALSE
