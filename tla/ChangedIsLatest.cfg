SPECIFICATION Spec
CONSTANTS
  l1 = l1
  Listings <- OneListing
  Stale = 2
  Weekly = 3
  MaxDelay = 3
  Workers = 1
  MaxFlips = 2
  MaxFaults = 2
INVARIANT ChangedIsLatest
