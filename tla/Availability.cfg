SPECIFICATION FairSpec
CONSTANTS
  l1 = l1
  Listings <- OneListing
  Stale = 1
  Weekly = 2
  MaxDelay = 3
  Workers = 1
  MaxFlips = 2
  MaxFaults = 2
INVARIANTS LogExplainsStatus OneOpenAttempt EarlyChecksNeedFaults
PROPERTIES EvidenceArrives RemovedIsNoticed
