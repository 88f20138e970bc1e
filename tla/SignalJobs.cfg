SPECIFICATION FairSpec
CONSTANTS
  l1 = l1
  p1 = p1
  p2 = p2
  Brief = Brief
  None = None
  Listings <- OneListing
  Pages <- TwoPages
  Workers = 2
  MaxChanges = 3
  MaxFaults = 3
INVARIANT CompletedIsCurrent
PROPERTIES ResultsAreFresh EvidenceCollected EvidenceCatchesUp
