SPECIFICATION Spec
CONSTANTS
  Listings <- MCListings
  Snapshots <- MCSnapshots
  ListingOf <- MCListingOf
  EvidenceOf <- MCEvidenceOf
  CandidateLimit = 2
  Workers = 2
  MaxProperties = 5
  MaxChanges = 0
INVARIANT CompatibleAreWeighed
CHECK_DEADLOCK FALSE
