SPECIFICATION FairSpec
CONSTANTS
  Listings <- MCListings
  Snapshots <- MCSnapshots
  ListingOf <- MCListingOf
  EvidenceOf <- MCEvidenceOf
  CandidateLimit = 2
  Workers = 2
  MaxProperties = 5
  MaxChanges = 2
INVARIANTS AcceptedAreTogether ResolvedPairsAreDecided DecisionsFollowRule DuplicatesAreMerged
PROPERTIES ImplementsPropertyGroups OverridesStick EverySnapshotResolved
\* Everything is resolved in the end, and the changes are bounded.
CHECK_DEADLOCK FALSE
