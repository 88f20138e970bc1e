SPECIFICATION FairSpec
CONSTANTS
  Events <- MCEvents
  Malformed <- MCMalformed
  Dependent <- MCDependent
  BatchSize = 2
  MaxFaults = 2
  NoEvent = NoEvent
INVARIANTS NothingLost MatchedOnce OnlyMalformedDie DuplicatesNeedFaults
PROPERTIES ImplementsEventEffects EveryEventFinishes
