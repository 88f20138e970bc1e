SPECIFICATION FairSpec
CONSTANTS
  Adverts <- TwoAdverts
  Users <- OneUser
  Prices = {1, 2}
  Duplicates <- Pairs
  Wanted <- AnyPrice
  Restless <- OneUser
  MaxClock = 2
  MaxChanges = 1
INVARIANTS InterestedUserKnowsProperty
PROPERTIES ImplementsPropertyGroups AlternativesAreAffirmed NoSecondDiscovery DiscoveriesAreMatched
CHECK_DEADLOCK FALSE
