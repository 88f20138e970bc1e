SPECIFICATION Spec
CONSTANTS
  Adverts <- ThreeAdverts
  Users <- OneUser
  Prices = {1, 2}
  Duplicates <- AllPairs
  Wanted <- AnyPrice
  Restless <- NoUser
  MaxClock = 2
  MaxChanges = 0
PROPERTY RelistingsAreTold
CHECK_DEADLOCK FALSE
