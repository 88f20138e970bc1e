SPECIFICATION FairSpec
CONSTANTS
  Filters <- MCFilters
  Users <- MCUsers
  Owner <- MCOwner
  Events <- MCEvents
  Wanted <- MCWanted
  Answers <- AllAnswers
  MaxClock = 2
  MaxPresses = 1
  MaxFaults = 1
INVARIANTS OneRowPerUser NoBacklog RepeatsNeedFaults InterestedUserHasRow
PROPERTIES ImplementsAlertLife AlertsSettle
\* The run is bounded by the clock and by the filters, after which nothing is left to do.
CHECK_DEADLOCK FALSE
