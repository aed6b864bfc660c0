SPECIFICATION FairSpec
CONSTANT
  MaxActs = 2
INVARIANTS
  TypeOK
  PassingIsWatched
  ShownFitsStatus
PROPERTIES
  LastClickDecides
  PollingStops
CHECK_DEADLOCK FALSE
