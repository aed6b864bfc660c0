SPECIFICATION FairSpec
CONSTANTS
  MaxPairs = 3
  MaxKills = 2
  MaxHooks = 2
INVARIANTS
  TypeOK
  ServedPairStays
  NetworksSurvive
PROPERTIES
  StopsOnlyByCut
  ServesAgain
CHECK_DEADLOCK FALSE
