SPECIFICATION Spec
CONSTANTS
  MaxPairs = 3
  MaxKills = 2
  MaxHooks = 2
INVARIANT
  DumpLeavesPair
CHECK_DEADLOCK FALSE
