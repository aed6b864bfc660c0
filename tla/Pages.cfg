SPECIFICATION FairSpec
CONSTANT
  MaxActs = 4
INVARIANTS
  TypeOK
  ForeignOnlyIfOutlived
  EmptyOnlyByError
  LetInForGood
PROPERTY
  SpinnerStops
CHECK_DEADLOCK FALSE
