SPECIFICATION FairSpec

CONSTANTS
  a = a
  b = b
  r1 = r1
  r2 = r2
  r3 = r3
  None = None
  Snaps <- OneSnap
  Rank <- RankOfOne
  Requests <- TwoRequests
  Kinds <- AllKinds
  StoreStatus <- Free
  Flaky = TRUE

PROPERTIES
  EveryRequestAnswered
  EveryEntryExpires
  ImplementsMarks
