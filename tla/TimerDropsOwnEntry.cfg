SPECIFICATION Spec

CONSTANTS
  a = a
  b = b
  r1 = r1
  r2 = r2
  r3 = r3
  None = None
  Snaps <- OneSnap
  Rank <- RankOfOne
  Requests <- ThreeRequests
  Kinds <- SnapKinds
  StoreStatus <- Free
  Flaky = FALSE

PROPERTIES
  TimerDropsOwnEntry
