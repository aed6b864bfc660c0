SPECIFICATION ViewSpec

CONSTANTS
  a = a
  r1 = r1
  r2 = r2
  r3 = r3
  None = None
  Snaps <- OneSnap
  Rank <- RankOfOne
  Requests <- ThreeRequests
  Kinds <- InstallAndRead
  StoreStatus <- Free
  Flaky = FALSE

INVARIANTS
  AnswerWasTrue
