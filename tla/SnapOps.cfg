SPECIFICATION Spec

CONSTANTS
  a = a
  b = b
  r1 = r1
  r2 = r2
  r3 = r3
  None = None
  Snaps <- TwoSnaps
  Rank <- RankOfTwo
  Requests <- TwoRequests
  Kinds <- AllKinds
  StoreStatus <- FreeOrPriced
  Flaky = TRUE

SYMMETRY RequestSymmetry

INVARIANTS
  IInv
  PayloadComplete
  OwnTimerArmed
  EntryNamesItsChange
  HeldCopyIsCurrent
  AcceptedMeansStarted
  ReplyFitsSnapshot

PROPERTY
  AbortedOnRequest
