SPECIFICATION HomeSpec

CONSTANTS
  a = a
  tracked = tracked
  installed = installed
  poll = poll
  other = other
  None = None
  Snaps <- OneSnap
  Rank <- RankOfOne
  Requests <- AllRequests
  TrackedFetch <- tracked
  InstalledFetch <- installed
  Polls <- OnePoll
  Kinds <- HomeKinds
  StoreStatus <- Free
  Flaky = TRUE

INVARIANTS
  HomeTypeOK
  InstalledIsOnPage
  MissedOnlyInPassing
