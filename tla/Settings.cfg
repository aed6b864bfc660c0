SPECIFICATION SettingsSpec
CONSTANTS
  s1 = s1
  s2 = s2
  r1 = r1
  r2 = r2
  Requests = {r1, r2}
  Servers = {s1, s2}
  Times <- SomeTimes
  Offsets <- QuarterHours
  Picks <- SomePicks
  Days <- SomeDays
  Clocks <- SomeClocks
  MaxEdits = 2
SYMMETRY Symmetry
INVARIANTS
  SettingsTypeOK
  BrokenOnlyByCut
  ExactIsPicked
  PickedIsShown
  SettledPaneFits
CHECK_DEADLOCK FALSE
