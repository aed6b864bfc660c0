SPECIFICATION Spec
CONSTANTS
  lo = lo
  lan = lan
  six = six
  h1 = h1
  h2 = h2
  r1 = r1
  r2 = r2
  None = None
  Requests = {r1, r2}
  Addresses = {h1, h2}
  NetOf <- LanAndSix
  Interfaces <- ThreeInterfaces
  Skipped = {six}
  Configurations <- SomeConfigurations
INVARIANTS
  TypeOK
  ServedBelongs
  RefusedOnlyByOverlap
CHECK_DEADLOCK FALSE
