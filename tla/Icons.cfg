SPECIFICATION Spec
CONSTANTS
  r1 = r1
  r2 = r2
  f1 = f1
  f2 = f2
  Requests = {r1, r2}
  Files = {f1, f2}
  FileOf <- OneRenamed
  MaxRevision = 3
INVARIANTS
  TypeOK
  IconTornOnlyByCutOrRace
  IconHasItsName
SYMMETRY AnyRequest
