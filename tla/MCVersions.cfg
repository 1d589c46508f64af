SPECIFICATION Spec
CONSTANTS
  a = a  b = b  d1 = d1  d2 = d2  f1 = f1  f2 = f2  x = x  y = y  n1 = n1
  c1 = c1  c2 = c2
  Root = Root
  NoContent = NoContent
  FileIds = {f1, f2}
  DirIds = {Root}
  Names = {a, b}
  ContentIds = {x, y}
  Nodes = {n1}
  Clients = {c1, c2}
  CallKinds = {"create", "remove", "write", "maintain"}
  Paths <- FlatPaths
  MaxAttempts = 2
  MaxRevision = 4
SYMMETRY Symmetry
CHECK_DEADLOCK FALSE
INVARIANTS RetentionMatchesReferences GenerationNamesVersion
PROPERTIES ImplementsAtomicFilesystem
