SPECIFICATION Spec
CONSTANTS
  a = a  b = b  d1 = d1  d2 = d2  f1 = f1  f2 = f2  x = x  y = y  n1 = n1
  c1 = c1  c2 = c2
  Root = Root
  NoContent = NoContent
  FileIds = {f1}
  DirIds = {Root, d1, d2}
  Names = {a, b}
  ContentIds = {x}
  Nodes = {n1}
  Clients = {c1, c2}
  CallKinds = {"mkdir", "create", "rename", "remove"}
  Paths <- DeepPaths
  MaxAttempts = 2
  MaxRevision = 3
SYMMETRY Symmetry
CHECK_DEADLOCK FALSE
INVARIANTS TypeOK NamespaceIsTree
PROPERTIES ConflictMeansProgress ListingChangeBumpsGeneration ImplementsAtomicFilesystem
