SPECIFICATION Spec
CONSTANTS
  a1 = a1  a2 = a2  c1 = c1  t1 = t1  t2 = t2
  AgentProcesses = {a1, a2}
  Tools = {c1}
  Threads = {t1, t2}
  Early = {a1}
  None = None
  MaxStarts = 3
  MaxRevision = 2
SYMMETRY Symmetry
INVARIANTS NoUpdateLost IdentityIsPersistent SocketLeadsToAgent
CHECK_DEADLOCK FALSE
