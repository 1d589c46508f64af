SPECIFICATION FairSpec
CONSTANTS
  agent = agent  tool = tool  l = l  x1 = x1  k1 = k1
  e0 = e0  b2 = b2  b3 = b3  b4 = b4
  Contents = {e0, b2, b3, b4}
  Callers = {l, x1}
  Processes = {agent, tool}
  Home <- MCHome
  Size <- MCSize
  Capacity = 5
  None = None
  MaxFaults = 1
  Clients = {k1}
  Listener = l
  LocalContents = {b3, b4}
  Frame = 2
  Window = 1
  MaxTransfer = 3
INVARIANTS CapacityRespected BlobsAreWhole StoredIsHeld PayloadIsWhole TransferFailsForAReason
PROPERTY ListenerComesBack
