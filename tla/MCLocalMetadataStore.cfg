SPECIFICATION Spec
CONSTANTS
  c1 = c1  c2 = c2  c3 = c3  p1 = p1  p2 = p2  x = x  y = y
  Callers = {c1, c2, c3}
  Contents = {x, y}
  Initial = x
  MaxRevision = 2
  ProcessOf <- MCProcessOf
  Truncated = Truncated
  NoCaller = NoCaller
INVARIANTS TypeOK NoGridlock
PROPERTIES ImplementsRegister
