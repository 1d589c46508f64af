SPECIFICATION Spec
CONSTANTS
  a1 = a1  a2 = a2  a3 = a3
  Agents = {a1, a2, a3}
  Coordinator = a1
  Founders = {a1, a2}
  MaxUnrest = 2
INVARIANTS TypeOK OnlyMembersOnRecord
PROPERTIES PresenceSettles
CHECK_DEADLOCK FALSE
