SPECIFICATION FairSpec
CONSTANTS
  n1 = n1  n2 = n2  n3 = n3  r1 = r1  p1 = p1  w1 = w1
  Nodes = {n1, n2}
  Remote = {}
  Rank <- MCRank2
  Desired = 2
  Reconcilers = {r1}
  Readers = {}
  Writers = {w1}
  NoNode = NoNode
  MergeTries = 1
  MarkTries = 1
  MaxFaults = 1
  MaxUnrest = 4
CHECK_DEADLOCK FALSE
PROPERTIES Repaired
