SPECIFICATION FairSpec
CONSTANTS
  n1 = n1  n2 = n2  n3 = n3  r1 = r1  p1 = p1  w1 = w1
  Nodes = {n1, n2}
  Remote = {n2}
  Rank <- MCRank2
  Desired = 2
  Reconcilers = {r1}
  Readers = {}
  Writers = {w1}
  NoNode = NoNode
  MergeTries = 2
  MarkTries = 1
  MaxFaults = 0
  MaxUnrest = 2
CHECK_DEADLOCK FALSE
PROPERTIES Repaired
