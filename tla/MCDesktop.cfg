SPECIFICATION Spec
CONSTANTS
  home = home  user = user  d1 = d1  d2 = d2  f1 = f1  f2 = f2
  x = x  y = y  n1 = n1  w1 = w1
  Root = Root
  NoContent = NoContent
  FileIds = {f1, f2}
  DirIds = {Root, d1, d2}
  Names = {home, user}
  ContentIds = {x, y}
  Nodes = {n1}
  Paths <- MCPaths
  Windows = {w1}
  HomePath <- MCHomePath
  MaxDepth = 3
  MaxGeneration = 3
PROPERTIES SaveReplacesWhatWasShown
