SPECIFICATION NamespaceSpec
CONSTANTS
  Nodes = {root, a, b, c, d}
  Root = root
  None = None
  MaxDepth = 3
  MaxNamespace = 9
  InitialParent <- MCParent
  InitialPath <- MCPath
INVARIANTS AncestryExact NoCycle TrashRooted
PROPERTY TrashedApart
CHECK_DEADLOCK FALSE
