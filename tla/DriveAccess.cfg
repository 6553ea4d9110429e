SPECIFICATION Spec
CONSTANTS
  Nodes = {root, outer, inner}
  Root = root
  Outer = outer
  Inner = inner
  Manager = u1
  None = None
  MaxDepth = 2
  MaxNamespace = 2
  InitialParent <- MCParent
  InitialPath <- MCPath
  Users = {owner, u1, u2}
  Groups = {g}
  Owner = owner
  InitialMember <- MCMember
  InitialRules <- MCRules
  Shares <- MCShares
  Replacements <- MCReplacements
  Requests <- MCRequests
  MaxRules = 3
  MaxChanges = 2
  MaxMember = 1
  MaxChanged = 1
  MaxRequests = 2
INVARIANTS TypeOK FreshGrantsHold HonouredCapabilitiesHold RootlessRingsHoldNothing
CHECK_DEADLOCK FALSE
