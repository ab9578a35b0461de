SPECIFICATION Spec
CONSTANTS
  bundle = bundle
  inner = inner
  Groups = {bundle, inner}
  Up <- MCUp
  Root = root
  None = none
  Nil = nil
  MaxID = 3
  MaxPosts = 3
  MaxFaults = 1
INVARIANTS MemoryIsFile LinksAreOrdered ThreadsAreComplete ParentIsParent
CHECK_DEADLOCK FALSE
