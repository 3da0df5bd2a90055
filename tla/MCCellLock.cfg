SPECIFICATION FairSpec
CONSTANTS
  top = top
  left = left
  right = right
  leaf = leaf
  Cell <- MCCell
  Path <- MCPath
  Locker = {p1, p2, p3}
  NoCell = NoCell
INVARIANTS
  TypeOK
  TreeExclusion
  LockWordOwned
  HoldIsCount
PROPERTIES
  ImplementsTreeLock
  SomeCallGranted
