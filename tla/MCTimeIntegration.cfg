SPECIFICATION Spec
CHECK_DEADLOCK FALSE
CONSTANTS
  T1 = T1
  S1 = S1
  L1 = L1
  L2 = L2
  T2 = T2
  a = a
  b = b
  c = c
  Part = {a, b, c}
  Cell = {T1, S1, L1, L2, T2}
  Super = {S1, T2}
  Parent <- MCParent
  Tasks <- MCTasks
  StarPairs <- MCStarPairs
  Ngb <- MCNgb
  Layouts <- MCLayouts
  NumBins = 4
  Wishes <- MCWishes
  MaxFeedback = 1
  Recouples = FALSE
INVARIANTS
  NoneOverslept
  KicksContiguous
  HalfKicked
  CellTimesExact
  WokenTreated
  NothingLeftFlagged
  LimitKept
PROPERTY
  ReachesEnd
