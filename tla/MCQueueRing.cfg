SPECIFICATION RingFairSpec
CONSTANTS
  Thread = {p1, p2, p3}
  Task = {t1, t2, t3}
  NoTask = NoTask
  RingSize = 2
  UIntMod = 5
INVARIANTS
  TaskInOnePlace
  CountIncomingExact
  NotStranded
PROPERTY
  InsertsFinish
