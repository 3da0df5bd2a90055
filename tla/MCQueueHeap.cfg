SPECIFICATION FairSpec
CONSTANTS
  t1 = t1
  t2 = t2
  t3 = t3
  t4 = t4
  t5 = t5
  t6 = t6
  NoTask = NoTask
  SizeInit = 1
  SizeGrow = 2
  Thread = {p1}
  Task <- MCTask
  Weight <- MCWeight
  RingSize = 1
  UIntMod = 2
INVARIANTS
  HeapOrdered
  EntriesMatch
  NullMeansAllTried
PROPERTY
  ScanEnds
