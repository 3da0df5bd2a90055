SPECIFICATION FetchSpec
CONSTANTS
  top = top
  c1 = c1
  c2 = c2
  c3 = c3
  x = x
  y = y
  r1 = r1
  r2 = r2
  r3 = r3
  Cell <- MCCell
  Path <- MCPath
  Locker <- MCLocker
  NoCell = NoCell
  Runner = {r1, r2, r3}
  Task = {x, y}
  Ci <- MCCi
  Cj <- MCCj
  Queue = {1, 2, 3}
  QueueOf <- MCQueueOf
  FirstIn <- MCFirstIn
  Steal = TRUE
  MaxTries = 2
  NoTask = NoTask
  NoRunner = NoRunner
INVARIANTS
  SomeoneAwake
CONSTRAINT
  ThiefIsLate
