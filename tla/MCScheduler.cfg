SPECIFICATION FairSpec
CONSTANTS
  a = a
  b = b
  g = g
  z = z
  r1 = r1
  r2 = r2
  r3 = r3
  Task <- MCTask
  Implicit = {g}
  Unlocks <- MCUnlocks
  Conflicts <- MCConflicts
  Activations <- MCActivations
  Runner = {r1, r2, r3}
  Loader = {l1}
  Queue = {1, 2, 3}
  QueueOf <- MCQueueOf
  Steal = TRUE
  WaitMax = 5
  NoTask = NoTask
  NoThread = NoThread
INVARIANTS
  NoNegativeWait
  WaitingIsInFlight
  HomeMeansDone
PROPERTIES
  ImplementsTaskGraph
  LaunchEndsUnlessSpurned
