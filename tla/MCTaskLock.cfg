SPECIFICATION Spec
CONSTANTS
  top = top
  left = left
  right = right
  Cell <- MCCell
  Path <- MCPath
  Thread = {p1, p2}
  Job <- MCJob
  NoJob = NoJob
SYMMETRY ThreadSymmetry
INVARIANTS
  NoLockLeaked
  ReleasesOwnLocks
  RunningApart
