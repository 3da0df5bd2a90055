SPECIFICATION BuildSpec
CONSTANTS
  Runner = {r1, r2}
  Main = Main
  ChunkRatio = 1
  IntMax = 2
  SizeMod = 64
  Sizes = {0, 1, 3, 4, 7}
  Chunks <- MCChunks
  NrTasks = 3
  Adds <- MCAdds
  Nothing = Nothing
  InitSize = 1
  MaxBuilds = 2
INVARIANTS
  MapComplete
  TidsDistinct
  WritesLand
  UnlocksAsAdded
  RanksRespectUnlocks
PROPERTY
  CallsReturn
