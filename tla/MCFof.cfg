SPECIFICATION FairSpec
CONSTANTS
  ab = ab
  cd = cd
  ef = ef
  ac = ac
  ce = ce
  Particle = {0, 1, 2, 3, 4, 5, 6}
  Thread = {p1, p2, p3}
  Task <- MCTask
  Cells <- MCCells
  Rows <- MCRows
  Linked <- MCLinked
  NoTask = NoTask
INVARIANTS
  LinksDescend
  OnlyFriends
  UnionsKeptUnlessRaced
PROPERTY
  SearchEnds
