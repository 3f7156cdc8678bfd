SPECIFICATION AnySpec
CONSTANTS
  None = None
  Procs = {p1, p2}
  Boards = {b1, b2, b3}
  Own = {b1}
  Fresh = {q1}
  Updates = {u1}
  MaxEntries = 2
  MaxStarts = 4
  MaxFaults = 1
  b3 = b3
  k1 = k1
  e1 = e1
  e2 = e2
  d1 = d1
  d2 = d2
  j1 = j1
  j2 = j2
  c1 = c1
  c2 = c2
  r1 = r1
  r2 = r2
  r3 = r3
  s1 = s1
  a1 = a1
  n1 = n1
  t1 = t1
  o1 = o1
  o2 = o2
  z1 = z1
  z2 = z2
  role = role
  red = red
  Opt = Opt
INVARIANTS
  FileTypeOK
  DeletionIsFinal
  OneBoardPerPlot
  FilesAreKept
  JobsAreApart
  
PROPERTIES
  NothingIsRewritten
  WorkEnds
CHECK_DEADLOCK FALSE
