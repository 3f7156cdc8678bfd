SPECIFICATION Spec
CONSTANTS
  None = None
  Procs = {p1, p2}
  Boards = {b1, b2}
  Own = {b1}
  Fresh = {q1}
  Updates = {u1}
  MaxEntries = 2
  MaxStarts = 3
  MaxFaults = 0
INVARIANT RegistryIsReadable
CHECK_DEADLOCK FALSE
