SPECIFICATION AnySpec
CONSTANTS
  a = a
  b = b
  Clients = {a, b}
  Fixed <- Mixed
  Initial = 2
  Slowest = 3
  Idle = 2
  Window = 2
  Enough = 2
  MinHold = 2
  Delays = {0, 3}
  MaxInFlight = 2
  MaxRejections = 2
  None = None
  x = x
  y = y
  r1 = r1
  r2 = r2
  c1 = c1
INVARIANTS
  AllTypesOK
  ClosedIsQuiet
  
PROPERTIES
  NoStartInCooldown
  PacingIsFair
  QuietAfterStop
  RequestsEnd
CHECK_DEADLOCK FALSE
