SPECIFICATION FairSpec
\* Three callers, one of them interruptible, bring two jobs and a close.
CONSTANTS
  Threads = {main, w1, w2}
  Interruptible = {main}
  Jobs = {j1, j2}
  NoThread = NoThread
  NoJob = NoJob
  BatchSize = 2
  Capacity = 2
  MaxFaults = 1
  MaxCloses = 2
  MaxCrashes = 1
INVARIANTS
  TypeOK
  AcknowledgedIsDurable
  OrderlyQueue
PROPERTIES
  ImplementsLog
  EveryCallReturns
\* The driver of the store stops once every call has returned.
CHECK_DEADLOCK FALSE
