SPECIFICATION RunsSpec
CONSTANTS
  Txs <- Tx
  Outputs <- Out
  Addresses = {"w", "other"}
  TxOf <- Of
  Spender <- By
  AddressOf <- Pays
  KindOf <- KindFee
  Seeds <- Seed
  Confirmed0 = {"P", "Q", "R", "T"}
  HopChoices = {2}
  StopChoices = {{}, {"w"}}
  OnlyChoices = {{"p"}, {"q"}}
  MaxRuns = 2
  Budgets <- SomeLimits
  Unconfirmed = FALSE
  Failures = {"interrupted"}
  InterruptInAdd = FALSE
  NoTx = NoTx
  NoAddress = NoAddress
  None = None
INVARIANTS
  TypeOK
  WorkIsKept
  ScopeHolds
  EveryChildIsCandidate
  SearchTypeOK
  ReportsAreHonest
PROPERTIES
  ResultsAreExact
  EveryRunEnds
CHECK_DEADLOCK FALSE
