SPECIFICATION TraceSpec
CONSTANTS
  Txs <- Tx
  Outputs <- Out
  Addresses = {"w", "other"}
  TxOf <- Of
  Spender <- By
  AddressOf <- Pays
  KindOf <- Kind
  Seeds <- Seed
  Confirmed0 = {"P", "Q", "R"}
  HopChoices = {3}
  StopChoices = {{}, {"w"}}
  OnlyChoices = {}
  MaxRuns = 4
  Budgets <- NoLimits
  Unconfirmed = FALSE
  Failures = {}
  InterruptInAdd = FALSE
  NoTx = NoTx
  NoAddress = NoAddress
  None = None
INVARIANTS
  BoundIsShortest
CHECK_DEADLOCK FALSE
