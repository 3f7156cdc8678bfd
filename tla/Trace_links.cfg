SPECIFICATION TraceSpec
CONSTANTS
  Txs <- Tx
  Outputs <- Out
  Addresses = {"w", "other"}
  TxOf <- Of
  Spender <- By
  AddressOf <- Pays
  KindOf <- Kind
  Seeds <- Seed
  Confirmed0 = {"P", "Q", "R"}
  HopChoices = {3}
  StopChoices = {{}, {"w"}}
  OnlyChoices = {{"p"}}
  MaxRuns = 2
  Budgets <- NoLimits
  Unconfirmed = FALSE
  Failures = {"request_limit"}
  InterruptInAdd = FALSE
  NoTx = NoTx
  NoAddress = NoAddress
  None = None
INVARIANTS
  SpentIffLinked
CHECK_DEADLOCK FALSE
