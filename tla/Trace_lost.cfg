SPECIFICATION TraceSpec
CONSTANTS
  Txs <- Tx
  Outputs <- Out
  Addresses = {"w", "other"}
  TxOf <- Of
  Spender <- By
  AddressOf <- Pays
  KindOf <- Kind
  Seeds <- Seed
  Confirmed0 = {"P", "Q", "R"}
  HopChoices = {3}
  StopChoices = {{}}
  OnlyChoices = {{"p"}}
  MaxRuns = 2
  Budgets <- NoLimits
  Unconfirmed = FALSE
  Failures = {"interrupted"}
  InterruptInAdd = TRUE
  NoTx = NoTx
  NoAddress = NoAddress
  None = None
INVARIANTS
  EveryChildIsCandidate
CHECK_DEADLOCK FALSE
