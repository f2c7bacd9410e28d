\* Submission: three requests for two keys race for one account.
SPECIFICATION Spec
CONSTANTS
  Requests = {r1, r2, r3}
  Keys = {k1, k2}
  Users = {alice}
  OwnerOf <- MCNobodys
  Strangers = {}
  Payees = {"lunch"}
  Amounts = {5}
  Asks <- MCLunch
  Offers = {{}}
  FloatError = 1
  MemoOf <- MCSameMemo
  Job = job
  Viewers = {}
  MaxAttempts = 2
  TxWindow = 1
  LedgerTick = 1
  StaleAfter = 9
  EscalateAfter = 9
  LastArrival = 1
  MaxNow = 2
CHECK_DEADLOCK FALSE
INVARIANTS PaidAtMostOnce RefusalIsFinal
PROPERTIES IntentSpec
