\* Liveness: the job settles every row, whatever becomes of handlers and passes.
SPECIFICATION FairSpec
CONSTANTS
  Requests = {r1, r2}
  Keys = {k1, k2}
  Users = {alice}
  OwnerOf <- MCNobodys
  Strangers = {}
  Payees = {"lunch"}
  Amounts = {5}
  Asks <- MCLunch
  Offers = {{}}
  FloatError = 1
  MemoOf <- MCSameMemo
  Job = job
  Viewers = {}
  MaxAttempts = 1
  TxWindow = 0
  LedgerTick = 2
  StaleAfter = 0
  EscalateAfter = 1
  LastArrival = 0
  MaxNow = 2
CHECK_DEADLOCK FALSE
PROPERTIES PendingResolves
