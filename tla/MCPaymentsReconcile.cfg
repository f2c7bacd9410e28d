\* Reconciliation: Alice buys herself food by a strict receive, and the other
\* user sends her some by a strict send, that may deliver as much; a stranger
\* may pay her too.  The job and one viewer.
SPECIFICATION Spec
CONSTANTS
  Requests = {r1, r2}
  Keys = {k1, k2}
  Users = {"alice", "bob"}
  OwnerOf <- MCAlices
  Strangers = {s1}
  Payees = {"food"}
  Amounts = {10, 11, 19, 20}
  Asks <- MCFood
  Offers <- MCOffers
  FloatError = 1
  MemoOf <- MCSameMemo
  Job = job
  Viewers = {viewer}
  MaxAttempts = 1
  TxWindow = 0
  LedgerTick = 2
  StaleAfter = 1
  EscalateAfter = 9
  LastArrival = 1
  MaxNow = 2
CONSTRAINT MCToAlice
SYMMETRY MCSymmetry
CHECK_DEADLOCK FALSE
INVARIANTS SuccessIsBacked QuoteKept
