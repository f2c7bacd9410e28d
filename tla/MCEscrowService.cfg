\* Four requests over two rows, and others at the contract.
SPECIFICATION ServiceSpec
CONSTANTS
  alice = alice
  bob = bob
  Contract = contract
  Accounts <- MCAccounts
  Customers <- MCCustomers
  Calls = {c1, c2, c3, c4}
  Keys = {k1, k2}
  Askers = {p1, p2}
  Tokens = {xlm}
  Amounts = {1}
  Timeouts = {1}
  AuthSets <- MCAuthSets
  Minted = 2
  MaxU32 = 1
  MaxU64 = 2
SYMMETRY MCSymmetry
ACTION_CONSTRAINT AskersFirst
CHECK_DEADLOCK FALSE
INVARIANTS RowsTellTheTruth NoSharedEscrow DepositedOnce OneAccount
PROPERTIES FinalRowsStay
