SPECIFICATION FairSpec
CONSTANTS
  alice = alice
  bob = bob
  Contract = contract
  Accounts <- MCAccounts
  Tokens = {xlm, usdc}
  Amounts <- MCAmounts
  Timeouts <- MCTimeouts
  AuthSets <- MCAuthSets
  Minted = 1
  MaxU32 = 2
  MaxU64 = 2
INVARIANTS ContractBalance AccountsBalance IdsInOrder
PROPERTIES FinalIsFinal LifecycleSpec FundsNeverStuck
