------------------------------- MODULE Escrow -------------------------------
(***************************************************************************)
(* The Soroban escrow contract, contracts/escrow/src/lib.rs, over the      *)
(* token contracts it calls.  Each action is one successful transaction.   *)
(* A call that returns an Err or traps in the token contract is rolled     *)
(* back by the Soroban host, storage and transfers included, so it leaves  *)
(* every variable as it was: the early returns of the code are the guards  *)
(* here.  Reads (get_escrow, version) change nothing.                      *)
(***************************************************************************)
EXTENDS Integers, FiniteSets

CONSTANTS
  Accounts,    \* accounts that pay, are paid, or crank a refund
  Contract,    \* the escrow contract's own address
  Tokens,      \* token contracts
  Amounts,     \* amounts (i128) callers pass to deposit, non-positive ones too
  Timeouts,    \* timeout_ledgers (u32) callers pass to deposit
  AuthSets,    \* sets of accounts that may authorise one transaction
  Minted,      \* what each account holds of each token at first
  MaxU32,      \* u32::MAX, the last ledger sequence
  MaxU64       \* u64::MAX, where the id counter stops

ASSUME AccountsAssumption == Accounts # {} /\ Contract \notin Accounts
ASSUME InputAssumption ==
  /\ Amounts \subseteq Int
  /\ Timeouts \subseteq Nat
  /\ AuthSets \subseteq SUBSET Accounts
ASSUME WidthAssumption == Minted \in Nat /\ MaxU32 \in Nat /\ MaxU64 \in Nat

VARIABLES
  ledger,      \* env.ledger().sequence()
  nextId,      \* DataKey::NextId, 0 when absent
  escrows,     \* DataKey::Escrow(id), None when absent
  balance,     \* the token contracts' balances
  trustlines,  \* <<account, token>> pairs that can receive
  donated,     \* history: what an account sent to the contract outside deposit
  auth         \* history: who authorised the latest transaction

vars == <<ledger, nextId, escrows, balance, trustlines, donated, auth>>

Addresses == Accounts \cup {Contract}
Ids == 0 .. MaxU64 - 1
None == [status |-> "Absent"]
EscrowRecord ==
  [payer : Accounts, payee : Accounts, token : Tokens, amount : Nat \ {0},
   status : {"Locked", "Released", "Refunded"}, timeout_ledger : 0 .. MaxU32]

TypeOK ==
  /\ ledger \in 0 .. MaxU32
  /\ nextId \in 0 .. MaxU64
  /\ escrows \in [Ids -> EscrowRecord \cup {None}]
  /\ balance \in [Tokens -> [Addresses -> Nat]]
  /\ trustlines \subseteq Accounts \X Tokens
  /\ donated \in [Tokens -> [Accounts -> Nat]]
  /\ auth \subseteq Accounts

Init ==
  /\ ledger = 0
  /\ nextId = 0
  /\ escrows = [id \in Ids |-> None]
  /\ balance = [t \in Tokens |-> [a \in Addresses |-> IF a = Contract THEN 0 ELSE Minted]]
  /\ trustlines = Accounts \X Tokens
  /\ donated = [t \in Tokens |-> [a \in Accounts |-> 0]]
  /\ auth = {}

-----------------------------------------------------------------------------
(* The token contracts as the escrow uses them: all or nothing.            *)

TransferAllowed(t, from, to, amount) ==
  /\ balance[t][from] >= amount
  /\ to = Contract \/ <<to, t>> \in trustlines

Transfer(t, from, to, amount) ==
  /\ TransferAllowed(t, from, to, amount)
  /\ LET debited == [balance EXCEPT ![t][from] = @ - amount]
     IN  balance' = [debited EXCEPT ![t][to] = @ + amount]

-----------------------------------------------------------------------------
(* deposit *)

ValidParties(payer, payee) == payer # payee /\ payee # Contract

DeadlineFits(timeout) == ledger + timeout <= MaxU32

\* Mutant: the advanced counter is not saved.
NextIdNotSaved == nextId + 1 <= MaxU64 /\ UNCHANGED nextId

(* next_id: hands out the counter and advances it; fails when it would wrap. *)
AdvanceNextId == nextId + 1 <= MaxU64 /\ nextId' = nextId + 1

Deposit(payer, payee, t, amount, timeout) ==
  /\ amount > 0
  /\ ValidParties(payer, payee)
  /\ payer \in auth'
  /\ DeadlineFits(timeout)
  /\ Transfer(t, payer, Contract, amount)
  /\ AdvanceNextId
  /\ escrows' = [escrows EXCEPT ![nextId] =
       [payer |-> payer, payee |-> payee, token |-> t, amount |-> amount,
        status |-> "Locked", timeout_ledger |-> ledger + timeout]]
  /\ UNCHANGED <<ledger, trustlines, donated>>

-----------------------------------------------------------------------------
(* release and refund *)

\* Mutant: the AlreadyFinalized check is gone.
ExistsOnly(id) == escrows[id] # None

(* require_escrow finds the entry and it is not final yet. *)
RequireLocked(id) == escrows[id].status = "Locked"

\* Mutant: the client of some fixed token is used instead of the escrow's own.
FixedToken(id) == CHOOSE t \in Tokens : TRUE

(* token::Client::new(&env, &escrow.token) *)
TokenClient(id) == escrows[id].token

Finalise(id, status, to) ==
  /\ Transfer(TokenClient(id), Contract, to, escrows[id].amount)
  /\ escrows' = [escrows EXCEPT ![id].status = status]
  /\ UNCHANGED <<ledger, nextId, trustlines, donated>>

Release(id) ==
  /\ RequireLocked(id)
  /\ escrows[id].payer \in auth'
  /\ Finalise(id, "Released", escrows[id].payee)

\* Mutants: the deadline compared one ledger early; auth needed even after it.
RefundAuthorisedEarly(e) == ledger + 1 < e.timeout_ledger => e.payer \in auth'
RefundAlwaysNeedsAuth(e) == e.payer \in auth'

(* require_auth is only called while sequence < timeout_ledger. *)
RefundAuthorised(e) == ledger < e.timeout_ledger => e.payer \in auth'

\* Mutant: the refund goes to the payee.
RefundToPayee(id) ==
  /\ RequireLocked(id)
  /\ RefundAuthorised(escrows[id])
  /\ Finalise(id, "Refunded", escrows[id].payee)

Refund(id) ==
  /\ RequireLocked(id)
  /\ RefundAuthorised(escrows[id])
  /\ Finalise(id, "Refunded", escrows[id].payer)

-----------------------------------------------------------------------------
(* The network around the contract. *)

(* Ledgers close while the contract is idle. *)
CloseLedger ==
  /\ ledger < MaxU32
  /\ ledger' = ledger + 1
  /\ auth' = {}
  /\ UNCHANGED <<nextId, escrows, balance, trustlines, donated>>

(* Anybody can send tokens to the contract's address without depositing. *)
Donate(a, t, amount) ==
  /\ amount > 0
  /\ a \in auth'
  /\ Transfer(t, a, Contract, amount)
  /\ donated' = [donated EXCEPT ![t][a] = @ + amount]
  /\ UNCHANGED <<ledger, nextId, escrows, trustlines>>

(* An account drops an empty trustline, or opens it again. *)
ChangeTrust(a, t) ==
  /\ a \in auth'
  /\ \/ <<a, t>> \in trustlines /\ balance[t][a] = 0
        /\ trustlines' = trustlines \ {<<a, t>>}
     \/ <<a, t>> \notin trustlines /\ trustlines' = trustlines \cup {<<a, t>>}
  /\ UNCHANGED <<ledger, nextId, escrows, balance, donated>>

Transaction ==
  \/ \E payer \in Accounts, payee \in Addresses, t \in Tokens,
        amount \in Amounts, timeout \in Timeouts :
       Deposit(payer, payee, t, amount, timeout)
  \/ \E id \in Ids : Release(id) \/ Refund(id)
  \/ \E a \in Accounts, t \in Tokens :
       ChangeTrust(a, t) \/ \E amount \in Amounts : Donate(a, t, amount)

Next == CloseLedger \/ (auth' \in AuthSets /\ Transaction)

Spec == Init /\ [][Next]_vars

(* Ledgers keep closing, and once a refund needs nobody's authorization    *)
(* somebody calls it (README, "anyone may call it ... so funds are never   *)
(* stuck"); nobody is obliged to authorise anything.                       *)
CrankRefund(id) == auth' = {} /\ Refund(id)
FairSpec == Spec /\ WF_vars(CloseLedger) /\ \A id \in Ids : WF_vars(CrankRefund(id))

-----------------------------------------------------------------------------
(* Safety *)

AmountOf == [id \in Ids |-> IF escrows[id] = None THEN 0 ELSE escrows[id].amount]
EscrowsOf(t, status) ==
  {id \in Ids : escrows[id].status = status /\ escrows[id].token = t}
PaidBy(t, a, status) == {id \in EscrowsOf(t, status) : escrows[id].payer = a}
EarnedBy(t, a) == {id \in EscrowsOf(t, "Released") : escrows[id].payee = a}

(* The sum of amount[x] over S, counted unit by unit: a unit is named by   *)
(* the x it belongs to and its number among those of x.                    *)
Units(amount, S) == UNION {{x} \X (1 .. amount[x]) : x \in S}
Total(amount, S) == Cardinality(Units(amount, S))

(* The contract holds, of every token, exactly what its locked escrows     *)
(* record plus what was sent to it outside deposit: no sequence of         *)
(* deposits, releases and refunds over several tokens over- or underpays   *)
(* (test_edge.rs, contract_balance_always_equals_the_sum_of_locked_escrows). *)
ContractBalance ==
  \A t \in Tokens : balance[t][Contract] =
    Total(AmountOf, EscrowsOf(t, "Locked")) + Total(donated[t], Accounts)

(* Every account holds what it was minted, less its locked and released    *)
(* deposits, plus what was released to it: a refund returns all of the     *)
(* deposit to the account that made it, a release pays the payee once.     *)
AccountsBalance ==
  \A t \in Tokens, a \in Accounts :
    balance[t][a] = Minted - donated[t][a] + Total(AmountOf, EarnedBy(t, a))
                    - Total(AmountOf, PaidBy(t, a, "Locked"))
                    - Total(AmountOf, PaidBy(t, a, "Released"))

(* Ids are handed out in order without gaps: an entry exists exactly for   *)
(* the ids below the counter, so a failed deposit consumes no id and a     *)
(* successful one never lands on an existing escrow.                       *)
IdsInOrder == \A id \in Ids : escrows[id] = None <=> id >= nextId

(* A final escrow never changes again, and the terms of an escrow, final   *)
(* or not, are those its payer deposited under ("a terminal status never   *)
(* transitions again", contracts/escrow/README.md).                        *)
FinalIsFinal ==
  [][\A id \in Ids : escrows[id] # None =>
       /\ escrows'[id] # None
       /\ [escrows'[id] EXCEPT !.status = "Locked"] = [escrows[id] EXCEPT !.status = "Locked"]
       /\ escrows[id].status # "Locked" => escrows'[id] = escrows[id]]_vars

(* The contract implements the life cycle it documents: nobody but the     *)
(* payer closes an escrow before its deadline, and nobody but the payer    *)
(* ever has it paid to the payee.                                          *)
Phase == [id \in Ids |-> escrows[id].status]
SomeAccount == CHOOSE a \in Accounts : TRUE
PayerOf == [id \in Ids |-> IF escrows[id] = None THEN SomeAccount ELSE escrows[id].payer]
DeadlineOf == [id \in Ids |-> IF escrows[id] = None THEN 0 ELSE escrows[id].timeout_ledger]
Lifecycle == INSTANCE EscrowLifecycle WITH
  Parties <- Accounts, now <- ledger, phase <- Phase,
  payer <- PayerOf, deadline <- DeadlineOf
LifecycleSpec == Lifecycle!Spec

-----------------------------------------------------------------------------
(* Liveness *)

LockedBy(id, a, t) ==
  escrows[id].status = "Locked" /\ escrows[id].payer = a /\ escrows[id].token = t

(* Funds are never stuck if the payer goes silent: a locked escrow is      *)
(* eventually final even if its payer never signs again, provided the      *)
(* payer's account can receive the token from some point on.               *)
FundsNeverStuck ==
  \A a \in Accounts, t \in Tokens :
    <>[](<<a, t>> \in trustlines) =>
      \A id \in Ids : LockedBy(id, a, t) ~> ~LockedBy(id, a, t)
=============================================================================
