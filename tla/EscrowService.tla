---------------------------- MODULE EscrowService ----------------------------
(***************************************************************************)
(* EscrowService of apps/api over the escrow contract: calls that deposit, *)
(* release and refund on a user's behalf, the escrows table, and the       *)
(* transactions they submit, which the network includes, drops or keeps    *)
(* after the call that sent them has given up.  Every inclusion is a call  *)
(* of the contract as Escrow models it; other accounts use the contract    *)
(* too.  Nothing in the code reads the chain again once a call is over.    *)
(* A deposit first asks for the customer's account, which several requests *)
(* may do at a time (Accounts); there is one customer's account to make.   *)
(***************************************************************************)
EXTENDS Escrow

CONSTANTS
  Calls,     \* HTTP requests to /escrows
  Keys,      \* idempotency keys, one per row
  Customers, \* accounts the service holds the keys of
  Askers     \* bound: requests that ask for the account

ASSUME CustomersAssumption ==
  Customers \subseteq Accounts /\ \A a \in Accounts : {a} \in AuthSets
ASSUME CrankAssumption == {} \in AuthSets

VARIABLES
  rows,   \* escrows table, by its unique idempotency_key
  calls,  \* the handlers
  txs,    \* what became of the transaction of each call
  account, asking, funded   \* of Accounts

Provision == INSTANCE Accounts WITH Calls <- Askers, Testnet <- TRUE

ASSUME AskersAssumption == Provision!NoKey \notin Askers

serviceVars == <<rows, calls, txs>>
accountVars == <<account, asking, funded>>
allVars == <<vars, serviceVars, accountVars>>

NoRow == [status |-> "Absent"]
NoId == MaxU64
RowStatus == {"PENDING", "LOCKED", "RELEASED", "REFUNDED", "FAILED"}
Row == [status : RowStatus, payer : Customers, payee : Addresses, token : Tokens,
        amount : Amounts, id : Ids \cup {NoId}, timeoutLedger : 0 .. MaxU32]
(* The request, its row, and for release and refund the id read from it.   *)
NoCall == [pc |-> "new"]
Call == [pc : {"ready", "sent", "confirmed", "failing", "done"}, key : Keys,
         kind : {"deposit", "release", "refund"}, id : Ids \cup {NoId}, timeout : Timeouts \cup {0}]
Unsent == [state |-> "unsent", id |-> NoId]
TxState == [state : {"unsent", "flying", "dropped", "applied"}, id : Ids \cup {NoId}]

ServiceTypeOK ==
  /\ Provision!AccountsTypeOK
  /\ rows \in [Keys -> Row \cup {NoRow}]
  /\ calls \in [Calls -> Call \cup {NoCall}]
  /\ txs \in [Calls -> TxState]

ServiceInit ==
  /\ Init
  /\ Provision!AccountsInit
  /\ rows = [k \in Keys |-> NoRow]
  /\ calls = [c \in Calls |-> NoCall]
  /\ txs = [c \in Calls |-> Unsent]

Goto(c, pc) == calls' = [calls EXCEPT ![c].pc = pc]
RowOf(c) == rows[calls[c].key]
UpdateStatus(c, row) == rows' = [rows EXCEPT ![calls[c].key] = row]

-----------------------------------------------------------------------------
(* depositForUser up to the submission *)

\* Mutant: a key already used makes a new row.
KeyAlwaysUnused(k) == TRUE
KeyUnused(k) == rows[k] = NoRow

CreateRow(c, k) ==
  /\ calls[c] = NoCall
  /\ account # Provision!NoKey
  /\ KeyUnused(k)
  /\ \E payer \in Customers, payee \in Addresses, t \in Tokens,
        amount \in Amounts, timeout \in Timeouts :
       /\ rows' = [rows EXCEPT ![k] =
            [status |-> "PENDING", payer |-> payer, payee |-> payee, token |-> t,
             amount |-> amount, id |-> NoId, timeoutLedger |-> 0]]
       /\ calls' = [calls EXCEPT ![c] =
            [pc |-> "ready", key |-> k, kind |-> "deposit", id |-> NoId, timeout |-> timeout]]
  /\ UNCHANGED <<vars, txs>>

(* getOwnedEscrow: the row is read once, before the call goes on to wallet *)
(* and network.                                                            *)
GetOwnedEscrow(c, k, kind) ==
  /\ calls[c] = NoCall
  /\ calls' = [calls EXCEPT ![c] =
       [pc |-> "ready", key |-> k, kind |-> kind, id |-> rows[k].id, timeout |-> 0]]
  /\ UNCHANGED <<vars, rows, txs>>

(* Retries of a deposit, and calls on rows in another state, are answered  *)
(* from the row and change nothing.                                        *)
ReleaseForUser(c, k) ==
  /\ rows[k].status = "LOCKED"
  /\ rows[k].id # NoId
  /\ GetOwnedEscrow(c, k, "release")

RefundForUser(c, k) ==
  /\ rows[k].status = "LOCKED"
  /\ rows[k].id # NoId
  /\ GetOwnedEscrow(c, k, "refund")

-----------------------------------------------------------------------------
(* submitInvocation *)

Submit(c) ==
  /\ calls[c].pc = "ready"
  /\ Goto(c, "sent")
  /\ txs' = [txs EXCEPT ![c].state = "flying"]
  /\ UNCHANGED <<vars, rows>>

\* Mutant: a transaction the network accepted counts as applied.
AcceptedOnly(c) == txs[c].state \in {"flying", "applied"}
(* getTransaction answers SUCCESS.                                         *)
Applied(c) == txs[c].state = "applied"

Confirm(c) ==
  /\ calls[c].pc = "sent"
  /\ Applied(c)
  /\ Goto(c, "confirmed")
  /\ UNCHANGED <<vars, rows, txs>>

(* Every error ends a deposit in its catch block and any other call at     *)
(* once: nothing could be built, the submission or the execution failed,   *)
(* a request got no answer, polling timed out, getEscrow found nothing.    *)
Fail(c) ==
  /\ calls[c].pc \in {"ready", "sent", "confirmed"}
  /\ Goto(c, IF calls[c].kind = "deposit" THEN "failing" ELSE "done")
  /\ UNCHANGED <<vars, rows, txs>>

-----------------------------------------------------------------------------
(* What the call makes of the answer *)

\* Mutant: the newest escrow is taken for the one just made.
NewestId(c) == IF nextId = 0 THEN NoId ELSE nextId - 1
ReturnedId(c) == txs[c].id

(* getEscrow: a simulated read, which fails when there is no such entry;   *)
(* of its record the service uses the deadline the ledger fixed.           *)
SimulateReadOnly(id) == id \in Ids /\ escrows[id] # None
ToEscrowRecord(raw) == [timeoutLedger |-> raw.timeout_ledger]
GetEscrow(id) == ToEscrowRecord(escrows[id])

WriteLocked(c) ==
  /\ calls[c].pc = "confirmed" /\ calls[c].kind = "deposit"
  /\ SimulateReadOnly(ReturnedId(c))
  /\ UpdateStatus(c, [RowOf(c) EXCEPT !.status = "LOCKED", !.id = ReturnedId(c),
                        !.timeoutLedger = GetEscrow(ReturnedId(c)).timeoutLedger])
  /\ Goto(c, "done")
  /\ UNCHANGED <<vars, txs>>

WriteReleased(c) ==
  /\ calls[c].pc = "confirmed" /\ calls[c].kind = "release"
  /\ UpdateStatus(c, [RowOf(c) EXCEPT !.status = "RELEASED"])
  /\ Goto(c, "done")
  /\ UNCHANGED <<vars, txs>>

WriteRefunded(c) ==
  /\ calls[c].pc = "confirmed" /\ calls[c].kind = "refund"
  /\ UpdateStatus(c, [RowOf(c) EXCEPT !.status = "REFUNDED"])
  /\ Goto(c, "done")
  /\ UNCHANGED <<vars, txs>>

WriteFailed(c) ==
  /\ calls[c].pc = "failing"
  /\ UpdateStatus(c, [RowOf(c) EXCEPT !.status = "FAILED"])
  /\ Goto(c, "done")
  /\ UNCHANGED <<vars, txs>>

(* The process dies, or no wallet or database answers outside a try block. *)
Abandon(c) ==
  /\ calls[c].pc \in {"ready", "sent", "confirmed", "failing"}
  /\ Goto(c, "done")
  /\ UNCHANGED <<vars, rows, txs>>

-----------------------------------------------------------------------------
(* The network *)

(* The invocations of the contract, each with the id it stands for after.  *)
Land(c, id) == txs' = [txs EXCEPT ![c] = [state |-> "applied", id |-> id]]

DepositToEscrow(c) ==
  LET row == RowOf(c) IN
  /\ calls[c].kind = "deposit"
  /\ Deposit(row.payer, row.payee, row.token, row.amount, calls[c].timeout)
  /\ Land(c, nextId)

ReleaseEscrow(c) ==
  /\ calls[c].kind = "release"
  /\ Release(calls[c].id)
  /\ Land(c, calls[c].id)

RefundEscrow(c) ==
  /\ calls[c].kind = "refund"
  /\ Refund(calls[c].id)
  /\ Land(c, calls[c].id)

(* The ledger includes the transaction, signed by the row's payer, and the *)
(* contract call succeeds.                                                 *)
Include(c) ==
  /\ txs[c].state = "flying"
  /\ auth' = {RowOf(c).payer}
  /\ DepositToEscrow(c) \/ ReleaseEscrow(c) \/ RefundEscrow(c)
  /\ UNCHANGED <<rows, calls>>

(* It expires, loses its sequence number, or fails on chain.               *)
Drop(c) ==
  /\ txs[c].state = "flying"
  /\ txs' = [txs EXCEPT ![c].state = "dropped"]
  /\ UNCHANGED <<vars, rows, calls>>

(* The contract used by others: whoever refunds an escrow timed out, and   *)
(* accounts that deposit by themselves.                                    *)
Outside ==
  /\ \/ CloseLedger
     \/ \E id \in Ids : CrankRefund(id)
     \/ \E a \in Accounts \ Customers, payee \in Accounts, t \in Tokens,
           amount \in Amounts, timeout \in Timeouts :
          auth' = {a} /\ Deposit(a, payee, t, amount, timeout)
  /\ UNCHANGED serviceVars

ServiceStep ==
  \/ \E c \in Calls, k \in Keys :
       CreateRow(c, k) \/ ReleaseForUser(c, k) \/ RefundForUser(c, k)
  \/ \E c \in Calls :
       Submit(c) \/ Confirm(c) \/ Fail(c) \/ WriteLocked(c) \/ WriteReleased(c)
       \/ WriteRefunded(c) \/ WriteFailed(c) \/ Abandon(c) \/ Include(c) \/ Drop(c)
  \/ Outside

ServiceNext ==
  \/ ServiceStep /\ UNCHANGED accountVars
  \/ Provision!AccountsNext /\ UNCHANGED <<vars, serviceVars>>

ServiceSpec == ServiceInit /\ [][ServiceNext]_allVars

-----------------------------------------------------------------------------
(* Properties *)

(* A row that says LOCKED, RELEASED or REFUNDED names an escrow on chain   *)
(* of the row's own terms and deadline, and a final row tells what became  *)
(* of it.  (A LOCKED row does not: its escrow may be long gone.)           *)
RowsTellTheTruth ==
  \A k \in Keys : rows[k].status \in {"LOCKED", "RELEASED", "REFUNDED"} =>
    LET row == rows[k]  escrow == escrows[row.id] IN
    /\ row.id \in Ids /\ escrow # None
    /\ <<escrow.payer, escrow.payee, escrow.token, escrow.amount, escrow.timeout_ledger>>
         = <<row.payer, row.payee, row.token, row.amount, row.timeoutLedger>>
    /\ row.status = "RELEASED" => escrow.status = "Released"
    /\ row.status = "REFUNDED" => escrow.status = "Refunded"

(* Two rows never stand for one escrow.                                    *)
NoSharedEscrow ==
  \A j, k \in Keys :
    rows[j].status \in RowStatus /\ rows[k].status \in RowStatus /\ rows[j].id # NoId
      /\ rows[j].id = rows[k].id => j = k

(* A retry with the same idempotencyKey does not deposit twice, whatever   *)
(* became of the first attempt.                                            *)
DepositedOnce ==
  \A c, d \in Calls :
    /\ txs[c].state = "applied" /\ calls[c].kind = "deposit"
    /\ txs[d].state = "applied" /\ calls[d].kind = "deposit"
    /\ calls[c].key = calls[d].key
    => c = d

(* A row that became final keeps its status, although release and refund   *)
(* write it without looking: the contract lets one of them through.        *)
FinalRowsStay ==
  [][\A k \in Keys : rows[k].status \in {"RELEASED", "REFUNDED"} => rows'[k] = rows[k]]_allVars

(* Concurrent first uses of an account agree: whoever was told a key was   *)
(* told the one the row keeps, and that key has been funded.               *)
OneAccount == Provision!OneAccount
=============================================================================
