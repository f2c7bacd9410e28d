------------------------- MODULE EscrowServiceProofs -------------------------
(***************************************************************************)
(* Proofs about EscrowService for any requests, keys, accounts and bounds: *)
(* the service is a lawful user of the contract, so all that EscrowProofs  *)
(* says of the contract holds under it; its rows tell the truth; an        *)
(* idempotency key deposits once; a final row stays; and concurrent first  *)
(* uses of an account agree on one key.                                    *)
(***************************************************************************)
EXTENDS EscrowService, EscrowProofs

-----------------------------------------------------------------------------
(* The inductive invariant: what ties a call to its row, its transaction   *)
(* and the escrow on chain.                                                *)

IsDeposit(c) == calls[c] # NoCall /\ calls[c].kind = "deposit"
IsClosing(c) == calls[c] # NoCall /\ calls[c].kind # "deposit"
Deposited(c) == IsDeposit(c) /\ txs[c].state = "applied"
Terms(e) == <<e.payer, e.payee, e.token, e.amount>>
Outcome(kind) == IF kind = "release" THEN "Released" ELSE "Refunded"

(* A call has a row, and knows no more of its transaction than is true.    *)
CallsTracked == \A c \in Calls :
  /\ calls[c] = NoCall => txs[c] = Unsent
  /\ calls[c] # NoCall => rows[calls[c].key] # NoRow
  /\ calls[c].pc = "ready" => txs[c].state = "unsent"
  /\ calls[c].pc = "confirmed" => txs[c].state = "applied"
  /\ calls[c].pc = "failing" => IsDeposit(c)
  /\ IsDeposit(c) => calls[c].timeout \in Timeouts

(* A row has one deposit call, the one that created it.                    *)
OneDepositPerKey == \A c, d \in Calls :
  IsDeposit(c) /\ IsDeposit(d) /\ calls[c].key = calls[d].key => c = d

(* A deposit that was applied made an escrow of its row's terms ...        *)
DepositsMade == \A c \in Calls : Deposited(c) =>
  /\ txs[c].id \in Ids /\ escrows[txs[c].id] # None
  /\ Terms(escrows[txs[c].id]) = Terms(RowOf(c))

(* ... of its own.                                                         *)
DepositsDiffer == \A c, d \in Calls :
  Deposited(c) /\ Deposited(d) /\ txs[c].id = txs[d].id => c = d

(* The id and deadline of a row come from its deposit, which is over; a    *)
(* final row says what the escrow became.                                  *)
RowKnown(k) ==
  /\ rows[k].status \in {"LOCKED", "RELEASED", "REFUNDED"} <=> rows[k].id # NoId
  /\ rows[k].id # NoId =>
       /\ \E c \in Calls : /\ Deposited(c) /\ calls[c].pc = "done"
                           /\ calls[c].key = k /\ txs[c].id = rows[k].id
       /\ rows[k].timeoutLedger = escrows[rows[k].id].timeout_ledger
  /\ rows[k].status = "RELEASED" => escrows[rows[k].id].status = "Released"
  /\ rows[k].status = "REFUNDED" => escrows[rows[k].id].status = "Refunded"
RowsKnown == \A k \in Keys : rows[k] # NoRow => RowKnown(k)

(* A release or refund has its row's id, and once applied its outcome.     *)
ClosingsKnown == \A c \in Calls : IsClosing(c) =>
  /\ calls[c].id # NoId /\ RowOf(c).id = calls[c].id
  /\ txs[c].state = "applied" => escrows[calls[c].id].status = Outcome(calls[c].kind)

Linked ==
  /\ CallsTracked
  /\ OneDepositPerKey
  /\ DepositsMade
  /\ DepositsDiffer
  /\ RowsKnown
  /\ ClosingsKnown

EscrowTables ==
  /\ rows \in [Keys -> Row \cup {NoRow}]
  /\ calls \in [Calls -> Call \cup {NoCall}]
  /\ txs \in [Calls -> TxState]

ServiceInv == TypeOK /\ IdsInOrder /\ EscrowTables /\ Linked

(* What is not absent is a full record.                                    *)
LEMMA RowTyped ==
  ASSUME EscrowTables, NEW k \in Keys, rows[k] # NoRow
  PROVE  rows[k] \in Row
BY DEF EscrowTables

LEMMA CallTyped ==
  ASSUME EscrowTables, NEW c \in Calls, calls[c] # NoCall
  PROVE  calls[c] \in Call /\ calls[c].key \in Keys
BY DEF EscrowTables, Call

(* A transaction under way or applied belongs to a call that has a row.    *)
LEMMA SentHasRow ==
  ASSUME EscrowTables, CallsTracked, NEW c \in Calls, txs[c].state # "unsent"
  PROVE  calls[c] \in Call /\ RowOf(c) \in Row
<1>1. calls[c] # NoCall
  BY DEF CallsTracked, Unsent
<1>2. calls[c] \in Call /\ calls[c].key \in Keys
  BY <1>1, CallTyped
<1>3. rows[calls[c].key] # NoRow
  BY <1>1 DEF CallsTracked
<1> QED BY <1>2, <1>3, RowTyped DEF RowOf

-----------------------------------------------------------------------------
(* The service uses the contract as anybody may. *)

LEMMA IncludeIsTransaction ==
  ASSUME ServiceInv, NEW c \in Calls, Include(c)
  PROVE  Next
<1> USE CustomersAssumption, CrankAssumption
<1>1. calls[c] \in Call /\ RowOf(c) \in Row
  BY SentHasRow DEF Include, ServiceInv, Linked
<1>2. /\ RowOf(c).payer \in Accounts /\ RowOf(c).payee \in Addresses
      /\ RowOf(c).token \in Tokens /\ RowOf(c).amount \in Amounts
      /\ auth' \in AuthSets
  BY <1>1 DEF Row, Include
<1>3. calls[c] # NoCall
  BY <1>1 DEF Call, NoCall
<1>4. CASE DepositToEscrow(c)
  <2>1. calls[c].timeout \in Timeouts
    BY <1>3, <1>4 DEF DepositToEscrow, ServiceInv, Linked, CallsTracked, IsDeposit
  <2>2. Deposit(RowOf(c).payer, RowOf(c).payee, RowOf(c).token, RowOf(c).amount,
                calls[c].timeout)
    BY <1>4 DEF DepositToEscrow
  <2> QED BY <1>2, <2>1, <2>2 DEF Next, Transaction
<1>5. CASE ReleaseEscrow(c) \/ RefundEscrow(c)
  <2>1. calls[c].id # NoId
    BY <1>3, <1>5 DEF ReleaseEscrow, RefundEscrow, ServiceInv, Linked, ClosingsKnown, IsClosing
  <2>2. calls[c].id \in Ids
    BY <1>1, <2>1 DEF Call
  <2>3. Release(calls[c].id) \/ Refund(calls[c].id)
    BY <1>5 DEF ReleaseEscrow, RefundEscrow
  <2> QED BY <1>2, <2>2, <2>3 DEF Next, Transaction
<1> QED BY <1>4, <1>5 DEF Include

LEMMA OutsideIsTransaction ==
  ASSUME Outside
  PROVE  Next
<1> USE CustomersAssumption, CrankAssumption
<1>1. CASE CloseLedger
  BY <1>1 DEF Next
<1>2. CASE \E id \in Ids : CrankRefund(id)
  BY <1>2 DEF CrankRefund, Next, Transaction
<1>3. CASE \E a \in Accounts \ Customers, payee \in Accounts, t \in Tokens,
              amount \in Amounts, timeout \in Timeouts :
             auth' = {a} /\ Deposit(a, payee, t, amount, timeout)
  BY <1>3 DEF Addresses, Next, Transaction
<1> QED BY <1>1, <1>2, <1>3 DEF Outside

LEMMA ContractStep == ServiceInv /\ [ServiceNext]_allVars => [Next]_vars
<1> SUFFICES ASSUME ServiceInv, [ServiceNext]_allVars PROVE [Next]_vars
  OBVIOUS
<1>1. CASE UNCHANGED vars
  BY <1>1
<1>2. ASSUME NEW c \in Calls, Include(c)
      PROVE  Next
  BY <1>2, IncludeIsTransaction
<1>3. CASE Outside
  BY <1>3, OutsideIsTransaction
<1>4. ASSUME NEW c \in Calls, NEW k \in Keys,
             CreateRow(c, k) \/ ReleaseForUser(c, k) \/ RefundForUser(c, k)
      PROVE  UNCHANGED vars
  BY <1>4 DEF CreateRow, ReleaseForUser, RefundForUser, GetOwnedEscrow
<1>5. ASSUME NEW c \in Calls,
             \/ Submit(c) \/ Confirm(c) \/ Fail(c) \/ WriteLocked(c) \/ WriteReleased(c)
             \/ WriteRefunded(c) \/ WriteFailed(c) \/ Abandon(c) \/ Drop(c)
      PROVE  UNCHANGED vars
  BY <1>5 DEF Submit, Confirm, Fail, WriteLocked, WriteReleased, WriteRefunded,
              WriteFailed, Abandon, Drop
<1> QED
  BY <1>1, <1>2, <1>3, <1>4, <1>5 DEF ServiceNext, ServiceStep, allVars

(* An existing entry keeps its terms and deadline, and its final status.   *)
LEMMA TermsKept ==
  ASSUME TypeOK, IdsInOrder, [Next]_vars, NEW i \in Ids, escrows[i] # None
  PROVE  /\ escrows'[i] # None /\ Terms(escrows'[i]) = Terms(escrows[i])
         /\ escrows'[i].timeout_ledger = escrows[i].timeout_ledger
         /\ escrows[i].status # "Locked" => escrows'[i].status = escrows[i].status
<1>1. /\ escrows'[i] # None
      /\ [escrows'[i] EXCEPT !.status = "Locked"] = [escrows[i] EXCEPT !.status = "Locked"]
      /\ escrows[i].status # "Locked" => escrows'[i] = escrows[i]
  BY EntryKept
<1>2. escrows[i] \in EscrowRecord /\ escrows'[i] \in EscrowRecord
  BY <1>1, TypeKept DEF TypeOK
<1> QED BY <1>1, <1>2 DEF EscrowRecord, Terms

-----------------------------------------------------------------------------
(* Every step keeps the tables and what links them. *)

(* The contract moves, the service does not. *)
LEMMA LinkedUnderChain ==
  ASSUME ServiceInv, [Next]_vars, UNCHANGED serviceVars
  PROVE  EscrowTables' /\ Linked'
<1> USE DEF ServiceInv, Linked, serviceVars
<1>1. EscrowTables' /\ CallsTracked' /\ OneDepositPerKey' /\ DepositsDiffer'
  BY DEF EscrowTables, CallsTracked, OneDepositPerKey, DepositsDiffer, Deposited, IsDeposit
<1>2. ASSUME NEW c \in Calls, Deposited(c)
      PROVE  /\ txs[c].id \in Ids /\ escrows'[txs[c].id] # None
             /\ Terms(escrows'[txs[c].id]) = Terms(RowOf(c))
  BY <1>2, TermsKept DEF DepositsMade
<1>3. DepositsMade'
  BY <1>2 DEF DepositsMade, Deposited, IsDeposit, RowOf
<1>4. ASSUME NEW k \in Keys, rows[k] # NoRow, rows[k].id # NoId
      PROVE  /\ rows[k].id \in Ids /\ escrows[rows[k].id] # None
             /\ escrows'[rows[k].id].timeout_ledger = escrows[rows[k].id].timeout_ledger
             /\ escrows[rows[k].id].status # "Locked" =>
                  escrows'[rows[k].id].status = escrows[rows[k].id].status
  <2>1. rows[k].id \in Ids /\ escrows[rows[k].id] # None
    BY <1>4 DEF RowsKnown, RowKnown, DepositsMade
  <2> QED BY <2>1, TermsKept
<1>5. RowsKnown'
  <2> SUFFICES ASSUME NEW k \in Keys, rows[k] # NoRow PROVE RowKnown(k)'
    BY DEF RowsKnown
  <2>1. RowKnown(k)
    BY DEF RowsKnown
  <2> QED BY <1>4, <2>1 DEF RowKnown, Deposited, IsDeposit
<1>6. ClosingsKnown'
  <2> SUFFICES ASSUME NEW c \in Calls, IsClosing(c)
               PROVE  /\ calls[c].id # NoId /\ RowOf(c).id = calls[c].id
                      /\ txs[c].state = "applied" =>
                           escrows'[calls[c].id].status = Outcome(calls[c].kind)
    BY DEF ClosingsKnown, IsClosing, RowOf, Outcome
  <2>1. /\ calls[c].id # NoId /\ RowOf(c).id = calls[c].id
        /\ txs[c].state = "applied" => escrows[calls[c].id].status = Outcome(calls[c].kind)
    BY DEF ClosingsKnown
  <2>2. calls[c].key \in Keys /\ rows[calls[c].key] # NoRow
    BY CallTyped DEF IsClosing, CallsTracked
  <2> QED BY <1>4, <2>1, <2>2 DEF Outcome, RowOf
<1> QED BY <1>1, <1>3, <1>5, <1>6

(* A new row, and the call that is going to deposit for it. *)
LEMMA LinkedAfterCreate ==
  ASSUME ServiceInv, NEW c \in Calls, NEW k \in Keys, CreateRow(c, k)
  PROVE  EscrowTables' /\ Linked'
<1> USE DEF ServiceInv, Linked
<1>1. PICK payer \in Customers, payee \in Addresses, t \in Tokens,
           amount \in Amounts, timeout \in Timeouts :
        /\ rows' = [rows EXCEPT ![k] =
             [status |-> "PENDING", payer |-> payer, payee |-> payee, token |-> t,
              amount |-> amount, id |-> NoId, timeoutLedger |-> 0]]
        /\ calls' = [calls EXCEPT ![c] =
             [pc |-> "ready", key |-> k, kind |-> "deposit", id |-> NoId, timeout |-> timeout]]
  BY DEF CreateRow
<1>2. calls[c] = NoCall /\ rows[k] = NoRow /\ txs' = txs /\ escrows' = escrows
  BY DEF CreateRow, KeyUnused, vars
<1>3. EscrowTables'
  <2>1. rows'[k] \in Row
    BY <1>1, WidthAssumption DEF EscrowTables, Row, RowStatus
  <2>2. calls'[c] \in Call
    BY <1>1 DEF EscrowTables, Call
  <2> QED BY <1>1, <1>2, <2>1, <2>2 DEF EscrowTables
<1>4. /\ calls'[c] = [pc |-> "ready", key |-> k, kind |-> "deposit", id |-> NoId,
                      timeout |-> timeout]
      /\ calls'[c] # NoCall
      /\ \A d \in Calls \ {c} : calls'[d] = calls[d]
  BY <1>1 DEF EscrowTables, NoCall
<1>5. /\ rows'[k] = [status |-> "PENDING", payer |-> payer, payee |-> payee, token |-> t,
                     amount |-> amount, id |-> NoId, timeoutLedger |-> 0]
      /\ rows'[k] # NoRow
      /\ \A j \in Keys \ {k} : rows'[j] = rows[j]
  BY <1>1 DEF EscrowTables, NoRow
<1>6. txs[c].state = "unsent"
  BY <1>2 DEF CallsTracked, Unsent
<1>7. \A d \in Calls \ {c} : calls[d] # NoCall => calls[d].key \in Keys \ {k}
  BY <1>2, CallTyped DEF CallsTracked
<1>8. \A d \in Calls : Deposited(d)' <=> Deposited(d)
  BY <1>2, <1>4, <1>6 DEF Deposited, IsDeposit
<1>9. CallsTracked'
  BY <1>2, <1>4, <1>5, <1>6, <1>7 DEF CallsTracked, IsDeposit
<1>10. OneDepositPerKey'
  BY <1>4, <1>7 DEF OneDepositPerKey, IsDeposit
<1>11. DepositsMade'
  BY <1>2, <1>4, <1>5, <1>6, <1>7, <1>8 DEF DepositsMade, RowOf, Deposited, IsDeposit
<1>12. DepositsDiffer'
  BY <1>2, <1>8 DEF DepositsDiffer
<1>13. RowsKnown'
  <2> SUFFICES ASSUME NEW j \in Keys, rows'[j] # NoRow PROVE RowKnown(j)'
    BY DEF RowsKnown
  <2>1. CASE j = k
    BY <1>5, <2>1 DEF RowKnown
  <2>2. CASE j # k
    <3>1. rows'[j] = rows[j] /\ RowKnown(j)
      BY <1>5, <2>2 DEF RowsKnown
    <3>2. \A d \in Calls : Deposited(d) /\ calls[d].pc = "done" => calls'[d] = calls[d]
      BY <1>4, <1>6 DEF Deposited
    <3> QED BY <1>2, <1>8, <3>1, <3>2 DEF RowKnown
  <2> QED BY <2>1, <2>2
<1>14. ClosingsKnown'
  BY <1>2, <1>4, <1>5, <1>7 DEF ClosingsKnown, IsClosing, RowOf
<1> QED BY <1>3, <1>9, <1>10, <1>11, <1>12, <1>13, <1>14

(* A release or refund that found its row locked. *)
LEMMA LinkedAfterRead ==
  ASSUME ServiceInv, NEW c \in Calls, NEW k \in Keys,
         ReleaseForUser(c, k) \/ RefundForUser(c, k)
  PROVE  EscrowTables' /\ Linked'
<1> USE DEF ServiceInv, Linked
<1>1. PICK kind \in {"release", "refund"} : GetOwnedEscrow(c, k, kind)
  BY DEF ReleaseForUser, RefundForUser
<1>2. /\ calls[c] = NoCall /\ rows' = rows /\ txs' = txs /\ escrows' = escrows
      /\ rows[k].status = "LOCKED" /\ rows[k].id # NoId
  BY DEF ReleaseForUser, RefundForUser, GetOwnedEscrow, vars
<1>3. rows[k] # NoRow /\ rows[k] \in Row
  <2>1. rows[k] # NoRow
    BY <1>2 DEF NoRow
  <2> QED BY <2>1, RowTyped
<1>4. /\ calls'[c] = [pc |-> "ready", key |-> k, kind |-> kind, id |-> rows[k].id, timeout |-> 0]
      /\ calls'[c] # NoCall
      /\ \A d \in Calls \ {c} : calls'[d] = calls[d]
  BY <1>1 DEF GetOwnedEscrow, EscrowTables, NoCall
<1>5. EscrowTables'
  <2>1. calls'[c] \in Call
    BY <1>3, <1>4 DEF Call, Row
  <2>2. calls' = [calls EXCEPT ![c] = calls'[c]]
    BY <1>1, <1>4 DEF GetOwnedEscrow
  <2> QED BY <1>2, <2>1, <2>2 DEF EscrowTables
<1>6. txs[c].state = "unsent"
  BY <1>2 DEF CallsTracked, Unsent
<1>7. \A d \in Calls : /\ IsDeposit(d)' <=> IsDeposit(d)
                       /\ Deposited(d)' <=> Deposited(d)
                       /\ IsDeposit(d) => calls'[d] = calls[d]
  BY <1>2, <1>4 DEF Deposited, IsDeposit
<1>8. CallsTracked'
  BY <1>2, <1>3, <1>4, <1>6, <1>7 DEF CallsTracked
<1>9. OneDepositPerKey' /\ DepositsDiffer'
  BY <1>2, <1>7 DEF OneDepositPerKey, DepositsDiffer
<1>10. DepositsMade'
  BY <1>2, <1>7 DEF DepositsMade, RowOf, Deposited
<1>11. RowsKnown'
  <2>1. \A j \in Keys : RowKnown(j) => RowKnown(j)'
    BY <1>2, <1>7 DEF RowKnown, Deposited
  <2> QED BY <1>2, <2>1 DEF RowsKnown
<1>12. ClosingsKnown'
  BY <1>2, <1>4, <1>6 DEF ClosingsKnown, IsClosing, RowOf
<1> QED BY <1>5, <1>8, <1>9, <1>10, <1>11, <1>12

(* A call goes from one place to another, and its transaction with it.     *)
Moves(c, pc, state) ==
  /\ calls[c].pc \in {"ready", "sent", "confirmed", "failing"}
  /\ pc \in {"sent", "confirmed", "failing", "done"}
  /\ Goto(c, pc)
  /\ txs' = [txs EXCEPT ![c].state = state]
  /\ state = txs[c].state \/ (txs[c].state = "unsent" /\ state = "flying")
  /\ pc = "confirmed" => state = "applied"
  /\ pc = "failing" => calls[c].kind = "deposit"

(* What such a move leaves as it was. *)
LEMMA MoveKeeps ==
  ASSUME ServiceInv, NEW c \in Calls, NEW pc, NEW state, Moves(c, pc, state)
  PROVE  /\ calls'[c] \in Call /\ txs'[c] \in TxState
         /\ calls[c] # NoCall /\ calls'[c] # NoCall
         /\ calls'[c].pc = pc /\ txs'[c].state = state
         /\ \A d \in Calls :
              /\ d # c => calls'[d] = calls[d] /\ txs'[d] = txs[d]
              /\ calls'[d] = NoCall <=> calls[d] = NoCall
              /\ calls[d] # NoCall =>
                   /\ calls'[d].key = calls[d].key /\ calls'[d].kind = calls[d].kind
                   /\ calls'[d].id = calls[d].id /\ calls'[d].timeout = calls[d].timeout
              /\ txs'[d].id = txs[d].id
              /\ txs'[d].state = "applied" <=> txs[d].state = "applied"
<1> USE DEF ServiceInv
<1>1. calls[c] # NoCall
  BY DEF Moves, NoCall
<1>2. calls[c] \in Call /\ txs[c] \in TxState
  BY <1>1, CallTyped DEF EscrowTables
<1>3. /\ calls'[c] = [calls[c] EXCEPT !.pc = pc] /\ txs'[c] = [txs[c] EXCEPT !.state = state]
      /\ \A d \in Calls \ {c} : calls'[d] = calls[d] /\ txs'[d] = txs[d]
  BY DEF Moves, Goto, EscrowTables
<1>4. state \in {"unsent", "flying", "dropped", "applied"}
  BY <1>2 DEF Moves, TxState
<1>5. /\ calls'[c] \in Call /\ calls'[c].pc = pc
      /\ calls'[c].key = calls[c].key /\ calls'[c].kind = calls[c].kind
      /\ calls'[c].id = calls[c].id /\ calls'[c].timeout = calls[c].timeout
  BY <1>2, <1>3 DEF Moves, Call
<1>6. /\ txs'[c] \in TxState /\ txs'[c].state = state /\ txs'[c].id = txs[c].id
      /\ txs'[c].state = "applied" <=> txs[c].state = "applied"
  BY <1>2, <1>3, <1>4 DEF Moves, TxState
<1>7. calls'[c] # NoCall
  BY <1>5 DEF NoCall, Call
<1> QED BY <1>1, <1>3, <1>5, <1>6, <1>7

(* A move without a write keeps everything linked. *)
LEMMA LinkedAfterMove ==
  ASSUME ServiceInv, NEW c \in Calls, NEW pc, NEW state, Moves(c, pc, state),
         UNCHANGED <<rows, escrows>>
  PROVE  EscrowTables' /\ Linked'
<1> USE DEF ServiceInv, Linked
<1>1. /\ calls'[c] \in Call /\ txs'[c] \in TxState
      /\ calls[c] # NoCall /\ calls'[c] # NoCall
      /\ calls'[c].pc = pc /\ txs'[c].state = state
      /\ \A d \in Calls :
           /\ d # c => calls'[d] = calls[d] /\ txs'[d] = txs[d]
           /\ calls'[d] = NoCall <=> calls[d] = NoCall
           /\ calls[d] # NoCall =>
                /\ calls'[d].key = calls[d].key /\ calls'[d].kind = calls[d].kind
                /\ calls'[d].id = calls[d].id /\ calls'[d].timeout = calls[d].timeout
           /\ txs'[d].id = txs[d].id
           /\ txs'[d].state = "applied" <=> txs[d].state = "applied"
  BY MoveKeeps
<1>2. EscrowTables'
  BY <1>1 DEF EscrowTables, Moves, Goto
<1>3. \A d \in Calls : /\ IsDeposit(d)' <=> IsDeposit(d)
                       /\ IsClosing(d)' <=> IsClosing(d)
                       /\ Deposited(d)' <=> Deposited(d)
  BY <1>1 DEF Deposited, IsDeposit, IsClosing
<1>4. CallsTracked'
  <2> SUFFICES ASSUME NEW d \in Calls
               PROVE  /\ calls'[d] = NoCall => txs'[d] = Unsent
                      /\ calls'[d] # NoCall => rows[calls'[d].key] # NoRow
                      /\ calls'[d].pc = "ready" => txs'[d].state = "unsent"
                      /\ calls'[d].pc = "confirmed" => txs'[d].state = "applied"
                      /\ calls'[d].pc = "failing" => IsDeposit(d)
                      /\ IsDeposit(d) => calls'[d].timeout \in Timeouts
    BY <1>3 DEF CallsTracked
  <2>1. CASE d # c
    BY <1>1, <2>1 DEF CallsTracked, IsDeposit
  <2>2. CASE d = c
    BY <1>1, <2>2 DEF CallsTracked, IsDeposit, Moves
  <2> QED BY <2>1, <2>2
<1>5. OneDepositPerKey' /\ DepositsDiffer'
  BY <1>1, <1>3 DEF OneDepositPerKey, DepositsDiffer, Deposited, IsDeposit
<1>6. DepositsMade'
  BY <1>1, <1>3 DEF DepositsMade, RowOf, Deposited, IsDeposit
<1>7. RowsKnown'
  <2>1. \A d \in Calls : Deposited(d) /\ calls[d].pc = "done" => calls'[d] = calls[d]
    BY <1>1 DEF Moves
  <2>2. \A j \in Keys : RowKnown(j) => RowKnown(j)'
    BY <1>1, <1>3, <2>1 DEF RowKnown
  <2> QED BY <2>2 DEF RowsKnown
<1>8. ClosingsKnown'
  BY <1>1, <1>3 DEF ClosingsKnown, IsClosing, RowOf
<1> QED BY <1>2, <1>4, <1>5, <1>6, <1>7, <1>8

(* Submission, confirmation, failure and abandonment are such moves.       *)
LEMMA QuietMoves ==
  ASSUME ServiceInv, NEW c \in Calls, Submit(c) \/ Confirm(c) \/ Fail(c) \/ Abandon(c)
  PROVE  EscrowTables' /\ Linked'
<1> USE DEF ServiceInv, Linked
<1>1. UNCHANGED <<rows, escrows>>
  BY DEF Submit, Confirm, Fail, Abandon, vars
<1>2. txs = [txs EXCEPT ![c].state = txs[c].state]
  BY DEF EscrowTables, TxState
<1>3. CASE Submit(c)
  <2>1. Moves(c, "sent", "flying")
    BY <1>3 DEF Submit, Moves, CallsTracked
  <2> QED BY <1>1, <2>1, LinkedAfterMove
<1>4. CASE Confirm(c)
  <2>1. Moves(c, "confirmed", txs[c].state)
    BY <1>2, <1>4 DEF Confirm, Applied, Moves
  <2> QED BY <1>1, <2>1, LinkedAfterMove
<1>5. CASE Fail(c)
  <2>1. Moves(c, IF calls[c].kind = "deposit" THEN "failing" ELSE "done", txs[c].state)
    BY <1>2, <1>5 DEF Fail, Moves
  <2> QED BY <1>1, <2>1, LinkedAfterMove
<1>6. CASE Abandon(c)
  <2>1. Moves(c, "done", txs[c].state)
    BY <1>2, <1>6 DEF Abandon, Moves
  <2> QED BY <1>1, <2>1, LinkedAfterMove
<1> QED BY <1>3, <1>4, <1>5, <1>6

(* A transaction that comes to nothing. *)
LEMMA LinkedAfterDrop ==
  ASSUME ServiceInv, NEW c \in Calls, Drop(c)
  PROVE  EscrowTables' /\ Linked'
<1> USE DEF ServiceInv, Linked
<1>1. /\ UNCHANGED <<rows, calls, escrows>> /\ txs[c].state = "flying"
      /\ txs' = [txs EXCEPT ![c].state = "dropped"]
  BY DEF Drop, vars
<1>2. /\ txs'[c] \in TxState /\ txs'[c].state = "dropped"
      /\ \A d \in Calls \ {c} : txs'[d] = txs[d]
  BY <1>1 DEF EscrowTables, TxState
<1>3. EscrowTables'
  BY <1>1, <1>2 DEF EscrowTables
<1>4. \A d \in Calls : /\ IsDeposit(d)' <=> IsDeposit(d)
                       /\ Deposited(d)' <=> Deposited(d)
                       /\ Deposited(d) => txs'[d] = txs[d]
  BY <1>1, <1>2 DEF Deposited, IsDeposit
<1>5. CallsTracked'
  BY <1>1, <1>2 DEF CallsTracked, IsDeposit, Unsent
<1>6. OneDepositPerKey' /\ DepositsDiffer'
  BY <1>1, <1>4 DEF OneDepositPerKey, DepositsDiffer
<1>7. DepositsMade'
  BY <1>1, <1>4 DEF DepositsMade, RowOf
<1>8. RowsKnown'
  <2>1. \A j \in Keys : RowKnown(j) => RowKnown(j)'
    BY <1>1, <1>4 DEF RowKnown
  <2> QED BY <1>1, <2>1 DEF RowsKnown
<1>9. ClosingsKnown'
  BY <1>1, <1>2 DEF ClosingsKnown, IsClosing, RowOf
<1> QED BY <1>3, <1>5, <1>6, <1>7, <1>8, <1>9

(* A call over, with a write to its row that keeps terms and id and tells  *)
(* the truth, leaves everything linked.                                    *)
LEMMA LinkedAfterWrite ==
  ASSUME ServiceInv, NEW c \in Calls, NEW row \in Row,
         Moves(c, "done", txs[c].state), UpdateStatus(c, row), UNCHANGED escrows,
         Terms(row) = Terms(RowOf(c)), RowOf(c).id # NoId => row.id = RowOf(c).id,
         RowKnown(calls[c].key)'
  PROVE  EscrowTables' /\ Linked'
<1> USE DEF ServiceInv, Linked
<1> DEFINE k == calls[c].key
<1>1. /\ calls'[c] \in Call /\ txs'[c] \in TxState
      /\ calls[c] # NoCall /\ calls'[c] # NoCall
      /\ calls'[c].pc = "done"
      /\ \A d \in Calls :
           /\ d # c => calls'[d] = calls[d] /\ txs'[d] = txs[d]
           /\ calls'[d] = NoCall <=> calls[d] = NoCall
           /\ calls[d] # NoCall =>
                /\ calls'[d].key = calls[d].key /\ calls'[d].kind = calls[d].kind
                /\ calls'[d].id = calls[d].id /\ calls'[d].timeout = calls[d].timeout
           /\ txs'[d].id = txs[d].id
           /\ txs'[d].state = "applied" <=> txs[d].state = "applied"
  BY MoveKeeps
<1>2. k \in Keys /\ rows[k] # NoRow
  BY <1>1, CallTyped DEF CallsTracked
<1>3. /\ rows' = [rows EXCEPT ![k] = row]
      /\ rows'[k] = row /\ rows'[k] # NoRow
      /\ \A j \in Keys \ {k} : rows'[j] = rows[j]
  BY <1>2 DEF UpdateStatus, EscrowTables, NoRow, Row, RowStatus
<1>4. txs' = txs
  BY DEF Moves, EscrowTables, TxState
<1>5. EscrowTables'
  BY <1>1, <1>3, <1>4 DEF EscrowTables, Moves, Goto
<1>6. \A d \in Calls : /\ IsDeposit(d)' <=> IsDeposit(d)
                       /\ IsClosing(d)' <=> IsClosing(d)
                       /\ Deposited(d)' <=> Deposited(d)
                       /\ calls[d] # NoCall => calls'[d].key = calls[d].key /\ calls[d].key \in Keys
  BY <1>1, CallTyped DEF Deposited, IsDeposit, IsClosing
<1>7. \A j \in Keys : /\ rows'[j] = NoRow <=> rows[j] = NoRow
                      /\ Terms(rows'[j]) = Terms(rows[j])
                      /\ rows[j].id # NoId => rows'[j].id = rows[j].id
  BY <1>2, <1>3 DEF RowOf
<1>8. CallsTracked'
  <2> SUFFICES ASSUME NEW d \in Calls
               PROVE  /\ calls'[d] = NoCall => txs'[d] = Unsent
                      /\ calls'[d] # NoCall => rows'[calls'[d].key] # NoRow
                      /\ calls'[d].pc = "ready" => txs'[d].state = "unsent"
                      /\ calls'[d].pc = "confirmed" => txs'[d].state = "applied"
                      /\ calls'[d].pc = "failing" => IsDeposit(d)
                      /\ IsDeposit(d) => calls'[d].timeout \in Timeouts
    BY <1>6 DEF CallsTracked
  <2>1. calls'[d] # NoCall => rows'[calls'[d].key] # NoRow
    BY <1>1, <1>6, <1>7 DEF CallsTracked
  <2>2. CASE d # c
    BY <1>1, <2>1, <2>2 DEF CallsTracked, IsDeposit
  <2>3. CASE d = c
    BY <1>1, <2>1, <2>3 DEF CallsTracked, IsDeposit
  <2> QED BY <2>2, <2>3
<1>9. OneDepositPerKey' /\ DepositsDiffer'
  BY <1>1, <1>6 DEF OneDepositPerKey, DepositsDiffer, Deposited, IsDeposit
<1>10. DepositsMade'
  BY <1>1, <1>4, <1>6, <1>7 DEF DepositsMade, RowOf, Deposited, IsDeposit
<1>11. RowsKnown'
  <2> SUFFICES ASSUME NEW j \in Keys, rows'[j] # NoRow PROVE RowKnown(j)'
    BY DEF RowsKnown
  <2>1. CASE j = calls'[c].key
    BY <2>1
  <2> SUFFICES ASSUME j # k PROVE RowKnown(j)'
    BY <1>1, <1>6, <2>1
  <2>2. rows'[j] = rows[j] /\ RowKnown(j)
    BY <1>3, <1>7 DEF RowsKnown
  <2>3. \A d \in Calls : Deposited(d) /\ calls[d].pc = "done" => calls'[d] = calls[d]
    BY <1>1 DEF Moves
  <2> QED BY <1>4, <1>6, <2>2, <2>3 DEF RowKnown
<1>12. ClosingsKnown'
  BY <1>1, <1>4, <1>6, <1>7 DEF ClosingsKnown, IsClosing, RowOf
<1> QED BY <1>5, <1>8, <1>9, <1>10, <1>11, <1>12

(* The deposit of a row is not over while its call is: the row has no id.  *)
LEMMA NoIdYet ==
  ASSUME ServiceInv, NEW c \in Calls, IsDeposit(c), calls[c].pc # "done"
  PROVE  RowOf(c).id = NoId
<1> USE DEF ServiceInv, Linked
<1>1. calls[c].key \in Keys /\ rows[calls[c].key] # NoRow
  BY CallTyped DEF IsDeposit, CallsTracked
<1>2. RowKnown(calls[c].key)
  BY <1>1 DEF RowsKnown
<1> QED BY <1>2 DEF RowKnown, RowOf, OneDepositPerKey, Deposited

(* The three writes of a call that ends well, and that of a failed deposit. *)
LEMMA LinkedAfterLocked ==
  ASSUME ServiceInv, NEW c \in Calls, WriteLocked(c)
  PROVE  EscrowTables' /\ Linked'
<1> USE DEF ServiceInv, Linked
<1> DEFINE id == txs[c].id
           row == [RowOf(c) EXCEPT !.status = "LOCKED", !.id = id,
                     !.timeoutLedger = escrows[id].timeout_ledger]
<1>1. /\ calls[c].pc = "confirmed" /\ calls[c].kind = "deposit"
      /\ UpdateStatus(c, row) /\ Goto(c, "done") /\ UNCHANGED <<escrows, txs>>
  BY DEF WriteLocked, ReturnedId, GetEscrow, ToEscrowRecord, vars
<1>2. calls[c] # NoCall /\ IsDeposit(c) /\ txs[c].state = "applied" /\ Deposited(c)
  BY <1>1 DEF CallsTracked, IsDeposit, Deposited, NoCall
<1>3. id \in Ids /\ escrows[id] # None
  BY <1>2 DEF DepositsMade
<1>4. escrows[id].timeout_ledger \in 0 .. MaxU32
  BY <1>3 DEF TypeOK, EscrowRecord
<1>5. calls[c].key \in Keys /\ RowOf(c) \in Row
  BY <1>2, CallTyped, SentHasRow
<1>6. /\ row \in Row /\ Terms(row) = Terms(RowOf(c))
      /\ row.id = id /\ row.status = "LOCKED" /\ row.timeoutLedger = escrows[id].timeout_ledger
  BY <1>3, <1>4, <1>5 DEF Row, RowStatus, Terms
<1>7. Moves(c, "done", txs[c].state)
  BY <1>1 DEF Moves, EscrowTables, TxState
<1>8. RowOf(c).id = NoId
  BY <1>1, <1>2, NoIdYet
<1>9. RowKnown(calls[c].key)'
  <2>1. rows'[calls'[c].key] = row /\ calls'[c].key = calls[c].key
    BY <1>1, <1>2, <1>5, <1>7, MoveKeeps DEF UpdateStatus, EscrowTables
  <2>2. Deposited(c)' /\ calls'[c].pc = "done"
    BY <1>1, <1>2, <1>7, MoveKeeps DEF Deposited, IsDeposit
  <2>3. row.id # NoId
    BY <1>3, <1>6, WidthAssumption DEF Ids, NoId
  <2> HIDE DEF row
  <2> QED BY <1>1, <1>6, <2>1, <2>2, <2>3 DEF RowKnown
<1> HIDE DEF row
<1> QED BY <1>1, <1>6, <1>7, <1>8, <1>9, LinkedAfterWrite

LEMMA LinkedAfterClosed ==
  ASSUME ServiceInv, NEW c \in Calls, WriteReleased(c) \/ WriteRefunded(c)
  PROVE  EscrowTables' /\ Linked'
<1> USE DEF ServiceInv, Linked
<1> DEFINE k == calls[c].key
<1>1. PICK status \in {"RELEASED", "REFUNDED"} :
        /\ calls[c].kind = (IF status = "RELEASED" THEN "release" ELSE "refund")
        /\ UpdateStatus(c, [RowOf(c) EXCEPT !.status = status])
  BY DEF WriteReleased, WriteRefunded
<1> DEFINE row == [RowOf(c) EXCEPT !.status = status]
<1>2. /\ calls[c].pc = "confirmed" /\ calls[c].kind # "deposit"
      /\ UpdateStatus(c, row) /\ Goto(c, "done") /\ UNCHANGED <<escrows, txs>>
  BY <1>1 DEF WriteReleased, WriteRefunded, vars
<1>3. calls[c] # NoCall /\ IsClosing(c) /\ txs[c].state = "applied"
  BY <1>2 DEF CallsTracked, IsClosing, NoCall
<1>4. k \in Keys /\ RowOf(c) \in Row /\ rows[k] # NoRow
  BY <1>3, CallTyped, SentHasRow DEF CallsTracked
<1>5. /\ row \in Row /\ Terms(row) = Terms(RowOf(c)) /\ row.id = RowOf(c).id
      /\ row.status = status /\ row.timeoutLedger = RowOf(c).timeoutLedger
  BY <1>4 DEF Row, RowStatus, Terms
<1>6. Moves(c, "done", txs[c].state)
  BY <1>2 DEF Moves, EscrowTables, TxState
<1>7. /\ row.id # NoId
      /\ escrows[row.id].status = (IF status = "RELEASED" THEN "Released" ELSE "Refunded")
  BY <1>1, <1>3, <1>5 DEF ClosingsKnown, Outcome
<1>8. RowKnown(k)'
  <2>1. rows'[calls'[c].key] = row /\ calls'[c].key = k
    BY <1>2, <1>3, <1>4, <1>6, MoveKeeps DEF UpdateStatus, EscrowTables
  <2>2. RowKnown(k)
    BY <1>4 DEF RowsKnown
  <2>3. PICK d \in Calls : /\ Deposited(d) /\ calls[d].pc = "done"
                           /\ calls[d].key = k /\ txs[d].id = row.id
    BY <1>5, <1>7, <2>2 DEF RowKnown, RowOf
  <2>4. calls'[d] = calls[d] /\ Deposited(d)'
    BY <1>2, <1>6, <2>3, MoveKeeps DEF Deposited, IsDeposit
  <2>5. row.timeoutLedger = escrows[row.id].timeout_ledger
    BY <1>5, <1>7, <2>2 DEF RowKnown, RowOf
  <2> HIDE DEF row
  <2> QED BY <1>2, <1>5, <1>7, <2>1, <2>3, <2>4, <2>5 DEF RowKnown
<1> HIDE DEF row
<1> QED BY <1>2, <1>5, <1>6, <1>8, LinkedAfterWrite

LEMMA LinkedAfterFailed ==
  ASSUME ServiceInv, NEW c \in Calls, WriteFailed(c)
  PROVE  EscrowTables' /\ Linked'
<1> USE DEF ServiceInv, Linked
<1> DEFINE row == [RowOf(c) EXCEPT !.status = "FAILED"]
<1>1. /\ calls[c].pc = "failing" /\ UpdateStatus(c, row)
      /\ Goto(c, "done") /\ UNCHANGED <<escrows, txs>>
  BY DEF WriteFailed, vars
<1>2. calls[c] # NoCall /\ IsDeposit(c)
  BY <1>1 DEF CallsTracked, IsDeposit
<1>3. calls[c].key \in Keys /\ rows[calls[c].key] # NoRow /\ RowOf(c) \in Row
  BY <1>2, CallTyped, RowTyped DEF CallsTracked, RowOf
<1>4. RowOf(c).id = NoId
  BY <1>1, <1>2, NoIdYet
<1>5. row \in Row /\ Terms(row) = Terms(RowOf(c)) /\ row.id = NoId /\ row.status = "FAILED"
  BY <1>3, <1>4 DEF Row, RowStatus, Terms
<1>6. Moves(c, "done", txs[c].state)
  BY <1>1 DEF Moves, EscrowTables, TxState
<1>7. RowKnown(calls[c].key)'
  <2>1. rows'[calls'[c].key] = row /\ calls'[c].key = calls[c].key
    BY <1>1, <1>2, <1>3, <1>6, MoveKeeps DEF UpdateStatus, EscrowTables
  <2> HIDE DEF row
  <2> QED BY <1>5, <2>1 DEF RowKnown
<1> HIDE DEF row
<1> QED BY <1>1, <1>4, <1>5, <1>6, <1>7, LinkedAfterWrite

(* A transaction the ledger includes: the escrows that exist keep their    *)
(* terms, so what is known of every other call and row stays known.        *)
LEMMA IncludeKeeps ==
  ASSUME ServiceInv, NEW c \in Calls, Include(c)
  PROVE  /\ UNCHANGED <<rows, calls>>
         /\ calls[c] # NoCall /\ calls[c] \in Call /\ RowOf(c) \in Row
         /\ txs[c].state = "flying"
         /\ \A k \in Keys : rows[k] # NoRow => RowKnown(k) /\ RowKnown(k)'
         /\ \A d \in Calls : txs[d].state = "applied" => txs'[d] = txs[d]
         /\ \A d \in Calls : Deposited(d) =>
              /\ txs[d].id \in Ids /\ escrows[txs[d].id] # None
              /\ escrows'[txs[d].id] # None
              /\ Terms(escrows'[txs[d].id]) = Terms(RowOf(d))
         /\ \A d \in Calls : IsClosing(d) =>
              /\ calls[d].id # NoId /\ RowOf(d).id = calls[d].id
              /\ txs[d].state = "applied" =>
                   escrows'[calls[d].id].status = Outcome(calls[d].kind)
<1> USE DEF ServiceInv, Linked
<1>1. /\ UNCHANGED <<rows, calls>> /\ txs[c].state = "flying"
      /\ \E id : Land(c, id)
  BY DEF Include, DepositToEscrow, ReleaseEscrow, RefundEscrow
<1>2. calls[c] \in Call /\ RowOf(c) \in Row /\ calls[c] # NoCall
  BY <1>1, SentHasRow DEF Call, NoCall
<1>3. \A d \in Calls \ {c} : txs'[d] = txs[d]
  BY <1>1 DEF Land, EscrowTables
<1>4. [Next]_vars
  BY IncludeIsTransaction
<1>5. ASSUME NEW d \in Calls, Deposited(d)
      PROVE  /\ txs[d].id \in Ids /\ escrows[txs[d].id] # None
             /\ escrows'[txs[d].id] # None
             /\ Terms(escrows'[txs[d].id]) = Terms(RowOf(d))
  BY <1>4, <1>5, TermsKept DEF DepositsMade
<1>6. ASSUME NEW k \in Keys, rows[k] # NoRow, rows[k].id # NoId
      PROVE  /\ escrows'[rows[k].id].timeout_ledger = escrows[rows[k].id].timeout_ledger
             /\ escrows[rows[k].id].status # "Locked" =>
                  escrows'[rows[k].id].status = escrows[rows[k].id].status
  <2>1. rows[k].id \in Ids /\ escrows[rows[k].id] # None
    BY <1>6 DEF RowsKnown, RowKnown, DepositsMade
  <2> QED BY <1>4, <2>1, TermsKept
<1>7. ASSUME NEW k \in Keys, rows[k] # NoRow
      PROVE  RowKnown(k) /\ RowKnown(k)'
  <2>1. RowKnown(k)
    BY <1>7 DEF RowsKnown
  <2>2. \A d \in Calls : Deposited(d) => Deposited(d)' /\ txs'[d] = txs[d]
    BY <1>1, <1>3 DEF Deposited, IsDeposit
  <2> QED BY <1>1, <1>6, <1>7, <2>1, <2>2 DEF RowKnown
<1>8. ASSUME NEW d \in Calls, IsClosing(d)
      PROVE  /\ calls[d].id # NoId /\ RowOf(d).id = calls[d].id
             /\ txs[d].state = "applied" =>
                  escrows'[calls[d].id].status = Outcome(calls[d].kind)
  <2>1. /\ calls[d].id # NoId /\ RowOf(d).id = calls[d].id
        /\ txs[d].state = "applied" => escrows[calls[d].id].status = Outcome(calls[d].kind)
    BY <1>8 DEF ClosingsKnown
  <2>2. calls[d].key \in Keys /\ rows[calls[d].key] # NoRow
    BY <1>8, CallTyped DEF IsClosing, CallsTracked
  <2> QED BY <1>6, <2>1, <2>2 DEF Outcome, RowOf
<1> QED BY <1>1, <1>2, <1>3, <1>5, <1>7, <1>8

LEMMA LinkedAfterDeposit ==
  ASSUME ServiceInv, NEW c \in Calls, Include(c), DepositToEscrow(c)
  PROVE  EscrowTables' /\ Linked'
<1> USE DEF ServiceInv, Linked
<1>1. /\ UNCHANGED <<rows, calls>>
      /\ calls[c] # NoCall /\ calls[c] \in Call /\ RowOf(c) \in Row
      /\ txs[c].state = "flying"
      /\ \A k \in Keys : rows[k] # NoRow => RowKnown(k)'
      /\ \A d \in Calls : Deposited(d) =>
           /\ txs[d].id \in Ids /\ escrows[txs[d].id] # None
           /\ escrows'[txs[d].id] # None
           /\ Terms(escrows'[txs[d].id]) = Terms(RowOf(d))
      /\ \A d \in Calls : IsClosing(d) =>
           /\ calls[d].id # NoId /\ RowOf(d).id = calls[d].id
           /\ txs[d].state = "applied" =>
                escrows'[calls[d].id].status = Outcome(calls[d].kind)
  BY IncludeKeeps
<1>2. /\ IsDeposit(c) /\ Land(c, nextId)
      /\ Deposit(RowOf(c).payer, RowOf(c).payee, RowOf(c).token, RowOf(c).amount,
                 calls[c].timeout)
  BY <1>1 DEF DepositToEscrow, IsDeposit
<1>3. nextId \in Ids /\ escrows[nextId] = None
  BY <1>2, WidthAssumption DEF Deposit, AdvanceNextId, TypeOK, Ids, IdsInOrder
<1>4. escrows'[nextId] # None /\ Terms(escrows'[nextId]) = Terms(RowOf(c))
  BY <1>2, <1>3 DEF Deposit, TypeOK, None, Terms
<1>5. /\ txs'[c] = [state |-> "applied", id |-> nextId]
      /\ \A d \in Calls \ {c} : txs'[d] = txs[d]
  BY <1>2 DEF Land, EscrowTables
<1>6. EscrowTables'
  BY <1>1, <1>2, <1>3 DEF Land, EscrowTables, TxState
<1>7. \A d \in Calls : /\ IsDeposit(d)' <=> IsDeposit(d)
                       /\ IsClosing(d)' <=> IsClosing(d)
                       /\ Deposited(d)' <=> d = c \/ Deposited(d)
                       /\ Deposited(d) => d # c /\ txs'[d] = txs[d]
                       /\ IsClosing(d) => txs'[d] = txs[d]
  BY <1>1, <1>2, <1>5 DEF Deposited, IsDeposit, IsClosing
<1>8. CallsTracked'
  BY <1>1, <1>5, <1>7 DEF CallsTracked
<1>9. OneDepositPerKey'
  BY <1>1, <1>7 DEF OneDepositPerKey
<1>10. DepositsMade'
  <2> SUFFICES ASSUME NEW d \in Calls, Deposited(d)'
               PROVE  /\ txs'[d].id \in Ids /\ escrows'[txs'[d].id] # None
                      /\ Terms(escrows'[txs'[d].id]) = Terms(RowOf(d))
    BY <1>1 DEF DepositsMade, RowOf, Terms
  <2>1. CASE d = c
    BY <1>3, <1>4, <1>5, <2>1
  <2>2. CASE d # c
    BY <1>1, <1>7, <2>2
  <2> QED BY <2>1, <2>2
<1>11. DepositsDiffer'
  <2> SUFFICES ASSUME NEW d \in Calls, NEW e \in Calls, Deposited(d)', Deposited(e)',
                      txs'[d].id = txs'[e].id
               PROVE  d = e
    BY DEF DepositsDiffer
  <2>1. \A f \in Calls : Deposited(f) => txs[f].id # nextId
    BY <1>1, <1>3
  <2> QED BY <1>5, <1>7, <2>1 DEF DepositsDiffer
<1>12. RowsKnown'
  BY <1>1 DEF RowsKnown
<1>13. ClosingsKnown'
  BY <1>1, <1>7 DEF ClosingsKnown, RowOf
<1> QED BY <1>6, <1>8, <1>9, <1>10, <1>11, <1>12, <1>13

LEMMA LinkedAfterOutcome ==
  ASSUME ServiceInv, NEW c \in Calls, Include(c), ReleaseEscrow(c) \/ RefundEscrow(c)
  PROVE  EscrowTables' /\ Linked'
<1> USE DEF ServiceInv, Linked
<1>1. /\ UNCHANGED <<rows, calls>>
      /\ calls[c] # NoCall /\ calls[c] \in Call /\ RowOf(c) \in Row
      /\ txs[c].state = "flying"
      /\ \A k \in Keys : rows[k] # NoRow => RowKnown(k)'
      /\ \A d \in Calls : Deposited(d) =>
           /\ txs[d].id \in Ids /\ escrows[txs[d].id] # None
           /\ escrows'[txs[d].id] # None
           /\ Terms(escrows'[txs[d].id]) = Terms(RowOf(d))
      /\ \A d \in Calls : IsClosing(d) =>
           /\ calls[d].id # NoId /\ RowOf(d).id = calls[d].id
           /\ txs[d].state = "applied" =>
                escrows'[calls[d].id].status = Outcome(calls[d].kind)
  BY IncludeKeeps
<1>2. /\ IsClosing(c) /\ Land(c, calls[c].id)
      /\ calls[c].kind \in {"release", "refund"}
      /\ \E to : Finalise(calls[c].id, Outcome(calls[c].kind), to)
  BY <1>1 DEF ReleaseEscrow, RefundEscrow, IsClosing, Release, Refund, Outcome
<1>3. calls[c].id \in Ids
  BY <1>1, <1>2 DEF Call
<1>4. /\ escrows[calls[c].id].status = "Locked"
      /\ escrows' = [escrows EXCEPT ![calls[c].id].status = Outcome(calls[c].kind)]
  BY <1>2 DEF Finalise, ReleaseEscrow, RefundEscrow, Release, Refund, RequireLocked
<1>5. escrows'[calls[c].id].status = Outcome(calls[c].kind)
  <2>1. escrows[calls[c].id] \in EscrowRecord
    BY <1>3, <1>4, LockedIsRecord DEF RequireLocked
  <2> HIDE DEF Linked
  <2> QED BY <1>3, <1>4, <2>1 DEF TypeOK, EscrowRecord
<1>6. /\ txs'[c] = [state |-> "applied", id |-> calls[c].id]
      /\ \A d \in Calls \ {c} : txs'[d] = txs[d]
  BY <1>2 DEF Land, EscrowTables
<1>7. EscrowTables'
  BY <1>1, <1>2, <1>3 DEF Land, EscrowTables, TxState
<1>8. \A d \in Calls : /\ IsDeposit(d)' <=> IsDeposit(d)
                       /\ IsClosing(d)' <=> IsClosing(d)
                       /\ Deposited(d)' <=> Deposited(d)
                       /\ Deposited(d) => txs'[d] = txs[d]
  BY <1>1, <1>2, <1>6 DEF Deposited, IsDeposit, IsClosing
<1>9. CallsTracked'
  BY <1>1, <1>6, <1>8 DEF CallsTracked
<1>10. OneDepositPerKey' /\ DepositsDiffer'
  BY <1>1, <1>8 DEF OneDepositPerKey, DepositsDiffer
<1>11. DepositsMade'
  BY <1>1, <1>8 DEF DepositsMade, RowOf, Terms
<1>12. RowsKnown'
  BY <1>1 DEF RowsKnown
<1>13. ClosingsKnown'
  BY <1>1, <1>5, <1>6, <1>8 DEF ClosingsKnown, RowOf, Outcome
<1> QED BY <1>7, <1>9, <1>10, <1>11, <1>12, <1>13

(* No step breaks the links. *)
LEMMA LinkedKept ==
  ASSUME ServiceInv, [ServiceNext]_allVars
  PROVE  EscrowTables' /\ Linked'
<1>1. CASE UNCHANGED serviceVars
  BY <1>1, ContractStep, LinkedUnderChain
<1>2. ASSUME NEW c \in Calls, NEW k \in Keys,
             CreateRow(c, k) \/ ReleaseForUser(c, k) \/ RefundForUser(c, k)
      PROVE  EscrowTables' /\ Linked'
  BY <1>2, LinkedAfterCreate, LinkedAfterRead
<1>3. ASSUME NEW c \in Calls,
             \/ Submit(c) \/ Confirm(c) \/ Fail(c) \/ WriteLocked(c) \/ WriteReleased(c)
             \/ WriteRefunded(c) \/ WriteFailed(c) \/ Abandon(c) \/ Include(c) \/ Drop(c)
      PROVE  EscrowTables' /\ Linked'
  <2>1. CASE Submit(c) \/ Confirm(c) \/ Fail(c) \/ Abandon(c)
    BY <2>1, QuietMoves
  <2>2. CASE WriteLocked(c)
    BY <2>2, LinkedAfterLocked
  <2>3. CASE WriteReleased(c) \/ WriteRefunded(c)
    BY <2>3, LinkedAfterClosed
  <2>4. CASE WriteFailed(c)
    BY <2>4, LinkedAfterFailed
  <2>5. CASE Drop(c)
    BY <2>5, LinkedAfterDrop
  <2>6. CASE Include(c)
    <3>1. DepositToEscrow(c) \/ ReleaseEscrow(c) \/ RefundEscrow(c)
      BY <2>6 DEF Include
    <3> QED BY <2>6, <3>1, LinkedAfterDeposit, LinkedAfterOutcome
  <2> QED BY <1>3, <2>1, <2>2, <2>3, <2>4, <2>5, <2>6
<1>4. CASE Outside
  BY <1>1, <1>4 DEF Outside
<1> QED
  BY <1>1, <1>2, <1>3, <1>4 DEF ServiceNext, ServiceStep, allVars

LEMMA ServiceInvKept == ServiceInv /\ [ServiceNext]_allVars => ServiceInv'
BY ContractStep, LinkedKept, TypeKept, IdsKept DEF ServiceInv

LEMMA ServiceInvAtFirst == ServiceInit => ServiceInv
<1> SUFFICES ASSUME ServiceInit PROVE ServiceInv
  OBVIOUS
<1>1. Init /\ rows = [k \in Keys |-> NoRow] /\ calls = [c \in Calls |-> NoCall]
      /\ txs = [c \in Calls |-> Unsent]
  BY DEF ServiceInit
<1>2. TypeOK /\ IdsInOrder
  BY <1>1, WidthAssumption DEF Init, TypeOK, Ids, IdsInOrder
<1>3. EscrowTables
  BY <1>1 DEF EscrowTables, TxState, Unsent
<1>4. \A c \in Calls : calls[c] = NoCall /\ calls[c].pc = "new" /\ txs[c] = Unsent
  BY <1>1 DEF NoCall
<1>5. Linked
  BY <1>1, <1>4 DEF Linked, CallsTracked, OneDepositPerKey, DepositsMade, DepositsDiffer,
     RowsKnown, ClosingsKnown, Deposited, IsDeposit, IsClosing
<1> QED BY <1>2, <1>3, <1>5 DEF ServiceInv

LEMMA ServiceInvariant == ServiceSpec => []ServiceInv
BY ServiceInvAtFirst, ServiceInvKept, PTL DEF ServiceSpec

-----------------------------------------------------------------------------
(* What follows *)

(* Whatever the service and the others do, the contract sees a behaviour of *)
(* its own specification, so that all of EscrowProofs holds under it.       *)
THEOREM ServiceUsesContract == ServiceSpec => Spec
<1>1. ServiceInit => Init
  BY DEF ServiceInit
<1> QED
  BY <1>1, ContractStep, ServiceInvariant, PTL DEF ServiceSpec, Spec

(* Under the service too the contract holds what its locked escrows record, *)
(* every account has what it is due, and escrows follow their life cycle.   *)
THEOREM ServiceKeepsBooks ==
  ServiceSpec => []ContractBalance /\ []AccountsBalance /\ LifecycleSpec
BY ServiceUsesContract, ContractBalanceTheorem, AccountsBalanceTheorem, ImplementsLifecycle,
   PTL

(* A row that says LOCKED, RELEASED or REFUNDED names an escrow on chain of *)
(* its own terms, and a final row says what became of it: although the      *)
(* handlers read a row, wait for the network and write without looking      *)
(* again, and the transactions land in any order or not at all.             *)
THEOREM RowsTellTheTruthTheorem == ServiceSpec => []RowsTellTheTruth
<1>1. ServiceInv => RowsTellTheTruth
  <2> SUFFICES ASSUME ServiceInv, NEW k \in Keys,
                      rows[k].status \in {"LOCKED", "RELEASED", "REFUNDED"}
               PROVE  /\ rows[k].id \in Ids /\ escrows[rows[k].id] # None
                      /\ <<escrows[rows[k].id].payer, escrows[rows[k].id].payee,
                           escrows[rows[k].id].token, escrows[rows[k].id].amount,
                           escrows[rows[k].id].timeout_ledger>>
                           = <<rows[k].payer, rows[k].payee, rows[k].token, rows[k].amount,
                               rows[k].timeoutLedger>>
                      /\ rows[k].status = "RELEASED" => escrows[rows[k].id].status = "Released"
                      /\ rows[k].status = "REFUNDED" => escrows[rows[k].id].status = "Refunded"
    BY DEF RowsTellTheTruth
  <2>1. rows[k] # NoRow
    BY DEF NoRow
  <2>2. RowKnown(k) /\ rows[k].id # NoId
    BY <2>1 DEF ServiceInv, Linked, RowsKnown, RowKnown
  <2>3. PICK c \in Calls : Deposited(c) /\ calls[c].key = k /\ txs[c].id = rows[k].id
    BY <2>2 DEF RowKnown
  <2>4. /\ rows[k].id \in Ids /\ escrows[rows[k].id] # None
        /\ Terms(escrows[rows[k].id]) = Terms(rows[k])
    BY <2>3 DEF ServiceInv, Linked, DepositsMade, RowOf
  <2> QED BY <2>2, <2>4 DEF RowKnown, Terms
<1> QED BY <1>1, ServiceInvariant, PTL

(* No two rows stand for one escrow, however requests and deposits          *)
(* interleave.                                                              *)
THEOREM NoSharedEscrowTheorem == ServiceSpec => []NoSharedEscrow
<1>1. ServiceInv => NoSharedEscrow
  <2> SUFFICES ASSUME ServiceInv, NEW j \in Keys, NEW k \in Keys,
                      rows[j].status \in RowStatus, rows[k].status \in RowStatus,
                      rows[j].id # NoId, rows[j].id = rows[k].id
               PROVE  j = k
    BY DEF NoSharedEscrow
  <2>1. rows[j] # NoRow /\ rows[k] # NoRow
    BY DEF NoRow, RowStatus
  <2>2. RowKnown(j) /\ RowKnown(k)
    BY <2>1 DEF ServiceInv, Linked, RowsKnown
  <2>3. PICK c \in Calls : Deposited(c) /\ calls[c].key = j /\ txs[c].id = rows[j].id
    BY <2>2 DEF RowKnown
  <2>4. PICK d \in Calls : Deposited(d) /\ calls[d].key = k /\ txs[d].id = rows[k].id
    BY <2>2 DEF RowKnown
  <2> QED BY <2>3, <2>4 DEF ServiceInv, Linked, DepositsDiffer
<1> QED BY <1>1, ServiceInvariant, PTL

(* However often a deposit is retried with its idempotency key, and         *)
(* whatever became of the first attempt, the chain sees one deposit.        *)
THEOREM DepositedOnceTheorem == ServiceSpec => []DepositedOnce
<1>1. ServiceInv => DepositedOnce
  BY DEF ServiceInv, Linked, CallsTracked, OneDepositPerKey, DepositedOnce, IsDeposit, Unsent
<1> QED BY <1>1, ServiceInvariant, PTL

(* A row that says RELEASED or REFUNDED never changes again: the contract   *)
(* lets one of two racing outcomes through, and the service writes it only. *)
THEOREM FinalRowsStayTheorem == ServiceSpec => FinalRowsStay
<1> DEFINE A == \A k \in Keys : rows[k].status \in {"RELEASED", "REFUNDED"} => rows'[k] = rows[k]
<1>1. ASSUME ServiceInv, [ServiceNext]_allVars, NEW k \in Keys,
             rows[k].status \in {"RELEASED", "REFUNDED"}
      PROVE  rows'[k] = rows[k]
  <2> USE <1>1 DEF ServiceInv, Linked
  <2>1. rows[k] # NoRow /\ RowKnown(k) /\ rows[k].id # NoId /\ rows[k] \in Row
    <3>1. rows[k] # NoRow
      BY DEF NoRow
    <3> QED BY <3>1, RowTyped DEF RowsKnown, RowKnown
  <2>2. CASE UNCHANGED rows
    BY <2>2
  <2>3. ASSUME NEW c \in Calls, NEW j \in Keys, CreateRow(c, j)
        PROVE  rows'[k] = rows[k]
    BY <2>1, <2>3 DEF CreateRow, KeyUnused, EscrowTables
  <2>4. ASSUME NEW c \in Calls, WriteLocked(c) \/ WriteFailed(c)
        PROVE  rows'[k] = rows[k]
    <3>1. IsDeposit(c) /\ calls[c].pc # "done"
      BY <2>4 DEF WriteLocked, WriteFailed, CallsTracked, IsDeposit, NoCall
    <3>2. RowOf(c).id = NoId
      BY <3>1, NoIdYet
    <3>3. calls[c].key # k
      BY <2>1, <3>2 DEF RowOf
    <3>4. \E row : rows' = [rows EXCEPT ![calls[c].key] = row]
      BY <2>4 DEF WriteLocked, WriteFailed, UpdateStatus
    <3> QED BY <3>3, <3>4 DEF EscrowTables
  <2>5. ASSUME NEW c \in Calls, WriteReleased(c) \/ WriteRefunded(c)
        PROVE  rows'[k] = rows[k]
    <3>1. IsClosing(c) /\ txs[c].state = "applied"
      BY <2>5 DEF WriteReleased, WriteRefunded, CallsTracked, IsClosing, NoCall
    <3>2. /\ RowOf(c).id = calls[c].id
          /\ escrows[calls[c].id].status = Outcome(calls[c].kind)
      BY <3>1 DEF ClosingsKnown
    <3>3. CASE calls[c].key # k
      BY <2>5, <3>3 DEF WriteReleased, WriteRefunded, UpdateStatus, EscrowTables
    <3>4. CASE calls[c].key = k
      <4>1. rows[k].status =
              IF calls[c].kind = "release" THEN "RELEASED" ELSE "REFUNDED"
        BY <2>1, <2>5, <3>2, <3>4 DEF RowKnown, RowOf, Outcome, WriteReleased, WriteRefunded
      <4>2. rows' = [rows EXCEPT ![k] = [rows[k] EXCEPT !.status = rows[k].status]]
        BY <2>5, <3>4, <4>1 DEF WriteReleased, WriteRefunded, UpdateStatus, RowOf
      <4>3. [rows[k] EXCEPT !.status = rows[k].status] = rows[k]
        BY <2>1 DEF Row
      <4> QED BY <4>2, <4>3 DEF EscrowTables
    <3> QED BY <3>3, <3>4
  <2>6. UNCHANGED rows \/ \E c \in Calls :
          \/ \E j \in Keys : CreateRow(c, j)
          \/ WriteLocked(c) \/ WriteFailed(c) \/ WriteReleased(c) \/ WriteRefunded(c)
    BY DEF ServiceNext, ServiceStep, allVars, serviceVars, Outside, ReleaseForUser,
           RefundForUser, GetOwnedEscrow, Submit, Confirm, Fail, Abandon, Include, Drop
  <2> QED BY <2>2, <2>3, <2>4, <2>5, <2>6
<1>2. ServiceInv /\ [ServiceNext]_allVars => [A]_allVars
  BY <1>1
<1> QED BY <1>2, ServiceInvariant, PTL DEF ServiceSpec, FinalRowsStay

-----------------------------------------------------------------------------
(* The customer's account *)

(* Whoever is about to insert a key has had it funded; as long as there is *)
(* no key nobody was told one.                                             *)
AccountInv ==
  /\ Provision!AccountsTypeOK
  /\ Provision!OneAccount
  /\ \A p \in Askers : asking[p].pc = "insert" => p \in funded
  /\ account = Provision!NoKey => \A p \in Askers : asking[p].pc # "answered"

LEMMA AccountInvKept == AccountInv /\ [Provision!AccountsNext]_accountVars => AccountInv'
<1> SUFFICES ASSUME AccountInv, [Provision!AccountsNext]_accountVars PROVE AccountInv'
  OBVIOUS
<1> USE AskersAssumption DEF AccountInv, Provision!AccountsTypeOK, Provision!OneAccount,
        Provision!At, Provision!GoTo, Provision!Answer
<1>1. ASSUME NEW c \in Askers, Provision!Find(c)
      PROVE  AccountInv'
  BY <1>1 DEF Provision!Find
<1>2. ASSUME NEW c \in Askers, Provision!MakeKey(c)
      PROVE  AccountInv'
  BY <1>2 DEF Provision!MakeKey
<1>3. ASSUME NEW c \in Askers, Provision!Insert(c)
      PROVE  AccountInv'
  BY <1>3 DEF Provision!Insert
<1>4. ASSUME NEW c \in Askers, Provision!AskFails(c)
      PROVE  AccountInv'
  BY <1>4 DEF Provision!AskFails
<1>5. CASE UNCHANGED accountVars
  BY <1>5 DEF accountVars
<1> QED BY <1>1, <1>2, <1>3, <1>4, <1>5 DEF Provision!AccountsNext

LEMMA AccountInvariant == ServiceSpec => []AccountInv
<1>1. ServiceInit => AccountInv
  BY DEF ServiceInit, AccountInv, Provision!AccountsInit, Provision!AccountsTypeOK,
         Provision!OneAccount, Provision!At
<1>2. [ServiceNext]_allVars => [Provision!AccountsNext]_accountVars
  BY DEF ServiceNext, allVars
<1> QED BY <1>1, <1>2, AccountInvKept, PTL DEF ServiceSpec

(* However many requests find no account and each make a key, they are told *)
(* one key, the one the row keeps, and it has been funded.                  *)
THEOREM OneAccountTheorem == ServiceSpec => []OneAccount
<1>1. AccountInv => OneAccount
  BY DEF AccountInv, OneAccount
<1> QED BY <1>1, AccountInvariant, PTL

(* Tables, calls, transactions and accounts keep their types; deadlines     *)
(* written to a row are within the width of a ledger sequence.              *)
THEOREM ServiceTypeCorrect == ServiceSpec => []ServiceTypeOK
<1>1. ServiceInv /\ AccountInv => ServiceTypeOK
  BY DEF ServiceInv, AccountInv, EscrowTables, ServiceTypeOK
<1> QED BY <1>1, ServiceInvariant, AccountInvariant, PTL
=============================================================================
