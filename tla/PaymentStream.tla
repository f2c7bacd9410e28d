--------------------------- MODULE PaymentStream ----------------------------
(***************************************************************************)
(* GET /payments/stream of apps/api: PaymentsService.streamTransactionUp-  *)
(* dates over streamAccountPayments of packages/stellar, which follows     *)
(* Horizon's payment stream of the account and reconnects after its last   *)
(* event; and resolveStreamEvent, which settles the PENDING row an event   *)
(* matches and pushes it to the subscriber.                                *)
(*                                                                         *)
(* One user with one transaction row and one subscriber.  How terms are    *)
(* compared is modelled by Payments; here a payment is one that the row    *)
(* can be settled by (its own, or another that its terms cannot tell from  *)
(* it) or any other.  The handler and reconciliation write the row too, by *)
(* its id alone.                                                           *)
(***************************************************************************)
EXTENDS Integers, Sequences, FiniteSets

CONSTANTS
  MaxPayments,   \* bound: payments of the account
  MaxResolving   \* bound: events being resolved

VARIABLES
  account,     \* the user has a stellar_accounts row
  payments,    \* the account's payments on the ledger; the index is the paging token
  row,         \* status of the transaction row
  writers,     \* who else holds the row, to write what they make of it
  sub,         \* the subscription
  stream,      \* the Horizon stream: position and reconnect timer
  last,        \* lastPagingToken; 0 before the first event
  resolving,   \* calls of resolveStreamEvent
  wire         \* updates pushed and not read yet

ASSUME MaxPaymentsAssumption == MaxPayments \in Nat
ASSUME MaxResolvingAssumption == MaxResolving \in Nat

streamVars == <<account, payments, row, writers, sub, stream, last, resolving, wire>>
subVars == <<sub, stream, last, resolving, wire>>

Statuses == {"none", "PENDING", "SUCCESS", "FAILED", "NEEDS_REVIEW"}
Settled(s) == s \notin {"none", "PENDING"}

Kinds == {"alike", "other"}
Writers == {"handler", "reader"}

(* A stream without a position is not connected.                           *)
Off == -1
Silent == [at |-> Off, timer |-> FALSE]
Positions == 0 .. MaxPayments
Resolve == [event : 1 .. MaxPayments, pc : {"check", "write"}, heard : BOOLEAN]

StreamTypeOK ==
  /\ account \in BOOLEAN
  /\ payments \in Seq(Kinds) /\ Len(payments) <= MaxPayments
  /\ row \in Statuses
  /\ writers \subseteq Writers
  /\ sub \in {"none", "lookup", "left", "live", "over"}
  /\ stream \in [at : Positions \cup {Off}, timer : BOOLEAN]
  /\ last \in Positions
  /\ resolving \subseteq Resolve
  /\ wire \in Nat

StreamInit ==
  /\ account = FALSE
  /\ payments = <<>>
  /\ row = "none"
  /\ writers = {}
  /\ sub = "none"
  /\ stream = Silent
  /\ last = 0
  /\ resolving = {}
  /\ wire = 0

(* The row's own payment is on the ledger, or one like it.                 *)
Paid == \E i \in 1 .. Len(payments) : payments[i] = "alike"

-----------------------------------------------------------------------------
(* The ledger and the row's other writers *)

(* getOrCreateStellarAccount, modelled by Accounts.                        *)
GetAccount ==
  /\ account' = TRUE
  /\ UNCHANGED <<payments, row, writers, subVars>>

Land ==
  /\ Len(payments) < MaxPayments
  /\ \E kind \in Kinds :
       /\ IF kind = "alike" THEN row # "none" ELSE account
       /\ payments' = Append(payments, kind)
  /\ UNCHANGED <<account, row, writers, subVars>>

(* sendPayment ends: its payment is applied, or is taken to have failed,   *)
(* or what it writes does not reach the row, whatever that has become.     *)
HandlerWrites ==
  /\ "handler" \in writers
  /\ writers' = writers \ {"handler"}
  /\ row' \in {row, "FAILED"} \cup {s \in {"SUCCESS"} : Paid}
  /\ UNCHANGED <<account, payments, subVars>>

(* reconcileTransaction reads a pending row, looks for a payment of its    *)
(* terms, and writes: the match, an escalation, or nothing yet.            *)
ReaderLoads ==
  /\ row = "PENDING"
  /\ writers' = writers \cup {"reader"}
  /\ UNCHANGED <<account, payments, row, subVars>>

ReaderWrites ==
  /\ "reader" \in writers
  /\ writers' = writers \ {"reader"}
  /\ row' \in {row, "NEEDS_REVIEW"} \cup {s \in {"SUCCESS"} : Paid}
  /\ UNCHANGED <<account, payments, subVars>>

-----------------------------------------------------------------------------
(* The subscription *)

(* Teardown, also after an error or completion: handle.close() clears the  *)
(* timer and closes the stream; what is being resolved goes on unheard.    *)
Teardown ==
  /\ stream' = Silent
  /\ last' = 0
  /\ resolving' = {[r EXCEPT !.heard = FALSE] : r \in resolving}

(* No cursor is sent before the first event, not even "now": the first     *)
(* event may be the next of the account, or its oldest.                    *)
From(cursor) == IF cursor = 0 THEN {0, Len(payments)} ELSE {cursor}

\* Mutant: the look-up does not ask whether the subscriber has left.
LookupReturnsUnasked ==
  /\ \/ sub = "lookup" /\ sub' = "over" /\ UNCHANGED stream
     \/ /\ sub \in {"lookup", "left"} /\ account
        /\ sub' = IF sub = "left" THEN "none" ELSE "live"
        /\ \E at \in From(0) : stream' = [at |-> at, timer |-> FALSE]
     \/ sub = "left" /\ ~account /\ sub' = "none" /\ UNCHANGED stream
  /\ UNCHANGED <<account, payments, row, writers, last, resolving, wire>>

(* The subscriber may have left meanwhile; without an account, or when the *)
(* look-up throws, the stream ends.                                        *)
LookupReturns ==
  /\ \/ sub = "left" /\ sub' = "none" /\ UNCHANGED stream
     \/ sub = "lookup" /\ sub' = "over" /\ UNCHANGED stream
     \/ /\ sub = "lookup" /\ account
        /\ sub' = "live"
        /\ \E at \in From(0) : stream' = [at |-> at, timer |-> FALSE]
  /\ UNCHANGED <<account, payments, row, writers, last, resolving, wire>>

Deliver ==
  /\ stream.at # Off /\ stream.at < Len(payments) /\ Cardinality(resolving) < MaxResolving
  /\ LET event == stream.at + 1 IN
       /\ stream' = [stream EXCEPT !.at = event]
       /\ last' = event
       /\ resolving' = resolving \cup {[event |-> event, pc |-> "check", heard |-> TRUE]}
  /\ UNCHANGED <<account, payments, row, writers, sub, wire>>

(* onerror closes the stream and arms the timer.                           *)
StreamError ==
  /\ stream.at # Off
  /\ stream' = [at |-> Off, timer |-> TRUE]
  /\ UNCHANGED <<account, payments, row, writers, sub, last, resolving, wire>>

\* Mutant: the reconnect forgets the cursor.
ReconnectNow ==
  /\ stream.timer
  /\ \E at \in From(0) : stream' = [at |-> at, timer |-> FALSE]
  /\ UNCHANGED <<account, payments, row, writers, sub, last, resolving, wire>>

Reconnect ==
  /\ stream.timer
  /\ \E at \in From(last) : stream' = [at |-> at, timer |-> FALSE]
  /\ UNCHANGED <<account, payments, row, writers, sub, last, resolving, wire>>

\* Mutant: any event settles the pending row.
MatchesAnything(event) == row = "PENDING"
Matches(event) == row = "PENDING" /\ payments[event] = "alike"

(* resolveStreamEvent: read the pending rows, then update by id alone.  Of *)
(* several rows of these terms it takes the first, maybe not this one; and *)
(* the payment may be missed.                                              *)
Check(r) ==
  /\ r \in resolving /\ r.pc = "check"
  /\ \/ resolving' = resolving \ {r}
     \/ Matches(r.event) /\ resolving' = (resolving \ {r}) \cup {[r EXCEPT !.pc = "write"]}
  /\ UNCHANGED <<account, payments, row, writers, sub, stream, last, wire>>

Write(r) ==
  /\ r \in resolving /\ r.pc = "write"
  /\ resolving' = resolving \ {r}
  /\ row' = "SUCCESS"
  /\ wire' = IF r.heard THEN wire + 1 ELSE wire
  /\ UNCHANGED <<account, payments, writers, sub, stream, last>>

(* An error of the database ends the subscription it is heard by.          *)
ResolveFails(r) ==
  /\ r \in resolving
  /\ IF r.heard
     THEN /\ sub' = "over"
          /\ stream' = Silent
          /\ last' = 0
          /\ resolving' = {[q EXCEPT !.heard = FALSE] : q \in resolving \ {r}}
     ELSE resolving' = resolving \ {r} /\ UNCHANGED <<sub, stream, last>>
  /\ UNCHANGED <<account, payments, row, writers, wire>>

Subscribe ==
  /\ sub = "none"
  /\ sub' = "lookup"
  /\ UNCHANGED <<account, payments, row, writers, stream, last, resolving, wire>>

Unsubscribe ==
  /\ sub \in {"lookup", "live", "over"}
  /\ sub' = IF sub = "lookup" THEN "left" ELSE "none"
  /\ Teardown
  /\ wire' = 0
  /\ UNCHANGED <<account, payments, row, writers>>

(* The process dies with everything it held.                               *)
StreamCrash ==
  /\ sub' = "none"
  /\ stream' = Silent
  /\ last' = 0
  /\ resolving' = {}
  /\ wire' = 0
  /\ writers' = {}
  /\ UNCHANGED <<account, payments, row>>

Runs == LookupReturns \/ Reconnect \/ Deliver \/ \E r \in resolving : Check(r) \/ Write(r)
Elsewhere == GetAccount \/ Land \/ ReaderLoads \/ ReaderWrites
StreamNext == Elsewhere \/ Runs \/ StreamError \/ \E r \in resolving : ResolveFails(r)

-----------------------------------------------------------------------------

(* A subscription that is not live holds neither a Horizon stream nor a    *)
(* timer that would open one: a subscriber who leaves, during the look-up, *)
(* a reconnect delay or an error, leaves nothing behind.                   *)
ClosedIsSilent == sub # "live" => stream = Silent

(* Having delivered an event, a subscription is connected to Horizon only  *)
(* just after the last one delivered: no payment is skipped or repeated    *)
(* across any number of reconnects.                                        *)
NoGap == sub = "live" /\ last # 0 /\ stream.at # Off => stream.at = last
=============================================================================
