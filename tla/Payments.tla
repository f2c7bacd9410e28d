------------------------------ MODULE Payments ------------------------------
(***************************************************************************)
(* Plain (not high-value) payments in apps/api: request handlers running   *)
(* PaymentsService.sendPayment over the transactions table, the Stellar    *)
(* network they submit to, and the three readers that settle PENDING rows  *)
(* later: the reconciliation job, status/reconcile requests and stream     *)
(* subscriptions.  A step is what one process does between two awaits; a   *)
(* restart of the API is Abandon of its handlers and Abort of its workers. *)
(*                                                                         *)
(* A shape is what a row says of its payment, or the ledger of one: see    *)
(* PathQuote.  The fields a transaction's hash depends on stand for the    *)
(* hash: two requests that build the same transaction within one tick of   *)
(* the clock share one.                                                    *)
(***************************************************************************)
EXTENDS PathQuote

CONSTANTS
  Requests,       \* POST /payments requests, a client's retries included
  Keys,           \* idempotency keys
  Users,          \* users, each with one Stellar account
  OwnerOf,        \* whose account each payee is, a user's or another
  Strangers,      \* bound: payments to users from other accounts, by their hash
  MemoOf,         \* the memo of each request
  Job,            \* the reconciliation job
  Viewers,        \* status requests and stream event handlers in flight
  MaxAttempts,    \* MAX_SEQUENCE_ATTEMPTS
  TxWindow,       \* DEFAULT_TRANSACTION_TIMEOUT_SECONDS
  LedgerTick,     \* a ledger's close time is a multiple of this (one second)
  StaleAfter,     \* reconciliationStaleMs
  EscalateAfter,  \* reconciliationEscalationMs
  LastArrival,    \* bound: requests arrive up to this time
  MaxNow          \* bound: the clock stops here

ASSUME ClockAssumption ==
  /\ {TxWindow, StaleAfter, EscalateAfter, LastArrival, MaxNow} \subseteq Nat
  /\ {MaxAttempts, LedgerTick} \subseteq Nat \ {0}

VARIABLES
  now,        \* Date.now() and the network's time
  rows,       \* transactions table, by its unique idempotency_key
  handlers,   \* the request handlers
  network,    \* signed transactions the network may still include
  payments,   \* successful payments of ours, as Horizon reports them
  incoming,   \* and payments to users from other accounts
  seq,        \* sequence number of each user's account
  workers     \* reconciliation passes and viewers

vars == <<now, rows, handlers, network, payments, incoming, seq, workers>>
chainVars == <<network, payments, incoming, seq>>

(* What requests come to once their quotes are resolved.                   *)
Shapes == UNION {ResolvePathQuote(ask, page) : ask \in Asks, page \in Offers}

NoRow == [status |-> "Absent"]
NoHash == <<>>
Memos == {MemoOf[r] : r \in Requests}
Hashes == [user : Users, seq : Nat, shape : Shapes, memo : Memos, at : Nat]
(* StellarPaymentError kinds by what they tell of the transaction:         *)
(* "refused" is every kind for a payment that was validated and turned     *)
(* down, "unknown" is network_error and unknown.                           *)
Codes == {"none", "refused", "sequence_conflict", "unknown", "reconciliation_escalated"}

OnLedger == Hashes \cup Strangers
Row == [user : Users, shape : Shapes, at : Nat, hash : OnLedger \cup {NoHash}, code : Codes,
        status : {"PENDING", "SUCCESS", "FAILED", "NEEDS_REVIEW"}]
Tx == [hash : Hashes, req : Requests]
Payment == [hash : Hashes, req : Requests, shape : Terms, at : Nat]
Incoming == [hash : Strangers, shape : Terms, at : Nat]
Handler == [pc : {"new", "created", "sent", "paid", "failing", "done"}, key : Keys,
            user : Users, shape : Shapes, attempt : 0..MaxAttempts, hash : Hashes \cup {NoHash}, code : Codes]
NoWrite == [status |-> "none"]
Write == [key : Keys, status : {"SUCCESS"}, hash : OnLedger]
         \cup [key : Keys, status : {"NEEDS_REVIEW"}]
Workers == Viewers \cup {Job}

TypeOK ==
  /\ now \in Nat
  /\ rows \in [Keys -> Row \cup {NoRow}]
  /\ handlers \in [Requests -> Handler]
  /\ network \subseteq Tx
  /\ payments \subseteq Payment
  /\ incoming \subseteq Incoming
  /\ seq \in [Users -> Nat]
  /\ workers \in [Workers -> [todo : SUBSET Keys, write : Write \cup {NoWrite}]]

(* What each request asks for is fixed when it is sent, and the page of    *)
(* paths it will be quoted from may be any, so is fixed with it.           *)
Init ==
  /\ now = 0
  /\ rows = [k \in Keys |-> NoRow]
  /\ handlers \in [Requests ->
       [pc : {"new"}, key : Keys, user : Users, shape : Shapes,
        attempt : {0}, hash : {NoHash}, code : {"none"}]]
  /\ network = {}
  /\ payments = {}
  /\ incoming = {}
  /\ seq = [u \in Users |-> 0]
  /\ workers = [w \in Workers |-> [todo |-> {}, write |-> NoWrite]]

-----------------------------------------------------------------------------
(* The transactions table *)

InsertRow(h) ==
  rows' = [rows EXCEPT ![h.key] =
    [user |-> h.user, shape |-> h.shape, at |-> now, status |-> "PENDING",
     hash |-> NoHash, code |-> "none"]]

(* updateStatus(id, ...): by id alone, whatever the row's status is by now. *)
MarkSuccess(k, hash) ==
  rows' = [rows EXCEPT ![k] = [@ EXCEPT !.status = "SUCCESS", !.hash = hash]]
MarkFailed(k, code) ==
  rows' = [rows EXCEPT ![k] = [@ EXCEPT !.status = "FAILED", !.code = code]]
MarkNeedsReview(k) ==
  rows' = [rows EXCEPT ![k] = [@ EXCEPT !.status = "NEEDS_REVIEW",
                                          !.code = "reconciliation_escalated"]]

-----------------------------------------------------------------------------
(* sendPayment and submitPayment *)

Goto(r, pc) == handlers' = [handlers EXCEPT ![r].pc = pc]
(* The call returns; none of its variables outlive it.  Past the catch,    *)
(* only the error does.                                                    *)
Finish(r) ==
  handlers' = [handlers EXCEPT ![r] =
    [@ EXCEPT !.pc = "done", !.attempt = 0, !.hash = NoHash, !.code = "none"]]
FailWith(r, code) ==
  handlers' = [handlers EXCEPT ![r] =
    [@ EXCEPT !.pc = "failing", !.attempt = 0, !.hash = NoHash, !.code = code]]

\* Mutant: a request with a key already used makes a row of its own again.
KeyAlwaysUnused(k) == TRUE
KeyUnused(k) == rows[k] = NoRow

(* The unique index on idempotency_key lets one insert through; the other  *)
(* requests with that key answer with the row as it is.                    *)
CreateTransaction(r) ==
  /\ handlers[r].pc = "new" /\ now <= LastArrival
  /\ KeyUnused(handlers[r].key)
  /\ InsertRow(handlers[r])
  /\ Goto(r, "created")
  /\ UNCHANGED <<now, workers, chainVars>>

(* Horizon has no path for the two assets, or fails to say: no row.        *)
QuoteFails(r) ==
  /\ handlers[r].pc = "new"
  /\ handlers[r].shape.mode # "plain"
  /\ Finish(r)
  /\ UNCHANGED <<now, rows, workers, chainVars>>

ReturnExisting(r) ==
  /\ handlers[r].pc = "new"
  /\ ~KeyUnused(handlers[r].key)
  /\ Finish(r)
  /\ UNCHANGED <<now, rows, workers, chainVars>>

(* loadAccount, build, sign, and hand over to Horizon.                     *)
BuildAndSubmit(r) ==
  LET h == handlers[r]
      hash == [user |-> h.user, seq |-> seq[h.user] + 1, shape |-> h.shape,
               memo |-> MemoOf[r], at |-> now]
  IN
  /\ h.pc = "created"
  /\ handlers' = [handlers EXCEPT ![r] =
       [@ EXCEPT !.pc = "sent", !.hash = hash, !.attempt = h.attempt + 1]]
  /\ network' = network \cup {[hash |-> hash, req |-> r]}
  /\ UNCHANGED <<now, rows, payments, incoming, seq, workers>>

(* Parameters refused locally, no such account, or Horizon out of reach.   *)
BuildFails(r) ==
  /\ handlers[r].pc = "created"
  /\ \E code \in {"refused", "unknown"} : FailWith(r, code)
  /\ UNCHANGED <<now, rows, workers, chainVars>>

(* Of the errors, only a sequence conflict is retried, and only by plain   *)
(* payments: submitPathPayment has no loop.                                *)
\* Mutant: any error is retried.
RetryAnything(h, code) == h.attempt < MaxAttempts
ShouldRetry(h, code) ==
  code = "sequence_conflict" /\ h.shape.mode = "plain" /\ h.attempt < MaxAttempts

SubmitFails(r, code) ==
  IF ShouldRetry(handlers[r], code) THEN Goto(r, "created") ELSE FailWith(r, code)

ReplyOk(r) ==
  /\ handlers[r].pc = "sent"
  /\ \E p \in payments : p.hash = handlers[r].hash
  /\ Goto(r, "paid")
  /\ UNCHANGED <<now, rows, workers, chainVars>>

(* A timeout or a dropped connection: the transaction may still land.      *)
ReplyLost(r) ==
  /\ handlers[r].pc = "sent"
  /\ SubmitFails(r, "unknown")
  /\ UNCHANGED <<now, rows, workers, chainVars>>

RecordSuccess(r) ==
  /\ handlers[r].pc = "paid"
  /\ MarkSuccess(handlers[r].key, handlers[r].hash)
  /\ Finish(r)
  /\ UNCHANGED <<now, workers, chainVars>>

(* The update is inside the try block, so its failure is caught as the     *)
(* payment's.                                                              *)
SuccessWriteFails(r) ==
  /\ handlers[r].pc = "paid"
  /\ FailWith(r, "unknown")
  /\ UNCHANGED <<now, rows, workers, chainVars>>

RecordFailure(r) ==
  /\ handlers[r].pc = "failing"
  /\ MarkFailed(handlers[r].key, handlers[r].code)
  /\ Finish(r)
  /\ UNCHANGED <<now, workers, chainVars>>

(* The process dies, no wallet can be had (outside the try block), or the  *)
(* failure cannot be written.                                              *)
Abandon(r) ==
  /\ handlers[r].pc \in {"created", "sent", "paid", "failing"}
  /\ Finish(r)
  /\ UNCHANGED <<now, rows, workers, chainVars>>

-----------------------------------------------------------------------------
(* The Stellar network and Horizon's transaction endpoint *)

InSequence(tx) == tx.hash.seq = seq[tx.hash.user] + 1
InWindow(tx) == now <= tx.hash.at + TxWindow
UseSequence(tx) == [seq EXCEPT ![tx.hash.user] = tx.hash.seq]

(* The ledger includes the transaction, at the market's price of the time. *)
Land(tx) ==
  /\ tx \in network /\ InSequence(tx) /\ InWindow(tx)
  /\ \E shape \in Outcomes(tx.hash.shape) :
       payments' = payments \cup
         {[hash |-> tx.hash, req |-> tx.req, shape |-> shape, at |-> now]}
  /\ network' = {t \in network : t.hash # tx.hash}
  /\ seq' = UseSequence(tx)
  /\ UNCHANGED <<now, rows, handlers, incoming, workers>>

(* Validation or the payment itself fails, the latter using the sequence   *)
(* number up; the handler learns of it if it is still there to listen.     *)
Refuse(tx) ==
  /\ tx \in network
  /\ network' = network \ {tx}
  /\ \/ seq' = seq
     \/ InSequence(tx) /\ InWindow(tx) /\ seq' = UseSequence(tx)
  /\ IF handlers[tx.req].pc = "sent" /\ handlers[tx.req].hash = tx.hash
       THEN SubmitFails(tx.req, IF InWindow(tx) /\ ~InSequence(tx)
                                  THEN "sequence_conflict" ELSE "refused")
       ELSE UNCHANGED handlers
  /\ UNCHANGED <<now, rows, payments, incoming, workers>>

(* Somebody else pays one of our users.                                    *)
PaidByStranger(s) ==
  /\ \A p \in incoming : p.hash # s
  /\ \E to \in Payees, amount \in Amounts :
       /\ OwnerOf[to] \in Users
       /\ incoming' = incoming \cup
            {[hash |-> s, at |-> now, shape |-> [to |-> to, mode |-> "plain", source |-> amount,
                                                 dest |-> amount, bps |-> 0]]}
  /\ UNCHANGED <<now, rows, handlers, network, payments, seq, workers>>

-----------------------------------------------------------------------------
(* Reconciliation and streams *)

(* Horizon's payments of an account are those it sent and those it got.    *)
ForAccount(user) ==
  {p \in payments : user \in {p.hash.user, OwnerOf[p.shape.to]}}
    \cup {p \in incoming : OwnerOf[p.shape.to] = user}

(* Horizon gives the close time of the ledger, in whole seconds.           *)
CloseTime(p) == p.at - (p.at % LedgerTick)

(* The row's payee, asset and amount, the latter two as received.          *)
Received(shape) == [to |-> shape.to, amount |-> shape.dest]

\* Mutant: payments older than the row match it as well.
MatchesAnyTime(k, p) == Received(p.shape) = Received(rows[k].shape)
(* Who sent the payment is not asked.                                      *)
Matches(k, p) ==
  /\ Received(p.shape) = Received(rows[k].shape)
  /\ CloseTime(p) >= rows[k].at

Pending(k) == rows[k].status = "PENDING"
IsStale(k) == now - rows[k].at > StaleAfter
\* Mutant: rows are never given up on.
NeverPastWindow(k) == FALSE
IsPastEscalationWindow(k) == now - rows[k].at > EscalateAfter

Become(w, todo, write) == workers' = [workers EXCEPT ![w] = [todo |-> todo, write |-> write]]
Idle(w) == workers[w] = [todo |-> {}, write |-> NoWrite]
SuccessWrite(k, p) == [key |-> k, status |-> "SUCCESS", hash |-> p.hash]
ReviewWrite(k) == [key |-> k, status |-> "NEEDS_REVIEW"]

(* A pass reads its list once; isRunning keeps the job to one at a time.   *)
StartPass ==
  LET stale == {k \in Keys : Pending(k) /\ IsStale(k)} IN
  /\ Idle(Job) /\ stale # {}
  /\ Become(Job, stale, NoWrite)
  /\ UNCHANGED <<now, rows, handlers, chainVars>>

(* POST /:id/reconcile, or GET /:id/status for a stale row.                *)
StartCheck(v, k) ==
  /\ Idle(v) /\ Pending(k)
  /\ Become(v, {k}, NoWrite)
  /\ UNCHANGED <<now, rows, handlers, chainVars>>

(* Horizon answers with a match, or without: there is none, Horizon lags   *)
(* or is out of reach, or the match is not among the last 50 payments.     *)
Query(w, k) ==
  /\ k \in workers[w].todo /\ workers[w].write = NoWrite
  /\ \E write \in {SuccessWrite(k, p) : p \in {p \in ForAccount(rows[k].user) : Matches(k, p)}}
                  \cup {IF IsPastEscalationWindow(k) THEN ReviewWrite(k) ELSE NoWrite} :
       Become(w, workers[w].todo \ {k}, write)
  /\ UNCHANGED <<now, rows, handlers, chainVars>>

(* A stream event finds a row of its account that is PENDING; events come  *)
(* again when the stream reconnects.                                       *)
OnEvent(v, k) ==
  /\ Idle(v) /\ Pending(k)
  /\ \E p \in ForAccount(rows[k].user) : Matches(k, p) /\ Become(v, {}, SuccessWrite(k, p))
  /\ UNCHANGED <<now, rows, handlers, chainVars>>

WriteBack(w) ==
  LET write == workers[w].write IN
  /\ write # NoWrite
  /\ IF write.status = "SUCCESS" THEN MarkSuccess(write.key, write.hash)
                                 ELSE MarkNeedsReview(write.key)
  /\ Become(w, workers[w].todo, NoWrite)
  /\ UNCHANGED <<now, handlers, chainVars>>

(* The database fails, or the process dies: the rest of the pass is lost.  *)
Abort(w) ==
  /\ ~Idle(w)
  /\ Become(w, {}, NoWrite)
  /\ UNCHANGED <<now, rows, handlers, chainVars>>

Tick ==
  /\ now < MaxNow
  /\ now' = now + 1
  /\ UNCHANGED <<rows, handlers, workers, chainVars>>

-----------------------------------------------------------------------------
HandlerStep(r) ==
  \/ QuoteFails(r) \/ CreateTransaction(r) \/ ReturnExisting(r) \/ BuildAndSubmit(r) \/ BuildFails(r)
  \/ ReplyOk(r) \/ ReplyLost(r) \/ RecordSuccess(r) \/ SuccessWriteFails(r)
  \/ RecordFailure(r) \/ Abandon(r)

WorkerStep(w) == (\E k \in Keys : Query(w, k)) \/ WriteBack(w) \/ Abort(w)
ViewerStep(v) == \E k \in Keys : StartCheck(v, k) \/ OnEvent(v, k)

Next ==
  \/ \E r \in Requests : HandlerStep(r)
  \/ \E tx \in network : Land(tx) \/ Refuse(tx)
  \/ \E s \in Strangers : PaidByStranger(s)
  \/ StartPass
  \/ \E v \in Viewers : ViewerStep(v)
  \/ \E w \in Workers : WorkerStep(w)
  \/ Tick

Spec == Init /\ [][Next]_vars

(* The interval timer keeps firing, and whatever cuts passes short does    *)
(* not cut every one of them short before the same row.                    *)
JobWrites(k) == workers[Job].write # NoWrite /\ workers[Job].write.key = k /\ WriteBack(Job)
FairSpec ==
  /\ Spec
  /\ WF_vars(Tick) /\ WF_vars(StartPass)
  /\ \A k \in Keys : SF_vars(Query(Job, k)) /\ SF_vars(JobWrites(k))

-----------------------------------------------------------------------------
(* Properties *)

KeyOf(p) == handlers[p.req].key

(* sendPayment, "Durable idempotency": whatever retries, lost answers and  *)
(* restarts there were, no idempotency key is paid twice.                  *)
PaidAtMostOnce == \A p, q \in payments : KeyOf(p) = KeyOf(q) => p = q

(* A row says SUCCESS only with the hash of a payment that is on the       *)
(* ledger, made after the row: the one built from the row, or one that the *)
(* receiver cannot tell from it.  It left the row's account, unless the    *)
(* row pays that account itself: then anybody's payment will do.           *)
SuccessIsBacked ==
  \A k \in Keys : rows[k].status = "SUCCESS" =>
    \E p \in payments \cup incoming :
      /\ p.hash = rows[k].hash
      /\ p.at >= rows[k].at
      /\ \/ p \in payments /\ rows[k].shape = p.hash.shape
         \/ Received(rows[k].shape) = Received(p.shape)
      /\ \/ p \in payments /\ p.hash.user = rows[k].user
         \/ OwnerOf[rows[k].shape.to] = rows[k].user

(* Between a quote and its payment the market moves.  Whatever payment a   *)
(* row's SUCCESS stands for, its receiver got what the row says, less the  *)
(* accepted slippage; and its sender, if it was built from that row, paid  *)
(* no more than the row says and the slippage (submitPathPayment).         *)
QuoteKept ==
  \A k \in Keys : rows[k].status = "SUCCESS" =>
    \E p \in payments \cup incoming :
      /\ p.hash = rows[k].hash
      /\ p.shape.to = rows[k].shape.to
      /\ NotShort(rows[k].shape, p.shape)
      /\ p \in payments /\ rows[k].shape = p.hash.shape => NotOvercharged(rows[k].shape, p.shape)

(* When Horizon itself turned the payment down, FAILED is the truth: no    *)
(* transaction of that key was applied and none of them still can be.      *)
RefusalIsFinal ==
  \A k \in Keys :
    rows[k].status = "FAILED" /\ rows[k].code \in {"refused", "sequence_conflict"} =>
      /\ \A p \in payments : KeyOf(p) # k
      /\ \A tx \in network : KeyOf(tx) # k

(* An idempotency key behaves as PaymentIntent says.                       *)
IntentOf(k) == IF rows[k] = NoRow THEN NoRow ELSE [user |-> rows[k].user, shape |-> rows[k].shape]
PaidFor(p) == [key |-> KeyOf(p), id |-> p.hash,
               terms |-> [user |-> p.hash.user, shape |-> p.hash.shape]]
Intent == INSTANCE PaymentIntent WITH
  Unbound <- NoRow,
  intent <- [k \in Keys |-> IntentOf(k)],
  paid <- {PaidFor(p) : p \in payments}
IntentSpec == Intent!Spec

(* No row stays PENDING: the handler or reconciliation settles it.         *)
PendingResolves == \A k \in Keys : Pending(k) ~> ~Pending(k)
=============================================================================
