# MixMatch on-chain payments: TLA+ models and proofs

Specifications of the parts of MixMatch that move money or tell users what became
of it: the Soroban escrow contract, the NestJS service that calls it, ordinary
and high-value Stellar payments, the jobs that settle what was left open,
SEP-24 transfers with their page, the event stream with the mobile screen it
feeds, and the FastAPI port of the API. Each module is written from the source
(the line ranges are in `PROJECT.json`, `map`). TLC checks the modules on small
instances, and TLAPS proves the theorems of the `*Proofs` modules for every value
of the constants.

    tlc -workers 2 -config MCPayments.cfg MCPayments.tla      # one run
    tlapm PaymentsProofs.tla                                  # one proof module

## 1. The system

| component | state it keeps | operations | modules |
|---|---|---|---|
| Escrow contract, `contracts/escrow/src/lib.rs` | `NextId`, `Escrow(id)` | `deposit`, `release`, `refund` | `Escrow`, `EscrowLifecycle`, `EscrowProofs` |
| Escrow service, `apps/api/.../escrow.service.ts`, `packages/stellar/src/escrow.ts` | `escrows` table | deposit, release, refund on a user's behalf; build, submit and poll an invocation | `EscrowService`, `EscrowServiceProofs` |
| Payment submission, `payments.service.ts`, `packages/stellar/src/payment.ts`, `path-payment.ts`, `payment-errors.ts` | `transactions` table | `sendPayment`, retries on a sequence conflict | `Payments`, `PathQuote`, `PaymentIntent`, `PaymentsProofs` |
| Reconciliation, `reconciliation.job.ts`, `payments.service.ts` | none of its own | job passes, status and reconcile requests | `Payments` |
| High-value payments, `payments.service.ts`, `packages/stellar/src/multisig.ts` | `PENDING_SIGNATURE` rows, `multisig_configured` | configure an account, sign and keep an envelope, approve, reject | `HighValue`, `PaymentIntent`, `HighValueProofs` |
| Payment event stream, `payments.service.ts`, `packages/stellar/src/streaming.ts` | subscription, cursor, reconnect timer, events being resolved | subscribe, deliver, reconnect, resolve, close | `PaymentStream`, `PaymentsScreen`, `FeedProofs`; `Payments!OnEvent` among the row's other writers |
| Mobile client, `apps/mobile` | list of payments, connection, poll timer | load the history, follow the stream, poll, send | `PaymentsScreen` (the payments screen) |
| Account provisioning, `payments.service.ts` | `stellar_accounts` | `getOrCreateStellarAccount`, Friendbot | `Accounts`, composed into `EscrowService`; `EscrowServiceProofs` |
| Anchor transfers (SEP-24), `anchor.service.ts`, `packages/stellar/src/sep/sep24.ts` | `anchor_transactions` | initiate, refresh, status, history | `Anchor`, `AnchorProofs` |
| Web client, `apps/web/app/anchor` | the anchor page's list | load, submit, refresh, open the link | `Anchor`; the other pages are not modelled |
| FastAPI port: payments, `apps/api-py/.../service.py`, `reconciliation_job.py`, `router.py`, `admin_router.py` | `transactions`, a lock and an idempotency cache per process | send, job, endpoint, stream, approve, reject | `PortPayments`, `PaymentIntent`, `PortPaymentsProofs` |
| FastAPI port: anchors and escrow, `anchor_service.py`, `escrow_service.py` | a circuit breaker per process, `escrows` | refresh with retries; deposit, release, refund, reconcile | `PortAnchor`, `PortEscrow`, composed by `Port`, `PortProofs` |
| Path quotes, `path-payment.ts`, `resolvePathQuote` | none of its own; the quote is kept in the row | best path of a page, `destMin` and `sendMax` by a slippage in basis points | `PathQuote`, extended by `Payments` |
| SEP-10 authentication, `sep10.ts`, `sep10.py` | none | challenge and answer | a step of `Anchor` that works or throws |
| Trustlines, Vault signing, users and login, taste module, metrics, deployment | none that matters here | | not modelled (section 6) |

How they interact: a request handler of the API works on one row of a table and
calls the Stellar network between two updates of it. Other processes (a retry
of the same request, the reconciliation job, a status request, a stream, an
administrator) read and update the same row meanwhile. Nothing locks a row.
The only atomic steps are single SQL statements, the unique index on
`idempotency_key`, the inclusion of a transaction in a ledger, and the
rollback of a failing contract call. Updates are by id alone and do not look
at the status the row has by then. The FastAPI port differs in one respect: its
sessions write back those attributes that differ from the copy they loaded.

What is hard about each of them:

* *Escrow contract*: everything is atomic, the difficulty is in sequences of
  calls, in several tokens behind one balance, and in the ends of the `u32`
  ledger sequence and the `u64` counter.
* *Escrow service*: an invocation outlives the call that sent it. The row can
  be abandoned in `PENDING`, the deposit land after `FAILED`, two calls race
  to close one escrow, and anyone may crank a refund on chain.
* *Payments*: the answer of Horizon may be lost while the transaction is
  still valid; a retry with a new sequence number is a second transaction;
  all payments of one account compete for the next number; a database failure
  after a payment is caught as a failure of the payment.
* *Reconciliation*: it recognises a payment by destination, asset, amount and
  time, among the last 50 that the account sent or received, and does not look
  at the sender; what it writes it decided before it awaited Horizon.
* *High-value payments*: whether an account is multisig is known twice, by a
  flag and by the ledger; two administrators decide on one row at once.

* *Accounts*: every first request of a user makes a key; one insert survives.
* *Anchor transfers*: the anchor moves on its own; refreshes of one transfer
  overlap, are written in any order, and reach the page in yet another; a
  transfer exists at the anchor before it has a row.
* *Event stream and screen*: a subscriber leaves while its account is looked
  up, while a reconnect is timed, while an event is resolved; pushed updates
  and answers to history requests overwrite each other.
* *FastAPI port*: job, endpoint, stream, handler and administrators commit from
  copies of one row; locks, caches and the breaker are per process, and the
  process restarts.

What makes each of them correct is said by the properties below. All hazards,
each at its line, are in `PROJECT.json`, `hazards`, with the properties that
would catch them going wrong; a note says what a property leaves open.

## 2. Modules and the code

Common conventions. A step is what one process does between two awaits. A
restart or an error that ends a call without an update is an action
(`Abandon`, `Abort`, `RequestFails`, `AbandonDecision`) that forgets the
call's local variables and leaves tables and ledger alone. A row exists or is
`NoRow`; its idempotency key is its name, as the index is unique. Data is kept
only as far as a property tells it apart. A local variable that is never read
again is reset when its call ends, which only merges equivalent states.
Loading an account, building, signing and handing over a transaction are one
step: whatever happens between them can as well happen while the transaction
waits in the network, before it is looked at.

### Escrow, EscrowLifecycle

One action per contract call that succeeds (`Deposit`, `Release`, `Refund`). An
`Err`, or a trap in the token contract, is rolled back by the host with all
its effects, so the early returns of the code are guards; calls that fail do
nothing. `auth` holds the accounts that signed the transaction of the last
step; `payer.require_auth()` is `payer \in auth'`. The token contracts are
external: a transfer needs a balance, and a trustline of the receiver. Both
limits of width are in the model (`DeadlineFits` is `checked_add` on the
ledger sequence, `AdvanceNextId` on the counter), parameterised by `MaxU32`
and `MaxU64`, so that a small instance reaches them. `Donate` and
`ChangeTrust` are what others may do to the balances the contract relies on.

`EscrowLifecycle` is the promise to payer and payee without balances, tokens
or counters: an id is locked once and closed once, by the payer or, as a
refund only, once its deadline has passed. `Escrow!Lifecycle` is the refinement
mapping, `LifecycleSpec` the property.

Not modelled: storage TTL and archival of entries. Of the source itself: the
error enum (`lib.rs:42-53`) lacks the `InvalidParty` that `lib.rs:91` returns,
so the file does not compile as it stands; the model takes the variant as
declared. `README.md` of the contract speaks of panicking on a timeout that
overflows where the code returns `InvalidTimeout`; both roll back.

### EscrowService

Extends `Escrow`: the contract's variables are the chain, and every inclusion
(`Include`) is one of the contract's actions (`DepositToEscrow`,
`ReleaseEscrow`, `RefundEscrow`) called with the row's terms and the payer's
signature. `CreateRow`, `Submit`, `Confirm`, `Fail`, `WriteLocked`,
`WriteReleased`, `WriteRefunded`, `WriteFailed`, `Abandon` are the steps of
`depositForUser`, `releaseForUser` and `refundForUser`; `GetOwnedEscrow` reads
the row for the latter two, once, before the call goes on to wallet and
network. `WriteLocked` reads the new escrow back by the id its transaction
returned (`GetEscrow`). `Fail` stands for every error between building and reading the
escrow back, the polling timeout included; the transaction stays `flying` and
may still be included. `Outside` is the rest of the world at the contract:
ledgers, cranked refunds, deposits by accounts the service does not hold.
Sequence numbers of the service's own accounts are not kept: `Drop` may take
any invocation, which allows all outcomes of a conflict and more.

The payer's account comes from `Accounts`, which `EscrowService` instantiates:
`Provision` is one step of the look-up, the key, Friendbot and the insert of
`getOrCreateStellarAccount`, by any request that needs the account, and the
deposits of a user without one wait for it.

### Payments, PaymentIntent

`handlers` are running `sendPayment` calls, `network` the transactions handed
to Horizon and still includable, `payments` what is on the ledger, `workers`
the reconciliation job and the viewers (status and reconcile requests, stream
events) with the row they look at and the update they have decided on.
A transaction's identity is the record of the fields its hash covers (account,
sequence number, terms, memo, time bounds): two attempts that build the same
bytes are one transaction, which matters for retries. `ReplyLost`, `Refuse` and
`ReplyOk` are the three answers to a submission; `ShouldRetry` is the loop
condition of `submitPayment`, `FailWith` the classification of errors by the
one thing the properties need: whether the answer excludes that the
transaction is ever applied. `ForAccount` is Horizon's list, payments to the account
included: those of other users, and of strangers (`PaidByStranger`); `OwnerOf`
says whose account a payee is, as nothing forbids to pay oneself. `Matches` is
the comparison the code makes, which leaves the sender out, for the job, a
status request and a stream event alike. `CloseTime` truncates to whole seconds as
Horizon does; `createdAt` does not.

`PathQuote`, which `Payments` extends, is what a request asks for, what a page of
Horizon's paths makes of it (`ResolvePathQuote`), and the outcomes that the
operation built from the quote leaves to the market (`Outcomes`): a strict send
may deliver any amount from `destMin` on, a strict receive take any amount up to
`sendMax`. Amounts are integers in units of 10^-7. `destMin` and `sendMax` are
computed in doubles; the exact product is off by at most `FloatError` units,
one being enough below some 2^50 units (over a hundred million tokens), and
`toFixed` then rounds `destMin` to the nearest unit. A request's quote is chosen
with the request (`Shapes`), since the page is free anyway; `QuoteFails` is the
page without a path, before any row. `FailWith` after the insert and
`QuoteFails` before it are the two ends of a failed path payment.

`PaymentIntent` is the promise of an idempotency key: bound once, to one
account and one payment, then paid at most once, on those terms. `Payments`,
`HighValue` and, for one sender, `PortPayments` are shown to implement it.

`packages/stellar/src/payment.ts` does not compile as it stands
(`MAX_SEQUENCE_ATTEMPTS` is not defined, a class statement is left in the middle
of a function, `txHash` is never assigned). The model takes the loop as
written and the number of attempts as the constant `MaxAttempts`. The row of a
status request that finds no account is not modelled: the foreign key's
cascade makes it unreachable. `lookupPayment` and `resubmitPayment` have no
caller. Whether a payment is above the threshold is an input: `Payments` has
those below it, `HighValue` those above.

### HighValue

`requests` run `sendHighValuePayment`, `decisions` are administrators'
approve and reject calls. `signers` says who must sign for an account on the
ledger: the owner, or for what needs the high threshold the owner and the
admin; `Authorised` is the network's check of signatures, which refuses a
missing and a superfluous one. The flag is read with the account (`ReadAccount`),
used after the look-up of the key, and set after the configuration is
confirmed; all other requests of the account run in between. An envelope has a
sequence number and a time window, so it can be applied at most once and not
for ever. `ApproveFails` is the catch block, which also receives a failure of
the SUCCESS update. `Resolve` writes by id alone, clears the envelope, and
leaves a `failure_code` that is there.

### Anchor

`anchor` is what the anchor says of each transfer, which moves by itself
(`AnchorMoves`), but no further than expiry until the user has opened its link
(`opened`). `calls` are requests the API is serving or has answered, `page` the
list the user sees. `CreateAtAnchor`, `DescribeNew`, `RecordNew` are the awaits
of `initiate`; `AskAnchor` and `WriteRefresh` the two halves of
`refreshFromAnchor`, one pair for a status request and a pair for every row in
progress of a history, which all run in parallel; `Answered` is the read of the
rows a history answers with. `Merge` keeps a field that the answer lacks, as
`updateFromAnchor` does. `Received` is what the page does with an answer, by the
kind of request. Statuses are kept as far as the code tells them apart:
waiting for the user, in progress, completed, failed, expired.

### PaymentStream, PaymentsScreen

`PaymentStream` is `streamTransactionUpdates` over `streamAccountPayments`: the
account look-up (`LookupReturns`, with the subscriber perhaps gone), Horizon's
stream and its position, the timer armed by an error, and events that are
resolved concurrently in two awaits (`Check`, `Write`). It keeps one row, and of a
payment whether the row can be settled by it: because it is the row's own, or
another of its terms, which the code cannot tell from it. The row's other
writers (`writers`) are its handler and one reader (the job or a status
request) that took it up as PENDING; like `Write` they update by id, over
whatever the row has become. `From` is where a stream begins: without a cursor
none is sent, not even `now`, and Horizon may begin with the oldest payment or
the next.

`PaymentsScreen` extends it by the screen that subscribes: its token, tab,
connection, the flag `streamAvailable`, history requests in flight by what they
will answer (`loads`), the row as the list shows it. `Leave` takes the token;
`CleanUp`, the clean-up of the effect, aborts the stream in a step of its own, so
that updates and failures still come in between. Only a start of the app brings
a token again (`Mount`), as logging out leaves the screen where it is and
`AuthShell` keeps a user of its own; what a screen without a token shows is not
followed. `SendEnds` is the handler's write and the answer to the form in one,
as the history request the answer starts may take any time itself. `Poll` is
the 15 s interval, which runs only after the stream has failed. `ApiCrash` ends
the server's side and every request at once. `loads` counts, as two requests with
the same answer are alike.

### PortPayments

`Flush(loaded, set)` is a commit of a SQLAlchemy session: only attributes whose
value differs from the loaded copy are written, so a commit can put half of
an outcome over half of another. `Refresh` is a window in the code: the row is
read back after its insert, and what others made of it by then is the copy
`send_payment` goes on with. `Load` and `Commit` are `reconcile_transaction`,
reached from the job (`LoadForJob`, of ids selected at `StartPass`), from the
endpoint (past its cooldown, any status) and from the stream. `looks` is a
history variable: the unsuccessful looks there have been. `Invented` is the hash
that an approval makes up. `age` stands for the time since the last look, in
the units the code compares it with. `Restart` forgets the process's lock, cache
and sessions.

Nothing in the repository starts the job (`main.py:1-46`, the Dockerfile runs
uvicorn only); `StartPass` is for a deployment that does. The safety properties
hold with and without it, and liveness does not assume it. The race of
`get_or_create_stellar_account` is that of `Accounts` and is not repeated.

### Port, PortAnchor, PortEscrow

`Port` is one process: `Restart` takes the breaker, its refreshes and the escrow
calls together. `PortAnchor` is the breaker with the refreshes that were let
through, each of which goes on counting whatever the breaker has become; in
this port the poll is simulated, so that `up` is external. `PortEscrow` is the
port's `escrows` table, where hashes and on-chain ids are made up and no chain
refuses a second closing.

## 3. What is checked

The runs (`PROJECT.json`, `runs`); the numbers are distinct states.

| run | instance | properties |
|---|---|---|
| `escrow` | 2 accounts with 1 of each of 2 tokens, 2 ids, deadlines 1 and 2, `MaxU32` = `MaxU64` = 2 (153,623) | `ContractBalance`, `AccountsBalance`, `IdsInOrder`, `FinalIsFinal`, `LifecycleSpec`, `FundsNeverStuck` |
| `escrow_service` | 4 calls, 2 keys, 2 escrow ids, 2 requests for the account (402,759) | `RowsTellTheTruth`, `NoSharedEscrow`, `DepositedOnce`, `OneAccount`, `FinalRowsStay` |
| `payments` | 3 requests, 2 keys, 1 account, 2 attempts (387,768) | `PaidAtMostOnce`, `RefusalIsFinal`, `IntentSpec` |
| `payments_reconcile` | 2 requests: a user pays herself by a strict receive, another user her by a strict send that may come to the same amount; a stranger's payment, the job, a viewer (2,164,078) | `SuccessIsBacked`, `QuoteKept` |
| `payments_liveness` | 2 requests, the job (171,102) | `PendingResolves` |
| `high_value` | 2 requests, 2 keys, 1 account, 2 decisions (1.1 million) | `EnvelopeNeedsAdmin`, `SuccessIsBacked`, `IntentSpec` |
| `anchor` | 1 transfer, 2 requests at a time, the page (84,776) | `SettledRowsMatch`, `ShownSettledMatch`, `MoneyIsTracked`, `RowsSettle` |
| `port_payments` | 2 requests with 1 key, the job, 1 session, 1 decision, 1 other payment (1,203,773) | `IntentSpec`, `SuccessIsBacked`, `SettledStaysSettled` |
| `port_liveness` | 1 request, 2 instances, 2 sessions that look at the row at a time, given up after 3 looks (373,604) | `ExpiredAfterAllLooks`, `PendingEnds` |
| `port` | 2 refreshes, breaker limit 3, 2 attempts; 3 escrow calls on 1 key (147,396) | `ClosedBelowLimit`, `ClosedAsWritten`, `StaysClosed`, `ClosesAgain` |
| `feed` | 2 payments, 1 event resolved at a time, 2 history requests in flight, a handler and a reader (920,625) | `ClosedIsSilent`, `NoGap`, `ShownSuccessIsPaid`, `ReturningUserSees`, `WaitingUserSees` |
| `high_value_rejected` | as `high_value` | `RejectedIsNeverPaid`, which is violated |

The type invariants are proved (section 4) and therefore in no run.

What the properties say:

* `ContractBalance`, `AccountsBalance`: after any calls, in any order, over any
  tokens, the contract holds exactly what its locked escrows record (plus
  direct gifts), and every account what it should.
* `IdsInOrder`, `FinalIsFinal`: an id is never handed out twice or skipped, a
  final escrow never changes, terms never change.
* `LifecycleSpec`, `FundsNeverStuck`: nobody but the payer closes early or pays
  the payee; if the payer goes silent the escrow still becomes final.
* `RowsTellTheTruth`: a `LOCKED`, `RELEASED` or `REFUNDED` row names an escrow of
  its terms, a final row the right outcome, whatever answers were lost.
* `NoSharedEscrow`, `DepositedOnce`, `FinalRowsStay`: two rows never stand for
  one escrow, a retry never deposits again, a final row is never rewritten
  although the code does not look: the contract lets one closing call through.
* `PaidAtMostOnce`, `IntentSpec`: no key is paid twice, nor on other terms than
  its row's.
* `RefusalIsFinal`: where Horizon turned the payment down, `FAILED` is the truth,
  now and later.
* `SuccessIsBacked`: `SUCCESS` always has a payment on the ledger, made after the
  row, to its payee, which its terms cannot tell from the row's own. It left the
  row's account, unless the row pays that very account: then anybody's payment
  to it will do, as the code never compares the sender. Whether the row's own
  payment landed is not said, and not so (below).
* `QuoteKept`: that payment delivered no less than the row's quote with the
  accepted slippage, up to the rounding, even where reconciliation took another
  payment of the account for the row's own; and where it was built from the
  row, it took no more than the quote and the slippage.
* `PendingResolves`: no row stays PENDING. NEEDS_REVIEW is one of the ends: a
  payment that reconciliation misses (truncated time, a moved amount, more than
  50 payments since) ends there, and the property does not say otherwise.
* `EnvelopeNeedsAdmin`: from the moment an envelope signed by the owner is
  built until it is decided upon, the ledger wants the admin's signature too.

* `OneAccount`: whoever was told a key of an account was told the one its row
  keeps, and on testnet that one is funded.
* `SettledRowsMatch`, `ShownSettledMatch`: what table and page say of a transfer
  that is over is how it ended, in every field, whichever answer was written
  or arrived last. A settled row may go back to pending by an older answer;
  `RowsSettle` says that it does not stay there.
* `MoneyIsTracked`: a transfer that goes anywhere at the anchor has its row,
  whatever failed while it was created.
* `ClosedIsSilent`: a subscription that ends leaves neither a connection to
  Horizon nor a timer. `NoGap`: it resumes exactly after its last event.
  `ShownSuccessIsPaid`: the list never shows a row as paid before a payment of
  its terms is on the ledger, its own or one like it. `ReturningUserSees`, `WaitingUserSees`: a user who
  keeps coming back to the history, or waits on it after the stream failed,
  ends up seeing what became of the payment.
* `IntentSpec`, `SuccessIsBacked` of the port: as above, with `Flush` in
  between, which must not put one commit's terms over another's; an approval's invented hash is the only SUCCESS without a payment.
* `ExpiredAfterAllLooks`: counts of overlapping looks may be lost, never added.
  `PendingEnds`: and are not lost for ever, so that a row its user keeps asking
  for is settled in the end.
* `SettledStaysSettled`: a settled row becomes PENDING again only by the call of
  `send_payment` that inserted it and had read it back as settled already
  (the window of `Refresh`); once no call holds such a copy, never.
* `ClosedBelowLimit`, `ClosesAgain`: the breaker is closed exactly below its limit,
  and closes when the anchor is back. `ClosedAsWritten`, `StaysClosed`: a closed
  escrow row has the hash of the call that closed it last, and stays closed
  once no call holds it as PENDING.

Every property has a mutant in `PROJECT.json`: a change of one definition that a
plausible slip in that code would make, under which TLC finds the property
violated in the same run.

**Bounds, and why they are enough.** Two actors of each kind that compete
(requests for one key, decisions on one row, calls on one escrow) show every
order of two; a third request in `payments` lets two share a key while another
takes the account's sequence number, and four calls in `escrow_service` are a
deposit and its retry, a release and a refund. Ids, sequence numbers, and
ledger numbers end at small constants that the runs reach, so the guards at
the limits fire. Clocks stop at `MaxNow`, chosen one step past the longest
window of the run, so that every window is seen open, at its end, and closed.
`LastArrival` (a guard of `CreateTransaction`) leaves each row the time to be
settled before the clock stops; `MaxSeq` bounds only the other transactions
of an account in `HighValue`. Symmetry is used in runs with safety properties
only.

`AskersFirst` (an action constraint of `escrow_service`) lets the requests for the
account end before the escrows move; it loses no escrow state, as its comment
argues. `MCToAlice` (a constraint of `payments_reconcile`) keeps the instances in
which a user's payment to herself, the other user's and the stranger's can come
to be taken for each other: the amounts 10, 11, 19 and 20 are those which half a
percent of slippage and one unit of rounding can and cannot reach. Escalation is
beyond that run's clock and left to `payments_liveness`. In `anchor` one transfer is enough, as transfers share
nothing but the page's `refreshing` field and the histories that carry them;
the proofs are for any number. `MaxLoads` bounds history requests in flight at
one answer and one that overtakes it; `MaxPayments` at two, one that settles the
row and another before or after it, and `MaxResolving` the events of them that
are resolved at a time. A row of the port is looked at up to its limit
(`MaxAttempts` is 5 in the code; three show a count that is lost to an overlapping
look and counted again, the proof is for any) and once more when it is settled (`Load`). Breaker limit and attempts of
`port` are those at which two refreshes can pass the limit together. The
counters stay within these bounds by guards that are named in their modules.

**Deadlock.** `CHECK_DEADLOCK FALSE` where all calls may be over and the clock at
its bound: that is the end of the bounded instance, not of the program.

**Fairness.** `Escrow!FairSpec`: ledgers close, and somebody cranks a refund that
needs nobody's signature and stays possible, as the contract's README supposes;
nobody is obliged to sign. `Payments!FairSpec`: time passes; the interval timer
starts a pass when there is a stale row (weak fairness, `setInterval` in
`reconciliation.job.ts`); and the job's query and update of a row are strongly
fair, because passes can be cut short again and again (`Abort`) and the
assumption is that they are not cut short every time before the same row. The
code does not see to that: the loop of `reconcilePendingTransactions` has no
`try` around a row, so that one whose reconciliation always throws keeps those
behind it from being looked at.
Handlers, viewers and the network have no fairness at all.

`Anchor!FairSpec`: the API goes on with what it serves, the user keeps coming
back to the page and to an unsettled row, and what is tried again and again
works once (strong fairness of asking the anchor, writing its answer, and
getting a history to the page): the code has no timer of its own, so without
returning users nothing would be learned. `PortPayments!FairSpec`: time passes,
sessions proceed, users keep asking for their rows at the endpoint, and a row
whose look is cut short again and again is looked at in the end; nothing is
assumed of the job, which nothing starts. `Port`: refreshes go on, time passes, and users keep asking
(weak fairness of `Probe`, which is what lets an open breaker try). The feed:
only the poll and the arrival of what was asked for are fair, the latter
strongly; nothing is assumed of the stream, which may fail at any time.

### Where the code does not do what its documentation says

One is a run with a counterexample (`PROJECT.json`, `findings`):

* `high_value_rejected`: `payments.service.ts:325-328` says that a rejected
  payment is marked FAILED "without ever attempting submission"; an approval
  under way pays it, as both decisions check the status once and update by id.

The others show in one or two steps of one actor, which a reader can follow
without a model checker:

* A row of `escrows` is FAILED although its deposit succeeds, when polling gives
  up first (`escrow.service.ts:108`), where `contracts/escrow/README.md:224-226`
  takes a failed row for a failed deposit.
* A row of `transactions` is FAILED while its payment is on the ledger: for a lost
  answer, and when the SUCCESS update fails, which is inside the same `try`
  (`payments.service.ts:180,189`). `packages/shared/src/types/payments.ts:2-5`
  tells NEEDS_REVIEW from "a confirmed failure".
* A confirmed SUCCESS is overwritten with NEEDS_REVIEW by a pass that found no
  match before (`payments.service.ts:621`).
* `destAmount` of a strict-send is the quote's, not "the exact amount the
  recipient receives" (`types/payments.ts:30`, `payments.service.ts:144`).
* `destMin` is not "floored" (`path-payment.ts:21`): `toFixed` rounds to the
  nearest unit, so it may be half a unit above the exact bound.
* `multisig_configured` (`schema.ts:123-126`) stays false for an account whose
  configuration landed without being recorded, and no later payment can set it
  (`payments.service.ts:252`).

And what the feed's properties leave out, because the code does:

* A payment is matched by destination, asset, amount and time, never by its
  sender or its own hash (`payments.service.ts:651-661,772-785`). A row can be SUCCESS
  although its own payment never landed, if another of the same terms did: of
  another row of the account or, where a row pays the account it is sent from,
  of anybody. No document promises otherwise.
* A stream that fails before its first event has no cursor, and none is sent
  (`streaming.ts:87-90`): the next may begin with what comes then, or with the
  account's oldest payment, and what landed in between is left to
  reconciliation.
* A stream that ends cleanly does not reach `onError` (`payments-client.ts:120-124`),
  so the poll does not start: `WaitingUserSees` is about streams that fail. The
  stream of a user without an account ends that way (`payments.service.ts:727`).
* The preview a user confirms is a quote of its own (`previewPath`); the payment
  quotes again (`payments.service.ts:123-144`) and bounds itself by that second
  quote. `QuoteKept` is about the second; nothing ties it to the first.
* `SendPaymentForm.tsx:45` sends no idempotency key: a second press of the button
  is a second payment. `PaidAtMostOnce` is per key.

## 4. What is proved

From the named assumptions on the constants alone (`AccountsAssumption`,
`InputAssumption`, `WidthAssumption`, `CustomersAssumption`, `CrankAssumption`,
`AskersAssumption`, `ClockAssumption`, `QuoteAssumption`, `BoundsAssumption`,
`AttemptsAssumption`, `NamesAssumption`, `LimitsAssumption`,
`MaxPaymentsAssumption`, `MaxResolvingAssumption`, `MaxLoadsAssumption`), for any numbers of accounts, tokens,
requests, keys, readers, transfers, sessions and calls, and any widths, windows
and limits.

* **EscrowProofs**. `TypeCorrect`: balances never go negative, ids and deadlines
  stay in their widths. `IdsInOrderTheorem`: ids below the counter exist and no
  others, with `TypeOK` as the strengthening. `FinalIsFinalTheorem`: needs
  `IdsInOrder`, since a deposit overwrites whatever is at `nextId`.
  `ImplementsLifecycle`: the refinement, step by step; a donation, a trustline
  or a ledger maps to `Elapse`. `ContractBalanceTheorem` and
  `AccountsBalanceTheorem` are about sums over sets of escrows. A sum is the
  number of units there are (`Total`, the cardinality of the set of pairs of an
  escrow and the number of a unit in it), so that what a step adds or takes is
  a disjoint union with finitely many pairs (`TotalIn`, `TotalOut`) and needs no
  induction. `Books` is both balances with the finiteness of the units; a deposit
  adds one fresh entry (`FreshEntry`), a release or a refund moves one from the
  locked ones (`MovedEntry`), and the token moves by the same amount between the
  same two balances (`TransferMoves`).
* **EscrowServiceProofs**. `ServiceInv` is the contract's `TypeOK` and `IdsInOrder`
  with `Linked`, which ties a call to its row, its transaction and the escrow on
  chain: a call's view of its transaction is true (`CallsTracked`), a key has one
  deposit call (`OneDepositPerKey`), an applied deposit made an escrow of its row's
  terms, and of its own (`DepositsMade`, `DepositsDiffer`), a row's id comes from its
  deposit, which is over (`RowsKnown`), and an applied closing call is what closed
  the escrow (`ClosingsKnown`). Since every step of the service is one of the
  contract's or leaves it alone (`ContractStep`), `ServiceUsesContract` is the
  refinement `ServiceSpec => Spec`, and `ServiceKeepsBooks` carries over what
  EscrowProofs proves. `RowsTellTheTruthTheorem`, `NoSharedEscrowTheorem` and
  `DepositedOnceTheorem` follow from the invariant. `FinalRowsStayTheorem`, an action
  property, needs in addition that a row is created only where there is none and
  that the other outcome's transaction cannot have been applied, because the
  contract's entry would have had both. `AccountInv` (whoever is about to insert
  has been funded, and without a key nobody was told one) gives `OneAccountTheorem`.
* **PaymentsProofs**. `PaidAtMostOnce` is not inductive. The invariant `IInv`
  says how a payment comes about: requests with a transaction about have their
  row, of their terms (`RowsFirst`, `HashesAgree`); among the requests for a key
  only one is ever past the insert (`OneOwner`); a request that is about to
  build has no transaction about (`NoneBefore`), since only a conflict, which
  consumes the transaction, leads back; hence one transaction per request
  (`OneTransaction`). `RefusedClear` adds that a definite refusal leaves
  nothing behind. `Invariance` proves it; `PaymentsTypeCorrect`,
  `PaidAtMostOnceTheorem`, `RefusalIsFinalTheorem` and `ImplementsIntent` follow.
  `RInv` adds reconciliation: what a handler or a reader is about to write is
  backed by a payment already (`PaidHolds`, `WritesHold`), and since a step never
  takes away a payment, a row's terms or its time (`Grows`), it still is however
  late the write comes. `SentHolds` gives the handler's half, `CloseTimeBefore`
  the reader's: a truncated close time is never later than the payment.
  `PageOnLedger` and `MatchBacks` say what a match among the account's payments is
  worth, and `StrangerBacks` that what strangers pay disturbs nothing.
  `SuccessIsBackedTheorem` follows. `QuoteKeptTheorem`
  needs in addition that every payment is an outcome of the quote its
  transaction was built from (`PaidFromQuotes`), and that an outcome keeps its
  quote (`OutcomesKeepQuote`), which is arithmetic over any amounts and errors.
* **HighValueProofs**. `IInv` is `TypeOK`, `Prepared` (a call that waits has its
  transaction, a decision its row) and `Believed`: the flag, a request that saw
  it, a request past the configuration, and a waiting row each imply that the
  ledger has both signers. It holds because signers are only ever added
  (`SignersStay`) and because each of these facts is recorded after the ledger
  changed. `HighValueTypeCorrect` and `EnvelopeNeedsAdminTheorem` follow.
  `JInv` strengthens it by what makes many decisions
  on one row harmless: `EnvelopesOf(k)` collects the envelope in the row, its
  copies in administrators' calls and those given to the network, and
  `OneEnvelope` says that all of them are one transaction, `OnTerms` that it has
  the row's terms. With `NumbersUsed` (an applied transaction's number is used
  up) no second payment of a key can be included. `SuccessIsBackedTheorem` and
  `ImplementsIntent`, the refinement of `PaymentIntent`, follow.

* **AnchorProofs**. `Past(a, t)` says that `a` is something the anchor said of
  `t`: a settled answer is the last one, and an amount once known stays known.
  Everything held anywhere is past (`RowsArePast`, `PageIsPast`, `Holds` of each
  call), so it does not matter in which order it is written or shown; `Merge`
  keeps it so. `OpenedHaveRows` and `MovedWereOpened` give `MoneyIsTracked`.
* **PortPaymentsProofs**. `CopyOf` says what a copy, however old, knows of its row:
  the row is there, of the same terms, has a hash if the copy has, was looked at
  no less. `CommitHolds` is then about `Flush`: the half that is written and the
  half that is kept still make a row that is backed and counted (`RowHolds`).
  `OneOwner` and `Unpaid` give `PaidAtMostOnce`. `PortImplementsIntent`, the
  refinement of `PaymentIntent`, adds that no commit touches a row's terms
  (`TermsStay`) and that what is in the network or on the ledger has them
  (`PaidHaveRows`). `SettledStaysSettled` is an action
  property, proved step by step from the same invariant; it speaks of rows for
  which no call of `send_payment` is left that read them settled or has yet to.
* **PortProofs**. The breaker's limit is inductive with its types; the escrows
  need that a call which closes a row holds one that was deposited (`CallHolds`),
  and that nobody takes up a closed row as PENDING.
* **FeedProofs**. Whoever writes SUCCESS has seen a payment of the row's terms, and
  the ledger keeps it (`PaidStays`), so that however late the write, the answer
  or the update comes, the payment is there: `PaidFirst` for the row and what was
  pushed, `ResolveHolds` for what is being resolved, `ScreenInv` for answers and
  list. `Positioned` with `ClosedIsSilent` makes `NoGap` inductive: a subscription that
  is not live has forgotten its cursor.

Only model-checked: liveness (`FundsNeverStuck`, `PendingResolves`, `RowsSettle`,
`PendingEnds`, `ClosesAgain`, `ReturningUserSees`, `WaitingUserSees`), which the
prover cannot do. Every other property of a run that passes has its theorem.

## 5. Plan

Done: the escrow contract and its service, payments, path quotes, high-value
payments, and their abstract specifications; account provisioning, anchor
transfers, the event stream with the mobile screen, the FastAPI port; proofs of
all safety and action properties (section 4).

Left, most useful first:

1. An abstract specification of a transfer as a user sees it, implemented by
   `Anchor`, and one of a payment feed, implemented by `PaymentsScreen`; their
   refinement proofs beside the existing invariants.

## 6. Not modelled

* *Trustlines*: one transaction is built, submitted and forgotten; no row, no
  retry.
* *Vault transit signing*, key generation and encryption: cryptography behind a
  call that works or throws, as which it is in the modules that use it.
* *Users and authentication*: registration is one insert whose unique violation
  is handled; login and tokens keep no state the modules read. A screen's token
  is `PaymentsScreen!token`; that every component of the app which calls `useAuth`
  keeps a token of its own is not modelled.
* *SEP-10 validation*: one pass over an argument, without state.
* *FastAPI port: metrics, taste cron, users, streaming*, and the *taste module*:
  counters for monitoring, and stubs that keep nothing.
* *Storage TTL and archival* of contract entries, and fees.
* Encodings (XDR, StrKey, memos beyond equality), HTTP and validation of input
  formats, logging, tracing, user interfaces other than the two pages above,
  deployment and traffic splitting. They keep no state the properties depend
  on, or are pure input and output.
