---------------------------- MODULE PortPayments ----------------------------
(***************************************************************************)
(* Payments of the FastAPI port (apps/api-py): send_payment, the           *)
(* reconciliation job of each instance, the reconcile endpoint, the        *)
(* stream, and the administrators' decisions, all on the transactions      *)
(* table.  Each of them works on a copy of a row that its database session *)
(* has loaded: a commit writes the attributes it has changed since, no     *)
(* others, and does not look at what the row has become.                   *)
(***************************************************************************)
EXTENDS Integers, FiniteSets

CONSTANTS
  Requests,      \* calls of send_payment
  Keys,          \* idempotency keys; also names the row of the key
  Shapes,        \* destination, amount and asset code of a payment
  Instances,     \* processes that run the reconciliation job
  Sessions,      \* bound: rows looked at against Horizon at a time
  Decisions,     \* bound: decisions of administrators
  DecisionKeys,  \* Idempotency-Key headers of decisions
  Others,        \* bound: payments that were not sent from here
  MaxAttempts,   \* looks after which a row is given up (5)
  None,          \* no row, no hash, no code
  Over           \* a decision that was made

ASSUME AttemptsAssumption == MaxAttempts \in Nat \ {0}

VARIABLES
  requests,  \* calls of send_payment
  network,   \* envelopes that were handed over and may still be applied
  ledger,    \* payments that were applied, by hash
  rows,      \* transactions
  age,       \* time since last_reconciled_at: 0, past the cooldown, stale or never
  looks,     \* history: fruitless looks at a row
  sessions,  \* sessions that reconcile a row
  jobs,      \* per instance: the job's lock and the ids of its pass
  decisions, \* administrators' calls
  answered   \* ADMIN_DECISION_IDEMPOTENCY: the keys it holds

chain == <<network, ledger>>
table == <<rows, age, looks>>
job == <<sessions, jobs>>
admin == <<decisions, answered>>
vars == <<requests, chain, table, job, admin>>

Invented == "approved_tx_hash"
Hash == Requests \cup Others \cup {Invented}
Code == {"SUBMIT_FAILED", "RECONCILIATION_EXPIRED", "REJECTED_BY_ADMIN"}
Row == [status : {"PENDING", "SUCCESS", "FAILED"}, hash : Hash \cup {None},
        code : Code \cup {None},
        retries : Nat, shape : Shapes]

ASSUME NamesAssumption == None \notin Row /\ None \notin Hash \cup Code /\ None # Over

Request == [pc : {"insert", "refresh", "submit", "ok", "refused", "error"}, key : Keys, shape : Shapes,
            row : Row \cup {None}]

(* The envelope of a request is its own: the request's name is its hash.   *)
Envelope(r) == [hash |-> r, key |-> requests[r].key, shape |-> requests[r].shape]
Payment == [hash : Requests \cup Others, key : Keys \cup {None}, shape : Shapes]

TypeOK ==
  /\ requests \in [Requests -> Request \cup {None, Over}]
  /\ network \subseteq Payment
  /\ ledger \subseteq Payment
  /\ rows \in [Keys -> Row \cup {None}]
  /\ age \in [Keys -> 0..2]
  /\ looks \in [Keys -> 0..MaxAttempts]
  /\ sessions \in [Sessions -> [by : Instances \cup {None}, key : Keys, row : Row] \cup {None}]
  /\ jobs \in [Instances -> [locked : BOOLEAN, due : SUBSET Keys]]
  /\ decisions \in [Decisions -> [op : {"approve", "reject"}, key : Keys, row : Row,
                                  header : DecisionKeys \cup {None}] \cup {None, Over}]
  /\ answered \subseteq DecisionKeys

Init ==
  /\ requests = [r \in Requests |-> None]
  /\ network = {}
  /\ ledger = {}
  /\ rows = [k \in Keys |-> None]
  /\ age = [k \in Keys |-> 2]
  /\ looks = [k \in Keys |-> 0]
  /\ sessions = [s \in Sessions |-> None]
  /\ jobs = [j \in Instances |-> [locked |-> FALSE, due |-> {}]]
  /\ decisions = [d \in Decisions |-> None]
  /\ answered = {}

-----------------------------------------------------------------------------
\* Mutant: all attributes are written.
WriteAll(loaded, set) == [rows EXCEPT ![loaded.key] = set]

(* A commit of the SQLAlchemy session: of the attributes it set, those     *)
(* that differ from what it had loaded are written.                        *)
Flush(loaded, set) ==
  [k \in Keys |-> IF k # loaded.key THEN rows[k]
     ELSE [f \in DOMAIN rows[k] |-> IF set[f] = loaded.row[f] THEN rows[k][f] ELSE set[f]]]

Goto(r, pc) == requests' = [requests EXCEPT ![r].pc = pc]
At(r, pcs) == requests[r] \notin {None, Over} /\ requests[r].pc \in pcs
Return(r) == requests' = [requests EXCEPT ![r] = Over]

-----------------------------------------------------------------------------
(* PaymentsService.send_payment *)

(* The look-up of the key; a row that is there is what the call returns.   *)
Send(r, k, shape) ==
  /\ requests[r] = None
  /\ requests' = [requests EXCEPT ![r] =
       IF rows[k] = None THEN [pc |-> "insert", key |-> k, shape |-> shape, row |-> None] ELSE Over]
  /\ UNCHANGED <<chain, table, job, admin>>

\* Mutant: no unique index, the second insert replaces the first.
KeyAlwaysUnused(k) == TRUE

(* The unique index on idempotency_key.                                    *)
KeyUnused(k) == rows[k] = None

NewRow(shape) == [status |-> "PENDING", hash |-> None, code |-> None, retries |-> 0, shape |-> shape]

(* The insert of a key taken since the look-up raises; the call fails.     *)
Insert(r) ==
  LET k == requests[r].key
  IN /\ At(r, {"insert"})
     /\ IF KeyUnused(k)
        THEN rows' = [rows EXCEPT ![k] = NewRow(requests[r].shape)] /\ Goto(r, "refresh")
        ELSE Return(r) /\ UNCHANGED rows
     /\ UNCHANGED <<chain, age, looks, job, admin>>

(* The call reads back the row it inserted, which others may have taken up *)
(* by then: it was never reconciled, and so is stale from the first.       *)
Refresh(r) ==
  /\ At(r, {"refresh"})
  /\ requests' = [requests EXCEPT ![r].pc = "submit", ![r].row = rows[requests[r].key]]
  /\ UNCHANGED <<chain, table, job, admin>>

(* submit_transaction answers, or raises while the envelope is on its way. *)
Submit(r) ==
  /\ At(r, {"submit"})
  /\ \/ /\ ledger' = ledger \cup {Envelope(r)}
        /\ Goto(r, "ok")
        /\ UNCHANGED network
     \/ Goto(r, "refused") /\ UNCHANGED chain
     \/ Goto(r, "error") /\ network' \in {network, network \cup {Envelope(r)}} /\ UNCHANGED ledger
  /\ UNCHANGED <<table, job, admin>>

(* What the call makes of the row it has read.  PENDING is most often what *)
(* the row was then, and is not written.                                   *)
Outcome(r) ==
  LET row == requests[r].row
  IN CASE requests[r].pc = "ok" -> [row EXCEPT !.status = "SUCCESS", !.hash = r]
       [] requests[r].pc = "refused" -> [row EXCEPT !.status = "FAILED", !.code = "SUBMIT_FAILED"]
       [] OTHER -> [row EXCEPT !.status = "PENDING"]

WriteOutcome(r) ==
  /\ At(r, {"ok", "refused", "error"})
  /\ rows' = Flush(requests[r], Outcome(r))
  /\ Return(r)
  /\ UNCHANGED <<chain, age, looks, job, admin>>

(* The database fails or the process ends before the commit.               *)
Abandon(r) ==
  /\ requests[r] \notin {None, Over}
  /\ Return(r)
  /\ UNCHANGED <<chain, table, job, admin>>

-----------------------------------------------------------------------------
(* The Stellar network *)

Land(p) ==
  /\ network' = network \ {p}
  /\ ledger' = ledger \cup {p}
  /\ UNCHANGED <<requests, table, job, admin>>

(* Somebody else pays the same destination.                                *)
OtherPayment(o, shape) ==
  /\ \A p \in ledger : p.hash # o
  /\ ledger' = ledger \cup {[hash |-> o, key |-> None, shape |-> shape]}
  /\ UNCHANGED <<requests, network, table, job, admin>>

-----------------------------------------------------------------------------
(* PaymentsService.reconcile_transaction: load a row, ask Horizon, commit. *)
(* The job, the endpoint and the stream differ in which rows they load.    *)

Pending(k) == rows[k] # None /\ rows[k].status = "PENDING"

(* Bound: a settled row, which the endpoint takes too, is looked at once   *)
(* after its last attempt.                                                 *)
Load(s, k, by) ==
  /\ sessions[s] = None
  /\ rows[k] # None
  /\ Pending(k) \/ rows[k].retries <= MaxAttempts
  /\ sessions' = [sessions EXCEPT ![s] =
       [by |-> by, key |-> k, row |-> rows[k]]]

(* The cooldown of the endpoint is over for a row not looked at for 15 s,  *)
(* the job takes pending rows not looked at for RECONCILIATION_STALE_MS.   *)
PastCooldown(k) == age[k] >= 1
Stale(k) == Pending(k) /\ age[k] = 2

(* reconcile_transaction_endpoint takes rows in any status.                *)
LoadForEndpoint(s, k) ==
  /\ PastCooldown(k)
  /\ Load(s, k, None)
  /\ UNCHANGED <<requests, chain, table, jobs, admin>>

(* The stream loads the pending rows when somebody subscribes, and comes   *)
(* to each in its turn.                                                    *)
LoadForStream(s, k) ==
  /\ Load(s, k, None)
  /\ rows[k].status = "PENDING"
  /\ UNCHANGED <<requests, chain, table, jobs, admin>>

WorksFor(s, j) == sessions[s] # None /\ sessions[s].by = j

(* run_once: a pass selects ids under the lock of its process.             *)
StartPass(j) ==
  /\ ~jobs[j].locked
  /\ \E k \in Keys : Stale(k)
  /\ jobs' = [jobs EXCEPT ![j] = [locked |-> TRUE, due |-> @.due \cup {k \in Keys : Stale(k)}]]
  /\ UNCHANGED <<requests, chain, table, sessions, admin>>

(* Each id is loaded in a session of its own, whatever its row has become. *)
LoadForJob(s, k, j) ==
  /\ k \in jobs[j].due
  /\ Load(s, k, j)
  /\ jobs' = [jobs EXCEPT ![j].due = @ \ {k}]
  /\ UNCHANGED <<requests, chain, table, admin>>

EndPass(j) ==
  /\ jobs[j].locked
  /\ jobs[j].due = {}
  /\ ~\E s \in Sessions : WorksFor(s, j)
  /\ jobs' = [jobs EXCEPT ![j].locked = FALSE]
  /\ UNCHANGED <<requests, chain, table, sessions, admin>>

\* Mutant: the amount and the asset are not compared.
MatchesAnything(row) == {None} \cup {p.hash : p \in ledger}

(* find_matching_payment: a payment to the destination, of the amount and  *)
(* asset code, whoever sent it and whenever; none when Horizon fails or it *)
(* is not among the last 50.  The ledger only grows, so that the question  *)
(* can be put right before the commit.                                     *)
FindMatchingPayment(row) == {None} \cup {p.hash : p \in {q \in ledger : q.shape = row.shape}}

Found(row, hash) == [row EXCEPT !.status = "SUCCESS", !.hash = hash]
Expired(row) ==
  [row EXCEPT !.retries = @ + 1, !.status = "FAILED", !.code = "RECONCILIATION_EXPIRED"]

\* Mutant: the count restarts whenever a row is loaded.
CountedAfresh(row) == [row EXCEPT !.retries = 1]

\* Mutant: given up one look too early.
CountedHastily(row) ==
  IF row.retries + 2 >= MaxAttempts THEN Expired(row) ELSE [row EXCEPT !.retries = @ + 1]

Counted(row) ==
  IF row.retries + 1 >= MaxAttempts THEN Expired(row) ELSE [row EXCEPT !.retries = @ + 1]

(* What the session makes of the row it has loaded.                        *)
Commit(s) ==
  LET seen == sessions[s]
  IN /\ seen # None
     /\ \E found \in FindMatchingPayment(seen.row) :
          /\ rows' = Flush(seen, IF found = None THEN Counted(seen.row) ELSE Found(seen.row, found))
          /\ looks' = [looks EXCEPT ![seen.key] = IF found = None /\ @ < MaxAttempts THEN @ + 1 ELSE @]
     /\ age' = [age EXCEPT ![seen.key] = 0]
     /\ sessions' = [sessions EXCEPT ![s] = None]
     /\ UNCHANGED <<requests, chain, jobs, admin>>

(* The database fails in a session.  In the job this makes gather raise:   *)
(* the lock is given back although other rows of the pass are under way.   *)
SessionFails(s) ==
  /\ sessions[s] # None
  /\ sessions' = [sessions EXCEPT ![s] = None]
  /\ jobs' = [j \in Instances |-> [jobs[j] EXCEPT !.locked = @ /\ ~WorksFor(s, j)]]
  /\ UNCHANGED <<requests, chain, table, admin>>

GrowsOld(k) ==
  /\ age[k] < 2
  /\ age' = [age EXCEPT ![k] = @ + 1]
  /\ UNCHANGED <<requests, chain, rows, looks, job, admin>>

-----------------------------------------------------------------------------
(* admin_router *)

(* A decision without an Idempotency-Key, or with one not answered yet.    *)
LoadForDecision(d, op, k, header) ==
  /\ decisions[d] = None
  /\ rows[k] # None
  /\ header \notin answered
  /\ decisions' = [decisions EXCEPT ![d] = [op |-> op, key |-> k, row |-> rows[k], header |-> header]]
  /\ UNCHANGED <<requests, chain, table, job, answered>>

(* approve leaves a row alone that it has loaded as SUCCESS; reject takes  *)
(* any row.                                                                *)
Decided(op, row) ==
  IF op = "reject" THEN [row EXCEPT !.status = "FAILED", !.code = "REJECTED_BY_ADMIN"]
  ELSE IF row.status = "SUCCESS" THEN row
       ELSE [row EXCEPT !.status = "SUCCESS", !.hash = Invented]

Decide(d) ==
  LET c == decisions[d]
      early == c.op = "approve" /\ c.row.status = "SUCCESS"
  IN /\ c \notin {None, Over}
     /\ rows' = Flush(c, Decided(c.op, c.row))
     /\ answered' = IF early THEN answered ELSE answered \cup ({c.header} \ {None})
     /\ decisions' = [decisions EXCEPT ![d] = Over]
     /\ UNCHANGED <<requests, chain, age, looks, job>>

(* An instance restarts: its pass, its sessions and the keys it remembered *)
(* are gone.  Calls that it served are abandoned one by one.               *)
Restart(j) ==
  /\ jobs' = [jobs EXCEPT ![j] = [locked |-> FALSE, due |-> {}]]
  /\ sessions' = [s \in Sessions |-> IF WorksFor(s, j) THEN None ELSE sessions[s]]
  /\ decisions' = [d \in Decisions |-> IF decisions[d] = None THEN None ELSE Over]
  /\ answered' = {}
  /\ UNCHANGED <<requests, chain, table>>

-----------------------------------------------------------------------------
SendPayment(r) ==
  \/ \E k \in Keys, shape \in Shapes : Send(r, k, shape)
  \/ Insert(r)
  \/ Refresh(r)
  \/ Submit(r)
  \/ WriteOutcome(r)
  \/ Abandon(r)

Reconcile(s) ==
  \/ \E k \in Keys : LoadForEndpoint(s, k) \/ LoadForStream(s, k)
  \/ \E k \in Keys, j \in Instances : LoadForJob(s, k, j)
  \/ Commit(s)
  \/ SessionFails(s)

Next ==
  \/ \E r \in Requests : SendPayment(r)
  \/ \E p \in network : Land(p)
  \/ \E s \in Sessions : Reconcile(s)
  \/ \E j \in Instances : StartPass(j) \/ EndPass(j) \/ Restart(j)
  \/ \E k \in Keys : GrowsOld(k)
  \/ \E o \in Others, shape \in Shapes : OtherPayment(o, shape)
  \/ \E d \in Decisions :
       Decide(d) \/ \E op \in {"approve", "reject"}, k \in Keys, header \in DecisionKeys \cup {None} :
                      LoadForDecision(d, op, k, header)

Spec == Init /\ [][Next]_vars

(* Time passes, sessions proceed, users keep asking for their rows at the  *)
(* endpoint, and looks that are cut short again and again are done in the  *)
(* end.  The job's passes happen or not: nothing in the repository starts  *)
(* its loop.                                                               *)
Look(k) == \E s \in Sessions : sessions[s] # None /\ sessions[s].key = k /\ Commit(s)

Fairness ==
  /\ \A s \in Sessions : WF_vars(Commit(s))
  /\ \A k \in Keys : WF_vars(GrowsOld(k)) /\ SF_vars(Look(k)) /\ SF_vars(\E s \in Sessions : LoadForEndpoint(s, k))

FairSpec == Spec /\ Fairness

-----------------------------------------------------------------------------
(* However many requests race with one key past the look-up, the index     *)
(* lets one of them pay (send_payment).                                    *)
PaidAtMostOnce ==
  \A p, q \in ledger \cup network : p.key = q.key /\ p.key # None => p = q

(* An idempotency key behaves as PaymentIntent says, for one sender: a row *)
(* keeps its terms through all commits, and whatever is paid under its key *)
(* has the terms it was bound to.                                          *)
NotBound == [status |-> "Absent"]
Sender == "sender"
IntentOf(k) == IF rows[k] = None THEN NotBound ELSE [user |-> Sender, shape |-> rows[k].shape]
Sent == {p \in ledger : p.key # None}
PaidFor(p) == [id |-> p.hash, key |-> p.key, terms |-> [user |-> Sender, shape |-> p.shape]]
Intent == INSTANCE PaymentIntent WITH
  Users <- {Sender}, Unbound <- NotBound,
  intent <- [k \in Keys |-> IntentOf(k)],
  paid <- {PaidFor(p) : p \in Sent}
IntentSpec == Intent!Spec

(* A SUCCESS row that no administrator has approved names a payment of its *)
(* terms on the ledger, although each commit writes only the half of the   *)
(* row that changed since it was loaded (reconcile_transaction, approve).  *)
SuccessIsBacked ==
  \A k \in Keys : rows[k] # None /\ rows[k].status = "SUCCESS" =>
    rows[k].hash = Invented \/ \E p \in ledger : p.hash = rows[k].hash /\ p.shape = rows[k].shape

(* No row expires before it was looked at in vain MaxAttempts times: the   *)
(* job, the endpoint and the stream count from copies, and can only lose   *)
(* counts (reconcile_transaction).                                         *)
ExpiredAfterAllLooks ==
  \A k \in Keys : rows[k] # None =>
    /\ \A n \in 1..MaxAttempts : rows[k].retries >= n => looks[k] >= n
    /\ rows[k].code = "RECONCILIATION_EXPIRED" => looks[k] = MaxAttempts

(* A settled row becomes PENDING again only by a call of send_payment that *)
(* read it settled already, between its insert and its submission.  Once   *)
(* no such call is left the row stays settled, whatever stale copies the   *)
(* others hold (send_payment, reconcile_transaction, the decisions).       *)
ReadSettled(r, k) ==
  /\ At(r, {"submit", "ok", "refused", "error"})
  /\ requests[r].key = k
  /\ requests[r].row.status # "PENDING"
Unread(k) == \A r \in Requests : ~ReadSettled(r, k) /\ (At(r, {"refresh"}) => requests[r].key # k)
SettledForGood(k) == rows[k] # None /\ rows[k].status # "PENDING" /\ Unread(k)
SettledStaysSettled == [][\A k \in Keys : SettledForGood(k) => SettledForGood(k)']_vars

(* No row that its user keeps asking for stays PENDING: sessions may lose  *)
(* each other's counts, yet the limit is reached in the end.               *)
PendingEnds == \A k \in Keys : Pending(k) ~> ~Pending(k)
=============================================================================
