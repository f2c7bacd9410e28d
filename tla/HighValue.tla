------------------------------ MODULE HighValue ------------------------------
(***************************************************************************)
(* Payments above the high-value threshold in apps/api: requests that make *)
(* an account multisig on its first such payment and leave a signed        *)
(* envelope in a PENDING_SIGNATURE row, and admins that co-sign and submit *)
(* it, or reject it.  A step is what one process does between two awaits.  *)
(* The fields its hash depends on stand for a transaction.                 *)
(***************************************************************************)
EXTENDS Integers

CONSTANTS
  Requests,   \* POST /payments requests above the threshold, retries included
  Keys,       \* idempotency keys
  Users,      \* users, each with one Stellar account
  Shapes,     \* destination, amount and memo of a payment
  Decisions,  \* admin requests to approve or reject a row
  TxWindow,   \* DEFAULT_TRANSACTION_TIMEOUT_SECONDS
  MaxSeq,     \* bound: sequence numbers used by other transactions
  MaxNow      \* bound: the clock stops here

ASSUME BoundsAssumption == {TxWindow, MaxSeq, MaxNow} \subseteq Nat

VARIABLES
  now,        \* Date.now() and the network's time
  flag,       \* stellar_accounts.multisig_configured
  rows,       \* transactions table, by its unique idempotency_key
  requests,   \* the sendHighValuePayment calls
  decisions,  \* the approve and reject calls
  signers,    \* on the ledger: who signs for each account
  seq,        \* on the ledger: sequence number of each account
  network,    \* transactions the network may still include
  applied     \* transactions the ledger included, with the row they were for

vars == <<now, flag, rows, requests, decisions, signers, seq, network, applied>>
chainVars == <<signers, seq, network, applied>>
dbVars == <<flag, rows>>

Hashes == [kind : {"configure", "payment"}, user : Users, seq : Nat, at : Nat, shape : Shapes]
NoHash == <<>>
NoRow == [status |-> "Absent"]
Tx == [hash : Hashes, key : Keys]
(* An envelope is there exactly while an admin's signature is awaited.     *)
Row == [status : {"PENDING_SIGNATURE"}, user : Users, shape : Shapes, envelope : Hashes,
        code : {"none"}]
       \cup [status : {"SUCCESS", "FAILED"}, user : Users, shape : Shapes, envelope : {NoHash},
             code : {"none", "submission", "admin_rejected"}]
Request == [pc : {"new", "read", "configure", "configuring", "configured", "build", "built", "done"},
            key : Keys, user : Users, shape : Shapes, multisig : BOOLEAN, hash : Hashes \cup {NoHash}]
NoDecision == [pc |-> "new"]
Over == [pc |-> "done"]
Decision == [pc : {"ready", "sent", "paid", "failing"}, kind : {"approve", "reject"},
             key : Keys, hash : Hashes]

TypeOK ==
  /\ now \in Nat
  /\ flag \in [Users -> BOOLEAN]
  /\ rows \in [Keys -> Row \cup {NoRow}]
  /\ requests \in [Requests -> Request]
  /\ decisions \in [Decisions -> Decision \cup {NoDecision, Over}]
  /\ signers \in [Users -> {"owner", "owner and admin"}]
  /\ seq \in [Users -> Nat]
  /\ network \subseteq Tx
  /\ applied \subseteq Tx

Init ==
  /\ now = 0
  /\ flag = [u \in Users |-> FALSE]
  /\ rows = [k \in Keys |-> NoRow]
  /\ requests \in [Requests -> [pc : {"new"}, key : Keys, user : Users, shape : Shapes,
                                multisig : {FALSE}, hash : {NoHash}]]
  /\ decisions = [d \in Decisions |-> NoDecision]
  /\ signers = [u \in Users |-> "owner"]
  /\ seq = [u \in Users |-> 0]
  /\ network = {}
  /\ applied = {}

-----------------------------------------------------------------------------
(* sendHighValuePayment *)

Goto(r, pc) == requests' = [requests EXCEPT ![r].pc = pc]
(* The call returns; none of its variables outlive it.                     *)
Finish(r) ==
  requests' = [requests EXCEPT ![r] = [@ EXCEPT !.pc = "done", !.multisig = FALSE, !.hash = NoHash]]
NewHash(r, kind) ==
  [kind |-> kind, user |-> requests[r].user, seq |-> seq[requests[r].user] + 1, at |-> now,
   shape |-> requests[r].shape]

(* The account is loaded before anything else, flag included.              *)
ReadAccount(r) ==
  /\ requests[r].pc = "new"
  /\ requests' = [requests EXCEPT ![r] =
       [@ EXCEPT !.pc = "read", !.multisig = flag[requests[r].user]]]
  /\ UNCHANGED <<now, decisions, dbVars, chainVars>>

(* findByIdempotencyKey: a row is returned as it is, whatever its status.  *)
LookUp(r) ==
  /\ requests[r].pc = "read"
  /\ IF rows[requests[r].key] # NoRow THEN Finish(r)
       ELSE Goto(r, IF requests[r].multisig THEN "build" ELSE "configure")
  /\ UNCHANGED <<now, decisions, dbVars, chainVars>>

(* configureMultisig: load, build, sign with the owner's key, submit.      *)
SubmitConfigure(r) ==
  /\ requests[r].pc = "configure"
  /\ LET hash == NewHash(r, "configure") IN
       /\ requests' = [requests EXCEPT ![r] = [@ EXCEPT !.pc = "configuring", !.hash = hash]]
       /\ network' = network \cup {[hash |-> hash, key |-> requests[r].key]}
  /\ UNCHANGED <<now, decisions, dbVars, signers, seq, applied>>

\* Mutant: handing a transaction over counts as its success.
InFlightOrApplied(hash) == \E tx \in network \cup applied : tx.hash = hash
Applied(hash) == \E tx \in applied : tx.hash = hash

ConfigureOk(r) ==
  /\ requests[r].pc = "configuring"
  /\ Applied(requests[r].hash)
  /\ Goto(r, "configured")
  /\ UNCHANGED <<now, decisions, dbVars, chainVars>>

MarkMultisigConfigured(r) ==
  /\ requests[r].pc = "configured"
  /\ flag' = [flag EXCEPT ![requests[r].user] = TRUE]
  /\ Goto(r, "build")
  /\ UNCHANGED <<now, rows, decisions, chainVars>>

(* buildHighValuePaymentEnvelope: signed with the owner's key, kept.       *)
BuildEnvelope(r) ==
  /\ requests[r].pc = "build"
  /\ requests' = [requests EXCEPT ![r] = [@ EXCEPT !.pc = "built", !.hash = NewHash(r, "payment")]]
  /\ UNCHANGED <<now, decisions, dbVars, chainVars>>

(* The insert; if another request was faster its row is returned.          *)
CreateRow(r) ==
  LET q == requests[r] IN
  /\ q.pc = "built"
  /\ rows' = IF rows[q.key] = NoRow
               THEN [rows EXCEPT ![q.key] =
                      [status |-> "PENDING_SIGNATURE", user |-> q.user, shape |-> q.shape,
                       envelope |-> q.hash, code |-> "none"]]
               ELSE rows
  /\ Finish(r)
  /\ UNCHANGED <<now, flag, decisions, chainVars>>

(* An error, of the wallet, the network or the database, ends the call     *)
(* without a row; so does a restart of the API.                            *)
RequestFails(r) ==
  /\ requests[r].pc \notin {"new", "done"}
  /\ Finish(r)
  /\ UNCHANGED <<now, decisions, dbVars, chainVars>>

-----------------------------------------------------------------------------
(* approvePendingSignature and rejectPendingSignature *)

GotoD(d, pc) == decisions' = [decisions EXCEPT ![d].pc = pc]
FinishD(d) == decisions' = [decisions EXCEPT ![d] = Over]

(* getPendingSignatureTransaction.                                         *)
ReadPending(d, k) ==
  /\ decisions[d] = NoDecision
  /\ rows[k].status = "PENDING_SIGNATURE"
  /\ \E kind \in {"approve", "reject"} :
       decisions' = [decisions EXCEPT ![d] =
         [pc |-> "ready", kind |-> kind, key |-> k, hash |-> rows[k].envelope]]
  /\ UNCHANGED <<now, requests, dbVars, chainVars>>

\* Mutant: the payment is built again, with a fresh sequence number.
Rebuilt(d) ==
  [decisions[d].hash EXCEPT !.seq = seq[decisions[d].hash.user] + 1, !.at = now]
(* The transaction to co-sign is the one stored.                           *)
Envelope(d) == decisions[d].hash

CoSignAndSubmit(d) ==
  /\ decisions[d].pc = "ready" /\ decisions[d].kind = "approve"
  /\ decisions' = [decisions EXCEPT ![d] = [@ EXCEPT !.pc = "sent", !.hash = Envelope(d)]]
  /\ network' = network \cup {[hash |-> Envelope(d), key |-> decisions[d].key]}
  /\ UNCHANGED <<now, requests, dbVars, signers, seq, applied>>

(* Horizon answers a transaction sent again with its first result.         *)
ApproveOk(d) ==
  /\ decisions[d].pc = "sent"
  /\ Applied(decisions[d].hash)
  /\ GotoD(d, "paid")
  /\ UNCHANGED <<now, requests, dbVars, chainVars>>

(* A refusal, a lost answer, no admin wallet, or the SUCCESS write fails:  *)
(* the catch block does not tell them apart.                               *)
ApproveFails(d) ==
  /\ decisions[d].pc \in {"ready", "sent", "paid"} /\ decisions[d].kind = "approve"
  /\ GotoD(d, "failing")
  /\ UNCHANGED <<now, requests, dbVars, chainVars>>

(* updateStatus with clearPendingEnvelope, by id alone.  A success says    *)
(* nothing of failureCode, which stays as it is.                           *)
Resolve(d, status, code) ==
  rows' = [rows EXCEPT ![decisions[d].key] =
             [@ EXCEPT !.status = status, !.code = code, !.envelope = NoHash]]

WriteDecision(d) ==
  /\ \/ decisions[d].pc = "paid" /\ Resolve(d, "SUCCESS", rows[decisions[d].key].code)
     \/ decisions[d].pc = "failing" /\ Resolve(d, "FAILED", "submission")
     \/ /\ decisions[d].pc = "ready" /\ decisions[d].kind = "reject"
        /\ Resolve(d, "FAILED", "admin_rejected")
  /\ FinishD(d)
  /\ UNCHANGED <<now, flag, requests, chainVars>>

(* The process dies, or the last update fails.                             *)
AbandonDecision(d) ==
  /\ decisions[d].pc \notin {"new", "done"}
  /\ FinishD(d)
  /\ UNCHANGED <<now, requests, dbVars, chainVars>>

-----------------------------------------------------------------------------
(* The Stellar network *)

(* Changing signers takes all of the account's signers; the payment has    *)
(* both signatures, of which none may be superfluous.                      *)
Authorised(tx) ==
  signers[tx.hash.user] = IF tx.hash.kind = "configure" THEN "owner" ELSE "owner and admin"
Includable(tx) ==
  /\ tx.hash.seq = seq[tx.hash.user] + 1
  /\ now <= tx.hash.at + TxWindow
  /\ Authorised(tx)

Include(tx) ==
  /\ Includable(tx)
  /\ signers' = [signers EXCEPT ![tx.hash.user] = "owner and admin"]
  /\ seq' = [seq EXCEPT ![tx.hash.user] = tx.hash.seq]
  /\ network' = {t \in network : t.hash # tx.hash}
  /\ applied' = applied \cup {tx}
  /\ UNCHANGED <<now, requests, decisions, dbVars>>

(* Turned down, or included and failed, which uses the number up.          *)
Refuse(tx) ==
  /\ network' = {t \in network : t.hash # tx.hash}
  /\ seq' = seq \/ (Includable(tx) /\ seq' = [seq EXCEPT ![tx.hash.user] = tx.hash.seq])
  /\ UNCHANGED <<now, requests, decisions, dbVars, signers, applied>>

(* The account's other payments use sequence numbers up.                   *)
OtherTransaction(u) ==
  /\ seq[u] < MaxSeq
  /\ seq' = [seq EXCEPT ![u] = @ + 1]
  /\ UNCHANGED <<now, requests, decisions, dbVars, signers, network, applied>>

Tick ==
  /\ now < MaxNow
  /\ now' = now + 1
  /\ UNCHANGED <<requests, decisions, dbVars, chainVars>>

-----------------------------------------------------------------------------
RequestStep(r) ==
  \/ ReadAccount(r) \/ LookUp(r) \/ SubmitConfigure(r) \/ ConfigureOk(r)
  \/ MarkMultisigConfigured(r) \/ BuildEnvelope(r) \/ CreateRow(r) \/ RequestFails(r)

DecisionStep(d) ==
  \/ \E k \in Keys : ReadPending(d, k)
  \/ CoSignAndSubmit(d) \/ ApproveOk(d) \/ ApproveFails(d) \/ WriteDecision(d)
  \/ AbandonDecision(d)

Next ==
  \/ \E r \in Requests : RequestStep(r)
  \/ \E d \in Decisions : DecisionStep(d)
  \/ \E tx \in network : Include(tx) \/ Refuse(tx)
  \/ \E u \in Users : OtherTransaction(u)
  \/ Tick

Spec == Init /\ [][Next]_vars

-----------------------------------------------------------------------------
(* Properties *)

(* A payment that waits for an admin cannot be made without one: from the  *)
(* moment its envelope, signed by the owner alone, leaves the signer, the  *)
(* ledger asks for both signatures.                                        *)
EnvelopeNeedsAdmin ==
  /\ \A k \in Keys : rows[k].status = "PENDING_SIGNATURE" =>
       signers[rows[k].user] = "owner and admin"
  /\ \A r \in Requests : requests[r].pc \in {"build", "built"} =>
       signers[requests[r].user] = "owner and admin"

(* A row whose approval is recorded was paid, on its own terms, however    *)
(* many admins decided on it at the same time.                             *)
SuccessIsBacked ==
  \A k \in Keys : rows[k].status = "SUCCESS" =>
    \E tx \in applied : /\ tx.hash.kind = "payment"
                        /\ tx.hash.user = rows[k].user /\ tx.hash.shape = rows[k].shape

(* Approved once or many times, with answers lost and admins repeating     *)
(* themselves, a key is paid at most once and only on its row's terms.     *)
Paid == {tx \in applied : tx.hash.kind = "payment"}
IntentOf(k) == IF rows[k] = NoRow THEN NoRow ELSE [user |-> rows[k].user, shape |-> rows[k].shape]
PaidFor(tx) == [key |-> tx.key, id |-> tx.hash,
                terms |-> [user |-> tx.hash.user, shape |-> tx.hash.shape]]
Intent == INSTANCE PaymentIntent WITH
  Unbound <- NoRow,
  intent <- [k \in Keys |-> IntentOf(k)],
  paid <- {PaidFor(tx) : tx \in Paid}
IntentSpec == Intent!Spec

-----------------------------------------------------------------------------
(* What comments say that the code does not do *)

(* rejectPendingSignature: a rejected payment's envelope was never valid   *)
(* to submit.                                                              *)
RejectedIsNeverPaid ==
  \A k \in Keys : rows[k].status = "FAILED" /\ rows[k].code = "admin_rejected" =>
    \A tx \in Paid : tx.key # k
=============================================================================
