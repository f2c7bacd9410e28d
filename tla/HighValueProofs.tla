--------------------------- MODULE HighValueProofs ---------------------------
(* Proofs about HighValue for every value of its constants: it is type     *)
(* correct, what waits for an admin's signature cannot do without it, a    *)
(* key is paid at most once and on its row's terms, and SUCCESS is backed. *)
EXTENDS HighValue, TLAPS

(* What a request knows of the account holds on the ledger: whoever marked *)
(* the account, or saw the mark, did so after the ledger had changed its   *)
(* signers, and nothing changes them back.                                 *)
Multi(u) == signers[u] = "owner and admin"
Believed ==
  /\ \A u \in Users : flag[u] => Multi(u)
  /\ \A tx \in applied : Multi(tx.hash.user)
  /\ \A r \in Requests :
       requests[r].multisig \/ requests[r].pc \in {"configured", "build", "built"} =>
         Multi(requests[r].user)
  /\ \A r \in Requests : requests[r].pc = "configuring" =>
       requests[r].hash.user = requests[r].user
  /\ \A k \in Keys : rows[k].status = "PENDING_SIGNATURE" => Multi(rows[k].user)

(* A request that waits or is about to insert has built its transaction,   *)
(* and admins decide on rows that are there.                               *)
Prepared ==
  /\ \A r \in Requests : requests[r].pc \in {"configuring", "built"} => requests[r].hash # NoHash
  /\ \A d \in Decisions :
       decisions[d] \notin {NoDecision, Over} => rows[decisions[d].key] # NoRow

IInv == TypeOK /\ Prepared /\ Believed

-----------------------------------------------------------------------------
(* A step's transaction is one of the account's, at its next number.       *)
LEMMA NewHashType ==
  ASSUME TypeOK, NEW r \in Requests, NEW kind \in {"configure", "payment"}
  PROVE  NewHash(r, kind) \in Hashes /\ NewHash(r, kind).user = requests[r].user
<1>1. /\ requests[r].user \in Users /\ requests[r].shape \in Shapes /\ now \in Nat
  BY DEF TypeOK, Request
<1>2. seq[requests[r].user] \in Nat
  BY <1>1 DEF TypeOK
<1>3. seq[requests[r].user] + 1 \in Nat
  BY <1>2
<1> QED
  BY <1>1, <1>3 DEF NewHash, Hashes

(* Every step of sendHighValuePayment is well typed.                       *)
LEMMA RequestStepType ==
  ASSUME TypeOK, Prepared, NEW r \in Requests, RequestStep(r)
  PROVE  TypeOK'
<1>1. /\ requests \in [Requests -> Request] /\ requests[r] \in Request
      /\ flag[requests[r].user] \in BOOLEAN
  BY DEF TypeOK, Request
<1>2. /\ NewHash(r, "configure") \in Hashes
      /\ NewHash(r, "payment") \in Hashes
  BY NewHashType
<1>3. ASSUME NEW pc \in {"new", "read", "configure", "configuring", "configured", "build", "built", "done"}
      PROVE  Goto(r, pc) \/ Finish(r) => requests' \in [Requests -> Request]
  <2>1. /\ [requests[r] EXCEPT !.pc = pc] \in Request
        /\ [requests[r] EXCEPT !.pc = "done", !.multisig = FALSE, !.hash = NoHash] \in Request
    BY <1>1 DEF Request
  <2> QED
    BY <1>1, <2>1 DEF Goto, Finish
<1>4. CASE ReadAccount(r)
  <2>1. [requests[r] EXCEPT !.pc = "read", !.multisig = flag[requests[r].user]] \in Request
    BY <1>1 DEF Request
  <2> QED
    BY <1>1, <1>4, <2>1 DEF ReadAccount, TypeOK, dbVars, chainVars
<1>5. CASE LookUp(r) \/ ConfigureOk(r) \/ RequestFails(r)
  BY <1>3, <1>5 DEF LookUp, ConfigureOk, RequestFails, TypeOK, dbVars, chainVars
<1>6. CASE SubmitConfigure(r)
  <2>1. [requests[r] EXCEPT !.pc = "configuring", !.hash = NewHash(r, "configure")] \in Request
    BY <1>1, <1>2 DEF Request
  <2>2. [hash |-> NewHash(r, "configure"), key |-> requests[r].key] \in Tx
    BY <1>1, <1>2 DEF Request, Tx
  <2> QED
    BY <1>1, <1>6, <2>1, <2>2 DEF SubmitConfigure, TypeOK, dbVars
<1>7. CASE MarkMultisigConfigured(r)
  BY <1>1, <1>3, <1>7 DEF MarkMultisigConfigured, TypeOK, chainVars, Request
<1>8. CASE BuildEnvelope(r)
  <2>1. [requests[r] EXCEPT !.pc = "built", !.hash = NewHash(r, "payment")] \in Request
    BY <1>1, <1>2 DEF Request
  <2> QED
    BY <1>1, <1>8, <2>1 DEF BuildEnvelope, TypeOK, dbVars, chainVars
<1>9. CASE CreateRow(r)
  <2>1. requests[r].hash \in Hashes
    BY <1>1, <1>9 DEF CreateRow, Prepared, Request
  <2>2. [status |-> "PENDING_SIGNATURE", user |-> requests[r].user, shape |-> requests[r].shape,
         envelope |-> requests[r].hash, code |-> "none"] \in Row
    BY <1>1, <2>1 DEF Row, Request
  <2>3. rows' \in [Keys -> Row \cup {NoRow}]
    BY <1>9, <2>2 DEF CreateRow, TypeOK
  <2> QED
    BY <1>3, <1>9, <2>3 DEF CreateRow, TypeOK, chainVars
<1> QED
  BY <1>4, <1>5, <1>6, <1>7, <1>8, <1>9 DEF RequestStep

(* Every step of an admin's decision is well typed.                        *)
LEMMA DecisionStepType ==
  ASSUME TypeOK, Prepared, NEW d \in Decisions, DecisionStep(d)
  PROVE  TypeOK'
<1>1. decisions \in [Decisions -> Decision \cup {NoDecision, Over}]
  BY DEF TypeOK
<1>2. ASSUME decisions[d] \notin {NoDecision, Over} PROVE decisions[d] \in Decision
  BY <1>1, <1>2
<1>3. ASSUME NEW pc \in {"ready", "sent", "paid", "failing"}, decisions[d] \in Decision, GotoD(d, pc)
      PROVE  decisions' \in [Decisions -> Decision \cup {NoDecision, Over}]
  <2>1. [decisions[d] EXCEPT !.pc = pc] \in Decision
    BY <1>3 DEF Decision
  <2> QED
    BY <1>1, <1>3, <2>1 DEF GotoD
<1>4. ASSUME NEW k \in Keys, ReadPending(d, k)
      PROVE  TypeOK'
  <2>0. rows[k] \in Row \cup {NoRow} /\ rows[k].status = "PENDING_SIGNATURE"
    BY <1>4 DEF ReadPending, TypeOK
  <2>1. rows[k] \in Row /\ rows[k].envelope \in Hashes
    BY <2>0 DEF Row, NoRow
  <2>2. PICK kind \in {"approve", "reject"} : decisions' = [decisions EXCEPT ![d] =
           [pc |-> "ready", kind |-> kind, key |-> k, hash |-> rows[k].envelope]]
    BY <1>4 DEF ReadPending
  <2>3. [pc |-> "ready", kind |-> kind, key |-> k, hash |-> rows[k].envelope] \in Decision
    BY <2>1 DEF Decision
  <2> QED
    BY <1>1, <1>4, <2>2, <2>3 DEF ReadPending, TypeOK, dbVars, chainVars
<1>5. CASE CoSignAndSubmit(d)
  <2>1. decisions[d] \in Decision
    BY <1>2, <1>5 DEF CoSignAndSubmit, NoDecision, Over
  <2>2. /\ [decisions[d] EXCEPT !.pc = "sent", !.hash = Envelope(d)] \in Decision
        /\ [hash |-> Envelope(d), key |-> decisions[d].key] \in Tx
    BY <2>1 DEF Decision, Tx, Envelope
  <2> QED
    BY <1>1, <1>5, <2>2 DEF CoSignAndSubmit, TypeOK, dbVars
<1>6. CASE ApproveOk(d) \/ ApproveFails(d)
  <2>1. decisions[d] \in Decision
    BY <1>2, <1>6 DEF ApproveOk, ApproveFails, NoDecision, Over
  <2> QED
    BY <1>3, <1>6, <2>1 DEF ApproveOk, ApproveFails, TypeOK, dbVars, chainVars
<1>7. CASE WriteDecision(d)
  <2>1. decisions[d] \in Decision /\ decisions[d] \notin {NoDecision, Over}
    BY <1>2, <1>7 DEF WriteDecision, NoDecision, Over
  <2>2. decisions[d].key \in Keys /\ rows[decisions[d].key] \in Row
    BY <2>1 DEF Prepared, Decision, TypeOK
  <2>3. ASSUME NEW status \in {"SUCCESS", "FAILED"}, NEW code \in {"none", "submission", "admin_rejected"},
               Resolve(d, status, code)
        PROVE  rows' \in [Keys -> Row \cup {NoRow}]
    <3>1. [rows[decisions[d].key] EXCEPT !.status = status, !.code = code, !.envelope = NoHash] \in Row
      BY <2>2 DEF Row
    <3> QED
      BY <2>2, <2>3, <3>1 DEF Resolve, TypeOK
  <2>4. rows' \in [Keys -> Row \cup {NoRow}]
    <3>1. rows[decisions[d].key].code \in {"none", "submission", "admin_rejected"}
      BY <2>2 DEF Row
    <3> QED
      BY <1>7, <2>3, <3>1 DEF WriteDecision
  <2> QED
    BY <1>1, <1>7, <2>4 DEF WriteDecision, FinishD, TypeOK, chainVars
<1>8. CASE AbandonDecision(d)
  BY <1>1, <1>8 DEF AbandonDecision, FinishD, TypeOK, dbVars, chainVars
<1> QED
  BY <1>4, <1>5, <1>6, <1>7, <1>8 DEF DecisionStep

(* Every step of the network and of time is well typed.                    *)
LEMMA NetworkStepType ==
  ASSUME TypeOK,
         \/ \E tx \in network : Include(tx) \/ Refuse(tx)
         \/ \E u \in Users : OtherTransaction(u)
         \/ Tick
         \/ UNCHANGED vars
  PROVE  TypeOK'
<1>1. ASSUME NEW tx \in network, Include(tx) \/ Refuse(tx)
      PROVE  TypeOK'
  <2>1. tx \in Tx /\ tx.hash.user \in Users /\ tx.hash.seq \in Nat
    BY DEF TypeOK, Tx, Hashes
  <2> QED
    BY <1>1, <2>1 DEF Include, Refuse, TypeOK, dbVars
<1>2. ASSUME NEW u \in Users, OtherTransaction(u)
      PROVE  TypeOK'
  <2>1. seq[u] \in Nat /\ seq \in [Users -> Nat]
    BY DEF TypeOK
  <2>2. seq[u] + 1 \in Nat
    BY <2>1
  <2>3. seq' \in [Users -> Nat]
    BY <1>2, <2>1, <2>2 DEF OtherTransaction
  <2> QED
    BY <1>2, <2>3 DEF OtherTransaction, TypeOK, dbVars
<1>3. CASE Tick
  <2>1. now \in Nat
    BY DEF TypeOK
  <2>2. now' \in Nat
    BY <1>3, <2>1 DEF Tick
  <2> QED
    BY <1>3, <2>2 DEF Tick, TypeOK, dbVars, chainVars
<1>4. CASE UNCHANGED vars
  BY <1>4 DEF vars, TypeOK
<1> QED
  BY <1>1, <1>2, <1>3, <1>4

-----------------------------------------------------------------------------
(* What each step of sendHighValuePayment makes of its own variables.      *)
LEMMA RequestStepFields ==
  ASSUME requests \in [Requests -> Request], NEW r \in Requests, RequestStep(r)
  PROVE  /\ \A q \in Requests \ {r} : requests'[q] = requests[q]
         /\ requests'[r].user = requests[r].user /\ requests'[r].shape = requests[r].shape
         /\ \/ requests'[r].pc = "done" /\ ~requests'[r].multisig
            \/ /\ ReadAccount(r)
               /\ requests'[r].pc = "read" /\ requests'[r].multisig = flag[requests[r].user]
            \/ /\ requests'[r].multisig = requests[r].multisig
               /\ \/ LookUp(r) /\ requests[r].multisig /\ requests'[r].pc = "build"
                  \/ LookUp(r) /\ requests'[r].pc = "configure"
                  \/ /\ SubmitConfigure(r) /\ requests'[r].pc = "configuring"
                     /\ requests'[r].hash = NewHash(r, "configure")
                  \/ ConfigureOk(r) /\ requests'[r].pc = "configured"
                  \/ MarkMultisigConfigured(r) /\ requests'[r].pc = "build"
                  \/ /\ BuildEnvelope(r) /\ requests'[r].pc = "built"
                     /\ requests'[r].hash = NewHash(r, "payment")
<1>1. requests[r] \in Request
  OBVIOUS
<1>2. ASSUME NEW q, requests' = [requests EXCEPT ![r] = q]
      PROVE  requests'[r] = q /\ \A p \in Requests \ {r} : requests'[p] = requests[p]
  BY <1>2
<1>3. ASSUME NEW pc, Goto(r, pc)
      PROVE  /\ \A q \in Requests \ {r} : requests'[q] = requests[q]
             /\ requests'[r].user = requests[r].user /\ requests'[r].shape = requests[r].shape
             /\ requests'[r].pc = pc
             /\ requests'[r].multisig = requests[r].multisig
  <2>1. requests' = [requests EXCEPT ![r] = [requests[r] EXCEPT !.pc = pc]]
    BY <1>3 DEF Goto
  <2> QED
    BY <1>1, <1>2, <2>1 DEF Request
<1>4. ASSUME Finish(r)
      PROVE  /\ \A q \in Requests \ {r} : requests'[q] = requests[q]
             /\ requests'[r].user = requests[r].user /\ requests'[r].shape = requests[r].shape
             /\ requests'[r].pc = "done" /\ ~requests'[r].multisig
  <2>1. requests' = [requests EXCEPT ![r] =
                      [requests[r] EXCEPT !.pc = "done", !.multisig = FALSE, !.hash = NoHash]]
    BY <1>4 DEF Finish
  <2> QED
    BY <1>1, <1>2, <2>1 DEF Request
<1>5. CASE ReadAccount(r)
  <2>1. requests' = [requests EXCEPT ![r] =
                      [requests[r] EXCEPT !.pc = "read", !.multisig = flag[requests[r].user]]]
    BY <1>5 DEF ReadAccount
  <2> QED
    BY <1>1, <1>2, <1>5, <2>1 DEF Request
<1>6. CASE LookUp(r)
  <2>1. CASE Finish(r)
    BY <1>4, <2>1
  <2>2. CASE requests[r].multisig /\ Goto(r, "build")
    BY <1>3, <1>6, <2>2
  <2>3. CASE Goto(r, "configure")
    BY <1>3, <1>6, <2>3
  <2> QED
    BY <1>6, <2>1, <2>2, <2>3 DEF LookUp
<1>7. CASE SubmitConfigure(r)
  <2>1. requests' = [requests EXCEPT ![r] =
                      [requests[r] EXCEPT !.pc = "configuring", !.hash = NewHash(r, "configure")]]
    BY <1>7 DEF SubmitConfigure
  <2> QED
    BY <1>1, <1>2, <1>7, <2>1 DEF Request
<1>8. CASE ConfigureOk(r)
  BY <1>3, <1>8 DEF ConfigureOk
<1>9. CASE MarkMultisigConfigured(r)
  BY <1>3, <1>9 DEF MarkMultisigConfigured
<1>10. CASE BuildEnvelope(r)
  <2>1. requests' = [requests EXCEPT ![r] =
                      [requests[r] EXCEPT !.pc = "built", !.hash = NewHash(r, "payment")]]
    BY <1>10 DEF BuildEnvelope
  <2> QED
    BY <1>1, <1>2, <1>10, <2>1 DEF Request
<1>11. CASE CreateRow(r) \/ RequestFails(r)
  BY <1>4, <1>11 DEF CreateRow, RequestFails
<1> QED
  BY <1>5, <1>6, <1>7, <1>8, <1>9, <1>10, <1>11 DEF RequestStep

(* No step of sendHighValuePayment takes a row away or lets a request wait *)
(* without a transaction.                                                  *)
LEMMA RequestStepPrepared ==
  ASSUME TypeOK, Prepared, NEW r \in Requests, RequestStep(r)
  PROVE  Prepared'
<1>1. requests \in [Requests -> Request] /\ requests[r].key \in Keys /\ rows \in [Keys -> Row \cup {NoRow}]
  BY DEF TypeOK, Request
<1>2. NewHash(r, "configure") # NoHash /\ NewHash(r, "payment") # NoHash
  BY DEF NewHash, NoHash
<1>3. \A k \in Keys : rows[k] # NoRow => rows'[k] # NoRow
  <2>1. CASE CreateRow(r)
    BY <1>1, <2>1 DEF CreateRow, NoRow
  <2>2. CASE ~CreateRow(r)
    BY <2>2 DEF RequestStep, ReadAccount, LookUp, SubmitConfigure, ConfigureOk,
                MarkMultisigConfigured, BuildEnvelope, RequestFails, dbVars
  <2> QED
    BY <2>1, <2>2
<1>4. UNCHANGED decisions
  BY DEF RequestStep, ReadAccount, LookUp, SubmitConfigure, ConfigureOk, MarkMultisigConfigured,
         BuildEnvelope, CreateRow, RequestFails
<1>5. \A d \in Decisions :
        decisions'[d] \notin {NoDecision, Over} => rows'[decisions'[d].key] # NoRow
  BY <1>3, <1>4 DEF Prepared, TypeOK, Decision
<1>6. /\ \A q \in Requests \ {r} : requests'[q] = requests[q]
      /\ requests'[r].pc \in {"configuring", "built"} => requests'[r].hash # NoHash
  BY <1>1, <1>2, RequestStepFields
<1> QED
  BY <1>5, <1>6 DEF Prepared

(* A decision keeps to the row it was read from.                           *)
LEMMA DecisionStepPrepared ==
  ASSUME TypeOK, Prepared, NEW d \in Decisions, DecisionStep(d)
  PROVE  Prepared'
<1>1. decisions \in [Decisions -> Decision \cup {NoDecision, Over}] /\ UNCHANGED requests
  BY DEF TypeOK, DecisionStep, ReadPending, CoSignAndSubmit, ApproveOk, ApproveFails, WriteDecision,
         AbandonDecision
<1>2. \A k \in Keys : rows[k] # NoRow => rows'[k] # NoRow
  <2>1. CASE WriteDecision(d)
    <3>1. PICK status, code : Resolve(d, status, code)
      BY <2>1 DEF WriteDecision
    <3>2. ASSUME NEW row, row \in Row
          PROVE  [row EXCEPT !.status = status, !.code = code, !.envelope = NoHash] # NoRow
      BY <3>2 DEF Row, NoRow
    <3> QED
      BY <3>1, <3>2 DEF Resolve, TypeOK
  <2>2. CASE ~WriteDecision(d)
    BY <2>2 DEF DecisionStep, ReadPending, CoSignAndSubmit, ApproveOk, ApproveFails,
                AbandonDecision, dbVars
  <2> QED
    BY <2>1, <2>2
<1>3. /\ \A e \in Decisions \ {d} : decisions'[e] = decisions[e]
      /\ decisions'[d] \notin {NoDecision, Over} => rows'[decisions'[d].key] # NoRow
  <2>1. CASE \E k \in Keys : ReadPending(d, k)
    BY <1>1, <1>2, <2>1 DEF ReadPending, NoRow
  <2>2. CASE WriteDecision(d) \/ AbandonDecision(d)
    BY <1>1, <2>2 DEF WriteDecision, AbandonDecision, FinishD
  <2>3. CASE CoSignAndSubmit(d) \/ ApproveOk(d) \/ ApproveFails(d)
    <3>1. decisions[d] \in Decision /\ decisions[d] \notin {NoDecision, Over}
      BY <1>1, <2>3 DEF CoSignAndSubmit, ApproveOk, ApproveFails, NoDecision, Over
    <3>2. decisions'[d].key = decisions[d].key /\ \A e \in Decisions \ {d} : decisions'[e] = decisions[e]
      BY <1>1, <2>3, <3>1 DEF CoSignAndSubmit, ApproveOk, ApproveFails, GotoD, Decision
    <3> QED
      BY <1>2, <3>1, <3>2 DEF Prepared, Decision
  <2> QED
    BY <2>1, <2>2, <2>3 DEF DecisionStep
<1>4. \A e \in Decisions :
        decisions'[e] \notin {NoDecision, Over} => rows'[decisions'[e].key] # NoRow
  BY <1>1, <1>2, <1>3 DEF Prepared, Decision
<1> QED
  BY <1>1, <1>4 DEF Prepared

-----------------------------------------------------------------------------
(* Only setOptions changes signers, and it only adds the admin.            *)
LEMMA SignersStay ==
  ASSUME TypeOK, Next \/ UNCHANGED vars
  PROVE  \A u \in Users : Multi(u) => Multi(u)'
<1>1. CASE \E tx \in network : Include(tx)
  BY <1>1 DEF Include, TypeOK, Multi
<1>2. CASE UNCHANGED signers
  BY <1>2 DEF Multi
<1> QED
  BY <1>1, <1>2 DEF Next, vars, RequestStep, ReadAccount, LookUp, SubmitConfigure, ConfigureOk,
     MarkMultisigConfigured, BuildEnvelope, CreateRow, RequestFails, DecisionStep, ReadPending,
     CoSignAndSubmit, ApproveOk, ApproveFails, WriteDecision, AbandonDecision, Refuse,
     OtherTransaction, Tick, chainVars

(* A request believes an account multisig only when it is.                 *)
LEMMA RequestStepBelieved ==
  ASSUME IInv, NEW r \in Requests, RequestStep(r)
  PROVE  Believed'
<1>1. /\ requests \in [Requests -> Request] /\ requests[r].user \in Users
      /\ flag \in [Users -> BOOLEAN] /\ rows \in [Keys -> Row \cup {NoRow}]
  BY DEF IInv, TypeOK, Request
<1>2. UNCHANGED <<signers, applied>>
  BY DEF RequestStep, ReadAccount, LookUp, SubmitConfigure, ConfigureOk, MarkMultisigConfigured,
         BuildEnvelope, CreateRow, RequestFails, chainVars
<1>3. NewHash(r, "configure").user = requests[r].user
  BY DEF NewHash
<1>4. /\ \A q \in Requests \ {r} : requests'[q] = requests[q]
      /\ requests'[r].user = requests[r].user
  BY <1>1, RequestStepFields
<1>5. requests'[r].multisig \/ requests'[r].pc \in {"configured", "build", "built"} =>
        Multi(requests[r].user)
  <2>1. CASE ReadAccount(r) /\ requests'[r].pc = "read"
             /\ requests'[r].multisig = flag[requests[r].user]
    BY <1>1, <2>1 DEF IInv, Believed
  <2>2. ASSUME requests[r].multisig \/ requests[r].pc \in {"configured", "build", "built"}
        PROVE  Multi(requests[r].user)
    BY <2>2 DEF IInv, Believed
  <2>3. ASSUME ConfigureOk(r) PROVE Multi(requests[r].user)
    BY <2>3 DEF ConfigureOk, Applied, IInv, Believed
  <2> QED
    BY <1>1, <2>1, <2>2, <2>3, RequestStepFields DEF MarkMultisigConfigured, BuildEnvelope
<1>6. requests'[r].pc = "configuring" => requests'[r].hash.user = requests[r].user
  BY <1>1, <1>3, RequestStepFields
<1>7. \A u \in Users : flag'[u] => Multi(u)
  <2>1. CASE MarkMultisigConfigured(r)
    <3>1. Multi(requests[r].user)
      BY <2>1 DEF MarkMultisigConfigured, IInv, Believed
    <3>2. \A u \in Users : flag'[u] => u = requests[r].user \/ flag[u]
      BY <1>1, <2>1 DEF MarkMultisigConfigured
    <3> QED
      BY <3>1, <3>2 DEF IInv, Believed
  <2>2. CASE UNCHANGED flag
    BY <2>2 DEF IInv, Believed
  <2> QED
    BY <2>1, <2>2 DEF RequestStep, ReadAccount, LookUp, SubmitConfigure, ConfigureOk,
       BuildEnvelope, CreateRow, RequestFails, dbVars
<1>8. \A k \in Keys : rows'[k].status = "PENDING_SIGNATURE" => Multi(rows'[k].user)
  <2>1. CASE CreateRow(r)
    <3>1. Multi(requests[r].user)
      BY <2>1 DEF CreateRow, IInv, Believed
    <3>2. \A k \in Keys : rows'[k] = rows[k] \/ rows'[k].user = requests[r].user
      BY <1>1, <2>1 DEF CreateRow
    <3> QED
      BY <3>1, <3>2 DEF IInv, Believed
  <2>2. CASE UNCHANGED rows
    BY <2>2 DEF IInv, Believed
  <2> QED
    BY <2>1, <2>2 DEF RequestStep, ReadAccount, LookUp, SubmitConfigure, ConfigureOk,
       MarkMultisigConfigured, BuildEnvelope, RequestFails, dbVars
<1>9. /\ \A u \in Users : flag'[u] => Multi(u)'
      /\ \A tx \in applied' : Multi(tx.hash.user)'
      /\ \A k \in Keys : rows'[k].status = "PENDING_SIGNATURE" => signers'[rows'[k].user] = "owner and admin"
  BY <1>2, <1>7, <1>8 DEF IInv, Believed, Multi
<1>10. ASSUME NEW q \in Requests
       PROVE  /\ requests'[q].multisig \/ requests'[q].pc \in {"configured", "build", "built"} =>
                   signers'[requests'[q].user] = "owner and admin"
              /\ requests'[q].pc = "configuring" => requests'[q].hash.user = requests'[q].user
  <2>1. CASE q = r
    BY <1>2, <1>4, <1>5, <1>6, <2>1 DEF Multi
  <2>2. CASE q # r
    BY <1>2, <1>4, <2>2 DEF IInv, Believed, Multi
  <2> QED
    BY <2>1, <2>2
<1> QED
  BY <1>9, <1>10 DEF Believed, Multi

(* Decisions make no row pending and touch neither flag nor requests.      *)
LEMMA DecisionStepBelieved ==
  ASSUME IInv, NEW d \in Decisions, DecisionStep(d)
  PROVE  Believed'
<1>1. UNCHANGED <<flag, requests, signers, applied>>
  BY DEF DecisionStep, ReadPending, CoSignAndSubmit, ApproveOk, ApproveFails, WriteDecision,
         AbandonDecision, dbVars, chainVars
<1>2. \A k \in Keys : rows'[k].status = "PENDING_SIGNATURE" => rows'[k] = rows[k]
  <2>1. CASE WriteDecision(d)
    <3>1. PICK status, code : status \in {"SUCCESS", "FAILED"} /\ Resolve(d, status, code)
      BY <2>1 DEF WriteDecision
    <3>0. decisions[d] \in Decision \cup {NoDecision, Over}
      BY DEF IInv, TypeOK
    <3>2. decisions[d] \in Decision /\ decisions[d] \notin {NoDecision, Over}
      BY <2>1, <3>0 DEF WriteDecision, NoDecision, Over
    <3>3. rows[decisions[d].key] \in Row /\ decisions[d].key \in Keys
      BY <3>2 DEF IInv, Prepared, TypeOK, Decision
    <3>4. [rows[decisions[d].key] EXCEPT !.status = status, !.code = code, !.envelope = NoHash].status
            = status
      BY <3>3 DEF Row
    <3> QED
      BY <3>1, <3>3, <3>4 DEF Resolve, IInv, TypeOK
  <2>2. CASE ~WriteDecision(d)
    BY <2>2 DEF DecisionStep, ReadPending, CoSignAndSubmit, ApproveOk, ApproveFails,
                AbandonDecision, dbVars
  <2> QED
    BY <2>1, <2>2
<1> QED
  BY <1>1, <1>2 DEF IInv, Believed, Multi

(* A transaction is applied to an account it leaves with both signers.     *)
LEMMA NetworkStepBelieved ==
  ASSUME IInv, Next \/ UNCHANGED vars,
         \/ \E tx \in network : Include(tx) \/ Refuse(tx)
         \/ \E u \in Users : OtherTransaction(u)
         \/ Tick
         \/ UNCHANGED vars
  PROVE  Prepared' /\ Believed'
<1>1. UNCHANGED <<flag, requests, rows, decisions>>
  BY DEF Include, Refuse, OtherTransaction, Tick, vars, dbVars
<1>2. \A u \in Users : Multi(u) => Multi(u)'
  BY SignersStay DEF IInv
<1>3. \A tx \in applied' : signers'[tx.hash.user] = "owner and admin"
  <2>1. ASSUME NEW tx \in network, Include(tx) PROVE Multi(tx.hash.user)'
    BY <2>1 DEF Include, IInv, TypeOK, Tx, Hashes, Multi
  <2>2. \A tx \in applied : tx.hash.user \in Users
    BY DEF IInv, TypeOK, Tx, Hashes
  <2>3. \A tx \in applied : Multi(tx.hash.user)'
    BY <1>2, <2>2 DEF IInv, Believed
  <2>4. CASE \E tx \in network : Include(tx)
    BY <2>1, <2>3, <2>4 DEF Include, Multi
  <2>5. CASE UNCHANGED applied
    BY <2>3, <2>5 DEF Multi
  <2> QED
    BY <2>4, <2>5 DEF Refuse, OtherTransaction, Tick, vars, chainVars
<1>4. /\ \A q \in Requests : requests[q].user \in Users
      /\ \A k \in Keys : rows[k].status = "PENDING_SIGNATURE" => rows[k].user \in Users
  <2>1. ASSUME NEW row \in Row \cup {NoRow}, row.status = "PENDING_SIGNATURE"
        PROVE  row.user \in Users
    BY <2>1 DEF Row, NoRow
  <2>2. rows \in [Keys -> Row \cup {NoRow}] /\ requests \in [Requests -> Request]
    BY DEF IInv, TypeOK
  <2>3. \A k \in Keys : rows[k] \in Row \cup {NoRow}
    BY <2>2
  <2> QED
    BY <2>1, <2>2, <2>3 DEF Request
<1> QED
  BY <1>1, <1>2, <1>3, <1>4 DEF IInv, Prepared, Believed, Multi

-----------------------------------------------------------------------------
(* Nothing is there yet, so all of it holds.                               *)
LEMMA InitInv == Init => IInv
<1> SUFFICES ASSUME Init PROVE IInv
  OBVIOUS
<1>1. TypeOK
  BY DEF Init, TypeOK, Request
<1>2. Prepared /\ Believed
  BY DEF Init, Prepared, Believed, NoRow
<1> QED
  BY <1>1, <1>2 DEF IInv

(* In every reachable state the model is well typed, requests and          *)
(* decisions are prepared for what they do next, and what the database and *)
(* the requests believe of an account is so on the ledger.                 *)
THEOREM Invariance == Spec => []IInv
<1>1. ASSUME IInv, [Next]_vars PROVE IInv'
  <2>1. ASSUME NEW r \in Requests, RequestStep(r) PROVE IInv'
    BY <1>1, <2>1, RequestStepType, RequestStepPrepared, RequestStepBelieved DEF IInv
  <2>2. ASSUME NEW d \in Decisions, DecisionStep(d) PROVE IInv'
    BY <1>1, <2>2, DecisionStepType, DecisionStepPrepared, DecisionStepBelieved DEF IInv
  <2>3. CASE \/ \E tx \in network : Include(tx) \/ Refuse(tx)
             \/ \E u \in Users : OtherTransaction(u)
             \/ Tick
             \/ UNCHANGED vars
    BY <1>1, <2>3, NetworkStepType, NetworkStepBelieved DEF IInv
  <2> QED
    BY <1>1, <2>1, <2>2, <2>3 DEF Next
<1> QED
  BY <1>1, InitInv, PTL DEF Spec

(* The types of HighValue hold in every reachable state; in particular a   *)
(* row keeps its envelope exactly while it is PENDING_SIGNATURE.           *)
THEOREM HighValueTypeCorrect == Spec => []TypeOK
<1>1. IInv => TypeOK
  BY DEF IInv
<1> QED
  BY <1>1, Invariance, PTL

(* However requests interleave, and whatever became of the transaction     *)
(* that configured the account, no envelope is built and no row waits for  *)
(* an admin before the ledger asks for the admin's signature.              *)
THEOREM EnvelopeNeedsAdminTheorem == Spec => []EnvelopeNeedsAdmin
<1>1. IInv => EnvelopeNeedsAdmin
  BY DEF IInv, Believed, Multi, EnvelopeNeedsAdmin
<1> QED
  BY <1>1, Invariance, PTL

-----------------------------------------------------------------------------
(* What is paid *)

(* The envelopes a key is about: the one its row keeps, those its          *)
(* decisions took from there, and those the network was given.             *)
Active(d) == decisions[d] \notin {NoDecision, Over}
EnvelopesOf(k) ==
  (IF rows[k].status = "PENDING_SIGNATURE" THEN {rows[k].envelope} ELSE {})
  \cup {decisions[d].hash : d \in {e \in Decisions : Active(e) /\ decisions[e].key = k}}
  \cup {tx.hash : tx \in {t \in network \cup applied : t.hash.kind = "payment" /\ t.key = k}}

OneEnvelope == \A k \in Keys : \A g, h \in EnvelopesOf(k) : g = h
HasTerms(hash, user, shape) ==
  hash.kind = "payment" /\ hash.user = user /\ hash.shape = shape
OnTerms ==
  \A k \in Keys : \A h \in EnvelopesOf(k) :
    rows[k] # NoRow /\ HasTerms(h, rows[k].user, rows[k].shape)
(* The transaction a request is about to store is the one asked for.       *)
BuiltOnTerms ==
  \A r \in Requests : requests[r].pc = "built" =>
    HasTerms(requests[r].hash, requests[r].user, requests[r].shape)
(* An account's numbers go up to the last one applied at least.            *)
NumbersUsed == \A tx \in applied : tx.hash.seq <= seq[tx.hash.user]
PaidIsApplied == \A d \in Decisions : decisions[d].pc = "paid" => Applied(decisions[d].hash)

JInv == /\ IInv /\ OneEnvelope /\ OnTerms /\ BuiltOnTerms /\ NumbersUsed
        /\ PaidIsApplied /\ SuccessIsBacked

-----------------------------------------------------------------------------
(* What the requests, decisions and rows of the model are records of.      *)
LEMMA Fields ==
  ASSUME TypeOK
  PROVE  /\ requests \in [Requests -> Request] /\ rows \in [Keys -> Row \cup {NoRow}]
         /\ seq \in [Users -> Nat]
         /\ \A d \in Decisions : Active(d) <=> decisions[d] \in Decision
         /\ \A tx \in network \cup applied : tx.key \in Keys /\ tx.hash \in Hashes
<1>1. \A d \in Decisions : decisions[d] \in Decision \cup {NoDecision, Over}
  BY DEF TypeOK
<1>2. NoDecision \notin Decision /\ Over \notin Decision
  BY DEF Decision, NoDecision, Over
<1> QED
  BY <1>1, <1>2 DEF TypeOK, Active, Tx

(* Rows keep their terms, and no row is taken away.                        *)
RowsKeep ==
  \A k \in Keys : rows[k] # NoRow =>
    rows'[k] # NoRow /\ rows'[k].user = rows[k].user /\ rows'[k].shape = rows[k].shape

(* A decision does to its row what updateStatus says, if anything.         *)
LEMMA WriteDecisionRows ==
  ASSUME IInv, NEW d \in Decisions, WriteDecision(d)
  PROVE  /\ RowsKeep
         /\ \A k \in Keys : rows'[k].status = "PENDING_SIGNATURE" => rows'[k] = rows[k]
         /\ \A k \in Keys : rows'[k].status = "SUCCESS" =>
              \/ rows'[k] = rows[k]
              \/ Active(d) /\ decisions[d].pc = "paid" /\ k = decisions[d].key
<1>1. PICK status, code :
        /\ status \in {"SUCCESS", "FAILED"} /\ Resolve(d, status, code)
        /\ status = "SUCCESS" => decisions[d].pc = "paid"
  BY DEF WriteDecision
<1>2. Active(d)
  BY DEF WriteDecision, Active, NoDecision, Over
<1>3. decisions[d].key \in Keys /\ rows[decisions[d].key] \in Row
  BY <1>2, Fields DEF IInv, Prepared, Active, Decision
<1> DEFINE old == rows[decisions[d].key]
           new == [old EXCEPT !.status = status, !.code = code, !.envelope = NoHash]
<1>4. new.status = status /\ new.user = old.user /\ new.shape = old.shape /\ new # NoRow
  BY <1>3 DEF Row, NoRow
<1>5. rows' = [rows EXCEPT ![decisions[d].key] = new]
  BY <1>1 DEF Resolve
<1>6. \A k \in Keys : rows'[k] = IF k = decisions[d].key THEN new ELSE rows[k]
  BY <1>3, <1>5, Fields DEF IInv
<1> HIDE DEF new
<1> QED
  BY <1>1, <1>2, <1>4, <1>6 DEF RowsKeep

(* Every step but the insert of a row leaves each key about envelopes it   *)
(* was about already.                                                      *)
NoNewEnvelopes == \A k \in Keys : \A h : h \in EnvelopesOf(k)' => h \in EnvelopesOf(k)
RowsOpenNothing ==
  \A k \in Keys : rows'[k].status = "PENDING_SIGNATURE" =>
    rows[k].status = "PENDING_SIGNATURE" /\ rows'[k].envelope = rows[k].envelope
DecisionsKeep ==
  \A d \in Decisions : Active(d)' =>
    \/ Active(d) /\ decisions'[d].key = decisions[d].key /\ decisions'[d].hash = decisions[d].hash
    \/ \E k \in Keys : /\ rows[k].status = "PENDING_SIGNATURE"
                       /\ decisions'[d].key = k /\ decisions'[d].hash = rows[k].envelope
NetworkKeeps ==
  \A tx \in network' \cup applied' : tx.hash.kind = "payment" =>
    \/ tx \in network \cup applied
    \/ \E d \in Decisions : Active(d) /\ decisions[d].key = tx.key /\ decisions[d].hash = tx.hash
LEMMA NothingNew ==
  ASSUME RowsOpenNothing, DecisionsKeep, NetworkKeeps
  PROVE  NoNewEnvelopes
<1> SUFFICES ASSUME NEW k \in Keys, NEW h, h \in EnvelopesOf(k)' PROVE h \in EnvelopesOf(k)
  BY DEF NoNewEnvelopes
<1>1. CASE rows'[k].status = "PENDING_SIGNATURE" /\ h = rows'[k].envelope
  BY <1>1 DEF RowsOpenNothing, EnvelopesOf
<1>2. ASSUME NEW d \in Decisions, Active(d)', decisions'[d].key = k, h = decisions'[d].hash
      PROVE  h \in EnvelopesOf(k)
  BY <1>2 DEF DecisionsKeep, EnvelopesOf
<1>3. ASSUME NEW tx \in network' \cup applied', tx.hash.kind = "payment", tx.key = k, h = tx.hash
      PROVE  h \in EnvelopesOf(k)
  BY <1>3 DEF NetworkKeeps, EnvelopesOf
<1> QED
  BY <1>1, <1>2, <1>3 DEF EnvelopesOf

(* A request only ever adds a configuration to the network, except that    *)
(* its insert gives its key the envelope it has built.                     *)
LEMMA RequestStepEnvelopes ==
  ASSUME IInv, NEW r \in Requests, RequestStep(r)
  PROVE  /\ RowsKeep
         /\ NumbersUsed => NumbersUsed'
         /\ \/ NoNewEnvelopes /\ rows' = rows
            \/ /\ requests[r].pc = "built" /\ requests[r].key \in Keys
               /\ rows[requests[r].key] = NoRow
               /\ rows' = [rows EXCEPT ![requests[r].key] =
                    [status |-> "PENDING_SIGNATURE", user |-> requests[r].user,
                     shape |-> requests[r].shape, envelope |-> requests[r].hash, code |-> "none"]]
               /\ UNCHANGED <<decisions, network, applied>>
         /\ UNCHANGED <<decisions, applied>>
<1>1. requests[r].key \in Keys /\ rows \in [Keys -> Row \cup {NoRow}]
  BY Fields DEF IInv, Request
<1>2. UNCHANGED <<decisions, seq, applied>>
  BY DEF RequestStep, ReadAccount, LookUp, SubmitConfigure, ConfigureOk, MarkMultisigConfigured,
         BuildEnvelope, CreateRow, RequestFails, chainVars
<1>3. \A tx \in network' : tx \in network \/ tx.hash.kind = "configure"
  BY DEF RequestStep, ReadAccount, LookUp, SubmitConfigure, ConfigureOk, MarkMultisigConfigured,
         BuildEnvelope, CreateRow, RequestFails, chainVars, NewHash
<1>4. NumbersUsed => NumbersUsed'
  BY <1>2 DEF NumbersUsed
<1>5. CASE UNCHANGED rows
  <2>1. NoNewEnvelopes
    BY <1>2, <1>3, <1>5, NothingNew DEF RowsOpenNothing, DecisionsKeep, NetworkKeeps, Active
  <2> QED
    BY <1>2, <1>4, <1>5, <2>1 DEF RowsKeep
<1>6. CASE CreateRow(r) /\ rows[requests[r].key] = NoRow
  BY <1>1, <1>2, <1>4, <1>6 DEF CreateRow, RowsKeep, chainVars
<1> QED
  BY <1>5, <1>6 DEF RequestStep, ReadAccount, LookUp, SubmitConfigure, ConfigureOk,
     MarkMultisigConfigured, BuildEnvelope, CreateRow, RequestFails, dbVars

(* A decision works with the envelope of its row.                          *)
LEMMA DecisionStepEnvelopes ==
  ASSUME IInv, NEW d \in Decisions, DecisionStep(d)
  PROVE  NoNewEnvelopes /\ RowsKeep /\ UNCHANGED <<requests, applied, seq>>
<1>1. /\ decisions \in [Decisions -> Decision \cup {NoDecision, Over}]
      /\ \A e \in Decisions : Active(e) <=> decisions[e] \in Decision
  BY Fields DEF IInv, TypeOK
<1>2. UNCHANGED <<requests, applied, seq>>
  BY DEF DecisionStep, ReadPending, CoSignAndSubmit, ApproveOk, ApproveFails, WriteDecision,
         AbandonDecision, chainVars
<1>3. CASE WriteDecision(d) \/ AbandonDecision(d)
  <2>1. RowsKeep /\ RowsOpenNothing
    BY <1>3, WriteDecisionRows DEF AbandonDecision, dbVars, RowsKeep, RowsOpenNothing
  <2>2. DecisionsKeep /\ NetworkKeeps
    BY <1>1, <1>2, <1>3 DEF WriteDecision, AbandonDecision, FinishD, DecisionsKeep, NetworkKeeps,
       Active, chainVars
  <2> QED
    BY <1>2, <2>1, <2>2, NothingNew
<1>4. CASE \E k \in Keys : ReadPending(d, k)
  <2>1. PICK k \in Keys : ReadPending(d, k)
    BY <1>4
  <2>2. PICK kind : decisions' = [decisions EXCEPT ![d] =
                      [pc |-> "ready", kind |-> kind, key |-> k, hash |-> rows[k].envelope]]
    BY <2>1 DEF ReadPending
  <2>3. rows[k].status = "PENDING_SIGNATURE" /\ UNCHANGED <<rows, network>>
    BY <2>1 DEF ReadPending, dbVars, chainVars
  <2>4. DecisionsKeep
    BY <1>1, <2>2, <2>3 DEF DecisionsKeep, Active
  <2> QED
    BY <1>2, <2>3, <2>4, NothingNew DEF RowsKeep, RowsOpenNothing, NetworkKeeps
<1>5. CASE CoSignAndSubmit(d) \/ ApproveOk(d) \/ ApproveFails(d)
  <2>1. decisions[d] \in Decision /\ Active(d)
    BY <1>1, <1>5 DEF CoSignAndSubmit, ApproveOk, ApproveFails, NoDecision, Over
  <2>2. /\ decisions'[d].key = decisions[d].key /\ decisions'[d].hash = decisions[d].hash
        /\ \A e \in Decisions \ {d} : decisions'[e] = decisions[e]
    <3>1. ASSUME NEW x, x.key = decisions[d].key, x.hash = decisions[d].hash,
                 decisions' = [decisions EXCEPT ![d] = x]
          PROVE  /\ decisions'[d].key = decisions[d].key /\ decisions'[d].hash = decisions[d].hash
                 /\ \A e \in Decisions \ {d} : decisions'[e] = decisions[e]
      BY <1>1, <3>1
    <3>2. ASSUME NEW pc, GotoD(d, pc) PROVE decisions' = [decisions EXCEPT ![d] = [decisions[d] EXCEPT !.pc = pc]]
      BY <3>2 DEF GotoD
    <3>3. ASSUME NEW pc
          PROVE  LET x == [decisions[d] EXCEPT !.pc = pc] IN
                   x.key = decisions[d].key /\ x.hash = decisions[d].hash
      BY <2>1 DEF Decision
    <3>4. LET x == [decisions[d] EXCEPT !.pc = "sent", !.hash = decisions[d].hash] IN
            x.key = decisions[d].key /\ x.hash = decisions[d].hash
      BY <2>1 DEF Decision
    <3>5. CASE CoSignAndSubmit(d)
      BY <3>1, <3>4, <3>5 DEF CoSignAndSubmit, Envelope
    <3>6. CASE ApproveOk(d)
      BY <3>1, <3>2, <3>3, <3>6 DEF ApproveOk
    <3>7. CASE ApproveFails(d)
      BY <3>1, <3>2, <3>3, <3>7 DEF ApproveFails
    <3> QED
      BY <1>5, <3>5, <3>6, <3>7
  <2>3. DecisionsKeep
    BY <2>1, <2>2 DEF DecisionsKeep, Active
  <2>4. NetworkKeeps /\ rows' = rows
    BY <1>2, <1>5, <2>1 DEF CoSignAndSubmit, ApproveOk, ApproveFails, Envelope, NetworkKeeps,
       dbVars, chainVars
  <2> QED
    BY <1>2, <2>3, <2>4, NothingNew DEF RowsKeep, RowsOpenNothing
<1> QED
  BY <1>3, <1>4, <1>5 DEF DecisionStep

(* The network invents nothing, and uses every number once.                *)
LEMMA NetworkStepEnvelopes ==
  ASSUME IInv, NumbersUsed,
         \/ \E tx \in network : Include(tx) \/ Refuse(tx)
         \/ \E u \in Users : OtherTransaction(u)
         \/ Tick
         \/ UNCHANGED vars
  PROVE  NoNewEnvelopes /\ NumbersUsed' /\ UNCHANGED <<rows, requests, decisions>>
<1>1. UNCHANGED <<rows, requests, decisions>>
  BY DEF Include, Refuse, OtherTransaction, Tick, vars, dbVars
<1>2. network' \cup applied' \subseteq network \cup applied
  BY DEF Include, Refuse, OtherTransaction, Tick, vars, chainVars
<1>3. NoNewEnvelopes
  BY <1>1, <1>2, NothingNew DEF RowsOpenNothing, DecisionsKeep, NetworkKeeps, Active
<1>4. /\ \A u \in Users : seq[u] \in Nat /\ seq'[u] \in Nat /\ seq[u] <= seq'[u]
      /\ \A tx \in applied' : tx \in applied \/ tx.hash.seq = seq'[tx.hash.user]
  <2>1. seq \in [Users -> Nat] /\ seq' \in [Users -> Nat]
    BY NetworkStepType DEF IInv, TypeOK
  <2>2. ASSUME NEW tx \in network, Include(tx) \/ Refuse(tx)
        PROVE  /\ \A u \in Users : seq'[u] = seq[u] \/ seq'[u] = seq[u] + 1
               /\ \A t \in applied' : t \in applied \/ t.hash.seq = seq'[t.hash.user]
    <3>1. tx.hash.user \in Users
      BY Fields DEF IInv, Hashes
    <3> QED
      BY <2>1, <2>2, <3>1 DEF Include, Refuse, Includable
  <2>3. ASSUME NEW u \in Users, OtherTransaction(u)
        PROVE  /\ \A v \in Users : seq'[v] = seq[v] \/ seq'[v] = seq[v] + 1
               /\ applied' = applied
    BY <2>1, <2>3 DEF OtherTransaction
  <2>4. ASSUME Tick \/ UNCHANGED vars
        PROVE  /\ \A u \in Users : seq'[u] = seq[u]
               /\ applied' = applied
    BY <2>4 DEF Tick, vars, chainVars
  <2>5. /\ \A u \in Users : seq'[u] = seq[u] \/ seq'[u] = seq[u] + 1
        /\ \A t \in applied' : t \in applied \/ t.hash.seq = seq'[t.hash.user]
    <3>1. CASE \E tx \in network : Include(tx) \/ Refuse(tx)
      BY <2>2, <3>1
    <3>2. CASE \E u \in Users : OtherTransaction(u)
      BY <2>3, <3>2
    <3> QED
      BY <2>4, <3>1, <3>2
  <2> QED
    BY <2>1, <2>5
<1>5. \A tx \in applied : tx.hash.user \in Users /\ tx.hash.seq \in Nat
  BY Fields DEF IInv, Hashes
<1>6. NumbersUsed'
  <2> SUFFICES ASSUME NEW tx \in applied' PROVE tx.hash.seq <= seq'[tx.hash.user]
    BY DEF NumbersUsed
  <2>1. tx.hash.user \in Users /\ tx.hash.seq \in Nat
    BY <1>2, Fields DEF IInv, Hashes
  <2>2. CASE tx \in applied
    BY <1>4, <2>1, <2>2 DEF NumbersUsed
  <2>3. CASE tx.hash.seq = seq'[tx.hash.user]
    BY <2>1, <2>3
  <2> QED
    BY <1>4, <2>2, <2>3
<1> QED
  BY <1>1, <1>3, <1>6

-----------------------------------------------------------------------------
(* A step that adds no envelope keeps what is known of them.               *)
LEMMA EnvelopesStay ==
  ASSUME OneEnvelope, OnTerms, NoNewEnvelopes, RowsKeep
  PROVE  OneEnvelope' /\ OnTerms'
BY DEF OneEnvelope, OnTerms, NoNewEnvelopes, RowsKeep, HasTerms

(* The row a request inserts is the first its key is about.                *)
LEMMA InsertEnvelopes ==
  ASSUME JInv, NEW r \in Requests, requests[r].pc = "built", requests[r].key \in Keys,
         rows[requests[r].key] = NoRow, RowsKeep,
         rows' = [rows EXCEPT ![requests[r].key] =
           [status |-> "PENDING_SIGNATURE", user |-> requests[r].user,
            shape |-> requests[r].shape, envelope |-> requests[r].hash, code |-> "none"]],
         UNCHANGED <<decisions, network, applied>>
  PROVE  OneEnvelope' /\ OnTerms'
<1>0. PICK key \in Keys : key = requests[r].key
  OBVIOUS
<1> DEFINE row == [status |-> "PENDING_SIGNATURE", user |-> requests[r].user,
                   shape |-> requests[r].shape, envelope |-> requests[r].hash, code |-> "none"]
<1>1. \A k \in Keys : rows'[k] = IF k = key THEN row ELSE rows[k]
  BY <1>0, Fields DEF JInv, IInv
<1>2. row # NoRow /\ row.envelope = requests[r].hash
      /\ row.user = requests[r].user /\ row.shape = requests[r].shape
  BY DEF NoRow
<1>3. \A h : h \notin EnvelopesOf(key)
  BY <1>0 DEF JInv, OnTerms
<1>4. \A h : h \in EnvelopesOf(key)' => h = requests[r].hash
  <2>1. rows'[key].envelope = requests[r].hash
    BY <1>1, <1>2
  <2>2. \A h : h \in EnvelopesOf(key)' => h = rows'[key].envelope \/ h \in EnvelopesOf(key)
    <3> HIDE DEF row
    <3> QED
      BY DEF EnvelopesOf, Active
  <2> QED
    BY <1>3, <2>1, <2>2
<1>5. \A k \in Keys \ {key} : \A h : h \in EnvelopesOf(k)' => h \in EnvelopesOf(k)
  BY <1>1 DEF EnvelopesOf, Active
<1>6. HasTerms(requests[r].hash, requests[r].user, requests[r].shape)
  BY DEF JInv, BuiltOnTerms
<1>7. rows'[key] # NoRow /\ HasTerms(requests[r].hash, rows'[key].user, rows'[key].shape)
  BY <1>1, <1>2, <1>6
<1> HIDE DEF row
<1>8. OneEnvelope'
  BY <1>4, <1>5 DEF OneEnvelope, JInv
<1>9. OnTerms'
  BY <1>4, <1>5, <1>7 DEF OnTerms, RowsKeep, HasTerms, JInv
<1> QED
  BY <1>8, <1>9

(* A request builds the transaction it was asked for.                      *)
LEMMA RequestStepBuilds ==
  ASSUME IInv, BuiltOnTerms, NEW r \in Requests, RequestStep(r)
  PROVE  BuiltOnTerms'
<1>1. requests'[r].pc = "built" =>
        HasTerms(requests'[r].hash, requests'[r].user, requests'[r].shape)
  <2>1. /\ requests'[r].user = requests[r].user /\ requests'[r].shape = requests[r].shape
        /\ requests'[r].pc = "built" => requests'[r].hash = NewHash(r, "payment")
    BY RequestStepFields, Fields DEF IInv
  <2>2. HasTerms(NewHash(r, "payment"), requests[r].user, requests[r].shape)
    BY DEF HasTerms, NewHash
  <2> QED
    BY <2>1, <2>2
<1>2. \A q \in Requests \ {r} : requests'[q] = requests[q]
  BY RequestStepFields, Fields DEF IInv
<1> QED
  BY <1>1, <1>2 DEF BuiltOnTerms

(* The ledger forgets no payment.                                          *)
LEMMA AppliedStays ==
  ASSUME Next \/ UNCHANGED vars
  PROVE  applied \subseteq applied'
BY DEF Next, vars, RequestStep, ReadAccount, LookUp, SubmitConfigure, ConfigureOk,
   MarkMultisigConfigured, BuildEnvelope, CreateRow, RequestFails, DecisionStep, ReadPending,
   CoSignAndSubmit, ApproveOk, ApproveFails, WriteDecision, AbandonDecision, Include, Refuse,
   OtherTransaction, Tick, chainVars

(* A decision takes a payment for made only when the ledger has it.        *)
LEMMA DecisionStepPaid ==
  ASSUME IInv, PaidIsApplied, NEW d \in Decisions, DecisionStep(d)
  PROVE  PaidIsApplied'
<1>1. /\ decisions \in [Decisions -> Decision \cup {NoDecision, Over}] /\ applied' = applied
      /\ \A e \in Decisions : Active(e) <=> decisions[e] \in Decision
  BY Fields, DecisionStepEnvelopes DEF IInv, TypeOK
<1>2. /\ \A e \in Decisions \ {d} : decisions'[e] = decisions[e]
      /\ decisions'[d].pc = "paid" => ApproveOk(d) /\ decisions'[d].hash = decisions[d].hash
  <2>1. CASE WriteDecision(d) \/ AbandonDecision(d)
    BY <1>1, <2>1 DEF WriteDecision, AbandonDecision, FinishD, Over
  <2>2. CASE \E k \in Keys : ReadPending(d, k)
    BY <1>1, <2>2 DEF ReadPending
  <2>3. CASE CoSignAndSubmit(d)
    <3>1. decisions[d] \in Decision
      BY <1>1, <2>3 DEF CoSignAndSubmit, NoDecision, Over
    <3>2. [decisions[d] EXCEPT !.pc = "sent", !.hash = Envelope(d)].pc = "sent"
      BY <3>1 DEF Decision
    <3> QED
      BY <1>1, <2>3, <3>2 DEF CoSignAndSubmit
  <2>4. CASE ApproveFails(d)
    <3>1. decisions[d] \in Decision
      BY <1>1, <2>4 DEF ApproveFails, NoDecision, Over
    <3> QED
      BY <1>1, <2>4, <3>1 DEF ApproveFails, GotoD, Decision
  <2>5. CASE ApproveOk(d)
    <3>1. decisions[d] \in Decision
      BY <1>1, <2>5 DEF ApproveOk, NoDecision, Over
    <3> QED
      BY <1>1, <2>5, <3>1 DEF ApproveOk, GotoD, Decision
  <2> QED
    BY <2>1, <2>2, <2>3, <2>4, <2>5 DEF DecisionStep
<1>3. decisions'[d].pc = "paid" => \E tx \in applied' : tx.hash = decisions'[d].hash
  BY <1>1, <1>2 DEF ApproveOk, Applied
<1> QED
  BY <1>1, <1>2, <1>3 DEF PaidIsApplied, Applied

(* SUCCESS stays backed: rows become so only after the ledger has the      *)
(* payment, on the terms they have.                                        *)
LEMMA BackedStays ==
  ASSUME JInv, RowsKeep, applied \subseteq applied',
         \A k \in Keys : rows'[k].status = "SUCCESS" =>
           \/ rows'[k] = rows[k]
           \/ \E d \in Decisions :
                Active(d) /\ decisions[d].pc = "paid" /\ k = decisions[d].key
  PROVE  SuccessIsBacked'
<1>1. ASSUME NEW k \in Keys, rows[k].status = "SUCCESS"
      PROVE  \E tx \in applied : HasTerms(tx.hash, rows[k].user, rows[k].shape)
  BY <1>1 DEF JInv, SuccessIsBacked, HasTerms
<1>2. ASSUME NEW d \in Decisions, Active(d), decisions[d].pc = "paid",
             NEW k \in Keys, k = decisions[d].key
      PROVE  /\ rows[k] # NoRow
             /\ \E tx \in applied : HasTerms(tx.hash, rows[k].user, rows[k].shape)
  <2>1. PICK tx \in applied : tx.hash = decisions[d].hash
    BY <1>2 DEF JInv, PaidIsApplied, Applied
  <2>2. decisions[d].hash \in EnvelopesOf(k)
    BY <1>2 DEF EnvelopesOf
  <2> QED
    BY <2>1, <2>2 DEF JInv, OnTerms
<1>3. \A k \in Keys : rows'[k].status = "SUCCESS" =>
        \E tx \in applied' : HasTerms(tx.hash, rows'[k].user, rows'[k].shape)
  BY <1>1, <1>2 DEF RowsKeep
<1> QED
  BY <1>3 DEF SuccessIsBacked, HasTerms

(* Every step keeps the invariant, and the rows that are there.            *)
LEMMA StepEnvelopes ==
  ASSUME JInv, [Next]_vars, IInv'
  PROVE  JInv' /\ RowsKeep
<1>1. applied \subseteq applied'
  BY AppliedStays
<1>2. ASSUME NEW r \in Requests, RequestStep(r) PROVE JInv' /\ RowsKeep
  <2>1. RowsKeep /\ NumbersUsed' /\ UNCHANGED <<decisions, applied>>
    BY <1>2, RequestStepEnvelopes DEF JInv
  <2>2. OneEnvelope' /\ OnTerms'
    BY <1>2, RequestStepEnvelopes, EnvelopesStay, InsertEnvelopes DEF JInv
  <2>3. BuiltOnTerms'
    BY <1>2, RequestStepBuilds DEF JInv
  <2>4. PaidIsApplied'
    BY <2>1 DEF JInv, PaidIsApplied, Applied
  <2>5. \A k \in Keys : rows'[k].status = "SUCCESS" => rows'[k] = rows[k]
    <3> DEFINE row == [status |-> "PENDING_SIGNATURE", user |-> requests[r].user,
                       shape |-> requests[r].shape, envelope |-> requests[r].hash, code |-> "none"]
    <3>1. rows' = rows \/ rows' = [rows EXCEPT ![requests[r].key] = row]
      BY <1>2, RequestStepEnvelopes DEF JInv
    <3>2. row.status # "SUCCESS"
      OBVIOUS
    <3> HIDE DEF row
    <3> QED
      BY <3>1, <3>2, Fields DEF JInv, IInv
  <2>6. SuccessIsBacked'
    BY <1>1, <2>1, <2>5, BackedStays
  <2> QED
    BY <2>1, <2>2, <2>3, <2>4, <2>6 DEF JInv
<1>3. ASSUME NEW d \in Decisions, DecisionStep(d) PROVE JInv' /\ RowsKeep
  <2>1. NoNewEnvelopes /\ RowsKeep /\ UNCHANGED <<requests, applied, seq>>
    BY <1>3, DecisionStepEnvelopes DEF JInv
  <2>2. OneEnvelope' /\ OnTerms'
    BY <2>1, EnvelopesStay DEF JInv
  <2>3. BuiltOnTerms' /\ NumbersUsed'
    BY <2>1 DEF JInv, BuiltOnTerms, NumbersUsed
  <2>4. PaidIsApplied'
    BY <1>3, DecisionStepPaid DEF JInv
  <2>5. \A k \in Keys : rows'[k].status = "SUCCESS" =>
          \/ rows'[k] = rows[k]
          \/ Active(d) /\ decisions[d].pc = "paid" /\ k = decisions[d].key
    <3>1. WriteDecision(d) \/ rows' = rows
      BY <1>3 DEF DecisionStep, ReadPending, CoSignAndSubmit, ApproveOk, ApproveFails,
         AbandonDecision, dbVars
    <3> QED
      BY <3>1, WriteDecisionRows DEF JInv
  <2>6. SuccessIsBacked'
    BY <1>1, <2>1, <2>5, BackedStays
  <2> QED
    BY <2>1, <2>2, <2>3, <2>4, <2>6 DEF JInv
<1>4. CASE \/ \E tx \in network : Include(tx) \/ Refuse(tx)
           \/ \E u \in Users : OtherTransaction(u)
           \/ Tick
           \/ UNCHANGED vars
  <2>1. NoNewEnvelopes /\ NumbersUsed' /\ UNCHANGED <<rows, requests, decisions>>
    BY <1>4, NetworkStepEnvelopes DEF JInv
  <2>2. RowsKeep
    BY <2>1 DEF RowsKeep
  <2>3. OneEnvelope' /\ OnTerms'
    BY <2>1, <2>2, EnvelopesStay DEF JInv
  <2>4. BuiltOnTerms' /\ PaidIsApplied'
    BY <1>1, <2>1 DEF JInv, BuiltOnTerms, PaidIsApplied, Applied
  <2>5. SuccessIsBacked'
    BY <1>1, <2>1, <2>2, BackedStays
  <2> QED
    BY <2>1, <2>2, <2>3, <2>4, <2>5 DEF JInv
<1> QED
  BY <1>2, <1>3, <1>4 DEF Next

(* Nothing is stored, sent or paid at first.                               *)
LEMMA InitEnvelopes == Init => JInv
<1> SUFFICES ASSUME Init PROVE JInv
  OBVIOUS
<1>1. \A k \in Keys : \A h : h \notin EnvelopesOf(k)
  BY DEF Init, EnvelopesOf, Active, NoRow
<1>2. OneEnvelope /\ OnTerms
  BY <1>1 DEF OneEnvelope, OnTerms
<1>3. BuiltOnTerms /\ NumbersUsed /\ PaidIsApplied /\ SuccessIsBacked
  BY DEF Init, BuiltOnTerms, NumbersUsed, PaidIsApplied, SuccessIsBacked, NoDecision, NoRow
<1> QED
  BY <1>2, <1>3, InitInv DEF JInv

(* In every reachable state a key is about one envelope at most, of its    *)
(* row's terms, wherever copies of it are: in the row, with administrators *)
(* or on the network.                                                      *)
THEOREM EnvelopeInvariance == Spec => []JInv
<1>1. JInv /\ [Next]_vars /\ IInv' => JInv'
  BY StepEnvelopes
<1> QED
  BY <1>1, InitEnvelopes, Invariance, PTL DEF Spec

(* A row whose approval is recorded was paid on its own terms, for any     *)
(* number of administrators who decide on it, and repeat themselves.       *)
THEOREM SuccessIsBackedTheorem == Spec => []SuccessIsBacked
<1>1. JInv => SuccessIsBacked
  BY DEF JInv
<1> QED
  BY <1>1, EnvelopeInvariance, PTL

-----------------------------------------------------------------------------
(* Refinement *)

(* A payment of a key that the ledger includes is the first: another one   *)
(* would have the same envelope, whose number is used up.                  *)
LEMMA FirstPayment ==
  ASSUME JInv, NEW tx \in network, Include(tx), tx.hash.kind = "payment",
         NEW old \in Paid, old.key = tx.key
  PROVE  FALSE
<1>1. tx.key \in Keys /\ tx.hash \in Hashes
  BY Fields DEF JInv, IInv
<1>2. tx.hash \in EnvelopesOf(tx.key) /\ old.hash \in EnvelopesOf(tx.key)
  BY DEF EnvelopesOf, Paid
<1>3. old.hash = tx.hash
  BY <1>1, <1>2 DEF JInv, OneEnvelope
<1>4. tx.hash.seq <= seq[tx.hash.user]
  BY <1>3 DEF JInv, NumbersUsed, Paid
<1>5. tx.hash.seq = seq[tx.hash.user] + 1
  BY DEF Include, Includable
<1>6. tx.hash.seq \in Nat /\ seq[tx.hash.user] \in Nat
  BY <1>1, Fields DEF JInv, IInv, Hashes
<1> QED
  BY <1>4, <1>5, <1>6

(* High-value payments keep the promise of an idempotency key as well: it  *)
(* is bound once and paid at most once, as bound, however many requests    *)
(* and administrators there are.                                           *)
THEOREM ImplementsIntent == Spec => IntentSpec
<1> DEFINE intent == [k \in Keys |-> IntentOf(k)]
           paid == {PaidFor(tx) : tx \in Paid}
<1>1. Init => Intent!Init
  BY DEF Init, Intent!Init, IntentOf, Paid
<1>2. JInv /\ [Next]_vars => [Intent!Next]_<<intent, paid>>
  <2> SUFFICES ASSUME JInv, [Next]_vars PROVE [Intent!Next]_<<intent, paid>>
    OBVIOUS
  <2>1. ASSUME rows' = rows PROVE intent' = intent
    BY <2>1 DEF IntentOf
  <2>2. ASSUME applied' = applied PROVE paid' = paid
    BY <2>2 DEF Paid, PaidFor
  <2>3. ASSUME NEW r \in Requests, RequestStep(r) PROVE [Intent!Next]_<<intent, paid>>
    <3>1. applied' = applied
      BY <2>3, RequestStepEnvelopes DEF JInv
    <3>2. CASE rows' = rows
      BY <2>1, <2>2, <3>1, <3>2
    <3>3. CASE /\ requests[r].key \in Keys /\ rows[requests[r].key] = NoRow
               /\ rows' = [rows EXCEPT ![requests[r].key] =
                    [status |-> "PENDING_SIGNATURE", user |-> requests[r].user,
                     shape |-> requests[r].shape, envelope |-> requests[r].hash, code |-> "none"]]
      <4>1. PICK key \in Keys : key = requests[r].key
        BY <3>3
      <4> DEFINE terms == [user |-> requests[r].user, shape |-> requests[r].shape]
                 row == [status |-> "PENDING_SIGNATURE", user |-> requests[r].user,
                         shape |-> requests[r].shape, envelope |-> requests[r].hash, code |-> "none"]
      <4>2. terms \in Intent!Terms
        BY Fields DEF JInv, IInv, Request, Intent!Terms
      <4>3. \A k \in Keys : rows'[k] = IF k = key THEN row ELSE rows[k]
        BY <3>3, <4>1, Fields DEF JInv, IInv
      <4>4. row # NoRow /\ row.user = terms.user /\ row.shape = terms.shape
        BY DEF NoRow
      <4>5. \A k \in Keys : IntentOf(k)' = IF k = key THEN terms ELSE IntentOf(k)
        BY <4>3, <4>4 DEF IntentOf
      <4>6. intent[key] = NoRow /\ intent' = [intent EXCEPT ![key] = terms]
        BY <3>3, <4>1, <4>5 DEF IntentOf
      <4> QED
        BY <2>2, <3>1, <4>2, <4>6 DEF Intent!Next, Intent!Bind
    <3> QED
      BY <2>3, <3>2, <3>3, RequestStepEnvelopes DEF JInv
  <2>4. ASSUME NEW d \in Decisions, DecisionStep(d) PROVE UNCHANGED <<intent, paid>>
    <3>1. RowsKeep /\ applied' = applied
      BY <2>4, DecisionStepEnvelopes DEF JInv
    <3>2. \A k \in Keys : rows[k] = NoRow => rows'[k] = NoRow
      <4>1. CASE WriteDecision(d)
        <5>1. decisions[d].key \in Keys /\ rows[decisions[d].key] # NoRow
          BY <4>1, Fields DEF WriteDecision, JInv, IInv, Prepared, Active, NoDecision, Over, Decision
        <5>2. PICK row : rows' = [rows EXCEPT ![decisions[d].key] = row]
          BY <4>1 DEF WriteDecision, Resolve
        <5> QED
          BY <5>1, <5>2, Fields DEF JInv, IInv
      <4>2. CASE rows' = rows
        BY <4>2
      <4> QED
        BY <2>4, <4>1, <4>2 DEF DecisionStep, ReadPending, CoSignAndSubmit, ApproveOk, ApproveFails,
           AbandonDecision, dbVars
    <3>3. \A k \in Keys : IntentOf(k)' = IntentOf(k)
      BY <3>1, <3>2 DEF IntentOf, RowsKeep
    <3> QED
      BY <2>2, <3>1, <3>3
  <2>5. ASSUME NEW tx \in network, Include(tx) PROVE [Intent!Next]_<<intent, paid>>
    <3>1. rows' = rows /\ applied' = applied \cup {tx}
      BY <2>5 DEF Include, dbVars
    <3>2. CASE tx.hash.kind = "payment"
      <4>1. tx.key \in Keys
        BY Fields DEF JInv, IInv
      <4>2. tx.hash \in EnvelopesOf(tx.key)
        BY <3>2 DEF EnvelopesOf
      <4>3. rows[tx.key] # NoRow /\ HasTerms(tx.hash, rows[tx.key].user, rows[tx.key].shape)
        BY <4>1, <4>2 DEF JInv, OnTerms
      <4>4. intent[tx.key] = PaidFor(tx).terms /\ PaidFor(tx).key = tx.key
            /\ intent[tx.key] # NoRow
        BY <4>1, <4>3 DEF IntentOf, PaidFor, HasTerms, NoRow
      <4>5. ASSUME NEW p \in paid, p.key = tx.key PROVE FALSE
        <5>1. PICK old \in Paid : p = PaidFor(old)
          OBVIOUS
        <5> QED
          BY <2>5, <3>2, <4>5, <5>1, FirstPayment DEF PaidFor
      <4>6. Paid' = Paid \cup {tx}
        BY <3>1, <3>2 DEF Paid
      <4>7. paid' = paid \cup {PaidFor(tx)}
        BY <4>6 DEF PaidFor
      <4>8. Intent!Pay(tx.key)
        BY <2>1, <3>1, <4>4, <4>5, <4>7 DEF Intent!Pay
      <4> QED
        BY <4>1, <4>8 DEF Intent!Next
    <3>3. CASE tx.hash.kind # "payment"
      <4>1. Paid' = Paid
        BY <3>1, <3>3 DEF Paid
      <4> QED
        BY <2>1, <3>1, <4>1 DEF PaidFor
    <3> QED
      BY <3>2, <3>3
  <2>6. ASSUME NEW tx \in network, Refuse(tx) PROVE UNCHANGED <<intent, paid>>
    BY <2>1, <2>2, <2>6 DEF Refuse, dbVars
  <2>7. CASE (\E u \in Users : OtherTransaction(u)) \/ Tick \/ UNCHANGED vars
    BY <2>1, <2>2, <2>7 DEF OtherTransaction, Tick, vars, dbVars, chainVars
  <2> QED
    BY <2>3, <2>4, <2>5, <2>6, <2>7 DEF Next
<1> QED
  BY <1>1, <1>2, EnvelopeInvariance, PTL DEF Spec, IntentSpec, Intent!Spec
=============================================================================
