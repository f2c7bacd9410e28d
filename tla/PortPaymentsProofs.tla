------------------------- MODULE PortPaymentsProofs -------------------------
(* Proofs about PortPayments for every number of requests, keys, sessions, *)
(* instances, decisions and looks: the table keeps its promises although   *)
(* every commit writes from a copy that may be older than the row.         *)
EXTENDS PortPayments, TLAPS

(* A payment of a row's terms, or an administrator's word for one.         *)
Backs(hash, shape) == hash = Invented \/ \E p \in ledger : p.hash = hash /\ p.shape = shape

(* How far a row has been looked at; the history stops at the limit.       *)
LookedAt(k, retries) == retries <= looks[k] \/ looks[k] = MaxAttempts

RowHolds(k) ==
  /\ rows[k].hash # None => Backs(rows[k].hash, rows[k].shape)
  /\ rows[k].status = "SUCCESS" => rows[k].hash # None
  /\ LookedAt(k, rows[k].retries)
  /\ rows[k].code = "RECONCILIATION_EXPIRED" => looks[k] = MaxAttempts

(* What a copy says of its row at any later time: the row is there, of the *)
(* same terms, has not lost its hash, and was looked at no less.           *)
CopyOf(k, row) ==
  /\ rows[k] # None
  /\ row.shape = rows[k].shape
  /\ row.hash # None => rows[k].hash # None
  /\ LookedAt(k, row.retries)

(* A request q, known to the network by its name r.                        *)
Owning == {"refresh", "submit", "ok", "refused", "error"}
Unpaid(k) == \A p \in ledger \cup network : p.key = k => k = None
RequestHolds(r, q) ==
  /\ q.pc \in Owning => rows[q.key] # None /\ q.shape = rows[q.key].shape
  /\ q.pc \in Owning \ {"refresh"} => q.row \in Row /\ CopyOf(q.key, q.row)
  /\ q.pc = "ok" => [hash |-> r, key |-> q.key, shape |-> q.shape] \in ledger
  /\ q.pc \in {"refresh", "submit"} => Unpaid(q.key)

RowsHold == \A k \in Keys : rows[k] # None => RowHolds(k)
RequestsHold ==
  \A r \in Requests : requests[r] \notin {None, Over} => RequestHolds(r, requests[r])
OneOwner ==
  \A r, q \in Requests :
    At(r, Owning) /\ At(q, Owning) /\ requests[r].key = requests[q].key => r = q
SessionsHold == \A s \in Sessions : sessions[s] # None => CopyOf(sessions[s].key, sessions[s].row)
DecisionsHold ==
  \A d \in Decisions : decisions[d] \notin {None, Over} => CopyOf(decisions[d].key, decisions[d].row)
PaidHaveRows == \A p \in ledger \cup network :
  p.key \in Keys /\ p.key # None => rows[p.key] # None /\ rows[p.key].shape = p.shape

IInv ==
  /\ TypeOK
  /\ RowsHold
  /\ RequestsHold
  /\ OneOwner
  /\ SessionsHold
  /\ DecisionsHold
  /\ PaidHaveRows
  /\ PaidAtMostOnce

-----------------------------------------------------------------------------
LEMMA InitHolds == Init => IInv
<1> SUFFICES ASSUME Init PROVE IInv
  OBVIOUS
<1>1. TypeOK
  BY AttemptsAssumption DEF Init, TypeOK
<1>2. RequestsHold /\ OneOwner /\ DecisionsHold
  BY DEF Init, RequestsHold, OneOwner, At, DecisionsHold
<1>3. RowsHold /\ SessionsHold /\ PaidHaveRows /\ PaidAtMostOnce
  BY DEF Init, RowsHold, SessionsHold, PaidHaveRows, PaidAtMostOnce
<1> QED
  BY <1>1, <1>2, <1>3 DEF IInv

(* What every step keeps: copies stay copies.                              *)
Kept ==
  /\ \A k \in Keys, row \in Row : CopyOf(k, row) => CopyOf(k, row)'
  /\ \A k \in Keys : rows[k] # None => rows'[k] # None /\ rows'[k].shape = rows[k].shape
  /\ ledger \subseteq ledger'

LEMMA KeptByDefault ==
  ASSUME UNCHANGED <<rows, looks>>, ledger \subseteq ledger'
  PROVE  Kept /\ (RowsHold => RowsHold')
<1>1. Kept
  BY DEF Kept, CopyOf, LookedAt
<1>2. \A hash, shape : Backs(hash, shape) => Backs(hash, shape)'
  BY DEF Backs
<1>3. RowsHold => RowsHold'
  BY <1>2 DEF RowsHold, RowHolds, LookedAt
<1> QED
  BY <1>1, <1>3

(* A commit, field by field.                                               *)
Merged(now, loaded, set) == [f \in DOMAIN now |-> IF set[f] = loaded[f] THEN now[f] ELSE set[f]]

LEMMA MergedFields ==
  ASSUME NEW now \in Row, NEW loaded \in Row, NEW set \in Row
  PROVE  LET m == Merged(now, loaded, set)
         IN /\ m \in Row
            /\ m.status = IF set.status = loaded.status THEN now.status ELSE set.status
            /\ m.hash = IF set.hash = loaded.hash THEN now.hash ELSE set.hash
            /\ m.code = IF set.code = loaded.code THEN now.code ELSE set.code
            /\ m.retries = IF set.retries = loaded.retries THEN now.retries ELSE set.retries
            /\ m.shape = IF set.shape = loaded.shape THEN now.shape ELSE set.shape
<1>1. DOMAIN now = {"status", "hash", "code", "retries", "shape"}
  BY DEF Row
<1> QED
  BY <1>1 DEF Merged, Row

LEMMA FlushMerges ==
  ASSUME IInv, NEW loaded, loaded.key \in Keys, loaded.row \in Row, CopyOf(loaded.key, loaded.row),
         NEW set \in Row, rows' = Flush(loaded, set)
  PROVE  /\ rows[loaded.key] \in Row
         /\ rows'[loaded.key] = Merged(rows[loaded.key], loaded.row, set)
         /\ \A k \in Keys : k # loaded.key => rows'[k] = rows[k]
         /\ rows' \in [Keys -> Row \cup {None}]
<1>1. rows[loaded.key] \in Row
  BY DEF IInv, TypeOK, CopyOf
<1>2. rows'[loaded.key] = Merged(rows[loaded.key], loaded.row, set)
  BY DEF Flush, Merged
<1>3. \A k \in Keys : k # loaded.key => rows'[k] = rows[k]
  BY DEF Flush
<1>4. rows'[loaded.key] \in Row
  BY <1>1, <1>2, MergedFields
<1>5. DOMAIN rows' = Keys /\ rows' = [k \in Keys |-> rows'[k]]
  BY DEF Flush
<1> QED
  BY <1>1, <1>2, <1>3, <1>4, <1>5 DEF IInv, TypeOK

(* A commit from a copy, of changes that say nothing wrong by themselves,  *)
(* leaves the rows right: whatever half of them it writes.                 *)
LEMMA CommitHolds ==
  ASSUME IInv, NEW loaded, loaded.key \in Keys, loaded.row \in Row, CopyOf(loaded.key, loaded.row),
         NEW set \in Row, rows' = Flush(loaded, set), UNCHANGED ledger,
         set.shape = loaded.row.shape,
         set.hash # loaded.row.hash => set.hash # None /\ Backs(set.hash, set.shape),
         set.status = "SUCCESS" /\ set.status # loaded.row.status => set.hash # None,
         looks' \in [Keys -> 0..MaxAttempts], \A k \in Keys : looks[k] <= looks'[k],
         set.retries # loaded.row.retries => LookedAt(loaded.key, set.retries)',
         set.code = "RECONCILIATION_EXPIRED" /\ set.code # loaded.row.code =>
           looks'[loaded.key] = MaxAttempts
  PROVE  Kept /\ RowsHold'
<1> DEFINE k == loaded.key
           m == Merged(rows[k], loaded.row, set)
<1>1. PICK now \in Row : now = rows[k]
  BY FlushMerges
<1>2. PICK new \in Row : new = m
  BY <1>1, MergedFields
<1>3. /\ new.status = IF set.status = loaded.row.status THEN now.status ELSE set.status
      /\ new.hash = IF set.hash = loaded.row.hash THEN now.hash ELSE set.hash
      /\ new.code = IF set.code = loaded.row.code THEN now.code ELSE set.code
      /\ new.retries = IF set.retries = loaded.row.retries THEN now.retries ELSE set.retries
      /\ new.shape = now.shape
  BY <1>1, <1>2, MergedFields
<1>4. rows'[k] = new /\ \A j \in Keys : j # k => rows'[j] = rows[j]
  BY <1>1, <1>2, FlushMerges
<1>5. now # None /\ new # None
  BY NamesAssumption
<1>6. /\ MaxAttempts \in Nat
      /\ \A j \in Keys : looks[j] \in 0..MaxAttempts /\ looks'[j] \in 0..MaxAttempts /\ looks[j] <= looks'[j]
  BY AttemptsAssumption DEF IInv, TypeOK
<1>7. \A j \in Keys, n \in Nat : LookedAt(j, n) => LookedAt(j, n)'
  BY <1>6 DEF LookedAt
<1>8. RowHolds(k) /\ loaded.row.shape = now.shape /\ (loaded.row.hash # None => now.hash # None)
  BY <1>1, <1>5 DEF IInv, RowsHold, CopyOf
<1>9. new.hash # None => Backs(new.hash, new.shape)
  BY <1>1, <1>3, <1>8 DEF RowHolds
<1>10. now.hash # None => new.hash # None
  BY <1>3
<1>11. new.status = "SUCCESS" => new.hash # None
  BY <1>1, <1>3, <1>8 DEF RowHolds
<1>12. LookedAt(k, new.retries)'
  <2>1. now.retries \in Nat /\ LookedAt(k, now.retries)
    BY <1>1, <1>8 DEF RowHolds, Row
  <2> QED
    BY <1>3, <1>7, <2>1
<1>13. new.code = "RECONCILIATION_EXPIRED" => looks'[k] = MaxAttempts
  BY <1>1, <1>3, <1>6, <1>8 DEF RowHolds
<1>14. Kept
  <2>1. \A j \in Keys : rows[j] # None => rows'[j] # None /\ rows'[j].shape = rows[j].shape
    BY <1>1, <1>3, <1>4, <1>5
  <2>2. ASSUME NEW j \in Keys, NEW row \in Row, CopyOf(j, row)
        PROVE  CopyOf(j, row)'
    <3>1. row.retries \in Nat
      BY DEF Row
    <3>2. LookedAt(j, row.retries)'
      BY <1>7, <2>2, <3>1 DEF CopyOf
    <3> QED
      BY <1>1, <1>4, <1>10, <2>1, <2>2, <3>2 DEF CopyOf
  <2> QED
    BY <2>1, <2>2 DEF Kept
<1>15. RowsHold'
  <2> SUFFICES ASSUME NEW j \in Keys, rows'[j] # None
               PROVE  RowHolds(j)'
    BY DEF RowsHold
  <2>1. CASE j = k
    <3>1. Backs(new.hash, new.shape) => Backs(new.hash, new.shape)'
      BY DEF Backs
    <3>2. rows'[j] = new
      BY <1>4, <2>1
    <3>3. new.hash # None => Backs(new.hash, new.shape)'
      BY <1>9, <3>1
    <3>4. rows'[j].hash # None => Backs(rows[j].hash, rows[j].shape)'
      BY <3>2, <3>3 DEF Backs
    <3>5. LookedAt(j, rows[j].retries)'
      BY <1>12, <2>1, <3>2 DEF LookedAt
    <3> QED
      BY <1>11, <1>13, <2>1, <3>2, <3>4, <3>5 DEF RowHolds
  <2>2. CASE j # k
    <3>1. rows'[j] = rows[j] /\ RowHolds(j) /\ rows[j] \in Row
      BY <1>4, <2>2 DEF IInv, RowsHold, TypeOK
    <3>2. rows[j].retries \in Nat
      BY <3>1 DEF Row
    <3>3. LookedAt(j, rows[j].retries)'
      BY <1>6, <3>1, <3>2 DEF LookedAt, RowHolds
    <3>4. looks[j] = MaxAttempts => looks'[j] = MaxAttempts
      BY <1>6
    <3>5. rows'[j].hash # None => Backs(rows[j].hash, rows[j].shape)'
      BY <3>1 DEF RowHolds, Backs
    <3> QED
      BY <3>1, <3>3, <3>4, <3>5 DEF RowHolds
  <2> QED
    BY <2>1, <2>2
<1> QED
  BY <1>14, <1>15

-----------------------------------------------------------------------------
(* A request that does nothing still holds what it held, unless a payment  *)
(* of its key is made before it has submitted its own.                     *)
LEMMA RequestStays ==
  ASSUME IInv, Kept, NEW r \in Requests, NEW q \in Request, RequestHolds(r, q),
         \A p \in ledger' \cup network' : p.key = q.key => p \in ledger \cup network \/ p.key = None
  PROVE  RequestHolds(r, q)'
<1>1. q.key \in Keys
  BY DEF Request
<1>2. q.pc \in Owning => rows'[q.key] # None /\ q.shape = rows'[q.key].shape
  BY <1>1 DEF RequestHolds, Kept
<1>3. q.pc \in Owning \ {"refresh"} => q.row \in Row /\ CopyOf(q.key, q.row)'
  BY <1>1 DEF RequestHolds, Kept
<1>4. q.pc = "ok" => [hash |-> r, key |-> q.key, shape |-> q.shape] \in ledger'
  BY DEF RequestHolds, Kept
<1>5. q.pc \in {"refresh", "submit"} => Unpaid(q.key)'
  BY DEF RequestHolds, Unpaid
<1> QED
  BY <1>2, <1>3, <1>4, <1>5 DEF RequestHolds

(* What a request under way is and holds.                                  *)
LEMMA Underway ==
  ASSUME IInv, NEW r \in Requests, requests[r] \notin {None, Over}
  PROVE  requests[r] \in Request /\ RequestHolds(r, requests[r])
BY DEF IInv, TypeOK, RequestsHold

(* All requests but at most one stay as they are.                          *)
LEMMA OthersStay ==
  ASSUME IInv, Kept, NEW r \in Requests, NEW v \in Request \cup {None, Over},
         requests' = [requests EXCEPT ![r] = v], v \notin {None, Over} => RequestHolds(r, v)',
         \A q \in Requests \ {r} : At(q, Owning) =>
           \A p \in ledger' \cup network' :
             p.key = requests[q].key => p \in ledger \cup network \/ p.key = None
  PROVE  RequestsHold' /\ requests' \in [Requests -> Request \cup {None, Over}]
<1>1. requests \in [Requests -> Request \cup {None, Over}]
  BY DEF IInv, TypeOK
<1> SUFFICES ASSUME NEW q \in Requests, requests'[q] \notin {None, Over}
             PROVE  RequestHolds(q, requests[q])'
  BY <1>1 DEF RequestsHold
<1>2. CASE q = r
  <2>1. requests'[q] = v /\ RequestHolds(r, v)'
    BY <1>1, <1>2
  <2> QED
    BY <1>2, <2>1 DEF RequestHolds
<1>3. CASE q # r
  <2>1. requests'[q] = requests[q]
    BY <1>1, <1>3
  <2>2. PICK w \in Request : w = requests[q] /\ RequestHolds(q, w)
    BY <2>1, Underway
  <2>3. CASE At(q, Owning)
    <3>1. RequestHolds(q, w)'
      BY <1>3, <2>2, <2>3, RequestStays
    <3> QED
      BY <2>1, <2>2, <3>1 DEF RequestHolds
  <2>4. CASE ~At(q, Owning)
    <3>1. w.pc \notin Owning
      BY <2>1, <2>2, <2>4 DEF At
    <3>2. RequestHolds(q, w)'
      BY <3>1 DEF RequestHolds, Owning
    <3> QED
      BY <2>1, <2>2, <3>2 DEF RequestHolds
  <2> QED
    BY <2>3, <2>4
<1> QED
  BY <1>2, <1>3

LEMMA OwnersStay ==
  ASSUME IInv, NEW r \in Requests, NEW v \in Request \cup {None, Over},
         requests' = [requests EXCEPT ![r] = v],
         v \notin {None, Over} /\ v.pc \in Owning =>
           \/ At(r, Owning) /\ v.key = requests[r].key
           \/ \A q \in Requests : At(q, Owning) => requests[q].key # v.key
  PROVE  OneOwner'
BY DEF IInv, TypeOK, OneOwner, At

LEMMA PaymentsStay ==
  ASSUME IInv, Kept, \A p \in ledger' \cup network' : p \in ledger \cup network \/ p.key = None
  PROVE  PaidHaveRows' /\ PaidAtMostOnce'
<1>1. PaidHaveRows'
  BY DEF IInv, PaidHaveRows, Kept
<1>2. PaidAtMostOnce'
  BY DEF IInv, PaidAtMostOnce
<1> QED
  BY <1>1, <1>2

(* A step of one request that pays nothing.                                *)
LEMMA RequestStep ==
  ASSUME IInv, Kept, UNCHANGED chain, NEW r \in Requests, NEW v \in Request \cup {None, Over},
         requests' = [requests EXCEPT ![r] = v], v \notin {None, Over} => RequestHolds(r, v)',
         v \notin {None, Over} /\ v.pc \in Owning =>
           \/ At(r, Owning) /\ v.key = requests[r].key
           \/ \A q \in Requests : At(q, Owning) => requests[q].key # v.key
  PROVE  /\ RequestsHold' /\ OneOwner' /\ PaidHaveRows' /\ PaidAtMostOnce'
         /\ requests' \in [Requests -> Request \cup {None, Over}]
<1>1. UNCHANGED <<network, ledger>>
  BY DEF chain
<1> QED
  BY <1>1, OthersStay, OwnersStay, PaymentsStay

(* A step of anybody else.                                                 *)
LEMMA RequestsStay ==
  ASSUME IInv, Kept, UNCHANGED requests,
         \A p \in ledger' \cup network' : p \in ledger \cup network \/ p.key = None
  PROVE  RequestsHold' /\ OneOwner' /\ PaidHaveRows' /\ PaidAtMostOnce'
<1>1. RequestsHold'
  <2> SUFFICES ASSUME NEW q \in Requests, requests[q] \notin {None, Over}
               PROVE  RequestHolds(q, requests[q])'
    BY DEF RequestsHold
  <2>1. PICK w \in Request : w = requests[q] /\ RequestHolds(q, w)
    BY Underway
  <2>2. RequestHolds(q, w)'
    BY <2>1, RequestStays
  <2> QED
    BY <2>1, <2>2 DEF RequestHolds
<1>2. OneOwner'
  BY DEF IInv, OneOwner, At
<1> QED
  BY <1>1, <1>2, PaymentsStay

LEMMA SessionsStay ==
  ASSUME IInv, Kept, \A s \in Sessions : sessions'[s] = sessions[s] \/ sessions'[s] = None
  PROVE  SessionsHold'
<1> SUFFICES ASSUME NEW s \in Sessions, sessions'[s] # None
             PROVE  CopyOf(sessions[s].key, sessions[s].row)'
  BY DEF SessionsHold
<1>1. sessions'[s] = sessions[s]
  OBVIOUS
<1>2. PICK k \in Keys, row \in Row : k = sessions[s].key /\ row = sessions[s].row
  BY <1>1 DEF IInv, TypeOK
<1>3. CopyOf(k, row)'
  BY <1>1, <1>2 DEF IInv, SessionsHold, Kept
<1> QED
  BY <1>1, <1>2, <1>3 DEF CopyOf, LookedAt

LEMMA DecisionsStay ==
  ASSUME IInv, Kept, \A d \in Decisions : decisions'[d] = decisions[d] \/ decisions'[d] \in {None, Over}
  PROVE  DecisionsHold'
<1> SUFFICES ASSUME NEW d \in Decisions, decisions'[d] \notin {None, Over}
             PROVE  CopyOf(decisions[d].key, decisions[d].row)'
  BY DEF DecisionsHold
<1>1. decisions'[d] = decisions[d]
  OBVIOUS
<1>2. PICK k \in Keys, row \in Row : k = decisions[d].key /\ row = decisions[d].row
  BY <1>1 DEF IInv, TypeOK
<1>3. CopyOf(k, row)'
  BY <1>1, <1>2 DEF IInv, DecisionsHold, Kept
<1> QED
  BY <1>1, <1>2, <1>3 DEF CopyOf, LookedAt

(* A row is a copy of itself.                                              *)
LEMMA Copied ==
  ASSUME IInv, NEW k \in Keys, rows[k] # None
  PROVE  rows[k] \in Row /\ CopyOf(k, rows[k])
BY DEF IInv, TypeOK, RowsHold, RowHolds, CopyOf

(* A step that leaves the table, the ledger and the requests alone.        *)
LEMMA Aside ==
  ASSUME IInv, UNCHANGED <<requests, rows, looks, ledger>>, network' \subseteq network,
         SessionsHold', DecisionsHold', TypeOK'
  PROVE  IInv'
<1>1. Kept /\ RowsHold'
  BY KeptByDefault DEF IInv
<1> QED
  BY <1>1, RequestsStay DEF IInv

-----------------------------------------------------------------------------
LEMMA SendStep ==
  ASSUME IInv, NEW r \in Requests, NEW k \in Keys, NEW shape \in Shapes, Send(r, k, shape)
  PROVE  IInv'
<1> DEFINE new == [pc |-> "insert", key |-> k, shape |-> shape, row |-> None]
<1>1. UNCHANGED <<network, ledger, rows, age, looks, sessions, jobs, decisions, answered>>
  BY DEF Send, chain, table, job, admin
<1>2. PICK v \in Request \cup {None, Over} : requests' = [requests EXCEPT ![r] = v] /\ v \in {new, Over}
  BY DEF Send, Request
<1>3. Kept /\ RowsHold' /\ UNCHANGED chain
  BY <1>1, KeptByDefault DEF IInv, chain
<1>4. v = new => RequestHolds(r, v)'
  BY DEF RequestHolds, Owning
<1>5. v # Over => v.pc \notin Owning
  BY <1>2 DEF Owning
<1>6. /\ RequestsHold' /\ OneOwner' /\ PaidHaveRows' /\ PaidAtMostOnce'
      /\ requests' \in [Requests -> Request \cup {None, Over}]
  BY <1>2, <1>3, <1>4, <1>5, RequestStep
<1>7. TypeOK'
  BY <1>1, <1>6 DEF IInv, TypeOK
<1> QED
  BY <1>1, <1>3, <1>6, <1>7, SessionsStay, DecisionsStay DEF IInv

(* A call that returns, having written nothing or what CommitHolds allows. *)
LEMMA ReturnStep ==
  ASSUME IInv, NEW r \in Requests, Kept, RowsHold', rows' \in [Keys -> Row \cup {None}],
         Return(r), UNCHANGED <<chain, age, looks, job, admin>>
  PROVE  IInv'
<1>1. /\ RequestsHold' /\ OneOwner' /\ PaidHaveRows' /\ PaidAtMostOnce'
      /\ requests' \in [Requests -> Request \cup {None, Over}]
  BY RequestStep DEF Return
<1>2. UNCHANGED <<network, ledger, sessions, jobs, decisions, answered>>
  BY DEF chain, job, admin
<1>3. TypeOK'
  BY <1>1, <1>2 DEF IInv, TypeOK
<1> QED
  BY <1>1, <1>2, <1>3, SessionsStay, DecisionsStay DEF IInv

LEMMA AbandonStep ==
  ASSUME IInv, NEW r \in Requests, Abandon(r)
  PROVE  IInv'
<1>1. UNCHANGED <<network, ledger, rows, age, looks>> /\ UNCHANGED <<chain, job, admin>> /\ Return(r)
  BY DEF Abandon, chain, table
<1>2. Kept /\ RowsHold'
  BY <1>1, KeptByDefault DEF IInv
<1>3. rows' \in [Keys -> Row \cup {None}]
  BY <1>1 DEF IInv, TypeOK
<1> QED
  BY <1>1, <1>2, <1>3, ReturnStep

LEMMA InsertStep ==
  ASSUME IInv, NEW r \in Requests, Insert(r)
  PROVE  IInv'
<1>1. requests[r] \in Request /\ requests[r].pc = "insert" /\ requests[r] \notin {None, Over}
  BY Underway DEF Insert, At
<1>2. PICK k \in Keys : k = requests[r].key
  BY <1>1 DEF Request
<1>3. UNCHANGED <<network, ledger, age, looks, sessions, jobs, decisions, answered>>
  BY DEF Insert, chain, job, admin
<1>4. CASE rows[k] # None
  <2>1. Return(r) /\ UNCHANGED rows /\ UNCHANGED <<chain, age, looks, job, admin>>
    BY <1>2, <1>4 DEF Insert, KeyUnused
  <2>2. Kept /\ RowsHold'
    BY <1>3, <2>1, KeptByDefault DEF IInv
  <2>3. rows' \in [Keys -> Row \cup {None}]
    BY <2>1 DEF IInv, TypeOK
  <2> QED
    BY <2>1, <2>2, <2>3, ReturnStep
<1>5. CASE rows[k] = None
  <2>1. PICK row \in Row : row = NewRow(requests[r].shape)
    BY <1>1 DEF NewRow, Row, Request
  <2>2. /\ row # None /\ row.hash = None /\ row.status = "PENDING" /\ row.retries = 0 /\ row.code = None
        /\ row.shape = requests[r].shape
    BY <2>1, NamesAssumption DEF NewRow
  <2>3. rows' = [rows EXCEPT ![k] = row] /\ requests' = [requests EXCEPT ![r].pc = "refresh"]
    BY <1>2, <1>5, <2>1 DEF Insert, KeyUnused, Goto
  <2>4. PICK v \in Request : v = [requests[r] EXCEPT !.pc = "refresh"]
    BY <1>1 DEF Request
  <2>5. requests' = [requests EXCEPT ![r] = v] /\ v.pc = "refresh" /\ v.key = k /\ v.shape = requests[r].shape
    BY <1>1, <1>2, <2>3, <2>4 DEF Request
  <2>6. /\ rows' \in [Keys -> Row \cup {None}] /\ rows'[k] = row
        /\ \A j \in Keys : j # k => rows'[j] = rows[j]
    BY <2>3 DEF IInv, TypeOK
  <2>7. Kept
    BY <1>3, <1>5, <2>2, <2>6 DEF Kept, CopyOf, LookedAt
  <2>8. looks[k] \in 0..MaxAttempts /\ MaxAttempts \in Nat \ {0}
    BY AttemptsAssumption DEF IInv, TypeOK
  <2>9. RowsHold'
    <3> SUFFICES ASSUME NEW j \in Keys, rows'[j] # None PROVE RowHolds(j)'
      BY DEF RowsHold
    <3>1. CASE j = k
      <4>1. row.code # "RECONCILIATION_EXPIRED"
        BY <2>2, NamesAssumption, <2>1 DEF NewRow, Code
      <4> QED
        BY <1>3, <2>2, <2>6, <2>8, <3>1, <4>1 DEF RowHolds, LookedAt
    <3>2. CASE j # k
      BY <1>3, <2>6, <3>2 DEF IInv, RowsHold, RowHolds, LookedAt, Backs
    <3> QED
      BY <3>1, <3>2
  <2>10. Unpaid(k)'
    BY <1>3, <1>5 DEF IInv, PaidHaveRows, Unpaid
  <2>11. RequestHolds(r, v)'
    BY <2>2, <2>5, <2>6, <2>10 DEF RequestHolds, Unpaid
  <2>12. \A q \in Requests : At(q, Owning) => requests[q].key # k
    BY <1>5, Underway DEF At, RequestHolds
  <2>13. /\ RequestsHold' /\ OneOwner' /\ PaidHaveRows' /\ PaidAtMostOnce'
         /\ requests' \in [Requests -> Request \cup {None, Over}]
    BY <1>3, <2>5, <2>7, <2>11, <2>12, RequestStep DEF chain
  <2>14. TypeOK'
    BY <1>3, <2>6, <2>13 DEF IInv, TypeOK
  <2> QED
    BY <1>3, <2>7, <2>9, <2>13, <2>14, SessionsStay, DecisionsStay DEF IInv
<1> QED
  BY <1>4, <1>5

LEMMA RefreshStep ==
  ASSUME IInv, NEW r \in Requests, Refresh(r)
  PROVE  IInv'
<1>1. /\ requests[r] \in Request /\ requests[r].pc = "refresh" /\ At(r, Owning)
      /\ RequestHolds(r, requests[r])
  BY Underway DEF Refresh, At, Owning
<1>2. PICK k \in Keys : k = requests[r].key
  BY <1>1 DEF Request
<1>3. UNCHANGED <<network, ledger, rows, age, looks, sessions, jobs, decisions, answered>>
  BY DEF Refresh, chain, table, job, admin
<1>4. Kept /\ RowsHold' /\ UNCHANGED chain
  BY <1>3, KeptByDefault DEF IInv, chain
<1>5. PICK row \in Row : row = rows[k] /\ CopyOf(k, row)
  BY <1>1, <1>2, Copied DEF RequestHolds, Owning
<1>6. PICK v \in Request : v = [requests[r] EXCEPT !.pc = "submit", !.row = row]
  BY <1>1 DEF Request
<1>7. /\ requests' = [requests EXCEPT ![r] = v]
      /\ v.pc = "submit" /\ v.key = k /\ v.shape = requests[r].shape /\ v.row = row
  BY <1>1, <1>2, <1>5, <1>6 DEF Refresh, Request, IInv, TypeOK
<1>8. RequestHolds(r, v)
  BY <1>1, <1>2, <1>5, <1>7 DEF RequestHolds, Owning
<1>9. RequestHolds(r, v)'
  BY <1>3, <1>4, <1>8, RequestStays
<1>10. /\ RequestsHold' /\ OneOwner' /\ PaidHaveRows' /\ PaidAtMostOnce'
       /\ requests' \in [Requests -> Request \cup {None, Over}]
  BY <1>1, <1>2, <1>4, <1>7, <1>9, RequestStep
<1>11. TypeOK'
  BY <1>3, <1>10 DEF IInv, TypeOK
<1> QED
  BY <1>3, <1>4, <1>10, <1>11, SessionsStay, DecisionsStay DEF IInv

LEMMA SubmitStep ==
  ASSUME IInv, NEW r \in Requests, Submit(r)
  PROVE  IInv'
<1>1. /\ requests[r] \in Request /\ requests[r].pc = "submit" /\ At(r, Owning)
      /\ RequestHolds(r, requests[r])
  BY Underway DEF Submit, At, Owning
<1>2. UNCHANGED <<rows, age, looks, sessions, jobs, decisions, answered>>
  BY DEF Submit, table, job, admin
<1>3. PICK k \in Keys : k = requests[r].key
  BY <1>1 DEF Request
<1>4. Envelope(r) \in Payment
  BY <1>1 DEF Envelope, Payment, Request
<1>5. PICK env \in Payment : env = Envelope(r) /\ env.hash = r /\ env.key = k /\ env.shape = requests[r].shape
  BY <1>3, <1>4 DEF Envelope
<1>6. PICK pc \in {"ok", "refused", "error"} :
        /\ Goto(r, pc)
        /\ \/ pc = "ok" /\ ledger' = ledger \cup {env} /\ network' = network
           \/ pc # "ok" /\ ledger' = ledger /\ network' \in {network, network \cup {env}}
  BY <1>5 DEF Submit, chain
<1>7. PICK v \in Request : v = [requests[r] EXCEPT !.pc = pc]
  BY <1>1 DEF Request
<1>8. /\ requests' = [requests EXCEPT ![r] = v] /\ v.pc = pc /\ v.key = k
      /\ v.shape = requests[r].shape /\ v.row = requests[r].row
  BY <1>1, <1>3, <1>6, <1>7 DEF Goto, Request, IInv, TypeOK
<1>9. Kept /\ RowsHold'
  <2>1. ledger \subseteq ledger'
    BY <1>6
  <2> QED
    BY <1>2, <2>1, KeptByDefault DEF IInv
<1>10. \A p \in ledger' \cup network' : p \in ledger \cup network \/ p = env
  BY <1>6
<1>11. RequestHolds(r, v)'
  <2>1. rows'[k] # None /\ v.shape = rows'[k].shape /\ v.row \in Row /\ CopyOf(k, v.row)'
    BY <1>1, <1>3, <1>8, <1>9 DEF RequestHolds, Owning, Kept
  <2>2. v.pc = "ok" => [hash |-> r, key |-> k, shape |-> v.shape] \in ledger'
    BY <1>3, <1>5, <1>6, <1>8 DEF Envelope
  <2> QED
    BY <1>8, <2>1, <2>2 DEF RequestHolds
<1>12. \A q \in Requests \ {r} : At(q, Owning) => requests[q].key # k
  BY <1>1, <1>3 DEF IInv, OneOwner
<1>13. RequestsHold' /\ requests' \in [Requests -> Request \cup {None, Over}]
  BY <1>5, <1>8, <1>9, <1>10, <1>11, <1>12, OthersStay
<1>14. OneOwner'
  BY <1>1, <1>3, <1>8, OwnersStay
<1>15. rows[k] # None /\ rows[k].shape = env.shape /\ Unpaid(k)
  BY <1>1, <1>3, <1>5 DEF RequestHolds, Owning
<1>16. PaidHaveRows'
  BY <1>2, <1>5, <1>10, <1>15 DEF IInv, PaidHaveRows
<1>17. PaidAtMostOnce'
  BY <1>5, <1>10, <1>15 DEF IInv, PaidAtMostOnce, Unpaid
<1>18. TypeOK'
  BY <1>2, <1>6, <1>13 DEF IInv, TypeOK
<1> QED
  BY <1>2, <1>9, <1>13, <1>14, <1>16, <1>17, <1>18, SessionsStay, DecisionsStay DEF IInv

LEMMA WriteOutcomeStep ==
  ASSUME IInv, NEW r \in Requests, WriteOutcome(r)
  PROVE  IInv'
<1>1. /\ requests[r] \in Request /\ requests[r].pc \in {"ok", "refused", "error"}
      /\ RequestHolds(r, requests[r])
  BY Underway DEF WriteOutcome, At
<1>2. PICK k \in Keys : k = requests[r].key
  BY <1>1 DEF Request
<1>3. PICK row \in Row : row = requests[r].row /\ CopyOf(k, row)
  BY <1>1, <1>2 DEF RequestHolds, Owning
<1>4. PICK set \in Row : set = Outcome(r)
  BY <1>1, <1>3 DEF Outcome, Row, Hash, Code
<1>5. /\ set.shape = row.shape /\ set.retries = row.retries
      /\ set.hash = row.hash \/ (set.hash = r /\ requests[r].pc = "ok")
      /\ set.status = "SUCCESS" => set.hash = r
      /\ set.code = "RECONCILIATION_EXPIRED" => set.code = row.code
  BY <1>1, <1>3, <1>4 DEF Outcome, Row
<1>6. r # None
  BY NamesAssumption DEF Hash
<1>7. requests[r].pc = "ok" => Backs(r, row.shape)
  BY <1>1, <1>2, <1>3 DEF RequestHolds, Owning, CopyOf, Backs
<1>8. UNCHANGED <<network, ledger, looks>> /\ UNCHANGED <<chain, age, looks, job, admin>> /\ Return(r)
  BY DEF WriteOutcome, chain
<1>9. looks' \in [Keys -> 0..MaxAttempts] /\ \A j \in Keys : looks[j] <= looks'[j]
  BY <1>8, AttemptsAssumption DEF IInv, TypeOK
<1>10. rows' = Flush(requests[r], set)
  BY <1>4 DEF WriteOutcome
<1>11. Kept /\ RowsHold'
  BY <1>2, <1>3, <1>5, <1>6, <1>7, <1>8, <1>9, <1>10, CommitHolds
<1>12. rows' \in [Keys -> Row \cup {None}]
  BY <1>2, <1>3, <1>10, FlushMerges
<1> QED
  BY <1>8, <1>11, <1>12, ReturnStep

-----------------------------------------------------------------------------
LEMMA LandStep ==
  ASSUME IInv, NEW p \in network, Land(p)
  PROVE  IInv'
<1>1. /\ UNCHANGED <<requests, rows, age, looks, sessions, jobs, decisions, answered>>
      /\ network' = network \ {p} /\ ledger' = ledger \cup {p}
  BY DEF Land, table, job, admin
<1>2. Kept /\ RowsHold'
  <2>1. ledger \subseteq ledger'
    BY <1>1
  <2> QED
    BY <1>1, <2>1, KeptByDefault DEF IInv
<1>3. \A q \in ledger' \cup network' : q \in ledger \cup network
  BY <1>1
<1>4. TypeOK'
  BY <1>1 DEF IInv, TypeOK
<1> QED
  BY <1>1, <1>2, <1>3, <1>4, RequestsStay, SessionsStay, DecisionsStay DEF IInv

LEMMA OtherPaymentStep ==
  ASSUME IInv, NEW o \in Others, NEW shape \in Shapes, OtherPayment(o, shape)
  PROVE  IInv'
<1>1. PICK p \in Payment : p = [hash |-> o, key |-> None, shape |-> shape]
  BY DEF Payment
<1>2. /\ UNCHANGED <<requests, rows, age, looks, sessions, jobs, decisions, answered>>
      /\ network' = network /\ ledger' = ledger \cup {p} /\ p.key = None
  BY <1>1 DEF OtherPayment, table, job, admin
<1>3. Kept /\ RowsHold'
  <2>1. ledger \subseteq ledger'
    BY <1>2
  <2> QED
    BY <1>2, <2>1, KeptByDefault DEF IInv
<1>4. \A q \in ledger' \cup network' : q \in ledger \cup network \/ q.key = None
  BY <1>2
<1>5. TypeOK'
  BY <1>2 DEF IInv, TypeOK
<1> QED
  BY <1>2, <1>3, <1>4, <1>5, RequestsStay, SessionsStay, DecisionsStay DEF IInv

-----------------------------------------------------------------------------
LEMMA LoadStep ==
  ASSUME IInv, NEW s \in Sessions, NEW k \in Keys, NEW by \in Instances \cup {None}, Load(s, k, by),
         jobs' \in [Instances -> [locked : BOOLEAN, due : SUBSET Keys]],
         UNCHANGED <<requests, chain, table, admin>>
  PROVE  IInv'
<1>1. UNCHANGED <<requests, network, ledger, rows, age, looks, decisions, answered>>
  BY DEF chain, table, admin
<1>2. PICK row \in Row : row = rows[k] /\ CopyOf(k, row)
  BY Copied DEF Load
<1>3. sessions' = [sessions EXCEPT ![s] = [by |-> by, key |-> k, row |-> row]]
  BY <1>2 DEF Load
<1>4. TypeOK'
  BY <1>1, <1>3 DEF IInv, TypeOK
<1>5. SessionsHold'
  BY <1>1, <1>2, <1>3 DEF IInv, TypeOK, SessionsHold, CopyOf, LookedAt
<1>6. DecisionsHold'
  BY <1>1 DEF IInv, DecisionsHold, CopyOf, LookedAt
<1> QED
  BY <1>1, <1>4, <1>5, <1>6, Aside

LEMMA LoadSteps ==
  ASSUME IInv, NEW s \in Sessions, NEW k \in Keys,
         \/ LoadForEndpoint(s, k)
         \/ LoadForStream(s, k)
         \/ \E j \in Instances : LoadForJob(s, k, j)
  PROVE  IInv'
<1>1. CASE LoadForEndpoint(s, k) \/ LoadForStream(s, k)
  BY <1>1, LoadStep DEF LoadForEndpoint, LoadForStream, IInv, TypeOK
<1>2. CASE \E j \in Instances : LoadForJob(s, k, j)
  <2>1. PICK j \in Instances : LoadForJob(s, k, j)
    BY <1>2
  <2>2. jobs' \in [Instances -> [locked : BOOLEAN, due : SUBSET Keys]]
    BY <2>1 DEF LoadForJob, IInv, TypeOK
  <2> QED
    BY <2>1, <2>2, LoadStep DEF LoadForJob
<1> QED
  BY <1>1, <1>2

LEMMA CommitStep ==
  ASSUME IInv, NEW s \in Sessions, Commit(s)
  PROVE  IInv'
<1>1. UNCHANGED <<requests, network, ledger, jobs, decisions, answered>> /\ sessions[s] # None
  BY DEF Commit, chain, admin
<1>2. PICK k \in Keys, row \in Row :
        k = sessions[s].key /\ row = sessions[s].row /\ CopyOf(k, row)
  BY <1>1 DEF IInv, TypeOK, SessionsHold
<1>3. PICK found \in FindMatchingPayment(row) :
        /\ rows' = Flush(sessions[s], IF found = None THEN Counted(row) ELSE Found(row, found))
        /\ looks' = [looks EXCEPT ![k] = IF found = None /\ @ < MaxAttempts THEN @ + 1 ELSE @]
  BY <1>2 DEF Commit
<1>4. MaxAttempts \in Nat \ {0} /\ looks \in [Keys -> 0..MaxAttempts] /\ row.retries \in Nat
  BY AttemptsAssumption DEF IInv, TypeOK, Row
<1>5. /\ looks' \in [Keys -> 0..MaxAttempts]
      /\ looks'[k] = IF found = None /\ looks[k] < MaxAttempts THEN looks[k] + 1 ELSE looks[k]
      /\ \A j \in Keys : looks[j] <= looks'[j]
  BY <1>3, <1>4
<1>6. LookedAt(k, row.retries)
  BY <1>2 DEF CopyOf
<1>7. Kept /\ RowsHold' /\ rows' \in [Keys -> Row \cup {None}]
  <2>1. CASE found = None
    <3>8. [row EXCEPT !.retries = row.retries + 1] \in Row
      BY <1>4 DEF Row
    <3>9. PICK more \in Row : more = [row EXCEPT !.retries = row.retries + 1]
      BY <3>8
    <3>1. Expired(row) \in Row
      <4>1. Expired(row) = [more EXCEPT !.status = "FAILED", !.code = "RECONCILIATION_EXPIRED"]
        BY <3>9 DEF Expired
      <4> QED
        BY <4>1 DEF Row, Code
    <3>2. PICK set \in Row : set = Counted(row)
      BY <3>1, <3>8 DEF Counted
    <3>3. /\ set.shape = row.shape /\ set.hash = row.hash /\ set.retries = row.retries + 1
          /\ set.status = "SUCCESS" => set.status = row.status
          /\ set.code # row.code => row.retries + 1 >= MaxAttempts
      BY <3>2 DEF Counted, Expired, Row
    <3>4. LookedAt(k, set.retries)'
      BY <1>4, <1>5, <1>6, <2>1, <3>3 DEF LookedAt
    <3>5. set.code # row.code => looks'[k] = MaxAttempts
      BY <1>4, <1>5, <1>6, <2>1, <3>3 DEF LookedAt
    <3>6. rows' = Flush(sessions[s], set)
      BY <1>3, <2>1, <3>2
    <3>7. Kept /\ RowsHold'
      BY <1>1, <1>2, <1>5, <3>3, <3>4, <3>5, <3>6, CommitHolds
    <3> QED
      BY <1>2, <3>6, <3>7, FlushMerges
  <2>2. CASE found # None
    <3>1. PICK p \in ledger : p.shape = row.shape /\ found = p.hash
      BY <1>3, <2>2 DEF FindMatchingPayment
    <3>2. found \in Hash
      BY <3>1 DEF IInv, TypeOK, Payment, Hash
    <3>3. PICK set \in Row : set = Found(row, found)
      BY <3>2 DEF Found, Row
    <3>4. /\ set.shape = row.shape /\ set.hash = found /\ set.retries = row.retries
          /\ set.code = row.code
      BY <3>3 DEF Found, Row
    <3>5. Backs(set.hash, set.shape)
      BY <3>1, <3>4 DEF Backs
    <3>6. rows' = Flush(sessions[s], set)
      BY <1>3, <2>2, <3>3
    <3>7. Kept /\ RowsHold'
      BY <1>1, <1>2, <1>5, <2>2, <3>4, <3>5, <3>6, CommitHolds
    <3> QED
      BY <1>2, <3>6, <3>7, FlushMerges
  <2> QED
    BY <2>1, <2>2
<1>8. sessions' = [sessions EXCEPT ![s] = None] /\ age' = [age EXCEPT ![k] = 0]
  BY <1>2 DEF Commit
<1>9. TypeOK'
  BY <1>1, <1>5, <1>7, <1>8 DEF IInv, TypeOK
<1>10. SessionsHold'
  BY <1>7, <1>8, SessionsStay DEF IInv, TypeOK
<1> QED
  BY <1>1, <1>7, <1>9, <1>10, RequestsStay, DecisionsStay DEF IInv

(* Sessions that end without a commit, and passes that begin and end.      *)
LEMMA SessionFailsStep ==
  ASSUME IInv, NEW s \in Sessions, SessionFails(s)
  PROVE  IInv'
<1>1. UNCHANGED <<requests, network, ledger, rows, age, looks, decisions, answered>>
  BY DEF SessionFails, chain, table, admin
<1>2. Kept
  BY <1>1, KeptByDefault
<1>3. jobs' \in [Instances -> [locked : BOOLEAN, due : SUBSET Keys]]
  <2> SUFFICES ASSUME NEW j \in Instances
               PROVE  [jobs[j] EXCEPT !.locked = jobs[j].locked /\ ~WorksFor(s, j)]
                        \in [locked : BOOLEAN, due : SUBSET Keys]
    BY DEF SessionFails
  <2>1. jobs[j] \in [locked : BOOLEAN, due : SUBSET Keys]
    BY DEF IInv, TypeOK
  <2>2. (jobs[j].locked /\ ~WorksFor(s, j)) \in BOOLEAN
    OBVIOUS
  <2> QED
    BY <2>1, <2>2
<1>4. sessions' = [sessions EXCEPT ![s] = None]
  BY DEF SessionFails
<1>5. TypeOK'
  BY <1>1, <1>3, <1>4 DEF IInv, TypeOK
<1>6. SessionsHold'
  BY <1>2, SessionsStay DEF SessionFails, IInv, TypeOK
<1> QED
  BY <1>1, <1>2, <1>5, <1>6, DecisionsStay, Aside

LEMMA PassSteps ==
  ASSUME IInv, NEW j \in Instances, StartPass(j) \/ EndPass(j)
  PROVE  IInv'
<1>1. UNCHANGED <<requests, network, ledger, rows, age, looks, sessions, decisions, answered>>
  BY DEF StartPass, EndPass, chain, table, admin
<1>2. Kept
  BY <1>1, KeptByDefault
<1>3. jobs' \in [Instances -> [locked : BOOLEAN, due : SUBSET Keys]]
  <2>1. jobs \in [Instances -> [locked : BOOLEAN, due : SUBSET Keys]]
    BY DEF IInv, TypeOK
  <2>2. CASE EndPass(j)
    BY <2>1, <2>2 DEF EndPass
  <2>3. CASE StartPass(j)
    <3>1. jobs[j].due \cup {k \in Keys : Stale(k)} \in SUBSET Keys
      BY <2>1
    <3> QED
      BY <2>1, <2>3, <3>1 DEF StartPass
  <2> QED
    BY <2>2, <2>3
<1>4. TypeOK'
  BY <1>1, <1>3 DEF IInv, TypeOK
<1> QED
  BY <1>1, <1>2, <1>4, SessionsStay, DecisionsStay, Aside

LEMMA RestartStep ==
  ASSUME IInv, NEW j \in Instances, Restart(j)
  PROVE  IInv'
<1>1. UNCHANGED <<requests, network, ledger, rows, age, looks>>
  BY DEF Restart, chain, table
<1>2. Kept
  BY <1>1, KeptByDefault
<1>3. TypeOK'
  BY <1>1 DEF Restart, IInv, TypeOK
<1>4. SessionsHold' /\ DecisionsHold'
  BY <1>2, SessionsStay, DecisionsStay DEF Restart
<1> QED
  BY <1>1, <1>3, <1>4, Aside

LEMMA GrowsOldStep ==
  ASSUME IInv, NEW k \in Keys, GrowsOld(k)
  PROVE  IInv'
<1>1. UNCHANGED <<requests, network, ledger, rows, looks, sessions, jobs, decisions, answered>>
  BY DEF GrowsOld, chain, job, admin
<1>2. Kept
  BY <1>1, KeptByDefault
<1>3. TypeOK'
  BY <1>1 DEF GrowsOld, IInv, TypeOK
<1> QED
  BY <1>1, <1>2, <1>3, SessionsStay, DecisionsStay, Aside

-----------------------------------------------------------------------------
LEMMA LoadForDecisionStep ==
  ASSUME IInv, NEW d \in Decisions, NEW op \in {"approve", "reject"}, NEW k \in Keys,
         NEW header \in DecisionKeys \cup {None}, LoadForDecision(d, op, k, header)
  PROVE  IInv'
<1>1. UNCHANGED <<requests, network, ledger, rows, age, looks, sessions, jobs, answered>>
  BY DEF LoadForDecision, chain, table, job
<1>2. PICK row \in Row : row = rows[k] /\ CopyOf(k, row)
  BY Copied DEF LoadForDecision
<1>3. decisions' = [decisions EXCEPT ![d] = [op |-> op, key |-> k, row |-> row, header |-> header]]
  BY <1>2 DEF LoadForDecision
<1>4. TypeOK'
  BY <1>1, <1>3 DEF IInv, TypeOK
<1>5. DecisionsHold'
  BY <1>1, <1>2, <1>3 DEF IInv, TypeOK, DecisionsHold, CopyOf, LookedAt
<1>6. SessionsHold'
  BY <1>1 DEF IInv, SessionsHold, CopyOf, LookedAt
<1> QED
  BY <1>1, <1>4, <1>5, <1>6, Aside

LEMMA DecideStep ==
  ASSUME IInv, NEW d \in Decisions, Decide(d)
  PROVE  IInv'
<1>1. /\ UNCHANGED <<requests, network, ledger, age, looks, sessions, jobs>>
      /\ decisions[d] \notin {None, Over}
  BY DEF Decide, chain, job
<1>2. PICK k \in Keys, row \in Row, op \in {"approve", "reject"} :
        /\ k = decisions[d].key /\ row = decisions[d].row /\ op = decisions[d].op
        /\ CopyOf(k, row)
  BY <1>1 DEF IInv, TypeOK, DecisionsHold
<1>3. PICK set \in Row : set = Decided(op, row)
  <2>1. [row EXCEPT !.status = "FAILED", !.code = "REJECTED_BY_ADMIN"] \in Row
    BY DEF Row, Code
  <2>2. [row EXCEPT !.status = "SUCCESS", !.hash = Invented] \in Row
    BY DEF Row, Hash
  <2> QED
    BY <2>1, <2>2 DEF Decided
<1>4. /\ set.shape = row.shape /\ set.retries = row.retries
      /\ set.hash = row.hash \/ set.hash = Invented
      /\ set.status = "SUCCESS" /\ set.status # row.status => set.hash = Invented
      /\ set.code = "RECONCILIATION_EXPIRED" => set.code = row.code
  BY <1>2, <1>3 DEF Decided, Row
<1>5. Invented # None /\ Backs(Invented, set.shape)
  BY NamesAssumption DEF Hash, Backs
<1>6. looks' \in [Keys -> 0..MaxAttempts] /\ \A j \in Keys : looks[j] <= looks'[j]
  BY <1>1, AttemptsAssumption DEF IInv, TypeOK
<1>7. rows' = Flush(decisions[d], set)
  BY <1>2, <1>3 DEF Decide
<1>8. Kept /\ RowsHold'
  BY <1>1, <1>2, <1>4, <1>5, <1>6, <1>7, CommitHolds
<1>9. rows' \in [Keys -> Row \cup {None}]
  BY <1>2, <1>7, FlushMerges
<1>10. decisions' = [decisions EXCEPT ![d] = Over] /\ answered' \subseteq DecisionKeys
  BY <1>1 DEF Decide, IInv, TypeOK
<1>11. TypeOK'
  BY <1>1, <1>9, <1>10 DEF IInv, TypeOK
<1>12. DecisionsHold'
  BY <1>8, <1>10, DecisionsStay DEF IInv, TypeOK
<1> QED
  BY <1>1, <1>8, <1>11, <1>12, RequestsStay, SessionsStay DEF IInv

LEMMA Stuttering ==
  ASSUME IInv, UNCHANGED vars
  PROVE  IInv'
<1>1. UNCHANGED <<requests, network, ledger, rows, age, looks, sessions, jobs, decisions, answered>>
  BY DEF vars, chain, table, job, admin
<1>2. Kept
  BY <1>1, KeptByDefault
<1>3. TypeOK'
  BY <1>1 DEF IInv, TypeOK
<1> QED
  BY <1>1, <1>2, <1>3, SessionsStay, DecisionsStay, Aside

(* Every step keeps the invariant.                                         *)
LEMMA InvariantKept == IInv /\ [Next]_vars => IInv'
<1> SUFFICES ASSUME IInv, [Next]_vars PROVE IInv'
  OBVIOUS
<1>1. ASSUME NEW r \in Requests, SendPayment(r) PROVE IInv'
  BY <1>1, SendStep, InsertStep, RefreshStep, SubmitStep, WriteOutcomeStep, AbandonStep DEF SendPayment
<1>2. ASSUME NEW s \in Sessions, Reconcile(s) PROVE IInv'
  BY <1>2, LoadSteps, CommitStep, SessionFailsStep DEF Reconcile
<1>3. ASSUME NEW j \in Instances, StartPass(j) \/ EndPass(j) \/ Restart(j) PROVE IInv'
  BY <1>3, PassSteps, RestartStep
<1>4. ASSUME NEW d \in Decisions,
             Decide(d) \/ \E op \in {"approve", "reject"}, k \in Keys, header \in DecisionKeys \cup {None} :
                            LoadForDecision(d, op, k, header)
      PROVE  IInv'
  BY <1>4, DecideStep, LoadForDecisionStep
<1> QED
  BY <1>1, <1>2, <1>3, <1>4, LandStep, OtherPaymentStep, GrowsOldStep, Stuttering DEF Next

LEMMA Invariance == Spec => []IInv
BY InitHolds, InvariantKept, PTL DEF Spec

-----------------------------------------------------------------------------
(* Rows, copies and counts are of their kinds, whatever is written when.   *)
THEOREM PortPaymentsTypeCorrect == Spec => []TypeOK
<1>1. IInv => TypeOK
  BY DEF IInv
<1> QED
  BY <1>1, Invariance, PTL

(* No idempotency key is paid twice, although the key is looked up before  *)
(* the insert and lost envelopes land late (send_payment).                 *)
THEOREM PortPaidAtMostOnce == Spec => []PaidAtMostOnce
<1>1. IInv => PaidAtMostOnce
  BY DEF IInv
<1> QED
  BY <1>1, Invariance, PTL

(* SUCCESS has a payment of the row's terms or an administrator behind it, *)
(* whichever halves of a row its writers have written over each other.     *)
THEOREM PortSuccessIsBacked == Spec => []SuccessIsBacked
<1>1. IInv => SuccessIsBacked
  BY DEF IInv, RowsHold, RowHolds, Backs, SuccessIsBacked
<1> QED
  BY <1>1, Invariance, PTL

(* Looks that overlap lose counts and never add one: no row expires before *)
(* it was looked at MaxAttempts times (reconcile_transaction).             *)
THEOREM PortExpiredAfterAllLooks == Spec => []ExpiredAfterAllLooks
<1>1. ASSUME IInv PROVE ExpiredAfterAllLooks
  <2> SUFFICES ASSUME NEW k \in Keys, rows[k] # None
               PROVE  /\ \A n \in 1..MaxAttempts : rows[k].retries >= n => looks[k] >= n
                      /\ rows[k].code = "RECONCILIATION_EXPIRED" => looks[k] = MaxAttempts
    BY DEF ExpiredAfterAllLooks
  <2>1. RowHolds(k) /\ rows[k] \in Row /\ looks[k] \in 0..MaxAttempts /\ MaxAttempts \in Nat
    BY <1>1, AttemptsAssumption DEF IInv, TypeOK, RowsHold
  <2>2. rows[k].retries \in Nat
    BY <2>1 DEF Row
  <2> QED
    BY <2>1, <2>2 DEF RowHolds, LookedAt
<1> QED
  BY <1>1, Invariance, PTL

-----------------------------------------------------------------------------
(* The refinement of PaymentIntent.  A commit never touches the terms.     *)
TermsStay == \A k \in Keys :
  /\ rows[k] = None => rows'[k] = None
  /\ rows[k] # None => rows'[k] # None /\ rows'[k].shape = rows[k].shape

LEMMA FlushKeepsTerms ==
  ASSUME IInv, NEW loaded, loaded.key \in Keys, loaded.row \in Row, CopyOf(loaded.key, loaded.row),
         NEW set \in Row, set.shape = loaded.row.shape, rows' = Flush(loaded, set)
  PROVE  TermsStay
<1>1. PICK k \in Keys : k = loaded.key
  OBVIOUS
<1>2. PICK now \in Row : now = rows[k]
  BY <1>1, FlushMerges
<1>3. /\ rows'[k] = Merged(now, loaded.row, set)
      /\ \A j \in Keys : j # k => rows'[j] = rows[j]
  BY <1>1, <1>2, FlushMerges
<1>4. rows'[k] \in Row /\ rows'[k].shape = now.shape
  BY <1>3, MergedFields
<1>5. rows'[k] # None
  BY <1>4, NamesAssumption
<1> QED
  BY <1>2, <1>3, <1>4, <1>5, NamesAssumption DEF TermsStay

LEMMA OutcomeKeepsTerms ==
  ASSUME IInv, NEW r \in Requests, WriteOutcome(r)
  PROVE  TermsStay
<1>1. requests[r] \in Request /\ requests[r].pc \in Owning \ {"refresh"} /\ RequestHolds(r, requests[r])
  BY Underway DEF WriteOutcome, At, Owning
<1>2. PICK row \in Row : row = requests[r].row /\ CopyOf(requests[r].key, row)
  BY <1>1 DEF RequestHolds
<1>3. Outcome(r) \in Row
  BY <1>1, <1>2 DEF Outcome, Row, Hash, Code, Owning
<1>4. Outcome(r).shape = row.shape
  BY <1>1, <1>2 DEF Outcome, Row, Owning
<1> QED
  BY <1>1, <1>2, <1>3, <1>4, FlushKeepsTerms DEF WriteOutcome, Request

LEMMA CommitKeepsTerms ==
  ASSUME IInv, NEW s \in Sessions, Commit(s)
  PROVE  TermsStay
<1>1. PICK row \in Row : row = sessions[s].row /\ sessions[s].key \in Keys /\ CopyOf(sessions[s].key, row)
  BY DEF Commit, IInv, TypeOK, SessionsHold
<1>2. PICK found \in FindMatchingPayment(row) :
        rows' = Flush(sessions[s], IF found = None THEN Counted(row) ELSE Found(row, found))
  BY <1>1 DEF Commit
<1>3. found \in Hash \cup {None}
  BY <1>2 DEF FindMatchingPayment, IInv, TypeOK, Payment, Hash
<1>4. Counted(row) \in Row /\ Counted(row).shape = row.shape
  <2> DEFINE more == [row EXCEPT !.retries = @ + 1]
  <2>1. more \in Row /\ more.shape = row.shape
    BY DEF Row
  <2>2. Expired(row) = [more EXCEPT !.status = "FAILED", !.code = "RECONCILIATION_EXPIRED"]
    BY DEF Expired, Row
  <2>3. Expired(row) \in Row /\ Expired(row).shape = row.shape
    BY <2>1, <2>2 DEF Row, Code
  <2> QED
    BY <2>1, <2>3 DEF Counted
<1>5. Found(row, found) \in Row /\ Found(row, found).shape = row.shape
  BY <1>3 DEF Found, Row
<1> QED
  BY <1>1, <1>2, <1>4, <1>5, FlushKeepsTerms

LEMMA DecisionKeepsTerms ==
  ASSUME IInv, NEW d \in Decisions, Decide(d)
  PROVE  TermsStay
<1>1. PICK row \in Row :
        row = decisions[d].row /\ decisions[d].key \in Keys /\ CopyOf(decisions[d].key, row)
  BY DEF Decide, IInv, TypeOK, DecisionsHold
<1>2. Decided(decisions[d].op, row) \in Row /\ Decided(decisions[d].op, row).shape = row.shape
  BY DEF Decided, Row, Hash, Code
<1> QED
  BY <1>1, <1>2, FlushKeepsTerms DEF Decide

(* Only an insert binds a key; only the answers of Horizon and what it     *)
(* applies later move the ledger.                                          *)
Binds(r) == Insert(r) /\ KeyUnused(requests[r].key)
Pays(r) == Submit(r) /\ ledger' = ledger \cup {Envelope(r)}

LEMMA RequestTerms ==
  ASSUME IInv, NEW r \in Requests, SendPayment(r)
  PROVE  /\ Binds(r) \/ TermsStay
         /\ Pays(r) \/ UNCHANGED ledger
<1>1. UNCHANGED rows => TermsStay
  BY DEF TermsStay
<1>2. CASE \E k \in Keys, shape \in Shapes : Send(r, k, shape)
  BY <1>1, <1>2 DEF Send, chain, table
<1>3. CASE Insert(r)
  BY <1>1, <1>3 DEF Insert, Binds, chain
<1>4. CASE Refresh(r)
  BY <1>1, <1>4 DEF Refresh, chain, table
<1>5. CASE Submit(r)
  BY <1>1, <1>5 DEF Submit, Pays, chain, table
<1>6. CASE WriteOutcome(r)
  BY <1>6, OutcomeKeepsTerms DEF WriteOutcome, chain
<1>7. CASE Abandon(r)
  BY <1>1, <1>7 DEF Abandon, chain, table
<1> QED
  BY <1>2, <1>3, <1>4, <1>5, <1>6, <1>7 DEF SendPayment

LEMMA OthersTerms ==
  ASSUME IInv,
         \/ \E s \in Sessions : Reconcile(s)
         \/ \E j \in Instances : StartPass(j) \/ EndPass(j) \/ Restart(j)
         \/ \E k \in Keys : GrowsOld(k)
         \/ \E d \in Decisions :
              Decide(d) \/ \E op \in {"approve", "reject"}, k \in Keys,
                              header \in DecisionKeys \cup {None} : LoadForDecision(d, op, k, header)
         \/ UNCHANGED vars
  PROVE  TermsStay /\ UNCHANGED ledger
<1>1. UNCHANGED rows => TermsStay
  BY DEF TermsStay
<1>2. ASSUME NEW s \in Sessions, Reconcile(s) PROVE TermsStay /\ UNCHANGED ledger
  <2>1. CASE Commit(s)
    BY <2>1, CommitKeepsTerms DEF Commit, chain
  <2>2. CASE ~Commit(s)
    BY <1>1, <1>2, <2>2
       DEF Reconcile, LoadForEndpoint, LoadForStream, LoadForJob, SessionFails, chain, table, Load
  <2> QED BY <2>1, <2>2
<1>3. ASSUME NEW j \in Instances, StartPass(j) \/ EndPass(j) \/ Restart(j)
      PROVE  TermsStay /\ UNCHANGED ledger
  BY <1>1, <1>3 DEF StartPass, EndPass, Restart, chain, table
<1>4. ASSUME NEW k \in Keys, GrowsOld(k) PROVE TermsStay /\ UNCHANGED ledger
  BY <1>1, <1>4 DEF GrowsOld, chain
<1>5. ASSUME NEW d \in Decisions, Decide(d) PROVE TermsStay /\ UNCHANGED ledger
  BY <1>5, DecisionKeepsTerms DEF Decide, chain
<1>6. ASSUME NEW d \in Decisions, NEW op, NEW k, NEW header, LoadForDecision(d, op, k, header)
      PROVE  TermsStay /\ UNCHANGED ledger
  BY <1>1, <1>6 DEF LoadForDecision, chain, table
<1>7. CASE UNCHANGED vars
  BY <1>1, <1>7 DEF vars, chain, table
<1> QED
  BY <1>2, <1>3, <1>4, <1>5, <1>6, <1>7

(* A key is bound once, to one payment for good, and paid at most once on  *)
(* those terms, whatever races past the look-up of the key, whichever      *)
(* commits run over each other and however late an envelope is applied     *)
(* (send_payment, reconcile_transaction, the decisions).                   *)
THEOREM PortImplementsIntent == Spec => IntentSpec
<1> DEFINE intent == [k \in Keys |-> IntentOf(k)]
           paid == {PaidFor(p) : p \in Sent}
           TermsOf(shape) == [user |-> Sender, shape |-> shape]
<1>1. Init => Intent!Init
  BY DEF Init, Intent!Init, IntentOf, Sent
<1>2. IInv /\ [Next]_vars => [Intent!Next]_<<intent, paid>>
  <2> SUFFICES ASSUME IInv, [Next]_vars PROVE [Intent!Next]_<<intent, paid>>
    OBVIOUS
  <2>1. TermsStay => UNCHANGED intent
    BY DEF TermsStay, IntentOf
  <2>2. UNCHANGED ledger => UNCHANGED paid
    BY DEF Sent, PaidFor
  <2>3. ASSUME NEW r \in Requests, Binds(r), UNCHANGED ledger PROVE Intent!Next
    <3>1. PICK k \in Keys, shape \in Shapes : requests[r].key = k /\ requests[r].shape = shape
      BY <2>3, Underway DEF Binds, Insert, At, Request
    <3>2. rows[k] = None /\ rows' = [rows EXCEPT ![k] = NewRow(shape)]
      BY <2>3, <3>1 DEF Binds, Insert, KeyUnused
    <3>3. NewRow(shape) \in Row /\ NewRow(shape).shape = shape
      BY DEF NewRow, Row
    <3>4. rows'[k] # None /\ rows'[k].shape = shape /\ \A j \in Keys \ {k} : rows'[j] = rows[j]
      BY <3>2, <3>3, NamesAssumption DEF IInv, TypeOK
    <3>5. \A j \in Keys : IntentOf(j)' = IF j = k THEN TermsOf(shape) ELSE IntentOf(j)
      BY <3>4 DEF IntentOf
    <3>6. intent' = [intent EXCEPT ![k] = TermsOf(shape)]
      BY <3>5
    <3>7. intent[k] = NotBound /\ TermsOf(shape) \in Intent!Terms
      BY <3>2 DEF IntentOf, Intent!Terms
    <3> QED
      BY <2>2, <2>3, <3>6, <3>7 DEF Intent!Next, Intent!Bind
  <2>4. ASSUME NEW p \in Payment, p.key # None, rows[p.key] # None, rows[p.key].shape = p.shape,
               p.key \in Keys, \A q \in ledger : q.key # p.key,
               ledger' = ledger \cup {p}, TermsStay
        PROVE  Intent!Next
    <3>1. Sent' = Sent \cup {p}
      BY <2>4 DEF Sent
    <3>2. paid' = paid \cup {PaidFor(p)}
      BY <3>1 DEF PaidFor
    <3>3. PaidFor(p).key = p.key /\ PaidFor(p).terms = TermsOf(p.shape)
      BY DEF PaidFor
    <3>4. intent[p.key] = TermsOf(p.shape) /\ intent[p.key] # NotBound
      BY <2>4 DEF IntentOf, NotBound
    <3>5. ~\E q \in paid : q.key = p.key
      BY <2>4 DEF Sent, PaidFor
    <3>6. Intent!Pay(p.key)
      BY <2>1, <2>4, <3>2, <3>3, <3>4, <3>5 DEF Intent!Pay
    <3> QED
      BY <2>4, <3>6 DEF Intent!Next
  <2>5. ASSUME NEW p, p.key = None, ledger' = ledger \cup {p} PROVE UNCHANGED paid
    <3>1. Sent' = Sent
      BY <2>5 DEF Sent
    <3> QED
      BY <3>1 DEF PaidFor
  <2>6. ASSUME NEW r \in Requests, Pays(r), TermsStay PROVE [Intent!Next]_<<intent, paid>>
    <3>1. /\ requests[r] \in Request /\ requests[r].pc = "submit" /\ RequestHolds(r, requests[r])
      BY <2>6, Underway DEF Pays, Submit, At
    <3>2. PICK p \in Payment : p = Envelope(r) /\ p.key = requests[r].key /\ p.shape = requests[r].shape
      <4>1. Envelope(r) \in Payment
        BY <3>1 DEF Envelope, Payment, Request
      <4> QED
        BY <4>1 DEF Envelope
    <3>3. ledger' = ledger \cup {p}
      BY <2>6, <3>2 DEF Pays
    <3>4. p.key \in Keys /\ rows[p.key] # None /\ rows[p.key].shape = p.shape /\ Unpaid(p.key)
      BY <3>1, <3>2 DEF RequestHolds, Owning, Request
    <3>5. CASE p.key = None
      BY <2>1, <2>5, <2>6, <3>3, <3>5
    <3>6. CASE p.key # None
      <4>1. \A q \in ledger : q.key # p.key
        BY <3>4, <3>6 DEF Unpaid
      <4> QED
        BY <2>4, <2>6, <3>3, <3>4, <3>6, <4>1
    <3> QED
      BY <3>5, <3>6
  <2>7. ASSUME NEW p \in network, Land(p) PROVE [Intent!Next]_<<intent, paid>>
    <3>1. p \in Payment /\ ledger' = ledger \cup {p} /\ UNCHANGED rows
      BY <2>7 DEF Land, table, IInv, TypeOK
    <3>2. TermsStay
      BY <3>1 DEF TermsStay
    <3>3. CASE p.key = None
      BY <2>1, <2>5, <3>1, <3>2, <3>3
    <3>4. CASE p \in ledger
      <4>1. UNCHANGED ledger
        BY <3>1, <3>4
      <4> QED
        BY <2>1, <2>2, <3>2, <4>1
    <3>5. CASE p.key # None /\ p \notin ledger
      <4>1. p.key \in Keys
        BY <3>1, <3>5 DEF Payment
      <4>2. rows[p.key] # None /\ rows[p.key].shape = p.shape
        BY <3>5, <4>1 DEF IInv, PaidHaveRows
      <4>3. \A q \in ledger : q.key # p.key
        BY <3>5 DEF IInv, PaidAtMostOnce
      <4> QED
        BY <2>4, <3>1, <3>2, <3>5, <4>1, <4>2, <4>3
    <3> QED
      BY <3>3, <3>4, <3>5
  <2>8. ASSUME NEW o \in Others, NEW shape \in Shapes, OtherPayment(o, shape)
        PROVE  UNCHANGED <<intent, paid>>
    <3> DEFINE p == [hash |-> o, key |-> None, shape |-> shape]
    <3>1. ledger' = ledger \cup {p} /\ UNCHANGED rows /\ p.key = None
      BY <2>8 DEF OtherPayment, table
    <3>2. TermsStay
      BY <3>1 DEF TermsStay
    <3> QED
      BY <2>1, <2>5, <3>1, <3>2
  <2>9. ASSUME NEW r \in Requests, SendPayment(r) PROVE [Intent!Next]_<<intent, paid>>
    <3>1. (Binds(r) \/ TermsStay) /\ (Pays(r) \/ UNCHANGED ledger)
      BY <2>9, RequestTerms
    <3>2. Pays(r) => TermsStay
      BY DEF Pays, Submit, TermsStay, table
    <3> QED
      BY <2>1, <2>2, <2>3, <2>6, <3>1, <3>2
  <2> QED
    BY <2>1, <2>2, <2>7, <2>8, <2>9, OthersTerms DEF Next
<1> QED
  BY <1>1, <1>2, Invariance, PTL DEF Spec, IntentSpec, Intent!Spec

-----------------------------------------------------------------------------
(* Whoever commits to a row says PENDING only if it read it so, except a   *)
(* request that read its own row settled.                                  *)
LEMMA StaysSettled ==
  ASSUME IInv, NEW k \in Keys, SettledForGood(k),
         NEW loaded, loaded.key \in Keys, loaded.row \in Row, CopyOf(loaded.key, loaded.row),
         NEW set \in Row, rows' = Flush(loaded, set),
         loaded.key = k => set.status # "PENDING" \/ loaded.row.status = "PENDING"
  PROVE  rows'[k] # None /\ rows'[k].status # "PENDING"
<1>1. CASE k = loaded.key
  <2>1. rows[k] \in Row /\ rows'[k] = Merged(rows[k], loaded.row, set)
    BY <1>1, FlushMerges
  <2>2. /\ rows'[k] \in Row
        /\ rows'[k].status = IF set.status = loaded.row.status THEN rows[k].status ELSE set.status
    BY <2>1, MergedFields
  <2> QED
    BY <1>1, <2>2, NamesAssumption DEF SettledForGood
<1>2. CASE k # loaded.key
  <2>1. rows'[k] = rows[k]
    BY <1>2, FlushMerges
  <2> QED
    BY <2>1 DEF SettledForGood
<1> QED
  BY <1>1, <1>2

(* No request but one that reads the row comes to hold a settled copy.     *)
LEMMA UnreadStays ==
  ASSUME IInv, NEW k \in Keys, Unread(k), NEW r \in Requests, NEW v,
         requests' = [requests EXCEPT ![r] = v],
         v \notin {None, Over} /\ v.key = k =>
           /\ v.pc # "refresh"
           /\ v.pc \in {"submit", "ok", "refused", "error"} => v.row.status = "PENDING"
  PROVE  Unread(k)'
<1> SUFFICES ASSUME NEW q \in Requests
             PROVE  ~ReadSettled(q, k)' /\ (At(q, {"refresh"})' => requests'[q].key # k)
  BY DEF Unread
<1>1. requests'[q] = IF q = r THEN v ELSE requests[q]
  BY DEF IInv, TypeOK
<1> QED
  BY <1>1 DEF Unread, ReadSettled, At

(* A request's own steps leave a settled row settled that it has not read. *)
LEMMA RequestKeepsSettled ==
  ASSUME IInv, NEW k \in Keys, SettledForGood(k), NEW r \in Requests, SendPayment(r)
  PROVE  SettledForGood(k)'
<1>1. Unread(k) /\ rows[k] # None /\ rows[k].status # "PENDING"
  BY DEF SettledForGood
<1>2. CASE \E j \in Keys, shape \in Shapes : Send(r, j, shape)
  <2>1. PICK v : requests' = [requests EXCEPT ![r] = v] /\ (v = Over \/ v.pc = "insert") /\ UNCHANGED rows
    BY <1>2 DEF Send, table
  <2> QED
    BY <1>1, <2>1, UnreadStays DEF SettledForGood
<1>3. CASE Abandon(r)
  BY <1>1, <1>3, UnreadStays DEF Abandon, Return, table, SettledForGood
<1>4. CASE Insert(r)
  <2>1. requests[r] \in Request
    BY <1>4, Underway DEF Insert, At
  <2>2. CASE rows[requests[r].key] # None
    BY <1>1, <1>4, <2>2, UnreadStays DEF Insert, KeyUnused, Return, SettledForGood
  <2>3. CASE rows[requests[r].key] = None
    <3>1. requests[r].key # k /\ rows' = [rows EXCEPT ![requests[r].key] = NewRow(requests[r].shape)]
      BY <1>1, <1>4, <2>3 DEF Insert, KeyUnused
    <3>2. rows'[k] = rows[k]
      BY <3>1 DEF IInv, TypeOK
    <3>3. PICK v \in Request : v = [requests[r] EXCEPT !.pc = "refresh"]
      BY <2>1 DEF Request
    <3>4. v.key # k /\ requests' = [requests EXCEPT ![r] = v]
      BY <1>4, <2>1, <2>3, <3>1, <3>3 DEF Insert, KeyUnused, Goto, Request
    <3>5. Unread(k)'
      BY <1>1, <3>4, UnreadStays
    <3> QED
      BY <1>1, <3>2, <3>5 DEF SettledForGood
  <2> QED
    BY <2>2, <2>3
<1>5. CASE Refresh(r)
  <2>1. requests[r] \in Request /\ UNCHANGED rows
    BY <1>5, Underway DEF Refresh, At, table
  <2>2. requests[r].key # k
    BY <1>1, <1>5 DEF Unread, Refresh
  <2>3. PICK v : v = [requests[r] EXCEPT !.pc = "submit", !.row = rows[requests[r].key]]
    OBVIOUS
  <2>4. v.key # k /\ requests' = [requests EXCEPT ![r] = v]
    BY <1>5, <2>1, <2>2, <2>3 DEF Refresh, Request, IInv, TypeOK
  <2> QED
    BY <1>1, <2>1, <2>4, UnreadStays DEF SettledForGood
<1>6. CASE Submit(r)
  <2>1. requests[r] \in Request /\ requests[r].pc = "submit" /\ UNCHANGED rows
    BY <1>6, Underway DEF Submit, At, table
  <2>2. requests[r].key = k => requests[r].row.status = "PENDING"
    BY <1>1, <1>6, <2>1 DEF Unread, ReadSettled, Submit, At
  <2>3. PICK pc \in {"ok", "refused", "error"} : requests' = [requests EXCEPT ![r].pc = pc]
    BY <1>6 DEF Submit, Goto
  <2>4. PICK v : v = [requests[r] EXCEPT !.pc = pc]
    OBVIOUS
  <2>5. requests' = [requests EXCEPT ![r] = v] /\ v.pc = pc /\ v.key = requests[r].key /\ v.row = requests[r].row
    BY <2>1, <2>3, <2>4 DEF Request, IInv, TypeOK
  <2> QED
    BY <1>1, <2>1, <2>2, <2>5, UnreadStays DEF SettledForGood
<1>7. CASE WriteOutcome(r)
  <2>1. /\ requests[r] \in Request /\ requests[r].pc \in {"ok", "refused", "error"}
        /\ RequestHolds(r, requests[r]) /\ requests' = [requests EXCEPT ![r] = Over]
    BY <1>7, Underway DEF WriteOutcome, At, Return
  <2>2. PICK j \in Keys, row \in Row : j = requests[r].key /\ row = requests[r].row /\ CopyOf(j, row)
    BY <2>1 DEF RequestHolds, Owning, Request
  <2>3. PICK set \in Row : set = Outcome(r)
    BY <2>1, <2>2 DEF Outcome, Row, Hash, Code
  <2>4. j = k => row.status = "PENDING"
    BY <1>1, <1>7, <2>1, <2>2 DEF Unread, ReadSettled, WriteOutcome, At
  <2>5. rows' = Flush(requests[r], set)
    BY <1>7, <2>3 DEF WriteOutcome
  <2>6. rows'[k] # None /\ rows'[k].status # "PENDING"
    BY <2>2, <2>4, <2>5, StaysSettled
  <2>7. Unread(k)'
    BY <1>1, <2>1, UnreadStays
  <2> QED
    BY <2>6, <2>7 DEF SettledForGood
<1> QED
  BY <1>2, <1>3, <1>4, <1>5, <1>6, <1>7 DEF SendPayment

(* So do the commits of sessions and of decisions.                         *)
LEMMA OthersKeepSettled ==
  ASSUME IInv, NEW k \in Keys, SettledForGood(k), UNCHANGED requests,
         \/ UNCHANGED rows
         \/ \E s \in Sessions : Commit(s)
         \/ \E d \in Decisions : Decide(d)
  PROVE  SettledForGood(k)'
<1>1. Unread(k)'
  BY DEF SettledForGood, Unread, ReadSettled, At
<1>2. CASE UNCHANGED rows
  BY <1>1, <1>2 DEF SettledForGood
<1>3. ASSUME NEW s \in Sessions, Commit(s) PROVE SettledForGood(k)'
  <2>1. PICK j \in Keys, row \in Row :
          j = sessions[s].key /\ row = sessions[s].row /\ CopyOf(j, row)
    BY <1>3 DEF Commit, IInv, TypeOK, SessionsHold
  <2>2. PICK found \in FindMatchingPayment(row) :
          rows' = Flush(sessions[s], IF found = None THEN Counted(row) ELSE Found(row, found))
    BY <1>3, <2>1 DEF Commit
  <2>3. PICK set \in Row :
          /\ set = IF found = None THEN Counted(row) ELSE Found(row, found)
          /\ set.status = "PENDING" => row.status = "PENDING"
    <3>1. CASE found = None
      <4>1. row.retries + 1 \in Nat
        BY DEF Row
      <4>2. [row EXCEPT !.retries = row.retries + 1] \in Row
        BY <4>1 DEF Row
      <4>3. PICK more \in Row : more = [row EXCEPT !.retries = row.retries + 1]
        BY <4>2
      <4>4. Expired(row) = [more EXCEPT !.status = "FAILED", !.code = "RECONCILIATION_EXPIRED"]
        BY <4>3 DEF Expired
      <4>5. Expired(row) \in Row /\ Expired(row).status = "FAILED"
        BY <4>4 DEF Row, Code
      <4>6. more.status = row.status
        BY <4>3 DEF Row
      <4> QED
        BY <3>1, <4>3, <4>5, <4>6 DEF Counted
    <3>2. CASE found # None
      <4>1. found \in Hash
        BY <2>2, <3>2 DEF FindMatchingPayment, IInv, TypeOK, Payment, Hash
      <4>2. Found(row, found) \in Row /\ Found(row, found).status = "SUCCESS"
        BY <4>1 DEF Found, Row
      <4> QED
        BY <3>2, <4>2
    <3> QED
      BY <3>1, <3>2
  <2>4. rows' = Flush(sessions[s], set)
    BY <2>2, <2>3
  <2>5. rows'[k] # None /\ rows'[k].status # "PENDING"
    BY <2>1, <2>3, <2>4, StaysSettled
  <2> QED
    BY <1>1, <2>5 DEF SettledForGood
<1>4. ASSUME NEW d \in Decisions, Decide(d) PROVE SettledForGood(k)'
  <2>1. PICK j \in Keys, row \in Row, op \in {"approve", "reject"} :
          /\ j = decisions[d].key /\ row = decisions[d].row /\ op = decisions[d].op
          /\ CopyOf(j, row)
    BY <1>4 DEF Decide, IInv, TypeOK, DecisionsHold
  <2>2. PICK set \in Row : set = Decided(op, row) /\ set.status # "PENDING"
    <3>1. PICK rejected \in Row : rejected = [row EXCEPT !.status = "FAILED", !.code = "REJECTED_BY_ADMIN"]
      BY DEF Row, Code
    <3>2. PICK approved \in Row : approved = [row EXCEPT !.status = "SUCCESS", !.hash = Invented]
      BY DEF Row, Hash
    <3>3. rejected.status = "FAILED" /\ approved.status = "SUCCESS"
      BY <3>1, <3>2 DEF Row
    <3> QED
      BY <3>1, <3>2, <3>3 DEF Decided
  <2>3. rows' = Flush(decisions[d], set)
    BY <1>4, <2>1, <2>2 DEF Decide
  <2>4. rows'[k] # None /\ rows'[k].status # "PENDING"
    BY <2>1, <2>2, <2>3, StaysSettled
  <2> QED
    BY <1>1, <2>4 DEF SettledForGood
<1> QED
  BY <1>2, <1>3, <1>4

(* Once no request that may have read it settled is left, a settled row is *)
(* settled for good, for any number of stale copies and writers.           *)
THEOREM PortSettledStaysSettled == Spec => SettledStaysSettled
<1>1. ASSUME IInv, [Next]_vars
      PROVE  \A k \in Keys : SettledForGood(k) => SettledForGood(k)'
  <2> SUFFICES ASSUME NEW k \in Keys, SettledForGood(k) PROVE SettledForGood(k)'
    OBVIOUS
  <2>1. CASE \E r \in Requests : SendPayment(r)
    BY <1>1, <2>1, RequestKeepsSettled
  <2>2. CASE \E s \in Sessions : Reconcile(s)
    <3>1. UNCHANGED requests /\ (UNCHANGED rows \/ \E s \in Sessions : Commit(s))
      BY <2>2 DEF Reconcile, LoadForEndpoint, LoadForStream, LoadForJob, Commit, SessionFails, table
    <3> QED
      BY <1>1, <3>1, OthersKeepSettled
  <2>3. CASE \E p \in network : Land(p)
    BY <1>1, <2>3, OthersKeepSettled DEF Land, table
  <2>4. CASE \E j \in Instances : StartPass(j) \/ EndPass(j) \/ Restart(j)
    BY <1>1, <2>4, OthersKeepSettled DEF StartPass, EndPass, Restart, table
  <2>5. CASE \E j \in Keys : GrowsOld(j)
    BY <1>1, <2>5, OthersKeepSettled DEF GrowsOld
  <2>6. CASE \E o \in Others, shape \in Shapes : OtherPayment(o, shape)
    BY <1>1, <2>6, OthersKeepSettled DEF OtherPayment, table
  <2>7. CASE \E d \in Decisions :
               Decide(d) \/ \E op \in {"approve", "reject"}, j \in Keys, header \in DecisionKeys \cup {None} :
                              LoadForDecision(d, op, j, header)
    <3>1. UNCHANGED requests /\ (UNCHANGED rows \/ \E d \in Decisions : Decide(d))
      BY <2>7 DEF Decide, LoadForDecision, table
    <3> QED
      BY <1>1, <3>1, OthersKeepSettled
  <2>8. CASE UNCHANGED vars
    BY <1>1, <2>8, OthersKeepSettled DEF vars, table
  <2> QED
    BY <1>1, <2>1, <2>2, <2>3, <2>4, <2>5, <2>6, <2>7, <2>8 DEF Next
<1> QED
  BY <1>1, Invariance, PTL DEF Spec, SettledStaysSettled
=============================================================================
