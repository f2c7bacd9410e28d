---------------------------- MODULE EscrowProofs ----------------------------
(***************************************************************************)
(* Proofs about Escrow for any accounts, tokens, inputs and integer widths:*)
(* types, the counter, final entries, the refinement of the life cycle,    *)
(* and the accounts of the contract and of everybody who uses it.          *)
(* Liveness is left to TLC.                                                *)
(***************************************************************************)
EXTENDS Escrow, FiniteSetTheorems, TLAPS

(* A transfer between two addresses keeps the balances well typed. *)
LEMMA TransferType ==
  ASSUME NEW t \in Tokens, NEW from \in Addresses, NEW to \in Addresses,
         NEW amount \in Nat, TypeOK, Transfer(t, from, to, amount)
  PROVE  balance' \in [Tokens -> [Addresses -> Nat]]
<1> DEFINE less == [balance EXCEPT ![t][from] = @ - amount]
<1>1. less \in [Tokens -> [Addresses -> Nat]]
  BY DEF TypeOK, Transfer, TransferAllowed
<1>2. balance' = [less EXCEPT ![t][to] = @ + amount]
  BY Zenon DEF Transfer
<1> QED
  BY <1>1, <1>2

(* Every escrow stored under a locked id is a full record. *)
LEMMA LockedIsRecord ==
  ASSUME TypeOK, NEW id \in Ids, RequireLocked(id)
  PROVE  escrows[id] \in EscrowRecord
BY DEF TypeOK, RequireLocked, None

(* No step breaks the types. *)
LEMMA TypeKept == TypeOK /\ [Next]_vars => TypeOK'
<1> SUFFICES ASSUME TypeOK, [Next]_vars PROVE TypeOK'
  OBVIOUS
<1> USE WidthAssumption, InputAssumption DEF TypeOK
<1>1. CASE CloseLedger
  BY <1>1 DEF CloseLedger
<1>2. ASSUME NEW payer \in Accounts, NEW payee \in Addresses, NEW t \in Tokens,
             NEW amount \in Amounts, NEW timeout \in Timeouts, auth' \in AuthSets,
             Deposit(payer, payee, t, amount, timeout)
      PROVE  TypeOK'
  <2>1. amount \in Nat \ {0} /\ payee \in Accounts /\ payer \in Addresses
    BY <1>2 DEF Deposit, ValidParties, Addresses
  <2>2. balance' \in [Tokens -> [Addresses -> Nat]]
    BY <1>2, <2>1, TransferType DEF Deposit, Addresses
  <2>3. nextId \in Ids /\ nextId' \in 0 .. MaxU64
    BY <1>2 DEF Deposit, AdvanceNextId, Ids
  <2>4. ledger + timeout \in 0 .. MaxU32
    BY <1>2 DEF Deposit, DeadlineFits
  <2>5. escrows' \in [Ids -> EscrowRecord \cup {None}]
    BY <1>2, <2>1, <2>3, <2>4 DEF Deposit, EscrowRecord
  <2> QED
    BY <1>2, <2>2, <2>3, <2>5 DEF Deposit
<1>3. ASSUME NEW id \in Ids, NEW status \in {"Released", "Refunded"},
             NEW to \in Accounts, auth' \in AuthSets,
             RequireLocked(id), Finalise(id, status, to)
      PROVE  TypeOK'
  <2>1. escrows[id] \in EscrowRecord
    BY <1>3, LockedIsRecord
  <2>2. balance' \in [Tokens -> [Addresses -> Nat]]
    BY <1>3, <2>1, TransferType DEF Finalise, TokenClient, Addresses, EscrowRecord
  <2>3. escrows' \in [Ids -> EscrowRecord \cup {None}]
    BY <1>3, <2>1 DEF Finalise, EscrowRecord
  <2> QED
    BY <1>3, <2>2, <2>3 DEF Finalise
<1>4. ASSUME NEW id \in Ids, auth' \in AuthSets, Release(id) \/ Refund(id)
      PROVE  TypeOK'
  <2>1. escrows[id] \in EscrowRecord
    BY <1>4, LockedIsRecord DEF Release, Refund
  <2> QED
    BY <1>3, <1>4, <2>1 DEF Release, Refund, EscrowRecord
<1>5. ASSUME NEW a \in Accounts, NEW t \in Tokens, auth' \in AuthSets, ChangeTrust(a, t)
      PROVE  TypeOK'
  BY <1>5 DEF ChangeTrust
<1>6. ASSUME NEW a \in Accounts, NEW t \in Tokens, NEW amount \in Amounts,
             auth' \in AuthSets, Donate(a, t, amount)
      PROVE  TypeOK'
  <2>1. amount \in Nat
    BY <1>6 DEF Donate
  <2>2. balance' \in [Tokens -> [Addresses -> Nat]]
    BY <1>6, <2>1, TransferType DEF Donate, Addresses
  <2>3. donated' \in [Tokens -> [Accounts -> Nat]]
    BY <1>6, <2>1 DEF Donate
  <2> QED
    BY <1>6, <2>2, <2>3 DEF Donate
<1>7. CASE UNCHANGED vars
  BY <1>7 DEF vars
<1> QED
  BY <1>1, <1>2, <1>4, <1>5, <1>6, <1>7 DEF Next, Transaction

(* The variables keep their types, the balances stay non-negative and the  *)
(* counter, ids and deadlines stay within their integer widths.            *)
THEOREM TypeCorrect == Spec => []TypeOK
<1>1. Init => TypeOK
  BY WidthAssumption DEF Init, TypeOK, Ids
<1> QED
  BY <1>1, TypeKept, PTL DEF Spec

-----------------------------------------------------------------------------
(* What one step can do to the entries: nothing, create the entry at the   *)
(* counter, or change the status of one locked entry.                      *)

Creates(id) ==
  /\ id = nextId /\ nextId' = nextId + 1
  /\ escrows'[id] \in EscrowRecord
  /\ escrows'[id].status = "Locked"
  /\ escrows'[id].timeout_ledger >= ledger
  /\ escrows'[id].payer \in auth'
  /\ escrows' = [escrows EXCEPT ![id] = escrows'[id]]

Closes(id, status) ==
  /\ nextId' = nextId
  /\ escrows[id] \in EscrowRecord
  /\ escrows[id].status = "Locked"
  /\ escrows' = [escrows EXCEPT ![id].status = status]
  /\ \/ escrows[id].payer \in auth'
     \/ status = "Refunded" /\ ledger >= escrows[id].timeout_ledger

(* Every step is one of these, or leaves the entries as they are. *)
LEMMA StepOnEntries ==
  ASSUME TypeOK, [Next]_vars
  PROVE  \/ UNCHANGED <<nextId, escrows, auth, ledger>>
         \/ UNCHANGED <<nextId, escrows>> /\ ledger' \in Nat /\ ledger' >= ledger
            /\ auth' \subseteq Accounts
         \/ /\ auth' \subseteq Accounts /\ ledger' = ledger
            /\ \E id \in Ids : \/ Creates(id)
                              \/ \E status \in {"Released", "Refunded"} : Closes(id, status)
<1> USE WidthAssumption, InputAssumption
<1>1. CASE CloseLedger
  BY <1>1 DEF CloseLedger, TypeOK
<1>2. ASSUME NEW payer \in Accounts, NEW payee \in Addresses, NEW t \in Tokens,
             NEW amount \in Amounts, NEW timeout \in Timeouts, auth' \in AuthSets,
             Deposit(payer, payee, t, amount, timeout)
      PROVE  nextId \in Ids /\ Creates(nextId)
  <2>1. nextId \in Ids /\ nextId' = nextId + 1
    BY <1>2 DEF TypeOK, Deposit, AdvanceNextId, Ids
  <2>2. /\ payee \in Accounts /\ amount \in Nat \ {0}
        /\ ledger + timeout \in 0 .. MaxU32 /\ ledger + timeout >= ledger
    BY <1>2 DEF Deposit, ValidParties, Addresses, DeadlineFits, TypeOK
  <2>3. escrows'[nextId] =
          [payer |-> payer, payee |-> payee, token |-> t, amount |-> amount,
           status |-> "Locked", timeout_ledger |-> ledger + timeout]
    BY <1>2, <2>1 DEF Deposit, TypeOK
  <2>4. escrows'[nextId] \in EscrowRecord
    BY <2>2, <2>3 DEF EscrowRecord
  <2>5. escrows' = [escrows EXCEPT ![nextId] = escrows'[nextId]]
    BY <1>2, <2>3 DEF Deposit
  <2> QED
    BY <1>2, <2>1, <2>2, <2>3, <2>4, <2>5 DEF Creates, Deposit
<1>3. ASSUME NEW id \in Ids, auth' \in AuthSets, Release(id)
      PROVE  Closes(id, "Released")
  BY <1>3, LockedIsRecord DEF Closes, Release, Finalise, RequireLocked
<1>4. ASSUME NEW id \in Ids, auth' \in AuthSets, Refund(id)
      PROVE  Closes(id, "Refunded")
  <2>1. escrows[id] \in EscrowRecord
    BY <1>4, LockedIsRecord DEF Refund
  <2> QED
    BY <1>4, <2>1 DEF Closes, Refund, Finalise, RequireLocked, RefundAuthorised,
                      EscrowRecord, TypeOK
<1>5. ASSUME auth' \in AuthSets, Transaction
      PROVE  /\ auth' \subseteq Accounts /\ ledger' = ledger
             /\ \/ UNCHANGED <<nextId, escrows>>
                \/ \E id \in Ids : \/ Creates(id)
                                  \/ \E status \in {"Released", "Refunded"} : Closes(id, status)
  <2>1. CASE \E payer \in Accounts, payee \in Addresses, t \in Tokens,
               amount \in Amounts, timeout \in Timeouts :
               Deposit(payer, payee, t, amount, timeout)
    BY <1>2, <1>5, <2>1 DEF Deposit
  <2>2. CASE \E id \in Ids : Release(id) \/ Refund(id)
    BY <1>3, <1>4, <1>5, <2>2 DEF Release, Refund, Finalise
  <2>3. CASE \E a \in Accounts, t \in Tokens :
               ChangeTrust(a, t) \/ \E amount \in Amounts : Donate(a, t, amount)
    BY <1>5, <2>3 DEF ChangeTrust, Donate
  <2> QED
    BY <1>5, <2>1, <2>2, <2>3 DEF Transaction
<1>6. CASE UNCHANGED vars
  BY <1>6 DEF vars
<1>7. CASE auth' \in AuthSets /\ Transaction
  BY <1>5, <1>7 DEF TypeOK
<1> QED
  BY <1>1, <1>6, <1>7 DEF Next

(* No step skips or reuses an id. *)
LEMMA IdsKept == TypeOK /\ IdsInOrder /\ [Next]_vars => IdsInOrder'
<1> SUFFICES ASSUME TypeOK, IdsInOrder, [Next]_vars, NEW i \in Ids
             PROVE  escrows'[i] = None <=> i >= nextId'
  BY DEF IdsInOrder
<1> USE WidthAssumption DEF TypeOK, Ids, IdsInOrder
<1>1. CASE UNCHANGED <<nextId, escrows>>
  BY <1>1
<1>2. ASSUME NEW id \in Ids, Creates(id)
      PROVE  escrows'[i] = None <=> i >= nextId'
  <2>1. escrows'[id] # None
    BY <1>2 DEF Creates, None
  <2>2. i # id => escrows'[i] = escrows[i]
    BY <1>2 DEF Creates
  <2>3. id = nextId /\ nextId' = nextId + 1
    BY <1>2 DEF Creates
  <2> QED
    BY <2>1, <2>2, <2>3
<1>3. ASSUME NEW id \in Ids, NEW status \in {"Released", "Refunded"}, Closes(id, status)
      PROVE  escrows'[i] = None <=> i >= nextId'
  <2>1. escrows'[id].status = status /\ escrows[id].status = "Locked"
    BY <1>3 DEF Closes, EscrowRecord
  <2>2. escrows'[id] # None /\ escrows[id] # None
    BY <2>1 DEF None
  <2>3. i # id => escrows'[i] = escrows[i]
    BY <1>3 DEF Closes
  <2>4. nextId' = nextId
    BY <1>3 DEF Closes
  <2> QED
    BY <2>2, <2>3, <2>4
<1> QED
  BY <1>1, <1>2, <1>3, StepOnEntries

(* Ids are handed out in order, none is skipped and none is reused, however *)
(* deposits, failed deposits and finalisations interleave.                  *)
THEOREM IdsInOrderTheorem == Spec => []IdsInOrder
<1>1. Init => IdsInOrder
  BY WidthAssumption DEF Init, IdsInOrder, Ids
<1> QED
  BY <1>1, IdsKept, TypeCorrect, PTL DEF Spec

(* What a step can do to an existing entry: nothing but give a locked one  *)
(* its final status.                                                       *)
LEMMA EntryKept ==
  ASSUME TypeOK, IdsInOrder, [Next]_vars, NEW i \in Ids, escrows[i] # None
  PROVE  /\ escrows'[i] # None
         /\ [escrows'[i] EXCEPT !.status = "Locked"] = [escrows[i] EXCEPT !.status = "Locked"]
         /\ escrows[i].status # "Locked" => escrows'[i] = escrows[i]
<1>1. CASE escrows'[i] = escrows[i]
  BY <1>1
<1>2. ASSUME NEW id \in Ids, Creates(id)
      PROVE  escrows'[i] = escrows[i]
  <2>1. id = nextId /\ nextId \in Nat
    BY <1>2 DEF Creates, Ids, TypeOK
  <2>2. escrows[id] = None
    BY <2>1 DEF IdsInOrder
  <2> QED
    BY <1>2, <2>2 DEF Creates, TypeOK
<1>3. ASSUME NEW id \in Ids, NEW status \in {"Released", "Refunded"}, Closes(id, status),
             i = id
      PROVE  /\ escrows'[i] # None /\ escrows[i].status = "Locked"
             /\ [escrows'[i] EXCEPT !.status = "Locked"]
                  = [escrows[i] EXCEPT !.status = "Locked"]
  <2>1. escrows'[i] = [escrows[i] EXCEPT !.status = status]
    BY <1>3 DEF Closes, TypeOK
  <2>2. escrows[i] \in EscrowRecord /\ escrows[i].status = "Locked"
    BY <1>3 DEF Closes
  <2>3. escrows'[i].status = status
    BY <2>1, <2>2 DEF EscrowRecord
  <2> QED
    BY <2>1, <2>2, <2>3 DEF EscrowRecord, None
<1>4. ASSUME NEW id \in Ids, NEW status \in {"Released", "Refunded"}, Closes(id, status),
             i # id
      PROVE  escrows'[i] = escrows[i]
  BY <1>4 DEF Closes, TypeOK
<1> QED
  BY <1>1, <1>2, <1>3, <1>4, StepOnEntries

(* Once final, an escrow never changes, and its terms never do.            *)
THEOREM FinalIsFinalTheorem == Spec => FinalIsFinal
<1> DEFINE A == \A id \in Ids : escrows[id] # None =>
       /\ escrows'[id] # None
       /\ [escrows'[id] EXCEPT !.status = "Locked"] = [escrows[id] EXCEPT !.status = "Locked"]
       /\ escrows[id].status # "Locked" => escrows'[id] = escrows[id]
<1>1. TypeOK /\ IdsInOrder /\ [Next]_vars => A
  BY EntryKept
<1>2. TypeOK /\ IdsInOrder /\ [Next]_vars => [A]_vars
  BY <1>1
<1> QED
  BY <1>2, TypeCorrect, IdsInOrderTheorem, PTL DEF Spec, FinalIsFinal

-----------------------------------------------------------------------------
(* The contract implements its life cycle: every transaction locks a fresh *)
(* id on its payer's authorization, closes a locked one as the life cycle  *)
(* allows, or leaves every escrow alone.                                   *)
THEOREM ImplementsLifecycle == Spec => LifecycleSpec
<1> USE DEF Phase, PayerOf, DeadlineOf
<1>1. Init => Lifecycle!Init
  <2> SUFFICES ASSUME Init PROVE Lifecycle!Init
    OBVIOUS
  <2>1. \A id \in Ids : escrows[id] = None
    BY DEF Init
  <2>2. Phase = [id \in Ids |-> "Absent"] /\ DeadlineOf \in [Ids -> Nat]
    BY <2>1 DEF None
  <2>3. PayerOf \in [Ids -> Accounts]
    BY <2>1, AccountsAssumption DEF SomeAccount
  <2> QED
    BY <2>2, <2>3 DEF Init, Lifecycle!Init
<1>2. TypeOK /\ IdsInOrder /\ [Next]_vars => [Lifecycle!Next]_(Lifecycle!vars)
  <2> SUFFICES ASSUME TypeOK, IdsInOrder, [Next]_vars
               PROVE  [Lifecycle!Next]_(Lifecycle!vars)
    OBVIOUS
  <2>1. CASE UNCHANGED <<nextId, escrows, auth, ledger>>
    BY <2>1 DEF Lifecycle!vars
  <2>2. CASE UNCHANGED <<nextId, escrows>> /\ ledger' \in Nat /\ ledger' >= ledger
             /\ auth' \subseteq Accounts
    <3>1. UNCHANGED <<Phase, PayerOf, DeadlineOf>>
      BY <2>2
    <3>2. Lifecycle!Elapse
      BY <2>2, <3>1 DEF Lifecycle!Elapse
    <3> QED
      BY <3>2 DEF Lifecycle!Next
  <2>3. ASSUME NEW id \in Ids, Creates(id), auth' \subseteq Accounts, ledger' = ledger
        PROVE  Lifecycle!Lock(id)
    <3>1. nextId \in Nat /\ escrows \in [Ids -> EscrowRecord \cup {None}]
      BY WidthAssumption DEF TypeOK
    <3>2. escrows[id] = None /\ Phase[id] = "Absent"
      BY <2>3, <3>1 DEF IdsInOrder, Creates, None
    <3>3. escrows'[id] # None
      BY <2>3 DEF Creates, None
    <3>4. \A i \in Ids : i # id => escrows'[i] = escrows[i]
      BY <2>3, <3>1 DEF Creates
    <3>5. Phase' = [Phase EXCEPT ![id] = "Locked"]
      BY <2>3, <3>4 DEF Creates
    <3>6. PayerOf' = [PayerOf EXCEPT ![id] = PayerOf'[id]] /\ PayerOf'[id] \in auth'
      BY <2>3, <3>3, <3>4 DEF Creates
    <3>7. DeadlineOf' = [DeadlineOf EXCEPT ![id] = DeadlineOf'[id]] /\ DeadlineOf'[id] >= ledger
      BY <2>3, <3>3, <3>4 DEF Creates
    <3> QED
      BY <2>3, <3>2, <3>5, <3>6, <3>7 DEF Lifecycle!Lock
  <2>4. ASSUME NEW id \in Ids, NEW status \in {"Released", "Refunded"}, Closes(id, status),
               auth' \subseteq Accounts, ledger' = ledger
        PROVE  Lifecycle!Close(id, status)
    <3>1. escrows \in [Ids -> EscrowRecord \cup {None}]
      BY DEF TypeOK
    <3>2. /\ escrows[id] \in EscrowRecord /\ escrows[id].status = "Locked"
          /\ escrows'[id] = [escrows[id] EXCEPT !.status = status]
      BY <2>4, <3>1 DEF Closes
    <3>3. escrows[id] # None /\ escrows'[id].status = status
      BY <3>2 DEF EscrowRecord, None
    <3>4. /\ escrows'[id] # None /\ escrows'[id].payer = escrows[id].payer
          /\ escrows'[id].timeout_ledger = escrows[id].timeout_ledger
      BY <3>2, <3>3 DEF EscrowRecord, None
    <3>5. \A i \in Ids : i # id => escrows'[i] = escrows[i]
      BY <2>4, <3>1 DEF Closes
    <3>6. Phase' = [Phase EXCEPT ![id] = status]
      BY <3>3, <3>5
    <3>7. UNCHANGED PayerOf
      BY <3>3, <3>4, <3>5
    <3>8. UNCHANGED DeadlineOf
      BY <3>3, <3>4, <3>5
    <3>9. PayerOf[id] \in auth' \/ (status = "Refunded" /\ ledger >= DeadlineOf[id])
      BY <2>4, <3>3 DEF Closes
    <3> QED
      BY <2>4, <3>2, <3>6, <3>7, <3>8, <3>9 DEF Lifecycle!Close
  <2> QED
    BY <2>1, <2>2, <2>3, <2>4, StepOnEntries DEF Lifecycle!Next
<1> QED
  BY <1>1, <1>2, TypeCorrect, IdsInOrderTheorem, PTL
    DEF Spec, LifecycleSpec, Lifecycle!Spec

-----------------------------------------------------------------------------
(* Sums, counted unit by unit.                                             *)

(* One entry has as many units as its amount. *)
LEMMA UnitsOfOne ==
  ASSUME NEW x, NEW n \in Nat
  PROVE  IsFiniteSet({x} \X (1 .. n)) /\ Cardinality({x} \X (1 .. n)) = n
<1>1. IsFiniteSet({x}) /\ Cardinality({x}) = 1
  BY FS_Singleton
<1>2. IsFiniteSet(1 .. n) /\ Cardinality(1 .. n) = n
  <2>1. IsFiniteSet(1 .. n) /\ Cardinality(1 .. n) = IF 1 > n THEN 0 ELSE n - 1 + 1
    BY FS_Interval
  <2> QED BY <2>1
<1>3. IsFiniteSet({x} \X (1 .. n)) /\ Cardinality({x} \X (1 .. n)) = 1 * n
  <2> DEFINE S == {x}  T == 1 .. n
  <2>1. IsFiniteSet(S) /\ IsFiniteSet(T) /\ Cardinality(S) = 1 /\ Cardinality(T) = n
    BY <1>1, <1>2
  <2> HIDE DEF S, T
  <2>2. IsFiniteSet(S \X T) /\ Cardinality(S \X T) = Cardinality(S) * Cardinality(T)
    BY <2>1, FS_Product
  <2> QED BY <2>1, <2>2 DEF S, T
<1> QED BY <1>3

(* A sum is a natural number. *)
LEMMA TotalType ==
  ASSUME NEW f, NEW S, IsFiniteSet(Units(f, S))
  PROVE  Total(f, S) \in Nat
BY FS_CardinalityType DEF Total

(* Part of what is finite is finite. *)
LEMMA UnitsOfPart ==
  ASSUME NEW f, NEW T, NEW S \in SUBSET T, IsFiniteSet(Units(f, T))
  PROVE  IsFiniteSet(Units(f, S))
<1>1. Units(f, S) \in SUBSET Units(f, T)
  BY DEF Units
<1> QED BY <1>1, FS_Subset

(* The sum depends only on the amounts over S. *)
LEMMA UnitsAgree ==
  ASSUME NEW f, NEW g, NEW S, \A y \in S : g[y] = f[y]
  PROVE  Units(g, S) = Units(f, S) /\ Total(g, S) = Total(f, S)
BY DEF Units, Total

(* One entry more keeps the units finite and adds its amount to the sum. *)
LEMMA UnitsIn ==
  ASSUME NEW f, NEW g, NEW S, NEW x, x \notin S, g[x] \in Nat,
         \A y \in S : g[y] = f[y], IsFiniteSet(Units(f, S))
  PROVE  /\ IsFiniteSet(Units(g, S \cup {x}))
         /\ Total(g, S \cup {x}) = Total(f, S) + g[x]
<1> DEFINE One == {x} \X (1 .. g[x])
<1>1. Units(g, S \cup {x}) = Units(f, S) \cup One
  BY DEF Units
<1>2. Units(f, S) \cap One = {}
  BY DEF Units
<1>3. IsFiniteSet(One) /\ Cardinality(One) = g[x]
  BY UnitsOfOne
<1> HIDE DEF One
<1>4. /\ IsFiniteSet(Units(f, S) \cup One)
      /\ Cardinality(Units(f, S) \cup One)
           = Cardinality(Units(f, S)) + Cardinality(One) - Cardinality(Units(f, S) \cap One)
  BY <1>3, FS_Union
<1>5. Cardinality(Units(f, S) \cap One) = 0
  BY <1>2, FS_EmptySet
<1>6. Cardinality(Units(f, S)) \in Nat
  BY FS_CardinalityType
<1>7. IsFiniteSet(Units(g, S \cup {x})) /\ Total(g, S \cup {x}) = Cardinality(Units(f, S) \cup One)
  BY <1>1, <1>4, Zenon DEF Total
<1>8. Cardinality(Units(f, S)) = Total(f, S)
  BY DEF Total
<1> QED BY <1>3, <1>4, <1>5, <1>6, <1>7, <1>8

(* The sum alone, which is what most proofs need. *)
LEMMA TotalIn ==
  ASSUME NEW f, NEW g, NEW S, NEW x, x \notin S, g[x] \in Nat,
         \A y \in S : g[y] = f[y], IsFiniteSet(Units(f, S))
  PROVE  Total(g, S \cup {x}) = Total(f, S) + g[x]
BY UnitsIn

(* One entry less takes its amount away. *)
LEMMA TotalOut ==
  ASSUME NEW f, NEW g, NEW S, NEW x \in S, f[x] \in Nat,
         \A y \in S \ {x} : g[y] = f[y], IsFiniteSet(Units(f, S))
  PROVE  Total(g, S \ {x}) = Total(f, S) - f[x]
<1>1. IsFiniteSet(Units(f, S \ {x}))
  BY UnitsOfPart, S \ {x} \in SUBSET S
<1>2. Total(f, (S \ {x}) \cup {x}) = Total(f, S \ {x}) + f[x]
  BY <1>1, TotalIn
<1>3. Total(f, (S \ {x}) \cup {x}) = Total(f, S)
  <2>1. (S \ {x}) \cup {x} = S
    OBVIOUS
  <2> QED BY <2>1, Zenon
<1>4. Total(g, S \ {x}) = Total(f, S \ {x})
  BY UnitsAgree
<1>5. Total(f, S \ {x}) \in Nat
  BY <1>1, TotalType
<1> QED BY <1>2, <1>3, <1>4, <1>5

(* The amounts staying as they are, an entry can leave or join the sum. *)
LEMMA TotalBoth ==
  ASSUME NEW f, NEW S, NEW x, f[x] \in Nat, IsFiniteSet(Units(f, S))
  PROVE  /\ x \in S => Total(f, S \ {x}) = Total(f, S) - f[x]
         /\ x \notin S => Total(f, S \cup {x}) = Total(f, S) + f[x]
<1>1. CASE x \in S
  BY <1>1, TotalOut
<1>2. CASE x \notin S
  BY <1>2, TotalIn
<1> QED BY <1>1, <1>2

(* One entry growing by n makes the sum grow by n. *)
LEMMA TotalRaised ==
  ASSUME NEW f, NEW g, NEW S, NEW x \in S, NEW n \in Nat, f[x] \in Nat,
         g[x] = f[x] + n, \A y \in S \ {x} : g[y] = f[y], IsFiniteSet(Units(f, S))
  PROVE  IsFiniteSet(Units(g, S)) /\ Total(g, S) = Total(f, S) + n
<1> DEFINE R == S \ {x}
<1>1. IsFiniteSet(Units(f, R))
  BY UnitsOfPart, R \in SUBSET S
<1>2. Total(f, R) = Total(f, S) - f[x]
  BY TotalOut
<1>3. x \notin R /\ \A y \in R : g[y] = f[y]
  OBVIOUS
<1>4. S = R \cup {x}
  OBVIOUS
<1> HIDE DEF R
<1>5. g[x] \in Nat
  OBVIOUS
<1>6. IsFiniteSet(Units(g, R \cup {x}))
  BY <1>1, <1>3, <1>5, UnitsIn
<1>7. Total(g, R \cup {x}) = Total(f, R) + g[x]
  BY <1>1, <1>3, <1>5, TotalIn
<1>8. IsFiniteSet(Units(g, S)) /\ Total(g, S) = Total(f, R) + g[x]
  BY <1>4, <1>6, <1>7, Zenon
<1>9. Total(f, S) \in Nat /\ Total(f, R) \in Nat
  BY <1>1, TotalType
<1> QED BY <1>2, <1>8, <1>9

-----------------------------------------------------------------------------
(* The accounts of the contract and of its users. *)

(* Everything that is summed up is finite. *)
FiniteUnits ==
  /\ IsFiniteSet(Units(AmountOf, Ids))
  /\ \A t \in Tokens : IsFiniteSet(Units(donated[t], Accounts))

(* A fresh entry: the sums over sets it joins grow by its amount, others stay. *)
LEMMA FreshEntry ==
  ASSUME IsFiniteSet(Units(AmountOf, Ids)), NEW id \in Ids, escrows[id] = None,
         escrows'[id] \in EscrowRecord, \A i \in Ids \ {id} : escrows'[i] = escrows[i]
  PROVE  /\ IsFiniteSet(Units(AmountOf, Ids))'
         /\ \A S \in SUBSET (Ids \ {id}) :
              /\ Total(AmountOf', S) = Total(AmountOf, S)
              /\ Total(AmountOf', S \cup {id}) = Total(AmountOf, S) + escrows'[id].amount
<1>1. /\ AmountOf[id] = 0 /\ AmountOf'[id] = escrows'[id].amount
      /\ escrows'[id].amount \in Nat
      /\ \A i \in Ids \ {id} : AmountOf'[i] = AmountOf[i]
  BY DEF AmountOf, EscrowRecord, None
<1>2. IsFiniteSet(Units(AmountOf', Ids))
  <2>1. AmountOf[id] \in Nat /\ AmountOf'[id] = AmountOf[id] + escrows'[id].amount
    BY <1>1
  <2> QED BY <1>1, <2>1, TotalRaised
<1>3. ASSUME NEW S \in SUBSET (Ids \ {id})
      PROVE  /\ Total(AmountOf', S) = Total(AmountOf, S)
             /\ Total(AmountOf', S \cup {id}) = Total(AmountOf, S) + escrows'[id].amount
  <2>1. IsFiniteSet(Units(AmountOf, S))
    BY UnitsOfPart, S \in SUBSET Ids
  <2>2. id \notin S /\ \A i \in S : AmountOf'[i] = AmountOf[i]
    BY <1>1
  <2>0. AmountOf'[id] \in Nat
    BY <1>1
  <2>3. Total(AmountOf', S \cup {id}) = Total(AmountOf, S) + AmountOf'[id]
    BY <2>1, <2>2, <2>0, TotalIn
  <2>4. Total(AmountOf', S) = Total(AmountOf, S)
    BY <2>2, UnitsAgree
  <2> QED BY <1>1, <2>3, <2>4
<1> QED BY <1>2, <1>3

(* Only the status of one entry changes. *)
Turned(id, status) == escrows' = [escrows EXCEPT ![id].status = status]

(* An entry that changes only its status: the sums over sets it leaves or  *)
(* joins change by its amount, others stay.                                *)
LEMMA MovedEntry ==
  ASSUME TypeOK, IsFiniteSet(Units(AmountOf, Ids)), NEW id \in Ids,
         escrows[id] \in EscrowRecord, NEW status \in {"Released", "Refunded"},
         Turned(id, status)
  PROVE  /\ IsFiniteSet(Units(AmountOf, Ids))'
         /\ \A S \in SUBSET Ids :
              /\ Total(AmountOf', S) = Total(AmountOf, S)
              /\ id \in S => Total(AmountOf', S \ {id}) = Total(AmountOf, S) - escrows[id].amount
              /\ id \notin S => Total(AmountOf', S \cup {id}) = Total(AmountOf, S) + escrows[id].amount
<1>1. AmountOf[id] = escrows[id].amount /\ escrows[id].amount \in Nat
  BY DEF AmountOf, EscrowRecord, None
<1>2. \A i \in Ids : AmountOf'[i] = AmountOf[i]
  <2> SUFFICES ASSUME NEW i \in Ids PROVE AmountOf'[i] = AmountOf[i]
    OBVIOUS
  <2>1. CASE i # id
    BY <2>1 DEF AmountOf, TypeOK, Turned
  <2>2. CASE i = id
    <3>1. escrows'[id] = [escrows[id] EXCEPT !.status = status]
      BY DEF TypeOK, Turned
    <3>2. escrows'[id].amount = escrows[id].amount /\ escrows'[id] # None /\ escrows[id] # None
      BY <3>1 DEF EscrowRecord, None
    <3> QED BY <2>2, <3>2 DEF AmountOf
  <2> QED BY <2>1, <2>2
<1>3. AmountOf' = AmountOf
  BY <1>2 DEF AmountOf
<1>4. ASSUME NEW S \in SUBSET Ids
      PROVE  /\ id \in S => Total(AmountOf, S \ {id}) = Total(AmountOf, S) - escrows[id].amount
             /\ id \notin S => Total(AmountOf, S \cup {id}) = Total(AmountOf, S) + escrows[id].amount
  <2>1. IsFiniteSet(Units(AmountOf, S))
    BY UnitsOfPart
  <2>2. /\ id \in S => Total(AmountOf, S \ {id}) = Total(AmountOf, S) - AmountOf[id]
        /\ id \notin S => Total(AmountOf, S \cup {id}) = Total(AmountOf, S) + AmountOf[id]
    BY <1>1, <2>1, TotalBoth
  <2> QED BY <1>1, <2>2
<1> QED BY <1>3, <1>4, Zenon

(* What a transfer between two different addresses does to the balances. *)
LEMMA TransferMoves ==
  ASSUME NEW t \in Tokens, NEW from \in Addresses, NEW to \in Addresses, from # to,
         NEW amount \in Nat, TypeOK, Transfer(t, from, to, amount)
  PROVE  /\ balance'[t][from] = balance[t][from] - amount
         /\ balance'[t][to] = balance[t][to] + amount
         /\ \A u \in Tokens, a \in Addresses :
              u # t \/ a \notin {from, to} => balance'[u][a] = balance[u][a]
<1> DEFINE less == [balance EXCEPT ![t][from] = @ - amount]
<1>1. /\ less \in [Tokens -> [Addresses -> Int]]
      /\ less[t][from] = balance[t][from] - amount
      /\ \A u \in Tokens, a \in Addresses : u # t \/ a # from => less[u][a] = balance[u][a]
  BY DEF TypeOK
<1>2. balance' = [less EXCEPT ![t][to] = @ + amount]
  BY Zenon DEF Transfer
<1> HIDE DEF less
<1> QED BY <1>1, <1>2 DEF TypeOK

(* What a deposit does to the sums over an account's escrows. *)
LEMMA DepositSums ==
  ASSUME TypeOK, FiniteUnits, NEW id \in Ids, escrows[id] = None,
         escrows'[id] \in EscrowRecord, escrows'[id].status = "Locked",
         \A i \in Ids \ {id} : escrows'[i] = escrows[i],
         NEW t \in Tokens, NEW a \in Accounts
  PROVE  /\ Total(AmountOf, EscrowsOf(t, "Locked"))' = Total(AmountOf, EscrowsOf(t, "Locked"))
              + (IF escrows'[id].token = t THEN escrows'[id].amount ELSE 0)
         /\ Total(AmountOf, PaidBy(t, a, "Locked"))' = Total(AmountOf, PaidBy(t, a, "Locked"))
              + (IF escrows'[id].token = t /\ escrows'[id].payer = a
                 THEN escrows'[id].amount ELSE 0)
         /\ Total(AmountOf, PaidBy(t, a, "Released"))' = Total(AmountOf, PaidBy(t, a, "Released"))
         /\ Total(AmountOf, EarnedBy(t, a))' = Total(AmountOf, EarnedBy(t, a))
<1> DEFINE L == EscrowsOf(t, "Locked")
           P == PaidBy(t, a, "Locked")
           R == PaidBy(t, a, "Released")
           E == EarnedBy(t, a)
<1>1. ASSUME NEW S \in SUBSET (Ids \ {id})
      PROVE  /\ Total(AmountOf', S) = Total(AmountOf, S)
             /\ Total(AmountOf', S \cup {id}) = Total(AmountOf, S) + escrows'[id].amount
  BY FreshEntry DEF FiniteUnits
<1>2. /\ L \in SUBSET (Ids \ {id}) /\ P \in SUBSET (Ids \ {id})
      /\ R \in SUBSET (Ids \ {id}) /\ E \in SUBSET (Ids \ {id})
  BY DEF EscrowsOf, PaidBy, EarnedBy, None
<1>3. L' = IF escrows'[id].token = t THEN L \cup {id} ELSE L
  BY DEF EscrowsOf, None
<1>4. P' = IF escrows'[id].token = t /\ escrows'[id].payer = a THEN P \cup {id} ELSE P
  BY DEF EscrowsOf, PaidBy, None
<1>5. R' = R
  BY DEF EscrowsOf, PaidBy, None
<1>6. E' = E
  BY DEF EscrowsOf, EarnedBy, None
<1>7. /\ Total(AmountOf, L) \in Nat /\ Total(AmountOf, P) \in Nat
      /\ Total(AmountOf, R) \in Nat /\ Total(AmountOf, E) \in Nat
  <2>1. ASSUME NEW S \in SUBSET Ids
        PROVE  Total(AmountOf, S) \in Nat
    <3>1. IsFiniteSet(Units(AmountOf, S))
      BY UnitsOfPart DEF FiniteUnits
    <3> QED BY <3>1, TotalType
  <2> HIDE DEF L, P, R, E
  <2> QED BY <1>2, <2>1
<1> HIDE DEF L, P, R, E
<1>8. Total(AmountOf', L') = Total(AmountOf, L)
        + (IF escrows'[id].token = t THEN escrows'[id].amount ELSE 0)
  BY <1>1, <1>2, <1>3, <1>7
<1>9. Total(AmountOf', P') = Total(AmountOf, P)
        + (IF escrows'[id].token = t /\ escrows'[id].payer = a
           THEN escrows'[id].amount ELSE 0)
  BY <1>1, <1>2, <1>4, <1>7
<1>10. Total(AmountOf', R') = Total(AmountOf, R) /\ Total(AmountOf', E') = Total(AmountOf, E)
  BY <1>1, <1>2, <1>5, <1>6
<1> QED BY <1>8, <1>9, <1>10, Zenon DEF L, P, R, E

(* What the end of an escrow does to them: the payer's locked deposit goes, *)
(* and when it is released it becomes a released deposit of the payer and   *)
(* an earning of the payee.                                                 *)
LEMMA CloseSums ==
  ASSUME TypeOK, FiniteUnits, NEW id \in Ids,
         escrows[id] \in EscrowRecord, escrows[id].status = "Locked",
         NEW status \in {"Released", "Refunded"},
         Turned(id, status),
         NEW t \in Tokens, NEW a \in Accounts
  PROVE  /\ Total(AmountOf, EscrowsOf(t, "Locked"))' = Total(AmountOf, EscrowsOf(t, "Locked"))
              - (IF escrows[id].token = t THEN escrows[id].amount ELSE 0)
         /\ Total(AmountOf, PaidBy(t, a, "Locked"))' = Total(AmountOf, PaidBy(t, a, "Locked"))
              - (IF escrows[id].token = t /\ escrows[id].payer = a
                 THEN escrows[id].amount ELSE 0)
         /\ Total(AmountOf, PaidBy(t, a, "Released"))' = Total(AmountOf, PaidBy(t, a, "Released"))
              + (IF status = "Released" /\ escrows[id].token = t /\ escrows[id].payer = a
                 THEN escrows[id].amount ELSE 0)
         /\ Total(AmountOf, EarnedBy(t, a))' = Total(AmountOf, EarnedBy(t, a))
              + (IF status = "Released" /\ escrows[id].token = t /\ escrows[id].payee = a
                 THEN escrows[id].amount ELSE 0)
<1> DEFINE L == EscrowsOf(t, "Locked")
           P == PaidBy(t, a, "Locked")
           R == PaidBy(t, a, "Released")
           E == EarnedBy(t, a)
<1>1. ASSUME NEW S \in SUBSET Ids
      PROVE  /\ Total(AmountOf', S) = Total(AmountOf, S)
             /\ id \in S => Total(AmountOf', S \ {id}) = Total(AmountOf, S) - escrows[id].amount
             /\ id \notin S => Total(AmountOf', S \cup {id}) = Total(AmountOf, S) + escrows[id].amount
  BY MovedEntry DEF FiniteUnits
<1>2. /\ escrows'[id] = [escrows[id] EXCEPT !.status = status]
      /\ \A i \in Ids \ {id} : escrows'[i] = escrows[i]
  BY DEF TypeOK, Turned
<1>3. /\ escrows'[id].status = status /\ escrows'[id].token = escrows[id].token
      /\ escrows'[id].payer = escrows[id].payer /\ escrows'[id].payee = escrows[id].payee
      /\ status # "Locked"
  BY <1>2 DEF EscrowRecord
<1>4. /\ L \in SUBSET Ids /\ P \in SUBSET Ids /\ R \in SUBSET Ids /\ E \in SUBSET Ids
      /\ id \notin R /\ id \notin E
      /\ id \in L <=> escrows[id].token = t
      /\ id \in P <=> escrows[id].token = t /\ escrows[id].payer = a
  BY DEF EscrowsOf, PaidBy, EarnedBy
<1>5. L' = L \ {id}
  BY <1>2, <1>3 DEF EscrowsOf
<1>6. P' = P \ {id}
  BY <1>2, <1>3 DEF EscrowsOf, PaidBy
<1>7. R' = IF status = "Released" /\ escrows[id].token = t /\ escrows[id].payer = a
           THEN R \cup {id} ELSE R
  BY <1>2, <1>3 DEF EscrowsOf, PaidBy
<1>8. E' = IF status = "Released" /\ escrows[id].token = t /\ escrows[id].payee = a
           THEN E \cup {id} ELSE E
  BY <1>2, <1>3 DEF EscrowsOf, EarnedBy
<1>9. /\ Total(AmountOf, L) \in Nat /\ Total(AmountOf, P) \in Nat
      /\ Total(AmountOf, R) \in Nat /\ Total(AmountOf, E) \in Nat
  <2>1. ASSUME NEW S \in SUBSET Ids
        PROVE  Total(AmountOf, S) \in Nat
    <3>1. IsFiniteSet(Units(AmountOf, S))
      BY UnitsOfPart DEF FiniteUnits
    <3> QED BY <3>1, TotalType
  <2> HIDE DEF L, P, R, E
  <2> QED BY <1>4, <2>1
<1> HIDE DEF L, P, R, E
<1>14. escrows[id].amount \in Nat
  BY DEF EscrowRecord
<1>10. Total(AmountOf', L') = Total(AmountOf, L)
         - (IF escrows[id].token = t THEN escrows[id].amount ELSE 0)
  <2>1. id \in L => Total(AmountOf', L \ {id}) = Total(AmountOf, L) - escrows[id].amount
    BY <1>1, <1>4
  <2>2. id \notin L => L \ {id} = L /\ Total(AmountOf', L) = Total(AmountOf, L)
    BY <1>1, <1>4
  <2>3. CASE escrows[id].token = t
    <3>1. Total(AmountOf', L') = Total(AmountOf, L) - escrows[id].amount
      BY <1>4, <1>5, <2>1, <2>3, Zenon
    <3> QED BY <2>3, <3>1
  <2>4. CASE escrows[id].token # t
    <3>1. Total(AmountOf', L') = Total(AmountOf, L)
      BY <1>4, <1>5, <2>2, <2>4, Zenon
    <3> QED BY <1>9, <2>4, <3>1
  <2> QED BY <2>3, <2>4
<1>11. Total(AmountOf', P') = Total(AmountOf, P)
         - (IF escrows[id].token = t /\ escrows[id].payer = a THEN escrows[id].amount ELSE 0)
  <2>1. id \in P => Total(AmountOf', P \ {id}) = Total(AmountOf, P) - escrows[id].amount
    BY <1>1, <1>4
  <2>2. id \notin P => P \ {id} = P /\ Total(AmountOf', P) = Total(AmountOf, P)
    BY <1>1, <1>4
  <2>3. CASE id \in P
    <3>1. Total(AmountOf', P') = Total(AmountOf, P) - escrows[id].amount
      BY <1>6, <2>1, <2>3, Zenon
    <3> QED BY <1>4, <2>3, <3>1
  <2>4. CASE id \notin P
    <3>1. Total(AmountOf', P') = Total(AmountOf, P)
      BY <1>6, <2>2, <2>4, Zenon
    <3> QED BY <1>4, <1>9, <2>4, <3>1
  <2> QED BY <2>3, <2>4
<1>12. Total(AmountOf', R') = Total(AmountOf, R)
         + (IF status = "Released" /\ escrows[id].token = t /\ escrows[id].payer = a
            THEN escrows[id].amount ELSE 0)
  <2>1. /\ Total(AmountOf', R \cup {id}) = Total(AmountOf, R) + escrows[id].amount
        /\ Total(AmountOf', R) = Total(AmountOf, R)
    BY <1>1, <1>4
  <2>2. CASE R' = R
    <3>1. Total(AmountOf', R') = Total(AmountOf, R)
      BY <2>1, <2>2, Zenon
    <3>2. ~(status = "Released" /\ escrows[id].token = t /\ escrows[id].payer = a)
      BY <1>4, <1>7, <2>2
    <3> QED BY <1>9, <3>1, <3>2
  <2>3. CASE R' # R
    <3>1. status = "Released" /\ escrows[id].token = t /\ escrows[id].payer = a
      BY <1>7, <2>3
    <3>2. Total(AmountOf', R') = Total(AmountOf, R) + escrows[id].amount
      BY <1>7, <2>1, <3>1, Zenon
    <3> QED BY <3>1, <3>2
  <2> QED BY <2>2, <2>3
<1>13. Total(AmountOf', E') = Total(AmountOf, E)
         + (IF status = "Released" /\ escrows[id].token = t /\ escrows[id].payee = a
            THEN escrows[id].amount ELSE 0)
  <2>1. /\ Total(AmountOf', E \cup {id}) = Total(AmountOf, E) + escrows[id].amount
        /\ Total(AmountOf', E) = Total(AmountOf, E)
    BY <1>1, <1>4
  <2>2. CASE E' = E
    <3>1. Total(AmountOf', E') = Total(AmountOf, E)
      BY <2>1, <2>2, Zenon
    <3>2. ~(status = "Released" /\ escrows[id].token = t /\ escrows[id].payee = a)
      BY <1>4, <1>8, <2>2
    <3> QED BY <1>9, <3>1, <3>2
  <2>3. CASE E' # E
    <3>1. status = "Released" /\ escrows[id].token = t /\ escrows[id].payee = a
      BY <1>8, <2>3
    <3>2. Total(AmountOf', E') = Total(AmountOf, E) + escrows[id].amount
      BY <1>8, <2>1, <3>1, Zenon
    <3> QED BY <3>1, <3>2
  <2> QED BY <2>2, <2>3
<1> QED BY <1>10, <1>11, <1>12, <1>13, Zenon DEF L, P, R, E

(* The books: every sum is finite, and what the contract and each account  *)
(* hold is what the entries say.                                           *)
Books == FiniteUnits /\ ContractBalance /\ AccountsBalance

(* The sums over escrows and donations are natural numbers. *)
LEMMA SumTypes ==
  ASSUME FiniteUnits, NEW t \in Tokens, NEW a \in Accounts
  PROVE  /\ Total(AmountOf, EscrowsOf(t, "Locked")) \in Nat
         /\ Total(AmountOf, PaidBy(t, a, "Locked")) \in Nat
         /\ Total(AmountOf, PaidBy(t, a, "Released")) \in Nat
         /\ Total(AmountOf, EarnedBy(t, a)) \in Nat
         /\ Total(donated[t], Accounts) \in Nat
<1>1. ASSUME NEW S \in SUBSET Ids
      PROVE  Total(AmountOf, S) \in Nat
  <2>1. IsFiniteSet(Units(AmountOf, S))
    BY UnitsOfPart DEF FiniteUnits
  <2> QED BY <2>1, TotalType
<1>2. /\ EscrowsOf(t, "Locked") \in SUBSET Ids /\ PaidBy(t, a, "Locked") \in SUBSET Ids
      /\ PaidBy(t, a, "Released") \in SUBSET Ids /\ EarnedBy(t, a) \in SUBSET Ids
  BY DEF EscrowsOf, PaidBy, EarnedBy
<1>3. Total(donated[t], Accounts) \in Nat
  BY TotalType DEF FiniteUnits
<1> QED BY <1>1, <1>2, <1>3

(* Nothing is owed at first. *)
LEMMA BooksAtFirst == Init => Books
<1> SUFFICES ASSUME Init PROVE Books
  OBVIOUS
<1>1. ASSUME NEW f, NEW S, \A x \in S : f[x] = 0
      PROVE  IsFiniteSet(Units(f, S)) /\ Total(f, S) = 0
  <2>1. Units(f, S) = {}
    BY <1>1 DEF Units
  <2> QED BY <2>1, FS_EmptySet DEF Total
<1>2. \A i \in Ids : AmountOf[i] = 0
  BY DEF Init, AmountOf
<1>3. \A t \in Tokens : \A a \in Accounts : donated[t][a] = 0
  BY DEF Init
<1>4. IsFiniteSet(Units(AmountOf, Ids))
  BY <1>1, <1>2
<1>5. ASSUME NEW t \in Tokens
      PROVE  IsFiniteSet(Units(donated[t], Accounts)) /\ Total(donated[t], Accounts) = 0
  BY <1>1, <1>3
<1>6. ASSUME NEW S \in SUBSET Ids
      PROVE  Total(AmountOf, S) = 0
  BY <1>1, <1>2
<1>7. ASSUME NEW t \in Tokens
      PROVE  /\ Total(AmountOf, EscrowsOf(t, "Locked")) = 0
             /\ \A a \in Accounts : /\ Total(AmountOf, EarnedBy(t, a)) = 0
                                    /\ Total(AmountOf, PaidBy(t, a, "Locked")) = 0
                                    /\ Total(AmountOf, PaidBy(t, a, "Released")) = 0
  <2>1. \A a \in Accounts, s \in {"Locked", "Released"} :
          /\ EscrowsOf(t, s) \in SUBSET Ids
          /\ PaidBy(t, a, s) \in SUBSET Ids
          /\ EarnedBy(t, a) \in SUBSET Ids
    BY DEF EscrowsOf, PaidBy, EarnedBy
  <2>2. EscrowsOf(t, "Locked") \in SUBSET Ids
    BY DEF EscrowsOf
  <2> QED BY <1>6, <2>1, <2>2
<1>8. \A t \in Tokens : /\ balance[t][Contract] = 0
                        /\ \A a \in Accounts : balance[t][a] = Minted
  BY AccountsAssumption DEF Init, Addresses
<1>9. FiniteUnits
  BY <1>4, <1>5 DEF FiniteUnits
<1>10. ContractBalance
  BY <1>5, <1>7, <1>8 DEF ContractBalance
<1>11. AccountsBalance
  BY <1>3, <1>7, <1>8, WidthAssumption DEF AccountsBalance
<1> QED BY <1>9, <1>10, <1>11 DEF Books

(* What moves no token and changes no entry leaves the books as they are. *)
LEMMA BooksUntouched ==
  ASSUME Books, UNCHANGED <<escrows, balance, donated>>
  PROVE  Books'
BY DEF Books, FiniteUnits, ContractBalance, AccountsBalance, AmountOf, EscrowsOf,
       PaidBy, EarnedBy

(* A deposit moves its amount from the payer to the contract. *)
LEMMA BooksAfterDeposit ==
  ASSUME TypeOK, IdsInOrder, Books,
         NEW payer \in Accounts, NEW payee \in Addresses, NEW t \in Tokens,
         NEW amount \in Amounts, NEW timeout \in Timeouts,
         Deposit(payer, payee, t, amount, timeout)
  PROVE  Books'
<1> USE WidthAssumption, InputAssumption
<1>1. nextId \in Ids /\ escrows[nextId] = None
  BY DEF TypeOK, Deposit, AdvanceNextId, Ids, IdsInOrder
<1>2. /\ payee \in Accounts /\ amount \in Nat \ {0}
      /\ ledger + timeout \in 0 .. MaxU32
  BY DEF Deposit, ValidParties, Addresses, DeadlineFits, TypeOK
<1>3. /\ escrows'[nextId] =
           [payer |-> payer, payee |-> payee, token |-> t, amount |-> amount,
            status |-> "Locked", timeout_ledger |-> ledger + timeout]
      /\ \A i \in Ids \ {nextId} : escrows'[i] = escrows[i]
  BY <1>1 DEF Deposit, TypeOK
<1>4. escrows'[nextId] \in EscrowRecord /\ escrows'[nextId].status = "Locked"
  BY <1>2, <1>3 DEF EscrowRecord
<1>5. donated' = donated
  BY DEF Deposit
<1>6. payer \in Addresses /\ Contract \in Addresses /\ payer # Contract
  BY AccountsAssumption DEF Addresses
<1>7. /\ balance'[t][payer] = balance[t][payer] - amount
      /\ balance'[t][Contract] = balance[t][Contract] + amount
      /\ \A u \in Tokens, a \in Addresses :
           u # t \/ a \notin {payer, Contract} => balance'[u][a] = balance[u][a]
  BY <1>2, <1>6, TransferMoves DEF Deposit
<1>8. FiniteUnits'
  <2>1. IsFiniteSet(Units(AmountOf, Ids))'
    BY <1>1, <1>3, <1>4, FreshEntry DEF Books, FiniteUnits
  <2> QED BY <1>5, <2>1 DEF Books, FiniteUnits
<1>9. ASSUME NEW u \in Tokens, NEW a \in Accounts
      PROVE  /\ Total(AmountOf, EscrowsOf(u, "Locked"))' = Total(AmountOf, EscrowsOf(u, "Locked"))
                  + (IF t = u THEN amount ELSE 0)
             /\ Total(AmountOf, PaidBy(u, a, "Locked"))' = Total(AmountOf, PaidBy(u, a, "Locked"))
                  + (IF t = u /\ payer = a THEN amount ELSE 0)
             /\ Total(AmountOf, PaidBy(u, a, "Released"))' = Total(AmountOf, PaidBy(u, a, "Released"))
             /\ Total(AmountOf, EarnedBy(u, a))' = Total(AmountOf, EarnedBy(u, a))
  BY <1>1, <1>3, <1>4, DepositSums DEF Books
<1>10. ContractBalance'
  <2> SUFFICES ASSUME NEW u \in Tokens
               PROVE  balance'[u][Contract] =
                        Total(AmountOf, EscrowsOf(u, "Locked"))' + Total(donated'[u], Accounts)
    BY DEF ContractBalance
  <2>1. balance[u][Contract] =
          Total(AmountOf, EscrowsOf(u, "Locked")) + Total(donated[u], Accounts)
    BY DEF Books, ContractBalance
  <2>2. Total(donated'[u], Accounts) = Total(donated[u], Accounts)
    BY <1>5
  <2>3. Total(AmountOf, EscrowsOf(u, "Locked"))' = Total(AmountOf, EscrowsOf(u, "Locked"))
          + (IF t = u THEN amount ELSE 0)
    BY <1>9
  <2>4. Total(AmountOf, EscrowsOf(u, "Locked")) \in Nat /\ Total(donated[u], Accounts) \in Nat
    BY SumTypes DEF Books
  <2>5. balance'[u][Contract] = balance[u][Contract] + (IF t = u THEN amount ELSE 0)
    BY <1>2, <1>6, <1>7 DEF TypeOK
  <2> QED BY <1>2, <2>1, <2>2, <2>3, <2>4, <2>5
<1>11. AccountsBalance'
  <2> SUFFICES ASSUME NEW u \in Tokens, NEW a \in Accounts
               PROVE  balance'[u][a] = Minted - donated'[u][a] + Total(AmountOf, EarnedBy(u, a))'
                        - Total(AmountOf, PaidBy(u, a, "Locked"))'
                        - Total(AmountOf, PaidBy(u, a, "Released"))'
    BY DEF AccountsBalance
  <2>1. balance[u][a] = Minted - donated[u][a] + Total(AmountOf, EarnedBy(u, a))
                        - Total(AmountOf, PaidBy(u, a, "Locked"))
                        - Total(AmountOf, PaidBy(u, a, "Released"))
    BY DEF Books, AccountsBalance
  <2>2. /\ Total(AmountOf, PaidBy(u, a, "Locked")) \in Nat
        /\ Total(AmountOf, PaidBy(u, a, "Released")) \in Nat
        /\ Total(AmountOf, EarnedBy(u, a)) \in Nat
        /\ donated[u][a] \in Nat
    BY SumTypes DEF Books, TypeOK
  <2>3. a \in Addresses /\ a # Contract
    BY AccountsAssumption DEF Addresses
  <2>4. balance'[u][a] = balance[u][a] - (IF t = u /\ payer = a THEN amount ELSE 0)
    BY <1>2, <1>7, <2>3 DEF TypeOK
  <2>5. /\ Total(AmountOf, PaidBy(u, a, "Locked"))' = Total(AmountOf, PaidBy(u, a, "Locked"))
             + (IF t = u /\ payer = a THEN amount ELSE 0)
        /\ Total(AmountOf, PaidBy(u, a, "Released"))' = Total(AmountOf, PaidBy(u, a, "Released"))
        /\ Total(AmountOf, EarnedBy(u, a))' = Total(AmountOf, EarnedBy(u, a))
    BY <1>9
  <2> QED BY <1>2, <1>5, <2>1, <2>2, <2>4, <2>5
<1> QED BY <1>8, <1>10, <1>11 DEF Books

(* A release moves the amount on to the payee, a refund back to the payer. *)
LEMMA BooksAfterClose ==
  ASSUME TypeOK, Books, NEW id \in Ids, RequireLocked(id),
         NEW status \in {"Released", "Refunded"},
         Finalise(id, status, IF status = "Released" THEN escrows[id].payee
                                                     ELSE escrows[id].payer)
  PROVE  Books'
<1> DEFINE e == escrows[id]
           to == IF status = "Released" THEN e.payee ELSE e.payer
<1>1. /\ e \in EscrowRecord /\ e.status = "Locked"
      /\ e.amount \in Nat /\ e.token \in Tokens /\ e.payer \in Accounts /\ e.payee \in Accounts
  BY LockedIsRecord DEF EscrowRecord, RequireLocked
<1>2. /\ Turned(id, status)
      /\ donated' = donated
      /\ Transfer(e.token, Contract, to, e.amount)
  BY DEF Finalise, TokenClient, Turned
<1>3. to \in Accounts /\ to \in Addresses /\ Contract \in Addresses /\ to # Contract
  BY <1>1, AccountsAssumption DEF Addresses
<1>4. /\ balance'[e.token][Contract] = balance[e.token][Contract] - e.amount
      /\ balance'[e.token][to] = balance[e.token][to] + e.amount
      /\ \A u \in Tokens, a \in Addresses :
           u # e.token \/ a \notin {Contract, to} => balance'[u][a] = balance[u][a]
  <2> HIDE DEF e, to
  <2> QED BY <1>1, <1>2, <1>3, TransferMoves
<1>5. FiniteUnits'
  <2>1. IsFiniteSet(Units(AmountOf, Ids))'
    BY <1>1, <1>2, MovedEntry DEF Books, FiniteUnits
  <2> QED BY <1>2, <2>1 DEF Books, FiniteUnits
<1>6. ASSUME NEW u \in Tokens, NEW a \in Accounts
      PROVE  /\ Total(AmountOf, EscrowsOf(u, "Locked"))' = Total(AmountOf, EscrowsOf(u, "Locked"))
                  - (IF e.token = u THEN e.amount ELSE 0)
             /\ Total(AmountOf, PaidBy(u, a, "Locked"))' = Total(AmountOf, PaidBy(u, a, "Locked"))
                  - (IF e.token = u /\ e.payer = a THEN e.amount ELSE 0)
             /\ Total(AmountOf, PaidBy(u, a, "Released"))' = Total(AmountOf, PaidBy(u, a, "Released"))
                  + (IF status = "Released" /\ e.token = u /\ e.payer = a THEN e.amount ELSE 0)
             /\ Total(AmountOf, EarnedBy(u, a))' = Total(AmountOf, EarnedBy(u, a))
                  + (IF status = "Released" /\ e.token = u /\ e.payee = a THEN e.amount ELSE 0)
  <2>1. FiniteUnits /\ escrows[id] \in EscrowRecord /\ escrows[id].status = "Locked"
    BY <1>1 DEF Books
  <2> QED BY <1>2, <2>1, CloseSums
<1>7. ContractBalance'
  <2> SUFFICES ASSUME NEW u \in Tokens
               PROVE  balance'[u][Contract] =
                        Total(AmountOf, EscrowsOf(u, "Locked"))' + Total(donated'[u], Accounts)
    BY DEF ContractBalance
  <2>1. balance[u][Contract] =
          Total(AmountOf, EscrowsOf(u, "Locked")) + Total(donated[u], Accounts)
    BY DEF Books, ContractBalance
  <2>2. Total(donated'[u], Accounts) = Total(donated[u], Accounts)
    BY <1>2
  <2>3. Total(AmountOf, EscrowsOf(u, "Locked"))' = Total(AmountOf, EscrowsOf(u, "Locked"))
          - (IF e.token = u THEN e.amount ELSE 0)
    BY <1>1, <1>6
  <2>4. Total(AmountOf, EscrowsOf(u, "Locked")) \in Nat /\ Total(donated[u], Accounts) \in Nat
    BY <1>1, SumTypes DEF Books
  <2>5. balance'[u][Contract] = balance[u][Contract] - (IF e.token = u THEN e.amount ELSE 0)
    BY <1>1, <1>3, <1>4 DEF TypeOK
  <2> HIDE DEF e
  <2> QED BY <1>1, <2>1, <2>2, <2>3, <2>4, <2>5
<1>8. AccountsBalance'
  <2> SUFFICES ASSUME NEW u \in Tokens, NEW a \in Accounts
               PROVE  balance'[u][a] = Minted - donated'[u][a] + Total(AmountOf, EarnedBy(u, a))'
                        - Total(AmountOf, PaidBy(u, a, "Locked"))'
                        - Total(AmountOf, PaidBy(u, a, "Released"))'
    BY DEF AccountsBalance
  <2>1. balance[u][a] = Minted - donated[u][a] + Total(AmountOf, EarnedBy(u, a))
                        - Total(AmountOf, PaidBy(u, a, "Locked"))
                        - Total(AmountOf, PaidBy(u, a, "Released"))
    BY DEF Books, AccountsBalance
  <2>2. /\ Total(AmountOf, PaidBy(u, a, "Locked")) \in Nat
        /\ Total(AmountOf, PaidBy(u, a, "Released")) \in Nat
        /\ Total(AmountOf, EarnedBy(u, a)) \in Nat
        /\ donated[u][a] \in Nat
    BY SumTypes DEF Books, TypeOK
  <2>3. a \in Addresses /\ a # Contract
    BY AccountsAssumption DEF Addresses
  <2>4. balance'[u][a] = balance[u][a] + (IF e.token = u /\ to = a THEN e.amount ELSE 0)
    BY <1>1, <1>3, <1>4, <2>3 DEF TypeOK
  <2>5. to = a <=> IF status = "Released" THEN e.payee = a ELSE e.payer = a
    OBVIOUS
  <2> HIDE DEF e, to
  <2> QED BY <1>1, <1>2, <1>6, <2>1, <2>2, <2>4, <2>5, WidthAssumption
<1> QED BY <1>5, <1>7, <1>8 DEF Books

(* A donation moves its amount from its sender to the contract. *)
LEMMA BooksAfterDonate ==
  ASSUME TypeOK, Books, NEW d \in Accounts, NEW t \in Tokens, NEW amount \in Amounts,
         Donate(d, t, amount)
  PROVE  Books'
<1> USE WidthAssumption, InputAssumption
<1>1. amount \in Nat /\ escrows' = escrows /\ Transfer(t, d, Contract, amount)
  BY DEF Donate
<1>2. d \in Addresses /\ Contract \in Addresses /\ d # Contract
  BY AccountsAssumption DEF Addresses
<1>3. /\ balance'[t][d] = balance[t][d] - amount
      /\ balance'[t][Contract] = balance[t][Contract] + amount
      /\ \A u \in Tokens, a \in Addresses :
           u # t \/ a \notin {d, Contract} => balance'[u][a] = balance[u][a]
  BY <1>1, <1>2, TransferMoves
<1>4. ASSUME NEW u \in Tokens, NEW a \in Accounts
      PROVE  donated'[u][a] = donated[u][a] + (IF u = t /\ a = d THEN amount ELSE 0)
  BY <1>1 DEF Donate, TypeOK
<1>5. ASSUME NEW u \in Tokens
      PROVE  /\ IsFiniteSet(Units(donated'[u], Accounts))
             /\ Total(donated'[u], Accounts) = Total(donated[u], Accounts)
                  + (IF u = t THEN amount ELSE 0)
  <2>1. IsFiniteSet(Units(donated[u], Accounts)) /\ Total(donated[u], Accounts) \in Nat
    BY TotalType DEF Books, FiniteUnits
  <2>2. CASE u = t
    <3> DEFINE f == donated[u]  g == donated'[u]
    <3>1. /\ f[d] \in Nat /\ g[d] = f[d] + amount
          /\ \A a \in Accounts \ {d} : g[a] = f[a]
      BY <1>4, <2>2 DEF TypeOK
    <3>2. IsFiniteSet(Units(f, Accounts))
      BY <2>1
    <3> HIDE DEF f, g
    <3>3. IsFiniteSet(Units(g, Accounts)) /\ Total(g, Accounts) = Total(f, Accounts) + amount
      BY <1>1, <3>1, <3>2, TotalRaised
    <3> QED BY <2>2, <3>3 DEF f, g
  <2>3. CASE u # t
    <3>1. donated'[u] = donated[u]
      BY <2>3 DEF Donate, TypeOK
    <3> QED BY <2>1, <2>3, <3>1
  <2> QED BY <2>2, <2>3
<1>6. UNCHANGED AmountOf
  BY <1>1 DEF AmountOf
<1>7. ASSUME NEW u \in Tokens, NEW a \in Accounts
      PROVE  UNCHANGED <<EscrowsOf(u, "Locked"), PaidBy(u, a, "Locked"),
                         PaidBy(u, a, "Released"), EarnedBy(u, a)>>
  BY <1>1 DEF EscrowsOf, PaidBy, EarnedBy
<1>8. FiniteUnits'
  BY <1>5, <1>6 DEF Books, FiniteUnits
<1>9. ContractBalance'
  <2> SUFFICES ASSUME NEW u \in Tokens
               PROVE  balance'[u][Contract] =
                        Total(AmountOf', EscrowsOf(u, "Locked")') + Total(donated'[u], Accounts)
    BY DEF ContractBalance
  <2>1. balance[u][Contract] =
          Total(AmountOf, EscrowsOf(u, "Locked")) + Total(donated[u], Accounts)
    BY DEF Books, ContractBalance
  <2>2. Total(AmountOf', EscrowsOf(u, "Locked")') = Total(AmountOf, EscrowsOf(u, "Locked"))
    BY <1>6, <1>7
  <2>3. Total(AmountOf, EscrowsOf(u, "Locked")) \in Nat /\ Total(donated[u], Accounts) \in Nat
    BY AccountsAssumption, SumTypes DEF Books
  <2>4. balance'[u][Contract] = balance[u][Contract] + (IF u = t THEN amount ELSE 0)
    BY <1>1, <1>2, <1>3 DEF TypeOK
  <2> QED BY <1>1, <1>5, <2>1, <2>2, <2>3, <2>4
<1>10. AccountsBalance'
  <2> SUFFICES ASSUME NEW u \in Tokens, NEW a \in Accounts
               PROVE  balance'[u][a] = Minted - donated'[u][a] + Total(AmountOf', EarnedBy(u, a)')
                        - Total(AmountOf', PaidBy(u, a, "Locked")')
                        - Total(AmountOf', PaidBy(u, a, "Released")')
    BY DEF AccountsBalance
  <2>1. balance[u][a] = Minted - donated[u][a] + Total(AmountOf, EarnedBy(u, a))
                        - Total(AmountOf, PaidBy(u, a, "Locked"))
                        - Total(AmountOf, PaidBy(u, a, "Released"))
    BY DEF Books, AccountsBalance
  <2>2. /\ Total(AmountOf, PaidBy(u, a, "Locked")) \in Nat
        /\ Total(AmountOf, PaidBy(u, a, "Released")) \in Nat
        /\ Total(AmountOf, EarnedBy(u, a)) \in Nat
        /\ donated[u][a] \in Nat
    BY SumTypes DEF Books, TypeOK
  <2>3. /\ Total(AmountOf', PaidBy(u, a, "Locked")') = Total(AmountOf, PaidBy(u, a, "Locked"))
        /\ Total(AmountOf', PaidBy(u, a, "Released")') = Total(AmountOf, PaidBy(u, a, "Released"))
        /\ Total(AmountOf', EarnedBy(u, a)') = Total(AmountOf, EarnedBy(u, a))
    BY <1>6, <1>7
  <2>4. a \in Addresses /\ a # Contract
    BY AccountsAssumption DEF Addresses
  <2>5. balance'[u][a] = balance[u][a] - (IF u = t /\ a = d THEN amount ELSE 0)
    BY <1>1, <1>3, <2>4 DEF TypeOK
  <2> QED BY <1>1, <1>4, <2>1, <2>2, <2>3, <2>5
<1> QED BY <1>8, <1>9, <1>10 DEF Books

(* Every step keeps the books. *)
LEMMA BooksKept == TypeOK /\ IdsInOrder /\ Books /\ [Next]_vars => Books'
<1> SUFFICES ASSUME TypeOK, IdsInOrder, Books, [Next]_vars PROVE Books'
  OBVIOUS
<1>1. CASE CloseLedger
  BY <1>1, BooksUntouched DEF CloseLedger
<1>2. CASE UNCHANGED vars
  BY <1>2, BooksUntouched DEF vars
<1>3. CASE \E payer \in Accounts, payee \in Addresses, t \in Tokens,
              amount \in Amounts, timeout \in Timeouts :
             Deposit(payer, payee, t, amount, timeout)
  BY <1>3, BooksAfterDeposit
<1>4. CASE \E id \in Ids : Release(id) \/ Refund(id)
  BY <1>4, BooksAfterClose DEF Release, Refund
<1>5. CASE \E a \in Accounts, t \in Tokens : ChangeTrust(a, t)
  BY <1>5, BooksUntouched DEF ChangeTrust
<1>6. CASE \E a \in Accounts, t \in Tokens, amount \in Amounts : Donate(a, t, amount)
  BY <1>6, BooksAfterDonate
<1> QED BY <1>1, <1>2, <1>3, <1>4, <1>5, <1>6 DEF Next, Transaction

(* The books always balance. *)
LEMMA BooksTheorem == Spec => []Books
BY BooksAtFirst, BooksKept, TypeCorrect, IdsInOrderTheorem, PTL DEF Spec

(* The contract always holds exactly the sum of its locked escrows and the *)
(* donations made to it, of every token, whatever is deposited, released   *)
(* and refunded: none of its holdings is ever missing or unaccounted for.  *)
THEOREM ContractBalanceTheorem == Spec => []ContractBalance
<1>1. Books => ContractBalance
  BY DEF Books
<1> QED BY <1>1, BooksTheorem, PTL

(* Every account always holds what it was minted, less its donations and   *)
(* its locked or released deposits, plus what was released to it.          *)
THEOREM AccountsBalanceTheorem == Spec => []AccountsBalance
<1>1. Books => AccountsBalance
  BY DEF Books
<1> QED BY <1>1, BooksTheorem, PTL
=============================================================================
