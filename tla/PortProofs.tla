----------------------------- MODULE PortProofs -----------------------------
(***************************************************************************)
(* Proofs about Port, for any number of refreshes, calls and escrows and   *)
(* any limits: the breaker is closed exactly below its limit, a closed     *)
(* escrow was deposited and carries the hash of its closing, and it stays  *)
(* closed once nobody holds it as PENDING.  The two components share no    *)
(* variable, so each part is preserved by the other one's steps unread.    *)
(***************************************************************************)
EXTENDS Port, TLAPS

(* The hash a row was closed with is there from the moment it is closed,   *)
(* and a row is deposited as soon as it is no longer PENDING.              *)
RowHolds ==
  \A k \in Keys : escrows[k] # None =>
    /\ escrows[k].status # "PENDING" => escrows[k].deposited
    /\ escrows[k].status \in {"RELEASED", "REFUNDED"} => escrows[k].final = escrows[k].status

(* What a call goes on with has a row; what it closes was deposited.       *)
CallHolds(c) ==
  calls[c] \notin {None, Over} =>
    /\ calls[c].pc # "insert" => escrows[calls[c].key] # None
    /\ calls[c].pc \in {"release", "refund"} => escrows[calls[c].key].deposited

EscrowInv == E!TypeOK /\ RowHolds /\ (\A c \in Calls : CallHolds(c))
AnchorInv == A!TypeOK /\ A!ClosedBelowLimit
Inv == AnchorInv /\ EscrowInv

-----------------------------------------------------------------------------
(* The breaker, step by step of its refreshes.                             *)
LEMMA AnchorStep ==
  ASSUME AnchorInv, A!Next
  PROVE  AnchorInv'
<1> USE LimitsAssumption DEF AnchorInv, A!TypeOK, A!ClosedBelowLimit, A!Breaker, A!Refresh
<1>1. ASSUME NEW c \in Refreshes, A!Admit(c) PROVE AnchorInv'
  BY <1>1 DEF A!Admit, A!Start
<1>2. ASSUME NEW c \in Refreshes, A!Probe(c) PROVE AnchorInv'
  BY <1>2 DEF A!Probe, A!Start
<1>3. ASSUME NEW c \in Refreshes, A!Refuse(c) PROVE AnchorInv'
  BY <1>3 DEF A!Refuse, A!anchorVars
<1>4. ASSUME NEW c \in Refreshes, A!Answer(c) PROVE AnchorInv'
  <2>1. breaker' \in A!Breaker /\ breaker'.state = "CLOSED" /\ breaker'.failures < MaxFailures
    <3>1. breaker' = [state |-> "CLOSED", failures |-> 0, cooling |-> breaker.cooling]
      BY <1>4 DEF A!Answer
    <3>2. 0 \in 0..MaxFailures /\ 0 < MaxFailures
      OBVIOUS
    <3> QED BY <3>1, <3>2
  <2>2. refreshes' \in [Refreshes -> A!Refresh \cup {None}]
    BY <1>4 DEF A!Answer
  <2> QED BY <1>4, <2>1, <2>2 DEF A!Answer
<1>5. ASSUME NEW c \in Refreshes, A!Commit(c) PROVE AnchorInv'
  BY <1>5 DEF A!Commit
<1>6. ASSUME NEW c \in Refreshes, A!Fail(c) PROVE AnchorInv'
  <2>1. refreshes' \in [Refreshes -> A!Refresh \cup {None}]
    BY <1>6 DEF A!Fail
  <2>2. breaker' \in A!Breaker /\ ((breaker'.state = "CLOSED") <=> (breaker'.failures < MaxFailures))
    BY <1>6 DEF A!Fail, A!Counted
  <2> QED BY <1>6, <2>1, <2>2 DEF A!Fail
<1>7. CASE A!Cooled
  BY <1>7 DEF A!Cooled
<1>8. CASE A!Outage
  BY <1>8 DEF A!Outage
<1> QED BY <1>1, <1>2, <1>3, <1>4, <1>5, <1>6, <1>7, <1>8 DEF A!Next

(* A call that returns leaves a row that keeps to RowHolds, and is not     *)
(* less deposited than the one it replaces.                                *)
LEMMA Returned ==
  ASSUME EscrowInv, NEW c \in Calls, NEW k \in Keys, NEW row \in E!Row, escrows[k] # None,
         escrows' = [escrows EXCEPT ![k] = row], E!Return(c), row.deposited,
         row.status \in {"RELEASED", "REFUNDED"} => row.final = row.status
  PROVE  EscrowInv'
<1> USE DEF EscrowInv, E!TypeOK
<1>1. E!TypeOK'
  BY DEF E!Return
<1>2. RowHolds'
  BY DEF RowHolds
<1>3. ASSUME NEW d \in Calls PROVE CallHolds(d)'
  BY NamesAssumption DEF CallHolds, E!Return, E!Call
<1> QED BY <1>1, <1>2, <1>3

(* The escrows, step by step of their calls.                               *)
LEMMA EscrowStep ==
  ASSUME EscrowInv, E!Next
  PROVE  EscrowInv'
<1> USE DEF EscrowInv, E!TypeOK, RowHolds, CallHolds, E!Row, E!Call, E!Status
<1>1. ASSUME NEW c \in Calls, NEW k \in Keys, E!LookUp(c, k) PROVE EscrowInv'
  BY <1>1 DEF E!LookUp, E!Begin
<1>2. ASSUME NEW c \in Calls, NEW k \in Keys, NEW pc \in {"release", "refund", "reconcile"}, E!Read(c, pc, k)
      PROVE EscrowInv'
  BY <1>2 DEF E!Read, E!Begin
<1>3. ASSUME NEW c \in Calls, E!Insert(c) PROVE EscrowInv'
  <2>1. CASE escrows[calls[c].key] = None
    <3>1. E!TypeOK'
      <4>1. E!New \in E!Row
        BY DEF E!New
      <4>2. escrows' = [escrows EXCEPT ![calls[c].key] = E!New] /\ calls' = [calls EXCEPT ![c].pc = "refresh"]
        BY <1>3, <2>1 DEF E!Insert
      <4>3. calls[c] \in E!Call
        BY <1>3 DEF E!Insert, E!At
      <4> QED BY <4>1, <4>2, <4>3
    <3>2. RowHolds'
      BY <1>3, <2>1 DEF E!Insert, E!At, E!New
    <3>3. ASSUME NEW d \in Calls PROVE CallHolds(d)'
      <4>1. E!New \in E!Row /\ E!New # None
        <5>1. E!New \in E!Row
          BY DEF E!New
        <5> HIDE DEF E!Row
        <5> QED BY <5>1, NamesAssumption
      <4>2. calls[c] \in E!Call /\ calls[c].key \in Keys
        BY <1>3 DEF E!Insert, E!At
      <4>3. escrows'[calls[c].key] = E!New /\ (\A k \in Keys \ {calls[c].key} : escrows'[k] = escrows[k])
        BY <1>3, <2>1, <4>2 DEF E!Insert
      <4>4. CASE d = c
        <5>1. calls'[d] = [calls[c] EXCEPT !.pc = "refresh"]
          BY <1>3, <2>1, <4>4 DEF E!Insert
        <5> QED BY <4>1, <4>2, <4>3, <5>1
      <4>5. CASE d # c
        <5>1. calls'[d] = calls[d]
          BY <1>3, <2>1, <4>5 DEF E!Insert
        <5>2. CASE calls[d] \in {None, Over}
          BY <5>1, <5>2
        <5>3. CASE calls[d] \notin {None, Over}
          BY <2>1, <4>1, <4>3, <5>1, <5>3
        <5> QED BY <5>2, <5>3
      <4> QED BY <4>4, <4>5
    <3> QED BY <3>1, <3>2, <3>3
  <2>2. CASE escrows[calls[c].key] # None
    BY <1>3, <2>2 DEF E!Insert, E!Return
  <2> QED BY <2>1, <2>2
<1>4. ASSUME NEW c \in Calls, E!Refresh(c) PROVE EscrowInv'
  BY <1>4 DEF E!Refresh, E!At
<1>5. ASSUME NEW c \in Calls, E!Lock(c) PROVE EscrowInv'
  <2> DEFINE k == calls[c].key
             row == [escrows[k] EXCEPT
                       !.status = IF calls[c].read = "LOCKED" THEN escrows[k].status ELSE "LOCKED",
                       !.deposited = TRUE, !.onChain = TRUE]
  <2>1. k \in Keys /\ escrows[k] # None /\ escrows[k] \in E!Row
    BY <1>5 DEF E!Lock, E!At
  <2>2. row \in E!Row /\ row.deposited /\ (row.status \in {"RELEASED", "REFUNDED"} => row.final = row.status)
    BY <2>1
  <2>3. escrows' = [escrows EXCEPT ![k] = row] /\ E!Return(c)
    BY <1>5, <2>1 DEF E!Lock
  <2> HIDE DEF k, row
  <2> QED BY <2>1, <2>2, <2>3, Returned
<1>6. ASSUME NEW c \in Calls, NEW to \in {"RELEASED", "REFUNDED"}, E!At(c, "release") \/ E!At(c, "refund"),
             E!Close(calls[c].key, to), E!Return(c)
      PROVE EscrowInv'
  <2> DEFINE k == calls[c].key
             row == [escrows[k] EXCEPT !.status = to, !.final = to]
  <2>1. k \in Keys /\ escrows[k] # None /\ escrows[k] \in E!Row /\ escrows[k].deposited
    BY <1>6 DEF E!At
  <2>2. row \in E!Row /\ row.deposited /\ row.final = row.status
    BY <2>1
  <2>3. escrows' = [escrows EXCEPT ![k] = row]
    BY <1>6, <2>1 DEF E!Close
  <2> QED BY <1>6, <2>1, <2>2, <2>3, Returned
<1>7. ASSUME NEW c \in Calls, E!Release(c) \/ E!Refund(c) PROVE EscrowInv'
  BY <1>6, <1>7 DEF E!Release, E!Refund
<1>8. ASSUME NEW c \in Calls, E!Reconcile(c) PROVE EscrowInv'
  <2> DEFINE k == calls[c].key
             row == [escrows[k] EXCEPT !.status = "LOCKED", !.deposited = TRUE]
  <2>1. k \in Keys /\ escrows[k] # None /\ escrows[k] \in E!Row
    BY <1>8 DEF E!Reconcile, E!At
  <2>2. row \in E!Row /\ row.deposited /\ row.status = "LOCKED"
    BY <2>1
  <2>3. escrows' = [escrows EXCEPT ![k] = row] /\ E!Return(c)
    BY <1>8, <2>1 DEF E!Reconcile
  <2> QED BY <2>1, <2>2, <2>3, Returned
<1>9. ASSUME NEW c \in Calls, E!Abandon(c) PROVE EscrowInv'
  BY <1>9 DEF E!Abandon, E!Return
<1> QED BY <1>1, <1>2, <1>3, <1>4, <1>5, <1>6, <1>7, <1>8, <1>9 DEF E!Next

LEMMA RestartStep ==
  ASSUME Inv, Restart
  PROVE  Inv'
<1>1. AnchorInv'
  BY LimitsAssumption DEF Inv, AnchorInv, Restart, A!Restart, A!Closed, A!TypeOK, A!ClosedBelowLimit, A!Breaker
<1>2. EscrowInv'
  BY DEF Inv, EscrowInv, Restart, E!Restart, E!TypeOK, RowHolds, CallHolds
<1> QED BY <1>1, <1>2 DEF Inv

LEMMA InitHolds == Init => Inv
<1>1. A!Init => AnchorInv
  BY LimitsAssumption DEF A!Init, A!Closed, AnchorInv, A!TypeOK, A!ClosedBelowLimit, A!Breaker
<1>2. E!Init => EscrowInv
  BY DEF E!Init, EscrowInv, E!TypeOK, RowHolds, CallHolds
<1> QED BY <1>1, <1>2 DEF Init, Inv

LEMMA NextHolds ==
  ASSUME Inv, [Next]_vars
  PROVE  Inv'
<1> USE DEF Inv
<1>1. ASSUME UNCHANGED <<escrows, calls>> PROVE EscrowInv'
  BY <1>1 DEF EscrowInv, E!TypeOK, RowHolds, CallHolds
<1>2. ASSUME UNCHANGED <<breaker, refreshes, up>> PROVE AnchorInv'
  BY <1>2 DEF AnchorInv, A!TypeOK, A!ClosedBelowLimit
<1>3. CASE A!Next /\ UNCHANGED <<escrows, calls>>
  BY <1>1, <1>3, AnchorStep
<1>4. CASE E!Next /\ UNCHANGED <<breaker, refreshes, up>>
  BY <1>2, <1>4, EscrowStep
<1>5. CASE Restart
  BY <1>5, RestartStep
<1>6. CASE UNCHANGED vars
  BY <1>1, <1>2, <1>6 DEF vars
<1> QED BY <1>3, <1>4, <1>5, <1>6 DEF Next

LEMMA Invariance == Spec => []Inv
<1> QED BY InitHolds, NextHolds, PTL DEF Spec

-----------------------------------------------------------------------------
(* Breaker, refreshes, escrows and calls always have their types; the      *)
(* attempts of a refresh and the counted failures stay within their        *)
(* limits.                                                                 *)
THEOREM PortTypeCorrect == Spec => []TypeOK
<1>1. Inv => TypeOK
  BY DEF Inv, AnchorInv, EscrowInv, TypeOK
<1> QED BY <1>1, Invariance, PTL

(* The breaker is closed exactly while fewer than MaxFailures failures     *)
(* followed the last success, however many refreshes share it.             *)
THEOREM PortClosedBelowLimit == Spec => []ClosedBelowLimit
<1>1. Inv => ClosedBelowLimit
  BY DEF Inv, AnchorInv, ClosedBelowLimit
<1> QED BY <1>1, Invariance, PTL

(* A closed escrow was deposited and has the hash of its last closing.     *)
THEOREM PortClosedAsWritten == Spec => []ClosedAsWritten
<1>1. Inv => ClosedAsWritten
  BY DEF Inv, EscrowInv, RowHolds, ClosedAsWritten, E!ClosedAsWritten
<1> QED BY <1>1, Invariance, PTL

(* An escrow that is closed for good stays so in every step.               *)
LEMMA ClosedStep ==
  ASSUME Inv, [Next]_vars, NEW k \in Keys, E!ClosedForGood(k)
  PROVE  E!ClosedForGood(k)'
<1> USE DEF Inv, EscrowInv, E!TypeOK, E!ClosedForGood, CallHolds, E!Row, E!Call, E!Status
<1>1. ASSUME NEW c \in Calls, NEW l \in Keys, E!LookUp(c, l) PROVE E!ClosedForGood(k)'
  BY <1>1 DEF E!LookUp, E!Begin
<1>2. ASSUME NEW c \in Calls, NEW l \in Keys, NEW pc \in {"release", "refund", "reconcile"}, E!Read(c, pc, l)
      PROVE E!ClosedForGood(k)'
  BY <1>2 DEF E!Read, E!Begin
<1>3. ASSUME NEW c \in Calls, E!Insert(c) PROVE E!ClosedForGood(k)'
  BY <1>3 DEF E!Insert, E!At, E!New, E!Return
<1>4. ASSUME NEW c \in Calls, E!Refresh(c) PROVE E!ClosedForGood(k)'
  BY <1>4 DEF E!Refresh, E!At
<1>5. ASSUME NEW c \in Calls, E!Lock(c) PROVE E!ClosedForGood(k)'
  BY <1>5 DEF E!Lock, E!At, E!Return
<1>6. ASSUME NEW c \in Calls, NEW l \in Keys, NEW to \in {"RELEASED", "REFUNDED"},
             l = calls[c].key, E!Close(l, to), E!Return(c)
      PROVE E!ClosedForGood(k)'
  <2>1. escrows'[k] # None /\ escrows'[k].status \in {"RELEASED", "REFUNDED"}
    <3>1. CASE l # k
      BY <1>6, <3>1 DEF E!Close
    <3>2. CASE l = k
      <4>1. escrows'[k] = [escrows[k] EXCEPT !.status = to, !.final = to] /\ escrows[k] \in E!Row
        BY <1>6, <3>2 DEF E!Close
      <4> QED BY <4>1, NamesAssumption
    <3> QED BY <3>1, <3>2
  <2> QED BY <1>6, <2>1 DEF E!Return
<1>7. ASSUME NEW c \in Calls, E!Release(c) \/ E!Refund(c) PROVE E!ClosedForGood(k)'
  BY <1>6, <1>7 DEF E!Release, E!Refund, E!At
<1>8. ASSUME NEW c \in Calls, E!Reconcile(c) PROVE E!ClosedForGood(k)'
  BY <1>8 DEF E!Reconcile, E!At, E!Return
<1>9. ASSUME NEW c \in Calls, E!Abandon(c) PROVE E!ClosedForGood(k)'
  BY <1>9 DEF E!Abandon, E!Return
<1>10. CASE E!Next
  BY <1>1, <1>2, <1>3, <1>4, <1>5, <1>6, <1>7, <1>8, <1>9, <1>10 DEF E!Next
<1>11. CASE Restart
  BY <1>11 DEF Restart, E!Restart
<1>12. CASE UNCHANGED <<escrows, calls>>
  BY <1>12
<1> QED BY <1>10, <1>11, <1>12 DEF Next, vars

(* What release, refund and a late deposit or reconcile may do to a closed *)
(* escrow ends with the last call that holds it as PENDING.                *)
THEOREM PortStaysClosed == Spec => StaysClosed
<1>1. Inv /\ [Next]_vars => [\A k \in Keys : E!ClosedForGood(k) => E!ClosedForGood(k)']_vars
  BY ClosedStep
<1> QED BY <1>1, Invariance, PTL DEF Spec, StaysClosed
=============================================================================
