----------------------------- MODULE FeedProofs -----------------------------
(***************************************************************************)
(* Proofs about PaymentsScreen and the PaymentStream that feeds it, for    *)
(* any number of payments and of history requests.                         *)
(*                                                                         *)
(* What makes them work is that nobody writes SUCCESS before a payment of  *)
(* the row's terms is on the ledger, which keeps what it holds, and that a *)
(* subscription resumes just after its last event.                         *)
(***************************************************************************)
EXTENDS PaymentsScreen, TLAPS

(* A subscription that is not live has forgotten its cursor.               *)
Positioned ==
  /\ stream.at <= Len(payments) /\ last <= Len(payments)
  /\ sub # "live" => last = 0

(* Only what a payment of the row's terms has settled is written.          *)
ResolveHolds ==
  \A r \in resolving :
    /\ r.event <= Len(payments)
    /\ r.pc = "write" => payments[r.event] = "alike"

(* The row, and an update of it that has been pushed, say SUCCESS only     *)
(* after such a payment.                                                   *)
PaidFirst == row = "SUCCESS" \/ wire # 0 => Paid

StreamInv ==
  /\ StreamTypeOK
  /\ ClosedIsSilent /\ NoGap /\ Positioned
  /\ ResolveHolds /\ PaidFirst

ScreenInv ==
  /\ token \in BOOLEAN /\ available \in BOOLEAN /\ sending \in BOOLEAN
  /\ tab \in {"history", "other"}
  /\ conn \in {"none", "opening", "open", "ended", "failed"}
  /\ loads \in [{"sent"} \cup Statuses -> Nat] /\ InFlight <= MaxLoads
  /\ list \in Statuses
  /\ loads["SUCCESS"] > 0 => Paid
  /\ ShownSuccessIsPaid

-----------------------------------------------------------------------------
(* What is on the ledger stays there.                                      *)
LEMMA PaidStays ==
  ASSUME StreamInv, Land \/ UNCHANGED payments, Paid
  PROVE  Paid'
<1>1. payments \in Seq(Kinds)
  BY DEF StreamInv, StreamTypeOK
<1>2. CASE Land
  BY <1>1, <1>2 DEF Land, Paid, Kinds
<1>3. CASE UNCHANGED payments
  BY <1>3 DEF Paid
<1> QED BY <1>2, <1>3

LEMMA LandStep ==
  ASSUME StreamInv, Land
  PROVE  StreamInv'
<1> USE MaxPaymentsAssumption DEF StreamInv
<1>1. PICK kind \in Kinds : payments' = Append(payments, kind)
  BY DEF Land
<1>2. /\ payments \in Seq(Kinds)
      /\ Len(payments) < MaxPayments
      /\ UNCHANGED <<account, row, writers, sub, stream, last, resolving, wire>>
  BY DEF Land, subVars, StreamTypeOK
<1>3. /\ payments' \in Seq(Kinds) /\ Len(payments') = Len(payments) + 1
      /\ \A i \in 1 .. Len(payments) : payments'[i] = payments[i]
  BY <1>1, <1>2
<1>4. StreamTypeOK'
  BY <1>2, <1>3 DEF StreamTypeOK
<1>5. ClosedIsSilent' /\ NoGap' /\ Positioned'
  BY <1>2, <1>3 DEF ClosedIsSilent, NoGap, Positioned, StreamTypeOK, Positions, Off
<1>6. Paid => Paid'
  BY PaidStays
<1>7. \A r \in resolving : r.event \in 1 .. Len(payments) /\ payments'[r.event] = payments[r.event]
  BY <1>2, <1>3 DEF ResolveHolds, StreamTypeOK, Resolve
<1>8. ResolveHolds' /\ PaidFirst'
  BY <1>2, <1>3, <1>6, <1>7 DEF ResolveHolds, PaidFirst, StreamTypeOK, Resolve
<1> QED BY <1>4, <1>5, <1>8

(* Steps that write or hold the row and leave the subscription alone.      *)
LEMMA RowStep ==
  ASSUME StreamInv, UNCHANGED <<payments, subVars>>, account' \in BOOLEAN,
         writers' \subseteq Writers, row' \in Statuses, row' \in {row} \/ (row' = "SUCCESS" => Paid)
  PROVE  StreamInv'
<1> USE DEF StreamInv, subVars
<1>1. StreamTypeOK'
  BY DEF StreamTypeOK
<1>2. ClosedIsSilent' /\ NoGap' /\ Positioned'
  BY DEF ClosedIsSilent, NoGap, Positioned
<1>3. ResolveHolds' /\ PaidFirst'
  BY DEF ResolveHolds, PaidFirst, Paid
<1> QED BY <1>1, <1>2, <1>3

LEMMA WriterStep ==
  ASSUME StreamInv, HandlerWrites \/ ReaderLoads \/ ReaderWrites
  PROVE  StreamInv'
<1>1. UNCHANGED <<account, payments, subVars>> /\ account \in BOOLEAN /\ row \in Statuses /\ writers \subseteq Writers
  BY DEF HandlerWrites, ReaderLoads, ReaderWrites, StreamInv, StreamTypeOK
<1>2. writers' \subseteq Writers
  BY <1>1 DEF HandlerWrites, ReaderLoads, ReaderWrites, Writers
<1>3. row' \in Statuses /\ (row' = row \/ (row' = "SUCCESS" => Paid))
  BY <1>1 DEF HandlerWrites, ReaderLoads, ReaderWrites, Statuses
<1> QED BY <1>1, <1>2, <1>3, RowStep

(* Steps of the connection to Horizon: it starts, stops, or goes on after  *)
(* its last event.                                                         *)
LEMMA ConnectionStep ==
  ASSUME StreamInv, StreamError \/ Reconnect \/ LookupReturns
  PROVE  StreamInv'
<1> USE MaxPaymentsAssumption DEF StreamInv
<1>1. UNCHANGED <<account, payments, row, writers, last, resolving, wire>>
  BY DEF StreamError, Reconnect, LookupReturns
<1>2. payments \in Seq(Kinds) /\ Len(payments) \in Nat /\ Len(payments) <= MaxPayments
  BY DEF StreamTypeOK
<1>3. /\ sub' \in {"none", "lookup", "left", "live", "over"}
      /\ stream' \in [at : Positions \cup {Off}, timer : BOOLEAN]
      /\ stream'.at <= Len(payments)
      /\ sub' # "live" => stream' = Silent
      /\ sub' = "live" /\ last # 0 /\ stream'.at # Off => stream'.at = last
  <2> USE <1>2 DEF StreamTypeOK, Positions, Off, Silent, From, Positioned, NoGap, ClosedIsSilent
  <2>1. CASE StreamError
    BY <2>1 DEF StreamError
  <2>2. CASE Reconnect
    <3>1. PICK at \in From(last) : stream' = [at |-> at, timer |-> FALSE]
      BY <2>2 DEF Reconnect
    <3>2. sub = "live" /\ sub' = sub /\ at \in 0 .. Len(payments) /\ (last # 0 => at = last)
      BY <2>2, <3>1 DEF Reconnect
    <3> QED BY <3>1, <3>2
  <2>3. CASE LookupReturns
    <3>1. last = 0 /\ stream = [at |-> -1, timer |-> FALSE]
      BY <2>3 DEF LookupReturns
    <3>2. CASE sub' = "live"
      <4>1. PICK at \in {0, Len(payments)} : stream' = [at |-> at, timer |-> FALSE]
        BY <2>3, <3>2 DEF LookupReturns
      <4> QED BY <3>1, <3>2, <4>1
    <3>3. CASE sub' # "live"
      BY <2>3, <3>1, <3>3 DEF LookupReturns
    <3> QED BY <3>2, <3>3
  <2> QED BY <2>1, <2>2, <2>3
<1>4. (sub = "live" <=> sub' = "live") \/ (sub = "lookup" /\ sub' = "live")
  BY DEF StreamError, Reconnect, LookupReturns
<1>5. StreamTypeOK'
  BY <1>1, <1>3 DEF StreamTypeOK
<1>6. ClosedIsSilent' /\ NoGap' /\ Positioned'
  BY <1>1, <1>3, <1>4 DEF ClosedIsSilent, NoGap, Positioned
<1>7. ResolveHolds' /\ PaidFirst'
  BY <1>1 DEF ResolveHolds, PaidFirst, Paid
<1> QED BY <1>5, <1>6, <1>7

(* An event that is delivered is the next of the ledger.                   *)
LEMMA DeliverStep ==
  ASSUME StreamInv, Deliver
  PROVE  StreamInv'
<1> DEFINE event == stream.at + 1
           new == [event |-> event, pc |-> "check", heard |-> TRUE]
<1> USE MaxPaymentsAssumption DEF StreamInv
<1>1. payments \in Seq(Kinds) /\ Len(payments) \in Nat /\ Len(payments) <= MaxPayments
  BY DEF StreamTypeOK
<1>2. /\ sub = "live" /\ stream.at # Off
      /\ event \in 1 .. Len(payments)
      /\ stream' = [stream EXCEPT !.at = event] /\ last' = event
      /\ resolving' = resolving \cup {new}
      /\ UNCHANGED <<account, payments, row, writers, sub, wire>>
  BY <1>1 DEF Deliver, StreamTypeOK, ClosedIsSilent, Silent, Off, Positions
<1>3. new \in Resolve
  BY <1>1, <1>2 DEF Resolve
<1>4. stream \in [at : Positions \cup {Off}, timer : BOOLEAN]
  BY DEF StreamTypeOK
<1>5. stream'.at = event /\ stream' \in [at : Positions \cup {Off}, timer : BOOLEAN]
  BY <1>1, <1>2, <1>4 DEF Positions
<1>6. new.event = event /\ new.pc = "check"
  OBVIOUS
<1>7. event \in Positions /\ event # 0
  BY <1>1, <1>2 DEF Positions
<1> HIDE DEF event, new
<1>8. StreamTypeOK'
  BY <1>2, <1>3, <1>5, <1>7 DEF StreamTypeOK
<1>9. ClosedIsSilent' /\ NoGap' /\ Positioned'
  BY <1>1, <1>2, <1>5 DEF ClosedIsSilent, NoGap, Positioned
<1>10. ResolveHolds' /\ PaidFirst'
  BY <1>1, <1>2, <1>6 DEF ResolveHolds, PaidFirst, Paid
<1> QED BY <1>8, <1>9, <1>10

(* What is checked or written is resolved by whoever began it.             *)
LEMMA CheckStep ==
  ASSUME StreamInv, NEW r \in resolving, Check(r)
  PROVE  StreamInv'
<1> DEFINE written == [r EXCEPT !.pc = "write"]
<1> USE DEF StreamInv
<1>1. UNCHANGED <<account, payments, row, writers, sub, stream, last, wire>>
  BY DEF Check
<1>2. r \in Resolve
  BY DEF StreamTypeOK
<1>3. written \in Resolve /\ written.event = r.event
  BY <1>2 DEF Resolve
<1>4. /\ resolving' \subseteq (resolving \ {r}) \cup {written}
      /\ written \in resolving' => payments[r.event] = "alike" \/ written \in resolving
  BY DEF Check, Matches
<1> HIDE DEF written
<1>5. StreamTypeOK'
  BY <1>1, <1>3, <1>4 DEF StreamTypeOK
<1>6. ClosedIsSilent' /\ NoGap' /\ Positioned' /\ PaidFirst'
  BY <1>1 DEF ClosedIsSilent, NoGap, Positioned, PaidFirst, Paid
<1>7. ResolveHolds'
  BY <1>1, <1>3, <1>4 DEF ResolveHolds
<1> QED BY <1>5, <1>6, <1>7

LEMMA WriteStep ==
  ASSUME StreamInv, NEW r \in resolving, Write(r)
  PROVE  StreamInv'
<1> USE DEF StreamInv
<1>1. /\ UNCHANGED <<account, payments, writers, sub, stream, last>>
      /\ resolving' = resolving \ {r} /\ row' = "SUCCESS"
      /\ wire' = IF r.heard THEN wire + 1 ELSE wire
  BY DEF Write
<1>2. Paid
  BY DEF StreamTypeOK, ResolveHolds, Write, Resolve, Paid
<1>3. wire' \in Nat
  BY <1>1 DEF StreamTypeOK
<1>4. StreamTypeOK'
  BY <1>1, <1>3 DEF StreamTypeOK, Statuses
<1>5. ClosedIsSilent' /\ NoGap' /\ Positioned'
  BY <1>1 DEF ClosedIsSilent, NoGap, Positioned
<1>6. ResolveHolds' /\ PaidFirst'
  BY <1>1, <1>2 DEF ResolveHolds, PaidFirst, Paid
<1> QED BY <1>4, <1>5, <1>6

(* A subscription that ends, for whichever reason, is heard of no more.    *)
LEMMA EndStep ==
  ASSUME StreamInv, UNCHANGED <<account, payments, row>>, writers' \subseteq writers,
         sub' \in {"none", "left", "over"}, stream' = Silent, last' = 0,
         resolving' \subseteq {[r EXCEPT !.heard = FALSE] : r \in resolving},
         wire' = 0 \/ UNCHANGED wire
  PROVE  StreamInv'
<1> USE MaxPaymentsAssumption DEF StreamInv
<1>1. \A q \in resolving' : \E r \in resolving :
        q = [r EXCEPT !.heard = FALSE] /\ r \in Resolve
  BY DEF StreamTypeOK
<1>2. \A q \in resolving' : \E r \in resolving :
        q \in Resolve /\ q.event = r.event /\ q.pc = r.pc
  BY <1>1 DEF Resolve
<1>3. payments \in Seq(Kinds) /\ Len(payments) \in Nat
  BY DEF StreamTypeOK
<1>4. Silent \in [at : Positions \cup {Off}, timer : BOOLEAN] /\ Silent.at = -1 /\ Off = -1
  BY DEF Silent, Off
<1>5. StreamTypeOK'
  <2>1. resolving' \subseteq Resolve
    BY <1>2
  <2>2. wire' \in Nat /\ last' \in Positions
    BY DEF StreamTypeOK, Positions
  <2> QED BY <1>4, <2>1, <2>2 DEF StreamTypeOK
<1>6. ClosedIsSilent' /\ NoGap' /\ Positioned'
  BY <1>3, <1>4 DEF ClosedIsSilent, NoGap, Positioned
<1>7. ResolveHolds' /\ PaidFirst'
  BY <1>2 DEF ResolveHolds, PaidFirst, Paid
<1> QED BY <1>5, <1>6, <1>7

LEMMA ResolveFailsStep ==
  ASSUME StreamInv, NEW r \in resolving, ResolveFails(r)
  PROVE  StreamInv'
<1> USE DEF StreamInv
<1>1. CASE r.heard
  BY <1>1, EndStep DEF ResolveFails
<1>2. CASE ~r.heard
  <2>1. resolving' = resolving \ {r} /\ UNCHANGED <<account, payments, row, writers, sub, stream, last, wire>>
    BY <1>2 DEF ResolveFails
  <2>2. StreamTypeOK'
    BY <2>1 DEF StreamTypeOK
  <2>3. ClosedIsSilent' /\ NoGap' /\ Positioned' /\ ResolveHolds' /\ PaidFirst'
    BY <2>1 DEF ClosedIsSilent, NoGap, Positioned, ResolveHolds, PaidFirst, Paid
  <2> QED BY <2>2, <2>3
<1> QED BY <1>1, <1>2

(* A subscription starts or has ended, or its subscriber reads an update.  *)
LEMMA IdleStep ==
  ASSUME StreamInv, UNCHANGED <<account, payments, row, writers, stream, last, resolving>>,
         sub' = sub \/ (sub \in {"none", "over"} /\ sub' \in {"none", "lookup"}),
         wire' \in Nat, wire' # 0 => wire # 0
  PROVE  StreamInv'
<1> USE DEF StreamInv
<1>1. StreamTypeOK'
  BY DEF StreamTypeOK
<1>2. ClosedIsSilent' /\ NoGap' /\ Positioned' /\ ResolveHolds' /\ PaidFirst'
  BY DEF ClosedIsSilent, NoGap, Positioned, ResolveHolds, PaidFirst, Paid
<1> QED BY <1>1, <1>2

-----------------------------------------------------------------------------
(* A step that neither starts nor forgets a history request leaves what is *)
(* in flight within its bound.                                             *)
LEMMA LoadsMove ==
  ASSUME loads \in [{"sent"} \cup Statuses -> Nat], InFlight <= MaxLoads,
         NEW l \in {"sent"} \cup Statuses, loads[l] > 0, loads' = [loads EXCEPT ![l] = @ - 1]
  PROVE  loads' \in [{"sent"} \cup Statuses -> Nat] /\ InFlight' <= MaxLoads
<1>1. loads' \in [{"sent"} \cup Statuses -> Nat]
  OBVIOUS
<1>2. InFlight' <= MaxLoads
  BY MaxLoadsAssumption DEF InFlight, Statuses
<1> QED BY <1>1, <1>2

LEMMA LoadStarts ==
  ASSUME loads \in [{"sent"} \cup Statuses -> Nat], StartsLoad
  PROVE  loads' \in [{"sent"} \cup Statuses -> Nat] /\ InFlight' <= MaxLoads
           /\ loads'["SUCCESS"] = loads["SUCCESS"]
  BY MaxLoadsAssumption DEF StartsLoad, InFlight, Statuses

LEMMA NoneInFlight ==
  ASSUME loads' = NoLoads
  PROVE  loads' \in [{"sent"} \cup Statuses -> Nat] /\ InFlight' <= MaxLoads /\ loads'["SUCCESS"] = 0
  BY MaxLoadsAssumption DEF NoLoads, InFlight, Statuses

(* What the API does leaves the screen as it is.                           *)
LEMMA StreamSteps ==
  ASSUME StreamInv, StreamNext
  PROVE  StreamInv' /\ (Paid => Paid')
<1>1. CASE GetAccount
  BY <1>1, RowStep DEF GetAccount, StreamInv, StreamTypeOK, Paid
<1>2. CASE Land
  BY <1>2, LandStep, PaidStays
<1>3. CASE ReaderLoads \/ ReaderWrites
  BY <1>3, WriterStep DEF ReaderLoads, ReaderWrites, Paid
<1>4. CASE StreamError \/ Reconnect \/ LookupReturns
  BY <1>4, ConnectionStep DEF StreamError, Reconnect, LookupReturns, Paid
<1>5. CASE Deliver
  BY <1>5, DeliverStep DEF Deliver, Paid
<1>6. ASSUME NEW r \in resolving, Check(r) \/ Write(r) \/ ResolveFails(r)
      PROVE  StreamInv' /\ (Paid => Paid')
  BY <1>6, CheckStep, WriteStep, ResolveFailsStep DEF Check, Write, ResolveFails, Paid
<1> QED BY <1>1, <1>2, <1>3, <1>4, <1>5, <1>6 DEF StreamNext, Elsewhere, Runs

(* Steps of the screen that leave the API alone.                           *)
LEMMA ScreenSteps ==
  ASSUME StreamInv, ScreenInv, UNCHANGED streamVars,
         \/ Leave \/ CleanUp \/ Mount \/ Poll \/ StreamFails \/ LoadReads
         \/ \E t \in {"history", "other"} : ChangeTab(t)
         \/ \E s \in Statuses : LoadArrives(s)
         \/ \E l \in DOMAIN loads : LoadFails(l)
  PROVE  StreamInv' /\ ScreenInv'
<1> USE DEF ScreenInv
<1>1. StreamInv'
  BY RowStep DEF streamVars, subVars, StreamInv, StreamTypeOK
<1>2. Paid' <=> Paid
  BY DEF streamVars, Paid
<1> SUFFICES ScreenInv'
  BY <1>1
<1>3. DOMAIN loads = {"sent"} \cup Statuses
  OBVIOUS
<1>4. CASE Leave \/ Mount
  <2>1. Blank /\ token' \in BOOLEAN /\ conn' \in {conn, "opening"}
    BY <1>4 DEF Leave, Mount
  <2>2. loads' = NoLoads /\ tab' = "other" /\ list' = "none" /\ available' /\ ~sending' /\ sending' \in BOOLEAN
          /\ available' \in BOOLEAN
    BY <2>1 DEF Blank
  <2>3. loads' \in [{"sent"} \cup Statuses -> Nat] /\ InFlight' <= MaxLoads /\ loads'["SUCCESS"] = 0
    BY <2>2, NoneInFlight
  <2>4. list' \in Statuses /\ list' # "SUCCESS"
    BY <2>2 DEF Statuses
  <2> QED BY <2>1, <2>2, <2>3, <2>4 DEF ShownSuccessIsPaid
<1>5. CASE CleanUp
  BY <1>2, <1>5 DEF CleanUp, ShownSuccessIsPaid, InFlight
<1>6. CASE Poll
  BY <1>2, <1>6, LoadStarts DEF Poll, ShownSuccessIsPaid
<1>7. CASE StreamFails
  BY <1>2, <1>7 DEF StreamFails, ShownSuccessIsPaid, InFlight
<1>8. CASE LoadReads
  <2>1. row \in Statuses /\ (row = "SUCCESS" => Paid)
    BY DEF StreamInv, StreamTypeOK, PaidFirst
  <2>2. loads' \in [{"sent"} \cup Statuses -> Nat] /\ InFlight' <= MaxLoads
    BY <1>8, <2>1, MaxLoadsAssumption DEF LoadReads, InFlight, Statuses
  <2>3. row # "SUCCESS" => loads'["SUCCESS"] = loads["SUCCESS"]
    BY <1>8, <2>1 DEF LoadReads, Statuses
  <2> QED BY <1>2, <1>8, <2>1, <2>2, <2>3 DEF LoadReads, ShownSuccessIsPaid
<1>9. ASSUME NEW t \in {"history", "other"}, ChangeTab(t) PROVE ScreenInv'
  BY <1>2, <1>9, LoadStarts DEF ChangeTab, ShownSuccessIsPaid, InFlight
<1>10. ASSUME NEW s \in Statuses, LoadArrives(s) PROVE ScreenInv'
  <2>1. loads' \in [{"sent"} \cup Statuses -> Nat] /\ InFlight' <= MaxLoads
    BY <1>10, LoadsMove DEF LoadArrives
  <2>2. loads'["SUCCESS"] > 0 => loads["SUCCESS"] > 0
    BY <1>10 DEF LoadArrives, Statuses
  <2> QED BY <1>2, <1>10, <2>1, <2>2 DEF LoadArrives, ShownSuccessIsPaid
<1>11. ASSUME NEW l \in DOMAIN loads, LoadFails(l) PROVE ScreenInv'
  <2>1. loads' \in [{"sent"} \cup Statuses -> Nat] /\ InFlight' <= MaxLoads
    BY <1>3, <1>11, LoadsMove DEF LoadFails
  <2>2. loads'["SUCCESS"] > 0 => loads["SUCCESS"] > 0
    BY <1>3, <1>11 DEF LoadFails, Statuses
  <2> QED BY <1>2, <1>11, <2>1, <2>2 DEF LoadFails, ShownSuccessIsPaid
<1> QED BY <1>4, <1>5, <1>6, <1>7, <1>8, <1>9, <1>10, <1>11

(* Steps of both sides of the subscription.                                *)
LEMMA JointSteps ==
  ASSUME StreamInv, ScreenInv, Send \/ SendEnds \/ Accepted \/ StreamEnds \/ Receive \/ HangUp \/ ApiCrash
  PROVE  StreamInv' /\ ScreenInv'
<1> USE DEF ScreenInv, ShownSuccessIsPaid
<1>1. UNCHANGED payments /\ (Paid' <=> Paid)
  BY DEF Send, SendEnds, HandlerWrites, Accepted, Subscribe, StreamEnds, Receive, HangUp, Unsubscribe,
    ApiCrash, StreamCrash, Paid
<1>2. CASE Send
  <2>1. StreamInv'
    BY <1>1, <1>2, RowStep DEF Send, StreamInv, StreamTypeOK, Statuses, Writers
  <2> QED BY <1>1, <1>2, <2>1 DEF Send, InFlight
<1>3. CASE SendEnds
  BY <1>1, <1>3, WriterStep, LoadStarts DEF SendEnds, InFlight
<1>4. CASE Accepted
  <2>1. StreamInv'
    BY <1>1, <1>4, IdleStep DEF Accepted, Subscribe, StreamInv, StreamTypeOK
  <2> QED BY <1>1, <1>4, <2>1 DEF Accepted, Subscribe, InFlight
<1>5. CASE StreamEnds
  <2>1. StreamInv'
    BY <1>1, <1>5, IdleStep DEF StreamEnds, StreamInv, StreamTypeOK
  <2> QED BY <1>1, <1>5, <2>1 DEF StreamEnds, InFlight
<1>6. CASE Receive
  <2>1. Paid
    BY <1>6 DEF Receive, StreamInv, StreamTypeOK, PaidFirst
  <2>2. StreamInv'
    BY <1>1, <1>6, IdleStep DEF Receive, StreamInv, StreamTypeOK
  <2> QED BY <1>1, <1>6, <2>1, <2>2 DEF Receive, InFlight, Statuses
<1>7. CASE HangUp
  <2>1. StreamInv'
    BY <1>1, <1>7, EndStep DEF HangUp, Unsubscribe, Teardown
  <2> QED BY <1>1, <1>7, <2>1 DEF HangUp, screenVars, InFlight
<1>8. CASE ApiCrash
  <2>1. StreamInv'
    BY <1>1, <1>8, EndStep DEF ApiCrash, StreamCrash
  <2>2. loads' = NoLoads
    BY <1>8 DEF ApiCrash
  <2>3. loads' \in [{"sent"} \cup Statuses -> Nat] /\ InFlight' <= MaxLoads /\ loads'["SUCCESS"] = 0
    BY <2>2, NoneInFlight
  <2>4. /\ conn' \in {"none", "opening", "open", "ended", "failed"}
        /\ available' \in BOOLEAN /\ sending' \in BOOLEAN
        /\ UNCHANGED <<token, tab, list>>
    BY <1>8 DEF ApiCrash
  <2> QED BY <1>1, <2>1, <2>3, <2>4
<1> QED BY <1>2, <1>3, <1>4, <1>5, <1>6, <1>7, <1>8

LEMMA InitHolds == Init => StreamInv /\ ScreenInv
<1> SUFFICES ASSUME Init PROVE StreamInv /\ ScreenInv
  OBVIOUS
<1> USE MaxPaymentsAssumption, MaxLoadsAssumption DEF Init, StreamInit
<1>1. payments \in Seq(Kinds) /\ Len(payments) = 0
  OBVIOUS
<1>2. Silent \in [at : Positions \cup {Off}, timer : BOOLEAN] /\ Silent.at = -1 /\ Off = -1
  BY DEF Silent, Off
<1>3. StreamTypeOK
  <2>1. account \in BOOLEAN /\ row \in Statuses /\ writers \subseteq Writers
    BY DEF Statuses
  <2>2. last \in Positions /\ wire \in Nat /\ Len(payments) <= MaxPayments
    BY <1>1 DEF Positions
  <2>3. sub \in {"none", "lookup", "left", "live", "over"} /\ resolving \subseteq Resolve
    OBVIOUS
  <2>4. stream \in [at : Positions \cup {Off}, timer : BOOLEAN]
    BY <1>2
  <2> QED BY <1>1, <2>1, <2>2, <2>3, <2>4 DEF StreamTypeOK
<1>4. StreamInv
  BY <1>1, <1>2, <1>3 DEF StreamInv, ClosedIsSilent, NoGap, Positioned, ResolveHolds, PaidFirst
<1>5. ScreenInv
  <2>1. loads \in [{"sent"} \cup Statuses -> Nat] /\ InFlight <= MaxLoads /\ loads["SUCCESS"] = 0
    BY DEF NoLoads, InFlight, Statuses
  <2>2. token \in BOOLEAN /\ available \in BOOLEAN /\ sending \in BOOLEAN /\ conn = "none" /\ tab = "other"
    OBVIOUS
  <2>3. list \in Statuses /\ list # "SUCCESS"
    BY DEF Statuses
  <2> QED BY <2>1, <2>2, <2>3 DEF ScreenInv, ShownSuccessIsPaid
<1> QED BY <1>4, <1>5

LEMMA NextHolds ==
  ASSUME StreamInv, ScreenInv, [Next]_vars
  PROVE  StreamInv' /\ ScreenInv'
<1>1. CASE StreamNext /\ UNCHANGED screenVars
  BY <1>1, StreamSteps DEF ScreenInv, screenVars, InFlight, ShownSuccessIsPaid
<1>2. CASE UNCHANGED vars
  <2>1. StreamInv'
    BY <1>2, RowStep DEF vars, streamVars, subVars, StreamInv, StreamTypeOK
  <2> QED BY <1>2, <2>1 DEF vars, streamVars, screenVars, ScreenInv, InFlight, ShownSuccessIsPaid, Paid
<1>3. CASE \/ Leave \/ CleanUp \/ Mount \/ Poll \/ StreamFails \/ LoadReads
           \/ \E t \in {"history", "other"} : ChangeTab(t)
           \/ \E s \in Statuses : LoadArrives(s)
           \/ \E l \in DOMAIN loads : LoadFails(l)
  <2>1. UNCHANGED streamVars
    BY <1>3 DEF Leave, CleanUp, Mount, Poll, StreamFails, LoadReads, ChangeTab, LoadArrives, LoadFails
  <2> QED BY <1>3, <2>1, ScreenSteps
<1>4. CASE Send \/ SendEnds \/ Accepted \/ StreamEnds \/ Receive \/ HangUp \/ ApiCrash
  BY <1>4, JointSteps
<1> QED BY <1>1, <1>2, <1>3, <1>4 DEF Next

LEMMA Invariance == Spec => [](StreamInv /\ ScreenInv)
<1> QED BY InitHolds, NextHolds, PTL DEF Spec

-----------------------------------------------------------------------------
(* Ledger, subscription and screen always have their types; in particular  *)
(* a connection is at a position of the ledger, and history requests keep  *)
(* to their bound.                                                         *)
THEOREM FeedTypeCorrect == Spec => []ScreenTypeOK
<1>1. StreamInv /\ ScreenInv => ScreenTypeOK
  <2> SUFFICES ASSUME StreamInv, ScreenInv PROVE loads \in [{"sent"} \cup Statuses -> 0 .. MaxLoads]
    BY DEF ScreenTypeOK, StreamInv, ScreenInv
  <2>1. loads \in [{"sent"} \cup Statuses -> Nat] /\ InFlight <= MaxLoads
    BY DEF ScreenInv
  <2>2. \A l \in {"sent"} \cup Statuses : loads[l] \in 0 .. MaxLoads
    BY <2>1, MaxLoadsAssumption DEF InFlight, Statuses
  <2> QED BY <2>1, <2>2
<1> QED BY <1>1, Invariance, PTL

(* A subscription that is not live has neither a connection to Horizon nor *)
(* a timer that would open one.                                            *)
THEOREM FeedClosedIsSilent == Spec => []ClosedIsSilent
<1>1. StreamInv => ClosedIsSilent
  BY DEF StreamInv
<1> QED BY <1>1, Invariance, PTL

(* A live subscription is connected just after the last event it has       *)
(* delivered, through any number of errors and reconnects.                 *)
THEOREM FeedNoGap == Spec => []NoGap
<1>1. StreamInv => NoGap
  BY DEF StreamInv
<1> QED BY <1>1, Invariance, PTL

(* What the list shows as paid was paid: a payment of the row's terms is   *)
(* on the ledger, whoever wrote the row over whatever it had become, and   *)
(* whichever of the answers and updates came last.                         *)
THEOREM FeedShownSuccessIsPaid == Spec => []ShownSuccessIsPaid
<1>1. ScreenInv => ShownSuccessIsPaid
  BY DEF ScreenInv
<1> QED BY <1>1, Invariance, PTL
=============================================================================
