----------------------------- MODULE AnchorProofs -----------------------------
(* Proofs about Anchor for every value of its constants: whatever order    *)
(* the anchor's answers are written and shown in, one that says how a      *)
(* transfer ended is true, and no transfer goes anywhere without its row.  *)
EXTENDS Anchor, TLAPS

(* What the anchor said of a transfer at some time: it has not forgotten   *)
(* the transfer since, nor what it had settled, nor that it knew an        *)
(* amount.                                                                 *)
Past(a, t) ==
  /\ anchor[t] # None
  /\ Settled(a) => a = anchor[t]
  /\ a.amount # NoAmount => anchor[t].amount # NoAmount

(* What a call holds comes from the anchor and is about transfers that     *)
(* have their row; only an initiate knows of one that has none yet.        *)
Initiating(v) ==
  /\ v.pc = "call" => v.work = NoWork
  /\ v.pc \in {"created", "described"} => v.id \in Transfers /\ anchor[v.id] # None
  /\ v.pc = "described" => v.work[v.id] \in Answer
  /\ v.pc = "reply" => v.id \in Transfers /\ rows[v.id] # None
Holds(v) ==
  /\ \A t \in Transfers : v.work[t] \in Answer => Past(v.work[t], t)
  /\ \A s \in v.shown : Past(s.row, s.id) /\ rows[s.id] # None
  /\ IF v.op = "initiate" THEN Initiating(v)
     ELSE \A t \in Transfers : v.work[t] # Idle => rows[t] # None

CallsHold == \A c \in Calls : calls[c] # NoCall => Holds(calls[c])
RowsArePast == \A t \in Transfers : rows[t] # None => Past(rows[t], t)
PageIsPast == \A s \in page.list : Past(s.row, s.id) /\ rows[s.id] # None
OpenedHaveRows == \A t \in opened : rows[t] # None
MovedWereOpened ==
  \A t \in Transfers :
    anchor[t] # None /\ anchor[t].status \notin {"incomplete", "expired"} => t \in opened

IInv ==
  /\ TypeOK
  /\ CallsHold
  /\ RowsArePast
  /\ PageIsPast
  /\ OpenedHaveRows
  /\ MovedWereOpened

-----------------------------------------------------------------------------
(* No answer is one of the values that stand for something else.           *)
LEMMA Distinct ==
  /\ None \notin Answer /\ Idle \notin Answer /\ Ask \notin Answer /\ Idle # Ask
  /\ NoCall \notin Call
BY DEF None, Answer, Idle, Ask, InProgress, Final, NoCall, Call

LEMMA InitHolds == Init => IInv
<1> SUFFICES ASSUME Init PROVE IInv
  OBVIOUS
<1>1. TypeOK
  BY DEF Init, TypeOK, Page, ClosedPage
<1>2. PageIsPast
  BY DEF Init, PageIsPast, ClosedPage
<1> QED
  BY <1>1, <1>2 DEF Init, IInv, CallsHold, RowsArePast, OpenedHaveRows, MovedWereOpened

(* The anchor never takes back what it said, and rows are never deleted.   *)
Kept ==
  /\ \A t \in Transfers, a \in Answer : Past(a, t) => Past(a, t)'
  /\ \A t \in Transfers : anchor[t] # None => anchor'[t] # None
  /\ \A t \in Transfers : rows[t] # None => rows'[t] # None

LEMMA KeptByDefault ==
  ASSUME UNCHANGED anchor, UNCHANGED rows
  PROVE  Kept
BY DEF Kept, Past

(* What a call holds stays true while it does nothing.                     *)
LEMMA HoldsStays ==
  ASSUME Kept, NEW v \in Call, Holds(v)
  PROVE  Holds(v)'
<1>1. /\ v.work \in [Transfers -> Answer \cup {Idle, Ask}]
      /\ \A s \in v.shown : s.id \in Transfers /\ s.row \in Answer
  BY DEF Call, Shown
<1>2. \A t \in Transfers : v.work[t] \in Answer => Past(v.work[t], t)'
  BY DEF Kept, Holds
<1>3. \A s \in v.shown : Past(s.row, s.id)' /\ rows'[s.id] # None
  BY <1>1 DEF Kept, Holds
<1>4. IF v.op = "initiate" THEN Initiating(v)'
      ELSE \A t \in Transfers : v.work[t] # Idle => rows'[t] # None
  BY DEF Kept, Holds, Initiating
<1> QED
  BY <1>2, <1>3, <1>4 DEF Holds

(* A step of one call, or one that starts or ends it: the others hold what *)
(* they held, so that it is enough to look at that call.                   *)
LEMMA OneCall ==
  ASSUME IInv, Kept, NEW c \in Calls, NEW v \in Call \cup {NoCall},
         calls' = [calls EXCEPT ![c] = v],
         v # NoCall => Holds(v)'
  PROVE  CallsHold' /\ calls' \in [Calls -> Call \cup {NoCall}]
<1>1. calls \in [Calls -> Call \cup {NoCall}]
  BY DEF IInv, TypeOK
<1>2. ASSUME NEW d \in Calls, calls'[d] # NoCall
      PROVE  Holds(calls[d])'
  <2>1. CASE d = c
    <3>1. calls'[d] = v /\ Holds(v)'
      BY <1>1, <1>2, <2>1
    <3> QED
      BY <3>1 DEF Holds, Initiating, Past
  <2>2. CASE d # c
    <3>1. calls'[d] = calls[d] /\ calls[d] \in Call
      BY <1>1, <1>2, <2>2
    <3>2. PICK w \in Call : w = calls[d]
      BY <3>1
    <3>3. Holds(w)
      BY <1>2, <3>1, <3>2 DEF IInv, CallsHold
    <3>4. Holds(w)'
      BY <3>3, HoldsStays
    <3>5. calls'[d] = w
      BY <3>1, <3>2
    <3> QED
      BY <3>4, <3>5 DEF Holds, Initiating, Past
  <2> QED
    BY <2>1, <2>2
<1> QED
  BY <1>1, <1>2 DEF CallsHold

(* The parts of the invariant that a step leaves alone.                    *)
LEMMA RowsStay ==
  ASSUME IInv, Kept, UNCHANGED rows
  PROVE  RowsArePast'
BY Distinct DEF IInv, TypeOK, RowsArePast, Kept

LEMMA PageStays ==
  ASSUME IInv, Kept, UNCHANGED page
  PROVE  PageIsPast'
BY DEF IInv, TypeOK, Page, Shown, PageIsPast, Kept

LEMMA OpenedStay ==
  ASSUME IInv, Kept, UNCHANGED opened
  PROVE  OpenedHaveRows'
BY DEF IInv, TypeOK, OpenedHaveRows, Kept

LEMMA MovedStay ==
  ASSUME IInv, UNCHANGED anchor, opened \subseteq opened'
  PROVE  MovedWereOpened'
BY DEF IInv, MovedWereOpened

(* A step that only changes what one call is doing.                        *)
LEMMA CallStep ==
  ASSUME IInv, UNCHANGED <<anchor, opened, rows, page>>,
         NEW c \in Calls, NEW v \in Call \cup {NoCall},
         calls' = [calls EXCEPT ![c] = v], v # NoCall => Holds(v)
  PROVE  IInv'
<1>1. Kept
  BY KeptByDefault
<1>2. v # NoCall => Holds(v)'
  BY <1>1, HoldsStays
<1>3. CallsHold' /\ calls' \in [Calls -> Call \cup {NoCall}]
  BY <1>1, <1>2, OneCall
<1>4. TypeOK'
  BY <1>3 DEF IInv, TypeOK
<1> QED
  BY <1>1, <1>3, <1>4, RowsStay, PageStays, OpenedStay, MovedStay DEF IInv

(* What a call that is served holds, and what it is.                       *)
LEMMA Served ==
  ASSUME IInv, NEW c \in Calls, calls[c] # NoCall
  PROVE  calls[c] \in Call /\ Holds(calls[c])
BY DEF IInv, TypeOK, CallsHold

LEMMA NotServedByNobody ==
  ASSUME NEW c \in Calls, NEW op \in {"initiate", "status", "history"}, NEW pc, Serving(c, op, pc)
  PROVE  calls[c] # NoCall
BY DEF Serving, NoCall

LEMMA NoWorkTyped == NoWork \in [Transfers -> Answer \cup {Idle, Ask}]
BY DEF NoWork

-----------------------------------------------------------------------------
LEMMA FailsStep ==
  ASSUME IInv, NEW c \in Calls, Fails(c)
  PROVE  IInv'
<1> DEFINE v == [calls[c] EXCEPT !.pc = "failed", !.work = NoWork]
<1>1. calls[c] # NoCall
  BY NotServedByNobody DEF Fails, LoggingIn
<1>2. calls[c] \in Call /\ Holds(calls[c])
  BY <1>1, Served
<1>3. v \in Call /\ v.pc = "failed" /\ v.work = NoWork /\ v.op = calls[c].op /\ v.shown = calls[c].shown
  BY <1>2, NoWorkTyped DEF Call
<1>4. Holds(v)
  BY <1>2, <1>3, Distinct DEF Holds, Initiating, NoWork
<1>5. calls' = [calls EXCEPT ![c] = v] /\ UNCHANGED <<anchor, opened, rows, page>>
  BY DEF Fails
<1> HIDE DEF v
<1> QED
  BY <1>3, <1>4, <1>5, CallStep

LEMMA DescribeNewStep ==
  ASSUME IInv, NEW c \in Calls, DescribeNew(c)
  PROVE  IInv'
<1> DEFINE t == calls[c].id
           v == [calls[c] EXCEPT !.pc = "described", !.work[t] = Polled(t)]
<1>1. calls[c] # NoCall /\ calls[c].op = "initiate" /\ calls[c].pc = "created"
  BY NotServedByNobody DEF DescribeNew, Serving
<1>2. calls[c] \in Call /\ Holds(calls[c])
  BY <1>1, Served
<1>3. t \in Transfers /\ anchor[t] \in Answer
  BY <1>1, <1>2 DEF Holds, Initiating, IInv, TypeOK
<1>4. /\ v \in Call /\ v.pc = "described" /\ v.op = "initiate" /\ v.id = t /\ v.shown = calls[c].shown
      /\ v.work = [calls[c].work EXCEPT ![t] = anchor[t]]
  BY <1>1, <1>2, <1>3 DEF Call, Polled
<1>5. v.work[t] = anchor[t] /\ \A u \in Transfers : u # t => v.work[u] = calls[c].work[u]
  BY <1>2, <1>3, <1>4 DEF Call
<1>6. Past(anchor[t], t)
  BY <1>3, Distinct DEF Past
<1>7. Holds(v)
  <2> HIDE DEF v
  <2>1. \A u \in Transfers : v.work[u] \in Answer => Past(v.work[u], u)
    BY <1>2, <1>5, <1>6 DEF Holds
  <2>2. Initiating(v)
    BY <1>3, <1>4, <1>5, Distinct DEF Initiating
  <2> QED
    BY <1>2, <1>4, <2>1, <2>2 DEF Holds
<1>8. calls' = [calls EXCEPT ![c] = v] /\ UNCHANGED <<anchor, opened, rows, page>>
  BY DEF DescribeNew
<1> HIDE DEF v
<1> QED
  BY <1>4, <1>7, <1>8, CallStep

(* A step of a refresh.                                                    *)
LEMMA WorkStep ==
  ASSUME IInv, NEW c \in Calls, NEW t \in Transfers, NEW w \in Answer \cup {Idle, Ask},
         calls[c] # NoCall, calls[c].op # "initiate", calls[c].work[t] # Idle,
         w \in Answer => Past(w, t),
         calls' = [calls EXCEPT ![c].work[t] = w], UNCHANGED <<anchor, opened, rows, page>>
  PROVE  IInv'
<1> DEFINE v == [calls[c] EXCEPT !.work[t] = w]
<1>1. calls[c] \in Call /\ Holds(calls[c])
  BY Served
<1>2. /\ v \in Call /\ v.op = calls[c].op /\ v.shown = calls[c].shown
      /\ v.work[t] = w /\ \A u \in Transfers : u # t => v.work[u] = calls[c].work[u]
  BY <1>1 DEF Call
<1>3. calls' = [calls EXCEPT ![c] = v]
  BY DEF IInv, TypeOK
<1> HIDE DEF v
<1>4. Holds(v)
  BY <1>1, <1>2 DEF Holds
<1> QED
  BY <1>2, <1>3, <1>4, CallStep

LEMMA AskAnchorStep ==
  ASSUME IInv, NEW c \in Calls, NEW t \in Transfers, AskAnchor(c, t)
  PROVE  IInv'
<1>1. calls[c] \in Call /\ Holds(calls[c])
  BY Served DEF AskAnchor
<1>2. calls[c].work[t] = Ask /\ calls[c].pc = "call"
  BY DEF AskAnchor
<1>3. calls[c].op # "initiate"
  BY <1>1, <1>2, Distinct DEF Holds, Initiating, NoWork
<1>4. anchor[t] \in Answer
  BY <1>1, <1>2, <1>3, Distinct DEF Holds, IInv, TypeOK, RowsArePast, Past
<1>5. Past(anchor[t], t)
  BY <1>4, Distinct DEF Past
<1> QED
  BY <1>2, <1>3, <1>4, <1>5, Distinct, WorkStep DEF AskAnchor, Polled

LEMMA SkipRefreshStep ==
  ASSUME IInv, NEW c \in Calls, NEW t \in Transfers, SkipRefresh(c, t)
  PROVE  IInv'
<1>1. calls[c] \in Call /\ Holds(calls[c])
  BY Served DEF SkipRefresh
<1>2. calls[c].pc = "call" /\ calls[c].work[t] # Idle
  BY Distinct DEF SkipRefresh
<1>3. calls[c].op # "initiate"
  BY <1>1, <1>2, Distinct DEF Holds, Initiating, NoWork
<1> QED
  BY <1>2, <1>3, Distinct, WorkStep DEF SkipRefresh

(* The rows of the table, as a history shows them.                         *)
LEMMA RecordedArePast ==
  ASSUME IInv
  PROVE  /\ Recorded \subseteq Shown
         /\ \A s \in Recorded : Past(s.row, s.id) /\ rows[s.id] # None
BY DEF IInv, TypeOK, RowsArePast, Recorded, Shown

LEMMA AnsweredStep ==
  ASSUME IInv, NEW c \in Calls, Answered(c)
  PROVE  IInv'
<1> DEFINE v == [calls[c] EXCEPT !.pc = "reply", !.shown = IF calls[c].op = "history" THEN Recorded ELSE @]
<1>1. calls[c] \in Call /\ Holds(calls[c]) /\ calls[c].op # "initiate" /\ calls[c].work = NoWork
  BY Served DEF Answered
<1>2. /\ v \in Call /\ v.op = calls[c].op /\ v.work = NoWork
      /\ v.shown = calls[c].shown \/ v.shown = Recorded
  BY <1>1, RecordedArePast DEF Call
<1>3. calls' = [calls EXCEPT ![c] = v] /\ UNCHANGED <<anchor, opened, rows, page>>
  BY DEF Answered
<1> HIDE DEF v
<1>4. Holds(v)
  BY <1>1, <1>2, RecordedArePast, Distinct DEF Holds, NoWork
<1> QED
  BY <1>2, <1>3, <1>4, CallStep

LEMMA SubmitStep ==
  ASSUME IInv, NEW c \in Calls, Submit(c)
  PROVE  IInv'
<1> DEFINE v == [op |-> "initiate", pc |-> "call", id |-> NoTransfer, work |-> NoWork, shown |-> {}, live |-> TRUE]
<1>1. v \in Call
  BY NoWorkTyped DEF Call
<1>2. Holds(v)
  BY Distinct DEF Holds, Initiating, NoWork
<1>3. calls' = [calls EXCEPT ![c] = v] /\ UNCHANGED <<anchor, opened, rows, page>>
  BY DEF Submit, Request
<1> HIDE DEF v
<1> QED
  BY <1>1, <1>2, <1>3, CallStep

-----------------------------------------------------------------------------
LEMMA CreateAtAnchorStep ==
  ASSUME IInv, NEW c \in Calls, NEW t \in Transfers, CreateAtAnchor(c, t)
  PROVE  IInv'
<1>1. calls[c] # NoCall /\ calls[c].op = "initiate" /\ calls[c].pc = "call"
  BY NotServedByNobody DEF CreateAtAnchor, Serving
<1>2. calls[c] \in Call /\ Holds(calls[c])
  BY <1>1, Served
<1>3. PICK v \in Call : v = [calls[c] EXCEPT !.pc = "created", !.id = t]
  BY <1>2 DEF Call
<1>4. /\ v.pc = "created" /\ v.op = "initiate" /\ v.id = t
       /\ v.shown = calls[c].shown /\ v.work = NoWork
  BY <1>1, <1>2, <1>3 DEF Call, Holds, Initiating
<1>5. /\ calls' = [calls EXCEPT ![c] = v] /\ UNCHANGED <<opened, rows, page>>
      /\ anchor[t] = None /\ anchor' = [anchor EXCEPT ![t] = Started]
  BY <1>3 DEF CreateAtAnchor
<1>6. Started \in Answer /\ Started # None /\ ~Settled(Started) /\ Started.status = "incomplete"
  BY DEF Started, Answer, InProgress, Final, Settled, NoAmount, None
<1>7. /\ anchor' \in [Transfers -> Answer \cup {None}] /\ anchor'[t] = Started
      /\ \A u \in Transfers : u # t => anchor'[u] = anchor[u]
  BY <1>5, <1>6 DEF IInv, TypeOK
<1>8. Kept
  BY <1>5, <1>6, <1>7 DEF Kept, Past
<1>9. Holds(v)'
  <2>1. \A s \in v.shown : s.id \in Transfers /\ s.row \in Answer
    BY DEF Call, Shown
  <2>2. \A s \in v.shown : Past(s.row, s.id)' /\ rows'[s.id] # None
    BY <1>2, <1>8, <1>4, <2>1 DEF Holds, Kept
  <2>3. Initiating(v)'
    BY <1>6, <1>7, <1>4 DEF Initiating
  <2> QED
    BY <1>4, <2>2, <2>3, Distinct DEF Holds, NoWork
<1>10. CallsHold' /\ calls' \in [Calls -> Call \cup {NoCall}]
  BY <1>3, <1>5, <1>8, <1>9, OneCall
<1>11. TypeOK'
  BY <1>5, <1>7, <1>10 DEF IInv, TypeOK
<1>12. MovedWereOpened'
  BY <1>5, <1>6, <1>7 DEF IInv, MovedWereOpened
<1> QED
  BY <1>5, <1>8, <1>10, <1>11, <1>12, RowsStay, PageStays, OpenedStay DEF IInv

LEMMA RecordNewStep ==
  ASSUME IInv, NEW c \in Calls, RecordNew(c)
  PROVE  IInv'
<1>1. calls[c] # NoCall /\ calls[c].op = "initiate" /\ calls[c].pc = "described"
  BY NotServedByNobody DEF RecordNew, Serving
<1>2. calls[c] \in Call /\ Holds(calls[c])
  BY <1>1, Served
<1>3. PICK t \in Transfers : t = calls[c].id
  BY <1>1, <1>2 DEF Holds, Initiating
<1>4. PICK row \in Answer : row = calls[c].work[t]
  BY <1>1, <1>2, <1>3 DEF Holds, Initiating
<1>5. Past(row, t)
  BY <1>1, <1>2, <1>3, <1>4 DEF Holds
<1>6. [calls[c] EXCEPT !.pc = "reply", !.work = NoWork, !.shown = {[id |-> t, row |-> row]}] \in Call
  <2>1. {[id |-> t, row |-> row]} \in SUBSET Shown
    BY DEF Shown
  <2> QED
    BY <1>2, <2>1, NoWorkTyped DEF Call
<1>7. PICK v \in Call : v = [calls[c] EXCEPT !.pc = "reply", !.work = NoWork, !.shown = {[id |-> t, row |-> row]}]
  BY <1>6
<1>8. /\ v.pc = "reply" /\ v.op = "initiate" /\ v.id = t
      /\ v.shown = {[id |-> t, row |-> row]} /\ v.work = NoWork
  BY <1>1, <1>2, <1>3, <1>7 DEF Call
<1>9. /\ calls' = [calls EXCEPT ![c] = v] /\ UNCHANGED <<anchor, opened, page>>
      /\ rows' = [rows EXCEPT ![t] = row]
  BY <1>3, <1>4, <1>7 DEF RecordNew, Create
<1>10. /\ rows' \in [Transfers -> Answer \cup {None}] /\ rows'[t] = row
      /\ \A u \in Transfers : u # t => rows'[u] = rows[u]
  BY <1>3, <1>9 DEF IInv, TypeOK
<1>11. Kept
  BY  <1>9, <1>10, Distinct DEF Kept, Past
<1>12. Past(row, t)'
  BY <1>11, <1>5 DEF Kept
<1>13. Holds(v)'
  BY <1>3, <1>8, <1>10, <1>12, Distinct DEF Holds, Initiating, NoWork
<1>14. CallsHold' /\ calls' \in [Calls -> Call \cup {NoCall}]
  BY <1>8, <1>9, <1>11, <1>13, OneCall
<1>15. TypeOK'
  BY <1>9, <1>10, <1>14 DEF IInv, TypeOK
<1>16. RowsArePast'
  BY <1>10, <1>11, <1>12, Distinct DEF IInv, TypeOK, RowsArePast, Kept
<1> QED
  BY <1>9, <1>11, <1>14, <1>15, <1>16, PageStays, OpenedStay, MovedStay DEF IInv

(* What a refresh writes is as true as what it heard and what the row      *)
(* said, although the two may be of different times.                       *)
LEMMA MergedIsPast ==
  ASSUME IInv, NEW t \in Transfers, rows[t] # None, NEW a \in Answer, Past(a, t)
  PROVE  Merge(rows[t], a) \in Answer /\ Past(Merge(rows[t], a), t)
<1>1. rows[t] \in Answer /\ Past(rows[t], t)
  BY DEF IInv, TypeOK, RowsArePast
<1> DEFINE m == Merge(rows[t], a)
<1>2. /\ m \in Answer /\ m.status = a.status
      /\ m.amount = IF a.amount = NoAmount THEN rows[t].amount ELSE a.amount
  BY <1>1 DEF Merge, Answer
<1>3. Settled(m) => m = anchor[t]
  <2> SUFFICES ASSUME Settled(m) PROVE m = anchor[t]
    OBVIOUS
  <2>1. a = anchor[t]
    BY <1>2 DEF Settled, Past
  <2>2. m.amount = a.amount
    BY <1>1, <1>2, <2>1 DEF Past
  <2> QED
    BY <1>2, <2>1, <2>2 DEF Answer
<1>4. m.amount # NoAmount => anchor[t].amount # NoAmount
  BY <1>1, <1>2 DEF Past
<1> QED
  BY <1>1, <1>2, <1>3, <1>4 DEF Past

LEMMA WriteRefreshStep ==
  ASSUME IInv, NEW c \in Calls, NEW t \in Transfers, WriteRefresh(c, t)
  PROVE  IInv'
<1>1. calls[c] \in Call /\ Holds(calls[c]) /\ calls[c].op # "initiate" /\ calls[c].work[t] \in Answer
  BY Served DEF WriteRefresh
<1>2. rows[t] # None /\ Past(calls[c].work[t], t)
  BY <1>1, Distinct DEF Holds
<1>3. PICK row \in Answer : row = Merge(rows[t], calls[c].work[t])
  BY <1>1, <1>2, MergedIsPast
<1>4. Past(row, t)
  BY <1>1, <1>2, <1>3, MergedIsPast
<1> DEFINE new == IF calls[c].op = "status" THEN {[id |-> t, row |-> row]} ELSE {}
<1>5. [calls[c] EXCEPT !.work[t] = Idle, !.shown = new] \in Call
  <2>1. new \in SUBSET Shown
    BY DEF Shown
  <2> HIDE DEF new
  <2> QED
    BY <1>1, <2>1 DEF Call
<1>6. PICK v \in Call : v = [calls[c] EXCEPT !.work[t] = Idle, !.shown = new]
  BY <1>5
<1>7. UNCHANGED <<anchor, opened, page>> /\ rows' = [rows EXCEPT ![t] = row]
  BY <1>3 DEF WriteRefresh
<1>8. /\ rows' \in [Transfers -> Answer \cup {None}] /\ rows'[t] = row
      /\ \A u \in Transfers : u # t => rows'[u] = rows[u]
  BY <1>3, <1>7 DEF IInv, TypeOK
<1>9. calls' = [calls EXCEPT ![c] = v]
  BY <1>8, <1>6 DEF WriteRefresh
<1>10. /\ v.op = calls[c].op /\ v.shown \subseteq {[id |-> t, row |-> row]}
      /\ v.work[t] = Idle /\ \A u \in Transfers : u # t => v.work[u] = calls[c].work[u]
  BY <1>1, <1>6 DEF Call
<1>11. Kept
  BY <1>7, <1>8, Distinct DEF Kept, Past
<1>12. Past(row, t)'
  BY <1>11, <1>4 DEF Kept
<1>13. Holds(v)'
  <2>1. \A u \in Transfers : v.work[u] \in Answer => Past(v.work[u], u)'
    BY <1>1, <1>10, <1>11, Distinct DEF Holds, Kept
  <2>2. \A s \in v.shown : Past(s.row, s.id)' /\ rows'[s.id] # None
    BY <1>8, <1>10, <1>12, Distinct
  <2>3. \A u \in Transfers : v.work[u] # Idle => rows'[u] # None
    BY <1>1, <1>10, <1>11 DEF Holds, Kept
  <2> QED
    BY <1>1, <1>10, <2>1, <2>2, <2>3 DEF Holds
<1>14. CallsHold' /\ calls' \in [Calls -> Call \cup {NoCall}]
  BY <1>9, <1>10, <1>11, <1>13, OneCall
<1>15. TypeOK'
  BY <1>7, <1>8, <1>14 DEF IInv, TypeOK
<1>16. RowsArePast'
  BY <1>8, <1>11, <1>12, Distinct DEF IInv, TypeOK, RowsArePast, Kept
<1> QED
  BY <1>7, <1>11, <1>14, <1>15, <1>16, PageStays, OpenedStay, MovedStay DEF IInv

-----------------------------------------------------------------------------
(* A step of the page: what it shows, what it has sent, what was opened.   *)
LEMMA PageStep ==
  ASSUME IInv, UNCHANGED <<anchor, rows>>, page' \in Page,
         \A s \in page'.list : s \in page.list \/ (Past(s.row, s.id) /\ rows[s.id] # None),
         opened \subseteq opened', \A t \in opened' : t \in opened \/ (t \in Transfers /\ rows[t] # None),
         NEW c \in Calls, NEW v \in Call \cup {NoCall},
         calls' = [calls EXCEPT ![c] = v], v # NoCall => Holds(v)
  PROVE  IInv'
<1>1. Kept
  BY KeptByDefault
<1>2. v # NoCall => Holds(v)'
  BY <1>1, HoldsStays
<1>3. CallsHold' /\ calls' \in [Calls -> Call \cup {NoCall}]
  BY <1>1, <1>2, OneCall
<1>4. TypeOK'
  BY <1>3 DEF IInv, TypeOK
<1>5. PageIsPast'
  <2>1. \A s \in page'.list : Past(s.row, s.id) /\ rows[s.id] # None
    BY DEF IInv, PageIsPast
  <2> QED
    BY <2>1 DEF PageIsPast, Past
<1>6. OpenedHaveRows'
  BY DEF IInv, OpenedHaveRows
<1> QED
  BY <1>1, <1>3, <1>4, <1>5, <1>6, RowsStay, MovedStay DEF IInv

LEMMA OpenPageStep ==
  ASSUME IInv, NEW c \in Calls, OpenPage(c)
  PROVE  IInv'
<1> DEFINE v == [op |-> "history", pc |-> "call", id |-> NoTransfer, work |-> HistoryWork, shown |-> {}, live |-> TRUE]
<1>1. HistoryWork \in [Transfers -> Answer \cup {Idle, Ask}]
  BY DEF HistoryWork
<1>2. v \in Call
  BY <1>1 DEF Call
<1>3. \A t \in Transfers : HistoryWork[t] \notin Answer /\ (HistoryWork[t] # Idle => rows[t] # None)
  BY Distinct DEF HistoryWork
<1>4. Holds(v)
  BY <1>3 DEF Holds
<1>5. /\ calls' = [calls EXCEPT ![c] = v] /\ UNCHANGED <<anchor, opened, rows>>
      /\ page' = [page EXCEPT !.open = TRUE]
  BY DEF OpenPage, Request
<1>6. page' \in Page /\ page'.list = page.list
  BY <1>5 DEF IInv, TypeOK, Page
<1> HIDE DEF v
<1> QED
  BY <1>2, <1>4, <1>5, <1>6, PageStep

LEMMA RefreshStep ==
  ASSUME IInv, NEW c \in Calls, NEW t \in Transfers, Refresh(c, t)
  PROVE  IInv'
<1> DEFINE v == [op |-> "status", pc |-> "call", id |-> t, work |-> StatusWork(t),
                 shown |-> {[id |-> t, row |-> rows[t]]}, live |-> TRUE]
<1>1. rows[t] # None /\ rows[t] \in Answer /\ Past(rows[t], t)
  BY DEF Refresh, IInv, TypeOK, PageIsPast, RowsArePast
<1>2. /\ StatusWork(t) \in [Transfers -> Answer \cup {Idle, Ask}]
      /\ \A u \in Transfers : StatusWork(t)[u] \notin Answer /\ (StatusWork(t)[u] # Idle => u = t)
  BY Distinct DEF StatusWork, NoWork
<1>3. v \in Call
  BY <1>1, <1>2 DEF Call, Shown
<1>4. Holds(v)
  BY <1>1, <1>2 DEF Holds
<1>5. /\ calls' = [calls EXCEPT ![c] = v] /\ UNCHANGED <<anchor, opened, rows>>
      /\ page' = [page EXCEPT !.refreshing = t]
  BY DEF Refresh, Request
<1>6. page' \in Page /\ page'.list = page.list
  BY <1>5 DEF IInv, TypeOK, Page
<1> HIDE DEF v
<1> QED
  BY <1>3, <1>4, <1>5, <1>6, PageStep

LEMMA ReceivedTyped ==
  ASSUME IInv, NEW c \in Calls, calls[c] # NoCall
  PROVE  /\ Received(c) \in Page
         /\ Received(c).list \subseteq page.list \cup calls[c].shown
<1>1. page \in Page /\ calls[c].shown \in SUBSET Shown /\ page.list \in SUBSET Shown
  BY Served DEF IInv, TypeOK, Page, Call
<1>2. CASE calls[c].op = "history"
  <2>1. Received(c) = [page EXCEPT !.list = calls[c].shown]
    BY <1>2 DEF Received
  <2> QED
    BY <1>1, <2>1 DEF Page
<1>3. CASE calls[c].op = "initiate"
  <2>1. Received(c) = [page EXCEPT !.list = page.list \cup calls[c].shown]
    BY <1>3 DEF Received
  <2> QED
    BY <1>1, <2>1 DEF Page
<1>4. CASE calls[c].op \notin {"history", "initiate"}
  <2> DEFINE l == {s \in page.list : s.id # calls[c].id} \cup
                  (IF \E s \in page.list : s.id = calls[c].id THEN calls[c].shown ELSE {})
  <2>1. Received(c) = [page EXCEPT !.refreshing = NoTransfer, !.list = l]
    BY <1>4 DEF Received
  <2>2. l \in SUBSET Shown /\ l \subseteq page.list \cup calls[c].shown
    BY <1>1
  <2> HIDE DEF l
  <2> QED
    BY <1>1, <2>1, <2>2 DEF Page
<1> QED
  BY <1>2, <1>3, <1>4

LEMMA DeliverStep ==
  ASSUME IInv, NEW c \in Calls, Deliver(c)
  PROVE  IInv'
<1>1. calls[c] \in Call /\ Holds(calls[c]) /\ calls[c] # NoCall /\ calls[c].pc = "reply"
  BY Served DEF Deliver
<1>2. page' \in Page /\ page'.list \subseteq page.list \cup calls[c].shown
  BY <1>1, ReceivedTyped DEF Deliver, IInv, TypeOK
<1>3. \A s \in page'.list : s \in page.list \/ (Past(s.row, s.id) /\ rows[s.id] # None)
  BY <1>1, <1>2 DEF Holds
<1>4. calls[c].op = "initiate" => calls[c].id \in Transfers /\ rows[calls[c].id] # None
  BY <1>1 DEF Holds, Initiating
<1>5. opened \subseteq opened' /\ \A t \in opened' : t \in opened \/ (t \in Transfers /\ rows[t] # None)
  BY <1>4 DEF Deliver
<1>6. calls' = [calls EXCEPT ![c] = NoCall] /\ UNCHANGED <<anchor, rows>>
  BY DEF Deliver, HangUp
<1> QED
  BY <1>2, <1>3, <1>5, <1>6, PageStep

LEMMA DiscardStep ==
  ASSUME IInv, NEW c \in Calls, Discard(c)
  PROVE  IInv'
<1>1. calls' = [calls EXCEPT ![c] = NoCall] /\ UNCHANGED <<anchor, opened, rows>>
  BY DEF Discard, HangUp
<1>2. page' \in Page /\ page'.list = page.list
  BY DEF Discard, IInv, TypeOK, Page
<1> QED
  BY <1>1, <1>2, PageStep

-----------------------------------------------------------------------------
(* Steps that leave what every call holds as it is.                        *)
LEMMA AllCallsStay ==
  ASSUME IInv, Kept,
         \A c \in Calls : \/ calls'[c] = calls[c]
                          \/ /\ calls[c] # NoCall /\ calls'[c] \in Call
                             /\ calls'[c].op = calls[c].op /\ calls'[c].shown = calls[c].shown
                             /\ \/ calls'[c].pc = "failed" /\ calls'[c].work = NoWork
                                \/ /\ calls'[c].pc = calls[c].pc /\ calls'[c].work = calls[c].work
                                   /\ calls'[c].id = calls[c].id
  PROVE  CallsHold'
<1> SUFFICES ASSUME NEW c \in Calls, calls'[c] # NoCall
             PROVE  Holds(calls[c])'
  BY DEF CallsHold
<1>1. calls[c] # NoCall
  OBVIOUS
<1>2. PICK w \in Call : w = calls[c]
  BY <1>1, Served
<1>3. Holds(w)'
  BY <1>1, <1>2, Served, HoldsStays
<1>4. PICK u : u = calls'[c]
  OBVIOUS
<1>5. CASE u.op = w.op /\ u.shown = w.shown /\ u.pc = w.pc /\ u.work = w.work /\ u.id = w.id
  <2>1. Holds(u)'
    BY <1>3, <1>5 DEF Holds, Initiating
  <2> QED
    BY <1>4, <2>1 DEF Holds, Initiating
<1>6. CASE u.op = w.op /\ u.shown = w.shown /\ u.pc = "failed" /\ u.work = NoWork
  <2>1. Holds(u)'
    BY <1>3, <1>6, Distinct DEF Holds, Initiating, NoWork
  <2> QED
    BY <1>4, <2>1 DEF Holds, Initiating
<1> QED
  BY <1>2, <1>4, <1>5, <1>6

LEMMA ClosePageStep ==
  ASSUME IInv, ClosePage
  PROVE  IInv'
<1>1. Kept /\ UNCHANGED <<anchor, opened, rows>>
  BY KeptByDefault DEF ClosePage
<1>2. \A c \in Calls : calls[c] # NoCall => calls[c] \in Call
  BY Served
<1>3. calls' \in [Calls -> Call \cup {NoCall}]
  BY <1>2 DEF ClosePage, Call
<1>4. CallsHold'
  BY <1>1, <1>2, AllCallsStay DEF ClosePage, Call
<1>5. page' \in Page /\ page'.list = {}
  BY DEF ClosePage, ClosedPage, Page
<1>6. TypeOK' /\ PageIsPast'
  BY <1>1, <1>3, <1>5 DEF IInv, TypeOK, PageIsPast
<1> QED
  BY <1>1, <1>4, <1>6, RowsStay, OpenedStay, MovedStay DEF IInv

LEMMA CrashStep ==
  ASSUME IInv, Crash
  PROVE  IInv'
<1>1. Kept /\ UNCHANGED <<anchor, opened, rows, page>>
  BY KeptByDefault DEF Crash
<1>2. \A c \in Calls : calls[c] # NoCall => calls[c] \in Call
  BY Served
<1>3. calls' \in [Calls -> Call \cup {NoCall}]
  BY <1>2, NoWorkTyped DEF Crash, Call
<1>4. CallsHold'
  BY <1>1, <1>2, NoWorkTyped, AllCallsStay DEF Crash, Call
<1>5. TypeOK'
  BY <1>1, <1>3 DEF IInv, TypeOK
<1> QED
  BY <1>1, <1>4, <1>5, RowsStay, PageStays, OpenedStay, MovedStay DEF IInv

LEMMA AnchorMovesStep ==
  ASSUME IInv, NEW t \in Transfers, AnchorMoves(t)
  PROVE  IInv'
<1>1. PICK a \in Answer :
        /\ anchor[t].amount # NoAmount => a.amount # NoAmount
        /\ \/ t \in opened /\ a.status \in {"pending", "completed", "failed"}
           \/ anchor[t].status = "incomplete" /\ a.status = "expired"
        /\ anchor' = [anchor EXCEPT ![t] = a]
  BY DEF AnchorMoves
<1>2. anchor[t] # None /\ ~Settled(anchor[t]) /\ UNCHANGED <<opened, rows, calls, page>>
  BY DEF AnchorMoves
<1>3. /\ anchor' \in [Transfers -> Answer \cup {None}] /\ anchor'[t] = a
      /\ \A u \in Transfers : u # t => anchor'[u] = anchor[u]
  BY <1>1 DEF IInv, TypeOK
<1>4. Kept
  BY <1>1, <1>2, <1>3, Distinct DEF Kept, Past
<1>5. CallsHold'
  BY <1>2, <1>4, AllCallsStay
<1>6. TypeOK'
  BY <1>2, <1>3 DEF IInv, TypeOK
<1>7. MovedWereOpened'
  BY <1>1, <1>2, <1>3 DEF IInv, MovedWereOpened
<1> QED
  BY <1>2, <1>4, <1>5, <1>6, <1>7, RowsStay, PageStays, OpenedStay DEF IInv

LEMMA OpenLinkStep ==
  ASSUME IInv, NEW t \in Transfers, OpenLink(t)
  PROVE  IInv'
<1>1. Kept /\ UNCHANGED <<anchor, rows, calls, page>> /\ opened' = opened \cup {t}
  BY KeptByDefault DEF OpenLink
<1>2. rows[t] # None
  BY DEF OpenLink, IInv, PageIsPast
<1>3. CallsHold'
  BY <1>1, AllCallsStay
<1>4. TypeOK' /\ OpenedHaveRows'
  BY <1>1, <1>2 DEF IInv, TypeOK, OpenedHaveRows
<1> QED
  BY <1>1, <1>3, <1>4, RowsStay, PageStays, MovedStay DEF IInv

LEMMA Stuttering ==
  ASSUME IInv, UNCHANGED vars
  PROVE  IInv'
<1>1. Kept /\ UNCHANGED <<anchor, opened, rows, calls, page>>
  BY KeptByDefault DEF vars
<1>2. CallsHold'
  BY <1>1, AllCallsStay
<1>3. TypeOK'
  BY <1>1 DEF IInv, TypeOK
<1> QED
  BY <1>1, <1>2, <1>3, RowsStay, PageStays, OpenedStay, MovedStay DEF IInv

(* Every step of the API, the page and the anchor keeps the invariant.     *)
LEMMA InvariantKept == IInv /\ [Next]_vars => IInv'
<1> SUFFICES ASSUME IInv, [Next]_vars PROVE IInv'
  OBVIOUS
<1>1. ASSUME NEW c \in Calls, Serve(c) PROVE IInv'
  BY <1>1, FailsStep, DescribeNewStep, RecordNewStep, AnsweredStep, CreateAtAnchorStep,
     AskAnchorStep, SkipRefreshStep, WriteRefreshStep DEF Serve
<1>2. ASSUME NEW c \in Calls, Browse(c) PROVE IInv'
  BY <1>2, OpenPageStep, SubmitStep, DeliverStep, DiscardStep, RefreshStep DEF Browse
<1>3. ASSUME NEW t \in Transfers, AnchorMoves(t) \/ OpenLink(t) PROVE IInv'
  BY <1>3, AnchorMovesStep, OpenLinkStep
<1> QED
  BY <1>1, <1>2, <1>3, ClosePageStep, CrashStep, Stuttering DEF Next

LEMMA Invariance == Spec => []IInv
BY InitHolds, InvariantKept, PTL DEF Spec

-----------------------------------------------------------------------------
(* Whatever a call holds and the page shows are transfers and answers of   *)
(* the anchor, for any number of transfers and requests.                   *)
THEOREM AnchorTypeCorrect == Spec => []TypeOK
<1>1. IInv => TypeOK
  BY DEF IInv
<1> QED
  BY <1>1, Invariance, PTL

(* However many refreshes of a row overtake each other, a row that says    *)
(* its transfer is over says how it ended (refreshFromAnchor).             *)
THEOREM SettledRowsMatchTheorem == Spec => []SettledRowsMatch
<1>1. IInv => SettledRowsMatch
  BY DEF IInv, RowsArePast, Past, SettledRowsMatch
<1> QED
  BY <1>1, Invariance, PTL

(* Nor does the page ever show a transfer as over that is not, in whatever *)
(* order its answers arrive (loadHistory, handleSubmit, handleRefresh).    *)
THEOREM ShownSettledMatchTheorem == Spec => []ShownSettledMatch
<1>1. IInv => ShownSettledMatch
  BY DEF IInv, PageIsPast, Past, ShownSettledMatch
<1> QED
  BY <1>1, Invariance, PTL

(* A transfer that has gone anywhere at the anchor has its row, whatever   *)
(* fails or restarts between the two (initiate).                           *)
THEOREM MoneyIsTrackedTheorem == Spec => []MoneyIsTracked
<1>1. IInv => MoneyIsTracked
  BY DEF IInv, OpenedHaveRows, MovedWereOpened, MoneyIsTracked
<1> QED
  BY <1>1, Invariance, PTL
=============================================================================
