------------------------------- MODULE Anchor -------------------------------
(***************************************************************************)
(* SEP-24 transfers: AnchorService of apps/api between the anchor, whose   *)
(* transfers move on their own, the anchor_transactions table, and the     *)
(* anchor page of apps/web.  The API asks the anchor when somebody looks;  *)
(* what it heard is written back later, and other calls for the same       *)
(* transfer may have asked and written in between.  A step is what a       *)
(* process does between two awaits.                                        *)
(*                                                                         *)
(* Modelled for one user.  The page knows no ids but those of the user's   *)
(* own rows, so getOwnedAnchorTransaction never refuses its requests.      *)
(***************************************************************************)
EXTENDS Integers

CONSTANTS
  Transfers,   \* the anchor's transaction ids
  Amounts,     \* amounts the anchor reports
  Calls        \* bound: requests the API serves at a time

VARIABLES
  anchor,    \* the anchor's transactions
  opened,    \* transfers whose interactive URL the user has opened
  rows,      \* anchor_transactions, by sep24_transaction_id
  calls,     \* requests to /anchor, until their answer reached the page or was lost
  page       \* the anchor page

vars == <<anchor, opened, rows, calls, page>>

None == [status |-> "none"]
NoAmount == <<>>
NoTransfer == <<>>

(* SEP24_IN_PROGRESS_STATUSES: of the nine, "incomplete" waits for the     *)
(* user to open the link and "pending" stands for the others.  "failed" is *)
(* refunded or error, which the code treats alike.                         *)
InProgress == {"incomplete", "pending"}
Final == {"completed", "failed", "expired"}

Answer == [status : InProgress \cup Final, amount : Amounts \cup {NoAmount}]
Settled(a) == a.status \in Final
Started == [status |-> "incomplete", amount |-> NoAmount]

\* Mutant: a status is missing from the set of those in progress.
RefreshableWhenNew(a) == a.status = "incomplete"
Refreshable(a) == a.status \in InProgress

(* A refresh of one transfer inside a call: to be asked, its answer to be  *)
(* written, or over.                                                       *)
Idle == [status |-> "idle"]
Ask == [status |-> "ask"]
NoCall == [op |-> "none"]
(* shown is what the call will answer with: the rows of a history, the row *)
(* of a status or of a new transfer.  live tells whether the page that     *)
(* sent the request is still there.                                        *)
Shown == [id : Transfers, row : Answer]
Call == [op : {"initiate", "status", "history"}, pc : {"call", "created", "described", "reply", "failed"},
         id : Transfers \cup {NoTransfer}, work : [Transfers -> Answer \cup {Idle, Ask}],
         shown : SUBSET Shown, live : BOOLEAN]
Page == [open : BOOLEAN, list : SUBSET Shown, refreshing : Transfers \cup {NoTransfer}]

TypeOK ==
  /\ anchor \in [Transfers -> Answer \cup {None}]
  /\ opened \subseteq Transfers
  /\ rows \in [Transfers -> Answer \cup {None}]
  /\ calls \in [Calls -> Call \cup {NoCall}]
  /\ page \in Page

NoWork == [t \in Transfers |-> Idle]
ClosedPage == [open |-> FALSE, list |-> {}, refreshing |-> NoTransfer]

Init ==
  /\ anchor = [t \in Transfers |-> None]
  /\ opened = {}
  /\ rows = [t \in Transfers |-> None]
  /\ calls = [c \in Calls |-> NoCall]
  /\ page = ClosedPage

-----------------------------------------------------------------------------
(* The anchor and the user on its site *)

(* An interactive transfer goes nowhere before the user fills in what its  *)
(* URL shows; only its deadline passes without.                            *)
AnchorMoves(t) ==
  /\ anchor[t] # None
  /\ ~Settled(anchor[t])
  /\ \E a \in Answer :
       /\ anchor[t].amount # NoAmount => a.amount # NoAmount
       /\ \/ t \in opened /\ a.status \in {"pending", "completed", "failed"}
          \/ anchor[t].status = "incomplete" /\ a.status = "expired"
       /\ anchor' = [anchor EXCEPT ![t] = a]
  /\ UNCHANGED <<opened, rows, calls, page>>

-----------------------------------------------------------------------------
(* AnchorService: initiate *)

Serving(c, op, pc) == calls[c].op = op /\ calls[c].pc = pc

(* Before anything is asked of the anchor comes the SEP-10 login, which    *)
(* may throw.                                                              *)
LoggingIn(c) ==
  \/ Serving(c, "initiate", "call")
  \/ Serving(c, "status", "call") /\ calls[c].work[calls[c].id] = Ask

(* So may the stellar.toml, the wallet, the anchor's answers and the       *)
(* database; nor does a toml without the endpoints go further.             *)
Fails(c) ==
  /\ \/ LoggingIn(c)
     \/ Serving(c, "initiate", "created")
     \/ Serving(c, "initiate", "described")
     \/ Serving(c, "status", "call") /\ calls[c].work[calls[c].id] \in Answer
  /\ calls' = [calls EXCEPT ![c] = [@ EXCEPT !.pc = "failed", !.work = NoWork]]
  /\ UNCHANGED <<anchor, opened, rows, page>>

CreateAtAnchor(c, t) ==
  /\ Serving(c, "initiate", "call")
  /\ anchor[t] = None
  /\ anchor' = [anchor EXCEPT ![t] = Started]
  /\ calls' = [calls EXCEPT ![c] = [@ EXCEPT !.pc = "created", !.id = t]]
  /\ UNCHANGED <<opened, rows, page>>

(* getSep24Transaction                                                     *)
Polled(t) == anchor[t]

DescribeNew(c) ==
  LET t == calls[c].id
  IN /\ Serving(c, "initiate", "created")
     /\ calls' = [calls EXCEPT ![c].pc = "described", ![c].work[t] = Polled(t)]
     /\ UNCHANGED <<anchor, opened, rows, page>>

(* The repository's insert.                                                *)
Create(t, row) == rows' = [rows EXCEPT ![t] = row]

\* Mutant: the insert is not awaited, and fails.
InsertNotAwaited(c) ==
  /\ Serving(c, "initiate", "described")
  /\ calls' = [calls EXCEPT ![c] = [@ EXCEPT !.pc = "reply", !.work = NoWork]]
  /\ UNCHANGED <<anchor, opened, rows, page>>

RecordNew(c) ==
  LET t == calls[c].id
      row == calls[c].work[t]
  IN /\ Serving(c, "initiate", "described")
     /\ Create(t, row)
     /\ calls' = [calls EXCEPT ![c] =
          [@ EXCEPT !.pc = "reply", !.work = NoWork, !.shown = {[id |-> t, row |-> row]}]]
     /\ UNCHANGED <<anchor, opened, page>>

-----------------------------------------------------------------------------
(* AnchorService: refreshFromAnchor, alone for a status request and in     *)
(* parallel for every row in progress of a history request                 *)

AskAnchor(c, t) ==
  /\ calls[c] # NoCall
  /\ calls[c].pc = "call"
  /\ calls[c].work[t] = Ask
  /\ calls' = [calls EXCEPT ![c].work[t] = Polled(t)]
  /\ UNCHANGED <<anchor, opened, rows, page>>

(* A history request carries on without a refresh that threw, at whatever  *)
(* point; either kind answers with the row as it was read when the toml    *)
(* lists no endpoints.                                                     *)
SkipRefresh(c, t) ==
  /\ calls[c] # NoCall
  /\ calls[c].pc = "call"
  /\ \/ calls[c].work[t] = Ask
     \/ calls[c].op = "history" /\ calls[c].work[t] \in Answer
  /\ calls' = [calls EXCEPT ![c].work[t] = Idle]
  /\ UNCHANGED <<anchor, opened, rows, page>>

\* Mutant: only the status is written back.
MergeStatus(row, a) == [row EXCEPT !.status = a.status]

(* updateFromAnchor: absent fields keep the row's values.                  *)
Merge(row, a) ==
  [status |-> a.status, amount |-> IF a.amount = NoAmount THEN row.amount ELSE a.amount]

WriteRefresh(c, t) ==
  /\ calls[c] # NoCall
  /\ calls[c].op # "initiate"
  /\ calls[c].work[t] \in Answer
  /\ rows' = [rows EXCEPT ![t] = Merge(rows[t], calls[c].work[t])]
  /\ calls' = [calls EXCEPT ![c].work[t] = Idle,
       ![c].shown = IF calls[c].op = "status" THEN {[id |-> t, row |-> rows'[t]]} ELSE {}]
  /\ UNCHANGED <<anchor, opened, page>>

(* The rows a history answers with are read when all its refreshes are     *)
(* over.                                                                   *)
Recorded == {[id |-> t, row |-> rows[t]] : t \in {u \in Transfers : rows[u] # None}}

Answered(c) ==
  /\ calls[c] # NoCall
  /\ calls[c].op # "initiate"
  /\ calls[c].pc = "call"
  /\ calls[c].work = NoWork
  /\ calls' = [calls EXCEPT ![c] =
       [@ EXCEPT !.pc = "reply", !.shown = IF calls[c].op = "history" THEN Recorded ELSE calls[c].shown]]
  /\ UNCHANGED <<anchor, opened, rows, page>>

(* The process restarts: what it was serving is gone.                      *)
Crash ==
  /\ calls' = [c \in Calls |->
       IF calls[c] = NoCall \/ calls[c].pc = "reply" THEN calls[c]
       ELSE [calls[c] EXCEPT !.pc = "failed", !.work = NoWork]]
  /\ UNCHANGED <<anchor, opened, rows, page>>

-----------------------------------------------------------------------------
(* The anchor page *)

Request(c, op, id, work, shown) ==
  /\ calls[c] = NoCall
  /\ calls' = [calls EXCEPT ![c] =
       [op |-> op, pc |-> "call", id |-> id, work |-> work, shown |-> shown, live |-> TRUE]]

(* Mounted, the page loads the history; the API refreshes the rows that    *)
(* are in progress.                                                        *)
HistoryWork == [t \in Transfers |-> IF rows[t] # None /\ Refreshable(rows[t]) THEN Ask ELSE Idle]

OpenPage(c) ==
  /\ ~page.open
  /\ page' = [page EXCEPT !.open = TRUE]
  /\ Request(c, "history", NoTransfer, HistoryWork, {})
  /\ UNCHANGED <<anchor, opened, rows>>

ClosePage ==
  /\ page.open
  /\ page' = ClosedPage
  /\ calls' = [c \in Calls |-> IF calls[c] = NoCall THEN NoCall ELSE [calls[c] EXCEPT !.live = FALSE]]
  /\ UNCHANGED <<anchor, opened, rows>>

(* The submit button is disabled while a submission is on its way.         *)
Submitting == \E c \in Calls : calls[c].op = "initiate" /\ calls[c].live

Submit(c) ==
  /\ page.open
  /\ ~Submitting
  /\ Request(c, "initiate", NoTransfer, NoWork, {})
  /\ UNCHANGED <<anchor, opened, rows, page>>

(* The API answers with a settled row as it is.                            *)
StatusWork(t) == [NoWork EXCEPT ![t] = IF Refreshable(rows[t]) THEN Ask ELSE Idle]

(* A row's button is disabled while it is the one refreshing.              *)
Refresh(c, t) ==
  /\ page.open
  /\ \E s \in page.list : s.id = t
  /\ page.refreshing # t
  /\ page' = [page EXCEPT !.refreshing = t]
  /\ Request(c, "status", t, StatusWork(t), {[id |-> t, row |-> rows[t]]})
  /\ UNCHANGED <<anchor, opened, rows>>

(* The link of a row that waits for the user.                              *)
OpenLink(t) ==
  /\ \E s \in page.list : s.id = t /\ ~Settled(s.row)
  /\ opened' = opened \cup {t}
  /\ UNCHANGED <<anchor, rows, calls, page>>

\* Mutant: the page takes over only the status.
ReceivedStatus(c) ==
  [page EXCEPT !.refreshing = NoTransfer,
     !.list = {IF s.id = n.id THEN [s EXCEPT !.row.status = n.row.status] ELSE s :
                 s \in @ \cup calls[c].shown, n \in calls[c].shown}]

(* A new row is put before the others and its URL opened; a refreshed row  *)
(* takes the place of the one with its id; a history takes the whole list. *)
Received(c) ==
  LET new == calls[c].shown
      t == calls[c].id
  IN CASE calls[c].op = "history" -> [page EXCEPT !.list = new]
       [] calls[c].op = "initiate" -> [page EXCEPT !.list = @ \cup new]
       [] OTHER -> [page EXCEPT !.refreshing = NoTransfer,
                      !.list = {s \in @ : s.id # t} \cup (IF \E s \in @ : s.id = t THEN new ELSE {})]

HangUp(c) == calls' = [calls EXCEPT ![c] = NoCall]

(* The URL is opened even when the user has left the page meanwhile.       *)
Deliver(c) ==
  /\ calls[c] # NoCall
  /\ calls[c].pc = "reply"
  /\ page' = IF calls[c].live THEN Received(c) ELSE page
  /\ opened' = IF calls[c].op = "initiate" THEN opened \cup {calls[c].id} ELSE opened
  /\ HangUp(c)
  /\ UNCHANGED <<anchor, rows>>

(* The call failed, or its answer is lost on the way.                      *)
Discard(c) ==
  /\ calls[c] # NoCall
  /\ calls[c].pc \in {"reply", "failed"}
  /\ page' = IF calls[c].live /\ calls[c].op = "status" THEN [page EXCEPT !.refreshing = NoTransfer] ELSE page
  /\ HangUp(c)
  /\ UNCHANGED <<anchor, opened, rows>>

-----------------------------------------------------------------------------
Serve(c) ==
  \/ Fails(c)
  \/ DescribeNew(c)
  \/ RecordNew(c)
  \/ Answered(c)
  \/ \E t \in Transfers : CreateAtAnchor(c, t) \/ AskAnchor(c, t) \/ SkipRefresh(c, t) \/ WriteRefresh(c, t)

Browse(c) ==
  \/ OpenPage(c)
  \/ Submit(c)
  \/ Deliver(c)
  \/ Discard(c)
  \/ \E t \in Transfers : Refresh(c, t)

Next ==
  \/ \E c \in Calls : Serve(c) \/ Browse(c)
  \/ \E t \in Transfers : AnchorMoves(t) \/ OpenLink(t)
  \/ ClosePage
  \/ Crash

Spec == Init /\ [][Next]_vars

(* The API carries on with what it serves, the user keeps coming back to   *)
(* the page and to an unsettled row, and what is tried again and again     *)
(* works once: reaching the anchor, writing what it said before the API    *)
(* restarts, getting a history to the page.                                *)
Proceed == \E c \in Calls : Serve(c) \/ Discard(c)
LoadAgain == \E c \in Calls : OpenPage(c)
HistoryArrives == \E c \in Calls : calls[c].op = "history" /\ Deliver(c)
LookAgain(t) == \E c \in Calls : Refresh(c, t)
AskAgain(t) == \E c \in Calls : AskAnchor(c, t)
WriteAgain(t) == \E c \in Calls : WriteRefresh(c, t)

Fairness ==
  /\ WF_vars(Proceed) /\ WF_vars(ClosePage)
  /\ SF_vars(LoadAgain) /\ SF_vars(HistoryArrives)
  /\ \A t \in Transfers : SF_vars(LookAgain(t)) /\ SF_vars(AskAgain(t)) /\ SF_vars(WriteAgain(t))

FairSpec == Spec /\ Fairness

-----------------------------------------------------------------------------
(* A row that says a transfer is over says how it ended: refreshes that    *)
(* overtake each other may set a row back to pending, but never leave a    *)
(* settled row with another outcome or with an amount that was reported    *)
(* before the anchor settled (refreshFromAnchor, updateFromAnchor).        *)
SettledRowsMatch ==
  \A t \in Transfers : rows[t] # None /\ Settled(rows[t]) => rows[t] = anchor[t]

(* Whatever answers arrive at the page in whatever order, a transfer it    *)
(* shows as over ended that way (loadHistory, handleSubmit, handleRefresh).*)
ShownSettledMatch == \A s \in page.list : Settled(s.row) => s.row = anchor[s.id]

(* No transfer the user has taken any further at the anchor is missing     *)
(* from the table: the URL is given out after the row is written, and a    *)
(* call that dies between the two leaves one at the anchor that only       *)
(* expires (initiate).                                                     *)
MoneyIsTracked ==
  \A t \in Transfers :
    anchor[t] # None /\ anchor[t].status \notin {"incomplete", "expired"} => rows[t] # None

(* A transfer that is over at the anchor is over in the table from some    *)
(* point on, however many refreshes still hold older answers.              *)
RowsSettle ==
  \A t \in Transfers : (rows[t] # None /\ Settled(anchor[t])) ~> [](Settled(rows[t]))
=============================================================================
