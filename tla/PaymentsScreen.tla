--------------------------- MODULE PaymentsScreen ---------------------------
(***************************************************************************)
(* PaymentsScreen of apps/mobile with what feeds it: the event stream of   *)
(* subscribeToTransactionStream, the history it loads on every visit of    *)
(* the history tab and after a payment, and the poll that stands in for a  *)
(* failed stream.  Answers to history requests and pushed updates          *)
(* overwrite each other in the order they arrive.                          *)
(***************************************************************************)
EXTENDS PaymentStream

CONSTANTS MaxLoads   \* bound: history requests in flight

ASSUME MaxLoadsAssumption == MaxLoads \in Nat

VARIABLES
  token,       \* useAuth has an access token
  tab,
  conn,        \* subscribeToTransactionStream
  available,   \* streamAvailable
  loads,       \* history requests in flight: how many sent, how many answers of each kind
  list,        \* the row as the list shows it; "none" when it does not
  sending      \* a payment was sent and the screen waits for its answer

screenVars == <<token, tab, conn, available, loads, list, sending>>
vars == <<streamVars, screenVars>>

ScreenTypeOK ==
  /\ StreamTypeOK
  /\ token \in BOOLEAN /\ available \in BOOLEAN /\ sending \in BOOLEAN
  /\ tab \in {"history", "other"}
  /\ conn \in {"none", "opening", "open", "ended", "failed"}
  /\ loads \in [{"sent"} \cup Statuses -> 0 .. MaxLoads]
  /\ list \in Statuses

NoLoads == [l \in {"sent"} \cup Statuses |-> 0]

Init ==
  /\ StreamInit
  /\ token = FALSE
  /\ tab = "other" /\ conn = "none" /\ available = TRUE /\ list = "none" /\ sending = FALSE
  /\ loads = NoLoads

-----------------------------------------------------------------------------
(* The session *)

Blank ==
  /\ tab' = "other" /\ available' = TRUE /\ list' = "none" /\ sending' = FALSE
  /\ loads' = NoLoads

(* The user logs out, or the app is killed.  Only a start of the app       *)
(* brings a token again; until then what the screen shows is not followed. *)
Leave ==
  /\ token
  /\ token' = FALSE
  /\ Blank
  /\ UNCHANGED <<streamVars, conn>>

(* The clean-up of the effect aborts the stream, after the state changed.  *)
CleanUp ==
  /\ ~token /\ conn # "none"
  /\ conn' = "none"
  /\ UNCHANGED <<streamVars, token, tab, available, loads, list, sending>>

(* The app starts with a token: the effects run, and subscribe.            *)
Mount ==
  /\ ~token
  /\ token' = TRUE
  /\ conn' = "opening"
  /\ Blank
  /\ UNCHANGED streamVars

-----------------------------------------------------------------------------
(* History *)

InFlight ==
  loads["sent"] + loads["none"] + loads["PENDING"] + loads["SUCCESS"] + loads["FAILED"] + loads["NEEDS_REVIEW"]
StartsLoad == InFlight < MaxLoads /\ loads' = [loads EXCEPT !["sent"] = @ + 1]

\* Mutant: the history is loaded when the screen mounts and not on a visit.
ChangeTabOnly(t) ==
  /\ token /\ tab # t
  /\ tab' = t
  /\ UNCHANGED <<streamVars, token, conn, available, loads, list, sending>>

ChangeTab(t) ==
  /\ token /\ tab # t
  /\ tab' = t
  /\ IF t = "history" THEN StartsLoad ELSE UNCHANGED loads
  /\ UNCHANGED <<streamVars, token, conn, available, list, sending>>

LoadReads ==
  /\ loads["sent"] > 0
  /\ loads' = [loads EXCEPT !["sent"] = @ - 1, ![row] = @ + 1]
  /\ UNCHANGED <<streamVars, token, tab, conn, available, list, sending>>

LoadArrives(status) ==
  /\ loads[status] > 0
  /\ list' = status
  /\ loads' = [loads EXCEPT ![status] = @ - 1]
  /\ UNCHANGED <<streamVars, token, tab, conn, available, sending>>

LoadFails(l) ==
  /\ loads[l] > 0
  /\ loads' = [loads EXCEPT ![l] = @ - 1]
  /\ UNCHANGED <<streamVars, token, tab, conn, available, list, sending>>

(* Every 15 s, but only where the stream is known to be gone.              *)
Poll ==
  /\ token /\ tab = "history" /\ ~available
  /\ StartsLoad
  /\ UNCHANGED <<streamVars, token, tab, conn, available, list, sending>>

-----------------------------------------------------------------------------
(* Sending: the API (Payments) makes the row, and the handler writes the   *)
(* outcome; the screen reloads when it hears of success.                   *)

Send ==
  /\ token /\ tab = "other" /\ row = "none" /\ account
  /\ row' = "PENDING"
  /\ writers' = writers \cup {"handler"}
  /\ sending' = TRUE
  /\ UNCHANGED <<account, payments, subVars, token, tab, conn, available, loads, list>>

SendEnds ==
  /\ HandlerWrites
  /\ sending' = FALSE
  /\ (sending /\ StartsLoad) \/ UNCHANGED loads
  /\ UNCHANGED <<token, tab, conn, available, list>>

-----------------------------------------------------------------------------
(* The event stream *)

Accepted ==
  /\ conn = "opening"
  /\ Subscribe
  /\ conn' = "open"
  /\ UNCHANGED <<token, tab, available, loads, list, sending>>

\* Mutant: the error handler is not passed on.
StreamFailsUnheard ==
  /\ conn \in {"opening", "open"}
  /\ conn' = "failed"
  /\ UNCHANGED <<streamVars, token, tab, available, loads, list, sending>>

(* An error of the request or of its body reaches onError ...              *)
StreamFails ==
  /\ conn \in {"opening", "open"}
  /\ conn' = "failed"
  /\ available' = FALSE
  /\ UNCHANGED <<streamVars, token, tab, loads, list, sending>>

(* ... the end of it does not.                                             *)
StreamEnds ==
  /\ conn = "open" /\ sub = "over" /\ wire = 0
  /\ conn' = "ended"
  /\ sub' = "none"
  /\ UNCHANGED <<account, payments, row, writers, stream, last, resolving, wire,
                 token, tab, available, loads, list, sending>>

Receive ==
  /\ conn = "open" /\ wire > 0
  /\ wire' = wire - 1
  /\ available' = TRUE
  /\ list' = "SUCCESS"
  /\ UNCHANGED <<account, payments, row, writers, sub, stream, last, resolving,
                 token, tab, conn, loads, sending>>

(* The server notices that its subscriber has gone.                        *)
HangUp ==
  /\ conn # "open"
  /\ Unsubscribe
  /\ UNCHANGED screenVars

ApiCrash ==
  /\ StreamCrash
  /\ conn' = IF conn \in {"opening", "open"} THEN "failed" ELSE conn
  /\ available' = (available /\ conn' # "failed")
  /\ loads' = NoLoads
  /\ sending' = FALSE
  /\ UNCHANGED <<token, tab, list>>

Next ==
  \/ StreamNext /\ UNCHANGED screenVars
  \/ Leave \/ CleanUp \/ Mount
  \/ \E t \in {"history", "other"} : ChangeTab(t)
  \/ LoadReads \/ (\E s \in Statuses : LoadArrives(s)) \/ \E l \in DOMAIN loads : LoadFails(l)
  \/ Poll \/ Send \/ SendEnds
  \/ Accepted \/ StreamFails \/ StreamEnds \/ Receive \/ HangUp \/ ApiCrash

Spec == Init /\ [][Next]_vars

(* Timers fire, what was sent arrives or fails, and requests do not fail   *)
(* for ever.                                                               *)
Fairness ==
  /\ WF_vars(Poll)
  /\ SF_vars(LoadReads) /\ SF_vars(\E s \in Statuses : LoadArrives(s))

FairSpec == Spec /\ Fairness
-----------------------------------------------------------------------------

(* What the list shows as paid was paid: a payment of the row's terms is   *)
(* on the ledger, its own or one that cannot be told from it, whoever      *)
(* wrote the row and whichever answer or update came last.                 *)
ShownSuccessIsPaid == list = "SUCCESS" => Paid

CaughtUp == Settled(row) => list = row
StaysIn == <>[](token)

(* Whatever order history answers and pushed updates arrive in, a user who *)
(* keeps coming back to the history tab ends up seeing what became of the  *)
(* payment.                                                                *)
ReturningUserSees ==
  StaysIn /\ []<>(tab = "history") /\ []<>(tab = "other") => <>[]CaughtUp

(* So does one who stays on it, when the stream has failed.                *)
WaitingUserSees == StaysIn /\ <>[](tab = "history" /\ conn = "failed") => <>[]CaughtUp
=============================================================================
