-------------------------------- MODULE Port --------------------------------
(* The process of the FastAPI port that serves escrow requests and         *)
(* refreshes anchor transfers in the background: what both keep in memory  *)
(* is lost together when it is restarted.                                  *)
EXTENDS Naturals

CONSTANTS Refreshes, MaxFailures, MaxRetries, Keys, Calls, None, Over
VARIABLES breaker, refreshes, up, escrows, calls

ASSUME LimitsAssumption == MaxFailures \in Nat \ {0} /\ MaxRetries \in Nat \ {0}

A == INSTANCE PortAnchor WITH Idle <- None
E == INSTANCE PortEscrow

ASSUME NamesAssumption == None \notin E!Row

Init == A!Init /\ E!Init

Restart == A!Restart /\ E!Restart

Next ==
  \/ A!Next /\ UNCHANGED <<escrows, calls>>
  \/ E!Next /\ UNCHANGED <<breaker, refreshes, up>>
  \/ Restart

vars == <<breaker, refreshes, up, escrows, calls>>
Spec == Init /\ [][Next]_vars /\ A!AnchorFairness

TypeOK == A!TypeOK /\ E!TypeOK

(* PortAnchor, for the process as a whole: the breaker is closed exactly   *)
(* while fewer than MaxFailures failures followed the last success.        *)
ClosedBelowLimit == A!ClosedBelowLimit

(* PortAnchor: when the anchor is back for good, the breaker closes.       *)
ClosesAgain == A!ClosesAgain

(* PortEscrow: a closed row was deposited and has the hash of its closing. *)
ClosedAsWritten == E!ClosedAsWritten

(* PortEscrow: a closed row that nobody holds as PENDING stays closed.     *)
StaysClosed == [][\A k \in Keys : E!ClosedForGood(k) => E!ClosedForGood(k)']_vars
=============================================================================
