----------------------------- MODULE PortAnchor -----------------------------
(***************************************************************************)
(* The circuit breaker of the FastAPI port between its background          *)
(* refreshes and one anchor.  The breaker lives in the memory of the       *)
(* process and is shared by all refreshes; those that were let through     *)
(* keep counting, whatever the breaker has become meanwhile.               *)
(***************************************************************************)
EXTENDS Integers

CONSTANTS
  Refreshes,    \* bound: refreshes under way at a time
  MaxFailures,  \* CIRCUIT_BREAKER_MAX_FAILURES
  MaxRetries,   \* attempts of one refresh
  Idle          \* no refresh

VARIABLES
  breaker,    \* CIRCUIT_BREAKER of the anchor's domain
  refreshes,  \* calls of refresh_from_anchor
  up          \* whether the anchor and the database answer

anchorVars == <<breaker, refreshes, up>>

(* cooling: the last failure is less than CIRCUIT_BREAKER_RESET_TIMEOUT    *)
(* ago.  Failures are counted up to the limit they are compared with.      *)
Breaker == [state : {"CLOSED", "OPEN", "HALF-OPEN"}, failures : 0..MaxFailures, cooling : BOOLEAN]
Closed == [state |-> "CLOSED", failures |-> 0, cooling |-> FALSE]

(* A refresh about to poll, or with its answer about to be committed.      *)
Refresh == [pc : {"poll", "commit"}, attempt : 0..MaxRetries - 1]

TypeOK ==
  /\ breaker \in Breaker
  /\ refreshes \in [Refreshes -> Refresh \cup {Idle}]
  /\ up \in BOOLEAN

Init ==
  /\ breaker = Closed
  /\ refreshes = [c \in Refreshes |-> Idle]
  /\ up = TRUE

Start(c) == refreshes' = [refreshes EXCEPT ![c] = [pc |-> "poll", attempt |-> 0]]

(* A history request has a row in progress.  A breaker that is half open   *)
(* lets everybody through.                                                 *)
Admit(c) ==
  /\ refreshes[c] = Idle
  /\ breaker.state # "OPEN"
  /\ Start(c)
  /\ UNCHANGED <<breaker, up>>

(* The first refresh more than the reset timeout after the last failure.   *)
Probe(c) ==
  /\ refreshes[c] = Idle
  /\ breaker.state = "OPEN"
  /\ ~breaker.cooling
  /\ breaker' = [breaker EXCEPT !.state = "HALF-OPEN"]
  /\ Start(c)
  /\ UNCHANGED up

\* Mutant: a refresh that is refused counts as a failure.
RefusalCounts(c) ==
  /\ refreshes[c] = Idle
  /\ breaker.state = "OPEN"
  /\ breaker' = [breaker EXCEPT !.cooling = TRUE]
  /\ UNCHANGED <<refreshes, up>>

(* CircuitBreakerOpenError; the background task goes on to its next row.   *)
Refuse(c) ==
  /\ refreshes[c] = Idle
  /\ breaker.state = "OPEN"
  /\ breaker.cooling
  /\ UNCHANGED anchorVars

(* The breaker is closed as soon as the anchor has answered, before the    *)
(* row is committed.                                                       *)
Answer(c) ==
  /\ up
  /\ refreshes[c] # Idle
  /\ refreshes[c].pc = "poll"
  /\ breaker' = [breaker EXCEPT !.state = "CLOSED", !.failures = 0]
  /\ refreshes' = [refreshes EXCEPT ![c].pc = "commit"]
  /\ UNCHANGED up

Commit(c) ==
  /\ up
  /\ refreshes[c] # Idle
  /\ refreshes[c].pc = "commit"
  /\ refreshes' = [refreshes EXCEPT ![c] = Idle]
  /\ UNCHANGED <<breaker, up>>

\* Mutant: the count is compared before the failure is added.
CountedLate ==
  LET n == IF breaker.failures < MaxFailures THEN breaker.failures + 1 ELSE MaxFailures
  IN [state |-> IF breaker.failures = MaxFailures THEN "OPEN" ELSE breaker.state,
      failures |-> n, cooling |-> TRUE]

(* One more failure of the domain.                                         *)
Counted ==
  LET n == IF breaker.failures < MaxFailures THEN breaker.failures + 1 ELSE MaxFailures
  IN [state |-> IF n = MaxFailures THEN "OPEN" ELSE breaker.state, failures |-> n, cooling |-> TRUE]

(* An attempt fails, at the anchor or in its commit: count it, and after   *)
(* the backoff try again without another look at the breaker.  A session   *)
(* rolled back by its failed commit may raise once more, which ends the    *)
(* refresh.                                                                *)
Fail(c) ==
  LET next == refreshes[c].attempt + 1
  IN /\ refreshes[c] # Idle
     /\ ~up
     /\ breaker' = Counted
     /\ \/ next < MaxRetries /\ refreshes' = [refreshes EXCEPT ![c] = [pc |-> "poll", attempt |-> next]]
        \/ /\ next = MaxRetries \/ refreshes[c].pc = "commit"
           /\ refreshes' = [refreshes EXCEPT ![c] = Idle]
     /\ UNCHANGED up

Cooled ==
  /\ breaker.cooling
  /\ breaker' = [breaker EXCEPT !.cooling = FALSE]
  /\ UNCHANGED <<refreshes, up>>

Outage == up' = ~up /\ UNCHANGED <<breaker, refreshes>>

(* The process is restarted: the breaker and its refreshes are gone.       *)
Restart == breaker' = Closed /\ refreshes' = [c \in Refreshes |-> Idle] /\ UNCHANGED up

Next ==
  \/ \E c \in Refreshes : Admit(c) \/ Probe(c) \/ Refuse(c) \/ Answer(c) \/ Commit(c) \/ Fail(c)
  \/ Cooled
  \/ Outage

(* Refreshes go on, time passes, and users keep asking for their history.  *)
AnchorFairness ==
  /\ \A c \in Refreshes : WF_anchorVars(Answer(c) \/ Commit(c) \/ Fail(c))
  /\ WF_anchorVars(Cooled)
  /\ WF_anchorVars(\E c \in Refreshes : Probe(c))

-----------------------------------------------------------------------------
(* Whichever refreshes overtake each other, the breaker is closed exactly  *)
(* while fewer than MaxFailures failures have followed the last success:   *)
(* it neither stays closed past the limit nor opens below it, and a failed *)
(* probe opens it at once (refresh_from_anchor).                           *)
ClosedBelowLimit == (breaker.state = "CLOSED") <=> (breaker.failures < MaxFailures)

(* When the anchor is back for good, the breaker closes for good.          *)
ClosesAgain == <>[]up => <>[](breaker.state = "CLOSED")
=============================================================================
