\* Two refreshes of one anchor, whose breaker opens at three failures; three
\* calls about one escrow.
SPECIFICATION Spec
CONSTANTS
  Refreshes = {b1, b2}
  MaxFailures = 3
  MaxRetries = 2
  Keys = {k1}
  Calls = {c1, c2, c3}
  None = None
  Over = Over
INVARIANTS ClosedBelowLimit ClosedAsWritten
PROPERTIES StaysClosed ClosesAgain
CHECK_DEADLOCK FALSE
