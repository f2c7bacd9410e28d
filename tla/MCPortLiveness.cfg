\* One request; two instances may run the job, two rows are looked at at a time.
SPECIFICATION FairSpec
CONSTANTS
  Requests = {r1}
  Keys = {k1}
  Shapes = {rent}
  Instances = {j1, j2}
  Sessions = {s1, s2}
  Decisions = {}
  DecisionKeys = {}
  Others = {}
  MaxAttempts = 3
  None = None
  Over = Over
INVARIANTS ExpiredAfterAllLooks
PROPERTIES PendingEnds
CHECK_DEADLOCK FALSE
