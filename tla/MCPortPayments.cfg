\* Two requests with one key; one instance runs the job, one row is looked
\* at at a time, one administrator decides, one payment comes from elsewhere.
SPECIFICATION Spec
CONSTANTS
  Requests = {r1, r2}
  Keys = {k1}
  Shapes = {rent, food}
  Instances = {j1}
  Sessions = {s1}
  Decisions = {d1}
  DecisionKeys = {h1}
  Others = {o1}
  MaxAttempts = 2
  None = None
  Over = Over
SYMMETRY MCSymmetry
INVARIANTS SuccessIsBacked
PROPERTIES SettledStaysSettled IntentSpec
CHECK_DEADLOCK FALSE
