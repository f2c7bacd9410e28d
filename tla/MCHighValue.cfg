\* Two requests for two keys of one account, and two admin decisions.
SPECIFICATION Spec
CONSTANTS
  Requests = {r1, r2}
  Keys = {k1, k2}
  Users = {alice}
  Shapes = {rent}
  Decisions = {d1, d2}
  TxWindow = 0
  MaxSeq = 2
  MaxNow = 1
CHECK_DEADLOCK FALSE
INVARIANTS EnvelopeNeedsAdmin SuccessIsBacked
PROPERTIES IntentSpec
