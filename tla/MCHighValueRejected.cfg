\* A rejected payment as one never paid: refuted.
SPECIFICATION Spec
CONSTANTS
  Requests = {r1}
  Keys = {k1}
  Users = {alice}
  Shapes = {rent}
  Decisions = {d1, d2}
  TxWindow = 1
  MaxSeq = 2
  MaxNow = 1
SYMMETRY MCSymmetry
CHECK_DEADLOCK FALSE
INVARIANTS RejectedIsNeverPaid
