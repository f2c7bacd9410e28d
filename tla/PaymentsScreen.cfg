\* Two payments, one event resolved at a time, two history requests in flight.
\* The user may stop; the app and the API restart at any time.
SPECIFICATION FairSpec
CONSTANTS
  MaxPayments = 2
  MaxResolving = 1
  MaxLoads = 2
INVARIANTS ClosedIsSilent NoGap ShownSuccessIsPaid
PROPERTIES ReturningUserSees WaitingUserSees
CHECK_DEADLOCK FALSE
