\* One transfer, whose amount is known once the user has entered it, between
\* two requests at a time.
SPECIFICATION FairSpec
CONSTANTS
  Transfers = {t1}
  Amounts = {a1}
  Calls = {c1, c2}
INVARIANTS SettledRowsMatch ShownSettledMatch MoneyIsTracked
PROPERTIES RowsSettle
CHECK_DEADLOCK FALSE
