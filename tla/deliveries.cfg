\* A mail, a notification, two or three webhooks or a funding, and two drains.
CONSTANTS
  Row = {1, 2, 3, 4, 5, 6}
  Kind <- MCKind
  Drain = {d1, d2}
  Caller = {c1, c2}
  NoRow = NoRow
  MaxAttempts = 2
  HealthWindow = 2
  MaxDeaths = 1
  Scenarios <- MCScenarios
SPECIFICATION Spec
SYMMETRY Symmetric
INVARIANTS
  AttemptsBound
  NothingStranded
  FundedOnce
\* Every row may be settled.
CHECK_DEADLOCK FALSE
