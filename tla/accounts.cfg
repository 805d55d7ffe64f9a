\* Two deletions and two exports, two requests and two sweeps.
CONSTANTS
  d1 = d1
  d2 = d2
  e1 = e1
  e2 = e2
  Deletion = {d1, d2}
  Export = {e1, e2}
  Client = {c1, c2}
  Sweeper = {w1, w2}
  NoRow = NoRow
  MaxAttempts = 2
  MaxDeaths = 1
  Scenarios <- MCScenarios
SPECIFICATION Spec
SYMMETRY Symmetric
INVARIANTS
  WayBack
  AloneAgrees
  NeverStranded
\* The account may be deleted, and every row settled.
CHECK_DEADLOCK FALSE
