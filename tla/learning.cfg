\* A learner and a referrer, one module, five keys, two requests.
CONSTANTS
  l1 = l1
  l2 = l2
  m1 = m1
  Learner = {l1, l2}
  Module = {m1}
  Code = {x1, x2}
  NoCode = NoCode
  Nobody = Nobody
  Client = {c1, c2}
  Key = {1, 2, 3, 4, 5}
  Event <- MCEvent
  Batch <- MCBatch
  MaxDeaths = 1
  Scenarios <- MCScenarios
SPECIFICATION Spec
SYMMETRY Symmetric
INVARIANTS
  RewardedOnce
  KeptScores
  BonusesAgree
\* Requests end, and may leave nothing to ask for.
CHECK_DEADLOCK FALSE
