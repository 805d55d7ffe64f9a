\* Two sessions, three requests that race over up to three tokens each.
CONSTANTS
  Session = {s1, s2}
  Refresh = {r1, r2, r3}
  MaxTokens = 3
  MaxFaults = 1
SPECIFICATION SessionsSpec
SYMMETRY Symmetric
INVARIANTS
  OneSuccessor
  LateAtMostOnce
  LiveIsUsable
PROPERTIES
  DeadFamilyStaysDead
\* Every session may end up revoked.
CHECK_DEADLOCK FALSE
