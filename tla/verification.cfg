\* Two accounts, a phone, three tokens or codes, two requests.
CONSTANTS
  u1 = u1
  User = {u1, u2}
  Phone = {h1}
  NoPhone = NoPhone
  Client = {c1, c2}
  Proof = {1, 2, 3}
  NoProof = NoProof
  MaxAttempts = 2
  Scenarios <- MCScenarios
SPECIFICATION Spec
SYMMETRY Symmetric
INVARIANTS
  UsedOnce
  Proven
\* Every token and every code may be spent.
CHECK_DEADLOCK FALSE
