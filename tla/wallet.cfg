\* Two relays, two attempts of each count, every kind of fault, three in all.
SPECIFICATION FairSpec
CONSTANTS
  kms = kms
  User = {u1}
  Relay = {p1, p2}
  Registered = Registered
  NoRelay = NoRelay
  NoTask = NoTask
  Key = {k1, k2}
  NoKey = NoKey
  Store = {kms}
  StoreOf <- OneStore
  Durable = TRUE
  MaxAttempts = 2
  TaskAttempts = 2
  FaultKinds <- AllKinds
  MaxFaults = 3
INVARIANTS StatusesAgree KeyIsStored FailedIsExhausted
PROPERTIES WalletSettles
