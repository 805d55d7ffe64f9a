\* One relay process may crash once; nothing else goes wrong.
SPECIFICATION FairSpec
CONSTANTS
  kms = kms
  User = {u1}
  Relay = {p1, p2}
  Registered = Registered
  NoRelay = NoRelay
  NoTask = NoTask
  Key = {k1, k2}
  NoKey = NoKey
  Store = {kms}
  StoreOf <- OneStore
  Durable = TRUE
  MaxAttempts = 2
  TaskAttempts = 2
  FaultKinds <- OnlyCrashes
  MaxFaults = 1
PROPERTIES CrashIsRepaired
