\* Relays that never overlap; one crash, one replay, two attempts.
SPECIFICATION FairSpec
CONSTANTS
  e1 = e1
  e2 = e2
  h1 = h1
  h2 = h2
  w1 = w1
  w2 = w2
  Event = {e1}
  Handler = {h1, h2}
  HandlersFor <- FanOut
  Worker = {w1, w2}
  NoWorker = NoWorker
  NoJob = NoJob
  MaxAttempts = 2
  Exclusive = TRUE
  RollBackEvents = {}
  ReplayEvents = {e1}
  MaxCrashes = 1
  RunsCap = 5
INVARIANTS OneJobPerHandler EventMatchesJobs RunsBounded
PROPERTIES EventSettles
