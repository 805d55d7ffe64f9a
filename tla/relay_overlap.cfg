\* Relays that overlap in every way; an event that no handler takes.
SPECIFICATION Spec
CONSTANTS
  e1 = e1
  e2 = e2
  h1 = h1
  h2 = h2
  w1 = w1
  w2 = w2
  Event = {e1, e2}
  Handler = {h1, h2}
  HandlersFor <- FanOut
  Worker = {w1, w2}
  NoWorker = NoWorker
  NoJob = NoJob
  MaxAttempts = 1
  Exclusive = FALSE
  RollBackEvents = {e1}
  ReplayEvents = {e2}
  MaxCrashes = 0
  RunsCap = 0
SYMMETRY Symmetry
PROPERTIES DeliverySpec
