\* Two replicas of the scheduler over one queue, each started once per process.
CONSTANTS
  Queue = {q}
  Runner = {r1, r2}
  Slot = {1}
  NoTick = NoTick
  StartAgain = FALSE
  MaxFaults = 2
SPECIFICATION FairSpec
INVARIANTS
  CleanStop LeaseProtects
PROPERTIES
  LockSpec
  QueueServed

