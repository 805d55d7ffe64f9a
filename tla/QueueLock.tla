------------------------------- MODULE QueueLock -------------------------------
(***************************************************************************)
(* What the queue leases promise to the drains they guard: at most one     *)
(* tick at a time is the trusted holder of a queue.  A holder stops being  *)
(* trusted when it is done, when its process dies, or when its lease runs  *)
(* out under it, and only then can another become trusted.  It says        *)
(* nothing of a tick that goes on draining after it has lost its lease.    *)
(***************************************************************************)
CONSTANTS Queue, Tick

VARIABLE holders    \* [Queue -> SUBSET Tick]: the trusted holder, or nobody

TypeOK == holders \in [Queue -> SUBSET Tick]

Init == holders = [q \in Queue |-> {}]

Grant(q, t) ==
  /\ holders[q] = {}
  /\ holders' = [holders EXCEPT ![q] = {t}]

\* The death of a process ends the trust of all its ticks in one step.
Revoke(Q) == holders' = [q \in Queue |-> IF q \in Q THEN {} ELSE holders[q]]

Next ==
  \/ \E q \in Queue, t \in Tick : Grant(q, t)
  \/ \E Q \in SUBSET Queue : Revoke(Q)

Spec == Init /\ [][Next]_holders
===============================================================================
