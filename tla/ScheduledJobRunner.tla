-------------------------- MODULE ScheduledJobRunner --------------------------
(***************************************************************************)
(* The scheduler: ScheduledJobRunner (workers/scheduled-job-runner.ts) in  *)
(* one or more processes, over the queue_leases table and the three        *)
(* statements JobLeaseService runs on it (lib/transactions/                *)
(* job-lease.service.ts), each of which is atomic in the database.         *)
(*                                                                         *)
(* A runner gives every queue a chain: a timer, the tick it fires, the     *)
(* next timer.  A chain is named <<runner, queue, slot>>; there is more    *)
(* than one per queue only if start() is called again after a stop() that  *)
(* gave up waiting.  The maps `timers` and `inFlight` are keyed by the     *)
(* name of the queue, so that one chain can displace another in them.      *)
(***************************************************************************)
EXTENDS Naturals

CONSTANTS
  Queue,       \* queues of the registry that are enabled
  Runner,      \* runners, each in a process of its own
  Slot,        \* bound: live chains of a queue in one process
  NoTick,      \* a lease token that is null
  StartAgain,  \* TRUE: start() may be called while ticks of an earlier start()
               \* are in flight, which the class allows and no caller in src does
  MaxFaults    \* bound: crashes and failed statements in a run

ASSUME RunnerAssumption ==
  /\ NoTick \notin Runner \X Queue \X Slot
  /\ StartAgain \in BOOLEAN
  /\ MaxFaults \in Nat

VARIABLES
  lease,     \* [Queue -> Lease]: the queue_leases table
  pc,        \* [Tick -> Pc]: where a chain is
  timers,    \* [Runner -> SUBSET Tick]: values of the Map `timers`
  inFlight,  \* [Runner -> SUBSET Tick]: values of the Map `inFlight`
  started,   \* [Runner -> BOOLEAN]
  stopping,  \* [Runner -> BOOLEAN]
  pending,   \* [Runner -> SUBSET Tick]: promises stop() awaits, not settled yet
  beat,      \* [Tick -> BOOLEAN]: a renewal with the chain's last token is under
             \* way; one at a time here
  lost,      \* history: the lease ran out since the chain acquired it
  gaveUp,    \* history: [Runner -> BOOLEAN], a stop() reached its deadline
  faults     \* history: faults so far

maps == <<timers, inFlight, started, stopping, pending, gaveUp>>
vars == <<lease, pc, maps, beat, lost, faults>>

-------------------------------------------------------------------------------
Tick == Runner \X Queue \X Slot

(* The token is a fresh UUID per acquisition.  The name of the chain stands *)
(* for the last one it acquired: an acquisition makes every older token of  *)
(* the chain one that matches no row, which is when `beat` is cleared.      *)
Lease == [ token : Tick \cup {NoTick}, expired : BOOLEAN ]

Pc == {"none", "timer", "acquire", "drain", "release"}

TypeOK ==
  /\ lease \in [Queue -> Lease]
  /\ pc \in [Tick -> Pc]
  /\ timers \in [Runner -> SUBSET Tick]
  /\ inFlight \in [Runner -> SUBSET Tick]
  /\ started \in [Runner -> BOOLEAN]
  /\ stopping \in [Runner -> BOOLEAN]
  /\ pending \in [Runner -> SUBSET Tick]
  /\ beat \in [Tick -> BOOLEAN]
  /\ lost \in [Tick -> BOOLEAN]
  /\ gaveUp \in [Runner -> BOOLEAN]
  /\ faults \in Nat

NoLease == [ token |-> NoTick, expired |-> FALSE ]

Init ==
  /\ lease = [q \in Queue |-> NoLease]
  /\ pc = [t \in Tick |-> "none"]
  /\ timers = [r \in Runner |-> {}]
  /\ inFlight = [r \in Runner |-> {}]
  /\ started = [r \in Runner |-> FALSE]
  /\ stopping = [r \in Runner |-> FALSE]
  /\ pending = [r \in Runner |-> {}]
  /\ beat = [t \in Tick |-> FALSE]
  /\ lost = [t \in Tick |-> FALSE]
  /\ gaveUp = [r \in Runner |-> FALSE]
  /\ faults = 0

TicksOf(r) == { t \in Tick : t[1] = r }
Goto(t, l) == pc' = [pc EXCEPT ![t] = l]

\* Map.delete and Map.set under the name of the tick's queue.
Without(m, t) == { s \in m : s[2] # t[2] }
Put(m, t) == Without(m, t) \cup {t}

Fault == faults < MaxFaults /\ faults' = faults + 1

-------------------------------------------------------------------------------
(* start and stop *)

\* Every queue gets a chain with a timer that fires at once.
Start(r) ==
  /\ ~started[r]
  /\ StartAgain \/ \A t \in TicksOf(r) : pc[t] = "none"
  /\ \E slot \in [Queue -> Slot] :
       LET new == { <<r, q, slot[q]>> : q \in Queue } IN
       /\ \A t \in new : pc[t] = "none"
       /\ pc' = [t \in Tick |-> IF t \in new THEN "timer" ELSE pc[t]]
       /\ timers' = [timers EXCEPT ![r] = new]
  /\ started' = [started EXCEPT ![r] = TRUE]
  /\ stopping' = [stopping EXCEPT ![r] = FALSE]
  /\ UNCHANGED <<lease, inFlight, pending, beat, lost, gaveUp, faults>>

\* With nothing in flight there is nothing to await.
Stop(r) ==
  /\ started[r] /\ ~stopping[r]
  /\ stopping' = [stopping EXCEPT ![r] = TRUE]
  /\ pc' = [t \in Tick |-> IF t \in timers[r] THEN "none" ELSE pc[t]]
  /\ timers' = [timers EXCEPT ![r] = {}]
  /\ pending' = [pending EXCEPT ![r] = inFlight[r]]
  /\ started' = [started EXCEPT ![r] = inFlight[r] # {}]
  /\ UNCHANGED <<lease, inFlight, beat, lost, gaveUp, faults>>

Stopping(r) == started[r] /\ stopping[r]

Drained(r) == pending[r] = {}

StopDone(r) ==
  /\ Stopping(r) /\ Drained(r)
  /\ started' = [started EXCEPT ![r] = FALSE]
  /\ UNCHANGED <<lease, pc, timers, inFlight, stopping, pending, beat, lost,
                 gaveUp, faults>>

\* shutdownTimeoutMs passes first.
StopGivesUp(r) ==
  /\ Stopping(r) /\ ~Drained(r)
  /\ started' = [started EXCEPT ![r] = FALSE]
  /\ pending' = [pending EXCEPT ![r] = {}]
  /\ gaveUp' = [gaveUp EXCEPT ![r] = TRUE]
  /\ UNCHANGED <<lease, pc, timers, inFlight, stopping, beat, lost, faults>>

-------------------------------------------------------------------------------
(* tick and runQueue *)

\* Seeded fault: the promise of the tick is not put into inFlight.
TrackedNot(m, t) == m
Tracked(m, t) == Put(m, t)

\* A timer that was displaced in the map is not cleared by stop() and ends here.
Fire(t) ==
  /\ pc[t] = "timer"
  /\ timers' = [timers EXCEPT ![t[1]] = Without(@, t)]
  /\ IF stopping[t[1]]
     THEN Goto(t, "none") /\ UNCHANGED inFlight
     ELSE /\ Goto(t, "acquire")
          /\ inFlight' = [inFlight EXCEPT ![t[1]] = Tracked(@, t)]
  /\ UNCHANGED <<lease, started, stopping, pending, beat, lost, gaveUp, faults>>

\* Seeded fault: the next tick is scheduled only by one that has run.
GoesOnOnlyIfRan(t) == ~stopping[t[1]] /\ pc[t] = "release"
GoesOn(t) == ~stopping[t[1]]

\* The tick is over: its promise settles and the next timer is set.
Settle(t) ==
  /\ inFlight' = [inFlight EXCEPT ![t[1]] = Without(@, t)]
  /\ pending' = [pending EXCEPT ![t[1]] = @ \ {t}]
  /\ IF GoesOn(t)
     THEN Goto(t, "timer") /\ timers' = [timers EXCEPT ![t[1]] = Put(@, t)]
     ELSE Goto(t, "none") /\ UNCHANGED timers
  /\ UNCHANGED <<started, stopping, gaveUp>>

\* Seeded fault: the upsert without its WHERE.
FreeAlways(q) == TRUE

\* The WHERE of the upsert in acquireQueueLease.
Free(q) == lease[q].token = NoTick \/ lease[q].expired

LeaseTo(t) == [lease EXCEPT ![t[2]] = [token |-> t, expired |-> FALSE]]

Acquire(t) ==
  /\ pc[t] = "acquire" /\ Free(t[2])
  /\ lease' = LeaseTo(t)
  /\ beat' = [beat EXCEPT ![t] = FALSE]
  /\ lost' = [lost EXCEPT ![t] = FALSE]
  /\ Goto(t, "drain")
  /\ UNCHANGED <<maps, faults>>

\* Outcome 'skipped'.
Skip(t) ==
  /\ pc[t] = "acquire" /\ ~Free(t[2])
  /\ Settle(t)
  /\ UNCHANGED <<lease, beat, lost, faults>>

\* Outcome 'failed': acquireQueueLease throws, perhaps after the row is written.
AcquireFails(t) ==
  /\ pc[t] = "acquire" /\ Fault
  /\ \/ UNCHANGED <<lease, beat>>
     \/ Free(t[2]) /\ lease' = LeaseTo(t) /\ beat' = [beat EXCEPT ![t] = FALSE]
  /\ Settle(t)
  /\ UNCHANGED lost

\* The drain returns or throws; the heartbeat is cleared.
DrainEnds(t) ==
  /\ pc[t] = "drain"
  /\ Goto(t, "release")
  /\ UNCHANGED <<lease, maps, beat, lost, faults>>

\* Seeded fault: the row is found by the name of the queue alone.
OwnsAny(t) == TRUE
Owns(t) == lease[t[2]].token = t

\* A release whose token matches no row changes nothing.
Release(t) ==
  /\ pc[t] = "release"
  /\ lease' = IF Owns(t) THEN [lease EXCEPT ![t[2]] = NoLease] ELSE lease
  /\ Settle(t)
  /\ UNCHANGED <<beat, lost, faults>>

\* Only logged.
ReleaseFails(t) ==
  /\ pc[t] = "release" /\ Fault
  /\ Settle(t)
  /\ UNCHANGED <<lease, beat, lost>>

-------------------------------------------------------------------------------
(* The heartbeat: nothing waits for a renewal or looks at its result, and   *)
(* one that was sent may arrive after the drain, or after the process died. *)

SendBeat(t) ==
  /\ pc[t] = "drain" /\ ~beat[t]
  /\ beat' = [beat EXCEPT ![t] = TRUE]
  /\ UNCHANGED <<lease, pc, maps, lost, faults>>

\* By token only: a lease that ran out and was not taken over is revived.
BeatArrives(t) ==
  /\ beat[t]
  /\ beat' = [beat EXCEPT ![t] = FALSE]
  /\ lease' = IF Owns(t) THEN [lease EXCEPT ![t[2]].expired = FALSE] ELSE lease
  /\ UNCHANGED <<pc, maps, lost, faults>>

BeatLost(t) ==
  /\ beat[t] /\ Fault
  /\ beat' = [beat EXCEPT ![t] = FALSE]
  /\ UNCHANGED <<lease, pc, maps, lost>>

\* leasedUntil passes.
LeaseExpires(q) ==
  /\ lease[q].token # NoTick /\ ~lease[q].expired
  /\ lease' = [lease EXCEPT ![q].expired = TRUE]
  /\ lost' = [lost EXCEPT ![lease[q].token] = TRUE]
  /\ UNCHANGED <<pc, maps, beat, faults>>

-------------------------------------------------------------------------------
(* The process ends: the memory of the runner goes with it. *)

Vanish(r) ==
  /\ pc' = [t \in Tick |-> IF t[1] = r THEN "none" ELSE pc[t]]
  /\ timers' = [timers EXCEPT ![r] = {}]
  /\ inFlight' = [inFlight EXCEPT ![r] = {}]
  /\ pending' = [pending EXCEPT ![r] = {}]
  /\ started' = [started EXCEPT ![r] = FALSE]
  /\ stopping' = [stopping EXCEPT ![r] = FALSE]
  /\ UNCHANGED <<lease, beat, lost, gaveUp>>

Crash(r) == started[r] /\ Fault /\ Vanish(r)

\* process.exit after stop(), which leaves what stop() gave up on.
Exit(r) ==
  /\ stopping[r] /\ ~started[r]
  /\ Vanish(r)
  /\ UNCHANGED faults

-------------------------------------------------------------------------------
TickStep(t) ==
  \/ Fire(t)
  \/ Acquire(t) \/ Skip(t) \/ AcquireFails(t)
  \/ DrainEnds(t)
  \/ Release(t) \/ ReleaseFails(t)

BeatStep(t) == SendBeat(t) \/ BeatArrives(t) \/ BeatLost(t)

RunnerStep(r) ==
  \/ Start(r) \/ Stop(r) \/ StopDone(r) \/ StopGivesUp(r)
  \/ Crash(r) \/ Exit(r)

Next ==
  \/ \E r \in Runner : RunnerStep(r)
  \/ \E t \in Tick : TickStep(t) \/ BeatStep(t)
  \/ \E q \in Queue : LeaseExpires(q)

Spec == Init /\ [][Next]_vars

(* Timers fire, statements return and so do drains; time passes.  Nothing   *)
(* makes a heartbeat be sent, a process start, stop or crash.               *)
Fairness ==
  /\ \A t \in Tick : WF_vars(TickStep(t))
  /\ \A q \in Queue : WF_vars(LeaseExpires(q))

FairSpec == Spec /\ Fairness

-------------------------------------------------------------------------------
(* Properties *)

Busy(t) == pc[t] \in {"drain", "release"}

(* A tick that is draining and whose lease has not run out since it took it *)
(* still has the row: no late release or renewal of another tick, no crash, *)
(* failed statement or second start takes it away (runQueue, the WHERE      *)
(* clauses of the three lease statements).                                  *)
LeaseProtects ==
  \A t \in Tick :
    Busy(t) /\ ~lost[t] => lease[t[2]] = [token |-> t, expired |-> FALSE]

(* The runners implement the lock: at most one tick at a time is draining a *)
(* queue on a lease that never ran out, whatever replicas run.              *)
Trusted == [q \in Queue |-> { t \in Tick : t[2] = q /\ Busy(t) /\ ~lost[t] }]
Lock == INSTANCE QueueLock WITH holders <- Trusted
LockSpec == Lock!Spec

Stopped(r) == stopping[r] /\ ~started[r]

(* DEVELOPMENT_STACK.md: the scheduler waits for the ticks in flight and    *)
(* releases their leases.  After a stop() that met its deadline no tick of  *)
(* the runner is anywhere, and but for failed statements no queue is left   *)
(* parked on its token (stop, tick).  Once a stop() has given up, a later   *)
(* start() and stop() in that process promise less.                         *)
CleanStop ==
  \A r \in Runner :
    Stopped(r) /\ ~gaveUp[r] =>
      \A t \in TicksOf(r) :
        pc[t] = "none" /\ (faults = 0 => lease[t[2]].token # t)

(* While a runner is up its queues are drained again and again, by it or by *)
(* another: a skipped, failed or crashed tick never leaves a queue          *)
(* unserved (tick reschedules after every outcome, leases run out).         *)
QueueServed ==
  \A r \in Runner, q \in Queue :
    started[r] ~>
      ~started[r] \/ stopping[r] \/ \E t \in Tick : t[2] = q /\ pc[t] = "drain"
===============================================================================
