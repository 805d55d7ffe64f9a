------------------------------ MODULE OutboxRelay ------------------------------
(***************************************************************************)
(* The relay of the transactional outbox: OutboxRelay (workers/            *)
(* outbox-relay.ts) over JobLeaseService (lib/transactions/                *)
(* job-lease.service.ts) and the replay command (workers/outbox-replay.ts).*)
(*                                                                         *)
(* One step is one statement or one commit of a READ COMMITTED             *)
(* transaction.  What a transaction has read stays in the worker's         *)
(* registers and may be stale when it writes; what it has written is seen  *)
(* by others at its commit, and until then its row is locked.  A           *)
(* transaction whose only writes are its last statements is one step from  *)
(* its first write to its commit.                                          *)
(***************************************************************************)
EXTENDS Naturals, FiniteSets

CONSTANTS
  Event,          \* outbox_events rows a run may create
  Handler,        \* names registered in OutboxHandlerRegistry
  HandlersFor,    \* [Event -> SUBSET Handler]: handlersFor(eventType, version)
  Worker,         \* relay processes
  NoWorker,       \* a lease token that is null
  NoJob,          \* no job in a worker's registers
  MaxAttempts,    \* handler.maxAttempts ?? 3, the same for every handler here
  Exclusive,      \* TRUE: a tick runs only while no other relay is in one, which
                  \* is what the queue lease gives while it is not lost
  RollBackEvents, \* bound: the events markRolledBack may be called for
  ReplayEvents,   \* bound: the events an operator replays, each at most once
  MaxCrashes,     \* bound: process crashes in a run
  RunsCap         \* bound: where the history counter `runs` saturates

ASSUME OutboxAssumption ==
  /\ HandlersFor \in [Event -> SUBSET Handler]
  /\ NoWorker \notin Worker
  /\ MaxAttempts \in Nat \ {0}
  /\ Exclusive \in BOOLEAN
  /\ RollBackEvents \subseteq Event
  /\ ReplayEvents \subseteq Event
  /\ MaxCrashes \in Nat
  /\ RunsCap \in Nat

VARIABLES
  event,      \* [Event -> EventStatus]: outbox_events.status
  job,        \* [JobId -> Job]: the job_attempts table
  pc,         \* [Worker -> Pc]: where the worker is in runOnce
  todo,       \* [Worker -> SUBSET Event]: `pending` of materializePending
  names,      \* [Worker -> SUBSET Handler]: handler names still to drain this tick
  cur,        \* [Worker -> JobId \cup {NoJob}]: the job read or leased
  att,        \* [Worker -> Nat]: job.attempt as failJob read it
  allDone,    \* [Worker -> BOOLEAN]: pendingCount = 0 as completeJob read it
  replay,     \* the replay command: its event, the jobs left, the job checked
  replayed,   \* history: events an operator has begun to replay
  crashes,    \* history: crashes so far
  handled,    \* history: [Event -> SUBSET Handler], handlers that succeeded
  runs        \* history: [JobId -> 0..RunsCap], handler runs since created or reset

reg == <<todo, names, cur, att, allDone>>
vars == <<event, job, pc, reg, replay, replayed, crashes, handled, runs>>

-------------------------------------------------------------------------------
(* A relay materializes an event only after reading that it has no jobs,   *)
(* and jobs are never deleted, so one relay creates the jobs of an event   *)
(* at most once: <<event, handler, creator>> names a job_attempts row.     *)
JobId == Event \X Handler \X Worker

(* leaseToken is a fresh UUID per lease.  A relay works on one job at a    *)
(* time and forgets its token in a crash, so the name of the worker stands *)
(* for the token of the lease it took last.                                *)
Job == [ status  : {"NONE", "PENDING", "LEASED", "COMPLETED", "DEAD_LETTER"},
         token   : Worker \cup {NoWorker},
         expired : BOOLEAN,     \* leasedUntil < now
         due     : BOOLEAN,     \* availableAt <= now
         attempt : Nat,
         keyed   : BOOLEAN ]    \* idempotencyKey stored

EventStatus == {"NONE", "PENDING", "PUBLISHED", "DEAD_LETTER", "ROLLED_BACK"}

Pc == {"idle", "materialize", "find", "take", "handle", "complete", "count",
       "commit", "fail", "retry"}

\* No event: no command runs.  A checked job is about to be written.
Replay == [ ev : SUBSET Event, todo : SUBSET JobId, checked : SUBSET JobId ]

NoRow == [ status |-> "NONE", token |-> NoWorker, expired |-> FALSE,
           due |-> FALSE, attempt |-> 0, keyed |-> FALSE ]

NewRow == [ NoRow EXCEPT !.status = "PENDING", !.due = TRUE ]

NoReplay == [ ev |-> {}, todo |-> {}, checked |-> {} ]

TypeOK ==
  /\ event \in [Event -> EventStatus]
  /\ job \in [JobId -> Job]
  /\ pc \in [Worker -> Pc]
  /\ todo \in [Worker -> SUBSET Event]
  /\ names \in [Worker -> SUBSET Handler]
  /\ cur \in [Worker -> JobId \cup {NoJob}]
  /\ att \in [Worker -> Nat]
  /\ allDone \in [Worker -> BOOLEAN]
  /\ replay \in Replay
  /\ replayed \subseteq Event
  /\ crashes \in Nat
  /\ handled \in [Event -> SUBSET Handler]
  /\ runs \in [JobId -> Nat]

Init ==
  /\ event = [e \in Event |-> "NONE"]
  /\ job = [j \in JobId |-> NoRow]
  /\ pc = [w \in Worker |-> "idle"]
  /\ todo = [w \in Worker |-> {}]
  /\ names = [w \in Worker |-> {}]
  /\ cur = [w \in Worker |-> NoJob]
  /\ att = [w \in Worker |-> 0]
  /\ allDone = [w \in Worker |-> FALSE]
  /\ replay = NoReplay
  /\ replayed = {}
  /\ crashes = 0
  /\ handled = [e \in Event |-> {}]
  /\ runs = [j \in JobId |-> 0]

-------------------------------------------------------------------------------
(* Reading the tables *)

JobsOf(e) == { j \in JobId : j[1] = e }
Exists(j) == job[j].status # "NONE"

\* Seeded fault: the `jobAttempts: none` filter forgotten.
UnmaterializedNoFilter(e) == event[e] = "PENDING"
Unmaterialized(e) == event[e] = "PENDING" /\ \A j \in JobsOf(e) : ~Exists(j)

Leasable(j) == job[j].status = "PENDING" /\ job[j].due

Abandoned(j) == job[j].status = "LEASED" /\ job[j].expired

(* The first statement of completeJob's transaction has written the row    *)
(* and the transaction has not ended: the row is locked, and so is its     *)
(* entry in the unique index on idempotencyKey, `${eventId}:${handler}`.   *)
Completing(w) == pc[w] \in {"count", "commit"}
SameKey(j, k) == j[1] = k[1] /\ j[2] = k[2]
RowFree(j) == \A w \in Worker : ~(Completing(w) /\ cur[w] = j)
KeyFree(j) == \A w \in Worker : ~(Completing(w) /\ SameKey(cur[w], j))
KeyTaken(j) == \E k \in JobId : k # j /\ SameKey(k, j) /\ job[k].keyed

Goto(w, l) == pc' = [pc EXCEPT ![w] = l]

-------------------------------------------------------------------------------
(* The domain transaction and the service's own operations *)

\* OutboxService.createEvent, in the transaction of the domain change.
CreateEvent(e) ==
  /\ event[e] = "NONE"
  /\ event' = [event EXCEPT ![e] = "PENDING"]
  /\ UNCHANGED <<job, pc, reg, replay, replayed, crashes, handled, runs>>

\* OutboxService.markRolledBack: the update does not look at the old status.
MarkRolledBack(e) ==
  /\ e \in RollBackEvents
  /\ event[e] \notin {"NONE", "ROLLED_BACK"}
  /\ event' = [event EXCEPT ![e] = "ROLLED_BACK"]
  /\ UNCHANGED <<job, pc, reg, replay, replayed, crashes, handled, runs>>

-------------------------------------------------------------------------------
(* materializePending *)

StartTick(w) ==
  /\ pc[w] = "idle"
  /\ Exclusive => \A v \in Worker : pc[v] = "idle"
  /\ Goto(w, "materialize")
  /\ todo' = [todo EXCEPT ![w] = { e \in Event : Unmaterialized(e) }]
  /\ UNCHANGED <<event, job, names, cur, att, allDone, replay, replayed, crashes,
                 handled, runs>>

\* No handler registered: the event is given up.
DeadLetterUnhandled(w, e) ==
  /\ pc[w] = "materialize" /\ e \in todo[w]
  /\ HandlersFor[e] = {}
  /\ event' = [event EXCEPT ![e] = "DEAD_LETTER"]
  /\ todo' = [todo EXCEPT ![w] = @ \ {e}]
  /\ UNCHANGED <<job, pc, names, cur, att, allDone, replay, replayed, crashes,
                 handled, runs>>

NewJobs(e, w) == { <<e, h, w>> : h \in HandlersFor[e] }

\* One row per handler, in one transaction.  The event is not read again.
Materialize(w, e) ==
  /\ pc[w] = "materialize" /\ e \in todo[w]
  /\ HandlersFor[e] # {}
  /\ job' = [j \in JobId |-> IF j \in NewJobs(e, w) THEN NewRow ELSE job[j]]
  /\ todo' = [todo EXCEPT ![w] = @ \ {e}]
  /\ UNCHANGED <<event, pc, names, cur, att, allDone, replay, replayed, crashes,
                 handled, runs>>

BeginDispatch(w) ==
  /\ pc[w] = "materialize" /\ todo[w] = {}
  /\ Goto(w, "find")
  /\ names' = [names EXCEPT ![w] = Handler]
  /\ UNCHANGED <<event, job, todo, cur, att, allDone, replay, replayed, crashes,
                 handled, runs>>

-------------------------------------------------------------------------------
(* dispatchLeasable: leaseJob *)

(* The reads of leaseJob: a PENDING job that is due, else an abandoned one. *)
(* Names are drained in any order here, and rows of one name are taken in   *)
(* any order (the code: sorted names, oldest row first).                    *)
Candidates(h) ==
  LET ready == { j \in JobId : j[2] = h /\ Leasable(j) }
  IN  IF ready # {} THEN ready
      ELSE { j \in JobId : j[2] = h /\ Abandoned(j) }

FindJob(w, h) ==
  /\ pc[w] = "find" /\ h \in names[w]
  /\ \E j \in Candidates(h) : cur' = [cur EXCEPT ![w] = j]
  /\ Goto(w, "take")
  /\ UNCHANGED <<event, job, todo, names, att, allDone, replay, replayed, crashes,
                 handled, runs>>

\* leaseJob returned null: the relay goes on to the next name.
NothingFor(w, h) ==
  /\ pc[w] = "find" /\ h \in names[w]
  /\ Candidates(h) = {}
  /\ names' = [names EXCEPT ![w] = @ \ {h}]
  /\ UNCHANGED <<event, job, pc, todo, cur, att, allDone, replay, replayed,
                 crashes, handled, runs>>

\* The update of leaseJob: by id only, whatever the row has become.
CanTake(j) == RowFree(j)
LeasedRow(r, w) == [r EXCEPT !.status = "LEASED", !.token = w, !.expired = FALSE]

TakeLease(w) ==
  /\ pc[w] = "take"
  /\ CanTake(cur[w])
  /\ job' = [job EXCEPT ![cur[w]] = LeasedRow(@, w)]
  /\ Goto(w, "handle")
  /\ UNCHANGED <<event, reg, replay, replayed, crashes, handled, runs>>

EndTick(w) ==
  /\ pc[w] = "find" /\ names[w] = {}
  /\ Goto(w, "idle")
  /\ UNCHANGED <<event, job, todo, names, cur, att, allDone, replay, replayed, crashes,
                 handled, runs>>

-------------------------------------------------------------------------------
(* dispatchOne: the handler *)

CountRun(j) == runs' = [runs EXCEPT ![j] = IF @ < RunsCap THEN @ + 1 ELSE @]

HandlerSucceeds(w) ==
  /\ pc[w] = "handle"
  /\ handled' = [handled EXCEPT ![cur[w][1]] = @ \cup {cur[w][2]}]
  /\ CountRun(cur[w])
  /\ Goto(w, "complete")
  /\ UNCHANGED <<event, job, reg, replay, replayed, crashes>>

\* The schema rejects the payload, or the handler throws.
HandlerThrows(w) ==
  /\ pc[w] = "handle"
  /\ CountRun(cur[w])
  /\ Goto(w, "fail")
  /\ UNCHANGED <<event, job, reg, replay, replayed, crashes, handled>>

-------------------------------------------------------------------------------
(* completeJob *)

HoldsLease(w, j) == job[j].token = w

\* updateMany where id and leaseToken; waits for a locked row or key.
CompleteUpdate(w) ==
  /\ pc[w] = "complete"
  /\ RowFree(cur[w]) /\ KeyFree(cur[w])
  /\ HoldsLease(w, cur[w]) /\ ~KeyTaken(cur[w])
  /\ Goto(w, "count")
  /\ UNCHANGED <<event, job, reg, replay, replayed, crashes, handled, runs>>

\* No row matched, or the unique index on idempotencyKey refused: it throws.
CompleteRefused(w) ==
  /\ pc[w] = "complete"
  /\ RowFree(cur[w]) /\ KeyFree(cur[w])
  /\ ~HoldsLease(w, cur[w]) \/ KeyTaken(cur[w])
  /\ Goto(w, "fail")
  /\ UNCHANGED <<event, job, reg, replay, replayed, crashes, handled, runs>>

\* Seeded fault: only jobs still PENDING are counted.
NoneUnfinishedPendingOnly(j) ==
  \A k \in JobsOf(j[1]) : k = j \/ job[k].status # "PENDING"

\* Seeded fault: the count does not see the transaction's own write.
NoneUnfinishedOwnUnseen(j) ==
  \A k \in JobsOf(j[1]) : ~Exists(k) \/ job[k].status = "COMPLETED"

\* No job of the event is not COMPLETED, in the committed rows and the own
\* write.
NoneUnfinished(j) ==
  \A k \in JobsOf(j[1]) :
    k = j \/ ~Exists(k) \/ job[k].status = "COMPLETED"

CompleteCount(w) ==
  /\ pc[w] = "count"
  /\ allDone' = [allDone EXCEPT ![w] = NoneUnfinished(cur[w])]
  /\ Goto(w, "commit")
  /\ UNCHANGED <<event, job, todo, names, cur, att, replay, replayed, crashes,
                 handled, runs>>

\* The registers of a job the relay is done with.
Forget(w) ==
  /\ cur' = [cur EXCEPT ![w] = NoJob]
  /\ att' = [att EXCEPT ![w] = 0]
  /\ allDone' = [allDone EXCEPT ![w] = FALSE]

(* drained < batchSize: after a job the relay looks for another of the same *)
(* name.  A run has fewer jobs than a batch (50) holds.                     *)
NextJob(w) == Goto(w, "find") /\ Forget(w)

CompletedRow(r) ==
  [r EXCEPT !.status = "COMPLETED", !.token = NoWorker, !.expired = FALSE,
            !.keyed = TRUE]

CompleteCommit(w) ==
  /\ pc[w] = "commit"
  /\ job' = [job EXCEPT ![cur[w]] = CompletedRow(@)]
  /\ event' = IF allDone[w]
              THEN [event EXCEPT ![cur[w][1]] = "PUBLISHED"] ELSE event
  /\ NextJob(w)
  /\ UNCHANGED <<todo, names, replay, replayed, crashes, handled, runs>>

\* The transaction is rolled back: its timeout passed or the connection broke.
CompleteAbort(w) ==
  /\ Completing(w)
  /\ Goto(w, "fail")
  /\ allDone' = [allDone EXCEPT ![w] = FALSE]
  /\ UNCHANGED <<event, job, todo, names, cur, att, replay, replayed, crashes, handled, runs>>

-------------------------------------------------------------------------------
(* failJob *)

\* The token is compared once, on the row as it is read.
FailRead(w) ==
  /\ pc[w] = "fail"
  /\ HoldsLease(w, cur[w])
  /\ att' = [att EXCEPT ![w] = job[cur[w]].attempt]
  /\ Goto(w, "retry")
  /\ UNCHANGED <<event, job, todo, names, cur, allDone, replay, replayed, crashes,
                 handled, runs>>

\* Lease mismatch: failJob throws out of dispatchOne, and the tick is over.
FailRefused(w) ==
  /\ pc[w] = "fail"
  /\ ~HoldsLease(w, cur[w])
  /\ Goto(w, "idle")
  /\ Forget(w)
  /\ names' = [names EXCEPT ![w] = {}]
  /\ UNCHANGED <<event, job, todo, replay, replayed, crashes,
                 handled, runs>>

\* Seeded fault: > for >=.
ExhaustedOneLate(a) == a + 1 > MaxAttempts
Exhausted(a) == a + 1 >= MaxAttempts

RetryRow(r, a) ==
  [r EXCEPT !.status = "PENDING", !.attempt = a, !.due = FALSE,
            !.token = NoWorker, !.expired = FALSE]

DeadRow(r) ==
  [r EXCEPT !.status = "DEAD_LETTER", !.token = NoWorker, !.expired = FALSE]

\* The updates by id that end failJob's transaction.
FailRetry(w) ==
  /\ pc[w] = "retry"
  /\ RowFree(cur[w])
  /\ ~Exhausted(att[w])
  /\ job' = [job EXCEPT ![cur[w]] = RetryRow(@, att[w] + 1)]
  /\ NextJob(w)
  /\ UNCHANGED <<event, todo, names, replay, replayed, crashes, handled,
                 runs>>

FailDeadLetter(w) ==
  /\ pc[w] = "retry"
  /\ RowFree(cur[w])
  /\ Exhausted(att[w])
  /\ job' = [job EXCEPT ![cur[w]] = DeadRow(@)]
  /\ event' = [event EXCEPT ![cur[w][1]] = "DEAD_LETTER"]
  /\ NextJob(w)
  /\ UNCHANGED <<todo, names, replay, replayed, crashes, handled, runs>>

-------------------------------------------------------------------------------
(* Time, crashes *)

ExpiredRow(r) == [r EXCEPT !.expired = TRUE]
DueRow(r)     == [r EXCEPT !.due = TRUE]

\* leasedUntil passes.
LeaseExpires(j) ==
  /\ job[j].status = "LEASED" /\ ~job[j].expired
  /\ job' = [job EXCEPT ![j] = ExpiredRow(@)]
  /\ UNCHANGED <<event, pc, reg, replay, replayed, crashes, handled, runs>>

\* availableAt passes: the backoff is over.
BackoffEnds(j) ==
  /\ job[j].status = "PENDING" /\ ~job[j].due
  /\ job' = [job EXCEPT ![j] = DueRow(@)]
  /\ UNCHANGED <<event, pc, reg, replay, replayed, crashes, handled, runs>>

\* A relay process dies: its open transaction is rolled back, its registers go.
Crash(w) ==
  /\ pc[w] # "idle"
  /\ crashes < MaxCrashes
  /\ crashes' = crashes + 1
  /\ Goto(w, "idle")
  /\ todo' = [todo EXCEPT ![w] = {}]
  /\ names' = [names EXCEPT ![w] = {}]
  /\ Forget(w)
  /\ UNCHANGED <<event, job, replay, replayed, handled, runs>>

-------------------------------------------------------------------------------
(* replayDeadLetter, run by an operator from outbox-replay.ts: another      *)
(* process, which takes no queue lease.  The operator picks the event from  *)
(* the list of dead-lettered ones.                                          *)

ReplayStart(e) ==
  /\ replay.ev = {}
  /\ e \in ReplayEvents \ replayed
  /\ event[e] = "DEAD_LETTER"
  /\ replay' = [ev |-> {e}, checked |-> {},
                todo |-> { j \in JobsOf(e) : job[j].status = "DEAD_LETTER" }]
  /\ replayed' = replayed \cup {e}
  /\ UNCHANGED <<event, job, pc, reg, crashes, handled, runs>>

\* resetJobForRetry reads the job; if it is no longer dead the command throws.
ReplayCheck(j) ==
  /\ replay.checked = {} /\ j \in replay.todo
  /\ replay' = IF job[j].status = "DEAD_LETTER"
               THEN [replay EXCEPT !.checked = {j}] ELSE NoReplay
  /\ UNCHANGED <<event, job, pc, reg, replayed, crashes, handled, runs>>

\* resetJobForRetry writes by id: token and key stay as they are.
ResetRow(r) == [r EXCEPT !.status = "PENDING", !.attempt = 0, !.due = TRUE]

ReplayWrite(j) ==
  /\ j \in replay.checked
  /\ RowFree(j)
  /\ job' = [job EXCEPT ![j] = ResetRow(@)]
  /\ runs' = [runs EXCEPT ![j] = 0]
  /\ replay' = [replay EXCEPT !.todo = @ \ {j}, !.checked = {}]
  /\ UNCHANGED <<event, pc, reg, replayed, crashes, handled>>

\* Every job is reset: the event goes back to PENDING, whatever it is by now.
ReplayFinish(e) ==
  /\ e \in replay.ev /\ replay.todo = {}
  /\ event' = [event EXCEPT ![e] = "PENDING"]
  /\ replay' = NoReplay
  /\ UNCHANGED <<job, pc, reg, replayed, crashes, handled, runs>>

\* The command dies between two of its statements.
ReplayCrash ==
  /\ replay.ev # {}
  /\ crashes < MaxCrashes
  /\ crashes' = crashes + 1
  /\ replay' = NoReplay
  /\ UNCHANGED <<event, job, pc, reg, replayed, handled, runs>>

-------------------------------------------------------------------------------
MaterializeStep(w) ==
  \/ StartTick(w)
  \/ \E e \in Event : DeadLetterUnhandled(w, e) \/ Materialize(w, e)
  \/ BeginDispatch(w)

DispatchStep(w) ==
  \/ \E h \in Handler : FindJob(w, h) \/ NothingFor(w, h)
  \/ TakeLease(w) \/ EndTick(w)
  \/ HandlerSucceeds(w) \/ HandlerThrows(w)

FinishStep(w) ==
  \/ CompleteUpdate(w) \/ CompleteRefused(w) \/ CompleteCount(w)
  \/ CompleteCommit(w) \/ CompleteAbort(w)
  \/ FailRead(w) \/ FailRefused(w) \/ FailRetry(w) \/ FailDeadLetter(w)

RelayStep(w) == MaterializeStep(w) \/ DispatchStep(w) \/ FinishStep(w)

ReplayStep ==
  \/ \E e \in Event : ReplayStart(e) \/ ReplayFinish(e)
  \/ \E j \in JobId : ReplayCheck(j) \/ ReplayWrite(j)
  \/ ReplayCrash

Next ==
  \/ \E e \in Event : CreateEvent(e) \/ MarkRolledBack(e)
  \/ \E w \in Worker : RelayStep(w) \/ Crash(w)
  \/ \E j \in JobId : LeaseExpires(j) \/ BackoffEnds(j)
  \/ ReplayStep

Spec == Init /\ [][Next]_vars

(* The scheduler ticks every relay again and again and a handler returns;   *)
(* time passes.  Nothing makes an operator, a crash or a new event happen.  *)
Fairness ==
  /\ \A w \in Worker : WF_vars(RelayStep(w))
  /\ \A j \in JobId : WF_vars(LeaseExpires(j)) /\ WF_vars(BackoffEnds(j))

FairSpec == Spec /\ Fairness

-------------------------------------------------------------------------------
(* Properties that hold whatever relays overlap *)

(* The relay implements the promise of the outbox: an event is marked       *)
(* PUBLISHED only when each of its handlers has succeeded, although the     *)
(* decision is taken from a count that was read before the commit           *)
(* (completeJob).                                                           *)
Delivery == INSTANCE OutboxDelivery WITH status <- event, delivered <- handled
DeliverySpec == Delivery!Spec

(* materializePending never leaves an event with the jobs of some of its    *)
(* handlers: what one relay creates for an event is all or nothing.         *)
JobsAllOrNone ==
  \A e \in Event, w \in Worker :
    \A h, g \in HandlersFor[e] : Exists(<<e, h, w>>) <=> Exists(<<e, g, w>>)

-------------------------------------------------------------------------------
(* Properties of relays that never overlap (Exclusive) *)

(* Types.ts: one JobAttempt per (OutboxEvent, jobType).  Nothing in the     *)
(* schema says so: it follows from ticks that do not overlap, with crashes  *)
(* between the read of the pending events and the creation of their jobs.   *)
OneJobPerHandler ==
  Exclusive =>
    \A j, k \in JobId : Exists(j) /\ Exists(k) /\ SameKey(j, k) => j = k

Finished(e) ==
  /\ \E j \in JobsOf(e) : Exists(j)
  /\ \A j \in JobsOf(e) : Exists(j) => job[j].status = "COMPLETED"

(* The status of an event nobody replays or rolls back agrees with its jobs *)
(* at every moment: PUBLISHED exactly when all are COMPLETED, DEAD_LETTER   *)
(* only with a dead job or no handler at all (completeJob, failJob).        *)
EventMatchesJobs ==
  Exclusive =>
    \A e \in Event \ (replayed \cup RollBackEvents) :
      /\ event[e] = "PUBLISHED" <=> Finished(e)
      /\ (event[e] = "DEAD_LETTER" /\ HandlersFor[e] # {})
           <=> \E j \in JobsOf(e) : job[j].status = "DEAD_LETTER"

(* A job's handler runs at most maxAttempts times between its creation or   *)
(* reset and its end, and once more for each crash (failJob counts from 0   *)
(* and compares attempt + 1; reclaiming a lease counts nothing).            *)
RunsBounded == Exclusive => \A j \in JobId : runs[j] <= MaxAttempts + crashes

(* No event is lost: one that nobody replays or rolls back is published or  *)
(* dead-lettered in the end.                                                *)
EventSettles ==
  \A e \in Event :
    event[e] = "PENDING" ~>
      \/ event[e] \in {"PUBLISHED", "DEAD_LETTER", "ROLLED_BACK"}
      \/ e \in replayed
===============================================================================
