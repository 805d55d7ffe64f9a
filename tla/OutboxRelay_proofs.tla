--------------------------- MODULE OutboxRelay_proofs ---------------------------
(***************************************************************************)
(* Proofs about OutboxRelay for any number of events, handlers, relays,    *)
(* attempts, crashes and replays, overlapping or not.                      *)
(***************************************************************************)
EXTENDS OutboxRelay, TLAPS

-------------------------------------------------------------------------------
(* The strengthening under which Delivery!Spec is implied step by step.     *)

Working == {"take", "handle", "complete", "count", "commit", "fail", "retry"}

\* A relay with a job in hand holds a row that exists.
InHand ==
  \A w \in Worker : pc[w] \in Working => cur[w] \in JobId /\ Exists(cur[w])

\* The rows, the replay and the pending lists refer to events that were created.
Referential ==
  /\ \A j \in JobId : Exists(j) => event[j[1]] # "NONE" /\ j[2] \in HandlersFor[j[1]]
  /\ \A w \in Worker : \A e \in todo[w] : event[e] # "NONE"
  /\ \A e \in replay.ev : event[e] # "NONE"
  /\ \A j \in replay.todo \cup replay.checked : Exists(j)

\* A success is recorded before it is used.
Succeeded ==
  /\ \A e \in Event : handled[e] \subseteq HandlersFor[e]
  /\ \A j \in JobId : job[j].status = "COMPLETED" => j[2] \in handled[j[1]]
  /\ \A w \in Worker : pc[w] \in {"complete", "count", "commit"}
                         => cur[w][2] \in handled[cur[w][1]]

\* What completeJob counted is still true, in the sense that matters, when it
\* commits: every handler has succeeded.
CountStillTrue ==
  \A w \in Worker : pc[w] = "commit" /\ allDone[w]
                      => handled[cur[w][1]] = HandlersFor[cur[w][1]]

IInv ==
  /\ TypeOK
  /\ InHand
  /\ Referential
  /\ Succeeded
  /\ JobsAllOrNone
  /\ CountStillTrue

-------------------------------------------------------------------------------
(* Every reachable state is well typed: rows, registers and the replay      *)
(* command (job_attempts, OutboxRelay, outbox-replay.ts).                   *)
LEMMA RowTypes ==
  ASSUME NEW r \in Job
  PROVE  /\ \A w \in Worker : LeasedRow(r, w) \in Job
         /\ \A a \in Nat : RetryRow(r, a) \in Job
         /\ CompletedRow(r) \in Job /\ DeadRow(r) \in Job /\ ResetRow(r) \in Job
         /\ ExpiredRow(r) \in Job /\ DueRow(r) \in Job
         /\ NewRow \in Job /\ NoRow \in Job
  BY DEF Job, LeasedRow, CompletedRow, RetryRow, DeadRow, ResetRow, ExpiredRow, DueRow,
         NewRow, NoRow

\* The empty tables are of the right types.
LEMMA TypeInit == Init => TypeOK
  BY OutboxAssumption DEF Init, TypeOK, NoRow, Job, EventStatus, Pc, Replay, NoReplay

\* Every step keeps the tables and the registers of their types.
LEMMA TypeStep == TypeOK /\ InHand /\ [Next]_vars => TypeOK'
  <1> SUFFICES ASSUME TypeOK, InHand, [Next]_vars PROVE TypeOK'
    OBVIOUS
  <1> USE OutboxAssumption DEF TypeOK, reg, Goto
  <1>1. ASSUME NEW e \in Event, CreateEvent(e) \/ MarkRolledBack(e) PROVE TypeOK'
    BY <1>1 DEF CreateEvent, MarkRolledBack, EventStatus
  <1>2. ASSUME NEW w \in Worker, MaterializeStep(w) PROVE TypeOK'
    <2>1. CASE StartTick(w)
      BY <2>1 DEF StartTick, Pc
    <2>2. ASSUME NEW e \in Event, DeadLetterUnhandled(w, e) PROVE TypeOK'
      BY <2>2 DEF DeadLetterUnhandled, EventStatus
    <2>3. ASSUME NEW e \in Event, Materialize(w, e) PROVE TypeOK'
      BY <2>3, RowTypes, Zenon DEF Materialize
    <2>4. CASE BeginDispatch(w)
      BY <2>4 DEF BeginDispatch, Pc
    <2>5. QED
      BY <1>2, <2>1, <2>2, <2>3, <2>4 DEF MaterializeStep
  <1>3. ASSUME NEW w \in Worker, DispatchStep(w) PROVE TypeOK'
    <2>1. ASSUME NEW h \in Handler, FindJob(w, h) PROVE TypeOK'
      <3>1. PICK j \in Candidates(h) : cur' = [cur EXCEPT ![w] = j]
        BY <2>1 DEF FindJob
      <3>2. j \in JobId
        BY <3>1 DEF Candidates
      <3>3. QED
        BY <2>1, <3>1, <3>2 DEF FindJob, Pc
    <2>2. ASSUME NEW h \in Handler, NothingFor(w, h) PROVE TypeOK'
      BY <2>2 DEF NothingFor
    <2>3. CASE TakeLease(w)
      <3>1. cur[w] \in JobId
        BY <2>3 DEF TakeLease, InHand, Working
      <3>2. job' \in [JobId -> Job]
        BY <2>3, <3>1, RowTypes DEF TakeLease
      <3>3. QED
        BY <2>3, <3>2 DEF TakeLease, Pc
    <2>4. CASE EndTick(w)
      BY <2>4 DEF EndTick, Pc
    <2>5. CASE HandlerSucceeds(w)
      <3>1. cur[w] \in JobId
        BY <2>5 DEF HandlerSucceeds, InHand, Working
      <3>2. cur[w][1] \in Event /\ cur[w][2] \in Handler
        BY <3>1 DEF JobId
      <3>3. handled' \in [Event -> SUBSET Handler]
        BY <2>5, <3>2 DEF HandlerSucceeds
      <3>4. QED
        BY <2>5, <3>1, <3>3 DEF HandlerSucceeds, CountRun, Pc
    <2>6. CASE HandlerThrows(w)
      <3>1. cur[w] \in JobId
        BY <2>6 DEF HandlerThrows, InHand, Working
      <3>2. QED
        BY <2>6, <3>1 DEF HandlerThrows, CountRun, Pc
    <2>7. QED
      BY <1>3, <2>1, <2>2, <2>3, <2>4, <2>5, <2>6 DEF DispatchStep
  <1>4. ASSUME NEW w \in Worker, FinishStep(w) PROVE TypeOK'
    <2>1. CASE CompleteUpdate(w)
      BY <2>1 DEF CompleteUpdate, Pc
    <2>2. CASE CompleteRefused(w)
      BY <2>2 DEF CompleteRefused, Pc
    <2>3. CASE CompleteCount(w)
      BY <2>3 DEF CompleteCount, Pc, NoneUnfinished
    <2>4. CASE CompleteCommit(w)
      <3>1. cur[w] \in JobId
        BY <2>4 DEF CompleteCommit, InHand, Working
      <3>2. job' \in [JobId -> Job]
        BY <2>4, <3>1, RowTypes DEF CompleteCommit
      <3>3. event' \in [Event -> EventStatus]
        BY <2>4 DEF CompleteCommit, EventStatus
      <3>4. QED
        BY <2>4, <3>2, <3>3 DEF CompleteCommit, NextJob, Forget, Pc
    <2>5. CASE CompleteAbort(w)
      BY <2>5 DEF CompleteAbort, Pc
    <2>6. CASE FailRead(w)
      <3>1. cur[w] \in JobId
        BY <2>6 DEF FailRead, InHand, Working
      <3>2. job[cur[w]].attempt \in Nat
        BY <3>1 DEF Job
      <3>3. QED
        BY <2>6, <3>2 DEF FailRead, Pc
    <2>7. CASE FailRefused(w)
      BY <2>7 DEF FailRefused, Forget, Pc
    <2>8. CASE FailRetry(w)
      <3>1. cur[w] \in JobId
        BY <2>8 DEF FailRetry, InHand, Working
      <3>2. job' \in [JobId -> Job]
        BY <2>8, <3>1, att[w] + 1 \in Nat, RowTypes DEF FailRetry
      <3>3. QED
        BY <2>8, <3>2 DEF FailRetry, NextJob, Forget, Pc
    <2>9. CASE FailDeadLetter(w)
      <3>1. cur[w] \in JobId
        BY <2>9 DEF FailDeadLetter, InHand, Working
      <3>2. job' \in [JobId -> Job]
        BY <2>9, <3>1, RowTypes DEF FailDeadLetter
      <3>3. event' \in [Event -> EventStatus]
        BY <2>9 DEF FailDeadLetter, EventStatus
      <3>4. QED
        BY <2>9, <3>2, <3>3 DEF FailDeadLetter, NextJob, Forget, Pc
    <2>10. QED
      BY <1>4, <2>1, <2>2, <2>3, <2>4, <2>5, <2>6, <2>7, <2>8, <2>9 DEF FinishStep
  <1>5. ASSUME NEW w \in Worker, Crash(w) PROVE TypeOK'
    BY <1>5 DEF Crash, Forget, Pc
  <1>6. ASSUME NEW j \in JobId, LeaseExpires(j) PROVE TypeOK'
    BY <1>6, RowTypes DEF LeaseExpires
  <1>7. ASSUME NEW j \in JobId, BackoffEnds(j) PROVE TypeOK'
    BY <1>7, RowTypes DEF BackoffEnds
  <1>8. CASE ReplayStep
    <2>1. ASSUME NEW e \in Event, ReplayStart(e) PROVE TypeOK'
      BY <2>1 DEF ReplayStart, Replay, JobsOf
    <2>2. ASSUME NEW e \in Event, ReplayFinish(e) PROVE TypeOK'
      BY <2>2 DEF ReplayFinish, Replay, NoReplay, EventStatus
    <2>3. ASSUME NEW j \in JobId, ReplayCheck(j) PROVE TypeOK'
      BY <2>3 DEF ReplayCheck, Replay, NoReplay
    <2>4. ASSUME NEW j \in JobId, ReplayWrite(j) PROVE TypeOK'
      <3>1. job' \in [JobId -> Job]
        BY <2>4, RowTypes DEF ReplayWrite
      <3>2. QED
        BY <2>4, <3>1 DEF ReplayWrite, Replay
    <2>5. CASE ReplayCrash
      BY <2>5 DEF ReplayCrash, Replay, NoReplay
    <2>6. QED
      BY <1>8, <2>1, <2>2, <2>3, <2>4, <2>5 DEF ReplayStep
  <1>9. CASE UNCHANGED vars
    BY <1>9 DEF vars
  <1>10. QED
    BY <1>1, <1>2, <1>3, <1>4, <1>5, <1>6, <1>7, <1>8, <1>9 DEF Next, RelayStep

-------------------------------------------------------------------------------
(* Facts about the rows each write leaves behind. *)

\* No write makes a row disappear, and only two of them look at a new row.
LEMMA RowStatus ==
  ASSUME NEW r \in Job
  PROVE  /\ \A w \in Worker : LeasedRow(r, w).status = "LEASED"
         /\ \A a \in Nat : RetryRow(r, a).status = "PENDING"
         /\ CompletedRow(r).status = "COMPLETED"
         /\ DeadRow(r).status = "DEAD_LETTER"
         /\ ResetRow(r).status = "PENDING"
         /\ ExpiredRow(r).status = r.status /\ DueRow(r).status = r.status
         /\ NewRow.status = "PENDING"
  BY DEF Job, LeasedRow, CompletedRow, RetryRow, DeadRow, ResetRow, ExpiredRow, DueRow,
         NewRow, NoRow

\* An update by id of a row that exists leaves the same rows existing.
RowWritten(j, r) == Exists(j) /\ r.status # "NONE" /\ job' = [job EXCEPT ![j] = r]

\* Writing one row leaves the others as they are.
LEMMA OneRowWritten ==
  ASSUME TypeOK, NEW j \in JobId, NEW r \in Job, RowWritten(j, r)
  PROVE  /\ \A k \in JobId : Exists(k)' <=> Exists(k)
         /\ \A k \in JobId : k # j => job'[k] = job[k]
         /\ job'[j] = r
  BY DEF TypeOK, RowWritten, Exists

\* The parts of a row's name.
LEMMA JobIdParts ==
  ASSUME NEW j \in JobId
  PROVE  j = <<j[1], j[2], j[3]>> /\ j[1] \in Event /\ j[2] \in Handler /\ j[3] \in Worker
  BY DEF JobId

\* The invariant holds before the first event.
LEMMA InvInit == Init => IInv
  <1> SUFFICES ASSUME Init PROVE IInv
    OBVIOUS
  <1>1. TypeOK
    BY TypeInit
  <1>2. \A j \in JobId : job[j].status = "NONE"
    BY DEF Init, NoRow
  <1>3. InHand
    BY DEF Init, InHand, Working
  <1>4. Referential
    BY <1>2 DEF Init, Referential, Exists, NoReplay
  <1>5. Succeeded
    BY <1>2, OutboxAssumption DEF Init, Succeeded
  <1>6. JobsAllOrNone
    <2> SUFFICES ASSUME NEW e \in Event, NEW w \in Worker, NEW h \in HandlersFor[e]
                 PROVE  ~Exists(<<e, h, w>>)
      BY DEF JobsAllOrNone
    <2>1. <<e, h, w>> \in JobId
      BY OutboxAssumption DEF JobId
    <2>2. QED
      BY <1>2, <2>1 DEF Exists
  <1>7. CountStillTrue
    BY DEF Init, CountStillTrue
  <1>8. QED
    BY <1>1, <1>3, <1>4, <1>5, <1>6, <1>7 DEF IInv

(* Steps that leave job_attempts alone: rows cannot stop existing, so only  *)
(* the registers and the events matter.                                     *)
LEMMA InvNoRow ==
  ASSUME IInv, TypeOK', UNCHANGED job,
         \/ \E e \in Event : \/ CreateEvent(e) \/ MarkRolledBack(e)
                             \/ ReplayStart(e) \/ ReplayFinish(e)
         \/ \E w \in Worker, e \in Event : DeadLetterUnhandled(w, e)
         \/ \E w \in Worker : StartTick(w) \/ BeginDispatch(w) \/ EndTick(w)
         \/ \E w \in Worker, h \in Handler : NothingFor(w, h)
         \/ \E w \in Worker : \/ HandlerThrows(w) \/ CompleteUpdate(w)
                              \/ CompleteRefused(w) \/ CompleteAbort(w)
                              \/ FailRead(w) \/ FailRefused(w) \/ Crash(w)
         \/ \E j \in JobId : ReplayCheck(j)
         \/ ReplayCrash
  PROVE  IInv'
  <1> USE DEF IInv, TypeOK, Goto, reg, Exists
  <1>1. JobsAllOrNone'
    BY DEF JobsAllOrNone
  <1>2. ASSUME NEW e \in Event,
               CreateEvent(e) \/ MarkRolledBack(e) \/ ReplayStart(e) \/ ReplayFinish(e)
        PROVE  IInv'
    <2>1. \A d \in Event : event[d] # "NONE" => event'[d] # "NONE"
      BY <1>2 DEF CreateEvent, MarkRolledBack, ReplayStart, ReplayFinish
    <2>2. UNCHANGED <<pc, reg, handled>>
      BY <1>2 DEF CreateEvent, MarkRolledBack, ReplayStart, ReplayFinish
    <2>3. /\ \A d \in replay'.ev : event[d] # "NONE"
          /\ \A j \in replay'.todo \cup replay'.checked : Exists(j)
      BY <1>2 DEF CreateEvent, MarkRolledBack, ReplayStart, ReplayFinish, NoReplay,
         JobsOf, Referential
    <2>4. \A d \in replay'.ev : d \in Event
      BY DEF Replay
    <2>5. Referential'
      BY <2>1, <2>2, <2>3, <2>4, JobIdParts DEF Referential
    <2>6. InHand' /\ Succeeded' /\ CountStillTrue'
      BY <2>2 DEF InHand, Succeeded, CountStillTrue
    <2>7. QED
      BY <1>1, <2>5, <2>6
  <1>4. CASE \E w \in Worker, e \in Event : DeadLetterUnhandled(w, e)
    BY <1>1, <1>4 DEF DeadLetterUnhandled, InHand, Referential, Succeeded, CountStillTrue
  <1>5. ASSUME NEW w \in Worker, StartTick(w) \/ BeginDispatch(w) \/ EndTick(w)
        PROVE  IInv'
    <2>1. /\ UNCHANGED <<event, cur, allDone, replay, handled>>
          /\ \A v \in Worker : v # w => pc'[v] = pc[v] /\ todo'[v] = todo[v]
          /\ pc'[w] \in {"materialize", "find", "idle"}
          /\ \A e \in todo'[w] : event[e] # "NONE"
      BY <1>5 DEF StartTick, BeginDispatch, EndTick, Unmaterialized, Referential
    <2>2. InHand' /\ Referential'
      BY <2>1 DEF InHand, Working, Referential
    <2>3. Succeeded' /\ CountStillTrue'
      BY <2>1 DEF Succeeded, CountStillTrue
    <2>4. QED
      BY <1>1, <2>2, <2>3
  <1>6. CASE \E w \in Worker, h \in Handler : NothingFor(w, h)
    BY <1>1, <1>6 DEF NothingFor, InHand, Referential, Succeeded, CountStillTrue
  <1>7. CASE \E w \in Worker : \/ HandlerThrows(w) \/ CompleteUpdate(w)
                               \/ CompleteRefused(w) \/ CompleteAbort(w)
    BY <1>1, <1>7 DEF HandlerThrows, CompleteUpdate, CompleteRefused, CompleteAbort,
       Completing, InHand, Working, Referential, Succeeded, CountStillTrue
  <1>8. CASE \E w \in Worker : FailRead(w) \/ FailRefused(w) \/ Crash(w)
    BY <1>1, <1>8 DEF FailRead, FailRefused, Crash, Forget, InHand, Working, Referential,
       Succeeded, CountStillTrue
  <1>9. CASE (\E j \in JobId : ReplayCheck(j)) \/ ReplayCrash
    BY <1>1, <1>9 DEF ReplayCheck, ReplayCrash, NoReplay, Replay, InHand, Referential,
       Succeeded, CountStillTrue
  <1>10. QED
    BY <1>2, <1>4, <1>5, <1>6, <1>7, <1>8, <1>9

(* The handler's success and the count of completeJob: the two steps whose  *)
(* findings a later commit relies on.                                       *)
LEMMA InvHandled ==
  ASSUME IInv, TypeOK', NEW w \in Worker, HandlerSucceeds(w)
  PROVE  IInv'
  <1> USE DEF IInv, TypeOK, Goto, reg, Exists
  <1>1. cur[w] \in JobId /\ Exists(cur[w])
    BY DEF HandlerSucceeds, InHand, Working
  <1>2. cur[w][1] \in Event /\ cur[w][2] \in HandlersFor[cur[w][1]]
    BY <1>1, JobIdParts DEF Referential
  <1>3. /\ \A e \in Event : handled[e] \subseteq handled'[e]
        /\ \A e \in Event : handled'[e] \subseteq HandlersFor[e]
        /\ cur[w][2] \in handled'[cur[w][1]]
    BY <1>2 DEF HandlerSucceeds, Succeeded
  <1>4. InHand' /\ Referential' /\ JobsAllOrNone'
    BY DEF HandlerSucceeds, InHand, Working, Referential, JobsAllOrNone
  <1>5. ASSUME NEW v \in Worker, pc[v] \in Working PROVE cur[v][1] \in Event
    BY <1>5, JobIdParts DEF InHand
  <1>6. Succeeded'
    <2>1. \A j \in JobId : job'[j].status = "COMPLETED" => j[2] \in handled'[j[1]]
      BY <1>3, JobIdParts DEF Succeeded, HandlerSucceeds
    <2>2. ASSUME NEW v \in Worker, pc'[v] \in {"complete", "count", "commit"}
          PROVE  cur'[v][2] \in handled'[cur'[v][1]]
      BY <1>3, <1>5, <2>2 DEF Succeeded, HandlerSucceeds, Working
    <2>3. QED
      BY <1>3, <2>1, <2>2 DEF Succeeded
  <1>7. CountStillTrue'
    <2> SUFFICES ASSUME NEW v \in Worker, pc'[v] = "commit", allDone'[v]
                 PROVE  handled'[cur'[v][1]] = HandlersFor[cur'[v][1]]
      BY DEF CountStillTrue
    <2>1. pc[v] = "commit" /\ allDone[v] /\ cur'[v] = cur[v]
      BY DEF HandlerSucceeds
    <2>2. handled[cur[v][1]] = HandlersFor[cur[v][1]] /\ cur[v][1] \in Event
      BY <1>5, <2>1 DEF CountStillTrue, Working
    <2>3. QED
      BY <1>3, <2>1, <2>2
  <1>8. QED
    BY <1>4, <1>6, <1>7

\* The count of completeJob preserves it: what it has read stays true.
LEMMA InvCount ==
  ASSUME IInv, TypeOK', NEW w \in Worker, CompleteCount(w)
  PROVE  IInv'
  <1> USE DEF IInv, TypeOK, Goto, reg, Exists
  <1> DEFINE c == cur[w]
  <1>1. c \in JobId /\ Exists(c) /\ c[1] \in Event /\ c[3] \in Worker
    BY JobIdParts DEF CompleteCount, InHand, Working
  <1>2. c[2] \in HandlersFor[c[1]] /\ c[2] \in handled[c[1]]
    BY <1>1 DEF CompleteCount, Referential, Succeeded
  <1>3. ASSUME NoneUnfinished(c) PROVE handled[c[1]] = HandlersFor[c[1]]
    <2>1. SUFFICES ASSUME NEW g \in HandlersFor[c[1]] PROVE g \in handled[c[1]]
      BY <1>1 DEF Succeeded
    <2> DEFINE k == <<c[1], g, c[3]>>
    <2>2. g \in Handler
      BY <1>1, OutboxAssumption
    <2>3. k \in JobId /\ k[1] = c[1] /\ k[2] = g
      BY <1>1, <2>2 DEF JobId
    <2>4. Exists(k)
      BY <1>1, <1>2, <2>1, JobIdParts DEF JobsAllOrNone
    <2>5. k = c \/ job[k].status = "COMPLETED"
      BY <1>3, <2>3, <2>4 DEF NoneUnfinished, JobsOf
    <2>6. QED
      BY <1>2, <2>3, <2>5 DEF Succeeded
  <1>4. InHand' /\ Referential' /\ JobsAllOrNone' /\ Succeeded'
    BY DEF CompleteCount, InHand, Working, Referential, JobsAllOrNone, Succeeded
  <1>5. CountStillTrue'
    BY <1>3 DEF CompleteCount, CountStillTrue
  <1>6. QED
    BY <1>4, <1>5

\* So does the choice of a job: the row exists and has a handler.
LEMMA InvFind ==
  ASSUME IInv, TypeOK', NEW w \in Worker, NEW h \in Handler, FindJob(w, h)
  PROVE  IInv'
  <1> USE DEF IInv, TypeOK, Goto, reg, Exists
  <1>1. PICK j \in Candidates(h) : cur' = [cur EXCEPT ![w] = j]
    BY DEF FindJob
  <1>2. j \in JobId /\ Exists(j)
    BY <1>1 DEF Candidates, Leasable, Abandoned
  <1>3. InHand' /\ Referential' /\ JobsAllOrNone' /\ Succeeded' /\ CountStillTrue'
    BY <1>1, <1>2 DEF FindJob, InHand, Working, Referential, JobsAllOrNone, Succeeded,
       CountStillTrue
  <1>4. QED
    BY <1>3

(* Updates by id of a row that exists, whatever it has become since it was  *)
(* read: no conjunct of the invariant depends on which live status it has,  *)
(* but for COMPLETED.                                                       *)
LEMMA InvRowWritten ==
  ASSUME IInv, TypeOK', NEW j \in JobId, NEW r \in Job, RowWritten(j, r),
         r.status = "COMPLETED" => j[2] \in handled[j[1]],
         UNCHANGED <<handled, todo>>,
         \A e \in Event : event[e] # "NONE" => event'[e] # "NONE",
         replay'.ev \subseteq replay.ev,
         replay'.todo \cup replay'.checked \subseteq replay.todo \cup replay.checked,
         \A v \in Worker :
           /\ pc'[v] \in Working => pc[v] \in Working /\ cur'[v] = cur[v]
           /\ pc'[v] \in {"complete", "count", "commit"} => pc'[v] = pc[v]
           /\ pc'[v] = "commit" => allDone'[v] = allDone[v]
  PROVE  IInv'
  <1> USE DEF IInv, TypeOK
  <1>1. /\ \A k \in JobId : Exists(k)' <=> Exists(k)
        /\ \A k \in JobId : k # j => job'[k] = job[k]
        /\ job'[j] = r
    BY OneRowWritten
  <1>2. InHand'
    BY <1>1 DEF InHand
  <1>3. Referential'
    <2>1. \A k \in JobId :
            Exists(k)' => event'[k[1]] # "NONE" /\ k[2] \in HandlersFor[k[1]]
      BY <1>1, JobIdParts DEF Referential
    <2>2. \A w \in Worker : \A e \in todo'[w] : event'[e] # "NONE"
      BY DEF Referential
    <2>3. \A e \in replay'.ev : event'[e] # "NONE"
      BY DEF Referential, Replay
    <2>4. \A k \in replay'.todo \cup replay'.checked : Exists(k)'
      BY <1>1 DEF Referential, Replay
    <2>5. QED
      BY <2>1, <2>2, <2>3, <2>4 DEF Referential
  <1>4. Succeeded'
    BY <1>1 DEF Succeeded, Working
  <1>5. JobsAllOrNone'
    <2> SUFFICES ASSUME NEW e \in Event, NEW w \in Worker, NEW h \in HandlersFor[e],
                        NEW g \in HandlersFor[e]
                 PROVE  Exists(<<e, h, w>>)' <=> Exists(<<e, g, w>>)'
      BY DEF JobsAllOrNone
    <2>1. <<e, h, w>> \in JobId /\ <<e, g, w>> \in JobId
      BY OutboxAssumption DEF JobId
    <2>2. QED
      BY <1>1, <2>1 DEF JobsAllOrNone
  <1>6. CountStillTrue'
    BY DEF CountStillTrue, Working
  <1>7. QED
    BY <1>2, <1>3, <1>4, <1>5, <1>6

\* So does materialization: the jobs of an event appear together.
LEMMA InvMaterialize ==
  ASSUME IInv, TypeOK', NEW w \in Worker, NEW e \in Event, Materialize(w, e)
  PROVE  IInv'
  <1> USE DEF IInv, TypeOK, Goto, reg
  <1> DEFINE new == NewJobs(e, w)
  <1>1. \A j \in JobId : job'[j] = IF j \in new THEN NewRow ELSE job[j]
    BY DEF Materialize
  <1>2. NewRow.status = "PENDING"
    BY DEF NewRow, NoRow
  <1>3. \A j \in JobId : Exists(j)' <=> Exists(j) \/ j \in new
    BY <1>1, <1>2 DEF Exists
  <1>4. \A j \in new : j[1] = e /\ j[2] \in HandlersFor[e]
    BY DEF NewJobs
  <1>5. event[e] # "NONE"
    BY DEF Materialize, Referential
  <1>6. InHand'
    BY <1>3 DEF Materialize, InHand
  <1>7. Referential'
    <2>1. \A j \in JobId :
            Exists(j)' => event'[j[1]] # "NONE" /\ j[2] \in HandlersFor[j[1]]
      BY <1>3, <1>4, <1>5 DEF Materialize, Referential
    <2>2. \A v \in Worker : \A d \in todo'[v] : event'[d] # "NONE"
      BY DEF Materialize, Referential
    <2>3. \A d \in replay'.ev : event'[d] # "NONE"
      BY DEF Materialize, Referential
    <2>4. \A j \in replay'.todo \cup replay'.checked : Exists(j)'
      BY <1>3 DEF Materialize, Referential, Replay
    <2>5. QED
      BY <2>1, <2>2, <2>3, <2>4 DEF Referential
  <1>8. Succeeded'
    BY <1>1, <1>2 DEF Materialize, Succeeded
  <1>9. JobsAllOrNone'
    <2> SUFFICES ASSUME NEW d \in Event, NEW v \in Worker, NEW h \in HandlersFor[d],
                        NEW g \in HandlersFor[d]
                 PROVE  Exists(<<d, h, v>>)' <=> Exists(<<d, g, v>>)'
      BY DEF JobsAllOrNone
    <2>1. <<d, h, v>> \in JobId /\ <<d, g, v>> \in JobId
      BY OutboxAssumption DEF JobId
    <2>2. <<d, h, v>> \in new <=> d = e /\ v = w
      BY DEF NewJobs
    <2>3. <<d, g, v>> \in new <=> d = e /\ v = w
      BY DEF NewJobs
    <2>4. QED
      BY <1>3, <2>1, <2>2, <2>3 DEF JobsAllOrNone
  <1>10. CountStillTrue'
    BY DEF Materialize, CountStillTrue
  <1>11. QED
    BY <1>6, <1>7, <1>8, <1>9, <1>10

\* Every step preserves the invariant.
LEMMA InvStep == IInv /\ [Next]_vars => IInv'
  <1> SUFFICES ASSUME IInv, [Next]_vars PROVE IInv'
    OBVIOUS
  <1>0. TypeOK'
    BY TypeStep DEF IInv
  <1> USE DEF IInv, TypeOK, Goto, reg
  <1>1. ASSUME NEW e \in Event, CreateEvent(e) \/ MarkRolledBack(e) PROVE IInv'
    BY <1>0, <1>1, InvNoRow DEF CreateEvent, MarkRolledBack
  <1>2. ASSUME NEW w \in Worker, MaterializeStep(w) PROVE IInv'
    <2>1. CASE StartTick(w) \/ BeginDispatch(w)
      BY <1>0, <2>1, InvNoRow DEF StartTick, BeginDispatch
    <2>2. ASSUME NEW e \in Event, DeadLetterUnhandled(w, e) PROVE IInv'
      BY <1>0, <2>2, InvNoRow DEF DeadLetterUnhandled
    <2>3. ASSUME NEW e \in Event, Materialize(w, e) PROVE IInv'
      BY <1>0, <2>3, InvMaterialize
    <2>4. QED
      BY <1>2, <2>1, <2>2, <2>3 DEF MaterializeStep
  <1>3. ASSUME NEW w \in Worker, DispatchStep(w) PROVE IInv'
    <2>1. ASSUME NEW h \in Handler, FindJob(w, h) PROVE IInv'
      BY <1>0, <2>1, InvFind
    <2>2. ASSUME NEW h \in Handler, NothingFor(w, h) PROVE IInv'
      BY <1>0, <2>2, InvNoRow DEF NothingFor
    <2>3. CASE TakeLease(w)
      <3> DEFINE j == cur[w]  r == LeasedRow(job[j], w)
      <3>1. j \in JobId /\ Exists(j)
        BY <2>3 DEF TakeLease, InHand, Working
      <3>2. r \in Job /\ r.status = "LEASED"
        BY <3>1, RowTypes, RowStatus
      <3>3. RowWritten(j, r)
        BY <2>3, <3>1, <3>2 DEF TakeLease, RowWritten
      <3>4. \A v \in Worker :
              /\ pc'[v] \in Working => pc[v] \in Working /\ cur'[v] = cur[v]
              /\ pc'[v] \in {"complete", "count", "commit"} => pc'[v] = pc[v]
              /\ pc'[v] = "commit" => allDone'[v] = allDone[v]
        BY <2>3 DEF TakeLease, Working
      <3>5. UNCHANGED <<event, handled, todo, replay>>
        BY <2>3 DEF TakeLease
      <3> HIDE DEF j, r
      <3>6. QED
        BY <1>0, <3>1, <3>2, <3>3, <3>4, <3>5, InvRowWritten
    <2>4. CASE EndTick(w)
      BY <1>0, <2>4, InvNoRow DEF EndTick
    <2>5. CASE HandlerSucceeds(w)
      BY <1>0, <2>5, InvHandled
    <2>6. CASE HandlerThrows(w)
      BY <1>0, <2>6, InvNoRow DEF HandlerThrows
    <2>7. QED
      BY <1>3, <2>1, <2>2, <2>3, <2>4, <2>5, <2>6 DEF DispatchStep
  <1>4. ASSUME NEW w \in Worker, FinishStep(w) PROVE IInv'
    <2>1. CASE CompleteUpdate(w) \/ CompleteRefused(w) \/ CompleteAbort(w)
      BY <1>0, <2>1, InvNoRow DEF CompleteUpdate, CompleteRefused, CompleteAbort
    <2>2. CASE FailRead(w) \/ FailRefused(w)
      BY <1>0, <2>2, InvNoRow DEF FailRead, FailRefused
    <2>3. CASE CompleteCount(w)
      BY <1>0, <2>3, InvCount
    <2>4. CASE CompleteCommit(w) \/ FailRetry(w) \/ FailDeadLetter(w)
      <3> DEFINE j == cur[w]
                 r == IF pc[w] = "commit" THEN CompletedRow(job[j])
                      ELSE IF Exhausted(att[w]) THEN DeadRow(job[j])
                      ELSE RetryRow(job[j], att[w] + 1)
      <3>1. j \in JobId /\ Exists(j)
        BY <2>4 DEF CompleteCommit, FailRetry, FailDeadLetter, InHand, Working
      <3>2. /\ r \in Job /\ r.status # "NONE"
            /\ r.status = "COMPLETED" => pc[w] = "commit"
        <4>1. att[w] + 1 \in Nat /\ job[j] \in Job
          BY <3>1
        <4>2. QED
          BY <4>1, RowTypes, RowStatus
      <3>3. RowWritten(j, r)
        BY <2>4, <3>1, <3>2 DEF CompleteCommit, FailRetry, FailDeadLetter, RowWritten
      <3>4. \A v \in Worker :
              /\ pc'[v] \in Working => pc[v] \in Working /\ cur'[v] = cur[v]
              /\ pc'[v] \in {"complete", "count", "commit"} => pc'[v] = pc[v]
              /\ pc'[v] = "commit" => allDone'[v] = allDone[v]
        BY <2>4 DEF CompleteCommit, FailRetry, FailDeadLetter, NextJob, Forget, Working
      <3>5. UNCHANGED <<handled, todo, replay>>
        BY <2>4 DEF CompleteCommit, FailRetry, FailDeadLetter
      <3>6. \A e \in Event : event[e] # "NONE" => event'[e] # "NONE"
        BY <2>4 DEF CompleteCommit, FailRetry, FailDeadLetter
      <3>7. r.status = "COMPLETED" => j[2] \in handled[j[1]]
        BY <3>2 DEF Succeeded
      <3> HIDE DEF j, r
      <3>8. QED
        BY <1>0, <3>1, <3>2, <3>3, <3>4, <3>5, <3>6, <3>7, InvRowWritten
    <2>5. QED
      BY <1>4, <2>1, <2>2, <2>3, <2>4 DEF FinishStep
  <1>5. ASSUME NEW w \in Worker, Crash(w) PROVE IInv'
    BY <1>0, <1>5, InvNoRow DEF Crash
  <1>6. ASSUME NEW j \in JobId, LeaseExpires(j) \/ BackoffEnds(j) PROVE IInv'
    <2> DEFINE r == IF LeaseExpires(j) THEN ExpiredRow(job[j]) ELSE DueRow(job[j])
    <2>1. r \in Job /\ r.status = job[j].status
      BY RowTypes, RowStatus
    <2>2. r.status # "NONE" /\ r.status # "COMPLETED" /\ Exists(j)
      BY <1>6, <2>1 DEF LeaseExpires, BackoffEnds, Exists
    <2>3. job' = [job EXCEPT ![j] = r] /\ UNCHANGED <<event, pc, reg, replay, handled>>
      BY <1>6 DEF LeaseExpires, BackoffEnds
    <2>4. RowWritten(j, r)
      BY <2>2, <2>3 DEF RowWritten
    <2> HIDE DEF r
    <2>5. QED
      BY <1>0, <2>1, <2>2, <2>3, <2>4, InvRowWritten
  <1>7. CASE ReplayStep
    <2>1. ASSUME NEW e \in Event, ReplayStart(e) \/ ReplayFinish(e) PROVE IInv'
      BY <1>0, <2>1, InvNoRow DEF ReplayStart, ReplayFinish
    <2>2. ASSUME NEW j \in JobId, ReplayCheck(j) PROVE IInv'
      BY <1>0, <2>2, InvNoRow DEF ReplayCheck
    <2>3. ASSUME NEW j \in JobId, ReplayWrite(j) PROVE IInv'
      <3> DEFINE r == ResetRow(job[j])
      <3>1. r \in Job /\ r.status = "PENDING"
        BY RowTypes, RowStatus
      <3>2. Exists(j)
        BY <2>3 DEF ReplayWrite, Referential
      <3>3. RowWritten(j, r)
        BY <2>3, <3>1, <3>2 DEF ReplayWrite, RowWritten
      <3>4. /\ replay'.ev \subseteq replay.ev
            /\ replay'.todo \cup replay'.checked \subseteq replay.todo \cup replay.checked
        BY <2>3 DEF ReplayWrite, Replay
      <3>5. UNCHANGED <<event, pc, reg, handled>>
        BY <2>3 DEF ReplayWrite
      <3> HIDE DEF r
      <3>6. QED
        BY <1>0, <3>1, <3>2, <3>3, <3>4, <3>5, InvRowWritten
    <2>4. CASE ReplayCrash
      BY <1>0, <2>4, InvNoRow DEF ReplayCrash
    <2>5. QED
      BY <1>7, <2>1, <2>2, <2>3, <2>4 DEF ReplayStep
  <1>8. CASE UNCHANGED vars
    BY <1>0, <1>8 DEF vars, InHand, Referential, Succeeded, JobsAllOrNone, CountStillTrue,
       Exists
  <1>9. QED
    BY <1>1, <1>2, <1>3, <1>4, <1>5, <1>6, <1>7, <1>8 DEF Next, RelayStep

(* OutboxRelay is well typed in every reachable state. *)
THEOREM TypeCorrect == Spec => []TypeOK
  <1>1. IInv => TypeOK
    BY DEF IInv
  <1>2. QED
    BY <1>1, InvInit, InvStep, PTL DEF Spec

(* materializePending creates the jobs of an event all or none, whatever    *)
(* relays overlap.                                                          *)
THEOREM AllOrNone == Spec => []JobsAllOrNone
  <1>1. IInv => JobsAllOrNone
    BY DEF IInv
  <1>2. QED
    BY <1>1, InvInit, InvStep, PTL DEF Spec

-------------------------------------------------------------------------------
(* Steps of the relay are steps of the promise, or leave it alone. *)

\* Every step of the relay is a step of the promise, or a stutter of it.
LEMMA DeliveryStep == IInv /\ [Next]_vars => [Delivery!Next]_(Delivery!vars)
  <1> SUFFICES ASSUME IInv, [Next]_vars
               PROVE  Delivery!Next \/ UNCHANGED <<event, handled>>
    BY DEF Delivery!vars
  <1> USE DEF IInv, TypeOK
  <1>1. ASSUME NEW e \in Event, NEW s \in {"DEAD_LETTER", "PENDING", "ROLLED_BACK"},
               event[e] # "NONE", event' = [event EXCEPT ![e] = s], UNCHANGED handled
        PROVE  Delivery!Next
    <2>1. s \in Delivery!EventStatus
      BY DEF Delivery!EventStatus
    <2>2. Delivery!Withdraw(e, s)
      BY <1>1 DEF Delivery!Withdraw
    <2>3. QED
      BY <2>1, <2>2 DEF Delivery!Next
  <1>2. ASSUME NEW e \in Event, CreateEvent(e) PROVE Delivery!Next
    <2>1. Delivery!Emit(e)
      BY <1>2 DEF CreateEvent, Delivery!Emit
    <2>2. QED
      BY <2>1 DEF Delivery!Next
  <1>3. ASSUME NEW e \in Event, MarkRolledBack(e) PROVE Delivery!Next
    BY <1>1, <1>3 DEF MarkRolledBack
  <1>4. ASSUME NEW w \in Worker, MaterializeStep(w)
        PROVE  Delivery!Next \/ UNCHANGED <<event, handled>>
    <2>1. ASSUME NEW e \in Event, DeadLetterUnhandled(w, e) PROVE Delivery!Next
      <3>1. event[e] # "NONE"
        BY <2>1 DEF DeadLetterUnhandled, Referential
      <3>2. QED
        BY <1>1, <2>1, <3>1 DEF DeadLetterUnhandled
    <2>2. QED
      BY <1>4, <2>1 DEF MaterializeStep, StartTick, Materialize, BeginDispatch
  <1>5. ASSUME NEW w \in Worker, DispatchStep(w)
        PROVE  Delivery!Next \/ UNCHANGED <<event, handled>>
    <2>1. CASE HandlerSucceeds(w)
      <3>1. cur[w] \in JobId /\ Exists(cur[w])
        BY <2>1 DEF HandlerSucceeds, InHand, Working
      <3>2. /\ cur[w][1] \in Event /\ cur[w][2] \in Handler
            /\ event[cur[w][1]] # "NONE" /\ cur[w][2] \in HandlersFor[cur[w][1]]
        BY <3>1, JobIdParts DEF Referential
      <3>3. Delivery!Deliver(cur[w][1], cur[w][2])
        BY <2>1, <3>2 DEF HandlerSucceeds, Delivery!Deliver
      <3>4. QED
        BY <3>2, <3>3 DEF Delivery!Next
    <2>2. QED
      BY <1>5, <2>1 DEF DispatchStep, FindJob, NothingFor, TakeLease, EndTick,
         HandlerThrows
  <1>6. ASSUME NEW w \in Worker, FinishStep(w)
        PROVE  Delivery!Next \/ UNCHANGED <<event, handled>>
    <2>1. CASE CompleteCommit(w) /\ allDone[w]
      <3>1. cur[w] \in JobId /\ Exists(cur[w])
        BY <2>1 DEF CompleteCommit, InHand, Working
      <3>2. /\ cur[w][1] \in Event /\ event[cur[w][1]] # "NONE"
            /\ cur[w][2] \in HandlersFor[cur[w][1]]
        BY <3>1, JobIdParts DEF Referential
      <3>3. handled[cur[w][1]] = HandlersFor[cur[w][1]]
        BY <2>1 DEF CompleteCommit, CountStillTrue
      <3>4. Delivery!Publish(cur[w][1])
        BY <2>1, <3>2, <3>3 DEF CompleteCommit, Delivery!Publish
      <3>5. QED
        BY <3>2, <3>4 DEF Delivery!Next
    <2>2. CASE CompleteCommit(w) /\ ~allDone[w]
      BY <2>2 DEF CompleteCommit
    <2>3. CASE FailDeadLetter(w)
      <3>1. cur[w] \in JobId /\ Exists(cur[w])
        BY <2>3 DEF FailDeadLetter, InHand, Working
      <3>2. cur[w][1] \in Event /\ event[cur[w][1]] # "NONE"
        BY <3>1, JobIdParts DEF Referential
      <3>3. QED
        BY <1>1, <2>3, <3>2 DEF FailDeadLetter
    <2>4. QED
      BY <1>6, <2>1, <2>2, <2>3 DEF FinishStep, CompleteUpdate, CompleteRefused,
         CompleteCount, CompleteAbort, FailRead, FailRefused, FailRetry
  <1>7. ASSUME NEW e \in Event, ReplayFinish(e) PROVE Delivery!Next
    BY <1>1, <1>7 DEF ReplayFinish, Referential
  <1>8. CASE ReplayStep
    BY <1>7, <1>8 DEF ReplayStep, ReplayStart, ReplayCheck, ReplayWrite, ReplayCrash
  <1>9. CASE (\E w \in Worker : Crash(w)) \/ UNCHANGED vars
               \/ \E j \in JobId : LeaseExpires(j) \/ BackoffEnds(j)
    BY <1>9 DEF Crash, LeaseExpires, BackoffEnds, vars
  <1>10. QED
    BY <1>2, <1>3, <1>4, <1>5, <1>6, <1>8, <1>9 DEF Next, RelayStep

(* The relay keeps the promise of the outbox for any number of relays that  *)
(* overlap in any way: PUBLISHED means every handler has succeeded, no      *)
(* success is forgotten, no event disappears.                               *)
THEOREM ImplementsDelivery == Spec => DeliverySpec
  <1>1. Init => Delivery!Init
    BY DEF Init, Delivery!Init
  <1>2. QED
    BY <1>1, InvInit, InvStep, DeliveryStep, PTL DEF Spec, DeliverySpec, Delivery!Spec

-------------------------------------------------------------------------------
(* Ticks that do not overlap. *)

OneTick == \A v, w \in Worker : pc[v] # "idle" /\ pc[w] # "idle" => v = w

\* What a relay has on its list of pending events still has no job.
ListIsFresh ==
  \A w \in Worker : \A e \in todo[w] :
    pc[w] = "materialize" /\ \A j \in JobId : j[1] = e => ~Exists(j)

OneRow == \A j, k \in JobId : Exists(j) /\ Exists(k) /\ SameKey(j, k) => j = k

SerialInv == Exclusive => OneTick /\ ListIsFresh /\ OneRow

\* The invariant of relays that never overlap holds at the start.
LEMMA SerialInit == Init => SerialInv
  BY DEF Init, SerialInv, OneTick, ListIsFresh, OneRow, Exists, NoRow

\* Every step but Materialize writes rows that exist already.
LEMMA RowsKept ==
  ASSUME IInv, [Next]_vars,
         \A w \in Worker, e \in Event : ~Materialize(w, e)
  PROVE  \A j \in JobId : Exists(j)' <=> Exists(j)
  <1> USE DEF IInv, TypeOK, Exists
  <1>1. CASE UNCHANGED job
    BY <1>1
  <1>2. ASSUME NEW j \in JobId, NEW r \in Job, RowWritten(j, r)
        PROVE  \A k \in JobId : Exists(k)' <=> Exists(k)
    BY <1>2, OneRowWritten
  <1>3. ASSUME NEW w \in Worker, TakeLease(w) PROVE \A j \in JobId : Exists(j)' <=> Exists(j)
    <2>1. cur[w] \in JobId /\ Exists(cur[w])
      BY <1>3 DEF TakeLease, InHand, Working
    <2>2. LeasedRow(job[cur[w]], w) \in Job /\ LeasedRow(job[cur[w]], w).status = "LEASED"
      BY <2>1, RowTypes, RowStatus
    <2>3. RowWritten(cur[w], LeasedRow(job[cur[w]], w))
      BY <1>3, <2>1, <2>2 DEF TakeLease, RowWritten
    <2>4. QED
      BY <1>2, <2>1, <2>2, <2>3
  <1>4. ASSUME NEW w \in Worker, CompleteCommit(w) \/ FailRetry(w) \/ FailDeadLetter(w)
        PROVE  \A j \in JobId : Exists(j)' <=> Exists(j)
    <2> DEFINE j == cur[w]
    <2>1. j \in JobId /\ Exists(j)
      BY <1>4 DEF CompleteCommit, FailRetry, FailDeadLetter, InHand, Working
    <2>2. att[w] + 1 \in Nat /\ job[j] \in Job
      BY <2>1
    <2>3. \E r \in Job : RowWritten(j, r)
      <3>1. CASE CompleteCommit(w)
        BY <2>1, <2>2, <3>1, RowTypes, RowStatus DEF CompleteCommit, RowWritten
      <3>2. CASE FailRetry(w)
        BY <2>1, <2>2, <3>2, RowTypes, RowStatus DEF FailRetry, RowWritten
      <3>3. CASE FailDeadLetter(w)
        BY <2>1, <2>2, <3>3, RowTypes, RowStatus DEF FailDeadLetter, RowWritten
      <3>4. QED
        BY <1>4, <3>1, <3>2, <3>3
    <2>4. QED
      BY <1>2, <2>1, <2>3
  <1>5. ASSUME NEW j \in JobId, LeaseExpires(j) \/ BackoffEnds(j) \/ ReplayWrite(j)
        PROVE  \A k \in JobId : Exists(k)' <=> Exists(k)
    <2>1. Exists(j)
      BY <1>5 DEF LeaseExpires, BackoffEnds, ReplayWrite, Referential
    <2>2. \E r \in Job : RowWritten(j, r)
      <3>1. CASE LeaseExpires(j)
        BY <2>1, <3>1, RowTypes, RowStatus DEF LeaseExpires, RowWritten
      <3>2. CASE BackoffEnds(j)
        BY <2>1, <3>2, RowTypes, RowStatus DEF BackoffEnds, RowWritten
      <3>3. CASE ReplayWrite(j)
        BY <2>1, <3>3, RowTypes, RowStatus DEF ReplayWrite, RowWritten
      <3>4. QED
        BY <1>5, <3>1, <3>2, <3>3
    <2>3. QED
      BY <1>2, <2>2
  <1>6. CASE \/ \E w \in Worker : \/ MaterializeStep(w) \/ Crash(w)
             \/ \E e \in Event : CreateEvent(e) \/ MarkRolledBack(e)
             \/ UNCHANGED vars
    <2>1. UNCHANGED job
      BY <1>6 DEF MaterializeStep, StartTick, DeadLetterUnhandled, BeginDispatch, Crash,
         CreateEvent, MarkRolledBack, vars
    <2>2. QED
      BY <1>1, <2>1
  <1>7. ASSUME NEW w \in Worker, DispatchStep(w) PROVE \A j \in JobId : Exists(j)' <=> Exists(j)
    BY <1>1, <1>3, <1>7 DEF DispatchStep, FindJob, NothingFor, EndTick, HandlerSucceeds,
       HandlerThrows
  <1>8. ASSUME NEW w \in Worker, FinishStep(w) PROVE \A j \in JobId : Exists(j)' <=> Exists(j)
    BY <1>1, <1>4, <1>8 DEF FinishStep, CompleteUpdate, CompleteRefused, CompleteCount,
       CompleteAbort, FailRead, FailRefused
  <1>9. CASE ReplayStep
    BY <1>1, <1>5, <1>9 DEF ReplayStep, ReplayStart, ReplayFinish, ReplayCheck, ReplayCrash
  <1>10. QED
    BY <1>5, <1>6, <1>7, <1>8, <1>9 DEF Next, RelayStep

\* What the steps of a tick do to the list of pending events and to `idle`.
LEMMA TickSteps ==
  ASSUME TypeOK, [Next]_vars, ListIsFresh
  PROVE  \A w \in Worker :
           /\ pc[w] = "idle" /\ pc'[w] # "idle" => StartTick(w)
           /\ todo'[w] # {} => \/ todo'[w] \subseteq todo[w] /\ pc'[w] = pc[w]
                               \/ StartTick(w)
  <1> SUFFICES ASSUME NEW w \in Worker
               PROVE  /\ pc[w] = "idle" /\ pc'[w] # "idle" => StartTick(w)
                      /\ todo'[w] # {} => \/ todo'[w] \subseteq todo[w] /\ pc'[w] = pc[w]
                                          \/ StartTick(w)
    OBVIOUS
  <1> USE DEF TypeOK, Goto, reg, ListIsFresh
  <1>1. ASSUME NEW v \in Worker, MaterializeStep(v) \/ Crash(v)
        PROVE  /\ pc[w] = "idle" /\ pc'[w] # "idle" => StartTick(w)
               /\ todo'[w] # {} => \/ todo'[w] \subseteq todo[w] /\ pc'[w] = pc[w]
                                   \/ StartTick(w)
    BY <1>1 DEF MaterializeStep, StartTick, DeadLetterUnhandled, Materialize,
       BeginDispatch, Crash
  <1>2. ASSUME NEW v \in Worker, DispatchStep(v)
        PROVE  /\ pc[w] = "idle" /\ pc'[w] # "idle" => StartTick(w)
               /\ todo'[w] # {} => \/ todo'[w] \subseteq todo[w] /\ pc'[w] = pc[w]
                                   \/ StartTick(w)
    BY <1>2 DEF DispatchStep, FindJob, NothingFor, TakeLease, EndTick, HandlerSucceeds,
       HandlerThrows
  <1>3. ASSUME NEW v \in Worker, FinishStep(v)
        PROVE  /\ pc[w] = "idle" /\ pc'[w] # "idle" => StartTick(w)
               /\ todo'[w] # {} => \/ todo'[w] \subseteq todo[w] /\ pc'[w] = pc[w]
                                   \/ StartTick(w)
    BY <1>3 DEF FinishStep, CompleteUpdate, CompleteRefused, CompleteCount, CompleteCommit,
       CompleteAbort, FailRead, FailRefused, FailRetry, FailDeadLetter, NextJob, Completing
  <1>4. CASE UNCHANGED <<pc, todo>>
    BY <1>4
  <1>5. QED
    BY <1>1, <1>2, <1>3, <1>4 DEF Next, RelayStep, ReplayStep, CreateEvent,
       MarkRolledBack, LeaseExpires, BackoffEnds, ReplayStart, ReplayFinish, ReplayCheck,
       ReplayWrite, ReplayCrash, vars

\* Every step preserves it.
LEMMA SerialStep == IInv /\ SerialInv /\ [Next]_vars => SerialInv'
  <1> SUFFICES ASSUME IInv, SerialInv, [Next]_vars, Exclusive
               PROVE  OneTick' /\ ListIsFresh' /\ OneRow'
    BY DEF SerialInv
  <1> USE DEF SerialInv
  <1>0. TypeOK
    BY DEF IInv
  <1>1. OneTick'
    <2>1. ASSUME NEW w \in Worker, StartTick(w)
          PROVE  \A v \in Worker : pc'[v] # "idle" => v = w
      BY <1>0, <2>1 DEF StartTick, Goto, TypeOK
    <2>2. QED
      BY <1>0, <2>1, TickSteps DEF OneTick
  <1>2. CASE \A w \in Worker, e \in Event : ~Materialize(w, e)
    <2>1. \A j \in JobId : Exists(j)' <=> Exists(j)
      BY <1>2, RowsKept
    <2>2. OneRow'
      BY <2>1 DEF OneRow, SameKey
    <2>3. ListIsFresh'
      <3> SUFFICES ASSUME NEW w \in Worker, NEW e \in todo'[w]
                   PROVE  pc'[w] = "materialize"
                          /\ \A j \in JobId : j[1] = e => ~Exists(j)
        BY <2>1 DEF ListIsFresh
      <3>1. CASE StartTick(w)
        BY <1>0, <3>1 DEF StartTick, Goto, TypeOK, Unmaterialized, JobsOf
      <3>2. CASE todo'[w] \subseteq todo[w] /\ pc'[w] = pc[w]
        BY <3>2 DEF ListIsFresh
      <3>3. QED
        BY <1>0, <3>1, <3>2, TickSteps
    <2>4. QED
      BY <1>1, <2>2, <2>3
  <1>3. ASSUME NEW w \in Worker, NEW e \in Event, Materialize(w, e)
        PROVE  OneTick' /\ ListIsFresh' /\ OneRow'
    <2>1. \A j \in JobId : j[1] = e => ~Exists(j)
      BY <1>3 DEF Materialize, ListIsFresh
    <2>2. \A j \in JobId : Exists(j)' => Exists(j) \/ (j[1] = e /\ j[3] = w)
      BY <1>0, <1>3 DEF Materialize, NewJobs, Exists, TypeOK
    <2>3. OneRow'
      <3> SUFFICES ASSUME NEW j \in JobId, NEW k \in JobId, Exists(j)', Exists(k)',
                          SameKey(j, k)
                   PROVE  j = k
        BY DEF OneRow, SameKey
      <3>1. CASE j[1] = e
        BY <2>1, <2>2, <3>1, JobIdParts DEF SameKey
      <3>2. CASE j[1] # e
        BY <2>2, <3>2 DEF OneRow, SameKey
      <3>3. QED
        BY <3>1, <3>2
    <2>4. ListIsFresh'
      <3> SUFFICES ASSUME NEW v \in Worker, NEW d \in todo'[v]
                   PROVE  pc'[v] = "materialize"
                          /\ \A j \in JobId : j[1] = d => ~Exists(j)'
        BY DEF ListIsFresh
      <3>1. pc[w] = "materialize" /\ pc' = pc /\ todo' = [todo EXCEPT ![w] = @ \ {e}]
        BY <1>3 DEF Materialize
      <3>2. d \in todo[v]
        BY <1>0, <3>1 DEF TypeOK
      <3>3. pc[v] = "materialize"
        BY <3>2 DEF ListIsFresh
      <3>4. v = w
        BY <3>1, <3>3 DEF OneTick
      <3>5. d # e
        BY <1>0, <3>1, <3>4 DEF TypeOK
      <3>6. QED
        BY <2>2, <3>1, <3>2, <3>3, <3>5 DEF ListIsFresh
    <2>5. QED
      BY <1>1, <2>3, <2>4
  <1>4. QED
    BY <1>2, <1>3

(* Ticks that do not overlap create one job per event and handler, through  *)
(* any number of crashes, although no constraint of the schema forbids a    *)
(* second (materializePending).                                             *)
THEOREM OneJob == Spec => []OneJobPerHandler
  <1>1. SerialInv => OneJobPerHandler
    BY DEF SerialInv, OneRow, OneJobPerHandler
  <1>2. QED
    BY <1>1, InvInit, InvStep, SerialInit, SerialStep, PTL DEF Spec

-------------------------------------------------------------------------------
(* Ticks that do not overlap: the rows a relay works on, what completeJob   *)
(* has counted, the replay, and the runs of a handler.                      *)

Leasing == {"handle", "complete", "count", "commit", "fail", "retry"}
Ran == {"complete", "count", "commit", "fail", "retry"}

\* The row in hand is as leaseJob left it, and failJob has read it so.
HeldRows ==
  \A w \in Worker :
    /\ pc[w] = "take" => job[cur[w]].status \in {"PENDING", "LEASED"}
    /\ pc[w] \in Leasing => job[cur[w]].status = "LEASED" /\ HoldsLease(w, cur[w])
    /\ pc[w] = "retry" => att[w] = job[cur[w]].attempt

\* The count of completeJob is what it would be at the commit.
CountIsCurrent ==
  \A w \in Worker : pc[w] = "commit" => (allDone[w] <=> NoneUnfinished(cur[w]))

\* The replay resets dead jobs of an event that counts as replayed.
ReplayDead ==
  /\ replay.ev \subseteq replayed
  /\ \A j \in replay.todo \cup replay.checked :
       job[j].status = "DEAD_LETTER" /\ j[1] \in replayed

\* A run is behind an attempt that is counted, behind a crash, or in hand.
RunsCounted ==
  \A j \in JobId :
    /\ job[j].attempt < MaxAttempts
    /\ runs[j] <= job[j].attempt + 1 + crashes
    /\ job[j].status = "NONE" => runs[j] = 0
    /\ (/\ job[j].status \in {"PENDING", "LEASED"}
        /\ \A w \in Worker : pc[w] \in Ran => cur[w] # j)
         => runs[j] <= job[j].attempt + crashes

Agreed ==
  \A e \in Event \ (replayed \cup RollBackEvents) :
    /\ event[e] = "PUBLISHED" <=> Finished(e)
    /\ (event[e] = "DEAD_LETTER" /\ HandlersFor[e] # {})
         <=> \E j \in JobsOf(e) : job[j].status = "DEAD_LETTER"

Settled == HeldRows /\ CountIsCurrent /\ ReplayDead /\ RunsCounted /\ Agreed
SettledInv == Exclusive => Settled

\* What the writes of a relay do to the token and the attempts of a row.
LEMMA RowFields ==
  ASSUME NEW r \in Job
  PROVE  /\ \A w \in Worker : LeasedRow(r, w).token = w /\ LeasedRow(r, w).attempt = r.attempt
         /\ \A a \in Nat : RetryRow(r, a).attempt = a
         /\ CompletedRow(r).attempt = r.attempt /\ DeadRow(r).attempt = r.attempt
         /\ ExpiredRow(r).token = r.token /\ ExpiredRow(r).attempt = r.attempt
         /\ DueRow(r).token = r.token /\ DueRow(r).attempt = r.attempt
         /\ ResetRow(r).attempt = 0 /\ NewRow.attempt = 0
  BY DEF Job, LeasedRow, CompletedRow, RetryRow, DeadRow, ResetRow, ExpiredRow, DueRow,
         NewRow, NoRow

\* It holds before the first event.
LEMMA SettledInit == Init => SettledInv
  <1> SUFFICES ASSUME Init PROVE Settled
    BY DEF SettledInv
  <1>1. \A j \in JobId : job[j].status = "NONE" /\ job[j].attempt = 0 /\ runs[j] = 0
    BY DEF Init, NoRow
  <1>2. HeldRows /\ CountIsCurrent
    BY DEF Init, HeldRows, CountIsCurrent, Leasing
  <1>3. ReplayDead
    BY DEF Init, ReplayDead, NoReplay
  <1>4. RunsCounted
    BY <1>1, OutboxAssumption DEF Init, RunsCounted
  <1>5. Agreed
    BY <1>1 DEF Init, Agreed, Finished, JobsOf, Exists
  <1>6. QED
    BY <1>2, <1>3, <1>4, <1>5 DEF Settled

\* Nothing that the agreement is about has changed.
LEMMA AgreedKept ==
  ASSUME TypeOK, Agreed, replayed \subseteq replayed',
         \A j \in JobId : job'[j].status = job[j].status,
         \A e \in Event \ (replayed' \cup RollBackEvents) :
           /\ event'[e] = "PUBLISHED" <=> event[e] = "PUBLISHED"
           /\ HandlersFor[e] # {} => (event'[e] = "DEAD_LETTER" <=> event[e] = "DEAD_LETTER")
  PROVE  Agreed'
  <1> SUFFICES ASSUME NEW e \in Event \ (replayed' \cup RollBackEvents)
               PROVE  /\ event'[e] = "PUBLISHED" <=> Finished(e)'
                      /\ (event'[e] = "DEAD_LETTER" /\ HandlersFor[e] # {})
                           <=> \E j \in JobsOf(e) : job'[j].status = "DEAD_LETTER"
    BY DEF Agreed, JobsOf
  <1>1. Finished(e)' <=> Finished(e)
    BY DEF Finished, Exists, JobsOf
  <1>2. (\E j \in JobsOf(e) : job'[j].status = "DEAD_LETTER")
          <=> \E j \in JobsOf(e) : job[j].status = "DEAD_LETTER"
    BY DEF JobsOf
  <1>3. e \in Event \ (replayed \cup RollBackEvents)
    OBVIOUS
  <1>4. QED
    BY <1>1, <1>2, <1>3 DEF Agreed

\* An event, or the replay before it writes a row: no relay takes part.
LEMMA SettledEvent ==
  ASSUME IInv, Settled, UNCHANGED <<job, pc, reg, runs>>,
         \/ \E e \in Event : \/ CreateEvent(e) \/ MarkRolledBack(e)
                             \/ ReplayStart(e) \/ ReplayFinish(e)
         \/ \E j \in JobId : ReplayCheck(j)
         \/ ReplayCrash
  PROVE  Settled'
  <1> USE DEF IInv, TypeOK, Settled, reg
  <1>1. crashes' \in Nat /\ crashes' >= crashes
    BY DEF CreateEvent, MarkRolledBack, ReplayStart, ReplayFinish, ReplayCheck, ReplayCrash
  <1>2. HeldRows' /\ CountIsCurrent'
    BY DEF HeldRows, CountIsCurrent, HoldsLease, NoneUnfinished, JobsOf, Exists
  <1>3. ReplayDead'
    <2>1. CASE \E e \in Event : CreateEvent(e) \/ MarkRolledBack(e)
      BY <2>1 DEF ReplayDead, CreateEvent, MarkRolledBack
    <2>2. ASSUME NEW e \in Event, ReplayStart(e) PROVE ReplayDead'
      <3>1. /\ replay'.ev = {e} /\ replay'.checked = {} /\ e \in replayed'
            /\ replay'.todo = { j \in JobsOf(e) : job[j].status = "DEAD_LETTER" }
        BY <2>2 DEF ReplayStart
      <3>2. QED
        BY <3>1 DEF ReplayDead, JobsOf
    <2>3. ASSUME NEW j \in JobId, ReplayCheck(j) PROVE ReplayDead'
      <3>1. \/ replay'.ev = replay.ev /\ replay'.todo = replay.todo /\ replay'.checked = {j}
            \/ replay' = NoReplay
        BY <2>3 DEF ReplayCheck, Replay
      <3>2. j \in replay.todo /\ UNCHANGED replayed
        BY <2>3 DEF ReplayCheck
      <3>3. QED
        BY <3>1, <3>2 DEF ReplayDead, NoReplay
    <2>4. CASE (\E e \in Event : ReplayFinish(e)) \/ ReplayCrash
      BY <2>4 DEF ReplayDead, ReplayFinish, ReplayCrash, NoReplay
    <2>5. QED
      BY <2>1, <2>2, <2>3, <2>4
  <1>4. RunsCounted'
    <2> SUFFICES ASSUME NEW j \in JobId
                 PROVE  /\ runs[j] <= job[j].attempt + 1 + crashes'
                        /\ (/\ job[j].status \in {"PENDING", "LEASED"}
                            /\ \A w \in Worker : pc[w] \in Ran => cur[w] # j)
                             => runs[j] <= job[j].attempt + crashes'
      BY DEF RunsCounted
    <2>1. runs[j] \in Nat /\ job[j].attempt \in Nat
      BY DEF Job
    <2>2. QED
      BY <1>1, <2>1 DEF RunsCounted
  <1>5. replayed \subseteq replayed'
    BY DEF CreateEvent, MarkRolledBack, ReplayStart, ReplayFinish, ReplayCheck, ReplayCrash
  <1>6. ASSUME NEW e \in Event \ (replayed' \cup RollBackEvents)
        PROVE  /\ event'[e] = "PUBLISHED" <=> event[e] = "PUBLISHED"
               /\ event'[e] = "DEAD_LETTER" <=> event[e] = "DEAD_LETTER"
    BY <1>5, <1>6 DEF CreateEvent, MarkRolledBack, ReplayStart, ReplayFinish, ReplayCheck,
       ReplayCrash, ReplayDead
  <1>7. Agreed'
    BY <1>5, <1>6, AgreedKept
  <1>8. QED
    BY <1>2, <1>3, <1>4, <1>7

\* A relay goes on without writing a row and without running a handler.
LEMMA SettledMove ==
  ASSUME IInv, SerialInv, Settled, Exclusive, NEW w \in Worker,
         UNCHANGED <<job, replay, replayed, runs>>,
         \/ StartTick(w) \/ BeginDispatch(w) \/ EndTick(w)
         \/ \E e \in Event : DeadLetterUnhandled(w, e)
         \/ \E h \in Handler : FindJob(w, h) \/ NothingFor(w, h)
         \/ CompleteUpdate(w) \/ CompleteRefused(w) \/ CompleteCount(w)
         \/ CompleteAbort(w) \/ FailRead(w) \/ FailRefused(w) \/ Crash(w)
  PROVE  Settled'
  <1> USE DEF IInv, TypeOK, Settled, reg, Goto
  <1>0. /\ \A v \in Worker : v # w => pc'[v] = pc[v] /\ cur'[v] = cur[v]
                                       /\ att'[v] = att[v] /\ allDone'[v] = allDone[v]
        /\ crashes' \in Nat /\ crashes' >= crashes
    BY DEF StartTick, BeginDispatch, EndTick, DeadLetterUnhandled, FindJob, NothingFor,
       CompleteUpdate, CompleteRefused, CompleteCount, CompleteAbort, FailRead, FailRefused,
       Crash, Forget
  <1>1. /\ pc'[w] = "take" => job[cur'[w]].status \in {"PENDING", "LEASED"}
        /\ pc'[w] \in Leasing => job[cur'[w]].status = "LEASED" /\ HoldsLease(w, cur'[w])
        /\ pc'[w] = "retry" => att'[w] = job[cur'[w]].attempt
    <2>1. CASE \E h \in Handler : FindJob(w, h)
      BY <2>1 DEF FindJob, Candidates, Leasable, Abandoned, Leasing
    <2>2. QED
      BY <2>1 DEF HeldRows, Leasing, StartTick, BeginDispatch, EndTick, DeadLetterUnhandled,
         NothingFor, CompleteUpdate, CompleteRefused, CompleteCount, CompleteAbort,
         Completing, FailRead, FailRefused, Crash, Forget
  <1>2. HeldRows'
    <2> SUFFICES ASSUME NEW v \in Worker
                 PROVE  /\ pc'[v] = "take" => job'[cur'[v]].status \in {"PENDING", "LEASED"}
                        /\ pc'[v] \in Leasing
                             => job'[cur'[v]].status = "LEASED" /\ job'[cur'[v]].token = v
                        /\ pc'[v] = "retry" => att'[v] = job'[cur'[v]].attempt
      BY DEF HeldRows, HoldsLease
    <2>1. CASE v = w
      BY <1>1, <2>1 DEF HoldsLease
    <2>2. CASE v # w
      BY <1>0, <2>2 DEF HeldRows, HoldsLease
    <2>3. QED
      BY <2>1, <2>2
  <1>3. pc'[w] = "commit" => (allDone'[w] <=> NoneUnfinished(cur[w])')
    <2>1. CASE CompleteCount(w)
      BY <2>1 DEF CompleteCount, NoneUnfinished, JobsOf, Exists
    <2>2. CASE ~CompleteCount(w)
      <3>1. pc'[w] = "commit" => pc[w] = "commit" /\ UNCHANGED <<allDone[w], cur[w]>>
        BY <2>2 DEF StartTick, BeginDispatch, EndTick, DeadLetterUnhandled, FindJob,
           NothingFor, CompleteUpdate, CompleteRefused, CompleteAbort, FailRead,
           FailRefused, Crash, Forget
      <3>2. QED
        BY <3>1 DEF CountIsCurrent, NoneUnfinished, JobsOf, Exists
    <2>3. QED
      BY <2>1, <2>2
  <1>4. CountIsCurrent'
    BY <1>0, <1>3 DEF CountIsCurrent, NoneUnfinished, JobsOf, Exists
  <1>5. ReplayDead'
    BY DEF ReplayDead
  <1>6. \/ pc'[w] \in Ran /\ pc[w] \in Ran /\ cur'[w] = cur[w]
        \/ pc[w] \in Ran /\ crashes' = crashes + 1
        \/ pc[w] \notin Ran
    BY DEF Ran, HeldRows, Leasing, StartTick, BeginDispatch, EndTick, DeadLetterUnhandled,
       FindJob, NothingFor, CompleteUpdate, CompleteRefused, CompleteCount, CompleteAbort,
       Completing, FailRead, FailRefused, Crash, Forget
  <1>7. RunsCounted'
    <2> SUFFICES ASSUME NEW j \in JobId
                 PROVE  /\ runs[j] <= job[j].attempt + 1 + crashes'
                        /\ (/\ job[j].status \in {"PENDING", "LEASED"}
                            /\ \A v \in Worker : pc'[v] \in Ran => cur'[v] # j)
                             => runs[j] <= job[j].attempt + crashes'
      BY DEF RunsCounted
    <2>1. runs[j] \in Nat /\ job[j].attempt \in Nat
      BY DEF Job
    <2>2. (\A v \in Worker : pc'[v] \in Ran => cur'[v] # j)
            => \/ \A v \in Worker : pc[v] \in Ran => cur[v] # j
               \/ crashes' = crashes + 1
      BY <1>0, <1>6
    <2>3. QED
      BY <1>0, <2>1, <2>2 DEF RunsCounted
  <1>8. ASSUME NEW d \in Event \ (replayed' \cup RollBackEvents)
        PROVE  /\ event'[d] = "PUBLISHED" <=> event[d] = "PUBLISHED"
               /\ HandlersFor[d] # {} => (event'[d] = "DEAD_LETTER" <=> event[d] = "DEAD_LETTER")
    <2>1. ASSUME NEW e \in Event, DeadLetterUnhandled(w, e), d = e
          PROVE  /\ event'[d] = "PUBLISHED" <=> event[d] = "PUBLISHED"
                 /\ HandlersFor[d] # {} => (event'[d] = "DEAD_LETTER" <=> event[d] = "DEAD_LETTER")
      <3>1. HandlersFor[d] = {} /\ event'[d] = "DEAD_LETTER"
        BY <2>1 DEF DeadLetterUnhandled
      <3>2. ~Finished(d)
        BY <3>1 DEF Finished, JobsOf, Referential
      <3>3. QED
        BY <3>1, <3>2 DEF Agreed
    <2>2. QED
      BY <2>1 DEF StartTick, BeginDispatch, EndTick, DeadLetterUnhandled, FindJob,
         NothingFor, CompleteUpdate, CompleteRefused, CompleteCount, CompleteAbort,
         FailRead, FailRefused, Crash
  <1>9. Agreed'
    BY <1>8, AgreedKept
  <1>10. QED
    BY <1>2, <1>4, <1>5, <1>7, <1>9

\* The handler runs once more, and the relay has the run in hand.
LEMMA SettledRun ==
  ASSUME IInv, SerialInv, Settled, Exclusive, NEW w \in Worker,
         HandlerSucceeds(w) \/ HandlerThrows(w)
  PROVE  Settled'
  <1> USE DEF IInv, TypeOK, Settled, reg, Goto
  <1>0. /\ pc[w] = "handle" /\ pc'[w] \in {"complete", "fail"}
        /\ \A v \in Worker : v # w => pc'[v] = pc[v] /\ pc[v] = "idle"
        /\ UNCHANGED <<event, job, cur, att, allDone, replay, replayed, crashes>>
        /\ cur[w] \in JobId
    BY DEF HandlerSucceeds, HandlerThrows, SerialInv, OneTick, InHand, Working
  <1>1. HeldRows'
    BY <1>0 DEF HeldRows, HoldsLease, Leasing
  <1>2. CountIsCurrent' /\ ReplayDead'
    BY <1>0 DEF CountIsCurrent, ReplayDead
  <1>3. RunsCounted'
    <2> SUFFICES ASSUME NEW j \in JobId
                 PROVE  /\ runs'[j] <= job[j].attempt + 1 + crashes
                        /\ job[j].status = "NONE" => runs'[j] = 0
                        /\ (/\ job[j].status \in {"PENDING", "LEASED"}
                            /\ \A v \in Worker : pc'[v] \in Ran => cur[v] # j)
                             => runs'[j] <= job[j].attempt + crashes
      BY <1>0 DEF RunsCounted
    <2>1. runs[j] \in Nat /\ job[j].attempt \in Nat
      BY DEF Job
    <2>2. CASE j # cur[w]
      <3>1. runs'[j] = runs[j]
        BY <1>0, <2>2 DEF HandlerSucceeds, HandlerThrows, CountRun
      <3>2. \A v \in Worker : pc[v] \in Ran => cur[v] # j
        BY <1>0 DEF Ran
      <3>3. QED
        BY <3>1, <3>2 DEF RunsCounted
    <2>3. CASE j = cur[w]
      <3>1. job[j].status = "LEASED"
        BY <1>0, <2>3 DEF HeldRows, Leasing
      <3>2. runs[j] <= job[j].attempt + crashes
        BY <1>0, <3>1 DEF RunsCounted, Ran
      <3>3. runs'[j] <= runs[j] + 1
        BY <1>0, <2>1, <2>3, OutboxAssumption DEF HandlerSucceeds, HandlerThrows, CountRun
      <3>4. runs'[j] \in Nat
        BY <1>0, <2>1, <2>3 DEF HandlerSucceeds, HandlerThrows, CountRun
      <3>5. pc'[w] \in Ran
        BY <1>0 DEF Ran
      <3>6. QED
        BY <1>0, <2>1, <2>3, <3>1, <3>2, <3>3, <3>4, <3>5
    <2>4. QED
      BY <2>2, <2>3
  <1>4. Agreed'
    BY <1>0, AgreedKept
  <1>5. QED
    BY <1>1, <1>2, <1>3, <1>4

\* Time passes for a row.
LEMMA SettledTime ==
  ASSUME IInv, Settled, NEW j \in JobId, LeaseExpires(j) \/ BackoffEnds(j)
  PROVE  Settled'
  <1> USE DEF IInv, TypeOK, Settled, reg
  <1>0. UNCHANGED <<event, pc, cur, att, allDone, replay, replayed, crashes, runs>>
    BY DEF LeaseExpires, BackoffEnds
  <1>1. \A k \in JobId : /\ job'[k].status = job[k].status
                         /\ job'[k].token = job[k].token
                         /\ job'[k].attempt = job[k].attempt
    BY RowStatus, RowFields DEF LeaseExpires, BackoffEnds
  <1>2. \A w \in Worker : pc[w] \in Working => cur[w] \in JobId
    BY DEF InHand
  <1>3. HeldRows'
    BY <1>0, <1>1, <1>2 DEF HeldRows, HoldsLease, Leasing, Working
  <1>4. CountIsCurrent'
    <2>1. \A w \in Worker : pc[w] = "commit" => (NoneUnfinished(cur[w])' <=> NoneUnfinished(cur[w]))
      BY <1>0, <1>1, <1>2 DEF NoneUnfinished, JobsOf, Exists, Working
    <2>2. QED
      BY <1>0, <2>1 DEF CountIsCurrent
  <1>5. ReplayDead'
    BY <1>0, <1>1 DEF ReplayDead, Replay
  <1>6. RunsCounted'
    BY <1>0, <1>1 DEF RunsCounted
  <1>7. Agreed'
    BY <1>0, <1>1, AgreedKept
  <1>8. QED
    BY <1>3, <1>4, <1>5, <1>6, <1>7

\* The replay resets a dead row: no relay has it in hand, and it counts anew.
LEMMA SettledReset ==
  ASSUME IInv, Settled, NEW j \in JobId, ReplayWrite(j)
  PROVE  Settled'
  <1> USE DEF IInv, TypeOK, Settled, reg
  <1>0. /\ UNCHANGED <<event, pc, cur, att, allDone, replayed, crashes>>
        /\ job' = [job EXCEPT ![j] = ResetRow(@)] /\ runs' = [runs EXCEPT ![j] = 0]
    BY DEF ReplayWrite
  <1>1. job[j].status = "DEAD_LETTER" /\ j[1] \in replayed
    BY DEF ReplayWrite, ReplayDead
  <1>2. /\ \A k \in JobId : k # j => job'[k] = job[k] /\ runs'[k] = runs[k]
        /\ job'[j].status = "PENDING" /\ job'[j].attempt = 0 /\ runs'[j] = 0
    BY <1>0, RowStatus, RowFields
  <1>3. \A w \in Worker : pc[w] \in Working => cur[w] \in JobId /\ cur[w] # j
    BY <1>1 DEF InHand, HeldRows, Working, Leasing
  <1>4. HeldRows'
    BY <1>0, <1>2, <1>3 DEF HeldRows, HoldsLease, Leasing, Working
  <1>5. CountIsCurrent'
    <2>1. \A w \in Worker : pc[w] = "commit" => (NoneUnfinished(cur[w])' <=> NoneUnfinished(cur[w]))
      BY <1>0, <1>1, <1>2, <1>3 DEF NoneUnfinished, JobsOf, Exists, Working
    <2>2. QED
      BY <1>0, <2>1 DEF CountIsCurrent
  <1>6. ReplayDead'
    <2>1. replay'.ev = replay.ev /\ replay'.todo = replay.todo \ {j} /\ replay'.checked = {}
      BY DEF ReplayWrite, Replay
    <2>2. \A k \in replay.todo : k \in JobId
      BY DEF Replay
    <2>3. QED
      BY <1>0, <1>2, <2>1, <2>2 DEF ReplayDead
  <1>7. RunsCounted'
    <2> SUFFICES ASSUME NEW k \in JobId
                 PROVE  /\ job'[k].attempt < MaxAttempts
                        /\ runs'[k] <= job'[k].attempt + 1 + crashes
                        /\ job'[k].status = "NONE" => runs'[k] = 0
                        /\ (/\ job'[k].status \in {"PENDING", "LEASED"}
                            /\ \A w \in Worker : pc[w] \in Ran => cur[w] # k)
                             => runs'[k] <= job'[k].attempt + crashes
      BY <1>0 DEF RunsCounted
    <2>1. CASE k = j
      BY <1>2, <2>1, OutboxAssumption
    <2>2. CASE k # j
      BY <1>2, <2>2 DEF RunsCounted
    <2>3. QED
      BY <2>1, <2>2
  <1>8. Agreed'
    <2> SUFFICES ASSUME NEW e \in Event \ (replayed \cup RollBackEvents)
                 PROVE  /\ event[e] = "PUBLISHED" <=> Finished(e)'
                        /\ (event[e] = "DEAD_LETTER" /\ HandlersFor[e] # {})
                             <=> \E k \in JobsOf(e) : job'[k].status = "DEAD_LETTER"
      BY <1>0 DEF Agreed, JobsOf
    <2>1. \A k \in JobsOf(e) : job'[k] = job[k]
      BY <1>1, <1>2 DEF JobsOf
    <2>2. QED
      BY <2>1 DEF Agreed, Finished, Exists, JobsOf
  <1>9. QED
    BY <1>4, <1>5, <1>6, <1>7, <1>8

\* The jobs of an event that had none.
LEMMA SettledMaterialize ==
  ASSUME IInv, SerialInv, Settled, Exclusive, NEW w \in Worker, NEW e \in Event,
         Materialize(w, e)
  PROVE  Settled'
  <1> USE DEF IInv, TypeOK, Settled, reg
  <1>0. /\ UNCHANGED <<event, pc, cur, att, allDone, replay, replayed, crashes, runs>>
        /\ pc[w] = "materialize" /\ HandlersFor[e] # {}
        /\ job' = [j \in JobId |-> IF j \in NewJobs(e, w) THEN NewRow ELSE job[j]]
        /\ \A j \in JobId : j[1] = e => job[j].status = "NONE"
    BY DEF Materialize, SerialInv, ListIsFresh, Exists
  <1>1. /\ \A j \in JobId : j[1] # e => job'[j] = job[j]
        /\ \A j \in NewJobs(e, w) : j[1] = e
        /\ NewRow.status = "PENDING" /\ NewRow.attempt = 0
    BY <1>0 DEF NewJobs, NewRow, NoRow
  <1>2. \A v \in Worker : pc[v] \notin Working
    BY <1>0 DEF SerialInv, OneTick, Working
  <1>3. HeldRows' /\ CountIsCurrent'
    BY <1>0, <1>2 DEF HeldRows, CountIsCurrent, Working, Leasing
  <1>4. ReplayDead'
    <2>1. \A j \in replay.todo \cup replay.checked : j \in JobId /\ j[1] # e
      BY <1>0 DEF ReplayDead, Replay
    <2>2. QED
      BY <1>0, <1>1, <2>1 DEF ReplayDead
  <1>5. RunsCounted'
    <2> SUFFICES ASSUME NEW j \in JobId
                 PROVE  /\ job'[j].attempt < MaxAttempts
                        /\ runs[j] <= job'[j].attempt + 1 + crashes
                        /\ job'[j].status = "NONE" => runs[j] = 0
                        /\ (/\ job'[j].status \in {"PENDING", "LEASED"}
                            /\ \A v \in Worker : pc[v] \in Ran => cur[v] # j)
                             => runs[j] <= job'[j].attempt + crashes
      BY <1>0 DEF RunsCounted
    <2>1. CASE j \in NewJobs(e, w)
      <3>1. runs[j] = 0 /\ job'[j] = NewRow
        BY <1>0, <1>1, <2>1 DEF RunsCounted
      <3>2. QED
        BY <1>1, <3>1, OutboxAssumption
    <2>2. CASE j \notin NewJobs(e, w)
      BY <1>0, <2>2 DEF RunsCounted
    <2>3. QED
      BY <2>1, <2>2
  <1>6. Agreed'
    <2> SUFFICES ASSUME NEW d \in Event \ (replayed \cup RollBackEvents)
                 PROVE  /\ event[d] = "PUBLISHED" <=> Finished(d)'
                        /\ (event[d] = "DEAD_LETTER" /\ HandlersFor[d] # {})
                             <=> \E k \in JobsOf(d) : job'[k].status = "DEAD_LETTER"
      BY <1>0 DEF Agreed, JobsOf
    <2>1. CASE d # e
      <3>1. \A k \in JobsOf(d) : job'[k] = job[k]
        BY <1>1, <2>1 DEF JobsOf
      <3>2. QED
        BY <3>1 DEF Agreed, Finished, Exists, JobsOf
    <2>2. CASE d = e
      <3>1. event[e] # "PUBLISHED" /\ event[e] # "DEAD_LETTER"
        BY <1>0, <2>2 DEF Agreed, Finished, JobsOf, Exists
      <3>2. PICK h \in Handler : h \in HandlersFor[e]
        BY <1>0, OutboxAssumption
      <3>3. <<e, h, w>> \in JobsOf(e) /\ <<e, h, w>> \in NewJobs(e, w)
        BY <3>2 DEF JobsOf, NewJobs, JobId
      <3>4. job'[<<e, h, w>>].status = "PENDING"
        BY <1>0, <1>1, <3>3 DEF JobsOf
      <3>5. ~Finished(e)'
        BY <3>3, <3>4 DEF Finished, Exists, JobsOf
      <3>6. \A k \in JobsOf(e) : job'[k].status \in {"NONE", "PENDING"}
        BY <1>0, <1>1 DEF JobsOf
      <3>7. QED
        BY <2>2, <3>1, <3>5, <3>6
    <2>3. QED
      BY <2>1, <2>2
  <1>7. QED
    BY <1>3, <1>4, <1>5, <1>6

\* The relay writes the row in hand: takes its lease, or ends its work on it.
LEMMA SettledWrite ==
  ASSUME IInv, SerialInv, Settled, Exclusive, NEW w \in Worker,
         TakeLease(w) \/ CompleteCommit(w) \/ FailRetry(w) \/ FailDeadLetter(w)
  PROVE  Settled'
  <1> USE DEF IInv, TypeOK, Settled, reg, Goto
  <1>0. PICK j \in JobId : j = cur[w]
    BY DEF TakeLease, CompleteCommit, FailRetry, FailDeadLetter, InHand, Working
  <1>1. /\ UNCHANGED <<replay, replayed, crashes, runs>>
        /\ \A v \in Worker : v # w => pc[v] = "idle" /\ pc'[v] = "idle"
        /\ pc[w] \in Working /\ pc'[w] \in {"handle", "find"}
        /\ Exists(j) /\ j[1] \in Event /\ j[2] \in HandlersFor[j[1]]
    BY <1>0, JobIdParts DEF TakeLease, CompleteCommit, FailRetry, FailDeadLetter, NextJob,
       SerialInv, OneTick, Working, InHand, Referential
  <1>2. PICK r \in Job :
          /\ job' = [job EXCEPT ![j] = r]
          /\ \/ /\ TakeLease(w) /\ r.status = "LEASED" /\ r.token = w
                /\ r.attempt = job[j].attempt
             \/ /\ CompleteCommit(w) /\ r.status = "COMPLETED" /\ r.attempt = job[j].attempt
             \/ /\ FailRetry(w) /\ r.status = "PENDING" /\ r.attempt = att[w] + 1
             \/ /\ FailDeadLetter(w) /\ r.status = "DEAD_LETTER"
                /\ r.attempt = job[j].attempt
    <2>1. job[j] \in Job /\ att[w] + 1 \in Nat
      OBVIOUS
    <2>2. CASE TakeLease(w)
      <3>1. /\ LeasedRow(job[j], w) \in Job
            /\ LeasedRow(job[j], w).status = "LEASED" /\ LeasedRow(job[j], w).token = w
            /\ LeasedRow(job[j], w).attempt = job[j].attempt
        BY <2>1, RowTypes, RowStatus, RowFields
      <3>2. job' = [job EXCEPT ![j] = LeasedRow(job[j], w)]
        BY <1>0, <2>2 DEF TakeLease
      <3>3. QED
        BY <2>2, <3>1, <3>2
    <2>3. CASE CompleteCommit(w)
      <3>1. /\ CompletedRow(job[j]) \in Job
            /\ CompletedRow(job[j]).status = "COMPLETED"
            /\ CompletedRow(job[j]).attempt = job[j].attempt
        BY <2>1, RowTypes, RowStatus, RowFields
      <3>2. job' = [job EXCEPT ![j] = CompletedRow(job[j])]
        BY <1>0, <2>3 DEF CompleteCommit
      <3>3. QED
        BY <2>3, <3>1, <3>2
    <2>4. CASE FailRetry(w)
      <3>1. /\ RetryRow(job[j], att[w] + 1) \in Job
            /\ RetryRow(job[j], att[w] + 1).status = "PENDING"
            /\ RetryRow(job[j], att[w] + 1).attempt = att[w] + 1
        <4>1. PICK q \in Job, a \in Nat : q = job[j] /\ a = att[w] + 1
          BY <2>1
        <4>2. RetryRow(q, a) \in Job
          BY RowTypes
        <4>3. RetryRow(q, a).status = "PENDING" /\ RetryRow(q, a).attempt = a
          BY RowStatus, RowFields
        <4>4. QED
          BY <4>1, <4>2, <4>3
      <3>2. job' = [job EXCEPT ![j] = RetryRow(job[j], att[w] + 1)]
        BY <1>0, <2>4 DEF FailRetry
      <3>3. QED
        BY <2>1, <2>4, <3>1, <3>2
    <2>5. CASE FailDeadLetter(w)
      <3>1. /\ DeadRow(job[j]) \in Job
            /\ DeadRow(job[j]).status = "DEAD_LETTER"
            /\ DeadRow(job[j]).attempt = job[j].attempt
        BY <2>1, RowTypes, RowStatus, RowFields
      <3>2. job' = [job EXCEPT ![j] = DeadRow(job[j])]
        BY <1>0, <2>5 DEF FailDeadLetter
      <3>3. QED
        BY <2>5, <3>1, <3>2
    <2>6. QED
      BY <2>2, <2>3, <2>4, <2>5
  <1>3. job'[j] = r /\ \A k \in JobId : k # j => job'[k] = job[k]
    BY <1>2
  <1>4. /\ TakeLease(w) => job[j].status \in {"PENDING", "LEASED"}
        /\ ~TakeLease(w) => job[j].status = "LEASED"
        /\ FailRetry(w) => att[w] = job[j].attempt /\ job[j].attempt + 1 < MaxAttempts
    BY <1>0, <1>2, OutboxAssumption DEF TakeLease, CompleteCommit, FailRetry,
       FailDeadLetter, HeldRows, Leasing, Exhausted, Job
  <1>5. HeldRows'
    <2>1. CASE TakeLease(w)
      <3>1. pc'[w] = "handle" /\ cur'[w] = j
        BY <1>0, <2>1 DEF TakeLease
      <3>2. r.status = "LEASED" /\ r.token = w
        BY <1>2, <2>1 DEF TakeLease, CompleteCommit, FailRetry, FailDeadLetter
      <3>3. QED
        BY <1>1, <1>3, <3>1, <3>2 DEF HeldRows, HoldsLease, Leasing
    <2>2. CASE ~TakeLease(w)
      <3>1. pc'[w] = "find"
        BY <2>2 DEF CompleteCommit, FailRetry, FailDeadLetter, NextJob
      <3>2. QED
        BY <1>1, <3>1 DEF HeldRows, Leasing
    <2>3. QED
      BY <2>1, <2>2
  <1>6. CountIsCurrent'
    BY <1>1 DEF CountIsCurrent
  <1>7. ReplayDead'
    <2>1. job[j].status # "DEAD_LETTER"
      BY <1>4
    <2>2. \A k \in replay.todo \cup replay.checked : k \in JobId /\ k # j
      BY <2>1 DEF ReplayDead, Replay
    <2>3. QED
      BY <1>1, <1>3, <2>2 DEF ReplayDead
  <1>8. RunsCounted'
    <2> SUFFICES ASSUME NEW k \in JobId
                 PROVE  /\ job'[k].attempt < MaxAttempts
                        /\ runs[k] <= job'[k].attempt + 1 + crashes
                        /\ job'[k].status = "NONE" => runs[k] = 0
                        /\ job'[k].status \in {"PENDING", "LEASED"}
                             => runs[k] <= job'[k].attempt + crashes
      BY <1>1 DEF RunsCounted
    <2>0. runs[k] \in Nat /\ job[k].attempt \in Nat
      BY DEF Job
    <2>1. CASE k # j
      <3>1. \A v \in Worker : pc[v] \in Ran => cur[v] # k
        BY <1>0, <1>1, <2>1 DEF Ran
      <3>2. QED
        BY <1>3, <2>1, <3>1 DEF RunsCounted
    <2>2. CASE k = j /\ TakeLease(w)
      <3>1. \A v \in Worker : pc[v] \notin Ran
        BY <1>1, <2>2 DEF TakeLease, Ran
      <3>2. r.status = "LEASED" /\ r.attempt = job[j].attempt
        BY <1>2, <2>2 DEF TakeLease, CompleteCommit, FailRetry, FailDeadLetter
      <3>3. QED
        BY <1>3, <1>4, <2>2, <3>1, <3>2 DEF RunsCounted
    <2>3. CASE k = j /\ ~TakeLease(w)
      <3>1. \/ /\ r.status \in {"COMPLETED", "DEAD_LETTER"} /\ r.attempt = job[j].attempt
            \/ /\ r.status = "PENDING" /\ r.attempt = job[j].attempt + 1
               /\ job[j].attempt + 1 < MaxAttempts
        BY <1>2, <1>4, <2>3
      <3>2. QED
        BY <1>3, <2>0, <2>3, <3>1 DEF RunsCounted
    <2>4. QED
      BY <2>1, <2>2, <2>3
  <1>9. Agreed'
    <2> SUFFICES ASSUME NEW e \in Event \ (replayed \cup RollBackEvents)
                 PROVE  /\ event'[e] = "PUBLISHED" <=> Finished(e)'
                        /\ (event'[e] = "DEAD_LETTER" /\ HandlersFor[e] # {})
                             <=> \E k \in JobsOf(e) : job'[k].status = "DEAD_LETTER"
      BY <1>1 DEF Agreed, JobsOf
    <2>1. CASE e # j[1]
      <3>1. \A k \in JobsOf(e) : job'[k] = job[k]
        BY <1>3, <2>1 DEF JobsOf
      <3>2. event'[e] = event[e]
        BY <1>0, <1>2, <2>1 DEF TakeLease, CompleteCommit, FailRetry, FailDeadLetter
      <3>3. QED
        BY <3>1, <3>2 DEF Agreed, Finished, Exists, JobsOf
    <2>2. CASE e = j[1]
      <3>0. j \in JobsOf(e) /\ Exists(j)
        BY <1>1, <2>2 DEF JobsOf
      <3>1. event[e] # "PUBLISHED"
        BY <1>4, <3>0 DEF Agreed, Finished, JobsOf
      <3>2. CASE TakeLease(w) \/ FailRetry(w)
        <4>1. event'[e] = event[e] /\ r.status \in {"LEASED", "PENDING"}
          BY <1>2, <3>2 DEF TakeLease, CompleteCommit, FailRetry, FailDeadLetter
        <4>2. ~Finished(e)'
          BY <1>3, <3>0, <4>1 DEF Finished, Exists, JobsOf
        <4>3. \A k \in JobsOf(e) : job'[k].status = "DEAD_LETTER" <=> job[k].status = "DEAD_LETTER"
          BY <1>3, <1>4, <4>1 DEF JobsOf
        <4>4. QED
          BY <3>1, <4>1, <4>2, <4>3 DEF Agreed
      <3>3. CASE FailDeadLetter(w)
        <4>1. event'[e] = "DEAD_LETTER" /\ r.status = "DEAD_LETTER"
          BY <1>0, <1>1, <1>2, <2>2, <3>3 DEF TakeLease, CompleteCommit, FailRetry,
             FailDeadLetter
        <4>2. ~Finished(e)'
          BY <1>3, <3>0, <4>1 DEF Finished, Exists, JobsOf
        <4>3. HandlersFor[e] # {}
          BY <1>1, <2>2
        <4>4. QED
          BY <1>3, <3>0, <4>1, <4>2, <4>3
      <3>4. CASE CompleteCommit(w)
        <4>1. /\ event'[e] = IF allDone[w] THEN "PUBLISHED" ELSE event[e]
              /\ r.status = "COMPLETED" /\ pc[w] = "commit"
          BY <1>0, <1>1, <1>2, <2>2, <3>4 DEF TakeLease, CompleteCommit, FailRetry,
             FailDeadLetter
        <4>2. allDone[w] <=> \A k \in JobsOf(e) : k = j \/ ~Exists(k) \/ job[k].status = "COMPLETED"
          BY <1>0, <2>2, <4>1 DEF CountIsCurrent, NoneUnfinished
        <4>3. Finished(e)' <=> allDone[w]
          BY <1>3, <3>0, <4>1, <4>2 DEF Finished, Exists, JobsOf
        <4>4. \A k \in JobsOf(e) : job'[k].status = "DEAD_LETTER" <=> job[k].status = "DEAD_LETTER"
          BY <1>3, <1>4, <3>4, <4>1 DEF JobsOf
        <4>5. allDone[w] => \A k \in JobsOf(e) : job'[k].status # "DEAD_LETTER"
          BY <1>3, <4>1, <4>2 DEF JobsOf, Exists
        <4>6. QED
          BY <3>1, <4>1, <4>3, <4>4, <4>5 DEF Agreed
      <3>5. QED
        BY <3>2, <3>3, <3>4
    <2>3. QED
      BY <2>1, <2>2
  <1>10. QED
    BY <1>5, <1>6, <1>7, <1>8, <1>9

\* Every step of relays that never overlap keeps it.
LEMMA SettledStep == IInv /\ SerialInv /\ SettledInv /\ [Next]_vars => SettledInv'
  <1> SUFFICES ASSUME IInv, SerialInv, Settled, Exclusive, [Next]_vars
               PROVE  Settled'
    BY DEF SettledInv
  <1>1. CASE \/ \E e \in Event : \/ CreateEvent(e) \/ MarkRolledBack(e)
                                 \/ ReplayStart(e) \/ ReplayFinish(e)
             \/ \E j \in JobId : ReplayCheck(j)
             \/ ReplayCrash
    <2>1. UNCHANGED <<job, pc, reg, runs>>
      BY <1>1 DEF CreateEvent, MarkRolledBack, ReplayStart, ReplayFinish, ReplayCheck,
         ReplayCrash
    <2>2. QED
      BY <1>1, <2>1, SettledEvent
  <1>2. ASSUME NEW w \in Worker,
               \/ StartTick(w) \/ BeginDispatch(w) \/ EndTick(w)
               \/ \E e \in Event : DeadLetterUnhandled(w, e)
               \/ \E h \in Handler : FindJob(w, h) \/ NothingFor(w, h)
               \/ CompleteUpdate(w) \/ CompleteRefused(w) \/ CompleteCount(w)
               \/ CompleteAbort(w) \/ FailRead(w) \/ FailRefused(w) \/ Crash(w)
        PROVE  Settled'
    <2>1. UNCHANGED <<job, replay, replayed, runs>>
      BY <1>2 DEF StartTick, BeginDispatch, EndTick, DeadLetterUnhandled, FindJob,
         NothingFor, CompleteUpdate, CompleteRefused, CompleteCount, CompleteAbort,
         FailRead, FailRefused, Crash, reg
    <2>2. QED
      BY <1>2, <2>1, SettledMove
  <1>3. ASSUME NEW w \in Worker, HandlerSucceeds(w) \/ HandlerThrows(w) PROVE Settled'
    BY <1>3, SettledRun
  <1>4. ASSUME NEW w \in Worker, NEW e \in Event, Materialize(w, e) PROVE Settled'
    BY <1>4, SettledMaterialize
  <1>5. ASSUME NEW w \in Worker,
               TakeLease(w) \/ CompleteCommit(w) \/ FailRetry(w) \/ FailDeadLetter(w)
        PROVE  Settled'
    BY <1>5, SettledWrite
  <1>6. ASSUME NEW j \in JobId, LeaseExpires(j) \/ BackoffEnds(j) PROVE Settled'
    BY <1>6, SettledTime
  <1>7. ASSUME NEW j \in JobId, ReplayWrite(j) PROVE Settled'
    BY <1>7, SettledReset
  <1>8. CASE UNCHANGED vars
    BY <1>8 DEF vars, reg, Settled, HeldRows, CountIsCurrent, ReplayDead, RunsCounted,
       Agreed, HoldsLease, NoneUnfinished, Finished, Exists, JobsOf
  <1>9. QED
    BY <1>1, <1>2, <1>3, <1>4, <1>5, <1>6, <1>7, <1>8
    DEF Next, RelayStep, MaterializeStep, DispatchStep, FinishStep, ReplayStep

(* When ticks never overlap, the status of an event nobody replays or rolls *)
(* back agrees with its jobs at every moment, whatever crashes and expired  *)
(* leases come in between: it is PUBLISHED exactly when all its jobs are    *)
(* COMPLETED, and DEAD_LETTER exactly when one is (completeJob, failJob).   *)
THEOREM StatusAgrees == Spec => []EventMatchesJobs
  <1>1. SettledInv => EventMatchesJobs
    BY DEF SettledInv, Settled, Agreed, EventMatchesJobs
  <1>2. QED
    BY <1>1, InvInit, InvStep, SerialInit, SerialStep, SettledInit, SettledStep, PTL
    DEF Spec

(* A handler runs at most maxAttempts times, and once more for each crash,  *)
(* between the creation or reset of its job and its end: reclaiming a lease *)
(* counts no attempt (leaseJob, failJob).                                   *)
THEOREM RunsAreBounded == Spec => []RunsBounded
  <1>1. IInv /\ SettledInv => RunsBounded
    <2> SUFFICES ASSUME IInv, Settled, NEW j \in JobId
                 PROVE  runs[j] <= MaxAttempts + crashes
      BY DEF SettledInv, RunsBounded
    <2>1. /\ runs[j] \in Nat /\ crashes \in Nat /\ job[j].attempt \in Nat
          /\ MaxAttempts \in Nat
      BY OutboxAssumption DEF IInv, TypeOK, Job
    <2>2. job[j].attempt < MaxAttempts /\ runs[j] <= job[j].attempt + 1 + crashes
      BY DEF Settled, RunsCounted
    <2>3. QED
      BY <2>1, <2>2
  <1>2. QED
    BY <1>1, InvInit, InvStep, SerialInit, SerialStep, SettledInit, SettledStep, PTL
    DEF Spec

(* The safety half of EventSettles: an event that is PENDING has no jobs    *)
(* yet, and then materializePending lists it, or one of them is still to be *)
(* leased or settled.                                                       *)
StillOwed ==
  Exclusive =>
    \A e \in Event \ (replayed \cup RollBackEvents) :
      event[e] = "PENDING" =>
        Unmaterialized(e) \/ \E j \in JobsOf(e) : job[j].status \in {"PENDING", "LEASED"}

(* When ticks never overlap, no crash, expired lease or failed handler      *)
(* leaves an event PENDING with no job that could still end it: the one     *)
(* that completes the last job publishes the event, the one that gives a    *)
(* job up dead-letters it, in the same transaction (completeJob, failJob).  *)
THEOREM NoneForgotten == Spec => []StillOwed
  <1>1. IInv /\ SettledInv => StillOwed
    <2> SUFFICES ASSUME IInv, Settled, NEW e \in Event \ (replayed \cup RollBackEvents),
                        event[e] = "PENDING", ~Unmaterialized(e)
                 PROVE  \E j \in JobsOf(e) : job[j].status \in {"PENDING", "LEASED"}
      BY DEF SettledInv, StillOwed
    <2>1. PICK k \in JobsOf(e) : Exists(k)
      BY DEF Unmaterialized
    <2>2. ~Finished(e)
      BY DEF Settled, Agreed
    <2>3. PICK j \in JobsOf(e) : Exists(j) /\ job[j].status # "COMPLETED"
      BY <2>1, <2>2 DEF Finished
    <2>4. j \in JobId /\ j[1] = e /\ HandlersFor[e] # {}
      BY <2>3 DEF JobsOf, IInv, Referential
    <2>5. job[j].status # "DEAD_LETTER"
      BY <2>3, <2>4 DEF Settled, Agreed
    <2>6. job[j] \in Job
      BY <2>4 DEF IInv, TypeOK
    <2>7. QED
      BY <2>3, <2>5, <2>6 DEF Job, Exists
  <1>2. QED
    BY <1>1, InvInit, InvStep, SerialInit, SerialStep, SettledInit, SettledStep, PTL
    DEF Spec

===============================================================================
