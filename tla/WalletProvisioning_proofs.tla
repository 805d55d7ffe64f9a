----------------------- MODULE WalletProvisioning_proofs -----------------------
(* Theorems about WalletProvisioning, for any number of users, relays, keys *)
(* and attempts and any faults.                                             *)
EXTENDS WalletProvisioning, TLAPS

(* A relay in a handler has an outbox job in its hands.                    *)
InHand == \A p \in Relay : pc[p] # "idle" => cur[p] \in Task

(* No key store forgets: it is durable, or none of its processes dies.     *)
Lasting == Durable \/ "crash" \notin kinds

(* The key that a relay is about to write into the wallet is the one in    *)
(* its key store: nobody replaces it.                                      *)
MaterialStored ==
  \A p \in Relay : pc[p] \in {"complete", "write"} =>
    /\ key[p] # NoKey
    /\ Lasting => Stored(p) = key[p]

(* What holds however the key stores are given to the processes, one to    *)
(* all of them or, as registerOutboxHandlers does, one to each: an ACTIVE  *)
(* wallet has a key, and unless a store forgets, the key of a wallet is    *)
(* held for it by the store of some process.  Which process that is, the   *)
(* wallet does not say; another one may hold another key for it.           *)
KeyIsHeld ==
  \A u \in User :
    /\ wallet[u].status = "ACTIVE" => wallet[u].key # NoKey
    /\ wallet[u].key # NoKey /\ Lasting =>
         \E p \in Relay : store[StoreOf[p]][u] = wallet[u].key

(* What a relay remembers of the attempts has not been taken back.         *)
TriesCounted ==
  \A p \in Relay : pc[p] \in Claimed => tries[p] <= job[Of(p)].attempts

(* A relay that is about to reset the job of a wallet has seen the wallet. *)
WalletSeen ==
  \A p \in Relay : pc[p] = "requeue" => wallet[Of(p)].status # "NONE"

(* What the code does not have (registerOutboxHandlers makes a store in    *)
(* memory for each process): one store for all, which survives them.       *)
OneDurableStore == Durable /\ \A p, q \in Relay : StoreOf[p] = StoreOf[q]

Typed == TypeOK /\ InHand

-------------------------------------------------------------------------------
(* Types *)

(* The statuses of a job after each statement that writes one.             *)
LEMMA JobTypes ==
  ASSUME Typed, NEW p \in Relay, pc[p] # "idle"
  PROVE  /\ Of(p) \in User
         /\ RequeuedJob(Of(p)) \in Job
         /\ FailedJob(p) \in Job
         /\ FailedTask(cur[p]) \in OutboxJob
<1>1. cur[p] \in Task /\ Of(p) \in User
  BY DEF Typed, InHand, Task, Of
<1>2. RequeuedJob(Of(p)) \in Job
  BY <1>1, ZenonT(60) DEF Typed, TypeOK, Job, RequeuedJob
<1>3. FailedJob(p) \in Job
  <2>1. job[Of(p)] \in Job
    BY <1>1 DEF Typed, TypeOK
  <2>2. Terminal(p) \in BOOLEAN
    BY DEF Terminal
  <2> QED BY <2>1, <2>2 DEF Job, FailedJob
<1>4. FailedTask(cur[p]) \in OutboxJob
  <2>1. task[cur[p]] \in OutboxJob
    BY <1>1 DEF Typed, TypeOK
  <2>2. task[cur[p]].attempt + 1 \in Nat
    BY <2>1 DEF OutboxJob
  <2> QED BY <2>1, <2>2 DEF OutboxJob, FailedTask
<1> QED BY <1>1, <1>2, <1>3, <1>4

(* The steps of UserCreated's handler and of the outbox keep the types.    *)
LEMMA OutboxTypes ==
  ASSUME Typed, NEW p \in Relay,
         \/ \E t \in Task : Take(p, t)
         \/ Settle(p) \/ ReserveRefused(p) \/ ReserveRead(p)
         \/ ReserveWrite(p) \/ ReserveConflict(p)
         \/ CheckRequested(p) \/ EmitRequest(p)
  PROVE  Typed'
<1>1. ASSUME NEW t \in Task, Take(p, t) PROVE Typed'
  <2>1. task[t] \in OutboxJob
    BY DEF Typed, TypeOK
  <2>2. task' \in [Task -> OutboxJob]
    BY <1>1, <2>1 DEF Take, Typed, TypeOK, OutboxJob
  <2> QED
    BY <1>1, <2>2 DEF Take, Goto, Typed, TypeOK, InHand, Pc, history
<1>2. CASE Settle(p)
  <2>1. pc[p] # "idle"
    BY <1>2 DEF Settle
  <2>2. /\ FailedTask(cur[p]) \in OutboxJob
        /\ cur[p] \in Task
    BY <2>1, JobTypes DEF Typed, InHand, Task
  <2>3. task' \in [Task -> OutboxJob]
    BY <1>2, <2>2, ZenonT(60) DEF Settle, Typed, TypeOK, OutboxJob
  <2> QED
    BY <1>2, <2>3 DEF Settle, Forget, Goto, Typed, TypeOK, InHand, Pc, history
<1>3. CASE ReserveRefused(p) \/ ReserveRead(p) \/ ReserveConflict(p)
  <2>1. pc[p] # "idle" /\ \E l \in Pc : Goto(p, l)
    BY <1>3 DEF ReserveRefused, ReserveRead, ReserveConflict, Pc
  <2>2. UNCHANGED <<eligible, wallet, job, store, task, cur, tries, key, history>>
    BY <1>3 DEF ReserveRefused, ReserveRead, ReserveConflict
  <2> QED
    BY <2>1, <2>2 DEF Goto, Typed, TypeOK, InHand, history
<1>4. CASE ReserveWrite(p)
  <2>1. Of(p) \in User /\ RequeuedJob(Of(p)) \in Job
    BY <1>4, JobTypes DEF ReserveWrite
  <2>2. wallet' \in [User -> Wallet] /\ job' \in [User -> Job]
    BY <1>4, <2>1 DEF ReserveWrite, Typed, TypeOK, Wallet
  <2> QED
    BY <1>4, <2>2 DEF ReserveWrite, Goto, Typed, TypeOK, InHand, Pc, history
<1>5. CASE CheckRequested(p)
  BY <1>5 DEF CheckRequested, Goto, Typed, TypeOK, InHand, Pc, history
<1>6. CASE EmitRequest(p)
  <2>1. <<Of(p), p>> \in Task
    BY <1>6, JobTypes DEF EmitRequest, Task
  <2>2. task' \in [Task -> OutboxJob]
    BY <1>6, <2>1, ZenonT(60) DEF EmitRequest, Typed, TypeOK, OutboxJob
  <2> QED
    BY <1>6, <2>2 DEF EmitRequest, Goto, Typed, TypeOK, InHand, Pc, history
<1> QED
  BY <1>1, <1>2, <1>3, <1>4, <1>5, <1>6

(* The steps of the provisioning handler keep the types.                   *)
LEMMA ProvisionTypes ==
  ASSUME Typed, NEW p \in Relay,
         \/ Claim(p) \/ ClaimIdle(p) \/ Lookup(p) \/ StoreKey(p)
         \/ CompleteRead(p) \/ CompleteWrite(p) \/ FailRead(p)
         \/ RecordFailure(p)
  PROVE  Typed'
<1>0. pc[p] # "idle"
  BY DEF Claim, ClaimIdle, Lookup, StoreKey, CompleteRead, CompleteWrite,
         FailRead, RecordFailure
<1>1. Of(p) \in User /\ StoreOf[p] \in Store
  BY <1>0, JobTypes, WalletAssumption
<1>2. CASE Claim(p)
  <2>1. job[Of(p)] \in Job /\ job[Of(p)].attempts + 1 \in Nat
    BY <1>1 DEF Typed, TypeOK, Job
  <2>2. job' \in [User -> Job] /\ wallet' \in [User -> Wallet]
    BY <1>2, <1>1, <2>1, ZenonT(60) DEF Claim, Typed, TypeOK, Job, Wallet
  <2> QED
    BY <1>2, <2>1, <2>2 DEF Claim, Goto, Typed, TypeOK, InHand, Pc, history
<1>3. CASE ClaimIdle(p)
  BY <1>3 DEF ClaimIdle, Goto, Typed, TypeOK, InHand, Pc, history
<1>4. CASE Lookup(p)
  <2>1. Stored(p) \in Key \cup {NoKey}
    BY <1>1 DEF Stored, Typed, TypeOK
  <2> QED
    BY <1>4, <2>1 DEF Lookup, Goto, Typed, TypeOK, InHand, Pc, history
<1>5. CASE StoreKey(p)
  <2>1. PICK k \in Key : store' = Written(p, k)
                         /\ key' = [key EXCEPT ![p] = KeptKey(p, k)]
    BY <1>5 DEF StoreKey
  <2>2. KeptKey(p, k) \in Key \cup {NoKey}
    BY <1>1 DEF KeptKey, Stored, Typed, TypeOK
  <2>3. store' \in [Store -> [User -> Key \cup {NoKey}]]
    BY <1>1, <2>1, <2>2 DEF Written, Typed, TypeOK
  <2> QED
    BY <1>5, <2>1, <2>2, <2>3
       DEF StoreKey, Goto, Typed, TypeOK, InHand, Pc, history
<1>6. CASE CompleteRead(p)
  BY <1>6 DEF CompleteRead, Goto, Typed, TypeOK, InHand, Pc, history
<1>7. CASE CompleteWrite(p)
  <2>1. job[Of(p)] \in Job /\ [status |-> "ACTIVE", key |-> key[p]] \in Wallet
    BY <1>1 DEF Typed, TypeOK, Wallet
  <2>2. job' \in [User -> Job] /\ wallet' \in [User -> Wallet]
    BY <1>7, <1>1, <2>1 DEF CompleteWrite, Typed, TypeOK, Job
  <2> QED
    BY <1>7, <2>2 DEF CompleteWrite, Goto, Typed, TypeOK, InHand, Pc, history
<1>8. CASE FailRead(p)
  BY <1>8 DEF FailRead, Answer, Goto, Typed, TypeOK, InHand, Pc, history
<1>9. CASE RecordFailure(p)
  <2>1. FailedJob(p) \in Job
    BY <1>0, <1>1, JobTypes
  <2>2. job' \in [User -> Job] /\ wallet' \in [User -> Wallet]
    BY <1>9, <1>1, <2>1 DEF RecordFailure, Typed, TypeOK, Wallet
  <2> QED
    BY <1>9, <2>2
       DEF RecordFailure, Answer, Goto, Typed, TypeOK, InHand, Pc, history
<1> QED
  BY <1>2, <1>3, <1>4, <1>5, <1>6, <1>7, <1>8, <1>9

(* Faults, time, users and operators keep the types.                       *)
LEMMA OtherTypes ==
  ASSUME Typed,
         \/ \E p \in Relay : FaultStep(p)
         \/ \E u \in User : JobLeaseExpires(u) \/ JobDue(u)
                            \/ ChangeEligibility(u)
         \/ \E t \in Task : TaskLeaseExpires(t) \/ TaskDue(t) \/ Replay(t)
         \/ UNCHANGED vars
  PROVE  Typed'
<1>1. ASSUME NEW p \in Relay, StoreUncertain(p) PROVE Typed'
  <2>1. Of(p) \in User /\ StoreOf[p] \in Store
    BY <1>1, JobTypes, WalletAssumption DEF StoreUncertain
  <2>2. store' \in [Store -> [User -> Key \cup {NoKey}]]
    <3>1. CASE store' = store
      BY <3>1 DEF Typed, TypeOK
    <3>2. ASSUME NEW k \in Key, store' = Written(p, k)
          PROVE  store' \in [Store -> [User -> Key \cup {NoKey}]]
      BY <2>1, <3>2 DEF Written, KeptKey, Stored, Typed, TypeOK
    <3> QED
      BY <1>1, <3>1, <3>2 DEF StoreUncertain
  <2> QED
    BY <1>1, <2>2 DEF StoreUncertain, Fault, Goto, Typed, TypeOK, InHand, Pc
<1>2. ASSUME NEW p \in Relay, KeyStoreFails(p) PROVE Typed'
  BY <1>2 DEF KeyStoreFails, Fault, Goto, Typed, TypeOK, InHand, Pc
<1>3. ASSUME NEW p \in Relay, DatabaseFails(p) PROVE Typed'
  <2>1. pc[p] # "idle" /\ \E l \in Pc : l # "idle" /\ Goto(p, l)
    BY <1>3 DEF DatabaseFails, Answer, Pc
  <2> QED
    BY <1>3, <2>1 DEF DatabaseFails, Fault, Goto, Typed, TypeOK, InHand
<1>4. ASSUME NEW p \in Relay, Crash(p) PROVE Typed'
  <2>1. store' \in [Store -> [User -> Key \cup {NoKey}]]
    BY <1>4, WalletAssumption DEF Crash, Typed, TypeOK
  <2> QED
    BY <1>4, <2>1 DEF Crash, Fault, Forget, Goto, Typed, TypeOK, InHand, Pc
<1>5. ASSUME NEW u \in User,
             JobLeaseExpires(u) \/ JobDue(u) \/ ChangeEligibility(u)
      PROVE  Typed'
  <2>1. job[u] \in Job /\ eligible[u] \in BOOLEAN
    BY DEF Typed, TypeOK
  <2>2. job' \in [User -> Job] /\ eligible' \in [User -> BOOLEAN]
    <3>1. CASE JobLeaseExpires(u)
      BY <2>1, <3>1 DEF JobLeaseExpires, Typed, TypeOK, Job
    <3>2. CASE JobDue(u)
      BY <2>1, <3>2 DEF JobDue, Typed, TypeOK, Job
    <3>3. CASE ChangeEligibility(u)
      BY <2>1, <3>3 DEF ChangeEligibility, Typed, TypeOK
    <3> QED BY <1>5, <3>1, <3>2, <3>3
  <2>3. kinds' = kinds /\ faults' \in Nat
    BY <1>5 DEF JobLeaseExpires, JobDue, ChangeEligibility, Fault, Typed, TypeOK,
                history
  <2>4. UNCHANGED <<wallet, store, task, pc, cur, tries, key>>
    BY <1>5 DEF JobLeaseExpires, JobDue, ChangeEligibility, reg
  <2> QED
    BY <2>2, <2>3, <2>4 DEF Typed, TypeOK, InHand
<1>6. ASSUME NEW t \in Task, TaskLeaseExpires(t) \/ TaskDue(t) \/ Replay(t)
      PROVE  Typed'
  <2>1. task[t] \in OutboxJob /\ [NoOutboxJob EXCEPT !.status = "PENDING"] \in OutboxJob
    BY DEF Typed, TypeOK, OutboxJob, NoOutboxJob
  <2>2. task' \in [Task -> OutboxJob]
    <3>1. CASE TaskLeaseExpires(t)
      BY <2>1, <3>1 DEF TaskLeaseExpires, Typed, TypeOK, OutboxJob
    <3>2. CASE TaskDue(t)
      BY <2>1, <3>2 DEF TaskDue, Typed, TypeOK, OutboxJob
    <3>3. CASE Replay(t)
      BY <2>1, <3>3 DEF Replay, Typed, TypeOK
    <3> QED BY <1>6, <3>1, <3>2, <3>3
  <2>3. kinds' = kinds /\ faults' \in Nat
    BY <1>6 DEF TaskLeaseExpires, TaskDue, Replay, Fault, Typed, TypeOK, history
  <2>4. UNCHANGED <<eligible, wallet, job, store, pc, cur, tries, key>>
    BY <1>6 DEF TaskLeaseExpires, TaskDue, Replay, reg
  <2> QED
    BY <2>2, <2>3, <2>4 DEF Typed, TypeOK, InHand
<1>7. ASSUME UNCHANGED vars PROVE Typed'
  BY <1>7 DEF vars, reg, history, Typed, TypeOK, InHand
<1> QED
  BY <1>1, <1>2, <1>3, <1>4, <1>5, <1>6, <1>7 DEF FaultStep

LEMMA TypedInit == Init => Typed
<1> SUFFICES ASSUME Init PROVE Typed
  OBVIOUS
<1>1. /\ NoJob \in Job /\ NoOutboxJob \in OutboxJob
      /\ [NoOutboxJob EXCEPT !.status = "PENDING"] \in OutboxJob
      /\ [status |-> "NONE", key |-> NoKey] \in Wallet
  BY DEF NoJob, NoOutboxJob, Job, OutboxJob, Wallet
<1>2. task \in [Task -> OutboxJob]
  BY <1>1 DEF Init
<1>3. kinds \subseteq Kind
  BY WalletAssumption DEF Init
<1> QED
  BY <1>1, <1>2, <1>3 DEF Init, Typed, TypeOK, InHand, Pc

LEMMA TypedNext == Typed /\ [Next]_vars => Typed'
BY OutboxTypes, ProvisionTypes, OtherTypes DEF Next, Step, HandlerStep

(* Every table and every register keeps its type: no status of one machine *)
(* is written into the rows of another, whatever fails.                    *)
THEOREM TypeCorrect == Spec => []TypeOK
<1>1. Typed => TypeOK
  BY DEF Typed
<1> QED
  BY <1>1, TypedInit, TypedNext, PTL DEF Spec

LEMMA TypedAlways == Spec => []Typed
BY TypedInit, TypedNext, PTL DEF Spec

-------------------------------------------------------------------------------
(* The wallet and its job *)

(* The statuses and counts of the tables change only in the five           *)
(* statements that write them.                                             *)
LEMMA RowsAreStill ==
  ASSUME Typed, [Next]_vars,
         \A p \in Relay : ~ReserveWrite(p) /\ ~Claim(p) /\ ~CompleteWrite(p)
                         /\ ~RecordFailure(p)
  PROVE  /\ wallet' = wallet
         /\ \A u \in User : /\ job'[u].status = job[u].status
                            /\ job'[u].attempts = job[u].attempts
<1>1. ASSUME NEW p \in Relay, HandlerStep(p)
      PROVE  UNCHANGED <<wallet, job>>
  BY <1>1 DEF HandlerStep, ReserveRefused, ReserveRead, ReserveConflict,
              CheckRequested, EmitRequest,
              ClaimIdle, Lookup, StoreKey, CompleteRead, FailRead, Settle
<1>2. ASSUME NEW p \in Relay, FaultStep(p) \/ \E t \in Task : Take(p, t)
      PROVE  UNCHANGED <<wallet, job>>
  BY <1>2 DEF FaultStep, StoreUncertain, KeyStoreFails, DatabaseFails, Crash, Take
<1>3. ASSUME NEW t \in Task, TaskLeaseExpires(t) \/ TaskDue(t) \/ Replay(t)
      PROVE  UNCHANGED <<wallet, job>>
  BY <1>3 DEF TaskLeaseExpires, TaskDue, Replay
<1>4. ASSUME NEW u \in User,
             JobLeaseExpires(u) \/ JobDue(u) \/ ChangeEligibility(u)
      PROVE  /\ wallet' = wallet
             /\ \A v \in User : /\ job'[v].status = job[v].status
                                /\ job'[v].attempts = job[v].attempts
  <2>1. job \in [User -> Job]
    BY DEF Typed, TypeOK
  <2>2. CASE JobLeaseExpires(u)
    BY <2>1, <2>2 DEF JobLeaseExpires, Job
  <2>3. CASE JobDue(u)
    BY <2>1, <2>3 DEF JobDue, Job
  <2>4. CASE ChangeEligibility(u)
    BY <2>4 DEF ChangeEligibility
  <2> QED BY <1>4, <2>2, <2>3, <2>4
<1>5. CASE UNCHANGED vars
  BY <1>5 DEF vars
<1> QED
  BY <1>1, <1>2, <1>3, <1>4, <1>5 DEF Next, Step

(* What the four writing steps do to the wallet they handle, and to no     *)
(* other.                                                                  *)
LEMMA RowsWritten ==
  ASSUME Typed, NEW p \in Relay,
         ReserveWrite(p) \/ Claim(p) \/ CompleteWrite(p) \/ RecordFailure(p)
  PROVE  /\ Of(p) \in User
         /\ \A u \in User \ {Of(p)} : wallet'[u] = wallet[u] /\ job'[u] = job[u]
         /\ ReserveWrite(p) =>
              /\ wallet'[Of(p)].status =
                   IF pc[p] = "requeue"
                   THEN wallet[Of(p)].status ELSE "RESERVED"
              /\ job'[Of(p)].status = "PENDING"
              /\ job'[Of(p)].attempts = job[Of(p)].attempts
         /\ Claim(p) =>
              /\ wallet'[Of(p)].status = "PROVISIONING"
              /\ job'[Of(p)].status = "PROCESSING"
              /\ job'[Of(p)].attempts = job[Of(p)].attempts + 1
         /\ CompleteWrite(p) =>
              /\ wallet'[Of(p)].status = "ACTIVE"
              /\ job'[Of(p)].status = "COMPLETED"
              /\ job'[Of(p)].attempts = job[Of(p)].attempts
         /\ RecordFailure(p) =>
              /\ wallet'[Of(p)].status =
                   IF Terminal(p) THEN "FAILED" ELSE "RETRYABLE"
              /\ job'[Of(p)].status =
                   IF Terminal(p) THEN "DEAD_LETTER" ELSE "RETRY"
              /\ job'[Of(p)].attempts = job[Of(p)].attempts
<1>1. pc[p] # "idle"
  BY DEF ReserveWrite, Claim, CompleteWrite, RecordFailure
<1>2. Of(p) \in User
  BY <1>1, JobTypes
<1>3. /\ job \in [User -> Job] /\ wallet \in [User -> Wallet]
      /\ job[Of(p)] \in Job /\ wallet[Of(p)] \in Wallet
  BY <1>2 DEF Typed, TypeOK
<1>4. CASE ReserveWrite(p)
  BY <1>2, <1>3, <1>4 DEF ReserveWrite, Claim, CompleteWrite, RecordFailure,
                          RequeuedJob, Job, Wallet
<1>5. CASE Claim(p)
  BY <1>2, <1>3, <1>5 DEF ReserveWrite, Claim, CompleteWrite, RecordFailure, Job, Wallet
<1>6. CASE CompleteWrite(p)
  BY <1>2, <1>3, <1>6 DEF ReserveWrite, Claim, CompleteWrite, RecordFailure, Job, Wallet
<1>7. CASE RecordFailure(p)
  BY <1>2, <1>3, <1>7 DEF ReserveWrite, Claim, CompleteWrite, RecordFailure,
                          FailedJob, Job, Wallet
<1> QED
  BY <1>4, <1>5, <1>6, <1>7

\* A relay comes to reset a job only from its read of the wallet.
LEMMA RequeueKept ==
  ASSUME Typed, [Next]_vars, NEW p \in Relay, pc'[p] = "requeue"
  PROVE  \/ ReserveRead(p)
         \/ pc[p] = "requeue" /\ cur'[p] = cur[p]
<1> USE DEF Typed, TypeOK, Goto, Fault
<1> DEFINE Same == pc[p] = "requeue" /\ cur'[p] = cur[p]
<1>1. ASSUME NEW q \in Relay,
             ReserveRefused(q) \/ ReserveWrite(q) \/ ReserveConflict(q)
      PROVE  Same
  BY <1>1 DEF ReserveRefused, ReserveWrite, ReserveConflict
<1>2. ASSUME NEW q \in Relay, CheckRequested(q) \/ EmitRequest(q)
      PROVE  Same
  BY <1>2 DEF CheckRequested, EmitRequest
<1>3. ASSUME NEW q \in Relay,
             (\E t \in Task : Take(q, t)) \/ Settle(q) \/ Crash(q)
      PROVE  Same
  BY <1>3 DEF Take, Settle, Forget, Crash
<1>4. ASSUME NEW q \in Relay, q # p, ReserveRead(q)
      PROVE  Same
  BY <1>4 DEF ReserveRead
<1>5. ASSUME NEW q \in Relay,
             \/ Claim(q) \/ ClaimIdle(q) \/ Lookup(q) \/ StoreKey(q)
             \/ CompleteRead(q) \/ CompleteWrite(q) \/ FailRead(q)
             \/ RecordFailure(q)
      PROVE  Same
  BY <1>5 DEF Claim, ClaimIdle, Lookup, StoreKey, CompleteRead, CompleteWrite,
              FailRead, RecordFailure, Answer
<1>6. ASSUME NEW q \in Relay,
             StoreUncertain(q) \/ KeyStoreFails(q) \/ DatabaseFails(q)
      PROVE  Same
  BY <1>6 DEF StoreUncertain, KeyStoreFails, DatabaseFails, Answer
<1>7. ASSUME \/ UNCHANGED vars
             \/ \E u \in User : JobLeaseExpires(u) \/ JobDue(u)
                                \/ ChangeEligibility(u)
             \/ \E t \in Task : TaskLeaseExpires(t) \/ TaskDue(t) \/ Replay(t)
      PROVE  Same
  BY <1>7 DEF vars, reg, JobLeaseExpires, JobDue, ChangeEligibility,
              TaskLeaseExpires, TaskDue, Replay
<1> QED
  BY <1>1, <1>2, <1>3, <1>4, <1>5, <1>6, <1>7
     DEF Next, Step, HandlerStep, FaultStep

\* A wallet is never deleted.
LEMMA WalletStays ==
  ASSUME Typed, [Next]_vars, NEW u \in User, wallet[u].status # "NONE"
  PROVE  wallet'[u].status # "NONE"
<1>1. ASSUME NEW p \in Relay,
             ReserveWrite(p) \/ Claim(p) \/ CompleteWrite(p) \/ RecordFailure(p)
      PROVE  wallet'[u].status # "NONE"
  <2>1. CASE u # Of(p)
    BY <1>1, <2>1, RowsWritten
  <2>2. CASE u = Of(p)
    BY <1>1, <2>2, RowsWritten
  <2> QED BY <2>1, <2>2
<1>2. CASE \A p \in Relay : ~ReserveWrite(p) /\ ~Claim(p) /\ ~CompleteWrite(p)
                          /\ ~RecordFailure(p)
  BY <1>2, RowsAreStill
<1> QED BY <1>1, <1>2

LEMMA SeenNext == Typed /\ WalletSeen /\ [Next]_vars => WalletSeen'
<1> SUFFICES ASSUME Typed, WalletSeen, [Next]_vars,
                    NEW p \in Relay, pc'[p] = "requeue"
             PROVE  wallet'[cur'[p][1]].status # "NONE"
  BY DEF WalletSeen, Of
<1>1. CASE ReserveRead(p)
  BY <1>1 DEF ReserveRead, Goto, Of, Typed, TypeOK
<1>2. CASE pc[p] = "requeue" /\ cur'[p] = cur[p]
  <2>1. Of(p) \in User /\ wallet[Of(p)].status # "NONE"
    BY <1>2, JobTypes DEF WalletSeen
  <2> QED BY <1>2, <2>1, WalletStays DEF Of
<1> QED BY <1>1, <1>2, RequeueKept

\* The writing steps keep to JobStatuses, the others write neither status.
LEMMA AgreeNext ==
  Typed /\ WalletSeen /\ StatusesAgree /\ [Next]_vars => StatusesAgree'
<1> SUFFICES ASSUME Typed, WalletSeen, StatusesAgree, [Next]_vars, NEW u \in User
             PROVE  job'[u].status \in JobStatuses(wallet'[u].status)
  BY DEF StatusesAgree
<1>0. /\ wallet[u].status \in {"NONE", "RESERVED", "PROVISIONING", "RETRYABLE",
                              "ACTIVE", "FAILED"}
      /\ job[u].status \in JobStatuses(wallet[u].status)
  BY DEF Typed, TypeOK, Wallet, StatusesAgree
<1>1. ASSUME NEW p \in Relay,
             ReserveWrite(p) \/ Claim(p) \/ CompleteWrite(p) \/ RecordFailure(p)
      PROVE  job'[u].status \in JobStatuses(wallet'[u].status)
  <2>1. CASE u # Of(p)
    <3>1. wallet'[u] = wallet[u] /\ job'[u] = job[u]
      BY <1>1, <2>1, RowsWritten
    <3> QED BY <1>0, <3>1
  <2>2. CASE u = Of(p) /\ ReserveWrite(p)
    BY <1>0, <2>2, RowsWritten DEF JobStatuses, WalletSeen
  <2>3. CASE u = Of(p) /\ ~ReserveWrite(p)
    BY <1>1, <2>3, RowsWritten DEF JobStatuses
  <2> QED BY <2>1, <2>2, <2>3
<1>2. CASE \A p \in Relay : ~ReserveWrite(p) /\ ~Claim(p) /\ ~CompleteWrite(p)
                          /\ ~RecordFailure(p)
  BY <1>0, <1>2, RowsAreStill
<1> QED BY <1>1, <1>2

(* No interleaving of stale reservations, claims, stale completions and    *)
(* stale failures makes the wallet and its job disagree.                   *)
THEOREM RowsAgree == Spec => []StatusesAgree
<1>1. Init => WalletSeen /\ StatusesAgree
  BY DEF Init, WalletSeen, StatusesAgree, JobStatuses, NoJob
<1> QED
  BY <1>1, TypedAlways, SeenNext, AgreeNext, PTL DEF Spec

-------------------------------------------------------------------------------
(* Attempts *)

(* The registers of the relays, for the two invariants below: a relay      *)
(* other than the one that steps keeps its own, and the one that steps     *)
(* enters a claimed step only by Claim.                                    *)
LEMMA TriesKept ==
  ASSUME Typed, [Next]_vars, NEW p \in Relay, pc'[p] \in Claimed
  PROVE  \/ Claim(p)
         \/ pc[p] \in Claimed /\ tries'[p] = tries[p] /\ cur'[p] = cur[p]
<1> USE DEF Claimed, Typed, TypeOK, Goto, Fault
<1>1. ASSUME NEW q \in Relay,
             \/ ReserveRefused(q) \/ ReserveRead(q) \/ ReserveWrite(q)
             \/ ReserveConflict(q)
      PROVE  pc[p] \in Claimed /\ tries'[p] = tries[p] /\ cur'[p] = cur[p]
  BY <1>1 DEF ReserveRefused, ReserveRead, ReserveWrite, ReserveConflict
<1>2. ASSUME NEW q \in Relay, CheckRequested(q) \/ EmitRequest(q)
      PROVE  pc[p] \in Claimed /\ tries'[p] = tries[p] /\ cur'[p] = cur[p]
  BY <1>2 DEF CheckRequested, EmitRequest
<1>3. ASSUME NEW q \in Relay,
             (\E t \in Task : Take(q, t)) \/ Settle(q) \/ Crash(q)
      PROVE  pc[p] \in Claimed /\ tries'[p] = tries[p] /\ cur'[p] = cur[p]
  <2>1. CASE \E t \in Task : Take(q, t)
    BY <1>3, <2>1, ZenonT(60) DEF Take
  <2>2. CASE Settle(q)
    BY <1>3, <2>2, ZenonT(60) DEF Settle, Forget
  <2>3. CASE Crash(q)
    BY <1>3, <2>3, ZenonT(60) DEF Forget, Crash
  <2> QED BY <1>3, <2>1, <2>2, <2>3
<1>4. ASSUME NEW q \in Relay, q # p, Claim(q)
      PROVE  pc[p] \in Claimed /\ tries'[p] = tries[p] /\ cur'[p] = cur[p]
  BY <1>4 DEF Claim
<1>5. ASSUME NEW q \in Relay,
             \/ ClaimIdle(q) \/ Lookup(q) \/ StoreKey(q) \/ CompleteRead(q)
             \/ CompleteWrite(q) \/ FailRead(q) \/ RecordFailure(q)
             \/ StoreUncertain(q) \/ KeyStoreFails(q)
      PROVE  pc[p] \in Claimed /\ tries'[p] = tries[p] /\ cur'[p] = cur[p]
  BY <1>5 DEF ClaimIdle, Lookup, StoreKey, CompleteRead, CompleteWrite,
              FailRead, RecordFailure, Answer, StoreUncertain, KeyStoreFails
<1>6. ASSUME NEW q \in Relay, DatabaseFails(q)
      PROVE  pc[p] \in Claimed /\ tries'[p] = tries[p] /\ cur'[p] = cur[p]
  BY <1>6 DEF DatabaseFails, Answer
<1>7. ASSUME \/ UNCHANGED vars
             \/ \E u \in User : JobLeaseExpires(u) \/ JobDue(u)
                                \/ ChangeEligibility(u)
             \/ \E t \in Task : TaskLeaseExpires(t) \/ TaskDue(t) \/ Replay(t)
      PROVE  pc[p] \in Claimed /\ tries'[p] = tries[p] /\ cur'[p] = cur[p]
  BY <1>7 DEF vars, reg, JobLeaseExpires, JobDue, ChangeEligibility,
              TaskLeaseExpires, TaskDue, Replay
<1> QED
  BY <1>1, <1>2, <1>3, <1>4, <1>5, <1>6, <1>7
     DEF Next, Step, HandlerStep, FaultStep

\* Attempts are never taken back.
LEMMA AttemptsGrow ==
  ASSUME Typed, [Next]_vars, NEW u \in User
  PROVE  job'[u].attempts >= job[u].attempts
<1>0. job[u].attempts \in Nat
  BY DEF Typed, TypeOK, Job
<1>1. ASSUME NEW p \in Relay,
             ReserveWrite(p) \/ Claim(p) \/ CompleteWrite(p) \/ RecordFailure(p)
      PROVE  job'[u].attempts >= job[u].attempts
  <2>1. CASE u # Of(p)
    BY <1>0, <1>1, <2>1, RowsWritten
  <2>2. CASE u = Of(p)
    BY <1>0, <1>1, <2>2, RowsWritten
  <2> QED BY <2>1, <2>2
<1>2. CASE \A p \in Relay : ~ReserveWrite(p) /\ ~Claim(p) /\ ~CompleteWrite(p)
                          /\ ~RecordFailure(p)
  BY <1>0, <1>2, RowsAreStill
<1> QED BY <1>1, <1>2

LEMMA TriesNext == Typed /\ TriesCounted /\ [Next]_vars => TriesCounted'
<1> SUFFICES ASSUME Typed, TriesCounted, [Next]_vars,
                    NEW p \in Relay, pc'[p] \in Claimed
             PROVE  tries'[p] <= job'[cur'[p][1]].attempts
  BY DEF TriesCounted, Of
<1>1. CASE Claim(p)
  <2>1. Of(p) \in User /\ job'[Of(p)].attempts = job[Of(p)].attempts + 1
    BY <1>1, RowsWritten
  <2>2. job[Of(p)].attempts + 1 \in Nat
    BY <2>1 DEF Typed, TypeOK, Job
  <2>3. tries'[p] = job[Of(p)].attempts + 1 /\ cur' = cur
    BY <1>1 DEF Claim, Typed, TypeOK
  <2> QED BY <2>1, <2>2, <2>3 DEF Of
<1>2. CASE pc[p] \in Claimed /\ tries'[p] = tries[p] /\ cur'[p] = cur[p]
  <2>1. Of(p) \in User /\ tries[p] <= job[Of(p)].attempts
    BY <1>2, JobTypes DEF TriesCounted, Claimed
  <2>2. job'[Of(p)].attempts >= job[Of(p)].attempts
    BY <2>1, AttemptsGrow
  <2>3. tries[p] \in Nat /\ job[Of(p)].attempts \in Nat
        /\ job'[Of(p)].attempts \in Nat
    BY <2>1, TypedNext DEF Typed, TypeOK, Job
  <2> QED BY <1>2, <2>1, <2>2, <2>3 DEF Of
<1> QED BY <1>1, <1>2, TriesKept

LEMMA ExhaustedNext ==
  Typed /\ TriesCounted /\ FailedIsExhausted /\ [Next]_vars => FailedIsExhausted'
<1> SUFFICES ASSUME Typed, TriesCounted, FailedIsExhausted, [Next]_vars,
                    NEW u \in User, wallet'[u].status = "FAILED"
             PROVE  job'[u].attempts >= MaxAttempts
  BY DEF FailedIsExhausted
<1>0. /\ job[u].attempts \in Nat /\ job'[u].attempts \in Nat
      /\ MaxAttempts \in Nat
      /\ job'[u].attempts >= job[u].attempts
  BY TypedNext, AttemptsGrow, WalletAssumption DEF Typed, TypeOK, Job
<1>1. CASE wallet[u].status = "FAILED"
  BY <1>0, <1>1 DEF FailedIsExhausted
<1>2. ASSUME NEW p \in Relay, RecordFailure(p), u = Of(p),
             wallet[u].status # "FAILED"
      PROVE  job[u].attempts >= MaxAttempts
  <2>1. Terminal(p) /\ pc[p] \in Claimed
    BY <1>2, RowsWritten DEF RecordFailure, Claimed
  <2>2. tries[p] \in Nat /\ tries[p] <= job[u].attempts /\ tries[p] >= MaxAttempts
    BY <1>2, <2>1 DEF Terminal, TriesCounted, Typed, TypeOK
  <2> QED BY <1>0, <2>2
<1>3. ASSUME NEW p \in Relay, wallet[u].status # "FAILED",
             ReserveWrite(p) \/ Claim(p) \/ CompleteWrite(p) \/ RecordFailure(p)
      PROVE  u = Of(p) /\ RecordFailure(p)
  <2>1. u = Of(p)
    BY <1>3, RowsWritten
  <2> QED BY <1>3, <2>1, RowsWritten
<1>4. CASE \A p \in Relay : ~ReserveWrite(p) /\ ~Claim(p) /\ ~CompleteWrite(p)
                          /\ ~RecordFailure(p)
  BY <1>1, <1>4, RowsAreStill
<1> QED BY <1>0, <1>1, <1>2, <1>3, <1>4

(* A wallet is failed for good only after all its attempts, whoever made   *)
(* them.                                                                   *)
THEOREM FailedLast == Spec => []FailedIsExhausted
<1>1. Init => TriesCounted /\ FailedIsExhausted
  BY DEF Init, TriesCounted, FailedIsExhausted, Claimed
<1> QED
  BY <1>1, TypedAlways, TriesNext, ExhaustedNext, PTL DEF Spec

-------------------------------------------------------------------------------
(* Keys *)

(* The kinds of fault of a behaviour are fixed at its start.               *)
LEMMA KindsStay ==
  ASSUME [Next]_vars
  PROVE  kinds' = kinds
<1>1. \A k \in Kind : Fault(k) => kinds' = kinds
  BY DEF Fault
<1>2. ASSUME NEW p \in Relay, Step(p) PROVE kinds' = kinds
  BY <1>2 DEF Step, HandlerStep, Take, Settle, ReserveRefused, ReserveRead, ReserveWrite,
     ReserveConflict, CheckRequested, EmitRequest, Claim, ClaimIdle, Lookup, StoreKey,
     CompleteRead, CompleteWrite, FailRead, RecordFailure, history
<1>3. ASSUME NEW p \in Relay, FaultStep(p) PROVE kinds' = kinds
  BY <1>1, <1>3 DEF FaultStep, StoreUncertain, KeyStoreFails, DatabaseFails, Crash, Kind
<1>4. ASSUME NEW u \in User, JobLeaseExpires(u) \/ JobDue(u) \/ ChangeEligibility(u)
      PROVE  kinds' = kinds
  BY <1>1, <1>4 DEF JobLeaseExpires, JobDue, ChangeEligibility, history, Kind
<1>5. ASSUME NEW t \in Task, TaskLeaseExpires(t) \/ TaskDue(t) \/ Replay(t)
      PROVE  kinds' = kinds
  BY <1>1, <1>5 DEF TaskLeaseExpires, TaskDue, Replay, history, Kind
<1> QED BY <1>2, <1>3, <1>4, <1>5 DEF Next, vars, history

\* Unless a store forgets, a key that is there stays.
LEMMA StoreKept ==
  ASSUME Typed, Lasting, [Next]_vars,
         NEW p \in Relay, NEW u \in User, store[StoreOf[p]][u] # NoKey
  PROVE  store'[StoreOf[p]][u] = store[StoreOf[p]][u]
<1>0. StoreOf[p] \in Store /\ store \in [Store -> [User -> Key \cup {NoKey}]]
  BY WalletAssumption DEF Typed, TypeOK
<1>1. ASSUME NEW q \in Relay, NEW k \in Key, store' = Written(q, k)
      PROVE  store'[StoreOf[p]][u] = store[StoreOf[p]][u]
  BY <1>0, <1>1 DEF Written, KeptKey, Stored
<1>2. ASSUME NEW q \in Relay, StoreKey(q) \/ FaultStep(q)
      PROVE  store'[StoreOf[p]][u] = store[StoreOf[p]][u]
  BY <1>1, <1>2 DEF StoreKey, FaultStep, StoreUncertain, KeyStoreFails,
                    DatabaseFails, Crash, Fault, Lasting
<1>3. CASE ~ \E q \in Relay : StoreKey(q) \/ FaultStep(q)
  BY <1>3 DEF Next, Step, HandlerStep, vars, Take, ReserveRefused,
              ReserveRead, ReserveWrite, ReserveConflict,
              CheckRequested, EmitRequest, Claim, ClaimIdle, Lookup,
              CompleteRead, CompleteWrite, FailRead, RecordFailure, Settle,
              JobLeaseExpires, JobDue, ChangeEligibility, TaskLeaseExpires,
              TaskDue, Replay
<1> QED BY <1>2, <1>3

\* A relay comes to complete a wallet only with a key from its store.
LEMMA KeyKept ==
  ASSUME Typed, [Next]_vars, NEW p \in Relay, pc'[p] \in {"complete", "write"}
  PROVE  \/ Lookup(p) \/ StoreKey(p)
         \/ /\ pc[p] \in {"complete", "write"}
            /\ key'[p] = key[p] /\ cur'[p] = cur[p]
<1> USE DEF Typed, TypeOK, Goto, Fault
<1> DEFINE Same == /\ pc[p] \in {"complete", "write"}
                   /\ key'[p] = key[p] /\ cur'[p] = cur[p]
<1>1. ASSUME NEW q \in Relay,
             \/ ReserveRefused(q) \/ ReserveRead(q) \/ ReserveWrite(q)
             \/ ReserveConflict(q)
      PROVE  Same
  BY <1>1 DEF ReserveRefused, ReserveRead, ReserveWrite, ReserveConflict
<1>2. ASSUME NEW q \in Relay, CheckRequested(q) \/ EmitRequest(q)
      PROVE  Same
  BY <1>2 DEF CheckRequested, EmitRequest
<1>3. ASSUME NEW q \in Relay,
             (\E t \in Task : Take(q, t)) \/ Settle(q) \/ Crash(q)
      PROVE  Same
  <2>1. CASE \E t \in Task : Take(q, t)
    BY <1>3, <2>1, ZenonT(60) DEF Take
  <2>2. CASE Settle(q)
    BY <1>3, <2>2, ZenonT(60) DEF Settle, Forget
  <2>3. CASE Crash(q)
    BY <1>3, <2>3, ZenonT(60) DEF Forget, Crash
  <2> QED BY <1>3, <2>1, <2>2, <2>3
<1>4. ASSUME NEW q \in Relay, q # p, Lookup(q) \/ StoreKey(q)
      PROVE  Same
  BY <1>4 DEF Lookup, StoreKey
<1>5. ASSUME NEW q \in Relay,
             \/ Claim(q) \/ ClaimIdle(q) \/ CompleteRead(q) \/ CompleteWrite(q)
             \/ FailRead(q) \/ RecordFailure(q)
             \/ StoreUncertain(q) \/ KeyStoreFails(q)
      PROVE  Same
  BY <1>5 DEF Claim, ClaimIdle, CompleteRead, CompleteWrite, FailRead,
              RecordFailure, Answer, StoreUncertain, KeyStoreFails
<1>6. ASSUME NEW q \in Relay, DatabaseFails(q)
      PROVE  Same
  BY <1>6 DEF DatabaseFails, Answer
<1>7. ASSUME \/ UNCHANGED vars
             \/ \E u \in User : JobLeaseExpires(u) \/ JobDue(u)
                                \/ ChangeEligibility(u)
             \/ \E t \in Task : TaskLeaseExpires(t) \/ TaskDue(t) \/ Replay(t)
      PROVE  Same
  BY <1>7 DEF vars, reg, JobLeaseExpires, JobDue, ChangeEligibility,
              TaskLeaseExpires, TaskDue, Replay
<1> QED
  BY <1>1, <1>2, <1>3, <1>4, <1>5, <1>6, <1>7
     DEF Next, Step, HandlerStep, FaultStep

LEMMA MaterialNext ==
  ASSUME Typed, MaterialStored, [Next]_vars
  PROVE  MaterialStored'
<1> SUFFICES ASSUME NEW p \in Relay, pc'[p] \in {"complete", "write"}
             PROVE  /\ key'[p] # NoKey
                    /\ Lasting => store'[StoreOf[p]][cur'[p][1]] = key'[p]
  <2>1. Lasting' = Lasting
    BY KindsStay DEF Lasting
  <2> QED BY <2>1 DEF MaterialStored, Stored, Of
<1>0. StoreOf[p] \in Store
  BY WalletAssumption
<1>1. CASE Lookup(p)
  BY <1>0, <1>1 DEF Lookup, Goto, Stored, Of, Typed, TypeOK
<1>2. CASE StoreKey(p)
  <2>1. PICK k \in Key : store' = Written(p, k)
                         /\ key' = [key EXCEPT ![p] = KeptKey(p, k)]
    BY <1>2 DEF StoreKey
  <2>2. Of(p) \in User /\ cur' = cur
    BY <1>2, JobTypes DEF StoreKey
  <2>3. key'[p] = KeptKey(p, k) /\ KeptKey(p, k) # NoKey
    BY <2>1, WalletAssumption DEF KeptKey, Typed, TypeOK
  <2>4. store'[StoreOf[p]][Of(p)] = KeptKey(p, k)
    BY <1>0, <2>1, <2>2 DEF Written, Typed, TypeOK
  <2> QED BY <2>2, <2>3, <2>4 DEF Of
<1>3. CASE /\ pc[p] \in {"complete", "write"}
           /\ key'[p] = key[p] /\ cur'[p] = cur[p]
  <2>1. Of(p) \in User /\ key[p] # NoKey /\ (Lasting => Stored(p) = key[p])
    BY <1>3, JobTypes DEF MaterialStored
  <2>2. Lasting => store'[StoreOf[p]][Of(p)] = key[p]
    BY <2>1, StoreKept DEF Stored
  <2> QED BY <1>3, <2>1, <2>2 DEF Of
<1> QED BY <1>1, <1>2, <1>3, KeyKept

\* Only CompleteWrite writes a key into a wallet or makes it ACTIVE.
LEMMA WalletKeyKept ==
  ASSUME Typed, [Next]_vars, NEW u \in User,
         \A p \in Relay : CompleteWrite(p) => u # Of(p)
  PROVE  /\ wallet'[u].key = wallet[u].key
         /\ wallet'[u].status = "ACTIVE" => wallet[u].status = "ACTIVE"
<1>0. wallet[u] \in Wallet /\ wallet \in [User -> Wallet]
  BY DEF Typed, TypeOK
<1>1. ASSUME NEW p \in Relay, CompleteWrite(p)
      PROVE  wallet'[u] = wallet[u]
  BY <1>1, RowsWritten
<1>2. ASSUME NEW p \in Relay, ReserveWrite(p) \/ Claim(p) \/ RecordFailure(p)
      PROVE  wallet'[u].key = wallet[u].key
             /\ (wallet'[u].status = "ACTIVE" => wallet[u].status = "ACTIVE")
  <2>1. Of(p) \in User
    BY <1>2, RowsWritten
  <2> QED BY <1>0, <1>2, <2>1 DEF ReserveWrite, Claim, RecordFailure, Wallet
<1>3. CASE \A p \in Relay : ~ReserveWrite(p) /\ ~Claim(p) /\ ~CompleteWrite(p)
                          /\ ~RecordFailure(p)
  BY <1>3, RowsAreStill
<1> QED BY <1>1, <1>2, <1>3

LEMMA KeyNext ==
  ASSUME Typed, MaterialStored, KeyIsHeld, [Next]_vars
  PROVE  KeyIsHeld'
<1> SUFFICES ASSUME NEW u \in User
             PROVE  /\ wallet'[u].status = "ACTIVE" => wallet'[u].key # NoKey
                    /\ wallet'[u].key # NoKey /\ Lasting =>
                         \E q \in Relay : store'[StoreOf[q]][u] = wallet'[u].key
  <2>1. Lasting' = Lasting
    BY KindsStay DEF Lasting
  <2> QED BY <2>1 DEF KeyIsHeld
<1>1. ASSUME NEW p \in Relay, CompleteWrite(p), u = Of(p)
      PROVE  /\ wallet'[u].key # NoKey
             /\ Lasting => store'[StoreOf[p]][u] = wallet'[u].key
  <2>1. wallet'[u].key = key[p] /\ store' = store
    BY <1>1 DEF CompleteWrite, Typed, TypeOK, Wallet
  <2> QED BY <1>1, <2>1 DEF MaterialStored, CompleteWrite, Stored
<1>2. CASE \A p \in Relay : CompleteWrite(p) => u # Of(p)
  <2>1. /\ wallet'[u].key = wallet[u].key
        /\ wallet'[u].status = "ACTIVE" => wallet[u].status = "ACTIVE"
    BY <1>2, WalletKeyKept
  <2>2. ASSUME wallet[u].key # NoKey, Lasting
        PROVE  \E q \in Relay : store'[StoreOf[q]][u] = wallet[u].key
    <3>1. PICK q \in Relay : store[StoreOf[q]][u] = wallet[u].key
      BY <2>2 DEF KeyIsHeld
    <3> QED BY <2>2, <3>1, StoreKept
  <2> QED BY <2>1, <2>2 DEF KeyIsHeld
<1> QED BY <1>1, <1>2

(* With the key stores as they are wired, one in the memory of each        *)
(* process (or in any other way): an ACTIVE wallet always has a key, and   *)
(* while no process dies the key of every wallet is held by the store of   *)
(* some process, whatever answers are lost and however relays overlap.     *)
THEOREM KeysAreHeld == Spec => []KeyIsHeld
<1>1. Init => MaterialStored /\ KeyIsHeld
  BY DEF Init, MaterialStored, KeyIsHeld
<1> QED
  BY <1>1, MaterialNext, KeyNext, TypedAlways, PTL DEF Spec

(* If all relays did share one durable key store, no wallet would ever     *)
(* have a key but the stored one: the property of the wallet run.          *)
LEMMA KeysWouldBeStored == OneDurableStore => (Spec => []KeyIsStored)
<1> SUFFICES ASSUME OneDurableStore PROVE Spec => []KeyIsStored
  OBVIOUS
<1>1. KeyIsHeld => KeyIsStored
  BY WalletAssumption DEF OneDurableStore, Lasting, KeyIsHeld, KeyIsStored
<1> QED
  BY <1>1, KeysAreHeld, PTL
-------------------------------------------------------------------------------
(* No wallet is left to nobody *)

(* While nothing but the key store fails.                                  *)
Quiet == kinds \subseteq {"kms"}

\* The steps of UserCreated's handler before it returns or throws.
Reserving == {"reserve", "create", "check", "emit"}

(* A leased outbox job is in the hands of the relay that leased it, in a   *)
(* place that belongs to its handler.                                      *)
Tended ==
  /\ \A p \in Relay : pc[p] # "idle" =>
       /\ cur[p] \in Task
       /\ task[cur[p]].status = "LEASED" /\ task[cur[p]].token = p /\ ~task[cur[p]].expired
       /\ pc[p] \notin {"revive", "requeue"}
       /\ pc[p] \in Reserving => cur[p][2] = Registered
       /\ pc[p] \in Claimed \cup {"claim"} => cur[p][2] # Registered
  /\ \A p \in Relay : pc[p] = "idle" => cur[p] = NoTask
  /\ \A t \in Task : task[t].status = "LEASED" =>
       /\ task[t].token \in Relay /\ cur[task[t].token] = t

(* A user has one request at most.                                         *)
OneRequest ==
  \A t, s \in Task :
    /\ t[1] = s[1] /\ t[2] # Registered /\ s[2] # Registered
    /\ task[t].status # "NONE" /\ task[s].status # "NONE"
    => t = s

(* What a wallet and its job are before the reservation, after it, while   *)
(* a request is to run and when the wallet has ended.                      *)
Fresh(u) == wallet[u].status = "NONE" /\ job[u] = NoJob /\ ~Requested(u)
Reserved(u) ==
  /\ wallet[u].status = "RESERVED" /\ ~Requested(u)
  /\ job[u].status = "PENDING" /\ job[u].due /\ job[u].attempts = 0
Waiting(u) ==
  /\ wallet[u].status \in {"RESERVED", "RETRYABLE"}
  /\ job[u].status \in {"PENDING", "RETRY"}
  /\ job[u].status = "PENDING" => job[u].due
Ended(u) == wallet[u].status \in {"ACTIVE", "FAILED"}

(* UserCreated's handler: nothing is reserved before it, and a request is  *)
(* there after it.                                                         *)
RegistrationOf(t) ==
  /\ task[t].status # "NONE"
  /\ task[t].status \in {"PENDING", "DEAD_LETTER"} => Fresh(t[1])
  /\ task[t].status = "COMPLETED" => Requested(t[1])
  /\ \A p \in Relay : cur[p] = t =>
       /\ pc[p] \in {"reserve", "create", "throw"} => Fresh(t[1])
       /\ pc[p] \in {"check", "emit"} => Reserved(t[1])
       /\ pc[p] = "return" => Requested(t[1])

(* The other handler: a request that is still to run finds a wallet that   *)
(* waits, by then due; one that has returned leaves a wallet that has ended.*)
ProvisioningOf(t) ==
  /\ task[t].status = "PENDING" =>
       /\ Waiting(t[1]) /\ job[t[1]].attempts <= task[t].attempt
       /\ task[t].due => job[t[1]].due
  /\ task[t].status = "COMPLETED" => Ended(t[1])
  /\ \A p \in Relay : cur[p] = t =>
       /\ pc[p] = "claim" =>
            Waiting(t[1]) /\ job[t[1]].due /\ job[t[1]].attempts <= task[t].attempt
       /\ pc[p] \in Claimed =>
            /\ wallet[t[1]].status = "PROVISIONING" /\ Owns(p) /\ ~job[t[1]].expired
            /\ job[t[1]].attempts <= task[t].attempt + 1
       /\ pc[p] = "throw" => Waiting(t[1]) /\ job[t[1]].attempts <= task[t].attempt + 1
       /\ pc[p] = "return" => Ended(t[1])

\* Whichever handler the outbox job is for.
HandledOf(t) == IF t[2] = Registered THEN RegistrationOf(t) ELSE ProvisioningOf(t)
Handled == \A t \in Task : HandledOf(t)

QuietInv == Tended /\ OneRequest /\ Handled

-------------------------------------------------------------------------------
(* Steps of one relay, or about one user, leave the other users as they are.*)
LEMMA Elsewhere ==
  ASSUME Typed, NEW u \in User,
         \A q \in Relay : (cur[q] \in Task /\ cur[q][1] # u) \/ (cur'[q] \in Task /\ cur'[q][1] # u)
                            => pc'[q] = pc[q] /\ cur'[q] = cur[q],
         \A s \in Task : s[1] # u => task'[s] = task[s],
         \A v \in User : v # u => wallet'[v] = wallet[v] /\ job'[v] = job[v],
         NEW t \in Task, t[1] # u, HandledOf(t)
  PROVE  HandledOf(t)'
<1>1. t[1] \in User /\ task'[t] = task[t]
  BY DEF Task
<1>2. wallet'[t[1]] = wallet[t[1]] /\ job'[t[1]] = job[t[1]]
  BY <1>1
<1>3. Requested(t[1])' = Requested(t[1])
  <2>1. \A s \in Requests(t[1]) : s \in Task /\ s[1] # u
    BY <1>1 DEF Requests, Task
  <2>2. Requests(t[1])' = Requests(t[1])
    BY DEF Requests
  <2> QED BY <2>1, <2>2 DEF Requested
<1>4. \A q \in Relay : cur[q] = t \/ cur'[q] = t => pc'[q] = pc[q] /\ cur'[q] = cur[q]
  OBVIOUS
<1>5. Fresh(t[1])' = Fresh(t[1]) /\ Reserved(t[1])' = Reserved(t[1])
      /\ Waiting(t[1])' = Waiting(t[1]) /\ Ended(t[1])' = Ended(t[1])
  BY <1>2, <1>3 DEF Fresh, Reserved, Waiting, Ended
<1>6. CASE t[2] = Registered
  BY <1>1, <1>3, <1>4, <1>5, <1>6 DEF HandledOf, RegistrationOf
<1>7. CASE t[2] # Registered
  <2>1. ASSUME NEW q \in Relay, cur'[q] = t PROVE Owns(q)' = Owns(q)
    BY <1>2, <1>4, <2>1 DEF Owns, Of
  <2> QED BY <1>1, <1>2, <1>4, <1>5, <1>7, <2>1 DEF HandledOf, ProvisioningOf
<1> QED BY <1>6, <1>7

(* Once a user has a request, UserCreated's handler has nothing more to do.*)
Done(t) ==
  /\ task[t].status \notin {"NONE", "PENDING", "DEAD_LETTER"}
  /\ \A p \in Relay : cur[p] = t => pc[p] \notin {"reserve", "create", "throw", "check", "emit"}

(* So it keeps what is said of it, whatever the request does to the wallet.*)
LEMMA DoneMeans ==
  ASSUME NEW t \in Task, t[2] = Registered
  PROVE  /\ HandledOf(t) /\ Requested(t[1]) => Done(t)
         /\ Done(t) /\ Requested(t[1]) => HandledOf(t)
  BY DEF HandledOf, RegistrationOf, Done, Fresh, Reserved

(* The same after a step.                                                  *)
LEMMA DoneMeansNext ==
  ASSUME NEW t \in Task, t[2] = Registered, Done(t)', Requested(t[1])'
  PROVE  HandledOf(t)'
  BY DEF HandledOf, RegistrationOf, Done, Fresh, Reserved

(* Nobody but its relay has an outbox job in its hands.                    *)
LEMMA Alone ==
  ASSUME Tended, NEW p \in Relay, NEW q \in Relay, cur[p] \in Task, cur[q] = cur[p]
  PROVE  p = q
<1>1. NoTask \notin Task
  BY WalletAssumption DEF Task
<1>2. pc[p] # "idle" /\ pc[q] # "idle"
  BY <1>1 DEF Tended
<1> QED BY <1>2 DEF Tended

(* A step that touches one outbox job of a user at most, the relay that has*)
(* it or takes it, and the rows of that user.                              *)
Touches(t) ==
  /\ \A q \in Relay : (cur[q] \in Task /\ cur[q] # t) \/ (cur'[q] \in Task /\ cur'[q] # t)
                        => pc'[q] = pc[q] /\ cur'[q] = cur[q]
  /\ \A s \in Task : s # t => task'[s] = task[s]
  /\ task[t].status # "NONE" /\ task'[t].status # "NONE"
  /\ \A v \in User : v # t[1] => wallet'[v] = wallet[v] /\ job'[v] = job[v]

(* It leaves the outbox jobs of other users as they are, ...               *)
LEMMA TouchesOther ==
  ASSUME Typed, NEW t \in Task, Touches(t), NEW s \in Task, s[1] # t[1], HandledOf(s)
  PROVE  HandledOf(s)'
<1>1. PICK u \in User : u = t[1]
  BY DEF Task
<1>2. \A q \in Relay : (cur[q] \in Task /\ cur[q][1] # u) \/ (cur'[q] \in Task /\ cur'[q][1] # u)
                         => pc'[q] = pc[q] /\ cur'[q] = cur[q]
  BY <1>1 DEF Touches
<1>3. \A r \in Task : r[1] # u => task'[r] = task[r]
  BY <1>1 DEF Touches
<1>4. \A v \in User : v # u => wallet'[v] = wallet[v] /\ job'[v] = job[v]
  BY <1>1 DEF Touches
<1> QED BY <1>1, <1>2, <1>3, <1>4, Elsewhere

(* ... and makes no request.                                               *)
LEMMA TouchesRequests ==
  ASSUME Typed, OneRequest, NEW t \in Task, Touches(t)
  PROVE  OneRequest' /\ \A u \in User : Requested(u)' = Requested(u)
<1>1. \A s \in Task : task[s].status = "NONE" <=> task'[s].status = "NONE"
  BY DEF Touches
<1>2. OneRequest'
  BY <1>1 DEF OneRequest
<1>3. ASSUME NEW u \in User PROVE Requested(u)' = Requested(u)
  <2>1. \A s \in Requests(u) : s \in Task
    BY DEF Requests, Task
  <2> QED BY <1>1, <2>1 DEF Requested, Requests
<1> QED BY <1>2, <1>3

(* A step on a request, or on the rows of its user.                        *)
LEMMA OnRequest ==
  ASSUME Typed, QuietInv, NEW t \in Task, t[2] # Registered, Touches(t),
         ProvisioningOf(t)'
  PROVE  OneRequest' /\ Handled'
<1>1. NoTask \notin Task
  BY WalletAssumption DEF Task
<1>2. OneRequest' /\ t[1] \in User /\ Requested(t[1]) /\ Requested(t[1])'
  <2>1. t[1] \in User /\ t \in Requests(t[1])
    BY DEF Requests, Task
  <2>2. Requested(t[1])
    BY <2>1 DEF Requested, Touches
  <2> QED BY <2>1, <2>2, TouchesRequests DEF QuietInv
<1>3. ASSUME NEW s \in Task PROVE HandledOf(s)'
  <2>0. HandledOf(s)
    BY DEF QuietInv, Handled
  <2>1. CASE s[1] # t[1]
    BY <2>0, <2>1, TouchesOther
  <2>2. CASE s = t
    BY <2>2 DEF HandledOf
  <2>3. CASE s[1] = t[1] /\ s # t /\ s[2] # Registered
    <3>1. task[s].status = "NONE" /\ task'[s].status = "NONE"
      BY <2>3 DEF QuietInv, OneRequest, Touches
    <3>2. ASSUME NEW q \in Relay PROVE cur[q] # s
      BY <1>1, <3>1 DEF QuietInv, Tended
    <3>3. ASSUME NEW q \in Relay PROVE cur'[q] # s
      BY <2>3, <3>2 DEF Touches
    <3> QED BY <2>3, <3>1, <3>3 DEF HandledOf, ProvisioningOf
  <2>4. CASE s[1] = t[1] /\ s # t /\ s[2] = Registered
    <3>1. Done(s)
      BY <1>2, <2>0, <2>4, DoneMeans
    <3>2. Done(s)'
      <4>1. task'[s] = task[s]
        BY <2>4 DEF Touches
      <4>2. ASSUME NEW q \in Relay, cur'[q] = s PROVE cur[q] = s /\ pc'[q] = pc[q]
        BY <2>4, <4>2 DEF Touches
      <4> QED BY <3>1, <4>1, <4>2 DEF Done
    <3>3. Requested(s[1])'
      BY <1>2, <2>4
    <3> QED BY <2>4, <3>2, <3>3, DoneMeansNext
  <2> QED BY <2>1, <2>2, <2>3, <2>4
<1> QED BY <1>2, <1>3 DEF Handled

(* A step on the outbox job of UserCreated.                                *)
LEMMA OnRegistration ==
  ASSUME Typed, QuietInv, NEW t \in Task, t[2] = Registered, Touches(t),
         Requested(t[1]) => wallet'[t[1]] = wallet[t[1]] /\ job'[t[1]] = job[t[1]],
         RegistrationOf(t)'
  PROVE  OneRequest' /\ Handled'
<1>1. NoTask \notin Task
  BY WalletAssumption DEF Task
<1>2. OneRequest' /\ t[1] \in User
  BY TouchesRequests DEF QuietInv, Task
<1>3. ASSUME NEW s \in Task PROVE HandledOf(s)'
  <2>0. HandledOf(s)
    BY DEF QuietInv, Handled
  <2>1. CASE s[1] # t[1]
    BY <2>0, <2>1, TouchesOther
  <2>2. CASE s = t
    BY <2>2 DEF HandledOf
  <2>3. CASE s[1] = t[1] /\ s # t
    <3>0. s[2] # Registered /\ s \in Requests(t[1])
      BY <2>3 DEF Task, Requests
    <3>1. task'[s] = task[s]
      BY <2>3 DEF Touches
    <3>2. \A q \in Relay : cur'[q] = s => cur[q] = s /\ pc'[q] = pc[q]
      BY <2>3 DEF Touches
    <3>3. CASE Requested(t[1])
      <4>1. wallet'[s[1]] = wallet[s[1]] /\ job'[s[1]] = job[s[1]]
        BY <2>3, <3>3
      <4>2. Waiting(s[1])' = Waiting(s[1]) /\ Ended(s[1])' = Ended(s[1])
        BY <4>1 DEF Waiting, Ended
      <4>3. \A q \in Relay : cur'[q] = s => Owns(q)' = Owns(q)
        BY <3>2, <4>1 DEF Owns, Of
      <4> QED BY <2>0, <3>0, <3>1, <3>2, <4>1, <4>2, <4>3 DEF HandledOf, ProvisioningOf
    <3>4. CASE ~Requested(t[1])
      <4>1. task[s].status = "NONE"
        BY <3>0, <3>4 DEF Requested
      <4>2. \A q \in Relay : cur[q] # s
        BY <1>1, <4>1 DEF QuietInv, Tended
      <4> QED BY <3>0, <3>1, <3>2, <4>1, <4>2 DEF HandledOf, ProvisioningOf
    <3> QED BY <3>3, <3>4
  <2> QED BY <2>1, <2>2, <2>3
<1> QED BY <1>2, <1>3 DEF Handled

(* A step that hands no outbox job over keeps the relays' hands.           *)
LEMMA TendedStays ==
  ASSUME Typed, Tended, cur' = cur,
         \A s \in Task :
           \/ /\ task'[s].status = task[s].status
              /\ task'[s].token = task[s].token
              /\ task'[s].expired = task[s].expired
           \/ task[s].status # "LEASED" /\ task'[s].status # "LEASED",
         \A q \in Relay :
           \/ pc'[q] = pc[q]
           \/ /\ pc[q] # "idle" /\ pc'[q] \notin {"idle", "revive", "requeue"}
              /\ pc'[q] \in Reserving => cur[q][2] = Registered
              /\ pc'[q] \in Claimed \cup {"claim"} => cur[q][2] # Registered
  PROVE  Tended'
<1>1. ASSUME NEW q \in Relay, pc'[q] # "idle"
      PROVE  /\ cur[q] \in Task
             /\ task'[cur[q]].status = "LEASED" /\ task'[cur[q]].token = q
             /\ ~task'[cur[q]].expired
             /\ pc'[q] \notin {"revive", "requeue"}
             /\ pc'[q] \in Reserving => cur[q][2] = Registered
             /\ pc'[q] \in Claimed \cup {"claim"} => cur[q][2] # Registered
  <2>1. pc[q] # "idle"
    BY <1>1
  <2>2. cur[q] \in Task /\ task[cur[q]].status = "LEASED" /\ task[cur[q]].token = q
        /\ ~task[cur[q]].expired
    BY <2>1 DEF Tended
  <2> QED BY <1>1, <2>1, <2>2 DEF Tended
<1>2. ASSUME NEW q \in Relay, pc'[q] = "idle" PROVE cur[q] = NoTask
  BY <1>2 DEF Tended
<1>3. ASSUME NEW s \in Task, task'[s].status = "LEASED"
      PROVE  task'[s].token \in Relay /\ cur[task'[s].token] = s
  BY <1>3 DEF Tended
<1>4. Claimed' = Claimed /\ Reserving' = Reserving
  BY DEF Claimed, Reserving
<1> QED BY <1>1, <1>2, <1>3, <1>4 DEF Tended

(* What a relay that is not idle has in its hands.                         *)
LEMMA Grip ==
  ASSUME Typed, QuietInv, NEW p \in Relay, pc[p] # "idle"
  PROVE  /\ cur[p] \in Task /\ Of(p) = cur[p][1] /\ Of(p) \in User
         /\ task[cur[p]].status = "LEASED" /\ task[cur[p]].token = p
         /\ ~task[cur[p]].expired
         /\ HandledOf(cur[p])
         /\ \A q \in Relay : cur[q] = cur[p] => q = p
         /\ NoTask \notin Task
<1>1. cur[p] \in Task /\ task[cur[p]].status = "LEASED" /\ task[cur[p]].token = p
      /\ ~task[cur[p]].expired
  BY DEF QuietInv, Tended
<1>2. Of(p) = cur[p][1] /\ Of(p) \in User
  BY <1>1 DEF Of, Task
<1>3. HandledOf(cur[p])
  BY <1>1 DEF QuietInv, Handled
<1>4. \A q \in Relay : cur[q] = cur[p] => q = p
  BY <1>1, Alone DEF QuietInv
<1> QED BY <1>1, <1>2, <1>3, <1>4, WalletAssumption DEF Task

(* A step of a relay's handler touches what the relay has in its hands.    *)
LEMMA GripTouches ==
  ASSUME Typed, QuietInv, NEW p \in Relay, NEW t \in Task, pc[p] # "idle", cur[p] = t,
         NEW l, Goto(p, l), cur'[p] \in {t, NoTask},
         \A q \in Relay : q # p => cur'[q] = cur[q],
         \A s \in Task : s # t => task'[s] = task[s],
         task'[t].status # "NONE",
         \A v \in User : v # t[1] => wallet'[v] = wallet[v] /\ job'[v] = job[v]
  PROVE  Touches(t)
<1>1. NoTask \notin Task /\ task[t].status = "LEASED"
  BY Grip
<1>2. \A q \in Relay : q # p => pc'[q] = pc[q]
  BY DEF Goto, Typed, TypeOK
<1> QED BY <1>1, <1>2 DEF Touches

(* A step of the provisioning handler that writes no row: where it goes.   *)
Quietly(p) ==
  /\ pc[p] \in Claimed
  /\ \E l \in Claimed : Goto(p, l)
  /\ UNCHANGED <<wallet, job, task, cur>>

(* Such a step keeps the claimed wallet as it is.                          *)
LEMMA QuietlyRequest ==
  ASSUME Typed, QuietInv, NEW p \in Relay, Quietly(p)
  PROVE  QuietInv'
<1>0. pc[p] # "idle" /\ pc[p] \in Claimed
  BY DEF Quietly, Claimed
<1>1. PICK l \in Claimed : Goto(p, l)
  BY DEF Quietly
<1>2. pc'[p] = l /\ l \notin {"idle", "revive", "requeue", "claim", "throw", "return"} \cup Reserving
      /\ \A q \in Relay : q # p => pc'[q] = pc[q]
  BY <1>1 DEF Goto, Typed, TypeOK, Claimed, Reserving
<1>3. PICK t \in Task : t = cur[p] /\ t[2] # Registered /\ HandledOf(t)
                        /\ \A q \in Relay : cur[q] = t => q = p
  <2>1. cur[p][2] # Registered
    BY <1>0 DEF QuietInv, Tended
  <2> QED BY <1>0, <2>1, Grip
<1>4. UNCHANGED <<wallet, job, task, cur>>
  BY DEF Quietly
<1>5. Tended'
  BY <1>0, <1>2, <1>3, <1>4, TendedStays DEF QuietInv
<1>6. ProvisioningOf(t)'
  <2>1. Waiting(t[1])' = Waiting(t[1]) /\ Ended(t[1])' = Ended(t[1]) /\ Owns(p)' = Owns(p)
    BY <1>4 DEF Waiting, Ended, Owns, Of
  <2>2. ProvisioningOf(t)
    BY <1>3 DEF HandledOf
  <2>3. Claimed' = Claimed
    BY DEF Claimed
  <2> QED BY <1>0, <1>1, <1>2, <1>3, <1>4, <2>1, <2>2, <2>3 DEF ProvisioningOf
<1>7. Touches(t)
  <2>1. task[t].status # "NONE"
    BY <1>0, <1>3, Grip
  <2> QED BY <1>0, <1>1, <1>3, <1>4, <2>1, GripTouches
<1> QED BY <1>3, <1>5, <1>6, <1>7, OnRequest DEF QuietInv

(* The wallet that a relay has claimed is its own.                         *)
LEMMA ClaimedIs ==
  ASSUME Typed, QuietInv, NEW p \in Relay, pc[p] \in Claimed
  PROVE  /\ wallet[Of(p)].status = "PROVISIONING" /\ Owns(p) /\ ~job[Of(p)].expired
         /\ job[Of(p)].attempts <= task[cur[p]].attempt + 1
<1>1. pc[p] # "idle"
  BY DEF Claimed
<1>2. cur[p][2] # Registered
  BY <1>1 DEF QuietInv, Tended
<1>3. ProvisioningOf(cur[p]) /\ cur[p] \in Task /\ Of(p) = cur[p][1]
  BY <1>1, <1>2, Grip DEF HandledOf
<1> QED BY <1>3 DEF ProvisioningOf

(* The key store may fail and its answers may be lost; neither complete nor*)
(* recordFailure finds that the claim is another's.                        *)
LEMMA QuietlyStep ==
  ASSUME Typed, QuietInv, NEW p \in Relay,
         \/ Lookup(p) \/ StoreKey(p) \/ StoreUncertain(p) \/ KeyStoreFails(p)
         \/ CompleteRead(p) \/ FailRead(p)
  PROVE  QuietInv'
<1>1. CASE Lookup(p) \/ StoreKey(p) \/ StoreUncertain(p) \/ KeyStoreFails(p)
  <2>1. Quietly(p)
    BY <1>1 DEF Lookup, StoreKey, StoreUncertain, KeyStoreFails, Quietly, Claimed
  <2> QED BY <2>1, QuietlyRequest
<1>2. CASE CompleteRead(p) \/ FailRead(p)
  <2>1. pc[p] \in Claimed
    BY <1>2 DEF CompleteRead, FailRead, Claimed
  <2>2. wallet[Of(p)].status # "ACTIVE" /\ Owns(p)
    BY <2>1, ClaimedIs
  <2>3. Quietly(p)
    BY <1>2, <2>1, <2>2 DEF CompleteRead, FailRead, Quietly, Claimed
  <2> QED BY <2>3, QuietlyRequest
<1> QED BY <1>1, <1>2

(* A step of the provisioning handler that writes the wallet and its job.  *)
LEMMA RequestMoves ==
  ASSUME Typed, QuietInv, NEW p \in Relay, pc[p] \in Claimed \cup {"claim"},
         NEW l \in Pc, Goto(p, l), l \in Claimed \cup {"throw", "return"},
         task' = task, cur' = cur,
         \A v \in User : v # Of(p) => wallet'[v] = wallet[v] /\ job'[v] = job[v],
         l = "throw" => /\ Waiting(Of(p))'
                        /\ job'[Of(p)].attempts <= task[cur[p]].attempt + 1,
         l = "return" => Ended(Of(p))',
         l \in Claimed =>
           /\ wallet'[Of(p)].status = "PROVISIONING"
           /\ job'[Of(p)].status = "PROCESSING" /\ job'[Of(p)].token = p
           /\ ~job'[Of(p)].expired
           /\ job'[Of(p)].attempts <= task[cur[p]].attempt + 1
  PROVE  QuietInv'
<1>0. pc[p] # "idle"
  BY DEF Claimed
<1>2. pc'[p] = l /\ l \notin {"idle", "revive", "requeue", "claim"} \cup Reserving
      /\ \A q \in Relay : q # p => pc'[q] = pc[q]
  BY DEF Goto, Typed, TypeOK, Claimed, Reserving
<1>3. PICK t \in Task : /\ t = cur[p] /\ t[2] # Registered /\ Of(p) = t[1]
                        /\ task[t].status = "LEASED"
                        /\ \A q \in Relay : cur[q] = t => q = p
  <2>1. cur[p][2] # Registered
    BY <1>0 DEF QuietInv, Tended
  <2> QED BY <1>0, <2>1, Grip
<1>4. PICK u : u = Of(p) /\ u = t[1]
  BY <1>3
<1>5. Tended'
  BY <1>0, <1>2, <1>3, TendedStays DEF QuietInv
<1>6. ProvisioningOf(t)'
  <2>0. Of(p)' = u
    BY <1>4 DEF Of
  <2>1. l = "throw" => Waiting(u)' /\ job'[u].attempts <= task[t].attempt + 1
    BY <1>3, <1>4, <2>0 DEF Waiting
  <2>2. l = "return" => Ended(u)'
    BY <1>4, <2>0 DEF Ended
  <2>3. l \in Claimed =>
          /\ wallet'[u].status = "PROVISIONING" /\ Owns(p)' /\ ~job'[u].expired
          /\ job'[u].attempts <= task[t].attempt + 1
    BY <1>3, <1>4 DEF Owns, Of
  <2>4. Claimed' = Claimed
    BY DEF Claimed
  <2> QED BY <1>2, <1>3, <1>4, <2>1, <2>2, <2>3, <2>4 DEF ProvisioningOf
<1>7. Touches(t)
  BY <1>0, <1>3, GripTouches
<1> QED BY <1>3, <1>5, <1>6, <1>7, OnRequest DEF QuietInv

(* A relay that is about to claim finds a job to claim.                    *)
LEMMA ClaimFinds ==
  ASSUME Typed, QuietInv, NEW p \in Relay, pc[p] = "claim"
  PROVE  /\ Waiting(Of(p)) /\ job[Of(p)].due
         /\ job[Of(p)].attempts <= task[cur[p]].attempt /\ Claimable(Of(p))
<1>1. cur[p][2] # Registered
  BY DEF QuietInv, Tended
<1>2. ProvisioningOf(cur[p]) /\ cur[p] \in Task /\ Of(p) = cur[p][1]
  BY <1>1, Grip DEF HandledOf
<1> QED BY <1>2 DEF ProvisioningOf, Waiting, Claimable

(* The claim, the completion and the recorded failure: a wallet whose      *)
(* request is thrown back waits again, one whose request returns has ended.*)
LEMMA RequestWrites ==
  ASSUME Typed, QuietInv, NEW p \in Relay,
         Claim(p) \/ ClaimIdle(p) \/ CompleteWrite(p) \/ RecordFailure(p)
  PROVE  QuietInv'
<1>0. pc[p] # "idle" /\ pc[p] \in Claimed \cup {"claim"}
  BY DEF Claim, ClaimIdle, CompleteWrite, RecordFailure, Claimed
<1>1. /\ Of(p) \in User /\ cur[p] \in Task /\ wallet[Of(p)] \in Wallet /\ job[Of(p)] \in Job
      /\ task[cur[p]] \in OutboxJob
      /\ wallet \in [User -> Wallet] /\ job \in [User -> Job]
  BY <1>0, Grip DEF Typed, TypeOK
<1>2. CASE Claim(p)
  <2>1. job[Of(p)].attempts <= task[cur[p]].attempt
    BY <1>2, ClaimFinds DEF Claim
  <2>2. job[Of(p)].attempts + 1 <= task[cur[p]].attempt + 1
    BY <1>1, <2>1 DEF Job, OutboxJob
  <2>3. /\ wallet'[Of(p)].status = "PROVISIONING"
        /\ job'[Of(p)].status = "PROCESSING" /\ job'[Of(p)].token = p
        /\ ~job'[Of(p)].expired
        /\ job'[Of(p)].attempts = job[Of(p)].attempts + 1
        /\ \A v \in User : v # Of(p) => wallet'[v] = wallet[v] /\ job'[v] = job[v]
    BY <1>1, <1>2 DEF Claim, Job, Wallet
  <2> QED BY <1>0, <1>2, <2>2, <2>3, RequestMoves DEF Claim, Claimed, Pc
<1>3. CASE ClaimIdle(p)
  BY <1>3, ClaimFinds DEF ClaimIdle
<1>4. CASE CompleteWrite(p)
  <2>1. /\ wallet'[Of(p)].status = "ACTIVE"
        /\ \A v \in User : v # Of(p) => wallet'[v] = wallet[v] /\ job'[v] = job[v]
    BY <1>1, <1>4 DEF CompleteWrite
  <2>2. Ended(Of(p))'
    BY <1>4, <2>1 DEF CompleteWrite, Ended, Of
  <2> QED BY <1>0, <1>4, <2>1, <2>2, RequestMoves DEF CompleteWrite, Claimed, Pc
<1>5. CASE RecordFailure(p)
  <2>0. pc[p] \in Claimed /\ cur' = cur /\ task' = task
    BY <1>5 DEF RecordFailure, Claimed
  <2>1. job[Of(p)].attempts <= task[cur[p]].attempt + 1
    BY <2>0, ClaimedIs
  <2>2. /\ wallet'[Of(p)].status = IF Terminal(p) THEN "FAILED" ELSE "RETRYABLE"
        /\ job'[Of(p)].status = IF Terminal(p) THEN "DEAD_LETTER" ELSE "RETRY"
        /\ job'[Of(p)].attempts = job[Of(p)].attempts
        /\ \A v \in User : v # Of(p) => wallet'[v] = wallet[v] /\ job'[v] = job[v]
    BY <1>1, <1>5 DEF RecordFailure, FailedJob, Job, Wallet
  <2>3. Of(p)' = Of(p)
    BY <2>0 DEF Of
  <2>4. CASE Terminal(p)
    <3>1. Ended(Of(p))' /\ Goto(p, "return")
      BY <1>5, <2>2, <2>3, <2>4 DEF Ended, RecordFailure, Answer
    <3> QED BY <1>0, <2>0, <2>2, <3>1, RequestMoves DEF Claimed, Pc
  <2>5. CASE ~Terminal(p)
    <3>1. Waiting(Of(p))' /\ Goto(p, "throw")
      BY <1>5, <2>2, <2>3, <2>5 DEF Waiting, RecordFailure, Answer
    <3> QED BY <1>0, <2>0, <2>1, <2>2, <3>1, RequestMoves DEF Claimed, Pc
  <2> QED BY <2>4, <2>5
<1> QED BY <1>2, <1>3, <1>4, <1>5

(* What UserCreated's handler has found or left at each of its steps.      *)
LEMMA RegistrationIs ==
  ASSUME Typed, QuietInv, NEW p \in Relay, pc[p] \in Reserving
  PROVE  /\ RegistrationOf(cur[p])
         /\ pc[p] \in {"reserve", "create"} => Fresh(Of(p))
         /\ pc[p] \in {"check", "emit"} => Reserved(Of(p))
<1>1. pc[p] # "idle"
  BY DEF Reserving
<1>2. cur[p][2] = Registered
  BY <1>1 DEF QuietInv, Tended
<1>3. RegistrationOf(cur[p]) /\ cur[p] \in Task /\ Of(p) = cur[p][1]
  BY <1>1, <1>2, Grip DEF HandledOf
<1> QED BY <1>3 DEF RegistrationOf

(* A step of UserCreated's handler that makes no request.                  *)
LEMMA RegistrationMoves ==
  ASSUME Typed, QuietInv, NEW p \in Relay, pc[p] \in Reserving,
         NEW l \in Pc, Goto(p, l), l \in Reserving \cup {"throw"},
         task' = task, cur' = cur,
         \A v \in User : v # Of(p) => wallet'[v] = wallet[v] /\ job'[v] = job[v],
         l \in {"reserve", "create", "throw"} =>
           wallet'[Of(p)].status = "NONE" /\ job'[Of(p)] = NoJob,
         l \in {"check", "emit"} =>
           /\ wallet'[Of(p)].status = "RESERVED"
           /\ job'[Of(p)].status = "PENDING" /\ job'[Of(p)].due
           /\ job'[Of(p)].attempts = 0
  PROVE  QuietInv'
<1>0. pc[p] # "idle"
  BY DEF Reserving
<1>2. pc'[p] = l /\ l \notin {"idle", "revive", "requeue", "claim", "return"} \cup Claimed
      /\ \A q \in Relay : q # p => pc'[q] = pc[q]
  BY DEF Goto, Typed, TypeOK, Claimed, Reserving
<1>3. PICK t \in Task : /\ t = cur[p] /\ t[2] = Registered /\ Of(p) = t[1]
                        /\ task[t].status = "LEASED"
                        /\ \A q \in Relay : cur[q] = t => q = p
  <2>1. cur[p][2] = Registered
    BY <1>0 DEF QuietInv, Tended
  <2> QED BY <1>0, <2>1, Grip
<1>4. PICK u \in User : u = Of(p) /\ u = t[1]
  BY <1>0, <1>3, Grip
<1>5. Tended'
  BY <1>0, <1>2, <1>3, TendedStays DEF QuietInv
<1>7. Touches(t)
  BY <1>0, <1>3, GripTouches
<1>8. ~Requested(u) /\ ~Requested(u)'
  <2>1. ~Requested(u)
    BY <1>4, RegistrationIs DEF Fresh, Reserved, Reserving
  <2> QED BY <1>7, <2>1, TouchesRequests DEF QuietInv
<1>9. RegistrationOf(t)'
  <2>1. l \in {"reserve", "create", "throw"} => Fresh(u)'
    BY <1>4, <1>8 DEF Fresh
  <2>2. l \in {"check", "emit"} => Reserved(u)'
    BY <1>4, <1>8 DEF Reserved
  <2> QED BY <1>2, <1>3, <1>4, <2>1, <2>2 DEF RegistrationOf
<1> QED BY <1>3, <1>4, <1>5, <1>7, <1>8, <1>9, OnRegistration DEF QuietInv

(* UserCreated's handler up to its request: it finds no wallet, reserves   *)
(* one and finds no request.                                               *)
LEMMA RegistrationStep ==
  ASSUME Typed, QuietInv, NEW p \in Relay,
         \/ ReserveRefused(p) \/ ReserveRead(p) \/ ReserveWrite(p)
         \/ ReserveConflict(p) \/ CheckRequested(p)
  PROVE  QuietInv'
<1>0. pc[p] # "idle" /\ pc[p] \in Reserving
  <2>1. pc[p] # "idle"
    BY DEF ReserveRefused, ReserveRead, ReserveWrite, ReserveConflict, CheckRequested
  <2>2. pc[p] \notin {"revive", "requeue"}
    BY <2>1 DEF QuietInv, Tended
  <2> QED BY <2>1, <2>2 DEF Reserving, ReserveRefused, ReserveRead, ReserveWrite,
             ReserveConflict, CheckRequested
<1>1. /\ Of(p) \in User /\ wallet[Of(p)] \in Wallet /\ job[Of(p)] \in Job
      /\ wallet \in [User -> Wallet] /\ job \in [User -> Job]
  BY <1>0, Grip DEF Typed, TypeOK
<1>2. CASE ReserveRefused(p) \/ ReserveRead(p) \/ ReserveConflict(p)
  <2>1. Fresh(Of(p)) /\ UNCHANGED <<wallet, job, task, cur>>
    BY <1>0, <1>2, RegistrationIs DEF ReserveRefused, ReserveRead, ReserveConflict
  <2>2. \E l \in {"create", "throw"} : Goto(p, l)
    BY <1>2, <2>1 DEF ReserveRefused, ReserveRead, ReserveConflict, Fresh
  <2> QED BY <1>0, <2>1, <2>2, RegistrationMoves DEF Fresh, Reserving, Pc
<1>3. CASE ReserveWrite(p)
  <2>1. pc[p] = "create" /\ Fresh(Of(p))
    BY <1>0, <1>3, RegistrationIs DEF ReserveWrite, Reserving
  <2>2. /\ wallet'[Of(p)].status = "RESERVED" /\ job'[Of(p)] = RequeuedJob(Of(p))
        /\ \A v \in User : v # Of(p) => wallet'[v] = wallet[v] /\ job'[v] = job[v]
    BY <1>1, <1>3, <2>1 DEF ReserveWrite, Wallet
  <2>3. /\ job'[Of(p)].status = "PENDING" /\ job'[Of(p)].due /\ job'[Of(p)].attempts = 0
    BY <2>1, <2>2 DEF Fresh, RequeuedJob, NoJob
  <2> QED BY <1>0, <1>3, <2>2, <2>3, RegistrationMoves DEF ReserveWrite, Reserving, Pc
<1>4. CASE CheckRequested(p)
  <2>1. Reserved(Of(p)) /\ UNCHANGED <<wallet, job, task, cur>>
    BY <1>0, <1>4, RegistrationIs DEF CheckRequested
  <2>2. Goto(p, "emit")
    BY <1>4, <2>1 DEF CheckRequested, Reserved
  <2> QED BY <1>0, <2>1, <2>2, RegistrationMoves DEF Reserved, Reserving, Pc
<1> QED BY <1>2, <1>3, <1>4

(* The request is the first of its user, and finds the reservation that was*)
(* written before it.                                                      *)
LEMMA RequestMade ==
  ASSUME Typed, QuietInv, NEW p \in Relay, EmitRequest(p)
  PROVE  QuietInv'
<1>0. pc[p] = "emit" /\ pc[p] # "idle" /\ pc[p] \in Reserving
  BY DEF EmitRequest, Reserving
<1>1. PICK t \in Task : /\ t = cur[p] /\ t[2] = Registered /\ Of(p) = t[1]
                        /\ task[t].status = "LEASED"
                        /\ \A q \in Relay : cur[q] = t => q = p
  <2>1. cur[p][2] = Registered
    BY <1>0 DEF QuietInv, Tended
  <2> QED BY <1>0, <2>1, Grip
<1>2. PICK u \in User : u = Of(p) /\ u = t[1]
  BY <1>0, <1>1, Grip
<1>3. PICK r \in Task : r = <<u, p>> /\ r[1] = u /\ r[2] # Registered /\ r \in Requests(u)
  <2>1. <<u, p>> \in Task /\ <<u, p>> \in Requests(u)
    BY DEF Task, Requests
  <2>2. <<u, p>>[1] = u /\ <<u, p>>[2] # Registered
    BY WalletAssumption
  <2> QED BY <2>1, <2>2
<1>4. Reserved(u) /\ RegistrationOf(t)
  BY <1>0, <1>1, <1>2, RegistrationIs
<1>5. \A s \in Task : s[1] = u /\ s[2] # Registered => task[s].status = "NONE"
  <2>1. \A s \in Task : s[1] = u /\ s[2] # Registered => s \in Requests(u)
    BY DEF Task, Requests
  <2> QED BY <1>4, <2>1 DEF Reserved, Requested
<1>6. /\ task' = [task EXCEPT ![r].status = "PENDING"]
      /\ UNCHANGED <<wallet, job, cur>>
      /\ pc'[p] = "return" /\ \A q \in Relay : q # p => pc'[q] = pc[q]
  BY <1>2, <1>3 DEF EmitRequest, Goto, Typed, TypeOK
<1>7. /\ task[r] \in OutboxJob /\ task'[r].status = "PENDING"
      /\ task'[r].attempt = task[r].attempt
      /\ \A s \in Task : s # r => task'[s] = task[s]
  BY <1>3, <1>6 DEF Typed, TypeOK, OutboxJob
<1>8. NoTask \notin Task /\ \A q \in Relay : cur[q] # r
  <2>1. NoTask \notin Task
    BY WalletAssumption DEF Task
  <2> QED BY <1>3, <1>5, <2>1 DEF QuietInv, Tended
<1>9. Tended'
  <2>1. task[r].status = "NONE"
    BY <1>3, <1>4 DEF Reserved, Requested
  <2>2. \A s \in Task :
          \/ task'[s] = task[s]
          \/ task[s].status # "LEASED" /\ task'[s].status # "LEASED"
    BY <1>7, <2>1
  <2>3. \A q \in Relay :
          \/ pc'[q] = pc[q]
          \/ pc[q] # "idle" /\ pc'[q] = "return"
    BY <1>0, <1>6
  <2>4. "return" \notin {"idle", "revive", "requeue", "claim"} \cup Reserving \cup Claimed
    BY DEF Reserving, Claimed
  <2> QED BY <1>6, <2>2, <2>3, <2>4, TendedStays DEF QuietInv
<1>10. OneRequest'
  <2> SUFFICES ASSUME NEW a \in Task, NEW b \in Task, a[1] = b[1],
                      a[2] # Registered, b[2] # Registered,
                      task'[a].status # "NONE", task'[b].status # "NONE"
               PROVE  a = b
    BY DEF OneRequest
  <2>1. CASE a[1] = u
    BY <1>5, <1>7, <2>1
  <2>2. CASE a[1] # u
    <3>1. task'[a] = task[a] /\ task'[b] = task[b]
      BY <1>3, <1>7, <2>2
    <3> QED BY <3>1 DEF QuietInv, OneRequest
  <2> QED BY <2>1, <2>2
<1>11. ASSUME NEW s \in Task PROVE HandledOf(s)'
  <2>0. HandledOf(s)
    BY DEF QuietInv, Handled
  <2>1. CASE s[1] # u
    <3>1. \A q \in Relay : (cur[q] \in Task /\ cur[q][1] # u) \/ (cur'[q] \in Task /\ cur'[q][1] # u)
                             => pc'[q] = pc[q] /\ cur'[q] = cur[q]
      BY <1>1, <1>2, <1>6
    <3>2. \A x \in Task : x[1] # u => task'[x] = task[x]
      BY <1>3, <1>7
    <3> QED BY <1>6, <2>0, <2>1, <3>1, <3>2, Elsewhere
  <2>2. CASE s = t
    <3>1. Requested(u)'
      BY <1>3, <1>7 DEF Requested, Requests
    <3> QED BY <1>1, <1>2, <1>3, <1>6, <1>7, <2>2, <3>1 DEF HandledOf, RegistrationOf
  <2>3. CASE s = r
    <3>1. Waiting(u)' /\ job'[u].due /\ job'[u].attempts <= task'[r].attempt
      BY <1>4, <1>6, <1>7 DEF Waiting, Reserved, OutboxJob
    <3> QED BY <1>3, <1>6, <1>7, <1>8, <2>3, <3>1 DEF HandledOf, ProvisioningOf
  <2>4. CASE s[1] = u /\ s # t /\ s # r
    <3>1. s[2] # Registered /\ task[s].status = "NONE" /\ task'[s] = task[s]
      BY <1>1, <1>2, <1>5, <1>7, <2>4 DEF Task
    <3>2. \A q \in Relay : cur'[q] # s
      BY <1>6, <1>8, <3>1 DEF QuietInv, Tended
    <3> QED BY <3>1, <3>2 DEF HandledOf, ProvisioningOf
  <2> QED BY <2>1, <2>2, <2>3, <2>4
<1> QED BY <1>9, <1>10, <1>11 DEF QuietInv, Handled

(* The relay settles an outbox job whose lease it still has.               *)
LEMMA SettleStep ==
  ASSUME Typed, QuietInv, NEW p \in Relay, Settle(p)
  PROVE  QuietInv'
<1>0. pc[p] # "idle" /\ pc[p] \in {"return", "throw"}
  BY DEF Settle
<1>1. PICK t \in Task : /\ t = cur[p] /\ Of(p) = t[1] /\ HandledOf(t)
                        /\ task[t].status = "LEASED" /\ task[t].token = p
                        /\ \A q \in Relay : cur[q] = t => q = p
                        /\ NoTask \notin Task
  BY <1>0, Grip
<1>2. /\ task[t] \in OutboxJob
      /\ \A s \in Task : s # t => task'[s] = task[s]
      /\ task'[t] = IF pc[p] = "throw" THEN FailedTask(t)
                    ELSE [task[t] EXCEPT !.status = "COMPLETED", !.token = NoRelay,
                                         !.expired = FALSE]
  BY <1>1 DEF Settle, Typed, TypeOK
<1>3. /\ pc[p] = "throw" => \/ task'[t].status = "DEAD_LETTER"
                            \/ /\ task'[t].status = "PENDING" /\ ~task'[t].due
                               /\ task'[t].attempt = task[t].attempt + 1
      /\ pc[p] = "return" => task'[t].status = "COMPLETED"
  BY <1>2 DEF FailedTask, OutboxJob
<1>4. /\ UNCHANGED <<wallet, job>>
      /\ pc' = [pc EXCEPT ![p] = "idle"] /\ cur' = [cur EXCEPT ![p] = NoTask]
      /\ pc'[p] = "idle" /\ cur'[p] = NoTask
      /\ \A q \in Relay : q # p => pc'[q] = pc[q] /\ cur'[q] = cur[q]
  BY DEF Settle, Forget, Goto, Typed, TypeOK
<1>5. Touches(t)
  BY <1>0, <1>1, <1>2, <1>3, <1>4, GripTouches DEF Goto
<1>6. \A q \in Relay : cur'[q] # t
  BY <1>1, <1>4
<1>7. Tended'
  <2>1. ASSUME NEW q \in Relay, pc'[q] # "idle"
        PROVE  q # p /\ pc[q] # "idle" /\ cur[q] \in Task /\ cur[q] # t
    BY <1>1, <1>4, <2>1 DEF QuietInv, Tended
  <2>2. ASSUME NEW q \in Relay, pc'[q] = "idle" PROVE cur'[q] = NoTask
    BY <1>4, <2>2 DEF QuietInv, Tended
  <2>3. ASSUME NEW s \in Task, task'[s].status = "LEASED"
        PROVE  task'[s].token \in Relay /\ cur'[task'[s].token] = s
    <3>1. s # t
      BY <1>0, <1>3, <2>3
    <3>2. task'[s] = task[s] /\ task[s].token \in Relay /\ cur[task[s].token] = s
      BY <1>2, <2>3, <3>1 DEF QuietInv, Tended
    <3> QED BY <1>1, <1>4, <3>1, <3>2
  <2>4. ASSUME NEW q \in Relay, pc'[q] # "idle"
        PROVE  /\ cur'[q] \in Task
               /\ task'[cur'[q]].status = "LEASED" /\ task'[cur'[q]].token = q
               /\ ~task'[cur'[q]].expired
               /\ pc'[q] \notin {"revive", "requeue"}
               /\ pc'[q] \in Reserving => cur'[q][2] = Registered
               /\ pc'[q] \in Claimed \cup {"claim"} => cur'[q][2] # Registered
    <3>1. q # p /\ pc[q] # "idle" /\ cur[q] \in Task /\ cur[q] # t
      BY <2>1, <2>4
    <3>2. cur'[q] = cur[q] /\ pc'[q] = pc[q] /\ task'[cur[q]] = task[cur[q]]
      BY <1>2, <1>4, <3>1
    <3> QED BY <3>1, <3>2 DEF QuietInv, Tended
  <2>5. Claimed' = Claimed /\ Reserving' = Reserving
    BY DEF Claimed, Reserving
  <2> QED BY <2>2, <2>3, <2>4, <2>5 DEF Tended
<1>8. CASE t[2] = Registered
  <2>1. RegistrationOf(t)
    BY <1>1, <1>8 DEF HandledOf
  <2>2. Requested(t[1])' = Requested(t[1])
    BY <1>5, TouchesRequests DEF QuietInv, Task
  <2>3. Fresh(t[1])' = Fresh(t[1])
    BY <1>4, <2>2 DEF Fresh
  <2>4. pc[p] = "throw" => Fresh(t[1])'
    BY <1>1, <2>1, <2>3 DEF RegistrationOf
  <2>5. pc[p] = "return" => Requested(t[1])'
    BY <1>1, <2>1, <2>2 DEF RegistrationOf
  <2>6. RegistrationOf(t)'
    BY <1>0, <1>3, <1>6, <2>4, <2>5 DEF RegistrationOf
  <2> QED BY <1>4, <1>5, <1>7, <1>8, <2>6, OnRegistration DEF QuietInv
<1>9. CASE t[2] # Registered
  <2>1. ProvisioningOf(t)
    BY <1>1, <1>9 DEF HandledOf
  <2>2. Waiting(t[1])' = Waiting(t[1]) /\ Ended(t[1])' = Ended(t[1]) /\ job' = job
    BY <1>4 DEF Waiting, Ended
  <2>3. ProvisioningOf(t)'
    BY <1>0, <1>1, <1>3, <1>6, <2>1, <2>2 DEF ProvisioningOf
  <2> QED BY <1>5, <1>7, <1>9, <2>3, OnRequest DEF QuietInv
<1> QED BY <1>8, <1>9

(* Only an outbox job that nobody has is taken.                            *)
LEMMA TakeStep ==
  ASSUME Typed, QuietInv, NEW p \in Relay, NEW t \in Task, Take(p, t)
  PROVE  QuietInv'
<1>0. NoTask \notin Task /\ pc[p] = "idle" /\ cur[p] = NoTask
  BY WalletAssumption DEF Take, Task, QuietInv, Tended
<1>1. task[t].status = "PENDING" /\ task[t].due
  <2>1. ASSUME task[t].status = "LEASED" PROVE ~task[t].expired
    <3>1. task[t].token \in Relay /\ cur[task[t].token] = t
      BY <2>1 DEF QuietInv, Tended
    <3> QED BY <1>0, <3>1 DEF QuietInv, Tended
  <2> QED BY <2>1 DEF Take, Takeable
<1>2. /\ task[t] \in OutboxJob
      /\ task'[t].status = "LEASED" /\ task'[t].token = p /\ ~task'[t].expired
      /\ task'[t].attempt = task[t].attempt
      /\ \A s \in Task : s # t => task'[s] = task[s]
  BY DEF Take, Typed, TypeOK, OutboxJob
<1>3. /\ UNCHANGED <<wallet, job>> /\ cur'[p] = t
      /\ pc'[p] = IF t[2] = Registered THEN "reserve" ELSE "claim"
      /\ \A q \in Relay : q # p => pc'[q] = pc[q] /\ cur'[q] = cur[q]
  BY DEF Take, Goto, Typed, TypeOK
<1>4. \A q \in Relay : cur[q] # t
  BY <1>0, <1>1 DEF QuietInv, Tended
<1>5. Touches(t)
  <2>1. ASSUME NEW q \in Relay,
               (cur[q] \in Task /\ cur[q] # t) \/ (cur'[q] \in Task /\ cur'[q] # t)
        PROVE  q # p
    BY <1>0, <1>3, <2>1
  <2> QED BY <1>1, <1>2, <1>3, <2>1 DEF Touches
<1>6. Tended'
  <2>1. ASSUME NEW q \in Relay, q # p, pc'[q] # "idle"
        PROVE  /\ cur'[q] \in Task
               /\ task'[cur'[q]].status = "LEASED" /\ task'[cur'[q]].token = q
               /\ ~task'[cur'[q]].expired
               /\ pc'[q] \notin {"revive", "requeue"}
               /\ pc'[q] \in Reserving => cur'[q][2] = Registered
               /\ pc'[q] \in Claimed \cup {"claim"} => cur'[q][2] # Registered
    <3>1. cur'[q] = cur[q] /\ pc'[q] = pc[q] /\ pc[q] # "idle"
      BY <1>3, <2>1
    <3>2. cur[q] \in Task
      BY <3>1 DEF QuietInv, Tended
    <3>3. task'[cur[q]] = task[cur[q]]
      BY <1>2, <1>4, <3>2
    <3> QED BY <3>1, <3>2, <3>3 DEF QuietInv, Tended
  <2>2. /\ cur'[p] \in Task
        /\ task'[cur'[p]].status = "LEASED" /\ task'[cur'[p]].token = p
        /\ ~task'[cur'[p]].expired
        /\ pc'[p] \notin {"idle", "revive", "requeue"}
        /\ pc'[p] \in Reserving => cur'[p][2] = Registered
        /\ pc'[p] \in Claimed \cup {"claim"} => cur'[p][2] # Registered
    BY <1>2, <1>3 DEF Reserving, Claimed
  <2>3. ASSUME NEW q \in Relay, pc'[q] = "idle" PROVE cur'[q] = NoTask
    <3>1. q # p
      BY <2>2, <2>3
    <3> QED BY <1>3, <2>3, <3>1 DEF QuietInv, Tended
  <2>4. ASSUME NEW s \in Task, task'[s].status = "LEASED"
        PROVE  task'[s].token \in Relay /\ cur'[task'[s].token] = s
    <3>1. CASE s = t
      BY <1>2, <1>3, <3>1
    <3>2. CASE s # t
      <4>1. task'[s] = task[s] /\ task[s].token \in Relay /\ cur[task[s].token] = s
        BY <1>2, <2>4, <3>2 DEF QuietInv, Tended
      <4> QED BY <1>0, <1>3, <4>1
    <3> QED BY <3>1, <3>2
  <2>5. Claimed' = Claimed /\ Reserving' = Reserving
    BY DEF Claimed, Reserving
  <2> QED BY <2>1, <2>2, <2>3, <2>4, <2>5 DEF Tended
<1>7. HandledOf(t) /\ \A q \in Relay : cur'[q] = t => q = p
  BY <1>3, <1>4 DEF QuietInv, Handled
<1>8. CASE t[2] = Registered
  <2>1. Requested(t[1])' = Requested(t[1])
    BY <1>5, TouchesRequests DEF QuietInv, Task
  <2>2. Fresh(t[1])'
    BY <1>1, <1>3, <1>7, <1>8, <2>1 DEF HandledOf, RegistrationOf, Fresh
  <2>3. RegistrationOf(t)'
    BY <1>2, <1>3, <1>7, <1>8, <2>2 DEF RegistrationOf
  <2> QED BY <1>3, <1>5, <1>6, <1>8, <2>3, OnRegistration DEF QuietInv
<1>9. CASE t[2] # Registered
  <2>1. Waiting(t[1])' /\ job'[t[1]].due /\ job'[t[1]].attempts <= task'[t].attempt
    BY <1>1, <1>2, <1>3, <1>7, <1>9 DEF HandledOf, ProvisioningOf, Waiting
  <2>2. ProvisioningOf(t)'
    BY <1>2, <1>3, <1>7, <1>9, <2>1 DEF ProvisioningOf, Claimed
  <2> QED BY <1>5, <1>6, <1>9, <2>2, OnRequest DEF QuietInv
<1> QED BY <1>8, <1>9

(* Time passes for the job of a wallet that nobody is at work on.          *)
LEMMA RowTicks ==
  ASSUME Typed, QuietInv, NEW u \in User,
         \/ job[u].status = "RETRY" /\ job' = [job EXCEPT ![u].due = TRUE]
         \/ /\ job[u].status = "PROCESSING" /\ ~Working(u)
            /\ job' = [job EXCEPT ![u].expired = TRUE],
         UNCHANGED <<wallet, task, pc, cur>>
  PROVE  QuietInv'
<1>0. NoTask \notin Task
  BY WalletAssumption DEF Task
<1>1. /\ job[u] \in Job /\ job'[u].status = job[u].status
      /\ job'[u].token = job[u].token /\ job'[u].attempts = job[u].attempts
      /\ job[u].status = "RETRY" => job'[u].due /\ job'[u].expired = job[u].expired
      /\ job[u].status = "PROCESSING" => ~Working(u)
      /\ job[u].status \in {"RETRY", "PROCESSING"}
      /\ \A v \in User : v # u => job'[v] = job[v]
  BY DEF Typed, TypeOK, Job
<1>2. Requested(u)
  <2>1. PICK r \in Task : r[1] = u /\ r[2] = Registered /\ HandledOf(r)
    <3>1. <<u, Registered>> \in Task
      BY DEF Task
    <3> QED BY <3>1 DEF QuietInv, Handled
  <2>2. RegistrationOf(r) /\ task[r] \in OutboxJob /\ ~Fresh(u) /\ ~Reserved(u)
    BY <1>1, <2>1 DEF HandledOf, Fresh, Reserved, NoJob, Typed, TypeOK
  <2>3. CASE task[r].status = "LEASED"
    <3>1. PICK q \in Relay : cur[q] = r
      BY <2>3 DEF QuietInv, Tended
    <3>2. pc[q] \in Pc /\ pc[q] # "idle" /\ pc[q] \notin {"claim", "revive", "requeue"} \cup Claimed
      BY <1>0, <2>1, <3>1 DEF QuietInv, Tended, Typed, TypeOK
    <3> QED BY <2>1, <2>2, <3>1, <3>2 DEF RegistrationOf, Pc, Claimed
  <2> QED BY <2>1, <2>2, <2>3 DEF RegistrationOf, OutboxJob
<1>3. PICK t \in Task : t[1] = u /\ t[2] # Registered /\ task[t].status # "NONE"
  <2>1. PICK r \in Requests(u) : task[r].status # "NONE"
    BY <1>2 DEF Requested
  <2>2. r \in Task /\ r[1] = u /\ r[2] # Registered
    BY WalletAssumption DEF Requests, Task
  <2> QED BY <2>1, <2>2
<1>4. Touches(t)
  BY <1>1, <1>3 DEF Touches
<1>5. Tended'
  BY TendedStays DEF QuietInv
<1>6. ProvisioningOf(t)
  BY <1>3 DEF QuietInv, Handled, HandledOf
<1>7. Ended(u)' = Ended(u) /\ Claimed' = Claimed
  BY DEF Ended, Claimed
<1>8. CASE job[u].status = "RETRY"
  <2>1. Waiting(u)' = Waiting(u) /\ \A q \in Relay : cur[q] = t => Owns(q)' = Owns(q)
    BY <1>1, <1>3, <1>8 DEF Waiting, Owns, Of
  <2>2. ProvisioningOf(t)'
    BY <1>1, <1>3, <1>6, <1>7, <1>8, <2>1 DEF ProvisioningOf
  <2> QED BY <1>3, <1>4, <1>5, <2>2, OnRequest DEF QuietInv
<1>9. CASE job[u].status = "PROCESSING"
  <2>1. ~Waiting(u)
    BY <1>9 DEF Waiting
  <2>2. \A q \in Relay : cur[q] = t => pc[q] \notin Claimed
    BY <1>1, <1>3, <1>6, <1>9 DEF ProvisioningOf, Working, Of
  <2>3. ProvisioningOf(t)'
    BY <1>3, <1>6, <1>7, <2>1, <2>2 DEF ProvisioningOf
  <2> QED BY <1>3, <1>4, <1>5, <2>3, OnRequest DEF QuietInv
<1> QED BY <1>1, <1>8, <1>9

(* A request comes due after the job of its wallet: the two backoffs fit.  *)
LEMMA RequestDue ==
  ASSUME Typed, Quiet, QuietInv, NEW t \in Task, TaskDue(t)
  PROVE  QuietInv'
<1>0. NoTask \notin Task
  BY WalletAssumption DEF Task
<1>1. /\ task[t] \in OutboxJob
      /\ task[t].status = "PENDING" /\ task'[t].status = "PENDING"
      /\ task'[t].attempt = task[t].attempt
      /\ \A s \in Task : s # t => task'[s] = task[s]
      /\ UNCHANGED <<wallet, job, pc, cur>>
  BY DEF TaskDue, Typed, TypeOK, OutboxJob, reg
<1>2. Touches(t)
  BY <1>1 DEF Touches
<1>3. Tended'
  <2>1. \A s \in Task :
          \/ task'[s] = task[s]
          \/ task[s].status # "LEASED" /\ task'[s].status # "LEASED"
    BY <1>1
  <2> QED BY <1>1, <2>1, TendedStays DEF QuietInv
<1>4. HandledOf(t) /\ \A q \in Relay : cur[q] # t
  BY <1>0, <1>1 DEF QuietInv, Handled, Tended
<1>5. CASE t[2] = Registered
  <2>1. Requested(t[1])' = Requested(t[1])
    BY <1>2, TouchesRequests DEF QuietInv, Task
  <2>2. RegistrationOf(t)'
    BY <1>1, <1>4, <1>5, <2>1 DEF HandledOf, RegistrationOf, Fresh
  <2> QED BY <1>1, <1>2, <1>3, <1>5, <2>2, OnRegistration DEF QuietInv
<1>6. CASE t[2] # Registered
  <2>1. Waiting(t[1]) /\ job[t[1]].attempts <= task[t].attempt
    BY <1>1, <1>4, <1>6 DEF HandledOf, ProvisioningOf
  <2>2. job[t[1]] \in Job
    BY DEF Task, Typed, TypeOK
  <2>3. job[t[1]].attempts <= task[t].attempt + 1
    BY <1>1, <2>1, <2>2 DEF Job, OutboxJob
  <2>4. job[t[1]].due
    BY <1>6, <2>1, <2>3 DEF TaskDue, WaitsForJob, Waiting, Quiet
  <2>5. Waiting(t[1])'
    BY <1>1, <2>1 DEF Waiting
  <2>6. ProvisioningOf(t)'
    BY <1>1, <1>4, <1>6, <2>1, <2>4, <2>5 DEF ProvisioningOf
  <2> QED BY <1>2, <1>3, <1>6, <2>6, OnRequest DEF QuietInv
<1> QED BY <1>5, <1>6

(* Every step, while nothing but the key store fails: no handler is        *)
(* interrupted and no lease runs out under a relay at work.                *)
LEMMA QuietStep ==
  ASSUME Typed, Quiet, QuietInv, Next
  PROVE  QuietInv'
<1>0. \A k \in Kind : Fault(k) => k = "kms"
  BY DEF Fault, Quiet
<1>1. ASSUME NEW p \in Relay, Step(p) \/ FaultStep(p) PROVE QuietInv'
  <2>1. CASE Lookup(p) \/ StoreKey(p) \/ StoreUncertain(p) \/ KeyStoreFails(p)
             \/ CompleteRead(p) \/ FailRead(p)
    BY <2>1, QuietlyStep
  <2>2. CASE Claim(p) \/ ClaimIdle(p) \/ CompleteWrite(p) \/ RecordFailure(p)
    BY <2>2, RequestWrites
  <2>3. CASE ReserveRefused(p) \/ ReserveRead(p) \/ ReserveWrite(p)
             \/ ReserveConflict(p) \/ CheckRequested(p)
    BY <2>3, RegistrationStep
  <2>4. CASE EmitRequest(p)
    BY <2>4, RequestMade
  <2>5. CASE Settle(p)
    BY <2>5, SettleStep
  <2>6. CASE \E t \in Task : Take(p, t)
    BY <2>6, TakeStep
  <2>7. CASE DatabaseFails(p) \/ Crash(p)
    BY <1>0, <2>7 DEF DatabaseFails, Crash, Kind
  <2> QED BY <1>1, <2>1, <2>2, <2>3, <2>4, <2>5, <2>6, <2>7
          DEF Step, HandlerStep, FaultStep
<1>2. ASSUME NEW u \in User, JobLeaseExpires(u) \/ JobDue(u) PROVE QuietInv'
  <2>1. JobLeaseExpires(u) => ~Working(u)
    BY <1>0 DEF JobLeaseExpires, Kind
  <2>2. UNCHANGED <<wallet, task, pc, cur>>
    BY <1>2 DEF JobLeaseExpires, JobDue, reg
  <2> QED BY <1>2, <2>1, <2>2, RowTicks DEF JobLeaseExpires, JobDue
<1>3. ASSUME NEW u \in User, ChangeEligibility(u) PROVE QuietInv'
  BY <1>3 DEF ChangeEligibility, reg, QuietInv, Tended, OneRequest, Handled, HandledOf,
     RegistrationOf, ProvisioningOf, Fresh, Reserved, Waiting, Ended, Owns, Of, Requested,
     Requests, Claimed, Reserving
<1>4. ASSUME NEW t \in Task, TaskLeaseExpires(t) \/ TaskDue(t) \/ Replay(t) PROVE QuietInv'
  <2>1. ~TaskLeaseExpires(t)
    <3> SUFFICES ASSUME TaskLeaseExpires(t) PROVE FALSE
      OBVIOUS
    <3>1. Held(t)
      BY DEF TaskLeaseExpires, QuietInv, Tended, Held
    <3> QED BY <1>0, <3>1 DEF TaskLeaseExpires, Kind
  <2>2. ~Replay(t)
    BY <1>0 DEF Replay, Kind
  <2> QED BY <1>4, <2>1, <2>2, RequestDue
<1> QED BY <1>1, <1>2, <1>3, <1>4 DEF Next

(* A wallet that is neither done nor unreserved has an outbox job that is  *)
(* yet to run, or that a relay has in its hands, unless an outbox job of its*)
(* user is dead-lettered; and the relay that runs a request finds the wallet's*)
(* job due and claimable (claimableWhere, the two backoffs).               *)
InGoodHands ==
  Quiet =>
    /\ \A u \in User :
         ~Settled(u) /\ ~Abandoned(u) =>
           \E t \in Task : t[1] = u /\ (task[t].status = "PENDING" \/ Held(t))
    /\ \A p \in Relay : pc[p] = "claim" => Claimable(Of(p))

(* The invariant says so.                                                  *)
LEMMA QuietInvGoodHands ==
  ASSUME Typed, QuietInv
  PROVE  InGoodHands
<1>1. ASSUME NEW u \in User, ~Settled(u), ~Abandoned(u)
      PROVE  \E t \in Task : t[1] = u /\ (task[t].status = "PENDING" \/ Held(t))
  <2>1. ASSUME NEW t \in Task, t[1] = u, task[t].status # "NONE", task[t].status # "COMPLETED"
        PROVE  task[t].status = "PENDING" \/ Held(t)
    <3>1. task[t] \in OutboxJob /\ task[t].status # "DEAD_LETTER"
      BY <1>1, <2>1 DEF Typed, TypeOK, Abandoned
    <3>2. task[t].status = "LEASED" => Held(t)
      BY <2>1 DEF QuietInv, Tended, Held
    <3> QED BY <2>1, <3>1, <3>2 DEF OutboxJob
  <2>2. PICK r \in Task : r[1] = u /\ r[2] = Registered
    <3>1. <<u, Registered>> \in Task
      BY DEF Task
    <3> QED BY <3>1
  <2>3. RegistrationOf(r)
    BY <2>2 DEF QuietInv, Handled, HandledOf
  <2>4. CASE task[r].status # "COMPLETED"
    BY <2>1, <2>2, <2>3, <2>4 DEF RegistrationOf
  <2>5. CASE task[r].status = "COMPLETED"
    <3>1. PICK t \in Requests(u) : task[t].status # "NONE"
      BY <2>2, <2>3, <2>5 DEF RegistrationOf, Requested
    <3>2. t \in Task /\ t[1] = u /\ t[2] # Registered
      BY WalletAssumption DEF Requests, Task
    <3>3. ProvisioningOf(t)
      BY <3>2 DEF QuietInv, Handled, HandledOf
    <3>4. task[t].status # "COMPLETED"
      BY <1>1, <3>2, <3>3 DEF ProvisioningOf, Ended, Settled
    <3> QED BY <2>1, <3>1, <3>2, <3>4
  <2> QED BY <2>4, <2>5
<1>2. ASSUME NEW p \in Relay, pc[p] = "claim" PROVE Claimable(Of(p))
  BY <1>2, ClaimFinds
<1> QED BY <1>1, <1>2 DEF InGoodHands

(* While nothing but the key store fails, no reserved wallet is ever left to*)
(* nobody: UserCreated's handler never returns without a request, no request*)
(* is completed before the wallet has ended (`idle` would be a success that*)
(* loses it) and none comes due before the wallet's job. It is the safety  *)
(* half of WalletSettles, for any number of users, relays and attempts.    *)
THEOREM HandedOn == Spec => []InGoodHands
<1>1. Init => (Quiet => QuietInv)
  <2> SUFFICES ASSUME Init PROVE QuietInv
    OBVIOUS
  <2>0. NoTask \notin Task
    BY WalletAssumption DEF Task
  <2>1. ASSUME NEW t \in Task
        PROVE  task[t].status = IF t[2] = Registered THEN "PENDING" ELSE "NONE"
    BY DEF Init, NoOutboxJob
  <2>2. Tended
    BY <2>1 DEF Init, Tended
  <2>3. OneRequest
    BY <2>1 DEF OneRequest
  <2>4. ASSUME NEW t \in Task PROVE HandledOf(t)
    <3>1. t[1] \in User /\ \A q \in Relay : cur[q] # t
      BY <2>0 DEF Init, Task
    <3>2. ~Requested(t[1])
      <4>1. \A r \in Requests(t[1]) : r \in Task /\ r[2] # Registered
        BY <3>1, WalletAssumption DEF Requests, Task
      <4> QED BY <2>1, <4>1 DEF Requested
    <3>3. Fresh(t[1])
      BY <3>1, <3>2 DEF Init, Fresh
    <3> QED BY <2>1, <3>1, <3>3 DEF HandledOf, RegistrationOf, ProvisioningOf
  <2> QED BY <2>2, <2>3, <2>4 DEF QuietInv, Handled
<1>2. Typed /\ (Quiet => QuietInv) /\ [Next]_vars => (Quiet => QuietInv)'
  <2> SUFFICES ASSUME Typed, Quiet => QuietInv, [Next]_vars, Quiet' PROVE QuietInv'
    OBVIOUS
  <2>1. Quiet /\ QuietInv
    BY KindsStay DEF Quiet
  <2>2. CASE Next
    BY <2>1, <2>2, QuietStep
  <2>3. CASE UNCHANGED vars
    BY <2>1, <2>3 DEF vars, reg, QuietInv, Tended, OneRequest, Handled, HandledOf,
       RegistrationOf, ProvisioningOf, Fresh, Reserved, Waiting, Ended, Owns, Of, Requested,
       Requests, Claimed, Reserving
  <2> QED BY <2>2, <2>3
<1>3. Typed /\ (Quiet => QuietInv) => InGoodHands
  BY QuietInvGoodHands DEF InGoodHands
<1> QED BY <1>1, <1>2, <1>3, TypedAlways, PTL DEF Spec
===============================================================================
