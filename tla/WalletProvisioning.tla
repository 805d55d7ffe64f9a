-------------------------- MODULE WalletProvisioning --------------------------
(***************************************************************************)
(* Custodial wallets: the two outbox handlers of jobs/ (UserCreated        *)
(* reserves a wallet and requests its provisioning,                        *)
(* WalletProvisioningRequested provisions it), the repository they use     *)
(* (services/wallet-provisioning.repository.ts) and the key store          *)
(* (services/kms).                                                         *)
(*                                                                         *)
(* A handler runs inside an outbox job, and the wallet has a job of its    *)
(* own: two leases, two counts of attempts and two backoffs that know      *)
(* nothing of each other.  OutboxRelay models the outbox in detail; here   *)
(* an outbox job is a lease, a count and an end.                           *)
(*                                                                         *)
(* One step is one transaction or one call of the key store.  A            *)
(* reservation, complete and recordFailure read rows that they do not lock *)
(* and write them by id: they are two steps each, and what they have read  *)
(* is in pc.                                                               *)
(***************************************************************************)
EXTENDS Naturals, FiniteSets

CONSTANTS
  User,           \* users who have registered; a user has one wallet
  Relay,          \* relay processes
  Registered,     \* names the UserCreated event of a user, see Task
  NoRelay,        \* a lease token that is null
  NoTask,         \* no outbox job in a relay's hands
  Key,            \* key pairs the generator may draw
  NoKey,          \* no key pair
  Store,          \* key stores
  StoreOf,        \* [Relay -> Store]: the key store of a process
  Durable,        \* TRUE: a key store survives the crash of its processes
  MaxAttempts,    \* wallet_provisioning_jobs.maxAttempts, 8 by default
  TaskAttempts,   \* maxAttempts of both outbox handlers, 5
  FaultKinds,     \* the sets of kinds of fault a behaviour may be exposed to
  MaxFaults       \* bound: faults and replays in a run

\* An operator's replay of a dead outbox job is counted with the faults.
Kind == {"kms", "database", "slow", "crash", "replay"}

ASSUME WalletAssumption ==
  /\ Registered \notin Relay
  /\ NoRelay \notin Relay
  /\ NoTask \notin User \X (Relay \cup {Registered})
  /\ NoKey \notin Key
  /\ StoreOf \in [Relay -> Store]
  /\ Durable \in BOOLEAN
  /\ MaxAttempts \in Nat \ {0}
  /\ TaskAttempts \in Nat \ {0}
  /\ FaultKinds \subseteq SUBSET Kind
  /\ MaxFaults \in Nat

VARIABLES
  eligible,   \* [User -> BOOLEAN]: verified, and the latest consent is granted
  wallet,     \* [User -> Wallet]: the wallets table
  job,        \* [User -> Job]: the wallet_provisioning_jobs table
  store,      \* [Store -> [User -> Key \cup {NoKey}]]: keys by wallet id
  task,       \* [Task -> OutboxJob]: the outbox jobs of both handlers
  pc,         \* [Relay -> Pc]: where the relay is in a handler
  cur,        \* [Relay -> Task \cup {NoTask}]: the outbox job it handles
  tries,      \* [Relay -> Nat]: claimed.job.attempts
  key,        \* [Relay -> Key \cup {NoKey}]: material
  kinds,      \* the kinds of fault this behaviour may meet, fixed at its start
  faults      \* history: faults so far

reg == <<pc, cur, tries, key>>
history == <<kinds, faults>>
vars == <<eligible, wallet, job, store, task, reg, history>>

-------------------------------------------------------------------------------
(* A relay requests the provisioning of a wallet only after it has found   *)
(* no request of the same UserCreated event, and requests are never        *)
(* deleted: there is at most one by each relay, and <<user, relay>> names  *)
(* its outbox job.  <<user, Registered>> is the job of UserCreated itself. *)
Task == User \X (Relay \cup {Registered})
Requests(u) == { <<u, p>> : p \in Relay }

Wallet ==
  [ status : {"NONE", "RESERVED", "PROVISIONING", "RETRYABLE", "ACTIVE",
              "FAILED"},
    key    : Key \cup {NoKey} ]         \* publicKey and managedKeyReference

(* A lease token is a fresh UUID.  A relay handles one outbox job at a     *)
(* time, claims at most one wallet in it and forgets its tokens in a       *)
(* crash, so its name stands for the last token it took.                   *)
Job ==
  [ status   : {"NONE", "PENDING", "PROCESSING", "RETRY", "COMPLETED",
                "DEAD_LETTER"},
    token    : Relay \cup {NoRelay},
    expired  : BOOLEAN,                 \* leasedUntil < now
    due      : BOOLEAN,                 \* availableAt <= now
    attempts : Nat ]

OutboxJob ==
  [ status  : {"NONE", "PENDING", "LEASED", "COMPLETED", "DEAD_LETTER"},
    token   : Relay \cup {NoRelay},
    expired : BOOLEAN,
    due     : BOOLEAN,
    attempt : Nat ]

Pc == {"idle", "reserve", "create", "revive", "requeue", "check", "emit",
       "claim", "lookup", "store", "relook", "complete", "write", "fail",
       "record", "return", "throw"}

\* The steps of a handler that has claimed the wallet.
Claimed == {"lookup", "store", "relook", "complete", "write", "fail", "record"}

NoJob == [ status |-> "NONE", token |-> NoRelay, expired |-> FALSE,
           due |-> TRUE, attempts |-> 0 ]

NoOutboxJob == [ status |-> "NONE", token |-> NoRelay, expired |-> FALSE,
                 due |-> TRUE, attempt |-> 0 ]

TypeOK ==
  /\ eligible \in [User -> BOOLEAN]
  /\ wallet \in [User -> Wallet]
  /\ job \in [User -> Job]
  /\ store \in [Store -> [User -> Key \cup {NoKey}]]
  /\ task \in [Task -> OutboxJob]
  /\ pc \in [Relay -> Pc]
  /\ cur \in [Relay -> Task \cup {NoTask}]
  /\ tries \in [Relay -> Nat]
  /\ key \in [Relay -> Key \cup {NoKey}]
  /\ kinds \subseteq Kind
  /\ faults \in Nat

(* Users have registered: UserCreated has its outbox job, the account is   *)
(* not verified.                                                           *)
Init ==
  /\ eligible = [u \in User |-> FALSE]
  /\ wallet = [u \in User |-> [status |-> "NONE", key |-> NoKey]]
  /\ job = [u \in User |-> NoJob]
  /\ store = [s \in Store |-> [u \in User |-> NoKey]]
  /\ task = [t \in Task |-> IF t[2] = Registered
                            THEN [NoOutboxJob EXCEPT !.status = "PENDING"]
                            ELSE NoOutboxJob]
  /\ pc = [p \in Relay |-> "idle"]
  /\ cur = [p \in Relay |-> NoTask]
  /\ tries = [p \in Relay |-> 0]
  /\ key = [p \in Relay |-> NoKey]
  /\ kinds \in FaultKinds
  /\ faults = 0

-------------------------------------------------------------------------------
Goto(p, l) == pc' = [pc EXCEPT ![p] = l]

\* The user whose event the relay handles; the wallet id is the key's id.
Of(p) == cur[p][1]

\* What the relay's key store has for the wallet it handles.
Stored(p) == store[StoreOf[p]][Of(p)]

\* One more fault of this kind.
Fault(k) ==
  /\ k \in kinds
  /\ faults < MaxFaults
  /\ faults' = faults + 1
  /\ UNCHANGED kinds

-------------------------------------------------------------------------------
(* The outbox around the handlers *)

Takeable(t) ==
  \/ task[t].status = "PENDING" /\ task[t].due
  \/ task[t].status = "LEASED" /\ task[t].expired

Take(p, t) ==
  /\ pc[p] = "idle"
  /\ Takeable(t)
  /\ task' = [task EXCEPT ![t].status = "LEASED", ![t].token = p,
                          ![t].expired = FALSE]
  /\ cur' = [cur EXCEPT ![p] = t]
  /\ Goto(p, IF t[2] = Registered THEN "reserve" ELSE "claim")
  /\ UNCHANGED <<eligible, wallet, job, store, tries, key, history>>

Forget(p) ==
  /\ Goto(p, "idle")
  /\ cur' = [cur EXCEPT ![p] = NoTask]
  /\ tries' = [tries EXCEPT ![p] = 0]
  /\ key' = [key EXCEPT ![p] = NoKey]

FailedTask(t) ==
  IF task[t].attempt + 1 >= TaskAttempts
  THEN [task[t] EXCEPT !.status = "DEAD_LETTER", !.token = NoRelay,
                       !.expired = FALSE]
  ELSE [task[t] EXCEPT !.status = "PENDING", !.token = NoRelay,
                       !.expired = FALSE, !.due = FALSE, !.attempt = @ + 1]

(* The handler has returned or thrown; who has lost the lease of the       *)
(* outbox job changes nothing.                                             *)
Settle(p) ==
  /\ pc[p] \in {"return", "throw"}
  /\ task' = [task EXCEPT ![cur[p]] =
                IF @.token # p THEN @
                ELSE IF pc[p] = "throw" THEN FailedTask(cur[p])
                ELSE [@ EXCEPT !.status = "COMPLETED", !.token = NoRelay,
                               !.expired = FALSE]]
  /\ Forget(p)
  /\ UNCHANGED <<eligible, wallet, job, store, history>>

-------------------------------------------------------------------------------
(* UserCreatedHandler.handle *)

\* assertEligible
ReserveRefused(p) ==
  /\ pc[p] = "reserve"
  /\ ~eligible[Of(p)]
  /\ Goto(p, "throw")
  /\ UNCHANGED <<eligible, wallet, job, store, task, cur, tries, key, history>>

(* The wallet is read.  An upsert that has nothing to update is no more    *)
(* than this read and, if there is no wallet, its creation: it locks       *)
(* nothing.                                                                *)
ReserveRead(p) ==
  /\ pc[p] = "reserve"
  /\ eligible[Of(p)]
  /\ Goto(p, CASE wallet[Of(p)].status = "NONE" -> "create"
                [] wallet[Of(p)].status = "FAILED" -> "revive"
                [] wallet[Of(p)].status = "ACTIVE" -> "check"
                [] OTHER -> "requeue")
  /\ UNCHANGED <<eligible, wallet, job, store, task, cur, tries, key, history>>

\* Seeded fault: the job is left as it is if the wallet exists.
RequeuedJobOnlyNew(u) ==
  IF wallet[u].status # "NONE" THEN job[u]
  ELSE [job[u] EXCEPT !.status = "PENDING"]

(* The attempts are not reset: a wallet that has failed has one more.      *)
RequeuedJob(u) ==
  [job[u] EXCEPT !.status = "PENDING", !.due = TRUE, !.token = NoRelay,
                 !.expired = FALSE]

(* The wallet and its job are written, whatever they are by now.           *)
ReserveWrite(p) ==
  LET u == Of(p) IN
  /\ pc[p] \in {"create", "revive", "requeue"}
  /\ pc[p] = "create" => wallet[u].status = "NONE"
  /\ wallet' = [wallet EXCEPT ![u].status =
                  IF pc[p] = "requeue" THEN @ ELSE "RESERVED"]
  /\ job' = [job EXCEPT ![u] = RequeuedJob(u)]
  /\ Goto(p, "check")
  /\ UNCHANGED <<eligible, store, task, cur, tries, key, history>>

(* Another relay has created the wallet: userId is unique.                 *)
ReserveConflict(p) ==
  /\ pc[p] = "create"
  /\ wallet[Of(p)].status # "NONE"
  /\ Goto(p, "throw")
  /\ UNCHANGED <<eligible, wallet, job, store, task, cur, tries, key, history>>

\* alreadyRequested
Requested(u) == \E t \in Requests(u) : task[t].status # "NONE"

CheckRequested(p) ==
  /\ pc[p] = "check"
  /\ Goto(p, IF Requested(Of(p)) THEN "return" ELSE "emit")
  /\ UNCHANGED <<eligible, wallet, job, store, task, cur, tries, key, history>>

(* The event, and the outbox job that the relay makes of it.               *)
EmitRequest(p) ==
  /\ pc[p] = "emit"
  /\ task' = [task EXCEPT ![<<Of(p), p>>].status = "PENDING"]
  /\ Goto(p, "return")
  /\ UNCHANGED <<eligible, wallet, job, store, cur, tries, key, history>>

-------------------------------------------------------------------------------
(* WalletProvisioningOutboxHandler.handleWallet *)

\* Seeded fault: jobs to be tried again are not claimed.
ClaimableOnlyFirst(u) ==
  \/ job[u].status = "PENDING" /\ job[u].due
  \/ job[u].status = "PROCESSING" /\ job[u].expired

\* claimableWhere
Claimable(u) ==
  \/ job[u].status \in {"PENDING", "RETRY"} /\ job[u].due
  \/ job[u].status = "PROCESSING" /\ job[u].expired

(* Both reads of the claim look for a claimable job, and the second one    *)
(* locks it.                                                               *)
Claim(p) ==
  LET u == Of(p) IN
  /\ pc[p] = "claim"
  /\ Claimable(u)
  /\ job' = [job EXCEPT ![u].status = "PROCESSING", ![u].token = p,
                        ![u].expired = FALSE, ![u].attempts = @ + 1]
  /\ wallet' = [wallet EXCEPT ![u].status = "PROVISIONING"]
  /\ tries' = [tries EXCEPT ![p] = job[u].attempts + 1]
  /\ Goto(p, "lookup")
  /\ UNCHANGED <<eligible, store, task, cur, key, history>>

(* Nothing to claim, whatever the reason: `idle`, which the outbox handler *)
(* reports as a success.                                                   *)
ClaimIdle(p) ==
  /\ pc[p] = "claim"
  /\ ~Claimable(Of(p))
  /\ Goto(p, "return")
  /\ UNCHANGED <<eligible, wallet, job, store, task, cur, tries, key, history>>

(* The first look and the one after a store whose answer was lost.         *)
Lookup(p) ==
  /\ pc[p] \in {"lookup", "relook"}
  /\ key' = [key EXCEPT ![p] = Stored(p)]
  /\ Goto(p, IF Stored(p) # NoKey THEN "complete"
             ELSE IF pc[p] = "lookup" THEN "store" ELSE "fail")
  /\ UNCHANGED <<eligible, wallet, job, store, task, cur, tries, history>>

\* Seeded fault: a second store for a wallet replaces its key.
KeptKeyLast(p, k) == k

\* The store is idempotent by wallet id: the first key stays.
KeptKey(p, k) == IF Stored(p) = NoKey THEN k ELSE Stored(p)

Written(p, k) == [store EXCEPT ![StoreOf[p]][Of(p)] = KeptKey(p, k)]

StoreKey(p) ==
  /\ pc[p] = "store"
  /\ \E k \in Key :
       /\ store' = Written(p, k)
       /\ key' = [key EXCEPT ![p] = KeptKey(p, k)]
  /\ Goto(p, "complete")
  /\ UNCHANGED <<eligible, wallet, job, task, cur, tries, history>>

(* The store throws: the key may have been written.                        *)
StoreUncertain(p) ==
  /\ pc[p] = "store"
  /\ Fault("kms")
  /\ \/ store' = store
     \/ \E k \in Key : store' = Written(p, k)
  /\ Goto(p, "relook")
  /\ UNCHANGED <<eligible, wallet, job, task, cur, tries, key>>

-------------------------------------------------------------------------------
(* complete and recordFailure *)

Owns(p) == job[Of(p)].status = "PROCESSING" /\ job[Of(p)].token = p

CompleteRead(p) ==
  /\ pc[p] = "complete"
  /\ Goto(p, IF wallet[Of(p)].status = "ACTIVE" THEN "return"
             ELSE IF Owns(p) THEN "write" ELSE "fail")
  /\ UNCHANGED <<eligible, wallet, job, store, task, cur, tries, key, history>>

CompleteWrite(p) ==
  LET u == Of(p) IN
  /\ pc[p] = "write"
  /\ wallet' = [wallet EXCEPT ![u] = [status |-> "ACTIVE", key |-> key[p]]]
  /\ job' = [job EXCEPT ![u].status = "COMPLETED", ![u].token = NoRelay,
                        ![u].expired = FALSE]
  /\ Goto(p, "return")
  /\ UNCHANGED <<eligible, store, task, cur, tries, key, history>>

\* Seeded fault: one attempt too few.
TerminalOneEarly(p) == tries[p] + 1 >= MaxAttempts

Terminal(p) == tries[p] >= MaxAttempts

(* `dead-letter` is a success for the outbox, `retry-scheduled` is thrown. *)
Answer(p) == IF Terminal(p) THEN "return" ELSE "throw"

FailRead(p) ==
  /\ pc[p] = "fail"
  /\ Goto(p, IF Owns(p) THEN "record" ELSE Answer(p))
  /\ UNCHANGED <<eligible, wallet, job, store, task, cur, tries, key, history>>

FailedJob(p) ==
  [job[Of(p)] EXCEPT !.status = IF Terminal(p) THEN "DEAD_LETTER" ELSE "RETRY",
                     !.due = Terminal(p), !.token = NoRelay,
                     !.expired = FALSE]

RecordFailure(p) ==
  LET u == Of(p) IN
  /\ pc[p] = "record"
  /\ wallet' = [wallet EXCEPT ![u].status =
                  IF Terminal(p) THEN "FAILED" ELSE "RETRYABLE"]
  /\ job' = [job EXCEPT ![u] = FailedJob(p)]
  /\ Goto(p, Answer(p))
  /\ UNCHANGED <<eligible, store, task, cur, tries, key, history>>

-------------------------------------------------------------------------------
(* What goes wrong *)

(* A look into the key store or the generation of a key pair throws.       *)
KeyStoreFails(p) ==
  /\ pc[p] \in {"lookup", "store", "relook"}
  /\ Fault("kms")
  /\ Goto(p, "fail")
  /\ UNCHANGED <<eligible, wallet, job, store, task, cur, tries, key>>

(* A transaction is not committed.  One that records a failure is given up *)
(* in silence.                                                             *)
DatabaseFails(p) ==
  /\ Fault("database")
  /\ \/ /\ pc[p] \in {"reserve", "create", "revive", "requeue", "check",
                      "emit", "claim"}
        /\ Goto(p, "throw")
     \/ pc[p] \in {"complete", "write"} /\ Goto(p, "fail")
     \/ pc[p] \in {"fail", "record"} /\ Goto(p, Answer(p))
  /\ UNCHANGED <<eligible, wallet, job, store, task, cur, tries, key>>

(* The process dies in a handler, and a key store in its memory with it.   *)
Crash(p) ==
  /\ pc[p] # "idle"
  /\ Fault("crash")
  /\ Forget(p)
  /\ store' = IF Durable THEN store
              ELSE [store EXCEPT ![StoreOf[p]] = [u \in User |-> NoKey]]
  /\ UNCHANGED <<eligible, wallet, job, task>>

(* A lease runs out.  If its holder is still at work, this is the fault of *)
(* a slow process.                                                         *)
Held(t) == \E p \in Relay : cur[p] = t /\ task[t].token = p
Working(u) == \E p \in Relay : pc[p] \in Claimed /\ Of(p) = u /\ Owns(p)

TaskLeaseExpires(t) ==
  /\ task[t].status = "LEASED"
  /\ ~task[t].expired
  /\ IF Held(t) THEN Fault("slow") ELSE UNCHANGED history
  /\ task' = [task EXCEPT ![t].expired = TRUE]
  /\ UNCHANGED <<eligible, wallet, job, store, reg>>

JobLeaseExpires(u) ==
  /\ job[u].status = "PROCESSING"
  /\ ~job[u].expired
  /\ IF Working(u) THEN Fault("slow") ELSE UNCHANGED history
  /\ job' = [job EXCEPT ![u].expired = TRUE]
  /\ UNCHANGED <<eligible, wallet, store, task, reg>>

-------------------------------------------------------------------------------
(* Time, the user and the operator *)

JobDue(u) ==
  /\ job[u].status = "RETRY"
  /\ ~job[u].due
  /\ job' = [job EXCEPT ![u].due = TRUE]
  /\ UNCHANGED <<eligible, wallet, store, task, reg, history>>

(* A failure is recorded in the wallet's job before the outbox job fails.  *)
(* The former waits 2^(attempts-1) seconds, the latter 2^attempt, counting *)
(* the failure: it ends later unless its count is behind by more than one. *)
(* A slow process may record its failure long after, and then nothing is   *)
(* known.                                                                  *)
WaitsForJob(t) ==
  /\ "slow" \notin kinds
  /\ t[2] # Registered
  /\ job[t[1]].status = "RETRY"
  /\ job[t[1]].attempts <= task[t].attempt + 1

TaskDue(t) ==
  /\ task[t].status = "PENDING"
  /\ ~task[t].due
  /\ WaitsForJob(t) => job[t[1]].due
  /\ task' = [task EXCEPT ![t].due = TRUE]
  /\ UNCHANGED <<eligible, wallet, job, store, reg, history>>

(* The account is verified and consent is given; consent may be withdrawn. *)
ChangeEligibility(u) ==
  /\ eligible' = [eligible EXCEPT ![u] = ~@]
  /\ UNCHANGED <<wallet, job, store, task, reg, history>>

Replay(t) ==
  /\ task[t].status = "DEAD_LETTER"
  /\ Fault("replay")
  /\ task' = [task EXCEPT ![t] = [NoOutboxJob EXCEPT !.status = "PENDING"]]
  /\ UNCHANGED <<eligible, wallet, job, store, reg>>

-------------------------------------------------------------------------------
(* What a relay does by itself, and what happens to it. *)
HandlerStep(p) ==
  \/ ReserveRefused(p) \/ ReserveRead(p) \/ ReserveWrite(p)
  \/ ReserveConflict(p) \/ CheckRequested(p) \/ EmitRequest(p)
  \/ Claim(p) \/ ClaimIdle(p) \/ Lookup(p) \/ StoreKey(p)
  \/ CompleteRead(p) \/ CompleteWrite(p) \/ FailRead(p) \/ RecordFailure(p)
  \/ Settle(p)

FaultStep(p) ==
  StoreUncertain(p) \/ KeyStoreFails(p) \/ DatabaseFails(p) \/ Crash(p)

Step(p) == HandlerStep(p) \/ \E t \in Task : Take(p, t)

Next ==
  \/ \E p \in Relay : Step(p) \/ FaultStep(p)
  \/ \E u \in User : JobLeaseExpires(u) \/ JobDue(u) \/ ChangeEligibility(u)
  \/ \E t \in Task : TaskLeaseExpires(t) \/ TaskDue(t) \/ Replay(t)

Spec == Init /\ [][Next]_vars

(* Relays run and statements return; time passes for those who wait.       *)
Fairness ==
  /\ \A p \in Relay : WF_vars(Step(p))
  /\ \A u \in User : WF_vars(~Working(u) /\ JobLeaseExpires(u))
                     /\ WF_vars(JobDue(u))
  /\ \A t \in Task : WF_vars(~Held(t) /\ TaskLeaseExpires(t))
                     /\ WF_vars(TaskDue(t))

FairSpec == Spec /\ Fairness
-------------------------------------------------------------------------------
(* Properties *)

\* What the job of a wallet may be.
JobStatuses(walletStatus) ==
  CASE walletStatus = "NONE" -> {"NONE"}
    [] walletStatus = "RESERVED" -> {"PENDING"}
    [] walletStatus = "PROVISIONING" -> {"PENDING", "PROCESSING"}
    [] walletStatus = "RETRYABLE" -> {"PENDING", "RETRY"}
    [] walletStatus = "ACTIVE" -> {"PENDING", "COMPLETED"}
    [] walletStatus = "FAILED" -> {"PENDING", "DEAD_LETTER"}

(* The wallet and its job tell the same story, although every transaction  *)
(* writes them from what it may have read long before: no wallet ends      *)
(* while its job is being tried, and no job ends while its wallet waits,   *)
(* which nobody would ever claim again.  Only a reservation that is stale  *)
(* may reset the job of a wallet that has ended by then.                   *)
StatusesAgree ==
  \A u \in User : job[u].status \in JobStatuses(wallet[u].status)

(* The key of a wallet is the one its key store holds, and an ACTIVE       *)
(* wallet has one: a wallet whose secret nobody holds would be lost.       *)
(* handleClaimed keeps it through lost answers, crashes and relays that    *)
(* overlap, if all relays share a durable key store.                       *)
KeyIsStored ==
  \A u \in User :
    /\ wallet[u].status = "ACTIVE" => wallet[u].key # NoKey
    /\ wallet[u].key # NoKey =>
         \A p \in Relay : store[StoreOf[p]][u] = wallet[u].key

(* A wallet fails for good only after all its attempts, counted over       *)
(* requests, replays and relays that have lost their lease.                *)
FailedIsExhausted ==
  \A u \in User : wallet[u].status = "FAILED" => job[u].attempts >= MaxAttempts

Settled(u) == wallet[u].status \in {"NONE", "ACTIVE", "FAILED"}
Abandoned(u) == \E t \in Task : t[1] = u /\ task[t].status = "DEAD_LETTER"

(* While nothing but the key store fails, a reserved wallet becomes ACTIVE *)
(* or FAILED or an outbox job of its user is dead-lettered: the two        *)
(* backoffs fit, and no outbox job is completed before the wallet is done. *)
WalletSettles ==
  \A u \in User :
    (kinds \subseteq {"kms"} /\ ~Settled(u))
      ~> (Settled(u) \/ Abandoned(u))

(* The key store lets a crash after the write of a key be repaired         *)
(* (services/kms/kms-secret-store.ts): the wallet is completed with the    *)
(* key, or fails, or an operator is told.                                  *)
CrashIsRepaired ==
  \A u \in User :
    (~Settled(u) /\ \E s \in Store : store[s][u] # NoKey)
      ~> (Settled(u) \/ Abandoned(u))
===============================================================================
