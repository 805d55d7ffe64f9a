# Learnault API: TLA+ models and proofs

Models of the parts of `learnault-api` whose correctness depends on the order in
which processes, requests and failures interleave: the transactional outbox and
its relay, the scheduler that drains the queues, the sessions with their rotating
refresh tokens, the provisioning of custodial wallets, the account with its
deletion and export, the delivery queues, and the handlers of the API that read,
decide and write in statements of their own. Each model is checked by TLC on
small instances and has theorems proved by TLAPS for every value of its constants.
`PROJECT.json` maps every definition to the lines it stands for and lists the hazards
of the code with the properties that are about them.

Paths below are relative to the repository; `services/x.ts` is
`src/services/x.ts` there, and so on.

## 1. The system

An express API (`server.ts`, `app.ts`) over PostgreSQL (Prisma), with a scheduler
that runs inside the server or in a worker process. There is no broker: work that
outlives a request is a row in a table, and the tables are all that processes
share. PostgreSQL runs at its default, READ COMMITTED.

| Component | State | Operations | What is hard |
|---|---|---|---|
| Outbox and relay (`workers/outbox-relay.ts`, `lib/transactions/*`) | `outbox_events`, `job_attempts` | create event; materialize one job per handler; lease, handle, complete, fail; replay dead letters | reads that are stale when the write comes, crashes between any two statements, expired leases, a replay that races with relays |
| Scheduler (`workers/scheduled-job-runner.ts`) | `queue_leases`; per process: timers, ticks in flight, started, stopping | start, tick, acquire, renew, drain, release, stop | several replicas, late renewals and releases, crashes with a lease held, stop against ticks |
| Sessions (`services/refresh-token.service.ts`, `session.service.ts`) | `sessions`, `refresh_tokens` | issue, rotate, detect replay, log out, log out everywhere, revoke others | a refresh is three statements; everything else runs between them |
| Account lifecycle (`services/account-lifecycle.service.ts`) | `users.status`, `account_deletion_requests` | deactivate, reactivate, request and cancel a deletion, sweep | stale statuses, cancel against sweep, a crash after a claim |
| Data export (`services/data-export.service.ts`) | `data_export_requests` | request, generate, mail, fail, purge, download | the same sweep; a failure after success |
| Wallet provisioning (`services/wallet-provisioning.*`, `jobs/*`) | `wallets`, `wallet_provisioning_jobs`, key store | reserve, claim, generate and store a key, complete, fail | a lease inside an outbox job, a key store whose answers get lost |
| Delivery queues (`services/email`, `notification`, `webhook`) | one table each | queue, drain, count the attempt, deliver, settle | no claim: only the queue lease keeps drains apart |
| Stellar funding (`services/stellar-funding.service.ts`) | `stellar_fundings`, the ledger | queue, submit, reconcile | a payment that times out and lands later; two limits on the attempts |
| Rewards (`services/reward.service.ts`, `utils/money.ts`) | maps in memory, the ledger | claim, withdraw, register a code | a payment between check and record, a restart |
| Modules, offline sync, referrals (`controllers/*`) | `completions`, `sync_events`, `referrals`, `transactions` | start, complete; apply a batch; apply a code, pay a bonus | read, decide, write by id; batches that are sent again |
| Registration, mail tokens, OTP (`auth.controller.ts`, `services/otp.service.ts`) | `users`, `verification_tokens`, `otp_challenges`; limits in memory | register, send, verify, reset | one use of a proof; counts that overwrite each other |
| Avatars (`services/avatar.service.ts`) | `avatars`, storage objects, `avatarUrl` | intent, upload, finalize, delete | objects, rows and profile are written one after the other |
| Consent and onboarding | `consent_records`, `onboarding_progress` | grant, withdraw, save a step, complete | completion decided before it is written |
| Self-custody export (`services/wallet-self-custody-export.service.ts`) | authorizations, key store, custody of the wallet | authorize, export once | five calls, each of which may fail |
| Users, profiles, preferences | `users`, `learner_profiles`, `learner_preferences`, their log | change or reset the password, change the wallet address; update and view a profile; update preferences | logins, refreshes and erasure against changes; consents read one by one |
| Audit trail (`audit/*`) | `audit_events`, append-only | record within a mutation, redact, archive, purge | rollback and retention; metadata that contains itself |
| Credentials, employers, adapters, HTTP shell | none of their own, or counters | read, shape, answer | I/O and formatting |

How they interact: a domain transaction writes an event with its change; the
scheduler drains seven queues (email, notification, webhook, stellar-funding,
data-export, outbox-relay, account-lifecycle), each under its row of
`queue_leases`; the drain of `outbox-relay` is one tick of the relay, which calls
the handlers of `jobs/` (`UserCreated` reserves a wallet and emits
`WalletProvisioningRequested`, whose handler provisions it); logins issue
sessions, and password changes, deactivations and deletions revoke them; the
sweep of the deletions erases the rows of an account while its owner's requests
may still be under way.

What makes each correct, as the models state it:

- outbox: published only after every handler succeeded; jobs created all or none;
  handlers run a bounded number of times; everything settles;
- scheduler: one trusted tick per queue; a stop leaves nothing behind; a queue is
  served while anyone is up;
- sessions: one successor per family; a dead family stays dead; an owner is not
  shut out of a live session by races;
- account and export: an account that waits for its deletion has a way back or an
  end; an owner who does one thing at a time finds the tables agreeing; no request
  is left where nobody looks again;
- provisioning: one key per wallet; ACTIVE wallets have a key that some store holds;
  every reserved wallet ends ACTIVE or FAILED;
- delivery: at most the allowed attempts; nothing pending that no query lists, unless
  the query's limit is below the row's; an account is funded once;
- learning: one reward per module, one bonus per paid referral, and what a device
  is told to forget is stored;
- proofs of identity: used once, wrong codes counted, nothing proven without one;
- rewards: nothing overdrawn, books and ledger agree, a claim paid once;
- records: an avatar that is shown is there; an onboarding misses no consent; a
  secret is delivered once and not lost; no session outlives its password, and what
  a change of it revokes keeps no token; a closed profile shows nothing; the
  preference log and the audit trail are the history; what is denied is not stored,
  and what is replaced or cut off is reported.

## 2. Modules

```
OutboxDelivery  <-- refines --  OutboxRelay         <-- MCOutboxRelay
                                    ^-- OutboxRelay_proofs
QueueLock       <-- refines --  ScheduledJobRunner  <-- MCScheduledJobRunner
                                    ^-- ScheduledJobRunner_proofs
                                WalletProvisioning  <-- MCWalletProvisioning
                                    ^-- WalletProvisioning_proofs
                                DeliveryQueue       <-- MCDeliveryQueue
                                    ^-- DeliveryQueue_proofs
                                Verification        <-- MCVerification
                                    ^-- Verification_proofs
                                AccountLifecycle    <-- MCAccountLifecycle
RefreshTokens  <-- INSTANCE --  Sessions            <-- MCRefreshTokens
        AccountLifecycle, Sessions  ^-- Accounts_proofs
                                Learning            <-- MCLearning
Rewards        <-- INSTANCE --  LearnerRewards      <-- MCRewards
          Learning, LearnerRewards  ^-- Earnings_proofs
Avatars, Onboarding,
SelfCustodyExport, UserAccount,
LearnerProfile, Preferences,
AuditTrail,
Redaction      <-- INSTANCE --  Records             <-- MCRecords
                                    ^-- Records_proofs
```

`Records` puts the variables of eight components side by side that share nothing
but the user. `MCRecords` checks each of them on its own, from the initial states
whose `part` names it, so that one run serves them all.
`Sessions` and `LearnerRewards` do the same for one component each: they rename its
constants and variables, so that it can be proved about beside another one that has
names in common with it. The three modules have no action of their own. They restate
the properties under their own names (`AvatarServed == A!AvatarServed`), and a run
and a theorem then speak of the same definition.

The grain is the same everywhere. One step is one statement outside a
transaction, or a whole transaction if nothing it has read can be changed by
others before it ends. What code has read stays in a register of the model and
may be stale when it writes. Variables that the modules call history (`late`,
`lost`, `runs`, `mixed`, the counts of deaths and so on) are read by no action of
the code; guards read them only as bounds. Definitions headed "Seeded fault" are
used by no specification: each is a wrong form of the definition after it, the bug
that a property must catch.

Many handlers lose updates when two requests of one user overlap. The properties
say exactly how much: a variable `alone`, chosen at the start, keeps requests (or
the drains of a queue) apart, and a history variable (`late`, `mixed`, `raced`)
counts what overlaps did. A property then promises all that holds when nothing
overlaps and bounds the damage when something does.

### OutboxDelivery, OutboxRelay

`OutboxDelivery` is the promise to the code that emits events: `PUBLISHED` only
when each handler of the event has succeeded, successes are not forgotten, events
do not disappear. `OutboxRelay` is the code:

- `CreateEvent`, `MarkRolledBack`: `OutboxService`;
- `StartTick`, `DeadLetterUnhandled`, `Materialize`, `BeginDispatch`:
  `materializePending`. The list of events is read once; each is treated later,
  one statement or transaction at a time;
- `FindJob`/`NothingFor`, `TakeLease`: `leaseJob`. Its two reads are one step
  (both use a time fixed before them, and only the second one's result matters
  when the first is empty); its update, by id, is another;
- `HandlerSucceeds`, `HandlerThrows`: `dispatchOne`;
- `CompleteUpdate`, `CompleteCount`, `CompleteCommit`, `CompleteRefused`,
  `CompleteAbort`: `completeJob`. The row it has written and its key in the
  unique index on `idempotencyKey` stay locked until the commit (`RowFree`,
  `KeyFree`), and nobody sees the write before;
- `FailRead`, `FailRetry`, `FailDeadLetter`, `FailRefused`: `failJob`. The token
  is compared on the read, the update goes by id;
- `Crash`; `LeaseExpires` and `BackoffEnds` for time;
- `ReplayStart`, `ReplayCheck`, `ReplayWrite`, `ReplayFinish`, `ReplayCrash`: the
  replay command, which takes no queue lease.

A lease token is a fresh UUID; a relay has one lease at a time and forgets it in
a crash, so its name stands for its last token. A job row is named by event,
handler and the relay that created it. A database error that ends a tick is a
crash of it. `Exclusive` says that ticks do not overlap: what the scheduler's
lease gives while it is not lost (see `QueueLock`). Left out: `markPublished`,
`markDeadLetter`, `createJobAttempts` and `recoverAbandonedLeases`, which nothing
in `src` calls; payloads, and the branch for an event row that is missing (rows
are never deleted).

### QueueLock, ScheduledJobRunner

`QueueLock` is a lock whose holder may lose the trust but never shares it.
`ScheduledJobRunner` models any number of runners, one per process. A chain
`<<runner, queue, slot>>` is a timer, the tick it fires and the next timer; the
maps `timers` and `inFlight` are keyed by queue name as in the code, so that the
chains of a second `start()` displace those of the first. `Start`, `Stop`,
`StopDone`, `StopGivesUp` are `start` and `stop` with its deadline; `Fire`,
`Acquire`, `Skip`, `AcquireFails`, `DrainEnds`, `Release`, `ReleaseFails` are
`tick` and `runQueue`; `SendBeat`, `BeatArrives`, `BeatLost` are the heartbeat,
which nobody awaits and which may reach the database after the drain, or after
the process has died; `LeaseExpires`, `Crash` and `Exit` are the rest. One
renewal of a chain is under way at a time. `StartAgain` allows a start while
ticks of an earlier one are in flight: the class allows it, no caller does.
Left out: `runOnce`, which nothing calls, and `inspect` and `record`, which read
and count.

### RefreshTokens

One user's sessions. A family of tokens belongs to one session for life, so the
session names it; tokens live as long as the session or longer, so only the
session's expiry counts. `PresentActive`/`PresentRotated`, `ClaimWins`/
`ClaimLoses`, `Mint`, `AnswerReuse` are `rotate`; `Logout`, `ListSessions` and
`LogoutAll`, `ChangePassword`, `RevokeOne`, `RevokeAllOthers` and `RevokeLive` are
the revocations (the last three revoke sessions and leave their tokens as they
are: one session, all but the caller's, and all of them by a reset, a deactivation
or a deletion); `Die` is a request that ends between two statements. A password change lists and
updates in one transaction: it is one step because sessions and tokens that
appear between its reads and its writes are in the same state as after it. The
mint writes its token before the session row and the revocation its tokens before
the session row, so that a mint which a revocation does not see commits as if
after it, which is the order the model gives it.

### WalletProvisioning

The two handlers of `jobs/` with the repository and the key store they use. A
wallet has a job with a lease, a count of attempts and a backoff of its own, and
the handler that works on it runs in an outbox job with another lease, count and
backoff. The outbox is reduced to what the handlers feel of it (`Take`, `Settle`,
`TaskLeaseExpires`, `TaskDue`, `Replay`): `OutboxRelay` has the detail.

- `ReserveRefused`, `ReserveRead`, `ReserveWrite`, `ReserveConflict`:
  `reserveEligibleWallet`. `wallet.upsert` has `update: {}`: Prisma sends no
  native upsert for that, it reads and creates the row if there is none, so the
  status on which the rest decides is read without a lock, and which branch was
  taken stays in `pc` until the writes (`create`, `revive`, `requeue`). If the
  upsert did lock the row, there would be fewer behaviours, not others;
- `CheckRequested`, `EmitRequest`: the rest of `UserCreatedHandler.handle`. The
  event and the outbox job that the relay makes of it are one row here;
- `Claim`, `ClaimIdle`: `claimByWalletId`. Its update repeats the condition of its
  read, so only one claim wins;
- `Lookup`, `StoreKey`, `StoreUncertain`, `KeyStoreFails`: `handleClaimed` and the
  key store, whose answer may be lost after the write;
- `CompleteRead`, `CompleteWrite`, `FailRead`, `RecordFailure`: `complete` and
  `recordFailure`, which read without a lock and write by id;
- `DatabaseFails`, `Crash`, `JobLeaseExpires`, `JobDue`, `ChangeEligibility`.

A key store belongs to a set of processes (`StoreOf`) and may be durable or not.
`KmsSecretStore` promises one that is shared and survives; `handler-registrations.ts:45`
wires an `InMemoryEnvelopeKms` into each process, which does neither. The `wallet` run
and `KeyIsStored` are about the former, the theorem `KeysAreHeld` about either, and the
run `wallet_crash` shows what a store in memory does to a wallet when its process dies. `kinds` fixes at the start which faults
a behaviour may meet, so that one run checks safety under all of them and
liveness under some. Left out: `claimNext`, `handleNext` and
`WalletProvisioningService.request`, which nothing in `src` calls, and statuses
that other services give a wallet later (EXPORTING, MIGRATED, DISABLED).

### AccountLifecycle

One user's account, the requests to delete it and to export its data, and the two
sweeps. The owner's handlers read the status (`RequireActive`,
`VerifyCredentials`, `AccountStatusError`), compare a password, which is where
others overtake them, and then write by the user's id: `StartLogin`/`IssueSession`,
`StartDeactivate`/`Deactivate`, `StartReactivate`/`Reactivate`. A deletion is
`StartDeletion`, `StepUp`, `FindDeletion` (is there one already?) and
`CreateDeletion`, whose conflict with the partial unique index answers the same;
`StartCancel`, `CancelRow`, `RestoreAccount` are `cancelDeletion`, in two
transactions. `List`, `Claim` and then `FinalizeDeletion`, `FinalizeFails`,
`FinalizationFailure` or `GenerateExport`, `GenerateFails`, `MailExport`,
`ExportFailure` are the sweeps; `PurgeExpired` and `Download` the rest of the
export. `TimePasses` lets a row become due, `Die` ends any process.

Two partial unique indexes allow one active row of each kind, so a list has one
element and `cur` holds it. What the export contains, and which rows a deletion
removes besides, is left out; the deletion's effect on the export rows, on
sessions and on the status is in.

### DeliveryQueue

The four queues whose rows are things to send, in one module, because a drain does
the same in each: list what is due (`ListEmails` and so on), count an attempt
before it delivers (`CountAttempt`), deliver (`SendEmail`, `SendPush`,
`SendWebhook`, or for a funding `CheckSubmitted`, `CheckFunded`, `MarkConfirmed`,
`PreparePayment`, `SubmitPayment`, `WaitForTransaction`, `RecordTimeout`) and
record what came of it (`RecordSuccess`, `RecordRefused`, `EmailFails`,
`NotificationFails`, `WebhookFails`, `FundingFails`). `CheckHealth` and `SwitchOff`
are the end of a webhook endpoint that failed too often. `AskPreference`,
`AskEndpoint`, `AskFunding` and the `Create` actions queue rows, in two statements
where the code takes two; preferences and device tokens change in between
(`UpdatePreferences`, `RegisterToken`).

Two limits bound the attempts of a row. The query lists it while its count is below
the one (`limit`, by kind: 5 in the text of three queries, and
`STELLAR_FUNDING_MAX_RETRIES` for the fundings, `config/stellar.ts:6`); the failure
handler gives it up when the count that was listed reaches the other
(`MaxAttempts`: `maxAttempts` or `maxRetries` of the row, whose default of 5 nothing
that queues a row overrides, `stellar-funding.service.ts:38`, `:200`). Nothing makes
the two agree. With the variable below 5 a funding whose attempts are spent stays
`pending`, and no drain ever lists it again, without a crash and without an overlap;
with the variable above 5 nothing happens, since the handler settles the row first.
`NothingStranded` says that this is the only way to strand a row, and the instance
reaches it.

A row has no claim: `seen` is what the drain has listed, `row` what is there now.
The ledger is external: a payment is on its way (`flying`) from `SubmitPayment` to
`Settle`, where it lands or is dropped, also after the drain stopped waiting. An
account is created once: a second payment that creates it is refused.

### Learning

`StartModule`, `CreateCompletion` and `CompleteModule`, `CompleteAgain`,
`UpdateCompletion`, `CreateReward` are `module.controller.ts`; `Sync`, `TakeEvent`,
`ReadProgress`, `ReadCompletion`, `InsertCompletion`, `WriteCompletion`,
`RecordEvent` are `syncCompletions` and `syncProgress`, which treat a batch event by
event; `GenerateCode`, `DrawCode`, `CreateCode`, `ApplyCode`, `CheckReferral`,
`CreateReferral` and `StartBonus`, `CountCompletions`, `MarkPaid`, `BookReferree`,
`BookBonus` are referrals. The three share `completions`: a device may complete a
module for which a request is under way, and a bonus depends on how many there are.
Unique indexes (`userId, moduleId`; `idempotencyKey`; one referral per referree; one
code per learner) are conditions of the inserts.

### Verification

A proof is a row of `verification_tokens` (kinds `email`, `reset`) or of
`otp_challenges` (kinds `login`, `phone`). `StartRegister`, `CreateUser`,
`ResendVerification`, `ForgotPassword` and `RequestOtp`, `RefuseOtp` start a request
that goes on with `RevokePending`, `CreateProof`, `Send`; `VerifyEmail`,
`ResetPassword`, `VerifyOtp` read a row, and `MarkVerified`, `SetPassword`,
`MarkExpired`, `CountMismatch`, `Consume`, `ProvePhone`, `LogIn` write it later. The
cooldowns and counters by user, address and device are a set of pairs that are
refused for now; `Die` may be a restart, which empties it. Three histories say by how
much overlapping requests spoil the rows: `wrong`, the wrong answers that were given,
`undone`, those that a later write of an older count has taken back, and `late`, the
times a proof was accepted although another request had spent it.

### Rewards

`StartClaim` and `StartWithdrawal` do what the code does before its first `await`;
`LoadAccount`, `Submit` and the answers `Confirmed`, `Refused`, `TimedOut`,
`NotSent` are `sendPayment` with what its caller does with the answer. `Lands` and
`Drops` are the ledger: a payment must continue the sequence number of the one
source account. `Restart` empties the maps. The amounts are those of `money.ts`,
with its range checks after every operation and its truncating division.

### The components of Records

- `Avatars`: `CreateUploadIntent`, `Upload`; `BeginFinalize`, `ReadBytes`,
  `MarkFailed`, `WriteOriginal`, `WriteVariant`, `FindActive`, `Promote`,
  `UpdateProfile`, `FindRetired`, `DeleteRetired`, `EndFinalize`; `BeginDelete`,
  `FindVariants`, `DeleteObject`, `DeleteRow`; `Crash`. An image is valid or not.
- `Onboarding`: `Grant`, `BeginWithdraw`/`Withdraw`, `GetProgress`,
  `BeginSaveStep`/`SaveStep`, `BeginComplete`, `CheckConsents`, `Complete`. Policy
  versions and `currentStep` are left out.
- `SelfCustodyExport`: `Authorize`, `ClaimAuthorization`, `LoadSecret`,
  `CompleteMigration`, `DeleteSecret`, `Deliver`, and `NoSecret`,
  `MigrationRefused`, `ReleaseClaim`, `Break` when one of them fails. The repository
  of authorizations has no implementation in `src`: it is modelled from its
  interface and its tests' use of it, and marked external.
- `UserAccount`: `StartChange`, `WritePassword`, `ListSessions`, `CommitChange`
  (one transaction that holds the row lock of the user from its first statement),
  and `StartReset`, `CommitReset`, which go the same way with a token of
  `verification_tokens` (Verification has it in detail); `StartWallet`,
  `LookForClaimant`, `WriteWallet`; next to them everything that writes the same
  sessions and their tokens: the login (`StartLogin`, `TouchAccount`, `OpenSession`),
  `rotate` (`StartRefresh`, `ClaimToken`, `MintToken`, `RevokeReplayed`), the logouts
  (`LogOut`), the revocations that leave the tokens (`RevokeSessions`: one session, all
  others, and those of a deactivation or a request for deletion) and the erasure.
  `spared` is the history of the tokens that outlive their session: a reset
  (`auth.controller.ts:1010`) and `session.service.ts:193` leave them, and a refresh
  mints into a session that was revoked after it was read
  (`refresh-token.service.ts:199`). Logins by OTP and the session of a registration
  need no password and are left out, as are statuses other than ACTIVE and DELETED,
  which make no difference to the changes. RefreshTokens follows the families of one
  user's tokens, which here are only tokens of a session.
- `LearnerProfile`: a view (`GetUserById`, `GetProfileById` for an employer or the
  public, the owner's own) reads the user, the profile and the consents in separate
  statements, some of them together, so that `ReadOne` takes them in any order;
  everything it depends on changes meanwhile.
- `Preferences`: `StartUpdate`, `Upsert`, `AuditPrivacyChanges`.
- `AuditTrail`: `Start`, `Mutate`, `RecordWithin`, `Rollback` (an audited mutation),
  `Record` (an event that stands alone), `StartPurge`, `PurgeExpired`, `PurgeFails`.
- `Redaction`: the walk over a graph of objects and arrays that share and contain
  each other, checked against a reference definition (`Safe`, `Unfold`) over all
  graphs of two nodes. It is written as a function of the levels that are left
  (`walk[room]`, from the walk one level down), and the entries of one container as a
  function of how many of them are walked, so that it can be proved about; so are the
  tree it is compared with (`Unfold`) and what may be stored (`Safe`). An error is
  stored with two keys that the code does not count against `maxKeys`: the limit must
  be 2 at least (it is 32). What has no form in JSON is converted without a report
  (`WalkLeaf`, `WalkError`, `Own`): a number that is not finite is null, a bigint or a
  date is text, an error is its name and its message, a Map or a Set is an object
  without keys. `NothingDenied` names these four and no other. An invalid `Date`, for
  which `toISOString` throws against the "Never throws" of `redaction.ts:205`, is not
  modelled.

## 3. Runs

| Run | Instance | Shows |
|---|---|---|
| `relay_serial` | 1 event, 2 handlers, 2 relays that do not overlap, 2 attempts, 1 crash, 1 replay | `OneJobPerHandler`; `EventMatchesJobs` (status and jobs agree at every moment); `RunsBounded` (attempts plus crashes); `EventSettles` under fairness |
| `relay_overlap` | 2 events, one without a handler, one that is rolled back at any time, 2 relays in any interleaving | `DeliverySpec`: the refinement |
| `scheduler_replicas` | 2 runners, 1 queue, 2 faults | `LockSpec`: the refinement; `CleanStop`; `LeaseProtects`; `QueueServed` under fairness |
| `sessions` | 2 sessions, 3 requests, 3 tokens each, 1 fault | `OneSuccessor`, `LateAtMostOnce`, `LiveIsUsable`, `DeadFamilyStaysDead` |
| `wallet` | 1 user, 2 relays, 2 keys, 2 attempts of each count, 3 faults or replays | `StatusesAgree`, `KeyIsStored`, `FailedIsExhausted` under every fault; `WalletSettles` under fairness when only the key store fails |
| `accounts` | 2 deletions and 2 exports, 2 requests, 2 sweeps, 2 attempts, 1 death; both tables when nothing overlaps, one of them when everything may | `WayBack`, `AloneAgrees`, `NeverStranded` |
| `deliveries` | a mail, a notification, up to 3 webhooks, a funding, one queue at a time; 2 drains, 2 callers, 2 attempts, a health window of 2, 1 death; drains that overlap and drains that do not; a limit of the funding query from 1 to 3 | `AttemptsBound`, `NothingStranded`, `FundedOnce` |
| `learning` | 2 learners, 1 module, 5 idempotency keys in 4 batches, 2 codes, 2 requests, 1 death; completions with batches, completions with referrals | `RewardedOnce`, `KeptScores`, `BonusesAgree` |
| `verification` | 2 users, 1 phone, up to 3 proofs, 2 requests, 2 wrong codes, 1 death; mails, phone proofs and logins, with overlaps or with a death | `UsedOnce`, `Proven` |
| `rewards` | 1 user, 1 module, 3 requests, 1 lost answer, 1 restart | `NeverOverdrawn`, `BooksAgree`, `ClaimPaidOnce` |
| `records` | 2 avatars; 3 purposes and 3 steps; 2 authorizations; 2 users, 3 callers, 2 passwords; 3 consents; 3 updates; 2 audited calls, times up to 2; graphs of 2 objects with 2 entries | `AvatarServed`, `NothingMissing`, `DeliveredOnce`, `SecretNotLost`, `SignedOut`, `ClosedGatesHold`, `LogIsHistory`, `ChangesOnRecord`, `NothingDenied` |
| `wallet_crash` | violation; 1 crash and nothing else | a wallet PROVISIONING for good with its request COMPLETED, against `kms-secret-store.ts:38` |

Why the bounds are enough. Relay: a job meets its siblings (two handlers), another
relay, a retry and an end of its attempts, a crash and a replay; a third handler,
relay or attempt brings no new pair of steps that race, and the theorems drop the
bounds for the safety properties. Fewer jobs than a batch (50) exist, so a tick is
never cut short by it. `RunsCap` is above every value `RunsBounded` allows.
Overlapping relays have one attempt to keep the run short; the refinement is
proved for all. Scheduler: two replicas fight for one queue; queues share nothing
but the runner's maps, keyed by name. One slot is one start per process life; that
a second start displaces the timers of the first (`StartAgain`) is covered by the
proofs. Sessions: three requests let two race for a token while a third logs out or
replays; the third token is the successor of a successor. Wallets: users share
nothing; two relays overlap in every way, two attempts are a retry and an end of
both counts, and three faults allow a slow process, a second fault while it is
overlapped, and a replay. Two keys let a second one be drawn. Accounts: a second
row of a kind is the request after one that ended; a third can meet nothing else,
since one row of a kind is active at most. Deliveries: rows of one queue share only
what they are listed with, and the endpoint, whose health window two webhooks fill
and a third one sees; no two queues share a row. The limit of the funding query is
below, at and above that of the row. Learning: two keys of one
completion with different scores, two versions of one progress, and one event that
is refused are all that the handlers tell apart. Verification: three proofs let
one be replaced by another and a third follow; two wrong codes, for the five of
`OTP_MAX_ATTEMPTS`, let one write undo another, and the proofs cover every value. Rewards: two requests race and a
third sees what they left; that a reward's three amounts are in range is decided in
one step. The records: two requests overlap in every way; three preference updates
and three callers of `UserAccount` add one that finds what the others left (nothing
tells the callers or the users apart: of three callers two have the same user, and
`InOrder` names the two and the one of them that begins first); of consents the
last one counts and the one before it is the history of it.

Deadlock is checked where the system never stops: relay, scheduler and wallet runs.
In the others every row may end settled and every request answered.

Fairness. Relay: the scheduler ticks it over and over and each statement returns,
so a relay's next step is weakly fair, and so is the passing of time (a lease runs
out, a backoff ends). Crashes, replays and new events are never forced.
Scheduler: timers fire, statements return and drains end; time passes. Neither
heartbeats nor starts nor stops are forced. A drain that hangs renews its lease
for ever (`scheduled-job-runner.ts:154`): fairness of `DrainEnds` assumes it away,
and `QueueServed` holds only so far. Wallets:
relays run and statements return, leases of those who no longer work run out and
backoffs end; faults, replays, eligibility and the expiry of the lease of one who
is at work are never forced. `TaskDue` uses that the outbox's backoff, 2^attempt
seconds, ends after the wallet's, 2^(attempts-1), as long as its count is not behind
by more than one: `WalletSettles` depends on it. The other runs assume no fairness: they have safety
properties only, and what they say of progress (`NeverStranded`, `NothingStranded`,
`WayBack`) is that some step can still be taken.

Further disagreements between documents and code, not given a run:

- no code looks at the idempotency key of a job before its handler runs, so a relay
  whose choice is stale runs a completed one again (`schema.prisma:803` says it is
  skipped);
- two relays may handle one job on leases that did not run out, since the lease is
  written by id after it was read (`job-lease.service.ts:5` promises one worker);
- dispatch does not look at the event's status, so an event that was rolled back
  after its jobs were created is still handled (`types.ts:41` says workers skip it);
- a replay that races with a relay may leave an event PENDING with every job
  COMPLETED (`types.ts:39`);
- a claim that loses to a logout is reported as another's reuse
  (`refresh-token.service.ts:193`);
- a token may be minted in a session that was revoked meanwhile
  (`refresh-token-rotation.md:23`), and a request that dies after its claim leaves a
  live session without an ACTIVE token (`refresh-token-rotation.md:34`);
- an ACTIVE wallet may become FAILED or RETRYABLE when a late failure is recorded
  (`wallet-provisioning.types.ts:21`);
- a funding whose attempts are spent stays `pending`, and is neither retried nor
  dead-lettered, if `STELLAR_FUNDING_MAX_RETRIES` is below the row's `maxRetries`
  (`schema.prisma:540` knows pending, submitted, confirmed and dead-letter);
- revoking all other sessions with an access token older than the last refresh
  revokes the caller's own as well (`session.controller.ts:16`);
- the list of sessions promises the current one on every page and the last used
  first, and sorts by id before it cuts the page (`session.service.ts:80`, `:98`);
- a sweep that finalizes a deletion leaves the learner profile, preferences,
  onboarding and consents of the account, which the classification calls CASCADE;
- reading the own profile of an erased account may create a row again
  (`profile.service.ts:100`);
- the log of privacy preferences misses or misattributes updates that overlap
  (`preference.service.ts:21`).

What else the code of wallets does, met while modelling: the outbox gives a request
5 attempts and the wallet has 8, so a wallet may stay RETRYABLE when its request is
dead-lettered; a replay resets the count of the outbox and not the wallet's, whose
backoff is then the longer one, and the retry finds nothing to claim and counts as a
success; a last attempt whose failure cannot be recorded answers `dead-letter` and
ends the outbox job while the wallet stays PROVISIONING; the 5 attempts of
`UserCreated` are over in about half a minute, usually before the user has verified
the account and consented; a replayed `UserCreated` requeues the wallet's job but
finds its old request and emits none.

What else was met in the other components. None of it has a run of its own: it is
in the models, and the properties allow it where they say so.

- Account: the login rehashes an outdated hash with the password it was given, and
  so may put an old password back after a change (`auth.controller.ts:523`); a write
  that overlaps an erasure, or follows it with an access token that is still valid,
  lands on the tombstone (the middleware does not read the status). A deletion that
  was given up leaves the account PENDING_DELETION, where neither cancel nor
  reactivate helps.
- Deliveries: the failure handler compares the count that was listed; overlapping
  drains may leave a row with its attempts spent. A payment whose last attempt
  timed out stays SUBMITTED.
- Learning: a completion that a device syncs ends the module without a reward;
  modules in progress are shown as completed by `listModules` and `getModuleById`;
  `processReferralBonus` has no caller in `src`, and `schema.prisma` no longer has the
  `amount`, `reward` and `bonusAmount` columns that the handlers write.
- Verification: `verifyEmail` accepts a token of any type, and `resendVerification`
  revokes reset tokens, too; the LOCKED branch of `verifyChallenge` cannot be reached,
  since the last wrong code already takes the row out of PENDING.
- Rewards: the payment's memo is longer than the 28 bytes Stellar allows for most
  ids; `waitForTransaction` does not recognise a FAILED transaction; a claimed reward
  is paid at once and still counts as withdrawable; `pendingWithdrawals` is only
  written. `claimReward` and `registerReferralCode` have no caller in `src`.
- Avatars: a replaced avatar is PENDING until its objects are deleted and may be
  finalized again; overlapping finalizes leave two ACTIVE ones; a crash leaves
  `avatarUrl` behind. Onboarding: overlapping saves lose steps. Self-custody export:
  a failure after the migration loses the secret.
- Trail: `purgeExpired`, `auditedArchive` and `auditedRestore` have no caller in
  `src`. `actorFromRequest` takes a user whose role is ADMIN (`schema.prisma:401`;
  `types/user.types.ts:4` spells it `admin`) for an ADMIN actor, who must give a
  reason; the model lets a call have an actor of any type. Redaction
  checks neither the text of keys nor the name of an error, and cuts an object that
  is shared, not only one that contains itself; an error keeps neither its stack nor
  its cause, and a Map or a Set nothing, without a mark.

## 4. Proofs

With any number of events, handlers, relays, runners, queues, chains, sessions,
requests, users, learners, modules, keys, rows, sweeps, drains, attempts, amounts and
faults, from the named assumptions of the modules: the types of the constants, that
"no worker", "no tick" and the like are not one of those they are absent from, and,
where something is counted or summed, that there are finitely many of them
(`LearningAssumption`: requests and learners; `RewardAssumption`: requests); and that
an object may keep two keys (`RedactionAssumption`). No bound of section 3 is among
them.

- `OutboxRelay_proofs`: `TypeCorrect`, `AllOrNone`, `ImplementsDelivery`,
  `OneJob`, `StatusAgrees`, `RunsAreBounded`, `NoneForgotten`. The inductive invariant is `TypeOK`
  with `InHand` (what registers hold fits where the relay is), `Referential` (a row
  that exists has its handler and an event), `Succeeded` (a COMPLETED row's handler is in `handled`, and so is
  that of a job about to complete), `JobsAllOrNone`, and `CountStillTrue`: if a
  relay has counted zero unfinished jobs, every handler of that event has
  succeeded. The last is what makes a decision taken on a stale count harmless:
  rows may leave COMPLETED, successes may not be undone. `OneJob` adds `OneTick`
  and `ListIsFresh` for ticks that do not overlap: an event on the list still has
  no jobs.
  `StatusAgrees` and `RunsAreBounded` hold of such ticks, too, and need `Settled`:
  the row in hand is as `leaseJob` left it (`HeldRows`), the count of `completeJob`
  is what it would be at the commit (`CountIsCurrent`), a replay resets dead jobs
  only (`ReplayDead`), each run of a handler is behind an attempt that is counted,
  behind a crash, or in hand (`RunsCounted`), and status and jobs agree (`Agreed`).
  `NoneForgotten` follows: an event that is PENDING is yet to be listed or has a job
  that is yet to end.
- `ScheduledJobRunner_proofs`: `TypeCorrect`, `LeaseProtected`, `ImplementsLock`,
  `CleanShutdown`, `Attended`. `LeaseProtects` is inductive with types alone, because all
  three statements look at the row they write; the lock follows from it.
  `CleanStop` needs that each queue of a runner has one chain, that the maps name
  exactly the live chains, that what `stop` waits for covers the ticks in flight,
  and that a token in the table belongs to a chain that will release it unless
  something failed. `Attended`: a runner that is up has a live chain for each queue
  (`QueuesAttended`), which is inductive with types and `OwnTimers`.
- `WalletProvisioning_proofs`: `TypeCorrect`, `RowsAgree`, `FailedLast`,
  `KeysAreHeld`, `HandedOn`. `StatusesAgree` is inductive with types and `WalletSeen` (who is
  about to reset a job has seen its wallet, and wallets are not deleted): what each
  write leaves is consistent in itself, however stale its decision. `FailedIsExhausted`
  needs `TriesCounted`: a relay's count is never above the row's, which only grows.
  `KeysAreHeld` assumes nothing of how the stores are given to the processes: an ACTIVE
  wallet has a key, and while no store forgets (`Lasting`) some process's store holds
  it. It adds `MaterialStored`: who is about to complete a wallet holds the key of its
  own store, which nothing replaces. Which process that is, the wallet does not say,
  and another one may hold another key: that every process would find the key
  (`KeyIsStored`) follows only with one durable store for all, which the code does not
  have (the lemma `KeysWouldBeStored`).
  `HandedOn` is about behaviours in which nothing but the key store fails (`Quiet`).
  Then a leased outbox job is in the hands of its relay (`Tended`), a user has one
  request (`OneRequest`), and each outbox job finds the wallet as its handler needs it
  and leaves it so that somebody goes on (`Handled`): nothing is reserved before
  `UserCreated` is handled and a request is there afterwards; a request that waits
  finds a wallet that waits, one that comes due finds the wallet's job due, because the
  count of attempts of the latter is never ahead; one that returns leaves a wallet
  that has ended.
- `DeliveryQueue_proofs`: `TypeCorrect`, `Bounded`, `StrandedNever`, `FundedOnceAlways`,
  for any limits of the queries beside any limit of the handlers.
  `AttemptsBound` needs `CountedFirst`: deliveries and the drains about to deliver are
  together no more than the attempts. The other two need `AsListed` (a drain without
  a rival finds its rows as it listed them), `Within` (no count is above the limit of
  its query, and what the drain still has on its list is below it) and, for the payments, `Answered` (while
  nothing dies, a payment without an answer is over before its row is looked at
  again) and `Paid` (what landed and what may still land is bounded by the excuses).
- `Verification_proofs`: `TypeCorrect`, `UsedOnceAlways`, `ProvenAlways`. Inductive
  with: `AllInHand` (a request names a row that exists, of the user, kind and phone it
  goes on with, and has been sent it before it accepts it), `Spending` (a row that
  waits was accepted too late or not at all), `Counting` (attempts, and the answers
  that were undone), `Apart` (when requests keep apart, what one has read of a row
  is still so), `Owned` (every claim of an account has its proof; phones differ) and
  `Reset` (resets are no more than the tokens used for them). Rows keep their user,
  kind and phone, and what was sent or accepted is never taken back: that a request
  in the middle of its work is not disturbed by another follows from that alone.
- `Accounts_proofs`, of the account: `TypeCorrect`, `WayBackAlways`, `AgreesAlone`,
  `StrandedNever`. Inductive with: a claimed row is in the hands of one sweep
  (`OneHolder`), one row of a kind is active (`OneActive`, the unique
  indexes), a row that is PROCESSING has the sweep that will settle it (`Treated`),
  no count is behind when runs do not overlap (`Counted`), and `Known`: what a
  handler of an owner who does one thing at a time has read is still true.
- `Accounts_proofs`, of its sessions: `TokensTyped`, `OneAtATime`, `LateOnce`,
  `DeadFamily`, `Usable`. `OneSuccessor` is strengthened by `OneHeld` (a request
  holds one row), `Existing` (it exists, and so does its session) and `LateClosed`
  (once a token was minted late, nobody in the session is minting nor holds an
  ACTIVE token to claim).
- `Earnings_proofs`, of learning: `LearningTyped`, `RewardsCounted`, `ScoresKept`,
  `BonusesCounted`. `LearnInv` says what a request has found out, in two parts: what
  no other can undo (`Found`: a completed module stays completed, a referral stays),
  and what only holds while requests keep apart (`StillFinds`). `Counted` adds to
  the rewards that are booked those about to be (`Rewarding`): together they are no
  more than first completions and completions that overtook one another. That is
  what `RewardedOnce` follows from: the reward is written a statement after the
  score, and by then another request may have written the score again.
- `Earnings_proofs`, of rewards: `RewardsTyped`, `Reconciled`, `PaidOnce`,
  `SolventAlways`. `PaidInv` ties books, payment and place of each request together
  (`Booked`: while it is under way its payment has not landed without it, and a
  payment that nobody waits for was given up or forgotten by a restart), and says
  that two claims of one reward that can both be paid have raced (`ClaimsRaced`).
  `NeverOverdrawn` is about three sums over requests. What a step does to each is
  shown for every set of requests: adding one adds its amount, and sets of other
  requests keep their sum.
- `Records_proofs`. Avatars, `ServedAlways`: a request that is alone may count on what
  it has read and written (`CountsOn`), and no second one is under way (`Alone`).
  Onboarding, `NothingMissingAlways`: what a request goes by is still true when it
  writes (`StillTrue`), since required consents are not taken back and a lone save
  loses no step. Self-custody export, `DeliveredOnceAlways` and `SecretKept`: one
  request migrates the wallet, and from then on it has the secret (`Handed`). Users,
  `UsersTyped`, `SignedOutAlways`, `OneClaimantAlways`, `UsersAudited`: the row lock of
  a user lets one change in (`OneChange`), and what a change has listed is every live
  session but those opened since (`AllListed`, the history `late`); a token that is
  ACTIVE is of a live session or of one in `spared`, since whoever revokes sessions
  either takes the tokens along or is in that history. Profiles,
  `ClosedGatesAlways`: whatever order a view reads in, what it has read shows the
  gates that are closed since it began (`Noticed`). Preferences, `LogAlways`: what a
  lone update read is what the log ends with, and what it is about to log leads from
  there to the row (`Pending`). Trail, `Recorded`: a row has the time and the
  content of its call (`OfItsCall`), and a purge under way takes nothing younger than the
  retention (`CutOff`). Redaction, `Unrevealing`: for any graph of metadata, cycles
  included, and any limits on depth and breadth. The walk threads the objects it has
  met through all entries, so what it makes of a value depends on what was walked
  before; the proof bounds it level by level instead. With room for one level more,
  every result of the walk is in the set that is safe with that room, and it is the
  tree as far as that room goes unless it says that it was cut or replaced
  (`WithinIsSafe`), whatever had been met; within a level the same is carried from
  entry to entry (`WalkedOn`).

Each inductive invariant was checked by TLC on the instances of section 3 before it
was proved. The sums of the balances are folds: a recursive function over the subsets
of a finite set. That it exists and adds one amount for each element is proved without
an induction theorem (the provers cannot instantiate one), by looking at a smallest
set for which it would not (`WFMin` over strict inclusion of finite sets). The walk
over the metadata is four recursive functions of numbers; that each exists, and what
they have in common at every level, is shown by `CountUp`: a set that has 0, and with
a number the next one, has all up to the end (`WFMin` over the order of numbers).

Model-checked only: liveness (`EventSettles`, `QueueServed`, `WalletSettles`), which
is out of the prover's reach. What can be said of each without fairness is proved:
that whatever still has to happen is in somebody's hands (`NoneForgotten`, `Attended`,
`HandedOn`). The first and the last name an outbox job, the second a chain; that these
go on is what fairness adds, and TLC checks that it suffices. Every other property of
a run is proved, except the one that `wallet_crash` refutes.

## 5. Not modelled, and why

- Credentials and employers: the handlers read, shape and answer.
  `contactCandidate` adds a row to `webhook_deliveries` that is settled when it is
  created.
- The adapters to Stellar, Soroban, KMS, SMS and storage: they enter the models of
  their callers as outcomes (a payment that lands late, a key store that loses
  answers, a message that does not arrive).
- The HTTP shell: routing, validation, error shapes, counters.
- Code of modelled components that nothing in `src` calls is left out where the
  sections above say so, and modelled where it is the component's purpose
  (`processReferralBonus`, `claimReward`, `purgeExpired`).
