---------------------------- MODULE DeliveryQueue ----------------------------
(***************************************************************************)
(* The four queues whose rows are things to deliver: mails                 *)
(* (services/email.service.ts), push notifications (services/notification. *)
(* service.ts), webhooks (services/webhook.service.ts) and the funding of  *)
(* Stellar accounts (services/stellar-funding.service.ts, with the payment *)
(* of services/stellar.service.ts).                                        *)
(*                                                                         *)
(* A drain lists the rows that are due, and for each of them counts an     *)
(* attempt, delivers, and records what came of it, all by id: no row is    *)
(* claimed, and what the failure handler compares is the count that was    *)
(* listed.  Only the lease of the queue keeps two drains apart.            *)
(*                                                                         *)
(* Two limits bound the attempts, and nothing makes them agree: a query    *)
(* lists rows with fewer attempts than it names (5 for three of the queues,*)
(* STELLAR_FUNDING_MAX_RETRIES for the fundings), and the failure handler  *)
(* gives a row up at the maxAttempts or maxRetries of the row, which is    *)
(* the schema's default, since nothing that queues a row sets it.          *)
(***************************************************************************)
EXTENDS Naturals, FiniteSets

CONSTANTS
  Row,          \* numbered as they are created; a funding is its account
  Kind,         \* [Row -> Kinds]
  Drain,        \* runs of the queues
  Caller,       \* requests that queue something
  NoRow,        \* a drain has no row in hand
  MaxAttempts,  \* maxAttempts and maxRetries of every row: the default, 5
  HealthWindow, \* the last deliveries that checkEndpointHealth looks at: 10
  MaxDeaths,    \* bound: drains that die between two statements
  Scenarios     \* triples: do drains keep apart; bound: the rows queued then;
                \* the limits of the queries

Kinds == {"email", "push", "webhook", "funding"}
Limits == [Kinds -> Nat]

ASSUME DeliveryAssumption ==
  /\ Row \subseteq Nat
  /\ Kind \in [Row -> Kinds]
  /\ NoRow \notin Row
  /\ Drain \cap Caller = {}
  /\ MaxAttempts \in Nat \ {0}
  /\ HealthWindow \in Nat \ {0}
  /\ MaxDeaths \in Nat

ASSUME ScenarioAssumption ==
  \A s \in Scenarios : s[1] \in BOOLEAN /\ s[2] \subseteq Row /\ s[3] \in Limits

VARIABLES
  alone,     \* the queue lease is never lost: drains of a queue do not overlap
  rows,      \* the rows that may be queued
  limit,     \* Limits: the attempts at which the query of a kind lists no more
  row,       \* [Row -> RowState]; tries: attemptCount, retryCount; due:
             \* nextAttemptAt has come
  wanted,    \* the user's preference lets notifications through
  device,    \* the user has a device token
  endpoint,  \* isActive of the endpoint
  ledger,    \* external: [Row -> Nat], payments that reached the account
  flying,    \* external: payments that may still land, <<drain, row, operation>>
  pc,        \* [Process -> Pc]
  batch,     \* [Drain -> SUBSET Row], the rows still to be treated
  cur,       \* [Drain -> Row or NoRow]
  seen,      \* [Drain -> Listing], the rows and the device as they were listed
  sent,      \* history: [Row -> Nat], deliveries that reached the other side
  unsure,    \* history: funded accounts that were not recognised as funded
  deaths     \* history: deaths so far

queue == <<row, wanted, device, endpoint>>
outside == <<ledger, flying, sent, unsure>>
drains == <<batch, cur, seen>>
fixed == <<alone, rows, limit, deaths>>
vars == <<fixed, queue, outside, pc, drains>>

-------------------------------------------------------------------------------
Process == Drain \cup Caller
Waiting == {"pending", "submitted"}
Settled == {"success", "failed", "dead-letter"}
RowState == [status : {"none"} \cup Waiting \cup Settled, tries : Nat,
             due : BOOLEAN]
Listing == [row : [Row -> RowState], device : BOOLEAN]
Pc == {"idle", "next", "send", "success", "refused", "failed", "health", "off",
       "check", "confirm", "pay", "create", "transfer", "wait", "timeout",
       "push", "webhook", "funding"}

Blank == [r \in Row |-> [status |-> "none", tries |-> 0, due |-> FALSE]]
Unlisted == [row |-> Blank, device |-> FALSE]

TypeOK ==
  /\ alone \in BOOLEAN /\ rows \in SUBSET Row /\ limit \in Limits
  /\ row \in [Row -> RowState]
  /\ wanted \in BOOLEAN /\ device \in BOOLEAN /\ endpoint \in BOOLEAN
  /\ ledger \in [Row -> Nat]
  /\ flying \in SUBSET (Drain \X Row \X {"create", "transfer"})
  /\ pc \in [Process -> Pc]
  /\ batch \in [Drain -> SUBSET Row]
  /\ cur \in [Drain -> Row \cup {NoRow}]
  /\ seen \in [Drain -> Listing]
  /\ sent \in [Row -> Nat] /\ unsure \in [Row -> Nat] /\ deaths \in Nat

Init ==
  /\ \E s \in Scenarios : alone = s[1] /\ rows = s[2] /\ limit = s[3]
  /\ row = Blank
  /\ wanted = TRUE /\ device = TRUE /\ endpoint = TRUE
  /\ ledger = [r \in Row |-> 0]
  /\ flying = {}
  /\ pc = [p \in Process |-> "idle"]
  /\ batch = [d \in Drain |-> {}]
  /\ cur = [d \in Drain |-> NoRow]
  /\ seen = [d \in Drain |-> Unlisted]
  /\ sent = [r \in Row |-> 0] /\ unsure = [r \in Row |-> 0] /\ deaths = 0

Goto(p, l) == pc' = [pc EXCEPT ![p] = l]
Of(k) == { r \in Row : Kind[r] = k }
Set(r, s) == row' = [row EXCEPT ![r].status = s]

-------------------------------------------------------------------------------
(* Queueing.  A handler that looks at something first does so in a          *)
(* statement of its own.                                                    *)

\* The next row of a kind, due at once.
Create(k) ==
  \E r \in Of(k) \cap rows :
    /\ row[r].status = "none"
    /\ \A q \in Of(k) \cap rows : q < r => row[q].status # "none"
    /\ row' = [row EXCEPT ![r] = [status |-> "pending", tries |-> 0, due |-> TRUE]]

QueueEmail ==
  Create("email") /\ UNCHANGED <<wanted, device, endpoint, outside, pc, drains>>

\* The first statement of queueNotification(), queueEvent() and queueFunding().
Ask(c, k) ==
  /\ pc[c] = "idle"
  /\ \E r \in Of(k) \cap rows : row[r].status = "none"
  /\ Goto(c, k)
  /\ UNCHANGED <<queue, outside, drains>>

AskPreference(c) == wanted /\ Ask(c, "push")
AskEndpoint(c) == endpoint /\ Ask(c, "webhook")
AskFunding(c) == Ask(c, "funding")

\* The second one, whatever has become of the answer; or it fails.
CreateAsked(c, k) ==
  /\ pc[c] = k
  /\ Create(k) \/ UNCHANGED row
  /\ Goto(c, "idle")
  /\ UNCHANGED <<wanted, device, endpoint, outside, drains>>

CreateNotification(c) == CreateAsked(c, "push")
CreateEvent(c) == CreateAsked(c, "webhook")
CreateFunding(c) == CreateAsked(c, "funding")

\* A preference changes; a token is registered, or goes over to another user.
\* Bound: only where a notification may be queued.
UpdatePreferences ==
  /\ Of("push") \cap rows # {}
  /\ wanted' = ~wanted
  /\ UNCHANGED <<row, device, endpoint, outside, pc, drains>>

RegisterToken ==
  /\ Of("push") \cap rows # {}
  /\ device' = ~device
  /\ UNCHANGED <<row, wanted, endpoint, outside, pc, drains>>

-------------------------------------------------------------------------------
(* The drains.                                                              *)

\* Seeded fault: the limit is left to the failure handlers.
DueUnlimited(k) == { r \in Of(k) : row[r].status \in Waiting /\ row[r].due }
Due(k) == { r \in Of(k) : /\ row[r].status \in Waiting
                          /\ row[r].due
                          /\ row[r].tries < limit[k] }

\* The query that starts processQueue(); under the lease of its queue.
List(d, k) ==
  /\ pc[d] = "idle"
  /\ alone => \A x \in Drain : pc[x] = "idle"
  /\ Due(k) # {}
  /\ batch' = [batch EXCEPT ![d] = Due(k)]
  /\ seen' = [seen EXCEPT ![d] = [row |-> row, device |-> device]]
  /\ Goto(d, "next")
  /\ UNCHANGED <<queue, outside, cur>>

ListEmails(d) == List(d, "email")
ListNotifications(d) == List(d, "push")
ListWebhooks(d) == List(d, "webhook")
ListFundings(d) == List(d, "funding")

EndDrain(d) ==
  /\ pc[d] = "next"
  /\ batch[d] = {}
  /\ Goto(d, "idle")
  /\ cur' = [cur EXCEPT ![d] = NoRow]
  /\ seen' = [seen EXCEPT ![d] = Unlisted]
  /\ UNCHANGED <<queue, outside, batch>>

\* The attempt is counted before anything else happens to the row.
CountAttempt(d) ==
  /\ pc[d] = "next"
  /\ \E r \in batch[d] :
       /\ row' = [row EXCEPT ![r].tries = @ + 1]
       /\ batch' = [batch EXCEPT ![d] = @ \ {r}]
       /\ cur' = [cur EXCEPT ![d] = r]
       /\ Goto(d, IF Kind[r] = "funding" THEN "check" ELSE "send")
  /\ UNCHANGED <<wanted, device, endpoint, outside, seen>>

Sending(d, k) == pc[d] = "send" /\ Kind[cur[d]] = k
Arrives(d) == sent' = [sent EXCEPT ![cur[d]] = @ + 1]
QuietlyTo(d, l) == Goto(d, l) /\ UNCHANGED <<queue, outside, drains>>
DeliveredTo(d, l) ==
  /\ Arrives(d)
  /\ Goto(d, l)
  /\ UNCHANGED <<queue, ledger, flying, unsure, drains>>

\* The mail is handed over, and cannot fail on its own.
SendEmail(d) == Sending(d, "email") /\ DeliveredTo(d, "success")

\* No token: no further attempt.  A token that fails makes the whole one fail.
SendPush(d) ==
  /\ Sending(d, "push")
  /\ IF ~seen[d].device THEN QuietlyTo(d, "refused")
     ELSE \/ DeliveredTo(d, "success")
          \/ DeliveredTo(d, "failed")
          \/ QuietlyTo(d, "failed")

\* The endpoint may have the event although the answer is late or bad.
SendWebhook(d) ==
  /\ Sending(d, "webhook")
  /\ \/ DeliveredTo(d, "success")
     \/ DeliveredTo(d, "failed")
     \/ QuietlyTo(d, "failed")

\* checkAlreadyFunded(): an account that can be read and has its balance is
\* to be marked; what fails in it is swallowed and reads as "not funded".
\* Nobody stores a hash, so reconcile() has nothing else to look at.
AfterCheck(d) == IF seen[d].row[cur[d]].status = "submitted" THEN "failed" ELSE "pay"
NotRecognised(d) ==
  /\ unsure' = [unsure EXCEPT ![cur[d]] = @ + 1]
  /\ Goto(d, AfterCheck(d))
  /\ UNCHANGED <<queue, ledger, flying, sent, drains>>

\* Seeded fault: only a payment that was submitted is looked for.
CheckSubmitted(d) ==
  /\ pc[d] = "check"
  /\ IF seen[d].row[cur[d]].status = "submitted" /\ ledger[cur[d]] > 0
     THEN QuietlyTo(d, "confirm") ELSE QuietlyTo(d, AfterCheck(d))

CheckFunded(d) ==
  /\ pc[d] = "check"
  /\ \/ ledger[cur[d]] > 0 /\ QuietlyTo(d, "confirm")
     \/ ledger[cur[d]] > 0 /\ NotRecognised(d)
     \/ ledger[cur[d]] = 0 /\ QuietlyTo(d, AfterCheck(d))

MarkConfirmed(d) ==
  /\ pc[d] = "confirm"
  /\ \/ /\ Set(cur[d], "success")
        /\ Goto(d, "next")
        /\ UNCHANGED <<wanted, device, endpoint, outside, drains>>
     \/ NotRecognised(d)

\* sendPayment() pays into an account that it finds and creates one that it
\* does not find, or cannot read.  It may also fail before anything is sent.
PreparePayment(d) ==
  /\ pc[d] = "pay"
  /\ \E l \in {"create", "transfer", "failed"} :
       /\ l = "transfer" => ledger[cur[d]] > 0
       /\ QuietlyTo(d, l)

Lands(r, op) ==
  /\ op = "create" => ledger[r] = 0
  /\ ledger' = [ledger EXCEPT ![r] = @ + 1]

\* The transaction is applied, refused, or goes out and no answer comes.
SubmitPayment(d) ==
  /\ pc[d] \in {"create", "transfer"}
  /\ \/ /\ Lands(cur[d], pc[d])
        /\ Arrives(d)
        /\ Goto(d, "wait")
        /\ UNCHANGED <<queue, flying, unsure, drains>>
     \/ QuietlyTo(d, "failed")
     \/ /\ flying' = flying \cup {<<d, cur[d], pc[d]>>}
        /\ Goto(d, "failed")
        /\ UNCHANGED <<queue, ledger, sent, unsure, drains>>

\* waitForTransaction(): seen, not seen in time, or the node fails.
WaitForTransaction(d) ==
  /\ pc[d] = "wait"
  /\ \E l \in {"success", "timeout", "failed"} : QuietlyTo(d, l)

\* The row is SUBMITTED and still due.
RecordTimeout(d) ==
  /\ pc[d] = "timeout"
  /\ Set(cur[d], "submitted")
  /\ Goto(d, "next")
  /\ UNCHANGED <<wanted, device, endpoint, outside, drains>>

\* External: a payment without an answer is applied, or its 30 seconds are over.
Settle(f) ==
  /\ f \in flying
  /\ flying' = flying \ {f}
  /\ \/ Lands(f[2], f[3]) /\ sent' = [sent EXCEPT ![f[2]] = @ + 1]
     \/ UNCHANGED <<ledger, sent>>
  /\ UNCHANGED <<queue, unsure, pc, drains>>

\* What is recorded of a success; the failure of this statement is caught too.
RecordSuccess(d) ==
  /\ pc[d] = "success"
  /\ \/ Set(cur[d], "success") /\ Goto(d, "next")
     \/ Goto(d, "failed") /\ UNCHANGED row
  /\ UNCHANGED <<wanted, device, endpoint, outside, drains>>

RecordRefused(d) ==
  /\ pc[d] = "refused"
  /\ Set(cur[d], "failed")
  /\ Goto(d, "next")
  /\ UNCHANGED <<wanted, device, endpoint, outside, drains>>

\* Seeded fault: the attempt that has just failed is not counted.
LastAttemptLate(d) == seen[d].row[cur[d]].tries >= MaxAttempts
\* handleFailure(): the listed count decides, against the limit of the row and
\* not of the query; a funding goes back to PENDING.
LastAttempt(d) == seen[d].row[cur[d]].tries + 1 >= MaxAttempts
Fails(d, K, end, l) ==
  /\ pc[d] = "failed"
  /\ Kind[cur[d]] \in K
  /\ IF LastAttempt(d) THEN Set(cur[d], end) /\ Goto(d, l)
     ELSE row' = [row EXCEPT ![cur[d]].due = FALSE] /\ Goto(d, "next")
  /\ UNCHANGED <<wanted, device, endpoint, outside, drains>>

EmailFails(d) == Fails(d, {"email"}, "dead-letter", "next")
NotificationFails(d) == Fails(d, {"push"}, "dead-letter", "next")
WebhookFails(d) == Fails(d, {"webhook"}, "failed", "health")
FundingFails(d) ==
  /\ pc[d] = "failed"
  /\ Kind[cur[d]] = "funding"
  /\ IF LastAttempt(d) THEN Set(cur[d], "dead-letter")
     ELSE row' = [row EXCEPT ![cur[d]].due = FALSE, ![cur[d]].status = "pending"]
  /\ Goto(d, "next")
  /\ UNCHANGED <<wanted, device, endpoint, outside, drains>>

\* checkEndpointHealth(): have all of the last deliveries failed?
Latest == { r \in Of("webhook") :
              /\ row[r].status # "none"
              /\ Cardinality({ q \in Of("webhook") :
                                 q > r /\ row[q].status # "none" }) < HealthWindow }
CheckHealth(d) ==
  /\ pc[d] = "health"
  /\ QuietlyTo(d, IF Cardinality({ r \in Latest : row[r].status = "failed" })
                       >= HealthWindow
                  THEN "off" ELSE "next")

SwitchOff(d) ==
  /\ pc[d] = "off"
  /\ endpoint' = FALSE
  /\ Goto(d, "next")
  /\ UNCHANGED <<row, wanted, device, outside, drains>>

\* A backoff ends: a minute or more, when no payment of the row is under way
\* any more (its transaction is valid for 30 seconds).
BackoffEnds(r) ==
  /\ row[r].status \in Waiting
  /\ ~row[r].due
  /\ \A f \in flying : f[2] # r
  /\ row' = [row EXCEPT ![r].due = TRUE]
  /\ UNCHANGED <<wanted, device, endpoint, outside, pc, drains>>

\* A drain dies, or a statement outside its try fails: the run is over.
Die(d) ==
  /\ pc[d] # "idle"
  /\ deaths < MaxDeaths
  /\ deaths' = deaths + 1
  /\ Goto(d, "idle")
  /\ batch' = [batch EXCEPT ![d] = {}]
  /\ cur' = [cur EXCEPT ![d] = NoRow]
  /\ seen' = [seen EXCEPT ![d] = Unlisted]
  /\ UNCHANGED <<alone, rows, limit, queue, outside>>

CallerStep(c) ==
  \/ AskPreference(c) \/ AskEndpoint(c) \/ AskFunding(c)
  \/ CreateNotification(c) \/ CreateEvent(c) \/ CreateFunding(c)

DrainStep(d) ==
  \/ ListEmails(d) \/ ListNotifications(d) \/ ListWebhooks(d) \/ ListFundings(d)
  \/ EndDrain(d) \/ CountAttempt(d)
  \/ SendEmail(d) \/ SendPush(d) \/ SendWebhook(d)
  \/ CheckFunded(d) \/ MarkConfirmed(d)
  \/ PreparePayment(d) \/ SubmitPayment(d) \/ WaitForTransaction(d)
  \/ RecordTimeout(d) \/ RecordSuccess(d) \/ RecordRefused(d)
  \/ EmailFails(d) \/ NotificationFails(d) \/ WebhookFails(d) \/ FundingFails(d)
  \/ CheckHealth(d) \/ SwitchOff(d)

Next ==
  \/ /\ \/ \E d \in Drain : DrainStep(d)
        \/ \E c \in Caller : CallerStep(c)
        \/ \E f \in flying : Settle(f)
        \/ \E r \in Row : BackoffEnds(r)
        \/ QueueEmail \/ UpdatePreferences \/ RegisterToken
     /\ UNCHANGED fixed
  \/ \E d \in Drain : Die(d)

Spec == Init /\ [][Next]_vars

-------------------------------------------------------------------------------
(* No more deliveries than attempts, whatever overlaps or dies; and no more *)
(* attempts than the query allows while the queue lease keeps the drains    *)
(* apart, wherever the row's own limit lies.  (CountAttempt comes first;    *)
(* the count that is compared is a stale one.)                              *)
AttemptsBound ==
  \A r \in Row : /\ Kind[r] # "funding" => sent[r] <= row[r].tries
                 /\ alone => row[r].tries <= limit[Kind[r]]

(* A pending row that no drain is at is listed again, but for one reason:   *)
(* the limit of its query is below the one its failure handler waits for.   *)
(* Such a row is pending for ever.  It is the funding's that may be below:  *)
(* STELLAR_FUNDING_MAX_RETRIES against maxRetries; where the two agree, a   *)
(* row whose attempts are spent is settled.  Deaths leave rows too, and so  *)
(* does a payment whose last attempt timed out: it stays SUBMITTED, and is  *)
(* never reconciled.                                                        *)
InHand(r) == \E d \in Drain : cur[d] = r /\ pc[d] \notin {"idle", "next"}
NothingStranded ==
  alone /\ deaths = 0 =>
    \A r \in Row : row[r].status = "pending" /\ ~InHand(r) =>
      \/ row[r].tries < limit[Kind[r]]
      \/ row[r].tries = limit[Kind[r]] /\ limit[Kind[r]] < MaxAttempts

(* An account is funded once: every further payment takes an account that   *)
(* had been funded and was not recognised, because its balance could not be *)
(* read or the confirmation could not be recorded, or a drain that died     *)
(* with a payment on its way.  Payments without an answer are covered: they *)
(* land before the next attempt, or not at all, and an account is created   *)
(* once (checkAlreadyFunded, sendPayment).                                  *)
FundedOnce ==
  alone => \A r \in Of("funding") : ledger[r] <= 1 + unsure[r] + deaths
===============================================================================
