-------------------------- MODULE DeliveryQueue_proofs -------------------------
(***************************************************************************)
(* What DeliveryQueue keeps, for any number of rows, drains and callers.   *)
(***************************************************************************)
EXTENDS DeliveryQueue, FiniteSetTheorems, TLAPS

FundingPc == {"check", "confirm", "pay", "create", "transfer", "wait", "timeout"}
BusyPc == FundingPc \cup {"send", "success", "refused", "failed", "health", "off"}

(* Who is where: a drain that is busy has a row in hand, of the kind that its *)
(* place says.                                                               *)
Places ==
  /\ \A f \in flying : Kind[f[2]] = "funding"
  /\ \A c \in Caller : pc[c] \in {"idle", "push", "webhook", "funding"}
  /\ \A d \in Drain :
       \/ pc[d] = "idle" /\ cur[d] = NoRow /\ batch[d] = {}
       \/ pc[d] = "next"
       \/ /\ pc[d] \in BusyPc
          /\ cur[d] \in Row
          /\ pc[d] \in FundingPc => Kind[cur[d]] = "funding"
          /\ pc[d] = "send" => Kind[cur[d]] # "funding"
          /\ pc[d] \in {"health", "off"} => Kind[cur[d]] = "webhook"

Typed == TypeOK /\ Places

Flights(r) == { f \in flying : f[2] = r }
Senders(r) == { d \in Drain : pc[d] = "send" /\ cur[d] = r }

(* Nothing has happened to a row that is not there yet.                     *)
Untouched ==
  \A r \in Row : row[r].status = "none" =>
    /\ row[r].tries = 0
    /\ sent[r] = 0
    /\ Flights(r) = {}
    /\ \A d \in Drain : cur[d] # r /\ r \notin batch[d]

(* A drain that is about to send has counted the attempt.                   *)
CountedFirst ==
  \A r \in Row : Kind[r] # "funding" =>
    /\ IsFiniteSet(Senders(r))
    /\ sent[r] + Cardinality(Senders(r)) <= row[r].tries

(* While drains do not overlap, what a drain has listed is still so, but for *)
(* the attempt that it has counted.                                         *)
AsListed(d) ==
  /\ \A r \in batch[d] :
       /\ row[r] = seen[d].row[r]
       /\ row[r].status \in Waiting /\ row[r].due
  /\ pc[d] \in BusyPc =>
       /\ cur[d] \notin batch[d]
       /\ row[cur[d]].tries = seen[d].row[cur[d]].tries + 1
  /\ pc[d] \in FundingPc => row[cur[d]].status \in Waiting /\ row[cur[d]].due
  /\ pc[d] \in {"health", "off"} => row[cur[d]].status = "failed"
Alone ==
  alone =>
    /\ \A d, e \in Drain : pc[d] # "idle" /\ pc[e] # "idle" => d = e
    /\ \A d \in Drain : AsListed(d)

(* Then nothing has more attempts than its query allows, and what is yet to *)
(* be treated has fewer.                                                    *)
Within ==
  alone =>
    /\ \A r \in Row : row[r].tries <= limit[Kind[r]]
    /\ \A d \in Drain : \A r \in batch[d] : row[r].tries < limit[Kind[r]]

(* A row with the attempts that its failure handler waits for is settled, or *)
(* a drain is still at it: whatever the limits of the queries are.           *)
Stranded ==
  alone /\ deaths = 0 =>
    \A r \in Row : row[r].status = "pending" /\ row[r].tries >= MaxAttempts =>
      \E d \in Drain : cur[d] = r /\ pc[d] \in BusyPc

(* While nothing dies, a payment without an answer is over before its row is *)
(* looked at again.                                                          *)
Answered ==
  alone /\ deaths = 0 =>
    \A r \in Row : Flights(r) # {} =>
      \/ ~row[r].due
      \/ row[r].status \notin Waiting
      \/ \E d \in Drain : cur[d] = r /\ pc[d] = "failed"

(* The payments that reached an account and those that will, whatever its    *)
(* balance is by then.  A drain that is about to pay has room for one more.  *)
Transfers(r) == { f \in Flights(r) : f[3] = "transfer" }
Payer(r, l) == \E d \in Drain : cur[d] = r /\ pc[d] = l
Payments(r) ==
  ledger[r] + Cardinality(Transfers(r)) + (IF Payer(r, "transfer") THEN 1 ELSE 0)
Excused(r) == unsure[r] + (IF deaths = 0 THEN 0 ELSE 1)
PaidAt(r) ==
  /\ IsFiniteSet(Transfers(r))
  /\ Transfers(r) # {} \/ Payer(r, "transfer") => ledger[r] > 0
  /\ Payments(r) <= 1 + Excused(r)
  /\ Payer(r, "confirm") => ledger[r] > 0
  /\ Payer(r, "pay") =>
       /\ Payments(r) <= Excused(r)
       /\ ledger[r] = 0 /\ Flights(r) # {} => deaths > 0
Paid == alone => \A r \in Of("funding") : PaidAt(r)

IInv ==
  /\ Typed /\ Untouched /\ CountedFirst /\ Alone /\ Within /\ Stranded
  /\ Answered /\ Paid

-------------------------------------------------------------------------------
USE DEF Goto, Set, Of, QuietlyTo, DeliveredTo, Arrives, NotRecognised,
        AfterCheck

LEMMA InitIInv == Init => IInv
<1> SUFFICES ASSUME Init PROVE IInv
  OBVIOUS
<1> USE DeliveryAssumption DEF Init, Process, BusyPc, FundingPc
<1>1. Typed
  <2>1. Blank \in [Row -> RowState]
    BY DEF RowState, Blank
  <2>2. Unlisted \in Listing
    BY <2>1 DEF Unlisted, Listing, Blank
  <2>3. alone \in BOOLEAN /\ rows \in SUBSET Row /\ limit \in Limits
    BY ScenarioAssumption
  <2>4. TypeOK
    BY <2>1, <2>2, <2>3 DEF TypeOK, Pc
  <2> QED BY <2>4 DEF Typed, Places
<1>2. \A r \in Row : Flights(r) = {} /\ Senders(r) = {} /\ Transfers(r) = {}
  BY DEF Flights, Senders, Transfers
<1>3. IsFiniteSet({}) /\ Cardinality({}) = 0
  BY FS_EmptySet
<1>4. Untouched
  BY <1>2 DEF Untouched, Blank
<1>5. CountedFirst
  <2> SUFFICES ASSUME NEW r \in Row
               PROVE  /\ IsFiniteSet(Senders(r))
                      /\ sent[r] + Cardinality(Senders(r)) <= row[r].tries
    BY DEF CountedFirst
  <2>1. IsFiniteSet(Senders(r)) /\ Cardinality(Senders(r)) = 0
    BY <1>2, <1>3
  <2>2. sent[r] = 0 /\ row[r].tries = 0
    BY DEF Blank
  <2> QED BY <2>1, <2>2
<1>6. Alone /\ Stranded /\ Answered
  BY <1>2 DEF Alone, AsListed, Stranded, Answered, Waiting, Blank
<1>7. Paid
  <2> SUFFICES ASSUME NEW r \in Of("funding")
               PROVE  /\ IsFiniteSet(Transfers(r)) /\ Transfers(r) = {}
                      /\ \A l \in {"pay", "transfer", "confirm"} : ~Payer(r, l)
                      /\ Payments(r) <= 1 + Excused(r)
    BY DEF Paid, PaidAt
  <2>1. \A l \in {"pay", "transfer", "confirm"} : ~Payer(r, l)
    BY DEF Payer
  <2>2. Transfers(r) = {} /\ IsFiniteSet(Transfers(r)) /\ Cardinality(Transfers(r)) = 0
    BY <1>2, <1>3
  <2>3. ledger[r] = 0 /\ unsure[r] = 0 /\ deaths = 0
    OBVIOUS
  <2>4. Payments(r) = 0 /\ Excused(r) = 0
    BY <2>1, <2>2, <2>3 DEF Payments, Excused
  <2> QED BY <2>1, <2>2, <2>4
<1>8. Within
  <2>1. \A k \in Kinds : limit[k] \in Nat
    BY ScenarioAssumption DEF Limits
  <2> QED BY <2>1 DEF Within, Blank
<1> QED BY <1>1, <1>4, <1>5, <1>6, <1>7, <1>8 DEF IInv

(* What is written to a row is a state of a row.                            *)
LEMMA RowTyped ==
  ASSUME row \in [Row -> RowState], NEW r \in Row,
         \/ Set(r, "success") \/ Set(r, "failed") \/ Set(r, "dead-letter")
         \/ Set(r, "submitted")
         \/ row' = [row EXCEPT ![r].tries = @ + 1]
         \/ row' = [row EXCEPT ![r].due = TRUE]
         \/ row' = [row EXCEPT ![r].due = FALSE]
         \/ row' = [row EXCEPT ![r].due = FALSE, ![r].status = "pending"]
         \/ row' = [row EXCEPT
                      ![r] = [status |-> "pending", tries |-> 0, due |-> TRUE]]
  PROVE  row' \in [Row -> RowState]
<1> USE DEF RowState, Waiting, Settled
<1>1. CASE row' = [row EXCEPT ![r].due = FALSE, ![r].status = "pending"]
  <2>1. [row[r] EXCEPT !.due = FALSE, !.status = "pending"] \in RowState
    OBVIOUS
  <2>2. row' = [row EXCEPT ![r] = [row[r] EXCEPT !.due = FALSE, !.status = "pending"]]
    BY <1>1
  <2> QED BY <2>1, <2>2
<1>2. CASE row' = [row EXCEPT ![r].tries = @ + 1]
  BY <1>2
<1>3. CASE row' = [row EXCEPT ![r] = [status |-> "pending", tries |-> 0, due |-> TRUE]]
  BY <1>3
<1>4. CASE row' = [row EXCEPT ![r].due = TRUE] \/ row' = [row EXCEPT ![r].due = FALSE]
  BY <1>4, ZenonT(60)
<1> QED BY <1>1, <1>2, <1>3, <1>4

(* The parts of the state keep their types, and every process a place of its  *)
(* kind.                                                                      *)
LEMMA TypedStep == Typed /\ [Next]_vars => Typed'
<1> SUFFICES ASSUME Typed, [Next]_vars PROVE Typed'
  OBVIOUS
<1> USE DeliveryAssumption
    DEF Typed, TypeOK, Places, Pc, Process, BusyPc, FundingPc, queue, outside,
        drains, fixed
<1>1. ASSUME NEW k \in Kinds, Create(k) PROVE row' \in [Row -> RowState]
  <2>1. PICK r \in Row :
          row' = [row EXCEPT ![r] = [status |-> "pending", tries |-> 0, due |-> TRUE]]
    BY <1>1 DEF Create
  <2> QED BY <2>1, RowTyped
<1>2. Unlisted \in Listing
  BY DEF Unlisted, Blank, Listing, RowState
<1>3. ASSUME NEW c \in Caller, CallerStep(c), UNCHANGED fixed PROVE Typed'
  <2>1. CASE AskPreference(c) \/ AskEndpoint(c) \/ AskFunding(c)
    BY <1>3, <2>1 DEF AskPreference, AskEndpoint, AskFunding, Ask
  <2>2. CASE CreateNotification(c) \/ CreateEvent(c) \/ CreateFunding(c)
    <3>1. row' \in [Row -> RowState]
      BY <1>1, <2>2
      DEF CreateNotification, CreateEvent, CreateFunding, CreateAsked, Kinds
    <3> QED
      BY <1>3, <2>2, <3>1
      DEF CreateNotification, CreateEvent, CreateFunding, CreateAsked
  <2> QED BY <1>3, <2>1, <2>2 DEF CallerStep
<1>4. ASSUME NEW d \in Drain, DrainStep(d), UNCHANGED fixed PROVE Typed'
  <2>1. ASSUME NEW k \in Kinds, List(d, k) PROVE Typed'
    <3>1. [row |-> row, device |-> device] \in Listing
      BY DEF Listing
    <3> QED BY <1>4, <2>1, <3>1 DEF List, Due
  <2>2. CASE EndDrain(d)
    BY <1>2, <1>4, <2>2 DEF EndDrain
  <2>3. CASE CountAttempt(d)
    <3>1. PICK r \in batch[d] :
            /\ row' = [row EXCEPT ![r].tries = @ + 1]
            /\ batch' = [batch EXCEPT ![d] = @ \ {r}]
            /\ cur' = [cur EXCEPT ![d] = r]
            /\ pc' = [pc EXCEPT ![d] = IF Kind[r] = "funding" THEN "check" ELSE "send"]
      BY <2>3 DEF CountAttempt
    <3>2. r \in Row
      OBVIOUS
    <3>3. row' \in [Row -> RowState]
      BY <3>1, <3>2, RowTyped
    <3> QED BY <1>4, <2>3, <3>1, <3>2, <3>3 DEF CountAttempt
  <2>4. CASE SendEmail(d) \/ SendPush(d) \/ SendWebhook(d)
    BY <1>4, <2>4 DEF SendEmail, SendPush, SendWebhook, Sending
  <2>5. CASE CheckFunded(d)
    BY <1>4, <2>5 DEF CheckFunded
  <2>6. CASE MarkConfirmed(d)
    <3>1. cur[d] \in Row
      BY <2>6 DEF MarkConfirmed
    <3>2. row' = row \/ Set(cur[d], "success")
      BY <2>6 DEF MarkConfirmed
    <3>3. row' \in [Row -> RowState]
      BY <3>1, <3>2, RowTyped
    <3> QED BY <1>4, <2>6, <3>1, <3>3 DEF MarkConfirmed
  <2>7. CASE PreparePayment(d)
    BY <1>4, <2>7 DEF PreparePayment
  <2>8. CASE SubmitPayment(d)
    BY <1>4, <2>8 DEF SubmitPayment, Lands
  <2>9. CASE WaitForTransaction(d)
    BY <1>4, <2>9 DEF WaitForTransaction
  <2>10. CASE RecordTimeout(d) \/ RecordSuccess(d) \/ RecordRefused(d)
    <3>1. cur[d] \in Row
      BY <2>10 DEF RecordTimeout, RecordSuccess, RecordRefused
    <3>2. row' = row \/ \E s \in {"submitted", "success", "failed"} : Set(cur[d], s)
      BY <2>10 DEF RecordTimeout, RecordSuccess, RecordRefused
    <3>3. row' \in [Row -> RowState]
      BY <3>1, <3>2, RowTyped
    <3> QED
      BY <1>4, <2>10, <3>1, <3>3 DEF RecordTimeout, RecordSuccess, RecordRefused
  <2>11. CASE EmailFails(d) \/ NotificationFails(d) \/ WebhookFails(d)
    <3>1. cur[d] \in Row
      BY <2>11 DEF EmailFails, NotificationFails, WebhookFails, Fails
    <3>2. \/ Set(cur[d], "dead-letter") \/ Set(cur[d], "failed")
          \/ row' = [row EXCEPT ![cur[d]].due = FALSE]
      BY <2>11 DEF EmailFails, NotificationFails, WebhookFails, Fails
    <3>3. row' \in [Row -> RowState]
      BY <3>1, <3>2, RowTyped
    <3> QED
      BY <1>4, <2>11, <3>1, <3>3 DEF EmailFails, NotificationFails, WebhookFails, Fails
  <2>12. CASE FundingFails(d)
    <3>1. cur[d] \in Row
      BY <2>12 DEF FundingFails
    <3>2. \/ Set(cur[d], "dead-letter")
          \/ row' = [row EXCEPT ![cur[d]].due = FALSE, ![cur[d]].status = "pending"]
      BY <2>12 DEF FundingFails
    <3>3. row' \in [Row -> RowState]
      BY <3>1, <3>2, RowTyped
    <3> QED BY <1>4, <2>12, <3>1, <3>3 DEF FundingFails
  <2>13. CASE CheckHealth(d)
    BY <1>4, <2>13 DEF CheckHealth
  <2>14. CASE SwitchOff(d)
    BY <1>4, <2>14 DEF SwitchOff
  <2> QED
    BY <1>4, <2>1, <2>2, <2>3, <2>4, <2>5, <2>6, <2>7, <2>8, <2>9, <2>10,
       <2>11, <2>12, <2>13, <2>14
    DEF DrainStep, ListEmails, ListNotifications, ListWebhooks, ListFundings,
        Kinds
<1>5. ASSUME NEW f \in flying, Settle(f), UNCHANGED fixed PROVE Typed'
  BY <1>5 DEF Settle, Lands
<1>6. ASSUME NEW r \in Row, BackoffEnds(r), UNCHANGED fixed PROVE Typed'
  <2>1. row' \in [Row -> RowState]
    BY <1>6, RowTyped DEF BackoffEnds
  <2> QED BY <1>6, <2>1 DEF BackoffEnds
<1>7. CASE QueueEmail /\ UNCHANGED fixed
  BY <1>1, <1>7 DEF QueueEmail, Kinds
<1>8. CASE (UpdatePreferences \/ RegisterToken) /\ UNCHANGED fixed
  BY <1>8, ZenonT(60) DEF UpdatePreferences, RegisterToken
<1>9. ASSUME NEW d \in Drain, Die(d) PROVE Typed'
  BY <1>2, <1>9 DEF Die
<1>10. CASE UNCHANGED vars
  BY <1>10 DEF vars
<1> QED BY <1>3, <1>4, <1>5, <1>6, <1>7, <1>8, <1>9, <1>10 DEF Next

-------------------------------------------------------------------------------
(* What the steps have in common.                                           *)

\* A row is created.
Queues ==
  \/ QueueEmail
  \/ \E c \in Caller : CreateNotification(c) \/ CreateEvent(c) \/ CreateFunding(c)
\* A drain writes what came of an attempt.
Records(d) ==
  \/ MarkConfirmed(d) \/ RecordTimeout(d) \/ RecordSuccess(d) \/ RecordRefused(d)
  \/ EmailFails(d) \/ NotificationFails(d) \/ WebhookFails(d) \/ FundingFails(d)
Sends(d) == SendEmail(d) \/ SendPush(d) \/ SendWebhook(d)
Lists(d) == \E k \in Kinds : List(d, k)
\* A drain decides, and a request or a setting changes nothing of the rows.
Decides(d) ==
  PreparePayment(d) \/ WaitForTransaction(d) \/ CheckHealth(d) \/ SwitchOff(d)
Asks ==
  \/ \E c \in Caller : AskPreference(c) \/ AskEndpoint(c) \/ AskFunding(c)
  \/ UpdatePreferences \/ RegisterToken

LEMMA Steps ==
  ASSUME [Next]_vars
  PROVE  \/ /\ UNCHANGED fixed
            /\ \/ Queues \/ Asks
               \/ \E d \in Drain :
                    \/ Lists(d) \/ EndDrain(d) \/ CountAttempt(d) \/ Sends(d)
                    \/ CheckFunded(d) \/ Decides(d) \/ SubmitPayment(d)
                    \/ Records(d)
               \/ \E f \in flying : Settle(f)
               \/ \E r \in Row : BackoffEnds(r)
         \/ \E d \in Drain : Die(d)
         \/ UNCHANGED vars
<1>1. CASE \E d \in Drain : DrainStep(d) /\ UNCHANGED fixed
  BY <1>1
  DEF DrainStep, ListEmails, ListNotifications, ListWebhooks, ListFundings,
      Lists, Kinds, Sends, Decides, Records
<1>2. CASE \E c \in Caller : CallerStep(c) /\ UNCHANGED fixed
  BY <1>2 DEF CallerStep, Queues, Asks
<1> QED BY <1>1, <1>2 DEF Next, Queues, Asks

LEMMA QueuesRow ==
  ASSUME Typed, Queues
  PROVE  /\ UNCHANGED <<wanted, device, endpoint, outside, drains>>
         /\ \A d \in Drain : pc'[d] = pc[d]
         /\ \/ row' = row
            \/ \E r \in Row :
                 /\ row[r].status = "none"
                 /\ row' = [row EXCEPT
                      ![r] = [status |-> "pending", tries |-> 0, due |-> TRUE]]
<1> USE DeliveryAssumption
    DEF Queues, QueueEmail, CreateNotification, CreateEvent, CreateFunding,
        CreateAsked
<1>1. UNCHANGED <<wanted, device, endpoint, outside, drains>>
  OBVIOUS
<1>2. \A d \in Drain : pc'[d] = pc[d]
  BY DEF Typed, TypeOK, Process
<1>3. ASSUME NEW k \in Kinds, Create(k)
      PROVE  \E r \in Row :
               /\ row[r].status = "none"
               /\ row' = [row EXCEPT
                    ![r] = [status |-> "pending", tries |-> 0, due |-> TRUE]]
  BY <1>3 DEF Create
<1> QED BY <1>1, <1>2, <1>3 DEF Kinds

LEMMA RecordsRow ==
  ASSUME Typed, NEW d \in Drain, Records(d)
  PROVE  /\ pc[d] \in BusyPc /\ cur[d] \in Row
         /\ pc' = [pc EXCEPT ![d] = pc'[d]]
         /\ UNCHANGED <<flying, sent, ledger, drains>>
         /\ \A r \in Row \ {cur[d]} : row'[r] = row[r]
         /\ row'[cur[d]].tries = row[cur[d]].tries
         /\ row'[cur[d]].status \in {row[cur[d]].status} \cup Waiting \cup Settled
         /\ row'[cur[d]].due => row[cur[d]].due
<1> USE DeliveryAssumption DEF Typed, TypeOK, Places, RowState, BusyPc, FundingPc
<1>1. CASE MarkConfirmed(d)
  <2>1. CASE NotRecognised(d)
    <3>1. PICK l \in {"failed", "pay"} : pc' = [pc EXCEPT ![d] = l]
      BY <2>1
    <3> QED BY <1>1, <2>1, <3>1 DEF MarkConfirmed, outside, drains, queue
  <2>2. CASE ~NotRecognised(d)
    BY <1>1, <2>2 DEF MarkConfirmed, outside, drains, Settled
  <2> QED BY <2>1, <2>2
<1>2. CASE RecordTimeout(d) \/ RecordSuccess(d) \/ RecordRefused(d)
  BY <1>2
  DEF RecordTimeout, RecordSuccess, RecordRefused, outside, drains, Settled,
      Waiting
<1>3. CASE EmailFails(d) \/ NotificationFails(d) \/ WebhookFails(d)
  BY <1>3
  DEF EmailFails, NotificationFails, WebhookFails, Fails, outside, drains,
      Settled, Waiting
<1>4. CASE FundingFails(d)
  <2>1. /\ pc[d] = "failed" /\ cur[d] \in Row
        /\ pc' = [pc EXCEPT ![d] = "next"]
        /\ UNCHANGED <<flying, sent, ledger, drains>>
    BY <1>4 DEF FundingFails, outside
  <2>2. \/ row' = [row EXCEPT ![cur[d]].status = "dead-letter"]
        \/ row' = [row EXCEPT ![cur[d]].due = FALSE, ![cur[d]].status = "pending"]
    BY <1>4 DEF FundingFails
  <2>3. /\ \A r \in Row \ {cur[d]} : row'[r] = row[r]
        /\ row'[cur[d]].tries = row[cur[d]].tries
        /\ row'[cur[d]].status \in {"dead-letter", "pending"}
        /\ row'[cur[d]].due => row[cur[d]].due
    <3>1. CASE row' = [row EXCEPT ![cur[d]].status = "dead-letter"]
      BY <2>1, <3>1
    <3>2. CASE row' = [row EXCEPT ![cur[d]].due = FALSE, ![cur[d]].status = "pending"]
      <4>1. /\ \A r \in Row \ {cur[d]} : row'[r] = row[r]
            /\ row'[cur[d]] = [row[cur[d]] EXCEPT !.due = FALSE, !.status = "pending"]
        BY <2>1, <3>2
      <4> QED BY <2>1, <4>1
    <3> QED BY <2>2, <3>1, <3>2
  <2> QED BY <2>1, <2>3 DEF Waiting, Settled, Process
<1> QED BY <1>1, <1>2, <1>3, <1>4 DEF Records

LEMMA RecordsEnd ==
  ASSUME Typed, NEW d \in Drain, Records(d)
  PROVE  /\ pc'[d] \in {"next", "failed", "health", "pay"}
         /\ pc'[d] \in {"failed", "pay"} => UNCHANGED row
         /\ pc'[d] = "pay" => MarkConfirmed(d)
         /\ pc'[d] = "health" => row'[cur[d]].status = "failed"
<1> USE DeliveryAssumption DEF Typed, TypeOK, Process, queue
<1>1. cur[d] \in Row
  BY RecordsRow
<1>2. CASE MarkConfirmed(d)
  BY <1>2 DEF MarkConfirmed
<1>3. CASE RecordTimeout(d) \/ RecordSuccess(d) \/ RecordRefused(d)
  BY <1>3 DEF RecordTimeout, RecordSuccess, RecordRefused
<1>4. CASE EmailFails(d) \/ NotificationFails(d) \/ FundingFails(d)
  BY <1>4 DEF EmailFails, NotificationFails, Fails, FundingFails
<1>5. CASE WebhookFails(d)
  BY <1>1, <1>5 DEF WebhookFails, Fails, RowState
<1> QED BY <1>2, <1>3, <1>4, <1>5 DEF Records

LEMMA UntouchedStep ==
  ASSUME Typed, Typed', Untouched, [Next]_vars PROVE Untouched'
<1> USE DeliveryAssumption
    DEF Typed, TypeOK, Places, RowState, Untouched, Flights, BusyPc, FundingPc,
        outside, drains, queue
<1>1. CASE Queues
  BY <1>1, QueuesRow
<1>2. ASSUME NEW d \in Drain, Lists(d) PROVE Untouched'
  BY <1>2 DEF Lists, List, Due, Waiting
<1>3. ASSUME NEW d \in Drain, EndDrain(d) \/ Die(d) PROVE Untouched'
  <2>1. UNCHANGED <<row, sent, flying>>
    BY <1>3 DEF EndDrain, Die
  <2>2. \A e \in Drain : /\ cur'[e] \in {cur[e], NoRow}
                         /\ batch'[e] \subseteq batch[e]
    BY <1>3 DEF EndDrain, Die
  <2>3. \A r \in Row : Flights(r)' = Flights(r)
    BY <2>1
  <2> HIDE DEF Typed, Flights
  <2> QED BY <2>1, <2>2, <2>3
<1>4. ASSUME NEW d \in Drain, CountAttempt(d) PROVE Untouched'
  BY <1>4 DEF CountAttempt
<1>5. ASSUME NEW d \in Drain, Sends(d) PROVE Untouched'
  BY <1>5 DEF Sends, SendEmail, SendPush, SendWebhook, Sending
<1>6. ASSUME NEW d \in Drain, SubmitPayment(d) PROVE Untouched'
  BY <1>6 DEF SubmitPayment, Lands
<1>7. ASSUME NEW d \in Drain, Records(d) PROVE Untouched'
  <2>1. /\ cur[d] \in Row
        /\ UNCHANGED <<flying, sent, batch, cur>>
        /\ \A r \in Row \ {cur[d]} : row'[r] = row[r]
    BY <1>7, RecordsRow
  <2>2. row[cur[d]].status # "none"
    <3> HIDE DEF Typed, Flights
    <3> QED BY <2>1
  <2>3. row'[cur[d]].status # "none"
    <3>1. row'[cur[d]].status \in {row[cur[d]].status} \cup Waiting \cup Settled
      BY <1>7, RecordsRow
    <3> HIDE DEF Typed, Flights, Untouched
    <3> QED BY <2>2, <3>1 DEF Waiting, Settled
  <2>4. \A r \in Row : Flights(r)' = Flights(r)
    BY <2>1
  <2> HIDE DEF Typed, TypeOK, Places, RowState, Flights
  <2>5. ASSUME NEW r \in Row, row'[r].status = "none"
        PROVE  r # cur[d] /\ row'[r] = row[r]
    BY <2>1, <2>3, <2>5
  <2> QED BY <2>1, <2>4, <2>5
<1>8. ASSUME NEW f \in flying, Settle(f) PROVE Untouched'
  <2>1. /\ UNCHANGED <<row, batch, cur>>
        /\ flying' \subseteq flying
        /\ \A r \in Row : r # f[2] => sent'[r] = sent[r]
    BY <1>8 DEF Settle
  <2>2. f[2] \in Row /\ Flights(f[2]) # {}
    OBVIOUS
  <2>3. row[f[2]].status # "none"
    BY <2>2, ZenonT(60)
  <2>4. \A r \in Row : Flights(r)' \subseteq Flights(r)
    BY <2>1
  <2> HIDE DEF Typed, Flights
  <2> QED BY <2>1, <2>3, <2>4
<1>9. ASSUME NEW r \in Row, BackoffEnds(r) PROVE Untouched'
  BY <1>9 DEF BackoffEnds, Waiting
<1>10. CASE UNCHANGED <<row, sent, flying, batch, cur>>
  BY <1>10
<1>11. ASSUME NEW d \in Drain, CheckFunded(d) \/ Decides(d) PROVE Untouched'
  BY <1>10, <1>11
  DEF CheckFunded, Decides, PreparePayment, WaitForTransaction, CheckHealth,
      SwitchOff
<1>12. CASE Asks
  BY <1>10, <1>12
  DEF Asks, AskPreference, AskEndpoint, AskFunding, Ask, UpdatePreferences,
      RegisterToken
<1> QED
  BY Steps, <1>1, <1>2, <1>3, <1>4, <1>5, <1>6, <1>7, <1>8, <1>9, <1>10, <1>11,
     <1>12
  DEF vars

(* A delivery is counted before it is made.                                 *)
LEMMA SameSenders ==
  ASSUME Typed, CountedFirst,
         \A r \in Row : Senders(r)' \subseteq Senders(r),
         \A r \in Row : /\ Kind[r] # "funding" => sent'[r] = sent[r]
                        /\ row'[r].tries >= row[r].tries,
         Typed'
  PROVE  CountedFirst'
<1> SUFFICES ASSUME NEW r \in Row, Kind[r] # "funding"
             PROVE  /\ IsFiniteSet(Senders(r)')
                    /\ sent'[r] + Cardinality(Senders(r)') <= row'[r].tries
  BY DEF CountedFirst
<1>1. IsFiniteSet(Senders(r)) /\ sent[r] + Cardinality(Senders(r)) <= row[r].tries
  BY DEF CountedFirst
<1>2. /\ IsFiniteSet(Senders(r)')
      /\ Cardinality(Senders(r)') <= Cardinality(Senders(r))
  BY <1>1, FS_Subset
<1>3. /\ Cardinality(Senders(r)) \in Nat /\ Cardinality(Senders(r)') \in Nat
      /\ row[r].tries \in Nat /\ row'[r].tries \in Nat /\ sent[r] \in Nat
  BY <1>1, <1>2, FS_CardinalityType DEF Typed, TypeOK, RowState
<1> QED BY <1>1, <1>2, <1>3

LEMMA CountedStep ==
  ASSUME Typed, Typed', Untouched, CountedFirst, [Next]_vars
  PROVE  CountedFirst'
<1> USE DeliveryAssumption
    DEF Typed, TypeOK, Places, BusyPc, FundingPc, outside, drains, queue, Process
<1>1. CASE Queues
  <2>1. \A r \in Row : Senders(r)' \subseteq Senders(r)
    BY <1>1, QueuesRow DEF Senders
  <2>2. \A r \in Row : sent'[r] = sent[r] /\ row'[r].tries >= row[r].tries
    BY <1>1, QueuesRow DEF Untouched, RowState
  <2> QED BY <2>1, <2>2, SameSenders
<1>2. CASE /\ UNCHANGED sent
           /\ \A d \in Drain : pc'[d] = "send" => pc[d] = "send" /\ cur'[d] = cur[d]
           /\ \A r \in Row : row'[r].tries = row[r].tries
  <2>1. \A r \in Row : Senders(r)' \subseteq Senders(r)
    BY <1>2 DEF Senders
  <2>2. \A r \in Row : row'[r].tries >= row[r].tries
    BY <1>2 DEF RowState
  <2> QED BY <1>2, <2>1, <2>2, SameSenders
<1>3. ASSUME NEW d \in Drain, Lists(d) \/ EndDrain(d) \/ Die(d) PROVE CountedFirst'
  BY <1>2, <1>3 DEF Lists, List, EndDrain, Die
<1>4. ASSUME NEW d \in Drain, CountAttempt(d) PROVE CountedFirst'
  <2>1. PICK r \in batch[d] :
          /\ row' = [row EXCEPT ![r].tries = @ + 1]
          /\ cur' = [cur EXCEPT ![d] = r]
          /\ pc' = [pc EXCEPT ![d] = IF Kind[r] = "funding" THEN "check" ELSE "send"]
    BY <1>4, ZenonT(60) DEF CountAttempt
  <2>2. r \in Row /\ pc[d] = "next" /\ UNCHANGED sent
    BY <1>4 DEF CountAttempt
  <2> SUFFICES ASSUME NEW q \in Row, Kind[q] # "funding"
               PROVE  /\ IsFiniteSet(Senders(q)')
                      /\ sent'[q] + Cardinality(Senders(q)') <= row'[q].tries
    BY DEF CountedFirst
  <2>3. /\ IsFiniteSet(Senders(q))
        /\ sent[q] + Cardinality(Senders(q)) <= row[q].tries
        /\ Cardinality(Senders(q)) \in Nat /\ sent[q] \in Nat /\ row[q].tries \in Nat
    BY FS_CardinalityType DEF CountedFirst, RowState
  <2>4. CASE q = r
    <3>1. Senders(q)' = Senders(q) \cup {d} /\ d \notin Senders(q)
      BY <2>1, <2>2, <2>4 DEF Senders
    <3>2. /\ IsFiniteSet(Senders(q)')
          /\ Cardinality(Senders(q)') = Cardinality(Senders(q)) + 1
      BY <2>3, <3>1, FS_AddElement
    <3>3. row'[q].tries = row[q].tries + 1
      BY <2>1, <2>2, <2>4 DEF RowState
    <3> QED BY <2>2, <2>3, <3>2, <3>3
  <2>5. CASE q # r
    <3>1. Senders(q)' = Senders(q) /\ row'[q] = row[q]
      BY <2>1, <2>2, <2>5 DEF Senders
    <3> QED BY <2>2, <2>3, <3>1
  <2> QED BY <2>4, <2>5
<1>5. ASSUME NEW d \in Drain, Sends(d) PROVE CountedFirst'
  <2>1. /\ pc[d] = "send" /\ cur[d] \in Row /\ UNCHANGED <<row, cur>>
        /\ sent' = sent \/ sent' = [sent EXCEPT ![cur[d]] = @ + 1]
        /\ \E l \in {"success", "failed", "refused"} : pc' = [pc EXCEPT ![d] = l]
    BY <1>5 DEF Sends, SendEmail, SendPush, SendWebhook, Sending
  <2> SUFFICES ASSUME NEW q \in Row, Kind[q] # "funding"
               PROVE  /\ IsFiniteSet(Senders(q)')
                      /\ sent'[q] + Cardinality(Senders(q)') <= row'[q].tries
    BY DEF CountedFirst
  <2>2. /\ IsFiniteSet(Senders(q))
        /\ sent[q] + Cardinality(Senders(q)) <= row[q].tries
        /\ Cardinality(Senders(q)) \in Nat /\ sent[q] \in Nat /\ row[q].tries \in Nat
    <3>1. /\ IsFiniteSet(Senders(q))
          /\ sent[q] + Cardinality(Senders(q)) <= row[q].tries
      BY DEF CountedFirst
    <3>2. Cardinality(Senders(q)) \in Nat
      BY <3>1, FS_CardinalityType
    <3>3. sent[q] \in Nat /\ row[q].tries \in Nat
      BY DEF RowState
    <3> QED BY <3>1, <3>2, <3>3
  <2>3. CASE q = cur[d]
    <3>1. Senders(q)' = Senders(q) \ {d} /\ d \in Senders(q)
      BY <2>1, <2>3 DEF Senders
    <3>2. /\ IsFiniteSet(Senders(q)')
          /\ Cardinality(Senders(q)') = Cardinality(Senders(q)) - 1
      <4> HIDE DEF Typed, TypeOK, Places, RowState
      <4>1. /\ IsFiniteSet(Senders(q) \ {d})
            /\ Cardinality(Senders(q) \ {d}) = Cardinality(Senders(q)) - 1
        BY <2>2, <3>1, FS_RemoveElement
      <4> QED BY <3>1, <4>1
    <3>3. sent'[q] \in {sent[q], sent[q] + 1} /\ row'[q].tries = row[q].tries
      <4>1. q \in DOMAIN sent
        BY DEF Typed, TypeOK
      <4> HIDE DEF Typed, TypeOK, RowState
      <4> QED BY <2>1, <2>3, <4>1
    <3> HIDE DEF Typed, TypeOK, RowState
    <3> QED BY <2>2, <3>2, <3>3
  <2>4. CASE q # cur[d]
    <3>1. Senders(q)' = Senders(q)
      BY <2>1, <2>4 DEF Senders
    <3>2. sent'[q] = sent[q]
      BY <2>1, <2>4
    <3> QED BY <2>1, <2>2, <3>1, <3>2
  <2> QED BY <2>3, <2>4
<1>6. ASSUME NEW d \in Drain, SubmitPayment(d) PROVE CountedFirst'
  <2>1. \A r \in Row : Kind[r] # "funding" => sent'[r] = sent[r]
    BY <1>6 DEF SubmitPayment
  <2>2. \A r \in Row : Senders(r)' \subseteq Senders(r)
    BY <1>6 DEF SubmitPayment, Senders
  <2>3. \A r \in Row : row'[r].tries >= row[r].tries
    BY <1>6 DEF SubmitPayment, RowState
  <2> QED BY <2>1, <2>2, <2>3, SameSenders
<1>7. ASSUME NEW d \in Drain, Records(d) PROVE CountedFirst'
  <2>1. pc'[d] # "send"
    BY <1>7
    DEF Records, MarkConfirmed, RecordTimeout, RecordSuccess, RecordRefused,
        EmailFails, NotificationFails, WebhookFails, Fails, FundingFails
  <2> QED BY <1>2, <1>7, <2>1, RecordsRow
<1>8. ASSUME NEW f \in flying, Settle(f) PROVE CountedFirst'
  <2>1. f[2] \in Row /\ UNCHANGED <<row, pc, cur>>
    BY <1>8 DEF Settle
  <2>2. \A r \in Row : Kind[r] # "funding" => sent'[r] = sent[r]
    BY <1>8, <2>1 DEF Settle
  <2>3. \A r \in Row : Senders(r)' \subseteq Senders(r)
    BY <2>1 DEF Senders
  <2>4. \A r \in Row : row'[r].tries >= row[r].tries
    BY <2>1 DEF RowState
  <2> QED BY <2>2, <2>3, <2>4, SameSenders
<1>9. ASSUME NEW r \in Row, BackoffEnds(r) PROVE CountedFirst'
  BY <1>2, <1>9 DEF BackoffEnds, RowState
<1>10. ASSUME NEW d \in Drain, CheckFunded(d) \/ Decides(d) PROVE CountedFirst'
  BY <1>2, <1>10
  DEF CheckFunded, Decides, PreparePayment, WaitForTransaction, CheckHealth,
      SwitchOff
<1>11. CASE Asks
  <2>1. UNCHANGED <<row, sent, cur>> /\ \A d \in Drain : pc'[d] = pc[d]
    BY <1>11
    DEF Asks, AskPreference, AskEndpoint, AskFunding, Ask, UpdatePreferences,
        RegisterToken
  <2> QED BY <1>2, <2>1
<1> QED
  BY Steps, <1>1, <1>2, <1>3, <1>4, <1>5, <1>6, <1>7, <1>8, <1>9, <1>10, <1>11
  DEF vars

(* Drains that do not overlap find what they have listed.                   *)
LEMMA AloneActs ==
  ASSUME Typed, Typed', alone, Alone, NEW d \in Drain, pc[d] # "idle",
         \A e \in Drain \ {d} : pc'[e] = pc[e],
         AsListed(d)'
  PROVE  Alone'
<1>1. \A e \in Drain \ {d} : pc'[e] = "idle"
  BY DEF Alone
<1>2. \A e \in Drain \ {d} : batch'[e] = {}
  BY <1>1 DEF Typed, Places, BusyPc, FundingPc
<1>3. \A e \in Drain \ {d} : AsListed(e)'
  BY <1>1, <1>2 DEF AsListed, BusyPc, FundingPc
<1> QED BY <1>1, <1>3 DEF Alone

LEMMA AloneStep ==
  ASSUME Typed, Typed', Untouched, Alone, [Next]_vars
  PROVE  Alone'
<1> SUFFICES ASSUME alone, UNCHANGED alone PROVE Alone'
  BY DEF Alone, Next, Die, vars, fixed
<1>0. \A d \in Drain : AsListed(d)
  BY DEF Alone
<1>2. /\ \A d \in Drain : batch[d] \subseteq Row
      /\ \A d \in Drain : pc[d] \in BusyPc => cur[d] \in Row
      /\ FundingPc \subseteq BusyPc /\ {"health", "off"} \subseteq BusyPc
  BY DEF Typed, TypeOK, Places, BusyPc, FundingPc
<1> USE DeliveryAssumption
    DEF Typed, TypeOK, Places, AsListed, BusyPc, FundingPc, outside, drains,
        queue, Process
<1>16. CASE Queues
  <2>1. CASE row' = row
    BY <1>0, <1>16, <2>1, QueuesRow DEF Alone
  <2>2. CASE row' # row
    <3>1. PICK r \in Row :
            /\ row[r].status = "none"
            /\ row' = [row EXCEPT
                 ![r] = [status |-> "pending", tries |-> 0, due |-> TRUE]]
      BY <1>16, <2>2, QueuesRow
    <3>2. \A d \in Drain : cur[d] # r /\ r \notin batch[d]
      BY <3>1 DEF Untouched
    <3>3. \A q \in Row \ {r} : row'[q] = row[q]
      BY <3>1
    <3>5. /\ \A d \in Drain : pc'[d] = pc[d]
          /\ UNCHANGED <<batch, cur, seen>>
      BY <1>16, QueuesRow
    <3>6. ASSUME NEW d \in Drain PROVE AsListed(d)'
      <4> HIDE DEF Typed, BusyPc, FundingPc
      <4>1. \A q \in batch[d] : row'[q] = row[q]
        BY <1>2, <3>2, <3>3
      <4>2. pc[d] \in BusyPc => row'[cur[d]] = row[cur[d]]
        BY <1>2, <3>2, <3>3
      <4> QED BY <1>0, <1>2, <3>5, <4>1, <4>2
    <3> QED BY <3>5, <3>6 DEF Alone
  <2> QED BY <2>1, <2>2
<1>3. ASSUME NEW d \in Drain, Lists(d) PROVE Alone'
  BY <1>3 DEF Lists, List, Due, Waiting, Alone
<1>4. ASSUME NEW d \in Drain, EndDrain(d) \/ Die(d) PROVE Alone'
  BY <1>0, <1>4 DEF EndDrain, Die, Alone
<1>5. ASSUME NEW d \in Drain, CountAttempt(d) PROVE Alone'
  <2>1. PICK r \in batch[d] :
          /\ row' = [row EXCEPT ![r].tries = @ + 1]
          /\ batch' = [batch EXCEPT ![d] = @ \ {r}]
          /\ cur' = [cur EXCEPT ![d] = r]
          /\ pc' = [pc EXCEPT ![d] = IF Kind[r] = "funding" THEN "check" ELSE "send"]
    BY <1>5 DEF CountAttempt
  <2>2. r \in Row /\ pc[d] = "next" /\ UNCHANGED seen
    BY <1>5 DEF CountAttempt
  <2>3. /\ \A q \in Row \ {r} : row'[q] = row[q]
        /\ row'[r].tries = row[r].tries + 1
        /\ row'[r].status = row[r].status /\ row'[r].due = row[r].due
    BY <2>1, <2>2 DEF RowState
  <2>4. /\ row[r] = seen[d].row[r]
        /\ row[r].status \in Waiting /\ row[r].due
    <3> HIDE DEF Typed
    <3> QED BY <1>0
  <2>5. AsListed(d)'
    BY <1>0, <2>1, <2>2, <2>3, <2>4
  <2> QED BY <2>1, <2>2, <2>5, AloneActs
<1>6. ASSUME NEW d \in Drain, Sends(d) PROVE Alone'
  <2>1. AsListed(d)'
    BY <1>0, <1>6 DEF Sends, SendEmail, SendPush, SendWebhook, Sending
  <2> QED
    BY <1>6, <2>1, AloneActs
    DEF Sends, SendEmail, SendPush, SendWebhook, Sending
<1>7. ASSUME NEW d \in Drain, CheckFunded(d) PROVE Alone'
  <2>1. /\ pc[d] = "check" /\ UNCHANGED <<row, batch, cur, seen>>
        /\ \E l \in {"confirm", "pay", "failed"} : pc' = [pc EXCEPT ![d] = l]
    BY <1>7 DEF CheckFunded
  <2>2. AsListed(d)'
    BY <1>0, <2>1
  <2>3. \A e \in Drain \ {d} : pc'[e] = pc[e]
    BY <2>1
  <2> HIDE DEF Typed, AsListed
  <2> QED BY <2>1, <2>2, <2>3, AloneActs
<1>8. ASSUME NEW d \in Drain, Decides(d) PROVE Alone'
  <2>1. AsListed(d)'
    <3>1. CASE PreparePayment(d) \/ WaitForTransaction(d)
      <4>1. /\ pc[d] \in {"pay", "wait"} /\ UNCHANGED <<row, batch, cur, seen>>
            /\ \E l \in {"create", "transfer", "failed", "success", "timeout"} :
                 pc' = [pc EXCEPT ![d] = l]
        BY <3>1 DEF PreparePayment, WaitForTransaction
      <4> QED BY <1>0, <4>1
    <3>2. CASE CheckHealth(d) \/ SwitchOff(d)
      <4>1. /\ pc[d] \in {"health", "off"} /\ UNCHANGED <<row, batch, cur, seen>>
            /\ \E l \in {"off", "next"} : pc' = [pc EXCEPT ![d] = l]
        BY <3>2 DEF CheckHealth, SwitchOff
      <4> QED BY <1>0, <4>1
    <3> QED BY <1>8, <3>1, <3>2 DEF Decides
  <2> QED
    BY <1>8, <2>1, AloneActs
    DEF Decides, PreparePayment, WaitForTransaction, CheckHealth, SwitchOff
<1>9. ASSUME NEW d \in Drain, SubmitPayment(d) PROVE Alone'
  <2>1. AsListed(d)'
    BY <1>0, <1>9 DEF SubmitPayment
  <2> QED BY <1>9, <2>1, AloneActs DEF SubmitPayment
<1>10. ASSUME NEW d \in Drain, Records(d) PROVE Alone'
  <2>1. /\ pc[d] \in BusyPc /\ cur[d] \in Row
        /\ pc' = [pc EXCEPT ![d] = pc'[d]]
        /\ UNCHANGED <<batch, cur, seen>>
        /\ \A r \in Row \ {cur[d]} : row'[r] = row[r]
        /\ row'[cur[d]].tries = row[cur[d]].tries
    BY <1>10, RecordsRow
  <2>2. /\ pc'[d] \in {"next", "failed", "health", "pay"}
        /\ pc'[d] = "pay" => UNCHANGED row /\ pc[d] = "confirm"
        /\ pc'[d] = "health" => row'[cur[d]].status = "failed"
    BY <1>10, RecordsEnd DEF MarkConfirmed
  <2>3. AsListed(d)'
    BY <1>0, <2>1, <2>2
  <2> QED BY <2>1, <2>3, AloneActs
<1>11. ASSUME NEW r \in Row, BackoffEnds(r) PROVE Alone'
  <2>1. /\ \A q \in Row \ {r} : row'[q] = row[q]
        /\ row'[r].tries = row[r].tries /\ row'[r].status = row[r].status
        /\ ~row[r].due /\ row'[r].due
        /\ UNCHANGED <<pc, batch, cur, seen>>
    BY <1>11 DEF BackoffEnds, RowState
  <2>2. ASSUME NEW d \in Drain PROVE AsListed(d)'
    <3> HIDE DEF Typed, BusyPc, FundingPc
    <3>1. \A q \in batch[d] : row'[q] = row[q]
      BY <1>0, <1>2, <2>1
    <3>2. pc[d] \in BusyPc =>
            /\ row'[cur[d]].tries = row[cur[d]].tries
            /\ row'[cur[d]].status = row[cur[d]].status
            /\ row[cur[d]].due => row'[cur[d]].due
      BY <1>2, <2>1
    <3> QED BY <1>0, <1>2, <2>1, <3>1, <3>2
  <2> QED BY <2>1, <2>2 DEF Alone
<1>12. CASE /\ UNCHANGED <<row, batch, cur, seen>>
            /\ \A d \in Drain : pc'[d] = pc[d]
  <2>1. \A d \in Drain : AsListed(d)'
    BY <1>0, <1>12
  <2> QED BY <1>12, <2>1 DEF Alone
<1>13. ASSUME NEW f \in flying, Settle(f) PROVE Alone'
  BY <1>12, <1>13 DEF Settle
<1>14. CASE Asks
  BY <1>12, <1>14
  DEF Asks, AskPreference, AskEndpoint, AskFunding, Ask, UpdatePreferences,
      RegisterToken
<1>15. CASE UNCHANGED vars
  BY <1>12, <1>15 DEF vars
<1> QED
  BY Steps, <1>16, <1>3, <1>4, <1>5, <1>6, <1>7, <1>8, <1>9, <1>10, <1>11,
     <1>13, <1>14, <1>15

LEMMA NoDeath ==
  ASSUME Typed, [Next]_vars
  PROVE  UNCHANGED alone /\ deaths' >= deaths /\ (deaths' = 0 => deaths = 0)
<1>1. CASE UNCHANGED fixed
  BY <1>1 DEF fixed, Typed, TypeOK
<1>2. ASSUME NEW d \in Drain, Die(d) PROVE UNCHANGED alone /\ deaths' = deaths + 1
  BY <1>2 DEF Die, Typed, TypeOK
<1> QED BY Steps, <1>1, <1>2 DEF vars, fixed, Typed, TypeOK

(* While drains do not overlap, the attempts stay within the query's limit. *)
LEMMA WithinStep ==
  ASSUME Typed, Typed', Untouched, Alone, Within, [Next]_vars
  PROVE  Within'
<1> SUFFICES ASSUME alone PROVE Within'
  BY NoDeath DEF Within
<1>1. /\ UNCHANGED limit
      /\ \A r \in Row : row[r].tries \in Nat /\ limit[Kind[r]] \in Nat
      /\ \A r \in Row : row[r].tries <= limit[Kind[r]]
      /\ \A d \in Drain : batch[d] \subseteq Row
      /\ \A d \in Drain : \A r \in batch[d] : row[r].tries < limit[Kind[r]]
  <2>1. UNCHANGED limit
    BY DEF Next, Die, vars, fixed
  <2>2. \A r \in Row : row[r].tries \in Nat /\ limit[Kind[r]] \in Nat
    BY DeliveryAssumption DEF Typed, TypeOK, RowState, Limits
  <2>3. \A d \in Drain : batch[d] \subseteq Row
    BY DEF Typed, TypeOK
  <2> QED BY <2>1, <2>2, <2>3 DEF Within
<1>2. ASSUME \A r \in Row : row'[r].tries = row[r].tries,
             \A d \in Drain : batch'[d] \subseteq batch[d]
      PROVE  Within'
  BY <1>1, <1>2 DEF Within
<1>3. CASE Queues
  <2>1. UNCHANGED batch
    BY <1>3, QueuesRow DEF drains
  <2>2. \A r \in Row : row'[r].tries = row[r].tries
    BY <1>3, QueuesRow DEF Untouched, Typed, TypeOK
  <2> QED BY <1>2, <2>1, <2>2
<1>4. ASSUME NEW d \in Drain, NEW k \in Kinds, List(d, k) PROVE Within'
  <2>1. UNCHANGED row /\ batch' = [batch EXCEPT ![d] = Due(k)]
    BY <1>4 DEF List, queue
  <2>2. \A r \in Due(k) : row[r].tries < limit[Kind[r]]
    BY DEF Due
  <2>3. \A e \in Drain : batch'[e] = batch[e] \/ batch'[e] = Due(k)
    BY <2>1 DEF Typed, TypeOK
  <2> QED BY <1>1, <2>1, <2>2, <2>3 DEF Within
<1>5. ASSUME NEW d \in Drain, CountAttempt(d) PROVE Within'
  <2>1. PICK r \in batch[d] :
          /\ row' = [row EXCEPT ![r].tries = @ + 1]
          /\ batch' = [batch EXCEPT ![d] = @ \ {r}]
    BY <1>5 DEF CountAttempt
  <2>2. \A e \in Drain \ {d} : batch[e] = {}
    BY <1>5 DEF CountAttempt, Alone, Typed, Places, BusyPc, FundingPc
  <2>3. /\ r \in Row
        /\ row'[r].tries = row[r].tries + 1
        /\ \A q \in Row \ {r} : row'[q] = row[q]
    BY <1>1, <2>1 DEF Typed, TypeOK, RowState
  <2>4. /\ batch'[d] = batch[d] \ {r}
        /\ \A e \in Drain \ {d} : batch'[e] = {}
    BY <2>1, <2>2 DEF Typed, TypeOK
  <2> QED BY <1>1, <2>3, <2>4 DEF Within
<1>6. ASSUME NEW d \in Drain, Records(d) PROVE Within'
  <2>1. \A r \in Row : row'[r].tries = row[r].tries
    BY <1>6, RecordsRow
  <2>2. UNCHANGED batch
    BY <1>6, RecordsRow DEF drains
  <2> QED BY <1>2, <2>1, <2>2
<1>7. ASSUME NEW q \in Row, BackoffEnds(q) PROVE Within'
  BY <1>2, <1>7 DEF BackoffEnds, Typed, TypeOK, RowState, drains
<1>8. ASSUME NEW d \in Drain, Die(d) PROVE Within'
  BY <1>2, <1>8 DEF Die, queue, Typed, TypeOK
<1>9. ASSUME UNCHANGED <<row, batch>> PROVE Within'
  BY <1>2, <1>9
<1>10. ASSUME NEW d \in Drain,
              \/ EndDrain(d) \/ Sends(d) \/ CheckFunded(d) \/ Decides(d)
              \/ SubmitPayment(d)
       PROVE  UNCHANGED <<row, batch>>
  BY <1>10
  DEF EndDrain, Sends, SendEmail, SendPush, SendWebhook, CheckFunded, Decides,
      PreparePayment, WaitForTransaction, CheckHealth, SwitchOff,
      SubmitPayment, queue, drains
<1>11. ASSUME Asks PROVE UNCHANGED <<row, batch>>
  BY <1>11
  DEF Asks, AskPreference, AskEndpoint, AskFunding, Ask, UpdatePreferences,
      RegisterToken, queue, drains
<1>12. ASSUME NEW f \in flying, Settle(f) PROVE UNCHANGED <<row, batch>>
  BY <1>12 DEF Settle, queue, drains
<1>13. CASE UNCHANGED vars
  BY <1>9, <1>13 DEF vars, queue, drains
<1> QED
  BY Steps, <1>3, <1>4, <1>5, <1>6, <1>7, <1>8, <1>9, <1>10, <1>11, <1>12, <1>13
  DEF Lists

(* No row is left with its attempts spent.                                  *)
LEMMA StrandedStep ==
  ASSUME Typed, Typed', Untouched, Alone, Stranded, [Next]_vars
  PROVE  Stranded'
<1> SUFFICES ASSUME alone, deaths = 0, deaths' = 0, UNCHANGED alone,
                    NEW r \in Row, row'[r].status = "pending",
                    row'[r].tries >= MaxAttempts
             PROVE  \E d \in Drain : cur'[d] = r /\ pc'[d] \in BusyPc
  BY NoDeath DEF Stranded
<1> USE DeliveryAssumption
    DEF Typed, TypeOK, BusyPc, FundingPc, outside, drains, queue, Process
<1>1. ASSUME row'[r] = row[r]
      PROVE  \E d \in Drain : cur[d] = r /\ pc[d] \in BusyPc
  BY <1>1 DEF Stranded
<1>2. CASE /\ UNCHANGED <<row, cur>>
           /\ \A d \in Drain : pc[d] \in BusyPc => pc'[d] \in BusyPc
  BY <1>1, <1>2
<1>3. CASE Queues
  <2>1. row'[r] = row[r]
    BY <1>3, QueuesRow DEF RowState
  <2> QED BY <1>1, <1>3, <2>1, QueuesRow
<1>4. ASSUME NEW d \in Drain, Lists(d) \/ EndDrain(d) PROVE FALSE
  <2>1. row' = row /\ pc[d] \in {"idle", "next"}
    BY <1>4 DEF Lists, List, EndDrain
  <2>2. PICK e \in Drain : cur[e] = r /\ pc[e] \in BusyPc
    BY <1>1, <2>1
  <2>3. pc[d] = "next" /\ alone => d = e
    BY <2>2 DEF Alone
  <2>4. Lists(d) => \A x \in Drain : pc[x] = "idle"
    BY DEF Lists, List
  <2> QED BY <1>4, <2>1, <2>2, <2>3, <2>4 DEF EndDrain
<1>5. ASSUME NEW d \in Drain, CountAttempt(d)
      PROVE  \E e \in Drain : cur'[e] = r /\ pc'[e] \in BusyPc
  <2>1. PICK q \in batch[d] :
          /\ row' = [row EXCEPT ![q].tries = @ + 1]
          /\ cur' = [cur EXCEPT ![d] = q]
          /\ pc' = [pc EXCEPT ![d] = IF Kind[q] = "funding" THEN "check" ELSE "send"]
    BY <1>5 DEF CountAttempt
  <2>2. CASE q = r
    BY <2>1, <2>2
  <2>3. CASE q # r
    <3>1. PICK e \in Drain : cur[e] = r /\ pc[e] \in BusyPc
      BY <1>1, <2>1, <2>3
    <3>2. e # d
      BY <1>5, <3>1 DEF CountAttempt
    <3> QED BY <2>1, <3>1, <3>2
  <2> QED BY <2>2, <2>3
<1>6. ASSUME NEW d \in Drain, Sends(d) \/ CheckFunded(d) \/ SubmitPayment(d)
      PROVE  \E e \in Drain : cur'[e] = r /\ pc'[e] \in BusyPc
  BY <1>2, <1>6
  DEF Sends, SendEmail, SendPush, SendWebhook, Sending, CheckFunded, SubmitPayment
<1>7. ASSUME NEW d \in Drain, Decides(d)
      PROVE  \E e \in Drain : cur'[e] = r /\ pc'[e] \in BusyPc
  <2>1. CASE PreparePayment(d) \/ WaitForTransaction(d)
    BY <1>2, <2>1 DEF PreparePayment, WaitForTransaction
  <2>2. CASE CheckHealth(d) \/ SwitchOff(d)
    <3>1. /\ pc[d] \in {"health", "off"} /\ UNCHANGED <<row, cur>>
          /\ \A e \in Drain \ {d} : pc'[e] = pc[e]
      BY <2>2 DEF CheckHealth, SwitchOff
    <3>2. cur[d] # r
      BY <3>1 DEF Alone, AsListed
    <3> QED BY <1>1, <3>1, <3>2
  <2> QED BY <1>7, <2>1, <2>2 DEF Decides
<1>8. ASSUME NEW d \in Drain, Records(d)
      PROVE  \E e \in Drain : cur'[e] = r /\ pc'[e] \in BusyPc
  <2>1. /\ pc[d] \in BusyPc /\ cur[d] \in Row
        /\ pc' = [pc EXCEPT ![d] = pc'[d]] /\ UNCHANGED cur
        /\ \A q \in Row \ {cur[d]} : row'[q] = row[q]
        /\ row'[cur[d]].tries = row[cur[d]].tries
    BY <1>8, RecordsRow
  <2>2. CASE r # cur[d]
    BY <1>1, <2>1, <2>2
  <2>3. CASE r = cur[d] /\ pc'[d] # "next"
    BY <1>8, <2>1, <2>3, RecordsEnd
  <2>4. CASE r = cur[d] /\ pc'[d] = "next"
    <3>1. row[r].tries = seen[d].row[r].tries + 1
      BY <2>1, <2>4 DEF Alone, AsListed
    <3>2. LastAttempt(d)
      BY <2>1, <2>4, <3>1 DEF LastAttempt, RowState
    <3>3. row'[r].status # "pending"
      BY <1>8, <2>1, <2>4, <3>2
      DEF Records, MarkConfirmed, RecordTimeout, RecordSuccess, RecordRefused,
          EmailFails, NotificationFails, WebhookFails, Fails, FundingFails,
          RowState
    <3> QED BY <3>3
  <2> QED BY <2>2, <2>3, <2>4
<1>9. ASSUME NEW f \in flying, Settle(f)
      PROVE  \E d \in Drain : cur'[d] = r /\ pc'[d] \in BusyPc
  BY <1>2, <1>9 DEF Settle
<1>10. ASSUME NEW q \in Row, BackoffEnds(q)
       PROVE  \E d \in Drain : cur'[d] = r /\ pc'[d] \in BusyPc
  <2>1. row'[r].status = row[r].status /\ row'[r].tries = row[r].tries
    BY <1>10 DEF BackoffEnds, RowState
  <2> QED BY <1>10, <2>1 DEF BackoffEnds, Stranded
<1>11. CASE Asks
  <2>1. UNCHANGED <<row, cur>> /\ \A d \in Drain : pc'[d] = pc[d]
    BY <1>11
    DEF Asks, AskPreference, AskEndpoint, AskFunding, Ask, UpdatePreferences,
        RegisterToken
  <2> QED BY <1>2, <2>1
<1>12. CASE UNCHANGED vars
  BY <1>2, <1>12 DEF vars
<1>13. ASSUME NEW d \in Drain, Die(d) PROVE FALSE
  BY <1>13 DEF Die
<1> QED
  BY Steps, <1>3, <1>4, <1>5, <1>6, <1>7, <1>8, <1>9, <1>10, <1>11, <1>12, <1>13

(* While nothing dies, a payment without an answer is over in time.         *)
LEMMA AnsweredStep ==
  ASSUME Typed, Typed', Untouched, Alone, Answered, [Next]_vars
  PROVE  Answered'
<1> DEFINE Failing(r) == \E d \in Drain : cur[d] = r /\ pc[d] = "failed"
           Over(r) == ~row[r].due \/ row[r].status \notin Waiting \/ Failing(r)
<1> SUFFICES ASSUME alone, deaths = 0, deaths' = 0, UNCHANGED alone,
                    NEW r \in Row, Flights(r)' # {}
             PROVE  Over(r)'
  BY NoDeath DEF Answered
<1>1. ASSUME Flights(r) # {} PROVE Over(r)
  BY <1>1 DEF Answered
<1> USE DeliveryAssumption
    DEF Typed, TypeOK, BusyPc, FundingPc, outside, drains, queue, Process
<1>2. CASE /\ UNCHANGED <<row, cur, flying>>
           /\ \A d \in Drain : pc[d] = "failed" => pc'[d] = "failed"
  BY <1>1, <1>2 DEF Flights
<1>3. CASE Queues
  <2>1. Flights(r)' = Flights(r)
    BY <1>3, QueuesRow DEF Flights
  <2>2. row'[r] = row[r]
    BY <1>3, <2>1, QueuesRow DEF Untouched
  <2> QED BY <1>1, <1>3, <2>1, <2>2, QueuesRow
<1>4. ASSUME NEW d \in Drain, Lists(d) PROVE Over(r)'
  BY <1>2, <1>4 DEF Lists, List
<1>5. ASSUME NEW d \in Drain, EndDrain(d) PROVE Over(r)'
  <2>1. /\ UNCHANGED <<row, flying>> /\ pc[d] = "next"
        /\ \A e \in Drain \ {d} : cur'[e] = cur[e] /\ pc'[e] = pc[e]
    BY <1>5 DEF EndDrain
  <2>2. Over(r)
    BY <1>1, <2>1 DEF Flights
  <2> QED BY <2>1, <2>2
<1>6. ASSUME NEW d \in Drain, CountAttempt(d) PROVE Over(r)'
  <2>1. /\ UNCHANGED flying /\ pc[d] = "next"
        /\ \A e \in Drain \ {d} : cur'[e] = cur[e] /\ pc'[e] = pc[e]
    BY <1>6 DEF CountAttempt
  <2>2. row'[r].due = row[r].due /\ row'[r].status = row[r].status
    BY <1>6 DEF CountAttempt, RowState
  <2>3. Over(r)
    BY <1>1, <2>1 DEF Flights
  <2> QED BY <2>1, <2>2, <2>3
<1>7. ASSUME NEW d \in Drain, Sends(d) \/ CheckFunded(d) \/ Decides(d) PROVE Over(r)'
  BY <1>2, <1>7
  DEF Sends, SendEmail, SendPush, SendWebhook, Sending, CheckFunded, Decides,
      PreparePayment, WaitForTransaction, CheckHealth, SwitchOff
<1>8. ASSUME NEW d \in Drain, SubmitPayment(d) PROVE Over(r)'
  <2>1. CASE UNCHANGED flying
    BY <1>2, <1>8, <2>1 DEF SubmitPayment
  <2>2. CASE ~UNCHANGED flying
    <3>1. /\ flying' = flying \cup {<<d, cur[d], pc[d]>>}
          /\ pc[d] \in {"create", "transfer"}
          /\ pc' = [pc EXCEPT ![d] = "failed"] /\ UNCHANGED <<row, cur>>
      BY <1>8, <2>2 DEF SubmitPayment
    <3>2. CASE cur[d] = r
      BY <3>1, <3>2
    <3>3. CASE cur[d] # r
      <4>1. Flights(r) # {}
        BY <3>1, <3>3 DEF Flights
      <4>2. Over(r)
        BY <1>1, <4>1
      <4> QED BY <3>1, <4>2
    <3> QED BY <3>2, <3>3
  <2> QED BY <2>1, <2>2
<1>9. ASSUME NEW d \in Drain, Records(d) PROVE Over(r)'
  <2>1. /\ pc[d] \in BusyPc /\ cur[d] \in Row
        /\ pc' = [pc EXCEPT ![d] = pc'[d]] /\ UNCHANGED <<cur, flying>>
        /\ \A q \in Row \ {cur[d]} : row'[q] = row[q]
    BY <1>9, RecordsRow
  <2>2. Flights(r) # {} /\ Over(r)
    BY <1>1, <2>1 DEF Flights
  <2>3. CASE cur[d] # r
    BY <2>1, <2>2, <2>3
  <2>4. CASE cur[d] = r /\ MarkConfirmed(d)
    <3>1. pc[d] = "confirm" /\ row[r].due /\ row[r].status \in Waiting
      BY <2>4 DEF MarkConfirmed, Alone, AsListed
    <3>2. Failing(r)
      BY <2>2, <3>1
    <3> QED BY <2>1, <3>1, <3>2 DEF Alone
  <2>5. CASE cur[d] = r /\ RecordTimeout(d)
    <3>1. pc[d] = "timeout" /\ row[r].due /\ row[r].status \in Waiting
      BY <2>5 DEF RecordTimeout, Alone, AsListed
    <3>2. Failing(r)
      BY <2>2, <3>1
    <3> QED BY <2>1, <3>1, <3>2 DEF Alone
  <2>6. CASE cur[d] = r /\ (RecordSuccess(d) \/ RecordRefused(d))
    BY <2>1, <2>6 DEF RecordSuccess, RecordRefused, RowState, Waiting
  <2>7. CASE /\ cur[d] = r
             /\ EmailFails(d) \/ NotificationFails(d) \/ WebhookFails(d) \/ FundingFails(d)
    BY <2>1, <2>7
    DEF EmailFails, NotificationFails, WebhookFails, Fails, FundingFails,
        RowState, Waiting
  <2> QED BY <1>9, <2>3, <2>4, <2>5, <2>6, <2>7 DEF Records
<1>10. ASSUME NEW f \in flying, Settle(f) PROVE Over(r)'
  <2>1. flying' \subseteq flying /\ UNCHANGED <<row, pc, cur>>
    BY <1>10 DEF Settle
  <2>2. Over(r)
    BY <1>1, <2>1 DEF Flights
  <2> QED BY <2>1, <2>2
<1>11. ASSUME NEW q \in Row, BackoffEnds(q) PROVE Over(r)'
  <2>1. UNCHANGED <<flying, pc, cur>>
    BY <1>11 DEF BackoffEnds
  <2>2. Over(r) /\ Flights(r) # {}
    BY <1>1, <2>1 DEF Flights
  <2>3. q # r
    BY <1>11, <2>2 DEF BackoffEnds, Flights
  <2>4. row'[r] = row[r]
    BY <1>11, <2>3 DEF BackoffEnds
  <2> QED BY <2>1, <2>2, <2>4
<1>12. CASE Asks
  <2>1. UNCHANGED <<row, cur, flying>> /\ \A d \in Drain : pc'[d] = pc[d]
    BY <1>12
    DEF Asks, AskPreference, AskEndpoint, AskFunding, Ask, UpdatePreferences,
        RegisterToken
  <2> QED BY <1>2, <2>1
<1>13. CASE UNCHANGED vars
  BY <1>2, <1>13 DEF vars
<1>14. ASSUME NEW d \in Drain, Die(d) PROVE FALSE
  BY <1>14 DEF Die
<1> QED
  BY Steps, <1>3, <1>4, <1>5, <1>6, <1>7, <1>8, <1>9, <1>10, <1>11, <1>12,
     <1>13, <1>14

(* What the account of a row has got and will get.                          *)
LEMMA Amounts ==
  ASSUME Typed, NEW r \in Row, IsFiniteSet(Transfers(r))
  PROVE  /\ ledger[r] \in Nat /\ unsure[r] \in Nat /\ deaths \in Nat
         /\ Cardinality(Transfers(r)) \in Nat
         /\ Payments(r) \in Nat /\ Excused(r) \in Nat
<1>1. ledger[r] \in Nat /\ unsure[r] \in Nat /\ deaths \in Nat
  BY DEF Typed, TypeOK
<1>2. Cardinality(Transfers(r)) \in Nat
  BY FS_CardinalityType
<1> QED BY <1>1, <1>2 DEF Payments, Excused

LEMMA SamePaid ==
  ASSUME Typed, Typed', NEW r \in Row, PaidAt(r),
         Flights(r)' = Flights(r), ledger'[r] = ledger[r],
         unsure'[r] >= unsure[r], deaths' >= deaths,
         \A l \in {"pay", "transfer", "confirm"} : Payer(r, l)' => Payer(r, l)
  PROVE  PaidAt(r)'
<1>1. Transfers(r)' = Transfers(r) /\ IsFiniteSet(Transfers(r))
  BY DEF Transfers, PaidAt
<1>2. /\ ledger[r] \in Nat /\ unsure[r] \in Nat /\ deaths \in Nat
      /\ unsure'[r] \in Nat /\ deaths' \in Nat
      /\ Cardinality(Transfers(r)) \in Nat
  BY <1>1, FS_CardinalityType DEF Typed, TypeOK
<1>3. /\ Payments(r) \in Nat /\ Payments(r)' \in Nat /\ Payments(r)' <= Payments(r)
  BY <1>1, <1>2 DEF Payments
<1>4. /\ Excused(r) \in Nat /\ Excused(r)' \in Nat /\ Excused(r) <= Excused(r)'
  BY <1>2 DEF Excused
<1> HIDE DEF Payments, Excused
<1>5. deaths > 0 => deaths' > 0
  BY <1>2
<1>6. Payments(r) <= 1 + Excused(r) => Payments(r)' <= 1 + Excused(r)'
  BY <1>3, <1>4
<1>7. Payments(r) <= Excused(r) => Payments(r)' <= Excused(r)'
  BY <1>3, <1>4
<1> QED BY <1>1, <1>5, <1>6, <1>7 DEF PaidAt

\* A drain has decided to pay.
LEMMA MayPay ==
  ASSUME Typed, Typed', alone, Alone, NEW d \in Drain, NEW r \in Row, PaidAt(r),
         cur[d] = r, pc[d] \in {"check", "confirm"},
         pc' = [pc EXCEPT ![d] = "pay"],
         UNCHANGED <<ledger, flying, cur, deaths>>,
         \/ ledger[r] > 0 /\ unsure'[r] = unsure[r] + 1
         \/ /\ ledger[r] = 0 /\ unsure'[r] = unsure[r]
            /\ Flights(r) # {} => deaths > 0
  PROVE  PaidAt(r)'
<1>1. Flights(r)' = Flights(r) /\ Transfers(r)' = Transfers(r)
  BY DEF Flights, Transfers
<1>2. IsFiniteSet(Transfers(r))
  BY DEF PaidAt
<1>3. /\ ledger[r] \in Nat /\ unsure[r] \in Nat /\ deaths \in Nat
      /\ Cardinality(Transfers(r)) \in Nat
      /\ Payments(r) \in Nat /\ Excused(r) \in Nat
  BY <1>2, Amounts
<1>4. \A l \in {"transfer", "confirm"} : ~Payer(r, l)'
  BY DEF Payer, Alone, Typed, TypeOK, Process
<1>5. Payments(r)' <= Payments(r) /\ Payments(r)' \in Nat
  BY <1>1, <1>3, <1>4 DEF Payments
<1>6. CASE ledger[r] > 0 /\ unsure'[r] = unsure[r] + 1
  <2>1. Excused(r)' = Excused(r) + 1
    BY <1>3, <1>6 DEF Excused
  <2>2. Payments(r) <= 1 + Excused(r)
    BY DEF PaidAt
  <2>3. Payments(r)' <= Excused(r)' /\ Payments(r)' <= 1 + Excused(r)'
    BY <1>3, <1>5, <2>1, <2>2
  <2> QED BY <1>1, <1>2, <1>3, <1>4, <1>6, <2>3 DEF PaidAt
<1>7. CASE /\ ledger[r] = 0 /\ unsure'[r] = unsure[r]
           /\ Flights(r) # {} => deaths > 0
  <2>1. Transfers(r) = {}
    BY <1>7 DEF PaidAt
  <2>2. Payments(r)' = 0
    BY <1>1, <1>4, <1>7, <2>1, FS_EmptySet DEF Payments
  <2>3. Excused(r)' = Excused(r)
    BY <1>7 DEF Excused
  <2>4. Payments(r)' <= Excused(r)' /\ Payments(r)' <= 1 + Excused(r)'
    BY <1>3, <2>2, <2>3
  <2> QED BY <1>1, <1>2, <1>4, <1>7, <2>1, <2>4 DEF PaidAt
<1> QED BY <1>6, <1>7

\* A drain has found the account there, and will transfer.
LEMMA MayTransfer ==
  ASSUME Typed, Typed', alone, Alone, NEW d \in Drain, NEW r \in Row, PaidAt(r),
         cur[d] = r, pc[d] = "pay", ledger[r] > 0,
         pc' = [pc EXCEPT ![d] = "transfer"],
         UNCHANGED <<ledger, flying, cur, unsure, deaths>>
  PROVE  PaidAt(r)'
<1>1. Flights(r)' = Flights(r) /\ Transfers(r)' = Transfers(r)
  BY DEF Flights, Transfers
<1>2. IsFiniteSet(Transfers(r)) /\ Payments(r) <= Excused(r)
  BY DEF PaidAt, Payer
<1>3. /\ ledger[r] \in Nat /\ Cardinality(Transfers(r)) \in Nat
      /\ Payments(r) \in Nat /\ Excused(r) \in Nat
  BY <1>2, Amounts
<1>4. \A l \in {"pay", "confirm"} : ~Payer(r, l)'
  BY DEF Payer, Alone, Typed, TypeOK, Process
<1>5. Payments(r)' <= Payments(r) + 1 /\ Payments(r)' \in Nat
  BY <1>1, <1>3 DEF Payments
<1>6. Excused(r)' = Excused(r)
  BY DEF Excused
<1>7. Payments(r)' <= 1 + Excused(r)'
  BY <1>2, <1>3, <1>5, <1>6
<1> QED BY <1>1, <1>2, <1>4, <1>7 DEF PaidAt

\* A drain has submitted a payment.
LEMMA Submitted ==
  ASSUME Typed, Typed', alone, Alone, NEW d \in Drain, SubmitPayment(d),
         NEW r \in Row, PaidAt(r), cur[d] = r, UNCHANGED deaths
  PROVE  PaidAt(r)'
<1> DEFINE op == pc[d]
<1>1. /\ op \in {"create", "transfer"} /\ UNCHANGED <<unsure, cur>>
      /\ \E l \in {"wait", "failed"} : pc' = [pc EXCEPT ![d] = l]
  BY DEF SubmitPayment, outside, drains
<1>2. \A l \in {"pay", "transfer", "confirm"} : ~Payer(r, l)'
  BY <1>1 DEF Payer, Alone, Typed, TypeOK, Process
<1>3. IsFiniteSet(Transfers(r)) /\ Payments(r) <= 1 + Excused(r)
  BY DEF PaidAt
<1>4. /\ ledger[r] \in Nat /\ Cardinality(Transfers(r)) \in Nat
      /\ Payments(r) \in Nat /\ Excused(r) \in Nat
  BY <1>3, Amounts
<1>5. Excused(r)' = Excused(r)
  BY <1>1 DEF Excused
<1>6. op = "transfer" =>
        /\ ledger[r] > 0
        /\ Payments(r) = ledger[r] + Cardinality(Transfers(r)) + 1
  BY DEF PaidAt, Payments, Payer
<1> USE DEF outside, drains, queue
<1>7. CASE Lands(r, op) /\ UNCHANGED flying
  <2>1. ledger'[r] = ledger[r] + 1
    BY <1>7 DEF Lands, Typed, TypeOK
  <2>2. Flights(r)' = Flights(r) /\ Transfers(r)' = Transfers(r)
    BY <1>7 DEF Flights, Transfers
  <2>3. Payments(r)' = ledger[r] + 1 + Cardinality(Transfers(r))
    BY <1>2, <1>4, <2>1, <2>2 DEF Payments
  <2>4. CASE op = "transfer"
    <3>1. Payments(r)' <= 1 + Excused(r)'
      BY <1>3, <1>4, <1>5, <1>6, <2>3, <2>4
    <3> QED BY <1>2, <1>3, <1>4, <2>1, <2>2, <3>1 DEF PaidAt
  <2>5. CASE op = "create"
    <3>1. ledger[r] = 0 /\ Transfers(r) = {}
      BY <1>7, <2>5 DEF Lands, PaidAt
    <3>2. Payments(r)' <= 1 + Excused(r)'
      BY <1>4, <1>5, <2>3, <3>1, FS_EmptySet
    <3> QED BY <1>2, <1>3, <1>4, <2>1, <2>2, <3>2 DEF PaidAt
  <2> QED BY <1>1, <2>4, <2>5
<1>8. CASE UNCHANGED <<ledger, flying>>
  <2>1. Flights(r)' = Flights(r) /\ Transfers(r)' = Transfers(r)
    BY <1>8 DEF Flights, Transfers
  <2>2. Payments(r)' = ledger[r] + Cardinality(Transfers(r))
    BY <1>2, <1>4, <1>8, <2>1 DEF Payments
  <2>3. Payments(r)' <= Payments(r)
    BY <1>4, <2>2 DEF Payments
  <2>4. Payments(r)' \in Nat
    BY <1>4, <2>2
  <2>5. Payments(r)' <= 1 + Excused(r)'
    BY <1>3, <1>4, <1>5, <2>3, <2>4
  <2> QED BY <1>2, <1>3, <1>8, <2>1, <2>5 DEF PaidAt
<1>9. CASE flying' = flying \cup {<<d, r, op>>} /\ UNCHANGED ledger
  <2>1. CASE op = "create"
    <3>1. Transfers(r)' = Transfers(r)
      BY <1>9, <2>1 DEF Flights, Transfers
    <3>2. Payments(r)' = ledger[r] + Cardinality(Transfers(r))
      BY <1>2, <1>4, <1>9, <3>1 DEF Payments
    <3>3. Payments(r)' <= Payments(r) /\ Payments(r)' \in Nat
      BY <1>4, <3>2 DEF Payments
    <3>4. Payments(r)' <= 1 + Excused(r)'
      BY <1>3, <1>4, <1>5, <3>3
    <3> QED BY <1>2, <1>3, <1>9, <3>1, <3>4 DEF PaidAt
  <2>2. CASE op = "transfer"
    <3>1. Transfers(r)' = Transfers(r) \cup {<<d, r, op>>}
      BY <1>9, <2>2 DEF Flights, Transfers
    <3>2. /\ IsFiniteSet(Transfers(r)')
          /\ Cardinality(Transfers(r)') \in Nat
          /\ Cardinality(Transfers(r)') <= Cardinality(Transfers(r)) + 1
      <4>1. /\ IsFiniteSet(Transfers(r)')
            /\ Cardinality(Transfers(r)') =
                 IF <<d, r, op>> \in Transfers(r) THEN Cardinality(Transfers(r))
                 ELSE Cardinality(Transfers(r)) + 1
        BY <1>3, <3>1, FS_AddElement
      <4> HIDE DEF op
      <4> QED BY <1>4, <4>1
    <3>3. Payments(r)' = ledger[r] + Cardinality(Transfers(r)')
      BY <1>2, <1>4, <1>9, <3>2 DEF Payments
    <3>4. Payments(r)' <= 1 + Excused(r)'
      BY <1>3, <1>4, <1>5, <1>6, <2>2, <3>2, <3>3
    <3> QED BY <1>2, <1>6, <1>9, <2>2, <3>2, <3>4 DEF PaidAt
  <2> QED BY <1>1, <2>1, <2>2
<1> QED BY <1>7, <1>8, <1>9 DEF SubmitPayment

\* A payment without an answer lands, or is over.
LEMMA OverAtLast ==
  ASSUME Typed, Typed', NEW f \in flying, Settle(f), NEW r \in Row, PaidAt(r),
         f[2] = r, UNCHANGED deaths
  PROVE  PaidAt(r)'
<1>1. /\ flying' = flying \ {f} /\ UNCHANGED <<unsure, pc, cur>>
      /\ f[3] \in {"create", "transfer"} /\ f \in Flights(r)
  BY DEF Settle, drains, Flights, Typed, TypeOK
<1>2. \A l \in {"pay", "transfer", "confirm"} : Payer(r, l)' <=> Payer(r, l)
  BY <1>1 DEF Payer
<1>3. IsFiniteSet(Transfers(r)) /\ Payments(r) <= 1 + Excused(r)
  BY DEF PaidAt
<1>4. /\ ledger[r] \in Nat /\ Cardinality(Transfers(r)) \in Nat
      /\ Payments(r) \in Nat /\ Excused(r) \in Nat
      /\ unsure[r] \in Nat /\ deaths \in Nat
  BY <1>3, Amounts
<1>5. Excused(r)' = Excused(r)
  BY <1>1 DEF Excused
<1>6. Transfers(r)' = Transfers(r) \ {f} /\ Flights(r)' \subseteq Flights(r)
  BY <1>1 DEF Flights, Transfers
<1>7. /\ IsFiniteSet(Transfers(r)') /\ Cardinality(Transfers(r)') \in Nat
      /\ Cardinality(Transfers(r)') =
           IF f \in Transfers(r) THEN Cardinality(Transfers(r)) - 1
                                 ELSE Cardinality(Transfers(r))
  BY <1>3, <1>6, FS_RemoveElement, FS_CardinalityType
<1>8. CASE UNCHANGED ledger
  <2>1. Payments(r)' <= Payments(r) /\ Payments(r)' \in Nat
    BY <1>2, <1>4, <1>7, <1>8 DEF Payments
  <2>2. /\ Payments(r)' <= 1 + Excused(r)'
        /\ Payments(r) <= Excused(r) => Payments(r)' <= Excused(r)'
    BY <1>3, <1>4, <1>5, <2>1
  <2> QED BY <1>2, <1>6, <1>7, <1>8, <2>2 DEF PaidAt
<1>9. CASE Lands(r, f[3])
  <2>1. ledger'[r] = ledger[r] + 1
    BY <1>9 DEF Lands, Typed, TypeOK
  <2>2. CASE f[3] = "transfer"
    <3>1. f \in Transfers(r) /\ ledger[r] > 0
      BY <1>1, <2>2 DEF Transfers, PaidAt
    <3>2. Payments(r)' = Payments(r)
      BY <1>2, <1>4, <1>7, <2>1, <3>1 DEF Payments
    <3>3. ledger'[r] > 0
      BY <1>4, <2>1
    <3> QED BY <1>2, <1>3, <1>5, <1>7, <3>2, <3>3 DEF PaidAt
  <2>3. CASE f[3] = "create"
    <3>1. ledger[r] = 0 /\ Transfers(r) = {} /\ ~Payer(r, "transfer")
      BY <1>9, <2>3 DEF Lands, PaidAt
    <3>2. Transfers(r)' = {} /\ ledger'[r] = 1
      BY <1>6, <2>1, <3>1
    <3>3. Payments(r)' = 1
      BY <1>2, <3>1, <3>2, FS_EmptySet DEF Payments
    <3>4. Payer(r, "pay") => Excused(r) >= 1
      <4>1. Payer(r, "pay") => deaths > 0
        BY <1>1, <3>1 DEF PaidAt
      <4> QED BY <1>4, <4>1 DEF Excused
    <3>5. Payments(r)' <= 1 + Excused(r)'
      BY <1>4, <1>5, <3>3
    <3>6. Payer(r, "pay")' => Payments(r)' <= Excused(r)'
      BY <1>2, <1>4, <1>5, <3>3, <3>4
    <3> QED BY <1>7, <3>2, <3>5, <3>6 DEF PaidAt
  <2> QED BY <1>1, <2>2, <2>3
<1> QED BY <1>8, <1>9 DEF Settle

(* An account gets no more than what its excuses allow.                     *)
LEMMA PaidStep ==
  ASSUME Typed, Typed', Alone, Answered, Paid, [Next]_vars
  PROVE  Paid'
<1> SUFFICES ASSUME alone, deaths' >= deaths, NEW r \in Row, Kind[r] = "funding",
                    PaidAt(r)
             PROVE  PaidAt(r)'
  BY NoDeath DEF Paid
<1>1. ASSUME UNCHANGED <<ledger, flying>>, unsure'[r] >= unsure[r],
             \A l \in {"pay", "transfer", "confirm"} : Payer(r, l)' => Payer(r, l)
      PROVE  PaidAt(r)'
  BY <1>1, SamePaid DEF Flights
<1> USE DeliveryAssumption DEF Typed, TypeOK, outside, drains, queue, Process
<1>2. CASE /\ UNCHANGED <<ledger, flying, unsure>>
           /\ \A d \in Drain : pc'[d] \in {"pay", "transfer", "confirm"} =>
                pc'[d] = pc[d] /\ cur'[d] = cur[d]
  BY <1>1, <1>2 DEF Payer
<1>3. CASE Queues
  BY <1>2, <1>3, QueuesRow
<1>4. ASSUME NEW d \in Drain, Lists(d) \/ EndDrain(d) PROVE PaidAt(r)'
  BY <1>2, <1>4 DEF Lists, List, EndDrain
<1>5. ASSUME NEW d \in Drain, CountAttempt(d) \/ Sends(d) PROVE PaidAt(r)'
  BY <1>2, <1>5
  DEF CountAttempt, Sends, SendEmail, SendPush, SendWebhook, Sending
<1>6. ASSUME NEW d \in Drain, CheckFunded(d), UNCHANGED deaths PROVE PaidAt(r)'
  <2>1. /\ pc[d] = "check" /\ UNCHANGED <<row, ledger, flying, cur>>
        /\ cur[d] \in Row
        /\ \E l \in {"confirm", "pay", "failed"} : pc' = [pc EXCEPT ![d] = l]
        /\ unsure' = unsure \/ unsure' = [unsure EXCEPT ![cur[d]] = @ + 1]
    BY <1>6 DEF CheckFunded, Places, BusyPc, FundingPc
  <2>2. CASE r # cur[d]
    BY <1>1, <2>1, <2>2 DEF Payer
  <2>3. CASE r = cur[d] /\ pc' = [pc EXCEPT ![d] = "failed"]
    BY <1>1, <2>1, <2>3 DEF Payer
  <2>4. CASE r = cur[d] /\ pc' = [pc EXCEPT ![d] = "confirm"]
    <3>1. ledger[r] > 0 /\ UNCHANGED unsure
      BY <1>6, <2>4 DEF CheckFunded
    <3>2. /\ \A l \in {"pay", "transfer"} : ~Payer(r, l)'
          /\ ~Payer(r, "transfer")
      BY <2>1, <2>4 DEF Payer, Alone
    <3>3. /\ Transfers(r)' = Transfers(r) /\ Flights(r)' = Flights(r)
          /\ Payments(r)' = Payments(r) /\ Excused(r)' = Excused(r)
      BY <1>6, <2>1, <3>1, <3>2 DEF Transfers, Flights, Payments, Excused
    <3> QED BY <2>1, <3>1, <3>2, <3>3 DEF PaidAt
  <2>5. CASE r = cur[d] /\ pc' = [pc EXCEPT ![d] = "pay"]
    <3>1. \/ ledger[r] > 0 /\ unsure'[r] = unsure[r] + 1
          \/ ledger[r] = 0 /\ unsure'[r] = unsure[r]
      BY <1>6, <2>1, <2>5 DEF CheckFunded
    <3>2. row[r].due /\ row[r].status \in Waiting
      BY <2>1, <2>5 DEF Alone, AsListed, FundingPc
    <3>3. ~\E e \in Drain : cur[e] = r /\ pc[e] = "failed"
      BY <2>1 DEF Alone
    <3>4. Flights(r) # {} => deaths > 0
      BY <3>2, <3>3 DEF Answered
    <3> QED BY <1>6, <2>1, <2>5, <3>1, <3>4, MayPay
  <2> QED BY <2>1, <2>2, <2>3, <2>4, <2>5
<1>7. ASSUME NEW d \in Drain, Decides(d), UNCHANGED deaths PROVE PaidAt(r)'
  <2>1. CASE WaitForTransaction(d) \/ CheckHealth(d) \/ SwitchOff(d)
    BY <1>2, <2>1 DEF WaitForTransaction, CheckHealth, SwitchOff
  <2>2. CASE PreparePayment(d)
    <3>1. PICK l \in {"create", "transfer", "failed"} :
            (l = "transfer" => ledger[cur[d]] > 0) /\ QuietlyTo(d, l)
      BY <2>2 DEF PreparePayment
    <3>2. CASE l # "transfer"
      BY <1>2, <3>1, <3>2
    <3>3. CASE cur[d] # r
      BY <1>1, <3>1, <3>3 DEF Payer
    <3>4. CASE l = "transfer" /\ cur[d] = r
      BY <1>7, <2>2, <3>1, <3>4, MayTransfer DEF PreparePayment
    <3> QED BY <3>2, <3>3, <3>4
  <2> QED BY <1>7, <2>1, <2>2 DEF Decides
<1>8. ASSUME NEW d \in Drain, SubmitPayment(d), UNCHANGED deaths PROVE PaidAt(r)'
  <2>1. CASE cur[d] = r
    BY <1>8, <2>1, Submitted
  <2>2. CASE cur[d] # r
    <3>1. /\ Flights(r)' = Flights(r) /\ ledger'[r] = ledger[r]
          /\ UNCHANGED <<unsure, cur>>
          /\ pc'[d] \in {"wait", "failed"} /\ \A e \in Drain \ {d} : pc'[e] = pc[e]
      BY <1>8, <2>2 DEF SubmitPayment, Lands, Flights
    <3>2. \A l \in {"pay", "transfer", "confirm"} : Payer(r, l)' => Payer(r, l)
      BY <3>1 DEF Payer
    <3> QED BY <3>1, <3>2, SamePaid
  <2> QED BY <2>1, <2>2
<1>9. ASSUME NEW d \in Drain, Records(d), UNCHANGED deaths PROVE PaidAt(r)'
  <2>1. CASE NotRecognised(d) /\ MarkConfirmed(d)
    <3>1. /\ pc[d] = "confirm" /\ UNCHANGED <<ledger, flying, cur>>
          /\ cur[d] \in Row
          /\ \E l \in {"pay", "failed"} : pc' = [pc EXCEPT ![d] = l]
          /\ unsure' = [unsure EXCEPT ![cur[d]] = @ + 1]
      BY <2>1 DEF MarkConfirmed, Places, BusyPc, FundingPc
    <3>2. CASE cur[d] # r
      BY <1>1, <3>1, <3>2 DEF Payer
    <3>3. CASE cur[d] = r /\ pc' = [pc EXCEPT ![d] = "failed"]
      BY <1>1, <3>1, <3>3 DEF Payer
    <3>4. CASE cur[d] = r /\ pc' = [pc EXCEPT ![d] = "pay"]
      <4>1. ledger[r] > 0
        BY <3>1, <3>4 DEF PaidAt, Payer
      <4> QED BY <1>9, <3>1, <3>4, <4>1, MayPay
    <3> QED BY <3>1, <3>2, <3>3, <3>4
  <2>2. CASE ~(NotRecognised(d) /\ MarkConfirmed(d))
    <3>1. UNCHANGED unsure /\ pc'[d] \in {"next", "failed", "health"}
      BY <1>9, <2>2
      DEF Records, MarkConfirmed, RecordTimeout, RecordSuccess, RecordRefused,
          EmailFails, NotificationFails, WebhookFails, Fails, FundingFails
    <3>2. UNCHANGED <<ledger, flying, cur>> /\ pc' = [pc EXCEPT ![d] = pc'[d]]
      BY <1>9, RecordsRow
    <3> QED BY <1>2, <3>1, <3>2
  <2> QED BY <2>1, <2>2
<1>10. ASSUME NEW f \in flying, Settle(f), UNCHANGED deaths PROVE PaidAt(r)'
  <2>1. CASE f[2] = r
    BY <1>10, <2>1, OverAtLast
  <2>2. CASE f[2] # r
    <3>1. Flights(r)' = Flights(r) /\ ledger'[r] = ledger[r] /\ UNCHANGED <<unsure, pc, cur>>
      BY <1>10, <2>2 DEF Settle, Lands, Flights
    <3>2. \A l \in {"pay", "transfer", "confirm"} : Payer(r, l)' => Payer(r, l)
      BY <3>1 DEF Payer
    <3> QED BY <3>1, <3>2, SamePaid
  <2> QED BY <2>1, <2>2
<1>11. ASSUME NEW q \in Row, BackoffEnds(q) PROVE PaidAt(r)'
  BY <1>2, <1>11 DEF BackoffEnds
<1>12. CASE Asks
  <2>1. /\ UNCHANGED <<ledger, flying, unsure, cur>>
        /\ \A d \in Drain : pc'[d] = pc[d]
    BY <1>12
    DEF Asks, AskPreference, AskEndpoint, AskFunding, Ask, UpdatePreferences,
        RegisterToken
  <2> QED BY <1>2, <2>1
<1>13. ASSUME NEW d \in Drain, Die(d) PROVE PaidAt(r)'
  BY <1>2, <1>13 DEF Die
<1>14. CASE UNCHANGED vars
  BY <1>2, <1>14 DEF vars
<1> QED
  BY Steps, <1>3, <1>4, <1>5, <1>6, <1>7, <1>8, <1>9, <1>10, <1>11, <1>12,
     <1>13, <1>14
  DEF fixed

-------------------------------------------------------------------------------
LEMMA Invariance == Spec => []IInv
<1>1. IInv /\ [Next]_vars => IInv'
  BY TypedStep, UntouchedStep, CountedStep, AloneStep, WithinStep,
     StrandedStep, AnsweredStep, PaidStep
  DEF IInv
<1> QED BY InitIInv, <1>1, PTL DEF Spec

(* The queues, the drains and what they hold keep their types               *)
(* (email.service.ts, notification.service.ts, webhook.service.ts,          *)
(* stellar-funding.service.ts).                                             *)
THEOREM TypeCorrect == Spec => []TypeOK
<1>1. IInv => TypeOK
  BY DEF IInv, Typed
<1> QED BY <1>1, Invariance, PTL

(* No more deliveries than attempts, whatever overlaps or dies; no more     *)
(* attempts than the query allows while the queue lease keeps the drains    *)
(* apart (processQueue of the four services), for any limits.               *)
THEOREM Bounded == Spec => []AttemptsBound
<1>1. IInv => AttemptsBound
  <2> SUFFICES ASSUME IInv, NEW r \in Row
               PROVE  /\ Kind[r] # "funding" => sent[r] <= row[r].tries
                      /\ alone => row[r].tries <= limit[Kind[r]]
    BY DEF AttemptsBound
  <2>1. ASSUME Kind[r] # "funding" PROVE sent[r] <= row[r].tries
    <3>1. /\ IsFiniteSet(Senders(r))
          /\ sent[r] + Cardinality(Senders(r)) <= row[r].tries
      BY <2>1 DEF IInv, CountedFirst
    <3>2. /\ Cardinality(Senders(r)) \in Nat /\ sent[r] \in Nat
          /\ row[r].tries \in Nat
      BY <3>1, FS_CardinalityType DEF IInv, Typed, TypeOK, RowState
    <3> QED BY <3>1, <3>2
  <2> QED BY <2>1 DEF IInv, Within
<1> QED BY <1>1, Invariance, PTL

(* For any limits of the queries and of the rows: a pending row that no     *)
(* drain is at is listed again, unless its query stops listing it before    *)
(* its failure handler gives it up, as that of the fundings does when       *)
(* STELLAR_FUNDING_MAX_RETRIES is below maxRetries; while nothing dies and  *)
(* the drains do not overlap.                                               *)
THEOREM StrandedNever == Spec => []NothingStranded
<1>1. IInv => NothingStranded
  <2> SUFFICES ASSUME IInv, alone, deaths = 0, NEW r \in Row,
                      row[r].status = "pending", ~InHand(r)
               PROVE  \/ row[r].tries < limit[Kind[r]]
                      \/ /\ row[r].tries = limit[Kind[r]]
                         /\ limit[Kind[r]] < MaxAttempts
    BY DEF NothingStranded
  <2>1. ~(row[r].tries >= MaxAttempts)
    BY DEF IInv, Stranded, InHand, BusyPc, FundingPc
  <2>2. row[r].tries <= limit[Kind[r]]
    BY DEF IInv, Within
  <2>3. row[r].tries \in Nat /\ limit[Kind[r]] \in Nat /\ MaxAttempts \in Nat
    BY DeliveryAssumption DEF IInv, Typed, TypeOK, RowState, Limits
  <2> QED BY <2>1, <2>2, <2>3
<1> QED BY <1>1, Invariance, PTL

(* An account is funded once, but for payments that follow a balance that   *)
(* was not recognised or a drain that died with a payment on its way.       *)
THEOREM FundedOnceAlways == Spec => []FundedOnce
<1>1. IInv => FundedOnce
  <2> SUFFICES ASSUME IInv, alone, NEW r \in Of("funding")
               PROVE  ledger[r] <= 1 + unsure[r] + deaths
    BY DEF FundedOnce
  <2>1. PaidAt(r) /\ r \in Row /\ Typed
    BY DEF IInv, Paid
  <2>2. IsFiniteSet(Transfers(r)) /\ Payments(r) <= 1 + Excused(r)
    BY <2>1 DEF PaidAt
  <2>3. /\ ledger[r] \in Nat /\ unsure[r] \in Nat /\ deaths \in Nat
        /\ Cardinality(Transfers(r)) \in Nat
        /\ Payments(r) \in Nat /\ Excused(r) \in Nat
    BY <2>1, <2>2, Amounts
  <2>4. ledger[r] <= Payments(r)
    BY <2>3 DEF Payments
  <2>5. Excused(r) <= unsure[r] + deaths
    BY <2>3 DEF Excused
  <2> QED BY <2>2, <2>3, <2>4, <2>5
<1> QED BY <1>1, Invariance, PTL
================================================================================
