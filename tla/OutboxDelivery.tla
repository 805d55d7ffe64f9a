---------------------------- MODULE OutboxDelivery ----------------------------
(***************************************************************************)
(* What the transactional outbox promises to the code that emits events:   *)
(* an event is PUBLISHED only once every handler registered for its type   *)
(* has succeeded on it at least once, a success is never forgotten, and no *)
(* event disappears.  Nothing is said of jobs, leases or workers: those    *)
(* are OutboxRelay, which is checked and proved to implement this module.  *)
(***************************************************************************)
EXTENDS FiniteSets

CONSTANTS
  Event,        \* outbox_events rows a run may create
  Handler,      \* names registered in OutboxHandlerRegistry
  HandlersFor   \* [Event -> SUBSET Handler]: handlersFor(eventType, version)

VARIABLES
  status,       \* [Event -> EventStatus]
  delivered     \* [Event -> SUBSET Handler]: handlers that succeeded so far

vars == <<status, delivered>>

(* "NONE" stands for a row that does not exist yet.  The code also declares *)
(* PROCESSING (types.ts) and never writes it.                               *)
EventStatus == {"NONE", "PENDING", "PUBLISHED", "DEAD_LETTER", "ROLLED_BACK"}

TypeOK ==
  /\ status \in [Event -> EventStatus]
  /\ delivered \in [Event -> SUBSET Handler]

Init ==
  /\ status = [e \in Event |-> "NONE"]
  /\ delivered = [e \in Event |-> {}]

\* The row is written in the transaction of the domain change it announces.
Emit(e) ==
  /\ status[e] = "NONE"
  /\ status' = [status EXCEPT ![e] = "PENDING"]
  /\ UNCHANGED delivered

\* A handler succeeds on the event, perhaps not for the first time.
Deliver(e, h) ==
  /\ status[e] # "NONE"
  /\ h \in HandlersFor[e]
  /\ delivered' = [delivered EXCEPT ![e] = @ \cup {h}]
  /\ UNCHANGED status

Publish(e) ==
  /\ status[e] # "NONE"
  /\ HandlersFor[e] # {}
  /\ delivered[e] = HandlersFor[e]
  /\ status' = [status EXCEPT ![e] = "PUBLISHED"]
  /\ UNCHANGED delivered

\* Given up (no handler, or attempts exhausted), put back by an operator, or
\* withdrawn because the domain change was rolled back.
Withdraw(e, s) ==
  /\ status[e] # "NONE"
  /\ s \in {"DEAD_LETTER", "PENDING", "ROLLED_BACK"}
  /\ status' = [status EXCEPT ![e] = s]
  /\ UNCHANGED delivered

Next ==
  \E e \in Event :
    \/ Emit(e)
    \/ \E h \in Handler : Deliver(e, h)
    \/ Publish(e)
    \/ \E s \in EventStatus : Withdraw(e, s)

Spec == Init /\ [][Next]_vars
===============================================================================
