------------------------------ MODULE AuditTrail ------------------------------
(***************************************************************************)
(* The audit trail: audit/audited-mutation.ts, audit/audit-event.service.ts *)
(* and the lifecycle matrix of audit/classification.ts.                    *)
(*                                                                         *)
(* A change and its event are one transaction; an event that stands alone  *)
(* is lost silently when it cannot be written.  Rows leave the trail only  *)
(* through the retention purge, which takes its cut-off first and deletes  *)
(* in a transaction of its own later.                                      *)
(***************************************************************************)
EXTENDS Integers

CONSTANTS
  Call,      \* each is one audited call
  Actor,     \* the types of actors that call
  Retention, \* the retention of AuditEvent
  MaxTime    \* bound: the clock

AuditTrailAssumption ==
  /\ Actor \subseteq {"USER", "ADMIN", "SYSTEM", "WORKER", "ANONYMOUS"}
  /\ Retention \in Nat /\ MaxTime \in Nat

VARIABLES
  now,
  trail,   \* [Call -> Row], the audit_events row of a call, if it has one
  changed, \* calls whose change is committed
  pc,      \* [Call -> Pc]
  spec,    \* [Call -> Spec], the arguments of a call
  cutoff,  \* of the purge that is under way
  stamp    \* history: when the event of a call was written

calls == <<changed, pc, spec, stamp>>
vars == <<now, trail, calls, cutoff>>

-------------------------------------------------------------------------------
(* The lifecycle matrix.                                                    *)

Archivable ==
  {"LearnerProfile", "Avatar", "ReferralCode", "Module", "WebhookEndpoint"}
Immutable ==
  {"AvatarVariant", "ConsentRecord", "PreferenceAuditLog", "AuditEvent",
   "AuditLog", "ManagedKeyReference", "Transaction", "Referral", "Credential",
   "Completion", "SyncEvent", "RolledBackRecord"}
Deletable == {"DeviceToken", "DataExportRequest"}

\* Every other model is MUTABLE, the ones without a rule among them.
RecordClassFor(m) ==
  CASE m \in Archivable -> "ARCHIVABLE"
    [] m \in Immutable -> "IMMUTABLE"
    [] m \in Deletable -> "DELETABLE"
    [] OTHER -> "MUTABLE"

-------------------------------------------------------------------------------
Kind == {"record", "mutation", "archive", "restore"}
Spec0 ==
  [kind : Kind, actor : Actor, id : BOOLEAN, reason : BOOLEAN,
   model : {"User", "LearnerProfile"}]
NoSpec ==
  [kind |-> "none", actor |-> "none", id |-> FALSE, reason |-> FALSE,
   model |-> "none"]
Time == 0 .. MaxTime
Never == MaxTime + 1
NoRow == [at |-> Never, of |-> NoSpec, class |-> "none"]

TypeOK ==
  /\ now \in Time
  /\ trail \in [Call -> {NoRow} \cup [at : Time, of : Spec0,
                                      class : {"MUTABLE", "ARCHIVABLE"}]]
  /\ changed \in SUBSET Call
  /\ pc \in [Call -> {"idle", "mutate", "record", "done"}]
  /\ spec \in [Call -> {NoSpec} \cup Spec0]
  /\ cutoff \in {Never} \cup (0 - Retention) .. MaxTime
  /\ stamp \in [Call -> Time \cup {Never}]

Init ==
  /\ now = 0
  /\ trail = [c \in Call |-> NoRow]
  /\ changed = {}
  /\ pc = [c \in Call |-> "idle"]
  /\ spec = [c \in Call |-> NoSpec]
  /\ cutoff = Never
  /\ stamp = [c \in Call |-> Never]

Goto(c, l) == pc' = [pc EXCEPT ![c] = l]

-------------------------------------------------------------------------------
(* What is refused before anything is written.                              *)

AssertPolicy(s) ==
  /\ s.actor = "ADMIN" => s.reason
  /\ s.actor \in {"USER", "ADMIN"} => s.id

AssertArchivable(s) ==
  /\ RecordClassFor(s.model) = "ARCHIVABLE"
  /\ s.kind = "archive" => s.reason

Accepted(s) ==
  /\ s.kind # "record" => AssertPolicy(s)
  /\ s.kind \in {"archive", "restore"} => AssertArchivable(s)

Start(c, s) ==
  /\ pc[c] = "idle"
  /\ IF Accepted(s)
     THEN /\ spec' = [spec EXCEPT ![c] = s]
          /\ Goto(c, IF s.kind = "record" THEN "record" ELSE "mutate")
     ELSE UNCHANGED spec /\ Goto(c, "done")
  /\ UNCHANGED <<now, trail, changed, cutoff, stamp>>

-------------------------------------------------------------------------------
ToRow(s) == [at |-> now, of |-> s, class |-> RecordClassFor(s.model)]

Written(c) ==
  /\ trail' = [trail EXCEPT ![c] = ToRow(spec[c])]
  /\ stamp' = [stamp EXCEPT ![c] = now]

\* The body of the mutation, in the transaction.
Mutate(c) ==
  /\ pc[c] = "mutate"
  /\ Goto(c, "record")
  /\ UNCHANGED <<now, trail, changed, spec, cutoff, stamp>>

\* Seeded fault: the change is committed whether its event is written or not.
RecordApart(c) ==
  /\ pc[c] = "record" /\ spec[c].kind # "record"
  /\ changed' = changed \cup {c}
  /\ Written(c) \/ UNCHANGED <<trail, stamp>>
  /\ Goto(c, "done")
  /\ UNCHANGED <<now, spec, cutoff>>

\* The event, and the commit of both.
RecordWithin(c) ==
  /\ pc[c] = "record" /\ spec[c].kind # "record"
  /\ Written(c)
  /\ changed' = changed \cup {c}
  /\ Goto(c, "done")
  /\ UNCHANGED <<now, spec, cutoff>>

\* A statement throws, or the process dies: neither is there.
Rollback(c) ==
  /\ pc[c] \in {"mutate", "record"} /\ spec[c].kind # "record"
  /\ Goto(c, "done")
  /\ UNCHANGED <<now, trail, changed, spec, cutoff, stamp>>

\* An event that stands alone; a failure is only logged.
Record(c) ==
  /\ pc[c] = "record" /\ spec[c].kind = "record"
  /\ Written(c) \/ UNCHANGED <<trail, stamp>>
  /\ Goto(c, "done")
  /\ UNCHANGED <<now, changed, spec, cutoff>>

-------------------------------------------------------------------------------
(* The retention purge.                                                     *)

RetentionCutoff == now - Retention

StartPurge ==
  /\ cutoff = Never
  /\ cutoff' = RetentionCutoff
  /\ UNCHANGED <<now, trail, calls>>

Before(c) == trail[c] # NoRow /\ trail[c].at < cutoff

PurgeExpired ==
  /\ cutoff # Never
  /\ trail' = [c \in Call |-> IF Before(c) THEN NoRow ELSE trail[c]]
  /\ cutoff' = Never
  /\ UNCHANGED <<now, calls>>

PurgeFails ==
  /\ cutoff # Never
  /\ cutoff' = Never
  /\ UNCHANGED <<now, trail, calls>>

Tick ==
  /\ now < MaxTime
  /\ now' = now + 1
  /\ UNCHANGED <<trail, calls, cutoff>>

Next ==
  \/ \E c \in Call :
       \/ \E s \in Spec0 : Start(c, s)
       \/ Mutate(c) \/ RecordWithin(c) \/ Rollback(c) \/ Record(c)
  \/ StartPurge \/ PurgeExpired \/ PurgeFails
  \/ Tick

Spec == Init /\ [][Next]_vars

-------------------------------------------------------------------------------
(* Properties.                                                              *)

\* A change is in the trail, under the name of somebody who may make it, until
\* its retention is over: a failing write, a crash or a purge that takes its
\* time lets none go unaudited; and no change is in the trail that was rolled
\* back (auditedMutation, assertPolicy, purgeExpired).
ChangesOnRecord ==
  \A c \in Call :
    /\ c \in changed =>
         /\ AssertPolicy(spec[c])
         /\ trail[c] = NoRow => now - stamp[c] > Retention
    /\ trail[c] # NoRow /\ trail[c].of.kind # "record" => c \in changed
===============================================================================
