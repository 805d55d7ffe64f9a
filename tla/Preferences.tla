------------------------------ MODULE Preferences ------------------------------
(***************************************************************************)
(* The preferences of one learner and the log of the ones that concern     *)
(* privacy: services/preference.service.ts behind                          *)
(* controllers/preference.controller.ts.                                   *)
(*                                                                         *)
(* An update reads the row, writes the fields it was given and then logs   *)
(* what it changed: three statements, no transaction.                      *)
(***************************************************************************)
EXTENDS Integers, Sequences, SequencesExt

CONSTANTS
  Field,          \* the fields of PRIVACY_IMPACTING_FIELDS
  Value, Default, \* their values, the one of a new row
  Unset,          \* no value: no row, or not in the body of the request
  Request         \* each serves one update

PreferencesAssumption == Default \in Value /\ Unset \notin Value

VARIABLES
  row,     \* the learner_preferences row; NoRow if there is none
  log,     \* [Field -> Seq(Entry)], preference_audit_logs, oldest first
  pc,      \* [Request -> Pc]
  data,    \* [Request -> Row], the fields of the body
  before,  \* [Request -> Row], the row as the update read it
  after,   \* [Request -> Row], the row that the upsert returned
  mixed    \* history: updates have overlapped, or one died before it logged

local == <<pc, data, before, after>>
vars == <<row, log, local, mixed>>

-------------------------------------------------------------------------------
Row == [Field -> Value \cup {Unset}]
Entry == [old : Value \cup {Unset}, new : Value]
Pc == {"idle", "upsert", "log", "done"}

NoRow == [f \in Field |-> Unset]

TypeOK ==
  /\ row \in Row
  /\ log \in [Field -> Seq(Entry)]
  /\ pc \in [Request -> Pc]
  /\ data \in [Request -> Row]
  /\ before \in [Request -> Row]
  /\ after \in [Request -> Row]
  /\ mixed \in BOOLEAN

Init ==
  /\ row = NoRow /\ log = [f \in Field |-> <<>>]
  /\ pc = [r \in Request |-> "idle"]
  /\ data = [r \in Request |-> NoRow]
  /\ before = [r \in Request |-> NoRow]
  /\ after = [r \in Request |-> NoRow]
  /\ mixed = FALSE

Goto(r, l) == pc' = [pc EXCEPT ![r] = l]
Busy == { r \in Request : pc[r] \in {"upsert", "log"} }

-------------------------------------------------------------------------------
\* The row with the fields of d, made with the defaults if there is none.
Upserted(d) ==
  [f \in Field |-> CASE d[f] # Unset -> d[f]
                     [] d[f] = Unset /\ row[f] # Unset -> row[f]
                     [] OTHER -> Default]

GetPreferences ==
  /\ row' = Upserted(NoRow)
  /\ UNCHANGED <<log, local, mixed>>

\* The body has one field at least, perhaps none that concerns privacy.
StartUpdate(r, d) ==
  /\ pc[r] = "idle"
  /\ Goto(r, "upsert")
  /\ data' = [data EXCEPT ![r] = d]
  /\ before' = [before EXCEPT ![r] = row]
  /\ mixed' = (mixed \/ Busy # {})
  /\ UNCHANGED <<row, log, after>>

Upsert(r) ==
  /\ pc[r] = "upsert"
  /\ row' = Upserted(data[r])
  /\ after' = [after EXCEPT ![r] = row']
  /\ Goto(r, "log")
  /\ UNCHANGED <<log, data, before, mixed>>

\* Seeded fault: what the body says is logged, changed or not.
Named(r) == { f \in Field : data[r][f] # Unset }

\* The fields of the body whose value is another one than before.
Changed(r) ==
  { f \in Field : data[r][f] # Unset /\ before[r][f] # after[r][f] }

AuditPrivacyChanges(r) ==
  /\ pc[r] = "log"
  /\ log' = [f \in Field |->
       IF f \in Changed(r)
       THEN Append(log[f], [old |-> before[r][f], new |-> after[r][f]])
       ELSE log[f]]
  /\ Goto(r, "done")
  /\ UNCHANGED <<row, data, before, after, mixed>>

\* A statement fails, or the process dies; what was written stays.
Fail(r) ==
  /\ r \in Busy
  /\ Goto(r, "done")
  /\ mixed' = (mixed \/ pc[r] = "log")
  /\ UNCHANGED <<row, log, data, before, after>>

Next ==
  \/ GetPreferences
  \/ \E r \in Request :
       \/ \E d \in Row : StartUpdate(r, d)
       \/ Upsert(r) \/ AuditPrivacyChanges(r) \/ Fail(r)

Spec == Init /\ [][Next]_vars

-------------------------------------------------------------------------------
(* Properties.                                                              *)

\* The log of a field is its history: each entry starts from the value that the
\* one before it ended with, changes it, and the last one ended with the value
\* that counts now.  So it is unless updates overlap, or one dies between its
\* write and its log (updatePreferences, auditPrivacyChanges).
LogIsHistory ==
  ~mixed => \A f \in Field :
    /\ \A i \in 1 .. Len(log[f]) :
         /\ log[f][i].old # log[f][i].new
         /\ i > 1 => log[f][i].old = log[f][i - 1].new
    /\ Busy = {} =>
         row[f] \in IF log[f] = <<>> THEN {Unset, Default}
                    ELSE {Last(log[f]).new}
===============================================================================
