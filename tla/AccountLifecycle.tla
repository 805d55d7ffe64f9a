--------------------------- MODULE AccountLifecycle ---------------------------
(***************************************************************************)
(* The account of one user: its status, the requests to delete it          *)
(* (services/account-lifecycle.service.ts) and to export its data          *)
(* (services/data-export.service.ts), the handlers that reach them         *)
(* (controllers/account.controller.ts, middleware/auth.middleware.ts), the *)
(* login, and the sweeps that the scheduler runs.                          *)
(*                                                                         *)
(* A handler reads the status of the account, compares a password and then *)
(* writes by the user's id, so what it has read may be stale: its place in *)
(* pc says what it read.  A sweep lists a row, claims it with a            *)
(* conditional update and settles it later.  The partial unique indexes    *)
(* allow a user one active request of each kind, so that a sweep has at    *)
(* most one row of a user on its list.                                     *)
(***************************************************************************)
EXTENDS Naturals

CONSTANTS
  Deletion,     \* rows that account_deletion_requests may have
  Export,       \* rows that data_export_requests may have
  Client,       \* HTTP requests of the owner that may be under way together
  Sweeper,      \* runs of the queues account-lifecycle and data-export
  NoRow,        \* a process has no row in hand
  MaxAttempts,  \* maxAttempts of both tables, and the 5 of both queries
  MaxDeaths,    \* bound: processes that die between two statements
  Scenarios     \* pairs: do the owner's requests, and the runs of a queue,
                \* keep apart; bound: the rows that may be created then

ASSUME AccountAssumption ==
  /\ Deletion \cap Export = {}
  /\ NoRow \notin Deletion \cup Export
  /\ Client \cap Sweeper = {}
  /\ MaxAttempts \in Nat \ {0}
  /\ MaxDeaths \in Nat
  /\ Scenarios \subseteq BOOLEAN \X SUBSET (Deletion \cup Export)

VARIABLES
  alone,    \* the owner's requests, and the runs of a queue, do not overlap
  rows,     \* the rows that may be created
  status,   \* status of the users row
  session,  \* some session of the user is not revoked
  row,      \* [Row -> RowState], tries is attemptCount; due: the time it
            \* waits for (scheduledFor, nextAttemptAt, expiresAt) has come
  downloaded, \* the exports whose downloadedAt is set
  pc,       \* [Process -> Pc]
  cur,      \* [Process -> Row or NoRow], the row that a sweep works on
  seen,     \* [Process -> Nat], its attemptCount as the sweep listed it
  deaths    \* history: deaths so far

vars == <<alone, rows, status, session, row, downloaded,
          pc, cur, seen, deaths>>

-------------------------------------------------------------------------------
Row == Deletion \cup Export
Process == Client \cup Sweeper

AccountStatus == {"ACTIVE", "DEACTIVATED", "PENDING_DELETION", "DELETED"}
Active == {"pending", "processing"}
RowStatus == Active \cup {"none", "completed", "cancelled", "failed",
                          "ready", "expired", "erased"}
RowState == [status : RowStatus, tries : Nat, due : BOOLEAN]

Pc == {"idle", "login", "deactivate", "reactivate", "deletion", "find",
       "create", "cancel", "restore", "export", "createExport", "claim",
       "finalize", "failed", "generate", "mail", "exportFailed"}

TypeOK ==
  /\ alone \in BOOLEAN
  /\ rows \in SUBSET Row
  /\ status \in AccountStatus
  /\ session \in BOOLEAN
  /\ row \in [Row -> RowState]
  /\ downloaded \in SUBSET Export
  /\ pc \in [Process -> Pc]
  /\ cur \in [Process -> Row \cup {NoRow}]
  /\ seen \in [Process -> Nat]
  /\ deaths \in Nat

Init ==
  /\ \E s \in Scenarios : alone = s[1] /\ rows = s[2]
  /\ status = "ACTIVE"
  /\ session = TRUE
  /\ row = [r \in Row |-> [status |-> "none", tries |-> 0, due |-> FALSE]]
  /\ downloaded = {}
  /\ pc = [p \in Process |-> "idle"]
  /\ cur = [p \in Process |-> NoRow]
  /\ seen = [p \in Process |-> 0]
  /\ deaths = 0

Goto(p, l) == pc' = [pc EXCEPT ![p] = l] /\ UNCHANGED <<cur, seen>>
\* The end of a request, or of a sweep's work on a row.
Done(p) == /\ pc' = [pc EXCEPT ![p] = "idle"]
           /\ cur' = [cur EXCEPT ![p] = NoRow]
           /\ seen' = [seen EXCEPT ![p] = 0]

Rows(K, S) == { r \in K : row[r].status \in S }
Free(K) == Rows(K \cap rows, {"none"})
Set(r, s) == row' = [row EXCEPT ![r].status = s]

-------------------------------------------------------------------------------
(* The owner's requests.                                                    *)

Begin(c, l) ==
  /\ pc[c] = "idle"
  /\ alone => \A d \in Client : pc[d] = "idle"
  /\ Goto(c, l)

\* Bound: a row is left for every request that may create one.
RoomIn(K, l) == Free(K) # {} /\ \A d \in Client : pc[d] # l

\* The checks of requireActiveAccount, of verifyCredentials and of the login: the
\* status is read here and the handler goes on whatever becomes of it.
RequireActive(c, l) == status = "ACTIVE" /\ Begin(c, l)
VerifyCredentials == status # "DELETED"
AccountStatusError == status # "ACTIVE"

\* The login has compared the password; the session is issued later.
StartLogin(c) ==
  /\ ~AccountStatusError
  /\ Begin(c, "login")
  /\ UNCHANGED <<status, session, row>>

IssueSession(c) ==
  /\ pc[c] = "login"
  /\ session' = TRUE
  /\ Done(c)
  /\ UNCHANGED <<status, row>>

\* deactivate() of the controller: only the token is checked before stepUp(),
\* which reads the status that the service then decides on.
StartDeactivate(c) ==
  /\ status = "ACTIVE"
  /\ Begin(c, "deactivate")
  /\ UNCHANGED <<status, session, row>>

\* deactivate() of the service.
Deactivate(c) ==
  /\ pc[c] = "deactivate"
  /\ status' = "DEACTIVATED"
  /\ session' = FALSE
  /\ Done(c)
  /\ UNCHANGED row

\* Seeded fault: only DELETED is refused, as stepUp() does.
ReactivateAny(c) ==
  /\ VerifyCredentials
  /\ Begin(c, "reactivate")
  /\ UNCHANGED <<status, session, row>>

\* reactivate() of the controller: an account that waits for its deletion is
\* refused, an active one only gets a token.
StartReactivate(c) ==
  /\ VerifyCredentials
  /\ status = "DEACTIVATED"
  /\ Begin(c, "reactivate")
  /\ UNCHANGED <<status, session, row>>

Reactivate(c) ==
  /\ pc[c] = "reactivate"
  /\ status' = "ACTIVE"
  /\ Done(c)
  /\ UNCHANGED <<session, row>>

StartDeletion(c) ==
  RequireActive(c, "deletion") /\ UNCHANGED <<status, session, row>>

StepUp(c) ==
  /\ pc[c] = "deletion"
  /\ IF status = "DELETED" THEN Done(c) ELSE Goto(c, "find")
  /\ UNCHANGED <<status, session, row>>

\* The first read of requestDeletion().
FindDeletion(c) ==
  /\ pc[c] = "find"
  /\ IF Rows(Deletion, Active) # {} THEN Done(c)
     ELSE RoomIn(Deletion, "create") /\ Goto(c, "create")
  /\ UNCHANGED <<status, session, row>>

\* Its transaction, or uq_active_deletion_per_user refuses it.
CreateDeletion(c) ==
  /\ pc[c] = "create"
  /\ \/ /\ Rows(Deletion, Active) = {}
        /\ \E r \in Free(Deletion) : Set(r, "pending")
        /\ status' = "PENDING_DELETION"
        /\ session' = FALSE
     \/ /\ Rows(Deletion, Active) # {}
        /\ UNCHANGED <<status, session, row>>
  /\ Done(c)

StartCancel(c) ==
  /\ VerifyCredentials
  /\ Begin(c, "cancel")
  /\ UNCHANGED <<status, session, row>>

\* The conditional update of cancelDeletion().
CancelRow(c) ==
  /\ pc[c] = "cancel"
  /\ \/ /\ \E r \in Rows(Deletion, {"pending"}) : Set(r, "cancelled")
        /\ Goto(c, "restore")
     \/ Rows(Deletion, {"pending"}) = {} /\ Done(c) /\ UNCHANGED row
  /\ UNCHANGED <<status, session>>

\* Seeded fault: only a deactivated account is given back.
RestoreDeactivated(c) ==
  /\ pc[c] = "restore"
  /\ status' = IF status = "DEACTIVATED" THEN "ACTIVE" ELSE status
  /\ Done(c)
  /\ UNCHANGED <<session, row>>

\* Its second transaction: the account is given back.
RestoreAccount(c) ==
  /\ pc[c] = "restore"
  /\ status' = "ACTIVE"
  /\ Done(c)
  /\ UNCHANGED <<session, row>>

StartExport(c) ==
  RequireActive(c, "export") /\ UNCHANGED <<status, session, row>>

FindExport(c) ==
  /\ pc[c] = "export"
  /\ IF Rows(Export, Active) # {} THEN Done(c)
     ELSE RoomIn(Export, "createExport") /\ Goto(c, "createExport")
  /\ UNCHANGED <<status, session, row>>

CreateExport(c) ==
  /\ pc[c] = "createExport"
  /\ \/ /\ Rows(Export, Active) = {}
        /\ \E e \in Free(Export) :
             row' = [row EXCEPT ![e].status = "pending", ![e].due = TRUE]
     \/ Rows(Export, Active) # {} /\ UNCHANGED row
  /\ Done(c)
  /\ UNCHANGED <<status, session>>

\* downloadExport() sends the artifact it has read, if it is READY and its
\* time is not over, and marks the row; nothing reads the mark.
Download(e) ==
  /\ row[e].status = "ready"
  /\ ~row[e].due
  /\ downloaded' = downloaded \cup {e}
  /\ UNCHANGED <<status, session, row, pc, cur, seen>>

-------------------------------------------------------------------------------
(* The sweeps.                                                              *)

\* The query that both queues start with; the queue lease keeps runs of one
\* queue apart while it is not lost.
List(w, K) ==
  /\ pc[w] = "idle"
  /\ alone => \A v \in Sweeper : cur[v] \notin K
  /\ \E r \in Rows(K, {"pending"}) :
       /\ row[r].due
       /\ row[r].tries < MaxAttempts
       /\ cur' = [cur EXCEPT ![w] = r]
       /\ seen' = [seen EXCEPT ![w] = row[r].tries]
  /\ pc' = [pc EXCEPT ![w] = "claim"]
  /\ UNCHANGED <<status, session, row>>

ListDeletions(w) == List(w, Deletion)
ListExports(w) == List(w, Export)

\* The conditional update that gives the row to one sweep.
Claim(w, K, l) ==
  /\ pc[w] = "claim"
  /\ cur[w] \in K
  /\ IF row[cur[w]].status = "pending"
     THEN /\ row' = [row EXCEPT ![cur[w]].status = "processing",
                                ![cur[w]].tries = @ + 1]
          /\ Goto(w, l)
     ELSE Done(w) /\ UNCHANGED row
  /\ UNCHANGED <<status, session>>

ClaimDeletion(w) == Claim(w, Deletion, "finalize")
ClaimExport(w) == Claim(w, Export, "generate")

\* The transaction of finalizeDeletion(); the database may report an error
\* after a commit.
FinalizeDeletion(w) ==
  /\ pc[w] = "finalize"
  /\ status' = "DELETED"
  /\ session' = FALSE
  /\ row' = [r \in Row |->
               IF r = cur[w] THEN [row[r] EXCEPT !.status = "completed"]
               ELSE IF r \in Export /\ row[r].status # "none"
                    THEN [row[r] EXCEPT !.status = "erased"]
                    ELSE row[r]]
  /\ Done(w) \/ Goto(w, "failed")

FinalizeFails(w) ==
  /\ pc[w] = "finalize"
  /\ Goto(w, "failed")
  /\ UNCHANGED <<status, session, row>>

\* What a failed attempt leaves: the sweep's own count decides.
Retry(w) == row' = [row EXCEPT ![cur[w]].status = "pending", ![cur[w]].due = FALSE]
\* Seeded fault: the count of the attempt that has just failed is forgotten.
LastTryLate(w) == seen[w] >= MaxAttempts
LastTry(w) == seen[w] + 1 >= MaxAttempts

\* handleFinalizationFailure(): guarded, so that a commit stands.
FinalizationFailure(w) ==
  /\ pc[w] = "failed"
  /\ IF row[cur[w]].status # "processing" THEN UNCHANGED row
     ELSE IF LastTry(w) THEN Set(cur[w], "failed")
     ELSE Retry(w)
  /\ Done(w)
  /\ UNCHANGED <<status, session>>

\* generateExport() up to its update; the row may have been erased.
GenerateExport(w) ==
  /\ pc[w] = "generate"
  /\ row[cur[w]].status # "erased"
  /\ row' = [row EXCEPT ![cur[w]].status = "ready", ![cur[w]].due = FALSE]
  /\ Goto(w, "mail")
  /\ UNCHANGED <<status, session>>

GenerateFails(w) ==
  /\ pc[w] = "generate"
  /\ Goto(w, "exportFailed")
  /\ UNCHANGED <<status, session, row>>

\* The audit record and the mail: the export is READY already if they fail.
MailExport(w) ==
  /\ pc[w] = "mail"
  /\ Done(w) \/ Goto(w, "exportFailed")
  /\ UNCHANGED <<status, session, row>>

\* handleFailure(): by id.  It fails itself, and ends the run, if the row is
\* gone or uq_active_export_per_user does not let it back.
ExportFailure(w) ==
  LET e == cur[w]
      Refused == Rows(Export \ {e}, Active) # {}
  IN /\ pc[w] = "exportFailed"
     /\ IF row[e].status = "erased" THEN UNCHANGED row
        ELSE IF LastTry(w) THEN Set(e, "failed")
        ELSE IF Refused THEN UNCHANGED row
        ELSE Retry(w)
     /\ Done(w)
     /\ UNCHANGED <<status, session>>

\* purgeExpired() is one statement.
PurgeExpired ==
  /\ \E e \in Rows(Export, {"ready"}) : row[e].due
  /\ row' = [r \in Row |->
               IF r \in Rows(Export, {"ready"}) /\ row[r].due
               THEN [row[r] EXCEPT !.status = "expired"] ELSE row[r]]
  /\ UNCHANGED <<status, session, pc, cur, seen>>

\* A cooling-off, a backoff or the life of an artifact is over.
TimePasses(r) ==
  /\ row[r].status \in {"pending", "ready"}
  /\ ~row[r].due
  /\ row' = [row EXCEPT ![r].due = TRUE]
  /\ UNCHANGED <<status, session, pc, cur, seen>>

\* A process dies, or the database fails, between two statements.
Die(p) ==
  /\ pc[p] # "idle"
  /\ deaths < MaxDeaths
  /\ deaths' = deaths + 1
  /\ Done(p)
  /\ UNCHANGED <<alone, rows, status, session, row, downloaded>>

-------------------------------------------------------------------------------
ClientStep(c) ==
  \/ StartLogin(c) \/ IssueSession(c)
  \/ StartDeactivate(c) \/ Deactivate(c)
  \/ StartReactivate(c) \/ Reactivate(c)
  \/ StartDeletion(c) \/ StepUp(c) \/ FindDeletion(c) \/ CreateDeletion(c)
  \/ StartCancel(c) \/ CancelRow(c) \/ RestoreAccount(c)
  \/ StartExport(c) \/ FindExport(c) \/ CreateExport(c)

SweepStep(w) ==
  \/ ListDeletions(w) \/ ClaimDeletion(w)
  \/ FinalizeDeletion(w) \/ FinalizeFails(w) \/ FinalizationFailure(w)
  \/ ListExports(w) \/ ClaimExport(w)
  \/ GenerateExport(w) \/ GenerateFails(w) \/ MailExport(w) \/ ExportFailure(w)

Next ==
  \/ /\ \/ \E c \in Client : ClientStep(c)
        \/ \E w \in Sweeper : SweepStep(w)
        \/ \E r \in Row : TimePasses(r)
        \/ PurgeExpired
     /\ UNCHANGED <<alone, rows, downloaded, deaths>>
  \/ \E e \in Export : Download(e) /\ UNCHANGED <<alone, rows, deaths>>
  \/ \E p \in Process : Die(p)

Spec == Init /\ [][Next]_vars

-------------------------------------------------------------------------------
(* An account that waits for its deletion has a request that sweeps or the   *)
(* owner can still act on, or one that was given up, or is just being        *)
(* restored; it is only lost if a request dies between the two transactions  *)
(* of cancelDeletion.  (An account whose deletion was given up stays where   *)
(* it is: there is nothing to cancel and reactivate() refuses it.)           *)
WayBack ==
  status = "PENDING_DELETION" =>
    \/ Rows(Deletion, Active \cup {"failed"}) # {}
    \/ \E c \in Client : pc[c] = "restore"
    \/ deaths > 0

(* An owner who sends one request at a time finds the three tables agreeing, *)
(* whatever the sweeps do and whatever dies: an active account is not about  *)
(* to be deleted, sessions are open only on active accounts, and DELETED is  *)
(* the status of those whose deletion was carried out, and of no other       *)
(* (deactivate, reactivate, requestDeletion, cancelDeletion, the login).     *)
AloneAgrees ==
  alone => /\ status = "ACTIVE" => Rows(Deletion, Active) = {}
           /\ session => status = "ACTIVE"
           /\ status = "DELETED" <=> Rows(Deletion, {"completed"}) # {}

(* No request to delete or to export is left where no query lists it again:  *)
(* one that waits has attempts left, if the runs of a queue do not overlap   *)
(* (a stale count leaves it PENDING with its attempts spent), and one that   *)
(* is PROCESSING is in the hands of a sweep, unless something died.  So it   *)
(* ends carried out, given up or cancelled while sweeps keep coming.         *)
NeverStranded ==
  \A r \in Row :
    /\ alone /\ row[r].status = "pending" => row[r].tries < MaxAttempts
    /\ row[r].status = "processing" => deaths > 0 \/ \E w \in Sweeper : cur[w] = r
===============================================================================
