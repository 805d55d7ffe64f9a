------------------------------ MODULE Accounts_proofs ---------------------------
(***************************************************************************)
(* What the account of a user and its sessions keep: AccountLifecycle, for *)
(* any number of rows, requests and sweeps, and RefreshTokens (Tok), for   *)
(* any number of sessions, of refreshes in flight, of tokens and faults.   *)
(***************************************************************************)
EXTENDS AccountLifecycle, Sessions, TLAPS

ClientPc == {"idle", "login", "deactivate", "reactivate", "deletion", "find",
             "create", "cancel", "restore", "export", "createExport"}
DeletionPc == {"finalize", "failed"}
ExportPc == {"generate", "mail", "exportFailed"}

(* Who is where: a sweep that is not idle has a row in hand, of the kind that *)
(* its place says.                                                            *)
Places ==
  /\ \A c \in Client : pc[c] \in ClientPc
  /\ \A w \in Sweeper :
       \/ pc[w] = "idle" /\ cur[w] = NoRow
       \/ pc[w] = "claim" /\ cur[w] \in Row
       \/ pc[w] \in DeletionPc /\ cur[w] \in Deletion
       \/ pc[w] \in ExportPc /\ cur[w] \in Export

Typed == TypeOK /\ Places

Holds(w, r) == cur[w] = r /\ pc[w] \in DeletionPc \cup ExportPc

(* A claimed row has one sweep, and is only given back by it.               *)
OneHolder ==
  \A w \in Sweeper, r \in Row : Holds(w, r) =>
    /\ row[r].status \notin {"none", "pending"}
    /\ \A v \in Sweeper : Holds(v, r) => v = w

(* The unique indexes: a user has one active request of each kind.          *)
OneActive ==
  \A K \in {Deletion, Export} : \A q, r \in K :
    row[q].status \in Active /\ row[r].status \in Active => q = r

(* A row that is PROCESSING is in the hands of the sweep that will settle   *)
(* it, or something died.                                                   *)
Treated ==
  /\ \A w \in Sweeper :
       /\ pc[w] = "finalize" => row[cur[w]].status = "processing"
       /\ pc[w] = "mail" => row[cur[w]].status # "processing"
  /\ \A r \in Row : row[r].status = "processing" =>
       deaths > 0 \/ \E w \in Sweeper : Holds(w, r)

(* The counts, while the runs of a queue do not overlap.                    *)
Counted ==
  /\ \A r \in Row : row[r].status = "none" => row[r].tries = 0
  /\ alone =>
       /\ \A r \in Row : row[r].status = "pending" => row[r].tries < MaxAttempts
       /\ \A v, w \in Sweeper : \A K \in {Deletion, Export} :
            cur[v] \in K /\ cur[w] \in K => v = w
       /\ \A w \in Sweeper :
            /\ pc[w] = "claim" => row[cur[w]].tries = seen[w]
            /\ pc[w] \in DeletionPc \cup ExportPc =>
                 row[cur[w]].tries = seen[w] + 1

(* What a request of an owner who sends one at a time knows of the account.  *)
NoActiveDeletion == \A d \in Deletion : row[d].status \notin Active
Known ==
  alone =>
    /\ \A c, d \in Client : pc[c] # "idle" /\ pc[d] # "idle" => c = d
    /\ NoActiveDeletion \/ status = "PENDING_DELETION"
    /\ session => status = "ACTIVE"
    /\ status = "DELETED" <=> \E d \in Deletion : row[d].status = "completed"
    /\ \A c \in Client :
         /\ pc[c] \in {"login", "deactivate", "deletion", "find", "create"} =>
              status = "ACTIVE"
         /\ pc[c] = "reactivate" => status = "DEACTIVATED"
         /\ pc[c] = "restore" => status = "PENDING_DELETION" /\ NoActiveDeletion

IInv ==
  Typed /\ OneHolder /\ OneActive /\ Treated /\ Counted /\ Known /\ WayBack

-------------------------------------------------------------------------------
USE DEF Row, Process, Done, Goto, Set, Rows, Begin, RequireActive,
        VerifyCredentials, AccountStatusError

LEMMA InitIInv == Init => IInv
<1> SUFFICES ASSUME Init PROVE IInv
  OBVIOUS
<1>1. Typed
  BY AccountAssumption
  DEF Init, Typed, TypeOK, Places, ClientPc, RowState, RowStatus, Active, Pc,
      AccountStatus
<1>2. OneHolder /\ OneActive /\ Treated
  BY AccountAssumption
  DEF Init, OneHolder, OneActive, Treated, Holds, Active, DeletionPc, ExportPc
<1>3. Counted
  BY AccountAssumption DEF Init, Counted, DeletionPc, ExportPc
<1>4. Known /\ WayBack
  BY AccountAssumption DEF Init, Known, WayBack, NoActiveDeletion, Active
<1> QED BY <1>1, <1>2, <1>3, <1>4 DEF IInv

(* The parts of the state keep their types, and every process a place of its  *)
(* kind.                                                                      *)
LEMMA TypedStep == Typed /\ [Next]_vars => Typed'
<1> SUFFICES ASSUME Typed, [Next]_vars PROVE Typed'
  OBVIOUS
<1> USE AccountAssumption
    DEF Typed, TypeOK, Places, ClientPc, DeletionPc, ExportPc, RowState,
        RowStatus, Active, Pc, AccountStatus
<1>1. ASSUME NEW c \in Client, ClientStep(c),
             UNCHANGED <<alone, rows, downloaded, deaths>>
      PROVE  Typed'
  <2>1. CASE StartLogin(c)
    BY <1>1, <2>1 DEF StartLogin
  <2>2. CASE IssueSession(c)
    BY <1>1, <2>2 DEF IssueSession
  <2>3. CASE StartDeactivate(c)
    BY <1>1, <2>3 DEF StartDeactivate
  <2>4. CASE Deactivate(c)
    BY <1>1, <2>4 DEF Deactivate
  <2>5. CASE StartReactivate(c)
    BY <1>1, <2>5 DEF StartReactivate
  <2>6. CASE Reactivate(c)
    BY <1>1, <2>6 DEF Reactivate
  <2>7. CASE StartDeletion(c)
    BY <1>1, <2>7 DEF StartDeletion
  <2>8. CASE StepUp(c)
    BY <1>1, <2>8 DEF StepUp
  <2>9. CASE FindDeletion(c)
    BY <1>1, <2>9 DEF FindDeletion
  <2>10. CASE CreateDeletion(c)
    <3>1. CASE UNCHANGED <<status, session, row>>
      BY <1>1, <2>10, <3>1 DEF CreateDeletion
    <3>2. ASSUME NEW r \in Deletion, Set(r, "pending") PROVE row' \in [Row -> RowState]
      BY <3>2
    <3>3. row' \in [Row -> RowState] /\ status' \in AccountStatus /\ session' \in BOOLEAN
      BY <2>10, <3>2 DEF CreateDeletion, Free
    <3> QED BY <1>1, <2>10, <3>3 DEF CreateDeletion
  <2>11. CASE StartCancel(c)
    BY <1>1, <2>11 DEF StartCancel
  <2>12. CASE CancelRow(c)
    BY <1>1, <2>12 DEF CancelRow
  <2>13. CASE RestoreAccount(c)
    BY <1>1, <2>13 DEF RestoreAccount
  <2>14. CASE StartExport(c)
    BY <1>1, <2>14 DEF StartExport
  <2>15. CASE FindExport(c)
    BY <1>1, <2>15 DEF FindExport
  <2>16. CASE CreateExport(c)
    <3>1. ASSUME NEW e \in Export,
                 row' = [row EXCEPT ![e].status = "pending", ![e].due = TRUE]
          PROVE  row' \in [Row -> RowState]
      <4>1. e \in Row /\ row[e] \in RowState
        OBVIOUS
      <4>2. [row[e] EXCEPT !.status = "pending", !.due = TRUE] \in RowState
        BY <4>1
      <4>3. row' = [row EXCEPT ![e] = [row[e] EXCEPT !.status = "pending", !.due = TRUE]]
        BY <3>1, <4>1
      <4> QED BY <4>1, <4>2, <4>3
    <3>2. row' \in [Row -> RowState]
      <4>1. CASE UNCHANGED row
        BY <4>1
      <4>2. CASE \E e \in Free(Export) :
                   row' = [row EXCEPT ![e].status = "pending", ![e].due = TRUE]
        BY <3>1, <4>2 DEF Free
      <4> QED BY <2>16, <4>1, <4>2 DEF CreateExport
    <3> QED BY <1>1, <2>16, <3>2 DEF CreateExport
  <2> QED
    BY <1>1, <2>1, <2>2, <2>3, <2>4, <2>5, <2>6, <2>7, <2>8, <2>9, <2>10,
       <2>11, <2>12, <2>13, <2>14, <2>15, <2>16
    DEF ClientStep
<1>2. ASSUME NEW w \in Sweeper, SweepStep(w),
             UNCHANGED <<alone, rows, downloaded, deaths>>
      PROVE  Typed'
  <2>1. CASE ListDeletions(w) \/ ListExports(w)
    BY <1>2, <2>1 DEF ListDeletions, ListExports, List
  <2>2. CASE ClaimDeletion(w) \/ ClaimExport(w)
    BY <1>2, <2>2 DEF ClaimDeletion, ClaimExport, Claim
  <2>3. CASE FinalizeDeletion(w)
    <3>1. row' \in [Row -> RowState]
      BY <2>3 DEF FinalizeDeletion
    <3>2. CASE Done(w)
      BY <1>2, <2>3, <3>1, <3>2 DEF FinalizeDeletion
    <3>3. CASE Goto(w, "failed")
      BY <1>2, <2>3, <3>1, <3>3 DEF FinalizeDeletion
    <3> QED BY <2>3, <3>2, <3>3 DEF FinalizeDeletion
  <2>4. CASE FinalizeFails(w) \/ FinalizationFailure(w)
    BY <1>2, <2>4 DEF FinalizeFails, FinalizationFailure, Retry
  <2>5. CASE GenerateExport(w) \/ GenerateFails(w) \/ MailExport(w)
    BY <1>2, <2>5 DEF GenerateExport, GenerateFails, MailExport
  <2>6. CASE ExportFailure(w)
    BY <1>2, <2>6 DEF ExportFailure, Retry
  <2> QED BY <1>2, <2>1, <2>2, <2>3, <2>4, <2>5, <2>6 DEF SweepStep
<1>3. ASSUME NEW r \in Row, TimePasses(r),
             UNCHANGED <<alone, rows, downloaded, deaths>>
      PROVE  Typed'
  BY <1>3, ZenonT(60) DEF TimePasses
<1>4. ASSUME PurgeExpired, UNCHANGED <<alone, rows, downloaded, deaths>>
      PROVE  Typed'
  BY <1>4 DEF PurgeExpired
<1>5. ASSUME NEW e \in Export, Download(e), UNCHANGED <<alone, rows, deaths>>
      PROVE  Typed'
  BY <1>5 DEF Download
<1>6. ASSUME NEW p \in Process, Die(p) PROVE Typed'
  BY <1>6 DEF Die
<1>7. CASE UNCHANGED vars
  BY <1>7 DEF vars
<1> QED BY <1>1, <1>2, <1>3, <1>4, <1>5, <1>6, <1>7 DEF Next

-------------------------------------------------------------------------------
(* What steps do to the rows.                                               *)

Moved(r, s, t) ==
  /\ row[r].status = s
  /\ row'[r].status = t
  /\ row'[r].tries = row[r].tries
  /\ \A q \in Row \ {r} : row'[q] = row[q]
Vacant(K) == \A q \in K : row[q].status \notin Active

(* A request creates a row where none is active, or cancels one that waits.  *)
LEMMA ClientMoves ==
  ASSUME Typed, NEW c \in Client, ClientStep(c)
  PROVE  /\ \A w \in Sweeper : /\ pc'[w] = pc[w]
                                /\ cur'[w] = cur[w]
                                /\ seen'[w] = seen[w]
         /\ \/ row' = row
            \/ \E K \in {Deletion, Export} : \E r \in K :
                 Vacant(K) /\ Moved(r, "none", "pending")
            \/ \E r \in Deletion : Moved(r, "pending", "cancelled")
<1> USE AccountAssumption DEF Typed, TypeOK, RowState
<1>1. \A w \in Sweeper : pc'[w] = pc[w] /\ cur'[w] = cur[w] /\ seen'[w] = seen[w]
  BY DEF ClientStep, StartLogin, IssueSession, StartDeactivate, Deactivate,
         StartReactivate, Reactivate, StartDeletion, StepUp, FindDeletion,
         CreateDeletion, StartCancel, CancelRow, RestoreAccount, StartExport,
         FindExport, CreateExport
<1>2. CASE CreateDeletion(c)
  <2>1. CASE row' = row
    BY <1>1, <2>1
  <2>2. ASSUME NEW r \in Free(Deletion), Set(r, "pending"), Vacant(Deletion)
        PROVE  r \in Deletion /\ Moved(r, "none", "pending")
    BY <2>2 DEF Free, Moved
  <2> QED BY <1>1, <1>2, <2>1, <2>2 DEF CreateDeletion, Vacant
<1>3. CASE CreateExport(c)
  <2>1. CASE row' = row
    BY <1>1, <2>1
  <2>2. ASSUME NEW e \in Free(Export), Vacant(Export),
               row' = [row EXCEPT ![e].status = "pending", ![e].due = TRUE]
        PROVE  e \in Export /\ Moved(e, "none", "pending")
    BY <2>2 DEF Free, Moved
  <2> QED BY <1>1, <1>3, <2>1, <2>2 DEF CreateExport, Vacant
<1>4. CASE CancelRow(c)
  BY <1>1, <1>4 DEF CancelRow, Moved
<1>5. CASE row' = row
  BY <1>1, <1>5
<1> QED
  BY <1>2, <1>3, <1>4, <1>5
  DEF ClientStep, StartLogin, IssueSession, StartDeactivate, Deactivate,
      StartReactivate, Reactivate, StartDeletion, StepUp, FindDeletion,
      StartCancel, RestoreAccount, StartExport, FindExport

(* Claimed rows have one holder.                                            *)
LEMMA HolderStep == ASSUME Typed, Typed', OneHolder, [Next]_vars PROVE OneHolder'
<1> USE AccountAssumption
    DEF Typed, TypeOK, Places, RowState, OneHolder, Holds, DeletionPc, ExportPc
<1>1. ASSUME NEW c \in Client, ClientStep(c) PROVE OneHolder'
  BY <1>1, ClientMoves DEF Moved
<1>2. ASSUME NEW w \in Sweeper, SweepStep(w) PROVE OneHolder'
  <2>1. CASE ListDeletions(w) \/ ListExports(w)
    BY <2>1 DEF ListDeletions, ListExports, List
  <2>2. CASE ClaimDeletion(w) \/ ClaimExport(w)
    BY <2>2 DEF ClaimDeletion, ClaimExport, Claim
  <2>3. CASE FinalizeDeletion(w)
    BY <2>3 DEF FinalizeDeletion
  <2>4. CASE FinalizeFails(w)
    BY <2>4 DEF FinalizeFails
  <2>5. CASE FinalizationFailure(w)
    BY <2>5 DEF FinalizationFailure, Retry
  <2>6. CASE GenerateExport(w) \/ GenerateFails(w) \/ MailExport(w)
    BY <2>6 DEF GenerateExport, GenerateFails, MailExport
  <2>7. CASE ExportFailure(w)
    BY <2>7 DEF ExportFailure, Retry
  <2> QED BY <1>2, <2>1, <2>2, <2>3, <2>4, <2>5, <2>6, <2>7 DEF SweepStep
<1>3. ASSUME NEW r \in Row, TimePasses(r) PROVE OneHolder'
  BY <1>3 DEF TimePasses
<1>4. CASE PurgeExpired
  BY <1>4 DEF PurgeExpired
<1>5. ASSUME NEW p \in Process, Die(p) PROVE OneHolder'
  BY <1>5 DEF Die
<1>6. CASE UNCHANGED <<row, pc, cur>>
  BY <1>6
<1> QED BY <1>1, <1>2, <1>3, <1>4, <1>5, <1>6 DEF Next, Download, vars

(* One active row of each kind.                                             *)
LEMMA ActiveStep ==
  ASSUME Typed, Typed', OneHolder, OneActive, [Next]_vars PROVE OneActive'
<1> USE AccountAssumption
    DEF Typed, TypeOK, Places, RowState, OneActive, Active, DeletionPc, ExportPc
<1>1. ASSUME NEW c \in Client, ClientStep(c) PROVE OneActive'
  BY <1>1, ClientMoves DEF Moved, Vacant
<1>2. ASSUME NEW w \in Sweeper, SweepStep(w) PROVE OneActive'
  <2>1. CASE ClaimDeletion(w) \/ ClaimExport(w)
    BY <2>1 DEF ClaimDeletion, ClaimExport, Claim
  <2>2. CASE FinalizeDeletion(w)
    BY <2>2 DEF FinalizeDeletion
  <2>3. CASE FinalizationFailure(w)
    BY <2>3 DEF FinalizationFailure, Retry
  <2>4. CASE GenerateExport(w)
    BY <2>4 DEF GenerateExport
  <2>5. CASE ExportFailure(w)
    BY <2>5 DEF ExportFailure, Retry
  <2>6. CASE UNCHANGED row
    BY <2>6
  <2> QED
    BY <1>2, <2>1, <2>2, <2>3, <2>4, <2>5, <2>6
    DEF SweepStep, ListDeletions, ListExports, List, FinalizeFails,
        GenerateFails, MailExport
<1>3. ASSUME NEW r \in Row, TimePasses(r) PROVE OneActive'
  BY <1>3 DEF TimePasses
<1>4. CASE PurgeExpired
  BY <1>4 DEF PurgeExpired
<1>5. CASE UNCHANGED row
  BY <1>5
<1> QED BY <1>1, <1>2, <1>3, <1>4, <1>5 DEF Next, Download, Die, vars

(* A row that is PROCESSING stays with the sweep that settles it.           *)
LEMMA TreatedStep ==
  ASSUME Typed, Typed', OneHolder, OneActive, Treated, [Next]_vars PROVE Treated'
<1> USE AccountAssumption
    DEF Typed, TypeOK, Places, RowState, OneHolder, OneActive, Treated, Holds,
        DeletionPc, ExportPc
<1>1. ASSUME NEW c \in Client, ClientStep(c), UNCHANGED deaths PROVE Treated'
  BY <1>1, ClientMoves DEF Moved
<1>2. ASSUME NEW w \in Sweeper, SweepStep(w), UNCHANGED deaths PROVE Treated'
  <2>1. CASE ListDeletions(w) \/ ListExports(w)
    BY <1>2, <2>1 DEF ListDeletions, ListExports, List
  <2>2. CASE ClaimDeletion(w) \/ ClaimExport(w)
    BY <1>2, <2>2 DEF ClaimDeletion, ClaimExport, Claim
  <2>3. CASE FinalizeDeletion(w)
    BY <1>2, <2>3 DEF FinalizeDeletion
  <2>4. CASE FinalizeFails(w)
    BY <1>2, <2>4 DEF FinalizeFails
  <2>5. CASE FinalizationFailure(w)
    BY <1>2, <2>5 DEF FinalizationFailure, Retry
  <2>6. CASE GenerateExport(w)
    BY <1>2, <2>6 DEF GenerateExport
  <2>7. CASE GenerateFails(w) \/ MailExport(w)
    BY <1>2, <2>7 DEF GenerateFails, MailExport
  <2>8. CASE ExportFailure(w)
    BY <1>2, <2>8 DEF ExportFailure, Retry, Active
  <2> QED BY <1>2, <2>1, <2>2, <2>3, <2>4, <2>5, <2>6, <2>7, <2>8 DEF SweepStep
<1>3. ASSUME NEW r \in Row, TimePasses(r), UNCHANGED deaths PROVE Treated'
  BY <1>3 DEF TimePasses
<1>4. CASE PurgeExpired /\ UNCHANGED deaths
  BY <1>4 DEF PurgeExpired
<1>5. ASSUME NEW p \in Process, Die(p) PROVE Treated'
  BY <1>5 DEF Die
<1>6. CASE UNCHANGED <<row, pc, cur, deaths>>
  BY <1>6
<1> QED BY <1>1, <1>2, <1>3, <1>4, <1>5, <1>6 DEF Next, Download, vars

(* The counts of the rows and the counts that the sweeps listed.            *)
LEMMA CountedStep ==
  ASSUME Typed, Typed', OneHolder, Counted, [Next]_vars PROVE Counted'
<1> USE AccountAssumption
    DEF Typed, TypeOK, Places, RowState, OneHolder, Holds, Counted,
        DeletionPc, ExportPc
<1>1. ASSUME NEW c \in Client, ClientStep(c), UNCHANGED alone PROVE Counted'
  BY <1>1, ClientMoves DEF Moved
<1>2. ASSUME NEW w \in Sweeper, SweepStep(w), UNCHANGED alone PROVE Counted'
  <2>1. CASE ListDeletions(w) \/ ListExports(w)
    BY <1>2, <2>1 DEF ListDeletions, ListExports, List
  <2>2. CASE ClaimDeletion(w) \/ ClaimExport(w)
    BY <1>2, <2>2 DEF ClaimDeletion, ClaimExport, Claim
  <2>3. CASE FinalizeDeletion(w)
    BY <1>2, <2>3 DEF FinalizeDeletion
  <2>4. CASE FinalizeFails(w)
    BY <1>2, <2>4 DEF FinalizeFails
  <2>5. CASE FinalizationFailure(w)
    BY <1>2, <2>5 DEF FinalizationFailure, Retry, LastTry
  <2>6. CASE GenerateExport(w) \/ GenerateFails(w) \/ MailExport(w)
    BY <1>2, <2>6 DEF GenerateExport, GenerateFails, MailExport
  <2>7. CASE ExportFailure(w)
    BY <1>2, <2>7 DEF ExportFailure, Retry, LastTry
  <2> QED BY <1>2, <2>1, <2>2, <2>3, <2>4, <2>5, <2>6, <2>7 DEF SweepStep
<1>3. ASSUME NEW r \in Row, TimePasses(r), UNCHANGED alone PROVE Counted'
  BY <1>3 DEF TimePasses
<1>4. CASE PurgeExpired /\ UNCHANGED alone
  BY <1>4 DEF PurgeExpired
<1>5. ASSUME NEW p \in Process, Die(p) PROVE Counted'
  BY <1>5 DEF Die
<1>6. CASE UNCHANGED <<row, pc, cur, seen, alone>>
  BY <1>6
<1> QED BY <1>1, <1>2, <1>3, <1>4, <1>5, <1>6 DEF Next, Download, vars

(* What the requests of an owner who sends one at a time know.              *)
LEMMA KnownStep ==
  ASSUME Typed, Typed', OneHolder, OneActive, Treated, Known, [Next]_vars
  PROVE  Known'
<1> SUFFICES ASSUME alone, UNCHANGED alone PROVE Known'
  BY DEF Known, Next, Die, vars
<1> USE AccountAssumption
    DEF Typed, TypeOK, Places, RowState, Known, NoActiveDeletion, Active,
        ClientPc, DeletionPc, ExportPc
<1>1. ASSUME NEW c \in Client, ClientStep(c) PROVE Known'
  <2>1. CASE StartLogin(c) \/ IssueSession(c)
    BY <2>1 DEF StartLogin, IssueSession
  <2>2. CASE StartDeactivate(c) \/ Deactivate(c)
    BY <2>2 DEF StartDeactivate, Deactivate
  <2>3. CASE StartReactivate(c) \/ Reactivate(c)
    BY <2>3 DEF StartReactivate, Reactivate
  <2>4. CASE StartDeletion(c) \/ StepUp(c) \/ FindDeletion(c)
    BY <2>4 DEF StartDeletion, StepUp, FindDeletion
  <2>5. CASE CreateDeletion(c)
    BY <2>5 DEF CreateDeletion, Free
  <2>6. CASE StartCancel(c)
    BY <2>6 DEF StartCancel
  <2>7. CASE CancelRow(c)
    BY <2>7 DEF CancelRow, OneActive
  <2>8. CASE RestoreAccount(c)
    BY <2>8 DEF RestoreAccount
  <2>9. CASE StartExport(c) \/ FindExport(c)
    BY <2>9 DEF StartExport, FindExport
  <2>10. CASE CreateExport(c)
    <3>1. \A d \in Deletion : row'[d].status = row[d].status
      <4>1. ASSUME NEW e \in Export,
                   row' = [row EXCEPT ![e].status = "pending", ![e].due = TRUE]
            PROVE  \A d \in Deletion : row'[d].status = row[d].status
        BY <4>1
      <4> QED BY <2>10, <4>1 DEF CreateExport, Free
    <3>2. NoActiveDeletion' <=> NoActiveDeletion
      BY <3>1
    <3> QED BY <2>10, <3>1, <3>2 DEF CreateExport
  <2> QED
    BY <1>1, <2>1, <2>2, <2>3, <2>4, <2>5, <2>6, <2>7, <2>8, <2>9, <2>10
    DEF ClientStep
<1>2. ASSUME NEW w \in Sweeper, SweepStep(w) PROVE Known'
  <2>1. CASE ListDeletions(w) \/ ListExports(w)
    BY <2>1 DEF ListDeletions, ListExports, List
  <2>2. CASE ClaimDeletion(w) \/ ClaimExport(w)
    BY <2>2 DEF ClaimDeletion, ClaimExport, Claim
  <2>3. CASE FinalizeDeletion(w)
    <3>1. cur[w] \in Deletion /\ row[cur[w]].status = "processing"
      BY <2>3 DEF FinalizeDeletion, Treated
    <3>2. status = "PENDING_DELETION" /\ status' = "DELETED" /\ ~session'
      BY <2>3, <3>1 DEF FinalizeDeletion
    <3>3. row'[cur[w]].status = "completed" /\ NoActiveDeletion'
      BY <2>3, <3>1 DEF FinalizeDeletion, OneActive
    <3>4. \A c \in Client : pc'[c] = pc[c]
      BY <2>3 DEF FinalizeDeletion
    <3>5. \A c \in Client : pc[c] \notin {"login", "deactivate", "deletion",
                                        "find", "create", "reactivate", "restore"}
      BY <3>1, <3>2
    <3> QED BY <3>1, <3>2, <3>3, <3>4, <3>5
  <2>4. CASE FinalizeFails(w) \/ FinalizationFailure(w)
    BY <2>4 DEF FinalizeFails, FinalizationFailure, Retry
  <2>5. CASE GenerateExport(w) \/ GenerateFails(w) \/ MailExport(w)
    BY <2>5 DEF GenerateExport, GenerateFails, MailExport
  <2>6. CASE ExportFailure(w)
    BY <2>6 DEF ExportFailure, Retry
  <2> QED BY <1>2, <2>1, <2>2, <2>3, <2>4, <2>5, <2>6 DEF SweepStep
<1>3. ASSUME NEW r \in Row, TimePasses(r) PROVE Known'
  BY <1>3 DEF TimePasses
<1>4. CASE PurgeExpired
  BY <1>4 DEF PurgeExpired
<1>5. ASSUME NEW p \in Process, Die(p) PROVE Known'
  BY <1>5 DEF Die
<1>6. CASE UNCHANGED <<row, pc, status, session>>
  BY <1>6
<1> QED BY <1>1, <1>2, <1>3, <1>4, <1>5, <1>6 DEF Next, Download, vars

(* An account keeps its way back.                                           *)
LEMMA WayBackStep ==
  ASSUME Typed, Typed', OneHolder, Treated, WayBack, [Next]_vars PROVE WayBack'
<1> USE AccountAssumption
    DEF Typed, TypeOK, Places, RowState, WayBack, Active, ClientPc, DeletionPc,
        ExportPc
<1>1. ASSUME NEW c \in Client, ClientStep(c), UNCHANGED deaths PROVE WayBack'
  <2>1. CASE CreateDeletion(c)
    BY <1>1, <2>1 DEF CreateDeletion, Free
  <2>2. CASE CancelRow(c)
    BY <1>1, <2>2 DEF CancelRow
  <2>3. CASE CreateExport(c)
    BY <1>1, <2>3 DEF CreateExport, Free
  <2>4. CASE IssueSession(c) \/ Deactivate(c) \/ Reactivate(c) \/ RestoreAccount(c)
    BY <1>1, <2>4 DEF IssueSession, Deactivate, Reactivate, RestoreAccount
  <2>5. CASE /\ UNCHANGED <<status, row>>
             /\ pc[c] # "restore"
             /\ \A d \in Client \ {c} : pc'[d] = pc[d]
    BY <1>1, <2>5
  <2> QED
    BY <1>1, <2>1, <2>2, <2>3, <2>4, <2>5
    DEF ClientStep, StartLogin, StartDeactivate, StartReactivate, StartDeletion,
        StepUp, FindDeletion, StartCancel, StartExport, FindExport
<1>2. ASSUME NEW w \in Sweeper, SweepStep(w), UNCHANGED deaths PROVE WayBack'
  <2>1. CASE ListDeletions(w) \/ ListExports(w)
    BY <1>2, <2>1 DEF ListDeletions, ListExports, List
  <2>2. CASE ClaimDeletion(w) \/ ClaimExport(w)
    BY <1>2, <2>2 DEF ClaimDeletion, ClaimExport, Claim
  <2>3. CASE FinalizeDeletion(w)
    BY <1>2, <2>3 DEF FinalizeDeletion
  <2>4. CASE FinalizeFails(w) \/ FinalizationFailure(w)
    BY <1>2, <2>4 DEF FinalizeFails, FinalizationFailure, Retry
  <2>5. CASE GenerateExport(w) \/ GenerateFails(w) \/ MailExport(w)
    BY <1>2, <2>5 DEF GenerateExport, GenerateFails, MailExport
  <2>6. CASE ExportFailure(w)
    BY <1>2, <2>6 DEF ExportFailure, Retry
  <2> QED BY <1>2, <2>1, <2>2, <2>3, <2>4, <2>5, <2>6 DEF SweepStep
<1>3. ASSUME NEW r \in Row, TimePasses(r), UNCHANGED deaths PROVE WayBack'
  BY <1>3 DEF TimePasses
<1>4. CASE PurgeExpired /\ UNCHANGED deaths
  BY <1>4 DEF PurgeExpired
<1>5. ASSUME NEW p \in Process, Die(p) PROVE WayBack'
  BY <1>5 DEF Die
<1>6. CASE UNCHANGED <<row, pc, status, deaths>>
  BY <1>6
<1> QED BY <1>1, <1>2, <1>3, <1>4, <1>5, <1>6 DEF Next, Download, vars

-------------------------------------------------------------------------------
LEMMA Invariance == Spec => []IInv
<1>1. IInv /\ [Next]_vars => IInv'
  BY TypedStep, HolderStep, ActiveStep, TreatedStep, CountedStep, KnownStep,
     WayBackStep
  DEF IInv
<1> QED BY InitIInv, <1>1, PTL DEF Spec

(* The account, its rows and the processes at work on them keep their types  *)
(* (account-lifecycle.service.ts, data-export.service.ts).                   *)
THEOREM TypeCorrect == Spec => []TypeOK
<1>1. IInv => TypeOK
  BY DEF IInv, Typed
<1> QED BY <1>1, Invariance, PTL

(* An account that waits for its deletion can still be deleted or given      *)
(* back, unless a request died inside cancelDeletion or the deletion was     *)
(* given up.                                                                 *)
THEOREM WayBackAlways == Spec => []WayBack
<1>1. IInv => WayBack
  BY DEF IInv
<1> QED BY <1>1, Invariance, PTL

(* The status of the account, its sessions and its deletion requests agree   *)
(* for an owner who sends one request at a time, whatever the sweeps do.     *)
THEOREM AgreesAlone == Spec => []AloneAgrees
<1>1. IInv => AloneAgrees
  BY DEF IInv, Known, NoActiveDeletion, AloneAgrees, Row, Rows
<1> QED BY <1>1, Invariance, PTL

(* No request to delete or to export is left where no query lists it again   *)
(* while nothing dies and the runs of a queue do not overlap.                *)
THEOREM StrandedNever == Spec => []NeverStranded
<1>1. IInv => NeverStranded
  BY DEF IInv, Typed, TypeOK, Treated, Counted, Holds, NeverStranded, Row
<1> QED BY <1>1, Invariance, PTL

-------------------------------------------------------------------------------
(***************************************************************************)
(* The sessions.  Neither OneSuccessor nor LateAtMostOnce is inductive     *)
(* alone.  TokenInv adds that a request holds one row, which exists        *)
(* (OneHeld, Existing), and that once a token was minted in a revoked      *)
(* session no request can bring another one there (LateClosed).            *)
(***************************************************************************)

OneHeld == \A r \in Refresh : \A t, u \in held[r] : t = u

Existing ==
  /\ \A t \in Tok!Token : token[t] # "NONE" => family[t[1]] # "NONE"
  /\ \A r \in Refresh : \A t \in held[r] : token[t] # "NONE"

LateClosed ==
  \A s \in Session : late[s] # 0 =>
    /\ late[s] = 1
    /\ family[s] = "REVOKED"
    /\ Tok!Minting(s) = {}
    /\ \A r \in Refresh : \A t \in held[r] :
         tokenPc[r] = "claim" /\ t[1] = s => token[t] # "ACTIVE"

TokenInv == Tok!TypeOK /\ OneHeld /\ Existing /\ Tok!OneSuccessor /\ LateClosed

\* A step that brings no token and no request about to mint one.
Quiet ==
  /\ late' = late
  /\ \A t \in Tok!Token : /\ token'[t] = "ACTIVE" => token[t] = "ACTIVE"
                          /\ token'[t] = "NONE" <=> token[t] = "NONE"
  /\ \A s \in Session : /\ family'[s] = "NONE" <=> family[s] = "NONE"
                        /\ family[s] = "REVOKED" => family'[s] = "REVOKED"
  /\ \A r \in Refresh :
       \/ tokenPc'[r] = tokenPc[r] /\ held'[r] = held[r]
       \/ held'[r] = {} /\ tokenPc'[r] \notin {"claim", "mint"}
       \/ held'[r] = held[r] /\ tokenPc'[r] \notin {"claim", "mint"}
       \/ \E t \in Tok!Token : /\ held'[r] = {t} /\ token[t] # "NONE"
                               /\ \/ tokenPc'[r] = "reuse"
                                  \/ tokenPc'[r] = "claim" /\ family[t[1]] = "LIVE"

-------------------------------------------------------------------------------
\* A token belongs to a session, and numbering it says which.
LEMMA TokenSession ==
  /\ \A t \in Tok!Token : t[1] \in Session /\ t[2] \in 1..MaxTokens /\ t = <<t[1], t[2]>>
  /\ \A s \in Session, n \in 1..MaxTokens : <<s, n>> \in Tok!Token /\ <<s, n>>[1] = s
BY DEF Tok!Token

\* The revocations that leave the tokens alone are all of live sessions.
LEMMA Revocations ==
  /\ \A s \in Session : Tok!RevokeOne(s) => \E S \in SUBSET Session : Tok!RevokeOnly(S)
  /\ Tok!RevokeAllOthers \/ Tok!RevokeLive => \E S \in SUBSET Session : Tok!RevokeOnly(S)
<1>1. ASSUME NEW s \in Session, Tok!RevokeOne(s)
      PROVE  \E S \in SUBSET Session : Tok!RevokeOnly(S)
  BY <1>1 DEF Tok!RevokeOne
<1>2. ASSUME Tok!RevokeAllOthers PROVE \E S \in SUBSET Session : Tok!RevokeOnly(S)
  <2>1. PICK current \in Tok!Current :
          Tok!RevokeOnly({ s \in Tok!Live : ~expired[s] } \ current)
    BY <1>2 DEF Tok!RevokeAllOthers
  <2>2. ({ s \in Tok!Live : ~expired[s] } \ current) \in SUBSET Session
    BY DEF Tok!Live
  <2> QED BY <2>1, <2>2
<1>3. ASSUME Tok!RevokeLive PROVE \E S \in SUBSET Session : Tok!RevokeOnly(S)
  <2>1. Tok!Live \in SUBSET Session
    BY DEF Tok!Live
  <2> QED BY <1>3, <2>1 DEF Tok!RevokeLive
<1> QED BY <1>1, <1>2, <1>3

\* The empty tables are of the right types.
LEMMA TypeInit == Tok!Init => Tok!TypeOK
BY DEF Tok!Init, Tok!TypeOK, Tok!SessionStatus, Tok!TokenStatus, Tok!Pc

\* Every step keeps the tables and the requests of their types.
LEMMA TypeStep == Tok!TypeOK /\ [Tok!Next]_Tok!vars => Tok!TypeOK'
<1> SUFFICES ASSUME Tok!TypeOK, [Tok!Next]_Tok!vars PROVE Tok!TypeOK'
  OBVIOUS
<1> USE SessionsAssumption DEF Tok!TokenAssumption, Tok!TypeOK, Tok!SessionStatus, Tok!TokenStatus, Tok!Pc
<1>0. CASE UNCHANGED Tok!vars
  BY <1>0 DEF Tok!vars
<1>1. ASSUME NEW s \in Session, Tok!IssueSession(s) PROVE Tok!TypeOK'
  <2>1. <<s, 1>> \in Tok!Token
    BY TokenSession
  <2> QED BY <1>1, <2>1 DEF Tok!IssueSession
<1>2. ASSUME NEW s \in Session, Tok!SessionExpires(s) PROVE Tok!TypeOK'
  BY <1>2 DEF Tok!SessionExpires
<1>3. ASSUME NEW r \in Refresh, NEW t \in Tok!Token, Tok!PresentActive(r, t) PROVE Tok!TypeOK'
  BY <1>3 DEF Tok!PresentActive, Tok!Goto
<1>4. ASSUME NEW r \in Refresh, NEW t \in Tok!Token, Tok!PresentRotated(r, t) PROVE Tok!TypeOK'
  BY <1>4 DEF Tok!PresentRotated, Tok!Goto
<1>5. ASSUME NEW r \in Refresh, NEW t \in Tok!Token, Tok!ClaimWins(r, t) PROVE Tok!TypeOK'
  BY <1>5 DEF Tok!ClaimWins, Tok!Goto
<1>6. ASSUME NEW r \in Refresh, NEW t \in Tok!Token, Tok!ClaimLoses(r, t) PROVE Tok!TypeOK'
  BY <1>6 DEF Tok!ClaimLoses, Tok!Goto
<1>7. ASSUME NEW r \in Refresh, NEW t \in Tok!Token, Tok!Mint(r, t) PROVE Tok!TypeOK'
  <2>1. PICK n \in 1..MaxTokens : token' = [token EXCEPT ![<<t[1], n>>] = "ACTIVE"]
    BY <1>7, Zenon DEF Tok!Mint
  <2>2. token' \in [Tok!Token -> Tok!TokenStatus]
    BY <2>1
  <2>3. late' \in [Session -> Nat]
    <3>1. t[1] \in Session /\ late[t[1]] \in Nat /\ late[t[1]] + 1 \in Nat
      BY TokenSession
    <3>2. late' = [late EXCEPT ![t[1]] =
                    IF family[t[1]] = "REVOKED" THEN late[t[1]] + 1 ELSE late[t[1]]]
      BY <1>7 DEF Tok!Mint
    <3> QED BY <3>1, <3>2
  <2> QED BY <1>7, <2>2, <2>3 DEF Tok!Mint, Tok!Done, Tok!Goto
<1>8. ASSUME NEW r \in Refresh, NEW t \in Tok!Token, Tok!AnswerReuse(r, t) PROVE Tok!TypeOK'
  BY <1>8 DEF Tok!AnswerReuse, Tok!RevokeFamily, Tok!RevokeTokens, Tok!RevokeSessions, Tok!Done, Tok!Goto
<1>9. ASSUME NEW t \in Tok!Token, Tok!Logout(t) PROVE Tok!TypeOK'
  BY <1>9 DEF Tok!Logout, Tok!RevokeFamily, Tok!RevokeTokens, Tok!RevokeSessions
<1>10. ASSUME NEW r \in Refresh, Tok!ListSessions(r) PROVE Tok!TypeOK'
  BY <1>10 DEF Tok!ListSessions, Tok!Live, Tok!Goto
<1>11. ASSUME NEW r \in Refresh, Tok!LogoutAll(r) PROVE Tok!TypeOK'
  BY <1>11 DEF Tok!LogoutAll, Tok!RevokeFamily, Tok!RevokeTokens, Tok!RevokeSessions, Tok!Done, Tok!Goto
<1>12. ASSUME NEW r \in Refresh, Tok!Die(r) PROVE Tok!TypeOK'
  BY <1>12 DEF Tok!Die, Tok!Done, Tok!Goto
<1>13. CASE Tok!ChangePassword
  BY <1>13 DEF Tok!ChangePassword, Tok!RevokeFamily, Tok!RevokeTokens, Tok!RevokeSessions
<1>14. ASSUME NEW S \in SUBSET Session, Tok!RevokeOnly(S) PROVE Tok!TypeOK'
  BY <1>14 DEF Tok!RevokeOnly, Tok!RevokeSessions
<1> QED
  BY <1>0, <1>1, <1>2, <1>3, <1>4, <1>5, <1>6, <1>7, <1>8, <1>9, <1>10, <1>11,
     <1>12, <1>13, <1>14, Revocations DEF Tok!Next, Tok!Rotate

(* The tables of the sessions and of the tokens and the requests in flight  *)
(* keep their types in every behaviour of the refresh token service.        *)
THEOREM TokensTyped == Tok!Spec => []Tok!TypeOK
BY TypeInit, TypeStep, PTL DEF Tok!Spec

-------------------------------------------------------------------------------
\* Revoking sessions, with their tokens or without, brings nothing new.
LEMMA RevokeIsQuiet ==
  ASSUME Tok!TypeOK, NEW S \in SUBSET Session, Tok!RevokeSessions(S),
         Tok!RevokeTokens(S) \/ UNCHANGED token, late' = late,
         \A r \in Refresh : \/ tokenPc'[r] = tokenPc[r] /\ held'[r] = held[r]
                            \/ tokenPc'[r] = "idle" /\ held'[r] = {}
  PROVE  Quiet
BY TokenSession
   DEF Tok!TypeOK, Tok!RevokeSessions, Tok!RevokeTokens, Quiet, Tok!SessionStatus, Tok!TokenStatus

\* Every step but a login, a claim and a mint is quiet.
LEMMA QuietSteps ==
  ASSUME Tok!TypeOK, [Tok!Next]_Tok!vars,
         \A s \in Session : ~Tok!IssueSession(s),
         \A r \in Refresh, t \in Tok!Token : ~Tok!ClaimWins(r, t) /\ ~Tok!Mint(r, t)
  PROVE  Quiet
<1> USE DEF Tok!TypeOK, Quiet
<1>0. CASE UNCHANGED Tok!vars
  BY <1>0 DEF Tok!vars
<1>2. ASSUME NEW s \in Session, Tok!SessionExpires(s) PROVE Quiet
  BY <1>2 DEF Tok!SessionExpires
<1>3. ASSUME NEW r \in Refresh, NEW t \in Tok!Token, Tok!PresentActive(r, t) PROVE Quiet
  BY <1>3 DEF Tok!PresentActive, Tok!Rotatable, Tok!Goto
<1>4. ASSUME NEW r \in Refresh, NEW t \in Tok!Token, Tok!PresentRotated(r, t) PROVE Quiet
  BY <1>4 DEF Tok!PresentRotated, Tok!Goto
<1>6. ASSUME NEW r \in Refresh, NEW t \in Tok!Token, Tok!ClaimLoses(r, t) PROVE Quiet
  BY <1>6 DEF Tok!ClaimLoses, Tok!Goto
<1>8. ASSUME NEW r \in Refresh, NEW t \in Tok!Token, Tok!AnswerReuse(r, t) PROVE Quiet
  <2>1. {t[1]} \in SUBSET Session
    BY TokenSession
  <2> QED BY <1>8, <2>1, RevokeIsQuiet DEF Tok!AnswerReuse, Tok!RevokeFamily, Tok!Done, Tok!Goto
<1>9. ASSUME NEW t \in Tok!Token, Tok!Logout(t) PROVE Quiet
  <2>1. {t[1]} \in SUBSET Session
    BY TokenSession
  <2> QED BY <1>9, <2>1, RevokeIsQuiet DEF Tok!Logout, Tok!RevokeFamily
<1>10. ASSUME NEW r \in Refresh, Tok!ListSessions(r) PROVE Quiet
  <2>1. tokenPc'[r] = "revoke" /\ held' = held /\ tokenPc[r] = "idle"
    BY <1>10 DEF Tok!ListSessions, Tok!Goto
  <2>2. \A q \in Refresh : q # r => tokenPc'[q] = tokenPc[q]
    BY <1>10 DEF Tok!ListSessions, Tok!Goto
  <2> QED BY <1>10, <2>1, <2>2 DEF Tok!ListSessions
<1>11. ASSUME NEW r \in Refresh, Tok!LogoutAll(r) PROVE Quiet
  <2>1. listed[r] \in SUBSET Session
    OBVIOUS
  <2> QED BY <1>11, <2>1, RevokeIsQuiet DEF Tok!LogoutAll, Tok!RevokeFamily, Tok!Done, Tok!Goto
<1>12. ASSUME NEW r \in Refresh, Tok!Die(r) PROVE Quiet
  BY <1>12 DEF Tok!Die, Tok!Done, Tok!Goto
<1>13. CASE Tok!ChangePassword
  <2>1. Tok!Live \in SUBSET Session
    BY DEF Tok!Live
  <2> QED BY <1>13, <2>1, RevokeIsQuiet DEF Tok!ChangePassword, Tok!RevokeFamily
<1>14. ASSUME NEW S \in SUBSET Session, Tok!RevokeOnly(S) PROVE Quiet
  BY <1>14, RevokeIsQuiet DEF Tok!RevokeOnly
<1> QED
  BY <1>0, <1>2, <1>3, <1>4, <1>6, <1>8, <1>9, <1>10, <1>11, <1>12, <1>13, <1>14,
     Revocations DEF Tok!Next, Tok!Rotate

-------------------------------------------------------------------------------
\* The invariant holds before the first login.
LEMMA InvInit == Tok!Init => TokenInv
BY TypeInit, TokenSession
   DEF Tok!Init, TokenInv, OneHeld, Existing, Tok!OneSuccessor, LateClosed, Tok!Active, Tok!Minting, Tok!Of

\* A quiet step preserves it.
LEMMA QuietInv == ASSUME TokenInv, Quiet, Tok!TypeOK' PROVE TokenInv'
<1> USE TokenSession DEF TokenInv, Quiet
<1>1. OneHeld'
  BY DEF OneHeld
<1>2. Existing'
  <2>1. \A t \in Tok!Token : token'[t] # "NONE" => family'[t[1]] # "NONE"
    BY DEF Existing
  <2>2. ASSUME NEW r \in Refresh, NEW t \in held'[r] PROVE token'[t] # "NONE"
    <3>1. t \in Tok!Token
      BY DEF Tok!TypeOK
    <3>2. token[t] # "NONE"
      BY <2>2 DEF Existing
    <3> QED BY <3>1, <3>2
  <2> QED BY <2>1, <2>2 DEF Existing
<1>3. \A s \in Session : Tok!Active(s)' \subseteq Tok!Active(s)
  BY DEF Tok!Active, Tok!Of
<1>4. \A s \in Session : Tok!Minting(s)' \subseteq Tok!Minting(s)
  BY DEF Tok!Minting
<1>5. Tok!OneSuccessor'
  BY <1>3, <1>4 DEF Tok!OneSuccessor
<1>6. LateClosed'
  <2> SUFFICES ASSUME NEW s \in Session, late'[s] # 0
               PROVE  /\ late'[s] = 1 /\ family'[s] = "REVOKED" /\ Tok!Minting(s)' = {}
                      /\ \A r \in Refresh : \A t \in held'[r] :
                           tokenPc'[r] = "claim" /\ t[1] = s => token'[t] # "ACTIVE"
    BY DEF LateClosed
  <2>1. late[s] # 0 /\ family[s] = "REVOKED"
    BY DEF LateClosed
  <2>2. late'[s] = 1 /\ family'[s] = "REVOKED" /\ Tok!Minting(s)' = {}
    BY <2>1, <1>4 DEF LateClosed
  <2>3. ASSUME NEW r \in Refresh, NEW t \in held'[r], tokenPc'[r] = "claim", t[1] = s
        PROVE  token'[t] # "ACTIVE"
    <3>1. t \in Tok!Token
      BY DEF Tok!TypeOK
    <3>2. CASE tokenPc'[r] = tokenPc[r] /\ held'[r] = held[r]
      BY <2>1, <2>3, <3>1, <3>2 DEF LateClosed
    <3>3. CASE ~(tokenPc'[r] = tokenPc[r] /\ held'[r] = held[r])
      BY <2>1, <2>3, <3>3
    <3> QED BY <3>2, <3>3
  <2> QED BY <2>2, <2>3
<1> QED BY <1>1, <1>2, <1>5, <1>6

\* So does a login: the session and its family are new.
LEMMA IssueInv ==
  ASSUME TokenInv, Tok!TypeOK', NEW s \in Session, Tok!IssueSession(s) PROVE TokenInv'
<1> USE TokenSession, SessionsAssumption DEF Tok!TokenAssumption, TokenInv
<1>0. <<s, 1>> \in Tok!Token /\ <<s, 1>>[1] = s
  OBVIOUS
<1>1. /\ tokenPc' = tokenPc /\ held' = held /\ late' = late
      /\ family[s] = "NONE" /\ family'[s] = "LIVE"
      /\ \A x \in Session : x # s => family'[x] = family[x]
      /\ token'[<<s, 1>>] = "ACTIVE"
      /\ \A t \in Tok!Token : t # <<s, 1>> => token'[t] = token[t]
  BY <1>0 DEF Tok!IssueSession, Tok!TypeOK
<1>2. OneHeld'
  BY <1>1 DEF OneHeld
<1>3. Existing'
  BY <1>0, <1>1 DEF Existing, Tok!TypeOK
<1>4. \A t \in Tok!Token : t[1] = s => token[t] = "NONE"
  BY <1>1 DEF Existing
<1>5. Tok!Minting(s) = {}
  BY <1>1, <1>4 DEF Tok!Minting, Existing, Tok!TypeOK
<1>6. \A x \in Session : Tok!Minting(x)' = Tok!Minting(x)
  BY <1>1 DEF Tok!Minting
<1>7. \A x \in Session : x # s => Tok!Active(x)' = Tok!Active(x)
  BY <1>0, <1>1 DEF Tok!Active, Tok!Of
<1>8. \A t \in Tok!Active(s)' : t = <<s, 1>>
  BY <1>1, <1>4 DEF Tok!Active, Tok!Of
<1>9. Tok!OneSuccessor'
  BY <1>5, <1>6, <1>7, <1>8 DEF Tok!OneSuccessor
<1>10. LateClosed'
  <2> SUFFICES ASSUME NEW x \in Session, late[x] # 0
               PROVE  /\ late'[x] = 1 /\ family'[x] = "REVOKED" /\ Tok!Minting(x)' = {}
                      /\ \A r \in Refresh : \A t \in held'[r] :
                           tokenPc'[r] = "claim" /\ t[1] = x => token'[t] # "ACTIVE"
    BY <1>1 DEF LateClosed
  <2>1. x # s
    BY <1>1 DEF LateClosed
  <2>2. late'[x] = 1 /\ family'[x] = "REVOKED" /\ Tok!Minting(x)' = {}
    BY <1>1, <1>6, <2>1 DEF LateClosed
  <2>3. ASSUME NEW r \in Refresh, NEW t \in held'[r], tokenPc'[r] = "claim", t[1] = x
        PROVE  token'[t] # "ACTIVE"
    BY <1>0, <1>1, <2>1, <2>3 DEF LateClosed, Tok!TypeOK
  <2> QED BY <2>2, <2>3
<1> QED BY <1>2, <1>3, <1>9, <1>10

\* So does a claim that wins: the family trades its ACTIVE token for the
\* request that is about to mint the next one.
LEMMA ClaimInv ==
  ASSUME TokenInv, Tok!TypeOK', NEW r \in Refresh, NEW t \in Tok!Token, Tok!ClaimWins(r, t)
  PROVE  TokenInv'
<1> USE TokenSession DEF TokenInv
<1>1. /\ held' = held /\ late' = late /\ family' = family
      /\ tokenPc[r] = "claim" /\ t \in held[r] /\ token[t] = "ACTIVE"
      /\ tokenPc'[r] = "mint" /\ \A q \in Refresh : q # r => tokenPc'[q] = tokenPc[q]
      /\ token'[t] = "ROTATED" /\ \A u \in Tok!Token : u # t => token'[u] = token[u]
  BY DEF Tok!ClaimWins, Tok!Claimable, Tok!Goto, Tok!TypeOK
<1>2. OneHeld'
  BY <1>1 DEF OneHeld
<1>3. Existing'
  BY <1>1 DEF Existing, Tok!TypeOK
<1>4. DEFINE s == t[1]
<1>5. Tok!Active(s) = {t} /\ Tok!Minting(s) = {}
  BY <1>1 DEF Tok!OneSuccessor, Tok!Active, Tok!Of
<1>6. Tok!Active(s)' = {} /\ \A x \in Session : Tok!Active(x)' \subseteq Tok!Active(x)
  BY <1>1, <1>5 DEF Tok!Active, Tok!Of
<1>7. held[r] = {t}
  BY <1>1 DEF OneHeld
<1>8. Tok!Minting(s)' = {r}
  BY <1>1, <1>5, <1>7 DEF Tok!Minting
<1>9. \A x \in Session : x # s => Tok!Minting(x)' = Tok!Minting(x)
  BY <1>1, <1>7 DEF Tok!Minting
<1>10. Tok!OneSuccessor'
  BY <1>6, <1>8, <1>9 DEF Tok!OneSuccessor
<1>11. late[s] = 0
  BY <1>1 DEF LateClosed
<1>12. LateClosed'
  BY <1>1, <1>9, <1>11 DEF LateClosed, Tok!TypeOK
<1> QED BY <1>2, <1>3, <1>10, <1>12

\* So does a mint: the request gives way to the token, and if the session was
\* revoked no request is left that could bring another.
LEMMA MintInv ==
  ASSUME TokenInv, Tok!TypeOK', NEW r \in Refresh, NEW t \in Tok!Token, Tok!Mint(r, t)
  PROVE  TokenInv'
<1> USE TokenSession DEF TokenInv
<1> DEFINE s == t[1]
<1>0. PICK n \in 1..MaxTokens :
        token[<<s, n>>] = "NONE" /\ token' = [token EXCEPT ![<<s, n>>] = "ACTIVE"]
  BY DEF Tok!Mint
<1> DEFINE new == <<s, n>>
<1>1. /\ family' = family /\ tokenPc[r] = "mint" /\ t \in held[r]
      /\ tokenPc'[r] = "idle" /\ held'[r] = {}
      /\ \A q \in Refresh : q # r => tokenPc'[q] = tokenPc[q] /\ held'[q] = held[q]
      /\ \A x \in Session : x # s => late'[x] = late[x]
      /\ late'[s] = IF family[s] = "REVOKED" THEN late[s] + 1 ELSE late[s]
  BY DEF Tok!Mint, Tok!Done, Tok!Goto, Tok!TypeOK
<1>2. /\ new \in Tok!Token /\ new[1] = s /\ token[new] = "NONE" /\ token'[new] = "ACTIVE"
      /\ \A u \in Tok!Token : u # new => token'[u] = token[u]
  BY <1>0 DEF Tok!TypeOK
<1> HIDE DEF new, s
<1>3. OneHeld'
  BY <1>1 DEF OneHeld
<1>4. s \in Session /\ family[s] # "NONE"
  BY <1>1 DEF Existing, s
<1>5. Existing'
  <2>1. \A u \in Tok!Token : token'[u] # "NONE" => family'[u[1]] # "NONE"
    BY <1>1, <1>2, <1>4 DEF Existing
  <2>2. \A q \in Refresh : \A u \in held'[q] : token'[u] # "NONE"
    BY <1>1, <1>2 DEF Existing, Tok!TypeOK
  <2> QED BY <2>1, <2>2 DEF Existing
<1>6. r \in Tok!Minting(s)
  BY <1>1 DEF Tok!Minting, s
<1>7. Tok!Minting(s) = {r} /\ Tok!Active(s) = {}
  BY <1>4, <1>6 DEF Tok!OneSuccessor
<1>8. Tok!Minting(s)' = {} /\ \A x \in Session : Tok!Minting(x)' \subseteq Tok!Minting(x)
  BY <1>1, <1>4, <1>7 DEF Tok!Minting
<1>9. Tok!Active(s)' = {new} /\ \A x \in Session : x # s => Tok!Active(x)' = Tok!Active(x)
  BY <1>2, <1>7 DEF Tok!Active, Tok!Of
<1>10. Tok!OneSuccessor'
  BY <1>8, <1>9 DEF Tok!OneSuccessor
<1>11. late[s] = 0
  BY <1>4, <1>7 DEF LateClosed
<1>12. LateClosed'
  <2> SUFFICES ASSUME NEW x \in Session, late'[x] # 0
               PROVE  /\ late'[x] = 1 /\ family'[x] = "REVOKED" /\ Tok!Minting(x)' = {}
                      /\ \A q \in Refresh : \A u \in held'[q] :
                           tokenPc'[q] = "claim" /\ u[1] = x => token'[u] # "ACTIVE"
    BY DEF LateClosed
  <2>1. CASE x = s
    <3>1. late'[x] = 1 /\ family'[x] = "REVOKED" /\ Tok!Minting(x)' = {}
      BY <1>1, <1>8, <1>11, <2>1
    <3>2. ASSUME NEW q \in Refresh, NEW u \in held'[q], tokenPc'[q] = "claim", u[1] = x
          PROVE  token'[u] # "ACTIVE"
      <4>1. q # r /\ u \in held[q] /\ u \in Tok!Token
        BY <1>1, <3>2 DEF Tok!TypeOK
      <4>2. u # new
        BY <1>2, <4>1 DEF Existing
      <4>3. token[u] # "ACTIVE"
        BY <1>7, <2>1, <3>2, <4>1 DEF Tok!Active, Tok!Of
      <4> QED BY <1>2, <4>1, <4>2, <4>3
    <3> QED BY <3>1, <3>2
  <2>2. CASE x # s
    <3>1. late[x] # 0
      BY <1>1, <2>2
    <3>2. late'[x] = 1 /\ family'[x] = "REVOKED" /\ Tok!Minting(x)' = {}
      BY <1>1, <1>8, <2>2, <3>1 DEF LateClosed
    <3>3. ASSUME NEW q \in Refresh, NEW u \in held'[q], tokenPc'[q] = "claim", u[1] = x
          PROVE  token'[u] # "ACTIVE"
      <4>1. q # r /\ u \in held[q] /\ u \in Tok!Token /\ tokenPc[q] = "claim"
        BY <1>1, <3>3 DEF Tok!TypeOK
      <4> QED BY <1>2, <2>2, <3>1, <3>3, <4>1 DEF LateClosed
    <3> QED BY <3>2, <3>3
  <2> QED BY <2>1, <2>2
<1> QED BY <1>3, <1>5, <1>10, <1>12

\* Every step preserves the invariant.
LEMMA InvStep == TokenInv /\ [Tok!Next]_Tok!vars => TokenInv'
<1> SUFFICES ASSUME TokenInv, [Tok!Next]_Tok!vars PROVE TokenInv'
  OBVIOUS
<1>1. Tok!TypeOK /\ Tok!TypeOK'
  BY TypeStep DEF TokenInv
<1>2. CASE \E s \in Session : Tok!IssueSession(s)
  BY <1>1, <1>2, IssueInv
<1>3. CASE \E r \in Refresh, t \in Tok!Token : Tok!ClaimWins(r, t)
  BY <1>1, <1>3, ClaimInv
<1>4. CASE \E r \in Refresh, t \in Tok!Token : Tok!Mint(r, t)
  BY <1>1, <1>4, MintInv
<1>5. CASE /\ \A s \in Session : ~Tok!IssueSession(s)
           /\ \A r \in Refresh, t \in Tok!Token : ~Tok!ClaimWins(r, t) /\ ~Tok!Mint(r, t)
  BY <1>1, <1>5, QuietSteps, QuietInv
<1> QED BY <1>2, <1>3, <1>4, <1>5

\* The invariant holds in every behaviour.
LEMMA TokenInvariance == Tok!Spec => []TokenInv
BY InvInit, InvStep, PTL DEF Tok!Spec

(* However many requests refresh copies of a token, and whatever revokes    *)
(* the session meanwhile, a family never has two successors (rotate).       *)
THEOREM OneAtATime == Tok!Spec => []OneSuccessor
<1>1. TokenInv => OneSuccessor
  BY DEF TokenInv, OneSuccessor
<1> QED BY <1>1, TokenInvariance, PTL

(* A refresh that was past its checks when its session was revoked mints    *)
(* one more token in it, and no other refresh ever does (rotate against     *)
(* revokeFamily, revokeAllForUser, revokeOne and the others).               *)
THEOREM LateOnce == Tok!Spec => []LateAtMostOnce
<1>1. TokenInv => LateAtMostOnce
  BY DEF TokenInv, LateAtMostOnce, Tok!LateAtMostOnce, LateClosed, Tok!TypeOK
<1> QED BY <1>1, TokenInvariance, PTL

-------------------------------------------------------------------------------
\* The successor of a family: its ACTIVE token or a request about to mint it.
HasSuccessor(s) == Tok!Active(s) # {} \/ Tok!Minting(s) # {}

DeadStays ==
  \A s \in Session :
    family[s] # "NONE" /\ Tok!Active(s) = {} /\ Tok!Minting(s) = {}
      => Tok!Active(s)' = {} /\ Tok!Minting(s)' = {}

\* No step gives a successor to a family that has none.
LEMMA DeadStep == TokenInv /\ [Tok!Next]_Tok!vars => DeadStays
<1> SUFFICES ASSUME TokenInv, [Tok!Next]_Tok!vars,
                    NEW s \in Session, family[s] # "NONE",
                    Tok!Active(s) = {}, Tok!Minting(s) = {}
             PROVE  Tok!Active(s)' = {} /\ Tok!Minting(s)' = {}
  BY DEF DeadStays
<1> USE TokenSession
<1>1. Tok!TypeOK /\ Tok!TypeOK'
  BY TypeStep DEF TokenInv
<1>2. ASSUME NEW x \in Session, Tok!IssueSession(x) PROVE Tok!Active(s)' = {} /\ Tok!Minting(s)' = {}
  <2>1. x # s
    BY <1>2 DEF Tok!IssueSession
  <2>2. <<x, 1>>[1] = x
    OBVIOUS
  <2>3. \A t \in Tok!Token : t[1] = s => token'[t] = token[t]
    BY <1>1, <1>2, <2>1, <2>2 DEF Tok!IssueSession, Tok!TypeOK
  <2>4. Tok!Active(s)' = {}
    BY <2>3 DEF Tok!Active, Tok!Of
  <2>5. Tok!Minting(s)' = {}
    BY <1>2 DEF Tok!Minting, Tok!IssueSession
  <2> QED BY <2>4, <2>5
<1>3. ASSUME NEW r \in Refresh, NEW t \in Tok!Token, Tok!ClaimWins(r, t)
      PROVE  Tok!Active(s)' = {} /\ Tok!Minting(s)' = {}
  <2>1. t[1] # s
    BY <1>3 DEF Tok!ClaimWins, Tok!Claimable, Tok!Active, Tok!Of
  <2>2. held[r] = {t}
    BY <1>3 DEF Tok!ClaimWins, TokenInv, OneHeld
  <2>3. \A q \in Refresh : q # r => tokenPc'[q] = tokenPc[q]
    BY <1>1, <1>3 DEF Tok!ClaimWins, Tok!Goto, Tok!TypeOK
  <2>4. Tok!Minting(s)' = {}
    BY <1>3, <2>1, <2>2, <2>3 DEF Tok!Minting, Tok!ClaimWins
  <2>5. Tok!Active(s)' = {}
    BY <1>1, <1>3 DEF Tok!ClaimWins, Tok!Active, Tok!Of, Tok!TypeOK
  <2> QED BY <2>4, <2>5
<1>4. ASSUME NEW r \in Refresh, NEW t \in Tok!Token, Tok!Mint(r, t)
      PROVE  Tok!Active(s)' = {} /\ Tok!Minting(s)' = {}
  <2>1. t[1] # s
    BY <1>4 DEF Tok!Mint, Tok!Minting
  <2>2. PICK n \in 1..MaxTokens : token' = [token EXCEPT ![<<t[1], n>>] = "ACTIVE"]
    BY <1>4 DEF Tok!Mint
  <2>3. <<t[1], n>>[1] = t[1]
    OBVIOUS
  <2>4. \A u \in Tok!Token : u[1] = s => token'[u] = token[u]
    BY <1>1, <2>1, <2>2, <2>3 DEF Tok!TypeOK
  <2>5. Tok!Active(s)' = {}
    BY <2>4 DEF Tok!Active, Tok!Of
  <2>6. Tok!Minting(s)' = {}
    BY <1>1, <1>4 DEF Tok!Minting, Tok!Mint, Tok!Done, Tok!Goto, Tok!TypeOK
  <2> QED BY <2>5, <2>6
<1>5. CASE Quiet
  <2>1. Tok!Active(s)' \subseteq Tok!Active(s) /\ Tok!Minting(s)' \subseteq Tok!Minting(s)
    BY <1>5 DEF Quiet, Tok!Active, Tok!Of, Tok!Minting
  <2> QED BY <2>1
<1> QED BY <1>1, <1>2, <1>3, <1>4, <1>5, QuietSteps

(* A family that has lost its successor, because of a logout, of a replay   *)
(* or of a request that died between its claim and its mint, never gets     *)
(* another (rotate, revokeFamily).                                          *)
THEOREM DeadFamily == Tok!Spec => DeadFamilyStaysDead
<1>1. TokenInv /\ [Tok!Next]_Tok!vars => [DeadStays]_Tok!vars
  BY DeadStep
<1>2. Tok!Spec => [][DeadStays]_Tok!vars
  BY <1>1, TokenInvariance, PTL DEF Tok!Spec
<1> QED BY <1>2 DEF DeadFamilyStaysDead, Tok!DeadFamilyStaysDead, DeadStays

-------------------------------------------------------------------------------
\* Revoking tokens with their sessions leaves the other families their successor.
LEMMA RevokeKeeps ==
  ASSUME Tok!TypeOK, NEW S \in SUBSET Session, Tok!RevokeSessions(S),
         Tok!RevokeTokens(S) \/ UNCHANGED token,
         \A r \in Refresh :
           tokenPc[r] = "mint" => tokenPc'[r] = tokenPc[r] /\ held'[r] = held[r],
         NEW s \in Session, family'[s] = "LIVE", HasSuccessor(s)
  PROVE  HasSuccessor(s)'
<1>1. s \notin S \/ family[s] # "LIVE"
  BY DEF Tok!RevokeSessions, Tok!TypeOK
<1>2. s \notin S
  BY <1>1 DEF Tok!RevokeSessions, Tok!TypeOK
<1>3. Tok!Active(s) \subseteq Tok!Active(s)'
  BY <1>2 DEF Tok!RevokeTokens, Tok!Active, Tok!Of, Tok!TypeOK
<1>4. Tok!Minting(s) \subseteq Tok!Minting(s)'
  BY DEF Tok!Minting
<1> QED BY <1>3, <1>4 DEF HasSuccessor

\* No step but a death takes the successor of a live session away.
LEMMA UsableStep ==
  TokenInv /\ Tok!LiveIsUsable /\ [Tok!Next]_Tok!vars => Tok!LiveIsUsable'
<1> SUFFICES ASSUME TokenInv, Tok!LiveIsUsable, [Tok!Next]_Tok!vars, faults' = 0,
                    NEW s \in Session, family'[s] = "LIVE"
             PROVE  HasSuccessor(s)'
  BY DEF Tok!LiveIsUsable, HasSuccessor
<1> USE TokenSession
<1>1. Tok!TypeOK /\ Tok!TypeOK' /\ OneHeld
  BY TypeStep DEF TokenInv
<1>2. ASSUME NEW r \in Refresh, Tok!Die(r) PROVE FALSE
  BY <1>1, <1>2 DEF Tok!Die, Tok!TypeOK
<1>3. faults = 0 \/ UNCHANGED Tok!vars
  <2>1. faults' = faults
    BY <1>2, Revocations DEF Tok!Next, Tok!Rotate, Tok!vars, Tok!IssueSession, Tok!SessionExpires, Tok!PresentActive,
       Tok!PresentRotated, Tok!ClaimWins, Tok!ClaimLoses, Tok!Mint, Tok!AnswerReuse, Tok!Logout,
       Tok!ListSessions, Tok!LogoutAll, Tok!ChangePassword, Tok!RevokeOnly
  <2> QED BY <2>1
<1>4. family[s] = "LIVE" => HasSuccessor(s)
  BY <1>3 DEF Tok!LiveIsUsable, HasSuccessor, Tok!vars
<1>5. ASSUME NEW x \in Session, Tok!IssueSession(x) PROVE HasSuccessor(s)'
  <2>1. <<x, 1>> \in Tok!Token /\ <<x, 1>>[1] = x
    BY SessionsAssumption DEF Tok!TokenAssumption
  <2>2. token'[<<x, 1>>] = "ACTIVE" /\ \A t \in Tok!Token : token[t] = "ACTIVE" => token'[t] = "ACTIVE"
    BY <1>1, <1>5, <2>1 DEF Tok!IssueSession, Tok!TypeOK
  <2>3. CASE x = s
    BY <2>1, <2>2, <2>3 DEF HasSuccessor, Tok!Active, Tok!Of
  <2>4. CASE x # s
    <3>1. HasSuccessor(s)
      BY <1>1, <1>4, <1>5, <2>4 DEF Tok!IssueSession, Tok!TypeOK
    <3>2. Tok!Active(s) \subseteq Tok!Active(s)'
      BY <2>2 DEF Tok!Active, Tok!Of
    <3>3. Tok!Minting(s) = Tok!Minting(s)'
      BY <1>5 DEF Tok!IssueSession, Tok!Minting
    <3> QED BY <3>1, <3>2, <3>3 DEF HasSuccessor
  <2> QED BY <2>3, <2>4
<1>6. ASSUME NEW r \in Refresh, NEW t \in Tok!Token, Tok!ClaimWins(r, t) PROVE HasSuccessor(s)'
  <2>1. HasSuccessor(s)
    BY <1>4, <1>6 DEF Tok!ClaimWins
  <2>2. CASE t[1] = s
    BY <1>1, <1>6, <2>2 DEF Tok!ClaimWins, Tok!Goto, Tok!TypeOK, HasSuccessor, Tok!Minting
  <2>3. CASE t[1] # s
    <3>1. Tok!Active(s) \subseteq Tok!Active(s)'
      BY <1>1, <1>6, <2>3 DEF Tok!ClaimWins, Tok!TypeOK, Tok!Active, Tok!Of
    <3>2. Tok!Minting(s) \subseteq Tok!Minting(s)'
      BY <1>1, <1>6 DEF Tok!ClaimWins, Tok!Goto, Tok!TypeOK, Tok!Minting
    <3> QED BY <2>1, <3>1, <3>2 DEF HasSuccessor
  <2> QED BY <2>2, <2>3
<1>7. ASSUME NEW r \in Refresh, NEW t \in Tok!Token, Tok!Mint(r, t) PROVE HasSuccessor(s)'
  <2>1. HasSuccessor(s) /\ held[r] = {t}
    BY <1>1, <1>4, <1>7 DEF Tok!Mint, OneHeld
  <2>2. PICK n \in 1..MaxTokens : token' = [token EXCEPT ![<<t[1], n>>] = "ACTIVE"]
    BY <1>7 DEF Tok!Mint
  <2>3. <<t[1], n>> \in Tok!Token /\ <<t[1], n>>[1] = t[1]
    OBVIOUS
  <2>4. /\ token'[<<t[1], n>>] = "ACTIVE"
        /\ \A u \in Tok!Token : token[u] = "ACTIVE" => token'[u] = "ACTIVE"
    BY <1>1, <2>2, <2>3 DEF Tok!TypeOK
  <2>5. CASE t[1] = s
    BY <2>3, <2>4, <2>5 DEF HasSuccessor, Tok!Active, Tok!Of
  <2>6. CASE t[1] # s
    <3>1. Tok!Active(s) \subseteq Tok!Active(s)'
      BY <2>4 DEF Tok!Active, Tok!Of
    <3>2. Tok!Minting(s) \subseteq Tok!Minting(s)'
      BY <1>1, <1>7, <2>1, <2>6 DEF Tok!Mint, Tok!Done, Tok!Goto, Tok!TypeOK, Tok!Minting
    <3> QED BY <2>1, <3>1, <3>2 DEF HasSuccessor
  <2> QED BY <2>5, <2>6
<1>8. ASSUME UNCHANGED <<family, token>>,
             \A r \in Refresh : tokenPc[r] = "mint" => tokenPc'[r] = tokenPc[r] /\ held'[r] = held[r]
      PROVE  HasSuccessor(s)'
  <2>1. Tok!Active(s)' = Tok!Active(s) /\ Tok!Minting(s) \subseteq Tok!Minting(s)'
    BY <1>8 DEF Tok!Active, Tok!Of, Tok!Minting
  <2> QED BY <1>4, <1>8, <2>1 DEF HasSuccessor
<1>9. CASE \E x \in Session : Tok!SessionExpires(x)
  BY <1>8, <1>9 DEF Tok!SessionExpires
<1>10. CASE \E r \in Refresh, t \in Tok!Token :
              Tok!PresentActive(r, t) \/ Tok!PresentRotated(r, t) \/ Tok!ClaimLoses(r, t)
  BY <1>1, <1>8, <1>10 DEF Tok!PresentActive, Tok!PresentRotated, Tok!ClaimLoses, Tok!Goto, Tok!TypeOK
<1>11. CASE \E r \in Refresh : Tok!ListSessions(r)
  BY <1>1, <1>8, <1>11 DEF Tok!ListSessions, Tok!Goto, Tok!TypeOK
<1>12. ASSUME NEW S \in SUBSET Session, Tok!RevokeSessions(S),
              Tok!RevokeTokens(S) \/ UNCHANGED token,
              \A r \in Refresh : tokenPc[r] = "mint" => tokenPc'[r] = tokenPc[r] /\ held'[r] = held[r]
       PROVE  HasSuccessor(s)'
  <2>1. family[s] = "LIVE"
    BY <1>1, <1>12 DEF Tok!RevokeSessions, Tok!TypeOK
  <2> QED BY <1>1, <1>4, <1>12, <2>1, RevokeKeeps
<1>13. ASSUME NEW r \in Refresh, NEW t \in Tok!Token, Tok!AnswerReuse(r, t) PROVE HasSuccessor(s)'
  <2>1. {t[1]} \in SUBSET Session
    OBVIOUS
  <2>2. \A q \in Refresh : tokenPc[q] = "mint" => tokenPc'[q] = tokenPc[q] /\ held'[q] = held[q]
    BY <1>1, <1>13 DEF Tok!AnswerReuse, Tok!Done, Tok!Goto, Tok!TypeOK
  <2> QED BY <1>12, <1>13, <2>1, <2>2 DEF Tok!AnswerReuse, Tok!RevokeFamily
<1>14. ASSUME NEW t \in Tok!Token, Tok!Logout(t) PROVE HasSuccessor(s)'
  <2>1. {t[1]} \in SUBSET Session
    OBVIOUS
  <2> QED BY <1>12, <1>14, <2>1 DEF Tok!Logout, Tok!RevokeFamily
<1>15. ASSUME NEW r \in Refresh, Tok!LogoutAll(r) PROVE HasSuccessor(s)'
  <2>1. listed[r] \in SUBSET Session
    BY <1>1 DEF Tok!TypeOK
  <2>2. \A q \in Refresh : tokenPc[q] = "mint" => tokenPc'[q] = tokenPc[q] /\ held'[q] = held[q]
    BY <1>1, <1>15 DEF Tok!LogoutAll, Tok!Done, Tok!Goto, Tok!TypeOK
  <2> QED BY <1>12, <1>15, <2>1, <2>2 DEF Tok!LogoutAll, Tok!RevokeFamily
<1>16. CASE Tok!ChangePassword
  <2>1. Tok!Live \in SUBSET Session
    BY DEF Tok!Live
  <2> QED BY <1>12, <1>16, <2>1 DEF Tok!ChangePassword, Tok!RevokeFamily
<1>17. CASE \E S \in SUBSET Session : Tok!RevokeOnly(S)
  BY <1>12, <1>17 DEF Tok!RevokeOnly
<1>18. CASE UNCHANGED Tok!vars
  BY <1>8, <1>18 DEF Tok!vars
<1> QED
  BY <1>2, <1>5, <1>6, <1>7, <1>9, <1>10, <1>11, <1>13, <1>14, <1>15, <1>16,
     <1>17, <1>18, Revocations DEF Tok!Next, Tok!Rotate

(* Unless a request died, a live session always has its ACTIVE token or the *)
(* request that brings the next one, so its owner is never shut out by the  *)
(* requests of others (rotate, revokeFamily).                               *)
THEOREM Usable == Tok!Spec => []LiveIsUsable
<1>1. Tok!Init => Tok!LiveIsUsable
  BY DEF Tok!Init, Tok!LiveIsUsable
<1> QED BY <1>1, UsableStep, TokenInvariance, PTL DEF Tok!Spec, LiveIsUsable
===============================================================================
