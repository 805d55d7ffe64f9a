------------------------------ MODULE Onboarding ------------------------------
(***************************************************************************)
(* The consents and the onboarding of one user: services/consent.service.ts *)
(* and services/onboarding.service.ts behind their controllers.            *)
(*                                                                         *)
(* Consents are records that are only added; the last one of a purpose     *)
(* counts.  Onboarding is one row; a step is added to the list that was    *)
(* read before, and completion is decided from the row and the consents    *)
(* and written later.                                                      *)
(***************************************************************************)
EXTENDS FiniteSets

CONSTANTS
  Purpose, RequiredPurposes,  \* CONSENT_PURPOSES, REQUIRED_CONSENT_PURPOSES
  Step, RequiredSteps,        \* ONBOARDING_STEPS, REQUIRED_ONBOARDING_STEPS
  Request,
  Nobody                      \* no step, no purpose

OnboardingAssumption ==
  /\ RequiredPurposes \subseteq Purpose /\ RequiredSteps \subseteq Step
  /\ Nobody \notin Purpose \cup Step

VARIABLES
  consent,   \* [Purpose -> Consent], the last record of a purpose
  progress,  \* the onboarding_progress row
  pc,        \* [Request -> Pc]
  about,     \* [Request -> Purpose, Step or Nobody], what a request is about
  read,      \* [Request -> Progress], the row as a request read it
  saved,     \* history: steps that were answered as saved
  mixed      \* history: a step was saved while another request was under way

row == <<consent, progress>>
local == <<pc, about, read>>
vars == <<row, local, saved, mixed>>

-------------------------------------------------------------------------------
Consent == {"none", "granted", "withdrawn"}
Progress == [status : {"none", "in_progress", "completed"}, done : SUBSET Step]
Pc == {"idle", "withdraw", "save", "steps", "consents", "complete"}

NoProgress == [status |-> "none", done |-> {}]

TypeOK ==
  /\ consent \in [Purpose -> Consent] /\ progress \in Progress
  /\ pc \in [Request -> Pc]
  /\ about \in [Request -> Purpose \cup Step \cup {Nobody}]
  /\ read \in [Request -> Progress]
  /\ saved \in SUBSET Step /\ mixed \in BOOLEAN

Init ==
  /\ consent = [p \in Purpose |-> "none"] /\ progress = NoProgress
  /\ pc = [r \in Request |-> "idle"]
  /\ about = [r \in Request |-> Nobody] /\ read = [r \in Request |-> NoProgress]
  /\ saved = {} /\ mixed = FALSE

Goto(r, l) == pc' = [pc EXCEPT ![r] = l]

\* A call begins with a read; or it ends there.
Begin(r, x, l) ==
  /\ pc[r] = "idle"
  /\ Goto(r, l)
  /\ about' = [about EXCEPT ![r] = x]
  /\ read' = [read EXCEPT ![r] = progress]

\* The end of a call, answered, refused or failed.
End(r) ==
  /\ Goto(r, "idle")
  /\ about' = [about EXCEPT ![r] = Nobody]
  /\ read' = [read EXCEPT ![r] = NoProgress]

-------------------------------------------------------------------------------
(* Consents.                                                                *)

Grant(p) ==
  /\ consent' = [consent EXCEPT ![p] = "granted"]
  /\ UNCHANGED <<progress, local, saved, mixed>>

\* A purpose that is required may not be withdrawn.
MayWithdraw(p) == consent[p] = "granted" /\ p \notin RequiredPurposes

\* The last record of the purpose is read, and the new one is added later.
BeginWithdraw(r, p) ==
  /\ MayWithdraw(p)
  /\ Begin(r, p, "withdraw")
  /\ UNCHANGED <<row, saved, mixed>>

Withdraw(r) ==
  /\ pc[r] = "withdraw"
  /\ consent' = [consent EXCEPT ![about[r]] = "withdrawn"]
  /\ End(r)
  /\ UNCHANGED <<progress, saved, mixed>>

HasAllRequiredGranted == \A p \in RequiredPurposes : consent[p] = "granted"

-------------------------------------------------------------------------------
(* Onboarding.                                                              *)

\* getOrCreate(): getProgress() and resume() do no more.
GetOrCreate ==
  progress' = IF progress.status = "none"
              THEN [status |-> "in_progress", done |-> {}] ELSE progress

GetProgress ==
  /\ GetOrCreate
  /\ UNCHANGED <<consent, local, saved, mixed>>

BeginSaveStep(r, s) ==
  /\ progress.status # "completed"
  /\ Begin(r, s, "save")
  /\ mixed' = (mixed \/ \E q \in Request : pc[q] # "idle")
  /\ UNCHANGED <<row, saved>>

\* Seeded fault: the step takes the place of the list.
StepsAfterOnly(r) == {about[r]}

StepsAfter(r) == read[r].done \cup {about[r]}

\* The list of steps is replaced, the status is left as it is.
SaveStep(r) ==
  /\ pc[r] = "save"
  /\ progress' = [status |-> IF progress.status = "none" THEN "in_progress"
                             ELSE progress.status,
                  done |-> StepsAfter(r)]
  /\ saved' = saved \cup {about[r]}
  /\ End(r)
  /\ UNCHANGED <<consent, mixed>>

\* complete(): the row is read, or made.
BeginComplete(r) ==
  /\ progress.status # "completed"
  /\ GetOrCreate
  /\ pc[r] = "idle"
  /\ mixed' = (mixed \/ \E q \in Request : pc[q] = "save")
  /\ IF RequiredSteps \subseteq progress.done
     THEN Goto(r, "consents") /\ read' = [read EXCEPT ![r] = progress]
     ELSE UNCHANGED <<pc, read>>
  /\ UNCHANGED <<consent, about, saved>>

CheckConsents(r) ==
  /\ pc[r] = "consents"
  /\ IF HasAllRequiredGranted
     THEN Goto(r, "complete") /\ UNCHANGED <<about, read>>
     ELSE End(r)
  /\ UNCHANGED <<row, saved, mixed>>

Complete(r) ==
  /\ pc[r] = "complete"
  /\ progress' = [progress EXCEPT !.status = "completed"]
  /\ End(r)
  /\ UNCHANGED <<consent, saved, mixed>>

\* A statement fails, or the process dies.
Fail(r) ==
  /\ pc[r] # "idle"
  /\ End(r)
  /\ UNCHANGED <<row, saved, mixed>>

Next ==
  \/ \E p \in Purpose : Grant(p)
  \/ GetProgress
  \/ \E r \in Request :
       \/ \E p \in Purpose : BeginWithdraw(r, p)
       \/ \E s \in Step : BeginSaveStep(r, s)
       \/ Withdraw(r) \/ SaveStep(r)
       \/ BeginComplete(r) \/ CheckConsents(r) \/ Complete(r) \/ Fail(r)

Spec == Init /\ [][Next]_vars

-------------------------------------------------------------------------------
(* Properties.                                                              *)

\* Whatever overlaps, an onboarding that is completed has the required
\* consents, then and ever after, although they were looked at before
\* (complete, withdraw).
CompletedWithConsent ==
  progress.status = "completed" => HasAllRequiredGranted

\* No step that was answered as saved is missing, and no onboarding is
\* completed without the required steps, unless a step was saved while another
\* request was under way (saveStep, complete).
StepsKept ==
  ~mixed =>
    /\ saved \subseteq progress.done
    /\ progress.status = "completed" => RequiredSteps \subseteq progress.done

\* Neither a consent nor a step gets lost.
NothingMissing == CompletedWithConsent /\ StepsKept
===============================================================================
