------------------------------- MODULE Records -------------------------------
(***************************************************************************)
(* The components that share nothing but the user: Avatars, Onboarding,    *)
(* SelfCustodyExport, UserAccount, LearnerProfile, Preferences, AuditTrail *)
(* and Redaction, with their variables side by side, for the run that      *)
(* checks them and the module that proves about them.                      *)
(***************************************************************************)
EXTENDS Integers

CONSTANTS
  Avatar, NoAvatar, Purpose, RequiredPurposes, Step, RequiredSteps, Nobody,
  Token, NoToken, Request, MaxCrashes, MaxFaults,
  User, Password, Address, NoUser, NoPassword, NoAddress, Caller,
  MaxConsents, Field, Setting, Default, Unset, Update,
  AuditedCall, Actor, Retention, MaxTime,
  Node, Root, Depths, MaxArrayLength, MaxKeys, MaxEntries

VARIABLES
  avatar, objects, bad, profile, avatarPc, cur, listed, avatarMixed, crashes, halved,
  consent, progress, stepPc, about, read, saved, stepMixed,
  custody, key, token, live, exportPc, held, secret, delivered, broken, faults,
  user, session, refresh, callerPc, arguments, found, audited, late, undone,
  spared,
  status, consents, learner, owner, viewPc, viewer, todo, seen, closed,
  row, log, updatePc, data, before, after, updateMixed,
  now, trail, changed, auditPc, spec, cutoff, stamp,
  metadata, maxDepth, stored, form

A == INSTANCE Avatars WITH pc <- avatarPc, mixed <- avatarMixed
O == INSTANCE Onboarding WITH pc <- stepPc, mixed <- stepMixed
X == INSTANCE SelfCustodyExport WITH pc <- exportPc
U == INSTANCE UserAccount WITH
       Request <- Caller, token <- refresh, pc <- callerPc, call <- arguments,
       trail <- audited
L == INSTANCE LearnerProfile WITH profile <- learner, pc <- viewPc
P == INSTANCE Preferences WITH
       Request <- Update, Value <- Setting, pc <- updatePc, mixed <- updateMixed
T == INSTANCE AuditTrail WITH Call <- AuditedCall, pc <- auditPc
R == INSTANCE Redaction

ASSUME RecordsAssumption ==
  /\ A!AvatarAssumption /\ O!OnboardingAssumption /\ X!ExportAssumption
  /\ U!UserAccountAssumption /\ L!LearnerProfileAssumption
  /\ P!PreferencesAssumption /\ T!AuditTrailAssumption
  /\ R!RedactionAssumption

-------------------------------------------------------------------------------
\* The properties of the components, stated and explained in their modules.

\* One avatar is ACTIVE at most and its objects are there (avatar.service.ts).
AvatarServed == A!Served

\* An onboarding misses no consent and no step (onboarding.service.ts).
NothingMissing == O!NothingMissing

\* The secret of a wallet is handed out once (wallet-self-custody-export.service.ts).
DeliveredOnce == X!DeliveredOnce

\* The secret of a wallet is not lost (wallet-self-custody-export.service.ts).
SecretNotLost == X!SecretNotLost

\* No session outlives the password it was opened with, but for what overtook
\* the change; and the tokens that outlive their session are those that a reset, a
\* revocation or an overtaken refresh leaves (user-account.service.ts,
\* refresh-token.service.ts, auth.controller.ts).
SignedOut == U!SignedOut

\* A view shows nothing past a gate that stays closed (profile.service.ts).
ClosedGatesHold == L!ClosedGatesHold

\* The log of a preference is its history (preference.service.ts).
LogIsHistory == P!LogIsHistory

\* A change is in the trail until its retention is over (audited-mutation.ts).
ChangesOnRecord == T!ChangesOnRecord

\* Nothing that is denied is stored, and nothing is replaced or cut off
\* unreported (redaction.ts).
NothingDenied == R!NothingDenied
===============================================================================
