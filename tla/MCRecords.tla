------------------------------ MODULE MCRecords ------------------------------
(***************************************************************************)
(* The components of Records, each checked on its own from the initial     *)
(* states that pick it.                                                    *)
(***************************************************************************)
EXTENDS Integers, Records

CONSTANT First  \* the password that the accounts begin with

VARIABLE part   \* the component that is checked

\* Nothing tells the users apart, nor the callers: of three callers two have the
\* same user, and one of the two begins first.
InOrder ==
  /\ callerPc[2] # "idle" => callerPc[1] # "idle"
  /\ \A r \in {1, 2} :
       arguments[r].user \in {NoUser, CHOOSE u \in User : TRUE}

ofAvatars == <<avatar, objects, bad, profile, avatarPc, cur, listed, avatarMixed,
               crashes, halved>>
ofOnboarding == <<consent, progress, stepPc, about, read, saved, stepMixed>>
ofExport == <<custody, key, token, live, exportPc, held, secret, delivered, broken,
              faults>>
ofUsers == <<user, session, refresh, callerPc, arguments, found, audited, late,
             undone, spared>>
ofProfile == <<status, consents, learner, owner, viewPc, viewer, todo, seen, closed>>
ofPreferences == <<row, log, updatePc, data, before, after, updateMixed>>
ofTrail == <<now, trail, changed, auditPc, spec, cutoff, stamp>>
ofRedaction == <<metadata, maxDepth, stored, form>>

\* The metadata of the other parts: something plain.
NoMetadata ==
  /\ metadata = [n \in Node |-> [kind |-> "object", entries |-> <<>>]]
  /\ maxDepth = 0 /\ stored = R!NotYet /\ form = "none"

Init ==
  /\ A!Init /\ O!Init /\ X!Init /\ U!Init /\ L!Init /\ P!Init /\ T!Init
  /\ \/ part = "redaction" /\ R!Init
     \/ /\ part \in {"avatars", "onboarding", "export", "users", "profile",
                     "preferences", "trail"}
        /\ NoMetadata
  /\ \A u, v \in User :
       /\ user[u].password = First /\ user[u].weak = user[v].weak
       /\ user[u].weak => part = "users"

Next ==
  \/ /\ part = "avatars" /\ A!Next
     /\ UNCHANGED <<part, ofOnboarding, ofExport, ofUsers, ofProfile, ofPreferences,
                    ofTrail, ofRedaction>>
  \/ /\ part = "onboarding" /\ O!Next
     /\ UNCHANGED <<part, ofAvatars, ofExport, ofUsers, ofProfile, ofPreferences,
                    ofTrail, ofRedaction>>
  \/ /\ part = "export" /\ X!Next
     /\ UNCHANGED <<part, ofAvatars, ofOnboarding, ofUsers, ofProfile, ofPreferences,
                    ofTrail, ofRedaction>>
  \/ /\ part = "users" /\ U!Next /\ InOrder'
     /\ UNCHANGED <<part, ofAvatars, ofOnboarding, ofExport, ofProfile, ofPreferences,
                    ofTrail, ofRedaction>>
  \/ /\ part = "profile" /\ L!Next
     /\ UNCHANGED <<part, ofAvatars, ofOnboarding, ofExport, ofUsers, ofPreferences,
                    ofTrail, ofRedaction>>
  \/ /\ part = "preferences" /\ P!Next
     /\ UNCHANGED <<part, ofAvatars, ofOnboarding, ofExport, ofUsers, ofProfile,
                    ofTrail, ofRedaction>>
  \/ /\ part = "trail" /\ T!Next
     /\ UNCHANGED <<part, ofAvatars, ofOnboarding, ofExport, ofUsers, ofProfile,
                    ofPreferences, ofRedaction>>
  \/ /\ part = "redaction" /\ R!Next
     /\ UNCHANGED <<part, ofAvatars, ofOnboarding, ofExport, ofUsers, ofProfile,
                    ofPreferences, ofTrail>>

Spec ==
  /\ Init
  /\ [][Next]_<<part, ofAvatars, ofOnboarding, ofExport, ofUsers, ofProfile,
                ofPreferences, ofTrail, ofRedaction>>
===============================================================================
