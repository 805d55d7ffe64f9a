---------------------------- MODULE LearnerProfile ----------------------------
(***************************************************************************)
(* The profile of one learner and who gets to see it:                      *)
(* services/profile.service.ts with services/profile-serializer.ts, behind *)
(* controllers/profile.controller.ts and controllers/user.controller.ts,   *)
(* and the default exclusion of archived rows of audit/archive.ts.         *)
(*                                                                         *)
(* A view for somebody else reads the profile, the account and the         *)
(* consents at once, in any order, while the owner, the lifecycle of the   *)
(* account and the archive go on; it answers from what it read.  Views     *)
(* write nothing, so one of them stands for all.                           *)
(***************************************************************************)
EXTENDS Integers, Sequences, SequencesExt

CONSTANT MaxConsents   \* bound: data_sharing records of the learner

LearnerProfileAssumption == MaxConsents \in Nat

VARIABLES
  status,    \* of the account
  consents,  \* the data_sharing consent_records, oldest first
  profile,   \* the learner_profiles row
  owner,     \* a call of the owner: what it has done
  pc,        \* the view: where it is, and its answer
  viewer,    \* for whom it is
  todo,      \* its reads that are still to come
  seen,      \* what the others returned
  closed     \* history: gates that have been closed since the view began

rows == <<status, consents, profile>>
view == <<pc, viewer, todo, seen, closed>>
vars == <<rows, owner, view>>

-------------------------------------------------------------------------------
Status == {"ACTIVE", "DEACTIVATED", "DELETED"}
Visibility == {"private", "employer", "public"}
VisibilityRank == [private |-> 0, employer |-> 1, public |-> 2]
Profile == [there : BOOLEAN, visibility : Visibility, archived : BOOLEAN]
Read == {"profile", "account", "consents"}
Seen ==
  [profile : Visibility \cup {"none"}, account : Status \cup {"none"},
   consents : {"none", "granted", "withdrawn"}]
Gate == {"there", "visibility", "status", "consent"}

NoProfile == [there |-> FALSE, visibility |-> "private", archived |-> FALSE]
Nothing == [profile |-> "none", account |-> "none", consents |-> "none"]

TypeOK ==
  /\ status \in Status
  /\ consents \in Seq({"granted", "withdrawn"})
  /\ profile \in Profile
  /\ owner \in {"idle", "written", "updated", "checked"}
  /\ pc \in {"idle", "reading", "missing", "stub", "shown"}
  /\ viewer \in {"employer", "public"}
  /\ todo \in SUBSET Read
  /\ seen \in Seen
  /\ closed \in SUBSET Gate

Init ==
  /\ status = "ACTIVE" /\ consents = <<>> /\ profile = NoProfile
  /\ owner = "idle"
  /\ pc = "idle" /\ viewer = "public" /\ todo = {} /\ seen = Nothing
  /\ closed = {}

\* Seeded fault: the oldest record counts.
Oldest == IF consents = <<>> THEN "none" ELSE Head(consents)

\* distinct by purpose, newest first: the last record counts.
Latest == IF consents = <<>> THEN "none" ELSE Last(consents)

-------------------------------------------------------------------------------
(* The gates, as they are now; what a view that is under way found closed   *)
(* when it began stays in closed as long as it is not opened.               *)

Shut ==
  (IF profile.there /\ ~profile.archived THEN {} ELSE {"there"})
  \cup (IF VisibilityRank[profile.visibility] >= VisibilityRank[viewer]
        THEN {} ELSE {"visibility"})
  \cup (IF status = "ACTIVE" THEN {} ELSE {"status"})
  \cup (IF consents # <<>> /\ Last(consents) = "withdrawn"
        THEN {"consent"} ELSE {})

Watched ==
  /\ UNCHANGED <<pc, viewer, todo, seen>>
  /\ closed' = IF pc = "reading" THEN closed \cap Shut' ELSE closed

-------------------------------------------------------------------------------
(* The owner and the account.                                               *)

\* An upsert that changes nothing: the default row, when there is none.
Ensured == IF profile.there THEN profile ELSE [NoProfile EXCEPT !.there = TRUE]

\* updateProfileAudited(): no look at the account, an archived row stays so.
UpdateProfile(v) ==
  /\ owner = "idle"
  /\ profile' = [Ensured EXCEPT !.visibility = v]
  /\ UNCHANGED <<status, consents>>
  /\ Watched

\* PATCH /users/me answers with the account, PATCH /users/me/profile without.
PatchUser(v) == UpdateProfile(v) /\ owner' = "updated"
UpdateMyProfile(v) == UpdateProfile(v) /\ owner' = "written"

\* getOwnerView().
GetOrCreateProfile ==
  /\ profile' = Ensured
  /\ UNCHANGED <<status, consents>>
  /\ Watched

\* On its own or after the update; getPrivateView() does the same.
GetMyProfile ==
  /\ owner \in {"idle", "written"}
  /\ owner' = "idle"
  /\ GetOrCreateProfile

\* getOwnerAccountProfile(): the account first.
CheckAccount ==
  /\ owner' = IF status = "DELETED" THEN "idle" ELSE "checked"
  /\ UNCHANGED <<rows, view>>

\* Without an account the answer is 404, also after an update that was done.
GetCurrentUser == owner \in {"idle", "updated"} /\ CheckAccount

GetOwnerAccountProfile ==
  /\ owner = "checked"
  /\ owner' = "idle"
  /\ GetOrCreateProfile

\* The lifecycle of the account; the profile of a tombstone is left as it is.
ChangeStatus(s) ==
  /\ status \notin {s, "DELETED"}
  /\ status' = s
  /\ UNCHANGED <<consents, profile, owner>>
  /\ Watched

Grant ==
  /\ Len(consents) < MaxConsents
  /\ consents' = Append(consents, "granted")
  /\ UNCHANGED <<status, profile, owner>>
  /\ Watched

Withdraw ==
  /\ Len(consents) < MaxConsents
  /\ Latest = "granted"
  /\ consents' = Append(consents, "withdrawn")
  /\ UNCHANGED <<status, profile, owner>>
  /\ Watched

\* auditedArchive() and auditedRestore() with the patches of the archive: both
\* write through an update, which sees archived rows.
Archive ==
  /\ profile.there
  /\ profile' = [profile EXCEPT !.archived = TRUE]
  /\ UNCHANGED <<status, consents, owner>>
  /\ Watched

Restore ==
  /\ profile.there
  /\ profile' = [profile EXCEPT !.archived = FALSE]
  /\ UNCHANGED <<status, consents, owner>>
  /\ Watched

-------------------------------------------------------------------------------
(* A view for somebody else.                                                *)

StartView(w) ==
  /\ pc # "reading"
  /\ pc' = "reading" /\ viewer' = w /\ todo' = Read /\ seen' = Nothing
  /\ UNCHANGED <<rows, owner>>
  /\ closed' = Shut'

\* Anybody who is signed in gets the public view of an account.
GetUserById == StartView("public")

\* With an employer or an anonymous caller; the owner gets the private view.
GetProfileById(w) == StartView(w)

\* findFirst(): the extension adds archivedAt: null.
FoundFirst ==
  IF profile.there /\ ~profile.archived THEN profile.visibility ELSE "none"

Returns(x) ==
  CASE x = "profile" -> FoundFirst
    [] x = "account" -> status
    [] x = "consents" -> Latest

ReadOne(x) ==
  /\ pc = "reading" /\ x \in todo
  /\ seen' = [seen EXCEPT ![x] = Returns(x)]
  /\ todo' = todo \ {x}
  /\ UNCHANGED <<rows, owner, pc, viewer, closed>>

IsDisclosureAllowed == seen.account = "ACTIVE" /\ seen.consents # "withdrawn"

\* toEmployerProfile(), toPublicProfile().
Visible == VisibilityRank[seen.profile] >= VisibilityRank[viewer]

\* Refusals look alike, but for a profile that is not there.
Answer ==
  /\ pc = "reading" /\ todo = {}
  /\ pc' = IF seen.profile = "none" THEN "missing"
           ELSE IF IsDisclosureAllowed /\ Visible THEN "shown" ELSE "stub"
  /\ UNCHANGED <<rows, owner, viewer, todo, seen, closed>>

Next ==
  \/ \E v \in Visibility : PatchUser(v) \/ UpdateMyProfile(v)
  \/ GetMyProfile \/ GetCurrentUser \/ GetOwnerAccountProfile
  \/ \E s \in Status : ChangeStatus(s)
  \/ Grant \/ Withdraw \/ Archive \/ Restore
  \/ GetUserById \/ \E w \in {"employer", "public"} : GetProfileById(w)
  \/ \E x \in Read : ReadOne(x)
  \/ Answer

Spec == Init /\ [][Next]_vars

-------------------------------------------------------------------------------
(* Properties.                                                              *)

\* Whatever changes while a view reads, in whatever order, it shows nothing if
\* one of the gates was closed from its beginning to its end: a visibility that
\* is too narrow, an account that is not active, a withdrawn consent, an
\* archived row (disclosureContext, isDisclosureAllowed,
\* excludeArchivedFromReads).
ClosedGatesHold == pc = "shown" => closed = {}
===============================================================================
