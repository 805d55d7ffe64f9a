------------------------------- MODULE Avatars -------------------------------
(***************************************************************************)
(* The avatars of one learner: services/avatar.service.ts, with the        *)
(* objects it keeps in a storage provider (services/storage/               *)
(* in-memory-storage.ts).                                                  *)
(*                                                                         *)
(* An upload intent makes a row; the learner uploads the original; finalize *)
(* checks it, writes the variants, makes the row the ACTIVE one and points  *)
(* the profile at it.  Objects, rows and profile are written one after the *)
(* other, and a row is read once and then written by its id.               *)
(***************************************************************************)
EXTENDS Naturals, FiniteSets

CONSTANTS
  Avatar,       \* rows, each made once
  Request,      \* calls of finalize() and deleteAvatar()
  NoAvatar,
  MaxCrashes    \* bound: requests that die between two statements

AvatarAssumption == NoAvatar \notin Avatar /\ MaxCrashes \in Nat

VARIABLES
  avatar,    \* [Avatar -> Row]; by: replacedById
  objects,   \* [Avatar -> SUBSET Label], what the storage holds
  bad,       \* the uploads that do not validate
  profile,   \* the avatar that avatarUrl points at
  pc,        \* [Request -> Pc]
  cur,       \* [Request -> Avatar or NoAvatar], the row that a request read
  listed,    \* [Request -> SUBSET (Avatar \cup Label)], rows and objects it has
             \* still to treat
  mixed,     \* history: requests have overlapped
  crashes,   \* history: requests that died
  halved     \* history: avatars whose deletion did not come to its end

rows == <<avatar, profile>>
local == <<pc, cur, listed>>
history == <<mixed, crashes, halved>>
vars == <<rows, objects, bad, local, history>>

-------------------------------------------------------------------------------
Label == {"original", "thumb", "medium"}
RowStatus == {"none", "PENDING", "ACTIVE", "FAILED", "deleted"}
Row == [status : RowStatus, by : Avatar \cup {NoAvatar}]
Pc == {"idle", "read", "check", "thumb", "medium", "demote", "promote",
       "profile", "retired", "retire", "variants", "objects"}

TypeOK ==
  /\ avatar \in [Avatar -> Row]
  /\ objects \in [Avatar -> SUBSET Label] /\ bad \in SUBSET Avatar
  /\ profile \in Avatar \cup {NoAvatar}
  /\ pc \in [Request -> Pc] /\ cur \in [Request -> Avatar \cup {NoAvatar}]
  /\ listed \in [Request -> SUBSET (Avatar \cup Label)]
  /\ mixed \in BOOLEAN /\ crashes \in Nat /\ halved \in SUBSET Avatar

Init ==
  /\ avatar = [a \in Avatar |-> [status |-> "none", by |-> NoAvatar]]
  /\ objects = [a \in Avatar |-> {}] /\ bad = {} /\ profile = NoAvatar
  /\ pc = [r \in Request |-> "idle"] /\ cur = [r \in Request |-> NoAvatar]
  /\ listed = [r \in Request |-> {}]
  /\ mixed = FALSE /\ crashes = 0 /\ halved = {}

With(s) == { a \in Avatar : avatar[a].status = s }
Exists(a) == avatar[a].status \notin {"none", "deleted"}
Goto(r, l) == pc' = [pc EXCEPT ![r] = l]
Put(a, l) == objects' = [objects EXCEPT ![a] = @ \cup {l}]
Remove(a, S) == objects' = [objects EXCEPT ![a] = @ \ S]
List(r, S) == listed' = [listed EXCEPT ![r] = S]

\* The end of a call, answered or thrown.
End(r) ==
  /\ Goto(r, "idle")
  /\ cur' = [cur EXCEPT ![r] = NoAvatar]
  /\ List(r, {})

\* A call begins on a row.
Begin(r, a, l) ==
  /\ pc[r] = "idle"
  /\ Goto(r, l)
  /\ cur' = [cur EXCEPT ![r] = a]
  /\ mixed' = (mixed \/ \E q \in Request : pc[q] # "idle")
  /\ UNCHANGED <<listed, crashes, halved>>

-------------------------------------------------------------------------------
(* Upload.                                                                  *)

CreateUploadIntent(a) ==
  /\ avatar[a].status = "none"
  /\ avatar' = [avatar EXCEPT ![a].status = "PENDING"]
  /\ UNCHANGED <<objects, bad, profile, local, history>>

\* External: the learner uploads a file, good or not.  Bound: once, before the
\* row is finalized.
Upload(a) ==
  /\ avatar[a] = [status |-> "PENDING", by |-> NoAvatar] /\ objects[a] = {}
  /\ Put(a, "original")
  /\ bad' \in {bad, bad \cup {a}}
  /\ UNCHANGED <<rows, local, history>>

\* validateAvatarBytes(): size, format and declared type, taken together.
Validates(a) == a \notin bad

-------------------------------------------------------------------------------
(* finalize().  A row that was replaced is PENDING again.                   *)

MayFinalize(a) == avatar[a].status = "PENDING"

BeginFinalize(r, a) ==
  /\ MayFinalize(a)
  /\ Begin(r, a, "read")
  /\ UNCHANGED <<rows, objects, bad>>

\* The bytes are read, or the object is missing and finalize() throws.
ReadBytes(r) ==
  /\ pc[r] = "read"
  /\ IF "original" \in objects[cur[r]]
     THEN Goto(r, "check") /\ UNCHANGED <<cur, listed>>
     ELSE End(r)
  /\ UNCHANGED <<rows, objects, bad, history>>

\* The bytes are refused, or are not those of the digest that this call came
\* with: FAILED, whatever the row is by now.
MarkFailed(r) ==
  /\ pc[r] = "check"
  /\ avatar' = [avatar EXCEPT ![cur[r]].status = IF Exists(cur[r]) THEN "FAILED" ELSE @]
  /\ End(r)
  /\ UNCHANGED <<objects, bad, profile, history>>

\* The bytes are good; the original is written again, then the variants.
WriteOriginal(r) ==
  /\ pc[r] = "check"
  /\ Validates(cur[r])
  /\ Put(cur[r], "original")
  /\ Goto(r, "thumb")
  /\ UNCHANGED <<rows, bad, cur, listed, history>>

\* Seeded fault: the first of the variants is taken for the last.
WriteVariantOnce(r) ==
  /\ pc[r] \in {"thumb", "medium"}
  /\ Put(cur[r], pc[r])
  /\ Goto(r, "demote")
  /\ UNCHANGED <<rows, bad, cur, listed, history>>

WriteVariant(r) ==
  /\ pc[r] \in {"thumb", "medium"}
  /\ Put(cur[r], pc[r])
  /\ Goto(r, IF pc[r] = "thumb" THEN "medium" ELSE "demote")
  /\ UNCHANGED <<rows, bad, cur, listed, history>>

\* The transaction.  Its first statement finds the ACTIVE rows.
FindActive(r) ==
  /\ pc[r] = "demote"
  /\ List(r, With("ACTIVE"))
  /\ Goto(r, "promote")
  /\ UNCHANGED <<rows, objects, bad, cur, history>>

\* Those that are ACTIVE still go back to PENDING, with the row that replaces them.
Demote(r) ==
  [a \in Avatar |-> IF a \in listed[r] /\ avatar[a].status = "ACTIVE"
                    THEN [status |-> "PENDING", by |-> cur[r]] ELSE avatar[a]]

\* Its commit, or its failure: the row is gone.
Promote(r) ==
  /\ pc[r] = "promote"
  /\ IF Exists(cur[r])
     THEN /\ avatar' = [Demote(r) EXCEPT ![cur[r]].status = "ACTIVE"]
          /\ Goto(r, "profile") /\ List(r, {}) /\ UNCHANGED cur
     ELSE End(r) /\ UNCHANGED avatar
  /\ UNCHANGED <<objects, bad, profile, history>>

UpdateProfile(r) ==
  /\ pc[r] = "profile"
  /\ profile' = cur[r]
  /\ Goto(r, "retired")
  /\ UNCHANGED <<avatar, objects, bad, cur, listed, history>>

Retired(r) == { a \in With("PENDING") : avatar[a].by = cur[r] }

FindRetired(r) ==
  /\ pc[r] = "retired"
  /\ List(r, Retired(r))
  /\ Goto(r, "retire")
  /\ UNCHANGED <<rows, objects, bad, cur, history>>

\* Only the original of a replaced avatar is deleted.
DeleteRetired(r) ==
  /\ pc[r] = "retire"
  /\ \E a \in listed[r] : Remove(a, {"original"}) /\ List(r, listed[r] \ {a})
  /\ UNCHANGED <<rows, bad, pc, cur, history>>

EndFinalize(r) ==
  /\ pc[r] = "retire" /\ listed[r] = {}
  /\ End(r)
  /\ UNCHANGED <<rows, objects, bad, history>>

-------------------------------------------------------------------------------
(* deleteAvatar(): the objects first, then the row and the profile.         *)

BeginDelete(r) ==
  /\ \E a \in With("ACTIVE") : Begin(r, a, "variants")
  /\ UNCHANGED <<rows, objects, bad>>

FindVariants(r) ==
  /\ pc[r] = "variants"
  /\ List(r, Label)
  /\ Goto(r, "objects")
  /\ UNCHANGED <<rows, objects, bad, cur, history>>

DeleteObject(r) ==
  /\ pc[r] = "objects"
  /\ \E l \in listed[r] : Remove(cur[r], {l}) /\ List(r, listed[r] \ {l})
  /\ halved' = halved \cup {cur[r]}
  /\ UNCHANGED <<rows, bad, pc, cur, mixed, crashes>>

\* Rows that it replaced lose the reference.  A row that is gone already makes
\* the transaction fail.
DeleteRow(r) ==
  /\ pc[r] = "objects" /\ listed[r] = {}
  /\ IF Exists(cur[r])
     THEN /\ avatar' = [a \in Avatar |->
               IF a = cur[r] THEN [status |-> "deleted", by |-> NoAvatar]
               ELSE IF avatar[a].by = cur[r] THEN [avatar[a] EXCEPT !.by = NoAvatar]
               ELSE avatar[a]]
          /\ profile' = NoAvatar
     ELSE UNCHANGED rows
  /\ halved' = halved \ {cur[r]}
  /\ End(r)
  /\ UNCHANGED <<objects, bad, mixed, crashes>>

-------------------------------------------------------------------------------
\* A storage or database call fails, or the process dies: what was done stays.
Crash(r) ==
  /\ crashes < MaxCrashes /\ pc[r] # "idle"
  /\ crashes' = crashes + 1
  /\ End(r)
  /\ UNCHANGED <<rows, objects, bad, mixed, halved>>

Next ==
  \/ \E a \in Avatar : CreateUploadIntent(a) \/ Upload(a)
  \/ \E r \in Request :
       \/ \E a \in Avatar : BeginFinalize(r, a)
       \/ ReadBytes(r) \/ MarkFailed(r) \/ WriteOriginal(r) \/ WriteVariant(r)
       \/ FindActive(r) \/ Promote(r) \/ UpdateProfile(r)
       \/ FindRetired(r) \/ DeleteRetired(r) \/ EndFinalize(r)
       \/ BeginDelete(r) \/ FindVariants(r) \/ DeleteObject(r) \/ DeleteRow(r)
       \/ Crash(r)

Spec == Init /\ [][Next]_vars

-------------------------------------------------------------------------------
(* Properties.                                                              *)

\* While requests do not overlap, whatever dies: one avatar is ACTIVE at most,
\* and unless its deletion stopped half-way, its original and its variants
\* are there to be served, replaced avatars and their clean-up notwithstanding
\* (finalize, deleteAvatar).
Served ==
  ~mixed =>
    /\ Cardinality(With("ACTIVE")) <= 1
    /\ \A a \in With("ACTIVE") \ halved : objects[a] = Label
===============================================================================
