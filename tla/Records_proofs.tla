---------------------------- MODULE Records_proofs ----------------------------
(***************************************************************************)
(* The components of Records, each for any number of requests and any      *)
(* bounds.  Each has an inductive invariant of its own; what it says       *)
(* beyond the types and the property is said where it begins.              *)
(***************************************************************************)
EXTENDS Records, Sequences, FiniteSetTheorems, SequenceTheorems,
        WellFoundedInduction, TLAPS

-------------------------------------------------------------------------------
(***************************************************************************)
(* The avatars.  Served rests on CountsOn (what a request that is alone may *)
(* count on) and on Alone; the rest of the invariant are the conjuncts of  *)
(* Served, for any two rows instead of a cardinality.                      *)
(***************************************************************************)
Finalizing == {"read", "check", "thumb", "medium", "demote", "promote"}

(* What a request that is alone may count on: the row that it finalizes is  *)
(* PENDING, what it has written is there, and the rows that it found are    *)
(* what they were.                                                          *)
CountsOn(r) ==
  /\ avatarPc[r] # "idle" => cur[r] \in Avatar
  /\ ~avatarMixed =>
       /\ avatarPc[r] \in Finalizing => avatar[cur[r]].status = "PENDING"
       /\ avatarPc[r] \in {"thumb", "medium", "demote", "promote"} =>
            "original" \in objects[cur[r]]
       /\ avatarPc[r] \in {"medium", "demote", "promote"} => "thumb" \in objects[cur[r]]
       /\ avatarPc[r] \in {"demote", "promote"} => "medium" \in objects[cur[r]]
       /\ avatarPc[r] = "promote" => listed[r] = A!With("ACTIVE")
       /\ avatarPc[r] = "retire" =>
            \A a \in listed[r] : a \in Avatar /\ avatar[a].status = "PENDING"

Alone ==
  ~avatarMixed => \A r, q \in Request : avatarPc[r] # "idle" /\ avatarPc[q] # "idle" => r = q

OneActive ==
  ~avatarMixed => \A a, b \in Avatar :
    avatar[a].status = "ACTIVE" /\ avatar[b].status = "ACTIVE" => a = b

Whole ==
  ~avatarMixed => \A a \in Avatar :
    avatar[a].status = "ACTIVE" /\ a \notin halved => objects[a] = A!Label

AvatarInv == A!TypeOK /\ (\A r \in Request : CountsOn(r)) /\ Alone /\ OneActive /\ Whole

\* A row that is given another status.
LEMMA RowWith ==
  ASSUME NEW f \in [Avatar -> A!Row], NEW a, NEW s \in A!RowStatus
  PROVE  LET g == [f EXCEPT ![a].status = s]
         IN  /\ g \in [Avatar -> A!Row]
             /\ a \in Avatar => g[a].status = s /\ g[a].by = f[a].by
             /\ \A b \in Avatar : b # a => g[b] = f[b]
<1> DEFINE x == [f[a] EXCEPT !.status = s]
<1>1. a \in Avatar => x \in A!Row /\ x.status = s /\ x.by = f[a].by
  BY DEF A!Row
<1>2. [f EXCEPT ![a].status = s] = [f EXCEPT ![a] = x]
  OBVIOUS
<1> HIDE DEF x
<1> QED BY <1>1, <1>2

LEMMA AvatarInit == A!Init => AvatarInv
<1> SUFFICES ASSUME A!Init PROVE AvatarInv
  OBVIOUS
<1>1. A!TypeOK
  BY DEF A!Init, A!TypeOK, A!Row, A!RowStatus, A!Pc
<1>2. (\A r \in Request : CountsOn(r)) /\ Alone /\ OneActive /\ Whole
  BY DEF A!Init, CountsOn, Finalizing, Alone, OneActive, Whole
<1> QED BY <1>1, <1>2 DEF AvatarInv

\* A request that stops holds nothing; the others are as they were.
LEMMA Stops ==
  ASSUME A!TypeOK, NEW r \in Request, A!End(r)
  PROVE  /\ avatarPc' \in [Request -> A!Pc] /\ cur' \in [Request -> Avatar \cup {NoAvatar}]
         /\ listed' \in [Request -> SUBSET (Avatar \cup A!Label)]
         /\ avatarPc'[r] = "idle"
         /\ \A q \in Request : q # r =>
              avatarPc'[q] = avatarPc[q] /\ cur'[q] = cur[q] /\ listed'[q] = listed[q]
BY DEF A!TypeOK, A!End, A!Goto, A!List, A!Pc

\* A request that goes on; the others are as they were.
LEMMA GoesOn ==
  ASSUME A!TypeOK, NEW r \in Request, NEW l \in A!Pc, A!Goto(r, l)
  PROVE  /\ avatarPc' \in [Request -> A!Pc] /\ avatarPc'[r] = l
         /\ \A q \in Request : q # r => avatarPc'[q] = avatarPc[q]
BY DEF A!TypeOK, A!Goto

LEMMA Finds ==
  ASSUME A!TypeOK, NEW r \in Request, NEW S \in SUBSET (Avatar \cup A!Label), A!List(r, S)
  PROVE  /\ listed' \in [Request -> SUBSET (Avatar \cup A!Label)] /\ listed'[r] = S
         /\ \A q \in Request : q # r => listed'[q] = listed[q]
BY DEF A!TypeOK, A!List

(* What is left to show of a step of r: that it leaves r a state it may     *)
(* count on, and that the rows and objects of the others are none.          *)
LEMMA AvatarCarried ==
  ASSUME AvatarInv, A!TypeOK', avatarMixed' = avatarMixed, NEW r \in Request,
         avatarPc[r] # "idle", CountsOn(r)',
         \A q \in Request : q # r => avatarPc'[q] = avatarPc[q] /\ cur'[q] = cur[q],
         ~avatarMixed => OneActive' /\ Whole'
  PROVE  AvatarInv'
<1>0. A!TypeOK /\ (\A q \in Request : CountsOn(q)) /\ Alone /\ OneActive /\ Whole
  BY DEF AvatarInv
<1>1. ASSUME NEW q \in Request PROVE CountsOn(q)'
  <2>1. CASE q = r
    BY <2>1
  <2>2. CASE q # r /\ ~avatarMixed
    <3>1. avatarPc'[q] = "idle"
      BY <1>0, <2>2 DEF Alone
    <3> QED BY <3>1 DEF CountsOn, Finalizing
  <2>3. CASE q # r /\ avatarMixed
    BY <1>0, <2>3 DEF CountsOn
  <2> QED BY <2>1, <2>2, <2>3
<1>2. Alone'
  BY <1>0 DEF Alone
<1>3. OneActive' /\ Whole'
  BY <1>0 DEF OneActive, Whole
<1> QED BY <1>1, <1>2, <1>3 DEF AvatarInv

LEMMA AvatarTypeStep ==
  ASSUME A!AvatarAssumption, AvatarInv, [A!Next]_A!vars
  PROVE  A!TypeOK'
<1> USE DEF A!Pc
<1>0. A!TypeOK /\ \A r \in Request : CountsOn(r)
  BY DEF AvatarInv
<1>1. CASE UNCHANGED A!vars
  BY <1>0, <1>1 DEF A!vars, A!rows, A!local, A!history, A!TypeOK
<1>2. ASSUME NEW a \in Avatar, A!CreateUploadIntent(a) PROVE A!TypeOK'
  <2>1. avatar' \in [Avatar -> A!Row]
    <3>1. avatar \in [Avatar -> A!Row] /\ "PENDING" \in A!RowStatus
      BY <1>0 DEF A!TypeOK, A!RowStatus
    <3> QED BY <1>2, <3>1, RowWith DEF A!CreateUploadIntent
  <2> QED BY <1>0, <1>2, <2>1 DEF A!CreateUploadIntent, A!local, A!history, A!TypeOK
<1>3. ASSUME NEW a \in Avatar, A!Upload(a) PROVE A!TypeOK'
  <2>1. objects' \in [Avatar -> SUBSET A!Label]
    BY <1>0, <1>3 DEF A!Upload, A!Put, A!TypeOK, A!Label
  <2> QED BY <1>0, <1>3, <2>1 DEF A!Upload, A!rows, A!local, A!history, A!TypeOK
<1>4. ASSUME NEW r \in Request, NEW a \in Avatar, NEW l \in {"read", "variants"}, A!Begin(r, a, l),
             UNCHANGED <<A!rows, objects, bad>>
      PROVE  A!TypeOK'
  <2>1. avatarPc' \in [Request -> A!Pc]
    BY <1>0, <1>4, GoesOn DEF A!Begin
  <2>2. cur' \in [Request -> Avatar \cup {NoAvatar}]
    BY <1>0, <1>4 DEF A!Begin, A!TypeOK
  <2>3. avatarMixed' \in BOOLEAN
    <3>1. avatarMixed' = (avatarMixed \/ \E q \in Request : avatarPc[q] # "idle")
      BY <1>4 DEF A!Begin
    <3> QED BY <3>1
  <2> QED BY <1>0, <1>4, <2>1, <2>2, <2>3 DEF A!Begin, A!rows, A!TypeOK
<1>5. ASSUME NEW r \in Request, A!End(r), UNCHANGED <<objects, bad, avatarMixed>>,
             crashes' \in Nat, halved' \in SUBSET Avatar, avatar' \in [Avatar -> A!Row],
             profile' \in Avatar \cup {NoAvatar}
      PROVE  A!TypeOK'
  BY <1>0, <1>5, Stops DEF A!TypeOK
<1>6. ASSUME NEW r \in Request, NEW l \in A!Pc, A!Goto(r, l),
             UNCHANGED <<bad, cur, A!history>>, listed' \in [Request -> SUBSET (Avatar \cup A!Label)],
             avatar' \in [Avatar -> A!Row], objects' \in [Avatar -> SUBSET A!Label],
             profile' \in Avatar \cup {NoAvatar}
      PROVE  A!TypeOK'
  BY <1>0, <1>6, GoesOn DEF A!TypeOK, A!history
<1>7. ASSUME NEW r \in Request, A!ReadBytes(r) PROVE A!TypeOK'
  <2>1. CASE A!End(r)
    BY <1>0, <1>5, <1>7, <2>1 DEF A!ReadBytes, A!rows, A!history, A!TypeOK
  <2>2. CASE A!Goto(r, "check") /\ UNCHANGED <<cur, listed>>
    BY <1>0, <1>6, <1>7, <2>2 DEF A!ReadBytes, A!rows, A!history, A!TypeOK
  <2> QED BY <1>7, <2>1, <2>2 DEF A!ReadBytes
<1>8. ASSUME NEW r \in Request, A!MarkFailed(r) PROVE A!TypeOK'
  <2>1. cur[r] \in Avatar
    BY <1>0, <1>8 DEF A!MarkFailed, CountsOn
  <2>2. avatar[cur[r]].status \in A!RowStatus
    BY <1>0, <2>1 DEF A!TypeOK, A!Row
  <2>3. avatar' \in [Avatar -> A!Row]
    <3> DEFINE s == IF A!Exists(cur[r]) THEN "FAILED" ELSE avatar[cur[r]].status
    <3>1. avatar' = [avatar EXCEPT ![cur[r]].status = s]
      BY <1>8 DEF A!MarkFailed
    <3>2. s \in A!RowStatus
      BY <2>2 DEF A!RowStatus
    <3>3. avatar \in [Avatar -> A!Row]
      BY <1>0 DEF A!TypeOK
    <3> HIDE DEF s
    <3> QED BY <3>1, <3>2, <3>3, RowWith
  <2> QED BY <1>0, <1>5, <1>8, <2>3 DEF A!MarkFailed, A!history, A!TypeOK
<1>9. ASSUME NEW r \in Request, A!WriteOriginal(r) \/ A!WriteVariant(r) PROVE A!TypeOK'
  <2>1. objects' \in [Avatar -> SUBSET A!Label]
    BY <1>0, <1>9 DEF A!WriteOriginal, A!WriteVariant, A!Put, A!TypeOK, A!Label
  <2>2. \E l \in A!Pc : A!Goto(r, l)
    BY <1>9 DEF A!WriteOriginal, A!WriteVariant
  <2> QED BY <1>0, <1>6, <1>9, <2>1, <2>2
            DEF A!WriteOriginal, A!WriteVariant, A!rows, A!TypeOK
<1>10. ASSUME NEW r \in Request, NEW S \in SUBSET (Avatar \cup A!Label), NEW l \in A!Pc,
              A!Goto(r, l), A!List(r, S), UNCHANGED <<A!rows, objects, bad, cur, A!history>>
       PROVE  A!TypeOK'
  <2>1. listed' \in [Request -> SUBSET (Avatar \cup A!Label)]
    BY <1>0, <1>10, Finds
  <2> QED BY <1>0, <1>6, <1>10, <2>1 DEF A!rows, A!TypeOK
<1>11. ASSUME NEW r \in Request, A!FindActive(r) \/ A!FindRetired(r) \/ A!FindVariants(r)
       PROVE  A!TypeOK'
  <2>1. A!With("ACTIVE") \in SUBSET (Avatar \cup A!Label) /\ A!Retired(r) \in SUBSET (Avatar \cup A!Label)
    BY DEF A!With, A!Retired
  <2> QED BY <1>10, <1>11, <2>1 DEF A!FindActive, A!FindRetired, A!FindVariants
<1>12. ASSUME NEW r \in Request, A!Promote(r) PROVE A!TypeOK'
  <2>1. CASE ~A!Exists(cur[r])
    BY <1>0, <1>5, <1>12, <2>1 DEF A!Promote, A!history, A!TypeOK
  <2>2. CASE A!Exists(cur[r])
    <3>1. cur[r] \in Avatar
      BY <1>0, <1>12 DEF A!Promote, CountsOn
    <3>2. A!Demote(r) \in [Avatar -> A!Row]
      BY <1>0, <3>1 DEF A!Demote, A!TypeOK, A!Row, A!RowStatus
    <3>3. avatar' \in [Avatar -> A!Row]
      <4>1. avatar' = [A!Demote(r) EXCEPT ![cur[r]].status = "ACTIVE"]
        BY <1>12, <2>2 DEF A!Promote
      <4>2. "ACTIVE" \in A!RowStatus
        BY DEF A!RowStatus
      <4> QED BY <3>2, <4>1, <4>2, RowWith
    <3>4. listed' \in [Request -> SUBSET (Avatar \cup A!Label)]
      BY <1>0, <1>12, <2>2, Finds DEF A!Promote
    <3> QED BY <1>0, <1>6, <1>12, <2>2, <3>3, <3>4 DEF A!Promote, A!TypeOK
  <2> QED BY <2>1, <2>2
<1>13. ASSUME NEW r \in Request, A!UpdateProfile(r) PROVE A!TypeOK'
  <2>1. cur[r] \in Avatar
    BY <1>0, <1>13 DEF A!UpdateProfile, CountsOn
  <2> QED BY <1>0, <1>6, <1>13, <2>1 DEF A!UpdateProfile, A!TypeOK
<1>14. ASSUME NEW r \in Request, A!DeleteRetired(r) \/ A!DeleteObject(r) PROVE A!TypeOK'
  <2>1. cur[r] \in Avatar
    BY <1>0, <1>14 DEF A!DeleteRetired, A!DeleteObject, CountsOn
  <2>2. PICK x \in listed[r] :
          A!List(r, listed[r] \ {x}) /\ \E a, S : objects' = [objects EXCEPT ![a] = @ \ S]
    BY <1>14 DEF A!DeleteRetired, A!DeleteObject, A!Remove
  <2>3. objects' \in [Avatar -> SUBSET A!Label]
    BY <1>0, <2>2 DEF A!TypeOK
  <2>4. listed' \in [Request -> SUBSET (Avatar \cup A!Label)]
    BY <1>0, <2>2, Finds DEF A!TypeOK
  <2> QED BY <1>0, <1>14, <2>1, <2>3, <2>4
            DEF A!DeleteRetired, A!DeleteObject, A!rows, A!history, A!TypeOK
<1>15. ASSUME NEW r \in Request, A!EndFinalize(r) \/ A!Crash(r) PROVE A!TypeOK'
  BY <1>0, <1>5, <1>15 DEF A!EndFinalize, A!Crash, A!rows, A!history, A!TypeOK
<1>16. ASSUME NEW r \in Request, A!DeleteRow(r) PROVE A!TypeOK'
  <2>1. avatar' \in [Avatar -> A!Row]
    <3>1. \A a \in Avatar : [avatar[a] EXCEPT !.by = NoAvatar] \in A!Row
      BY <1>0 DEF A!TypeOK, A!Row
    <3> QED BY <1>0, <1>16, <3>1 DEF A!DeleteRow, A!rows, A!TypeOK, A!Row, A!RowStatus
  <2> QED BY <1>0, <1>5, <1>16, <2>1 DEF A!DeleteRow, A!rows, A!TypeOK
<1>17. ASSUME NEW r \in Request, A!BeginDelete(r) PROVE A!TypeOK'
  BY <1>4, <1>17 DEF A!BeginDelete, A!With
<1>18. ASSUME NEW r \in Request, NEW a \in Avatar, A!BeginFinalize(r, a) PROVE A!TypeOK'
  BY <1>4, <1>18 DEF A!BeginFinalize
<1> QED BY <1>1, <1>2, <1>3, <1>7, <1>8, <1>9, <1>11, <1>12, <1>13, <1>14, <1>15, <1>16,
           <1>17, <1>18 DEF A!Next

LEMMA AvatarStep ==
  ASSUME A!AvatarAssumption, AvatarInv, A!TypeOK', [A!Next]_A!vars
  PROVE  AvatarInv'
<1>0. A!TypeOK /\ (\A q \in Request : CountsOn(q)) /\ Alone /\ OneActive /\ Whole
  BY DEF AvatarInv
<1>1. CASE UNCHANGED A!vars
  <2>1. (\A q \in Request : CountsOn(q)')
    BY <1>0, <1>1 DEF A!vars, A!rows, A!local, A!history, CountsOn, A!With
  <2>2. Alone' /\ OneActive' /\ Whole'
    BY <1>0, <1>1 DEF A!vars, A!rows, A!local, A!history, Alone, OneActive, Whole
  <2> QED BY <2>1, <2>2 DEF AvatarInv
\* A row that was none before is nobody's, and none that is ACTIVE.
<1>2. ASSUME NEW a \in Avatar, A!CreateUploadIntent(a) PROVE AvatarInv'
  <2>1. /\ avatar[a].status = "none" /\ avatar'[a].status = "PENDING"
        /\ \A b \in Avatar : b # a => avatar'[b] = avatar[b]
        /\ UNCHANGED <<objects, avatarPc, cur, listed, avatarMixed, halved>>
    <3>1. avatar \in [Avatar -> A!Row] /\ "PENDING" \in A!RowStatus
      BY <1>0 DEF A!TypeOK, A!RowStatus
    <3> QED BY <1>2, <3>1, RowWith DEF A!CreateUploadIntent, A!local, A!history
  <2>2. A!With("ACTIVE")' = A!With("ACTIVE")
    BY <2>1 DEF A!With
  <2>3. ASSUME NEW q \in Request PROVE CountsOn(q)'
    BY <1>0, <2>1, <2>2 DEF CountsOn, Finalizing
  <2>4. Alone' /\ OneActive' /\ Whole'
    BY <1>0, <2>1 DEF Alone, OneActive, Whole
  <2> QED BY <2>3, <2>4 DEF AvatarInv
\* The learner's upload takes nothing away.
<1>3. ASSUME NEW a \in Avatar, A!Upload(a) PROVE AvatarInv'
  <2>1. /\ \A b \in Avatar : objects[b] \subseteq objects'[b]
        /\ UNCHANGED <<avatar, avatarPc, cur, listed, avatarMixed, halved>>
    BY <1>0, <1>3 DEF A!Upload, A!Put, A!TypeOK, A!rows, A!local, A!history
  <2>2. A!With("ACTIVE")' = A!With("ACTIVE")
    BY <2>1 DEF A!With
  <2>3. ASSUME NEW q \in Request PROVE CountsOn(q)'
    BY <1>0, <2>1, <2>2 DEF CountsOn, Finalizing
  <2>4. Whole'
    <3>1. \A b \in Avatar : objects'[b] \subseteq A!Label
      BY DEF A!TypeOK
    <3> QED BY <1>0, <2>1, <3>1 DEF Whole
  <2>5. Alone' /\ OneActive'
    BY <1>0, <2>1 DEF Alone, OneActive
  <2> QED BY <2>3, <2>4, <2>5 DEF AvatarInv
\* A call that begins alone is the only one.
<1>4. ASSUME NEW r \in Request, NEW a \in Avatar, NEW l \in {"read", "variants"}, A!Begin(r, a, l),
             l = "read" => avatar[a].status = "PENDING", UNCHANGED <<A!rows, objects, bad>>
      PROVE  AvatarInv'
  <2>1. /\ avatarPc'[r] = l /\ cur'[r] = a /\ UNCHANGED <<avatar, objects, listed, halved>>
        /\ \A q \in Request : q # r => avatarPc'[q] = avatarPc[q] /\ cur'[q] = cur[q]
    BY <1>0, <1>4 DEF A!Begin, A!Goto, A!TypeOK, A!rows
  <2>2. avatarMixed \/ (\E q \in Request : avatarPc[q] # "idle") => avatarMixed'
    BY <1>4 DEF A!Begin
  <2>3. A!With("ACTIVE")' = A!With("ACTIVE")
    BY <2>1 DEF A!With
  <2>4. ASSUME NEW q \in Request PROVE CountsOn(q)'
    <3>1. CASE q = r
      BY <1>4, <2>1, <3>1 DEF CountsOn, Finalizing
    <3>2. CASE q # r
      BY <1>0, <2>1, <2>2, <2>3, <3>2 DEF CountsOn, Finalizing
    <3> QED BY <3>1, <3>2
  <2>5. Alone'
    BY <2>1, <2>2 DEF Alone
  <2>6. OneActive' /\ Whole'
    BY <1>0, <2>1, <2>2 DEF OneActive, Whole
  <2> QED BY <2>4, <2>5, <2>6 DEF AvatarInv
<1>5. ASSUME NEW r \in Request, NEW a \in Avatar, A!BeginFinalize(r, a) PROVE AvatarInv'
  BY <1>4, <1>5 DEF A!BeginFinalize, A!MayFinalize
<1>6. ASSUME NEW r \in Request, A!BeginDelete(r) PROVE AvatarInv'
  BY <1>4, <1>6 DEF A!BeginDelete, A!With
\* A call that ends leaves nothing behind.
<1>7. ASSUME NEW r \in Request, A!End(r), avatarPc[r] # "idle", avatarMixed' = avatarMixed,
             ~avatarMixed => OneActive' /\ Whole'
      PROVE  AvatarInv'
  <2>1. /\ avatarPc'[r] = "idle"
        /\ \A q \in Request : q # r => avatarPc'[q] = avatarPc[q] /\ cur'[q] = cur[q]
    BY <1>0, <1>7, Stops
  <2>2. CountsOn(r)'
    BY <2>1 DEF CountsOn, Finalizing
  <2> QED BY <1>7, <2>1, <2>2, AvatarCarried
\* A step that goes on and leaves rows and marks alone.
<1>8. ASSUME NEW r \in Request, NEW l \in A!Pc, A!Goto(r, l), avatarPc[r] # "idle",
             UNCHANGED <<avatar, avatarMixed, halved, cur>>,
             \A b \in Avatar : objects[b] \subseteq objects'[b], CountsOn(r)'
      PROVE  AvatarInv'
  <2>1. \A q \in Request : q # r => avatarPc'[q] = avatarPc[q]
    BY <1>0, <1>8, GoesOn
  <2>2. OneActive' \/ avatarMixed
    BY <1>0, <1>8 DEF OneActive
  <2>3. Whole' \/ avatarMixed
    <3>1. \A b \in Avatar : objects'[b] \subseteq A!Label
      BY DEF A!TypeOK
    <3> QED BY <1>0, <1>8, <3>1 DEF Whole
  <2> QED BY <1>8, <2>1, <2>2, <2>3, AvatarCarried
<1>9. ASSUME NEW r \in Request, A!ReadBytes(r) PROVE AvatarInv'
  <2>0. UNCHANGED <<avatar, objects, avatarMixed, halved>> /\ avatarPc[r] = "read"
    BY <1>9 DEF A!ReadBytes, A!rows, A!history
  <2>1. CASE A!End(r)
    <3>1. avatarMixed \/ (OneActive' /\ Whole')
      BY <1>0, <2>0 DEF OneActive, Whole
    <3> QED BY <1>7, <2>0, <2>1, <3>1
  <2>2. CASE A!Goto(r, "check") /\ UNCHANGED <<cur, listed>>
    <3>1. avatarPc'[r] = "check" /\ "check" \in A!Pc
      BY <1>0, <2>2, GoesOn DEF A!Pc
    <3>2. CountsOn(r)'
      BY <1>0, <2>0, <2>2, <3>1 DEF CountsOn, Finalizing
    <3> QED BY <1>8, <2>0, <2>2, <3>1, <3>2
  <2> QED BY <1>9, <2>1, <2>2 DEF A!ReadBytes
<1>10. ASSUME NEW r \in Request, A!MarkFailed(r) PROVE AvatarInv'
  <2>1. cur[r] \in Avatar /\ avatarPc[r] = "check" /\ UNCHANGED <<objects, avatarMixed, halved>> /\ A!End(r)
    BY <1>0, <1>10 DEF A!MarkFailed, CountsOn, A!history
  <2>2. \A b \in Avatar : avatar'[b].status = "ACTIVE" => avatar[b].status = "ACTIVE"
    <3> DEFINE s == IF A!Exists(cur[r]) THEN "FAILED" ELSE avatar[cur[r]].status
    <3>1. avatar' = [avatar EXCEPT ![cur[r]].status = s]
      BY <1>10 DEF A!MarkFailed
    <3>2. s \in A!RowStatus /\ (s = "ACTIVE" => avatar[cur[r]].status = "ACTIVE")
      BY <1>0, <2>1 DEF A!TypeOK, A!Row, A!RowStatus
    <3>3. avatar \in [Avatar -> A!Row]
      BY <1>0 DEF A!TypeOK
    <3> HIDE DEF s
    <3>4. /\ avatar'[cur[r]].status = s
          /\ \A b \in Avatar : b # cur[r] => avatar'[b] = avatar[b]
      BY <2>1, <3>1, <3>2, <3>3, RowWith
    <3> QED BY <2>1, <3>2, <3>4
  <2>3. avatarMixed \/ (OneActive' /\ Whole')
    BY <1>0, <2>1, <2>2 DEF OneActive, Whole
  <2> QED BY <1>7, <2>1, <2>3
<1>11. ASSUME NEW r \in Request, A!WriteOriginal(r) \/ A!WriteVariant(r)
       PROVE  AvatarInv'
  <2>1. /\ cur[r] \in Avatar /\ avatarPc[r] \in {"check", "thumb", "medium"}
        /\ UNCHANGED <<avatar, avatarMixed, halved, cur, listed>>
    BY <1>0, <1>11 DEF A!WriteOriginal, A!WriteVariant, CountsOn, A!history, A!rows
  <2>2. \/ /\ avatarPc[r] = "check" /\ A!Goto(r, "thumb") /\ A!Put(cur[r], "original")
        \/ /\ avatarPc[r] = "thumb" /\ A!Goto(r, "medium") /\ A!Put(cur[r], "thumb")
        \/ /\ avatarPc[r] = "medium" /\ A!Goto(r, "demote") /\ A!Put(cur[r], "medium")
    BY <1>11 DEF A!WriteOriginal, A!WriteVariant
  <2>3. \A b \in Avatar : objects[b] \subseteq objects'[b]
    BY <1>0, <2>2 DEF A!Put, A!TypeOK
  <2>4. \/ /\ avatarPc[r] = "check" /\ avatarPc'[r] = "thumb" /\ "original" \in objects'[cur[r]]
        \/ /\ avatarPc[r] = "thumb" /\ avatarPc'[r] = "medium" /\ "thumb" \in objects'[cur[r]]
        \/ /\ avatarPc[r] = "medium" /\ avatarPc'[r] = "demote" /\ "medium" \in objects'[cur[r]]
    BY <1>0, <2>1, <2>2 DEF A!Put, A!Goto, A!TypeOK
  <2>5. CountsOn(r)'
    BY <1>0, <2>1, <2>3, <2>4 DEF CountsOn, Finalizing
  <2>6. \E l \in A!Pc : A!Goto(r, l)
    BY <2>2 DEF A!Pc
  <2> QED BY <1>8, <2>1, <2>3, <2>5, <2>6
<1>12. ASSUME NEW r \in Request, A!FindActive(r) \/ A!FindRetired(r) \/ A!FindVariants(r)
       PROVE  AvatarInv'
  <2>1. /\ avatarPc[r] \in {"demote", "retired", "variants"}
        /\ UNCHANGED <<avatar, objects, avatarMixed, halved, cur>>
    BY <1>12 DEF A!FindActive, A!FindRetired, A!FindVariants, A!rows, A!history
  <2>2. \/ avatarPc[r] = "demote" /\ A!List(r, A!With("ACTIVE")) /\ A!Goto(r, "promote")
        \/ avatarPc[r] = "retired" /\ A!List(r, A!Retired(r)) /\ A!Goto(r, "retire")
        \/ avatarPc[r] = "variants" /\ A!Goto(r, "objects")
    BY <1>12 DEF A!FindActive, A!FindRetired, A!FindVariants
  <2>3. \/ avatarPc[r] = "demote" /\ listed'[r] = A!With("ACTIVE") /\ avatarPc'[r] = "promote"
        \/ avatarPc[r] = "retired" /\ listed'[r] = A!Retired(r) /\ avatarPc'[r] = "retire"
        \/ avatarPc[r] = "variants" /\ avatarPc'[r] = "objects"
    BY <1>0, <2>2 DEF A!List, A!Goto, A!TypeOK
  <2>4. A!With("ACTIVE")' = A!With("ACTIVE")
    BY <2>1 DEF A!With
  <2>5. CountsOn(r)'
    BY <1>0, <2>1, <2>3, <2>4 DEF CountsOn, Finalizing, A!Retired, A!With
  <2>6. \E l \in A!Pc : A!Goto(r, l)
    BY <2>2 DEF A!Pc
  <2> QED BY <1>8, <2>1, <2>5, <2>6
\* Alone, the promotion finds ACTIVE what it found before, and leaves one.
<1>13. ASSUME NEW r \in Request, A!Promote(r) PROVE AvatarInv'
  <2>0. /\ cur[r] \in Avatar /\ avatarPc[r] = "promote" /\ UNCHANGED <<objects, avatarMixed, halved>>
    BY <1>0, <1>13 DEF A!Promote, CountsOn, A!history
  <2>1. CASE ~A!Exists(cur[r])
    <3>1. avatar' = avatar /\ A!End(r)
      BY <1>13, <2>1 DEF A!Promote
    <3>2. avatarMixed \/ (OneActive' /\ Whole')
      BY <1>0, <2>0, <3>1 DEF OneActive, Whole
    <3> QED BY <1>7, <2>0, <3>1, <3>2
  <2>2. CASE A!Exists(cur[r])
    <3>1. avatarPc'[r] = "profile" /\ cur' = cur /\ \A q \in Request : q # r => avatarPc'[q] = avatarPc[q]
      BY <1>0, <1>13, <2>2 DEF A!Promote, A!Goto, A!TypeOK
    <3>2. A!Demote(r) \in [Avatar -> A!Row]
      BY <1>0, <2>0 DEF A!Demote, A!TypeOK, A!Row, A!RowStatus
    <3>3. \A b \in Avatar : b # cur[r] => avatar'[b] = A!Demote(r)[b]
      <4>1. avatar' = [A!Demote(r) EXCEPT ![cur[r]].status = "ACTIVE"]
        BY <1>13, <2>2 DEF A!Promote
      <4>2. "ACTIVE" \in A!RowStatus
        BY DEF A!RowStatus
      <4> QED BY <3>2, <4>1, <4>2, RowWith
    <3>4. ~avatarMixed => \A b \in Avatar : b # cur[r] => avatar'[b].status # "ACTIVE"
      BY <1>0, <2>0, <3>3 DEF CountsOn, A!With, A!Demote
    <3>5. ~avatarMixed => objects[cur[r]] = A!Label
      BY <1>0, <2>0 DEF CountsOn, A!Label, A!TypeOK
    <3>6. ~avatarMixed => OneActive' /\ Whole'
      BY <2>0, <3>4, <3>5 DEF OneActive, Whole
    <3>7. CountsOn(r)'
      BY <2>0, <3>1 DEF CountsOn, Finalizing
    <3> QED BY <2>0, <3>1, <3>6, <3>7, AvatarCarried
  <2> QED BY <2>1, <2>2
<1>14. ASSUME NEW r \in Request, A!UpdateProfile(r) PROVE AvatarInv'
  <2>1. /\ avatarPc[r] = "profile" /\ A!Goto(r, "retired") /\ "retired" \in A!Pc
        /\ UNCHANGED <<avatar, objects, avatarMixed, halved, cur>>
    BY <1>14 DEF A!UpdateProfile, A!history, A!Pc
  <2>2. avatarPc'[r] = "retired"
    BY <1>0, <2>1, GoesOn
  <2>3. CountsOn(r)'
    BY <1>0, <2>1, <2>2 DEF CountsOn, Finalizing
  <2> QED BY <1>8, <2>1, <2>3
\* The clean-up takes the original of PENDING rows alone.
<1>15. ASSUME NEW r \in Request, A!DeleteRetired(r) PROVE AvatarInv'
  <2>1. avatarPc[r] = "retire" /\ UNCHANGED <<avatar, avatarPc, cur, avatarMixed, halved>>
    BY <1>15 DEF A!DeleteRetired, A!rows, A!history
  <2>2. PICK a \in listed[r] : A!Remove(a, {"original"}) /\ A!List(r, listed[r] \ {a})
    BY <1>15 DEF A!DeleteRetired
  <2>3. listed'[r] = listed[r] \ {a}
    BY <1>0, <2>2 DEF A!List, A!TypeOK
  <2>4. \A b \in Avatar : b # a => objects'[b] = objects[b]
    BY <1>0, <2>2 DEF A!Remove, A!TypeOK
  <2>5. CountsOn(r)'
    BY <1>0, <2>1, <2>3 DEF CountsOn, Finalizing
  <2>6. ~avatarMixed => avatar[a].status = "PENDING"
    BY <1>0, <2>1, <2>2 DEF CountsOn
  <2>7. ~avatarMixed => OneActive' /\ Whole'
    BY <1>0, <2>1, <2>4, <2>6 DEF OneActive, Whole
  <2> QED BY <2>1, <2>5, <2>7, AvatarCarried
<1>16. ASSUME NEW r \in Request, A!EndFinalize(r) \/ A!Crash(r) PROVE AvatarInv'
  <2>1. avatarPc[r] # "idle" /\ A!End(r) /\ UNCHANGED <<avatar, objects, avatarMixed, halved>>
    BY <1>16 DEF A!EndFinalize, A!Crash, A!rows, A!history
  <2>2. avatarMixed \/ (OneActive' /\ Whole')
    BY <1>0, <2>1 DEF OneActive, Whole
  <2> QED BY <1>7, <2>1, <2>2
\* What a deletion takes is marked until the row is gone.
<1>17. ASSUME NEW r \in Request, A!DeleteObject(r) PROVE AvatarInv'
  <2>1. /\ avatarPc[r] = "objects" /\ UNCHANGED <<avatar, avatarPc, cur, avatarMixed>>
        /\ halved' = halved \cup {cur[r]}
        /\ \A b \in Avatar : b # cur[r] => objects'[b] = objects[b]
    BY <1>0, <1>17 DEF A!DeleteObject, A!rows, A!Remove, A!TypeOK
  <2>2. CountsOn(r)'
    BY <1>0, <2>1 DEF CountsOn, Finalizing
  <2>3. ~avatarMixed => OneActive' /\ Whole'
    BY <1>0, <2>1 DEF OneActive, Whole
  <2> QED BY <2>1, <2>2, <2>3, AvatarCarried
<1>18. ASSUME NEW r \in Request, A!DeleteRow(r) PROVE AvatarInv'
  <2>1. /\ avatarPc[r] = "objects" /\ A!End(r) /\ UNCHANGED <<objects, avatarMixed>> /\ cur[r] \in Avatar
        /\ halved' = halved \ {cur[r]}
    BY <1>0, <1>18 DEF A!DeleteRow, CountsOn
  <2>2. \A b \in Avatar : avatar'[b].status = "ACTIVE" => avatar[b].status = "ACTIVE" /\ b # cur[r]
    <3>1. \A b \in Avatar : avatar[b] \in A!Row /\ [avatar[b] EXCEPT !.by = NoAvatar].status = avatar[b].status
      BY <1>0 DEF A!TypeOK, A!Row
    <3>2. CASE A!Exists(cur[r])
      <4>1. avatar' = [a \in Avatar |->
               IF a = cur[r] THEN [status |-> "deleted", by |-> NoAvatar]
               ELSE IF avatar[a].by = cur[r] THEN [avatar[a] EXCEPT !.by = NoAvatar]
               ELSE avatar[a]]
        BY <1>18, <3>2 DEF A!DeleteRow
      <4>2. avatar'[cur[r]].status = "deleted"
        BY <2>1, <4>1
      <4>3. \A b \in Avatar : b # cur[r] => avatar'[b].status = avatar[b].status
        BY <3>1, <4>1
      <4> QED BY <4>2, <4>3
    <3>3. CASE ~A!Exists(cur[r])
      BY <1>18, <3>3 DEF A!DeleteRow, A!rows, A!Exists
    <3> QED BY <3>2, <3>3
  <2>3. avatarMixed \/ (OneActive' /\ Whole')
    BY <1>0, <2>1, <2>2 DEF OneActive, Whole
  <2> QED BY <1>7, <2>1, <2>3
<1> QED BY <1>1, <1>2, <1>3, <1>5, <1>6, <1>9, <1>10, <1>11, <1>12, <1>13, <1>14,
           <1>15, <1>16,
           <1>17, <1>18 DEF A!Next

\* A set of rows no two of which differ has one row at most.
LEMMA OneAtMost ==
  ASSUME NEW S, \A a, b \in S : a = b
  PROVE  Cardinality(S) <= 1
<1>1. CASE S = {}
  BY <1>1, FS_EmptySet
<1>2. CASE S # {}
  <2>1. PICK a \in S : S = {a}
    BY <1>2
  <2> QED BY <2>1, FS_Singleton
<1> QED BY <1>1, <1>2

(* While requests do not overlap, whatever dies, one avatar is ACTIVE at    *)
(* most, and unless its deletion stopped half-way, its original and its     *)
(* variants are there to be served (finalize, deleteAvatar).                *)
THEOREM ServedAlways == A!Spec => []AvatarServed
<1>1. A!AvatarAssumption
  BY RecordsAssumption
<1>2. AvatarInv /\ [A!Next]_A!vars => AvatarInv'
  BY <1>1, AvatarTypeStep, AvatarStep
<1>3. AvatarInv => AvatarServed
  <2> SUFFICES ASSUME AvatarInv, ~avatarMixed PROVE A!Served
    BY DEF AvatarServed, A!Served
  <2>1. \A a, b \in A!With("ACTIVE") : a = b
    BY DEF AvatarInv, OneActive, A!With
  <2>2. A!Cardinality(A!With("ACTIVE")) <= 1
    <3>1. Cardinality(A!With("ACTIVE")) <= 1
      BY <2>1, OneAtMost
    <3> QED BY <3>1 DEF A!Cardinality, Cardinality
  <2>3. \A a \in A!With("ACTIVE") \ halved : objects[a] = A!Label
    BY DEF AvatarInv, Whole, A!With
  <2> QED BY <2>2, <2>3 DEF A!Served
<1> QED BY AvatarInit, <1>2, <1>3, PTL DEF A!Spec

-------------------------------------------------------------------------------
(***************************************************************************)
(* The onboarding.  NothingMissing rests on StillTrue: what a request has  *)
(* read and goes by is still so when it writes.                            *)
(***************************************************************************)
Advancing == {"save", "consents", "complete"}

(* What a request goes by is still true when it writes: a consent that is   *)
(* required is not taken back, and while a step is saved alone nobody       *)
(* touches the list or is about to complete it.                             *)
StillTrue ==
  /\ progress.status = "none" => progress.done = {}
  /\ \A r \in Request :
       /\ stepPc[r] = "withdraw" => about[r] \notin RequiredPurposes
       /\ stepPc[r] = "complete" => O!HasAllRequiredGranted
  /\ ~stepMixed => \A r \in Request :
       /\ stepPc[r] = "save" =>
            /\ read[r].done = progress.done
            /\ \A q \in Request : stepPc[q] \in Advancing => q = r
       /\ stepPc[r] \in {"consents", "complete"} => RequiredSteps \subseteq progress.done

\* What is about to be written is a step or a purpose.
Meant ==
  \A r \in Request : /\ stepPc[r] = "withdraw" => about[r] \in Purpose
                     /\ stepPc[r] = "save" => about[r] \in Step

OnboardingInv == O!TypeOK /\ Meant /\ StillTrue /\ O!NothingMissing

LEMMA OnboardingInit == O!Init => OnboardingInv
<1> SUFFICES ASSUME O!Init PROVE OnboardingInv
  OBVIOUS
<1>1. O!NoProgress \in O!Progress /\ O!NoProgress.status = "none" /\ O!NoProgress.done = {}
  BY DEF O!NoProgress, O!Progress
<1>2. O!TypeOK
  BY <1>1 DEF O!Init, O!TypeOK, O!Consent, O!Pc
<1>3. Meant /\ StillTrue
  BY <1>1 DEF O!Init, Meant, StillTrue
<1>4. O!NothingMissing
  BY <1>1 DEF O!Init, O!NothingMissing, O!CompletedWithConsent, O!StepsKept
<1> QED BY <1>2, <1>3, <1>4 DEF OnboardingInv

\* The row that a save or a read leaves.
LEMMA Rows ==
  ASSUME O!TypeOK
  PROVE  /\ O!NoProgress \in O!Progress
         /\ O!GetOrCreate => /\ progress' \in O!Progress
                             /\ progress'.done \subseteq progress.done
                             /\ progress.status # "none" => progress' = progress
                             /\ progress'.status # "completed" \/ progress.status = "completed"
                             /\ progress'.status # "none"
BY DEF O!TypeOK, O!Progress, O!NoProgress, O!GetOrCreate

LEMMA OnboardingTypeStep == ASSUME OnboardingInv, [O!Next]_O!vars PROVE O!TypeOK' /\ Meant'
<1> USE DEF O!TypeOK, Meant, O!Pc, O!Consent, O!Goto, O!Begin, O!End, O!row, O!local
<1>0. O!TypeOK /\ Meant /\ O!NoProgress \in O!Progress /\ progress \in O!Progress
  BY Rows DEF OnboardingInv
<1>1. CASE UNCHANGED O!vars
  BY <1>0, <1>1 DEF O!vars
<1>2. ASSUME NEW p \in Purpose, O!Grant(p) PROVE O!TypeOK' /\ Meant'
  BY <1>0, <1>2 DEF O!Grant
<1>3. CASE O!GetProgress
  <2>1. progress' \in O!Progress
    BY <1>0, <1>3, Rows DEF O!GetProgress
  <2> QED BY <1>0, <1>3, <2>1 DEF O!GetProgress
<1>4. ASSUME NEW r \in Request, NEW p \in Purpose, O!BeginWithdraw(r, p) PROVE O!TypeOK' /\ Meant'
  BY <1>0, <1>4 DEF O!BeginWithdraw
<1>5. ASSUME NEW r \in Request, NEW s \in Step, O!BeginSaveStep(r, s) PROVE O!TypeOK' /\ Meant'
  <2>1. stepMixed' \in BOOLEAN
    BY <1>5, Zenon DEF O!BeginSaveStep
  <2> QED BY <1>0, <1>5, <2>1 DEF O!BeginSaveStep
<1>6. ASSUME NEW r \in Request, O!Withdraw(r) PROVE O!TypeOK' /\ Meant'
  BY <1>0, <1>6 DEF O!Withdraw
<1>7. ASSUME NEW r \in Request, O!SaveStep(r) PROVE O!TypeOK' /\ Meant'
  <2>1. about[r] \in Step /\ read[r] \in O!Progress
    BY <1>0, <1>7 DEF O!SaveStep
  <2>2. progress' \in O!Progress /\ saved' \in SUBSET Step
    BY <1>0, <1>7, <2>1 DEF O!SaveStep, O!StepsAfter, O!Progress
  <2> QED BY <1>0, <1>7, <2>2 DEF O!SaveStep
<1>8. ASSUME NEW r \in Request, O!BeginComplete(r) PROVE O!TypeOK' /\ Meant'
  <2>1. stepMixed' \in BOOLEAN
    BY <1>8, Zenon DEF O!BeginComplete
  <2>2. progress' \in O!Progress
    BY <1>0, <1>8, Rows DEF O!BeginComplete
  <2> QED BY <1>0, <1>8, <2>1, <2>2 DEF O!BeginComplete
<1>9. ASSUME NEW r \in Request, O!CheckConsents(r) \/ O!Fail(r) PROVE O!TypeOK' /\ Meant'
  BY <1>0, <1>9 DEF O!CheckConsents, O!Fail
<1>10. ASSUME NEW r \in Request, O!Complete(r) PROVE O!TypeOK' /\ Meant'
  <2>1. progress' \in O!Progress
    BY <1>0, <1>10 DEF O!Complete, O!Progress
  <2> QED BY <1>0, <1>10, <2>1 DEF O!Complete
<1> HIDE DEF O!TypeOK, Meant
<1> QED BY <1>1, <1>2, <1>3, <1>4, <1>5, <1>6, <1>7, <1>8, <1>9, <1>10 DEF O!Next

\* A consent that is required stays.
LEMMA ConsentStays ==
  ASSUME OnboardingInv, [O!Next]_O!vars, O!HasAllRequiredGranted
  PROVE  O!HasAllRequiredGranted'
<1> USE DEF OnboardingInv, O!TypeOK, O!HasAllRequiredGranted
<1>1. ASSUME NEW p \in Purpose, O!Grant(p) PROVE O!HasAllRequiredGranted'
  BY <1>1 DEF O!Grant, O!Consent
<1>2. ASSUME NEW r \in Request, O!Withdraw(r) PROVE O!HasAllRequiredGranted'
  BY <1>2 DEF O!Withdraw, StillTrue
<1>3. ASSUME consent' = consent PROVE O!HasAllRequiredGranted'
  BY <1>3
<1> QED
  BY <1>1, <1>2, <1>3
  DEF O!Next, O!vars, O!row, O!GetProgress, O!BeginWithdraw, O!BeginSaveStep,
      O!SaveStep, O!BeginComplete,
      O!CheckConsents, O!Complete, O!Fail

LEMMA OnboardingStep ==
  ASSUME OnboardingInv, [O!Next]_O!vars, O!TypeOK', Meant'
  PROVE  OnboardingInv'
<1> USE DEF O!Goto, O!Begin, O!End, O!row, O!local
<1>0. O!TypeOK /\ Meant /\ StillTrue /\ O!CompletedWithConsent /\ O!StepsKept
  BY DEF OnboardingInv, O!NothingMissing
<1>a. O!HasAllRequiredGranted => O!HasAllRequiredGranted'
  BY ConsentStays
\* A step that leaves the row of the onboarding, and what was read of it.
<1>1. ASSUME progress' = progress, saved' = saved, stepMixed' = stepMixed, read' = read,
             \A r \in Request : stepPc'[r] \in Advancing => stepPc'[r] = stepPc[r],
             \A r \in Request : stepPc'[r] = "withdraw" => about'[r] \notin RequiredPurposes
      PROVE  OnboardingInv'
  <2>1. StillTrue'
    BY <1>0, <1>a, <1>1 DEF StillTrue, Advancing
  <2>2. O!NothingMissing'
    BY <1>0, <1>a, <1>1 DEF O!CompletedWithConsent, O!StepsKept, O!NothingMissing
  <2> QED BY <2>1, <2>2 DEF OnboardingInv
<1>2. CASE UNCHANGED O!vars
  BY <1>0, <1>1, <1>2 DEF O!vars, StillTrue
<1>3. ASSUME NEW p \in Purpose, O!Grant(p) PROVE OnboardingInv'
  BY <1>0, <1>1, <1>3 DEF O!Grant, StillTrue
<1>4. ASSUME NEW r \in Request, NEW p \in Purpose, O!BeginWithdraw(r, p)
      PROVE  OnboardingInv'
  <2>1. /\ progress' = progress /\ saved' = saved /\ stepMixed' = stepMixed /\ consent' = consent
        /\ stepPc' = [stepPc EXCEPT ![r] = "withdraw"] /\ stepPc[r] = "idle"
        /\ about' = [about EXCEPT ![r] = p] /\ read' = [read EXCEPT ![r] = progress]
        /\ p \notin RequiredPurposes
    BY <1>4 DEF O!BeginWithdraw, O!MayWithdraw
  <2>2. StillTrue'
    BY <1>0, <1>a, <2>1 DEF StillTrue, Advancing, O!TypeOK
  <2>3. O!NothingMissing'
    BY <1>0, <1>a, <2>1 DEF O!CompletedWithConsent, O!StepsKept, O!NothingMissing
  <2> QED BY <2>2, <2>3 DEF OnboardingInv
<1>5. CASE O!GetProgress
  <2>1. /\ saved' = saved /\ stepMixed' = stepMixed /\ consent' = consent
        /\ UNCHANGED <<stepPc, about, read>>
        /\ \/ progress' = progress
           \/ progress'.done = progress.done /\ progress'.status = "in_progress"
    BY <1>0, <1>5 DEF O!GetProgress, O!GetOrCreate, StillTrue
  <2>2. StillTrue'
    BY <1>0, <1>a, <2>1 DEF StillTrue, Advancing
  <2>3. O!NothingMissing'
    BY <1>0, <1>a, <2>1 DEF O!CompletedWithConsent, O!StepsKept, O!NothingMissing
  <2> QED BY <2>2, <2>3 DEF OnboardingInv
<1>6. ASSUME NEW r \in Request, NEW s \in Step, O!BeginSaveStep(r, s)
      PROVE  OnboardingInv'
  <2>1. /\ progress' = progress /\ saved' = saved /\ consent' = consent
        /\ stepPc' = [stepPc EXCEPT ![r] = "save"] /\ stepPc[r] = "idle"
        /\ about' = [about EXCEPT ![r] = s] /\ read' = [read EXCEPT ![r] = progress]
        /\ ~stepMixed' => ~stepMixed /\ \A q \in Request : stepPc[q] = "idle"
    BY <1>6 DEF O!BeginSaveStep
  <2>2. StillTrue'
    BY <1>0, <1>a, <2>1 DEF StillTrue, Advancing, O!TypeOK
  <2>3. O!NothingMissing'
    BY <1>0, <1>a, <2>1 DEF O!CompletedWithConsent, O!StepsKept, O!NothingMissing
  <2> QED BY <2>2, <2>3 DEF OnboardingInv
<1>7. ASSUME NEW r \in Request, O!Withdraw(r) \/ O!Fail(r) PROVE OnboardingInv'
  <2>1. /\ progress' = progress /\ saved' = saved /\ stepMixed' = stepMixed
        /\ stepPc' = [stepPc EXCEPT ![r] = "idle"]
        /\ about' = [about EXCEPT ![r] = Nobody] /\ read' = [read EXCEPT ![r] = O!NoProgress]
    BY <1>7 DEF O!Withdraw, O!Fail
  <2>2. StillTrue'
    BY <1>0, <1>a, <2>1 DEF StillTrue, Advancing, O!TypeOK
  <2>3. O!NothingMissing'
    BY <1>0, <1>a, <2>1 DEF O!CompletedWithConsent, O!StepsKept, O!NothingMissing
  <2> QED BY <2>2, <2>3 DEF OnboardingInv
<1>8. ASSUME NEW r \in Request, O!SaveStep(r) PROVE OnboardingInv'
  <2>1. /\ stepPc[r] = "save" /\ stepMixed' = stepMixed /\ consent' = consent
        /\ progress'.done = read[r].done \cup {about[r]}
        /\ progress'.status # "none"
        /\ progress'.status = "completed" => progress.status = "completed"
        /\ saved' = saved \cup {about[r]}
        /\ stepPc' = [stepPc EXCEPT ![r] = "idle"]
        /\ about' = [about EXCEPT ![r] = Nobody] /\ read' = [read EXCEPT ![r] = O!NoProgress]
    BY <1>8 DEF O!SaveStep, O!StepsAfter
  <2>2. \A q \in Request : q # r => stepPc'[q] = stepPc[q] /\ about'[q] = about[q] /\ read'[q] = read[q]
    BY <1>0, <2>1 DEF O!TypeOK
  <2>3. stepPc'[r] = "idle"
    BY <1>0, <2>1 DEF O!TypeOK
  <2>4. StillTrue'
    BY <1>0, <1>a, <2>1, <2>2, <2>3 DEF StillTrue, Advancing
  <2>5. O!NothingMissing'
    BY <1>0, <1>a, <2>1
      DEF O!CompletedWithConsent, O!StepsKept, O!NothingMissing, StillTrue
  <2> QED BY <2>4, <2>5 DEF OnboardingInv
<1>9. ASSUME NEW r \in Request, O!BeginComplete(r) PROVE OnboardingInv'
  <2>1. /\ saved' = saved /\ consent' = consent /\ about' = about /\ stepPc[r] = "idle"
        /\ ~stepMixed' => ~stepMixed /\ \A q \in Request : stepPc[q] # "save"
        /\ \/ progress' = progress
           \/ progress'.done = progress.done /\ progress'.status = "in_progress"
        /\ \/ UNCHANGED <<stepPc, read>>
           \/ /\ RequiredSteps \subseteq progress.done
              /\ stepPc' = [stepPc EXCEPT ![r] = "consents"]
              /\ read' = [read EXCEPT ![r] = progress]
    BY <1>0, <1>9 DEF O!BeginComplete, O!GetOrCreate, StillTrue
  <2>2. \A q \in Request : q # r => stepPc'[q] = stepPc[q]
    BY <1>0, <2>1 DEF O!TypeOK
  <2>3. /\ stepPc'[r] \in {"idle", "consents"}
        /\ stepPc'[r] = "consents" => RequiredSteps \subseteq progress.done
    BY <1>0, <2>1 DEF O!TypeOK
  <2>4. StillTrue'
    BY <1>0, <1>a, <2>1, <2>2, <2>3 DEF StillTrue, Advancing
  <2>5. O!NothingMissing'
    BY <1>0, <1>a, <2>1 DEF O!CompletedWithConsent, O!StepsKept, O!NothingMissing
  <2> QED BY <2>4, <2>5 DEF OnboardingInv
<1>10. ASSUME NEW r \in Request, O!CheckConsents(r) PROVE OnboardingInv'
  <2>1. /\ progress' = progress /\ saved' = saved /\ stepMixed' = stepMixed /\ consent' = consent
        /\ stepPc[r] = "consents"
    BY <1>10 DEF O!CheckConsents
  <2>2. \A q \in Request : q # r => stepPc'[q] = stepPc[q] /\ about'[q] = about[q] /\ read'[q] = read[q]
    BY <1>0, <1>10 DEF O!CheckConsents, O!TypeOK
  <2>3. /\ stepPc'[r] \in {"idle", "complete"}
        /\ stepPc'[r] = "complete" => O!HasAllRequiredGranted
    BY <1>0, <1>10 DEF O!CheckConsents, O!TypeOK
  <2>4. StillTrue'
    BY <1>0, <1>a, <2>1, <2>2, <2>3 DEF StillTrue, Advancing
  <2>5. O!NothingMissing'
    BY <1>0, <1>a, <2>1 DEF O!CompletedWithConsent, O!StepsKept, O!NothingMissing
  <2> QED BY <2>4, <2>5 DEF OnboardingInv
<1>11. ASSUME NEW r \in Request, O!Complete(r) PROVE OnboardingInv'
  <2>1. /\ saved' = saved /\ stepMixed' = stepMixed /\ consent' = consent /\ stepPc[r] = "complete"
        /\ progress'.done = progress.done /\ progress'.status = "completed"
    BY <1>0, <1>11 DEF O!Complete, O!TypeOK, O!Progress
  <2>2. \A q \in Request : q # r => stepPc'[q] = stepPc[q] /\ about'[q] = about[q] /\ read'[q] = read[q]
    BY <1>0, <1>11 DEF O!Complete, O!TypeOK
  <2>3. stepPc'[r] = "idle"
    BY <1>0, <1>11 DEF O!Complete, O!TypeOK
  <2>4. StillTrue'
    BY <1>0, <1>a, <2>1, <2>2, <2>3 DEF StillTrue, Advancing
  <2>5. O!NothingMissing'
    BY <1>0, <1>a, <2>1
      DEF O!CompletedWithConsent, O!StepsKept, O!NothingMissing, StillTrue
  <2> QED BY <2>4, <2>5 DEF OnboardingInv
<1> QED
  BY <1>2, <1>3, <1>4, <1>5, <1>6, <1>7, <1>8, <1>9, <1>10, <1>11 DEF O!Next

\* The invariant of the onboarding.
LEMMA OnboardingAlways == O!Spec => []OnboardingInv
<1>1. OnboardingInv /\ [O!Next]_O!vars => OnboardingInv'
  BY OnboardingTypeStep, OnboardingStep
<1> QED BY OnboardingInit, <1>1, PTL DEF O!Spec

(* Whatever requests overlap, an onboarding that is completed has the        *)
(* consents that are required, then and ever after; and no step that was     *)
(* answered as saved is missing unless a step was saved while another        *)
(* request was under way (saveStep, complete, withdraw).                     *)
THEOREM NothingMissingAlways == O!Spec => []NothingMissing
<1>1. OnboardingInv => NothingMissing
  BY DEF OnboardingInv, NothingMissing
<1> QED BY <1>1, OnboardingAlways, PTL

-------------------------------------------------------------------------------
(***************************************************************************)
(* The self-custody export.  Both properties rest on Handed: one request   *)
(* migrates the wallet, and it alone has the secret from then on.          *)
(***************************************************************************)
\* A request that has migrated the wallet and not handed the secret out.
Migrating(r) == exportPc[r] \in {"delete", "audit"}

(* One request migrates the wallet, and it has the secret from then on.     *)
Handed ==
  /\ custody # "migrated" => delivered = 0
  /\ \A r \in Request :
       /\ exportPc[r] \in {"migrate", "delete", "audit"} => secret[r]
       /\ Migrating(r) => custody = "migrated" /\ delivered = 0
       /\ exportPc[r] = "audit" => ~key
       /\ \A q \in Request : Migrating(r) /\ Migrating(q) => q = r

ExportInv == X!TypeOK /\ Handed /\ X!DeliveredOnce /\ X!SecretNotLost

LEMMA ExportInit ==
  ASSUME X!ExportAssumption
  PROVE  X!Init => ExportInv
<1>1. X!Init => X!TypeOK
  <2> SUFFICES ASSUME X!Init PROVE X!TypeOK
    OBVIOUS
  <2>1. key \in BOOLEAN /\ broken \in BOOLEAN /\ secret \in [Request -> BOOLEAN]
    BY DEF X!Init
  <2> QED BY <2>1 DEF X!Init, X!TypeOK, X!TokenState, X!Pc
<1>2. X!Init => Handed /\ X!DeliveredOnce
  BY DEF X!Init, Handed, Migrating, X!DeliveredOnce
<1>3. X!Init => X!SecretNotLost
  BY DEF X!Init, X!SecretNotLost
<1> QED BY <1>1, <1>2, <1>3 DEF ExportInv

\* Types are kept.
LEMMA ExportTypeStep ==
  ASSUME X!ExportAssumption, X!TypeOK, [X!Next]_X!vars
  PROVE  X!TypeOK'
<1> USE DEF X!TypeOK, X!TokenState, X!Pc, X!Goto, X!Mark, X!End, X!Fault, X!wallet,
            X!local, X!history
<1>1. CASE UNCHANGED X!vars
  BY <1>1 DEF X!vars
<1>2. ASSUME NEW t \in Token, X!Authorize(t) \/ X!Expire(t) PROVE X!TypeOK'
  BY <1>2 DEF X!Authorize, X!Expire
<1>3. CASE X!Close
  BY <1>3 DEF X!Close
<1>4. ASSUME NEW r \in Request, NEW t \in Token, X!ClaimAuthorization(r, t)
      PROVE  X!TypeOK'
  BY <1>4 DEF X!ClaimAuthorization
<1>5. ASSUME NEW r \in Request, X!LoadSecret(r) \/ X!NoSecret(r) PROVE X!TypeOK'
  <2>1. broken' \in BOOLEAN
    BY <1>5, Zenon DEF X!LoadSecret, X!NoSecret
  <2>2. faults' \in Nat /\ delivered' \in Nat
    BY <1>5 DEF X!LoadSecret, X!NoSecret
  <2> QED BY <1>5, <2>1, <2>2 DEF X!LoadSecret, X!NoSecret, X!AfterNoSecret
<1>6. ASSUME NEW r \in Request, X!ReleaseClaim(r) PROVE X!TypeOK'
  BY <1>6, X!ExportAssumption DEF X!ReleaseClaim, X!ExportAssumption
<1>7. ASSUME NEW r \in Request, X!CompleteMigration(r) PROVE X!TypeOK'
  BY <1>7 DEF X!CompleteMigration
<1>8. ASSUME NEW r \in Request, X!MigrationRefused(r) \/ X!DeleteSecret(r)
      PROVE  X!TypeOK'
  BY <1>8 DEF X!MigrationRefused, X!AfterRefusal, X!DeleteSecret
<1>10. ASSUME NEW r \in Request, X!Deliver(r) PROVE X!TypeOK'
  BY <1>10 DEF X!Deliver
<1>9. ASSUME NEW r \in Request, X!Break(r) PROVE X!TypeOK'
  <2>1. broken' \in BOOLEAN /\ key' \in BOOLEAN
    BY <1>9, Zenon DEF X!Break
  <2>2. faults' \in Nat /\ delivered' \in Nat
    BY <1>9 DEF X!Break
  <2>3. UNCHANGED <<custody, token, live>>
    BY <1>9 DEF X!Break
  <2>4. exportPc' \in [Request -> X!Pc] /\ held' \in [Request -> Token \cup {NoToken}]
        /\ secret' \in [Request -> BOOLEAN]
    BY <1>9 DEF X!Break
  <2> QED BY <2>1, <2>2, <2>3, <2>4
<1> QED BY <1>1, <1>2, <1>3, <1>4, <1>5, <1>6, <1>7, <1>8, <1>9, <1>10 DEF X!Next

\* A request that does not migrate the wallet leaves the secret where it is.
LEMMA ExportStep ==
  ASSUME ExportInv, X!TypeOK', [X!Next]_X!vars
  PROVE  ExportInv'
<1> USE DEF ExportInv, X!TypeOK, Handed, Migrating, X!DeliveredOnce, X!SecretNotLost,
            X!Goto, X!End, X!Fault, X!wallet, X!local, X!history
<1>1. CASE UNCHANGED X!vars
  BY <1>1 DEF X!vars
<1>2. ASSUME NEW t \in Token, X!Authorize(t) \/ X!Expire(t) PROVE ExportInv'
  BY <1>2 DEF X!Authorize, X!Expire
<1>3. CASE X!Close
  BY <1>3 DEF X!Close
<1>4. ASSUME NEW r \in Request, NEW t \in Token, X!ClaimAuthorization(r, t)
      PROVE  ExportInv'
  BY <1>4 DEF X!ClaimAuthorization
<1>5. ASSUME NEW r \in Request, X!LoadSecret(r) PROVE ExportInv'
  BY <1>5 DEF X!LoadSecret
<1>6. ASSUME NEW r \in Request, X!NoSecret(r) PROVE ExportInv'
  BY <1>6 DEF X!NoSecret, X!AfterNoSecret
<1>7. ASSUME NEW r \in Request, X!ReleaseClaim(r) PROVE ExportInv'
  BY <1>7 DEF X!ReleaseClaim
<1>8. ASSUME NEW r \in Request, X!CompleteMigration(r) PROVE ExportInv'
  BY <1>8 DEF X!CompleteMigration
<1>9. ASSUME NEW r \in Request, X!MigrationRefused(r) PROVE ExportInv'
  BY <1>9 DEF X!MigrationRefused, X!AfterRefusal
<1>10. ASSUME NEW r \in Request, X!DeleteSecret(r) PROVE ExportInv'
  BY <1>10 DEF X!DeleteSecret
<1>11. ASSUME NEW r \in Request, X!Deliver(r) PROVE ExportInv'
  BY <1>11 DEF X!Deliver
<1>12. ASSUME NEW r \in Request, X!Break(r) PROVE ExportInv'
  BY <1>12 DEF X!Break
<1> HIDE DEF ExportInv
<1> QED
  BY <1>1, <1>2, <1>3, <1>4, <1>5, <1>6, <1>7, <1>8, <1>9, <1>10, <1>11, <1>12
    DEF X!Next

\* The invariant of the export.
LEMMA ExportAlways ==
  ASSUME X!ExportAssumption
  PROVE  X!Spec => []ExportInv
<1>1. ExportInv /\ [X!Next]_X!vars => ExportInv'
  BY ExportTypeStep, ExportStep DEF ExportInv
<1> QED BY ExportInit, <1>1, PTL DEF X!Spec

(* However many authorizations are claimed at once, and whatever fails, the  *)
(* secret is handed out once at most; and then the wallet is migrated and    *)
(* the store no longer has it (exportOnce).                                  *)
THEOREM DeliveredOnceAlways == X!Spec => []DeliveredOnce
<1>1. X!Spec => []ExportInv
  BY RecordsAssumption, ExportAlways
<1>2. ExportInv => DeliveredOnce
  BY DEF ExportInv, DeliveredOnce
<1> QED BY <1>1, <1>2, PTL

(* The secret is in the store, delivered or in the hands of the request that *)
(* migrated the wallet, unless something failed after the migration          *)
(* (exportOnce).                                                             *)
THEOREM SecretKept == X!Spec => []SecretNotLost
<1>1. X!Spec => []ExportInv
  BY RecordsAssumption, ExportAlways
<1>2. ExportInv => SecretNotLost
  BY DEF ExportInv, SecretNotLost
<1> QED BY <1>1, <1>2, PTL

-------------------------------------------------------------------------------
(***************************************************************************)
(* The users: sessions that end with the password they were opened with,   *)
(* one claimant of a wallet address, and a trail that names exactly the    *)
(* changes that were made.                                                 *)
(***************************************************************************)
\* A request that is under way is about a user, and so are a live session and
\* the session of a token.
InHand ==
  /\ \A r \in Caller : callerPc[r] \notin {"idle"} \cup U!Answer => U!Of(r) \in User
  /\ \A s \in Caller : session[s].live => session[s].owner \in User
  /\ \A t \in Caller :
       refresh[t].status # "none" => session[refresh[t].session].owner \in User

\* The row lock of a user lets one change in.
OneChange ==
  \A q, r \in Caller :
    callerPc[q] \in {"list", "revoke"} /\ callerPc[r] \in {"list", "revoke"} /\ U!Of(q) = U!Of(r)
      => q = r

\* What a change has listed are all the sessions of the user, but for those
\* that a login opened since.
AllListed ==
  \A r, s \in Caller :
    callerPc[r] = "revoke" /\ session[s].live /\ session[s].owner = U!Of(r)
      => s \in found[r] \cup late

\* A token that is ACTIVE is of a live session, or of one that was spared.
TokensAgree ==
  \A t \in Caller :
    refresh[t].status = "ACTIVE" =>
      session[refresh[t].session].live \/ refresh[t].session \in spared

\* The password a session was opened with counts.
Opened(s) == session[s].opened = user[session[s].owner].password
PasswordsAgree ==
  \A s \in Caller :
    session[s].live /\ s \notin late /\ session[s].owner \notin undone => Opened(s)

UserInv ==
  /\ U!TypeOK /\ InHand /\ OneChange /\ AllListed /\ TokensAgree /\ PasswordsAgree
  /\ U!OneClaimant /\ U!ChangesAudited

\* Nothing has happened to the accounts when the requests begin.
LEMMA UserInit == ASSUME U!UserAccountAssumption, U!Init PROVE UserInv
<1> USE DEF U!Init
<1>1. U!TypeOK
  BY DEF U!TypeOK, U!Account, U!Session, U!RefreshToken, U!Call, U!Pc, U!Answer, U!NoSession,
         U!NoCall
<1>2. InHand /\ OneChange /\ AllListed /\ TokensAgree /\ PasswordsAgree
  BY DEF InHand, OneChange, AllListed, TokensAgree, PasswordsAgree, U!NoSession
<1>3. U!OneClaimant /\ U!ChangesAudited
  BY DEF U!OneClaimant, U!ChangesAudited
<1> QED BY <1>1, <1>2, <1>3 DEF UserInv

\* A new password changes the password and nothing else that counts.
LEMMA PasswordWritten ==
  ASSUME user \in [User -> U!Account], NEW u \in User,
         NEW p \in Password \cup {NoPassword},
         user' = [user EXCEPT ![u].password = p, ![u].weak = FALSE]
  PROVE  /\ user' \in [User -> U!Account]
         /\ \A v \in User :
              /\ user'[v].wallet = user[v].wallet
              /\ user'[v].password = IF v = u THEN p ELSE user[v].password
<1>1. user[u] \in U!Account
  OBVIOUS
<1>2. PICK acc : acc = [user[u] EXCEPT !.password = p, !.weak = FALSE]
  OBVIOUS
<1>3. acc \in U!Account /\ acc.wallet = user[u].wallet /\ acc.password = p
  BY <1>1, <1>2 DEF U!Account
<1>4. user' = [user EXCEPT ![u] = acc]
  BY <1>1, <1>2
<1> QED BY <1>3, <1>4

\* The sessions that are closed are not live, the others stay as they are.
ClosedOnly(S) ==
  \A s \in Caller :
    /\ session'[s].owner = session[s].owner
    /\ IF s \in S THEN ~session'[s].live ELSE session'[s] = session[s]

LEMMA SessionsClosed ==
  ASSUME session \in [Caller -> U!Session], NEW S \in SUBSET Caller,
         session' = U!Closed(S)
  PROVE  session' \in [Caller -> U!Session] /\ ClosedOnly(S)
BY DEF U!Closed, U!Session, ClosedOnly

\* The tokens of the sessions in S are marked, the others stay as they are.
MarkedOnly(S, st) ==
  \A t \in Caller :
    /\ refresh'[t].session = refresh[t].session
    /\ refresh'[t].status =
         IF refresh[t].session \in S /\ refresh[t].status # "none" THEN st
         ELSE refresh[t].status

LEMMA TokensMarked ==
  ASSUME refresh \in [Caller -> U!RefreshToken], NEW S \in SUBSET Caller,
         NEW st \in {"none", "REVOKED"}, refresh' = U!Marked(S, st)
  PROVE  refresh' \in [Caller -> U!RefreshToken] /\ MarkedOnly(S, st)
BY DEF U!Marked, U!RefreshToken, MarkedOnly

\* A request that is done has nothing in hand.
LEMMA DoneTyped ==
  ASSUME U!TypeOK, NEW r \in Caller, NEW l \in U!Answer, U!Done(r, l)
  PROVE  /\ callerPc' \in [Caller -> U!Pc]
         /\ arguments' \in [Caller -> U!Call]
         /\ found' \in [Caller -> SUBSET Caller]
<1>1. l \in U!Pc
  BY DEF U!Pc
<1>2. U!NoCall \in U!Call
  BY DEF U!NoCall, U!Call
<1> QED BY <1>1, <1>2 DEF U!Done, U!Goto, U!TypeOK

\* Every step keeps the rows and the requests of their types.
LEMMA UserTypeStep == ASSUME U!TypeOK, InHand, [U!Next]_U!vars PROVE U!TypeOK'
<1> USE DEF U!TypeOK
<1> DEFINE Locals ==
      /\ callerPc' \in [Caller -> U!Pc]
      /\ arguments' \in [Caller -> U!Call]
      /\ found' \in [Caller -> SUBSET Caller]
<1>0. CASE UNCHANGED U!vars
  BY <1>0 DEF U!vars, U!rows, U!local, U!history
<1>1. ASSUME NEW u \in User, U!Erase(u) PROVE U!TypeOK'
  <2> DEFINE S == { s \in Caller : session[s].owner = u }
  <2>1. refresh' \in [Caller -> U!RefreshToken]
    BY <1>1, S \in SUBSET Caller, TokensMarked DEF U!Erase
  <2>2. user' \in [User -> U!Account]
    BY <1>1 DEF U!Erase, U!Account
  <2>3. session' \in [Caller -> U!Session]
    BY <1>1 DEF U!Erase, U!Session, U!NoSession
  <2> QED BY <1>1, <2>1, <2>2, <2>3 DEF U!Erase, U!local, U!history
<1>2. ASSUME NEW u \in User, NEW S \in SUBSET { s \in Caller : session[s].owner = u },
             U!LogOut(S) \/ U!RevokeSessions(S)
      PROVE  U!TypeOK'
  <2>1. session' \in [Caller -> U!Session]
    BY <1>2, SessionsClosed DEF U!LogOut, U!RevokeSessions
  <2>2. refresh' \in [Caller -> U!RefreshToken]
    BY <1>2, TokensMarked DEF U!LogOut, U!RevokeSessions
  <2> QED BY <1>2, <2>1, <2>2 DEF U!LogOut, U!RevokeSessions, U!local, U!history
<1>3. ASSUME NEW r \in Caller, NEW u \in User, NEW c \in U!Call, NEW l \in U!Pc,
             U!Begin(r, c, l)
      PROVE  U!TypeOK'
  BY <1>3 DEF U!Begin, U!Goto, U!rows, U!history
<1>4. ASSUME NEW r \in Caller, NEW t \in Caller, U!StartRefresh(r, t) PROVE U!TypeOK'
  <2> DEFINE o == session[refresh[t].session].owner
  <2>1. o \in User
    BY <1>4 DEF U!StartRefresh, InHand
  <2>2. [U!NoCall EXCEPT !.user = o] \in U!Call
    BY <2>1 DEF U!NoCall, U!Call
  <2>3. callerPc' \in [Caller -> U!Pc]
    BY <1>4 DEF U!StartRefresh, U!Goto, U!Pc
  <2> HIDE DEF o
  <2> QED BY <1>4, <2>2, <2>3 DEF U!StartRefresh, U!rows, U!history, o
<1>5. ASSUME NEW r \in Caller, U!TouchAccount(r) PROVE U!TypeOK'
  <2>1. U!Of(r) \in User /\ arguments[r].password \in Password \cup {NoPassword}
    BY <1>5 DEF U!TouchAccount, InHand, U!Call, U!Answer, U!Of
  <2>2. user' \in [User -> U!Account] /\ undone' \in SUBSET User
    BY <1>5, <2>1, PasswordWritten DEF U!TouchAccount
  <2> QED BY <1>5, <2>2 DEF U!TouchAccount, U!Goto, U!Pc
<1>6. ASSUME NEW r \in Caller, U!OpenSession(r) PROVE U!TypeOK'
  <2>1. Locals
    BY <1>6, DoneTyped DEF U!OpenSession, U!Answer
  <2>2. session' \in [Caller -> U!Session] /\ refresh' \in [Caller -> U!RefreshToken]
    BY <1>6 DEF U!OpenSession, U!Session, U!RefreshToken, U!Call, U!Of
  <2>3. late' \in SUBSET Caller
    BY <1>6 DEF U!OpenSession
  <2> QED BY <1>6, <2>1, <2>2, <2>3 DEF U!OpenSession
<1>7. ASSUME NEW r \in Caller, U!WritePassword(r) \/ U!ListSessions(r) PROVE U!TypeOK'
  BY <1>7 DEF U!WritePassword, U!ListSessions, U!Unrevoked, U!Goto, U!Pc, U!rows,
              U!history
<1>8. ASSUME NEW r \in Caller, U!ClaimToken(r) PROVE U!TypeOK'
  <2>1. PICK t \in found[r] :
          IF refresh[t].status = "ACTIVE"
          THEN refresh' = [refresh EXCEPT ![t].status = "ROTATED"] /\ U!Goto(r, "mint")
          ELSE U!Goto(r, "replay") /\ UNCHANGED refresh
    BY <1>8 DEF U!ClaimToken
  <2>2. [refresh[t] EXCEPT !.status = "ROTATED"] \in U!RefreshToken
    BY DEF U!RefreshToken
  <2>3. refresh' \in [Caller -> U!RefreshToken]
    BY <2>1, <2>2
  <2>4. callerPc' \in [Caller -> U!Pc]
    BY <2>1 DEF U!Goto, U!Pc
  <2> QED BY <1>8, <2>3, <2>4 DEF U!ClaimToken, U!history
<1>9. ASSUME NEW r \in Caller, U!MintToken(r) PROVE U!TypeOK'
  <2>1. Locals
    BY <1>9, DoneTyped DEF U!MintToken, U!Answer
  <2>2. refresh' \in [Caller -> U!RefreshToken] /\ spared' \in SUBSET Caller
    BY <1>9 DEF U!MintToken, U!RefreshToken
  <2> QED BY <1>9, <2>1, <2>2 DEF U!MintToken
<1>10. ASSUME NEW r \in Caller, U!RevokeReplayed(r) PROVE U!TypeOK'
  <2>1. Locals
    BY <1>10, DoneTyped DEF U!RevokeReplayed, U!Answer
  <2>2. PICK t \in found[r] : /\ session' = U!Closed({refresh[t].session})
                              /\ refresh' = U!Marked({refresh[t].session}, "REVOKED")
    BY <1>10 DEF U!RevokeReplayed
  <2>3. {refresh[t].session} \in SUBSET Caller
    BY DEF U!RefreshToken
  <2>4. session' \in [Caller -> U!Session] /\ refresh' \in [Caller -> U!RefreshToken]
    BY <2>2, <2>3, SessionsClosed, TokensMarked
  <2> QED BY <1>10, <2>1, <2>4 DEF U!RevokeReplayed, U!history
<1>11. ASSUME NEW r \in Caller, U!CommitChange(r) \/ U!CommitReset(r) PROVE U!TypeOK'
  <2>1. U!Of(r) \in User /\ arguments[r].password \in Password \cup {NoPassword}
    BY <1>11 DEF U!CommitChange, U!CommitReset, InHand, U!Call, U!Answer, U!Of
  <2>2. user' \in [User -> U!Account]
    BY <1>11, <2>1, PasswordWritten DEF U!CommitChange, U!CommitReset, U!SetPassword
  <2>3. session' \in [Caller -> U!Session]
    BY <1>11, SessionsClosed DEF U!CommitChange, U!CommitReset
  <2>4. refresh' \in [Caller -> U!RefreshToken]
    BY <1>11, TokensMarked DEF U!CommitChange, U!CommitReset
  <2>5. Locals
    BY <1>11, DoneTyped DEF U!CommitChange, U!CommitReset, U!Answer
  <2> HIDE DEF Locals
  <2> QED
    BY <1>11, <2>2, <2>3, <2>4, <2>5 DEF U!CommitChange, U!CommitReset, U!history, Locals
<1>12. ASSUME NEW r \in Caller, U!LookForClaimant(r) PROVE U!TypeOK'
  <2>1. Locals
    BY <1>12, DoneTyped DEF U!LookForClaimant, U!Answer, U!Goto, U!Pc
  <2> QED BY <1>12, <2>1 DEF U!LookForClaimant, U!rows, U!history
<1>13. ASSUME NEW r \in Caller, U!WriteWallet(r) PROVE U!TypeOK'
  <2>1. U!Of(r) \in User /\ arguments[r].wallet \in Address \cup {NoAddress}
    BY <1>13 DEF U!WriteWallet, InHand, U!Call, U!Answer, U!Of
  <2>2. user' \in [User -> U!Account]
    BY <1>13, <2>1 DEF U!WriteWallet, U!Account
  <2>3. Locals
    BY <1>13, DoneTyped DEF U!WriteWallet, U!Answer
  <2> QED BY <1>13, <2>2, <2>3 DEF U!WriteWallet, U!history
<1>14. ASSUME NEW r \in Caller, U!Fail(r) PROVE U!TypeOK'
  <2>1. Locals
    BY <1>14, DoneTyped DEF U!Fail, U!Answer
  <2> QED BY <1>14, <2>1 DEF U!Fail, U!rows, U!history
<1>15. ASSUME NEW r \in Caller, NEW u \in User,
              \/ \E p \in Password : U!StartLogin(r, u, p) \/ U!StartReset(r, u, p)
              \/ \E p, q \in Password : U!StartChange(r, u, p, q)
              \/ \E a \in Address : U!StartWallet(r, u, a)
       PROVE  \E c \in U!Call, l \in U!Pc : U!Begin(r, c, l)
  <2> USE DEF U!NoCall, U!Call, U!Pc, U!Answer
  <2>1. ASSUME NEW p \in Password, U!StartLogin(r, u, p)
        PROVE  \E c \in U!Call, l \in U!Pc : U!Begin(r, c, l)
    BY <2>1 DEF U!StartLogin, U!Account
  <2>2. ASSUME NEW p \in Password, U!StartReset(r, u, p)
        PROVE  \E c \in U!Call, l \in U!Pc : U!Begin(r, c, l)
    BY <2>2 DEF U!StartReset
  <2>3. ASSUME NEW p \in Password, NEW q \in Password, U!StartChange(r, u, p, q)
        PROVE  \E c \in U!Call, l \in U!Pc : U!Begin(r, c, l)
    BY <2>3 DEF U!StartChange
  <2>4. ASSUME NEW a \in Address, U!StartWallet(r, u, a)
        PROVE  \E c \in U!Call, l \in U!Pc : U!Begin(r, c, l)
    BY <2>4 DEF U!StartWallet
  <2> QED BY <1>15, <2>1, <2>2, <2>3, <2>4
<1> QED
  BY <1>0, <1>1, <1>2, <1>3, <1>4, <1>5, <1>6, <1>7, <1>8, <1>9, <1>10, <1>11, <1>12,
     <1>13, <1>14, <1>15
     DEF U!Next

\* A step that moves one request and leaves the rows as they are.
Moves(r) ==
  /\ UNCHANGED <<U!rows, U!history>>
  /\ \A q \in Caller \ {r} :
       callerPc'[q] = callerPc[q] /\ arguments'[q] = arguments[q] /\ found'[q] = found[q]
  /\ callerPc[r] \notin {"changed", "updated"} /\ callerPc'[r] \notin {"changed", "updated"}

LEMMA MovesInv ==
  ASSUME UserInv, U!TypeOK', NEW r \in Caller, Moves(r),
         callerPc'[r] \in {"idle"} \cup U!Answer \/ U!Of(r)' \in User,
         callerPc'[r] \in {"list", "revoke"} =>
           \/ callerPc[r] \in {"list", "revoke"} /\ arguments'[r] = arguments[r]
           \/ ~U!Locked(U!Of(r)')
  PROVE  /\ InHand' /\ OneChange' /\ TokensAgree' /\ PasswordsAgree'
         /\ U!OneClaimant' /\ U!ChangesAudited'
<1> USE DEF UserInv, Moves, U!rows, U!history, U!Of
<1>1. InHand'
  BY DEF InHand
<1>2. OneChange'
  BY DEF OneChange, U!Locked, U!Changing
<1>3. TokensAgree' /\ PasswordsAgree' /\ U!OneClaimant'
  BY DEF TokensAgree, PasswordsAgree, Opened, U!OneClaimant
<1>4. U!ChangesAudited'
  BY DEF U!ChangesAudited
<1> QED BY <1>1, <1>2, <1>3, <1>4

\* A step that lists nothing leaves the lists complete.
LEMMA ListedStays ==
  ASSUME UserInv, NEW r \in Caller, Moves(r), callerPc'[r] # "revoke"
  PROVE  AllListed'
BY DEF UserInv, Moves, U!rows, U!history, AllListed, U!Of

\* The calls begin, look at something or fail.
LEMMA BeginStep ==
  ASSUME UserInv, U!TypeOK', NEW r \in Caller, NEW u \in User, NEW c \in U!Call,
         NEW l, c.user = u, l \notin {"list", "revoke", "changed", "updated"},
         U!Begin(r, c, l)
  PROVE  UserInv'
<1>1. Moves(r) /\ U!Of(r)' = u /\ callerPc'[r] = l
  BY DEF U!Begin, Moves, U!Goto, UserInv, U!TypeOK, U!Of
<1> QED BY <1>1, MovesInv, ListedStays DEF UserInv

LEMMA StartsStep ==
  ASSUME UserInv, U!TypeOK', NEW r \in Caller, NEW u \in User,
         \/ \E p \in Password : U!StartLogin(r, u, p) \/ U!StartReset(r, u, p)
         \/ \E p, q \in Password : U!StartChange(r, u, p, q)
         \/ \E a \in Address : U!StartWallet(r, u, a)
  PROVE  UserInv'
<1> USE DEF UserInv, U!TypeOK, U!Call, U!NoCall
<1>1. ASSUME NEW p \in Password, U!StartLogin(r, u, p) PROVE UserInv'
  <2> DEFINE c == [U!NoCall EXCEPT !.user = u, !.password = p, !.rehash = user[u].weak]
  <2>1. c \in U!Call /\ c.user = u
    BY DEF U!Account
  <2>2. U!Begin(r, c, "login")
    BY <1>1 DEF U!StartLogin
  <2> HIDE DEF c
  <2> QED BY <2>1, <2>2, BeginStep
<1>2. ASSUME NEW p \in Password, U!StartReset(r, u, p) PROVE UserInv'
  <2> DEFINE c == [U!NoCall EXCEPT !.user = u, !.password = p, !.reset = TRUE]
  <2>1. c \in U!Call /\ c.user = u
    OBVIOUS
  <2>2. U!Begin(r, c, "hash")
    BY <1>2 DEF U!StartReset
  <2> HIDE DEF c
  <2> QED BY <2>1, <2>2, BeginStep
<1>3. ASSUME NEW p \in Password, NEW q \in Password, U!StartChange(r, u, p, q)
      PROVE  UserInv'
  <2> DEFINE c == [U!NoCall EXCEPT !.user = u, !.password = q]
             l == IF user[u].status = "DELETED" THEN "not_found"
                  ELSE IF user[u].password # p THEN "invalid" ELSE "hash"
  <2>1. c \in U!Call /\ c.user = u
    OBVIOUS
  <2>2. U!Begin(r, c, l)
    BY <1>3 DEF U!StartChange
  <2>3. l \notin {"list", "revoke", "changed", "updated"}
    OBVIOUS
  <2> HIDE DEF c, l
  <2> QED BY <2>1, <2>2, <2>3, BeginStep
<1>4. ASSUME NEW a \in Address, U!StartWallet(r, u, a) PROVE UserInv'
  <2> DEFINE c == [U!NoCall EXCEPT !.user = u, !.wallet = a]
             l == IF user[u].status = "DELETED" THEN "not_found"
                  ELSE IF user[u].wallet = a THEN "unchanged" ELSE "look"
  <2>1. c \in U!Call /\ c.user = u
    OBVIOUS
  <2>2. U!Begin(r, c, l)
    BY <1>4 DEF U!StartWallet
  <2>3. l \notin {"list", "revoke", "changed", "updated"}
    OBVIOUS
  <2> HIDE DEF c, l
  <2> QED BY <2>1, <2>2, <2>3, BeginStep
<1> QED BY <1>1, <1>2, <1>3, <1>4

\* A request that ends without writing anything.
LEMMA DoneMoves ==
  ASSUME U!TypeOK, NEW r \in Caller, NEW l \in U!Answer \ {"changed", "updated"},
         U!Done(r, l), UNCHANGED <<U!rows, U!history>>,
         callerPc[r] \notin {"changed", "updated"}
  PROVE  Moves(r) /\ callerPc'[r] \in U!Answer /\ callerPc'[r] \notin {"list", "revoke"}
BY DEF Moves, U!Done, U!Goto, U!TypeOK, U!Answer

LEMMA LooksStep ==
  ASSUME UserInv, U!TypeOK', NEW r \in Caller,
         U!WritePassword(r) \/ U!ListSessions(r) \/ U!LookForClaimant(r) \/ U!Fail(r)
  PROVE  UserInv'
<1> USE DEF UserInv
<1>1. ASSUME U!WritePassword(r) PROVE UserInv'
  <2>1. Moves(r) /\ callerPc'[r] = "list" /\ U!Of(r)' \in User /\ ~U!Locked(U!Of(r)')
    BY <1>1 DEF U!WritePassword, InHand, U!TypeOK, Moves, U!Goto, U!Of, U!rows, U!history,
                U!Answer
  <2> QED BY <2>1, MovesInv, ListedStays
<1>2. ASSUME U!ListSessions(r) PROVE UserInv'
  <2>1. Moves(r) /\ callerPc[r] = "list" /\ arguments' = arguments /\ U!Of(r)' \in User
    BY <1>2 DEF U!ListSessions, InHand, U!TypeOK, Moves, U!Goto, U!Of, U!rows, U!history,
                U!Answer
  <2>2. AllListed'
    BY <1>2 DEF U!ListSessions, U!Unrevoked, AllListed, U!TypeOK, U!Goto, U!Of, U!rows,
                U!history
  <2> QED BY <2>1, <2>2, MovesInv
<1>3. ASSUME U!LookForClaimant(r) PROVE UserInv'
  <2>1. CASE U!Claimed(r)
    <3>1. U!Done(r, "conflict") /\ UNCHANGED <<U!rows, U!history>> /\ callerPc[r] = "look"
      BY <1>3, <2>1 DEF U!LookForClaimant
    <3>2. "conflict" \in U!Answer \ {"changed", "updated"}
      BY DEF U!Answer
    <3>3. Moves(r) /\ callerPc'[r] \in U!Answer /\ callerPc'[r] \notin {"list", "revoke"}
      BY <3>1, <3>2, DoneMoves
    <3> QED BY <3>3, MovesInv, ListedStays
  <2>2. CASE ~U!Claimed(r)
    <3>1. Moves(r) /\ callerPc'[r] = "write" /\ U!Of(r)' \in User
      BY <1>3, <2>2 DEF U!LookForClaimant, InHand, U!TypeOK, Moves, U!Goto, U!Of, U!rows,
                        U!history, U!Answer
    <3> QED BY <3>1, MovesInv, ListedStays
  <2> QED BY <2>1, <2>2
<1>4. ASSUME U!Fail(r) PROVE UserInv'
  <2>1. U!Done(r, "failed") /\ UNCHANGED <<U!rows, U!history>>
    BY <1>4 DEF U!Fail
  <2>2. callerPc[r] \notin {"changed", "updated"}
    BY <1>4 DEF U!Fail, U!Answer
  <2>3. "failed" \in U!Answer \ {"changed", "updated"}
    BY DEF U!Answer
  <2>4. Moves(r) /\ callerPc'[r] \in U!Answer /\ callerPc'[r] \notin {"list", "revoke"}
    BY <2>1, <2>2, <2>3, DoneMoves
  <2> QED BY <2>4, MovesInv, ListedStays
<1> QED BY <1>1, <1>2, <1>3, <1>4

\* A refresh reads a token and its session.
LEMMA StartRefreshStep ==
  ASSUME UserInv, U!TypeOK', NEW r \in Caller, NEW t \in Caller, U!StartRefresh(r, t)
  PROVE  UserInv'
<1> USE DEF UserInv
<1>1. session[refresh[t].session].owner \in User
  BY DEF U!StartRefresh, InHand
<1>2. Moves(r) /\ callerPc'[r] \in {"claim", "replay"} /\ U!Of(r)' \in User
  BY <1>1 DEF U!StartRefresh, U!TypeOK, U!NoCall, Moves, U!Goto, U!Of
<1> QED BY <1>2, MovesInv, ListedStays

\* The steps of the requests that change neither passwords nor addresses and
\* open no session: they leave all that is in hand but their own.
Ends(r) ==
  /\ UNCHANGED <<user, audited, late, undone>>
  /\ spared \subseteq spared'
  /\ \A q \in Caller \ {r} :
       callerPc'[q] = callerPc[q] /\ arguments'[q] = arguments[q] /\ found'[q] = found[q]
  /\ callerPc[r] \notin {"changed", "updated"}
  /\ callerPc'[r] \in {"mint", "replay", "refreshed", "reuse"}
  /\ callerPc'[r] \in U!Answer \/ U!Of(r)' \in User

\* Sessions that are only closed, and tokens that belong to users, disturb
\* nothing but the agreement of the tokens.
LEMMA EndsInv ==
  ASSUME UserInv, U!TypeOK', NEW r \in Caller, Ends(r), NEW S \in SUBSET Caller,
         ClosedOnly(S),
         \A t \in Caller : refresh'[t].status # "none" =>
           session[refresh'[t].session].owner \in User
  PROVE  /\ InHand' /\ OneChange' /\ AllListed' /\ PasswordsAgree'
         /\ U!OneClaimant' /\ U!ChangesAudited'
<1> USE DEF UserInv, Ends, U!Of
<1>0. \A t \in Caller : refresh'[t].session \in Caller
  BY DEF U!TypeOK, U!RefreshToken
<1>1. InHand'
  BY <1>0 DEF InHand, ClosedOnly
<1>2. OneChange'
  BY DEF OneChange
<1>3. AllListed'
  BY DEF AllListed, ClosedOnly
<1>4. PasswordsAgree'
  BY DEF PasswordsAgree, Opened, ClosedOnly
<1>5. U!OneClaimant' /\ U!ChangesAudited'
  BY DEF U!OneClaimant, U!ChangesAudited
<1> QED BY <1>1, <1>2, <1>3, <1>4, <1>5

\* A refresh claims its token and mints the next one, whose session may be
\* revoked by then.
LEMMA RefreshStep ==
  ASSUME UserInv, U!TypeOK', NEW r \in Caller, U!ClaimToken(r) \/ U!MintToken(r)
  PROVE  UserInv'
<1> USE DEF UserInv
<1>0. ClosedOnly({})
  BY DEF U!ClaimToken, U!MintToken, ClosedOnly
<1>1. ASSUME U!ClaimToken(r) PROVE UserInv'
  <2>1. PICK t \in found[r] :
          IF refresh[t].status = "ACTIVE"
          THEN refresh' = [refresh EXCEPT ![t].status = "ROTATED"] /\ U!Goto(r, "mint")
          ELSE U!Goto(r, "replay") /\ UNCHANGED refresh
    BY <1>1 DEF U!ClaimToken
  <2>2. U!Of(r) \in User
    BY <1>1 DEF U!ClaimToken, InHand, U!Answer
  <2>3. Ends(r)
    BY <1>1, <2>1, <2>2 DEF U!ClaimToken, Ends, U!Goto, U!TypeOK, U!history, U!Of
  <2>4. \A q \in Caller :
          /\ refresh'[q].session = refresh[q].session
          /\ refresh'[q].status # "none" => refresh[q].status # "none"
          /\ refresh'[q].status = "ACTIVE" => refresh[q].status = "ACTIVE"
    <3>1. CASE UNCHANGED refresh
      BY <3>1
    <3>2. CASE refresh[t].status = "ACTIVE"
               /\ refresh' = [refresh EXCEPT ![t].status = "ROTATED"]
      <4>1. t \in Caller /\ refresh \in [Caller -> U!RefreshToken]
        BY DEF U!TypeOK
      <4>2. PICK x : x = [refresh[t] EXCEPT !.status = "ROTATED"]
        OBVIOUS
      <4>3. x.session = refresh[t].session /\ x.status = "ROTATED"
        BY <4>1, <4>2 DEF U!RefreshToken
      <4>4. \A q \in Caller : refresh'[q] = IF q = t THEN x ELSE refresh[q]
        BY <3>2, <4>1, <4>2
      <4> QED BY <3>2, <4>3, <4>4
    <3> QED BY <2>1, <3>1, <3>2
  <2>5. TokensAgree'
    BY <1>1, <2>4 DEF U!ClaimToken, TokensAgree, U!history
  <2> QED BY <1>0, <2>3, <2>4, <2>5, EndsInv DEF InHand
<1>2. ASSUME U!MintToken(r) PROVE UserInv'
  <2>1. PICK t \in found[r] :
          /\ session[refresh[t].session].owner # NoUser
          /\ refresh' = [refresh EXCEPT ![r] =
               [status |-> "ACTIVE", session |-> refresh[t].session]]
          /\ spared' = IF session[refresh[t].session].live THEN spared
                       ELSE spared \cup {refresh[t].session}
    BY <1>2 DEF U!MintToken
  <2>2. t \in Caller /\ refresh[t].session \in Caller
    BY DEF U!TypeOK, U!RefreshToken
  <2>3. session[refresh[t].session].owner \in User
    BY <2>1, <2>2 DEF U!TypeOK, U!Session
  <2>4. Ends(r)
    BY <1>2, <2>1 DEF U!MintToken, U!Done, Ends, U!Goto, U!TypeOK, U!Answer
  <2>5. \A q \in Caller :
          /\ refresh'[q].session =
               IF q = r THEN refresh[t].session ELSE refresh[q].session
          /\ q # r => refresh'[q].status = refresh[q].status
    BY <2>1 DEF U!TypeOK
  <2>6. TokensAgree'
    BY <1>2, <2>1, <2>2, <2>5 DEF U!MintToken, TokensAgree
  <2> QED BY <1>0, <2>3, <2>4, <2>5, <2>6, EndsInv DEF InHand
<1> QED BY <1>1, <1>2

\* Sessions that are closed with their tokens, or whose tokens are spared, agree.
LEMMA ClosedAgree ==
  ASSUME U!TypeOK, TokensAgree, NEW S \in SUBSET Caller, ClosedOnly(S),
         spared \subseteq spared',
         \/ MarkedOnly(S, "REVOKED")
         \/ refresh' = refresh /\ { s \in S : session[s].live } \subseteq spared'
  PROVE  TokensAgree'
<1>1. \A t \in Caller : refresh[t].session \in Caller
  BY DEF U!TypeOK, U!RefreshToken
<1>2. CASE MarkedOnly(S, "REVOKED")
  BY <1>1, <1>2 DEF TokensAgree, ClosedOnly, MarkedOnly
<1>3. CASE refresh' = refresh /\ { s \in S : session[s].live } \subseteq spared'
  BY <1>1, <1>3 DEF TokensAgree, ClosedOnly
<1> QED BY <1>2, <1>3

\* A token that was used twice ends its family and its session.
LEMMA ReplayStep ==
  ASSUME UserInv, U!TypeOK', NEW r \in Caller, U!RevokeReplayed(r)
  PROVE  UserInv'
<1> USE DEF UserInv
<1>1. PICK t \in found[r] : /\ session' = U!Closed({refresh[t].session})
                            /\ refresh' = U!Marked({refresh[t].session}, "REVOKED")
  BY DEF U!RevokeReplayed
<1>2. {refresh[t].session} \in SUBSET Caller
  BY DEF U!TypeOK, U!RefreshToken
<1>3. ClosedOnly({refresh[t].session}) /\ MarkedOnly({refresh[t].session}, "REVOKED")
  BY <1>1, <1>2, SessionsClosed, TokensMarked DEF U!TypeOK
<1>4. Ends(r)
  BY DEF U!RevokeReplayed, U!Done, Ends, U!Goto, U!TypeOK, U!Answer, U!history
<1>5. TokensAgree'
  BY <1>2, <1>3, <1>4, ClosedAgree DEF Ends
<1>6. \A q \in Caller : refresh'[q].status # "none" =>
        session[refresh'[q].session].owner \in User
  BY <1>3 DEF InHand, MarkedOnly
<1> QED BY <1>2, <1>3, <1>4, <1>5, <1>6, EndsInv

\* Sessions are revoked by a logout, with their tokens, or by somebody who
\* leaves them.
LEMMA RevokeStep ==
  ASSUME UserInv, U!TypeOK', NEW u \in User,
         NEW S \in SUBSET { s \in Caller : session[s].owner = u },
         U!LogOut(S) \/ U!RevokeSessions(S)
  PROVE  UserInv'
<1> USE DEF UserInv
<1>1. S \in SUBSET Caller
  OBVIOUS
<1>2. ClosedOnly(S)
  BY <1>1, SessionsClosed DEF U!TypeOK, U!LogOut, U!RevokeSessions
<1>3. /\ spared \subseteq spared'
      /\ \/ MarkedOnly(S, "REVOKED")
         \/ refresh' = refresh /\ { s \in S : session[s].live } \subseteq spared'
  BY <1>1, TokensMarked DEF U!TypeOK, U!LogOut, U!RevokeSessions, U!history
<1>4. TokensAgree'
  BY <1>1, <1>2, <1>3, ClosedAgree
<1>5. UNCHANGED <<user, audited, late, undone, callerPc, arguments, found>>
  BY DEF U!LogOut, U!RevokeSessions, U!local, U!history
<1>6. \A q \in Caller :
        /\ refresh'[q].session = refresh[q].session
        /\ refresh'[q].session \in Caller
        /\ refresh'[q].status # "none" => refresh[q].status # "none"
  BY <1>3 DEF MarkedOnly, U!TypeOK, U!RefreshToken
<1>7. InHand'
  BY <1>2, <1>5, <1>6 DEF InHand, ClosedOnly, U!Of
<1>8. AllListed' /\ OneChange' /\ PasswordsAgree'
  BY <1>2, <1>5 DEF AllListed, OneChange, PasswordsAgree, Opened, ClosedOnly, U!Of
<1>9. U!OneClaimant' /\ U!ChangesAudited'
  BY <1>5 DEF U!OneClaimant, U!ChangesAudited
<1> QED BY <1>4, <1>7, <1>8, <1>9

\* An erased account has no session, no token and no wallet address.
LEMMA EraseStep ==
  ASSUME UserInv, U!TypeOK', NEW u \in User, U!Erase(u)
  PROVE  UserInv'
<1> USE DEF UserInv, U!Of
<1> DEFINE S == { s \in Caller : session[s].owner = u }
<1>0. UNCHANGED <<callerPc, arguments, found, audited, late, undone, spared>>
  BY DEF U!Erase, U!local, U!history
<1>1. \A s \in Caller : session'[s] = IF s \in S THEN U!NoSession ELSE session[s]
  BY DEF U!Erase
<1>2. ~U!NoSession.live
  BY DEF U!NoSession
<1>3. MarkedOnly(S, "none")
  BY S \in SUBSET Caller, TokensMarked DEF U!Erase, U!TypeOK
<1>4. \A t \in Caller : refresh'[t].session = refresh[t].session
                        /\ refresh[t].session \in Caller
                        /\ (refresh'[t].status # "none" =>
                              /\ refresh[t].session \notin S
                              /\ refresh'[t].status = refresh[t].status)
  BY <1>3 DEF MarkedOnly, U!TypeOK, U!RefreshToken
<1>5. \A s \in Caller : session'[s].live => session'[s] = session[s] /\ s \notin S
  BY <1>1, <1>2
<1>6. InHand' /\ TokensAgree'
  <2> HIDE DEF S
  <2>1. InHand'
    BY <1>0, <1>1, <1>4, <1>5 DEF InHand
  <2>2. TokensAgree'
    BY <1>0, <1>1, <1>4 DEF TokensAgree
  <2> QED BY <2>1, <2>2
<1>7. OneChange' /\ U!ChangesAudited' /\ AllListed'
  BY <1>0, <1>5 DEF OneChange, U!ChangesAudited, AllListed
<1>8. PasswordsAgree'
  BY <1>0, <1>5 DEF PasswordsAgree, Opened, InHand, U!Erase, U!TypeOK
<1>9. U!OneClaimant'
  BY DEF U!OneClaimant, U!Erase, U!TypeOK
<1> QED BY <1>6, <1>7, <1>8, <1>9

\* A login writes back the password it was given.
LEMMA TouchStep ==
  ASSUME UserInv, U!TypeOK', NEW r \in Caller, U!TouchAccount(r)
  PROVE  UserInv'
<1> USE DEF UserInv, U!Of
<1>1. U!Of(r) \in User /\ arguments[r].password \in Password \cup {NoPassword}
  BY DEF U!TouchAccount, InHand, U!Call, U!Answer, U!TypeOK
<1>2. \A v \in User :
        /\ user'[v].wallet = user[v].wallet
        /\ v \notin undone' => user'[v].password = user[v].password
  <2>1. CASE arguments[r].rehash
    <3>1. \A v \in User :
            /\ user'[v].wallet = user[v].wallet
            /\ user'[v].password =
                 IF v = U!Of(r) THEN arguments[r].password ELSE user[v].password
      BY <1>1, <2>1, PasswordWritten DEF U!TouchAccount, U!TypeOK
    <3> QED BY <2>1, <3>1 DEF U!TouchAccount, U!Row
  <2>2. CASE ~arguments[r].rehash
    BY <2>2 DEF U!TouchAccount
  <2> QED BY <2>1, <2>2
<1>3. undone \subseteq undone'
  BY DEF U!TouchAccount
<1>4. callerPc' = [callerPc EXCEPT ![r] = "issue"] /\ callerPc[r] = "login"
  BY DEF U!TouchAccount, U!Goto
<1>5. UNCHANGED <<session, refresh, arguments, found, audited, late, spared>>
  BY DEF U!TouchAccount
<1>6. InHand' /\ OneChange' /\ AllListed' /\ TokensAgree' /\ U!ChangesAudited'
  BY <1>1, <1>4, <1>5
    DEF InHand, OneChange, AllListed, TokensAgree, U!ChangesAudited, U!TypeOK
<1>7. PasswordsAgree'
  BY <1>2, <1>3, <1>5 DEF PasswordsAgree, Opened, InHand
<1>8. U!OneClaimant'
  BY <1>2 DEF U!OneClaimant
<1> QED BY <1>6, <1>7, <1>8

\* A login opens its session.
LEMMA OpenStep ==
  ASSUME UserInv, U!TypeOK', NEW r \in Caller, U!OpenSession(r)
  PROVE  UserInv'
<1> USE DEF UserInv, U!Of
<1>1. U!Of(r) \in User
  BY DEF U!OpenSession, InHand, U!Answer
<1>2. /\ session'[r].owner = U!Of(r) /\ session'[r].opened = arguments[r].password
      /\ session'[r].live
      /\ \A s \in Caller \ {r} : session'[s] = session[s]
  BY DEF U!OpenSession, U!TypeOK
<1>3. /\ refresh'[r].session = r
      /\ \A t \in Caller \ {r} : refresh'[t] = refresh[t] /\ refresh[t].session \in Caller
  BY DEF U!OpenSession, U!TypeOK, U!RefreshToken
<1>4. /\ callerPc[r] = "issue" /\ callerPc'[r] = "opened"
      /\ \A q \in Caller \ {r} : callerPc'[q] = callerPc[q]
                                 /\ arguments'[q] = arguments[q] /\ found'[q] = found[q]
  BY DEF U!OpenSession, U!Done, U!Goto, U!TypeOK
<1>5. late \subseteq late' /\ UNCHANGED <<user, audited, undone, spared>>
  BY DEF U!OpenSession
<1>6. InHand'
  BY <1>1, <1>2, <1>3, <1>4 DEF InHand, U!Answer
<1>7. TokensAgree'
  BY <1>2, <1>3, <1>5 DEF TokensAgree
<1>8. OneChange' /\ U!ChangesAudited' /\ U!OneClaimant'
  BY <1>4, <1>5 DEF OneChange, U!ChangesAudited, U!OneClaimant
<1>9. AllListed'
  <2>1. r \in late' \/ ~U!Locked(U!Of(r))
    BY DEF U!OpenSession
  <2> QED BY <1>2, <1>4, <1>5, <2>1 DEF AllListed, U!Locked, U!Changing
<1>10. PasswordsAgree'
  <2>1. r \in late' \/ user[U!Of(r)].password = arguments[r].password
    BY DEF U!OpenSession, U!Row
  <2> QED BY <1>2, <1>5, <2>1 DEF PasswordsAgree, Opened
<1> QED BY <1>6, <1>7, <1>8, <1>9, <1>10

\* A change or a reset of the password ends the sessions that it has listed; a
\* reset spares their tokens.
LEMMA CommitStep ==
  ASSUME UserInv, U!TypeOK', NEW r \in Caller, U!CommitChange(r) \/ U!CommitReset(r)
  PROVE  UserInv'
<1> USE DEF UserInv, U!Of
<1>1. U!Of(r) \in User /\ arguments[r].password \in Password \cup {NoPassword}
  BY DEF InHand, U!Call, U!CommitChange, U!CommitReset, U!Answer, U!TypeOK
<1>2. \A v \in User :
        /\ user'[v].wallet = user[v].wallet
        /\ v # U!Of(r) => user'[v].password = user[v].password
  BY <1>1, PasswordWritten DEF U!SetPassword, U!CommitChange, U!CommitReset, U!TypeOK
<1>3. found[r] \in SUBSET Caller /\ ClosedOnly(found[r])
  BY SessionsClosed DEF U!CommitChange, U!CommitReset, U!TypeOK
<1>4. /\ spared \subseteq spared'
      /\ \/ MarkedOnly(found[r], "REVOKED")
         \/ refresh' = refresh /\ { s \in found[r] : session[s].live } \subseteq spared'
  BY <1>3, TokensMarked DEF U!CommitChange, U!CommitReset, U!TypeOK, U!history
<1>5. /\ callerPc[r] = "revoke"
      /\ \/ callerPc'[r] = "changed" /\ audited' = audited \cup {r}
         \/ callerPc'[r] = "reset" /\ audited' = audited
      /\ \A q \in Caller \ {r} : callerPc'[q] = callerPc[q]
                                 /\ arguments'[q] = arguments[q] /\ found'[q] = found[q]
      /\ UNCHANGED <<late, undone>>
  BY DEF U!CommitChange, U!CommitReset, U!Done, U!Goto, U!TypeOK, U!history
<1>6. TokensAgree'
  BY <1>3, <1>4, ClosedAgree
<1>7. \A q \in Caller :
        /\ refresh'[q].session = refresh[q].session
        /\ refresh'[q].session \in Caller
        /\ refresh'[q].status # "none" => refresh[q].status # "none"
  BY <1>4 DEF MarkedOnly, U!TypeOK, U!RefreshToken
<1>8. InHand'
  BY <1>3, <1>5, <1>7 DEF InHand, ClosedOnly, U!Answer
<1>9. OneChange' /\ AllListed'
  BY <1>3, <1>5 DEF OneChange, AllListed, ClosedOnly
<1>10. PasswordsAgree'
  BY <1>2, <1>3, <1>5 DEF PasswordsAgree, Opened, InHand, AllListed, ClosedOnly
<1>11. U!OneClaimant' /\ U!ChangesAudited'
  BY <1>2, <1>5 DEF U!OneClaimant, U!ChangesAudited
<1> QED BY <1>6, <1>8, <1>9, <1>10, <1>11

\* A wallet address is written when nobody else has it.
LEMMA WalletStep ==
  ASSUME UserInv, U!TypeOK', NEW r \in Caller, U!WriteWallet(r)
  PROVE  UserInv'
<1> USE DEF UserInv, U!Of
<1>1. U!Of(r) \in User
  BY DEF InHand, U!WriteWallet, U!Answer
<1>2. \A v \in User : user'[v].password = user[v].password
  BY <1>1 DEF U!Account, U!WriteWallet, U!TypeOK
<1>3. /\ callerPc[r] = "write"
      /\ \/ callerPc'[r] = "conflict" /\ audited' = audited
         \/ callerPc'[r] = "updated" /\ audited' = audited \cup {r}
      /\ \A q \in Caller \ {r} : callerPc'[q] = callerPc[q]
                                 /\ arguments'[q] = arguments[q] /\ found'[q] = found[q]
      /\ UNCHANGED <<session, refresh, U!history>>
  BY DEF U!WriteWallet, U!Done, U!Goto, U!TypeOK
<1>4. InHand' /\ OneChange' /\ AllListed' /\ TokensAgree'
  BY <1>3 DEF InHand, OneChange, AllListed, TokensAgree, U!Answer, U!history
<1>5. PasswordsAgree'
  BY <1>2, <1>3 DEF PasswordsAgree, Opened, InHand, U!history
<1>6. U!OneClaimant'
  <2>1. CASE U!Claimed(r)
    BY <2>1 DEF U!OneClaimant, U!WriteWallet
  <2>2. CASE ~U!Claimed(r)
    <3>1. \A v \in User : user'[v].wallet = IF v = U!Of(r) THEN arguments[r].wallet
                                            ELSE user[v].wallet
      BY <1>1, <2>2 DEF U!Account, U!WriteWallet, U!TypeOK
    <3> QED BY <2>2, <3>1 DEF U!OneClaimant, U!Claimed
  <2> QED BY <2>1, <2>2
<1>7. U!ChangesAudited'
  BY <1>3 DEF U!ChangesAudited
<1> QED BY <1>4, <1>5, <1>6, <1>7

LEMMA UserStep == ASSUME UserInv, [U!Next]_U!vars PROVE UserInv'
<1>1. U!TypeOK'
  BY UserTypeStep DEF UserInv
<1>2. CASE UNCHANGED U!vars
  BY <1>2 DEF U!vars, U!rows, U!local, U!history, UserInv, U!TypeOK, InHand, OneChange,
     AllListed, TokensAgree, PasswordsAgree, Opened, U!OneClaimant, U!ChangesAudited, U!Of
<1>3. CASE U!Next
  BY <1>1, <1>3, StartsStep, LooksStep, StartRefreshStep, RefreshStep, ReplayStep,
     RevokeStep, EraseStep, TouchStep, OpenStep, CommitStep, WalletStep
     DEF U!Next
<1> QED BY <1>2, <1>3

LEMMA UserAlways == ASSUME U!UserAccountAssumption PROVE U!Spec => []UserInv
BY UserInit, UserStep, PTL DEF U!Spec

(* The rows of the users, their sessions and the tokens of those, and the   *)
(* requests in flight, keep their types (services/user-account.service.ts). *)
THEOREM UsersTyped == U!Spec => []U!TypeOK
<1>1. UserInv => U!TypeOK
  BY DEF UserInv
<1> QED BY <1>1, UserAlways, RecordsAssumption, PTL

(* No session outlives the password it was opened with, in whatever order   *)
(* changes, resets, logins, refreshes, revocations, failures and erasures   *)
(* come, but for logins that were overtaken; and a token that is ACTIVE is  *)
(* of a live session, of one that a reset or an owner revoked without its   *)
(* tokens, or was minted by a refresh that was overtaken (changePassword,   *)
(* resetPassword, rotate, revokeOne).                                       *)
THEOREM SignedOutAlways == U!Spec => []SignedOut
<1>1. UserInv => SignedOut
  BY DEF UserInv, TokensAgree, PasswordsAgree, Opened, SignedOut, U!SignedOut
<1> QED BY <1>1, UserAlways, RecordsAssumption, PTL

(* A wallet address has one user, whoever looks for another claimant at the *)
(* same time (updateWalletAddress).                                         *)
THEOREM OneClaimantAlways == U!Spec => []U!OneClaimant
<1>1. UserInv => U!OneClaimant
  BY DEF UserInv
<1> QED BY <1>1, UserAlways, RecordsAssumption, PTL

(* The trail names the requests whose change was made, and no other         *)
(* (auditedMutation).                                                       *)
THEOREM UsersAudited == U!Spec => []U!ChangesAudited
<1>1. UserInv => U!ChangesAudited
  BY DEF UserInv
<1> QED BY <1>1, UserAlways, RecordsAssumption, PTL

-------------------------------------------------------------------------------
(***************************************************************************)
(* The views of a profile.  ClosedGatesHold rests on Noticed: what a view  *)
(* has read shows the gates that are closed since it began.                *)
(***************************************************************************)
(* What a view has read shows the gates that are closed since it began.     *)
Noticed ==
  /\ "profile" \notin todo =>
       /\ "there" \in closed => seen["profile"] = "none"
       /\ "visibility" \in closed =>
            seen["profile"] = "none"
              \/ ~(L!VisibilityRank[seen["profile"]] >= L!VisibilityRank[viewer])
  /\ "account" \notin todo /\ "status" \in closed => seen["account"] # "ACTIVE"
  /\ "consents" \notin todo /\ "consent" \in closed => seen["consents"] = "withdrawn"

ProfileInv ==
  /\ closed \subseteq L!Gate
  /\ seen = [x \in L!Read |-> seen[x]]
  /\ viewPc = "reading" => closed \subseteq L!Shut /\ Noticed
  /\ L!ClosedGatesHold

LEMMA ProfileInit == L!Init => ProfileInv
<1> SUFFICES ASSUME L!Init PROVE ProfileInv
  OBVIOUS
<1>1. seen = [x \in L!Read |-> seen[x]]
  BY DEF L!Init, L!Nothing, L!Read
<1> QED BY <1>1 DEF L!Init, ProfileInv, L!ClosedGatesHold

\* A row that changes opens gates or leaves them closed.
LEMMA WatchedStep == ASSUME ProfileInv, L!Watched PROVE ProfileInv'
<1>1. closed' \subseteq closed /\ (viewPc = "reading" => closed' \subseteq L!Shut')
  BY DEF L!Watched
<1>2. UNCHANGED <<viewPc, viewer, todo, seen>>
  BY DEF L!Watched
<1>3. Noticed => Noticed'
  BY <1>1, <1>2 DEF Noticed
<1> QED BY <1>1, <1>2, <1>3 DEF ProfileInv, L!ClosedGatesHold

LEMMA ViewStep == ASSUME ProfileInv, NEW w, L!StartView(w) PROVE ProfileInv'
<1>1. viewPc' = "reading" /\ todo' = L!Read /\ seen' = L!Nothing /\ closed' = L!Shut'
  BY DEF L!StartView
<1>2. closed' \subseteq L!Gate
  BY <1>1 DEF L!Shut, L!Gate
<1>3. seen' = [x \in L!Read |-> seen'[x]]
  BY <1>1 DEF L!Nothing, L!Read
<1>4. Noticed'
  BY <1>1 DEF Noticed, L!Read
<1> QED BY <1>1, <1>2, <1>3, <1>4 DEF ProfileInv, L!ClosedGatesHold

LEMMA ReadStep == ASSUME ProfileInv, NEW x \in L!Read, L!ReadOne(x) PROVE ProfileInv'
<1>1. /\ viewPc = "reading" /\ x \in todo /\ todo' = todo \ {x}
      /\ seen' = [seen EXCEPT ![x] = L!Returns(x)]
      /\ UNCHANGED <<status, consents, learner, viewPc, viewer, closed>>
  BY DEF L!ReadOne, L!rows
<1>2. L!Shut' = L!Shut
  BY <1>1 DEF L!Shut
<1>3. seen'[x] = L!Returns(x) /\ \A y \in L!Read : y # x => seen'[y] = seen[y]
  BY <1>1 DEF ProfileInv
<1>4. seen' = [y \in L!Read |-> seen'[y]]
  BY <1>1 DEF ProfileInv
<1>5. closed \subseteq L!Shut /\ Noticed
  BY <1>1 DEF ProfileInv
<1>6. CASE x = "profile"
  <2>1. "there" \in closed => seen'["profile"] = "none"
    BY <1>3, <1>5, <1>6 DEF L!Shut, L!Returns, L!FoundFirst
  <2>2. "visibility" \in closed =>
          seen'["profile"] = "none"
            \/ ~(L!VisibilityRank[seen'["profile"]] >= L!VisibilityRank[viewer])
    BY <1>3, <1>5, <1>6 DEF L!Shut, L!Returns, L!FoundFirst
  <2> QED
    BY <1>1, <1>2, <1>3, <1>4, <1>5, <1>6, <2>1, <2>2
    DEF Noticed, ProfileInv, L!ClosedGatesHold, L!Read
<1>7. CASE x = "account"
  <2>1. "status" \in closed => seen'["account"] # "ACTIVE"
    BY <1>3, <1>5, <1>7 DEF L!Shut, L!Returns
  <2> QED
    BY <1>1, <1>2, <1>3, <1>4, <1>5, <1>7, <2>1
      DEF Noticed, ProfileInv, L!ClosedGatesHold, L!Read
<1>8. CASE x = "consents"
  <2>1. "consent" \in closed => seen'["consents"] = "withdrawn"
    BY <1>3, <1>5, <1>8 DEF L!Shut, L!Returns, L!Latest
  <2> QED
    BY <1>1, <1>2, <1>3, <1>4, <1>5, <1>8, <2>1
      DEF Noticed, ProfileInv, L!ClosedGatesHold, L!Read
<1> QED BY <1>6, <1>7, <1>8 DEF L!Read

LEMMA ShowStep == ASSUME ProfileInv, L!Answer PROVE ProfileInv'
<1>1. /\ viewPc = "reading" /\ todo = {} /\ viewPc' # "reading"
      /\ UNCHANGED <<todo, seen, closed, viewer>>
  BY DEF L!Answer
<1>2. Noticed /\ closed \subseteq L!Gate
  BY <1>1 DEF ProfileInv
<1>3. ASSUME viewPc' = "shown" PROVE closed = {}
  <2>1. /\ seen["profile"] # "none" /\ seen["account"] = "ACTIVE"
        /\ seen["consents"] # "withdrawn"
        /\ L!VisibilityRank[seen["profile"]] >= L!VisibilityRank[viewer]
    BY <1>3 DEF L!Answer, L!IsDisclosureAllowed, L!Visible
  <2> QED BY <1>1, <1>2, <2>1 DEF Noticed, L!Gate
<1> QED BY <1>1, <1>3 DEF ProfileInv, L!ClosedGatesHold

LEMMA ProfileStep == ProfileInv /\ [L!Next]_L!vars => ProfileInv'
<1> SUFFICES ASSUME ProfileInv, [L!Next]_L!vars PROVE ProfileInv'
  OBVIOUS
<1>1. ASSUME UNCHANGED L!vars PROVE ProfileInv'
  BY <1>1 DEF ProfileInv, L!ClosedGatesHold, Noticed, L!Shut, L!vars, L!rows, L!view
<1>2. ASSUME NEW v \in L!Visibility, L!PatchUser(v) \/ L!UpdateMyProfile(v)
      PROVE  ProfileInv'
  BY <1>2, WatchedStep DEF L!PatchUser, L!UpdateMyProfile, L!UpdateProfile
<1>3. ASSUME L!GetMyProfile \/ L!GetOwnerAccountProfile PROVE ProfileInv'
  BY <1>3, WatchedStep
    DEF L!GetMyProfile, L!GetOwnerAccountProfile, L!GetOrCreateProfile
<1>4. ASSUME L!GetCurrentUser PROVE ProfileInv'
  BY <1>4
    DEF L!GetCurrentUser, L!CheckAccount, ProfileInv, L!ClosedGatesHold, Noticed,
        L!Shut, L!rows, L!view
<1>5. ASSUME NEW s \in L!Status, L!ChangeStatus(s) PROVE ProfileInv'
  BY <1>5, WatchedStep DEF L!ChangeStatus
<1>6. ASSUME L!Grant \/ L!Withdraw \/ L!Archive \/ L!Restore PROVE ProfileInv'
  BY <1>6, WatchedStep DEF L!Grant, L!Withdraw, L!Archive, L!Restore
<1>7. ASSUME L!GetUserById PROVE ProfileInv'
  BY <1>7, ViewStep DEF L!GetUserById
<1>8. ASSUME NEW w \in {"employer", "public"}, L!GetProfileById(w) PROVE ProfileInv'
  BY <1>8, ViewStep DEF L!GetProfileById
<1> QED
  BY <1>1, <1>2, <1>3, <1>4, <1>5, <1>6, <1>7, <1>8, ReadStep, ShowStep DEF L!Next

(* Whatever the owner, the account and the archive do while a view reads,    *)
(* and in whatever order it reads, nothing is shown past a gate that was     *)
(* closed from its beginning to its end (disclosureContext,                  *)
(* isDisclosureAllowed).                                                     *)
THEOREM ClosedGatesAlways == L!Spec => []ClosedGatesHold
<1>1. ProfileInv => ClosedGatesHold
  BY DEF ProfileInv, ClosedGatesHold
<1> QED BY <1>1, ProfileInit, ProfileStep, PTL DEF L!Spec

-------------------------------------------------------------------------------
(***************************************************************************)
(* The preferences.  LogIsHistory rests on Pending: while an update is     *)
(* alone, what it read is what the log ends with, and what it is to log    *)
(* leads from there to the row.                                            *)
(***************************************************************************)
\* A value of a field that its log accounts for.
Logged(v, f) ==
  /\ log[f] = <<>> => v \in {Unset, Default}
  /\ log[f] # <<>> => v = log[f][Len(log[f])].new

History(f) ==
  \A i \in 1 .. Len(log[f]) :
    /\ log[f][i].old # log[f][i].new
    /\ i > 1 => log[f][i].old = log[f][i - 1].new

(* What an update that is alone leaves for the log: the row as it was is    *)
(* logged, and so is what its body does not name; the row is what it wrote. *)
Pending(r) ==
  /\ updatePc[r] \in {"upsert", "log"} => \A f \in Field : Logged(before[r][f], f)
  /\ updatePc[r] = "upsert" => \A f \in Field : Logged(row[f], f)
  /\ updatePc[r] = "log" =>
       \A f \in Field :
         /\ row[f] = after[r][f] /\ row[f] \in Setting
         /\ data[r][f] = Unset => Logged(row[f], f)

AtRest == P!Busy = {} => \A f \in Field : Logged(row[f], f)

PrefInv ==
  /\ P!TypeOK
  /\ \A r \in Update : updatePc[r] = "log" => after[r] \in [Field -> Setting]
  /\ ~updateMixed =>
       /\ \A r, q \in Update : r \in P!Busy /\ q \in P!Busy => r = q
       /\ \A r \in Update : Pending(r)
       /\ AtRest
       /\ \A f \in Field : History(f)

LEMMA PrefInit == P!Init => PrefInv
<1> SUFFICES ASSUME P!Init PROVE PrefInv
  OBVIOUS
<1>1. P!NoRow \in P!Row
  BY DEF P!NoRow, P!Row
<1>2. P!TypeOK
  <2>1. <<>> \in Seq(P!Entry)
    OBVIOUS
  <2>2. log \in [Field -> Seq(P!Entry)]
    BY <2>1 DEF P!Init
  <2> QED BY <1>1, <2>2 DEF P!Init, P!TypeOK, P!Pc
<1>3. /\ \A r, q \in Update : r \in P!Busy /\ q \in P!Busy => r = q
      /\ \A r \in Update : Pending(r) /\ updatePc[r] # "log"
  BY DEF P!Init, P!Busy, Pending
<1>4. AtRest
  <2>1. \A f \in Field : log[f] = <<>> /\ row[f] = Unset
    BY DEF P!Init, P!NoRow
  <2> QED BY <2>1 DEF AtRest, Logged
<1>5. ASSUME NEW f \in Field PROVE History(f)
  <2>1. log[f] = <<>>
    BY DEF P!Init
  <2> QED BY <2>1 DEF History
<1> QED BY <1>2, <1>3, <1>4, <1>5 DEF PrefInv

\* What an upsert makes of a row.
LEMMA UpsertedIs ==
  ASSUME P!PreferencesAssumption, P!TypeOK, NEW d \in P!Row
  PROVE  /\ P!Upserted(d) \in [Field -> Setting]
         /\ \A f \in Field :
              /\ d[f] # Unset => P!Upserted(d)[f] = d[f]
              /\ d[f] = Unset /\ row[f] # Unset => P!Upserted(d)[f] = row[f]
              /\ d[f] = Unset /\ row[f] = Unset => P!Upserted(d)[f] = Default
<1> DEFINE v(f) == CASE d[f] # Unset -> d[f]
                     [] d[f] = Unset /\ row[f] # Unset -> row[f]
                     [] OTHER -> Default
<1>1. ASSUME NEW f \in Field
      PROVE  /\ v(f) \in Setting
             /\ d[f] # Unset => v(f) = d[f]
             /\ d[f] = Unset /\ row[f] # Unset => v(f) = row[f]
             /\ d[f] = Unset /\ row[f] = Unset => v(f) = Default
  BY DEF P!PreferencesAssumption, P!TypeOK, P!Row
<1>2. P!Upserted(d) = [f \in Field |-> v(f)]
  BY DEF P!Upserted
<1> HIDE DEF v
<1> QED BY <1>1, <1>2

\* What is logged of a row stays so when its defaults are filled in.
LEMMA FilledIn ==
  ASSUME P!PreferencesAssumption, P!TypeOK, NEW f \in Field, Logged(row[f], f),
         NEW w, row[f] # Unset => w = row[f], row[f] = Unset => w = Default
  PROVE  Logged(w, f)
<1>1. CASE log[f] = <<>>
  BY <1>1 DEF Logged
<1>2. CASE log[f] # <<>>
  <2>1. log[f] \in Seq(P!Entry)
    BY DEF P!TypeOK
  <2>2. log[f][Len(log[f])] \in P!Entry
    BY <1>2, <2>1
  <2>3. row[f] \in Setting
    BY <1>2, <2>2 DEF Logged, P!Entry
  <2> QED BY <1>2, <2>3 DEF Logged, P!PreferencesAssumption
<1> QED BY <1>1, <1>2

LEMMA PrefTypeStep ==
  ASSUME P!PreferencesAssumption, PrefInv, [P!Next]_P!vars
  PROVE  P!TypeOK'
<1>0. P!NoRow \in P!Row /\ [Field -> Setting] \subseteq P!Row /\ P!TypeOK
  BY DEF P!NoRow, P!Row, PrefInv
<1>1. CASE UNCHANGED P!vars
  BY <1>0, <1>1 DEF P!vars, P!local, P!TypeOK
<1>2. CASE P!GetPreferences
  <2>1. row' \in P!Row
    BY <1>0, <1>2, UpsertedIs DEF P!GetPreferences
  <2> QED BY <1>0, <1>2, <2>1 DEF P!GetPreferences, P!local, P!TypeOK
<1>3. ASSUME NEW r \in Update, NEW d \in P!Row, P!StartUpdate(r, d) PROVE P!TypeOK'
  <2>1. updateMixed' \in BOOLEAN
    <3>1. updateMixed' = (updateMixed \/ P!Busy # {})
      BY <1>3 DEF P!StartUpdate
    <3> QED BY <3>1
  <2> QED BY <1>0, <1>3, <2>1 DEF P!StartUpdate, P!Goto, P!TypeOK, P!Pc
<1>4. ASSUME NEW r \in Update, P!Upsert(r) PROVE P!TypeOK'
  <2>1. row' \in P!Row
    BY <1>0, <1>4, UpsertedIs DEF P!Upsert, P!TypeOK
  <2> QED BY <1>0, <1>4, <2>1 DEF P!Upsert, P!Goto, P!TypeOK, P!Pc
<1>5. ASSUME NEW r \in Update, P!AuditPrivacyChanges(r) PROVE P!TypeOK'
  <2>1. ASSUME NEW f \in Field, f \in P!Changed(r)
        PROVE  [old |-> before[r][f], new |-> after[r][f]] \in P!Entry
    <3>1. after[r] \in [Field -> Setting] /\ before[r] \in P!Row
      BY <1>0, <1>5 DEF P!AuditPrivacyChanges, PrefInv, P!TypeOK
    <3> QED BY <3>1 DEF P!Entry, P!Row
  <2>2. log' \in [Field -> Seq(P!Entry)]
    BY <1>0, <1>5, <2>1 DEF P!AuditPrivacyChanges, P!TypeOK
  <2> QED BY <1>0, <1>5, <2>2 DEF P!AuditPrivacyChanges, P!Goto, P!TypeOK, P!Pc
<1>6. ASSUME NEW r \in Update, P!Fail(r) PROVE P!TypeOK'
  <2>1. updateMixed' \in BOOLEAN
    <3>1. updateMixed' = (updateMixed \/ updatePc[r] = "log")
      BY <1>6 DEF P!Fail
    <3> QED BY <3>1
  <2> QED BY <1>0, <1>6, <2>1 DEF P!Fail, P!Goto, P!TypeOK, P!Pc
<1> QED BY <1>1, <1>2, <1>3, <1>4, <1>5, <1>6 DEF P!Next

LEMMA PrefStep ==
  ASSUME P!PreferencesAssumption, PrefInv, P!TypeOK', [P!Next]_P!vars
  PROVE  PrefInv'
<1>0. /\ P!TypeOK
      /\ \A r \in Update : updatePc[r] = "log" => after[r] \in [Field -> Setting]
      /\ ~updateMixed => /\ \A r, q \in Update : r \in P!Busy /\ q \in P!Busy => r = q
                         /\ \A r \in Update : Pending(r)
                         /\ AtRest
                         /\ \A f \in Field : History(f)
  BY DEF PrefInv
<1>1. CASE UNCHANGED P!vars
  <2>1. P!Busy' = P!Busy
    BY <1>1 DEF P!vars, P!local, P!Busy
  <2>2. ~updateMixed => \A r \in Update : Pending(r)'
    BY <1>0, <1>1 DEF P!vars, P!local, Pending, Logged
  <2>3. ~updateMixed => AtRest' /\ \A f \in Field : History(f)'
    BY <1>0, <1>1, <2>1 DEF P!vars, P!local, AtRest, Logged, History
  <2>4. \A r \in Update : updatePc'[r] = "log" => after'[r] \in [Field -> Setting]
    BY <1>0, <1>1 DEF P!vars, P!local
  <2>5. updateMixed' = updateMixed
    BY <1>1 DEF P!vars
  <2> QED BY <1>0, <2>1, <2>2, <2>3, <2>4, <2>5 DEF PrefInv
\* Defaults that are filled in change nothing that is logged.
<1>2. CASE P!GetPreferences
  <2>1. UNCHANGED <<log, updatePc, data, before, after, updateMixed>> /\ P!Busy' = P!Busy
    BY <1>2 DEF P!GetPreferences, P!local, P!Busy
  <2>2. \A f \in Field : /\ row[f] # Unset => row'[f] = row[f]
                         /\ row[f] = Unset => row'[f] = Default
    <3>1. P!NoRow \in P!Row /\ \A f \in Field : P!NoRow[f] = Unset
      BY DEF P!NoRow, P!Row
    <3> QED BY <1>0, <1>2, <3>1, UpsertedIs DEF P!GetPreferences
  <2>3. \A f \in Field : Logged(row[f], f) => Logged(row'[f], f)
    BY <1>0, <2>2, FilledIn
  <2>5. \A f \in Field : row[f] \in Setting => row'[f] = row[f]
    BY <2>2 DEF P!PreferencesAssumption
  <2>6. ASSUME ~updateMixed, NEW r \in Update PROVE Pending(r)'
    BY <1>0, <2>1, <2>3, <2>5, <2>6 DEF Pending, Logged
  <2>7. ~updateMixed => AtRest'
    BY <1>0, <2>1, <2>3 DEF AtRest, Logged
  <2>8. ~updateMixed => \A f \in Field : History(f)'
    BY <1>0, <2>1 DEF History
  <2> QED BY <1>0, <2>1, <2>6, <2>7, <2>8 DEF PrefInv
\* Alone, it starts from the row that the log accounts for.
<1>3. ASSUME NEW r \in Update, NEW d \in P!Row, P!StartUpdate(r, d) PROVE PrefInv'
  <2>1. /\ UNCHANGED <<row, log, after>> /\ updatePc'[r] = "upsert" /\ before'[r] = row
        /\ \A q \in Update : q # r => updatePc'[q] = updatePc[q] /\ before'[q] = before[q] /\ data'[q] = data[q]
    BY <1>0, <1>3 DEF P!StartUpdate, P!Goto, P!TypeOK
  <2>2. updateMixed \/ P!Busy # {} => updateMixed'
    BY <1>3 DEF P!StartUpdate
  <2>3. ~updateMixed' => P!Busy' = {r}
    BY <2>1, <2>2 DEF P!Busy
  <2>4. ASSUME ~updateMixed', NEW q \in Update PROVE Pending(q)'
    <3>1. CASE q = r
      BY <1>0, <2>1, <2>2, <2>4, <3>1 DEF Pending, Logged, AtRest
    <3>2. CASE q # r
      BY <2>1, <2>2, <2>4, <3>2 DEF Pending, P!Busy
    <3> QED BY <3>1, <3>2
  <2>5. ~updateMixed' => AtRest' /\ \A f \in Field : History(f)'
    BY <1>0, <2>1, <2>2, <2>3 DEF AtRest, History
  <2>6. \A q \in Update : updatePc'[q] = "log" => after'[q] \in [Field -> Setting]
    BY <1>0, <2>1
  <2> QED BY <2>3, <2>4, <2>5, <2>6 DEF PrefInv
\* The row is what it wrote; what the body does not name is as it was.
<1>4. ASSUME NEW r \in Update, P!Upsert(r) PROVE PrefInv'
  <2>1. /\ UNCHANGED <<log, data, before, updateMixed>> /\ updatePc[r] = "upsert" /\ updatePc'[r] = "log"
        /\ row' = P!Upserted(data[r]) /\ after'[r] = row'
        /\ \A q \in Update : q # r => updatePc'[q] = updatePc[q] /\ after'[q] = after[q]
    BY <1>0, <1>4 DEF P!Upsert, P!Goto, P!TypeOK
  <2>2. data[r] \in P!Row
    BY <1>0 DEF P!TypeOK
  <2>3. /\ row' \in [Field -> Setting]
        /\ \A f \in Field :
             data[r][f] = Unset => /\ row[f] # Unset => row'[f] = row[f]
                                   /\ row[f] = Unset => row'[f] = Default
    BY <1>0, <2>1, <2>2, UpsertedIs
  <2>4. r \in P!Busy /\ P!Busy' = P!Busy
    BY <2>1 DEF P!Busy
  <2>5. ~updateMixed => \A f \in Field : Logged(row[f], f) /\ Logged(before[r][f], f)
    BY <1>0, <2>1 DEF Pending
  <2>6. ~updateMixed => \A f \in Field : data[r][f] = Unset => Logged(row'[f], f)
    BY <1>0, <2>3, <2>5, FilledIn
  <2>7. ASSUME ~updateMixed, NEW q \in Update PROVE Pending(q)'
    <3>1. CASE q = r
      BY <2>1, <2>3, <2>5, <2>6, <2>7, <3>1 DEF Pending, Logged
    <3>2. CASE q # r
      BY <1>0, <2>1, <2>4, <2>7, <3>2 DEF Pending, P!Busy
    <3> QED BY <3>1, <3>2
  <2>8. AtRest'
    BY <2>4 DEF AtRest
  <2>9. ~updateMixed => \A f \in Field : History(f)'
    BY <1>0, <2>1 DEF History
  <2>10. \A q \in Update : updatePc'[q] = "log" => after'[q] \in [Field -> Setting]
    BY <1>0, <2>1, <2>3
  <2> QED BY <1>0, <2>1, <2>4, <2>7, <2>8, <2>9, <2>10 DEF PrefInv
\* The entry leads from the value that was logged to the one in the row.
<1>5. ASSUME NEW r \in Update, P!AuditPrivacyChanges(r) PROVE PrefInv'
  <2>1. /\ UNCHANGED <<row, data, before, after, updateMixed>> /\ updatePc[r] = "log" /\ updatePc'[r] = "done"
        /\ \A q \in Update : q # r => updatePc'[q] = updatePc[q]
    BY <1>0, <1>5 DEF P!AuditPrivacyChanges, P!Goto, P!TypeOK
  <2>2. r \in P!Busy /\ P!Busy' = P!Busy \ {r}
    BY <2>1 DEF P!Busy
  <2>3. ~updateMixed => P!Busy' = {} /\ \A q \in Update : q # r => q \notin P!Busy
    <3>1. P!Busy \subseteq Update
      BY DEF P!Busy
    <3> QED BY <1>0, <2>2, <3>1
  <2>4. ASSUME ~updateMixed, NEW f \in Field PROVE History(f)' /\ Logged(row[f], f)'
    <3>0. /\ Logged(before[r][f], f) /\ History(f) /\ row[f] = after[r][f] /\ row[f] \in Setting
          /\ data[r][f] = Unset => Logged(row[f], f)
      BY <1>0, <2>1, <2>4 DEF Pending
    <3>1. log[f] \in Seq(P!Entry)
      BY <1>0 DEF P!TypeOK
    <3>2. CASE f \notin P!Changed(r)
      <4>1. log'[f] = log[f]
        BY <1>5, <3>2 DEF P!AuditPrivacyChanges
      <4>2. Logged(row[f], f)
        BY <3>0, <3>2 DEF P!Changed
      <4> QED BY <2>1, <3>0, <4>1, <4>2 DEF History, Logged
    <3>3. CASE f \in P!Changed(r)
      <4> DEFINE e == [old |-> before[r][f], new |-> after[r][f]]
      <4>1. log'[f] = Append(log[f], e)
        BY <1>5, <3>3 DEF P!AuditPrivacyChanges
      <4>2. e.old = before[r][f] /\ e.new = row[f] /\ e.old # e.new
        BY <3>0, <3>3 DEF P!Changed
      <4> HIDE DEF e
      <4>3. /\ Len(log'[f]) = Len(log[f]) + 1 /\ Len(log[f]) \in Nat
            /\ log'[f][Len(log[f]) + 1] = e
            /\ \A i \in 1 .. Len(log[f]) : log'[f][i] = log[f][i]
            /\ log'[f] # <<>>
        BY <3>1, <4>1
      <4>4. Logged(row[f], f)'
        BY <2>1, <4>2, <4>3 DEF Logged
      <4>5. Len(log[f]) > 0 => e.old = log[f][Len(log[f])].new
        <5>1. Len(log[f]) > 0 => log[f] # <<>>
          BY <3>1
        <5> QED BY <3>0, <4>2, <5>1 DEF Logged
      <4>6. ASSUME NEW i \in 1 .. Len(log'[f])
            PROVE  /\ log'[f][i].old # log'[f][i].new
                   /\ i > 1 => log'[f][i].old = log'[f][i - 1].new
        <5>1. CASE i = Len(log[f]) + 1
          <6>1. i > 1 => log'[f][i - 1] = log[f][Len(log[f])] /\ Len(log[f]) > 0
            BY <4>3, <5>1
          <6> QED BY <4>2, <4>3, <4>5, <5>1, <6>1
        <5>2. CASE i # Len(log[f]) + 1
          <6>1. i \in 1 .. Len(log[f]) /\ (i > 1 => i - 1 \in 1 .. Len(log[f]))
            BY <4>3, <5>2
          <6> QED BY <3>0, <4>3, <6>1 DEF History
        <5> QED BY <5>1, <5>2
      <4> QED BY <4>4, <4>6 DEF History
    <3> QED BY <3>2, <3>3
  <2>5. ~updateMixed => \A q \in Update : Pending(q)'
    BY <2>1, <2>3 DEF Pending, P!Busy
  <2>6. ~updateMixed => AtRest'
    BY <2>4 DEF AtRest
  <2>7. \A q \in Update : updatePc'[q] = "log" => after'[q] \in [Field -> Setting]
    BY <1>0, <2>1
  <2> QED BY <2>1, <2>3, <2>4, <2>5, <2>6, <2>7 DEF PrefInv
\* What fails before its write has written nothing.
<1>6. ASSUME NEW r \in Update, P!Fail(r) PROVE PrefInv'
  <2>1. /\ UNCHANGED <<row, log, data, before, after>> /\ r \in P!Busy /\ updatePc'[r] = "done"
        /\ \A q \in Update : q # r => updatePc'[q] = updatePc[q]
    BY <1>0, <1>6 DEF P!Fail, P!Goto, P!TypeOK, P!Busy
  <2>2. updateMixed \/ updatePc[r] = "log" => updateMixed'
    BY <1>6 DEF P!Fail
  <2>3. P!Busy' = P!Busy \ {r}
    BY <2>1 DEF P!Busy
  <2>4. ~updateMixed' => P!Busy' = {} /\ \A q \in Update : q # r => q \notin P!Busy
    <3>1. P!Busy \subseteq Update
      BY DEF P!Busy
    <3> QED BY <1>0, <2>1, <2>2, <2>3, <3>1
  <2>5. ~updateMixed' => \A q \in Update : Pending(q)'
    BY <2>1, <2>4 DEF Pending, P!Busy
  <2>6. ~updateMixed' => AtRest'
    <3>1. ~updateMixed' => updatePc[r] = "upsert"
      BY <2>1, <2>2 DEF P!Busy
    <3> QED BY <1>0, <2>1, <2>2, <3>1 DEF AtRest, Pending, Logged
  <2>7. ~updateMixed' => \A f \in Field : History(f)'
    BY <1>0, <2>1, <2>2 DEF History
  <2>8. \A q \in Update : updatePc'[q] = "log" => after'[q] \in [Field -> Setting]
    BY <1>0, <2>1
  <2> QED BY <2>4, <2>5, <2>6, <2>7, <2>8 DEF PrefInv
<1> QED BY <1>1, <1>2, <1>3, <1>4, <1>5, <1>6 DEF P!Next

(* Unless updates overlap, or one dies between its write and its log, the    *)
(* log of a field is its history: each entry starts from the value that the  *)
(* one before it ended with, changes it, and the last one ended with the     *)
(* value that counts now (updatePreferences, auditPrivacyChanges).           *)
THEOREM LogAlways == P!Spec => []LogIsHistory
<1>0. P!PreferencesAssumption
  BY RecordsAssumption
<1>1. PrefInv /\ [P!Next]_P!vars => PrefInv'
  BY <1>0, PrefTypeStep, PrefStep
<1>2. PrefInv => LogIsHistory
  BY DEF LogIsHistory, PrefInv, P!LogIsHistory, History, AtRest, Logged, P!Last
<1> QED BY <1>0, PrefInit, <1>1, <1>2, PTL DEF P!Spec

-------------------------------------------------------------------------------
(***************************************************************************)
(* The audit trail.  ChangesOnRecord rests on CutOff (a purge under way    *)
(* takes nothing younger than the retention) and on OfItsCall.             *)
(***************************************************************************)
(* A row of the trail is of its call and of the time when it was written;   *)
(* a call that is under way has passed the policy and left nothing yet.     *)
OfItsCall ==
  \A c \in AuditedCall :
    /\ c \in changed => auditPc[c] = "done" /\ T!AssertPolicy(spec[c]) /\ stamp[c] \in T!Time
    /\ auditPc[c] # "done" => trail[c] = T!NoRow
    /\ auditPc[c] \in {"mutate", "record"} => spec[c] \in T!Spec0 /\ T!Accepted(spec[c])
    /\ auditPc[c] = "mutate" => spec[c].kind # "record"
    /\ trail[c] # T!NoRow => /\ trail[c].at = stamp[c] /\ trail[c].of = spec[c]
                             /\ stamp[c] \in T!Time
                             /\ spec[c].kind # "record" => c \in changed

\* The cut-off of a purge under way is as old as the retention asks for, or older.
CutOff == cutoff # T!Never => cutoff <= now - Retention

TrailInv == T!TypeOK /\ OfItsCall /\ CutOff /\ T!ChangesOnRecord

LEMMA Clock ==
  ASSUME T!AuditTrailAssumption
  PROVE  /\ MaxTime \in Nat /\ Retention \in Nat /\ T!Never \notin T!Time /\ T!Never \in Int
         /\ \A t \in T!Time : t \in Int /\ t <= MaxTime
         /\ 0 \in T!Time
BY DEF T!AuditTrailAssumption, T!Never, T!Time

LEMMA TrailInit == ASSUME T!AuditTrailAssumption PROVE T!Init => TrailInv
<1> SUFFICES ASSUME T!Init PROVE TrailInv
  OBVIOUS
<1>1. T!TypeOK
  BY Clock DEF T!Init, T!TypeOK
<1>2. OfItsCall /\ CutOff
  BY DEF T!Init, OfItsCall, CutOff
<1>3. T!ChangesOnRecord
  BY DEF T!Init, T!ChangesOnRecord
<1> QED BY <1>1, <1>2, <1>3 DEF TrailInv

\* The row of an event that is written.
LEMMA RowOf ==
  ASSUME T!AuditTrailAssumption, T!TypeOK, NEW s \in T!Spec0
  PROVE  /\ T!ToRow(s) \in [at : T!Time, of : T!Spec0, class : {"MUTABLE", "ARCHIVABLE"}]
         /\ T!ToRow(s).at = now /\ T!ToRow(s).of = s /\ T!ToRow(s) # T!NoRow
<1>1. T!RecordClassFor(s.model) \in {"MUTABLE", "ARCHIVABLE"}
  BY DEF T!RecordClassFor, T!Spec0, T!Archivable, T!Immutable, T!Deletable
<1>2. now # T!Never
  BY Clock DEF T!TypeOK
<1> QED BY <1>1, <1>2 DEF T!ToRow, T!NoRow, T!TypeOK

LEMMA TrailTypeStep ==
  ASSUME T!AuditTrailAssumption, TrailInv, [T!Next]_T!vars
  PROVE  T!TypeOK'
<1> USE Clock DEF T!TypeOK, T!Goto, T!calls
<1>0. T!TypeOK /\ OfItsCall
  BY DEF TrailInv
<1>1. CASE UNCHANGED T!vars
  BY <1>0, <1>1 DEF T!vars
<1>2. ASSUME NEW c \in AuditedCall, NEW s \in T!Spec0, T!Start(c, s) PROVE T!TypeOK'
  BY <1>0, <1>2 DEF T!Start
<1>3. ASSUME NEW c \in AuditedCall, T!Mutate(c) \/ T!Rollback(c) PROVE T!TypeOK'
  BY <1>0, <1>3 DEF T!Mutate, T!Rollback
<1>4. ASSUME NEW c \in AuditedCall, T!RecordWithin(c) \/ T!Record(c) PROVE T!TypeOK'
  <2>1. spec[c] \in T!Spec0
    BY <1>0, <1>4 DEF T!RecordWithin, T!Record, OfItsCall
  <2>2. T!ToRow(spec[c]) \in [at : T!Time, of : T!Spec0, class : {"MUTABLE", "ARCHIVABLE"}]
    BY <1>0, <2>1, RowOf
  <2> QED BY <1>0, <1>4, <2>2 DEF T!RecordWithin, T!Record, T!Written
<1>5. CASE T!StartPurge \/ T!PurgeFails
  BY <1>0, <1>5 DEF T!StartPurge, T!PurgeFails, T!RetentionCutoff, T!Time
<1>6. CASE T!PurgeExpired
  BY <1>0, <1>6 DEF T!PurgeExpired
<1>7. CASE T!Tick
  BY <1>0, <1>7 DEF T!Tick, T!Time
<1> HIDE DEF T!TypeOK
<1> QED BY <1>1, <1>2, <1>3, <1>4, <1>5, <1>6, <1>7 DEF T!Next

LEMMA TrailStep ==
  ASSUME T!AuditTrailAssumption, TrailInv, T!TypeOK', [T!Next]_T!vars
  PROVE  TrailInv'
<1> USE Clock DEF T!Goto, T!calls
<1>0. T!TypeOK /\ OfItsCall /\ CutOff /\ T!ChangesOnRecord
  BY DEF TrailInv
\* A step that writes no row: others end, or are where they were.
<1>1. ASSUME trail' = trail, changed' = changed, stamp' = stamp, now' = now,
             CutOff', NEW c \in AuditedCall,
             \A d \in AuditedCall : d # c => auditPc'[d] = auditPc[d] /\ spec'[d] = spec[d],
             c \notin changed, trail[c] = T!NoRow,
             auditPc'[c] \in {"mutate", "record"} => spec'[c] \in T!Spec0 /\ T!Accepted(spec'[c]),
             auditPc'[c] = "mutate" => spec'[c].kind # "record"
      PROVE  TrailInv'
  <2>1. OfItsCall'
    BY <1>0, <1>1 DEF OfItsCall
  <2>2. T!ChangesOnRecord'
    BY <1>0, <1>1 DEF T!ChangesOnRecord
  <2> QED BY <1>1, <2>1, <2>2 DEF TrailInv
<1>2. CASE UNCHANGED T!vars
  BY <1>0, <1>2 DEF T!vars, TrailInv, OfItsCall, CutOff, T!ChangesOnRecord
<1>3. ASSUME NEW c \in AuditedCall, NEW s \in T!Spec0, T!Start(c, s) PROVE TrailInv'
  <2>1. /\ auditPc[c] = "idle" /\ c \notin changed /\ trail[c] = T!NoRow
        /\ UNCHANGED <<now, trail, changed, cutoff, stamp>>
    BY <1>0, <1>3 DEF T!Start, OfItsCall
  <2>2. \A d \in AuditedCall : d # c => auditPc'[d] = auditPc[d] /\ spec'[d] = spec[d]
    BY <1>0, <1>3 DEF T!Start, T!TypeOK
  <2>3. /\ auditPc'[c] \in {"mutate", "record"} => spec'[c] \in T!Spec0 /\ T!Accepted(spec'[c])
        /\ auditPc'[c] = "mutate" => spec'[c].kind # "record"
    BY <1>0, <1>3 DEF T!Start, T!TypeOK
  <2>4. CutOff'
    BY <1>0, <2>1 DEF CutOff
  <2> QED BY <1>1, <2>1, <2>2, <2>3, <2>4
<1>4. ASSUME NEW c \in AuditedCall, T!Mutate(c) \/ T!Rollback(c) PROVE TrailInv'
  <2>1. /\ auditPc[c] # "done" /\ c \notin changed /\ trail[c] = T!NoRow
        /\ UNCHANGED <<now, trail, changed, spec, cutoff, stamp>>
        /\ auditPc[c] \in {"mutate", "record"} /\ spec[c].kind # "record"
    BY <1>0, <1>4 DEF T!Mutate, T!Rollback, OfItsCall
  <2>2. \A d \in AuditedCall : d # c => auditPc'[d] = auditPc[d] /\ spec'[d] = spec[d]
    BY <1>0, <1>4, <2>1 DEF T!Mutate, T!Rollback, T!TypeOK
  <2>3. /\ auditPc'[c] \in {"mutate", "record"} => spec'[c] \in T!Spec0 /\ T!Accepted(spec'[c])
        /\ auditPc'[c] = "mutate" => spec'[c].kind # "record"
    BY <1>0, <1>4, <2>1 DEF T!Mutate, T!Rollback, OfItsCall
  <2>4. CutOff'
    BY <1>0, <2>1 DEF CutOff
  <2> QED BY <1>1, <2>1, <2>2, <2>3, <2>4
<1>5. ASSUME NEW c \in AuditedCall, T!RecordWithin(c) \/ T!Record(c) PROVE TrailInv'
  <2>1. /\ auditPc[c] = "record" /\ spec[c] \in T!Spec0 /\ c \notin changed /\ trail[c] = T!NoRow
        /\ spec[c].kind # "record" => T!AssertPolicy(spec[c])
        /\ UNCHANGED <<now, spec, cutoff>>
    BY <1>0, <1>5 DEF T!RecordWithin, T!Record, OfItsCall, T!Accepted
  <2>2. /\ \A d \in AuditedCall : d # c => /\ auditPc'[d] = auditPc[d] /\ trail'[d] = trail[d]
                                           /\ stamp'[d] = stamp[d] /\ (d \in changed' <=> d \in changed)
        /\ auditPc'[c] = "done"
    BY <1>0, <1>5 DEF T!RecordWithin, T!Record, T!Written, T!TypeOK
  <2>3. \/ trail'[c] = T!ToRow(spec[c]) /\ stamp'[c] = now
        \/ trail'[c] = T!NoRow /\ spec[c].kind = "record"
    BY <1>0, <1>5, <2>1 DEF T!RecordWithin, T!Record, T!Written, T!TypeOK
  <2>4. /\ c \in changed' => spec[c].kind # "record"
        /\ spec[c].kind # "record" => c \in changed'
    BY <1>5, <2>1 DEF T!RecordWithin, T!Record
  <2>5. T!ToRow(spec[c]).at = now /\ T!ToRow(spec[c]).of = spec[c] /\ T!ToRow(spec[c]) # T!NoRow
    BY <1>0, <2>1, RowOf
  <2>6. now \in T!Time
    BY <1>0 DEF T!TypeOK
  <2>7. OfItsCall'
    BY <1>0, <2>1, <2>2, <2>3, <2>4, <2>5, <2>6 DEF OfItsCall
  <2>8. T!ChangesOnRecord'
    BY <1>0, <2>1, <2>2, <2>3, <2>4, <2>5 DEF T!ChangesOnRecord
  <2>9. CutOff'
    BY <1>0, <2>1 DEF CutOff
  <2> QED BY <2>7, <2>8, <2>9 DEF TrailInv
<1>6. CASE T!StartPurge \/ T!PurgeFails
  <2>1. CutOff'
    BY <1>6 DEF T!StartPurge, T!PurgeFails, CutOff, T!RetentionCutoff, T!TypeOK
  <2>2. OfItsCall' /\ T!ChangesOnRecord'
    BY <1>0, <1>6 DEF T!StartPurge, T!PurgeFails, OfItsCall, T!ChangesOnRecord
  <2> QED BY <2>1, <2>2 DEF TrailInv
\* What the purge takes is older than the retention, then and ever after.
<1>7. CASE T!PurgeExpired
  <2>1. /\ cutoff <= now - Retention /\ cutoff \in Int /\ now \in Int /\ cutoff' = T!Never
        /\ UNCHANGED <<now, changed, auditPc, spec, stamp>>
    BY <1>0, <1>7 DEF T!PurgeExpired, CutOff, T!TypeOK, T!Time
  <2>2. \A c \in AuditedCall :
          \/ trail'[c] = trail[c]
          \/ /\ trail'[c] = T!NoRow /\ trail[c] # T!NoRow
             /\ now - stamp[c] > Retention
    BY <1>0, <1>7, <2>1 DEF T!PurgeExpired, T!Before, OfItsCall
  <2>3. OfItsCall'
    BY <1>0, <2>1, <2>2 DEF OfItsCall
  <2>4. T!ChangesOnRecord'
    BY <1>0, <2>1, <2>2 DEF T!ChangesOnRecord
  <2>5. CutOff'
    BY <2>1 DEF CutOff
  <2> QED BY <2>3, <2>4, <2>5 DEF TrailInv
<1>8. CASE T!Tick
  <2>1. /\ now \in Int /\ now' = now + 1
        /\ UNCHANGED <<trail, changed, auditPc, spec, stamp, cutoff>>
    BY <1>0, <1>8 DEF T!Tick, T!TypeOK
  <2>2. OfItsCall'
    BY <1>0, <2>1 DEF OfItsCall
  <2>3. T!ChangesOnRecord'
    <3>1. \A c \in AuditedCall : c \in changed => stamp[c] \in Int
      BY <1>0 DEF OfItsCall
    <3> QED BY <1>0, <2>1, <3>1 DEF T!ChangesOnRecord
  <2>4. CutOff'
    BY <1>0, <2>1 DEF CutOff, T!TypeOK, T!Time
  <2> QED BY <2>2, <2>3, <2>4 DEF TrailInv
<1> QED BY <1>2, <1>3, <1>4, <1>5, <1>6, <1>7, <1>8 DEF T!Next

(* A change is in the trail, by somebody who may make it, until its          *)
(* retention is over, and no change that was rolled back is: whatever fails  *)
(* or dies and however long a purge takes (auditedMutation, assertPolicy,    *)
(* purgeExpired).                                                            *)
THEOREM Recorded == T!Spec => []ChangesOnRecord
<1>0. T!AuditTrailAssumption
  BY RecordsAssumption
<1>1. TrailInv /\ [T!Next]_T!vars => TrailInv'
  BY <1>0, TrailTypeStep, TrailStep
<1>2. TrailInv => ChangesOnRecord
  BY DEF ChangesOnRecord, TrailInv
<1> QED BY <1>0, TrailInit, <1>1, <1>2, PTL DEF T!Spec
-------------------------------------------------------------------------------
(***************************************************************************)
(* The redaction of metadata.  The walk, the tree that it is compared with *)
(* and what is safe are recursive functions of the levels that are left.   *)
(* They exist by counting up, and counting up compares them: at every      *)
(* level each result of the walk is safe for that level, and is the tree   *)
(* if it reports nothing.  The entries of one object are counted up in the *)
(* same way, for the objects already met go from one entry to the next.    *)
(***************************************************************************)
\* What begins at 0 and goes on by one reaches the end.
LEMMA CountUp ==
  ASSUME NEW n \in Nat, NEW S, 0 \in S, \A i \in 1 .. n : i - 1 \in S => i \in S
  PROVE  \A i \in 0 .. n : i \in S
<1> DEFINE Missing == { i \in 0 .. n : i \notin S }
<1> SUFFICES ASSUME Missing # {} PROVE FALSE
  OBVIOUS
<1>1. Missing \subseteq Nat
  OBVIOUS
<1>2. \E i \in Missing : \A j \in Missing : ~(<<j, i>> \in OpToRel(<, Nat))
  <2> HIDE DEF Missing
  <2> QED BY <1>1, NatLessThanWellFounded, WFMin
<1>3. PICK i \in Missing : \A j \in Missing : ~(j < i)
  BY <1>1, <1>2 DEF OpToRel
<1>4. i \in 1 .. n
  OBVIOUS
<1>5. i - 1 \in Missing
  BY <1>4
<1> QED BY <1>3, <1>4, <1>5

(* The functions of the walk meet their equations.                          *)

\* There is a function that walks the entries one after the other.
LEMMA UpToExists ==
  ASSUME NEW start, NEW entries, Len(entries) \in Nat, NEW inner
  PROVE  \E f : f = [i \in 0 .. Len(entries) |->
                       IF i = 0 THEN start ELSE R!WalkEntry(f[i - 1], entries[i], inner)]
<1> DEFINE n == Len(entries)
           Is(f, k) == f = [i \in 0 .. k |-> IF i = 0 THEN start
                              ELSE R!WalkEntry(f[i - 1], entries[i], inner)]
           S == { k \in 0 .. n : \E f : Is(f, k) }
<1>1. 0 \in S
  <2>1. Is([i \in 0 .. 0 |-> start], 0)
    OBVIOUS
  <2>2. \E f : Is(f, 0)
    BY <2>1
  <2> HIDE DEF Is
  <2> QED BY <2>2
<1>2. ASSUME NEW k \in 1 .. n, k - 1 \in S PROVE k \in S
  <2>1. PICK f : Is(f, k - 1)
    BY <1>2
  <2> DEFINE g == [i \in 0 .. k |-> IF i = k THEN R!WalkEntry(f[k - 1], entries[k], inner)
                                    ELSE f[i]]
  <2>2. ASSUME NEW i \in 0 .. k
        PROVE  g[i] = IF i = 0 THEN start ELSE R!WalkEntry(g[i - 1], entries[i], inner)
    <3>1. CASE i = k
      BY <3>1
    <3>2. CASE i # k
      <4>1. i \in 0 .. k - 1
        BY <3>2
      <4>2. f[i] = IF i = 0 THEN start ELSE R!WalkEntry(f[i - 1], entries[i], inner)
        BY <2>1, <4>1
      <4>3. g[i] = f[i] /\ (i # 0 => g[i - 1] = f[i - 1])
        BY <4>1
      <4> QED BY <4>2, <4>3
    <3> QED BY <3>1, <3>2
  <2>3. Is(g, k)
    BY <2>2
  <2> HIDE DEF g
  <2> QED BY <2>3
<1>3. n \in S
  <2>1. n \in Nat
    OBVIOUS
  <2> HIDE DEF S, n
  <2> QED BY <1>1, <1>2, <2>1, CountUp
<1> QED BY <1>3

\* There is a function that walks level by level; so is there one for what is
\* safe and for the tree.
LEMMA WalkExists ==
  ASSUME NEW m, NEW max \in Nat
  PROVE  \E f : f = [room \in 0 .. max + 1 |->
                       IF room = 0 THEN R!TooDeep ELSE R!Within(m, f[room - 1])]
<1> DEFINE Is(f, k) == f = [room \in 0 .. k |->
                              IF room = 0 THEN R!TooDeep ELSE R!Within(m, f[room - 1])]
           S == { k \in 0 .. max + 1 : \E f : Is(f, k) }
<1>1. 0 \in S
  <2>1. Is([i \in 0 .. 0 |-> R!TooDeep], 0)
    OBVIOUS
  <2>2. \E f : Is(f, 0)
    BY <2>1
  <2> HIDE DEF Is
  <2> QED BY <2>2
<1>2. ASSUME NEW k \in 1 .. max + 1, k - 1 \in S PROVE k \in S
  <2>1. PICK f : Is(f, k - 1)
    BY <1>2
  <2> DEFINE g == [i \in 0 .. k |-> IF i = k THEN R!Within(m, f[k - 1]) ELSE f[i]]
  <2>2. ASSUME NEW i \in 0 .. k
        PROVE  g[i] = IF i = 0 THEN R!TooDeep ELSE R!Within(m, g[i - 1])
    <3>1. CASE i = k
      BY <3>1
    <3>2. CASE i # k
      <4>1. i \in 0 .. k - 1
        BY <3>2
      <4>2. f[i] = IF i = 0 THEN R!TooDeep ELSE R!Within(m, f[i - 1])
        BY <2>1, <4>1
      <4>3. g[i] = f[i] /\ (i # 0 => g[i - 1] = f[i - 1])
        BY <4>1
      <4> QED BY <4>2, <4>3
    <3> QED BY <3>1, <3>2
  <2>3. Is(g, k)
    BY <2>2
  <2> HIDE DEF g
  <2> QED BY <2>3
<1>3. max + 1 \in S
  <2> HIDE DEF S
  <2> QED BY <1>1, <1>2, CountUp
<1> QED BY <1>3

LEMMA SafeExists ==
  ASSUME NEW max \in Nat
  PROVE  \E f : f = [room \in 0 .. max + 1 |->
                       IF room = 0 THEN R!SafeLeaf ELSE R!SafeLeaf \cup R!SafeContainer(f[room - 1])]
<1> DEFINE Is(f, k) == f = [room \in 0 .. k |->
                              IF room = 0 THEN R!SafeLeaf ELSE R!SafeLeaf \cup R!SafeContainer(f[room - 1])]
           S == { k \in 0 .. max + 1 : \E f : Is(f, k) }
<1>1. 0 \in S
  <2>1. Is([i \in 0 .. 0 |-> R!SafeLeaf], 0)
    OBVIOUS
  <2>2. \E f : Is(f, 0)
    BY <2>1
  <2> HIDE DEF Is
  <2> QED BY <2>2
<1>2. ASSUME NEW k \in 1 .. max + 1, k - 1 \in S PROVE k \in S
  <2>1. PICK f : Is(f, k - 1)
    BY <1>2
  <2> DEFINE g == [i \in 0 .. k |-> IF i = k THEN R!SafeLeaf \cup R!SafeContainer(f[k - 1]) ELSE f[i]]
  <2>2. ASSUME NEW i \in 0 .. k
        PROVE  g[i] = IF i = 0 THEN R!SafeLeaf ELSE R!SafeLeaf \cup R!SafeContainer(g[i - 1])
    <3>1. CASE i = k
      BY <3>1
    <3>2. CASE i # k
      <4>1. i \in 0 .. k - 1
        BY <3>2
      <4>2. f[i] = IF i = 0 THEN R!SafeLeaf ELSE R!SafeLeaf \cup R!SafeContainer(f[i - 1])
        BY <2>1, <4>1
      <4>3. g[i] = f[i] /\ (i # 0 => g[i - 1] = f[i - 1])
        BY <4>1
      <4> QED BY <4>2, <4>3
    <3> QED BY <3>1, <3>2
  <2>3. Is(g, k)
    BY <2>2
  <2> HIDE DEF g
  <2> QED BY <2>3
<1>3. max + 1 \in S
  <2> HIDE DEF S
  <2> QED BY <1>1, <1>2, CountUp
<1> QED BY <1>3

LEMMA UnfoldExists ==
  ASSUME NEW m, NEW max \in Nat
  PROVE  \E f : f = [room \in 0 .. max + 1 |->
                       IF room = 0 THEN [v \in R!Value |-> v] ELSE R!Opened(m, f[room - 1])]
<1> DEFINE Is(f, k) == f = [room \in 0 .. k |->
                              IF room = 0 THEN [v \in R!Value |-> v] ELSE R!Opened(m, f[room - 1])]
           S == { k \in 0 .. max + 1 : \E f : Is(f, k) }
<1>1. 0 \in S
  <2>1. Is([i \in 0 .. 0 |-> [v \in R!Value |-> v]], 0)
    OBVIOUS
  <2>2. \E f : Is(f, 0)
    BY <2>1
  <2> HIDE DEF Is
  <2> QED BY <2>2
<1>2. ASSUME NEW k \in 1 .. max + 1, k - 1 \in S PROVE k \in S
  <2>1. PICK f : Is(f, k - 1)
    BY <1>2
  <2> DEFINE g == [i \in 0 .. k |-> IF i = k THEN R!Opened(m, f[k - 1]) ELSE f[i]]
  <2>2. ASSUME NEW i \in 0 .. k
        PROVE  g[i] = IF i = 0 THEN [v \in R!Value |-> v] ELSE R!Opened(m, g[i - 1])
    <3>1. CASE i = k
      BY <3>1
    <3>2. CASE i # k
      <4>1. i \in 0 .. k - 1
        BY <3>2
      <4>2. f[i] = IF i = 0 THEN [v \in R!Value |-> v] ELSE R!Opened(m, f[i - 1])
        BY <2>1, <4>1
      <4>3. g[i] = f[i] /\ (i # 0 => g[i - 1] = f[i - 1])
        BY <4>1
      <4> QED BY <4>2, <4>3
    <3> QED BY <3>1, <3>2
  <2>3. Is(g, k)
    BY <2>2
  <2> HIDE DEF g
  <2> QED BY <2>3
<1>3. max + 1 \in S
  <2> HIDE DEF S
  <2> QED BY <1>1, <1>2, CountUp
<1> QED BY <1>3

(* The equations of these functions.                                        *)
IsUpTo(f, start, entries, inner) ==
  \A i \in 0 .. Len(entries) :
    f[i] = IF i = 0 THEN start ELSE R!WalkEntry(f[i - 1], entries[i], inner)
IsWalk(f, m, max) ==
  \A room \in 0 .. max + 1 :
    f[room] = IF room = 0 THEN R!TooDeep ELSE R!Within(m, f[room - 1])
IsTree(f, m, max) ==
  \A room \in 0 .. max + 1 :
    f[room] = IF room = 0 THEN [v \in R!Value |-> v] ELSE R!Opened(m, f[room - 1])
IsSafe(f, max) ==
  \A room \in 0 .. max + 1 :
    f[room] = IF room = 0 THEN R!SafeLeaf
              ELSE R!SafeLeaf \cup R!SafeContainer(f[room - 1])

(* The functions of WalkEntries, Walk, Unfold and Safe by their equations.   *)

\* Walking the entries is that function at the last of them (redactMetadata).
LEMMA UpToLaw ==
  ASSUME NEW start, NEW entries, Len(entries) \in Nat, NEW inner
  PROVE  \E f : /\ IsUpTo(f, start, entries, inner)
                /\ R!WalkEntries(start, entries, inner) = f[Len(entries)]
<1> DEFINE upTo == CHOOSE f : f = [i \in 0 .. Len(entries) |->
                     IF i = 0 THEN start ELSE R!WalkEntry(f[i - 1], entries[i], inner)]
<1>1. upTo = [i \in 0 .. Len(entries) |->
                IF i = 0 THEN start ELSE R!WalkEntry(upTo[i - 1], entries[i], inner)]
  BY UpToExists
<1>2. R!WalkEntries(start, entries, inner) = upTo[Len(entries)]
  BY DEF R!WalkEntries
<1> HIDE DEF upTo
<1>3. IsUpTo(upTo, start, entries, inner)
  BY <1>1 DEF IsUpTo
<1> QED BY <1>2, <1>3

\* The walk is its function at the room of the root; so are Safe and Unfold.
LEMMA WalkLaw ==
  ASSUME NEW m, NEW max \in Nat
  PROVE  \E f : /\ IsWalk(f, m, max)
                /\ R!Walk(m, max) = f[max + 1]
<1> DEFINE walk == CHOOSE f : f = [room \in 0 .. max + 1 |->
                     IF room = 0 THEN R!TooDeep ELSE R!Within(m, f[room - 1])]
<1>1. walk = [room \in 0 .. max + 1 |->
                IF room = 0 THEN R!TooDeep ELSE R!Within(m, walk[room - 1])]
  BY WalkExists
<1>2. R!Walk(m, max) = walk[max + 1]
  BY DEF R!Walk
<1> HIDE DEF walk
<1>3. IsWalk(walk, m, max)
  BY <1>1 DEF IsWalk
<1> QED BY <1>2, <1>3

LEMMA SafeLaw ==
  ASSUME NEW max \in Nat
  PROVE  \E f : /\ IsSafe(f, max)
                /\ R!Safe(max) = f[max + 1]
<1> DEFINE safe == CHOOSE f : f = [room \in 0 .. max + 1 |->
                     IF room = 0 THEN R!SafeLeaf
                     ELSE R!SafeLeaf \cup R!SafeContainer(f[room - 1])]
<1>1. safe = [room \in 0 .. max + 1 |->
                IF room = 0 THEN R!SafeLeaf
                ELSE R!SafeLeaf \cup R!SafeContainer(safe[room - 1])]
  BY SafeExists
<1>2. R!Safe(max) = safe[max + 1]
  BY DEF R!Safe
<1> HIDE DEF safe
<1>3. IsSafe(safe, max)
  BY <1>1 DEF IsSafe
<1> QED BY <1>2, <1>3

LEMMA UnfoldLaw ==
  ASSUME NEW m, NEW max \in Nat
  PROVE  \E f : /\ IsTree(f, m, max)
                /\ R!Unfold(m, max) = f[max + 1]
<1> DEFINE tree == CHOOSE f : f = [room \in 0 .. max + 1 |->
                     IF room = 0 THEN [v \in R!Value |-> v] ELSE R!Opened(m, f[room - 1])]
<1>1. tree = [room \in 0 .. max + 1 |->
                IF room = 0 THEN [v \in R!Value |-> v] ELSE R!Opened(m, tree[room - 1])]
  BY UnfoldExists
<1>2. R!Unfold(m, max) = tree[max + 1]
  BY DEF R!Unfold
<1> HIDE DEF tree
<1>3. IsTree(tree, m, max)
  BY <1>1 DEF IsTree
<1> QED BY <1>2, <1>3

(* A result whose value is in S, and the walks that have such results.      *)
Result(S) == [value : S, seen : SUBSET Node, truncated : BOOLEAN, redacted : Nat]
Walks(S) == [R!Value -> [SUBSET Node -> Result(S)]]

\* What a walk neither cuts nor replaces is the tree.
Reports(walk, tree) ==
  \A v \in R!Value : \A s \in SUBSET Node :
    ~walk[v][s].truncated /\ walk[v][s].redacted = 0 => walk[v][s].value = tree[v]

\* What has been walked of the entries, up to i.
Walked(r, i, start, entries, S, tree) ==
  /\ r \in Result(Seq(R!SafeEntry(S)))
  /\ Len(r.value) = i
  /\ ~r.truncated /\ r.redacted = 0 =>
       /\ ~start.truncated
       /\ \A j \in 1 .. i : r.value[j] =
            [denied |-> entries[j].denied, value |-> tree[entries[j].value]]

\* A result that is safe stays so when more is.
LEMMA ResultMonotonic ==
  ASSUME NEW S, NEW Upper, S \subseteq Upper, NEW r \in Result(S)
  PROVE  r \in Result(Upper)
  BY DEF Result

\* What Found makes is a result of its parts.
LEMMA FoundResult ==
  ASSUME NEW S, NEW v \in S, NEW s \in SUBSET Node, NEW b \in BOOLEAN, NEW n \in Nat
  PROVE  /\ R!Found(v, s, b, n) \in Result(S)
         /\ R!Found(v, s, b, n).value = v
         /\ R!Found(v, s, b, n).seen = s
         /\ R!Found(v, s, b, n).truncated = b
         /\ R!Found(v, s, b, n).redacted = n
  BY DEF R!Found, Result

LEMMA FoundWhole ==
  ASSUME NEW S, NEW v \in S, NEW s \in SUBSET Node
  PROVE  /\ R!Found(v, s, FALSE, 0) \in Result(S)
         /\ R!Found(v, s, FALSE, 0).value = v
  BY DEF R!Found, Result

LEMMA FoundRedacted ==
  ASSUME NEW S, NEW v \in S, NEW s \in SUBSET Node
  PROVE  /\ R!Found(v, s, FALSE, 1) \in Result(S)
         /\ R!Found(v, s, FALSE, 1).redacted = 1
  BY DEF R!Found, Result

LEMMA FoundCut ==
  ASSUME NEW S, NEW v \in S, NEW s \in SUBSET Node
  PROVE  /\ R!Found(v, s, TRUE, 0) \in Result(S)
         /\ R!Found(v, s, TRUE, 0).truncated = TRUE
  BY DEF R!Found, Result

\* One entry more keeps to the entries that are safe and to the report.
LEMMA WalkedOn ==
  ASSUME NEW S, NEW tree, NEW inner \in Walks(S), Reports(inner, tree),
         NEW start, NEW entries \in Seq(R!Entry), NEW i \in 1 .. Len(entries),
         NEW r, Walked(r, i - 1, start, entries, S, tree)
  PROVE  Walked(R!WalkEntry(r, entries[i], inner), i, start, entries, S, tree)
<1> DEFINE e == entries[i]
           w == IF e.denied THEN R!Found(R!Redacted, r.seen, FALSE, 1)
                ELSE inner[e.value][r.seen]
           x == [denied |-> e.denied, value |-> w.value]
<1>1. e \in R!Entry
  BY ElementOfSeq
<1>2. e.denied \in BOOLEAN /\ e.value \in R!Value
  BY <1>1 DEF R!Entry
<1>3. /\ r.value \in Seq(R!SafeEntry(S)) /\ r.seen \in SUBSET Node
      /\ r.truncated \in BOOLEAN /\ r.redacted \in Nat /\ Len(r.value) = i - 1
  BY DEF Walked, Result
<1>4. /\ w.seen \in SUBSET Node /\ w.truncated \in BOOLEAN /\ w.redacted \in Nat
      /\ x \in R!SafeEntry(S)
      /\ ~w.truncated /\ w.redacted = 0 => ~e.denied /\ w.value = tree[e.value]
  <2>1. CASE e.denied
    <3>1. w = R!Found(R!Redacted, r.seen, FALSE, 1)
      BY <2>1
    <3> HIDE DEF w
    <3>2. /\ w.value = R!Redacted /\ w.seen = r.seen /\ w.truncated = FALSE
          /\ w.redacted = 1
      BY <3>1 DEF R!Found
    <3>3. e.denied = TRUE
      BY <1>2, <2>1
    <3> HIDE DEF e
    <3>4. x = [denied |-> TRUE, value |-> R!Redacted]
      BY <3>2, <3>3
    <3>5. x \in R!SafeEntry(S)
      BY <3>4 DEF R!SafeEntry
    <3>6. ~(~w.truncated /\ w.redacted = 0)
      BY <3>2
    <3>7. w.seen \in SUBSET Node /\ w.redacted \in Nat
      BY <1>3, <3>2
    <3>8. w.truncated \in BOOLEAN
      BY <3>2, Zenon
    <3> HIDE DEF x
    <3> QED BY <3>5, <3>6, <3>7, <3>8
  <2>2. CASE ~e.denied
    <3>1. w = inner[e.value][r.seen]
      BY <2>2
    <3> HIDE DEF w
    <3>2. w \in Result(S)
      BY <1>2, <1>3, <3>1 DEF Walks
    <3>3. w.value \in S /\ w.seen \in SUBSET Node /\ w.truncated \in BOOLEAN /\ w.redacted \in Nat
      BY <3>2 DEF Result
    <3>4. ~w.truncated /\ w.redacted = 0 => w.value = tree[e.value]
      BY <1>2, <1>3, <3>1 DEF Reports
    <3> HIDE DEF e
    <3> QED BY <1>2, <2>2, <3>3, <3>4 DEF R!SafeEntry
  <2> QED BY <1>2, <2>1, <2>2
<1> DEFINE q == R!WalkEntry(r, e, inner)
<1>5. q = R!Found(Append(r.value, x), w.seen, r.truncated \/ w.truncated,
                  r.redacted + w.redacted)
  BY DEF R!WalkEntry
<1> HIDE DEF q, w, x
<1>6. /\ q.value = Append(r.value, x) /\ q.seen = w.seen
      /\ q.truncated = (r.truncated \/ w.truncated)
      /\ q.redacted = r.redacted + w.redacted
  BY <1>5 DEF R!Found
<1>7. /\ Append(r.value, x) \in Seq(R!SafeEntry(S)) /\ Len(q.value) = i
      /\ q.value[i] = x
      /\ \A j \in 1 .. i - 1 : q.value[j] = r.value[j]
  BY <1>3, <1>4, <1>6, AppendProperties
<1>8. q \in Result(Seq(R!SafeEntry(S)))
  BY <1>3, <1>4, <1>5, <1>7 DEF R!Found, Result
<1>9. ASSUME ~q.truncated, q.redacted = 0
      PROVE  /\ ~start.truncated
             /\ \A j \in 1 .. i : q.value[j] =
                  [denied |-> entries[j].denied, value |-> tree[entries[j].value]]
  <2>1. /\ ~r.truncated /\ ~w.truncated
        /\ r.redacted = 0 /\ w.redacted = 0
    BY <1>3, <1>4, <1>6, <1>9
  <2>2. /\ ~start.truncated
        /\ \A j \in 1 .. i - 1 : r.value[j] =
             [denied |-> entries[j].denied, value |-> tree[entries[j].value]]
    BY <2>1 DEF Walked
  <2>3. x = [denied |-> e.denied, value |-> tree[e.value]]
    BY <1>4, <2>1 DEF x
  <2> QED BY <1>7, <2>2, <2>3
<1> QED BY <1>7, <1>8, <1>9 DEF Walked, q

\* All the entries that are kept are walked so.
LEMMA AllWalked ==
  ASSUME NEW S, NEW tree, NEW inner \in Walks(S), Reports(inner, tree),
         NEW start \in Result({<<>>}), NEW entries \in Seq(R!Entry)
  PROVE  Walked(R!WalkEntries(start, entries, inner), Len(entries),
                start, entries, S, tree)
<1>0. Len(entries) \in Nat
  BY LenProperties
<1>1. PICK f : /\ IsUpTo(f, start, entries, inner)
               /\ R!WalkEntries(start, entries, inner) = f[Len(entries)]
  BY <1>0, UpToLaw
<1> DEFINE G == { i \in 0 .. Len(entries) : Walked(f[i], i, start, entries, S, tree) }
<1>2. 0 \in G
  <2>1. f[0] = start
    BY <1>0, <1>1 DEF IsUpTo
  <2>2. start.value = <<>> /\ start \in Result(Seq(R!SafeEntry(S)))
    BY EmptySeq DEF Result
  <2> QED BY <1>0, <2>1, <2>2, EmptySeq DEF Walked
<1>3. ASSUME NEW i \in 1 .. Len(entries), i - 1 \in G PROVE i \in G
  <2>1. f[i] = R!WalkEntry(f[i - 1], entries[i], inner)
    BY <1>0, <1>1 DEF IsUpTo
  <2> QED BY <1>0, <1>3, <2>1, WalkedOn
<1>4. Len(entries) \in G
  <2> HIDE DEF G
  <2> QED BY <1>0, <1>2, <1>3, CountUp
<1> QED BY <1>1, <1>4

\* The properties of an object or array are a sequence.
LEMMA ContainerType ==
  ASSUME NEW c \in R!Container
  PROVE  /\ R!Shape(c) \in {"object", "array"} /\ R!Own(c) \in Seq(R!Entry)
         /\ Len(R!Own(c)) \in Nat
<1>1. c.entries \in R!Entries
  BY DEF R!Container
<1>2. PICK n \in 0 .. MaxEntries : c.entries \in [1 .. n -> R!Entry]
  BY <1>1 DEF R!Entries
<1>3. n \in Nat
  BY <1>2, RecordsAssumption DEF R!RedactionAssumption
<1>4. c.entries \in Seq(R!Entry)
  BY <1>2, <1>3, SeqDef
<1>5. R!Own(c) \in Seq(R!Entry)
  BY <1>4, EmptySeq DEF R!Own
<1> QED BY <1>5, LenProperties DEF R!Shape

\* The limit on the entries.
LimitOf(k) == IF k = "array" THEN MaxArrayLength ELSE MaxKeys

\* What is kept of the entries is within the limit, and all of them if none is
\* missing.
LEMMA KeptLaw ==
  ASSUME NEW c \in R!Container
  PROVE  /\ R!Kept(c) \in Seq(R!Entry) /\ Len(R!Kept(c)) \in Nat
         /\ Len(R!Kept(c)) <= LimitOf(R!Shape(c))
         /\ (Len(R!Own(c)) > Len(R!Kept(c))) \in BOOLEAN
         /\ ~(Len(R!Own(c)) > Len(R!Kept(c))) => R!Kept(c) = R!Own(c)
<1> DEFINE limit == IF c.kind = "array" THEN MaxArrayLength ELSE MaxKeys
           n == IF Len(R!Own(c)) > limit THEN limit ELSE Len(R!Own(c))
<1>0. limit \in Nat /\ limit = LimitOf(R!Shape(c))
  BY RecordsAssumption DEF R!RedactionAssumption, LimitOf, R!Shape
<1>1. R!Own(c) \in Seq(R!Entry) /\ Len(R!Own(c)) \in Nat
  BY ContainerType
<1>2. R!Kept(c) = SubSeq(R!Own(c), 1, n)
  BY DEF R!Kept
<1> HIDE DEF limit
<1>3. n \in Nat /\ n <= limit /\ n <= Len(R!Own(c))
  BY <1>0, <1>1
<1>4. n < Len(R!Own(c)) \/ n = Len(R!Own(c))
  BY <1>1, <1>3
<1> HIDE DEF n
<1>5. \A i \in 1 .. n : R!Own(c)[i] \in R!Entry
  BY <1>1, <1>3, ElementOfSeq
<1>6. SubSeq(R!Own(c), 1, n) \in Seq(R!Entry) /\ Len(SubSeq(R!Own(c), 1, n)) = n
  <2>1. /\ SubSeq(R!Own(c), 1, n) \in Seq(R!Entry)
        /\ Len(SubSeq(R!Own(c), 1, n)) = IF 1 <= n THEN n - 1 + 1 ELSE 0
    BY <1>3, <1>5, SubSeqProperties
  <2> QED BY <1>3, <2>1
<1>7. n = Len(R!Own(c)) => SubSeq(R!Own(c), 1, n) = R!Own(c)
  BY <1>1, SubSeqFull
<1> QED BY <1>0, <1>1, <1>2, <1>3, <1>4, <1>6, <1>7

\* An object or array is stored within the limits, entry by entry safe, and as it
\* was if nothing is reported.
LEMMA ContainerWalked ==
  ASSUME NEW S, NEW tree, NEW inner \in Walks(S), Reports(inner, tree),
         NEW c \in R!Container, NEW s \in SUBSET Node
  PROVE  LET r == R!WalkContainer(c, s, inner)
         IN  /\ r \in Result(R!SafeContainer(S))
             /\ ~r.truncated /\ r.redacted = 0 =>
                  r.value = [kind |-> R!Shape(c),
                             entries |-> [i \in DOMAIN R!Own(c) |->
                               [denied |-> R!Own(c)[i].denied,
                                value |-> tree[R!Own(c)[i].value]]]]
<1> DEFINE cut == Len(R!Own(c)) > Len(R!Kept(c))
           start == R!Found(<<>>, s, cut, 0)
           q == R!WalkEntries(start, R!Kept(c), inner)
           r == R!WalkContainer(c, s, inner)
<1>1. r = [q EXCEPT !.value = [kind |-> R!Shape(c), entries |-> q.value]]
  BY DEF R!WalkContainer
<1>2. /\ R!Kept(c) \in Seq(R!Entry) /\ Len(R!Kept(c)) \in Nat
      /\ Len(R!Kept(c)) <= LimitOf(R!Shape(c))
      /\ (Len(R!Own(c)) > Len(R!Kept(c))) \in BOOLEAN
      /\ ~(Len(R!Own(c)) > Len(R!Kept(c))) => R!Kept(c) = R!Own(c)
  BY KeptLaw
<1>3. start \in Result({<<>>}) /\ start.truncated = (Len(R!Own(c)) > Len(R!Kept(c)))
  <2>1. cut \in BOOLEAN /\ <<>> \in {<<>>} /\ 0 \in Nat
    BY <1>2
  <2> HIDE DEF cut
  <2>2. start \in Result({<<>>}) /\ start.truncated = cut
    BY <2>1, FoundResult
  <2> QED BY <2>2 DEF cut
<1> HIDE DEF start
<1>4. Walked(q, Len(R!Kept(c)), start, R!Kept(c), S, tree)
  BY <1>2, <1>3, AllWalked
<1> HIDE DEF q
<1>5. q \in Result(Seq(R!SafeEntry(S))) /\ Len(q.value) = Len(R!Kept(c))
  BY <1>4 DEF Walked
<1> DEFINE v == [kind |-> R!Shape(c), entries |-> q.value]
<1>6. v \in R!SafeContainer(S)
  <2>0. R!Shape(c) \in {"object", "array"}
    BY ContainerType
  <2>1. q.value \in R!SafeEntries(S, LimitOf(R!Shape(c)))
    BY <1>2, <1>5 DEF Result, R!SafeEntries
  <2>2. CASE R!Shape(c) = "object"
    BY <2>1, <2>2 DEF R!SafeContainer, LimitOf
  <2>3. CASE R!Shape(c) = "array"
    BY <2>1, <2>3 DEF R!SafeContainer, LimitOf
  <2> QED BY <2>0, <2>2, <2>3
<1> HIDE DEF r
<1>7. /\ r \in Result(R!SafeContainer(S))
      /\ r.value = v /\ r.truncated = q.truncated /\ r.redacted = q.redacted
  <2> HIDE DEF v
  <2> QED BY <1>1, <1>5, <1>6 DEF Result, v
<1>8. ASSUME ~r.truncated, r.redacted = 0
      PROVE  r.value = [kind |-> R!Shape(c),
                        entries |-> [i \in DOMAIN R!Own(c) |->
                          [denied |-> R!Own(c)[i].denied,
                           value |-> tree[R!Own(c)[i].value]]]]
  <2>1. /\ ~start.truncated
        /\ \A j \in 1 .. Len(R!Kept(c)) : q.value[j] =
             [denied |-> R!Kept(c)[j].denied, value |-> tree[R!Kept(c)[j].value]]
    BY <1>4, <1>7, <1>8 DEF Walked
  <2>2. R!Kept(c) = R!Own(c)
    BY <1>2, <1>3, <2>1
  <2>3. DOMAIN R!Own(c) = 1 .. Len(R!Own(c))
    BY ContainerType, LenProperties
  <2>4. q.value \in Seq(R!SafeEntry(S))
    BY <1>5 DEF Result
  <2>5. q.value = [i \in DOMAIN q.value |-> q.value[i]] /\ DOMAIN q.value = 1 .. Len(q.value)
    BY <2>4, LenProperties
  <2>6. q.value = [i \in DOMAIN R!Own(c) |->
                     [denied |-> R!Own(c)[i].denied,
                      value |-> tree[R!Own(c)[i].value]]]
    BY <1>5, <2>1, <2>2, <2>3, <2>5
  <2> QED BY <1>7, <2>6
<1> QED BY <1>7, <1>8 DEF r

\* A value is a leaf, an error or refers to an object.
LEMMA ValueKinds ==
  ASSUME NEW v \in R!Value
  PROVE  \/ v.kind \in R!LeafKind /\ v = R!Leaf(v.kind)
         \/ v.kind = "error" /\ v.message \in R!Message
         \/ v.kind = "ref" /\ v.node \in Node
  BY DEF R!Value, R!Leaf, R!Error, R!Ref, R!LeafKind

\* Neither an error nor a reference is a leaf.
LEMMA LeafKinds == "error" \notin R!LeafKind /\ "ref" \notin R!LeafKind
  BY DEF R!LeafKind

\* What is too deep is cut off, but for null.
LEMMA TooDeepIsSafe ==
  ASSUME NEW tree, tree = [v \in R!Value |-> v]
  PROVE  R!TooDeep \in Walks(R!SafeLeaf) /\ Reports(R!TooDeep, tree)
<1>1. R!Truncated \in R!SafeLeaf /\ R!Leaf("null") \in R!SafeLeaf
  BY DEF R!SafeLeaf, R!Truncated
<1>2. ASSUME NEW v \in R!Value, NEW s \in SUBSET Node
      PROVE  LET r == R!TooDeep[v][s]
             IN  /\ r \in Result(R!SafeLeaf)
                 /\ ~r.truncated /\ r.redacted = 0 => r.value = tree[v]
  <2> DEFINE r == R!TooDeep[v][s]
  <2>1. r = IF v.kind = "null" THEN R!Found(v, s, FALSE, 0)
            ELSE R!Found(R!Truncated, s, TRUE, 0)
    BY DEF R!TooDeep
  <2> HIDE DEF r
  <2>2. CASE v.kind = "null"
    <3>1. v = R!Leaf("null")
      BY <2>2, ValueKinds, "null" # "error", "null" # "ref"
    <3>2. r = R!Found(v, s, FALSE, 0) /\ v \in R!SafeLeaf
      BY <1>1, <2>1, <2>2, <3>1
    <3>3. r \in Result(R!SafeLeaf) /\ r.value = v
      BY <3>2, FoundWhole
    <3> QED BY <3>3 DEF r
  <2>3. CASE v.kind # "null"
    <3>1. r = R!Found(R!Truncated, s, TRUE, 0)
      BY <2>1, <2>3
    <3>2. r \in Result(R!SafeLeaf) /\ r.truncated = TRUE
      BY <1>1, <3>1, FoundCut
    <3> QED BY <3>2 DEF r
  <2> QED BY <2>2, <2>3 DEF r
<1>3. R!TooDeep \in Walks(R!SafeLeaf)
  BY <1>2 DEF R!TooDeep, Walks
<1> QED BY <1>2, <1>3 DEF Reports

\* A string is looked at before it is cut.
LEMMA LeafWalked ==
  ASSUME NEW S, R!SafeLeaf \subseteq S, NEW k \in R!LeafKind, NEW s \in SUBSET Node
  PROVE  LET r == R!WalkLeaf(k, s)
         IN  r \in Result(S) /\ (~r.truncated /\ r.redacted = 0 => r.value = R!Written(k))
<1> DEFINE r == R!WalkLeaf(k, s)
<1>1. R!Redacted \in S /\ R!Leaf("prefix") \in S
  BY DEF R!SafeLeaf, R!Redacted
<1>2. CASE k \in {"secret", "function"}
  <2>1. r = R!Found(R!Redacted, s, FALSE, 1)
    BY <1>2 DEF R!WalkLeaf
  <2> HIDE DEF r
  <2>2. r \in Result(S) /\ r.redacted = 1
    BY <1>1, <2>1, FoundRedacted
  <2> QED BY <2>2 DEF r
<1>3. CASE k = "long"
  <2>1. r = R!Found(R!Leaf("prefix"), s, TRUE, 0)
    BY <1>3 DEF R!WalkLeaf
  <2> HIDE DEF r
  <2>2. r \in Result(S) /\ r.truncated = TRUE
    BY <1>1, <2>1, FoundCut
  <2> QED BY <2>2 DEF r
<1>4. CASE k \notin {"secret", "function", "long"}
  <2>1. r = R!Found(R!Written(k), s, FALSE, 0)
    BY <1>4 DEF R!WalkLeaf, R!Written, R!LeafKind
  <2>2. R!Written(k) \in S
    BY <1>4 DEF R!Written, R!SafeLeaf, R!LeafKind
  <2> HIDE DEF r
  <2>3. r \in Result(S) /\ r.value = R!Written(k)
    BY <2>1, <2>2, FoundWhole
  <2> QED BY <2>3 DEF r
<1> QED BY <1>2, <1>3, <1>4

\* An error is stored as its name and its message, and the message is walked.
LEMMA ErrorWalked ==
  ASSUME NEW S, R!SafeLeaf \subseteq S, NEW k \in R!Message, NEW tree,
         NEW inner \in Walks(S), Reports(inner, tree), NEW s \in SUBSET Node
  PROVE  LET r == R!WalkError(k, s, inner)
         IN  /\ r \in Result(R!SafeContainer(S))
             /\ ~r.truncated /\ r.redacted = 0 => r.value = R!NameAnd(tree[R!Leaf(k)])
<1> DEFINE message == inner[R!Leaf(k)][s]
           r == R!WalkError(k, s, inner)
           x == [denied |-> FALSE, value |-> R!Leaf("plain")]
           y == [denied |-> FALSE, value |-> message.value]
           v == [kind |-> "object", entries |-> <<x, y>>]
<1>1. R!Leaf(k) \in R!Value
  BY DEF R!Value, R!LeafKind, R!Message
<1>2. message \in Result(S)
  BY <1>1 DEF Walks
<1>3. ~message.truncated /\ message.redacted = 0 => message.value = tree[R!Leaf(k)]
  BY <1>1 DEF Reports
<1>4. r = [message EXCEPT !.value = v] /\ v = R!NameAnd(message.value)
  BY DEF R!WalkError, R!NameAnd
<1> HIDE DEF r, message
<1>5. x \in R!SafeEntry(S) /\ y \in R!SafeEntry(S)
  BY <1>2 DEF Result, R!SafeEntry, R!SafeLeaf
<1> HIDE DEF x, y
<1>6. <<x, y>> \in Seq(R!SafeEntry(S)) /\ Len(<<x, y>>) = 2
  BY <1>5
<1>7. <<x, y>> \in R!SafeEntries(S, MaxKeys)
  BY <1>6, RecordsAssumption DEF R!RedactionAssumption, R!SafeEntries
<1>8. v \in R!SafeContainer(S)
  <2> DEFINE e == <<x, y>>
  <2>1. e \in R!SafeEntries(S, MaxKeys)
    BY <1>7
  <2> HIDE DEF e
  <2>2. [kind |-> "object", entries |-> e] \in R!SafeContainer(S)
    BY <2>1 DEF R!SafeContainer
  <2> QED BY <2>2 DEF e
<1> HIDE DEF v
<1>9. r \in Result(R!SafeContainer(S))
  BY <1>2, <1>4, <1>8 DEF Result
<1>10. r.truncated = message.truncated /\ r.redacted = message.redacted /\ r.value = v
  BY <1>2, <1>4 DEF Result
<1> QED BY <1>3, <1>4, <1>9, <1>10 DEF r

\* One level more of a walk that is safe is safe.
LEMMA WithinIsSafe ==
  ASSUME NEW m \in [Node -> R!Container], NEW S, R!SafeLeaf \subseteq S,
         NEW tree, NEW inner \in Walks(S), Reports(inner, tree)
  PROVE  /\ R!Within(m, inner) \in Walks(R!SafeLeaf \cup R!SafeContainer(S))
         /\ Reports(R!Within(m, inner), R!Opened(m, tree))
<1> DEFINE Upper == R!SafeLeaf \cup R!SafeContainer(S)
           w == R!Within(m, inner)
           open == R!Opened(m, tree)
<1>0. R!SafeContainer(S) \subseteq Upper /\ R!SafeLeaf \subseteq Upper
  OBVIOUS
<1>1. ASSUME NEW v \in R!Value, NEW s \in SUBSET Node
      PROVE  LET r == w[v][s]
             IN  r \in Result(Upper) /\ (~r.truncated /\ r.redacted = 0 => r.value = open[v])
  <2> DEFINE r == w[v][s]
  <2>1. r = R!WalkValue(m, v, s, inner)
    BY DEF R!Within
  <2>2. r = CASE v.kind = "error" -> R!WalkError(v.message, s, inner)
              [] v.kind \in R!LeafKind -> R!WalkLeaf(v.kind, s)
              [] v.kind = "ref" /\ v.node \in s -> R!Found(R!Truncated, s, TRUE, 0)
              [] v.kind = "ref" /\ v.node \notin s ->
                   R!WalkContainer(m[v.node], s \cup {v.node}, inner)
    BY <2>1 DEF R!WalkValue
  <2>3. open[v] = CASE v.kind \in R!LeafKind -> R!Written(v.kind)
                    [] v.kind = "error" -> R!NameAnd(tree[R!Leaf(v.message)])
                    [] v.kind = "ref" ->
                         [kind |-> R!Shape(m[v.node]),
                          entries |-> [i \in DOMAIN R!Own(m[v.node]) |->
                            [denied |-> R!Own(m[v.node])[i].denied,
                             value |-> tree[R!Own(m[v.node])[i].value]]]]
    BY DEF R!Opened
  <2> HIDE DEF r, w, open, Upper
  <2>4. CASE v.kind = "error"
    <3>1. r = R!WalkError(v.message, s, inner) /\ v.message \in R!Message
      BY <2>2, <2>4, LeafKinds, ValueKinds
    <3>2. open[v] = R!NameAnd(tree[R!Leaf(v.message)])
      BY <2>3, <2>4, LeafKinds
    <3> QED BY <1>0, <3>1, <3>2, ErrorWalked, ResultMonotonic DEF r
  <2>5. CASE v.kind \in R!LeafKind
    <3>1. r = R!WalkLeaf(v.kind, s)
      BY <2>2, <2>5, LeafKinds
    <3>2. open[v] = R!Written(v.kind)
      BY <2>3, <2>5, LeafKinds
    <3> QED BY <1>0, <2>5, <3>1, <3>2, LeafWalked DEF r
  <2>6. CASE v.kind = "ref" /\ v.node \in s
    <3>1. r = R!Found(R!Truncated, s, TRUE, 0)
      BY <2>2, <2>6, LeafKinds
    <3>2. R!Truncated \in Upper
      BY <1>0 DEF R!SafeLeaf, R!Truncated
    <3>3. r \in Result(Upper) /\ r.truncated = TRUE
      BY <3>1, <3>2, FoundCut
    <3> QED BY <3>3 DEF r
  <2>7. CASE v.kind = "ref" /\ v.node \notin s
    <3> DEFINE c == m[v.node]
    <3>1. v.node \in Node
      BY <2>7, LeafKinds, ValueKinds
    <3>2. c \in R!Container /\ s \cup {v.node} \in SUBSET Node
      BY <3>1
    <3>3. r = R!WalkContainer(c, s \cup {v.node}, inner)
      BY <2>2, <2>7, LeafKinds
    <3>4. open[v] = [kind |-> R!Shape(c),
                     entries |-> [i \in DOMAIN R!Own(c) |->
                       [denied |-> R!Own(c)[i].denied,
                        value |-> tree[R!Own(c)[i].value]]]]
      BY <2>3, <2>7, LeafKinds
    <3> HIDE DEF c
    <3>5. /\ r \in Result(R!SafeContainer(S))
          /\ ~r.truncated /\ r.redacted = 0 => r.value = open[v]
      BY <3>2, <3>3, <3>4, ContainerWalked
    <3> QED BY <1>0, <3>5, ResultMonotonic DEF r
  <2> QED BY <2>4, <2>5, <2>6, <2>7, ValueKinds DEF r
<1>2. w \in Walks(Upper)
  <2>1. w = [v \in R!Value |-> w[v]]
    BY DEF R!Within
  <2>2. ASSUME NEW v \in R!Value PROVE w[v] \in [SUBSET Node -> Result(Upper)]
    <3>1. w[v] = [s \in SUBSET Node |-> w[v][s]]
      BY DEF R!Within
    <3>2. \A s \in SUBSET Node : w[v][s] \in Result(Upper)
      BY <1>1
    <3> HIDE DEF w, Upper
    <3> QED BY <3>1, <3>2
  <2> HIDE DEF w, Upper
  <2> QED BY <2>1, <2>2 DEF Walks
<1> QED BY <1>1, <1>2 DEF Reports

\* However deep the limit: what the walk makes is safe, and what it does not report
\* it leaves as it was but for the conversions (redactMetadata).
LEMMA WalkIsSafe ==
  ASSUME NEW m \in [Node -> R!Container], NEW max \in Nat
  PROVE  R!Walk(m, max) \in Walks(R!Safe(max)) /\ Reports(R!Walk(m, max), R!Unfold(m, max))
<1>1. PICK walk : IsWalk(walk, m, max) /\ R!Walk(m, max) = walk[max + 1]
  BY WalkLaw
<1>2. PICK tree : IsTree(tree, m, max) /\ R!Unfold(m, max) = tree[max + 1]
  BY UnfoldLaw
<1>3. PICK safe : IsSafe(safe, max) /\ R!Safe(max) = safe[max + 1]
  BY SafeLaw
<1> DEFINE Good(i) == /\ R!SafeLeaf \subseteq safe[i]
                      /\ walk[i] \in Walks(safe[i]) /\ Reports(walk[i], tree[i])
           G == { i \in 0 .. max + 1 : Good(i) }
<1>4. 0 \in G
  <2>1. 0 \in 0 .. max + 1
    OBVIOUS
  <2>2. /\ walk[0] = R!TooDeep /\ tree[0] = [v \in R!Value |-> v] /\ safe[0] = R!SafeLeaf
    BY <1>1, <1>2, <1>3, <2>1 DEF IsWalk, IsTree, IsSafe
  <2>3. walk[0] \in Walks(safe[0]) /\ Reports(walk[0], tree[0])
    BY <2>2, TooDeepIsSafe
  <2> QED BY <2>1, <2>2, <2>3
<1>5. ASSUME NEW i \in 1 .. max + 1, i - 1 \in G PROVE i \in G
  <2>0. i \in 0 .. max + 1 /\ i # 0
    OBVIOUS
  <2>1. /\ walk[i] = R!Within(m, walk[i - 1]) /\ tree[i] = R!Opened(m, tree[i - 1])
        /\ safe[i] = R!SafeLeaf \cup R!SafeContainer(safe[i - 1])
    BY <1>1, <1>2, <1>3, <2>0 DEF IsWalk, IsTree, IsSafe
  <2>2. Good(i - 1)
    BY <1>5
  <2>3. walk[i] \in Walks(safe[i]) /\ Reports(walk[i], tree[i])
    <3> DEFINE S == safe[i - 1]
               inner == walk[i - 1]
               t == tree[i - 1]
    <3>1. /\ R!SafeLeaf \subseteq S
          /\ inner \in Walks(S) /\ Reports(inner, t)
      BY <2>2
    <3>2. /\ walk[i] = R!Within(m, inner) /\ tree[i] = R!Opened(m, t)
          /\ safe[i] = R!SafeLeaf \cup R!SafeContainer(S)
      BY <2>1
    <3> HIDE DEF S, inner, t
    <3> QED BY <3>1, <3>2, WithinIsSafe
  <2>4. R!SafeLeaf \subseteq safe[i]
    BY <2>1
  <2> QED BY <2>0, <2>3, <2>4
<1>6. max + 1 \in G
  <2>1. max + 1 \in Nat
    OBVIOUS
  <2> HIDE DEF G
  <2> QED BY <1>4, <1>5, <2>1, CountUp
<1> QED BY <1>1, <1>2, <1>3, <1>6

(* The metadata is of its type, and what is stored of it is as it should be. *)
RedactionInv ==
  /\ metadata \in [Node -> R!Container] /\ maxDepth \in Nat
  /\ R!NothingDenied

\* Serializing keeps the invariant (serializeMetadata).
LEMMA RedactionStep ==
  ASSUME RedactionInv, [R!Next]_R!vars
  PROVE  RedactionInv'
<1>1. CASE R!SerializeMetadata
  <2>1. /\ stored' = R!Walk(metadata, maxDepth)[R!Ref(Root)][{}]
        /\ form' \in R!FormOf(stored') /\ metadata' = metadata /\ maxDepth' = maxDepth
    BY <1>1 DEF R!SerializeMetadata, R!RedactMetadata
  <2>2. R!Ref(Root) \in R!Value /\ {} \in SUBSET Node
    BY RecordsAssumption DEF R!RedactionAssumption, R!Value
  <2> DEFINE walk == R!Walk(metadata, maxDepth)
             tree == R!Unfold(metadata, maxDepth)
  <2>3. walk \in Walks(R!Safe(maxDepth)) /\ Reports(walk, tree)
    BY WalkIsSafe DEF RedactionInv
  <2>4. stored' \in Result(R!Safe(maxDepth))
    BY <2>1, <2>2, <2>3 DEF Walks
  <2>5. ~stored'.truncated /\ stored'.redacted = 0 => stored'.value = tree[R!Ref(Root)]
    BY <2>1, <2>2, <2>3 DEF Reports
  <2>6. form' = "whole" => ~stored'.truncated
    BY <2>1 DEF R!FormOf
  <2>7. stored'.value \in R!Safe(maxDepth')
    BY <2>1, <2>4 DEF Result
  <2>8. tree = R!Unfold(metadata', maxDepth')
    BY <2>1
  <2> HIDE DEF walk, tree
  <2>9. R!NothingDenied'
    BY <2>5, <2>6, <2>7, <2>8 DEF R!NothingDenied
  <2> QED BY <2>1, <2>9 DEF RedactionInv
<1>2. CASE UNCHANGED R!vars
  BY <1>2 DEF R!vars, RedactionInv, R!NothingDenied
<1> QED BY <1>1, <1>2 DEF R!Next

(* Whatever objects the metadata has and however they contain each other,    *)
(* and wherever the limits are: nothing is stored that is denied by its key  *)
(* or its value or is beyond the limits; what is replaced or cut off is      *)
(* reported; and what is not is stored as it was, but for the conversions of *)
(* numbers, dates, errors and collections (redactMetadata,                   *)
(* serializeMetadata).                                                       *)
THEOREM Unrevealing == R!Spec => []NothingDenied
<1>1. R!Init => RedactionInv
  BY RecordsAssumption DEF R!Init, RedactionInv, R!NothingDenied, R!RedactionAssumption
<1>2. RedactionInv /\ [R!Next]_R!vars => RedactionInv'
  BY RedactionStep
<1>3. RedactionInv => NothingDenied
  BY DEF RedactionInv, NothingDenied
<1> QED BY <1>1, <1>2, <1>3, PTL DEF R!Spec
===============================================================================
