------------------------------ MODULE UserAccount ------------------------------
(***************************************************************************)
(* The credentials and the wallet addresses of the users:                  *)
(* services/user-account.service.ts behind controllers/user.controller.ts, *)
(* with everything else that writes passwords, sessions and their tokens:  *)
(* logins, resets of the password, refreshes, logouts, revocations of      *)
(* sessions, and the sweep that erases accounts.  (RefreshTokens is about  *)
(* the families of the tokens, Verification about the token of a reset.)   *)
(*                                                                         *)
(* Both changes run in an audited mutation: the statements of the change   *)
(* and the event of the trail in one transaction.  The first statement     *)
(* takes the row lock of the user; under READ COMMITTED each statement     *)
(* sees what was committed when it started, and others see nothing before  *)
(* the commit.                                                             *)
(***************************************************************************)
CONSTANTS
  User, Password, Address,
  NoUser, NoPassword, NoAddress,
  Request       \* each serves one call; a login opens the session of its name,
                \* and a login or a refresh mints the token of its name

UserAccountAssumption ==
  /\ NoUser \notin User
  /\ NoPassword \notin Password
  /\ NoAddress \notin Address

VARIABLES
  user,     \* [User -> Account], the users rows
  session,  \* [Request -> Session], the sessions rows
  token,    \* [Request -> RefreshToken], the refresh_tokens rows
  pc,       \* [Request -> Pc]
  call,     \* [Request -> Call], the user and the arguments of a call
  found,    \* [Request -> SUBSET Request], the sessions a change has listed, or
            \* the token a refresh has read
  trail,    \* requests whose change is in audit_events
  late,     \* history: sessions opened by a login that a change overlapped
  undone,   \* history: users whose new password such a login overwrote
  spared    \* history: sessions that were revoked without their tokens, or got
            \* one from a refresh that had read them before

rows == <<user, session, token, trail>>
history == <<late, undone, spared>>
local == <<pc, call, found>>
vars == <<rows, local, history>>

-------------------------------------------------------------------------------
Account ==
  [status : {"ACTIVE", "DELETED"},
   password : Password \cup {NoPassword},
   weak : BOOLEAN,  \* hashed at a lower cost than the configured one
   wallet : Address \cup {NoAddress}]

\* opened: the password that the login was given.
Session ==
  [owner : User \cup {NoUser}, opened : Password \cup {NoPassword},
   live : BOOLEAN]
RefreshToken ==
  [status : {"none", "ACTIVE", "ROTATED", "REVOKED"}, session : Request]

Call ==
  [user : User \cup {NoUser}, password : Password \cup {NoPassword},
   rehash : BOOLEAN, reset : BOOLEAN, wallet : Address \cup {NoAddress}]

Answer ==
  {"opened", "changed", "reset", "refreshed", "reuse", "invalid", "updated",
   "unchanged", "conflict", "not_found", "failed"}
Pc ==
  {"idle", "login", "issue", "hash", "list", "revoke", "look", "write", "claim",
   "mint", "replay"} \cup Answer

NoSession ==
  [owner |-> NoUser, opened |-> NoPassword, live |-> FALSE]
NoCall ==
  [user |-> NoUser, password |-> NoPassword, rehash |-> FALSE, reset |-> FALSE,
   wallet |-> NoAddress]

TypeOK ==
  /\ user \in [User -> Account]
  /\ session \in [Request -> Session]
  /\ token \in [Request -> RefreshToken]
  /\ pc \in [Request -> Pc]
  /\ call \in [Request -> Call]
  /\ found \in [Request -> SUBSET Request]
  /\ trail \in SUBSET Request
  /\ late \in SUBSET Request
  /\ undone \in SUBSET User
  /\ spared \in SUBSET Request

Init ==
  /\ user \in [User -> [status : {"ACTIVE"}, password : Password,
                        weak : BOOLEAN, wallet : {NoAddress}]]
  /\ session = [r \in Request |-> NoSession]
  /\ token = [r \in Request |-> [status |-> "none", session |-> r]]
  /\ pc = [r \in Request |-> "idle"]
  /\ call = [r \in Request |-> NoCall]
  /\ found = [r \in Request |-> {}]
  /\ trail = {}
  /\ late = {}
  /\ undone = {}
  /\ spared = {}

Goto(r, l) == pc' = [pc EXCEPT ![r] = l]

\* The answer is sent; what the call had in hand is gone.
Done(r, l) ==
  /\ Goto(r, l)
  /\ call' = [call EXCEPT ![r] = NoCall]
  /\ found' = [found EXCEPT ![r] = {}]

Of(r) == call[r].user
Row(r) == user[Of(r)]

Begin(r, c, l) ==
  /\ pc[r] = "idle"
  /\ Goto(r, l)
  /\ call' = [call EXCEPT ![r] = c]
  /\ UNCHANGED <<rows, found, history>>

\* A request that has the row of u locked, in a transaction.
Changing(q, u) == pc[q] \in {"list", "revoke"} /\ Of(q) = u
Locked(u) == \E q \in Request : Changing(q, u)

\* The tokens of the sessions in S, as far as there are any.
Marked(S, status) ==
  [t \in Request |-> IF token[t].session \in S /\ token[t].status # "none"
                     THEN [token[t] EXCEPT !.status = status] ELSE token[t]]

-------------------------------------------------------------------------------
(* Logins and erasure.                                                      *)

\* The account is read and the password compared; the hash may be outdated.
StartLogin(r, u, p) ==
  /\ user[u].status = "ACTIVE" /\ user[u].password = p
  /\ Begin(r, [NoCall EXCEPT !.user = u, !.password = p,
                              !.rehash = user[u].weak], "login")

\* The account is written: with a new hash of the password that was given, if
\* the one that was read is outdated.
TouchAccount(r) ==
  /\ pc[r] = "login" /\ ~Locked(Of(r))
  /\ IF call[r].rehash
     THEN /\ user' = [user EXCEPT ![Of(r)].password = call[r].password,
                                  ![Of(r)].weak = FALSE]
          /\ undone' = IF Row(r).password # call[r].password
                       THEN undone \cup {Of(r)} ELSE undone
     ELSE UNCHANGED <<user, undone>>
  /\ Goto(r, "issue")
  /\ UNCHANGED <<session, token, call, found, trail, late, spared>>

OpenSession(r) ==
  /\ pc[r] = "issue"
  /\ session' = [session EXCEPT ![r] =
       [owner |-> Of(r), opened |-> call[r].password, live |-> TRUE]]
  /\ token' = [token EXCEPT ![r] = [status |-> "ACTIVE", session |-> r]]
  /\ late' = IF Row(r).password # call[r].password \/ Locked(Of(r))
             THEN late \cup {r} ELSE late
  /\ Done(r, "opened")
  /\ UNCHANGED <<user, trail, undone, spared>>

\* The sweep of the deletions leaves a tombstone.
Erase(u) ==
  /\ user[u].status # "DELETED" /\ ~Locked(u)
  /\ user' = [user EXCEPT ![u] =
       [status |-> "DELETED", password |-> NoPassword, weak |-> FALSE,
        wallet |-> NoAddress]]
  /\ session' =
       [s \in Request |-> IF session[s].owner = u THEN NoSession ELSE session[s]]
  /\ token' = Marked({ s \in Request : session[s].owner = u }, "none")
  /\ UNCHANGED <<local, trail, history>>

-------------------------------------------------------------------------------
(* Refreshes and revocations.                                               *)

Closed(S) ==
  [s \in Request |-> IF s \in S THEN [session[s] EXCEPT !.live = FALSE]
                     ELSE session[s]]

\* rotate(): the token and its session are read; one that was used before is a
\* replay.
StartRefresh(r, t) ==
  /\ pc[r] = "idle"
  /\ \/ /\ token[t].status = "ACTIVE" /\ session[token[t].session].live
        /\ Goto(r, "claim")
     \/ token[t].status = "ROTATED" /\ Goto(r, "replay")
  /\ call' = [call EXCEPT ![r] =
       [NoCall EXCEPT !.user = session[token[t].session].owner]]
  /\ found' = [found EXCEPT ![r] = {t}]
  /\ UNCHANGED <<rows, history>>

ClaimToken(r) ==
  /\ pc[r] = "claim"
  /\ \E t \in found[r] :
       IF token[t].status = "ACTIVE"
       THEN token' = [token EXCEPT ![t].status = "ROTATED"] /\ Goto(r, "mint")
       ELSE Goto(r, "replay") /\ UNCHANGED token
  /\ UNCHANGED <<user, session, trail, call, found, history>>

\* The session is not looked at again; only one that is gone refuses the token.
MintToken(r) ==
  /\ pc[r] = "mint"
  /\ \E t \in found[r] :
       /\ session[token[t].session].owner # NoUser
       /\ token' = [token EXCEPT ![r] =
            [status |-> "ACTIVE", session |-> token[t].session]]
       /\ spared' = IF session[token[t].session].live THEN spared
                    ELSE spared \cup {token[t].session}
  /\ Done(r, "refreshed")
  /\ UNCHANGED <<user, session, trail, late, undone>>

\* revokeFamily() of a token that was used twice.
RevokeReplayed(r) ==
  /\ pc[r] = "replay"
  /\ \E t \in found[r] :
       /\ session' = Closed({token[t].session})
       /\ token' = Marked({token[t].session}, "REVOKED")
  /\ Done(r, "reuse")
  /\ UNCHANGED <<user, trail, history>>

\* A logout, of one session or of those that were listed.
LogOut(S) ==
  /\ session' = Closed(S)
  /\ token' = Marked(S, "REVOKED")
  /\ UNCHANGED <<user, trail, local, history>>

\* The owner revokes one of the other sessions or all of them; so does a
\* deactivation or a request for deletion.  Nobody looks at their tokens.
RevokeSessions(S) ==
  /\ session' = Closed(S)
  /\ spared' = spared \cup { s \in S : session[s].live }
  /\ UNCHANGED <<user, token, trail, local, late, undone>>

-------------------------------------------------------------------------------
(* changePassword() and resetPassword().                                    *)

\* The account is read and the current password compared.
StartChange(r, u, current, new) ==
  Begin(r, [NoCall EXCEPT !.user = u, !.password = new],
        IF user[u].status = "DELETED" THEN "not_found"
        ELSE IF user[u].password # current THEN "invalid" ELSE "hash")

\* The token of the reset is read: it is there until the account is erased.
StartReset(r, u, new) ==
  /\ user[u].status # "DELETED"
  /\ Begin(r, [NoCall EXCEPT !.user = u, !.password = new, !.reset = TRUE], "hash")

\* The transaction begins: the row of the user is updated; that of a reset with
\* the token, which must still be there.
WritePassword(r) ==
  /\ pc[r] = "hash" /\ ~Locked(Of(r))
  /\ call[r].reset => Row(r).status # "DELETED"
  /\ Goto(r, "list")
  /\ UNCHANGED <<rows, call, found, history>>

Unrevoked(u) == { s \in Request : session[s].owner = u /\ session[s].live }

\* The sessions that the change lists, or that the update of the reset finds.
ListSessions(r) ==
  /\ pc[r] = "list"
  /\ found' = [found EXCEPT ![r] = Unrevoked(Of(r))]
  /\ Goto(r, "revoke")
  /\ UNCHANGED <<rows, call, history>>

SetPassword(r) ==
  user' = [user EXCEPT ![Of(r)].password = call[r].password,
                       ![Of(r)].weak = FALSE]

\* Seeded fault: the revocation follows the transaction, and may fail there.
RevokeAfterwards(r) ==
  /\ pc[r] = "revoke" /\ ~call[r].reset
  /\ SetPassword(r)
  /\ trail' = trail \cup {r}
  /\ \/ /\ session' = Closed(found[r]) /\ token' = Marked(found[r], "REVOKED")
        /\ Done(r, "changed")
     \/ UNCHANGED <<session, token>> /\ Done(r, "failed")
  /\ UNCHANGED history

\* The sessions that were listed are revoked with their tokens, the event is
\* added and all of it is committed.
CommitChange(r) ==
  /\ pc[r] = "revoke" /\ ~call[r].reset
  /\ SetPassword(r)
  /\ session' = Closed(found[r])
  /\ token' = Marked(found[r], "REVOKED")
  /\ trail' = trail \cup {r}
  /\ Done(r, "changed")
  /\ UNCHANGED history

\* A reset revokes the sessions and leaves their tokens.
CommitReset(r) ==
  /\ pc[r] = "revoke" /\ call[r].reset
  /\ SetPassword(r)
  /\ session' = Closed(found[r])
  /\ spared' = spared \cup { s \in found[r] : session[s].live }
  /\ Done(r, "reset")
  /\ UNCHANGED <<token, trail, late, undone>>

-------------------------------------------------------------------------------
(* updateWalletAddress().                                                   *)

StartWallet(r, u, a) ==
  Begin(r, [NoCall EXCEPT !.user = u, !.wallet = a],
        IF user[u].status = "DELETED" THEN "not_found"
        ELSE IF user[u].wallet = a THEN "unchanged" ELSE "look")

Claimed(r) == \E v \in User \ {Of(r)} : user[v].wallet = call[r].wallet

LookForClaimant(r) ==
  /\ pc[r] = "look"
  /\ IF Claimed(r) THEN Done(r, "conflict")
     ELSE Goto(r, "write") /\ UNCHANGED <<call, found>>
  /\ UNCHANGED <<rows, history>>

\* The unique index refuses the address that another user has by now.
WriteWallet(r) ==
  /\ pc[r] = "write" /\ ~Locked(Of(r))
  /\ IF Claimed(r)
     THEN Done(r, "conflict") /\ UNCHANGED <<user, trail>>
     ELSE /\ user' = [user EXCEPT ![Of(r)].wallet = call[r].wallet]
          /\ trail' = trail \cup {r}
          /\ Done(r, "updated")
  /\ UNCHANGED <<session, token, history>>

\* A statement fails, the event among them, or the process dies: the
\* transaction is rolled back.
Fail(r) ==
  /\ pc[r] \notin {"idle"} \cup Answer
  /\ Done(r, "failed")
  /\ UNCHANGED <<rows, history>>

Next ==
  \/ \E u \in User :
       \/ Erase(u)
       \/ \E S \in SUBSET { s \in Request : session[s].owner = u } :
            LogOut(S) \/ RevokeSessions(S)
  \/ \E r \in Request, u \in User :
       \/ \E p \in Password : StartLogin(r, u, p) \/ StartReset(r, u, p)
       \/ \E p, q \in Password : StartChange(r, u, p, q)
       \/ \E a \in Address : StartWallet(r, u, a)
  \/ \E r, t \in Request : StartRefresh(r, t)
  \/ \E r \in Request :
       \/ TouchAccount(r) \/ OpenSession(r)
       \/ ClaimToken(r) \/ MintToken(r) \/ RevokeReplayed(r)
       \/ WritePassword(r) \/ ListSessions(r) \/ CommitChange(r) \/ CommitReset(r)
       \/ LookForClaimant(r) \/ WriteWallet(r)
       \/ Fail(r)

Spec == Init /\ [][Next]_vars

-------------------------------------------------------------------------------
(* Properties.                                                              *)

\* Whatever changes and resets of the password overlap or fail, a live session
\* was opened with the password that counts: no session outlives the password
\* it was opened with.  Only a login that compared the old password and was
\* overtaken leaves one, or puts the old password back (changePassword: "either
\* both land or neither does").  And what a change, a logout or a replay
\* revoked has no token that is ACTIVE: such a token of a dead session is one
\* that a reset or a revocation of sessions has left, or that a refresh which
\* had read the session before minted late.
SignedOut ==
  /\ \A s \in Request :
       session[s].live /\ s \notin late /\ session[s].owner \notin undone =>
         session[s].opened = user[session[s].owner].password
  /\ \A t \in Request :
       token[t].status = "ACTIVE" =>
         session[token[t].session].live \/ token[t].session \in spared

\* Two users never have one wallet address, although both look for another
\* claimant before they write (updateWalletAddress).
OneClaimant ==
  \A u, v \in User :
    user[u].wallet = user[v].wallet => u = v \/ user[u].wallet = NoAddress

\* Every change that was answered as done is in the trail, and nothing else is
\* (auditedMutation).
ChangesAudited ==
  trail = { r \in Request : pc[r] \in {"changed", "updated"} }
===============================================================================
