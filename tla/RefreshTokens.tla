----------------------------- MODULE RefreshTokens -----------------------------
(***************************************************************************)
(* The sessions of one user and their rotating refresh tokens:             *)
(* RefreshTokenService (services/refresh-token.service.ts), SessionService *)
(* (services/session.service.ts) and the other places that revoke sessions *)
(* (auth.controller.ts, user-account.service.ts, account-lifecycle.        *)
(* service.ts).                                                            *)
(*                                                                         *)
(* A refresh is a read, a conditional update that claims the token and a   *)
(* transaction that mints the next one.  Other requests run between them,  *)
(* and the request may die there.  Everything else that writes is one      *)
(* transaction whose earlier reads are of columns that never change, and   *)
(* one step, but for logout-all, which revokes the sessions it has listed. *)
(***************************************************************************)
EXTENDS Naturals, FiniteSets

CONSTANTS
  Session,    \* sessions the user may open
  Request,    \* requests in flight: refresh or logout-all
  MaxTokens,  \* bound: tokens of a session
  MaxFaults   \* bound: requests that die between two statements

TokenAssumption == MaxTokens \in Nat \ {0} /\ MaxFaults \in Nat

VARIABLES
  session,  \* [Session -> SessionStatus]: isRevoked of the sessions table
  expired,  \* [Session -> BOOLEAN]: expiresAt of the session has passed
  token,    \* [Token -> TokenStatus]: the refresh_tokens table
  pc,       \* [Request -> Pc]: where a request is
  held,     \* [Request -> SUBSET Token]: the row that rotate() has read
  listed,   \* [Request -> SUBSET Session]: the sessions logout-all has read
  late,     \* history: [Session -> Nat], tokens minted after it was revoked
  faults    \* history: faults so far

vars == <<session, expired, token, pc, held, listed, late, faults>>

-------------------------------------------------------------------------------
(* issueSession starts one rotation family per session and rotate() keeps   *)
(* it, so the session stands for the family.  Every token lives as long as  *)
(* the session or longer, so only the expiry of the session counts.         *)
Token == Session \X (1..MaxTokens)

SessionStatus == {"NONE", "LIVE", "REVOKED"}
TokenStatus == {"NONE", "ACTIVE", "ROTATED", "REVOKED"}
Pc == {"idle", "claim", "mint", "reuse", "revoke"}

TypeOK ==
  /\ session \in [Session -> SessionStatus]
  /\ expired \in [Session -> BOOLEAN]
  /\ token \in [Token -> TokenStatus]
  /\ pc \in [Request -> Pc]
  /\ held \in [Request -> SUBSET Token]
  /\ listed \in [Request -> SUBSET Session]
  /\ late \in [Session -> Nat]
  /\ faults \in Nat

Init ==
  /\ session = [s \in Session |-> "NONE"]
  /\ expired = [s \in Session |-> FALSE]
  /\ token = [t \in Token |-> "NONE"]
  /\ pc = [r \in Request |-> "idle"]
  /\ held = [r \in Request |-> {}]
  /\ listed = [r \in Request |-> {}]
  /\ late = [s \in Session |-> 0]
  /\ faults = 0

Goto(r, l) == pc' = [pc EXCEPT ![r] = l]
Done(r) == /\ Goto(r, "idle")
           /\ held' = [held EXCEPT ![r] = {}]
           /\ listed' = [listed EXCEPT ![r] = {}]

Of(s) == { t \in Token : t[1] = s }

\* updateMany of the sessions, where isRevoked is false.
RevokeSessions(S) ==
  session' = [s \in Session |->
               IF s \in S /\ session[s] = "LIVE" THEN "REVOKED" ELSE session[s]]

\* updateMany of the tokens of the sessions, where the status is not REVOKED.
RevokeTokens(S) ==
  token' = [t \in Token |->
             IF t[1] \in S /\ token[t] # "NONE" THEN "REVOKED" ELSE token[t]]

-------------------------------------------------------------------------------
(* issueSession: after a login, a registration or an OTP login *)

IssueSession(s) ==
  /\ session[s] = "NONE"
  /\ session' = [session EXCEPT ![s] = "LIVE"]
  /\ token' = [token EXCEPT ![<<s, 1>>] = "ACTIVE"]
  /\ UNCHANGED <<expired, pc, held, listed, late, faults>>

-------------------------------------------------------------------------------
(* rotate *)

\* Seeded fault: the state of the session is not looked at.
RotatableNoSession(t) == token[t] = "ACTIVE" /\ ~expired[t[1]]

\* What the checks before the claim let through.
Rotatable(t) ==
  token[t] = "ACTIVE" /\ session[t[1]] = "LIVE" /\ ~expired[t[1]]

\* The owner, or whoever has a copy, presents the token.  The last token of the
\* model's family is never refreshed.
PresentActive(r, t) ==
  /\ pc[r] = "idle"
  /\ Rotatable(t) /\ t[2] < MaxTokens
  /\ Goto(r, "claim")
  /\ held' = [held EXCEPT ![r] = {t}]
  /\ UNCHANGED <<session, expired, token, listed, late, faults>>

\* Replay of a token that was used before, checked ahead of everything else.
PresentRotated(r, t) ==
  /\ pc[r] = "idle"
  /\ token[t] = "ROTATED"
  /\ Goto(r, "reuse")
  /\ held' = [held EXCEPT ![r] = {t}]
  /\ UNCHANGED <<session, expired, token, listed, late, faults>>

\* Seeded fault: the update that claims looks for the id alone.
ClaimableAlways(t) == TRUE
Claimable(t) == token[t] = "ACTIVE"

ClaimWins(r, t) ==
  /\ pc[r] = "claim" /\ t \in held[r]
  /\ Claimable(t)
  /\ token' = [token EXCEPT ![t] = "ROTATED"]
  /\ Goto(r, "mint")
  /\ UNCHANGED <<session, expired, held, listed, late, faults>>

\* count = 0, because of another refresh or because of a logout.
ClaimLoses(r, t) ==
  /\ pc[r] = "claim" /\ t \in held[r]
  /\ ~Claimable(t)
  /\ Goto(r, "reuse")
  /\ UNCHANGED <<session, expired, token, held, listed, late, faults>>

\* The session is not read again.
Mint(r, t) ==
  /\ pc[r] = "mint" /\ t \in held[r]
  /\ \E n \in 1..MaxTokens :
       /\ token[<<t[1], n>>] = "NONE"
       /\ \A m \in 1..(n - 1) : token[<<t[1], m>>] # "NONE"
       /\ token' = [token EXCEPT ![<<t[1], n>>] = "ACTIVE"]
  /\ late' = [late EXCEPT ![t[1]] = IF session[t[1]] = "REVOKED" THEN @ + 1 ELSE @]
  /\ Done(r)
  /\ UNCHANGED <<session, expired, faults>>

\* Seeded fault: a replay revokes the family and forgets the session.
RevokeFamilyTokens(S) == RevokeTokens(S) /\ UNCHANGED session

\* revokeFamily: the whole family and its session, in one transaction.
RevokeFamily(S) == RevokeTokens(S) /\ RevokeSessions(S)

AnswerReuse(r, t) ==
  /\ pc[r] = "reuse" /\ t \in held[r]
  /\ RevokeFamily({t[1]})
  /\ Done(r)
  /\ UNCHANGED <<expired, late, faults>>

-------------------------------------------------------------------------------
(* Logout and the other revocations *)

\* revokeByRefreshToken: any token of the family will do, whatever its status.
Logout(t) ==
  /\ token[t] # "NONE"
  /\ RevokeFamily({t[1]})
  /\ UNCHANGED <<expired, pc, held, listed, late, faults>>

Live == { s \in Session : session[s] = "LIVE" }

\* revokeAllForUser lists the live sessions ...
ListSessions(r) ==
  /\ pc[r] = "idle" /\ Live # {}
  /\ Goto(r, "revoke")
  /\ listed' = [listed EXCEPT ![r] = Live]
  /\ UNCHANGED <<session, expired, token, held, late, faults>>

\* ... and revokes what it has listed.
LogoutAll(r) ==
  /\ pc[r] = "revoke"
  /\ RevokeFamily(listed[r])
  /\ Done(r)
  /\ UNCHANGED <<expired, late, faults>>

\* changePassword: every live session and its tokens, in the transaction.
ChangePassword ==
  /\ Live # {}
  /\ RevokeFamily(Live)
  /\ UNCHANGED <<expired, pc, held, listed, late, faults>>

\* Sessions only, their tokens stay as they are.
RevokeOnly(S) ==
  /\ S # {} /\ S \subseteq Live
  /\ RevokeSessions(S)
  /\ UNCHANGED <<expired, token, pc, held, listed, late, faults>>

RevokeOne(s) == ~expired[s] /\ RevokeOnly({s})

\* The session whose latest access token the caller presents: none, when the
\* session has been refreshed since.
Current == {{}} \cup { {s} : s \in Live }

RevokeAllOthers ==
  \E current \in Current :
    RevokeOnly({ s \in Live : ~expired[s] } \ current)

\* resetPassword, deactivate, requestDeletion.
RevokeLive == RevokeOnly(Live)

-------------------------------------------------------------------------------
SessionExpires(s) ==
  /\ session[s] # "NONE" /\ ~expired[s]
  /\ expired' = [expired EXCEPT ![s] = TRUE]
  /\ UNCHANGED <<session, token, pc, held, listed, late, faults>>

\* The process dies or the database refuses: nothing of the request is undone.
Die(r) ==
  /\ pc[r] # "idle"
  /\ faults < MaxFaults
  /\ faults' = faults + 1
  /\ Done(r)
  /\ UNCHANGED <<session, expired, token, late>>

-------------------------------------------------------------------------------
Rotate(r, t) ==
  \/ PresentActive(r, t) \/ PresentRotated(r, t)
  \/ ClaimWins(r, t) \/ ClaimLoses(r, t)
  \/ Mint(r, t)
  \/ AnswerReuse(r, t)

Next ==
  \/ \E s \in Session : IssueSession(s) \/ SessionExpires(s)
  \/ \E r \in Request, t \in Token : Rotate(r, t)
  \/ \E t \in Token : Logout(t)
  \/ \E r \in Request : ListSessions(r) \/ LogoutAll(r) \/ Die(r)
  \/ ChangePassword
  \/ \E s \in Session : RevokeOne(s)
  \/ RevokeAllOthers \/ RevokeLive

Spec == Init /\ [][Next]_vars

-------------------------------------------------------------------------------
(* Properties *)

Active(s) == { t \in Of(s) : token[t] = "ACTIVE" }
Minting(s) == { r \in Request : pc[r] = "mint" /\ \E t \in held[r] : t[1] = s }

(* However many requests present copies of the same token, a family has one *)
(* successor at a time: at most one ACTIVE token or one request about to    *)
(* mint it, in a live session and in a revoked one (the conditional update  *)
(* of rotate).                                                              *)
OneSuccessor ==
  \A s \in Session :
    /\ \A t, u \in Active(s) : t = u
    /\ \A r, q \in Minting(s) : r = q
    /\ Active(s) = {} \/ Minting(s) = {}

(* A revoked session is dead but for one request that was already past its  *)
(* checks: rotate mints at most one more token in it, whoever races with    *)
(* logout, logout-all, a replay or a password change, and that last token   *)
(* is never refreshed.                                                      *)
LateAtMostOnce == \A s \in Session : late[s] <= 1

(* A replay or a logout ends it: once every token of a family is dead and   *)
(* nobody is minting, the family stays without an ACTIVE token.  A family   *)
(* that has lost its successor never gets another (rotate, revokeFamily).   *)
DeadFamilyStaysDead ==
  [][\A s \in Session :
       session[s] # "NONE" /\ Active(s) = {} /\ Minting(s) = {}
         => Active(s)' = {} /\ Minting(s)' = {}]_vars

(* Whatever requests race, an owner is never shut out of a live session     *)
(* unless a request died: the session has its ACTIVE token, or the request  *)
(* that brings the next one is on its way (rotate, revokeFamily revoke      *)
(* tokens only together with the session).                                  *)
LiveIsUsable ==
  faults = 0 =>
    \A s \in Session :
      session[s] = "LIVE" => Active(s) # {} \/ Minting(s) # {}
===============================================================================
