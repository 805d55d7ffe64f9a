----------------------------- MODULE Verification -----------------------------
(***************************************************************************)
(* How an account is opened and how its owner proves an address, a phone   *)
(* or a forgotten password's account to be theirs: registration, the       *)
(* tokens that are mailed and the codes that are sent to phones            *)
(* (controllers/auth.controller.ts, services/otp.service.ts).              *)
(*                                                                         *)
(* A proof is a row of verification_tokens or of otp_challenges.  Asking   *)
(* for one revokes those before it, in a statement of its own; using one   *)
(* reads it first and writes it, by its id, later.                         *)
(***************************************************************************)
EXTENDS Naturals, FiniteSets

CONSTANTS
  User,
  Phone,
  NoPhone,
  Client,       \* requests that may be under way together
  Proof,        \* rows, numbered as they are created
  NoProof,
  MaxAttempts,  \* OTP_MAX_ATTEMPTS: 5
  Scenarios     \* what a behaviour may meet: do requests keep apart; bounds:
                \* the kinds, users and rows there are, the requests that may die

Mailed == {"email", "reset"}
Texted == {"login", "phone"}
Kind == Mailed \cup Texted

ASSUME VerificationAssumption ==
  /\ User # {}
  /\ NoPhone \notin Phone
  /\ Proof \subseteq Nat /\ NoProof \notin Proof
  /\ MaxAttempts \in Nat \ {0}
  /\ Scenarios \subseteq [alone : BOOLEAN, kinds : SUBSET Kind,
                          users : SUBSET User, rows : Nat, deaths : Nat]

VARIABLES
  scenario, \* the one of this behaviour
  account,  \* [User -> AccountState]
  proof,    \* [Proof -> ProofState]
  sent,     \* the proofs that their owner has got
  limits,   \* resendCooldowns and the counters: pairs of an owner, or a phone,
            \* and a kind that are refused for now
  pc,       \* [Client -> Pc]
  req,      \* [Client -> Request], its arguments and what it has read
  uses,     \* history: [Proof -> Nat], how often it was accepted
  wrong,    \* history: [Proof -> Nat], wrong codes that were answered
  late,     \* history: [Proof -> Nat], times it was accepted although spent
  undone,   \* history: [Proof -> Nat], wrong answers that a write uncounted
  deaths    \* history: requests that died or failed so far

history == <<uses, wrong, late, undone>>
vars == <<scenario, account, proof, sent, limits, pc, req, history, deaths>>

-------------------------------------------------------------------------------
\* verified: isVerified; proven: phoneVerifiedAt is set; resets: history,
\* how often the password was reset.
AccountState == [registered : BOOLEAN, verified : BOOLEAN, resets : Nat,
                 phone : Phone \cup {NoPhone}, proven : BOOLEAN]
Limit == (User \cup Phone) \X Kind
Spent == {"used", "revoked", "expired", "locked"}
ProofState == [status : {"none", "pending"} \cup Spent, kind : Kind,
               user : User, phone : Phone \cup {NoPhone},
               tries : Nat, over : BOOLEAN]
Request == [user : User, kind : Kind, phone : Phone \cup {NoPhone},
            proof : Proof \cup {NoProof}, tries : Nat]
Pc == {"idle", "hash", "revoke", "create", "send", "use", "expire", "miss",
       "hit", "phone", "login"}

alone == scenario.alone
AnyUser == CHOOSE u \in User : TRUE
NoRequest == [user |-> AnyUser, kind |-> "email", phone |-> NoPhone,
              proof |-> NoProof, tries |-> 0]

TypeOK ==
  /\ scenario \in Scenarios
  /\ account \in [User -> AccountState]
  /\ proof \in [Proof -> ProofState]
  /\ sent \in SUBSET Proof
  /\ limits \in SUBSET Limit
  /\ pc \in [Client -> Pc] /\ req \in [Client -> Request]
  /\ uses \in [Proof -> Nat] /\ wrong \in [Proof -> Nat]
  /\ late \in [Proof -> Nat] /\ undone \in [Proof -> Nat]
  /\ deaths \in Nat

Init ==
  /\ scenario \in Scenarios
  /\ account = [u \in User |-> [registered |-> "email" \notin scenario.kinds, verified |-> FALSE,
                                resets |-> 0, phone |-> NoPhone, proven |-> FALSE]]
  /\ proof = [p \in Proof |-> [status |-> "none", kind |-> "email", user |-> AnyUser,
                               phone |-> NoPhone, tries |-> 0, over |-> FALSE]]
  /\ sent = {} /\ limits = {}
  /\ pc = [c \in Client |-> "idle"] /\ req = [c \in Client |-> NoRequest]
  /\ uses = [p \in Proof |-> 0] /\ wrong = [p \in Proof |-> 0]
  /\ late = [p \in Proof |-> 0] /\ undone = [p \in Proof |-> 0]
  /\ deaths = 0

Goto(c, l) == pc' = [pc EXCEPT ![c] = l] /\ UNCHANGED req
Done(c) == /\ pc' = [pc EXCEPT ![c] = "idle"]
           /\ req' = [req EXCEPT ![c] = NoRequest]
Begin(c, r, l) ==
  /\ pc[c] = "idle"
  /\ r.kind \in scenario.kinds /\ r.user \in scenario.users
  /\ alone => \A d \in Client : pc[d] = "idle"
  /\ pc' = [pc EXCEPT ![c] = l]
  /\ req' = [req EXCEPT ![c] = r]

Of(u, K) == { p \in Proof : /\ proof[p].status = "pending"
                            /\ proof[p].user = u /\ proof[p].kind \in K }
\* The next row is inserted; bound: there is one left.
Insert(c, k, u, ph) ==
  \E p \in Proof :
    /\ proof[p].status = "none" /\ p <= scenario.rows
    /\ \A q \in Proof : q < p => proof[q].status # "none"
    /\ proof' = [proof EXCEPT ![p] = [@ EXCEPT !.status = "pending", !.kind = k,
                                               !.user = u, !.phone = ph]]
    /\ pc' = [pc EXCEPT ![c] = "send"]
    /\ req' = [req EXCEPT ![c].proof = p]
Write(p, s) == proof' = [proof EXCEPT ![p].status = s]
\* The row may have been spent since the request has read it.
Accept(c, p) ==
  /\ uses' = [uses EXCEPT ![p] = @ + 1]
  /\ late' = [late EXCEPT ![p] = IF proof[p].status = "pending" THEN @ ELSE @ + 1]
  /\ UNCHANGED <<wrong, undone>>

-------------------------------------------------------------------------------
(* Asking for a proof.                                                      *)

\* register() has found nobody with this address or name.
StartRegister(c) ==
  \E u \in User :
    /\ ~account[u].registered
    /\ Begin(c, [NoRequest EXCEPT !.user = u], "hash")
    /\ UNCHANGED <<account, proof, sent, limits, history>>

\* Its transaction creates the account and the first token, unless another
\* one has the address by now.  The session is that of RefreshTokens.
CreateUser(c) ==
  /\ pc[c] = "hash"
  /\ IF account[req[c].user].registered
     THEN Done(c) /\ UNCHANGED <<account, proof>>
     ELSE /\ account' = [account EXCEPT ![req[c].user].registered = TRUE]
          /\ Insert(c, "email", req[c].user, NoPhone)
  /\ UNCHANGED <<sent, limits, history>>

\* isRateLimited() and the check of a counter, which look and set at once.
Allowed(x, k) ==
  /\ <<x, k>> \notin limits
  /\ limits' = limits \cup {<<x, k>>}

\* resendVerification() and forgotPassword() have found the account.
AskMail(c, k) ==
  \E u \in User :
    /\ account[u].registered
    /\ k = "email" => ~account[u].verified
    /\ Allowed(u, k)
    /\ Begin(c, [NoRequest EXCEPT !.user = u, !.kind = k], "revoke")
    /\ UNCHANGED <<account, proof, sent, history>>

ResendVerification(c) == AskMail(c, "email")
ForgotPassword(c) == AskMail(c, "reset")

\* requestOtp(): the owner of a session proves a phone that is nobody else's,
\* or the owner of a proven phone logs in.
RequestOtp(c) ==
  \E u \in User, ph \in Phone, k \in Texted :
    /\ account[u].registered
    /\ IF k = "phone"
       THEN \A v \in User \ {u} : ~(account[v].phone = ph /\ account[v].proven)
       ELSE account[u].phone = ph /\ account[u].proven
    /\ Allowed(ph, k)
    /\ Begin(c, [NoRequest EXCEPT !.user = u, !.kind = k, !.phone = ph], "revoke")
    /\ UNCHANGED <<account, proof, sent, history>>

\* One that is refused for the counter, the owner of the phone or the lack of
\* one has started the cooldown all the same.
RefuseOtp(c) ==
  \E ph \in Phone, k \in Texted \cap scenario.kinds :
    /\ pc[c] = "idle"
    /\ limits' = limits \cup {<<ph, k>>}
    /\ UNCHANGED <<account, proof, sent, pc, req, history>>

\* A new mail to verify an address revokes those to reset a password, too.
Replaced(r) == Of(r.user, IF r.kind = "email" THEN Mailed ELSE {r.kind})

RevokePending(c) ==
  /\ pc[c] = "revoke"
  /\ proof' = [p \in Proof |-> IF p \in Replaced(req[c])
                               THEN [proof[p] EXCEPT !.status = "revoked"] ELSE proof[p]]
  /\ Goto(c, "create")
  /\ UNCHANGED <<account, sent, limits, history>>

CreateProof(c) ==
  /\ pc[c] = "create"
  /\ Insert(c, req[c].kind, req[c].user, req[c].phone)
  /\ UNCHANGED <<account, sent, limits, history>>

\* The mail is queued, or the message handed over: it arrives or it does not.
Send(c) ==
  /\ pc[c] = "send"
  /\ sent' = sent \cup {req[c].proof} \/ UNCHANGED sent
  /\ Done(c)
  /\ UNCHANGED <<account, proof, limits, history>>

-------------------------------------------------------------------------------
(* Using a token.                                                           *)

\* A token that is pending, or looks so: it is used, or found to be over.
ReadToken(c, p, K) ==
  /\ p \in sent
  /\ proof[p].kind \in K /\ proof[p].status = "pending"
  /\ Begin(c, [NoRequest EXCEPT !.user = proof[p].user, !.proof = p,
                                !.kind = IF K = {"reset"} THEN "reset" ELSE "email"],
           IF proof[p].over THEN "expire" ELSE "use")
  /\ UNCHANGED <<account, proof, sent, limits, history>>

\* verifyEmail() does not look at what the token is for.
VerifyEmail(c) == \E p \in Proof : ReadToken(c, p, Mailed)
ResetPassword(c) == \E p \in Proof : ReadToken(c, p, {"reset"})

\* By id, in a transaction with what the token is for.
MarkVerified(c) ==
  /\ pc[c] = "use" /\ req[c].kind = "email"
  /\ Write(req[c].proof, "used")
  /\ account' = [account EXCEPT ![req[c].user].verified = TRUE]
  /\ Accept(c, req[c].proof)
  /\ Done(c)
  /\ UNCHANGED <<sent, limits>>

\* Seeded fault: the other tokens are revoked, and the one in use is not marked.
SetPasswordOnly(c) ==
  /\ pc[c] = "use" /\ req[c].kind = "reset"
  /\ proof' = [p \in Proof |->
       IF p \in Of(req[c].user, Mailed) \ {req[c].proof}
       THEN [proof[p] EXCEPT !.status = "revoked"] ELSE proof[p]]
  /\ account' = [account EXCEPT ![req[c].user].resets = @ + 1]
  /\ Accept(c, req[c].proof)
  /\ Done(c)
  /\ UNCHANGED <<sent, limits>>

\* A reset revokes every token that is left, and closes the sessions.
SetPassword(c) ==
  /\ pc[c] = "use" /\ req[c].kind = "reset"
  /\ proof' = [p \in Proof |->
       IF p = req[c].proof THEN [proof[p] EXCEPT !.status = "used"]
       ELSE IF p \in Of(req[c].user, Mailed) THEN [proof[p] EXCEPT !.status = "revoked"]
       ELSE proof[p]]
  /\ account' = [account EXCEPT ![req[c].user].resets = @ + 1]
  /\ Accept(c, req[c].proof)
  /\ Done(c)
  /\ UNCHANGED <<sent, limits>>

-------------------------------------------------------------------------------
(* Using a code.                                                            *)

\* findFirst() of verifyChallenge(): the newest one of this phone that waits.
Newest(ph, k) ==
  { p \in Proof :
      /\ proof[p].status = "pending" /\ proof[p].phone = ph /\ proof[p].kind = k
      /\ \A q \in Proof : q > p => ~(/\ proof[q].status = "pending"
                                     /\ proof[q].phone = ph /\ proof[q].kind = k) }

\* What the code comes to is decided on the row as it is read: over, a code
\* of another row (or none), or its own.  It is never out of attempts (UsedOnce).
Outcome(p, right) == IF proof[p].over THEN "expire" ELSE IF right THEN "hit" ELSE "miss"

\* verifyOtp(); who is signed in finds only a row of their own.
VerifyOtp(c) ==
  \E u \in User, ph \in Phone, k \in Texted, right \in BOOLEAN :
    \E p \in Newest(ph, k) :
      /\ k = "phone" => proof[p].user = u
      /\ right => p \in sent
      /\ Begin(c, [NoRequest EXCEPT !.user = proof[p].user, !.kind = k, !.phone = ph,
                                    !.proof = p, !.tries = proof[p].tries],
               Outcome(p, right))
      /\ UNCHANGED <<account, proof, sent, limits, history>>

\* By id: the row may have been used or revoked since.
MarkExpired(c) ==
  /\ pc[c] = "expire"
  /\ Write(req[c].proof, IF req[c].kind \in Mailed THEN "revoked" ELSE "expired")
  /\ Done(c)
  /\ UNCHANGED <<account, sent, limits, history>>

\* Seeded fault: the attempt that has just failed does not count yet.
LockedOutLate(tries) == tries > MaxAttempts
LockedOut(tries) == tries >= MaxAttempts

\* The count that was read, and one: updates of two requests are lost.
CountMismatch(c) ==
  LET p == req[c].proof
      tries == req[c].tries + 1
  IN /\ pc[c] = "miss"
     /\ proof' = [proof EXCEPT ![p].tries = tries,
                               ![p].status = IF LockedOut(tries) THEN "locked" ELSE @]
     /\ wrong' = [wrong EXCEPT ![p] = @ + 1]
     /\ undone' = [undone EXCEPT ![p] =
          IF proof[p].tries > req[c].tries THEN @ + proof[p].tries - req[c].tries ELSE @]
     /\ Done(c)
     /\ UNCHANGED <<account, sent, limits, uses, late>>

Consume(c) ==
  /\ pc[c] = "hit"
  /\ Write(req[c].proof, "used")
  /\ Accept(c, req[c].proof)
  /\ Goto(c, req[c].kind)
  /\ UNCHANGED <<account, sent, limits>>

\* A phone has one account at most: the update of a second one fails.
ProvePhone(c) ==
  LET u == req[c].user
      ph == req[c].phone
  IN /\ pc[c] = "phone"
     /\ IF \E v \in User \ {u} : account[v].phone = ph THEN UNCHANGED account
        ELSE account' = [account EXCEPT ![u].phone = ph, ![u].proven = TRUE]
     /\ Done(c)
     /\ UNCHANGED <<proof, sent, limits, history>>

\* The login goes on with the status of the account, as in AccountLifecycle.
LogIn(c) ==
  /\ pc[c] = "login"
  /\ Done(c)
  /\ UNCHANGED <<account, proof, sent, limits, history>>

-------------------------------------------------------------------------------
\* A cooldown is over, or the window of a counter; a code or a token is.
LimitEnds ==
  \E x \in limits :
    /\ limits' = limits \ {x}
    /\ UNCHANGED <<account, proof, sent, pc, req, history>>

TimePasses ==
  \E p \in Proof :
    /\ proof[p].status = "pending" /\ ~proof[p].over
    /\ proof' = [proof EXCEPT ![p].over = TRUE]
    /\ UNCHANGED <<account, sent, limits, pc, req, history>>

\* A request dies or a statement of it fails; the counters of a process that
\* dies are gone.
Die(c) ==
  /\ pc[c] # "idle"
  /\ deaths < scenario.deaths
  /\ deaths' = deaths + 1
  /\ Done(c)
  /\ limits' \in {limits, {}}
  /\ UNCHANGED <<scenario, account, proof, sent, history>>

Step(c) ==
  \/ StartRegister(c) \/ CreateUser(c)
  \/ ResendVerification(c) \/ ForgotPassword(c)
  \/ RequestOtp(c) \/ RefuseOtp(c)
  \/ RevokePending(c) \/ CreateProof(c) \/ Send(c)
  \/ VerifyEmail(c) \/ MarkVerified(c) \/ ResetPassword(c) \/ SetPassword(c)
  \/ VerifyOtp(c) \/ MarkExpired(c)
  \/ CountMismatch(c) \/ Consume(c) \/ ProvePhone(c) \/ LogIn(c)

Next ==
  \/ /\ (\E c \in Client : Step(c)) \/ LimitEnds \/ TimePasses
     /\ UNCHANGED <<scenario, deaths>>
  \/ \E c \in Client : Die(c)

Spec == Init /\ [][Next]_vars

-------------------------------------------------------------------------------
(* A token is accepted once, and so is a code; every further time takes a   *)
(* request that overtook it.  A code takes MaxAttempts wrong answers, and   *)
(* one more for each that the write of another one has uncounted; none that *)
(* waits is out of attempts, whatever overlaps (verifyEmail, resetPassword, *)
(* verifyChallenge).                                                        *)
UsedOnce ==
  \A p \in Proof :
    /\ uses[p] <= 1 + late[p]
    /\ wrong[p] <= proof[p].tries + undone[p] /\ proof[p].tries <= MaxAttempts
    /\ proof[p].status = "pending" => proof[p].tries < MaxAttempts
    /\ alone => late[p] = 0 /\ undone[p] = 0

(* A phone that an account has was proven with a code sent to it, an        *)
(* address with a token, and a password is reset once for each token that   *)
(* was accepted; a phone has one account (verifyOtp, verifyEmail).          *)
Proven ==
  \A u \in User :
    /\ account[u].proven =>
         /\ \E p \in sent : /\ uses[p] > 0 /\ proof[p].kind = "phone"
                            /\ proof[p].user = u /\ proof[p].phone = account[u].phone
         /\ \A v \in User \ {u} : account[v].phone # account[u].phone
    /\ account[u].verified =>
         \E p \in sent : uses[p] > 0 /\ proof[p].kind \in Mailed /\ proof[p].user = u
    /\ alone => account[u].resets <=
         Cardinality({ p \in sent : proof[p].kind = "reset" /\ proof[p].status = "used" })
===============================================================================
