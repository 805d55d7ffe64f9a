-------------------------- MODULE Verification_proofs --------------------------
(***************************************************************************)
(* What Verification promises of tokens and codes, for any number of       *)
(* users, phones, proofs and requests.                                     *)
(***************************************************************************)
EXTENDS Verification, FiniteSetTheorems, TLAPS

-------------------------------------------------------------------------------
(* The inductive invariant.                                                 *)

Row(c) == proof[req[c].proof]

(* What a request has in hand: a row that exists, and from the moment it is *)
(* accepted one that its owner has got.                                     *)
InHand(c) ==
  /\ pc[c] \in {"send", "use", "expire", "miss", "hit", "phone"} =>
       req[c].proof \in Proof /\ Row(c).status # "none"
  /\ pc[c] = "use" =>
       /\ req[c].proof \in sent /\ Row(c).user = req[c].user
       /\ Row(c).kind \in Mailed
       /\ req[c].kind = "reset" => Row(c).kind = "reset"
  /\ pc[c] = "miss" => Row(c).kind \in Texted /\ req[c].tries < MaxAttempts
  /\ pc[c] \in {"hit", "phone"} =>
       /\ req[c].proof \in sent /\ Row(c).user = req[c].user
       /\ Row(c).kind = req[c].kind /\ req[c].kind \in Texted
       /\ Row(c).phone = req[c].phone /\ req[c].phone \in Phone
  /\ pc[c] = "phone" => uses[req[c].proof] > 0 /\ req[c].kind = "phone"
AllInHand == \A c \in Client : InHand(c)

(* What was sent is there.                                                  *)
SentExist == \A p \in sent : proof[p].status # "none"

(* A proof that can still be used was used by nobody, or too late.          *)
Spending ==
  \A p \in Proof :
    /\ uses[p] <= 1 + late[p]
    /\ proof[p].status \in {"none", "pending"} => uses[p] <= late[p]

(* Wrong answers and the count of the row.                                  *)
Counting ==
  \A p \in Proof :
    /\ wrong[p] <= proof[p].tries + undone[p] /\ proof[p].tries <= MaxAttempts
    /\ proof[p].status \in {"none", "pending"} => proof[p].tries < MaxAttempts

(* Requests that keep apart know the row they have read.                    *)
Apart ==
  alone =>
    /\ \A c, d \in Client : pc[c] # "idle" /\ pc[d] # "idle" => c = d
    /\ \A c \in Client :
         /\ pc[c] \in {"use", "expire", "miss", "hit"} => Row(c).status = "pending"
         /\ pc[c] = "miss" => Row(c).tries = req[c].tries
    /\ \A p \in Proof : late[p] = 0 /\ undone[p] = 0

(* An account and the proofs that it rests on.                              *)
PhoneProof(u, p) == /\ uses[p] > 0 /\ proof[p].kind = "phone"
                    /\ proof[p].user = u /\ proof[p].phone = account[u].phone
MailProof(u, p) == uses[p] > 0 /\ proof[p].kind \in Mailed /\ proof[p].user = u
Owned ==
  \A u \in User :
    /\ account[u].proven => account[u].phone # NoPhone /\ \E p \in sent : PhoneProof(u, p)
    /\ account[u].verified => \E p \in sent : MailProof(u, p)
    /\ account[u].phone # NoPhone =>
         \A v \in User \ {u} : account[v].phone # account[u].phone

(* Resets and the tokens that were used for them.                           *)
Resets == { p \in sent : proof[p].kind = "reset" /\ proof[p].status = "used" }
Reset ==
  alone => /\ IsFiniteSet(Resets)
           /\ \A u \in User : account[u].resets <= Cardinality(Resets)

IInv ==
  /\ TypeOK /\ AllInHand /\ SentExist /\ Spending /\ Counting /\ Apart /\ Owned
  /\ Reset

-------------------------------------------------------------------------------
(* Rows.                                                                    *)

(* The fields of a row have their types.                                    *)
LEMMA RowTyped ==
  ASSUME NEW row \in ProofState
  PROVE  /\ row.status \in {"none", "pending"} \cup Spent
         /\ row.kind \in Kind /\ row.user \in User
         /\ row.phone \in Phone \cup {NoPhone}
         /\ row.tries \in Nat /\ row.over \in BOOLEAN
BY DEF ProofState

(* A row takes another status.                                              *)
LEMMA Marked ==
  ASSUME NEW row \in ProofState, NEW s \in {"pending"} \cup Spent,
         NEW new, new = [row EXCEPT !.status = s]
  PROVE  /\ new \in ProofState /\ new.status = s
         /\ new.kind = row.kind /\ new.user = row.user /\ new.phone = row.phone
         /\ new.tries = row.tries
BY DEF ProofState

(* A proof is inserted where there was none; the others stay.               *)
Inserted(c, k, u, ph) ==
  \E p \in Proof :
    /\ proof[p].status = "none"
    /\ proof' \in [Proof -> ProofState]
    /\ proof'[p].status = "pending" /\ proof'[p].kind = k
    /\ proof'[p].user = u /\ proof'[p].phone = ph
    /\ proof'[p].tries = proof[p].tries
    /\ \A q \in Proof : q # p => proof'[q] = proof[q]
    /\ pc' = [pc EXCEPT ![c] = "send"]
    /\ req' \in [Client -> Request] /\ req'[c].proof = p
    /\ \A d \in Client : d # c => req'[d] = req[d]

LEMMA InsertEffect ==
  ASSUME TypeOK, NEW c \in Client, NEW k \in Kind, NEW u \in User,
         NEW ph \in Phone \cup {NoPhone}, Insert(c, k, u, ph)
  PROVE  Inserted(c, k, u, ph)
<1>1. PICK p \in Proof :
        /\ proof[p].status = "none"
        /\ proof' = [proof EXCEPT ![p] =
             [@ EXCEPT !.status = "pending", !.kind = k, !.user = u, !.phone = ph]]
        /\ pc' = [pc EXCEPT ![c] = "send"]
        /\ req' = [req EXCEPT ![c].proof = p]
  BY DEF Insert
<1>2. PICK row : row = [proof[p] EXCEPT !.status = "pending", !.kind = k, !.user = u,
                                        !.phone = ph]
  OBVIOUS
<1>3. proof[p] \in ProofState
  BY DEF TypeOK
<1>4. /\ row \in ProofState /\ row.status = "pending" /\ row.kind = k
      /\ row.user = u /\ row.phone = ph /\ row.tries = proof[p].tries
  BY <1>2, <1>3, ZenonT(60) DEF ProofState
<1>5. proof' = [proof EXCEPT ![p] = row]
  BY <1>1, <1>2
<1>6. /\ proof' \in [Proof -> ProofState] /\ proof'[p] = row
      /\ \A q \in Proof : q # p => proof'[q] = proof[q]
  BY <1>4, <1>5 DEF TypeOK
<1>7. /\ req' \in [Client -> Request] /\ req'[c].proof = p
      /\ \A d \in Client : d # c => req'[d] = req[d]
  BY <1>1 DEF TypeOK, Request
<1> QED BY <1>1, <1>4, <1>6, <1>7 DEF Inserted

(* Some rows that wait become spent, and p takes the status s.              *)
Respent(S, p, s) ==
  /\ proof' \in [Proof -> ProofState]
  /\ \A q \in Proof :
       /\ proof'[q].kind = proof[q].kind /\ proof'[q].user = proof[q].user
       /\ proof'[q].phone = proof[q].phone /\ proof'[q].tries = proof[q].tries
       /\ proof'[q].status = IF q = p THEN s
                             ELSE IF q \in S THEN "revoked" ELSE proof[q].status
       /\ q # p /\ q \notin S => proof'[q] = proof[q]

LEMMA RevokeEffect ==
  ASSUME proof \in [Proof -> ProofState], NEW S \in SUBSET Proof,
         proof' = [q \in Proof |-> IF q \in S THEN [proof[q] EXCEPT !.status = "revoked"]
                                   ELSE proof[q]]
  PROVE  Respent(S, NoProof, "revoked")
<1> SUFFICES ASSUME NEW q \in Proof
             PROVE  /\ proof'[q] \in ProofState
                    /\ proof'[q].kind = proof[q].kind /\ proof'[q].user = proof[q].user
                    /\ proof'[q].phone = proof[q].phone
                    /\ proof'[q].tries = proof[q].tries
                    /\ proof'[q].status = IF q \in S THEN "revoked" ELSE proof[q].status
                    /\ q \notin S => proof'[q] = proof[q]
  BY VerificationAssumption DEF Respent
<1>1. CASE q \in S
  <2>1. PICK new : new = [proof[q] EXCEPT !.status = "revoked"]
    OBVIOUS
  <2>2. proof[q] \in ProofState /\ proof'[q] = new
    BY <1>1, <2>1
  <2> QED BY <1>1, <2>1, <2>2, Marked DEF Spent
<1>2. CASE q \notin S
  BY <1>2
<1> QED BY <1>1, <1>2

LEMMA WriteEffect ==
  ASSUME proof \in [Proof -> ProofState], NEW p \in Proof,
         NEW s \in {"pending"} \cup Spent, Write(p, s)
  PROVE  Respent({}, p, s)
<1>1. PICK new : new = [proof[p] EXCEPT !.status = s]
  OBVIOUS
<1>2. proof' = [proof EXCEPT ![p] = new]
  BY <1>1 DEF Write
<1>3. /\ new \in ProofState /\ new.status = s
      /\ new.kind = proof[p].kind /\ new.user = proof[p].user
      /\ new.phone = proof[p].phone /\ new.tries = proof[p].tries
  BY <1>1, Marked
<1> QED BY <1>2, <1>3 DEF Respent

LEMMA ResetEffect ==
  ASSUME proof \in [Proof -> ProofState], NEW S \in SUBSET Proof, NEW p \in Proof,
         proof' = [q \in Proof |->
           IF q = p THEN [proof[q] EXCEPT !.status = "used"]
           ELSE IF q \in S THEN [proof[q] EXCEPT !.status = "revoked"]
           ELSE proof[q]]
  PROVE  Respent(S, p, "used")
<1> SUFFICES ASSUME NEW q \in Proof
             PROVE  /\ proof'[q] \in ProofState
                    /\ proof'[q].kind = proof[q].kind /\ proof'[q].user = proof[q].user
                    /\ proof'[q].phone = proof[q].phone
                    /\ proof'[q].tries = proof[q].tries
                    /\ proof'[q].status = IF q = p THEN "used"
                         ELSE IF q \in S THEN "revoked" ELSE proof[q].status
                    /\ q # p /\ q \notin S => proof'[q] = proof[q]
  BY DEF Respent
<1>1. CASE q = p
  <2>1. PICK new : new = [proof[q] EXCEPT !.status = "used"]
    OBVIOUS
  <2>2. proof[q] \in ProofState /\ proof'[q] = new
    BY <1>1, <2>1
  <2> QED BY <1>1, <2>1, <2>2, Marked DEF Spent
<1>2. CASE q # p /\ q \in S
  <2>1. PICK new : new = [proof[q] EXCEPT !.status = "revoked"]
    OBVIOUS
  <2>2. proof[q] \in ProofState /\ proof'[q] = new
    BY <1>2, <2>1
  <2> QED BY <1>2, <2>1, <2>2, Marked DEF Spent
<1>3. CASE q # p /\ q \notin S
  BY <1>3
<1> QED BY <1>1, <1>2, <1>3

(* One row is another one.                                                  *)
LEMMA RowSet ==
  ASSUME proof \in [Proof -> ProofState], NEW p \in Proof, NEW row \in ProofState,
         proof' = [proof EXCEPT ![p] = row]
  PROVE  /\ proof' \in [Proof -> ProofState] /\ proof'[p] = row
         /\ \A q \in Proof : q # p => proof'[q] = proof[q]
OBVIOUS

(* A wrong answer is counted in the row p, which may be locked by it.       *)
Missed(p, n) ==
  /\ proof' \in [Proof -> ProofState]
  /\ proof'[p].kind = proof[p].kind /\ proof'[p].user = proof[p].user
  /\ proof'[p].phone = proof[p].phone /\ proof'[p].tries = n
  /\ proof'[p].status = IF n >= MaxAttempts THEN "locked" ELSE proof[p].status
  /\ \A q \in Proof : q # p => proof'[q] = proof[q]

LEMMA MissEffect ==
  ASSUME TypeOK, NEW p \in Proof, NEW n \in Nat,
         proof' = [proof EXCEPT ![p].tries = n,
                                ![p].status = IF LockedOut(n) THEN "locked" ELSE @]
  PROVE  Missed(p, n)
<1> DEFINE s == IF n >= MaxAttempts THEN "locked" ELSE proof[p].status
<1>1. proof[p] \in ProofState
  BY DEF TypeOK
<1>2. s \in {"none", "pending"} \cup Spent
  BY <1>1, RowTyped DEF Spent
<1>3. PICK row : row = [proof[p] EXCEPT !.tries = n, !.status = s]
  OBVIOUS
<1>4. proof' = [proof EXCEPT ![p] = row]
  BY <1>1, <1>3 DEF LockedOut, ProofState, TypeOK
<1>s. s = IF n >= MaxAttempts THEN "locked" ELSE proof[p].status
  OBVIOUS
<1> HIDE DEF s
<1>5. /\ row \in ProofState /\ row.status = s /\ row.tries = n
      /\ row.kind = proof[p].kind /\ row.user = proof[p].user
      /\ row.phone = proof[p].phone
  BY <1>1, <1>2, <1>3, ZenonT(60) DEF ProofState
<1>6. /\ proof' \in [Proof -> ProofState] /\ proof'[p] = row
      /\ \A q \in Proof : q # p => proof'[q] = proof[q]
  BY <1>4, <1>5, RowSet, ZenonT(60) DEF TypeOK
<1>7. proof'[p].status = IF n >= MaxAttempts THEN "locked" ELSE proof[p].status
  BY <1>5, <1>6, <1>s, Zenon
<1>8. /\ proof'[p].kind = proof[p].kind /\ proof'[p].user = proof[p].user
      /\ proof'[p].phone = proof[p].phone /\ proof'[p].tries = n
  BY <1>5, <1>6, Zenon
<1> QED BY <1>6, <1>7, <1>8, Zenon DEF Missed

(* Time passes for the row p.                                               *)
LEMMA AgeEffect ==
  ASSUME TypeOK, NEW p \in Proof, proof[p].status = "pending",
         proof' = [proof EXCEPT ![p].over = TRUE]
  PROVE  Respent({}, p, "pending")
<1>1. PICK row : row = [proof[p] EXCEPT !.over = TRUE]
  OBVIOUS
<1>2. proof[p] \in ProofState
  BY DEF TypeOK
<1>3. /\ row \in ProofState /\ row.status = proof[p].status
      /\ row.kind = proof[p].kind /\ row.user = proof[p].user
      /\ row.phone = proof[p].phone /\ row.tries = proof[p].tries
  BY <1>1, <1>2 DEF ProofState
<1>4. proof' = [proof EXCEPT ![p] = row]
  BY <1>1
<1> QED BY <1>3, <1>4 DEF TypeOK, Respent

-------------------------------------------------------------------------------
(* Types.                                                                   *)

LEMMA RequestTyped ==
  /\ NoRequest \in Request
  /\ \A u \in User : [NoRequest EXCEPT !.user = u] \in Request
  /\ \A u \in User, k \in Kind :
       /\ [NoRequest EXCEPT !.user = u, !.kind = k] \in Request
       /\ \A p \in Proof :
            [NoRequest EXCEPT !.user = u, !.proof = p, !.kind = k] \in Request
       /\ \A ph \in Phone :
            [NoRequest EXCEPT !.user = u, !.kind = k, !.phone = ph] \in Request
<1>1. AnyUser \in User
  BY VerificationAssumption DEF AnyUser
<1>2. NoRequest \in Request
  BY <1>1 DEF NoRequest, Request, Kind, Mailed
<1> QED BY <1>2 DEF NoRequest, Request

(* One account changes, and in it nothing but the fields named.             *)
OnlyAccount(u) == /\ account' \in [User -> AccountState]
                  /\ \A v \in User : v # u => account'[v] = account[v]

LEMMA RegisteredEffect ==
  ASSUME TypeOK, NEW u \in User, account' = [account EXCEPT ![u].registered = TRUE]
  PROVE  /\ OnlyAccount(u)
         /\ account'[u].verified = account[u].verified
         /\ account'[u].resets = account[u].resets
         /\ account'[u].phone = account[u].phone /\ account'[u].proven = account[u].proven
<1>1. account[u] \in AccountState
  BY DEF TypeOK
<1>2. PICK a : a = [account[u] EXCEPT !.registered = TRUE]
  OBVIOUS
<1>3. /\ a \in AccountState /\ a.verified = account[u].verified
      /\ a.resets = account[u].resets
      /\ a.phone = account[u].phone /\ a.proven = account[u].proven
  BY <1>1, <1>2 DEF AccountState
<1>4. account' = [account EXCEPT ![u] = a]
  BY <1>2
<1> QED BY <1>3, <1>4 DEF OnlyAccount, TypeOK

LEMMA VerifiedEffect ==
  ASSUME TypeOK, NEW u \in User, account' = [account EXCEPT ![u].verified = TRUE]
  PROVE  /\ OnlyAccount(u) /\ account'[u].resets = account[u].resets
         /\ account'[u].phone = account[u].phone /\ account'[u].proven = account[u].proven
<1>1. account[u] \in AccountState
  BY DEF TypeOK
<1>2. PICK a : a = [account[u] EXCEPT !.verified = TRUE]
  OBVIOUS
<1>3. /\ a \in AccountState /\ a.resets = account[u].resets
      /\ a.phone = account[u].phone /\ a.proven = account[u].proven
  BY <1>1, <1>2 DEF AccountState
<1>4. account' = [account EXCEPT ![u] = a]
  BY <1>2
<1> QED BY <1>3, <1>4 DEF OnlyAccount, TypeOK

LEMMA PasswordEffect ==
  ASSUME TypeOK, NEW u \in User, account' = [account EXCEPT ![u].resets = @ + 1]
  PROVE  /\ OnlyAccount(u) /\ account'[u].resets = account[u].resets + 1
         /\ account'[u].verified = account[u].verified
         /\ account'[u].phone = account[u].phone /\ account'[u].proven = account[u].proven
<1>1. account[u] \in AccountState /\ account[u].resets + 1 \in Nat
  BY DEF TypeOK, AccountState
<1>2. PICK n : n = account[u].resets + 1
  OBVIOUS
<1>3. PICK a : a = [account[u] EXCEPT !.resets = n]
  OBVIOUS
<1>4. /\ a \in AccountState /\ a.resets = n
      /\ a.verified = account[u].verified
      /\ a.phone = account[u].phone /\ a.proven = account[u].proven
  BY <1>1, <1>2, <1>3 DEF AccountState
<1>5. account' = [account EXCEPT ![u] = a]
  BY <1>2, <1>3
<1> QED BY <1>2, <1>4, <1>5 DEF OnlyAccount, TypeOK

LEMMA PhoneEffect ==
  ASSUME TypeOK, NEW u \in User, NEW ph \in Phone,
         account' = [account EXCEPT ![u].phone = ph, ![u].proven = TRUE]
  PROVE  /\ OnlyAccount(u) /\ account'[u].phone = ph /\ account'[u].proven
         /\ account'[u].verified = account[u].verified
         /\ account'[u].resets = account[u].resets
<1>1. account[u] \in AccountState
  BY DEF TypeOK
<1>2. PICK a : a = [account[u] EXCEPT !.phone = ph, !.proven = TRUE]
  OBVIOUS
<1>3. /\ a \in AccountState /\ a.verified = account[u].verified
      /\ a.resets = account[u].resets /\ a.phone = ph /\ a.proven = TRUE
  BY <1>1, <1>2, ZenonT(60) DEF AccountState
<1>4. account' = [account EXCEPT ![u] = a]
  BY <1>2
<1> QED BY <1>3, <1>4 DEF OnlyAccount, TypeOK

LEMMA BeginTyped ==
  ASSUME TypeOK, NEW c \in Client, NEW r \in Request, NEW l \in Pc, Begin(c, r, l)
  PROVE  /\ pc' = [pc EXCEPT ![c] = l] /\ pc' \in [Client -> Pc]
         /\ req' = [req EXCEPT ![c] = r] /\ req' \in [Client -> Request]
BY DEF TypeOK, Begin

LEMMA DoneTyped ==
  ASSUME TypeOK, NEW c \in Client, Done(c)
  PROVE  /\ pc' = [pc EXCEPT ![c] = "idle"] /\ pc' \in [Client -> Pc]
         /\ req' = [req EXCEPT ![c] = NoRequest] /\ req' \in [Client -> Request]
BY RequestTyped DEF TypeOK, Done, Pc

(* The rows, the accounts and the counters that a step of each kind leaves.  *)
LEMMA InsertTyped ==
  ASSUME TypeOK, NEW c \in Client, NEW k \in Kind, NEW u \in User,
         NEW ph \in Phone \cup {NoPhone}, Insert(c, k, u, ph)
  PROVE  /\ proof' \in [Proof -> ProofState]
         /\ pc' \in [Client -> Pc] /\ req' \in [Client -> Request]
BY InsertEffect DEF Inserted, TypeOK, Pc

LEMMA AcceptTyped ==
  ASSUME TypeOK, NEW c \in Client, NEW p \in Proof, Accept(c, p)
  PROVE  /\ uses' \in [Proof -> Nat] /\ late' \in [Proof -> Nat]
         /\ wrong' \in [Proof -> Nat] /\ undone' \in [Proof -> Nat]
BY DEF TypeOK, Accept

(* A request for a proof begins, or is refused.                             *)
Begins(c) == \E r \in Request, l \in {"hash", "revoke"} : Begin(c, r, l)

LEMMA AskEffect ==
  ASSUME TypeOK, NEW c \in Client,
         \/ StartRegister(c) \/ ResendVerification(c) \/ ForgotPassword(c)
         \/ RequestOtp(c) \/ RefuseOtp(c)
  PROVE  /\ Begins(c) \/ UNCHANGED <<pc, req>>
         /\ limits' \in SUBSET Limit /\ UNCHANGED <<account, proof, sent, history>>
<1> USE DEF Kind, Mailed, Texted, Limit
<1>1. CASE StartRegister(c)
  <2>1. PICK r \in Request : Begin(c, r, "hash")
    BY <1>1, RequestTyped DEF StartRegister
  <2> QED BY <1>1, <2>1 DEF StartRegister, TypeOK, Begins
<1>2. CASE ResendVerification(c) \/ ForgotPassword(c)
  <2>1. PICK k \in {"email", "reset"} : AskMail(c, k)
    BY <1>2 DEF ResendVerification, ForgotPassword
  <2>2. PICK u \in User, r \in Request :
          /\ Begin(c, r, "revoke") /\ limits' = limits \cup {<<u, k>>}
          /\ UNCHANGED <<account, proof, sent, history>>
    BY <2>1, RequestTyped DEF AskMail, Allowed
  <2>3. limits' \in SUBSET Limit
    BY <2>2 DEF TypeOK
  <2>4. Begin(c, r, "revoke") /\ UNCHANGED <<account, proof, sent, history>>
    BY <2>2
  <2> QED BY <2>3, <2>4 DEF Begins
<1>3. CASE RequestOtp(c)
  <2>1. PICK ph \in Phone, k \in Texted, r \in Request :
          /\ Begin(c, r, "revoke") /\ limits' = limits \cup {<<ph, k>>}
          /\ UNCHANGED <<account, proof, sent, history>>
    BY <1>3, RequestTyped, ZenonT(60) DEF RequestOtp, Allowed
  <2>2. limits' \in SUBSET Limit
    BY <2>1 DEF TypeOK
  <2>3. Begin(c, r, "revoke") /\ UNCHANGED <<account, proof, sent, history>>
    BY <2>1
  <2> QED BY <2>2, <2>3 DEF Begins
<1>4. CASE RefuseOtp(c)
  BY <1>4 DEF RefuseOtp, TypeOK
<1> QED BY <1>1, <1>2, <1>3, <1>4

(* What a request that uses a token or a code has in hand.                  *)
Reads(c) ==
  \E p \in Proof, r \in Request, l \in {"use", "expire"} :
    /\ p \in sent /\ proof[p].status = "pending" /\ proof[p].kind \in Mailed
    /\ r.proof = p /\ r.user = proof[p].user
    /\ r.kind = "reset" => proof[p].kind = "reset"
    /\ Begin(c, r, l)
    /\ UNCHANGED <<account, proof, sent, limits, history>>
Checks(c) ==
  \E p \in Proof, r \in Request, l \in {"expire", "miss", "hit"} :
    /\ proof[p].status = "pending"
    /\ r.proof = p /\ r.user = proof[p].user /\ r.kind = proof[p].kind
    /\ r.phone = proof[p].phone /\ r.tries = proof[p].tries
    /\ r.kind \in Texted /\ r.phone \in Phone
    /\ l = "hit" => p \in sent
    /\ Begin(c, r, l)
    /\ UNCHANGED <<account, proof, sent, limits, history>>

LEMMA ReadEffect ==
  ASSUME TypeOK, NEW c \in Client, VerifyEmail(c) \/ ResetPassword(c)
  PROVE  Reads(c)
<1>1. PICK p \in Proof, K \in {Mailed, {"reset"}} : ReadToken(c, p, K)
  BY DEF VerifyEmail, ResetPassword
<1> DEFINE k == IF K = {"reset"} THEN "reset" ELSE "email"
           l == IF proof[p].over THEN "expire" ELSE "use"
<1>2. proof[p].user \in User /\ k \in Kind
  BY RowTyped DEF TypeOK, Kind, Mailed
<1>3. PICK r : r = [NoRequest EXCEPT !.user = proof[p].user, !.proof = p, !.kind = k]
  OBVIOUS
<1>4. r \in Request
  BY <1>2, <1>3, RequestTyped
<1>5. r.proof = p /\ r.user = proof[p].user /\ r.kind = k
  BY <1>3, <1>2, RequestTyped, ZenonT(60) DEF NoRequest
<1>6. k = "reset" /\ proof[p].kind \in K => proof[p].kind = "reset"
  BY DEF Mailed
<1>7. /\ p \in sent /\ proof[p].status = "pending" /\ proof[p].kind \in K
      /\ Begin(c, r, l)
      /\ UNCHANGED <<account, proof, sent, limits, history>>
  BY <1>1, <1>3 DEF ReadToken
<1>8. proof[p].kind \in Mailed /\ l \in {"use", "expire"}
  BY <1>7 DEF Mailed
<1> QED BY <1>4, <1>5, <1>6, <1>7, <1>8 DEF Reads

LEMMA CheckEffect ==
  ASSUME TypeOK, NEW c \in Client, VerifyOtp(c)
  PROVE  Checks(c)
<1>1. PICK ph \in Phone, k \in Texted, right \in BOOLEAN, p \in Proof :
        /\ p \in Newest(ph, k)
        /\ right => p \in sent
        /\ \E r : /\ r = [NoRequest EXCEPT !.user = proof[p].user, !.kind = k, !.phone = ph,
                                           !.proof = p, !.tries = proof[p].tries]
                 /\ Begin(c, r, Outcome(p, right))
        /\ UNCHANGED <<account, proof, sent, limits, history>>
  <2> SUFFICES ASSUME NEW ph \in Phone, NEW k \in Texted, NEW right \in BOOLEAN,
                      NEW p \in Newest(ph, k), right => p \in sent,
                      Begin(c, [NoRequest EXCEPT !.user = proof[p].user, !.kind = k,
                                 !.phone = ph, !.proof = p, !.tries = proof[p].tries],
                            Outcome(p, right)),
                      UNCHANGED <<account, proof, sent, limits, history>>
               PROVE  /\ p \in Proof
                      /\ \E r : /\ r = [NoRequest EXCEPT !.user = proof[p].user, !.kind = k,
                                           !.phone = ph, !.proof = p, !.tries = proof[p].tries]
                               /\ Begin(c, r, Outcome(p, right))
    BY ZenonT(60) DEF VerifyOtp
  <2> QED BY ZenonT(60) DEF Newest
<1>r. PICK r : /\ r = [NoRequest EXCEPT !.user = proof[p].user, !.kind = k, !.phone = ph,
                                       !.proof = p, !.tries = proof[p].tries]
             /\ Begin(c, r, Outcome(p, right))
  BY <1>1
<1>2. proof[p].status = "pending" /\ proof[p].phone = ph /\ proof[p].kind = k
  BY <1>1 DEF Newest
<1>3. proof[p].user \in User /\ proof[p].tries \in Nat /\ k \in Kind
  BY <1>2, RowTyped DEF TypeOK, Kind
<1>4. /\ r \in Request /\ r.user = proof[p].user /\ r.kind = k /\ r.phone = ph
      /\ r.proof = p /\ r.tries = proof[p].tries
  BY <1>r, <1>3, ZenonT(60) DEF NoRequest, Request
<1>5. PICK l : l = Outcome(p, right)
  OBVIOUS
<1>6. l \in {"expire", "miss", "hit"} /\ (l = "hit" => p \in sent)
  BY <1>1, <1>5 DEF Outcome
<1>7. Begin(c, r, l) /\ UNCHANGED <<account, proof, sent, limits, history>>
  BY <1>1, <1>r, <1>5
<1>8. k \in Texted /\ ph \in Phone
  OBVIOUS
<1> QED BY <1>2, <1>4, <1>6, <1>7, <1>8 DEF Checks

(* What every step keeps: rows that exist, what was sent and accepted.      *)
RowsKept ==
  /\ sent \subseteq sent'
  /\ \A p \in Proof :
       /\ proof[p].status # "none" =>
            /\ proof'[p].status # "none" /\ proof'[p].kind = proof[p].kind
            /\ proof'[p].user = proof[p].user /\ proof'[p].phone = proof[p].phone
       /\ uses[p] <= uses'[p]

LEMMA InsertedKeeps ==
  ASSUME NEW c \in Client, NEW k, NEW u, NEW ph, TypeOK,
         Inserted(c, k, u, ph), UNCHANGED <<sent, uses>>
  PROVE  RowsKept
<1>1. PICK p \in Proof : /\ proof[p].status = "none"
                         /\ \A q \in Proof : q # p => proof'[q] = proof[q]
  BY DEF Inserted
<1>2. \A q \in Proof : uses'[q] = uses[q] /\ uses[q] \in Nat
  BY DEF TypeOK
<1> QED BY <1>1, <1>2 DEF RowsKept

LEMMA RespentKeeps ==
  ASSUME NEW S, NEW p, NEW s, s # "none", TypeOK, Respent(S, p, s), sent' = sent,
         \A q \in Proof : uses[q] <= uses'[q]
  PROVE  RowsKept
BY DEF Respent, RowsKept

LEMMA MissedKeeps ==
  ASSUME NEW p \in Proof, NEW n, TypeOK, Missed(p, n), UNCHANGED <<sent, uses>>
  PROVE  RowsKept
<1>1. \A q \in Proof : uses'[q] = uses[q] /\ uses[q] \in Nat
  BY DEF TypeOK
<1>2. \A q \in Proof : proof[q].status # "none" =>
        /\ proof'[q].status # "none" /\ proof'[q].kind = proof[q].kind
        /\ proof'[q].user = proof[q].user /\ proof'[q].phone = proof[q].phone
  BY DEF Missed
<1> QED BY <1>1, <1>2 DEF RowsKept

LEMMA StillKeeps ==
  ASSUME TypeOK, UNCHANGED <<proof, uses>>, sent \subseteq sent'
  PROVE  RowsKept
<1>1. \A q \in Proof : uses'[q] = uses[q] /\ uses[q] \in Nat
  BY DEF TypeOK
<1> QED BY <1>1 DEF RowsKept

LEMMA AcceptKeeps ==
  ASSUME TypeOK, NEW c \in Client, NEW p \in Proof, Accept(c, p)
  PROVE  /\ \A q \in Proof : uses[q] <= uses'[q]
         /\ uses'[p] = uses[p] + 1 /\ uses'[p] > 0
BY DEF TypeOK, Accept

-------------------------------------------------------------------------------
(* What each step does, for the proofs below.                               *)

LEMMA RevokePendingEffect ==
  ASSUME TypeOK, NEW c \in Client, RevokePending(c)
  PROVE  /\ \E S \in SUBSET Proof :
              /\ \A q \in S : proof[q].status = "pending"
              /\ Respent(S, NoProof, "revoked")
         /\ pc' = [pc EXCEPT ![c] = "create"] /\ pc' \in [Client -> Pc]
         /\ UNCHANGED <<req, account, sent, limits, history>>
         /\ RowsKept
<1> DEFINE S == Replaced(req[c])
<1>1. S \in SUBSET Proof /\ \A q \in S : proof[q].status = "pending"
  BY DEF Replaced, Of
<1>2. proof' = [q \in Proof |-> IF q \in S THEN [proof[q] EXCEPT !.status = "revoked"]
                                ELSE proof[q]]
  BY DEF RevokePending
<1>3. Respent(S, NoProof, "revoked")
  BY <1>1, <1>2, RevokeEffect DEF TypeOK
<1>4. pc' = [pc EXCEPT ![c] = "create"] /\ UNCHANGED <<req, account, sent, limits, history>>
  BY DEF RevokePending, Goto
<1>5. \A q \in Proof : uses[q] <= uses'[q]
  BY <1>4 DEF TypeOK, history
<1>6. RowsKept
  BY <1>3, <1>4, <1>5, RespentKeeps
<1>7. pc' \in [Client -> Pc]
  BY <1>4 DEF TypeOK, Pc
<1> QED BY <1>1, <1>3, <1>4, <1>6, <1>7

(* The row that a request has read is used, with an account's change.       *)
LEMMA MarkVerifiedEffect ==
  ASSUME TypeOK, AllInHand, NEW c \in Client, MarkVerified(c)
  PROVE  /\ Respent({}, req[c].proof, "used")
         /\ account' = [account EXCEPT ![req[c].user].verified = TRUE]
         /\ Accept(c, req[c].proof) /\ Done(c)
         /\ UNCHANGED <<sent, limits>> /\ RowsKept
<1>1. req[c].proof \in Proof
  BY DEF AllInHand, InHand, MarkVerified
<1>2. Respent({}, req[c].proof, "used")
  BY <1>1, WriteEffect DEF MarkVerified, TypeOK, Spent
<1>3. RowsKept
  BY <1>1, <1>2, RespentKeeps, AcceptKeeps DEF MarkVerified
<1> QED BY <1>2, <1>3 DEF MarkVerified

LEMMA SetPasswordEffect ==
  ASSUME TypeOK, AllInHand, NEW c \in Client, SetPassword(c)
  PROVE  /\ \E S \in SUBSET Proof : /\ \A q \in S : proof[q].status = "pending"
                                    /\ Respent(S, req[c].proof, "used")
         /\ account' = [account EXCEPT ![req[c].user].resets = @ + 1]
         /\ Accept(c, req[c].proof) /\ Done(c)
         /\ UNCHANGED <<sent, limits>> /\ RowsKept
<1> DEFINE S == Of(req[c].user, Mailed)
<1>1. req[c].proof \in Proof
  BY DEF AllInHand, InHand, SetPassword
<1>2. S \in SUBSET Proof /\ \A q \in S : proof[q].status = "pending"
  BY DEF Of
<1>3. proof' = [q \in Proof |->
           IF q = req[c].proof THEN [proof[q] EXCEPT !.status = "used"]
           ELSE IF q \in S THEN [proof[q] EXCEPT !.status = "revoked"]
           ELSE proof[q]]
  BY DEF SetPassword
<1>4. Respent(S, req[c].proof, "used")
  BY <1>1, <1>2, <1>3, ResetEffect DEF TypeOK
<1>5. RowsKept
  BY <1>1, <1>4, RespentKeeps, AcceptKeeps DEF SetPassword
<1> QED BY <1>2, <1>4, <1>5 DEF SetPassword

LEMMA ConsumeEffect ==
  ASSUME TypeOK, AllInHand, NEW c \in Client, Consume(c)
  PROVE  /\ Respent({}, req[c].proof, "used")
         /\ Accept(c, req[c].proof)
         /\ req[c].kind \in Texted
         /\ pc' = [pc EXCEPT ![c] = req[c].kind] /\ pc' \in [Client -> Pc]
         /\ UNCHANGED <<req, account, sent, limits>> /\ RowsKept
<1>1. req[c].proof \in Proof /\ req[c].kind \in Texted
  BY DEF AllInHand, InHand, Consume
<1>2. Respent({}, req[c].proof, "used")
  BY <1>1, WriteEffect DEF Consume, TypeOK, Spent
<1>3. RowsKept
  BY <1>1, <1>2, RespentKeeps, AcceptKeeps DEF Consume
<1>4. pc' = [pc EXCEPT ![c] = req[c].kind] /\ UNCHANGED req
  BY DEF Consume, Goto
<1>5. pc' \in [Client -> Pc]
  BY <1>1, <1>4 DEF TypeOK, Pc, Texted
<1> QED BY <1>1, <1>2, <1>3, <1>4, <1>5 DEF Consume

LEMMA MarkExpiredEffect ==
  ASSUME TypeOK, AllInHand, NEW c \in Client, MarkExpired(c)
  PROVE  /\ req[c].proof \in Proof
         /\ \E s \in {"revoked", "expired"} : Respent({}, req[c].proof, s)
         /\ Done(c) /\ UNCHANGED <<account, sent, limits, history>> /\ RowsKept
<1>1. req[c].proof \in Proof
  BY DEF AllInHand, InHand, MarkExpired
<1>2. PICK s \in {"revoked", "expired"} : Write(req[c].proof, s)
  BY DEF MarkExpired
<1>3. Respent({}, req[c].proof, s)
  BY <1>1, <1>2, WriteEffect DEF TypeOK, Spent
<1>4. \A q \in Proof : uses[q] <= uses'[q]
  BY DEF MarkExpired, TypeOK, history
<1>5. RowsKept
  BY <1>3, <1>4, RespentKeeps DEF MarkExpired
<1> QED BY <1>1, <1>3, <1>5 DEF MarkExpired

LEMMA CountMismatchEffect ==
  ASSUME TypeOK, AllInHand, NEW c \in Client, CountMismatch(c)
  PROVE  LET p == req[c].proof
             n == req[c].tries + 1
         IN /\ p \in Proof /\ req[c].tries \in Nat /\ proof[p].tries \in Nat
            /\ n <= MaxAttempts
            /\ Missed(p, n)
            /\ wrong' = [wrong EXCEPT ![p] = @ + 1]
            /\ undone' \in [Proof -> Nat]
            /\ undone'[p] = IF proof[p].tries > req[c].tries
                            THEN undone[p] + (proof[p].tries - req[c].tries) ELSE undone[p]
            /\ \A q \in Proof : q # p => undone'[q] = undone[q]
            /\ Done(c) /\ UNCHANGED <<account, sent, limits, uses, late>>
            /\ RowsKept
<1> DEFINE p == req[c].proof
           n == req[c].tries + 1
<1>1. p \in Proof /\ req[c].tries < MaxAttempts
  BY DEF AllInHand, InHand, CountMismatch
<1>2. req[c].tries \in Nat /\ proof[p].tries \in Nat
  BY <1>1, RowTyped DEF TypeOK, Request
<1>3. n \in Nat /\ n <= MaxAttempts
  BY <1>1, <1>2, VerificationAssumption
<1>4. /\ proof' = [proof EXCEPT ![p].tries = n,
                                ![p].status = IF LockedOut(n) THEN "locked" ELSE @]
      /\ wrong' = [wrong EXCEPT ![p] = @ + 1]
      /\ undone' = [undone EXCEPT ![p] =
           IF proof[p].tries > req[c].tries THEN @ + proof[p].tries - req[c].tries ELSE @]
      /\ Done(c) /\ UNCHANGED <<account, sent, limits, uses, late>>
  BY DEF CountMismatch
<1> HIDE DEF p, n
<1>5. Missed(p, n)
  BY <1>1, <1>3, <1>4, MissEffect DEF p
<1>6. RowsKept
  BY <1>1, <1>4, <1>5, MissedKeeps
<1>7. undone[p] \in Nat
  BY <1>1 DEF TypeOK
<1>8. IF proof[p].tries > req[c].tries
      THEN undone[p] + proof[p].tries - req[c].tries = undone[p] + (proof[p].tries - req[c].tries)
           /\ undone[p] + (proof[p].tries - req[c].tries) \in Nat
      ELSE TRUE
  BY <1>2, <1>7
<1>9. /\ undone' \in [Proof -> Nat]
      /\ undone'[p] = IF proof[p].tries > req[c].tries
                      THEN undone[p] + (proof[p].tries - req[c].tries) ELSE undone[p]
      /\ \A q \in Proof : q # p => undone'[q] = undone[q]
  BY <1>1, <1>4, <1>7, <1>8 DEF TypeOK
<1> QED BY <1>1, <1>2, <1>3, <1>4, <1>5, <1>6, <1>9 DEF p, n

(* An account is opened with its first token, or was opened meanwhile.      *)
LEMMA CreateUserEffect ==
  ASSUME TypeOK, NEW c \in Client, CreateUser(c)
  PROVE  /\ \/ Done(c) /\ UNCHANGED <<account, proof>>
            \/ /\ account' = [account EXCEPT ![req[c].user].registered = TRUE]
               /\ \E k \in Kind, u \in User, ph \in Phone \cup {NoPhone} : Inserted(c, k, u, ph)
         /\ UNCHANGED <<sent, limits, history>> /\ RowsKept
<1>1. "email" \in Kind /\ req[c].user \in User
  BY DEF Kind, Mailed, TypeOK, Request
<1>2. uses' = uses /\ UNCHANGED <<sent, limits, history>>
  BY DEF CreateUser, history
<1>3. CASE Done(c) /\ UNCHANGED <<account, proof>>
  BY <1>2, <1>3, StillKeeps
<1>4. CASE /\ account' = [account EXCEPT ![req[c].user].registered = TRUE]
           /\ Insert(c, "email", req[c].user, NoPhone)
  <2>1. Inserted(c, "email", req[c].user, NoPhone)
    BY <1>1, <1>4, InsertEffect
  <2>2. RowsKept
    BY <1>2, <2>1, InsertedKeeps
  <2> QED BY <1>1, <1>2, <1>4, <2>1, <2>2
<1> QED BY <1>3, <1>4 DEF CreateUser

LEMMA CreateProofEffect ==
  ASSUME TypeOK, NEW c \in Client, CreateProof(c)
  PROVE  /\ \E k \in Kind, u \in User, ph \in Phone \cup {NoPhone} : Inserted(c, k, u, ph)
         /\ UNCHANGED <<account, sent, limits, history>> /\ RowsKept
<1>1. /\ req[c].kind \in Kind /\ req[c].user \in User
      /\ req[c].phone \in Phone \cup {NoPhone}
  BY DEF TypeOK, Request
<1>2. Inserted(c, req[c].kind, req[c].user, req[c].phone)
  BY <1>1, InsertEffect DEF CreateProof
<1>3. uses' = uses /\ UNCHANGED <<account, sent, limits, history>>
  BY DEF CreateProof, history
<1>4. RowsKept
  BY <1>2, <1>3, InsertedKeeps
<1> QED BY <1>1, <1>2, <1>3, <1>4

LEMMA TimeEffect ==
  ASSUME TypeOK, TimePasses
  PROVE  /\ \E p \in Proof : proof[p].status = "pending" /\ Respent({}, p, "pending")
         /\ UNCHANGED <<account, sent, limits, pc, req, history>> /\ RowsKept
<1>1. PICK p \in Proof : proof[p].status = "pending" /\ Respent({}, p, "pending")
  BY AgeEffect DEF TimePasses
<1>2. \A q \in Proof : uses[q] <= uses'[q]
  BY DEF TimePasses, TypeOK, history
<1>3. RowsKept
  BY <1>1, <1>2, RespentKeeps DEF TimePasses
<1> QED BY <1>1, <1>3 DEF TimePasses

-------------------------------------------------------------------------------
(* The state stays in its types.                                            *)

LEMMA InsertedTyped ==
  ASSUME TypeOK, NEW c \in Client,
         \E k \in Kind, u \in User, ph \in Phone \cup {NoPhone} : Inserted(c, k, u, ph)
  PROVE  /\ proof' \in [Proof -> ProofState]
         /\ pc' \in [Client -> Pc] /\ req' \in [Client -> Request]
BY DEF Inserted, TypeOK, Pc

LEMMA BeginsTyped ==
  ASSUME TypeOK, NEW c \in Client, Begins(c) \/ Reads(c) \/ Checks(c)
  PROVE  pc' \in [Client -> Pc] /\ req' \in [Client -> Request]
<1>1. PICK r \in Request, l \in {"hash", "revoke", "use", "expire", "miss", "hit"} :
        Begin(c, r, l)
  BY DEF Begins, Reads, Checks
<1> QED BY <1>1, BeginTyped DEF Pc

LEMMA TypedStep ==
  ASSUME TypeOK, AllInHand, Next
  PROVE  TypeOK'
<1> USE DEF history
<1>1. ASSUME NEW c \in Client, Die(c) PROVE TypeOK'
  <2>1. limits' \in SUBSET Limit /\ deaths' \in Nat
    BY <1>1 DEF Die, TypeOK
  <2>2. pc' \in [Client -> Pc] /\ req' \in [Client -> Request]
    BY <1>1, DoneTyped DEF Die
  <2> QED BY <1>1, <2>1, <2>2 DEF Die, TypeOK
<1>2. ASSUME LimitEnds, UNCHANGED <<scenario, deaths>> PROVE TypeOK'
  BY <1>2 DEF LimitEnds, TypeOK
<1>3. ASSUME TimePasses, UNCHANGED <<scenario, deaths>> PROVE TypeOK'
  BY <1>3, TimeEffect DEF Respent, TypeOK
<1>4. ASSUME NEW c \in Client, Step(c), UNCHANGED <<scenario, deaths>> PROVE TypeOK'
  <2>1. CASE \/ StartRegister(c) \/ ResendVerification(c) \/ ForgotPassword(c)
             \/ RequestOtp(c) \/ RefuseOtp(c)
    <3>1. pc' \in [Client -> Pc] /\ req' \in [Client -> Request]
      BY <2>1, AskEffect, BeginsTyped DEF TypeOK
    <3> QED BY <1>4, <2>1, <3>1, AskEffect DEF TypeOK
  <2>2. CASE VerifyEmail(c) \/ ResetPassword(c) \/ VerifyOtp(c)
    <3>1. Reads(c) \/ Checks(c)
      BY <2>2, ReadEffect, CheckEffect
    <3>2. pc' \in [Client -> Pc] /\ req' \in [Client -> Request]
      BY <3>1, BeginsTyped
    <3>3. UNCHANGED <<account, proof, sent, limits, history>>
      BY <3>1 DEF Reads, Checks
    <3> QED BY <1>4, <3>2, <3>3 DEF TypeOK
  <2>3. CASE CreateUser(c)
    <3>1. account' \in [User -> AccountState]
      BY <2>3, CreateUserEffect, RegisteredEffect DEF OnlyAccount, TypeOK, Request
    <3>2. /\ proof' \in [Proof -> ProofState]
          /\ pc' \in [Client -> Pc] /\ req' \in [Client -> Request]
      BY <2>3, CreateUserEffect, InsertedTyped, DoneTyped DEF TypeOK
    <3> QED BY <1>4, <2>3, <3>1, <3>2, CreateUserEffect DEF TypeOK
  <2>4. CASE RevokePending(c)
    BY <1>4, <2>4, RevokePendingEffect DEF Respent, TypeOK
  <2>5. CASE CreateProof(c)
    BY <1>4, <2>5, CreateProofEffect, InsertedTyped DEF TypeOK
  <2>6. CASE Send(c)
    <3>1. sent' \in SUBSET Proof
      BY <2>6 DEF Send, TypeOK, AllInHand, InHand
    <3>2. pc' \in [Client -> Pc] /\ req' \in [Client -> Request]
      BY <2>6, DoneTyped DEF Send
    <3> QED BY <1>4, <2>6, <3>1, <3>2 DEF Send, TypeOK
  <2>7. CASE MarkVerified(c) \/ SetPassword(c)
    <3>1. account' \in [User -> AccountState]
      BY <2>7, MarkVerifiedEffect, SetPasswordEffect, VerifiedEffect, PasswordEffect
         DEF OnlyAccount, TypeOK, Request
    <3>2. req[c].proof \in Proof
      BY <2>7 DEF AllInHand, InHand, MarkVerified, SetPassword
    <3>3. /\ uses' \in [Proof -> Nat] /\ late' \in [Proof -> Nat]
          /\ wrong' \in [Proof -> Nat] /\ undone' \in [Proof -> Nat]
      BY <2>7, <3>2, AcceptTyped, MarkVerifiedEffect, SetPasswordEffect
    <3>4. proof' \in [Proof -> ProofState] /\ UNCHANGED <<sent, limits>>
      BY <2>7, MarkVerifiedEffect, SetPasswordEffect DEF Respent
    <3>5. pc' \in [Client -> Pc] /\ req' \in [Client -> Request]
      BY <2>7, DoneTyped, MarkVerifiedEffect, SetPasswordEffect
    <3> QED BY <1>4, <3>1, <3>3, <3>4, <3>5 DEF TypeOK
  <2>8. CASE Consume(c)
    <3>1. req[c].proof \in Proof
      BY <2>8 DEF AllInHand, InHand, Consume
    <3>2. /\ uses' \in [Proof -> Nat] /\ late' \in [Proof -> Nat]
          /\ wrong' \in [Proof -> Nat] /\ undone' \in [Proof -> Nat]
      BY <2>8, <3>1, AcceptTyped, ConsumeEffect
    <3> QED BY <1>4, <2>8, <3>2, ConsumeEffect DEF Respent, TypeOK
  <2>9. CASE MarkExpired(c)
    BY <1>4, <2>9, MarkExpiredEffect, DoneTyped DEF Respent, TypeOK
  <2>10. CASE CountMismatch(c)
    <3>1. wrong' \in [Proof -> Nat]
      BY <2>10, CountMismatchEffect DEF TypeOK
    <3> QED BY <1>4, <2>10, <3>1, CountMismatchEffect, DoneTyped DEF Missed, TypeOK
  <2>11. CASE ProvePhone(c)
    <3>1. req[c].phone \in Phone /\ req[c].user \in User
      BY <2>11 DEF AllInHand, InHand, ProvePhone, TypeOK, Request
    <3>2. account' \in [User -> AccountState]
      BY <2>11, <3>1, PhoneEffect DEF ProvePhone, OnlyAccount, TypeOK
    <3>3. pc' \in [Client -> Pc] /\ req' \in [Client -> Request]
      BY <2>11, DoneTyped DEF ProvePhone
    <3> QED BY <1>4, <2>11, <3>2, <3>3 DEF ProvePhone, TypeOK
  <2>12. CASE LogIn(c)
    BY <1>4, <2>12, DoneTyped DEF LogIn, TypeOK
  <2> QED BY <1>4, <2>1, <2>2, <2>3, <2>4, <2>5, <2>6, <2>7, <2>8, <2>9, <2>10, <2>11,
             <2>12 DEF Step
<1> QED BY <1>1, <1>2, <1>3, <1>4 DEF Next

-------------------------------------------------------------------------------
(* Every step keeps the rows, and what a request has in hand.               *)

LEMMA KeptStep ==
  ASSUME TypeOK, AllInHand, Next
  PROVE  RowsKept
<1> USE DEF history
<1>1. ASSUME NEW c \in Client, Die(c) PROVE RowsKept
  BY <1>1, StillKeeps DEF Die
<1>2. ASSUME LimitEnds PROVE RowsKept
  BY <1>2, StillKeeps DEF LimitEnds
<1>3. ASSUME TimePasses PROVE RowsKept
  BY <1>3, TimeEffect
<1>4. ASSUME NEW c \in Client, Step(c) PROVE RowsKept
  <2>1. CASE \/ StartRegister(c) \/ ResendVerification(c) \/ ForgotPassword(c)
             \/ RequestOtp(c) \/ RefuseOtp(c)
    BY <2>1, AskEffect, StillKeeps
  <2>2. CASE VerifyEmail(c) \/ ResetPassword(c) \/ VerifyOtp(c)
    <3>1. UNCHANGED <<proof, sent, history>>
      BY <2>2, ReadEffect, CheckEffect DEF Reads, Checks
    <3> QED BY <3>1, StillKeeps
  <2>3. CASE CreateUser(c) \/ CreateProof(c)
    BY <2>3, CreateUserEffect, CreateProofEffect
  <2>4. CASE RevokePending(c)
    BY <2>4, RevokePendingEffect
  <2>5. CASE Send(c) \/ ProvePhone(c) \/ LogIn(c)
    <3>1. UNCHANGED <<proof, history>> /\ sent \subseteq sent'
      BY <2>5 DEF Send, ProvePhone, LogIn
    <3> QED BY <3>1, StillKeeps
  <2>6. CASE \/ MarkVerified(c) \/ SetPassword(c) \/ Consume(c) \/ MarkExpired(c)
             \/ CountMismatch(c)
    BY <2>6, MarkVerifiedEffect, SetPasswordEffect, ConsumeEffect, MarkExpiredEffect,
       CountMismatchEffect
  <2> QED BY <1>4, <2>1, <2>2, <2>3, <2>4, <2>5, <2>6 DEF Step
<1> QED BY <1>1, <1>2, <1>3, <1>4 DEF Next

(* A step of c leaves what the others have in hand.                         *)
OthersWait(c) == \A d \in Client : d # c => pc'[d] = pc[d] /\ req'[d] = req[d]

LEMMA InHandKept ==
  ASSUME TypeOK, TypeOK', AllInHand, RowsKept, NEW d \in Client, pc'[d] = pc[d], req'[d] = req[d]
  PROVE  InHand(d)'
<1>1. InHand(d) /\ (req[d].proof \in Proof => uses[req[d].proof] \in Nat)
  BY DEF AllInHand, TypeOK
<1>2. pc[d] \in {"send", "use", "expire", "miss", "hit", "phone"} =>
        /\ req'[d].proof \in Proof /\ Row(d)'.status # "none"
        /\ Row(d)'.kind = Row(d).kind /\ Row(d)'.user = Row(d).user
        /\ Row(d)'.phone = Row(d).phone
        /\ uses[req[d].proof] <= uses'[req[d].proof]
  BY <1>1 DEF InHand, Row, RowsKept
<1>3. pc[d] \in {"use", "hit", "phone"} => req'[d].proof \in sent'
  BY <1>1 DEF InHand, RowsKept
<1>4. pc[d] = "phone" => uses'[req'[d].proof] > 0
  <2> SUFFICES ASSUME pc[d] = "phone" PROVE uses'[req'[d].proof] > 0
    OBVIOUS
  <2>1. uses[req[d].proof] > 0 /\ req[d].proof \in Proof
    BY <1>1 DEF InHand
  <2>2. uses[req[d].proof] <= uses'[req[d].proof]
    BY <1>2
  <2>3. uses[req[d].proof] \in Nat /\ uses'[req[d].proof] \in Nat
    BY <2>1 DEF TypeOK
  <2> QED BY <2>1, <2>2, <2>3
<1> QED BY <1>1, <1>2, <1>3, <1>4 DEF InHand

LEMMA InHandStep ==
  ASSUME TypeOK, AllInHand, Counting, Next
  PROVE  AllInHand'
<1> USE DEF history
<1>1. RowsKept /\ TypeOK'
  BY KeptStep, TypedStep
<1>2. ASSUME UNCHANGED <<pc, req>> PROVE AllInHand'
  BY <1>1, <1>2, InHandKept DEF AllInHand
<1>3. ASSUME NEW c \in Client, OthersWait(c), InHand(c)' PROVE AllInHand'
  BY <1>1, <1>3, InHandKept DEF AllInHand, OthersWait
<1>4. ASSUME NEW c \in Client, OthersWait(c),
             pc'[c] \in {"idle", "hash", "revoke", "create", "login"}
      PROVE  AllInHand'
  <2>1. InHand(c)'
    BY <1>4 DEF InHand
  <2> QED BY <1>3, <1>4, <2>1
<1>5. ASSUME NEW c \in Client, Done(c) PROVE AllInHand'
  <2>1. OthersWait(c) /\ pc'[c] = "idle"
    BY <1>5, DoneTyped DEF OthersWait, TypeOK
  <2> QED BY <1>4, <2>1
<1>6. ASSUME NEW c \in Client,
             \E k \in Kind, u \in User, ph \in Phone \cup {NoPhone} : Inserted(c, k, u, ph)
      PROVE  AllInHand'
  <2>1. PICK p \in Proof : /\ proof'[p].status = "pending"
                           /\ pc' = [pc EXCEPT ![c] = "send"] /\ req'[c].proof = p
                           /\ \A d \in Client : d # c => req'[d] = req[d]
    BY <1>6 DEF Inserted
  <2>2. OthersWait(c) /\ pc'[c] = "send"
    BY <2>1 DEF OthersWait, TypeOK
  <2>3. InHand(c)'
    BY <2>1, <2>2 DEF InHand, Row
  <2> QED BY <1>3, <2>2, <2>3
<1>7. ASSUME NEW c \in Client, Die(c) PROVE AllInHand'
  BY <1>5, <1>7 DEF Die
<1>8. ASSUME LimitEnds \/ TimePasses PROVE AllInHand'
  BY <1>2, <1>8 DEF LimitEnds, TimePasses
<1>9. ASSUME NEW c \in Client, Step(c) PROVE AllInHand'
  <2>1. CASE \/ StartRegister(c) \/ ResendVerification(c) \/ ForgotPassword(c)
             \/ RequestOtp(c) \/ RefuseOtp(c)
    <3>1. CASE UNCHANGED <<pc, req>>
      BY <1>2, <3>1
    <3>2. CASE Begins(c)
      <4>1. PICK r \in Request, l \in {"hash", "revoke"} : Begin(c, r, l)
        BY <3>2 DEF Begins
      <4>2. OthersWait(c) /\ pc'[c] = l
        BY <4>1, BeginTyped DEF OthersWait, TypeOK, Pc
      <4> QED BY <1>4, <4>2
    <3> QED BY <2>1, <3>1, <3>2, AskEffect
  <2>2. CASE VerifyEmail(c) \/ ResetPassword(c)
    <3>1. PICK p \in Proof, r \in Request, l \in {"use", "expire"} :
            /\ p \in sent /\ proof[p].status = "pending" /\ proof[p].kind \in Mailed
            /\ r.proof = p /\ r.user = proof[p].user
            /\ r.kind = "reset" => proof[p].kind = "reset"
            /\ Begin(c, r, l)
            /\ UNCHANGED <<account, proof, sent, limits, history>>
      BY <2>2, ReadEffect DEF Reads
    <3>2. OthersWait(c) /\ pc'[c] = l /\ req'[c] = r
      BY <3>1, BeginTyped DEF OthersWait, TypeOK, Pc
    <3>3. InHand(c)'
      BY <3>1, <3>2 DEF InHand, Row
    <3> QED BY <1>3, <3>2, <3>3
  <2>3. CASE VerifyOtp(c)
    <3>1. PICK p \in Proof, r \in Request, l \in {"expire", "miss", "hit"} :
            /\ proof[p].status = "pending"
            /\ r.proof = p /\ r.user = proof[p].user /\ r.kind = proof[p].kind
            /\ r.phone = proof[p].phone /\ r.tries = proof[p].tries
            /\ r.kind \in Texted /\ r.phone \in Phone
            /\ l = "hit" => p \in sent
            /\ Begin(c, r, l)
            /\ UNCHANGED <<account, proof, sent, limits, history>>
      BY <2>3, CheckEffect DEF Checks
    <3>2. OthersWait(c) /\ pc'[c] = l /\ req'[c] = r
      BY <3>1, BeginTyped DEF OthersWait, TypeOK, Pc
    <3>3. r.tries < MaxAttempts
      BY <3>1 DEF Counting
    <3>4. InHand(c)'
      BY <3>1, <3>2, <3>3 DEF InHand, Row
    <3> QED BY <1>3, <3>2, <3>4
  <2>4. CASE CreateUser(c) \/ CreateProof(c)
    BY <1>5, <1>6, <2>4, CreateUserEffect, CreateProofEffect
  <2>5. CASE RevokePending(c)
    <3>1. OthersWait(c) /\ pc'[c] = "create"
      BY <2>5, RevokePendingEffect DEF OthersWait, TypeOK
    <3> QED BY <1>4, <3>1
  <2>6. CASE Consume(c)
    <3>1. /\ pc' = [pc EXCEPT ![c] = req[c].kind] /\ req' = req /\ sent' = sent
          /\ Respent({}, req[c].proof, "used") /\ Accept(c, req[c].proof)
          /\ req[c].kind \in Texted
      BY <2>6, ConsumeEffect
    <3>2. OthersWait(c) /\ pc'[c] = req[c].kind
      BY <3>1 DEF OthersWait, TypeOK
    <3>3. InHand(c) /\ pc[c] = "hit"
      BY <2>6 DEF Consume, AllInHand
    <3>4. uses'[req[c].proof] > 0 /\ req[c].proof \in Proof
      BY <3>1, <3>3, AcceptKeeps DEF InHand
    <3>5. Row(c)'.status = "used" /\ Row(c)'.kind = Row(c).kind
          /\ Row(c)'.user = Row(c).user /\ Row(c)'.phone = Row(c).phone
      BY <3>1, <3>4 DEF Row, Respent
    <3>6. pc'[c] = "login" \/ (pc'[c] = "phone" /\ req[c].kind = "phone")
      BY <3>1, <3>2 DEF Texted
    <3>7. InHand(c)'
      BY <3>1, <3>3, <3>4, <3>5, <3>6 DEF InHand
    <3> QED BY <1>3, <3>2, <3>7
  <2>7. CASE \/ Send(c) \/ ProvePhone(c) \/ LogIn(c) \/ MarkVerified(c) \/ SetPassword(c)
             \/ MarkExpired(c) \/ CountMismatch(c)
    <3>1. Done(c)
      BY <2>7 DEF Send, ProvePhone, LogIn, MarkVerified, SetPassword, MarkExpired, CountMismatch
    <3> QED BY <1>5, <3>1
  <2> QED BY <1>9, <2>1, <2>2, <2>3, <2>4, <2>5, <2>6, <2>7 DEF Step
<1> QED BY <1>7, <1>8, <1>9 DEF Next

LEMMA SentExistStep ==
  ASSUME TypeOK, AllInHand, SentExist, Next
  PROVE  SentExist'
<1>1. RowsKept
  BY KeptStep
<1>2. \A p \in sent' \ sent : p \in Proof /\ proof'[p].status # "none"
  <2>1. ASSUME NEW c \in Client, Send(c)
        PROVE  \A p \in sent' \ sent : p \in Proof /\ proof'[p].status # "none"
    BY <2>1, <1>1 DEF Send, AllInHand, InHand, Row
  <2>2. ASSUME NEW c \in Client, Step(c), ~Send(c) PROVE sent' = sent
    BY <2>2, AskEffect, ReadEffect, CheckEffect
       DEF Step, Reads, Checks, CreateUser, RevokePending, CreateProof, MarkVerified,
           SetPassword, MarkExpired, CountMismatch, Consume, ProvePhone, LogIn
  <2>3. ASSUME \/ LimitEnds \/ TimePasses \/ \E c \in Client : Die(c)
        PROVE  sent' = sent
    BY <2>3 DEF LimitEnds, TimePasses, Die
  <2> QED BY <2>1, <2>2, <2>3 DEF Next
<1> QED BY <1>1, <1>2 DEF SentExist, RowsKept, TypeOK

-------------------------------------------------------------------------------
(* What was spent stays spent, and is counted.                              *)

Unspent == {"none", "pending"}

(* Only an accepted proof and a wrong answer change what is counted.        *)
LEMMA CountedStep ==
  ASSUME TypeOK, AllInHand, Next
  PROVE  /\ \A p \in Proof : proof'[p].status \in Unspent => proof[p].status \in Unspent
         /\ \/ \E c \in Client : CountMismatch(c)
            \/ /\ \A p \in Proof : proof'[p].tries = proof[p].tries
               /\ UNCHANGED <<wrong, undone>>
         /\ \/ \E c \in Client : MarkVerified(c) \/ SetPassword(c) \/ Consume(c)
            \/ UNCHANGED <<uses, late>>
<1> USE DEF history, Unspent
<1> DEFINE Goal ==
      /\ \A p \in Proof : proof'[p].status \in Unspent => proof[p].status \in Unspent
      /\ \/ \E c \in Client : CountMismatch(c)
         \/ /\ \A p \in Proof : proof'[p].tries = proof[p].tries
            /\ UNCHANGED <<wrong, undone>>
      /\ \/ \E c \in Client : MarkVerified(c) \/ SetPassword(c) \/ Consume(c)
         \/ UNCHANGED <<uses, late>>
<1>1. ASSUME UNCHANGED <<proof, history>> PROVE Goal
  BY <1>1
<1>2. ASSUME NEW S \in SUBSET Proof, \A q \in S : proof[q].status = "pending",
             NEW p, NEW s, Respent(S, p, s),
             p \in Proof /\ s \in Unspent => proof[p].status \in Unspent
      PROVE  /\ \A q \in Proof : proof'[q].status \in Unspent => proof[q].status \in Unspent
             /\ \A q \in Proof : proof'[q].tries = proof[q].tries
  BY <1>2 DEF Respent
<1>3. ASSUME NEW c \in Client,
             \E k \in Kind, u \in User, ph \in Phone \cup {NoPhone} : Inserted(c, k, u, ph),
             UNCHANGED history
      PROVE  Goal
  BY <1>3 DEF Inserted
<1>4. ASSUME LimitEnds \/ \E c \in Client : Die(c) PROVE Goal
  BY <1>1, <1>4 DEF LimitEnds, Die
<1>5. ASSUME TimePasses PROVE Goal
  <2>1. PICK p \in Proof : proof[p].status = "pending" /\ Respent({}, p, "pending")
    BY <1>5, TimeEffect
  <2>2. UNCHANGED history
    BY <1>5, TimeEffect
  <2> QED BY <1>2, <2>1, <2>2
<1>6. ASSUME NEW c \in Client, Step(c) PROVE Goal
  <2>1. CASE \/ StartRegister(c) \/ ResendVerification(c) \/ ForgotPassword(c)
             \/ RequestOtp(c) \/ RefuseOtp(c)
    BY <1>1, <2>1, AskEffect
  <2>2. CASE VerifyEmail(c) \/ ResetPassword(c) \/ VerifyOtp(c)
    <3>1. UNCHANGED <<proof, history>>
      BY <2>2, ReadEffect, CheckEffect DEF Reads, Checks
    <3> QED BY <1>1, <3>1
  <2>3. CASE CreateUser(c) \/ CreateProof(c)
    <3>1. UNCHANGED history
      BY <2>3, CreateUserEffect, CreateProofEffect
    <3> QED BY <1>1, <1>3, <2>3, <3>1, CreateUserEffect, CreateProofEffect
  <2>4. CASE RevokePending(c)
    <3>1. PICK S \in SUBSET Proof : /\ \A q \in S : proof[q].status = "pending"
                                    /\ Respent(S, NoProof, "revoked")
      BY <2>4, RevokePendingEffect
    <3>2. UNCHANGED history
      BY <2>4, RevokePendingEffect
    <3> QED BY <1>2, <3>1, <3>2
  <2>5. CASE Send(c) \/ ProvePhone(c) \/ LogIn(c)
    BY <1>1, <2>5 DEF Send, ProvePhone, LogIn
  <2>6. CASE MarkVerified(c) \/ SetPassword(c) \/ Consume(c)
    <3>1. PICK S \in SUBSET Proof : /\ \A q \in S : proof[q].status = "pending"
                                    /\ Respent(S, req[c].proof, "used")
      BY <2>6, MarkVerifiedEffect, SetPasswordEffect, ConsumeEffect
    <3>2. UNCHANGED <<wrong, undone>>
      BY <2>6 DEF MarkVerified, SetPassword, Consume, Accept
    <3> QED BY <1>2, <2>6, <3>1, <3>2
  <2>7. CASE MarkExpired(c)
    <3>1. PICK s \in {"revoked", "expired"} : Respent({}, req[c].proof, s)
      BY <2>7, MarkExpiredEffect
    <3>2. UNCHANGED history
      BY <2>7, MarkExpiredEffect
    <3> QED BY <1>2, <3>1, <3>2
  <2>8. CASE CountMismatch(c)
    <3>1. Missed(req[c].proof, req[c].tries + 1) /\ UNCHANGED <<uses, late>>
      BY <2>8, CountMismatchEffect
    <3>2. \A p \in Proof : proof'[p].status \in Unspent => proof[p].status \in Unspent
      BY <3>1 DEF Missed
    <3> QED BY <2>8, <3>1, <3>2
  <2> QED BY <1>6, <2>1, <2>2, <2>3, <2>4, <2>5, <2>6, <2>7, <2>8 DEF Step
<1> QED BY <1>4, <1>5, <1>6 DEF Next

LEMMA SpendingStep ==
  ASSUME TypeOK, AllInHand, Spending, Next
  PROVE  Spending'
<1>1. /\ \A p \in Proof : proof'[p].status \in Unspent => proof[p].status \in Unspent
      /\ \/ \E c \in Client : MarkVerified(c) \/ SetPassword(c) \/ Consume(c)
         \/ UNCHANGED <<uses, late>>
  BY CountedStep
<1>2. CASE UNCHANGED <<uses, late>>
  BY <1>1, <1>2 DEF Spending, Unspent
<1>3. ASSUME NEW c \in Client, MarkVerified(c) \/ SetPassword(c) \/ Consume(c)
      PROVE  Spending'
  <2> DEFINE p == req[c].proof
  <2>1. p \in Proof /\ proof[p].status # "none"
    BY <1>3 DEF AllInHand, InHand, Row, MarkVerified, SetPassword, Consume
  <2>2. Accept(c, p)
    BY <1>3 DEF MarkVerified, SetPassword, Consume
  <2>3. proof'[p].status = "used"
    <3>1. PICK S \in SUBSET Proof : Respent(S, p, "used")
      BY <1>3, MarkVerifiedEffect, SetPasswordEffect, ConsumeEffect
    <3> QED BY <2>1, <3>1 DEF Respent
  <2>4. \A q \in Proof : /\ uses[q] \in Nat /\ late[q] \in Nat
                         /\ q # p => uses'[q] = uses[q] /\ late'[q] = late[q]
    BY <2>2 DEF Accept, TypeOK
  <2>5. /\ uses'[p] = uses[p] + 1
        /\ late'[p] = IF proof[p].status = "pending" THEN late[p] ELSE late[p] + 1
    BY <2>1, <2>2 DEF Accept, TypeOK
  <2>6. uses'[p] <= 1 + late'[p]
    BY <2>1, <2>4, <2>5 DEF Spending
  <2> HIDE DEF p
  <2> QED BY <1>1, <2>3, <2>4, <2>6 DEF Spending, Unspent
<1> QED BY <1>1, <1>2, <1>3

LEMMA CountingStep ==
  ASSUME TypeOK, AllInHand, Counting, Next
  PROVE  Counting'
<1>1. /\ \A p \in Proof : proof'[p].status \in Unspent => proof[p].status \in Unspent
      /\ \/ \E c \in Client : CountMismatch(c)
         \/ /\ \A p \in Proof : proof'[p].tries = proof[p].tries
            /\ UNCHANGED <<wrong, undone>>
  BY CountedStep
<1>2. CASE /\ \A p \in Proof : proof'[p].tries = proof[p].tries
           /\ UNCHANGED <<wrong, undone>>
  BY <1>1, <1>2 DEF Counting, Unspent
<1>3. ASSUME NEW c \in Client, CountMismatch(c)
      PROVE  Counting'
  <2> DEFINE p == req[c].proof
             n == req[c].tries + 1
  <2>1. /\ p \in Proof /\ req[c].tries \in Nat /\ proof[p].tries \in Nat
        /\ n <= MaxAttempts
        /\ Missed(p, n)
        /\ wrong' = [wrong EXCEPT ![p] = @ + 1]
        /\ undone'[p] = IF proof[p].tries > req[c].tries
                        THEN undone[p] + (proof[p].tries - req[c].tries) ELSE undone[p]
        /\ \A q \in Proof : q # p => undone'[q] = undone[q]
    BY <1>3, CountMismatchEffect
  <2>2. /\ wrong[p] \in Nat /\ undone[p] \in Nat /\ wrong'[p] = wrong[p] + 1
        /\ \A q \in Proof : q # p => wrong'[q] = wrong[q] /\ proof'[q] = proof[q]
    BY <2>1 DEF TypeOK, Missed
  <2>3. wrong[p] <= proof[p].tries + undone[p]
    BY <2>1 DEF Counting
  <2>4. proof'[p].tries = n /\ (proof'[p].status \in Unspent => n < MaxAttempts)
    BY <2>1, VerificationAssumption DEF Missed, Unspent
  <2>5. wrong'[p] <= n + undone'[p]
    BY <2>1, <2>2, <2>3
  <2> HIDE DEF p, n
  <2> QED BY <2>1, <2>2, <2>4, <2>5 DEF Counting, Unspent
<1> QED BY <1>1, <1>2, <1>3

-------------------------------------------------------------------------------
(* What an account rests on.                                                *)

(* The steps that change what an account has proven.                        *)
LEMMA AccountStep ==
  ASSUME TypeOK, AllInHand, Next
  PROVE  \/ \E c \in Client : MarkVerified(c) \/ ProvePhone(c)
         \/ \A u \in User : /\ account'[u].verified = account[u].verified
                            /\ account'[u].phone = account[u].phone
                            /\ account'[u].proven = account[u].proven
<1> DEFINE Same == \A u \in User : /\ account'[u].verified = account[u].verified
                                   /\ account'[u].phone = account[u].phone
                                   /\ account'[u].proven = account[u].proven
<1>1. ASSUME LimitEnds \/ TimePasses \/ \E c \in Client : Die(c) PROVE Same
  BY <1>1 DEF LimitEnds, TimePasses, Die
<1>2. ASSUME NEW c \in Client, Step(c), ~MarkVerified(c), ~ProvePhone(c) PROVE Same
  <2>1. req[c].user \in User
    BY DEF TypeOK, Request
  <2>2. CASE CreateUser(c)
    BY <2>1, <2>2, CreateUserEffect, RegisteredEffect, ZenonT(60) DEF OnlyAccount
  <2>3. CASE SetPassword(c)
    BY <2>1, <2>3, SetPasswordEffect, PasswordEffect, ZenonT(60) DEF OnlyAccount
  <2>4. CASE ~CreateUser(c) /\ ~SetPassword(c)
    <3>1. account' = account
      BY <1>2, <2>4, AskEffect, ReadEffect, CheckEffect
         DEF Step, Reads, Checks, RevokePending, CreateProof, Send, MarkExpired,
             CountMismatch, Consume, LogIn
    <3> QED BY <3>1
  <2> QED BY <2>2, <2>3, <2>4
<1> QED BY <1>1, <1>2 DEF Next

(* A proof of an account keeps counting for it.                             *)
LEMMA ProofKept ==
  ASSUME TypeOK, TypeOK', SentExist, RowsKept, NEW u \in User
  PROVE  /\ \A p \in sent : MailProof(u, p) => p \in sent' /\ MailProof(u, p)'
         /\ account'[u].phone = account[u].phone =>
              \A p \in sent : PhoneProof(u, p) => p \in sent' /\ PhoneProof(u, p)'
<1> SUFFICES ASSUME NEW p \in sent, uses[p] > 0
             PROVE  /\ p \in sent' /\ uses'[p] > 0 /\ proof'[p].kind = proof[p].kind
                    /\ proof'[p].user = proof[p].user /\ proof'[p].phone = proof[p].phone
  BY DEF MailProof, PhoneProof
<1>1. p \in Proof /\ proof[p].status # "none"
  BY DEF TypeOK, SentExist
<1>2. uses[p] \in Nat /\ uses'[p] \in Nat /\ uses[p] <= uses'[p]
  BY <1>1 DEF TypeOK, RowsKept
<1>3. uses'[p] > 0
  BY <1>2
<1> QED BY <1>1, <1>3 DEF RowsKept

LEMMA OwnedStep ==
  ASSUME TypeOK, AllInHand, SentExist, Owned, Next
  PROVE  Owned'
<1>1. RowsKept /\ TypeOK'
  BY KeptStep, TypedStep
<1>2. CASE \A u \in User : /\ account'[u].verified = account[u].verified
                           /\ account'[u].phone = account[u].phone
                           /\ account'[u].proven = account[u].proven
  BY <1>1, <1>2, ProofKept DEF Owned
<1>3. ASSUME NEW c \in Client, MarkVerified(c) PROVE Owned'
  <2>a. PICK u, p : u = req[c].user /\ p = req[c].proof
    OBVIOUS
  <2>1. /\ u \in User /\ p \in Proof /\ p \in sent /\ proof[p].status # "none"
        /\ proof[p].user = u /\ proof[p].kind \in Mailed
    BY <1>3, <2>a DEF TypeOK, Request, AllInHand, InHand, Row, MarkVerified
  <2>2. /\ account' = [account EXCEPT ![u].verified = TRUE]
        /\ Accept(c, p) /\ sent' = sent
    BY <1>3, <2>a, MarkVerifiedEffect
  <2>3. /\ OnlyAccount(u) /\ account'[u].phone = account[u].phone
        /\ account'[u].proven = account[u].proven
    BY <2>1, <2>2, VerifiedEffect
  <2>4. uses'[p] > 0
    BY <2>1, <2>2, AcceptKeeps
  <2>5. p \in sent' /\ MailProof(u, p)'
    BY <1>1, <2>1, <2>2, <2>4 DEF MailProof, RowsKept
  <2>6. \A v \in User : /\ account'[v].phone = account[v].phone
                        /\ account'[v].proven = account[v].proven
                        /\ v # u => account'[v].verified = account[v].verified
    BY <2>3 DEF OnlyAccount
  <2>7. ASSUME NEW v \in User, account'[v].verified
        PROVE  \E q \in sent' : MailProof(v, q)'
    BY <1>1, <2>5, <2>6, <2>7, ProofKept DEF Owned
  <2>8. ASSUME NEW v \in User, account'[v].proven
        PROVE  account'[v].phone # NoPhone /\ \E q \in sent' : PhoneProof(v, q)'
    BY <1>1, <2>6, <2>8, ProofKept DEF Owned
  <2> QED BY <2>6, <2>7, <2>8 DEF Owned
<1>4. ASSUME NEW c \in Client, ProvePhone(c) PROVE Owned'
  <2>a. PICK u, ph, p : u = req[c].user /\ ph = req[c].phone /\ p = req[c].proof
    OBVIOUS
  <2>1. /\ u \in User /\ ph \in Phone /\ p \in Proof /\ p \in sent
        /\ proof[p].user = u /\ proof[p].kind = "phone" /\ proof[p].phone = ph
        /\ uses[p] > 0
    BY <1>4, <2>a DEF TypeOK, Request, AllInHand, InHand, Row, ProvePhone
  <2>2. UNCHANGED <<proof, sent, uses>>
    BY <1>4 DEF ProvePhone, history
  <2>3. CASE account' = account
    BY <1>2, <2>3
  <2>4. CASE /\ \A v \in User \ {u} : account[v].phone # ph
             /\ account' = [account EXCEPT ![u].phone = ph, ![u].proven = TRUE]
    <3>1. /\ OnlyAccount(u) /\ account'[u].phone = ph
          /\ account'[u].verified = account[u].verified
      BY <2>1, <2>4, PhoneEffect, ZenonT(60)
    <3>2. p \in sent' /\ PhoneProof(u, p)'
      BY <2>1, <2>2, <3>1 DEF PhoneProof
    <3>3. \A v \in User \ {u} : account'[v] = account[v]
      BY <3>1 DEF OnlyAccount
    <3>4. ASSUME NEW v \in User, account'[v].verified
          PROVE  \E q \in sent' : MailProof(v, q)'
      BY <1>1, <3>1, <3>3, <3>4, ProofKept DEF Owned
    <3>5. ASSUME NEW v \in User, account'[v].proven
          PROVE  account'[v].phone # NoPhone /\ \E q \in sent' : PhoneProof(v, q)'
      <4>1. CASE v = u
        BY <2>1, <3>1, <3>2, <4>1, VerificationAssumption
      <4>2. CASE v # u
        BY <1>1, <3>3, <3>5, <4>2, ProofKept DEF Owned
      <4> QED BY <4>1, <4>2
    <3>6. ASSUME NEW v \in User, account'[v].phone # NoPhone, NEW w \in User \ {v}
          PROVE  account'[w].phone # account'[v].phone
      <4>1. CASE v = u
        BY <2>4, <3>1, <3>3, <4>1
      <4>2. CASE w = u
        BY <2>4, <3>1, <3>3, <4>2
      <4>3. CASE v # u /\ w # u
        BY <3>3, <3>6, <4>3 DEF Owned
      <4> QED BY <4>1, <4>2, <4>3
    <3> QED BY <3>4, <3>5, <3>6 DEF Owned
  <2> QED BY <1>4, <2>a, <2>3, <2>4 DEF ProvePhone
<1> QED BY <1>2, <1>3, <1>4, AccountStep

-------------------------------------------------------------------------------
(* Requests that keep apart.                                                *)

Alone(c) == \A d \in Client : pc[d] # "idle" => d = c

LEMMA ApartStep ==
  ASSUME TypeOK, AllInHand, Apart, Next, alone
  PROVE  Apart'
<1> USE DEF history
<1> DEFINE Held == /\ \A c, d \in Client : pc'[c] # "idle" /\ pc'[d] # "idle" => c = d
                   /\ \A c \in Client :
                        /\ pc'[c] \in {"use", "expire", "miss", "hit"} => Row(c)'.status = "pending"
                        /\ pc'[c] = "miss" => Row(c)'.tries = req'[c].tries
           None == \A p \in Proof : late'[p] = 0 /\ undone'[p] = 0
<1>1. Held
  <2>1. ASSUME NEW c \in Client, OthersWait(c), Alone(c),
               /\ pc'[c] \in {"use", "expire", "miss", "hit"} => Row(c)'.status = "pending"
               /\ pc'[c] = "miss" => Row(c)'.tries = req'[c].tries
        PROVE  Held
    BY <2>1 DEF OthersWait, Alone
  <2>2. ASSUME NEW c \in Client, pc[c] # "idle", OthersWait(c),
               pc'[c] \in {"idle", "create", "send", "login", "phone"}
        PROVE  Held
    <3>1. Alone(c)
      BY <2>2 DEF Apart, Alone
    <3> QED BY <2>1, <2>2, <3>1
  <2>3. ASSUME NEW c \in Client, pc[c] # "idle", Done(c) PROVE Held
    <3>1. OthersWait(c) /\ pc'[c] = "idle"
      BY <2>3, DoneTyped DEF OthersWait, TypeOK
    <3> QED BY <2>2, <2>3, <3>1
  <2>4. ASSUME NEW c \in Client, NEW r \in Request, NEW l \in Pc, Begin(c, r, l)
        PROVE  OthersWait(c) /\ Alone(c) /\ pc'[c] = l /\ req'[c] = r
    <3>1. OthersWait(c) /\ pc'[c] = l /\ req'[c] = r
      BY <2>4, BeginTyped DEF OthersWait, TypeOK
    <3>2. Alone(c)
      BY <2>4 DEF Begin, Alone
    <3> QED BY <3>1, <3>2
  <2>5. ASSUME UNCHANGED <<pc, req>>, RowsKept,
               \A p \in Proof : proof[p].status = "pending" =>
                 proof'[p].status = "pending" /\ proof'[p].tries = proof[p].tries
        PROVE  Held
    <3>1. \A c \in Client : pc[c] \in {"use", "expire", "miss", "hit"} => req[c].proof \in Proof
      BY DEF AllInHand, InHand
    <3>2. \A c \in Client : pc[c] \in {"use", "expire", "miss", "hit"} =>
            Row(c)'.status = "pending" /\ Row(c)'.tries = Row(c).tries
      BY <2>5, <3>1 DEF Apart, Row
    <3> QED BY <2>5, <3>2 DEF Apart
  <2>6. ASSUME NEW c \in Client, Die(c) PROVE Held
    BY <2>3, <2>6 DEF Die
  <2>7. ASSUME LimitEnds PROVE Held
    <3>1. UNCHANGED <<pc, req, proof>> /\ RowsKept
      BY <2>7, StillKeeps DEF LimitEnds
    <3> QED BY <2>5, <3>1
  <2>8. ASSUME TimePasses PROVE Held
    <3>1. PICK p \in Proof : proof[p].status = "pending" /\ Respent({}, p, "pending")
      BY <2>8, TimeEffect
    <3>2. UNCHANGED <<pc, req>> /\ RowsKept
      BY <2>8, TimeEffect
    <3>3. \A q \in Proof : proof[q].status = "pending" =>
            proof'[q].status = "pending" /\ proof'[q].tries = proof[q].tries
      BY <3>1 DEF Respent
    <3> QED BY <2>5, <3>2, <3>3
  <2>9. ASSUME NEW c \in Client, Step(c) PROVE Held
    <3>1. CASE \/ StartRegister(c) \/ ResendVerification(c) \/ ForgotPassword(c)
               \/ RequestOtp(c) \/ RefuseOtp(c)
      <4>1. Begins(c) \/ UNCHANGED <<pc, req>>
        BY <3>1, AskEffect
      <4>2. UNCHANGED <<proof, sent, history>> /\ RowsKept
        BY <3>1, AskEffect, StillKeeps
      <4>3. CASE Begins(c)
        <5>1. PICK r \in Request, l \in {"hash", "revoke"} : Begin(c, r, l)
          BY <4>3 DEF Begins
        <5>2. OthersWait(c) /\ Alone(c) /\ pc'[c] = l
          BY <2>4, <5>1 DEF Pc
        <5> QED BY <2>1, <5>2
      <4> QED BY <2>5, <4>1, <4>2, <4>3
    <3>2. CASE VerifyEmail(c) \/ ResetPassword(c)
      <4>1. PICK p \in Proof, r \in Request, l \in {"use", "expire"} :
              /\ proof[p].status = "pending" /\ r.proof = p /\ proof' = proof
              /\ Begin(c, r, l)
        BY <3>2, ReadEffect DEF Reads
      <4>2. OthersWait(c) /\ Alone(c) /\ pc'[c] = l /\ req'[c] = r
        BY <2>4, <4>1 DEF Pc
      <4>3. Row(c)'.status = "pending"
        BY <4>1, <4>2 DEF Row
      <4> QED BY <2>1, <4>2, <4>3
    <3>3. CASE VerifyOtp(c)
      <4>1. PICK p \in Proof, r \in Request, l \in {"expire", "miss", "hit"} :
              /\ proof[p].status = "pending" /\ r.proof = p /\ r.tries = proof[p].tries
              /\ proof' = proof /\ Begin(c, r, l)
        BY <3>3, CheckEffect DEF Checks
      <4>2. OthersWait(c) /\ Alone(c) /\ pc'[c] = l /\ req'[c] = r
        BY <2>4, <4>1 DEF Pc
      <4>3. Row(c)'.status = "pending" /\ Row(c)'.tries = req'[c].tries
        BY <4>1, <4>2 DEF Row
      <4> QED BY <2>1, <4>2, <4>3
    <3>4. CASE CreateUser(c) \/ CreateProof(c)
      <4>1. pc[c] # "idle"
        BY <3>4 DEF CreateUser, CreateProof
      <4>2. CASE Done(c)
        BY <2>3, <4>1, <4>2
      <4>3. CASE \E k \in Kind, u \in User, ph \in Phone \cup {NoPhone} : Inserted(c, k, u, ph)
        <5>1. OthersWait(c) /\ pc'[c] = "send"
          BY <4>3 DEF Inserted, OthersWait, TypeOK
        <5> QED BY <2>2, <4>1, <5>1
      <4> QED BY <3>4, <4>2, <4>3, CreateUserEffect, CreateProofEffect
    <3>5. CASE RevokePending(c)
      <4>1. pc[c] # "idle" /\ OthersWait(c) /\ pc'[c] = "create"
        BY <3>5, RevokePendingEffect DEF RevokePending, OthersWait, TypeOK
      <4> QED BY <2>2, <4>1
    <3>6. CASE Consume(c)
      <4>1. pc[c] # "idle" /\ OthersWait(c) /\ pc'[c] \in {"login", "phone"}
        BY <3>6, ConsumeEffect DEF Consume, OthersWait, TypeOK, Texted
      <4> QED BY <2>2, <4>1
    <3>7. CASE \/ Send(c) \/ ProvePhone(c) \/ LogIn(c) \/ MarkVerified(c) \/ SetPassword(c)
               \/ MarkExpired(c) \/ CountMismatch(c)
      <4>1. pc[c] # "idle" /\ Done(c)
        BY <3>7 DEF Send, ProvePhone, LogIn, MarkVerified, SetPassword, MarkExpired,
                    CountMismatch
      <4> QED BY <2>3, <4>1
    <3> QED BY <2>9, <3>1, <3>2, <3>3, <3>4, <3>5, <3>6, <3>7 DEF Step
  <2> QED BY <2>6, <2>7, <2>8, <2>9 DEF Next
<1>2. \A p \in Proof : late'[p] = 0
  <2>1. ASSUME NEW c \in Client, MarkVerified(c) \/ SetPassword(c) \/ Consume(c)
        PROVE  late' = late
    <3>1. /\ req[c].proof \in Proof /\ proof[req[c].proof].status = "pending"
          /\ Accept(c, req[c].proof)
      BY <2>1 DEF AllInHand, InHand, Apart, Row, MarkVerified, SetPassword, Consume
    <3> QED BY <3>1 DEF Accept, TypeOK
  <2>2. late' = late
    BY <2>1, CountedStep
  <2> QED BY <2>2 DEF Apart
<1>3. \A p \in Proof : undone'[p] = 0
  <2>1. ASSUME NEW c \in Client, CountMismatch(c) PROVE \A p \in Proof : undone'[p] = undone[p]
    <3>1. proof[req[c].proof].tries = req[c].tries
      BY <2>1 DEF Apart, Row, CountMismatch
    <3>2. /\ req[c].tries \in Nat
          /\ undone'[req[c].proof] = IF proof[req[c].proof].tries > req[c].tries
               THEN undone[req[c].proof] + (proof[req[c].proof].tries - req[c].tries)
               ELSE undone[req[c].proof]
          /\ \A q \in Proof : q # req[c].proof => undone'[q] = undone[q]
      BY <2>1, CountMismatchEffect
    <3>3. undone'[req[c].proof] = undone[req[c].proof]
      BY <3>1, <3>2
    <3> QED BY <3>2, <3>3
  <2>2. \A p \in Proof : undone'[p] = undone[p]
    BY <2>1, CountedStep
  <2> QED BY <2>2 DEF Apart
<1> QED BY <1>1, <1>2, <1>3 DEF Apart

-------------------------------------------------------------------------------
(* Resets.                                                                  *)

(* A step has one proof used, or sent, at most; what was used stays so.     *)
LEMMA UsedStep ==
  ASSUME TypeOK, AllInHand, Apart, Next, alone
  PROVE  \E x : /\ sent' \subseteq sent \cup {x}
                /\ \A q \in Proof : /\ proof[q].status = "used" => proof'[q].status = "used"
                                    /\ proof'[q].status = "used" =>
                                         proof[q].status = "used" \/ q = x
<1> DEFINE Goal(x) == /\ sent' \subseteq sent \cup {x}
                      /\ \A q \in Proof :
                           /\ proof[q].status = "used" => proof'[q].status = "used"
                           /\ proof'[q].status = "used" => proof[q].status = "used" \/ q = x
<1>1. ASSUME LimitEnds \/ \E c \in Client : Die(c) PROVE Goal(NoProof)
  BY <1>1 DEF LimitEnds, Die
<1>2. ASSUME TimePasses PROVE Goal(NoProof)
  <2>1. UNCHANGED sent
    BY <1>2, TimeEffect
  <2>2. PICK p \in Proof : proof[p].status = "pending" /\ Respent({}, p, "pending")
    BY <1>2, TimeEffect
  <2> QED BY <2>1, <2>2 DEF Respent
<1>3. ASSUME NEW c \in Client, Step(c) PROVE Goal(req[c].proof)
  <2>1. CASE \/ StartRegister(c) \/ ResendVerification(c) \/ ForgotPassword(c)
             \/ RequestOtp(c) \/ RefuseOtp(c)
    BY <2>1, AskEffect
  <2>2. CASE VerifyEmail(c) \/ ResetPassword(c) \/ VerifyOtp(c)
    <3>1. UNCHANGED <<proof, sent>>
      BY <2>2, ReadEffect, CheckEffect DEF Reads, Checks
    <3> QED BY <3>1
  <2>3. CASE CreateUser(c) \/ CreateProof(c)
    <3>1. UNCHANGED sent
      BY <2>3, CreateUserEffect, CreateProofEffect
    <3>2. \/ UNCHANGED proof
          \/ \E p \in Proof : /\ proof[p].status = "none" /\ proof'[p].status = "pending"
                              /\ \A q \in Proof : q # p => proof'[q] = proof[q]
      BY <2>3, CreateUserEffect, CreateProofEffect DEF Inserted
    <3> QED BY <3>1, <3>2
  <2>4. CASE RevokePending(c)
    <3>1. PICK S \in SUBSET Proof : /\ \A q \in S : proof[q].status = "pending"
                                    /\ Respent(S, NoProof, "revoked")
      BY <2>4, RevokePendingEffect
    <3>2. UNCHANGED sent
      BY <2>4, RevokePendingEffect
    <3> QED BY <3>1, <3>2, VerificationAssumption DEF Respent
  <2>5. CASE Send(c) \/ ProvePhone(c) \/ LogIn(c)
    BY <2>5 DEF Send, ProvePhone, LogIn
  <2>6. CASE MarkVerified(c) \/ SetPassword(c) \/ Consume(c)
    <3>1. PICK S \in SUBSET Proof : /\ \A q \in S : proof[q].status = "pending"
                                    /\ Respent(S, req[c].proof, "used")
      BY <2>6, MarkVerifiedEffect, SetPasswordEffect, ConsumeEffect
    <3>2. UNCHANGED sent
      BY <2>6, MarkVerifiedEffect, SetPasswordEffect, ConsumeEffect
    <3> QED BY <3>1, <3>2 DEF Respent
  <2>7. CASE MarkExpired(c)
    <3>1. PICK s \in {"revoked", "expired"} : Respent({}, req[c].proof, s)
      BY <2>7, MarkExpiredEffect
    <3>2. UNCHANGED sent /\ proof[req[c].proof].status = "pending"
      BY <2>7, MarkExpiredEffect DEF Apart, Row, MarkExpired
    <3> QED BY <3>1, <3>2 DEF Respent
  <2>8. CASE CountMismatch(c)
    <3>1. Missed(req[c].proof, req[c].tries + 1) /\ UNCHANGED sent
      BY <2>8, CountMismatchEffect
    <3>2. proof[req[c].proof].status = "pending"
      BY <2>8 DEF Apart, Row, CountMismatch
    <3> QED BY <3>1, <3>2 DEF Missed
  <2> QED BY <1>3, <2>1, <2>2, <2>3, <2>4, <2>5, <2>6, <2>7, <2>8 DEF Step
<1> QED BY <1>1, <1>2, <1>3 DEF Next

LEMMA ResetStep ==
  ASSUME TypeOK, AllInHand, Apart, Reset, Next
  PROVE  Reset'
<1> SUFFICES ASSUME alone
             PROVE  /\ IsFiniteSet(Resets')
                    /\ \A u \in User : account'[u].resets <= Cardinality(Resets')
  BY DEF Reset, Next, Die, alone
<1>1. RowsKept /\ TypeOK'
  BY KeptStep, TypedStep
<1>2. PICK x : /\ sent' \subseteq sent \cup {x}
               /\ \A q \in Proof : /\ proof[q].status = "used" => proof'[q].status = "used"
                                   /\ proof'[q].status = "used" =>
                                        proof[q].status = "used" \/ q = x
  BY UsedStep
<1>3. Resets \subseteq Resets'
  <2> SUFFICES ASSUME NEW q \in Resets PROVE q \in Resets'
    OBVIOUS
  <2>1. q \in Proof /\ q \in sent /\ proof[q].status = "used" /\ proof[q].kind = "reset"
    BY DEF Resets, TypeOK
  <2>2. q \in sent' /\ proof'[q].status = "used" /\ proof'[q].kind = "reset"
    BY <1>1, <1>2, <2>1 DEF RowsKept
  <2> QED BY <2>2 DEF Resets
<1>4. Resets' \subseteq Resets \cup {x}
  <2> SUFFICES ASSUME NEW q \in Resets', q # x PROVE q \in Resets
    OBVIOUS
  <2>1. q \in Proof /\ q \in sent' /\ proof'[q].status = "used" /\ proof'[q].kind = "reset"
    BY <1>1 DEF Resets, TypeOK
  <2>2. q \in sent /\ proof[q].status = "used"
    BY <1>2, <2>1
  <2>3. proof[q].kind = "reset"
    BY <1>1, <2>1, <2>2 DEF RowsKept
  <2> QED BY <2>2, <2>3 DEF Resets
<1>5. IsFiniteSet(Resets) /\ \A u \in User : account[u].resets <= Cardinality(Resets)
  BY DEF Reset
<1> HIDE DEF Resets
<1>6. IsFiniteSet(Resets \cup {x})
  BY <1>5, FS_AddElement
<1>7. IsFiniteSet(Resets') /\ Cardinality(Resets) <= Cardinality(Resets')
  BY <1>3, <1>4, <1>6, FS_Subset
<1>8. /\ Cardinality(Resets) \in Nat /\ Cardinality(Resets') \in Nat
      /\ \A u \in User : account[u].resets \in Nat
  BY <1>5, <1>7, FS_CardinalityType DEF TypeOK, AccountState
<1>9. CASE \A u \in User : account'[u].resets = account[u].resets
  BY <1>5, <1>7, <1>8, <1>9
<1>10. ASSUME NEW c \in Client, SetPassword(c)
       PROVE  \A u \in User : account'[u].resets <= Cardinality(Resets')
  <2>a. PICK p, v : p = req[c].proof /\ v = req[c].user
    OBVIOUS
  <2>1. /\ p \in Proof /\ p \in sent /\ proof[p].status = "pending" /\ proof[p].kind = "reset"
        /\ v \in User
    BY <1>10, <2>a DEF AllInHand, InHand, Apart, Row, SetPassword, TypeOK, Request
  <2>2. PICK S \in SUBSET Proof : Respent(S, p, "used")
    BY <1>10, <2>a, SetPasswordEffect
  <2>3. account' = [account EXCEPT ![v].resets = @ + 1] /\ sent' = sent
    BY <1>10, <2>a, SetPasswordEffect
  <2>4. p \notin Resets /\ p \in Resets'
    BY <2>1, <2>2, <2>3 DEF Resets, Respent
  <2>5. Cardinality(Resets \cup {p}) = Cardinality(Resets) + 1
    BY <1>5, <2>4, FS_AddElement
  <2>6. Cardinality(Resets \cup {p}) <= Cardinality(Resets')
    BY <1>3, <1>7, <2>4, FS_Subset
  <2>7. Cardinality(Resets) + 1 <= Cardinality(Resets')
    BY <1>8, <2>5, <2>6
  <2>8. /\ account'[v].resets = account[v].resets + 1
        /\ \A u \in User : u # v => account'[u].resets = account[u].resets
    BY <2>1, <2>3, PasswordEffect DEF OnlyAccount
  <2> QED BY <1>5, <1>8, <2>1, <2>7, <2>8
<1>11. \/ \E c \in Client : SetPassword(c)
       \/ \A u \in User : account'[u].resets = account[u].resets
  <2>1. ASSUME LimitEnds \/ TimePasses \/ \E c \in Client : Die(c) PROVE account' = account
    BY <2>1 DEF LimitEnds, TimePasses, Die
  <2>2. ASSUME NEW c \in Client, Step(c), ~SetPassword(c)
        PROVE  \A u \in User : account'[u].resets = account[u].resets
    <3>1. req[c].user \in User
      BY DEF TypeOK, Request
    <3>2. CASE CreateUser(c)
      BY <3>1, <3>2, CreateUserEffect, RegisteredEffect DEF OnlyAccount
    <3>3. CASE MarkVerified(c)
      BY <3>1, <3>3, MarkVerifiedEffect, VerifiedEffect DEF OnlyAccount
    <3>4. CASE ProvePhone(c)
      <4>1. req[c].phone \in Phone
        BY <3>4 DEF AllInHand, InHand, ProvePhone
      <4> QED BY <3>1, <3>4, <4>1, PhoneEffect DEF ProvePhone, OnlyAccount
    <3>5. CASE ~CreateUser(c) /\ ~MarkVerified(c) /\ ~ProvePhone(c)
      BY <2>2, <3>5, AskEffect, ReadEffect, CheckEffect
         DEF Step, Reads, Checks, RevokePending, CreateProof, Send, MarkExpired,
             CountMismatch, Consume, LogIn
    <3> QED BY <3>2, <3>3, <3>4, <3>5
  <2> QED BY <2>1, <2>2 DEF Next
<1> QED BY <1>7, <1>9, <1>10, <1>11

-------------------------------------------------------------------------------
(* The invariant, and what follows from it.                                 *)

LEMMA InitIInv == Init => IInv
<1> SUFFICES ASSUME Init PROVE IInv
  OBVIOUS
<1>1. AnyUser \in User
  BY VerificationAssumption DEF AnyUser
<1>2. TypeOK
  <2>1. [status |-> "none", kind |-> "email", user |-> AnyUser, phone |-> NoPhone,
         tries |-> 0, over |-> FALSE] \in ProofState
    BY <1>1 DEF ProofState, Kind, Mailed
  <2>2. \A b \in BOOLEAN : [registered |-> b, verified |-> FALSE, resets |-> 0,
                            phone |-> NoPhone, proven |-> FALSE] \in AccountState
    BY DEF AccountState
  <2>3. account \in [User -> AccountState]
    BY <2>2 DEF Init
  <2>4. proof \in [Proof -> ProofState]
    BY <2>1 DEF Init
  <2>5. pc \in [Client -> Pc] /\ req \in [Client -> Request]
    BY RequestTyped DEF Init, Pc
  <2> QED BY <2>3, <2>4, <2>5 DEF Init, TypeOK
<1>3. AllInHand /\ SentExist /\ Apart
  BY DEF Init, AllInHand, InHand, SentExist, Apart
<1>4. Spending /\ Counting
  BY VerificationAssumption DEF Init, Spending, Counting
<1>5. Owned
  BY DEF Init, Owned
<1>6. Reset
  <2>1. Resets = {}
    BY DEF Init, Resets
  <2>2. IsFiniteSet({}) /\ Cardinality({}) = 0
    BY FS_EmptySet
  <2>3. \A u \in User : account[u].resets = 0
    BY DEF Init
  <2> QED BY <2>1, <2>2, <2>3 DEF Reset
<1> QED BY <1>2, <1>3, <1>4, <1>5, <1>6 DEF IInv

LEMMA NextIInv == IInv /\ [Next]_vars => IInv'
<1>1. ASSUME IInv, Next PROVE IInv'
  <2>1. TypeOK' /\ AllInHand' /\ SentExist' /\ Spending' /\ Counting'
    BY <1>1, TypedStep, InHandStep, SentExistStep, SpendingStep, CountingStep DEF IInv
  <2>2. Owned' /\ Reset'
    BY <1>1, OwnedStep, ResetStep DEF IInv
  <2>3. Apart'
    <3>1. CASE alone
      BY <1>1, <3>1, ApartStep DEF IInv
    <3>2. CASE ~alone
      BY <1>1, <3>2 DEF Apart, alone, Next, Die
    <3> QED BY <3>1, <3>2
  <2> QED BY <2>1, <2>2, <2>3 DEF IInv
<1>2. ASSUME IInv, UNCHANGED vars PROVE IInv'
  BY <1>2 DEF vars, history, IInv, TypeOK, AllInHand, InHand, Row, SentExist, Spending,
              Counting, Apart, alone, Owned, PhoneProof, MailProof, Reset, Resets
<1> QED BY <1>1, <1>2

LEMMA IInvAlways == Spec => []IInv
BY InitIInv, NextIInv, PTL DEF Spec

(* TypeOK for any number of users, phones, proofs and requests: the rows and *)
(* the requests of auth.controller.ts keep the shape their code expects.     *)
THEOREM TypeCorrect == Spec => []TypeOK
<1>1. IInv => TypeOK
  BY DEF IInv
<1> QED BY <1>1, IInvAlways, PTL

(* UsedOnce for every value of OTP_MAX_ATTEMPTS and any number of requests:  *)
(* a token or a code is accepted once, and once more for each request that   *)
(* was overtaken between its read and its write; wrong answers are counted   *)
(* but for those that such a write undoes (verifyEmail, resetPassword,       *)
(* verifyChallenge).                                                         *)
THEOREM UsedOnceAlways == Spec => []UsedOnce
<1>1. IInv => UsedOnce
  BY DEF IInv, Spending, Counting, Apart, UsedOnce
<1> QED BY <1>1, IInvAlways, PTL

(* Proven for any number of users, phones and requests: what an account      *)
(* claims rests on a proof that was sent to its owner and accepted, no two   *)
(* accounts share a phone, and requests that keep apart reset a password     *)
(* once for each token (verifyOtp, verifyEmail, resetPassword).              *)
THEOREM ProvenAlways == Spec => []Proven
<1>1. IInv => Proven
  BY DEF IInv, Owned, Reset, Resets, MailProof, PhoneProof, Proven
<1> QED BY <1>1, IInvAlways, PTL

===============================================================================
