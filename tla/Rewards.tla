------------------------------- MODULE Rewards -------------------------------
(***************************************************************************)
(* Rewards and withdrawals: services/reward.service.ts behind              *)
(* controllers/reward.controller.ts, with the amounts of utils/money.ts    *)
(* and the payment of services/stellar.service.ts.                         *)
(*                                                                         *)
(* Claims, transactions and referral codes are kept in the memory of the   *)
(* process; the money is on the Stellar ledger.  A claim pays first and    *)
(* is booked when the payment is confirmed; a withdrawal reserves its      *)
(* amount first and is settled by what its payment answers.  Every payment *)
(* leaves the same source account, whose sequence number it must continue. *)
(***************************************************************************)
EXTENDS Integers, FiniteSets, FiniteSetsExt

CONSTANTS
  User, Module, Code,
  Request,        \* calls of claimReward() and processWithdrawal(), numbered
                  \* as they are made
  None,           \* no owner of a code, no module of a withdrawal
  BaseReward,     \* [Module -> Nat], baseRewardStroops
  Multiplier,     \* [Module -> <<numerator, denominator>>], by its difficulty
  ReferralBonus,  \* REFERRAL_BONUS_STROOPS
  MaxStroops,     \* MAX_STROOPS
  StreakDays,     \* bound: the streaks that are claimed with
  Amounts,        \* bound: the amounts that are withdrawn
  MaxLost,        \* bound: answers that get lost
  MaxRestarts     \* bound: restarts of the process

RewardAssumption ==
  /\ IsFiniteSet(Request) /\ Request \subseteq Nat
  /\ None \notin User \cup Module
  /\ BaseReward \in [Module -> Nat]
  /\ Multiplier \in [Module -> Nat \X (Nat \ {0})]
  /\ {ReferralBonus, MaxStroops, MaxLost, MaxRestarts} \subseteq Nat
  /\ StreakDays \subseteq Nat /\ Amounts \subseteq Int

VARIABLES
  codes,    \* [Code -> User or None], referralCodes
  claimed,  \* SUBSET (User \X Module), claimedRewards
  book,     \* [Request -> Status], the transaction that a request recorded
  pc,       \* [Request -> Pc]
  asked,    \* [Request -> Asking], what a request is for
  loaded,   \* [Request -> Nat], the sequence number that loadAccount() gave it
  seq,      \* external: the sequence number of the source account
  payment,  \* external: [Request -> PaymentState], the payment of a request
  raced,    \* history: claims with another one for the same reward under way
  lost,     \* history: requests that took a payment on its way, or made, for failed
  erased,   \* history: requests whose records a restart erased
  restarts  \* history: restarts so far

books == <<codes, claimed, book>>
ledger == <<seq, payment>>
history == <<raced, lost, erased, restarts>>
vars == <<books, pc, asked, loaded, ledger, history>>

-------------------------------------------------------------------------------
Status == {"none", "pending", "completed", "failed"}
Pc == {"idle", "load", "submit", "wait", "done"}
PaymentState == {"none", "sent", "landed", "dead"}
Asking == [user : User \cup {None}, module : Module \cup {None}, amount : Nat]
Nothing == [user |-> None, module |-> None, amount |-> 0]

TypeOK ==
  /\ codes \in [Code -> User \cup {None}]
  /\ claimed \in SUBSET (User \X Module)
  /\ book \in [Request -> Status] /\ pc \in [Request -> Pc]
  /\ asked \in [Request -> Asking] /\ loaded \in [Request -> Nat]
  /\ seq \in Nat /\ payment \in [Request -> PaymentState]
  /\ {raced, lost, erased} \subseteq SUBSET Request /\ restarts \in Nat

NoBooks ==
  /\ codes = [c \in Code |-> None]
  /\ claimed = {}
  /\ book = [r \in Request |-> "none"]

Init ==
  /\ NoBooks
  /\ pc = [r \in Request |-> "idle"]
  /\ asked = [r \in Request |-> Nothing]
  /\ loaded = [r \in Request |-> 0]
  /\ seq = 0 /\ payment = [r \in Request |-> "none"]
  /\ raced = {} /\ lost = {} /\ erased = {} /\ restarts = 0

-------------------------------------------------------------------------------
(* The reward of a module, in stroops.  A step out of range throws.         *)

InRange(x) == x \in 0 .. MaxStroops
MultiplyStroops(x, num, den) == (x * num) \div den
ClampStroops(x, max) == IF x < 0 THEN 0 ELSE IF x > max THEN max ELSE x

CalculateBaseReward(m) ==
  MultiplyStroops(BaseReward[m], Multiplier[m][1], Multiplier[m][2])

\* A tenth of the base for every day, at most the base itself; the product is
\* checked before it is clamped.
Uncapped(m, days) == MultiplyStroops(CalculateBaseReward(m), days, 10)
CalculateStreakBonus(m, days) == ClampStroops(Uncapped(m, days), CalculateBaseReward(m))

CalculateReward(m, days, referrer) ==
  CalculateBaseReward(m) + CalculateStreakBonus(m, days)
    + (IF referrer # None THEN ReferralBonus ELSE 0)

\* Every intermediate result is in range.
Payable(m, days, referrer) ==
  /\ InRange(CalculateBaseReward(m))
  /\ InRange(Uncapped(m, days))
  /\ InRange(CalculateReward(m, days, referrer))

-------------------------------------------------------------------------------
(* The balance of a user, from the transactions.                            *)

SumOf(S) == MapThenSumSet(LAMBDA r : asked[r].amount, S)
Rewards(u, s) == { r \in Request : asked[r].user = u /\ asked[r].module # None
                                     /\ book[r] = s }
Withdrawals(u, s) == { r \in Request : asked[r].user = u /\ asked[r].module = None
                                         /\ book[r] = s }
Earned(u) == SumOf(Rewards(u, "completed"))
Withdrawn(u) == SumOf(Withdrawals(u, "completed"))
Pending(u) == SumOf(Withdrawals(u, "pending"))

\* Seeded fault: the reserved amounts are not subtracted.
AvailableUnreserved(u) == ClampStroops(Earned(u) - Withdrawn(u), Earned(u))

Available(u) == ClampStroops(Earned(u) - Withdrawn(u) - Pending(u), Earned(u))

HasSufficientBalance(u, amount) == amount <= Available(u)

-------------------------------------------------------------------------------
Goto(r, l) == pc' = [pc EXCEPT ![r] = l]
Settle(r, s) == book' = [book EXCEPT ![r] = s]
IsClaim(r) == asked[r].module # None

RegisterReferralCode(c, u) ==
  /\ codes[c] = None
  /\ codes' = [codes EXCEPT ![c] = u]
  /\ UNCHANGED <<claimed, book, pc, asked, loaded, ledger, history>>

\* claimReward() up to the payment: the claim is not reserved.
StartClaim(r, u, m, days, referrer) ==
  /\ pc[r] = "idle"
  /\ <<u, m>> \notin claimed
  /\ Payable(m, days, referrer)
  /\ asked' = [asked EXCEPT ![r] = [user |-> u, module |-> m,
                                    amount |-> CalculateReward(m, days, referrer)]]
  /\ Goto(r, "load")
  /\ LET others == { q \in Request : /\ pc[q] \in {"load", "submit", "wait"}
                                     /\ asked[q].user = u /\ asked[q].module = m }
     IN raced' = IF others = {} THEN raced ELSE raced \cup others \cup {r}
  /\ UNCHANGED <<books, loaded, ledger, lost, erased, restarts>>

\* The balance and the amount are checked and the amount is reserved, without an
\* await in between.
ProcessWithdrawal(r, u, amount) ==
  /\ amount <= Available(u)
  /\ amount > 0
  /\ asked' = [asked EXCEPT ![r] = [user |-> u, module |-> None, amount |-> amount]]
  /\ Settle(r, "pending")
  /\ Goto(r, "load")

\* withdraw(): its own checks, in the same step.
StartWithdrawal(r, u, amount) ==
  /\ pc[r] = "idle"
  /\ InRange(amount) /\ amount > 0
  /\ HasSufficientBalance(u, amount)
  /\ ProcessWithdrawal(r, u, amount)
  /\ UNCHANGED <<codes, claimed, loaded, ledger, history>>

\* Nobody has the code: the claim goes on without a referrer.
ResolveReferralCode(c) == codes[c]

-------------------------------------------------------------------------------
(* sendPayment(), with what its caller does with the answer.                *)

\* A claim that failed leaves nothing; a withdrawal gives its amount back.
Fail(r) ==
  /\ Goto(r, "done")
  /\ IF IsClaim(r) THEN UNCHANGED book ELSE Settle(r, "failed")
  /\ UNCHANGED <<codes, claimed, asked, loaded>>

\* Seeded fault: a paid claim is not marked.
MarkNothing(r) == UNCHANGED claimed

MarkAsClaimed(r) ==
  claimed' = IF IsClaim(r) THEN claimed \cup {<<asked[r].user, asked[r].module>>}
                           ELSE claimed

\* A claim is marked and booked, a withdrawal is settled.  The bonus of the
\* referrer is only logged, and the receipt of the user is not awaited.
Complete(r) ==
  /\ Goto(r, "done")
  /\ MarkAsClaimed(r)
  /\ Settle(r, "completed")
  /\ UNCHANGED <<codes, asked, loaded>>

LoadAccount(r) ==
  /\ pc[r] = "load"
  /\ Goto(r, "submit")
  /\ loaded' = [loaded EXCEPT ![r] = seq]
  /\ UNCHANGED <<books, asked, ledger, history>>

\* The account cannot be loaded, or the memo does not fit: nothing was sent.
NotSent(r) ==
  /\ pc[r] \in {"load", "submit"}
  /\ Fail(r)
  /\ UNCHANGED <<ledger, history>>

Submit(r) ==
  /\ pc[r] = "submit"
  /\ Goto(r, "wait")
  /\ payment' = [payment EXCEPT ![r] = "sent"]
  /\ UNCHANGED <<books, asked, loaded, seq, history>>

\* Seeded fault: an accepted payment is taken for a confirmed one.
ConfirmedEarly(r) ==
  /\ pc[r] = "wait" /\ payment[r] \in {"sent", "landed", "dead"}
  /\ Complete(r)
  /\ UNCHANGED <<ledger, history>>

Confirmed(r) ==
  /\ pc[r] = "wait" /\ payment[r] = "landed"
  /\ Complete(r)
  /\ UNCHANGED <<ledger, history>>

Refused(r) ==
  /\ pc[r] = "wait" /\ payment[r] = "dead"
  /\ Fail(r)
  /\ UNCHANGED <<ledger, history>>

\* The submission times out, or the payment is not seen in twenty polls; it may
\* have landed all the same, or land later.
TimedOut(r) ==
  /\ pc[r] = "wait" /\ payment[r] \in {"sent", "landed"}
  /\ Cardinality(lost) < MaxLost
  /\ Fail(r)
  /\ lost' = lost \cup {r}
  /\ UNCHANGED <<ledger, raced, erased, restarts>>

\* External: the ledger takes a payment that continues the sequence of the
\* account, and drops it otherwise, or when its thirty seconds are over.
Lands(r) ==
  /\ payment[r] = "sent" /\ loaded[r] = seq
  /\ payment' = [payment EXCEPT ![r] = "landed"]
  /\ seq' = seq + 1
  /\ UNCHANGED <<books, pc, asked, loaded, history>>

Drops(r) ==
  /\ payment[r] = "sent"
  /\ payment' = [payment EXCEPT ![r] = "dead"]
  /\ UNCHANGED <<books, pc, asked, loaded, seq, history>>

\* The maps live in the process: a restart empties them.  What was submitted
\* is on its way.
Restart ==
  /\ restarts < MaxRestarts /\ restarts' = restarts + 1
  /\ codes' = [c \in Code |-> None] /\ claimed' = {}
  /\ book' = [r \in Request |-> "none"]
  /\ erased' = erased \cup { r \in Request : pc[r] # "idle" }
  /\ pc' = [r \in Request |-> IF pc[r] = "idle" THEN "idle" ELSE "done"]
  /\ UNCHANGED <<asked, loaded, ledger, raced, lost>>

-------------------------------------------------------------------------------
Answers(r) == LoadAccount(r) \/ NotSent(r) \/ Submit(r) \/ Confirmed(r)
                \/ Refused(r) \/ TimedOut(r)
Settles(r) == Lands(r) \/ Drops(r)

Starts(r) ==
  /\ \A q \in Request : q < r => pc[q] # "idle"
  /\ \E u \in User :
       \/ \E m \in Module, days \in StreakDays,
             referrer \in {None} \cup { ResolveReferralCode(c) : c \in Code } :
            StartClaim(r, u, m, days, referrer)
       \/ \E amount \in Amounts : StartWithdrawal(r, u, amount)

Next ==
  \/ \E c \in Code, u \in User : RegisterReferralCode(c, u)
  \/ \E r \in Request : Starts(r) \/ Answers(r) \/ Settles(r)
  \/ Restart

Spec == Init /\ [][Next]_vars

-------------------------------------------------------------------------------
(* Properties.                                                              *)

\* No user withdraws, or has reserved for withdrawals under way, more than the
\* rewards booked for that user, in whatever order requests overlap
\* (processWithdrawal).
NeverOverdrawn == \A u \in User : Withdrawn(u) + Pending(u) <= Earned(u)

\* Books and ledger agree: what is completed was paid, and what was paid is
\* completed or about to be, unless the payment was taken for failed on its way
\* or a restart erased the books (the catch of processWithdrawal, sendPayment).
BooksAgree ==
  \A r \in Request :
    /\ book[r] = "completed" => payment[r] = "landed"
    /\ payment[r] = "landed" =>
         book[r] = "completed" \/ pc[r] = "wait" \/ r \in lost \cup erased

\* The reward for a module is paid twice to a user only by claims that
\* overlap, or after an answer or the books were lost (claimReward).
ClaimPaidOnce ==
  \A r, q \in Request :
    (/\ r # q /\ IsClaim(r) /\ payment[r] = "landed" /\ payment[q] = "landed"
     /\ asked[r].user = asked[q].user /\ asked[r].module = asked[q].module)
      => {r, q} \subseteq raced \/ {r, q} \cap (lost \cup erased) # {}
===============================================================================
