-------------------------------- MODULE Learning --------------------------------
(***************************************************************************)
(* What learners do and are rewarded for: starting and completing modules  *)
(* (controllers/module.controller.ts), the batches that a device sends     *)
(* after it was offline (controllers/sync.controller.ts) and referrals     *)
(* (controllers/referral.controller.ts).                                   *)
(*                                                                         *)
(* Every handler reads, decides, and writes in statements of their own,    *)
(* without a transaction: requests may overtake each other in between, and *)
(* a process that dies leaves the statements it has done.  The unique      *)
(* indexes are what remains certain.                                       *)
(***************************************************************************)
EXTENDS Integers, FiniteSets, Sequences

CONSTANTS
  Learner,
  Module,
  Code,        \* the codes that generateUniqueCode may draw
  NoCode,
  Nobody,      \* no referrer
  Client,      \* requests that may be under way together
  Key,         \* idempotency keys
  Event,       \* [Key -> EventType], what a device sends under a key
  Batch,       \* the sequences of keys that a device sends
  MaxDeaths,   \* bound: requests that die, or fail, between two statements
  Scenarios    \* pairs: do requests keep apart; bound: what is asked for then

Absent == -2
COMPLETION_IN_PROGRESS_SCORE == -1
RewardScore == 70
Score == Absent .. 100

\* well: the fields are there and in range; learner: who is signed in.
EventType == [type : {"progress", "completion"}, well : BOOLEAN,
              learner : Learner, module : Module, score : 0 .. 100,
              syncVersion : Nat]

ASSUME LearningAssumption ==
  /\ IsFiniteSet(Client)
  /\ IsFiniteSet(Learner) /\ Learner # {} /\ Module # {}
  /\ NoCode \notin Code
  /\ Nobody \notin Learner
  /\ Event \in [Key -> EventType]
  /\ Batch \subseteq Seq(Key)
  /\ MaxDeaths \in Nat
  /\ Scenarios \subseteq BOOLEAN \X SUBSET {"modules", "sync", "referral"}

VARIABLES
  alone,      \* requests do not overlap
  asked,      \* the parts of the API that are used
  completion, \* [Learner -> [Module -> Score]], score of the completions row
  reward,     \* [Learner -> [Module -> Nat]], reward rows in transactions
  event,      \* [Key -> status of its sync_events row, or "none"]
  code,       \* [Learner -> Code or NoCode], referral_codes
  referrer,   \* [Learner -> Learner or Nobody], referrals by referree
  bonusPaid,  \* [Learner -> BOOLEAN]
  bonus,      \* [Learner -> Nat], referral_reward rows in transactions
  pc,         \* [Client -> Pc]
  req,        \* [Client -> Request], its arguments and what it has read
  late,       \* history: [Learner -> Nat], writes whose reads were outdated
  deaths      \* history: requests that died or failed so far

learned == <<completion, reward>>
referrals == <<code, referrer, bonusPaid, bonus>>
store == <<learned, event, referrals>>
history == <<late, deaths>>
vars == <<alone, asked, store, pc, req, history>>

-------------------------------------------------------------------------------
EventStatus == {"none", "applied", "skipped"}
Pc == {"idle", "start", "complete", "reward", "sync", "read", "write", "record",
       "skip", "draw", "code", "apply", "refer", "bonus", "count", "pay", "book"}
Request == [learner : Learner, module : Module, score : Score,
            code : Code \cup {NoCode}, batch : Seq(Key)]
NoRequest == [learner |-> CHOOSE l \in Learner : TRUE,
              module |-> CHOOSE m \in Module : TRUE,
              score |-> Absent, code |-> NoCode, batch |-> <<>>]

TypeOK ==
  /\ alone \in BOOLEAN /\ asked \in SUBSET {"modules", "sync", "referral"}
  /\ completion \in [Learner -> [Module -> Score]]
  /\ reward \in [Learner -> [Module -> Nat]]
  /\ event \in [Key -> EventStatus]
  /\ code \in [Learner -> Code \cup {NoCode}]
  /\ referrer \in [Learner -> Learner \cup {Nobody}]
  /\ bonusPaid \in [Learner -> BOOLEAN] /\ bonus \in [Learner -> Nat]
  /\ pc \in [Client -> Pc] /\ req \in [Client -> Request]
  /\ late \in [Learner -> Nat] /\ deaths \in Nat

Init ==
  /\ \E s \in Scenarios : alone = s[1] /\ asked = s[2]
  /\ completion = [l \in Learner |-> [m \in Module |-> Absent]]
  /\ reward = [l \in Learner |-> [m \in Module |-> 0]]
  /\ event = [k \in Key |-> "none"]
  /\ code = [l \in Learner |-> NoCode]
  /\ referrer = [l \in Learner |-> Nobody]
  /\ bonusPaid = [l \in Learner |-> FALSE] /\ bonus = [l \in Learner |-> 0]
  /\ pc = [c \in Client |-> "idle"] /\ req = [c \in Client |-> NoRequest]
  /\ late = [l \in Learner |-> 0] /\ deaths = 0

Goto(c, l) == pc' = [pc EXCEPT ![c] = l] /\ UNCHANGED req
Done(c) == /\ pc' = [pc EXCEPT ![c] = "idle"]
           /\ req' = [req EXCEPT ![c] = NoRequest]

\* A request of a part of the API comes in.
Begin(c, part, r, l) ==
  /\ pc[c] = "idle"
  /\ part \in asked
  /\ alone => \A d \in Client : pc[d] = "idle"
  /\ pc' = [pc EXCEPT ![c] = l]
  /\ req' = [req EXCEPT ![c] = r]

L(c) == req[c].learner
M(c) == req[c].module
Own(c) == completion[L(c)][M(c)]
SetScore(c, s) == completion' = [completion EXCEPT ![L(c)][M(c)] = s]
\* The row is no longer as the request has read it.
Outdated(c, now) == late' = [late EXCEPT ![L(c)] = @ + (IF now THEN 1 ELSE 0)]

-------------------------------------------------------------------------------
(* Modules.  A request for a module that does not exist ends at once.       *)

\* startModule() has found no completion.
StartModule(c) ==
  \E l \in Learner, m \in Module :
    /\ completion[l][m] = Absent
    /\ Begin(c, "modules", [NoRequest EXCEPT !.learner = l, !.module = m], "start")
    /\ UNCHANGED <<store, late>>

\* Its insert; the unique index refuses a second one.
CreateCompletion(c) ==
  /\ pc[c] = "start"
  /\ IF Own(c) = Absent THEN SetScore(c, COMPLETION_IN_PROGRESS_SCORE)
     ELSE UNCHANGED completion
  /\ Done(c)
  /\ UNCHANGED <<reward, event, referrals, late>>

\* Seeded fault: a module may be completed again.
CompleteAgain(c) ==
  \E l \in Learner, m \in Module, s \in {0, 100} :
    /\ completion[l][m] # Absent
    /\ Begin(c, "modules",
             [NoRequest EXCEPT !.learner = l, !.module = m, !.score = s], "complete")
    /\ UNCHANGED <<store, late>>

\* completeModule() has found one in progress; there is no key of answers, so
\* that the score is 100, or 0 without answers.
CompleteModule(c) ==
  \E l \in Learner, m \in Module, s \in {0, 100} :
    /\ completion[l][m] = COMPLETION_IN_PROGRESS_SCORE
    /\ Begin(c, "modules",
             [NoRequest EXCEPT !.learner = l, !.module = m, !.score = s], "complete")
    /\ UNCHANGED <<store, late>>

\* Its update, by the key of the row.
UpdateCompletion(c) ==
  /\ pc[c] = "complete"
  /\ SetScore(c, req[c].score)
  /\ Outdated(c, Own(c) >= 0)
  /\ IF req[c].score >= RewardScore THEN Goto(c, "reward") ELSE Done(c)
  /\ UNCHANGED <<reward, event, referrals>>

CreateReward(c) ==
  /\ pc[c] = "reward"
  /\ reward' = [reward EXCEPT ![L(c)][M(c)] = @ + 1]
  /\ Done(c)
  /\ UNCHANGED <<completion, event, referrals, late>>

-------------------------------------------------------------------------------
(* Batches.                                                                 *)

Sync(c) ==
  \E b \in Batch :
    /\ Begin(c, "sync", [NoRequest EXCEPT !.batch = b], "sync")
    /\ UNCHANGED <<store, late>>

Now(c) == Head(req[c].batch)
NextEvent(c) == /\ pc' = [pc EXCEPT ![c] = "sync"]
                /\ req' = [req EXCEPT ![c] = [NoRequest EXCEPT !.batch = Tail(req[c].batch)]]

\* An event that is not well formed is rejected, and one whose key is known is
\* skipped; neither leaves a row.
TakeEvent(c) ==
  /\ pc[c] = "sync"
  /\ IF req[c].batch = <<>> THEN Done(c)
     ELSE IF ~Event[Now(c)].well \/ event[Now(c)] # "none" THEN NextEvent(c)
     ELSE /\ pc' = [pc EXCEPT ![c] = "read"]
          /\ req' = [req EXCEPT ![c].learner = Event[Now(c)].learner,
                                ![c].module = Event[Now(c)].module]
  /\ UNCHANGED <<store, late>>

\* Progress: the newest version that is stored decides.
NewerStored(k) ==
  \E j \in Key : /\ event[j] # "none"
                 /\ Event[j].type = "progress" /\ Event[k].type = "progress"
                 /\ Event[j].learner = Event[k].learner
                 /\ Event[j].module = Event[k].module
                 /\ Event[j].syncVersion > Event[k].syncVersion

ReadProgress(c) ==
  /\ pc[c] = "read"
  /\ Event[Now(c)].type = "progress"
  /\ IF NewerStored(Now(c)) THEN NextEvent(c) ELSE Goto(c, "record")
  /\ UNCHANGED <<store, late>>

\* A completion: the score of the row is read, an unfinished one included.
ReadCompletion(c) ==
  /\ pc[c] = "read"
  /\ Event[Now(c)].type = "completion"
  /\ pc' = [pc EXCEPT ![c] = IF Event[Now(c)].score <= Own(c) THEN "skip" ELSE "write"]
  /\ req' = [req EXCEPT ![c].score = Own(c)]
  /\ UNCHANGED <<store, late>>

\* Seeded fault: the update of a row that is there is left out.
InsertCompletion(c) ==
  /\ pc[c] = "write"
  /\ IF Own(c) # Absent THEN UNCHANGED completion ELSE SetScore(c, Event[Now(c)].score)
  /\ Goto(c, "record")
  /\ UNCHANGED <<reward, event, referrals, late>>

\* Update or insert, as it was read; the insert fails if a row has come up,
\* and with it the whole request.
WriteCompletion(c) ==
  /\ pc[c] = "write"
  /\ IF req[c].score = Absent /\ Own(c) # Absent
     THEN Done(c) /\ UNCHANGED completion
     ELSE SetScore(c, Event[Now(c)].score) /\ Goto(c, "record")
  /\ Outdated(c, Own(c) # req[c].score)
  /\ UNCHANGED <<reward, event, referrals>>

\* The key is stored last; if it is there by now, the request fails.
RecordEvent(c) ==
  /\ pc[c] \in {"record", "skip"}
  /\ IF event[Now(c)] = "none"
     THEN /\ event' = [event EXCEPT ![Now(c)] =
                         IF pc[c] = "record" THEN "applied" ELSE "skipped"]
          /\ NextEvent(c)
     ELSE Done(c) /\ UNCHANGED event
  /\ UNCHANGED <<learned, referrals, late>>

-------------------------------------------------------------------------------
(* Referrals.                                                               *)

\* generateCode() has found none of the learner's.
GenerateCode(c) ==
  \E l \in Learner :
    /\ code[l] = NoCode
    /\ Begin(c, "referral", [NoRequest EXCEPT !.learner = l], "draw")
    /\ UNCHANGED <<store, late>>

\* It draws until a code is not there.
DrawCode(c) ==
  /\ pc[c] = "draw"
  /\ \E x \in Code \ { code[l] : l \in Learner } :
       /\ pc' = [pc EXCEPT ![c] = "code"]
       /\ req' = [req EXCEPT ![c].code = x]
  /\ UNCHANGED <<store, late>>

\* A code and a learner have one row at most.
CreateCode(c) ==
  /\ pc[c] = "code"
  /\ IF code[L(c)] = NoCode /\ \A l \in Learner : code[l] # req[c].code
     THEN code' = [code EXCEPT ![L(c)] = req[c].code] ELSE UNCHANGED code
  /\ Done(c)
  /\ UNCHANGED <<learned, event, referrer, bonusPaid, bonus, late>>

\* applyCode(): the code is there and somebody else's.
ApplyCode(c) ==
  \E l \in Learner, k \in Learner :
    /\ k # l /\ code[k] # NoCode
    /\ Begin(c, "referral", [NoRequest EXCEPT !.learner = l, !.code = code[k]], "apply")
    /\ UNCHANGED <<store, late>>

\* Both reads look for a referral of the learner.
CheckReferral(c) ==
  /\ pc[c] = "apply"
  /\ IF referrer[L(c)] # Nobody THEN Done(c) ELSE Goto(c, "refer")
  /\ UNCHANGED <<store, late>>

\* A learner is referred once.
CreateReferral(c) ==
  /\ pc[c] = "refer"
  /\ IF referrer[L(c)] = Nobody
     THEN \E r \in Learner : /\ code[r] = req[c].code
                             /\ referrer' = [referrer EXCEPT ![L(c)] = r]
     ELSE UNCHANGED referrer
  /\ Done(c)
  /\ UNCHANGED <<learned, event, code, bonusPaid, bonus, late>>

\* processReferralBonus(), which no handler calls yet: an unpaid referral of
\* a learner who has started a module at least.
StartBonus(c) ==
  \E l \in Learner :
    /\ referrer[l] # Nobody /\ ~bonusPaid[l]
    /\ Begin(c, "referral", [NoRequest EXCEPT !.learner = l], "count")
    /\ UNCHANGED <<store, late>>

CountCompletions(c) ==
  /\ pc[c] = "count"
  /\ IF \A m \in Module : completion[L(c)][m] = Absent THEN Done(c) ELSE Goto(c, "pay")
  /\ UNCHANGED <<store, late>>

MarkPaid(c) ==
  /\ pc[c] = "pay"
  /\ bonusPaid' = [bonusPaid EXCEPT ![L(c)] = TRUE]
  /\ Outdated(c, bonusPaid[L(c)])
  /\ Goto(c, "book")
  /\ UNCHANGED <<learned, event, code, referrer, bonus>>

\* Seeded fault: the bonus goes to the learner who was referred.
BookReferree(c) ==
  /\ pc[c] = "book"
  /\ bonus' = [bonus EXCEPT ![L(c)] = @ + 1]
  /\ Done(c)
  /\ UNCHANGED <<learned, event, code, referrer, bonusPaid, late>>

BookBonus(c) ==
  /\ pc[c] = "book"
  /\ bonus' = [bonus EXCEPT ![referrer[L(c)]] = @ + 1]
  /\ Done(c)
  /\ UNCHANGED <<learned, event, code, referrer, bonusPaid, late>>

-------------------------------------------------------------------------------
\* A request dies, or a statement of it fails.
Die(c) ==
  /\ pc[c] # "idle"
  /\ deaths < MaxDeaths
  /\ deaths' = deaths + 1
  /\ Done(c)
  /\ UNCHANGED <<store, late>>

Step(c) ==
  \/ StartModule(c) \/ CreateCompletion(c)
  \/ CompleteModule(c) \/ UpdateCompletion(c) \/ CreateReward(c)
  \/ Sync(c) \/ TakeEvent(c) \/ ReadProgress(c) \/ ReadCompletion(c)
  \/ WriteCompletion(c) \/ RecordEvent(c)
  \/ GenerateCode(c) \/ DrawCode(c) \/ CreateCode(c)
  \/ ApplyCode(c) \/ CheckReferral(c) \/ CreateReferral(c)
  \/ StartBonus(c) \/ CountCompletions(c) \/ MarkPaid(c) \/ BookBonus(c)

Next ==
  /\ \E c \in Client : (Step(c) /\ UNCHANGED deaths) \/ Die(c)
  /\ UNCHANGED <<alone, asked>>

Spec == Init /\ [][Next]_vars

-------------------------------------------------------------------------------
(* A module is rewarded once: every further reward takes a completion that  *)
(* overtook another one, and none is booked before the score that earns it  *)
(* is stored, nor outlives it (completeModule).                             *)
RewardedOnce ==
  \A l \in Learner, m \in Module :
    /\ reward[l][m] <= 1 + late[l]
    /\ alone => late[l] = 0
    /\ reward[l][m] > 0 => completion[l][m] >= 0

(* What a device is told to forget is kept: a key that is stored as applied *)
(* or skipped stands for a score that was reached, after every retry and    *)
(* every request that died half-way (syncCompletions).                      *)
KeptScores ==
  alone => \A k \in Key :
    event[k] # "none" /\ Event[k].type = "completion" =>
      completion[Event[k].learner][Event[k].module] >= Event[k].score

\* The referrals of a learner that were paid.
PaidFor(r) == { l \in Learner : referrer[l] = r /\ bonusPaid[l] }
(* Bonuses and paid referrals agree, up to requests that died between the   *)
(* two writes, are between them, or overtook another (processReferralBonus).*)
BonusesAgree ==
  \A r \in Learner :
    LET b == Cardinality({ c \in Client : pc[c] = "book" /\ referrer[L(c)] = r })
    IN /\ Cardinality(PaidFor(r)) <= bonus[r] + deaths + b
       /\ alone => bonus[r] + b <= Cardinality(PaidFor(r))
===============================================================================
