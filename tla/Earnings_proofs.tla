----------------------------- MODULE Earnings_proofs ---------------------------
(***************************************************************************)
(* What learners earn: Learning, for any number of learners, modules,      *)
(* requests and keys, and Rewards (Rew), for any number of users, of       *)
(* claims and withdrawals, and of faults.                                  *)
(*                                                                         *)
(* The invariant of Learning (LearnInv) counts: the rewards of a module    *)
(* with the requests about to book another are bounded by the completions  *)
(* that were overtaken, the bonuses of a referrer with the requests about  *)
(* to book one by the referrals paid.  Fits says what a request has read   *)
(* and others cannot undo, and all of it while requests do not overlap.    *)
(***************************************************************************)
EXTENDS Learning, LearnerRewards, FiniteSetTheorems, WellFoundedInduction, TLAPS

-------------------------------------------------------------------------------
(* Requests and what steps do to them. *)

LEMMA Blank ==
  /\ NoRequest \in Request
  /\ NoRequest.score = Absent /\ NoRequest.code = NoCode /\ NoRequest.batch = <<>>
  <1>1. (CHOOSE l \in Learner : TRUE) \in Learner /\ (CHOOSE m \in Module : TRUE) \in Module
    BY LearningAssumption
  <1>2. Absent \in Score /\ <<>> \in Seq(Key)
    BY DEF Absent, Score
  <1>3. QED
    BY <1>1, <1>2 DEF NoRequest, Request

\* The answers to a module, as a request.
AnswerTo(l, m, s) == [NoRequest EXCEPT !.learner = l, !.module = m, !.score = s]

LEMMA Answered ==
  ASSUME NEW l \in Learner, NEW m \in Module, NEW s \in Score
  PROVE  /\ AnswerTo(l, m, s) \in Request /\ AnswerTo(l, m, s).learner = l
         /\ AnswerTo(l, m, s).module = m /\ AnswerTo(l, m, s).score = s
  <1>1. AnswerTo(l, m, s) \in Request
    BY Blank DEF AnswerTo, NoRequest, Request
  <1>2. QED
    BY <1>1 DEF AnswerTo, NoRequest

LEMMA Scores == \A x \in Score : x \in Int /\ x >= Absent
  BY DEF Score, Absent

LEMMA Filled ==
  ASSUME NEW l \in Learner, NEW m \in Module, NEW s \in Score, NEW x \in Code \cup {NoCode},
         NEW b \in Seq(Key)
  PROVE  /\ LET q == [NoRequest EXCEPT !.learner = l, !.module = m, !.score = s]
            IN q \in Request /\ q.learner = l /\ q.module = m /\ q.score = s
         /\ LET q == [NoRequest EXCEPT !.learner = l, !.module = m]
            IN q \in Request /\ q.learner = l /\ q.module = m
         /\ LET q == [NoRequest EXCEPT !.learner = l, !.code = x]
            IN q \in Request /\ q.learner = l /\ q.code = x
         /\ LET q == [NoRequest EXCEPT !.learner = l]
            IN q \in Request /\ q.learner = l
         /\ LET q == [NoRequest EXCEPT !.batch = b]
            IN q \in Request /\ q.batch = b
  BY Blank DEF NoRequest, Request

\* A request that has learned something more.
LEMMA Refilled ==
  ASSUME NEW r \in Request, NEW l \in Learner, NEW m \in Module, NEW s \in Score,
         NEW x \in Code \cup {NoCode}
  PROVE  /\ LET q == [r EXCEPT !.learner = l, !.module = m]
            IN q \in Request /\ q.learner = l /\ q.module = m /\ q.batch = r.batch
         /\ LET q == [r EXCEPT !.score = s]
            IN q \in Request /\ q.score = s /\ q.learner = r.learner /\ q.module = r.module
                 /\ q.batch = r.batch
         /\ LET q == [r EXCEPT !.code = x]
            IN q \in Request /\ q.code = x /\ q.learner = r.learner
  BY DEF Request

\* The fields of a request.
LEMMA RequestFields ==
  ASSUME TypeOK, NEW c \in Client
  PROVE  /\ req[c] \in Request /\ L(c) \in Learner /\ M(c) \in Module
         /\ req[c].score \in Score /\ req[c].batch \in Seq(Key)
         /\ Own(c) \in Score
         /\ req[c].batch # <<>> => /\ Now(c) \in Key
                                   /\ Tail(req[c].batch) \in Seq(Key)
                                   /\ Event[Now(c)] \in EventType
  <1>1. req[c] \in Request
    BY DEF TypeOK
  <1>2. L(c) \in Learner /\ M(c) \in Module /\ req[c].score \in Score /\ req[c].batch \in Seq(Key)
    BY <1>1 DEF Request, L, M
  <1>3. Own(c) \in Score
    BY <1>2 DEF TypeOK, Own
  <1>4. ASSUME req[c].batch # <<>>
        PROVE  Now(c) \in Key /\ Tail(req[c].batch) \in Seq(Key)
    BY <1>2, <1>4 DEF Now
  <1>5. QED
    BY <1>1, <1>2, <1>3, <1>4, LearningAssumption

\* The fields of an event.
LEMMA EventFields ==
  ASSUME NEW e \in EventType
  PROVE  /\ e.learner \in Learner /\ e.module \in Module /\ e.score \in 0 .. 100
         /\ e.type \in {"progress", "completion"}
  BY DEF EventType

\* A step of one request.
Others(c) == \A d \in Client : d # c => pc'[d] = pc[d] /\ req'[d] = req[d]

LEMMA Goes ==
  ASSUME TypeOK, NEW c \in Client, NEW l \in Pc, Goto(c, l)
  PROVE  /\ Others(c) /\ pc'[c] = l /\ req'[c] = req[c]
         /\ pc' \in [Client -> Pc] /\ req' \in [Client -> Request]
  BY DEF Goto, Others, TypeOK

LEMMA Ends ==
  ASSUME TypeOK, NEW c \in Client, Done(c)
  PROVE  /\ Others(c) /\ pc'[c] = "idle" /\ req'[c] = NoRequest
         /\ pc' \in [Client -> Pc] /\ req' \in [Client -> Request]
  BY Blank DEF Done, Others, TypeOK, Pc

LEMMA Begins ==
  ASSUME TypeOK, NEW c \in Client, NEW part, NEW r \in Request, NEW l \in Pc, Begin(c, part, r, l)
  PROVE  /\ Others(c) /\ pc[c] = "idle" /\ pc'[c] = l /\ req'[c] = r
         /\ alone => \A d \in Client : pc[d] = "idle"
         /\ pc' \in [Client -> Pc] /\ req' \in [Client -> Request]
  BY DEF Begin, Others, TypeOK

LEMMA GoesOn ==
  ASSUME TypeOK, NEW c \in Client, NextEvent(c), req[c].batch # <<>>
  PROVE  /\ Others(c) /\ pc'[c] = "sync" /\ req'[c] \in Request
         /\ pc' \in [Client -> Pc] /\ req' \in [Client -> Request]
  <1>1. Tail(req[c].batch) \in Seq(Key)
    BY RequestFields
  <1> DEFINE q == [NoRequest EXCEPT !.batch = Tail(req[c].batch)]
  <1>2. q \in Request
    <2>1. \A l \in Learner, m \in Module : TRUE
      OBVIOUS
    <2>2. PICK l \in Learner, m \in Module : TRUE
      BY LearningAssumption
    <2>3. Absent \in Score
      BY DEF Absent, Score
    <2>4. QED
      BY <1>1, <2>2, <2>3, Filled
  <1> HIDE DEF q
  <1>3. pc' = [pc EXCEPT ![c] = "sync"] /\ req' = [req EXCEPT ![c] = q]
    BY DEF NextEvent, q
  <1>4. QED
    BY <1>2, <1>3 DEF Others, TypeOK, Pc

\* A score that is set.
LEMMA Sets ==
  ASSUME TypeOK, NEW c \in Client, NEW s \in Score, SetScore(c, s)
  PROVE  /\ completion' \in [Learner -> [Module -> Score]]
         /\ \A l \in Learner, m \in Module :
              completion'[l][m] = IF l = L(c) /\ m = M(c) THEN s ELSE completion[l][m]
  <1>1. L(c) \in Learner /\ M(c) \in Module
    BY RequestFields
  <1>2. QED
    BY <1>1 DEF SetScore, TypeOK

-------------------------------------------------------------------------------
(* The invariant. *)

\* Requests that keep apart are one at a time.
Serial == alone => \A c \in Client, d \in Client :
                     pc[c] # "idle" /\ pc[d] # "idle" => c = d

\* The key that a request is at.
AtKey(c) == pc[c] \in {"read", "write", "record", "skip"}

\* What a request has found out, as far as others cannot undo it.
Found(c) ==
  /\ pc[c] = "complete" => req[c].score >= 0
  /\ pc[c] = "reward" => Own(c) >= 0
  /\ AtKey(c) => /\ req[c].batch # <<>>
                 /\ L(c) = Event[Now(c)].learner /\ M(c) = Event[Now(c)].module
  /\ pc[c] \in {"count", "pay", "book"} => referrer[L(c)] # Nobody

\* What it still finds, if no other one comes in between.
StillFinds(c) ==
  /\ pc[c] = "complete" => Own(c) = COMPLETION_IN_PROGRESS_SCORE
  /\ pc[c] = "write" => Own(c) = req[c].score /\ Own(c) < Event[Now(c)].score
  /\ pc[c] \in {"record", "skip"} /\ Event[Now(c)].type = "completion" =>
       Own(c) >= Event[Now(c)].score
  /\ pc[c] \in {"count", "pay"} => ~bonusPaid[L(c)]

Fits(c) == Found(c) /\ (alone => StillFinds(c))

Referred == \A l \in Learner : bonusPaid[l] => referrer[l] # Nobody

\* The rewards and the bonuses that are about to be booked.
Rewarding(l, m) == { c \in Client : pc[c] = "reward" /\ L(c) = l /\ M(c) = m }
Booking(r) == { c \in Client : pc[c] = "book" /\ referrer[L(c)] = r }

\* A reward takes a first completion, or one that overtook another one.
Counted ==
  /\ \A l \in Learner, m \in Module :
       /\ reward[l][m] + Cardinality(Rewarding(l, m))
            <= late[l] + (IF completion[l][m] >= 0 THEN 1 ELSE 0)
       /\ reward[l][m] > 0 => completion[l][m] >= 0
  /\ alone => \A l \in Learner : late[l] = 0

LearnInv == TypeOK /\ Serial /\ (\A c \in Client : Fits(c)) /\ Referred /\ Counted
              /\ KeptScores /\ BonusesAgree

\* Counting requests and learners: one more, one less, a part.
LEMMA Counts ==
  ASSUME NEW S, IsFiniteSet(S)
  PROVE  /\ Cardinality(S) \in Nat
         /\ S = {} => Cardinality(S) = 0
         /\ \A T \in SUBSET S : Cardinality(T) \in Nat /\ Cardinality(T) <= Cardinality(S)
         /\ \A x : x \notin S => Cardinality(S \cup {x}) = Cardinality(S) + 1
         /\ \A x \in S : Cardinality(S \ {x}) = Cardinality(S) - 1
  <1>1. Cardinality(S) \in Nat
    BY FS_CardinalityType
  <1>2. S = {} => Cardinality(S) = 0
    BY FS_EmptySet
  <1>3. \A T \in SUBSET S : IsFiniteSet(T) /\ Cardinality(T) <= Cardinality(S)
    BY FS_Subset
  <1>4. \A T \in SUBSET S : Cardinality(T) \in Nat
    BY <1>3, FS_CardinalityType
  <1>5. \A x : x \notin S => Cardinality(S \cup {x}) = Cardinality(S) + 1
    BY FS_AddElement
  <1>6. \A x \in S : Cardinality(S \ {x}) = Cardinality(S) - 1
    BY FS_RemoveElement
  <1>7. QED
    BY <1>1, <1>2, <1>3, <1>4, <1>5, <1>6

\* The sets that are counted are finite.
LEMMA Finite ==
  /\ \A l \in Learner, m \in Module : IsFiniteSet(Rewarding(l, m))
  /\ \A r \in Learner : IsFiniteSet(Booking(r)) /\ IsFiniteSet(PaidFor(r))
  <1>1. \A S \in SUBSET Client : IsFiniteSet(S)
    BY LearningAssumption, FS_Subset
  <1>2. \A S \in SUBSET Learner : IsFiniteSet(S)
    BY LearningAssumption, FS_Subset
  <1>3. QED
    BY <1>1, <1>2 DEF Rewarding, Booking, PaidFor

LEMMA LearnInit == Init => LearnInv
  <1> SUFFICES ASSUME Init PROVE LearnInv
    OBVIOUS
  <1>1. TypeOK
    BY Blank, LearningAssumption DEF Init, TypeOK, Score, Absent, EventStatus, Pc
  <1>2. Serial /\ (\A c \in Client : Fits(c)) /\ Referred
    BY DEF Init, Serial, Fits, Found, StillFinds, AtKey, Referred
  <1>3. Counted
    <2>1. \A l \in Learner, m \in Module : Rewarding(l, m) = {}
      BY DEF Init, Rewarding
    <2>2. Cardinality({}) = 0
      BY FS_EmptySet
    <2>3. \A l \in Learner : late[l] = 0
      BY DEF Init
    <2>4. \A l \in Learner, m \in Module : reward[l][m] = 0 /\ completion[l][m] = Absent
      BY DEF Init
    <2>5. QED
      BY <2>1, <2>2, <2>3, <2>4 DEF Counted, Absent
  <1>4. KeptScores
    BY DEF Init, KeptScores
  <1>5. BonusesAgree
    <2>1. \A r \in Learner : Booking(r) = {} /\ PaidFor(r) = {}
      BY DEF Init, Booking, PaidFor
    <2>2. Cardinality({}) = 0
      BY FS_EmptySet
    <2>3. \A r \in Learner : bonus[r] = 0
      BY DEF Init
    <2>4. deaths = 0
      BY DEF Init
    <2>5. QED
      BY <2>1, <2>2, <2>3, <2>4 DEF BonusesAgree, Booking
  <1>6. QED
    BY <1>1, <1>2, <1>3, <1>4, <1>5 DEF LearnInv

\* The other requests keep what they have found, if what is stored stays.
LEMMA OthersFit ==
  ASSUME LearnInv, NEW c \in Client, Others(c), alone' = alone,
         pc[c] = "idle" => (alone => \A d \in Client : pc[d] = "idle"),
         \A l \in Learner, m \in Module : completion[l][m] >= 0 => completion'[l][m] >= 0,
         \A l \in Learner : referrer[l] # Nobody => referrer'[l] # Nobody,
         Fits(c)'
  PROVE  Serial' /\ \A d \in Client : Fits(d)'
  <1>1. Serial'
    BY DEF LearnInv, Serial, Others
  <1>2. ASSUME NEW d \in Client, d # c PROVE Found(d)'
    <2>1. L(d) \in Learner /\ M(d) \in Module
      BY RequestFields DEF LearnInv
    <2>2. pc'[d] = pc[d] /\ req'[d] = req[d]
      BY <1>2 DEF Others
    <2>3. Found(d)
      BY DEF LearnInv, Fits
    <2>4. QED
      BY <2>1, <2>2, <2>3 DEF Found, AtKey, Own, L, M, Now
  <1>3. ASSUME NEW d \in Client, d # c, alone' PROVE StillFinds(d)'
    <2>1. pc'[d] = "idle"
      BY <1>3 DEF LearnInv, Serial, Others
    <2>2. QED
      BY <2>1 DEF StillFinds
  <1>4. QED
    BY <1>1, <1>2, <1>3 DEF Fits

\* A step that stores nothing.
LEMMA Quiet ==
  ASSUME LearnInv, NEW c \in Client, Others(c), UNCHANGED <<alone, asked>>,
         pc' \in [Client -> Pc], req' \in [Client -> Request],
         code' \in [Learner -> Code \cup {NoCode}],
         pc[c] = "idle" => (alone => \A d \in Client : pc[d] = "idle"),
         UNCHANGED <<learned, event, referrer, bonusPaid, bonus, late>>,
         deaths' = deaths + (IF pc[c] = "book" THEN 1 ELSE 0) \/
           (deaths' \in {deaths, deaths + 1} /\ pc[c] # "book"),
         pc'[c] \notin {"reward", "book"}, Fits(c)'
  PROVE  LearnInv'
  <1>1. completion' = completion /\ reward' = reward
    BY DEF learned
  <1>0. TypeOK'
    <2>1. deaths' \in Nat
      BY DEF LearnInv, TypeOK
    <2>2. QED
      BY <1>1, <2>1 DEF LearnInv, TypeOK
  <1>2. Serial' /\ \A d \in Client : Fits(d)'
    BY <1>1, OthersFit
  <1>3. Referred'
    BY DEF LearnInv, Referred
  <1>4. Counted'
    <2>1. \A l \in Learner, m \in Module : Rewarding(l, m)' \in SUBSET Rewarding(l, m)
      BY DEF Rewarding, Others, L, M
    <2>2. \A l \in Learner, m \in Module :
            /\ Cardinality(Rewarding(l, m)') \in Nat /\ Cardinality(Rewarding(l, m)) \in Nat
            /\ Cardinality(Rewarding(l, m)') <= Cardinality(Rewarding(l, m))
      BY <2>1, Finite, Counts
    <2>3. \A l \in Learner, m \in Module : reward[l][m] \in Nat /\ late[l] \in Nat
      BY DEF LearnInv, TypeOK
    <2>4. QED
      BY <1>1, <2>2, <2>3 DEF LearnInv, Counted
  <1>5. KeptScores'
    BY <1>1 DEF LearnInv, KeptScores
  <1>6. BonusesAgree'
    <2> SUFFICES ASSUME NEW r \in Learner
                 PROVE  /\ Cardinality(PaidFor(r)') <=
                             bonus[r] + deaths' + Cardinality(Booking(r)')
                        /\ alone => bonus[r] + Cardinality(Booking(r)')
                                      <= Cardinality(PaidFor(r)')
      BY DEF BonusesAgree, Booking
    <2>1. /\ Cardinality(PaidFor(r)) <= bonus[r] + deaths + Cardinality(Booking(r))
          /\ alone => bonus[r] + Cardinality(Booking(r)) <= Cardinality(PaidFor(r))
      BY DEF LearnInv, BonusesAgree, Booking
    <2>2. PaidFor(r)' = PaidFor(r)
      BY DEF PaidFor
    <2>3. Booking(r)' = Booking(r) \ {c}
      BY DEF Booking, Others, L
    <2>4. IsFiniteSet(Booking(r)) /\ IsFiniteSet(PaidFor(r))
      BY Finite
    <2>5. /\ bonus[r] \in Nat /\ deaths \in Nat /\ Cardinality(PaidFor(r)) \in Nat
          /\ Cardinality(Booking(r)) \in Nat
      BY <2>4, Counts DEF LearnInv, TypeOK
    <2>6. CASE c \in Booking(r)
      <3>1. Cardinality(Booking(r)') = Cardinality(Booking(r)) - 1
        BY <2>3, <2>4, <2>6, Counts
      <3>2. deaths' = deaths + 1
        BY <2>6 DEF Booking
      <3>3. QED
        BY <2>1, <2>2, <2>5, <3>1, <3>2
    <2>7. CASE c \notin Booking(r)
      <3>1. Booking(r)' = Booking(r)
        BY <2>3, <2>7
      <3>2. deaths' >= deaths /\ deaths' \in Nat
        BY <2>5
      <3>3. QED
        BY <2>1, <2>2, <2>5, <3>1, <3>2
    <2>8. QED
      BY <2>6, <2>7
  <1>7. QED
    BY <1>0, <1>2, <1>3, <1>4, <1>5, <1>6 DEF LearnInv

-------------------------------------------------------------------------------
(* The steps that store nothing but codes. *)

\* A request that comes in.
LEMMA BeginKeeps ==
  ASSUME LearnInv, UNCHANGED <<alone, asked, deaths, store, late>>, NEW c \in Client,
         NEW part, NEW r \in Request, NEW l \in Pc \ {"reward", "book"},
         Begin(c, part, r, l), Fits(c)'
  PROVE  LearnInv'
  <1>1. /\ Others(c) /\ pc[c] = "idle" /\ pc'[c] = l /\ req'[c] = r
        /\ alone => \A d \in Client : pc[d] = "idle"
        /\ pc' \in [Client -> Pc] /\ req' \in [Client -> Request]
    BY Begins DEF LearnInv
  <1>2. UNCHANGED <<learned, event, referrer, bonusPaid, bonus, late, code>>
    BY DEF store, referrals
  <1>3. deaths' \in {deaths, deaths + 1} /\ pc[c] # "book" /\ pc'[c] \notin {"reward", "book"}
    BY <1>1
  <1>4. code' \in [Learner -> Code \cup {NoCode}]
    BY <1>2 DEF LearnInv, TypeOK
  <1>5. QED
    BY <1>1, <1>2, <1>3, <1>4, Quiet

\* A request that goes on, or ends.
LEMMA GoKeeps ==
  ASSUME LearnInv, UNCHANGED <<alone, asked, learned, event, referrer, bonusPaid, bonus, late>>,
         code' \in [Learner -> Code \cup {NoCode}], deaths' = deaths,
         NEW c \in Client, pc[c] \notin {"idle", "book"}, Others(c),
         pc' \in [Client -> Pc], req' \in [Client -> Request],
         pc'[c] \notin {"reward", "book"}, Fits(c)'
  PROVE  LearnInv'
  <1>1. deaths' \in {deaths, deaths + 1} /\ pc[c] # "book"
    OBVIOUS
  <1>2. UNCHANGED <<learned, event, referrer, bonusPaid, bonus, late>> /\ UNCHANGED <<alone, asked>>
    OBVIOUS
  <1>3. QED
    BY <1>1, <1>2, Quiet

\* What is at rest, or only about to read, has found nothing.
LEMMA Free ==
  ASSUME NEW c \in Client,
         pc[c] \in {"idle", "start", "sync", "draw", "code", "apply", "refer", "bonus"}
  PROVE  Fits(c)
  BY DEF Fits, Found, StillFinds, AtKey

\* A place, for short.
LEMMA Places ==
  /\ \A x \in {"idle", "start", "complete", "sync", "read", "write", "record", "skip",
                "draw", "code", "apply", "refer", "bonus", "count", "pay"} :
       x \in Pc \ {"reward", "book"}
  /\ {"reward", "book"} \subseteq Pc
  /\ Absent \in Score /\ {0, 100, COMPLETION_IN_PROGRESS_SCORE} \subseteq Score
  /\ Absent < 0 /\ COMPLETION_IN_PROGRESS_SCORE < 0 /\ \A x \in 0 .. 100 : x \in Score /\ x >= 0
  BY DEF Pc, Absent, Score, COMPLETION_IN_PROGRESS_SCORE

\* Modules: startModule and completeModule come in.
LEMMA ModulesBegin ==
  ASSUME LearnInv, UNCHANGED <<alone, asked, deaths>>, NEW c \in Client,
         StartModule(c) \/ CompleteModule(c)
  PROVE  LearnInv'
  <1>1. CASE StartModule(c)
    <2>1. PICK l \in Learner, m \in Module :
            Begin(c, "modules", [NoRequest EXCEPT !.learner = l, !.module = m], "start")
      BY <1>1 DEF StartModule
    <2> DEFINE r == [NoRequest EXCEPT !.learner = l, !.module = m]
    <2>2. r \in Request
      BY Filled, Places, Blank DEF Request
    <2> HIDE DEF r
    <2>3. Begin(c, "modules", r, "start")
      BY <2>1 DEF r
    <2>4. pc'[c] = "start"
      BY <2>2, <2>3, Places, Begins DEF LearnInv
    <2>5. Fits(c)'
      BY <2>4 DEF Fits, Found, StillFinds, AtKey
    <2>6. UNCHANGED <<alone, asked, deaths, store, late>>
      BY <1>1 DEF StartModule
    <2>7. QED
      BY <2>2, <2>3, <2>5, <2>6, Places, BeginKeeps
  <1>2. CASE CompleteModule(c)
    <2>1. PICK l \in Learner, m \in Module, s \in {0, 100} :
            /\ completion[l][m] = COMPLETION_IN_PROGRESS_SCORE
            /\ Begin(c, "modules", AnswerTo(l, m, s), "complete")
      BY <1>2 DEF CompleteModule, AnswerTo
    <2>2. PICK r : r = AnswerTo(l, m, s)
      OBVIOUS
    <2>3. /\ Begin(c, "modules", r, "complete")
          /\ r \in Request /\ r.learner = l /\ r.module = m /\ r.score = s
      <3>1. s \in Score
        BY Places
      <3>2. QED
        BY <2>1, <2>2, <3>1, Answered
    <2>4. pc'[c] = "complete" /\ req'[c] = r
      BY <2>3, Places, Begins DEF LearnInv
    <2>5. UNCHANGED <<alone, asked, deaths, store, late>>
      BY <1>2 DEF CompleteModule
    <2>6. Fits(c)'
      <3>1. completion'[l][m] = COMPLETION_IN_PROGRESS_SCORE /\ s >= 0
        BY <2>1, <2>5 DEF store, learned
      <3>2. L(c)' = l /\ M(c)' = m /\ req'[c].score = s
        BY <2>3, <2>4 DEF L, M
      <3>3. Own(c)' = COMPLETION_IN_PROGRESS_SCORE
        BY <3>1, <3>2 DEF Own
      <3>4. QED
        BY <2>4, <3>1, <3>2, <3>3 DEF Fits, Found, StillFinds, AtKey
    <2>7. QED
      BY <2>3, <2>5, <2>6, Places, BeginKeeps
  <1>3. QED
    BY <1>1, <1>2

\* A batch comes in, and what its events are read for.
LEMMA SyncKeeps ==
  ASSUME LearnInv, UNCHANGED <<alone, asked, deaths>>, NEW c \in Client, Sync(c)
  PROVE  LearnInv'
  <1>1. PICK b \in Batch : Begin(c, "sync", [NoRequest EXCEPT !.batch = b], "sync")
    BY DEF Sync
  <1> DEFINE r == [NoRequest EXCEPT !.batch = b]
  <1>2. r \in Request
    <2>1. b \in Seq(Key)
      BY LearningAssumption
    <2>2. QED
      BY <2>1, Blank DEF Request
  <1> HIDE DEF r
  <1>3. Begin(c, "sync", r, "sync")
    BY <1>1 DEF r
  <1>4. pc'[c] = "sync"
    BY <1>2, <1>3, Places, Begins DEF LearnInv
  <1>5. Fits(c)'
    BY <1>4 DEF Fits, Found, StillFinds, AtKey
  <1>6. UNCHANGED <<alone, asked, deaths, store, late>>
    BY DEF Sync
  <1>7. QED
    BY <1>2, <1>3, <1>5, <1>6, Places, BeginKeeps

\* Nothing that is kept for good changes.
Keeps == UNCHANGED <<alone, asked, store, late, deaths>>

\* A step to a place where nothing is known needs no more.
LEMMA MoveOn ==
  ASSUME LearnInv, Keeps, NEW c \in Client, pc[c] \notin {"idle", "book"}, Others(c),
         pc' \in [Client -> Pc], req' \in [Client -> Request],
         pc'[c] \notin {"reward", "book"}, Fits(c)'
  PROVE  LearnInv'
  <1>1. /\ UNCHANGED <<alone, asked, learned, event, referrer, bonusPaid, bonus, late>>
        /\ deaths' = deaths /\ code' = code
    BY DEF Keeps, store, referrals
  <1>2. code' \in [Learner -> Code \cup {NoCode}]
    BY <1>1 DEF LearnInv, TypeOK
  <1>3. QED
    BY <1>1, <1>2, GoKeeps

LEMMA TakeEventKeeps ==
  ASSUME LearnInv, UNCHANGED <<alone, asked, deaths>>, NEW c \in Client, TakeEvent(c)
  PROVE  LearnInv'
  <1>0. Keeps /\ pc[c] = "sync" /\ TypeOK
    BY DEF TakeEvent, Keeps, LearnInv
  <1>1. CASE req[c].batch = <<>>
    <2>1. Done(c)
      BY <1>1 DEF TakeEvent
    <2>2. /\ Others(c) /\ pc'[c] = "idle"
          /\ pc' \in [Client -> Pc] /\ req' \in [Client -> Request]
      BY <1>0, <2>1, Ends
    <2>3. Fits(c)'
      BY <2>2 DEF Fits, Found, StillFinds, AtKey
    <2>4. QED
      BY <1>0, <2>2, <2>3, MoveOn
  <1>2. CASE req[c].batch # <<>> /\ (~Event[Now(c)].well \/ event[Now(c)] # "none")
    <2>1. NextEvent(c)
      BY <1>2 DEF TakeEvent
    <2>2. /\ Others(c) /\ pc'[c] = "sync"
          /\ pc' \in [Client -> Pc] /\ req' \in [Client -> Request]
      BY <1>0, <1>2, <2>1, GoesOn
    <2>3. Fits(c)'
      BY <2>2 DEF Fits, Found, StillFinds, AtKey
    <2>4. QED
      BY <1>0, <2>2, <2>3, MoveOn
  <1>3. CASE req[c].batch # <<>> /\ ~(~Event[Now(c)].well \/ event[Now(c)] # "none")
    <2> DEFINE q == [req[c] EXCEPT !.learner = Event[Now(c)].learner,
                                   !.module = Event[Now(c)].module]
    <2>1. /\ q \in Request /\ q.learner = Event[Now(c)].learner
          /\ q.module = Event[Now(c)].module /\ q.batch = req[c].batch
      <3>1. Event[Now(c)].learner \in Learner /\ Event[Now(c)].module \in Module
        BY <1>0, <1>3, RequestFields, EventFields
      <3>2. req[c] \in Request
        BY <1>0, RequestFields
      <3>3. QED
        BY <3>1, <3>2 DEF Request
    <2>2. pc' = [pc EXCEPT ![c] = "read"] /\ req' = [req EXCEPT ![c] = q]
      BY <1>0, <1>3 DEF TakeEvent, TypeOK
    <2> HIDE DEF q
    <2>3. /\ Others(c) /\ pc'[c] = "read" /\ req'[c] = q
          /\ pc' \in [Client -> Pc] /\ req' \in [Client -> Request]
      BY <1>0, <2>1, <2>2, Places DEF TypeOK, Others
    <2>4. Fits(c)'
      BY <1>3, <2>1, <2>3 DEF Fits, Found, StillFinds, AtKey, Now, L, M
    <2>5. QED
      BY <1>0, <2>3, <2>4, MoveOn
  <1>4. QED
    BY <1>1, <1>2, <1>3

LEMMA ReadsKeep ==
  ASSUME LearnInv, UNCHANGED <<alone, asked, deaths>>, NEW c \in Client,
         ReadProgress(c) \/ ReadCompletion(c)
  PROVE  LearnInv'
  <1>0. Keeps /\ pc[c] = "read" /\ TypeOK
    BY DEF ReadProgress, ReadCompletion, Keeps, LearnInv
  <1>1. /\ req[c].batch # <<>> /\ L(c) = Event[Now(c)].learner /\ M(c) = Event[Now(c)].module
        /\ Event[Now(c)].score \in Int /\ Own(c) \in Score /\ Own(c) \in Int
    <2>1. /\ req[c].batch # <<>> /\ L(c) = Event[Now(c)].learner /\ M(c) = Event[Now(c)].module
          /\ Own(c) \in Score
      BY <1>0, RequestFields DEF LearnInv, Fits, Found, AtKey
    <2>2. Own(c) \in Int
      BY <2>1, Scores
    <2>3. Event[Now(c)].score \in Int
      <3>1. Event[Now(c)] \in EventType
        BY <1>0, <2>1, RequestFields
      <3>2. QED
        BY <3>1, EventFields
    <2>4. QED
      BY <2>1, <2>2, <2>3
  <1>2. CASE ReadProgress(c) /\ NewerStored(Now(c))
    <2>1. /\ Others(c) /\ pc'[c] = "sync"
          /\ pc' \in [Client -> Pc] /\ req' \in [Client -> Request]
      BY <1>0, <1>1, <1>2, GoesOn DEF ReadProgress
    <2>2. Fits(c)'
      BY <2>1 DEF Fits, Found, StillFinds, AtKey
    <2>3. QED
      BY <1>0, <2>1, <2>2, MoveOn
  <1>3. CASE ReadProgress(c) /\ ~NewerStored(Now(c))
    <2>1. /\ Others(c) /\ pc'[c] = "record" /\ req'[c] = req[c]
          /\ pc' \in [Client -> Pc] /\ req' \in [Client -> Request]
      BY <1>0, <1>3, Places, Goes DEF ReadProgress
    <2>2. Event[Now(c)].type = "progress"
      BY <1>3 DEF ReadProgress
    <2>3. Fits(c)'
      BY <1>1, <2>1, <2>2 DEF Fits, Found, StillFinds, AtKey, Now, L, M
    <2>4. QED
      BY <1>0, <2>1, <2>3, MoveOn
  <1>4. CASE ReadCompletion(c)
    <2> DEFINE q == [req[c] EXCEPT !.score = Own(c)]
               l == IF Event[Now(c)].score <= Own(c) THEN "skip" ELSE "write"
    <2>1. /\ q \in Request /\ q.score = Own(c) /\ q.learner = L(c) /\ q.module = M(c)
          /\ q.batch = req[c].batch
      <3>1. req[c] \in Request
        BY <1>0, RequestFields
      <3>2. QED
        BY <1>1, <3>1 DEF Request, L, M
    <2>2. pc' = [pc EXCEPT ![c] = l] /\ req' = [req EXCEPT ![c] = q]
      BY <1>4 DEF ReadCompletion
    <2>3. l \in {"skip", "write"} /\ (l = "write" => Own(c) < Event[Now(c)].score)
            /\ (l = "skip" => Event[Now(c)].score <= Own(c))
      BY <1>1
    <2> HIDE DEF q, l
    <2>4. /\ Others(c) /\ pc'[c] = l /\ req'[c] = q
          /\ pc' \in [Client -> Pc] /\ req' \in [Client -> Request]
      BY <1>0, <2>1, <2>2, <2>3, Places DEF TypeOK, Others
    <2>5. completion' = completion
      BY <1>0 DEF Keeps, store, learned
    <2>6. L(c)' = L(c) /\ M(c)' = M(c) /\ Own(c)' = Own(c) /\ Now(c)' = Now(c)
      BY <2>1, <2>4, <2>5 DEF L, M, Own, Now
    <2>7. Fits(c)'
      BY <1>1, <2>1, <2>3, <2>4, <2>6 DEF Fits, Found, StillFinds, AtKey, Score, Absent
    <2>8. QED
      BY <1>0, <2>3, <2>4, <2>7, MoveOn
  <1>5. QED
    BY <1>2, <1>3, <1>4

\* Referrals, as far as they store nothing but codes.
LEMMA ReferralsBegin ==
  ASSUME LearnInv, UNCHANGED <<alone, asked, deaths>>, NEW c \in Client,
         GenerateCode(c) \/ ApplyCode(c) \/ StartBonus(c)
  PROVE  LearnInv'
  <1>0. UNCHANGED <<alone, asked, deaths, store, late>>
    BY DEF GenerateCode, ApplyCode, StartBonus
  <1>1. CASE GenerateCode(c)
    <2>1. PICK l \in Learner :
            Begin(c, "referral", [NoRequest EXCEPT !.learner = l], "draw")
      BY <1>1 DEF GenerateCode
    <2> DEFINE r == [NoRequest EXCEPT !.learner = l]
    <2>2. r \in Request
      BY Blank DEF Request
    <2> HIDE DEF r
    <2>3. Begin(c, "referral", r, "draw")
      BY <2>1 DEF r
    <2>4. pc'[c] = "draw"
      BY <2>2, <2>3, Places, Begins DEF LearnInv
    <2>5. Fits(c)'
      BY <2>4 DEF Fits, Found, StillFinds, AtKey
    <2>6. QED
      BY <1>0, <2>2, <2>3, <2>5, Places, BeginKeeps
  <1>2. CASE ApplyCode(c)
    <2>1. PICK l \in Learner, k \in Learner :
            Begin(c, "referral", [NoRequest EXCEPT !.learner = l, !.code = code[k]], "apply")
      BY <1>2 DEF ApplyCode
    <2> DEFINE r == [NoRequest EXCEPT !.learner = l, !.code = code[k]]
    <2>2. r \in Request
      <3>1. code[k] \in Code \cup {NoCode}
        BY DEF LearnInv, TypeOK
      <3>2. QED
        BY <3>1, Blank DEF Request
    <2> HIDE DEF r
    <2>3. Begin(c, "referral", r, "apply")
      BY <2>1 DEF r
    <2>4. pc'[c] = "apply"
      BY <2>2, <2>3, Places, Begins DEF LearnInv
    <2>5. Fits(c)'
      BY <2>4 DEF Fits, Found, StillFinds, AtKey
    <2>6. QED
      BY <1>0, <2>2, <2>3, <2>5, Places, BeginKeeps
  <1>3. CASE StartBonus(c)
    <2>1. PICK l \in Learner :
            /\ referrer[l] # Nobody /\ ~bonusPaid[l]
            /\ Begin(c, "referral", [NoRequest EXCEPT !.learner = l], "count")
      BY <1>3 DEF StartBonus
    <2> DEFINE r == [NoRequest EXCEPT !.learner = l]
    <2>2. r \in Request /\ r.learner = l
      <3>1. r = [learner |-> l, module |-> NoRequest.module, score |-> NoRequest.score,
                 code |-> NoRequest.code, batch |-> NoRequest.batch]
        BY DEF NoRequest
      <3>2. r \in Request
        BY Blank DEF Request
      <3>3. QED
        BY <3>1, <3>2
    <2> HIDE DEF r
    <2>3. Begin(c, "referral", r, "count")
      BY <2>1 DEF r
    <2>4. pc'[c] = "count" /\ req'[c] = r
      BY <2>2, <2>3, Places, Begins DEF LearnInv
    <2>5. Fits(c)'
      <3>1. L(c)' = l /\ referrer' = referrer /\ bonusPaid' = bonusPaid
        BY <1>0, <2>2, <2>4 DEF L, store, referrals
      <3>2. QED
        BY <2>1, <2>4, <3>1 DEF Fits, Found, StillFinds, AtKey
    <2>6. QED
      BY <1>0, <2>2, <2>3, <2>5, Places, BeginKeeps
  <1>4. QED
    BY <1>1, <1>2, <1>3

LEMMA ReferralsMove ==
  ASSUME LearnInv, UNCHANGED <<alone, asked, deaths>>, NEW c \in Client,
         DrawCode(c) \/ CheckReferral(c) \/ CountCompletions(c)
  PROVE  LearnInv'
  <1>0. Keeps /\ pc[c] \in {"draw", "apply", "count"} /\ TypeOK
    BY DEF DrawCode, CheckReferral, CountCompletions, Keeps, LearnInv
  <1>1. CASE DrawCode(c)
    <2>1. PICK x \in Code : req' = [req EXCEPT ![c].code = x]
      BY <1>1 DEF DrawCode
    <2> DEFINE q == [req[c] EXCEPT !.code = x]
    <2>2. q \in Request
      BY <1>0, RequestFields DEF Request
    <2>3. req' = [req EXCEPT ![c] = q] /\ pc' = [pc EXCEPT ![c] = "code"]
      BY <1>1, <2>1 DEF DrawCode
    <2> HIDE DEF q
    <2>4. /\ Others(c) /\ pc'[c] = "code"
          /\ pc' \in [Client -> Pc] /\ req' \in [Client -> Request]
      BY <1>0, <2>2, <2>3, Places DEF TypeOK, Others
    <2>5. Fits(c)'
      BY <2>4 DEF Fits, Found, StillFinds, AtKey
    <2>6. QED
      BY <1>0, <2>4, <2>5, MoveOn
  <1>2. CASE (CheckReferral(c) \/ CountCompletions(c)) /\ Done(c)
    <2>1. /\ Others(c) /\ pc'[c] = "idle"
          /\ pc' \in [Client -> Pc] /\ req' \in [Client -> Request]
      BY <1>0, <1>2, Ends
    <2>2. Fits(c)'
      BY <2>1 DEF Fits, Found, StillFinds, AtKey
    <2>3. QED
      BY <1>0, <2>1, <2>2, MoveOn
  <1>3. CASE CheckReferral(c) /\ Goto(c, "refer")
    <2>1. /\ Others(c) /\ pc'[c] = "refer"
          /\ pc' \in [Client -> Pc] /\ req' \in [Client -> Request]
      BY <1>0, <1>3, Places, Goes
    <2>2. Fits(c)'
      BY <2>1 DEF Fits, Found, StillFinds, AtKey
    <2>3. QED
      BY <1>0, <2>1, <2>2, MoveOn
  <1>4. CASE CountCompletions(c) /\ Goto(c, "pay")
    <2>1. /\ Others(c) /\ pc'[c] = "pay" /\ req'[c] = req[c]
          /\ pc' \in [Client -> Pc] /\ req' \in [Client -> Request]
      BY <1>0, <1>4, Places, Goes
    <2>2. Fits(c) /\ pc[c] = "count"
      BY <1>4 DEF CountCompletions, LearnInv
    <2>3. L(c)' = L(c) /\ referrer' = referrer /\ bonusPaid' = bonusPaid /\ alone' = alone
      BY <1>0, <2>1 DEF L, Keeps, store, referrals
    <2>4. Fits(c)'
      BY <2>1, <2>2, <2>3 DEF Fits, Found, StillFinds, AtKey
    <2>5. QED
      BY <1>0, <2>1, <2>4, MoveOn
  <1>5. QED
    BY <1>1, <1>2, <1>3, <1>4 DEF CheckReferral, CountCompletions

LEMMA CreateCodeKeeps ==
  ASSUME LearnInv, UNCHANGED <<alone, asked, deaths>>, NEW c \in Client, CreateCode(c)
  PROVE  LearnInv'
  <1>1. TypeOK /\ pc[c] = "code"
    BY DEF CreateCode, LearnInv
  <1>2. /\ Others(c) /\ pc'[c] = "idle"
        /\ pc' \in [Client -> Pc] /\ req' \in [Client -> Request]
    BY <1>1, Ends DEF CreateCode
  <1>3. code' \in [Learner -> Code \cup {NoCode}]
    <2>1. req[c].code \in Code \cup {NoCode}
      BY <1>1, RequestFields DEF Request
    <2>2. QED
      BY <1>1, <2>1 DEF CreateCode, TypeOK
  <1>4. Fits(c)'
    BY <1>2 DEF Fits, Found, StillFinds, AtKey
  <1>5. /\ UNCHANGED <<alone, asked, learned, event, referrer, bonusPaid, bonus, late>>
        /\ deaths' = deaths
    BY DEF CreateCode
  <1>6. QED
    BY <1>1, <1>2, <1>3, <1>4, <1>5, GoKeeps

\* A request that dies: what it was about to book is counted.
LEMMA DieKeeps ==
  ASSUME LearnInv, UNCHANGED <<alone, asked>>, NEW c \in Client, Die(c)
  PROVE  LearnInv'
  <1>1. TypeOK /\ pc[c] # "idle" /\ deaths' = deaths + 1
    BY DEF Die, LearnInv
  <1>2. /\ Others(c) /\ pc'[c] = "idle"
        /\ pc' \in [Client -> Pc] /\ req' \in [Client -> Request]
    BY <1>1, Ends DEF Die
  <1>3. Fits(c)'
    BY <1>2 DEF Fits, Found, StillFinds, AtKey
  <1>4. UNCHANGED <<learned, event, referrer, bonusPaid, bonus, late, code>>
    BY DEF Die, store, referrals
  <1>5. code' \in [Learner -> Code \cup {NoCode}]
    BY <1>4 DEF LearnInv, TypeOK
  <1>6. QED
    BY <1>1, <1>2, <1>3, <1>4, <1>5, Quiet

-------------------------------------------------------------------------------
(* The steps that store something. *)

\* What is counted stays, if the step counts nothing.
LEMMA SameRewarding ==
  ASSUME NEW c \in Client, Others(c), pc[c] # "reward", pc'[c] # "reward"
  PROVE  \A l \in Learner, m \in Module : Rewarding(l, m)' = Rewarding(l, m)
  BY DEF Others, Rewarding, L, M

LEMMA SameBooking ==
  ASSUME NEW c \in Client, Others(c), pc[c] # "book", pc'[c] # "book", referrer' = referrer
  PROVE  \A r \in Learner : Booking(r)' = Booking(r)
  BY DEF Others, Booking, L

\* Bonuses are left alone.
LEMMA SameBonuses ==
  ASSUME LearnInv, NEW c \in Client, Others(c), pc[c] # "book", pc'[c] # "book",
         UNCHANGED <<alone, deaths, referrals>>
  PROVE  BonusesAgree' /\ Referred'
  <1>1. referrer' = referrer /\ bonusPaid' = bonusPaid /\ bonus' = bonus
    BY DEF referrals
  <1>2. \A r \in Learner : Booking(r)' = Booking(r) /\ PaidFor(r)' = PaidFor(r)
    BY <1>1, SameBooking DEF PaidFor
  <1>3. \A r \in Learner :
          /\ Cardinality(PaidFor(r)) <= bonus[r] + deaths + Cardinality(Booking(r))
          /\ alone => bonus[r] + Cardinality(Booking(r)) <= Cardinality(PaidFor(r))
    BY DEF LearnInv, BonusesAgree, Booking
  <1>4. \A r \in Learner :
          /\ Cardinality(PaidFor(r)') <= bonus'[r] + deaths' + Cardinality(Booking(r)')
          /\ alone' => bonus'[r] + Cardinality(Booking(r)') <= Cardinality(PaidFor(r)')
    BY <1>1, <1>2, <1>3
  <1>5. QED
    BY <1>1, <1>4 DEF BonusesAgree, Booking, LearnInv, Referred

LEMMA CreateCompletionKeeps ==
  ASSUME LearnInv, UNCHANGED <<alone, asked, deaths>>, NEW c \in Client, CreateCompletion(c)
  PROVE  LearnInv'
  <1>1. TypeOK /\ pc[c] = "start" /\ COMPLETION_IN_PROGRESS_SCORE \in Score
    BY Places DEF CreateCompletion, LearnInv
  <1>2. /\ Others(c) /\ pc'[c] = "idle"
        /\ pc' \in [Client -> Pc] /\ req' \in [Client -> Request]
    BY <1>1, Ends DEF CreateCompletion
  <1>3. /\ UNCHANGED <<alone, asked, reward, event, referrals, late>>
        /\ deaths' = deaths
    BY DEF CreateCompletion
  \* Only an absent row is written.
  <1>4. /\ completion' \in [Learner -> [Module -> Score]]
        /\ \A l \in Learner, m \in Module :
             \/ completion'[l][m] = completion[l][m]
             \/ completion[l][m] = Absent /\ completion'[l][m] = COMPLETION_IN_PROGRESS_SCORE
    <2>1. CASE Own(c) = Absent
      <3>1. SetScore(c, COMPLETION_IN_PROGRESS_SCORE)
        BY <2>1 DEF CreateCompletion
      <3>2. QED
        BY <1>1, <2>1, <3>1, Sets DEF Own
    <2>2. CASE Own(c) # Absent
      BY <1>1, <2>2 DEF CreateCompletion, TypeOK
    <2>3. QED
      BY <2>1, <2>2
  <1>5. \A l \in Learner, m \in Module :
          /\ completion[l][m] >= 0 <=> completion'[l][m] >= 0
          /\ \A x \in Nat : completion[l][m] >= x => completion'[l][m] >= x
    BY <1>4 DEF Absent, COMPLETION_IN_PROGRESS_SCORE
  <1>6. Fits(c)'
    BY <1>2 DEF Fits, Found, StillFinds, AtKey
  <1>7. TypeOK'
    BY <1>1, <1>2, <1>3, <1>4 DEF TypeOK, referrals
  <1>8. Serial' /\ \A d \in Client : Fits(d)'
    BY <1>1, <1>2, <1>3, <1>5, <1>6, OthersFit DEF referrals
  <1>9. BonusesAgree' /\ Referred'
    BY <1>1, <1>2, <1>3, SameBonuses
  <1>10. Counted'
    BY <1>1, <1>2, <1>3, <1>5, SameRewarding DEF LearnInv, Counted
  <1>11. KeptScores'
    <2>1. \A k \in Key : /\ Event[k].learner \in Learner /\ Event[k].module \in Module
                         /\ Event[k].score \in Nat
      <3>1. \A k \in Key : Event[k] \in EventType
        BY LearningAssumption
      <3>2. \A x \in 0 .. 100 : x \in Nat
        OBVIOUS
      <3>3. QED
        BY <3>1, <3>2, EventFields
    <2>2. QED
      BY <1>3, <1>5, <2>1 DEF LearnInv, KeptScores
  <1>12. QED
    BY <1>7, <1>8, <1>9, <1>10, <1>11 DEF LearnInv

LEMMA Events ==
  \A k \in Key : /\ Event[k].learner \in Learner /\ Event[k].module \in Module
                 /\ Event[k].score \in Nat /\ Event[k].score \in 0 .. 100
  <1>1. \A k \in Key : Event[k] \in EventType
    BY LearningAssumption
  <1>2. \A x \in 0 .. 100 : x \in Nat
    OBVIOUS
  <1>3. QED
    BY <1>1, <1>2, EventFields

\* A write of late is one of them, or none.
LEMMA Lates ==
  ASSUME TypeOK, NEW c \in Client, NEW now \in BOOLEAN, Outdated(c, now)
  PROVE  /\ late' \in [Learner -> Nat]
         /\ \A l \in Learner : /\ late'[l] \in Nat /\ late[l] \in Nat /\ late'[l] >= late[l]
                               /\ ~now => late'[l] = late[l]
         /\ now => late'[L(c)] = late[L(c)] + 1
  <1>1. L(c) \in Learner /\ late \in [Learner -> Nat]
    BY RequestFields DEF TypeOK
  <1>2. late' = [late EXCEPT ![L(c)] = late[L(c)] + (IF now THEN 1 ELSE 0)]
    BY DEF Outdated
  <1>3. QED
    BY <1>1, <1>2

LEMMA UpdateCompletionKeeps ==
  ASSUME LearnInv, UNCHANGED <<alone, asked, deaths>>, NEW c \in Client, UpdateCompletion(c)
  PROVE  LearnInv'
  <1>1. /\ TypeOK /\ pc[c] = "complete" /\ Fits(c)
        /\ UNCHANGED <<alone, asked, deaths, reward, event, referrals>>
        /\ SetScore(c, req[c].score) /\ Outdated(c, Own(c) >= 0)
        /\ Goto(c, "reward") \/ Done(c)
    BY DEF UpdateCompletion, LearnInv
  <1>2. /\ Others(c) /\ pc'[c] \in {"reward", "idle"} /\ (pc'[c] = "reward" => req'[c] = req[c])
        /\ pc' \in [Client -> Pc] /\ req' \in [Client -> Request]
    BY <1>1, Places, Goes, Ends
  <1>3. PICK l0 \in Learner, m0 \in Module, s \in Score :
          l0 = L(c) /\ m0 = M(c) /\ s = req[c].score
    BY <1>1, RequestFields
  <1>4. s >= 0 /\ s \in Int
    BY <1>1, <1>3, Scores DEF Fits, Found
  <1>5. /\ completion' \in [Learner -> [Module -> Score]]
        /\ \A l \in Learner, m \in Module :
             completion'[l][m] = IF l = l0 /\ m = m0 THEN s ELSE completion[l][m]
    BY <1>1, <1>3, Sets
  <1>6. \A l \in Learner, m \in Module :
          /\ completion[l][m] \in Int /\ completion'[l][m] \in Int
          /\ completion[l][m] >= 0 => completion'[l][m] >= 0
    <2>1. \A l \in Learner, m \in Module : completion[l][m] \in Int
      BY <1>1, Scores DEF TypeOK
    <2>2. QED
      BY <1>4, <1>5, <2>1
  <1>7. /\ late' \in [Learner -> Nat]
        /\ \A l \in Learner : /\ late'[l] \in Nat /\ late[l] \in Nat /\ late'[l] >= late[l]
                              /\ completion[l0][m0] < 0 => late'[l] = late[l]
        /\ completion[l0][m0] >= 0 => late'[l0] = late[l0] + 1
    <2>1. (completion[l0][m0] >= 0) \in BOOLEAN
      OBVIOUS
    <2>2. Outdated(c, completion[l0][m0] >= 0)
      BY <1>1, <1>3 DEF Own
    <2>3. completion[l0][m0] < 0 => ~(completion[l0][m0] >= 0)
      BY <1>6
    <2>4. QED
      BY <1>1, <1>3, <2>1, <2>2, <2>3, Lates
  <1>8. TypeOK'
    BY <1>1, <1>2, <1>5, <1>7 DEF TypeOK, referrals
  <1>9. alone => completion[l0][m0] = COMPLETION_IN_PROGRESS_SCORE
    BY <1>1, <1>3 DEF Fits, StillFinds, Own
  <1>10. Fits(c)'
    <2>1. pc'[c] = "reward" => Own(c)' = s
      BY <1>2, <1>3, <1>5 DEF Own, L, M
    <2>2. QED
      BY <1>2, <1>4, <2>1 DEF Fits, Found, StillFinds, AtKey
  <1>11. Serial' /\ \A d \in Client : Fits(d)'
    BY <1>1, <1>2, <1>6, <1>10, OthersFit DEF referrals
  <1>12. BonusesAgree' /\ Referred'
    <2>1. pc[c] # "book" /\ pc'[c] # "book"
      BY <1>1, <1>2
    <2>2. QED
      BY <1>1, <1>2, <2>1, SameBonuses
  <1>13. Counted'
    <2>1. ASSUME NEW l \in Learner, NEW m \in Module
          PROVE  /\ reward'[l][m] + Cardinality(Rewarding(l, m)')
                      <= late'[l] + (IF completion'[l][m] >= 0 THEN 1 ELSE 0)
                 /\ reward'[l][m] > 0 => completion'[l][m] >= 0
      <3>1. /\ reward[l][m] + Cardinality(Rewarding(l, m))
                 <= late[l] + (IF completion[l][m] >= 0 THEN 1 ELSE 0)
            /\ reward[l][m] > 0 => completion[l][m] >= 0
        BY DEF LearnInv, Counted
      <3>2. reward' = reward /\ reward[l][m] \in Nat
        BY <1>1 DEF TypeOK
      <3>3. IsFiniteSet(Rewarding(l, m)) /\ c \notin Rewarding(l, m)
        BY <1>1, Finite DEF Rewarding
      <3>4. Cardinality(Rewarding(l, m)) \in Nat
        BY <3>3, Counts
      <3>5. CASE l = l0 /\ m = m0
        <4>1. Rewarding(l, m)' \in {Rewarding(l, m), Rewarding(l, m) \cup {c}}
          BY <1>1, <1>2 DEF Rewarding, Others, L, M
        <4>2. Cardinality(Rewarding(l, m)') \in
                {Cardinality(Rewarding(l, m)), Cardinality(Rewarding(l, m)) + 1}
          BY <3>3, <4>1, Counts
        <4>3. completion'[l][m] >= 0
          BY <1>4, <1>5, <3>5
        <4>4. QED
          BY <1>6, <1>7, <3>1, <3>2, <3>4, <3>5, <4>2, <4>3
      <3>6. CASE ~(l = l0 /\ m = m0)
        <4>1. Rewarding(l, m)' = Rewarding(l, m)
          BY <1>1, <1>2, <1>3, <3>6 DEF Rewarding, Others, L, M
        <4>2. completion'[l][m] = completion[l][m]
          BY <1>5, <3>6
        <4>3. QED
          BY <1>6, <1>7, <3>1, <3>2, <3>4, <4>1, <4>2
      <3>7. QED
        BY <3>5, <3>6
    <2>2. alone' => \A l \in Learner : late'[l] = 0
      BY <1>1, <1>7, <1>9 DEF LearnInv, Counted, COMPLETION_IN_PROGRESS_SCORE
    <2>3. QED
      BY <2>1, <2>2 DEF Counted
  <1>14. KeptScores'
    <2> SUFFICES ASSUME alone, NEW k \in Key, event[k] # "none", Event[k].type = "completion"
                 PROVE  completion'[Event[k].learner][Event[k].module] >= Event[k].score
      BY <1>1 DEF KeptScores
    <2>1. completion[Event[k].learner][Event[k].module] >= Event[k].score
      BY DEF LearnInv, KeptScores
    <2>2. ~(Event[k].learner = l0 /\ Event[k].module = m0)
      BY <1>9, <2>1, Events DEF COMPLETION_IN_PROGRESS_SCORE
    <2>3. QED
      BY <1>5, <2>1, <2>2, Events
  <1>15. QED
    BY <1>8, <1>11, <1>12, <1>13, <1>14 DEF LearnInv

LEMMA CreateRewardKeeps ==
  ASSUME LearnInv, UNCHANGED <<alone, asked, deaths>>, NEW c \in Client, CreateReward(c)
  PROVE  LearnInv'
  <1>1. /\ TypeOK /\ pc[c] = "reward" /\ Fits(c)
        /\ UNCHANGED <<alone, asked, deaths, completion, event, referrals, late>> /\ Done(c)
    BY DEF CreateReward, LearnInv
  <1>2. /\ Others(c) /\ pc'[c] = "idle"
        /\ pc' \in [Client -> Pc] /\ req' \in [Client -> Request]
    BY <1>1, Ends
  <1>3. PICK l0 \in Learner, m0 \in Module : l0 = L(c) /\ m0 = M(c)
    BY <1>1, RequestFields
  <1>4. /\ reward' \in [Learner -> [Module -> Nat]]
        /\ \A l \in Learner, m \in Module :
             reward'[l][m] = IF l = l0 /\ m = m0 THEN reward[l][m] + 1 ELSE reward[l][m]
    <2>1. reward' = [reward EXCEPT ![l0][m0] = reward[l0][m0] + 1]
      BY <1>3 DEF CreateReward
    <2>2. QED
      BY <1>1, <2>1 DEF TypeOK
  <1>5. TypeOK'
    BY <1>1, <1>2, <1>4 DEF TypeOK, referrals
  <1>6. Fits(c)'
    BY <1>2 DEF Fits, Found, StillFinds, AtKey
  <1>7. Serial' /\ \A d \in Client : Fits(d)'
    BY <1>1, <1>2, <1>6, OthersFit DEF referrals
  <1>8. BonusesAgree' /\ Referred'
    BY <1>1, <1>2, SameBonuses
  <1>9. Counted'
    <2>1. ASSUME NEW l \in Learner, NEW m \in Module
          PROVE  /\ reward'[l][m] + Cardinality(Rewarding(l, m)')
                      <= late[l] + (IF completion[l][m] >= 0 THEN 1 ELSE 0)
                 /\ reward'[l][m] > 0 => completion[l][m] >= 0
      <3>1. /\ reward[l][m] + Cardinality(Rewarding(l, m))
                 <= late[l] + (IF completion[l][m] >= 0 THEN 1 ELSE 0)
            /\ reward[l][m] > 0 => completion[l][m] >= 0
        BY DEF LearnInv, Counted
      <3>2. reward[l][m] \in Nat /\ late[l] \in Nat
        BY <1>1 DEF TypeOK
      <3>3. IsFiniteSet(Rewarding(l, m))
        BY Finite
      <3>4. Cardinality(Rewarding(l, m)) \in Nat
        BY <3>3, Counts
      <3>5. CASE l = l0 /\ m = m0
        <4>1. c \in Rewarding(l, m) /\ Rewarding(l, m)' = Rewarding(l, m) \ {c}
          BY <1>1, <1>2, <1>3, <3>5 DEF Rewarding, Others, L, M
        <4>2. Cardinality(Rewarding(l, m)') = Cardinality(Rewarding(l, m)) - 1
          BY <3>3, <4>1, Counts
        <4>3. completion[l][m] >= 0
          BY <1>1, <1>3, <3>5 DEF Fits, Found, Own
        <4>4. QED
          BY <1>4, <3>1, <3>2, <3>4, <3>5, <4>2, <4>3
      <3>6. CASE ~(l = l0 /\ m = m0)
        <4>1. Rewarding(l, m)' = Rewarding(l, m)
          BY <1>1, <1>2, <1>3, <3>6 DEF Rewarding, Others, L, M
        <4>2. QED
          BY <1>4, <3>1, <3>2, <3>4, <3>6, <4>1
      <3>7. QED
        BY <3>5, <3>6
    <2>2. QED
      BY <1>1, <2>1 DEF LearnInv, Counted
  <1>10. KeptScores'
    BY <1>1 DEF LearnInv, KeptScores
  <1>11. QED
    BY <1>5, <1>7, <1>8, <1>9, <1>10 DEF LearnInv

\* Rewards are left alone: no completion is taken back.
LEMMA SameRewards ==
  ASSUME LearnInv, NEW c \in Client, Others(c), pc[c] # "reward", pc'[c] # "reward",
         UNCHANGED <<alone, reward>>,
         \A l \in Learner : late'[l] \in Nat /\ late'[l] >= late[l] /\ (alone => late'[l] = late[l]),
         \A l \in Learner, m \in Module : completion[l][m] >= 0 => completion'[l][m] >= 0
  PROVE  Counted'
  <1>1. \A l \in Learner, m \in Module : Rewarding(l, m)' = Rewarding(l, m)
    BY SameRewarding
  <1>2. ASSUME NEW l \in Learner, NEW m \in Module
        PROVE  /\ reward'[l][m] + Cardinality(Rewarding(l, m)')
                    <= late'[l] + (IF completion'[l][m] >= 0 THEN 1 ELSE 0)
               /\ reward'[l][m] > 0 => completion'[l][m] >= 0
    <2>1. /\ reward[l][m] + Cardinality(Rewarding(l, m))
               <= late[l] + (IF completion[l][m] >= 0 THEN 1 ELSE 0)
          /\ reward[l][m] > 0 => completion[l][m] >= 0
      BY DEF LearnInv, Counted
    <2>2. reward[l][m] \in Nat /\ late[l] \in Nat
      BY DEF LearnInv, TypeOK
    <2>3. Cardinality(Rewarding(l, m)) \in Nat
      BY Finite, Counts
    <2>4. QED
      BY <1>1, <2>1, <2>2, <2>3
  <1>3. alone' => \A l \in Learner : late'[l] = 0
    BY DEF LearnInv, Counted
  <1>4. QED
    BY <1>2, <1>3 DEF Counted

LEMMA WriteCompletionKeeps ==
  ASSUME LearnInv, UNCHANGED <<alone, asked, deaths>>, NEW c \in Client, WriteCompletion(c)
  PROVE  LearnInv'
  <1>1. /\ TypeOK /\ pc[c] = "write" /\ Fits(c)
        /\ UNCHANGED <<alone, asked, deaths, reward, event, referrals>>
        /\ Outdated(c, Own(c) # req[c].score)
        /\ \/ Done(c) /\ UNCHANGED completion
           \/ SetScore(c, Event[Now(c)].score) /\ Goto(c, "record")
    BY DEF WriteCompletion, LearnInv
  <1>2. /\ Others(c) /\ pc'[c] \in {"record", "idle"} /\ (pc'[c] = "record" => req'[c] = req[c])
        /\ pc' \in [Client -> Pc] /\ req' \in [Client -> Request]
    BY <1>1, Places, Goes, Ends
  <1>3. /\ req[c].batch # <<>> /\ Now(c) \in Key
        /\ L(c) = Event[Now(c)].learner /\ M(c) = Event[Now(c)].module
    BY <1>1, RequestFields DEF Fits, Found, AtKey
  <1>4. PICK l0 \in Learner, m0 \in Module, s \in Score :
          l0 = L(c) /\ m0 = M(c) /\ s = Event[Now(c)].score /\ s \in Nat
    BY <1>1, <1>3, RequestFields, Events, Places
  <1>5. /\ completion' \in [Learner -> [Module -> Score]]
        /\ \A l \in Learner, m \in Module :
             ~(l = l0 /\ m = m0) => completion'[l][m] = completion[l][m]
        /\ \/ pc'[c] = "record" /\ completion'[l0][m0] = s
           \/ pc'[c] = "idle" /\ completion'[l0][m0] = completion[l0][m0]
    <2>1. CASE Done(c) /\ UNCHANGED completion
      BY <1>1, <2>1, Ends DEF TypeOK
    <2>2. CASE SetScore(c, s) /\ Goto(c, "record")
      <3>1. pc'[c] = "record"
        BY <1>1, <2>2, Places, Goes
      <3>2. QED
        BY <1>1, <1>4, <2>2, <3>1, Sets
    <2>3. QED
      BY <1>1, <1>4, <2>1, <2>2
  <1>6. \A l \in Learner, m \in Module :
          /\ completion[l][m] \in Int /\ completion'[l][m] \in Int
          /\ completion[l][m] >= 0 => completion'[l][m] >= 0
    <2>1. \A l \in Learner, m \in Module : completion[l][m] \in Int
      BY <1>1, Scores DEF TypeOK
    <2>2. QED
      BY <1>4, <1>5, <2>1
  \* Alone, what was read still holds, and the score is a better one.
  <1>7. alone => Own(c) = req[c].score /\ completion[l0][m0] < s
    BY <1>1, <1>4 DEF Fits, StillFinds, Own
  <1>8. /\ late' \in [Learner -> Nat]
        /\ \A l \in Learner : /\ late'[l] \in Nat /\ late'[l] >= late[l]
                              /\ alone => late'[l] = late[l]
    <2>1. (Own(c) # req[c].score) \in BOOLEAN
      OBVIOUS
    <2>2. QED
      BY <1>1, <1>7, <2>1, Lates
  <1>9. TypeOK'
    BY <1>1, <1>2, <1>5, <1>8 DEF TypeOK, referrals
  <1>10. Fits(c)'
    <2>1. CASE pc'[c] = "idle"
      BY <2>1 DEF Fits, Found, StillFinds, AtKey
    <2>2. CASE pc'[c] = "record"
      <3>1. L(c)' = l0 /\ M(c)' = m0 /\ Now(c)' = Now(c) /\ req'[c] = req[c]
        BY <1>2, <1>4, <2>2 DEF L, M, Now
      <3>2. Own(c)' = s
        BY <1>5, <2>2, <3>1 DEF Own
      <3>3. QED
        BY <1>3, <1>4, <2>2, <3>1, <3>2 DEF Fits, Found, StillFinds, AtKey
    <2>3. QED
      BY <1>2, <2>1, <2>2
  <1>11. Serial' /\ \A d \in Client : Fits(d)'
    BY <1>1, <1>2, <1>6, <1>10, OthersFit DEF referrals
  <1>12. BonusesAgree' /\ Referred'
    <2>1. pc[c] # "book" /\ pc'[c] # "book"
      BY <1>1, <1>2
    <2>2. QED
      BY <1>1, <1>2, <2>1, SameBonuses
  <1>13. Counted'
    <2>1. pc[c] # "reward" /\ pc'[c] # "reward"
      BY <1>1, <1>2
    <2>2. QED
      BY <1>1, <1>2, <1>6, <1>8, <2>1, SameRewards
  <1>14. KeptScores'
    <2> SUFFICES ASSUME alone, NEW k \in Key, event[k] # "none", Event[k].type = "completion"
                 PROVE  completion'[Event[k].learner][Event[k].module] >= Event[k].score
      BY <1>1 DEF KeptScores
    <2>1. completion[Event[k].learner][Event[k].module] >= Event[k].score
      BY DEF LearnInv, KeptScores
    <2>2. completion'[Event[k].learner][Event[k].module]
            >= completion[Event[k].learner][Event[k].module]
      BY <1>4, <1>5, <1>6, <1>7, Events
    <2>3. QED
      BY <1>6, <2>1, <2>2, Events
  <1>15. QED
    BY <1>9, <1>11, <1>12, <1>13, <1>14 DEF LearnInv

LEMMA RecordEventKeeps ==
  ASSUME LearnInv, UNCHANGED <<alone, asked, deaths>>, NEW c \in Client, RecordEvent(c)
  PROVE  LearnInv'
  <1>1. /\ TypeOK /\ pc[c] \in {"record", "skip"} /\ Fits(c)
        /\ UNCHANGED <<alone, asked, deaths, learned, referrals, late>>
        /\ \/ NextEvent(c) /\ event' = [event EXCEPT ![Now(c)] =
                                IF pc[c] = "record" THEN "applied" ELSE "skipped"]
           \/ Done(c) /\ event' = event
    BY DEF RecordEvent, LearnInv
  <1>2. /\ req[c].batch # <<>> /\ Now(c) \in Key
        /\ L(c) = Event[Now(c)].learner /\ M(c) = Event[Now(c)].module
    BY <1>1, RequestFields DEF Fits, Found, AtKey
  <1>3. /\ Others(c) /\ pc'[c] \in {"sync", "idle"}
        /\ pc' \in [Client -> Pc] /\ req' \in [Client -> Request]
    BY <1>1, <1>2, GoesOn, Ends
  <1>4. completion' = completion /\ reward' = reward
    BY <1>1 DEF learned
  <1>5. /\ event' \in [Key -> EventStatus]
        /\ \A k \in Key : k # Now(c) => event'[k] = event[k]
    BY <1>1, <1>2 DEF TypeOK, EventStatus
  <1>6. TypeOK'
    BY <1>1, <1>3, <1>4, <1>5 DEF TypeOK, referrals
  <1>7. Fits(c)'
    BY <1>3 DEF Fits, Found, StillFinds, AtKey
  <1>8. Serial' /\ \A d \in Client : Fits(d)'
    BY <1>1, <1>3, <1>4, <1>7, OthersFit DEF referrals
  <1>9. BonusesAgree' /\ Referred'
    <2>1. pc[c] # "book" /\ pc'[c] # "book"
      BY <1>1, <1>3
    <2>2. QED
      BY <1>1, <1>3, <2>1, SameBonuses
  <1>10. Counted'
    <2>1. pc[c] # "reward" /\ pc'[c] # "reward"
      BY <1>1, <1>3
    <2>2. \A l \in Learner : late'[l] \in Nat /\ late'[l] >= late[l] /\ late'[l] = late[l]
      BY <1>1 DEF TypeOK
    <2>3. QED
      BY <1>1, <1>3, <1>4, <2>1, <2>2, SameRewards
  <1>11. KeptScores'
    <2> SUFFICES ASSUME alone, NEW k \in Key, event'[k] # "none", Event[k].type = "completion"
                 PROVE  completion[Event[k].learner][Event[k].module] >= Event[k].score
      BY <1>1, <1>4 DEF KeptScores
    <2>1. CASE k = Now(c)
      <3>1. Own(c) >= Event[k].score
        BY <1>1, <2>1 DEF Fits, StillFinds
      <3>2. QED
        BY <1>2, <2>1, <3>1 DEF Own
    <2>2. CASE k # Now(c)
      BY <1>5, <2>2 DEF LearnInv, KeptScores
    <2>3. QED
      BY <2>1, <2>2
  <1>12. QED
    BY <1>6, <1>8, <1>9, <1>10, <1>11 DEF LearnInv

\* A referral that is created was not there: nobody was paid for it, nor will be.
LEMMA CreateReferralKeeps ==
  ASSUME LearnInv, UNCHANGED <<alone, asked, deaths>>, NEW c \in Client, CreateReferral(c)
  PROVE  LearnInv'
  <1>1. /\ TypeOK /\ pc[c] = "refer" /\ Done(c) /\ L(c) \in Learner
        /\ UNCHANGED <<alone, asked, deaths, learned, event, code, bonusPaid, bonus, late>>
    BY RequestFields DEF CreateReferral, LearnInv
  <1>2. /\ Others(c) /\ pc'[c] = "idle"
        /\ pc' \in [Client -> Pc] /\ req' \in [Client -> Request]
    BY <1>1, Ends
  <1>3. completion' = completion /\ reward' = reward
    BY <1>1 DEF learned
  <1>4. /\ referrer' \in [Learner -> Learner \cup {Nobody}]
        /\ \A l \in Learner : referrer[l] # Nobody => referrer'[l] = referrer[l]
        /\ \A l \in Learner : referrer[l] = Nobody => referrer'[l] = Nobody \/ ~bonusPaid[l]
    BY <1>1 DEF CreateReferral, TypeOK, LearnInv, Referred
  <1>5. TypeOK'
    BY <1>1, <1>2, <1>3, <1>4 DEF TypeOK
  <1>6. Fits(c)'
    BY <1>2 DEF Fits, Found, StillFinds, AtKey
  <1>7. Serial' /\ \A d \in Client : Fits(d)'
    BY <1>1, <1>2, <1>3, <1>4, <1>6, OthersFit
  <1>8. Referred'
    BY <1>1, <1>4 DEF LearnInv, Referred
  <1>9. Counted'
    <2>1. \A l \in Learner : late'[l] \in Nat /\ late'[l] >= late[l] /\ late'[l] = late[l]
      BY <1>1 DEF TypeOK
    <2>2. QED
      BY <1>1, <1>2, <1>3, <2>1, SameRewards
  <1>10. KeptScores'
    BY <1>1, <1>3 DEF LearnInv, KeptScores
  <1>11. BonusesAgree'
    <2>1. ASSUME NEW r \in Learner PROVE Booking(r)' = Booking(r)
      <3>1. \A d \in Client : pc[d] = "book" => referrer'[L(d)] = referrer[L(d)]
        BY <1>1, <1>4, RequestFields DEF LearnInv, Fits, Found
      <3>2. QED
        BY <1>1, <1>2, <3>1 DEF Booking, Others, L
    <2>2. ASSUME NEW r \in Learner PROVE PaidFor(r)' = PaidFor(r)
      <3>1. \A l \in Learner : bonusPaid[l] => referrer'[l] = referrer[l]
        BY <1>4 DEF LearnInv, Referred
      <3>2. QED
        BY <1>1, <3>1 DEF PaidFor
    <2>3. \A r \in Learner :
            /\ Cardinality(PaidFor(r)) <= bonus[r] + deaths + Cardinality(Booking(r))
            /\ alone => bonus[r] + Cardinality(Booking(r)) <= Cardinality(PaidFor(r))
      BY DEF LearnInv, BonusesAgree, Booking
    <2>4. \A r \in Learner :
            /\ Cardinality(PaidFor(r)') <= bonus'[r] + deaths' + Cardinality(Booking(r)')
            /\ alone' => bonus'[r] + Cardinality(Booking(r)') <= Cardinality(PaidFor(r)')
      BY <1>1, <2>1, <2>2, <2>3
    <2>5. QED
      BY <2>4 DEF BonusesAgree, Booking
  <1>12. QED
    BY <1>5, <1>7, <1>8, <1>9, <1>10, <1>11 DEF LearnInv

LEMMA MarkPaidKeeps ==
  ASSUME LearnInv, UNCHANGED <<alone, asked, deaths>>, NEW c \in Client, MarkPaid(c)
  PROVE  LearnInv'
  <1>1. /\ TypeOK /\ pc[c] = "pay" /\ Fits(c) /\ Goto(c, "book")
        /\ UNCHANGED <<alone, asked, deaths, learned, event, code, referrer, bonus>>
        /\ Outdated(c, bonusPaid[L(c)])
        /\ bonusPaid' = [bonusPaid EXCEPT ![L(c)] = TRUE]
    BY DEF MarkPaid, LearnInv
  <1>2. /\ Others(c) /\ pc'[c] = "book" /\ req'[c] = req[c]
        /\ pc' \in [Client -> Pc] /\ req' \in [Client -> Request]
    BY <1>1, Places, Goes
  <1>3. completion' = completion /\ reward' = reward
    BY <1>1 DEF learned
  <1>4. PICK l0 \in Learner, r0 \in Learner : l0 = L(c) /\ r0 = referrer[l0] /\ r0 # Nobody
    <2>1. L(c) \in Learner /\ referrer[L(c)] # Nobody
      BY <1>1, RequestFields DEF Fits, Found
    <2>2. QED
      BY <1>1, <2>1 DEF TypeOK
  <1>5. /\ bonusPaid' \in [Learner -> BOOLEAN] /\ bonusPaid'[l0]
        /\ \A l \in Learner : l # l0 => bonusPaid'[l] = bonusPaid[l]
    BY <1>1, <1>4 DEF TypeOK
  <1>6. alone => ~bonusPaid[l0]
    BY <1>1, <1>4 DEF Fits, StillFinds
  <1>7. /\ late' \in [Learner -> Nat]
        /\ \A l \in Learner : /\ late'[l] \in Nat /\ late'[l] >= late[l]
                              /\ alone => late'[l] = late[l]
    <2>1. bonusPaid[L(c)] \in BOOLEAN
      BY <1>1, <1>4 DEF TypeOK
    <2>2. QED
      BY <1>1, <1>4, <1>6, <2>1, Lates
  <1>8. TypeOK'
    BY <1>1, <1>2, <1>3, <1>5, <1>7 DEF TypeOK
  <1>9. Fits(c)'
    <2>1. L(c)' = l0 /\ referrer'[l0] # Nobody
      BY <1>1, <1>2, <1>4 DEF L
    <2>2. QED
      BY <1>2, <2>1 DEF Fits, Found, StillFinds, AtKey
  <1>10. Serial' /\ \A d \in Client : Fits(d)'
    BY <1>1, <1>2, <1>3, <1>9, OthersFit
  <1>11. Referred'
    BY <1>1, <1>4, <1>5 DEF LearnInv, Referred
  <1>12. Counted'
    BY <1>1, <1>2, <1>3, <1>7, SameRewards
  <1>13. KeptScores'
    BY <1>1, <1>3 DEF LearnInv, KeptScores
  <1>14. BonusesAgree'
    <2> SUFFICES ASSUME NEW r \in Learner
                 PROVE  /\ Cardinality(PaidFor(r)') <=
                             bonus[r] + deaths + Cardinality(Booking(r)')
                        /\ alone => bonus[r] + Cardinality(Booking(r)')
                                      <= Cardinality(PaidFor(r)')
      BY <1>1 DEF BonusesAgree, Booking
    <2>1. /\ Cardinality(PaidFor(r)) <= bonus[r] + deaths + Cardinality(Booking(r))
          /\ alone => bonus[r] + Cardinality(Booking(r)) <= Cardinality(PaidFor(r))
      BY DEF LearnInv, BonusesAgree, Booking
    <2>2. IsFiniteSet(Booking(r)) /\ IsFiniteSet(PaidFor(r))
      BY Finite
    <2>3. /\ bonus[r] \in Nat /\ deaths \in Nat /\ Cardinality(PaidFor(r)) \in Nat
          /\ Cardinality(Booking(r)) \in Nat
      BY <1>1, <2>2, Counts DEF TypeOK
    <2>4. CASE r = r0
      <3>1. c \notin Booking(r) /\ Booking(r)' = Booking(r) \cup {c}
        BY <1>1, <1>2, <1>4, <2>4 DEF Booking, Others, L
      <3>2. PaidFor(r)' = PaidFor(r) \cup {l0}
        BY <1>1, <1>4, <1>5, <2>4 DEF PaidFor
      <3>3. Cardinality(Booking(r)') = Cardinality(Booking(r)) + 1
        BY <2>2, <3>1, Counts
      <3>4. CASE l0 \in PaidFor(r)
        <4>1. PaidFor(r)' = PaidFor(r) /\ ~alone
          BY <1>6, <3>2, <3>4 DEF PaidFor
        <4>2. QED
          BY <2>1, <2>3, <3>3, <4>1
      <3>5. CASE l0 \notin PaidFor(r)
        <4>1. Cardinality(PaidFor(r)') = Cardinality(PaidFor(r)) + 1
          BY <2>2, <3>2, <3>5, Counts
        <4>2. QED
          BY <2>1, <2>3, <3>3, <4>1
      <3>6. QED
        BY <3>4, <3>5
    <2>5. CASE r # r0
      <3>1. Booking(r)' = Booking(r)
        BY <1>1, <1>2, <1>4, <2>5 DEF Booking, Others, L
      <3>2. PaidFor(r)' = PaidFor(r)
        BY <1>1, <1>4, <1>5, <2>5 DEF PaidFor
      <3>3. QED
        BY <2>1, <3>1, <3>2
    <2>6. QED
      BY <2>4, <2>5
  <1>15. QED
    BY <1>8, <1>10, <1>11, <1>12, <1>13, <1>14 DEF LearnInv

LEMMA BookBonusKeeps ==
  ASSUME LearnInv, UNCHANGED <<alone, asked, deaths>>, NEW c \in Client, BookBonus(c)
  PROVE  LearnInv'
  <1>1. /\ TypeOK /\ pc[c] = "book" /\ Fits(c) /\ Done(c)
        /\ UNCHANGED <<alone, asked, deaths, learned, event, code, referrer, bonusPaid, late>>
        /\ bonus' = [bonus EXCEPT ![referrer[L(c)]] = @ + 1]
    BY DEF BookBonus, LearnInv
  <1>2. /\ Others(c) /\ pc'[c] = "idle"
        /\ pc' \in [Client -> Pc] /\ req' \in [Client -> Request]
    BY <1>1, Ends
  <1>3. completion' = completion /\ reward' = reward
    BY <1>1 DEF learned
  <1>4. PICK r0 \in Learner : r0 = referrer[L(c)]
    <2>1. L(c) \in Learner /\ referrer[L(c)] # Nobody
      BY <1>1, RequestFields DEF Fits, Found
    <2>2. QED
      BY <1>1, <2>1 DEF TypeOK
  <1>5. /\ bonus' \in [Learner -> Nat]
        /\ \A r \in Learner : bonus'[r] = IF r = r0 THEN bonus[r] + 1 ELSE bonus[r]
    BY <1>1, <1>4 DEF TypeOK
  <1>6. TypeOK'
    BY <1>1, <1>2, <1>3, <1>5 DEF TypeOK
  <1>7. Fits(c)'
    BY <1>2 DEF Fits, Found, StillFinds, AtKey
  <1>8. Serial' /\ \A d \in Client : Fits(d)'
    BY <1>1, <1>2, <1>3, <1>7, OthersFit
  <1>9. Referred'
    BY <1>1 DEF LearnInv, Referred
  <1>10. Counted'
    <2>1. \A l \in Learner : late'[l] \in Nat /\ late'[l] >= late[l] /\ late'[l] = late[l]
      BY <1>1 DEF TypeOK
    <2>2. QED
      BY <1>1, <1>2, <1>3, <2>1, SameRewards
  <1>11. KeptScores'
    BY <1>1, <1>3 DEF LearnInv, KeptScores
  <1>12. BonusesAgree'
    <2> SUFFICES ASSUME NEW r \in Learner
                 PROVE  /\ Cardinality(PaidFor(r)') <=
                             bonus'[r] + deaths + Cardinality(Booking(r)')
                        /\ alone => bonus'[r] + Cardinality(Booking(r)')
                                      <= Cardinality(PaidFor(r)')
      BY <1>1 DEF BonusesAgree, Booking
    <2>1. /\ Cardinality(PaidFor(r)) <= bonus[r] + deaths + Cardinality(Booking(r))
          /\ alone => bonus[r] + Cardinality(Booking(r)) <= Cardinality(PaidFor(r))
      BY DEF LearnInv, BonusesAgree, Booking
    <2>2. IsFiniteSet(Booking(r)) /\ IsFiniteSet(PaidFor(r))
      BY Finite
    <2>3. /\ bonus[r] \in Nat /\ deaths \in Nat /\ Cardinality(PaidFor(r)) \in Nat
          /\ Cardinality(Booking(r)) \in Nat
      BY <1>1, <2>2, Counts DEF TypeOK
    <2>4. PaidFor(r)' = PaidFor(r)
      BY <1>1 DEF PaidFor
    <2>5. CASE r = r0
      <3>1. c \in Booking(r) /\ Booking(r)' = Booking(r) \ {c}
        BY <1>1, <1>2, <1>4, <2>5 DEF Booking, Others, L
      <3>2. Cardinality(Booking(r)') = Cardinality(Booking(r)) - 1
        BY <2>2, <3>1, Counts
      <3>3. QED
        BY <1>5, <2>1, <2>3, <2>4, <2>5, <3>2
    <2>6. CASE r # r0
      <3>1. Booking(r)' = Booking(r)
        BY <1>1, <1>2, <1>4, <2>6 DEF Booking, Others, L
      <3>2. QED
        BY <1>5, <2>1, <2>4, <2>6, <3>1
    <2>7. QED
      BY <2>5, <2>6
  <1>13. QED
    BY <1>6, <1>8, <1>9, <1>10, <1>11, <1>12 DEF LearnInv

-------------------------------------------------------------------------------
(* Theorems. *)

\* Every step keeps the invariant.
LEMMA LearnStep == LearnInv /\ [Next]_vars => LearnInv'
  <1> SUFFICES ASSUME LearnInv, [Next]_vars PROVE LearnInv'
    OBVIOUS
  <1>1. ASSUME UNCHANGED <<alone, asked, deaths>>, NEW c \in Client, Step(c) PROVE LearnInv'
    <2>1. CASE StartModule(c) \/ CompleteModule(c)
      BY <1>1, <2>1, ModulesBegin
    <2>2. CASE CreateCompletion(c)
      BY <1>1, <2>2, CreateCompletionKeeps
    <2>3. CASE UpdateCompletion(c)
      BY <1>1, <2>3, UpdateCompletionKeeps
    <2>4. CASE CreateReward(c)
      BY <1>1, <2>4, CreateRewardKeeps
    <2>5. CASE Sync(c)
      BY <1>1, <2>5, SyncKeeps
    <2>6. CASE TakeEvent(c)
      BY <1>1, <2>6, TakeEventKeeps
    <2>7. CASE ReadProgress(c) \/ ReadCompletion(c)
      BY <1>1, <2>7, ReadsKeep
    <2>8. CASE WriteCompletion(c)
      BY <1>1, <2>8, WriteCompletionKeeps
    <2>9. CASE RecordEvent(c)
      BY <1>1, <2>9, RecordEventKeeps
    <2>10. CASE GenerateCode(c) \/ ApplyCode(c) \/ StartBonus(c)
      BY <1>1, <2>10, ReferralsBegin
    <2>11. CASE DrawCode(c) \/ CheckReferral(c) \/ CountCompletions(c)
      BY <1>1, <2>11, ReferralsMove
    <2>12. CASE CreateCode(c)
      BY <1>1, <2>12, CreateCodeKeeps
    <2>13. CASE CreateReferral(c)
      BY <1>1, <2>13, CreateReferralKeeps
    <2>14. CASE MarkPaid(c)
      BY <1>1, <2>14, MarkPaidKeeps
    <2>15. CASE BookBonus(c)
      BY <1>1, <2>15, BookBonusKeeps
    <2>16. QED
      BY <1>1, <2>1, <2>2, <2>3, <2>4, <2>5, <2>6, <2>7, <2>8, <2>9, <2>10, <2>11, <2>12,
         <2>13, <2>14, <2>15 DEF Step
  <1>2. ASSUME UNCHANGED <<alone, asked>>, NEW c \in Client, Die(c) PROVE LearnInv'
    BY <1>2, DieKeeps
  <1>3. CASE UNCHANGED vars
    <2>1. UNCHANGED <<alone, asked, completion, reward, event, code, referrer, bonusPaid, bonus,
                      pc, req, late, deaths>>
      BY <1>3 DEF vars, store, learned, referrals, history
    <2>2. QED
      BY <2>1 DEF LearnInv, TypeOK, Serial, Fits, Found, StillFinds, AtKey, Own, L, M, Now,
                  Referred, Counted, Rewarding, KeptScores, BonusesAgree, PaidFor
  <1>4. QED
    BY <1>1, <1>2, <1>3 DEF Next

LEMMA LearnAlways == Spec => []LearnInv
  BY LearnInit, LearnStep, PTL DEF Spec

(* The tables and what requests hold keep their types (module.controller.ts, *)
(* sync.controller.ts, referral.controller.ts).                              *)
THEOREM LearningTyped == Spec => []TypeOK
  BY LearnAlways, PTL DEF LearnInv

(* A module is rewarded once, and more often only as often as a completion   *)
(* overtook another one (completeModule).                                    *)
THEOREM RewardsCounted == Spec => []RewardedOnce
  <1>1. LearnInv => RewardedOnce
    <2> SUFFICES ASSUME LearnInv, NEW l \in Learner, NEW m \in Module
                 PROVE  reward[l][m] <= 1 + late[l]
      BY DEF RewardedOnce, LearnInv, Counted
    <2>1. reward[l][m] + Cardinality(Rewarding(l, m))
            <= late[l] + (IF completion[l][m] >= 0 THEN 1 ELSE 0)
      BY DEF LearnInv, Counted
    <2>2. Cardinality(Rewarding(l, m)) \in Nat
      BY Finite, Counts
    <2>3. reward[l][m] \in Nat /\ late[l] \in Nat
      BY DEF LearnInv, TypeOK
    <2>4. QED
      BY <2>1, <2>2, <2>3
  <1>2. QED
    BY <1>1, LearnAlways, PTL

(* While requests do not overlap, a completion that a device was told to     *)
(* forget stands for a score that was reached, after every retry and every   *)
(* request that died half-way (syncCompletions).                             *)
THEOREM ScoresKept == Spec => []KeptScores
  BY LearnAlways, PTL DEF LearnInv

(* The bonuses of a referrer and the referrals that are marked paid agree,   *)
(* up to requests that died or are between the two writes; and exactly so    *)
(* when requests do not overlap (processReferralBonus).                      *)
THEOREM BonusesCounted == Spec => []BonusesAgree
  BY LearnAlways, PTL DEF LearnInv


-------------------------------------------------------------------------------
(***************************************************************************)
(* The rewards.  BooksAgree and ClaimPaidOnce rest on Booked (what the     *)
(* books say of a request fits where it is and what became of its payment) *)
(* and ClaimsRaced (of two claims for one reward under way, one is in      *)
(* raced).  NeverOverdrawn is about sums, which are unfolded below for     *)
(* every finite set of requests.                                           *)
(***************************************************************************)

-------------------------------------------------------------------------------
(* Sums of amounts.  SumOf is a fold over the set it sums up: a recursive   *)
(* function over the subsets of that set.  What follows shows that the      *)
(* function exists and adds one amount for each element, by looking at a    *)
(* smallest set for which it would not.                                     *)

Sum(a, S) == Rew!MapThenSumSet(LAMBDA r : a[r].amount, S)

\* g gives every subset of S the sum of its amounts.
Adds(g, a, S) ==
  /\ g \in [SUBSET S -> Nat]
  /\ g[{}] = 0
  /\ \A T \in SUBSET S, x \in S : x \notin T => g[T \cup {x}] = g[T] + a[x].amount

\* A set of finite sets that is not empty has a smallest one.
LEMMA SmallestSet ==
  ASSUME NEW S, IsFiniteSet(S), NEW C \in SUBSET (SUBSET S), C # {}
  PROVE  \E T \in C : \A V \in C : V \subseteq T => V = T
  <1>1. IsWellFoundedOn(StrictSubsetOrdering(S), FiniteSubsetsOf(S))
    BY FS_StrictSubsetOrderingWellFounded
  <1>2. FiniteSubsetsOf(S) = SUBSET S
    BY FS_FiniteSubsetsOfFinite
  <1>3. \E T \in C : \A V \in C : ~(<<V, T>> \in StrictSubsetOrdering(S))
    BY <1>1, <1>2, WFMin
  <1>4. QED
    BY <1>3 DEF StrictSubsetOrdering

\* Some function adds up the amounts.
LEMMA SumExists ==
  ASSUME NEW S, IsFiniteSet(S), NEW a, \A x \in S : a[x].amount \in Nat
  PROVE  \E g : Adds(g, a, S)
  <1> DEFINE C == { T \in SUBSET S : ~\E g : Adds(g, a, T) }
  <1>1. SUFFICES ASSUME C # {} PROVE FALSE
    <2>1. S \notin C
      BY <1>1
    <2>2. QED
      BY <2>1
  <1>2. PICK T \in C : \A V \in C : V \subseteq T => V = T
    <2>1. C \in SUBSET (SUBSET S)
      OBVIOUS
    <2> HIDE DEF C
    <2>2. QED
      BY <1>1, <2>1, SmallestSet
  <1>3. T # {}
    <2> SUFFICES ASSUME T = {} PROVE FALSE
      OBVIOUS
    <2>1. Adds([V \in SUBSET {} |-> 0], a, {})
      BY DEF Adds
    <2>2. QED
      BY <2>1
  <1>4. PICK x \in T : TRUE
    BY <1>3
  <1>5. PICK g : Adds(g, a, T \ {x})
    BY <1>2, <1>4
  <1> DEFINE h == [V \in SUBSET T |-> IF x \in V THEN g[V \ {x}] + a[x].amount ELSE g[V]]
  <1>6. Adds(h, a, T)
    <2>0. a[x].amount \in Nat /\ \A y \in T : a[y].amount \in Nat
      OBVIOUS
    <2>1. \A V \in SUBSET T : V \ {x} \in SUBSET (T \ {x})
      OBVIOUS
    <2>2. h \in [SUBSET T -> Nat]
      BY <1>5, <2>0, <2>1 DEF Adds
    <2>3. h[{}] = 0
      BY <1>5 DEF Adds
    <2>4. ASSUME NEW V \in SUBSET T, NEW y \in T, y \notin V
          PROVE  h[V \cup {y}] = h[V] + a[y].amount
      <3>0. V \cup {y} \in SUBSET T
        OBVIOUS
      <3>1. CASE y = x
        <4>1. (V \cup {y}) \ {x} = V
          BY <2>4, <3>1
        <4>2. QED
          BY <2>4, <3>0, <3>1, <4>1
      <3>2. CASE y # x /\ x \in V
        <4>1. (V \cup {y}) \ {x} = (V \ {x}) \cup {y}
          BY <3>2
        <4>2. g[(V \ {x}) \cup {y}] = g[V \ {x}] + a[y].amount
          BY <1>5, <2>1, <2>4, <3>2 DEF Adds
        <4>3. g[V \ {x}] \in Nat
          BY <1>5, <2>1 DEF Adds
        <4>4. h[V \cup {y}] = g[V \ {x}] + a[y].amount + a[x].amount
          BY <3>0, <3>2, <4>1, <4>2
        <4>5. h[V] = g[V \ {x}] + a[x].amount
          BY <3>2
        <4>6. QED
          BY <2>0, <4>3, <4>4, <4>5
      <3>3. CASE y # x /\ x \notin V
        <4>1. V \in SUBSET (T \ {x}) /\ y \in T \ {x}
          BY <3>3
        <4>2. g[V \cup {y}] = g[V] + a[y].amount
          BY <1>5, <2>4, <4>1 DEF Adds
        <4>3. QED
          BY <3>0, <3>3, <4>2
      <3>4. QED
        BY <3>1, <3>2, <3>3
    <2> HIDE DEF h
    <2>5. QED
      BY <2>2, <2>3, <2>4 DEF Adds
  <1>7. QED
    BY <1>6

Pick(T) == CHOOSE x \in T : TRUE

\* The equation of the fold.
Folds(f, a, S) ==
  f = [T \in SUBSET S |-> IF T = {} THEN 0
                          ELSE a[Pick(T)].amount + f[T \ {Pick(T)}]]

\* Sum is whatever function adds up the amounts.
LEMMA SumIs ==
  ASSUME NEW S, IsFiniteSet(S), NEW a, \A x \in S : a[x].amount \in Nat,
         NEW g, Adds(g, a, S)
  PROVE  Sum(a, S) = g[S]
  <1>1. \A T \in SUBSET S : T # {} => Pick(T) \in T
    BY DEF Pick
  <1>2. ASSUME NEW T \in SUBSET S, T # {}
        PROVE  g[T] = a[Pick(T)].amount + g[T \ {Pick(T)}]
    <2>1. Pick(T) \in T
      BY <1>1, <1>2
    <2>2. T \ {Pick(T)} \in SUBSET S /\ (T \ {Pick(T)}) \cup {Pick(T)} = T
      BY <2>1
    <2>3. g[T] = g[T \ {Pick(T)}] + a[Pick(T)].amount
      BY <2>1, <2>2 DEF Adds
    <2>4. g[T \ {Pick(T)}] \in Nat /\ a[Pick(T)].amount \in Nat
      BY <2>1, <2>2 DEF Adds
    <2>5. QED
      BY <2>3, <2>4
  <1>3. Folds(g, a, S)
    BY <1>2 DEF Adds, Folds
  <1> DEFINE f == CHOOSE h : Folds(h, a, S)
  <1>4. Folds(f, a, S)
    BY <1>3
  <1>5. Sum(a, S) = f[S]
    BY Zenon DEF Sum, Rew!MapThenSumSet, Rew!MapThenFoldSet, Folds, Pick
  <1> HIDE DEF f
  <1> DEFINE C == { T \in SUBSET S : f[T] # g[T] }
  <1>6. ASSUME C # {} PROVE FALSE
    <2>1. PICK T \in C : \A V \in C : V \subseteq T => V = T
      <3>1. C \in SUBSET (SUBSET S)
        OBVIOUS
      <3> HIDE DEF C
      <3>2. QED
        BY <1>6, <3>1, SmallestSet
    <2>2. T # {}
      BY <1>4 DEF Folds, Adds
    <2>3. Pick(T) \in T
      BY <1>1, <2>2
    <2>4. T \ {Pick(T)} \in SUBSET S /\ T \ {Pick(T)} \notin C
      BY <2>1, <2>3
    <2>5. f[T] = a[Pick(T)].amount + f[T \ {Pick(T)}]
      BY <1>4, <2>2 DEF Folds
    <2>6. QED
      BY <1>2, <2>2, <2>4, <2>5
  <1>7. S \notin C
    BY <1>6
  <1>8. QED
    BY <1>5, <1>7

\* What a sum is: nothing for nothing, one amount more for one element more; and
\* it depends on the amounts of its elements alone.
LEMMA SumFacts ==
  ASSUME NEW S, IsFiniteSet(S), NEW a, \A x \in S : a[x].amount \in Nat
  PROVE  /\ Sum(a, S) \in Nat
         /\ S = {} => Sum(a, S) = 0
         /\ \A x \in S : Sum(a, S) = Sum(a, S \ {x}) + a[x].amount
         /\ \A b : (\A x \in S : b[x].amount = a[x].amount) => Sum(b, S) = Sum(a, S)
  <1>1. PICK g : Adds(g, a, S)
    BY SumExists
  <1>2. Sum(a, S) = g[S]
    BY <1>1, SumIs
  <1>3. ASSUME NEW x \in S PROVE Sum(a, S) = Sum(a, S \ {x}) + a[x].amount
    <2> DEFINE h == [T \in SUBSET (S \ {x}) |-> g[T]]
    <2>1. Adds(h, a, S \ {x})
      <3>1. \A T \in SUBSET (S \ {x}) : T \in SUBSET S /\ h[T] = g[T]
        OBVIOUS
      <3>2. h \in [SUBSET (S \ {x}) -> Nat] /\ h[{}] = 0
        BY <1>1, <3>1 DEF Adds
      <3>3. ASSUME NEW T \in SUBSET (S \ {x}), NEW y \in S \ {x}, y \notin T
            PROVE  h[T \cup {y}] = h[T] + a[y].amount
        <4>1. T \cup {y} \in SUBSET (S \ {x})
          OBVIOUS
        <4>2. g[T \cup {y}] = g[T] + a[y].amount
          BY <1>1, <3>1, <3>3 DEF Adds
        <4>3. QED
          BY <3>1, <4>1, <4>2
      <3> HIDE DEF h
      <3>4. QED
        BY <3>2, <3>3 DEF Adds
    <2>2. IsFiniteSet(S \ {x})
      BY FS_RemoveElement
    <2>3. Sum(a, S \ {x}) = h[S \ {x}]
      BY <2>1, <2>2, SumIs
    <2>4. g[(S \ {x}) \cup {x}] = g[S \ {x}] + a[x].amount
      BY <1>1 DEF Adds
    <2>5. (S \ {x}) \cup {x} = S
      BY <1>3
    <2>6. QED
      BY <1>2, <2>3, <2>4, <2>5
  <1>4. ASSUME NEW b, \A x \in S : b[x].amount = a[x].amount
        PROVE  Sum(b, S) = Sum(a, S)
    <2>1. Adds(g, b, S)
      BY <1>1, <1>4 DEF Adds
    <2>2. QED
      BY <1>2, <1>4, <2>1, SumIs
  <1>5. Sum(a, S) \in Nat
    BY <1>1, <1>2 DEF Adds
  <1>6. S = {} => Sum(a, S) = 0
    BY <1>1, <1>2 DEF Adds
  <1>7. QED
    BY <1>3, <1>4, <1>5, <1>6

-------------------------------------------------------------------------------
(* Requests, books and payments. *)

UnderWay(r) == payPc[r] \in {"load", "submit", "wait"}
Given(r) == r \in lost \cup erased

\* A request that was made is somebody's.
Owned == \A r \in Payout : payPc[r] # "idle" => payFor[r].user \in User

\* What a request has booked and paid agrees with where it is.
Booked ==
  \A r \in Payout :
    /\ payPc[r] = "idle" => book[r] = "none" /\ payment[r] = "none"
    /\ payPc[r] \in {"load", "submit"} => payment[r] = "none"
    /\ UnderWay(r) => book[r] = IF Rew!IsClaim(r) THEN "none" ELSE "pending"
    /\ book[r] = "completed" => payment[r] = "landed"
    /\ book[r] = "completed" /\ Rew!IsClaim(r) => <<payFor[r].user, payFor[r].module>> \in claimed
    /\ payment[r] = "sent" => payPc[r] = "wait" \/ Given(r)
    /\ payment[r] = "landed" => book[r] = "completed" \/ payPc[r] = "wait" \/ Given(r)

\* A request whose payment may still land, or has.
Alive(r) == UnderWay(r) \/ payment[r] \in {"sent", "landed"}
Twins(r, q) == /\ r # q /\ Rew!IsClaim(r) /\ Rew!IsClaim(q)
               /\ payFor[r].user = payFor[q].user /\ payFor[r].module = payFor[q].module

\* Two claims of one reward were under way together, or one of them was given up.
ClaimsRaced ==
  \A r, q \in Payout :
    Alive(r) /\ Alive(q) /\ Twins(r, q) => {r, q} \subseteq raced \/ Given(r) \/ Given(q)

PaidInv == Rew!TypeOK /\ Owned /\ Booked /\ ClaimsRaced

\* Every reachable state is well typed (reward.service.ts).
LEMMA RewardInit == Rew!Init => PaidInv
  BY LearnerRewardsAssumption DEF Rew!RewardAssumption, Rew!Init, Rew!NoBooks, Rew!TypeOK, Rew!Status, Rew!Pc, Rew!PaymentState, Rew!Asking, Rew!Nothing,
     PaidInv, Owned, Booked, ClaimsRaced, UnderWay, Alive

\* Types are kept, and a request keeps its owner.
LEMMA RewardTypeStep == Rew!TypeOK /\ Owned /\ [Rew!Next]_Rew!vars => Rew!TypeOK' /\ Owned'
  <1> SUFFICES ASSUME Rew!TypeOK, Owned, [Rew!Next]_Rew!vars PROVE Rew!TypeOK' /\ Owned'
    OBVIOUS
  <1> USE DEF Rew!TypeOK, Owned, Rew!books, Rew!ledger, Rew!history, Rew!Goto, Rew!Settle
  <1>1. ASSUME NEW c \in RewardCode, NEW u \in User, Rew!RegisterReferralCode(c, u)
        PROVE  Rew!TypeOK' /\ Owned'
    BY <1>1 DEF Rew!RegisterReferralCode
  <1>2. ASSUME NEW r \in Payout, NEW u \in User, NEW m \in RewardModule, NEW days, NEW owner,
               Rew!StartClaim(r, u, m, days, owner)
        PROVE  Rew!TypeOK' /\ Owned'
    <2>1. Rew!CalculateReward(m, days, owner) \in Nat
      BY <1>2, LearnerRewardsAssumption DEF Rew!RewardAssumption, Rew!StartClaim, Rew!Payable, Rew!InRange
    <2> DEFINE x == [user |-> u, module |-> m, amount |-> Rew!CalculateReward(m, days, owner)]
    <2>2. x \in Rew!Asking /\ x.user = u
      BY <2>1 DEF Rew!Asking
    <2>3. payFor' = [payFor EXCEPT ![r] = x]
      BY <1>2 DEF Rew!StartClaim
    <2> HIDE DEF x
    <2>4. payFor' \in [Payout -> Rew!Asking] /\ \A q \in Payout : payFor'[q] = IF q = r THEN x ELSE payFor[q]
      BY <2>2, <2>3
    <2>5. raced' \in SUBSET Payout
      BY <1>2 DEF Rew!StartClaim
    <2>6. payPc' \in [Payout -> Rew!Pc] /\ \A q \in Payout : q # r => payPc'[q] = payPc[q]
      BY <1>2 DEF Rew!StartClaim, Rew!Pc
    <2>7. Rew!TypeOK'
      BY <1>2, <2>4, <2>5, <2>6 DEF Rew!StartClaim
    <2>8. Owned'
      BY <2>2, <2>4, <2>6
    <2>9. QED
      BY <2>7, <2>8
  <1>3. ASSUME NEW r \in Payout, NEW u \in User, NEW n \in Amounts, Rew!StartWithdrawal(r, u, n)
        PROVE  Rew!TypeOK' /\ Owned'
    <2>1. n \in Nat
      BY <1>3, LearnerRewardsAssumption DEF Rew!RewardAssumption, Rew!StartWithdrawal, Rew!InRange
    <2> DEFINE x == [user |-> u, module |-> None, amount |-> n]
    <2>2. x \in Rew!Asking /\ x.user = u
      BY <2>1 DEF Rew!Asking
    <2>3. payFor' = [payFor EXCEPT ![r] = x]
      BY <1>3 DEF Rew!StartWithdrawal, Rew!ProcessWithdrawal
    <2> HIDE DEF x
    <2>4. payFor' \in [Payout -> Rew!Asking] /\ \A q \in Payout : payFor'[q] = IF q = r THEN x ELSE payFor[q]
      BY <2>2, <2>3
    <2>5. payPc' \in [Payout -> Rew!Pc] /\ \A q \in Payout : q # r => payPc'[q] = payPc[q]
      BY <1>3 DEF Rew!StartWithdrawal, Rew!ProcessWithdrawal, Rew!Pc
    <2>6. Rew!TypeOK'
      BY <1>3, <2>4, <2>5 DEF Rew!StartWithdrawal, Rew!ProcessWithdrawal, Rew!Status
    <2>7. Owned'
      BY <2>2, <2>4, <2>5
    <2>8. QED
      BY <2>6, <2>7
  <1>4. ASSUME NEW r \in Payout, Rew!Answers(r) \/ Rew!Settles(r) PROVE Rew!TypeOK' /\ Owned'
    <2>1. CASE Rew!LoadAccount(r) \/ Rew!Submit(r)
      BY <2>1 DEF Rew!LoadAccount, Rew!Submit, Rew!Pc, Rew!PaymentState
    <2>2. CASE Rew!Confirmed(r)
      <3>1. claimed' \in SUBSET (User \X RewardModule)
        <4>1. payFor[r].user \in User
          BY <2>2 DEF Rew!Confirmed
        <4>2. payFor[r].module \in RewardModule \cup {None}
          BY DEF Rew!Asking
        <4>3. QED
          BY <2>2, <4>1, <4>2 DEF Rew!Confirmed, Rew!Complete, Rew!MarkAsClaimed, Rew!IsClaim
      <3>2. QED
        BY <2>2, <3>1 DEF Rew!Confirmed, Rew!Complete, Rew!Pc, Rew!Status
    <2>3. CASE Rew!NotSent(r) \/ Rew!Refused(r) \/ Rew!TimedOut(r)
      BY <2>3 DEF Rew!NotSent, Rew!Refused, Rew!TimedOut, Rew!Fail, Rew!Pc, Rew!Status
    <2>4. CASE Rew!Lands(r) \/ Rew!Drops(r)
      BY <2>4 DEF Rew!Lands, Rew!Drops, Rew!PaymentState
    <2>5. QED
      BY <1>4, <2>1, <2>2, <2>3, <2>4 DEF Rew!Answers, Rew!Settles
  <1>5. CASE Rew!Restart
    BY <1>5 DEF Rew!Restart, Rew!Pc, Rew!Status
  <1>6. CASE UNCHANGED Rew!vars
    BY <1>6 DEF Rew!vars
  <1>7. QED
    BY <1>1, <1>2, <1>3, <1>4, <1>5, <1>6 DEF Rew!Next, Rew!Starts

\* What a step does to the requests, for each of its kinds.
LEMMA BookedStep == Rew!TypeOK /\ Booked /\ [Rew!Next]_Rew!vars => Booked'
  <1> SUFFICES ASSUME Rew!TypeOK, Booked, [Rew!Next]_Rew!vars PROVE Booked'
    OBVIOUS
  <1> USE DEF Rew!TypeOK, Booked, UnderWay, Rew!IsClaim, Given, Rew!books, Rew!ledger, Rew!history, Rew!Goto, Rew!Settle
  <1>1. ASSUME NEW c \in RewardCode, NEW u \in User, Rew!RegisterReferralCode(c, u) PROVE Booked'
    BY <1>1 DEF Rew!RegisterReferralCode
  <1>2. ASSUME NEW r \in Payout, NEW u \in User, NEW m \in RewardModule, NEW days, NEW owner,
               Rew!StartClaim(r, u, m, days, owner)
        PROVE  Booked'
    <2> DEFINE x == [user |-> u, module |-> m, amount |-> Rew!CalculateReward(m, days, owner)]
    <2>1. payFor' = [payFor EXCEPT ![r] = x] /\ x.user = u /\ x.module = m /\ m # None
      BY <1>2, LearnerRewardsAssumption DEF Rew!RewardAssumption, Rew!StartClaim
    <2> HIDE DEF x
    <2>2. QED
      BY <1>2, <2>1 DEF Rew!StartClaim
  <1>3. ASSUME NEW r \in Payout, NEW u \in User, NEW n \in Amounts, Rew!StartWithdrawal(r, u, n)
        PROVE  Booked'
    <2> DEFINE x == [user |-> u, module |-> None, amount |-> n]
    <2>1. payFor' = [payFor EXCEPT ![r] = x] /\ x.user = u /\ x.module = None
      BY <1>3 DEF Rew!StartWithdrawal, Rew!ProcessWithdrawal
    <2> HIDE DEF x
    <2>2. /\ payPc[r] = "idle" /\ payPc' = [payPc EXCEPT ![r] = "load"]
          /\ book' = [book EXCEPT ![r] = "pending"]
          /\ UNCHANGED <<claimed, payment, lost, erased>>
      BY <1>3 DEF Rew!StartWithdrawal, Rew!ProcessWithdrawal
    <2>3. payFor'[r].module = None /\ payPc'[r] = "load" /\ book'[r] = "pending" /\ payment'[r] = "none"
      BY <2>1, <2>2
    <2>4. \A q \in Payout : q # r => /\ payFor'[q] = payFor[q] /\ payPc'[q] = payPc[q]
                                     /\ book'[q] = book[q]
      BY <2>1, <2>2
    <2>5. QED
      BY <2>2, <2>3, <2>4
  <1>4. ASSUME NEW r \in Payout, Rew!Answers(r) \/ Rew!Settles(r) PROVE Booked'
    <2>1. CASE Rew!LoadAccount(r) \/ Rew!Submit(r)
      BY <2>1 DEF Rew!LoadAccount, Rew!Submit
    <2>2. CASE Rew!Confirmed(r)
      BY <2>2 DEF Rew!Confirmed, Rew!Complete, Rew!MarkAsClaimed
    <2>3. CASE Rew!NotSent(r) \/ Rew!Refused(r)
      BY <2>3 DEF Rew!NotSent, Rew!Refused, Rew!Fail
    <2>4. CASE Rew!TimedOut(r)
      BY <2>4 DEF Rew!TimedOut, Rew!Fail
    <2>5. CASE Rew!Lands(r) \/ Rew!Drops(r)
      BY <2>5 DEF Rew!Lands, Rew!Drops
    <2>6. QED
      BY <1>4, <2>1, <2>2, <2>3, <2>4, <2>5 DEF Rew!Answers, Rew!Settles
  <1>5. CASE Rew!Restart
    BY <1>5 DEF Rew!Restart
  <1>6. CASE UNCHANGED Rew!vars
    BY <1>6 DEF Rew!vars
  <1>7. QED
    BY <1>1, <1>2, <1>3, <1>4, <1>5, <1>6 DEF Rew!Next, Rew!Starts

\* What was given up stays given up, and no request but one that starts comes
\* alive or changes what it is for.
KeepsClaim(q) ==
  /\ raced' = raced /\ lost \subseteq lost' /\ erased \subseteq erased'
  /\ (Alive(q) /\ Rew!IsClaim(q))' => Alive(q) /\ Rew!IsClaim(q) /\ payFor'[q] = payFor[q]

LEMMA ClaimsKept ==
  ASSUME Rew!TypeOK, [Rew!Next]_Rew!vars, NEW q \in Payout,
         \A r \in Payout, u \in User, m \in RewardModule, days \in StreakDays,
           owner \in {None} \cup { Rew!ResolveReferralCode(c) : c \in RewardCode } :
             ~Rew!StartClaim(r, u, m, days, owner)
  PROVE  KeepsClaim(q)
  <1> USE DEF KeepsClaim, Rew!TypeOK, Alive, UnderWay, Rew!IsClaim, Rew!books, Rew!ledger, Rew!history, Rew!Goto, Rew!Settle
  <1>1. ASSUME NEW c \in RewardCode, NEW u \in User, Rew!RegisterReferralCode(c, u) PROVE KeepsClaim(q)
    BY <1>1 DEF Rew!RegisterReferralCode
  <1>2. ASSUME NEW r \in Payout, NEW u \in User, NEW n \in Amounts, Rew!StartWithdrawal(r, u, n)
        PROVE  KeepsClaim(q)
    <2> DEFINE x == [user |-> u, module |-> None, amount |-> n]
    <2>1. payFor' = [payFor EXCEPT ![r] = x] /\ x.module = None
      BY <1>2 DEF Rew!StartWithdrawal, Rew!ProcessWithdrawal
    <2> HIDE DEF x
    <2>2. QED
      BY <1>2, <2>1 DEF Rew!StartWithdrawal, Rew!ProcessWithdrawal
  <1>3. ASSUME NEW r \in Payout, Rew!Answers(r) \/ Rew!Settles(r) PROVE KeepsClaim(q)
    <2>1. CASE Rew!LoadAccount(r) \/ Rew!Submit(r)
      BY <2>1 DEF Rew!LoadAccount, Rew!Submit
    <2>2. CASE Rew!Confirmed(r)
      BY <2>2 DEF Rew!Confirmed, Rew!Complete
    <2>3. CASE Rew!NotSent(r) \/ Rew!Refused(r) \/ Rew!TimedOut(r)
      BY <2>3 DEF Rew!NotSent, Rew!Refused, Rew!TimedOut, Rew!Fail
    <2>4. CASE Rew!Lands(r) \/ Rew!Drops(r)
      BY <2>4 DEF Rew!Lands, Rew!Drops
    <2>5. QED
      BY <1>3, <2>1, <2>2, <2>3, <2>4 DEF Rew!Answers, Rew!Settles
  <1>4. CASE Rew!Restart
    BY <1>4 DEF Rew!Restart
  <1>5. CASE UNCHANGED Rew!vars
    BY <1>5 DEF Rew!vars
  <1>6. QED
    <2> HIDE DEF KeepsClaim, Rew!TypeOK, Alive, UnderWay, Rew!IsClaim, Rew!books, Rew!ledger, Rew!history, Rew!Goto, Rew!Settle
    <2>1. QED
      BY <1>1, <1>2, <1>3, <1>4, <1>5 DEF Rew!Next, Rew!Starts

\* Claims of one reward are raced, or given up.
LEMMA RacedStep == Rew!TypeOK /\ Booked /\ ClaimsRaced /\ [Rew!Next]_Rew!vars => ClaimsRaced'
  <1> SUFFICES ASSUME Rew!TypeOK, Booked, ClaimsRaced, [Rew!Next]_Rew!vars,
                      NEW p \in Payout, NEW q \in Payout,
                      Alive(p)', Alive(q)', Twins(p, q)'
               PROVE  {p, q} \subseteq raced' \/ Given(p)' \/ Given(q)'
    BY DEF ClaimsRaced
  <1>1. CASE \E r \in Payout, u \in User, m \in RewardModule, days \in StreakDays,
               owner \in {None} \cup { Rew!ResolveReferralCode(c) : c \in RewardCode } :
                 Rew!StartClaim(r, u, m, days, owner)
    <2>1. PICK r \in Payout, u \in User, m \in RewardModule, days \in StreakDays,
               owner \in {None} \cup { Rew!ResolveReferralCode(c) : c \in RewardCode } :
                 Rew!StartClaim(r, u, m, days, owner)
      BY <1>1
    <2> DEFINE x == [user |-> u, module |-> m, amount |-> Rew!CalculateReward(m, days, owner)]
    <2>2. payFor' = [payFor EXCEPT ![r] = x] /\ x.user = u /\ x.module = m /\ m # None
      BY <2>1, LearnerRewardsAssumption DEF Rew!RewardAssumption, Rew!StartClaim
    <2> HIDE DEF x
    <2>3. \A t \in Payout : t # r => payPc'[t] = payPc[t] /\ payFor'[t] = payFor[t]
      BY <2>1, <2>2 DEF Rew!StartClaim, Rew!TypeOK, Rew!Goto
    <2>4. payment' = payment /\ lost' = lost /\ erased' = erased /\ raced \subseteq raced'
      BY <2>1 DEF Rew!StartClaim, Rew!ledger
    <2>5. payFor'[r] = x
      BY <2>2 DEF Rew!TypeOK
    \* A claim that is alive beside the new one, of the same reward.
    <2>6. ASSUME NEW t \in Payout, t # r, Alive(t), payFor[t].user = u, payFor[t].module = m
          PROVE  {t, r} \subseteq raced' \/ Given(t)
      <3>1. CASE UnderWay(t)
        BY <2>1, <2>6, <3>1 DEF Rew!StartClaim, UnderWay
      <3>2. CASE ~UnderWay(t)
        BY <2>1, <2>2, <2>6, <3>2 DEF Rew!StartClaim, Booked, Alive, UnderWay, Rew!IsClaim
      <3>3. QED
        BY <3>1, <3>2
    <2>7. CASE p # r /\ q # r
      BY <2>3, <2>4, <2>7 DEF ClaimsRaced, Alive, UnderWay, Twins, Rew!IsClaim, Given
    <2>8. CASE p = r
      BY <2>2, <2>3, <2>4, <2>5, <2>6, <2>8 DEF Alive, UnderWay, Twins, Given
    <2>9. CASE q = r
      BY <2>2, <2>3, <2>4, <2>5, <2>6, <2>9 DEF Alive, UnderWay, Twins, Given
    <2>10. QED
      BY <2>7, <2>8, <2>9
  <1>2. CASE ~\E r \in Payout, u \in User, m \in RewardModule, days \in StreakDays,
               owner \in {None} \cup { Rew!ResolveReferralCode(c) : c \in RewardCode } :
                 Rew!StartClaim(r, u, m, days, owner)
    <2>1. /\ raced' = raced /\ lost \subseteq lost' /\ erased \subseteq erased'
          /\ \A t \in {p, q} : (Alive(t) /\ Rew!IsClaim(t))' =>
                                 Alive(t) /\ Rew!IsClaim(t) /\ payFor'[t] = payFor[t]
      BY <1>2, ClaimsKept DEF KeepsClaim
    <2>2. QED
      BY <2>1 DEF ClaimsRaced, Twins, Given, Rew!IsClaim
  <1>3. QED
    BY <1>1, <1>2

\* The invariant is kept.
LEMMA PaidAlways == Rew!Spec => []PaidInv
  <1>1. PaidInv /\ [Rew!Next]_Rew!vars => PaidInv'
    BY RewardTypeStep, BookedStep, RacedStep DEF PaidInv
  <1>2. QED
    BY RewardInit, <1>1, PTL DEF Rew!Spec

(* The books, the ledger and the requests keep their types                   *)
(* (reward.service.ts).                                                      *)
THEOREM RewardsTyped == Rew!Spec => []Rew!TypeOK
  BY PaidAlways, PTL DEF PaidInv

(* What is booked as completed was paid, and what was paid is completed or   *)
(* about to be, unless the payment was taken for failed on its way or a      *)
(* restart erased the books (claimReward, processWithdrawal).                *)
THEOREM Reconciled == Rew!Spec => []BooksAgree
  <1>1. PaidInv => BooksAgree
    BY DEF PaidInv, Booked, BooksAgree, Rew!BooksAgree, Given
  <1>2. QED
    BY <1>1, PaidAlways, PTL

(* A reward is paid to a user once, but for claims that were under way       *)
(* together, payments taken for failed and restarts (claimReward).           *)
THEOREM PaidOnce == Rew!Spec => []ClaimPaidOnce
  <1>1. PaidInv => ClaimPaidOnce
    BY DEF PaidInv, ClaimsRaced, ClaimPaidOnce, Rew!ClaimPaidOnce, Alive, Twins, Given, Rew!IsClaim
  <1>2. QED
    BY <1>1, PaidAlways, PTL

-------------------------------------------------------------------------------
(* Balances. *)

\* The sums over requests: with one more, one less, or none.
LEMMA RequestSums ==
  ASSUME NEW a \in [Payout -> Rew!Asking], NEW S \in SUBSET Payout
  PROVE  /\ Sum(a, S) \in Nat
         /\ S = {} => Sum(a, S) = 0
         /\ \A x \in Payout : a[x].amount \in Nat
         /\ \A x \in Payout \ S : Sum(a, S \cup {x}) = Sum(a, S) + a[x].amount
         /\ \A x \in S : Sum(a, S) = Sum(a, S \ {x}) + a[x].amount
         /\ \A b \in [Payout -> Rew!Asking] : (\A x \in S : b[x] = a[x]) => Sum(b, S) = Sum(a, S)
  <1>1. \A x \in Payout : a[x].amount \in Nat
    BY DEF Rew!Asking
  <1>2. IsFiniteSet(S)
    <2>1. IsFiniteSet(Payout)
      BY LearnerRewardsAssumption DEF Rew!RewardAssumption, Rew!IsFiniteSet, IsFiniteSet
    <2>2. QED
      BY <2>1, FS_Subset
  <1>3. ASSUME NEW x \in Payout \ S PROVE Sum(a, S \cup {x}) = Sum(a, S) + a[x].amount
    <2>1. IsFiniteSet(S \cup {x})
      BY <1>2, FS_AddElement
    <2>2. \A y \in S \cup {x} : a[y].amount \in Nat
      BY <1>1
    <2>3. Sum(a, S \cup {x}) = Sum(a, (S \cup {x}) \ {x}) + a[x].amount
      BY <2>1, <2>2, SumFacts
    <2>4. (S \cup {x}) \ {x} = S
      OBVIOUS
    <2>5. QED
      BY <2>3, <2>4
  <1>4. \A x \in S : a[x].amount \in Nat
    BY <1>1
  <1>5. QED
    BY <1>1, <1>2, <1>3, <1>4, SumFacts

\* The account of a user: the sums of completed rewards, completed and pending withdrawals.
Balanced(a, E, W, P) == Sum(a, W) + Sum(a, P) <= Sum(a, E)

Gained(u) == Rew!Rewards(u, "completed")
Spent(u) == Rew!Withdrawals(u, "completed")
Reserved(u) == Rew!Withdrawals(u, "pending")
Solvent(u) == Balanced(payFor, Gained(u), Spent(u), Reserved(u))

LEMMA Balances == Rew!NeverOverdrawn <=> \A u \in User : Solvent(u)
  BY DEF Rew!NeverOverdrawn, Solvent, Balanced, Gained, Spent, Reserved, Rew!Earned, Rew!Withdrawn, Rew!Pending, Rew!SumOf, Sum

\* No user is overdrawn by a step.
LEMMA OverdrawnStep ==
  Rew!TypeOK /\ Rew!TypeOK' /\ Booked /\ Rew!NeverOverdrawn /\ [Rew!Next]_Rew!vars => Rew!NeverOverdrawn'
  <1> SUFFICES ASSUME Rew!TypeOK, Rew!TypeOK', Booked, Rew!NeverOverdrawn, [Rew!Next]_Rew!vars
               PROVE  Rew!NeverOverdrawn'
    OBVIOUS
  <1> SUFFICES ASSUME NEW v \in User PROVE Solvent(v)'
    BY DEF Rew!NeverOverdrawn, Solvent, Balanced, Gained, Spent, Reserved, Rew!Earned, Rew!Withdrawn, Rew!Pending, Rew!SumOf, Sum
  <1>0. /\ Balanced(payFor, Gained(v), Spent(v), Reserved(v))
        /\ payFor \in [Payout -> Rew!Asking] /\ payFor' \in [Payout -> Rew!Asking]
        /\ Gained(v) \subseteq Payout /\ Spent(v) \subseteq Payout /\ Reserved(v) \subseteq Payout
    BY Balances DEF Rew!TypeOK, Gained, Spent, Reserved, Rew!Rewards, Rew!Withdrawals, Solvent
  <1>00. \A S \in SUBSET Payout :
           /\ Sum(payFor, S) \in Nat
           /\ \A x \in Payout : payFor[x].amount \in Nat
           /\ \A x \in Payout \ S : Sum(payFor, S \cup {x}) = Sum(payFor, S) + payFor[x].amount
           /\ \A x \in S : Sum(payFor, S) = Sum(payFor, S \ {x}) + payFor[x].amount
    BY <1>0, RequestSums
  \* Nothing is booked or settled.
  <1>1. ASSUME payFor' = payFor, book' = book PROVE Solvent(v)'
    BY <1>0, <1>1 DEF Gained, Spent, Reserved, Rew!Rewards, Rew!Withdrawals, Solvent
  <1>2. ASSUME NEW r \in Payout, NEW u \in User, NEW m \in RewardModule, NEW days, NEW owner,
               Rew!StartClaim(r, u, m, days, owner)
        PROVE  Solvent(v)'
    <2>1. book' = book /\ book[r] = "none" /\ \A q \in Payout : q # r => payFor'[q] = payFor[q]
      BY <1>2 DEF Rew!StartClaim, Rew!books, Booked, Rew!TypeOK
    <2>2. Gained(v)' = Gained(v) /\ Spent(v)' = Spent(v) /\ Reserved(v)' = Reserved(v)
      BY <2>1 DEF Gained, Spent, Reserved, Rew!Rewards, Rew!Withdrawals
    <2>3. r \notin Gained(v) /\ r \notin Spent(v) /\ r \notin Reserved(v)
      BY <2>1 DEF Gained, Spent, Reserved, Rew!Rewards, Rew!Withdrawals
    <2>4. /\ Sum(payFor', Gained(v)) = Sum(payFor, Gained(v))
          /\ Sum(payFor', Spent(v)) = Sum(payFor, Spent(v))
          /\ Sum(payFor', Reserved(v)) = Sum(payFor, Reserved(v))
      BY <1>0, <2>1, <2>3, RequestSums
    <2>5. QED
      BY <1>0, <2>2, <2>4 DEF Balanced, Solvent
  <1>3. ASSUME NEW r \in Payout, NEW u \in User, NEW n \in Amounts, Rew!StartWithdrawal(r, u, n)
        PROVE  Solvent(v)'
    <2> DEFINE x == [user |-> u, module |-> None, amount |-> n]
    <2>1. payFor' = [payFor EXCEPT ![r] = x] /\ x.user = u /\ x.module = None /\ x.amount = n
      BY <1>3 DEF Rew!StartWithdrawal, Rew!ProcessWithdrawal
    <2> HIDE DEF x
    <2>2. /\ book[r] = "none" /\ book' = [book EXCEPT ![r] = "pending"] /\ n \in Nat
          /\ n <= Rew!Available(u) /\ n > 0
      <3>1. n \in Nat
        BY <1>3, LearnerRewardsAssumption DEF Rew!RewardAssumption, Rew!StartWithdrawal, Rew!InRange
      <3>2. n <= Rew!Available(u) /\ n > 0 /\ book' = [book EXCEPT ![r] = "pending"]
        BY <1>3 DEF Rew!StartWithdrawal, Rew!ProcessWithdrawal, Rew!Settle
      <3>3. book[r] = "none"
        BY <1>3 DEF Rew!StartWithdrawal, Booked
      <3>4. QED
        BY <3>1, <3>2, <3>3
    <2>3. /\ \A q \in Payout : q # r => payFor'[q] = payFor[q] /\ book'[q] = book[q]
          /\ payFor'[r] = x /\ book'[r] = "pending"
      BY <2>1, <2>2 DEF Rew!TypeOK
    <2>4. /\ Gained(v)' = Gained(v) /\ Spent(v)' = Spent(v)
          /\ Reserved(v)' = IF u = v THEN Reserved(v) \cup {r} ELSE Reserved(v)
      BY <2>1, <2>2, <2>3 DEF Gained, Spent, Reserved, Rew!Rewards, Rew!Withdrawals
    <2>5. r \notin Gained(v) /\ r \notin Spent(v) /\ r \notin Reserved(v)
      BY <2>2 DEF Gained, Spent, Reserved, Rew!Rewards, Rew!Withdrawals
    <2>6. u = v => n <= Rew!ClampStroops(Sum(payFor, Gained(v)) - Sum(payFor, Spent(v)) - Sum(payFor, Reserved(v)),
                                     Sum(payFor, Gained(v)))
      BY <2>2 DEF Rew!Available, Gained, Spent, Reserved, Rew!Earned, Rew!Withdrawn, Rew!Pending, Rew!SumOf, Sum
    <2>7. /\ Sum(payFor', Gained(v)) = Sum(payFor, Gained(v))
          /\ Sum(payFor', Spent(v)) = Sum(payFor, Spent(v))
          /\ Sum(payFor', Reserved(v)) = Sum(payFor, Reserved(v))
          /\ Sum(payFor', Reserved(v) \cup {r}) = Sum(payFor', Reserved(v)) + n
      <3>1. ASSUME NEW S \in SUBSET Payout, r \notin S
            PROVE  /\ Sum(payFor', S) = Sum(payFor, S)
                   /\ Sum(payFor', S \cup {r}) = Sum(payFor', S) + payFor'[r].amount
        <4>1. \A y \in S : payFor'[y] = payFor[y]
          BY <2>3, <3>1
        <4>2. QED
          BY <1>0, <3>1, <4>1, RequestSums
      <3>2. QED
        BY <1>0, <2>1, <2>3, <2>5, <3>1
    <2>8. Sum(payFor, Gained(v)) \in Nat /\ Sum(payFor, Spent(v)) \in Nat /\ Sum(payFor, Reserved(v)) \in Nat
      BY <1>0, RequestSums
    <2>9. CASE u = v
      <3>1. Sum(payFor, Gained(v)) - Sum(payFor, Spent(v)) - Sum(payFor, Reserved(v)) >= n
        BY <2>2, <2>6, <2>8, <2>9 DEF Rew!ClampStroops
      <3>2. Sum(payFor', Reserved(v)') = Sum(payFor, Reserved(v)) + n
        BY <2>4, <2>7, <2>9
      <3>3. QED
        BY <2>2, <2>4, <2>7, <2>8, <3>1, <3>2 DEF Balanced, Solvent
    <2>10. CASE u # v
      BY <1>0, <2>4, <2>7, <2>10 DEF Balanced, Solvent
    <2>11. QED
      BY <2>9, <2>10
  <1>4. ASSUME NEW r \in Payout, Rew!Confirmed(r) PROVE Solvent(v)'
    <2>1. /\ payFor' = payFor /\ book' = [book EXCEPT ![r] = "completed"]
          /\ book[r] = IF Rew!IsClaim(r) THEN "none" ELSE "pending"
      BY <1>4 DEF Rew!Confirmed, Rew!Complete, Rew!Settle, Booked, UnderWay
    <2>2. \A q \in Payout : book'[q] = IF q = r THEN "completed" ELSE book[q]
      BY <2>1 DEF Rew!TypeOK
    <2>3. CASE payFor[r].user # v
      <3>1. Gained(v)' = Gained(v) /\ Spent(v)' = Spent(v) /\ Reserved(v)' = Reserved(v)
        BY <2>1, <2>2, <2>3 DEF Gained, Spent, Reserved, Rew!Rewards, Rew!Withdrawals
      <3>2. QED
        BY <1>0, <2>1, <3>1 DEF Solvent
    <2>4. CASE payFor[r].user = v /\ Rew!IsClaim(r)
      <3>1. r \notin Gained(v) /\ Gained(v)' = Gained(v) \cup {r} /\ Spent(v)' = Spent(v) /\ Reserved(v)' = Reserved(v)
        BY <2>1, <2>2, <2>4 DEF Gained, Spent, Reserved, Rew!Rewards, Rew!Withdrawals, Rew!IsClaim
      <3>2. /\ Sum(payFor, Gained(v) \cup {r}) = Sum(payFor, Gained(v)) + payFor[r].amount
            /\ payFor[r].amount \in Nat /\ Sum(payFor, Gained(v)) \in Nat
            /\ Sum(payFor, Spent(v)) \in Nat /\ Sum(payFor, Reserved(v)) \in Nat
        BY <1>0, <1>00, <3>1
      <3>3. QED
        BY <1>0, <2>1, <3>1, <3>2 DEF Balanced, Solvent
    <2>5. CASE payFor[r].user = v /\ ~Rew!IsClaim(r)
      <3>1. /\ r \in Reserved(v) /\ r \notin Spent(v) /\ Gained(v)' = Gained(v)
            /\ Spent(v)' = Spent(v) \cup {r} /\ Reserved(v)' = Reserved(v) \ {r}
        <4>1. r \in Reserved(v) /\ r \notin Spent(v)
          BY <2>1, <2>5 DEF Spent, Reserved, Rew!Withdrawals, Rew!IsClaim
        <4>2. Gained(v)' = Gained(v)
          BY <2>1, <2>2, <2>5 DEF Gained, Rew!Rewards, Rew!IsClaim
        <4>3. Spent(v)' = Spent(v) \cup {r}
          BY <2>1, <2>2, <2>5 DEF Spent, Rew!Withdrawals, Rew!IsClaim
        <4>4. Reserved(v)' = Reserved(v) \ {r}
          BY <2>1, <2>2, <2>5 DEF Reserved, Rew!Withdrawals, Rew!IsClaim
        <4>5. QED
          BY <4>1, <4>2, <4>3, <4>4
      <3>2. Reserved(v) \ {r} \subseteq Payout
        BY <1>0
      <3>3. /\ Sum(payFor, Spent(v) \cup {r}) = Sum(payFor, Spent(v)) + payFor[r].amount
            /\ Sum(payFor, Reserved(v)) = Sum(payFor, Reserved(v) \ {r}) + payFor[r].amount
            /\ payFor[r].amount \in Nat /\ Sum(payFor, Gained(v)) \in Nat
            /\ Sum(payFor, Spent(v)) \in Nat /\ Sum(payFor, Reserved(v) \ {r}) \in Nat
        BY <1>0, <1>00, <3>1, <3>2
      <3>4. QED
        BY <1>0, <2>1, <3>1, <3>3 DEF Balanced, Solvent
    <2>6. QED
      BY <2>3, <2>4, <2>5
  <1>5. ASSUME NEW r \in Payout, Rew!NotSent(r) \/ Rew!Refused(r) \/ Rew!TimedOut(r) PROVE Solvent(v)'
    <2>1. CASE Rew!IsClaim(r)
      BY <1>1, <1>5, <2>1 DEF Rew!NotSent, Rew!Refused, Rew!TimedOut, Rew!Fail
    <2>2. CASE ~Rew!IsClaim(r)
      <3>1. /\ payFor' = payFor /\ book' = [book EXCEPT ![r] = "failed"]
            /\ book[r] = "pending"
        BY <1>5, <2>2 DEF Rew!NotSent, Rew!Refused, Rew!TimedOut, Rew!Fail, Rew!Settle, Booked, UnderWay
      <3>2. \A q \in Payout : book'[q] = IF q = r THEN "failed" ELSE book[q]
        BY <3>1 DEF Rew!TypeOK
      <3>3. /\ Gained(v)' = Gained(v) /\ Spent(v)' = Spent(v) /\ Reserved(v)' = Reserved(v) \ {r}
            /\ Reserved(v) \ {r} \subseteq Payout
        BY <2>2, <3>1, <3>2 DEF Gained, Spent, Reserved, Rew!Rewards, Rew!Withdrawals, Rew!IsClaim
      <3>4. CASE r \in Reserved(v)
        <4>1. /\ Sum(payFor, Reserved(v)) = Sum(payFor, Reserved(v) \ {r}) + payFor[r].amount
              /\ payFor[r].amount \in Nat /\ Sum(payFor, Gained(v)) \in Nat
              /\ Sum(payFor, Spent(v)) \in Nat /\ Sum(payFor, Reserved(v) \ {r}) \in Nat
          BY <1>0, <3>3, <3>4, RequestSums
        <4>2. QED
          BY <1>0, <3>1, <3>3, <4>1 DEF Balanced, Solvent
      <3>5. CASE r \notin Reserved(v)
        <4>1. Reserved(v) \ {r} = Reserved(v)
          BY <3>5
        <4>2. QED
          BY <1>0, <3>1, <3>3, <4>1 DEF Solvent
      <3>6. QED
        BY <3>4, <3>5
    <2>3. QED
      BY <2>1, <2>2
  <1>6. CASE Rew!Restart
    <2>1. Gained(v)' = {} /\ Spent(v)' = {} /\ Reserved(v)' = {}
      BY <1>6 DEF Rew!Restart, Gained, Spent, Reserved, Rew!Rewards, Rew!Withdrawals
    <2>2. {} \subseteq Payout
      OBVIOUS
    <2>3. Sum(payFor', {}) = 0
      BY <1>0, <2>2, RequestSums
    <2>4. QED
      BY <2>1, <2>3 DEF Balanced, Solvent
  <1>7. ASSUME NEW r \in Payout, Rew!LoadAccount(r) \/ Rew!Submit(r) \/ Rew!Settles(r) PROVE Solvent(v)'
    <2>1. payFor' = payFor /\ book' = book
      BY <1>7 DEF Rew!LoadAccount, Rew!Submit, Rew!Settles, Rew!Lands, Rew!Drops, Rew!books
    <2>2. QED
      BY <1>1, <2>1
  <1>8. ASSUME NEW c \in RewardCode, NEW u \in User, Rew!RegisterReferralCode(c, u) PROVE Solvent(v)'
    BY <1>1, <1>8 DEF Rew!RegisterReferralCode
  <1>9. CASE UNCHANGED Rew!vars
    BY <1>1, <1>9 DEF Rew!vars, Rew!books
  <1>10. QED
    <2>1. QED
      BY <1>2, <1>3, <1>4, <1>5, <1>6, <1>7, <1>8, <1>9 DEF Rew!Next, Rew!Starts, Rew!Answers

(* Whatever requests overlap, no user withdraws, or has reserved for         *)
(* withdrawals under way, more than the rewards booked for that user         *)
(* (processWithdrawal, hasSufficientBalance).                                *)
THEOREM SolventAlways == Rew!Spec => []NeverOverdrawn
  <1>1. Rew!Init => Rew!NeverOverdrawn
    <2> SUFFICES ASSUME Rew!Init, NEW v \in User
                 PROVE  Solvent(v)
      BY Balances
    <2>1. Gained(v) = {} /\ Spent(v) = {} /\ Reserved(v) = {}
      BY DEF Rew!Init, Rew!NoBooks, Gained, Spent, Reserved, Rew!Rewards, Rew!Withdrawals
    <2>2. payFor \in [Payout -> Rew!Asking]
      BY RewardInit DEF PaidInv, Rew!TypeOK
    <2>3. {} \subseteq Payout
      OBVIOUS
    <2>4. Sum(payFor, {}) = 0
      BY <2>2, <2>3, RequestSums
    <2>5. QED
      BY <2>1, <2>4 DEF Balanced, Solvent
  <1>2. PaidInv /\ PaidInv' /\ Rew!NeverOverdrawn /\ [Rew!Next]_Rew!vars => Rew!NeverOverdrawn'
    BY OverdrawnStep DEF PaidInv
  <1>3. QED
    BY <1>1, <1>2, PaidAlways, PTL DEF Rew!Spec, NeverOverdrawn

===============================================================================
