----------------------- MODULE ScheduledJobRunner_proofs -----------------------
(* Proofs about ScheduledJobRunner, for any queues, runners, chains, faults. *)
EXTENDS ScheduledJobRunner, TLAPS

-------------------------------------------------------------------------------
(* Types *)

\* A chain is a triple of its runner, its queue and its slot.
LEMMA TickParts ==
  ASSUME NEW t \in Tick
  PROVE  t[1] \in Runner /\ t[2] \in Queue /\ t = <<t[1], t[2], t[3]>>
BY DEF Tick

\* A token is never taken for "no token".
LEMMA NoTickIsNone == NoTick \notin Tick
BY RunnerAssumption DEF Tick

\* The end of a tick keeps the types of what it writes.
LEMMA SettleTypes ==
  ASSUME TypeOK, NEW t \in Tick, Settle(t)
  PROVE  /\ pc' \in [Tick -> Pc]
         /\ timers' \in [Runner -> SUBSET Tick]
         /\ inFlight' \in [Runner -> SUBSET Tick]
         /\ pending' \in [Runner -> SUBSET Tick]
         /\ UNCHANGED <<started, stopping, gaveUp>>
<1>1. t[1] \in Runner BY TickParts
<1>2. timers[t[1]] \in SUBSET Tick BY <1>1 DEF TypeOK
<1>3. inFlight[t[1]] \in SUBSET Tick BY <1>1 DEF TypeOK
<1>4. pending[t[1]] \in SUBSET Tick BY <1>1 DEF TypeOK
<1>5. pc' \in [Tick -> Pc]
  BY DEF Settle, TypeOK, Goto, Pc
<1>6. Put(timers[t[1]], t) \in SUBSET Tick /\ Without(inFlight[t[1]], t) \in SUBSET Tick
  BY <1>2, <1>3 DEF Put, Without
<1>7. timers' \in [Runner -> SUBSET Tick]
  BY <1>1, <1>6 DEF Settle, TypeOK
<1>8. inFlight' \in [Runner -> SUBSET Tick]
  BY <1>1, <1>6 DEF Settle, TypeOK
<1>9. pending' \in [Runner -> SUBSET Tick]
  BY <1>1, <1>4 DEF Settle, TypeOK
<1> QED BY <1>5, <1>7, <1>8, <1>9 DEF Settle

\* The end of a process keeps the types of what it writes.
LEMMA VanishTypes ==
  ASSUME TypeOK, NEW r \in Runner, Vanish(r)
  PROVE  /\ pc' \in [Tick -> Pc]
         /\ timers' \in [Runner -> SUBSET Tick]
         /\ inFlight' \in [Runner -> SUBSET Tick]
         /\ pending' \in [Runner -> SUBSET Tick]
         /\ started' \in [Runner -> BOOLEAN]
         /\ stopping' \in [Runner -> BOOLEAN]
         /\ UNCHANGED <<lease, beat, lost, gaveUp>>
BY DEF Vanish, TypeOK, Pc

\* The empty tables and maps have the declared types.
LEMMA TypeInit == Init => TypeOK
BY DEF Init, TypeOK, NoLease, Lease, Pc

\* Every action keeps the declared types.
LEMMA TypeStep == TypeOK /\ [Next]_vars => TypeOK'
<1> SUFFICES ASSUME TypeOK, [Next]_vars PROVE TypeOK'
  OBVIOUS
<1>1. ASSUME NEW r \in Runner, RunnerStep(r) PROVE TypeOK'
  <2>1. CASE Start(r)
    <3>1. PICK slot \in [Queue -> Slot] :
            /\ pc' = [t \in Tick |-> IF t \in { <<r, q, slot[q]>> : q \in Queue }
                                     THEN "timer" ELSE pc[t]]
            /\ timers' = [timers EXCEPT ![r] = { <<r, q, slot[q]>> : q \in Queue }]
      BY <2>1 DEF Start
    <3>2. { <<r, q, slot[q]>> : q \in Queue } \in SUBSET Tick
      BY DEF Tick
    <3>3. pc' \in [Tick -> Pc]
      BY <3>1 DEF TypeOK, Pc
    <3>4. timers' \in [Runner -> SUBSET Tick]
      BY <3>1, <3>2 DEF TypeOK
    <3> QED BY <2>1, <3>3, <3>4 DEF Start, TypeOK
  <2>2. CASE Stop(r)
    BY <2>2 DEF Stop, TypeOK, Pc
  <2>3. CASE StopDone(r)
    BY <2>3 DEF StopDone, TypeOK
  <2>4. CASE StopGivesUp(r)
    BY <2>4 DEF StopGivesUp, TypeOK
  <2>5. CASE Crash(r)
    BY <2>5, VanishTypes DEF Crash, Fault, TypeOK
  <2>6. CASE Exit(r)
    BY <2>6, VanishTypes DEF Exit, TypeOK
  <2> QED BY <1>1, <2>1, <2>2, <2>3, <2>4, <2>5, <2>6 DEF RunnerStep
<1>2. ASSUME NEW t \in Tick, TickStep(t) PROVE TypeOK'
  <2>0. t[1] \in Runner /\ t[2] \in Queue BY TickParts
  <2>1. CASE Fire(t)
    <3>1. timers[t[1]] \in SUBSET Tick /\ inFlight[t[1]] \in SUBSET Tick
      BY <2>0 DEF TypeOK
    <3>2. Without(timers[t[1]], t) \in SUBSET Tick /\ Tracked(inFlight[t[1]], t) \in SUBSET Tick
      BY <3>1 DEF Without, Tracked, Put
    <3>3. pc' \in [Tick -> Pc]
      BY <2>1 DEF Fire, Goto, TypeOK, Pc
    <3> QED BY <2>0, <2>1, <3>2, <3>3 DEF Fire, TypeOK
  <2>2. CASE Acquire(t)
    <3>1. lease' \in [Queue -> Lease]
      BY <2>0, <2>2 DEF Acquire, LeaseTo, TypeOK, Lease
    <3> QED BY <2>2, <3>1 DEF Acquire, TypeOK, Goto, Pc, maps
  <2>3. CASE Skip(t)
    BY <2>3, SettleTypes DEF Skip, TypeOK
  <2>4. CASE AcquireFails(t)
    <3>0. [token |-> t, expired |-> FALSE] \in Lease
      BY DEF Lease
    <3>1. lease' \in [Queue -> Lease] /\ beat' \in [Tick -> BOOLEAN]
      <4>1. CASE UNCHANGED <<lease, beat>>
        BY <4>1 DEF TypeOK
      <4>2. CASE lease' = LeaseTo(t) /\ beat' = [beat EXCEPT ![t] = FALSE]
        BY <2>0, <3>0, <4>2 DEF LeaseTo, TypeOK
      <4> QED BY <2>4, <4>1, <4>2 DEF AcquireFails
    <3>2. faults' \in Nat
      BY <2>4 DEF AcquireFails, Fault, TypeOK
    <3> QED BY <2>4, <3>1, <3>2, SettleTypes DEF AcquireFails, TypeOK
  <2>5. CASE DrainEnds(t)
    BY <2>5 DEF DrainEnds, TypeOK, Goto, Pc, maps
  <2>6. CASE Release(t)
    <3>1. lease' \in [Queue -> Lease]
      BY <2>0, <2>6 DEF Release, NoLease, TypeOK, Lease
    <3> QED BY <2>6, <3>1, SettleTypes DEF Release, TypeOK
  <2>7. CASE ReleaseFails(t)
    BY <2>7, SettleTypes DEF ReleaseFails, Fault, TypeOK
  <2> QED BY <1>2, <2>1, <2>2, <2>3, <2>4, <2>5, <2>6, <2>7 DEF TickStep
<1>3. ASSUME NEW t \in Tick, BeatStep(t) PROVE TypeOK'
  <2>0. t[2] \in Queue BY TickParts
  <2>1. CASE SendBeat(t)
    BY <2>1 DEF SendBeat, TypeOK, maps
  <2>2. CASE BeatArrives(t)
    <3>0. [lease[t[2]] EXCEPT !.expired = FALSE] \in Lease
      BY <2>0, ZenonT(60) DEF TypeOK, Lease
    <3>1. lease' \in [Queue -> Lease]
      BY <2>0, <2>2, <3>0 DEF BeatArrives, TypeOK
    <3> QED BY <2>2, <3>1 DEF BeatArrives, TypeOK, maps
  <2>3. CASE BeatLost(t)
    BY <2>3 DEF BeatLost, Fault, TypeOK, maps
  <2> QED BY <1>3, <2>1, <2>2, <2>3 DEF BeatStep
<1>4. ASSUME NEW q \in Queue, LeaseExpires(q) PROVE TypeOK'
  <2>1. lease' \in [Queue -> Lease]
    BY <1>4 DEF LeaseExpires, TypeOK, Lease
  <2> QED BY <1>4, <2>1 DEF LeaseExpires, TypeOK, maps
<1>5. CASE UNCHANGED vars
  BY <1>5 DEF vars, maps, TypeOK
<1> QED BY <1>1, <1>2, <1>3, <1>4, <1>5 DEF Next

(* Type correctness of the runners and of the lease table.                  *)
THEOREM TypeCorrect == Spec => []TypeOK
BY TypeInit, TypeStep, PTL DEF Spec

-------------------------------------------------------------------------------
(* The lease protects the drain *)

\* Nobody drains at the start.
LEMMA ProtectInit == Init => LeaseProtects
BY DEF Init, LeaseProtects, Busy

\* The end of a tick leaves it with nothing to protect and moves no other tick.
LEMMA SettleEnds ==
  ASSUME TypeOK, NEW t \in Tick, Settle(t)
  PROVE  /\ pc'[t] \in {"timer", "none"}
         /\ \A s \in Tick : s # t => pc'[s] = pc[s]
BY DEF Settle, Goto, TypeOK

(* An acquisition finds the row free, so that no other tick is protected:   *)
(* this is where the WHERE of the upsert is needed.                         *)
LEMMA AcquireAlone ==
  ASSUME TypeOK, LeaseProtects, NEW t \in Tick, Free(t[2]),
         NEW s \in Tick, s[2] = t[2], Busy(s)
  PROVE  lost[s]
<1> SUFFICES ASSUME ~lost[s] PROVE FALSE
  OBVIOUS
<1>1. lease[s[2]] = [token |-> s, expired |-> FALSE]
  BY DEF LeaseProtects
<1>2. lease[t[2]].token = s /\ ~lease[t[2]].expired
  BY <1>1
<1> QED BY <1>2, NoTickIsNone DEF Free

\* A tick takes, keeps, loses and gives back only its own lease.
LEMMA ProtectTick ==
  ASSUME TypeOK, LeaseProtects, NEW t \in Tick, TickStep(t)
  PROVE  LeaseProtects'
<1>0. t[1] \in Runner /\ t[2] \in Queue BY TickParts
<1>00. \A s \in Tick : s[2] \in Queue BY TickParts
<1>1. CASE Fire(t)
  <2>1. pc'[t] \notin {"drain", "release"} /\ \A s \in Tick : s # t => pc'[s] = pc[s]
    BY <1>1 DEF Fire, Goto, TypeOK
  <2> QED BY <1>1, <2>1 DEF Fire, LeaseProtects, Busy
<1>2. CASE Acquire(t)
  <2>1. /\ lease'[t[2]] = [token |-> t, expired |-> FALSE]
        /\ \A q \in Queue : q # t[2] => lease'[q] = lease[q]
    BY <1>0, <1>2 DEF Acquire, LeaseTo, TypeOK
  <2>2. /\ pc'[t] = "drain" /\ \A s \in Tick : s # t => pc'[s] = pc[s]
        /\ \A s \in Tick : s # t => lost'[s] = lost[s]
    BY <1>2 DEF Acquire, Goto, TypeOK
  <2>3. \A s \in Tick : s[2] = t[2] /\ Busy(s) => lost[s]
    BY <1>2, AcquireAlone DEF Acquire
  <2> QED BY <1>0, <1>00, <2>1, <2>2, <2>3 DEF LeaseProtects, Busy
<1>3. CASE Skip(t)
  BY <1>3, SettleEnds DEF Skip, LeaseProtects, Busy
<1>4. CASE AcquireFails(t)
  <2>1. /\ pc'[t] \in {"timer", "none"} /\ \A s \in Tick : s # t => pc'[s] = pc[s]
        /\ UNCHANGED lost
    BY <1>4, SettleEnds DEF AcquireFails
  <2>2. CASE UNCHANGED lease
    BY <2>1, <2>2 DEF LeaseProtects, Busy
  <2>3. CASE Free(t[2]) /\ lease' = LeaseTo(t)
    <3>1. \A q \in Queue : q # t[2] => lease'[q] = lease[q]
      BY <1>0, <2>3 DEF LeaseTo, TypeOK
    <3>2. \A s \in Tick : s[2] = t[2] /\ Busy(s) => lost[s]
      BY <2>3, AcquireAlone
    <3> QED BY <1>00, <2>1, <3>1, <3>2 DEF LeaseProtects, Busy
  <2> QED BY <1>4, <2>2, <2>3 DEF AcquireFails
<1>5. CASE DrainEnds(t)
  <2>1. /\ pc[t] = "drain" /\ \A s \in Tick : s # t => pc'[s] = pc[s]
        /\ UNCHANGED <<lease, lost>>
    BY <1>5 DEF DrainEnds, Goto, TypeOK, maps
  <2> QED BY <2>1 DEF LeaseProtects, Busy
<1>6. CASE Release(t)
  <2>1. /\ pc'[t] \in {"timer", "none"} /\ \A s \in Tick : s # t => pc'[s] = pc[s]
        /\ UNCHANGED lost
    BY <1>6, SettleEnds DEF Release
  <2>2. \A q \in Queue : lease'[q] = lease[q] \/ (q = t[2] /\ lease[q].token = t)
    BY <1>0, <1>6 DEF Release, Owns, TypeOK
  <2>3. ASSUME NEW s \in Tick, Busy(s), ~lost[s] PROVE lease[s[2]].token = s
    <3>1. lease[s[2]] = [token |-> s, expired |-> FALSE]
      BY <2>3 DEF LeaseProtects
    <3> QED BY <3>1
  <2> QED BY <1>00, <2>1, <2>2, <2>3 DEF LeaseProtects, Busy
<1>7. CASE ReleaseFails(t)
  BY <1>7, SettleEnds DEF ReleaseFails, LeaseProtects, Busy
<1> QED BY <1>1, <1>2, <1>3, <1>4, <1>5, <1>6, <1>7 DEF TickStep

\* Every step keeps the protection.
LEMMA ProtectStep == TypeOK /\ LeaseProtects /\ [Next]_vars => LeaseProtects'
<1> SUFFICES ASSUME TypeOK, LeaseProtects, [Next]_vars PROVE LeaseProtects'
  OBVIOUS
<1>0. \A s \in Tick : s[2] \in Queue BY TickParts
<1>1. ASSUME NEW r \in Runner, RunnerStep(r) PROVE LeaseProtects'
  <2>1. UNCHANGED <<lease, lost>>
    BY <1>1 DEF RunnerStep, Start, Stop, StopDone, StopGivesUp, Crash, Exit, Vanish
  <2>2. \A s \in Tick : pc'[s] = pc[s] \/ pc'[s] \in {"timer", "none"}
    BY <1>1 DEF RunnerStep, Start, Stop, StopDone, StopGivesUp, Crash, Exit, Vanish
  <2> QED BY <2>1, <2>2 DEF LeaseProtects, Busy
<1>2. ASSUME NEW t \in Tick, TickStep(t) PROVE LeaseProtects'
  BY <1>2, ProtectTick
<1>3. ASSUME NEW t \in Tick, BeatStep(t) PROVE LeaseProtects'
  <2>0. t[2] \in Queue BY TickParts
  <2>1. UNCHANGED <<pc, lost>>
    BY <1>3 DEF BeatStep, SendBeat, BeatArrives, BeatLost
  <2>2. \A q \in Queue :
          \/ lease'[q] = lease[q]
          \/ lease'[q] = [lease[q] EXCEPT !.expired = FALSE]
    BY <1>3, <2>0 DEF BeatStep, SendBeat, BeatArrives, BeatLost, TypeOK
  <2>3. \A q \in Queue : lease[q] \in Lease
    BY DEF TypeOK
  <2>4. ASSUME NEW s \in Tick, Busy(s), ~lost[s] PROVE lease'[s[2]] = lease[s[2]]
    <3>1. lease[s[2]] = [token |-> s, expired |-> FALSE]
      BY <2>4 DEF LeaseProtects
    <3>2. /\ lease'[s[2]] \in Lease
          /\ lease'[s[2]].token = s
          /\ lease'[s[2]].expired = FALSE
      BY <1>0, <2>2, <2>3, <3>1 DEF Lease
    <3> QED BY <3>1, <3>2 DEF Lease
  <2> QED BY <2>1, <2>4 DEF LeaseProtects, Busy
<1>4. ASSUME NEW q \in Queue, LeaseExpires(q) PROVE LeaseProtects'
  <2>1. lease[q].token \in Tick
    BY <1>4 DEF LeaseExpires, TypeOK, Lease
  <2>2. lost'[lease[q].token] /\ \A s \in Tick : s # lease[q].token => lost'[s] = lost[s]
    BY <1>4, <2>1 DEF LeaseExpires, TypeOK
  <2>3. \A p \in Queue : p # q => lease'[p] = lease[p]
    BY <1>4 DEF LeaseExpires, TypeOK
  <2>4. UNCHANGED pc
    BY <1>4 DEF LeaseExpires
  <2> QED BY <1>0, <2>2, <2>3, <2>4 DEF LeaseProtects, Busy
<1>5. CASE UNCHANGED vars
  BY <1>5 DEF vars, maps, LeaseProtects, Busy
<1> QED BY <1>1, <1>2, <1>3, <1>4, <1>5 DEF Next

(* A drain whose lease never ran out still has the row, for every number of *)
(* replicas, queues and chains, every fault and however often start() is    *)
(* called again.                                                            *)
THEOREM LeaseProtected == Spec => []LeaseProtects
BY TypeInit, TypeStep, ProtectInit, ProtectStep, PTL DEF Spec

-------------------------------------------------------------------------------
(* The runners implement the lock *)

\* There is never more than one trusted holder: its lease is the row.
LEMMA OneTrusted ==
  ASSUME LeaseProtects, NEW q \in Queue, NEW s \in Trusted[q], NEW t \in Trusted[q]
  PROVE  s = t
<1>1. s \in Tick /\ s[2] = q /\ Busy(s) /\ ~lost[s] /\ t \in Tick /\ t[2] = q /\ Busy(t) /\ ~lost[t]
  BY DEF Trusted
<1>2. lease[q] = [token |-> s, expired |-> FALSE] /\ lease[q] = [token |-> t, expired |-> FALSE]
  BY <1>1 DEF LeaseProtects
<1>3. lease[q].token = s /\ lease[q].token = t
  BY <1>2
<1> QED BY <1>3

\* A step in which no tick becomes trusted revokes some trust, or none.
LEMMA TrustShrinks ==
  ASSUME LeaseProtects,
         \A s \in Tick : (Busy(s) /\ ~lost[s])' => Busy(s) /\ ~lost[s]
  PROVE  \E Q \in SUBSET Queue : Lock!Revoke(Q)
<1> DEFINE Q == { q \in Queue : Trusted'[q] = {} }
<1>1. ASSUME NEW q \in Queue PROVE Trusted'[q] = IF q \in Q THEN {} ELSE Trusted[q]
  <2>1. Trusted'[q] \subseteq Trusted[q]
    BY DEF Trusted
  <2>2. CASE q \in Q
    BY <2>2
  <2>3. CASE q \notin Q
    <3>1. PICK t \in Trusted'[q] : TRUE
      BY <2>3
    <3>2. Trusted[q] = {t}
      BY <2>1, <3>1, OneTrusted
    <3> QED BY <2>1, <2>3, <3>1, <3>2
  <2> QED BY <2>2, <2>3
<1>2. Trusted' = [q \in Queue |-> Trusted'[q]]
  BY DEF Trusted
<1>3. Trusted' = [q \in Queue |-> IF q \in Q THEN {} ELSE Trusted[q]]
  BY <1>1, <1>2
<1>4. Lock!Revoke(Q)
  BY <1>3 DEF Lock!Revoke
<1> QED BY <1>4

\* An acquisition finds nobody trusted and makes its tick the holder.
LEMMA AcquireGrants ==
  ASSUME TypeOK, LeaseProtects, NEW t \in Tick, Acquire(t)
  PROVE  Lock!Grant(t[2], t)
<1>0. t[2] \in Queue BY TickParts
<1>1. \A s \in Tick : s[2] = t[2] /\ Busy(s) => lost[s]
  BY AcquireAlone DEF Acquire
<1>2. /\ pc'[t] = "drain" /\ \A s \in Tick : s # t => pc'[s] = pc[s]
      /\ ~lost'[t] /\ \A s \in Tick : s # t => lost'[s] = lost[s]
  BY DEF Acquire, Goto, TypeOK
<1>3. Trusted[t[2]] = {}
  BY <1>0, <1>1 DEF Trusted
<1>4. Trusted'[t[2]] = {t}
  BY <1>0, <1>1, <1>2 DEF Trusted, Busy
<1>5. ASSUME NEW q \in Queue, q # t[2] PROVE Trusted'[q] = Trusted[q]
  BY <1>2, <1>5 DEF Trusted, Busy
<1>6. Trusted' = [Trusted EXCEPT ![t[2]] = {t}]
  <2>1. Trusted' = [q \in Queue |-> Trusted'[q]]
    BY DEF Trusted
  <2>2. [Trusted EXCEPT ![t[2]] = {t}]
          = [q \in Queue |-> IF q = t[2] THEN {t} ELSE Trusted[q]]
    BY DEF Trusted
  <2>3. \A q \in Queue : Trusted'[q] = IF q = t[2] THEN {t} ELSE Trusted[q]
    BY <1>4, <1>5
  <2> QED BY <2>1, <2>2, <2>3
<1> QED BY <1>3, <1>6 DEF Lock!Grant

\* Every other step leaves at most the ticks trusted that already were.
LEMMA LockStep == TypeOK /\ LeaseProtects /\ [Next]_vars => [Lock!Next]_Trusted
<1> SUFFICES ASSUME TypeOK, LeaseProtects, [Next]_vars PROVE [Lock!Next]_Trusted
  OBVIOUS
<1> DEFINE Shrinks == \A s \in Tick : (Busy(s) /\ ~lost[s])' => Busy(s) /\ ~lost[s]
<1>0. Shrinks => [Lock!Next]_Trusted
  BY TrustShrinks DEF Lock!Next
<1>1. ASSUME NEW r \in Runner, RunnerStep(r) PROVE Shrinks
  <2>1. UNCHANGED lost
    BY <1>1 DEF RunnerStep, Start, Stop, StopDone, StopGivesUp, Crash, Exit, Vanish
  <2>2. \A s \in Tick : pc'[s] = pc[s] \/ pc'[s] \in {"timer", "none"}
    BY <1>1 DEF RunnerStep, Start, Stop, StopDone, StopGivesUp, Crash, Exit, Vanish
  <2> QED BY <2>1, <2>2 DEF Busy
<1>2. ASSUME NEW t \in Tick, TickStep(t) PROVE [Lock!Next]_Trusted
  <2>1. CASE Acquire(t)
    BY <2>1, AcquireGrants, TickParts DEF Lock!Next
  <2>2. CASE Skip(t) \/ AcquireFails(t) \/ Release(t) \/ ReleaseFails(t)
    <3>1. Settle(t) /\ UNCHANGED lost
      BY <2>2 DEF Skip, AcquireFails, Release, ReleaseFails
    <3>2. Shrinks
      BY <3>1, SettleEnds DEF Busy
    <3> QED BY <1>0, <3>2
  <2>3. CASE Fire(t) \/ DrainEnds(t)
    <3>1. UNCHANGED lost
      BY <2>3 DEF Fire, DrainEnds
    <3>2. \A s \in Tick : s # t => pc'[s] = pc[s]
      BY <2>3 DEF Fire, DrainEnds, Goto, TypeOK
    <3>3. pc'[t] \in {"none", "acquire"} \/ pc[t] = "drain"
      BY <2>3 DEF Fire, DrainEnds, Goto, TypeOK
    <3>4. Shrinks
      BY <3>1, <3>2, <3>3 DEF Busy
    <3> QED BY <1>0, <3>4
  <2> QED BY <1>2, <2>1, <2>2, <2>3 DEF TickStep
<1>3. ASSUME NEW t \in Tick, BeatStep(t) PROVE Shrinks
  BY <1>3 DEF BeatStep, SendBeat, BeatArrives, BeatLost, Busy
<1>4. ASSUME NEW q \in Queue, LeaseExpires(q) PROVE Shrinks
  BY <1>4 DEF LeaseExpires, TypeOK, Busy
<1>5. CASE UNCHANGED vars
  BY <1>5 DEF vars, maps, Trusted, Busy
<1> QED BY <1>0, <1>1, <1>2, <1>3, <1>4, <1>5 DEF Next

(* The runners implement the lock: trust in a queue's holder is given to    *)
(* one tick at a time, and only when nobody has it.                         *)
THEOREM ImplementsLock == Spec => LockSpec
<1>1. Init => Lock!Init
  BY DEF Init, Lock!Init, Trusted, Busy
<1> QED BY <1>1, LockStep, TypeInit, TypeStep, ProtectInit, ProtectStep, PTL
        DEF Spec, LockSpec, Lock!Spec

-------------------------------------------------------------------------------
(* A clean stop *)

Running(t) == pc[t] \in {"acquire", "drain", "release"}

\* A queue has one chain in a process.
OneChain(r) ==
  \A s, t \in TicksOf(r) :
    s[2] = t[2] /\ pc[s] # "none" /\ pc[t] # "none" => s = t

\* Nothing is displaced: the maps hold every timer and every running tick.
MapsAgree(r) ==
  /\ timers[r] = { t \in TicksOf(r) : pc[t] = "timer" }
  /\ inFlight[r] = { t \in TicksOf(r) : Running(t) }

\* stop() has cleared the timers and waits for every tick in flight.
StopWaits(r) == Stopping(r) => timers[r] = {} /\ pending[r] = inFlight[r]

DownIsEmpty(r) == ~started[r] => \A t \in TicksOf(r) : pc[t] = "none"

\* Only a tick that is draining has its token in the table.
NotParked(r) ==
  faults = 0 => \A t \in TicksOf(r) : lease[t[2]].token = t => Busy(t)

\* What CleanStop rests on, for a runner whose stop() never gave up.
CleanRunner(r) ==
  /\ OneChain(r)
  /\ MapsAgree(r)
  /\ StopWaits(r)
  /\ DownIsEmpty(r)
  /\ NotParked(r)

CleanInv == \A r \in Runner : ~gaveUp[r] => CleanRunner(r)

\* A process that has done nothing is clean.
LEMMA CleanInit == Init => CleanInv
<1> SUFFICES ASSUME Init, NEW r \in Runner PROVE CleanRunner(r)
  BY DEF CleanInv
<1>1. \A t \in TicksOf(r) : t \in Tick /\ t[2] \in Queue /\ pc[t] = "none"
  BY TickParts DEF Init, TicksOf
<1>2. \A t \in TicksOf(r) : lease[t[2]].token # t
  BY <1>1, NoTickIsNone DEF Init, NoLease
<1> QED
  BY <1>1, <1>2 DEF Init, CleanRunner, OneChain, MapsAgree, StopWaits, DownIsEmpty,
                    NotParked, Running, Stopping

(* What another process does changes nothing of a runner: its chains, maps  *)
(* and flags are its own, and nobody writes its tokens.                     *)
LEMMA CleanFrame ==
  ASSUME NEW r \in Runner, CleanRunner(r), faults \in Nat, faults' >= faults, faults' \in Nat,
         \A t \in TicksOf(r) : pc'[t] = pc[t],
         timers'[r] = timers[r], inFlight'[r] = inFlight[r], pending'[r] = pending[r],
         started'[r] = started[r], stopping'[r] = stopping[r],
         \A t \in TicksOf(r) : lease'[t[2]].token = t => lease[t[2]].token = t
  PROVE  CleanRunner(r)'
<1>1. OneChain(r)' BY DEF CleanRunner, OneChain, TicksOf
<1>2. MapsAgree(r)' BY DEF CleanRunner, MapsAgree, TicksOf, Running
<1>3. StopWaits(r)' BY DEF CleanRunner, StopWaits, Stopping
<1>4. DownIsEmpty(r)' BY DEF CleanRunner, DownIsEmpty, TicksOf
<1>5. NotParked(r)' BY DEF CleanRunner, NotParked, TicksOf, Busy
<1> QED BY <1>1, <1>2, <1>3, <1>4, <1>5 DEF CleanRunner

\* A tick that is over leaves its runner clean if it leaves no token behind.
LEMMA CleanSettle ==
  ASSUME TypeOK, NEW t \in Tick, CleanRunner(t[1]), Running(t), Settle(t),
         faults' = 0 => faults = 0,
         faults' = 0 => lease'[t[2]].token # t,
         faults' = 0 =>
           \A s \in TicksOf(t[1]) : s # t /\ lease'[s[2]].token = s => lease[s[2]].token = s
  PROVE  CleanRunner(t[1])'
<1> DEFINE r == t[1]
<1>0. r \in Runner /\ t[2] \in Queue /\ t \in TicksOf(r) BY TickParts DEF TicksOf
<1>00. TicksOf(r) \subseteq Tick BY DEF TicksOf
<1>1. /\ pc'[t] = IF stopping[r] THEN "none" ELSE "timer"
      /\ \A s \in Tick : s # t => pc'[s] = pc[s]
  BY DEF Settle, GoesOn, Goto, TypeOK
<1>2. \A s \in TicksOf(r) : s[2] = t[2] /\ pc[s] # "none" => s = t
  BY <1>0 DEF CleanRunner, OneChain, Running
<1>3. /\ inFlight'[r] = Without(inFlight[r], t)
      /\ pending'[r] = pending[r] \ {t}
      /\ timers'[r] = IF stopping[r] THEN timers[r] ELSE Put(timers[r], t)
      /\ UNCHANGED <<started, stopping>>
  BY <1>0 DEF Settle, GoesOn, TypeOK
<1>4. inFlight'[r] = inFlight[r] \ {t}
  BY <1>0, <1>2, <1>3 DEF Without, CleanRunner, MapsAgree, Running
<1>5. timers'[r] = IF stopping[r] THEN timers[r] ELSE timers[r] \cup {t}
  BY <1>0, <1>2, <1>3 DEF Put, Without, CleanRunner, MapsAgree
<1>6. started[r]
  BY <1>0 DEF CleanRunner, DownIsEmpty, Running
<1>7. OneChain(r)'
  BY <1>00, <1>1, <1>2, <1>0 DEF CleanRunner, OneChain, TicksOf
<1>8. MapsAgree(r)'
  BY <1>0, <1>00, <1>1, <1>4, <1>5 DEF CleanRunner, MapsAgree, Running, TicksOf
<1>9. StopWaits(r)'
  BY <1>3, <1>4, <1>5 DEF CleanRunner, StopWaits, Stopping
<1>10. DownIsEmpty(r)'
  BY <1>3, <1>6 DEF DownIsEmpty
<1>11. NotParked(r)'
  BY <1>00, <1>1 DEF CleanRunner, NotParked, TicksOf, Busy
<1> QED BY <1>7, <1>8, <1>9, <1>10, <1>11 DEF CleanRunner

\* start(), stop() and the end of a process leave their own runner clean.
LEMMA CleanRunnerStep ==
  ASSUME TypeOK, TypeOK', NEW r \in Runner, CleanRunner(r), RunnerStep(r), ~gaveUp'[r]
  PROVE  CleanRunner(r)'
<1>0. \A t \in TicksOf(r) : t \in Tick /\ t[1] = r /\ t[2] \in Queue
  BY TickParts DEF TicksOf
<1>1. CASE Start(r)
  <2>1. PICK slot \in [Queue -> Slot] :
          /\ pc' = [t \in Tick |-> IF t \in { <<r, q, slot[q]>> : q \in Queue }
                                   THEN "timer" ELSE pc[t]]
          /\ timers' = [timers EXCEPT ![r] = { <<r, q, slot[q]>> : q \in Queue }]
    BY <1>1 DEF Start
  <2> DEFINE new == { <<r, q, slot[q]>> : q \in Queue }
  <2>2. new \subseteq TicksOf(r)
    BY DEF Tick, TicksOf
  <2>3. \A t \in TicksOf(r) : pc[t] = "none"
    BY <1>1 DEF Start, CleanRunner, DownIsEmpty
  <2>4. \A t \in TicksOf(r) : pc'[t] = IF t \in new THEN "timer" ELSE "none"
    BY <1>0, <2>1, <2>3
  <2>5. \A s, t \in new : s[2] = t[2] => s = t
    OBVIOUS
  <2>6. /\ timers'[r] = new /\ inFlight'[r] = {}
        /\ started'[r] /\ ~stopping'[r] /\ UNCHANGED <<lease, faults>>
    BY <1>1, <2>1, <2>3 DEF Start, TypeOK, CleanRunner, MapsAgree, Running
  <2>7. OneChain(r)'
    BY <2>4, <2>5 DEF OneChain, TicksOf
  <2>8. MapsAgree(r)'
    BY <2>2, <2>4, <2>6 DEF MapsAgree, Running, TicksOf
  <2>9. StopWaits(r)' /\ DownIsEmpty(r)'
    BY <2>6 DEF StopWaits, Stopping, DownIsEmpty
  <2>10. NotParked(r)'
    BY <2>3, <2>6 DEF CleanRunner, NotParked, TicksOf, Busy
  <2> QED BY <2>7, <2>8, <2>9, <2>10 DEF CleanRunner
<1>2. CASE Stop(r)
  <2>1. \A t \in TicksOf(r) : pc'[t] = IF pc[t] = "timer" THEN "none" ELSE pc[t]
    BY <1>0, <1>2 DEF Stop, CleanRunner, MapsAgree
  <2>2. /\ timers'[r] = {} /\ pending'[r] = inFlight[r] /\ inFlight' = inFlight
        /\ stopping'[r] /\ started'[r] = (inFlight[r] # {})
        /\ UNCHANGED <<lease, faults>>
    BY <1>2 DEF Stop, TypeOK
  <2>3. OneChain(r)'
    BY <2>1 DEF CleanRunner, OneChain, TicksOf
  <2>4. MapsAgree(r)'
    BY <2>1, <2>2 DEF CleanRunner, MapsAgree, Running, TicksOf
  <2>5. StopWaits(r)'
    BY <2>2 DEF StopWaits, Stopping
  <2>6. DownIsEmpty(r)'
    <3>1. SUFFICES ASSUME inFlight[r] = {}, NEW t \in TicksOf(r) PROVE pc'[t] = "none"
      BY <2>2 DEF DownIsEmpty, TicksOf
    <3>2. ~Running(t)
      BY <3>1 DEF CleanRunner, MapsAgree
    <3>3. pc[t] \in Pc
      BY <1>0 DEF TypeOK
    <3> QED BY <2>1, <3>2, <3>3 DEF Running, Pc
  <2>7. NotParked(r)'
    BY <2>1, <2>2 DEF CleanRunner, NotParked, TicksOf, Busy
  <2> QED BY <2>3, <2>4, <2>5, <2>6, <2>7 DEF CleanRunner
<1>3. CASE StopDone(r)
  <2>1. \A t \in TicksOf(r) : pc[t] = "none"
    <3>1. timers[r] = {} /\ inFlight[r] = {}
      BY <1>3 DEF StopDone, Drained, CleanRunner, StopWaits
    <3>2. \A t \in TicksOf(r) : pc[t] \in Pc /\ pc[t] # "timer" /\ ~Running(t)
      BY <1>0, <3>1 DEF CleanRunner, MapsAgree, TypeOK
    <3> QED BY <3>2 DEF Running, Pc
  <2>2. ~started'[r] /\ UNCHANGED <<lease, pc, timers, inFlight, faults>>
    BY <1>3 DEF StopDone, TypeOK
  <2> QED BY <2>1, <2>2 DEF CleanRunner, OneChain, MapsAgree, StopWaits, Stopping,
                            DownIsEmpty, NotParked, TicksOf, Busy, Running
<1>4. CASE StopGivesUp(r)
  BY <1>4 DEF StopGivesUp, TypeOK
<1>5. CASE Vanish(r) /\ (faults' = 0 => Exit(r))
  <2>1. \A t \in TicksOf(r) : pc'[t] = "none"
    BY <1>0, <1>5 DEF Vanish
  <2>2. /\ timers'[r] = {} /\ inFlight'[r] = {} /\ ~started'[r] /\ UNCHANGED lease
    BY <1>5 DEF Vanish, TypeOK
  <2>3. faults' = 0 => faults = 0 /\ \A t \in TicksOf(r) : pc[t] = "none"
    BY <1>5 DEF Exit, CleanRunner, DownIsEmpty
  <2>4. NotParked(r)'
    BY <2>2, <2>3 DEF CleanRunner, NotParked, TicksOf, Busy
  <2> QED BY <2>1, <2>2, <2>4 DEF CleanRunner, OneChain, MapsAgree, StopWaits, Stopping,
                                  DownIsEmpty, TicksOf, Running
<1>6. CASE Crash(r)
  BY <1>5, <1>6 DEF Crash, Fault, TypeOK
<1>7. CASE Exit(r)
  BY <1>5, <1>7 DEF Exit
<1> QED BY <1>1, <1>2, <1>3, <1>4, <1>6, <1>7 DEF RunnerStep

\* A step of a tick leaves its own runner clean.
LEMMA CleanTickStep ==
  ASSUME TypeOK, NEW t \in Tick, CleanRunner(t[1]), TickStep(t)
  PROVE  CleanRunner(t[1])'
<1> DEFINE r == t[1]
<1>0. r \in Runner /\ t[2] \in Queue /\ t \in TicksOf(r) BY TickParts DEF TicksOf
<1>00. \A s \in TicksOf(r) : s \in Tick /\ s[2] \in Queue BY TickParts DEF TicksOf
<1>1. CASE Fire(t)
  <2>1. started[r] /\ ~stopping[r]
    BY <1>0, <1>1 DEF Fire, CleanRunner, DownIsEmpty, StopWaits, Stopping, MapsAgree
  <2>2. pc[t] = "timer" /\ pc'[t] = "acquire" /\ \A s \in Tick : s # t => pc'[s] = pc[s]
    BY <1>1, <2>1 DEF Fire, Goto, TypeOK
  <2>3. \A s \in TicksOf(r) : s[2] = t[2] /\ pc[s] # "none" => s = t
    BY <1>0, <2>2 DEF CleanRunner, OneChain
  <2>4. /\ timers'[r] = Without(timers[r], t)
        /\ inFlight'[r] = Put(inFlight[r], t)
        /\ UNCHANGED <<lease, started, stopping, faults>>
    BY <1>0, <1>1, <2>1 DEF Fire, Tracked, TypeOK
  <2>5. timers'[r] = timers[r] \ {t} /\ inFlight'[r] = inFlight[r] \cup {t}
    BY <1>0, <2>3, <2>4 DEF Put, Without, CleanRunner, MapsAgree, Running
  <2>6. OneChain(r)'
    BY <1>00, <2>2, <2>3 DEF CleanRunner, OneChain, TicksOf
  <2>7. MapsAgree(r)'
    BY <1>0, <1>00, <2>2, <2>5 DEF CleanRunner, MapsAgree, Running, TicksOf
  <2>8. StopWaits(r)' /\ DownIsEmpty(r)'
    BY <2>1, <2>4 DEF StopWaits, Stopping, DownIsEmpty
  <2>9. NotParked(r)'
    BY <1>00, <2>2, <2>4 DEF CleanRunner, NotParked, TicksOf, Busy
  <2> QED BY <2>6, <2>7, <2>8, <2>9 DEF CleanRunner
<1>2. CASE Acquire(t) \/ DrainEnds(t)
  <2>1. /\ pc[t] \in {"acquire", "drain"} /\ pc'[t] \in {"drain", "release"}
        /\ \A s \in Tick : s # t => pc'[s] = pc[s]
        /\ UNCHANGED <<timers, inFlight, started, stopping, pending, faults>>
    BY <1>2 DEF Acquire, DrainEnds, Goto, TypeOK, maps
  <2>2. \A q \in Queue : lease'[q].token # t => lease'[q] = lease[q]
    BY <1>0, <1>2 DEF Acquire, DrainEnds, LeaseTo, TypeOK
  <2>3. OneChain(r)'
    BY <1>00, <2>1 DEF CleanRunner, OneChain, TicksOf
  <2>4. MapsAgree(r)'
    BY <1>00, <2>1 DEF CleanRunner, MapsAgree, Running, TicksOf
  <2>5. StopWaits(r)' /\ DownIsEmpty(r)'
    BY <1>0, <2>1 DEF CleanRunner, StopWaits, Stopping, DownIsEmpty, TicksOf
  <2>6. NotParked(r)'
    BY <1>00, <2>1, <2>2 DEF CleanRunner, NotParked, TicksOf, Busy
  <2> QED BY <2>3, <2>4, <2>5, <2>6 DEF CleanRunner
<1>3. CASE Skip(t)
  <2>1. pc[t] = "acquire" /\ Settle(t) /\ UNCHANGED <<lease, faults>>
    BY <1>3 DEF Skip
  <2>2. faults = 0 => lease[t[2]].token # t
    BY <1>0, <2>1 DEF CleanRunner, NotParked, Busy
  <2> QED BY <2>1, <2>2, CleanSettle DEF Running
<1>4. CASE Release(t)
  <2>1. pc[t] = "release" /\ Settle(t) /\ UNCHANGED faults
    BY <1>4 DEF Release
  <2>2. lease'[t[2]].token # t
    BY <1>0, <1>4, NoTickIsNone DEF Release, Owns, NoLease, TypeOK
  <2>3. \A q \in Queue : lease'[q] = lease[q] \/ lease'[q].token = NoTick
    BY <1>0, <1>4 DEF Release, NoLease, TypeOK
  <2>4. \A s \in TicksOf(r) : lease'[s[2]].token = s => lease[s[2]].token = s
    BY <1>00, <2>3, NoTickIsNone
  <2> QED BY <2>1, <2>2, <2>4, CleanSettle DEF Running
<1>5. CASE AcquireFails(t) \/ ReleaseFails(t)
  <2>1. Running(t) /\ Settle(t) /\ faults' # 0
    BY <1>5 DEF AcquireFails, ReleaseFails, Fault, Running, TypeOK
  <2> QED BY <2>1, CleanSettle
<1> QED BY <1>1, <1>2, <1>3, <1>4, <1>5 DEF TickStep

\* The table's own runner apart, a tick writes nobody's memory and no other token.
LEMMA TickFrame ==
  ASSUME TypeOK, NEW t \in Tick, TickStep(t), NEW r \in Runner, r # t[1]
  PROVE  /\ \A s \in TicksOf(r) : pc'[s] = pc[s]
         /\ timers'[r] = timers[r] /\ inFlight'[r] = inFlight[r]
         /\ pending'[r] = pending[r] /\ started'[r] = started[r]
         /\ stopping'[r] = stopping[r]
         /\ \A s \in TicksOf(r) : lease'[s[2]].token = s => lease[s[2]].token = s
         /\ faults' \in Nat /\ faults' >= faults
<1>0. t[2] \in Queue BY TickParts
<1>00. \A s \in TicksOf(r) : s \in Tick /\ s # t /\ s[2] \in Queue BY TickParts DEF TicksOf
<1>1. /\ \A s \in TicksOf(r) : pc'[s] = pc[s]
      /\ timers'[r] = timers[r] /\ inFlight'[r] = inFlight[r]
      /\ pending'[r] = pending[r] /\ started' = started /\ stopping' = stopping
  <2>1. CASE Settle(t)
    BY <1>00, <2>1 DEF Settle, Goto, TypeOK
  <2>2. CASE Fire(t)
    BY <1>00, <2>2 DEF Fire, Goto, TypeOK
  <2>3. CASE Acquire(t) \/ DrainEnds(t)
    BY <1>00, <2>3 DEF Acquire, DrainEnds, Goto, TypeOK, maps
  <2> QED BY <2>1, <2>2, <2>3 DEF TickStep, Skip, AcquireFails, Release, ReleaseFails
<1>2. \A q \in Queue : \/ lease'[q] = lease[q]
                       \/ lease'[q].token \in {t, NoTick}
  BY <1>0 DEF TickStep, Fire, Acquire, Skip, AcquireFails, DrainEnds, Release, ReleaseFails,
              LeaseTo, NoLease, TypeOK
<1>3. \A s \in TicksOf(r) : lease'[s[2]].token = s => lease[s[2]].token = s
  BY <1>00, <1>2, NoTickIsNone
<1>4. faults' \in Nat /\ faults' >= faults
  BY DEF TickStep, Fire, Acquire, Skip, AcquireFails, DrainEnds, Release, ReleaseFails,
         Fault, TypeOK
<1> QED BY <1>1, <1>3, <1>4

\* A runner's map holds its own timers, whatever was displaced.
OwnTimers == \A r \in Runner : timers[r] \subseteq TicksOf(r)

\* Timers are put into the map of their own runner only.
LEMMA OwnTimersStep == TypeOK /\ OwnTimers /\ [Next]_vars => OwnTimers'
<1> SUFFICES ASSUME TypeOK, OwnTimers, [Next]_vars, NEW r \in Runner
             PROVE  timers'[r] \subseteq TicksOf(r)
  BY DEF OwnTimers, TicksOf
<1>1. ASSUME NEW v \in Runner, RunnerStep(v) PROVE timers'[r] \subseteq TicksOf(r)
  <2>1. CASE Start(v)
    <3>1. PICK slot \in [Queue -> Slot] :
            timers' = [timers EXCEPT ![v] = { <<v, q, slot[q]>> : q \in Queue }]
      BY <2>1 DEF Start
    <3>2. { <<v, q, slot[q]>> : q \in Queue } \subseteq TicksOf(v)
      BY DEF Tick, TicksOf
    <3> QED BY <3>1, <3>2 DEF OwnTimers, TypeOK
  <2>2. CASE ~Start(v)
    BY <1>1, <2>2 DEF RunnerStep, Stop, StopDone, StopGivesUp, Crash, Exit, Vanish,
                      OwnTimers, TypeOK
  <2> QED BY <2>1, <2>2
<1>2. ASSUME NEW t \in Tick, TickStep(t) PROVE timers'[r] \subseteq TicksOf(r)
  <2>1. timers'[r] \subseteq timers[r] \/ (r = t[1] /\ timers'[r] \subseteq timers[r] \cup {t})
    BY <1>2, TickParts DEF TickStep, Fire, Acquire, Skip, AcquireFails, DrainEnds, Release,
         ReleaseFails, Settle, Put, Without, maps, TypeOK
  <2> QED BY <2>1 DEF OwnTimers, TicksOf
<1>3. CASE UNCHANGED timers
  BY <1>3 DEF OwnTimers
<1> QED
  BY <1>1, <1>2, <1>3 DEF Next, BeatStep, SendBeat, BeatArrives, BeatLost, LeaseExpires,
                          vars, maps

\* Every step keeps every runner clean whose stop() never gave up.
LEMMA CleanStep == TypeOK /\ TypeOK' /\ OwnTimers /\ CleanInv /\ [Next]_vars => CleanInv'
<1> SUFFICES ASSUME TypeOK, TypeOK', OwnTimers, CleanInv, [Next]_vars,
                    NEW r \in Runner, ~gaveUp'[r]
             PROVE  CleanRunner(r)'
  BY DEF CleanInv
<1>0. \A t \in TicksOf(r) : t \in Tick /\ t[1] = r /\ t[2] \in Queue
  BY TickParts DEF TicksOf
<1>1. ASSUME NEW v \in Runner, RunnerStep(v) PROVE CleanRunner(r)'
  <2>1. ~gaveUp[r]
    BY <1>1 DEF RunnerStep, Start, Stop, StopDone, StopGivesUp, Crash, Exit, Vanish, TypeOK
  <2>2. CASE v = r
    BY <1>1, <2>1, <2>2, CleanRunnerStep DEF CleanInv
  <2>3. CASE v # r
    <3>1. \A t \in TicksOf(r) : pc'[t] = pc[t]
      BY <1>0, <1>1, <2>3 DEF RunnerStep, Start, Stop, StopDone, StopGivesUp, Crash, Exit,
                              Vanish, OwnTimers, TicksOf
    <3>2. /\ timers'[r] = timers[r] /\ inFlight'[r] = inFlight[r]
          /\ pending'[r] = pending[r] /\ started'[r] = started[r]
          /\ stopping'[r] = stopping[r] /\ lease' = lease
          /\ faults' \in Nat /\ faults' >= faults
      BY <1>1, <2>3 DEF RunnerStep, Start, Stop, StopDone, StopGivesUp, Crash, Exit,
                        Vanish, Fault, TypeOK
    <3> QED BY <2>1, <3>1, <3>2, CleanFrame DEF CleanInv, TypeOK
  <2> QED BY <2>2, <2>3
<1>2. ASSUME NEW t \in Tick, TickStep(t) PROVE CleanRunner(r)'
  <2>1. ~gaveUp[r]
    BY <1>2 DEF TickStep, Fire, Acquire, Skip, AcquireFails, DrainEnds, Release,
                ReleaseFails, Settle, maps
  <2>2. CASE r = t[1]
    BY <1>2, <2>1, <2>2, CleanTickStep DEF CleanInv
  <2>3. CASE r # t[1]
    BY <1>2, <2>1, <2>3, TickFrame, CleanFrame DEF CleanInv, TypeOK
  <2> QED BY <2>2, <2>3
<1>3. ASSUME UNCHANGED <<pc, maps>>, faults' \in Nat, faults' >= faults,
             \A q \in Queue : lease'[q].token = lease[q].token
      PROVE  CleanRunner(r)'
  BY <1>0, <1>3, CleanFrame DEF CleanInv, maps, TypeOK
<1>4. ASSUME NEW t \in Tick, BeatStep(t) PROVE CleanRunner(r)'
  <2>0. t[2] \in Queue /\ \A q \in Queue : lease[q] \in Lease
    BY TickParts DEF TypeOK
  <2>1. UNCHANGED <<pc, maps>> /\ faults' \in Nat /\ faults' >= faults
    BY <1>4 DEF BeatStep, SendBeat, BeatArrives, BeatLost, Fault, TypeOK
  <2>2. \A q \in Queue : \/ lease'[q] = lease[q]
                         \/ lease'[q] = [lease[q] EXCEPT !.expired = FALSE]
    BY <1>4, <2>0 DEF BeatStep, SendBeat, BeatArrives, BeatLost, TypeOK
  <2>3. \A q \in Queue : lease'[q].token = lease[q].token
    BY <2>0, <2>2 DEF Lease
  <2> QED BY <1>3, <2>1, <2>3
<1>5. ASSUME NEW q \in Queue, LeaseExpires(q) PROVE CleanRunner(r)'
  <2>1. \A p \in Queue : lease[p] \in Lease
    BY DEF TypeOK
  <2>2. \A p \in Queue : \/ lease'[p] = lease[p]
                         \/ lease'[p] = [lease[p] EXCEPT !.expired = TRUE]
    BY <1>5 DEF LeaseExpires, TypeOK
  <2>3. \A p \in Queue : lease'[p].token = lease[p].token
    BY <2>1, <2>2 DEF Lease
  <2> QED BY <1>3, <1>5, <2>3 DEF LeaseExpires, TypeOK
<1>6. CASE UNCHANGED vars
  BY <1>3, <1>6 DEF vars, TypeOK
<1> QED BY <1>1, <1>2, <1>4, <1>5, <1>6 DEF Next

(* After a stop() that met its deadline, in a process none of whose stop()s *)
(* ever gave up, no tick is left and no queue is parked, for any number of  *)
(* replicas, queues and failed statements.                                  *)
THEOREM CleanShutdown == Spec => []CleanStop
<1>1. Init => OwnTimers
  BY DEF Init, OwnTimers
<1>2. CleanInv => CleanStop
  <2> SUFFICES ASSUME CleanInv, NEW r \in Runner, Stopped(r), ~gaveUp[r],
                      NEW t \in TicksOf(r)
               PROVE  pc[t] = "none" /\ (faults = 0 => lease[t[2]].token # t)
    BY DEF CleanStop
  <2>1. pc[t] = "none"
    BY DEF CleanInv, CleanRunner, DownIsEmpty, Stopped
  <2> QED BY <2>1 DEF CleanInv, CleanRunner, NotParked, Busy
<1> QED BY <1>1, <1>2, TypeInit, TypeStep, CleanInit, OwnTimersStep, CleanStep, PTL DEF Spec
-------------------------------------------------------------------------------
(* The safety half of QueueServed: somebody is there to serve the queue.   *)

(* A runner that is up has a chain for each of its queues: a timer, a tick *)
(* or a drain of it that lives (start, tick and runQueue of the runner).   *)
Serving(r) ==
  started[r] /\ ~stopping[r] =>
    \A q \in Queue : \E t \in TicksOf(r) : t[2] = q /\ pc[t] # "none"

QueuesAttended == \A r \in Runner : Serving(r)

(* A step that leaves the runner up and ends none of its chains: nothing   *)
(* but stop() and the end of the process may do more.                      *)
LEMMA ServingKept ==
  ASSUME NEW r \in Runner, Serving(r), started'[r] = started[r],
         stopping'[r] = stopping[r],
         \A t \in TicksOf(r) : pc[t] # "none" => pc'[t] # "none"
  PROVE  Serving(r)'
  BY DEF Serving, TicksOf

(* Every outcome of a tick, of its acquire, its drain and its release,     *)
(* failures too, re-arms the timer of its queue unless stop() has begun.   *)
LEMMA AttendedTick ==
  ASSUME TypeOK, QueuesAttended, NEW t \in Tick, TickStep(t)
  PROVE  QueuesAttended'
<1>0. started' = started /\ stopping' = stopping /\ t[1] \in Runner /\ t[2] \in Queue
  BY TickParts DEF TickStep, Fire, Acquire, Skip, AcquireFails, DrainEnds, Release,
     ReleaseFails, Settle, maps
<1>1. \E l : Goto(t, l) /\ (~stopping[t[1]] => l # "none")
  BY DEF TickStep, Fire, Acquire, Skip, AcquireFails, DrainEnds, Release,
     ReleaseFails, Settle, GoesOn
<1>2. PICK l : pc' = [pc EXCEPT ![t] = l] /\ (~stopping[t[1]] => l # "none")
  BY <1>1 DEF Goto
<1>3. ASSUME NEW r \in Runner PROVE Serving(r)'
  <2>1. CASE stopping[r]
    BY <1>0, <2>1 DEF Serving
  <2>2. CASE ~stopping[r]
    <3>1. ASSUME NEW s \in TicksOf(r), pc[s] # "none" PROVE pc'[s] # "none"
      BY <1>2, <2>2, <3>1 DEF TicksOf, TypeOK
    <3>2. Serving(r)
      BY DEF QueuesAttended
    <3> QED BY <1>0, <3>1, <3>2, ServingKept
  <2> QED BY <2>1, <2>2
<1> QED BY <1>3 DEF QueuesAttended

(* start() arms a timer for each queue; stop() and a crash end chains of   *)
(* their own runner only.                                                  *)
LEMMA AttendedRunner ==
  ASSUME TypeOK, OwnTimers, QueuesAttended, NEW r \in Runner, RunnerStep(r)
  PROVE  QueuesAttended'
<1>0. ASSUME NEW s \in Runner PROVE Serving(s)
  BY DEF QueuesAttended
<1>1. ASSUME NEW s \in Runner, s # r PROVE Serving(s)'
  <2>1. started'[s] = started[s] /\ stopping'[s] = stopping[s]
    BY <1>1 DEF RunnerStep, Start, Stop, StopDone, StopGivesUp, Crash, Exit, Vanish, TypeOK
  <2>2. ASSUME NEW t \in TicksOf(s), pc[t] # "none" PROVE pc'[t] # "none"
    <3>1. t \in Tick /\ t[1] = s
      BY DEF TicksOf
    <3>2. CASE Start(r)
      BY <2>2, <3>1, <3>2 DEF Start, TypeOK
    <3>3. CASE Stop(r)
      <4>1. t \notin timers[r]
        BY <1>1, <3>1 DEF OwnTimers, TicksOf
      <4> QED BY <2>2, <3>1, <3>3, <4>1 DEF Stop, TypeOK
    <3>4. CASE StopDone(r) \/ StopGivesUp(r)
      BY <2>2, <3>4 DEF StopDone, StopGivesUp
    <3>5. CASE Crash(r) \/ Exit(r)
      BY <1>1, <2>2, <3>1, <3>5 DEF Crash, Exit, Vanish, TypeOK
    <3> QED BY <3>2, <3>3, <3>4, <3>5 DEF RunnerStep
  <2> QED BY <1>0, <2>1, <2>2, ServingKept
<1>2. Serving(r)'
  <2>1. CASE Start(r)
    <3>1. PICK slot \in [Queue -> Slot] :
            pc' = [t \in Tick |-> IF t \in { <<r, q, slot[q]>> : q \in Queue }
                                  THEN "timer" ELSE pc[t]]
      BY <2>1 DEF Start
    <3>2. ASSUME NEW q \in Queue
          PROVE  \E t \in TicksOf(r) : t[2] = q /\ pc'[t] # "none"
      <4>1. <<r, q, slot[q]>> \in TicksOf(r) /\ pc'[<<r, q, slot[q]>>] = "timer"
        BY <3>1 DEF TicksOf, Tick
      <4> QED BY <4>1
    <3> QED BY <3>2 DEF Serving, TicksOf
  <2>2. CASE Stop(r)
    BY <2>2 DEF Stop, Serving, TypeOK
  <2>3. CASE StopDone(r) \/ StopGivesUp(r) \/ Crash(r) \/ Exit(r)
    BY <2>3 DEF StopDone, StopGivesUp, Crash, Exit, Vanish, Serving, TypeOK
  <2> QED BY <2>1, <2>2, <2>3 DEF RunnerStep
<1> QED BY <1>1, <1>2 DEF QueuesAttended

(* No queue of a runner that is up is ever left without a chain, whatever  *)
(* statements fail and however acquire, drain, release, start and stop     *)
(* interleave: an error that ends a tick for good would silence its queue  *)
(* on this replica, and no other step would arm its timer again.           *)
THEOREM Attended == Spec => []QueuesAttended
<1>1. Init => QueuesAttended
  BY DEF Init, QueuesAttended, Serving
<1>2. TypeOK /\ OwnTimers /\ QueuesAttended /\ [Next]_vars => QueuesAttended'
  <2> SUFFICES ASSUME TypeOK, OwnTimers, QueuesAttended, [Next]_vars PROVE QueuesAttended'
    OBVIOUS
  <2>1. CASE \E t \in Tick : TickStep(t)
    BY <2>1, AttendedTick
  <2>2. CASE \E r \in Runner : RunnerStep(r)
    BY <2>2, AttendedRunner
  <2>3. CASE \/ \E t \in Tick : BeatStep(t)
             \/ \E q \in Queue : LeaseExpires(q)
             \/ UNCHANGED vars
    <3>1. pc' = pc /\ started' = started /\ stopping' = stopping
      BY <2>3 DEF BeatStep, SendBeat, BeatArrives, BeatLost, LeaseExpires, maps, vars
    <3> QED BY <3>1 DEF QueuesAttended, Serving, TicksOf
  <2> QED BY <2>1, <2>2, <2>3 DEF Next
<1>3. Init => OwnTimers
  BY DEF Init, OwnTimers
<1> QED BY <1>1, <1>2, <1>3, TypeInit, TypeStep, OwnTimersStep, PTL DEF Spec
===============================================================================
