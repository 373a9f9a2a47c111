------------------------- MODULE RateLimiterProofs -------------------------
(***************************************************************************)
(* The rate limiter spaces its passes by the interval for any number of    *)
(* callers and limiters and any interval.  The argument: only the mutex    *)
(* holder writes rl.last, a waiting holder's timer is not due before       *)
(* last + Interval, and every pass recorded is at most last.  From the     *)
(* spacing follows the rate.                                               *)
(***************************************************************************)
EXTENDS RateLimiter, FiniteSetTheorems, TLAPS

\* What a waiting caller knows about its timer, which stays true because the
\* limiter's `last` cannot change under it.
TimerCoversInterval ==
    \A c \in Callers : pc[c] = "wait" =>
        /\ last[LimiterOf[c]] # 0
        /\ timer[c] >= last[LimiterOf[c]] + Interval

\* rl.last is the time of the limiter's latest pass.
LastIsLatest ==
    /\ \A l \in Limiters : last[l] =< now
    /\ \A i \in 1..Len(passes) :
          /\ last[passes[i].limiter] # 0
          /\ passes[i].at =< last[passes[i].limiter]

Inv == TypeOK /\ MutexOwned /\ TimerCoversInterval /\ LastIsLatest /\ Spaced

LEMMA PassesType ==
    ASSUME TypeOK, NEW i \in 1..Len(passes)
    PROVE  passes[i].limiter \in Limiters /\ passes[i].at \in Nat
<1> DEFINE Passes == [limiter : Limiters, at : Nat]
<1>1. passes \in Seq(Passes)
  BY DEF TypeOK
<1>2. passes[i] \in Passes
  <2> HIDE DEF Passes
  <2> QED BY <1>1
<1> QED BY <1>2

LEMMA InitInv ==
    ASSUME Init
    PROVE  Inv
<1> USE LimiterAssumption
<1>1. passes \in Seq([limiter : Limiters, at : Nat]) /\ Len(passes) = 0
  BY DEF Init
<1>2. TypeOK
  <2>1. /\ pc \in [Callers -> {"out", "lock", "held", "wait"}]
        /\ holder \in [Limiters -> Callers \cup {NoCaller}]
        /\ last \in [Limiters -> Nat] /\ timer \in [Callers -> Nat]
        /\ rounds \in [Callers -> 0..MaxRounds] /\ now \in Nat \ {0}
    BY DEF Init
  <2> QED BY <1>1, <2>1 DEF Init, TypeOK
<1>3. MutexOwned /\ TimerCoversInterval
  BY DEF Init, MutexOwned, TimerCoversInterval
<1>4. LastIsLatest /\ Spaced
  BY <1>1 DEF Init, LastIsLatest, Spaced
<1> QED BY <1>2, <1>3, <1>4 DEF Inv

\* A pass by the mutex holder that comes late enough keeps the invariant.
LEMMA PassInv ==
    ASSUME Inv, NEW c \in Callers, pc[c] \in {"held", "wait"}, Pass(c),
           last[LimiterOf[c]] = 0 \/ now >= last[LimiterOf[c]] + Interval
    PROVE  Inv'
<1> USE LimiterAssumption
<1> DEFINE l == LimiterOf[c]
           n == Len(passes)
           new == [limiter |-> l, at |-> now]
<1>1. /\ TypeOK /\ MutexOwned /\ TimerCoversInterval /\ LastIsLatest /\ Spaced
      /\ l \in Limiters /\ n \in Nat /\ now \in Nat
  BY DEF Inv, TypeOK
<1>2. new \in [limiter : Limiters, at : Nat]
  BY <1>1
<1>3. /\ passes' \in Seq([limiter : Limiters, at : Nat])
      /\ Len(passes') = n + 1
      /\ passes'[n + 1] = new
      /\ \A i \in 1..n : passes'[i] = passes[i]
  BY <1>1, <1>2 DEF Pass, TypeOK
<1>4. /\ last' = [last EXCEPT ![l] = now]
      /\ holder' = [holder EXCEPT ![l] = NoCaller]
      /\ pc' = [pc EXCEPT ![c] = "out"]
      /\ UNCHANGED <<now, timer, rounds, ctxDone>>
  BY DEF Pass, Release
<1>5. TypeOK'
  BY <1>1, <1>3, <1>4 DEF TypeOK
<1>6. holder[l] = c
  BY <1>1 DEF MutexOwned
<1>7. \A d \in Callers : d # c /\ LimiterOf[d] = l => pc[d] \notin {"held", "wait"}
  BY <1>1, <1>6 DEF MutexOwned
<1>8. MutexOwned'
  BY <1>1, <1>4, <1>6, <1>7 DEF MutexOwned, TypeOK
<1>9. TimerCoversInterval'
  BY <1>1, <1>4, <1>7 DEF TimerCoversInterval, TypeOK
<1>10. LastIsLatest'
  <2>1. \A m \in Limiters : last'[m] =< now'
    BY <1>1, <1>4 DEF LastIsLatest, TypeOK
  <2> SUFFICES ASSUME NEW i \in 1..(n + 1)
               PROVE  /\ last'[passes'[i].limiter] # 0
                      /\ passes'[i].at =< last'[passes'[i].limiter]
    BY <1>3, <2>1 DEF LastIsLatest
  <2>2. CASE i = n + 1
    BY <1>1, <1>3, <1>4, <2>2 DEF TypeOK
  <2>3. CASE i \in 1..n
    <3>1. /\ passes'[i] = passes[i] /\ passes[i].limiter \in Limiters
          /\ passes[i].at \in Nat
          /\ last[passes[i].limiter] # 0
          /\ passes[i].at =< last[passes[i].limiter]
          /\ last[passes[i].limiter] =< now
      BY <1>1, <1>3, <2>3, PassesType DEF LastIsLatest
    <3> QED BY <1>1, <1>4, <3>1 DEF TypeOK
  <2> QED BY <1>1, <2>2, <2>3
<1>11. Spaced'
  <2> SUFFICES ASSUME NEW i \in 1..(n + 1), NEW j \in 1..(n + 1), i < j,
                      passes'[i].limiter = passes'[j].limiter
               PROVE  passes'[j].at >= passes'[i].at + Interval
    BY <1>3 DEF Spaced
  <2>1. i \in 1..n /\ passes'[i] = passes[i]
    BY <1>1, <1>3
  <2>2. CASE j \in 1..n
    BY <1>1, <1>3, <2>1, <2>2 DEF Spaced
  <2>3. CASE j = n + 1
    <3>1. passes[i].limiter = l /\ passes'[j].at = now
      BY <1>3, <2>1, <2>3
    <3>2. last[l] # 0 /\ passes[i].at =< last[l] /\ passes[i].at \in Nat
      BY <1>1, <2>1, <3>1, PassesType DEF LastIsLatest
    <3> QED BY <1>1, <2>1, <3>1, <3>2 DEF TypeOK
  <2> QED BY <1>1, <2>2, <2>3
<1> QED BY <1>5, <1>8, <1>9, <1>10, <1>11 DEF Inv

LEMMA InvStep ==
    ASSUME Inv, [Next]_vars
    PROVE  Inv'
<1> USE LimiterAssumption
<1>1. TypeOK /\ MutexOwned /\ TimerCoversInterval /\ LastIsLatest /\ Spaced
  BY DEF Inv
<1>2. CASE UNCHANGED vars
  BY <1>1, <1>2 DEF vars, Inv, TypeOK, MutexOwned, TimerCoversInterval, LastIsLatest, Spaced
<1>3. ASSUME NEW c \in Callers, Call(c) PROVE Inv'
  BY <1>1, <1>3 DEF Call, Inv, TypeOK, MutexOwned, TimerCoversInterval, LastIsLatest, Spaced
<1>4. ASSUME NEW c \in Callers, Lock(c) PROVE Inv'
  <2>1. TypeOK' /\ TimerCoversInterval' /\ LastIsLatest' /\ Spaced'
    BY <1>1, <1>4 DEF Lock, TypeOK, TimerCoversInterval, LastIsLatest, Spaced
  <2>2. MutexOwned'
    BY <1>1, <1>4 DEF Lock, TypeOK, MutexOwned
  <2> QED BY <2>1, <2>2 DEF Inv
<1>5. ASSUME NEW c \in Callers, PassAtOnce(c) PROVE Inv'
  <2>1. /\ pc[c] \in {"held", "wait"} /\ Pass(c)
        /\ last[LimiterOf[c]] = 0 \/ now - last[LimiterOf[c]] >= Interval
    BY <1>5 DEF PassAtOnce, Elapsed
  <2>2. now \in Nat /\ last[LimiterOf[c]] \in Nat
    BY <1>1 DEF TypeOK
  <2> QED BY <2>1, <2>2, PassInv
<1>6. ASSUME NEW c \in Callers, StartTimer(c) PROVE Inv'
  <2>1. /\ now \in Nat /\ last[LimiterOf[c]] \in Nat
        /\ last[LimiterOf[c]] # 0
        /\ timer' = [timer EXCEPT ![c] = now + (Interval - (now - last[LimiterOf[c]]))]
        /\ now - last[LimiterOf[c]] < Interval
        /\ last[LimiterOf[c]] =< now
    BY <1>1, <1>6 DEF StartTimer, Elapsed, TypeOK, LastIsLatest
  <2>2. timer'[c] = last[LimiterOf[c]] + Interval /\ timer'[c] \in Nat
    BY <1>1, <2>1 DEF TypeOK
  <2>3. TypeOK'
    BY <1>1, <1>6, <2>1, <2>2 DEF StartTimer, TypeOK
  <2>4. TimerCoversInterval'
    BY <1>1, <1>6, <2>1, <2>2 DEF StartTimer, TypeOK, TimerCoversInterval
  <2>5. MutexOwned' /\ LastIsLatest' /\ Spaced'
    BY <1>1, <1>6 DEF StartTimer, TypeOK, MutexOwned, LastIsLatest, Spaced
  <2> QED BY <2>3, <2>4, <2>5 DEF Inv
<1>7. ASSUME NEW c \in Callers, TimerFires(c) PROVE Inv'
  <2>1. pc[c] = "wait" /\ Pass(c) /\ now >= timer[c]
    BY <1>7 DEF TimerFires
  <2>2. /\ now \in Nat /\ last[LimiterOf[c]] \in Nat /\ timer[c] \in Nat
        /\ timer[c] >= last[LimiterOf[c]] + Interval
    BY <1>1, <2>1 DEF TypeOK, TimerCoversInterval
  <2> QED BY <2>1, <2>2, PassInv
<1>8. ASSUME NEW c \in Callers, WaitCanceled(c) PROVE Inv'
  <2>1. TypeOK' /\ TimerCoversInterval' /\ LastIsLatest' /\ Spaced'
    BY <1>1, <1>8 DEF WaitCanceled, Release, TypeOK, TimerCoversInterval, LastIsLatest, Spaced
  <2>2. MutexOwned'
    BY <1>1, <1>8 DEF WaitCanceled, Release, TypeOK, MutexOwned
  <2> QED BY <2>1, <2>2 DEF Inv
<1>9. CASE Tick
  BY <1>1, <1>9 DEF Tick, Inv, TypeOK, MutexOwned, TimerCoversInterval, LastIsLatest, Spaced
<1>10. CASE Cancel
  BY <1>1, <1>10 DEF Cancel, Inv, TypeOK, MutexOwned, TimerCoversInterval, LastIsLatest, Spaced
<1>11. CASE Finished
  BY <1>2, <1>11 DEF Finished
<1> QED
  BY <1>2, <1>3, <1>4, <1>5, <1>6, <1>7, <1>8, <1>9, <1>10, <1>11 DEF Next, Caller

LEMMA Invariance == Spec => []Inv
<1>1. Init => Inv
  BY InitInv
<1> QED BY <1>1, InvStep, PTL DEF Spec

\* Passes of one limiter are an interval apart, for any number of workers.
THEOREM PassesSpaced == Spec => []Spaced
<1>1. Inv => Spaced
  BY DEF Inv
<1> QED BY <1>1, Invariance, PTL

\* The mutex belongs to the one caller between Lock and return.
THEOREM MutexCorrect == Spec => []MutexOwned
<1>1. Inv => MutexOwned
  BY DEF Inv
<1> QED BY <1>1, Invariance, PTL

\* The state keeps its shape for any callers and interval.
THEOREM TypeCorrect == Spec => []TypeOK
<1>1. Inv => TypeOK
  BY DEF Inv
<1> QED BY <1>1, Invariance, PTL

-----------------------------------------------------------------------------
(* What the spacing means for the rate: each interval has room for one pass. *)

\* The passes of a limiter from time t on, for d ticks.
Within(l, t, d) == {i \in 1..Len(passes) : passes[i].limiter = l /\ passes[i].at \in t..(t + d - 1)}

RateHeld ==
    \A l \in Limiters, t, k \in Nat : Cardinality(Within(l, t, k * Interval)) =< k

\* A product grows with its factor.
LEMMA Products ==
    ASSUME NEW a \in Int, NEW b \in Int, a =< b, NEW n \in Nat
    PROVE  a * n =< b * n
<1>. DEFINE d == b - a
<1>1. d \in Nat /\ b = a + d
  OBVIOUS
<1>. HIDE DEF d
<1>2. (a + d) * n = a * n + d * n
  BY <1>1
<1>3. d * n \in Nat
  BY <1>1
<1>. QED BY <1>1, <1>2, <1>3

\* Cut a time span into intervals: a moment falls into one of them.
LEMMA Slot ==
    ASSUME NEW n \in Nat \ {0}, NEW k \in Nat, NEW x \in 0..(k * n - 1)
    PROVE  x \div n \in 0..(k - 1) /\ (x \div n) * n =< x /\ x < (x \div n) * n + n
<1>. DEFINE q == x \div n
            low == q * n
            end == k * n
<1>1. q \in Int /\ x = n * q + (x % n) /\ x % n \in 0..(n - 1)
  OBVIOUS
<1>. HIDE DEF q
<1>2. low \in Int /\ end \in Int /\ x \in 0..(end - 1) /\ low =< x /\ x < low + n
  BY <1>1
<1>3. q < 0 => low =< -1 * n
  BY <1>1, Products
<1>4. -1 * n = -n
  OBVIOUS
<1>5. q >= k => low >= end
  BY <1>1, Products
<1>. HIDE DEF low, end
<1>6. q >= 0 /\ q < k
  BY <1>1, <1>2, <1>3, <1>4, <1>5
<1>. QED BY <1>1, <1>2, <1>6 DEF q, low

LEMMA SpacedHoldsRate ==
    ASSUME TypeOK, Spaced
    PROVE  RateHeld
<1>. SUFFICES ASSUME NEW l \in Limiters, NEW t \in Nat, NEW k \in Nat
              PROVE  Cardinality(Within(l, t, k * Interval)) =< k
  BY DEF RateHeld
<1>. DEFINE W == Within(l, t, k * Interval)
            slot == [i \in W |-> (passes[i].at - t) \div Interval]
<1>0. CASE Interval = 0
  <2>1. k * Interval = 0
    BY <1>0
  <2>2. W = {}
    BY <2>1 DEF Within
  <2>. QED BY <2>2, FS_EmptySet
<1>. SUFFICES ASSUME Interval # 0 PROVE Cardinality(W) =< k
  BY <1>0
<1>1. Interval \in Nat \ {0} /\ Len(passes) \in Nat
  BY LimiterAssumption DEF TypeOK
<1>2. ASSUME NEW i \in W
      PROVE  /\ passes[i].at \in Nat /\ passes[i].limiter = l
             /\ passes[i].at - t \in 0..(k * Interval - 1)
  <2>1. passes[i].at \in Nat /\ passes[i].limiter = l
    BY PassesType DEF Within
  <2>. QED BY <1>1, <2>1 DEF Within
<1>3. ASSUME NEW i \in W, NEW j \in W, i < j
      PROVE  slot[i] # slot[j]
  <2>1. passes[j].at >= passes[i].at + Interval
    BY <1>2, <1>3 DEF Spaced, Within
  <2>2. /\ slot[i] \in 0..(k - 1) /\ passes[i].at - t >= slot[i] * Interval
        /\ slot[j] \in 0..(k - 1) /\ passes[j].at - t < slot[j] * Interval + Interval
    BY <1>1, <1>2, Slot
  <2>3. slot[i] * Interval \in Int
    BY <1>1, <2>2
  <2>. DEFINE s == slot[i] * Interval
  <2>4. slot[i] = slot[j] =>
            passes[i].at - t >= s /\ passes[j].at - t < s + Interval /\ s \in Int
    BY <2>2, <2>3
  <2>. HIDE DEF slot, W, s
  <2>. QED BY <1>1, <1>2, <2>1, <2>4
<1>4. slot \in Injection(W, 0..(k - 1))
  <2>1. \A i \in W : slot[i] \in 0..(k - 1)
    BY <1>1, <1>2, Slot
  <2>2. \A i, j \in W : slot[i] = slot[j] => i = j
    <3>1. W \subseteq Nat
      BY DEF Within
    <3>. HIDE DEF slot, W
    <3>. QED BY <1>3, <3>1
  <2>3. slot = [i \in W |-> slot[i]]
    OBVIOUS
  <2>. HIDE DEF slot, W
  <2>. QED BY <2>1, <2>2, <2>3 DEF Injection, IsInjective
<1>5. IsFiniteSet(W)
  <2>1. W \in SUBSET (1..Len(passes)) /\ IsFiniteSet(1..Len(passes))
    BY <1>1, FS_Interval DEF Within
  <2>. QED BY <2>1, FS_Subset
<1>6. IsFiniteSet(0..(k - 1)) /\ Cardinality(0..(k - 1)) = k
  BY FS_Interval
<1>. HIDE DEF slot, W
<1>7. Cardinality(W) =< k
  BY <1>4, <1>5, <1>6, FS_Injection
<1>. QED BY <1>7 DEF W

\* Any span of k intervals sees at most k passes of a limiter: with an interval
\* of a second over MaxRate that is the rate ratelimit.go promises, and no
\* burst makes up for idle time.
THEOREM RateCorrect == Spec => []RateHeld
<1>1. Inv => RateHeld
  BY SpacedHoldsRate DEF Inv
<1>. QED BY <1>1, Invariance, PTL
=============================================================================
