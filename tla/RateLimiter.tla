---------------------------- MODULE RateLimiter ----------------------------
(***************************************************************************)
(* RateLimiter.WaitCtx (ratelimit.go) under a clock.  Every host scan      *)
(* makes a limiter of its own and its workers share it: LimiterOf says     *)
(* which limiter each worker calls.  The mutex is held across the wait.    *)
(*                                                                         *)
(* Time is counted in ticks from 1, so that 0 is Go's zero time.  A pass   *)
(* is a return of WaitCtx that has set rl.last; MaxRounds and MaxTime      *)
(* bound the calls and the clock for model checking.                       *)
(***************************************************************************)
EXTENDS Naturals, Sequences

CONSTANTS
    Callers, Limiters, LimiterOf,
    NoCaller,
    Interval,       \* rl.interval: time.Second / maxRate
    MaxRounds, MaxTime

ASSUME LimiterAssumption ==
    /\ LimiterOf \in [Callers -> Limiters]
    /\ NoCaller \notin Callers
    /\ Interval \in Nat
    /\ MaxRounds \in Nat
    /\ MaxTime \in Nat

VARIABLES
    now,        \* the clock
    last,       \* rl.last of each limiter, 0 when unset
    holder,     \* owner of each limiter's mutex
    pc,         \* where each caller is
    timer,      \* when the timer of a waiting caller is due
    rounds,     \* how many times each caller has called WaitCtx
    ctxDone,    \* the callers' context has ended
    passes      \* history: records [limiter, at] of the passes

vars == <<now, last, holder, pc, timer, rounds, ctxDone, passes>>

Init ==
    /\ now = 1
    /\ last = [l \in Limiters |-> 0]
    /\ holder = [l \in Limiters |-> NoCaller]
    /\ pc = [c \in Callers |-> "out"]
    /\ timer = [c \in Callers |-> 0]
    /\ rounds = [c \in Callers |-> 0]
    /\ ctxDone = FALSE
    /\ passes = <<>>

\* A worker calls WaitCtx for its next probe.
Call(c) ==
    /\ pc[c] = "out"
    /\ rounds[c] < MaxRounds
    /\ rounds' = [rounds EXCEPT ![c] = @ + 1]
    /\ pc' = [pc EXCEPT ![c] = "lock"]
    /\ UNCHANGED <<now, last, holder, timer, ctxDone, passes>>

\* Mutant: the mutex is not taken.
Lock_NoMutex(c) ==
    /\ pc[c] = "lock"
    /\ pc' = [pc EXCEPT ![c] = "held"]
    /\ holder' = [holder EXCEPT ![LimiterOf[c]] = c]
    /\ UNCHANGED <<now, last, timer, rounds, ctxDone, passes>>

Lock(c) ==
    /\ pc[c] = "lock"
    /\ holder[LimiterOf[c]] = NoCaller
    /\ holder' = [holder EXCEPT ![LimiterOf[c]] = c]
    /\ pc' = [pc EXCEPT ![c] = "held"]
    /\ UNCHANGED <<now, last, timer, rounds, ctxDone, passes>>

\* The deferred Unlock.
Release(c) ==
    /\ holder' = [holder EXCEPT ![LimiterOf[c]] = NoCaller]
    /\ pc' = [pc EXCEPT ![c] = "out"]

\* rl.last = time.Now(), and return.
Pass(c) ==
    /\ last' = [last EXCEPT ![LimiterOf[c]] = now]
    /\ passes' = Append(passes, [limiter |-> LimiterOf[c], at |-> now])
    /\ Release(c)
    /\ UNCHANGED <<now, timer, rounds, ctxDone>>

\* The time since the limiter's last pass.
Elapsed(c) == now - last[LimiterOf[c]]

\* The first pass, or one that comes late enough.
PassAtOnce(c) ==
    /\ pc[c] = "held"
    /\ last[LimiterOf[c]] = 0 \/ Elapsed(c) >= Interval
    /\ Pass(c)

\* Mutant: the whole interval is waited for, whatever has elapsed, and the
\* mutex is given up meanwhile.
StartTimer_Unlocked(c) ==
    /\ pc[c] = "held"
    /\ last[LimiterOf[c]] # 0
    /\ Elapsed(c) < Interval
    /\ timer' = [timer EXCEPT ![c] = now + (Interval - Elapsed(c))]
    /\ holder' = [holder EXCEPT ![LimiterOf[c]] = NoCaller]
    /\ pc' = [pc EXCEPT ![c] = "wait"]
    /\ UNCHANGED <<now, last, rounds, ctxDone, passes>>

StartTimer(c) ==
    /\ pc[c] = "held"
    /\ last[LimiterOf[c]] # 0
    /\ Elapsed(c) < Interval
    /\ timer' = [timer EXCEPT ![c] = now + (Interval - Elapsed(c))]
    /\ pc' = [pc EXCEPT ![c] = "wait"]
    /\ UNCHANGED <<now, last, holder, rounds, ctxDone, passes>>

TimerFires(c) ==
    /\ pc[c] = "wait"
    /\ now >= timer[c]
    /\ Pass(c)

\* Mutant: the canceled wait returns without the deferred Unlock.
WaitCanceled_KeepsLock(c) ==
    /\ pc[c] = "wait"
    /\ ctxDone
    /\ pc' = [pc EXCEPT ![c] = "out"]
    /\ UNCHANGED <<now, last, holder, timer, rounds, ctxDone, passes>>

\* `case <-ctx.Done()`: return without a pass.
WaitCanceled(c) ==
    /\ pc[c] = "wait"
    /\ ctxDone
    /\ Release(c)
    /\ UNCHANGED <<now, last, timer, rounds, ctxDone, passes>>

Caller(c) ==
    \/ Call(c)
    \/ Lock(c)
    \/ PassAtOnce(c)
    \/ StartTimer(c)
    \/ TimerFires(c)
    \/ WaitCanceled(c)

\* Time passes freely up to MaxTime, and beyond it while a timer is running.
Tick ==
    /\ now < MaxTime \/ \E c \in Callers : pc[c] = "wait" /\ now < timer[c]
    /\ now' = now + 1
    /\ UNCHANGED <<last, holder, pc, timer, rounds, ctxDone, passes>>

Cancel ==
    /\ ~ctxDone
    /\ ctxDone' = TRUE
    /\ UNCHANGED <<now, last, holder, pc, timer, rounds, passes>>

Finished ==
    /\ \A c \in Callers : pc[c] = "out" /\ rounds[c] = MaxRounds
    /\ UNCHANGED vars

Next ==
    \/ \E c \in Callers : Caller(c)
    \/ Tick
    \/ Cancel
    \/ Finished

Spec == Init /\ [][Next]_vars

\* Time passes, and a caller that can run does.  With MaxRounds calls each,
\* the mutex is contended only finitely often, so weak fairness is enough.
Fairness ==
    /\ WF_vars(Tick)
    /\ \A c \in Callers : WF_vars(Caller(c))

FairSpec == Spec /\ Fairness

-----------------------------------------------------------------------------
(* Properties. *)

TypeOK ==
    /\ now \in Nat \ {0}
    /\ last \in [Limiters -> Nat]
    /\ holder \in [Limiters -> Callers \cup {NoCaller}]
    /\ pc \in [Callers -> {"out", "lock", "held", "wait"}]
    /\ timer \in [Callers -> Nat]
    /\ rounds \in [Callers -> 0..MaxRounds]
    /\ ctxDone \in BOOLEAN
    /\ passes \in Seq([limiter : Limiters, at : Nat])

\* The mutex is held exactly by the caller between Lock and return, so two
\* callers never compute their wait from the same rl.last (ratelimit.go:45).
MutexOwned ==
    \A c \in Callers : pc[c] \in {"held", "wait"} <=> holder[LimiterOf[c]] = c

\* Two passes of one limiter are at least an interval apart, however the
\* callers interleave and whether or not the context ends (ratelimit.go:53-64).
Spaced ==
    \A i, j \in 1..Len(passes) :
        i < j /\ passes[i].limiter = passes[j].limiter =>
            passes[j].at >= passes[i].at + Interval

\* A call returns: nobody waits for ever, on the timer or on the mutex.
CallsReturn == \A c \in Callers : (pc[c] # "out") ~> (pc[c] = "out")

\* scan.go:90: "MaxRate is the maximum packets per second", but each host scan
\* has a limiter of its own (stream.go:166-169).
SpacedOverall ==
    \A i, j \in 1..Len(passes) :
        i < j => passes[j].at >= passes[i].at + Interval
=============================================================================
