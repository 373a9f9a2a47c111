------------------------------ MODULE PortPool ------------------------------
(***************************************************************************)
(* The goroutines that scan the ports of one host.  scanHostPorts (scan.go)*)
(* and streamHostPorts (stream.go) contain the same machinery: a feeder    *)
(* that queues one job per port, opts.Workers workers that take jobs and   *)
(* probe, a closer that waits for the workers and closes the result        *)
(* channel, and the calling goroutine that collects.  The probe modelled   *)
(* here is scanPortConnect; the raw probes are in RawProbe.                *)
(*                                                                         *)
(* Abstractions.  The port map is fed in random order, so the buffered job *)
(* channel is the set `in` of queued ports.  The result channel is the log *)
(* `sent` of everything put into it with `received`, how much of it the    *)
(* collector has taken.  Time is abstracted: a timer may fire at any       *)
(* moment (RateLimiter has the clock).                                     *)
(***************************************************************************)
EXTENDS Naturals, Sequences, FiniteSets

CONSTANTS
    Ports,      \* keys of the port map (resolvePortList)
    Workers,    \* the worker goroutines, opts.Workers of them
    Reply,      \* what the target answers on each port
    NoPort,     \* a worker's job when it holds none
    NoWorker    \* holder of an unlocked mutex

Replies == {"accept", "refuse", "silent"}
States == {"open", "closed", "filtered"}

ASSUME PoolAssumption ==
    /\ IsFiniteSet(Ports)
    /\ IsFiniteSet(Workers)
    /\ Workers # {}             \* opts.defaults() and Validate(): at least one
    /\ NoPort \notin Ports
    /\ NoWorker \notin Workers
    /\ Reply \in [Ports -> Replies]

VARIABLES
    opts,           \* the caller's MaxRate > 0, ScanDelay > 0 and OpenOnly
    todo,           \* ports the feeder has not queued yet
    in,             \* ports queued in the job channel
    inClosed,       \* the job channel is closed
    pc,             \* where each worker is
    job,            \* the port each worker holds
    holder,         \* the worker that owns the rate limiter's mutex
    sent,           \* log of the results put into the result channel
    received,       \* how many of them the collector has taken
    resultClosed,   \* the result channel is closed
    collected,      \* the collector has left its range loop
    ctxDone,        \* the context was canceled or its deadline passed
    sentAtCancel    \* history: Len(sent) when the context ended

vars == <<opts, todo, in, inClosed, pc, job, holder, sent, received,
          resultClosed, collected, ctxDone, sentAtCancel>>

feedVars == <<todo, in, inClosed>>
workerVars == <<pc, job, holder, sent>>
collectVars == <<received, resultClosed, collected>>
ctxVars == <<ctxDone, sentAtCancel>>

Options == [maxRate : BOOLEAN, scanDelay : BOOLEAN, openOnly : BOOLEAN]
Results == [port : Ports, state : States]
PC == {"range", "lock", "wait", "probe", "dial", "delay", "done"}

\* A worker holding a job it will still report.
InFlight == {w \in Workers : pc[w] \in {"lock", "wait", "probe", "dial"}}

-----------------------------------------------------------------------------
\* Mutant: a small fixed buffer.
ResultCap_Fixed == 1

\* make(chan PortResult, tasks): room for one result per port.
ResultCap == Cardinality(Ports)

Room == Len(sent) - received < ResultCap

Init ==
    /\ opts \in Options
    /\ todo = Ports
    /\ in = {}
    /\ inClosed = FALSE
    /\ pc = [w \in Workers |-> "range"]
    /\ job = [w \in Workers |-> NoPort]
    /\ holder = NoWorker
    /\ sent = <<>>
    /\ received = 0
    /\ resultClosed = FALSE
    /\ collected = FALSE
    /\ ctxDone = FALSE
    /\ sentAtCancel = 0

-----------------------------------------------------------------------------
(* The feeder.  The job channel holds a whole port map, so a send never    *)
(* blocks; when the context has ended too, the select takes either case.   *)

Feed(p) ==
    /\ ~inClosed
    /\ p \in todo
    /\ todo' = todo \ {p}
    /\ in' = in \cup {p}
    /\ UNCHANGED <<opts, inClosed, workerVars, collectVars, ctxVars>>

StopFeeding ==
    /\ ~inClosed
    /\ todo = {} \/ ctxDone
    /\ inClosed' = TRUE
    /\ UNCHANGED <<opts, todo, in, workerVars, collectVars, ctxVars>>

-----------------------------------------------------------------------------
(* A worker. *)

\* Where a worker goes after the context check, and after a probe.
AfterCheck == IF opts.maxRate THEN "lock" ELSE "probe"
AfterProbe == IF opts.scanDelay THEN "delay" ELSE "range"

\* Mutant: no context check between taking a job and probing it.
Take_NoCtxCheck(w, p) ==
    /\ pc[w] = "range"
    /\ p \in in
    /\ in' = in \ {p}
    /\ pc' = [pc EXCEPT ![w] = AfterCheck]
    /\ job' = [job EXCEPT ![w] = p]
    /\ UNCHANGED <<opts, todo, inClosed, holder, sent, collectVars, ctxVars>>

\* Mutant: the job is read but left in the queue for another worker.
Take_LeavesJob(w, p) ==
    /\ pc[w] = "range"
    /\ p \in in
    /\ pc' = [pc EXCEPT ![w] = AfterCheck]
    /\ job' = [job EXCEPT ![w] = p]
    /\ UNCHANGED <<opts, feedVars, holder, sent, collectVars, ctxVars>>

\* `for job := range in { if ctx.Err() != nil { return } ...`: a job taken
\* after the context ended is dropped with its worker.
Take(w, p) ==
    /\ pc[w] = "range"
    /\ p \in in
    /\ in' = in \ {p}
    /\ \/ /\ ctxDone
          /\ pc' = [pc EXCEPT ![w] = "done"]
          /\ job' = job
       \/ /\ ~ctxDone
          /\ pc' = [pc EXCEPT ![w] = AfterCheck]
          /\ job' = [job EXCEPT ![w] = p]
    /\ UNCHANGED <<opts, todo, inClosed, holder, sent, collectVars, ctxVars>>

Exhausted(w) ==
    /\ pc[w] = "range"
    /\ inClosed
    /\ in = {}
    /\ pc' = [pc EXCEPT ![w] = "done"]
    /\ UNCHANGED <<opts, feedVars, job, holder, sent, collectVars, ctxVars>>

\* rl.WaitCtx: the mutex is held for as long as the wait lasts.
LockLimiter(w) ==
    /\ pc[w] = "lock"
    /\ holder = NoWorker
    /\ holder' = w
    /\ pc' = [pc EXCEPT ![w] = "wait"]
    /\ UNCHANGED <<opts, feedVars, job, sent, collectVars, ctxVars>>

\* Mutant: the early return on ctx.Done() forgets the mutex.
PassLimiter_KeepsLock(w) ==
    /\ pc[w] = "wait"
    /\ holder' = IF ctxDone THEN holder ELSE NoWorker
    /\ pc' = [pc EXCEPT ![w] = "probe"]
    /\ UNCHANGED <<opts, feedVars, job, sent, collectVars, ctxVars>>

\* The timer fires or the context ends: either way WaitCtx returns nothing,
\* unlocks, and its caller goes on to probe.
PassLimiter(w) ==
    /\ pc[w] = "wait"
    /\ holder' = NoWorker
    /\ pc' = [pc EXCEPT ![w] = "probe"]
    /\ UNCHANGED <<opts, feedVars, job, sent, collectVars, ctxVars>>

\* Mutant: the result is sent and the job not let go.
Put_KeepsJob(w, s) ==
    /\ Room
    /\ sent' = Append(sent, [port |-> job[w], state |-> s])
    /\ pc' = [pc EXCEPT ![w] = AfterProbe]
    /\ job' = job

\* Put worker w's result into the channel.
Put(w, s) ==
    /\ Room
    /\ sent' = Append(sent, [port |-> job[w], state |-> s])
    /\ pc' = [pc EXCEPT ![w] = AfterProbe]
    /\ job' = [job EXCEPT ![w] = NoPort]

\* DialContext: it fails at once when the context has already ended,
\* otherwise the connection attempt is under way.
Probe(w) ==
    /\ pc[w] = "probe"
    /\ \/ /\ ctxDone
          /\ Put(w, "filtered")
       \/ /\ ~ctxDone
          /\ pc' = [pc EXCEPT ![w] = "dial"]
          /\ UNCHANGED <<job, sent>>
    /\ UNCHANGED <<opts, feedVars, holder, collectVars, ctxVars>>

\* The state an undisturbed probe of each port reports.
Verdict == [p \in Ports |-> IF Reply[p] = "accept" THEN "open" ELSE "closed"]

\* Mutant: any failed dial is taken for a refusal.
Outcomes_ErrIsRefusal(p) ==
    {Verdict[p]} \cup (IF ctxDone THEN {"closed"} ELSE {})

\* What scanPortConnect can report once the attempt has ended.  A failed
\* dial is "filtered" if the context has ended and "closed" otherwise (the
\* dialer's own timeout included); a connection that completes as the
\* context ends may win or lose.
Outcomes(p) ==
    IF ~ctxDone THEN {Verdict[p]}
    ELSE {"filtered"} \cup (IF Reply[p] = "accept" THEN {"open"} ELSE {})

Answer(w, s) ==
    /\ pc[w] = "dial"
    /\ s \in Outcomes(job[w])
    /\ Put(w, s)
    /\ UNCHANGED <<opts, feedVars, holder, collectVars, ctxVars>>

\* The ScanDelay select: the timer, or ctx.Done(), which ends the worker.
DelayOver(w) ==
    /\ pc[w] = "delay"
    /\ pc' = [pc EXCEPT ![w] = "range"]
    /\ UNCHANGED <<opts, feedVars, job, holder, sent, collectVars, ctxVars>>

\* Mutant: the worker returns whichever case of the select fires.
DelayCut_AnyCase(w) ==
    /\ pc[w] = "delay"
    /\ pc' = [pc EXCEPT ![w] = "done"]
    /\ UNCHANGED <<opts, feedVars, job, holder, sent, collectVars, ctxVars>>

DelayCut(w) ==
    /\ pc[w] = "delay"
    /\ ctxDone
    /\ pc' = [pc EXCEPT ![w] = "done"]
    /\ UNCHANGED <<opts, feedVars, job, holder, sent, collectVars, ctxVars>>

-----------------------------------------------------------------------------
(* The closer and the collector. *)

\* Mutant: the closer does not wait for every worker.
CloseResults_OneWorkerDone ==
    /\ ~resultClosed
    /\ \E w \in Workers : pc[w] = "done"
    /\ resultClosed' = TRUE
    /\ UNCHANGED <<opts, feedVars, workerVars, received, collected, ctxVars>>

CloseResults ==
    /\ ~resultClosed
    /\ \A w \in Workers : pc[w] = "done"
    /\ resultClosed' = TRUE
    /\ UNCHANGED <<opts, feedVars, workerVars, received, collected, ctxVars>>

Receive ==
    /\ received < Len(sent)
    /\ received' = received + 1
    /\ UNCHANGED <<opts, feedVars, workerVars, resultClosed, collected, ctxVars>>

\* The range over the result channel ends when it is closed and empty.
Finish ==
    /\ resultClosed
    /\ received = Len(sent)
    /\ ~collected
    /\ collected' = TRUE
    /\ UNCHANGED <<opts, feedVars, workerVars, received, resultClosed, ctxVars>>

-----------------------------------------------------------------------------
(* The environment: the caller cancels, or a deadline passes. *)
Cancel ==
    /\ ~ctxDone
    /\ ctxDone' = TRUE
    /\ sentAtCancel' = Len(sent)
    /\ UNCHANGED <<opts, feedVars, workerVars, collectVars>>

\* Every goroutine has gone: anything else that stops is a leak.
Terminated ==
    /\ inClosed
    /\ resultClosed
    /\ collected
    /\ UNCHANGED vars

Feeder == StopFeeding \/ \E p \in Ports : Feed(p)

Worker(w) ==
    \/ \E p \in Ports : Take(w, p)
    \/ Exhausted(w)
    \/ LockLimiter(w)
    \/ PassLimiter(w)
    \/ Probe(w)
    \/ \E s \in States : Answer(w, s)
    \/ DelayOver(w)
    \/ DelayCut(w)

Next ==
    \/ Feeder
    \/ \E w \in Workers : Worker(w)
    \/ CloseResults
    \/ Receive
    \/ Finish
    \/ Cancel
    \/ Terminated

Spec == Init /\ [][Next]_vars

\* The Go scheduler runs every goroutine that can run, a buffered channel
\* with a value wakes its reader, and timers fire: dial timeouts
\* (opts.Timeout > 0 after defaults()), limiter waits and ScanDelay.
Fairness ==
    /\ WF_vars(Feeder)
    /\ \A w \in Workers : WF_vars(Worker(w))
    /\ WF_vars(CloseResults)
    /\ WF_vars(Receive)
    /\ WF_vars(Finish)

-----------------------------------------------------------------------------
(* Properties. *)

\* The state of the pool has the shape the declarations say, and a worker
\* holds a job exactly while it is between the context check and its send.
TypeOK ==
    /\ opts \in Options
    /\ todo \subseteq Ports
    /\ in \subseteq Ports
    /\ inClosed \in BOOLEAN
    /\ pc \in [Workers -> PC]
    /\ job \in [Workers -> Ports \cup {NoPort}]
    /\ \A w \in Workers : (job[w] # NoPort) <=> (w \in InFlight)
    /\ holder \in Workers \cup {NoWorker}
    /\ sent \in Seq(Results)
    /\ received \in 0..Len(sent)
    /\ resultClosed \in BOOLEAN
    /\ collected \in BOOLEAN
    /\ ctxDone \in BOOLEAN
    /\ sentAtCancel \in 0..Len(sent)

\* No port is reported twice, although any worker may take any job
\* (scan.go:470-494).
OneResultPerPort ==
    \A i, j \in 1..Len(sent) : sent[i].port = sent[j].port => i = j

\* No worker can still send when the result channel is closed: the send
\* would panic (scan.go:515-519).
NoSendOnClosed == resultClosed => InFlight = {}

\* A worker about to send finds room in the result channel, so workers never
\* wait for a collector that is slow in ProgressFunc or on an undrained
\* event channel (scan.go:467).
SendNeverBlocks == InFlight # {} => Room

\* Canceling is prompt: from then on each worker sends at most the one
\* result it was working on (scan.go:494-509).
PromptCancel == ctxDone => Len(sent) - sentAtCancel =< Cardinality(Workers)

\* An undisturbed scan misses no port and mixes up none: when the collector
\* leaves its loop and the context never ended, every port has the verdict that
\* Verdict, the code's own table, gives its reply.  (The table calls a silent
\* port closed, scan.go:706, where scantype.go:117 and :123 say filtered.)
CompleteUnlessCanceled ==
    collected /\ ~ctxDone =>
        \A p \in Ports : \E i \in 1..received :
            sent[i] = [port |-> p, state |-> Verdict[p]]

\* The pool keeps the promise of a host scan: what the collector has taken
\* are the results handed over (the caller applies OpenOnly afterwards).
HS == INSTANCE HostScan WITH
    openOnly <- FALSE,
    reported <- {sent[i] : i \in 1..received},
    finished <- collected

HostScanSpec == HS!Spec
=============================================================================
