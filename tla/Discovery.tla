----------------------------- MODULE Discovery -----------------------------
(***************************************************************************)
(* Host discovery (discovery.go): DiscoverHosts gathers the results of a   *)
(* pool of workers and returns them, DiscoverHostsStream sends them to a   *)
(* caller who may stop reading.  A worker tries the methods on a host in   *)
(* order until one finds it alive (probeHost).                             *)
(*                                                                         *)
(* The methods themselves are external: Answers[h] are the methods whose   *)
(* probes of host h are answered in time.  A method that the context cuts  *)
(* short finds nothing.  The hosts are numbered in the order of the slice. *)
(***************************************************************************)
EXTENDS Naturals, Sequences, FiniteSets

CONSTANTS
    N,              \* how many hosts
    Workers,        \* opts.Workers goroutines
    Methods,        \* opts.Methods, a sequence
    Answers,
    StreamBuffer    \* discoveryStreamBuffer (constants.go:21)

Hosts == 1..N

ASSUME DiscoveryAssumption ==
    /\ N \in Nat
    /\ Workers # {}                 \* opts.defaults()
    /\ Len(Methods) \in Nat \ {0}    \* opts.defaults()
    /\ "filtered" \notin {Methods[i] : i \in 1..Len(Methods)}
    /\ Answers \in [Hosts -> SUBSET {Methods[i] : i \in 1..Len(Methods)}]
    /\ StreamBuffer \in Nat \ {0}

VARIABLES
    mode,           \* DiscoverHosts ("batch") or DiscoverHostsStream
    fed, taken,     \* the input channel holds hosts taken+1 .. fed
    inClosed,
    pc,
    host,           \* the host a worker has taken, 0 for none
    tried,          \* how many methods it has tried on it
    found,          \* the method that found it alive, or "filtered"
    sent,           \* log of the results put into the output channel
    received,       \* how many of them the caller has taken
    outClosed,
    reader,         \* "reading", "left" a stream, or "ended": saw it closed
    ctxDone

vars == <<mode, fed, taken, inClosed, pc, host, tried, found, sent, received,
          outClosed, reader, ctxDone>>

inVars == <<fed, taken, inClosed>>
workerVars == <<pc, host, tried, found>>
outVars == <<sent, received, outClosed, reader>>

Init ==
    /\ mode \in {"batch", "stream"}
    /\ fed = 0
    /\ taken = 0
    /\ inClosed = FALSE
    /\ pc = [w \in Workers |-> "range"]
    /\ host = [w \in Workers |-> 0]
    /\ tried = [w \in Workers |-> 0]
    /\ found = [w \in Workers |-> "filtered"]
    /\ sent = <<>>
    /\ received = 0
    /\ outClosed = FALSE
    /\ reader = "reading"
    /\ ctxDone = FALSE

-----------------------------------------------------------------------------
(* The feeder: room for every host, so only the context can stop it. *)

Feed ==
    /\ ~inClosed
    /\ fed < N
    /\ fed' = fed + 1
    /\ UNCHANGED <<mode, taken, inClosed, workerVars, outVars, ctxDone>>

\* Mutant: the input is closed on cancellation only.
StopFeeding_OnCancel ==
    /\ ~inClosed
    /\ ctxDone
    /\ inClosed' = TRUE
    /\ UNCHANGED <<mode, fed, taken, workerVars, outVars, ctxDone>>

StopFeeding ==
    /\ ~inClosed
    /\ fed = N \/ ctxDone
    /\ inClosed' = TRUE
    /\ UNCHANGED <<mode, fed, taken, workerVars, outVars, ctxDone>>

-----------------------------------------------------------------------------
(* A worker. *)

Take(w) ==
    /\ pc[w] = "range"
    /\ taken < fed
    /\ taken' = taken + 1
    /\ \/ /\ ctxDone
          /\ pc' = [pc EXCEPT ![w] = "done"]
          /\ UNCHANGED <<host, tried, found>>
       \/ /\ ~ctxDone
          /\ pc' = [pc EXCEPT ![w] = "probe"]
          /\ host' = [host EXCEPT ![w] = taken + 1]
          /\ tried' = [tried EXCEPT ![w] = 0]
          /\ found' = [found EXCEPT ![w] = "filtered"]
    /\ UNCHANGED <<mode, fed, inClosed, outVars, ctxDone>>

Exhausted(w) ==
    /\ pc[w] = "range"
    /\ inClosed
    /\ taken = fed
    /\ pc' = [pc EXCEPT ![w] = "done"]
    /\ UNCHANGED <<mode, inVars, host, tried, found, outVars, ctxDone>>

\* probeHost: the next method is tried ...
Try(w) ==
    /\ pc[w] = "probe"
    /\ ~ctxDone
    /\ tried[w] < Len(Methods)
    /\ tried' = [tried EXCEPT ![w] = @ + 1]
    /\ pc' = [pc EXCEPT ![w] = "answer"]
    /\ UNCHANGED <<mode, inVars, host, found, outVars, ctxDone>>

\* ... or there is none left, or the context has ended.
GiveUp(w) ==
    /\ pc[w] = "probe"
    /\ ctxDone \/ tried[w] = Len(Methods)
    /\ pc' = [pc EXCEPT ![w] = "emit"]
    /\ UNCHANGED <<mode, inVars, host, tried, found, outVars, ctxDone>>

Answered(w) == Methods[tried[w]] \in Answers[host[w]]

Alive(w) ==
    /\ pc[w] = "answer"
    /\ Answered(w)
    /\ found' = [found EXCEPT ![w] = Methods[tried[w]]]
    /\ pc' = [pc EXCEPT ![w] = "emit"]
    /\ UNCHANGED <<mode, inVars, host, tried, outVars, ctxDone>>

NoAnswer(w) ==
    /\ pc[w] = "answer"
    /\ ~Answered(w) \/ ctxDone
    /\ pc' = [pc EXCEPT ![w] = "probe"]
    /\ UNCHANGED <<mode, inVars, host, tried, found, outVars, ctxDone>>

OutCap == IF mode = "batch" THEN N ELSE StreamBuffer

\* Mutant: the host is read from the loop's variable, not from the worker's.
Emit_LatestHost(w) ==
    /\ pc[w] = "emit"
    /\ Len(sent) - received < OutCap
    /\ sent' = Append(sent, [port |-> taken, state |-> found[w]])
    /\ pc' = [pc EXCEPT ![w] = "range"]
    /\ host' = [host EXCEPT ![w] = 0]
    /\ UNCHANGED <<mode, inVars, tried, found, received, outClosed, reader, ctxDone>>

Emit(w) ==
    /\ pc[w] = "emit"
    /\ Len(sent) - received < OutCap
    /\ sent' = Append(sent, [port |-> host[w], state |-> found[w]])
    /\ pc' = [pc EXCEPT ![w] = "range"]
    /\ host' = [host EXCEPT ![w] = 0]
    /\ UNCHANGED <<mode, inVars, tried, found, received, outClosed, reader, ctxDone>>

\* Mutant: the send of a stream does not watch the context.
EmitCanceled_Never(w) ==
    /\ pc[w] = "emit"
    /\ mode = "batch"
    /\ ctxDone
    /\ pc' = [pc EXCEPT ![w] = "done"]
    /\ host' = [host EXCEPT ![w] = 0]
    /\ UNCHANGED <<mode, inVars, tried, found, outVars, ctxDone>>

\* Mutant: the result is dropped and its host kept.
EmitCanceled_KeepsHost(w) ==
    /\ pc[w] = "emit"
    /\ mode = "stream"
    /\ ctxDone
    /\ pc' = [pc EXCEPT ![w] = "done"]
    /\ UNCHANGED <<mode, inVars, host, tried, found, outVars, ctxDone>>

\* A stream's select: the result of a canceled discovery may be dropped.
EmitCanceled(w) ==
    /\ pc[w] = "emit"
    /\ mode = "stream"
    /\ ctxDone
    /\ pc' = [pc EXCEPT ![w] = "done"]
    /\ host' = [host EXCEPT ![w] = 0]
    /\ UNCHANGED <<mode, inVars, tried, found, outVars, ctxDone>>

-----------------------------------------------------------------------------
(* The output channel: closed behind the last worker, read by the caller. *)

\* Mutant: closed when the input is exhausted, not when the workers are.
CloseOut_InputDone ==
    /\ ~outClosed
    /\ inClosed
    /\ taken = fed
    /\ outClosed' = TRUE
    /\ UNCHANGED <<mode, inVars, workerVars, sent, received, reader, ctxDone>>

CloseOut ==
    /\ ~outClosed
    /\ \A w \in Workers : pc[w] = "done"
    /\ outClosed' = TRUE
    /\ UNCHANGED <<mode, inVars, workerVars, sent, received, reader, ctxDone>>

Receive ==
    /\ reader = "reading"
    /\ received < Len(sent)
    /\ received' = received + 1
    /\ UNCHANGED <<mode, inVars, workerVars, sent, outClosed, reader, ctxDone>>

SeeClosed ==
    /\ reader = "reading"
    /\ outClosed
    /\ received = Len(sent)
    /\ reader' = "ended"
    /\ UNCHANGED <<mode, inVars, workerVars, sent, received, outClosed, ctxDone>>

\* The caller of a stream loses interest, with or without canceling.
Leave ==
    /\ mode = "stream"
    /\ reader = "reading"
    /\ reader' = "left"
    /\ UNCHANGED <<mode, inVars, workerVars, sent, received, outClosed, ctxDone>>

Cancel ==
    /\ ~ctxDone
    /\ ctxDone' = TRUE
    /\ UNCHANGED <<mode, inVars, workerVars, outVars>>

\* Every goroutine has gone.
Terminated ==
    /\ inClosed
    /\ outClosed
    /\ reader # "reading"
    /\ UNCHANGED vars

Worker(w) ==
    \/ Take(w)
    \/ Exhausted(w)
    \/ Try(w)
    \/ GiveUp(w)
    \/ Alive(w)
    \/ NoAnswer(w)
    \/ Emit(w)
    \/ EmitCanceled(w)

Next ==
    \/ Feed
    \/ StopFeeding
    \/ \E w \in Workers : Worker(w)
    \/ CloseOut
    \/ Receive
    \/ SeeClosed
    \/ Leave
    \/ Cancel
    \/ Terminated

Spec == Init /\ [][Next]_vars

\* Goroutines run, and a probe ends with an answer or at opts.Timeout.  A
\* caller who has not left keeps reading.
Fairness ==
    /\ WF_vars(Feed \/ StopFeeding)
    /\ \A w \in Workers : WF_vars(Worker(w))
    /\ WF_vars(CloseOut)
    /\ WF_vars(Receive \/ SeeClosed)

FairSpec == Spec /\ Fairness

-----------------------------------------------------------------------------
(* Properties. *)

\* The shape of the state; a worker has a host exactly while it works on it.
TypeOK ==
    /\ mode \in {"batch", "stream"}
    /\ fed \in 0..N
    /\ taken \in 0..fed
    /\ inClosed \in BOOLEAN
    /\ pc \in [Workers -> {"range", "probe", "answer", "emit", "done"}]
    /\ host \in [Workers -> 0..N]
    /\ \A w \in Workers : (host[w] # 0) <=> (pc[w] \in {"probe", "answer", "emit"})
    /\ tried \in [Workers -> 0..Len(Methods)]
    /\ found \in [Workers -> {Methods[i] : i \in 1..Len(Methods)} \cup {"filtered"}]
    /\ sent \in Seq([port : Hosts,
                     state : {Methods[i] : i \in 1..Len(Methods)} \cup {"filtered"}])
    /\ received \in 0..Len(sent)
    /\ outClosed \in BOOLEAN
    /\ reader \in {"reading", "left", "ended"}
    /\ ctxDone \in BOOLEAN

\* The output channel is closed behind the last send (discovery.go:168-171,
\* 221-222): a worker still probing would panic on it.
NoSendOnClosed == outClosed => \A w \in Workers : host[w] = 0

\* Once the context ends, every goroutine of a discovery goes away, even if
\* nobody reads the stream any more (discovery.go:213-217).
CanceledDiscoveryEnds == ctxDone ~> outClosed

\* A discovery whose caller keeps reading comes to its end.
DiscoveryEnds == (reader = "reading") ~> (reader # "reading")

\* Discovery keeps the promise of a scan, with hosts for ports and the first
\* method that is answered for the verdict (DiscoverHosts, "probes a list of
\* IP addresses to determine which are alive", and probeHost, "tries each
\* discovery method until one succeeds"): each host is judged once, by the
\* right method, and none is missing unless the context ended.
FirstMethod(h) ==
    CHOOSE i \in 1..Len(Methods) :
        /\ Methods[i] \in Answers[h]
        /\ \A j \in 1..(i - 1) : Methods[j] \notin Answers[h]

Sweep == INSTANCE HostScan WITH
    Ports <- Hosts,
    Verdict <- [h \in Hosts |-> IF Answers[h] = {} THEN "filtered"
                                ELSE Methods[FirstMethod(h)]],
    openOnly <- FALSE,
    reported <- {sent[i] : i \in 1..received},
    finished <- reader = "ended"

SweepSpec == Sweep!Spec
=============================================================================
