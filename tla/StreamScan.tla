----------------------------- MODULE StreamScan -----------------------------
(***************************************************************************)
(* The streaming scans (stream.go).  ScanCIDRStream feeds the hosts of a   *)
(* range to a group of host workers, each of which runs streamHostPorts on *)
(* one host at a time and sends its results and a Done event to one shared *)
(* event channel; the channel is closed after the last worker.             *)
(* ScanHostStream is the same with a single host.                          *)
(*                                                                         *)
(* The port pool inside streamHostPorts is abstracted to what it is proved *)
(* to implement (PortPoolProofs!ImplementsHostScan): one result per port,  *)
(* in any order, and an early end only if the host's context has ended.    *)
(***************************************************************************)
EXTENDS Naturals, Sequences, FiniteSets

CONSTANTS
    HostList,       \* CreateHostRange(cidr), in order
    Excluded,       \* buildExcludeSet(opts.ExcludeHosts)
    Ports,          \* the ports scanned on every host
    OpenPorts,      \* which of them each host has open
    MinHostgroup, MaxHostgroup,
    OutCap,         \* streamCIDREventBuffer
    NoHost, NoPort

Hosts == {HostList[i] : i \in 1..Len(HostList)}
Targets == Hosts \ Excluded

ASSUME StreamAssumption ==
    /\ HostList \in Seq(Hosts)
    /\ \A i, j \in 1..Len(HostList) : HostList[i] = HostList[j] => i = j
    /\ OpenPorts \in [Hosts -> SUBSET Ports]
    /\ MinHostgroup \in Nat /\ MaxHostgroup \in Nat
    /\ OutCap \in Nat \ {0}
    /\ NoHost \notin Hosts
    /\ NoPort \notin Ports

\* How many host workers ScanCIDRStream starts.
HostWorkerCount ==
    LET wanted == IF MinHostgroup > 0 THEN MinHostgroup ELSE 1
    IN  IF MaxHostgroup > 0 /\ wanted > MaxHostgroup THEN MaxHostgroup ELSE wanted

HostWorkers == 1..HostWorkerCount

VARIABLES
    opts,       \* the caller's OpenOnly and HostTimeout > 0
    fed,        \* how many hosts of HostList the feeder has gone past
    hostCh,     \* the buffered channel of hosts
    hostClosed, \* it is closed
    pc,         \* where each host worker is
    host,       \* the host it scans
    reported,   \* the results its pool has handed over for that host
    cut,        \* hosts whose own context (HostTimeout) ended during the scan
    out,        \* the event channel
    outClosed,  \* it is closed
    seen,       \* the events the consumer has received
    ctxDone     \* the caller's context has ended

vars == <<opts, fed, hostCh, hostClosed, pc, host, reported, cut, out,
          outClosed, seen, ctxDone>>

feedVars == <<fed, hostCh, hostClosed>>
scanVars == <<pc, host, reported, cut>>
outVars == <<out, outClosed, seen>>

Options == [openOnly : BOOLEAN, hostTimeout : BOOLEAN]
Truth(h, p) == IF p \in OpenPorts[h] THEN "open" ELSE "closed"
ContextEnded(h) == ctxDone \/ h \in cut

PortEvent(h, p, s) == [kind |-> "port", host |-> h, port |-> p, state |-> s]
DoneEvent(h) == [kind |-> "done", host |-> h, port |-> NoPort, state |-> ""]
ErrorEvent == [kind |-> "error", host |-> NoHost, port |-> NoPort, state |-> ""]

Init ==
    /\ opts \in Options
    /\ fed = 0
    /\ hostCh = <<>>
    /\ hostClosed = FALSE
    /\ pc = [w \in HostWorkers |-> "idle"]
    /\ host = [w \in HostWorkers |-> NoHost]
    /\ reported = [w \in HostWorkers |-> {}]
    /\ cut = {}
    /\ out = <<>>
    /\ outClosed = FALSE
    /\ seen = <<>>
    /\ ctxDone = FALSE

-----------------------------------------------------------------------------
(* The producing goroutine: it refuses the scan with one error event       *)
(* (local address, invalid range; resolution and raw sockets for one       *)
(* host), or starts the feeder and the host workers.                       *)

Idle == \A w \in HostWorkers : pc[w] = "idle"

Refuse ==
    /\ Idle
    /\ out = <<>> /\ ~outClosed /\ seen = <<>>
    /\ out' = <<ErrorEvent>>
    /\ outClosed' = TRUE
    /\ UNCHANGED <<opts, feedVars, scanVars, seen, ctxDone>>

Start ==
    /\ Idle
    /\ ~outClosed
    /\ pc' = [w \in HostWorkers |-> "range"]
    /\ UNCHANGED <<opts, feedVars, host, reported, cut, outVars, ctxDone>>

\* Mutant: `close(out)` without waiting for the other host workers.
CloseOut_FirstWorkerDone ==
    /\ \E w \in HostWorkers : pc[w] = "done"
    /\ ~outClosed
    /\ outClosed' = TRUE
    /\ UNCHANGED <<opts, feedVars, scanVars, out, seen, ctxDone>>

\* wg.Wait(), then the deferred close.
CloseOut ==
    /\ \A w \in HostWorkers : pc[w] = "done"
    /\ ~outClosed
    /\ outClosed' = TRUE
    /\ UNCHANGED <<opts, feedVars, scanVars, out, seen, ctxDone>>

-----------------------------------------------------------------------------
(* The host feeder. *)

\* Mutant: the exclusion is not applied.
FeedHost_IgnoresExcluded ==
    /\ ~Idle /\ ~hostClosed
    /\ fed < Len(HostList)
    /\ fed' = fed + 1
    /\ hostCh' = Append(hostCh, HostList[fed + 1])
    /\ UNCHANGED <<opts, hostClosed, scanVars, outVars, ctxDone>>

\* hostCh has room for every host, so only the context can divert the select.
FeedHost ==
    /\ ~Idle /\ ~hostClosed
    /\ fed < Len(HostList)
    /\ fed' = fed + 1
    /\ hostCh' = IF HostList[fed + 1] \in Excluded THEN hostCh
                 ELSE Append(hostCh, HostList[fed + 1])
    /\ UNCHANGED <<opts, hostClosed, scanVars, outVars, ctxDone>>

\* Mutant: the ctx.Done() case returns without closing the channel.
CloseHosts_NotOnCancel ==
    /\ ~Idle /\ ~hostClosed
    /\ fed = Len(HostList) /\ ~ctxDone
    /\ hostClosed' = TRUE
    /\ UNCHANGED <<opts, fed, hostCh, scanVars, outVars, ctxDone>>

CloseHosts ==
    /\ ~Idle /\ ~hostClosed
    /\ fed = Len(HostList) \/ ctxDone
    /\ hostClosed' = TRUE
    /\ UNCHANGED <<opts, fed, hostCh, scanVars, outVars, ctxDone>>

-----------------------------------------------------------------------------
(* A host worker. *)

\* Mutant: the host is read from a shared list and not removed at once.
TakeHost_LeavesHost(w) ==
    /\ pc[w] = "range"
    /\ hostCh # <<>>
    /\ ~ctxDone
    /\ pc' = [pc EXCEPT ![w] = "scan"]
    /\ host' = [host EXCEPT ![w] = Head(hostCh)]
    /\ reported' = [reported EXCEPT ![w] = {}]
    /\ hostCh' \in {hostCh, Tail(hostCh)}
    /\ UNCHANGED <<opts, fed, hostClosed, cut, outVars, ctxDone>>

TakeHost(w) ==
    /\ pc[w] = "range"
    /\ hostCh # <<>>
    /\ hostCh' = Tail(hostCh)
    /\ \/ /\ ctxDone
          /\ pc' = [pc EXCEPT ![w] = "done"]
          /\ UNCHANGED <<host, reported>>
       \/ /\ ~ctxDone
          /\ pc' = [pc EXCEPT ![w] = "scan"]
          /\ host' = [host EXCEPT ![w] = Head(hostCh)]
          /\ reported' = [reported EXCEPT ![w] = {}]
    /\ UNCHANGED <<opts, fed, hostClosed, cut, outVars, ctxDone>>

NoMoreHosts(w) ==
    /\ pc[w] = "range"
    /\ hostCh = <<>> /\ hostClosed
    /\ pc' = [pc EXCEPT ![w] = "done"]
    /\ UNCHANGED <<opts, feedVars, host, reported, cut, outVars, ctxDone>>

\* streamHostPorts receives the result of port p from its pool, and sends it
\* on unless OpenOnly drops it; the send waits for room in the channel.
PortResult(w, p, s) ==
    LET h == host[w] IN
    /\ pc[w] = "scan"
    /\ p \notin reported[w]
    /\ s = Truth(h, p) \/ (ContextEnded(h) /\ s = "filtered")
    /\ reported' = [reported EXCEPT ![w] = @ \cup {p}]
    /\ IF opts.openOnly /\ s # "open"
       THEN out' = out
       ELSE /\ Len(out) < OutCap
            /\ out' = Append(out, PortEvent(h, p, s))
    /\ UNCHANGED <<opts, feedVars, pc, host, cut, outClosed, seen, ctxDone>>

\* Mutant: Done is sent when the last job has been handed out, one result
\* early.
HostDone_OneEarly(w) ==
    /\ pc[w] = "scan"
    /\ ContextEnded(host[w]) \/ Cardinality(Ports \ reported[w]) =< 1
    /\ Len(out) < OutCap
    /\ out' = Append(out, DoneEvent(host[w]))
    /\ pc' = [pc EXCEPT ![w] = "range"]
    /\ UNCHANGED <<opts, feedVars, host, reported, cut, outClosed, seen, ctxDone>>

\* Mutant: the worker announces Done as soon as the context ends and goes on
\* collecting.
HostDone_KeepsCollecting(w) ==
    /\ pc[w] = "scan"
    /\ ContextEnded(host[w]) \/ reported[w] = Ports
    /\ Len(out) < OutCap
    /\ out' = Append(out, DoneEvent(host[w]))
    /\ pc' = [pc EXCEPT ![w] = IF reported[w] = Ports THEN "range" ELSE "scan"]
    /\ UNCHANGED <<opts, feedVars, host, reported, cut, outClosed, seen, ctxDone>>

\* The pool has finished: after every port, or early when the context ended.
HostDone(w) ==
    /\ pc[w] = "scan"
    /\ ContextEnded(host[w]) \/ reported[w] = Ports
    /\ Len(out) < OutCap
    /\ out' = Append(out, DoneEvent(host[w]))
    /\ pc' = [pc EXCEPT ![w] = "range"]
    /\ UNCHANGED <<opts, feedVars, host, reported, cut, outClosed, seen, ctxDone>>

HostWorker(w) ==
    \/ TakeHost(w)
    \/ NoMoreHosts(w)
    \/ \E p \in Ports : \E s \in {"open", "closed", "filtered"} : PortResult(w, p, s)
    \/ HostDone(w)

-----------------------------------------------------------------------------
(* The consumer and the environment. *)

Consume ==
    /\ out # <<>>
    /\ seen' = Append(seen, Head(out))
    /\ out' = Tail(out)
    /\ UNCHANGED <<opts, feedVars, scanVars, outClosed, ctxDone>>

Cancel ==
    /\ ~ctxDone
    /\ ctxDone' = TRUE
    /\ UNCHANGED <<opts, feedVars, scanVars, outVars>>

\* context.WithTimeout(ctx, opts.HostTimeout) ends the scan of w's host only.
HostTimeout(w) ==
    /\ opts.hostTimeout
    /\ pc[w] = "scan"
    /\ host[w] \notin cut
    /\ cut' = cut \cup {host[w]}
    /\ UNCHANGED <<opts, feedVars, pc, host, reported, outVars, ctxDone>>

Terminated ==
    /\ outClosed /\ out = <<>>
    /\ Idle \/ (hostClosed /\ \A w \in HostWorkers : pc[w] = "done")
    /\ UNCHANGED vars

Next ==
    \/ Refuse
    \/ Start
    \/ FeedHost
    \/ CloseHosts
    \/ \E w \in HostWorkers : HostWorker(w) \/ HostTimeout(w)
    \/ CloseOut
    \/ Consume
    \/ Cancel
    \/ Terminated

Spec == Init /\ [][Next]_vars

\* Every goroutine that can run does, and the caller drains the channel, as
\* ScanHostStream asks ("The caller must drain the channel").
Fairness ==
    /\ WF_vars(Refuse \/ Start)
    /\ WF_vars(FeedHost \/ CloseHosts)
    /\ \A w \in HostWorkers : WF_vars(HostWorker(w))
    /\ WF_vars(CloseOut)
    /\ WF_vars(Consume)

FairSpec == Spec /\ Fairness

-----------------------------------------------------------------------------
(* Properties. *)

Events == {PortEvent(h, p, s) : h \in Targets, p \in Ports,
                                s \in {"open", "closed", "filtered"}}
          \cup {DoneEvent(h) : h \in Targets} \cup {ErrorEvent}

TypeOK ==
    /\ opts \in Options
    /\ fed \in 0..Len(HostList)
    /\ hostCh \in Seq(Targets)
    /\ hostClosed \in BOOLEAN
    /\ pc \in [HostWorkers -> {"idle", "range", "scan", "done"}]
    /\ host \in [HostWorkers -> Targets \cup {NoHost}]
    /\ \A w \in HostWorkers : pc[w] = "scan" => host[w] # NoHost
    /\ reported \in [HostWorkers -> SUBSET Ports]
    /\ cut \subseteq Targets
    /\ out \in Seq(Events) /\ Len(out) =< OutCap
    /\ outClosed \in BOOLEAN
    /\ seen \in Seq(Events)
    /\ ctxDone \in BOOLEAN

Stream == seen \o out
Dones(h) == {i \in 1..Len(Stream) : Stream[i] = DoneEvent(h)}

\* A host's Done event comes once, and after it nothing more about that host,
\* although several workers write to one channel (stream.go:200-210).
DoneIsLast ==
    \A i, j \in 1..Len(Stream) :
        i < j /\ Stream[i].kind = "done" => Stream[j].host # Stream[i].host

\* The channel is closed only when no host worker can still send, and unless
\* the caller canceled, each target and no excluded host has had its Done by
\* then (stream.go:104-141).
ClosedWhenAllDone ==
    outClosed /\ ~Idle =>
        /\ \A w \in HostWorkers : pc[w] = "done"
        /\ ~ctxDone => {h \in Hosts : Dones(h) # {}} = Targets

\* At most MaxHostgroup hosts are scanned in parallel, and no host by two
\* workers (scan.go:201, stream.go:93-102).
HostgroupBound ==
    LET scanning == {w \in HostWorkers : pc[w] = "scan"} IN
    /\ MaxHostgroup > 0 => Cardinality(scanning) =< MaxHostgroup
    /\ Cardinality({host[w] : w \in scanning}) = Cardinality(scanning)

\* What the consumer sees of each target is the scan of one host.
SeenOf(h) == {i \in 1..Len(seen) : seen[i].host = h}

HS(h) == INSTANCE HostScan WITH
    openOnly <- opts.openOnly,
    Verdict <- [p \in Ports |-> Truth(h, p)],
    reported <- {[port |-> seen[i].port, state |-> seen[i].state] :
                    i \in {j \in SeenOf(h) : seen[j].kind = "port"}},
    ctxDone <- ContextEnded(h),
    finished <- \E i \in SeenOf(h) : seen[i].kind = "done"

\* HS(h)!Spec for every target h, with the quantifier inside the box.
EachHostScanned ==
    /\ \A h \in Targets : HS(h)!Init
    /\ [][\A h \in Targets : HS(h)!Next \/ UNCHANGED HS(h)!vars]_vars

\* A drained stream ends, whatever the hosts do and whenever the contexts
\* end, and no goroutine of it is left (stream.go:73-141).
StreamEnds == <>[](outClosed /\ out = <<>> /\ (Idle \/ hostClosed))
=============================================================================
