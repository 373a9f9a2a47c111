--------------------------- MODULE StreamScanProofs ---------------------------
(***************************************************************************)
(* The order of the events of a stream, its close, the size of the host    *)
(* group, and that each host is scanned as HostScan promises, for any      *)
(* hosts, exclusions, ports, group and buffer.                             *)
(***************************************************************************)
EXTENDS StreamScan, FiniteSetTheorems, SequenceTheorems, TLAPS

-----------------------------------------------------------------------------
(* What is sent and received, as one sequence. *)

LEMMA EventFacts ==
    ASSUME NEW e \in Events
    PROVE  /\ e.kind \in {"port", "done", "error"}
           /\ e.kind = "done" => e.host \in Targets /\ e = DoneEvent(e.host)
<1>1. CASE \E h \in Targets, p \in Ports, s \in {"open", "closed", "filtered"} : e = PortEvent(h, p, s)
      <2>0. PICK h \in Targets, p \in Ports, s \in {"open", "closed", "filtered"} :
                e = [kind |-> "port", host |-> h, port |-> p, state |-> s]
            BY <1>1 DEF PortEvent
      <2>1. e.kind = "port"
            BY <2>0
      <2>. QED BY <2>1
<1>2. CASE \E h \in Targets : e = DoneEvent(h)
      <2>0. PICK h \in Targets : e = DoneEvent(h)
            BY <1>2
      <2>1. e.host = h /\ e.kind = "done"
            BY <2>0 DEF DoneEvent
      <2>. QED BY <2>0, <2>1
<1>3. CASE e = ErrorEvent
      <2>1. e.kind = "error"
            BY <1>3 DEF ErrorEvent
      <2>. QED BY <2>1
<1>. QED BY <1>1, <1>2, <1>3 DEF Events

\* An event sent comes last.
LEMMA SendAppends ==
    ASSUME TypeOK, NEW e \in Events, out' = Append(out, e), seen' = seen
    PROVE  /\ Len(Stream) \in Nat
           /\ Len(Stream') = Len(Stream) + 1
           /\ 1..Len(Stream') = 1..Len(Stream) \cup {Len(Stream) + 1}
           /\ Stream'[Len(Stream) + 1] = e
           /\ \A i \in 1..Len(Stream) : Stream'[i] = Stream[i]
<1>1. seen \in Seq(Events) /\ out \in Seq(Events)
      BY DEF TypeOK
<1>2. /\ out' \in Seq(Events) /\ Len(out') = Len(out) + 1 /\ out'[Len(out) + 1] = e
      /\ \A i \in 1..Len(out) : out'[i] = out[i]
      /\ Len(out) \in Nat /\ Len(seen) \in Nat
      BY <1>1
<1>3. /\ Stream = seen \o out /\ Stream' = seen \o out'
      BY DEF Stream
<1>4. /\ Len(Stream) = Len(seen) + Len(out)
      /\ \A i \in 1..(Len(seen) + Len(out)) :
            Stream[i] = IF i =< Len(seen) THEN seen[i] ELSE out[i - Len(seen)]
      BY <1>1, <1>3, ConcatProperties
<1>5. /\ Len(Stream') = Len(seen) + Len(out')
      /\ \A i \in 1..(Len(seen) + Len(out')) :
            Stream'[i] = IF i =< Len(seen) THEN seen[i] ELSE out'[i - Len(seen)]
      BY <1>1, <1>2, <1>3, ConcatProperties
<1>6. Stream'[Len(Stream) + 1] = e
      BY <1>2, <1>4, <1>5
<1>7. ASSUME NEW i \in 1..Len(Stream) PROVE Stream'[i] = Stream[i]
      <2>1. CASE i =< Len(seen)
            BY <1>2, <1>4, <1>5, <2>1
      <2>2. CASE ~(i =< Len(seen))
            <3>1. i - Len(seen) \in 1..Len(out)
                  BY <1>2, <1>4, <2>2
            <3>. QED BY <1>2, <1>4, <1>5, <2>2, <3>1
      <2>. QED BY <2>1, <2>2
<1>. QED BY <1>2, <1>4, <1>5, <1>6, <1>7

\* Receiving moves an event from one part of the stream to the other.
LEMMA ConsumeKeeps ==
    ASSUME TypeOK, Consume
    PROVE  /\ Stream' = Stream
           /\ seen' \in Seq(Events) /\ out' \in Seq(Events)
           /\ Len(out') =< OutCap
<1>1. /\ seen \in Seq(Events) /\ out \in Seq(Events) /\ out # <<>> /\ Len(out) =< OutCap
      /\ seen' = Append(seen, Head(out)) /\ out' = Tail(out)
      BY DEF TypeOK, Consume
<1>2. /\ Head(out) \in Events /\ Head(out) = out[1]
      /\ out' \in Seq(Events) /\ Len(out') = Len(out) - 1
      /\ \A i \in 1..Len(out') : out'[i] = out[i + 1]
      /\ Len(out) \in Nat \ {0} /\ Len(seen) \in Nat
      BY <1>1, HeadTailProperties
<1>3. /\ seen' \in Seq(Events) /\ Len(seen') = Len(seen) + 1
      /\ seen'[Len(seen) + 1] = out[1] /\ \A i \in 1..Len(seen) : seen'[i] = seen[i]
      BY <1>1, <1>2
<1>4. /\ Stream \in Seq(Events) /\ Len(Stream) = Len(seen) + Len(out)
      /\ \A i \in 1..(Len(seen) + Len(out)) :
            Stream[i] = IF i =< Len(seen) THEN seen[i] ELSE out[i - Len(seen)]
      BY <1>1, ConcatProperties DEF Stream
<1>5. /\ Stream' \in Seq(Events) /\ Len(Stream') = Len(seen') + Len(out')
      /\ \A i \in 1..(Len(seen') + Len(out')) :
            Stream'[i] = IF i =< Len(seen') THEN seen'[i] ELSE out'[i - Len(seen')]
      BY <1>2, <1>3, ConcatProperties DEF Stream
<1>6. /\ Len(Stream') = Len(Stream) /\ Len(Stream) = Len(seen') + Len(out')
      /\ Len(seen') = Len(seen) + 1 /\ Len(seen) \in Nat /\ Len(out) \in Nat /\ Len(out') \in Nat
      BY <1>2, <1>3, <1>4, <1>5
<1>7. ASSUME NEW i \in 1..Len(Stream) PROVE Stream'[i] = Stream[i]
      <2>. i \in 1..(Len(seen) + Len(out)) /\ i \in 1..(Len(seen') + Len(out'))
            BY <1>4, <1>6
      <2>1. CASE i =< Len(seen)
            <3>1. Stream'[i] = seen'[i]
                  BY <1>5, <1>6, <2>1
            <3>2. Stream[i] = seen[i]
                  BY <1>4, <2>1
            <3>. QED BY <1>3, <1>6, <2>1, <3>1, <3>2
      <2>2. CASE i = Len(seen) + 1
            <3>1. Stream'[i] = seen'[Len(seen) + 1]
                  BY <1>5, <1>6, <2>2
            <3>2. Stream[i] = out[1]
                  BY <1>4, <1>6, <2>2
            <3>. QED BY <1>3, <3>1, <3>2
      <2>3. CASE i > Len(seen) + 1
            <3>1. i - Len(seen') \in 1..Len(out') /\ (i - Len(seen')) + 1 = i - Len(seen)
                  BY <1>6, <2>3
            <3>2. Stream'[i] = out'[i - Len(seen')]
                  BY <1>5, <1>6, <2>3
            <3>3. Stream[i] = out[i - Len(seen)]
                  BY <1>4, <1>6, <2>3
            <3>. QED BY <1>2, <3>1, <3>2, <3>3
      <2>. QED BY <1>6, <2>1, <2>2, <2>3
<1>8. Stream' = Stream
      BY <1>4, <1>5, <1>6, <1>7, SeqEqual
<1>9. Len(out') =< OutCap
      BY <1>1, <1>2, StreamAssumption
<1>. QED BY <1>2, <1>3, <1>8, <1>9

-----------------------------------------------------------------------------
(* Types. *)

LEMMA TypeStep ==
    ASSUME TypeOK, [Next]_vars
    PROVE  TypeOK'
<1>. USE DEF TypeOK
<1>1. CASE Refuse
      <2>1. <<ErrorEvent>> \in Seq(Events) /\ Len(<<ErrorEvent>>) = 1
            BY DEF Events
      <2>. QED BY <1>1, <2>1, StreamAssumption DEF Refuse, feedVars, scanVars
<1>2. CASE Start \/ CloseHosts \/ CloseOut \/ Cancel \/ Terminated \/ UNCHANGED vars
      BY <1>2 DEF Start, CloseHosts, CloseOut, Cancel, Terminated, vars, feedVars, scanVars, outVars
<1>3. CASE FeedHost
      <2>1. fed + 1 \in 1..Len(HostList) /\ fed' \in 0..Len(HostList)
            BY <1>3 DEF FeedHost
      <2>2. HostList[fed + 1] \in Hosts
            BY <2>1 DEF Hosts
      <2>3. hostCh' \in Seq(Targets)
            BY <1>3, <2>2 DEF FeedHost, Targets
      <2>. QED BY <1>3, <2>1, <2>3 DEF FeedHost, scanVars, outVars
<1>4. ASSUME NEW w \in HostWorkers, TakeHost(w) PROVE TypeOK'
      <2>1. Head(hostCh) \in Targets /\ hostCh' \in Seq(Targets)
            BY <1>4, HeadTailProperties DEF TakeHost
      <2>2. NoHost \notin Targets
            BY StreamAssumption DEF Targets
      <2>3. CASE ctxDone
            BY <1>4, <2>1, <2>3 DEF TakeHost, outVars
      <2>4. CASE ~ctxDone
            BY <1>4, <2>1, <2>2, <2>4 DEF TakeHost, outVars
      <2>. QED BY <2>3, <2>4
<1>5. ASSUME NEW w \in HostWorkers, NoMoreHosts(w) PROVE TypeOK'
      BY <1>5 DEF NoMoreHosts, feedVars, outVars
<1>6. ASSUME NEW w \in HostWorkers, NEW p \in Ports, NEW s \in {"open", "closed", "filtered"},
             PortResult(w, p, s)
      PROVE  TypeOK'
      <2>1. PortEvent(host[w], p, s) \in Events
            BY <1>6 DEF PortResult, Events
      <2>2. out' \in Seq(Events) /\ Len(out') =< OutCap
            <3>1. CASE out' = out
                  BY <3>1
            <3>2. CASE Len(out) < OutCap /\ out' = Append(out, PortEvent(host[w], p, s))
                  BY <2>1, <3>2, StreamAssumption
            <3>. QED BY <1>6, <3>1, <3>2 DEF PortResult
      <2>. QED BY <1>6, <2>2 DEF PortResult, feedVars
<1>7. ASSUME NEW w \in HostWorkers, HostDone(w) PROVE TypeOK'
      <2>1. DoneEvent(host[w]) \in Events
            BY <1>7 DEF HostDone, Events
      <2>2. out' \in Seq(Events) /\ Len(out') =< OutCap
            BY <1>7, <2>1, StreamAssumption DEF HostDone
      <2>. QED BY <1>7, <2>2 DEF HostDone, feedVars
<1>8. CASE Consume
      BY <1>8, ConsumeKeeps DEF Consume, feedVars, scanVars
<1>9. ASSUME NEW w \in HostWorkers, HostTimeout(w) PROVE TypeOK'
      <2>1. host[w] \in Targets
            BY <1>9 DEF HostTimeout
      <2>. QED BY <1>9, <2>1 DEF HostTimeout, feedVars, outVars
<1>. QED BY <1>1, <1>2, <1>3, <1>4, <1>5, <1>6, <1>7, <1>8, <1>9 DEF Next, HostWorker

LEMMA TypeInit == Init => TypeOK
<1>. SUFFICES ASSUME Init PROVE TypeOK
      OBVIOUS
<1>1. fed \in 0..Len(HostList) /\ Len(out) =< OutCap /\ out \in Seq(Events) /\ seen \in Seq(Events)
      BY StreamAssumption DEF Init
<1>2. hostCh \in Seq(Targets) /\ cut \subseteq Targets
      BY DEF Init
<1>3. /\ pc \in [HostWorkers -> {"idle", "range", "scan", "done"}]
      /\ host \in [HostWorkers -> Targets \cup {NoHost}]
      /\ reported \in [HostWorkers -> SUBSET Ports]
      /\ \A w \in HostWorkers : pc[w] = "scan" => host[w] # NoHost
      BY DEF Init
<1>. QED BY <1>1, <1>2, <1>3 DEF Init, TypeOK

THEOREM TypeCorrect == Spec => []TypeOK
BY TypeInit, TypeStep, PTL DEF Spec

-----------------------------------------------------------------------------
(* The inductive invariant: where a host can be.  It is still to be fed, or  *)
(* in the channel, or with one worker, or its Done has been sent; it is in   *)
(* two of these places never, and, until the context ends, in one of them    *)
(* once the feeder has gone past it.                                         *)

Fed(h) == \E k \in 1..fed : HostList[k] = h
Queued(h) == \E i \in 1..Len(hostCh) : hostCh[i] = h
Scanned(h) == \E w \in HostWorkers : pc[w] = "scan" /\ host[w] = h
Finished(h) == \E i \in 1..Len(Stream) : Stream[i].kind = "done" /\ Stream[i].host = h

\* A host is fed before it is anywhere, and queued once.
Feeding ==
    /\ \A h : Queued(h) \/ Scanned(h) \/ Finished(h) => Fed(h)
    /\ \A i, j \in 1..Len(hostCh) : hostCh[i] = hostCh[j] => i = j

\* A host that is scanned waits in no queue and has no second worker.
Scanning ==
    /\ \A h : Scanned(h) => ~Queued(h)
    /\ \A v, w \in HostWorkers :
          pc[v] = "scan" /\ pc[w] = "scan" /\ host[v] = host[w] => v = w

\* A finished host does not come back.
Ending == \A h : Finished(h) => ~Queued(h) /\ ~Scanned(h)

\* Which goroutine ends when.
Closing ==
    /\ hostClosed /\ ~ctxDone => fed = Len(HostList)
    /\ \A w \in HostWorkers : pc[w] = "done" /\ ~ctxDone => hostClosed /\ hostCh = <<>>
    /\ outClosed /\ ~Idle => \A w \in HostWorkers : pc[w] = "done"

\* Until the context ends no host gets lost.
NoneLost ==
    ~ctxDone => \A h \in Targets : Fed(h) => Queued(h) \/ Scanned(h) \/ Finished(h)

Inv == TypeOK /\ Feeding /\ Scanning /\ Ending /\ Closing /\ NoneLost /\ DoneIsLast

\* What each action does to the four places.
LEMMA FeedPlaces ==
    ASSUME Inv, FeedHost
    PROVE  LET new == HostList[fed + 1] IN
           /\ ~Fed(new)
           /\ \A h : Fed(h)' <=> Fed(h) \/ h = new
           /\ \A h : Queued(h)' <=> Queued(h) \/ (h = new /\ new \notin Excluded)
           /\ \A i, j \in 1..Len(hostCh') : hostCh'[i] = hostCh'[j] => i = j
           /\ \A h : Scanned(h)' <=> Scanned(h)
           /\ \A h : Finished(h)' <=> Finished(h)
           /\ Stream' = Stream
<1>. DEFINE new == HostList[fed + 1]
<1>1. /\ fed \in 0..Len(HostList) /\ Len(HostList) \in Nat /\ fed < Len(HostList)
      /\ fed' = fed + 1 /\ hostCh \in Seq(Targets)
      BY StreamAssumption DEF FeedHost, Inv, TypeOK
<1>2. ~Fed(new)
      BY <1>1, StreamAssumption DEF Fed
<1>3. ASSUME NEW h PROVE Fed(h)' <=> Fed(h) \/ h = new
      <2>1. 1..fed' = 1..fed \cup {fed + 1}
            BY <1>1
      <2>. QED BY <2>1 DEF Fed
<1>4. /\ \A h : Scanned(h)' <=> Scanned(h)
      /\ \A h : Finished(h)' <=> Finished(h)
      /\ Stream' = Stream
      BY DEF FeedHost, Scanned, Finished, Stream, scanVars, outVars
<1>5. ~Queued(new)
      BY <1>2 DEF Inv, Feeding
<1>6. CASE new \in Excluded
      <2>1. hostCh' = hostCh
            BY <1>6 DEF FeedHost
      <2>. QED BY <1>2, <1>3, <1>4, <1>6, <2>1 DEF Queued, Inv, Feeding
<1>7. CASE new \notin Excluded
      <2>1. hostCh' = Append(hostCh, new)
            BY <1>7 DEF FeedHost
      <2>2. new \in Hosts
            BY <1>1 DEF Hosts
      <2>3. /\ Len(hostCh) \in Nat /\ Len(hostCh') = Len(hostCh) + 1
            /\ hostCh'[Len(hostCh) + 1] = new
            /\ \A i \in 1..Len(hostCh) : hostCh'[i] = hostCh[i]
            /\ 1..Len(hostCh') = 1..Len(hostCh) \cup {Len(hostCh) + 1}
            BY <1>1, <1>7, <2>1, <2>2 DEF Targets
      <2>4. ASSUME NEW h PROVE Queued(h)' <=> Queued(h) \/ h = new
            BY <2>3 DEF Queued
      <2>5. \A i, j \in 1..Len(hostCh') : hostCh'[i] = hostCh'[j] => i = j
            BY <1>5, <2>3 DEF Queued, Inv, Feeding
      <2>. QED BY <1>2, <1>3, <1>4, <1>7, <2>4, <2>5
<1>. QED BY <1>6, <1>7

LEMMA TakePlaces ==
    ASSUME Inv, NEW w \in HostWorkers, TakeHost(w)
    PROVE  LET taken == Head(hostCh) IN
           /\ Queued(taken)
           /\ \A h : Fed(h)' <=> Fed(h)
           /\ \A h : Queued(h)' <=> Queued(h) /\ h # taken
           /\ \A i, j \in 1..Len(hostCh') : hostCh'[i] = hostCh'[j] => i = j
           /\ \A h : Scanned(h)' <=> Scanned(h) \/ (~ctxDone /\ h = taken)
           /\ \A h : Finished(h)' <=> Finished(h)
           /\ Stream' = Stream
<1>. DEFINE taken == Head(hostCh)
<1>1. /\ hostCh \in Seq(Targets) /\ hostCh # <<>> /\ hostCh' = Tail(hostCh)
      /\ pc \in [HostWorkers -> {"idle", "range", "scan", "done"}]
      /\ host \in [HostWorkers -> Targets \cup {NoHost}]
      BY DEF TakeHost, Inv, TypeOK
<1>2. /\ Len(hostCh) \in Nat \ {0} /\ taken = hostCh[1]
      /\ Len(hostCh') = Len(hostCh) - 1
      /\ \A i \in 1..Len(hostCh') : hostCh'[i] = hostCh[i + 1]
      BY <1>1, HeadTailProperties, EmptySeq
<1>3. \A i, j \in 1..Len(hostCh) : hostCh[i] = hostCh[j] => i = j
      BY DEF Inv, Feeding
<1>4. Queued(taken)
      BY <1>2 DEF Queued
<1>5. ASSUME NEW h PROVE Queued(h)' <=> Queued(h) /\ h # taken
      <2>1. ASSUME Queued(h)' PROVE Queued(h) /\ h # taken
            <3>1. PICK i \in 1..Len(hostCh') : hostCh'[i] = h
                  BY <2>1 DEF Queued
            <3>2. i + 1 \in 1..Len(hostCh) /\ hostCh[i + 1] = h /\ i + 1 # 1 /\ 1 \in 1..Len(hostCh)
                  BY <1>2, <3>1
            <3>. QED BY <1>2, <1>3, <3>2 DEF Queued
      <2>2. ASSUME Queued(h), h # taken PROVE Queued(h)'
            <3>1. PICK i \in 1..Len(hostCh) : hostCh[i] = h
                  BY <2>2 DEF Queued
            <3>2. i # 1
                  BY <1>2, <2>2, <3>1
            <3>3. i - 1 \in 1..Len(hostCh') /\ hostCh'[i - 1] = hostCh[(i - 1) + 1] /\ (i - 1) + 1 = i
                  BY <1>2, <3>1, <3>2
            <3>. QED BY <3>1, <3>3 DEF Queued
      <2>. QED BY <2>1, <2>2
<1>6. \A i, j \in 1..Len(hostCh') : hostCh'[i] = hostCh'[j] => i = j
      <2>. SUFFICES ASSUME NEW i \in 1..Len(hostCh'), NEW j \in 1..Len(hostCh'), hostCh'[i] = hostCh'[j]
                    PROVE  i = j
            OBVIOUS
      <2>1. i + 1 \in 1..Len(hostCh) /\ j + 1 \in 1..Len(hostCh)
            BY <1>2
      <2>2. i + 1 = j + 1
            BY <1>2, <1>3, <2>1
      <2>. QED BY <2>2
<1>7. ASSUME NEW h PROVE Scanned(h)' <=> Scanned(h) \/ (~ctxDone /\ h = taken)
      <2>1. CASE ctxDone
            BY <1>1, <2>1 DEF TakeHost, Scanned
      <2>2. CASE ~ctxDone
            <3>1. /\ pc[w] = "range" /\ pc' = [pc EXCEPT ![w] = "scan"]
                  /\ host' = [host EXCEPT ![w] = taken]
                  BY <2>2 DEF TakeHost
            <3>. QED BY <1>1, <2>2, <3>1 DEF Scanned
      <2>. QED BY <2>1, <2>2
<1>8. /\ \A h : Fed(h)' <=> Fed(h)
      /\ \A h : Finished(h)' <=> Finished(h)
      /\ Stream' = Stream
      BY DEF TakeHost, Fed, Finished, Stream, outVars
<1>. QED BY <1>4, <1>5, <1>6, <1>7, <1>8

LEMMA ResultPlaces ==
    ASSUME Inv, NEW w \in HostWorkers, NEW p \in Ports, NEW s \in {"open", "closed", "filtered"},
           PortResult(w, p, s)
    PROVE  /\ \A h : Fed(h)' <=> Fed(h)
           /\ \A h : Queued(h)' <=> Queued(h)
           /\ \A h : Scanned(h)' <=> Scanned(h)
           /\ \A h : Finished(h)' <=> Finished(h)
           /\ DoneIsLast'
<1>. DEFINE e == PortEvent(host[w], p, s)
<1>1. TypeOK /\ pc[w] = "scan" /\ seen' = seen /\ host[w] \in Targets
      BY DEF PortResult, Inv, TypeOK
<1>2. /\ \A h : Fed(h)' <=> Fed(h)
      /\ \A h : Queued(h)' <=> Queued(h)
      /\ \A h : Scanned(h)' <=> Scanned(h)
      BY DEF PortResult, Fed, Queued, Scanned, feedVars
<1>3. e \in Events /\ e.kind = "port" /\ e.host = host[w]
      BY <1>1 DEF Events, PortEvent
<1>4. ~Finished(host[w])
      BY <1>1 DEF Inv, Ending, Scanned
<1>5. CASE out' = out
      <2>1. Stream' = Stream
            BY <1>1, <1>5 DEF Stream
      <2>. QED BY <1>2, <2>1 DEF Finished, DoneIsLast, Inv
<1>6. CASE out' = Append(out, e)
      <2>. DEFINE n == Len(Stream) + 1
      <2>1. /\ Len(Stream) \in Nat
            /\ 1..Len(Stream') = 1..Len(Stream) \cup {n}
            /\ Stream'[n] = e
            /\ \A i \in 1..Len(Stream) : Stream'[i] = Stream[i]
            BY <1>1, <1>3, <1>6, SendAppends
      <2>2. \A h : Finished(h)' <=> Finished(h)
            BY <1>3, <2>1 DEF Finished
      <2>3. DoneIsLast'
            <3>. SUFFICES ASSUME NEW i \in 1..Len(Stream'), NEW j \in 1..Len(Stream'),
                                 i < j, Stream'[i].kind = "done"
                          PROVE  Stream'[j].host # Stream'[i].host
                  BY DEF DoneIsLast
            <3>1. i \in 1..Len(Stream)
                  BY <2>1
            <3>2. CASE j \in 1..Len(Stream)
                  BY <2>1, <3>1, <3>2 DEF Inv, DoneIsLast
            <3>3. CASE j = n
                  BY <1>3, <1>4, <2>1, <3>1, <3>3 DEF Finished
            <3>. QED BY <2>1, <3>2, <3>3
      <2>. QED BY <1>2, <2>2, <2>3
<1>. QED BY <1>5, <1>6 DEF PortResult

LEMMA DonePlaces ==
    ASSUME Inv, NEW w \in HostWorkers, HostDone(w)
    PROVE  /\ Scanned(host[w])
           /\ \A h : Fed(h)' <=> Fed(h)
           /\ \A h : Queued(h)' <=> Queued(h)
           /\ \A h : Scanned(h)' <=> Scanned(h) /\ h # host[w]
           /\ \A h : Finished(h)' <=> Finished(h) \/ h = host[w]
           /\ DoneIsLast'
<1>. DEFINE e == DoneEvent(host[w])
<1>1. /\ TypeOK /\ pc[w] = "scan" /\ seen' = seen /\ out' = Append(out, e) /\ host' = host
      /\ host[w] \in Targets /\ pc' = [pc EXCEPT ![w] = "range"]
      /\ pc \in [HostWorkers -> {"idle", "range", "scan", "done"}]
      BY DEF HostDone, Inv, TypeOK
<1>2. /\ Scanned(host[w])
      /\ \A h : Fed(h)' <=> Fed(h)
      /\ \A h : Queued(h)' <=> Queued(h)
      BY <1>1 DEF HostDone, Fed, Queued, Scanned, feedVars
<1>3. e \in Events /\ e.kind = "done" /\ e.host = host[w]
      <2>1. e \in Events
            BY <1>1 DEF Events
      <2>2. e.kind = "done" /\ e.host = host[w]
            BY DEF DoneEvent
      <2>. QED BY <2>1, <2>2
<1>4. ~Finished(host[w])
      BY <1>2 DEF Inv, Ending
<1>5. \A h : Scanned(h)' <=> Scanned(h) /\ h # host[w]
      BY <1>1 DEF Scanned, Inv, Scanning
<1>. DEFINE n == Len(Stream) + 1
<1>6. /\ Len(Stream) \in Nat
      /\ 1..Len(Stream') = 1..Len(Stream) \cup {n}
      /\ Stream'[n] = e
      /\ \A i \in 1..Len(Stream) : Stream'[i] = Stream[i]
      BY <1>1, <1>3, SendAppends
<1>7. \A h : Finished(h)' <=> Finished(h) \/ h = host[w]
      BY <1>3, <1>6 DEF Finished
<1>8. DoneIsLast'
      <2>. SUFFICES ASSUME NEW i \in 1..Len(Stream'), NEW j \in 1..Len(Stream'),
                           i < j, Stream'[i].kind = "done"
                    PROVE  Stream'[j].host # Stream'[i].host
            BY DEF DoneIsLast
      <2>1. i \in 1..Len(Stream)
            BY <1>6
      <2>2. CASE j \in 1..Len(Stream)
            BY <1>6, <2>1, <2>2 DEF Inv, DoneIsLast
      <2>3. CASE j = n
            BY <1>3, <1>4, <1>6, <2>1, <2>3 DEF Finished
      <2>. QED BY <1>6, <2>2, <2>3
<1>. QED BY <1>2, <1>5, <1>7, <1>8

\* The other steps move no host and send nothing about one.
LEMMA OtherPlaces ==
    ASSUME Inv,
           \/ Refuse \/ Start \/ CloseHosts \/ CloseOut \/ Consume \/ Cancel \/ Terminated
           \/ \E w \in HostWorkers : NoMoreHosts(w) \/ HostTimeout(w)
           \/ UNCHANGED vars
    PROVE  /\ \A h : Fed(h)' <=> Fed(h)
           /\ \A h : Queued(h)' <=> Queued(h)
           /\ \A h : Scanned(h)' <=> Scanned(h)
           /\ \A h : Finished(h)' <=> Finished(h)
           /\ DoneIsLast'
           /\ hostCh' = hostCh /\ fed' = fed /\ host' = host
           /\ \A w \in HostWorkers : (pc'[w] = "scan") <=> (pc[w] = "scan")
           /\ ctxDone' \in {ctxDone, TRUE}
<1>. USE DEF feedVars, scanVars, outVars
<1>1. hostCh' = hostCh /\ fed' = fed /\ host' = host /\ ctxDone' \in {ctxDone, TRUE}
      BY DEF Refuse, Start, CloseHosts, CloseOut, Consume, Cancel, Terminated, NoMoreHosts,
             HostTimeout, vars
<1>2. \A w \in HostWorkers : (pc'[w] = "scan") <=> (pc[w] = "scan")
      <2>1. CASE Start
            BY <2>1 DEF Start, Idle
      <2>2. CASE \E w \in HostWorkers : NoMoreHosts(w)
            BY <2>2 DEF NoMoreHosts, Inv, TypeOK
      <2>3. CASE pc' = pc
            BY <2>3
      <2>. QED BY <2>1, <2>2, <2>3 DEF Refuse, CloseHosts, CloseOut, Consume, Cancel, Terminated,
                  HostTimeout, vars
<1>3. /\ \A h : Fed(h)' <=> Fed(h)
      /\ \A h : Queued(h)' <=> Queued(h)
      /\ \A h : Scanned(h)' <=> Scanned(h)
      BY <1>1, <1>2 DEF Fed, Queued, Scanned
<1>4. CASE Refuse
      <2>1. TypeOK /\ out = <<>> /\ seen = <<>> /\ seen' = seen /\ out' = Append(out, ErrorEvent)
            BY <1>4 DEF Inv, Refuse
      <2>2. ErrorEvent \in Events /\ ErrorEvent.kind = "error"
            BY DEF Events, ErrorEvent
      <2>3. Stream = <<>>
            BY <2>1 DEF Stream
      <2>4. 1..Len(Stream') = {1} /\ Stream'[1] = ErrorEvent
            BY <2>1, <2>2, <2>3, SendAppends
      <2>5. \A h : ~Finished(h)' /\ ~Finished(h)
            BY <2>2, <2>3, <2>4 DEF Finished
      <2>6. DoneIsLast'
            BY <2>4 DEF DoneIsLast
      <2>. QED BY <1>1, <1>2, <1>3, <2>5, <2>6
<1>5. CASE ~Refuse
      <2>1. Stream' = Stream
            <3>1. CASE Consume
                  BY <3>1, ConsumeKeeps DEF Inv
            <3>2. CASE ~Consume
                  BY <1>5, <3>2 DEF Start, CloseHosts, CloseOut, Cancel, Terminated, NoMoreHosts,
                     HostTimeout, vars, Stream
            <3>. QED BY <3>1, <3>2
      <2>. QED BY <1>1, <1>2, <1>3, <2>1 DEF Finished, DoneIsLast, Inv
<1>. QED BY <1>4, <1>5

-----------------------------------------------------------------------------
(* Each part of the invariant is kept by every step. *)

LEMMA PlacesStep ==
    ASSUME Inv, [Next]_vars
    PROVE  Feeding' /\ Scanning' /\ Ending' /\ NoneLost' /\ DoneIsLast'
<1>1. CASE FeedHost
      <2>. DEFINE new == HostList[fed + 1]
      <2>1. /\ ~Fed(new)
            /\ \A h : Fed(h)' <=> Fed(h) \/ h = new
            /\ \A h : Queued(h)' <=> Queued(h) \/ (h = new /\ new \notin Excluded)
            /\ \A i, j \in 1..Len(hostCh') : hostCh'[i] = hostCh'[j] => i = j
            /\ \A h : Scanned(h)' <=> Scanned(h)
            /\ \A h : Finished(h)' <=> Finished(h)
            /\ Stream' = Stream
            BY <1>1, FeedPlaces
      <2>2. pc' = pc /\ host' = host /\ ctxDone' = ctxDone
            BY <1>1 DEF FeedHost, scanVars
      <2>3. Feeding'
            BY <2>1 DEF Inv, Feeding
      <2>4. Scanning'
            BY <2>1, <2>2 DEF Inv, Feeding, Scanning
      <2>5. Ending'
            BY <2>1 DEF Inv, Feeding, Ending
      <2>6. NoneLost'
            BY <2>1, <2>2 DEF Inv, NoneLost, Targets
      <2>. QED BY <2>1, <2>3, <2>4, <2>5, <2>6 DEF DoneIsLast, Inv
<1>2. ASSUME NEW w \in HostWorkers, TakeHost(w)
      PROVE  Feeding' /\ Scanning' /\ Ending' /\ NoneLost' /\ DoneIsLast'
      <2>. DEFINE taken == Head(hostCh)
      <2>1. /\ Queued(taken)
            /\ \A h : Fed(h)' <=> Fed(h)
            /\ \A h : Queued(h)' <=> Queued(h) /\ h # taken
            /\ \A i, j \in 1..Len(hostCh') : hostCh'[i] = hostCh'[j] => i = j
            /\ \A h : Scanned(h)' <=> Scanned(h) \/ (~ctxDone /\ h = taken)
            /\ \A h : Finished(h)' <=> Finished(h)
            /\ Stream' = Stream
            BY <1>2, TakePlaces
      <2>2. Feeding'
            BY <2>1 DEF Inv, Feeding
      <2>3. \A u, v \in HostWorkers :
               pc'[u] = "scan" /\ pc'[v] = "scan" /\ host'[u] = host'[v] => u = v
            <3>1. CASE ctxDone
                  BY <1>2, <3>1 DEF TakeHost, Inv, TypeOK, Scanning
            <3>2. CASE ~ctxDone
                  <4>1. ~Scanned(taken)
                        BY <2>1 DEF Inv, Scanning
                  <4>2. /\ pc' = [pc EXCEPT ![w] = "scan"] /\ host' = [host EXCEPT ![w] = taken]
                        /\ pc \in [HostWorkers -> {"idle", "range", "scan", "done"}]
                        /\ host \in [HostWorkers -> Targets \cup {NoHost}]
                        BY <1>2, <3>2 DEF TakeHost, Inv, TypeOK
                  <4>. QED BY <4>1, <4>2 DEF Scanned, Inv, Scanning
            <3>. QED BY <3>1, <3>2
      <2>4. Scanning'
            <3>1. (\A h : Scanned(h) => ~Queued(h))'
                  BY <2>1 DEF Inv, Scanning
            <3>. QED BY <2>3, <3>1 DEF Scanning
      <2>5. Ending'
            BY <2>1 DEF Inv, Ending
      <2>6. NoneLost'
            <3>1. ctxDone' = ctxDone
                  BY <1>2 DEF TakeHost
            <3>. QED BY <2>1, <3>1 DEF Inv, NoneLost
      <2>. QED BY <2>1, <2>2, <2>4, <2>5, <2>6 DEF DoneIsLast, Inv
<1>3. ASSUME NEW w \in HostWorkers, NEW p \in Ports, NEW s \in {"open", "closed", "filtered"},
             PortResult(w, p, s)
      PROVE  Feeding' /\ Scanning' /\ Ending' /\ NoneLost' /\ DoneIsLast'
      <2>1. /\ \A h : Fed(h)' <=> Fed(h)
            /\ \A h : Queued(h)' <=> Queued(h)
            /\ \A h : Scanned(h)' <=> Scanned(h)
            /\ \A h : Finished(h)' <=> Finished(h)
            /\ DoneIsLast'
            BY <1>3, ResultPlaces
      <2>2. hostCh' = hostCh /\ pc' = pc /\ host' = host /\ ctxDone' = ctxDone
            BY <1>3 DEF PortResult, feedVars
      <2>3. Feeding'
            BY <2>1, <2>2 DEF Inv, Feeding
      <2>4. Scanning'
            BY <2>1, <2>2 DEF Inv, Scanning
      <2>5. Ending' /\ NoneLost'
            BY <2>1, <2>2 DEF Inv, Ending, NoneLost
      <2>. QED BY <2>1, <2>3, <2>4, <2>5
<1>4. ASSUME NEW w \in HostWorkers, HostDone(w)
      PROVE  Feeding' /\ Scanning' /\ Ending' /\ NoneLost' /\ DoneIsLast'
      <2>1. /\ Scanned(host[w])
            /\ \A h : Fed(h)' <=> Fed(h)
            /\ \A h : Queued(h)' <=> Queued(h)
            /\ \A h : Scanned(h)' <=> Scanned(h) /\ h # host[w]
            /\ \A h : Finished(h)' <=> Finished(h) \/ h = host[w]
            /\ DoneIsLast'
            BY <1>4, DonePlaces
      <2>2. /\ hostCh' = hostCh /\ pc' = [pc EXCEPT ![w] = "range"] /\ host' = host
            /\ ctxDone' = ctxDone /\ pc \in [HostWorkers -> {"idle", "range", "scan", "done"}]
            BY <1>4 DEF HostDone, feedVars, Inv, TypeOK
      <2>3. Feeding'
            BY <2>1, <2>2 DEF Inv, Feeding
      <2>4. Scanning'
            BY <2>1, <2>2 DEF Inv, Scanning
      <2>5. Ending'
            BY <2>1 DEF Inv, Ending, Scanning
      <2>6. NoneLost'
            BY <2>1, <2>2 DEF Inv, NoneLost
      <2>. QED BY <2>1, <2>3, <2>4, <2>5, <2>6
<1>5. ASSUME \/ Refuse \/ Start \/ CloseHosts \/ CloseOut \/ Consume \/ Cancel \/ Terminated
             \/ \E w \in HostWorkers : NoMoreHosts(w) \/ HostTimeout(w)
             \/ UNCHANGED vars
      PROVE  Feeding' /\ Scanning' /\ Ending' /\ NoneLost' /\ DoneIsLast'
      <2>1. /\ \A h : Fed(h)' <=> Fed(h)
            /\ \A h : Queued(h)' <=> Queued(h)
            /\ \A h : Scanned(h)' <=> Scanned(h)
            /\ \A h : Finished(h)' <=> Finished(h)
            /\ DoneIsLast'
            /\ hostCh' = hostCh /\ fed' = fed /\ host' = host
            /\ \A w \in HostWorkers : (pc'[w] = "scan") <=> (pc[w] = "scan")
            /\ ctxDone' \in {ctxDone, TRUE}
            BY <1>5, OtherPlaces
      <2>2. Feeding'
            BY <2>1 DEF Inv, Feeding
      <2>3. Scanning'
            BY <2>1 DEF Inv, Scanning
      <2>4. Ending'
            BY <2>1 DEF Inv, Ending
      <2>5. NoneLost'
            <3>1. ctxDone' = ctxDone \/ ctxDone' = TRUE
                  BY <2>1
            <3>. QED BY <2>1, <3>1 DEF Inv, NoneLost
      <2>. QED BY <2>1, <2>2, <2>3, <2>4, <2>5
<1>. QED BY <1>1, <1>2, <1>3, <1>4, <1>5 DEF Next, HostWorker

LEMMA ClosingStep ==
    ASSUME Inv, [Next]_vars
    PROVE  Closing'
<1>. USE DEF feedVars, scanVars, outVars
<1>0. /\ Closing /\ pc \in [HostWorkers -> {"idle", "range", "scan", "done"}]
      /\ outClosed \in BOOLEAN /\ hostClosed \in BOOLEAN /\ ctxDone \in BOOLEAN
      BY DEF Inv, TypeOK
<1>1. CASE Refuse \/ Cancel \/ Consume \/ Terminated \/ UNCHANGED vars
      BY <1>0, <1>1 DEF Refuse, Cancel, Consume, Terminated, vars, Closing, Idle
<1>2. CASE Start
      BY <1>0, <1>2 DEF Start, Closing, Idle
<1>3. CASE FeedHost \/ CloseHosts
      BY <1>0, <1>3 DEF FeedHost, CloseHosts, Closing, Idle
<1>4. CASE CloseOut
      BY <1>0, <1>4 DEF CloseOut, Closing, Idle
<1>5. ASSUME NEW w \in HostWorkers, HostWorker(w) \/ HostTimeout(w) PROVE Closing'
      <2>1. pc[w] \notin {"idle", "done"}
            BY <1>5 DEF HostWorker, TakeHost, NoMoreHosts, PortResult, HostDone, HostTimeout
      <2>2. ~outClosed
            BY <1>0, <2>1 DEF Closing, Idle
      <2>3. outClosed' = outClosed /\ ctxDone' = ctxDone /\ fed' = fed /\ hostClosed' = hostClosed
            BY <1>5 DEF HostWorker, TakeHost, NoMoreHosts, PortResult, HostDone, HostTimeout
      <2>4. \A v \in HostWorkers : pc'[v] = "done" /\ ~ctxDone' => hostClosed' /\ hostCh' = <<>>
            <3>1. CASE TakeHost(w)
                  BY <1>0, <2>3, <3>1 DEF TakeHost, Closing
            <3>2. CASE NoMoreHosts(w)
                  BY <1>0, <2>3, <3>2 DEF NoMoreHosts, Closing
            <3>3. CASE HostDone(w)
                  BY <1>0, <2>3, <3>3 DEF HostDone, Closing
            <3>4. CASE \E p \in Ports : \E s \in {"open", "closed", "filtered"} : PortResult(w, p, s)
                  BY <1>0, <2>3, <3>4 DEF PortResult, Closing
            <3>5. CASE HostTimeout(w)
                  BY <1>0, <2>3, <3>5 DEF HostTimeout, Closing
            <3>. QED BY <1>5, <3>1, <3>2, <3>3, <3>4, <3>5 DEF HostWorker
      <2>. QED BY <1>0, <2>2, <2>3, <2>4 DEF Closing
<1>. QED BY <1>1, <1>2, <1>3, <1>4, <1>5 DEF Next

LEMMA InitInv == Init => Inv
<1>. SUFFICES ASSUME Init PROVE Inv
      OBVIOUS
<1>1. /\ fed = 0 /\ hostCh = <<>> /\ Stream = <<>> /\ ~hostClosed /\ ~outClosed
      /\ \A w \in HostWorkers : pc[w] = "idle"
      BY DEF Init, Stream
<1>2. \A h : ~Fed(h) /\ ~Queued(h) /\ ~Scanned(h) /\ ~Finished(h)
      BY <1>1 DEF Fed, Queued, Scanned, Finished
<1>3. Closing
      BY <1>1 DEF Closing
<1>4. DoneIsLast
      BY <1>1 DEF DoneIsLast
<1>. QED BY <1>1, <1>2, <1>3, <1>4, TypeInit DEF Inv, Feeding, Scanning, Ending, NoneLost

LEMMA Invariance == Spec => []Inv
<1>1. Inv /\ [Next]_vars => Inv'
      BY TypeStep, PlacesStep, ClosingStep DEF Inv
<1>. QED BY InitInv, <1>1, PTL DEF Spec

-----------------------------------------------------------------------------
(* What follows from it. *)

\* Nothing about a host follows its Done, which comes once, although all host
\* workers write to one channel (stream.go:200-210).
THEOREM EventsInOrder == Spec => []DoneIsLast
BY Invariance, PTL DEF Inv

\* The channel is closed when no host worker can send any more, and with the
\* context alive each target has had its Done (stream.go:104-141).
THEOREM ClosedWhenDone == Spec => []ClosedWhenAllDone
<1>1. Inv => ClosedWhenAllDone
      <2>. SUFFICES ASSUME Inv, outClosed, ~Idle PROVE
                 /\ \A w \in HostWorkers : pc[w] = "done"
                 /\ ~ctxDone => {h \in Hosts : Dones(h) # {}} = Targets
            BY DEF ClosedWhenAllDone
      <2>1. \A w \in HostWorkers : pc[w] = "done"
            BY DEF Inv, Closing
      <2>2. ASSUME ~ctxDone, NEW h \in Targets PROVE Dones(h) # {}
            <3>1. PICK w \in HostWorkers : TRUE
                  BY DEF Idle
            <3>2. hostClosed /\ hostCh = <<>> /\ fed = Len(HostList)
                  BY <2>1, <2>2, <3>1 DEF Inv, Closing
            <3>3. Fed(h)
                  BY <3>2 DEF Fed, Targets, Hosts
            <3>4. ~Queued(h) /\ ~Scanned(h)
                  BY <2>1, <3>2 DEF Queued, Scanned
            <3>5. Finished(h)
                  BY <2>2, <3>3, <3>4 DEF Inv, NoneLost
            <3>6. PICK i \in 1..Len(Stream) : Stream[i].kind = "done" /\ Stream[i].host = h
                  BY <3>5 DEF Finished
            <3>7. Stream[i] \in Events
                  BY ConcatProperties DEF Stream, Inv, TypeOK
            <3>. QED BY <3>6, <3>7, EventFacts DEF Dones
      <2>3. ASSUME NEW h \in Hosts, Dones(h) # {} PROVE h \in Targets
            <3>1. PICK i \in 1..Len(Stream) : Stream[i] = DoneEvent(h)
                  BY <2>3 DEF Dones
            <3>2. Stream[i] \in Events
                  BY ConcatProperties DEF Stream, Inv, TypeOK
            <3>3. Stream[i].kind = "done" /\ Stream[i].host = h
                  <4>1. DoneEvent(h).kind = "done" /\ DoneEvent(h).host = h
                        BY DEF DoneEvent
                  <4>. QED BY <3>1, <4>1
            <3>. QED BY <3>2, <3>3, EventFacts
      <2>. QED BY <2>1, <2>2, <2>3 DEF Targets
<1>. QED BY Invariance, <1>1, PTL

\* At most MaxHostgroup hosts at a time, each by one worker (scan.go:201).
THEOREM GroupBounded == Spec => []HostgroupBound
<1>1. Inv => HostgroupBound
      <2>. SUFFICES ASSUME Inv PROVE HostgroupBound
            OBVIOUS
      <2>. DEFINE scanning == {w \in HostWorkers : pc[w] = "scan"}
                  hosts == {host[w] : w \in scanning}
      <2>1. /\ HostWorkerCount \in Nat
            /\ MaxHostgroup > 0 => HostWorkerCount =< MaxHostgroup
            BY StreamAssumption DEF HostWorkerCount
      <2>2. IsFiniteSet(HostWorkers) /\ Cardinality(HostWorkers) = HostWorkerCount
            BY <2>1, FS_Interval DEF HostWorkers
      <2>3. IsFiniteSet(scanning) /\ Cardinality(scanning) =< HostWorkerCount
            BY <2>2, FS_Subset
      <2>4. Cardinality(scanning) \in Nat
            BY <2>3, FS_CardinalityType
      <2>5. Cardinality(hosts) = Cardinality(scanning)
            <3>1. [w \in scanning |-> host[w]] \in Bijection(scanning, hosts)
                  BY DEF Bijection, Injection, Surjection, Inv, Scanning, IsInjective
            <3>2. ExistsBijection(scanning, hosts)
                  BY <3>1 DEF ExistsBijection
            <3>. QED BY <2>3, <3>2, FS_Bijection
      <2>. QED BY <2>1, <2>3, <2>4, <2>5, StreamAssumption DEF HostgroupBound
<1>. QED BY Invariance, <1>1, PTL

-----------------------------------------------------------------------------
(* Each host of a stream is scanned as HostScan promises: what the stream    *)
(* says of a host's ports, sent or received, against what its worker has     *)
(* reported.                                                                 *)

Told(h, p) == \E i \in 1..Len(Stream) :
    Stream[i].kind = "port" /\ Stream[i].host = h /\ Stream[i].port = p

\* No port of a host is reported twice.
ToldOnce ==
    \A i, j \in 1..Len(Stream) :
        /\ Stream[i].kind = "port" /\ Stream[j].kind = "port"
        /\ Stream[i].host = Stream[j].host /\ Stream[i].port = Stream[j].port
        => i = j

\* A state is the port's own, or "filtered" after the host's context ended.
ToldTruly ==
    \A i \in 1..Len(Stream) : Stream[i].kind = "port" =>
        /\ Stream[i].host \in Targets /\ Stream[i].port \in Ports
        /\ Stream[i].state \in {"open", "closed", "filtered"}
        /\ \/ Stream[i].state = Truth(Stream[i].host, Stream[i].port)
           \/ ContextEnded(Stream[i].host) /\ Stream[i].state = "filtered"
        /\ opts.openOnly => Stream[i].state = "open"

\* An event about a port has a worker that reported it, or a Done behind it.
ToldByWorker ==
    \A h, p : Told(h, p) =>
        \/ Finished(h)
        \/ \E w \in HostWorkers : pc[w] = "scan" /\ host[w] = h /\ p \in reported[w]

\* What a worker has reported it has sent, unless OpenOnly drops it.
WorkerTells ==
    \A w \in HostWorkers : pc[w] = "scan" /\ ~ContextEnded(host[w]) =>
        \A p \in reported[w] :
            (opts.openOnly => Truth(host[w], p) = "open") => Told(host[w], p)

\* A host finished before its context ended has every wanted port told.
AllTold ==
    \A h \in Targets : Finished(h) /\ ~ContextEnded(h) =>
        \A p \in Ports : (opts.openOnly => Truth(h, p) = "open") => Told(h, p)

TellInv == ToldOnce /\ ToldTruly /\ ToldByWorker /\ WorkerTells /\ AllTold

\* A context that has ended stays so, and the options never change.
LEMMA ContextStep ==
    ASSUME Inv, [Next]_vars
    PROVE  (\A h : ContextEnded(h) => ContextEnded(h)') /\ opts' = opts
BY DEF Next, vars, Refuse, Start, FeedHost, CloseHosts, HostWorker, TakeHost, NoMoreHosts,
       PortResult, HostDone, HostTimeout, CloseOut, Consume, Cancel, Terminated,
       ContextEnded, feedVars, scanVars, outVars

LEMMA TellResult ==
    ASSUME Inv, TellInv, NEW w \in HostWorkers, NEW p \in Ports,
           NEW s \in {"open", "closed", "filtered"}, PortResult(w, p, s)
    PROVE  TellInv'
<1>. DEFINE h == host[w]
            e == PortEvent(h, p, s)
<1>1. /\ TypeOK /\ pc[w] = "scan" /\ h \in Targets /\ p \notin reported[w]
      /\ seen' = seen /\ pc' = pc /\ host' = host /\ opts' = opts
      /\ reported' = [reported EXCEPT ![w] = @ \cup {p}]
      /\ reported \in [HostWorkers -> SUBSET Ports]
      /\ s = Truth(h, p) \/ (ContextEnded(h) /\ s = "filtered")
      BY DEF PortResult, Inv, TypeOK
<1>2. \A g : ContextEnded(g)' <=> ContextEnded(g)
      BY DEF PortResult, ContextEnded
<1>3. \A g : Finished(g)' <=> Finished(g)
      BY ResultPlaces
<1>4. ~Told(h, p)
      BY <1>1 DEF TellInv, ToldByWorker, Inv, Ending, Scanning, Scanned
<1>5. CASE opts.openOnly /\ s # "open"
      <2>1. Stream' = Stream
            BY <1>1, <1>5 DEF PortResult, Stream
      <2>2. \A g, q : Told(g, q)' <=> Told(g, q)
            BY <2>1 DEF Told
      <2>3. ToldOnce' /\ ToldTruly'
            BY <1>1, <1>2, <2>1 DEF TellInv, ToldOnce, ToldTruly
      <2>4. ToldByWorker'
            BY <1>1, <1>3, <2>2 DEF TellInv, ToldByWorker
      <2>5. WorkerTells'
            BY <1>1, <1>2, <1>5, <2>2 DEF TellInv, WorkerTells
      <2>6. AllTold'
            BY <1>1, <1>2, <1>3, <2>2 DEF TellInv, AllTold
      <2>. QED BY <2>3, <2>4, <2>5, <2>6 DEF TellInv
<1>6. CASE ~(opts.openOnly /\ s # "open")
      <2>. DEFINE n == Len(Stream) + 1
      <2>1. out' = Append(out, e) /\ e \in Events
            BY <1>1, <1>6 DEF PortResult, Events
      <2>2. /\ Len(Stream) \in Nat
            /\ 1..Len(Stream') = 1..Len(Stream) \cup {n} /\ n \notin 1..Len(Stream)
            /\ Stream'[n] = e
            /\ \A i \in 1..Len(Stream) : Stream'[i] = Stream[i]
            BY <1>1, <2>1, SendAppends
      <2>3. e.kind = "port" /\ e.host = h /\ e.port = p /\ e.state = s
            BY DEF PortEvent
      <2>. HIDE DEF n, e
      <2>4. \A g, q : Told(g, q)' <=> Told(g, q) \/ (g = h /\ q = p)
            BY <2>2, <2>3 DEF Told
      <2>5. ToldOnce'
            BY <1>4, <2>2, <2>3 DEF TellInv, ToldOnce, Told
      <2>6. ToldTruly'
            BY <1>1, <1>2, <1>6, <2>2, <2>3 DEF TellInv, ToldTruly
      <2>7. ToldByWorker'
            BY <1>1, <1>3, <2>4 DEF TellInv, ToldByWorker
      <2>8. WorkerTells'
            BY <1>1, <1>2, <2>4 DEF TellInv, WorkerTells
      <2>9. AllTold'
            BY <1>1, <1>2, <1>3, <2>4 DEF TellInv, AllTold
      <2>. QED BY <2>5, <2>6, <2>7, <2>8, <2>9 DEF TellInv
<1>. QED BY <1>5, <1>6

LEMMA TellDone ==
    ASSUME Inv, TellInv, NEW w \in HostWorkers, HostDone(w)
    PROVE  TellInv'
<1>. DEFINE h == host[w]
            e == DoneEvent(h)
            n == Len(Stream) + 1
<1>1. /\ TypeOK /\ pc[w] = "scan" /\ h \in Targets
      /\ seen' = seen /\ out' = Append(out, e) /\ host' = host /\ opts' = opts
      /\ reported' = reported
      /\ ContextEnded(h) \/ reported[w] = Ports
      /\ pc' = [pc EXCEPT ![w] = "range"]
      /\ pc \in [HostWorkers -> {"idle", "range", "scan", "done"}]
      BY DEF HostDone, Inv, TypeOK
<1>2. \A g : ContextEnded(g)' <=> ContextEnded(g)
      BY DEF HostDone, ContextEnded
<1>3. \A g : Finished(g)' <=> Finished(g) \/ g = h
      BY DonePlaces
<1>4. e \in Events
      BY <1>1 DEF Events
<1>5. /\ Len(Stream) \in Nat
      /\ 1..Len(Stream') = 1..Len(Stream) \cup {n}
      /\ Stream'[n] = e
      /\ \A i \in 1..Len(Stream) : Stream'[i] = Stream[i]
      BY <1>1, <1>4, SendAppends
<1>6. e.kind = "done"
      BY DEF DoneEvent
<1>. HIDE DEF n, e
<1>7. \A g, q : Told(g, q)' <=> Told(g, q)
      BY <1>5, <1>6 DEF Told
<1>8. ToldOnce'
      BY <1>5, <1>6 DEF TellInv, ToldOnce
<1>9. ToldTruly'
      BY <1>1, <1>2, <1>5, <1>6 DEF TellInv, ToldTruly
<1>10. \A v \in HostWorkers : (pc'[v] = "scan") <=> (pc[v] = "scan" /\ v # w)
      BY <1>1
<1>11. ToldByWorker'
      BY <1>1, <1>3, <1>7, <1>10 DEF TellInv, ToldByWorker
<1>12. WorkerTells'
      BY <1>1, <1>2, <1>7, <1>10 DEF TellInv, WorkerTells
<1>13. AllTold'
      BY <1>1, <1>2, <1>3, <1>7 DEF TellInv, AllTold, WorkerTells
<1>. QED BY <1>8, <1>9, <1>11, <1>12, <1>13 DEF TellInv

LEMMA TellTake ==
    ASSUME Inv, TellInv, NEW w \in HostWorkers, TakeHost(w)
    PROVE  TellInv'
<1>. DEFINE taken == Head(hostCh)
<1>1. /\ Queued(taken) /\ Stream' = Stream
      /\ \A g : Finished(g)' <=> Finished(g)
      BY TakePlaces
<1>2. /\ opts' = opts /\ pc[w] = "range"
      /\ pc \in [HostWorkers -> {"idle", "range", "scan", "done"}]
      /\ host \in [HostWorkers -> Targets \cup {NoHost}]
      /\ reported \in [HostWorkers -> SUBSET Ports]
      /\ \A g : ContextEnded(g)' <=> ContextEnded(g)
      /\ \/ /\ pc' = [pc EXCEPT ![w] = "done"] /\ host' = host /\ reported' = reported
         \/ /\ pc' = [pc EXCEPT ![w] = "scan"] /\ host' = [host EXCEPT ![w] = taken]
            /\ reported' = [reported EXCEPT ![w] = {}]
      BY DEF TakeHost, Inv, TypeOK, ContextEnded
<1>3. \A g, q : Told(g, q)' <=> Told(g, q)
      BY <1>1 DEF Told
<1>4. ToldOnce' /\ ToldTruly'
      BY <1>1, <1>2 DEF TellInv, ToldOnce, ToldTruly
<1>5. ToldByWorker'
      BY <1>1, <1>2, <1>3 DEF TellInv, ToldByWorker
<1>6. WorkerTells'
      BY <1>2, <1>3 DEF TellInv, WorkerTells
<1>7. AllTold'
      BY <1>1, <1>2, <1>3 DEF TellInv, AllTold
<1>. QED BY <1>4, <1>5, <1>6, <1>7 DEF TellInv

LEMMA TellOther ==
    ASSUME Inv, TellInv, [Next]_vars,
           \/ Refuse \/ Start \/ FeedHost \/ CloseHosts \/ CloseOut \/ Consume \/ Cancel
           \/ Terminated \/ UNCHANGED vars
           \/ \E w \in HostWorkers : NoMoreHosts(w) \/ HostTimeout(w)
    PROVE  TellInv'
<1>1. (\A h : ContextEnded(h) => ContextEnded(h)') /\ opts' = opts
      BY ContextStep
<1>2. /\ \A h : Finished(h)' <=> Finished(h)
      /\ host' = host /\ reported' = reported
      /\ \A w \in HostWorkers : (pc'[w] = "scan") <=> (pc[w] = "scan")
      <2>1. CASE FeedHost
            <3>1. \A h : Finished(h)' <=> Finished(h)
                  BY <2>1, FeedPlaces
            <3>. QED BY <2>1, <3>1 DEF FeedHost, scanVars
      <2>2. CASE ~FeedHost
            <3>1. reported' = reported
                  BY <2>2 DEF Refuse, Start, CloseHosts, CloseOut, Consume, Cancel, Terminated,
                     NoMoreHosts, HostTimeout, vars, scanVars
            <3>. QED BY <2>2, <3>1, OtherPlaces
      <2>. QED BY <2>1, <2>2
<1>3. /\ \A h, p : Told(h, p)' <=> Told(h, p)
      /\ ToldOnce'
      /\ \A i \in 1..Len(Stream') : Stream'[i].kind = "port" =>
             i \in 1..Len(Stream) /\ Stream'[i] = Stream[i]
      <2>1. CASE Refuse
            <3>1. /\ TypeOK /\ out = <<>> /\ seen = <<>> /\ seen' = seen
                  /\ out' = Append(out, ErrorEvent) /\ ErrorEvent \in Events
                  BY <2>1 DEF Inv, Refuse, Events
            <3>2. Stream = <<>>
                  BY <3>1 DEF Stream
            <3>3. 1..Len(Stream') = {1} /\ Stream'[1] = ErrorEvent
                  BY <3>1, <3>2, SendAppends
            <3>4. ErrorEvent.kind = "error"
                  BY DEF ErrorEvent
            <3>. QED BY <3>2, <3>3, <3>4 DEF Told, ToldOnce
      <2>2. CASE Stream' = Stream
            BY <2>2 DEF Told, ToldOnce, TellInv
      <2>3. ~Refuse => Stream' = Stream
            <3>1. CASE Consume
                  BY <3>1, ConsumeKeeps DEF Inv
            <3>2. CASE ~Consume /\ ~Refuse
                  BY <3>2 DEF Start, FeedHost, CloseHosts, CloseOut, Cancel, Terminated,
                     NoMoreHosts, HostTimeout, vars, outVars, Stream
            <3>. QED BY <3>1, <3>2
      <2>. QED BY <2>1, <2>2, <2>3
<1>4. ToldTruly'
      BY <1>1, <1>3 DEF TellInv, ToldTruly
<1>5. ToldByWorker' /\ WorkerTells' /\ AllTold'
      BY <1>1, <1>2, <1>3 DEF TellInv, ToldByWorker, WorkerTells, AllTold
<1>. QED BY <1>3, <1>4, <1>5 DEF TellInv

LEMMA TellInvariance == Spec => []TellInv
<1>1. Init => TellInv
      <2>1. Init => Stream = <<>> /\ \A w \in HostWorkers : pc[w] = "idle"
            BY DEF Init, Stream
      <2>. QED BY <2>1 DEF TellInv, ToldOnce, ToldTruly, ToldByWorker, WorkerTells, AllTold,
                  Told, Finished
<1>2. Inv /\ TellInv /\ [Next]_vars => TellInv'
      BY TellResult, TellDone, TellTake, TellOther DEF Next, HostWorker
<1>. QED BY Invariance, <1>1, <1>2, PTL DEF Spec

\* The refinement mapping of one host, by name.
Given(h) == {[port |-> seen[i].port, state |-> seen[i].state] :
                i \in {j \in SeenOf(h) : seen[j].kind = "port"}}
Over(h) == \E i \in SeenOf(h) : seen[i].kind = "done"
HostStep(h) == HS(h)!Next \/ UNCHANGED HS(h)!vars

\* A step that hands the consumer nothing is a stutter or the end of a context.
LEMMA NothingSeen ==
    ASSUME NEW h, opts' = opts, SeenOf(h)' = SeenOf(h), Given(h)' = Given(h), Over(h)' = Over(h),
           ContextEnded(h) => ContextEnded(h)', ctxDone \in BOOLEAN, ctxDone' \in BOOLEAN
    PROVE  HostStep(h)
<1>1. CASE ContextEnded(h)' = ContextEnded(h)
      BY <1>1 DEF HostStep, HS!vars, Given, Over
<1>2. CASE ContextEnded(h)' # ContextEnded(h)
      <2>1. ContextEnded(h) = FALSE /\ ContextEnded(h)' = TRUE
            BY <1>2 DEF ContextEnded
      <2>2. HS(h)!EndContext
            BY <2>1 DEF HS!EndContext, Given, Over
      <2>. QED BY <2>2 DEF HostStep, HS!Next
<1>. QED BY <1>1, <1>2

LEMMA ReportIsStep ==
    ASSUME NEW h, NEW p \in Ports, NEW s, s = Truth(h, p) \/ s = "filtered", HS(h)!Report(p, s)
    PROVE  HostStep(h)
BY DEF HostStep, HS!Next

LEMMA ErrorHasNoHost ==
    ASSUME NEW e \in Events, e.kind = "error"
    PROVE  e.host = NoHost
<1>1. \A h, p, s : PortEvent(h, p, s).kind = "port" /\ DoneEvent(h).kind = "done"
      BY DEF PortEvent, DoneEvent
<1>2. e = ErrorEvent
      BY <1>1 DEF Events
<1>. QED BY <1>2 DEF ErrorEvent

LEMMA ConsumeStep ==
    ASSUME Inv, TellInv, Consume, NEW h \in Targets
    PROVE  HostStep(h)
<1>. DEFINE k == Len(seen) + 1
            e == Head(out)
<1>1. /\ seen \in Seq(Events) /\ out \in Seq(Events) /\ out # <<>>
      /\ seen' = Append(seen, e) /\ opts' = opts
      /\ ContextEnded(h)' = ContextEnded(h) /\ ctxDone \in BOOLEAN /\ ctxDone' \in BOOLEAN
      BY DEF Inv, TypeOK, Consume, ContextEnded, scanVars
<1>2. e \in Events /\ e = out[1] /\ Len(out) \in Nat \ {0} /\ Len(seen) \in Nat
      BY <1>1, HeadTailProperties
<1>3. /\ Len(Stream) = Len(seen) + Len(out)
      /\ \A i \in 1..(Len(seen) + Len(out)) :
            Stream[i] = IF i =< Len(seen) THEN seen[i] ELSE out[i - Len(seen)]
      BY <1>1, ConcatProperties DEF Stream
<1>4. /\ k \in 1..Len(Stream) /\ Stream[k] = e
      /\ \A i \in 1..Len(seen) : i \in 1..Len(Stream) /\ i < k /\ Stream[i] = seen[i]
      /\ \A i \in 1..Len(Stream) : i < k => i \in 1..Len(seen)
      BY <1>2, <1>3
<1>5. /\ 1..Len(seen') = 1..Len(seen) \cup {k} /\ k \notin 1..Len(seen)
      /\ seen'[k] = e /\ \A i \in 1..Len(seen) : seen'[i] = seen[i]
      BY <1>1, <1>2
<1>. HIDE DEF k, e
<1>6. CASE e.host # h
      <2>1. SeenOf(h)' = SeenOf(h) /\ \A i \in SeenOf(h) : seen'[i] = seen[i]
            BY <1>5, <1>6 DEF SeenOf
      <2>2. Given(h)' = Given(h) /\ Over(h)' = Over(h)
            BY <2>1 DEF Given, Over
      <2>. QED BY <1>1, <2>1, <2>2, NothingSeen
<1>7. CASE e.host = h
      <2>1. SeenOf(h)' = SeenOf(h) \cup {k} /\ \A i \in SeenOf(h) : seen'[i] = seen[i] /\ i # k
            BY <1>5, <1>7 DEF SeenOf
      <2>2. ~Over(h)
            BY <1>4, <1>7 DEF Over, SeenOf, Inv, DoneIsLast
      <2>3. CASE e.kind = "port"
            <3>0. PICK p \in Ports, s \in {"open", "closed", "filtered"} :
                      p = e.port /\ s = e.state
                  BY <1>4, <2>3 DEF TellInv, ToldTruly
            <3>1. /\ s = Truth(h, p) \/ (ContextEnded(h) /\ s = "filtered")
                  /\ opts.openOnly => s = "open"
                  BY <1>4, <1>7, <2>3, <3>0 DEF TellInv, ToldTruly
            <3>2. Given(h)' = Given(h) \cup {[port |-> p, state |-> s]}
                  BY <1>5, <2>1, <2>3, <3>0 DEF Given
            <3>3. Over(h)' = Over(h)
                  BY <1>5, <2>1, <2>3 DEF Over
            <3>4. p \notin {r.port : r \in Given(h)}
                  <4>. SUFFICES ASSUME NEW i \in SeenOf(h), seen[i].kind = "port", seen[i].port = p
                                PROVE  FALSE
                        BY DEF Given
                  <4>1. /\ i \in 1..Len(Stream) /\ i < k /\ Stream[i] = seen[i] /\ seen[i].host = h
                        BY <1>4 DEF SeenOf
                  <4>2. i = k
                        BY <1>4, <1>7, <2>3, <3>0, <4>1 DEF TellInv, ToldOnce
                  <4>. QED BY <2>1, <4>2
            <3>5. opts.openOnly' = opts.openOnly
                  BY <1>1
            <3>6. HS(h)!Report(p, s)
                  BY <1>1, <2>2, <3>1, <3>2, <3>3, <3>4, <3>5
                  DEF HS!Report, HS!ReportedPorts, Given, Over
            <3>7. p \in Ports /\ (s = Truth(h, p) \/ s = "filtered")
                  BY <3>1
            <3>. QED BY <3>6, <3>7, ReportIsStep
      <2>4. CASE e.kind = "done"
            <3>1. Given(h)' = Given(h)
                  BY <1>5, <2>1, <2>4 DEF Given
            <3>2. Over(h)'
                  BY <1>5, <2>1, <2>4 DEF Over
            <3>3. ASSUME ~ContextEnded(h), NEW p \in Ports,
                         opts.openOnly => Truth(h, p) = "open"
                  PROVE  \E r \in Given(h) : r.port = p
                  <4>1. Finished(h)
                        BY <1>4, <1>7, <2>4 DEF Finished
                  <4>2. PICK i \in 1..Len(Stream) :
                            Stream[i].kind = "port" /\ Stream[i].host = h /\ Stream[i].port = p
                        BY <3>3, <4>1 DEF TellInv, AllTold, Told
                  <4>3. i # k /\ ~(k < i)
                        BY <1>4, <1>7, <2>4, <4>2 DEF Inv, DoneIsLast
                  <4>4. k \in Nat /\ i \in Nat
                        BY <1>2, <1>3, <1>4
                  <4>5. i \in 1..Len(seen) /\ seen[i] = Stream[i]
                        BY <1>4, <4>2, <4>3, <4>4
                  <4>6. i \in {j \in SeenOf(h) : seen[j].kind = "port"}
                        BY <4>2, <4>5 DEF SeenOf
                  <4>7. [port |-> seen[i].port, state |-> seen[i].state] \in Given(h)
                        BY <4>6 DEF Given
                  <4>8. [port |-> seen[i].port, state |-> seen[i].state].port = p
                        BY <4>2, <4>5
                  <4>. QED BY <4>7, <4>8
            <3>4. ASSUME ~ContextEnded(h), NEW r \in Given(h)
                  PROVE  r.port \in Ports /\ (opts.openOnly => Truth(h, r.port) = "open")
                  <4>1. PICK i \in SeenOf(h) : seen[i].kind = "port" /\ r.port = seen[i].port
                        BY <3>4 DEF Given
                  <4>2. i \in 1..Len(Stream) /\ Stream[i] = seen[i] /\ seen[i].host = h
                        BY <1>4 DEF SeenOf
                  <4>. QED BY <3>4, <4>1, <4>2 DEF TellInv, ToldTruly
            <3>5. ContextEnded(h) \/ HS(h)!ReportedPorts = HS(h)!Wanted
                  <4>1. ASSUME ~ContextEnded(h) PROVE HS(h)!ReportedPorts = HS(h)!Wanted
                        BY <3>3, <3>4, <4>1 DEF HS!ReportedPorts, HS!Wanted, Given
                  <4>. QED BY <4>1
            <3>6. opts.openOnly' = opts.openOnly
                  BY <1>1
            <3>7. HS(h)!Finish
                  BY <1>1, <2>2, <3>1, <3>2, <3>5, <3>6 DEF HS!Finish, Given, Over
            <3>. QED BY <3>7 DEF HostStep, HS!Next
      <2>5. CASE e.kind = "error"
            <3>1. e.host = NoHost
                  BY <1>2, <2>5, ErrorHasNoHost
            <3>. QED BY <1>7, <3>1, StreamAssumption DEF Targets
      <2>. QED BY <1>2, <2>3, <2>4, <2>5, EventFacts
<1>. QED BY <1>6, <1>7

\* The events a consumer receives about one target are a scan of that host as
\* HostScan promises it: one result per port, of the right state, and a Done
\* only after the last of them or the end of the host's context (stream.go:157-220).
THEOREM EachHostImplements == Spec => EachHostScanned
<1>1. Init => \A h \in Targets : HS(h)!Init
      <2>. SUFFICES ASSUME Init, NEW h \in Targets PROVE HS(h)!Init
            OBVIOUS
      <2>1. SeenOf(h) = {} /\ opts \in Options /\ ~ctxDone /\ h \notin cut
            BY DEF SeenOf, Init
      <2>. QED BY <2>1 DEF HS!Init, ContextEnded, Options
<1>2. Inv /\ Inv' /\ TellInv /\ [Next]_vars =>
          [\A h \in Targets : HS(h)!Next \/ UNCHANGED HS(h)!vars]_vars
      <2>. SUFFICES ASSUME Inv, Inv', TellInv, [Next]_vars, NEW h \in Targets PROVE HostStep(h)
            BY DEF HostStep
      <2>1. CASE Consume
            BY <2>1, ConsumeStep
      <2>2. CASE seen' = seen
            <3>1. /\ SeenOf(h)' = SeenOf(h) /\ Given(h)' = Given(h) /\ Over(h)' = Over(h)
                  BY <2>2 DEF SeenOf, Given, Over
            <3>2. ctxDone \in BOOLEAN /\ ctxDone' \in BOOLEAN
                  BY DEF Inv, TypeOK
            <3>. QED BY <3>1, <3>2, ContextStep, NothingSeen
      <2>3. Consume \/ seen' = seen
            BY DEF Next, vars, Refuse, Start, FeedHost, CloseHosts, HostWorker, TakeHost,
               NoMoreHosts, PortResult, HostDone, HostTimeout, CloseOut, Cancel, Terminated, outVars
      <2>. QED BY <2>1, <2>2, <2>3
<1>. QED BY Invariance, TellInvariance, <1>1, <1>2, PTL DEF Spec, EachHostScanned
=============================================================================
