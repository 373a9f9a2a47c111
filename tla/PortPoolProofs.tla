--------------------------- MODULE PortPoolProofs ---------------------------
(***************************************************************************)
(* Safety of the port pool for any ports, workers and replies: type        *)
(* correctness, one result per port, no send on the closed channel, room   *)
(* for every send, prompt cancellation, completeness, and that the pool    *)
(* implements HostScan.  Then ScanHost around it: nothing it does disturbs *)
(* the pool, and it returns what the pool found.                           *)
(***************************************************************************)
EXTENDS BatchScan, FiniteSetTheorems, TLAPS

-----------------------------------------------------------------------------
(* Type correctness. *)

\* Put is the one place where a result enters the channel.
LEMMA PutType ==
    ASSUME TypeOK, NEW w \in Workers, pc[w] \in {"probe", "dial"},
           NEW s \in States, Put(w, s)
    PROVE  /\ pc' \in [Workers -> PC]
           /\ job' \in [Workers -> Ports \cup {NoPort}]
           /\ \A v \in Workers : (job'[v] # NoPort) <=>
                  (pc'[v] \in {"lock", "wait", "probe", "dial"})
           /\ sent' \in Seq(Results)
           /\ Len(sent') = Len(sent) + 1
           /\ job[w] \in Ports
<1>1. job[w] \in Ports
  BY DEF TypeOK, InFlight
<1>2. [port |-> job[w], state |-> s] \in Results
  BY <1>1 DEF Results
<1>3. sent' \in Seq(Results) /\ Len(sent') = Len(sent) + 1
  BY <1>2 DEF TypeOK, Put
<1>4. AfterProbe \in {"delay", "range"}
  BY DEF AfterProbe
<1>5. pc' \in [Workers -> PC] /\ job' \in [Workers -> Ports \cup {NoPort}]
  BY <1>4 DEF TypeOK, Put, PC
<1>6. \A v \in Workers : (job'[v] # NoPort) <=>
          (pc'[v] \in {"lock", "wait", "probe", "dial"})
  BY <1>4 DEF TypeOK, Put, InFlight
<1> QED BY <1>1, <1>3, <1>5, <1>6

LEMMA OutcomesType ==
    ASSUME NEW p \in Ports
    PROVE  Outcomes(p) \subseteq States /\ Verdict[p] \in States
BY DEF Outcomes, Verdict, States

LEMMA TypeStep ==
    ASSUME TypeOK, [Next]_vars
    PROVE  TypeOK'
<1> USE PoolAssumption
<1>1. CASE UNCHANGED vars
  BY <1>1 DEF TypeOK, vars, InFlight
<1>2. ASSUME NEW p \in Ports, Feed(p) PROVE TypeOK'
  BY <1>2 DEF TypeOK, Feed, workerVars, collectVars, ctxVars, InFlight
<1>3. CASE StopFeeding
  BY <1>3 DEF TypeOK, StopFeeding, workerVars, collectVars, ctxVars, InFlight
<1>4. ASSUME NEW w \in Workers, NEW p \in Ports, Take(w, p) PROVE TypeOK'
  <2>1. AfterCheck \in {"lock", "probe"}
    BY DEF AfterCheck
  <2> QED BY <1>4, <2>1 DEF TypeOK, Take, collectVars, ctxVars, InFlight, PC
<1>5. ASSUME NEW w \in Workers, Exhausted(w) PROVE TypeOK'
  BY <1>5 DEF TypeOK, Exhausted, feedVars, collectVars, ctxVars, InFlight, PC
<1>6. ASSUME NEW w \in Workers, LockLimiter(w) PROVE TypeOK'
  BY <1>6 DEF TypeOK, LockLimiter, feedVars, collectVars, ctxVars, InFlight, PC
<1>7. ASSUME NEW w \in Workers, PassLimiter(w) PROVE TypeOK'
  BY <1>7 DEF TypeOK, PassLimiter, feedVars, collectVars, ctxVars, InFlight, PC
<1>8. ASSUME NEW w \in Workers, Probe(w) PROVE TypeOK'
  <2>1. CASE ctxDone /\ Put(w, "filtered")
    <3>1. "filtered" \in States /\ pc[w] \in {"probe", "dial"}
      BY <1>8 DEF Probe, States
    <3> QED BY <1>8, <2>1, <3>1, PutType
            DEF TypeOK, Probe, feedVars, collectVars, ctxVars, InFlight
  <2>2. CASE ~ctxDone /\ pc' = [pc EXCEPT ![w] = "dial"] /\ UNCHANGED <<job, sent>>
    BY <1>8, <2>2 DEF TypeOK, Probe, feedVars, collectVars, ctxVars, InFlight, PC
  <2> QED BY <1>8, <2>1, <2>2 DEF Probe
<1>9. ASSUME NEW w \in Workers, NEW s \in States, Answer(w, s) PROVE TypeOK'
  <2>1. pc[w] \in {"probe", "dial"} /\ Put(w, s)
    BY <1>9 DEF Answer
  <2> QED BY <1>9, <2>1, PutType
          DEF TypeOK, Answer, feedVars, collectVars, ctxVars, InFlight
<1>10. ASSUME NEW w \in Workers, DelayOver(w) PROVE TypeOK'
  BY <1>10 DEF TypeOK, DelayOver, feedVars, collectVars, ctxVars, InFlight, PC
<1>11. ASSUME NEW w \in Workers, DelayCut(w) PROVE TypeOK'
  BY <1>11 DEF TypeOK, DelayCut, feedVars, collectVars, ctxVars, InFlight, PC
<1>12. CASE CloseResults
  BY <1>12 DEF TypeOK, CloseResults, feedVars, workerVars, ctxVars, InFlight
<1>13. CASE Receive
  BY <1>13 DEF TypeOK, Receive, feedVars, workerVars, ctxVars, InFlight
<1>14. CASE Finish
  BY <1>14 DEF TypeOK, Finish, feedVars, workerVars, ctxVars, InFlight
<1>15. CASE Cancel
  BY <1>15 DEF TypeOK, Cancel, feedVars, workerVars, collectVars, InFlight
<1>16. CASE Terminated
  BY <1>16, <1>1 DEF Terminated
<1> QED
  BY <1>1, <1>2, <1>3, <1>4, <1>5, <1>6, <1>7, <1>8, <1>9, <1>10, <1>11, <1>12,
     <1>13, <1>14, <1>15, <1>16 DEF Next, Feeder, Worker

LEMMA TypeInit ==
    ASSUME Init
    PROVE  TypeOK
<1>1. sent \in Seq(Results) /\ Len(sent) = 0
  BY DEF Init
<1>2. /\ pc \in [Workers -> PC]
      /\ job \in [Workers -> Ports \cup {NoPort}]
      /\ \A w \in Workers : (job[w] # NoPort) <=> (w \in InFlight)
  BY DEF Init, PC, InFlight
<1>3. received \in 0..Len(sent) /\ sentAtCancel \in 0..Len(sent)
  BY <1>1 DEF Init
<1> QED BY <1>1, <1>2, <1>3, Zenon DEF Init, TypeOK

\* The pool's state keeps its declared shape, for every set of ports and
\* workers: in particular no worker reports a job it does not hold.
THEOREM TypeCorrect == Spec => []TypeOK
BY TypeInit, TypeStep, PTL DEF Spec

-----------------------------------------------------------------------------
(* The inductive invariant.  A port is in one place at a time: waiting to  *)
(* be fed, queued, held by one worker or reported; as long as the context  *)
(* has not ended it is in at least one.                                    *)

Disjoint ==
    /\ \A p \in todo : p \notin in
    /\ \A w \in Workers : job[w] \notin todo /\ job[w] \notin in
    /\ \A v, w \in Workers : job[v] = job[w] /\ job[v] # NoPort => v = w
    /\ \A i \in 1..Len(sent) :
          /\ sent[i].port \notin todo
          /\ sent[i].port \notin in
          /\ \A w \in Workers : job[w] # sent[i].port

Covered ==
    ~ctxDone =>
        \A p \in Ports :
            \/ p \in todo
            \/ p \in in
            \/ \E w \in Workers : job[w] = p
            \/ \E i \in 1..Len(sent) : sent[i].port = p

\* The order in which the channels are closed and the goroutines end.
Closing ==
    /\ inClosed /\ ~ctxDone => todo = {}
    /\ ~ctxDone => \A w \in Workers : pc[w] = "done" => inClosed /\ in = {}
    /\ resultClosed => \A w \in Workers : pc[w] = "done"
    /\ collected => resultClosed /\ received = Len(sent)

Truthful ==
    \A i \in 1..Len(sent) :
        sent[i].state = Verdict[sent[i].port] \/ (ctxDone /\ sent[i].state = "filtered")

Inv == TypeOK /\ Disjoint /\ OneResultPerPort /\ Covered /\ Closing /\ Truthful

LEMMA LogType ==
    ASSUME TypeOK, NEW i \in 1..Len(sent)
    PROVE  sent[i] \in Results /\ sent[i].port \in Ports /\ sent[i].state \in States
<1>1. sent[i] \in Results
  BY DEF TypeOK
<1> QED BY <1>1 DEF Results

\* What a send does to the log: the new entry is the worker's own port.
LEMMA PutLog ==
    ASSUME TypeOK, NEW w \in Workers, pc[w] \in {"probe", "dial"},
           NEW s \in States, Put(w, s)
    PROVE  /\ Len(sent') = Len(sent) + 1
           /\ sent'[Len(sent) + 1] = [port |-> job[w], state |-> s]
           /\ \A i \in 1..Len(sent) : sent'[i] = sent[i]
           /\ job[w] \in Ports
           /\ job'[w] = NoPort
           /\ \A v \in Workers : v # w => job'[v] = job[v] /\ pc'[v] = pc[v]
           /\ pc'[w] \in {"delay", "range"}
           /\ 1..Len(sent') = 1..Len(sent) \cup {Len(sent) + 1}
<1>1. job[w] \in Ports
  BY DEF TypeOK, InFlight
<1>2. [port |-> job[w], state |-> s] \in Results
  BY <1>1 DEF Results
<1>3. Len(sent) \in Nat
  BY DEF TypeOK
<1>4. /\ Len(sent') = Len(sent) + 1
      /\ sent'[Len(sent) + 1] = [port |-> job[w], state |-> s]
      /\ \A i \in 1..Len(sent) : sent'[i] = sent[i]
  BY <1>2 DEF TypeOK, Put
<1>5. 1..Len(sent') = 1..Len(sent) \cup {Len(sent) + 1}
  BY <1>3, <1>4
<1> QED BY <1>1, <1>4, <1>5 DEF TypeOK, Put, AfterProbe

\* A send preserves the whole invariant.
LEMMA PutKeepsInv ==
    ASSUME Inv, NEW w \in Workers, pc[w] \in {"probe", "dial"},
           NEW s \in States, Put(w, s),
           s = Verdict[job[w]] \/ (ctxDone /\ s = "filtered"),
           UNCHANGED <<opts, feedVars, holder, collectVars, ctxVars>>
    PROVE  Disjoint' /\ OneResultPerPort' /\ Covered' /\ Closing' /\ Truthful'
<1> USE PoolAssumption
<1> DEFINE n == Len(sent)
<1>1. /\ TypeOK /\ Disjoint /\ OneResultPerPort /\ Covered /\ Closing /\ Truthful
      /\ n \in Nat
  BY DEF Inv, TypeOK
<1>2. /\ Len(sent') = n + 1
      /\ sent'[n + 1] = [port |-> job[w], state |-> s]
      /\ \A i \in 1..n : sent'[i] = sent[i]
      /\ job[w] \in Ports
      /\ job'[w] = NoPort
      /\ \A v \in Workers : v # w => job'[v] = job[v] /\ pc'[v] = pc[v]
      /\ pc'[w] \in {"delay", "range"}
      /\ 1..Len(sent') = 1..n \cup {n + 1}
  BY <1>1, PutLog
<1>3. /\ todo' = todo /\ in' = in /\ inClosed' = inClosed /\ ctxDone' = ctxDone
      /\ resultClosed' = resultClosed /\ collected' = collected
      /\ received' = received
  BY DEF feedVars, collectVars, ctxVars
<1>4. todo \subseteq Ports /\ in \subseteq Ports
  BY <1>1 DEF TypeOK
<1>5. Disjoint'
  <2>1. /\ \A p \in todo' : p \notin in'
        /\ \A v \in Workers : job'[v] \notin todo' /\ job'[v] \notin in'
        /\ \A u, v \in Workers : job'[u] = job'[v] /\ job'[u] # NoPort => u = v
    BY <1>1, <1>2, <1>3, <1>4 DEF Disjoint
  <2>2. ASSUME NEW i \in 1..n
        PROVE  /\ sent'[i].port \notin todo' /\ sent'[i].port \notin in'
               /\ \A v \in Workers : job'[v] # sent'[i].port
    <3>1. sent[i].port \in Ports
      BY <1>1, LogType
    <3> QED BY <1>1, <1>2, <1>3, <3>1 DEF Disjoint
  <2>3. /\ sent'[n + 1].port \notin todo' /\ sent'[n + 1].port \notin in'
        /\ \A v \in Workers : job'[v] # sent'[n + 1].port
    BY <1>1, <1>2, <1>3 DEF Disjoint
  <2> QED BY <1>2, <2>1, <2>2, <2>3 DEF Disjoint
<1>6. OneResultPerPort'
  <2>1. \A i \in 1..n : sent'[i].port # sent'[n + 1].port
    BY <1>1, <1>2 DEF Disjoint
  <2>2. \A i, j \in 1..n : sent'[i].port = sent'[j].port => i = j
    BY <1>1, <1>2 DEF OneResultPerPort
  <2> QED BY <1>2, <2>1, <2>2 DEF OneResultPerPort
<1>7. Covered'
  <2> SUFFICES ASSUME ~ctxDone, NEW p \in Ports
               PROVE  \/ p \in todo' \/ p \in in'
                      \/ \E v \in Workers : job'[v] = p
                      \/ \E i \in 1..Len(sent') : sent'[i].port = p
    BY <1>3 DEF Covered
  <2>1. CASE p = job[w]
    <3>1. sent'[n + 1].port = p /\ n + 1 \in 1..Len(sent')
      BY <1>2, <2>1
    <3> QED BY <3>1
  <2>2. CASE p # job[w]
    <3>1. CASE \E i \in 1..n : sent[i].port = p
      BY <1>2, <3>1
    <3>2. CASE \E v \in Workers : job[v] = p
      BY <1>2, <2>2, <3>2
    <3> QED BY <1>1, <1>3, <3>1, <3>2 DEF Covered
  <2> QED BY <2>1, <2>2
<1>8. Closing'
  BY <1>1, <1>2, <1>3 DEF Closing
<1>9. Truthful'
  <2> SUFFICES ASSUME NEW i \in 1..Len(sent')
               PROVE  sent'[i].state = Verdict[sent'[i].port]
                      \/ (ctxDone' /\ sent'[i].state = "filtered")
    BY DEF Truthful
  <2>1. CASE i \in 1..n
    BY <1>1, <1>2, <1>3, <2>1 DEF Truthful
  <2>2. CASE i = n + 1
    BY <1>2, <1>3, <2>2
  <2> QED BY <1>2, <2>1, <2>2
<1> QED BY <1>5, <1>6, <1>7, <1>8, <1>9

LEMMA InvStep ==
    ASSUME Inv, [Next]_vars
    PROVE  Inv'
<1> USE PoolAssumption
<1>1. /\ TypeOK /\ Disjoint /\ OneResultPerPort /\ Covered /\ Closing /\ Truthful
      /\ TypeOK'
  BY TypeStep DEF Inv
<1> DEFINE Rest == Disjoint' /\ OneResultPerPort' /\ Covered' /\ Closing' /\ Truthful'
<1> SUFFICES Rest
  BY <1>1 DEF Inv
<1>2. CASE UNCHANGED vars
  BY <1>1, <1>2 DEF vars, Disjoint, OneResultPerPort, Covered, Closing, Truthful
<1>3. ASSUME NEW p \in Ports, Feed(p) PROVE Rest
  <2>1. Disjoint'
    BY <1>1, <1>3 DEF Feed, workerVars, Disjoint
  <2>2. Covered'
    BY <1>1, <1>3 DEF Feed, workerVars, ctxVars, Covered
  <2>3. OneResultPerPort' /\ Closing' /\ Truthful'
    BY <1>1, <1>3 DEF Feed, workerVars, collectVars, ctxVars, OneResultPerPort,
                      Closing, Truthful
  <2> QED BY <2>1, <2>2, <2>3
<1>4. CASE StopFeeding
  BY <1>1, <1>4 DEF StopFeeding, workerVars, collectVars, ctxVars, Disjoint,
                    OneResultPerPort, Covered, Closing, Truthful
<1>5. ASSUME NEW w \in Workers, NEW p \in Ports, Take(w, p) PROVE Rest
  <2>1. AfterCheck # "done"
    BY DEF AfterCheck
  <2>2. OneResultPerPort' /\ Truthful'
    BY <1>1, <1>5 DEF Take, collectVars, ctxVars, OneResultPerPort, Truthful
  <2>3. CASE ctxDone
    <3>1. pc' = [pc EXCEPT ![w] = "done"] /\ job' = job /\ in' \subseteq in
      BY <1>5, <2>3 DEF Take
    <3>2. Disjoint'
      BY <1>1, <1>5, <3>1 DEF Take, Disjoint
    <3>3. Covered' /\ Closing'
      BY <1>1, <1>5, <2>3, <3>1 DEF Take, collectVars, ctxVars, Covered, Closing, TypeOK
    <3> QED BY <2>2, <3>2, <3>3
  <2>4. CASE ~ctxDone
    <3>1. /\ pc' = [pc EXCEPT ![w] = AfterCheck]
          /\ job' = [job EXCEPT ![w] = p]
          /\ in' = in \ {p} /\ p \in in /\ job[w] = NoPort /\ p # NoPort
      BY <1>1, <1>5, <2>4 DEF Take, TypeOK, InFlight
    <3>2. Disjoint'
      BY <1>1, <1>5, <3>1 DEF Take, Disjoint, TypeOK
    <3>3. Covered'
      BY <1>1, <1>5, <2>4, <3>1 DEF Take, ctxVars, Covered, TypeOK
    <3>4. Closing'
      BY <1>1, <1>5, <2>1, <2>4, <3>1 DEF Take, collectVars, ctxVars, Closing, TypeOK
    <3> QED BY <2>2, <3>2, <3>3, <3>4
  <2> QED BY <2>3, <2>4
<1>6. ASSUME NEW w \in Workers, Exhausted(w) PROVE Rest
  BY <1>1, <1>6 DEF Exhausted, feedVars, collectVars, ctxVars, Disjoint,
                    OneResultPerPort, Covered, Closing, Truthful, TypeOK
<1>7. ASSUME NEW w \in Workers, LockLimiter(w) \/ PassLimiter(w) PROVE Rest
  BY <1>1, <1>7 DEF LockLimiter, PassLimiter, feedVars, collectVars, ctxVars, Disjoint,
                    OneResultPerPort, Covered, Closing, Truthful, TypeOK
<1>8. ASSUME NEW w \in Workers, Probe(w) PROVE Rest
  <2>1. CASE ctxDone /\ Put(w, "filtered")
    <3>1. /\ pc[w] \in {"probe", "dial"} /\ "filtered" \in States
          /\ UNCHANGED <<opts, feedVars, holder, collectVars, ctxVars>>
      BY <1>8 DEF Probe, States
    <3> QED BY <2>1, <3>1, PutKeepsInv
  <2>2. CASE /\ ~ctxDone /\ pc' = [pc EXCEPT ![w] = "dial"]
             /\ UNCHANGED <<job, sent>>
    BY <1>1, <1>8, <2>2 DEF Probe, feedVars, collectVars, ctxVars, Disjoint,
                            OneResultPerPort, Covered, Closing, Truthful, TypeOK
  <2> QED BY <1>8, <2>1, <2>2 DEF Probe
<1>9. ASSUME NEW w \in Workers, NEW s \in States, Answer(w, s) PROVE Rest
  <2>1. /\ pc[w] \in {"probe", "dial"} /\ Put(w, s)
        /\ UNCHANGED <<opts, feedVars, holder, collectVars, ctxVars>>
    BY <1>9 DEF Answer
  <2>2. job[w] \in Ports
    BY <1>1, <1>9 DEF Answer, TypeOK, InFlight
  <2>3. s = Verdict[job[w]] \/ (ctxDone /\ s = "filtered")
    BY <1>9, <2>2 DEF Answer, Outcomes, Verdict
  <2> QED BY <2>1, <2>3, PutKeepsInv
<1>10. ASSUME NEW w \in Workers, DelayOver(w) \/ DelayCut(w) PROVE Rest
  BY <1>1, <1>10 DEF DelayOver, DelayCut, feedVars, collectVars, ctxVars, Disjoint,
                     OneResultPerPort, Covered, Closing, Truthful, TypeOK
<1>11. CASE CloseResults
  BY <1>1, <1>11 DEF CloseResults, feedVars, workerVars, ctxVars, Disjoint,
                     OneResultPerPort, Covered, Closing, Truthful
<1>12. CASE Receive
  BY <1>1, <1>12 DEF Receive, feedVars, workerVars, ctxVars, Disjoint,
                     OneResultPerPort, Covered, Closing, Truthful, TypeOK
<1>13. CASE Finish
  BY <1>1, <1>13 DEF Finish, feedVars, workerVars, ctxVars, Disjoint,
                     OneResultPerPort, Covered, Closing, Truthful
<1>14. CASE Cancel
  BY <1>1, <1>14 DEF Cancel, feedVars, workerVars, collectVars, Disjoint,
                     OneResultPerPort, Covered, Closing, Truthful
<1>15. CASE Terminated
  BY <1>2, <1>15 DEF Terminated
<1> QED
  BY <1>2, <1>3, <1>4, <1>5, <1>6, <1>7, <1>8, <1>9, <1>10, <1>11, <1>12, <1>13,
     <1>14, <1>15 DEF Next, Feeder, Worker

LEMMA Invariance == Spec => []Inv
<1>1. Init => Inv
  <2> SUFFICES ASSUME Init PROVE Inv
    OBVIOUS
  <2>1. TypeOK
    BY TypeInit
  <2>2. Len(sent) = 0
    BY DEF Init
  <2>3. Disjoint /\ Covered /\ Closing
    BY <2>2, PoolAssumption DEF Init, Disjoint, Covered, Closing
  <2>4. OneResultPerPort /\ Truthful
    BY <2>2 DEF OneResultPerPort, Truthful
  <2> QED BY <2>1, <2>3, <2>4 DEF Inv
<1> QED BY <1>1, InvStep, PTL DEF Spec

-----------------------------------------------------------------------------
(* What the invariant gives. *)

\* No port is reported twice, whatever the number of workers and whichever
\* of them takes a job.
THEOREM ReportsOnce == Spec => []OneResultPerPort
<1>1. Inv => OneResultPerPort
  BY DEF Inv
<1> QED BY <1>1, Invariance, PTL

\* No worker can still send once the result channel is closed.
THEOREM ClosedAfterLastSend == Spec => []NoSendOnClosed
<1>1. Inv => NoSendOnClosed
  BY DEF Inv, Closing, NoSendOnClosed, InFlight
<1> QED BY <1>1, Invariance, PTL

LEMMA InvComplete == Inv => CompleteUnlessCanceled
<1> SUFFICES ASSUME Inv, collected, ~ctxDone, NEW p \in Ports
             PROVE  \E i \in 1..received :
                        sent[i] = [port |-> p, state |-> Verdict[p]]
  BY DEF CompleteUnlessCanceled
<1>1. /\ \A w \in Workers : pc[w] = "done"
      /\ received = Len(sent)
  BY DEF Inv, Closing
<1>2. inClosed /\ in = {} /\ todo = {}
  BY <1>1, PoolAssumption DEF Inv, Closing
<1>3. \A w \in Workers : job[w] = NoPort
  BY <1>1 DEF Inv, TypeOK, InFlight
<1>4. PICK i \in 1..Len(sent) : sent[i].port = p
  BY <1>2, <1>3, PoolAssumption DEF Inv, Covered
<1>5. sent[i] \in Results /\ sent[i].state = Verdict[p]
  BY <1>4, LogType DEF Inv, Truthful
<1>6. sent[i] = [port |-> p, state |-> Verdict[p]]
  BY <1>4, <1>5 DEF Results
<1> QED BY <1>1, <1>6

\* A scan whose context never ended has for every port the verdict that the
\* code's table gives its reply, when its collector finishes.
THEOREM Complete == Spec => []CompleteUnlessCanceled
BY InvComplete, Invariance, PTL

\* A worker about to send always finds room in the result channel.
THEOREM NeverBlocked == Spec => []SendNeverBlocks
<1>1. Inv => SendNeverBlocks
  <2> SUFFICES ASSUME Inv, NEW w \in InFlight
               PROVE  Len(sent) < Cardinality(Ports)
    BY PoolAssumption, FS_CardinalityType
       DEF SendNeverBlocks, Room, ResultCap, Inv, TypeOK
  <2> DEFINE n == Len(sent)
             f == [i \in 1..n |-> sent[i].port]
             Others == Ports \ {job[w]}
  <2>1. n \in Nat /\ w \in Workers /\ job[w] \in Ports
    BY DEF Inv, TypeOK, InFlight
  <2>2. f \in [1..n -> Others]
    BY LogType DEF Inv, Disjoint, InFlight
  <2>3. ASSUME NEW i \in 1..n, NEW j \in 1..n, f[i] = f[j]
        PROVE  i = j
    BY <2>3 DEF Inv, OneResultPerPort
  <2>4. IsFiniteSet(1..n) /\ Cardinality(1..n) = n
    BY <2>1, FS_Interval
  <2>5. /\ IsFiniteSet(Others)
        /\ Cardinality(Others) = Cardinality(Ports) - 1
        /\ Cardinality(Ports) \in Nat
    BY <2>1, PoolAssumption, FS_RemoveElement, FS_CardinalityType
  <2> HIDE DEF f, Others
  <2>6. ~(Cardinality(Others) < Cardinality(1..n))
    <3> SUFFICES ASSUME Cardinality(Others) < Cardinality(1..n) PROVE FALSE
      OBVIOUS
    <3>1. \E i, j \in 1..n : i # j /\ f[i] = f[j]
      BY <2>2, <2>4, <2>5, FS_PigeonHole
    <3> QED BY <2>3, <3>1
  <2> QED BY <2>1, <2>4, <2>5, <2>6
<1> QED BY <1>1, Invariance, PTL

-----------------------------------------------------------------------------
(* Prompt cancellation.  Once the context has ended no worker takes up a   *)
(* job, so the results still to come are those in flight: the workers'     *)
(* budget only shrinks.                                                    *)

Budget ==
    ctxDone => Len(sent) - sentAtCancel + Cardinality(InFlight) =< Cardinality(Workers)

LEMMA InFlightFinite ==
    /\ IsFiniteSet(InFlight)
    /\ Cardinality(InFlight) \in Nat
    /\ Cardinality(Workers) \in Nat
    /\ Cardinality(InFlight) =< Cardinality(Workers)
<1>1. InFlight \in SUBSET Workers
  BY DEF InFlight
<1> QED BY <1>1, PoolAssumption, FS_Subset, FS_CardinalityType

\* With the context ended, a step either sends one worker's result or leaves
\* the log and the set of workers in flight alone.
LEMMA CanceledStep ==
    ASSUME Inv, ctxDone, [Next]_vars
    PROVE  /\ ctxDone' /\ sentAtCancel' = sentAtCancel
           /\ \/ sent' = sent /\ InFlight' = InFlight
              \/ \E w \in InFlight :
                    /\ Len(sent') = Len(sent) + 1
                    /\ InFlight' = InFlight \ {w}
<1> DEFINE Quiet == ctxDone' /\ sentAtCancel' = sentAtCancel
                    /\ sent' = sent /\ InFlight' = InFlight
           Sends(w) == /\ ctxDone' /\ sentAtCancel' = sentAtCancel
                       /\ w \in InFlight
                       /\ Len(sent') = Len(sent) + 1
                       /\ InFlight' = InFlight \ {w}
<1>1. TypeOK
  BY DEF Inv
<1>2. ASSUME NEW w \in Workers, NEW s \in States, pc[w] \in {"probe", "dial"},
             Put(w, s), UNCHANGED ctxVars
      PROVE  Sends(w)
  <2>1. /\ \A v \in Workers : v # w => pc'[v] = pc[v]
        /\ pc'[w] \in {"delay", "range"}
        /\ Len(sent') = Len(sent) + 1
    BY <1>1, <1>2, PutLog
  <2> QED BY <1>2, <2>1 DEF InFlight, ctxVars
<1>3. ASSUME UNCHANGED vars PROVE Quiet
  BY <1>3 DEF vars, InFlight
<1>4. ASSUME Feeder PROVE Quiet
  BY <1>4 DEF Feeder, Feed, StopFeeding, workerVars, ctxVars, InFlight
<1>5. ASSUME NEW w \in Workers, NEW p \in Ports, Take(w, p) PROVE Quiet
  BY <1>1, <1>5 DEF Take, ctxVars, InFlight, TypeOK
<1>6. ASSUME NEW w \in Workers,
             \/ Exhausted(w) \/ LockLimiter(w) \/ PassLimiter(w)
             \/ DelayOver(w) \/ DelayCut(w)
      PROVE  Quiet
  BY <1>1, <1>6 DEF Exhausted, LockLimiter, PassLimiter, DelayOver, DelayCut,
                    ctxVars, InFlight, TypeOK
<1>7. ASSUME NEW w \in Workers, Probe(w) PROVE Sends(w)
  <2>1. pc[w] \in {"probe", "dial"} /\ Put(w, "filtered") /\ UNCHANGED ctxVars
        /\ "filtered" \in States
    BY <1>7 DEF Probe, States, ctxVars
  <2> QED BY <1>2, <2>1
<1>8. ASSUME NEW w \in Workers, NEW s \in States, Answer(w, s) PROVE Sends(w)
  <2>1. pc[w] \in {"probe", "dial"} /\ Put(w, s) /\ UNCHANGED ctxVars
    BY <1>8 DEF Answer, ctxVars
  <2> QED BY <1>2, <2>1
<1>9. ASSUME CloseResults \/ Receive \/ Finish \/ Cancel \/ Terminated PROVE Quiet
  BY <1>3, <1>9 DEF CloseResults, Receive, Finish, Cancel, Terminated, workerVars,
                    ctxVars, InFlight
<1>10. (\E w \in Workers : Sends(w)) \/ Quiet
  <2> HIDE DEF Quiet, Sends
  <2> QED BY <1>3, <1>4, <1>5, <1>6, <1>7, <1>8, <1>9 DEF Next, Worker
<1> QED BY <1>10

LEMMA BudgetStep ==
    ASSUME Inv, Budget, [Next]_vars
    PROVE  Budget'
<1>1. /\ IsFiniteSet(InFlight) /\ Cardinality(InFlight) \in Nat
      /\ Cardinality(Workers) \in Nat
      /\ Cardinality(InFlight) =< Cardinality(Workers)
  BY InFlightFinite
<1>2. Len(sent) \in Nat /\ sentAtCancel \in Nat
  BY DEF Inv, TypeOK
<1>3. CASE ctxDone
  <2>1. CASE sent' = sent /\ InFlight' = InFlight
    BY <1>3, <2>1, CanceledStep DEF Budget
  <2>2. ASSUME NEW w \in InFlight, Len(sent') = Len(sent) + 1, InFlight' = InFlight \ {w}
        PROVE  Budget'
    <3>1. Cardinality(InFlight') = Cardinality(InFlight) - 1
      BY <1>1, <2>2, FS_RemoveElement
    <3> QED BY <1>1, <1>2, <1>3, <2>2, <3>1, CanceledStep DEF Budget
  <2> QED BY <1>3, <2>1, <2>2, CanceledStep
<1>4. CASE ~ctxDone /\ Cancel
  <2>1. sent' = sent /\ sentAtCancel' = Len(sent) /\ InFlight' = InFlight
    BY <1>4 DEF Cancel, workerVars, InFlight
  <2> QED BY <1>1, <1>2, <2>1 DEF Budget
<1>5. CASE ~ctxDone /\ ~Cancel
  <2>1. ctxDone' = ctxDone
    BY <1>5 DEF Next, Feeder, Feed, StopFeeding, Worker, Take, Exhausted, LockLimiter,
                PassLimiter, Probe, Answer, DelayOver, DelayCut, CloseResults, Receive,
                Finish, Terminated, ctxVars, vars
  <2> QED BY <1>5, <2>1 DEF Budget
<1> QED BY <1>3, <1>4, <1>5

\* After the context ends each worker sends at most one more result,
\* whatever the number of ports still waiting.
THEOREM CancelsPromptly == Spec => []PromptCancel
<1>1. Init => Budget
  BY DEF Init, Budget
<1>2. Inv /\ Budget => PromptCancel
  BY InFlightFinite DEF Inv, TypeOK, Budget, PromptCancel
<1>3. Inv /\ Budget /\ [Next]_vars => Budget'
  BY BudgetStep
<1> QED BY <1>1, <1>2, <1>3, Invariance, PTL DEF Spec

-----------------------------------------------------------------------------
(* Refinement: a Receive is the abstract Report, Cancel the abstract       *)
(* EndContext, Finish the abstract Finish, and every other step a stutter. *)

LEMMA InitRefines == Init => HS!Init
<1> SUFFICES ASSUME Init PROVE HS!Init
  OBVIOUS
<1>1. 1..received = {}
  BY DEF Init
<1>2. FALSE \in BOOLEAN
  OBVIOUS
<1> QED BY <1>1, <1>2 DEF Init, HS!Init

LEMMA StepRefines ==
    ASSUME Inv, Inv', [Next]_vars
    PROVE  [HS!Next]_(HS!vars)
<1> DEFINE taken == {sent[i] : i \in 1..received}
<1> USE DEF HS!vars
<1>1. /\ TypeOK /\ OneResultPerPort /\ Truthful /\ Closing
      /\ Len(sent) \in Nat /\ received \in 0..Len(sent)
  BY DEF Inv, TypeOK
<1>2. ASSUME received' = received, collected' = collected, ctxDone' = ctxDone,
             \A i \in 1..Len(sent) : sent'[i] = sent[i]
      PROVE  UNCHANGED HS!vars
  BY <1>1, <1>2
<1>3. CASE UNCHANGED vars
  BY <1>2, <1>3 DEF vars
<1>4. CASE Feeder
  BY <1>2, <1>4 DEF Feeder, Feed, StopFeeding, workerVars, collectVars, ctxVars
<1>5. ASSUME NEW w \in Workers, NEW s \in States, pc[w] \in {"probe", "dial"},
             Put(w, s), UNCHANGED <<collectVars, ctxVars>>
      PROVE  UNCHANGED HS!vars
  <2>1. \A i \in 1..Len(sent) : sent'[i] = sent[i]
    BY <1>1, <1>5, PutLog
  <2> QED BY <1>2, <1>5, <2>1 DEF collectVars, ctxVars
<1>6. ASSUME NEW w \in Workers, Worker(w) PROVE UNCHANGED HS!vars
  <2>1. CASE UNCHANGED <<sent, collectVars, ctxVars>>
    BY <1>2, <2>1 DEF collectVars, ctxVars
  <2>2. CASE Probe(w)
    <3>1. CASE Put(w, "filtered")
      BY <1>5, <2>2, <3>1 DEF Probe, States
    <3> QED BY <2>1, <2>2, <3>1 DEF Probe
  <2>3. ASSUME NEW s \in States, Answer(w, s) PROVE UNCHANGED HS!vars
    BY <1>5, <2>3 DEF Answer
  <2> QED BY <1>6, <2>1, <2>2, <2>3
          DEF Worker, Take, Exhausted, LockLimiter, PassLimiter, DelayOver, DelayCut
<1>7. CASE Receive
  <2> DEFINE r == sent[received + 1]
  <2>1. /\ received' = received + 1 /\ sent' = sent /\ collected' = collected
        /\ ctxDone' = ctxDone /\ received + 1 \in 1..Len(sent)
    BY <1>1, <1>7 DEF Receive, workerVars, ctxVars
  <2>2. PICK p \in Ports, s \in States : r = [port |-> p, state |-> s]
    BY <1>1, <2>1, LogType DEF Results
  <2>3. {sent'[i] : i \in 1..received'} = taken \cup {r}
    <3>1. 1..received' = 1..received \cup {received + 1}
      BY <1>1, <2>1
    <3> QED BY <2>1, <3>1
  <2>4. ~collected
    BY <1>1, <1>7 DEF Receive, Closing
  <2>5. p \notin HS!ReportedPorts
    BY <1>1, <2>1, <2>2 DEF OneResultPerPort, HS!ReportedPorts
  <2>6. s = Verdict[p] \/ (ctxDone /\ s = "filtered")
    BY <1>1, <2>1, <2>2 DEF Truthful
  <2>7. HS!Report(p, s)
    BY <2>1, <2>2, <2>3, <2>4, <2>5, <2>6 DEF HS!Report
  <2> QED BY <2>6, <2>7 DEF HS!Next
<1>8. CASE Finish
  <2>1. /\ ~collected /\ collected' /\ received' = received /\ sent' = sent
        /\ ctxDone' = ctxDone
    BY <1>8 DEF Finish, workerVars, ctxVars
  <2>2. CASE ctxDone
    BY <2>1, <2>2 DEF HS!Next, HS!Finish, Inv, TypeOK
  <2>3. CASE ~ctxDone
    <3>1. CompleteUnlessCanceled'
      BY InvComplete, PTL
    <3>2. ASSUME NEW p \in Ports PROVE \E i \in 1..received : sent[i].port = p
      <4>1. PICK i \in 1..received : sent[i] = [port |-> p, state |-> Verdict[p]]
        BY <2>1, <2>3, <3>1 DEF CompleteUnlessCanceled
      <4> QED BY <4>1
    <3>3. \A i \in 1..received : sent[i].port \in Ports
      BY <1>1, LogType
    <3>4. HS!ReportedPorts = HS!Wanted
      BY <3>2, <3>3 DEF HS!ReportedPorts, HS!Wanted
    <3> QED BY <2>1, <3>4 DEF HS!Next, HS!Finish, Inv, TypeOK
  <2> QED BY <2>2, <2>3
<1>9. CASE Cancel
  BY <1>9 DEF Cancel, workerVars, collectVars, HS!Next, HS!EndContext
<1>10. CASE CloseResults \/ Terminated
  BY <1>2, <1>3, <1>10 DEF CloseResults, Terminated, workerVars, ctxVars
<1> QED
  BY <1>3, <1>4, <1>6, <1>7, <1>8, <1>9, <1>10 DEF Next

\* The pool implements the host scan: one truthful result per port, and an
\* early end only when the context has ended.
THEOREM ImplementsHostScan == Spec => HostScanSpec
<1>1. Inv /\ Inv' /\ [Next]_vars => [HS!Next]_(HS!vars)
  BY StepRefines
<1> QED BY <1>1, InitRefines, Invariance, PTL DEF Spec, HostScanSpec, HS!Spec

-----------------------------------------------------------------------------
(* ScanHost.  A step of the call is a step of the pool or leaves it alone,   *)
(* so whatever holds of the pool holds inside the call.                      *)

LEMMA CallStep ==
    ASSUME [BNext]_bvars
    PROVE  [Next]_vars
BY DEF BNext, bvars, Refuse, Begin, Collect, Return, PoolStep, CallerCancels, Returned, Next

\* The call refines the pool: ReportsOnce, ImplementsHostScan and the other
\* theorems above speak of ScanHost (scan.go:443-557).
THEOREM CallRefinesPool == BSpec => Spec
<1>1. BInit => Init
  BY DEF BInit
<1>2. [BNext]_bvars => [Next]_vars
  BY CallStep
<1> QED BY <1>1, <1>2, PTL DEF BSpec, Spec

\* The log only grows, and the options stay.
LEMMA LogGrows ==
    ASSUME TypeOK, [Next]_vars
    PROVE  /\ opts' = opts /\ Len(sent) =< Len(sent')
           /\ \A i \in 1..Len(sent) : sent'[i] = sent[i]
<1>1. ASSUME NEW w \in Workers, NEW s \in States, pc[w] \in {"probe", "dial"}, Put(w, s)
      PROVE  Len(sent) =< Len(sent') /\ \A i \in 1..Len(sent) : sent'[i] = sent[i]
  <2>1. Len(sent) \in Nat
    BY DEF TypeOK
  <2>2. Len(sent') = Len(sent) + 1 /\ \A i \in 1..Len(sent) : sent'[i] = sent[i]
    BY <1>1, PutLog
  <2> QED BY <2>1, <2>2
<1>2. Len(sent) \in Nat
  BY DEF TypeOK
<1>3. ASSUME NEW w \in Workers, NEW s \in States, Answer(w, s)
      PROVE  opts' = opts /\ Len(sent) =< Len(sent') /\ \A i \in 1..Len(sent) : sent'[i] = sent[i]
  BY <1>1, <1>3 DEF Answer
<1>4. ASSUME NEW w \in Workers, Probe(w)
      PROVE  opts' = opts /\ Len(sent) =< Len(sent') /\ \A i \in 1..Len(sent) : sent'[i] = sent[i]
  <2>1. CASE Put(w, "filtered")
    BY <1>1, <1>4, <2>1 DEF Probe, States
  <2> QED BY <1>2, <1>4, <2>1 DEF Probe
<1>5. CASE opts' = opts /\ sent' = sent
  BY <1>2, <1>5
<1> QED BY <1>3, <1>4, <1>5
        DEF Next, Feeder, Feed, StopFeeding, Worker, Take, Exhausted, LockLimiter, PassLimiter,
            DelayOver, DelayCut, CloseResults, Receive, Finish, Cancel, Terminated, vars,
            collectVars, workerVars

Kept(r) == opts.openOnly => r.state = "open"

\* The slice holds what was received and kept, each once, and progress counts
\* what was received; a call that returns nil has seen the channel closed.
CallInv ==
    /\ kept \in Seq(Results)
    /\ \A k \in 1..Len(kept) : \E i \in 1..received : kept[k] = sent[i] /\ Kept(sent[i])
    /\ \A i \in 1..received : Kept(sent[i]) => \E k \in 1..Len(kept) : kept[k] = sent[i]
    /\ \A k, l \in 1..Len(kept) : kept[k].port = kept[l].port => k = l
    /\ count = received
    /\ phase = "returned" /\ err = "nil" => collected

LEMMA CallInvStep ==
    ASSUME Inv, CallInv, [BNext]_bvars
    PROVE  CallInv'
<1>1. [Next]_vars /\ TypeOK /\ Len(sent) \in Nat /\ received \in 0..Len(sent) /\ kept \in Seq(Results)
  BY CallStep DEF Inv, TypeOK, CallInv
<1>2. /\ opts' = opts /\ Len(sent) =< Len(sent')
      /\ \A i \in 1..Len(sent) : sent'[i] = sent[i]
  BY <1>1, LogGrows
<1>3. \A i \in 1..received : sent'[i] = sent[i] /\ (Kept(sent[i])' <=> Kept(sent[i]))
  BY <1>1, <1>2 DEF Kept
<1>4. CASE Collect
  <2> DEFINE r == sent[received + 1]
  <2>1. /\ received' = received + 1 /\ sent' = sent /\ collected' = collected
        /\ received + 1 \in 1..Len(sent) /\ 1..received' = 1..received \cup {received + 1}
        /\ count' = count + 1 /\ kept' = Keep(r) /\ phase' = "scanning"
    BY <1>1, <1>4 DEF Collect, Receive, workerVars
  <2>2. r \in Results
    BY <1>1, <2>1, LogType
  <2>3. \/ ~Kept(r) /\ kept' = kept
        \/ Kept(r) /\ kept' = Append(kept, r)
    BY <2>1 DEF Keep, Kept
  <2>4. SUFFICES
          /\ kept' \in Seq(Results)
          /\ \A k \in 1..Len(kept') : \E i \in 1..(received + 1) : kept'[k] = sent[i] /\ Kept(sent[i])
          /\ \A i \in 1..(received + 1) : Kept(sent[i]) => \E k \in 1..Len(kept') : kept'[k] = sent[i]
          /\ \A k, l \in 1..Len(kept') : kept'[k].port = kept'[l].port => k = l
    BY <1>2, <2>1 DEF CallInv, Kept
  <2>5. CASE ~Kept(r) /\ kept' = kept
    BY <1>1, <2>1, <2>5 DEF CallInv
  <2>6. CASE Kept(r) /\ kept' = Append(kept, r)
    <3>1. /\ kept' \in Seq(Results)
          /\ Len(kept) \in Nat /\ Len(kept') = Len(kept) + 1 /\ kept'[Len(kept) + 1] = r
          /\ \A k \in 1..Len(kept) : kept'[k] = kept[k]
          /\ 1..Len(kept') = 1..Len(kept) \cup {Len(kept) + 1}
      BY <1>1, <2>2, <2>6
    <3>2. 1..(received + 1) = 1..received \cup {received + 1}
      BY <2>1
    <3>3. \A k \in 1..Len(kept') : \E i \in 1..(received + 1) : kept'[k] = sent[i] /\ Kept(sent[i])
      <4>1. ASSUME NEW k \in 1..Len(kept) PROVE \E i \in 1..received : kept'[k] = sent[i] /\ Kept(sent[i])
        BY <3>1 DEF CallInv
      <4>2. kept'[Len(kept) + 1] = sent[received + 1] /\ Kept(sent[received + 1])
        BY <2>6, <3>1
      <4> QED BY <3>1, <3>2, <4>1, <4>2
    <3>4. \A i \in 1..(received + 1) : Kept(sent[i]) => \E k \in 1..Len(kept') : kept'[k] = sent[i]
      <4>1. ASSUME NEW i \in 1..received, Kept(sent[i]) PROVE \E k \in 1..Len(kept') : kept'[k] = sent[i]
        <5>1. PICK k \in 1..Len(kept) : kept[k] = sent[i]
          BY <4>1 DEF CallInv
        <5> QED BY <3>1, <5>1
      <4>2. kept'[Len(kept) + 1] = sent[received + 1] /\ Len(kept) + 1 \in 1..Len(kept')
        BY <3>1
      <4> QED BY <3>2, <4>1, <4>2
    <3>5. \A k \in 1..Len(kept) : kept[k].port # r.port
      BY <1>1, <2>1 DEF CallInv, Inv, OneResultPerPort
    <3>6. \A k, l \in 1..Len(kept') : kept'[k].port = kept'[l].port => k = l
      BY <3>1, <3>5 DEF CallInv
    <3> QED BY <3>1, <3>3, <3>4, <3>6
  <2> QED BY <2>3, <2>5, <2>6
<1>5. CASE ~Collect
  <2>1. kept' = kept /\ count' = count /\ received' = received
    BY <1>5 DEF BNext, bvars, vars, Refuse, Begin, Return, Finish, PoolStep, CallerCancels, Cancel,
       Returned, callVars, Feeder, Feed, StopFeeding, Worker, Take, Exhausted, LockLimiter,
       PassLimiter, Probe, Answer, Put, DelayOver, DelayCut, CloseResults, collectVars, feedVars,
       workerVars, ctxVars
  <2>2. phase' = "returned" /\ err' = "nil" => collected'
    <3>1. CASE Refuse
      BY <3>1 DEF Refuse, Refusals
    <3>2. CASE Return
      BY <3>2 DEF Return, Finish
    <3>3. CASE Begin
      BY <3>3 DEF Begin
    <3>4. CASE collected' = collected /\ phase' = phase /\ err' = err
      BY <3>4 DEF CallInv
    <3> QED BY <1>5, <3>1, <3>2, <3>3, <3>4 DEF BNext, bvars, vars, PoolStep, CallerCancels, Cancel,
       Returned, callVars, Feeder, Feed, StopFeeding, Worker, Take, Exhausted, LockLimiter,
       PassLimiter, Probe, Answer, Put, DelayOver, DelayCut, CloseResults, collectVars, feedVars,
       workerVars, ctxVars
  <2>3. \A k \in 1..Len(kept) : \E i \in 1..received : kept[k] = sent'[i] /\ Kept(sent[i])'
    BY <1>3 DEF CallInv
  <2>4. \A i \in 1..received : Kept(sent[i])' => \E k \in 1..Len(kept) : kept[k] = sent'[i]
    BY <1>3 DEF CallInv
  <2> QED BY <2>1, <2>2, <2>3, <2>4 DEF CallInv
<1> QED BY <1>4, <1>5

LEMMA CallInvariance == BSpec => [](Inv /\ CallInv)
<1>1. BInit => CallInv
  <2> SUFFICES ASSUME BInit PROVE CallInv
    OBVIOUS
  <2>1. kept = <<>> /\ received = 0 /\ count = 0 /\ phase = "start"
    BY DEF BInit, Init
  <2> QED BY <2>1 DEF CallInv
<1>2. Inv /\ CallInv /\ [BNext]_bvars => CallInv'
  BY CallInvStep
<1> QED BY <1>1, <1>2, CallRefinesPool, Invariance, PTL DEF BSpec

\* A sequence without repetition is as long as the set it enumerates.
LEMMA CountOnce ==
    ASSUME NEW n \in Nat, NEW S, NEW f \in [1..n -> S],
           \A i, j \in 1..n : f[i] = f[j] => i = j,
           \A s \in S : \E i \in 1..n : f[i] = s
    PROVE  Cardinality(S) = n
<1>1. f \in Bijection(1..n, S)
  BY DEF Bijection, Injection, Surjection, IsInjective
<1>2. ExistsBijection(1..n, S)
  BY <1>1 DEF ExistsBijection
<1>3. IsFiniteSet(1..n) /\ Cardinality(1..n) = n
  BY FS_Interval
<1> QED BY <1>2, <1>3, FS_Bijection

\* An undisturbed call returns one entry for each port it was asked for, and
\* progress has reached their number (scan.go:521-557).
THEOREM CallReturnsAll == BSpec => []ReturnsWhatWasFound
<1>1. Inv /\ CallInv => ReturnsWhatWasFound
  <2> SUFFICES ASSUME Inv, CallInv, phase = "returned", err = "nil", ~ctxDone
               PROVE  /\ count = Cardinality(Ports)
                      /\ KeptPorts = {p \in Ports : opts.openOnly => Verdict[p] = "open"}
                      /\ Len(kept) = Cardinality(KeptPorts)
    BY DEF ReturnsWhatWasFound
  <2>1. /\ collected /\ count = received /\ TypeOK /\ Len(sent) \in Nat
        /\ received \in 0..Len(sent) /\ received \in Nat /\ Len(kept) \in Nat
    BY DEF CallInv, Inv, TypeOK
  <2>2. \A p \in Ports : \E i \in 1..received : sent[i] = [port |-> p, state |-> Verdict[p]]
    BY <2>1, InvComplete DEF CompleteUnlessCanceled
  <2>3. \A i, j \in 1..received : sent[i].port = sent[j].port => i = j
    BY <2>1 DEF Inv, OneResultPerPort
  <2>4. \A i \in 1..received : sent[i].port \in Ports
    BY <2>1, LogType
  <2>5. count = Cardinality(Ports)
    <3> DEFINE f == [i \in 1..received |-> sent[i].port]
    <3>1. f \in [1..received -> Ports]
      BY <2>4
    <3>2. ASSUME NEW p \in Ports PROVE \E i \in 1..received : f[i] = p
      <4>1. PICK i \in 1..received : sent[i] = [port |-> p, state |-> Verdict[p]]
        BY <2>2
      <4>2. sent[i].port = p
        BY <4>1
      <4>3. f[i] = sent[i].port
        OBVIOUS
      <4> QED BY <4>2, <4>3
    <3>3. \A i, j \in 1..received : f[i] = f[j] => i = j
      BY <2>3
    <3> HIDE DEF f
    <3> QED BY <2>1, <3>1, <3>2, <3>3, CountOnce
  <2>6. KeptPorts = {p \in Ports : opts.openOnly => Verdict[p] = "open"}
    <3>1. ASSUME NEW k \in 1..Len(kept)
          PROVE  kept[k].port \in Ports /\ (opts.openOnly => Verdict[kept[k].port] = "open")
      <4>1. PICK i \in 1..received : kept[k] = sent[i] /\ Kept(sent[i])
        BY DEF CallInv
      <4>2. sent[i].port \in Ports
        BY <2>4
      <4>3. PICK j \in 1..received : sent[j] = [port |-> sent[i].port, state |-> Verdict[sent[i].port]]
        BY <2>2, <4>2
      <4>4. sent[i].state = Verdict[sent[i].port]
        BY <2>3, <4>3
      <4> QED BY <4>1, <4>2, <4>4 DEF Kept
    <3>2. ASSUME NEW p \in Ports, opts.openOnly => Verdict[p] = "open"
          PROVE  p \in KeptPorts
      <4>1. PICK i \in 1..received : sent[i] = [port |-> p, state |-> Verdict[p]]
        BY <2>2
      <4>2. sent[i].state = Verdict[p]
        BY <4>1
      <4>3. Kept(sent[i])
        BY <3>2, <4>2 DEF Kept
      <4>4. PICK k \in 1..Len(kept) : kept[k] = sent[i]
        BY <4>3 DEF CallInv
      <4>5. kept[k].port = p
        BY <4>1, <4>4
      <4> QED BY <4>5 DEF KeptPorts
    <3> QED BY <3>1, <3>2 DEF KeptPorts
  <2>7. Len(kept) = Cardinality(KeptPorts)
    <3> DEFINE f == [k \in 1..Len(kept) |-> kept[k].port]
    <3>1. f \in [1..Len(kept) -> KeptPorts]
      BY DEF KeptPorts
    <3>2. \A p \in KeptPorts : \E k \in 1..Len(kept) : f[k] = p
      BY DEF KeptPorts
    <3>3. \A k, l \in 1..Len(kept) : f[k] = f[l] => k = l
      BY DEF CallInv
    <3> HIDE DEF f
    <3> QED BY <2>1, <3>1, <3>2, <3>3, CountOnce
  <2> QED BY <2>5, <2>6, <2>7
<1> QED BY <1>1, CallInvariance, PTL

-----------------------------------------------------------------------------
(* The length of a scan.  Work is counted in steps: what a port still costs  *)
(* from where it is, what each worker has before it, and the three steps     *)
(* that close the channels and leave the collector's loop.                   *)

Stage == [range |-> 1, lock |-> 7, wait |-> 6, probe |-> 5, dial |-> 4, delay |-> 2, done |-> 0]

\* The workers with at least k steps before them: counted for each k, a worker
\* is counted as often as it has steps.
Ahead(k, where) == {w \in Workers : Stage[where[w]] >= k}
Count(k, where) == Cardinality(Ahead(k, where))

WorkersLeft(where) ==
    Count(1, where) + Count(2, where) + Count(3, where) + Count(4, where)
    + Count(5, where) + Count(6, where) + Count(7, where)

Flag(b) == IF b THEN 0 ELSE 1

Unread == Len(sent) - received
Unclosed == Flag(inClosed) + Flag(resultClosed) + Flag(collected)

WorkLeft == 9 * Cardinality(todo) + 8 * Cardinality(in) + WorkersLeft(pc) + Unread + Unclosed

Moves == Feeder \/ (\E w \in Workers : Worker(w)) \/ CloseResults \/ Receive \/ Finish

WorkCounted == WorkLeft \in Nat

ScanBounded == WorkLeft \in 0..(9 * Cardinality(Ports) + Cardinality(Workers) + 3)

WorkRunsOut ==
    [][(Moves => WorkLeft' < WorkLeft) /\ (~Moves => WorkLeft' = WorkLeft)]_vars

LEMMA StageType == \A x \in PC : Stage[x] \in 0..7
BY DEF PC, Stage

LEMMA CountType ==
    ASSUME NEW k \in Nat, NEW where
    PROVE  IsFiniteSet(Ahead(k, where)) /\ Count(k, where) \in Nat
<1>1. Ahead(k, where) \in SUBSET Workers
  BY DEF Ahead
<1>2. IsFiniteSet(Ahead(k, where))
  BY <1>1, PoolAssumption, FS_Subset
<1> QED BY <1>2, FS_CardinalityType DEF Count

\* A worker that goes from one place to another counts for the stages there.
LEMMA CountMove ==
    ASSUME NEW where \in [Workers -> PC], NEW w \in Workers, NEW x \in PC, NEW k \in Nat
    PROVE  Count(k, [where EXCEPT ![w] = x]) =
              Count(k, where) + (IF Stage[x] >= k THEN 1 ELSE 0)
                              - (IF Stage[where[w]] >= k THEN 1 ELSE 0)
<1> DEFINE A == Ahead(k, where)
           B == Ahead(k, [where EXCEPT ![w] = x])
<1>1. IsFiniteSet(A) /\ Cardinality(A) \in Nat
  BY CountType DEF Count
<1>2. w \in A <=> Stage[where[w]] >= k
  BY DEF Ahead
<1>3. B = IF Stage[x] >= k THEN A \cup {w} ELSE A \ {w}
  BY DEF Ahead
<1> HIDE DEF A, B
<1>4. Cardinality(A \cup {w}) = IF w \in A THEN Cardinality(A) ELSE Cardinality(A) + 1
  BY <1>1, FS_AddElement
<1>5. Cardinality(A \ {w}) = IF w \in A THEN Cardinality(A) - 1 ELSE Cardinality(A)
  BY <1>1, FS_RemoveElement
<1> QED BY <1>1, <1>2, <1>3, <1>4, <1>5 DEF Count, A, B

LEMMA WorkersMove ==
    ASSUME NEW where \in [Workers -> PC], NEW w \in Workers, NEW x \in PC
    PROVE  /\ WorkersLeft(where) \in Nat
           /\ WorkersLeft([where EXCEPT ![w] = x]) = WorkersLeft(where) + Stage[x] - Stage[where[w]]
           /\ Stage[x] \in 0..7 /\ Stage[where[w]] \in 0..7
<1> DEFINE new == [where EXCEPT ![w] = x]
           a == Stage[where[w]]
           b == Stage[x]
<1>1. a \in 0..7 /\ b \in 0..7
  BY StageType
<1>2. ASSUME NEW k \in 1..7
      PROVE  /\ Count(k, where) \in Nat
             /\ Count(k, new) = Count(k, where) + (IF b >= k THEN 1 ELSE 0) - (IF a >= k THEN 1 ELSE 0)
  <2>1. k \in Nat
    OBVIOUS
  <2> QED BY <2>1, CountMove, CountType
<1>3. WorkersLeft(where) \in Nat
  BY <1>2 DEF WorkersLeft
<1> HIDE DEF new, a, b
<1>4. WorkersLeft(new) = WorkersLeft(where) + b - a
  BY <1>1, <1>2 DEF WorkersLeft
<1> QED BY <1>1, <1>3, <1>4 DEF new, a, b

\* How the sizes of the sets change.
LEMMA PortsFinite ==
    ASSUME NEW S \in SUBSET Ports
    PROVE  /\ IsFiniteSet(S) /\ Cardinality(S) \in Nat
           /\ \A p \in S : Cardinality(S \ {p}) = Cardinality(S) - 1
           /\ \A p \in Ports : Cardinality(S \cup {p}) =< Cardinality(S) + 1
<1>1. IsFiniteSet(S)
  BY PoolAssumption, FS_Subset
<1>2. Cardinality(S) \in Nat
  BY <1>1, FS_CardinalityType
<1>3. \A p \in S : Cardinality(S \ {p}) = Cardinality(S) - 1
  BY <1>1, FS_RemoveElement
<1>4. \A p \in Ports : Cardinality(S \cup {p}) =< Cardinality(S) + 1
  BY <1>1, <1>2, FS_AddElement
<1> QED BY <1>1, <1>2, <1>3, <1>4

LEMMA WorkType ==
    ASSUME TypeOK
    PROVE  /\ Cardinality(todo) \in Nat /\ Cardinality(in) \in Nat /\ WorkersLeft(pc) \in Nat
           /\ Unread \in Nat /\ Unclosed \in Nat /\ WorkLeft \in Nat
<1>1. Cardinality(todo) \in Nat /\ Cardinality(in) \in Nat
  BY PortsFinite DEF TypeOK
<1>2. WorkersLeft(pc) \in Nat
  <2>1. pc \in [Workers -> PC] /\ "done" \in PC /\ \E w \in Workers : TRUE
    BY PoolAssumption DEF TypeOK, PC
  <2> QED BY <2>1, WorkersMove
<1>3. Unread \in Nat
  BY DEF TypeOK, Unread
<1>4. Unclosed \in Nat
  BY DEF Flag, Unclosed
<1> QED BY <1>1, <1>2, <1>3, <1>4 DEF WorkLeft

LEMMA MoveFalls ==
    ASSUME TypeOK, TypeOK', Moves
    PROVE  WorkLeft' < WorkLeft
<1> DEFINE T == Cardinality(todo)
           Q == Cardinality(in)
           W == WorkersLeft(pc)
           T1 == Cardinality(todo')
           Q1 == Cardinality(in')
           W1 == WorkersLeft(pc')
<1>0. pc \in [Workers -> PC] /\ todo \in SUBSET Ports /\ in \in SUBSET Ports
  BY DEF TypeOK
<1>1. T \in Nat /\ Q \in Nat /\ W \in Nat /\ Unread \in Nat /\ Unclosed \in Nat
  BY WorkType
<1>2. WorkLeft = 9 * T + 8 * Q + W + Unread + Unclosed
  BY DEF WorkLeft
<1>3. WorkLeft' = 9 * T1 + 8 * Q1 + W1 + Unread' + Unclosed'
  BY DEF WorkLeft, WorkersLeft, Count, Ahead
<1>4. /\ UNCHANGED todo => T1 = T
      /\ UNCHANGED in => Q1 = Q
      /\ UNCHANGED pc => W1 = W
      /\ UNCHANGED <<sent, received>> => Unread' = Unread
      /\ UNCHANGED <<inClosed, resultClosed, collected>> => Unclosed' = Unclosed
  BY DEF Unread, Unclosed, Flag
<1> HIDE DEF T, Q, W, T1, Q1, W1
<1>5. ASSUME NEW p \in Ports, Feed(p) PROVE WorkLeft' < WorkLeft
  <2>1. /\ p \in todo /\ todo' = todo \ {p} /\ in' = in \cup {p}
        /\ UNCHANGED <<inClosed, pc, sent, received, resultClosed, collected>>
    BY <1>5 DEF Feed, workerVars, collectVars
  <2>2. T1 = T - 1 /\ Q1 =< Q + 1 /\ Q1 \in Nat
    BY <1>0, <2>1, PortsFinite DEF T, Q, T1, Q1
  <2> QED BY <1>1, <1>2, <1>3, <1>4, <2>1, <2>2
<1>6. CASE StopFeeding
  <2>1. /\ inClosed = FALSE /\ inClosed' = TRUE
        /\ UNCHANGED <<todo, in, pc, sent, received, resultClosed, collected>>
    BY <1>6 DEF StopFeeding, workerVars, collectVars, TypeOK
  <2>2. Unclosed' = Unclosed - 1
    BY <2>1 DEF Unclosed, Flag
  <2> QED BY <1>1, <1>2, <1>3, <1>4, <2>1, <2>2
\* A worker goes on to x, and its result, if it has one, into the channel.
<1>7. ASSUME NEW w \in Workers, NEW x \in PC, pc' = [pc EXCEPT ![w] = x],
             UNCHANGED <<todo, in, inClosed, received, resultClosed, collected>>,
             \/ UNCHANGED sent /\ Stage[x] < Stage[pc[w]]
             \/ Len(sent') = Len(sent) + 1 /\ Stage[x] + 1 < Stage[pc[w]]
      PROVE  WorkLeft' < WorkLeft
  <2>1. /\ W1 = W + Stage[x] - Stage[pc[w]]
        /\ Stage[x] \in 0..7 /\ Stage[pc[w]] \in 0..7
    BY <1>0, <1>7, WorkersMove DEF W, W1
  <2>2. T1 = T /\ Q1 = Q /\ Unclosed' = Unclosed
    BY <1>4, <1>7
  <2>3. CASE UNCHANGED sent /\ Stage[x] < Stage[pc[w]]
    <3>1. Unread' = Unread
      BY <1>4, <1>7, <2>3
    <3> QED BY <1>1, <1>2, <1>3, <2>1, <2>2, <2>3, <3>1
  <2>4. CASE Len(sent') = Len(sent) + 1 /\ Stage[x] + 1 < Stage[pc[w]]
    <3>1. Len(sent) \in Nat /\ received \in Nat /\ received' = received
      BY <1>7 DEF TypeOK
    <3>2. Unread' = Unread + 1
      BY <2>4, <3>1 DEF Unread
    <3>3. W1 + Unread' < W + Unread
      <4> DEFINE a == Stage[x]
                 b == Stage[pc[w]]
      <4>1. W1 = W + a - b /\ a \in 0..7 /\ b \in 0..7 /\ a + 1 < b
        BY <2>1, <2>4
      <4>2. W \in Nat /\ Unread \in Nat
        BY <1>1
      <4> HIDE DEF a, b
      <4> QED BY <4>1, <4>2, <3>2
    <3>4. W1 \in Int /\ Unread' \in Nat
      BY <1>1, <2>1, <3>2
    <3>5. WorkLeft' = 9 * T + 8 * Q + W1 + Unread' + Unclosed
      BY <1>3, <2>2
    <3>6. T \in Nat /\ Q \in Nat /\ W \in Nat /\ Unread \in Nat /\ Unclosed \in Nat
      BY <1>1
    <3> DEFINE rest == 9 * T + 8 * Q
               u == Unread
               u1 == Unread'
               c == Unclosed
               l == WorkLeft
               l1 == WorkLeft'
    <3>7. /\ l = rest + W + u + c /\ l1 = rest + W1 + u1 + c
          /\ rest \in Nat /\ W \in Nat /\ u \in Nat /\ c \in Nat
          /\ W1 \in Int /\ u1 \in Nat /\ W1 + u1 < W + u
      <4>1. l = rest + W + u + c
        BY <1>2
      <4>2. l1 = rest + W1 + u1 + c
        BY <3>5
      <4>3. rest \in Nat
        BY <3>6
      <4>4. W1 + u1 < W + u
        BY <3>3
      <4>5. W1 \in Int /\ u1 \in Nat
        BY <3>4
      <4> QED BY <4>1, <4>2, <4>3, <4>4, <4>5, <3>6
    <3> HIDE DEF rest, u, u1, c, l, l1
    <3>8. l1 < l
      BY <3>7
    <3> QED BY <3>8 DEF l, l1
  <2> QED BY <1>7, <2>3, <2>4
<1>8. ASSUME NEW w \in Workers, NEW s \in States, Put(w, s), pc[w] \in {"probe", "dial"},
             UNCHANGED <<todo, in, inClosed, received, resultClosed, collected>>
      PROVE  WorkLeft' < WorkLeft
  <2>1. AfterProbe \in {"delay", "range"} /\ pc' = [pc EXCEPT ![w] = AfterProbe]
    BY <1>8 DEF AfterProbe, Put
  <2>2. Len(sent') = Len(sent) + 1
    BY <1>8, PutType
  <2>3. AfterProbe \in PC /\ Stage[AfterProbe] + 1 < Stage[pc[w]]
    BY <1>8, <2>1 DEF PC, Stage
  <2> QED BY <1>7, <1>8, <2>1, <2>2, <2>3
<1>9. ASSUME NEW w \in Workers, NEW p \in Ports, Take(w, p) PROVE WorkLeft' < WorkLeft
  <2>1. PICK x \in {"done", "lock", "probe"} :
           /\ pc[w] = "range" /\ p \in in /\ in' = in \ {p} /\ pc' = [pc EXCEPT ![w] = x]
           /\ UNCHANGED <<todo, inClosed, sent, received, resultClosed, collected>>
    BY <1>9 DEF Take, AfterCheck, collectVars
  <2>2. Q1 = Q - 1
    BY <1>0, <2>1, PortsFinite DEF Q, Q1
  <2>3. x \in PC /\ Stage[pc[w]] = 1
    BY <2>1 DEF PC, Stage
  <2>4. W1 = W + Stage[x] - 1 /\ Stage[x] \in 0..7
    BY <1>0, <2>1, <2>3, WorkersMove DEF W, W1
  <2>5. T1 = T /\ Unread' = Unread /\ Unclosed' = Unclosed
    BY <1>4, <2>1
  <2> QED BY <1>1, <1>2, <1>3, <2>2, <2>4, <2>5
<1>10. ASSUME NEW w \in Workers, Exhausted(w) \/ LockLimiter(w) \/ PassLimiter(w)
                                 \/ DelayOver(w) \/ DelayCut(w)
       PROVE  WorkLeft' < WorkLeft
  <2>1. PICK x \in PC :
           /\ pc' = [pc EXCEPT ![w] = x] /\ Stage[x] < Stage[pc[w]]
           /\ UNCHANGED <<todo, in, inClosed, sent, received, resultClosed, collected>>
    BY <1>10 DEF Exhausted, LockLimiter, PassLimiter, DelayOver, DelayCut, feedVars, collectVars, Stage, PC
  <2> QED BY <1>7, <2>1
<1>11. ASSUME NEW w \in Workers, Probe(w) PROVE WorkLeft' < WorkLeft
  <2>1. pc[w] = "probe" /\ UNCHANGED <<todo, in, inClosed, received, resultClosed, collected>>
    BY <1>11 DEF Probe, feedVars, collectVars
  <2>2. CASE Put(w, "filtered")
    BY <1>8, <2>1, <2>2 DEF States
  <2>3. CASE pc' = [pc EXCEPT ![w] = "dial"] /\ UNCHANGED <<job, sent>>
    <3>1. "dial" \in PC /\ Stage["dial"] < Stage[pc[w]]
      BY <2>1 DEF PC, Stage
    <3> QED BY <1>7, <2>1, <2>3, <3>1
  <2> QED BY <1>11, <2>2, <2>3 DEF Probe
<1>12. ASSUME NEW w \in Workers, NEW s \in States, Answer(w, s) PROVE WorkLeft' < WorkLeft
  BY <1>8, <1>12 DEF Answer, feedVars, collectVars
<1>13. CASE CloseResults
  <2>1. /\ resultClosed = FALSE /\ resultClosed' = TRUE
        /\ UNCHANGED <<todo, in, inClosed, pc, sent, received, collected>>
    BY <1>13 DEF CloseResults, feedVars, workerVars, TypeOK
  <2>2. Unclosed' = Unclosed - 1
    BY <2>1 DEF Unclosed, Flag
  <2> QED BY <1>1, <1>2, <1>3, <1>4, <2>1, <2>2
<1>14. CASE Receive
  <2>1. received' = received + 1 /\ UNCHANGED <<todo, in, inClosed, pc, sent, resultClosed, collected>>
    BY <1>14 DEF Receive, feedVars, workerVars
  <2>2. Unread' = Unread - 1
    BY <2>1 DEF Unread, TypeOK
  <2> QED BY <1>1, <1>2, <1>3, <1>4, <2>1, <2>2
<1>15. CASE Finish
  <2>1. /\ collected = FALSE /\ collected' = TRUE
        /\ UNCHANGED <<todo, in, inClosed, pc, sent, received, resultClosed>>
    BY <1>15 DEF Finish, feedVars, workerVars, TypeOK
  <2>2. Unclosed' = Unclosed - 1
    BY <2>1 DEF Unclosed, Flag
  <2> QED BY <1>1, <1>2, <1>3, <1>4, <2>1, <2>2
<1> QED BY <1>5, <1>6, <1>9, <1>10, <1>11, <1>12, <1>13, <1>14, <1>15 DEF Moves, Feeder, Worker

LEMMA WorkStep ==
    ASSUME TypeOK, TypeOK', Next
    PROVE  (Moves => WorkLeft' < WorkLeft) /\ (~Moves => WorkLeft' = WorkLeft)
<1>1. ASSUME ~Moves PROVE WorkLeft' = WorkLeft
  <2>1. UNCHANGED <<todo, in, inClosed, pc, sent, received, resultClosed, collected>>
    BY <1>1 DEF Next, Moves, Cancel, Terminated, vars, feedVars, workerVars, collectVars
  <2> QED BY <2>1 DEF WorkLeft, WorkersLeft, Count, Ahead, Unread, Unclosed, Flag
<1> QED BY <1>1, MoveFalls

LEMMA WorkInit ==
    ASSUME Init
    PROVE  ScanBounded
<1>1. TypeOK
  BY TypeInit
<1>2. WorkersLeft(pc) = Cardinality(Workers)
  <2>1. Ahead(1, pc) = Workers /\ \A k \in 2..7 : Ahead(k, pc) = {}
    BY DEF Init, Ahead, Stage
  <2>2. Count(1, pc) = Cardinality(Workers) /\ \A k \in 2..7 : Count(k, pc) = 0
    BY <2>1, FS_EmptySet DEF Count
  <2>3. Cardinality(Workers) \in Nat
    BY PoolAssumption, FS_CardinalityType
  <2> QED BY <2>2, <2>3 DEF WorkersLeft
<1>3. /\ Cardinality(todo) = Cardinality(Ports) /\ Cardinality(in) = 0 /\ Len(sent) = 0 /\ received = 0
      /\ Flag(inClosed) = 1 /\ Flag(resultClosed) = 1 /\ Flag(collected) = 1
  BY FS_EmptySet DEF Init, Flag
<1>4. Cardinality(Ports) \in Nat /\ Cardinality(Workers) \in Nat
  BY PoolAssumption, FS_CardinalityType
<1> QED BY <1>2, <1>3, <1>4 DEF ScanBounded, WorkLeft, Unread, Unclosed

\* A scan takes at most nine steps for each port, one for each worker and
\* three besides, however feeder, workers and collector interleave and
\* whenever the context ends: no goroutine can spin, none is sent back.
THEOREM ScanIsBounded == Spec => []ScanBounded /\ WorkRunsOut
<1>1. Init => ScanBounded
  BY WorkInit
<1>2. TypeOK => WorkCounted
  BY WorkType DEF WorkCounted
<1>3. ScanBounded /\ TypeOK /\ TypeOK' /\ WorkCounted /\ WorkCounted' /\ [Next]_vars => ScanBounded'
  <2> SUFFICES ASSUME ScanBounded, TypeOK, TypeOK', WorkCounted, WorkCounted', [Next]_vars
               PROVE  ScanBounded'
    OBVIOUS
  <2>1. CASE Next
    <3>1. WorkLeft' < WorkLeft \/ WorkLeft' = WorkLeft
      BY <2>1, WorkStep
    <3>2. Cardinality(Ports) \in Nat /\ Cardinality(Workers) \in Nat
      BY PoolAssumption, FS_CardinalityType
    <3> QED BY <3>1, <3>2 DEF ScanBounded, WorkCounted
  <2>2. CASE UNCHANGED vars
    <3>1. WorkLeft' = WorkLeft
      BY <2>2 DEF vars, WorkLeft, WorkersLeft, Count, Ahead, Unread, Unclosed, Flag
    <3> QED BY <3>1 DEF ScanBounded
  <2> QED BY <2>1, <2>2
<1>4. TypeOK /\ TypeOK' /\ [Next]_vars =>
          [(Moves => WorkLeft' < WorkLeft) /\ (~Moves => WorkLeft' = WorkLeft)]_vars
  BY WorkStep
<1> QED BY <1>1, <1>2, <1>3, <1>4, TypeCorrect, PTL DEF Spec, WorkRunsOut
=============================================================================
