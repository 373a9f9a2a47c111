--------------------------- MODULE DiscoveryProofs ---------------------------
(***************************************************************************)
(* Host discovery is a scan of hosts: for any hosts, methods, workers and  *)
(* buffer it implements HostScan, the same promise the port pool keeps.    *)
(***************************************************************************)
EXTENDS Discovery, TLAPS

Names == {Methods[i] : i \in 1..Len(Methods)} \cup {"filtered"}
Entries == [port : Hosts, state : Names]

-----------------------------------------------------------------------------
(* The shape of the state. *)

\* What a send does to the log.
LEMMA EmitLog ==
    ASSUME TypeOK, NEW w \in Workers, Emit(w)
    PROVE  /\ Len(sent) \in Nat
           /\ Len(sent') = Len(sent) + 1
           /\ sent'[Len(sent) + 1] = [port |-> host[w], state |-> found[w]]
           /\ \A i \in 1..Len(sent) : sent'[i] = sent[i]
           /\ 1..Len(sent') = 1..Len(sent) \cup {Len(sent) + 1}
           /\ host[w] \in Hosts
           /\ sent' \in Seq(Entries)
           /\ host' = [host EXCEPT ![w] = 0]
           /\ pc' = [pc EXCEPT ![w] = "range"]
<1>1. /\ pc[w] = "emit" /\ sent' = Append(sent, [port |-> host[w], state |-> found[w]])
      /\ host' = [host EXCEPT ![w] = 0] /\ pc' = [pc EXCEPT ![w] = "range"]
      BY DEF Emit
<1>2. host[w] \in 0..N /\ host[w] # 0 /\ found[w] \in Names
      BY <1>1 DEF TypeOK, Names
<1>3. host[w] \in Hosts
      BY <1>2, DiscoveryAssumption DEF Hosts
<1>4. sent \in Seq(Entries)
      BY DEF TypeOK, Entries, Names
<1>5. [port |-> host[w], state |-> found[w]] \in Entries
      BY <1>2, <1>3 DEF Entries
<1>6. Len(sent) \in Nat
      BY <1>4
<1>. QED BY <1>1, <1>3, <1>4, <1>5, <1>6

LEMMA TypeStep ==
    ASSUME TypeOK, [Next]_vars
    PROVE  TypeOK'
<1>. USE DiscoveryAssumption DEF TypeOK
<1>1. CASE Feed
      <2>1. fed' \in 0..N /\ taken' \in 0..fed'
            BY <1>1 DEF Feed
      <2>. QED BY <1>1, <2>1 DEF Feed, workerVars, outVars
<1>10. CASE StopFeeding
      BY <1>10 DEF StopFeeding, workerVars, outVars
<1>2. ASSUME NEW w \in Workers, Take(w) PROVE TypeOK'
      <2>1. taken + 1 \in 0..N /\ taken + 1 # 0 /\ taken' \in 0..fed'
            BY <1>2 DEF Take
      <2>2. CASE ctxDone
            BY <1>2, <2>1, <2>2 DEF Take, outVars
      <2>3. CASE ~ctxDone
            <3>1. /\ pc' = [pc EXCEPT ![w] = "probe"] /\ host' = [host EXCEPT ![w] = taken + 1]
                  /\ tried' = [tried EXCEPT ![w] = 0] /\ found' = [found EXCEPT ![w] = "filtered"]
                  BY <1>2, <2>3 DEF Take
            <3>2. /\ host' \in [Workers -> 0..N]
                  /\ \A v \in Workers : (host'[v] # 0) <=> (pc'[v] \in {"probe", "answer", "emit"})
                  BY <2>1, <3>1
            <3>3. tried' \in [Workers -> 0..Len(Methods)]
                  BY <3>1
            <3>. QED BY <1>2, <2>1, <3>1, <3>2, <3>3 DEF Take, outVars
      <2>. QED BY <2>2, <2>3
<1>3. ASSUME NEW w \in Workers, Exhausted(w) \/ GiveUp(w) \/ NoAnswer(w) PROVE TypeOK'
      BY <1>3 DEF Exhausted, GiveUp, NoAnswer, inVars, outVars
<1>4. ASSUME NEW w \in Workers, Try(w) PROVE TypeOK'
      <2>1. tried[w] + 1 \in 0..Len(Methods)
            BY <1>4 DEF Try
      <2>. QED BY <1>4, <2>1 DEF Try, inVars, outVars
<1>5. ASSUME NEW w \in Workers, Alive(w) PROVE TypeOK'
      <2>1. Methods[tried[w]] \in {Methods[i] : i \in 1..Len(Methods)}
            <3>1. host[w] \in Hosts
                  BY <1>5 DEF Alive, Hosts
            <3>2. Methods[tried[w]] \in Answers[host[w]]
                  BY <1>5 DEF Alive, Answered
            <3>3. Answers[host[w]] \subseteq {Methods[i] : i \in 1..Len(Methods)}
                  BY <3>1
            <3>. QED BY <3>2, <3>3
      <2>2. found' \in [Workers -> {Methods[i] : i \in 1..Len(Methods)} \cup {"filtered"}]
            BY <1>5, <2>1 DEF Alive
      <2>. QED BY <1>5, <2>2 DEF Alive, inVars, outVars
<1>6. ASSUME NEW w \in Workers, Emit(w) PROVE TypeOK'
      <2>1. sent' \in Seq(Entries) /\ Len(sent') = Len(sent) + 1 /\ Len(sent) \in Nat
            BY <1>6, EmitLog
      <2>2. received' \in 0..Len(sent')
            BY <1>6, <2>1 DEF Emit
      <2>. QED BY <1>6, <2>1, <2>2 DEF Emit, inVars, Entries, Names
<1>7. ASSUME NEW w \in Workers, EmitCanceled(w) PROVE TypeOK'
      BY <1>7 DEF EmitCanceled, inVars, outVars
<1>8. CASE CloseOut \/ SeeClosed \/ Leave \/ Cancel \/ Terminated \/ UNCHANGED vars
      BY <1>8 DEF CloseOut, SeeClosed, Leave, Cancel, Terminated, vars, inVars, workerVars, outVars
<1>9. CASE Receive
      <2>1. received' \in 0..Len(sent')
            BY <1>9 DEF Receive
      <2>. QED BY <1>9, <2>1 DEF Receive, inVars, workerVars
<1>. QED BY <1>1, <1>2, <1>3, <1>4, <1>5, <1>6, <1>7, <1>8, <1>9, <1>10 DEF Next, Worker

LEMMA TypeInit == Init => TypeOK
<1>. SUFFICES ASSUME Init PROVE TypeOK
      OBVIOUS
<1>1. sent \in Seq(Entries) /\ received \in 0..Len(sent)
      BY DEF Init
<1>2. fed \in 0..N /\ taken \in 0..fed /\ host \in [Workers -> 0..N] /\ tried \in [Workers -> 0..Len(Methods)]
      BY DiscoveryAssumption DEF Init
<1>. QED BY <1>1, <1>2 DEF Init, TypeOK, Entries, Names

THEOREM TypeCorrect == Spec => []TypeOK
BY TypeInit, TypeStep, PTL DEF Spec

-----------------------------------------------------------------------------
(* The inductive invariant.  A host the workers have taken is with one of    *)
(* them or in the log, never both and never twice; until the context ends it *)
(* is in one of the two.  What a worker has found so far is what the methods *)
(* it has tried say.                                                         *)

Placed ==
    /\ \A v, w \in Workers : host[v] = host[w] /\ host[v] # 0 => v = w
    /\ \A w \in Workers : host[w] =< taken
    /\ \A i \in 1..Len(sent) : sent[i].port =< taken
    /\ \A i \in 1..Len(sent) : \A w \in Workers : host[w] # sent[i].port
    /\ \A i, j \in 1..Len(sent) : sent[i].port = sent[j].port => i = j

NoneLost ==
    ~ctxDone => \A h \in 1..taken : \/ \E w \in Workers : host[w] = h
                                    \/ \E i \in 1..Len(sent) : sent[i].port = h

Closing ==
    /\ inClosed /\ ~ctxDone => fed = N
    /\ ~ctxDone => \A w \in Workers : pc[w] = "done" => inClosed /\ taken = fed
    /\ outClosed => \A w \in Workers : pc[w] = "done"
    /\ reader = "ended" => outClosed /\ received = Len(sent)

Judgement == [h \in Hosts |-> IF Answers[h] = {} THEN "filtered" ELSE Methods[FirstMethod(h)]]

Right(h, s) == s = Judgement[h] \/ (ctxDone /\ s = "filtered")

Silent(w, n) == \A i \in 1..n : Methods[i] \notin Answers[host[w]]

Judging ==
    \A w \in Workers :
        /\ pc[w] = "probe" => found[w] = "filtered" /\ (ctxDone \/ Silent(w, tried[w]))
        /\ pc[w] = "answer" => found[w] = "filtered" /\ tried[w] # 0 /\ Silent(w, tried[w] - 1)
        /\ pc[w] = "emit" => Right(host[w], found[w])

Truthful == \A i \in 1..Len(sent) : Right(sent[i].port, sent[i].state)

Inv == TypeOK /\ Placed /\ NoneLost /\ Closing /\ Judging /\ Truthful

LEMMA LogType ==
    ASSUME TypeOK, NEW i \in 1..Len(sent)
    PROVE  sent[i] \in Entries /\ sent[i].port \in Hosts /\ sent[i].state \in Names
<1>1. sent \in Seq(Entries)
      BY DEF TypeOK, Entries, Names
<1>2. sent[i] \in Entries
      BY <1>1
<1>. QED BY <1>2 DEF Entries

\* The first method that is answered is the one probeHost returns at.
LEMMA FirstIsFound ==
    ASSUME NEW h \in Hosts, NEW n \in 1..Len(Methods), Methods[n] \in Answers[h],
           \A i \in 1..(n - 1) : Methods[i] \notin Answers[h]
    PROVE  Judgement[h] = Methods[n]
<1>. DEFINE First(i) == Methods[i] \in Answers[h] /\ \A j \in 1..(i - 1) : Methods[j] \notin Answers[h]
<1>1. FirstMethod(h) = CHOOSE i \in 1..Len(Methods) : First(i)
      BY DEF FirstMethod
<1>2. First(n)
      OBVIOUS
<1>3. FirstMethod(h) \in 1..Len(Methods) /\ First(FirstMethod(h))
      <2>. HIDE DEF First
      <2>. QED BY <1>1, <1>2
<1>4. \A i, j \in 1..Len(Methods) : First(i) /\ First(j) => i = j
      <2>1. \A i, j \in 1..Len(Methods) : First(i) /\ First(j) => ~(i < j)
            BY DiscoveryAssumption
      <2>. HIDE DEF First
      <2>. QED BY <2>1, DiscoveryAssumption
<1>5. FirstMethod(h) = n
      <2>. HIDE DEF First
      <2>. QED BY <1>2, <1>3, <1>4
<1>. QED BY <1>5 DEF Judgement

\* A host that answered no method is judged dead.
LEMMA SilentIsDead ==
    ASSUME NEW h \in Hosts, \A i \in 1..Len(Methods) : Methods[i] \notin Answers[h]
    PROVE  Judgement[h] = "filtered"
<1>1. Answers[h] = {}
      BY DiscoveryAssumption
<1>. QED BY <1>1 DEF Judgement

LEMMA PlacedStep ==
    ASSUME Inv, [Next]_vars
    PROVE  Placed'
<1>. USE DiscoveryAssumption
<1>1. /\ Placed /\ TypeOK /\ taken \in Nat /\ host \in [Workers -> 0..N]
      /\ \A i \in 1..Len(sent) : sent[i].port \in Nat /\ sent[i].port # 0
      <2>1. Placed /\ TypeOK
            BY DEF Inv
      <2>2. \A i \in 1..Len(sent) : sent[i].port \in Hosts
            BY <2>1, LogType
      <2>3. taken \in Nat /\ host \in [Workers -> 0..N]
            BY <2>1 DEF TypeOK
      <2>. QED BY <2>1, <2>2, <2>3 DEF Hosts
<1>2. ASSUME UNCHANGED <<host, taken, sent>> PROVE Placed'
      BY <1>1, <1>2 DEF Placed
<1>3. ASSUME NEW w \in Workers, Take(w) PROVE Placed'
      <2>1. taken' = taken + 1 /\ sent' = sent
            BY <1>3 DEF Take, outVars
      <2>2. CASE host' = host
            BY <1>1, <2>1, <2>2 DEF Placed
      <2>3. CASE host' = [host EXCEPT ![w] = taken + 1]
            BY <1>1, <2>1, <2>3 DEF Placed
      <2>. QED BY <1>3, <2>2, <2>3 DEF Take
<1>4. ASSUME NEW w \in Workers, Emit(w) PROVE Placed'
      <2>. DEFINE n == Len(sent)
      <2>1. /\ n \in Nat /\ 1..Len(sent') = 1..n \cup {n + 1}
            /\ sent'[n + 1] = [port |-> host[w], state |-> found[w]]
            /\ \A i \in 1..n : sent'[i] = sent[i]
            /\ host[w] \in Hosts
            /\ host' = [host EXCEPT ![w] = 0]
            BY <1>1, <1>4, EmitLog
      <2>2. taken' = taken /\ host[w] # 0 /\ (sent'[n + 1]).port = host[w]
            BY <1>4, <2>1 DEF Emit, inVars, Hosts
      <2>3. \A v \in Workers : host'[v] \in Nat /\ host'[v] =< taken /\ (host'[v] = 0 \/ (v # w /\ host'[v] = host[v]))
            BY <1>1, <2>1 DEF Placed
      <2>4. \A u, v \in Workers : host'[u] = host'[v] /\ host'[u] # 0 => u = v
            BY <1>1, <2>3 DEF Placed
      <2>5. \A i \in 1..Len(sent') : (sent'[i]).port =< taken
            BY <1>1, <2>1, <2>2 DEF Placed
      <2>6. \A i \in 1..Len(sent') : \A v \in Workers : host'[v] # (sent'[i]).port
            <3>1. \A i \in 1..n : \A v \in Workers : host'[v] # (sent'[i]).port
                  BY <1>1, <2>1, <2>3 DEF Placed
            <3>2. \A v \in Workers : host'[v] # (sent'[n + 1]).port
                  BY <1>1, <2>2, <2>3 DEF Placed
            <3>. QED BY <2>1, <3>1, <3>2
      <2>7. \A i, j \in 1..Len(sent') : (sent'[i]).port = (sent'[j]).port => i = j
            <3>1. \A i, j \in 1..n : (sent'[i]).port = (sent'[j]).port => i = j
                  BY <1>1, <2>1 DEF Placed
            <3>2. \A i \in 1..n : (sent'[i]).port # (sent'[n + 1]).port
                  BY <1>1, <2>1, <2>2 DEF Placed
            <3>. QED BY <2>1, <3>1, <3>2
      <2>. QED BY <2>2, <2>3, <2>4, <2>5, <2>6, <2>7 DEF Placed
<1>5. ASSUME NEW w \in Workers, EmitCanceled(w) PROVE Placed'
      BY <1>1, <1>5 DEF EmitCanceled, inVars, outVars, Placed
<1>. QED BY <1>2, <1>3, <1>4, <1>5
         DEF Next, Worker, Feed, StopFeeding, Exhausted, Try, GiveUp, Alive, NoAnswer, CloseOut,
             Receive, SeeClosed, Leave, Cancel, Terminated, vars, inVars, workerVars, outVars

LEMMA NoneLostStep ==
    ASSUME Inv, [Next]_vars
    PROVE  NoneLost'
<1>. USE DiscoveryAssumption
<1>1. NoneLost /\ TypeOK /\ taken \in Nat /\ host \in [Workers -> 0..N]
      BY DEF Inv, TypeOK
<1>2. ASSUME UNCHANGED <<host, taken, sent>>, ~ctxDone' => ~ctxDone PROVE NoneLost'
      BY <1>1, <1>2 DEF NoneLost
<1>3. ASSUME NEW w \in Workers, Take(w) PROVE NoneLost'
      <2>1. CASE ctxDone
            BY <1>3, <2>1 DEF Take, NoneLost
      <2>2. CASE ~ctxDone
            <3>1. /\ taken' = taken + 1 /\ sent' = sent /\ host' = [host EXCEPT ![w] = taken + 1]
                  /\ host[w] = 0
                  BY <1>1, <1>3, <2>2 DEF Take, outVars, TypeOK
            <3>2. \A h \in 1..taken : \/ \E v \in Workers : host'[v] = h
                                       \/ \E i \in 1..Len(sent') : sent'[i].port = h
                  BY <1>1, <2>2, <3>1 DEF NoneLost
            <3>3. host'[w] = taken + 1 /\ 1..taken' = 1..taken \cup {taken + 1}
                  BY <1>1, <3>1
            <3>. QED BY <3>2, <3>3 DEF NoneLost
      <2>. QED BY <2>1, <2>2
<1>4. ASSUME NEW w \in Workers, Emit(w) PROVE NoneLost'
      <2>. DEFINE n == Len(sent)
      <2>1. /\ n + 1 \in 1..Len(sent') /\ 1..n \subseteq 1..Len(sent')
            /\ sent'[n + 1] = [port |-> host[w], state |-> found[w]]
            /\ \A i \in 1..n : sent'[i] = sent[i]
            /\ host' = [host EXCEPT ![w] = 0]
            BY <1>1, <1>4, EmitLog
      <2>2. UNCHANGED <<taken, ctxDone>>
            BY <1>4 DEF Emit, inVars
      <2>. SUFFICES ASSUME ~ctxDone, NEW h \in 1..taken
                    PROVE  \/ \E v \in Workers : host'[v] = h
                           \/ \E i \in 1..Len(sent') : (sent'[i]).port = h
            BY <2>2 DEF NoneLost
      <2>3. CASE host[w] = h
            <3>1. (sent'[n + 1]).port = h
                  BY <2>1, <2>3
            <3>. QED BY <2>1, <3>1
      <2>4. ASSUME NEW v \in Workers, v # w, host[v] = h
            PROVE  host'[v] = h
            BY <1>1, <2>1, <2>4
      <2>5. ASSUME NEW i \in 1..n, sent[i].port = h
            PROVE  i \in 1..Len(sent') /\ (sent'[i]).port = h
            BY <2>1, <2>5
      <2>. QED BY <1>1, <2>3, <2>4, <2>5 DEF NoneLost
<1>5. ASSUME NEW w \in Workers, EmitCanceled(w) PROVE NoneLost'
      BY <1>5 DEF EmitCanceled, NoneLost
<1>. QED BY <1>2, <1>3, <1>4, <1>5
         DEF Next, Worker, Feed, StopFeeding, Exhausted, Try, GiveUp, Alive, NoAnswer, CloseOut,
             Receive, SeeClosed, Leave, Cancel, Terminated, vars, inVars, workerVars, outVars

LEMMA ClosingStep ==
    ASSUME Inv, [Next]_vars
    PROVE  Closing'
<1>. USE DiscoveryAssumption
<1>1. /\ Closing /\ fed \in 0..N /\ taken \in 0..fed /\ received \in 0..Len(sent)
      /\ pc \in [Workers -> {"range", "probe", "answer", "emit", "done"}]
      BY DEF Inv, TypeOK
<1>2. CASE Feed
      BY <1>1, <1>2 DEF Feed, workerVars, outVars, Closing
<1>3. CASE StopFeeding
      BY <1>1, <1>3 DEF StopFeeding, workerVars, outVars, Closing
<1>4. ASSUME NEW w \in Workers, Take(w) PROVE Closing'
      BY <1>1, <1>4 DEF Take, outVars, Closing
<1>5. ASSUME NEW w \in Workers, Exhausted(w) PROVE Closing'
      BY <1>1, <1>5 DEF Exhausted, inVars, outVars, Closing
<1>6. ASSUME NEW w \in Workers, Try(w) \/ GiveUp(w) \/ Alive(w) \/ NoAnswer(w) PROVE Closing'
      BY <1>1, <1>6 DEF Try, GiveUp, Alive, NoAnswer, inVars, outVars, Closing
<1>7. ASSUME NEW w \in Workers, Emit(w) PROVE Closing'
      BY <1>1, <1>7 DEF Emit, inVars, Closing
<1>8. ASSUME NEW w \in Workers, EmitCanceled(w) PROVE Closing'
      BY <1>1, <1>8 DEF EmitCanceled, inVars, outVars, Closing
<1>9. CASE CloseOut \/ Receive \/ SeeClosed \/ Leave
      BY <1>1, <1>9 DEF CloseOut, Receive, SeeClosed, Leave, inVars, workerVars, Closing
<1>10. CASE Cancel \/ Terminated \/ UNCHANGED vars
      BY <1>1, <1>10 DEF Cancel, Terminated, vars, inVars, workerVars, outVars, Closing
<1>. QED BY <1>2, <1>3, <1>4, <1>5, <1>6, <1>7, <1>8, <1>9, <1>10 DEF Next, Worker

LEMMA JudgingStep ==
    ASSUME Inv, [Next]_vars
    PROVE  Judging'
<1>. USE DiscoveryAssumption
<1>1. /\ Judging /\ TypeOK
      /\ pc \in [Workers -> {"range", "probe", "answer", "emit", "done"}]
      /\ host \in [Workers -> 0..N] /\ tried \in [Workers -> 0..Len(Methods)]
      /\ found \in [Workers -> Names]
      BY DEF Inv, TypeOK, Names
<1>2. ASSUME UNCHANGED <<pc, host, tried, found>>, ctxDone => ctxDone' PROVE Judging'
      BY <1>1, <1>2 DEF Judging, Silent, Right
\* A step of worker w leaves the judgement of the others as it is.
<1>3. ASSUME NEW w \in Workers, UNCHANGED ctxDone,
             \A v \in Workers : v # w => pc'[v] = pc[v] /\ host'[v] = host[v]
                                        /\ tried'[v] = tried[v] /\ found'[v] = found[v],
             /\ pc'[w] = "probe" => found'[w] = "filtered" /\ (ctxDone \/ Silent(w, tried[w])')
             /\ pc'[w] = "answer" => found'[w] = "filtered" /\ tried'[w] # 0 /\ Silent(w, tried[w] - 1)'
             /\ pc'[w] = "emit" => Right(host[w], found[w])'
      PROVE  Judging'
      <2>. SUFFICES ASSUME NEW v \in Workers, v # w
                    PROVE  /\ pc'[v] = "probe" => found'[v] = "filtered" /\ (ctxDone' \/ Silent(v, tried[v])')
                           /\ pc'[v] = "answer" => found'[v] = "filtered" /\ tried'[v] # 0 /\ Silent(v, tried[v] - 1)'
                           /\ pc'[v] = "emit" => Right(host[v], found[v])'
            BY <1>3 DEF Judging
      <2>1. /\ Silent(v, tried[v])' <=> Silent(v, tried[v])
            /\ Silent(v, tried[v] - 1)' <=> Silent(v, tried[v] - 1)
            /\ Right(host[v], found[v])' <=> Right(host[v], found[v])
            BY <1>3 DEF Silent, Right
      <2>. QED BY <1>1, <1>3, <2>1 DEF Judging
<1>4. ASSUME NEW w \in Workers, Take(w) PROVE Judging'
      <2>1. CASE ctxDone
            <3>1. pc' = [pc EXCEPT ![w] = "done"] /\ UNCHANGED <<host, tried, found, ctxDone>>
                  BY <1>4, <2>1 DEF Take
            <3>. QED BY <1>1, <1>3, <3>1
      <2>2. CASE ~ctxDone
            <3>1. /\ pc' = [pc EXCEPT ![w] = "probe"] /\ host' = [host EXCEPT ![w] = taken + 1]
                  /\ tried' = [tried EXCEPT ![w] = 0] /\ found' = [found EXCEPT ![w] = "filtered"]
                  /\ UNCHANGED ctxDone
                  BY <1>4, <2>2 DEF Take
            <3>2. Silent(w, tried[w])'
                  BY <1>1, <3>1 DEF Silent
            <3>. QED BY <1>1, <1>3, <3>1, <3>2
      <2>. QED BY <2>1, <2>2
<1>5. ASSUME NEW w \in Workers, Exhausted(w) \/ Emit(w) \/ EmitCanceled(w) PROVE Judging'
      <2>1. /\ UNCHANGED <<tried, found, ctxDone>>
            /\ \/ pc' = [pc EXCEPT ![w] = "done"]
               \/ pc' = [pc EXCEPT ![w] = "range"]
            /\ \/ host' = host
               \/ host' = [host EXCEPT ![w] = 0]
            BY <1>5 DEF Exhausted, Emit, EmitCanceled
      <2>. QED BY <1>1, <1>3, <2>1
<1>6. ASSUME NEW w \in Workers, Try(w) PROVE Judging'
      <2>1. /\ pc[w] = "probe" /\ ~ctxDone /\ UNCHANGED <<host, found, ctxDone>>
            /\ tried' = [tried EXCEPT ![w] = tried[w] + 1] /\ pc' = [pc EXCEPT ![w] = "answer"]
            BY <1>6 DEF Try
      <2>2. found[w] = "filtered" /\ Silent(w, tried[w])
            BY <1>1, <2>1 DEF Judging
      <2>3. tried'[w] = tried[w] + 1 /\ tried'[w] - 1 = tried[w] /\ tried'[w] # 0
            BY <1>1, <2>1
      <2>4. Silent(w, tried[w] - 1)'
            BY <2>1, <2>2, <2>3 DEF Silent
      <2>. QED BY <1>1, <1>3, <2>1, <2>2, <2>3, <2>4
<1>7. ASSUME NEW w \in Workers, GiveUp(w) PROVE Judging'
      <2>1. /\ pc[w] = "probe" /\ (ctxDone \/ tried[w] = Len(Methods))
            /\ UNCHANGED <<host, tried, found, ctxDone>> /\ pc' = [pc EXCEPT ![w] = "emit"]
            BY <1>7 DEF GiveUp
      <2>2. found[w] = "filtered" /\ (ctxDone \/ Silent(w, Len(Methods)))
            BY <1>1, <2>1 DEF Judging
      <2>3. host[w] \in Hosts
            BY <1>1, <2>1 DEF TypeOK, Hosts
      <2>4. Right(host[w], found[w])
            BY <2>2, <2>3, SilentIsDead DEF Right, Silent
      <2>5. Right(host[w], found[w])'
            BY <2>1, <2>4 DEF Right
      <2>. QED BY <1>1, <1>3, <2>1, <2>5
<1>8. ASSUME NEW w \in Workers, Alive(w) PROVE Judging'
      <2>1. /\ pc[w] = "answer" /\ Methods[tried[w]] \in Answers[host[w]]
            /\ UNCHANGED <<host, tried, ctxDone>> /\ pc' = [pc EXCEPT ![w] = "emit"]
            /\ found' = [found EXCEPT ![w] = Methods[tried[w]]]
            BY <1>8 DEF Alive, Answered
      <2>2. tried[w] # 0 /\ Silent(w, tried[w] - 1)
            BY <1>1, <2>1 DEF Judging
      <2>3. host[w] \in Hosts /\ tried[w] \in 1..Len(Methods)
            BY <1>1, <2>1, <2>2 DEF TypeOK, Hosts
      <2>4. Judgement[host[w]] = Methods[tried[w]]
            BY <2>1, <2>2, <2>3, FirstIsFound DEF Silent
      <2>5. Right(host[w], found[w])'
            BY <1>1, <2>1, <2>4 DEF Right
      <2>. QED BY <1>1, <1>3, <2>1, <2>5
<1>9. ASSUME NEW w \in Workers, NoAnswer(w) PROVE Judging'
      <2>1. /\ pc[w] = "answer" /\ (ctxDone \/ Methods[tried[w]] \notin Answers[host[w]])
            /\ UNCHANGED <<host, tried, found, ctxDone>> /\ pc' = [pc EXCEPT ![w] = "probe"]
            BY <1>9 DEF NoAnswer, Answered
      <2>2. found[w] = "filtered" /\ Silent(w, tried[w] - 1)
            BY <1>1, <2>1 DEF Judging
      <2>3. tried[w] \in Nat /\ 1..tried[w] \subseteq 1..(tried[w] - 1) \cup {tried[w]}
            BY <1>1
      <2>4. ctxDone \/ Silent(w, tried[w])
            BY <2>1, <2>2, <2>3 DEF Silent
      <2>5. ctxDone \/ Silent(w, tried[w])'
            BY <2>1, <2>4 DEF Silent
      <2>. QED BY <1>1, <1>3, <2>1, <2>2, <2>5
<1>10. CASE ~(\E w \in Workers : Worker(w))
      <2>1. UNCHANGED <<pc, host, tried, found>> /\ (ctxDone => ctxDone')
            BY <1>10 DEF Next, Feed, StopFeeding, CloseOut, Receive, SeeClosed, Leave, Cancel,
                         Terminated, vars, inVars, workerVars, outVars
      <2>. QED BY <1>2, <2>1
<1>. QED BY <1>4, <1>5, <1>6, <1>7, <1>8, <1>9, <1>10 DEF Worker

LEMMA TruthfulStep ==
    ASSUME Inv, [Next]_vars
    PROVE  Truthful'
<1>1. TypeOK /\ Truthful /\ Judging
      BY DEF Inv
<1>2. CASE UNCHANGED sent
      <2>1. ctxDone => ctxDone'
            BY DEF Next, Worker, Feed, StopFeeding, Take, Exhausted, Try, GiveUp, Alive, NoAnswer,
                   Emit, EmitCanceled, CloseOut, Receive, SeeClosed, Leave, Cancel, Terminated, vars
      <2>. QED BY <1>1, <1>2, <2>1 DEF Truthful, Right
<1>3. ASSUME NEW w \in Workers, Emit(w) PROVE Truthful'
      <2>. DEFINE n == Len(sent)
      <2>1. /\ 1..Len(sent') = 1..n \cup {n + 1}
            /\ sent'[n + 1] = [port |-> host[w], state |-> found[w]]
            /\ \A i \in 1..n : sent'[i] = sent[i]
            BY <1>1, <1>3, EmitLog
      <2>2. pc[w] = "emit" /\ UNCHANGED ctxDone
            BY <1>3 DEF Emit
      <2>3. Right(host[w], found[w])
            BY <1>1, <2>2 DEF Judging
      <2>4. Right((sent'[n + 1]).port, (sent'[n + 1]).state)
            BY <2>1, <2>3
      <2>5. \A i \in 1..n : Right((sent'[i]).port, (sent'[i]).state)
            BY <1>1, <2>1 DEF Truthful
      <2>6. \A i \in 1..Len(sent') : Right((sent'[i]).port, (sent'[i]).state)
            BY <2>1, <2>4, <2>5
      <2>. QED BY <2>2, <2>6 DEF Truthful, Right
<1>4. CASE ~(\E w \in Workers : Emit(w))
      <2>1. UNCHANGED sent
            BY <1>4 DEF Next, Worker, Feed, StopFeeding, Take, Exhausted, Try, GiveUp, Alive, NoAnswer,
                   EmitCanceled, CloseOut, Receive, SeeClosed, Leave, Cancel, Terminated, vars, outVars
      <2>. QED BY <1>2, <2>1
<1>. QED BY <1>3, <1>4

LEMMA Invariance == Spec => []Inv
<1>1. Init => Inv
      <2>. SUFFICES ASSUME Init PROVE Inv
            OBVIOUS
      <2>1. /\ 1..Len(sent) = {} /\ 1..taken = {} /\ received = Len(sent)
            /\ \A w \in Workers : pc[w] = "range" /\ host[w] = 0
            /\ taken = 0 /\ ~inClosed /\ ~outClosed /\ reader = "reading"
            BY DEF Init
      <2>2. Placed /\ NoneLost /\ Closing /\ Judging /\ Truthful
            BY <2>1 DEF Placed, NoneLost, Closing, Judging, Truthful
      <2>. QED BY <2>2, TypeInit DEF Inv
<1>2. Inv /\ [Next]_vars => Inv'
      BY TypeStep, PlacedStep, NoneLostStep, ClosingStep, JudgingStep, TruthfulStep DEF Inv
<1>. QED BY <1>1, <1>2, PTL DEF Spec

\* The output channel is closed behind the last send, for any number of
\* workers (discovery.go:168-171, :221-222).
THEOREM ClosedAfterLastSend == Spec => []NoSendOnClosed
<1>1. Inv => NoSendOnClosed
      BY DEF Inv, Closing, TypeOK, NoSendOnClosed
<1>. QED BY <1>1, Invariance, PTL

-----------------------------------------------------------------------------
(* Refinement: a Receive is the abstract Report, Cancel the abstract         *)
(* EndContext, SeeClosed the abstract Finish; every other step a stutter.    *)

LEMMA InitRefines == Init => Sweep!Init
<1>. SUFFICES ASSUME Init PROVE Sweep!Init
      OBVIOUS
<1>1. 1..received = {} /\ reader # "ended" /\ ctxDone = FALSE
      BY DEF Init
<1>2. FALSE \in BOOLEAN
      OBVIOUS
<1>. QED BY <1>1, <1>2 DEF Sweep!Init

\* The reader sees the channel closed only after a judgement of every host,
\* unless the context has ended.
LEMMA NoneMissing ==
    ASSUME Inv, outClosed, ~ctxDone, NEW h \in Hosts
    PROVE  \E i \in 1..Len(sent) : sent[i].port = h
<1>1. \A w \in Workers : pc[w] = "done" /\ host[w] = 0
      BY DEF Inv, Closing, TypeOK
<1>2. taken = N
      BY <1>1, DiscoveryAssumption DEF Inv, Closing
<1>. QED BY <1>1, <1>2 DEF Inv, NoneLost, Hosts

LEMMA StepRefines ==
    ASSUME Inv, Inv', [Next]_vars
    PROVE  [Sweep!Next]_(Sweep!vars)
<1>. USE DEF Sweep!vars
<1>. DEFINE got == {sent[i] : i \in 1..received}
<1>1. /\ TypeOK /\ Placed /\ Truthful /\ Closing
      /\ Len(sent) \in Nat /\ received \in 0..Len(sent)
      BY DEF Inv, TypeOK
<1>2. ASSUME received' = received, (reader = "ended") = (reader' = "ended"), ctxDone' = ctxDone,
             \A i \in 1..Len(sent) : sent'[i] = sent[i]
      PROVE  UNCHANGED Sweep!vars
      BY <1>1, <1>2
<1>3. CASE UNCHANGED vars
      BY <1>2, <1>3 DEF vars
<1>4. CASE Feed \/ StopFeeding \/ CloseOut \/ Leave \/ Terminated
      BY <1>2, <1>3, <1>4 DEF Feed, StopFeeding, CloseOut, Leave, Terminated, outVars
<1>5. ASSUME NEW w \in Workers, Worker(w) PROVE UNCHANGED Sweep!vars
      <2>1. received' = received /\ reader' = reader /\ ctxDone' = ctxDone
            BY <1>5 DEF Worker, Take, Exhausted, Try, GiveUp, Alive, NoAnswer, Emit, EmitCanceled, outVars
      <2>2. CASE Emit(w)
            BY <1>1, <1>2, <2>1, <2>2, EmitLog
      <2>3. CASE ~Emit(w)
            <3>1. sent' = sent
                  BY <1>5, <2>3 DEF Worker, Take, Exhausted, Try, GiveUp, Alive, NoAnswer, EmitCanceled, outVars
            <3>. QED BY <1>2, <2>1, <3>1
      <2>. QED BY <2>2, <2>3
<1>6. CASE Receive
      <2>. DEFINE r == sent[received + 1]
      <2>1. /\ received' = received + 1 /\ sent' = sent /\ reader = "reading" /\ reader' = reader
            /\ ctxDone' = ctxDone /\ received + 1 \in 1..Len(sent)
            BY <1>1, <1>6 DEF Receive
      <2>2. PICK h \in Hosts, s \in Names : r = [port |-> h, state |-> s]
            BY <1>1, <2>1, LogType DEF Entries
      <2>3. {sent'[i] : i \in 1..received'} = got \cup {r}
            <3>1. 1..received' = 1..received \cup {received + 1}
                  BY <1>1, <2>1
            <3>. QED BY <2>1, <3>1
      <2>4. h \notin Sweep!ReportedPorts
            BY <1>1, <2>1, <2>2 DEF Placed, Sweep!ReportedPorts
      <2>5. s = Judgement[h] \/ (ctxDone /\ s = "filtered")
            BY <1>1, <2>1, <2>2 DEF Truthful, Right
      <2>6. Sweep!Report(h, s)
            BY <2>1, <2>2, <2>3, <2>4, <2>5 DEF Sweep!Report, Judgement
      <2>. QED BY <2>5, <2>6 DEF Sweep!Next, Judgement
<1>7. CASE SeeClosed
      <2>1. /\ reader = "reading" /\ reader' = "ended" /\ received' = received /\ sent' = sent
            /\ ctxDone' = ctxDone /\ outClosed /\ received = Len(sent)
            BY <1>7 DEF SeeClosed
      <2>2. CASE ctxDone
            BY <2>1, <2>2 DEF Sweep!Next, Sweep!Finish
      <2>3. CASE ~ctxDone
            <3>1. \A h \in Hosts : \E i \in 1..received : sent[i].port = h
                  BY <2>1, <2>3, NoneMissing
            <3>2. \A i \in 1..received : sent[i].port \in Hosts
                  BY <1>1, <2>1, LogType
            <3>3. Sweep!ReportedPorts = Sweep!Wanted
                  BY <3>1, <3>2 DEF Sweep!ReportedPorts, Sweep!Wanted
            <3>. QED BY <2>1, <3>3 DEF Sweep!Next, Sweep!Finish
      <2>. QED BY <2>2, <2>3
<1>8. CASE Cancel
      BY <1>8 DEF Cancel, outVars, Sweep!Next, Sweep!EndContext
<1>. QED BY <1>3, <1>4, <1>5, <1>6, <1>7, <1>8 DEF Next

\* Discovery keeps the promise of a scan: each host is judged once, by the
\* first of its methods that is answered, and none is missing unless the
\* context ended (discovery.go:116-224).
THEOREM ImplementsHostScan == Spec => SweepSpec
<1>1. Inv /\ Inv' /\ [Next]_vars => [Sweep!Next]_(Sweep!vars)
      BY StepRefines
<1>. QED BY <1>1, InitRefines, Invariance, PTL DEF Spec, SweepSpec, Sweep!Spec
=============================================================================
