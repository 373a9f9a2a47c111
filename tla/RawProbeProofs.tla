--------------------------- MODULE RawProbeProofs ---------------------------
(***************************************************************************)
(* RawProbe's verdicts are justified for any number of probes and source   *)
(* ports.  Justified is not inductive: that an answer a listener has read, *)
(* or put into its channel, was sent by the target from the probe's port   *)
(* has to be carried along (HeardWasSent).                                 *)
(***************************************************************************)
EXTENDS RawProbe, TLAPS

Sent(p, r) == [probe |-> p, reply |-> r] \in answered

HeardWasSent ==
    \A p \in Probes :
        /\ heard[p] # NoReply => Sent(p, heard[p])
        /\ response[p] # NoReply => Sent(p, response[p])

Inv == TypeOK /\ HeardWasSent /\ Justified

\* Every verdict on an answer other than a silent one is one the answer is
\* evidence for.
LEMMA ClassifyEvidence ==
    ASSUME NEW k \in Kinds, NEW r \in Replies,
           Classify(k, r) \in {"open", "closed", "unfiltered"}
    PROVE  r \in Evidence(k, Classify(k, r))
BY DEF Classify, Evidence, Kinds, Replies, Resets

LEMMA ClassifyType ==
    ASSUME NEW k \in Kinds, NEW r \in Replies
    PROVE  Classify(k, r) \in States
BY DEF Classify, Kinds, Replies, Resets, States

LEMMA SilenceType == \A k \in Kinds : Silence(k) \in {"open|filtered", "filtered"}
BY DEF Silence

\* A probe that reports a state which is silent, or which its target's
\* answer is evidence for, keeps the invariant's last conjunct.
LEMMA ReportJustified ==
    ASSUME Inv, NEW p \in Probes, NEW s \in States, Report(p, s),
           UNCHANGED <<kind, answered>>,
           s \in {"filtered", "open|filtered"}
             \/ \E r \in Evidence(kind, s) : Sent(p, r)
    PROVE  Justified'
<1>1. state' = [state EXCEPT ![p] = s] /\ kind' = kind /\ answered' = answered
      BY DEF Report
<1>2. state \in [Probes -> States \cup {NoState}]
      BY DEF Inv, TypeOK
<1>3. SUFFICES ASSUME NEW q \in Probes, state'[q] \in {"open", "closed", "unfiltered"}
               PROVE  \E r \in Evidence(kind, state'[q]) : Sent(q, r)
      BY <1>1 DEF Justified, Sent, Evidence
<1>4. CASE q = p
      BY <1>1, <1>2, <1>3, <1>4
<1>5. CASE q # p
      <2>1. state'[q] = state[q]
            BY <1>1, <1>2, <1>5
      <2>. QED BY <1>3, <2>1 DEF Inv, Justified, Sent
<1>. QED BY <1>4, <1>5

LEMMA TypeStep ==
    ASSUME TypeOK, [Next]_vars
    PROVE  TypeOK'
<1>. USE RawAssumption DEF TypeOK, probeVars, listenVars, envVars
<1>1. ASSUME NEW p \in Probes, GiveUpEarly(p)
      PROVE  TypeOK'
      BY <1>1 DEF GiveUpEarly, Report, States, NoState
<1>2. ASSUME NEW p \in Probes, NEW s \in SourcePorts, Start(p, s)
      PROVE  TypeOK'
      BY <1>2 DEF Start, States, NoState
<1>3. ASSUME NEW p \in Probes, GiveUpLate(p)
      PROVE  TypeOK'
      BY <1>3 DEF GiveUpLate, Report, States, NoState
<1>4. ASSUME NEW p \in Probes, SendFails(p)
      PROVE  TypeOK'
      BY <1>4 DEF SendFails, Sends, Report, States, NoState
<1>5. ASSUME NEW p \in Probes, Send(p)
      PROVE  TypeOK'
      <2>1. sport[p] \in SourcePorts
            BY <1>5 DEF Send, Sends
      <2>2. CASE Target = "short name"
            BY <1>5, <2>2 DEF Send
      <2>3. CASE Target # "short name"
            <3>1. pc' = [pc EXCEPT ![p] = "select"] /\ pc[p] = "sleep"
                  BY <1>5, <2>3 DEF Send, Sends
            <3>2. wire' \subseteq [probe : Probes, sport : SourcePorts]
                  <4>1. wire' = wire \cup {[probe |-> p, sport |-> sport[p]]}
                        BY <1>5, <2>3 DEF Send
                  <4>2. [probe |-> p, sport |-> sport[p]] \in [probe : Probes, sport : SourcePorts]
                        BY <2>1
                  <4>. QED BY <4>1, <4>2
            <3>3. UNCHANGED <<kind, sport, state, listener, heard, response,
                              answered, ctxDone, crashed>>
                  BY <1>5, <2>3 DEF Send
            <3>4. \A q \in Probes : (state'[q] # NoState) <=> (pc'[q] = "done")
                  BY <3>1, <3>3
            <3>5. \A q \in Probes : pc'[q] \in {"sleep", "select"} => sport'[q] # NoPort
                  BY <2>1, <3>1, <3>3
            <3>. QED BY <3>1, <3>2, <3>3, <3>4, <3>5
      <2>. QED BY <2>2, <2>3
<1>6. ASSUME NEW p \in Probes, TakeResponse(p)
      PROVE  TypeOK'
      <2>1. Classify(kind, response[p]) \in States
            BY <1>6, ClassifyType DEF TakeResponse
      <2>. QED BY <1>6, <2>1 DEF TakeResponse, Report, States, NoState
<1>7. ASSUME NEW p \in Probes, TimeOut(p)
      PROVE  TypeOK'
      BY <1>7, SilenceType DEF TimeOut, Report, States, NoState
<1>8. ASSUME NEW p \in Probes, SelectCanceled(p)
      PROVE  TypeOK'
      BY <1>8 DEF SelectCanceled, Report, States, NoState
<1>9. ASSUME NEW p \in Probes, Listener(p)
      PROVE  TypeOK'
      BY <1>9 DEF Listener, Open, CloseListener, HandOver
<1>10. ASSUME Network
       PROVE  TypeOK'
       BY <1>10 DEF Network, Answer, Noise, Deliver
<1>11. CASE Cancel
       BY <1>11 DEF Cancel
<1>12. CASE Ended
       BY <1>12 DEF Ended, vars
<1>13. CASE UNCHANGED vars
       BY <1>13 DEF vars
<1>. QED
     BY <1>1, <1>2, <1>3, <1>4, <1>5, <1>6, <1>7, <1>8, <1>9, <1>10, <1>11,
        <1>12, <1>13 DEF Next, Probe
\* The target's answers only accumulate, and no step but the listener's own
\* delivery and the probe's own reading touches what was heard.
LEMMA HeardStep ==
    ASSUME Inv, [Next]_vars
    PROVE  HeardWasSent'
<1>. USE DEF Inv, TypeOK, HeardWasSent, Sent, probeVars, listenVars, envVars
<1>1. ASSUME NEW p \in Probes, Probe(p)
      PROVE  HeardWasSent'
      BY <1>1 DEF Probe, GiveUpEarly, Start, GiveUpLate, SendFails, Send,
                  TakeResponse, TimeOut, SelectCanceled
<1>2. ASSUME NEW p \in Probes, Listener(p)
      PROVE  HeardWasSent'
      <2>1. CASE Open(p) \/ CloseListener(p)
            BY <2>1 DEF Open, CloseListener
      <2>2. CASE HandOver(p)
            BY <2>2 DEF HandOver
      <2>. QED BY <1>2, <2>1, <2>2 DEF Listener
<1>3. ASSUME NEW p \in Probes, NEW s \in SourcePorts, NEW r \in Replies, Answer(p, s, r)
      PROVE  HeardWasSent'
      BY <1>3 DEF Answer, Deliver, Matches
<1>4. ASSUME NEW p \in Probes, NEW s \in SourcePorts, NEW r \in Replies, Noise(p, s, r)
      PROVE  HeardWasSent'
      BY <1>4 DEF Noise, Deliver, Matches
<1>5. CASE Cancel
      BY <1>5 DEF Cancel
<1>6. CASE Ended \/ UNCHANGED vars
      BY <1>6 DEF Ended, vars
<1>. QED BY <1>1, <1>2, <1>3, <1>4, <1>5, <1>6 DEF Next, Network

LEMMA JustifiedStep ==
    ASSUME Inv, [Next]_vars
    PROVE  Justified'
<1>1. ASSUME NEW p \in Probes, GiveUpEarly(p) \/ GiveUpLate(p) \/ SendFails(p) \/ SelectCanceled(p)
      PROVE  Justified'
      BY <1>1, ReportJustified
         DEF GiveUpEarly, GiveUpLate, SendFails, SelectCanceled, envVars, States
<1>2. ASSUME NEW p \in Probes, TimeOut(p)
      PROVE  Justified'
      <2>1. Silence(kind) \in {"open|filtered", "filtered"}
            BY SilenceType DEF Inv, TypeOK
      <2>. QED BY <1>2, <2>1, ReportJustified DEF TimeOut, envVars, States
<1>3. ASSUME NEW p \in Probes, TakeResponse(p)
      PROVE  Justified'
      <2>. DEFINE r == response[p]
                  s == Classify(kind, r)
      <2>1. kind \in Kinds /\ r \in Replies /\ Sent(p, r)
            BY <1>3 DEF TakeResponse, Inv, TypeOK, HeardWasSent
      <2>2. s \in States
            BY <2>1, ClassifyType
      <2>3. CASE s \in {"open", "closed", "unfiltered"}
            <3>1. r \in Evidence(kind, s)
                  BY <2>1, <2>3, ClassifyEvidence
            <3>2. Report(p, s) /\ UNCHANGED <<kind, answered>>
                  BY <1>3 DEF TakeResponse, envVars
            <3>. HIDE DEF r, s
            <3>. QED BY <2>1, <2>2, <3>1, <3>2, ReportJustified
      <2>4. CASE s \in {"filtered", "open|filtered"}
            <3>1. Report(p, s) /\ UNCHANGED <<kind, answered>>
                  BY <1>3 DEF TakeResponse, envVars
            <3>. HIDE DEF r, s
            <3>. QED BY <2>2, <2>4, <3>1, ReportJustified
      <2>. QED BY <2>2, <2>3, <2>4 DEF States
<1>4. ASSUME UNCHANGED <<kind, state>>, answered \subseteq answered'
      PROVE  Justified'
      BY <1>4 DEF Inv, Justified, Evidence
<1>5. ASSUME NEW p \in Probes, (\E s \in SourcePorts : Start(p, s)) \/ Send(p) \/ Listener(p)
      PROVE  Justified'
      BY <1>4, <1>5 DEF Start, Send, Listener, Open, CloseListener, HandOver,
                        probeVars, envVars
<1>6. CASE Network \/ Cancel \/ Ended \/ UNCHANGED vars
      BY <1>4, <1>6 DEF Network, Answer, Noise, Cancel, Ended, vars, probeVars, envVars
<1>. QED BY <1>1, <1>2, <1>3, <1>5, <1>6 DEF Next, Probe

LEMMA InitInv == Init => Inv
BY DEF Init, Inv, TypeOK, HeardWasSent, Justified, NoState, States

LEMMA Invariance == Spec => []Inv
<1>1. Init => Inv
      BY InitInv
<1>2. Inv /\ [Next]_vars => Inv'
      BY TypeStep, HeardStep, JustifiedStep DEF Inv
<1>. QED BY <1>1, <1>2, PTL DEF Spec

\* A port is called open, closed or unfiltered only on the target's own
\* answer from that port, however many probes share a source port and
\* whatever other hosts send (rawscan_linux.go:171-180).
THEOREM VerdictsJustified == Spec => []Justified
<1>1. Inv => Justified
      BY DEF Inv
<1>. QED BY <1>1, Invariance, PTL

\* The state keeps its shape: in particular a probe has a verdict exactly when
\* it is done, so a worker that got one never gets another.
THEOREM TypeCorrect == Spec => []TypeOK
<1>1. Inv => TypeOK
      BY DEF Inv
<1>. QED BY <1>1, Invariance, PTL
=============================================================================
