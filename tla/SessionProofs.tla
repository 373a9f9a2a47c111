---------------------------- MODULE SessionProofs ----------------------------
(***************************************************************************)
(* Five facts about the analyses of a command for any constants: what the  *)
(* detection of the system returns, what a traced path may say, how soon   *)
(* all is quiet after Ctrl-C, which answer gives a port its version, and   *)
(* what the report of the scripts holds.                                   *)
(***************************************************************************)
EXTENDS Session, FiniteSetTheorems, SequenceTheorems, TLAPS

LEMMA ContextGrows == Next => ctxDone' \in {ctxDone, TRUE}
<1>1. CASE LoadTargets \/ ListMode \/ ParseOptions \/ ScanRanges \/ ScanTarget \/ PrintReport \/ NextStage
      BY <1>1 DEF LoadTargets, ListMode, ParseOptions, ScanRanges, ScanTarget, PrintReport,
                  NextStage, Goto, ctxVars
<1>2. CASE Banners
      BY <1>2 DEF Banners, GrabBanners, SvStep, ExaminePort, ProbesOver, CheckProbe, Dial, Ask,
                  Sends, ctxVars
<1>3. CASE OSDetection
      BY <1>3 DEF OSDetection, DetectOS, OSStep, Attempt, RoundFails, CheckRound, SendOSProbe,
                  Match, Sends, ctxVars
<1>4. CASE Trace
      BY <1>4 DEF Trace, StartTrace, TrStep, NextHop, GiveUpHop, CheckTry, SendProbe, TimeOutTry,
                  Answered, TakeICMP, Sends, ctxVars
<1>5. CASE Scripts \/ \E w \in ScriptWorkers : ScriptWorker(w)
      BY <1>5 DEF Scripts, RunAllScripts, ScStep, StartScripts, ReturnOutputs, ScriptWorker,
                  ScWorker, TakeScript, NoMoreScripts, CheckScript, RunScript, Sends, ctxVars
<1>6. CASE Network \/ Signal \/ Exited
      BY <1>6 DEF Network, ForeignICMP, LoseICMP, TakeICMP, Signal, CtrlC, Exited, vars, ctxVars
<1>. QED BY <1>1, <1>2, <1>3, <1>4, <1>5, <1>6 DEF Next, Main

-----------------------------------------------------------------------------
(* Detection of the system.  The rounds that ended are as many as the tries  *)
(* made, until one of them was interrupted, and a try begins only while      *)
(* there are some left.                                                      *)

OSType ==
    /\ osPc \in {"idle", "attempt", "check", "send", "match", "done"}
    /\ rounds \in Seq(Fingerprints)
    /\ best \in Fingerprints
    /\ attempt \in 0..maxTries
    /\ osErr \in {"nil", "refused", "probe failed"}
    /\ ctxDone \in BOOLEAN

TriesCounted ==
    /\ Len(rounds) =< attempt
    /\ ~ctxDone => Len(rounds) = attempt
    /\ osPc \in {"check", "send", "match"} => attempt < maxTries
    /\ osPc # "done" => osErr = "nil"

OSInv == OSType /\ TriesCounted /\ BestRoundKept

LEMMA MaxTriesType == maxTries \in Nat \ {0}
BY OSAssumption DEF maxTries

LEMMA MatchStep ==
    ASSUME OSInv, Match
    PROVE  OSInv'
<1>. PICK f \in Fingerprints :
        /\ rounds' = Append(rounds, f)
        /\ best' = IF Better(f) THEN f ELSE best
        /\ osPc' = IF f.perfect THEN "done" ELSE "attempt"
      BY DEF Match
<1>1. /\ osPc = "match" /\ attempt' = attempt + 1 /\ UNCHANGED <<osErr, ctxDone>>
      BY DEF Match, ctxVars
<1>2. /\ rounds \in Seq(Fingerprints) /\ best \in Fingerprints /\ attempt \in Nat
      /\ attempt < maxTries /\ Len(rounds) =< attempt /\ (~ctxDone => Len(rounds) = attempt)
      /\ osErr = "nil"
      BY <1>1, MaxTriesType DEF OSInv, OSType, TriesCounted
<1>3. f.matches \in Nat /\ best.matches \in Nat /\ \A i \in 1..Len(rounds) : rounds[i].matches \in Nat
      BY <1>2, OSAssumption DEF Fingerprints
<1>4. OSType' /\ TriesCounted'
      BY <1>1, <1>2, MaxTriesType DEF OSInv, OSType, TriesCounted, maxTries
<1>5. /\ Len(rounds') = Len(rounds) + 1
      /\ rounds'[Len(rounds) + 1] = f
      /\ \A i \in 1..Len(rounds) : rounds'[i] = rounds[i]
      BY <1>2
<1>6. /\ \A i \in 1..Len(rounds) : rounds[i].matches =< best.matches
      /\ \A i \in 1..Len(rounds) : ~rounds[i].perfect
      BY <1>1, <1>2 DEF OSInv, BestRoundKept, Fingerprints
<1>7. \A i \in 1..Len(rounds') : (rounds'[i]).matches =< best'.matches
      BY <1>2, <1>3, <1>5, <1>6 DEF Better
<1>8. best' # None =>
        \E i \in 1..Len(rounds') : best' = rounds'[i] /\ \A j \in 1..(i - 1) : (rounds'[j]).matches < best'.matches
      <2>1. CASE Better(f)
            <3>1. best' = rounds'[Len(rounds) + 1]
                  BY <2>1, <1>5
            <3>2. \A j \in 1..Len(rounds) : (rounds'[j]).matches < best'.matches
                  BY <2>1, <1>3, <1>5, <1>6 DEF Better
            <3>3. Len(rounds) \in Nat
                  BY <1>2
            <3>. QED BY <3>1, <3>2, <3>3, <1>5
      <2>2. CASE ~Better(f) /\ best # None
            <3>1. PICK i \in 1..Len(rounds) : best = rounds[i] /\ \A j \in 1..(i - 1) : rounds[j].matches < best.matches
                  BY <2>2 DEF OSInv, BestRoundKept
            <3>2. best' = best /\ i \in 1..Len(rounds') /\ best' = rounds'[i]
                  BY <2>2, <3>1, <1>2, <1>5
            <3>3. \A j \in 1..(i - 1) : (rounds'[j]).matches < best'.matches
                  BY <3>1, <3>2, <1>2, <1>5
            <3>. QED BY <3>2, <3>3
      <2>. QED BY <2>1, <2>2
<1>9. \A i \in 1..Len(rounds') : (rounds'[i]).perfect => i = Len(rounds') /\ osPc' = "done"
      BY <1>2, <1>5, <1>6
<1>10. osPc' = "done" => Len(rounds') > 0 /\ (rounds'[Len(rounds')]).perfect
      BY <1>2, <1>5 DEF Fingerprints
<1>11. rounds' # <<>>
      BY <1>2
<1>12. BestRoundKept'
      BY <1>1, <1>2, <1>7, <1>8, <1>9, <1>10, <1>11 DEF BestRoundKept, maxTries, None
<1>. QED BY <1>4, <1>12 DEF OSInv

\* A step that ends no round.
LEMMA RoundGoesOn ==
    ASSUME OSInv, UNCHANGED <<rounds, best>>, osPc # "done",
           OSType', TriesCounted',
           osPc' = "done" /\ osErr' = "nil" => Len(rounds) = maxTries \/ ctxDone',
           osErr' = "probe failed" => ctxDone' /\ Len(rounds) < maxTries
    PROVE  OSInv'
<1>1. /\ \A i \in 1..Len(rounds) : rounds[i].matches =< best.matches
      /\ best # None =>
           \E i \in 1..Len(rounds) : best = rounds[i] /\ \A j \in 1..(i - 1) : rounds[j].matches < best.matches
      /\ \A i \in 1..Len(rounds) : ~rounds[i].perfect
      BY DEF OSInv, BestRoundKept
<1>. QED BY <1>1 DEF OSInv, BestRoundKept, maxTries

LEMMA OSInvStep ==
    ASSUME OSInv, [Next]_vars
    PROVE  OSInv'
<1>. USE MaxTriesType
<1>1. ctxDone' \in {ctxDone, TRUE}
      BY ContextGrows DEF vars, ctxVars
<1>2. CASE UNCHANGED osVars
      BY <1>1, <1>2 DEF osVars, OSInv, OSType, TriesCounted, BestRoundKept, maxTries
<1>3. CASE OSDetection
      <2>. maxTries' = maxTries
            BY DEF maxTries
      <2>a. OSType /\ TriesCounted
            BY DEF OSInv
      <2>b. osPc # "done" => osErr = "nil"
            BY DEF OSInv, TriesCounted
      <2>c. rounds \in Seq(Fingerprints)
            BY DEF OSInv, OSType
      <2>1. ASSUME NEW closed, DetectOS(closed) PROVE OSInv'
            <3>0. /\ osPc = "idle" /\ UNCHANGED <<attempt, rounds, best, ctxDone>>
                  /\ \/ osPc' = "attempt" /\ osErr' = osErr
                     \/ osPc' = "done" /\ osErr' = "refused"
                  BY <2>1 DEF DetectOS, ctxVars
            <3>1. OSType' /\ TriesCounted'
                  BY <2>a, <3>0 DEF OSType, TriesCounted
            <3>2. osErr' # "probe failed" /\ ~(osPc' = "done" /\ osErr' = "nil")
                  BY <2>a, <3>0 DEF TriesCounted
            <3>. QED BY <3>0, <3>1, <3>2, RoundGoesOn
      <2>2. CASE Attempt
            <3>1. OSType' /\ TriesCounted' /\ UNCHANGED <<rounds, best>>
                  BY <2>2, <2>a DEF Attempt, ctxVars, OSType, TriesCounted
            <3>2. osPc' = "done" => Len(rounds) = maxTries \/ ctxDone'
                  BY <2>2, <2>a DEF Attempt, ctxVars, OSType, TriesCounted
            <3>. QED BY <2>2, <2>b, <3>1, <3>2, RoundGoesOn DEF Attempt, ctxVars
      <2>3. CASE RoundFails
            <3>0. /\ osPc = "check" /\ UNCHANGED <<rounds, best>> /\ attempt' = attempt + 1
                  /\ \/ osPc' = "done" /\ osErr' = "probe failed"
                     \/ osPc' = "attempt" /\ osErr' = osErr
                  BY <2>3 DEF RoundFails
            <3>4. ctxDone = TRUE /\ ctxDone' = TRUE
                  BY <2>3, <2>a DEF RoundFails, ctxVars, OSType
            <3>1. attempt < maxTries /\ attempt \in 0..maxTries /\ Len(rounds) =< attempt /\ osErr = "nil"
                  BY <2>a, <3>0 DEF OSType, TriesCounted
            <3>2. Len(rounds) < maxTries /\ Len(rounds) =< attempt' /\ attempt' \in 0..maxTries
                  <4>1. Len(rounds) \in Nat
                        BY <2>c
                  <4>2. attempt' = attempt + 1
                        BY <3>0
                  <4>3. attempt < maxTries /\ attempt \in 0..maxTries /\ Len(rounds) =< attempt
                        BY <3>1
                  <4>. QED BY <4>1, <4>2, <4>3
            <3>3. OSType' /\ TriesCounted'
                  BY <2>a, <3>0, <3>4, <3>1, <3>2 DEF OSType, TriesCounted
            <3>. QED BY <3>0, <3>4, <3>1, <3>2, <3>3, RoundGoesOn
      <2>4. CASE CheckRound
            <3>1. OSType' /\ TriesCounted' /\ UNCHANGED <<rounds, best, osErr, ctxDone>>
                  BY <2>4, <2>a DEF CheckRound, ctxVars, OSType, TriesCounted
            <3>. QED BY <2>4, <2>b, <3>1, RoundGoesOn DEF CheckRound
      <2>5. CASE SendOSProbe
            <3>1. OSType' /\ TriesCounted' /\ UNCHANGED <<rounds, best, osErr, ctxDone>>
                  BY <2>5, <2>a DEF SendOSProbe, Sends, ctxVars, OSType, TriesCounted
            <3>. QED BY <2>5, <2>b, <3>1, RoundGoesOn DEF SendOSProbe
      <2>6. CASE Match
            BY <2>6, MatchStep
      <2>. QED BY <1>3, <2>1, <2>2, <2>3, <2>4, <2>5, <2>6 DEF OSDetection, OSStep
<1>4. CASE ~OSDetection
      <2>1. UNCHANGED osVars
            BY <1>4 DEF Next, Main, LoadTargets, ListMode, ParseOptions, ScanRanges, ScanTarget,
                        PrintReport, NextStage, Goto, analysisVars, Banners, Trace, Scripts,
                        ScriptWorker, Network, Signal, Exited, vars
      <2>. QED BY <1>2, <2>1
<1>. QED BY <1>3, <1>4

\* Whatever the rounds answer and whenever Ctrl-C comes, DetectOS returns the
\* first of its rounds with the most matches, for any number of tries
\* (osdetect.go:194-253).
THEOREM BestRoundCorrect == Spec => []BestRoundKept
<1>1. Init => OSInv
      <2>. SUFFICES ASSUME Init PROVE OSInv
            OBVIOUS
      <2>1. /\ osPc = "idle" /\ rounds = <<>> /\ best = None /\ attempt = 0 /\ osErr = "nil"
            /\ ctxDone = FALSE
            BY DEF Init, OSInit, CtxInit
      <2>2. None \in Fingerprints
            BY OSAssumption DEF Fingerprints, None
      <2>3. rounds \in Seq(Fingerprints) /\ Len(rounds) = 0
            BY <2>1
      <2>4. BestRoundKept
            BY <2>1 DEF BestRoundKept
      <2>5. attempt \in 0..maxTries /\ Len(rounds) =< attempt /\ Len(rounds) = attempt
            BY <2>1, <2>3, MaxTriesType
      <2>6. OSType
            BY <2>1, <2>2, <2>3, <2>5 DEF OSType
      <2>7. TriesCounted
            BY <2>1, <2>5 DEF TriesCounted
      <2>. QED BY <2>4, <2>6, <2>7 DEF OSInv
<1>2. OSInv => BestRoundKept
      BY DEF OSInv
<1>. QED BY <1>1, <1>2, OSInvStep, PTL DEF Spec

-----------------------------------------------------------------------------
(* The traced path.  An answer under way comes from a router no farther than *)
(* the probe that waits was sent, so from none farther than any later one.   *)

Names == {NoHost, Loopback} \cup Others \cup {Path[i] : i \in 1..Len(Path)}

TrType ==
    /\ trPc \in {"idle", "hop", "try", "send", "wait", "done"}
    /\ ttl \in Nat
    /\ hops \in Seq(Names)
    /\ ipv6 \in BOOLEAN
    /\ inflight \subseteq 0..Len(Path)
    /\ ctxDone \in BOOLEAN

UnderWay ==
    /\ \A i \in inflight : i =< ttl /\ (i = 0 <=> ipv6)
    /\ trPc \in {"try", "send", "wait"} => ttl =< MaxHops
    /\ trPc \in {"idle", "hop"} => ttl =< MaxHops + 1
    /\ trPc = "idle" => hops = <<>> /\ inflight = {}
    /\ trPc # "done" => \A i \in 1..Len(hops) : ipv6 \/ hops[i] # TargetHost
    /\ trErr = "context" => ctxDone

TrInv == TrType /\ UnderWay /\ HopsExplained

LEMMA HopStep ==
    ASSUME TrInv, NEW h, Hop(h), trPc \in {"try", "wait"}, UNCHANGED <<ipv6, trErr, ctxDone>>,
           inflight' \subseteq inflight, misled \subseteq misled',
           \/ h = NoHost
           \/ h \in Names /\ ttl \in misled'
           \/ \E i \in inflight : h = HostAt(i)
    PROVE  TrInv'
<1>1. /\ hops' = Append(hops, h) /\ ttl' = ttl + 1
      /\ trPc' = IF h = TargetHost /\ ~ipv6 THEN "done" ELSE "hop"
      BY DEF Hop
<1>2. /\ ttl \in Nat /\ ttl =< MaxHops /\ Len(hops) = ttl - 1 /\ MaxHops \in Nat
      /\ hops \in Seq(Names)
      /\ Len(Path) \in Nat \ {0}
      /\ ipv6 \in BOOLEAN
      BY TraceAssumption DEF TrInv, TrType, UnderWay, HopsExplained
<1>3. /\ h \in Names
      /\ \/ h = NoHost
         \/ ttl \in misled'
         \/ ipv6 /\ h = Loopback
         \/ ~ipv6 /\ \E j \in 1..ttl : j =< Len(Path) /\ h = Path[j]
      <2>1. ASSUME NEW i \in inflight, h = HostAt(i)
            PROVE  IF ipv6 THEN h = Loopback ELSE i \in 1..ttl /\ i =< Len(Path) /\ h = Path[i]
            <3>1. i \in 0..Len(Path) /\ i =< ttl /\ (i = 0 <=> ipv6)
                  BY <2>1 DEF TrInv, TrType, UnderWay
            <3>. QED BY <2>1, <3>1, <1>2 DEF HostAt
      <2>2. CASE \E i \in inflight : h = HostAt(i)
            BY <1>2, <2>1, <2>2 DEF Names
      <2>. QED BY <2>2 DEF Names
<1>4. /\ Len(hops') = ttl /\ hops'[ttl] = h
      /\ \A i \in 1..(ttl - 1) : hops'[i] = hops[i] /\ (ipv6 \/ hops[i] # TargetHost)
      BY <1>1, <1>2, <1>3 DEF TrInv, UnderWay
<1>5. ~ipv6 /\ h = TargetHost => ttl \in misled' \/ ttl >= Len(Path)
      <2>1. TargetHost # NoHost
            BY <1>2, TraceAssumption DEF TargetHost
      <2>2. ASSUME NEW j \in 1..ttl, j =< Len(Path), Path[j] = TargetHost
            PROVE  ttl >= Len(Path)
            <3>1. j = Len(Path)
                  BY <2>2, <1>2, TraceAssumption DEF TargetHost
            <3>. QED BY <3>1, <1>2
      <2>. QED BY <1>3, <2>1, <2>2
<1>6. TrType'
      BY <1>1, <1>2, <1>3 DEF TrInv, TrType
<1>7. UnderWay'
      <2>1. \A i \in inflight' : i =< ttl' /\ (i = 0 <=> ipv6')
            BY <1>1, <1>2 DEF TrInv, TrType, UnderWay
      <2>2. trPc' # "done" => \A i \in 1..Len(hops') : ipv6 \/ hops'[i] # TargetHost
            BY <1>1, <1>2, <1>4
      <2>. QED BY <1>1, <1>2, <2>1, <2>2 DEF TrInv, UnderWay, TargetHost
<1>8. \A i \in 1..Len(hops') :
         \/ hops'[i] = NoHost
         \/ i \in misled'
         \/ ipv6 /\ hops'[i] = Loopback
         \/ ~ipv6 /\ \E j \in 1..i : j =< Len(Path) /\ hops'[i] = Path[j]
      <2>. TAKE i \in 1..Len(hops')
      <2>1. CASE i = ttl
            BY <2>1, <1>3, <1>4
      <2>2. CASE i \in 1..(ttl - 1)
            <3>1. \/ hops[i] = NoHost
                  \/ i \in misled
                  \/ ipv6 /\ hops[i] = Loopback
                  \/ ~ipv6 /\ \E j \in 1..i : j =< Len(Path) /\ hops[i] = Path[j]
                  BY <2>2, <1>2 DEF TrInv, HopsExplained
            <3>. QED BY <2>2, <3>1, <1>4
      <2>. QED BY <2>1, <2>2, <1>2, <1>4
<1>9. \A i \in 1..Len(hops') :
         ~ipv6 /\ hops'[i] = TargetHost => i = Len(hops') /\ (i \in misled' \/ i >= Len(Path))
      BY <1>2, <1>4, <1>5
<1>10. trPc' = "done" => ~ipv6 /\ hops' # <<>> /\ hops'[Len(hops')] = TargetHost
      BY <1>1, <1>2, <1>4
<1>11. HopsExplained'
      BY <1>1, <1>2, <1>4, <1>8, <1>9, <1>10 DEF HopsExplained, TargetHost
<1>. QED BY <1>6, <1>7, <1>11 DEF TrInv

\* A step that records no hop.
LEMMA TryStep ==
    ASSUME TrInv, UNCHANGED <<ttl, hops, misled>>, trPc # "done",
           ctxDone' \in {ctxDone, TRUE},
           \/ UNCHANGED ipv6 /\ inflight' \subseteq inflight \cup {Answerer(ttl)}
           \/ trPc = "idle" /\ ipv6' \in BOOLEAN /\ UNCHANGED inflight,
           trPc' \in {"hop", "try", "send", "wait"}, UNCHANGED trErr,
           trPc' # "hop" => ttl =< MaxHops
    PROVE  TrInv'
<1>1. /\ ttl \in Nat /\ ttl >= 1 /\ Len(Path) \in Nat \ {0} /\ MaxHops \in Nat /\ Len(hops) \in Nat
      /\ trPc = "idle" => inflight = {} /\ Len(hops) = 0
      BY TraceAssumption DEF TrInv, TrType, UnderWay, HopsExplained
<1>2. Answerer(ttl) \in 0..Len(Path) /\ Answerer(ttl) =< ttl /\ (Answerer(ttl) = 0 <=> ipv6)
      BY <1>1 DEF Answerer
<1>3. TrType'
      BY <1>1, <1>2 DEF TrInv, TrType
<1>4. UnderWay'
      <2>1. \A i \in inflight' : i =< ttl' /\ (i = 0 <=> ipv6')
            BY <1>1, <1>2 DEF TrInv, UnderWay
      <2>2. trPc' = "hop" => ttl =< MaxHops + 1
            BY <1>1 DEF TrInv, TrType, UnderWay
      <2>3. trErr' = "context" => ctxDone'
            BY DEF TrInv, UnderWay
      <2>4. \A i \in 1..Len(hops) : ipv6' \/ hops[i] # TargetHost
            BY <1>1 DEF TrInv, UnderWay
      <2>. QED BY <2>1, <2>2, <2>3, <2>4 DEF UnderWay, TargetHost
<1>5. HopsExplained'
      <2>1. CASE UNCHANGED ipv6
            BY <2>1 DEF TrInv, HopsExplained, TargetHost
      <2>2. CASE trPc = "idle"
            BY <1>1, <2>2 DEF TrInv, HopsExplained
      <2>. QED BY <2>1, <2>2
<1>. QED BY <1>3, <1>4, <1>5 DEF TrInv

LEMMA TrInvStep ==
    ASSUME TrInv, [Next]_vars
    PROVE  TrInv'
<1>1. ctxDone' \in {ctxDone, TRUE}
      BY ContextGrows DEF vars, ctxVars
<1>2. /\ ttl \in Nat /\ MaxHops \in Nat
      /\ trPc \in {"try", "send", "wait"} => ttl =< MaxHops
      BY TraceAssumption DEF TrInv, TrType, UnderWay
<1>3. CASE UNCHANGED trVars
      BY <1>1, <1>3 DEF trVars, TrInv, TrType, UnderWay, HopsExplained, TargetHost
<1>4. CASE StartTrace \/ NextHop
      <2>1. UNCHANGED <<ttl, hops, inflight, misled, ctxDone>> /\ trPc # "done"
            BY <1>4 DEF StartTrace, NextHop, foreignVars, ctxVars
      <2>2. CASE trPc' = "done"
            <3>1. \/ trErr' = "resolve"
                  \/ trErr' = "context" /\ ctxDone
                  \/ UNCHANGED trErr /\ trPc = "hop" /\ ttl > MaxHops
                  BY <1>2, <1>4, <2>2 DEF StartTrace, NextHop
            <3>2. TrType' /\ UnderWay'
                  <4>1. UNCHANGED ipv6
                        BY <1>4, <2>2 DEF StartTrace, NextHop
                  <4>. QED BY <2>1, <2>2, <3>1, <4>1 DEF TrInv, TrType, UnderWay
            <3>3. trErr' # "resolve" => Len(hops) = MaxHops \/ (trErr' = "context" /\ ctxDone)
                  <4>1. Len(hops) = ttl - 1 /\ (trPc = "hop" => ttl =< MaxHops + 1)
                        BY DEF TrInv, UnderWay, HopsExplained
                  <4>2. trPc = "hop" /\ ttl > MaxHops => Len(hops) = MaxHops
                        BY <1>2, <4>1
                  <4>3. CASE trErr' = "context" /\ ctxDone
                        BY <4>3
                  <4>4. CASE trPc = "hop" /\ ttl > MaxHops
                        BY <4>2, <4>4
                  <4>. QED BY <3>1, <4>3, <4>4
            <3>4. HopsExplained'
                  <4>1. UNCHANGED ipv6
                        BY <1>4, <2>2 DEF StartTrace, NextHop
                  <4>. QED BY <2>1, <2>2, <3>3, <4>1 DEF TrInv, HopsExplained, TargetHost
            <3>. QED BY <3>2, <3>4 DEF TrInv
      <2>3. CASE trPc' # "done"
            <3>1. UNCHANGED trErr /\ trPc' \in {"hop", "try"} /\ (trPc' # "hop" => ttl =< MaxHops)
                  BY <1>4, <2>3 DEF StartTrace, NextHop
            <3>2. UNCHANGED ipv6 \/ (trPc = "idle" /\ ipv6' \in BOOLEAN)
                  BY <1>4 DEF StartTrace, NextHop
            <3>. QED BY <1>1, <1>2, <2>1, <3>1, <3>2, TryStep
      <2>. QED BY <2>2, <2>3
<1>5. CASE GiveUpHop
      BY <1>2, <1>5, HopStep DEF GiveUpHop, foreignVars, ctxVars
<1>6. CASE CheckTry \/ SendProbe \/ TimeOutTry
      <2>1. /\ UNCHANGED <<ipv6, ttl, hops, misled, trErr>> /\ trPc \in {"try", "send", "wait"}
            /\ trPc' \in {"try", "send", "wait"}
            /\ inflight' \subseteq inflight \cup {Answerer(ttl)}
            BY <1>6 DEF CheckTry, SendProbe, TimeOutTry, FailTry, foreignVars
      <2>2. ttl =< MaxHops
            BY <1>2, <2>1
      <2>. QED BY <1>1, <2>1, <2>2, TryStep
<1>7. CASE Answered
      <2>1. PICK i \in inflight : TakeICMP(HostAt(i)) /\ inflight' = inflight \ {i} /\ UNCHANGED misled
            BY <1>7 DEF Answered, foreignVars
      <2>. QED BY <2>1, HopStep DEF TakeICMP, ctxVars
<1>8. CASE ForeignICMP
      <2>1. CASE UNCHANGED inflight /\ misled' = misled \cup {ttl} /\ \E h \in Names : TakeICMP(h)
            BY <2>1, HopStep DEF TakeICMP, ctxVars
      <2>2. CASE /\ trPc = "wait" /\ trPc' \in {"try", "wait"}
                 /\ UNCHANGED <<ipv6, ttl, hops, inflight, misled, trErr, ctxVars>>
            <3>1. ttl =< MaxHops
                  BY <1>2, <2>2
            <3>. QED BY <1>1, <2>2, <3>1, TryStep
      <2>3. Others \cup {Loopback} \cup {Path[i] : i \in 1..Len(Path)} \subseteq Names
            BY DEF Names
      <2>. QED BY <1>8, <2>1, <2>2, <2>3 DEF ForeignICMP, FailTry
<1>9. CASE LoseICMP
      <2>1. /\ UNCHANGED <<trPc, ipv6, ttl, hops, misled, trErr>> /\ inflight' \subseteq inflight
            /\ trPc \notin {"idle", "done"}
            BY <1>9 DEF LoseICMP, foreignVars
      <2>2. trPc \in {"hop", "try", "send", "wait"}
            BY <2>1 DEF TrInv, TrType
      <2>3. trPc # "hop" => ttl =< MaxHops
            BY <1>2, <2>1, <2>2
      <2>. QED BY <1>1, <2>1, <2>2, <2>3, TryStep
<1>10. CASE ~(StartTrace \/ TrStep \/ ForeignICMP \/ LoseICMP)
      <2>1. UNCHANGED trVars
            BY <1>10 DEF Next, Main, LoadTargets, ListMode, ParseOptions, ScanRanges, ScanTarget,
                         PrintReport, NextStage, Goto, analysisVars, Banners, OSDetection, Trace,
                         Scripts, ScriptWorker, Network, Signal, Exited, vars
      <2>. QED BY <1>3, <2>1
<1>. QED BY <1>4, <1>5, <1>6, <1>7, <1>8, <1>9, <1>10 DEF TrStep

\* A traced hop is explained for any path, any number of retries and any
\* ICMP traffic of any host; the target is the last hop or none
\* (traceroute.go:92-104, traceroute_linux.go:59-100).
THEOREM HopsCorrect == Spec => []HopsExplained
<1>1. Init => TrInv
      <2>. SUFFICES ASSUME Init PROVE TrInv
            OBVIOUS
      <2>1. /\ trPc = "idle" /\ ttl = 1 /\ hops = <<>> /\ inflight = {} /\ ipv6 = FALSE
            /\ trErr = "nil" /\ ctxDone = FALSE
            BY DEF Init, TrInit, CtxInit
      <2>2. hops \in Seq(Names) /\ Len(hops) = 0 /\ MaxHops \in Nat
            BY <2>1, TraceAssumption
      <2>3. TrType
            BY <2>1, <2>2 DEF TrType
      <2>4. UnderWay
            <3>1. ttl =< MaxHops + 1
                  BY <2>1, <2>2
            <3>2. \A i \in 1..Len(hops) : FALSE
                  BY <2>2
            <3>. QED BY <2>1, <3>1, <3>2 DEF UnderWay
      <2>5. HopsExplained
            BY <2>1, <2>2 DEF HopsExplained
      <2>. QED BY <2>3, <2>4, <2>5 DEF TrInv
<1>2. TrInv => HopsExplained
      BY DEF TrInv
<1>. QED BY <1>1, <1>2, TrInvStep, PTL DEF Spec
-----------------------------------------------------------------------------
(* Quiet after Ctrl-C.  Which analysis is under way is known from the stage; *)
(* a probe that is about to go out late was decided on before the interrupt, *)
(* when none was late.                                                       *)

Reached == Analyses \cup {"exit"}

Staged ==
    /\ svPc \notin {"idle", "done"} => stage = "banners"
    /\ osPc \notin {"idle", "done"} => stage = "os"
    /\ trPc \notin {"idle", "done"} => stage = "traceroute"
    /\ scPc \notin {"idle", "done"} => stage = "scripts"
    /\ \A w \in ScriptWorkers : at[w] # "gone" => scPc = "collect"

\* An analysis that was begun applies, so that it is left only when it is done.
Applied ==
    /\ svPc # "idle" => Applies("banners") /\ stage \in Reached
    /\ osPc # "idle" => Applies("os") /\ stage \in Reached
    /\ trPc # "idle" => Applies("traceroute") /\ stage \in Reached
    /\ scPc # "idle" => Applies("scripts") /\ stage \in Reached

LateType ==
    /\ ctxDone \in BOOLEAN
    /\ late \in Nat
    /\ closedPort \in BOOLEAN
    /\ at \in [ScriptWorkers -> {"gone", "range", "check", "run"}]
    /\ ~ctxDone => late = 0

\* The probes of a round, of which the first ones wait for a look at the context.
RoundQuiet ==
    /\ probe \in Nat
    /\ osPc = "send" /\ probe < SynProbes => late = 0
    /\ probe < SynProbes => late =< 1
    /\ probe >= SynProbes => late =< 1 + (probe - SynProbes)
    /\ osPc # "match" => probe < RoundLength
    /\ osPc = "match" => probe = RoundLength

Running == {w \in ScriptWorkers : at[w] = "run"}

Decided ==
    /\ svPc = "sent" => late = 0
    /\ trPc = "send" => late = 0
    /\ osPc \in {"check", "send", "match"} => RoundQuiet
    /\ Running # {} => late + Cardinality(Running) =< Cardinality(ScriptWorkers)

QuietInv == Staged /\ Applied /\ LateType /\ Decided /\ QuietAfterInterrupt

LEMMA AppliesStays ==
    ASSUME NEW a, UNCHANGED <<requested, osscanLimit, result>>, Applies(a)
    PROVE  Applies(a)'
<1>1. OpenPorts' = OpenPorts
      BY DEF OpenPorts
<1>. QED BY <1>1 DEF Applies, HasClosedPort

\* What a stage that is no analysis does, and Ctrl-C.
LEMMA FrameStep ==
    ASSUME QuietInv, UNCHANGED <<analysisVars, late>>, ctxDone' \in {ctxDone, TRUE}
    PROVE  (LateType /\ Decided /\ QuietAfterInterrupt)'
<1>1. LateType'
      BY DEF QuietInv, LateType, analysisVars, osVars, scVars
<1>2. Running' = Running
      BY DEF Running, analysisVars, scVars
<1>3. osPc \in {"check", "send", "match"} => RoundQuiet'
      BY DEF QuietInv, Decided, RoundQuiet, RoundLength, analysisVars, osVars
<1>4. Decided'
      BY <1>2, <1>3 DEF QuietInv, Decided, analysisVars, osVars, svVars, trVars
<1>5. QuietAfterInterrupt'
      BY DEF QuietInv, QuietAfterInterrupt, analysisVars, osVars, scVars
<1>. QED BY <1>1, <1>4, <1>5

LEMMA StageStep ==
    ASSUME QuietInv, UNCHANGED <<analysisVars, late>>,
           \/ LoadTargets \/ ListMode \/ ParseOptions \/ ScanRanges \/ ScanTarget
           \/ PrintReport \/ NextStage \/ Signal
    PROVE  QuietInv'
<1>1. ctxDone' \in {ctxDone, TRUE}
      BY DEF LoadTargets, ListMode, ParseOptions, ScanRanges, ScanTarget, PrintReport, NextStage,
             Signal, Goto, CtrlC, ctxVars
<1>2. LateType' /\ Decided' /\ QuietAfterInterrupt'
      BY <1>1, FrameStep
<1>3. UNCHANGED <<svPc, osPc, trPc, scPc, at>>
      BY DEF analysisVars, svVars, osVars, trVars, scVars
<1>4. CASE NextStage
      <2>1. UNCHANGED <<requested, osscanLimit, result>> /\ stage \in Analyses /\ Over(stage)
            BY <1>4 DEF NextStage, Goto
      <2>2. /\ stage = "banners" => svPc \in {"idle", "done"} /\ stage' = "os"
            /\ stage = "os" => osPc \in {"idle", "done"} /\ stage' = "traceroute"
            /\ stage = "traceroute" => trPc \in {"idle", "done"} /\ stage' = "scripts"
            /\ stage = "scripts" => scPc \in {"idle", "done"} /\ stage' = "exit"
            BY <1>4, <2>1 DEF NextStage, Goto, Over, QuietInv, Applied
      <2>3. Staged'
            BY <1>3, <2>1, <2>2 DEF QuietInv, Staged, Analyses
      <2>4. stage' \in Reached
            BY <2>1, <2>2 DEF Analyses, Reached
      <2>5. Applied'
            BY <1>3, <2>1, <2>4, AppliesStays DEF QuietInv, Applied
      <2>. QED BY <1>2, <2>3, <2>5 DEF QuietInv
<1>5. CASE Signal
      <2>1. UNCHANGED <<stage, requested, osscanLimit, result>>
            BY <1>5 DEF Signal, sessionVars
      <2>2. Staged' /\ Applied'
            BY <1>3, <2>1, AppliesStays DEF QuietInv, Staged, Applied
      <2>. QED BY <1>2, <2>2 DEF QuietInv
<1>6. CASE LoadTargets \/ ListMode \/ ParseOptions \/ ScanRanges \/ ScanTarget \/ PrintReport
      <2>1. stage \notin Reached
            BY <1>6 DEF LoadTargets, ListMode, ParseOptions, ScanRanges, ScanTarget, PrintReport,
                        Reached, Analyses
      <2>2. svPc = "idle" /\ osPc = "idle" /\ trPc = "idle" /\ scPc = "idle"
            BY <2>1 DEF QuietInv, Applied
      <2>3. Staged' /\ Applied'
            BY <1>3, <2>2 DEF QuietInv, Staged, Applied
      <2>. QED BY <1>2, <2>3 DEF QuietInv
<1>. QED BY <1>4, <1>5, <1>6

\* Version detection: what is sent was connected before the interrupt.
LEMMA BannersStep == QuietInv /\ Banners => QuietInv'
<1>. SUFFICES ASSUME QuietInv, Banners PROVE QuietInv'
      OBVIOUS
<1>1. /\ stage = "banners" /\ UNCHANGED <<stage, requested, osscanLimit, result>>
      /\ UNCHANGED <<osPc, closedPort, probe, trPc, scPc, at>>
      BY DEF Banners, sessionVars, osVars, trVars, scVars
<1>2. /\ osPc \in {"idle", "done"} /\ trPc \in {"idle", "done"} /\ scPc \in {"idle", "done"}
      /\ Running = {} /\ Running' = {}
      BY <1>1 DEF QuietInv, Staged, Running
<1>3. Applies("banners") /\ stage \in Reached
      BY <1>1 DEF Banners, SvStep, ExaminePort, ProbesOver, CheckProbe, Dial, Ask, QuietInv,
                  Applied, Reached, Analyses
<1>4. Staged' /\ Applied'
      BY <1>1, <1>2, <1>3, AppliesStays DEF QuietInv, Staged, Applied
<1>5. /\ ctxDone' = ctxDone
      /\ \/ svPc' # "sent" /\ late' = late
         \/ svPc' = "sent" /\ ~ctxDone /\ late' = late
         \/ svPc = "sent" /\ svPc' # "sent" /\ late' = IF ctxDone THEN late + 1 ELSE late
      BY DEF Banners, GrabBanners, SvStep, ExaminePort, ProbesOver, CheckProbe, Dial, Ask, Sends,
             NextPort, ctxVars
<1>6. LateType'
      BY <1>1, <1>5 DEF QuietInv, LateType
<1>7. Decided'
      BY <1>1, <1>2, <1>5 DEF QuietInv, LateType, Decided
<1>8. QuietAfterInterrupt'
      BY <1>1, <1>5 DEF QuietInv, LateType, Decided, QuietAfterInterrupt
<1>. QED BY <1>4, <1>6, <1>7, <1>8 DEF QuietInv

\* The traced path.
LEMMA TraceStep == QuietInv /\ (Trace \/ Network) => QuietInv'
<1>. SUFFICES ASSUME QuietInv, Trace \/ Network PROVE QuietInv'
      OBVIOUS
<1>1. /\ stage = "traceroute" /\ UNCHANGED <<stage, requested, osscanLimit, result>>
      /\ UNCHANGED <<osPc, closedPort, probe, svPc, scPc, at>>
      BY DEF Trace, Network, sessionVars, osVars, svVars, scVars
<1>2. /\ osPc \in {"idle", "done"} /\ svPc \in {"idle", "done"} /\ scPc \in {"idle", "done"}
      /\ Running = {} /\ Running' = {}
      BY <1>1 DEF QuietInv, Staged, Running
<1>3. (Applies("traceroute") \/ UNCHANGED trPc) /\ stage \in Reached
      BY <1>1 DEF Trace, TrStep, NextHop, GiveUpHop, CheckTry, SendProbe, TimeOutTry, Answered,
                  TakeICMP, Network, ForeignICMP, LoseICMP, QuietInv, Applied, Reached, Analyses
<1>4. Staged' /\ Applied'
      BY <1>1, <1>2, <1>3, AppliesStays DEF QuietInv, Staged, Applied
<1>5. /\ ctxDone' = ctxDone
      /\ \/ (trPc' # "send" \/ UNCHANGED trPc) /\ late' = late
         \/ trPc' = "send" /\ ~ctxDone /\ late' = late
         \/ trPc = "send" /\ trPc' # "send" /\ late' = IF ctxDone THEN late + 1 ELSE late
      BY DEF Trace, StartTrace, TrStep, NextHop, GiveUpHop, Hop, CheckTry, SendProbe, TimeOutTry,
             FailTry, Answered, TakeICMP, Network, ForeignICMP, LoseICMP, Sends, ctxVars
<1>6. LateType'
      BY <1>1, <1>5 DEF QuietInv, LateType
<1>7. Decided'
      BY <1>1, <1>2, <1>5 DEF QuietInv, LateType, Decided
<1>8. QuietAfterInterrupt'
      BY <1>1, <1>5 DEF QuietInv, LateType, Decided, QuietAfterInterrupt
<1>. QED BY <1>4, <1>6, <1>7, <1>8 DEF QuietInv

\* Detection of the system: the last of the probes that wait for a look at the
\* context may be late, and all of those behind it.
LEMMA OSQuietStep == QuietInv /\ OSDetection => QuietInv'
<1>. SUFFICES ASSUME QuietInv, OSDetection PROVE QuietInv'
      OBVIOUS
<1>. USE OSAssumption
<1>1. /\ stage = "os" /\ UNCHANGED <<stage, requested, osscanLimit, result>>
      /\ UNCHANGED <<svPc, trPc, scPc, at>>
      BY DEF OSDetection, sessionVars, svVars, trVars, scVars
<1>2. /\ svPc \in {"idle", "done"} /\ trPc \in {"idle", "done"} /\ scPc \in {"idle", "done"}
      /\ Running = {} /\ Running' = {}
      BY <1>1 DEF QuietInv, Staged, Running
<1>3. Applies("os") /\ stage \in Reached
      BY <1>1 DEF OSDetection, OSStep, Attempt, RoundFails, CheckRound, SendOSProbe, Match,
                  QuietInv, Applied, Reached, Analyses
<1>4. Staged' /\ Applied'
      BY <1>1, <1>2, <1>3, AppliesStays DEF QuietInv, Staged, Applied
<1>5. LateType /\ (osPc \in {"check", "send", "match"} => RoundQuiet) /\ QuietAfterInterrupt
      BY DEF QuietInv, Decided
<1>6. ASSUME LateType', osPc' \in {"check", "send", "match"} => RoundQuiet', QuietAfterInterrupt'
      PROVE  QuietInv'
      <2>1. Decided'
            BY <1>1, <1>2, <1>6 DEF Decided
      <2>. QED BY <1>4, <1>6, <2>1 DEF QuietInv
<1>7. ASSUME NEW closed \in BOOLEAN, DetectOS(closed)
      PROVE  QuietInv'
      <2>1. /\ osPc = "idle" /\ osPc' \in {"attempt", "done"} /\ closedPort' \in BOOLEAN
            /\ UNCHANGED <<ctxDone, late, at, scPc>>
            BY <1>1, <1>7 DEF DetectOS, ctxVars
      <2>2. LateType' /\ QuietAfterInterrupt'
            BY <1>5, <2>1 DEF LateType, QuietAfterInterrupt
      <2>. QED BY <1>6, <2>1, <2>2
<1>8. CASE Attempt
      <2>1. /\ UNCHANGED <<ctxDone, late, closedPort, at, scPc>> /\ probe' = 0
            /\ osPc' \in {"check", "done"} /\ (osPc' = "check" => ~ctxDone)
            BY <1>1, <1>8 DEF Attempt, ctxVars
      <2>2. LateType' /\ QuietAfterInterrupt'
            BY <1>5, <1>8, <2>1 DEF LateType, QuietAfterInterrupt, Attempt
      <2>3. osPc' = "check" => RoundQuiet'
            BY <1>5, <2>1 DEF LateType, RoundQuiet, RoundLength
      <2>. QED BY <1>6, <2>1, <2>2, <2>3
<1>9. CASE RoundFails
      <2>1. /\ UNCHANGED <<ctxDone, late, closedPort, at, scPc>> /\ osPc = "check"
            /\ osPc' \in {"attempt", "done"}
            BY <1>1, <1>9 DEF RoundFails, ctxVars
      <2>2. LateType' /\ QuietAfterInterrupt'
            BY <1>5, <2>1 DEF LateType, QuietAfterInterrupt
      <2>. QED BY <1>6, <2>1, <2>2
<1>10. CASE CheckRound
      <2>1. /\ UNCHANGED <<ctxDone, late, closedPort, probe, at, scPc>> /\ osPc = "check"
            /\ osPc' = "send" /\ (probe < SynProbes => ~ctxDone)
            BY <1>1, <1>10 DEF CheckRound, ctxVars
      <2>2. LateType' /\ QuietAfterInterrupt'
            BY <1>5, <2>1 DEF LateType, QuietAfterInterrupt
      <2>3. RoundQuiet'
            BY <1>5, <2>1 DEF LateType, RoundQuiet, RoundLength
      <2>. QED BY <1>6, <2>2, <2>3
<1>11. CASE SendOSProbe
      <2>1. /\ UNCHANGED <<ctxDone, closedPort, at, scPc>> /\ osPc = "send" /\ probe' = probe + 1
            /\ late' = (IF ctxDone THEN late + 1 ELSE late)
            /\ osPc' = IF probe + 1 = RoundLength THEN "match" ELSE "check"
            BY <1>1, <1>11 DEF SendOSProbe, Sends
      <2>2. RoundQuiet /\ late \in Nat /\ probe \in Nat /\ probe < RoundLength
            BY <1>5, <2>1 DEF LateType, RoundQuiet
      <2>3. /\ late' \in Nat /\ late' =< late + 1
            /\ probe < SynProbes => late' =< 1
            /\ probe >= SynProbes => late' =< 1 + (probe + 1 - SynProbes)
            BY <2>1, <2>2 DEF RoundQuiet
      <2>4. LateType'
            BY <1>5, <2>1, <2>3 DEF LateType
      <2>5. RoundLength' = RoundLength /\ RoundLength \in Nat /\ probe + 1 =< RoundLength
            /\ (probe >= SynProbes => closedPort /\ probe + 1 =< SynProbes + ClosedProbes)
            BY <2>1, <2>2 DEF RoundLength
      <2>6. RoundQuiet'
            BY <2>1, <2>2, <2>3, <2>5 DEF RoundQuiet
      <2>7. QuietAfterInterrupt'
            BY <2>1, <2>2, <2>3, <2>5 DEF QuietAfterInterrupt
      <2>. QED BY <1>6, <2>4, <2>6, <2>7
<1>12. CASE Match
      <2>1. /\ UNCHANGED <<ctxDone, late, closedPort, at, scPc>> /\ osPc = "match"
            /\ osPc' \in {"attempt", "done"}
            BY <1>1, <1>12 DEF Match, ctxVars
      <2>2. LateType' /\ QuietAfterInterrupt'
            BY <1>5, <2>1 DEF LateType, QuietAfterInterrupt
      <2>. QED BY <1>6, <2>1, <2>2
<1>13. HasClosedPort \in BOOLEAN
       BY DEF HasClosedPort
<1>. QED BY <1>7, <1>8, <1>9, <1>10, <1>11, <1>12, <1>13 DEF OSDetection, OSStep

\* The scripts: a worker that is about to run one looked at the context before
\* the interrupt, so no more are late than there are workers.
LEMMA ScriptsStep ==
    QuietInv /\ (Scripts \/ \E w \in ScriptWorkers : ScriptWorker(w)) => QuietInv'
<1>. SUFFICES ASSUME QuietInv, Scripts \/ \E w \in ScriptWorkers : ScriptWorker(w) PROVE QuietInv'
      OBVIOUS
<1>1. /\ UNCHANGED <<stage, requested, osscanLimit, result>>
      /\ UNCHANGED <<osPc, closedPort, probe, svPc, trPc>>
      BY DEF Scripts, ScriptWorker, sessionVars, osVars, svVars, trVars
<1>2. /\ LateType /\ Staged /\ Applied /\ QuietAfterInterrupt
      /\ Running # {} => late + Cardinality(Running) =< Cardinality(ScriptWorkers)
      BY DEF QuietInv, Decided
<1>3. /\ IsFiniteSet(ScriptWorkers) /\ Cardinality(ScriptWorkers) \in Nat
      /\ IsFiniteSet(Running) /\ Cardinality(Running) \in Nat
      BY ScriptAssumption, FS_Subset, FS_CardinalityType DEF Running
<1>4. stage = "scripts" => /\ svPc \in {"idle", "done"} /\ osPc \in {"idle", "done"}
                           /\ trPc \in {"idle", "done"}
      BY <1>2 DEF Staged
\* Nothing is sent.
<1>5. ASSUME stage = "scripts", LateType', UNCHANGED <<late, ctxDone>>, scPc' # "idle",
             Running' # {} => late + Cardinality(Running') =< Cardinality(ScriptWorkers),
             \A w \in ScriptWorkers : at'[w] # "gone" => scPc' = "collect", Applies("scripts")
      PROVE  QuietInv'
      <2>1. Staged'
            BY <1>1, <1>2, <1>5 DEF Staged
      <2>2. Applied'
            BY <1>1, <1>2, <1>5, AppliesStays DEF Applied, Reached, Analyses
      <2>3. Decided'
            BY <1>1, <1>4, <1>5 DEF Decided
      <2>4. QuietAfterInterrupt'
            <3>1. late > 1 => \/ osPc # "idle" /\ closedPort /\ late =< 1 + ClosedProbes
                              \/ late =< Cardinality(ScriptWorkers)
                  BY <1>2 DEF QuietAfterInterrupt
            <3>. QED BY <1>1, <1>5, <3>1 DEF QuietAfterInterrupt
      <2>. QED BY <1>5, <2>1, <2>2, <2>3, <2>4 DEF QuietInv
<1>6. CASE Scripts
      <2>1. stage = "scripts" /\ UNCHANGED <<late, ctxDone>>
            BY <1>6 DEF Scripts, RunAllScripts, ScStep, StartScripts, ReturnOutputs, ctxVars
      <2>2. Applies("scripts") /\ scPc' # "idle"
            BY <1>2, <1>6 DEF Scripts, RunAllScripts, ScStep, StartScripts, ReturnOutputs, Applied
      <2>3. \/ UNCHANGED at /\ \A w \in ScriptWorkers : at[w] = "gone"
            \/ scPc' = "collect" /\ at' = [w \in ScriptWorkers |-> "range"]
            BY <1>2, <1>6 DEF Scripts, RunAllScripts, ScStep, StartScripts, ReturnOutputs, Staged
      <2>4. LateType'
            BY <1>1, <1>2, <2>1, <2>3 DEF LateType
      <2>5. Running' = {}
            BY <2>3 DEF Running
      <2>6. \A w \in ScriptWorkers : at'[w] # "gone" => scPc' = "collect"
            BY <2>3
      <2>. QED BY <1>5, <2>1, <2>2, <2>4, <2>5, <2>6
<1>7. ASSUME NEW w \in ScriptWorkers, ScriptWorker(w) PROVE QuietInv'
      <2>1. /\ at[w] # "gone" /\ UNCHANGED <<scPc, ctxDone>>
            /\ \E place \in {"gone", "range", "check", "run"} : at' = [at EXCEPT ![w] = place]
            BY <1>7 DEF ScriptWorker, ScWorker, TakeScript, NoMoreScripts, CheckScript, RunScript,
                        AfterRun, Move, Sends, ctxVars
      <2>2. scPc = "collect" /\ stage = "scripts" /\ Applies("scripts")
            BY <1>2, <2>1 DEF Staged, Applied
      <2>3. at' \in [ScriptWorkers -> {"gone", "range", "check", "run"}]
            BY <1>2, <2>1 DEF LateType
      <2>4. CASE TakeScript(w) \/ NoMoreScripts(w) \/ CheckScript(w)
            <3>1. UNCHANGED late
                  BY <2>4 DEF TakeScript, NoMoreScripts, CheckScript, ctxVars
            <3>2. LateType'
                  BY <1>1, <1>2, <2>1, <2>3, <3>1 DEF LateType
            <3>3. \/ Running' = Running
                  \/ ~ctxDone
                  BY <1>2, <2>4 DEF TakeScript, NoMoreScripts, CheckScript, Move, Running, LateType
            <3>4. Running' \subseteq ScriptWorkers
                  BY DEF Running
            <3>5. Cardinality(Running') =< Cardinality(ScriptWorkers) /\ Cardinality(Running') \in Nat
                  BY <1>3, <3>4, FS_Subset, FS_CardinalityType
            <3>6. Running' # {} => late + Cardinality(Running') =< Cardinality(ScriptWorkers)
                  <4>1. CASE Running' = Running
                        BY <1>2, <4>1
                  <4>2. CASE ~ctxDone
                        BY <1>2, <3>5, <4>2 DEF LateType
                  <4>. QED BY <3>3, <4>1, <4>2
            <3>. QED BY <1>5, <2>1, <2>2, <3>1, <3>2, <3>6
      <2>5. CASE RunScript(w)
            <3>1. /\ w \in Running /\ at' = [at EXCEPT ![w] = "range"]
                  /\ late' = (IF ctxDone THEN late + 1 ELSE late)
                  BY <2>5 DEF RunScript, Move, AfterRun, Sends, Running
            <3>2. Running' = Running \ {w}
                  BY <1>2, <3>1 DEF Running, LateType
            <3>3. Cardinality(Running') = Cardinality(Running) - 1
                  BY <1>3, <3>1, <3>2, FS_RemoveElement
            <3>4. late + Cardinality(Running) =< Cardinality(ScriptWorkers) /\ Cardinality(Running) > 0
                  BY <1>2, <1>3, <3>1, FS_EmptySet
            <3>5. /\ late' \in Nat /\ late' =< late + 1
                  /\ late' + Cardinality(Running') =< Cardinality(ScriptWorkers)
                  /\ late' =< Cardinality(ScriptWorkers)
                  BY <1>2, <1>3, <3>1, <3>3, <3>4 DEF LateType
            <3>6. LateType'
                  BY <1>1, <1>2, <2>1, <2>3, <3>1, <3>5 DEF LateType
            <3>7. Staged' /\ Applied'
                  BY <1>1, <1>2, <2>1, <2>2, AppliesStays DEF Staged, Applied
            <3>8. Decided'
                  BY <1>1, <1>4, <2>2, <3>5 DEF Decided
            <3>9. QuietAfterInterrupt'
                  BY <2>1, <2>2, <3>5 DEF QuietAfterInterrupt
            <3>. QED BY <3>6, <3>7, <3>8, <3>9 DEF QuietInv
      <2>. QED BY <1>7, <2>4, <2>5 DEF ScriptWorker, ScWorker
<1>. QED BY <1>6, <1>7

\* After Ctrl-C one more probe goes out at most, or the probes to the closed
\* port, or one script per worker, for any ports, database, path and scripts
\* (osdetect_linux.go:84-123, script.go:219-226).
THEOREM SoonQuiet == Spec => []QuietAfterInterrupt
<1>1. Init => QuietInv
      <2>. SUFFICES ASSUME Init PROVE QuietInv
            OBVIOUS
      <2>1. /\ svPc = "idle" /\ osPc = "idle" /\ trPc = "idle" /\ scPc = "idle" /\ late = 0
            /\ ctxDone = FALSE /\ closedPort = FALSE /\ at = [w \in ScriptWorkers |-> "gone"]
            BY DEF Init, CtxInit, SvInit, OSInit, TrInit, ScInit
      <2>2. Running = {}
            BY <2>1 DEF Running
      <2>3. Staged /\ Applied
            BY <2>1 DEF Staged, Applied
      <2>4. LateType
            BY <2>1 DEF LateType
      <2>5. Decided /\ QuietAfterInterrupt
            BY <2>1, <2>2 DEF Decided, QuietAfterInterrupt
      <2>. QED BY <2>3, <2>4, <2>5 DEF QuietInv
<1>2. QuietInv /\ [Next]_vars => QuietInv'
      <2>. SUFFICES ASSUME QuietInv, [Next]_vars PROVE QuietInv'
            OBVIOUS
      <2>1. CASE LoadTargets \/ ListMode \/ ParseOptions \/ ScanRanges \/ ScanTarget \/ PrintReport
                   \/ NextStage \/ Signal
            <3>1. UNCHANGED <<analysisVars, late>>
                  BY <2>1 DEF LoadTargets, ListMode, ParseOptions, ScanRanges, ScanTarget,
                              PrintReport, NextStage, Signal, Goto, CtrlC, ctxVars
            <3>. QED BY <2>1, <3>1, StageStep
      <2>2. CASE Exited \/ UNCHANGED vars
            <3>1. UNCHANGED <<analysisVars, late, ctxDone, stage, requested, osscanLimit, result>>
                  BY <2>2 DEF Exited, vars, sessionVars, ctxVars, analysisVars
            <3>2. Staged' /\ Applied'
                  BY <3>1, AppliesStays DEF QuietInv, Staged, Applied, analysisVars, svVars, osVars,
                                            trVars, scVars
            <3>. QED BY <3>1, <3>2, FrameStep DEF QuietInv
      <2>. QED BY <2>1, <2>2, BannersStep, OSQuietStep, TraceStep, ScriptsStep DEF Next, Main
<1>3. QuietInv => QuietAfterInterrupt
      BY DEF QuietInv
<1>. QED BY <1>1, <1>2, <1>3, PTL DEF Spec

-----------------------------------------------------------------------------
(* Counting. *)

\* Every index of a set is the k-th least for one k.
LEMMA NthExists ==
    ASSUME NEW n \in Nat, NEW S \in SUBSET (1..n), NEW k \in 1..Cardinality(S)
    PROVE  Nth(S, k) \in S /\ Cardinality({j \in S : j =< Nth(S, k)}) = k
<1>. DEFINE below(i) == {j \in S : j =< i}
            c == Cardinality(S)
            rank == [i \in S |-> Cardinality(below(i))]
<1>1. IsFiniteSet(S) /\ c \in Nat
      <2>1. IsFiniteSet(1..n)
            BY FS_Interval
      <2>2. IsFiniteSet(S)
            BY <2>1, FS_Subset
      <2>. QED BY <2>2, FS_CardinalityType
<1>2. ASSUME NEW i \in S
      PROVE  /\ IsFiniteSet(below(i)) /\ Cardinality(below(i)) \in Nat /\ Cardinality(below(i)) =< c
             /\ Cardinality(below(i)) # 0
      <2>1. below(i) \in SUBSET S /\ below(i) # {}
            BY <1>2
      <2>. HIDE DEF below
      <2>. QED BY <1>1, <2>1, FS_Subset, FS_CardinalityType, FS_EmptySet
<1>3. rank \in [S -> 1..c]
      <2>1. ASSUME NEW i \in S PROVE Cardinality(below(i)) \in 1..c
            <3>. HIDE DEF below, c
            <3>. QED BY <1>1, <1>2
      <2>. HIDE DEF below, c
      <2>. QED BY <2>1
<1>4. ASSUME NEW i \in S, NEW j \in S, i < j PROVE Cardinality(below(i)) # Cardinality(below(j))
      <2>1. below(i) \in SUBSET below(j) /\ j \in below(j) /\ j \notin below(i)
            <3>1. i \in Nat /\ j \in Nat /\ \A m \in S : m \in Nat
                  OBVIOUS
            <3>2. \A m \in below(i) : m \in below(j)
                  BY <1>4, <3>1
            <3>3. j \in below(j) /\ j \notin below(i)
                  BY <1>4, <3>1
            <3>. QED BY <3>2, <3>3
      <2>. HIDE DEF below
      <2>. QED BY <1>2, <2>1, FS_Subset
<1>5. rank \in Injection(S, 1..c)
      <2>1. ASSUME NEW i \in S, NEW j \in S, rank[i] = rank[j] PROVE i = j
            <3>1. Cardinality(below(i)) = Cardinality(below(j))
                  BY <2>1
            <3>2. i \in Nat /\ j \in Nat
                  OBVIOUS
            <3>. HIDE DEF below
            <3>. QED BY <1>4, <3>1, <3>2
      <2>. HIDE DEF rank
      <2>. QED BY <1>3, <2>1 DEF Injection, IsInjective
<1>6. Cardinality(1..c) = c /\ IsFiniteSet(1..c)
      BY <1>1, FS_Interval
<1>7. rank \in Surjection(S, 1..c)
      <2>. HIDE DEF rank
      <2>. QED BY <1>5, <1>6, FS_Injection
<1>8. PICK i \in S : rank[i] = k
      <2>. HIDE DEF rank
      <2>. QED BY <1>7 DEF Surjection
<1>9. \E x \in S : Cardinality({j \in S : j =< x}) = k
      BY <1>8
<1>. QED BY <1>9 DEF Nth

LEMMA TimesType ==
    ASSUME NEW s, Len(s) \in Nat, NEW T
    PROVE  IsFiniteSet({i \in 1..Len(s) : s[i] \in T}) /\ Times(s, T) \in Nat
<1>1. {i \in 1..Len(s) : s[i] \in T} \in SUBSET (1..Len(s)) /\ IsFiniteSet(1..Len(s))
      BY FS_Interval
<1>. QED BY <1>1, FS_Subset, FS_CardinalityType DEF Times

LEMMA TimesNone ==
    ASSUME NEW s, Len(s) \in Nat, NEW T, \A i \in 1..Len(s) : s[i] \notin T
    PROVE  Times(s, T) = 0
<1>1. {i \in 1..Len(s) : s[i] \in T} = {}
      OBVIOUS
<1>. QED BY <1>1, FS_EmptySet DEF Times

LEMMA TimesAppend ==
    ASSUME NEW A, NEW s \in Seq(A), NEW x \in A, NEW T
    PROVE  Times(Append(s, x), T) = Times(s, T) + (IF x \in T THEN 1 ELSE 0)
<1>. DEFINE t == Append(s, x)
            P == {i \in 1..Len(s) : s[i] \in T}
            Q == {i \in 1..Len(t) : t[i] \in T}
<1>1. /\ Len(s) \in Nat /\ Len(t) = Len(s) + 1 /\ t[Len(s) + 1] = x
      /\ \A i \in 1..Len(s) : t[i] = s[i]
      OBVIOUS
<1>. HIDE DEF t
<1>2. Q = IF x \in T THEN P \cup {Len(s) + 1} ELSE P
      BY <1>1
<1>3. Len(s) + 1 \notin P
      BY <1>1
<1>4. IsFiniteSet(P) /\ Cardinality(P) \in Nat
      BY <1>1, TimesType DEF Times
<1>5. Cardinality(Q) = Cardinality(P) + (IF x \in T THEN 1 ELSE 0)
      <2>. HIDE DEF P, Q
      <2>1. Cardinality(P \cup {Len(s) + 1}) = Cardinality(P) + 1
            BY <1>3, <1>4, FS_AddElement
      <2>. QED BY <1>2, <1>4, <2>1
<1>. QED BY <1>5 DEF Times, t

LEMMA TimesTail ==
    ASSUME NEW A, NEW s \in Seq(A), s # <<>>, NEW T
    PROVE  Times(s, T) = Times(Tail(s), T) + (IF Head(s) \in T THEN 1 ELSE 0)
<1>. DEFINE t == Tail(s)
            P == {i \in 1..Len(s) : s[i] \in T}
            Q == {i \in 1..Len(t) : t[i] \in T}
            f == [i \in Q |-> i + 1]
<1>1. /\ Len(s) \in Nat \ {0} /\ Len(t) = Len(s) - 1 /\ Head(s) = s[1]
      /\ \A i \in 1..Len(t) : t[i] = s[i + 1]
      OBVIOUS
<1>. HIDE DEF t
<1>2. IsFiniteSet(P) /\ Cardinality(P) \in Nat /\ IsFiniteSet(Q) /\ Cardinality(Q) \in Nat
      <2>1. Len(s) \in Nat /\ Len(t) \in Nat
            BY <1>1
      <2>2. IsFiniteSet(P) /\ Cardinality(P) \in Nat
            BY <2>1, TimesType DEF Times
      <2>3. IsFiniteSet(Q) /\ Cardinality(Q) \in Nat
            BY <2>1, TimesType DEF Times
      <2>. QED BY <2>2, <2>3
<1>3. f \in Bijection(Q, P \ {1})
      <2>1. ASSUME NEW i \in Q PROVE i + 1 \in P \ {1}
            BY <1>1, <2>1
      <2>2. ASSUME NEW j \in P \ {1} PROVE j - 1 \in Q /\ (j - 1) + 1 = j
            BY <1>1, <2>2
      <2>3. \A i \in Q : i \in Nat
            OBVIOUS
      <2>. HIDE DEF P, Q
      <2>4. f \in [Q -> P \ {1}]
            BY <2>1
      <2>5. \A i, j \in Q : f[i] = f[j] => i = j
            BY <2>3
      <2>6. \A j \in P \ {1} : \E i \in Q : f[i] = j
            BY <2>2
      <2>. HIDE DEF f
      <2>. QED BY <2>4, <2>5, <2>6 DEF Bijection, Injection, Surjection, IsInjective
<1>4. Cardinality(P \ {1}) = Cardinality(Q)
      <2>. HIDE DEF P, Q, f
      <2>. QED BY <1>2, <1>3, FS_Bijection DEF ExistsBijection
<1>5. 1 \in P <=> Head(s) \in T
      BY <1>1
<1>6. Cardinality(P) = Cardinality(Q) + (IF Head(s) \in T THEN 1 ELSE 0)
      <2>. HIDE DEF P, Q
      <2>1. Cardinality(P \ {1}) = IF 1 \in P THEN Cardinality(P) - 1 ELSE Cardinality(P)
            BY <1>2, FS_RemoveElement
      <2>. QED BY <1>2, <1>4, <1>5, <2>1
<1>. QED BY <1>6 DEF Times, t

\* Sorting neither loses an entry nor adds one.
LEMMA TimesSorted ==
    ASSUME NEW A, NEW s \in Seq(A), NEW out \in Sorted(s), NEW T
    PROVE  out \in Seq(A) /\ InOrder(out) /\ Times(out, T) = Times(s, T)
<1>. DEFINE n == Len(s)
            P == {i \in 1..Len(s) : s[i] \in T}
            Q == {i \in 1..Len(out) : out[i] \in T}
<1>0. n \in Nat
      OBVIOUS
<1>1. PICK perm \in Bijection(1..n, 1..n) : out = [k \in 1..n |-> s[perm[k]]]
      BY DEF Sorted
<1>2. perm \in [1..n -> 1..n] /\ \A w \in 1..n : \E v \in 1..n : perm[v] = w
      BY DEF Bijection, Injection, Surjection
<1>3. \A i \in 1..n : s[perm[i]] \in A
      <2>1. \A i \in 1..n : perm[i] \in 1..Len(s)
            BY <1>2
      <2>. QED BY <2>1, ElementOfSeq
<1>4. out \in Seq(A) /\ Len(out) = n /\ \A i \in 1..n : out[i] = s[perm[i]]
      BY <1>0, <1>1, <1>3
<1>5. \A i, j \in 1..n : perm[i] = perm[j] => i = j
      BY DEF Bijection, Injection, IsInjective
<1>. DEFINE f == [i \in Q |-> perm[i]]
<1>6. f \in Bijection(Q, P)
      <2>1. ASSUME NEW i \in Q PROVE perm[i] \in P
            BY <1>2, <1>4
      <2>2. ASSUME NEW j \in P PROVE \E i \in Q : perm[i] = j
            BY <1>2, <1>4
      <2>3. \A i, j \in Q : perm[i] = perm[j] => i = j
            BY <1>4, <1>5
      <2>. HIDE DEF P, Q
      <2>4. f \in [Q -> P] /\ (\A i, j \in Q : f[i] = f[j] => i = j) /\ \A j \in P : \E i \in Q : f[i] = j
            BY <2>1, <2>2, <2>3
      <2>. HIDE DEF f
      <2>. QED BY <2>4 DEF Bijection, Injection, Surjection, IsInjective
<1>7. IsFiniteSet(Q)
      BY <1>0, <1>4, TimesType
<1>8. Cardinality(P) = Cardinality(Q)
      <2>. HIDE DEF P, Q, f
      <2>. QED BY <1>6, <1>7, FS_Bijection DEF ExistsBijection
<1>9. InOrder(out)
      BY DEF Sorted
<1>. QED BY <1>4, <1>8, <1>9 DEF Times

-----------------------------------------------------------------------------
(* Version detection.  The ports of the report are different ones, and so    *)
(* are those still to be examined; a port that has a version is not among    *)
(* them any more.                                                            *)

Ports == ToSet(PortList)

ResultInv ==
    /\ result \in Seq([port : Ports, state : PortStates])
    /\ \A i, j \in 1..Len(result) : result[i].port = result[j].port => i = j

LEMMA ResultStep ==
    ASSUME ResultInv, [Next]_vars
    PROVE  ResultInv'
<1>1. CASE UNCHANGED result
      BY <1>1 DEF ResultInv
<1>2. ASSUME NEW S \in SUBSET (1..Len(PortList)), NEW state \in [S -> PortStates],
             result' = [k \in 1..Cardinality(S) |->
                           [port |-> PortList[Nth(S, k)], state |-> state[Nth(S, k)]]]
      PROVE  ResultInv'
      <2>. DEFINE n == Len(PortList)
                  c == Cardinality(S)
                  entry(k) == [port |-> PortList[Nth(S, k)], state |-> state[Nth(S, k)]]
      <2>1. PortList \in Seq(Ports) /\ n \in Nat /\ \A i, j \in 1..n : PortList[i] = PortList[j] => i = j
            BY SessionAssumption DEF IsInjective, Ports, ToSet
      <2>2. IsFiniteSet(S) /\ c \in Nat
            <3>1. IsFiniteSet(1..n)
                  BY <2>1, FS_Interval
            <3>2. IsFiniteSet(S)
                  BY <3>1, FS_Subset
            <3>. QED BY <3>2, FS_CardinalityType
      <2>3. \A k \in 1..c : Nth(S, k) \in S /\ Nth(S, k) \in 1..n /\ Cardinality({j \in S : j =< Nth(S, k)}) = k
            BY <2>1, NthExists
      <2>. HIDE DEF c, n
      <2>4. \A k \in 1..c : entry(k) \in [port : Ports, state : PortStates]
            <3>1. \A k \in 1..c : PortList[Nth(S, k)] \in Ports
                  BY <2>1, <2>3, ElementOfSeq DEF n
            <3>2. \A k \in 1..c : state[Nth(S, k)] \in PortStates
                  BY <2>3
            <3>. QED BY <3>1, <3>2
      <2>5. result' = [k \in 1..c |-> entry(k)]
            BY <1>2 DEF c
      <2>6. \A k, l \in 1..c : entry(k).port = entry(l).port => k = l
            <3>1. \A k, l \in 1..c : Nth(S, k) = Nth(S, l) => k = l
                  BY <2>3
            <3>2. \A k \in 1..c : entry(k).port = PortList[Nth(S, k)]
                  OBVIOUS
            <3>. QED BY <2>1, <2>3, <3>1, <3>2
      <2>. HIDE DEF entry
      <2>. QED BY <2>2, <2>4, <2>5, <2>6 DEF ResultInv
<1>3. CASE ScanTarget
      BY <1>1, <1>2, <1>3 DEF ScanTarget
<1>4. CASE ~ScanTarget
      <2>1. UNCHANGED result
            BY <1>4 DEF Next, Main, LoadTargets, ListMode, ParseOptions, ScanRanges, PrintReport,
                        NextStage, Banners, OSDetection, Trace, Scripts, ScriptWorker, Network,
                        Signal, Exited, sessionVars, vars
      <2>. QED BY <1>1, <2>1
<1>. QED BY <1>3, <1>4

LEMMA OpenPortsDistinct ==
    ASSUME ResultInv
    PROVE  OpenPorts \in Seq(Ports) /\ \A k, l \in 1..Len(OpenPorts) : OpenPorts[k] = OpenPorts[l] => k = l
<1>. DEFINE n == Len(result)
            S == {i \in 1..n : result[i].state = "open"}
            c == Cardinality(S)
            g == [k \in 1..c |-> result[Nth(S, k)].port]
<1>1. /\ n \in Nat
      /\ \A i, j \in 1..n : result[i].port = result[j].port => i = j
      /\ \A i \in 1..n : result[i].port \in Ports
      <2>1. result \in Seq([port : Ports, state : PortStates])
            BY DEF ResultInv
      <2>2. \A i \in 1..n : result[i] \in [port : Ports, state : PortStates]
            BY <2>1, ElementOfSeq
      <2>. QED BY <2>1, <2>2 DEF ResultInv
<1>2. S \in SUBSET (1..n) /\ c \in Nat
      <2>1. IsFiniteSet(1..n)
            BY <1>1, FS_Interval
      <2>2. S \in SUBSET (1..n)
            OBVIOUS
      <2>. HIDE DEF S
      <2>3. IsFiniteSet(S)
            BY <2>1, <2>2, FS_Subset
      <2>. QED BY <2>2, <2>3, FS_CardinalityType
<1>3. OpenPorts = g
      BY DEF OpenPorts, OpenOf
<1>. HIDE DEF S, n
<1>4. \A k \in 1..c : Nth(S, k) \in S /\ Nth(S, k) \in 1..n /\ Cardinality({j \in S : j =< Nth(S, k)}) = k
      BY <1>1, <1>2, NthExists
<1>. HIDE DEF c
<1>5. \A k \in 1..c : result[Nth(S, k)].port \in Ports
      BY <1>1, <1>4
<1>6. g \in Seq(Ports) /\ Len(g) = c /\ \A k \in 1..c : g[k] = result[Nth(S, k)].port
      BY <1>2, <1>5
<1>7. \A k, l \in 1..c : Nth(S, k) = Nth(S, l) => k = l
      BY <1>4
<1>8. \A k, l \in 1..c : g[k] = g[l] => k = l
      BY <1>1, <1>4, <1>6, <1>7
<1>. HIDE DEF g
<1>. QED BY <1>3, <1>6, <1>8

\* A list of different ports without its first one.
LEMMA TailDistinct ==
    ASSUME NEW s \in Seq(Ports), s # <<>>, \A i, j \in 1..Len(s) : s[i] = s[j] => i = j
    PROVE  /\ Tail(s) \in Seq(Ports)
           /\ \A i, j \in 1..Len(Tail(s)) : Tail(s)[i] = Tail(s)[j] => i = j
           /\ Head(s) \in ToSet(s) /\ Head(s) \notin ToSet(Tail(s)) /\ ToSet(Tail(s)) \subseteq ToSet(s)
<1>1. /\ Len(s) \in Nat \ {0} /\ Tail(s) \in Seq(Ports) /\ Len(Tail(s)) = Len(s) - 1 /\ Head(s) = s[1]
      /\ \A i \in 1..Len(Tail(s)) : Tail(s)[i] = s[i + 1]
      OBVIOUS
<1>2. DOMAIN s = 1..Len(s) /\ DOMAIN Tail(s) = 1..Len(Tail(s))
      BY <1>1
<1>3. \A i \in 1..Len(Tail(s)) : i + 1 \in 1..Len(s) /\ i + 1 # 1 /\ i \in Nat
      BY <1>1
<1>4. 1 \in 1..Len(s)
      BY <1>1
<1>. QED BY <1>1, <1>2, <1>3, <1>4 DEF ToSet

\* Every sequence is one of its own elements.
LEMMA AppendAny ==
    ASSUME NEW s, s \in Seq(ToSet(s)), NEW x
    PROVE  /\ Append(s, x) \in Seq(ToSet(Append(s, x))) /\ Len(Append(s, x)) = Len(s) + 1
           /\ Len(s) \in Nat /\ Append(s, x)[Len(s) + 1] = x
           /\ \A i \in 1..Len(s) : Append(s, x)[i] = s[i]
<1>. DEFINE B == ToSet(s) \cup {x}
            t == Append(s, x)
<1>1. s \in Seq(B) /\ x \in B
      OBVIOUS
<1>2. /\ t \in Seq(B) /\ Len(t) = Len(s) + 1 /\ Len(s) \in Nat /\ t[Len(s) + 1] = x
      /\ \A i \in 1..Len(s) : t[i] = s[i]
      <2>. HIDE DEF B
      <2>. QED BY <1>1
<1>. HIDE DEF t
<1>3. t \in Seq(ToSet(t))
      BY <1>2 DEF ToSet
<1>. QED BY <1>2, <1>3 DEF t

\* The answers among the first n that a version may rest on.
MatchesTo(n, answers) == {i \in 1..n : Fits(answers[i])}

\* The versions are those of the answers that fit, in order.  As the code has
\* it, a soft match is recorded as well as a hard one.
Recorded(found, answers) ==
    /\ found \in Seq(ToSet(found)) /\ answers \in Seq(ToSet(answers))
    /\ Len(found) = Cardinality(MatchesTo(Len(answers), answers))
    /\ \A i \in MatchesTo(Len(answers), answers) :
          found[Cardinality(MatchesTo(i, answers))] = [port |-> answers[i].port, by |-> answers[i].by]
    /\ \A k \in 1..Len(found) :
          \E i \in MatchesTo(Len(answers), answers) : Cardinality(MatchesTo(i, answers)) = k

\* Nothing is asked of a port after a hard match.
HardIsLast(answers) ==
    \A i, j \in 1..Len(answers) :
        i < j /\ answers[i].heard = "hard" => answers[j].port # answers[i].port

Waiting == [port |-> Head(svPorts), by |-> said[Len(said)].by, reply |-> "nothing", heard |-> "nothing"]

SvInv ==
    /\ svPc \in {"idle", "port", "probe", "dial", "simple", "sent", "done"}
    /\ svPorts \in Seq(Ports)
    /\ \A i, j \in 1..Len(svPorts) : svPorts[i] = svPorts[j] => i = j
    /\ svPc \in {"probe", "dial", "simple", "sent"} => svPorts # <<>>
    /\ svPc = "sent" => Len(said) > 0 /\ said[Len(said)] = Waiting
    /\ Recorded(versions, said)
    /\ HardIsLast(said)
    /\ \A i, j \in 1..Len(versions) : versions[i].port = versions[j].port => i = j
    /\ \A i \in 1..Len(versions) : versions[i].port \notin ToSet(svPorts)
    /\ svPc = "idle" => versions = <<>>
    /\ svPc = "done" /\ svPorts # <<>> => ctxDone

LEMMA MatchesFinite ==
    ASSUME NEW n \in Nat, NEW answers
    PROVE  IsFiniteSet(MatchesTo(n, answers)) /\ Cardinality(MatchesTo(n, answers)) \in Nat
<1>1. IsFiniteSet(1..n) /\ MatchesTo(n, answers) \in SUBSET (1..n)
      BY FS_Interval DEF MatchesTo
<1>2. IsFiniteSet(MatchesTo(n, answers))
      BY <1>1, FS_Subset
<1>. QED BY <1>2, FS_CardinalityType

\* The matches up to an answer count from one; those up to a later match are
\* more.
LEMMA MatchIndex ==
    ASSUME NEW n \in Nat, NEW answers, NEW i \in MatchesTo(n, answers)
    PROVE  /\ Cardinality(MatchesTo(i, answers)) \in 1..Cardinality(MatchesTo(n, answers))
           /\ \A j \in 1..i : Cardinality(MatchesTo(j, answers)) =< Cardinality(MatchesTo(i, answers))
<1>1. i \in 1..n /\ i \in Nat
      BY DEF MatchesTo
<1>2. MatchesTo(i, answers) \in SUBSET MatchesTo(n, answers) /\ i \in MatchesTo(i, answers)
      BY <1>1 DEF MatchesTo
<1>3. /\ IsFiniteSet(MatchesTo(i, answers)) /\ Cardinality(MatchesTo(i, answers)) \in Nat
      /\ IsFiniteSet(MatchesTo(n, answers)) /\ Cardinality(MatchesTo(n, answers)) \in Nat
      BY <1>1, MatchesFinite
<1>4. Cardinality(MatchesTo(i, answers)) # 0 /\ Cardinality(MatchesTo(i, answers)) =< Cardinality(MatchesTo(n, answers))
      BY <1>2, <1>3, FS_Subset, FS_EmptySet
<1>5. ASSUME NEW j \in 1..i PROVE Cardinality(MatchesTo(j, answers)) =< Cardinality(MatchesTo(i, answers))
      <2>1. MatchesTo(j, answers) \in SUBSET MatchesTo(i, answers)
            BY <1>1 DEF MatchesTo
      <2>. QED BY <1>3, <2>1, FS_Subset
<1>. QED BY <1>3, <1>4, <1>5

\* Every answer that fits is that of a version.
LEMMA FittingRecorded ==
    ASSUME NEW found, NEW answers, Recorded(found, answers), NEW i \in 1..Len(answers), Fits(answers[i])
    PROVE  \E k \in 1..Len(found) : found[k] = [port |-> answers[i].port, by |-> answers[i].by]
<1>1. i \in MatchesTo(Len(answers), answers) /\ Len(answers) \in Nat
      BY DEF Recorded, MatchesTo
<1>2. Cardinality(MatchesTo(i, answers)) \in 1..Len(found)
      BY <1>1, MatchIndex DEF Recorded
<1>. QED BY <1>1, <1>2 DEF Recorded

\* An answer from which nothing was read so far settles nothing.
LEMMA RecordUnheard ==
    ASSUME NEW found, NEW answers, Recorded(found, answers), NEW x, x.heard = "nothing"
    PROVE  Recorded(found, Append(answers, x))
<1>. DEFINE t == Append(answers, x)
            n == Len(answers)
<1>1. /\ t \in Seq(ToSet(t)) /\ n \in Nat /\ Len(t) = n + 1 /\ t[n + 1] = x
      /\ \A i \in 1..n : t[i] = answers[i]
      BY AppendAny DEF Recorded
<1>. HIDE DEF t, n
<1>2. \A k \in 0..n : MatchesTo(k, t) = MatchesTo(k, answers)
      BY <1>1 DEF MatchesTo
<1>3. MatchesTo(n + 1, t) = MatchesTo(n, t)
      BY <1>1 DEF MatchesTo, Fits
<1>4. MatchesTo(Len(t), t) = MatchesTo(n, answers) /\ MatchesTo(n, answers) \subseteq 1..n
      BY <1>1, <1>2, <1>3 DEF MatchesTo
<1>5. \A i \in 1..n : MatchesTo(i, t) = MatchesTo(i, answers) /\ t[i] = answers[i]
      BY <1>1, <1>2
<1>6. \A i \in MatchesTo(n, answers) :
         found[Cardinality(MatchesTo(i, t))] = [port |-> t[i].port, by |-> t[i].by]
      BY <1>4, <1>5 DEF Recorded, n
<1>7. \A k \in 1..Len(found) : \E i \in MatchesTo(n, answers) : Cardinality(MatchesTo(i, t)) = k
      BY <1>4, <1>5 DEF Recorded, n
<1>. QED BY <1>1, <1>4, <1>6, <1>7 DEF Recorded, t, n

Read(answers, reply, heard) ==
    [answers EXCEPT ![Len(answers)] = [answers[Len(answers)] EXCEPT !.reply = reply, !.heard = heard]]

\* The last answer is read.  If it settles the port, it is the last match.
LEMMA RecordHeard ==
    ASSUME NEW found, NEW answers, Recorded(found, answers), Len(answers) > 0,
           NEW port, NEW by, NEW reply, NEW heard \in {"hard", "soft", "other", "nothing"},
           by = Plain => heard \in {"other", "nothing"},
           answers[Len(answers)] = [port |-> port, by |-> by, reply |-> "nothing", heard |-> "nothing"],
           NEW t,
           t = Read(answers, reply, heard)
    PROVE  /\ ~Decides(by, heard) => Recorded(found, t)
           /\ Decides(by, heard) => Recorded(Append(found, [port |-> port, by |-> by]), t)
<1>. DEFINE n == Len(answers)
            x == [port |-> port, by |-> by, reply |-> reply, heard |-> heard]
            v == [port |-> port, by |-> by]
            more == Append(found, v)
<1>1. answers \in Seq(ToSet(answers)) /\ n \in Nat \ {0} /\ DOMAIN answers = 1..n
      BY DEF Recorded
<1>2. t = [i \in 1..n |-> IF i = n THEN x ELSE answers[i]]
      <2>1. [answers[n] EXCEPT !.reply = reply, !.heard = heard] = x
            <3>. DEFINE r == [port |-> port, by |-> by, reply |-> "nothing", heard |-> "nothing"]
                        r1 == [port |-> port, by |-> by, reply |-> reply, heard |-> "nothing"]
            <3>1. answers[n] = r
                  OBVIOUS
            <3>2. [r EXCEPT !.reply = reply] = r1
                  OBVIOUS
            <3>3. [r1 EXCEPT !.heard = heard] = x
                  OBVIOUS
            <3>. HIDE DEF r, r1, n, x
            <3>. QED BY <3>1, <3>2, <3>3
      <2>2. t = [answers EXCEPT ![n] = [answers[n] EXCEPT !.reply = reply, !.heard = heard]]
            BY DEF Read
      <2>. HIDE DEF n, x
      <2>. QED BY <1>1, <2>1, <2>2
<1>3. /\ t \in Seq(ToSet(t)) /\ Len(t) = n /\ t[n] = x
      /\ \A i \in 1..(n - 1) : t[i] = answers[i]
      <2>. HIDE DEF n, x
      <2>1. \A i \in 1..n : t[i] \in {t[j] : j \in 1..n}
            OBVIOUS
      <2>2. DOMAIN t = 1..n
            BY <1>2
      <2>3. ToSet(t) = {t[j] : j \in 1..n}
            BY <2>2 DEF ToSet
      <2>4. t = [i \in 1..n |-> t[i]]
            BY <1>2
      <2>5. t \in [1..n -> ToSet(t)]
            BY <2>1, <2>3, <2>4
      <2>6. t \in Seq(ToSet(t)) /\ Len(t) = n
            <3>1. t \in Seq(ToSet(t))
                  <4>1. [1..n -> ToSet(t)] \in {[1..m -> ToSet(t)] : m \in Nat}
                        BY <1>1
                  <4>2. t \in UNION {[1..m -> ToSet(t)] : m \in Nat}
                        BY <2>5, <4>1
                  <4>3. Seq(ToSet(t)) = UNION {[1..m -> ToSet(t)] : m \in Nat}
                        BY SeqDef
                  <4>. QED BY <4>2, <4>3
            <3>2. Len(t) \in Nat /\ DOMAIN t = 1..Len(t)
                  BY <3>1, LenProperties
            <3>. QED BY <1>1, <2>2, <3>1, <3>2
      <2>. QED BY <1>1, <1>2, <2>6
<1>4. n \notin MatchesTo(n, answers) /\ x.heard = heard /\ x.by = by /\ answers[n].heard = "nothing"
      BY DEF MatchesTo, Fits
<1>5. \A k \in 0..(n - 1) : MatchesTo(k, t) = MatchesTo(k, answers)
      <2>. HIDE DEF n, x
      <2>. QED BY <1>1, <1>3 DEF MatchesTo
<1>6. MatchesTo(n, answers) = MatchesTo(n - 1, answers)
      <2>. HIDE DEF n
      <2>. QED BY <1>1, <1>4 DEF MatchesTo
<1>7. MatchesTo(n, t) = IF Decides(by, heard) THEN MatchesTo(n, answers) \cup {n} ELSE MatchesTo(n, answers)
      <2>1. n \in MatchesTo(n, t) <=> Decides(by, heard)
            <3>1. t[n].heard = heard /\ t[n].by = by
                  BY <1>3
            <3>. HIDE DEF n
            <3>. QED BY <1>1, <3>1 DEF MatchesTo, Decides, Fits
      <2>2. MatchesTo(n, t) \ {n} = MatchesTo(n - 1, t)
            <3>. HIDE DEF n, x
            <3>. QED BY <1>1 DEF MatchesTo
      <2>3. MatchesTo(n - 1, t) = MatchesTo(n, answers)
            <3>1. n - 1 \in 0..(n - 1)
                  BY <1>1
            <3>. QED BY <1>5, <1>6, <3>1
      <2>. QED BY <2>1, <2>2, <2>3
<1>8. MatchesTo(n, answers) \subseteq 1..(n - 1)
      BY <1>6 DEF MatchesTo
<1>9. \A i \in MatchesTo(n, answers) :
         /\ MatchesTo(i, t) = MatchesTo(i, answers)
         /\ t[i].port = answers[i].port /\ t[i].by = answers[i].by
         /\ found[Cardinality(MatchesTo(i, answers))] = [port |-> answers[i].port, by |-> answers[i].by]
      <2>1. \A i \in MatchesTo(n, answers) :
               found[Cardinality(MatchesTo(i, answers))] = [port |-> answers[i].port, by |-> answers[i].by]
            BY DEF Recorded
      <2>2. \A i \in 1..(n - 1) : i \in 0..(n - 1)
            BY <1>1
      <2>. HIDE DEF n, x
      <2>. QED BY <1>3, <1>5, <1>8, <2>1, <2>2
<1>10. /\ Len(found) = Cardinality(MatchesTo(n, answers)) /\ found \in Seq(ToSet(found))
       /\ \A k \in 1..Len(found) : \E i \in MatchesTo(n, answers) : Cardinality(MatchesTo(i, answers)) = k
      BY DEF Recorded
<1>11. ASSUME ~Decides(by, heard) PROVE Recorded(found, t)
      <2>1. MatchesTo(Len(t), t) = MatchesTo(n, answers)
            BY <1>3, <1>7, <1>11
      <2>. HIDE DEF n, x
      <2>2. \A k \in 1..Len(found) :
               \E i \in MatchesTo(Len(t), t) : Cardinality(MatchesTo(i, t)) = k
            <3>. SUFFICES ASSUME NEW k \in 1..Len(found)
                          PROVE  \E i \in MatchesTo(Len(t), t) : Cardinality(MatchesTo(i, t)) = k
                  OBVIOUS
            <3>1. PICK i \in MatchesTo(n, answers) : Cardinality(MatchesTo(i, answers)) = k
                  BY <1>10
            <3>. QED BY <1>9, <2>1, <3>1
      <2>3. /\ Len(found) = Cardinality(MatchesTo(Len(t), t))
            /\ \A i \in MatchesTo(Len(t), t) :
                  found[Cardinality(MatchesTo(i, t))] = [port |-> t[i].port, by |-> t[i].by]
            BY <1>9, <1>10, <2>1
      <2>. QED BY <1>3, <1>10, <2>2, <2>3 DEF Recorded
<1>12. ASSUME Decides(by, heard) PROVE Recorded(more, t)
      <2>. HIDE DEF n, x, v, more
      <2>1. MatchesTo(Len(t), t) = MatchesTo(n, answers) \cup {n} /\ n \notin MatchesTo(n, answers)
            BY <1>3, <1>4, <1>7, <1>12
      <2>2. IsFiniteSet(MatchesTo(n, answers)) /\ Cardinality(MatchesTo(n, answers)) \in Nat
            BY <1>1, MatchesFinite
      <2>3. Cardinality(MatchesTo(Len(t), t)) = Cardinality(MatchesTo(n, answers)) + 1
            BY <2>1, <2>2, FS_AddElement
      <2>4. /\ more \in Seq(ToSet(more)) /\ Len(more) = Len(found) + 1 /\ more[Len(found) + 1] = v
            /\ \A i \in 1..Len(found) : more[i] = found[i]
            BY <1>10, AppendAny DEF more
      <2>5. ASSUME NEW i \in MatchesTo(n, answers)
            PROVE  more[Cardinality(MatchesTo(i, t))] = [port |-> t[i].port, by |-> t[i].by]
            <3>4. Cardinality(MatchesTo(i, answers)) \in 1..Len(found)
                  BY <1>1, <1>10, <2>5, MatchIndex
            <3>5. more[Cardinality(MatchesTo(i, answers))] = found[Cardinality(MatchesTo(i, answers))]
                  BY <2>4, <3>4
            <3>6. /\ MatchesTo(i, t) = MatchesTo(i, answers)
                  /\ t[i].port = answers[i].port /\ t[i].by = answers[i].by
                  /\ found[Cardinality(MatchesTo(i, answers))]
                       = [port |-> answers[i].port, by |-> answers[i].by]
                  BY <1>9, <2>5
            <3>. QED BY <3>5, <3>6
      <2>6. more[Cardinality(MatchesTo(n, t))] = [port |-> t[n].port, by |-> t[n].by]
            <3>1. Cardinality(MatchesTo(n, t)) = Len(found) + 1
                  BY <1>3, <1>10, <2>3
            <3>2. t[n].port = port /\ t[n].by = by
                  BY <1>3 DEF x
            <3>. QED BY <2>4, <3>1, <3>2 DEF v
      <2>7. Len(more) = Cardinality(MatchesTo(Len(t), t))
            BY <1>10, <2>3, <2>4
      <2>8. ASSUME NEW k \in 1..Len(more)
            PROVE  \E i \in MatchesTo(Len(t), t) : Cardinality(MatchesTo(i, t)) = k
            <3>1. CASE k = Len(more)
                  <4>1. n \in MatchesTo(Len(t), t) /\ Cardinality(MatchesTo(n, t)) = k
                        BY <1>3, <2>1, <2>7, <3>1
                  <4>. QED BY <4>1
            <3>2. CASE k # Len(more)
                  <4>1. k \in 1..Len(found)
                        BY <1>10, <2>2, <2>4, <3>2
                  <4>2. PICK i \in MatchesTo(n, answers) : Cardinality(MatchesTo(i, answers)) = k
                        BY <1>10, <4>1
                  <4>. QED BY <1>9, <2>1, <4>2
            <3>. QED BY <3>1, <3>2
      <2>. QED BY <1>3, <2>1, <2>4, <2>5, <2>6, <2>7, <2>8 DEF Recorded
<1>. QED BY <1>11, <1>12

\* A step that hears nothing new: it may drop the first port, begin to wait
\* for an answer, or neither.
LEMMA SvGoesOn ==
    ASSUME SvInv, UNCHANGED versions, ctxDone' \in {ctxDone, TRUE},
           svPc' \in {"port", "probe", "dial", "simple", "sent", "done"},
           \/ UNCHANGED svPorts
           \/ svPorts # <<>> /\ svPorts' = Tail(svPorts) /\ svPc' = "port",
           svPc' \in {"probe", "dial", "simple", "sent"} => svPorts # <<>>,
           \/ UNCHANGED said /\ (svPc' = "sent" => svPc = "sent")
           \/ /\ svPc' = "sent"
              /\ \E by : said' = Append(said, [port |-> Head(svPorts), by |-> by,
                                                reply |-> "nothing", heard |-> "nothing"]),
           svPc' = "sent" => UNCHANGED svPorts,
           svPc' = "done" /\ svPorts # <<>> => ctxDone'
    PROVE  SvInv'
<1>1. /\ svPorts' \in Seq(Ports) /\ ToSet(svPorts') \subseteq ToSet(svPorts)
      /\ \A i, j \in 1..Len(svPorts') : svPorts'[i] = svPorts'[j] => i = j
      <2>1. CASE UNCHANGED svPorts
            BY <2>1 DEF SvInv
      <2>2. CASE svPorts # <<>> /\ svPorts' = Tail(svPorts)
            BY <2>2, TailDistinct DEF SvInv
      <2>. QED BY <2>1, <2>2
<1>2. /\ Recorded(versions, said')
      /\ svPc' = "sent" => Len(said') > 0 /\ said'[Len(said')] = Waiting'
      <2>1. CASE UNCHANGED said /\ (svPc' = "sent" => svPc = "sent")
            <3>1. Recorded(versions, said')
                  BY <2>1 DEF SvInv
            <3>2. ASSUME svPc' = "sent" PROVE Len(said') > 0 /\ said'[Len(said')] = Waiting'
                  <4>1. svPc = "sent" /\ svPorts' = svPorts /\ said' = said
                        BY <2>1, <3>2
                  <4>2. Waiting' = Waiting
                        BY <4>1 DEF Waiting
                  <4>. QED BY <4>1, <4>2 DEF SvInv
            <3>. QED BY <3>1, <3>2
      <2>2. ASSUME svPc' = "sent", NEW by, NEW x,
                   x = [port |-> Head(svPorts), by |-> by, reply |-> "nothing", heard |-> "nothing"],
                   said' = Append(said, x)
            PROVE  Recorded(versions, said') /\ Len(said') > 0 /\ said'[Len(said')] = Waiting'
            <3>1. x.heard = "nothing" /\ x.by = by
                  BY <2>2
            <3>2. Recorded(versions, said')
                  BY <2>2, <3>1, RecordUnheard DEF SvInv
            <3>3. Len(said') = Len(said) + 1 /\ said'[Len(said')] = x /\ Len(said) \in Nat
                  BY <2>2, AppendAny DEF SvInv, Recorded
            <3>. QED BY <2>2, <3>1, <3>2, <3>3 DEF Waiting
      <2>. QED BY <2>1, <2>2
<1>3. /\ ToSet(svPorts)' = ToSet(svPorts') /\ Recorded(versions, said)' = Recorded(versions, said')
      /\ HardIsLast(said)' = HardIsLast(said')
      BY DEF ToSet, Recorded, MatchesTo, Fits, HardIsLast
<1>4. svPc' \in {"probe", "dial", "simple", "sent"} => svPorts' # <<>>
      OBVIOUS
<1>5. svPc' = "done" /\ svPorts' # <<>> => ctxDone'
      OBVIOUS
<1>6. /\ \A i, j \in 1..Len(versions') : versions'[i].port = versions'[j].port => i = j
      /\ \A i \in 1..Len(versions') : versions'[i].port \notin ToSet(svPorts')
      BY <1>1 DEF SvInv
<1>7. HardIsLast(said')
      <2>1. CASE UNCHANGED said
            BY <2>1 DEF SvInv
      <2>2. ASSUME svPc' = "sent", NEW by, NEW x, x.port = Head(svPorts), said' = Append(said, x)
            PROVE  HardIsLast(said')
            <3>1. /\ Len(said') = Len(said) + 1 /\ Len(said) \in Nat /\ said'[Len(said) + 1] = x
                  /\ \A i \in 1..Len(said) : said'[i] = said[i]
                  BY <2>2, AppendAny DEF SvInv, Recorded
            <3>2. svPorts # <<>> /\ Head(svPorts) \in ToSet(svPorts)
                  BY <2>2, TailDistinct DEF SvInv
            <3>3. ASSUME NEW i \in 1..Len(said), said[i].heard = "hard" PROVE said[i].port # x.port
                  <4>1. PICK k \in 1..Len(versions) : versions[k] = [port |-> said[i].port, by |-> said[i].by]
                        BY <3>3, FittingRecorded DEF SvInv, Fits
                  <4>2. versions[k].port = said[i].port
                        BY <4>1
                  <4>. QED BY <2>2, <3>2, <4>2 DEF SvInv
            <3>4. HardIsLast(said)
                  BY DEF SvInv
            <3>. QED BY <3>1, <3>3, <3>4 DEF HardIsLast
      <2>. QED BY <2>1, <2>2
<1>. QED BY <1>1, <1>2, <1>3, <1>4, <1>5, <1>6, <1>7 DEF SvInv

\* The answer is read.
LEMMA SvAsked ==
    ASSUME SvInv, Ask
    PROVE  SvInv'
<1>. DEFINE asked == said[Len(said)]
            port == Head(svPorts)
<1>1. /\ svPc = "sent" /\ svPorts # <<>> /\ svPorts \in Seq(Ports) /\ Len(said) > 0
      /\ asked = [port |-> port, by |-> asked.by, reply |-> "nothing", heard |-> "nothing"]
      BY DEF Ask, SvInv, Waiting
<1>2. asked.port = port
      <2>. DEFINE b == asked.by
      <2>1. asked = [port |-> port, by |-> b, reply |-> "nothing", heard |-> "nothing"]
            BY <1>1
      <2>. HIDE DEF asked, port, b
      <2>. QED BY <2>1
<1>3. PICK reply \in Replies(asked.by) :
        LET heard == IF timing THEN reply ELSE "nothing" IN
          /\ said' = [said EXCEPT ![Len(said)] = [asked EXCEPT !.reply = reply, !.heard = heard]]
          /\ versions' = IF Decides(asked.by, heard)
                         THEN Append(versions, [port |-> asked.port, by |-> asked.by])
                         ELSE versions
          /\ IF Decides(asked.by, heard) \/ asked.by = Plain
             THEN NextPort
             ELSE svPc' = "probe" /\ UNCHANGED svPorts
      BY DEF Ask
<1>. DEFINE heard == IF timing THEN reply ELSE "nothing"
            by == asked.by
            v == [port |-> port, by |-> by]
<1>4. heard \in {"hard", "soft", "other", "nothing"} /\ (by = Plain => heard \in {"other", "nothing"})
      BY DEF Replies
<1>5. /\ said' = [said EXCEPT ![Len(said)] = [said[Len(said)] EXCEPT !.reply = reply, !.heard = heard]]
      /\ versions' = IF Decides(by, heard) THEN Append(versions, v) ELSE versions
      /\ IF Decides(by, heard) \/ by = Plain
         THEN svPc' = "port" /\ svPorts' = Tail(svPorts)
         ELSE svPc' = "probe" /\ UNCHANGED svPorts
      BY <1>2, <1>3 DEF NextPort
<1>6. Recorded(versions, said) /\ said[Len(said)] = [port |-> port, by |-> by, reply |-> "nothing", heard |-> "nothing"]
      BY <1>1 DEF SvInv
<1>. HIDE DEF heard, by, port, asked
<1>7. Recorded(versions', said')
      <2>1. said' = Read(said, reply, heard)
            BY <1>5 DEF Read
      <2>2. /\ ~Decides(by, heard) => Recorded(versions, said')
            /\ Decides(by, heard) => Recorded(Append(versions, [port |-> port, by |-> by]), said')
            <3>. HIDE DEF v
            <3>. QED BY <1>1, <1>4, <1>6, <2>1, RecordHeard
      <2>. QED BY <1>5, <2>2
<1>8. /\ svPorts' \in Seq(Ports) /\ ToSet(svPorts') \subseteq ToSet(svPorts)
      /\ \A i, j \in 1..Len(svPorts') : svPorts'[i] = svPorts'[j] => i = j
      /\ port \in ToSet(svPorts) /\ (Decides(by, heard) => port \notin ToSet(svPorts'))
      <2>1. /\ Tail(svPorts) \in Seq(Ports)
            /\ \A i, j \in 1..Len(Tail(svPorts)) : Tail(svPorts)[i] = Tail(svPorts)[j] => i = j
            /\ port \in ToSet(svPorts) /\ port \notin ToSet(Tail(svPorts))
            /\ ToSet(Tail(svPorts)) \subseteq ToSet(svPorts)
            BY <1>1, TailDistinct DEF SvInv, port
      <2>2. CASE Decides(by, heard) \/ by = Plain
            BY <1>5, <2>1, <2>2
      <2>3. CASE ~(Decides(by, heard) \/ by = Plain)
            BY <1>5, <2>1, <2>3 DEF SvInv
      <2>. QED BY <2>2, <2>3
<1>9. /\ \A i, j \in 1..Len(versions') : versions'[i].port = versions'[j].port => i = j
      /\ \A i \in 1..Len(versions') : versions'[i].port \notin ToSet(svPorts')
      <2>1. /\ \A i, j \in 1..Len(versions) : versions[i].port = versions[j].port => i = j
            /\ \A i \in 1..Len(versions) : versions[i].port \notin ToSet(svPorts)
            BY DEF SvInv
      <2>2. CASE ~Decides(by, heard)
            BY <1>5, <1>8, <2>1, <2>2
      <2>3. CASE Decides(by, heard)
            <3>1. versions' = Append(versions, v) /\ v.port = port
                  BY <1>5, <2>3
            <3>2. versions \in Seq(ToSet(versions))
                  BY DEF SvInv, Recorded
            <3>. HIDE DEF v
            <3>3. /\ Len(versions') = Len(versions) + 1 /\ Len(versions) \in Nat
                  /\ versions'[Len(versions) + 1] = v
                  /\ \A i \in 1..Len(versions) : versions'[i] = versions[i]
                  BY <3>1, <3>2, AppendAny
            <3>4. \A i \in 1..Len(versions') : i \in 1..Len(versions) \/ i = Len(versions) + 1
                  BY <3>3
            <3>5. \A i \in 1..Len(versions) : versions'[i].port \notin ToSet(svPorts) /\ versions'[i].port # port
                  BY <1>8, <2>1, <3>3
            <3>6. versions'[Len(versions) + 1].port = port
                  BY <3>1, <3>3
            <3>7. \A i, j \in 1..Len(versions) : versions'[i].port = versions'[j].port => i = j
                  BY <2>1, <3>3
            <3>. QED BY <1>8, <2>3, <3>4, <3>5, <3>6, <3>7
      <2>. QED BY <2>2, <2>3
<1>10. /\ ToSet(svPorts)' = ToSet(svPorts') /\ Recorded(versions, said)' = Recorded(versions', said')
       /\ HardIsLast(said)' = HardIsLast(said')
       BY DEF ToSet, Recorded, MatchesTo, Fits, HardIsLast
<1>11. svPc' \in {"port", "probe"} /\ (svPc' = "probe" => svPorts' # <<>>)
       BY <1>1, <1>5
<1>12. HardIsLast(said')
       <2>1. said \in Seq(ToSet(said)) /\ Len(said) \in Nat \ {0} /\ HardIsLast(said) /\ DOMAIN said = 1..Len(said)
             BY <1>1 DEF SvInv, Recorded
       <2>. DEFINE n == Len(said)
                   y == [said[n] EXCEPT !.reply = reply, !.heard = heard]
       <2>2. y.port = said[n].port
             <3>1. said[n] = [port |-> port, by |-> by, reply |-> "nothing", heard |-> "nothing"]
                   BY <1>6
             <3>. QED BY <3>1
       <2>3. said' = [said EXCEPT ![n] = y]
             BY <1>5
       <2>. HIDE DEF y
       <2>4. /\ DOMAIN said' = 1..n /\ said'[n] = y
             /\ \A i \in 1..(n - 1) : said'[i] = said[i]
             BY <2>1, <2>3
       <2>5. Len(said') = n
             BY <1>7, <2>1, <2>4, LenProperties DEF Recorded
       <2>6. \A i \in 1..n : said'[i].port = said[i].port
             BY <2>1, <2>2, <2>4
       <2>. HIDE DEF n
       <2>. QED BY <2>1, <2>4, <2>5, <2>6 DEF HardIsLast, n
<1>. QED BY <1>7, <1>8, <1>9, <1>10, <1>11, <1>12 DEF SvInv

LEMMA SvInvStep ==
    ASSUME SvInv, ResultInv, [Next]_vars
    PROVE  SvInv'
<1>1. ctxDone' \in {ctxDone, TRUE}
      BY ContextGrows DEF vars, ctxVars
<1>2. CASE UNCHANGED svVars
      <2>1. UNCHANGED <<svPc, svPorts, versions, said>>
            BY <1>2 DEF svVars
      <2>2. Waiting' = Waiting /\ ToSet(svPorts)' = ToSet(svPorts)
            BY <2>1 DEF Waiting, ToSet
      <2>3. Recorded(versions, said)' = Recorded(versions, said) /\ HardIsLast(said)' = HardIsLast(said)
            BY <2>1 DEF Recorded, MatchesTo, Fits, ToSet, HardIsLast
      <2>. QED BY <1>1, <2>1, <2>2, <2>3 DEF SvInv
<1>3. CASE Banners
      <2>1. CASE GrabBanners(OpenPorts)
            <3>1. /\ svPc = "idle" /\ svPc' = "port" /\ svPorts' = OpenPorts
                  /\ UNCHANGED <<versions, said, ctxDone>>
                  BY <2>1 DEF GrabBanners, ctxVars
            <3>2. OpenPorts \in Seq(Ports) /\ \A k, l \in 1..Len(OpenPorts) : OpenPorts[k] = OpenPorts[l] => k = l
                  BY OpenPortsDistinct
            <3>3. Recorded(versions, said)' /\ HardIsLast(said)'
                  BY <3>1 DEF SvInv, Recorded, MatchesTo, Fits, ToSet, HardIsLast
            <3>4. Len(versions') = 0 /\ versions' = <<>>
                  BY <3>1 DEF SvInv
            <3>. QED BY <3>1, <3>2, <3>3, <3>4 DEF SvInv
      <2>2. CASE ExaminePort
            BY <1>1, <2>2, SvGoesOn DEF ExaminePort, ctxVars
      <2>3. CASE ProbesOver
            <3>1. svPorts # <<>>
                  BY <2>3 DEF ProbesOver, SvInv
            <3>. QED BY <1>1, <2>3, <3>1, SvGoesOn DEF ProbesOver, NextPort, ctxVars
      <2>4. CASE CheckProbe
            <3>1. svPorts # <<>>
                  BY <2>4 DEF CheckProbe, SvInv
            <3>. QED BY <1>1, <2>4, <3>1, SvGoesOn DEF CheckProbe, ctxVars
      <2>5. CASE Dial
            <3>1. svPorts # <<>> /\ svPc \in {"dial", "simple"}
                  BY <2>5 DEF Dial, SvInv
            <3>. QED BY <1>1, <2>5, <3>1, SvGoesOn DEF Dial, NextPort, ctxVars
      <2>6. CASE Ask
            BY <2>6, SvAsked
      <2>. QED BY <1>3, <2>1, <2>2, <2>3, <2>4, <2>5, <2>6 DEF Banners, SvStep
<1>4. CASE ~Banners
      <2>1. UNCHANGED svVars
            BY <1>4 DEF Next, Main, LoadTargets, ListMode, ParseOptions, ScanRanges, ScanTarget,
                        PrintReport, NextStage, Goto, analysisVars, OSDetection, Trace, Scripts,
                        ScriptWorker, Network, Signal, Exited, vars
      <2>. QED BY <1>2, <2>1
<1>. QED BY <1>3, <1>4

LEMMA ReportInvariance == Spec => []ResultInv
<1>1. Init => ResultInv
      BY DEF Init, ResultInv
<1>. QED BY <1>1, ResultStep, PTL DEF Spec

\* What SvInv says of the versions, without counting the answers.
LEMMA RecordedMatch == SvInv => VersionsMatch
<1>. SUFFICES ASSUME SvInv PROVE VersionsMatch
      OBVIOUS
<1>. DEFINE m == Len(said)
            At(i) == Cardinality(MatchesTo(i, said))
<1>1. Recorded(versions, said) /\ HardIsLast(said) /\ m \in Nat /\ Len(versions) \in Nat
      BY DEF SvInv, Recorded
<1>2. \A k \in 1..Len(versions) : \E i \in MatchesTo(m, said) : At(i) = k /\ versions[k] = VersionOf(said[i])
      BY <1>1 DEF Recorded, VersionOf
<1>3. \A i \in MatchesTo(m, said) : i \in 1..m /\ Fits(said[i]) /\ At(i) \in 1..Len(versions)
      BY <1>1, MatchIndex DEF MatchesTo, Recorded
<1>4. \A i, j \in MatchesTo(m, said) : At(i) < At(j) => i < j
      <2>. SUFFICES ASSUME NEW i \in MatchesTo(m, said), NEW j \in MatchesTo(m, said), At(i) < At(j), ~(i < j)
                    PROVE  FALSE
            OBVIOUS
      <2>1. j \in 1..i
            BY <1>1, <1>3
      <2>2. At(j) =< At(i)
            BY <1>1, <2>1, MatchIndex
      <2>3. At(i) \in Int /\ At(j) \in Int
            BY <1>3
      <2>. HIDE DEF At
      <2>. QED BY <2>2, <2>3
<1>5. ASSUME NEW k \in 1..Len(versions), NEW l \in 1..Len(versions), k =< l
      PROVE  \E i, j \in 1..m :
                /\ i =< j /\ Fits(said[i]) /\ Fits(said[j])
                /\ versions[k] = VersionOf(said[i]) /\ versions[l] = VersionOf(said[j])
      <2>1. PICK i \in MatchesTo(m, said) : At(i) = k /\ versions[k] = VersionOf(said[i])
            BY <1>2
      <2>2. CASE k = l
            <3>1. i \in 1..m /\ i =< i /\ Fits(said[i])
                  BY <1>1, <1>3
            <3>. QED BY <2>1, <2>2, <3>1
      <2>3. CASE k # l
            <3>1. PICK j \in MatchesTo(m, said) : At(j) = l /\ versions[l] = VersionOf(said[j])
                  BY <1>2
            <3>. HIDE DEF At
            <3>2. At(i) < At(j)
                  BY <1>5, <2>1, <2>3, <3>1
            <3>3. i =< j
                  BY <1>1, <1>3, <1>4, <3>2
            <3>. QED BY <1>3, <2>1, <3>1, <3>3
      <2>. QED BY <2>2, <2>3
<1>. HIDE DEF m, At
<1>6. \A i \in 1..m : Fits(said[i]) => VersionOf(said[i]) \in ToSet(versions)
      <2>. SUFFICES ASSUME NEW i \in 1..m, Fits(said[i]) PROVE VersionOf(said[i]) \in ToSet(versions)
            OBVIOUS
      <2>1. \E k \in 1..Len(versions) : versions[k] = VersionOf(said[i])
            BY <1>1, FittingRecorded DEF m, VersionOf
      <2>2. DOMAIN versions = 1..Len(versions)
            BY <1>1 DEF Recorded
      <2>. QED BY <2>1, <2>2 DEF ToSet
<1>7. \A i \in 1..m : VersionOf(said[i]).port = said[i].port
      BY DEF VersionOf
<1>8. \A i \in 1..m : Fits(said[i]) => \E v \in ToSet(versions) : v.port = said[i].port
      BY <1>6, <1>7
<1>9. \A i \in 1..m : said[i].heard = "hard" =>
         /\ VersionOf(said[i]) \in ToSet(versions)
         /\ \A j \in (i + 1)..m : said[j].port # said[i].port
      <2>. SUFFICES ASSUME NEW i \in 1..m, said[i].heard = "hard"
                    PROVE  /\ VersionOf(said[i]) \in ToSet(versions)
                           /\ \A j \in (i + 1)..m : said[j].port # said[i].port
            OBVIOUS
      <2>1. Fits(said[i])
            BY DEF Fits
      <2>2. \A j \in (i + 1)..m : j \in 1..m /\ i < j
            BY <1>1
      <2>. QED BY <1>1, <1>6, <2>1, <2>2 DEF HardIsLast, m
<1>10. \A k, l \in 1..Len(versions) : versions[k].port = versions[l].port => k = l
       BY DEF SvInv
<1>11. svPc = "done" /\ svPorts # <<>> => ctxDone
       BY DEF SvInv
<1>. QED BY <1>5, <1>8, <1>9, <1>10, <1>11 DEF VersionsMatch, m

\* For any database, intensity and ports: the versions rest on answers that
\* match, at most one for a port and in the order of the answers; a hard match
\* is reported and is the last word on its port (banner.go:65-80, :93-113,
\* :155-206).
THEOREM VersionsCorrect == Spec => []VersionsMatch
<1>1. Init => SvInv
      <2>. SUFFICES ASSUME Init PROVE SvInv
            OBVIOUS
      <2>1. svPc = "idle" /\ svPorts = <<>> /\ versions = <<>> /\ said = <<>>
            BY DEF Init, SvInit
      <2>2. MatchesTo(0, said) = {} /\ Cardinality({}) = 0
            BY FS_EmptySet DEF MatchesTo
      <2>4. HardIsLast(<<>>)
            BY DEF HardIsLast
      <2>3. Recorded(<<>>, <<>>)
            <3>1. <<>> \in Seq(ToSet(<<>>)) /\ Len(<<>>) = 0
                  OBVIOUS
            <3>2. MatchesTo(0, <<>>) = {}
                  BY DEF MatchesTo
            <3>. QED BY <2>2, <3>1, <3>2 DEF Recorded
      <2>. QED BY <2>1, <2>3, <2>4 DEF SvInv
<1>. QED BY <1>1, RecordedMatch, SvInvStep, ReportInvariance, PTL DEF Spec

-----------------------------------------------------------------------------
(* The scripts.  A selected script is in the channel, with a worker, or has  *)
(* run; what has run for the current port is what the result channel holds.  *)

ScriptSet == ToSet(ScriptIDs)
Entries == [script : ScriptSet, kind : {"output", "error"}]
RunEntries == [port : Ports, script : ScriptSet, kind : Kinds]

\* The workers that hold a script they have not run yet.
Holding(places, held, s) == {w \in ScriptWorkers : places[w] \in {"check", "run"} /\ held[w] = s}

ScType ==
    /\ scPc \in {"idle", "port", "collect", "done"}
    /\ scPorts \in Seq(Ports)
    /\ \A i, j \in 1..Len(scPorts) : scPorts[i] = scPorts[j] => i = j
    /\ jobs \in Seq(ScriptSet)
    /\ at \in [ScriptWorkers -> {"gone", "range", "check", "run"}]
    /\ job \in [ScriptWorkers -> ScriptSet \cup {NoScript}]
    /\ results \in Seq(Entries)
    /\ outputs \in Seq([port : Ports, out : Seq(Entries)])
    /\ ran \in Seq(RunEntries)

\* How far the call is; a port that is still to be served has no runs and no
\* outputs.
Progress ==
    /\ \A w \in ScriptWorkers : at[w] # "gone" => scPc = "collect"
    /\ \A w \in ScriptWorkers : at[w] \in {"check", "run"} => job[w] \in ScriptSet
    /\ scPc = "collect" => scPorts # <<>>
    /\ scPc = "idle" => ran = <<>> /\ outputs = <<>>
    /\ \A i \in 1..Len(outputs) : outputs[i].port \notin ToSet(scPorts)
    /\ \A i \in 1..Len(ran) :
          ran[i].port \in ToSet(scPorts) => scPc = "collect" /\ ran[i].port = Head(scPorts)

\* The books of script s for the port that is being served.
Balanced(s) ==
    /\ Times(results, Outputs(s)) = Times(ran, Runs(Head(scPorts), s, {"output", "error"}))
    /\ s \notin Matching[Head(scPorts)] => Times(ran, Runs(Head(scPorts), s, Kinds)) = 0
    /\ s \in Matching[Head(scPorts)] /\ ~ctxDone =>
          Times(Selected, {s}) = Times(jobs, {s}) + Cardinality(Holding(at, job, s))
                                  + Times(ran, Runs(Head(scPorts), s, Kinds))

Serving ==
    /\ \A s \in ScriptSet : Balanced(s)
    /\ \A w \in ScriptWorkers :
          /\ at[w] = "run" => job[w] \in Matching[Head(scPorts)]
          /\ at[w] = "gone" /\ ~ctxDone => jobs = <<>>

ScInv == ScType /\ Progress /\ (scPc = "collect" => Serving) /\ ScriptsReported

LEMMA HoldingType ==
    ASSUME NEW places, NEW held, NEW s
    PROVE  IsFiniteSet(Holding(places, held, s)) /\ Cardinality(Holding(places, held, s)) \in Nat
<1>1. Holding(places, held, s) \in SUBSET ScriptWorkers
      BY DEF Holding
<1>2. IsFiniteSet(Holding(places, held, s))
      BY <1>1, ScriptAssumption, FS_Subset
<1>. QED BY <1>2, FS_CardinalityType

Reports(outs, runs, done) ==
    \A i \in 1..Len(outs) :
        /\ InOrder(outs[i].out)
        /\ \A s \in ScriptSet :
              /\ Times(outs[i].out, Outputs(s)) = Times(runs, Runs(outs[i].port, s, {"output", "error"}))
              /\ \/ done
                 \/ Times(runs, Runs(outs[i].port, s, Kinds)) =
                      (IF s \in Matching[outs[i].port] THEN Times(Selected, {s}) ELSE 0)

LEMMA ReportsAre ==
    /\ ScriptsReported <=> Reports(outputs, ran, ctxDone)
    /\ ScriptsReported' <=> Reports(outputs', ran', ctxDone')
<1>1. ScriptsReported <=> Reports(outputs, ran, ctxDone)
      BY Zenon DEF ScriptsReported, Reports, ScriptSet
<1>2. ScriptsReported' <=> Reports(outputs', ran', ctxDone')
      BY Zenon DEF ScriptsReported, Reports, ScriptSet
<1>. QED BY <1>1, <1>2

\* The reports of the ports served stay true while their entries and runs do.
LEMMA ReportsStay ==
    ASSUME ScriptsReported, UNCHANGED <<outputs, ran>>, ctxDone' \in {ctxDone, TRUE}
    PROVE  ScriptsReported'
<1>1. Reports(outputs, ran, ctxDone)
      BY ReportsAre
<1>2. CASE ctxDone' = ctxDone
      BY <1>1, <1>2, ReportsAre
<1>3. CASE ctxDone' = TRUE
      <2>1. Reports(outputs, ran, TRUE)
            BY <1>1 DEF Reports
      <2>. QED BY <1>3, <2>1, ReportsAre
<1>. QED BY <1>2, <1>3

LEMMA TakeStep ==
    ASSUME ScInv, NEW w \in ScriptWorkers, TakeScript(w)
    PROVE  ScInv'
<1>1. /\ at[w] = "range" /\ jobs # <<>> /\ jobs' = Tail(jobs) /\ scPc = "collect"
      /\ job' = [job EXCEPT ![w] = Head(jobs)] /\ at' = [at EXCEPT ![w] = "check"]
      /\ UNCHANGED <<scPc, scPorts, results, outputs, ran, ctxDone>>
      /\ ScType /\ Progress /\ Serving /\ ScriptsReported
      BY DEF TakeScript, Move, ctxVars, ScInv, Progress
<1>2. Head(jobs) \in ScriptSet /\ Tail(jobs) \in Seq(ScriptSet) /\ jobs \in Seq(ScriptSet)
      BY <1>1 DEF ScType
<1>3. ScType'
      BY <1>1, <1>2 DEF ScType
<1>4. Progress'
      BY <1>1, <1>2 DEF ScType, Progress, ToSet
<1>5. ScriptsReported'
      BY <1>1, ReportsStay
<1>6. ASSUME NEW s \in ScriptSet
      PROVE  /\ Times(results', Outputs(s)) = Times(ran', Runs(Head(scPorts'), s, {"output", "error"}))
             /\ s \notin Matching[Head(scPorts')] => Times(ran', Runs(Head(scPorts'), s, Kinds)) = 0
             /\ s \in Matching[Head(scPorts')] /\ ~ctxDone' =>
                   Times(Selected, {s}) = Times(jobs', {s}) + Cardinality(Holding(at', job', s))
                                           + Times(ran', Runs(Head(scPorts'), s, Kinds))
      <2>. DEFINE H == Holding(at, job, s)
                  J == Holding(at', job', s)
      <2>1. Balanced(s)
            BY <1>1 DEF Serving
      <2>2. Times(jobs, {s}) = Times(jobs', {s}) + (IF Head(jobs) = s THEN 1 ELSE 0)
            BY <1>1, <1>2, TimesTail
      <2>3. Times(jobs, {s}) \in Nat /\ Times(jobs', {s}) \in Nat /\ Times(ran, Runs(Head(scPorts), s, Kinds)) \in Nat
            <3>1. Len(jobs) \in Nat /\ Len(jobs') \in Nat /\ Len(ran) \in Nat
                  BY <1>1, <1>2 DEF ScType
            <3>. QED BY <3>1, TimesType
      <2>4. J = IF Head(jobs) = s THEN H \cup {w} ELSE H
            BY <1>1 DEF Holding, ScType
      <2>5. w \notin H
            BY <1>1 DEF Holding
      <2>6. IsFiniteSet(H) /\ Cardinality(H) \in Nat
            BY HoldingType
      <2>. HIDE DEF H, J
      <2>7. Cardinality(J) = Cardinality(H) + (IF Head(jobs) = s THEN 1 ELSE 0)
            <3>1. Cardinality(H \cup {w}) = Cardinality(H) + 1
                  BY <2>5, <2>6, FS_AddElement
            <3>. QED BY <2>4, <2>6, <3>1
      <2>8. s \in Matching[Head(scPorts)] /\ ~ctxDone =>
                Times(Selected, {s}) = Times(jobs, {s}) + Cardinality(H) + Times(ran, Runs(Head(scPorts), s, Kinds))
            BY <2>1 DEF Balanced, H
      <2>9. Times(jobs, {s}) + Cardinality(H) = Times(jobs', {s}) + Cardinality(J)
            BY <2>2, <2>3, <2>6, <2>7
      <2>10. /\ Times(results, Outputs(s)) = Times(ran, Runs(Head(scPorts), s, {"output", "error"}))
             /\ s \notin Matching[Head(scPorts)] => Times(ran, Runs(Head(scPorts), s, Kinds)) = 0
             BY <2>1 DEF Balanced
      <2>11. /\ UNCHANGED <<scPorts, results, ran, ctxDone>>
             BY <1>1
      <2>. QED BY <2>8, <2>9, <2>10, <2>11 DEF J
<1>7. \A s \in ScriptSet : Balanced(s)'
      BY <1>6 DEF Balanced
<1>8. \A v \in ScriptWorkers :
         /\ at'[v] = "run" => job'[v] \in Matching[Head(scPorts')]
         /\ at'[v] = "gone" /\ ~ctxDone' => jobs' = <<>>
      BY <1>1 DEF ScType, Serving
<1>9. Serving'
      BY <1>7, <1>8 DEF Serving
<1>. QED BY <1>3, <1>4, <1>5, <1>9 DEF ScInv

\* A worker that finds no script, that finds the context ended, or that looks
\* at a script: what is held and matches stays held.
LEMMA LookStep ==
    ASSUME ScInv, NEW w \in ScriptWorkers, NoMoreScripts(w) \/ CheckScript(w)
    PROVE  ScInv'
<1>1. /\ at[w] \in {"range", "check"} /\ scPc = "collect"
      /\ UNCHANGED <<scPc, scPorts, jobs, job, results, outputs, ran, ctxDone>>
      /\ ScType /\ Progress /\ Serving /\ ScriptsReported
      BY DEF NoMoreScripts, CheckScript, ctxVars, ScInv, Progress
<1>2. PICK place \in {"gone", "range", "run"} :
         /\ at' = [at EXCEPT ![w] = place]
         /\ place = "gone" /\ ~ctxDone => jobs = <<>>
         /\ at[w] = "range" => place = "gone"
         /\ place = "run" => job[w] \in Matching[Head(scPorts)]
         /\ at[w] = "check" /\ job[w] \in Matching[Head(scPorts)] /\ ~ctxDone => place = "run"
         /\ place = "run" => at[w] = "check"
      BY <1>1 DEF NoMoreScripts, CheckScript, Move
<1>3. ScType'
      BY <1>1, <1>2 DEF ScType
<1>4. Progress'
      BY <1>1, <1>2 DEF ScType, Progress, ToSet
<1>5. ScriptsReported'
      BY <1>1, ReportsStay
<1>6. ASSUME NEW s \in ScriptSet, s \in Matching[Head(scPorts)], ~ctxDone
      PROVE  Holding(at', job', s) = Holding(at, job, s)
      BY <1>1, <1>2, <1>6 DEF Holding, ScType
<1>7. \A s \in ScriptSet : Balanced(s)'
      BY <1>1, <1>6 DEF Balanced, Serving
<1>8. \A v \in ScriptWorkers :
         /\ at'[v] = "run" => job'[v] \in Matching[Head(scPorts')]
         /\ at'[v] = "gone" /\ ~ctxDone' => jobs' = <<>>
      BY <1>1, <1>2 DEF ScType, Serving
<1>9. Serving'
      BY <1>7, <1>8 DEF Serving
<1>. QED BY <1>3, <1>4, <1>5, <1>9 DEF ScInv

\* A script runs: it leaves its worker and enters the history, and with what
\* it has to say the result channel as well.
LEMMA RunStep ==
    ASSUME ScInv, NEW w \in ScriptWorkers, RunScript(w)
    PROVE  ScInv'
<1>1. PICK kind \in Kinds :
         /\ ran' = Append(ran, [port |-> Head(scPorts), script |-> job[w], kind |-> kind])
         /\ results' = IF kind = "nothing" THEN results
                       ELSE Append(results, [script |-> job[w], kind |-> kind])
         /\ at' = [at EXCEPT ![w] = "range"]
      BY DEF RunScript, Move, AfterRun
<1>. DEFINE p == Head(scPorts)
            o == job[w]
            r == [port |-> p, script |-> o, kind |-> kind]
            e == [script |-> o, kind |-> kind]
<1>2. /\ at[w] = "run" /\ scPc = "collect" /\ scPorts # <<>>
      /\ UNCHANGED <<scPc, scPorts, jobs, job, outputs, ctxDone>>
      /\ ScType /\ Progress /\ Serving /\ ScriptsReported
      BY DEF RunScript, Sends, ScInv, Progress
<1>3. p \in Ports /\ p \in ToSet(scPorts) /\ o \in ScriptSet /\ o \in Matching[p]
      /\ ran \in Seq(RunEntries) /\ results \in Seq(Entries) /\ r \in RunEntries
      /\ (kind # "nothing" => e \in Entries)
      <2>1. p \in ToSet(scPorts)
            BY <1>2, TailDistinct DEF ScType
      <2>2. p \in Ports /\ o \in ScriptSet /\ o \in Matching[p]
            BY <1>2 DEF ScType, Progress, Serving
      <2>. QED BY <1>2, <2>1, <2>2 DEF ScType, RunEntries, Entries, Kinds
<1>. HIDE DEF p, o
<1>4. /\ ran' = Append(ran, r) /\ ran' \in Seq(RunEntries)
      /\ results' = (IF kind = "nothing" THEN results ELSE Append(results, e)) /\ results' \in Seq(Entries)
      BY <1>1, <1>3 DEF p, o
<1>5. ScType'
      BY <1>1, <1>2, <1>4 DEF ScType
<1>6. Progress'
      <2>1. /\ Len(ran') = Len(ran) + 1 /\ Len(ran) \in Nat /\ ran'[Len(ran) + 1] = r
            /\ \A i \in 1..Len(ran) : ran'[i] = ran[i]
            BY <1>3, <1>4
      <2>2. \A i \in 1..Len(ran') : i \in 1..Len(ran) \/ i = Len(ran) + 1
            BY <2>1
      <2>3. \A i \in 1..Len(ran') : ran'[i].port \in ToSet(scPorts) => ran'[i].port = Head(scPorts)
            BY <1>2, <2>1, <2>2 DEF Progress, p
      <2>. QED BY <1>1, <1>2, <2>3 DEF ScType, Progress, ToSet
<1>7. \A q, s, K : Times(ran', Runs(q, s, K)) =
                      Times(ran, Runs(q, s, K)) + (IF q = p /\ s = o /\ kind \in K THEN 1 ELSE 0)
      <2>. SUFFICES ASSUME NEW q, NEW s, NEW K
                    PROVE  Times(ran', Runs(q, s, K)) =
                              Times(ran, Runs(q, s, K)) + (IF q = p /\ s = o /\ kind \in K THEN 1 ELSE 0)
            OBVIOUS
      <2>1. r \in Runs(q, s, K) <=> q = p /\ s = o /\ kind \in K
            BY DEF Runs
      <2>. HIDE DEF r
      <2>2. Times(ran', Runs(q, s, K)) = Times(ran, Runs(q, s, K)) + (IF r \in Runs(q, s, K) THEN 1 ELSE 0)
            BY <1>3, <1>4, TimesAppend
      <2>. QED BY <2>1, <2>2
<1>8. \A s : Times(results', Outputs(s)) =
                Times(results, Outputs(s)) + (IF s = o /\ kind # "nothing" THEN 1 ELSE 0)
      <2>. SUFFICES ASSUME NEW s
                    PROVE  Times(results', Outputs(s)) =
                              Times(results, Outputs(s)) + (IF s = o /\ kind # "nothing" THEN 1 ELSE 0)
            OBVIOUS
      <2>0. Times(results, Outputs(s)) \in Nat
            <3>1. Len(results) \in Nat
                  BY <1>3
            <3>. QED BY <3>1, TimesType
      <2>1. CASE kind = "nothing"
            BY <1>4, <2>0, <2>1
      <2>2. CASE kind # "nothing"
            <3>1. e \in Outputs(s) <=> s = o
                  BY <2>2 DEF Outputs, Kinds
            <3>2. e \in Entries /\ results' = Append(results, e)
                  BY <1>3, <1>4, <2>2
            <3>. HIDE DEF e
            <3>3. Times(results', Outputs(s)) = Times(results, Outputs(s)) + (IF e \in Outputs(s) THEN 1 ELSE 0)
                  BY <1>3, <3>2, TimesAppend
            <3>. QED BY <2>2, <3>1, <3>3
      <2>. QED BY <2>1, <2>2
<1>9. \A q, s, K : Times(ran, Runs(q, s, K)) \in Nat
      <2>1. Len(ran) \in Nat
            BY <1>3
      <2>. QED BY <2>1, TimesType
<1>10. ASSUME NEW s \in ScriptSet
       PROVE  /\ Times(results', Outputs(s)) = Times(ran', Runs(Head(scPorts'), s, {"output", "error"}))
              /\ s \notin Matching[Head(scPorts')] => Times(ran', Runs(Head(scPorts'), s, Kinds)) = 0
              /\ s \in Matching[Head(scPorts')] /\ ~ctxDone' =>
                    Times(Selected, {s}) = Times(jobs', {s}) + Cardinality(Holding(at', job', s))
                                            + Times(ran', Runs(Head(scPorts'), s, Kinds))
      <2>. DEFINE H == Holding(at, job, s)
                  J == Holding(at', job', s)
      <2>1. /\ Times(results, Outputs(s)) = Times(ran, Runs(p, s, {"output", "error"}))
            /\ s \notin Matching[p] => Times(ran, Runs(p, s, Kinds)) = 0
            /\ s \in Matching[p] /\ ~ctxDone =>
                  Times(Selected, {s}) = Times(jobs, {s}) + Cardinality(H) + Times(ran, Runs(p, s, Kinds))
            BY <1>2 DEF Serving, Balanced, p
      <2>2. J = IF o = s THEN H \ {w} ELSE H
            BY <1>1, <1>2 DEF Holding, ScType, o
      <2>3. o = s => w \in H
            BY <1>2 DEF Holding, o
      <2>4. IsFiniteSet(H) /\ Cardinality(H) \in Nat
            BY HoldingType
      <2>5. Times(jobs, {s}) \in Nat
            <3>1. Len(jobs) \in Nat
                  BY <1>2 DEF ScType
            <3>. QED BY <3>1, TimesType
      <2>. HIDE DEF H, J
      <2>6. Cardinality(H) = Cardinality(J) + (IF o = s THEN 1 ELSE 0) /\ Cardinality(J) \in Nat
            <3>1. CASE o = s
                  <4>1. Cardinality(H \ {w}) = Cardinality(H) - 1 /\ IsFiniteSet(H \ {w})
                        BY <2>3, <2>4, <3>1, FS_RemoveElement
                  <4>2. Cardinality(H \ {w}) \in Nat
                        BY <4>1, FS_CardinalityType
                  <4>. QED BY <2>2, <2>4, <3>1, <4>1, <4>2
            <3>2. CASE o # s
                  BY <2>2, <2>4, <3>2
            <3>. QED BY <3>1, <3>2
      <2>7. Times(ran', Runs(p, s, Kinds)) = Times(ran, Runs(p, s, Kinds)) + (IF o = s THEN 1 ELSE 0)
            BY <1>7
      <2>8. Times(ran', Runs(p, s, {"output", "error"})) = Times(results', Outputs(s))
            <3>1. kind \in {"output", "error"} <=> kind # "nothing"
                  BY DEF Kinds
            <3>. QED BY <1>7, <1>8, <2>1, <3>1
      <2>9. Times(ran, Runs(p, s, Kinds)) \in Nat
            BY <1>9
      <2>10. s \notin Matching[p] => Times(ran', Runs(p, s, Kinds)) = 0
             BY <1>3, <2>1, <2>7, <2>9
      <2>11. Cardinality(H) + Times(ran, Runs(p, s, Kinds)) = Cardinality(J) + Times(ran', Runs(p, s, Kinds))
             BY <2>4, <2>6, <2>7, <2>9
      <2>12. s \in Matching[p] /\ ~ctxDone =>
                Times(Selected, {s}) = Times(jobs, {s}) + Cardinality(J) + Times(ran', Runs(p, s, Kinds))
             BY <2>1, <2>4, <2>5, <2>6, <2>7, <2>9, <2>11
      <2>13. Head(scPorts') = p /\ jobs' = jobs /\ ctxDone' = ctxDone
             BY <1>2 DEF p
      <2>. QED BY <2>8, <2>10, <2>12, <2>13 DEF J
<1>11. \A s \in ScriptSet : Balanced(s)'
       BY <1>10 DEF Balanced
<1>12. \A v \in ScriptWorkers :
          /\ at'[v] = "run" => job'[v] \in Matching[Head(scPorts')]
          /\ at'[v] = "gone" /\ ~ctxDone' => jobs' = <<>>
       BY <1>1, <1>2 DEF ScType, Serving
<1>13. Serving'
       BY <1>11, <1>12 DEF Serving
<1>14. ScriptsReported'
       <2>1. Reports(outputs, ran, ctxDone)
             BY <1>2, ReportsAre
       <2>2. \A i \in 1..Len(outputs) : outputs[i].port # p
             BY <1>2, <1>3 DEF Progress
       <2>3. \A i \in 1..Len(outputs) : \A s, K :
                   Times(ran', Runs(outputs[i].port, s, K)) = Times(ran, Runs(outputs[i].port, s, K))
             BY <1>7, <1>9, <2>2
       <2>4. Reports(outputs, ran', ctxDone)
             <3>. SUFFICES ASSUME NEW i \in 1..Len(outputs)
                           PROVE  /\ InOrder(outputs[i].out)
                                  /\ \A s \in ScriptSet :
                                        /\ Times(outputs[i].out, Outputs(s)) =
                                              Times(ran', Runs(outputs[i].port, s, {"output", "error"}))
                                        /\ \/ ctxDone
                                           \/ Times(ran', Runs(outputs[i].port, s, Kinds)) =
                                                (IF s \in Matching[outputs[i].port]
                                                 THEN Times(Selected, {s}) ELSE 0)
                   BY DEF Reports
             <3>1. \A s, K : Times(ran', Runs(outputs[i].port, s, K)) = Times(ran, Runs(outputs[i].port, s, K))
                   BY <2>3
             <3>. QED BY <2>1, <3>1 DEF Reports
       <2>5. Reports(outputs', ran', ctxDone')
             BY <1>2, <2>4
       <2>. QED BY <2>5, ReportsAre
<1>. QED BY <1>2, <1>5, <1>6, <1>13, <1>14 DEF ScInv

\* The workers of a port start: nothing has run for it, all is in the channel.
LEMMA StartStep ==
    ASSUME ScInv, StartScripts
    PROVE  ScInv'
<1>1. /\ scPc = "port" /\ UNCHANGED <<scPorts, job, outputs, ran, ctxDone>>
      /\ ScType /\ Progress /\ ScriptsReported
      BY DEF StartScripts, ctxVars, ScInv
<1>2. ScriptsReported'
      BY <1>1, ReportsStay
<1>3. \A w \in ScriptWorkers : at[w] = "gone"
      BY <1>1 DEF Progress
<1>4. CASE scPorts = <<>>
      <2>1. scPc' = "done" /\ UNCHANGED <<jobs, at, results>>
            BY <1>4 DEF StartScripts
      <2>2. ScType' /\ Progress'
            BY <1>1, <1>3, <2>1 DEF ScType, Progress, ToSet
      <2>. QED BY <1>2, <2>1, <2>2 DEF ScInv
<1>5. CASE scPorts # <<>>
      <2>. DEFINE p == Head(scPorts)
      <2>1. /\ scPc' = "collect" /\ jobs' = Selected /\ results' = <<>>
            /\ at' = [w \in ScriptWorkers |-> "range"]
            BY <1>5 DEF StartScripts
      <2>2. p \in ToSet(scPorts) /\ Selected \in Seq(ScriptSet)
            BY <1>1, <1>5, TailDistinct, ScriptAssumption DEF ScType, ScriptSet
      <2>3. ScType'
            BY <1>1, <2>1, <2>2 DEF ScType
      <2>4. \A i \in 1..Len(ran) : ran[i].port \notin ToSet(scPorts)
            BY <1>1 DEF Progress
      <2>5. Progress'
            BY <1>1, <1>5, <2>1, <2>4 DEF Progress, ScType, ToSet
      <2>6. \A s, K : Times(ran, Runs(p, s, K)) = 0
            <3>. SUFFICES ASSUME NEW s, NEW K PROVE Times(ran, Runs(p, s, K)) = 0
                 OBVIOUS
            <3>1. \A i \in 1..Len(ran) : ran[i] \notin Runs(p, s, K)
                  BY <2>2, <2>4 DEF Runs
            <3>2. Len(ran) \in Nat
                  BY <1>1 DEF ScType
            <3>. QED BY <3>1, <3>2, TimesNone
      <2>7. \A s : Times(results', Outputs(s)) = 0
            <3>1. Len(results') = 0
                  BY <2>1
            <3>. QED BY <3>1, TimesNone
      <2>8. \A s : Holding(at', job', s) = {} /\ Cardinality({}) = 0
            BY <2>1, FS_EmptySet DEF Holding
      <2>9. \A s : Times(Selected, {s}) \in Nat
            <3>1. Len(Selected) \in Nat
                  BY <2>2
            <3>. QED BY <3>1, TimesType
      <2>10. Head(scPorts') = p /\ ran' = ran /\ jobs' = Selected
             BY <1>1, <2>1
      <2>. HIDE DEF p
      <2>11. ASSUME NEW s \in ScriptSet
             PROVE  /\ Times(results', Outputs(s)) = Times(ran', Runs(Head(scPorts'), s, {"output", "error"}))
                    /\ s \notin Matching[Head(scPorts')] => Times(ran', Runs(Head(scPorts'), s, Kinds)) = 0
                    /\ s \in Matching[Head(scPorts')] /\ ~ctxDone' =>
                          Times(Selected, {s}) = Times(jobs', {s}) + Cardinality(Holding(at', job', s))
                                                  + Times(ran', Runs(Head(scPorts'), s, Kinds))
             <3>1. Times(ran', Runs(Head(scPorts'), s, Kinds)) = 0
                   BY <2>6, <2>10
             <3>2. Times(results', Outputs(s)) = Times(ran', Runs(Head(scPorts'), s, {"output", "error"}))
                   BY <2>6, <2>7, <2>10
             <3>3. Times(Selected, {s}) = Times(jobs', {s}) + Cardinality(Holding(at', job', s)) + 0
                   BY <2>8, <2>9, <2>10
             <3>. QED BY <3>1, <3>2, <3>3
      <2>12. Serving'
             BY <2>1, <2>11 DEF Serving, Balanced
      <2>. QED BY <1>2, <2>3, <2>5, <2>12 DEF ScInv
<1>. QED BY <1>4, <1>5

\* The last worker is gone: what was collected is all there is to say, and if
\* the context has not ended every selected script has run.
LEMMA ReturnStep ==
    ASSUME ScInv, ReturnOutputs
    PROVE  ScInv'
<1>. DEFINE p == Head(scPorts)
<1>1. /\ scPc = "collect" /\ scPc' = "port" /\ scPorts' = Tail(scPorts) /\ scPorts # <<>>
      /\ \A w \in ScriptWorkers : at[w] = "gone"
      /\ UNCHANGED <<jobs, at, job, results, ran, ctxDone>>
      /\ ScType /\ Progress /\ Serving /\ ScriptsReported
      BY DEF ReturnOutputs, ctxVars, ScInv, Progress
<1>2. PICK out \in Sorted(results) : outputs' = Append(outputs, [port |-> p, out |-> out])
      BY DEF ReturnOutputs
<1>3. /\ p \in ToSet(scPorts) /\ p \notin ToSet(scPorts') /\ ToSet(scPorts') \subseteq ToSet(scPorts)
      /\ scPorts' \in Seq(Ports) /\ p \in Ports
      /\ \A i, j \in 1..Len(scPorts') : scPorts'[i] = scPorts'[j] => i = j
      BY <1>1, TailDistinct DEF ScType
<1>4. results \in Seq(Entries) /\ outputs \in Seq([port : Ports, out : Seq(Entries)])
      BY <1>1 DEF ScType
<1>5. out \in Seq(Entries) /\ InOrder(out) /\ \A T : Times(out, T) = Times(results, T)
      BY <1>4, TimesSorted
<1>. DEFINE o == [port |-> p, out |-> out]
<1>6. o \in [port : Ports, out : Seq(Entries)] /\ o.port = p /\ o.out = out
      BY <1>3, <1>5
<1>. HIDE DEF p, o
<1>7. /\ outputs' = Append(outputs, o) /\ outputs' \in Seq([port : Ports, out : Seq(Entries)])
      /\ Len(outputs') = Len(outputs) + 1 /\ Len(outputs) \in Nat /\ outputs'[Len(outputs) + 1] = o
      /\ \A i \in 1..Len(outputs) : outputs'[i] = outputs[i]
      BY <1>2, <1>4, <1>6 DEF o
<1>8. \A i \in 1..Len(outputs') : i \in 1..Len(outputs) \/ i = Len(outputs) + 1
      BY <1>7
<1>9. ScType'
      BY <1>1, <1>3, <1>7 DEF ScType
<1>10. Progress'
       <2>1. \A i \in 1..Len(outputs') : outputs'[i].port \notin ToSet(scPorts')
             BY <1>1, <1>3, <1>6, <1>7, <1>8 DEF Progress
       <2>2. \A i \in 1..Len(ran) : ran[i].port \notin ToSet(scPorts')
             BY <1>1, <1>3 DEF Progress, p
       <2>3. ToSet(scPorts)' = ToSet(scPorts')
             BY DEF ToSet
       <2>. QED BY <1>1, <2>1, <2>2, <2>3 DEF Progress
<1>11. ASSUME NEW s \in ScriptSet
       PROVE  /\ Times(out, Outputs(s)) = Times(ran, Runs(p, s, {"output", "error"}))
              /\ \/ ctxDone
                 \/ Times(ran, Runs(p, s, Kinds)) = (IF s \in Matching[p] THEN Times(Selected, {s}) ELSE 0)
       <2>1. Balanced(s)
             BY <1>1 DEF Serving
       <2>2. Times(out, Outputs(s)) = Times(ran, Runs(p, s, {"output", "error"}))
             BY <1>5, <2>1 DEF Balanced, p
       <2>3. ASSUME ~ctxDone, s \in Matching[p] PROVE Times(ran, Runs(p, s, Kinds)) = Times(Selected, {s})
             <3>1. jobs = <<>>
                   BY <1>1, <2>3, ScriptAssumption DEF Serving
             <3>2. Times(jobs, {s}) = 0
                   <4>1. Len(jobs) = 0
                         BY <3>1
                   <4>. QED BY <4>1, TimesNone
             <3>3. Holding(at, job, s) = {} /\ Cardinality({}) = 0
                   BY <1>1, FS_EmptySet DEF Holding
             <3>4. Times(ran, Runs(p, s, Kinds)) \in Nat
                   <4>1. Len(ran) \in Nat
                         BY <1>1 DEF ScType
                   <4>. QED BY <4>1, TimesType
             <3>5. Times(Selected, {s}) = Times(jobs, {s}) + Cardinality(Holding(at, job, s)) + Times(ran, Runs(p, s, Kinds))
                   BY <2>1, <2>3 DEF Balanced, p
             <3>. QED BY <3>2, <3>3, <3>4, <3>5
       <2>4. s \notin Matching[p] => Times(ran, Runs(p, s, Kinds)) = 0
             BY <2>1 DEF Balanced, p
       <2>. QED BY <2>2, <2>3, <2>4
<1>12. Reports(outputs', ran, ctxDone)
       <2>1. Reports(outputs, ran, ctxDone)
             BY <1>1, ReportsAre
       <2>. SUFFICES ASSUME NEW i \in 1..Len(outputs')
                     PROVE  /\ InOrder(outputs'[i].out)
                            /\ \A s \in ScriptSet :
                                  /\ Times(outputs'[i].out, Outputs(s)) =
                                        Times(ran, Runs(outputs'[i].port, s, {"output", "error"}))
                                  /\ \/ ctxDone
                                     \/ Times(ran, Runs(outputs'[i].port, s, Kinds)) =
                                          (IF s \in Matching[outputs'[i].port]
                                           THEN Times(Selected, {s}) ELSE 0)
             BY DEF Reports
       <2>2. CASE i \in 1..Len(outputs)
             <3>1. outputs'[i] = outputs[i]
                   BY <1>7, <2>2
             <3>. QED BY <2>1, <2>2, <3>1 DEF Reports
       <2>3. CASE i = Len(outputs) + 1
             <3>1. outputs'[i].out = out /\ outputs'[i].port = p
                   BY <1>6, <1>7, <2>3
             <3>. QED BY <1>5, <1>11, <3>1
       <2>. QED BY <1>8, <2>2, <2>3
<1>13. ScriptsReported'
       <2>1. ran' = ran /\ ctxDone' = ctxDone
             BY <1>1
       <2>2. Reports(outputs', ran', ctxDone')
             BY <1>12, <2>1
       <2>. QED BY <2>2, ReportsAre
<1>. QED BY <1>1, <1>9, <1>10, <1>13 DEF ScInv

LEMMA ScInvStep ==
    ASSUME ScInv, ResultInv, [Next]_vars
    PROVE  ScInv'
<1>1. ctxDone' \in {ctxDone, TRUE}
      BY ContextGrows DEF vars, ctxVars
<1>2. CASE UNCHANGED scVars
      <2>1. UNCHANGED <<scPc, scPorts, jobs, at, job, results, outputs, ran>>
            BY <1>2 DEF scVars
      <2>2. ScType' /\ Progress'
            BY <2>1 DEF ScInv, ScType, Progress, ToSet
      <2>3. ScriptsReported'
            BY <1>1, <2>1, ReportsStay DEF ScInv
      <2>4. CASE scPc = "collect"
            <3>1. Serving
                  BY <2>4 DEF ScInv
            <3>2. ~ctxDone' => ~ctxDone
                  BY <1>1
            <3>3. ASSUME NEW s \in ScriptSet PROVE Balanced(s)'
                  <4>1. Balanced(s)
                        BY <3>1 DEF Serving
                  <4>2. Holding(at', job', s) = Holding(at, job, s)
                        BY <2>1
                  <4>. QED BY <2>1, <3>2, <4>1, <4>2 DEF Balanced
            <3>4. \A w \in ScriptWorkers :
                     /\ at'[w] = "run" => job'[w] \in Matching[Head(scPorts')]
                     /\ at'[w] = "gone" /\ ~ctxDone' => jobs' = <<>>
                  BY <2>1, <3>1, <3>2 DEF Serving
            <3>5. Serving'
                  BY <3>3, <3>4 DEF Serving
            <3>. QED BY <2>1, <2>2, <2>3, <3>5 DEF ScInv
      <2>5. CASE scPc # "collect"
            BY <2>1, <2>2, <2>3, <2>5 DEF ScInv
      <2>. QED BY <2>4, <2>5
<1>3. CASE Scripts
      <2>1. CASE RunAllScripts(OpenPorts)
            <3>1. /\ scPc = "idle" /\ scPc' = "port" /\ scPorts' = OpenPorts
                  /\ UNCHANGED <<jobs, at, job, results, outputs, ran, ctxDone>>
                  /\ ran = <<>> /\ outputs = <<>>
                  /\ ScType /\ Progress /\ ScriptsReported
                  BY <2>1 DEF RunAllScripts, ctxVars, ScInv, Progress
            <3>2. OpenPorts \in Seq(Ports) /\ \A k, l \in 1..Len(OpenPorts) : OpenPorts[k] = OpenPorts[l] => k = l
                  BY OpenPortsDistinct
            <3>3. ScType'
                  BY <3>1, <3>2 DEF ScType
            <3>4. Progress'
                  BY <3>1 DEF Progress
            <3>5. ScriptsReported'
                  BY <1>1, <3>1, ReportsStay
            <3>. QED BY <3>1, <3>3, <3>4, <3>5 DEF ScInv
      <2>. QED BY <1>3, <2>1, StartStep, ReturnStep DEF Scripts, ScStep
<1>4. CASE \E w \in ScriptWorkers : ScriptWorker(w)
      BY <1>4, TakeStep, LookStep, RunStep DEF ScriptWorker, ScWorker
<1>5. CASE ~(Scripts \/ \E w \in ScriptWorkers : ScriptWorker(w))
      <2>1. UNCHANGED scVars
            BY <1>5 DEF Next, Main, LoadTargets, ListMode, ParseOptions, ScanRanges, ScanTarget,
                        PrintReport, NextStage, Goto, analysisVars, Banners, OSDetection, Trace,
                        Network, Signal, Exited, vars
      <2>. QED BY <1>2, <2>1
<1>. QED BY <1>3, <1>4, <1>5

\* For any number of workers, any selection and any ports, whatever the
\* interleaving: the report of a port has an entry for every run that had
\* something to say and for nothing else, and without an interrupt every
\* matching script has run as often as it was selected (script.go:216-257).
THEOREM ReportsCorrect == Spec => []ScriptsReported
<1>1. Init => ScInv
      <2>. SUFFICES ASSUME Init PROVE ScInv
            OBVIOUS
      <2>1. /\ scPc = "idle" /\ scPorts = <<>> /\ jobs = <<>> /\ results = <<>> /\ outputs = <<>> /\ ran = <<>>
            /\ at = [w \in ScriptWorkers |-> "gone"] /\ job = [w \in ScriptWorkers |-> NoScript]
            BY DEF Init, ScInit
      <2>2. ScType /\ Progress
            BY <2>1 DEF ScType, Progress
      <2>3. ScriptsReported
            BY <2>1 DEF ScriptsReported
      <2>. QED BY <2>1, <2>2, <2>3 DEF ScInv
<1>2. ScInv => ScriptsReported
      BY DEF ScInv
<1>. QED BY <1>1, <1>2, ScInvStep, ReportInvariance, PTL DEF Spec
=============================================================================
