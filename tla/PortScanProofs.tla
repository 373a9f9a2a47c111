--------------------------- MODULE PortScanProofs ---------------------------
(***************************************************************************)
(* What holds of PortScan for any constants: the raw probes behave in it   *)
(* as they do alone; the verdict of a probe that sends once and reads     *)
(* once has its reason, and so has that of a relayed probe.                *)
(***************************************************************************)
EXTENDS PortScan, RawProbeProofs, SequenceTheorems

-----------------------------------------------------------------------------
(* The raw probes.  A step of another family leaves them alone or ends the  *)
(* context, which is a step of RawProbe too, unless the program has         *)
(* crashed; only a raw probe crashes it.                                    *)

PSInv == Inv /\ (family # "raw" => ~crashed)

LEMMA OthersCancel ==
    ASSUME OneProbe \/ ProbePacket \/ RelayProbe \/ RelayReply \/ CancelProbe \/ Probed
    PROVE  UNCHANGED <<family, restOfVars>> /\ family # "raw" /\ (ctxDone' = ctxDone \/ ctxDone' = TRUE)
<1>1. CASE OneProbe
      BY <1>1 DEF OneProbe, OneStep, OneCanceled, OneUnsent, OneSend, OneTimeOut,
                  OneInterrupted, ReadTable
<1>2. CASE ProbePacket
      BY <1>2 DEF ProbePacket, OnePacket, Answered, Stray, OneRead
<1>3. CASE RelayProbe \/ RelayReply
      BY <1>3 DEF RelayProbe, RelayReply, RelStep, RelReply, Connect, ReadFTPResponse,
                  NoFTPResponse, AskProxy, NoProxyLeft, ZombieError, LongSegment, Forge
<1>4. CASE CancelProbe
      BY <1>4 DEF CancelProbe
<1>5. CASE Probed
      BY <1>5 DEF Probed, psVars, vars, restOfVars, probeVars, listenVars
<1>. QED BY <1>1, <1>2, <1>3, <1>4, <1>5

LEMMA ContextGrows == Next => (ctxDone' = ctxDone \/ ctxDone' = TRUE)
BY DEF Next, Probe, GiveUpEarly, Start, GiveUpLate, SendFails, Send, TakeResponse, TimeOut,
       SelectCanceled, Listener, Open, CloseListener, HandOver, Network, Answer, Noise,
       Cancel, Ended, vars, probeVars, listenVars, envVars

LEMMA StepOfRaw ==
    ASSUME PSInv, [PSNext]_psVars
    PROVE  [Next]_vars /\ (family # "raw" => ~crashed)'
<1>1. CASE RawScan
      BY <1>1 DEF RawScan
<1>2. CASE OneProbe \/ ProbePacket \/ RelayProbe \/ RelayReply \/ CancelProbe \/ Probed
      <2>1. UNCHANGED restOfVars /\ family # "raw" /\ UNCHANGED family
            BY <1>2, OthersCancel
      <2>2. ~crashed /\ UNCHANGED crashed
            BY <2>1 DEF PSInv, restOfVars, probeVars
      <2>3. CASE ctxDone' = ctxDone
            BY <2>1, <2>2, <2>3 DEF vars, restOfVars, probeVars, listenVars
      <2>4. CASE ctxDone' # ctxDone
            <3>1. ~ctxDone /\ ctxDone' = TRUE
                  BY <1>2, <2>4, OthersCancel DEF PSInv, Inv, TypeOK
            <3>2. Cancel
                  BY <2>1, <3>1 DEF Cancel, restOfVars
            <3>. QED BY <2>1, <2>2, <3>2 DEF Next
      <2>. QED BY <2>3, <2>4
<1>3. CASE UNCHANGED psVars
      BY <1>3 DEF psVars, PSInv, vars
<1>. QED BY <1>1, <1>2, <1>3 DEF PSNext

LEMMA RawInvariance == PSSpec => []PSInv
<1>1. PSInit => PSInv
      BY InitInv DEF PSInit, PSInv, Init
<1>2. PSInv /\ [PSNext]_psVars => PSInv'
      <2>. SUFFICES ASSUME PSInv, [PSNext]_psVars PROVE PSInv'
            OBVIOUS
      <2>1. [Next]_vars /\ (family # "raw" => ~crashed)' /\ Inv
            BY StepOfRaw DEF PSInv
      <2>. QED BY <2>1, TypeStep, HeardStep, JustifiedStep DEF PSInv, Inv
<1>. QED BY <1>1, <1>2, PTL DEF PSSpec

\* Whatever family of probes a scan type leads to, the raw probes in it are
\* those of RawProbe: what holds of these alone holds in the scan.
THEOREM RawScansRefine == PSSpec => Spec
<1>1. PSInit => Init
      BY DEF PSInit
<1>2. PSInv /\ [PSNext]_psVars => [Next]_vars
      BY StepOfRaw
<1>. QED BY <1>1, <1>2, RawInvariance, PTL DEF PSSpec, Spec

\* A raw verdict rests on an answer of that very port in the scan as well
\* (scan.go:644-657, rawscan_linux.go:171-180).
THEOREM ScanVerdictsJustified == PSSpec => []Justified
<1>. QED BY RawScansRefine, VerdictsJustified, PTL

-----------------------------------------------------------------------------
(* The probes that send once.  That a verdict has its answer says too little *)
(* of a probe that goes on: what it has heard so far must not have called    *)
(* for a verdict.                                                            *)

OneType ==
    /\ method \in Scans \cup Pings
    /\ onePc \in {"check", "read", "done"}
    /\ got \subseteq [from : {"target", "stranger"}, what : Packets]
    /\ ctxDone \in BOOLEAN

Undecided ==
    onePc # "done" =>
        /\ verdict = "none"
        /\ method \in Scans => got = {}
        /\ method \in Pings \ {"ack", "arp"} => \A g \in got : g.what # "answer"

OneInv == OneType /\ Undecided /\ VerdictHasAnswer

\* What a verdict says of the packet it was read from.
LEMMA ReadsScan ==
    ASSUME NEW m \in Scans, NEW from, NEW what \in Packets, Passes(m, from, what)
    PROVE  /\ Reads(m, what) \in {"open", "closed", "filtered", "open|filtered"}
           /\ Reads(m, what) = "closed" <=> what \in {"refusal", "unreachable"}
           /\ Reads(m, what) = "open" =>
                \/ from = "target" /\ what \in {"answer", "other"}
                \/ m \in SCTP /\ what = "answer"
BY DEF Reads, Passes, Data, Errors, SCTP, Scans, Packets

LEMMA ReadsPing ==
    ASSUME NEW m \in Pings, NEW from, NEW what \in Packets, Passes(m, from, what)
    PROVE  /\ Reads(m, what) \in {"alive", "dead"}
           /\ m # "ack" /\ what = "answer" => Reads(m, what) = "alive"
           /\ Reads(m, what) = "alive" =>
                \/ from = "target" /\ what \in {"answer", "refusal", "other"}
                \/ m = "connect" /\ what = "refusal"
                \/ m = "sctp ping"
                \/ m = "arp"
BY DEF Reads, Passes, Data, Errors, SCTP, Scans, Pings, Packets

LEMMA ScanReadStep ==
    ASSUME OneInv, NEW from \in {"target", "stranger"}, NEW what \in Packets, OneRead(from, what),
           method \in Scans
    PROVE  OneInv'
<1>. DEFINE g == [from |-> from, what |-> what]
<1>1. /\ onePc = "read" /\ Passes(method, from, what)
      /\ got' = got \cup {g} /\ UNCHANGED <<method, ctxDone>>
      /\ g.from = from /\ g.what = what
      BY DEF OneRead
<1>2. method \notin Pings /\ got = {} /\ got' = {g}
      BY <1>1 DEF OneInv, Undecided, Scans, Pings
<1>3. /\ Reads(method, what) \in {"open", "closed", "filtered", "open|filtered"}
      /\ Reads(method, what) = "closed" <=> what \in {"refusal", "unreachable"}
      /\ Reads(method, what) = "open" =>
           \/ from = "target" /\ what \in {"answer", "other"}
           \/ method \in SCTP /\ what = "answer"
      <2>1. Passes(method, from, what)
            BY <1>1
      <2>. QED BY <2>1, ReadsScan, Zenon
<1>4. /\ onePc' = "done"
      /\ \/ verdict' = "filtered" /\ method = "udp" /\ ctxDone
         \/ verdict' = Reads(method, what)
      BY <1>3 DEF OneRead, EndOrNext, End
<1>5. OneType' /\ Undecided'
      BY <1>1, <1>4 DEF OneInv, OneType, Undecided
<1>6. /\ \A w : Came(w)' <=> what \in w
      /\ \A who, w : CameFrom(who, w)' <=> who = from /\ what \in w
      BY <1>1, <1>2 DEF Came, CameFrom
<1>7. VerdictHasAnswer'
      BY <1>1, <1>2, <1>3, <1>4, <1>6 DEF VerdictHasAnswer
<1>. QED BY <1>5, <1>7 DEF OneInv

LEMMA PingReadStep ==
    ASSUME OneInv, NEW from \in {"target", "stranger"}, NEW what \in Packets, OneRead(from, what),
           method \in Pings
    PROVE  OneInv'
<1>. DEFINE g == [from |-> from, what |-> what]
<1>1. /\ onePc = "read" /\ method # "arp" /\ Passes(method, from, what)
      /\ got' = got \cup {g} /\ UNCHANGED <<method, ctxDone>>
      /\ g.from = from /\ g.what = what
      BY DEF OneRead
<1>2. method \notin Scans /\ method # "udp"
      BY DEF Scans, Pings
<1>3. verdict = "none" /\ (method # "ack" => \A h \in got : h.what # "answer")
      BY <1>1 DEF OneInv, Undecided
<1>4. /\ Reads(method, what) \in {"alive", "dead"}
      /\ method # "ack" /\ what = "answer" => Reads(method, what) = "alive"
      /\ Reads(method, what) = "alive" =>
           \/ from = "target" /\ what \in {"answer", "refusal", "other"}
           \/ method = "connect" /\ what = "refusal"
           \/ method = "sctp ping"
      BY <1>1, ReadsPing
<1>5. \/ onePc' = "done" /\ verdict' = Reads(method, what)
      \/ onePc' = "check" /\ Reads(method, what) = "dead" /\ verdict' = "none"
      BY <1>2, <1>3 DEF OneRead, EndOrNext, End
<1>6. OneType' /\ Undecided'
      BY <1>1, <1>2, <1>3, <1>4, <1>5 DEF OneInv, OneType, Undecided
<1>7. /\ \A w : what \in w => Came(w)' /\ CameFrom(from, w)'
      /\ CameFrom("target", {"answer"})' /\ method # "ack" => what = "answer"
      BY <1>1, <1>3 DEF Came, CameFrom
<1>8. VerdictHasAnswer'
      BY <1>1, <1>2, <1>4, <1>5, <1>7 DEF VerdictHasAnswer
<1>. QED BY <1>6, <1>8 DEF OneInv

LEMMA ReadStep ==
    ASSUME OneInv, NEW from \in {"target", "stranger"}, NEW what \in Packets, OneRead(from, what)
    PROVE  OneInv'
BY ScanReadStep, PingReadStep DEF OneInv, OneType

\* A step that hears nothing leaves the verdict open or ends with one that
\* needs no answer.
LEMMA SilentStep ==
    ASSUME OneInv, UNCHANGED <<method, got>>, onePc # "done",
           ctxDone' = ctxDone \/ ctxDone' = TRUE,
           \/ onePc' \in {"check", "read"} /\ UNCHANGED verdict
           \/ onePc' = "done" /\ verdict' \in {"dead", "filtered", "open|filtered"}
    PROVE  OneInv'
<1>1. OneType'
      BY DEF OneInv, OneType
<1>2. Undecided'
      BY DEF OneInv, Undecided
<1>3. VerdictHasAnswer'
      BY DEF OneInv, Undecided, VerdictHasAnswer, Came, CameFrom, Scans, Pings
<1>. QED BY <1>1, <1>2, <1>3 DEF OneInv

LEMMA OneProbeStep ==
    ASSUME OneInv, OneProbe
    PROVE  OneInv'
<1>1. \A m : Unsent(m) \in {"dead", "filtered", "open|filtered"} /\ Silent(m) \in {"dead", "filtered", "open|filtered"}
      BY DEF Unsent, Silent
<1>2. CASE ReadTable
      <2>1. /\ method = "arp" /\ UNCHANGED <<method, ctxDone>>
            /\ onePc' = "done" /\ verdict' \in {"alive", "dead"}
            /\ got' \subseteq got \cup {[from |-> "target", what |-> "answer"]}
            BY <1>2 DEF ReadTable, End
      <2>2. OneType' /\ Undecided'
            BY <2>1 DEF OneInv, OneType, Undecided, Packets
      <2>3. VerdictHasAnswer'
            BY <2>1 DEF VerdictHasAnswer, Scans
      <2>. QED BY <2>2, <2>3 DEF OneInv
<1>3. CASE OneCanceled \/ OneUnsent
      BY <1>1, <1>3, SilentStep DEF OneCanceled, OneUnsent, End, EndOrNext
<1>4. CASE OneSend
      BY <1>4, SilentStep DEF OneSend
<1>5. CASE OneTimeOut
      BY <1>1, <1>5, SilentStep DEF OneTimeOut, End, EndOrNext
<1>6. CASE OneInterrupted
      BY <1>1, <1>6, SilentStep DEF OneInterrupted, End
<1>. QED BY <1>2, <1>3, <1>4, <1>5, <1>6 DEF OneProbe, OneStep

LEMMA OneInvariance == PSSpec => []OneInv
<1>1. PSInit => OneInv
      BY DEF PSInit, Init, OneInit, OneInv, OneType, Undecided, VerdictHasAnswer, Came, CameFrom
<1>2. OneInv /\ [PSNext]_psVars => OneInv'
      <2>. SUFFICES ASSUME OneInv, [PSNext]_psVars PROVE OneInv'
            OBVIOUS
      <2>1. ASSUME UNCHANGED oneVars, ctxDone' = ctxDone \/ ctxDone' = TRUE
            PROVE  OneInv'
            BY <2>1 DEF oneVars, OneInv, OneType, Undecided, VerdictHasAnswer, Came, CameFrom
      <2>2. CASE RawScan
            <3>1. ctxDone' = ctxDone \/ ctxDone' = TRUE
                  BY <2>2, ContextGrows DEF RawScan
            <3>. QED BY <2>1, <2>2, <3>1 DEF RawScan
      <2>3. CASE OneProbe
            BY <2>3, OneProbeStep
      <2>4. CASE ProbePacket
            <3>1. CASE \E what \in Packets : OneRead("target", what) \/ OneRead("stranger", what)
                  BY <3>1, ReadStep
            <3>2. CASE UNCHANGED <<method, onePc, verdict, got, ctxDone>>
                  BY <3>2 DEF OneInv, OneType, Undecided, VerdictHasAnswer, Came, CameFrom
            <3>. QED BY <2>4, <3>1, <3>2 DEF ProbePacket, OnePacket, Answered, Stray, Packets
      <2>5. CASE RelayProbe \/ RelayReply \/ CancelProbe \/ Probed \/ UNCHANGED psVars
            <3>1. UNCHANGED oneVars
                  BY <2>5 DEF RelayProbe, RelayReply, CancelProbe, Probed, psVars
            <3>2. ctxDone' = ctxDone \/ ctxDone' = TRUE
                  BY <2>5, OthersCancel DEF psVars, vars
            <3>. QED BY <2>1, <3>1, <3>2
      <2>. QED BY <2>2, <2>3, <2>4, <2>5 DEF PSNext
<1>. QED BY <1>1, <1>2, PTL DEF PSSpec

\* The verdict of a UDP, SCTP or IP protocol scan and of every ping has a
\* packet that accounts for it, for any number of ports and stray packets
\* (scan.go:716-775, discovery.go:116-361).
THEOREM AnswersExplainVerdicts == PSSpec => []VerdictHasAnswer
<1>1. OneInv => VerdictHasAnswer
      BY DEF OneInv
<1>. QED BY <1>1, OneInvariance, PTL
-----------------------------------------------------------------------------
(* The relays.  A line is read for the reply to one command while the server *)
(* may have meant it for another: the invariant says which command a line    *)
(* that decides can come from, and that with replies of one line the line    *)
(* that is read next is the reply to the command it is read for.             *)

Sayings == {"granted", "refused", "refused, 200 bytes", "error", "long"}

RelType ==
    /\ relay \in {"ftp", "proxy", "idle"}
    /\ inbox \in Seq(Nat)
    /\ replied \in [Commands -> [code : Nat, lines : Nat]]
    /\ tried \in Seq(Sayings)
    /\ relPc # "done" => relState = "none"

\* The commands go out in this order, each once.
NotYet ==
    /\ relPc \in {"connect", "banner", "USER", "PASS", "PORT"} => replied["LIST"] = NotAsked
    /\ relPc \in {"connect", "banner", "USER", "PASS"} => replied["PORT"] = NotAsked
    /\ relPc \in {"connect", "banner", "USER"} => replied["PASS"] = NotAsked
    /\ relPc \in {"connect", "banner"} => replied["USER"] = NotAsked
    /\ relPc = "connect" => replied["banner"] = NotAsked

\* Lines that decide come from the commands they decide about.
LinesFrom ==
    relPc # "done" => \A i \in 1..Len(inbox) :
        /\ inbox[i] = 200 => replied["PORT"].code = 200
        /\ inbox[i] \in {150, 226} => replied["LIST"].code \in {150, 226}

OneLineEach == \A c \in Commands : replied[c].lines =< 1

\* The bounce is at one of its commands with a line to read.
Dialogue ==
    /\ relPc \in Commands \cup {"connect", "done"}
    /\ relPc = "connect" => inbox = <<>>
    /\ relPc \in Commands => Len(inbox) > 0
    /\ relPc = "LIST" => replied["PORT"].code = 200
    /\ relPc \in Commands /\ OneLineEach =>
         Len(inbox) = 1 /\ inbox[1] = replied[relPc].code /\ replied[relPc].lines = 1

\* The proxies before the one that consented did not.
Asking ==
    /\ relPc \in {"proxies", "done"}
    /\ relPc = "proxies" => \A i \in 1..Len(tried) : tried[i] \notin Grants

Zombie ==
    /\ relPc \in {"id1", "forge", "id2", "done"}
    /\ relPc = "id1" => tried = <<>>
    /\ relPc \in {"forge", "id2"} => tried = <<"long">>

RelInv ==
    /\ RelType
    /\ RelayVerdict
    /\ relay = "ftp" => NotYet /\ LinesFrom /\ Dialogue
    /\ relay = "proxy" => Asking
    /\ relay = "idle" => Zombie

LEMMA RelInitInv == RelInit => RelInv
<1>. SUFFICES ASSUME RelInit PROVE RelInv
      OBVIOUS
<1>1. RelType
      BY DEF RelInit, RelType, NotAsked
<1>2. RelayVerdict
      BY DEF RelInit, RelayVerdict
<1>3. relay = "ftp" => NotYet /\ LinesFrom /\ Dialogue
      BY DEF RelInit, NotYet, LinesFrom, Dialogue, Commands
<1>4. (relay = "proxy" => Asking) /\ (relay = "idle" => Zombie)
      BY DEF RelInit, Asking, Zombie
<1>. QED BY <1>1, <1>2, <1>3, <1>4 DEF RelInv

Ranked(c, d) == <<c, d>> \in {<<"banner", "USER">>, <<"USER", "PASS">>, <<"USER", "PORT">>,
                              <<"PASS", "PORT">>, <<"PORT", "LIST">>}

\* A reply of n lines joins what is left of the inbox.
LEMMA ReplyStep ==
    ASSUME RelInv, relay = "ftp", UNCHANGED <<relay, tried, relState>>, relState = "none",
           NEW c \in Commands, relPc' = c, NEW code \in Codes(c), NEW n \in 1..2,
           NEW old \in Seq(Nat), NEW new, new = [i \in 1..n |-> code],
           \A i \in 1..Len(old) : \E j \in 1..Len(inbox) : old[i] = inbox[j],
           OneLineEach => Len(old) = 0,
           inbox' = old \o new,
           replied' = [replied EXCEPT ![c] = [code |-> code, lines |-> n]],
           \/ relPc = "connect" /\ c = "banner"
           \/ Ranked(relPc, c) /\ (c = "LIST" => replied["PORT"].code = 200)
    PROVE  RelInv'
<1>1. /\ code \in Nat
      /\ code = 200 => c = "PORT"
      /\ code \in {150, 226} => c = "LIST"
      BY DEF Codes, Commands
<1>2. new \in Seq(Nat) /\ Len(new) = n /\ \A i \in 1..n : new[i] = code
      BY <1>1
<1>3. /\ inbox' \in Seq(Nat)
      /\ Len(inbox') = Len(old) + n
      /\ \A i \in 1..Len(inbox') : inbox'[i] = code \/ \E j \in 1..Len(inbox) : inbox'[i] = inbox[j]
      BY <1>2
<1>4. replied[c] = NotAsked
      BY DEF RelInv, NotYet, Ranked, Commands
<1>5. /\ replied' \in [Commands -> [code : Nat, lines : Nat]]
      /\ replied'[c] = [code |-> code, lines |-> n]
      /\ \A d \in Commands : d # c => replied'[d] = replied[d]
      <2>. DEFINE reply == [code |-> code, lines |-> n]
      <2>1. reply \in [code : Nat, lines : Nat]
            BY <1>1
      <2>2. replied \in [Commands -> [code : Nat, lines : Nat]] /\ replied' = [replied EXCEPT ![c] = reply]
            BY DEF RelInv, RelType
      <2>. HIDE DEF reply
      <2>3. /\ replied' \in [Commands -> [code : Nat, lines : Nat]]
            /\ replied'[c] = reply
            /\ \A d \in Commands : d # c => replied'[d] = replied[d]
            BY <2>1, <2>2
      <2>. QED BY <2>3 DEF reply
<1>6. RelType'
      BY <1>3, <1>5 DEF RelInv, RelType
<1>7. NotYet'
      BY <1>5 DEF RelInv, NotYet, Ranked, Commands
<1>8. LinesFrom'
      <2>1. ASSUME NEW d \in Commands, d = c
            PROVE  replied[d].code = 0
            BY <1>4, <2>1 DEF NotAsked
      <2>2. \A j \in 1..Len(inbox) :
               /\ inbox[j] = 200 => replied["PORT"].code = 200 /\ c # "PORT"
               /\ inbox[j] \in {150, 226} => replied["LIST"].code \in {150, 226} /\ c # "LIST"
            BY <2>1 DEF RelInv, LinesFrom, Commands, Ranked
      <2>3. \A j \in 1..Len(inbox) :
               /\ inbox[j] = 200 => replied'["PORT"].code = 200
               /\ inbox[j] \in {150, 226} => replied'["LIST"].code \in {150, 226}
            BY <1>5, <2>2 DEF Commands
      <2>4. /\ code = 200 => replied'["PORT"].code = 200
            /\ code \in {150, 226} => replied'["LIST"].code \in {150, 226}
            BY <1>1, <1>5
      <2>5. ASSUME NEW i \in 1..Len(inbox')
            PROVE  /\ inbox'[i] = 200 => replied'["PORT"].code = 200
                   /\ inbox'[i] \in {150, 226} => replied'["LIST"].code \in {150, 226}
            <3>1. CASE inbox'[i] = code
                  BY <2>4, <3>1
            <3>2. CASE \E j \in 1..Len(inbox) : inbox'[i] = inbox[j]
                  BY <2>3, <3>2
            <3>. QED BY <1>3, <2>5, <3>1, <3>2
      <2>. QED BY <2>5 DEF LinesFrom
<1>9. Dialogue'
      <2>1. ASSUME OneLineEach'
            PROVE  Len(inbox') = 1 /\ inbox'[1] = replied'[c].code /\ replied'[c].lines = 1
            <3>1. n = 1
                  BY <1>5, <2>1 DEF OneLineEach
            <3>2. OneLineEach
                  <4>1. replied[c].lines = 0
                        BY <1>4 DEF NotAsked
                  <4>2. \A d \in Commands : d # c => replied[d].lines =< 1
                        BY <1>5, <2>1 DEF OneLineEach
                  <4>. QED BY <4>1, <4>2 DEF OneLineEach
            <3>3. Len(old) = 0
                  BY <3>2
            <3>4. Len(inbox') = 1 /\ inbox'[1] = new[1]
                  BY <1>2, <3>1, <3>3
            <3>. QED BY <1>2, <1>5, <3>1, <3>4
      <2>2. c = "LIST" => replied'["PORT"].code = 200
            BY <1>5 DEF Ranked, Commands
      <2>3. Len(inbox') > 0
            BY <1>3
      <2>. QED BY <2>1, <2>2, <2>3 DEF Dialogue, Commands
<1>10. RelayVerdict'
      BY DEF RelayVerdict
<1>. QED BY <1>6, <1>7, <1>8, <1>9, <1>10 DEF RelInv

\* An end of the bounce with a verdict that has its reason.
LEMMA EndStep ==
    ASSUME RelInv, relay = "ftp", UNCHANGED <<relay, tried>>, NEW s, RelEnd(s),
           inbox' \in Seq(Nat), replied' \in [Commands -> [code : Nat, lines : Nat]],
           s \in {"open", "closed"} => replied'["PORT"].code = 200,
           s = "open" => replied'["LIST"].code \in {150, 226},
           s = "closed" /\ replied'["LIST"].code \in {150, 226} =>
             \E c \in Commands : replied'[c].lines > 1
    PROVE  RelInv'
<1>1. RelType' /\ RelayVerdict'
      BY DEF RelInv, RelType, RelayVerdict, RelEnd
<1>2. NotYet' /\ LinesFrom' /\ Dialogue'
      BY DEF RelEnd, NotYet, LinesFrom, Dialogue, Commands
<1>. QED BY <1>1, <1>2 DEF RelInv

LEMMA ConnectStep == RelInv /\ relay = "ftp" /\ Connect => RelInv'
<1>. SUFFICES ASSUME RelInv, relay = "ftp", Connect PROVE RelInv'
      OBVIOUS
<1>1. CASE RelEnd("filtered") /\ UNCHANGED <<inbox, replied>>
      BY <1>1, EndStep DEF Connect, RelInv, RelType
<1>2. ASSUME NEW n \in 1..2, inbox' = [i \in 1..n |-> 220], relPc' = "banner", UNCHANGED relState,
             replied' = [replied EXCEPT !["banner"] = [code |-> 220, lines |-> n]]
      PROVE  RelInv'
      <2>. DEFINE old == <<>>
                  c == "banner"
                  code == 220
                  lines == [i \in 1..n |-> code]
      <2>1. code \in Codes(c) /\ c \in Commands /\ c = "banner"
            BY DEF Codes, Commands
      <2>2. old = <<>>
            OBVIOUS
      <2>3. relState = "none" /\ relPc = "connect" /\ UNCHANGED <<relay, tried, relState>>
            BY <1>2 DEF Connect, RelInv, RelType
      <2>4. /\ old \in Seq(Nat)
            /\ \A i \in 1..Len(old) : \E j \in 1..Len(inbox) : old[i] = inbox[j]
            /\ OneLineEach => Len(old) = 0
            BY <2>2, EmptySeq
      <2>5. lines = [i \in 1..n |-> code] /\ lines \in Seq(Nat)
            OBVIOUS
      <2>6. /\ replied' = [replied EXCEPT ![c] = [code |-> code, lines |-> n]]
            /\ inbox' = lines
            /\ relPc' = c
            BY <1>2
      <2>. HIDE DEF lines, code, old, c
      <2>7. inbox' = old \o lines
            BY <2>2, <2>5, <2>6, ConcatEmptySeq
      <2>. QED BY <2>1, <2>3, <2>4, <2>5, <2>6, <2>7, ReplyStep
<1>. QED BY <1>1, <1>2 DEF Connect

LEMMA ReadFTPStep == RelInv /\ relay = "ftp" /\ ReadFTPResponse => RelInv'
<1>. SUFFICES ASSUME RelInv, relay = "ftp", ReadFTPResponse PROVE RelInv'
      OBVIOUS
<1>. DEFINE line == Head(inbox)
<1>1. /\ relPc \in Commands /\ UNCHANGED <<relay, tried>> /\ OnLine(relPc, line)
      /\ relPc # "done" /\ relState = "none" /\ inbox \in Seq(Nat) /\ inbox # <<>>
      /\ replied \in [Commands -> [code : Nat, lines : Nat]]
      BY DEF ReadFTPResponse, RelInv, RelType, Dialogue, Commands
<1>2. line = inbox[1] /\ 1 \in 1..Len(inbox)
      BY <1>1
<1>3. ASSUME NEW c \in Commands, Command(c), Ranked(relPc, c),
             c = "LIST" => replied["PORT"].code = 200
      PROVE  RelInv'
      <2>. PICK code \in Codes(c), n \in 1..2 :
              /\ inbox' = Tail(inbox) \o [i \in 1..n |-> code]
              /\ replied' = [replied EXCEPT ![c] = [code |-> code, lines |-> n]]
            BY <1>3 DEF Command
      <2>1. /\ Tail(inbox) \in Seq(Nat)
            /\ \A i \in 1..Len(Tail(inbox)) : \E j \in 1..Len(inbox) : Tail(inbox)[i] = inbox[j]
            BY <1>1
      <2>2. OneLineEach => Len(Tail(inbox)) = 0
            <3>1. Len(Tail(inbox)) = Len(inbox) - 1
                  BY <1>1
            <3>. QED BY <1>1, <3>1 DEF RelInv, Dialogue
      <2>3. relPc' = c /\ UNCHANGED relState
            BY <1>3 DEF Command
      <2>. QED BY <1>1, <1>3, <2>1, <2>2, <2>3, ReplyStep
<1>4. CASE RelEnd("filtered") /\ UNCHANGED <<inbox, replied>>
      BY <1>1, <1>4, EndStep
<1>5. CASE relPc = "LIST"
      <2>1. /\ RelEnd(IF line \in {150, 226} THEN "open" ELSE "closed")
            /\ UNCHANGED <<inbox, replied>>
            BY <1>1, <1>5 DEF OnLine, Accepted
      <2>2. replied["PORT"].code = 200
            BY <1>5 DEF RelInv, Dialogue
      <2>3. line \in {150, 226} => replied["LIST"].code \in {150, 226}
            BY <1>1, <1>2 DEF RelInv, LinesFrom
      <2>4. line \notin {150, 226} /\ replied["LIST"].code \in {150, 226} =>
              \E c \in Commands : replied[c].lines > 1
            BY <1>1, <1>2, <1>5 DEF RelInv, Dialogue, OneLineEach
      <2>. QED BY <1>1, <2>1, <2>2, <2>3, <2>4, EndStep
<1>6. CASE relPc = "PORT" /\ Accepted(line) /\ Command("LIST")
      <2>1. replied["PORT"].code = 200
            BY <1>1, <1>2, <1>6 DEF RelInv, LinesFrom, Accepted
      <2>. QED BY <1>3, <1>6, <2>1 DEF Ranked, Commands
<1>7. CASE relPc = "banner" /\ Command("USER")
      BY <1>3, <1>7 DEF Ranked, Commands
<1>8. CASE relPc = "USER" /\ Command("PASS")
      BY <1>3, <1>8 DEF Ranked, Commands
<1>9. CASE relPc \in {"USER", "PASS"} /\ Command("PORT")
      BY <1>3, <1>9 DEF Ranked, Commands
<1>10. \/ RelEnd("filtered") /\ UNCHANGED <<inbox, replied>>
       \/ relPc = "LIST"
       \/ relPc = "PORT" /\ Accepted(line) /\ Command("LIST")
       \/ relPc = "banner" /\ Command("USER")
       \/ relPc = "USER" /\ Command("PASS")
       \/ relPc \in {"USER", "PASS"} /\ Command("PORT")
       BY <1>1 DEF OnLine
<1>. QED BY <1>4, <1>5, <1>6, <1>7, <1>8, <1>9, <1>10

LEMMA NoFTPStep == RelInv /\ relay = "ftp" /\ NoFTPResponse => RelInv'
<1>. SUFFICES ASSUME RelInv, relay = "ftp", NoFTPResponse PROVE RelInv'
      OBVIOUS
<1>. DEFINE kept == IF Len(inbox) = replied[relPc].lines THEN NotAsked ELSE replied[relPc]
<1>1. /\ relPc \in Commands /\ UNCHANGED <<relay, tried, inbox>>
      /\ RelEnd(IF relPc = "LIST" THEN "closed" ELSE "filtered")
      /\ replied' = [replied EXCEPT ![relPc] = kept]
      BY DEF NoFTPResponse
<1>2. inbox \in Seq(Nat) /\ replied \in [Commands -> [code : Nat, lines : Nat]]
      BY DEF RelInv, RelType
<1>3. NotAsked \in [code : Nat, lines : Nat] /\ NotAsked.code = 0
      BY DEF NotAsked
<1>4. /\ replied' \in [Commands -> [code : Nat, lines : Nat]]
      /\ replied'[relPc] = kept
      /\ \A c \in Commands : c # relPc => replied'[c] = replied[c]
      BY <1>1, <1>2, <1>3
<1>5. CASE relPc # "LIST"
      BY <1>1, <1>2, <1>4, <1>5, EndStep
<1>6. CASE relPc = "LIST"
      <2>1. replied'["PORT"].code = 200
            BY <1>4, <1>6 DEF RelInv, Dialogue, Commands
      <2>2. ASSUME replied'["LIST"].code \in {150, 226}
            PROVE  \E c \in Commands : replied'[c].lines > 1
            <3>1. Len(inbox) # replied["LIST"].lines /\ replied'["LIST"] = replied["LIST"]
                  BY <1>3, <1>4, <1>6, <2>2
            <3>2. ~OneLineEach
                  BY <1>1, <1>6, <3>1 DEF RelInv, Dialogue
            <3>3. PICK c \in Commands : replied[c].lines > 1
                  BY <1>2, <3>2 DEF OneLineEach
            <3>4. replied'[c] = replied[c]
                  BY <1>4, <1>6, <3>1
            <3>. QED BY <3>3, <3>4
      <2>. QED BY <1>1, <1>2, <1>4, <1>6, <2>1, <2>2, EndStep
<1>. QED BY <1>5, <1>6

LEMMA ProxyStep == RelInv /\ relay = "proxy" /\ (AskProxy \/ NoProxyLeft) => RelInv'
<1>. SUFFICES ASSUME RelInv, relay = "proxy", AskProxy \/ NoProxyLeft PROVE RelInv'
      OBVIOUS
<1>1. /\ relPc = "proxies" /\ relState = "none" /\ UNCHANGED <<relay, inbox, replied>>
      /\ \A i \in 1..Len(tried) : tried[i] \notin Grants
      /\ tried \in Seq(Sayings)
      BY DEF AskProxy, NoProxyLeft, RelInv, RelType, Asking
<1>2. CASE NoProxyLeft
      <2>1. UNCHANGED <<tried, ctxDone>> /\ relPc' = "done" /\ relState' = "filtered"
            /\ (ctxDone \/ Len(tried) = Len(Proxies))
            BY <1>2 DEF NoProxyLeft, RelEnd
      <2>2. RelType' /\ Asking'
            BY <1>1, <2>1 DEF RelInv, RelType, Asking
      <2>3. RelayVerdict'
            BY <1>1, <2>1 DEF RelayVerdict
      <2>. QED BY <1>1, <2>2, <2>3 DEF RelInv
<1>3. CASE AskProxy
      <2>. PICK answer \in Says(Proxies[Len(tried) + 1]) :
              /\ tried' = Append(tried, answer)
              /\ IF answer \in Grants THEN RelEnd("open") ELSE UNCHANGED <<relPc, relState>>
            BY <1>3 DEF AskProxy
      <2>1. answer \in Sayings
            BY DEF Says, Sayings
      <2>2. /\ tried' \in Seq(Sayings)
            /\ Len(tried') = Len(tried) + 1
            /\ tried'[Len(tried')] = answer
            /\ \A i \in 1..Len(tried) : tried'[i] = tried[i]
            /\ Len(tried) \in Nat
            BY <1>1, <2>1
      <2>3. \A i \in 1..Len(tried') : tried'[i] \in Grants => i = Len(tried')
            BY <1>1, <2>2
      <2>4. CASE answer \in Grants
            <3>1. relPc' = "done" /\ relState' = "open"
                  BY <2>4 DEF RelEnd
            <3>2. \E i \in 1..Len(tried') : tried'[i] \in Grants
                  BY <2>2, <2>4
            <3>3. RelayVerdict'
                  BY <1>1, <2>3, <3>1, <3>2 DEF RelayVerdict
            <3>4. RelType' /\ Asking'
                  BY <1>1, <2>2, <3>1 DEF RelInv, RelType, Asking
            <3>. QED BY <1>1, <3>3, <3>4 DEF RelInv
      <2>5. CASE answer \notin Grants
            <3>1. relPc' = "proxies" /\ relState' = "none"
                  BY <1>1, <2>5
            <3>2. \A i \in 1..Len(tried') : tried'[i] \notin Grants
                  BY <2>2, <2>3, <2>5
            <3>3. RelayVerdict'
                  BY <1>1, <3>1, <3>2 DEF RelayVerdict
            <3>4. RelType' /\ Asking'
                  BY <1>1, <2>2, <3>1, <3>2 DEF RelInv, RelType, Asking
            <3>. QED BY <1>1, <3>3, <3>4 DEF RelInv
      <2>. QED BY <2>4, <2>5
<1>. QED BY <1>2, <1>3

LEMMA ZombieStep == RelInv /\ relay = "idle" /\ (ZombieError \/ LongSegment \/ Forge) => RelInv'
<1>. SUFFICES ASSUME RelInv, relay = "idle", ZombieError \/ LongSegment \/ Forge PROVE RelInv'
      OBVIOUS
<1>1. UNCHANGED <<relay, inbox, replied>> /\ relPc # "done" /\ relState = "none"
      BY DEF ZombieError, LongSegment, Forge, RelInv, RelType
<1>2. CASE ZombieError \/ Forge
      <2>1. /\ UNCHANGED tried
            /\ \/ relPc' = "done" /\ relState' = "filtered"
               \/ relPc = "forge" /\ relPc' = "id2" /\ UNCHANGED relState
            BY <1>2 DEF ZombieError, Forge, RelEnd
      <2>2. RelType' /\ Zombie'
            BY <1>1, <2>1 DEF RelInv, RelType, Zombie
      <2>3. RelayVerdict'
            BY <1>1, <2>1 DEF RelInv, RelayVerdict
      <2>. QED BY <1>1, <2>2, <2>3 DEF RelInv
<1>3. CASE LongSegment
      <2>1. /\ tried' = Append(tried, "long")
            /\ \/ relPc = "id1" /\ relPc' = "forge" /\ UNCHANGED relState
               \/ relPc = "id2" /\ relPc' = "done"
            BY <1>3 DEF LongSegment, RelEnd
      <2>2. /\ relPc = "id1" => tried' = <<"long">>
            /\ relPc = "id2" => tried' = <<"long", "long">>
            <3>1. \A x : Append(<<>>, x) = <<x>>
                  OBVIOUS
            <3>2. Append(<<"long">>, "long") = <<"long", "long">>
                  <4>. DEFINE one == <<"long">>
                              two == <<"long", "long">>
                  <4>1. one \in Seq({"long"}) /\ Len(one) = 1 /\ one[1] = "long"
                        OBVIOUS
                  <4>2. two \in Seq({"long"}) /\ Len(two) = 2 /\ two[1] = "long" /\ two[2] = "long"
                        OBVIOUS
                  <4>. HIDE DEF one, two
                  <4>3. /\ Append(one, "long") \in Seq({"long"}) /\ Len(Append(one, "long")) = 2
                        /\ Append(one, "long")[1] = "long" /\ Append(one, "long")[2] = "long"
                        <5>1. "long" \in {"long"} /\ 1 \in 1..Len(one) /\ Len(one) + 1 = 2
                              BY <4>1
                        <5>2. /\ Append(one, "long") \in Seq({"long"})
                              /\ Len(Append(one, "long")) = Len(one) + 1
                              /\ \A i \in 1..Len(one) : Append(one, "long")[i] = one[i]
                              /\ Append(one, "long")[Len(one) + 1] = "long"
                              BY <4>1, <5>1, AppendProperties
                        <5>. QED BY <4>1, <5>1, <5>2
                  <4>4. Append(one, "long") = two
                        BY <4>2, <4>3, SeqEqual
                  <4>. QED BY <4>4 DEF one, two
            <3>. QED BY <2>1, <3>1, <3>2 DEF RelInv, Zombie
      <2>3. RelType' /\ Zombie'
            <3>1. tried \in Seq(Sayings) /\ "long" \in Sayings
                  BY DEF RelInv, RelType, Sayings
            <3>2. tried' \in Seq(Sayings)
                  BY <2>1, <3>1
            <3>. QED BY <1>1, <2>1, <2>2, <3>2 DEF RelInv, RelType, Zombie
      <2>4. RelayVerdict'
            BY <1>1, <2>1, <2>2 DEF RelInv, RelayVerdict
      <2>. QED BY <1>1, <2>3, <2>4 DEF RelInv
<1>. QED BY <1>2, <1>3

LEMMA RelayInvariance == PSSpec => []RelInv
<1>1. PSInit => RelInv
      BY RelInitInv DEF PSInit
<1>2. RelInv /\ [PSNext]_psVars => RelInv'
      <2>. SUFFICES ASSUME RelInv, [PSNext]_psVars PROVE RelInv'
            OBVIOUS
      <2>1. CASE UNCHANGED relVars /\ (ctxDone' = ctxDone \/ ctxDone' = TRUE)
            <3>1. RelType'
                  BY <2>1 DEF relVars, RelInv, RelType
            <3>2. RelayVerdict'
                  BY <2>1 DEF relVars, RelInv, RelayVerdict
            <3>3. relay' = "ftp" => NotYet' /\ LinesFrom' /\ Dialogue'
                  BY <2>1 DEF relVars, RelInv, NotYet, LinesFrom, Dialogue, OneLineEach
            <3>4. (relay' = "proxy" => Asking') /\ (relay' = "idle" => Zombie')
                  BY <2>1 DEF relVars, RelInv, Asking, Zombie
            <3>. QED BY <3>1, <3>2, <3>3, <3>4 DEF RelInv
      <2>2. CASE RawScan
            BY <2>1, <2>2, ContextGrows DEF RawScan
      <2>3. CASE OneProbe \/ ProbePacket \/ CancelProbe \/ Probed \/ UNCHANGED psVars
            <3>1. UNCHANGED relVars
                  BY <2>3 DEF OneProbe, ProbePacket, CancelProbe, Probed, psVars
            <3>2. ctxDone' = ctxDone \/ ctxDone' = TRUE
                  BY <2>3, OthersCancel DEF psVars, vars
            <3>. QED BY <2>1, <3>1, <3>2
      <2>4. CASE RelayProbe \/ RelayReply
            <3>1. RelStep \/ RelReply
                  BY <2>4 DEF RelayProbe, RelayReply
            <3>2. ctxDone' = ctxDone \/ ctxDone' = TRUE
                  BY <2>4, OthersCancel
            <3>3. relay \in {"ftp", "proxy", "idle"}
                  BY DEF RelInv, RelType
            <3>4. CASE Connect \/ ReadFTPResponse \/ NoFTPResponse
                  <4>1. relay = "ftp"
                        BY <3>3, <3>4 DEF Connect, ReadFTPResponse, NoFTPResponse, RelInv, Asking,
                                          Zombie, Commands
                  <4>. QED BY <3>4, <4>1, ConnectStep, ReadFTPStep, NoFTPStep
            <3>5. CASE AskProxy \/ NoProxyLeft
                  <4>1. relay = "proxy"
                        BY <3>3, <3>5 DEF AskProxy, NoProxyLeft, RelInv, Dialogue, Zombie, Commands
                  <4>. QED BY <3>5, <4>1, ProxyStep
            <3>6. CASE ZombieError \/ LongSegment \/ Forge
                  <4>1. relay = "idle"
                        BY <3>3, <3>6 DEF ZombieError, LongSegment, Forge, RelInv, Dialogue, Asking,
                                          Commands
                  <4>. QED BY <3>6, <4>1, ZombieStep
            <3>. QED BY <3>1, <3>4, <3>5, <3>6 DEF RelStep, RelReply
      <2>. QED BY <2>2, <2>3, <2>4 DEF PSNext
<1>. QED BY <1>1, <1>2, PTL DEF PSSpec

\* A bounced port is open or closed on the word of the server about the right
\* command, unless a reply had several lines; a port behind proxies on that of
\* the last one asked; and no zombie's reset decides, for any list of proxies
\* and any space of IDs (ftpbounce.go:104-130, proxy.go:21-43).
THEOREM RelaysExplainVerdicts == PSSpec => []RelayVerdict
<1>1. RelInv => RelayVerdict
      BY DEF RelInv
<1>. QED BY <1>1, RelayInvariance, PTL
=============================================================================
