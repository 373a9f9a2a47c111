------------------------------ MODULE RawProbe ------------------------------
(***************************************************************************)
(* The raw-socket probes of one host running at the same time: scanPortSyn *)
(* (syn_linux.go), scanPortRaw, scanPortACK and scanPortWindow             *)
(* (rawscan_linux.go).  Each probe starts a goroutine of its own that      *)
(* listens for the answer.  A raw socket gets a copy of every TCP segment  *)
(* that reaches the host, so each listener has to pick its own out of the  *)
(* answers to all probes and of unrelated traffic.                         *)
(*                                                                         *)
(* The network and the target are external: a segment may be lost (it      *)
(* never arrives), late, repeated, and a target may answer what it likes.  *)
(* Arrival and the listener's filter are one step, for the filter depends  *)
(* on the segment alone; handing the answer over is another.               *)
(***************************************************************************)
EXTENDS Context, Naturals, FiniteSets

CONSTANTS
    Probes,         \* the probes; each is of a port of its own
    SourcePorts,    \* what randomPort draws from, too few to be distinct
    NoPort,         \* source port of a probe that has not started
    NoReply,
    Target,         \* how the host to scan is written: a TargetForm
    MaxAnswers      \* bound: how many different answers a port may give

Kinds == {"syn", "raw", "ack", "window"}        \* raw: FIN, Xmas, Null, Maimon
Replies == {"syn-ack", "reset", "reset-window", "other"}
Resets == {"reset", "reset-window"}             \* window zero, window not zero
States == {"open", "closed", "filtered", "unfiltered", "open|filtered"}

\* An IPv4 address, or a name of at least or of fewer than four labels.
TargetForms == {"address", "long name", "short name"}

ASSUME RawAssumption ==
    /\ NoPort \notin SourcePorts
    /\ NoReply \notin Replies
    /\ Target \in TargetForms
    /\ MaxAnswers \in Nat

VARIABLES
    kind,       \* the scan type, the same for all probes of a scan
    pc,         \* where each probe is
    sport,      \* its source port
    listener,   \* where its listener is
    heard,      \* the answer the listener has read
    response,   \* responseCh: the answer in the channel
    state,      \* the PortState each probe reports
    wire,       \* probes sent: records [probe, sport]
    answered,   \* history: answers of the target, records [probe, reply]
    crashed

vars == <<kind, pc, sport, listener, heard, response, state, wire, answered,
          ctxDone, crashed>>

probeVars == <<kind, pc, sport, state, wire, crashed>>
listenVars == <<listener, heard, response>>
envVars == <<answered, ctxDone>>

NoState == "none"

Init ==
    /\ kind \in Kinds
    /\ pc = [p \in Probes |-> "idle"]
    /\ sport = [p \in Probes |-> NoPort]
    /\ listener = [p \in Probes |-> "none"]
    /\ heard = [p \in Probes |-> NoReply]
    /\ response = [p \in Probes |-> NoReply]
    /\ state = [p \in Probes |-> NoState]
    /\ wire = {}
    /\ answered = {}
    /\ ctxDone = FALSE
    /\ crashed = FALSE

-----------------------------------------------------------------------------
(* The probe. *)

Report(p, s) ==
    /\ state' = [state EXCEPT ![p] = s]
    /\ pc' = [pc EXCEPT ![p] = "done"]

\* The verdict on an answer, and on silence.
Classify(k, r) ==
    CASE k = "syn" /\ r = "syn-ack" -> "open"
      [] k = "syn" /\ r \in Resets -> "closed"
      [] k = "raw" /\ r \in Resets -> "closed"
      [] k = "raw" /\ r \notin Resets -> "open|filtered"
      [] k = "ack" /\ r \in Resets -> "unfiltered"
      [] k = "window" /\ r = "reset-window" -> "open"
      [] k = "window" /\ r = "reset" -> "closed"
      [] OTHER -> "filtered"

Silence(k) == IF k = "raw" THEN "open|filtered" ELSE "filtered"

\* All but scanPortSyn look at the context before they start to listen.
GiveUpEarly(p) ==
    /\ pc[p] = "idle"
    /\ kind # "syn"
    /\ ctxDone
    /\ Report(p, "filtered")
    /\ UNCHANGED <<kind, sport, wire, crashed, listenVars, envVars>>

Start(p, s) ==
    /\ pc[p] = "idle"
    /\ kind = "syn" \/ ~ctxDone
    /\ sport' = [sport EXCEPT ![p] = s]
    /\ listener' = [listener EXCEPT ![p] = "opening"]
    /\ pc' = [pc EXCEPT ![p] = "sleep"]
    /\ UNCHANGED <<kind, state, wire, crashed, heard, response, envVars>>

\* After the five milliseconds scanPortSyn looks at the context.
GiveUpLate(p) ==
    /\ pc[p] = "sleep"
    /\ kind = "syn"
    /\ ctxDone
    /\ Report(p, "filtered")
    /\ UNCHANGED <<kind, sport, wire, crashed, listenVars, envVars>>

Sends(p) == pc[p] = "sleep" /\ (kind = "syn" => ~ctxDone)

\* sendTCPPacket: the dial or the write fails.
SendFails(p) ==
    /\ Sends(p)
    /\ Report(p, "filtered")
    /\ UNCHANGED <<kind, sport, wire, crashed, listenVars, envVars>>

\* sendTCPPacket: net.Dial resolves a name, ipToBytes takes its first four
\* labels for the octets of an address and indexes past the end if there
\* are fewer.
Send(p) ==
    /\ Sends(p)
    /\ IF Target = "short name"
       THEN crashed' = TRUE /\ UNCHANGED <<pc, wire>>
       ELSE /\ wire' = wire \cup {[probe |-> p, sport |-> sport[p]]}
            /\ pc' = [pc EXCEPT ![p] = "select"]
            /\ UNCHANGED crashed
    /\ UNCHANGED <<kind, sport, state, listenVars, envVars>>

\* The select picks any case that is ready: the answer, time.After(timeout)
\* or the end of the context.
TakeResponse(p) ==
    /\ pc[p] = "select"
    /\ response[p] # NoReply
    /\ Report(p, Classify(kind, response[p]))
    /\ response' = [response EXCEPT ![p] = NoReply]
    /\ UNCHANGED <<kind, sport, wire, crashed, listener, heard, envVars>>

\* Mutant: no time.After case.
TimeOut_Never(p) ==
    /\ pc[p] = "select"
    /\ ctxDone
    /\ Report(p, Silence(kind))
    /\ UNCHANGED <<kind, sport, wire, crashed, listenVars, envVars>>

TimeOut(p) ==
    /\ pc[p] = "select"
    /\ Report(p, Silence(kind))
    /\ UNCHANGED <<kind, sport, wire, crashed, listenVars, envVars>>

SelectCanceled(p) ==
    /\ pc[p] = "select"
    /\ ctxDone
    /\ Report(p, "filtered")
    /\ UNCHANGED <<kind, sport, wire, crashed, listenVars, envVars>>

-----------------------------------------------------------------------------
(* The listener, listenForResponse. *)

\* It may be slower to open its socket than the probe is to send.
Open(p) ==
    /\ listener[p] = "opening"
    /\ listener' = [listener EXCEPT ![p] = "reading"]
    /\ UNCHANGED <<heard, response, probeVars, envVars>>

\* The address does not resolve, the socket cannot be opened, or the
\* deadline of the socket passes.
CloseListener(p) ==
    /\ listener[p] \in {"opening", "reading"}
    /\ listener' = [listener EXCEPT ![p] = "gone"]
    /\ UNCHANGED <<heard, response, probeVars, envVars>>

\* Mutant: an unbuffered channel, so that the send needs its receiver.
HandOver_Unbuffered(p) ==
    /\ listener[p] = "sending"
    /\ pc[p] = "select"
    /\ response' = [response EXCEPT ![p] = heard[p]]
    /\ heard' = [heard EXCEPT ![p] = NoReply]
    /\ listener' = [listener EXCEPT ![p] = "gone"]
    /\ UNCHANGED <<probeVars, envVars>>

\* The first answer that passes the filter, into a channel with room for it.
HandOver(p) ==
    /\ listener[p] = "sending"
    /\ response' = [response EXCEPT ![p] = heard[p]]
    /\ heard' = [heard EXCEPT ![p] = NoReply]
    /\ listener' = [listener EXCEPT ![p] = "gone"]
    /\ UNCHANGED <<probeVars, envVars>>

\* Mutant: the source port of the segment is not compared.
Matches_AnyPort(q, from, p, s) ==
    /\ Target = "address"
    /\ from = "target"
    /\ s = sport[q]

\* The filter: addr.String() is compared with the target as it was written,
\* then the segment's ports with those of the probe.
Matches(q, from, p, s) ==
    /\ Target = "address"
    /\ from = "target"
    /\ p = q
    /\ s = sport[q]

\* A segment from probe p's port to source port s reaches the raw sockets.
Deliver(from, p, s, r) ==
    LET hears == {q \in Probes : listener[q] = "reading" /\ Matches(q, from, p, s)}
    IN  /\ listener' = [q \in Probes |-> IF q \in hears THEN "sending" ELSE listener[q]]
        /\ heard' = [q \in Probes |-> IF q \in hears THEN r ELSE heard[q]]

-----------------------------------------------------------------------------
(* The environment. *)

\* The target answers a probe, once or more; on any timing.
Answer(p, s, r) ==
    /\ [probe |-> p, sport |-> s] \in wire
    /\ Deliver("target", p, s, r)
    /\ answered' = answered \cup {[probe |-> p, reply |-> r]}
    /\ Cardinality({a \in answered' : a.probe = p}) =< MaxAnswers
    /\ UNCHANGED <<response, probeVars, ctxDone>>

\* Another host sends a segment that carries the ports of a probe.
Noise(p, s, r) ==
    /\ Deliver("other", p, s, r)
    /\ UNCHANGED <<response, probeVars, envVars>>

Cancel ==
    /\ ~ctxDone
    /\ ctxDone' = TRUE
    /\ UNCHANGED <<answered, probeVars, listenVars>>

Ended ==
    /\ \A p \in Probes : pc[p] = "done" /\ listener[p] \in {"none", "gone"}
    /\ UNCHANGED vars

Probe(p) ==
    \/ GiveUpEarly(p)
    \/ \E s \in SourcePorts : Start(p, s)
    \/ GiveUpLate(p)
    \/ SendFails(p)
    \/ Send(p)
    \/ TakeResponse(p)
    \/ TimeOut(p)
    \/ SelectCanceled(p)

Listener(p) == Open(p) \/ CloseListener(p) \/ HandOver(p)

Network ==
    \E p \in Probes, s \in SourcePorts, r \in Replies : Answer(p, s, r) \/ Noise(p, s, r)

\* A panic in a goroutine ends the program.
Next ==
    /\ ~crashed
    /\ \/ \E p \in Probes : Probe(p)
       \/ \E p \in Probes : Listener(p)
       \/ Network
       \/ Cancel
       \/ Ended

Spec == Init /\ [][Next]_vars

\* Goroutines run, and both time.After(timeout) and the socket's deadline
\* pass; nothing is assumed of the network.
Fairness == \A p \in Probes : WF_vars(~crashed /\ Probe(p)) /\ WF_vars(~crashed /\ Listener(p))

FairSpec == Spec /\ Fairness

-----------------------------------------------------------------------------
(* Properties. *)

\* The shape of the state: a probe that is under way has drawn a source port
\* and exactly the finished probes have a state.
TypeOK ==
    /\ kind \in Kinds
    /\ pc \in [Probes -> {"idle", "sleep", "select", "done"}]
    /\ sport \in [Probes -> SourcePorts \cup {NoPort}]
    /\ \A p \in Probes : pc[p] \in {"sleep", "select"} => sport[p] # NoPort
    /\ listener \in [Probes -> {"none", "opening", "reading", "sending", "gone"}]
    /\ heard \in [Probes -> Replies \cup {NoReply}]
    /\ response \in [Probes -> Replies \cup {NoReply}]
    /\ state \in [Probes -> States \cup {NoState}]
    /\ \A p \in Probes : (state[p] # NoState) <=> (pc[p] = "done")
    /\ wire \subseteq [probe : Probes, sport : SourcePorts]
    /\ answered \subseteq [probe : Probes, reply : Replies]
    /\ ctxDone \in BOOLEAN
    /\ crashed \in BOOLEAN

\* What a target must have sent for a port to be called open, closed or
\* unfiltered (the definitions of PortState, scantype.go:117-126).
Evidence(k, s) ==
    CASE k = "syn" /\ s = "open" -> {"syn-ack"}
      [] k = "window" /\ s = "open" -> {"reset-window"}
      [] k = "window" /\ s = "closed" -> {"reset"}
      [] OTHER -> Resets

\* A verdict other than a silent one rests on an answer of that very port of
\* the target: neither another probe that drew the same source port nor a
\* stray host can produce it (rawscan_linux.go:171-180).
Justified ==
    \A p \in Probes : state[p] \in {"open", "closed", "unfiltered"} =>
        \E r \in Evidence(kind, state[p]) : [probe |-> p, reply |-> r] \in answered

\* Each probe that starts reports, so a worker is never lost to a silent
\* target (rawscan_linux.go:48-58).
ProbesReport == \A p \in Probes : (pc[p] = "sleep") ~> (pc[p] = "done")

\* No listener outlives its use: the answer that comes when its probe has
\* timed out already does not block it (rawscan_linux.go:37, :187).
ListenersEnd == \A p \in Probes : (listener[p] = "opening") ~> (listener[p] = "gone")

\* README.md:44, "sudo gomap -s syn example.com": a raw scan can be given a
\* name.  It must not bring the program down.
NeverCrashes == ~crashed
=============================================================================
