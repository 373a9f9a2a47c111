------------------------------ MODULE OneShot ------------------------------
(***************************************************************************)
(* The probes that send and then block in one read: the scans of UDP       *)
(* (scan.go), SCTP (sctp_linux.go) and IP protocols (protocol_linux.go)    *)
(* and the methods of host discovery (discovery*.go), which go through     *)
(* their ports until one of them is answered.  They differ in what their   *)
(* socket lets through and in what they make of it; the tables below say   *)
(* which does what.                                                        *)
(***************************************************************************)
EXTENDS Context, Naturals

CONSTANTS
    Ports,          \* how many ports a discovery method goes through
    MaxStray        \* bound: packets of others, and of other exchanges

ASSUME OneShotAssumption == Ports \in Nat \ {0} /\ MaxStray \in Nat

VARIABLES
    method,
    onePc,
    left,       \* ports still to be tried
    hurried,    \* the context has a deadline, as a host timeout gives it one
    verdict,
    got,        \* history: what the socket let through, [from, what]
    stray

oneVars == <<method, onePc, left, hurried, verdict, got, stray>>

Scans == {"udp", "sctp init", "sctp cookie", "protocol"}
Pings == {"icmp", "icmp type", "connect", "syn", "ack", "udp ping",
          "sctp ping", "protocol ping", "arp"}

OneInit ==
    /\ method \in Scans \cup Pings
    /\ onePc = "check"
    /\ left = IF method \in {"connect", "syn", "ack", "udp ping", "sctp ping", "protocol ping"}
              THEN Ports ELSE 1
    /\ hurried \in BOOLEAN
    /\ verdict = "none"
    /\ got = {}
    /\ stray = 0

SCTP == {"sctp init", "sctp cookie", "sctp ping"}

\* Kinds of packets: an answer of the service; a refusal (a reset, an ABORT,
\* ICMP port or protocol unreachable); another ICMP error; anything else.
Packets == {"answer", "refusal", "unreachable", "other"}

\* What a socket hands to its reader.  A connected one reads its host only,
\* and for a TCP or UDP port the packets of that port only; the raw listener
\* of a TCP ping compares sender and ports; the SCTP scans compare the ports,
\* the SCTP ping nothing.
Data(m) ==
    CASE m \in SCTP \cup {"syn", "ack"} -> {"answer", "refusal", "other"}
      [] m \in {"udp", "udp ping", "connect"} -> {"answer"}
      [] OTHER -> {"answer", "other"}

\* What fails the read of a connected socket: an ICMP error about what it
\* sent, or a reset.  Routers and firewalls send such errors too.
Errors(m) ==
    CASE m \in SCTP \cup {"syn", "ack"} -> {}
      [] m \in {"icmp", "icmp type"} -> {"unreachable"}
      [] OTHER -> {"refusal", "unreachable"}

Passes(m, from, what) ==
    what \in Errors(m) \/ (what \in Data(m) /\ (from = "target" \/ m \in SCTP))

\* Mutant: a refusal is taken for silence.
Reads_NoRefusal(m, what) ==
    CASE m \in {"udp", "protocol", "sctp init"} /\ what = "answer" -> "open"
      [] m \in Scans /\ (m = "sctp cookie" \/ what # "answer") -> "open|filtered"
      [] m \in Pings /\ what = "answer" -> "alive"
      [] OTHER -> "dead"

\* What a probe makes of a packet.  To a scan any error but a timeout is a
\* refusal.  Of the pings only the connect ping is told of one by
\* isConnectionRefused: the error of a read says "read: connection refused", or
\* "protocol not available", and the ping goes on.
Reads(m, what) ==
    CASE m \in Scans /\ what \in {"refusal", "unreachable"} -> "closed"
      [] m \in {"udp", "protocol"} /\ what \in Data(m) -> "open"
      [] m = "sctp init" /\ what # "refusal" -> IF what = "answer" THEN "open" ELSE "filtered"
      [] m = "sctp cookie" /\ what # "refusal" -> "open|filtered"
      [] m = "icmp" -> IF what = "answer" THEN "alive" ELSE "dead"
      [] m = "syn" -> IF what = "other" THEN "dead" ELSE "alive"
      [] m \in {"udp ping", "protocol ping"} -> IF what \in Errors(m) THEN "dead" ELSE "alive"
      [] m = "ack" -> IF what = "refusal" THEN "alive" ELSE "dead"
      [] OTHER -> IF what = "unreachable" THEN "dead" ELSE "alive"

\* What it makes of a probe that could not be sent, or was not answered.
Unsent(m) ==
    CASE m \in Pings -> "dead" [] m = "sctp cookie" -> "open|filtered" [] OTHER -> "filtered"
Silent(m) ==
    CASE m \in Pings -> "dead" [] m = "sctp init" -> "filtered" [] OTHER -> "open|filtered"

End(v) == onePc' = "done" /\ verdict' = v /\ UNCHANGED left

\* A ping that failed on a port goes on to the next one.
EndOrNext(v) ==
    IF v = "dead" /\ left > 1
    THEN onePc' = "check" /\ left' = left - 1 /\ UNCHANGED verdict
    ELSE End(v)

-----------------------------------------------------------------------------
\* The pings look at the context before each port; the UDP scan dials with it.
OneCanceled ==
    /\ onePc = "check"
    /\ ctxDone
    /\ method \in Pings \cup {"udp"}
    /\ End(Unsent(method))
    /\ UNCHANGED <<method, hurried, got, stray, ctxDone>>

OneUnsent ==
    /\ onePc = "check"
    /\ EndOrNext(Unsent(method))
    /\ UNCHANGED <<method, hurried, got, stray, ctxDone>>

OneSend ==
    /\ onePc = "check"
    /\ ~(ctxDone /\ method \in Pings \cup {"udp"})
    /\ onePc' = "read"
    /\ UNCHANGED <<method, left, hurried, verdict, got, stray, ctxDone>>

\* A packet the socket lets through ends the read.  Only the SCTP scans look
\* at the context once more, before they read; the UDP scan looks when the
\* read failed.
OneRead(from, what) ==
    /\ onePc = "read"
    /\ method # "arp"
    /\ Passes(method, from, what)
    /\ got' = got \cup {[from |-> from, what |-> what]}
    /\ IF method = "udp" /\ what \in Errors(method) /\ ctxDone THEN End("filtered")
       ELSE EndOrNext(Reads(method, what))
    /\ UNCHANGED <<method, hurried, ctxDone>>

Answered ==
    \E what \in Packets \ {"other"} : OneRead("target", what) /\ UNCHANGED stray

\* A packet of another host, of a router on the way for one, or of another
\* exchange with the target.
Stray ==
    /\ stray < MaxStray
    /\ stray' = stray + 1
    /\ \/ OneRead("target", "other")
       \/ \E what \in Packets : OneRead("stranger", what)
       \/ /\ onePc = "read"
          /\ UNCHANGED <<method, onePc, left, hurried, verdict, got, ctxDone>>

\* Mutant: no deadline of its own, the read waits for the context.
OneTimeOut_ContextOnly ==
    /\ onePc = "read"
    /\ method # "arp"
    /\ ctxDone
    /\ End(Silent(method))
    /\ UNCHANGED <<method, hurried, got, stray, ctxDone>>

\* The deadline of the read passes.  The UDP scan and the echo request take
\* the context's for theirs, if it has one: then the context ends with it.
OneTimeOut ==
    /\ onePc = "read"
    /\ method # "arp"
    /\ IF hurried /\ method \in {"udp", "icmp"}
       THEN ctxDone' = TRUE
       ELSE UNCHANGED ctxDone
    /\ \/ ~(method = "udp" /\ ctxDone) /\ EndOrNext(Silent(method))
       \/ method = "udp" /\ ctxDone' /\ End("filtered")
    /\ UNCHANGED <<method, hurried, got, stray>>

\* The selects of the TCP pings, the dial of the connect ping, and the loop
\* of the SCTP scans, between two reads, watch the context.
OneInterrupted ==
    /\ onePc = "read"
    /\ ctxDone
    /\ method \in {"syn", "ack", "connect", "sctp init", "sctp cookie"}
    /\ End(Unsent(method))
    /\ UNCHANGED <<method, hurried, got, stray, ctxDone>>

\* The ARP ping reads the kernel's table after a connect.  Whether the host
\* answered the request decides nothing: an entry that is pending or has failed
\* is in the table too, and one of another address with the same hardware
\* address, as all those without one, may hide it.
ReadTable ==
    /\ onePc = "read"
    /\ method = "arp"
    /\ got' \in {got, got \cup {[from |-> "target", what |-> "answer"]}}
    /\ End("alive") \/ End("dead")
    /\ UNCHANGED <<method, hurried, stray, ctxDone>>

\* What the probe does by itself, and what the network does.
OneStep == OneCanceled \/ OneUnsent \/ OneSend \/ OneTimeOut \/ OneInterrupted \/ ReadTable
OnePacket == Answered \/ Stray

-----------------------------------------------------------------------------
Came(what) == \E g \in got : g.what \in what
CameFrom(who, what) == \E g \in got : g.from = who /\ g.what \in what

\* A verdict has something that came in to account for it (but for the ARP
\* ping, whose verdict needs nothing).  A port is open only because of data, and
\* data came from the target; a stranger can fool SCTP only.  Closed is what
\* anyone can make a port, a router as well, but only with an error or a refusal;
\* and no other ICMP error than a refusal makes a host alive.
\* What came in is not lost either: a refusal closes a scanned port, unless the
\* context ended under the UDP scan, and an answer of the target makes it alive
\* (an ACK ping waits for a reset).
VerdictHasAnswer ==
    /\ verdict = "open" =>
         \/ CameFrom("target", {"answer", "other"})
         \/ method \in SCTP /\ Came({"answer"})
    /\ verdict = "closed" => Came({"refusal", "unreachable"})
    /\ verdict = "alive" =>
         \/ CameFrom("target", {"answer", "refusal", "other"})
         \/ method = "connect" /\ Came({"refusal"})
         \/ method = "sctp ping" /\ Came(Packets)
         \/ method = "arp"
    /\ onePc = "done" /\ method \in Scans /\ Came({"refusal", "unreachable"}) =>
         verdict = "closed" \/ (method = "udp" /\ ctxDone)
    /\ onePc = "done" /\ method \in Pings \ {"ack", "arp"} /\ CameFrom("target", {"answer"}) =>
         verdict = "alive"
=============================================================================
