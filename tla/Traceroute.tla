----------------------------- MODULE Traceroute -----------------------------
(***************************************************************************)
(* Traceroute (traceroute.go) and the probe of one hop                     *)
(* (traceroute_linux.go).  A probe with time-to-live t is answered, if at  *)
(* all, by the t-th router of the path or by the target behind the last.   *)
(* The answer may come when a later probe is waiting: the ICMP socket of   *)
(* that one takes it, for it takes every ICMP message the host receives,   *)
(* whoever sent it and for whatever reason, the target's late reply to     *)
(* another scan among them.                                                *)
(***************************************************************************)
EXTENDS Interrupt, Sequences, FiniteSets

CONSTANTS
    Path,           \* the routers to the target and the target itself
    Loopback,       \* 127.0.0.1
    Others,         \* further hosts whose ICMP messages arrive
    MaxHops, Retries,
    MaxForeign,     \* bounds the ICMP messages that answer no probe
    NoHost

ASSUME TraceAssumption ==
    /\ Len(Path) \in Nat \ {0}
    /\ \A i, j \in 1..Len(Path) : Path[i] = Path[j] => i = j
    /\ MaxHops \in Nat \ {0}
    /\ Retries \in Nat
    /\ MaxForeign \in Nat
    /\ NoHost \notin {Path[i] : i \in 1..Len(Path)} \cup Others \cup {Loopback}

VARIABLES
    trPc,
    ipv6,       \* the host has no IPv4 address
    ttl, tries,
    hops,       \* per hop the address that answered, NoHost if it timed out
    inflight,   \* answers under way: the router, as its place on the path
    foreign,    \* how many ICMP messages were read that answer no probe
    misled,     \* history: the hops such a message was taken for
    trErr

trVars == <<trPc, ipv6, ttl, tries, hops, inflight, foreign, misled, trErr>>
foreignVars == <<foreign, misled>>

TrInit ==
    /\ trPc = "idle"
    /\ ipv6 = FALSE
    /\ ttl = 1
    /\ tries = 0
    /\ hops = <<>>
    /\ inflight = {}
    /\ foreign = 0
    /\ misled = {}
    /\ trErr = "nil"

TargetHost == Path[Len(Path)]

\* Who answers a probe, as a place on the path.  To an IPv6 address the code
\* sends with the IPv4 address 0.0.0.0, which is this host: place 0.
Answerer(t) == IF ipv6 THEN 0 ELSE IF t < Len(Path) THEN t ELSE Len(Path)
HostAt(i) == IF i = 0 THEN Loopback ELSE Path[i]

\* The call; a host that does not resolve ends it.
StartTrace ==
    /\ trPc = "idle"
    /\ \/ trPc' = "hop" /\ ipv6' \in BOOLEAN /\ UNCHANGED trErr
       \/ trPc' = "done" /\ trErr' = "resolve" /\ UNCHANGED ipv6
    /\ UNCHANGED <<ttl, tries, hops, inflight, foreignVars, ctxVars>>

\* The head of the loop over the hops.
NextHop ==
    /\ trPc = "hop"
    /\ IF ttl =< MaxHops /\ ctxDone
       THEN trPc' = "done" /\ trErr' = "context"
       ELSE trPc' = (IF ttl =< MaxHops THEN "try" ELSE "done") /\ UNCHANGED trErr
    /\ tries' = 0
    /\ UNCHANGED <<ipv6, ttl, hops, inflight, foreignVars, ctxVars>>

\* Mutant: the trace goes on behind the target.
Hop_NoBreak(h) ==
    /\ hops' = Append(hops, h)
    /\ ttl' = ttl + 1
    /\ trPc' = "hop"

\* traceHop returns; the target's address ends the trace, which an IPv6
\* address never is, as the ICMP socket is one of IPv4.
Hop(h) ==
    /\ hops' = Append(hops, h)
    /\ ttl' = ttl + 1
    /\ trPc' = IF h = TargetHost /\ ~ipv6 THEN "done" ELSE "hop"

\* No tries left, or the context has ended: a hop that timed out.
GiveUpHop ==
    /\ trPc = "try"
    /\ tries > Retries \/ ctxDone
    /\ Hop(NoHost)
    /\ UNCHANGED <<ipv6, tries, inflight, foreignVars, trErr, ctxVars>>

CheckTry ==
    /\ trPc = "try"
    /\ tries =< Retries
    /\ ~ctxDone
    /\ trPc' = "send"
    /\ UNCHANGED <<ipv6, ttl, tries, hops, inflight, foreignVars, trErr, ctxVars>>

\* Mutant: a timed-out try leaves the count as it is.
FailTry_NotCounted == trPc' = "try" /\ UNCHANGED tries

FailTry == trPc' = "try" /\ tries' = tries + 1

\* The sockets cannot be had, or the probe goes out with this ttl.
SendProbe ==
    /\ trPc = "send"
    /\ \/ FailTry /\ UNCHANGED <<inflight, ctxVars>>
       \/ /\ Sends
          /\ inflight' = inflight \cup {Answerer(ttl)}
          /\ trPc' = "wait"
          /\ UNCHANGED tries
    /\ UNCHANGED <<ipv6, ttl, hops, foreignVars, trErr>>

\* Recvfrom times out; a context that has ended is seen only after a message.
TimeOutTry ==
    /\ trPc = "wait"
    /\ FailTry
    /\ UNCHANGED <<ipv6, ttl, hops, inflight, foreignVars, trErr, ctxVars>>

\* Time Exceeded, Unreachable or Echo Reply: whoever sent it is the hop.
TakeICMP(h) ==
    /\ trPc = "wait"
    /\ Hop(h)
    /\ UNCHANGED <<ipv6, tries, trErr, ctxVars>>

Answered ==
    \E i \in inflight :
        TakeICMP(HostAt(i)) /\ inflight' = inflight \ {i} /\ UNCHANGED foreignVars

\* A message of one of those types that answers no probe of the trace: of a
\* stranger, or of a router or the target about something else.
ForeignICMP ==
    /\ foreign < MaxForeign
    /\ foreign' = foreign + 1
    /\ \/ /\ \E h \in Others \cup {Loopback} \cup {Path[i] : i \in 1..Len(Path)} : TakeICMP(h)
          /\ misled' = misled \cup {ttl}
          /\ UNCHANGED inflight
       \* Of another type: skipped, unless the context has ended meanwhile.
       \/ /\ trPc = "wait"
          /\ IF ctxDone THEN FailTry ELSE UNCHANGED <<trPc, tries>>
          /\ UNCHANGED <<ipv6, ttl, hops, inflight, misled, trErr, ctxVars>>

\* Nobody listens when it comes, or it never comes.
LoseICMP ==
    /\ trPc \notin {"idle", "done"}
    /\ \E i \in inflight : inflight' = inflight \ {i}
    /\ UNCHANGED <<trPc, ipv6, ttl, tries, hops, foreignVars, trErr, ctxVars>>

TrStep == NextHop \/ GiveUpHop \/ CheckTry \/ SendProbe \/ TimeOutTry \/ Answered

-----------------------------------------------------------------------------
\* A hop that answered names a router no farther than its time-to-live, this
\* host if the target has no IPv4 address, or whoever sent the message that was
\* taken for it by mistake: a late answer spoils no hop before the one it was
\* meant for.  The target ends the trace and, unless its hop is a mistake, is
\* no nearer than it is; the hops are numbered without a gap; and the trace stops
\* early for the target or the context only, so for an IPv6 target for the
\* context only (traceroute.go:78-104, traceroute_linux.go:46-100).
HopsExplained ==
    /\ Len(hops) = ttl - 1
    /\ \A i \in 1..Len(hops) :
         \/ hops[i] = NoHost
         \/ i \in misled
         \/ ipv6 /\ hops[i] = Loopback
         \/ ~ipv6 /\ \E j \in 1..i : j =< Len(Path) /\ hops[i] = Path[j]
    /\ \A i \in 1..Len(hops) :
         ~ipv6 /\ hops[i] = TargetHost => i = Len(hops) /\ (i \in misled \/ i >= Len(Path))
    /\ trPc = "done" /\ trErr # "resolve" =>
         \/ Len(hops) = MaxHops
         \/ ~ipv6 /\ hops # <<>> /\ hops[Len(hops)] = TargetHost
         \/ trErr = "context" /\ ctxDone
=============================================================================
