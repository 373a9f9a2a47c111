----------------------------- MODULE RangeScan -----------------------------
(***************************************************************************)
(* ScanCIDR and ScanRange (scan.go): the hosts of a range one after the    *)
(* other, under an interface whose MAC address is spoofed for the duration *)
(* of the call when opts.SpoofMAC asks for it (spoofmac_linux.go).         *)
(*                                                                         *)
(* The scan of a host is abstracted to how scanHostPorts ends, with an     *)
(* error or with a result; HostTimeout changes only what that result holds *)
(* (HostScan).  The `ip link` command is external: each of its runs may    *)
(* fail.                                                                   *)
(***************************************************************************)
EXTENDS Ranges

CONSTANTS
    Calls,              \* the ranges ScanCIDR is called with
    LocalRanges,        \* what GetLocalRange may yield: an IPv4 range, the /24
                        \* of the first interface
    ExcludeRanges,      \* opts.ExcludeHosts: ranges, and
    ExcludeAddrs,       \* single addresses
    Original, Spoofed   \* the interface's MAC addresses

ASSUME RangeAssumption ==
    /\ LocalRanges \subseteq {c \in CIDRs : c.family = "v4"}
    /\ Calls \cup ExcludeRanges \subseteq CIDRs \cup {NoCIDR}
    /\ \A c \in Calls \cup LocalRanges \cup ExcludeRanges : NoWrap(c)
    /\ ExcludeAddrs \subseteq {"v4", "v6"} \X (0..(Word - 1))
    /\ Original # Spoofed

VARIABLES
    call,       \* "ScanCIDR" or "ScanRange"
    spoofMAC,   \* opts.SpoofMAC # ""
    cidr,       \* the range: the argument, or GetLocalRange()
    hosts,      \* its hosts
    pc,
    doing,      \* what setMAC is called for: "spoof" or "restore"
    next,       \* index of the next host
    tried,      \* history: the hosts whose scan was started, in order
    results,    \* the hosts that have a ScanResult, in order
    err,
    mac, up,    \* the interface
    ipFailed,   \* history: an `ip link` command has failed
    ctxDone

vars == <<call, spoofMAC, cidr, hosts, pc, doing, next, tried, results, err, mac, up,
          ipFailed, ctxDone>>

callVars == <<call, spoofMAC, cidr, hosts>>
loopVars == <<next, tried, results>>
linkVars == <<mac, up, ipFailed>>

Errors == {"nil", "refused", "spoof-mac", "context"}

Init ==
    /\ call \in {"ScanCIDR", "ScanRange"}
    /\ spoofMAC \in BOOLEAN
    /\ cidr \in (IF call = "ScanRange" THEN LocalRanges ELSE Calls)
    /\ hosts = CreateHostRange(cidr)
    /\ pc = "start"
    /\ doing = "spoof"
    /\ next = 1
    /\ tried = <<>>
    /\ results = <<>>
    /\ err = "nil"
    /\ mac = Original
    /\ up = TRUE
    /\ ipFailed = FALSE
    /\ ctxDone = FALSE

-----------------------------------------------------------------------------
(* The call: checks, the spoofed MAC, the loop, the deferred restore.  A    *)
(* canceled context is seen between two hosts only.                        *)

\* Validate or GetLocalIP fails, or there is no default interface.
Refuse ==
    /\ pc = "start"
    /\ err' = "refused"
    /\ pc' = "returned"
    /\ UNCHANGED <<callVars, doing, loopVars, linkVars, ctxDone>>

Begin ==
    /\ pc = "start"
    /\ pc' = IF spoofMAC THEN "down" ELSE "loop"
    /\ UNCHANGED <<callVars, doing, loopVars, err, linkVars, ctxDone>>

\* Mutant: leaving with an error skips the restore.
Leave_OnlyNil(e) ==
    /\ err' = e
    /\ doing' = "restore"
    /\ pc' = IF spoofMAC /\ e = "nil" THEN "down" ELSE "returned"

\* Leave the loop with error e; the deferred restore runs if there is one.
Leave(e) ==
    /\ err' = e
    /\ doing' = "restore"
    /\ pc' = IF spoofMAC THEN "down" ELSE "returned"

Exhausted ==
    /\ pc = "loop"
    /\ next > Len(hosts)
    /\ Leave("nil")
    /\ UNCHANGED <<callVars, loopVars, linkVars, ctxDone>>

Canceled ==
    /\ pc = "loop"
    /\ next =< Len(hosts)
    /\ ctxDone
    /\ Leave("context")
    /\ UNCHANGED <<callVars, loopVars, linkVars, ctxDone>>

\* Only ScanCIDR looks at opts.ExcludeHosts.
Skips(h) == call = "ScanCIDR" /\ h \in buildExcludeSet(ExcludeRanges, ExcludeAddrs)

\* Mutant: `continue` before the loop variable has moved on.
Skip_Stays ==
    /\ pc = "loop"
    /\ next =< Len(hosts)
    /\ ~ctxDone
    /\ Skips(hosts[next])
    /\ UNCHANGED vars

Skip ==
    /\ pc = "loop"
    /\ next =< Len(hosts)
    /\ ~ctxDone
    /\ Skips(hosts[next])
    /\ next' = next + 1
    /\ UNCHANGED <<callVars, pc, doing, tried, results, err, linkVars, ctxDone>>

ScanHost ==
    /\ pc = "loop"
    /\ next =< Len(hosts)
    /\ ~ctxDone
    /\ ~Skips(hosts[next])
    /\ tried' = Append(tried, hosts[next])
    /\ pc' = "scan"
    /\ UNCHANGED <<callVars, doing, next, results, err, linkVars, ctxDone>>

\* Mutant: a host that does not resolve ends the loop.
HostFails_EndsLoop ==
    /\ pc = "scan"
    /\ next' = Len(hosts) + 1
    /\ pc' = "loop"
    /\ UNCHANGED <<callVars, doing, tried, results, err, linkVars, ctxDone>>

\* `if err != nil { continue }`
HostFails ==
    /\ pc = "scan"
    /\ next' = next + 1
    /\ pc' = "loop"
    /\ UNCHANGED <<callVars, doing, tried, results, err, linkVars, ctxDone>>

\* Mutant: the loop goes on to the next host without its checks.
HostScanned_NoChecks ==
    /\ pc = "scan"
    /\ results' = Append(results, hosts[next])
    /\ next' = next + 1
    /\ pc' = IF next < Len(hosts) THEN "scan" ELSE "loop"
    /\ UNCHANGED <<callVars, doing, tried, err, linkVars, ctxDone>>

HostScanned ==
    /\ pc = "scan"
    /\ results' = Append(results, hosts[next])
    /\ next' = next + 1
    /\ pc' = "loop"
    /\ UNCHANGED <<callVars, doing, tried, err, linkVars, ctxDone>>

-----------------------------------------------------------------------------
(* setMAC: down, address, up.  What it returns is SpoofMAC's error, and is  *)
(* ignored by the deferred restore.                                        *)

Fail ==
    /\ ipFailed' = TRUE
    /\ pc' = "returned"
    /\ err' = IF doing = "spoof" THEN "spoof-mac" ELSE err

Down ==
    /\ pc = "down"
    /\ \/ /\ up' = FALSE
          /\ pc' = "address"
          /\ UNCHANGED <<err, ipFailed>>
       \/ Fail /\ UNCHANGED up
    /\ UNCHANGED <<callVars, doing, loopVars, mac, ctxDone>>

\* When the address cannot be set, the interface is brought up again and the
\* error of that command ignored.
Address ==
    /\ pc = "address"
    /\ \/ /\ mac' = IF doing = "spoof" THEN Spoofed ELSE Original
          /\ pc' = "up"
          /\ UNCHANGED <<up, err, ipFailed>>
       \/ Fail /\ up' \in BOOLEAN /\ UNCHANGED mac
    /\ UNCHANGED <<callVars, doing, loopVars, ctxDone>>

\* Mutant: setMAC returns before the interface is up.
Up_Forgotten ==
    /\ pc = "up"
    /\ pc' = IF doing = "spoof" THEN "loop" ELSE "returned"
    /\ UNCHANGED <<callVars, doing, loopVars, err, linkVars, ctxDone>>

Up ==
    /\ pc = "up"
    /\ \/ /\ up' = TRUE
          /\ pc' = IF doing = "spoof" THEN "loop" ELSE "returned"
          /\ UNCHANGED <<err, ipFailed>>
       \/ Fail /\ UNCHANGED up
    /\ UNCHANGED <<callVars, doing, loopVars, mac, ctxDone>>

-----------------------------------------------------------------------------
Cancel ==
    /\ pc # "returned"
    /\ ~ctxDone
    /\ ctxDone' = TRUE
    /\ UNCHANGED <<callVars, pc, doing, loopVars, err, linkVars>>

Returned == pc = "returned" /\ UNCHANGED vars

Step ==
    \/ Refuse
    \/ Begin
    \/ Exhausted
    \/ Canceled
    \/ Skip
    \/ ScanHost
    \/ HostFails
    \/ HostScanned
    \/ Down
    \/ Address
    \/ Up

Next == Step \/ Cancel \/ Returned

Spec == Init /\ [][Next]_vars

\* One goroutine; a host scan returns (BatchScan!ScanReturns).
FairSpec == Spec /\ WF_vars(Step)

-----------------------------------------------------------------------------
(* Properties. *)

\* The shape of the state; a host is being scanned exactly between the steps
\* that append it to `tried` and that move on.
TypeOK ==
    /\ call \in {"ScanCIDR", "ScanRange"}
    /\ spoofMAC \in BOOLEAN
    /\ cidr \in (IF call = "ScanRange" THEN LocalRanges ELSE Calls)
    /\ hosts = CreateHostRange(cidr)
    /\ pc \in {"start", "down", "address", "up", "loop", "scan", "returned"}
    /\ doing \in {"spoof", "restore"}
    /\ next \in 1..(Len(hosts) + 1)
    /\ pc = "scan" => next =< Len(hosts) /\ tried # <<>> /\ tried[Len(tried)] = hosts[next]
    /\ tried \in Seq(ToSet(hosts))
    /\ results \in Seq(ToSet(hosts))
    /\ err \in Errors
    /\ mac \in {Original, Spoofed}
    /\ up \in BOOLEAN
    /\ ipFailed \in BOOLEAN
    /\ ctxDone \in BOOLEAN

\* What opts.ExcludeHosts names, ranges taken as all the addresses they cover;
\* the hosts of the call's range that nobody asks to leave out.
Excluded == ExcludeAddrs \cup UNION {Covered(c) : c \in ExcludeRanges \ {NoCIDR}}
Wanted == Inside(cidr) \ Excluded

\* A call tries addresses strictly inside its range, in order, each once, and
\* leaves out none of those that nothing excludes; only a canceled context
\* keeps it from reaching the end of its range, and then it says so.  ScanCIDR
\* leaves out the excluded addresses and the hosts of the excluded ranges; what
\* ScanRange does about them is left to ExcludedNotScanned.  A host without a
\* result is left out and the order is kept (net.go:90-134, scan.go:391-413,
\* :421-440, :561-576).
TriesAllOrFails ==
    /\ InOrder(tried) /\ ToSet(tried) \subseteq Inside(cidr)
    /\ \A t \in ToSet(tried) : \A h \in Wanted : h[2] < t[2] => h \in ToSet(tried)
    /\ call = "ScanCIDR" =>
          \A t \in ToSet(tried) : t \notin ExcludeAddrs /\ \A c \in ExcludeRanges : t \notin Inside(c)
    /\ InOrder(results) /\ ToSet(results) \subseteq ToSet(tried)
    /\ pc = "returned" /\ err = "nil" => Wanted \subseteq ToSet(tried)
    /\ err = "context" => ctxDone

\* With SpoofMAC every host is scanned from the spoofed address and over an
\* interface that is up (spoofmac_linux.go:51-61, scan.go:345-355, :375-385).
ScansSpoofed ==
    pc \in {"loop", "scan"} => up /\ mac = (IF spoofMAC THEN Spoofed ELSE Original)

\* The interface is as before when the call returns, whether it returns with
\* an error or without, unless a command failed (spoofmac_linux.go:16).
MACRestored == pc = "returned" /\ ~ipFailed => mac = Original /\ up

\* The call returns.
Returns == <>(pc = "returned")

\* scan.go:60: "ExcludeHosts is a list of hosts/CIDRs to skip during range
\* scans."  Single addresses only, which have one meaning: ScanCIDR skips them
\* and satisfies this, ScanRange looks at no exclusion (scan.go:419-441).
ExcludedNotScanned == ToSet(tried) \cap ExcludeAddrs = {}
=============================================================================
