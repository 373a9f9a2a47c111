------------------------------ MODULE HostScan ------------------------------
(***************************************************************************)
(* What a scan of one host promises its caller, whatever machinery does    *)
(* the work: scanHostPorts (scan.go) and streamHostPorts (stream.go) both  *)
(* hand over one result per port, in any order, and may stop early only    *)
(* when their context ends (a cancellation or the host's timeout).         *)
(*                                                                         *)
(* Verdict[p] is the state an undisturbed probe of port p reports.  A      *)
(* probe cut short by the context reports "filtered" instead.              *)
(***************************************************************************)
CONSTANTS Ports, Verdict

VARIABLES
    openOnly,   \* the caller asked for open ports only
    reported,   \* the results handed over so far: records [port, state]
    ctxDone,    \* the context has ended
    finished    \* no further result will come

vars == <<openOnly, reported, ctxDone, finished>>

ReportedPorts == {r.port : r \in reported}
Wanted == {p \in Ports : openOnly => Verdict[p] = "open"}

Init ==
    /\ openOnly \in BOOLEAN
    /\ reported = {}
    /\ ctxDone = FALSE
    /\ finished = FALSE

Report(p, s) ==
    /\ ~finished
    /\ p \notin ReportedPorts
    /\ s = Verdict[p] \/ (ctxDone /\ s = "filtered")
    /\ openOnly => s = "open"
    /\ reported' = reported \cup {[port |-> p, state |-> s]}
    /\ UNCHANGED <<openOnly, ctxDone, finished>>

EndContext ==
    /\ ~ctxDone
    /\ ctxDone' = TRUE
    /\ UNCHANGED <<openOnly, reported, finished>>

Finish ==
    /\ ~finished
    /\ ctxDone \/ ReportedPorts = Wanted
    /\ finished' = TRUE
    /\ UNCHANGED <<openOnly, reported, ctxDone>>

Next ==
    \/ \E p \in Ports : \E s \in {Verdict[p], "filtered"} : Report(p, s)
    \/ EndContext
    \/ Finish

Spec == Init /\ [][Next]_vars
=============================================================================
