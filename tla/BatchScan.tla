----------------------------- MODULE BatchScan -----------------------------
(***************************************************************************)
(* ScanHost (scan.go): validate, resolve, then run the port pool and       *)
(* collect its results in the calling goroutine, reporting progress and    *)
(* keeping only open ports when opts.OpenOnly asks for it.                 *)
(***************************************************************************)
EXTENDS PortPool

VARIABLES
    phase,  \* "start", "scanning" or "returned"
    err,    \* the error ScanHost returned, "nil" if none
    kept,   \* the result slice
    count   \* progress, as ProgressFunc(count, tasks) last saw it

callVars == <<phase, err, kept, count>>
bvars == <<vars, callVars>>

\* What stops a scan before its first probe: Validate, LookupIP,
\* GetLocalAddr, canSocketBind and SpoofMAC.
Refusals == {"ErrInvalidScanOptions", "ErrResolveHost", "ErrNoAddresses",
             "ErrLocalAddr", "ErrRawSocketRequired", "ErrSpoofMAC"}

BInit ==
    /\ Init
    /\ phase = "start"
    /\ err = "nil"
    /\ kept = <<>>
    /\ count = 0

Refuse ==
    /\ phase = "start"
    /\ \E e \in Refusals : err' = e
    /\ phase' = "returned"
    /\ UNCHANGED <<vars, kept, count>>

Begin ==
    /\ phase = "start"
    /\ phase' = "scanning"
    /\ UNCHANGED <<vars, err, kept, count>>

Keep(r) ==
    IF opts.openOnly /\ r.state # "open" THEN kept ELSE Append(kept, r)

\* Mutant: results that OpenOnly drops do not count as progress.
Collect_SkipsCount ==
    /\ phase = "scanning"
    /\ Receive
    /\ kept' = Keep(sent[received + 1])
    /\ count' = Len(kept')
    /\ UNCHANGED <<phase, err>>

Collect ==
    /\ phase = "scanning"
    /\ Receive
    /\ kept' = Keep(sent[received + 1])
    /\ count' = count + 1
    /\ UNCHANGED <<phase, err>>

\* The loop over the result channel ends and the slice is returned with a nil
\* error, whether or not the context ended on the way.
Return ==
    /\ phase = "scanning"
    /\ Finish
    /\ phase' = "returned"
    /\ err' = "nil"
    /\ UNCHANGED <<kept, count>>

\* The pool's goroutines start with the scan and may outlive the call.
PoolStep ==
    /\ phase # "start" /\ err = "nil"
    /\ Feeder \/ (\E w \in Workers : Worker(w)) \/ CloseResults
    /\ UNCHANGED callVars

CallerCancels ==
    /\ phase # "returned"
    /\ Cancel
    /\ UNCHANGED callVars

Returned ==
    /\ phase = "returned"
    /\ err = "nil" => inClosed
    /\ UNCHANGED bvars

BNext ==
    \/ Refuse
    \/ Begin
    \/ Collect
    \/ Return
    \/ PoolStep
    \/ CallerCancels
    \/ Returned

BSpec == BInit /\ [][BNext]_bvars

\* ScanHost is straight-line code up to the pool, and the pool's goroutines
\* are scheduled as PortPool!Fairness says.
BFairness ==
    /\ WF_bvars(Refuse \/ Begin)
    /\ WF_bvars(Collect)
    /\ WF_bvars(Return)
    /\ WF_bvars(Feeder /\ PoolStep)
    /\ \A w \in Workers : WF_bvars(Worker(w) /\ PoolStep)
    /\ WF_bvars(CloseResults /\ PoolStep)

FairBSpec == BSpec /\ BFairness

-----------------------------------------------------------------------------
(* Properties. *)

KeptPorts == {kept[i].port : i \in 1..Len(kept)}

\* The call returns one entry per port, or per open port under OpenOnly, and
\* progress has reached the number of ports, unless the context ended or the
\* scan was refused (scan.go:521-537).
ReturnsWhatWasFound ==
    phase = "returned" /\ err = "nil" /\ ~ctxDone =>
        /\ count = Cardinality(Ports)
        /\ KeptPorts = {p \in Ports : opts.openOnly => Verdict[p] = "open"}
        /\ Len(kept) = Cardinality(KeptPorts)

\* errors.go:27 says that ErrScanCanceled "is returned when a scan is canceled
\* via context", so a nil error would mean that every port was reported on.
NilErrorMeansComplete ==
    phase = "returned" /\ err = "nil" => count = Cardinality(Ports)

\* Every call returns, and its goroutines end, whatever the target answers
\* and however often the context ends (scan.go:465-537).
ScanReturns == <>(phase = "returned" /\ (err = "nil" => inClosed))
=============================================================================
