------------------------------ MODULE PortScan ------------------------------
(***************************************************************************)
(* scanPort (scan.go) hands a job to the function that probes for its scan *)
(* type.  The families of those functions share nothing but the context:   *)
(* here one of them runs, chosen at the start.  The connect scan is part   *)
(* of the pool's model (PortPool); the methods of host discovery, which    *)
(* probeHost dispatches to in the same way, run with OneShot.              *)
(***************************************************************************)
EXTENDS RawProbe, OneShot, Relay

VARIABLE family     \* "raw", "one shot" or "relay"

psVars == <<family, vars, oneVars, relVars>>

PSInit ==
    /\ family \in {"raw", "one shot", "relay"}
    /\ Init
    /\ OneInit
    /\ RelInit
    \* What belongs to the families that do not run is left alone.
    /\ family = "raw" \/ kind = "syn"
    /\ family = "one shot" \/ (method = "udp" /\ ~hurried)
    /\ family = "relay" \/ relay = "idle"

RawScan == family = "raw" /\ Next /\ UNCHANGED <<family, oneVars, relVars>>

\* Both leave the context alone or end it: only that much of vars may change.
restOfVars == <<probeVars, listenVars, answered>>

OneProbe ==
    family = "one shot" /\ OneStep /\ UNCHANGED <<family, restOfVars, relVars>>

ProbePacket ==
    family = "one shot" /\ OnePacket /\ UNCHANGED <<family, restOfVars, relVars>>

RelayProbe ==
    family = "relay" /\ RelStep /\ UNCHANGED <<family, restOfVars, oneVars>>

RelayReply ==
    family = "relay" /\ RelReply /\ UNCHANGED <<family, restOfVars, oneVars>>

CancelProbe ==
    /\ family # "raw"
    /\ ~ctxDone
    /\ ctxDone' = TRUE
    /\ UNCHANGED <<family, restOfVars, oneVars, relVars>>

Probed ==
    /\ family = "one shot" => onePc = "done"
    /\ family = "relay" => relPc = "done"
    /\ family # "raw"
    /\ UNCHANGED psVars

PSNext == RawScan \/ OneProbe \/ ProbePacket \/ RelayProbe \/ RelayReply \/ CancelProbe \/ Probed

\* Goroutines run and deadlines pass; nothing is assumed of what arrives.
\* Strays, which may postpone the timeout of an SCTP scan, are bounded.
PSFairness ==
    /\ \A p \in Probes :
          /\ WF_psVars(family = "raw" /\ ~crashed /\ Probe(p) /\ UNCHANGED <<family, oneVars, relVars>>)
          /\ WF_psVars(family = "raw" /\ ~crashed /\ Listener(p) /\ UNCHANGED <<family, oneVars, relVars>>)
    /\ WF_psVars(OneProbe)
    /\ WF_psVars(RelayProbe)

PSSpec == PSInit /\ [][PSNext]_psVars /\ PSFairness

-----------------------------------------------------------------------------
\* A worker that probes gets its job done, whatever the target, the relay and
\* strangers send, even if the context never ends: most of these probes do not
\* look at it once they read.
ProbeEnds ==
    /\ family = "one shot" ~> onePc = "done"
    /\ family = "relay" ~> relPc = "done"
=============================================================================
