------------------------------ MODULE Session ------------------------------
(***************************************************************************)
(* The command line, run in cmd/gomap/main.go: from the arguments to one   *)
(* of the modes, and for a single host from its scan over the report to    *)
(* the analyses asked for, one after the other.  Ctrl-C ends the context   *)
(* that all of them share; a second one has no effect.  The scan itself is *)
(* BatchScan's: here it returns with any states for the ports, or fails.   *)
(***************************************************************************)
EXTENDS OSDetect, Traceroute, ServiceProbe, ScriptRun

CONSTANTS
    PortList,           \* the ports of the scan, in the order of the report
    PortStates,         \* the states a port of the report may have
    Requests            \* the sets of analyses that may be asked for

Analyses == {"banners", "os", "traceroute", "scripts"}

\* The ports are the keys of the map that resolvePortList returns.
ASSUME SessionAssumption ==
    /\ PortList \in Seq(ToSet(PortList)) /\ PortList # <<>> /\ IsInjective(PortList)
    /\ Requests \subseteq SUBSET Analyses

VARIABLES
    stage,
    requested,  \* --service-version, --os, --traceroute, --script
    osscanLimit,
    result      \* the ports of ScanHost's result with their states

sessionVars == <<stage, requested, osscanLimit, result>>
vars == <<sessionVars, ctxVars, osVars, trVars, svVars, scVars>>

Init ==
    /\ stage = "args"
    /\ requested \in Requests
    /\ osscanLimit \in BOOLEAN
    /\ result = <<>>
    /\ CtxInit
    /\ OSInit
    /\ TrInit
    /\ SvInit
    /\ ScInit
    \* Options of an analysis that was not asked for are read by nobody.
    /\ "os" \in requested \/ ~osscanLimit
    /\ \/ "banners" \in requested
       \/ timing /\ \A i \in Intensities : intensity >= i

analysisVars == <<osVars, trVars, svVars, scVars>>
Goto(s) == stage' = s /\ UNCHANGED <<requested, osscanLimit, ctxVars, analysisVars>>

-----------------------------------------------------------------------------
(* To the report. *)

\* Random targets, the rest of a resumed scan and the lines of a file join the
\* arguments.  A file that cannot be read ends the command, and so does a
\* resumed scan with nothing left.
LoadTargets == stage = "args" /\ \E s \in {"exit", "mode"} : Goto(s) /\ UNCHANGED result

\* The lists of targets and of scripts, and host discovery.
ListMode == stage = "mode" /\ \E s \in {"exit", "options"} : Goto(s) /\ UNCHANGED result

\* Options that cannot be parsed, the list of interfaces and the scan of the
\* IP protocols end the command.
ParseOptions ==
    stage = "options" /\ \E s \in {"exit", "ranges", "host"} : Goto(s) /\ UNCHANGED result

\* Without a target: the range scans.
ScanRanges == stage = "ranges" /\ Goto("exit") /\ UNCHANGED result

\* The k-th least of a set of indices.
Nth(S, k) == CHOOSE i \in S : Cardinality({j \in S : j =< i}) = k

\* ScanHost of the first target, whatever the others are.  Interrupted, it
\* returns the ports that reported; it fails before it has sent a probe.
ScanTarget ==
    /\ stage = "host"
    /\ \/ Goto("exit") /\ UNCHANGED result
       \/ /\ Goto("report")
          /\ \E S \in SUBSET (1..Len(PortList)) :
                /\ ctxDone \/ S = 1..Len(PortList)
                /\ \E state \in [S -> PortStates] :
                      result' = [k \in 1..Cardinality(S) |->
                          [port |-> PortList[Nth(S, k)], state |-> state[Nth(S, k)]]]

\* Printed, then written to the files, which may fail.
PrintReport == stage = "report" /\ \E s \in {"banners", "exit"} : Goto(s) /\ UNCHANGED result

-----------------------------------------------------------------------------
(* The analyses. *)

OpenOf(entries) ==
    LET open == {i \in 1..Len(entries) : entries[i].state = "open"}
    IN  [k \in 1..Cardinality(open) |-> entries[Nth(open, k)].port]

OpenPorts == OpenOf(result)

\* findOSDetectPorts: any port that is not open is taken for a closed one.
HasClosedPort == Len(OpenPorts) < Len(result)

\* What is run: detection of the system needs an open port and, on demand, a
\* closed one; a selection without scripts is not run.
Applies(a) ==
    /\ a \in requested
    /\ a = "os" => OpenPorts # <<>> /\ (osscanLimit => HasClosedPort)
    /\ a = "scripts" => Selected # <<>>

Banners ==
    /\ stage = "banners"
    /\ \/ Applies(stage) /\ GrabBanners(OpenPorts)
       \/ SvStep
    /\ UNCHANGED <<sessionVars, osVars, trVars, scVars>>

OSDetection ==
    /\ stage = "os"
    /\ \/ Applies(stage) /\ DetectOS(HasClosedPort)
       \/ OSStep
    /\ UNCHANGED <<sessionVars, trVars, svVars, scVars>>

Trace ==
    /\ stage = "traceroute"
    /\ \/ Applies(stage) /\ StartTrace
       \/ TrStep
    /\ UNCHANGED <<sessionVars, osVars, svVars, scVars>>

Scripts ==
    /\ stage = "scripts"
    /\ \/ Applies(stage) /\ RunAllScripts(OpenPorts)
       \/ ScStep
    /\ UNCHANGED <<sessionVars, osVars, trVars, svVars>>

\* An analysis that returned, with a result or an error, is printed and left.
Over(a) ==
    \/ ~Applies(a)
    \/ CASE a = "banners" -> svPc = "done"
         [] a = "os" -> osPc = "done"
         [] a = "traceroute" -> trPc = "done"
         [] a = "scripts" -> scPc = "done"

NextStage ==
    /\ stage \in Analyses
    /\ Over(stage)
    /\ Goto(CASE stage = "banners" -> "os"
              [] stage = "os" -> "traceroute"
              [] stage = "traceroute" -> "scripts"
              [] stage = "scripts" -> "exit")
    /\ UNCHANGED result

-----------------------------------------------------------------------------
ScriptWorker(w) == ScWorker(w) /\ UNCHANGED <<sessionVars, osVars, trVars, svVars>>

Network ==
    /\ stage = "traceroute"
    /\ ForeignICMP \/ LoseICMP
    /\ UNCHANGED <<sessionVars, osVars, svVars, scVars>>

Signal == stage # "exit" /\ CtrlC /\ UNCHANGED <<sessionVars, analysisVars>>

\* The goroutine of run.
Main ==
    \/ LoadTargets \/ ListMode \/ ParseOptions \/ ScanRanges \/ ScanTarget \/ PrintReport
    \/ Banners \/ OSDetection \/ Trace \/ Scripts \/ NextStage

Exited == stage = "exit" /\ UNCHANGED vars

Next ==
    \/ Main
    \/ \E w \in ScriptWorkers : ScriptWorker(w)
    \/ Network
    \/ Signal
    \/ Exited

Spec == Init /\ [][Next]_vars

\* The goroutines run; every read has a timeout, which passes because the
\* messages that could postpone it end.  Nothing is assumed of Ctrl-C.
Fairness == WF_vars(Main) /\ \A w \in ScriptWorkers : WF_vars(ScriptWorker(w))

FairSpec == Spec /\ Fairness

-----------------------------------------------------------------------------
(* Properties. *)

\* The command ends, interrupted or not, whatever servers, routers and scripts
\* answer: a second Ctrl-C is caught like the first one (main.go:207), so
\* nothing but the loops themselves ends it.
SessionEnds == <>(stage = "exit")

\* After Ctrl-C the analyses still to come are called but send nothing; the
\* one that is running sends at most the probe it was about to, with two
\* exceptions: the detection of the system does not look at the context
\* between its probes to the closed port (osdetect_linux.go:84-123), and each
\* worker may begin one script (script.go:219-226).
QuietAfterInterrupt ==
    late > 1 => \/ osPc # "idle" /\ closedPort /\ late =< 1 + ClosedProbes
                \/ scPc # "idle" /\ late =< Cardinality(ScriptWorkers)
=============================================================================
