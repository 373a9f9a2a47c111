----------------------------- MODULE ScriptRun -----------------------------
(***************************************************************************)
(* The scripts of a command: RunScripts (script.go) for each open port, as *)
(* cmd/gomap/main.go calls it.  The workers share a job channel that is    *)
(* filled and closed before they can starve, and a result channel with     *)
(* room for every script; the caller collects until it is closed.          *)
(***************************************************************************)
EXTENDS Interrupt, Sequences, SequencesExt, FiniteSets

CONSTANTS
    ScriptIDs,      \* the registered scripts, in order of their IDs
    Selected,       \* what SelectByIDs returned: overlapping patterns repeat a script
    Matching,       \* [port |-> the scripts whose Match accepts it]
    ScriptWorkers

ASSUME ScriptAssumption ==
    /\ ScriptWorkers # {} /\ IsFiniteSet(ScriptWorkers)
    /\ Selected \in Seq(ToSet(ScriptIDs))

VARIABLES
    scPc,
    scPorts,    \* open ports still to be served, the current one first
    jobs,       \* the scripts in the job channel
    at,         \* worker -> where it is
    job,        \* worker -> the script it took
    results,    \* the result channel and what was collected: [script, kind]
    outputs,    \* port -> what RunScripts returned
    ran         \* history: every run of a script as [port, script, kind]

scVars == <<scPc, scPorts, jobs, at, job, results, outputs, ran>>

NoScript == "none"
ScInit ==
    /\ scPc = "idle"
    /\ scPorts = <<>>
    /\ jobs = <<>>
    /\ at = [w \in ScriptWorkers |-> "gone"]
    /\ job = [w \in ScriptWorkers |-> NoScript]
    /\ results = <<>>
    /\ outputs = <<>>
    /\ ran = <<>>

RunAllScripts(ports) ==
    /\ scPc = "idle"
    /\ scPorts' = ports
    /\ scPc' = "port"
    /\ UNCHANGED <<jobs, at, job, results, outputs, ran, ctxVars>>

\* The loop over the open ports; RunScripts starts its workers.
StartScripts ==
    /\ scPc = "port"
    /\ IF scPorts = <<>>
       THEN scPc' = "done" /\ UNCHANGED <<jobs, at, results>>
       ELSE /\ scPc' = "collect"
            /\ jobs' = Selected
            /\ at' = [w \in ScriptWorkers |-> "range"]
            /\ results' = <<>>
    /\ UNCHANGED <<scPorts, job, outputs, ran, ctxVars>>

Move(w, place) == at' = [at EXCEPT ![w] = place]

TakeScript(w) ==
    /\ at[w] = "range"
    /\ jobs # <<>>
    /\ jobs' = Tail(jobs)
    /\ job' = [job EXCEPT ![w] = Head(jobs)]
    /\ Move(w, "check")
    /\ UNCHANGED <<scPc, scPorts, results, outputs, ran, ctxVars>>

NoMoreScripts(w) ==
    /\ at[w] = "range"
    /\ jobs = <<>>
    /\ Move(w, "gone")
    /\ UNCHANGED <<scPc, scPorts, jobs, job, results, outputs, ran, ctxVars>>

\* The context, then Match: the context's end ends the worker, a script that
\* does not match costs its turn only.
CheckScript(w) ==
    /\ at[w] = "check"
    /\ IF ctxDone THEN Move(w, "gone")
       ELSE IF job[w] \in Matching[Head(scPorts)] THEN Move(w, "run")
       ELSE Move(w, "range")
    /\ UNCHANGED <<scPc, scPorts, jobs, job, results, outputs, ran, ctxVars>>

\* Mutant: a script that fails takes its worker with it.
AfterRun_LeavesOnError(kind) == IF kind = "error" THEN "gone" ELSE "range"

AfterRun(kind) == "range"

Kinds == {"output", "error", "nothing"}

\* A script yields an output, an error, which is an output as well, or nothing.
RunScript(w) ==
    /\ at[w] = "run"
    /\ Sends
    /\ \E kind \in Kinds :
          /\ ran' = Append(ran, [port |-> Head(scPorts), script |-> job[w], kind |-> kind])
          /\ results' = IF kind = "nothing" THEN results
                        ELSE Append(results, [script |-> job[w], kind |-> kind])
          /\ Move(w, AfterRun(kind))
    /\ UNCHANGED <<scPc, scPorts, jobs, job, outputs>>

Rank(s) == SelectInSeq(ScriptIDs, LAMBDA t : t = s)

\* What sort.Slice may make of the outputs: it is not stable, so entries of
\* one script come in any order.
InOrder(out) ==
    \A a, b \in 1..Len(out) : a < b => Rank(out[a].script) =< Rank(out[b].script)

Sorted(s) ==
    {out \in {[k \in 1..Len(s) |-> s[perm[k]]] : perm \in Bijection(1..Len(s), 1..Len(s))} : InOrder(out)}

\* The closer closes the channel behind the last worker; the caller sorts what
\* it collected by script and goes on to the next port.
ReturnOutputs ==
    /\ scPc = "collect"
    /\ \A w \in ScriptWorkers : at[w] = "gone"
    /\ \E out \in Sorted(results) :
          outputs' = Append(outputs, [port |-> Head(scPorts), out |-> out])
    /\ scPorts' = Tail(scPorts)
    /\ scPc' = "port"
    /\ UNCHANGED <<jobs, at, job, results, ran, ctxVars>>

ScWorker(w) == TakeScript(w) \/ NoMoreScripts(w) \/ CheckScript(w) \/ RunScript(w)

ScStep == StartScripts \/ ReturnOutputs

-----------------------------------------------------------------------------
\* How many elements of a sequence are in T.
Times(s, T) == Cardinality({i \in 1..Len(s) : s[i] \in T})

Outputs(s) == [script : {s}, kind : {"output", "error"}]
Runs(port, s, kinds) == [port : {port}, script : {s}, kind : kinds]

\* Whatever the interleaving of the workers, the report of a port holds, in
\* the order of the script IDs, one entry for each run of a script that had
\* something to say, an error included; if the context has not ended, every
\* script that matches the port has run as often as it was selected
\* (script.go:216-257).
ScriptsReported ==
    \A i \in 1..Len(outputs) :
        LET out == outputs[i].out
            port == outputs[i].port
        IN  /\ InOrder(out)
            /\ \A s \in ToSet(ScriptIDs) :
                  /\ Times(out, Outputs(s)) = Times(ran, Runs(port, s, {"output", "error"}))
                  /\ \/ ctxDone
                     \/ Times(ran, Runs(port, s, Kinds)) =
                          (IF s \in Matching[port] THEN Times(Selected, {s}) ELSE 0)
=============================================================================
