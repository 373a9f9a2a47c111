----------------------------- MODULE Interrupt -----------------------------
(***************************************************************************)
(* The context of a command: signal.NotifyContext ends it on Ctrl-C (run   *)
(* in cmd/gomap/main.go).  Every analysis looks at it at points of its     *)
(* own; what they send between the interrupt and that look is counted.     *)
(***************************************************************************)
EXTENDS Context, Naturals

VARIABLE late       \* history: how many probes were begun after it ended

ctxVars == <<ctxDone, late>>

CtxInit == ctxDone = FALSE /\ late = 0

\* A probe goes out.
Sends == late' = (IF ctxDone THEN late + 1 ELSE late) /\ UNCHANGED ctxDone

CtrlC == ~ctxDone /\ ctxDone' = TRUE /\ UNCHANGED late
=============================================================================
