------------------------------ MODULE Context ------------------------------
(***************************************************************************)
(* The context.Context of a call: it ends once, at a moment that nothing   *)
(* in the library decides.                                                 *)
(***************************************************************************)

VARIABLE ctxDone    \* the context has ended

=============================================================================
