----------------------------- MODULE MCInvocations -----------------------------
(***************************************************************************)
(* Constants for checking Invocations: a function of each runtime.         *)
(***************************************************************************)
EXTENDS Invocations, TLC

MCFns == {"js", "wasm"}
MCRuntime == [f \in MCFns |-> f]
=============================================================================
