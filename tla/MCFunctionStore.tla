--------------------------- MODULE MCFunctionStore ---------------------------
(***************************************************************************)
(* Constants for checking FunctionStore: requests are only compared for    *)
(* equality.                                                               *)
(***************************************************************************)
EXTENDS FunctionStore, TLC

MCSymmetry == Permutations(Procs)
=============================================================================
