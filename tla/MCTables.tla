------------------------------- MODULE MCTables -------------------------------
(***************************************************************************)
(* Constants for checking Tables: column lists of every kind, among them   *)
(* one that repeats a name and one that redefines a column, and field maps *)
(* that are valid for some of them and not for others.                     *)
(***************************************************************************)
EXTENDS Tables, TLC

Col(n, ty, k) == [name |-> n, type |-> ty, kind |-> k]

MCLists ==
    {<<Col("a", "text", "nullable")>>,
     <<Col("a", "integer", "required")>>,
     <<Col("a", "text", "nullable"), Col("b", "integer", "default")>>,
     <<Col("b", "integer", "broken")>>,
     <<Col("b", "text", "nullable"), Col("b", "text", "nullable")>>}

MCData ==
    {<<>>, "a" :> "text", "a" :> "integer", "b" :> "null",
     ("a" :> "null") @@ ("b" :> "integer")}

MCSymmetry == Permutations(Procs)
=============================================================================
