--------------------------- MODULE MCToolExecutor ---------------------------
(* Instances of ToolExecutor for TLC: a critical tool that must not be      *)
(* repeated and an idempotent one that is retried.                          *)
EXTENDS ToolExecutor, TLC

CONSTANTS dispatch, lookup

MCTools == {dispatch, lookup}
MCOne == {dispatch}
MCMaxRetries == (dispatch :> 1) @@ (lookup :> 1)
Symmetry == Permutations(Calls) \union Permutations(Inputs)
=============================================================================
