--------------------------- MODULE MCSumpLifecycle ---------------------------
(***************************************************************************)
(* The lifecycle of sumps on small instances.  The constants are given in  *)
(* the configurations: "serial" has one call at a time, the others two.    *)
(***************************************************************************)
EXTENDS SumpLifecycle, TLC

IdSymmetry == Permutations(FreshIds) \cup Permutations(Calls) \cup Permutations(Tokens \ TypedTokens)
=============================================================================
