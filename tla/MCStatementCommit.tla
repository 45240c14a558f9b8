-------------------------- MODULE MCStatementCommit --------------------------
(* Programs for TLC: the second statement inherits the trace of the first
   as context and names one of its outputs. *)
EXTENDS StatementCommit, TLC
CONSTANTS p1, p2

Chained == 1 :> {} @@ 2 :> {1}
FirstRetries == 1 :> 1 @@ 2 :> 0
Granting == <<Rec("grant", {})>>
Symmetry == Permutations(Runtime)
=============================================================================
