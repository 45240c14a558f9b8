---------------------------- MODULE MCD1Journal ----------------------------
(* Instances for TLC: a flush slot for each of two journals, or two flush
   slots on one journal whose coroutines overlap. *)
EXTENDS D1Journal, TLC
CONSTANTS j1, j2, f1, f2, a, b

OneFlushEach == f1 :> j1 @@ f2 :> j2
TwoFlushesOnOne == f1 :> j1 @@ f2 :> j1
Symmetry == Permutations({a, b})
=============================================================================
