----------------------------- MODULE MCMatHandles -----------------------------
(* TLC instances of MatHandles.                                            *)
EXTENDS MatHandles, TLC

Symmetry == Permutations(Wrappers) \cup Permutations(Storages)
              \cup Permutations(Vars)
=============================================================================
