---------------------------- MODULE MCNativeCalls ----------------------------
(***************************************************************************)
(* Instances of NativeCalls: two tasks, and wrappers for both to hold a    *)
(* result of two components and build another, or for one to build three.  *)
(***************************************************************************)
EXTENDS NativeCalls, TLC

\* An operation of each kind: the others have the record of one of these.
MCKinds ==
    {"Split", "Extract_Channel", "Eigen_Decomposition",
     "Singular_Value_Decomposition", "Invert", "Solve_Linear_Program"}

MCLate == {op \in AllOperations : Body(op).late}

Symmetry == Permutations(Wrappers) \cup Permutations(Tasks)
=============================================================================
