---------------------------- MODULE MCSparseMats ----------------------------
(* Two positions, the values 0 and 1; 1 stands for the largest value.       *)
EXTENDS SparseMats

MCValues == {0, 1}
MCLeast == -1
MCLayouts == {"float"}
MCExpected == {"float", "byte"}
==============================================================================
