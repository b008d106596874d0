------------------------------ MODULE MCRegions ------------------------------
(***************************************************************************)
(* Instances of Regions: a small matrix, edges moved by one, to the border *)
(* and beyond it, and by the largest distances an int32_t holds.           *)
(***************************************************************************)
EXTENDS Regions

MCAdjustments == {-(MaxInt + 1), -1, 0, 1, MaxInt}
MCSteps == {-2, -1, 0, 1, 3}
==============================================================================
