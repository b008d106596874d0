---------------------------- MODULE MCDestinations ----------------------------
EXTENDS Destinations, TLC

\* Objects and buffers are interchangeable.
MCSymmetry == Permutations(Matrices) \cup Permutations(Buffers)
===============================================================================
