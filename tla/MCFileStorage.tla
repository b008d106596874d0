--------------------------- MODULE MCFileStorage ----------------------------
(***************************************************************************)
(* Bounds for FileStorage: two names, one payload the formats hold and one *)
(* they cannot (INT32_MIN).  Documents in memory have up to four nodes, a  *)
(* structure in a structure in a structure with a leaf in it; documents on *)
(* disk have two, of the other leaf types, and are replaced.               *)
(***************************************************************************)
EXTENDS FileStorage, TLC

CONSTANTS a, b, v, int32_min

MCNames == {a, b}
MCValues == {v, int32_min}
MCRejected == {int32_min}
MCLeafKinds == [memory |-> {"int"}, disk |-> {"real", "string", "mat"}]
MCBound == [memory |-> 4, disk |-> 2]
MCRewritten == {"disk"}
MCSymmetry == Permutations({a, b})
=============================================================================
