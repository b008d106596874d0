---------------------------- MODULE ScalarArray ----------------------------
(***************************************************************************)
(* What a Mat of any number of dimensions promises: an array of elements,  *)
(* each of one scalar per channel, in row-major order.  A view is a part   *)
(* of it, reshaping keeps every scalar in its place, and an access passes  *)
(* the scalars at the index it was given, in order.                        *)
(*                                                                         *)
(* A scalar stands for its place in memory; no two scalars of an array are *)
(* in the same place.  There are no strides, headers or pointers here:     *)
(* module ElementAccess implements this one.                               *)
(***************************************************************************)
EXTENDS Integers, Sequences, FiniteSets, Functions

CONSTANT Nothing    \* no call is running

VARIABLES
    array,     \* its shape, depth, channels and scalars
    passed     \* what the running call was given, or Nothing

avars == <<array, passed>>

Product(s) == FoldFunction(LAMBDA a, b : a * b, 1, s)
Sum(s) == FoldFunction(LAMBDA a, b : a + b, 0, s)

\* The scalars of everything behind the first i coordinates.
Weight(a, i) == a.channels * Product(SubSeq(a.shape, i + 1, Len(a.shape)))

Coordinate(a, p, i) == ((p - 1) \div Weight(a, i)) % a.shape[i]

\* The scalars whose coordinates are in a box, in order.
Box(a, starts, lengths) ==
    LET Inside(p) == \A i \in DOMAIN a.shape :
                        Coordinate(a, p, i) \in starts[i] .. starts[i] + lengths[i] - 1
        at == SelectSeq([p \in DOMAIN a.scalars |-> p], Inside)
    IN  [k \in DOMAIN at |-> a.scalars[at[k]]]

\* The scalars behind an index that gives the first coordinates.
Behind(a, index) ==
    LET first == Sum([i \in DOMAIN index |-> index[i] * Weight(a, i)])
    IN  SubSeq(a.scalars, first + 1, first + Weight(a, Len(index)))

-----------------------------------------------------------------------------
ArrayInit ==
    /\ array.scalars = << >>
    /\ passed = Nothing

\* A new array, or the end of one.
Allocate ==
    /\ passed = Nothing /\ UNCHANGED passed
    /\ \/ array'.scalars = << >>
       \/ Len(array'.scalars) = Product(array'.shape) * array'.channels
    /\ IsInjective(array'.scalars)

\* The indices from starts up to stops in each dimension.  A dimension that
\* is dropped has one of them.
Part ==
    /\ passed = Nothing /\ passed' /= Nothing /\ passed'.call = "view"
    /\ array'.depth = array.depth /\ array'.channels = array.channels
    /\ LET lengths == [i \in DOMAIN array.shape |-> passed'.stops[i] - passed'.starts[i]]
           kept == SelectSeq([i \in DOMAIN array.shape |-> i], LAMBDA i : i \notin passed'.drop)
       IN  /\ \A i \in passed'.drop : lengths[i] = 1
           /\ array'.shape = [k \in DOMAIN kept |-> lengths[kept[k]]]
           /\ array'.scalars = Box(array, passed'.starts, lengths)

Reshape ==
    /\ passed = Nothing /\ UNCHANGED passed
    /\ array'.depth = array.depth
    /\ array'.scalars = array.scalars
    /\ Product(array'.shape) * array'.channels = Len(array.scalars)

\* An element, a row of a matrix, or everything.
Pass ==
    /\ passed = Nothing /\ passed' /= Nothing /\ passed'.call = "access"
    /\ UNCHANGED array
    /\ \/ Len(passed'.index) = Len(array.shape)
       \/ Len(passed'.index) = 1 /\ Len(array.shape) = 2
       \/ passed'.index = << >>
    /\ \A i \in DOMAIN passed'.index : passed'.index[i] \in 0 .. array.shape[i] - 1
    /\ passed'.depth = array.depth
    /\ passed'.scalars = IF array.scalars = << >> THEN << >> ELSE Behind(array, passed'.index)

Finish == passed /= Nothing /\ passed' = Nothing /\ UNCHANGED array

ArrayNext == Allocate \/ Part \/ Reshape \/ Pass \/ Finish

ArraySpec == ArrayInit /\ [][ArrayNext]_avars
==============================================================================
