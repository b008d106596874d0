----------------------------- MODULE SparseMats -----------------------------
(***************************************************************************)
(* OpenCV.Core.Sparse: Sparse_Mat objects, the hash tables they share, and *)
(* the callback-scoped traversal For_Each_Stored.                          *)
(*                                                                         *)
(* A Sparse_Mat owns a wrapper that holds a cv::SparseMat, which counts as *)
(* one reference to a table.  A traversal's native iterator holds another  *)
(* cv::SparseMat and a position in the table.  Each Ada operation is one   *)
(* step, its failures included; a call that raises and leaves everything   *)
(* as it was is no step.  Traversals nest, because the callback may call   *)
(* every operation, also on the object that is being traversed.            *)
(*                                                                         *)
(* All matrices have one shape, whose positions are numbered.  Number and  *)
(* order stand for the buckets of the hash table: the iterator meets the   *)
(* nodes in the order of their positions.                                  *)
(***************************************************************************)
EXTENDS Integers, Sequences, FiniteSets, SequencesExt

CONSTANTS
    Vars,          \* the Sparse_Mat objects of the client
    Tables,        \* hash tables; a bound on how many exist at once
    Extent,        \* how many positions a matrix has
    Values,        \* the values of an element; 0 has all bytes zero
    Least, Largest,\* where cv::minMaxLoc starts from: the values -MAX and MAX
    Layouts,       \* depth and channels of the matrices
    Expected,      \* the layouts of the typed packages
    Floating,      \* the layouts that cv::norm accepts
    MaxDepth,      \* a bound on how deeply traversals nest
    Unallocated,   \* a wrapper whose cv::SparseMat has no table
    NoHandle,      \* an object without a wrapper, after a failed Adjust
    Freed,         \* a table that nothing refers to
    Nothing,       \* no element is being visited
    Refused        \* the result of a call that raises

Indices == 0 .. Extent - 1
Stores == UNION {[kept -> Values] : kept \in SUBSET Indices}
Contents == [layout : Layouts, node : Stores]
Visits == [index : Indices, value : Values]

ASSUME SparseAssumption ==
    /\ IsFiniteSet(Vars)
    /\ Extent \in Nat \ {0} /\ MaxDepth \in Nat
    /\ 0 \in Values /\ Values \subseteq Int /\ Least \in Int /\ Largest \in Int
    /\ Floating \subseteq Layouts /\ Layouts \subseteq Expected
    /\ {Unallocated, NoHandle, Nothing} \cap Tables = {} /\ Unallocated /= NoHandle
    /\ Freed \notin Contents /\ Nothing \notin Visits

VARIABLES
    handle,     \* the table of each object, Unallocated or NoHandle
    refcount,   \* of each table
    table,      \* layout and nodes of each table, or Freed
    frames      \* traversals: the iterator's owner and position, and the visit

vars == <<handle, refcount, table, frames>>

Empty == [i \in {} |-> 0]

Init ==
    /\ handle = [v \in Vars |-> Unallocated]
    /\ refcount = [t \in Tables |-> 0]
    /\ table = [t \in Tables |-> Freed]
    /\ frames = << >>

(***************************************************************************)
(* cv::SparseMat, as the shim uses it.                                     *)
(***************************************************************************)
Node(t) == table[t].node

\* One reference more to one table, one less to another.
Shifted(more, less) ==
    [t \in Tables |-> refcount[t] + (IF t = more THEN 1 ELSE 0) - (IF t = less THEN 1 ELSE 0)]

\* The tables that are still referred to.
Settled(contents) == [t \in Tables |-> IF refcount'[t] = 0 THEN Freed ELSE contents[t]]

Free == {t \in Tables : refcount[t] = 0}
Fresh == CHOOSE t \in Free : TRUE

\* The first node at or behind a position; Extent is the end.
Seek(t, from) ==
    LET behind == {i \in DOMAIN Node(t) : i >= from}
    IN  IF behind = {} THEN Extent ELSE Min(behind)

\* cv::SparseMat (cv::Mat) omits the elements whose bytes are all zero.
OfDense(dense) == [i \in {i \in Indices : dense[i] /= 0} |-> dense[i]]

\* convertTo makes a node for every node, also where the result is zero.
Scaled(t, scale) == [i \in DOMAIN Node(t) |-> scale * Node(t)[i]]

-----------------------------------------------------------------------------
(***************************************************************************)
(* The checks, in Ada and again in the shim.                               *)
(***************************************************************************)
Is_Allocated(v) == handle[v] \in Tables

Check_Indices(v, i) == Is_Allocated(v) /\ i < Extent

Check_Layout(v, expected) == Is_Allocated(v) /\ table[handle[v]].layout = expected

\* Mutant: the last position is behind the end.
sparse_indices_exclusive(h, i) == h \in Tables /\ 0 <= i /\ i < Extent - 1

sparse_indices(h, i) == h \in Tables /\ 0 <= i /\ i < Extent

sparse_access(h, i, expected) == sparse_indices(h, i) /\ table[h].layout = expected

\* Nothing runs, or the innermost callback.
ClientRuns == frames /= << >> => Last(frames).visiting /= Nothing

\* docs/sparse-and-persistence-guide.md:61: the client does not add or remove
\* nodes of a table that is being traversed, through whichever object.
Traversed(t) == \E d \in DOMAIN frames : frames[d].owner = t

-----------------------------------------------------------------------------
(***************************************************************************)
(* Controlled operations.                                                  *)
(***************************************************************************)
\* Mutant: Adjust keeps the copied handle until it has its own.
Adjust_Keeping(old) ==
    {[holds |-> old, counted |-> Unallocated]} \cup
    IF old = NoHandle THEN {} ELSE {[holds |-> old, counted |-> old]}

\* Adjust forgets the copied handle first; the shim's copy may fail.
Adjust(old) ==
    {[holds |-> NoHandle, counted |-> Unallocated]} \cup
    IF old = NoHandle THEN {} ELSE {[holds |-> old, counted |-> old]}

\* "V := ..." finalizes v, copies the bits of the source and adjusts v.
Assigned(v, source, contents) ==
    \E copy \in Adjust(source) :
        /\ handle' = [handle EXCEPT ![v] = copy.holds]
        /\ refcount' = Shifted(copy.counted, handle[v])
        /\ table' = Settled(contents)
        /\ UNCHANGED frames

\* A function installs a new table in its local result, which is assigned to v.
Returned(v, layout, node) ==
    /\ Free /= {}
    /\ Assigned(v, Fresh, [table EXCEPT ![Fresh] = [layout |-> layout, node |-> node]])

Assign(v, source) == v /= source /\ Assigned(v, handle[source], table)

\* The end of v's scope, and the beginning of the next.
Declare(v) ==
    /\ handle' = [handle EXCEPT ![v] = Unallocated]
    /\ refcount' = Shifted(Unallocated, handle[v])
    /\ table' = Settled(table)
    /\ UNCHANGED frames

Create(v, layout) == Returned(v, layout, Empty)

From_Dense(v, layout, dense) == Returned(v, layout, OfDense(dense))

Convert_To(v, source, layout, scale) ==
    Is_Allocated(source) /\ Returned(v, layout, Scaled(handle[source], scale))

Normalize(v, source, scale) ==
    /\ Is_Allocated(source) /\ table[handle[source]].layout \in Floating
    /\ Returned(v, table[handle[source]].layout, Scaled(handle[source], scale))

Clone(v, source) ==
    \/ Is_Allocated(source)
       /\ Returned(v, table[handle[source]].layout, Node(handle[source]))
    \/ handle[source] = Unallocated /\ Assigned(v, Unallocated, table)

-----------------------------------------------------------------------------
(***************************************************************************)
(* Elements.                                                               *)
(***************************************************************************)
SetNode(t, node) ==
    /\ table' = [table EXCEPT ![t].node = node]
    /\ UNCHANGED <<handle, refcount, frames>>

\* Writes the node at i, or makes one.
Set(v, i, value, layout) ==
    /\ Check_Indices(v, i) /\ Check_Layout(v, layout)
    /\ sparse_access(handle[v], i, layout)
    /\ i \in DOMAIN Node(handle[v]) \/ ~ Traversed(handle[v])
    /\ SetNode(handle[v], [j \in DOMAIN Node(handle[v]) \cup {i} |->
                             IF j = i THEN value ELSE Node(handle[v])[j]])

Erase(v, i) ==
    /\ Check_Indices(v, i) /\ sparse_indices(handle[v], i)
    /\ ~ Traversed(handle[v])
    /\ SetNode(handle[v], [j \in DOMAIN Node(handle[v]) \ {i} |-> Node(handle[v])[j]])

Clear(v) ==
    /\ Is_Allocated(v)
    /\ ~ Traversed(handle[v])
    /\ SetNode(handle[v], Empty)

\* With_Output_Handle, and a module that makes its result by cv::SparseMat's
\* create: a table of the same layout that nothing else refers to is cleared,
\* every other one is left to whoever refers to it.
With_Output_Handle(v, layout) ==
    /\ handle[v] /= NoHandle
    /\ IF Check_Layout(v, layout) /\ refcount[handle[v]] = 1
       THEN SetNode(handle[v], Empty)
       ELSE /\ Free /= {}
            /\ handle' = [handle EXCEPT ![v] = Fresh]
            /\ refcount' = Shifted(Fresh, handle[v])
            /\ table' = Settled([table EXCEPT ![Fresh] = [layout |-> layout, node |-> Empty]])
            /\ UNCHANGED frames

-----------------------------------------------------------------------------
(***************************************************************************)
(* Traversals.                                                             *)
(***************************************************************************)
\* Mutant: the iterator refers to the table without owning it.
For_Each_Stored_Unowned(v, expected) ==
    /\ ClientRuns /\ Len(frames) < MaxDepth
    /\ Check_Layout(v, expected)
    /\ frames' = Append(frames, [owner |-> handle[v], current |-> Seek(handle[v], 0),
                                 visiting |-> Nothing])
    /\ UNCHANGED <<handle, refcount, table>>

\* The iterator is created at the first node.
For_Each_Stored(v, expected) ==
    /\ ClientRuns /\ Len(frames) < MaxDepth
    /\ Check_Layout(v, expected)
    /\ frames' = Append(frames, [owner |-> handle[v], current |-> Seek(handle[v], 0),
                                 visiting |-> Nothing])
    /\ refcount' = Shifted(handle[v], Unallocated)
    /\ UNCHANGED <<handle, table>>

Top == Last(frames)

\* Mutant: an exception passes the iterator by.
Finalize_Guard_Leaking ==
    /\ frames' = Front(frames)
    /\ refcount' = IF Top.visiting = Nothing THEN Shifted(Unallocated, Top.owner) ELSE refcount
    /\ table' = Settled(table)
    /\ UNCHANGED handle

\* The guard destroys the iterator, on the way out of the loop or of an exception.
Finalize_Guard ==
    /\ frames' = Front(frames)
    /\ refcount' = Shifted(Unallocated, Top.owner)
    /\ table' = Settled(table)
    /\ UNCHANGED handle

\* Mutant: the iterator advances before the element is copied.
sparse_iterator_copied_late(f) ==
    LET next == Seek(f.owner, f.current + 1)
    IN  [f EXCEPT !.visiting = [index |-> f.current,
                                value |-> IF next = Extent THEN 0 ELSE Node(f.owner)[next]],
                  !.current = next]

\* Mutant: the iterator stays where it is.
sparse_iterator_standing(f) ==
    [f EXCEPT !.visiting = [index |-> f.current, value |-> Node(f.owner)[f.current]]]

\* The element is copied, then the iterator advances.
sparse_iterator_copied(f) ==
    [f EXCEPT !.visiting = [index |-> f.current, value |-> Node(f.owner)[f.current]],
              !.current = Seek(f.owner, f.current + 1)]

\* The loop asks for the next element and calls Process with it, or exits.
sparse_iterator_next ==
    /\ ~ ClientRuns
    /\ IF Top.current = Extent
       THEN Finalize_Guard
       ELSE /\ frames' = Append(Front(frames), sparse_iterator_copied(Top))
            /\ UNCHANGED <<handle, refcount, table>>

ProcessReturns ==
    /\ ClientRuns /\ frames /= << >>
    /\ frames' = Append(Front(frames), [Top EXCEPT !.visiting = Nothing])
    /\ UNCHANGED <<handle, refcount, table>>

ProcessRaises == ClientRuns /\ frames /= << >> /\ Finalize_Guard

-----------------------------------------------------------------------------
Operation ==
    \E v \in Vars :
        \/ Declare(v)
        \/ \E source \in Vars : Assign(v, source) \/ Clone(v, source)
        \/ \E layout \in Layouts :
              \/ Create(v, layout)
              \/ With_Output_Handle(v, layout)
              \/ \E dense \in [Indices -> Values] : From_Dense(v, layout, dense)
        \/ \E source \in Vars, scale \in {0, 1} :
              \/ Normalize(v, source, scale)
              \/ \E layout \in Layouts : Convert_To(v, source, layout, scale)
        \/ \E i \in 0 .. Extent : Erase(v, i)
        \/ \E i \in 0 .. Extent, value \in Values, expected \in Expected : Set(v, i, value, expected)
        \/ Clear(v)

Next ==
    \/ ClientRuns /\ Operation
    \/ \E v \in Vars, expected \in Expected : For_Each_Stored(v, expected)
    \/ sparse_iterator_next
    \/ ProcessReturns
    \/ ProcessRaises

\* The loop of each level goes on, and every callback that may return does so
\* in the end, however many traversals it starts before.
Fairness ==
    \A d \in 1 .. MaxDepth :
        /\ WF_vars(Len(frames) = d /\ sparse_iterator_next)
        /\ SF_vars(Len(frames) = d /\ ProcessReturns)

Spec == Init /\ [][Next]_vars /\ Fairness

-----------------------------------------------------------------------------
(***************************************************************************)
(* The operations that only read.                                          *)
(***************************************************************************)
\* A missing element reads as zero; the shim finds the node without making one.
Get(v, i, expected) ==
    IF Check_Indices(v, i) /\ Check_Layout(v, expected) /\ sparse_access(handle[v], i, expected)
    THEN IF i \in DOMAIN Node(handle[v]) THEN Node(handle[v])[i] ELSE 0
    ELSE Refused

sparse_contains(v, i) ==
    IF Check_Indices(v, i) /\ sparse_indices(handle[v], i)
    THEN i \in DOMAIN Node(handle[v])
    ELSE Refused

To_Dense(v) ==
    IF Is_Allocated(v)
    THEN [i \in Indices |-> IF i \in DOMAIN Node(handle[v]) THEN Node(handle[v])[i] ELSE 0]
    ELSE Refused

\* The sides of cv::minMaxLoc walk the nodes and keep the first of the values
\* that are furthest beyond their seed; the location's seed, -1, is none.
Found(value, at) == [value |-> value, at |-> at]

Lowest(seed, node) ==
    MapThenFoldSet(LAMBDA i, best : IF node[i] < best.value THEN Found(node[i], i) ELSE best,
                   Found(seed, -1), LAMBDA i : i, Max, DOMAIN node)

Highest(seed, node) ==
    MapThenFoldSet(LAMBDA i, best : IF node[i] > best.value THEN Found(node[i], i) ELSE best,
                   Found(seed, -1), LAMBDA i : i, Max, DOMAIN node)

Min_Max_Loc(v) ==
    IF ~ Is_Allocated(v) \/ table[handle[v]].layout \notin Floating THEN Refused
    ELSE [minimum |-> Lowest(Largest, Node(handle[v])),
          maximum |-> Highest(Least, Node(handle[v]))]

-----------------------------------------------------------------------------
TypeOK ==
    /\ handle \in [Vars -> Tables \cup {Unallocated, NoHandle}]
    /\ refcount \in [Tables -> Nat]
    /\ table \in [Tables -> Contents \cup {Freed}]
    /\ frames \in BoundedSeq([owner : Tables, current : 0 .. Extent,
                              visiting : Visits \cup {Nothing}], MaxDepth)

\* A table is referred to by as many objects and iterators as it counts: none
\* is freed under an object or an iterator, and none is left behind, whichever
\* copies fail and however a callback ends.
HoldersCounted ==
    \A t \in Tables :
        refcount[t] = Cardinality({v \in Vars : handle[v] = t})
                    + Cardinality({d \in DOMAIN frames : frames[d].owner = t})

\* What a client is promised: the objects as names, the tables as collections,
\* the iterators by the nodes at and behind their position, not yet visited.
Names == [v \in Vars |-> IF Is_Allocated(v) THEN handle[v] ELSE Nothing]
Elements ==
    [t \in Tables |-> IF table[t] = Freed THEN Freed
                     ELSE [layout |-> table[t].layout, stored |-> table[t].node]]
Left(f) == {i \in DOMAIN Node(f.owner) : i >= f.current}
Traversals ==
    [d \in DOMAIN frames |->
        [of |-> frames[d].owner, left |-> Left(frames[d]), visiting |-> frames[d].visiting]]

Promise == INSTANCE StoredElements WITH
    Collections <- Tables,
    Unused <- Freed,
    names <- Names,
    elements <- Elements,
    traversals <- Traversals

\* Objects name collections of elements, and a traversal visits each element
\* of its collection once with its present value, whatever the callback does
\* to the object that was traversed and whichever traversals it nests.
KeepsElements == Promise!StoredSpec

\* A side of Min_Max_Loc is published exactly when there is such an extremum,
\* and then with one of its locations and its value.
Located(side, found, v) ==
    IF found = {} THEN side.at = -1
    ELSE side.at \in found /\ side.value = Promise!Value(v, side.at)

\* Reads give what is stored, and an extremum is published exactly when there
\* is one.
ReadsAgree ==
    \A v \in Vars :
        IF Is_Allocated(v)
        THEN /\ \A i \in 0 .. Extent, expected \in Expected :
                  Get(v, i, expected) = IF i \in Indices /\ expected = table[handle[v]].layout
                                        THEN Promise!Value(v, i) ELSE Refused
             /\ \A i \in Indices : sparse_contains(v, i) <=> i \in DOMAIN Node(handle[v])
             /\ To_Dense(v) = [i \in Indices |-> Promise!Value(v, i)]
             /\ Min_Max_Loc(v) /= Refused =>
                  /\ Located(Min_Max_Loc(v).minimum, Promise!MinimumAt(v, Largest), v)
                  /\ Located(Min_Max_Loc(v).maximum, Promise!MaximumAt(v, Least), v)
        ELSE {Get(v, 0, expected) : expected \in Expected} \cup {sparse_contains(v, 0), To_Dense(v)} = {Refused}

\* A traversal that has begun ends, provided that callbacks return.
Terminates == \A d \in 1 .. MaxDepth : Len(frames) = d ~> Len(frames) < d
==============================================================================
