------------------------------ MODULE NativeMats ------------------------------
(***************************************************************************)
(* The C++ side of the dense matrices: the wrappers the shim allocates     *)
(* with new and frees with delete, the cv::Mat header each one holds, and  *)
(* which pixel memory a header addresses and keeps alive.                  *)
(*                                                                         *)
(* What a call of the shim may hand back is described by the set of the    *)
(* wrappers it can return; the empty set, like a failed allocation or a    *)
(* rejected argument, is an error status and no wrapper.  Geometry and     *)
(* pixels are abstracted: data names the allocation a header points into.  *)
(***************************************************************************)
EXTENDS Naturals, FiniteSets

CONSTANTS
    Wrappers,   \* addresses of opencv_core_mat_handle objects
    Storages,   \* pixel allocations of OpenCV, reference counted by headers
    Externals,  \* arrays of the Ada caller, never freed by OpenCV
    Null,       \* the null handle
    None        \* the data pointer of an empty header

ASSUME NativeAssumption ==
    /\ Null \notin Wrappers
    /\ None \notin Storages \cup Externals
    /\ Storages \cap Externals = {}

VARIABLE
    native      \* the wrapper at each address

Buffers == Storages \cup Externals

\* counted: value holds a reference to its allocation (it has a UMatData);
\* guard: the allocation storage_guard holds a reference to.
Wrapper == [live : BOOLEAN, data : Buffers \cup {None}, counted : BOOLEAN,
            guard : Storages \cup {None}, temp : BOOLEAN]

Freed == [live |-> FALSE, data |-> None, counted |-> FALSE,
          guard |-> None, temp |-> FALSE]

EmptyMat == [Freed EXCEPT !.live = TRUE]

Owning(s) == [EmptyMat EXCEPT !.data = s, !.counted = TRUE]

NativeType == native \in [Wrappers -> Wrapper]

Unused(heap) == {w \in Wrappers : ~ heap[w].live}

\* The reference count of an allocation, as a predicate: OpenCV frees s when
\* the last header that counts it is destroyed or rebound.
Holds(wrapper, s) ==
    /\ wrapper.live
    /\ (wrapper.counted /\ wrapper.data = s) \/ wrapper.guard = s

Held(heap, s) == \E w \in Wrappers : Holds(heap[w], s)

\* What fastMalloc may return: any allocation nobody holds, so that memory
\* released too early is handed out again while a header still points there.
Allocatable(heap) == {s \in Storages : ~ Held(heap, s)}

(***************************************************************************)
(* Calls that return a new wrapper.                                        *)
(***************************************************************************)
Temporary(heap, h) == h # Null /\ heap[h].temp

\* new opencv_core_mat_handle(source->value): the value alone is copied.
Shallow(wrapper) ==
    [EmptyMat EXCEPT !.data = wrapper.data, !.counted = wrapper.counted]

mat_create == {EmptyMat}

mat_create_nd(heap) == {EmptyMat} \cup {Owning(s) : s \in Allocatable(heap)}

mat_create_external(buffer) ==
    {[EmptyMat EXCEPT !.data = buffer, !.temp = TRUE]}

mat_copy(heap, h) ==
    IF h = Null \/ Temporary(heap, h) THEN {} ELSE {Shallow(heap[h])}

\* Mutant: the lease copies value and flag but not storage_guard.
mat_acquire_unguarded_lease(heap, h) ==
    IF h = Null THEN {}
    ELSE {[Shallow(heap[h]) EXCEPT !.temp = heap[h].temp]}

\* Mutant: the lease guards the source's value instead of its guard.
mat_acquire_value_guarding_lease(heap, h) ==
    IF h = Null THEN {}
    ELSE {[Shallow(heap[h]) EXCEPT !.guard = heap[h].data,
                                   !.temp = heap[h].temp]}

mat_acquire_borrow_lease(heap, h) ==
    IF h = Null THEN {}
    ELSE {[Shallow(heap[h]) EXCEPT !.guard = heap[h].guard,
                                   !.temp = heap[h].temp]}

mat_clone(heap, h) ==
    IF h = Null THEN {}
    ELSE IF heap[h].data = None THEN {EmptyMat}
    ELSE {Owning(s) : s \in Allocatable(heap)}

\* Mutant: a shared view of a temporary header is not refused.
mat_view_of_anything(heap, h) ==
    IF h = Null THEN {} ELSE {Shallow(heap[h]), EmptyMat}

\* Region, row, column, slice, diagonal and reshape headers: a part of the
\* source's allocation, or nothing when the selected part is empty.
mat_view(heap, h) ==
    IF h = Null \/ Temporary(heap, h) THEN {}
    ELSE {Shallow(heap[h]), EmptyMat}

\* Mutant: the selected header is published without storage_guard.
mat_select_unguarded_view(heap, h) ==
    IF h = Null \/ Temporary(heap, h) THEN {}
    ELSE {[EmptyMat EXCEPT !.data = heap[h].data, !.temp = TRUE] :
            taken \in {heap[h].data} \ {None}}

\* The selected header is built over the raw address and counts nothing:
\* storage_guard = value is what keeps the source's allocation.
mat_select_nd_view(heap, h) ==
    IF h = Null \/ Temporary(heap, h) THEN {}
    ELSE {[live |-> TRUE, data |-> heap[h].data, counted |-> FALSE,
           guard |-> IF heap[h].counted THEN heap[h].data ELSE None,
           temp |-> TRUE] : taken \in {heap[h].data} \ {None}}

(***************************************************************************)
(* Calls that change the heap.                                             *)
(***************************************************************************)
mat_destroy(heap, h) ==
    IF h = Null THEN heap ELSE [heap EXCEPT ![h] = Freed]

New(heap, w, wrapper) == [heap EXCEPT ![w] = wrapper]

\* Mat::create on an output header keeps a compatible allocation, or lets go
\* of it and takes a new one; an empty result, and an allocation that fails
\* after the release, leave the header empty.
Released(heap, h) ==
    [heap EXCEPT ![h].data = None, ![h].counted = FALSE]

OutputArrays(heap, h) ==
    {heap, Released(heap, h)} \cup
    {[heap EXCEPT ![h].data = s, ![h].counted = TRUE] :
        s \in Allocatable(Released(heap, h))}

\* copyTo has no check of its own: only null handles are refused.  A header
\* copied to itself has the size and the type asked for and stays as it is; an
\* empty source releases the destination, unless a masked copy raises first.
mat_copy_to(heap, source, destination) ==
    IF source = Null \/ destination = Null THEN {}
    ELSE IF source = destination THEN {heap}
    ELSE IF heap[source].data = None THEN {heap, Released(heap, destination)}
    ELSE OutputArrays(heap, destination)

\* Every other *_into call refuses a temporary header before native code runs.
mat_into(heap, source, destination) ==
    IF \/ source = Null \/ destination = Null
       \/ Temporary(heap, destination)
    THEN {}
    ELSE OutputArrays(heap, destination)

\* Mutant: a temporary header is resolved as an output.
mat_resolve_any_output(heap, h) == h # Null

mat_resolve_output(heap, h) == h # Null /\ ~ Temporary(heap, h)
=============================================================================
