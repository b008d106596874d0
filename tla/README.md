# TLA+ development of the OpenCV Core binding for Ada

This directory holds a formal model of `opencv_core_ada`, a thick Ada 2022 binding
to the Core module of OpenCV, the TLC configurations that check the model on small
instances, and proofs of its most important properties that the TLA+ proof system
checks for every instance.

## 1. The system

Three layers, each of which keeps state the others cannot see:

| Layer | Files | State |
|---|---|---|
| Thick API | `src/src/opencv-core*.ad[bs]` | controlled types (`Mat`, `UMat`, `Sparse_Mat`, `File_Storage`, RNG state), each holding a handle and a few flags |
| Thin interop | `src/src/internal/opencv-internal-c_api.ad[bs]` | none: imports and the copy of the last diagnostic |
| C++ shim | `src/cpp/opencv_core_shim.cpp`, `.h`, `opencv_core_module_bridge.hpp` | heap wrappers around `cv::` objects, a diagnostic buffer per thread |
| OpenCV | external | reference-counted pixel storage, the parser and emitter of `cv::FileStorage` |

### Inventory

| Component | State it keeps | Operations | What makes it correct |
|---|---|---|---|
| Mat handles (`opencv-core.adb`, shim 25-80, 3088-3953, 8509) | `Handle`, `Temporary_View`; wrapper: `value`, `storage_guard`, `temporary_external_view` | Initialize, Adjust, Finalize, constructors, `Clone`, `Copy_To`, destination operations | one owner per wrapper, no leak on any failing path, no header over freed pixels |
| Shared views (`Region`, `Row`, `Column`, `Slice`, `Diagonal`, `Reshape`, `Adjust_Region`) | geometry of a header | creation, relocation | stay inside the parent; counted; refused for temporary views |
| Scoped views and borrows (`With_Selected_View`, `typed_external_mat_view`, `typed_row_borrowing`, `typed_continuous_borrowing`) | header over memory it does not count; lease | callbacks that nest | what was lent lives as long as the callback; nothing escapes from it |
| Module interop (`module_interop`, bridge header) | borrowed native header | `With_Input_Handle`, `With_Output_Handle` | the header lent is the one the Mat owns |
| Results and diagnostics of shim calls | locals `New_Handle`, the result's default components, `last_error_message` per thread | every function returning matrices | outputs published all or none, no wrapper lost, exceptions carry their own diagnostic |
| Persistence (`opencv-core-persistence`) | `Opened`, `Mode`, `Backend`; shim stacks; OpenCV stack | open, write, begin/end structure, enter/leave, read, `Close_And_Get_Text` | three notions of "where we are" agree; what is read is what was written there |
| Sparse matrices and iteration | handle; table with a reference count; iterators with a guard | assign, set, erase, clear, convert, nested `For_Each_Stored` | each table counts its objects and iterators; a traversal visits each stored element once, with its present value, and ends |
| UMat and transfers | handle | create, region, transfers | as for Mat, without external views |
| N-dimensional, external and selected views (shim 7970-8300) | geometry of a header | `Create`, views of a client's buffer, `Slice`, `With_Selected_View`, `Reshape` | every element stays inside its storage; the shim accepts what Ada accepts |
| Element access, rows, buffers | none | typed `Get`, `Set`, row copies and borrows for each depth and channel count | the scalars passed are those of the element asked for, in order |
| Destinations of element-wise operations | header of the caller's object | procedures of arithmetic, comparison, mathematics, conversion | nothing read after it was overwritten, no kernel that writes another depth |
| Value operations (arithmetic, comparison, reduction, linear algebra, statistics, clustering) | none | about 300 | argument contracts, result shapes |
| Random numbers, Float16, border interpolation, safe arithmetic | RNG state | pure functions | widths and rounding |

Components talk through calls only; there is no thread of their own. What makes them
hard is (a) Ada's implicit calls (Initialize, Adjust, Finalize) around every value,
each of which can fail, (b) callbacks that nest and may do anything to the object
they were started from, (c) state kept twice (a flag in Ada and in C++, a structure
stack in the shim and in OpenCV), (d) the diagnostic buffer that every later call
clears, (e) integer arithmetic at widths chosen by three languages.

## 2. Modules

| Module | Models | Kind |
|---|---|---|
| `NativeMats` | the shim's `opencv_core_mat_handle`: what each call may return, reference counts of pixel storage | operators on the heap |
| `MatHandles` | the controlled type `Mat`, functions that return one, nested callbacks, destination operations | state machine over `NativeMats` |
| `MatHandlesProofs` | theorems about `MatHandles` | proofs |
| `NativeCalls` | calls with several outputs: results, cleanup, diagnostics, tasks | state machine |
| `NativeCallsProofs` | theorems about `NativeCalls` | proofs |
| `DocumentTree` | what `File_Storage` promises: a cursor over a tree | abstract specification |
| `FileStorage` | Ada object, shim handle and `cv::FileStorage` | state machine that implements `DocumentTree` |
| `FileStorageProofs` | theorems about `FileStorage`, its refinement among them | proofs |
| `Window` | what regions promise: a window over an image | abstract specification |
| `Regions` | the header of a 2-D view, Ada's and the shim's checks, OpenCV's arithmetic on it | state machine that implements `Window` |
| `RegionsProofs` | theorems about `Regions` | proofs |
| `Destinations` | caller-owned destinations of element-wise operations: storage kept or replaced, depth, overlap with sources | state machine |
| `DestinationsProofs` | theorems about `Destinations` | proofs |
| `NDViews` | headers of any number of dimensions: construction, views, reshape, with the checks of both layers | state of `ElementAccess` |
| `NDViewsProofs` | lemmas on sums, products and layouts, and what each operation of `NDViews` preserves | proofs |
| `ScalarArray` | what a matrix promises: an array of scalars in row-major order | abstract specification |
| `ElementAccess` | typed access by coordinates, index, row and borrow, over `NDViews` | state machine that implements `ScalarArray` |
| `ElementAccessProofs` | theorems about `ElementAccess` | proofs |
| `StoredElements` | what sparse matrices promise: collections of stored elements and traversals | abstract specification |
| `SparseMats` | objects, shared hash tables, iterators, callbacks | state machine that implements `StoredElements` |
| `SparseMatsProofs` | theorems about `SparseMats`, its refinement among them | proofs |
| `MC*` | instances for TLC | |

### NativeMats and MatHandles

`native` maps an address to the wrapper there: `live` (allocated), `data` (the
allocation its header points into), `counted` (the header holds a reference to it),
`guard` (`storage_guard`) and `temp` (`temporary_external_view`). Geometry and pixels
are abstracted: a region of a matrix has the `data` of the matrix. An allocation is
free when no header counts it and no guard holds it, and OpenCV may hand a free
allocation out again, so a header left over a free allocation is a dangling one.
`Copy_To` is one call with three cases, which OpenCV tells apart: a header copied to
itself stays as it is, an empty source releases the destination, and any other source
keeps or replaces the destination's allocation as every output does.

Ada objects are the client's variables, the local `Result` of a function, the
anonymous object a function returns into, and one object per running callback (its
view, image or lease). Assignment is the language's: finalize the target, copy the
bits, `Adjust`; the failing outcome of `Adjust` is an action's disjunct. A function
call is four steps: initialize the local, ask the shim, build the result, copy it out
and copy it to the target. A callback is two steps, `Prepare` and `Enter`, and
`Leave`. Clients respect the contract of `Module_Interop` (a Mat whose header was lent
is not assigned before the callback returns); nothing else is assumed of them.

### NativeCalls

A task's call goes through `declare` (one default wrapper per component of the result),
`operate` (the shim's function, all outputs or an error), `destroy` and `raise` when the
status is an error, `install` and `return` when it is not. The twelve operations are
records of three facts read from the code: how many outputs, whether the result is
declared before or after the native call, and what stands between the status and
`Raise_On_Error`. The message buffer is per thread, cleared at the start of each shim
call.

### FileStorage and DocumentTree

`self` is the Ada object, `shim` the C++ handle with its two stacks, `native`
`cv::FileStorage` with the nodes emitted so far and its own stack, `medium` what
outlives the object. Rejected calls change nothing. `DocumentTree` says what all of it
is for: a tree that grows below a cursor, is published whole and read back by path. Its
`published` is a partial function, from the backends that have a document to its tree. The
refinement mapping gives each emitted node the path of keys that leads to it (`PathTo`, a
recursive function over the list, as every node comes after its parent) and makes a
function of paths of the list (`TreeOf`).

### Regions and Window

`header` is the geometry of the client's matrix: where its first element is in the
allocation, rows, columns, the distance of rows (`step`) and channels, all counted in
channel values. An operation is the client's `M := M.Operation (...)`; `Assign` takes
the whole matrix again. OpenCV's own assertions on ranges repeat what the Ada layer
checks and are left out, so that the properties are about the binding's validation.
`defined` records whether every native expression stayed in `int`, `size_t` and the
allocation; the preflights of the shim are translated line by line, and so is the
arithmetic of `locateROI` and `adjustROI`, which has to recover the parent from two
distances. `RegionSpec` has the operations that keep the distance of rows, `ViewSpec`
those that may change it but no adjustment, `Spec` all of them. Reshape is to two
dimensions here; more dimensions, `Slice` and views of other memory are in `NDViews`.

### NDViews, ElementAccess and ScalarArray

`header` has the extents and, in bytes, the steps of a matrix of any number of
dimensions, with its depth and channels; `storage` is the interval of bytes that
really exists, `formed` the last address the construction computed, `refused` a request
that Ada let through and the shim did not. Each construction is one action with the
checks of both layers, which walk the dimensions separately and in different orders: the
Ada side multiplies in `Natural`, the shim in `size_t`, and OpenCV derives a header from
what remains. `ElementAccess` adds the calls that copy or lend elements. There is a
function of the shim for each depth, channel count and kind of access; `map` names the
groups that share code, and each is the set of triples (depth compared, channels
compared, size of the native type) found in its instances. `passed` holds the addresses
of the scalars a call copies or exposes, in the client's order, so that the one property
`ImplementsArray` says for all of them that they are the scalars of the element asked
for. `ScalarArray` has no addresses: its views cut boxes out of an array.

### SparseMats and StoredElements

`handle` is the table of each Ada object, `refcount` and `table` the hash tables as
OpenCV counts and fills them, `frames` the traversals in progress: each has the table its
native iterator owns, the position the iterator stands at, and the element the callback
is being shown. Every operation is one step, with the outcome of a failing `Adjust`
among its results. While a callback runs the client may do everything, on any object,
with one exception that `docs/sparse-and-persistence-guide.md` makes: it adds no node
to and removes none from a table that is being traversed, by whichever name (`Traversed`).
Replacing, clearing into another table, assigning and finalizing the object that is
traversed are allowed and happen. `StoredElements` knows neither counts nor positions: a
traversal has a set of elements left, and a variable names a collection or none.

### Destinations

`header` gives each of the client's objects its window of a buffer: first byte, rows,
columns, bytes between rows, the end of the storage (OpenCV's `dataend`, which a region
keeps) and depth. Every operation is an action with the form it is called in: `reuse`
for the procedure, which passes the object's header to OpenCV, the function otherwise.
`create` is OpenCV's rule for an output: a header of the right shape and type stays,
any other gets fresh storage. `faults` remembers what the kernels did: wrote values of
another depth than the output has, read an element after it was overwritten, read a
source acquired after the output was created in it, or shared storage they had just
created.

What the guides exclude is a guard (`Supported`, `Unshared`): `core-operations-guide.md`
allows a destination that is a source, or has the layout of one, and excludes other
overlaps, except for scalars, where the binding looks itself
(`scalar_storage_relation`). There the client of the model may pass anything. The old
depth of a destination decides the kernel as it does from OpenCV 4.10 on; before, there
is nothing to establish. `Unary_Math` stands for the functions of one operand that share
its shape in the shim, `Float_Math` for those of two. A UMat source may be acquired late in comparisons and ranges
only, which is where the shim's comments say OpenCL does it.

## 3. Checks

| Run | Module, configuration | Properties | Shows |
|---|---|---|---|
| `mats` | `MCMatHandles`, `MCMatHandles.cfg` | `TypeOK`, `OneOwner`, `NoLeak`, `NoDanglingHeader`, `FlagsAgree`, `BorrowedPixelsStay`, `NoEscape`, `LentHeadersStay` | Two Mat variables and callbacks nested twice: every assignment, function result, view and failed allocation keeps wrappers owned once and headers over held pixels, what an outer callback was lent survives whatever the inner one does to its source |
| `mats_copy_to` | `MCMatHandles`, `MCMatHandlesCopyTo.cfg` | `TemporaryViewsAreNotRebound` | (violated) Copy_To accepts a temporary view as its destination, and a copy from another Mat may rebind that view's header |
| `calls_results` | `MCNativeCalls`, `MCNativeCallsResults.cfg` | `TypeOK`, `ResultsAreWhole`, `DiagnosticIsOwn`, `WrappersAreLostOnlyLate` | Two tasks call an operation of each kind and every step may fail: results are whole and exclusive, wrappers are lost only by a late declaration, and an exception carries its own diagnostic or none |
| `calls_diagnostic_destroyed` | `MCNativeCalls`, `MCNativeCallsDestroyed.cfg` | `DiagnosticIsPreserved` | (violated) Mat_Destroy of the unused outputs clears the diagnostic before Raise_On_Error reads it |
| `calls_late_result` | `MCNativeCalls`, `MCNativeCallsLate.cfg` | `NoWrapperLost` | (violated) An operation that declares its result after the native call loses the output when the default wrapper of the result cannot be allocated |
| `regions_window` | `MCRegions`, `MCRegionsWindow.cfg` | `TypeOK`, `NativeCallsDefined`, `LocatesItsParent`, `AdjustsAsPromised`, `KeepsWindow` | Windows cut from a matrix and moved by distances up to the largest an int32_t holds, in any order: they implement a window over the parent and OpenCV computes nothing undefined |
| `regions_views` | `MCRegions`, `MCRegionsViews.cfg` | `ElementsInside`, `LocateNeverSurprises`, `ReshapeAcceptsExactly`, `ReshapeGivesTheShape` | Views whose rows have another distance than the parent's, by diagonals and reshapes of views of views, stay inside the allocation as long as they are not adjusted |
| `regions_reshaped` | `MCRegions`, `MCRegionsReshaped.cfg` | `ElementsInside` | (violated) Adjust_Region widens a diagonal view beyond the distance of its rows, and the header claims to be continuous over more elements than the allocation has |
| `destinations` | `MCDestinations`, `MCDestinations.cfg` | `TypeOK`, `KernelsFitTheirOutput`, `NothingReadAfterItIsWritten`, `SourcesAreThosePassed`, `ResultsAreIndependent` | Sequences of operations whose destinations are sources, regions of sources or matrices of another depth: every kernel writes the depth its output has, nothing is read after it was overwritten, and results share with nothing |
| `persistence` | `MCFileStorage`, `MCFileStorage.cfg` | `TypeOK`, `StacksAgree`, `DocumentsWellFormed`, `ReadContextIsAPath`, `KeepsPromise` | A text written to memory, released once by Close_And_Get_Text and read back, in every nesting of four nodes over two names; and documents on disk with the other leaf types, completed by the finalization of their writer wherever the client stopped, then replaced and read |
| `elements` | `MCElementAccess`, `MCElementAccess.cfg` | `TypeOK`, `ElementsInside`, `ShimAgrees`, `ImplementsArray` | Every accessor of every element type on matrices created, made over a buffer, sliced, selected and reshaped in any order: they implement a row-major array of scalars, stay inside the storage and pass the shim's checks whenever they pass Ada's |
| `sparse` | `MCSparseMats`, `MCSparseMats.cfg` | `TypeOK`, `HoldersCounted`, `ReadsAgree`, `KeepsElements`, `Terminates` | Two Sparse_Mat objects and traversals nested twice whose callbacks do every operation, also on what they traverse: each stored element is visited once with its value, no table is freed early or kept, and every traversal ends |

### Bounds

*Mats.* One run has two variables, four wrappers, two allocations and one external
array, with callbacks nested twice. Four wrappers are a variable's, a local's, a
returned object's and a callback's at one time; two allocations tell "the same pixels"
from "others", one external array tells Ada's memory from OpenCV's. Two nested callbacks
are what every known hazard needs: a borrow from a view, a module call on a view. That
run's specification, `GuardedSpec`, leaves out `Copy_To` into a temporary view, which the
second run has, with one variable and one level; the reason is the finding below. The
proofs remove these bounds.

*Calls.* Two tasks are enough for one to disturb another; six wrappers let each hold a
result of two components and one build another, or one build three outputs over three
defaults. The runs try one operation of each kind: operations with the same record take
the same steps. The proofs remove these bounds.

*Persistence.* One run with two names, one payload the formats hold and one they cannot.
A document in memory has up to four nodes, which is a structure in a structure in a
structure with a leaf or a sibling, with integer leaves; one on disk has up to two, with
the other leaf types, and may be written again over the one that is there. The proofs
remove these bounds, for the refinement too.

*Regions.* A 3x4 matrix with two channels for windows (so that a column is not a
position), edges moved by one and by the ends of the integer range (`MaxInt` is 5, so
that offsets and extents reach it); with one channel and a `MaxInt` below the number of
scalars for reshapes, so that products overflow. The theorems remove these bounds, for
windows, diagonals and reshapes.

*Destinations.* Three objects are two sources and a destination, or a source and two
outputs; shapes up to 2x3 with at most four elements give partial overlaps in a row (two
columns out of three) and rows of a region that are apart. Three depths have one, two
and four bytes and reach both kernels that the old depth selects. With two buffers an
output that detaches takes the second; polar transforms need a third unless two objects
are regions of one matrix, so theirs are those and empty ones. The proofs remove these
bounds, the number of buffers and the set of depths included.

*Elements.* The buffer starts at address 16, which every scalar is aligned at; addresses
end at 400 and `Natural` at 20, so that spans, products and offsets reach both limits. A
header has room for four dimensions and a request may have five, as OpenCV 5's has room
for ten where the interface allows 32. Every depth is made with one to four channels in
two small shapes, which reaches every instance of the access functions; a few shapes
with gaps, an extent of zero and too many dimensions follow the views and reshapes. The
proofs remove these bounds except for the refinement of `ScalarArray`.

*Sparse.* Two objects and two tables are sharing, copying and replacing; two positions
make the first node, the next, the last and a missing one different. Values are 0, which
a dense matrix does not store, and 1, which is also where the search for a minimum begins. Two nested
traversals are of one table or of two. One layout is right and one is not. The proofs
remove all of them except for the end of traversals.

### Deadlock and fairness

The runs on `MatHandles` switch deadlock checking off: when all wrappers and callback
levels of the bound are in use the client may be left with nothing to do but what the
bound forbids. The other runs check it.

The binding has no queue, lock or retry: a call returns when the shim does, and nothing
lets one call wait for another. Where the code loops, over the stored elements of a
sparse matrix, `SparseMats` states fairness and `Terminates` is checked. Weak fairness of
the loop at each level is what running a program means: when the loop may take its next
step, nothing prevents it. That a callback returns is the client's part, so it is an
assumption (`SF_vars` of `ProcessReturns` at each level): a callback which may return
again and again does so in the end, however many traversals it started before. It has to
be strong, because starting a nested traversal disables the return of the outer callback
until the nested one has ended. Under it a traversal ends since each step of the loop
visits a node behind the last one, and no node may be added meanwhile.

### Findings

* **TemporaryViewsAreNotRebound** (src/src/opencv-core.adb:3976, run `mats_copy_to`). Copy_To calls the shim without looking at Destination.Temporary_View and opencv_core_mat_copy_to (src/cpp/opencv_core_shim.cpp:4868) does not look at temporary_external_view, so a copy from another Mat rebinds the header of a temporary view: an empty source releases it, as in the trace of the run, and one of another size or type has it released and reallocated. Every other destination operation refuses such a header (a copy of the view to itself is harmless); src/README.md:296 says 'Temporary external/selected Mat views cannot escape through assignment or general no-copy views and cannot be general output destinations.'
* **DiagnosticIsPreserved** (src/src/opencv-core.adb:7855, run `calls_diagnostic_destroyed`). When a shim call fails, Eigen_Decomposition, Invert, Singular_Value_Decomposition and some thirty other functions call Mat_Destroy on their null outputs before Raise_On_Error; opencv_core_mat_destroy starts with clear_error (src/cpp/opencv_core_shim.cpp:8511), so the OpenCV_Error says only '... failed'. src/.clinerules/03-cpp-interop.md:318 says 'Valid operations rejected by OpenCV should preserve the resulting OpenCV diagnostic and be translated through the normal exception/error mechanism.' and :183 'callers that need to retain the message must copy it immediately', as Solve_Linear_Program (src/src/opencv-core.adb:6834) does.
* **NoWrapperLost** (src/src/opencv-core.adb:6558, run `calls_late_result`). Invert, Solve, Solve_Cubic, Solve_Polynomial and Solve_Linear_Program declare the Ada result that will own New_Handle after the shim has returned it; if Initialize of its Mat component raises (no memory for the default wrapper) the exception leaves New_Handle without an owner and it is never destroyed. src/.clinerules/03-cpp-interop.md:97 says 'Every opaque C++ object handle must have explicit ownership semantics' and :103 'Ada finalization calls the matching shim destroy function'; src/.clinerules/04-testing.md:110 asks for 'failure paths after native resources have been allocated'. The other functions declare their result first.
* **ElementsInside** (src/cpp/opencv_core_shim.cpp:449, run `regions_reshaped`). Adjust_Region of a diagonal view (or of a reshaped region) infers a parent whose width exceeds the distance of its rows; roi_mat_pointer_preflight looks at the first element only, so a 3x4 matrix's diagonal at offset -1, adjusted, becomes a 2x6 header with rows five apart that is flagged continuous and reaches past the allocation; src/src/opencv-core.ads:3769 says 'boundaries clip to the parent', and src/docs/ownership-and-views.md:441 says 'Unsafe native parent-span arithmetic or empty-result Mat pointers are likewise rejected rather than invoking undefined native behavior.'

## 4. Proofs

Eight modules hold theorems and lemmas: one for each of the seven state machines, and
`NDViewsProofs`, whose lemmas `ElementAccessProofs` makes theorems of. They assume
nothing but the named assumptions on the constants of those machines (sentinels differ
from what they stand for, bounds are naturals, a range of `int` holds a matrix, a buffer
lies in memory and OpenCV aligns what it allocates), which TLC evaluates in the runs.

| Theorem | Establishes | What it says |
|---|---|---|
| `MatHandlesProofs!InvariantHolds` |  | The inductive invariant holds in every reachable state, for any number of variables, wrappers, allocations and nested callbacks |
| `MatHandlesProofs!TypeCorrect` | `TypeOK` | The state has its type: guards count allocations of OpenCV only and a call in progress always has a free callback level |
| `MatHandlesProofs!Ownership` | `OneOwner` | No wrapper is ever owned by two Mat objects and no object holds a freed one |
| `MatHandlesProofs!Leakless` | `NoLeak` | Every live wrapper belongs to an object that will finalize it, and between calls only to the client's objects |
| `MatHandlesProofs!HeadersDoNotDangle` | `NoDanglingHeader` | Every header over OpenCV memory addresses an allocation somebody holds |
| `MatHandlesProofs!ExternalsDoNotEscape` | `NoEscape` | No header addresses a caller's array outside that array's callback |
| `MatHandlesProofs!BorrowedPixelsLast` | `BorrowedPixelsStay` | The pixels a row or buffer callback was lent stay allocated until it returns |
| `MatHandlesProofs!FlagsCorrect` | `FlagsAgree` | Ada's Temporary_View and the shim's flag agree on every Mat that has a header |
| `MatHandlesProofs!LentHeadersLast` | `LentHeadersStay` | The header lent to a cooperating module stays the one its Mat owns, and is not temporary when it may be rebound |
| `NativeCallsProofs!InvariantHolds` |  | The inductive invariant holds for any number of tasks, wrappers and channels: who holds which wrapper, and what the stage of a call says of its outputs and of its thread's message |
| `NativeCallsProofs!Typed` | `TypeOK` | Calls keep their type: every output is allocated or not yet made, and at most one call of a task runs |
| `NativeCallsProofs!ResultsStayWhole` | `ResultsAreWhole` | A result a client holds is allocated, complete and nobody else's, however calls interleave and fail |
| `NativeCallsProofs!DiagnosticsStayOwn` | `DiagnosticIsOwn` | No exception carries the text of another task's failure or of an earlier call |
| `NativeCallsProofs!OnlyLateDeclarationsLose` | `WrappersAreLostOnlyLate` | A step loses a wrapper only where a result is declared after the native call |
| `RegionsProofs!Typed` | `TypeOK` | Headers of windows keep extents that fit an int, for matrices of every size |
| `RegionsProofs!ElementsStayInside` | `ElementsInside` | Every element of a window is inside the allocation, and every position the continuity flag promises is too |
| `RegionsProofs!NativeCallsStayDefined` | `NativeCallsDefined` | The shim's preflights are sufficient on windows: what they let through overflows no int, wraps no difference and forms no pointer outside the allocation |
| `RegionsProofs!LocatesParent` | `LocatesItsParent` | Locate_Region is accepted on every nonempty window and finds the matrix it was cut from and its place, by the division of a byte distance alone |
| `RegionsProofs!AdjustsByTheEdges` | `AdjustsAsPromised` | The preflights are also necessary: an adjustment with elements is accepted exactly when its edges fit an int, and moves each edge by its own distance |
| `RegionsProofs!ImplementsWindow` | `KeepsWindow` | Regions, row and column views and adjustments implement the abstract window, step by step |
| `RegionsProofs!ViewElementsStayInside` | `ElementsInside` | Every element is inside the allocation after any sequence of regions, row, column and diagonal views and reshapes, which change the distance of rows |
| `RegionsProofs!LocateStaysDefined` | `LocateNeverSurprises` | The preflight of Locate_Region suffices whatever views came before: no int overflows and no pointer outside the allocation is formed by what it lets through |
| `RegionsProofs!Gauss` |  | A number that divides a product and has no factor in common with one side divides the other, which is why cancelling greatest common divisors loses nothing |
| `RegionsProofs!CancellingIsExact` | `ReshapeAcceptsExactly` | The reshape's test by cancelled factors, which multiplies nothing, is the comparison of the products, whether or not those fit a Natural |
| `RegionsProofs!ReshapesGiveTheShape` | `ReshapeGivesTheShape` | A reshape that is accepted gives the rows, columns and channels asked for |
| `DestinationsProofs!InvariantHolds` |  | The inductive invariant holds for any number of objects and buffers, any shapes, any set of depths and either version of OpenCV: headers stay inside of their storage and no native call goes wrong |
| `DestinationsProofs!Typed` | `TypeOK` | Headers address elements inside of their storage, regions of regions and kept outputs included |
| `DestinationsProofs!KernelsFit` | `KernelsFitTheirOutput` | Every kernel writes values of the depth its output has, whatever the destination held before |
| `DestinationsProofs!NothingReadLate` | `NothingReadAfterItIsWritten` | No source element is read after a byte of it was written for another: scalar destinations that pass the storage relation are apart from the source or the same elements, at any steps and element sizes |
| `DestinationsProofs!SourcesStay` | `SourcesAreThosePassed` | A UMat source acquired after the output was created in its object is still the matrix that was passed |
| `DestinationsProofs!ResultsStayIndependent` | `ResultsAreIndependent` | What an operation returns, or delivers to a destination that detached, shares storage with no other object |
| `FileStorageProofs!InvariantHolds` |  | The inductive invariant holds for any names, payloads, leaf types and bounds: the roles of the three layers, well-formed documents in all places, the writer's stacks in step, the reader's stack a path |
| `FileStorageProofs!Typed` | `TypeOK` | The three layers and the documents outside keep their types in every order of calls |
| `FileStorageProofs!StacksStayInStep` | `StacksAgree` | While a writer is open the shim's stack of kinds describes OpenCV's stack of nodes, level by level and to any depth |
| `FileStorageProofs!DocumentsStayWellFormed` | `DocumentsWellFormed` | An entry is named exactly when its parent is a mapping, follows its parent, and holds nothing the formats cannot represent, in the open document and in those on the media |
| `FileStorageProofs!ReadContextStaysAPath` | `ReadContextIsAPath` | What a reader has entered is a path of structures from the root |
| `FileStorageProofs!PathsLeadThere` |  | In every document a path of keys leads to one node, the structures a writer has open are a path, and the keys a reader navigated by lead to the node the shim takes it to be at |
| `FileStorageProofs!PromiseKept` | `KeepsPromise` | FileStorage implements DocumentTree, for any names, payloads, leaf types and bounds: what is read at a path is what was written there, and a document is published whole, once, and only at the root or by the end of a disk writer |
| `NDViewsProofs!PackedIsLeast` |  | Among the layouts of one shape whose dimensions nest, the packed one ends first: why a buffer that is long enough for strides is long enough for a reshape |
| `NDViewsProofs!SelectionInside` |  | A range of each dimension ends inside what it was selected from, for any steps |
| `NDViewsProofs!ValidatedReshape` |  | What Validate_ND_Reshape lets through after cancelling common factors has exactly as many scalars as the matrix |
| `NDViewsProofs!ViewNextHolds` |  | Whatever is constructed, sliced, selected, reshaped or finalized, a sound header becomes a sound header or none, and the shim refuses only what Agreed names |
| `ElementAccessProofs!InvariantHolds` |  | The inductive invariant holds for any buffer, shapes, strides, depths and number of dimensions: the header nests, is aligned and ends inside the storage, and so does every address that was computed |
| `ElementAccessProofs!StateIsTyped` | `TypeOK` | A header has as many steps as extents, no extent of zero and no more dimensions than OpenCV has room for |
| `ElementAccessProofs!NoElementOutside` | `ElementsInside` | Every byte of every element of every view is in the storage that exists and before the end OpenCV keeps, and no constructor computes an address outside |
| `ElementAccessProofs!LayersAgree` | `ShimAgrees` | What the checks of the Ada layer let through, the shim lets through, in spite of their different orders and widths of arithmetic, but for shapes OpenCV has no room for and views of the view of a callback |
| `SparseMatsProofs!InvariantHolds` |  | The inductive invariant holds for any number of objects, tables, positions and nested traversals: types, counted holders, tables that live exactly while they are referred to, and iterators that stand at a node or at the end |
| `SparseMatsProofs!Typed` | `TypeOK` | Handles, counts, tables and traversals keep their types, and what a callback is shown is an element of the matrix |
| `SparseMatsProofs!HoldersStayCounted` | `HoldersCounted` | A table counts the objects and iterators that refer to it, so none is freed under one of them and none is left behind |
| `SparseMatsProofs!ImplementsStoredElements` | `KeepsElements` | Every step of the handles, counts, tables and iterators is a step of StoredElements or changes nothing there: a traversal visits each element of its collection once, with its present value |
| `SparseMatsProofs!ReadsGiveWhatIsStored` | `ReadsAgree` | Reads give what the shared table has stored and zero elsewhere, a dense copy agrees with them, and Min_Max_Loc publishes a side exactly when a stored value is beyond where OpenCV begins, with a place and value of it |

*`MatHandlesProofs`* is for any number of variables, wrappers, allocations and nested
callbacks, from `NativeAssumption` and `ObjectsAssumption`. None of the safety
properties is inductive alone: that a lease keeps
its pixels depends on guards counting what temporary headers point to, that nothing
escapes depends on Ada's flag and the shim's flag agreeing at the moment of an
assignment, and both depend on a wrapper having one owner, so that changing it through
one object cannot change it under another. `IInv` is the conjunction of eleven named
parts that say so, among them `HeadersCounted` (only a temporary header may address
memory it does not count), `ExternalsInside` (a caller's array is addressed only from
its own callback inwards), `LeasesStay`, `AllFlagsAgree` and `OperandsInReach`.

The proof has two layers. Part 1 is about heaps: `Sane` heaps stay sane when a wrapper
is added, dropped, replaced or bound to another allocation, and objects not concerned
are `Kept`. Part 2 lifts that to the language operations (`FinalizeTouches`,
`InstallTouches`, `AdjustedTouches`, ...): each touches the objects it names and leaves
plain wrappers in them. Then there is one lemma per action, and `NextStep` puts them
together.

*`RegionsProofs`* proves what windows of a matrix promise for every size of the matrix,
every range of `int` that holds it and every set of distances, from `GeometryAssumption`.
The invariant, `IInv`, says that a nonempty header is `Placed` at some row and column of
the parent; the header itself only has their combination, `row * step + col * channels`.
`DivisionFindsRow` recovers both (quotient and remainder are unique), `OffsetIsPlace` and
`WholeIsParent` lift that to `locateROI`, and what the preflights ask, what OpenCV
computes and what the abstract window does follow from where the header is.

For the operations that change the distance of rows there is no such place. There the
invariant, `VInv`, is that the header's last scalar is inside the allocation and its
first not before it (`Inside`); a rectangle and a diagonal end where what they were
taken of ends or before (`Narrowed`, `DiagonalEnds`), and a reshape keeps its first and
last scalar because it is of a continuous matrix or keeps the rows. That a reshape is
accepted exactly when the products agree is a fact about numbers: the binding cancels
greatest common divisors instead of multiplying. `Gauss` is proved from the least number
whose multiple is divided, `GreatestIs` that the divisor the model chooses is divided by
all others, `CancelsThree` that three cancellations leave ones only if the products are
the same; `ValidatedFills` and `FilledValidates` are the two directions.

*`NativeCallsProofs`* is for any number of tasks, wrappers and channels and any set of
the twelve operations. That results are whole and diagnostics are one's own follows from
three facts about all tasks: `Ownership` (what a task's locals and results hold is
allocated, and no two tasks hold one wrapper), `StageHolds` (which of the two sets of
handles a call has at each stage, and that they are apart while both exist) and
`StageSays` (where the diagnostic of a failed call is). A step is of one task: it frees
only what that task holds and takes only what nobody holds, so `OwnershipStep` and
`StagesOfOthers` deal with the other tasks once, and one lemma per stage with its own.
The action property `WrappersAreLostOnlyLate` follows from the same invariant: a call
whose result is declared first loses no wrapper, whatever fails.

*`FileStorageProofs`* is for any names, payloads, leaf types and bounds. Whether an entry
may be named is asked of the shim's stack of kinds; where it goes is decided by OpenCV's
stack of nodes. A document is therefore well formed only because the two agree at every
level, and they agree only because the document is: `IInv` is `TypeOK` with `Roles` (the
flags of Ada, shim and OpenCV agree), `Documents` (the open one and those on the media
are well formed), `StackInDocument`, `StacksAgree` and `ReadContextIsAPath`.
`ContextOfTop` turns the stacks' agreement at the top into the fact about the parent that
`Emitted` needs to add a node; `ParsedDocument` says that what a reader gets back is well
formed when what was written was.

That `FileStorage` implements `DocumentTree` needs a second invariant, `Located`. In every
document the entries of a mapping have different names (`NamesApart`), the structures a
writer has open are a path from the root (`WritesOnAPath`), and the keys a reading client
navigated by are the path of the node the shim takes it to be at (`ReaderIsThere`). The
first makes a tree of the list: siblings have different keys (`SiblingsDiffer`), so no two
nodes have one path (`PathsDiffer`), a tree has at each path the content of the one node
there (`TreesAre`), and as many children as that node (`ChildrenAre`). A document that
grows, or that the parser reads back without recognising an empty mapping, `Continues` the
one before: nodes keep their keys and paths (`KeysContinue`, `PathsContinue`), so emitting
a node adds one path under the cursor (`TreeGrows`), and what is parsed is among what
`DocumentTree` allows (`ParsedTree`). `LookedUp` is the step that matters to a reader: the
node a lookup finds below the shim's context has, in the tree, the client's path and the
key it asked for. These inductions follow the list: a set of positions that holds a
position whenever it holds all earlier ones is all of them (`Everywhere`), from the
library's theorem that `<` is well-founded.

*`SparseMatsProofs`* is for any number of objects, tables and positions and any depth of
nesting. The dozen operations have five shapes: an object is given another table or none,
the nodes of one table change, a traversal begins, goes on, or ends; invariant and
refinement are proved for the shapes. `IInv` adds to types and `HoldersCounted` that a
table is there exactly while it is counted (`Living`) and that an iterator stands at a
node or at the end (`InPlace`), which holds after an erase only because nodes do not
vanish during a traversal. `LeastElement` shows that the position `Seek` chooses is the
first of what remains, from the library's theorem that inclusion is well-founded on
finite sets. For the reads, `FoundWithOneMore` shows that the walk over the nodes keeps the first of
the values furthest beyond its seed, for either order of the numbers, and
`SameOnSubsets` that the fold over the nodes is that walk. For the refinement, `RemainingAlike` says that what survives a step by its
count is what survives it by being named or traversed, and `VisitImplements` that the
nodes behind the iterator are those left to visit without the one just shown.

*`NDViewsProofs`* and *`ElementAccessProofs`* are for any number of dimensions, extents,
strides, depths and channels and any buffer, from `NDViewsAssumption`. The invariant,
`IInv`, has two parts. `Held`: the header is `Sound`, that is, its dimensions nest (a step
covers everything behind it), its steps are multiples of the scalar's size and its data is
aligned, and its last byte is before the limit OpenCV keeps and inside the storage; and no
constructor has computed an address outside. `Agreed`: the shim has refused nothing that
Ada let through but what `ShimAgrees` names. `ElementsInside` alone is not inductive:
a selection of a matrix whose elements are inside is inside only because the end of a
layout is a sum over its dimensions, and an access in the shim is accepted only because
the data is aligned.

Sums and products of extents are folds over their positions. `SumIsFold` and
`ProductIsFold` show that a fold is what taking the positions one by one gives, by an
induction whose range is the set of positions for which it holds (`Upward`, `Downward`,
`SameOnSets`). From there: `PackedIsLeast` (of the layouts of a shape whose dimensions
nest the packed one ends first, so that a buffer long enough for the strides is long
enough for a reshape), `EndInside`, `SelectionInside` and `SelectedEnd` (a selection ends
inside what it was selected from, with dropped dimensions or without), `PackedFits` and
`RowsFit` (so does a reshape), and `ValidatedReshape` (what is left after cancelling
common factors was equal before). One lemma per operation takes the bounds from its two
layers of checks and cites these; `ViewNextHolds` puts them together. In
`ElementAccessProofs`, `SameElements` and `RowsFitIn` show that the shim's own conditions
for an access hold in every state that Ada's conditions let through.

*`DestinationsProofs`* is for any number of objects and buffers, any shapes and steps,
any set of depths and both versions of OpenCV, from `DestinationsAssumption`. `IInv`
says that every header is `Sound` (its elements lie inside of its storage and its rows do
not meet) and that no fault has happened. `Places` bounds the bytes of an element by
those of its row and its header; from it `SameIsInPlace` shows that two headers with the
same elements touch at equal elements only, and `OutsideIsApart` that headers whose
storage ranges do not meet touch nowhere, which is what the two accepted answers of
`scalar_storage_relation` mean. `RegionIsSound` is the step that keeps headers sound.
`CreatedIs` and `TakenCovers` say what an output may be: the header passed, or one in a
buffer nothing else uses. `DeliverKeeps` puts them together for one output,
`NoPolarFaults` for two; a lemma per operation shows that its checks give what these need.

Each invariant `IInv` was checked with TLC before it was proved (that of `NativeCalls`
with `TypeOK` for its types).

Only model-checked: `Terminates` of `SparseMats`, which is liveness and beyond the prover;
and the refinement `ImplementsArray` of `ScalarArray` (it is about the order of all the
scalars of a view, by division with the products of the extents behind each coordinate). A fold
or a recursive function is within reach: the induction is then over the set of arguments
for which a fact holds, since the library's induction theorems take an operator as a
parameter.

## 5. What is not modelled

* **Mat handles and scoped views** (partly): Controlled operations of Mat, functions returning a Mat, shared views, selected and external views, row and buffer borrows, module handles, destination operations; geometry and pixels are abstracted, Diagonal and Reshape headers behave as the other shared views.
* **Results and diagnostics of shim calls** (partly): The error channel of the shim, default-initialized results, publication of outputs and error handling of twelve operations that stand for the shapes found among the functions returning matrices; what they compute is not modelled.
* **Destinations of element-wise operations** (partly): What a procedure finds in its caller-owned destination and what it shares storage with: arithmetic, bitwise, scalar, mathematics, conversion, normalization, comparison, ranges and polar transforms. Reductions, collections and layout operations are later steps, and so are masks of scalar operations and matrices of more dimensions.
* **UMat and transfers** (not modelled): The handle protocol is that of Mat without temporary views; step 5 of the plan.
* **Value operations** (not modelled): Reduction, linear algebra, statistics and clustering compute in OpenCV; their argument contracts are step 4 of the plan, the protocol of twelve of them is in NativeCalls, and the destinations of the element-wise ones are in Destinations.
* **Random numbers** (not modelled): A 64-bit state stepped by OpenCV's generator; step 5 of the plan.
* **Float16 and fixed-size values** (not modelled): Bit-level conversion; step 5 of the plan.
* **Safe arithmetic** (not modelled): Product bounds used by the value operations; with the geometry modules.
* **Thin interop layer** (not modelled): Import declarations; each imported function is modelled with its caller.
* **Typed instances** (not modelled): Some two hundred instantiations of the internal generics, one per element type, without logic of their own.
* **Build, tests and documentation** (not modelled): Project files, scripts, test programs and generated reference data.

## 6. Plan

1. *Done.* Handles and scoped views; results and diagnostics; persistence, its refinement
   included; each with proofs.
2. *Done.* Geometry: regions with their relocation, proved; `Slice`, selected and
   external views, reshape in any number of dimensions, and typed access over them,
   proved to stay inside of their storage and to be accepted by the shim. Next, the proof
   that they implement `ScalarArray`.
3. *Done.* Sparse matrices, with liveness and a proved refinement.
4. Value operations: *done*, with proofs, for the destinations of element-wise ones; next reductions,
   collections and layout operations, which arguments Ada accepts, which the shim
   accepts, what shape comes out.
5. UMat handles and transfers. Random numbers: the generator's state is copied into the
   shim and back around each call, which is sequential and shares nothing, so there is
   little to check beyond OpenCV's own arithmetic. Float16; border interpolation.
