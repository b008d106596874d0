------------------------------ MODULE MatHandles ------------------------------
(***************************************************************************)
(* The controlled type OpenCV.Core.Mat over the shim's wrappers.           *)
(*                                                                         *)
(* Every Mat object of Ada owns at most one wrapper.  The language moves   *)
(* wrappers behind the programmer's back: a function result is built in a  *)
(* local object, copied to the anonymous result object with Adjust, copied *)
(* again to the target of the assignment, and each of those objects is     *)
(* finalized, also when one of the allocations on the way fails.  Scoped   *)
(* views and borrows are callbacks: the objects they declare live while    *)
(* the callback runs, and callbacks nest.                                  *)
(*                                                                         *)
(* One task runs all of it, as the binding requires for one Mat.           *)
(***************************************************************************)
EXTENDS NativeMats

CONSTANTS
    Vars,       \* the Mat variables of the client
    Local,      \* Result, the object a function of the binding builds
    Returned,   \* the anonymous object that holds a function's result
    Nobody,     \* no object
    MaxDepth    \* bound: how deep the client nests callbacks

Frames == 1 .. MaxDepth
Objects == Vars \cup {Local, Returned} \cup Frames

ASSUME ObjectsAssumption ==
    /\ MaxDepth \in Nat
    /\ Local # Returned
    /\ {Local, Returned} \cap (Vars \cup Frames) = {}
    /\ Vars \cap Frames = {}
    /\ Nobody \notin Objects

VARIABLES
    handle,     \* Mat.Handle of every object; a frame's object is its view
                \* or its lease
    flag,       \* Mat.Temporary_View
    depth,      \* callbacks that are running
    frame,      \* what each running callback was given
    doing       \* the call the binding is in the middle of

vars == <<native, handle, flag, depth, frame, doing>>

Functions == {"create", "clone", "view"}
Callbacks == {"select", "writable", "read only", "borrow"}
Borrowing == {"input", "output"}

\* buffer: the pixel memory the callback was promised; subject and wrapper:
\* the object, and its cv::Mat, whose native header the callback was given.
Frame == [kind : Callbacks \cup Borrowing, subject : Objects \cup {Nobody},
          wrapper : Wrappers \cup {Null}, buffer : Buffers \cup {None}]

NoFrame == [kind |-> "none", subject |-> Nobody, wrapper |-> Null,
            buffer |-> None]

Idle == [step |-> "idle", call |-> "none", source |-> Nobody,
         target |-> Nobody, buffer |-> None]

\* The object the binding builds a wrapper for: the local Result of a
\* function, the View, Image or Lease of a callback about to start.
Building == IF doing.call \in Functions THEN Local ELSE depth + 1

External(d) == frame[d].kind \in {"writable", "read only"}

\* Objects the client can name: its variables and the views it was handed.
\* A lease is private to the binding; a read-only view is a formal of mode in.
Readable == Vars \cup {d \in 1 .. depth : External(d) \/ frame[d].kind = "select"}
Writable == Readable \ {d \in 1 .. depth : frame[d].kind = "read only"}

\* Client contract of Module_Interop: the header a module was given is not
\* replaced by assigning or finalizing its Mat before the callback returns.
LentToModule(o) == \E d \in 1 .. depth : frame[d].subject = o

TypeOK ==
    /\ NativeType
    /\ handle \in [Objects -> Wrappers \cup {Null}]
    /\ flag \in [Objects -> BOOLEAN]
    /\ depth \in 0 .. MaxDepth
    /\ frame \in [Frames -> Frame \cup {NoFrame}]
    /\ \A d \in 1 .. depth : frame[d] # NoFrame
    /\ \/ doing = Idle
       \/ /\ doing \in [step : {"native", "return", "assign"},
                        call : Functions \cup Callbacks,
                        source : Objects \cup {Nobody},
                        target : Objects \cup {Nobody},
                        buffer : Buffers \cup {None}]
          /\ doing.call \in Functions => doing.target \in Objects
          /\ doing.step # "native" => doing.call \in Functions
          /\ doing.call \in Callbacks => depth < MaxDepth

Init ==
    /\ native = [w \in Wrappers |-> Freed]
    /\ handle = [o \in Objects |-> Null]
    /\ flag = [o \in Objects |-> FALSE]
    /\ depth = 0
    /\ frame = [d \in Frames |-> NoFrame]
    /\ doing = Idle

(***************************************************************************)
(* Initialize, Adjust and Finalize.                                        *)
(***************************************************************************)
\* Initialize: the object gets the wrapper of a default matrix.
Initialize(o, w) ==
    /\ w \in Unused(native)
    /\ \E wrapper \in mat_create : native' = New(native, w, wrapper)
    /\ handle' = [handle EXCEPT ![o] = w]
    /\ flag' = [flag EXCEPT ![o] = FALSE]

\* Finalize clears the handle and then frees the wrapper.
Finalize(o) ==
    /\ native' = mat_destroy(native, handle[o])
    /\ handle' = [handle EXCEPT ![o] = Null]
    /\ UNCHANGED flag

Dying(o) == IF o = Nobody THEN Null ELSE handle[o]

\* The copy of a controlled object: the target, finalized before, receives
\* the components of the source bit by bit, then Adjust drops the copied
\* handle and asks for a wrapper of its own.  The bits include the flag.
\* "dying" is an object whose finalization follows at once.
Adjusted(target, source, dying) ==
    LET finalized == mat_destroy(native, handle[target])
    IN  \E w \in Unused(finalized) :
           /\ \E wrapper \in mat_copy(finalized, handle[source]) :
                 native' = mat_destroy(New(finalized, w, wrapper), Dying(dying))
           /\ handle' = [o \in Objects |-> IF o = target THEN w
                                           ELSE IF o = dying THEN Null
                                           ELSE handle[o]]
           /\ flag' = [flag EXCEPT ![target] = flag[source]]

\* Mutant: Adjust asks for the copy before it drops the copied handle.
AdjustFailedKeepingHandle(target, source, dying) ==
    /\ native' = mat_destroy(mat_destroy(native, handle[target]), Dying(dying))
    /\ handle' = [o \in Objects |-> IF o = target THEN handle[source]
                                    ELSE IF o = dying THEN Null
                                    ELSE handle[o]]
    /\ flag' = [flag EXCEPT ![target] = flag[source]]

\* Adjust raises: a temporary source, a null source, or no memory.
AdjustFailed(target, source, dying) ==
    /\ native' = mat_destroy(mat_destroy(native, handle[target]), Dying(dying))
    /\ handle' = [o \in Objects |-> IF o \in {target, dying} THEN Null
                                    ELSE handle[o]]
    /\ flag' = [flag EXCEPT ![target] = flag[source]]

\* Mutant: the default wrapper is not destroyed before it is replaced.
InstallOver(o, w, wrapper, temporary) ==
    /\ w \in Unused(native)
    /\ native' = New(native, w, wrapper)
    /\ handle' = [handle EXCEPT ![o] = w]
    /\ flag' = [flag EXCEPT ![o] = temporary]

\* Mat_Destroy (Result.Handle); Result.Handle := New_Handle.
Install(o, w, wrapper, temporary) ==
    /\ w \in Unused(native)
    /\ native' = mat_destroy(New(native, w, wrapper), handle[o])
    /\ handle' = [handle EXCEPT ![o] = w]
    /\ flag' = [flag EXCEPT ![o] = temporary]

(***************************************************************************)
(* Variables of the client: declarations, scopes, assignment.              *)
(***************************************************************************)
Declare(v) ==
    /\ doing = Idle /\ depth = 0 /\ handle[v] = Null
    /\ \E w \in Wrappers : Initialize(v, w)
    /\ UNCHANGED <<depth, frame, doing>>

LeaveScope(v) ==
    /\ doing = Idle /\ depth = 0
    /\ Finalize(v)
    /\ UNCHANGED <<depth, frame, doing>>

\* target := source; an object assigned to itself is left alone.
Assign(target, source) ==
    /\ doing = Idle /\ target # source /\ ~ LentToModule(target)
    /\ \/ Adjusted(target, source, Nobody)
       \/ AdjustFailed(target, source, Nobody)
    /\ UNCHANGED <<depth, frame, doing>>

(***************************************************************************)
(* target := F (source): the functions that return a Mat.                  *)
(***************************************************************************)
Call(call, source, target) ==
    /\ doing = Idle /\ ~ LentToModule(target)
    /\ \E w \in Wrappers : Initialize(Local, w)
    /\ doing' = [step |-> "native", call |-> call, source |-> source,
                 target |-> target, buffer |-> None]
    /\ UNCHANGED <<depth, frame>>

Create(target) == Call("create", Nobody, target)
Clone(source, target) == Call("clone", source, target)
View(source, target) == Call("view", source, target)

\* What the shim may answer to the call in progress.
Results ==
    CASE doing.call = "create"    -> mat_create_nd(native)
      [] doing.call = "clone"     -> mat_clone(native, handle[doing.source])
      [] doing.call = "view"      -> mat_view(native, handle[doing.source])
      [] doing.call = "select"    -> mat_select_nd_view(native, handle[doing.source])
      [] doing.call = "borrow"    -> mat_acquire_borrow_lease(native, handle[doing.source])
      [] doing.call \in {"writable", "read only"}
                                  -> mat_create_external(doing.buffer)

\* The shim or a check of the binding refuses: the exception finalizes the
\* object under construction and reaches the client.
Fail ==
    /\ doing.step = "native"
    /\ Finalize(Building)
    /\ doing' = Idle
    /\ UNCHANGED <<depth, frame>>

Build ==
    /\ doing.step = "native" /\ doing.call \in Functions
    /\ \E w \in Wrappers, wrapper \in Results :
           Install(Local, w, wrapper, flag[Local])
    /\ doing' = [doing EXCEPT !.step = "return"]
    /\ UNCHANGED <<depth, frame>>

\* return Result: the result object is a copy, and the local is finalized.
Return ==
    /\ doing.step = "return"
    /\ \/ /\ Adjusted(Returned, Local, Local)
          /\ doing' = [doing EXCEPT !.step = "assign"]
       \/ /\ AdjustFailed(Returned, Local, Local)
          /\ doing' = Idle
    /\ UNCHANGED <<depth, frame>>

\* The assignment statement: the target is a copy, and the result object is
\* finalized.
AssignResult ==
    /\ doing.step = "assign"
    /\ \/ Adjusted(doing.target, Returned, Returned)
       \/ AdjustFailed(doing.target, Returned, Returned)
    /\ doing' = Idle
    /\ UNCHANGED <<depth, frame>>

(***************************************************************************)
(* Scoped views and borrows.                                               *)
(***************************************************************************)
Prepare(call, source, buffer) ==
    /\ doing = Idle /\ depth < MaxDepth
    /\ \E w \in Wrappers : Initialize(depth + 1, w)
    /\ doing' = [step |-> "native", call |-> call, source |-> source,
                 target |-> Nobody, buffer |-> buffer]
    /\ UNCHANGED <<depth, frame>>

\* Self.Is_Empty is asked first: it raises on a null handle.
With_Selected_View(source) ==
    /\ handle[source] # Null /\ native[handle[source]].data # None
    /\ Prepare("select", source, None)

With_Writable_Mat_View(buffer) == Prepare("writable", Nobody, buffer)
With_Read_Only_Mat_View(buffer) == Prepare("read only", Nobody, buffer)

\* Rows and buffers, read-only and writable, borrow in the same way.
With_Row(source) == Prepare("borrow", source, None)

\* Mutant: View.Temporary_View := True is forgotten for a selected view.
EnterUnmarked ==
    /\ doing.step = "native" /\ doing.call \in Callbacks
    /\ \E w \in Wrappers, wrapper \in Results :
          /\ Install(depth + 1, w, wrapper, doing.call \in {"writable", "read only"})
          /\ frame' = [frame EXCEPT ![depth + 1] =
                         [kind |-> doing.call, subject |-> Nobody,
                          wrapper |-> Null, buffer |-> wrapper.data]]
    /\ depth' = depth + 1
    /\ doing' = Idle

\* The header is installed and marked, and Process is called.  A lease copies
\* the native flag of its source but its own Temporary_View stays False; the
\* address lent to the client is read from the lease.
Enter ==
    /\ doing.step = "native" /\ doing.call \in Callbacks
    /\ \E w \in Wrappers, wrapper \in Results :
          /\ Install(depth + 1, w, wrapper, doing.call # "borrow")
          /\ frame' = [frame EXCEPT ![depth + 1] =
                         [kind |-> doing.call, subject |-> Nobody,
                          wrapper |-> Null, buffer |-> wrapper.data]]
    /\ depth' = depth + 1
    /\ doing' = Idle

Lend(kind, o) ==
    /\ depth < MaxDepth
    /\ depth' = depth + 1
    /\ frame' = [frame EXCEPT ![depth + 1] =
                   [kind |-> kind, subject |-> o, wrapper |-> handle[o],
                    buffer |-> None]]
    /\ UNCHANGED <<native, handle, flag, doing>>

With_Input_Handle(o) ==
    doing = Idle /\ Lend("input", o)

With_Output_Handle(o) ==
    doing = Idle /\ mat_resolve_output(native, handle[o]) /\ Lend("output", o)

\* Process returns or raises: its callback's object is finalized either way.
Leave ==
    /\ doing = Idle /\ depth > 0
    /\ Finalize(depth)
    /\ depth' = depth - 1
    /\ frame' = [frame EXCEPT ![depth] = NoFrame]
    /\ UNCHANGED doing

(***************************************************************************)
(* Operations with a Destination : in out Mat.                             *)
(***************************************************************************)
Copy_To(source, destination) ==
    /\ doing = Idle
    /\ native' \in mat_copy_to(native, handle[source], handle[destination])
    /\ UNCHANGED <<handle, flag, depth, frame, doing>>

\* Convert_To, Sqrt, Add, Bitwise_And, Compare and the other destination
\* forms: Temporary_View is asked in Ada, and the header's flag again below.
Operate_Into(source, destination) ==
    /\ doing = Idle
    /\ ~ flag[destination]
    /\ native' \in mat_into(native, handle[source], handle[destination])
    /\ UNCHANGED <<handle, flag, depth, frame, doing>>

\* A module writes to the header it was lent.
ModuleOutput(d) ==
    /\ doing = Idle /\ frame[d].kind = "output"
    /\ native' \in OutputArrays(native, frame[d].wrapper)
    /\ UNCHANGED <<handle, flag, depth, frame, doing>>

\* Every operation; Copy_To, the one that does not look at temporary views,
\* only into other Mats.
GuardedNext ==
    \/ \E v \in Vars : Declare(v) \/ LeaveScope(v)
    \/ \E target \in Writable : Create(target)
    \/ \E source \in Readable, target \in Writable :
          \/ Assign(target, source)
          \/ Clone(source, target)
          \/ View(source, target)
          \/ Operate_Into(source, target)
          \/ ~ flag[target] /\ Copy_To(source, target)
    \/ Fail \/ Build \/ Return \/ AssignResult
    \/ \E source \in Writable : With_Selected_View(source)
    \/ \E buffer \in Externals :
          With_Writable_Mat_View(buffer) \/ With_Read_Only_Mat_View(buffer)
    \/ \E source \in Readable : With_Row(source) \/ With_Input_Handle(source)
    \/ \E o \in Writable : With_Output_Handle(o)
    \/ \E d \in 1 .. depth : ModuleOutput(d)
    \/ Enter \/ Leave

Next ==
    \/ GuardedNext
    \/ \E source \in Readable, target \in Writable : Copy_To(source, target)

Spec == Init /\ [][Next]_vars

\* Clients that copy into no temporary view.
GuardedSpec == Init /\ [][GuardedNext]_vars

(***************************************************************************)
(* Correctness.                                                            *)
(***************************************************************************)
\* No wrapper has two Ada owners and no object holds a freed one: delete runs
\* at most once per wrapper, whichever copy or callback fails.
OneOwner ==
    \A o \in Objects : handle[o] # Null =>
        /\ native[handle[o]].live
        /\ \A p \in Objects : handle[p] = handle[o] => p = o

\* Every live wrapper belongs to an object that will finalize it, and between
\* two operations only the client's objects do: no path of a function that
\* raises leaves a wrapper behind.
NoLeak ==
    /\ \A w \in Wrappers : native[w].live => \E o \in Objects : handle[o] = w
    /\ doing = Idle => \A o \in Objects \ (Vars \cup 1 .. depth) : handle[o] = Null

\* A header that addresses pixels of OpenCV addresses pixels that somebody
\* still holds: a selected view outlives the Mat it was selected from.
NoDanglingHeader ==
    \A w \in Wrappers : native[w].live /\ native[w].data \in Storages =>
        Held(native, native[w].data)

\* The array a row or buffer callback was handed stays allocated until the
\* callback ends, whatever it does to the Mat it was borrowed from; when the
\* array is a caller's, the view's own callback is still running around it.
BorrowedPixelsStay ==
    \A d \in 1 .. depth : frame[d].kind = "borrow" =>
        /\ frame[d].buffer \in Storages => Held(native, frame[d].buffer)
        /\ frame[d].buffer \in Externals =>
              \E e \in 1 .. d - 1 : External(e) /\ frame[e].buffer = frame[d].buffer

\* No header addresses a caller's array after the callback that was given it:
\* neither an assignment, a view, a function result nor a lease escapes.
NoEscape ==
    \A w \in Wrappers : native[w].live /\ native[w].data \in Externals =>
        \E d \in 1 .. depth : External(d) /\ frame[d].buffer = native[w].data

\* A client's Mat that has a header knows whether it is temporary: the check
\* in Ada and the check of the shim decide alike.  (An assignment that raised
\* leaves the flag of its source with a null handle.)
FlagsAgree ==
    \A o \in Vars \cup Readable :
        handle[o] # Null => flag[o] = native[handle[o]].temp

\* The native header a module was lent is the one its Mat still owns, and it
\* is not temporary when the module may rebind it.
LentHeadersStay ==
    \A d \in 1 .. depth : frame[d].kind \in Borrowing =>
        /\ frame[d].wrapper = handle[frame[d].subject]
        /\ frame[d].kind = "output" =>
              /\ frame[d].wrapper # Null
              /\ native[frame[d].wrapper].live /\ ~ native[frame[d].wrapper].temp

RebindsTemporary ==
    \E w \in Wrappers :
        /\ native[w].live /\ native[w].temp /\ native'[w].live /\ native'[w].temp
        /\ native'[w].data # native[w].data

\* README.md:296: temporary views "cannot be general output destinations": a
\* callback's view keeps addressing the memory it was made for.
TemporaryViewsAreNotRebound == [][~ RebindsTemporary]_vars

(***************************************************************************)
(* The inductive invariant behind these properties.                        *)
(***************************************************************************)
\* Only a temporary header may address memory it does not count, and then
\* either the guard counts it or it is the caller's.
HeadersCounted ==
    \A w \in Wrappers : native[w].live =>
        /\ ~ native[w].temp =>
              /\ native[w].guard = None
              /\ native[w].data # None =>
                    native[w].data \in Storages /\ native[w].counted
        /\ native[w].data \in Storages =>
              native[w].counted \/ native[w].guard = native[w].data

\* Result objects and objects of callbacks that are not running have a wrapper
\* only while the call that builds them is in progress.
ScratchObjects ==
    \A o \in Objects \ (Vars \cup 1 .. depth) : handle[o] # Null =>
        \/ doing.step \in {"native", "return"} /\ o = Building
        \/ doing.step = "assign" /\ o = Returned

\* A caller's array is addressed from its own callback inwards, by the objects
\* of callbacks only: those are gone before the array is.
ExternalsInside ==
    \A o \in Objects :
        handle[o] # Null /\ native[handle[o]].data \in Externals =>
            /\ o \in 1 .. depth
            /\ \E e \in 1 .. o : External(e) /\ frame[e].buffer = native[handle[o]].data

\* A lease addresses what the client was handed, from start to end.
LeasesStay ==
    \A d \in 1 .. depth : frame[d].kind = "borrow" =>
        /\ handle[d] # Null
        /\ native[handle[d]].data = frame[d].buffer

\* Every object but a lease agrees with its header about being temporary.
AllFlagsAgree ==
    \A o \in Objects \ {d \in 1 .. depth : frame[d].kind = "borrow"} :
        handle[o] # Null => flag[o] = native[handle[o]].temp

\* Native headers are lent from objects the client can name.
SubjectsOuter ==
    \A d \in 1 .. depth :
        IF frame[d].kind \in Borrowing
        THEN frame[d].subject \in Vars \cup {e \in 1 .. d - 1 :
                                     External(e) \/ frame[e].kind = "select"}
        ELSE frame[d].subject = Nobody

\* A call's operands stay in reach while it runs, and the object it builds is
\* not marked temporary before it shows anything.
OperandsInReach ==
    /\ doing.step = "native" => flag[Building] = FALSE
    /\ doing.call \in Functions =>
          doing.target \in Writable /\ ~ LentToModule(doing.target)
    /\ doing.call \in {"clone", "view", "select", "borrow"} => doing.source \in Readable
    /\ doing.call \in {"writable", "read only"} => doing.buffer \in Externals

IInv ==
    /\ TypeOK
    /\ HeadersCounted
    /\ OneOwner
    /\ \A w \in Wrappers : native[w].live => \E o \in Objects : handle[o] = w
    /\ ScratchObjects
    /\ ExternalsInside
    /\ LeasesStay
    /\ AllFlagsAgree
    /\ LentHeadersStay
    /\ SubjectsOuter
    /\ OperandsInReach
=============================================================================
