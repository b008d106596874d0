--------------------------- MODULE MatHandlesProofs ---------------------------
(***************************************************************************)
(* Proofs about MatHandles, for every number of objects, wrappers,         *)
(* allocations and nested callbacks.                                       *)
(***************************************************************************)
EXTENDS MatHandles, TLAPS

(***************************************************************************)
(* Part 1: heaps and handles, apart from the machine's variables.          *)
(***************************************************************************)
Handles == [Objects -> Wrappers \cup {Null}]

Sound(wrapper) ==
    /\ ~ wrapper.temp =>
          /\ wrapper.guard = None
          /\ wrapper.data # None => wrapper.data \in Storages /\ wrapper.counted
    /\ wrapper.data \in Storages => wrapper.counted \/ wrapper.guard = wrapper.data

\* A heap and the handles into it: sound headers, one owner for each of them.
Sane(heap, h) ==
    /\ heap \in [Wrappers -> Wrapper]
    /\ h \in Handles
    /\ \A w \in Wrappers : heap[w].live => Sound(heap[w])
    /\ \A o \in Objects : h[o] # Null =>
          heap[h[o]].live /\ \A p \in Objects : h[p] = h[o] => p = o
    /\ \A w \in Wrappers : heap[w].live => \E o \in Objects : h[o] = w

\* Object p owns the same wrapper, with the same header, before and after.
Kept(heap, h, heap2, h2, p) ==
    /\ h2[p] = h[p]
    /\ h[p] # Null => heap2[h[p]] = heap[h[p]]

\* Destroying the wrapper of an object and clearing its handle, as Finalize
\* does, leaves every other object its wrapper.
LEMMA DropSane ==
    ASSUME NEW heap, NEW h, Sane(heap, h), NEW o \in Objects
    PROVE  /\ Sane(mat_destroy(heap, h[o]), [h EXCEPT ![o] = Null])
           /\ \A p \in Objects \ {o} :
                 Kept(heap, h, mat_destroy(heap, h[o]), [h EXCEPT ![o] = Null], p)
<1> DEFINE heap2 == mat_destroy(heap, h[o])
           h2 == [h EXCEPT ![o] = Null]
<1>1. Freed \in Wrapper /\ ~ Freed.live
  BY DEF Freed, Wrapper
<1>2. heap2 \in [Wrappers -> Wrapper] /\ h2 \in Handles
  BY <1>1 DEF Sane, mat_destroy, Handles
<1>3. \A w \in Wrappers : heap2[w] = IF w = h[o] THEN Freed ELSE heap[w]
  BY NativeAssumption DEF Sane, mat_destroy, Handles
<1>4. \A p \in Objects : h2[p] = IF p = o THEN Null ELSE h[p]
  BY DEF Sane, Handles
<1>5. \A p \in Objects \ {o} : Kept(heap, h, heap2, h2, p)
  BY <1>3, <1>4 DEF Sane, Handles, Kept
<1>6. Sane(heap2, h2)
  BY <1>1, <1>2, <1>3, <1>4, NativeAssumption DEF Sane, Handles
<1> QED BY <1>5, <1>6

\* Giving an object a new wrapper and destroying the one it had.
LEMMA PutSane ==
    ASSUME NEW heap, NEW h, Sane(heap, h), NEW o \in Objects,
           NEW w \in Unused(heap), NEW x \in Wrapper, x.live, Sound(x)
    PROVE  /\ Sane(mat_destroy(New(heap, w, x), h[o]), [h EXCEPT ![o] = w])
           /\ mat_destroy(New(heap, w, x), h[o])[w] = x
           /\ \A p \in Objects \ {o} :
                 Kept(heap, h, mat_destroy(New(heap, w, x), h[o]), [h EXCEPT ![o] = w], p)
<1> DEFINE heap2 == mat_destroy(New(heap, w, x), h[o])
           h2 == [h EXCEPT ![o] = w]
<1>1. Freed \in Wrapper /\ ~ Freed.live
  BY DEF Freed, Wrapper
<1>2. w \in Wrappers /\ ~ heap[w].live /\ w # Null /\ w # h[o]
  BY NativeAssumption DEF Unused, Sane, Handles
<1>3. heap2 \in [Wrappers -> Wrapper] /\ h2 \in Handles
  BY <1>1, <1>2 DEF Sane, mat_destroy, New, Handles
<1>4. \A v \in Wrappers : heap2[v] = IF v = h[o] THEN Freed
                                     ELSE IF v = w THEN x ELSE heap[v]
  BY <1>2, NativeAssumption DEF Sane, mat_destroy, New, Handles
<1>5. \A p \in Objects : h2[p] = IF p = o THEN w ELSE h[p]
  BY DEF Sane, Handles
<1>6. \A p \in Objects : h[p] # w
  BY <1>2 DEF Sane
<1>7. \A p \in Objects \ {o} : Kept(heap, h, heap2, h2, p)
  BY <1>2, <1>4, <1>5, <1>6 DEF Sane, Handles, Kept
<1>8. Sane(heap2, h2)
  <2>1. \A v \in Wrappers : heap2[v].live => Sound(heap2[v])
    BY <1>1, <1>4 DEF Sane
  <2>2. \A p \in Objects : h2[p] # Null =>
           heap2[h2[p]].live /\ \A q \in Objects : h2[q] = h2[p] => q = p
    BY <1>2, <1>4, <1>5, <1>6 DEF Sane, Handles
  <2>3. \A v \in Wrappers : heap2[v].live => \E p \in Objects : h2[p] = v
    <3> SUFFICES ASSUME NEW v \in Wrappers, heap2[v].live
                 PROVE  \E p \in Objects : h2[p] = v
      OBVIOUS
    <3>1. CASE v = w
      BY <3>1, <1>5
    <3>2. CASE v # w
      <4>1. v # h[o] /\ heap[v].live
        BY <3>2, <1>1, <1>4
      <4>2. PICK p \in Objects : h[p] = v
        BY <4>1 DEF Sane
      <4> QED BY <4>1, <4>2, <1>5
    <3> QED BY <3>1, <3>2
  <2> QED BY <1>3, <2>1, <2>2, <2>3 DEF Sane
<1>9. heap2[w] = x
  BY <1>2, <1>4
<1> QED BY <1>7, <1>8, <1>9

\* An output operation changes the data of one header and nothing else about
\* it: it stays live, as temporary as it was, and never points at a caller.
LEMMA OutputSane ==
    ASSUME NEW heap, NEW h, Sane(heap, h), NEW o \in Objects, h[o] # Null,
           NEW heap2 \in OutputArrays(heap, h[o])
    PROVE  /\ Sane(heap2, h)
           /\ \A p \in Objects \ {o} : Kept(heap, h, heap2, h, p)
           /\ heap2[h[o]].live
           /\ heap2[h[o]].temp = heap[h[o]].temp
           /\ heap2[h[o]].data \in Storages \cup {None} \cup {heap[h[o]].data}
<1>1. h[o] \in Wrappers /\ heap[h[o]] \in Wrapper /\ heap[h[o]].live
  BY DEF Sane, Handles
<1>2. PICK x \in Wrapper :
         /\ heap2 = [heap EXCEPT ![h[o]] = x]
         /\ x.live /\ Sound(x) /\ x.temp = heap[h[o]].temp
         /\ x.data \in Storages \cup {None} \cup {heap[h[o]].data}
  <2>1. CASE heap2 = heap
    <3>1. heap2 = [heap EXCEPT ![h[o]] = heap[h[o]]]
      BY <2>1, <1>1 DEF Sane
    <3> QED BY <3>1, <1>1 DEF Sane
  <2>2. CASE heap2 = Released(heap, h[o])
    <3> DEFINE x == [heap[h[o]] EXCEPT !.data = None, !.counted = FALSE]
    <3>1. x \in Wrapper /\ x.live /\ x.temp = heap[h[o]].temp /\ x.data = None
          /\ x.guard = heap[h[o]].guard
      BY <1>1 DEF Wrapper
    <3>2. Sound(x)
      BY <3>1, <1>1, NativeAssumption DEF Sane, Sound
    <3>3. heap2 = [heap EXCEPT ![h[o]] = x]
      BY <2>2, <1>1 DEF Released, Sane, Wrapper
    <3> QED BY <3>1, <3>2, <3>3
  <2>3. CASE \E s \in Allocatable(Released(heap, h[o])) :
               heap2 = [heap EXCEPT ![h[o]].data = s, ![h[o]].counted = TRUE]
    <3>1. PICK s \in Storages :
             heap2 = [heap EXCEPT ![h[o]].data = s, ![h[o]].counted = TRUE]
      BY <2>3 DEF Allocatable
    <3> DEFINE x == [heap[h[o]] EXCEPT !.data = s, !.counted = TRUE]
    <3>2. x \in Wrapper /\ x.live /\ x.temp = heap[h[o]].temp /\ x.data = s
          /\ x.counted /\ x.guard = heap[h[o]].guard
      BY <1>1 DEF Wrapper, Buffers
    <3>3. Sound(x)
      BY <3>2, <1>1 DEF Sane, Sound
    <3>4. heap2 = [heap EXCEPT ![h[o]] = x]
      BY <3>1, <1>1 DEF Sane, Wrapper
    <3> QED BY <3>2, <3>3, <3>4
  <2> QED BY <2>1, <2>2, <2>3 DEF OutputArrays
<1>3. \A v \in Wrappers : heap2[v] = IF v = h[o] THEN x ELSE heap[v]
  BY <1>1, <1>2 DEF Sane
<1>4. heap2 \in [Wrappers -> Wrapper]
  BY <1>1, <1>2 DEF Sane
<1>5. Sane(heap2, h)
  BY <1>1, <1>2, <1>3, <1>4 DEF Sane, Handles
<1>6. \A p \in Objects \ {o} : Kept(heap, h, heap2, h, p)
  BY <1>1, <1>3 DEF Sane, Handles, Kept
<1> QED BY <1>1, <1>2, <1>3, <1>5, <1>6

(***************************************************************************)
(* Part 2: the wrappers the shim's constructors hand back.                 *)
(***************************************************************************)
\* A header any object may own: not temporary, and of OpenCV's pixels if any.
Plain(x) ==
    x \in Wrapper /\ x.live /\ ~ x.temp /\ Sound(x) /\ x.data \notin Externals

\* The shallow copy of a sound header that is not temporary is plain, and
\* shares the data.
LEMMA ShallowPlain ==
    ASSUME NEW x \in Wrapper, Sound(x), ~ x.temp
    PROVE  Plain(Shallow(x)) /\ Shallow(x).data = x.data
<1>1. /\ Shallow(x) \in Wrapper
      /\ Shallow(x).live
      /\ Shallow(x).data = x.data
      /\ Shallow(x).counted = x.counted
      /\ Shallow(x).guard = None
      /\ Shallow(x).temp = FALSE
  BY DEF Shallow, EmptyMat, Freed, Wrapper
<1> QED BY <1>1, NativeAssumption DEF Plain, Sound

\* The header of a default matrix is plain.
LEMMA EmptyPlain == Plain(EmptyMat)
<1>1. /\ EmptyMat \in Wrapper
      /\ EmptyMat.live /\ ~ EmptyMat.temp
      /\ EmptyMat.data = None /\ EmptyMat.guard = None
  BY DEF EmptyMat, Freed, Wrapper
<1> QED BY <1>1, NativeAssumption DEF Plain, Sound

\* A header over an allocation of its own is plain.
LEMMA OwningPlain == \A s \in Storages : Plain(Owning(s))
<1> SUFFICES ASSUME NEW s \in Storages PROVE Plain(Owning(s))
  OBVIOUS
<1>1. /\ Owning(s) \in Wrapper
      /\ Owning(s).live /\ ~ Owning(s).temp
      /\ Owning(s).data = s /\ Owning(s).counted /\ Owning(s).guard = None
  BY DEF Owning, EmptyMat, Freed, Wrapper, Buffers
<1> QED BY <1>1, NativeAssumption DEF Plain, Sound

\* mat_copy succeeds for a header that is not temporary, and answers a plain one.
LEMMA CopyPlain ==
    ASSUME NEW heap, NEW h, Sane(heap, h), NEW o \in Objects,
           NEW x \in mat_copy(heap, h[o])
    PROVE  Plain(x) /\ h[o] # Null /\ ~ heap[h[o]].temp
<1>1. h[o] # Null /\ ~ heap[h[o]].temp /\ x = Shallow(heap[h[o]])
  BY DEF mat_copy, Temporary
<1>2. heap[h[o]] \in Wrapper /\ Sound(heap[h[o]])
  BY <1>1 DEF Sane, Handles
<1> QED BY <1>1, <1>2, ShallowPlain

\* What mat_create_nd answers is plain.
LEMMA CreatePlain ==
    ASSUME NEW heap, NEW x \in mat_create_nd(heap)
    PROVE  Plain(x)
  BY EmptyPlain, OwningPlain DEF mat_create_nd, Allocatable

\* What mat_clone answers is plain.
LEMMA ClonePlain ==
    ASSUME NEW heap, NEW h, NEW x \in mat_clone(heap, h)
    PROVE  Plain(x)
  BY EmptyPlain, OwningPlain DEF mat_clone, Allocatable

\* What the shared views answer is plain: a temporary source is refused.
LEMMA ViewPlain ==
    ASSUME NEW heap, NEW h, Sane(heap, h), NEW o \in Objects,
           NEW x \in mat_view(heap, h[o])
    PROVE  Plain(x)
<1>1. h[o] # Null /\ ~ heap[h[o]].temp /\ x \in {Shallow(heap[h[o]]), EmptyMat}
  BY DEF mat_view, Temporary
<1>2. heap[h[o]] \in Wrapper /\ Sound(heap[h[o]])
  BY <1>1 DEF Sane, Handles
<1> QED BY <1>1, <1>2, ShallowPlain, EmptyPlain

\* A selected header is temporary and sound: its guard counts what it shows,
\* and that is never a caller's array.
LEMMA SelectSound ==
    ASSUME NEW heap, NEW h, Sane(heap, h), NEW o \in Objects,
           NEW x \in mat_select_nd_view(heap, h[o])
    PROVE  x \in Wrapper /\ x.live /\ x.temp /\ Sound(x) /\ x.data \in Storages
<1>1. /\ h[o] # Null /\ ~ heap[h[o]].temp /\ heap[h[o]].data # None
      /\ x = [live |-> TRUE, data |-> heap[h[o]].data, counted |-> FALSE,
              guard |-> IF heap[h[o]].counted THEN heap[h[o]].data ELSE None,
              temp |-> TRUE]
  BY DEF mat_select_nd_view, Temporary
<1>2. heap[h[o]] \in Wrapper /\ heap[h[o]].data \in Storages /\ heap[h[o]].counted
  BY <1>1 DEF Sane, Handles, Sound
<1> QED BY <1>1, <1>2 DEF Wrapper, Sound, Buffers

\* A lease is as sound and as temporary as its source and addresses the same.
LEMMA LeaseSound ==
    ASSUME NEW heap, NEW h, Sane(heap, h), NEW o \in Objects,
           NEW x \in mat_acquire_borrow_lease(heap, h[o])
    PROVE  /\ x \in Wrapper /\ x.live /\ Sound(x)
           /\ h[o] # Null /\ x.data = heap[h[o]].data
<1>1. /\ h[o] # Null
      /\ x = [live |-> TRUE, data |-> heap[h[o]].data,
              counted |-> heap[h[o]].counted, guard |-> heap[h[o]].guard,
              temp |-> heap[h[o]].temp]
  BY DEF mat_acquire_borrow_lease, Shallow, EmptyMat, Freed
<1>2. heap[h[o]] \in Wrapper /\ Sound(heap[h[o]])
  BY <1>1 DEF Sane, Handles
<1> QED BY <1>1, <1>2 DEF Wrapper, Sound

\* A header over a caller's array is temporary and addresses that array.
LEMMA ExternalSound ==
    ASSUME NEW b \in Externals, NEW x \in mat_create_external(b)
    PROVE  x \in Wrapper /\ x.live /\ x.temp /\ Sound(x) /\ x.data = b
<1>1. x = [live |-> TRUE, data |-> b, counted |-> FALSE, guard |-> None,
           temp |-> TRUE]
  BY DEF mat_create_external, EmptyMat, Freed
<1> QED BY <1>1, NativeAssumption DEF Wrapper, Sound, Buffers

(***************************************************************************)
(* Part 3: what Initialize, Adjust and Finalize do to the objects.         *)
(***************************************************************************)
\* A step that changes the objects of T only, and leaves those without a
\* wrapper or with a plain one.
Touches(T) ==
    /\ Sane(native', handle')
    /\ flag' \in [Objects -> BOOLEAN]
    /\ \A p \in Objects \ T :
          Kept(native, handle, native', handle', p) /\ flag'[p] = flag[p]
    /\ \A p \in Objects \cap T : handle'[p] # Null =>
          Plain(native'[handle'[p]]) /\ flag'[p] = FALSE

\* The invariant, in the terms of part 1.
LEMMA InvIsSane == IInv => Sane(native, handle) /\ flag \in [Objects -> BOOLEAN]
  BY DEF IInv, TypeOK, NativeType, HeadersCounted, OneOwner, Sane, Handles, Sound

\* Finalize leaves its object without a wrapper, the others alone.
LEMMA FinalizeTouches ==
    ASSUME IInv, NEW o \in Objects, Finalize(o)
    PROVE  Touches({o}) /\ handle'[o] = Null
<1>1. Sane(native, handle) /\ flag \in [Objects -> BOOLEAN]
  BY InvIsSane
<1>2. /\ native' = mat_destroy(native, handle[o])
      /\ handle' = [handle EXCEPT ![o] = Null]
      /\ flag' = flag
  BY DEF Finalize
<1>3. handle'[o] = Null
  BY <1>1, <1>2 DEF Sane, Handles
<1>4. Sane(native', handle') /\ \A p \in Objects \ {o} : Kept(native, handle, native', handle', p)
  BY <1>1, <1>2, DropSane
<1> QED BY <1>1, <1>2, <1>3, <1>4 DEF Touches

\* Installing a plain wrapper touches its object alone.
LEMMA InstallTouches ==
    ASSUME IInv, NEW o \in Objects, NEW w, NEW x, Plain(x), Install(o, w, x, FALSE)
    PROVE  Touches({o})
<1>1. Sane(native, handle) /\ flag \in [Objects -> BOOLEAN]
  BY InvIsSane
<1>2. /\ w \in Unused(native)
      /\ native' = mat_destroy(New(native, w, x), handle[o])
      /\ handle' = [handle EXCEPT ![o] = w]
      /\ flag' = [flag EXCEPT ![o] = FALSE]
  BY DEF Install
<1>3. /\ Sane(native', handle')
      /\ native'[w] = x
      /\ \A p \in Objects \ {o} : Kept(native, handle, native', handle', p)
  <2>1. x \in Wrapper /\ x.live /\ Sound(x)
    BY DEF Plain
  <2>2. /\ Sane(mat_destroy(New(native, w, x), handle[o]), [handle EXCEPT ![o] = w])
        /\ mat_destroy(New(native, w, x), handle[o])[w] = x
        /\ \A p \in Objects \ {o} :
              Kept(native, handle, mat_destroy(New(native, w, x), handle[o]),
                   [handle EXCEPT ![o] = w], p)
    BY <1>1, <1>2, <2>1, PutSane
  <2> QED BY <1>2, <2>2
<1>4. handle'[o] = w /\ flag' \in [Objects -> BOOLEAN] /\ flag'[o] = FALSE
      /\ \A p \in Objects \ {o} : flag'[p] = flag[p]
  BY <1>1, <1>2 DEF Sane, Handles
<1> QED BY <1>3, <1>4 DEF Touches

\* Initialize gives a wrapper to its object alone.
LEMMA InitializeTouches ==
    ASSUME IInv, NEW o \in Objects, handle[o] = Null, NEW w, Initialize(o, w)
    PROVE  Touches({o})
<1>1. Install(o, w, EmptyMat, FALSE)
  BY DEF Initialize, Install, mat_create, mat_destroy
<1> QED BY <1>1, EmptyPlain, InstallTouches

Leases == {d \in 1 .. depth : frame[d].kind = "borrow"}

\* A copy that succeeds: the target owns a plain copy, and the source, unless
\* it is the dying object, keeps its own wrapper.
LEMMA AdjustedTouches ==
    ASSUME IInv, NEW target \in Objects, NEW source \in Objects \ Leases,
           target # source, NEW dying \in {Nobody, source},
           Adjusted(target, source, dying)
    PROVE  /\ Touches({target, dying})
           /\ dying \in Objects => handle'[dying] = Null
<1> DEFINE n1 == mat_destroy(native, handle[target])
           h1 == [handle EXCEPT ![target] = Null]
<1>1. Sane(native, handle) /\ flag \in [Objects -> BOOLEAN]
  BY InvIsSane
<1>2. /\ Sane(n1, h1)
      /\ \A p \in Objects \ {target} : Kept(native, handle, n1, h1, p)
  BY <1>1, DropSane
<1>3. h1[target] = Null /\ h1[source] = handle[source] /\ source # Nobody
  BY <1>1, ObjectsAssumption DEF Sane, Handles
<1>4. PICK w \in Unused(n1), x \in mat_copy(n1, handle[source]) :
         /\ native' = mat_destroy(New(n1, w, x), Dying(dying))
         /\ handle' = [o \in Objects |-> IF o = target THEN w
                                         ELSE IF o = dying THEN Null
                                         ELSE handle[o]]
         /\ flag' = [flag EXCEPT ![target] = flag[source]]
  BY DEF Adjusted
<1>5. Plain(x) /\ h1[source] # Null /\ ~ n1[h1[source]].temp
  <2>1. x \in mat_copy(n1, h1[source])
    BY <1>3
  <2> QED BY <2>1, <1>2, CopyPlain
<1>6. flag[source] = FALSE
  <2>1. handle[source] # Null /\ ~ native[handle[source]].temp
    BY <1>2, <1>3, <1>5 DEF Kept
  <2>2. flag[source] = native[handle[source]].temp
    BY <2>1 DEF IInv, AllFlagsAgree, Leases
  <2> QED BY <1>1, <2>1, <2>2
<1> DEFINE n2 == New(n1, w, x)
           h2 == [h1 EXCEPT ![target] = w]
<1>7. /\ Sane(n2, h2)
      /\ n2[w] = x
      /\ \A p \in Objects \ {target} : Kept(n1, h1, n2, h2, p)
  <2>1. mat_destroy(New(n1, w, x), h1[target]) = n2
    BY <1>3 DEF mat_destroy
  <2>2. x \in Wrapper /\ x.live /\ Sound(x)
    BY <1>5 DEF Plain
  <2>3. /\ Sane(mat_destroy(New(n1, w, x), h1[target]), [h1 EXCEPT ![target] = w])
        /\ mat_destroy(New(n1, w, x), h1[target])[w] = x
        /\ \A p \in Objects \ {target} :
              Kept(n1, h1, mat_destroy(New(n1, w, x), h1[target]),
                   [h1 EXCEPT ![target] = w], p)
    BY <1>2, <2>2, PutSane
  <2> QED BY <2>1, <2>3
<1>8. \A p \in Objects \ {target} : Kept(native, handle, n2, h2, p)
  BY <1>2, <1>7 DEF Kept
<1>9. h2[target] = w /\ h2[source] = handle[source]
      /\ \A p \in Objects \ {target} : h2[p] = handle[p]
  BY <1>1 DEF Sane, Handles
<1>10. /\ flag' \in [Objects -> BOOLEAN]
       /\ flag'[target] = FALSE
       /\ \A p \in Objects \ {target} : flag'[p] = flag[p]
  BY <1>1, <1>4, <1>6
<1>11. CASE dying = Nobody
  <2>1. native' = n2
    BY <1>4, <1>11 DEF Dying, mat_destroy
  <2>2. handle' = h2
    BY <1>1, <1>4, <1>11, ObjectsAssumption DEF Sane, Handles
  <2>3. Sane(native', handle') /\ native'[w] = x
    BY <1>7, <2>1, <2>2
  <2>4. \A p \in Objects \ {target} : Kept(native, handle, native', handle', p)
    BY <1>8, <2>1, <2>2
  <2>5. handle'[target] = w
    BY <1>9, <2>2
  <2>6. Plain(native'[handle'[target]])
    BY <1>5, <2>3, <2>5
  <2> HIDE DEF n2, h2
  <2> QED BY <1>10, <1>11, <2>3, <2>4, <2>6, ObjectsAssumption DEF Touches
<1>12. CASE dying = source
  <2> DEFINE n3 == mat_destroy(n2, h2[source])
             h3 == [h2 EXCEPT ![source] = Null]
  <2>1. /\ Sane(n3, h3)
        /\ \A p \in Objects \ {source} : Kept(n2, h2, n3, h3, p)
    BY <1>7, DropSane
  <2>2. native' = n3
    BY <1>3, <1>4, <1>9, <1>12 DEF Dying
  <2>3. handle' = h3
    BY <1>1, <1>4, <1>12 DEF Sane, Handles
  <2>4. \A p \in Objects \ {target, source} : Kept(native, handle, n3, h3, p)
    BY <1>8, <2>1 DEF Kept
  <2>5. h3[source] = Null /\ h3[target] = w /\ w # Null /\ n3[w] = x
    <3>1. h3[source] = Null /\ h3[target] = w
      BY <1>1 DEF Sane, Handles
    <3>2. w # Null
      BY NativeAssumption DEF Unused
    <3> QED BY <3>1, <3>2, <1>7, <1>9, <2>1 DEF Kept
  <2> QED BY <1>5, <1>10, <1>12, <2>1, <2>2, <2>3, <2>4, <2>5 DEF Touches
<1> QED BY <1>11, <1>12

\* A copy that raises: the target is left without a wrapper.
LEMMA AdjustFailedTouches ==
    ASSUME IInv, NEW target \in Objects, NEW source \in Objects,
           target # source, NEW dying \in {Nobody, source},
           AdjustFailed(target, source, dying)
    PROVE  /\ Touches({target, dying})
           /\ handle'[target] = Null
           /\ dying \in Objects => handle'[dying] = Null
<1> DEFINE n1 == mat_destroy(native, handle[target])
           h1 == [handle EXCEPT ![target] = Null]
<1>1. Sane(native, handle) /\ flag \in [Objects -> BOOLEAN]
  BY InvIsSane
<1>2. /\ Sane(n1, h1)
      /\ \A p \in Objects \ {target} : Kept(native, handle, n1, h1, p)
  BY <1>1, DropSane
<1>3. h1[target] = Null /\ h1[source] = handle[source] /\ source # Nobody
  BY <1>1, ObjectsAssumption DEF Sane, Handles
<1>4. /\ native' = mat_destroy(n1, Dying(dying))
      /\ handle' = [o \in Objects |-> IF o \in {target, dying} THEN Null ELSE handle[o]]
      /\ flag' = [flag EXCEPT ![target] = flag[source]]
  BY DEF AdjustFailed
<1>5. /\ flag' \in [Objects -> BOOLEAN]
      /\ \A p \in Objects \ {target} : flag'[p] = flag[p]
  BY <1>1, <1>4
<1>6. /\ handle'[target] = Null
      /\ dying \in Objects => handle'[dying] = Null
  BY <1>4
<1>7. CASE dying = Nobody
  <2>1. native' = n1
    BY <1>4, <1>7 DEF Dying, mat_destroy
  <2>2. handle' = h1
    BY <1>1, <1>4, <1>7, ObjectsAssumption DEF Sane, Handles
  <2> QED BY <1>2, <1>5, <1>6, <2>1, <2>2 DEF Touches
<1>8. CASE dying = source
  <2> DEFINE n2 == mat_destroy(n1, h1[source])
             h2 == [h1 EXCEPT ![source] = Null]
  <2>1. /\ Sane(n2, h2)
        /\ \A p \in Objects \ {source} : Kept(n1, h1, n2, h2, p)
    BY <1>2, DropSane
  <2>2. native' = n2
    BY <1>3, <1>4, <1>8 DEF Dying
  <2>3. handle' = h2
    BY <1>1, <1>4, <1>8 DEF Sane, Handles
  <2>4. \A p \in Objects \ {target, source} : Kept(native, handle, n2, h2, p)
    BY <1>2, <2>1 DEF Kept
  <2> QED BY <1>5, <1>6, <1>8, <2>1, <2>2, <2>3, <2>4 DEF Touches
<1> QED BY <1>7, <1>8

(***************************************************************************)
(* Part 4: the inductive invariant.                                        *)
(***************************************************************************)
\* The parts of the invariant that do not speak of who owns what.
ControlType ==
    /\ depth \in 0 .. MaxDepth
    /\ frame \in [Frames -> Frame \cup {NoFrame}]
    /\ \A d \in 1 .. depth : frame[d] # NoFrame
    /\ \/ doing = Idle
       \/ /\ doing \in [step : {"native", "return", "assign"},
                        call : Functions \cup Callbacks,
                        source : Objects \cup {Nobody},
                        target : Objects \cup {Nobody},
                        buffer : Buffers \cup {None}]
          /\ doing.call \in Functions => doing.target \in Objects
          /\ doing.step # "native" => doing.call \in Functions
          /\ doing.call \in Callbacks => depth < MaxDepth

CallbackInv ==
    /\ ExternalsInside
    /\ LeasesStay
    /\ AllFlagsAgree
    /\ LentHeadersStay
    /\ SubjectsOuter

\* The invariant has these two groups of conjuncts.
LEMMA InvControl == IInv => ControlType /\ CallbackInv
  BY DEF IInv, TypeOK, ControlType, CallbackInv

\* The invariant from its groups of conjuncts, after a step.
LEMMA Assemble ==
    ASSUME Sane(native, handle)', (flag \in [Objects -> BOOLEAN])', ControlType',
           CallbackInv', ScratchObjects', OperandsInReach'
    PROVE  IInv'
<1>1. HeadersCounted' /\ OneOwner' /\ NativeType' /\ (handle \in Handles)'
      /\ (\A w \in Wrappers : native[w].live => \E o \in Objects : handle[o] = w)'
  BY DEF Sane, Sound, HeadersCounted, OneOwner, NativeType
<1>2. TypeOK'
  BY <1>1 DEF TypeOK, ControlType, Handles
<1> QED BY <1>1, <1>2 DEF IInv, CallbackInv

\* Running callbacks are frames, and frames and variables are objects.
LEMMA Depths ==
    ASSUME IInv
    PROVE  /\ depth \in Nat /\ MaxDepth \in Nat /\ depth <= MaxDepth
           /\ 1 .. depth \subseteq Frames /\ Frames \subseteq Objects
           /\ Vars \subseteq Objects
  BY ObjectsAssumption DEF IInv, TypeOK, Frames, Objects

\* What a client can name is an object, and not a lease.
LEMMA Reach ==
    ASSUME IInv
    PROVE  /\ Readable \subseteq (Vars \cup 1 .. depth) \ Leases
           /\ Readable \subseteq Objects
           /\ Writable \subseteq Readable
<1>1. Vars \cap 1 .. depth = {}
  BY Depths, ObjectsAssumption
<1> QED BY <1>1, Depths DEF Readable, Writable, Leases, External

\* Objects the client cannot name are neither lent to a module nor leases.
LEMMA Unlent ==
    ASSUME IInv, NEW o \in Objects \ (Vars \cup 1 .. depth)
    PROVE  ~ LentToModule(o) /\ o \notin Leases
<1>1. \A d \in 1 .. depth : frame[d].subject # o
  <2> SUFFICES ASSUME NEW d \in 1 .. depth PROVE frame[d].subject # o
    OBVIOUS
  <2>1. frame[d].subject \in Vars \cup 1 .. d - 1 \cup {Nobody}
    BY DEF IInv, SubjectsOuter
  <2>2. 1 .. d - 1 \subseteq 1 .. depth /\ o # Nobody
    BY Depths, ObjectsAssumption
  <2> QED BY <2>1, <2>2
<1> QED BY <1>1 DEF LentToModule, Leases

\* Changing objects that are neither leases nor lent to a module, to no
\* wrapper or a plain one, disturbs no callback.
LEMMA QuietStep ==
    ASSUME IInv, NEW T, Touches(T), depth' = depth, frame' = frame,
           Leases \cap T = {}, \A p \in T : ~ LentToModule(p)
    PROVE  CallbackInv'
<1>1. CallbackInv /\ ControlType
  BY InvControl
<1>2. 1 .. depth \subseteq Objects
  BY Depths
<1>3. ExternalsInside'
  <2> SUFFICES ASSUME NEW o \in Objects, handle'[o] # Null,
                      native'[handle'[o]].data \in Externals
               PROVE  /\ o \in 1 .. depth
                      /\ \E e \in 1 .. o :
                            External(e) /\ frame[e].buffer = native'[handle'[o]].data
    BY DEF ExternalsInside, External
  <2>1. o \notin T
    BY DEF Touches, Plain
  <2>2. handle[o] # Null /\ native'[handle'[o]] = native[handle[o]]
    BY <2>1 DEF Touches, Kept
  <2> QED BY <1>1, <2>2 DEF CallbackInv, ExternalsInside
<1>4. LeasesStay'
  BY <1>1, <1>2 DEF CallbackInv, LeasesStay, Touches, Kept, Leases
<1>5. AllFlagsAgree'
  <2> SUFFICES ASSUME NEW o \in Objects \ Leases, handle'[o] # Null
               PROVE  flag'[o] = native'[handle'[o]].temp
    BY DEF AllFlagsAgree, Leases
  <2>1. CASE o \in T
    <3>1. Plain(native'[handle'[o]]) /\ flag'[o] = FALSE
      BY <2>1 DEF Touches
    <3> QED BY <3>1 DEF Plain, Wrapper
  <2>2. CASE o \notin T
    BY <2>2, <1>1 DEF Touches, Kept, CallbackInv, AllFlagsAgree, Leases
  <2> QED BY <2>1, <2>2
<1>6. LentHeadersStay'
  <2> SUFFICES ASSUME NEW d \in 1 .. depth, frame[d].kind \in Borrowing
               PROVE  /\ frame[d].wrapper = handle'[frame[d].subject]
                      /\ frame[d].kind = "output" =>
                            /\ frame[d].wrapper # Null
                            /\ native'[frame[d].wrapper].live
                            /\ ~ native'[frame[d].wrapper].temp
    BY DEF LentHeadersStay
  <2>1. frame[d].subject \in Objects \ T
    BY <1>1, <1>2, Depths DEF CallbackInv, SubjectsOuter, LentToModule
  <2>2. Kept(native, handle, native', handle', frame[d].subject)
    BY <2>1 DEF Touches
  <2> QED BY <1>1, <2>2 DEF Kept, CallbackInv, LentHeadersStay
<1>7. SubjectsOuter'
  BY <1>1 DEF CallbackInv, SubjectsOuter, External
<1> QED BY <1>3, <1>4, <1>5, <1>6, <1>7 DEF CallbackInv

\* Steps of the client on its own objects between two calls of the binding.
LEMMA IdleStep ==
    ASSUME IInv, NEW T, Touches(T), UNCHANGED <<depth, frame, doing>>,
           doing = Idle, T \cap Objects \subseteq Vars \cup 1 .. depth,
           Leases \cap T = {}, \A p \in T : ~ LentToModule(p)
    PROVE  IInv'
<1>1. CallbackInv'
  BY QuietStep
<1>2. ControlType'
  BY InvControl DEF ControlType
<1>3. ScratchObjects'
  BY DEF IInv, ScratchObjects, Touches, Kept, Idle, Building
<1>4. OperandsInReach'
  BY DEF OperandsInReach, Idle, Functions
<1> QED BY <1>1, <1>2, <1>3, <1>4, Assemble DEF Touches

\* Declaring a Mat variable preserves the invariant.
LEMMA DeclareStep ==
    ASSUME IInv, NEW v \in Vars, Declare(v) PROVE IInv'
<1>1. PICK w \in Wrappers : Initialize(v, w)
  BY DEF Declare
<1>2. Touches({v})
  BY <1>1, InitializeTouches, Depths DEF Declare
<1>3. ~ LentToModule(v) /\ v \notin Leases
  BY DEF Declare, LentToModule, Leases
<1> QED BY <1>2, <1>3, IdleStep DEF Declare

\* Finalizing a Mat variable preserves the invariant.
LEMMA LeaveScopeStep ==
    ASSUME IInv, NEW v \in Vars, LeaveScope(v) PROVE IInv'
<1>1. Touches({v})
  BY FinalizeTouches, Depths DEF LeaveScope
<1>2. ~ LentToModule(v) /\ v \notin Leases
  BY DEF LeaveScope, LentToModule, Leases
<1> QED BY <1>1, <1>2, IdleStep DEF LeaveScope

\* An assignment, also one that raises, preserves the invariant.
LEMMA AssignStep ==
    ASSUME IInv, NEW source \in Readable, NEW target \in Writable,
           Assign(target, source)
    PROVE  IInv'
<1>1. /\ source \in Objects \ Leases
      /\ target \in (Objects \cap (Vars \cup 1 .. depth)) \ Leases
      /\ Nobody \notin Objects
  BY Reach, ObjectsAssumption
<1>2. target # source /\ ~ LentToModule(target)
  BY DEF Assign
<1>3. Touches({target, Nobody})
  BY <1>1, <1>2, AdjustedTouches, AdjustFailedTouches DEF Assign
<1>4. Touches({target})
  BY <1>1, <1>3 DEF Touches
<1> QED BY <1>1, <1>2, <1>4, IdleStep DEF Assign

\* Entering a function that returns a Mat preserves the invariant.
LEMMA CallStep ==
    ASSUME IInv, NEW call \in Functions, NEW source \in Readable \cup {Nobody},
           call # "create" => source \in Readable,
           NEW target \in Writable, Call(call, source, target)
    PROVE  IInv'
<1>1. Local \in Objects \ (Vars \cup 1 .. depth)
  BY Depths, ObjectsAssumption DEF Objects
<1>2. handle[Local] = Null
  BY <1>1 DEF Call, IInv, ScratchObjects, Idle
<1>3. PICK w \in Wrappers : Initialize(Local, w)
  BY DEF Call
<1>4. Touches({Local})
  BY <1>1, <1>2, <1>3, InitializeTouches
<1>5. ~ LentToModule(Local) /\ Local \notin Leases
  BY <1>1, Unlent
<1>6. CallbackInv'
  BY <1>4, <1>5, QuietStep DEF Call
<1>7. target \in Objects /\ source \in Objects \cup {Nobody}
  BY Reach
<1>8. /\ doing' = [step |-> "native", call |-> call, source |-> source,
                  target |-> target, buffer |-> None]
      /\ depth' = depth /\ frame' = frame /\ doing = Idle
      /\ ~ LentToModule(target)
  BY DEF Call
<1>9. ControlType'
  <2>1. ControlType
    BY InvControl
  <2>2. doing' \in [step : {"native", "return", "assign"},
                    call : Functions \cup Callbacks,
                    source : Objects \cup {Nobody},
                    target : Objects \cup {Nobody},
                    buffer : Buffers \cup {None}]
    BY <1>7, <1>8
  <2>3. doing'.call \in Functions /\ doing'.target \in Objects
        /\ doing'.step = "native" /\ doing'.call \notin Callbacks
    BY <1>7, <1>8 DEF Functions, Callbacks
  <2> QED BY <1>8, <2>1, <2>2, <2>3 DEF ControlType
<1>10. ScratchObjects'
  BY <1>4, <1>8 DEF IInv, ScratchObjects, Touches, Kept, Idle, Building, Functions
<1>11. OperandsInReach'
  <2>1. Writable' = Writable /\ Readable' = Readable
    BY <1>8 DEF Writable, Readable, External
  <2>2. LentToModule(target)' = LentToModule(target)
    BY <1>8 DEF LentToModule
  <2>3. flag'[Local] = FALSE
    BY <1>1, <1>3 DEF Initialize, IInv, TypeOK
  <2> QED BY <1>8, <2>1, <2>2, <2>3
       DEF OperandsInReach, Functions, LentToModule, Building
<1> QED BY <1>4, <1>6, <1>9, <1>10, <1>11, Assemble DEF Touches

\* The object of the next callback is one nobody uses yet.
LEMMA NextFrame ==
    ASSUME IInv, depth < MaxDepth
    PROVE  /\ depth + 1 \in Frames
           /\ depth + 1 \in Objects \ (Vars \cup 1 .. depth)
           /\ 1 .. depth + 1 = (1 .. depth) \cup {depth + 1}
<1>1. depth + 1 \in Frames
  BY Depths DEF Frames
<1>2. depth + 1 \in Objects /\ depth + 1 \notin Vars
  BY <1>1, ObjectsAssumption DEF Objects
<1>3. depth + 1 \notin 1 .. depth /\ 1 .. depth + 1 = (1 .. depth) \cup {depth + 1}
  BY Depths
<1> QED BY <1>1, <1>2, <1>3

\* A call in progress is well typed and builds an object nobody else uses.
LEMMA InProgress ==
    ASSUME IInv, doing.step \in {"native", "return", "assign"}
    PROVE  /\ doing # Idle
           /\ doing \in [step : {"native", "return", "assign"},
                        call : Functions \cup Callbacks,
                        source : Objects \cup {Nobody},
                        target : Objects \cup {Nobody},
                        buffer : Buffers \cup {None}]
           /\ doing.step # "native" => doing.call \in Functions
           /\ doing.call \in Functions => Building = Local
           /\ doing.call \in Callbacks => Building = depth + 1 /\ depth < MaxDepth
           /\ Building \in Objects \ (Vars \cup 1 .. depth)
           /\ Local \in Objects \ (Vars \cup 1 .. depth)
           /\ Returned \in Objects \ (Vars \cup 1 .. depth)
           /\ Returned # Building
<1>1. doing # Idle
  BY DEF Idle
<1>2. ControlType
  BY InvControl
<1>3. /\ Local \in Objects \ (Vars \cup 1 .. depth)
      /\ Returned \in Objects \ (Vars \cup 1 .. depth)
      /\ Local # Returned
  BY Depths, ObjectsAssumption DEF Objects
<1>4. doing.call \in Functions => Building = Local
  BY DEF Building
<1>5. doing.call \in Callbacks =>
         /\ Building = depth + 1 /\ depth < MaxDepth
         /\ depth + 1 \in Frames /\ depth + 1 \notin 1 .. depth
  <2> SUFFICES ASSUME doing.call \in Callbacks
               PROVE  /\ Building = depth + 1 /\ depth < MaxDepth
                      /\ depth + 1 \in Frames /\ depth + 1 \notin 1 .. depth
    OBVIOUS
  <2>1. depth < MaxDepth
    BY <1>1, <1>2 DEF ControlType
  <2>2. Building = depth + 1
    BY DEF Building, Functions, Callbacks
  <2>3. depth + 1 \in Frames /\ depth + 1 \notin 1 .. depth
    BY <2>1, Depths DEF Frames
  <2> QED BY <2>1, <2>2, <2>3
<1>6. depth + 1 \in Frames => depth + 1 \in Objects /\ depth + 1 \notin Vars /\ depth + 1 # Returned
  BY ObjectsAssumption DEF Objects
<1> QED BY <1>1, <1>2, <1>3, <1>4, <1>5, <1>6 DEF ControlType

\* When a call has ended, nothing is demanded of its operands.
LEMMA IdleControl ==
    ASSUME IInv, depth' = depth, frame' = frame, doing' = Idle
    PROVE  ControlType' /\ OperandsInReach'
  BY InvControl DEF ControlType, OperandsInReach, Idle, Functions

\* The operands of a function stay in reach from one of its steps to the next.
LEMMA StillInReach ==
    ASSUME IInv, depth' = depth, frame' = frame, doing.call \in Functions,
           doing'.call = doing.call, doing'.step # "native",
           doing'.target = doing.target, doing'.source = doing.source
    PROVE  OperandsInReach'
<1>1. Writable' = Writable /\ Readable' = Readable
  BY DEF Writable, Readable, External
<1>2. \A o : LentToModule(o)' = LentToModule(o)
  BY DEF LentToModule
<1> QED BY <1>1, <1>2 DEF IInv, OperandsInReach, Functions, LentToModule

\* An exception before any result exists preserves the invariant.
LEMMA FailStep ==
    ASSUME IInv, Fail PROVE IInv'
<1>1. doing.step = "native" /\ doing' = Idle /\ depth' = depth /\ frame' = frame
      /\ Finalize(Building)
  BY DEF Fail
<1>2. Touches({Building}) /\ handle'[Building] = Null
  BY <1>1, InProgress, FinalizeTouches
<1>3. CallbackInv'
  BY <1>1, <1>2, InProgress, Unlent, QuietStep
<1>4. ScratchObjects'
  BY <1>1, <1>2 DEF IInv, ScratchObjects, Touches, Kept
<1> QED BY <1>1, <1>2, <1>3, <1>4, IdleControl, Assemble DEF Touches

\* Replacing the default wrapper by the result preserves the invariant.
LEMMA BuildStep ==
    ASSUME IInv, Build PROVE IInv'
<1>1. PICK w \in Wrappers, x \in Results : Install(Local, w, x, flag[Local])
  BY DEF Build
<1>2. doing.step = "native" /\ doing.call \in Functions
      /\ depth' = depth /\ frame' = frame /\ doing' = [doing EXCEPT !.step = "return"]
  BY DEF Build
<1>3. Sane(native, handle) /\ flag \in [Objects -> BOOLEAN]
  BY InvIsSane
<1>4. Plain(x)
  <2>1. doing.call \in {"clone", "view"} => doing.source \in Objects
    BY Reach DEF IInv, OperandsInReach
  <2>2. CASE doing.call = "create"
    BY <2>2, CreatePlain DEF Results
  <2>3. CASE doing.call = "clone"
    BY <2>3, ClonePlain DEF Results
  <2>4. CASE doing.call = "view"
    <3>1. x \in mat_view(native, handle[doing.source])
      BY <2>4 DEF Results
    <3> QED BY <3>1, <2>1, <2>4, <1>3, ViewPlain
  <2> QED BY <1>2, <2>2, <2>3, <2>4 DEF Functions
<1>5. flag[Local] = FALSE
  BY <1>2, InProgress DEF IInv, OperandsInReach
<1>6. Touches({Local})
  BY <1>1, <1>2, <1>4, <1>5, InProgress, InstallTouches
<1>7. CallbackInv'
  BY <1>2, <1>6, InProgress, Unlent, QuietStep
<1>8. doing'.step = "return" /\ doing'.call = doing.call /\ doing'.call \in Functions
      /\ doing'.target = doing.target /\ doing'.source = doing.source
      /\ doing' \in [step : {"native", "return", "assign"},
                    call : Functions \cup Callbacks,
                    source : Objects \cup {Nobody},
                    target : Objects \cup {Nobody},
                    buffer : Buffers \cup {None}]
  BY <1>2, InProgress
<1>9. ControlType'
  BY <1>2, <1>8, InProgress, InvControl DEF ControlType, Functions, Callbacks
<1>10. ScratchObjects'
  BY <1>2, <1>6, <1>8, InProgress DEF IInv, ScratchObjects, Touches, Kept, Building
<1>11. OperandsInReach'
  BY <1>2, <1>8, StillInReach
<1> QED BY <1>6, <1>7, <1>9, <1>10, <1>11, Assemble DEF Touches

\* Returning the local object, or failing to, preserves the invariant.
LEMMA ReturnStep ==
    ASSUME IInv, Return PROVE IInv'
<1>1. doing.step = "return" /\ depth' = depth /\ frame' = frame
  BY DEF Return
<1>2. /\ Returned \in Objects \ (Vars \cup 1 .. depth) /\ Local \in Objects \ (Vars \cup 1 .. depth)
      /\ Returned # Local /\ Building = Local /\ doing.call \in Functions
  BY <1>1, InProgress
<1>3. Local \in Objects \ Leases
  BY <1>2, Unlent
<1>4. Touches({Returned, Local}) /\ handle'[Local] = Null
  BY <1>2, <1>3, AdjustedTouches, AdjustFailedTouches DEF Return
<1>5. CallbackInv'
  BY <1>1, <1>2, <1>4, Unlent, QuietStep
<1>6. CASE doing' = Idle
  <2>1. handle'[Returned] = Null
    <3>1. doing' # [doing EXCEPT !.step = "assign"]
      BY <1>1, <1>6, InProgress DEF Idle
    <3>2. AdjustFailed(Returned, Local, Local)
      BY <3>1 DEF Return
    <3> QED BY <1>2, <1>3, <3>2, AdjustFailedTouches
  <2>2. ScratchObjects'
    BY <1>1, <1>2, <1>4, <2>1 DEF IInv, ScratchObjects, Touches, Kept
  <2> QED BY <1>1, <1>4, <1>5, <1>6, <2>2, IdleControl, Assemble DEF Touches
<1>7. CASE doing' = [doing EXCEPT !.step = "assign"]
  <2>1. doing'.step = "assign" /\ doing'.call = doing.call /\ doing'.call \in Functions
        /\ doing'.target = doing.target /\ doing'.source = doing.source
        /\ doing' \in [step : {"native", "return", "assign"},
                      call : Functions \cup Callbacks,
                      source : Objects \cup {Nobody},
                      target : Objects \cup {Nobody},
                      buffer : Buffers \cup {None}]
    BY <1>1, <1>2, <1>7, InProgress
  <2>2. ControlType'
    BY <1>1, <2>1, InProgress, InvControl DEF ControlType, Functions, Callbacks
  <2>3. ScratchObjects'
    BY <1>1, <1>2, <1>4, <2>1 DEF IInv, ScratchObjects, Touches, Kept
  <2>4. OperandsInReach'
    BY <1>1, <1>2, <2>1, StillInReach
  <2> QED BY <1>4, <1>5, <2>2, <2>3, <2>4, Assemble DEF Touches
<1> QED BY <1>6, <1>7 DEF Return

\* Assigning the result object, or failing to, preserves the invariant.
LEMMA AssignResultStep ==
    ASSUME IInv, AssignResult PROVE IInv'
<1>1. doing.step = "assign" /\ depth' = depth /\ frame' = frame /\ doing' = Idle
  BY DEF AssignResult
<1>2. Returned \in Objects \ (Vars \cup 1 .. depth) /\ doing.call \in Functions
  BY <1>1, InProgress
<1>3. doing.target \in Writable /\ ~ LentToModule(doing.target)
  BY <1>2 DEF IInv, OperandsInReach
<1>4. /\ doing.target \in (Objects \cap (Vars \cup 1 .. depth)) \ Leases
      /\ Returned \in Objects \ Leases /\ ~ LentToModule(Returned)
      /\ doing.target # Returned
  BY <1>2, <1>3, Reach, Unlent
<1>5. Touches({doing.target, Returned}) /\ handle'[Returned] = Null
  BY <1>4, AdjustedTouches, AdjustFailedTouches DEF AssignResult
<1>6. CallbackInv'
  BY <1>1, <1>3, <1>4, <1>5, QuietStep
<1>7. ScratchObjects'
  BY <1>1, <1>4, <1>5 DEF IInv, ScratchObjects, Touches, Kept
<1> QED BY <1>1, <1>5, <1>6, <1>7, IdleControl, Assemble DEF Touches

\* A callback's operand is in reach, its buffer a caller's.
LEMMA PrepareStep ==
    ASSUME IInv, NEW call \in Callbacks, NEW source \in Readable \cup {Nobody},
           NEW buffer \in Externals \cup {None},
           call \in {"select", "borrow"} => source \in Readable,
           call \in {"writable", "read only"} => buffer \in Externals,
           Prepare(call, source, buffer)
    PROVE  IInv'
<1>1. /\ doing = Idle /\ depth < MaxDepth /\ depth' = depth /\ frame' = frame
      /\ doing' = [step |-> "native", call |-> call, source |-> source,
                  target |-> Nobody, buffer |-> buffer]
  BY DEF Prepare
<1>2. depth + 1 \in Objects \ (Vars \cup 1 .. depth)
  BY <1>1, NextFrame
<1>3. handle[depth + 1] = Null
  BY <1>1, <1>2 DEF IInv, ScratchObjects, Idle
<1>4. PICK w \in Wrappers : Initialize(depth + 1, w)
  BY DEF Prepare
<1>5. Touches({depth + 1})
  BY <1>2, <1>3, <1>4, InitializeTouches
<1>6. CallbackInv'
  BY <1>1, <1>2, <1>5, Unlent, QuietStep
<1>7. call \notin Functions /\ Building' = depth + 1
  <2>1. call \notin Functions
    BY DEF Functions, Callbacks
  <2> QED BY <1>1, <2>1 DEF Building
<1>8. ControlType'
  <2>1. ControlType
    BY InvControl
  <2>2. doing' \in [step : {"native", "return", "assign"},
                    call : Functions \cup Callbacks,
                    source : Objects \cup {Nobody},
                    target : Objects \cup {Nobody},
                    buffer : Buffers \cup {None}]
    BY <1>1, Reach DEF Buffers
  <2>3. doing'.call \notin Functions /\ doing'.step = "native"
    BY <1>1, <1>7
  <2> QED BY <1>1, <2>1, <2>2, <2>3 DEF ControlType
<1>9. ScratchObjects'
  BY <1>1, <1>5, <1>7 DEF IInv, ScratchObjects, Touches, Kept, Idle
<1>10. OperandsInReach'
  <2>1. Readable' = Readable
    BY <1>1 DEF Readable, External
  <2>2. flag'[depth + 1] = FALSE
    BY <1>2, <1>4 DEF Initialize, IInv, TypeOK
  <2> QED BY <1>1, <1>7, <2>1, <2>2 DEF OperandsInReach, Functions
<1> QED BY <1>5, <1>6, <1>8, <1>9, <1>10, Assemble DEF Touches

\* Output operations on the header of an object the client can name, or that
\* a module was lent: a lease is never among them.
LEMMA OutputStep ==
    ASSUME IInv, NEW o \in Objects \ Leases, handle[o] # Null,
           native' \in OutputArrays(native, handle[o]), doing = Idle,
           UNCHANGED <<handle, flag, depth, frame, doing>>
    PROVE  IInv'
<1>1. Sane(native, handle) /\ flag \in [Objects -> BOOLEAN]
  BY InvIsSane
<1>2. /\ Sane(native', handle)
      /\ \A p \in Objects \ {o} : Kept(native, handle, native', handle, p)
      /\ native'[handle[o]].live
      /\ native'[handle[o]].temp = native[handle[o]].temp
      /\ native'[handle[o]].data \in Storages \cup {None} \cup {native[handle[o]].data}
  BY <1>1, OutputSane
<1>3. CallbackInv /\ ControlType
  BY InvControl
<1>4. ExternalsInside'
  <2> SUFFICES ASSUME NEW p \in Objects, handle[p] # Null,
                      native'[handle[p]].data \in Externals
               PROVE  /\ p \in 1 .. depth
                      /\ \E e \in 1 .. p :
                            External(e) /\ frame[e].buffer = native'[handle[p]].data
    BY DEF ExternalsInside, External
  <2>1. native'[handle[p]].data = native[handle[p]].data
    BY <1>2, NativeAssumption DEF Kept
  <2> QED BY <1>3, <2>1 DEF CallbackInv, ExternalsInside
<1>5. LeasesStay'
  BY <1>2, <1>3, Depths DEF CallbackInv, LeasesStay, Kept, Leases
<1>6. AllFlagsAgree'
  BY <1>2, <1>3 DEF CallbackInv, AllFlagsAgree, Kept
<1>7. LentHeadersStay'
  <2> SUFFICES ASSUME NEW d \in 1 .. depth, frame[d].kind = "output"
               PROVE  /\ native'[frame[d].wrapper].live
                      /\ ~ native'[frame[d].wrapper].temp
    BY <1>3 DEF CallbackInv, LentHeadersStay
  <2>1. frame[d].subject \in Objects /\ frame[d].wrapper = handle[frame[d].subject]
        /\ frame[d].wrapper # Null
        /\ native[frame[d].wrapper].live /\ ~ native[frame[d].wrapper].temp
    BY <1>3, Depths DEF CallbackInv, LentHeadersStay, SubjectsOuter, Borrowing
  <2> QED BY <1>2, <2>1 DEF Kept
<1>8. SubjectsOuter'
  BY <1>3 DEF CallbackInv, SubjectsOuter, External
<1>9. ControlType'
  BY <1>3 DEF ControlType
<1>10. ScratchObjects'
  BY DEF IInv, ScratchObjects, Idle
<1>11. OperandsInReach'
  BY DEF OperandsInReach, Idle, Functions
<1> QED BY <1>1, <1>2, <1>4, <1>5, <1>6, <1>7, <1>8, <1>9, <1>10, <1>11, Assemble
     DEF CallbackInv

\* Starting a callback over a view or a lease preserves the invariant.
LEMMA EnterStep ==
    ASSUME IInv, Enter PROVE IInv'
<1> DEFINE D == depth + 1
<1>1. doing.step = "native" /\ doing.call \in Callbacks /\ depth' = depth + 1 /\ doing' = Idle
  BY DEF Enter
<1>2. PICK w \in Wrappers, x \in Results :
         /\ Install(depth + 1, w, x, doing.call # "borrow")
         /\ frame' = [frame EXCEPT ![depth + 1] =
                         [kind |-> doing.call, subject |-> Nobody,
                          wrapper |-> Null, buffer |-> x.data]]
  BY DEF Enter
<1>3. Sane(native, handle) /\ flag \in [Objects -> BOOLEAN]
  BY InvIsSane
<1>4. ControlType /\ CallbackInv /\ ScratchObjects
  BY InvControl DEF IInv
<1>5. /\ depth < MaxDepth /\ Building = D
      /\ D \in Frames /\ D \in Objects \ (Vars \cup 1 .. depth)
      /\ 1 .. depth' = (1 .. depth) \cup {D}
      /\ 1 .. depth \subseteq Objects
  BY <1>1, InProgress, NextFrame, Depths
<1>6. /\ x \in Wrapper /\ x.live /\ Sound(x)
      /\ doing.call # "borrow" => x.temp
      /\ x.data \in Externals =>
           \/ doing.call \in {"writable", "read only"}
           \/ \E e \in 1 .. depth : External(e) /\ frame[e].buffer = x.data
  <2>1. CASE doing.call = "select"
    <3>1. x \in mat_select_nd_view(native, handle[doing.source]) /\ doing.source \in Objects
      BY <2>1, Reach DEF Results, IInv, OperandsInReach
    <3> QED BY <1>3, <2>1, <3>1, SelectSound, NativeAssumption
  <2>2. CASE doing.call = "borrow"
    <3>1. x \in mat_acquire_borrow_lease(native, handle[doing.source]) /\ doing.source \in Objects
      BY <2>2, Reach DEF Results, IInv, OperandsInReach
    <3>2. /\ x \in Wrapper /\ x.live /\ Sound(x)
          /\ handle[doing.source] # Null /\ x.data = native[handle[doing.source]].data
      BY <1>3, <3>1, LeaseSound
    <3>3. x.data \in Externals =>
             /\ doing.source \in 1 .. depth
             /\ \E e \in 1 .. doing.source : External(e) /\ frame[e].buffer = x.data
      BY <1>4, <3>1, <3>2 DEF CallbackInv, ExternalsInside
    <3>4. doing.source \in 1 .. depth => 1 .. doing.source \subseteq 1 .. depth
      BY Depths
    <3> QED BY <2>2, <3>2, <3>3, <3>4
  <2>3. CASE doing.call \in {"writable", "read only"}
    <3>1. x \in mat_create_external(doing.buffer) /\ doing.buffer \in Externals
      BY <2>3 DEF Results, IInv, OperandsInReach
    <3> QED BY <2>3, <3>1, ExternalSound
  <2> QED BY <1>1, <2>1, <2>2, <2>3 DEF Callbacks
<1>7. /\ Sane(native', handle')
      /\ native'[w] = x
      /\ \A p \in Objects \ {D} : Kept(native, handle, native', handle', p)
  <2>1. /\ w \in Unused(native)
        /\ native' = mat_destroy(New(native, w, x), handle[D])
        /\ handle' = [handle EXCEPT ![D] = w]
    BY <1>2 DEF Install
  <2>2. /\ Sane(mat_destroy(New(native, w, x), handle[D]), [handle EXCEPT ![D] = w])
        /\ mat_destroy(New(native, w, x), handle[D])[w] = x
        /\ \A p \in Objects \ {D} :
              Kept(native, handle, mat_destroy(New(native, w, x), handle[D]),
                   [handle EXCEPT ![D] = w], p)
    BY <1>3, <1>5, <1>6, <2>1, PutSane
  <2> QED BY <2>1, <2>2
<1>8. /\ handle'[D] = w /\ w # Null
      /\ flag' \in [Objects -> BOOLEAN]
      /\ flag'[D] = (doing.call # "borrow")
      /\ \A p \in Objects \ {D} : flag'[p] = flag[p]
  BY <1>2, <1>3, <1>5, NativeAssumption DEF Install, Sane, Handles
<1>9. /\ frame'[D] = [kind |-> doing.call, subject |-> Nobody,
                     wrapper |-> Null, buffer |-> x.data]
      /\ frame'[D].kind = doing.call /\ frame'[D].subject = Nobody
      /\ frame'[D].wrapper = Null /\ frame'[D].buffer = x.data
      /\ \A d \in 1 .. depth : frame'[d] = frame[d]
  BY <1>2, <1>4, <1>5, Depths DEF ControlType
<1> HIDE DEF D
<1>10. ControlType'
  <2>1. frame'[D] \in Frame /\ frame'[D] # NoFrame
    <3>1. x.data \in Buffers \cup {None}
      BY <1>6 DEF Wrapper
    <3>2. frame'[D] \in Frame
      BY <1>1, <1>9, <3>1 DEF Frame
    <3>3. frame'[D].kind # NoFrame.kind
      BY <1>1, <1>9 DEF NoFrame, Callbacks
    <3> QED BY <3>2, <3>3
  <2>2. frame' \in [Frames -> Frame \cup {NoFrame}]
    BY <1>2, <1>4, <1>5, <1>9, <2>1 DEF ControlType, D
  <2>3. depth' \in 0 .. MaxDepth
    BY <1>1, <1>5, Depths
  <2>4. \A d \in 1 .. depth' : frame'[d] # NoFrame
    BY <1>4, <1>5, <1>9, <2>1 DEF ControlType
  <2> QED BY <1>1, <2>2, <2>3, <2>4 DEF ControlType
<1>11. ExternalsInside'
  <2> SUFFICES ASSUME NEW o \in Objects, handle'[o] # Null,
                      native'[handle'[o]].data \in Externals
               PROVE  /\ o \in 1 .. depth'
                      /\ \E e \in 1 .. o : /\ frame'[e].kind \in {"writable", "read only"}
                                           /\ frame'[e].buffer = native'[handle'[o]].data
    BY DEF ExternalsInside, External
  <2>1. CASE o = D
    <3>1. D \in 1 .. depth' /\ 1 .. D = (1 .. depth) \cup {D}
      BY <1>1, <1>5 DEF D
    <3>2. x.data \in Externals /\ native'[handle'[o]].data = x.data
      BY <1>7, <1>8, <2>1
    <3>3. CASE doing.call \in {"writable", "read only"}
      BY <1>9, <2>1, <3>1, <3>2, <3>3
    <3>4. CASE \E e \in 1 .. depth : External(e) /\ frame[e].buffer = x.data
      BY <1>9, <2>1, <3>1, <3>2, <3>4 DEF External
    <3> QED BY <1>6, <3>2, <3>3, <3>4
  <2>2. CASE o # D
    <3>1. handle[o] # Null /\ native'[handle'[o]] = native[handle[o]]
      BY <1>7, <2>2 DEF Kept
    <3>2. /\ o \in 1 .. depth
          /\ \E e \in 1 .. o : External(e) /\ frame[e].buffer = native'[handle'[o]].data
      BY <1>4, <3>1 DEF CallbackInv, ExternalsInside
    <3>3. 1 .. o \subseteq 1 .. depth
      BY <3>2, Depths
    <3> QED BY <1>5, <1>9, <3>2, <3>3 DEF External
  <2> QED BY <2>1, <2>2
<1>12. LeasesStay'
  <2>1. \A d \in 1 .. depth : frame'[d].kind = "borrow" =>
           handle'[d] # Null /\ native'[handle'[d]].data = frame'[d].buffer
    BY <1>4, <1>5, <1>7, <1>9 DEF CallbackInv, LeasesStay, Kept
  <2>2. handle'[D] # Null /\ native'[handle'[D]].data = frame'[D].buffer
    BY <1>7, <1>8, <1>9
  <2> QED BY <1>5, <2>1, <2>2 DEF LeasesStay
<1>13. AllFlagsAgree'
  <2> SUFFICES ASSUME NEW o \in Objects, handle'[o] # Null,
                      ~ (o \in 1 .. depth' /\ frame'[o].kind = "borrow")
               PROVE  flag'[o] = native'[handle'[o]].temp
    BY DEF AllFlagsAgree
  <2>1. CASE o = D
    <3>1. doing.call # "borrow"
      BY <1>5, <1>9, <2>1
    <3>2. native'[handle'[o]].temp /\ flag'[o]
      BY <1>6, <1>7, <1>8, <2>1, <3>1
    <3>3. native'[handle'[o]].temp \in BOOLEAN
      BY <1>6, <1>7, <1>8, <2>1 DEF Wrapper
    <3>4. flag'[o] \in BOOLEAN
      BY <1>8
    <3> QED BY <3>2, <3>3, <3>4
  <2>2. CASE o # D
    BY <1>4, <1>5, <1>7, <1>8, <1>9, <2>2 DEF CallbackInv, AllFlagsAgree, Kept
  <2> QED BY <2>1, <2>2
<1>14. LentHeadersStay'
  <2>1. frame'[D].kind \notin Borrowing
    BY <1>1, <1>9 DEF Callbacks, Borrowing
  <2>2. \A d \in 1 .. depth : frame[d].kind \in Borrowing =>
           Kept(native, handle, native', handle', frame[d].subject)
    BY <1>4, <1>5, <1>7, Depths DEF CallbackInv, SubjectsOuter
  <2> QED BY <1>4, <1>5, <1>9, <2>1, <2>2 DEF CallbackInv, LentHeadersStay, Kept
<1>15. SubjectsOuter'
  <2>1. frame'[D].kind \notin Borrowing /\ frame'[D].subject = Nobody
    BY <1>1, <1>9 DEF Callbacks, Borrowing
  <2>2. \A d \in 1 .. depth : 1 .. d - 1 \subseteq 1 .. depth
    BY Depths
  <2> QED BY <1>4, <1>5, <1>9, <2>1, <2>2 DEF CallbackInv, SubjectsOuter, External
<1>16. ScratchObjects'
  BY <1>1, <1>4, <1>5, <1>7 DEF ScratchObjects, Kept
<1>17. OperandsInReach'
  BY <1>1 DEF OperandsInReach, Idle, Functions
<1> QED BY <1>7, <1>8, <1>10, <1>11, <1>12, <1>13, <1>14, <1>15, <1>16, <1>17,
        Assemble DEF CallbackInv

\* A callback over a lent header owns nothing: its frame names the object and
\* the header that object has.
LEMMA LendStep ==
    ASSUME IInv, doing = Idle, NEW o \in Readable, NEW kind \in Borrowing,
           kind = "output" => mat_resolve_output(native, handle[o]),
           Lend(kind, o)
    PROVE  IInv'
<1> DEFINE D == depth + 1
<1>1. /\ depth < MaxDepth /\ depth' = depth + 1
      /\ native' = native /\ handle' = handle /\ flag' = flag /\ doing' = doing
      /\ frame' = [frame EXCEPT ![depth + 1] =
                      [kind |-> kind, subject |-> o, wrapper |-> handle[o],
                       buffer |-> None]]
  BY DEF Lend
<1>2. Sane(native, handle) /\ flag \in [Objects -> BOOLEAN]
  BY InvIsSane
<1>3. ControlType /\ CallbackInv /\ ScratchObjects
  BY InvControl DEF IInv
<1>4. /\ D \in Frames /\ D \in Objects \ (Vars \cup 1 .. depth)
      /\ 1 .. depth' = (1 .. depth) \cup {D}
      /\ 1 .. depth \subseteq Objects
  BY <1>1, NextFrame, Depths
<1>5. o \in Objects /\ o \in Vars \cup {e \in 1 .. depth : External(e) \/ frame[e].kind = "select"}
  BY Reach DEF Readable
<1>6. handle[o] \in Wrappers \cup {Null}
  BY <1>2, <1>5 DEF Sane, Handles
<1>7. /\ frame'[D] = [kind |-> kind, subject |-> o, wrapper |-> handle[o],
                      buffer |-> None]
      /\ frame'[D].kind = kind /\ frame'[D].subject = o
      /\ frame'[D].wrapper = handle[o]
      /\ \A d \in 1 .. depth : frame'[d] = frame[d]
  BY <1>1, <1>3, <1>4, Depths DEF ControlType
<1>8. handle[D] = Null
  BY <1>3, <1>4 DEF ScratchObjects, Idle
<1>9. kind \notin {"borrow", "select", "writable", "read only"}
  BY DEF Borrowing
<1> HIDE DEF D
<1>10. ControlType'
  <2>1. frame'[D] \in Frame /\ frame'[D] # NoFrame
    <3>1. frame'[D] \in Frame
      BY <1>5, <1>6, <1>7 DEF Frame
    <3>2. frame'[D].kind # NoFrame.kind
      BY <1>7 DEF NoFrame, Borrowing
    <3> QED BY <3>1, <3>2
  <2>2. frame' \in [Frames -> Frame \cup {NoFrame}]
    BY <1>1, <1>3, <1>4, <1>7, <2>1 DEF ControlType, D
  <2>3. depth' \in 0 .. MaxDepth
    BY <1>1, Depths
  <2>4. \A d \in 1 .. depth' : frame'[d] # NoFrame
    BY <1>3, <1>4, <1>7, <2>1 DEF ControlType
  <2> QED BY <1>1, <2>2, <2>3, <2>4 DEF ControlType
<1>11. ExternalsInside'
  <2> SUFFICES ASSUME NEW p \in Objects, handle[p] # Null,
                      native[handle[p]].data \in Externals
               PROVE  /\ p \in 1 .. depth'
                      /\ \E e \in 1 .. p : /\ frame'[e].kind \in {"writable", "read only"}
                                           /\ frame'[e].buffer = native[handle[p]].data
    BY <1>1 DEF ExternalsInside, External
  <2>1. /\ p \in 1 .. depth
        /\ \E e \in 1 .. p : External(e) /\ frame[e].buffer = native[handle[p]].data
    BY <1>3 DEF CallbackInv, ExternalsInside
  <2>2. 1 .. p \subseteq 1 .. depth
    BY <2>1, Depths
  <2> QED BY <1>4, <1>7, <2>1, <2>2 DEF External
<1>12. LeasesStay'
  BY <1>1, <1>3, <1>4, <1>7, <1>9 DEF CallbackInv, LeasesStay
<1>13. AllFlagsAgree'
  BY <1>1, <1>3, <1>4, <1>7, <1>8 DEF CallbackInv, AllFlagsAgree
<1>14. LentHeadersStay'
  <2>1. kind = "output" =>
           handle[o] # Null /\ native[handle[o]].live /\ ~ native[handle[o]].temp
    BY <1>2, <1>5 DEF mat_resolve_output, Temporary, Sane
  <2> QED BY <1>1, <1>3, <1>4, <1>7, <2>1 DEF CallbackInv, LentHeadersStay
<1>15. SubjectsOuter'
  <2>1. D - 1 = depth
    BY Depths DEF D
  <2>2. \A d \in 1 .. depth : 1 .. d - 1 \subseteq 1 .. depth
    BY Depths
  <2>3. frame'[D].subject \in Vars \cup {e \in 1 .. D - 1 :
                  frame'[e].kind \in {"writable", "read only"} \/ frame'[e].kind = "select"}
    BY <1>5, <1>7, <2>1 DEF External
  <2>4. \A d \in 1 .. depth :
           IF frame'[d].kind \in Borrowing
           THEN frame'[d].subject \in Vars \cup {e \in 1 .. d - 1 :
                  frame'[e].kind \in {"writable", "read only"} \/ frame'[e].kind = "select"}
           ELSE frame'[d].subject = Nobody
    <3> TAKE d \in 1 .. depth
    <3>1. frame'[d] = frame[d] /\ \A e \in 1 .. d - 1 : frame'[e] = frame[e]
      BY <1>7, <2>2
    <3>2. IF frame[d].kind \in Borrowing
          THEN frame[d].subject \in Vars \cup {e \in 1 .. d - 1 :
                                       External(e) \/ frame[e].kind = "select"}
          ELSE frame[d].subject = Nobody
      BY <1>3 DEF CallbackInv, SubjectsOuter
    <3>3. {e \in 1 .. d - 1 : External(e) \/ frame[e].kind = "select"}
            \subseteq {e \in 1 .. d - 1 : \/ frame'[e].kind \in {"writable", "read only"}
                                        \/ frame'[e].kind = "select"}
      BY <3>1 DEF External
    <3> QED BY <3>1, <3>2, <3>3
  <2> QED BY <1>4, <1>7, <2>3, <2>4 DEF SubjectsOuter, External
<1>16. ScratchObjects'
  BY <1>1, <1>3, <1>4 DEF ScratchObjects, Idle
<1>17. OperandsInReach'
  BY <1>1 DEF OperandsInReach, Idle, Functions
<1> QED BY <1>1, <1>2, <1>10, <1>11, <1>12, <1>13, <1>14, <1>15, <1>16, <1>17,
        Assemble DEF CallbackInv

\* The end of the innermost callback: its object goes, and whatever addressed
\* its array belonged to it or to a callback inside it.
LEMMA LeaveStep ==
    ASSUME IInv, Leave PROVE IInv'
<1>1. doing = Idle /\ doing' = Idle /\ depth > 0 /\ depth' = depth - 1
      /\ Finalize(depth) /\ frame' = [frame EXCEPT ![depth] = NoFrame]
  BY DEF Leave
<1>2. /\ depth \in Frames /\ depth \in Objects /\ depth \in 1 .. depth
      /\ depth' \in 0 .. MaxDepth
      /\ 1 .. depth' = (1 .. depth) \ {depth}
      /\ 1 .. depth \subseteq Objects
  BY <1>1, Depths DEF Frames
<1>3. Touches({depth}) /\ handle'[depth] = Null
  BY <1>1, <1>2, FinalizeTouches
<1>4. ControlType /\ CallbackInv /\ ScratchObjects
  BY InvControl DEF IInv
<1>5. /\ frame' \in [Frames -> Frame \cup {NoFrame}]
      /\ \A d \in 1 .. depth' : frame'[d] = frame[d]
  BY <1>1, <1>2, <1>4 DEF ControlType
<1>6. ControlType'
  BY <1>1, <1>2, <1>4, <1>5 DEF ControlType
<1>7. \A o \in Objects \ {depth} :
         /\ Kept(native, handle, native', handle', o)
         /\ flag'[o] = flag[o]
  BY <1>3 DEF Touches
<1>8. ExternalsInside'
  <2> SUFFICES ASSUME NEW o \in Objects, handle'[o] # Null,
                      native'[handle'[o]].data \in Externals
               PROVE  /\ o \in 1 .. depth'
                      /\ \E e \in 1 .. o : /\ frame'[e].kind \in {"writable", "read only"}
                                           /\ frame'[e].buffer = native'[handle'[o]].data
    BY DEF ExternalsInside, External
  <2>1. o # depth /\ handle[o] # Null /\ native'[handle'[o]] = native[handle[o]]
    BY <1>3, <1>7 DEF Kept
  <2>2. /\ o \in 1 .. depth
        /\ \E e \in 1 .. o : External(e) /\ frame[e].buffer = native'[handle'[o]].data
    BY <1>4, <2>1 DEF CallbackInv, ExternalsInside
  <2>3. o \in 1 .. depth' /\ 1 .. o \subseteq 1 .. depth'
    BY <1>1, <1>2, <2>1, <2>2, Depths
  <2> QED BY <1>5, <2>2, <2>3 DEF External
<1>9. LeasesStay'
  BY <1>2, <1>4, <1>5, <1>7 DEF CallbackInv, LeasesStay, Kept
<1>10. AllFlagsAgree'
  <2> SUFFICES ASSUME NEW o \in Objects, handle'[o] # Null,
                      ~ (o \in 1 .. depth' /\ frame'[o].kind = "borrow")
               PROVE  flag'[o] = native'[handle'[o]].temp
    BY DEF AllFlagsAgree
  <2>1. o # depth /\ Kept(native, handle, native', handle', o) /\ flag'[o] = flag[o]
    BY <1>3, <1>7
  <2> QED BY <1>2, <1>4, <1>5, <2>1 DEF CallbackInv, AllFlagsAgree, Kept
<1>11. LentHeadersStay'
  <2>1. \A d \in 1 .. depth' : frame[d].kind \in Borrowing =>
           Kept(native, handle, native', handle', frame[d].subject)
    <3> SUFFICES ASSUME NEW d \in 1 .. depth', frame[d].kind \in Borrowing
                 PROVE  frame[d].subject \in Objects \ {depth}
      BY <1>7
    <3>1. frame[d].subject \in Vars \cup 1 .. d - 1
      BY <1>2, <1>4 DEF CallbackInv, SubjectsOuter
    <3>2. depth \notin 1 .. d - 1 /\ 1 .. d - 1 \subseteq 1 .. depth
      BY <1>1, Depths
    <3> QED BY <1>2, <3>1, <3>2, Depths, ObjectsAssumption
  <2> QED BY <1>2, <1>4, <1>5, <2>1 DEF CallbackInv, LentHeadersStay, Kept
<1>12. SubjectsOuter'
  <2>1. \A d \in 1 .. depth' : 1 .. d - 1 \subseteq 1 .. depth'
    BY <1>1, Depths
  <2> QED BY <1>2, <1>4, <1>5, <2>1 DEF CallbackInv, SubjectsOuter, External
<1>13. ScratchObjects'
  BY <1>1, <1>2, <1>3, <1>4, <1>7 DEF ScratchObjects, Kept, Idle
<1>14. OperandsInReach'
  BY <1>1 DEF OperandsInReach, Idle, Functions
<1> QED BY <1>3, <1>6, <1>8, <1>9, <1>10, <1>11, <1>12, <1>13, <1>14, Assemble
     DEF Touches, CallbackInv

(***************************************************************************)
(* Part 5: the theorems.                                                   *)
(***************************************************************************)
\* The program starts with no wrapper and no object that has one.
LEMMA InitInv == Init => IInv
<1> SUFFICES ASSUME Init PROVE IInv
  OBVIOUS
<1> USE DEF Init
<1>1. \A w \in Wrappers : native[w] = Freed /\ ~ native[w].live
  BY DEF Freed
<1>2. 1 .. depth = {}
  BY ObjectsAssumption
<1>3. doing = Idle /\ doing.step = "idle" /\ doing.call = "none"
  BY DEF Idle
<1>4. \A o \in Objects : handle[o] = Null
  OBVIOUS
<1>5. TypeOK
  <2>1. Freed \in Wrapper
    BY DEF Freed, Wrapper
  <2>2. native \in [Wrappers -> Wrapper]
    BY <2>1
  <2> QED BY <1>2, <1>3, <2>2, ObjectsAssumption DEF TypeOK, NativeType
<1>6. OperandsInReach
  BY <1>3 DEF OperandsInReach, Functions
<1> QED BY <1>1, <1>2, <1>4, <1>5, <1>6
     DEF IInv, HeadersCounted, OneOwner, ScratchObjects, ExternalsInside,
         LeasesStay, AllFlagsAgree, LentHeadersStay, SubjectsOuter

\* A step that changes nothing preserves the invariant.
LEMMA StutterStep == IInv /\ UNCHANGED vars => IInv'
<1> SUFFICES ASSUME IInv, UNCHANGED vars PROVE IInv'
  OBVIOUS
<1>1. /\ native' = native /\ handle' = handle /\ flag' = flag
      /\ depth' = depth /\ frame' = frame /\ doing' = doing
  BY DEF vars
<1>2. Sane(native, handle)' /\ (flag \in [Objects -> BOOLEAN])'
  BY <1>1, InvIsSane
<1>3. ControlType' /\ CallbackInv'
  BY <1>1, InvControl
     DEF ControlType, CallbackInv, ExternalsInside, LeasesStay, AllFlagsAgree,
         LentHeadersStay, SubjectsOuter, External
<1>4. ScratchObjects' /\ OperandsInReach'
  BY <1>1 DEF IInv, ScratchObjects, OperandsInReach, Building, Writable, Readable,
              External, LentToModule
<1> QED BY <1>2, <1>3, <1>4, Assemble

\* Every step of the machine preserves the invariant.
LEMMA NextStep == IInv /\ [Next]_vars => IInv'
<1> SUFFICES ASSUME IInv, [Next]_vars PROVE IInv'
  OBVIOUS
<1>1. ASSUME NEW v \in Vars, Declare(v) PROVE IInv'
  BY <1>1, DeclareStep
<1>2. ASSUME NEW v \in Vars, LeaveScope(v) PROVE IInv'
  BY <1>2, LeaveScopeStep
<1>3. ASSUME NEW target \in Writable, Create(target) PROVE IInv'
  BY <1>3, CallStep DEF Create, Functions
<1>4. ASSUME NEW source \in Readable, NEW target \in Writable, Assign(target, source)
      PROVE  IInv'
  BY <1>4, AssignStep
<1>5. ASSUME NEW source \in Readable, NEW target \in Writable, Clone(source, target)
      PROVE  IInv'
  BY <1>5, CallStep DEF Clone, Functions
<1>6. ASSUME NEW source \in Readable, NEW target \in Writable, View(source, target)
      PROVE  IInv'
  BY <1>6, CallStep DEF View, Functions
<1>7. ASSUME NEW source \in Readable, NEW target \in Writable, Copy_To(source, target)
      PROVE  IInv'
  <2>1. target \in Objects \ Leases
    BY Reach
  <2>2. handle[target] # Null /\ native' \in OutputArrays(native, handle[target])
    BY <1>7 DEF Copy_To, mat_copy_to, OutputArrays
  <2> QED BY <1>7, <2>1, <2>2, OutputStep DEF Copy_To
<1>8. ASSUME NEW source \in Readable, NEW target \in Writable,
             Operate_Into(source, target)
      PROVE  IInv'
  <2>1. target \in Objects \ Leases
    BY Reach
  <2>2. handle[target] # Null /\ native' \in OutputArrays(native, handle[target])
    BY <1>8 DEF Operate_Into, mat_into
  <2> QED BY <1>8, <2>1, <2>2, OutputStep DEF Operate_Into
<1>9. CASE Fail
  BY <1>9, FailStep
<1>10. CASE Build
  BY <1>10, BuildStep
<1>11. CASE Return
  BY <1>11, ReturnStep
<1>12. CASE AssignResult
  BY <1>12, AssignResultStep
<1>13. ASSUME NEW source \in Writable, With_Selected_View(source) PROVE IInv'
  <2>1. source \in Readable
    BY Reach
  <2> QED BY <1>13, <2>1, PrepareStep DEF With_Selected_View, Callbacks
<1>14. ASSUME NEW buffer \in Externals, With_Writable_Mat_View(buffer) PROVE IInv'
  BY <1>14, PrepareStep DEF With_Writable_Mat_View, Callbacks
<1>15. ASSUME NEW buffer \in Externals, With_Read_Only_Mat_View(buffer) PROVE IInv'
  BY <1>15, PrepareStep DEF With_Read_Only_Mat_View, Callbacks
<1>16. ASSUME NEW source \in Readable, With_Row(source) PROVE IInv'
  BY <1>16, PrepareStep DEF With_Row, Callbacks
<1>17. ASSUME NEW source \in Readable, With_Input_Handle(source) PROVE IInv'
  BY <1>17, LendStep DEF With_Input_Handle, Borrowing
<1>18. ASSUME NEW o \in Writable, With_Output_Handle(o) PROVE IInv'
  <2>1. o \in Readable
    BY Reach
  <2> QED BY <1>18, <2>1, LendStep DEF With_Output_Handle, Borrowing
<1>19. ASSUME NEW d \in 1 .. depth, ModuleOutput(d) PROVE IInv'
  <2>1. /\ frame[d].subject \in Readable
        /\ handle[frame[d].subject] = frame[d].wrapper
        /\ frame[d].wrapper # Null
    <3>1. /\ frame[d].kind = "output"
          /\ LentHeadersStay /\ SubjectsOuter
          /\ 1 .. d - 1 \subseteq 1 .. depth
      BY <1>19, Depths DEF ModuleOutput, IInv
    <3> QED BY <3>1 DEF LentHeadersStay, SubjectsOuter, Borrowing, Readable
  <2>2. frame[d].subject \in Objects \ Leases
    BY <2>1, Reach
  <2>3. native' \in OutputArrays(native, handle[frame[d].subject])
    BY <1>19, <2>1 DEF ModuleOutput
  <2> QED BY <1>19, <2>1, <2>2, <2>3, OutputStep DEF ModuleOutput
<1>20. CASE Enter
  BY <1>20, EnterStep
<1>21. CASE Leave
  BY <1>21, LeaveStep
<1>22. CASE UNCHANGED vars
  BY <1>22, StutterStep
<1> QED BY <1>1, <1>2, <1>3, <1>4, <1>5, <1>6, <1>7, <1>8, <1>9, <1>10, <1>11, <1>12,
        <1>13, <1>14, <1>15, <1>16, <1>17, <1>18, <1>19, <1>20, <1>21, <1>22 DEF Next, GuardedNext

\* The inductive invariant holds in every behaviour: of any number of
\* variables, wrappers and allocations, and at any depth of callbacks.
THEOREM InvariantHolds == Spec => []IInv
<1> QED BY InitInv, NextStep, PTL DEF Spec

\* Handles, flags, callbacks and native headers always have their types.
THEOREM TypeCorrect == Spec => []TypeOK
<1>1. IInv => TypeOK
  BY DEF IInv
<1> QED BY <1>1, InvariantHolds, PTL

\* No Mat shares its wrapper with another or holds one that was deleted, so
\* delete runs at most once for each, whichever copy or callback fails.
THEOREM Ownership == Spec => []OneOwner
<1>1. IInv => OneOwner
  BY DEF IInv
<1> QED BY <1>1, InvariantHolds, PTL

\* Every live wrapper has an Ada owner, and between two operations that owner
\* is one of the client's: no exceptional path leaks.
THEOREM Leakless == Spec => []NoLeak
<1>1. IInv => NoLeak
  BY DEF IInv, ScratchObjects, NoLeak, Idle
<1> QED BY <1>1, InvariantHolds, PTL

\* A header of OpenCV's pixels always addresses an allocation that is held.
THEOREM HeadersDoNotDangle == Spec => []NoDanglingHeader
<1>1. IInv => NoDanglingHeader
  BY DEF IInv, HeadersCounted, NoDanglingHeader, Held, Holds
<1> QED BY <1>1, InvariantHolds, PTL

\* A caller's array is addressed only while the callback it was given to runs.
THEOREM ExternalsDoNotEscape == Spec => []NoEscape
<1>1. IInv => NoEscape
  <2> SUFFICES ASSUME IInv, NEW w \in Wrappers, native[w].live,
                      native[w].data \in Externals
               PROVE  \E d \in 1 .. depth : External(d) /\ frame[d].buffer = native[w].data
    BY DEF NoEscape
  <2>1. PICK o \in Objects : handle[o] = w
    BY DEF IInv
  <2>2. handle[o] # Null
    BY <2>1, NativeAssumption
  <2>3. /\ o \in 1 .. depth
        /\ \E e \in 1 .. o : External(e) /\ frame[e].buffer = native[w].data
    BY <2>1, <2>2 DEF IInv, ExternalsInside
  <2>4. 1 .. o \subseteq 1 .. depth
    BY <2>3, Depths
  <2> QED BY <2>3, <2>4
<1> QED BY <1>1, InvariantHolds, PTL

\* The pixels lent to a row or buffer callback outlive the callback.
THEOREM BorrowedPixelsLast == Spec => []BorrowedPixelsStay
<1>1. IInv => BorrowedPixelsStay
  <2> SUFFICES ASSUME IInv, NEW d \in 1 .. depth, frame[d].kind = "borrow"
               PROVE  /\ frame[d].buffer \in Storages => Held(native, frame[d].buffer)
                      /\ frame[d].buffer \in Externals =>
                            \E e \in 1 .. d - 1 :
                               External(e) /\ frame[e].buffer = frame[d].buffer
    BY DEF BorrowedPixelsStay
  <2>1. /\ d \in Objects /\ handle[d] # Null
        /\ native[handle[d]].data = frame[d].buffer
    BY Depths DEF IInv, LeasesStay
  <2>2. handle[d] \in Wrappers /\ native[handle[d]].live
    BY <2>1 DEF IInv, TypeOK, OneOwner
  <2>3. frame[d].buffer \in Storages => Held(native, frame[d].buffer)
    BY <2>1, <2>2 DEF IInv, HeadersCounted, Held, Holds
  <2>4. ASSUME frame[d].buffer \in Externals
        PROVE  \E e \in 1 .. d - 1 : External(e) /\ frame[e].buffer = frame[d].buffer
    <3>1. PICK e \in 1 .. d : External(e) /\ frame[e].buffer = frame[d].buffer
      BY <2>1, <2>4 DEF IInv, ExternalsInside
    <3>2. e # d
      BY <3>1 DEF External
    <3>3. e \in 1 .. d - 1
      BY <3>2, Depths
    <3> QED BY <3>1, <3>3
  <2> QED BY <2>3, <2>4
<1> QED BY <1>1, InvariantHolds, PTL

\* The temporary flag of a client's Mat is the flag of its header.
THEOREM FlagsCorrect == Spec => []FlagsAgree
<1>1. IInv => FlagsAgree
  <2> SUFFICES ASSUME IInv, NEW o \in Vars \cup Readable
               PROVE  o \in Objects \ Leases
    BY DEF IInv, AllFlagsAgree, FlagsAgree, Leases
  <2> QED BY Depths, Reach, ObjectsAssumption DEF Leases
<1> QED BY <1>1, InvariantHolds, PTL

\* A header lent to a module stays its Mat's, and an output is no temporary view.
THEOREM LentHeadersLast == Spec => []LentHeadersStay
<1>1. IInv => LentHeadersStay
  BY DEF IInv
<1> QED BY <1>1, InvariantHolds, PTL
=============================================================================
