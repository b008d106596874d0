-------------------------- MODULE SparseMatsProofs --------------------------
(***************************************************************************)
(* Theorems about SparseMats, for any number of objects, tables, positions *)
(* and nested traversals: every table counts its holders, the tables with  *)
(* their counts and iterators implement the collections and traversals of  *)
(* module StoredElements, and reads give what those have stored.           *)
(*                                                                         *)
(* Every operation has one of five shapes: an object is given another      *)
(* table (Naming), the nodes of a table change (Changing), a traversal     *)
(* begins (Beginning), goes on (GoingOn) or ends (Ending).  The invariant  *)
(* and the refinement are proved for the shapes.                           *)
(***************************************************************************)
EXTENDS SparseMats, FiniteSetTheorems, TLAPS

-----------------------------------------------------------------------------
(***************************************************************************)
(* Numbers, sequences and stores.                                          *)
(***************************************************************************)
\* A nonempty set of naturals with a bound has a least element.
LEMMA LeastElement ==
    ASSUME NEW n \in Nat, NEW T \in SUBSET (0 .. n), T # {}
    PROVE  Min(T) \in T /\ \A y \in T : Min(T) <= y
<1> DEFINE Down(x) == {y \in T : y <= x}
           Downs == {Down(x) : x \in T}
<1>1. IsFiniteSet(T)
  <2>1. IsFiniteSet(0 .. n)
        BY FS_Interval
  <2> QED  BY <2>1, FS_Subset
<1>2. Downs \subseteq FiniteSubsetsOf(T) /\ Downs # {}
  <2>1. \A x \in T : Down(x) \in SUBSET T /\ IsFiniteSet(Down(x))
    <3> TAKE x \in T
    <3>1. Down(x) \in SUBSET T
          OBVIOUS
    <3> QED  BY <1>1, <3>1, FS_Subset
  <2> QED  BY <2>1 DEF FiniteSubsetsOf
<1>3. IsWellFoundedOn(StrictSubsetOrdering(T), FiniteSubsetsOf(T))
      BY FS_StrictSubsetOrderingWellFounded
<1> HIDE DEF Downs
<1>4. PICK least \in Downs : \A d \in Downs : <<d, least>> \notin StrictSubsetOrdering(T)
      BY <1>2, <1>3, WFMin
<1>5. PICK x \in T : least = Down(x)
      BY DEF Downs
<1>6. \A y \in T : x <= y
  <2> SUFFICES ASSUME NEW y \in T, y < x PROVE FALSE
      OBVIOUS
  <2>1. Down(y) \in Downs
        BY DEF Downs
  <2>2. x \in Nat /\ y \in Nat /\ \A z \in T : z \in Nat
        OBVIOUS
  <2>3. Down(y) \subseteq Down(x) /\ x \notin Down(y) /\ x \in Down(x)
    <3>1. \A z \in Down(y) : z \in T /\ z <= x
          BY <2>2
    <3>2. ~ (x <= y) /\ x <= x
          BY <2>2
    <3> QED  BY <3>1, <3>2
  <2>4. <<Down(y), Down(x)>> \in StrictSubsetOrdering(T)
        BY <2>3 DEF StrictSubsetOrdering
  <2> QED  BY <1>4, <1>5, <2>1, <2>4
<1> QED  BY <1>6 DEF Min

LEMMA SequenceOf ==
    ASSUME NEW S, NEW s \in Seq(S)
    PROVE  /\ Len(s) \in Nat /\ DOMAIN s = 1 .. Len(s)
           /\ \A d \in DOMAIN s : s[d] \in S
OBVIOUS

LEMMA AppendOf ==
    ASSUME NEW S, NEW s \in Seq(S), NEW e \in S
    PROVE  /\ Append(s, e) \in Seq(S) /\ Len(Append(s, e)) = Len(s) + 1
           /\ DOMAIN Append(s, e) = 1 .. Len(s) + 1
           /\ Append(s, e)[Len(s) + 1] = e
           /\ \A d \in 1 .. Len(s) : Append(s, e)[d] = s[d]
OBVIOUS

LEMMA FrontOf ==
    ASSUME NEW S, NEW s \in Seq(S), s # << >>
    PROVE  /\ Front(s) \in Seq(S) /\ Len(Front(s)) = Len(s) - 1
           /\ DOMAIN Front(s) = 1 .. Len(s) - 1
           /\ \A d \in 1 .. Len(s) - 1 : Front(s)[d] = s[d]
           /\ Len(s) \in Nat \ {0}
<1> DEFINE n == Len(s) - 1
<1>1. n \in Nat /\ n <= Len(s)
      OBVIOUS
<1> HIDE DEF n
<1>2. Len(SubSeq(s, 1, n)) = n
      BY <1>1
<1>3. \A d \in 1 .. n : SubSeq(s, 1, n)[d] = s[d]
      BY <1>1
<1>4. SubSeq(s, 1, n) \in Seq(S)
      BY <1>1
<1>5. Len(s) \in Nat \ {0}
      OBVIOUS
<1> QED  BY <1>1, <1>2, <1>3, <1>4, <1>5 DEF Front, n

\* The last element replaced.
LEMMA ReplacedOf ==
    ASSUME NEW S, NEW s \in Seq(S), s # << >>, NEW e \in S
    PROVE  /\ Append(Front(s), e) \in Seq(S) /\ Len(Append(Front(s), e)) = Len(s)
           /\ DOMAIN Append(Front(s), e) = DOMAIN s
           /\ Append(Front(s), e)[Len(s)] = e
           /\ \A d \in 1 .. Len(s) - 1 : Append(Front(s), e)[d] = s[d]
<1>1. /\ Front(s) \in Seq(S) /\ Len(Front(s)) = Len(s) - 1
      /\ \A d \in 1 .. Len(s) - 1 : Front(s)[d] = s[d]
      /\ Len(s) \in Nat \ {0} /\ DOMAIN s = 1 .. Len(s)
      BY FrontOf
<1>2. /\ Append(Front(s), e) \in Seq(S) /\ Len(Append(Front(s), e)) = Len(Front(s)) + 1
      /\ DOMAIN Append(Front(s), e) = 1 .. Len(Front(s)) + 1
      /\ Append(Front(s), e)[Len(Front(s)) + 1] = e
      /\ \A d \in 1 .. Len(Front(s)) : Append(Front(s), e)[d] = Front(s)[d]
      BY <1>1, AppendOf
<1>3. Len(Front(s)) + 1 = Len(s)
      BY <1>1
<1> QED  BY <1>1, <1>2, <1>3

LEMMA StoreIs ==
    ASSUME NEW s
    PROVE  s \in Stores <=> DOMAIN s \subseteq Indices /\ s \in [DOMAIN s -> Values]
BY DEF Stores

-----------------------------------------------------------------------------
(***************************************************************************)
(* The invariant.                                                          *)
(***************************************************************************)
Frame == [owner : Tables, current : 0 .. Extent, visiting : Visits \cup {Nothing}]

Types ==
    /\ handle \in [Vars -> Tables \cup {Unallocated, NoHandle}]
    /\ refcount \in [Tables -> Nat]
    /\ table \in [Tables -> Contents \cup {Freed}]
    /\ frames \in Seq(Frame) /\ Len(frames) <= MaxDepth

\* There is a table exactly while somebody refers to it.
Living == \A t \in Tables : table[t] = Freed <=> refcount[t] = 0

\* An iterator that is not at the end is at a node.
InPlace ==
    \A d \in DOMAIN frames :
        frames[d].current = Extent \/ frames[d].current \in DOMAIN Node(frames[d].owner)

IInv == Types /\ HoldersCounted /\ Living /\ InPlace

LEMMA TypesAreTypeOK == Types => TypeOK
<1> SUFFICES ASSUME Types PROVE TypeOK
    OBVIOUS
<1>1. frames \in [1 .. Len(frames) -> Frame] /\ Len(frames) \in 0 .. MaxDepth
      BY SparseAssumption DEF Types
<1>2. frames \in BoundedSeq(Frame, MaxDepth)
      BY <1>1 DEF BoundedSeq, SeqOf
<1> QED  BY <1>2 DEF Types, TypeOK, Frame

Users(h, t) == {v \in Vars : h[v] = t}
Levels(f, t) == {d \in DOMAIN f : f[d].owner = t}

\* Both are finite.
LEMMA UsersFinite ==
    ASSUME NEW h, NEW t
    PROVE  IsFiniteSet(Users(h, t)) /\ Cardinality(Users(h, t)) \in Nat
BY FS_Subset, FS_CardinalityType, SparseAssumption DEF Users

LEMMA LevelsFinite ==
    ASSUME NEW f \in Seq(Frame), NEW t
    PROVE  IsFiniteSet(Levels(f, t)) /\ Cardinality(Levels(f, t)) \in Nat
<1>1. DOMAIN f = 1 .. Len(f) /\ IsFiniteSet(1 .. Len(f))
      BY FS_Interval
<1>2. Levels(f, t) \in SUBSET (1 .. Len(f))
      BY <1>1 DEF Levels
<1> QED  BY <1>1, <1>2, FS_Subset, FS_CardinalityType

Counted(h, c, f) ==
    \A t \in Tables : c[t] = Cardinality(Users(h, t)) + Cardinality(Levels(f, t))

LEMMA CountedIsHoldersCounted == HoldersCounted <=> Counted(handle, refcount, frames)
BY DEF HoldersCounted, Counted, Users, Levels

\* What an object names, and what an iterator owns, is there.
LEMMA HeldIsThere ==
    ASSUME IInv, NEW v \in Vars, handle[v] \in Tables
    PROVE  refcount[handle[v]] # 0 /\ table[handle[v]] \in Contents
<1>1. v \in Users(handle, handle[v]) /\ frames \in Seq(Frame)
      BY DEF Users, IInv, Types
<1>2. Cardinality(Users(handle, handle[v])) \in Nat \ {0}
      BY <1>1, UsersFinite, FS_EmptySet
<1>3. refcount[handle[v]] # 0
      BY <1>1, <1>2, LevelsFinite, CountedIsHoldersCounted DEF IInv, Counted
<1> QED  BY <1>3 DEF IInv, Types, Living

LEMMA OwnedIsThere ==
    ASSUME IInv, NEW d \in DOMAIN frames
    PROVE  /\ frames[d] \in Frame /\ frames[d].owner \in Tables
           /\ refcount[frames[d].owner] # 0 /\ table[frames[d].owner] \in Contents
<1> DEFINE t == frames[d].owner
<1>1. frames \in Seq(Frame) /\ frames[d] \in Frame
      BY SequenceOf DEF IInv, Types
<1>2. t \in Tables
      BY <1>1 DEF Frame
<1>3. d \in Levels(frames, t)
      BY DEF Levels
<1>4. Cardinality(Levels(frames, t)) \in Nat \ {0}
      BY <1>1, <1>3, LevelsFinite, FS_EmptySet
<1>5. refcount[t] # 0
      BY <1>2, <1>4, UsersFinite, CountedIsHoldersCounted DEF IInv, Counted
<1> QED  BY <1>1, <1>2, <1>5 DEF IInv, Types, Living

\* The nodes of a table that exists.
LEMMA NodesOf ==
    ASSUME NEW t \in Tables, table[t] \in Contents
    PROVE  /\ DOMAIN Node(t) \subseteq Indices /\ Node(t) \in Stores
           /\ \A i \in DOMAIN Node(t) : Node(t)[i] \in Values
           /\ table[t].layout \in Layouts
           /\ table[t] = [layout |-> table[t].layout, node |-> Node(t)]
<1>1. Node(t) \in Stores /\ table[t].layout \in Layouts
      /\ table[t] = [layout |-> table[t].layout, node |-> Node(t)]
      BY DEF Node, Contents
<1> QED  BY <1>1, StoreIs

\* Seek finds the first node at or behind a position, or the end.
LEMMA SeekFinds ==
    ASSUME NEW t \in Tables, table[t] \in Contents, NEW from \in Nat
    PROVE  /\ Seek(t, from) \in 0 .. Extent
           /\ Seek(t, from) = Extent \/ Seek(t, from) \in DOMAIN Node(t)
           /\ \A i \in DOMAIN Node(t) : i >= from <=> i >= Seek(t, from)
<1> DEFINE behind == {i \in DOMAIN Node(t) : i >= from}
<1>1. DOMAIN Node(t) \subseteq Indices
      BY NodesOf
<1>2. CASE behind = {}
  <2>1. Seek(t, from) = Extent
        BY <1>2 DEF Seek
  <2>2. \A i \in DOMAIN Node(t) : ~ (i >= from) /\ ~ (i >= Extent)
        BY <1>1, <1>2, SparseAssumption DEF Indices
  <2> QED  BY <2>1, <2>2, SparseAssumption
<1>3. CASE behind # {}
  <2>1. behind \in SUBSET (0 .. Extent)
        BY <1>1, SparseAssumption DEF Indices
  <2>2. Min(behind) \in behind /\ \A i \in behind : Min(behind) <= i
        BY <1>3, <2>1, LeastElement, SparseAssumption
  <2>3. Seek(t, from) = Min(behind)
        BY <1>3 DEF Seek
  <2>4. Min(behind) \in DOMAIN Node(t) /\ Min(behind) >= from /\ Min(behind) \in Nat
        BY <2>1, <2>2
  <2>5. \A i \in DOMAIN Node(t) : i \in Nat
        BY <1>1, SparseAssumption DEF Indices
  <2>6. \A i \in DOMAIN Node(t) : i >= from <=> i >= Min(behind)
        BY <2>2, <2>4, <2>5
  <2> QED  BY <2>1, <2>2, <2>3, <2>4, <2>6
<1> QED  BY <1>2, <1>3

-----------------------------------------------------------------------------
(***************************************************************************)
(* The shapes of a step.                                                   *)
(***************************************************************************)
\* Object v is given another table, or none.
Named(v, new, contents) ==
    /\ handle' = [handle EXCEPT ![v] = new]
    /\ refcount' = Shifted(new, handle[v])
    /\ table' = Settled(contents)
    /\ UNCHANGED frames

\* The tables before the step, or one more.
Supplied(contents) ==
    \/ contents = table
    \/ \E fresh \in Free, new \in Contents : contents = [table EXCEPT ![fresh] = new]

Naming ==
    \E v \in Vars, new \in Tables \cup {Unallocated, NoHandle},
       contents \in [Tables -> Contents \cup {Freed}] :
        /\ Supplied(contents)
        /\ new \in Tables => contents[new] # Freed
        /\ Named(v, new, contents)

\* The nodes of the table of v change, which there are only outside traversals.
Changing ==
    \E v \in Vars, node \in Stores :
        /\ handle[v] \in Tables
        /\ Traversed(handle[v]) => DOMAIN node = DOMAIN Node(handle[v])
        /\ SetNode(handle[v], node)

LEMMA SentinelsOutside ==
    /\ Unallocated \notin Tables /\ NoHandle \notin Tables /\ Nothing \notin Tables
BY SparseAssumption

LEMMA ShiftedOutside ==
    ASSUME NEW more, NEW other, NEW less, more \notin Tables, other \notin Tables
    PROVE  Shifted(more, less) = Shifted(other, less)
BY DEF Shifted

LEMMA FreshIsFree ==
    ASSUME Free # {}
    PROVE  Fresh \in Free /\ Fresh \in Tables
BY DEF Fresh, Free

\* "V := ..." leaves v with the source's table or without a wrapper.
LEMMA AssignedNames ==
    ASSUME IInv, NEW v \in Vars, NEW source \in Tables \cup {Unallocated, NoHandle},
           NEW contents \in [Tables -> Contents \cup {Freed}], Supplied(contents),
           source \in Tables => contents[source] # Freed,
           Assigned(v, source, contents)
    PROVE  Naming
<1>1. PICK copy \in Adjust(source) :
         /\ handle' = [handle EXCEPT ![v] = copy.holds]
         /\ refcount' = Shifted(copy.counted, handle[v])
         /\ table' = Settled(contents) /\ UNCHANGED frames
      BY DEF Assigned
<1>2. CASE copy = [holds |-> NoHandle, counted |-> Unallocated]
  <2>1. copy.holds = NoHandle /\ copy.counted = Unallocated
        BY <1>2
  <2>2. refcount' = Shifted(NoHandle, handle[v])
        BY <1>1, <2>1, ShiftedOutside, SentinelsOutside
  <2>3. Named(v, NoHandle, contents)
        BY <1>1, <2>1, <2>2 DEF Named
  <2> QED  BY <2>3, SentinelsOutside DEF Naming
<1>3. CASE copy = [holds |-> source, counted |-> source]
  <2>1. copy.holds = source /\ copy.counted = source
        BY <1>3
  <2>2. Named(v, source, contents)
        BY <1>1, <2>1 DEF Named
  <2> QED  BY <2>2 DEF Naming
<1> QED  BY <1>1, <1>2, <1>3 DEF Adjust

LEMMA ReturnedNames ==
    ASSUME IInv, NEW v \in Vars, NEW layout \in Layouts, NEW node \in Stores,
           Returned(v, layout, node)
    PROVE  Naming
<1> DEFINE new == [layout |-> layout, node |-> node]
           contents == [table EXCEPT ![Fresh] = new]
<1>1. Fresh \in Free /\ Fresh \in Tables
      BY FreshIsFree DEF Returned
<1>2. new \in Contents /\ new # Freed
      BY SparseAssumption DEF Contents
<1>3. contents \in [Tables -> Contents \cup {Freed}] /\ contents[Fresh] = new
      BY <1>1, <1>2 DEF IInv, Types
<1>4. Supplied(contents)
      BY <1>1, <1>2 DEF Supplied
<1>5. Assigned(v, Fresh, contents)
      BY DEF Returned
<1> HIDE DEF contents, new
<1> QED  BY <1>1, <1>2, <1>3, <1>4, <1>5, AssignedNames

LEMMA EmptyIsAStore == Empty \in Stores
BY StoreIs DEF Empty

LEMMA DenseIsAStore ==
    ASSUME NEW dense \in [Indices -> Values]
    PROVE  OfDense(dense) \in Stores
<1>1. /\ DOMAIN OfDense(dense) \subseteq Indices
      /\ OfDense(dense) = [i \in DOMAIN OfDense(dense) |-> OfDense(dense)[i]]
      /\ \A i \in DOMAIN OfDense(dense) : OfDense(dense)[i] \in Values
      BY DEF OfDense
<1> QED  BY <1>1, StoreIs

LEMMA ScaledIsAStore ==
    ASSUME NEW t \in Tables, table[t] \in Contents, NEW scale \in {0, 1}
    PROVE  Scaled(t, scale) \in Stores
<1>1. \A i \in DOMAIN Node(t) : Node(t)[i] \in Values /\ Node(t)[i] \in Int
      BY NodesOf, SparseAssumption
<1>2. \A i \in DOMAIN Node(t) : scale * Node(t)[i] \in Values
  <2>1. CASE scale = 0
    <3>1. \A i \in DOMAIN Node(t) : 0 * Node(t)[i] = 0
          BY <1>1
    <3> QED  BY <2>1, <3>1, SparseAssumption
  <2>2. CASE scale = 1
    <3>1. \A i \in DOMAIN Node(t) : 1 * Node(t)[i] = Node(t)[i]
          BY <1>1
    <3> QED  BY <1>1, <2>2, <3>1
  <2> QED  BY <2>1, <2>2
<1>3. DOMAIN Node(t) \subseteq Indices
      BY NodesOf
<1>4. /\ DOMAIN Scaled(t, scale) = DOMAIN Node(t)
      /\ Scaled(t, scale) = [i \in DOMAIN Scaled(t, scale) |-> Scaled(t, scale)[i]]
      /\ \A i \in DOMAIN Scaled(t, scale) : Scaled(t, scale)[i] = scale * Node(t)[i]
      BY DEF Scaled
<1>5. \A i \in DOMAIN Scaled(t, scale) : Scaled(t, scale)[i] \in Values
      BY <1>2, <1>4
<1> QED  BY <1>3, <1>4, <1>5, StoreIs

\* Every operation has one of the two shapes: functions and controlled
\* operations name, operations on elements change.
LEMMA SetShape ==
    ASSUME IInv, NEW v \in Vars, NEW i \in 0 .. Extent, NEW value \in Values,
           NEW expected \in Expected, Set(v, i, value, expected)
    PROVE  Changing
<1> DEFINE t == handle[v]
           node == [j \in DOMAIN Node(t) \cup {i} |-> IF j = i THEN value ELSE Node(t)[j]]
<1>1. t \in Tables /\ i \in Indices
      BY SparseAssumption DEF Set, Check_Indices, Is_Allocated, Indices
<1>2. table[t] \in Contents
      BY <1>1, HeldIsThere
<1>3. /\ DOMAIN Node(t) \subseteq Indices /\ \A j \in DOMAIN Node(t) : Node(t)[j] \in Values
      BY <1>1, <1>2, NodesOf
<1>4. node \in Stores
  <2>1. DOMAIN node \subseteq Indices /\ node = [j \in DOMAIN node |-> node[j]]
        /\ \A j \in DOMAIN node : node[j] \in Values
        BY <1>1, <1>3
  <2> HIDE DEF node
  <2> QED  BY <2>1, StoreIs
<1>5. Traversed(t) => DOMAIN node = DOMAIN Node(t)
      BY DEF Set
<1>6. SetNode(t, node)
      BY DEF Set
<1> HIDE DEF node
<1> QED  BY <1>1, <1>4, <1>5, <1>6 DEF Changing

LEMMA EraseShape ==
    ASSUME IInv, NEW v \in Vars, NEW i \in 0 .. Extent, Erase(v, i)
    PROVE  Changing
<1> DEFINE t == handle[v]
           node == [j \in DOMAIN Node(t) \ {i} |-> Node(t)[j]]
<1>1. t \in Tables /\ ~ Traversed(t)
      BY DEF Erase, Check_Indices, Is_Allocated
<1>2. table[t] \in Contents
      BY <1>1, HeldIsThere
<1>3. /\ DOMAIN Node(t) \subseteq Indices /\ \A j \in DOMAIN Node(t) : Node(t)[j] \in Values
      BY <1>1, <1>2, NodesOf
<1>4. node \in Stores
  <2>1. DOMAIN node \subseteq Indices /\ node = [j \in DOMAIN node |-> node[j]]
        /\ \A j \in DOMAIN node : node[j] \in Values
        BY <1>3
  <2> HIDE DEF node
  <2> QED  BY <2>1, StoreIs
<1>5. SetNode(t, node)
      BY DEF Erase
<1> HIDE DEF node
<1> QED  BY <1>1, <1>4, <1>5 DEF Changing

\* A table without other holders is not traversed.
LEMMA OutputShape ==
    ASSUME IInv, NEW v \in Vars, NEW layout \in Layouts, With_Output_Handle(v, layout)
    PROVE  Naming \/ Changing
<1>1. CASE Check_Layout(v, layout) /\ refcount[handle[v]] = 1
  <2> DEFINE t == handle[v]
  <2>1. t \in Tables /\ SetNode(t, Empty)
        BY <1>1 DEF With_Output_Handle, Check_Layout, Is_Allocated
  <2>2. ~ Traversed(t)
    <3> SUFFICES ASSUME Traversed(t) PROVE FALSE
        OBVIOUS
    <3>1. frames \in Seq(Frame)
          BY DEF IInv, Types
    <3>2. v \in Users(handle, t) /\ Levels(frames, t) # {}
          BY DEF Users, Levels, Traversed
    <3>3. Cardinality(Users(handle, t)) \in Nat \ {0}
          BY <3>2, UsersFinite, FS_EmptySet
    <3>4. Cardinality(Levels(frames, t)) \in Nat \ {0}
          BY <3>1, <3>2, LevelsFinite, FS_EmptySet
    <3> QED  BY <1>1, <2>1, <3>3, <3>4, CountedIsHoldersCounted DEF IInv, Counted
  <2> QED  BY <2>1, <2>2, EmptyIsAStore DEF Changing
<1>2. CASE ~ (Check_Layout(v, layout) /\ refcount[handle[v]] = 1)
  <2> DEFINE new == [layout |-> layout, node |-> Empty]
             contents == [table EXCEPT ![Fresh] = new]
  <2>1. Fresh \in Free /\ Fresh \in Tables
        BY <1>2, FreshIsFree DEF With_Output_Handle
  <2>2. new \in Contents /\ new # Freed
        BY EmptyIsAStore, SparseAssumption DEF Contents
  <2>3. contents \in [Tables -> Contents \cup {Freed}] /\ contents[Fresh] = new
        BY <2>1, <2>2 DEF IInv, Types
  <2>4. Supplied(contents)
        BY <2>1, <2>2 DEF Supplied
  <2>5. Named(v, Fresh, contents)
        BY <1>2 DEF With_Output_Handle, Named
  <2> HIDE DEF contents, new
  <2> QED  BY <2>1, <2>2, <2>3, <2>4, <2>5 DEF Naming
<1> QED  BY <1>1, <1>2

LEMMA TheTablesAsTheyAre ==
    ASSUME IInv
    PROVE  table \in [Tables -> Contents \cup {Freed}] /\ Supplied(table)
BY DEF IInv, Types, Supplied

LEMMA CloneShape ==
    ASSUME IInv, NEW v \in Vars, NEW source \in Vars, Clone(v, source)
    PROVE  Naming
<1>1. CASE Is_Allocated(source) /\ Returned(v, table[handle[source]].layout, Node(handle[source]))
  <2>1. table[handle[source]] \in Contents
        BY <1>1, HeldIsThere DEF Is_Allocated
  <2> QED  BY <1>1, <2>1, NodesOf, ReturnedNames DEF Is_Allocated
<1>2. CASE Assigned(v, Unallocated, table)
      BY <1>2, AssignedNames, TheTablesAsTheyAre, SentinelsOutside
<1> QED  BY <1>1, <1>2 DEF Clone

LEMMA OperationShape ==
    ASSUME IInv, Operation
    PROVE  Naming \/ Changing
<1>1. ASSUME NEW v \in Vars, Declare(v)
      PROVE  Naming
  <2>1. Named(v, Unallocated, table)
        BY <1>1 DEF Declare, Named
  <2> QED  BY <2>1, TheTablesAsTheyAre, SentinelsOutside DEF Naming
<1>2. ASSUME NEW v \in Vars, NEW source \in Vars, Assign(v, source)
      PROVE  Naming
  <2>1. handle[source] \in Tables \cup {Unallocated, NoHandle}
        BY DEF IInv, Types
  <2>2. handle[source] \in Tables => table[handle[source]] # Freed
        BY HeldIsThere, SparseAssumption
  <2> QED  BY <1>2, <2>1, <2>2, AssignedNames, TheTablesAsTheyAre DEF Assign
<1>3. ASSUME NEW v \in Vars, NEW layout \in Layouts, Create(v, layout)
      PROVE  Naming
      BY <1>3, ReturnedNames, EmptyIsAStore DEF Create
<1>4. ASSUME NEW v \in Vars, NEW layout \in Layouts, NEW dense \in [Indices -> Values],
             From_Dense(v, layout, dense)
      PROVE  Naming
      BY <1>4, ReturnedNames, DenseIsAStore DEF From_Dense
<1>5. ASSUME NEW v \in Vars, NEW source \in Vars, NEW scale \in {0, 1}, Normalize(v, source, scale)
      PROVE  Naming
  <2>1. table[handle[source]] \in Contents /\ handle[source] \in Tables
        BY <1>5, HeldIsThere DEF Normalize, Is_Allocated
  <2> QED  BY <1>5, <2>1, NodesOf, ReturnedNames, ScaledIsAStore DEF Normalize
<1>6. ASSUME NEW v \in Vars, NEW source \in Vars, NEW layout \in Layouts, NEW scale \in {0, 1},
             Convert_To(v, source, layout, scale)
      PROVE  Naming
  <2>1. table[handle[source]] \in Contents /\ handle[source] \in Tables
        BY <1>6, HeldIsThere DEF Convert_To, Is_Allocated
  <2> QED  BY <1>6, <2>1, ReturnedNames, ScaledIsAStore DEF Convert_To
<1>7. ASSUME NEW v \in Vars, Clear(v)
      PROVE  Changing
      BY <1>7, EmptyIsAStore DEF Clear, Changing, Is_Allocated
<1>8. PICK v \in Vars :
        \/ Declare(v)
        \/ \E source \in Vars : Assign(v, source) \/ Clone(v, source)
        \/ \E layout \in Layouts :
              \/ Create(v, layout)
              \/ With_Output_Handle(v, layout)
              \/ \E dense \in [Indices -> Values] : From_Dense(v, layout, dense)
        \/ \E source \in Vars, scale \in {0, 1} :
              \/ Normalize(v, source, scale)
              \/ \E layout \in Layouts : Convert_To(v, source, layout, scale)
        \/ \E i \in 0 .. Extent : Erase(v, i)
        \/ \E i \in 0 .. Extent, value \in Values, expected \in Expected : Set(v, i, value, expected)
        \/ Clear(v)
      BY DEF Operation
<1> QED  BY <1>1, <1>2, <1>3, <1>4, <1>5, <1>6, <1>7, <1>8,
            CloneShape, OutputShape, EraseShape, SetShape

-----------------------------------------------------------------------------
(***************************************************************************)
(* Counting.                                                               *)
(***************************************************************************)
One(a, b) == IF a = b THEN 1 ELSE 0

LEMMA ShiftedBy ==
    ASSUME NEW more, NEW less, NEW t \in Tables
    PROVE  Shifted(more, less)[t] = refcount[t] + One(t, more) - One(t, less)
BY DEF Shifted, One

\* One object with another table is a user more here and one less there.
LEMMA UsersMoved ==
    ASSUME NEW h, DOMAIN h = Vars, NEW v \in Vars, NEW new, NEW t
    PROVE  Cardinality(Users([h EXCEPT ![v] = new], t))
             = Cardinality(Users(h, t)) + One(t, new) - One(t, h[v])
<1> DEFINE before == Users(h, t)
           after == Users([h EXCEPT ![v] = new], t)
           others == before \ {v}
<1>1. IsFiniteSet(before) /\ Cardinality(before) \in Nat
      BY UsersFinite
<1>2. v \in before <=> t = h[v]
      BY DEF Users
<1>3. after = IF t = new THEN others \cup {v} ELSE others
      BY DEF Users
<1> HIDE DEF before, after
<1>4. IsFiniteSet(others) /\ Cardinality(others) = Cardinality(before) - One(t, h[v])
      BY <1>1, <1>2, FS_RemoveElement DEF One
<1>5. v \notin others
      OBVIOUS
<1> HIDE DEF others
<1>6. ASSUME t = new
      PROVE  Cardinality(after) = Cardinality(before) + One(t, new) - One(t, h[v])
  <2>1. Cardinality(others \cup {v}) = Cardinality(others) + 1
        BY <1>4, <1>5, FS_AddElement
  <2>2. Cardinality(others) = Cardinality(before) - One(t, h[v]) /\ One(t, new) = 1
        BY <1>4, <1>6 DEF One
  <2>3. One(t, h[v]) \in Nat
        BY DEF One
  <2> QED  BY <1>1, <1>3, <1>6, <2>1, <2>2, <2>3
<1>7. ASSUME t # new
      PROVE  Cardinality(after) = Cardinality(before) + One(t, new) - One(t, h[v])
  <2>1. One(t, new) = 0 /\ One(t, h[v]) \in Nat
        BY <1>7 DEF One
  <2> QED  BY <1>1, <1>3, <1>4, <1>7, <2>1
<1> QED  BY <1>6, <1>7 DEF before, after

LEMMA LevelAdded ==
    ASSUME NEW f \in Seq(Frame), NEW e \in Frame, NEW t
    PROVE  Cardinality(Levels(Append(f, e), t)) = Cardinality(Levels(f, t)) + One(t, e.owner)
<1> DEFINE before == Levels(f, t)
           after == Levels(Append(f, e), t)
           last == Len(f) + 1
<1>1. /\ DOMAIN Append(f, e) = 1 .. last /\ DOMAIN f = 1 .. Len(f) /\ Len(f) \in Nat
      /\ Append(f, e)[last] = e /\ \A d \in 1 .. Len(f) : Append(f, e)[d] = f[d]
      BY AppendOf, SequenceOf
<1>2. after = IF t = e.owner THEN before \cup {last} ELSE before
      BY <1>1 DEF Levels
<1>3. last \notin before
      BY <1>1 DEF Levels
<1>4. IsFiniteSet(before) /\ Cardinality(before) \in Nat
      BY LevelsFinite
<1> HIDE DEF before, after, last
<1>5. Cardinality(before \cup {last}) = Cardinality(before) + 1
      BY <1>3, <1>4, FS_AddElement
<1>6. Cardinality(after) = Cardinality(before) + One(t, e.owner)
      BY <1>2, <1>4, <1>5 DEF One
<1> QED  BY <1>6 DEF before, after

LEMMA LevelDropped ==
    ASSUME NEW f \in Seq(Frame), f # << >>, NEW t
    PROVE  Cardinality(Levels(Front(f), t)) = Cardinality(Levels(f, t)) - One(t, Last(f).owner)
<1> DEFINE before == Levels(f, t)
           after == Levels(Front(f), t)
           last == Len(f)
<1>1. /\ DOMAIN Front(f) = 1 .. last - 1 /\ DOMAIN f = 1 .. last /\ last \in Nat \ {0}
      /\ \A d \in 1 .. last - 1 : Front(f)[d] = f[d]
      BY FrontOf, SequenceOf
<1>2. Last(f) = f[last]
      BY DEF Last
<1>3. after = before \ {last}
      BY <1>1 DEF Levels
<1>4. last \in before <=> t = Last(f).owner
      BY <1>1, <1>2 DEF Levels
<1>5. IsFiniteSet(before) /\ Cardinality(before) \in Nat
      BY LevelsFinite
<1> HIDE DEF before, after, last
<1>6. Cardinality(before \ {last}) = Cardinality(before) - One(t, Last(f).owner)
  <2>1. Cardinality(before \ {last})
          = IF last \in before THEN Cardinality(before) - 1 ELSE Cardinality(before)
        BY <1>5, FS_RemoveElement
  <2>2. CASE last \in before
        BY <1>4, <1>5, <2>1, <2>2 DEF One
  <2>3. CASE last \notin before
    <3>1. One(t, Last(f).owner) = 0
          BY <1>4, <2>3 DEF One
    <3> QED  BY <1>5, <2>1, <2>3, <3>1
  <2> QED  BY <2>2, <2>3
<1> QED  BY <1>3, <1>6 DEF before, after

LEMMA LevelReplaced ==
    ASSUME NEW f \in Seq(Frame), f # << >>, NEW e \in Frame, e.owner = Last(f).owner, NEW t
    PROVE  Levels(Append(Front(f), e), t) = Levels(f, t)
<1>1. /\ DOMAIN Append(Front(f), e) = DOMAIN f /\ DOMAIN f = 1 .. Len(f)
      /\ Append(Front(f), e)[Len(f)] = e
      /\ \A d \in 1 .. Len(f) - 1 : Append(Front(f), e)[d] = f[d]
      BY ReplacedOf, SequenceOf
<1>2. Last(f) = f[Len(f)] /\ Len(f) \in Nat \ {0}
      BY FrontOf DEF Last
<1>3. \A d \in 1 .. Len(f) : d = Len(f) \/ d \in 1 .. Len(f) - 1
      BY <1>2
<1>4. \A d \in DOMAIN f : Append(Front(f), e)[d].owner = f[d].owner
      BY <1>1, <1>2, <1>3
<1> QED  BY <1>1, <1>4 DEF Levels

\* A count that comes out as the holders is a natural number.
LEMMA CountsAreNaturals ==
    ASSUME NEW h, NEW c, DOMAIN c = Tables, c = [t \in Tables |-> c[t]], NEW f \in Seq(Frame),
           Counted(h, c, f)
    PROVE  c \in [Tables -> Nat]
<1>1. \A t \in Tables : c[t] \in Nat
  <2> TAKE t \in Tables
  <2>1. Cardinality(Users(h, t)) \in Nat /\ Cardinality(Levels(f, t)) \in Nat
        BY UsersFinite, LevelsFinite
  <2> QED  BY <2>1 DEF Counted
<1> QED  BY <1>1

-----------------------------------------------------------------------------
(***************************************************************************)
(* The invariant is kept.                                                  *)
(***************************************************************************)
\* What a step that may free tables leaves.
LEMMA SettledTables ==
    ASSUME NEW contents \in [Tables -> Contents \cup {Freed}], table' = Settled(contents),
           \A t \in Tables : refcount'[t] # 0 => contents[t] # Freed
    PROVE  /\ table' \in [Tables -> Contents \cup {Freed}]
           /\ Living'
           /\ \A t \in Tables : refcount'[t] # 0 => table'[t] = contents[t]
<1>1. /\ table' = [t \in Tables |-> IF refcount'[t] = 0 THEN Freed ELSE contents[t]]
      BY DEF Settled
<1>2. \A t \in Tables : table'[t] = Freed <=> refcount'[t] = 0
      BY <1>1
<1> QED  BY <1>1, <1>2 DEF Living

LEMMA NamingCounts ==
    ASSUME IInv, NEW v \in Vars, NEW new \in Tables \cup {Unallocated, NoHandle},
           NEW contents, Named(v, new, contents)
    PROVE  /\ handle' \in [Vars -> Tables \cup {Unallocated, NoHandle}]
           /\ Counted(handle', refcount', frames')
           /\ refcount' \in [Tables -> Nat]
           /\ \A t \in Tables : refcount'[t] # 0 => t = new \/ refcount[t] # 0
<1>1. /\ handle \in [Vars -> Tables \cup {Unallocated, NoHandle}]
      /\ refcount \in [Tables -> Nat] /\ frames \in Seq(Frame)
      /\ Counted(handle, refcount, frames)
      BY CountedIsHoldersCounted DEF IInv, Types
<1>2. /\ handle' = [handle EXCEPT ![v] = new] /\ frames' = frames
      /\ refcount' = Shifted(new, handle[v])
      BY DEF Named
<1>3. \A t \in Tables : refcount'[t] = refcount[t] + One(t, new) - One(t, handle[v])
      BY <1>2, ShiftedBy
<1>4. Counted(handle', refcount', frames')
  <2> SUFFICES ASSUME NEW t \in Tables
               PROVE  refcount'[t] = Cardinality(Users(handle', t)) + Cardinality(Levels(frames', t))
      BY DEF Counted
  <2>1. Cardinality(Users(handle', t))
          = Cardinality(Users(handle, t)) + One(t, new) - One(t, handle[v])
    <3>1. DOMAIN handle = Vars
          BY <1>1
    <3> QED  BY <1>2, <3>1, UsersMoved
  <2>2. refcount[t] = Cardinality(Users(handle, t)) + Cardinality(Levels(frames, t))
        BY <1>1 DEF Counted
  <2>3. /\ Cardinality(Users(handle, t)) \in Nat /\ Cardinality(Levels(frames, t)) \in Nat
        /\ One(t, new) \in Nat /\ One(t, handle[v]) \in Nat
        BY <1>1, UsersFinite, LevelsFinite DEF One
  <2> QED  BY <1>2, <1>3, <2>1, <2>2, <2>3
<1>5. refcount' \in [Tables -> Nat]
  <2>1. DOMAIN refcount' = Tables /\ refcount' = [t \in Tables |-> refcount'[t]]
        BY <1>2 DEF Shifted
  <2> QED  BY <1>1, <1>2, <1>4, <2>1, CountsAreNaturals
<1>6. \A t \in Tables : refcount'[t] # 0 => t = new \/ refcount[t] # 0
  <2> SUFFICES ASSUME NEW t \in Tables, t # new, refcount[t] = 0 PROVE refcount'[t] = 0
      OBVIOUS
  <2>1. One(t, new) = 0 /\ One(t, handle[v]) \in {0, 1} /\ refcount'[t] \in Nat
        BY <1>5 DEF One
  <2> QED  BY <1>3, <2>1
<1> QED  BY <1>1, <1>2, <1>4, <1>5, <1>6

\* A table that iterators own is there after a naming, and as it was.
LEMMA NamingTables ==
    ASSUME IInv, NEW v \in Vars, NEW new \in Tables \cup {Unallocated, NoHandle},
           NEW contents \in [Tables -> Contents \cup {Freed}], Supplied(contents),
           new \in Tables => contents[new] # Freed, Named(v, new, contents)
    PROVE  /\ table' \in [Tables -> Contents \cup {Freed}] /\ Living'
           /\ \A t \in Tables : refcount'[t] # 0 => table'[t] = contents[t]
           /\ \A d \in DOMAIN frames : table'[frames[d].owner] = table[frames[d].owner]
<1>1. /\ \A t \in Tables : refcount'[t] # 0 => t = new \/ refcount[t] # 0
      /\ Counted(handle', refcount', frames') /\ frames' = frames
      BY NamingCounts DEF Named
<1>2. \A t \in Tables : refcount[t] # 0 => contents[t] = table[t]
      BY DEF Supplied, Free, IInv, Types
<1>3. \A t \in Tables : refcount'[t] # 0 => contents[t] # Freed
      BY <1>1, <1>2 DEF IInv, Living
<1>4. /\ table' \in [Tables -> Contents \cup {Freed}] /\ Living'
      /\ \A t \in Tables : refcount'[t] # 0 => table'[t] = contents[t]
      BY <1>3, SettledTables DEF Named
<1>5. ASSUME NEW d \in DOMAIN frames
      PROVE  table'[frames[d].owner] = table[frames[d].owner]
  <2> DEFINE t == frames[d].owner
  <2>1. t \in Tables /\ refcount[t] # 0 /\ frames \in Seq(Frame)
        BY OwnedIsThere DEF IInv, Types
  <2>2. d \in Levels(frames, t)
        BY DEF Levels
  <2>3. /\ Cardinality(Levels(frames, t)) \in Nat \ {0}
        /\ Cardinality(Users(handle', t)) \in Nat
        BY <2>1, <2>2, LevelsFinite, UsersFinite, FS_EmptySet
  <2>4. refcount'[t] # 0
        BY <1>1, <2>1, <2>3 DEF Counted
  <2> QED  BY <1>2, <1>4, <2>1, <2>4
<1> QED  BY <1>4, <1>5

LEMMA NamingKeeps ==
    ASSUME IInv, Naming
    PROVE  IInv'
<1>1. PICK v \in Vars, new \in Tables \cup {Unallocated, NoHandle},
           contents \in [Tables -> Contents \cup {Freed}] :
             /\ Supplied(contents)
             /\ new \in Tables => contents[new] # Freed
             /\ Named(v, new, contents)
      BY DEF Naming
<1>2. /\ handle' \in [Vars -> Tables \cup {Unallocated, NoHandle}]
      /\ Counted(handle', refcount', frames') /\ refcount' \in [Tables -> Nat]
      BY <1>1, NamingCounts
<1>3. /\ table' \in [Tables -> Contents \cup {Freed}] /\ Living'
      /\ \A d \in DOMAIN frames : table'[frames[d].owner] = table[frames[d].owner]
      BY <1>1, NamingTables
<1>4. frames' = frames /\ frames \in Seq(Frame) /\ Len(frames) <= MaxDepth
      BY <1>1 DEF Named, IInv, Types
<1>5. Types'
      BY <1>2, <1>3, <1>4 DEF Types, Frame, Contents, Stores, Visits, Indices
<1>6. HoldersCounted'
      BY <1>2 DEF HoldersCounted, Counted, Users, Levels
<1>7. InPlace'
      BY <1>3, <1>4 DEF IInv, InPlace, Node
<1> QED  BY <1>3, <1>5, <1>6, <1>7 DEF IInv

LEMMA ChangingKeeps ==
    ASSUME IInv, Changing
    PROVE  IInv'
<1>1. PICK v \in Vars, node \in Stores :
        /\ handle[v] \in Tables
        /\ Traversed(handle[v]) => DOMAIN node = DOMAIN Node(handle[v])
        /\ SetNode(handle[v], node)
      BY DEF Changing
<1> DEFINE t == handle[v]
<1>2. /\ table' = [table EXCEPT ![t].node = node]
      /\ handle' = handle /\ refcount' = refcount /\ frames' = frames
      BY <1>1 DEF SetNode
<1>3. table[t] \in Contents /\ table \in [Tables -> Contents \cup {Freed}] /\ t \in Tables
      BY <1>1, HeldIsThere DEF IInv, Types
<1>4. table'[t] \in Contents /\ table'[t].node = node
      BY <1>2, <1>3 DEF Contents
<1>5. table' \in [Tables -> Contents \cup {Freed}] /\ \A u \in Tables \ {t} : table'[u] = table[u]
      BY <1>2, <1>3, <1>4
<1>6. Types'
      BY <1>2, <1>5 DEF IInv, Types, Frame, Contents, Stores, Visits, Indices
<1>7. HoldersCounted'
      BY <1>2 DEF IInv, HoldersCounted
<1>8. Living'
  <2>1. table'[t] # Freed /\ refcount[t] # 0
        BY <1>1, <1>4, HeldIsThere, SparseAssumption
  <2> QED  BY <1>2, <1>5, <2>1 DEF IInv, Living
<1>9. InPlace'
  <2> SUFFICES ASSUME NEW d \in DOMAIN frames
               PROVE  frames[d].current = Extent
                      \/ frames[d].current \in DOMAIN table'[frames[d].owner].node
      BY <1>2 DEF InPlace, Node
  <2>1. frames[d].owner \in Tables
        BY OwnedIsThere
  <2>2. CASE frames[d].owner = t
        BY <1>1, <1>4, <2>2 DEF Traversed, IInv, InPlace, Node
  <2>3. CASE frames[d].owner # t
        BY <1>5, <2>1, <2>3 DEF IInv, InPlace, Node
  <2> QED  BY <2>2, <2>3
<1> QED  BY <1>6, <1>7, <1>8, <1>9 DEF IInv

\* A traversal owns the table of its object as long as it lasts.
Beginning ==
    \E v \in Vars :
        LET f == [owner |-> handle[v], current |-> Seek(handle[v], 0), visiting |-> Nothing]
        IN  /\ handle[v] \in Tables /\ Len(frames) < MaxDepth
            /\ frames' = Append(frames, f)
            /\ refcount' = Shifted(handle[v], Unallocated)
            /\ UNCHANGED <<handle, table>>

\* The innermost traversal goes on with the same table.
GoingOn ==
    /\ frames # << >> /\ UNCHANGED <<handle, refcount, table>>
    /\ \E f \in Frame :
        /\ f.owner = Top.owner
        /\ f.current = Extent \/ f.current \in DOMAIN Node(f.owner)
        /\ frames' = Append(Front(frames), f)

Ending == frames # << >> /\ Finalize_Guard

LEMMA BeginningKeeps ==
    ASSUME IInv, Beginning
    PROVE  IInv'
<1>1. PICK v \in Vars :
        LET f == [owner |-> handle[v], current |-> Seek(handle[v], 0), visiting |-> Nothing]
        IN  /\ handle[v] \in Tables /\ Len(frames) < MaxDepth
            /\ frames' = Append(frames, f)
            /\ refcount' = Shifted(handle[v], Unallocated)
            /\ UNCHANGED <<handle, table>>
      BY DEF Beginning
<1> DEFINE t == handle[v]
           f == [owner |-> t, current |-> Seek(t, 0), visiting |-> Nothing]
<1>2. t \in Tables /\ table[t] \in Contents /\ refcount[t] # 0
      BY <1>1, HeldIsThere
<1>3. /\ Seek(t, 0) \in 0 .. Extent
      /\ Seek(t, 0) = Extent \/ Seek(t, 0) \in DOMAIN Node(t)
      BY <1>2, SeekFinds
<1>4. f \in Frame /\ f.owner = t /\ f.current = Seek(t, 0)
      BY <1>2, <1>3 DEF Frame
<1>5. frames' = Append(frames, f) /\ UNCHANGED <<handle, table>>
      BY <1>1
<1> HIDE DEF f
<1>6. /\ frames \in Seq(Frame) /\ Len(frames) \in Nat /\ DOMAIN frames = 1 .. Len(frames)
      /\ frames' \in Seq(Frame) /\ Len(frames') = Len(frames) + 1
      /\ DOMAIN frames' = 1 .. Len(frames) + 1 /\ frames'[Len(frames) + 1] = f
      /\ \A d \in 1 .. Len(frames) : frames'[d] = frames[d]
      BY <1>4, <1>5, AppendOf, SequenceOf DEF IInv, Types
<1>7. \A u \in Tables : refcount'[u] = refcount[u] + One(u, t)
  <2> TAKE u \in Tables
  <2>1. refcount'[u] = refcount[u] + One(u, t) - One(u, Unallocated)
        BY <1>1, ShiftedBy
  <2>2. One(u, Unallocated) = 0 /\ refcount[u] \in Nat /\ One(u, t) \in Nat
        BY SentinelsOutside DEF One, IInv, Types
  <2> QED  BY <2>1, <2>2
<1>8. Counted(handle', refcount', frames')
  <2> SUFFICES ASSUME NEW u \in Tables
               PROVE  refcount'[u] = Cardinality(Users(handle', u)) + Cardinality(Levels(frames', u))
      BY DEF Counted
  <2>1. Cardinality(Levels(frames', u)) = Cardinality(Levels(frames, u)) + One(u, t)
        BY <1>4, <1>5, <1>6, LevelAdded
  <2>2. refcount[u] = Cardinality(Users(handle, u)) + Cardinality(Levels(frames, u))
        BY CountedIsHoldersCounted DEF IInv, Counted
  <2>3. /\ Cardinality(Users(handle, u)) \in Nat /\ Cardinality(Levels(frames, u)) \in Nat
        /\ One(u, t) \in Nat
        BY <1>6, UsersFinite, LevelsFinite DEF One
  <2> QED  BY <1>5, <1>7, <2>1, <2>2, <2>3
<1>9. refcount' \in [Tables -> Nat]
  <2>1. DOMAIN refcount' = Tables /\ refcount' = [u \in Tables |-> refcount'[u]]
        BY <1>1 DEF Shifted
  <2> QED  BY <1>6, <1>8, <2>1, CountsAreNaturals
<1>10. Types'
  <2>1. Len(frames') <= MaxDepth
        BY <1>1, <1>6, SparseAssumption
  <2> QED  BY <1>5, <1>6, <1>9, <2>1 DEF IInv, Types, Frame, Contents, Stores, Visits, Indices
<1>11. HoldersCounted'
      BY <1>8 DEF HoldersCounted, Counted, Users, Levels
<1>12. Living'
  <2>1. \A u \in Tables : refcount'[u] = 0 <=> refcount[u] = 0
    <3> TAKE u \in Tables
    <3>1. refcount[u] \in Nat /\ One(u, t) \in {0, 1} /\ (One(u, t) = 1 => u = t)
          BY DEF One, IInv, Types
    <3> QED  BY <1>2, <1>7, <3>1
  <2> QED  BY <1>5, <2>1 DEF IInv, Living
<1>13. InPlace'
  <2> SUFFICES ASSUME NEW d \in DOMAIN frames'
               PROVE  frames'[d].current = Extent
                      \/ frames'[d].current \in DOMAIN table[frames'[d].owner].node
      BY <1>5 DEF InPlace, Node
  <2>1. CASE d = Len(frames) + 1
        BY <1>3, <1>4, <1>6, <2>1 DEF Node
  <2>2. CASE d \in DOMAIN frames
        BY <1>6, <2>2 DEF IInv, InPlace, Node
  <2> QED  BY <1>6, <2>1, <2>2
<1> QED  BY <1>10, <1>11, <1>12, <1>13 DEF IInv

LEMMA GoingOnKeeps ==
    ASSUME IInv, GoingOn
    PROVE  IInv'
<1>1. PICK f \in Frame :
        /\ f.owner = Top.owner
        /\ f.current = Extent \/ f.current \in DOMAIN Node(f.owner)
        /\ frames' = Append(Front(frames), f)
      BY DEF GoingOn
<1>2. UNCHANGED <<handle, refcount, table>> /\ frames # << >> /\ frames \in Seq(Frame)
      /\ Len(frames) \in Nat \ {0} /\ DOMAIN frames = 1 .. Len(frames)
      BY FrontOf, SequenceOf DEF GoingOn, IInv, Types
<1>3. /\ frames' \in Seq(Frame) /\ Len(frames') = Len(frames) /\ DOMAIN frames' = DOMAIN frames
      /\ frames'[Len(frames)] = f /\ \A d \in 1 .. Len(frames) - 1 : frames'[d] = frames[d]
  <2> DEFINE after == Append(Front(frames), f)
  <2>1. /\ after \in Seq(Frame) /\ Len(after) = Len(frames) /\ DOMAIN after = DOMAIN frames
        /\ after[Len(frames)] = f /\ \A d \in 1 .. Len(frames) - 1 : after[d] = frames[d]
    <3>1. frames \in Seq(Frame) /\ frames # << >> /\ f \in Frame
          BY <1>2
    <3> QED  BY <3>1, ReplacedOf
  <2> HIDE DEF after
  <2>2. frames' = after
        BY <1>1 DEF after
  <2> QED  BY <2>1, <2>2
<1>4. Types'
      BY <1>2, <1>3 DEF IInv, Types, Frame, Contents, Stores, Visits, Indices
<1>5. HoldersCounted'
  <2>1. \A t : Levels(frames', t) = Levels(frames, t)
        BY <1>1, <1>2, LevelReplaced DEF Top
  <2>2. Counted(handle', refcount', frames')
        BY <1>2, <2>1, CountedIsHoldersCounted DEF IInv, Counted
  <2> QED  BY <2>2 DEF HoldersCounted, Counted, Users, Levels
<1>6. Living'
      BY <1>2 DEF IInv, Living
<1>7. InPlace'
  <2> SUFFICES ASSUME NEW d \in DOMAIN frames
               PROVE  frames'[d].current = Extent
                      \/ frames'[d].current \in DOMAIN table[frames'[d].owner].node
      BY <1>2, <1>3 DEF InPlace, Node
  <2>1. CASE d = Len(frames)
        BY <1>1, <1>3, <2>1 DEF Node
  <2>2. CASE d \in 1 .. Len(frames) - 1
        BY <1>3, <2>2 DEF IInv, InPlace, Node
  <2>3. d = Len(frames) \/ d \in 1 .. Len(frames) - 1
        BY <1>2
  <2> QED  BY <2>1, <2>2, <2>3
<1> QED  BY <1>4, <1>5, <1>6, <1>7 DEF IInv

LEMMA EndingCounts ==
    ASSUME IInv, Ending
    PROVE  /\ Counted(handle', refcount', frames') /\ refcount' \in [Tables -> Nat]
           /\ handle' = handle /\ frames' = Front(frames) /\ frames # << >>
           /\ frames \in Seq(Frame) /\ frames' \in Seq(Frame) /\ Len(frames') = Len(frames) - 1
           /\ DOMAIN frames' = 1 .. Len(frames) - 1 /\ DOMAIN frames = 1 .. Len(frames)
           /\ Len(frames) \in Nat \ {0}
           /\ \A d \in DOMAIN frames' : d \in DOMAIN frames /\ frames'[d] = frames[d]
           /\ \A u \in Tables : refcount'[u] # 0 => refcount[u] # 0
<1>1. /\ frames' = Front(frames) /\ handle' = handle /\ frames # << >>
      /\ refcount' = Shifted(Unallocated, Top.owner)
      /\ frames \in Seq(Frame)
      BY DEF Ending, Finalize_Guard, IInv, Types
<1>2. /\ frames' \in Seq(Frame) /\ Len(frames') = Len(frames) - 1
      /\ DOMAIN frames' = 1 .. Len(frames) - 1 /\ DOMAIN frames = 1 .. Len(frames)
      /\ Len(frames) \in Nat \ {0}
      /\ \A d \in DOMAIN frames' : d \in DOMAIN frames /\ frames'[d] = frames[d]
      BY <1>1, FrontOf, SequenceOf
<1>3. \A u \in Tables : refcount'[u] = refcount[u] - One(u, Top.owner)
  <2> TAKE u \in Tables
  <2>1. refcount'[u] = refcount[u] + One(u, Unallocated) - One(u, Top.owner)
        BY <1>1, ShiftedBy
  <2>2. One(u, Unallocated) = 0 /\ refcount[u] \in Nat /\ One(u, Top.owner) \in Nat
        BY SentinelsOutside DEF One, IInv, Types
  <2> QED  BY <2>1, <2>2
<1>4. Counted(handle', refcount', frames')
  <2> SUFFICES ASSUME NEW u \in Tables
               PROVE  refcount'[u] = Cardinality(Users(handle', u)) + Cardinality(Levels(frames', u))
      BY DEF Counted
  <2>1. Cardinality(Levels(frames', u)) = Cardinality(Levels(frames, u)) - One(u, Top.owner)
        BY <1>1, LevelDropped DEF Top
  <2>2. refcount[u] = Cardinality(Users(handle, u)) + Cardinality(Levels(frames, u))
        BY CountedIsHoldersCounted DEF IInv, Counted
  <2>3. /\ Cardinality(Users(handle, u)) \in Nat /\ Cardinality(Levels(frames, u)) \in Nat
        /\ One(u, Top.owner) \in Nat
        BY <1>1, UsersFinite, LevelsFinite DEF One
  <2> QED  BY <1>1, <1>3, <2>1, <2>2, <2>3
<1>5. refcount' \in [Tables -> Nat]
  <2>1. DOMAIN refcount' = Tables /\ refcount' = [u \in Tables |-> refcount'[u]]
        BY <1>1 DEF Shifted
  <2> QED  BY <1>2, <1>4, <2>1, CountsAreNaturals
<1>6. \A u \in Tables : refcount'[u] # 0 => refcount[u] # 0
  <2> TAKE u \in Tables
  <2>1. refcount'[u] \in Nat /\ refcount[u] \in Nat /\ One(u, Top.owner) \in {0, 1}
        BY <1>5 DEF One, IInv, Types
  <2> QED  BY <1>3, <2>1
<1> QED  BY <1>1, <1>2, <1>4, <1>5, <1>6

\* What an outer traversal owns stays as it is.
LEMMA EndingTables ==
    ASSUME IInv, Ending
    PROVE  /\ table' \in [Tables -> Contents \cup {Freed}] /\ Living'
           /\ \A t \in Tables : refcount'[t] # 0 => table'[t] = table[t]
           /\ \A d \in DOMAIN frames' : table'[frames'[d].owner] = table[frames'[d].owner]
<1>1. /\ table' \in [Tables -> Contents \cup {Freed}] /\ Living'
      /\ \A t \in Tables : refcount'[t] # 0 => table'[t] = table[t]
  <2>1. \A t \in Tables : refcount'[t] # 0 => table[t] # Freed
        BY EndingCounts DEF IInv, Living
  <2>2. table \in [Tables -> Contents \cup {Freed}] /\ table' = Settled(table)
        BY DEF IInv, Types, Ending, Finalize_Guard
  <2> QED  BY <2>1, <2>2, SettledTables
<1>2. ASSUME NEW d \in DOMAIN frames'
      PROVE  table'[frames'[d].owner] = table[frames'[d].owner]
  <2> DEFINE t == frames'[d].owner
  <2>1. t \in Tables /\ frames' \in Seq(Frame)
        BY EndingCounts, OwnedIsThere
  <2>2. d \in Levels(frames', t)
        BY DEF Levels
  <2>3. /\ Cardinality(Levels(frames', t)) \in Nat \ {0}
        /\ Cardinality(Users(handle', t)) \in Nat
        BY <2>1, <2>2, LevelsFinite, UsersFinite, FS_EmptySet
  <2>4. refcount'[t] # 0
        BY <2>1, <2>3, EndingCounts DEF Counted
  <2> QED  BY <1>1, <2>1, <2>4
<1> QED  BY <1>1, <1>2

LEMMA EndingKeeps ==
    ASSUME IInv, Ending
    PROVE  IInv'
<1>1. Types'
  <2>1. Len(frames') <= MaxDepth
        BY EndingCounts, SparseAssumption DEF IInv, Types
  <2>2. handle' \in [Vars -> Tables \cup {Unallocated, NoHandle}]
        BY EndingCounts DEF IInv, Types
  <2> QED  BY <2>1, <2>2, EndingCounts, EndingTables
           DEF Types, Frame, Contents, Stores, Visits, Indices
<1>2. HoldersCounted'
      BY EndingCounts DEF HoldersCounted, Counted, Users, Levels
<1>3. InPlace'
  <2> SUFFICES ASSUME NEW d \in DOMAIN frames'
               PROVE  frames'[d].current = Extent
                      \/ frames'[d].current \in DOMAIN table'[frames'[d].owner].node
      BY DEF InPlace, Node
  <2> QED  BY EndingCounts, EndingTables DEF IInv, InPlace, Node
<1> QED  BY <1>1, <1>2, <1>3, EndingTables DEF IInv

-----------------------------------------------------------------------------
(***************************************************************************)
(* Every step has one of the shapes.                                       *)
(***************************************************************************)
LEMMA TopIsAFrame ==
    ASSUME IInv, frames # << >>
    PROVE  /\ Top \in Frame /\ Top.owner \in Tables /\ table[Top.owner] \in Contents
           /\ Top = frames[Len(frames)] /\ Len(frames) \in DOMAIN frames
           /\ Top.current = Extent \/ Top.current \in DOMAIN Node(Top.owner)
<1>1. frames \in Seq(Frame) /\ Len(frames) \in DOMAIN frames /\ Top = frames[Len(frames)]
      BY FrontOf, SequenceOf DEF IInv, Types, Top, Last
<1> QED  BY <1>1, OwnedIsThere DEF IInv, InPlace

\* The element that is visited is stored, and the iterator goes to the next.
LEMMA CopiedIsAFrame ==
    ASSUME IInv, frames # << >>, Top.current # Extent
    PROVE  LET f == sparse_iterator_copied(Top)
           IN  /\ f \in Frame /\ f.owner = Top.owner
               /\ f.visiting = [index |-> Top.current, value |-> Node(Top.owner)[Top.current]]
               /\ f.current = Seek(Top.owner, Top.current + 1)
               /\ f.current = Extent \/ f.current \in DOMAIN Node(f.owner)
               /\ f.visiting \in Visits
<1> DEFINE t == Top.owner
           next == Seek(t, Top.current + 1)
           visit == [index |-> Top.current, value |-> Node(t)[Top.current]]
           f == sparse_iterator_copied(Top)
<1>1. Top \in Frame /\ t \in Tables /\ table[t] \in Contents /\ Top.current \in DOMAIN Node(t)
      BY TopIsAFrame
<1>2. Top.current \in Indices /\ Node(t)[Top.current] \in Values
      BY <1>1, NodesOf
<1>3. Top.current + 1 \in Nat
      BY <1>2, SparseAssumption DEF Indices
<1>4. next \in 0 .. Extent /\ (next = Extent \/ next \in DOMAIN Node(t))
      BY <1>1, <1>3, SeekFinds
<1>5. visit \in Visits
      BY <1>2 DEF Visits
<1>6. f = [Top EXCEPT !.visiting = visit, !.current = next]
      BY DEF sparse_iterator_copied
<1> HIDE DEF visit, next, f
<1>7. /\ f \in Frame /\ f.owner = t /\ f.visiting = visit /\ f.current = next
      BY <1>1, <1>4, <1>5, <1>6 DEF Frame
<1> QED  BY <1>4, <1>5, <1>7 DEF visit, next, f

LEMMA NextShape ==
    ASSUME IInv, Next
    PROVE  Naming \/ Changing \/ Beginning \/ GoingOn \/ Ending
<1>1. CASE ClientRuns /\ Operation
      BY <1>1, OperationShape
<1>2. CASE \E v \in Vars, expected \in Expected : For_Each_Stored(v, expected)
      BY <1>2 DEF For_Each_Stored, Check_Layout, Is_Allocated, Beginning
<1>3. CASE sparse_iterator_next
  <2>1. frames # << >>
        BY <1>3 DEF sparse_iterator_next, ClientRuns
  <2>2. CASE Top.current = Extent
        BY <1>3, <2>1, <2>2 DEF sparse_iterator_next, Ending
  <2>3. CASE Top.current # Extent
    <3>1. /\ frames' = Append(Front(frames), sparse_iterator_copied(Top))
          /\ UNCHANGED <<handle, refcount, table>>
          BY <1>3, <2>3 DEF sparse_iterator_next
    <3> QED  BY <2>1, <2>3, <3>1, CopiedIsAFrame DEF GoingOn
  <2> QED  BY <2>2, <2>3
<1>4. CASE ProcessReturns
  <2> DEFINE f == [Top EXCEPT !.visiting = Nothing]
  <2>1. frames # << >> /\ frames' = Append(Front(frames), f)
        /\ UNCHANGED <<handle, refcount, table>>
        BY <1>4 DEF ProcessReturns
  <2>2. Top \in Frame /\ (Top.current = Extent \/ Top.current \in DOMAIN Node(Top.owner))
        BY <2>1, TopIsAFrame
  <2>3. f \in Frame /\ f.owner = Top.owner /\ f.current = Top.current
        BY <2>2 DEF Frame
  <2> HIDE DEF f
  <2> QED  BY <2>1, <2>2, <2>3 DEF GoingOn
<1>5. CASE ProcessRaises
      BY <1>5 DEF ProcessRaises, Ending
<1> QED  BY <1>1, <1>2, <1>3, <1>4, <1>5 DEF Next

LEMMA Initially == Init => IInv
<1> SUFFICES ASSUME Init PROVE IInv
    OBVIOUS
<1>1. /\ handle = [v \in Vars |-> Unallocated] /\ refcount = [t \in Tables |-> 0]
      /\ table = [t \in Tables |-> Freed] /\ frames = << >>
      BY DEF Init
<1>2. frames \in Seq(Frame) /\ Len(frames) = 0 /\ DOMAIN frames = {}
      BY <1>1
<1>3. Types /\ Living /\ InPlace
      BY <1>1, <1>2, SparseAssumption DEF Types, Living, InPlace
<1>4. Counted(handle, refcount, frames)
  <2> SUFFICES ASSUME NEW t \in Tables
               PROVE  refcount[t] = Cardinality(Users(handle, t)) + Cardinality(Levels(frames, t))
      BY DEF Counted
  <2>1. Users(handle, t) = {} /\ Levels(frames, t) = {}
        BY <1>1, <1>2, SentinelsOutside DEF Users, Levels
  <2>2. Cardinality(Users(handle, t)) = 0 /\ Cardinality(Levels(frames, t)) = 0
        BY <2>1, FS_EmptySet
  <2> QED  BY <1>1, <2>2
<1> QED  BY <1>3, <1>4, CountedIsHoldersCounted DEF IInv

LEMMA EveryStepKeeps == IInv /\ [Next]_vars => IInv'
<1> SUFFICES ASSUME IInv, [Next]_vars PROVE IInv'
    OBVIOUS
<1>1. CASE Next
      BY <1>1, NextShape, NamingKeeps, ChangingKeeps, BeginningKeeps, GoingOnKeeps, EndingKeeps
<1>2. CASE UNCHANGED vars
      BY <1>2 DEF vars, IInv, Types, HoldersCounted, Living, InPlace, Node, Frame, Contents,
                  Stores, Visits, Indices
<1> QED  BY <1>1, <1>2

\* The holders are counted, tables live as long as they have holders, and
\* iterators stand at nodes, whatever callbacks do.
THEOREM InvariantHolds == Spec => []IInv
BY Initially, EveryStepKeeps, PTL DEF Spec

\* Handles, counts, tables and traversals keep their types; the element of a
\* visit is an element of the matrix.
THEOREM Typed == Spec => []TypeOK
<1>1. IInv => TypeOK
      BY TypesAreTypeOK DEF IInv
<1> QED  BY <1>1, InvariantHolds, PTL

\* No table is freed under an object or an iterator, and none is left behind,
\* for any number of objects that share it and of traversals of it.
THEOREM HoldersStayCounted == Spec => []HoldersCounted
BY InvariantHolds, PTL DEF IInv

-----------------------------------------------------------------------------
(***************************************************************************)
(* The refinement: each shape is a step of StoredElements.                 *)
(***************************************************************************)
Element(contents) ==
    IF contents = Freed THEN Freed ELSE [layout |-> contents.layout, stored |-> contents.node]
Traversal(f, stored) ==
    [of |-> f.owner, left |-> {i \in DOMAIN stored : i >= f.current}, visiting |-> f.visiting]

LEMMA ElementsAre == Elements = [t \in Tables |-> Element(table[t])]
BY DEF Elements, Element

LEMMA ElementsWillBe == Elements' = [t \in Tables |-> Element(table'[t])]
BY DEF Elements, Element

LEMMA TraversalsAre ==
    Traversals = [d \in DOMAIN frames |-> Traversal(frames[d], table[frames[d].owner].node)]
BY DEF Traversals, Left, Node, Traversal

LEMMA TraversalsWillBe ==
    Traversals' = [d \in DOMAIN frames' |-> Traversal(frames'[d], table'[frames'[d].owner].node)]
BY DEF Traversals, Left, Node, Traversal

LEMMA SequenceIs ==
    ASSUME NEW S, NEW s \in Seq(S)
    PROVE  s = [d \in DOMAIN s |-> s[d]]
OBVIOUS

\* A function on 1 .. n is a sequence.
LEMMA IsASequence ==
    ASSUME NEW n \in Nat, NEW s, s = [d \in 1 .. n |-> s[d]]
    PROVE  s \in Seq({s[d] : d \in 1 .. n}) /\ Len(s) = n /\ DOMAIN s = 1 .. n
OBVIOUS

LEMMA TraversalsSequence ==
    ASSUME IInv
    PROVE  /\ Traversals \in Seq({Traversals[d] : d \in 1 .. Len(frames)})
           /\ Len(Traversals) = Len(frames) /\ Len(frames) \in Nat
           /\ DOMAIN Traversals = 1 .. Len(frames) /\ DOMAIN frames = 1 .. Len(frames)
           /\ Traversals = << >> <=> frames = << >>
<1>1. Len(frames) \in Nat /\ DOMAIN frames = 1 .. Len(frames) /\ frames \in Seq(Frame)
      BY SequenceOf DEF IInv, Types
<1>2. Traversals = [d \in 1 .. Len(frames) |-> Traversals[d]]
      BY <1>1, TraversalsAre
<1>3. /\ Traversals \in Seq({Traversals[d] : d \in 1 .. Len(frames)})
      /\ Len(Traversals) = Len(frames) /\ DOMAIN Traversals = 1 .. Len(frames)
      BY <1>1, <1>2, IsASequence
<1>4. Traversals = << >> <=> frames = << >>
      BY <1>1, <1>3
<1> QED  BY <1>1, <1>3, <1>4

\* The innermost traversal is that of the innermost iterator.
LEMMA LastTraversal ==
    ASSUME IInv, frames # << >>
    PROVE  /\ Last(Traversals) = Traversal(Top, Node(Top.owner))
           /\ Last(Traversals) = Traversals[Len(frames)] /\ Len(frames) \in DOMAIN frames
           /\ Top = frames[Len(frames)]
<1>1. /\ Top = frames[Len(frames)] /\ Len(frames) \in DOMAIN frames
      BY TopIsAFrame
<1>2. Last(Traversals) = Traversals[Len(frames)]
      BY TraversalsSequence DEF Last
<1>3. Traversals[Len(frames)] = Traversal(frames[Len(frames)], table[frames[Len(frames)].owner].node)
      BY <1>1, TraversalsAre
<1> QED  BY <1>1, <1>2, <1>3 DEF Node

LEMMA ClientRunsAlike ==
    ASSUME IInv
    PROVE  Promise!ClientRuns <=> ClientRuns
<1>1. Traversals = << >> <=> frames = << >>
      BY TraversalsSequence
<1>2. frames # << >> => Last(Traversals).visiting = Last(frames).visiting
      BY LastTraversal DEF Traversal, Top
<1> QED  BY <1>1, <1>2 DEF Promise!ClientRuns, Promise!Last, Last, ClientRuns

\* A table is counted exactly when an object names it or a traversal is of it.
LEMMA CountedIsReferred ==
    ASSUME NEW h, NEW c, NEW f \in Seq(Frame), Counted(h, c, f), NEW t \in Tables
    PROVE  c[t] # 0 <=> (\E v \in Vars : h[v] = t) \/ (\E d \in DOMAIN f : f[d].owner = t)
<1>1. /\ IsFiniteSet(Users(h, t)) /\ Cardinality(Users(h, t)) \in Nat
      /\ IsFiniteSet(Levels(f, t)) /\ Cardinality(Levels(f, t)) \in Nat
      BY UsersFinite, LevelsFinite
<1>2. c[t] # 0 <=> Cardinality(Users(h, t)) # 0 \/ Cardinality(Levels(f, t)) # 0
  <2>1. c[t] = Cardinality(Users(h, t)) + Cardinality(Levels(f, t))
        BY DEF Counted
  <2> QED  BY <1>1, <2>1
<1>3. /\ Cardinality(Users(h, t)) # 0 <=> Users(h, t) # {}
      /\ Cardinality(Levels(f, t)) # 0 <=> Levels(f, t) # {}
      BY <1>1, FS_EmptySet
<1> QED  BY <1>2, <1>3 DEF Users, Levels

\* What remains in the one module remains in the other.
LEMMA RemainingAlike ==
    ASSUME frames' \in Seq(Frame), Counted(handle', refcount', frames'), Living',
           NEW contents,
           \A t \in Tables : refcount'[t] # 0 => table'[t] = contents[t]
    PROVE  Elements' = Promise!Remaining([t \in Tables |-> Element(contents[t])])
<1>1. \A v \in Vars, t \in Tables : Names'[v] = t <=> handle'[v] = t
      BY SentinelsOutside DEF Names, Is_Allocated
<1>2. /\ DOMAIN Traversals' = DOMAIN frames'
      /\ \A d \in DOMAIN frames' : Traversals'[d].of = frames'[d].owner
      BY TraversalsWillBe DEF Traversal
<1>3. \A t \in Tables :
         refcount'[t] # 0 <=> (\E v \in Vars : Names'[v] = t)
                              \/ (\E d \in DOMAIN Traversals' : Traversals'[d].of = t)
      BY <1>1, <1>2, CountedIsReferred
<1>4. \A t \in Tables :
         Elements'[t] = IF refcount'[t] # 0 THEN Element(contents[t]) ELSE Freed
      BY ElementsWillBe DEF Living, Element
<1>5. Elements' = [t \in Tables |-> Elements'[t]]
      BY ElementsWillBe
<1>6. Promise!Remaining([t \in Tables |-> Element(contents[t])])
        = [t \in Tables |-> IF refcount'[t] # 0 THEN Element(contents[t]) ELSE Freed]
      BY <1>3 DEF Promise!Remaining
<1> HIDE DEF Elements
<1> QED  BY <1>4, <1>5, <1>6

LEMMA NamingImplements ==
    ASSUME IInv, Naming, ClientRuns
    PROVE  Promise!SNext
<1>1. PICK v \in Vars, new \in Tables \cup {Unallocated, NoHandle},
           contents \in [Tables -> Contents \cup {Freed}] :
             /\ Supplied(contents)
             /\ new \in Tables => contents[new] # Freed
             /\ Named(v, new, contents)
      BY DEF Naming
<1> DEFINE c == IF new \in Tables THEN new ELSE Nothing
<1>2. /\ Counted(handle', refcount', frames')
      /\ \A t \in Tables : refcount'[t] # 0 => t = new \/ refcount[t] # 0
      BY <1>1, NamingCounts
<1>3. /\ table' \in [Tables -> Contents \cup {Freed}] /\ Living'
      /\ \A t \in Tables : refcount'[t] # 0 => table'[t] = contents[t]
      /\ \A d \in DOMAIN frames : table'[frames[d].owner] = table[frames[d].owner]
      BY <1>1, NamingTables
<1>4. /\ handle' = [handle EXCEPT ![v] = new] /\ frames' = frames /\ frames \in Seq(Frame)
      /\ handle \in [Vars -> Tables \cup {Unallocated, NoHandle}]
      BY <1>1 DEF Named, IInv, Types
<1>5. Traversals' = Traversals
      BY <1>3, <1>4, TraversalsAre, TraversalsWillBe
<1>6. Names' = [Names EXCEPT ![v] = c]
      BY <1>4, SentinelsOutside DEF Names, Is_Allocated
<1>7. c \in Tables \cup {Nothing}
      OBVIOUS
<1>8. Promise!ClientRuns
      BY ClientRunsAlike
<1>9. Elements' = Promise!Remaining([t \in Tables |-> Element(contents[t])])
      BY <1>2, <1>3, <1>4, RemainingAlike
<1>10. \/ Elements' = Promise!Remaining(Elements)
       \/ /\ c # Nothing /\ Elements[c] = Freed
          /\ \E made \in Promise!Contents :
                Elements' = Promise!Remaining([Elements EXCEPT ![c] = made])
  <2>1. CASE contents = table
        BY <1>9, <2>1, ElementsAre
  <2>2. CASE \E fresh \in Free, made \in Contents : contents = [table EXCEPT ![fresh] = made]
    <3>1. PICK fresh \in Free, made \in Contents : contents = [table EXCEPT ![fresh] = made]
          BY <2>2
    <3>2. fresh \in Tables /\ refcount[fresh] = 0 /\ table[fresh] = Freed /\ DOMAIN table = Tables
          BY <3>1 DEF Free, IInv, Types, Living
    <3>3. CASE fresh = new
      <4>1. c = fresh /\ c # Nothing
            BY <3>2, <3>3, SentinelsOutside
      <4>2. Elements[c] = Freed
            BY <3>2, <4>1, ElementsAre DEF Element
      <4>3. Element(made) \in Promise!Contents
        <5>1. made.layout \in Layouts /\ made.node \in Stores /\ made # Freed
              BY SparseAssumption DEF Contents
        <5> QED  BY <5>1 DEF Element, Promise!Contents, Promise!Stores, Stores
      <4>4. [t \in Tables |-> Element(contents[t])] = [Elements EXCEPT ![c] = Element(made)]
            BY <3>1, <3>2, <4>1, ElementsAre
      <4> QED  BY <1>9, <4>1, <4>2, <4>3, <4>4
    <3>4. CASE fresh # new
      <4>1. refcount'[fresh] = 0
            BY <1>2, <3>2, <3>4
      <4>2. \A t \in Tables : refcount'[t] # 0 => table'[t] = table[t]
            BY <1>3, <3>1, <3>2, <4>1
      <4>3. Elements' = Promise!Remaining([t \in Tables |-> Element(table[t])])
            BY <1>2, <1>3, <1>4, <4>2, RemainingAlike
      <4> QED  BY <4>3, ElementsAre
    <3> QED  BY <3>3, <3>4
  <2> QED  BY <1>1, <2>1, <2>2 DEF Supplied
<1> HIDE DEF c
<1>11. Promise!Name(v, c)
      BY <1>5, <1>6, <1>8, <1>10 DEF Promise!Name
<1> QED  BY <1>7, <1>11 DEF Promise!SNext

LEMMA ChangingImplements ==
    ASSUME IInv, Changing, ClientRuns
    PROVE  Promise!SNext
<1>1. PICK v \in Vars, node \in Stores :
        /\ handle[v] \in Tables
        /\ Traversed(handle[v]) => DOMAIN node = DOMAIN Node(handle[v])
        /\ SetNode(handle[v], node)
      BY DEF Changing
<1> DEFINE t == handle[v]
<1>2. /\ table' = [table EXCEPT ![t].node = node]
      /\ handle' = handle /\ refcount' = refcount /\ frames' = frames
      BY <1>1 DEF SetNode
<1>3. /\ table[t] \in Contents /\ table \in [Tables -> Contents \cup {Freed}] /\ t \in Tables
      /\ table[t] # Freed
      BY <1>1, HeldIsThere, SparseAssumption DEF IInv, Types
<1>4. /\ table'[t] = [layout |-> table[t].layout, node |-> node]
      /\ table'[t] # Freed /\ DOMAIN table' = Tables
      /\ \A u \in Tables \ {t} : table'[u] = table[u]
  <2>1. table'[t] = [layout |-> table[t].layout, node |-> node]
        BY <1>2, <1>3 DEF Contents
  <2>2. table'[t] \in Contents
        BY <1>3, <2>1 DEF Contents
  <2> QED  BY <1>2, <1>3, <2>1, <2>2, SparseAssumption
<1>5. Names' = Names
      BY <1>2 DEF Names, Is_Allocated
<1>6. Elements' = [Elements EXCEPT ![t].stored = node]
  <2>1. Elements[t] = [layout |-> table[t].layout, stored |-> table[t].node]
        BY <1>3, ElementsAre DEF Element
  <2>2. Elements'[t] = [layout |-> table[t].layout, stored |-> node]
        BY <1>3, <1>4, ElementsWillBe DEF Element
  <2>3. \A u \in Tables \ {t} : Elements'[u] = Elements[u]
        BY <1>4, ElementsAre, ElementsWillBe
  <2>4. DOMAIN Elements = Tables /\ Elements' = [u \in Tables |-> Elements'[u]]
        BY ElementsAre, ElementsWillBe
  <2>5. [Elements EXCEPT ![t].stored = node]
          = [u \in Tables |-> IF u = t THEN [Elements[t] EXCEPT !.stored = node] ELSE Elements[u]]
        BY <2>4
  <2>6. [Elements[t] EXCEPT !.stored = node] = Elements'[t]
        BY <2>1, <2>2
  <2> QED  BY <2>3, <2>4, <2>5, <2>6
<1>7. \A d \in DOMAIN frames :
         DOMAIN table'[frames[d].owner].node = DOMAIN table[frames[d].owner].node
  <2> TAKE d \in DOMAIN frames
  <2>1. CASE frames[d].owner = t
        BY <1>1, <1>4, <2>1 DEF Traversed, Node
  <2>2. CASE frames[d].owner # t
        BY <1>4, <2>2, OwnedIsThere
  <2> QED  BY <2>1, <2>2
<1>8. Traversals' = Traversals
      BY <1>2, <1>7, TraversalsAre, TraversalsWillBe DEF Traversal
<1>9. Names[v] = t /\ t # Nothing /\ t \in {Names[u] : u \in Vars}
      BY <1>1, SentinelsOutside DEF Names, Is_Allocated
<1>10. Promise!Traversed(t) => DOMAIN node = DOMAIN Elements[t].stored
  <2>1. Promise!Traversed(t) => Traversed(t)
        BY TraversalsAre DEF Promise!Traversed, Traversed, Traversal
  <2>2. Elements[t].stored = Node(t)
        BY <1>3, ElementsAre DEF Element, Node
  <2> QED  BY <1>1, <2>1, <2>2
<1>11. node \in Promise!Stores
      BY DEF Promise!Stores, Stores
<1>12. Promise!ClientRuns
      BY ClientRunsAlike
<1> HIDE DEF t
<1>13. Promise!Change(t)
      BY <1>5, <1>6, <1>8, <1>9, <1>10, <1>11, <1>12 DEF Promise!Change
<1> QED  BY <1>3, <1>13 DEF Promise!SNext

LEMMA BeginningImplements ==
    ASSUME IInv, Beginning, ClientRuns
    PROVE  Promise!SNext
<1>1. PICK v \in Vars :
        LET f == [owner |-> handle[v], current |-> Seek(handle[v], 0), visiting |-> Nothing]
        IN  /\ handle[v] \in Tables /\ Len(frames) < MaxDepth
            /\ frames' = Append(frames, f)
            /\ refcount' = Shifted(handle[v], Unallocated)
            /\ UNCHANGED <<handle, table>>
      BY DEF Beginning
<1> DEFINE t == handle[v]
           f == [owner |-> t, current |-> Seek(t, 0), visiting |-> Nothing]
           g == [of |-> t, left |-> DOMAIN Elements[t].stored, visiting |-> Nothing]
<1>2. t \in Tables /\ table[t] \in Contents /\ table[t] # Freed
      BY <1>1, HeldIsThere, SparseAssumption
<1>3. /\ Seek(t, 0) \in 0 .. Extent /\ DOMAIN Node(t) \subseteq Indices
      /\ \A i \in DOMAIN Node(t) : i >= 0 <=> i >= Seek(t, 0)
      BY <1>2, SeekFinds, NodesOf
<1>4. f \in Frame /\ f.owner = t /\ f.current = Seek(t, 0) /\ f.visiting = Nothing
      BY <1>2, <1>3 DEF Frame
<1>5. frames' = Append(frames, f) /\ UNCHANGED <<handle, table>>
      BY <1>1
<1>6. Elements[t].stored = Node(t)
      BY <1>2, ElementsAre DEF Element, Node
<1>7. {i \in DOMAIN Node(t) : i >= f.current} = DOMAIN Node(t)
  <2>1. \A i \in DOMAIN Node(t) : i >= 0
        BY <1>3, SparseAssumption DEF Indices
  <2> QED  BY <1>3, <1>4, <2>1
<1>8. Traversal(f, Node(t)) = g
      BY <1>4, <1>6, <1>7 DEF Traversal
<1> HIDE DEF f, g
<1>9. /\ frames \in Seq(Frame) /\ Len(frames) \in Nat /\ DOMAIN frames = 1 .. Len(frames)
      /\ DOMAIN frames' = 1 .. Len(frames) + 1 /\ frames'[Len(frames) + 1] = f
      /\ \A d \in 1 .. Len(frames) : frames'[d] = frames[d]
      BY <1>4, <1>5, AppendOf, SequenceOf DEF IInv, Types
<1>10. /\ DOMAIN Traversals' = 1 .. Len(frames) + 1
       /\ Traversals' = [d \in 1 .. Len(frames) + 1 |-> Traversals'[d]]
       /\ \A d \in 1 .. Len(frames) : Traversals'[d] = Traversals[d]
       /\ Traversals'[Len(frames) + 1] = g
      BY <1>4, <1>5, <1>8, <1>9, TraversalsAre, TraversalsWillBe DEF Node
<1>11. /\ DOMAIN Append(Traversals, g) = 1 .. Len(frames) + 1
       /\ \A d \in 1 .. Len(frames) : Append(Traversals, g)[d] = Traversals[d]
       /\ Append(Traversals, g)[Len(frames) + 1] = g
       /\ Append(Traversals, g) = [d \in 1 .. Len(frames) + 1 |-> Append(Traversals, g)[d]]
  <2> DEFINE S == {Traversals[d] : d \in 1 .. Len(frames)} \cup {g}
  <2>1. Traversals \in Seq(S) /\ Len(Traversals) = Len(frames) /\ g \in S
        BY TraversalsSequence
  <2> HIDE DEF S
  <2>2. /\ Append(Traversals, g) \in Seq(S)
        /\ DOMAIN Append(Traversals, g) = 1 .. Len(frames) + 1
        /\ \A d \in 1 .. Len(frames) : Append(Traversals, g)[d] = Traversals[d]
        /\ Append(Traversals, g)[Len(frames) + 1] = g
        BY <2>1, AppendOf
  <2> QED  BY <2>2, SequenceIs
<1>12. Traversals' = Append(Traversals, g)
      BY <1>9, <1>10, <1>11
<1>13. Names' = Names /\ Elements' = Elements /\ Names[v] = t /\ Names[v] # Nothing
      BY <1>2, <1>5, SentinelsOutside DEF Names, Is_Allocated, Elements
<1>14. Promise!ClientRuns
      BY ClientRunsAlike
<1>15. Promise!Begin(v)
      BY <1>12, <1>13, <1>14 DEF Promise!Begin, g
<1> QED  BY <1>15 DEF Promise!SNext

\* The innermost iterator changed is the innermost traversal changed.
LEMMA GoingOnAlike ==
    ASSUME IInv, frames # << >>, UNCHANGED <<handle, refcount, table>>,
           NEW f \in Frame, f.owner = Top.owner, frames' = Append(Front(frames), f)
    PROVE  /\ Traversals' = Append(Front(Traversals), Traversal(f, Node(f.owner)))
           /\ Names' = Names /\ Elements' = Elements
<1> DEFINE n == Len(frames)
           g == Traversal(f, Node(f.owner))
           S == {Traversals[d] : d \in 1 .. n} \cup {g}
<1>1. frames \in Seq(Frame) /\ n \in Nat \ {0} /\ DOMAIN frames = 1 .. n
      BY FrontOf, SequenceOf DEF IInv, Types
<1>2. /\ DOMAIN frames' = 1 .. n /\ frames'[n] = f
      /\ \A d \in 1 .. n - 1 : frames'[d] = frames[d]
  <2> DEFINE after == Append(Front(frames), f)
  <2>1. /\ DOMAIN after = DOMAIN frames /\ after[n] = f
        /\ \A d \in 1 .. n - 1 : after[d] = frames[d]
    <3>1. frames \in Seq(Frame) /\ frames # << >> /\ f \in Frame
          BY <1>1
    <3> QED  BY <3>1, ReplacedOf
  <2> HIDE DEF after
  <2>2. frames' = after
        BY DEF after
  <2> QED  BY <1>1, <2>1, <2>2
<1>3. /\ Traversals \in Seq(S) /\ Len(Traversals) = n /\ DOMAIN Traversals = 1 .. n
      /\ Traversals # << >> /\ g \in S
      BY TraversalsSequence
<1>4. /\ DOMAIN Traversals' = 1 .. n /\ Traversals' = [d \in 1 .. n |-> Traversals'[d]]
      /\ \A d \in 1 .. n : Traversals'[d] = Traversal(frames'[d], table[frames'[d].owner].node)
      BY <1>2, TraversalsWillBe
<1>5. /\ Traversals'[n] = g
      /\ \A d \in 1 .. n - 1 : Traversals'[d] = Traversals[d]
  <2>1. \A d \in 1 .. n - 1 : d \in 1 .. n
        BY <1>1
  <2>2. n \in 1 .. n
        BY <1>1
  <2>3. \A d \in 1 .. n : Traversals[d] = Traversal(frames[d], table[frames[d].owner].node)
        BY <1>1, TraversalsAre
  <2> QED  BY <1>2, <1>4, <2>1, <2>2, <2>3 DEF Node
<1> HIDE DEF g, S
<1> DEFINE replaced == Append(Front(Traversals), g)
<1>6. /\ replaced \in Seq(S) /\ DOMAIN replaced = 1 .. n /\ replaced[n] = g
      /\ \A d \in 1 .. n - 1 : replaced[d] = Traversals[d]
  <2>1. Traversals \in Seq(S) /\ Traversals # << >> /\ g \in S
        BY <1>3
  <2>2. /\ replaced \in Seq(S) /\ DOMAIN replaced = DOMAIN Traversals
        /\ replaced[Len(Traversals)] = g
        /\ \A d \in 1 .. Len(Traversals) - 1 : replaced[d] = Traversals[d]
        BY <2>1, ReplacedOf
  <2> HIDE DEF replaced
  <2> QED  BY <1>3, <2>2
<1> HIDE DEF replaced
<1>7. replaced = [d \in 1 .. n |-> replaced[d]]
      BY <1>6, SequenceIs
<1>8. \A d \in 1 .. n : Traversals'[d] = replaced[d]
  <2>1. \A d \in 1 .. n : d = n \/ d \in 1 .. n - 1
        BY <1>1
  <2> QED  BY <1>5, <1>6, <2>1
<1>9. Traversals' = replaced
      BY <1>4, <1>7, <1>8
<1> QED  BY <1>9 DEF replaced, g, Names, Is_Allocated, Elements

LEMMA VisitImplements ==
    ASSUME IInv, sparse_iterator_next, Top.current # Extent
    PROVE  Promise!SNext
<1> DEFINE o == Top.owner
           i == Top.current
           f == sparse_iterator_copied(Top)
           visit == [index |-> i, value |-> Node(o)[i]]
           t == Traversal(Top, Node(o))
<1>1. /\ ~ ClientRuns /\ frames # << >> /\ UNCHANGED <<handle, refcount, table>>
      /\ frames' = Append(Front(frames), f)
      BY DEF sparse_iterator_next, ClientRuns
<1>2. /\ Top \in Frame /\ o \in Tables /\ table[o] \in Contents /\ i \in DOMAIN Node(o)
      BY <1>1, TopIsAFrame
<1>3. f \in Frame /\ f.owner = o /\ f.visiting = visit /\ f.current = Seek(o, i + 1)
      BY <1>1, CopiedIsAFrame
<1>4. i \in Nat /\ DOMAIN Node(o) \subseteq Nat
  <2>1. DOMAIN Node(o) \subseteq Indices
        BY <1>2, NodesOf
  <2>2. Indices \subseteq Nat
        BY SparseAssumption DEF Indices
  <2> QED  BY <1>2, <2>1, <2>2
<1>5. {j \in DOMAIN Node(o) : j >= f.current} = {j \in DOMAIN Node(o) : j >= i} \ {i}
  <2>1. \A j \in DOMAIN Node(o) : j >= i + 1 <=> j >= f.current
        BY <1>2, <1>3, <1>4, SeekFinds
  <2>2. \A j \in DOMAIN Node(o) : j >= i + 1 <=> j >= i /\ j # i
        BY <1>4
  <2> QED  BY <2>1, <2>2
<1>6. i \in {j \in DOMAIN Node(o) : j >= i}
      BY <1>2, <1>4
<1> HIDE DEF f
<1>7. /\ Traversals' = Append(Front(Traversals), Traversal(f, Node(f.owner)))
      /\ Names' = Names /\ Elements' = Elements
      BY <1>1, <1>3, GoingOnAlike
<1>8. Last(Traversals) = t
      BY <1>1, LastTraversal
<1>9. t = [of |-> o, left |-> {j \in DOMAIN Node(o) : j >= i}, visiting |-> Top.visiting]
      BY DEF Traversal
<1>10. i \in t.left /\ t.of = o /\ t.left = {j \in DOMAIN Node(o) : j >= i}
      BY <1>6, <1>9
<1>11. Traversal(f, Node(f.owner))
         = [of |-> o, left |-> {j \in DOMAIN Node(o) : j >= i} \ {i}, visiting |-> visit]
      BY <1>3, <1>5 DEF Traversal
<1>12. Elements[t.of].stored = Node(o)
  <2>1. table[o] # Freed
        BY <1>2, SparseAssumption
  <2> QED  BY <1>2, <1>10, <2>1, ElementsAre DEF Element, Node
<1>13. ~ Promise!ClientRuns
      BY <1>1, ClientRunsAlike
<1> HIDE DEF t
<1>14. Traversals' = Append(Front(Traversals),
           [of |-> t.of, left |-> t.left \ {i},
            visiting |-> [index |-> i, value |-> Elements[t.of].stored[i]]])
      BY <1>7, <1>10, <1>11, <1>12
<1>15. Promise!Visit
      BY <1>7, <1>8, <1>10, <1>13, <1>14
         DEF Promise!Visit, Promise!Last, Promise!Front, Last, Front
<1> QED  BY <1>15 DEF Promise!SNext

LEMMA ReturnImplements ==
    ASSUME IInv, ProcessReturns
    PROVE  Promise!SNext
<1> DEFINE f == [Top EXCEPT !.visiting = Nothing]
           t == Traversal(Top, Node(Top.owner))
<1>1. /\ ClientRuns /\ frames # << >> /\ UNCHANGED <<handle, refcount, table>>
      /\ frames' = Append(Front(frames), f)
      BY DEF ProcessReturns
<1>2. Top \in Frame
      BY <1>1, TopIsAFrame
<1>3. f \in Frame /\ f.owner = Top.owner /\ f.current = Top.current /\ f.visiting = Nothing
      BY <1>2 DEF Frame
<1> HIDE DEF f
<1>4. /\ Traversals' = Append(Front(Traversals), Traversal(f, Node(f.owner)))
      /\ Names' = Names /\ Elements' = Elements
      BY <1>1, <1>3, GoingOnAlike
<1>5. Last(Traversals) = t /\ Traversals # << >>
      BY <1>1, LastTraversal, TraversalsSequence
<1>6. Traversal(f, Node(f.owner)) = [t EXCEPT !.visiting = Nothing]
  <2> DEFINE left == {i \in DOMAIN Node(Top.owner) : i >= Top.current}
  <2>1. Traversal(f, Node(f.owner)) = [of |-> Top.owner, left |-> left, visiting |-> Nothing]
        BY <1>3 DEF Traversal
  <2>2. t = [of |-> Top.owner, left |-> left, visiting |-> Top.visiting]
        BY DEF Traversal
  <2> HIDE DEF left, t
  <2>3. [[of |-> Top.owner, left |-> left, visiting |-> Top.visiting] EXCEPT !.visiting = Nothing]
          = [of |-> Top.owner, left |-> left, visiting |-> Nothing]
        OBVIOUS
  <2> QED  BY <2>1, <2>2, <2>3
<1>7. Promise!ClientRuns
      BY <1>1, ClientRunsAlike
<1> HIDE DEF t
<1>8. Promise!Return
      BY <1>4, <1>5, <1>6, <1>7
         DEF Promise!Return, Promise!Last, Promise!Front, Last, Front
<1> QED  BY <1>8 DEF Promise!SNext

LEMMA EndImplements ==
    ASSUME IInv, Ending, ClientRuns \/ Top.current = Extent
    PROVE  Promise!SNext
<1>1. /\ frames' = Front(frames) /\ frames # << >> /\ handle' = handle
      /\ frames \in Seq(Frame) /\ frames' \in Seq(Frame)
      /\ DOMAIN frames' = 1 .. Len(frames) - 1 /\ Len(frames) \in Nat \ {0}
      /\ \A d \in DOMAIN frames' : d \in DOMAIN frames /\ frames'[d] = frames[d]
      /\ Counted(handle', refcount', frames')
      BY EndingCounts
<1>2. /\ Living' /\ \A t \in Tables : refcount'[t] # 0 => table'[t] = table[t]
      /\ \A d \in DOMAIN frames' : table'[frames'[d].owner] = table[frames'[d].owner]
      BY EndingTables
<1>3. Elements' = Promise!Remaining(Elements)
  <2>1. Elements' = Promise!Remaining([t \in Tables |-> Element(table[t])])
        BY <1>1, <1>2, RemainingAlike
  <2> QED  BY <2>1, ElementsAre
<1>4. Traversals' = Front(Traversals)
  <2> DEFINE n == Len(frames)
             S == {Traversals[d] : d \in 1 .. n}
  <2>1. /\ DOMAIN Traversals' = 1 .. n - 1
        /\ Traversals' = [d \in 1 .. n - 1 |-> Traversals'[d]]
        /\ \A d \in 1 .. n - 1 : Traversals'[d] = Traversals[d]
        BY <1>1, <1>2, TraversalsAre, TraversalsWillBe
  <2>2. Traversals \in Seq(S) /\ Len(Traversals) = n /\ Traversals # << >>
        BY <1>1, TraversalsSequence
  <2> HIDE DEF S
  <2>3. /\ Front(Traversals) \in Seq(S) /\ DOMAIN Front(Traversals) = 1 .. n - 1
        /\ \A d \in 1 .. n - 1 : Front(Traversals)[d] = Traversals[d]
        BY <2>2, FrontOf
  <2>4. Front(Traversals) = [d \in 1 .. n - 1 |-> Front(Traversals)[d]]
        BY <2>3, SequenceIs
  <2> QED  BY <2>1, <2>3, <2>4
<1>5. Names' = Names /\ Traversals # << >>
      BY <1>1, TraversalsSequence DEF Names, Is_Allocated
<1>6. Promise!ClientRuns \/ Last(Traversals).left = {}
  <2>1. CASE ClientRuns
        BY <2>1, ClientRunsAlike
  <2>2. CASE Top.current = Extent
    <3>1. Top.owner \in Tables /\ table[Top.owner] \in Contents
          BY <1>1, TopIsAFrame
    <3>2. \A i \in DOMAIN Node(Top.owner) : ~ (i >= Extent)
      <4>1. DOMAIN Node(Top.owner) \subseteq Indices
            BY <3>1, NodesOf
      <4>2. \A i \in Indices : ~ (i >= Extent)
            BY SparseAssumption DEF Indices
      <4> QED  BY <4>1, <4>2
    <3>3. Last(Traversals).left = {i \in DOMAIN Node(Top.owner) : i >= Top.current}
          BY <1>1, LastTraversal DEF Traversal
    <3> QED  BY <2>2, <3>2, <3>3
  <2> QED  BY <2>1, <2>2
<1>7. Promise!End
      BY <1>3, <1>4, <1>5, <1>6 DEF Promise!End, Promise!Last, Promise!Front, Last, Front
<1> QED  BY <1>7 DEF Promise!SNext

LEMMA InitImplements == Init => Promise!SInit
<1> SUFFICES ASSUME Init PROVE Promise!SInit
    OBVIOUS
<1>1. Names = [v \in Vars |-> Nothing]
      BY SentinelsOutside DEF Init, Names, Is_Allocated
<1>2. Elements = [t \in Tables |-> Freed]
      BY DEF Init, Elements
<1>3. Traversals = << >>
      BY DEF Init, Traversals
<1> QED  BY <1>1, <1>2, <1>3 DEF Promise!SInit

LEMMA NextImplements ==
    ASSUME IInv, Next
    PROVE  Promise!SNext
<1>1. CASE ClientRuns /\ Operation
  <2>1. Naming \/ Changing
        BY <1>1, OperationShape
  <2> QED  BY <1>1, <2>1, NamingImplements, ChangingImplements
<1>2. CASE \E v \in Vars, expected \in Expected : For_Each_Stored(v, expected)
  <2>1. Beginning /\ ClientRuns
        BY <1>2 DEF For_Each_Stored, Check_Layout, Is_Allocated, Beginning
  <2> QED  BY <2>1, BeginningImplements
<1>3. CASE sparse_iterator_next
  <2>1. CASE Top.current = Extent
    <3>1. Ending
          BY <1>3, <2>1 DEF sparse_iterator_next, Ending, ClientRuns
    <3> QED  BY <2>1, <3>1, EndImplements
  <2>2. CASE Top.current # Extent
        BY <1>3, <2>2, VisitImplements
  <2> QED  BY <2>1, <2>2
<1>4. CASE ProcessReturns
      BY <1>4, ReturnImplements
<1>5. CASE ProcessRaises
      BY <1>5, EndImplements DEF ProcessRaises, Ending
<1> QED  BY <1>1, <1>2, <1>3, <1>4, <1>5 DEF Next

\* Objects name collections of elements and a traversal visits each element
\* once with its present value, for any number of objects, tables and
\* positions: every step is one that StoredElements allows.
THEOREM ImplementsStoredElements == Spec => KeepsElements
<1>1. Init => Promise!SInit
      BY InitImplements
<1>2. IInv /\ [Next]_vars => [Promise!SNext]_(Promise!svars)
  <2> SUFFICES ASSUME IInv, [Next]_vars PROVE Promise!SNext \/ UNCHANGED Promise!svars
      OBVIOUS
  <2>1. CASE Next
        BY <2>1, NextImplements
  <2>2. CASE UNCHANGED vars
        BY <2>2 DEF vars, Promise!svars, Names, Is_Allocated, Elements, Traversals, Left, Node
  <2> QED  BY <2>1, <2>2
<1> QED  BY <1>1, <1>2, InvariantHolds, PTL DEF Spec, KeepsElements, Promise!StoredSpec

-----------------------------------------------------------------------------
(***************************************************************************)
(* Reads agree with what is stored.                                        *)
(***************************************************************************)
\* Two functions of the subsets of a finite set are the same if each subset has
\* an element without which they are the same only if they are the same with it.
LEMMA SameOnSubsets ==
    ASSUME NEW D, IsFiniteSet(D), NEW G, NEW H, G[{}] = H[{}],
           \A t \in SUBSET D : t # {} =>
               \E i \in t : G[t \ {i}] = H[t \ {i}] => G[t] = H[t]
    PROVE  G[D] = H[D]
<1> DEFINE Differ == {t \in SUBSET D : G[t] # H[t]}
<1> SUFFICES ASSUME Differ # {} PROVE FALSE
    OBVIOUS
<1>1. Differ \subseteq FiniteSubsetsOf(D)
      BY FS_Subset DEF FiniteSubsetsOf
<1>2. IsWellFoundedOn(StrictSubsetOrdering(D), FiniteSubsetsOf(D))
      BY FS_StrictSubsetOrderingWellFounded
<1>3. \A t \in Differ : t \in SUBSET D /\ G[t] # H[t] /\ t # {}
      OBVIOUS
<1>4. \A t \in SUBSET D : t \notin Differ => G[t] = H[t]
      OBVIOUS
<1> HIDE DEF Differ
<1>5. PICK least \in Differ : \A t \in Differ : <<t, least>> \notin StrictSubsetOrdering(D)
      BY <1>1, <1>2, WFMin
<1>6. PICK i \in least : G[least \ {i}] = H[least \ {i}] => G[least] = H[least]
      BY <1>3
<1>7. <<least \ {i}, least>> \in StrictSubsetOrdering(D) /\ least \ {i} \in SUBSET D
      BY <1>3 DEF StrictSubsetOrdering
<1> QED  BY <1>3, <1>4, <1>5, <1>6, <1>7

\* A nonempty finite set of positions has a last one, and a first.
LEMMA LastAndFirst ==
    ASSUME NEW D \in SUBSET Indices, D # {}
    PROVE  /\ Max(D) \in D /\ \A y \in D : y <= Max(D)
           /\ Min(D) \in D /\ \A y \in D : Min(D) <= y
<1>1. Extent \in Nat /\ \A y \in D : y \in 0 .. Extent - 1
      BY SparseAssumption DEF Indices
<1> DEFINE Mirrored == {Extent - y : y \in D}
<1>2. Mirrored \in SUBSET (0 .. Extent) /\ Mirrored # {}
      BY <1>1
<1>3. D \in SUBSET (0 .. Extent)
      BY <1>1
<1> HIDE DEF Mirrored
<1>4. Min(Mirrored) \in Mirrored /\ \A y \in Mirrored : Min(Mirrored) <= y
      BY <1>1, <1>2, LeastElement
<1>5. Min(D) \in D /\ \A y \in D : Min(D) <= y
      BY <1>1, <1>3, LeastElement
<1>6. PICK m \in D : Min(Mirrored) = Extent - m
      BY <1>4 DEF Mirrored
<1>7. ASSUME NEW y \in D PROVE m >= y
  <2>1. Extent - y \in Mirrored
        BY DEF Mirrored
  <2>2. Extent - m <= Extent - y
        BY <1>4, <1>6, <2>1
  <2> QED  BY <1>1, <2>2
<1>8. Max(D) \in D /\ \A y \in D : Max(D) >= y
      BY <1>7 DEF Max
<1> QED  BY <1>1, <1>5, <1>8

\* An order of the values, with which one walk stands for both.
Order(R) ==
    /\ \A a \in Int : <<a, a>> \notin R
    /\ \A a \in Int, b \in Int, c \in Int : <<a, b>> \in R /\ <<b, c>> \in R => <<a, c>> \in R
    /\ \A a \in Int, b \in Int : a = b \/ <<a, b>> \in R \/ <<b, a>> \in R

Less == {p \in Int \X Int : p[1] < p[2]}
Greater == {p \in Int \X Int : p[1] > p[2]}

LEMMA BothAreOrders ==
    /\ Order(Less) /\ Order(Greater)
    /\ \A a \in Int, b \in Int : /\ <<a, b>> \in Less <=> a < b
                                 /\ <<a, b>> \in Greater <=> a > b
<1>1. \A a \in Int, b \in Int : /\ <<a, b>> \in Less <=> a < b
                                /\ <<a, b>> \in Greater <=> a > b
      BY DEF Less, Greater
<1>2. Order(Less)
      BY <1>1 DEF Order
<1>3. Order(Greater)
      BY <1>1 DEF Order
<1> QED  BY <1>1, <1>2, <1>3

None(seed) == [value |-> seed, at |-> -1]
Here(node, i) == [value |-> node[i], at |-> i]

\* What the walk has found when it has seen the nodes of t.
First(R, seed, node, t, i) ==
    /\ <<node[i], seed>> \in R
    /\ \A j \in t : <<node[j], node[i]>> \notin R /\ (j < i => node[j] # node[i])

Seen(R, seed, node, t, side) ==
    \/ side = None(seed) /\ \A j \in t : <<node[j], seed>> \notin R
    \/ \E i \in t : side = Here(node, i) /\ First(R, seed, node, t, i)

LEMMA FoundOnce ==
    ASSUME NEW R, Order(R), NEW seed \in Int, NEW t \in SUBSET Indices, NEW node,
           \A i \in t : node[i] \in Int,
           NEW side, Seen(R, seed, node, t, side), NEW other, Seen(R, seed, node, t, other)
    PROVE  side = other
<1>1. \A i \in t : i \in Int
      BY SparseAssumption DEF Indices
<1>2. \A i \in t, k \in t : First(R, seed, node, t, i) /\ First(R, seed, node, t, k) => i = k
  <2> SUFFICES ASSUME NEW i \in t, NEW k \in t,
                      First(R, seed, node, t, i), First(R, seed, node, t, k)
               PROVE  i = k
      OBVIOUS
  <2>1. node[i] = node[k]
        BY DEF First, Order
  <2>2. ~ (i < k) /\ ~ (k < i)
        BY <2>1 DEF First
  <2> QED  BY <1>1, <2>2
<1>3. \A i \in t : First(R, seed, node, t, i) => <<node[i], seed>> \in R
      BY DEF First
<1> QED  BY <1>2, <1>3 DEF Seen

\* One node more, behind those seen.
Further(R, node, i, side) == IF <<node[i], side.value>> \in R THEN Here(node, i) ELSE side

LEMMA FoundWithOneMore ==
    ASSUME NEW R, Order(R), NEW seed \in Int, NEW t \in SUBSET Indices, NEW node,
           \A i \in t : node[i] \in Int,
           NEW last \in t, \A i \in t : i <= last,
           NEW side, Seen(R, seed, node, t \ {last}, side)
    PROVE  Seen(R, seed, node, t, Further(R, node, last, side))
<1>1. \A i \in t : i \in Int
      BY SparseAssumption DEF Indices
<1>2. CASE side = None(seed) /\ \A j \in t \ {last} : <<node[j], seed>> \notin R
  <2>1. side.value = seed
        BY <1>2 DEF None
  <2>2. CASE <<node[last], seed>> \in R
    <3>1. \A j \in t : <<node[j], node[last]>> \notin R /\ (j < last => node[j] # node[last])
      <4>1. <<node[last], node[last]>> \notin R /\ ~ (last < last)
            BY <1>1 DEF Order
      <4>2. \A j \in t \ {last} : node[j] # node[last]
            BY <1>2, <2>2
      <4>3. \A j \in t \ {last} : <<node[j], node[last]>> \notin R
            BY <1>2, <2>2 DEF Order
      <4> QED  BY <4>1, <4>2, <4>3
    <3>2. First(R, seed, node, t, last)
          BY <2>2, <3>1 DEF First
    <3>3. Further(R, node, last, side) = Here(node, last)
          BY <2>1, <2>2 DEF Further
    <3> QED  BY <3>2, <3>3 DEF Seen
  <2>3. CASE <<node[last], seed>> \notin R
    <3>1. Further(R, node, last, side) = None(seed)
          BY <1>2, <2>1, <2>3 DEF Further
    <3> QED  BY <1>2, <2>3, <3>1 DEF Seen
  <2> QED  BY <2>2, <2>3
<1>3. CASE \E i \in t \ {last} : side = Here(node, i) /\ First(R, seed, node, t \ {last}, i)
  <2>1. PICK i \in t \ {last} : side = Here(node, i) /\ First(R, seed, node, t \ {last}, i)
        BY <1>3
  <2>2. /\ side.value = node[i] /\ i \in t /\ <<node[i], seed>> \in R
        /\ \A j \in t \ {last} : <<node[j], node[i]>> \notin R /\ (j < i => node[j] # node[i])
        /\ node[i] \in Int /\ node[last] \in Int /\ ~ (last < i)
        BY <1>1, <2>1 DEF Here, First
  <2>3. CASE <<node[last], node[i]>> \in R
    <3>1. <<node[last], seed>> \in R
          BY <2>2, <2>3 DEF Order
    <3>2. \A j \in t \ {last} : <<node[j], node[last]>> \notin R /\ node[j] # node[last]
          BY <2>2, <2>3 DEF Order
    <3>3. <<node[last], node[last]>> \notin R /\ ~ (last < last)
          BY <1>1, <2>2 DEF Order
    <3>4. First(R, seed, node, t, last)
          BY <3>1, <3>2, <3>3 DEF First
    <3>5. Further(R, node, last, side) = Here(node, last)
          BY <2>2, <2>3 DEF Further
    <3> QED  BY <3>4, <3>5 DEF Seen
  <2>4. CASE <<node[last], node[i]>> \notin R
    <3>1. First(R, seed, node, t, i)
          BY <2>2, <2>4 DEF First
    <3>2. Further(R, node, last, side) = Here(node, i)
          BY <2>1, <2>2, <2>4 DEF Further
    <3> QED  BY <2>2, <3>1, <3>2 DEF Seen
  <2> QED  BY <2>3, <2>4
<1> QED  BY <1>2, <1>3 DEF Seen

\* Something is found, whichever nodes there are.
LEMMA SomethingIsFound ==
    ASSUME NEW R, Order(R), NEW seed \in Int, NEW D \in SUBSET Indices, NEW node \in [D -> Int]
    PROVE  \A t \in SUBSET D : \E side : Seen(R, seed, node, t, side)
<1> DEFINE Holds(t) == \E side : Seen(R, seed, node, t, side)
           G == [t \in SUBSET D |-> Holds(t)]
           H == [t \in SUBSET D |-> TRUE]
<1>1. Holds({})
      BY DEF Seen
<1>2. ASSUME NEW t \in SUBSET D, t # {}, Holds(t \ {Max(t)}) PROVE Holds(t)
  <2>1. t \in SUBSET Indices /\ Max(t) \in t /\ \A i \in t : i <= Max(t)
        BY <1>2, LastAndFirst
  <2>2. \A i \in t : node[i] \in Int
        OBVIOUS
  <2>3. PICK side : Seen(R, seed, node, t \ {Max(t)}, side)
        BY <1>2
  <2>4. Seen(R, seed, node, t, Further(R, node, Max(t), side))
        BY <2>1, <2>2, <2>3, FoundWithOneMore
  <2> QED  BY <2>4
<1>3. \A t \in SUBSET D : t # {} => Max(t) \in t
      BY LastAndFirst
<1> HIDE DEF Holds
<1>4. ASSUME NEW s \in SUBSET D PROVE Holds(s)
  <2>1. IsFiniteSet(s)
    <3>1. IsFiniteSet(0 .. Extent - 1)
          BY SparseAssumption, FS_Interval
    <3> QED  BY <3>1, FS_Subset DEF Indices
  <2>2. G[{}] = H[{}]
        BY <1>1
  <2>3. \A t \in SUBSET s : t # {} => \E i \in t : G[t \ {i}] = H[t \ {i}] => G[t] = H[t]
    <3> SUFFICES ASSUME NEW t \in SUBSET s, t # {}, G[t \ {Max(t)}] = H[t \ {Max(t)}]
                 PROVE  G[t] = H[t]
        BY <1>3
    <3>1. t \in SUBSET D /\ t \ {Max(t)} \in SUBSET D
          OBVIOUS
    <3>2. Holds(t \ {Max(t)})
          BY <3>1
    <3>3. Holds(t)
          BY <1>2, <3>1, <3>2
    <3> QED  BY <3>1, <3>3
  <2> HIDE DEF G, H
  <2>4. G[s] = H[s]
        BY <2>1, <2>2, <2>3, SameOnSubsets
  <2> QED  BY <2>4 DEF G, H
<1> QED  BY <1>4 DEF Holds

\* The walk over the nodes of D finds what there is, below or above its seed.
LEMMA WalkFindsLeast ==
    ASSUME NEW seed \in Int, NEW D \in SUBSET Indices, NEW node \in [D -> Int]
    PROVE  Seen(Less, seed, node, D, Lowest(seed, node))
<1> DEFINE Base == [value |-> seed, at |-> -1]
           Step(g) == [t \in SUBSET D |->
                         IF t = {} THEN Base
                         ELSE IF node[Max(t)] < g[t \ {Max(t)}].value
                              THEN [value |-> node[Max(t)], at |-> Max(t)] ELSE g[t \ {Max(t)}]]
           G == [t \in SUBSET D |-> CHOOSE side : Seen(Less, seed, node, t, side)]
           iter == CHOOSE g : g = Step(g)
<1>1. Lowest(seed, node) = iter[D]
  <2>1. DOMAIN node = D
        OBVIOUS
  <2> QED  BY <2>1 DEF Lowest, Found, MapThenFoldSet
<1>2. \A t \in SUBSET D : Seen(Less, seed, node, t, G[t])
      BY SomethingIsFound, BothAreOrders
<1>3. G[{}] = Base
  <2>1. Seen(Less, seed, node, {}, G[{}])
        BY <1>2
  <2> QED  BY <2>1 DEF Seen, None
<1>4. ASSUME NEW t \in SUBSET D, t # {}
      PROVE  /\ Max(t) \in t
             /\ G[t] = IF node[Max(t)] < G[t \ {Max(t)}].value
                       THEN [value |-> node[Max(t)], at |-> Max(t)] ELSE G[t \ {Max(t)}]
  <2> DEFINE last == Max(t)
             rest == t \ {last}
  <2>1. t \in SUBSET Indices /\ last \in t /\ \A i \in t : i <= last
        BY <1>4, LastAndFirst
  <2>2. \A i \in t : node[i] \in Int
        OBVIOUS
  <2>3. Seen(Less, seed, node, rest, G[rest]) /\ Seen(Less, seed, node, t, G[t])
        BY <1>2
  <2> HIDE DEF last, G
  <2>4. Seen(Less, seed, node, t, Further(Less, node, last, G[rest]))
        BY <2>1, <2>2, <2>3, FoundWithOneMore, BothAreOrders
  <2>5. G[t] = Further(Less, node, last, G[rest])
        BY <2>1, <2>2, <2>3, <2>4, FoundOnce, BothAreOrders
  <2>6. G[rest].value \in Int /\ node[last] \in Int
    <3>1. None(seed).value = seed /\ \A i \in rest : Here(node, i).value = node[i]
          BY DEF None, Here
    <3> QED  BY <2>1, <2>2, <2>3, <3>1 DEF Seen
  <2>7. <<node[last], G[rest].value>> \in Less <=> node[last] < G[rest].value
        BY <2>6, BothAreOrders
  <2> QED  BY <2>1, <2>5, <2>7 DEF Further, Here, last
<1> HIDE DEF Base
<1>5. G = Step(G)
  <2>1. G = [t \in SUBSET D |-> G[t]]
        OBVIOUS
  <2> HIDE DEF G
  <2> QED  BY <1>3, <1>4, <2>1
<1> HIDE DEF G
<1>6. iter = Step(iter)
      BY <1>5
<1> HIDE DEF iter
<1>7. iter[{}] = G[{}]
      BY <1>3, <1>6
<1>8. \A t \in SUBSET D : t # {} => \E i \in t : iter[t \ {i}] = G[t \ {i}] => iter[t] = G[t]
  <2> SUFFICES ASSUME NEW t \in SUBSET D, t # {}, iter[t \ {Max(t)}] = G[t \ {Max(t)}]
               PROVE  iter[t] = G[t]
      BY <1>4
  <2>1. iter[t] = IF node[Max(t)] < iter[t \ {Max(t)}].value
                  THEN [value |-> node[Max(t)], at |-> Max(t)] ELSE iter[t \ {Max(t)}]
        BY <1>6
  <2> QED  BY <1>4, <2>1
<1>9. IsFiniteSet(D)
  <2>1. IsFiniteSet(0 .. Extent - 1)
        BY SparseAssumption, FS_Interval
  <2> QED  BY <2>1, FS_Subset DEF Indices
<1>10. iter[D] = G[D]
      BY <1>7, <1>8, <1>9, SameOnSubsets
<1> QED  BY <1>1, <1>2, <1>10

LEMMA WalkFindsGreatest ==
    ASSUME NEW seed \in Int, NEW D \in SUBSET Indices, NEW node \in [D -> Int]
    PROVE  Seen(Greater, seed, node, D, Highest(seed, node))
<1> DEFINE Base == [value |-> seed, at |-> -1]
           Step(g) == [t \in SUBSET D |->
                         IF t = {} THEN Base
                         ELSE IF node[Max(t)] > g[t \ {Max(t)}].value
                              THEN [value |-> node[Max(t)], at |-> Max(t)] ELSE g[t \ {Max(t)}]]
           G == [t \in SUBSET D |-> CHOOSE side : Seen(Greater, seed, node, t, side)]
           iter == CHOOSE g : g = Step(g)
<1>1. Highest(seed, node) = iter[D]
  <2>1. DOMAIN node = D
        OBVIOUS
  <2> QED  BY <2>1 DEF Highest, Found, MapThenFoldSet
<1>2. \A t \in SUBSET D : Seen(Greater, seed, node, t, G[t])
      BY SomethingIsFound, BothAreOrders
<1>3. G[{}] = Base
  <2>1. Seen(Greater, seed, node, {}, G[{}])
        BY <1>2
  <2> QED  BY <2>1 DEF Seen, None
<1>4. ASSUME NEW t \in SUBSET D, t # {}
      PROVE  /\ Max(t) \in t
             /\ G[t] = IF node[Max(t)] > G[t \ {Max(t)}].value
                       THEN [value |-> node[Max(t)], at |-> Max(t)] ELSE G[t \ {Max(t)}]
  <2> DEFINE last == Max(t)
             rest == t \ {last}
  <2>1. t \in SUBSET Indices /\ last \in t /\ \A i \in t : i <= last
        BY <1>4, LastAndFirst
  <2>2. \A i \in t : node[i] \in Int
        OBVIOUS
  <2>3. Seen(Greater, seed, node, rest, G[rest]) /\ Seen(Greater, seed, node, t, G[t])
        BY <1>2
  <2> HIDE DEF last, G
  <2>4. Seen(Greater, seed, node, t, Further(Greater, node, last, G[rest]))
        BY <2>1, <2>2, <2>3, FoundWithOneMore, BothAreOrders
  <2>5. G[t] = Further(Greater, node, last, G[rest])
        BY <2>1, <2>2, <2>3, <2>4, FoundOnce, BothAreOrders
  <2>6. G[rest].value \in Int /\ node[last] \in Int
    <3>1. None(seed).value = seed /\ \A i \in rest : Here(node, i).value = node[i]
          BY DEF None, Here
    <3> QED  BY <2>1, <2>2, <2>3, <3>1 DEF Seen
  <2>7. <<node[last], G[rest].value>> \in Greater <=> node[last] > G[rest].value
        BY <2>6, BothAreOrders
  <2> QED  BY <2>1, <2>5, <2>7 DEF Further, Here, last
<1> HIDE DEF Base
<1>5. G = Step(G)
  <2>1. G = [t \in SUBSET D |-> G[t]]
        OBVIOUS
  <2> HIDE DEF G
  <2> QED  BY <1>3, <1>4, <2>1
<1> HIDE DEF G
<1>6. iter = Step(iter)
      BY <1>5
<1> HIDE DEF iter
<1>7. iter[{}] = G[{}]
      BY <1>3, <1>6
<1>8. \A t \in SUBSET D : t # {} => \E i \in t : iter[t \ {i}] = G[t \ {i}] => iter[t] = G[t]
  <2> SUFFICES ASSUME NEW t \in SUBSET D, t # {}, iter[t \ {Max(t)}] = G[t \ {Max(t)}]
               PROVE  iter[t] = G[t]
      BY <1>4
  <2>1. iter[t] = IF node[Max(t)] > iter[t \ {Max(t)}].value
                  THEN [value |-> node[Max(t)], at |-> Max(t)] ELSE iter[t \ {Max(t)}]
        BY <1>6
  <2> QED  BY <1>4, <2>1
<1>9. IsFiniteSet(D)
  <2>1. IsFiniteSet(0 .. Extent - 1)
        BY SparseAssumption, FS_Interval
  <2> QED  BY <2>1, FS_Subset DEF Indices
<1>10. iter[D] = G[D]
      BY <1>7, <1>8, <1>9, SameOnSubsets
<1> QED  BY <1>1, <1>2, <1>10

\* The nodes that none is beyond.
Foremost(R, seed, node, D) ==
    {i \in D : <<node[i], seed>> \in R /\ \A j \in D : <<node[j], node[i]>> \notin R}

\* What was found is where StoredElements looks for it.
LEMMA FoundIsLocated ==
    ASSUME NEW v, NEW seed \in Int, NEW D \in SUBSET Indices, NEW node \in [D -> Int],
           Elements[Names[v]].stored = node,
           NEW R, NEW side, Seen(R, seed, node, D, side)
    PROVE  Located(side, Foremost(R, seed, node, D), v)
<1> DEFINE found == Foremost(R, seed, node, D)
<1>1. DOMAIN node = D
      OBVIOUS
<1>2. CASE side = None(seed) /\ \A j \in D : <<node[j], seed>> \notin R
  <2>1. found = {}
        BY <1>2 DEF Foremost
  <2> QED  BY <1>2, <2>1 DEF Located, None
<1>3. CASE \E i \in D : side = Here(node, i) /\ First(R, seed, node, D, i)
  <2>1. PICK i \in D : side = Here(node, i) /\ First(R, seed, node, D, i)
        BY <1>3
  <2>2. i \in found
        BY <2>1 DEF First, Foremost
  <2>3. side.at = i /\ side.value = node[i]
        BY <2>1 DEF Here
  <2>4. Promise!Value(v, i) = node[i]
        BY <1>1 DEF Promise!Value
  <2> QED  BY <2>2, <2>3, <2>4 DEF Located
<1> QED  BY <1>2, <1>3 DEF Seen

\* The extrema of an object's nodes.
LEMMA ExtremaAreLocated ==
    ASSUME NEW v, NEW D \in SUBSET Indices, NEW node \in [D -> Int],
           Elements[Names[v]].stored = node
    PROVE  /\ Located(Lowest(Largest, node), Promise!MinimumAt(v, Largest), v)
           /\ Located(Highest(Least, node), Promise!MaximumAt(v, Least), v)
<1>1. DOMAIN node = D /\ Largest \in Int /\ Least \in Int
      BY SparseAssumption
<1>2. Promise!MinimumAt(v, Largest) = Foremost(Less, Largest, node, D)
  <2>1. \A i \in D : /\ <<node[i], Largest>> \in Less <=> node[i] < Largest
                     /\ \A j \in D : <<node[j], node[i]>> \notin Less <=> node[i] <= node[j]
        BY <1>1, BothAreOrders
  <2>2. Promise!MinimumAt(v, Largest) =
            {i \in D : node[i] < Largest /\ \A j \in D : node[i] <= node[j]}
        BY <1>1 DEF Promise!MinimumAt
  <2> QED  BY <2>1, <2>2 DEF Foremost
<1>3. Promise!MaximumAt(v, Least) = Foremost(Greater, Least, node, D)
  <2>1. \A i \in D : /\ <<node[i], Least>> \in Greater <=> node[i] > Least
                     /\ \A j \in D : <<node[j], node[i]>> \notin Greater <=> node[i] >= node[j]
        BY <1>1, BothAreOrders
  <2>2. Promise!MaximumAt(v, Least) =
            {i \in D : node[i] > Least /\ \A j \in D : node[i] >= node[j]}
        BY <1>1 DEF Promise!MaximumAt
  <2> QED  BY <2>1, <2>2 DEF Foremost
<1>4. Located(Lowest(Largest, node), Promise!MinimumAt(v, Largest), v)
  <2> DEFINE side == Lowest(Largest, node)
  <2>1. Seen(Less, Largest, node, D, side)
        BY <1>1, WalkFindsLeast
  <2> HIDE DEF side
  <2>2. Located(side, Foremost(Less, Largest, node, D), v)
        BY <1>1, <2>1, FoundIsLocated
  <2> QED  BY <1>2, <2>2 DEF side
<1>5. Located(Highest(Least, node), Promise!MaximumAt(v, Least), v)
  <2> DEFINE side == Highest(Least, node)
  <2>1. Seen(Greater, Least, node, D, side)
        BY <1>1, WalkFindsGreatest
  <2> HIDE DEF side
  <2>2. Located(side, Foremost(Greater, Least, node, D), v)
        BY <1>1, <2>1, FoundIsLocated
  <2> QED  BY <1>3, <2>2 DEF side
<1> QED  BY <1>4, <1>5

\* In every reachable state reads give what is stored.
LEMMA InvariantReads == IInv => ReadsAgree
<1> SUFFICES ASSUME IInv, NEW v \in Vars
             PROVE  IF Is_Allocated(v)
        THEN /\ \A i \in 0 .. Extent, expected \in Expected :
                  Get(v, i, expected) = IF i \in Indices /\ expected = table[handle[v]].layout
                                        THEN Promise!Value(v, i) ELSE Refused
             /\ \A i \in Indices : sparse_contains(v, i) <=> i \in DOMAIN Node(handle[v])
             /\ To_Dense(v) = [i \in Indices |-> Promise!Value(v, i)]
             /\ Min_Max_Loc(v) /= Refused =>
                  /\ Located(Min_Max_Loc(v).minimum, Promise!MinimumAt(v, Largest), v)
                  /\ Located(Min_Max_Loc(v).maximum, Promise!MaximumAt(v, Least), v)
        ELSE {Get(v, 0, expected) : expected \in Expected} \cup {sparse_contains(v, 0), To_Dense(v)} = {Refused}
    BY DEF ReadsAgree
<1>1. CASE Is_Allocated(v)
  <2> DEFINE t == handle[v]
  <2>1. t \in Tables /\ table[t] \in Contents
        BY <1>1, HeldIsThere DEF Is_Allocated
  <2>2. DOMAIN Node(t) \subseteq Indices /\ \A i \in DOMAIN Node(t) : Node(t)[i] \in Values
        BY <2>1, NodesOf
  <2>3. Names[v] = t /\ Elements[t].stored = Node(t)
        BY <1>1, <2>1, SparseAssumption DEF Names, Elements, Node
  <2>4. \A i : Promise!Value(v, i) = IF i \in DOMAIN Node(t) THEN Node(t)[i] ELSE 0
        BY <2>3 DEF Promise!Value
  <2>5. \A i \in 0 .. Extent : i \in Indices <=> i < Extent /\ 0 <= i
        BY SparseAssumption DEF Indices
  <2>6. Node(t) \in [DOMAIN Node(t) -> Int]
    <3>1. Node(t) = [i \in DOMAIN Node(t) |-> Node(t)[i]]
          BY <2>1, NodesOf DEF Stores
    <3> QED  BY <2>2, <3>1, SparseAssumption
  <2>7. \A i \in 0 .. Extent, expected \in Expected :
            Get(v, i, expected) = IF i \in Indices /\ expected = table[t].layout
                                  THEN Promise!Value(v, i) ELSE Refused
        BY <1>1, <2>1, <2>4, <2>5
           DEF Get, Check_Indices, Check_Layout, sparse_access, sparse_indices
  <2>8. \A i \in Indices : sparse_contains(v, i) <=> i \in DOMAIN Node(t)
    <3>1. \A i \in Indices : i \in 0 .. Extent
          BY SparseAssumption DEF Indices
    <3> QED  BY <1>1, <2>1, <2>5, <3>1 DEF sparse_contains, Check_Indices, sparse_indices
  <2>9. To_Dense(v) = [i \in Indices |-> Promise!Value(v, i)]
        BY <1>1, <2>4 DEF To_Dense
  <2>10. Min_Max_Loc(v) /= Refused =>
             /\ Located(Min_Max_Loc(v).minimum, Promise!MinimumAt(v, Largest), v)
             /\ Located(Min_Max_Loc(v).maximum, Promise!MaximumAt(v, Least), v)
    <3> HAVE Min_Max_Loc(v) /= Refused
    <3>1. /\ Min_Max_Loc(v).minimum = Lowest(Largest, Node(t))
          /\ Min_Max_Loc(v).maximum = Highest(Least, Node(t))
          BY DEF Min_Max_Loc
    <3>2. /\ Located(Lowest(Largest, Node(t)), Promise!MinimumAt(v, Largest), v)
          /\ Located(Highest(Least, Node(t)), Promise!MaximumAt(v, Least), v)
          BY <2>2, <2>3, <2>6, ExtremaAreLocated
    <3> QED  BY <3>1, <3>2
  <2> QED  BY <1>1, <2>7, <2>8, <2>9, <2>10
<1>2. CASE ~ Is_Allocated(v)
  <2>1. \A expected \in Expected : Get(v, 0, expected) = Refused
        BY <1>2 DEF Get, Check_Indices
  <2>2. sparse_contains(v, 0) = Refused
        BY <1>2 DEF sparse_contains, Check_Indices
  <2>3. To_Dense(v) = Refused
        BY <1>2 DEF To_Dense
  <2> QED  BY <1>2, <2>1, <2>2, <2>3
<1> QED  BY <1>1, <1>2

\* Reads of an object give what the table it shares has stored, a dense copy
\* has zeros elsewhere, and an extremum is published exactly when a stored
\* value is beyond where the search begins, with one of its places.
THEOREM ReadsGiveWhatIsStored == Spec => []ReadsAgree
<1> QED  BY InvariantHolds, InvariantReads, PTL
=============================================================================
