-------------------------- MODULE FileStorageProofs --------------------------
(***************************************************************************)
(* Theorems about FileStorage, for any names, payloads, leaf types and     *)
(* bounds: every document is well formed, the writer's stacks agree, the   *)
(* reader's stack is a path, and FileStorage implements DocumentTree.      *)
(*                                                                         *)
(* The first three are proved together.  Whether an entry may be named is  *)
(* asked of the shim's stack, where it goes is decided by OpenCV's:        *)
(* documents are well formed because the two agree, level by level.        *)
(*                                                                         *)
(* The refinement adds what makes a document a tree: a path leads to one   *)
(* node (PathsDiffer), keys and paths stay what they are while nodes are   *)
(* added (KeysContinue, PathsContinue), and the paths below a node's are   *)
(* those of the nodes below it (ChildrenAre).                              *)
(***************************************************************************)
EXTENDS FileStorage, FiniteSetTheorems, WellFoundedInduction, TLAPS

-----------------------------------------------------------------------------
(***************************************************************************)
(* Sequences.                                                              *)
(***************************************************************************)
LEMMA Nonempty ==
    ASSUME NEW S, NEW s \in Seq(S), s # << >>
    PROVE  Len(s) \in Nat \ {0}
OBVIOUS

LEMMA FrontOf ==
    ASSUME NEW S, NEW s \in Seq(S), s # << >>
    PROVE  /\ Front(s) \in Seq(S) /\ Len(Front(s)) = Len(s) - 1
           /\ DOMAIN Front(s) = 1 .. Len(s) - 1
           /\ \A i \in 1 .. Len(s) - 1 : Front(s)[i] = s[i]
<1> DEFINE n == Len(s) - 1
<1>1. n \in Nat /\ n <= Len(s)
      BY Nonempty
<1> HIDE DEF n
<1>2. Len(SubSeq(s, 1, n)) = n
      BY <1>1
<1>3. \A i \in 1 .. n : SubSeq(s, 1, n)[i] = s[i]
      BY <1>1
<1>4. SubSeq(s, 1, n) \in Seq(S)
      BY <1>1
<1> QED  BY <1>1, <1>2, <1>3, <1>4 DEF Front, n

LEMMA LastOf ==
    ASSUME NEW S, NEW s \in Seq(S), s # << >>
    PROVE  Last(s) \in S /\ Last(s) = s[Len(s)] /\ Len(s) \in DOMAIN s
BY Nonempty DEF Last

LEMMA AppendOf ==
    ASSUME NEW S, NEW s \in Seq(S), NEW e \in S
    PROVE  /\ Append(s, e) \in Seq(S) /\ Len(Append(s, e)) = Len(s) + 1
           /\ DOMAIN Append(s, e) = 1 .. Len(s) + 1
           /\ DOMAIN s = 1 .. Len(s) /\ Len(s) \in Nat
           /\ Append(s, e)[Len(s) + 1] = e
           /\ \A i \in 1 .. Len(s) : Append(s, e)[i] = s[i]
OBVIOUS

LEMMA IsASequence ==
    ASSUME NEW S, NEW n \in Nat, NEW s \in [1 .. n -> S]
    PROVE  s \in Seq(S) /\ Len(s) = n /\ DOMAIN s = 1 .. n
OBVIOUS

LEMMA NoElements == \A S : << >> \in Seq(S) /\ Len(<< >>) = 0 /\ DOMAIN << >> = {}
OBVIOUS

-----------------------------------------------------------------------------
(***************************************************************************)
(* The invariant.                                                          *)
(***************************************************************************)
Document(nodes) == nodes \in Seq(Node) /\ Len(nodes) <= MaxNodes /\ WellFormed(nodes)

\* The layers agree on what the object is for; the client knows how deep it is.
Roles ==
    /\ ~ self.Handle => shim = NewShim(FALSE, FALSE) /\ native = Closed
    /\ self.Handle => (shim.write_mode <=> self.Mode = "Write_Only")
    /\ shim.write_mode => shim.read_context_stack = << >>
    /\ client = [path |-> client.path, got |-> client.got]
    /\ Len(client.path) = Len(shim.read_context_stack)

StackInDocument == \A d \in DOMAIN native.stack : native.stack[d] \in DOMAIN native.nodes

Documents ==
    /\ Document(native.nodes)
    /\ \A b \in Backends : medium[b] # Nothing => Document(medium[b])

IInv ==
    /\ TypeOK /\ Roles /\ Documents
    /\ StackInDocument /\ StacksAgree /\ ReadContextIsAPath

-----------------------------------------------------------------------------
(***************************************************************************)
(* Documents.                                                              *)
(***************************************************************************)
LEMMA EmptyDocument == Document(<< >>)
BY NoElements, PersistenceAssumption DEF Document, WellFormed

\* What the parser may not recognise has no entries, so that no entry loses
\* the mapping it is in.
LEMMA ParsedDocument ==
    ASSUME NEW nodes, Document(nodes), NEW parsed \in Parsed(nodes)
    PROVE  Document(parsed)
<1>1. PICK lost \in SUBSET {i \in DOMAIN nodes : nodes[i].kind = "map" /\ ChildrenOf(nodes, i) = {}} :
         parsed = [i \in DOMAIN nodes |-> IF i \in lost THEN [nodes[i] EXCEPT !.kind = "absent"]
                                          ELSE nodes[i]]
      BY DEF Parsed
<1>2. nodes \in Seq(Node) /\ Len(nodes) \in Nat /\ DOMAIN nodes = 1 .. Len(nodes)
      BY DEF Document
<1>3. \A i \in DOMAIN nodes : nodes[i] \in Node
      BY <1>2
<1>4. \A i \in DOMAIN nodes :
         /\ parsed[i] \in Node /\ parsed[i].parent = nodes[i].parent
         /\ parsed[i].name = nodes[i].name /\ parsed[i].value = nodes[i].value
         /\ i \notin lost => parsed[i].kind = nodes[i].kind
         /\ i \in lost => parsed[i].kind = "absent" /\ nodes[i].kind = "map"
      BY <1>1, <1>3 DEF Node
<1>5. parsed \in Seq(Node) /\ Len(parsed) = Len(nodes) /\ DOMAIN parsed = DOMAIN nodes
  <2>1. parsed \in [1 .. Len(nodes) -> Node]
    <3>1. parsed = [i \in 1 .. Len(nodes) |-> parsed[i]]
          BY <1>1, <1>2
    <3>2. \A i \in 1 .. Len(nodes) : parsed[i] \in Node
          BY <1>2, <1>4
    <3> QED  BY <3>1, <3>2
  <2> QED  BY <1>2, <2>1, IsASequence
<1>6. ASSUME NEW i \in DOMAIN nodes
      PROVE  LET parent == parsed[i].parent
             IN  /\ parent < i
                 /\ IF IsSeq(parsed, parent) THEN parsed[i].name = Unnamed
                    ELSE IsMap(parsed, parent) /\ parsed[i].name # Unnamed
                 /\ parsed[i].kind \in {"int", "string"} => parsed[i].value \notin Rejected
  <2> DEFINE parent == nodes[i].parent
  <2>1. /\ parent < i /\ parent \in Nat
        /\ IF IsSeq(nodes, parent) THEN nodes[i].name = Unnamed
           ELSE IsMap(nodes, parent) /\ nodes[i].name # Unnamed
        /\ nodes[i].kind \in {"int", "string"} => nodes[i].value \notin Rejected
        BY <1>3, PersistenceAssumption DEF Document, WellFormed, Node
  <2>2. parent \notin lost
        BY DEF ChildrenOf
  <2>3. parent # 0 => parent \in DOMAIN nodes /\ parsed[parent].kind = nodes[parent].kind
        BY <1>2, <1>4, <2>1, <2>2
  <2>4. IsSeq(parsed, parent) <=> IsSeq(nodes, parent)
        BY <2>3 DEF IsSeq
  <2>5. IsMap(parsed, parent) <=> IsMap(nodes, parent)
        BY <2>3 DEF IsMap
  <2> QED  BY <1>4, <2>1, <2>4, <2>5
<1> QED  BY <1>2, <1>5, <1>6 DEF Document, WellFormed

\* The node a stack of the document leads to: 0 is the root.
LEMMA TopInDocument ==
    ASSUME NEW S, NEW stack \in Seq(S), NEW nodes,
           \A d \in DOMAIN stack : stack[d] \in DOMAIN nodes
    PROVE  Top(stack) = 0 \/ (stack # << >> /\ Top(stack) \in DOMAIN nodes)
BY LastOf DEF Top

\* The shim's stack tells what OpenCV's stack leads to.
LEMMA ContextOfTop ==
    ASSUME IInv, shim.write_mode
    PROVE  /\ native.stack = << >> <=> shim.write_structure_stack = << >>
           /\ write_context_is_sequence <=> IsSeq(native.nodes, Top(native.stack))
           /\ ~ write_context_is_sequence => IsMap(native.nodes, Top(native.stack))
<1>1. /\ native.stack \in Seq(1 .. MaxNodes) /\ shim.write_structure_stack \in Seq(StructureKinds)
      /\ Len(shim.write_structure_stack) = Len(native.stack)
      /\ \A d \in DOMAIN native.stack :
            /\ native.nodes[native.stack[d]].kind = shim.write_structure_stack[d]
            /\ native.stack[d] \in DOMAIN native.nodes
      BY DEF IInv, TypeOK, StacksAgree, StackInDocument
<1>2. native.nodes \in Seq(Node)
      BY DEF IInv, TypeOK
<1>3. native.stack = << >> <=> shim.write_structure_stack = << >>
      BY <1>1
<1>4. CASE native.stack = << >>
      BY <1>3, <1>4 DEF write_context_is_sequence, Top, IsSeq, IsMap
<1>5. CASE native.stack # << >>
  <2>1. /\ Last(native.stack) \in DOMAIN native.nodes
        /\ native.nodes[Last(native.stack)].kind = Last(shim.write_structure_stack)
        BY <1>1, <1>3, <1>5, LastOf DEF Last
  <2>2. Last(shim.write_structure_stack) \in StructureKinds
        BY <1>1, <1>3, <1>5, LastOf
  <2>3. Last(native.stack) # 0
        BY <1>2, <2>1
  <2> QED  BY <1>3, <1>5, <2>1, <2>2, <2>3
           DEF write_context_is_sequence, Top, IsSeq, IsMap, StructureKinds
<1> QED  BY <1>3, <1>4, <1>5

\* One node more, under the structure that is open and named as it asks.
LEMMA Emitted ==
    ASSUME IInv, shim.write_mode, NEW name \in Names \cup {Unnamed}, NEW kind, NEW value,
           [parent |-> 0, name |-> name, kind |-> kind, value |-> value] \in Node,
           kind \in {"int", "string"} => value \notin Rejected,
           require_write_name_for_context(name), Len(native.nodes) < MaxNodes
    PROVE  /\ Document(Emit(name, kind, value))
           /\ Len(Emit(name, kind, value)) = Len(native.nodes) + 1
           /\ Emit(name, kind, value)[Len(native.nodes) + 1].kind = kind
           /\ \A i \in DOMAIN native.nodes :
                 /\ i \in DOMAIN Emit(name, kind, value)
                 /\ Emit(name, kind, value)[i] = native.nodes[i]
<1> DEFINE new == [parent |-> Top(native.stack), name |-> name, kind |-> kind, value |-> value]
           nodes == native.nodes
           longer == Append(nodes, new)
<1>1. /\ nodes \in Seq(Node) /\ Document(nodes) /\ native.stack \in Seq(1 .. MaxNodes)
      /\ Len(nodes) \in Nat /\ DOMAIN nodes = 1 .. Len(nodes)
      BY DEF IInv, TypeOK, Documents
<1>2. Top(native.stack) = 0 \/ Top(native.stack) \in DOMAIN nodes
      BY <1>1, TopInDocument DEF IInv, StackInDocument
<1>3. new \in Node
      BY <1>1, <1>2, PersistenceAssumption DEF Node
<1>4. /\ longer \in Seq(Node) /\ Len(longer) = Len(nodes) + 1
      /\ DOMAIN longer = 1 .. Len(nodes) + 1
      /\ longer[Len(nodes) + 1] = new
      /\ \A i \in DOMAIN nodes : longer[i] = nodes[i]
      BY <1>1, <1>3, AppendOf
<1> HIDE DEF longer
<1>5. \A p \in 0 .. Len(nodes) :
         (IsSeq(longer, p) <=> IsSeq(nodes, p)) /\ (IsMap(longer, p) <=> IsMap(nodes, p))
  <2> TAKE p \in 0 .. Len(nodes)
  <2>1. p = 0 \/ p \in DOMAIN nodes
        BY <1>1
  <2>2. p = 0 \/ longer[p].kind = nodes[p].kind
        BY <1>4, <2>1
  <2> QED  BY <2>2 DEF IsSeq, IsMap
<1>6. ASSUME NEW i \in DOMAIN longer
      PROVE  LET parent == longer[i].parent
             IN  /\ parent < i
                 /\ IF IsSeq(longer, parent) THEN longer[i].name = Unnamed
                    ELSE IsMap(longer, parent) /\ longer[i].name # Unnamed
                 /\ longer[i].kind \in {"int", "string"} => longer[i].value \notin Rejected
  <2>1. CASE i \in DOMAIN nodes
    <3>1. /\ nodes[i].parent < i /\ nodes[i].parent \in Nat
          /\ IF IsSeq(nodes, nodes[i].parent) THEN nodes[i].name = Unnamed
             ELSE IsMap(nodes, nodes[i].parent) /\ nodes[i].name # Unnamed
          /\ nodes[i].kind \in {"int", "string"} => nodes[i].value \notin Rejected
      <4>1. nodes[i] \in Node
            BY <1>1, <2>1
      <4>2. nodes[i].parent \in Nat
            BY <4>1, PersistenceAssumption DEF Node
      <4> QED  BY <1>1, <2>1, <4>2 DEF Document, WellFormed
    <3>2. nodes[i].parent \in 0 .. Len(nodes)
      <4>1. i <= Len(nodes) /\ i \in Nat
            BY <1>1, <2>1
      <4> QED  BY <1>1, <3>1, <4>1
    <3> QED  BY <1>4, <1>5, <2>1, <3>1, <3>2
  <2>2. CASE i = Len(nodes) + 1
    <3>1. longer[i] = new /\ new.parent = Top(native.stack) /\ new.parent < i
          /\ new.parent \in 0 .. Len(nodes)
          BY <1>1, <1>2, <1>4, <2>2
    <3>2. IF IsSeq(nodes, new.parent) THEN name = Unnamed
          ELSE IsMap(nodes, new.parent) /\ name # Unnamed
          BY ContextOfTop DEF require_write_name_for_context
    <3> QED  BY <1>5, <3>1, <3>2
  <2> QED  BY <1>1, <1>4, <2>1, <2>2
<1>7. Document(longer)
      BY <1>1, <1>4, <1>6, PersistenceAssumption DEF Document, WellFormed
<1> QED  BY <1>1, <1>4, <1>7 DEF longer, Emit

-----------------------------------------------------------------------------
(***************************************************************************)
(* Every step keeps the invariant: opening and finalizing.                 *)
(***************************************************************************)
LEMMA OpeningKeeps ==
    ASSUME IInv, ~ self.Handle, NEW nodes, Document(nodes),
           NEW memory \in BOOLEAN, NEW write \in BOOLEAN,
           NEW mode \in {"Read_Only", "Write_Only"}, write <=> mode = "Write_Only",
           NEW backend \in Backends,
           self' = Opened(mode, backend), shim' = NewShim(memory, write),
           native' = OpenOn(nodes), client' = client,
           \/ medium' = medium
           \/ medium' = [medium EXCEPT !["disk"] = Nothing]
    PROVE  IInv'
<1>1. self'.Handle /\ self'.Mode = mode
      BY DEF Opened
<1>2. shim'.write_mode = write /\ shim'.read_context_stack = << >>
      /\ shim'.write_structure_stack = << >>
      BY DEF NewShim
<1>3. native'.nodes = nodes /\ native'.stack = << >>
      BY DEF OpenOn
<1>4. client'.path = << >> /\ Len(client'.path) = 0
      BY NoElements DEF IInv, TypeOK, Roles, NewShim
<1>5. /\ medium' \in [Backends -> Seq(Node) \cup {Nothing}]
      /\ \A b \in Backends : medium'[b] # Nothing => Document(medium'[b])
      BY DEF IInv, TypeOK, Documents
<1>6. TypeOK'
  <2>1. self' \in [Handle : BOOLEAN, Opened : BOOLEAN,
                   Mode : {"Read_Only", "Write_Only"}, Backend : Backends]
        BY DEF Opened
  <2>2. shim' \in [memory_backed : BOOLEAN, write_mode : BOOLEAN,
                   released_memory_text_ready : BOOLEAN,
                   write_structure_stack : Seq(StructureKinds),
                   read_context_stack : Seq(1 .. MaxNodes)]
        BY NoElements DEF NewShim
  <2>3. native' \in [open : BOOLEAN, nodes : Seq(Node), stack : Seq(1 .. MaxNodes)]
        BY NoElements DEF OpenOn, Document
  <2>4. client'.path \in Seq(Keys)
        BY <1>4, NoElements
  <2> QED  BY <1>5, <2>1, <2>2, <2>3, <2>4 DEF TypeOK, Node, Keys
<1>7. Roles'
      BY <1>1, <1>2, <1>4, NoElements DEF IInv, Roles
<1>8. Documents'
      BY <1>3, <1>5 DEF Documents
<1>9. StackInDocument' /\ StacksAgree' /\ ReadContextIsAPath'
      BY <1>2, <1>3, NoElements DEF StackInDocument, StacksAgree, ReadContextIsAPath
<1> QED  BY <1>6, <1>7, <1>8, <1>9 DEF IInv

LEMMA OpenKeeps ==
    ASSUME IInv, Open_Write \/ Create_Memory \/ Open_Read \/ Open_Memory
    PROVE  IInv'
<1>1. CASE Open_Write
      BY <1>1, OpeningKeeps, EmptyDocument DEF Open_Write, file_storage_open, Backends
<1>2. CASE Create_Memory
      BY <1>2, OpeningKeeps, EmptyDocument
      DEF Create_Memory, file_storage_open_memory_write, Backends
<1>3. CASE Open_Read
  <2>1. PICK nodes \in Parsed(medium["disk"]) : native' = OpenOn(nodes)
        BY <1>3 DEF Open_Read
  <2>2. Document(nodes)
        BY <1>3, <2>1, ParsedDocument DEF Open_Read, IInv, Documents, Backends
  <2> QED  BY <1>3, <2>1, <2>2, OpeningKeeps DEF Open_Read, file_storage_open, Backends
<1>4. CASE Open_Memory
  <2>1. PICK nodes \in Parsed(medium["memory"]) : native' = OpenOn(nodes)
        BY <1>4 DEF Open_Memory
  <2>2. Document(nodes)
        BY <1>4, <2>1, ParsedDocument DEF Open_Memory, IInv, Documents, Backends
  <2> QED  BY <1>4, <2>1, <2>2, OpeningKeeps
           DEF Open_Memory, file_storage_open_memory_read, Backends
<1> QED  BY <1>1, <1>2, <1>3, <1>4

LEMMA FinalizeKeeps ==
    ASSUME IInv, Finalize
    PROVE  IInv'
<1>1. self' = NoStorage /\ shim' = NewShim(FALSE, FALSE) /\ native' = Closed
      BY DEF Finalize, file_storage_destroy
<1>2. client' = [path |-> << >>, got |-> client.got] /\ client'.path = << >>
      BY DEF Finalize, IInv, Roles
<1>3. /\ medium' \in [Backends -> Seq(Node) \cup {Nothing}]
      /\ \A b \in Backends : medium'[b] # Nothing => Document(medium'[b])
      BY DEF Finalize, file_storage_destroy, IInv, TypeOK, Documents
<1>4. TypeOK'
  <2>1. self' \in [Handle : BOOLEAN, Opened : BOOLEAN,
                   Mode : {"Read_Only", "Write_Only"}, Backend : Backends]
        BY <1>1 DEF NoStorage, Backends
  <2>2. shim' \in [memory_backed : BOOLEAN, write_mode : BOOLEAN,
                   released_memory_text_ready : BOOLEAN,
                   write_structure_stack : Seq(StructureKinds),
                   read_context_stack : Seq(1 .. MaxNodes)]
        BY <1>1, NoElements DEF NewShim
  <2>3. native' \in [open : BOOLEAN, nodes : Seq(Node), stack : Seq(1 .. MaxNodes)]
        BY <1>1, NoElements DEF Closed
  <2> QED  BY <1>2, <1>3, <2>1, <2>2, <2>3, NoElements DEF TypeOK, Node, Keys
<1>5. Roles'
      BY <1>1, <1>2, NoElements DEF Roles, NoStorage, NewShim
<1>6. Documents'
      BY <1>1, <1>3, EmptyDocument DEF Documents, Closed
<1>7. StackInDocument' /\ StacksAgree' /\ ReadContextIsAPath'
      BY <1>1, NoElements DEF StackInDocument, StacksAgree, ReadContextIsAPath, NewShim, Closed
<1> QED  BY <1>4, <1>5, <1>6, <1>7 DEF IInv

-----------------------------------------------------------------------------
(***************************************************************************)
(* Reading.                                                                *)
(***************************************************************************)

\* A read that leaves the reader where it is.
LEMMA StayingKeeps ==
    ASSUME IInv, UNCHANGED <<self, shim, native, medium>>,
           NEW got, client' = [client EXCEPT !.got = got]
    PROVE  IInv'
<1>1. client'.path = client.path /\ client' = [path |-> client.path, got |-> got]
      BY DEF IInv, Roles
<1>2. TypeOK' /\ Roles' /\ Documents'
      BY <1>1 DEF IInv, TypeOK, Roles, Documents, Node, Keys
<1>3. StackInDocument' /\ StacksAgree' /\ ReadContextIsAPath'
      BY DEF IInv, StackInDocument, StacksAgree, ReadContextIsAPath
<1> QED  BY <1>2, <1>3 DEF IInv

\* A lookup stays below the structure the reader is in.
LEMMA EnterKeeps ==
    ASSUME IInv, Require_Open("Read_Only"), NEW key \in Keys,
           NEW i \in ChildrenOf(native.nodes, current_read_context),
           NEW kind \in StructureKinds, Matches(i, kind), enter(i, key)
    PROVE  IInv'
<1> DEFINE before == shim.read_context_stack
           after == shim'.read_context_stack
<1>1. /\ self' = self /\ native' = native /\ medium' = medium
      /\ shim' = [shim EXCEPT !.read_context_stack = Append(@, i)]
      /\ client' = [client EXCEPT !.path = Append(@, key)]
      BY DEF enter
<1>2. i \in DOMAIN native.nodes /\ native.nodes[i].parent = Top(before)
      BY DEF ChildrenOf, current_read_context
<1>3. i \in 1 .. MaxNodes
  <2>1. native.nodes \in Seq(Node) /\ Len(native.nodes) <= MaxNodes
        BY DEF IInv, Documents, Document
  <2> QED  BY <1>2, <2>1, PersistenceAssumption
<1>4. ~ shim.write_mode
      BY DEF IInv, Roles, Require_Open
<1>5. before \in Seq(1 .. MaxNodes) /\ after = Append(before, i)
      BY <1>1 DEF IInv, TypeOK
<1>6. /\ after \in Seq(1 .. MaxNodes) /\ Len(after) = Len(before) + 1
      /\ DOMAIN after = 1 .. Len(before) + 1 /\ Len(before) \in Nat
      /\ DOMAIN before = 1 .. Len(before)
      /\ after[Len(before) + 1] = i /\ \A d \in 1 .. Len(before) : after[d] = before[d]
      BY <1>3, <1>5, AppendOf
<1>7. /\ client'.path = Append(client.path, key) /\ client.path \in Seq(Keys)
      /\ client' = [path |-> client'.path, got |-> client'.got]
      BY <1>1 DEF IInv, TypeOK, Roles
<1>8. client'.path \in Seq(Keys) /\ Len(client'.path) = Len(client.path) + 1
      BY <1>7, AppendOf
<1>9. /\ shim'.write_mode = shim.write_mode
      /\ shim' \in [memory_backed : BOOLEAN, write_mode : BOOLEAN,
                     released_memory_text_ready : BOOLEAN,
                     write_structure_stack : Seq(StructureKinds),
                     read_context_stack : Seq(1 .. MaxNodes)]
      BY <1>1, <1>5, <1>6 DEF IInv, TypeOK
<1>10. TypeOK'
      BY <1>1, <1>8, <1>9 DEF IInv, TypeOK, Node, Keys
<1>11. Roles'
      BY <1>1, <1>4, <1>6, <1>7, <1>8, <1>9 DEF IInv, Roles, Require_Open
<1>12. Documents' /\ StackInDocument'
      BY <1>1 DEF IInv, Documents, StackInDocument
<1>13. StacksAgree'
      BY <1>4, <1>9 DEF StacksAgree
<1>14. ReadContextIsAPath'
  <2>1. IsMap(native.nodes, i) \/ IsSeq(native.nodes, i)
        BY DEF Matches
  <2> HIDE DEF before, after
  <2>2. ASSUME NEW d \in DOMAIN after
        PROVE  /\ after[d] \in DOMAIN native.nodes
               /\ native.nodes[after[d]].parent = IF d = 1 THEN 0 ELSE after[d - 1]
               /\ IsMap(native.nodes, after[d]) \/ IsSeq(native.nodes, after[d])
    <3>1. CASE d = Len(before) + 1
      <4>1. CASE before = << >>
            BY <1>2, <1>6, <2>1, <3>1, <4>1, NoElements DEF Top
      <4>2. CASE before # << >>
        <5>1. Len(before) \in Nat \ {0} /\ Top(before) = before[Len(before)]
              BY <1>5, <4>2, LastOf, Nonempty DEF Top
        <5>2. d # 1 /\ after[d - 1] = before[Len(before)]
              BY <1>6, <3>1, <5>1
        <5> QED  BY <1>2, <1>6, <2>1, <3>1, <5>1, <5>2
      <4> QED  BY <4>1, <4>2
    <3>2. CASE d \in 1 .. Len(before)
      <4>1. after[d] = before[d] /\ (d # 1 => after[d - 1] = before[d - 1])
            BY <1>6, <3>2
      <4> QED  BY <1>6, <3>2, <4>1 DEF IInv, ReadContextIsAPath, before
    <3> QED  BY <1>6, <2>2, <3>1, <3>2
  <2> QED  BY <1>1, <2>2 DEF ReadContextIsAPath, IsMap, IsSeq, after
<1> QED  BY <1>10, <1>11, <1>12, <1>13, <1>14 DEF IInv

LEMMA LeaveKeeps ==
    ASSUME IInv, Leave_Structure
    PROVE  IInv'
<1> DEFINE before == shim.read_context_stack
           after == shim'.read_context_stack
<1>1. /\ self' = self /\ native' = native /\ medium' = medium /\ before # << >>
      /\ shim' = [shim EXCEPT !.read_context_stack = Front(@)]
      /\ client' = [client EXCEPT !.path = Front(@)]
      BY DEF Leave_Structure, leave_structure
<1>2. before \in Seq(1 .. MaxNodes) /\ after = Front(before)
      BY <1>1 DEF IInv, TypeOK
<1>3. /\ after \in Seq(1 .. MaxNodes) /\ Len(after) = Len(before) - 1
      /\ DOMAIN after = 1 .. Len(before) - 1 /\ Len(before) \in Nat \ {0}
      /\ DOMAIN before = 1 .. Len(before) /\ \A d \in DOMAIN after : after[d] = before[d]
      BY <1>1, <1>2, FrontOf, Nonempty
<1>4. ~ shim.write_mode
      BY DEF IInv, Roles, Leave_Structure, Require_Open
<1>5. /\ client'.path = Front(client.path) /\ client.path \in Seq(Keys)
      /\ client' = [path |-> client'.path, got |-> client'.got]
      /\ Len(client.path) = Len(before)
      BY <1>1 DEF IInv, TypeOK, Roles
<1>6. client'.path \in Seq(Keys) /\ Len(client'.path) = Len(client.path) - 1
  <2>1. client.path # << >>
        BY <1>3, <1>5, NoElements
  <2> QED  BY <1>5, <2>1, FrontOf
<1>7. /\ shim'.write_mode = shim.write_mode
      /\ shim' \in [memory_backed : BOOLEAN, write_mode : BOOLEAN,
                     released_memory_text_ready : BOOLEAN,
                     write_structure_stack : Seq(StructureKinds),
                     read_context_stack : Seq(1 .. MaxNodes)]
      BY <1>1, <1>2, <1>3 DEF IInv, TypeOK
<1>8. TypeOK'
      BY <1>1, <1>6, <1>7 DEF IInv, TypeOK, Node, Keys
<1>9. Roles'
      BY <1>1, <1>3, <1>4, <1>5, <1>6, <1>7 DEF IInv, Roles, Leave_Structure, Require_Open
<1>10. Documents' /\ StackInDocument' /\ StacksAgree'
      BY <1>1, <1>4, <1>7 DEF IInv, Documents, StackInDocument, StacksAgree
<1>11. ReadContextIsAPath'
  <2> HIDE DEF before, after
  <2>1. \A d \in DOMAIN after : d \in DOMAIN before /\ after[d] = before[d]
                                /\ (d # 1 => after[d - 1] = before[d - 1])
        BY <1>3
  <2>2. \A d \in DOMAIN after :
           /\ after[d] \in DOMAIN native.nodes
           /\ native.nodes[after[d]].parent = IF d = 1 THEN 0 ELSE after[d - 1]
           /\ IsMap(native.nodes, after[d]) \/ IsSeq(native.nodes, after[d])
        BY <2>1 DEF IInv, ReadContextIsAPath, before
  <2> QED  BY <1>1, <2>2 DEF ReadContextIsAPath, IsMap, IsSeq, after
<1> QED  BY <1>8, <1>9, <1>10, <1>11 DEF IInv

-----------------------------------------------------------------------------
(***************************************************************************)
(* Writing.                                                                *)
(***************************************************************************)
LEMMA LeafIsANode ==
    ASSUME NEW backend \in Backends, NEW kind \in LeafKinds[backend],
           NEW name \in Names \cup {Unnamed}, NEW value \in Values
    PROVE  /\ kind \in {"int", "real", "string", "mat"}
           /\ [parent |-> 0, name |-> name, kind |-> kind, value |-> value] \in Node
<1>1. LeafKinds[backend] \in SUBSET {"int", "real", "string", "mat"}
      BY PersistenceAssumption
<1>2. LeafKinds[backend] \in Range(LeafKinds)
      BY PersistenceAssumption DEF Range
<1>3. kind \in UNION Range(LeafKinds)
      BY <1>2
<1> QED  BY <1>1, <1>3, PersistenceAssumption DEF Node

LEMMA LeafKeeps ==
    ASSUME IInv, Require_Open("Write_Only"),
           NEW name \in Names \cup {Unnamed}, NEW kind \in LeafKinds[self.Backend],
           NEW value \in Values, Writable(kind, value), WriteValue(name, kind, value),
           UNCHANGED <<self, shim, medium, client>>
    PROVE  IInv'
<1> DEFINE nodes == native.nodes
           longer == Emit(name, kind, value)
<1>1. self.Backend \in Backends /\ shim.write_mode
      BY DEF IInv, TypeOK, Roles, Require_Open
<1>2. /\ kind \in {"int", "real", "string", "mat"}
      /\ [parent |-> 0, name |-> name, kind |-> kind, value |-> value] \in Node
      BY <1>1, LeafIsANode
<1>3. write_leaf(name, kind, value)
      BY <1>2 DEF WriteValue, write_int, write_mat, write_double, write_string
<1>4. Len(nodes) < MaxNodes
  <2>1. nodes \in Seq(Node) /\ Len(nodes) < Bound[self.Backend]
        BY <1>3 DEF write_leaf, IInv, TypeOK
  <2> QED  BY <1>1, <2>1, PersistenceAssumption
<1>5. /\ Document(longer)
      /\ \A i \in DOMAIN nodes : i \in DOMAIN longer /\ longer[i] = nodes[i]
      BY <1>1, <1>2, <1>3, <1>4, Emitted DEF write_leaf, Writable
<1> HIDE DEF longer
<1>6. native' = [native EXCEPT !.nodes = longer]
      BY <1>3 DEF write_leaf, longer
<1>7. native'.nodes = longer /\ native'.stack = native.stack /\ native'.open = native.open
      BY <1>6 DEF IInv, TypeOK
<1>8. TypeOK'
  <2>1. native' \in [open : BOOLEAN, nodes : Seq(Node), stack : Seq(1 .. MaxNodes)]
        BY <1>5, <1>6 DEF IInv, TypeOK, Document
  <2> QED  BY <2>1 DEF IInv, TypeOK, Node, Keys
<1>9. Roles'
      BY <1>1 DEF IInv, Roles, Require_Open
<1>10. Documents'
      BY <1>5, <1>7 DEF IInv, Documents
<1>11. StackInDocument' /\ StacksAgree'
      BY <1>5, <1>7 DEF IInv, StackInDocument, StacksAgree
<1>12. ReadContextIsAPath'
      BY <1>1, NoElements DEF IInv, Roles, ReadContextIsAPath
<1> QED  BY <1>8, <1>9, <1>10, <1>11, <1>12 DEF IInv

\* Both stacks take the structure in the same step.
LEMMA BeginKeeps ==
    ASSUME IInv, Require_Open("Write_Only"),
           NEW name \in Names \cup {Unnamed}, NEW kind \in StructureKinds,
           begin_structure(name, kind), UNCHANGED <<self, medium, client>>
    PROVE  IInv'
<1> DEFINE nodes == native.nodes
           longer == Emit(name, kind, Nothing)
           place == Len(nodes) + 1
<1>1. self.Backend \in Backends /\ shim.write_mode /\ shim.read_context_stack = << >>
      BY DEF IInv, TypeOK, Roles, Require_Open
<1>2. [parent |-> 0, name |-> name, kind |-> kind, value |-> Nothing] \in Node
      BY PersistenceAssumption DEF Node
<1>3. Len(nodes) < MaxNodes /\ nodes \in Seq(Node) /\ Len(nodes) \in Nat
  <2>1. nodes \in Seq(Node) /\ Len(nodes) < Bound[self.Backend]
        BY DEF begin_structure, IInv, TypeOK
  <2> QED  BY <1>1, <2>1, PersistenceAssumption
<1>4. kind \notin {"int", "string"}
      BY DEF StructureKinds
<1>5. /\ Document(longer) /\ Len(longer) = place /\ longer[place].kind = kind
      /\ \A i \in DOMAIN nodes : i \in DOMAIN longer /\ longer[i] = nodes[i]
      BY <1>1, <1>2, <1>3, <1>4, Emitted DEF begin_structure
<1>6. place \in DOMAIN longer /\ place \in 1 .. MaxNodes
      BY <1>3, <1>5, PersistenceAssumption DEF Document
<1>7. /\ native' = [native EXCEPT !.nodes = longer, !.stack = Append(@, place)]
      /\ shim' = [shim EXCEPT !.write_structure_stack = Append(@, kind)]
      BY DEF begin_structure
<1> HIDE DEF longer, place
<1> DEFINE entered == shim.write_structure_stack
<1>8. /\ native.stack \in Seq(1 .. MaxNodes) /\ entered \in Seq(StructureKinds)
      /\ Len(entered) = Len(native.stack)
      BY <1>1 DEF IInv, TypeOK, StacksAgree
<1>9. /\ native'.nodes = longer /\ native'.stack = Append(native.stack, place)
      /\ shim'.write_structure_stack = Append(entered, kind)
      /\ shim'.write_mode = shim.write_mode
      /\ shim'.read_context_stack = shim.read_context_stack
      BY <1>7 DEF IInv, TypeOK
<1>10. /\ native'.stack \in Seq(1 .. MaxNodes) /\ Len(native'.stack) = Len(native.stack) + 1
       /\ DOMAIN native'.stack = 1 .. Len(native.stack) + 1
       /\ DOMAIN native.stack = 1 .. Len(native.stack) /\ Len(native.stack) \in Nat
       /\ native'.stack[Len(native.stack) + 1] = place
       /\ \A d \in 1 .. Len(native.stack) : native'.stack[d] = native.stack[d]
      BY <1>6, <1>8, <1>9, AppendOf
<1>11. /\ shim'.write_structure_stack \in Seq(StructureKinds)
       /\ Len(shim'.write_structure_stack) = Len(native.stack) + 1
       /\ shim'.write_structure_stack[Len(native.stack) + 1] = kind
       /\ \A d \in 1 .. Len(native.stack) : shim'.write_structure_stack[d] = entered[d]
      BY <1>8, <1>9, AppendOf
<1>12. TypeOK'
  <2>1. native' \in [open : BOOLEAN, nodes : Seq(Node), stack : Seq(1 .. MaxNodes)]
        BY <1>5, <1>7, <1>9, <1>10 DEF IInv, TypeOK, Document
  <2>2. shim' \in [memory_backed : BOOLEAN, write_mode : BOOLEAN,
                   released_memory_text_ready : BOOLEAN,
                   write_structure_stack : Seq(StructureKinds),
                   read_context_stack : Seq(1 .. MaxNodes)]
        BY <1>7, <1>9, <1>11 DEF IInv, TypeOK
  <2> QED  BY <2>1, <2>2 DEF IInv, TypeOK, Node, Keys
<1>13. Roles'
      BY <1>1, <1>9 DEF IInv, Roles, Require_Open
<1>14. Documents'
      BY <1>5, <1>9 DEF IInv, Documents
<1>15. \A d \in DOMAIN native'.stack :
            /\ native'.stack[d] \in DOMAIN longer
            /\ longer[native'.stack[d]].kind = shim'.write_structure_stack[d]
  <2> TAKE d \in DOMAIN native'.stack
  <2>1. CASE d = Len(native.stack) + 1
        BY <1>5, <1>6, <1>10, <1>11, <2>1
  <2>2. CASE d \in 1 .. Len(native.stack)
    <3>1. /\ native.stack[d] \in DOMAIN nodes /\ nodes[native.stack[d]].kind = entered[d]
          BY <1>1, <1>10, <2>2 DEF IInv, StackInDocument, StacksAgree
    <3> QED  BY <1>5, <1>10, <1>11, <2>2, <3>1
  <2> QED  BY <1>10, <2>1, <2>2
<1>16. StackInDocument' /\ StacksAgree'
      BY <1>9, <1>10, <1>11, <1>15 DEF StackInDocument, StacksAgree
<1>17. ReadContextIsAPath'
      BY <1>1, <1>9, NoElements DEF ReadContextIsAPath
<1> QED  BY <1>12, <1>13, <1>14, <1>16, <1>17 DEF IInv

LEMMA EndKeeps ==
    ASSUME IInv, End_Structure
    PROVE  IInv'
<1> DEFINE entered == shim.write_structure_stack
<1>1. /\ self' = self /\ medium' = medium /\ client' = client /\ entered # << >>
      /\ native' = [native EXCEPT !.stack = Front(@)]
      /\ shim' = [shim EXCEPT !.write_structure_stack = Front(@)]
      BY DEF End_Structure, end_structure
<1>2. shim.write_mode /\ shim.read_context_stack = << >>
      BY DEF IInv, Roles, End_Structure, Require_Open
<1>3. /\ native.stack \in Seq(1 .. MaxNodes) /\ entered \in Seq(StructureKinds)
      /\ Len(entered) = Len(native.stack)
      BY <1>2 DEF IInv, TypeOK, StacksAgree
<1>4. native.stack # << >>
      BY <1>1, <1>3
<1>5. /\ native'.nodes = native.nodes /\ native'.stack = Front(native.stack)
      /\ shim'.write_structure_stack = Front(entered)
      /\ shim'.write_mode = shim.write_mode
      /\ shim'.read_context_stack = shim.read_context_stack
      BY <1>1 DEF IInv, TypeOK
<1>6. /\ native'.stack \in Seq(1 .. MaxNodes) /\ Len(native'.stack) = Len(native.stack) - 1
      /\ DOMAIN native'.stack = 1 .. Len(native.stack) - 1
      /\ DOMAIN native.stack = 1 .. Len(native.stack) /\ Len(native.stack) \in Nat
      /\ \A d \in 1 .. Len(native.stack) - 1 : native'.stack[d] = native.stack[d]
      BY <1>3, <1>4, <1>5, FrontOf, Nonempty
<1>7. /\ shim'.write_structure_stack \in Seq(StructureKinds)
      /\ Len(shim'.write_structure_stack) = Len(native.stack) - 1
      /\ \A d \in 1 .. Len(native.stack) - 1 : shim'.write_structure_stack[d] = entered[d]
      BY <1>1, <1>3, <1>5, FrontOf
<1>8. TypeOK'
  <2>1. native' \in [open : BOOLEAN, nodes : Seq(Node), stack : Seq(1 .. MaxNodes)]
        BY <1>1, <1>5, <1>6 DEF IInv, TypeOK
  <2>2. shim' \in [memory_backed : BOOLEAN, write_mode : BOOLEAN,
                   released_memory_text_ready : BOOLEAN,
                   write_structure_stack : Seq(StructureKinds),
                   read_context_stack : Seq(1 .. MaxNodes)]
        BY <1>1, <1>5, <1>7 DEF IInv, TypeOK
  <2> QED  BY <1>1, <2>1, <2>2 DEF IInv, TypeOK, Node, Keys
<1>9. Roles'
      BY <1>1, <1>2, <1>5 DEF IInv, Roles, End_Structure, Require_Open
<1>10. Documents'
      BY <1>1, <1>5 DEF IInv, Documents
<1>11. \A d \in DOMAIN native'.stack :
            /\ native'.stack[d] \in DOMAIN native.nodes
            /\ native.nodes[native'.stack[d]].kind = shim'.write_structure_stack[d]
  <2> TAKE d \in DOMAIN native'.stack
  <2>1. d \in DOMAIN native.stack /\ d \in 1 .. Len(native.stack) - 1
        BY <1>6
  <2>2. /\ native.stack[d] \in DOMAIN native.nodes
        /\ native.nodes[native.stack[d]].kind = entered[d]
        BY <1>2, <2>1 DEF IInv, StackInDocument, StacksAgree
  <2> QED  BY <1>6, <1>7, <2>1, <2>2
<1>12. StackInDocument' /\ StacksAgree'
      BY <1>5, <1>6, <1>7, <1>11 DEF StackInDocument, StacksAgree
<1>13. ReadContextIsAPath'
      BY <1>2, <1>5, NoElements DEF ReadContextIsAPath
<1> QED  BY <1>8, <1>9, <1>10, <1>12, <1>13 DEF IInv

LEMMA CloseKeeps ==
    ASSUME IInv, Close_And_Get_Text
    PROVE  IInv'
<1>1. PICK ready \in BOOLEAN :
         /\ shim' = [shim EXCEPT !.released_memory_text_ready = ready]
         /\ native' = [native EXCEPT !.open = FALSE]
      BY DEF Close_And_Get_Text, finish_memory_write
<1>2. /\ self' = self \/ self' = [self EXCEPT !.Opened = FALSE]
      /\ medium' = medium \/ medium' = [medium EXCEPT !["memory"] = native.nodes]
      /\ client' = client /\ self.Handle
      BY DEF Close_And_Get_Text, Require_Open
<1>3. /\ native'.nodes = native.nodes /\ native'.stack = native.stack
      /\ shim'.write_structure_stack = shim.write_structure_stack
      /\ shim'.write_mode = shim.write_mode
      /\ shim'.read_context_stack = shim.read_context_stack
      BY <1>1 DEF IInv, TypeOK
<1>4. /\ medium' \in [Backends -> Seq(Node) \cup {Nothing}]
      /\ \A b \in Backends : medium'[b] # Nothing => Document(medium'[b])
      BY <1>2 DEF IInv, TypeOK, Documents
<1>5. TypeOK'
  <2>1. self' \in [Handle : BOOLEAN, Opened : BOOLEAN,
                   Mode : {"Read_Only", "Write_Only"}, Backend : Backends]
        BY <1>2 DEF IInv, TypeOK
  <2>2. shim' \in [memory_backed : BOOLEAN, write_mode : BOOLEAN,
                   released_memory_text_ready : BOOLEAN,
                   write_structure_stack : Seq(StructureKinds),
                   read_context_stack : Seq(1 .. MaxNodes)]
        BY <1>1 DEF IInv, TypeOK
  <2>3. native' \in [open : BOOLEAN, nodes : Seq(Node), stack : Seq(1 .. MaxNodes)]
        BY <1>1 DEF IInv, TypeOK
  <2> QED  BY <1>2, <1>4, <2>1, <2>2, <2>3 DEF IInv, TypeOK, Node, Keys
<1>6. self'.Handle = self.Handle /\ self'.Mode = self.Mode
      BY <1>2 DEF IInv, TypeOK
<1>7. Roles'
      BY <1>2, <1>3, <1>6 DEF IInv, Roles
<1>8. Documents'
      BY <1>3, <1>4 DEF IInv, Documents
<1>9. StackInDocument' /\ StacksAgree' /\ ReadContextIsAPath'
      BY <1>3 DEF IInv, StackInDocument, StacksAgree, ReadContextIsAPath, IsMap, IsSeq
<1> QED  BY <1>5, <1>7, <1>8, <1>9 DEF IInv

-----------------------------------------------------------------------------
(***************************************************************************)
(* Invariants.                                                             *)
(***************************************************************************)
LEMMA Initially == Init => IInv
<1> SUFFICES ASSUME Init PROVE IInv
    OBVIOUS
<1>1. /\ self = NoStorage /\ shim = NewShim(FALSE, FALSE) /\ native = Closed
      /\ medium = [b \in Backends |-> Nothing]
      /\ client = [path |-> << >>, got |-> Nothing] /\ client.path = << >>
      BY DEF Init
<1>2. TypeOK
  <2>1. self \in [Handle : BOOLEAN, Opened : BOOLEAN,
                  Mode : {"Read_Only", "Write_Only"}, Backend : Backends]
        BY <1>1 DEF NoStorage, Backends
  <2>2. shim \in [memory_backed : BOOLEAN, write_mode : BOOLEAN,
                  released_memory_text_ready : BOOLEAN,
                  write_structure_stack : Seq(StructureKinds),
                  read_context_stack : Seq(1 .. MaxNodes)]
        BY <1>1, NoElements DEF NewShim
  <2>3. native \in [open : BOOLEAN, nodes : Seq(Node), stack : Seq(1 .. MaxNodes)]
        BY <1>1, NoElements DEF Closed
  <2>4. client.path \in Seq(Keys)
        BY <1>1, NoElements
  <2> QED  BY <1>1, <2>1, <2>2, <2>3, <2>4 DEF TypeOK
<1>3. Roles
      BY <1>1, NoElements DEF Roles, NoStorage, NewShim
<1>4. Documents
      BY <1>1, EmptyDocument DEF Documents, Closed
<1>5. StackInDocument /\ StacksAgree /\ ReadContextIsAPath
      BY <1>1, NoElements DEF StackInDocument, StacksAgree, ReadContextIsAPath, NewShim, Closed
<1> QED  BY <1>2, <1>3, <1>4, <1>5 DEF IInv

LEMMA EveryStepKeeps == IInv /\ [Next]_vars => IInv'
<1> SUFFICES ASSUME IInv, [Next]_vars PROVE IInv'
    OBVIOUS
<1> DEFINE Leaf == \E k \in LeafKinds[self.Backend], v \in Values :
                     AppendValue(k, v) \/ \E n \in Names : Write(n, k, v)
           Begin == \E k \in StructureKinds :
                      Begin_Unnamed_Structure(k) \/ \E n \in Names : Begin_Named_Structure(n, k)
           Enter == \E k \in StructureKinds :
                      \/ \E n \in Names : Enter_Named_Structure(n, k)
                      \/ \E p \in 0 .. MaxNodes : Enter_Indexed_Structure(p, k)
           Read == \E k \in Kinds : \/ \E n \in Names : ReadNamed(n, k)
                                    \/ \E p \in 0 .. MaxNodes : ReadIndexed(p, k)
<1>1. CASE UNCHANGED vars
      BY <1>1 DEF vars, IInv, TypeOK, Roles, Documents, StackInDocument, StacksAgree,
                  ReadContextIsAPath, Node, Keys, IsMap, IsSeq
<1>2. CASE Open_Write \/ Create_Memory \/ Open_Read \/ Open_Memory
      BY <1>2, OpenKeeps
<1>3. CASE Finalize
      BY <1>3, FinalizeKeeps
<1>4. CASE Leaf
      BY <1>4, LeafKeeps DEF AppendValue, Write
<1>5. CASE Begin
      BY <1>5, BeginKeeps DEF Begin_Unnamed_Structure, Begin_Named_Structure
<1>6. CASE End_Structure
      BY <1>6, EndKeeps
<1>7. CASE Close_And_Get_Text
      BY <1>7, CloseKeeps
<1>8. CASE Enter
  <2>1. ASSUME NEW k \in StructureKinds, NEW n \in Names, Enter_Named_Structure(n, k)
        PROVE  IInv'
        BY <2>1, EnterKeeps
        DEF Enter_Named_Structure, enter_named_structure, lookup_named_node, Keys
  <2>2. ASSUME NEW k \in StructureKinds, NEW p \in 0 .. MaxNodes, Enter_Indexed_Structure(p, k)
        PROVE  IInv'
        BY <2>2, EnterKeeps
        DEF Enter_Indexed_Structure, enter_indexed_structure, lookup_indexed_node, Keys
  <2> QED  BY <1>8, <2>1, <2>2
<1>9. CASE Leave_Structure
      BY <1>9, LeaveKeeps
<1>10. CASE Sequence_Length \/ Map_Length
      BY <1>10, StayingKeeps
      DEF Sequence_Length, Map_Length, sequence_length, map_length, Observe
<1>11. CASE Read
      BY <1>11, StayingKeeps DEF ReadNamed, ReadIndexed, Observe
<1>12. \/ UNCHANGED vars
       \/ Open_Write \/ Create_Memory \/ Open_Read \/ Open_Memory \/ Finalize
       \/ Leaf \/ Begin \/ End_Structure \/ Close_And_Get_Text
       \/ Enter \/ Leave_Structure \/ Sequence_Length \/ Map_Length \/ Read
      BY DEF Next
<1> HIDE DEF Leaf, Begin, Enter, Read
<1> QED  BY <1>1, <1>2, <1>3, <1>4, <1>5, <1>6, <1>7, <1>8, <1>9, <1>10, <1>11, <1>12

(* What the layers must agree on for the rest: the roles of the object, the *)
(* structures open, the documents, at every moment of every client.         *)
THEOREM InvariantHolds == Spec => []IInv
BY Initially, EveryStepKeeps, PTL DEF Spec

(* Every variable keeps its type, whatever the order of the calls.          *)
THEOREM Typed == Spec => []TypeOK
BY InvariantHolds, PTL DEF IInv

(* While a writer is open the shim's stack and OpenCV's agree level by      *)
(* level, to any depth.                                                     *)
THEOREM StacksStayInStep == Spec => []StacksAgree
BY InvariantHolds, PTL DEF IInv

(* No order of calls puts a named entry in a sequence, an unnamed one in a  *)
(* mapping, or a payload the formats cannot hold in a document.             *)
THEOREM DocumentsStayWellFormed == Spec => []DocumentsWellFormed
<1>1. IInv => DocumentsWellFormed
      BY DEF IInv, Documents, Document, DocumentsWellFormed
<1> QED  BY <1>1, InvariantHolds, PTL

(* What a reader has entered is always a path of structures from the root.  *)
THEOREM ReadContextStaysAPath == Spec => []ReadContextIsAPath
BY InvariantHolds, PTL DEF IInv

-----------------------------------------------------------------------------
(***************************************************************************)
(* Paths.  A node is emitted after the node it is under, so that what      *)
(* holds of a node whenever it holds of the earlier ones holds of all.     *)
(***************************************************************************)
\* A nonempty set of naturals has a least element.
LEMMA LeastNatural ==
    ASSUME NEW T \in SUBSET Nat, T # {}
    PROVE  \E least \in T : \A y \in T : least <= y
<1>1. IsWellFoundedOn(OpToRel(<, Nat), Nat)
      BY NatLessThanWellFounded
<1>2. PICK least \in T : \A y \in T : <<y, least>> \notin OpToRel(<, Nat)
      BY <1>1, WFMin
<1>3. \A y \in T : ~ (y < least)
      BY <1>2 DEF OpToRel
<1> QED  BY <1>3

\* P holds a number whenever it holds the smaller ones.
Hereditary(n, P) ==
    /\ n \in Nat /\ P \in SUBSET (0 .. n)
    /\ \A i \in 0 .. n : (\A j \in 0 .. n : j < i => j \in P) => i \in P

LEMMA Everywhere ==
    ASSUME NEW n, NEW P, Hereditary(n, P)
    PROVE  P = 0 .. n
<1> DEFINE T == {i \in 0 .. n : i \notin P}
<1> SUFFICES ASSUME T # {} PROVE FALSE
    BY DEF Hereditary
<1>1. PICK least \in T : \A y \in T : least <= y
  <2>1. T \in SUBSET Nat
        BY DEF Hereditary
  <2> HIDE DEF T
  <2> QED  BY <2>1, LeastNatural
<1>2. \A j \in 0 .. n : j < least => j \in P
  <2> SUFFICES ASSUME NEW j \in 0 .. n, j < least, j \notin P PROVE FALSE
      OBVIOUS
  <2>1. least <= j /\ least \in Nat /\ j \in Nat
        BY <1>1 DEF Hereditary
  <2> QED  BY <2>1
<1> QED  BY <1>1, <1>2 DEF Hereditary

\* The keys a path is made of.
PathKeys == Names \cup {Unnamed} \cup Nat
Paths == Seq(PathKeys)

\* The nodes under p that come before i are finitely many.
LEMMA EarlierAreFinite ==
    ASSUME NEW nodes, Document(nodes), NEW p, NEW i
    PROVE  /\ IsFiniteSet(ChildrenOf(nodes, p))
           /\ IsFiniteSet({j \in ChildrenOf(nodes, p) : j < i})
           /\ Cardinality(ChildrenOf(nodes, p)) \in Nat
           /\ Cardinality({j \in ChildrenOf(nodes, p) : j < i}) \in Nat
<1> DEFINE all == 1 .. Len(nodes)
           kids == ChildrenOf(nodes, p)
           some == {j \in kids : j < i}
<1>1. Len(nodes) \in Int /\ 1 \in Int /\ DOMAIN nodes = all
      BY DEF Document
<1>2. IsFiniteSet(all)
      BY <1>1, FS_Interval
<1>3. kids \in SUBSET all /\ some \in SUBSET all
      BY <1>1 DEF ChildrenOf
<1> HIDE DEF all, kids, some
<1>4. IsFiniteSet(kids) /\ IsFiniteSet(some)
      BY <1>2, <1>3, FS_Subset
<1>5. Cardinality(kids) \in Nat /\ Cardinality(some) \in Nat
      BY <1>4, FS_CardinalityType
<1> QED  BY <1>4, <1>5 DEF kids, some

\* What a document says of each node.
LEMMA NodesOf ==
    ASSUME NEW nodes, Document(nodes)
    PROVE  /\ Len(nodes) \in Nat /\ DOMAIN nodes = 1 .. Len(nodes)
           /\ \A i \in 1 .. Len(nodes) :
                 /\ nodes[i] \in Node /\ nodes[i].parent \in 0 .. Len(nodes) /\ nodes[i].parent < i
                 /\ KeyOf(nodes, i) \in PathKeys
                 /\ IsSeq(nodes, nodes[i].parent) \/ nodes[i].name # Unnamed
<1>1. nodes \in Seq(Node) /\ Len(nodes) \in Nat /\ DOMAIN nodes = 1 .. Len(nodes)
      BY DEF Document
<1>2. ASSUME NEW i \in 1 .. Len(nodes)
      PROVE  /\ nodes[i] \in Node /\ nodes[i].parent \in 0 .. Len(nodes) /\ nodes[i].parent < i
             /\ KeyOf(nodes, i) \in PathKeys
             /\ IsSeq(nodes, nodes[i].parent) \/ nodes[i].name # Unnamed
  <2>1. nodes[i] \in Node
        BY <1>1
  <2>2. nodes[i].parent \in Nat /\ nodes[i].name \in Names \cup {Unnamed}
        BY <2>1, PersistenceAssumption DEF Node
  <2>3. nodes[i].parent < i /\ (IsSeq(nodes, nodes[i].parent) \/ nodes[i].name # Unnamed)
        BY <1>1 DEF Document, WellFormed
  <2>4. nodes[i].parent \in 0 .. Len(nodes)
    <3> DEFINE p == nodes[i].parent
    <3>1. p \in Nat /\ i \in Nat /\ i <= Len(nodes) /\ p < i
          BY <1>1, <2>2, <2>3
    <3> HIDE DEF p
    <3>2. p \in 0 .. Len(nodes)
          BY <1>1, <3>1
    <3> QED  BY <3>2 DEF p
  <2>5. KeyOf(nodes, i) \in PathKeys
    <3>1. Cardinality({j \in ChildrenOf(nodes, nodes[i].parent) : j < i}) \in Nat
          BY EarlierAreFinite
    <3> QED  BY <2>2, <3>1 DEF KeyOf, PathKeys
  <2> QED  BY <2>1, <2>3, <2>4, <2>5
<1> QED  BY <1>1, <1>2

\* What is appended can be taken off again.
LEMMA FrontOfAppend ==
    ASSUME NEW S, NEW s \in Seq(S), NEW e \in S
    PROVE  Append(s, e) # << >> /\ Front(Append(s, e)) = s
<1> DEFINE longer == Append(s, e)
<1>1. /\ longer \in Seq(S) /\ Len(longer) = Len(s) + 1 /\ Len(s) \in Nat
      /\ \A i \in 1 .. Len(s) : longer[i] = s[i]
      BY AppendOf
<1> HIDE DEF longer
<1>2. longer # << >>
      BY <1>1
<1>3. /\ Front(longer) \in Seq(S) /\ Len(Front(longer)) = Len(s)
      /\ \A i \in 1 .. Len(s) : Front(longer)[i] = s[i]
  <2>1. /\ Front(longer) \in Seq(S) /\ Len(Front(longer)) = Len(longer) - 1
        /\ \A i \in 1 .. Len(longer) - 1 : Front(longer)[i] = longer[i]
        BY <1>1, <1>2, FrontOf
  <2>2. Len(longer) - 1 = Len(s)
        BY <1>1
  <2> QED  BY <1>1, <2>1, <2>2
<1>4. Front(longer) = s
      BY <1>1, <1>3
<1> QED  BY <1>2, <1>4 DEF longer

LEMMA AppendsDiffer ==
    ASSUME NEW S, NEW s \in Seq(S), NEW t \in Seq(S), NEW x \in S, NEW y \in S,
           Append(s, x) = Append(t, y)
    PROVE  s = t /\ x = y
<1>1. s = t
  <2> DEFINE a == Append(s, x)
             b == Append(t, y)
  <2>1. Front(a) = s /\ Front(b) = t /\ a = b
        BY FrontOfAppend
  <2> HIDE DEF a, b
  <2> QED  BY <2>1
<1>2. Append(s, x)[Len(s) + 1] = x /\ Append(t, y)[Len(t) + 1] = y
      BY AppendOf
<1> QED  BY <1>1, <1>2

\* f gives the path of each node up to m.
PathsUpTo(m, nodes, f) ==
    /\ f \in [0 .. m -> Paths] /\ f[0] = << >>
    /\ \A i \in 1 .. m : f[i] = Append(f[nodes[i].parent], KeyOf(nodes, i))

LEMMA PathsExist ==
    ASSUME NEW nodes, Document(nodes)
    PROVE  \E f : PathsUpTo(Len(nodes), nodes, f)
<1> DEFINE n == Len(nodes)
           P == {m \in 0 .. n : \E f : PathsUpTo(m, nodes, f)}
<1>1. n \in Nat
      BY NodesOf
<1>2. ASSUME NEW i \in 0 .. n, \A j \in 0 .. n : j < i => j \in P PROVE i \in P
  <2>1. CASE i = 0
    <3> DEFINE f == [k \in 0 .. 0 |-> << >>]
    <3>1. f \in [0 .. 0 -> Paths] /\ f[0] = << >>
          BY NoElements DEF Paths
    <3> HIDE DEF f
    <3>2. PathsUpTo(0, nodes, f)
          BY <3>1 DEF PathsUpTo
    <3> QED  BY <1>1, <2>1, <3>2
  <2>2. CASE i # 0
    <3> DEFINE m == i - 1
               p == nodes[i].parent
    <3>1. m \in 0 .. n /\ m < i /\ m \in Nat /\ i = m + 1 /\ i \in 1 .. n
          BY <1>1, <2>2
    <3>2. PICK f : PathsUpTo(m, nodes, f)
          BY <1>2, <3>1
    <3>3. p \in 0 .. n /\ p < i /\ KeyOf(nodes, i) \in PathKeys
          BY <3>1, NodesOf
    <3> HIDE DEF m
    <3>4. p \in 0 .. m
      <4> HIDE DEF p
      <4> QED  BY <3>1, <3>3
    <3> DEFINE g == [k \in 0 .. i |-> IF k = i THEN Append(f[p], KeyOf(nodes, i)) ELSE f[k]]
    <3>5. f \in [0 .. m -> Paths] /\ f[0] = << >>
          /\ \A k \in 1 .. m : f[k] = Append(f[nodes[k].parent], KeyOf(nodes, k))
          BY <3>2 DEF PathsUpTo
    <3>6. Append(f[p], KeyOf(nodes, i)) \in Paths
          BY <3>3, <3>4, <3>5 DEF Paths
    <3>7. g \in [0 .. i -> Paths]
      <4>1. \A k \in 0 .. i : k # i => k \in 0 .. m
            BY <3>1
      <4> QED  BY <3>5, <3>6, <4>1
    <3>8. g[i] = Append(f[p], KeyOf(nodes, i)) /\ \A k \in 0 .. m : g[k] = f[k]
          BY <3>1
    <3>9. g[0] = << >>
      <4>1. 0 \in 0 .. m
            BY <3>1
      <4> QED  BY <3>5, <3>8, <4>1
    <3> HIDE DEF g
    <3>10. ASSUME NEW k \in 1 .. i PROVE g[k] = Append(g[nodes[k].parent], KeyOf(nodes, k))
      <4>1. CASE k = i
            BY <3>4, <3>8, <4>1
      <4>2. CASE k # i
        <5>1. k \in 1 .. m /\ k \in 0 .. m /\ k \in 1 .. n
              BY <1>1, <3>1, <4>2
        <5>2. nodes[k].parent \in 0 .. n /\ nodes[k].parent < k
              BY <5>1, NodesOf
        <5>3. nodes[k].parent \in 0 .. m
          <6> DEFINE q == nodes[k].parent
          <6>1. q \in 0 .. n /\ q < k
                BY <5>2
          <6> HIDE DEF q
          <6>2. q \in 0 .. m
                BY <1>1, <3>1, <5>1, <6>1
          <6> QED  BY <6>2 DEF q
        <5> QED  BY <3>5, <3>8, <5>1, <5>3
      <4> QED  BY <4>1, <4>2
    <3>11. PathsUpTo(i, nodes, g)
           BY <3>7, <3>9, <3>10 DEF PathsUpTo
    <3> QED  BY <3>11
  <2> QED  BY <2>1, <2>2
<1>3. Hereditary(n, P)
  <2>1. P \in SUBSET (0 .. n)
        OBVIOUS
  <2> HIDE DEF P
  <2> QED  BY <1>1, <1>2, <2>1 DEF Hereditary
<1>4. n \in P
  <2> HIDE DEF P
  <2>1. P = 0 .. n
        BY <1>3, Everywhere
  <2> QED  BY <1>1, <2>1
<1> QED  BY <1>4

\* PathTo is that function.
LEMMA PathsAre ==
    ASSUME NEW nodes, Document(nodes)
    PROVE  PathsUpTo(Len(nodes), nodes, PathTo(nodes))
<1> DEFINE n == Len(nodes)
           Step(f) == [i \in 0 .. n |-> IF i = 0 THEN << >>
                                        ELSE Append(f[nodes[i].parent], KeyOf(nodes, i))]
<1>1. PICK G : PathsUpTo(n, nodes, G)
      BY PathsExist
<1>2. G = Step(G)
  <2>1. \A i \in 0 .. n : G[i] = Step(G)[i]
    <3> TAKE i \in 0 .. n
    <3>1. n \in Nat
          BY NodesOf
    <3>2. i = 0 \/ i \in 1 .. n
          BY <3>1
    <3> QED  BY <1>1, <3>2 DEF PathsUpTo
  <2>2. G = [i \in 0 .. n |-> G[i]] /\ Step(G) = [i \in 0 .. n |-> Step(G)[i]]
        BY <1>1 DEF PathsUpTo
  <2> QED  BY <2>1, <2>2
<1> DEFINE F == CHOOSE f : f = Step(f)
<1>3. F = Step(F)
      BY <1>2
<1>4. PathTo(nodes) = F
      BY DEF PathTo
<1>5. /\ F = [i \in 0 .. n |-> F[i]] /\ (0 \in 0 .. n => F[0] = << >>)
      /\ \A i \in 0 .. n : i # 0 => F[i] = Append(F[nodes[i].parent], KeyOf(nodes, i))
      BY <1>3
<1> HIDE DEF F, Step
<1> DEFINE P == {i \in 0 .. n : F[i] = G[i]}
<1>6. n \in Nat
      BY NodesOf
<1>7. ASSUME NEW i \in 0 .. n, \A j \in 0 .. n : j < i => j \in P PROVE i \in P
  <2>1. CASE i = 0
        BY <1>1, <1>5, <2>1 DEF PathsUpTo
  <2>2. CASE i # 0
    <3>1. i \in 1 .. n
          BY <1>6, <2>2
    <3>2. nodes[i].parent \in 0 .. n /\ nodes[i].parent < i
          BY <3>1, NodesOf
    <3>3. F[nodes[i].parent] = G[nodes[i].parent]
          BY <1>7, <3>2
    <3>4. G[i] = Append(G[nodes[i].parent], KeyOf(nodes, i))
          BY <1>1, <3>1 DEF PathsUpTo
    <3> QED  BY <1>5, <2>2, <3>3, <3>4
  <2> QED  BY <2>1, <2>2
<1>8. Hereditary(n, P)
  <2>1. P \in SUBSET (0 .. n)
        OBVIOUS
  <2> HIDE DEF P
  <2> QED  BY <1>6, <1>7, <2>1 DEF Hereditary
<1>9. P = 0 .. n
  <2> HIDE DEF P
  <2> QED  BY <1>8, Everywhere
<1>10. \A i \in 0 .. n : F[i] = G[i]
       BY <1>9
<1>11. F = G
  <2>1. G = [i \in 0 .. n |-> G[i]]
        BY <1>1 DEF PathsUpTo
  <2> QED  BY <1>5, <1>10, <2>1
<1> QED  BY <1>1, <1>4, <1>11

\* The path of the root, and of a node under it.
LEMMA PathsOf ==
    ASSUME NEW nodes, Document(nodes), NEW path, path = PathTo(nodes)
    PROVE  /\ path[0] = << >>
           /\ \A i \in 0 .. Len(nodes) : path[i] \in Paths
           /\ \A i \in 1 .. Len(nodes) :
                 /\ path[i] = Append(path[nodes[i].parent], KeyOf(nodes, i))
                 /\ path[nodes[i].parent] \in Paths /\ KeyOf(nodes, i) \in PathKeys
                 /\ path[i] # << >> /\ Front(path[i]) = path[nodes[i].parent]
<1>1. PathsUpTo(Len(nodes), nodes, path)
      BY PathsAre
<1>2. path[0] = << >> /\ \A i \in 0 .. Len(nodes) : path[i] \in Paths
      BY <1>1 DEF PathsUpTo
<1>3. ASSUME NEW i \in 1 .. Len(nodes)
      PROVE  /\ path[i] = Append(path[nodes[i].parent], KeyOf(nodes, i))
             /\ path[nodes[i].parent] \in Paths /\ KeyOf(nodes, i) \in PathKeys
             /\ path[i] # << >> /\ Front(path[i]) = path[nodes[i].parent]
  <2> DEFINE s == path[nodes[i].parent]
             k == KeyOf(nodes, i)
  <2>1. path[i] = Append(s, k)
        BY <1>1 DEF PathsUpTo
  <2>2. s \in Paths /\ k \in PathKeys
        BY <1>2, NodesOf
  <2> HIDE DEF s, k
  <2>3. Append(s, k) # << >> /\ Front(Append(s, k)) = s
        BY <2>2, FrontOfAppend DEF Paths
  <2> QED  BY <2>1, <2>2, <2>3 DEF s, k
<1> QED  BY <1>2, <1>3

\* Among the nodes under one structure, at most one has a name.
Unambiguous(nodes) ==
    \A i, j \in DOMAIN nodes :
        nodes[i].parent = nodes[j].parent /\ nodes[i].name = nodes[j].name
        /\ nodes[i].name # Unnamed => i = j

\* The nodes under one structure have different keys.
LEMMA SiblingsDiffer ==
    ASSUME NEW nodes, Document(nodes), Unambiguous(nodes),
           NEW i \in 1 .. Len(nodes), NEW j \in 1 .. Len(nodes),
           nodes[i].parent = nodes[j].parent, KeyOf(nodes, i) = KeyOf(nodes, j)
    PROVE  i = j
<1> DEFINE p == nodes[i].parent
<1>1. DOMAIN nodes = 1 .. Len(nodes) /\ Len(nodes) \in Nat
      BY NodesOf
<1>2. CASE IsSeq(nodes, p)
  <2> DEFINE kids == ChildrenOf(nodes, p)
             before(k) == {m \in kids : m < k}
  <2>1. \A k \in 1 .. Len(nodes) : IsFiniteSet(before(k))
        BY EarlierAreFinite
  <2>2. Cardinality(before(i)) = Cardinality(before(j))
        BY <1>2 DEF KeyOf
  <2>3. i \in kids /\ j \in kids
        BY <1>1 DEF ChildrenOf
  <2>4. \A k \in 1 .. Len(nodes), m \in 1 .. Len(nodes) :
           k \in kids /\ k < m => before(k) \in SUBSET before(m) /\ before(k) # before(m)
    <3> SUFFICES ASSUME NEW k \in 1 .. Len(nodes), NEW m \in 1 .. Len(nodes), k \in kids, k < m
                 PROVE  before(k) \in SUBSET before(m) /\ before(k) # before(m)
        OBVIOUS
    <3>1. \A x \in kids : x \in Nat
          BY <1>1 DEF ChildrenOf
    <3>2. before(k) \in SUBSET before(m)
      <4>1. k \in Nat /\ m \in Nat
            BY <1>1
      <4>2. \A x \in Nat : x < k => x < m
            BY <4>1
      <4> QED  BY <3>1, <4>2
    <3>3. k \in before(m) /\ k \notin before(k)
          BY <1>1
    <3> QED  BY <3>2, <3>3
  <2> HIDE DEF before, kids
  <2>5. ASSUME NEW k \in 1 .. Len(nodes), NEW m \in 1 .. Len(nodes),
               k \in kids, k < m, Cardinality(before(k)) = Cardinality(before(m))
        PROVE  FALSE
    <3>1. before(k) \in SUBSET before(m) /\ before(k) # before(m) /\ IsFiniteSet(before(m))
          BY <2>1, <2>4, <2>5
    <3>2. before(m) = before(k)
          BY <2>5, <3>1, FS_Subset
    <3> QED  BY <3>1, <3>2
  <2>6. ~ (i < j) /\ ~ (j < i)
        BY <2>2, <2>3, <2>5
  <2> QED  BY <1>1, <2>6
<1>3. CASE ~ IsSeq(nodes, p)
  <2>1. nodes[i].name = nodes[j].name
        BY <1>3 DEF KeyOf
  <2>2. nodes[i].name # Unnamed
        BY <1>3, NodesOf
  <2> QED  BY <1>1, <2>1, <2>2 DEF Unambiguous
<1> QED  BY <1>2, <1>3

\* No two nodes have the same path.
LEMMA PathsDiffer ==
    ASSUME NEW nodes, Document(nodes), Unambiguous(nodes), NEW path, path = PathTo(nodes)
    PROVE  \A i, j \in 0 .. Len(nodes) : path[i] = path[j] => i = j
<1> DEFINE n == Len(nodes)
           P == {i \in 0 .. n : \A j \in 0 .. n : path[i] = path[j] => i = j}
<1>1. n \in Nat
      BY NodesOf
<1>2. /\ path[0] = << >>
      /\ \A i \in 1 .. n : /\ path[i] = Append(path[nodes[i].parent], KeyOf(nodes, i))
                           /\ path[nodes[i].parent] \in Paths /\ KeyOf(nodes, i) \in PathKeys
                           /\ path[i] # << >>
      BY PathsOf
<1>3. \A i \in 1 .. n : nodes[i].parent \in 0 .. n /\ nodes[i].parent < i
      BY NodesOf
<1>4. ASSUME NEW i \in 0 .. n, \A j \in 0 .. n : j < i => j \in P PROVE i \in P
  <2> SUFFICES ASSUME NEW j \in 0 .. n, path[i] = path[j] PROVE i = j
      OBVIOUS
  <2>1. CASE i = 0 \/ j = 0
    <3>1. (i = 0 \/ i \in 1 .. n) /\ (j = 0 \/ j \in 1 .. n)
          BY <1>1
    <3> QED  BY <1>2, <2>1, <3>1
  <2>2. CASE i # 0 /\ j # 0
    <3>1. i \in 1 .. n /\ j \in 1 .. n
          BY <1>1, <2>2
    <3> DEFINE s == path[nodes[i].parent]
               t == path[nodes[j].parent]
               x == KeyOf(nodes, i)
               y == KeyOf(nodes, j)
    <3>2. Append(s, x) = Append(t, y) /\ s \in Paths /\ t \in Paths /\ x \in PathKeys /\ y \in PathKeys
          BY <1>2, <3>1
    <3> HIDE DEF s, t, x, y
    <3>3. s = t /\ x = y
          BY <3>2, AppendsDiffer DEF Paths
    <3>4. nodes[i].parent \in P
          BY <1>3, <1>4, <3>1
    <3>5. nodes[i].parent = nodes[j].parent
          BY <1>3, <3>1, <3>3, <3>4 DEF s, t
    <3> QED  BY <3>1, <3>3, <3>5, SiblingsDiffer DEF x, y
  <2> QED  BY <2>1, <2>2
<1>5. Hereditary(n, P)
  <2>1. P \in SUBSET (0 .. n)
        OBVIOUS
  <2> HIDE DEF P
  <2> QED  BY <1>1, <1>4, <2>1 DEF Hereditary
<1>6. P = 0 .. n
  <2> HIDE DEF P
  <2> QED  BY <1>5, Everywhere
<1> QED  BY <1>6

-----------------------------------------------------------------------------
(***************************************************************************)
(* The tree of a document.                                                 *)
(***************************************************************************)
\* A document whose nodes can be told apart by their paths.
Legible(nodes) == Document(nodes) /\ Unambiguous(nodes)

LEMMA PromisedOperators ==
    /\ \A S : Promise!Cardinality(S) = Cardinality(S)
    /\ \A s : Promise!Front(s) = Front(s)
BY DEF Promise!Cardinality, Cardinality, Promise!IsFiniteSet, IsFiniteSet, Promise!Front, Front

\* t has the content of node i at the path of node i, and nothing else.
HasContents(nodes, path, t) ==
    /\ t = [p \in DOMAIN t |-> t[p]]
    /\ DOMAIN t = {path[i] : i \in 0 .. Len(nodes)}
    /\ \A i \in 0 .. Len(nodes) : path[i] \in DOMAIN t /\ t[path[i]] = Content(nodes, i)

LEMMA TreesAre ==
    ASSUME NEW nodes, Legible(nodes), NEW path, path = PathTo(nodes), NEW t, t = TreeOf(nodes)
    PROVE  HasContents(nodes, path, t)
<1> DEFINE n == Len(nodes)
           at(p) == CHOOSE i \in 0 .. n : path[i] = p
<1>1. t = [p \in {path[i] : i \in 0 .. n} |-> Content(nodes, at(p))]
      BY DEF TreeOf
<1>2. ASSUME NEW i \in 0 .. n PROVE at(path[i]) = i
  <2> DEFINE j == at(path[i])
  <2>1. j \in 0 .. n /\ path[j] = path[i]
        OBVIOUS
  <2> HIDE DEF j
  <2>2. j = i
        BY <2>1, PathsDiffer DEF Legible
  <2> QED  BY <2>2 DEF j
<1> HIDE DEF at
<1>3. DOMAIN t = {path[i] : i \in 0 .. n} /\ t = [p \in DOMAIN t |-> t[p]]
      BY <1>1
<1>4. ASSUME NEW i \in 0 .. n PROVE path[i] \in DOMAIN t /\ t[path[i]] = Content(nodes, i)
  <2>1. path[i] \in {path[k] : k \in 0 .. n}
        OBVIOUS
  <2>2. t[path[i]] = Content(nodes, at(path[i]))
        BY <1>1, <2>1
  <2> QED  BY <1>2, <1>3, <2>1, <2>2
<1> QED  BY <1>3, <1>4 DEF HasContents

\* The paths under the path of node i are those of the nodes under node i.
LEMMA ChildrenAre ==
    ASSUME NEW nodes, Legible(nodes), NEW path, path = PathTo(nodes), NEW t, t = TreeOf(nodes),
           NEW i \in 0 .. Len(nodes)
    PROVE  /\ Promise!Children(t, path[i]) = {path[j] : j \in ChildrenOf(nodes, i)}
           /\ Cardinality(Promise!Children(t, path[i])) = Cardinality(ChildrenOf(nodes, i))
           /\ \A j \in ChildrenOf(nodes, i) : path[j] \in Promise!Children(t, path[i])
<1> DEFINE n == Len(nodes)
           below == Promise!Children(t, path[i])
           kids == ChildrenOf(nodes, i)
           images == {path[j] : j \in kids}
<1>1. n \in Nat /\ DOMAIN nodes = 1 .. n
      /\ \A j \in 1 .. n : nodes[j].parent \in 0 .. n
      BY NodesOf DEF Legible
<1>2. /\ path[0] = << >>
      /\ \A j \in 1 .. n : path[j] # << >> /\ Front(path[j]) = path[nodes[j].parent]
      BY PathsOf DEF Legible
<1>3. \A j, k \in 0 .. n : path[j] = path[k] => j = k
      BY PathsDiffer DEF Legible
<1>4. DOMAIN t = {path[j] : j \in 0 .. n}
  <2>1. HasContents(nodes, path, t)
        BY TreesAre
  <2> QED  BY <2>1 DEF HasContents
<1>5. below = {q \in DOMAIN t : q # << >> /\ Front(q) = path[i]}
      BY PromisedOperators DEF Promise!Children
<1>6. kids = {j \in 1 .. n : nodes[j].parent = i}
      BY <1>1 DEF ChildrenOf
<1> HIDE DEF below, kids
<1>7. \A q \in below : q \in images
  <2> SUFFICES ASSUME NEW q \in below PROVE q \in images
      OBVIOUS
  <2>1. PICK j \in 0 .. n : q = path[j]
        BY <1>4, <1>5
  <2>2. j \in 1 .. n
        BY <1>1, <1>2, <1>5, <2>1
  <2>3. path[nodes[j].parent] = path[i]
        BY <1>2, <1>5, <2>1, <2>2
  <2>4. nodes[j].parent = i
        BY <1>1, <1>3, <2>2, <2>3
  <2> QED  BY <1>6, <2>1, <2>2, <2>4
<1>8. \A j \in kids : path[j] \in below
  <2> TAKE j \in kids
  <2>1. j \in 1 .. n /\ nodes[j].parent = i /\ j \in 0 .. n
        BY <1>1, <1>6
  <2> QED  BY <1>2, <1>4, <1>5, <2>1
<1>9. below = images
      BY <1>7, <1>8
<1>10. Cardinality(below) = Cardinality(kids)
  <2> DEFINE f == [j \in kids |-> path[j]]
  <2>1. f \in [kids -> below]
        BY <1>8
  <2>2. \A j, k \in kids : f[j] = f[k] => j = k
        BY <1>1, <1>3, <1>6
  <2>3. \A q \in below : \E j \in kids : f[j] = q
        BY <1>9
  <2> HIDE DEF f
  <2>4. f \in Bijection(kids, below)
        BY <2>1, <2>2, <2>3 DEF Bijection, Injection, Surjection, IsInjective
  <2>5. IsFiniteSet(kids)
        BY EarlierAreFinite DEF kids, Legible
  <2>6. ExistsBijection(kids, below)
        BY <2>4 DEF ExistsBijection
  <2> QED  BY <2>5, <2>6, FS_Bijection
<1> QED  BY <1>8, <1>9, <1>10 DEF below, kids

\* The nodes of one document are the first nodes of another, which may only
\* have failed to recognise a mapping.
Continues(nodes, longer) ==
    /\ Legible(nodes) /\ Legible(longer) /\ Len(nodes) <= Len(longer)
    /\ \A i \in DOMAIN nodes : /\ longer[i].parent = nodes[i].parent
                               /\ longer[i].name = nodes[i].name
                               /\ longer[i].kind = "seq" <=> nodes[i].kind = "seq"

\* They keep their keys and their paths.
LEMMA KeysContinue ==
    ASSUME NEW nodes, NEW longer, Continues(nodes, longer), NEW i \in 1 .. Len(nodes)
    PROVE  KeyOf(longer, i) = KeyOf(nodes, i)
<1> DEFINE p == nodes[i].parent
<1>1. /\ Len(nodes) \in Nat /\ DOMAIN nodes = 1 .. Len(nodes)
      /\ Len(longer) \in Nat /\ DOMAIN longer = 1 .. Len(longer)
      /\ p \in 0 .. Len(nodes) /\ Len(nodes) <= Len(longer)
      BY NodesOf DEF Legible, Continues
<1>2. longer[i].parent = p /\ longer[i].name = nodes[i].name
      BY <1>1 DEF Continues
<1>3. IsSeq(longer, p) <=> IsSeq(nodes, p)
  <2>1. p = 0 \/ p \in DOMAIN nodes
        BY <1>1
  <2> HIDE DEF p
  <2> QED  BY <2>1 DEF IsSeq, Continues
<1>4. {j \in ChildrenOf(longer, p) : j < i} = {j \in ChildrenOf(nodes, p) : j < i}
  <2>1. \A j \in 1 .. Len(longer) : j < i => j \in 1 .. Len(nodes)
        BY <1>1
  <2>2. \A j \in 1 .. Len(nodes) : j \in 1 .. Len(longer)
        BY <1>1
  <2>3. \A j \in 1 .. Len(nodes) : longer[j].parent = nodes[j].parent
        BY <1>1 DEF Continues
  <2> HIDE DEF p
  <2> QED  BY <1>1, <2>1, <2>2, <2>3 DEF ChildrenOf
<1> QED  BY <1>2, <1>3, <1>4 DEF KeyOf

LEMMA PathsContinue ==
    ASSUME NEW nodes, NEW longer, Continues(nodes, longer)
    PROVE  \A i \in 0 .. Len(nodes) : PathTo(longer)[i] = PathTo(nodes)[i]
<1> DEFINE n == Len(nodes)
           f == PathTo(nodes)
           g == PathTo(longer)
           P == {i \in 0 .. n : g[i] = f[i]}
<1>1. /\ n \in Nat /\ Len(longer) \in Nat /\ n <= Len(longer) /\ DOMAIN nodes = 1 .. n
      /\ Document(nodes) /\ Document(longer)
      BY NodesOf DEF Legible, Continues
<1>2. /\ f[0] = << >> /\ g[0] = << >>
      /\ \A i \in 1 .. n : f[i] = Append(f[nodes[i].parent], KeyOf(nodes, i))
      /\ \A i \in 1 .. Len(longer) : g[i] = Append(g[longer[i].parent], KeyOf(longer, i))
      BY <1>1, PathsOf
<1> HIDE DEF f, g
<1>3. ASSUME NEW i \in 0 .. n, \A j \in 0 .. n : j < i => j \in P PROVE i \in P
  <2>1. CASE i = 0
        BY <1>2, <2>1
  <2>2. CASE i # 0
    <3>1. i \in 1 .. n /\ i \in 1 .. Len(longer)
          BY <1>1, <2>2
    <3>2. nodes[i].parent \in 0 .. n /\ nodes[i].parent < i /\ longer[i].parent = nodes[i].parent
          BY <1>1, <3>1, NodesOf DEF Continues
    <3>3. g[nodes[i].parent] = f[nodes[i].parent]
          BY <1>3, <3>2
    <3>4. KeyOf(longer, i) = KeyOf(nodes, i)
          BY <3>1, KeysContinue
    <3> QED  BY <1>2, <3>1, <3>2, <3>3, <3>4
  <2> QED  BY <2>1, <2>2
<1>4. Hereditary(n, P)
  <2>1. P \in SUBSET (0 .. n)
        OBVIOUS
  <2> HIDE DEF P
  <2> QED  BY <1>1, <1>3, <2>1 DEF Hereditary
<1>5. P = 0 .. n
  <2> HIDE DEF P
  <2> QED  BY <1>4, Everywhere
<1> QED  BY <1>5 DEF f, g

\* u is t and a node more, at a path p of a key that is free under the path above.
GrowsBy(t, u, p, above, kind, value) ==
    /\ u = [q \in DOMAIN t \cup {p} |-> IF q = p THEN [kind |-> kind, value |-> value] ELSE t[q]]
    /\ \E key \in Promise!NextKeys(t, above) : p = Append(above, key)

LEMMA TreeGrows ==
    ASSUME NEW nodes, NEW longer, Continues(nodes, longer),
           NEW place, place = Len(nodes) + 1, Len(longer) = place,
           \A i \in DOMAIN nodes : longer[i] = nodes[i],
           NEW t, t = TreeOf(nodes), NEW above, above = PathTo(nodes)[longer[place].parent],
           NEW p, p = PathTo(longer)[place]
    PROVE  GrowsBy(t, TreeOf(longer), p, above, longer[place].kind, longer[place].value)
<1> DEFINE n == Len(nodes)
           top == longer[place].parent
           path == PathTo(nodes)
           further == PathTo(longer)
           u == TreeOf(longer)
           key == KeyOf(longer, place)
<1>1. /\ n \in Nat /\ place \in Nat /\ place = n + 1 /\ place # 0
      /\ DOMAIN nodes = 1 .. n /\ DOMAIN longer = 1 .. place
      /\ Legible(nodes) /\ Legible(longer) /\ Document(nodes) /\ Document(longer)
      /\ place \in 1 .. Len(longer) /\ place \in 0 .. Len(longer)
      BY NodesOf DEF Legible, Continues
<1>2. /\ top \in 0 .. n /\ longer[place] \in Node
      /\ IsSeq(longer, top) \/ longer[place].name # Unnamed
  <2>1. top \in 0 .. Len(longer) /\ top < place /\ longer[place] \in Node
        /\ (IsSeq(longer, top) \/ longer[place].name # Unnamed)
        BY <1>1, NodesOf
  <2> HIDE DEF top
  <2> QED  BY <1>1, <2>1
<1>3. p = Append(above, key)
  <2>1. further[place] = Append(further[top], key)
        BY <1>1, PathsOf
  <2>2. further[top] = path[top]
        BY <1>2, PathsContinue
  <2> QED  BY <2>1, <2>2
<1>4. HasContents(nodes, path, t) /\ HasContents(longer, further, u)
      BY <1>1, TreesAre
<1>5. \A i \in 0 .. n : further[i] = path[i]
      BY PathsContinue
<1>6. \A i \in 0 .. n : further[i] # p
  <2>1. \A i, j \in 0 .. Len(longer) : further[i] = further[j] => i = j
        BY <1>1, PathsDiffer DEF Legible
  <2>2. \A i \in 0 .. n : i \in 0 .. Len(longer) /\ i # place
        BY <1>1
  <2> QED  BY <1>1, <2>1, <2>2
<1>7. \A i \in 0 .. n : Content(longer, i) = Content(nodes, i)
      BY <1>1 DEF Content
<1>8. p = further[place] /\ above = path[top]
      OBVIOUS
<1> HIDE DEF path, further, u, key
<1>9. /\ DOMAIN t = {path[i] : i \in 0 .. n}
      /\ \A i \in 0 .. n : path[i] \in DOMAIN t /\ t[path[i]] = Content(nodes, i)
      BY <1>4 DEF HasContents
<1>10. /\ DOMAIN u = {further[i] : i \in 0 .. Len(longer)}
       /\ \A i \in 0 .. Len(longer) : further[i] \in DOMAIN u /\ u[further[i]] = Content(longer, i)
       BY <1>4 DEF HasContents
<1>11. p \in DOMAIN u /\ u[p] = [kind |-> longer[place].kind, value |-> longer[place].value]
       BY <1>1, <1>8, <1>10 DEF Content
<1>12. \A i \in 0 .. n : i \in 0 .. Len(longer)
       BY <1>1
<1>13. \A q \in DOMAIN t : q # p /\ q \in DOMAIN u /\ u[q] = t[q]
  <2> SUFFICES ASSUME NEW i \in 0 .. n
               PROVE  path[i] # p /\ path[i] \in DOMAIN u /\ u[path[i]] = t[path[i]]
      BY <1>9
  <2>1. further[i] \in DOMAIN u /\ u[further[i]] = Content(longer, i)
        BY <1>10, <1>12
  <2>2. t[path[i]] = Content(nodes, i) /\ further[i] = path[i] /\ further[i] # p
        BY <1>5, <1>6, <1>9
  <2> QED  BY <1>7, <2>1, <2>2
<1>14. DOMAIN u = DOMAIN t \cup {p}
  <2>1. \A q \in DOMAIN u : q \in DOMAIN t \cup {p}
    <3> SUFFICES ASSUME NEW i \in 0 .. Len(longer) PROVE further[i] \in DOMAIN t \cup {p}
        BY <1>10
    <3>1. i = place \/ i \in 0 .. n
          BY <1>1
    <3> QED  BY <1>5, <1>8, <1>9, <3>1
  <2> QED  BY <1>11, <1>13, <2>1
<1>15. u = [q \in DOMAIN u |-> u[q]]
       BY <1>4 DEF HasContents
<1>16. top \in 0 .. n /\ above \in DOMAIN t /\ (t[above].kind = "seq" <=> IsSeq(nodes, top))
  <2>1. t[path[top]] = Content(nodes, top) /\ path[top] \in DOMAIN t
        BY <1>2, <1>9
  <2>2. Content(nodes, top).kind = "seq" <=> IsSeq(nodes, top)
        BY DEF Content, IsSeq
  <2> QED  BY <1>2, <1>8, <2>1, <2>2
<1>17. IsSeq(longer, top) <=> IsSeq(nodes, top)
  <2>1. top = 0 \/ longer[top] = nodes[top]
        BY <1>1, <1>2
  <2> QED  BY <2>1 DEF IsSeq
<1>18. key \in Promise!NextKeys(t, above)
  <2>1. CASE IsSeq(nodes, top)
    <3>1. key = Cardinality({j \in ChildrenOf(longer, top) : j < place})
          BY <1>17, <2>1 DEF KeyOf, key
    <3>2. {j \in ChildrenOf(longer, top) : j < place} = ChildrenOf(nodes, top)
      <4>1. \A j \in 1 .. place : j < place <=> j \in 1 .. n
            BY <1>1
      <4>2. \A j \in 1 .. n : j \in 1 .. place /\ longer[j].parent = nodes[j].parent
            BY <1>1
      <4> HIDE DEF top
      <4> QED  BY <1>1, <4>1, <4>2 DEF ChildrenOf
    <3>3. Cardinality(Promise!Children(t, above)) = Cardinality(ChildrenOf(nodes, top))
          BY <1>1, <1>2, ChildrenAre
    <3> QED  BY <1>16, <2>1, <3>1, <3>2, <3>3, PromisedOperators DEF Promise!NextKeys
  <2>2. CASE ~ IsSeq(nodes, top)
    <3>1. key = longer[place].name
          BY <1>17, <2>2 DEF KeyOf, key
    <3>2. longer[place].name \in Names
          BY <1>2, <1>17, <2>2 DEF Node
    <3>3. Append(above, key) \notin DOMAIN t
          BY <1>3, <1>11, <1>13
    <3> QED  BY <1>16, <2>2, <3>1, <3>2, <3>3 DEF Promise!NextKeys
  <2> QED  BY <2>1, <2>2
<1>19. u = [q \in DOMAIN t \cup {p} |->
              IF q = p THEN [kind |-> longer[place].kind, value |-> longer[place].value] ELSE t[q]]
       BY <1>11, <1>13, <1>14, <1>15
<1> QED  BY <1>3, <1>18, <1>19 DEF u, GrowsBy

\* What the parser makes of a document is what a reader may see of its tree.
LEMMA ParsedNodes ==
    ASSUME NEW nodes, Document(nodes), NEW parsed,
           NEW lost \in SUBSET {i \in DOMAIN nodes : nodes[i].kind = "map" /\ ChildrenOf(nodes, i) = {}},
           parsed = [i \in DOMAIN nodes |-> IF i \in lost THEN [nodes[i] EXCEPT !.kind = "absent"]
                                            ELSE nodes[i]]
    PROVE  /\ DOMAIN parsed = DOMAIN nodes
           /\ \A i \in DOMAIN nodes :
                 /\ parsed[i].parent = nodes[i].parent /\ parsed[i].name = nodes[i].name
                 /\ parsed[i].value = nodes[i].value
                 /\ i \notin lost => parsed[i].kind = nodes[i].kind
                 /\ i \in lost => parsed[i].kind = "absent" /\ nodes[i].kind = "map"
<1>1. nodes \in Seq(Node)
      BY DEF Document
<1>2. \A i \in DOMAIN nodes : nodes[i] \in Node
      BY <1>1
<1> QED  BY <1>2 DEF Node

LEMMA ParsedContinues ==
    ASSUME NEW nodes, Legible(nodes), NEW parsed \in Parsed(nodes)
    PROVE  Continues(nodes, parsed) /\ Len(parsed) = Len(nodes)
<1>1. PICK lost \in SUBSET {i \in DOMAIN nodes : nodes[i].kind = "map" /\ ChildrenOf(nodes, i) = {}} :
         parsed = [i \in DOMAIN nodes |-> IF i \in lost THEN [nodes[i] EXCEPT !.kind = "absent"]
                                          ELSE nodes[i]]
      BY DEF Parsed
<1>2. /\ DOMAIN parsed = DOMAIN nodes
      /\ \A i \in DOMAIN nodes :
            /\ parsed[i].parent = nodes[i].parent /\ parsed[i].name = nodes[i].name
            /\ parsed[i].kind = "seq" <=> nodes[i].kind = "seq"
      BY <1>1, ParsedNodes DEF Legible
<1>3. Document(nodes) /\ Document(parsed)
      BY ParsedDocument DEF Legible
<1>4. Len(nodes) \in Nat /\ Len(parsed) \in Nat /\ DOMAIN nodes = 1 .. Len(nodes)
      /\ DOMAIN parsed = 1 .. Len(parsed)
      BY <1>3, NodesOf
<1>5. Len(parsed) = Len(nodes)
      BY <1>2, <1>4
<1>6. Unambiguous(parsed)
      BY <1>2 DEF Unambiguous, Legible
<1> QED  BY <1>2, <1>3, <1>4, <1>5, <1>6 DEF Continues, Legible

LEMMA ParsedTree ==
    ASSUME NEW nodes, Legible(nodes), NEW parsed \in Parsed(nodes),
           NEW t, t = TreeOf(nodes), NEW u, u = TreeOf(parsed)
    PROVE  u \in Promise!Parses(t)
<1> DEFINE n == Len(nodes)
           path == PathTo(nodes)
           further == PathTo(parsed)
<1>1. PICK lost \in SUBSET {i \in DOMAIN nodes : nodes[i].kind = "map" /\ ChildrenOf(nodes, i) = {}} :
         parsed = [i \in DOMAIN nodes |-> IF i \in lost THEN [nodes[i] EXCEPT !.kind = "absent"]
                                          ELSE nodes[i]]
      BY DEF Parsed
<1>2. \A i \in DOMAIN nodes :
         /\ parsed[i].value = nodes[i].value
         /\ i \notin lost => parsed[i].kind = nodes[i].kind
         /\ i \in lost => parsed[i].kind = "absent" /\ nodes[i].kind = "map"
      BY <1>1, ParsedNodes DEF Legible
<1>3. Continues(nodes, parsed) /\ Len(parsed) = n /\ Legible(parsed)
      BY ParsedContinues DEF Continues
<1>4. n \in Nat /\ DOMAIN nodes = 1 .. n
      BY NodesOf DEF Legible
<1>5. \A i \in 0 .. n : further[i] = path[i]
      BY <1>3, PathsContinue
<1>6. HasContents(nodes, path, t) /\ HasContents(parsed, further, u)
      BY <1>3, TreesAre
<1>7. \A i, j \in 0 .. n : path[i] = path[j] => i = j
      BY PathsDiffer DEF Legible
<1>8. lost \in SUBSET (1 .. n)
      BY <1>1, <1>4
<1>9. \A i \in lost : Promise!Children(t, path[i]) = {}
  <2> TAKE i \in lost
  <2>1. i \in 0 .. n /\ ChildrenOf(nodes, i) = {}
        BY <1>1, <1>4
  <2>2. Promise!Children(t, path[i]) = {path[j] : j \in ChildrenOf(nodes, i)}
        BY <2>1, ChildrenAre
  <2> QED  BY <2>1, <2>2
<1> HIDE DEF path, further
<1>10. /\ DOMAIN t = {path[i] : i \in 0 .. n}
       /\ \A i \in 0 .. n : path[i] \in DOMAIN t /\ t[path[i]] = Content(nodes, i)
       BY <1>6 DEF HasContents
<1>11. /\ DOMAIN u = {further[i] : i \in 0 .. n}
       /\ \A i \in 0 .. n : further[i] \in DOMAIN u /\ u[further[i]] = Content(parsed, i)
       BY <1>3, <1>6 DEF HasContents
<1>12. DOMAIN u = DOMAIN t
       BY <1>5, <1>10, <1>11
<1>13. u = [p \in DOMAIN t |-> u[p]]
       BY <1>6, <1>12 DEF HasContents
<1> DEFINE gone == {path[i] : i \in lost}
<1>14. \A i \in 0 .. n : path[i] \in gone <=> i \in lost
       BY <1>4, <1>7, <1>8
<1>15. gone \in SUBSET {p \in DOMAIN t : t[p].kind = "map" /\ Promise!Children(t, p) = {}}
  <2> SUFFICES ASSUME NEW i \in lost
               PROVE  /\ path[i] \in DOMAIN t /\ t[path[i]].kind = "map"
                      /\ Promise!Children(t, path[i]) = {}
      OBVIOUS
  <2>1. i \in 0 .. n /\ i # 0 /\ nodes[i].kind = "map"
        BY <1>1, <1>4, <1>8
  <2>2. Content(nodes, i).kind = "map"
        BY <2>1 DEF Content
  <2> QED  BY <1>9, <1>10, <2>1, <2>2
<1> HIDE DEF gone
<1>16. \A i \in 0 .. n :
          Content(parsed, i) = IF i \in lost THEN [Content(nodes, i) EXCEPT !.kind = "absent"]
                               ELSE Content(nodes, i)
  <2> TAKE i \in 0 .. n
  <2>1. CASE i = 0
        BY <1>8, <2>1 DEF Content
  <2>2. CASE i # 0
    <3>1. i \in DOMAIN nodes
          BY <1>4, <2>2
    <3> QED  BY <1>2, <2>2, <3>1 DEF Content
  <2> QED  BY <2>1, <2>2
<1>17. \A p \in DOMAIN t : u[p] = IF p \in gone THEN [t[p] EXCEPT !.kind = "absent"] ELSE t[p]
  <2> SUFFICES ASSUME NEW i \in 0 .. n
               PROVE  u[path[i]] = IF path[i] \in gone THEN [t[path[i]] EXCEPT !.kind = "absent"]
                                   ELSE t[path[i]]
      BY <1>10
  <2>1. u[path[i]] = Content(parsed, i)
        BY <1>5, <1>11
  <2>2. t[path[i]] = Content(nodes, i) /\ (path[i] \in gone <=> i \in lost)
        BY <1>10, <1>14
  <2> QED  BY <1>16, <2>1, <2>2
<1>18. u = [p \in DOMAIN t |-> IF p \in gone THEN [t[p] EXCEPT !.kind = "absent"] ELSE t[p]]
       BY <1>13, <1>17
<1> QED  BY <1>15, <1>18 DEF Promise!Parses

LEMMA EmptyTreeOf ==
    Legible(<< >>) /\ PathTo(<< >>)[0] = << >> /\ TreeOf(<< >>) = Promise!EmptyTree
<1> DEFINE nodes == << >>
           path == PathTo(nodes)
           t == TreeOf(nodes)
<1>1. Document(nodes) /\ Len(nodes) = 0 /\ DOMAIN nodes = {}
      BY EmptyDocument, NoElements
<1> HIDE DEF nodes
<1>2. Legible(nodes)
      BY <1>1 DEF Legible, Unambiguous
<1>3. path[0] = << >>
      BY <1>1, PathsOf
<1>4. HasContents(nodes, path, t)
      BY <1>2, TreesAre
<1> HIDE DEF path, t
<1>5. 0 .. Len(nodes) = {0}
      BY <1>1
<1>6. t = [p \in DOMAIN t |-> t[p]] /\ DOMAIN t = {path[i] : i \in 0 .. Len(nodes)}
      /\ t[path[0]] = Content(nodes, 0)
      BY <1>4, <1>5 DEF HasContents
<1>7. DOMAIN t = {<< >>} /\ t[<< >>] = [kind |-> "map", value |-> Nothing]
      BY <1>3, <1>5, <1>6 DEF Content
<1>8. t = [p \in {<< >>} |-> [kind |-> "map", value |-> Nothing]]
      BY <1>6, <1>7
<1>9. t = Promise!EmptyTree
      BY <1>8 DEF Promise!EmptyTree
<1> QED  BY <1>2, <1>3, <1>9 DEF nodes, path, t

-----------------------------------------------------------------------------
(***************************************************************************)
(* What the mapping to DocumentTree rests on beside the invariant: a path  *)
(* leads to one node, in every document; the writer's structures are a     *)
(* path; and the keys the client navigated by lead to the node that the    *)
(* shim takes it to be at.                                                 *)
(***************************************************************************)
NamesApart ==
    /\ Unambiguous(native.nodes)
    /\ \A b \in Backends : medium[b] # Nothing => Unambiguous(medium[b])

WritesOnAPath ==
    \A d \in DOMAIN native.stack :
        native.nodes[native.stack[d]].parent = IF d = 1 THEN 0 ELSE native.stack[d - 1]

ReaderIsThere ==
    ~ shim.write_mode => client.path = PathTo(native.nodes)[Top(shim.read_context_stack)]

ReadersAreOpen == self.Handle /\ ~ shim.write_mode => native.open

Located == NamesApart /\ WritesOnAPath /\ ReaderIsThere /\ ReadersAreOpen

LEMMA LegibleHere ==
    ASSUME IInv, NamesApart
    PROVE  /\ Legible(native.nodes) /\ native.nodes # Nothing
           /\ \A b \in Backends : medium[b] # Nothing => Legible(medium[b])
<1>1. native.nodes \in Seq(Node)
      BY DEF IInv, TypeOK
<1>2. native.nodes # Nothing
      BY <1>1, PersistenceAssumption
<1> QED  BY <1>2 DEF IInv, Documents, NamesApart, Legible

LEMMA TopOf ==
    /\ Top(<< >>) = 0
    /\ \A S : \A s \in Seq(S), e \in S : Top(Append(s, e)) = e
<1>1. ASSUME NEW S, NEW s \in Seq(S), NEW e \in S PROVE Top(Append(s, e)) = e
  <2> DEFINE longer == Append(s, e)
  <2>1. longer # << >>
        BY FrontOfAppend
  <2>2. Len(longer) = Len(s) + 1 /\ longer[Len(s) + 1] = e
        BY AppendOf
  <2> HIDE DEF longer
  <2>3. Top(longer) = e
        BY <2>1, <2>2 DEF Top, Last
  <2> QED  BY <2>3 DEF longer
<1> QED  BY <1>1 DEF Top

\* Leaving a structure takes the last key off the path.
LEMMA OneUp ==
    ASSUME NEW nodes, Document(nodes), NEW S, NEW stack \in Seq(S), stack # << >>,
           \A d \in DOMAIN stack :
               /\ stack[d] \in DOMAIN nodes
               /\ nodes[stack[d]].parent = IF d = 1 THEN 0 ELSE stack[d - 1]
    PROVE  /\ PathTo(nodes)[Top(stack)] # << >>
           /\ PathTo(nodes)[Top(Front(stack))] = Front(PathTo(nodes)[Top(stack)])
<1> DEFINE last == Len(stack)
           front == Front(stack)
           path == PathTo(nodes)
<1>1. /\ last \in Nat \ {0} /\ DOMAIN stack = 1 .. last /\ last \in DOMAIN stack
      /\ front \in Seq(S) /\ Len(front) = last - 1
      /\ \A d \in 1 .. last - 1 : front[d] = stack[d]
      BY Nonempty, FrontOf
<1>2. Top(stack) = stack[last]
      BY LastOf DEF Top
<1> HIDE DEF last, front, path
<1>3. stack[last] \in 1 .. Len(nodes)
      BY <1>1, NodesOf
<1>4. path[stack[last]] # << >> /\ Front(path[stack[last]]) = path[nodes[stack[last]].parent]
      BY <1>3, PathsOf DEF path
<1>5. Top(front) = nodes[stack[last]].parent
  <2>1. CASE last = 1
    <3>1. Len(front) = 0
          BY <1>1, <2>1
    <3>2. front = << >>
          BY <1>1, <3>1
    <3> QED  BY <1>1, <2>1, <3>2, TopOf
  <2>2. CASE last # 1
    <3>1. last - 1 \in 1 .. last - 1 /\ last - 1 # 0
          BY <1>1, <2>2
    <3>2. front # << >> /\ front[last - 1] = stack[last - 1]
      <4>1. front = << >> => Len(front) = 0
            BY NoElements
      <4> QED  BY <1>1, <3>1, <4>1
    <3>3. Top(front) = stack[last - 1]
          BY <1>1, <3>2 DEF Top, Last
    <3> QED  BY <1>1, <2>2, <3>3
  <2> QED  BY <2>1, <2>2
<1> QED  BY <1>2, <1>4, <1>5 DEF front, path

\* What of the documents outside changes with a medium.
LEMMA PublishedIs ==
    ASSUME IInv, IInv', NEW b \in Backends
    PROVE  /\ \A nodes : nodes # Nothing /\ medium' = [medium EXCEPT ![b] = nodes] =>
                 Published' = [m \in DOMAIN Published \cup {b} |->
                                 IF m = b THEN TreeOf(nodes) ELSE Published[m]]
           /\ medium' = [medium EXCEPT ![b] = Nothing] =>
                 Published' = [m \in DOMAIN Published \ {b} |-> Published[m]]
           /\ medium' = medium => Published' = Published
           /\ b \in DOMAIN Published <=> medium[b] # Nothing
           /\ medium[b] # Nothing => Published[b] = TreeOf(medium[b])
<1>1. medium = [m \in Backends |-> medium[m]] /\ DOMAIN medium = Backends
      BY DEF IInv, TypeOK
<1>2. ASSUME NEW nodes, nodes # Nothing, medium' = [medium EXCEPT ![b] = nodes]
      PROVE  Published' = [m \in DOMAIN Published \cup {b} |->
                             IF m = b THEN TreeOf(nodes) ELSE Published[m]]
  <2>1. medium'[b] = nodes /\ \A m \in Backends : m # b => medium'[m] = medium[m]
        BY <1>1, <1>2
  <2>2. {m \in Backends : medium'[m] # Nothing} = {m \in Backends : medium[m] # Nothing} \cup {b}
        BY <1>2, <2>1
  <2> QED  BY <2>1, <2>2 DEF Published
<1>3. ASSUME medium' = [medium EXCEPT ![b] = Nothing]
      PROVE  Published' = [m \in DOMAIN Published \ {b} |-> Published[m]]
  <2>1. medium'[b] = Nothing /\ \A m \in Backends : m # b => medium'[m] = medium[m]
        BY <1>1, <1>3
  <2>2. {m \in Backends : medium'[m] # Nothing} = {m \in Backends : medium[m] # Nothing} \ {b}
        BY <2>1
  <2> QED  BY <2>1, <2>2 DEF Published
<1>4. medium' = medium => Published' = Published
      BY DEF Published
<1>5. /\ b \in DOMAIN Published <=> medium[b] # Nothing
      /\ medium[b] # Nothing => Published[b] = TreeOf(medium[b])
      BY DEF Published
<1> QED  BY <1>2, <1>3, <1>4, <1>5

-----------------------------------------------------------------------------
(***************************************************************************)
(* Every step is a step of DocumentTree or changes nothing it sees.        *)
(***************************************************************************)
LEMMA NotOpenHere ==
    ASSUME IInv, ~ self.Handle
    PROVE  Phase = "none" /\ ~ shim.write_mode /\ client.path = << >> /\ ~ native.open
<1>1. shim = NewShim(FALSE, FALSE) /\ native = Closed
      BY DEF IInv, Roles
<1>2. shim.read_context_stack = << >> /\ shim.write_mode = FALSE /\ native.open = FALSE
      BY <1>1 DEF NewShim, Closed
<1>3. client.path \in Seq(Keys) /\ Len(client.path) = 0
      BY <1>2, NoElements DEF IInv, TypeOK, Roles
<1> QED  BY <1>2, <1>3 DEF Phase

LEMMA CreateMaps ==
    ASSUME IInv, IInv', Located, ~ self.Handle, NEW b \in Backends, NEW memory \in BOOLEAN,
           self' = Opened("Write_Only", b), shim' = NewShim(memory, TRUE), native' = OpenOn(<< >>),
           medium' = IF b = "disk" THEN [medium EXCEPT !["disk"] = Nothing] ELSE medium,
           client' = client
    PROVE  Located' /\ Promise!DNext
<1>1. /\ self'.Handle /\ self'.Mode = "Write_Only" /\ shim'.write_mode
      /\ native'.nodes = << >> /\ native'.stack = << >> /\ native'.open
      BY DEF Opened, NewShim, OpenOn
<1>2. NamesApart'
  <2>1. \A m \in Backends : medium'[m] # Nothing => medium'[m] = medium[m]
        BY DEF IInv, TypeOK
  <2>2. Unambiguous(<< >>)
        BY EmptyTreeOf DEF Legible
  <2> QED  BY <1>1, <2>1, <2>2 DEF NamesApart, Located
<1>3. Located'
      BY <1>1, <1>2, NoElements DEF Located, WritesOnAPath, ReaderIsThere, ReadersAreOpen
<1>4. Phase = "none" /\ Phase' = "writing"
      BY <1>1, NotOpenHere DEF Phase
<1>5. Tree' = Promise!EmptyTree /\ Cursor' = << >>
      BY <1>1, EmptyTreeOf, TopOf DEF Tree, Cursor
<1>6. Published' = IF b = "disk" THEN [m \in DOMAIN Published \ {b} |-> Published[m]] ELSE Published
      BY PublishedIs
<1>7. Promise!Create(b)
      BY <1>4, <1>5, <1>6 DEF Promise!Create
<1> QED  BY <1>3, <1>7 DEF Promise!DNext, Promise!Media, Backends

LEMMA OpenReadMaps ==
    ASSUME IInv, IInv', Located, ~ self.Handle, NEW b \in Backends, NEW memory \in BOOLEAN,
           medium[b] # Nothing, NEW nodes \in Parsed(medium[b]),
           self' = Opened("Read_Only", b), shim' = NewShim(memory, FALSE), native' = OpenOn(nodes),
           medium' = medium, client' = client
    PROVE  Located' /\ Promise!DNext
<1>1. /\ self'.Handle /\ self'.Mode = "Read_Only" /\ ~ shim'.write_mode
      /\ shim'.read_context_stack = << >>
      /\ native'.nodes = nodes /\ native'.stack = << >> /\ native'.open
      BY DEF Opened, NewShim, OpenOn
<1>2. Legible(medium[b])
      BY LegibleHere DEF Located
<1>3. Legible(nodes)
      BY <1>2, ParsedContinues DEF Continues
<1>4. NamesApart'
      BY <1>1, <1>3 DEF NamesApart, Located, Legible
<1>5. client.path = << >> /\ PathTo(nodes)[0] = << >>
      BY <1>3, NotOpenHere, PathsOf DEF Legible
<1>6. Located'
      BY <1>1, <1>4, <1>5, NoElements, TopOf
      DEF Located, WritesOnAPath, ReaderIsThere, ReadersAreOpen
<1>7. Phase = "none" /\ Phase' = "reading"
      BY <1>1, NotOpenHere DEF Phase
<1>8. Tree' = TreeOf(nodes) /\ Cursor' = << >>
      BY <1>1, <1>5 DEF Tree, Cursor
<1>9. Published' = Published /\ b \in DOMAIN Published /\ Published[b] = TreeOf(medium[b])
      BY PublishedIs
<1>10. TreeOf(nodes) \in Promise!Parses(TreeOf(medium[b]))
       BY <1>2, ParsedTree
<1>11. Promise!OpenRead(b)
       BY <1>7, <1>8, <1>9, <1>10 DEF Promise!OpenRead
<1> QED  BY <1>6, <1>11 DEF Promise!DNext, Promise!Media, Backends

LEMMA OpenMaps ==
    ASSUME IInv, IInv', Located, Open_Write \/ Create_Memory \/ Open_Read \/ Open_Memory
    PROVE  Located' /\ Promise!DNext
<1>1. CASE Open_Write
      BY <1>1, CreateMaps DEF Open_Write, file_storage_open, Backends
<1>2. CASE Create_Memory
      BY <1>2, CreateMaps DEF Create_Memory, file_storage_open_memory_write, Backends
<1>3. CASE Open_Read
      BY <1>3, OpenReadMaps DEF Open_Read, file_storage_open, Backends
<1>4. CASE Open_Memory
      BY <1>4, OpenReadMaps DEF Open_Memory, file_storage_open_memory_read, Backends
<1> QED  BY <1>1, <1>2, <1>3, <1>4

LEMMA FinalizeMaps ==
    ASSUME IInv, IInv', Located, Finalize
    PROVE  Located' /\ Promise!DNext
<1>1. self' = NoStorage /\ shim' = NewShim(FALSE, FALSE) /\ native' = Closed /\ self.Handle
      BY DEF Finalize, file_storage_destroy
<1>2. /\ ~ self'.Handle /\ ~ shim'.write_mode /\ shim'.read_context_stack = << >>
      /\ native'.nodes = << >> /\ native'.stack = << >>
      BY <1>1 DEF NoStorage, NewShim, Closed
<1>3. client'.path = << >> /\ client'.got = client.got
      BY DEF Finalize, IInv, Roles
<1>4. Legible(native.nodes) /\ native.nodes # Nothing
      BY LegibleHere DEF Located
<1>5. \/ medium' = medium
      \/ medium' = [medium EXCEPT !["disk"] = native.nodes] /\ shim.write_mode /\ native.open
      BY DEF Finalize, file_storage_destroy
<1>6. NamesApart'
  <2>1. Unambiguous(<< >>)
        BY EmptyTreeOf DEF Legible
  <2>2. \A m \in Backends : medium'[m] = medium[m] \/ medium'[m] = native.nodes
        BY <1>5 DEF IInv, TypeOK
  <2> QED  BY <1>2, <1>4, <2>1, <2>2 DEF NamesApart, Located, Legible
<1>7. Located'
      BY <1>2, <1>3, <1>6, NoElements, EmptyTreeOf, TopOf
      DEF Located, WritesOnAPath, ReaderIsThere, ReadersAreOpen
<1>8. Phase # "none" /\ Phase' = "none"
      BY <1>1, <1>2 DEF Phase
<1>9. Tree' = Promise!EmptyTree /\ Cursor' = << >>
      BY <1>2, <1>3, EmptyTreeOf DEF Tree, Cursor
<1>10. \/ Published' = Published
       \/ /\ Phase = "writing"
          /\ Published' = [m \in DOMAIN Published \cup {"disk"} |->
                             IF m = "disk" THEN Tree ELSE Published[m]]
  <2>1. CASE medium' = medium
        BY <2>1, PublishedIs DEF Backends
  <2>2. CASE medium' = [medium EXCEPT !["disk"] = native.nodes] /\ shim.write_mode /\ native.open
    <3>1. "disk" \in Backends
          BY DEF Backends
    <3>2. Published' = [m \in DOMAIN Published \cup {"disk"} |->
                          IF m = "disk" THEN TreeOf(native.nodes) ELSE Published[m]]
          BY <1>4, <2>2, <3>1, PublishedIs
    <3>3. Phase = "writing"
          BY <1>1, <2>2 DEF Phase, IInv, Roles
    <3> QED  BY <3>2, <3>3 DEF Tree
  <2> QED  BY <1>5, <2>1, <2>2
<1>11. Promise!Release
       BY <1>3, <1>8, <1>9, <1>10 DEF Promise!Release, Promise!Publishing
<1> QED  BY <1>7, <1>11 DEF Promise!DNext

LEMMA CloseMaps ==
    ASSUME IInv, IInv', Located, Close_And_Get_Text
    PROVE  Located' /\ Promise!DNext
<1>1. /\ self.Handle /\ self.Mode = "Write_Only" /\ shim.write_mode /\ native.open
      /\ shim.write_structure_stack = << >> /\ client' = client
      BY DEF Close_And_Get_Text, finish_memory_write, Require_Open
<1>2. PICK ready \in BOOLEAN :
         /\ shim' = [shim EXCEPT !.released_memory_text_ready = ready]
         /\ native' = [native EXCEPT !.open = FALSE]
      BY DEF Close_And_Get_Text, finish_memory_write
<1>3. /\ native'.nodes = native.nodes /\ native'.stack = native.stack /\ ~ native'.open
      /\ shim'.write_mode = shim.write_mode
      /\ shim'.read_context_stack = shim.read_context_stack
      BY <1>2 DEF IInv, TypeOK
<1>4. self'.Handle = self.Handle
      BY DEF Close_And_Get_Text, IInv, TypeOK
<1>5. medium' = medium \/ medium' = [medium EXCEPT !["memory"] = native.nodes]
      BY DEF Close_And_Get_Text
<1>6. Legible(native.nodes) /\ native.nodes # Nothing
      BY LegibleHere DEF Located
<1>7. NamesApart'
  <2>1. \A m \in Backends : medium'[m] = medium[m] \/ medium'[m] = native.nodes
        BY <1>5 DEF IInv, TypeOK
  <2> QED  BY <1>3, <1>6, <2>1 DEF NamesApart, Located, Legible
<1>8. Located'
      BY <1>1, <1>3, <1>7 DEF Located, WritesOnAPath, ReaderIsThere, ReadersAreOpen
<1>9. Phase = "writing" /\ Phase' = "closed"
      BY <1>1, <1>3, <1>4 DEF Phase
<1>10. Tree' = Tree /\ Cursor' = Cursor
       BY <1>1, <1>3 DEF Tree, Cursor
<1>11. Cursor = << >>
  <2>1. native.stack = << >>
        BY <1>1, ContextOfTop
  <2> QED  BY <1>1, <1>6, <2>1, PathsOf, TopOf DEF Cursor, Legible
<1>12. \/ Published' = Published
       \/ Published' = [m \in DOMAIN Published \cup {"memory"} |->
                          IF m = "memory" THEN Tree ELSE Published[m]]
  <2>1. "memory" \in Backends
        BY DEF Backends
  <2>2. CASE medium' = medium
        BY <2>1, <2>2, PublishedIs
  <2>3. CASE medium' = [medium EXCEPT !["memory"] = native.nodes]
    <3>1. Published' = [m \in DOMAIN Published \cup {"memory"} |->
                          IF m = "memory" THEN TreeOf(native.nodes) ELSE Published[m]]
          BY <1>6, <2>1, <2>3, PublishedIs
    <3> QED  BY <3>1 DEF Tree
  <2> QED  BY <1>5, <2>2, <2>3
<1>13. Promise!Close
       BY <1>1, <1>9, <1>10, <1>11, <1>12 DEF Promise!Close, Promise!Publishing
<1> QED  BY <1>8, <1>13 DEF Promise!DNext

\* A node more, below the structure that is open.
LEMMA EmitMaps ==
    ASSUME IInv, IInv', Located, Require_Open("Write_Only"), native.open, native'.open,
           shim'.write_mode = shim.write_mode, UNCHANGED <<self, medium, client>>,
           NEW name \in Names \cup {Unnamed}, FreshName(name), NEW kind, NEW value,
           native'.nodes = Emit(name, kind, value),
           NEW new, new = [parent |-> Top(native.stack), name |-> name, kind |-> kind, value |-> value],
           new \in Node, NEW place, place = Len(native.nodes) + 1,
           \/ kind \in Promise!Leaves /\ value \in Values /\ native'.stack = native.stack
           \/ kind \in Promise!Structures /\ value = Nothing
              /\ native'.stack = Append(native.stack, place)
    PROVE  Located' /\ Promise!DNext
<1> DEFINE nodes == native.nodes
           longer == native'.nodes
           stack == native.stack
           n == Len(nodes)
           top == Top(stack)
<1>1. /\ shim.write_mode /\ shim'.write_mode
      /\ self.Handle /\ self'.Handle /\ self.Mode = "Write_Only" /\ self'.Mode = "Write_Only"
      BY DEF IInv, Roles, Require_Open
<1>2. Legible(nodes) /\ Document(nodes) /\ nodes \in Seq(Node) /\ Document(longer)
      BY LegibleHere DEF Located, Legible, Document, IInv, Documents
<1>3. /\ longer = Append(nodes, new) /\ Len(longer) = place /\ DOMAIN longer = 1 .. n + 1
      /\ DOMAIN nodes = 1 .. n /\ n \in Nat /\ place = n + 1 /\ longer[place] = new
      /\ \A i \in 1 .. n : longer[i] = nodes[i]
  <2>1. longer = Append(nodes, new)
        BY DEF Emit
  <2>2. /\ Len(Append(nodes, new)) = n + 1 /\ DOMAIN Append(nodes, new) = 1 .. n + 1
        /\ DOMAIN nodes = 1 .. n /\ n \in Nat
        /\ Append(nodes, new)[n + 1] = new /\ \A i \in 1 .. n : Append(nodes, new)[i] = nodes[i]
        BY <1>2, AppendOf
  <2> QED  BY <2>1, <2>2
<1>4. /\ stack \in Seq(1 .. MaxNodes) /\ top \in 0 .. n
      /\ \A d \in DOMAIN stack : stack[d] \in 1 .. n
      /\ \A d \in DOMAIN stack : nodes[stack[d]].parent = IF d = 1 THEN 0 ELSE stack[d - 1]
  <2>1. stack \in Seq(1 .. MaxNodes) /\ \A d \in DOMAIN stack : stack[d] \in DOMAIN nodes
        BY DEF IInv, TypeOK, StackInDocument
  <2>2. top = 0 \/ top \in DOMAIN nodes
        BY <2>1, TopInDocument
  <2> QED  BY <1>3, <2>1, <2>2 DEF Located, WritesOnAPath
<1>5. Unambiguous(longer)
  <2> SUFFICES ASSUME NEW i \in DOMAIN longer, NEW j \in DOMAIN longer,
                      longer[i].parent = longer[j].parent, longer[i].name = longer[j].name,
                      longer[i].name # Unnamed
               PROVE  i = j
      BY DEF Unambiguous
  <2>1. new.parent = top /\ new.name = name
        OBVIOUS
  <2>2. \A k \in 1 .. n : nodes[k].parent = top /\ name # Unnamed => nodes[k].name # name
        BY <1>3 DEF FreshName, ChildrenOf
  <2>3. (i = place \/ i \in 1 .. n) /\ (j = place \/ j \in 1 .. n)
        BY <1>3
  <2>4. CASE i \in 1 .. n /\ j \in 1 .. n
        BY <1>2, <1>3, <2>4 DEF Legible, Unambiguous
  <2>5. CASE i = place /\ j \in 1 .. n
        BY <1>3, <2>1, <2>2, <2>5
  <2>6. CASE j = place /\ i \in 1 .. n
        BY <1>3, <2>1, <2>2, <2>6
  <2> QED  BY <2>3, <2>4, <2>5, <2>6
<1>6. Continues(nodes, longer)
  <2>1. Len(nodes) <= Len(longer)
        BY <1>3
  <2> QED  BY <1>2, <1>3, <1>5, <2>1 DEF Continues, Legible
<1>7. NamesApart'
      BY <1>5 DEF NamesApart, Located
<1>8. WritesOnAPath'
  <2>1. CASE native'.stack = stack
        BY <1>3, <1>4, <2>1 DEF WritesOnAPath
  <2>2. CASE native'.stack = Append(stack, place)
    <3>1. place \in 1 .. MaxNodes
          BY <1>2, <1>3, PersistenceAssumption DEF Document
    <3> DEFINE m == Len(stack)
               after == native'.stack
    <3>2. /\ DOMAIN after = 1 .. m + 1 /\ DOMAIN stack = 1 .. m /\ m \in Nat
          /\ after[m + 1] = place /\ \A d \in 1 .. m : after[d] = stack[d]
          BY <1>4, <2>2, <3>1, AppendOf
    <3>3. top = IF m = 0 THEN 0 ELSE stack[m]
      <4>1. stack = << >> <=> m = 0
            BY <1>4, NoElements, Nonempty
      <4> QED  BY <4>1 DEF Top, Last
    <3> HIDE DEF m, after
    <3>4. ASSUME NEW d \in DOMAIN after
          PROVE  longer[after[d]].parent = IF d = 1 THEN 0 ELSE after[d - 1]
      <4>1. CASE d = m + 1
        <5>1. longer[after[d]].parent = top
              BY <1>3, <3>2, <4>1
        <5>2. m # 0 => m \in 1 .. m /\ d - 1 = m /\ d # 1
              BY <3>2, <4>1
        <5>3. m = 0 => d = 1
              BY <4>1
        <5> QED  BY <3>2, <3>3, <5>1, <5>2, <5>3
      <4>2. CASE d # m + 1
        <5>1. d \in 1 .. m /\ (d # 1 => d - 1 \in 1 .. m)
              BY <3>2, <4>2
        <5>2. after[d] = stack[d] /\ (d # 1 => after[d - 1] = stack[d - 1])
              BY <3>2, <5>1
        <5>3. stack[d] \in 1 .. n /\ nodes[stack[d]].parent = IF d = 1 THEN 0 ELSE stack[d - 1]
              BY <1>4, <3>2, <5>1
        <5>4. longer[stack[d]] = nodes[stack[d]]
              BY <1>3, <5>3
        <5> QED  BY <5>2, <5>3, <5>4
      <4> QED  BY <4>1, <4>2
    <3> QED  BY <3>4 DEF WritesOnAPath, after
  <2> QED  BY <2>1, <2>2
<1>9. Located'
      BY <1>1, <1>7, <1>8 DEF Located, ReaderIsThere, ReadersAreOpen
<1>10. Phase = "writing" /\ Phase' = "writing"
       BY <1>1 DEF Phase
<1> DEFINE above == PathTo(nodes)[longer[place].parent]
           p == PathTo(longer)[place]
<1>11. Cursor = above
       BY <1>1, <1>3 DEF Cursor
<1>12. GrowsBy(Tree, Tree', p, above, kind, value)
  <2> DEFINE t == TreeOf(nodes)
  <2>1. /\ Continues(nodes, longer) /\ place = Len(nodes) + 1 /\ Len(longer) = place
        /\ \A i \in DOMAIN nodes : longer[i] = nodes[i]
        /\ t = TreeOf(nodes) /\ above = PathTo(nodes)[longer[place].parent]
        /\ p = PathTo(longer)[place]
        BY <1>3, <1>6
  <2> HIDE DEF t, above, p, nodes, longer
  <2>3. GrowsBy(t, TreeOf(longer), p, above, longer[place].kind, longer[place].value)
        BY <2>1, TreeGrows
  <2> USE DEF t, nodes, longer
  <2>2. longer[place].kind = kind /\ longer[place].value = value
        BY <1>3
  <2> QED  BY <2>2, <2>3 DEF Tree
<1>13. Published' = Published
       BY PublishedIs DEF Backends
<1>14. CASE kind \in Promise!Leaves /\ value \in Values /\ native'.stack = native.stack
  <2>1. PathTo(longer)[top] = PathTo(nodes)[top]
        BY <1>4, <1>6, PathsContinue
  <2>2. Cursor' = Cursor
        BY <1>1, <1>14, <2>1 DEF Cursor
  <2>3. kind \notin Promise!Structures
        BY <1>14 DEF Promise!Leaves, Promise!Structures
  <2> HIDE DEF p, above
  <2>4. client'.got = client.got
        OBVIOUS
  <2>5. PICK key \in Promise!NextKeys(Tree, Cursor) : p = Append(Cursor, key)
        BY <1>11, <1>12 DEF GrowsBy
  <2>6. Tree' = [q \in DOMAIN Tree \cup {Append(Cursor, key)} |->
                   IF q = Append(Cursor, key) THEN [kind |-> kind, value |-> value] ELSE Tree[q]]
        BY <1>12, <2>5 DEF GrowsBy
  <2>7. Promise!Put(kind, value)
        BY <1>10, <1>13, <2>2, <2>3, <2>4, <2>5, <2>6 DEF Promise!Put
  <2> QED  BY <1>9, <1>14, <2>7 DEF Promise!DNext
<1>15. CASE kind \in Promise!Structures /\ value = Nothing /\ native'.stack = Append(native.stack, place)
  <2>1. place \in 1 .. MaxNodes
        BY <1>2, <1>3, PersistenceAssumption DEF Document
  <2>2. Cursor' = p
    <3>1. Top(Append(stack, place)) = place
      <4>1. stack \in Seq(1 .. MaxNodes)
            BY <1>4
      <4>2. \A S : \A s \in Seq(S), e \in S : Top(Append(s, e)) = e
            BY TopOf
      <4> HIDE DEF stack
      <4> QED  BY <2>1, <4>1, <4>2
    <3>2. Top(native'.stack) = place
          BY <1>15, <3>1
    <3> QED  BY <1>1, <3>2 DEF Cursor
  <2> HIDE DEF p, above
  <2>3. client'.got = client.got
        OBVIOUS
  <2>4. PICK key \in Promise!NextKeys(Tree, Cursor) : p = Append(Cursor, key)
        BY <1>11, <1>12 DEF GrowsBy
  <2>5. Tree' = [q \in DOMAIN Tree \cup {Append(Cursor, key)} |->
                   IF q = Append(Cursor, key) THEN [kind |-> kind, value |-> Nothing] ELSE Tree[q]]
        BY <1>12, <1>15, <2>4 DEF GrowsBy
  <2>6. Promise!Put(kind, Nothing)
        BY <1>10, <1>13, <1>15, <2>2, <2>3, <2>4, <2>5 DEF Promise!Put
  <2> QED  BY <1>9, <1>15, <2>6 DEF Promise!DNext
<1> QED  BY <1>14, <1>15

\* The node a writer emits, below the structure that is open.
LEMMA EmittedNode ==
    ASSUME IInv, NEW name \in Names \cup {Unnamed}, NEW kind, NEW value,
           [parent |-> 0, name |-> name, kind |-> kind, value |-> value] \in Node
    PROVE  [parent |-> Top(native.stack), name |-> name, kind |-> kind, value |-> value] \in Node
<1> DEFINE nodes == native.nodes
<1>1. /\ nodes \in Seq(Node) /\ native.stack \in Seq(1 .. MaxNodes)
      /\ Len(nodes) \in Nat /\ Len(nodes) <= MaxNodes /\ DOMAIN nodes = 1 .. Len(nodes)
      BY DEF IInv, TypeOK, Documents, Document
<1>2. Top(native.stack) = 0 \/ Top(native.stack) \in DOMAIN nodes
      BY <1>1, TopInDocument DEF IInv, StackInDocument
<1>3. Top(native.stack) \in 0 .. MaxNodes
      BY <1>1, <1>2, PersistenceAssumption
<1> QED  BY <1>3 DEF Node

LEMMA LeafMaps ==
    ASSUME IInv, IInv', Located, Require_Open("Write_Only"),
           NEW name \in Names \cup {Unnamed}, NEW kind \in LeafKinds[self.Backend],
           NEW value \in Values, WriteValue(name, kind, value),
           UNCHANGED <<self, shim, medium, client>>
    PROVE  Located' /\ Promise!DNext
<1> DEFINE new == [parent |-> Top(native.stack), name |-> name, kind |-> kind, value |-> value]
           place == Len(native.nodes) + 1
<1>1. self.Backend \in Backends
      BY DEF IInv, TypeOK
<1>2. /\ kind \in {"int", "real", "string", "mat"}
      /\ [parent |-> 0, name |-> name, kind |-> kind, value |-> value] \in Node
      BY <1>1, LeafIsANode
<1>3. write_leaf(name, kind, value)
      BY <1>2 DEF WriteValue, write_int, write_mat, write_double, write_string
<1>4. new \in Node
      BY <1>2, EmittedNode
<1>5. /\ native'.nodes = Emit(name, kind, value) /\ native'.stack = native.stack
      /\ native.open /\ native'.open /\ FreshName(name)
      BY <1>3 DEF write_leaf, IInv, TypeOK
<1>6. kind \in Promise!Leaves
      BY <1>2 DEF Promise!Leaves
<1>7. new = [parent |-> Top(native.stack), name |-> name, kind |-> kind, value |-> value]
      /\ place = Len(native.nodes) + 1 /\ shim'.write_mode = shim.write_mode
      OBVIOUS
<1> HIDE DEF new, place
<1> QED  BY <1>4, <1>5, <1>6, <1>7, EmitMaps

LEMMA BeginMaps ==
    ASSUME IInv, IInv', Located, Require_Open("Write_Only"),
           NEW name \in Names \cup {Unnamed}, NEW kind \in StructureKinds,
           begin_structure(name, kind), UNCHANGED <<self, medium, client>>
    PROVE  Located' /\ Promise!DNext
<1> DEFINE new == [parent |-> Top(native.stack), name |-> name, kind |-> kind, value |-> Nothing]
           place == Len(native.nodes) + 1
<1>1. [parent |-> 0, name |-> name, kind |-> kind, value |-> Nothing] \in Node
      BY PersistenceAssumption DEF Node
<1>2. new \in Node
      BY <1>1, EmittedNode
<1>3. /\ native'.nodes = Emit(name, kind, Nothing)
      /\ native'.stack = Append(native.stack, place)
      /\ native.open /\ native'.open /\ FreshName(name)
      /\ shim'.write_mode = shim.write_mode
      BY DEF begin_structure, IInv, TypeOK
<1>4. kind \in Promise!Structures
      BY DEF Promise!Structures, StructureKinds
<1>5. new = [parent |-> Top(native.stack), name |-> name, kind |-> kind, value |-> Nothing]
      /\ place = Len(native.nodes) + 1
      OBVIOUS
<1> HIDE DEF new, place
<1> QED  BY <1>2, <1>3, <1>4, <1>5, EmitMaps

LEMMA EndMaps ==
    ASSUME IInv, IInv', Located, End_Structure
    PROVE  Located' /\ Promise!DNext
<1> DEFINE nodes == native.nodes
           stack == native.stack
<1>1. /\ self.Handle /\ self.Mode = "Write_Only" /\ native.open /\ shim.write_mode
      /\ shim.write_structure_stack # << >> /\ UNCHANGED <<self, medium, client>>
      BY DEF End_Structure, end_structure, Require_Open, IInv, Roles
<1>2. /\ native'.nodes = nodes /\ native'.stack = Front(stack) /\ native'.open
      /\ shim'.write_mode = shim.write_mode
      BY <1>1 DEF End_Structure, end_structure, IInv, TypeOK
<1>3. stack # << >> /\ stack \in Seq(1 .. MaxNodes) /\ Document(nodes)
      BY <1>1, ContextOfTop DEF IInv, TypeOK, Documents
<1>4. \A d \in DOMAIN stack :
         /\ stack[d] \in DOMAIN nodes
         /\ nodes[stack[d]].parent = IF d = 1 THEN 0 ELSE stack[d - 1]
      BY DEF IInv, StackInDocument, Located, WritesOnAPath
<1>5. WritesOnAPath'
  <2> DEFINE after == native'.stack
  <2>1. /\ DOMAIN after = 1 .. Len(stack) - 1 /\ Len(stack) \in Nat /\ DOMAIN stack = 1 .. Len(stack)
        /\ \A d \in 1 .. Len(stack) - 1 : after[d] = stack[d]
        BY <1>2, <1>3, FrontOf
  <2> HIDE DEF after, stack
  <2>2. \A d \in DOMAIN after : /\ d \in DOMAIN stack /\ after[d] = stack[d]
                                /\ d # 1 => after[d - 1] = stack[d - 1]
        BY <2>1
  <2> QED  BY <1>2, <1>4, <2>2 DEF WritesOnAPath, after
<1>6. Located'
      BY <1>1, <1>2, <1>5 DEF Located, NamesApart, ReaderIsThere, ReadersAreOpen
<1>7. /\ PathTo(nodes)[Top(stack)] # << >>
      /\ PathTo(nodes)[Top(Front(stack))] = Front(PathTo(nodes)[Top(stack)])
      BY <1>3, <1>4, OneUp
<1>8. Cursor # << >> /\ Cursor' = Front(Cursor)
      BY <1>1, <1>2, <1>7 DEF Cursor
<1>9. Phase = "writing" /\ Phase' = "writing" /\ Tree' = Tree
      BY <1>1, <1>2 DEF Phase, Tree
<1>10. Published' = Published
       BY <1>1, PublishedIs DEF Backends
<1>11. Promise!Up
       BY <1>1, <1>8, <1>9, <1>10, PromisedOperators DEF Promise!Up
<1> QED  BY <1>6, <1>11 DEF Promise!DNext

\* Where a reader is: the keys it went by lead to the node the shim is at.
LEMMA ReadingHere ==
    ASSUME IInv, Located, Require_Open("Read_Only")
    PROVE  /\ self.Handle /\ self.Mode = "Read_Only" /\ ~ shim.write_mode /\ native.open
           /\ Legible(native.nodes) /\ Document(native.nodes)
           /\ current_read_context \in 0 .. Len(native.nodes)
           /\ Phase = "reading" /\ Cursor = client.path
           /\ client.path = PathTo(native.nodes)[current_read_context]
<1>1. self.Handle /\ self.Mode = "Read_Only" /\ ~ shim.write_mode
      BY DEF IInv, Roles, Require_Open
<1>2. native.open /\ Legible(native.nodes)
      BY <1>1, LegibleHere DEF Located, ReadersAreOpen
<1>3. current_read_context \in 0 .. Len(native.nodes)
  <2>1. /\ shim.read_context_stack \in Seq(1 .. MaxNodes)
        /\ \A d \in DOMAIN shim.read_context_stack : shim.read_context_stack[d] \in DOMAIN native.nodes
        BY DEF IInv, TypeOK, ReadContextIsAPath
  <2>2. current_read_context = 0 \/ current_read_context \in DOMAIN native.nodes
        BY <2>1, TopInDocument DEF current_read_context
  <2>3. Len(native.nodes) \in Nat /\ DOMAIN native.nodes = 1 .. Len(native.nodes)
        BY <1>2, NodesOf DEF Legible
  <2> QED  BY <2>2, <2>3
<1> QED  BY <1>1, <1>2, <1>3
         DEF Phase, Cursor, Located, ReaderIsThere, current_read_context, Legible

\* The node a lookup returns is the one the key leads to from there.
LEMMA LookedUp ==
    ASSUME IInv, Located, Require_Open("Read_Only"), NEW key, NEW i,
           i \in lookup_named_node(key) \/ i \in lookup_indexed_node(key)
    PROVE  /\ i \in ChildrenOf(native.nodes, current_read_context)
           /\ i \in 1 .. Len(native.nodes) /\ native.nodes[i].parent = current_read_context
           /\ Append(client.path, key) = PathTo(native.nodes)[i]
           /\ Append(client.path, key) \in Promise!Children(Tree, Cursor)
           /\ Tree[Append(client.path, key)] =
                [kind |-> native.nodes[i].kind, value |-> native.nodes[i].value]
<1> DEFINE nodes == native.nodes
           here == current_read_context
           path == PathTo(nodes)
           t == TreeOf(nodes)
<1>1. /\ Legible(nodes) /\ Document(nodes) /\ here \in 0 .. Len(nodes)
      /\ Cursor = client.path /\ client.path = path[here]
      BY ReadingHere
<1>2. i \in ChildrenOf(nodes, here)
      BY DEF lookup_named_node, lookup_indexed_node
<1>3. Len(nodes) \in Nat /\ DOMAIN nodes = 1 .. Len(nodes)
      BY <1>1, NodesOf
<1>4. i \in 1 .. Len(nodes) /\ nodes[i].parent = here
      BY <1>2, <1>3 DEF ChildrenOf
<1>5. KeyOf(nodes, i) = key
  <2>1. CASE i \in lookup_named_node(key)
        BY <1>4, <2>1 DEF lookup_named_node, KeyOf, IsSeq, IsMap
  <2>2. CASE i \in lookup_indexed_node(key)
        BY <1>4, <2>2 DEF lookup_indexed_node, KeyOf
  <2> QED  BY <2>1, <2>2
<1>6. path[i] = Append(path[here], key)
  <2>1. path[i] = Append(path[nodes[i].parent], KeyOf(nodes, i))
        BY <1>1, <1>4, PathsOf
  <2> QED  BY <1>4, <1>5, <2>1
<1>7. path[i] \in Promise!Children(t, path[here])
      BY <1>1, <1>2, ChildrenAre
<1>8. t[path[i]] = [kind |-> nodes[i].kind, value |-> nodes[i].value]
  <2>1. HasContents(nodes, path, t)
        BY <1>1, TreesAre
  <2>2. i \in 0 .. Len(nodes) /\ i # 0
        BY <1>3, <1>4
  <2>3. t[path[i]] = Content(nodes, i)
        BY <2>1, <2>2 DEF HasContents
  <2> QED  BY <2>2, <2>3 DEF Content
<1>9. t = Tree
      BY DEF Tree
<1> HIDE DEF t, path, here
<1> QED  BY <1>1, <1>2, <1>4, <1>6, <1>7, <1>8, <1>9 DEF here, path

LEMMA EnterMaps ==
    ASSUME IInv, IInv', Located, Require_Open("Read_Only"), NEW key, NEW i,
           i \in lookup_named_node(key) \/ i \in lookup_indexed_node(key),
           NEW kind \in StructureKinds, Matches(i, kind), enter(i, key)
    PROVE  Located' /\ Promise!DNext
<1> DEFINE q == Append(client.path, key)
           stack == shim.read_context_stack
<1>1. /\ self' = self /\ native' = native /\ medium' = medium
      /\ shim' = [shim EXCEPT !.read_context_stack = Append(@, i)]
      /\ client' = [client EXCEPT !.path = Append(@, key)]
      BY DEF enter
<1>2. /\ ~ shim.write_mode /\ native.open /\ Phase = "reading" /\ self.Handle
      /\ self.Mode = "Read_Only" /\ Document(native.nodes)
      BY ReadingHere
<1>3. /\ i \in 1 .. Len(native.nodes) /\ q = PathTo(native.nodes)[i]
      /\ q \in Promise!Children(Tree, Cursor)
      /\ Tree[q] = [kind |-> native.nodes[i].kind, value |-> native.nodes[i].value]
      BY LookedUp
<1>4. /\ shim'.write_mode = shim.write_mode /\ shim'.read_context_stack = Append(stack, i)
      /\ client'.path = q /\ client'.got = client.got
      BY <1>1 DEF IInv, TypeOK, Roles
<1>5. Top(Append(stack, i)) = i
  <2>1. Len(native.nodes) \in Nat /\ Len(native.nodes) <= MaxNodes /\ MaxNodes \in Nat
        BY <1>2, NodesOf, PersistenceAssumption DEF Document
  <2>2. i \in 1 .. MaxNodes /\ stack \in Seq(1 .. MaxNodes)
        BY <1>3, <2>1 DEF IInv, TypeOK
  <2> HIDE DEF stack
  <2> QED  BY <2>2, TopOf
<1> HIDE DEF q, stack
<1>6. Located'
      BY <1>1, <1>2, <1>3, <1>4, <1>5
      DEF Located, NamesApart, WritesOnAPath, ReaderIsThere, ReadersAreOpen
<1>7. Phase' = "reading" /\ Tree' = Tree /\ Cursor' = q
      BY <1>1, <1>2, <1>4 DEF Phase, Tree, Cursor
<1>8. Published' = Published
      BY <1>1, PublishedIs DEF Backends
<1>9. Tree[q].kind \in Promise!Structures \cup {"mat"}
  <2>1. native.nodes[i].kind \in {"map", "mat", "seq"}
    <3>1. i # 0
          BY <1>2, <1>3, NodesOf
    <3> QED  BY <3>1 DEF Matches, IsMap, IsSeq
  <2> QED  BY <1>3, <2>1 DEF Promise!Structures
<1>10. Promise!Down
       BY <1>2, <1>3, <1>4, <1>7, <1>8, <1>9 DEF Promise!Down
<1> QED  BY <1>6, <1>10 DEF Promise!DNext

LEMMA LeaveMaps ==
    ASSUME IInv, IInv', Located, Leave_Structure
    PROVE  Located' /\ Promise!DNext
<1> DEFINE nodes == native.nodes
           stack == shim.read_context_stack
<1>1. /\ Require_Open("Read_Only") /\ stack # << >> /\ UNCHANGED <<self, native, medium>>
      /\ shim' = [shim EXCEPT !.read_context_stack = Front(@)]
      /\ client' = [client EXCEPT !.path = Front(@)]
      BY DEF Leave_Structure, leave_structure
<1>2. /\ ~ shim.write_mode /\ native.open /\ Phase = "reading" /\ self.Handle
      /\ self.Mode = "Read_Only" /\ Document(nodes)
      /\ Cursor = client.path /\ client.path = PathTo(nodes)[Top(stack)]
      BY <1>1, ReadingHere DEF current_read_context
<1>3. /\ shim'.write_mode = shim.write_mode /\ shim'.read_context_stack = Front(stack)
      /\ client'.path = Front(client.path) /\ client'.got = client.got
      BY <1>1 DEF IInv, TypeOK, Roles
<1>4. /\ PathTo(nodes)[Top(stack)] # << >>
      /\ PathTo(nodes)[Top(Front(stack))] = Front(PathTo(nodes)[Top(stack)])
  <2>1. /\ stack \in Seq(1 .. MaxNodes)
        /\ \A d \in DOMAIN stack :
             /\ stack[d] \in DOMAIN nodes
             /\ nodes[stack[d]].parent = IF d = 1 THEN 0 ELSE stack[d - 1]
        BY DEF IInv, TypeOK, ReadContextIsAPath
  <2> HIDE DEF stack, nodes
  <2> QED  BY <1>1, <1>2, <2>1, OneUp
<1> HIDE DEF stack
<1>5. Located'
      BY <1>1, <1>2, <1>3, <1>4
      DEF Located, NamesApart, WritesOnAPath, ReaderIsThere, ReadersAreOpen
<1>6. Phase' = "reading" /\ Tree' = Tree /\ Cursor # << >> /\ Cursor' = Front(Cursor)
      BY <1>1, <1>2, <1>3, <1>4 DEF Phase, Tree, Cursor
<1>7. Published' = Published
      BY <1>1, PublishedIs DEF Backends
<1>8. Promise!Up
      BY <1>2, <1>3, <1>6, <1>7, PromisedOperators DEF Promise!Up
<1> QED  BY <1>5, <1>8 DEF Promise!DNext

\* What a reader observes, it observes without moving.
LEMMA ObservingStays ==
    ASSUME IInv, IInv', Located, Require_Open("Read_Only"), NEW at, NEW value, Observe(at, value)
    PROVE  /\ Located' /\ client'.got = [path |-> at, value |-> value]
           /\ Phase = "reading" /\ Phase' = "reading"
           /\ Tree' = Tree /\ Cursor' = Cursor /\ Published' = Published
<1>1. /\ UNCHANGED <<self, shim, native, medium>>
      /\ client' = [client EXCEPT !.got = [path |-> at, value |-> value]]
      BY DEF Observe
<1>2. client'.path = client.path /\ client'.got = [path |-> at, value |-> value]
      BY <1>1 DEF IInv, Roles
<1>3. Located'
      BY <1>1, <1>2 DEF Located, NamesApart, WritesOnAPath, ReaderIsThere, ReadersAreOpen
<1>4. Phase = "reading" /\ Phase' = Phase
      BY <1>1, ReadingHere DEF Phase
<1>5. Tree' = Tree /\ Cursor' = Cursor
      BY <1>1, <1>2 DEF Tree, Cursor
<1>6. Published' = Published
      BY <1>1, PublishedIs DEF Backends
<1> QED  BY <1>2, <1>3, <1>4, <1>5, <1>6

LEMMA ReadMaps ==
    ASSUME IInv, IInv', Located, Require_Open("Read_Only"), NEW key, NEW i,
           i \in lookup_named_node(key) \/ i \in lookup_indexed_node(key),
           NEW kinds \in Kinds, native.nodes[i].kind \in kinds,
           Observe(Append(client.path, key), native.nodes[i].value)
    PROVE  Located' /\ Promise!DNext
<1> DEFINE q == Append(client.path, key)
<1>1. /\ q \in Promise!Children(Tree, Cursor)
      /\ Tree[q] = [kind |-> native.nodes[i].kind, value |-> native.nodes[i].value]
      BY LookedUp
<1>2. /\ Located' /\ client'.got = [path |-> q, value |-> native.nodes[i].value]
      /\ Phase = "reading" /\ Phase' = "reading"
      /\ Tree' = Tree /\ Cursor' = Cursor /\ Published' = Published
      BY ObservingStays
<1>3. native.nodes[i].kind \in Promise!Leaves
      BY DEF Promise!Leaves, Kinds, read_int, read_double, read_string, read_mat
<1> HIDE DEF q
<1>4. Promise!ReadLeaf
      BY <1>1, <1>2, <1>3 DEF Promise!ReadLeaf
<1> QED  BY <1>2, <1>4 DEF Promise!DNext

LEMMA CountMaps ==
    ASSUME IInv, IInv', Located, Require_Open("Read_Only"),
           Observe(client.path, Cardinality(ChildrenOf(native.nodes, current_read_context)))
    PROVE  Located' /\ Promise!DNext
<1> DEFINE n == Cardinality(ChildrenOf(native.nodes, current_read_context))
<1>1. /\ Legible(native.nodes) /\ current_read_context \in 0 .. Len(native.nodes)
      /\ Cursor = client.path /\ client.path = PathTo(native.nodes)[current_read_context]
      BY ReadingHere
<1>2. Cardinality(Promise!Children(Tree, Cursor)) = n
      BY <1>1, ChildrenAre DEF Tree
<1>3. /\ Located' /\ client'.got = [path |-> client.path, value |-> n]
      /\ Phase = "reading" /\ Phase' = "reading"
      /\ Tree' = Tree /\ Cursor' = Cursor /\ Published' = Published
      BY ObservingStays
<1> HIDE DEF n
<1>4. Promise!Count
      BY <1>1, <1>2, <1>3, PromisedOperators DEF Promise!Count
<1> QED  BY <1>3, <1>4 DEF Promise!DNext

LEMMA InitiallyMaps == Init => Located /\ Promise!DInit
<1> SUFFICES ASSUME Init PROVE Located /\ Promise!DInit
    OBVIOUS
<1>1. /\ ~ self.Handle /\ ~ shim.write_mode /\ shim.read_context_stack = << >>
      /\ native.nodes = << >> /\ native.stack = << >>
      /\ client.path = << >> /\ client.got = Nothing
      /\ \A b \in Backends : medium[b] = Nothing
      BY DEF Init, NoStorage, NewShim, Closed
<1>2. Located
      BY <1>1, NoElements, EmptyTreeOf, TopOf
      DEF Located, NamesApart, WritesOnAPath, ReaderIsThere, ReadersAreOpen, Legible
<1>3. Phase = "none" /\ Cursor = << >> /\ Tree = Promise!EmptyTree
      BY <1>1, EmptyTreeOf DEF Phase, Cursor, Tree
<1>4. Published = [b \in {} |-> Promise!EmptyTree]
  <2>1. {m \in Backends : medium[m] # Nothing} = {}
        BY <1>1
  <2> QED  BY <2>1 DEF Published
<1> QED  BY <1>1, <1>2, <1>3, <1>4 DEF Promise!DInit

LEMMA EveryStepMaps ==
    IInv /\ IInv' /\ Located /\ [Next]_vars => Located' /\ [Promise!DNext]_(Promise!dvars)
<1> SUFFICES ASSUME IInv, IInv', Located, [Next]_vars
             PROVE  Located' /\ [Promise!DNext]_(Promise!dvars)
    OBVIOUS
<1> DEFINE Leaf == \E k \in LeafKinds[self.Backend], v \in Values :
                     AppendValue(k, v) \/ \E n \in Names : Write(n, k, v)
           Begin == \E k \in StructureKinds :
                      Begin_Unnamed_Structure(k) \/ \E n \in Names : Begin_Named_Structure(n, k)
           Enter == \E k \in StructureKinds :
                      \/ \E n \in Names : Enter_Named_Structure(n, k)
                      \/ \E p \in 0 .. MaxNodes : Enter_Indexed_Structure(p, k)
           Read == \E k \in Kinds : \/ \E n \in Names : ReadNamed(n, k)
                                    \/ \E p \in 0 .. MaxNodes : ReadIndexed(p, k)
           Goal == Located' /\ Promise!DNext
<1>1. CASE UNCHANGED vars
  <2>1. UNCHANGED <<self, shim, native, medium, client>>
        BY <1>1 DEF vars
  <2>2. Located'
        BY <2>1 DEF Located, NamesApart, WritesOnAPath, ReaderIsThere, ReadersAreOpen
  <2>3. /\ Phase' = Phase /\ Tree' = Tree /\ Cursor' = Cursor /\ Published' = Published
        /\ client'.got = client.got
        BY <2>1 DEF Phase, Tree, Cursor, Published
  <2> QED  BY <2>2, <2>3 DEF Promise!dvars
<1>2. CASE Open_Write \/ Create_Memory \/ Open_Read \/ Open_Memory
      BY <1>2, OpenMaps
<1>3. CASE Finalize
      BY <1>3, FinalizeMaps
<1>4. CASE Leaf
      BY <1>4, LeafMaps DEF AppendValue, Write
<1>5. CASE Begin
      BY <1>5, BeginMaps DEF Begin_Unnamed_Structure, Begin_Named_Structure
<1>6. CASE End_Structure
      BY <1>6, EndMaps
<1>7. CASE Close_And_Get_Text
      BY <1>7, CloseMaps
<1>8. CASE Enter
  <2>1. ASSUME NEW k \in StructureKinds, NEW n \in Names, Enter_Named_Structure(n, k)
        PROVE  Goal
    <3> HIDE DEF Goal
    <3>1. Require_Open("Read_Only")
          BY <2>1 DEF Enter_Named_Structure
    <3>2. PICK i \in lookup_named_node(n) : Matches(i, k) /\ enter(i, n)
          BY <2>1 DEF Enter_Named_Structure, enter_named_structure
    <3> QED  BY <3>1, <3>2, EnterMaps DEF Goal
  <2>2. ASSUME NEW k \in StructureKinds, NEW p \in 0 .. MaxNodes, Enter_Indexed_Structure(p, k)
        PROVE  Goal
    <3> HIDE DEF Goal
    <3>1. Require_Open("Read_Only")
          BY <2>2 DEF Enter_Indexed_Structure
    <3>2. PICK i \in lookup_indexed_node(p) : Matches(i, k) /\ enter(i, p)
          BY <2>2 DEF Enter_Indexed_Structure, enter_indexed_structure
    <3> QED  BY <3>1, <3>2, EnterMaps DEF Goal
  <2> QED  BY <1>8, <2>1, <2>2
<1>9. CASE Leave_Structure
      BY <1>9, LeaveMaps
<1>10. CASE Sequence_Length \/ Map_Length
      BY <1>10, CountMaps DEF Sequence_Length, Map_Length, sequence_length, map_length
<1>11. CASE Read
  <2>1. ASSUME NEW k \in Kinds, NEW n \in Names, ReadNamed(n, k)
        PROVE  Goal
    <3> HIDE DEF Goal
    <3>1. Require_Open("Read_Only")
          BY <2>1 DEF ReadNamed
    <3>2. PICK i \in lookup_named_node(n) :
             native.nodes[i].kind \in k /\ Observe(Append(client.path, n), native.nodes[i].value)
          BY <2>1 DEF ReadNamed
    <3> QED  BY <3>1, <3>2, ReadMaps DEF Goal
  <2>2. ASSUME NEW k \in Kinds, NEW p \in 0 .. MaxNodes, ReadIndexed(p, k)
        PROVE  Goal
    <3> HIDE DEF Goal
    <3>1. Require_Open("Read_Only")
          BY <2>2 DEF ReadIndexed
    <3>2. PICK i \in lookup_indexed_node(p) :
             native.nodes[i].kind \in k /\ Observe(Append(client.path, p), native.nodes[i].value)
          BY <2>2 DEF ReadIndexed
    <3> QED  BY <3>1, <3>2, ReadMaps DEF Goal
  <2> QED  BY <1>11, <2>1, <2>2
<1>12. \/ UNCHANGED vars
       \/ Open_Write \/ Create_Memory \/ Open_Read \/ Open_Memory \/ Finalize
       \/ Leaf \/ Begin \/ End_Structure \/ Close_And_Get_Text
       \/ Enter \/ Leave_Structure \/ Sequence_Length \/ Map_Length \/ Read
      BY DEF Next
<1> HIDE DEF Leaf, Begin, Enter, Read
<1> QED  BY <1>1, <1>2, <1>3, <1>4, <1>5, <1>6, <1>7, <1>8, <1>9, <1>10, <1>11, <1>12

-----------------------------------------------------------------------------
(***************************************************************************)
(* The refinement.                                                         *)
(***************************************************************************)
(* A path of keys leads to one node of every document, the structures a     *)
(* writer has open are a path, and the keys a reader navigated by lead to   *)
(* the node whose entries the shim looks its names and indices up in.       *)
THEOREM PathsLeadThere == Spec => []Located
<1>1. Init => Located
      BY InitiallyMaps
<1>2. IInv /\ IInv' /\ Located /\ [Next]_vars => Located'
      BY EveryStepMaps
<1> QED  BY <1>1, <1>2, InvariantHolds, PTL DEF Spec

(* File_Storage keeps the promise of DocumentTree: each of its steps is one *)
(* of a client moving in, growing or publishing a tree of nodes, or changes *)
(* nothing such a client sees.  What a reader reads at the keys it went by  *)
(* is what a writer put there, at any depth and in documents of any size.   *)
THEOREM PromiseKept == Spec => KeepsPromise
<1>1. Init => Promise!DInit
      BY InitiallyMaps
<1>2. IInv /\ IInv' /\ Located /\ [Next]_vars => [Promise!DNext]_(Promise!dvars)
      BY EveryStepMaps
<1> QED  BY <1>1, <1>2, InvariantHolds, PathsLeadThere, PTL
         DEF Spec, KeepsPromise, Promise!DSpec
=============================================================================
