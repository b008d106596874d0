---------------------------- MODULE FileStorage -----------------------------
(***************************************************************************)
(* OpenCV.Core.Persistence.File_Storage over the shim's                    *)
(* opencv_core_file_storage_handle over cv::FileStorage (external).        *)
(*                                                                         *)
(*   self    the limited controlled Ada object;                            *)
(*   shim    the C++ handle: the structure kinds it has seen opened by the *)
(*           writer and the FileNodes the reader has entered;              *)
(*   native  cv::FileStorage: whether it is open, the nodes of the         *)
(*           document in the order they were emitted, each with the node   *)
(*           it was emitted under, and its own stack of open structures;   *)
(*   medium  what outlives the object: the file on disk and the last text  *)
(*           Close_And_Get_Text returned;                                  *)
(*   client  history: the keys the reading client navigated by, and the    *)
(*           path and value of its last successful read of a leaf.         *)
(*                                                                         *)
(* Three parties keep their own idea of "where we are" (Ada's Opened and   *)
(* Mode, the shim's stacks, OpenCV's stack) and none can see the others'.  *)
(* A call that is rejected changes nothing and is a stuttering step; a     *)
(* native write that throws is assumed to have emitted nothing.  A client  *)
(* gives each entry of one mapping its own name.                           *)
(***************************************************************************)
EXTENDS Integers, Sequences, SequencesExt, FiniteSets

CONSTANTS
  Names,      \* node names
  Values,     \* payloads of leaf nodes
  Rejected,   \* payloads a File_Storage cannot hold: INT32_MIN, embedded NUL
  Nothing,    \* no document, no payload
  Unnamed,    \* the empty node name the unnamed operations send
  LeafKinds,  \* the leaf types written to a backend, of int, real, string, mat
  MaxNodes,   \* bound: nodes per document
  Bound,      \* bound: nodes per document of a backend
  Rewritten   \* bound: the backends where a second document may replace a first

Backends == {"disk", "memory"}

VARIABLES self, shim, native, medium, client

vars == <<self, shim, native, medium, client>>

StructureKinds == {"map", "seq"}
Keys == Names \cup 0 .. MaxNodes

Node == [parent : 0 .. MaxNodes, name : Names \cup {Unnamed},
         kind : StructureKinds \cup {"absent"} \cup UNION Range(LeafKinds),
         value : Values \cup {Nothing}]

ASSUME PersistenceAssumption ==
  /\ Unnamed \notin Names
  /\ Rejected \subseteq Values
  /\ Nothing \notin Values /\ Nothing \notin Seq(Node)
  /\ LeafKinds \in [Backends -> SUBSET {"int", "real", "string", "mat"}]
  /\ MaxNodes \in Nat /\ Bound \in [Backends -> 0 .. MaxNodes]
  /\ Rewritten \subseteq Backends

TypeOK ==
  /\ self \in [Handle : BOOLEAN, Opened : BOOLEAN,
               Mode : {"Read_Only", "Write_Only"}, Backend : Backends]
  /\ shim \in [memory_backed : BOOLEAN, write_mode : BOOLEAN,
               released_memory_text_ready : BOOLEAN,
               write_structure_stack : Seq(StructureKinds),
               read_context_stack : Seq(1 .. MaxNodes)]
  /\ native \in [open : BOOLEAN, nodes : Seq(Node), stack : Seq(1 .. MaxNodes)]
  /\ medium \in [Backends -> Seq(Node) \cup {Nothing}]
  /\ client.path \in Seq(Keys)

NoStorage == [Handle |-> FALSE, Opened |-> FALSE, Mode |-> "Read_Only", Backend |-> "disk"]
NewShim(memory, write) ==
  [memory_backed |-> memory, write_mode |-> write, released_memory_text_ready |-> FALSE,
   write_structure_stack |-> << >>, read_context_stack |-> << >>]
Closed == [open |-> FALSE, nodes |-> << >>, stack |-> << >>]
OpenOn(nodes) == [open |-> TRUE, nodes |-> nodes, stack |-> << >>]

Init ==
  /\ self = NoStorage
  /\ shim = NewShim(FALSE, FALSE)
  /\ native = Closed
  /\ medium = [b \in Backends |-> Nothing]
  /\ client = [path |-> << >>, got |-> Nothing]

-----------------------------------------------------------------------------
(* cv::FileStorage and cv::FileNode (external). Node 0 is the root.        *)

Top(stack) == IF stack = << >> THEN 0 ELSE Last(stack)
ChildrenOf(nodes, i) == {j \in DOMAIN nodes : nodes[j].parent = i}
Emit(name, kind, value) ==
  Append(native.nodes, [parent |-> Top(native.stack), name |-> name,
                        kind |-> kind, value |-> value])
IsMap(nodes, i) == i = 0 \/ nodes[i].kind \in {"map", "mat"}
IsSeq(nodes, i) == i # 0 /\ nodes[i].kind = "seq"

\* The parser may not recognise a mapping with no entries.
Parsed(nodes) ==
  {[i \in DOMAIN nodes |-> IF i \in lost THEN [nodes[i] EXCEPT !.kind = "absent"]
                                         ELSE nodes[i]] :
     lost \in SUBSET {i \in DOMAIN nodes : /\ nodes[i].kind = "map"
                                           /\ ChildrenOf(nodes, i) = {}}}

-----------------------------------------------------------------------------
(* Opening and finalizing.                                                 *)

\* Bound: the documents of one backend at a time.
MayWrite(b) ==
  /\ b \in Rewritten \/ medium[b] = Nothing
  /\ \A other \in Backends \ {b} : medium[other] = Nothing

Opened(mode, backend) == [Handle |-> TRUE, Opened |-> TRUE, Mode |-> mode, Backend |-> backend]

file_storage_open(write) == shim' = NewShim(FALSE, write)
file_storage_open_memory_write == shim' = NewShim(TRUE, TRUE)
file_storage_open_memory_read == shim' = NewShim(TRUE, FALSE)

Open_Write ==
  /\ ~self.Handle /\ MayWrite("disk")
  /\ self' = Opened("Write_Only", "disk")
  /\ file_storage_open(TRUE)
  /\ native' = OpenOn(<< >>)
  /\ medium' = [medium EXCEPT !["disk"] = Nothing]
  /\ UNCHANGED client

Open_Read ==
  /\ ~self.Handle
  /\ medium["disk"] # Nothing
  /\ self' = Opened("Read_Only", "disk")
  /\ file_storage_open(FALSE)
  /\ \E nodes \in Parsed(medium["disk"]) : native' = OpenOn(nodes)
  /\ UNCHANGED <<medium, client>>

Create_Memory ==
  /\ ~self.Handle /\ MayWrite("memory")
  /\ self' = Opened("Write_Only", "memory")
  /\ file_storage_open_memory_write
  /\ native' = OpenOn(<< >>)
  /\ UNCHANGED <<medium, client>>

Open_Memory ==
  /\ ~self.Handle
  /\ medium["memory"] # Nothing
  /\ self' = Opened("Read_Only", "memory")
  /\ file_storage_open_memory_read
  /\ \E nodes \in Parsed(medium["memory"]) : native' = OpenOn(nodes)
  /\ UNCHANGED <<medium, client>>

\* The destructor of cv::FileStorage closes what is still open and completes
\* a document on disk; a memory document nobody asked for is dropped.
file_storage_destroy ==
  /\ shim' = NewShim(FALSE, FALSE)
  /\ native' = Closed
  /\ medium' = IF shim.write_mode /\ ~shim.memory_backed /\ native.open
               THEN [medium EXCEPT !["disk"] = native.nodes] ELSE medium

Finalize ==
  /\ self.Handle
  /\ self' = NoStorage
  /\ file_storage_destroy
  /\ client' = [client EXCEPT !.path = << >>]

Require_Open(mode) == self.Handle /\ self.Opened /\ self.Mode = mode

-----------------------------------------------------------------------------
(* Writing.                                                                *)

write_context_is_sequence ==
  /\ shim.write_structure_stack # << >>
  /\ Last(shim.write_structure_stack) = "seq"

\* Mutant: an entry of a mapping may be left unnamed.
require_write_name_unchecked(name) == write_context_is_sequence => name = Unnamed

require_write_name_for_context(name) ==
  IF write_context_is_sequence THEN name = Unnamed ELSE name # Unnamed

\* The client's side of the contract: one name, one entry.
FreshName(name) ==
  name # Unnamed => \A i \in ChildrenOf(native.nodes, Top(native.stack)) :
                      native.nodes[i].name # name

\* The four write functions of the shim: the context rule, then OpenCV.
write_leaf(name, kind, value) ==
  /\ require_write_name_for_context(name)
  /\ native.open /\ FreshName(name) /\ Len(native.nodes) < Bound[self.Backend]
  /\ native' = [native EXCEPT !.nodes = Emit(name, kind, value)]

\* Mutant: the guard against INT32_MIN is missing.
write_int_unchecked(name, value) == write_leaf(name, "int", value)

write_mat(name, value) == write_leaf(name, "mat", value)
write_int(name, value) == value \notin Rejected /\ write_leaf(name, "int", value)
write_double(name, value) == write_leaf(name, "real", value)
write_string(name, value) == write_leaf(name, "string", value)

WriteValue(name, kind, value) ==
  CASE kind = "mat"    -> write_mat(name, value)
    [] kind = "int"    -> write_int(name, value)
    [] kind = "real"   -> write_double(name, value)
    [] kind = "string" -> write_string(name, value)

\* Mutant: Validate_String_Value is forgotten.
Writable_Any(kind, value) == kind = "int" => value \notin Rejected

\* Validate_String_Value (no NUL) and To_OpenCV_Int32 (no INT32_MIN).
Writable(kind, value) == kind \in {"int", "string"} => value \notin Rejected

Write(name, kind, value) ==
  /\ Require_Open("Write_Only") /\ name # Unnamed
  /\ Writable(kind, value)
  /\ WriteValue(name, kind, value)
  /\ UNCHANGED <<self, shim, medium, client>>

\* Ada Append: the same shim functions with the empty name.
AppendValue(kind, value) ==
  /\ Require_Open("Write_Only")
  /\ Writable(kind, value)
  /\ WriteValue(Unnamed, kind, value)
  /\ UNCHANGED <<self, shim, medium, client>>

\* The stack has room before OpenCV enters the structure, so the push that
\* follows cannot fail and leave the two stacks apart.
begin_structure(name, kind) ==
  /\ require_write_name_for_context(name)
  /\ native.open /\ FreshName(name) /\ Len(native.nodes) < Bound[self.Backend]
  /\ native' = [native EXCEPT !.nodes = Emit(name, kind, Nothing),
                              !.stack = Append(@, Len(native.nodes) + 1)]
  /\ shim' = [shim EXCEPT !.write_structure_stack = Append(@, kind)]

Begin_Named_Structure(name, kind) ==
  /\ Require_Open("Write_Only") /\ name # Unnamed
  /\ begin_structure(name, kind)
  /\ UNCHANGED <<self, medium, client>>

Begin_Unnamed_Structure(kind) ==
  /\ Require_Open("Write_Only")
  /\ begin_structure(Unnamed, kind)
  /\ UNCHANGED <<self, medium, client>>

\* Mutant: the shim forgets to pop its own stack.
end_structure_no_pop ==
  /\ shim.write_structure_stack # << >> /\ native.open
  /\ native' = [native EXCEPT !.stack = Front(@)]
  /\ UNCHANGED shim

end_structure ==
  /\ shim.write_structure_stack # << >> /\ native.open
  /\ native' = [native EXCEPT !.stack = Front(@)]
  /\ shim' = [shim EXCEPT !.write_structure_stack = Front(@)]

End_Structure ==
  /\ Require_Open("Write_Only")
  /\ end_structure
  /\ UNCHANGED <<self, medium, client>>

\* Mutant: the text may be released with structures still open.
finish_memory_write_early(ready) ==
  /\ shim.memory_backed /\ shim.write_mode
  /\ ~shim.released_memory_text_ready /\ native.open
  /\ shim' = [shim EXCEPT !.released_memory_text_ready = ready]
  /\ native' = [native EXCEPT !.open = FALSE]

\* The first call releases the native storage and caches the text (ready),
\* or throws once the storage is closed; the text is never released twice.
finish_memory_write(ready) ==
  /\ shim.memory_backed /\ shim.write_mode
  /\ shim.write_structure_stack = << >>
  /\ ~shim.released_memory_text_ready /\ native.open
  /\ shim' = [shim EXCEPT !.released_memory_text_ready = ready]
  /\ native' = [native EXCEPT !.open = FALSE]

\* Opened is cleared between the size query and the copy: when the Ada
\* buffer cannot be allocated the text is lost and the storage stays closed.
\* When the release itself throws, Opened stays set on a dead storage.
Close_And_Get_Text ==
  /\ Require_Open("Write_Only")
  /\ self.Backend = "memory"
  /\ \/ /\ finish_memory_write(TRUE)
        /\ self' = [self EXCEPT !.Opened = FALSE]
        /\ \/ medium' = [medium EXCEPT !["memory"] = native.nodes]
           \/ UNCHANGED medium
     \/ finish_memory_write(FALSE) /\ UNCHANGED <<self, medium>>
  /\ UNCHANGED client

-----------------------------------------------------------------------------
(* Reading.                                                                *)

\* Mutant: the outermost structure entered, not the innermost.
outermost_read_context ==
  IF shim.read_context_stack = << >> THEN 0 ELSE Head(shim.read_context_stack)

\* At the root named lookups and Map_Length see the root mapping.
current_read_context == Top(shim.read_context_stack)

\* Mutant: any entry of the mapping, whatever its name.
lookup_any_node(name) ==
  {i \in ChildrenOf(native.nodes, current_read_context) :
     IsMap(native.nodes, current_read_context) /\ native.nodes[i].kind # "absent"}

\* The nodes a lookup can return: a mapping's entries of that name.
lookup_named_node(name) ==
  {i \in ChildrenOf(native.nodes, current_read_context) :
     /\ IsMap(native.nodes, current_read_context)
     /\ native.nodes[i].name = name
     /\ native.nodes[i].kind # "absent"}

\* The entry of a sequence at a zero-based index; the root has none.
lookup_indexed_node(index) ==
  {i \in ChildrenOf(native.nodes, current_read_context) :
     /\ shim.read_context_stack # << >>
     /\ IsSeq(native.nodes, current_read_context)
     /\ Cardinality({j \in ChildrenOf(native.nodes, current_read_context) : j < i}) = index
     /\ native.nodes[i].kind # "absent"}

Matches(i, kind) == IF kind = "map" THEN IsMap(native.nodes, i) ELSE IsSeq(native.nodes, i)

enter(i, key) ==
  /\ shim' = [shim EXCEPT !.read_context_stack = Append(@, i)]
  /\ client' = [client EXCEPT !.path = Append(@, key)]
  /\ UNCHANGED <<self, native, medium>>

\* Mutant: a missing name enters the empty FileNode instead of failing.
enter_named_unchecked(name, kind) ==
  \/ \E i \in lookup_named_node(name) : Matches(i, kind) /\ enter(i, name)
  \/ lookup_named_node(name) = {} /\ enter(0, name)

enter_named_structure(name, kind) ==
  \E i \in lookup_named_node(name) : Matches(i, kind) /\ enter(i, name)

enter_indexed_structure(index, kind) ==
  \E i \in lookup_indexed_node(index) : Matches(i, kind) /\ enter(i, index)

Enter_Named_Structure(name, kind) ==
  Require_Open("Read_Only") /\ enter_named_structure(name, kind)

Enter_Indexed_Structure(index, kind) ==
  Require_Open("Read_Only") /\ enter_indexed_structure(index, kind)

leave_structure ==
  /\ shim.read_context_stack # << >>
  /\ shim' = [shim EXCEPT !.read_context_stack = Front(@)]

Leave_Structure ==
  /\ Require_Open("Read_Only")
  /\ leave_structure
  /\ client' = [client EXCEPT !.path = Front(@)]
  /\ UNCHANGED <<self, native, medium>>

\* The node kinds each reader accepts: an integer widens to a real and
\* nothing else is converted.
read_int == {"int"}
read_double == {"int", "real"}
read_string == {"string"}
read_mat == {"mat"}

Kinds == {read_int, read_double, read_string, read_mat}

Observe(path, value) ==
  /\ client' = [client EXCEPT !.got = [path |-> path, value |-> value]]
  /\ UNCHANGED <<self, shim, native, medium>>

ReadNamed(name, kinds) ==
  /\ Require_Open("Read_Only")
  /\ \E i \in lookup_named_node(name) :
       /\ native.nodes[i].kind \in kinds
       /\ Observe(Append(client.path, name), native.nodes[i].value)

ReadIndexed(index, kinds) ==
  /\ Require_Open("Read_Only")
  /\ \E i \in lookup_indexed_node(index) :
       /\ native.nodes[i].kind \in kinds
       /\ Observe(Append(client.path, index), native.nodes[i].value)

\* The number of entries of the context the reader is in.  The entries of
\* the mapping a Mat is stored as are not modelled.
sequence_length ==
  /\ IsSeq(native.nodes, current_read_context)
  /\ Observe(client.path, Cardinality(ChildrenOf(native.nodes, current_read_context)))

map_length ==
  /\ current_read_context # 0 => native.nodes[current_read_context].kind = "map"
  /\ Observe(client.path, Cardinality(ChildrenOf(native.nodes, current_read_context)))

Sequence_Length == Require_Open("Read_Only") /\ sequence_length
Map_Length == Require_Open("Read_Only") /\ map_length

Next ==
  \/ Open_Write \/ Create_Memory \/ Open_Read \/ Open_Memory \/ Finalize
  \/ \E k \in LeafKinds[self.Backend], v \in Values :
       AppendValue(k, v) \/ \E n \in Names : Write(n, k, v)
  \/ \E k \in StructureKinds :
       Begin_Unnamed_Structure(k) \/ \E n \in Names : Begin_Named_Structure(n, k)
  \/ End_Structure \/ Close_And_Get_Text
  \/ \E k \in StructureKinds : \/ \E n \in Names : Enter_Named_Structure(n, k)
                               \/ \E p \in 0 .. MaxNodes : Enter_Indexed_Structure(p, k)
  \/ Leave_Structure \/ Sequence_Length \/ Map_Length
  \/ \E k \in Kinds : \/ \E n \in Names : ReadNamed(n, k)
                      \/ \E p \in 0 .. MaxNodes : ReadIndexed(p, k)

Spec == Init /\ [][Next]_vars

-----------------------------------------------------------------------------
(* The shim's write_structure_stack is its only guard against naming an    *)
(* entry of a sequence, leaving one of a mapping unnamed, closing the root *)
(* or releasing a half-written text; OpenCV keeps the stack that decides   *)
(* where a node really goes.  While a writer is open they agree level by   *)
(* level (shim begin_structure and end_structure).                         *)
StacksAgree ==
  shim.write_mode =>
    /\ Len(shim.write_structure_stack) = Len(native.stack)
    /\ \A d \in DOMAIN native.stack :
         native.nodes[native.stack[d]].kind = shim.write_structure_stack[d]

(* Every document a client can still obtain is well formed: an entry is    *)
(* named exactly when its parent is a mapping, its parent was emitted      *)
(* before it, and no leaf holds a payload the formats cannot represent.    *)
WellFormed(nodes) ==
  \A i \in DOMAIN nodes :
    LET parent == nodes[i].parent
    IN  /\ parent < i
        /\ IF IsSeq(nodes, parent) THEN nodes[i].name = Unnamed
           ELSE IsMap(nodes, parent) /\ nodes[i].name # Unnamed
        /\ nodes[i].kind \in {"int", "string"} => nodes[i].value \notin Rejected

DocumentsWellFormed ==
  /\ WellFormed(native.nodes)
  /\ \A b \in Backends : medium[b] # Nothing => WellFormed(medium[b])

(* The reader's context stack is a path from the root of the document that *)
(* is open: every entered node is a child of the one entered before, and a *)
(* structure (shim enter_named_structure, enter_indexed_structure).        *)
ReadContextIsAPath ==
  \A d \in DOMAIN shim.read_context_stack :
    LET i == shim.read_context_stack[d]
    IN  /\ i \in DOMAIN native.nodes
        /\ native.nodes[i].parent = IF d = 1 THEN 0 ELSE shim.read_context_stack[d - 1]
        /\ IsMap(native.nodes, i) \/ IsSeq(native.nodes, i)

-----------------------------------------------------------------------------
(* The promise of module DocumentTree, under the mapping that forgets the  *)
(* three layers and gives each node the path of keys that leads to it.     *)

\* The key of node i: its position in a sequence, its name in a mapping.
KeyOf(nodes, i) ==
  IF IsSeq(nodes, nodes[i].parent)
  THEN Cardinality({j \in ChildrenOf(nodes, nodes[i].parent) : j < i})
  ELSE nodes[i].name

PathTo(nodes) ==
  LET path[i \in 0 .. Len(nodes)] ==
        IF i = 0 THEN << >> ELSE Append(path[nodes[i].parent], KeyOf(nodes, i))
  IN  path

Content(nodes, i) ==
  IF i = 0 THEN [kind |-> "map", value |-> Nothing]
  ELSE [kind |-> nodes[i].kind, value |-> nodes[i].value]

TreeOf(nodes) ==
  LET path == PathTo(nodes)
  IN  [p \in {path[i] : i \in 0 .. Len(nodes)} |->
         Content(nodes, CHOOSE i \in 0 .. Len(nodes) : path[i] = p)]

Phase == IF ~self.Handle THEN "none"
         ELSE IF ~native.open THEN "closed"
         ELSE IF self.Mode = "Write_Only" THEN "writing" ELSE "reading"

Tree == TreeOf(native.nodes)

Cursor == IF shim.write_mode THEN PathTo(native.nodes)[Top(native.stack)] ELSE client.path

Published == [b \in {m \in Backends : medium[m] # Nothing} |-> TreeOf(medium[b])]

Promise == INSTANCE DocumentTree WITH
  phase <- Phase, tree <- Tree, cursor <- Cursor, published <- Published, got <- client.got

(* File_Storage keeps the promise: what a reader reads at the keys it      *)
(* navigated by is what the writer put there, documents are published      *)
(* whole, once, and only by Close_And_Get_Text at the root or the end of a *)
(* disk writer.                                                            *)
KeepsPromise == Promise!DSpec
=============================================================================
