---------------------------- MODULE DocumentTree ----------------------------
(***************************************************************************)
(* What OpenCV.Core.Persistence promises a client: a File_Storage object   *)
(* is a cursor over a tree of nodes.  A writer grows the tree below the    *)
(* cursor and publishes it as a document; a reader walks a published       *)
(* document and reads back the value found at the path it navigated to.    *)
(*                                                                         *)
(* The tree is a function from paths to nodes.  A path is the sequence of  *)
(* keys from the implicit root mapping: a name inside a mapping, a         *)
(* zero-based position inside a sequence.  Nothing here mentions handles,  *)
(* structure stacks or OpenCV: module FileStorage refines this one.        *)
(***************************************************************************)
EXTENDS Integers, Sequences, SequencesExt, FiniteSets

CONSTANTS
  Names,    \* names a client gives to the nodes of a mapping
  Values,   \* payloads of the leaf nodes
  Nothing   \* no document, no payload, no value read yet

VARIABLES
  phase,     \* "none", "writing", "reading" or "closed"
  tree,      \* the tree of the open document
  cursor,    \* path of the structure the client is in
  published, \* the documents a reader can open, by the backends that have one
  got        \* path and value of the last successful leaf read

dvars == <<phase, tree, cursor, published, got>>

Media == {"disk", "memory"}
Structures == {"map", "seq"}
Leaves == {"int", "real", "string", "mat"}

EmptyTree == [p \in {<< >>} |-> [kind |-> "map", value |-> Nothing]]

Children(t, p) == {q \in DOMAIN t : q # << >> /\ Front(q) = p}

\* The keys under which the structure at path p of t takes its next child.
NextKeys(t, p) ==
  IF t[p].kind = "seq"
  THEN {Cardinality(Children(t, p))}
  ELSE {n \in Names : Append(p, n) \notin DOMAIN t}

\* What a parser may see of t: a mapping with no entries cannot always be
\* told from a missing node (kind "absent").
Parses(t) ==
  {[p \in DOMAIN t |-> IF p \in lost THEN [t[p] EXCEPT !.kind = "absent"] ELSE t[p]] :
     lost \in SUBSET {p \in DOMAIN t : t[p].kind = "map" /\ Children(t, p) = {}}}

\* What can be opened once the tree is the document of backend b.
Publishing(b) ==
  [m \in DOMAIN published \cup {b} |-> IF m = b THEN tree ELSE published[m]]

-----------------------------------------------------------------------------
DInit ==
  /\ phase = "none"
  /\ tree = EmptyTree
  /\ cursor = << >>
  /\ published = [b \in {} |-> EmptyTree]
  /\ got = Nothing

\* A disk writer truncates the document it replaces.
Create(b) ==
  /\ phase = "none"
  /\ phase' = "writing"
  /\ tree' = EmptyTree
  /\ cursor' = << >>
  /\ published' = IF b = "disk" THEN [m \in DOMAIN published \ {b} |-> published[m]]
                  ELSE published
  /\ UNCHANGED got

\* Writes a leaf below the cursor, or opens a structure and moves into it.
Put(kind, value) ==
  /\ phase = "writing"
  /\ \E key \in NextKeys(tree, cursor) :
       LET p == Append(cursor, key)
       IN  /\ tree' = [q \in DOMAIN tree \cup {p} |->
                         IF q = p THEN [kind |-> kind, value |-> value] ELSE tree[q]]
           /\ cursor' = IF kind \in Structures THEN p ELSE cursor
  /\ UNCHANGED <<phase, published, got>>

\* Leaves the current structure, as a writer or as a reader.
Up ==
  /\ phase \in {"writing", "reading"}
  /\ cursor # << >>
  /\ cursor' = Front(cursor)
  /\ UNCHANGED <<phase, tree, published, got>>

\* The text of a memory document is handed out once, at the root; it may be
\* lost on its way to the client, and then nothing is published.
Close ==
  /\ phase = "writing"
  /\ phase' = "closed"
  /\ \/ cursor = << >> /\ published' = Publishing("memory")
     \/ UNCHANGED published
  /\ UNCHANGED <<tree, cursor, got>>

\* The end of the File_Storage object; it completes a document on disk.
Release ==
  /\ phase # "none"
  /\ phase' = "none"
  /\ tree' = EmptyTree
  /\ cursor' = << >>
  /\ \/ phase = "writing" /\ published' = Publishing("disk")
     \/ UNCHANGED published
  /\ UNCHANGED got

OpenRead(b) ==
  /\ phase = "none"
  /\ b \in DOMAIN published
  /\ phase' = "reading"
  /\ tree' \in Parses(published[b])
  /\ cursor' = << >>
  /\ UNCHANGED <<published, got>>

Down ==
  /\ phase = "reading"
  /\ cursor' \in {q \in Children(tree, cursor) : tree[q].kind \in Structures \cup {"mat"}}
  /\ UNCHANGED <<phase, tree, published, got>>

ReadLeaf ==
  /\ phase = "reading"
  /\ \E q \in Children(tree, cursor) :
       /\ tree[q].kind \in Leaves
       /\ got' = [path |-> q, value |-> tree[q].value]
  /\ UNCHANGED <<phase, tree, cursor, published>>

\* The length of the structure the reader is in.
Count ==
  /\ phase = "reading"
  /\ got' = [path |-> cursor, value |-> Cardinality(Children(tree, cursor))]
  /\ UNCHANGED <<phase, tree, cursor, published>>

DNext ==
  \/ \E b \in Media : Create(b) \/ OpenRead(b)
  \/ \E kind \in Structures : Put(kind, Nothing)
  \/ \E kind \in Leaves, value \in Values : Put(kind, value)
  \/ Up \/ Close \/ Release \/ Down \/ ReadLeaf \/ Count

DSpec == DInit /\ [][DNext]_dvars
=============================================================================
