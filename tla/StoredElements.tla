--------------------------- MODULE StoredElements ---------------------------
(***************************************************************************)
(* What OpenCV.Core.Sparse promises a client: variables that name          *)
(* collections of stored elements, an element being an index with a value. *)
(* Assignment makes two variables name one collection, Clone makes a new   *)
(* one.  A traversal is of a collection and not of a variable: it visits   *)
(* every stored element once, in no particular order, with the value it    *)
(* has at that moment, whatever becomes of the variable meanwhile.         *)
(*                                                                         *)
(* There are no reference counts, handles or iterators here: module        *)
(* SparseMats implements this one.                                         *)
(***************************************************************************)
EXTENDS Integers, Sequences, SequencesExt

CONSTANTS
    Vars,         \* the variables of the client
    Collections,  \* names of collections
    Indices,      \* where an element may be stored
    Values,       \* the values of an element
    Layouts,      \* its types
    Unused,       \* nothing is in the collection of this name
    Nothing       \* a variable without a collection, a traversal between visits

VARIABLES
    names,        \* the collection of each variable, or Nothing
    elements,     \* layout and stored values of each collection, or Unused
    traversals    \* the traversals in progress, the innermost last

svars == <<names, elements, traversals>>

Stores == UNION {[kept -> Values] : kept \in SUBSET Indices}
Contents == [layout : Layouts, stored : Stores]

Traversed(c) == \E d \in DOMAIN traversals : traversals[d].of = c

\* A client acts between calls and in the innermost callback.
ClientRuns == traversals /= << >> => Last(traversals).visiting /= Nothing

\* Only what a variable names or a traversal is of remains.
Remaining(contents) ==
    [c \in Collections |->
        IF (\E v \in Vars : names'[v] = c) \/ (\E d \in DOMAIN traversals' : traversals'[d].of = c)
        THEN contents[c] ELSE Unused]

SInit ==
    /\ names = [v \in Vars |-> Nothing]
    /\ elements = [c \in Collections |-> Unused]
    /\ traversals = << >>

\* A variable is made to name what another one names, something new, or nothing.
Name(v, c) ==
    /\ ClientRuns /\ UNCHANGED traversals
    /\ names' = [names EXCEPT ![v] = c]
    /\ \/ elements' = Remaining(elements)
       \/ /\ c /= Nothing /\ elements[c] = Unused
          /\ \E new \in Contents : elements' = Remaining([elements EXCEPT ![c] = new])

\* The elements of a collection change; which there are may not change while
\* it is traversed.
Change(c) ==
    /\ ClientRuns /\ UNCHANGED <<names, traversals>>
    /\ c \in {names[v] : v \in Vars} /\ c /= Nothing
    /\ \E stored \in Stores :
        /\ Traversed(c) => DOMAIN stored = DOMAIN elements[c].stored
        /\ elements' = [elements EXCEPT ![c].stored = stored]

Begin(v) ==
    /\ ClientRuns /\ UNCHANGED <<names, elements>>
    /\ names[v] /= Nothing
    /\ traversals' = Append(traversals,
          [of |-> names[v], left |-> DOMAIN elements[names[v]].stored, visiting |-> Nothing])

\* An element that was not visited yet is, with its present value.
Visit ==
    /\ ~ ClientRuns /\ UNCHANGED <<names, elements>>
    /\ LET t == Last(traversals)
       IN  \E i \in t.left :
              traversals' = Append(Front(traversals),
                  [of |-> t.of, left |-> t.left \ {i},
                   visiting |-> [index |-> i, value |-> elements[t.of].stored[i]]])

Return ==
    /\ ClientRuns /\ traversals /= << >> /\ UNCHANGED <<names, elements>>
    /\ traversals' = Append(Front(traversals), [Last(traversals) EXCEPT !.visiting = Nothing])

\* When nothing is left, or with the exception of a visit.
End ==
    /\ traversals /= << >>
    /\ ClientRuns \/ Last(traversals).left = {}
    /\ traversals' = Front(traversals)
    /\ UNCHANGED names
    /\ elements' = Remaining(elements)

SNext ==
    \/ \E v \in Vars, c \in Collections \cup {Nothing} : Name(v, c)
    \/ \E c \in Collections : Change(c)
    \/ \E v \in Vars : Begin(v)
    \/ Visit \/ Return \/ End

StoredSpec == SInit /\ [][SNext]_svars

-----------------------------------------------------------------------------
(***************************************************************************)
(* What the client may learn of the collection of a variable.              *)
(***************************************************************************)
\* A missing element reads as zero.
Value(v, i) ==
    IF i \in DOMAIN elements[names[v]].stored THEN elements[names[v]].stored[i] ELSE 0

\* The places an extremum may be reported at: those with the least (greatest)
\* stored value, unless that is not beyond the value the search begins with,
\* as when the largest (smallest) value or an infinity is all there is.
MinimumAt(v, seed) ==
    LET s == elements[names[v]].stored
    IN  {i \in DOMAIN s : s[i] < seed /\ \A j \in DOMAIN s : s[i] <= s[j]}

MaximumAt(v, seed) ==
    LET s == elements[names[v]].stored
    IN  {i \in DOMAIN s : s[i] > seed /\ \A j \in DOMAIN s : s[i] >= s[j]}
==============================================================================
