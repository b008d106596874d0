-------------------------------- MODULE Window --------------------------------
(***************************************************************************)
(* What regions of a matrix promise: a window over an image of Height rows *)
(* and Width columns.  Taking a region narrows the window.  Adjusting it   *)
(* moves each edge by a distance of its own, stops it at the border of the *)
(* image, and puts crossed edges in order again.                           *)
(***************************************************************************)
EXTENDS Integers

CONSTANTS
    Width, Height,   \* the image
    Adjustments,     \* distances an edge may be moved by
    Nothing          \* the window of an empty matrix

VARIABLE window

Whole == [top |-> 0, bottom |-> Height, left |-> 0, right |-> Width]

Windows ==
    {w \in [top : 0 .. Height, bottom : 0 .. Height, left : 0 .. Width, right : 0 .. Width] :
        w.top < w.bottom /\ w.left < w.right}

Within(v, w) ==
    /\ w.top <= v.top /\ v.bottom <= w.bottom
    /\ w.left <= v.left /\ v.right <= w.right

\* An edge stops at the border, which is 0 or the extent of the image.
Stopped(edge, extent) ==
    IF edge < 0 THEN 0 ELSE IF edge > extent THEN extent ELSE edge

Lower(a, b) == IF a <= b THEN a ELSE b
Upper(a, b) == IF a <= b THEN b ELSE a

\* The window between two rows and two columns, in either order.
Between(row1, row2, col1, col2) ==
    IF row1 = row2 \/ col1 = col2
    THEN Nothing
    ELSE [top |-> Lower(row1, row2), bottom |-> Upper(row1, row2),
          left |-> Lower(col1, col2), right |-> Upper(col1, col2)]

Moved(w, top, bottom, left, right) ==
    Between(Stopped(w.top - top, Height), Stopped(w.bottom + bottom, Height),
            Stopped(w.left - left, Width), Stopped(w.right + right, Width))

Init == window = Whole

Narrow ==
    /\ window /= Nothing
    /\ window' \in {v \in Windows : Within(v, window)} \cup {Nothing}

Adjust(top, bottom, left, right) ==
    /\ window /= Nothing
    /\ window' = Moved(window, top, bottom, left, right)

Assign == window' = Whole

Next ==
    \/ Narrow
    \/ \E top, bottom, left, right \in Adjustments : Adjust(top, bottom, left, right)
    \/ Assign

Spec == Init /\ [][Next]_window
===============================================================================
