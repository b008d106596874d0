------------------------------- MODULE Regions -------------------------------
(***************************************************************************)
(* The geometry of two-dimensional views: Region, row, column and diagonal *)
(* views, Reshape, Locate_Region and Adjust_Region.                        *)
(*                                                                         *)
(* A view is a header over an allocation: where its first element is, how  *)
(* many rows and columns it has, and how far apart rows are.  Nothing in   *)
(* it says what the parent looked like; OpenCV computes that again from    *)
(* the distance to the start and to the end of the allocation.  Three      *)
(* layers check the arithmetic: the Ada operation, the shim's preflights,  *)
(* and OpenCV's own assertions.                                            *)
(*                                                                         *)
(* Lengths count channel values, the unit in which an allocation of Height *)
(* rows and Width columns has Width * Height * Channels of them.  A native *)
(* expression that leaves int, or a pointer that leaves the allocation, is *)
(* undefined behaviour: "defined" records that none was evaluated.         *)
(***************************************************************************)
EXTENDS Integers

CONSTANTS
    Width, Height, Channels,  \* the matrix the views are taken from
    MaxInt,                   \* the largest int and int32_t
    Adjustments,              \* values of Region_Adjustment that are tried
    ChannelCounts,            \* channel counts Reshape is asked for
    Nothing                   \* the window of an empty matrix

ASSUME GeometryAssumption ==
    /\ Width \in Nat \ {0} /\ Height \in Nat \ {0} /\ Channels \in Nat \ {0}
    /\ MaxInt \in Nat
    /\ Width <= MaxInt /\ Height <= MaxInt /\ Channels <= MaxInt
    /\ Adjustments \subseteq -(MaxInt + 1) .. MaxInt
    /\ ChannelCounts \subseteq Nat \ {0}
    /\ Nothing \notin [top : Nat, bottom : Nat, left : Nat, right : Nat]

VARIABLES
    header,    \* the header of the client's matrix
    defined    \* no native call so far had undefined behaviour

vars == <<header, defined>>

(***************************************************************************)
(* Headers.                                                                *)
(***************************************************************************)
Span == Width * Height * Channels    \* dataend - datastart

Header(data, rows, cols, step, channels) ==
    [data |-> data, rows |-> rows, cols |-> cols, step |-> step, channels |-> channels]

Parent == Header(0, Height, Width, Width * Channels, Channels)

Released(h) == Header(0, 0, 0, 0, h.channels)

Is_Empty(h) == h.rows = 0 \/ h.cols = 0

\* updateContinuityFlag: rows follow each other without a gap, and an int
\* counts the scalars.
Is_Continuous(h) ==
    /\ h.rows <= 1 \/ h.step <= h.cols * h.channels
    /\ h.rows * h.cols * h.channels <= MaxInt

FitsInt(i) == -(MaxInt + 1) <= i /\ i <= MaxInt

\* OpenCV releases a view that has no elements.
View(h, data, rows, cols, step) ==
    IF rows = 0 \/ cols = 0
    THEN Released(h)
    ELSE Header(data, rows, cols, step, h.channels)

Lower(a, b) == IF a <= b THEN a ELSE b
Upper(a, b) == IF a <= b THEN b ELSE a

(***************************************************************************)
(* OpenCV: views.  The assertions of OpenCV on ranges repeat what the Ada  *)
(* layer checks and are left out: what is checked below is the binding's   *)
(* own validation.                                                         *)
(***************************************************************************)
RectMat(h, x, y, width, height) ==
    View(h, h.data + y * h.step + x * h.channels, height, width, h.step)

diag(h, d) ==
    LET length == IF d >= 0 THEN Lower(h.cols - d, h.rows) ELSE Lower(h.rows + d, h.cols)
    IN  View(h, IF d >= 0 THEN h.data + d * h.channels ELSE h.data - d * h.step,
             length, 1, IF length > 1 THEN h.step + h.channels ELSE h.step)

(***************************************************************************)
(* OpenCV: reshape.  Zero rows means "as many as there are", unless the    *)
(* new channel count does not divide a row.                                *)
(***************************************************************************)
RowWidth(h) == h.cols * h.channels

DerivesRows(h, channels, rows) ==
    rows = 0 /\ (channels > RowWidth(h) \/ RowWidth(h) % channels /= 0)

NativeRows(h, channels, rows) ==
    IF DerivesRows(h, channels, rows) THEN (h.rows * RowWidth(h)) \div channels ELSE rows

ChangesRows(h, channels, rows) == NativeRows(h, channels, rows) \notin {0, h.rows}

NewRowWidth(h, channels, rows) ==
    IF ChangesRows(h, channels, rows)
    THEN (h.rows * RowWidth(h)) \div NativeRows(h, channels, rows)
    ELSE RowWidth(h)

reshape_accepts(h, channels, rows) ==
    /\ ChangesRows(h, channels, rows) =>
        /\ Is_Continuous(h)
        /\ NativeRows(h, channels, rows) <= h.rows * RowWidth(h)
        /\ NewRowWidth(h, channels, rows) * NativeRows(h, channels, rows) = h.rows * RowWidth(h)
    /\ NewRowWidth(h, channels, rows) % channels = 0

reshape(h, channels, rows) ==
    LET wide == NewRowWidth(h, channels, rows)
    IN  Header(h.data,
               IF ChangesRows(h, channels, rows) THEN NativeRows(h, channels, rows) ELSE h.rows,
               wide \div channels,
               IF ChangesRows(h, channels, rows) THEN wide ELSE h.step,
               channels)

reshape_defined(h, channels, rows) ==
    /\ FitsInt(RowWidth(h))
    /\ DerivesRows(h, channels, rows) \/ rows \notin {0, h.rows} => FitsInt(h.rows * RowWidth(h))

(***************************************************************************)
(* OpenCV: Mat::locateROI and Mat::adjustROI.                              *)
(***************************************************************************)
OffsetY(h) == h.data \div h.step
OffsetX(h) == (h.data % h.step) \div h.channels

WholeHeight(h) ==
    Upper((Span - (OffsetX(h) + h.cols) * h.channels) \div h.step + 1, OffsetY(h) + h.rows)

WholeWidth(h) ==
    Upper((Span - h.step * (WholeHeight(h) - 1)) \div h.channels, OffsetX(h) + h.cols)

\* The differences are unsigned, the results int.
locateROI_defined(h) ==
    /\ h.step > 0
    /\ (OffsetX(h) + h.cols) * h.channels <= Span
    /\ h.step * (WholeHeight(h) - 1) <= Span
    /\ FitsInt(OffsetX(h) + h.cols) /\ FitsInt(OffsetY(h) + h.rows)
    /\ FitsInt(WholeHeight(h)) /\ FitsInt(WholeWidth(h))

Clipped(edge, extent) == Lower(Upper(edge, 0), extent)

Row1(h, top) == Clipped(OffsetY(h) - top, WholeHeight(h))
Row2(h, bottom) == Clipped(OffsetY(h) + h.rows + bottom, WholeHeight(h))
Col1(h, left) == Clipped(OffsetX(h) - left, WholeWidth(h))
Col2(h, right) == Clipped(OffsetX(h) + h.cols + right, WholeWidth(h))

\* Crossed edges change places.
adjustROI(h, top, bottom, left, right) ==
    LET row1 == Lower(Row1(h, top), Row2(h, bottom))
        row2 == Upper(Row1(h, top), Row2(h, bottom))
        col1 == Lower(Col1(h, left), Col2(h, right))
        col2 == Upper(Col1(h, left), Col2(h, right))
    IN  Header(h.data + (row1 - OffsetY(h)) * h.step + (col1 - OffsetX(h)) * h.channels,
               row2 - row1, col2 - col1, h.step, h.channels)

adjustROI_defined(h, top, bottom, left, right) ==
    /\ locateROI_defined(h)
    /\ FitsInt(OffsetY(h) - top) /\ FitsInt(OffsetY(h) + h.rows + bottom)
    /\ FitsInt(OffsetX(h) - left) /\ FitsInt(OffsetX(h) + h.cols + right)
    /\ adjustROI(h, top, bottom, left, right).data \in 0 .. Span

(***************************************************************************)
(* The shim's preflights.                                                  *)
(***************************************************************************)
\* Mutant: the height OpenCV will infer is not compared with the largest int.
roi_geometry_preflight_Any_Height(h) ==
    /\ ~ Is_Empty(h)
    /\ h.step > 0
    /\ h.data <= Span
    /\ OffsetY(h) <= MaxInt /\ OffsetX(h) <= MaxInt
    /\ h.rows <= MaxInt - OffsetY(h)
    /\ h.cols <= MaxInt - OffsetX(h)
    /\ OffsetX(h) + h.cols <= Span \div h.channels
    /\ WholeHeight(h) - 1 <= Span \div h.step
    /\ (Span - (WholeHeight(h) - 1) * h.step) \div h.channels <= MaxInt

roi_geometry_preflight(h) ==
    /\ ~ Is_Empty(h)
    /\ h.step > 0
    /\ h.data <= Span
    /\ OffsetY(h) <= MaxInt /\ OffsetX(h) <= MaxInt
    /\ h.rows <= MaxInt - OffsetY(h)
    /\ h.cols <= MaxInt - OffsetX(h)
    /\ OffsetX(h) + h.cols <= Span \div h.channels
    /\ (Span - (OffsetX(h) + h.cols) * h.channels) \div h.step < MaxInt
    /\ WholeHeight(h) - 1 <= Span \div h.step
    /\ (Span - (WholeHeight(h) - 1) * h.step) \div h.channels <= MaxInt

\* Mutant: only the adjustments that are subtracted are checked.
roi_adjustment_preflight_One_Side(h, top, bottom, left, right) ==
    /\ FitsInt(OffsetY(h) + h.rows) /\ FitsInt(OffsetX(h) + h.cols)
    /\ FitsInt(OffsetY(h) - top)
    /\ FitsInt(OffsetX(h) - left)

roi_adjustment_preflight(h, top, bottom, left, right) ==
    /\ FitsInt(OffsetY(h) + h.rows) /\ FitsInt(OffsetX(h) + h.cols)
    /\ FitsInt(OffsetY(h) - top) /\ FitsInt(OffsetY(h) + h.rows + bottom)
    /\ FitsInt(OffsetX(h) - left) /\ FitsInt(OffsetX(h) + h.cols + right)

\* The first element of the adjusted view, which is formed even when the
\* view is empty, is not past the end.
roi_mat_pointer_preflight(h, top, bottom, left, right) ==
    LET row == Lower(Row1(h, top), Row2(h, bottom))
        col == Lower(Col1(h, left), Col2(h, right))
    IN  /\ row <= Span \div h.step
        /\ col <= (Span - row * h.step) \div h.channels

mat_adjust_roi_accepts(h, top, bottom, left, right) ==
    /\ roi_geometry_preflight(h)
    /\ roi_adjustment_preflight(h, top, bottom, left, right)
    /\ roi_mat_pointer_preflight(h, top, bottom, left, right)

\* Mutant: the edges arrive in the order of a rectangle's sides.
mat_adjust_roi_Reordered(h, top, bottom, left, right) == adjustROI(h, top, right, bottom, left)

mat_adjust_roi(h, top, bottom, left, right) == adjustROI(h, top, bottom, left, right)

mat_region_accepts(h, x, y, width, height) ==
    /\ 0 <= x /\ x < h.cols /\ 0 <= y /\ y < h.rows
    /\ x + width <= MaxInt /\ y + height <= MaxInt

mat_diagonal_view_accepts(h, offset) ==
    ~ Is_Empty(h) /\ - h.rows < offset /\ offset < h.cols

mat_reshape_accepts(h, channels, rows) ==
    /\ RowWidth(h) <= MaxInt
    /\ DerivesRows(h, channels, rows) \/ rows \notin {0, h.rows} => h.rows * RowWidth(h) <= MaxInt

(***************************************************************************)
(* The Ada operations.  Each is the client's "M := M.Operation (...)"; a   *)
(* rejected call leaves the matrix as it is.                               *)
(***************************************************************************)
\* Mutant: the width is compared with the source and not with what is right of x.
Region_Accepts_Any_Origin(h, x, y, width, height) ==
    /\ width > 0 /\ height > 0
    /\ 0 <= x /\ 0 <= y
    /\ x < h.cols /\ y < h.rows
    /\ width <= h.cols /\ height <= h.rows - y

Region_Accepts(h, x, y, width, height) ==
    /\ width > 0 /\ height > 0
    /\ 0 <= x /\ 0 <= y
    /\ x < h.cols /\ y < h.rows
    /\ width <= h.cols - x /\ height <= h.rows - y

Region(x, y, width, height) ==
    /\ Region_Accepts(header, x, y, width, height)
    /\ mat_region_accepts(header, x, y, width, height)
    /\ header' = RectMat(header, x, y, width, height)
    /\ UNCHANGED defined

Row_View(row) ==
    /\ row < header.rows
    /\ row /= MaxInt
    /\ header' = RectMat(header, 0, row, header.cols, 1)
    /\ UNCHANGED defined

\* Mutant: the order of the bounds is not checked.
Row_Range_View_Any_Order(start, stop) ==
    /\ stop <= header.rows
    /\ header' = IF start = 0 /\ stop = header.rows
                 THEN header
                 ELSE RectMat(header, 0, start, header.cols, stop - start)
    /\ UNCHANGED defined

\* A full range is no view at all: the header is copied.
Row_Range_View(start, stop) ==
    /\ start <= stop /\ stop <= header.rows
    /\ header' = IF start = 0 /\ stop = header.rows
                 THEN header
                 ELSE RectMat(header, 0, start, header.cols, stop - start)
    /\ UNCHANGED defined

Column_View(column) ==
    /\ column < header.cols
    /\ column /= MaxInt
    /\ header' = RectMat(header, column, 0, 1, header.rows)
    /\ UNCHANGED defined

\* Mutant: the end of the range is not checked.
Column_Range_View_Any_End(start, stop) ==
    /\ start <= stop
    /\ header' = IF start = 0 /\ stop = header.cols
                 THEN header
                 ELSE RectMat(header, start, 0, stop - start, header.rows)
    /\ UNCHANGED defined

Column_Range_View(start, stop) ==
    /\ start <= stop /\ stop <= header.cols
    /\ header' = IF start = 0 /\ stop = header.cols
                 THEN header
                 ELSE RectMat(header, start, 0, stop - start, header.rows)
    /\ UNCHANGED defined

Diagonal_View(offset) ==
    /\ ~ Is_Empty(header) /\ offset < header.cols /\ offset > - header.rows
    /\ mat_diagonal_view_accepts(header, offset)
    /\ header' = diag(header, offset)
    /\ UNCHANGED defined

\* The requested factors must cancel against the factors of the source.
Greatest_Common_Divisor(a, b) ==
    IF a = 0 THEN b
    ELSE IF b = 0 THEN a
    ELSE CHOOSE d \in 1 .. Lower(a, b) :
            /\ a % d = 0 /\ b % d = 0
            /\ \A e \in d + 1 .. Lower(a, b) : a % e /= 0 \/ b % e /= 0

\* Cancel: the factor that is left, and what is left of a source factor.
Left(factor, source) ==
    IF factor = 0 THEN 0 ELSE factor \div Greatest_Common_Divisor(source, factor)
Rest(source, factor) ==
    IF factor = 0 THEN source ELSE source \div Greatest_Common_Divisor(source, factor)

\* Mutant: the channels of the source are not a factor.
Cancel_Pixels(sources, factor) ==
    LET f1 == Left(factor, sources[1])
        f2 == Left(f1, sources[2])
    IN  [left |-> f2, sources |-> <<Rest(sources[1], factor), Rest(sources[2], f1), sources[3]>>]

Cancel(sources, factor) ==
    LET f1 == Left(factor, sources[1])
        f2 == Left(f1, sources[2])
        f3 == Left(f2, sources[3])
    IN  [left |-> f3,
         sources |-> <<Rest(sources[1], factor), Rest(sources[2], f1), Rest(sources[3], f2)>>]

Validate_Reshape_Shape(h, channels, rows) ==
    LET first == Cancel(<<h.rows, h.cols, h.channels>>, rows)
        second == Cancel(first.sources, channels)
        rest == second.sources
    IN  rows = 0 \/ /\ first.left = 1 /\ second.left = 1
                    /\ rest[1] <= MaxInt
                    /\ rest[1] * rest[2] <= MaxInt
                    /\ rest[1] * rest[2] * rest[3] <= MaxInt

\* OpenCV computes the products before it rejects a shape.
ReshapeTo(channels, rows) ==
    /\ mat_reshape_accepts(header, channels, rows)
    /\ header' = IF reshape_accepts(header, channels, rows)
                 THEN reshape(header, channels, rows)
                 ELSE header
    /\ defined' = (defined /\ reshape_defined(header, channels, rows))

\* Mutant: the number of rows is left to OpenCV.
Reshape_Unvalidated(channels) == ReshapeTo(channels, 0)

Reshape(channels) ==
    /\ Validate_Reshape_Shape(header, channels, header.rows)
    /\ ReshapeTo(channels, 0)

Reshape_Rows(channels, rows) ==
    /\ Validate_Reshape_Shape(header, channels, rows)
    /\ ReshapeTo(channels, rows)

Adjust_Region(top, bottom, left, right) ==
    /\ ~ Is_Empty(header)
    /\ mat_adjust_roi_accepts(header, top, bottom, left, right)
    /\ header' = mat_adjust_roi(header, top, bottom, left, right)
    /\ defined' = (defined /\ adjustROI_defined(header, top, bottom, left, right))

\* What Locate_Region returns, and the check of it in Ada.
Locate_Region(h) ==
    [whole |-> [height |-> WholeHeight(h), width |-> WholeWidth(h)],
     offset |-> [y |-> OffsetY(h), x |-> OffsetX(h)]]

Checked_Region_Location(h) ==
    LET at == Locate_Region(h)
    IN  /\ at.offset.x >= 0 /\ at.offset.y >= 0
        /\ at.offset.x + h.cols <= at.whole.width
        /\ at.offset.y + h.rows <= at.whole.height

\* The client takes the whole matrix again.
Assign == header' = Parent /\ UNCHANGED defined

Init == header = Parent /\ defined = TRUE

\* Arguments are tried up to the first one that is out of range.
Outside(extent) == -1 .. extent + 1
Lengths(extent) == 0 .. extent + 1

ViewNext ==
    \/ \E x \in Outside(header.cols), y \in Outside(header.rows) :
          \E width \in Lengths(header.cols), height \in Lengths(header.rows) :
             Region(x, y, width, height)
    \/ \E row \in Lengths(header.rows) : Row_View(row)
    \/ \E start, stop \in Lengths(header.rows) : Row_Range_View(start, stop)
    \/ \E column \in Lengths(header.cols) : Column_View(column)
    \/ \E start, stop \in Lengths(header.cols) : Column_Range_View(start, stop)
    \/ Assign

AdjustNext ==
    \E top, bottom, left, right \in Adjustments : Adjust_Region(top, bottom, left, right)

ReshapeNext ==
    \/ \E offset \in - header.rows .. header.cols : Diagonal_View(offset)
    \/ \E channels \in ChannelCounts : Reshape(channels)
    \/ \E channels \in ChannelCounts, rows \in 1 .. MaxInt : Reshape_Rows(channels, rows)

\* Windows are cut and moved; rows keep their distance.
RegionSpec == Init /\ [][ViewNext \/ AdjustNext]_vars

\* Views that change the distance of rows, and are not moved afterwards.
ViewSpec == Init /\ [][ViewNext \/ ReshapeNext]_vars

Next == ViewNext \/ AdjustNext \/ ReshapeNext

Spec == Init /\ [][Next]_vars

(***************************************************************************)
(* Properties.                                                             *)
(***************************************************************************)
Address(h, row, col) == h.data + row * h.step + col * h.channels

\* The state has its type.
TypeOK ==
    /\ header \in [data : Nat, rows : 0 .. MaxInt, cols : 0 .. MaxInt, step : Nat, channels : Nat \ {0}]
    /\ defined \in BOOLEAN

\* Every element of a view is inside the allocation, by its row and column
\* and, when the header says it is continuous, by its position.
ElementsInside ==
    ~ Is_Empty(header) =>
        /\ Address(header, header.rows - 1, header.cols - 1) + header.channels <= Span
        /\ Is_Continuous(header) =>
              header.data + header.rows * header.cols * header.channels <= Span

\* No operation makes OpenCV overflow an int, wrap a difference, or form a
\* pointer outside the allocation.
NativeCallsDefined == defined

\* Where Locate_Region does not fail in the shim, OpenCV's computation is
\* defined and the check in Ada accepts the result.
LocateNeverSurprises ==
    roi_geometry_preflight(header) => locateROI_defined(header) /\ Checked_Region_Location(header)

\* A nonempty window is located in the matrix it was cut from, at the place
\* of its first element, whatever was cut and moved before.
LocatesItsParent ==
    ~ Is_Empty(header) =>
        LET at == Locate_Region(header)
        IN  /\ roi_geometry_preflight(header)
            /\ at.whole = [height |-> Height, width |-> Width]
            /\ Address(Parent, at.offset.y, at.offset.x) = header.data

\* Reshape keeps the number of rows whatever its native call, which is told
\* "as many as there are", would make of them; Reshape_Rows gives the rows
\* asked for.  Both give the channels asked for and keep the scalars, which
\* rows that were apart cannot give when their number changes.
ReshapeGivesTheShape ==
    [][\A channels \in ChannelCounts :
          /\ Reshape(channels) /\ header' /= header =>
                header'.rows = header.rows /\ header'.channels = channels
          /\ \A rows \in 1 .. MaxInt :
                Reshape_Rows(channels, rows) /\ header' /= header =>
                   /\ header'.rows = rows /\ header'.channels = channels
                   /\ header'.data = header.data
                   /\ rows * RowWidth(header') = header.rows * RowWidth(header)
                   /\ rows /= header.rows => Is_Continuous(header)]_vars

\* The Ada layer's cancelling of factors accepts a shape exactly when the
\* scalars fill it and its rows can be counted in an int.
ReshapeAcceptsExactly ==
    \A channels \in ChannelCounts, rows \in 1 .. MaxInt :
        LET scalars == header.rows * RowWidth(header)
        IN  Validate_Reshape_Shape(header, channels, rows)
            <=> /\ scalars % (rows * channels) = 0
                /\ scalars \div (rows * channels) <= MaxInt

\* The window of a view over its parent.
WindowOf(h) ==
    IF Is_Empty(h)
    THEN Nothing
    ELSE [top |-> OffsetY(h), bottom |-> OffsetY(h) + h.rows,
          left |-> OffsetX(h), right |-> OffsetX(h) + h.cols]

Promise == INSTANCE Window WITH window <- WindowOf(header)

\* An adjustment that is accepted moves each edge of the window by its own
\* distance, and none with a result is rejected while its edges fit an int.
AdjustsAsPromised ==
    \A top, bottom, left, right \in Adjustments :
        ~ Is_Empty(header) =>
            LET moved == Promise!Moved(WindowOf(header), top, bottom, left, right)
                accepted == mat_adjust_roi_accepts(header, top, bottom, left, right)
            IN  /\ accepted =>
                      WindowOf(mat_adjust_roi(header, top, bottom, left, right)) = moved
                /\ moved /= Nothing =>
                      (accepted <=> roi_adjustment_preflight(header, top, bottom, left, right))

\* Regions and adjustments implement a window over the parent.
KeepsWindow == Promise!Spec
==============================================================================
