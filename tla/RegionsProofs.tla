---------------------------- MODULE RegionsProofs ----------------------------
(***************************************************************************)
(* Theorems about windows of a matrix: what Region, the row and column     *)
(* views and Adjust_Region do to a header, and about diagonals and         *)
(* reshapes, for matrices of every size.                                   *)
(*                                                                         *)
(* The header holds a position, a product of rows and columns with         *)
(* distances; for windows the invariant says which row and column it is,   *)
(* and the arithmetic below shows that division finds them again.  For     *)
(* diagonals and reshapes it says where the header ends.                   *)
(***************************************************************************)
EXTENDS Regions, WellFoundedInduction, TLAPS

(***************************************************************************)
(* Arithmetic.                                                             *)
(***************************************************************************)
\* Quotient and remainder.
LEMMA Division ==
    ASSUME NEW n \in Nat, NEW d \in Nat \ {0}
    PROVE  /\ n = (n \div d) * d + (n % d)
           /\ n % d \in 0 .. d - 1
           /\ n \div d \in Nat
  OBVIOUS

\* A product grows with its factor, by at least the other one.
LEMMA Grows ==
    ASSUME NEW a \in Int, NEW b \in Int, NEW d \in Nat
    PROVE  /\ a <= b => a * d <= b * d
           /\ a < b => a * d + d <= b * d
  OBVIOUS

\* Products distribute over sums and differences.
LEMMA Distributes ==
    ASSUME NEW a \in Int, NEW b \in Int, NEW d \in Int
    PROVE  /\ (a + b) * d = a * d + b * d
           /\ (a - b) * d = a * d - b * d
           /\ a * d \in Int
  OBVIOUS

\* A position is one row and one place in it.
LEMMA DivisionFindsRow ==
    ASSUME NEW q \in Nat, NEW d \in Nat \ {0}, NEW r \in 0 .. d - 1
    PROVE  (q * d + r) \div d = q /\ (q * d + r) % d = r
  <1> DEFINE n == q * d + r
             p == n \div d
             s == n % d
  <1>1. n \in Nat
    OBVIOUS
  <1>2. n = p * d + s /\ s \in 0 .. d - 1 /\ p \in Nat
    BY <1>1, Division
  <1>3. ~ (q < p)
    <2>1. q < p => q * d + d <= p * d
      BY <1>2, Grows
    <2> HIDE DEF p, s
    <2> QED BY <1>2, <2>1, q * d \in Int, p * d \in Int
  <1>4. ~ (p < q)
    <2>1. p < q => p * d + d <= q * d
      BY <1>2, Grows
    <2> HIDE DEF p, s
    <2> QED BY <1>2, <2>1, q * d \in Int, p * d \in Int
  <1>5. p = q
    <2> HIDE DEF p
    <2> QED BY <1>2, <1>3, <1>4
  <1>6. s = r
    <2> HIDE DEF p, s
    <2> QED BY <1>2, <1>5, q * d \in Int
  <1> QED BY <1>5, <1>6

(***************************************************************************)
(* Where a header is.                                                      *)
(***************************************************************************)
RowStep == Width * Channels    \* the distance of rows of the parent

\* A nonempty window at a row and a column of the parent.
Placed(h, row, col) ==
    /\ row \in Nat /\ col \in Nat
    /\ h = Header(row * RowStep + col * Channels, h.rows, h.cols, RowStep, Channels)
    /\ h.rows \in Nat \ {0} /\ h.cols \in Nat \ {0}
    /\ row + h.rows <= Height /\ col + h.cols <= Width

\* A window without elements.
Emptied(h) ==
    /\ h \in [data : 0 .. Span, rows : 0 .. Height, cols : 0 .. Width,
              step : Nat, channels : {Channels}]
    /\ Is_Empty(h)

Somewhere(h) == Emptied(h) \/ \E row, col \in Nat : Placed(h, row, col)

IInv == defined = TRUE /\ Somewhere(header)

LEMMA Sizes ==
    /\ Width \in Nat \ {0} /\ Height \in Nat \ {0} /\ Channels \in Nat \ {0}
    /\ RowStep \in Nat \ {0} /\ Span \in Nat
    /\ Span = Height * RowStep
    /\ Span = (Height - 1) * RowStep + RowStep
    /\ Channels <= RowStep
  <1>1. Width \in Nat \ {0} /\ Height \in Nat \ {0} /\ Channels \in Nat \ {0}
    BY GeometryAssumption
  <1>2. RowStep \in Nat \ {0} /\ Channels <= RowStep
    <2>1. 1 * Channels <= Width * Channels
      BY <1>1, Grows
    <2> QED BY <1>1, <2>1 DEF RowStep
  <1>3. Span = Height * RowStep
    BY <1>1 DEF Span, RowStep
  <1>4. Height * RowStep = (Height - 1) * RowStep + RowStep
    BY <1>1, <1>2
  <1> QED BY <1>1, <1>2, <1>3, <1>4

\* The place of a window is inside a row, and the row is inside the matrix.
LEMMA PlaceInside ==
    ASSUME NEW h, NEW row \in Nat, NEW col \in Nat, Placed(h, row, col)
    PROVE  /\ col * Channels \in 0 .. RowStep - Channels
           /\ (col + h.cols) * Channels \in Channels .. RowStep
           /\ (col + h.cols) * Channels = col * Channels + h.cols * Channels
           /\ row * RowStep \in 0 .. Span - RowStep
           /\ (row + h.rows) * RowStep <= Span
           /\ (row + h.rows) * RowStep = row * RowStep + h.rows * RowStep
  <1>1. h.rows \in Nat \ {0} /\ h.cols \in Nat \ {0} /\ row + h.rows <= Height /\ col + h.cols <= Width
    BY DEF Placed
  <1>2. col * Channels \in Nat /\ row * RowStep \in Nat
    BY Sizes
  <1>3. col * Channels + Channels <= Width * Channels
    BY <1>1, Sizes, Grows, col < Width
  <1>4. (col + h.cols) * Channels <= Width * Channels
    BY <1>1, Sizes, Grows, col + h.cols \in Int
  <1>5. 1 * Channels <= (col + h.cols) * Channels
    BY <1>1, Sizes, Grows, 1 <= col + h.cols, col + h.cols \in Int
  <1>6. row * RowStep + RowStep <= Height * RowStep
    BY <1>1, Sizes, Grows, row < Height
  <1>7. (row + h.rows) * RowStep <= Height * RowStep
    BY <1>1, Sizes, Grows, row + h.rows \in Int
  <1>8. /\ (col + h.cols) * Channels = col * Channels + h.cols * Channels
        /\ (row + h.rows) * RowStep = row * RowStep + h.rows * RowStep
    BY <1>1, Sizes, Distributes
  <1>9. (col + h.cols) * Channels \in Int /\ (row + h.rows) * RowStep \in Int
    BY <1>1, Sizes
  <1> QED BY <1>2, <1>3, <1>4, <1>5, <1>6, <1>7, <1>8, <1>9, Sizes DEF RowStep

\* locateROI's division finds the row and the column of a window again.
LEMMA OffsetIsPlace ==
    ASSUME NEW h, NEW row \in Nat, NEW col \in Nat, Placed(h, row, col)
    PROVE  OffsetY(h) = row /\ OffsetX(h) = col
  <1>1. h.data = row * RowStep + col * Channels /\ h.step = RowStep /\ h.channels = Channels
    BY DEF Placed, Header
  <1> DEFINE x == col * Channels
  <1>2. x \in 0 .. RowStep - 1
    <2>1. x \in 0 .. RowStep - Channels /\ RowStep \in Nat /\ Channels \in Nat \ {0}
      BY PlaceInside, Sizes
    <2> HIDE DEF x
    <2> QED BY <2>1
  <1>3. h.data \div RowStep = row /\ h.data % RowStep = x
    <2>1. h.data = row * RowStep + x /\ RowStep \in Nat \ {0}
      BY <1>1, Sizes
    <2> HIDE DEF x
    <2>2. (row * RowStep + x) \div RowStep = row /\ (row * RowStep + x) % RowStep = x
      BY <1>2, <2>1, DivisionFindsRow
    <2> QED BY <2>1, <2>2
  <1>4. (col * Channels + 0) \div Channels = col
    BY Sizes, DivisionFindsRow, 0 \in 0 .. Channels - 1
  <1>5. col * Channels + 0 = col * Channels
    BY <1>2
  <1> QED BY <1>1, <1>3, <1>4, <1>5 DEF OffsetY, OffsetX

\* ... and the size of the matrix the window was cut from.
LEMMA WholeIsParent ==
    ASSUME NEW h, NEW row \in Nat, NEW col \in Nat, Placed(h, row, col)
    PROVE  /\ (Span - (OffsetX(h) + h.cols) * h.channels) \div h.step = Height - 1
           /\ WholeHeight(h) = Height /\ WholeWidth(h) = Width
           /\ (Span - h.step * (WholeHeight(h) - 1)) \div h.channels = Width
  <1> DEFINE e == (col + h.cols) * Channels
  <1>1. h.step = RowStep /\ h.channels = Channels
    BY DEF Placed, Header
  <1>2. e \in Channels .. RowStep
    BY PlaceInside
  <1>3. RowStep - e \in 0 .. RowStep - 1
    <2> HIDE DEF e
    <2> QED BY <1>2, Sizes
  <1>4. Span - e = (Height - 1) * RowStep + (RowStep - e)
    <2> HIDE DEF e
    <2> QED BY <1>2, Sizes, (Height - 1) * RowStep \in Int
  <1>5. (Span - e) \div RowStep = Height - 1
    <2> HIDE DEF e
    <2> QED BY <1>3, <1>4, Sizes, DivisionFindsRow, Height - 1 \in Nat
  <1>6. (Span - (OffsetX(h) + h.cols) * h.channels) \div h.step = Height - 1
    BY <1>1, <1>5, OffsetIsPlace
  <1>7. row + h.rows <= Height /\ col + h.cols <= Width /\ h.rows \in Nat /\ h.cols \in Nat
    BY DEF Placed
  <1>8. WholeHeight(h) = Height
    <2>1. Height - 1 + 1 = Height
      BY Sizes
    <2> QED BY <1>6, <1>7, <2>1, OffsetIsPlace, Sizes DEF WholeHeight, Upper
  <1>9. Span - RowStep * (Height - 1) = Width * Channels + 0
    <2>1. RowStep * (Height - 1) = (Height - 1) * RowStep /\ (Height - 1) * RowStep \in Int
      BY Sizes
    <2>2. Span = (Height - 1) * RowStep + RowStep /\ RowStep \in Int
      BY Sizes
    <2>3. Span - (Height - 1) * RowStep = RowStep + 0
      <3>1. ASSUME NEW y \in Int, Span = y + RowStep
            PROVE  Span - y = RowStep + 0
        BY <3>1, <2>2
      <3> QED BY <3>1, <2>1, <2>2
    <2> QED BY <2>1, <2>3 DEF RowStep
  <1>10. (Span - h.step * (WholeHeight(h) - 1)) \div h.channels = Width
    <2>1. (Width * Channels + 0) \div Channels = Width
      BY Sizes, DivisionFindsRow, 0 \in 0 .. Channels - 1
    <2> QED BY <1>1, <1>8, <1>9, <2>1
  <1>11. WholeWidth(h) = Width
    <2>1. WholeWidth(h) = Upper(Width, col + h.cols)
      BY <1>10, OffsetIsPlace DEF WholeWidth
    <2> QED BY <1>7, <2>1, Sizes DEF Upper
  <1> QED BY <1>6, <1>8, <1>10, <1>11

(***************************************************************************)
(* What a placed header promises.                                          *)
(***************************************************************************)

\* The last element, and the last position of a continuous window, are
\* inside the allocation.
LEMMA PlacedElementsInside ==
    ASSUME NEW h, NEW row \in Nat, NEW col \in Nat, Placed(h, row, col)
    PROVE  /\ Address(h, h.rows - 1, h.cols - 1) + h.channels <= Span
           /\ Is_Continuous(h) => h.data + h.rows * h.cols * h.channels <= Span
  <1> DEFINE top == row * RowStep
             left == col * Channels
             down == (row + h.rows) * RowStep
             right == (col + h.cols) * Channels
             tall == h.rows * RowStep
             wide == h.cols * Channels
  <1>1. /\ h.data = top + left /\ h.step = RowStep /\ h.channels = Channels
        /\ h.rows \in Nat \ {0} /\ h.cols \in Nat \ {0} /\ col + h.cols <= Width
    BY DEF Placed, Header
  <1>2. /\ left \in 0 .. RowStep - Channels /\ right \in Channels .. RowStep
        /\ right = left + wide /\ top \in 0 .. Span - RowStep
        /\ down <= Span /\ down = top + tall
    BY PlaceInside
  <1>3. top \in Int /\ left \in Int /\ tall \in Int /\ wide \in Int /\ RowStep \in Nat /\ Span \in Nat
        /\ Channels \in Nat \ {0}
    BY <1>1, Sizes
  <1>4. Address(h, h.rows - 1, h.cols - 1) + h.channels <= Span
    <2>1. (h.rows - 1) * RowStep = tall - RowStep /\ (h.cols - 1) * Channels = wide - Channels
      BY <1>1, Sizes, Distributes
    <2>2. Address(h, h.rows - 1, h.cols - 1) = top + left + (tall - RowStep) + (wide - Channels)
      BY <1>1, <2>1 DEF Address
    <2> HIDE DEF top, left, down, right, tall, wide
    <2> QED BY <1>1, <1>2, <1>3, <2>2
  <1>5. ASSUME Is_Continuous(h) PROVE h.data + h.rows * h.cols * h.channels <= Span
    <2>1. h.rows = 1 \/ RowStep <= wide
      BY <1>1, <1>5 DEF Is_Continuous
    <2>2. h.rows * h.cols * h.channels = h.rows * wide
      BY <1>1, <1>3
    <2>3. CASE h.rows = 1
      <3>1. h.rows * wide = wide
        BY <2>3, <1>3
      <3> HIDE DEF top, left, down, right, tall, wide
      <3> QED BY <1>1, <1>2, <1>3, <2>2, <3>1
    <2>4. CASE RowStep <= wide
      <3>1. wide = RowStep /\ left = 0
        <4> HIDE DEF top, left, down, right, tall, wide
        <4> QED BY <1>2, <1>3, <2>4
      <3>2. h.rows * wide = tall
        BY <3>1
      <3> HIDE DEF top, left, down, right, tall, wide
      <3> QED BY <1>1, <1>2, <1>3, <2>2, <3>1, <3>2
    <2> QED BY <2>1, <2>3, <2>4
  <1> QED BY <1>4, <1>5

(***************************************************************************)
(* What the operations do to a window.                                     *)
(***************************************************************************)
\* A rectangle of a window is a window.
LEMMA RectangleOfPlaced ==
    ASSUME NEW h, NEW row \in Nat, NEW col \in Nat, Placed(h, row, col),
           NEW x \in Nat, NEW y \in Nat, NEW width \in Nat, NEW height \in Nat,
           x + width <= h.cols, y + height <= h.rows
    PROVE  IF width = 0 \/ height = 0
           THEN Emptied(RectMat(h, x, y, width, height))
           ELSE Placed(RectMat(h, x, y, width, height), row + y, col + x)
  <1>1. /\ h.data = row * RowStep + col * Channels /\ h.step = RowStep /\ h.channels = Channels
        /\ h.rows \in Nat \ {0} /\ h.cols \in Nat \ {0}
        /\ row + h.rows <= Height /\ col + h.cols <= Width
    BY DEF Placed, Header
  <1>2. CASE width = 0 \/ height = 0
    BY <1>1, <1>2, Sizes DEF RectMat, View, Released, Header, Emptied, Is_Empty
  <1>3. CASE ~ (width = 0 \/ height = 0)
    <2>1. /\ (row + y) * RowStep = row * RowStep + y * RowStep
          /\ (col + x) * Channels = col * Channels + x * Channels
      BY Sizes, Distributes
    <2>2. h.data + y * h.step + x * h.channels = (row + y) * RowStep + (col + x) * Channels
      <3>1. ASSUME NEW a \in Int, NEW b \in Int, NEW c \in Int, NEW d \in Int
            PROVE  (a + b) + c + d = (a + c) + (b + d)
        OBVIOUS
      <3>2. row * RowStep \in Int /\ col * Channels \in Int /\ y * RowStep \in Int /\ x * Channels \in Int
        BY Sizes
      <3> QED BY <1>1, <2>1, <3>1, <3>2
    <2>3. RectMat(h, x, y, width, height)
            = Header((row + y) * RowStep + (col + x) * Channels, height, width, RowStep, Channels)
      BY <1>1, <1>3, <2>2 DEF RectMat, View, Header
    <2>4. /\ row + y \in Nat /\ col + x \in Nat
          /\ row + y + height <= Height /\ col + x + width <= Width
      <3>1. h.rows \in Nat /\ h.cols \in Nat /\ row + h.rows <= Height /\ col + h.cols <= Width
        BY <1>1
      <3> QED BY <3>1, Sizes
    <2> HIDE DEF RectMat
    <2> QED BY <1>3, <2>3, <2>4 DEF Placed, Header
  <1> QED BY <1>2, <1>3

\* A rectangle of nothing is nothing.
LEMMA RectangleOfEmptied ==
    ASSUME NEW h, Emptied(h), NEW x, NEW y, NEW width \in Nat, NEW height \in Nat,
           width <= h.cols, height <= h.rows
    PROVE  Emptied(RectMat(h, x, y, width, height))
  <1>1. width = 0 \/ height = 0
    BY DEF Emptied, Is_Empty
  <1> QED BY <1>1, Sizes DEF RectMat, View, Released, Header, Emptied, Is_Empty

LEMMA RectangleOfSomewhere ==
    ASSUME NEW h, Somewhere(h),
           NEW x \in Nat, NEW y \in Nat, NEW width \in Nat, NEW height \in Nat,
           x + width <= h.cols, y + height <= h.rows
    PROVE  Somewhere(RectMat(h, x, y, width, height))
  <1>1. CASE Emptied(h)
    <2>1. width <= h.cols /\ height <= h.rows
      BY <1>1 DEF Emptied
    <2> QED BY <1>1, <2>1, RectangleOfEmptied DEF Somewhere
  <1>2. ASSUME NEW row \in Nat, NEW col \in Nat, Placed(h, row, col)
        PROVE  Somewhere(RectMat(h, x, y, width, height))
    <2>1. row + y \in Nat /\ col + x \in Nat
      OBVIOUS
    <2> QED BY <1>2, <2>1, RectangleOfPlaced DEF Somewhere
  <1> QED BY <1>1, <1>2 DEF Somewhere

\* Stopped edges are rows or columns of the parent.
LEMMA ClippedInside ==
    ASSUME NEW edge \in Int, NEW extent \in Nat
    PROVE  Clipped(edge, extent) \in 0 .. extent
  BY DEF Clipped, Lower, Upper

\* The rows and columns an adjustment ends at.
FirstRow(h, top, bottom) == Lower(Row1(h, top), Row2(h, bottom))
LastRow(h, top, bottom) == Upper(Row1(h, top), Row2(h, bottom))
FirstCol(h, left, right) == Lower(Col1(h, left), Col2(h, right))
LastCol(h, left, right) == Upper(Col1(h, left), Col2(h, right))

LEMMA EdgesClipped ==
    ASSUME NEW h, NEW row \in Nat, NEW col \in Nat, Placed(h, row, col),
           NEW top \in Int, NEW bottom \in Int, NEW left \in Int, NEW right \in Int
    PROVE  /\ Row1(h, top) \in 0 .. Height /\ Row2(h, bottom) \in 0 .. Height
           /\ Col1(h, left) \in 0 .. Width /\ Col2(h, right) \in 0 .. Width
  <1>1. h.rows \in Nat /\ h.cols \in Nat
    BY DEF Placed
  <1>2. /\ row - top \in Int /\ row + h.rows + bottom \in Int
        /\ col - left \in Int /\ col + h.cols + right \in Int
    BY <1>1
  <1>3. /\ Row1(h, top) = Clipped(row - top, Height)
        /\ Row2(h, bottom) = Clipped(row + h.rows + bottom, Height)
        /\ Col1(h, left) = Clipped(col - left, Width)
        /\ Col2(h, right) = Clipped(col + h.cols + right, Width)
    BY WholeIsParent, OffsetIsPlace DEF Row1, Row2, Col1, Col2
  <1> QED BY <1>2, <1>3, ClippedInside, GeometryAssumption

LEMMA EdgesInside ==
    ASSUME NEW h, NEW row \in Nat, NEW col \in Nat, Placed(h, row, col),
           NEW top \in Int, NEW bottom \in Int, NEW left \in Int, NEW right \in Int
    PROVE  /\ FirstRow(h, top, bottom) \in 0 .. LastRow(h, top, bottom)
           /\ LastRow(h, top, bottom) \in 0 .. Height
           /\ FirstCol(h, left, right) \in 0 .. LastCol(h, left, right)
           /\ LastCol(h, left, right) \in 0 .. Width
  <1>1. /\ Row1(h, top) \in 0 .. Height /\ Row2(h, bottom) \in 0 .. Height
        /\ Col1(h, left) \in 0 .. Width /\ Col2(h, right) \in 0 .. Width
    BY EdgesClipped
  <1> QED BY <1>1, GeometryAssumption DEF FirstRow, LastRow, FirstCol, LastCol, Lower, Upper

\* An adjustment puts the window where its edges are.
LEMMA AdjustedHeader ==
    ASSUME NEW h, NEW row \in Nat, NEW col \in Nat, Placed(h, row, col),
           NEW top \in Int, NEW bottom \in Int, NEW left \in Int, NEW right \in Int
    PROVE  adjustROI(h, top, bottom, left, right)
             = Header(FirstRow(h, top, bottom) * RowStep + FirstCol(h, left, right) * Channels,
                      LastRow(h, top, bottom) - FirstRow(h, top, bottom),
                      LastCol(h, left, right) - FirstCol(h, left, right), RowStep, Channels)
  <1>1. h.data = row * RowStep + col * Channels /\ h.step = RowStep /\ h.channels = Channels
    BY DEF Placed, Header
  <1>2. ASSUME NEW r \in Int, NEW c \in Int
        PROVE  h.data + (r - row) * RowStep + (c - col) * Channels = r * RowStep + c * Channels
    <2>1. /\ (r - row) * RowStep = r * RowStep - row * RowStep
          /\ (c - col) * Channels = c * Channels - col * Channels
      BY Sizes, Distributes
    <2>2. ASSUME NEW a \in Int, NEW b \in Int, NEW d \in Int, NEW e \in Int
          PROVE  (a + b) + (d - a) + (e - b) = d + e
      OBVIOUS
    <2>3. row * RowStep \in Int /\ col * Channels \in Int /\ r * RowStep \in Int /\ c * Channels \in Int
      BY Sizes
    <2> QED BY <1>1, <2>1, <2>2, <2>3
  <1>3. FirstRow(h, top, bottom) \in Int /\ FirstCol(h, left, right) \in Int
    BY EdgesInside, Sizes
  <1> QED BY <1>1, <1>2, <1>3, OffsetIsPlace
          DEF adjustROI, FirstRow, LastRow, FirstCol, LastCol

LEMMA AdjustedSomewhere ==
    ASSUME NEW h, NEW row \in Nat, NEW col \in Nat, Placed(h, row, col),
           NEW top \in Int, NEW bottom \in Int, NEW left \in Int, NEW right \in Int,
           roi_mat_pointer_preflight(h, top, bottom, left, right)
    PROVE  /\ Somewhere(adjustROI(h, top, bottom, left, right))
           /\ adjustROI(h, top, bottom, left, right).data \in 0 .. Span
  <1> DEFINE r1 == FirstRow(h, top, bottom)
             r2 == LastRow(h, top, bottom)
             c1 == FirstCol(h, left, right)
             c2 == LastCol(h, left, right)
             there == adjustROI(h, top, bottom, left, right)
  <1>1. r1 \in 0 .. r2 /\ r2 \in 0 .. Height /\ c1 \in 0 .. c2 /\ c2 \in 0 .. Width
    BY EdgesInside
  <1>2. there = Header(r1 * RowStep + c1 * Channels, r2 - r1, c2 - c1, RowStep, Channels)
    BY AdjustedHeader
  <1>3. r1 <= Span \div RowStep /\ c1 <= (Span - r1 * RowStep) \div Channels
    BY DEF roi_mat_pointer_preflight, Placed, Header, FirstRow, FirstCol
  <1> HIDE DEF r1, r2, c1, c2, there
  <1>4. r1 \in Nat /\ c1 \in Nat /\ r2 \in Nat /\ c2 \in Nat
    BY <1>1, Sizes
  <1>5. r1 * RowStep \in Nat /\ c1 * Channels \in Nat /\ r1 * RowStep + c1 * Channels \in 0 .. Span
    <2>1. r1 * RowStep <= Height * RowStep
      BY <1>1, <1>4, Sizes, Grows, r1 <= Height
    <2>2. r1 * RowStep \in Nat /\ c1 * Channels \in Nat
      BY <1>4, Sizes
    <2>3. Span - r1 * RowStep \in Nat
      <3>1. ASSUME NEW a \in Nat, a <= Span
            PROVE  Span - a \in Nat
        BY <3>1, Sizes
      <3> QED BY <2>1, <2>2, <3>1, Sizes
    <2>4. c1 * Channels <= Span - r1 * RowStep
      <3>1. ASSUME NEW n \in Nat, c1 <= n \div Channels
            PROVE  c1 * Channels <= n
        <4>1. /\ n \div Channels \in Nat /\ n % Channels \in 0 .. Channels - 1
              /\ n = (n \div Channels) * Channels + (n % Channels)
          BY Division, Sizes
        <4>2. c1 * Channels <= (n \div Channels) * Channels
          BY <1>4, <3>1, <4>1, Sizes, Grows
        <4>3. ASSUME NEW a \in Int, NEW b \in Int, NEW c \in Nat, a <= b, n = b + c
              PROVE  a <= n
          BY <4>3
        <4> QED BY <1>4, <4>1, <4>2, <4>3, Sizes, c1 * Channels \in Int, (n \div Channels) * Channels \in Int
      <3> QED BY <1>3, <2>3, <3>1
    <2>5. ASSUME NEW a \in Nat, NEW b \in Nat, b <= Span - a
          PROVE  a + b \in 0 .. Span
      BY <2>5, Sizes
    <2> QED BY <2>2, <2>4, <2>5
  <1>6. there.data \in 0 .. Span
    BY <1>2, <1>5 DEF Header
  <1>7. ASSUME r1 = r2 \/ c1 = c2 PROVE Somewhere(there)
    <2>1. r2 - r1 \in 0 .. Height /\ c2 - c1 \in 0 .. Width /\ (r2 - r1 = 0 \/ c2 - c1 = 0)
      BY <1>1, <1>4, <1>7, Sizes
    <2>2. RowStep \in Nat
      BY Sizes
    <2> QED BY <1>2, <1>5, <2>1, <2>2 DEF Header, Emptied, Is_Empty, Somewhere
  <1>8. ASSUME ~ (r1 = r2 \/ c1 = c2) PROVE Somewhere(there)
    <2>1. /\ r2 - r1 \in Nat \ {0} /\ c2 - c1 \in Nat \ {0}
          /\ r1 + (r2 - r1) <= Height /\ c1 + (c2 - c1) <= Width
      BY <1>1, <1>4, <1>8, Sizes
    <2>2. Placed(there, r1, c1)
      BY <1>2, <1>4, <2>1 DEF Placed, Header
    <2> QED BY <1>4, <2>2 DEF Somewhere
  <1>9. Somewhere(there)
    BY <1>7, <1>8
  <1> QED BY <1>6, <1>9 DEF there

\* OpenCV's computation is defined when the shim lets it run.
LEMMA AdjustedDefined ==
    ASSUME NEW h, NEW row \in Nat, NEW col \in Nat, Placed(h, row, col),
           NEW top \in Int, NEW bottom \in Int, NEW left \in Int, NEW right \in Int,
           mat_adjust_roi_accepts(h, top, bottom, left, right)
    PROVE  adjustROI_defined(h, top, bottom, left, right)
  <1>1. locateROI_defined(h)
    <2>1. h.step = RowStep /\ h.channels = Channels /\ h.rows \in Nat /\ h.cols \in Nat
          /\ row + h.rows <= Height /\ col + h.cols <= Width
      BY DEF Placed, Header
    <2>2. OffsetX(h) = col /\ OffsetY(h) = row /\ WholeHeight(h) = Height /\ WholeWidth(h) = Width
      BY OffsetIsPlace, WholeIsParent
    <2>3. (col + h.cols) * Channels <= Span
      <3>1. (col + h.cols) * Channels \in Channels .. RowStep
        BY PlaceInside
      <3>2. 1 * RowStep <= Height * RowStep
        BY Sizes, Grows
      <3>3. ASSUME NEW a \in Int, a <= RowStep
            PROVE  a <= Span
        BY <3>2, <3>3, Sizes
      <3> QED BY <3>1, <3>3, Sizes
    <2>4. RowStep * (Height - 1) <= Span
      <3>1. RowStep * (Height - 1) = (Height - 1) * RowStep /\ (Height - 1) * RowStep \in Int
        BY Sizes
      <3>2. ASSUME NEW a \in Int, Span = a + RowStep
            PROVE  a <= Span
        BY <3>2, Sizes
      <3> QED BY <3>1, <3>2, Sizes
    <2>5. /\ FitsInt(col + h.cols) /\ FitsInt(row + h.rows) /\ FitsInt(Height) /\ FitsInt(Width)
      <3>1. ASSUME NEW n \in Nat, n <= MaxInt
            PROVE  FitsInt(n)
        BY <3>1, GeometryAssumption DEF FitsInt
      <3>2. /\ col + h.cols \in Nat /\ row + h.rows \in Nat /\ Height \in Nat /\ Width \in Nat
            /\ col + h.cols <= MaxInt /\ row + h.rows <= MaxInt /\ Height <= MaxInt /\ Width <= MaxInt
        BY <2>1, GeometryAssumption
      <3> QED BY <3>1, <3>2
    <2> QED BY <2>1, <2>2, <2>3, <2>4, <2>5, Sizes DEF locateROI_defined
  <1>2. adjustROI(h, top, bottom, left, right).data \in 0 .. Span
    BY AdjustedSomewhere DEF mat_adjust_roi_accepts
  <1> QED BY <1>1, <1>2 DEF adjustROI_defined, mat_adjust_roi_accepts, roi_adjustment_preflight

(***************************************************************************)
(* The invariant.                                                          *)
(***************************************************************************)
LEMMA SomewhereTyped ==
    ASSUME NEW h, Somewhere(h)
    PROVE  /\ h \in [data : Nat, rows : 0 .. Height, cols : 0 .. Width, step : Nat, channels : {Channels}]
           /\ Is_Empty(h) => Emptied(h)
           /\ ~ Is_Empty(h) => \E row, col \in Nat : Placed(h, row, col)
  <1>1. CASE Emptied(h)
    <2>1. 0 .. Span \subseteq Nat
      BY Sizes
    <2> QED BY <1>1, <2>1 DEF Emptied
  <1>2. ASSUME NEW row \in Nat, NEW col \in Nat, Placed(h, row, col)
        PROVE  /\ h \in [data : Nat, rows : 0 .. Height, cols : 0 .. Width, step : Nat, channels : {Channels}]
               /\ ~ Is_Empty(h)
    <2>1. h.rows \in 0 .. Height /\ h.cols \in 0 .. Width /\ h.rows /= 0 /\ h.cols /= 0
      BY <1>2, GeometryAssumption DEF Placed
    <2>2. row * RowStep + col * Channels \in Nat /\ RowStep \in Nat
      BY Sizes
    <2> QED BY <1>2, <2>1, <2>2 DEF Placed, Header, Is_Empty
  <1> QED BY <1>1, <1>2 DEF Somewhere

LEMMA ParentPlaced == Placed(Parent, 0, 0)
  <1>1. 0 * RowStep + 0 * Channels = 0 /\ Width * Channels = RowStep
    BY Sizes DEF RowStep
  <1> QED BY <1>1, GeometryAssumption DEF Placed, Parent, Header

LEMMA InitIInv == Init => IInv
  BY ParentPlaced DEF Init, IInv, Somewhere

\* A view is a rectangle of the window.
LEMMA ViewKeeps ==
    ASSUME IInv, ViewNext
    PROVE  IInv'
  <1>1. /\ header.rows \in Nat /\ header.cols \in Nat
    BY SomewhereTyped, GeometryAssumption DEF IInv
  <1>2. ASSUME NEW x \in Nat, NEW y \in Nat, NEW width \in Nat, NEW height \in Nat,
               x + width <= header.cols, y + height <= header.rows,
               header' = RectMat(header, x, y, width, height), UNCHANGED defined
        PROVE  IInv'
    BY <1>2, RectangleOfSomewhere DEF IInv
  <1>3. ASSUME NEW x \in Outside(header.cols), NEW y \in Outside(header.rows),
               NEW width \in Lengths(header.cols), NEW height \in Lengths(header.rows),
               Region(x, y, width, height)
        PROVE  IInv'
    <2>1. /\ x \in Nat /\ y \in Nat /\ width \in Nat /\ height \in Nat
          /\ x + width <= header.cols /\ y + height <= header.rows
      BY <1>1, <1>3 DEF Region, Region_Accepts, Outside, Lengths
    <2> QED BY <1>2, <1>3, <2>1 DEF Region
  <1>4. ASSUME NEW row \in Lengths(header.rows), Row_View(row)
        PROVE  IInv'
    <2>1. row \in Nat /\ row + 1 <= header.rows /\ 0 + header.cols <= header.cols
      BY <1>1, <1>4 DEF Row_View, Lengths
    <2> QED BY <1>1, <1>2, <1>4, <2>1 DEF Row_View
  <1>5. ASSUME NEW start \in Lengths(header.rows), NEW stop \in Lengths(header.rows),
               Row_Range_View(start, stop)
        PROVE  IInv'
    <2>1. /\ start \in Nat /\ stop - start \in Nat /\ start + (stop - start) <= header.rows
          /\ 0 + header.cols <= header.cols
      BY <1>1, <1>5 DEF Row_Range_View, Lengths
    <2>2. CASE header' = header
      BY <1>5, <2>2 DEF Row_Range_View, IInv
    <2>3. CASE header' = RectMat(header, 0, start, header.cols, stop - start)
      BY <1>1, <1>2, <1>5, <2>1, <2>3 DEF Row_Range_View
    <2> QED BY <1>5, <2>2, <2>3 DEF Row_Range_View
  <1>6. ASSUME NEW column \in Lengths(header.cols), Column_View(column)
        PROVE  IInv'
    <2>1. column \in Nat /\ column + 1 <= header.cols /\ 0 + header.rows <= header.rows
      BY <1>1, <1>6 DEF Column_View, Lengths
    <2> QED BY <1>1, <1>2, <1>6, <2>1 DEF Column_View
  <1>7. ASSUME NEW start \in Lengths(header.cols), NEW stop \in Lengths(header.cols),
               Column_Range_View(start, stop)
        PROVE  IInv'
    <2>1. /\ start \in Nat /\ stop - start \in Nat /\ start + (stop - start) <= header.cols
          /\ 0 + header.rows <= header.rows
      BY <1>1, <1>7 DEF Column_Range_View, Lengths
    <2>2. CASE header' = header
      BY <1>7, <2>2 DEF Column_Range_View, IInv
    <2>3. CASE header' = RectMat(header, start, 0, stop - start, header.rows)
      BY <1>1, <1>2, <1>7, <2>1, <2>3 DEF Column_Range_View
    <2> QED BY <1>7, <2>2, <2>3 DEF Column_Range_View
  <1>8. ASSUME Assign
        PROVE  IInv'
    BY <1>8, ParentPlaced DEF Assign, IInv, Somewhere
  <1> QED BY <1>3, <1>4, <1>5, <1>6, <1>7, <1>8 DEF ViewNext

LEMMA AdjustKeeps ==
    ASSUME IInv, AdjustNext
    PROVE  IInv'
  <1>1. PICK top \in Adjustments, bottom \in Adjustments, left \in Adjustments, right \in Adjustments :
            Adjust_Region(top, bottom, left, right)
    BY DEF AdjustNext
  <1>2. top \in Int /\ bottom \in Int /\ left \in Int /\ right \in Int
    BY GeometryAssumption
  <1>3. PICK row \in Nat, col \in Nat : Placed(header, row, col)
    BY <1>1, SomewhereTyped DEF IInv, Adjust_Region
  <1>4. Somewhere(adjustROI(header, top, bottom, left, right))
    BY <1>1, <1>2, <1>3, AdjustedSomewhere DEF Adjust_Region, mat_adjust_roi_accepts
  <1>5. adjustROI_defined(header, top, bottom, left, right)
    BY <1>1, <1>2, <1>3, AdjustedDefined DEF Adjust_Region
  <1> QED BY <1>1, <1>4, <1>5 DEF Adjust_Region, mat_adjust_roi, IInv

LEMMA StepIInv == IInv /\ [ViewNext \/ AdjustNext]_vars => IInv'
  <1>1. IInv /\ UNCHANGED vars => IInv'
    BY DEF IInv, vars
  <1> QED BY <1>1, ViewKeeps, AdjustKeeps

\* Windows of the parent are all there is: the invariant the theorems below
\* rest on.
THEOREM AlwaysSomewhere == RegionSpec => []IInv
  BY InitIInv, StepIInv, PTL DEF RegionSpec

(***************************************************************************)
(* The properties.                                                         *)
(***************************************************************************)
\* A header keeps its type: extents that fit an int, a position in the
\* allocation.
THEOREM Typed == RegionSpec => []TypeOK
  <1>1. IInv => TypeOK
    BY SomewhereTyped, GeometryAssumption DEF IInv, TypeOK
  <1> QED BY <1>1, AlwaysSomewhere, PTL

\* Elements of windows are inside the allocation, by row and column and, when
\* the header says it is continuous, by position.
THEOREM ElementsStayInside == RegionSpec => []ElementsInside
  <1>1. IInv => ElementsInside
    BY SomewhereTyped, PlacedElementsInside DEF IInv, ElementsInside
  <1> QED BY <1>1, AlwaysSomewhere, PTL

\* What the shim's preflights let through is defined in OpenCV: no int
\* overflows, no difference wraps, no pointer leaves the allocation.
THEOREM NativeCallsStayDefined == RegionSpec => []NativeCallsDefined
  <1>1. IInv => NativeCallsDefined
    BY DEF IInv, NativeCallsDefined
  <1> QED BY <1>1, AlwaysSomewhere, PTL

\* The preflight accepts every window.
LEMMA PreflightAccepts ==
    ASSUME NEW h, NEW row \in Nat, NEW col \in Nat, Placed(h, row, col)
    PROVE  roi_geometry_preflight(h)
  <1>1. /\ h.step = RowStep /\ h.channels = Channels /\ h.rows \in Nat \ {0} /\ h.cols \in Nat \ {0}
        /\ row + h.rows <= Height /\ col + h.cols <= Width
    BY DEF Placed, Header
  <1>2. OffsetX(h) = col /\ OffsetY(h) = row /\ WholeHeight(h) = Height
    BY OffsetIsPlace, WholeIsParent
  <1>3. h.data <= Span
    <2>1. /\ row * RowStep \in 0 .. Span - RowStep
          /\ col * Channels \in 0 .. RowStep - Channels
      BY PlaceInside
    <2>2. ASSUME NEW a \in 0 .. Span - RowStep, NEW b \in 0 .. RowStep - Channels
          PROVE  a + b <= Span
      BY Sizes
    <2>3. h.data = row * RowStep + col * Channels
      BY DEF Placed, Header
    <2> QED BY <2>1, <2>2, <2>3
  <1>4. row <= MaxInt /\ col <= MaxInt /\ h.rows <= MaxInt - row /\ h.cols <= MaxInt - col
    <2>1. h.rows \in Nat /\ h.cols \in Nat /\ row + h.rows <= Height /\ col + h.cols <= Width
      BY <1>1
    <2> QED BY <2>1, GeometryAssumption
  <1>5. col + h.cols <= Span \div Channels
    <2>1. Span = (Width * Height) * Channels + 0 /\ Width * Height \in Nat
      BY Sizes DEF Span
    <2>2. ((Width * Height) * Channels + 0) \div Channels = Width * Height
      BY <2>1, Sizes, DivisionFindsRow, 0 \in 0 .. Channels - 1
    <2>3. Width <= Width * Height
      <3>1. 1 * Width <= Height * Width
        BY Sizes, Grows
      <3> QED BY <3>1, Sizes
    <2>4. ASSUME NEW n \in Nat, Width <= n
          PROVE  col + h.cols <= n
      BY <1>1, <2>4, GeometryAssumption
    <2> QED BY <2>1, <2>2, <2>3, <2>4
  <1>6. (Span - (OffsetX(h) + h.cols) * h.channels) \div h.step < MaxInt
    BY WholeIsParent, GeometryAssumption
  <1>7. WholeHeight(h) - 1 <= Span \div h.step
    <2>1. (Height * RowStep + 0) \div RowStep = Height
      BY Sizes, DivisionFindsRow, 0 \in 0 .. RowStep - 1
    <2>2. Span = Height * RowStep + 0
      BY Sizes
    <2> QED BY <1>1, <1>2, <2>1, <2>2, GeometryAssumption
  <1>8. (Span - (WholeHeight(h) - 1) * h.step) \div h.channels <= MaxInt
    <2>1. (WholeHeight(h) - 1) * h.step = h.step * (WholeHeight(h) - 1)
      BY <1>1, <1>2, Sizes
    <2> QED BY <2>1, WholeIsParent, GeometryAssumption
  <1>9. ~ Is_Empty(h) /\ h.step > 0
    BY <1>1, Sizes DEF Is_Empty
  <1> QED BY <1>1, <1>2, <1>3, <1>4, <1>5, <1>6, <1>7, <1>8, <1>9 DEF roi_geometry_preflight

\* Whatever was cut and moved before, Locate_Region finds the matrix a window
\* came from and the place of its first element.
THEOREM LocatesParent == RegionSpec => []LocatesItsParent
  <1>1. ASSUME NEW row \in Nat, NEW col \in Nat, Placed(header, row, col)
        PROVE  LocatesItsParent
    <2>1. roi_geometry_preflight(header)
      BY <1>1, PreflightAccepts
    <2>2. /\ OffsetX(header) = col /\ OffsetY(header) = row
          /\ WholeHeight(header) = Height /\ WholeWidth(header) = Width
      BY <1>1, OffsetIsPlace, WholeIsParent
    <2>3. Address(Parent, row, col) = header.data
      <3>1. 0 + row * RowStep + col * Channels = row * RowStep + col * Channels
        <4>1. ASSUME NEW a \in Int, NEW b \in Int PROVE 0 + a + b = a + b
          OBVIOUS
        <4> QED BY <4>1, Sizes, row * RowStep \in Int, col * Channels \in Int
      <3> QED BY <1>1, <3>1 DEF Placed, Address, Parent, Header, RowStep
    <2> QED BY <2>1, <2>2, <2>3 DEF LocatesItsParent, Locate_Region
  <1>2. IInv => LocatesItsParent
    <2>1. CASE Is_Empty(header)
      BY <2>1 DEF LocatesItsParent
    <2>2. CASE ~ Is_Empty(header)
      BY <1>1, <2>2, SomewhereTyped DEF IInv
    <2> QED BY <2>1, <2>2
  <1> QED BY <1>2, AlwaysSomewhere, PTL

(***************************************************************************)
(* The abstract window.                                                    *)
(***************************************************************************)
LEMMA StopsAtBorder ==
    ASSUME NEW edge \in Int, NEW extent \in Nat
    PROVE  Promise!Stopped(edge, extent) = Clipped(edge, extent)
  BY DEF Promise!Stopped, Clipped, Lower, Upper

LEMMA WindowOfPlaced ==
    ASSUME NEW h, NEW row \in Nat, NEW col \in Nat, Placed(h, row, col)
    PROVE  /\ WindowOf(h) = [top |-> row, bottom |-> row + h.rows, left |-> col, right |-> col + h.cols]
           /\ ~ Is_Empty(h)
  <1>1. ~ Is_Empty(h)
    BY DEF Placed, Is_Empty
  <1> QED BY <1>1, OffsetIsPlace DEF WindowOf

LEMMA ParentIsWhole == WindowOf(Parent) = Promise!Whole
  <1>1. Parent.rows = Height /\ Parent.cols = Width
    BY DEF Parent, Header
  <1>2. WindowOf(Parent) = [top |-> 0, bottom |-> 0 + Height, left |-> 0, right |-> 0 + Width]
    BY <1>1, ParentPlaced, WindowOfPlaced
  <1> QED BY <1>2, GeometryAssumption DEF Promise!Whole

\* The adjusted header is at the window whose edges were moved.
LEMMA AdjustedWindow ==
    ASSUME NEW h, NEW row \in Nat, NEW col \in Nat, Placed(h, row, col),
           NEW top \in Int, NEW bottom \in Int, NEW left \in Int, NEW right \in Int
    PROVE  WindowOf(adjustROI(h, top, bottom, left, right))
             = Promise!Moved(WindowOf(h), top, bottom, left, right)
  <1> DEFINE r1 == FirstRow(h, top, bottom)
             r2 == LastRow(h, top, bottom)
             c1 == FirstCol(h, left, right)
             c2 == LastCol(h, left, right)
             there == adjustROI(h, top, bottom, left, right)
  <1>1. /\ Row1(h, top) = Clipped(row - top, Height)
        /\ Row2(h, bottom) = Clipped(row + h.rows + bottom, Height)
        /\ Col1(h, left) = Clipped(col - left, Width)
        /\ Col2(h, right) = Clipped(col + h.cols + right, Width)
    BY WholeIsParent, OffsetIsPlace DEF Row1, Row2, Col1, Col2
  <1>2. /\ Row1(h, top) \in 0 .. Height /\ Row2(h, bottom) \in 0 .. Height
        /\ Col1(h, left) \in 0 .. Width /\ Col2(h, right) \in 0 .. Width
    BY EdgesClipped
  <1>3. h.rows \in Nat /\ h.cols \in Nat
    BY DEF Placed
  <1>4. /\ Promise!Stopped(WindowOf(h).top - top, Height) = Row1(h, top)
        /\ Promise!Stopped(WindowOf(h).bottom + bottom, Height) = Row2(h, bottom)
        /\ Promise!Stopped(WindowOf(h).left - left, Width) = Col1(h, left)
        /\ Promise!Stopped(WindowOf(h).right + right, Width) = Col2(h, right)
    <2>1. /\ Promise!Stopped(row - top, Height) = Clipped(row - top, Height)
          /\ Promise!Stopped(row + h.rows + bottom, Height) = Clipped(row + h.rows + bottom, Height)
          /\ Promise!Stopped(col - left, Width) = Clipped(col - left, Width)
          /\ Promise!Stopped(col + h.cols + right, Width) = Clipped(col + h.cols + right, Width)
      <3>1. /\ row - top \in Int /\ row + h.rows + bottom \in Int
            /\ col - left \in Int /\ col + h.cols + right \in Int
        BY <1>3
      <3> QED BY <3>1, StopsAtBorder, GeometryAssumption
    <2>2. /\ WindowOf(h).top = row /\ WindowOf(h).bottom = row + h.rows
          /\ WindowOf(h).left = col /\ WindowOf(h).right = col + h.cols
      BY WindowOfPlaced
    <2> QED BY <1>1, <2>1, <2>2
  <1>5. Promise!Moved(WindowOf(h), top, bottom, left, right)
          = IF Row1(h, top) = Row2(h, bottom) \/ Col1(h, left) = Col2(h, right)
            THEN Nothing
            ELSE [top |-> r1, bottom |-> r2, left |-> c1, right |-> c2]
    BY <1>4 DEF Promise!Moved, Promise!Between, Promise!Lower, Promise!Upper, Lower, Upper,
                FirstRow, LastRow, FirstCol, LastCol
  <1>6. there = Header(r1 * RowStep + c1 * Channels, r2 - r1, c2 - c1, RowStep, Channels)
    BY AdjustedHeader
  <1>7. r1 \in 0 .. r2 /\ r2 \in 0 .. Height /\ c1 \in 0 .. c2 /\ c2 \in 0 .. Width
    BY EdgesInside
  <1>8. /\ Row1(h, top) = Row2(h, bottom) <=> r1 = r2
        /\ Col1(h, left) = Col2(h, right) <=> c1 = c2
    <2>1. /\ Row1(h, top) \in Int /\ Row2(h, bottom) \in Int
          /\ Col1(h, left) \in Int /\ Col2(h, right) \in Int
      BY <1>2, GeometryAssumption
    <2> QED BY <2>1 DEF FirstRow, LastRow, FirstCol, LastCol, Lower, Upper
  <1> HIDE DEF r1, r2, c1, c2, there
  <1>9. ASSUME r1 = r2 \/ c1 = c2 PROVE WindowOf(there) = Nothing
    <2>1. r2 - r1 = 0 \/ c2 - c1 = 0
      BY <1>7, <1>9, GeometryAssumption
    <2> QED BY <1>6, <2>1 DEF WindowOf, Is_Empty, Header
  <1>10. ASSUME ~ (r1 = r2 \/ c1 = c2)
        PROVE  WindowOf(there) = [top |-> r1, bottom |-> r2, left |-> c1, right |-> c2]
    <2>1. /\ r1 \in Nat /\ c1 \in Nat
          /\ r2 - r1 \in Nat \ {0} /\ c2 - c1 \in Nat \ {0}
          /\ r1 + (r2 - r1) = r2 /\ c1 + (c2 - c1) = c2
          /\ r2 <= Height /\ c2 <= Width
      BY <1>7, <1>10, GeometryAssumption
    <2>2. Placed(there, r1, c1)
      BY <1>6, <2>1 DEF Placed, Header
    <2>3. there.rows = r2 - r1 /\ there.cols = c2 - c1
      BY <1>6 DEF Header
    <2> QED BY <2>1, <2>2, <2>3, WindowOfPlaced
  <1> QED BY <1>5, <1>8, <1>9, <1>10 DEF there

\* A pointer to a result with elements is in the allocation.
LEMMA PointerAccepts ==
    ASSUME NEW h, NEW row \in Nat, NEW col \in Nat, Placed(h, row, col),
           NEW top \in Int, NEW bottom \in Int, NEW left \in Int, NEW right \in Int,
           FirstRow(h, top, bottom) /= LastRow(h, top, bottom)
    PROVE  roi_mat_pointer_preflight(h, top, bottom, left, right)
  <1> DEFINE r == FirstRow(h, top, bottom)
             c == FirstCol(h, left, right)
  <1>1. r \in Nat /\ c \in Nat /\ r < Height /\ c <= Width
    BY EdgesInside, GeometryAssumption
  <1> HIDE DEF r, c
  <1>2. r <= Span \div RowStep
    <2>1. (Height * RowStep + 0) \div RowStep = Height
      BY Sizes, DivisionFindsRow, 0 \in 0 .. RowStep - 1
    <2>2. Span = Height * RowStep + 0
      BY Sizes
    <2> QED BY <1>1, <2>1, <2>2, GeometryAssumption
  <1>3. c <= (Span - r * RowStep) \div Channels
    <2>1. r * RowStep \in Nat /\ r * RowStep + RowStep <= Span
      BY <1>1, Sizes, Grows
    <2>2. Span - r * RowStep \in Nat /\ RowStep <= Span - r * RowStep
      <3>1. ASSUME NEW a \in Nat, a + RowStep <= Span
            PROVE  Span - a \in Nat /\ RowStep <= Span - a
        BY <3>1, Sizes
      <3> QED BY <2>1, <3>1
    <2>3. ASSUME NEW n \in Nat, RowStep <= n
          PROVE  Width <= n \div Channels
      <3>1. /\ n \div Channels \in Nat /\ n % Channels \in 0 .. Channels - 1
            /\ n = (n \div Channels) * Channels + (n % Channels)
        BY Division, Sizes
      <3>2. n \div Channels < Width => (n \div Channels) * Channels + Channels <= Width * Channels
        BY <3>1, Sizes, Grows
      <3>3. ASSUME NEW a \in Int, NEW b \in 0 .. Channels - 1, n = a + b, a + Channels <= RowStep
            PROVE  FALSE
        BY <2>3, <3>3, Sizes
      <3>4. ~ (n \div Channels < Width)
        BY <3>1, <3>2, <3>3, Sizes, (n \div Channels) * Channels \in Int DEF RowStep
      <3> QED BY <3>1, <3>4, Sizes
    <2>4. Width <= (Span - r * RowStep) \div Channels
      BY <2>2, <2>3
    <2>5. (Span - r * RowStep) \div Channels \in Nat
      BY <2>2, Division, Sizes
    <2> QED BY <1>1, <2>4, <2>5, GeometryAssumption
  <1> QED BY <1>2, <1>3 DEF roi_mat_pointer_preflight, Placed, Header, FirstRow, FirstCol, r, c

\* Adjust_Region moves each edge by its own distance, and rejects no result
\* with elements whose edges fit an int.
THEOREM AdjustsByTheEdges == RegionSpec => []AdjustsAsPromised
  <1>1. ASSUME IInv, ~ Is_Empty(header),
               NEW top \in Adjustments, NEW bottom \in Adjustments,
               NEW left \in Adjustments, NEW right \in Adjustments
        PROVE  LET moved == Promise!Moved(WindowOf(header), top, bottom, left, right)
                   accepted == mat_adjust_roi_accepts(header, top, bottom, left, right)
               IN  /\ accepted =>
                         WindowOf(mat_adjust_roi(header, top, bottom, left, right)) = moved
                   /\ moved /= Nothing =>
                         (accepted <=> roi_adjustment_preflight(header, top, bottom, left, right))
    <2> DEFINE moved == Promise!Moved(WindowOf(header), top, bottom, left, right)
    <2>1. PICK row \in Nat, col \in Nat : Placed(header, row, col)
      BY <1>1, SomewhereTyped DEF IInv
    <2>2. top \in Int /\ bottom \in Int /\ left \in Int /\ right \in Int
      BY GeometryAssumption
    <2>3. WindowOf(adjustROI(header, top, bottom, left, right)) = moved
      BY <2>1, <2>2, AdjustedWindow
    <2>4. ASSUME moved /= Nothing
          PROVE  FirstRow(header, top, bottom) /= LastRow(header, top, bottom)
      <3> DEFINE r1 == FirstRow(header, top, bottom)
                 r2 == LastRow(header, top, bottom)
      <3>1. ~ Is_Empty(adjustROI(header, top, bottom, left, right))
        BY <2>3, <2>4 DEF WindowOf
      <3>2. adjustROI(header, top, bottom, left, right).rows = r2 - r1
        BY <2>1, <2>2, AdjustedHeader DEF Header
      <3>3. r1 \in Int /\ r2 \in Int
        BY <2>1, <2>2, EdgesInside, GeometryAssumption
      <3> HIDE DEF r1, r2
      <3>4. r1 /= r2
        BY <3>1, <3>2, <3>3 DEF Is_Empty
      <3> QED BY <3>4 DEF r1, r2
    <2>5. moved /= Nothing => roi_mat_pointer_preflight(header, top, bottom, left, right)
      BY <2>1, <2>2, <2>4, PointerAccepts
    <2>6. roi_geometry_preflight(header)
      BY <2>1, PreflightAccepts
    <2> QED BY <2>3, <2>5, <2>6 DEF mat_adjust_roi, mat_adjust_roi_accepts
  <1>2. IInv => AdjustsAsPromised
    BY <1>1 DEF AdjustsAsPromised
  <1> QED BY <1>2, AlwaysSomewhere, PTL

\* A window of a window is a window inside it.
LEMMA RectangleNarrows ==
    ASSUME IInv, NEW x \in Nat, NEW y \in Nat, NEW width \in Nat, NEW height \in Nat,
           x + width <= header.cols, y + height <= header.rows,
           header' = RectMat(header, x, y, width, height)
    PROVE  [Promise!Next]_(WindowOf(header))
  <1>1. WindowOf(header)' = WindowOf(header')
    BY DEF WindowOf, Is_Empty, OffsetX, OffsetY
  <1>2. CASE Is_Empty(header)
    <2>1. Emptied(header)
      BY <1>2, SomewhereTyped DEF IInv
    <2>2. width <= header.cols /\ height <= header.rows
      <3>1. header.rows \in Nat /\ header.cols \in Nat
        BY SomewhereTyped, GeometryAssumption DEF IInv
      <3> QED BY <3>1
    <2>3. Is_Empty(header')
      BY <2>1, <2>2, RectangleOfEmptied DEF Emptied
    <2>4. WindowOf(header) = Nothing /\ WindowOf(header') = Nothing
      BY <1>2, <2>3 DEF WindowOf
    <2> QED BY <1>1, <2>4
  <1>3. CASE ~ Is_Empty(header)
    <2>1. PICK row \in Nat, col \in Nat : Placed(header, row, col)
      BY <1>3, SomewhereTyped DEF IInv
    <2>2. /\ header.rows \in Nat \ {0} /\ header.cols \in Nat \ {0}
          /\ row + header.rows <= Height /\ col + header.cols <= Width
      BY <2>1 DEF Placed
    <2>3. WindowOf(header) = [top |-> row, bottom |-> row + header.rows,
                              left |-> col, right |-> col + header.cols]
      BY <2>1, WindowOfPlaced
    <2>4. WindowOf(header) /= Nothing
      BY <2>2, <2>3, GeometryAssumption
    <2>5. CASE width = 0 \/ height = 0
      <3>1. Emptied(header')
        BY <2>1, <2>5, RectangleOfPlaced
      <3>2. WindowOf(header') = Nothing
        BY <3>1 DEF WindowOf, Emptied
      <3> QED BY <1>1, <2>4, <3>2 DEF Promise!Next, Promise!Narrow
    <2>6. CASE ~ (width = 0 \/ height = 0)
      <3>1. Placed(header', row + y, col + x)
        BY <2>1, <2>6, RectangleOfPlaced
      <3>2. header'.rows = height /\ header'.cols = width
        BY <2>6 DEF RectMat, View, Header
      <3>3. WindowOf(header') = [top |-> row + y, bottom |-> row + y + height,
                                 left |-> col + x, right |-> col + x + width]
        <4>1. row + y \in Nat /\ col + x \in Nat
          OBVIOUS
        <4> QED BY <3>1, <3>2, <4>1, WindowOfPlaced
      <3>4. WindowOf(header') \in Promise!Windows
        BY <2>2, <2>6, <3>3, GeometryAssumption DEF Promise!Windows
      <3>5. Promise!Within(WindowOf(header'), WindowOf(header))
        BY <2>2, <2>3, <3>3 DEF Promise!Within
      <3> QED BY <1>1, <2>4, <3>4, <3>5 DEF Promise!Next, Promise!Narrow
    <2> QED BY <2>5, <2>6
  <1> QED BY <1>2, <1>3

LEMMA ViewNarrows ==
    ASSUME IInv, ViewNext
    PROVE  [Promise!Next]_(WindowOf(header))
  <1>1. header.rows \in Nat /\ header.cols \in Nat
    BY SomewhereTyped, GeometryAssumption DEF IInv
  <1>2. ASSUME header' = header
        PROVE  [Promise!Next]_(WindowOf(header))
    BY <1>2 DEF WindowOf, Is_Empty, OffsetX, OffsetY
  <1>3. ASSUME NEW x \in Outside(header.cols), NEW y \in Outside(header.rows),
               NEW width \in Lengths(header.cols), NEW height \in Lengths(header.rows),
               Region(x, y, width, height)
        PROVE  [Promise!Next]_(WindowOf(header))
    <2>1. /\ x \in Nat /\ y \in Nat /\ width \in Nat /\ height \in Nat
          /\ x + width <= header.cols /\ y + height <= header.rows
      BY <1>1, <1>3 DEF Region, Region_Accepts, Outside, Lengths
    <2> QED BY <1>3, <2>1, RectangleNarrows DEF Region
  <1>4. ASSUME NEW row \in Lengths(header.rows), Row_View(row)
        PROVE  [Promise!Next]_(WindowOf(header))
    <2>1. row \in Nat /\ row + 1 <= header.rows /\ 0 + header.cols <= header.cols
      BY <1>1, <1>4 DEF Row_View, Lengths
    <2> QED BY <1>1, <1>4, <2>1, RectangleNarrows DEF Row_View
  <1>5. ASSUME NEW start \in Lengths(header.rows), NEW stop \in Lengths(header.rows),
               Row_Range_View(start, stop)
        PROVE  [Promise!Next]_(WindowOf(header))
    <2>1. /\ start \in Nat /\ stop - start \in Nat /\ start + (stop - start) <= header.rows
          /\ 0 + header.cols <= header.cols
      BY <1>1, <1>5 DEF Row_Range_View, Lengths
    <2>2. CASE header' = RectMat(header, 0, start, header.cols, stop - start)
      BY <1>1, <2>1, <2>2, RectangleNarrows
    <2> QED BY <1>2, <1>5, <2>2 DEF Row_Range_View
  <1>6. ASSUME NEW column \in Lengths(header.cols), Column_View(column)
        PROVE  [Promise!Next]_(WindowOf(header))
    <2>1. column \in Nat /\ column + 1 <= header.cols /\ 0 + header.rows <= header.rows
      BY <1>1, <1>6 DEF Column_View, Lengths
    <2> QED BY <1>1, <1>6, <2>1, RectangleNarrows DEF Column_View
  <1>7. ASSUME NEW start \in Lengths(header.cols), NEW stop \in Lengths(header.cols),
               Column_Range_View(start, stop)
        PROVE  [Promise!Next]_(WindowOf(header))
    <2>1. /\ start \in Nat /\ stop - start \in Nat /\ start + (stop - start) <= header.cols
          /\ 0 + header.rows <= header.rows
      BY <1>1, <1>7 DEF Column_Range_View, Lengths
    <2>2. CASE header' = RectMat(header, start, 0, stop - start, header.rows)
      BY <1>1, <2>1, <2>2, RectangleNarrows
    <2> QED BY <1>2, <1>7, <2>2 DEF Column_Range_View
  <1>8. ASSUME Assign
        PROVE  [Promise!Next]_(WindowOf(header))
    <2>1. WindowOf(header)' = WindowOf(Parent)
      BY <1>8 DEF Assign, WindowOf, Is_Empty, OffsetX, OffsetY
    <2> QED BY <2>1, ParentIsWhole DEF Promise!Next, Promise!Assign
  <1> QED BY <1>3, <1>4, <1>5, <1>6, <1>7, <1>8 DEF ViewNext

LEMMA AdjustMoves ==
    ASSUME IInv, AdjustNext
    PROVE  [Promise!Next]_(WindowOf(header))
  <1>1. PICK top \in Adjustments, bottom \in Adjustments, left \in Adjustments, right \in Adjustments :
            Adjust_Region(top, bottom, left, right)
    BY DEF AdjustNext
  <1>2. top \in Int /\ bottom \in Int /\ left \in Int /\ right \in Int
    BY GeometryAssumption
  <1>3. PICK row \in Nat, col \in Nat : Placed(header, row, col)
    BY <1>1, SomewhereTyped DEF IInv, Adjust_Region
  <1>4. WindowOf(header)' = WindowOf(header')
    BY DEF WindowOf, Is_Empty, OffsetX, OffsetY
  <1>5. WindowOf(header') = Promise!Moved(WindowOf(header), top, bottom, left, right)
    BY <1>1, <1>2, <1>3, AdjustedWindow DEF Adjust_Region, mat_adjust_roi
  <1>6. WindowOf(header) /= Nothing
    <2>1. WindowOf(header) = [top |-> row, bottom |-> row + header.rows,
                              left |-> col, right |-> col + header.cols]
      BY <1>3, WindowOfPlaced
    <2>2. header.rows \in Nat /\ header.cols \in Nat
      BY <1>3 DEF Placed
    <2> QED BY <2>1, <2>2, GeometryAssumption
  <1> QED BY <1>4, <1>5, <1>6 DEF Promise!Next, Promise!Adjust

\* Regions, row and column views and adjustments implement a window over the
\* matrix they were first cut from.
THEOREM ImplementsWindow == RegionSpec => KeepsWindow
  <1>1. Init => Promise!Init
    BY ParentIsWhole DEF Init, Promise!Init
  <1>2. IInv /\ [ViewNext \/ AdjustNext]_vars => [Promise!Next]_(WindowOf(header))
    <2>1. UNCHANGED vars => UNCHANGED WindowOf(header)
      BY DEF vars, WindowOf, Is_Empty, OffsetX, OffsetY
    <2> QED BY <2>1, ViewNarrows, AdjustMoves
  <1> QED BY <1>1, <1>2, AlwaysSomewhere, PTL DEF RegionSpec, KeepsWindow, Promise!Spec

(***************************************************************************)
(* Views that change the distance of rows: diagonals and reshapes.  The    *)
(* place in the parent is lost, so what is kept is only that a header ends *)
(* inside the allocation (VInv).                                           *)
(***************************************************************************)
HeaderTyped(h) ==
    h \in [data : Nat, rows : Nat, cols : Nat, step : Nat, channels : Nat \ {0}]

\* A header ends inside the allocation, and its rows do not meet.
Ends(data, rows, width, step) ==
    /\ rows \in Nat \ {0} /\ width \in Nat \ {0}
    /\ width <= step
    /\ data + (rows - 1) * step + width <= Span

Inside(h) ==
    /\ HeaderTyped(h)
    /\ \/ h.rows = 0 /\ h.cols = 0
       \/ h.cols \in Nat \ {0} /\ Ends(h.data, h.rows, RowWidth(h), h.step)

VInv == Inside(header)

LEMMA Factors ==
    ASSUME NEW a \in Nat \ {0}, NEW b \in Nat \ {0}
    PROVE  a * b \in Nat \ {0} /\ b <= a * b /\ a <= a * b
<1>1. 1 * b <= a * b /\ 1 * a <= b * a /\ a * b = b * a /\ a * b \in Nat
  <2>1. 1 <= a => 1 * b <= a * b
        BY Grows
  <2>2. 1 <= b => 1 * a <= b * a
        BY Grows
  <2> QED  BY <2>1, <2>2
<1> DEFINE p == a * b
<1>2. b <= p /\ a <= p /\ p \in Nat
      BY <1>1
<1> HIDE DEF p
<1> QED  BY <1>2 DEF p

LEMMA ReleasedInside ==
    ASSUME NEW h, HeaderTyped(h)
    PROVE  Inside(Released(h))
BY DEF Released, Header, Inside, HeaderTyped

\* Rows and columns of a header end before it does.
LEMMA Narrowed ==
    ASSUME NEW data \in Nat, NEW rows \in Nat, NEW step \in Nat,
           NEW cols \in Nat, NEW channels \in Nat \ {0},
           Ends(data, rows, cols * channels, step),
           NEW x \in Nat, NEW y \in Nat, NEW w \in Nat \ {0}, NEW l \in Nat \ {0},
           x + w <= cols, y + l <= rows
    PROVE  /\ data + y * step + x * channels \in Nat
           /\ Ends(data + y * step + x * channels, l, w * channels, step)
<1> DEFINE width == cols * channels
           here == x * channels
           part == w * channels
           down == y * step
           deep == (l - 1) * step
           all == (rows - 1) * step
<1>1. width \in Nat /\ width <= step /\ data + all + width <= Span /\ all \in Nat
  <2>1. rows - 1 \in Nat
        BY DEF Ends
  <2> QED  BY <2>1 DEF Ends
<1>2. here \in Nat /\ part \in Nat /\ here + part <= width /\ part \in Nat \ {0}
  <2>1. (x + w) * channels = here + part
        BY Distributes
  <2>2. (x + w) * channels <= cols * channels
        BY Grows
  <2>3. here \in Nat /\ part \in Nat \ {0}
        BY Factors
  <2> DEFINE p == (x + w) * channels
  <2> HIDE DEF here, part, p
  <2> QED  BY <2>1, <2>2, <2>3 DEF p
<1>3. down \in Nat /\ deep \in Nat /\ down + deep <= all
  <2>1. l - 1 \in Nat /\ y + (l - 1) <= rows - 1 /\ rows - 1 \in Nat
        BY DEF Ends
  <2> DEFINE m == l - 1
             k == rows - 1
  <2>2. (y + m) * step = down + m * step
        BY <2>1, Distributes
  <2>3. (y + m) * step <= k * step
        BY <2>1, Grows
  <2>4. down \in Nat /\ m * step \in Nat
        BY <2>1
  <2> DEFINE p == (y + m) * step
             q == m * step
  <2>5. p = down + q /\ p <= all /\ down \in Nat /\ q \in Nat /\ q = deep
        BY <2>2, <2>3, <2>4
  <2> HIDE DEF p, q, down, deep, all
  <2> QED  BY <2>5
<1>4. Span \in Nat
      BY Sizes
<1> HIDE DEF width, here, part, down, deep, all
<1>5. data + down + here \in Nat /\ data + down + here + deep + part <= Span /\ part <= step
      BY <1>1, <1>2, <1>3, <1>4
<1> QED  BY <1>2, <1>5 DEF Ends, here, part, down, deep

LEMMA RectMatInside ==
    ASSUME NEW h, Inside(h), NEW x \in Nat, NEW y \in Nat, NEW w \in Nat, NEW l \in Nat,
           x + w <= h.cols, y + l <= h.rows
    PROVE  Inside(RectMat(h, x, y, w, l))
<1>1. HeaderTyped(h)
      BY DEF Inside
<1>2. CASE w = 0 \/ l = 0
  <2>1. RectMat(h, x, y, w, l) = Released(h)
        BY <1>2 DEF RectMat, View
  <2> QED  BY <1>1, <2>1, ReleasedInside
<1>3. CASE ~ (w = 0 \/ l = 0)
  <2> DEFINE data == h.data
             rows == h.rows
             cols == h.cols
             step == h.step
             channels == h.channels
             there == data + y * step + x * channels
  <2>1. /\ data \in Nat /\ rows \in Nat /\ step \in Nat /\ cols \in Nat /\ channels \in Nat \ {0}
        BY <1>1 DEF HeaderTyped
  <2>2. w \in Nat \ {0} /\ l \in Nat \ {0} /\ x + w <= cols /\ y + l <= rows
        BY <1>3
  <2>3. Ends(data, rows, cols * channels, step)
    <3>1. ~ (h.rows = 0 /\ h.cols = 0)
          BY <2>1, <2>2
    <3> QED  BY <3>1 DEF Inside, RowWidth
  <2>4. RectMat(h, x, y, w, l) = Header(there, l, w, step, channels)
        BY <1>3 DEF RectMat, View
  <2> HIDE DEF data, rows, cols, step, channels
  <2>5. there \in Nat /\ Ends(there, l, w * channels, step)
        BY <2>1, <2>2, <2>3, Narrowed
  <2> HIDE DEF there
  <2>6. Inside(Header(there, l, w, step, channels))
        BY <2>1, <2>2, <2>5 DEF Inside, HeaderTyped, Header, RowWidth
  <2> QED  BY <2>4, <2>6
<1> QED  BY <1>2, <1>3

\* A diagonal is a column whose rows are a column further apart.
LEMMA DiagonalEnds ==
    ASSUME NEW data \in Nat, NEW n \in Nat \ {0}, NEW step \in Nat, NEW channels \in Nat \ {0},
           channels <= step, data + (n - 1) * step + n * channels <= Span
    PROVE  /\ n > 1 => Ends(data, n, 1 * channels, step + channels)
           /\ n = 1 => Ends(data, n, 1 * channels, step)
<1>1. CASE n = 1
      BY <1>1 DEF Ends
<1>2. CASE n > 1
  <2> DEFINE m == n - 1
             a == m * step
             b == m * channels
  <2>1. m \in Nat
        OBVIOUS
  <2>2. /\ m * (step + channels) = a + b /\ n * channels = b + channels
        /\ a \in Nat /\ b \in Nat
    <3>1. n * channels = (m + 1) * channels
          OBVIOUS
    <3>2. (m + 1) * channels = m * channels + 1 * channels
          BY <2>1, Distributes
    <3>3. m * (step + channels) = m * step + m * channels
          BY <2>1
    <3> QED  BY <2>1, <3>1, <3>2, <3>3
  <2>3. data + a + (b + channels) <= Span
        BY <2>2
  <2> HIDE DEF a, b
  <2>4. data + (a + b) + channels <= Span /\ Span \in Nat
        BY <2>2, <2>3, Sizes
  <2>5. Ends(data, n, channels, step + channels)
        BY <2>2, <2>4 DEF Ends
  <2> QED  BY <1>2, <2>5
<1> QED  BY <1>1, <1>2

LEMMA DiagInside ==
    ASSUME NEW h, Inside(h), ~ Is_Empty(h), NEW d \in Int, - h.rows < d, d < h.cols
    PROVE  Inside(diag(h, d))
<1> DEFINE data == h.data
           rows == h.rows
           cols == h.cols
           step == h.step
           channels == h.channels
           x == IF d >= 0 THEN d ELSE 0
           y == IF d >= 0 THEN 0 ELSE - d
           n == IF d >= 0 THEN Lower(cols - d, rows) ELSE Lower(rows + d, cols)
           there == data + y * step + x * channels
<1>1. /\ data \in Nat /\ rows \in Nat /\ step \in Nat /\ cols \in Nat /\ channels \in Nat \ {0}
      BY DEF Inside, HeaderTyped
<1>2. Ends(data, rows, cols * channels, step)
      BY DEF Inside, Is_Empty, RowWidth
<1>3. n \in Nat \ {0} /\ x \in Nat /\ y \in Nat /\ x + n <= cols /\ y + n <= rows
      BY <1>1 DEF Lower, Is_Empty
<1>4. diag(h, d) = Header(there, n, 1, IF n > 1 THEN step + channels ELSE step, channels)
  <2>1. d >= 0 => there = data + d * channels
        BY <1>1
  <2>2. ~ (d >= 0) => there = data - d * step
        BY <1>1
  <2>3. diag(h, d) = View(h, there, n, 1, IF n > 1 THEN step + channels ELSE step)
        BY <2>1, <2>2 DEF diag
  <2>4. n # 0
        BY <1>3
  <2> HIDE DEF n, there
  <2> QED  BY <2>3, <2>4 DEF View
<1> HIDE DEF data, rows, cols, step, channels, x, y, n
<1>5. there \in Nat /\ Ends(there, n, n * channels, step)
      BY <1>1, <1>2, <1>3, Narrowed
<1> HIDE DEF there
<1>6. channels <= step /\ there + (n - 1) * step + n * channels <= Span
  <2>1. n * channels <= step /\ channels <= n * channels /\ n * channels \in Nat
        BY <1>1, <1>3, <1>5, Factors DEF Ends
  <2> QED  BY <1>1, <1>5, <2>1 DEF Ends
<1>7. /\ n > 1 => Ends(there, n, 1 * channels, step + channels)
      /\ n = 1 => Ends(there, n, 1 * channels, step)
      BY <1>1, <1>3, <1>5, <1>6, DiagonalEnds
<1> DEFINE far == IF n > 1 THEN step + channels ELSE step
<1>8. far \in Nat /\ Ends(there, n, 1 * channels, far)
      BY <1>1, <1>3, <1>7
<1> HIDE DEF far
<1>9. Inside(Header(there, n, 1, far, channels))
      BY <1>1, <1>3, <1>5, <1>8 DEF Inside, HeaderTyped, Header, RowWidth
<1> QED  BY <1>4, <1>9 DEF far

\* A quotient times the divisor is not more.
LEMMA QuotientBelow ==
    ASSUME NEW n \in Nat, NEW d \in Nat \ {0}
    PROVE  /\ n \div d \in Nat
           /\ (n \div d) * d \in Nat /\ (n \div d) * d <= n
<1> DEFINE q == n \div d
           p == q * d
<1>1. q \in Nat /\ n = p + (n % d) /\ n % d \in Nat
      BY Division
<1>2. p \in Nat
  <2> HIDE DEF q
  <2> QED  BY <1>1
<1> HIDE DEF p
<1>3. p <= n
      BY <1>1, <1>2
<1> QED  BY <1>1, <1>2, <1>3 DEF p

\* What is divided without a rest is found again.
LEMMA Exactly ==
    ASSUME NEW n \in Nat, NEW d \in Nat \ {0}, n % d = 0
    PROVE  (n \div d) * d = n /\ n \div d \in Nat /\ (n > 0 => n \div d > 0)
<1> DEFINE q == n \div d
<1>1. n = q * d + (n % d) /\ q \in Nat
      BY Division
<1>2. q * d = n
  <2> HIDE DEF q
  <2> QED  BY <1>1, q * d \in Int
<1>3. n > 0 => q > 0
  <2> SUFFICES ASSUME n > 0, q = 0 PROVE FALSE
      BY <1>1
  <2>1. q * d = 0
    <3> HIDE DEF q
    <3> QED  BY <1>1, 0 * d = 0
  <2> QED  BY <1>2, <2>1
<1> QED  BY <1>1, <1>2, <1>3

\* Before a reshape is accepted, the number of rows it makes is counted.
LEMMA ReshapedRows ==
    ASSUME NEW h, Inside(h), NEW channels \in Nat \ {0}, NEW rows \in Nat
    PROVE  /\ RowWidth(h) \in Nat /\ h.rows * RowWidth(h) \in Nat
           /\ NativeRows(h, channels, rows) \in Nat
           /\ NewRowWidth(h, channels, rows) \in Nat
<1> DEFINE all == h.rows * RowWidth(h)
           native == NativeRows(h, channels, rows)
<1>1. RowWidth(h) \in Nat /\ all \in Nat
      BY DEF Inside, HeaderTyped, RowWidth
<1> HIDE DEF all
<1>2. native \in Nat
  <2>1. all \div channels \in Nat
        BY <1>1, Division
  <2> QED  BY <2>1 DEF NativeRows, all
<1>3. CASE ChangesRows(h, channels, rows)
  <2>1. native \in Nat \ {0}
        BY <1>2, <1>3 DEF ChangesRows
  <2> HIDE DEF native
  <2>2. all \div native \in Nat
        BY <1>1, <2>1, Division
  <2> QED  BY <1>1, <1>2, <1>3, <2>2 DEF NewRowWidth, native, all
<1>4. CASE ~ ChangesRows(h, channels, rows)
      BY <1>1, <1>2, <1>4 DEF NewRowWidth, all
<1> QED  BY <1>3, <1>4

LEMMA ReshapeInside ==
    ASSUME NEW h, Inside(h), NEW channels \in Nat \ {0}, NEW rows \in Nat,
           reshape_accepts(h, channels, rows)
    PROVE  Inside(reshape(h, channels, rows))
<1> DEFINE width == RowWidth(h)
           all == h.rows * width
           native == NativeRows(h, channels, rows)
           wide == NewRowWidth(h, channels, rows)
           cols == wide \div channels
<1>1. width \in Nat /\ all \in Nat /\ native \in Nat /\ wide \in Nat
      BY ReshapedRows
<1>2. wide % channels = 0
      BY DEF reshape_accepts
<1>3. /\ h.data \in Nat /\ h.rows \in Nat /\ h.step \in Nat /\ h.cols \in Nat
      /\ h.channels \in Nat \ {0}
      BY DEF Inside, HeaderTyped
<1>4. cols * channels = wide /\ cols \in Nat /\ (wide > 0 => cols > 0)
  <2> HIDE DEF wide
  <2> QED  BY <1>1, <1>2, Exactly
<1>5. CASE ~ ChangesRows(h, channels, rows)
  <2>1. wide = width /\ reshape(h, channels, rows) = Header(h.data, h.rows, cols, h.step, channels)
        BY <1>5 DEF NewRowWidth, reshape
  <2> HIDE DEF width, wide, cols
  <2>2. CASE h.rows = 0 /\ h.cols = 0
    <3>1. width = 0
          BY <1>3, <2>2 DEF width, RowWidth
    <3>2. cols = 0
          BY <1>2, <2>1, <3>1 DEF cols
    <3> QED  BY <1>3, <2>1, <2>2, <3>2 DEF Inside, HeaderTyped, Header
  <2>3. CASE ~ (h.rows = 0 /\ h.cols = 0)
    <3>1. Ends(h.data, h.rows, width, h.step)
          BY <2>3 DEF Inside, width
    <3>2. cols \in Nat \ {0} /\ cols * channels = width
          BY <1>1, <1>4, <2>1, <3>1 DEF Ends
    <3> QED  BY <1>3, <2>1, <3>1, <3>2 DEF Inside, HeaderTyped, Header, RowWidth
  <2> QED  BY <2>2, <2>3
<1>6. CASE ChangesRows(h, channels, rows)
  <2>1. /\ reshape(h, channels, rows) = Header(h.data, native, cols, wide, channels)
        /\ native \in Nat \ {0}
        BY <1>1, <1>6 DEF reshape, ChangesRows
  <2>2. Is_Continuous(h) /\ native <= all /\ wide * native = all
        BY <1>6 DEF reshape_accepts
  <2>3. Ends(h.data, h.rows, width, h.step)
    <3>1. all > 0
      <4> HIDE DEF all, native
      <4> QED  BY <1>1, <2>1, <2>2
    <3>2. ~ (h.rows = 0 /\ h.cols = 0)
      <4> SUFFICES ASSUME h.rows = 0 PROVE FALSE
          OBVIOUS
      <4>1. all = 0
            BY <1>1
      <4> QED  BY <3>1, <4>1
    <3> QED  BY <3>2 DEF Inside
  <2>4. h.data + all <= Span
    <3>1. h.rows <= 1 \/ h.step <= width
          BY <2>2 DEF Is_Continuous, RowWidth
    <3>2. (h.rows - 1) * h.step + width = all
      <4>1. CASE h.rows = 1
        <5>1. (h.rows - 1) * h.step = 0 /\ all = width
              BY <1>1, <1>3, <4>1
        <5> QED  BY <1>1, <5>1
      <4>2. CASE h.step = width
        <5>1. all = (h.rows - 1) * width + 1 * width
          <6>1. ((h.rows - 1) + 1) * width = (h.rows - 1) * width + 1 * width
                BY <1>1, <1>3, Distributes
          <6>2. (h.rows - 1) + 1 = h.rows
                BY <1>3
          <6> QED  BY <6>1, <6>2
        <5> QED  BY <1>1, <4>2, <5>1
      <4>3. h.rows = 1 \/ h.step = width
            BY <1>1, <1>3, <2>3, <3>1 DEF Ends
      <4> QED  BY <4>1, <4>2, <4>3
    <3> DEFINE above == (h.rows - 1) * h.step
    <3>3. h.data + above + width <= Span
          BY <2>3 DEF Ends
    <3>4. above \in Nat
      <4>1. h.rows - 1 \in Nat
            BY <2>3 DEF Ends
      <4> QED  BY <1>3, <4>1
    <3>5. above + width = all
          BY <3>2
    <3> HIDE DEF above, all, width
    <3> DEFINE here == h.data
    <3>6. here \in Nat /\ here + above + width <= Span
          BY <1>3, <3>3
    <3> HIDE DEF here
    <3>7. here + all <= Span
          BY <1>1, <3>4, <3>5, <3>6, Sizes
    <3> QED  BY <3>7 DEF here
  <2>5. wide \in Nat \ {0} /\ (native - 1) * wide + wide = all /\ (native - 1) * wide \in Nat
    <3> HIDE DEF wide, native
    <3>1. wide # 0
      <4> SUFFICES ASSUME wide = 0 PROVE FALSE
          OBVIOUS
      <4>1. all = 0
            BY <2>1, <2>2
      <4>2. all > 0
            BY <2>1, <2>2, <4>1
      <4> QED  BY <4>1, <4>2
    <3>2. ((native - 1) + 1) * wide = (native - 1) * wide + 1 * wide
          BY <1>1, <2>1, Distributes
    <3>3. (native - 1) + 1 = native /\ native - 1 \in Nat
          BY <2>1
    <3>4. native * wide = all /\ 1 * wide = wide
          BY <1>1, <2>1, <2>2
    <3>5. (native - 1) * wide \in Nat
          BY <1>1, <3>3
    <3> QED  BY <1>1, <3>1, <3>2, <3>3, <3>4, <3>5
  <2> DEFINE above == (native - 1) * wide
  <2>6. above \in Nat /\ above + wide = all
        BY <2>5
  <2>7. h.data + above + wide <= Span
    <3> HIDE DEF above, all, wide
    <3> QED  BY <1>1, <1>3, <2>4, <2>6
  <2>8. Ends(h.data, native, wide, wide)
        BY <2>1, <2>5, <2>7 DEF Ends
  <2>9. cols \in Nat \ {0}
        BY <1>4, <2>5
  <2> DEFINE new == Header(h.data, native, cols, wide, channels)
  <2> HIDE DEF wide, cols, native
  <2>10. HeaderTyped(new) /\ new.cols = cols
         BY <1>1, <1>3, <2>1, <2>9 DEF HeaderTyped, Header
  <2>11. RowWidth(new) = wide
         BY <1>4 DEF RowWidth, Header
  <2>12. Ends(new.data, new.rows, RowWidth(new), new.step)
         BY <2>8, <2>11 DEF Header
  <2>13. Inside(new)
         BY <2>9, <2>10, <2>12 DEF Inside
  <2> QED  BY <2>1, <2>13
<1> QED  BY <1>5, <1>6

LEMMA ParentInside == Inside(Parent)
<1>1. Ends(0, Height, Width * Channels, Width * Channels)
  <2>1. (Height - 1) * RowStep + RowStep = Span /\ RowStep \in Nat \ {0} /\ Height \in Nat \ {0}
        BY Sizes
  <2>2. (Height - 1) * RowStep \in Nat
        BY <2>1
  <2>3. Ends(0, Height, RowStep, RowStep)
        BY <2>1, <2>2 DEF Ends
  <2> QED  BY <2>3 DEF RowStep
<1>2. Width \in Nat \ {0} /\ Channels \in Nat \ {0} /\ Height \in Nat /\ Width * Channels \in Nat
      BY Sizes DEF RowStep
<1> QED  BY <1>1, <1>2 DEF Inside, HeaderTyped, Parent, Header, RowWidth

\* Views and reshapes keep the header inside.
LEMMA ViewInside == VInv /\ ViewNext => VInv'
<1> SUFFICES ASSUME VInv, ViewNext PROVE VInv'
    OBVIOUS
<1>1. Inside(header) /\ header.rows \in Nat /\ header.cols \in Nat
      BY DEF VInv, Inside, HeaderTyped
<1>2. ASSUME NEW x \in Outside(header.cols), NEW y \in Outside(header.rows),
             NEW w \in Lengths(header.cols), NEW l \in Lengths(header.rows), Region(x, y, w, l)
      PROVE  VInv'
  <2>1. x \in Nat /\ y \in Nat /\ w \in Nat /\ l \in Nat /\ x + w <= header.cols /\ y + l <= header.rows
        BY <1>1, <1>2 DEF Region, Region_Accepts, Outside, Lengths
  <2>2. Inside(RectMat(header, x, y, w, l))
        BY <1>1, <2>1, RectMatInside
  <2> QED  BY <1>2, <2>2 DEF Region, VInv
<1>3. ASSUME NEW row \in Lengths(header.rows), Row_View(row) PROVE VInv'
  <2>1. row \in Nat /\ row + 1 <= header.rows /\ 0 + header.cols <= header.cols
        BY <1>1, <1>3 DEF Row_View, Lengths
  <2>2. Inside(RectMat(header, 0, row, header.cols, 1))
        BY <1>1, <2>1, RectMatInside
  <2> QED  BY <1>3, <2>2 DEF Row_View, VInv
<1>4. ASSUME NEW start \in Lengths(header.rows), NEW stop \in Lengths(header.rows),
             Row_Range_View(start, stop)
      PROVE  VInv'
  <2>1. /\ start \in Nat /\ stop - start \in Nat
        /\ start + (stop - start) <= header.rows /\ 0 + header.cols <= header.cols
        BY <1>1, <1>4 DEF Row_Range_View, Lengths
  <2>2. Inside(RectMat(header, 0, start, header.cols, stop - start))
        BY <1>1, <2>1, RectMatInside
  <2> QED  BY <1>1, <1>4, <2>2 DEF Row_Range_View, VInv
<1>5. ASSUME NEW column \in Lengths(header.cols), Column_View(column) PROVE VInv'
  <2>1. column \in Nat /\ column + 1 <= header.cols /\ 0 + header.rows <= header.rows
        BY <1>1, <1>5 DEF Column_View, Lengths
  <2>2. Inside(RectMat(header, column, 0, 1, header.rows))
        BY <1>1, <2>1, RectMatInside
  <2> QED  BY <1>5, <2>2 DEF Column_View, VInv
<1>6. ASSUME NEW start \in Lengths(header.cols), NEW stop \in Lengths(header.cols),
             Column_Range_View(start, stop)
      PROVE  VInv'
  <2>1. /\ start \in Nat /\ stop - start \in Nat
        /\ start + (stop - start) <= header.cols /\ 0 + header.rows <= header.rows
        BY <1>1, <1>6 DEF Column_Range_View, Lengths
  <2>2. Inside(RectMat(header, start, 0, stop - start, header.rows))
        BY <1>1, <2>1, RectMatInside
  <2> QED  BY <1>1, <1>6, <2>2 DEF Column_Range_View, VInv
<1>7. Assign => VInv'
      BY ParentInside DEF Assign, VInv
<1> QED  BY <1>2, <1>3, <1>4, <1>5, <1>6, <1>7 DEF ViewNext

LEMMA ReshapeToInside ==
    ASSUME VInv, NEW channels \in Nat \ {0}, NEW rows \in Nat, ReshapeTo(channels, rows)
    PROVE  VInv'
<1>1. CASE reshape_accepts(header, channels, rows)
  <2>1. Inside(reshape(header, channels, rows))
        BY <1>1, ReshapeInside DEF VInv
  <2> QED  BY <1>1, <2>1 DEF ReshapeTo, VInv
<1>2. CASE ~ reshape_accepts(header, channels, rows)
      BY <1>2 DEF ReshapeTo, VInv
<1> QED  BY <1>1, <1>2

LEMMA ReshapeNextInside == VInv /\ ReshapeNext => VInv'
<1> SUFFICES ASSUME VInv, ReshapeNext PROVE VInv'
    OBVIOUS
<1>1. Inside(header) /\ header.rows \in Nat /\ header.cols \in Nat
      BY DEF VInv, Inside, HeaderTyped
<1>2. ASSUME NEW offset \in - header.rows .. header.cols, Diagonal_View(offset) PROVE VInv'
  <2>1. /\ ~ Is_Empty(header) /\ offset \in Int /\ - header.rows < offset /\ offset < header.cols
        BY <1>1, <1>2 DEF Diagonal_View
  <2>2. Inside(diag(header, offset))
        BY <1>1, <2>1, DiagInside
  <2> QED  BY <1>2, <2>2 DEF Diagonal_View, VInv
<1>3. ASSUME NEW channels \in ChannelCounts, Reshape(channels) PROVE VInv'
  <2>1. channels \in Nat \ {0} /\ 0 \in Nat
        BY GeometryAssumption
  <2> QED  BY <1>3, <2>1, ReshapeToInside DEF Reshape
<1>4. ASSUME NEW channels \in ChannelCounts, NEW rows \in 1 .. MaxInt, Reshape_Rows(channels, rows)
      PROVE  VInv'
  <2>1. channels \in Nat \ {0} /\ rows \in Nat
        BY GeometryAssumption
  <2> QED  BY <1>4, <2>1, ReshapeToInside DEF Reshape_Rows
<1> QED  BY <1>2, <1>3, <1>4 DEF ReshapeNext

LEMMA AlwaysInside == ViewSpec => []VInv
<1>1. Init => VInv
      BY ParentInside DEF Init, VInv
<1>2. VInv /\ [ViewNext \/ ReshapeNext]_vars => VInv'
  <2>1. VInv /\ UNCHANGED vars => VInv'
        BY DEF VInv, vars
  <2> QED  BY <2>1, ViewInside, ReshapeNextInside
<1> QED  BY <1>1, <1>2, PTL DEF ViewSpec

\* Elements of views and reshapes are inside the allocation as well.
THEOREM ViewElementsStayInside == ViewSpec => []ElementsInside
<1>1. VInv => ElementsInside
  <2> SUFFICES ASSUME VInv, ~ Is_Empty(header) PROVE ElementsInside
      BY DEF ElementsInside
  <2> DEFINE data == header.data
             rows == header.rows
             cols == header.cols
             step == header.step
             channels == header.channels
             width == cols * channels
             above == (rows - 1) * step
  <2>1. /\ data \in Nat /\ rows \in Nat \ {0} /\ step \in Nat /\ cols \in Nat \ {0}
        /\ channels \in Nat \ {0}
        BY DEF VInv, Inside, HeaderTyped, Is_Empty
  <2>2. Ends(data, rows, width, step)
        BY DEF VInv, Inside, Is_Empty, RowWidth
  <2>3. above \in Nat /\ width \in Nat /\ width <= step /\ data + above + width <= Span
    <3> HIDE DEF data, rows, cols, step, channels
    <3>1. rows - 1 \in Nat
          BY <2>1
    <3> QED  BY <2>1, <2>2, <3>1 DEF Ends
  <2>4. width = (cols - 1) * channels + channels /\ (cols - 1) * channels \in Nat
    <3> HIDE DEF data, rows, cols, step, channels
    <3>1. cols - 1 \in Nat /\ (cols - 1) + 1 = cols
          BY <2>1
    <3>2. ((cols - 1) + 1) * channels = (cols - 1) * channels + 1 * channels
          BY <2>1, <3>1, Distributes
    <3> QED  BY <2>1, <3>1, <3>2
  <2>5. Address(header, rows - 1, cols - 1) + channels <= Span
    <3> DEFINE before == (cols - 1) * channels
    <3>1. Address(header, rows - 1, cols - 1) = data + above + before
          BY DEF Address
    <3>2. before \in Nat /\ width = before + channels
          BY <2>4
    <3> HIDE DEF data, rows, cols, step, channels, above, width, before
    <3> QED  BY <2>1, <2>3, <3>1, <3>2, Sizes
  <2>6. Is_Continuous(header) => data + rows * cols * channels <= Span
    <3> SUFFICES ASSUME Is_Continuous(header) PROVE data + rows * cols * channels <= Span
        OBVIOUS
    <3>1. rows = 1 \/ step <= width
      <4>1. rows <= 1 \/ step <= width
            BY DEF Is_Continuous
      <4> HIDE DEF rows, step, width
      <4> QED  BY <2>1, <4>1
    <3> HIDE DEF data, rows, cols, step, channels
    <3>2. rows * cols * channels = rows * width
          BY <2>1
    <3>3. rows * width = above + width
      <4>1. (rows - 1) + 1 = rows /\ rows - 1 \in Nat
            BY <2>1
      <4>2. ((rows - 1) + 1) * width = (rows - 1) * width + 1 * width
            BY <2>1, <2>3, <4>1, Distributes
      <4>3. rows * width = (rows - 1) * width + width
            BY <2>3, <4>1, <4>2
      <4>4. rows = 1 => above = 0 /\ (rows - 1) * width = 0
            BY <2>1, <2>3
      <4>5. step = width => above = (rows - 1) * width
            OBVIOUS
      <4>6. rows = 1 \/ step = width
            BY <2>1, <2>3, <3>1
      <4> DEFINE p == (rows - 1) * width
                 q == rows * width
      <4>7. q = p + width /\ p = above
            BY <4>3, <4>4, <4>5, <4>6
      <4> HIDE DEF p, above, width
      <4> QED  BY <4>7
    <3> DEFINE all == rows * cols * channels
    <3>4. all = above + width
          BY <3>2, <3>3
    <3> HIDE DEF all, above, width
    <3>5. data + all <= Span
          BY <2>1, <2>3, <3>4, Sizes
    <3> QED  BY <3>5 DEF all
  <2> QED  BY <2>5, <2>6 DEF ElementsInside
<1> QED  BY <1>1, AlwaysInside, PTL

\* Whatever distance rows have and however the allocation was cut before, when
\* the shim's preflight of the geometry does not fail, no step of locateROI
\* overflows an int or wraps a difference, and the location that it finds passes
\* the check in Ada.
THEOREM LocateStaysDefined == ViewSpec => []LocateNeverSurprises
<1>1. VInv => LocateNeverSurprises
  <2> SUFFICES ASSUME VInv, roi_geometry_preflight(header)
               PROVE  locateROI_defined(header) /\ Checked_Region_Location(header)
      BY DEF LocateNeverSurprises
  <2> DEFINE data == header.data
             rows == header.rows
             cols == header.cols
             step == header.step
             channels == header.channels
             y == OffsetY(header)
             x == OffsetX(header)
             height == WholeHeight(header)
             width == WholeWidth(header)
             down == (Span - (x + cols) * channels) \div step
             right == (Span - step * (height - 1)) \div channels
  <2>1. /\ data \in Nat /\ rows \in Nat /\ step \in Nat \ {0} /\ cols \in Nat
        /\ channels \in Nat \ {0} /\ Span \in Nat /\ MaxInt \in Nat
        BY Sizes, GeometryAssumption DEF VInv, Inside, HeaderTyped, roi_geometry_preflight
  <2>2. /\ y <= MaxInt /\ x <= MaxInt /\ rows <= MaxInt - y /\ cols <= MaxInt - x
        /\ x + cols <= Span \div channels /\ down < MaxInt
        /\ height - 1 <= Span \div step
        /\ (Span - (height - 1) * step) \div channels <= MaxInt
        BY DEF roi_geometry_preflight
  <2>3. x \in Nat /\ y \in Nat
    <3> DEFINE rest == data % step
    <3>1. y = data \div step /\ x = rest \div channels
          BY DEF OffsetX, OffsetY
    <3> HIDE DEF data, step, channels, x, y
    <3>2. data \div step \in Nat /\ rest \in 0 .. step - 1
          BY <2>1, Division
    <3> HIDE DEF rest
    <3>3. rest \in Nat
          BY <2>1, <3>2
    <3>4. rest \div channels \in Nat
          BY <2>1, <3>3, Division
    <3> QED  BY <3>1, <3>2, <3>4
  <2>4. height = Upper(down + 1, y + rows) /\ width = Upper(right, x + cols)
        BY DEF WholeHeight, WholeWidth
  <2> HIDE DEF data, rows, cols, step, channels, x, y, height, width
  <2>5. (x + cols) * channels <= Span /\ (x + cols) * channels \in Nat
    <3> DEFINE n == x + cols
               q == Span \div channels
    <3>1. n \in Nat /\ q \in Nat /\ n <= q
          BY <2>1, <2>2, <2>3, Division
    <3>2. q * channels <= Span /\ q * channels \in Nat
          BY <2>1, QuotientBelow
    <3> HIDE DEF n, q
    <3>3. n * channels <= q * channels /\ n * channels \in Nat
          BY <2>1, <3>1, Grows
    <3>4. n * channels <= Span
      <4> DEFINE a == n * channels
                 b == q * channels
      <4>1. a \in Nat /\ b \in Nat /\ a <= b /\ b <= Span
            BY <3>2, <3>3
      <4> HIDE DEF a, b
      <4>2. a <= Span
            BY <2>1, <4>1
      <4> QED  BY <4>2 DEF a
    <3> QED  BY <3>3, <3>4 DEF n
  <2>6. down \in Nat
    <3> DEFINE a == Span - (x + cols) * channels
    <3>1. a \in Nat
          BY <2>1, <2>5
    <3> HIDE DEF a
    <3>2. a \div step \in Nat
          BY <2>1, <3>1, Division
    <3> QED  BY <3>2 DEF a
  <2>7. height \in Nat \ {0} /\ height <= MaxInt /\ y + rows <= height
    <3> HIDE DEF down
    <3> QED  BY <2>1, <2>2, <2>3, <2>4, <2>6 DEF Upper
  <2>8. step * (height - 1) <= Span /\ step * (height - 1) \in Nat
    <3> DEFINE n == height - 1
               q == Span \div step
    <3>1. n \in Nat /\ q \in Nat /\ n <= q
          BY <2>1, <2>2, <2>7, Division
    <3>2. q * step <= Span /\ q * step \in Nat
          BY <2>1, QuotientBelow
    <3> HIDE DEF n, q
    <3>3. n * step <= q * step /\ n * step \in Nat /\ step * n = n * step
          BY <2>1, <3>1, Grows
    <3> DEFINE a == n * step
               b == q * step
    <3>4. a \in Nat /\ b \in Nat /\ a <= b /\ b <= Span
          BY <3>2, <3>3
    <3> HIDE DEF a, b
    <3>5. a <= Span
          BY <2>1, <3>4
    <3>6. step * n <= Span /\ step * n \in Nat
          BY <3>3, <3>4, <3>5 DEF a
    <3> QED  BY <3>6 DEF n
  <2>9. right \in Nat /\ right <= MaxInt
    <3> DEFINE a == step * (height - 1)
               b == Span - a
    <3>1. (height - 1) * step = a
          BY <2>1, <2>7
    <3>2. a \in Nat /\ a <= Span
          BY <2>8
    <3>3. (Span - a) \div channels <= MaxInt
          BY <2>2, <3>1
    <3> HIDE DEF a
    <3>4. b \in Nat
          BY <2>1, <3>2
    <3>5. b \div channels <= MaxInt
          BY <3>3
    <3> HIDE DEF b
    <3>6. b \div channels \in Nat
          BY <2>1, <3>4, Division
    <3> QED  BY <3>5, <3>6 DEF a, b
  <2>10. width \in Nat /\ width <= MaxInt /\ x + cols <= width
    <3> HIDE DEF right
    <3> QED  BY <2>1, <2>2, <2>3, <2>4, <2>9 DEF Upper
  <2>11. locateROI_defined(header)
    <3>1. FitsInt(x + cols) /\ FitsInt(y + rows) /\ FitsInt(height) /\ FitsInt(width)
          BY <2>1, <2>2, <2>3, <2>7, <2>10 DEF FitsInt
    <3>2. step > 0
          BY <2>1
    <3> QED  BY <2>5, <2>8, <3>1, <3>2 DEF locateROI_defined, cols, rows, step, channels, x, y, height, width
  <2>12. Checked_Region_Location(header)
         BY <2>3, <2>7, <2>10
         DEF Checked_Region_Location, Locate_Region, cols, rows, x, y, height, width
  <2> QED  BY <2>11, <2>12
<1> QED  BY <1>1, AlwaysInside, PTL

(***************************************************************************)
(* The cancelling of factors.  The greatest common divisor of a factor and *)
(* a source leaves quotients without a common divisor, so that what is     *)
(* left of the factor must divide the other sources (Gauss).               *)
(***************************************************************************)
\* A nonempty set of naturals has a least element.
LEMMA LeastNatural ==
    ASSUME NEW T \in SUBSET Nat, T # {}
    PROVE  \E least \in T : \A y \in T : least <= y
<1>1. IsWellFoundedOn(OpToRel(<, Nat), Nat)
      BY NatLessThanWellFounded
<1>2. PICK least \in T : \A y \in T : <<y, least>> \notin OpToRel(<, Nat)
      BY <1>1, WFMin
<1>3. \A y \in T : ~ (y < least)
      BY <1>2 DEF OpToRel
<1> QED  BY <1>3

Divides(d, n) == \E q \in Nat : n = q * d

LEMMA DividesIs ==
    ASSUME NEW d \in Nat \ {0}, NEW n \in Nat
    PROVE  Divides(d, n) <=> n % d = 0
<1>1. n % d = 0 => Divides(d, n)
      BY Exactly DEF Divides
<1>2. ASSUME NEW q \in Nat, n = q * d PROVE n % d = 0
  <2>1. (q * d + 0) % d = 0
        BY DivisionFindsRow, 0 \in 0 .. d - 1
  <2>2. q * d + 0 = n
        BY <1>2
  <2> QED  BY <2>1, <2>2
<1> QED  BY <1>1, <1>2 DEF Divides

\* Products of three in another order.
LEMMA Reorders ==
    ASSUME NEW a \in Int, NEW b \in Int, NEW c \in Int
    PROVE  /\ (a * b) * c = a * (b * c) /\ (a * b) * c = (a * c) * b /\ a * b = b * a
           /\ a * b \in Int
  OBVIOUS

LEMMA SameFactor ==
    ASSUME NEW a \in Nat, NEW b \in Nat, NEW d \in Nat \ {0}, a * d = b * d
    PROVE  a = b
<1>1. a < b => a * d + d <= b * d
      BY Grows
<1>2. b < a => b * d + d <= a * d
      BY Grows
<1> DEFINE p == a * d
           q == b * d
<1>3. p \in Nat /\ q \in Nat /\ p = q /\ (a < b => p + d <= q) /\ (b < a => q + d <= p)
      BY <1>1, <1>2
<1> HIDE DEF p, q
<1> QED  BY <1>3

\* Only 1 divides both.
Coprime(a, b) == \A e \in Nat \ {0} : Divides(e, a) /\ Divides(e, b) => e = 1

\* What divides a product and has nothing in common with one factor divides the
\* other one.
LEMMA Gauss ==
    ASSUME NEW a \in Nat \ {0}, NEW b \in Nat \ {0}, NEW c \in Nat,
           Coprime(a, b), Divides(a, b * c)
    PROVE  Divides(a, c)
<1> DEFINE T == {n \in Nat \ {0} : Divides(a, n * c)}
<1>1. a \in T /\ b \in T
  <2>1. a * c = c * a
        BY Reorders
  <2>2. Divides(a, a * c)
        BY <2>1 DEF Divides
  <2> QED  BY <2>2
<1>2. PICK m \in T : \A n \in T : m <= n
  <2>1. T \in SUBSET Nat /\ T # {}
        BY <1>1
  <2> HIDE DEF T
  <2> QED  BY <2>1, LeastNatural
<1>3. PICK v \in Nat : m * c = v * a
      BY <1>2 DEF Divides
<1>4. ASSUME NEW t \in T PROVE Divides(m, t)
  <2>1. PICK u \in Nat : t * c = u * a
        BY <1>4 DEF Divides
  <2> DEFINE q == t \div m
             r == t % m
  <2>2. m \in Nat \ {0} /\ t \in Nat \ {0}
        BY <1>2, <1>4
  <2>3. t = q * m + r /\ r \in 0 .. m - 1 /\ q \in Nat
        BY <2>2, Division
  <2> HIDE DEF q, r, T
  <2>4. r \in Nat /\ r < m
        BY <2>2, <2>3
  <2>5. r * c = (u - q * v) * a
    <3>1. t * c = (q * m) * c + r * c
          BY <2>2, <2>3, <2>4, Distributes, q * m \in Int
    <3>2. (q * m) * c = q * (m * c)
          BY <2>2, <2>3, Reorders
    <3>3. q * (v * a) = (q * v) * a
          BY <2>3, Reorders
    <3>4. (u - q * v) * a = u * a - (q * v) * a
          BY <2>3, Distributes, q * v \in Int
    <3> DEFINE x == r * c
               y == (q * v) * a
               z == u * a
    <3>5. z = y + x /\ (u - q * v) * a = z - y
          BY <1>3, <2>1, <3>1, <3>2, <3>3, <3>4
    <3>6. x \in Nat /\ y \in Int /\ z \in Int
          BY <2>3, <2>4
    <3> HIDE DEF x, y, z
    <3>7. x = z - y
          BY <3>5, <3>6
    <3> QED  BY <3>5, <3>7 DEF x
  <2>6. u - q * v \in Nat
    <3> DEFINE w == u - q * v
    <3>1. w \in Int
          BY <2>3
    <3>2. w * a \in Nat
          BY <2>4, <2>5
    <3> HIDE DEF w
    <3>3. w < 0 => w * a + a <= 0 * a
          BY <3>1, Grows
    <3>4. 0 * a = 0
          OBVIOUS
    <3>5. ~ (w < 0)
      <4> DEFINE p == w * a
      <4>1. p \in Nat /\ (w < 0 => p + a <= 0)
            BY <3>2, <3>3, <3>4
      <4> HIDE DEF p
      <4> QED  BY <4>1
    <3>6. w \in Nat
          BY <3>1, <3>5
    <3> QED  BY <3>6 DEF w
  <2>7. r = 0
    <3> SUFFICES ASSUME r # 0 PROVE FALSE
        OBVIOUS
    <3>1. Divides(a, r * c)
          BY <2>5, <2>6 DEF Divides
    <3>2. r \in T
          BY <2>4, <3>1 DEF T
    <3> QED  BY <1>2, <2>2, <2>4, <3>2
  <2>8. t = q * m
        BY <2>2, <2>3, <2>7
  <2> QED  BY <2>3, <2>8 DEF Divides
<1>5. m = 1
      BY <1>1, <1>2, <1>4 DEF Coprime
<1>6. c = v * a
      BY <1>3, <1>5
<1> QED  BY <1>6 DEF Divides

LEMMA DividesNoMore ==
    ASSUME NEW d \in Nat \ {0}, NEW n \in Nat \ {0}, Divides(d, n)
    PROVE  d <= n
<1>1. PICK q \in Nat : n = q * d
      BY DEF Divides
<1>2. q # 0
  <2> SUFFICES ASSUME q = 0 PROVE FALSE
      OBVIOUS
  <2>1. n = 0
        BY <1>1
  <2> QED  BY <2>1
<1>3. d <= q * d
      BY <1>2, Factors
<1> QED  BY <1>1, <1>3

Common(a, b) == {d \in Nat \ {0} : Divides(d, a) /\ Divides(d, b)}

LEMMA CommonIs ==
    ASSUME NEW a \in Nat \ {0}, NEW b \in Nat \ {0}
    PROVE  /\ Common(a, b) = {d \in 1 .. Lower(a, b) : a % d = 0 /\ b % d = 0}
           /\ 1 \in Common(a, b) /\ Lower(a, b) \in Nat \ {0}
<1>1. \A d \in Nat \ {0} : Divides(d, a) /\ Divides(d, b) => d \in 1 .. Lower(a, b)
  <2> TAKE d \in Nat \ {0}
  <2> HAVE Divides(d, a) /\ Divides(d, b)
  <2>1. d <= a /\ d <= b
        BY DividesNoMore
  <2> QED  BY <2>1 DEF Lower
<1>2. \A d \in 1 .. Lower(a, b) : d \in Nat \ {0}
      BY DEF Lower
<1>3. \A d \in Nat \ {0} : (Divides(d, a) <=> a % d = 0) /\ (Divides(d, b) <=> b % d = 0)
      BY DividesIs
<1>4. Divides(1, a) /\ Divides(1, b)
  <2>1. a = a * 1 /\ b = b * 1
        OBVIOUS
  <2> QED  BY <2>1 DEF Divides
<1> QED  BY <1>1, <1>2, <1>3, <1>4 DEF Common, Lower

\* What Greatest_Common_Divisor chooses.
LEMMA GreatestIs ==
    ASSUME NEW a \in Nat \ {0}, NEW b \in Nat \ {0}
    PROVE  /\ Greatest_Common_Divisor(a, b) \in Common(a, b)
           /\ \A e \in Common(a, b) : e <= Greatest_Common_Divisor(a, b)
<1> DEFINE n == Lower(a, b)
           D == Common(a, b)
           Largest(d) == /\ a % d = 0 /\ b % d = 0
                         /\ \A e \in d + 1 .. n : a % e # 0 \/ b % e # 0
<1>1. D = {d \in 1 .. n : a % d = 0 /\ b % d = 0} /\ 1 \in D /\ n \in Nat \ {0}
      BY CommonIs
<1> HIDE DEF n, D
<1>2. PICK d \in D : \A e \in D : e <= d
  <2> DEFINE T == {n - x : x \in D}
  <2>1. T \in SUBSET Nat /\ T # {}
        BY <1>1
  <2> HIDE DEF T
  <2>2. PICK t \in T : \A y \in T : t <= y
        BY <2>1, LeastNatural
  <2>3. PICK x \in D : t = n - x
        BY DEF T
  <2>4. ASSUME NEW e \in D PROVE e <= x
    <3>1. n - e \in T
          BY DEF T
    <3>2. n - x <= n - e
          BY <2>2, <2>3, <3>1
    <3> QED  BY <1>1, <3>2
  <2> QED  BY <2>4
<1>3. d \in 1 .. n /\ Largest(d)
  <2>1. d \in 1 .. n /\ a % d = 0 /\ b % d = 0
        BY <1>1
  <2>2. ASSUME NEW e \in d + 1 .. n, a % e = 0, b % e = 0 PROVE FALSE
    <3>1. e \in 1 .. n /\ ~ (e <= d)
          BY <1>1, <2>1
    <3>2. e \in D
          BY <1>1, <2>2, <3>1
    <3> QED  BY <1>2, <3>1, <3>2
  <2> QED  BY <2>1, <2>2
<1> DEFINE g == CHOOSE x \in 1 .. n : Largest(x)
<1>4. g = Greatest_Common_Divisor(a, b)
      BY DEF Greatest_Common_Divisor, n
<1>5. g \in 1 .. n /\ Largest(g)
      BY <1>3
<1> HIDE DEF g
<1>6. g \in D /\ \A e \in D : e <= g
  <2>1. g \in D
        BY <1>1, <1>5
  <2>2. ASSUME NEW e \in D, ~ (e <= g) PROVE FALSE
    <3>1. e \in 1 .. n /\ a % e = 0 /\ b % e = 0
          BY <1>1
    <3>2. e \in g + 1 .. n
          BY <1>1, <1>5, <2>2, <3>1
    <3> QED  BY <1>5, <3>1, <3>2
  <2> QED  BY <2>1, <2>2
<1> QED  BY <1>4, <1>6 DEF D

\* Divided by it, the two have nothing in common.
LEMMA Quotients ==
    ASSUME NEW a \in Nat \ {0}, NEW b \in Nat \ {0}
    PROVE  LET g == Greatest_Common_Divisor(a, b)
           IN  /\ g \in Nat \ {0}
               /\ a \div g \in Nat \ {0} /\ a = (a \div g) * g
               /\ b \div g \in Nat \ {0} /\ b = (b \div g) * g
               /\ Coprime(a \div g, b \div g) /\ Coprime(b \div g, a \div g)
<1> DEFINE g == Greatest_Common_Divisor(a, b)
           x == a \div g
           y == b \div g
<1>1. g \in Common(a, b) /\ \A e \in Common(a, b) : e <= g
      BY GreatestIs
<1> HIDE DEF g
<1>2. g \in Nat \ {0} /\ a % g = 0 /\ b % g = 0
      BY <1>1, DividesIs DEF Common
<1>3. x \in Nat \ {0} /\ a = x * g /\ y \in Nat \ {0} /\ b = y * g
      BY <1>2, Exactly
<1> HIDE DEF x, y
<1>4. ASSUME NEW e \in Nat \ {0}, Divides(e, x), Divides(e, y) PROVE e = 1
  <2>1. PICK p \in Nat : x = p * e
        BY <1>4 DEF Divides
  <2>2. PICK q \in Nat : y = q * e
        BY <1>4 DEF Divides
  <2>3. (p * e) * g = p * (e * g) /\ (q * e) * g = q * (e * g)
        BY <1>2, Reorders
  <2>4. e * g \in Nat \ {0}
        BY <1>2, Factors
  <2>5. e * g \in Common(a, b)
        BY <1>3, <2>1, <2>2, <2>3, <2>4 DEF Common, Divides
  <2>6. e * g <= 1 * g
        BY <1>1, <1>2, <2>5
  <2>7. 1 < e => 1 * g + g <= e * g
        BY <1>2, Grows
  <2> DEFINE z == e * g
  <2>8. z \in Nat /\ z <= g /\ (1 < e => g + g <= z)
        BY <1>2, <2>4, <2>6, <2>7
  <2> HIDE DEF z
  <2> QED  BY <1>2, <2>8
<1>5. Coprime(x, y) /\ Coprime(y, x)
      BY <1>4 DEF Coprime
<1> QED  BY <1>2, <1>3, <1>5 DEF g, x, y

\* One factor against one source.
LEMMA CancelsOne ==
    ASSUME NEW s \in Nat, NEW f \in Nat \ {0}
    PROVE  /\ Left(f, s) \in Nat \ {0} /\ Rest(s, f) \in Nat
           /\ f * Rest(s, f) = Left(f, s) * s
           /\ (s = 0 <=> Rest(s, f) = 0)
           /\ \A c \in Nat : Divides(f, s * c) => Divides(Left(f, s), c)
<1> DEFINE g == Greatest_Common_Divisor(s, f)
           l == Left(f, s)
           r == Rest(s, f)
<1>1. l = f \div g /\ r = s \div g
      BY DEF Left, Rest
<1>2. CASE s = 0
  <2>1. g = f
        BY <1>2 DEF Greatest_Common_Divisor
  <2> HIDE DEF g
  <2>2. (1 * f + 0) \div f = 1 /\ (0 * f + 0) \div f = 0
        BY DivisionFindsRow, 0 \in 0 .. f - 1
  <2>3. 1 * f + 0 = f /\ 0 * f + 0 = 0
        OBVIOUS
  <2>4. l = 1 /\ r = 0
        BY <1>1, <1>2, <2>1, <2>2, <2>3
  <2> HIDE DEF l, r
  <2>5. \A c \in Nat : Divides(l, c)
        BY <2>4 DEF Divides
  <2> QED  BY <1>2, <2>4, <2>5 DEF l, r
<1>3. CASE s # 0
  <2>1. s \in Nat \ {0}
        BY <1>3
  <2>2. /\ g \in Nat \ {0} /\ l \in Nat \ {0} /\ r \in Nat \ {0}
        /\ f = l * g /\ s = r * g /\ Coprime(l, r)
        BY <1>1, <2>1, Quotients
  <2> HIDE DEF g, l, r
  <2>3. f * r = l * s
    <3>1. (l * g) * r = l * (g * r) /\ g * r = r * g
          BY <2>2, Reorders
    <3> QED  BY <2>2, <3>1
  <2>4. ASSUME NEW c \in Nat, Divides(f, s * c) PROVE Divides(l, c)
    <3>1. PICK k \in Nat : s * c = k * f
          BY <2>4 DEF Divides
    <3>2. (r * c) * g = (r * g) * c
          BY <2>2, Reorders
    <3>3. (k * l) * g = k * (l * g)
          BY <2>2, Reorders
    <3>4. (r * c) * g = (k * l) * g
          BY <2>2, <3>1, <3>2, <3>3
    <3>5. r * c \in Nat /\ k * l \in Nat
          BY <2>2
    <3> DEFINE x == r * c
               y == k * l
    <3>6. x \in Nat /\ y \in Nat /\ x * g = y * g
          BY <3>4, <3>5
    <3> HIDE DEF x, y
    <3>7. x = y
          BY <2>2, <3>6, SameFactor
    <3>8. Divides(l, r * c)
          BY <3>7 DEF Divides, x, y
    <3> QED  BY <2>2, <3>8, Gauss
  <2> QED  BY <2>1, <2>2, <2>3, <2>4 DEF l, r
<1> QED  BY <1>2, <1>3

\* What Cancel makes of a factor and three sources.
Cancelled(a, b, c, f, left, x, y, z) ==
    Cancel(<<a, b, c>>, f) = [left |-> left, sources |-> <<x, y, z>>]

\* What is left of the factor is 1 exactly when it divides the product of the
\* sources, and then the rests have the quotient.
Quotient(a, b, c, f, left, x, y, z) ==
    /\ x \in Nat /\ y \in Nat /\ z \in Nat /\ left \in Nat \ {0}
    /\ (a = 0 <=> x = 0) /\ (b = 0 <=> y = 0) /\ (c = 0 <=> z = 0)
    /\ Divides(f, a * (b * c)) => left = 1
    /\ left = 1 => a * (b * c) = (x * (y * z)) * f

LEMMA CancelsThree ==
    ASSUME NEW a \in Nat, NEW b \in Nat, NEW c \in Nat, NEW f \in Nat \ {0},
           NEW left, NEW x, NEW y, NEW z, Cancelled(a, b, c, f, left, x, y, z)
    PROVE  Quotient(a, b, c, f, left, x, y, z)
<1> DEFINE f1 == Left(f, a)
           f2 == Left(f1, b)
           f3 == Left(f2, c)
<1>1. left = f3 /\ x = Rest(a, f) /\ y = Rest(b, f1) /\ z = Rest(c, f2)
  <2>1. Cancel(<<a, b, c>>, f)
          = [left |-> f3, sources |-> <<Rest(a, f), Rest(b, f1), Rest(c, f2)>>]
        BY DEF Cancel
  <2> DEFINE r1 == Rest(a, f)
             r2 == Rest(b, f1)
             r3 == Rest(c, f2)
  <2> HIDE DEF f1, f2, f3, r1, r2, r3
  <2>2. [left |-> f3, sources |-> <<r1, r2, r3>>] = [left |-> left, sources |-> <<x, y, z>>]
        BY <2>1 DEF Cancelled, r1, r2, r3
  <2>3. f3 = left /\ <<r1, r2, r3>> = <<x, y, z>>
        BY <2>2
  <2>4. r1 = x /\ r2 = y /\ r3 = z
        BY <2>3
  <2> QED  BY <2>3, <2>4 DEF r1, r2, r3
<1>2. /\ f1 \in Nat \ {0} /\ x \in Nat /\ f * x = f1 * a /\ (a = 0 <=> x = 0)
      /\ \A k \in Nat : Divides(f, a * k) => Divides(f1, k)
      BY <1>1, CancelsOne
<1> HIDE DEF f1
<1>3. /\ f2 \in Nat \ {0} /\ y \in Nat /\ f1 * y = f2 * b /\ (b = 0 <=> y = 0)
      /\ \A k \in Nat : Divides(f1, b * k) => Divides(f2, k)
      BY <1>1, <1>2, CancelsOne
<1> HIDE DEF f2
<1>4. /\ f3 \in Nat \ {0} /\ z \in Nat /\ f2 * z = f3 * c /\ (c = 0 <=> z = 0)
      /\ \A k \in Nat : Divides(f2, c * k) => Divides(f3, k)
      BY <1>1, <1>3, CancelsOne
<1> HIDE DEF f3
<1>5. ASSUME Divides(f, a * (b * c)) PROVE f3 = 1
  <2>1. b * c \in Nat
        OBVIOUS
  <2>2. Divides(f2, c)
        BY <1>2, <1>3, <1>5, <2>1
  <2>3. c = c * 1
        OBVIOUS
  <2>4. Divides(f3, 1)
        BY <1>4, <2>2, <2>3
  <2>5. f3 <= 1
        BY <1>4, <2>4, DividesNoMore
  <2> QED  BY <1>4, <2>5
<1>6. ASSUME f3 = 1 PROVE a * (b * c) = (x * (y * z)) * f
  <2>1. f2 * z = c
        BY <1>4, <1>6
  <2>2. b * c = f1 * (y * z)
    <3>1. b * (f2 * z) = (b * f2) * z /\ b * f2 = f2 * b
          BY <1>3, <1>4, Reorders
    <3>2. (f1 * y) * z = f1 * (y * z)
          BY <1>2, <1>3, <1>4, Reorders
    <3> QED  BY <1>3, <2>1, <3>1, <3>2
  <2> DEFINE rest == y * z
  <2>3. rest \in Nat
        BY <1>3, <1>4
  <2> HIDE DEF rest
  <2>4. a * (f1 * rest) = (a * f1) * rest /\ a * f1 = f1 * a
        BY <1>2, <2>3, Reorders
  <2>5. (f * x) * rest = f * (x * rest) /\ f * (x * rest) = (x * rest) * f
    <3>1. x * rest \in Nat
          BY <1>2, <2>3
    <3> QED  BY <1>2, <2>3, <3>1, Reorders
  <2>6. b * c = f1 * rest
        BY <2>2 DEF rest
  <2>7. a * (b * c) = (x * rest) * f
        BY <1>2, <2>4, <2>5, <2>6
  <2> QED  BY <2>7 DEF rest
<1> QED  BY <1>1, <1>2, <1>3, <1>4, <1>5, <1>6 DEF Quotient

\* The scalars of a header, as the cancelling sees them.
Scalars(h) == h.rows * RowWidth(h)

\* What Validate_Reshape_Shape looks at: what is left of the rows and of the
\* channels, and the rests.
LEMMA ValidationIs ==
    ASSUME NEW h, NEW channels \in Nat \ {0}, NEW rows \in Nat \ {0}
    PROVE  \E left, x, y, z, last, u, v, w :
              /\ Cancelled(h.rows, h.cols, h.channels, rows, left, x, y, z)
              /\ Cancelled(x, y, z, channels, last, u, v, w)
              /\ Validate_Reshape_Shape(h, channels, rows)
                    <=> /\ left = 1 /\ last = 1
                        /\ u <= MaxInt /\ u * v <= MaxInt /\ u * v * w <= MaxInt
<1>1. PICK left, x, y, z : Cancelled(h.rows, h.cols, h.channels, rows, left, x, y, z)
      BY DEF Cancelled, Cancel
<1>2. PICK last, u, v, w : Cancelled(x, y, z, channels, last, u, v, w)
      BY DEF Cancelled, Cancel
<1> DEFINE first == Cancel(<<h.rows, h.cols, h.channels>>, rows)
           second == Cancel(<<x, y, z>>, channels)
<1>3. first.left = left /\ first.sources = <<x, y, z>>
      BY <1>1 DEF Cancelled
<1>4. /\ second.left = last /\ second.sources[1] = u
      /\ second.sources[2] = v /\ second.sources[3] = w
      BY <1>2 DEF Cancelled
<1>5. Cancel(first.sources, channels) = second
      BY <1>3
<1>6. Validate_Reshape_Shape(h, channels, rows)
        <=> /\ left = 1 /\ last = 1
            /\ u <= MaxInt /\ u * v <= MaxInt /\ u * v * w <= MaxInt
  <2> HIDE DEF second
  <2>1. Validate_Reshape_Shape(h, channels, rows)
          <=> /\ first.left = 1 /\ Cancel(first.sources, channels).left = 1
              /\ Cancel(first.sources, channels).sources[1] <= MaxInt
              /\ Cancel(first.sources, channels).sources[1]
                   * Cancel(first.sources, channels).sources[2] <= MaxInt
              /\ Cancel(first.sources, channels).sources[1]
                   * Cancel(first.sources, channels).sources[2]
                   * Cancel(first.sources, channels).sources[3] <= MaxInt
        BY DEF Validate_Reshape_Shape
  <2> HIDE DEF first
  <2> QED  BY <1>3, <1>4, <1>5, <2>1
<1> QED  BY <1>1, <1>2, <1>6

\* A shape that the Ada layer lets through is filled.
LEMMA ValidatedFills ==
    ASSUME NEW h, Inside(h), NEW channels \in Nat \ {0}, NEW rows \in Nat \ {0},
           Validate_Reshape_Shape(h, channels, rows)
    PROVE  \E k \in Nat : k <= MaxInt /\ Scalars(h) = (k * channels) * rows
<1> DEFINE a == h.rows
           b == h.cols
           c == h.channels
<1>1. a \in Nat /\ b \in Nat /\ c \in Nat /\ Scalars(h) = a * (b * c)
      BY DEF Inside, HeaderTyped, Scalars, RowWidth
<1>2. PICK left, x, y, z, last, u, v, w :
         /\ Cancelled(a, b, c, rows, left, x, y, z)
         /\ Cancelled(x, y, z, channels, last, u, v, w)
         /\ Validate_Reshape_Shape(h, channels, rows)
               <=> /\ left = 1 /\ last = 1
                   /\ u <= MaxInt /\ u * v <= MaxInt /\ u * v * w <= MaxInt
      BY ValidationIs
<1>3. left = 1 /\ last = 1 /\ u * v * w <= MaxInt
      BY <1>2
<1> HIDE DEF a, b, c
<1>4. Quotient(a, b, c, rows, left, x, y, z)
      BY <1>1, <1>2, CancelsThree
<1>5. x \in Nat /\ y \in Nat /\ z \in Nat /\ a * (b * c) = (x * (y * z)) * rows
      BY <1>3, <1>4 DEF Quotient
<1>6. Quotient(x, y, z, channels, last, u, v, w)
      BY <1>2, <1>5, CancelsThree
<1>7. u \in Nat /\ v \in Nat /\ w \in Nat /\ x * (y * z) = (u * (v * w)) * channels
      BY <1>3, <1>6 DEF Quotient
<1>8. u * v * w = u * (v * w) /\ u * (v * w) \in Nat
      BY <1>7, Reorders
<1> DEFINE k == u * (v * w)
<1>9. k \in Nat /\ k <= MaxInt
      BY <1>3, <1>8
<1>10. Scalars(h) = (k * channels) * rows
       BY <1>1, <1>5, <1>7
<1> HIDE DEF k
<1> QED  BY <1>9, <1>10

\* A shape that is filled by rows an int counts is let through.
LEMMA FilledValidates ==
    ASSUME NEW h, Inside(h), NEW channels \in Nat \ {0}, NEW rows \in Nat \ {0},
           NEW k \in Nat, k <= MaxInt, Scalars(h) = (k * channels) * rows
    PROVE  Validate_Reshape_Shape(h, channels, rows)
<1> DEFINE a == h.rows
           b == h.cols
           c == h.channels
<1>1. /\ a \in Nat /\ b \in Nat /\ c \in Nat \ {0} /\ MaxInt \in Nat
      /\ Scalars(h) = a * (b * c)
      BY GeometryAssumption DEF Inside, HeaderTyped, Scalars, RowWidth
<1>2. PICK left, x, y, z, last, u, v, w :
         /\ Cancelled(a, b, c, rows, left, x, y, z)
         /\ Cancelled(x, y, z, channels, last, u, v, w)
         /\ Validate_Reshape_Shape(h, channels, rows)
               <=> /\ left = 1 /\ last = 1
                   /\ u <= MaxInt /\ u * v <= MaxInt /\ u * v * w <= MaxInt
      BY ValidationIs
<1>3. (a = 0 /\ b = 0) \/ (a # 0 /\ b # 0)
      BY DEF Inside, Ends
<1> HIDE DEF a, b, c
<1>4. Quotient(a, b, c, rows, left, x, y, z)
      BY <1>1, <1>2, CancelsThree
<1>5. left = 1
  <2>1. k * channels \in Nat
        OBVIOUS
  <2>2. Divides(rows, a * (b * c))
        BY <1>1, <2>1 DEF Divides
  <2> QED  BY <1>4, <2>2 DEF Quotient
<1>6. /\ x \in Nat /\ y \in Nat /\ z \in Nat
      /\ (a = 0 <=> x = 0) /\ (b = 0 <=> y = 0) /\ (c = 0 <=> z = 0)
      /\ a * (b * c) = (x * (y * z)) * rows
      BY <1>4, <1>5 DEF Quotient
<1>7. x * (y * z) = k * channels
  <2> DEFINE p == x * (y * z)
             q == k * channels
  <2>1. p \in Nat /\ q \in Nat /\ p * rows = q * rows
        BY <1>1, <1>6
  <2> HIDE DEF p, q
  <2>2. p = q
        BY <2>1, SameFactor
  <2> QED  BY <2>2 DEF p, q
<1>8. Quotient(x, y, z, channels, last, u, v, w)
      BY <1>2, <1>6, CancelsThree
<1>9. last = 1
  <2>1. Divides(channels, x * (y * z))
        BY <1>7 DEF Divides
  <2> QED  BY <1>8, <2>1 DEF Quotient
<1>10. /\ u \in Nat /\ v \in Nat /\ w \in Nat
       /\ (x = 0 <=> u = 0) /\ (y = 0 <=> v = 0) /\ (z = 0 <=> w = 0)
       /\ x * (y * z) = (u * (v * w)) * channels
       BY <1>8, <1>9 DEF Quotient
<1>11. u * (v * w) = k
  <2> DEFINE p == u * (v * w)
  <2>1. p \in Nat /\ p * channels = k * channels
        BY <1>7, <1>10
  <2> HIDE DEF p
  <2>2. p = k
        BY <2>1, SameFactor
  <2> QED  BY <2>2 DEF p
<1>12. u * v * w = u * (v * w) /\ u * v \in Nat
       BY <1>10, Reorders
<1>13. u <= MaxInt /\ u * v <= MaxInt /\ u * v * w <= MaxInt
  <2>1. u * v * w <= MaxInt
        BY <1>11, <1>12
  <2>2. CASE a = 0 /\ b = 0
    <3>1. u = 0 /\ v = 0
          BY <1>6, <1>10, <2>2
    <3>2. u * v = 0
          BY <3>1
    <3> QED  BY <1>1, <2>1, <3>1, <3>2
  <2>3. CASE a # 0 /\ b # 0
    <3>1. u \in Nat \ {0} /\ v \in Nat \ {0} /\ w \in Nat \ {0}
          BY <1>1, <1>6, <1>10, <2>3
    <3>2. u * v \in Nat \ {0} /\ u <= u * v
          BY <3>1, Factors
    <3> DEFINE p == u * v
    <3>3. p \in Nat \ {0} /\ u <= p
          BY <3>2
    <3> HIDE DEF p
    <3>4. p <= p * w /\ p * w \in Nat
          BY <3>1, <3>3, Factors
    <3>5. p * w <= MaxInt
          BY <2>1 DEF p
    <3> DEFINE q == p * w
    <3>6. q \in Nat /\ p <= q /\ q <= MaxInt
          BY <3>4, <3>5
    <3> HIDE DEF q
    <3>7. u <= MaxInt /\ p <= MaxInt
          BY <1>1, <3>1, <3>3, <3>6
    <3> QED  BY <2>1, <3>7 DEF p
  <2> QED  BY <1>3, <2>2, <2>3
<1> QED  BY <1>2, <1>5, <1>9, <1>13

\* The cancelling of factors in Ada, which forms no product of the source's
\* extents, accepts a shape exactly when the scalars fill it and an int counts
\* its columns.
THEOREM CancellingIsExact == ViewSpec => []ReshapeAcceptsExactly
<1>1. VInv => ReshapeAcceptsExactly
  <2> SUFFICES ASSUME VInv, NEW channels \in ChannelCounts, NEW rows \in 1 .. MaxInt
               PROVE  Validate_Reshape_Shape(header, channels, rows)
                        <=> /\ Scalars(header) % (rows * channels) = 0
                            /\ Scalars(header) \div (rows * channels) <= MaxInt
      BY DEF ReshapeAcceptsExactly, Scalars
  <2> DEFINE n == Scalars(header)
             d == rows * channels
  <2>1. Inside(header) /\ channels \in Nat \ {0} /\ rows \in Nat \ {0} /\ MaxInt \in Nat
        BY GeometryAssumption DEF VInv
  <2>2. d \in Nat \ {0} /\ n \in Nat
    <3>1. d \in Nat \ {0}
          BY <2>1, Factors
    <3>2. n \in Nat
          BY <2>1 DEF Inside, HeaderTyped, Scalars, RowWidth
    <3> QED  BY <3>1, <3>2
  <2>3. \A k \in Nat : (k * channels) * rows = k * d
    <3> TAKE k \in Nat
    <3>1. (k * channels) * rows = k * (channels * rows) /\ channels * rows = d
          BY <2>1, Reorders
    <3> QED  BY <3>1
  <2> HIDE DEF n, d
  <2>4. ASSUME Validate_Reshape_Shape(header, channels, rows)
        PROVE  n % d = 0 /\ n \div d <= MaxInt
    <3>1. PICK k \in Nat : k <= MaxInt /\ n = (k * channels) * rows
          BY <2>1, <2>4, ValidatedFills DEF n
    <3>2. (k * d + 0) \div d = k /\ (k * d + 0) % d = 0
          BY <2>2, DivisionFindsRow, 0 \in 0 .. d - 1
    <3>3. k * d + 0 = n
          BY <2>2, <2>3, <3>1
    <3> QED  BY <3>1, <3>2, <3>3
  <2>5. ASSUME n % d = 0, n \div d <= MaxInt
        PROVE  Validate_Reshape_Shape(header, channels, rows)
    <3> DEFINE k == n \div d
    <3>1. k * d = n /\ k \in Nat
          BY <2>2, <2>5, Exactly
    <3>2. k <= MaxInt
          BY <2>5
    <3> HIDE DEF k
    <3>3. Scalars(header) = (k * channels) * rows
          BY <2>3, <3>1 DEF n
    <3> QED  BY <2>1, <3>1, <3>2, <3>3, FilledValidates
  <2> QED  BY <2>4, <2>5 DEF n, d
<1> QED  BY <1>1, AlwaysInside, PTL

\* Reshape without rows keeps them.
LEMMA KeepsRows ==
    ASSUME VInv, NEW channels \in Nat \ {0},
           Validate_Reshape_Shape(header, channels, header.rows)
    PROVE  ~ ChangesRows(header, channels, 0)
<1> DEFINE width == RowWidth(header)
           rows == header.rows
<1>1. rows \in Nat /\ width \in Nat /\ Inside(header)
      BY DEF VInv, Inside, HeaderTyped, RowWidth
<1>2. CASE rows = 0
  <2>1. width = 0
    <3>1. header.cols = 0
          BY <1>2 DEF VInv, Inside, Ends
    <3> QED  BY <1>1, <3>1 DEF RowWidth, Inside, HeaderTyped
  <2>2. rows * width = 0
        BY <1>2, <2>1
  <2>3. (0 * channels + 0) \div channels = 0 /\ 0 * channels + 0 = 0
        BY DivisionFindsRow, 0 \in 0 .. channels - 1
  <2>4. NativeRows(header, channels, 0) = 0
        BY <2>2, <2>3 DEF NativeRows
  <2> QED  BY <2>4 DEF ChangesRows
<1>3. CASE rows # 0
  <2>1. PICK k \in Nat : k <= MaxInt /\ Scalars(header) = (k * channels) * rows
    <3>1. rows \in Nat \ {0}
          BY <1>1, <1>3
    <3> QED  BY <1>1, <3>1, ValidatedFills
  <2>2. width > 0
        BY <1>1, <1>3 DEF Inside, Ends
  <2> HIDE DEF width, rows
  <2>3. width = k * channels
    <3> DEFINE p == k * channels
    <3>1. Scalars(header) = rows * width /\ rows * width = width * rows
          BY <1>1, Reorders DEF Scalars, width, rows
    <3>2. p \in Nat /\ width * rows = p * rows /\ rows \in Nat \ {0}
          BY <1>1, <1>3, <2>1, <3>1
    <3> HIDE DEF p
    <3>3. width = p
          BY <1>1, <3>2, SameFactor
    <3> QED  BY <3>3 DEF p
  <2>4. Divides(channels, width) /\ width \in Nat \ {0}
        BY <1>1, <2>2, <2>3 DEF Divides
  <2>5. width % channels = 0 /\ channels <= width
        BY <2>4, DividesIs, DividesNoMore
  <2>6. ~ DerivesRows(header, channels, 0)
        BY <1>1, <2>5 DEF DerivesRows, width
  <2> QED  BY <2>6 DEF ChangesRows, NativeRows
<1> QED  BY <1>2, <1>3

LEMMA ReshapedExactly ==
    ASSUME VInv, NEW channels \in Nat \ {0}, NEW rows \in Nat \ {0},
           Reshape_Rows(channels, rows), header' # header
    PROVE  /\ header'.rows = rows /\ header'.channels = channels
           /\ header'.data = header.data
           /\ rows * RowWidth(header') = header.rows * RowWidth(header)
           /\ rows # header.rows => Is_Continuous(header)
<1> DEFINE wide == NewRowWidth(header, channels, rows)
<1>1. /\ reshape_accepts(header, channels, rows)
      /\ header' = reshape(header, channels, rows)
      BY DEF Reshape_Rows, ReshapeTo
<1>2. NativeRows(header, channels, rows) = rows
      BY DEF NativeRows, DerivesRows
<1>3. ChangesRows(header, channels, rows) <=> rows # header.rows
      BY <1>2 DEF ChangesRows
<1>4. /\ header'.rows = rows /\ header'.channels = channels /\ header'.data = header.data
      /\ header'.cols = wide \div channels
      BY <1>1, <1>2, <1>3 DEF reshape, Header
<1>5. wide \in Nat /\ wide % channels = 0
  <2>1. Inside(header) /\ rows \in Nat
        BY DEF VInv
  <2> QED  BY <1>1, <2>1, ReshapedRows DEF reshape_accepts
<1>6. RowWidth(header') = wide
  <2>1. (wide \div channels) * channels = wide
    <3> HIDE DEF wide
    <3> QED  BY <1>5, Exactly
  <2> QED  BY <1>4, <2>1 DEF RowWidth
<1>7. rows * wide = header.rows * RowWidth(header)
  <2>1. CASE rows # header.rows
    <3>1. wide * rows = header.rows * RowWidth(header)
          BY <1>1, <1>2, <1>3, <2>1 DEF reshape_accepts
    <3>2. wide * rows = rows * wide
      <4> HIDE DEF wide
      <4> QED  BY <1>5, Reorders
    <3> QED  BY <3>1, <3>2
  <2>2. CASE rows = header.rows
    <3>1. wide = RowWidth(header)
          BY <1>3, <2>2 DEF NewRowWidth
    <3> QED  BY <2>2, <3>1
  <2> QED  BY <2>1, <2>2
<1>8. rows # header.rows => Is_Continuous(header)
      BY <1>1, <1>3 DEF reshape_accepts
<1> QED  BY <1>4, <1>6, <1>7, <1>8

\* Reshape keeps the rows although its native call, told "as many as there are",
\* may count them anew; Reshape_Rows gives the rows asked for; both give the
\* channels asked for and keep every scalar, and rows with gaps between them
\* keep their number.
THEOREM ReshapesGiveTheShape == ViewSpec => ReshapeGivesTheShape
<1> DEFINE Given ==
      \A channels \in ChannelCounts :
          /\ Reshape(channels) /\ header' /= header =>
                header'.rows = header.rows /\ header'.channels = channels
          /\ \A rows \in 1 .. MaxInt :
                Reshape_Rows(channels, rows) /\ header' /= header =>
                   /\ header'.rows = rows /\ header'.channels = channels
                   /\ header'.data = header.data
                   /\ rows * RowWidth(header') = header.rows * RowWidth(header)
                   /\ rows /= header.rows => Is_Continuous(header)
<1>1. VInv => Given
  <2> SUFFICES ASSUME VInv, NEW channels \in ChannelCounts
               PROVE  /\ Reshape(channels) /\ header' /= header =>
                            header'.rows = header.rows /\ header'.channels = channels
                      /\ \A rows \in 1 .. MaxInt :
                            Reshape_Rows(channels, rows) /\ header' /= header =>
                               /\ header'.rows = rows /\ header'.channels = channels
                               /\ header'.data = header.data
                               /\ rows * RowWidth(header') = header.rows * RowWidth(header)
                               /\ rows /= header.rows => Is_Continuous(header)
      OBVIOUS
  <2>1. channels \in Nat \ {0}
        BY GeometryAssumption
  <2>2. ASSUME Reshape(channels), header' # header
        PROVE  header'.rows = header.rows /\ header'.channels = channels
    <3>1. ~ ChangesRows(header, channels, 0)
          BY <2>1, <2>2, KeepsRows DEF Reshape
    <3>2. header' = reshape(header, channels, 0)
          BY <2>2 DEF Reshape, ReshapeTo
    <3> QED  BY <3>1, <3>2 DEF reshape, Header
  <2>3. ASSUME NEW rows \in 1 .. MaxInt, Reshape_Rows(channels, rows), header' # header
        PROVE  /\ header'.rows = rows /\ header'.channels = channels
               /\ header'.data = header.data
               /\ rows * RowWidth(header') = header.rows * RowWidth(header)
               /\ rows # header.rows => Is_Continuous(header)
    <3>1. rows \in Nat \ {0}
          BY GeometryAssumption
    <3> QED  BY <2>1, <2>3, <3>1, ReshapedExactly
  <2> QED  BY <2>2, <2>3
<1>2. ReshapeGivesTheShape <=> [][Given]_vars
      BY DEF ReshapeGivesTheShape
<1> HIDE DEF Given
<1> QED  BY <1>1, <1>2, AlwaysInside, PTL
==============================================================================
