------------------------------ MODULE NDViews ------------------------------
(***************************************************************************)
(* Matrices of any number of dimensions: their construction over storage   *)
(* of their own and over a client's buffer, packed or strided, and the     *)
(* views taken of them by Slice, With_Selected_View and Reshape.           *)
(*                                                                         *)
(* A matrix is a header: where its first element is, its extents, the      *)
(* bytes between neighbours in each dimension, and where its storage ends. *)
(* The Ada layer validates a request, the shim validates it again before   *)
(* any address is computed, and OpenCV computes the header.  Whether a     *)
(* header stays inside its storage is decided by sums of products of       *)
(* extents and steps that none of the three has in front of it at once.    *)
(*                                                                         *)
(* Addresses and steps count bytes, the strides of a client elements.      *)
(***************************************************************************)
EXTENDS Integers, Sequences, FiniteSets, Functions

CONSTANTS
    Nothing,         \* no call is running
    Buffer,          \* address of the storage
    MaxAddress,      \* the largest uintptr_t and size_t
    MaxNatural,      \* Natural'Last
    MaxDimensions,   \* 32, of the interface
    NativeMaxDimensions,    \* what a header has room for: 10 in OpenCV 5
    Created,         \* shapes, depths and channels Create is asked for
    External,        \* shapes, depths and channels of external views
    Lengths,         \* lengths of the buffer an external view is made over
    Strides,         \* strides asked for, in elements
    Targets          \* shapes and channels Reshape is asked for

VARIABLES
    header,          \* the header of the client's matrix
    storage,         \* the bytes of its storage that really exist
    formed,          \* the last address its construction computed
    refused,         \* the call that Ada let through and the shim did not
    passed           \* what the running call was given, or Nothing

vars == <<header, storage, formed, refused, passed>>

Product(s) == FoldFunction(LAMBDA a, b : a * b, 1, s)
Sum(s) == FoldFunction(LAMBDA a, b : a + b, 0, s)

Last(s) == s[Len(s)]

(***************************************************************************)
(* Headers and what can be asked of them.                                  *)
(***************************************************************************)
\* Bytes of one scalar.
elemSize1 ==
    [UInt8 |-> 1, Int8 |-> 1, UInt16 |-> 2, Int16 |-> 2, Float16 |-> 2,
     Int32 |-> 4, Float32 |-> 4, Float64 |-> 8]

elemSize(depth, channels) == elemSize1[depth] * channels

Default ==
    [data |-> 0, limit |-> 0, size |-> << >>, step |-> << >>,
     depth |-> "UInt8", channels |-> 1, temporary |-> FALSE]

Dimension_Count(h) == Len(h.size)
Extent(h, axis) == h.size[axis]
Rows(h) == IF Dimension_Count(h) = 2 THEN h.size[1] ELSE -1
Columns(h) == IF Dimension_Count(h) = 2 THEN h.size[2] ELSE -1
Total(h) == IF h.size = << >> THEN 0 ELSE Product(h.size)
Is_Empty(h) == Total(h) = 0
Element_Size(h) == elemSize(h.depth, h.channels)

\* Behind the first dimension that has two indices, every dimension fills a
\* step of the one before it.
Is_Continuous(h) ==
    \A j \in 2 .. Dimension_Count(h) :
        (\E k \in 1 .. j - 1 : h.size[k] > 1) => h.step[j] * h.size[j] >= h.step[j - 1]

PackedSteps(size, bytes) ==
    [i \in DOMAIN size |-> bytes * Product(SubSeq(size, i + 1, Len(size)))]

\* The constructor over existing data.  It computes the end of the outermost
\* dimension and stores the size of an element as the last step.
Header(data, size, step, depth, channels) ==
    [data |-> data,
     limit |-> data + size[1] * step[1],
     size |-> size,
     step |-> [step EXCEPT ![Len(size)] = elemSize(depth, channels)],
     depth |-> depth, channels |-> channels, temporary |-> FALSE]

Temporary(h) == [h EXCEPT !.temporary = TRUE]

\* checked_size_mul and checked_size_add never return more than this.
Fits(bytes) == bytes <= MaxAddress

\* Asked by both layers.
Aligned(depth) == Buffer % elemSize1[depth] = 0

\* A client's array, and what OpenCV could allocate, is in memory; OpenCV's
\* allocations are aligned for every depth.
ASSUME NDViewsAssumption ==
    /\ {Buffer, MaxAddress, MaxNatural} \subseteq Nat
    /\ {MaxDimensions, NativeMaxDimensions} \subseteq Nat \ {0, 1}
    /\ Lengths \subseteq Nat /\ Strides \subseteq Nat \ {0}
    /\ \A c \in Created \cup External :
          c.size \in Seq(Nat) /\ c.depth \in DOMAIN elemSize1 /\ c.channels \in Nat \ {0}
    /\ \A c \in Created :
          Aligned(c.depth) /\ Product(c.size) * elemSize(c.depth, c.channels) <= MaxAddress - Buffer
    /\ \A c \in External, length \in Lengths :
          length * elemSize(c.depth, c.channels) <= MaxAddress - Buffer
    /\ \A t \in Targets : t.size \in Seq(Nat) /\ t.channels \in Nat \ {0}

\* A call into the shim that makes h, if it accepts the arguments.
Call(accepts, h, bytes, last, what) ==
    /\ header' = IF accepts THEN h ELSE header
    /\ storage' = IF accepts THEN bytes ELSE storage
    /\ formed' = IF accepts THEN last ELSE formed
    /\ refused' = IF accepts THEN "nothing"
                  ELSE IF Len(h.size) > NativeMaxDimensions THEN "capacity" ELSE what

Construct(accepts, h, bytes) ==
    Call(accepts, h, bytes, h.limit, "construction") /\ UNCHANGED passed

\* The call runs until the view has been handed over.
View(accepts, h, last, drop, starts, stops) ==
    /\ Call(accepts, h, storage, last, "view")
    /\ passed' = IF accepts
                 THEN [call |-> "view", drop |-> drop, starts |-> starts, stops |-> stops]
                 ELSE Nothing

(***************************************************************************)
(* Construction.                                                           *)
(***************************************************************************)
DimensionsAccepted(size) == Len(size) \in 2 .. MaxDimensions

\* The shim keeps shapes that OpenCV has no room for away from it.
CapacityAccepted(size) == Len(size) <= MaxDimensions /\ Len(size) <= NativeMaxDimensions

Create(size, depth, channels) ==
    LET h == Header(Buffer, size, PackedSteps(size, elemSize(depth, channels)), depth, channels)
    IN  /\ DimensionsAccepted(size)
        /\ \A i \in DOMAIN size : size[i] > 0
        /\ Construct(CapacityAccepted(size), h, h.limit - Buffer)

\* Every product is checked before it is formed, here by its value.
Expected_Element_Count_accepts(rows, columns) == rows * columns <= MaxNatural

mat_create_external_2d_accepts(rows, columns, depth, channels, bytes) ==
    /\ rows > 0 /\ columns > 0
    /\ Aligned(depth)
    /\ Fits(rows * columns * elemSize(depth, channels))
    /\ bytes = rows * columns * elemSize(depth, channels)

\* Data'Length counts elements.
Create_Packed_2D_accepts(size, length) ==
    /\ size[1] > 0 /\ size[2] > 0
    /\ Expected_Element_Count_accepts(size[1], size[2])
    /\ length = size[1] * size[2]

Create_Packed_2D(size, depth, channels, length) ==
    LET bytes == length * elemSize(depth, channels)
    IN  /\ Len(size) = 2
        /\ Create_Packed_2D_accepts(size, length)
        /\ Aligned(depth)
        /\ Construct(mat_create_external_2d_accepts(size[1], size[2], depth, channels, bytes),
              Temporary(Header(Buffer, size, PackedSteps(size, elemSize(depth, channels)),
                               depth, channels)), bytes)

mat_create_external_2d_strided_accepts(rows, columns, depth, channels, bytes, stride) ==
    /\ rows > 0 /\ columns > 0
    /\ Fits(columns * elemSize(depth, channels))
    /\ stride >= columns * elemSize(depth, channels)
    /\ stride % elemSize1[depth] = 0
    /\ Fits(rows * stride)
    /\ bytes >= rows * stride
    /\ rows * stride <= MaxAddress - Buffer
    /\ Aligned(depth)

\* Mutant: the padding of the last row is not counted.
Create_Strided_2D_accepts_Logical_End(size, stride, length) ==
    /\ size[1] > 0 /\ size[2] > 0
    /\ Expected_Element_Count_accepts(size[1], size[2])
    /\ stride >= size[2]
    /\ length >= (size[1] - 1) * stride + size[2]

Create_Strided_2D_accepts(size, stride, length) ==
    /\ size[1] > 0 /\ size[2] > 0
    /\ Expected_Element_Count_accepts(size[1], size[2])
    /\ stride >= size[2]
    /\ size[1] * stride <= MaxNatural
    /\ length >= size[1] * stride

Create_Strided_2D(size, stride, depth, channels, length) ==
    LET bytes == elemSize(depth, channels)
    IN  /\ Len(size) = 2
        /\ Create_Strided_2D_accepts(size, stride, length)
        /\ Aligned(depth)
        /\ Construct(mat_create_external_2d_strided_accepts(
                 size[1], size[2], depth, channels, length * bytes, stride * bytes),
              Temporary(Header(Buffer, size, <<stride * bytes, bytes>>, depth, channels)),
              length * bytes)

\* Count never exceeds Natural'Last on the way.
Packed_Element_Count_accepts(size) ==
    /\ DimensionsAccepted(size)
    /\ \A i \in DOMAIN size : size[i] > 0
    /\ Product(size) <= MaxNatural

mat_create_external_nd_accepts(size, depth, channels, bytes) ==
    /\ DimensionsAccepted(size) /\ CapacityAccepted(size)
    /\ \A i \in DOMAIN size : size[i] > 0
    /\ Aligned(depth)
    /\ Fits(Product(size) * elemSize(depth, channels))
    /\ bytes = Product(size) * elemSize(depth, channels)
    /\ bytes <= MaxAddress - Buffer

Create_Packed_ND_accepts(size, length) ==
    /\ Packed_Element_Count_accepts(size)
    /\ length = Product(size)

Create_Packed_ND(size, depth, channels, length) ==
    LET bytes == length * elemSize(depth, channels)
    IN  /\ Create_Packed_ND_accepts(size, length)
        /\ Aligned(depth)
        /\ Construct(mat_create_external_nd_accepts(size, depth, channels, bytes),
              Temporary(Header(Buffer, size, PackedSteps(size, elemSize(depth, channels)),
                               depth, channels)), bytes)

Nests(size, stride) == \A i \in 1 .. Len(size) - 1 : stride[i] >= stride[i + 1] * size[i + 1]

LogicalEnd(size, stride, element) == element + Sum([i \in DOMAIN size |-> (size[i] - 1) * stride[i]])

\* The shim's checks of the arguments, ...
mat_create_external_nd_strided_arguments(size, stride) ==
    /\ DimensionsAccepted(size) /\ CapacityAccepted(size)
    /\ \A i \in DOMAIN size : size[i] > 0 /\ stride[i] > 0
    /\ Last(stride) = 1
    /\ Nests(size, stride)

\* ... and of the addresses that OpenCV will compute from them.
mat_create_external_nd_strided_accepts(size, stride, depth, channels, bytes) ==
    LET required == size[1] * stride[1]
    IN  /\ mat_create_external_nd_strided_arguments(size, stride)
        /\ \A i \in DOMAIN stride : Fits(stride[i] * elemSize(depth, channels))
        /\ Fits(required * elemSize(depth, channels))
        /\ LogicalEnd(size, stride, 1) <= required
        /\ bytes >= required * elemSize(depth, channels)
        /\ Aligned(depth)
        /\ required * elemSize(depth, channels) <= MaxAddress - Buffer

Strided_Required_Capacity_accepts(size, stride) ==
    /\ Packed_Element_Count_accepts(size)
    /\ Len(stride) = Len(size)
    /\ Last(stride) = 1
    /\ Nests(size, stride)
    /\ size[1] * stride[1] <= MaxNatural
    /\ LogicalEnd(size, stride, 1) <= size[1] * stride[1]

Create_Strided_ND(size, stride, depth, channels, length) ==
    LET bytes == elemSize(depth, channels)
    IN  /\ Strided_Required_Capacity_accepts(size, stride)
        /\ length >= size[1] * stride[1]
        /\ Aligned(depth)
        /\ Construct(mat_create_external_nd_strided_accepts(
                 size, stride, depth, channels, length * bytes),
              Temporary(Header(Buffer, size, [i \in DOMAIN stride |-> stride[i] * bytes],
                               depth, channels)),
              length * bytes)

(***************************************************************************)
(* Views.  A view of a view that lives in a callback is refused.           *)
(***************************************************************************)
\* Mutant: a range may be empty, as OpenCV's may.
Slice_accepts_Empty_Ranges(h, starts, stops) ==
    /\ Dimension_Count(h) > 0
    /\ Len(starts) = Dimension_Count(h)
    /\ \A i \in DOMAIN starts : starts[i] <= stops[i] /\ stops[i] <= Extent(h, i)

Slice_accepts(h, starts, stops) ==
    /\ Dimension_Count(h) > 0
    /\ Len(starts) = Dimension_Count(h)
    /\ \A i \in DOMAIN starts : starts[i] < stops[i] /\ stops[i] <= Extent(h, i)

mat_slice_nd_accepts(h, starts, stops) ==
    /\ ~ h.temporary
    /\ Len(starts) <= MaxDimensions
    /\ Len(starts) = Len(h.size)
    /\ \A i \in DOMAIN starts :
          0 <= starts[i] /\ starts[i] <= stops[i] /\ stops[i] <= h.size[i]

\* Mutant: the first index of the outermost range is not added.
mat_slice_nd_From_First_Block(h, starts, stops) ==
    [h EXCEPT !.data = @ + Sum([i \in 2 .. Len(starts) |-> starts[i] * h.step[i]]),
              !.size = [i \in DOMAIN starts |-> stops[i] - starts[i]]]

\* Mutant: the end of a range is taken for its length.
mat_slice_nd_Stops_As_Lengths(h, starts, stops) ==
    [h EXCEPT !.data = @ + Sum([i \in DOMAIN starts |-> starts[i] * h.step[i]]),
              !.size = stops]

mat_slice_nd(h, starts, stops) ==
    [h EXCEPT !.data = @ + Sum([i \in DOMAIN starts |-> starts[i] * h.step[i]]),
              !.size = [i \in DOMAIN starts |-> stops[i] - starts[i]]]

Slice(starts, stops) ==
    /\ Slice_accepts(header, starts, stops)
    /\ View(mat_slice_nd_accepts(header, starts, stops),
            mat_slice_nd(header, starts, stops), formed, {}, starts, stops)

\* A fixed index is the range of one index that starts at it.
Selections_accepted(h, drop, starts, stops) ==
    /\ ~ Is_Empty(h)
    /\ Dimension_Count(h) >= 3
    /\ Len(starts) = Dimension_Count(h)
    /\ \A i \in DOMAIN starts : starts[i] < stops[i] /\ stops[i] <= Extent(h, i)
    /\ \A i \in drop : stops[i] = starts[i] + 1
    /\ drop /= {} /\ Cardinality(DOMAIN starts \ drop) >= 2
    /\ Dimension_Count(h) \notin drop

\* The shim: selectors, and what is left of the extents and steps.
selectors_accepted(h, drop, starts, stops) ==
    /\ ~ h.temporary
    /\ Len(starts) = Len(h.size)
    /\ \A i \in DOMAIN starts :
          /\ 0 <= starts[i] /\ starts[i] < stops[i] /\ stops[i] <= h.size[i]
          /\ i \in drop => stops[i] - starts[i] = 1
    /\ drop /= {}
    /\ Len(h.size) - Cardinality(drop) >= 2
    /\ Len(h.size) \notin drop

\* The dimensions that are not dropped, in order.
Kept(h, drop) ==
    LET kept[i \in 1 .. Dimension_Count(h) + 1] ==
            IF i = Dimension_Count(h) + 1 THEN << >>
            ELSE IF i \in drop THEN kept[i + 1]
            ELSE <<i>> \o kept[i + 1]
    IN  kept[1]

SelectedSize(h, drop, starts, stops) ==
    LET kept == Kept(h, drop)
    IN  [k \in DOMAIN kept |-> stops[kept[k]] - starts[kept[k]]]

\* Mutant: steps are computed anew, as for a matrix of its own.
SelectedStep_Packed(h, drop, starts, stops) ==
    PackedSteps(SelectedSize(h, drop, starts, stops), Element_Size(h))

SelectedStep(h, drop, starts, stops) ==
    LET kept == Kept(h, drop)
    IN  [k \in DOMAIN kept |-> h.step[kept[k]]]

SelectedOffset(h, starts) == Sum([i \in DOMAIN starts |-> starts[i] * h.step[i]])

\* The shim: every address that follows from them is inside the storage.
\* dataend, which only this check reads, is never behind datalimit.
selected_spans_accepted(h, drop, starts, stops) ==
    LET size == SelectedSize(h, drop, starts, stops)
        step == SelectedStep(h, drop, starts, stops)
        end == LogicalEnd(size, step, Element_Size(h))
        offset == SelectedOffset(h, starts)
    IN  /\ Fits(offset)
        /\ Last(step) = Element_Size(h)
        /\ Nests(size, step)
        /\ Fits(size[1] * step[1])
        /\ end <= size[1] * step[1]
        /\ Buffer <= h.data /\ h.data <= h.limit
        /\ offset <= h.limit - h.data
        /\ end <= h.limit - (h.data + offset)
        /\ size[1] * step[1] <= h.limit - Buffer

\* Mutant: the header is constructed over the first element that is selected.
SelectedCarrier_At_Base(h, drop, starts, stops) ==
    Header(h.data + SelectedOffset(h, starts),
           SelectedSize(h, drop, starts, stops), SelectedStep(h, drop, starts, stops),
           h.depth, h.channels)

\* The header is constructed over the beginning of the storage and moved.
SelectedCarrier(h, drop, starts, stops) ==
    Header(Buffer, SelectedSize(h, drop, starts, stops), SelectedStep(h, drop, starts, stops),
           h.depth, h.channels)

With_Selected_View(drop, starts, stops) ==
    LET carrier == SelectedCarrier(header, drop, starts, stops)
    IN  /\ Selections_accepted(header, drop, starts, stops)
        /\ View(/\ selectors_accepted(header, drop, starts, stops)
                /\ selected_spans_accepted(header, drop, starts, stops),
                Temporary([carrier EXCEPT !.data = header.data + SelectedOffset(header, starts),
                                          !.limit = header.limit]),
                carrier.limit, drop, starts, stops)

(***************************************************************************)
(* Reshape to a shape of any number of dimensions.                         *)
(***************************************************************************)
Greatest_Common_Divisor(a, b) ==
    CHOOSE d \in 1 .. a : /\ a % d = 0 /\ b % d = 0
                          /\ \A e \in d + 1 .. a : a % e /= 0 \/ b % e /= 0

\* A factor of the target is cancelled against the total, then against the
\* channels; what is left of each is the next state.
Cancel(state, factor) ==
    LET first == Greatest_Common_Divisor(state.total, factor)
        second == Greatest_Common_Divisor(state.channels, factor \div first)
    IN  [total |-> state.total \div first,
         channels |-> state.channels \div second,
         exact |-> state.exact /\ factor = first * second]

\* Mutant: gaps between rows are not noticed.
Validate_ND_Reshape_Any_Steps(h, channels, size) ==
    /\ ~ Is_Empty(h)
    /\ DimensionsAccepted(size)
    /\ \A i \in DOMAIN size : size[i] > 0
    /\ Product(size) * channels = Total(h) * h.channels

Validate_ND_Reshape(h, channels, size) ==
    /\ ~ Is_Empty(h)
    /\ Is_Continuous(h)
    /\ DimensionsAccepted(size)
    /\ \A i \in DOMAIN size : size[i] > 0
    /\ LET factors == Append(size, channels)
           state[k \in 0 .. Len(factors)] ==
              IF k = 0
              THEN [total |-> Total(h), channels |-> h.channels, exact |-> TRUE]
              ELSE Cancel(state[k - 1], factors[k])
       IN  state[Len(factors)] = [total |-> 1, channels |-> 1, exact |-> TRUE]

mat_reshape_nd_accepts(h, channels, size) ==
    /\ ~ h.temporary
    /\ DimensionsAccepted(size) /\ CapacityAccepted(size)
    /\ ~ Is_Empty(h)
    /\ \A i \in DOMAIN size : size[i] > 0
    /\ Fits(Product(size) * channels) /\ Fits(Total(h) * h.channels)
    /\ Product(size) * channels = Total(h) * h.channels

\* OpenCV packs the steps, but a matrix that keeps two dimensions keeps its
\* row step unless the number of rows changes.
reshape(h, channels, size) ==
    LET packed == PackedSteps(size, elemSize(h.depth, channels))
    IN  [h EXCEPT !.size = size,
                  !.channels = channels,
                  !.step = IF Dimension_Count(h) = 2 /\ Len(size) = 2 /\ size[1] = h.size[1]
                           THEN <<h.step[1], packed[2]>>
                           ELSE packed]

Reshape(channels, size) ==
    /\ Validate_ND_Reshape(header, channels, size)
    /\ Call(mat_reshape_nd_accepts(header, channels, size) /\ Is_Continuous(header),
            reshape(header, channels, size), storage, formed, "view")
    /\ UNCHANGED passed

\* The client is done with the matrix, or a callback with its view.
Finalize ==
    /\ header /= Default
    /\ Call(TRUE, Default, 0, 0, "nothing")
    /\ UNCHANGED passed

-----------------------------------------------------------------------------
Init ==
    /\ header = Default /\ storage = 0 /\ formed = 0
    /\ refused = "nothing"
    /\ passed = Nothing

\* The ranges tried in a dimension: all that lie in it, an empty one and one
\* past its end.
Ranges(extent) ==
    {r \in (0 .. extent) \X (1 .. extent) : r[1] < r[2]} \cup {<<0, 0>>, <<0, extent + 1>>}

Selections(h) ==
    {s \in [DOMAIN h.size -> UNION {Ranges(h.size[i]) : i \in DOMAIN h.size}] :
        \A i \in DOMAIN h.size : s[i] \in Ranges(h.size[i])}

ConstructNext ==
    /\ header = Default
    /\ \/ \E c \in Created : Create(c.size, c.depth, c.channels)
       \/ \E c \in External, length \in Lengths :
             \/ Create_Packed_2D(c.size, c.depth, c.channels, length)
             \/ Create_Packed_ND(c.size, c.depth, c.channels, length)
             \/ \E stride \in Strides :
                   Create_Strided_2D(c.size, stride, c.depth, c.channels, length)
             \/ \E stride \in [DOMAIN c.size -> Strides] :
                   Create_Strided_ND(c.size, stride, c.depth, c.channels, length)

DeriveNext ==
    \/ \E s \in Selections(header) :
          LET starts == [i \in DOMAIN s |-> s[i][1]]
              stops == [i \in DOMAIN s |-> s[i][2]]
          IN  \/ Slice(starts, stops)
              \/ \E drop \in SUBSET DOMAIN s : With_Selected_View(drop, starts, stops)
    \/ \E t \in Targets : Reshape(t.channels, t.size)

ViewNext == ConstructNext \/ DeriveNext \/ Finalize
==============================================================================
