--------------------------- MODULE ElementAccess ---------------------------
(***************************************************************************)
(* Typed access to the elements of a matrix: single elements by row and    *)
(* column or by one index per dimension, rows that are copied, and rows    *)
(* and whole matrices that a callback borrows.                             *)
(*                                                                         *)
(* There is a package for each depth and channel count and, in the shim, a *)
(* function for each of its operations.  Each names the depth it compares, *)
(* the channels it compares and the native type whose size it multiplies   *)
(* by: nothing but care keeps the three in step, in some hundred and sixty *)
(* functions.  An access records the addresses of the scalars it copies or *)
(* exposes, in the order of the client's record or array, so reading and   *)
(* writing are the same here.                                              *)
(***************************************************************************)
EXTENDS NDViews

\* The depth and channels a function compares, and the size of the native
\* scalar it copies.
T(depth, channels, size) == [depth |-> depth, channels |-> channels, size |-> size]

(***************************************************************************)
(* The functions of the shim, by the code they share.                      *)
(***************************************************************************)
get_set_8 == {T("UInt8", 1, 1), T("Int8", 1, 1)}
get_set_16 == {T("UInt16", 1, 2), T("Int16", 1, 2)}
get_set_32 == {T("Int32", 1, 4), T("Float32", 1, 4)}
get_set_64_and_half == {T("Float64", 1, 8), T("Float16", 1, 2)}
get_set_uint8_vec3 == {T("UInt8", 3, 1)}
get_set_int8_vec3 == {T("Int8", 3, 1)}
get_set_integer_vec3 == {T("Int32", 3, 4), T("UInt16", 3, 2), T("Int16", 3, 2)}
get_set_real_vec3 == {T("Float32", 3, 4), T("Float64", 3, 8)}
get_set_float16_vec3 == {T("Float16", 3, 2)}

get_set_8_nd == {T("UInt8", 1, 1), T("Int8", 1, 1)}
get_set_16_nd == {T("UInt16", 1, 2), T("Int16", 1, 2)}
get_set_32_nd == {T("Int32", 1, 4), T("Float32", 1, 4)}
get_set_64_and_half_nd == {T("Float64", 1, 8), T("Float16", 1, 2)}
get_set_int8_vec3_nd == {T("Int8", 3, 1)}
get_set_uint8_vec3_nd == {T("UInt8", 3, 1)}
get_set_integer_vec3_nd == {T("UInt16", 3, 2), T("Int32", 3, 4), T("Int16", 3, 2)}
get_set_real_vec3_nd == {T("Float32", 3, 4), T("Float64", 3, 8)}
get_set_float16_vec3_nd == {T("Float16", 3, 2)}

copy_8_row == {T("UInt8", 1, 1), T("Int8", 1, 1)}
copy_16_row == {T("UInt16", 1, 2), T("Int16", 1, 2)}
copy_32_row == {T("Int32", 1, 4), T("Float32", 1, 4)}
copy_float64_row == {T("Float64", 1, 8)}
copy_float16_row == {T("Float16", 1, 2)}
copy_uint8_vec3_row == {T("UInt8", 3, 1)}
copy_int8_vec3_row == {T("Int8", 3, 1)}
copy_integer_vec3_row == {T("UInt16", 3, 2), T("Int32", 3, 4), T("Int16", 3, 2)}
copy_real_vec3_row == {T("Float32", 3, 4), T("Float64", 3, 8)}
copy_float16_vec3_row == {T("Float16", 3, 2)}

\* Mutant: the native type of a depth is copied from the line above.
DEFINE_VEC2_Same_Type ==
    {T("Float32", 2, 4), T("Float64", 2, 8), T("UInt8", 2, 1), T("UInt16", 2, 2),
     T("Int16", 2, 2), T("Int32", 2, 2), T("Int8", 2, 1)}

\* The instances of the Vec2 and Vec4 macros, and the Float16 vectors.
DEFINE_VEC2 ==
    {T("Float32", 2, 4), T("Float64", 2, 8), T("UInt8", 2, 1), T("UInt16", 2, 2),
     T("Int16", 2, 2), T("Int32", 2, 4), T("Int8", 2, 1)}
DEFINE_VEC4 ==
    {T("UInt8", 4, 1), T("UInt16", 4, 2), T("Int16", 4, 2), T("Int32", 4, 4),
     T("Float32", 4, 4), T("Float64", 4, 8), T("Int8", 4, 1)}
float16_vector == {T("Float16", 2, 2), T("Float16", 4, 2)}

Scalars == get_set_8 \cup get_set_16 \cup get_set_32 \cup get_set_64_and_half
Vec3s == get_set_uint8_vec3 \cup get_set_int8_vec3 \cup get_set_integer_vec3 \cup get_set_real_vec3
ScalarsND == get_set_8_nd \cup get_set_16_nd \cup get_set_32_nd \cup get_set_64_and_half_nd
Vec3sND ==
    get_set_int8_vec3_nd \cup get_set_uint8_vec3_nd \cup get_set_integer_vec3_nd
        \cup get_set_real_vec3_nd
ScalarRows == copy_8_row \cup copy_16_row \cup copy_32_row \cup copy_float64_row
Vec3Rows == copy_uint8_vec3_row \cup copy_int8_vec3_row \cup copy_integer_vec3_row
                \cup copy_real_vec3_row

\* The instances of the generic borrowing packages: one for each of them all.
Borrowing ==
    Scalars \cup Vec3s \cup get_set_float16_vec3 \cup DEFINE_VEC2 \cup DEFINE_VEC4
        \cup float16_vector

ElementBytes(t) == t.channels * t.size

(***************************************************************************)
(* The Ada layer's checks.  Rows and Columns of a matrix that has not two  *)
(* dimensions raise an exception.                                          *)
(***************************************************************************)
Validate_Type(h, t) == h.depth = t.depth /\ h.channels = t.channels

Validate_At(h, t, row, column) ==
    /\ Validate_Type(h, t)
    /\ 0 <= row /\ row < Rows(h)
    /\ 0 <= column /\ column < Columns(h)

\* Mutant: the size of an element is taken for its type.
Validate_Index_By_Size(h, t, index) ==
    /\ Element_Size(h) = ElementBytes(t)
    /\ Dimension_Count(h) > 0
    /\ Len(index) = Dimension_Count(h)
    /\ \A i \in DOMAIN index : index[i] < Extent(h, i)

Validate_Index(h, t, index) ==
    /\ Validate_Type(h, t)
    /\ Dimension_Count(h) > 0
    /\ Len(index) = Dimension_Count(h)
    /\ \A i \in DOMAIN index : index[i] < Extent(h, i)

Validate_Row(h, t, row, length) ==
    /\ Validate_Type(h, t)
    /\ row < Rows(h)
    /\ length = Columns(h)

Validate_Borrow_Row(h, t, row) ==
    /\ Validate_Type(h, t)
    /\ Dimension_Count(h) = 2
    /\ row < Rows(h)

Validate_Borrow(h, t) ==
    /\ Validate_Type(h, t)
    /\ Total(h) /= 0 => Is_Continuous(h)
    /\ Total(h) <= MaxNatural

(***************************************************************************)
(* The shim's checks.                                                      *)
(***************************************************************************)
validate_typed_at(h, t, row, column) ==
    /\ 0 <= row /\ 0 <= column
    /\ Dimension_Count(h) = 2
    /\ h.depth = t.depth /\ h.channels = t.channels
    /\ row < Rows(h) /\ column < Columns(h)

prepare_nd_typed_at(h, t, index) ==
    /\ Len(index) <= MaxDimensions
    /\ Dimension_Count(h) > 0
    /\ Len(index) = Dimension_Count(h)
    /\ Element_Size(h) = ElementBytes(t)
    /\ \A i \in DOMAIN index : index[i] < h.size[i]

prepare_nd_vector_at(h, t, index) ==
    /\ prepare_nd_typed_at(h, t, index)
    /\ h.depth = t.depth /\ h.channels = t.channels

float16_vector_pixel_accepts(h, t, row, column) ==
    /\ validate_typed_at(h, t, row, column)
    /\ elemSize1[h.depth] = 2 /\ Element_Size(h) = ElementBytes(t)

float16_vector_pixel_nd_accepts(h, t, index) ==
    /\ prepare_nd_vector_at(h, t, index)
    /\ elemSize1[h.depth] = 2

vec2_at_accepts(h, t, row, column) ==
    /\ validate_typed_at(h, t, row, column)
    /\ Element_Size(h) = ElementBytes(t)

vec4_at_accepts(h, t, row, column) ==
    /\ validate_typed_at(h, t, row, column)
    /\ Element_Size(h) = ElementBytes(t)

\* The byte count of a row is compared with the largest size by division.
prepare_row(h, t, row, length) ==
    /\ 0 <= row
    /\ Dimension_Count(h) = 2
    /\ h.depth = t.depth /\ h.channels = 1
    /\ row < Rows(h)
    /\ length = Columns(h)
    /\ Fits(length * t.size)

prepare_float16_row(h, t, row, length) ==
    /\ prepare_row(h, t, row, length)
    /\ Element_Size(h) = 2

prepare_vector_row(h, t, row, length) ==
    /\ 0 <= row
    /\ Dimension_Count(h) = 2
    /\ h.depth = t.depth /\ h.channels = t.channels
    /\ row < Rows(h)
    /\ length = Columns(h)
    /\ Fits(length * ElementBytes(t))
    /\ Element_Size(h) = ElementBytes(t)

prepare_float16_vector_row(h, t, row, length) ==
    /\ prepare_vector_row(h, t, row, length)
    /\ elemSize1[h.depth] = 2

vec2_row_accepts(h, t, row, length) ==
    /\ Dimension_Count(h) = 2 /\ 0 <= row /\ row < Rows(h)
    /\ length = Columns(h)
    /\ h.depth = t.depth
    /\ h.channels = 2 /\ Element_Size(h) = ElementBytes(t)
    /\ Fits(length * ElementBytes(t))

vec4_row_accepts(h, t, row, length) ==
    /\ prepare_vector_row(h, t, row, length)
    /\ Fits(length * ElementBytes(t))

(***************************************************************************)
(* The addresses they compute.                                             *)
(***************************************************************************)
ptr(h, row) == h.data + row * h.step[1]
ptr_nd(h, index) == h.data + Sum([i \in DOMAIN index |-> index[i] * h.step[i]])

\* Scalars that follow each other in memory.
Run(first, count, t) == [k \in 1 .. count |-> first + (k - 1) * t.size]

at(h, t, row, column) == Run(ptr(h, row) + column * ElementBytes(t), t.channels, t)

pixel(h, t, row, column) == Run(ptr(h, row) + column * Element_Size(h), t.channels, t)

at_nd(h, t, index) == Run(ptr_nd(h, index), t.channels, t)

\* memcpy of a row.
copied_row(h, t, row) == Run(ptr(h, row), Columns(h) * t.channels, t)

\* Mutant: vectors are stored a native vector apart in the client's array,
\* and fetched one scalar apart.
vector_row_By_Scalar(h, t, row) ==
    [k \in 1 .. Columns(h) * t.channels |->
        ptr(h, row) + (((k - 1) \div t.channels) + ((k - 1) % t.channels)) * t.size]

\* Component k of column i is scalar i * channels + k of the client's array.
vector_row(h, t, row) ==
    [k \in 1 .. Columns(h) * t.channels |->
        ptr(h, row) + ((k - 1) \div t.channels) * ElementBytes(t)
                    + ((k - 1) % t.channels) * t.size]

(***************************************************************************)
(* Actions.  An access runs until the call, or the callback, returns.      *)
(***************************************************************************)
Access(accepts, t, index, scalars) ==
    /\ passed' = IF accepts
                 THEN [call |-> "access", index |-> index, depth |-> t.depth, scalars |-> scalars]
                 ELSE Nothing
    /\ refused' = IF accepts THEN "nothing" ELSE "access"
    /\ UNCHANGED <<header, storage, formed>>

Get_Set(t, row, column) ==
    /\ Validate_At(header, t, row, column)
    /\ Access(validate_typed_at(header, t, row, column), t, <<row, column>>,
              at(header, t, row, column))

Get_Set_Vec2(t, row, column) ==
    /\ Validate_At(header, t, row, column)
    /\ Access(vec2_at_accepts(header, t, row, column), t, <<row, column>>,
              at(header, t, row, column))

Get_Set_Vec4(t, row, column) ==
    /\ Validate_At(header, t, row, column)
    /\ Access(vec4_at_accepts(header, t, row, column), t, <<row, column>>,
              at(header, t, row, column))

Get_Set_Float16_Vector(t, row, column) ==
    /\ Validate_At(header, t, row, column)
    /\ Access(float16_vector_pixel_accepts(header, t, row, column), t, <<row, column>>,
              pixel(header, t, row, column))

Get_Set_ND(t, index) ==
    /\ Validate_Index(header, t, index)
    /\ Access(prepare_nd_typed_at(header, t, index), t, index, at_nd(header, t, index))

Get_Set_Vector_ND(t, index) ==
    /\ Validate_Index(header, t, index)
    /\ Access(prepare_nd_vector_at(header, t, index), t, index, at_nd(header, t, index))

Get_Set_Float16_Vector_ND(t, index) ==
    /\ Validate_Index(header, t, index)
    /\ Access(float16_vector_pixel_nd_accepts(header, t, index), t, index,
              at_nd(header, t, index))

Copy_Row(t, row, length) ==
    /\ Validate_Row(header, t, row, length)
    /\ Access(prepare_row(header, t, row, length), t, <<row>>, copied_row(header, t, row))

Copy_Float16_Row(t, row, length) ==
    /\ Validate_Row(header, t, row, length)
    /\ Access(prepare_float16_row(header, t, row, length), t, <<row>>,
              copied_row(header, t, row))

Copy_Vec2_Row(t, row, length) ==
    /\ Validate_Row(header, t, row, length)
    /\ Access(vec2_row_accepts(header, t, row, length), t, <<row>>, vector_row(header, t, row))

Copy_Vec3_Row(t, row, length) ==
    /\ Validate_Row(header, t, row, length)
    /\ Access(prepare_vector_row(header, t, row, length), t, <<row>>,
              vector_row(header, t, row))

Copy_Vec4_Row(t, row, length) ==
    /\ Validate_Row(header, t, row, length)
    /\ Access(vec4_row_accepts(header, t, row, length), t, <<row>>, vector_row(header, t, row))

Copy_Float16_Vector_Row(t, row, length) ==
    /\ Validate_Row(header, t, row, length)
    /\ Access(prepare_float16_vector_row(header, t, row, length), t, <<row>>,
              copied_row(header, t, row))

\* The lease shares the header, so what is validated is what is borrowed.
\* Ada overlays its array on the bytes if they are as many as it expects and
\* aligned for its elements.
mat_borrow_row_data_bytes(h) == Columns(h) * Element_Size(h)

Borrow_Row(t, row) ==
    /\ Validate_Borrow_Row(header, t, row)
    /\ Access(/\ Fits(mat_borrow_row_data_bytes(header))
              /\ mat_borrow_row_data_bytes(header) = Columns(header) * ElementBytes(t)
              /\ ptr(header, row) % t.size = 0,
              t, <<row>>, Run(ptr(header, row), Columns(header) * t.channels, t))

mat_borrow_contiguous_data_accepts(h) ==
    /\ Is_Continuous(h)
    /\ Fits(Total(h) * Element_Size(h))

\* A matrix without elements lends an empty array, whatever its storage.
Borrow(t) ==
    /\ Validate_Borrow(header, t)
    /\ Access(Total(header) = 0
              \/ /\ mat_borrow_contiguous_data_accepts(header)
                 /\ Total(header) * Element_Size(header) = Total(header) * ElementBytes(t)
                 /\ header.data % t.size = 0,
              t, << >>, Run(header.data, Total(header) * t.channels, t))

Return ==
    /\ passed /= Nothing
    /\ passed' = Nothing
    /\ UNCHANGED <<header, storage, formed, refused>>

Indices(h) ==
    {index \in [DOMAIN h.size -> UNION {0 .. h.size[i] : i \in DOMAIN h.size}] :
        \A i \in DOMAIN h.size : index[i] <= h.size[i]}

ElementNext ==
    \E row \in -1 .. Rows(header), column \in -1 .. Columns(header) :
       \/ \E t \in Scalars \cup Vec3s : Get_Set(t, row, column)
       \/ \E t \in DEFINE_VEC2 : Get_Set_Vec2(t, row, column)
       \/ \E t \in DEFINE_VEC4 : Get_Set_Vec4(t, row, column)
       \/ \E t \in float16_vector \cup get_set_float16_vec3 :
             Get_Set_Float16_Vector(t, row, column)

IndexNext ==
    \E index \in Indices(header) :
       \/ \E t \in ScalarsND : Get_Set_ND(t, index)
       \/ \E t \in Vec3sND \cup DEFINE_VEC2 \cup DEFINE_VEC4 : Get_Set_Vector_ND(t, index)
       \/ \E t \in float16_vector \cup get_set_float16_vec3_nd :
             Get_Set_Float16_Vector_ND(t, index)

RowNext ==
    \E row \in 0 .. Rows(header), length \in {Columns(header), Columns(header) + 1} :
       \/ \E t \in ScalarRows : Copy_Row(t, row, length)
       \/ \E t \in copy_float16_row : Copy_Float16_Row(t, row, length)
       \/ \E t \in DEFINE_VEC2 : Copy_Vec2_Row(t, row, length)
       \/ \E t \in Vec3Rows : Copy_Vec3_Row(t, row, length)
       \/ \E t \in DEFINE_VEC4 : Copy_Vec4_Row(t, row, length)
       \/ \E t \in float16_vector \cup copy_float16_vec3_row :
             Copy_Float16_Vector_Row(t, row, length)

BorrowNext ==
    \E t \in Borrowing :
       \/ \E row \in 0 .. Rows(header) : Borrow_Row(t, row)
       \/ Borrow(t)

Next ==
    \/ /\ passed = Nothing
       /\ \/ ViewNext
          \/ ElementNext
          \/ IndexNext
          \/ RowNext
          \/ BorrowNext
    \/ Return

Spec == Init /\ [][Next]_vars

(***************************************************************************)
(* Properties.                                                             *)
(***************************************************************************)
\* The addresses of the scalars of h in row-major order: by its steps, and
\* one behind the other within an element.
ScalarsOf(h) ==
    LET last == Len(h.size)
        scalars == Total(h) * h.channels
        weight == [i \in DOMAIN h.size |-> h.channels * Product(SubSeq(h.size, i + 1, last))]
    IN  [p \in 1 .. scalars |->
            h.data
            + Sum([i \in DOMAIN h.size |->
                     (((p - 1) \div weight[i]) % h.size[i]) * h.step[i]])
            + ((p - 1) % h.channels) * elemSize1[h.depth]]

\* The state has its type, and no header more dimensions than it has room for.
TypeOK ==
    /\ Len(header.size) <= NativeMaxDimensions
    /\ header.data \in Nat /\ header.limit \in Nat
    /\ header.size \in Seq(Nat \ {0}) /\ header.step \in Seq(Nat \ {0})
    /\ Len(header.step) = Len(header.size)
    /\ header.depth \in DOMAIN elemSize1 /\ header.channels \in Nat \ {0}
    /\ header.temporary \in BOOLEAN
    /\ storage \in Nat /\ formed \in Nat
    /\ refused \in {"nothing", "capacity", "construction", "view", "access"}

\* Every byte of every element is in the storage that exists and before the
\* end that OpenCV keeps for the header, and no constructor computes an address
\* outside the storage, not even one that it does not keep.
ElementsInside ==
    /\ header /= Default => formed <= Buffer + storage
    /\ \A scalar \in Range(ScalarsOf(header)) :
        /\ Buffer <= scalar
        /\ scalar + elemSize1[header.depth] <= header.limit
        /\ scalar + elemSize1[header.depth] <= Buffer + storage

\* The shim refuses nothing that the Ada layer accepts, except shapes that
\* OpenCV has no room for and views of the view of a callback.
ShimAgrees ==
    refused \in {"nothing", "capacity"} \/ (refused = "view" /\ header.temporary)

\* What the client may ask of an array it knows nothing about the steps of.
Array == INSTANCE ScalarArray WITH
    array <- [shape |-> header.size, depth |-> header.depth, channels |-> header.channels,
              scalars |-> ScalarsOf(header)]

\* Every view holds the scalars of its part, whichever views it was taken
\* of, and every access passes the scalars at its index.
ImplementsArray == Array!ArraySpec
==============================================================================
