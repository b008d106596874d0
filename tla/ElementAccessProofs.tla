------------------------ MODULE ElementAccessProofs ------------------------
(***************************************************************************)
(* Theorems about ElementAccess, for matrices of any number of dimensions, *)
(* extents, strides and depths: no element lies outside the storage, and   *)
(* the shim accepts every element, row and borrowing that the Ada layer    *)
(* lets through.                                                           *)
(*                                                                         *)
(* The invariant is the one that NDViewsProofs carries through the         *)
(* operations that make headers.  An access changes no header, so what is  *)
(* left to show of it is that a function which the Ada layer calls for a   *)
(* matrix is accepted: the function's element has the matrix's size        *)
(* (SameElements), and a row's bytes fit into a size_t because the row     *)
(* is in memory (RowsFitIn).                                               *)
(***************************************************************************)
EXTENDS ElementAccess, NDViewsProofs

-----------------------------------------------------------------------------
(***************************************************************************)
(* The functions and the matrices they are called for.                     *)
(***************************************************************************)
\* The three things a function names are in step.
InStep(t) ==
    /\ t.depth \in DOMAIN elemSize1 /\ t.size = elemSize1[t.depth] /\ t.size \in Nat \ {0}
    /\ t.channels \in Nat \ {0} /\ t.channels \in 1 .. 4

LEMMA InStepIs ==
    ASSUME NEW depth \in DOMAIN elemSize1, NEW channels \in 1 .. 4,
           NEW size, size = elemSize1[depth], NEW t, t = T(depth, channels, size)
    PROVE  InStep(t) /\ t.depth = depth /\ t.channels = channels /\ t.size = size
<1>1. t.depth = depth /\ t.channels = channels /\ t.size = size
      BY DEF T
<1>2. elemSize1[depth] \in {1, 2, 4, 8}
      BY ElementSizes
<1>3. size \in Nat \ {0}
      BY <1>2
<1>4. channels \in Nat \ {0}
      OBVIOUS
<1> QED  BY <1>1, <1>3, <1>4 DEF InStep

LEMMA Depths ==
    /\ {"UInt8", "Int8", "UInt16", "Int16", "Float16", "Int32", "Float32", "Float64"}
         \subseteq DOMAIN elemSize1
    /\ elemSize1["UInt8"] = 1 /\ elemSize1["Int8"] = 1
    /\ elemSize1["UInt16"] = 2 /\ elemSize1["Int16"] = 2 /\ elemSize1["Float16"] = 2
    /\ elemSize1["Int32"] = 4 /\ elemSize1["Float32"] = 4 /\ elemSize1["Float64"] = 8
BY DEF elemSize1

LEMMA ScalarsInStep ==
    /\ \A t \in Scalars \cup ScalarsND \cup ScalarRows : InStep(t) /\ t.channels = 1
    /\ \A t \in copy_float16_row : InStep(t) /\ t.depth = "Float16" /\ t.channels = 1
<1>1. \A t \in get_set_8 \cup get_set_8_nd \cup copy_8_row : InStep(t) /\ t.channels = 1
      BY Depths, InStepIs DEF get_set_8, get_set_8_nd, copy_8_row
<1>2. \A t \in get_set_16 \cup get_set_16_nd \cup copy_16_row : InStep(t) /\ t.channels = 1
      BY Depths, InStepIs DEF get_set_16, get_set_16_nd, copy_16_row
<1>3. \A t \in get_set_32 \cup get_set_32_nd \cup copy_32_row : InStep(t) /\ t.channels = 1
      BY Depths, InStepIs DEF get_set_32, get_set_32_nd, copy_32_row
<1>4. \A t \in get_set_64_and_half \cup get_set_64_and_half_nd \cup copy_float64_row :
         InStep(t) /\ t.channels = 1
      BY Depths, InStepIs DEF get_set_64_and_half, get_set_64_and_half_nd, copy_float64_row
<1>5. \A t \in copy_float16_row : InStep(t) /\ t.depth = "Float16" /\ t.channels = 1
      BY Depths, InStepIs DEF copy_float16_row
<1> QED  BY <1>1, <1>2, <1>3, <1>4, <1>5 DEF Scalars, ScalarsND, ScalarRows

LEMMA VectorsInStep ==
    /\ \A t \in Vec3s \cup Vec3sND \cup Vec3Rows : InStep(t)
    /\ \A t \in DEFINE_VEC2 : InStep(t) /\ t.channels = 2
    /\ \A t \in DEFINE_VEC4 : InStep(t)
    /\ \A t \in float16_vector \cup get_set_float16_vec3 \cup get_set_float16_vec3_nd
                  \cup copy_float16_vec3_row :
          InStep(t) /\ t.depth = "Float16"
<1>1. \A t \in get_set_uint8_vec3 \cup get_set_uint8_vec3_nd \cup copy_uint8_vec3_row : InStep(t)
      BY Depths, InStepIs DEF get_set_uint8_vec3, get_set_uint8_vec3_nd, copy_uint8_vec3_row
<1>2. \A t \in get_set_int8_vec3 \cup get_set_int8_vec3_nd \cup copy_int8_vec3_row : InStep(t)
      BY Depths, InStepIs DEF get_set_int8_vec3, get_set_int8_vec3_nd, copy_int8_vec3_row
<1>3. \A t \in get_set_integer_vec3 \cup get_set_integer_vec3_nd \cup copy_integer_vec3_row :
         InStep(t)
      BY Depths, InStepIs
      DEF get_set_integer_vec3, get_set_integer_vec3_nd, copy_integer_vec3_row
<1>4. \A t \in get_set_real_vec3 \cup get_set_real_vec3_nd \cup copy_real_vec3_row : InStep(t)
      BY Depths, InStepIs DEF get_set_real_vec3, get_set_real_vec3_nd, copy_real_vec3_row
<1>5. \A t \in DEFINE_VEC2 : InStep(t) /\ t.channels = 2
      BY Depths, InStepIs DEF DEFINE_VEC2
<1>6. \A t \in DEFINE_VEC4 : InStep(t)
      BY Depths, InStepIs DEF DEFINE_VEC4
<1>7. \A t \in float16_vector \cup get_set_float16_vec3 \cup get_set_float16_vec3_nd
                 \cup copy_float16_vec3_row :
         InStep(t) /\ t.depth = "Float16"
      BY Depths, InStepIs
      DEF float16_vector, get_set_float16_vec3, get_set_float16_vec3_nd, copy_float16_vec3_row
<1> QED  BY <1>1, <1>2, <1>3, <1>4, <1>5, <1>6, <1>7 DEF Vec3s, Vec3sND, Vec3Rows

\* The borrowing packages are instances for the same types.
LEMMA BorrowingInStep ==
    \A t \in Borrowing : InStep(t)
BY ScalarsInStep, VectorsInStep DEF Borrowing

\* A matrix of the type a function names has elements of its size.
LEMMA SameElements ==
    ASSUME NEW h, NEW t, InStep(t), Validate_Type(h, t)
    PROVE  /\ Element_Size(h) = ElementBytes(t)
           /\ h.depth = t.depth /\ h.channels = t.channels /\ elemSize1[h.depth] = t.size
           /\ t.channels = 1 => Element_Size(h) = t.size
           /\ t.depth = "Float16" => elemSize1[h.depth] = 2
<1>1. /\ h.depth = t.depth /\ h.channels = t.channels /\ t.size = elemSize1[t.depth]
      /\ t.size \in Nat /\ t.channels \in Nat
      BY DEF InStep, Validate_Type
<1> DEFINE x == t.size
           y == t.channels
<1>2. Element_Size(h) = x * y /\ ElementBytes(t) = y * x
      BY <1>1 DEF Element_Size, elemSize, ElementBytes
<1>3. x \in Nat /\ y \in Nat
      BY <1>1
<1>4. elemSize1["Float16"] = 2
      BY Depths
<1> HIDE DEF x, y
<1>5. x * y = y * x /\ (y = 1 => x * y = x)
      BY <1>3
<1> QED  BY <1>1, <1>2, <1>4, <1>5 DEF x, y

\* A row of a matrix has a size.
LEMMA RowsFitIn ==
    ASSUME Held, Dimension_Count(header) = 2
    PROVE  /\ Rows(header) \in Nat \ {0} /\ Columns(header) \in Nat \ {0}
           /\ Rows(header) = header.size[1] /\ Columns(header) = header.size[2]
           /\ Fits(Columns(header) * Element_Size(header))
<1> DEFINE h == header
           n == Len(h.size)
           e == elemSize(h.depth, h.channels)
           columns == h.size[2]
           row == h.step[1]
           whole == h.size[1] * h.step[1]
<1>1. n = 2
      BY DEF Dimension_Count
<1>2. h # Default
  <2> SUFFICES ASSUME h = Default PROVE FALSE
      OBVIOUS
  <2>1. h.size = << >>
        BY DEF Default
  <2> QED  BY <1>1, <2>1
<1>3. Sound(h) /\ storage \in Nat /\ h.limit <= Buffer + storage /\ Buffer + storage <= MaxAddress
      BY <1>2 DEF Held
<1>4. /\ Sized(2, h.size, h.depth, h.channels)
      /\ Carries(2, h.size, h.step, h.depth, h.channels)
      /\ h.limit \in Nat /\ whole <= h.limit - Buffer
      BY <1>1, <1>3, SizedHeader
<1>5. h.size \in [1 .. 2 -> Nat \ {0}] /\ h.step \in [1 .. 2 -> Nat \ {0}] /\ h.step[2] = e
      /\ row >= h.step[1 + 1] * h.size[1 + 1]
      BY <1>4 DEF Sized, Carries
<1>6. h.size[1] \in Nat \ {0} /\ columns \in Nat \ {0} /\ row \in Nat /\ e \in Nat
  <2>1. 1 \in 1 .. 2 /\ 2 \in 1 .. 2
        OBVIOUS
  <2> QED  BY <1>5, <2>1
<1>7. Rows(h) = h.size[1] /\ Columns(h) = columns /\ Element_Size(h) = e
      BY DEF Rows, Columns, Element_Size
<1>8. Fits(columns * e)
  <2> DEFINE bytes == e * columns
             limit == h.limit
             rows == h.size[1]
  <2>1. bytes <= row /\ bytes \in Nat
        BY <1>5, <1>6, ProductIsNat
  <2>2. row <= rows * row /\ rows * row \in Nat
        BY <1>6, NoLess
  <2>3. limit \in Nat /\ whole <= limit - Buffer /\ limit <= Buffer + storage
        /\ storage \in Nat /\ Buffer + storage <= MaxAddress
        BY <1>3, <1>4
  <2>4. Buffer \in Nat /\ MaxAddress \in Nat
        BY NDViewsAssumption
  <2>5. columns * e = bytes
        BY <1>6, Commutes
  <2>6. row <= whole /\ whole \in Nat
        BY <2>2
  <2> HIDE DEF bytes, limit, rows, whole, row
  <2>7. bytes <= MaxAddress
        BY <1>6, <2>1, <2>3, <2>4, <2>6
  <2> QED  BY <2>5, <2>7 DEF Fits
<1> QED  BY <1>6, <1>7, <1>8

\* What every access leaves behind.
LEMMA AccessHolds ==
    ASSUME Held, NEW accepts, accepts, NEW t, NEW index, NEW scalars,
           Access(accepts, t, index, scalars)
    PROVE  Held' /\ Agreed'
<1>1. /\ header' = header /\ storage' = storage /\ formed' = formed
      /\ refused' = "nothing"
      BY DEF Access
<1> QED  BY <1>1 DEF Held, Agreed

\* What Validate lets through, the shim's own checks of rows, columns and
\* element sizes let through too.
LEMMA AtAccepted ==
    ASSUME Held, NEW t, InStep(t), NEW row, NEW column, Validate_At(header, t, row, column),
           row \in Int, column \in Int
    PROVE  /\ validate_typed_at(header, t, row, column)
           /\ vec2_at_accepts(header, t, row, column)
           /\ vec4_at_accepts(header, t, row, column)
           /\ t.depth = "Float16" => float16_vector_pixel_accepts(header, t, row, column)
<1>1. /\ Validate_Type(header, t) /\ 0 <= row /\ row < Rows(header)
      /\ 0 <= column /\ column < Columns(header)
      BY DEF Validate_At
<1>2. Dimension_Count(header) = 2
  <2> SUFFICES ASSUME Dimension_Count(header) # 2 PROVE FALSE
      OBVIOUS
  <2>1. Rows(header) = -1
        BY DEF Rows
  <2> QED  BY <1>1, <2>1
<1>3. /\ Element_Size(header) = ElementBytes(t)
      /\ header.depth = t.depth /\ header.channels = t.channels
      /\ t.depth = "Float16" => elemSize1[header.depth] = 2
      BY <1>1, SameElements
<1>4. validate_typed_at(header, t, row, column)
      BY <1>1, <1>2, <1>3 DEF validate_typed_at
<1> QED  BY <1>3, <1>4 DEF vec2_at_accepts, vec4_at_accepts, float16_vector_pixel_accepts

LEMMA IndexAccepted ==
    ASSUME Held, NEW t, InStep(t), NEW index, Validate_Index(header, t, index)
    PROVE  /\ prepare_nd_typed_at(header, t, index)
           /\ prepare_nd_vector_at(header, t, index)
           /\ t.depth = "Float16" => float16_vector_pixel_nd_accepts(header, t, index)
<1>1. /\ Validate_Type(header, t) /\ Dimension_Count(header) > 0
      /\ Len(index) = Dimension_Count(header)
      /\ \A i \in DOMAIN index : index[i] < header.size[i]
      BY DEF Validate_Index, Extent
<1>2. Sound(header)
  <2> SUFFICES ASSUME header = Default PROVE FALSE
      BY DEF Held
  <2>1. header.size = << >>
        BY DEF Default
  <2>2. Dimension_Count(header) = 0
        BY <2>1 DEF Dimension_Count
  <2> QED  BY <1>1, <2>2
<1>3. Len(index) <= MaxDimensions
      BY <1>1, <1>2 DEF Sound, Dimension_Count
<1>4. /\ Element_Size(header) = ElementBytes(t)
      /\ header.depth = t.depth /\ header.channels = t.channels
      /\ t.depth = "Float16" => elemSize1[header.depth] = 2
      BY <1>1, SameElements
<1>5. prepare_nd_typed_at(header, t, index)
      BY <1>1, <1>3, <1>4 DEF prepare_nd_typed_at
<1> QED  BY <1>4, <1>5 DEF prepare_nd_vector_at, float16_vector_pixel_nd_accepts

LEMMA RowAccepted ==
    ASSUME Held, NEW t, InStep(t), NEW row \in 0 .. Rows(header), NEW length,
           Validate_Row(header, t, row, length)
    PROVE  /\ t.channels = 1 => prepare_row(header, t, row, length)
           /\ t.channels = 1 /\ t.depth = "Float16" => prepare_float16_row(header, t, row, length)
           /\ t.channels = 2 => vec2_row_accepts(header, t, row, length)
           /\ prepare_vector_row(header, t, row, length)
           /\ vec4_row_accepts(header, t, row, length)
           /\ t.depth = "Float16" => prepare_float16_vector_row(header, t, row, length)
<1>1. Validate_Type(header, t) /\ row < Rows(header) /\ length = Columns(header)
      BY DEF Validate_Row
<1>2. Dimension_Count(header) = 2
  <2> SUFFICES ASSUME Dimension_Count(header) # 2 PROVE FALSE
      OBVIOUS
  <2>1. Rows(header) = -1
        BY DEF Rows
  <2> QED  BY <2>1
<1>3. /\ Rows(header) \in Nat \ {0} /\ Fits(Columns(header) * Element_Size(header))
      BY <1>2, RowsFitIn
<1>4. 0 <= row
      BY <1>3
<1>5. /\ Element_Size(header) = ElementBytes(t)
      /\ header.depth = t.depth /\ header.channels = t.channels
      /\ elemSize1[header.depth] = t.size
      /\ t.channels = 1 => Element_Size(header) = t.size
      /\ t.depth = "Float16" => elemSize1[header.depth] = 2
      BY <1>1, SameElements
<1>6. Fits(length * ElementBytes(t)) /\ (t.channels = 1 => Fits(length * t.size))
      BY <1>1, <1>3, <1>5
<1>7. prepare_vector_row(header, t, row, length)
      BY <1>1, <1>2, <1>4, <1>5, <1>6 DEF prepare_vector_row
<1>8. t.channels = 1 => prepare_row(header, t, row, length)
      BY <1>1, <1>2, <1>4, <1>5, <1>6 DEF prepare_row
<1>9. t.channels = 1 /\ t.depth = "Float16" => prepare_float16_row(header, t, row, length)
      BY <1>5, <1>8 DEF prepare_float16_row
<1>10. t.channels = 2 => vec2_row_accepts(header, t, row, length)
       BY <1>1, <1>2, <1>4, <1>5, <1>6 DEF vec2_row_accepts
<1>11. vec4_row_accepts(header, t, row, length)
       BY <1>6, <1>7 DEF vec4_row_accepts
<1>12. t.depth = "Float16" => prepare_float16_vector_row(header, t, row, length)
       BY <1>5, <1>7 DEF prepare_float16_vector_row
<1> QED  BY <1>7, <1>8, <1>9, <1>10, <1>11, <1>12

LEMMA BorrowRowAccepted ==
    ASSUME Held, NEW t, InStep(t), NEW row \in 0 .. Rows(header),
           Validate_Borrow_Row(header, t, row)
    PROVE  /\ Fits(mat_borrow_row_data_bytes(header))
           /\ mat_borrow_row_data_bytes(header) = Columns(header) * ElementBytes(t)
           /\ ptr(header, row) % t.size = 0
<1>1. Validate_Type(header, t) /\ Dimension_Count(header) = 2
      BY DEF Validate_Borrow_Row
<1>2. /\ Rows(header) \in Nat \ {0} /\ Fits(Columns(header) * Element_Size(header))
      BY <1>1, RowsFitIn
<1>3. Element_Size(header) = ElementBytes(t) /\ elemSize1[header.depth] = t.size
      BY <1>1, SameElements
<1>4. Sound(header)
  <2> SUFFICES ASSUME header = Default PROVE FALSE
      BY DEF Held
  <2>1. header.size = << >>
        BY DEF Default
  <2>2. Dimension_Count(header) = 0
        BY <2>1 DEF Dimension_Count
  <2> QED  BY <1>1, <2>2
<1>5. ptr(header, row) % t.size = 0
  <2> DEFINE data == header.data
             across == header.step[1]
             d == t.size
  <2>1. Carries(2, header.size, header.step, header.depth, header.channels)
        /\ data \in Nat /\ data % d = 0
        BY <1>1, <1>3, <1>4, SizedHeader DEF Dimension_Count
  <2>2. 1 \in 1 .. 2
        OBVIOUS
  <2>3. across \in Nat /\ across % d = 0
        BY <1>3, <2>1, <2>2 DEF Carries
  <2>4. d \in Nat \ {0} /\ row \in Nat
        BY <1>2 DEF InStep
  <2> HIDE DEF data, across, d
  <2>5. (across * row) % d = 0
        BY <2>3, <2>4, MultipleTimes
  <2> DEFINE x == across * row
  <2>6. row * across = x /\ x \in Nat
        BY <2>3, <2>4, Commutes, ProductIsNat
  <2>7. x % d = 0
        BY <2>5
  <2> HIDE DEF x
  <2>8. (data + x) % d = 0
        BY <2>1, <2>4, <2>6, <2>7, MultiplesAdd
  <2> QED  BY <2>6, <2>8 DEF ptr, data, across, d
<1> QED  BY <1>2, <1>3, <1>5 DEF mat_borrow_row_data_bytes

LEMMA BorrowAccepted ==
    ASSUME Held, NEW t, InStep(t), Validate_Borrow(header, t), Total(header) # 0
    PROVE  /\ mat_borrow_contiguous_data_accepts(header)
           /\ Total(header) * Element_Size(header) = Total(header) * ElementBytes(t)
           /\ header.data % t.size = 0
<1>1. Validate_Type(header, t) /\ Is_Continuous(header)
      BY DEF Validate_Borrow
<1>2. Element_Size(header) = ElementBytes(t) /\ elemSize1[header.depth] = t.size
      BY <1>1, SameElements
<1>3. Sound(header) /\ storage \in Nat /\ header.limit <= Buffer + storage
      /\ Buffer + storage <= MaxAddress
  <2> SUFFICES ASSUME header = Default PROVE FALSE
      BY DEF Held
  <2>1. header.size = << >>
        BY DEF Default
  <2> QED  BY <2>1 DEF Total
<1> DEFINE n == Len(header.size)
           e == elemSize(header.depth, header.channels)
           end == LogicalEnd(header.size, header.step, e)
           product == Product(header.size)
           limit == header.limit
           data == header.data
<1>4. /\ Sized(n, header.size, header.depth, header.channels)
      /\ Carries(n, header.size, header.step, header.depth, header.channels)
      /\ data \in Nat /\ limit \in Nat /\ data + end <= limit
      /\ data % elemSize1[header.depth] = 0 /\ Total(header) = product
      BY <1>3, SizedHeader
<1>5. e \in Nat \ {0} /\ e * product <= end /\ product \in Nat /\ end \in Nat
      BY <1>4, EndIsNat
<1>6. Buffer \in Nat /\ MaxAddress \in Nat
      BY NDViewsAssumption
<1>7. Element_Size(header) = e
      BY DEF Element_Size
<1>8. Fits(product * e)
  <2> DEFINE bytes == e * product
  <2>1. product * e = bytes /\ bytes <= end /\ bytes \in Nat
        BY <1>5, Commutes, ProductIsNat
  <2>2. limit <= Buffer + storage
        BY <1>3
  <2> HIDE DEF bytes, end, limit, data
  <2>3. bytes <= MaxAddress
        BY <1>3, <1>4, <1>5, <1>6, <2>1, <2>2
  <2> QED  BY <2>1, <2>3 DEF Fits
<1>9. data % t.size = 0
      BY <1>2, <1>4
<1>10. Fits(Total(header) * Element_Size(header))
       BY <1>4, <1>7, <1>8
<1> QED  BY <1>1, <1>2, <1>9, <1>10 DEF mat_borrow_contiguous_data_accepts

LEMMA ElementHolds ==
    ASSUME Held, ElementNext
    PROVE  Held' /\ Agreed'
<1>1. PICK row \in -1 .. Rows(header), column \in -1 .. Columns(header) :
         \/ \E t \in Scalars \cup Vec3s : Get_Set(t, row, column)
         \/ \E t \in DEFINE_VEC2 : Get_Set_Vec2(t, row, column)
         \/ \E t \in DEFINE_VEC4 : Get_Set_Vec4(t, row, column)
         \/ \E t \in float16_vector \cup get_set_float16_vec3 :
               Get_Set_Float16_Vector(t, row, column)
      BY DEF ElementNext
<1>2. row \in Int /\ column \in Int
      OBVIOUS
<1>3. ASSUME NEW t \in Scalars \cup Vec3s, Get_Set(t, row, column) PROVE Held' /\ Agreed'
  <2>1. InStep(t) /\ Validate_At(header, t, row, column)
        BY <1>3, ScalarsInStep, VectorsInStep DEF Get_Set
  <2>2. validate_typed_at(header, t, row, column)
        BY <1>2, <2>1, AtAccepted
  <2> QED  BY <1>3, <2>2, AccessHolds DEF Get_Set
<1>4. ASSUME NEW t \in DEFINE_VEC2, Get_Set_Vec2(t, row, column) PROVE Held' /\ Agreed'
  <2>1. InStep(t) /\ Validate_At(header, t, row, column)
        BY <1>4, VectorsInStep DEF Get_Set_Vec2
  <2>2. vec2_at_accepts(header, t, row, column)
        BY <1>2, <2>1, AtAccepted
  <2> QED  BY <1>4, <2>2, AccessHolds DEF Get_Set_Vec2
<1>5. ASSUME NEW t \in DEFINE_VEC4, Get_Set_Vec4(t, row, column) PROVE Held' /\ Agreed'
  <2>1. InStep(t) /\ Validate_At(header, t, row, column)
        BY <1>5, VectorsInStep DEF Get_Set_Vec4
  <2>2. vec4_at_accepts(header, t, row, column)
        BY <1>2, <2>1, AtAccepted
  <2> QED  BY <1>5, <2>2, AccessHolds DEF Get_Set_Vec4
<1>6. ASSUME NEW t \in float16_vector \cup get_set_float16_vec3,
             Get_Set_Float16_Vector(t, row, column)
      PROVE  Held' /\ Agreed'
  <2>1. InStep(t) /\ t.depth = "Float16" /\ Validate_At(header, t, row, column)
        BY <1>6, VectorsInStep DEF Get_Set_Float16_Vector
  <2>2. float16_vector_pixel_accepts(header, t, row, column)
        BY <1>2, <2>1, AtAccepted
  <2> QED  BY <1>6, <2>2, AccessHolds DEF Get_Set_Float16_Vector
<1> QED  BY <1>1, <1>3, <1>4, <1>5, <1>6

LEMMA IndexHolds ==
    ASSUME Held, IndexNext
    PROVE  Held' /\ Agreed'
<1>1. ASSUME NEW index, NEW t \in ScalarsND, Get_Set_ND(t, index) PROVE Held' /\ Agreed'
  <2>1. InStep(t) /\ Validate_Index(header, t, index)
        BY <1>1, ScalarsInStep DEF Get_Set_ND
  <2>2. prepare_nd_typed_at(header, t, index)
        BY <2>1, IndexAccepted
  <2> QED  BY <1>1, <2>2, AccessHolds DEF Get_Set_ND
<1>2. ASSUME NEW index, NEW t \in Vec3sND \cup DEFINE_VEC2 \cup DEFINE_VEC4,
             Get_Set_Vector_ND(t, index)
      PROVE  Held' /\ Agreed'
  <2>1. InStep(t) /\ Validate_Index(header, t, index)
        BY <1>2, VectorsInStep DEF Get_Set_Vector_ND
  <2>2. prepare_nd_vector_at(header, t, index)
        BY <2>1, IndexAccepted
  <2> QED  BY <1>2, <2>2, AccessHolds DEF Get_Set_Vector_ND
<1>3. ASSUME NEW index, NEW t \in float16_vector \cup get_set_float16_vec3_nd,
             Get_Set_Float16_Vector_ND(t, index)
      PROVE  Held' /\ Agreed'
  <2>1. InStep(t) /\ t.depth = "Float16" /\ Validate_Index(header, t, index)
        BY <1>3, VectorsInStep DEF Get_Set_Float16_Vector_ND
  <2>2. float16_vector_pixel_nd_accepts(header, t, index)
        BY <2>1, IndexAccepted
  <2> QED  BY <1>3, <2>2, AccessHolds DEF Get_Set_Float16_Vector_ND
<1> QED  BY <1>1, <1>2, <1>3 DEF IndexNext

LEMMA RowHolds ==
    ASSUME Held, RowNext
    PROVE  Held' /\ Agreed'
<1>1. PICK row \in 0 .. Rows(header), length \in {Columns(header), Columns(header) + 1} :
         \/ \E t \in ScalarRows : Copy_Row(t, row, length)
         \/ \E t \in copy_float16_row : Copy_Float16_Row(t, row, length)
         \/ \E t \in DEFINE_VEC2 : Copy_Vec2_Row(t, row, length)
         \/ \E t \in Vec3Rows : Copy_Vec3_Row(t, row, length)
         \/ \E t \in DEFINE_VEC4 : Copy_Vec4_Row(t, row, length)
         \/ \E t \in float16_vector \cup copy_float16_vec3_row :
               Copy_Float16_Vector_Row(t, row, length)
      BY DEF RowNext
<1>2. ASSUME NEW t \in ScalarRows, Copy_Row(t, row, length) PROVE Held' /\ Agreed'
  <2>1. InStep(t) /\ t.channels = 1 /\ Validate_Row(header, t, row, length)
        BY <1>2, ScalarsInStep DEF Copy_Row
  <2>2. prepare_row(header, t, row, length)
        BY <2>1, RowAccepted
  <2> QED  BY <1>2, <2>2, AccessHolds DEF Copy_Row
<1>3. ASSUME NEW t \in copy_float16_row, Copy_Float16_Row(t, row, length) PROVE Held' /\ Agreed'
  <2>1. /\ InStep(t) /\ t.depth = "Float16" /\ t.channels = 1
        /\ Validate_Row(header, t, row, length)
        BY <1>3, ScalarsInStep DEF Copy_Float16_Row
  <2>2. prepare_float16_row(header, t, row, length)
        BY <2>1, RowAccepted
  <2> QED  BY <1>3, <2>2, AccessHolds DEF Copy_Float16_Row
<1>4. ASSUME NEW t \in DEFINE_VEC2, Copy_Vec2_Row(t, row, length) PROVE Held' /\ Agreed'
  <2>1. InStep(t) /\ t.channels = 2 /\ Validate_Row(header, t, row, length)
        BY <1>4, VectorsInStep DEF Copy_Vec2_Row
  <2>2. vec2_row_accepts(header, t, row, length)
        BY <2>1, RowAccepted
  <2> QED  BY <1>4, <2>2, AccessHolds DEF Copy_Vec2_Row
<1>5. ASSUME NEW t \in Vec3Rows, Copy_Vec3_Row(t, row, length) PROVE Held' /\ Agreed'
  <2>1. InStep(t) /\ Validate_Row(header, t, row, length)
        BY <1>5, VectorsInStep DEF Copy_Vec3_Row
  <2>2. prepare_vector_row(header, t, row, length)
        BY <2>1, RowAccepted
  <2> QED  BY <1>5, <2>2, AccessHolds DEF Copy_Vec3_Row
<1>6. ASSUME NEW t \in DEFINE_VEC4, Copy_Vec4_Row(t, row, length) PROVE Held' /\ Agreed'
  <2>1. InStep(t) /\ Validate_Row(header, t, row, length)
        BY <1>6, VectorsInStep DEF Copy_Vec4_Row
  <2>2. vec4_row_accepts(header, t, row, length)
        BY <2>1, RowAccepted
  <2> QED  BY <1>6, <2>2, AccessHolds DEF Copy_Vec4_Row
<1>7. ASSUME NEW t \in float16_vector \cup copy_float16_vec3_row,
             Copy_Float16_Vector_Row(t, row, length)
      PROVE  Held' /\ Agreed'
  <2>1. InStep(t) /\ t.depth = "Float16" /\ Validate_Row(header, t, row, length)
        BY <1>7, VectorsInStep DEF Copy_Float16_Vector_Row
  <2>2. prepare_float16_vector_row(header, t, row, length)
        BY <2>1, RowAccepted
  <2> QED  BY <1>7, <2>2, AccessHolds DEF Copy_Float16_Vector_Row
<1> QED  BY <1>1, <1>2, <1>3, <1>4, <1>5, <1>6, <1>7

LEMMA BorrowHolds ==
    ASSUME Held, BorrowNext
    PROVE  Held' /\ Agreed'
<1>1. ASSUME NEW t \in Borrowing, NEW row \in 0 .. Rows(header), Borrow_Row(t, row)
      PROVE  Held' /\ Agreed'
  <2>1. InStep(t) /\ Validate_Borrow_Row(header, t, row)
        BY <1>1, BorrowingInStep DEF Borrow_Row
  <2> DEFINE accepts == /\ Fits(mat_borrow_row_data_bytes(header))
                        /\ mat_borrow_row_data_bytes(header) = Columns(header) * ElementBytes(t)
                        /\ ptr(header, row) % t.size = 0
             scalars == Run(ptr(header, row), Columns(header) * t.channels, t)
  <2>2. accepts
        BY <2>1, BorrowRowAccepted
  <2>3. Access(accepts, t, <<row>>, scalars)
        BY <1>1 DEF Borrow_Row
  <2> HIDE DEF accepts, scalars
  <2> QED  BY <2>2, <2>3, AccessHolds
<1>2. ASSUME NEW t \in Borrowing, Borrow(t) PROVE Held' /\ Agreed'
  <2>1. InStep(t) /\ Validate_Borrow(header, t)
        BY <1>2, BorrowingInStep DEF Borrow
  <2> DEFINE accepts == Total(header) = 0
                        \/ /\ mat_borrow_contiguous_data_accepts(header)
                           /\ Total(header) * Element_Size(header)
                                = Total(header) * ElementBytes(t)
                           /\ header.data % t.size = 0
             scalars == Run(header.data, Total(header) * t.channels, t)
  <2>2. accepts
        BY <2>1, BorrowAccepted
  <2>3. Access(accepts, t, << >>, scalars)
        BY <1>2 DEF Borrow
  <2> HIDE DEF accepts, scalars
  <2> QED  BY <2>2, <2>3, AccessHolds
<1> QED  BY <1>1, <1>2 DEF BorrowNext

-----------------------------------------------------------------------------
(***************************************************************************)
(* The invariant.                                                          *)
(***************************************************************************)
\* The header is sound, as everything that was computed from it needs, and the
\* shim agreed.
IInv == Held /\ Agreed

\* Every step makes a sound header of a sound one, or keeps it.
LEMMA InvariantHolds ==
    Spec => []IInv
<1>1. Init => IInv
      BY DEF Init, IInv, Held, Agreed
<1>2. IInv /\ [Next]_vars => IInv'
  <2> SUFFICES ASSUME IInv, [Next]_vars PROVE IInv'
      OBVIOUS
  <2>1. Held /\ Agreed
        BY DEF IInv
  <2>2. CASE ViewNext
        BY <2>1, <2>2, ViewNextHolds DEF IInv
  <2>3. CASE ElementNext
        BY <2>1, <2>3, ElementHolds DEF IInv
  <2>4. CASE IndexNext
        BY <2>1, <2>4, IndexHolds DEF IInv
  <2>5. CASE RowNext
        BY <2>1, <2>5, RowHolds DEF IInv
  <2>6. CASE BorrowNext
        BY <2>1, <2>6, BorrowHolds DEF IInv
  <2>7. CASE Return
        BY <2>1, <2>7 DEF Return, IInv, Held, Agreed
  <2>8. CASE UNCHANGED vars
        BY <2>1, <2>8 DEF vars, IInv, Held, Agreed
  <2> QED  BY <2>2, <2>3, <2>4, <2>5, <2>6, <2>7, <2>8 DEF Next
<1> QED  BY <1>1, <1>2, PTL DEF Spec

\* A sound header has the fields of one.
LEMMA TypeFollows ==
    ASSUME IInv
    PROVE  TypeOK
<1>1. Held /\ Agreed
      BY DEF IInv
<1>2. refused \in {"nothing", "capacity", "construction", "view", "access"}
      BY <1>1 DEF Agreed
<1>3. CASE header = Default /\ storage = 0 /\ formed = 0
  <2>1. header.data \in Nat /\ header.limit \in Nat /\ header.channels \in Nat \ {0}
        BY <1>3 DEF Default
  <2>2. header.temporary \in BOOLEAN
        BY <1>3, Zenon DEF Default
  <2>3. header.depth \in DOMAIN elemSize1
        BY <1>3, Depths DEF Default
  <2>4. Len(header.size) = 0 /\ Len(header.step) = 0
        BY <1>3 DEF Default
  <2>5. header.size \in Seq(Nat \ {0}) /\ header.step \in Seq(Nat \ {0})
        BY <1>3 DEF Default
  <2>6. Len(header.size) <= NativeMaxDimensions /\ Len(header.step) = Len(header.size)
        BY <2>4, NDViewsAssumption
  <2>7. storage \in Nat /\ formed \in Nat
        BY <1>3
  <2> QED  BY <1>2, <2>1, <2>2, <2>3, <2>5, <2>6, <2>7 DEF TypeOK
<1>4. CASE Sound(header) /\ storage \in Nat /\ formed \in Nat
  <2>1. /\ header.data \in Nat /\ header.limit \in Nat
        /\ header.size \in Seq(Nat \ {0}) /\ header.step \in Seq(Nat \ {0})
        /\ header.depth \in DOMAIN elemSize1 /\ header.channels \in Nat \ {0}
        /\ header.temporary \in BOOLEAN /\ Len(header.step) = Len(header.size)
        BY <1>4 DEF Sound, HeaderType
  <2>2. Len(header.size) <= NativeMaxDimensions
        BY <1>4, SoundLayout
  <2> QED  BY <1>2, <1>4, <2>1, <2>2 DEF TypeOK
<1> QED  BY <1>1, <1>3, <1>4 DEF Held

\* Every scalar of an element lies in it.
LEMMA ScalarInElement ==
    ASSUME NEW k \in Nat, NEW channels \in Nat \ {0}, NEW d \in Nat
    PROVE  /\ (k % channels) * d \in Nat
           /\ (k % channels) * d + d <= d * channels
<1> DEFINE r == k % channels
<1>1. r \in Nat /\ r + 1 <= channels
      OBVIOUS
<1> HIDE DEF r
<1>2. r * d \in Nat /\ (r + 1) * d <= channels * d /\ (r + 1) * d = r * d + d
      BY <1>1, Monotonic
<1>3. channels * d = d * channels
      BY Commutes
<1> QED  BY <1>2, <1>3 DEF r

\* The elements behind one index of a dimension.
LEMMA WeightsPositive ==
    ASSUME NEW n \in Nat, NEW size \in [1 .. n -> Nat \ {0}], NEW channels \in Nat \ {0},
           NEW i \in 1 .. n
    PROVE  channels * Product(SubSeq(size, i + 1, n)) \in Nat \ {0}
<1>1. size \in [1 .. n -> Nat] /\ i \in 0 .. n
      OBVIOUS
<1>2. PICK h : ProductsFrom(n, size, h)
      BY <1>1, ProductsFromExist
<1>3. Product(SubSeq(size, i + 1, n)) = h[i + 1]
      BY <1>1, <1>2, ProductOfRest
<1>4. h[i + 1] \in Nat \ {0}
  <2>1. h \in [1 .. n + 1 -> Nat \ {0}]
        BY <1>2, ProductsPositive
  <2>2. i + 1 \in 1 .. n + 1
        OBVIOUS
  <2> QED  BY <2>1, <2>2
<1> DEFINE x == h[i + 1]
<1>5. x \in Nat \ {0}
      BY <1>4
<1> HIDE DEF x
<1>6. channels * x \in Nat \ {0}
      BY <1>5
<1> QED  BY <1>3, <1>6 DEF x

\* The element at any coordinates ends inside.
LEMMA ElementInside ==
    ASSUME NEW n \in Nat, NEW size \in [1 .. n -> Nat \ {0}], NEW step \in [1 .. n -> Nat],
           NEW e \in Nat, NEW where \in [1 .. n -> Nat],
           \A i \in 1 .. n : where[i] < size[i]
    PROVE  /\ Sum(Offsets(n, where, step)) \in Nat
           /\ Sum(Offsets(n, where, step)) + e <= LogicalEnd(size, step, e)
           /\ LogicalEnd(size, step, e) \in Nat
<1> DEFINE one == [i \in 1 .. n |-> 1]
           inner == LogicalEnd(one, step, e)
           offset == Sum(Offsets(n, where, step))
           end == LogicalEnd(size, step, e)
           rest == Sum(Spans(n, one, step))
<1>1. one \in [1 .. n -> Nat \ {0}]
      OBVIOUS
<1>2. \A i \in 1 .. n : where[i] + one[i] <= size[i]
  <2> TAKE i \in 1 .. n
  <2>1. where[i] \in Nat /\ size[i] \in Nat /\ one[i] = 1 /\ where[i] < size[i]
        OBVIOUS
  <2> QED  BY <2>1
<1> HIDE DEF one
<1>3. offset + inner <= end /\ offset \in Nat /\ inner \in Nat /\ end \in Nat
      BY <1>1, <1>2, SelectionInside
<1>4. inner = e + rest
      BY <1>1, SpansType
<1>5. rest \in Nat
  <2>1. Spans(n, one, step) \in [1 .. n -> Nat]
        BY <1>1, SpansType
  <2> QED  BY <2>1, SumIsNat
<1> HIDE DEF inner, offset, end, rest
<1>6. offset + e <= end
      BY <1>3, <1>4, <1>5
<1> QED  BY <1>3, <1>6 DEF offset, end

\* A scalar is a part of the element at its coordinates, which are in range.
LEMMA ScalarsInside ==
    ASSUME NEW h, Sound(h), NEW scalar \in Range(ScalarsOf(h))
    PROVE  /\ scalar \in Nat /\ Buffer <= scalar
           /\ scalar + elemSize1[h.depth] <= h.limit
<1> DEFINE n == Len(h.size)
           size == h.size
           step == h.step
           data == h.data
           limit == h.limit
           channels == h.channels
           d == elemSize1[h.depth]
           e == elemSize(h.depth, h.channels)
           end == LogicalEnd(size, step, e)
           scalars == Total(h) * h.channels
           weight == [i \in DOMAIN h.size |-> h.channels * Product(SubSeq(h.size, i + 1, n))]
           At(p) == [i \in 1 .. n |-> ((p - 1) \div weight[i]) % size[i]]
<1>1. /\ n \in Nat \ {0} /\ n \in Nat /\ size \in [1 .. n -> Nat \ {0}]
      /\ step \in [1 .. n -> Nat] /\ e \in Nat \ {0} /\ e \in Nat
      /\ h.depth \in DOMAIN elemSize1
  <2>1. Sized(n, size, h.depth, channels) /\ Carries(n, size, step, h.depth, channels)
        BY SizedHeader
  <2>2. e = elemSize(h.depth, channels)
        OBVIOUS
  <2> HIDE DEF n, size, step, channels, e
  <2> QED  BY <2>1, <2>2, EndIsNat DEF Sized
<1>2. /\ data \in Nat /\ limit \in Nat /\ data + end <= limit /\ Buffer <= data
      /\ channels \in Nat \ {0} /\ Total(h) = Product(size)
      BY SizedHeader
<1>3. d \in Nat /\ e = d * channels
  <2>1. elemSize1[h.depth] \in {1, 2, 4, 8}
        BY <1>1, ElementSizes
  <2> QED  BY <2>1 DEF elemSize
<1>4. PICK p \in 1 .. scalars : scalar = ScalarsOf(h)[p]
  <2>1. DOMAIN ScalarsOf(h) = 1 .. scalars
        BY DEF ScalarsOf
  <2> QED  BY <2>1 DEF Range
<1>5. scalar = data + Sum([i \in DOMAIN size |-> (((p - 1) \div weight[i]) % size[i]) * step[i]])
                 + ((p - 1) % channels) * d
      BY <1>4 DEF ScalarsOf
<1>6. p - 1 \in Nat
  <2>1. scalars \in Nat
    <3> DEFINE x == Product(size)
               y == channels
    <3>1. x \in Nat /\ y \in Nat
      <4>1. size \in [1 .. n -> Nat]
            BY <1>1
      <4> HIDE DEF n, size
      <4> QED  BY <1>1, <1>2, <4>1, ProductInNat
    <3>2. x * y \in Nat
          BY <3>1, ProductIsNat
    <3>3. scalars = x * y
          BY <1>2
    <3> QED  BY <3>2, <3>3
  <2> HIDE DEF scalars
  <2> QED  BY <2>1
<1>7. \A i \in 1 .. n : weight[i] \in Nat \ {0}
  <2> TAKE i \in 1 .. n
  <2>1. weight[i] = channels * Product(SubSeq(size, i + 1, n))
        BY <1>1
  <2> HIDE DEF weight, channels, size, n
  <2> QED  BY <1>1, <1>2, <2>1, WeightsPositive
<1>8. DOMAIN size = 1 .. n
      BY <1>1
<1> HIDE DEF n, size, step, data, limit, channels, d, e, end, scalars, weight
<1>9. ASSUME NEW i \in 1 .. n
      PROVE  ((p - 1) \div weight[i]) % size[i] \in Nat
             /\ ((p - 1) \div weight[i]) % size[i] < size[i]
  <2> DEFINE x == p - 1
             y == weight[i]
             z == size[i]
  <2>1. x \in Nat /\ y \in Nat \ {0} /\ z \in Nat \ {0}
        BY <1>1, <1>6, <1>7
  <2> HIDE DEF x, y, z
  <2>2. x \div y \in Nat
        BY <2>1
  <2>3. (x \div y) % z \in Nat /\ (x \div y) % z < z
        BY <2>1, <2>2
  <2> QED  BY <2>3 DEF x, y, z
<1> DEFINE where == At(p)
           offset == Sum(Offsets(n, where, step))
           part == ((p - 1) % channels) * d
<1>10. where \in [1 .. n -> Nat] /\ \A i \in 1 .. n : where[i] < size[i]
       BY <1>9
<1>11. scalar = data + offset + part
  <2>1. \A i \in 1 .. n : where[i] = ((p - 1) \div weight[i]) % size[i]
        OBVIOUS
  <2> HIDE DEF where
  <2>2. Offsets(n, where, step)
          = [i \in DOMAIN size |-> (((p - 1) \div weight[i]) % size[i]) * step[i]]
        BY <1>8, <2>1 DEF Offsets
  <2> QED  BY <1>5, <2>2
<1> HIDE DEF where, At
<1>12. offset \in Nat /\ offset + e <= end /\ end \in Nat
       BY <1>1, <1>10, ElementInside DEF end
<1>13. part \in Nat /\ part + d <= e
       BY <1>2, <1>3, <1>6, ScalarInElement
<1> HIDE DEF offset, part
<1>14. scalar \in Nat /\ Buffer <= scalar /\ scalar + d <= limit
  <2>1. Buffer \in Nat
        BY NDViewsAssumption
  <2> QED  BY <1>1, <1>2, <1>3, <1>11, <1>12, <1>13, <2>1
<1> QED  BY <1>14 DEF d, limit

\* So every scalar is between the buffer and the end of the storage.
LEMMA InsideFollows ==
    ASSUME IInv
    PROVE  ElementsInside
<1>1. CASE header = Default
  <2>1. Total(header) = 0 /\ header.channels = 1
        BY <1>1 DEF Default, Total
  <2>2. DOMAIN ScalarsOf(header) = 1 .. (0 * 1)
        BY <2>1 DEF ScalarsOf
  <2>3. Range(ScalarsOf(header)) = {}
        BY <2>2 DEF Range
  <2> QED  BY <1>1, <2>3 DEF ElementsInside
<1>2. CASE header # Default
  <2>1. /\ Sound(header) /\ storage \in Nat /\ formed \in Nat
        /\ header.limit <= Buffer + storage /\ formed <= Buffer + storage
        BY <1>2 DEF IInv, Held
  <2>2. ASSUME NEW scalar \in Range(ScalarsOf(header))
        PROVE  /\ Buffer <= scalar
               /\ scalar + elemSize1[header.depth] <= header.limit
               /\ scalar + elemSize1[header.depth] <= Buffer + storage
    <3> DEFINE limit == header.limit
               d == elemSize1[header.depth]
    <3>1. scalar \in Nat /\ Buffer <= scalar /\ scalar + d <= limit
          BY <2>1, ScalarsInside
    <3>2. limit \in Nat /\ Buffer \in Nat /\ limit <= Buffer + storage
          BY <2>1, SoundLayout, NDViewsAssumption
    <3>3. d \in Nat
      <4>1. header.depth \in DOMAIN elemSize1
            BY <2>1, SoundLayout
      <4>2. elemSize1[header.depth] \in {1, 2, 4, 8}
            BY <4>1, ElementSizes
      <4> QED  BY <4>2
    <3> HIDE DEF limit, d
    <3>4. scalar + d <= Buffer + storage
          BY <2>1, <3>1, <3>2, <3>3
    <3> QED  BY <3>1, <3>4 DEF limit, d
  <2> QED  BY <2>1, <2>2 DEF ElementsInside
<1> QED  BY <1>1, <1>2

\* Whatever views are made of a buffer or of each other, a header has as many
\* steps as extents, no extent of zero, and no more dimensions than OpenCV has
\* room for.
THEOREM StateIsTyped ==
    Spec => []TypeOK
<1>1. IInv => TypeOK
      BY TypeFollows
<1> QED  BY <1>1, InvariantHolds, PTL

\* Every byte of every element of every view that the constructors, Slice,
\* With_Selected_View and Reshape leave behind is in the storage that exists
\* and before the header's dataend, for any strides the constructors accept;
\* and no address that select_nd_view computes on the way to a view is outside.
THEOREM NoElementOutside ==
    Spec => []ElementsInside
<1>1. IInv => ElementsInside
      BY InsideFollows
<1> QED  BY <1>1, InvariantHolds, PTL

\* What the Ada layer's checks let through (overflow, nesting, alignment,
\* capacity, element types, rows), the shim's checks of the same call let
\* through, but for shapes OpenCV has no room for and views of the view of a
\* callback: the two layers' arithmetic never disagrees.
THEOREM LayersAgree ==
    Spec => []ShimAgrees
<1>1. IInv => ShimAgrees
      BY DEF IInv, Agreed, ShimAgrees
<1> QED  BY <1>1, InvariantHolds, PTL
====
