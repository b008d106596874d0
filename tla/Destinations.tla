----------------------------- MODULE Destinations -----------------------------
(***************************************************************************)
(* Caller-owned destinations of the element-wise operations.               *)
(*                                                                         *)
(* Every such operation has a function, which returns a new matrix, and a  *)
(* procedure, which hands the native header of an existing one to OpenCV.  *)
(* OpenCV creates its output in that header: it keeps storage of the right *)
(* shape and type, the storage of a region and of a source included, and   *)
(* allocates otherwise.  What the procedure finds in the header, and what  *)
(* it shares storage with, therefore decides which bytes are written, with *)
(* values of which width, and whether a source is read after it was        *)
(* overwritten.                                                            *)
(*                                                                         *)
(* A header is a window of Rows by Columns elements in a buffer of bytes.  *)
(* Depth stands for the whole element type: channels are left out, and so  *)
(* are matrices of more than two dimensions, the rank of empty ones and    *)
(* callback-scoped views, which are sources only.  A call that is rejected *)
(* changes nothing and is left out.  "faults" collects what the native     *)
(* calls did wrong.                                                        *)
(***************************************************************************)
EXTENDS Integers

CONSTANTS
    Matrices,              \* the client's objects
    Buffers,               \* allocations
    NoBuffer,
    MaxRows, MaxColumns,   \* bounds of Create
    MaxElements,
    Depths,                \* the depths in use
    OpenCV5                \* whether OpenCV 5 is linked, which has Float16 kernels

AllDepths ==
    {"UInt8", "Int8", "UInt16", "Int16", "Int32", "Float32", "Float64", "Float16"}

ASSUME DestinationsAssumption ==
    /\ NoBuffer \notin Buffers
    /\ {MaxRows, MaxColumns, MaxElements} \subseteq Nat \ {0}
    /\ Depths \subseteq AllDepths /\ "UInt8" \in Depths
    /\ OpenCV5 \in BOOLEAN

VARIABLES
    dense,     \* "Mat" or "UMat": which of the two APIs the client uses
    header,    \* the native header of each object
    faults     \* what native calls did wrong so far

vars == <<dense, header, faults>>

(***************************************************************************)
(* Headers.                                                                *)
(***************************************************************************)
Size ==
    [d \in AllDepths |->
        CASE d \in {"UInt8", "Int8"} -> 1
          [] d \in {"UInt16", "Int16", "Float16"} -> 2
          [] d \in {"Int32", "Float32"} -> 4
          [] d = "Float64" -> 8]

\* "end" is dataend: a region keeps that of its parent.
Header(buffer, first, rows, cols, step, end, depth) ==
    [buffer |-> buffer, first |-> first, rows |-> rows, cols |-> cols, step |-> step,
     end |-> end, depth |-> depth]

Empty(depth) == Header(NoBuffer, 0, 0, 0, 0, 0, depth)

Fresh(buffer, rows, cols, depth) ==
    Header(buffer, 0, rows, cols, cols * Size[depth], rows * cols * Size[depth], depth)

Is_Empty(h) == h.buffer = NoBuffer

Elements(h) == (0 .. h.rows - 1) \X (0 .. h.cols - 1)

\* The first byte of an element.
At(h, e) == h.first + e[1] * h.step + e[2] * Size[h.depth]

\* In one buffer, element e of g and element f of h have a byte in common.
Touch(g, e, h, f) ==
    /\ At(g, e) < At(h, f) + Size[h.depth]
    /\ At(h, f) < At(g, e) + Size[g.depth]

Apart(g, h) ==
    g.buffer = h.buffer => \A e \in Elements(g), f \in Elements(h) : ~ Touch(g, e, h, f)

\* Writing h while reading g never reads what was written for another element.
InPlace(g, h) ==
    g.buffer = h.buffer =>
        \A e \in Elements(g), f \in Elements(h) : e /= f => ~ Touch(g, e, h, f)

SameShape(g, h) == g.rows = h.rows /\ g.cols = h.cols

SameOperand(g, h) == SameShape(g, h) /\ g.depth = h.depth

(***************************************************************************)
(* OpenCV: the output of an operation.                                     *)
(***************************************************************************)
Held(objects) == {header[m].buffer : m \in objects}

\* Storage comes from where no object and no acquired source is.
create(h, rows, cols, depth, taken) ==
    IF ~ Is_Empty(h) /\ h.rows = rows /\ h.cols = cols /\ h.depth = depth
    THEN {h}
    ELSE {Fresh(b, rows, cols, depth) : b \in Buffers \ taken}

\* No explicit output depth.
Unspecified == "-1"

\* The depth of the values a kernel writes.  Without an explicit depth it is
\* chosen before the output is created, from what the header held before.
kernel(operation, source, old, dtype) ==
    IF dtype /= Unspecified THEN dtype
    ELSE IF operation = "Subtract" /\ source \in {"UInt8", "Int8"} /\ old = "Float32"
         THEN "Float32"
    ELSE IF operation = "Multiply" /\ source = "UInt8" /\ old = "UInt16" THEN "UInt16"
    ELSE IF operation = "Multiply" /\ source = "Int8" /\ old = "Int16" THEN "Int16"
    ELSE source

(***************************************************************************)
(* What an operation passes, and gets back.                                *)
(*                                                                         *)
(* A procedure passes the header of its destination.  A function passes a  *)
(* new one, and the client stores the result in an object.                 *)
(***************************************************************************)
Output(m, reuse) == IF reuse THEN header[m] ELSE Empty("UInt8")

\* A destination that detaches gives up its storage first.
Taken(sources, outputs, reuse) ==
    Held(IF reuse THEN (Matrices \ outputs) \cup sources ELSE Matrices)

\* A source that is acquired after the output was created in the same object
\* is the output.
Acquired(s, m, reuse, late, out) == IF late /\ reuse /\ s = m THEN out ELSE header[s]

\* The kernel writes values of depth "written" to "out", from the sources.
Faults(sources, m, reuse, late, written, out) ==
    {f \in {"misfit", "late", "clobbered", "shared"} :
        CASE f = "misfit" -> written /= out.depth
          [] f = "shared" -> out /= Output(m, reuse) /\ out.buffer \in Held(Matrices \ {m})
          [] f = "late" -> \E s \in sources : Acquired(s, m, reuse, late, out) /= header[s]
          [] f = "clobbered" ->
                \E s \in sources : ~ InPlace(Acquired(s, m, reuse, late, out), out)}

Deliver(sources, layout, m, reuse, late, old, depth, written) ==
    \E out \in create(old, layout.rows, layout.cols, depth, Taken(sources, {m}, reuse)) :
        /\ header' = [header EXCEPT ![m] = out]
        /\ faults' = faults \cup Faults(sources, m, reuse, late, written, out)
        /\ UNCHANGED dense

\* Nothing to compute: which depth the empty result has depends on the version.
DeliverEmpty(source, m, reuse, depth) ==
    \E d \in {Output(m, reuse).depth, source.depth, depth} :
        /\ header' = [header EXCEPT ![m] = Empty(d)]
        /\ UNCHANGED <<dense, faults>>

\* What the guides ask of a client: a source has the layout of the destination
\* or shares no element with it.
Supported(sources, m, reuse) ==
    reuse => \A s \in sources : header[s] = header[m] \/ Apart(header[s], header[m])

(***************************************************************************)
(* Matrices: creation, assignment and regions.                             *)
(***************************************************************************)
Create(m, rows, cols, depth) ==
    /\ rows * cols <= MaxElements
    /\ \E b \in Buffers \ Held(Matrices) :
          header' = [header EXCEPT ![m] = Fresh(b, rows, cols, depth)]
    /\ UNCHANGED <<dense, faults>>

Initialize(m) ==
    /\ header' = [header EXCEPT ![m] = Empty("UInt8")]
    /\ UNCHANGED <<dense, faults>>

\* Assignment is shallow.
Adjust(m, n) ==
    /\ header' = [header EXCEPT ![m] = header[n]]
    /\ UNCHANGED <<dense, faults>>

Region(m, n, top, left, rows, cols) ==
    /\ top + rows <= header[n].rows
    /\ left + cols <= header[n].cols
    /\ header' = [header EXCEPT ![m] =
                     Header(header[n].buffer, At(header[n], <<top, left>>), rows, cols,
                            header[n].step, header[n].end, header[n].depth)]
    /\ UNCHANGED <<dense, faults>>

(***************************************************************************)
(* Arithmetic with two matrices.                                           *)
(***************************************************************************)
\* Mutant: the output keeps its old depth until OpenCV creates it.
established_Never(operation, source, out, taken) == {out}

\* The layout of the source is established first, where the kernel would be
\* chosen by an output of another depth.
established(operation, source, out, taken) ==
    IF \/ operation = "Subtract" /\ source.depth \in {"UInt8", "Int8"} /\ out.depth = "Float32"
       \/ operation = "Multiply" /\ source.depth = "UInt8" /\ out.depth = "UInt16"
       \/ operation = "Multiply" /\ source.depth = "Int8" /\ out.depth = "Int16"
    THEN create(out, source.rows, source.cols, source.depth, taken)
    ELSE {out}

Validate_Arithmetic_Compatibility(left, right) == SameOperand(header[left], header[right])

\* Float16 before OpenCV 5 is widened into temporaries and converted back.
Binary(operation, left, right, m, reuse) ==
    /\ Validate_Arithmetic_Compatibility(left, right)
    /\ Supported({left, right}, m, reuse)
    /\ IF Is_Empty(header[left])
       THEN DeliverEmpty(header[left], m, reuse, header[left].depth)
       ELSE \E old \in established(operation, header[left], Output(m, reuse),
                                   Taken({left, right}, {m}, reuse)) :
               Deliver({left, right}, header[left], m, reuse, FALSE, old, header[left].depth,
                       kernel(operation, header[left].depth, old.depth, Unspecified))

\* "Add" stands for every operation whose kernel does not depend on what the
\* destination held: Divide, Abs_Diff, Minimum, Maximum, Add_Weighted, Scale_Add
\* and the bitwise operations without a mask, too.
Add(left, right, m, reuse) == Binary("Add", left, right, m, reuse)
Subtract(left, right, m, reuse) == Binary("Subtract", left, right, m, reuse)
Multiply(left, right, m, reuse) == Binary("Multiply", left, right, m, reuse)

(***************************************************************************)
(* Bitwise operations with a mask.                                         *)
(***************************************************************************)
Validate_Mask(source, mask) ==
    header[mask].depth = "UInt8" /\ SameShape(header[source], header[mask])

\* The destination must not share elements with the mask.
Bitwise_Masked(left, right, mask, m, reuse) ==
    /\ Validate_Arithmetic_Compatibility(left, right)
    /\ Validate_Mask(left, mask)
    /\ Supported({left, right}, m, reuse)
    /\ reuse => Apart(header[mask], header[m])
    /\ IF Is_Empty(header[left])
       THEN DeliverEmpty(header[left], m, reuse, header[left].depth)
       ELSE Deliver({left, right, mask}, header[left], m, reuse, FALSE, Output(m, reuse),
                    header[left].depth, header[left].depth)

(***************************************************************************)
(* Mathematics: one or two floating-point sources, and powers of any.      *)
(***************************************************************************)
IsFloat(m) == header[m].depth \in {"Float32", "Float64"}

\* Sqrt, Exp and Log.
Unary_Math(x, m, reuse) ==
    /\ IsFloat(x)
    /\ Supported({x}, m, reuse)
    /\ IF Is_Empty(header[x])
       THEN DeliverEmpty(header[x], m, reuse, header[x].depth)
       ELSE Deliver({x}, header[x], m, reuse, FALSE, Output(m, reuse), header[x].depth,
                    header[x].depth)

\* Magnitude and Phase.
Float_Math(x, y, m, reuse) ==
    /\ IsFloat(x)
    /\ SameOperand(header[x], header[y])
    /\ Supported({x, y}, m, reuse)
    /\ IF Is_Empty(header[x])
       THEN DeliverEmpty(header[x], m, reuse, header[x].depth)
       ELSE Deliver({x, y}, header[x], m, reuse, FALSE, Output(m, reuse), header[x].depth,
                    header[x].depth)

\* OpenCV multiplies where the power is two.
Pow(source, squares, m, reuse) ==
    LET operation == IF squares THEN "Multiply" ELSE "Pow"
    IN  /\ header[source].depth /= "Float16"
        /\ Supported({source}, m, reuse)
        /\ IF Is_Empty(header[source])
           THEN DeliverEmpty(header[source], m, reuse, header[source].depth)
           ELSE \E old \in established(operation, header[source], Output(m, reuse),
                                       Taken({source}, {m}, reuse)) :
                   Deliver({source}, header[source], m, reuse, FALSE, old, header[source].depth,
                           kernel(operation, header[source].depth, old.depth, Unspecified))

(***************************************************************************)
(* Conversion and normalization.                                           *)
(***************************************************************************)
\* Mutant: the source itself is returned where its depth does not change.
Convert_To_Shallow(source, depth, m, reuse) ==
    /\ Supported({source}, m, reuse)
    /\ IF Is_Empty(header[source])
       THEN DeliverEmpty(header[source], m, reuse, depth)
       ELSE IF header[source].depth = depth
       THEN Deliver({source}, header[source], m, reuse, FALSE, header[source], depth, depth)
       ELSE Deliver({source}, header[source], m, reuse, FALSE, Output(m, reuse), depth, depth)

\* Mutant: the bytes of the destination get another depth where they are.
Convert_To_Recast(source, depth, m, reuse) ==
    /\ Supported({source}, m, reuse)
    /\ IF Is_Empty(header[source])
       THEN DeliverEmpty(header[source], m, reuse, depth)
       ELSE Deliver({source}, header[source], m, reuse, FALSE,
                    [Output(m, reuse) EXCEPT !.depth = depth], depth, depth)

Convert_To(source, depth, m, reuse) ==
    /\ Supported({source}, m, reuse)
    /\ IF Is_Empty(header[source])
       THEN DeliverEmpty(header[source], m, reuse, depth)
       ELSE Deliver({source}, header[source], m, reuse, FALSE, Output(m, reuse), depth, depth)

Normalize(source, m, reuse) ==
    /\ Supported({source}, m, reuse)
    /\ IF Is_Empty(header[source])
       THEN DeliverEmpty(header[source], m, reuse, header[source].depth)
       ELSE Deliver({source}, header[source], m, reuse, FALSE, Output(m, reuse),
                    header[source].depth, header[source].depth)

(***************************************************************************)
(* Masks as results: comparisons and ranges.  With OpenCL a UMat source is *)
(* acquired after the output was created.                                  *)
(***************************************************************************)
Late == IF dense = "UMat" THEN BOOLEAN ELSE {FALSE}

\* Mutant: a source of any depth may be the destination.
mask_compare_alias_preflight_None(left, right, m, reuse) == TRUE

mask_compare_alias_preflight(left, right, m, reuse) ==
    dense = "UMat" /\ reuse => (m \in {left, right} => header[m].depth = "UInt8")

mask_range_alias_preflight(source, m, reuse) == dense = "UMat" /\ reuse => source /= m

HasMaskKernel(source) == header[source].depth /= "Float16" \/ OpenCV5

Compare(left, right, m, reuse) ==
    /\ Validate_Arithmetic_Compatibility(left, right)
    /\ Supported({left, right}, m, reuse)
    /\ mask_compare_alias_preflight(left, right, m, reuse)
    /\ HasMaskKernel(left)
    /\ IF Is_Empty(header[left])
       THEN DeliverEmpty(header[left], m, reuse, "UInt8")
       ELSE \E late \in Late :
               Deliver({left, right}, header[left], m, reuse, late, Output(m, reuse), "UInt8",
                       "UInt8")

\* No layout may be shared.
In_Range(source, m, reuse) ==
    /\ ~ Is_Empty(header[source])
    /\ reuse => Apart(header[source], header[m]) \/ (dense = "UMat" /\ source = m)
    /\ mask_range_alias_preflight(source, m, reuse)
    /\ HasMaskKernel(source)
    /\ \E late \in Late :
          Deliver({source}, header[source], m, reuse, late, Output(m, reuse), "UInt8", "UInt8")

(***************************************************************************)
(* A matrix and a scalar.  These procedures look at the storage of their   *)
(* destination themselves, so that a client may pass any.                  *)
(***************************************************************************)
\* Mutant: the outputs that start where the source starts, only.
scalar_storage_relation_Start(a, b) ==
    IF Is_Empty(a) \/ Is_Empty(b) THEN 0
    ELSE IF a = b THEN 1
    ELSE IF a.buffer = b.buffer /\ a.first = b.first THEN 2
    ELSE 0

\* 0: no byte in common, 1: the same elements, 2: the storage between the
\* first element and the end of the allocation meets.
scalar_storage_relation(a, b) ==
    IF Is_Empty(a) \/ Is_Empty(b) THEN 0
    ELSE IF a.buffer = b.buffer /\ a.first = b.first /\ SameOperand(a, b) /\ a.step = b.step
    THEN 1
    ELSE IF a.buffer = b.buffer /\ a.first < b.end /\ b.first < a.end THEN 2
    ELSE 0

Validate_Scalar_Source(m) == ~ Is_Empty(header[m]) /\ header[m].depth /= "Float16"

\* A comparison changes the depth of every source but a UInt8 one.
Validate_Scalar_Destination(source, m, comparison) ==
    LET relation == scalar_storage_relation(header[source], header[m])
    IN  /\ relation /= 2
        /\ relation = 1 /\ comparison => header[source].depth = "UInt8"

\* Mutant: the depth of the output is left to OpenCV.
scalar_dispatch_Unspecified(operation, source, old) ==
    kernel(operation, source.depth, old.depth, Unspecified)

\* The depth is explicit, so that the one the destination had has no effect.
scalar_dispatch(operation, source, old) ==
    kernel(operation, source.depth, old.depth, source.depth)

\* Components that are rejected, because they or a divisor would not convert,
\* depend on the values.
Scalar_Arithmetic(operation, source, m, reuse) ==
    /\ dense = "Mat"
    /\ Validate_Scalar_Source(source)
    /\ reuse => Validate_Scalar_Destination(source, m, FALSE)
    /\ Deliver({source}, header[source], m, reuse, FALSE, Output(m, reuse), header[source].depth,
               scalar_dispatch(operation, header[source], Output(m, reuse)))

Compare_Scalar(source, m, reuse) ==
    /\ dense = "Mat"
    /\ Validate_Scalar_Source(source)
    /\ reuse => Validate_Scalar_Destination(source, m, TRUE)
    /\ Deliver({source}, header[source], m, reuse, FALSE, Output(m, reuse), "UInt8", "UInt8")

(***************************************************************************)
(* Two outputs: polar and Cartesian coordinates.                           *)
(***************************************************************************)
\* The guides exclude distinct objects that share elements.
Unshared(sources, outputs) ==
    /\ \A s \in sources, m \in outputs : s /= m => Apart(header[s], header[m])
    /\ \A m, n \in outputs : m /= n => Apart(header[m], header[n])

\* Mutant: only the outputs are compared.
Validate_Polar_Destinations_Outputs(sources, first, second) == first /= second

Validate_Polar_Destinations(sources, first, second) ==
    first /= second /\ first \notin sources /\ second \notin sources

\* A kernel may write the first output before it reads a source for the second.
PolarFaults(sources, first, second, reuse, out1, out2) ==
    {f \in {"clobbered", "shared"} :
        CASE f = "clobbered" ->
                \/ ~ Apart(out1, out2)
                \/ \E s \in sources : ~ Apart(header[s], out1) \/ ~ InPlace(header[s], out2)
          [] f = "shared" ->
                \/ out1 /= Output(first, reuse) /\ out1.buffer \in Held(Matrices \ {first})
                \/ /\ out2 /= Output(second, reuse)
                   /\ out2.buffer \in Held(Matrices \ {first, second}) \cup {out1.buffer}}

\* A function stores its results in the two fields of a new record.
Polar(sources, layout, first, second, reuse) ==
    /\ IF reuse
       THEN /\ Unshared(sources, {first, second})
            /\ Validate_Polar_Destinations(sources, first, second)
       ELSE first /= second
    /\ IF Is_Empty(layout)
       THEN \E d1 \in {Output(first, reuse).depth, layout.depth},
               d2 \in {Output(second, reuse).depth, layout.depth} :
               /\ header' = [header EXCEPT ![first] = Empty(d1), ![second] = Empty(d2)]
               /\ UNCHANGED <<dense, faults>>
       ELSE \E out1 \in create(Output(first, reuse), layout.rows, layout.cols, layout.depth,
                               Taken(sources, {first}, reuse)) :
            \E out2 \in create(Output(second, reuse), layout.rows, layout.cols, layout.depth,
                               Taken(sources, {first, second}, reuse) \cup {out1.buffer}) :
               /\ header' = [header EXCEPT ![first] = out1, ![second] = out2]
               /\ faults' = faults \cup PolarFaults(sources, first, second, reuse, out1, out2)
               /\ UNCHANGED dense

Cart_To_Polar(x, y, magnitude, angle, reuse) ==
    /\ IsFloat(x)
    /\ SameOperand(header[x], header[y])
    /\ Polar({x, y}, header[x], magnitude, angle, reuse)

\* An empty magnitude stands for ones.
Polar_To_Cart(magnitude, angle, x, y, reuse) ==
    /\ IsFloat(angle)
    /\ Is_Empty(header[magnitude]) \/ SameOperand(header[magnitude], header[angle])
    /\ Polar({magnitude, angle}, header[angle], x, y, reuse)

(***************************************************************************)
(* The system.                                                             *)
(***************************************************************************)
Init ==
    /\ dense \in {"Mat", "UMat"}
    /\ header = [m \in Matrices |-> Empty("UInt8")]
    /\ faults = {}

Share ==
    \E m, n \in Matrices :
        \/ Adjust(m, n)
        \/ \E top \in 0 .. header[n].rows - 1, left \in 0 .. header[n].cols - 1 :
           \E rows \in 1 .. header[n].rows, cols \in 1 .. header[n].cols :
              Region(m, n, top, left, rows, cols)

Bind ==
    \E m \in Matrices :
        \/ Initialize(m)
        \/ \E rows \in 1 .. MaxRows, cols \in 1 .. MaxColumns, depth \in Depths :
              Create(m, rows, cols, depth)

\* "Add" stands for Divide, Subtract_From and Divide_Into, too.
ScalarOperations == {"Add", "Subtract", "Multiply"}

WithOneSource(source, m, reuse) ==
    \/ Unary_Math(source, m, reuse)
    \/ \E squares \in BOOLEAN : Pow(source, squares, m, reuse)
    \/ \E depth \in Depths : Convert_To(source, depth, m, reuse)
    \/ Normalize(source, m, reuse)
    \/ In_Range(source, m, reuse)
    \/ \E operation \in ScalarOperations : Scalar_Arithmetic(operation, source, m, reuse)
    \/ Compare_Scalar(source, m, reuse)

WithTwoSources(left, right, m, reuse) ==
    \/ Add(left, right, m, reuse)
    \/ Subtract(left, right, m, reuse)
    \/ Multiply(left, right, m, reuse)
    \/ \E mask \in Matrices : Bitwise_Masked(left, right, mask, m, reuse)
    \/ Float_Math(left, right, m, reuse)
    \/ Compare(left, right, m, reuse)
    \/ \E n \in Matrices : Cart_To_Polar(left, right, m, n, reuse)
    \/ \E n \in Matrices : Polar_To_Cart(left, right, m, n, reuse)

Compute ==
    \E m \in Matrices, reuse \in BOOLEAN, left \in Matrices :
        \/ WithOneSource(left, m, reuse)
        \/ \E right \in Matrices : WithTwoSources(left, right, m, reuse)

Next == Bind \/ Share \/ Compute

Spec == Init /\ [][Next]_vars

(***************************************************************************)
(* Properties.                                                             *)
(***************************************************************************)
\* The elements of a header lie in its storage and rows do not meet.
WellFormed(h) ==
    /\ h.cols * Size[h.depth] <= h.step
    /\ h.first + (h.rows - 1) * h.step + h.cols * Size[h.depth] <= h.end

\* Types, and headers whose elements lie inside of the storage they share:
\* what every native call relies on (cv::Mat, as the shim's handles hold it).
TypeOK ==
    /\ dense \in {"Mat", "UMat"}
    /\ faults \subseteq {"misfit", "late", "clobbered", "shared"}
    /\ \A m \in Matrices :
        /\ header[m] \in [buffer : Buffers \cup {NoBuffer}, first : Nat, rows : Nat, cols : Nat,
                          step : Nat, end : Nat, depth : AllDepths]
        /\ IF Is_Empty(header[m])
           THEN header[m] = Empty(header[m].depth)
           ELSE WellFormed(header[m]) /\ header[m].rows > 0 /\ header[m].cols > 0

\* Whatever a destination held before, the kernel an operation runs writes
\* values of the depth its output has.  dense_add_or_subtract, dense_multiply,
\* prepare_pow_output and scalar_dispatch see to it.
KernelsFitTheirOutput == "misfit" \notin faults

\* Whatever shares storage with a destination, no source element is read after
\* a byte of it was written for another element or another output: scalar
\* operations and polar transforms reject the destinations for which that would
\* happen, the others detach or write in place.
NothingReadAfterItIsWritten == "clobbered" \notin faults

\* Every source a kernel reads is the one that was passed, even where OpenCL
\* acquires it after the output was created in the same object: the alias
\* preflights of Compare and In_Range reject the rest.
SourcesAreThosePassed == "late" \notin faults

\* The result of an operation shares storage with nothing: only assignment and
\* regions make two objects share, and a destination that cannot be written in
\* place detaches from all.
ResultsAreIndependent == "shared" \notin faults
===============================================================================
