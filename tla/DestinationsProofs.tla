------------------------- MODULE DestinationsProofs -------------------------
(***************************************************************************)
(* Theorems about Destinations, for any number of objects and buffers, any *)
(* bounds on shapes, any set of depths and both versions of OpenCV: no     *)
(* operation has one of the four faults, and headers stay in their         *)
(* storage.                                                                *)
(***************************************************************************)
EXTENDS Destinations, TLAPS

-----------------------------------------------------------------------------
(***************************************************************************)
(* Numbers.                                                                *)
(***************************************************************************)
LEMMA Sizes ==
    ASSUME NEW d \in AllDepths
    PROVE  Size[d] \in Nat \ {0}
BY DEF AllDepths, Size

LEMMA ProductIsNat ==
    ASSUME NEW a \in Nat, NEW b \in Nat
    PROVE  a * b \in Nat
OBVIOUS

LEMMA Monotonic ==
    ASSUME NEW a \in Nat, NEW b \in Nat, NEW c \in Nat, a <= b
    PROVE  a * c <= b * c
OBVIOUS

LEMMA OneMore ==
    ASSUME NEW a \in Nat, NEW c \in Nat
    PROVE  (a + 1) * c = a * c + c
OBVIOUS

LEMMA OneLess ==
    ASSUME NEW a \in Nat \ {0}, NEW c \in Nat
    PROVE  (a - 1) * c + c = a * c /\ a - 1 \in Nat
OBVIOUS

LEMMA Distributes ==
    ASSUME NEW a \in Nat, NEW b \in Nat, NEW c \in Nat
    PROVE  (a + b) * c = a * c + b * c
OBVIOUS

-----------------------------------------------------------------------------
(***************************************************************************)
(* Headers.                                                                *)
(***************************************************************************)
HeaderType ==
    [buffer : Buffers \cup {NoBuffer}, first : Nat, rows : Nat, cols : Nat,
     step : Nat, end : Nat, depth : AllDepths]

\* A header that addresses elements inside of its storage, or is empty.
Sound(h) ==
    /\ h \in HeaderType
    /\ IF Is_Empty(h) THEN h = Empty(h.depth)
       ELSE WellFormed(h) /\ h.rows > 0 /\ h.cols > 0

LEMMA Fields ==
    ASSUME NEW h \in HeaderType
    PROVE  /\ h.buffer \in Buffers \cup {NoBuffer} /\ h.first \in Nat /\ h.rows \in Nat
           /\ h.cols \in Nat /\ h.step \in Nat /\ h.end \in Nat /\ h.depth \in AllDepths
           /\ Size[h.depth] \in Nat \ {0}
BY Sizes DEF HeaderType

LEMMA EmptyIsSound ==
    ASSUME NEW d \in AllDepths
    PROVE  Sound(Empty(d)) /\ Is_Empty(Empty(d)) /\ Empty(d).depth = d
BY DEF Sound, Empty, Header, HeaderType, Is_Empty

LEMMA FreshIsSound ==
    ASSUME NEW b \in Buffers, NEW rows \in Nat \ {0}, NEW cols \in Nat \ {0}, NEW d \in AllDepths
    PROVE  LET h == Fresh(b, rows, cols, d)
           IN  /\ Sound(h) /\ ~ Is_Empty(h) /\ h.buffer = b
               /\ h.rows = rows /\ h.cols = cols /\ h.depth = d
<1> DEFINE h == Fresh(b, rows, cols, d)
           w == cols * Size[d]
<1>1. Size[d] \in Nat \ {0} /\ w \in Nat
  <2>1. Size[d] \in Nat \ {0}
        BY Sizes
  <2> QED  BY <2>1, ProductIsNat
<1>2. rows * cols * Size[d] = rows * w /\ rows * w \in Nat
  <2>1. \A a, b1, c \in Nat : a * b1 * c = a * (b1 * c)
        OBVIOUS
  <2> QED  BY <1>1, <2>1, ProductIsNat
<1> HIDE DEF w
<1>3. /\ h.buffer = b /\ h.first = 0 /\ h.rows = rows /\ h.cols = cols /\ h.step = w
      /\ h.end = rows * w /\ h.depth = d
      /\ h = [buffer |-> b, first |-> 0, rows |-> rows, cols |-> cols, step |-> w,
              end |-> rows * w, depth |-> d]
      BY <1>2 DEF Fresh, Header, w
<1>4. h \in HeaderType
      BY <1>1, <1>2, <1>3 DEF HeaderType
<1>5. (rows - 1) * w + w = rows * w
      BY <1>1, OneLess
<1>6. WellFormed(h)
  <2>1. cols * Size[d] = w
        BY DEF w
  <2>2. 0 + (rows - 1) * w + w = rows * w
    <3>1. (rows - 1) * w \in Nat
          BY <1>1, OneLess, ProductIsNat
    <3> QED  BY <1>1, <1>5, <3>1
  <2> QED  BY <1>1, <1>2, <1>3, <2>1, <2>2 DEF WellFormed
<1> HIDE DEF h
<1>7. ~ Is_Empty(h)
      BY <1>3, DestinationsAssumption DEF Is_Empty
<1> QED  BY <1>3, <1>4, <1>6, <1>7 DEF Sound, h

\* What OpenCV creates has the shape and the depth it was asked for; it is the
\* header that was there, if that has them, or in a buffer nothing else uses.
LEMMA CreatedIs ==
    ASSUME NEW h, Sound(h), NEW rows \in Nat \ {0}, NEW cols \in Nat \ {0}, NEW d \in AllDepths,
           NEW taken, NEW out \in create(h, rows, cols, d, taken)
    PROVE  /\ Sound(out) /\ ~ Is_Empty(out)
           /\ out.rows = rows /\ out.cols = cols /\ out.depth = d
           /\ out = h \/ out.buffer \in Buffers \ taken
           /\ ~ Is_Empty(h) /\ h.rows = rows /\ h.cols = cols /\ h.depth = d => out = h
<1>1. CASE ~ Is_Empty(h) /\ h.rows = rows /\ h.cols = cols /\ h.depth = d
      BY <1>1 DEF create
<1>2. CASE ~ (~ Is_Empty(h) /\ h.rows = rows /\ h.cols = cols /\ h.depth = d)
  <2>1. PICK b \in Buffers \ taken : out = Fresh(b, rows, cols, d)
        BY <1>2 DEF create
  <2> QED  BY <1>2, <2>1, FreshIsSound
<1> QED  BY <1>1, <1>2

\* Where the elements of a header are.
LEMMA Places ==
    ASSUME NEW h, Sound(h), ~ Is_Empty(h), NEW e \in Elements(h)
    PROVE  /\ e[1] \in 0 .. h.rows - 1 /\ e[2] \in 0 .. h.cols - 1
           /\ At(h, e) \in Nat /\ h.first <= At(h, e)
           /\ e[2] * Size[h.depth] + Size[h.depth] <= h.cols * Size[h.depth]
           /\ At(h, e) + Size[h.depth] <= h.end
           /\ At(h, e) = h.first + e[1] * h.step + e[2] * Size[h.depth]
<1> DEFINE z == Size[h.depth]
           r == e[1]
           c == e[2]
<1>1. /\ h.first \in Nat /\ h.rows \in Nat \ {0} /\ h.cols \in Nat \ {0} /\ h.step \in Nat
      /\ h.end \in Nat /\ z \in Nat \ {0} /\ WellFormed(h)
      BY Fields DEF Sound
<1>2. r \in 0 .. h.rows - 1 /\ c \in 0 .. h.cols - 1
      BY DEF Elements
<1>3. r \in Nat /\ c \in Nat /\ r <= h.rows - 1 /\ c + 1 <= h.cols /\ h.rows - 1 \in Nat
      BY <1>1, <1>2
<1> DEFINE rs == r * h.step
           last == (h.rows - 1) * h.step
           cz == c * z
           w == h.cols * z
<1>4. rs \in Nat /\ last \in Nat /\ cz \in Nat /\ w \in Nat
      BY <1>1, <1>3, ProductIsNat
<1>5. rs <= last
      BY <1>1, <1>3, Monotonic
<1>6. cz + z <= w
  <2>1. (c + 1) * z = cz + z
        BY <1>1, <1>3, OneMore
  <2>2. c + 1 \in Nat /\ (c + 1) * z <= w
        BY <1>1, <1>3, Monotonic
  <2> QED  BY <2>1, <2>2
<1>7. At(h, e) = h.first + rs + cz /\ h.first + last + w <= h.end
      BY <1>1 DEF At, WellFormed
<1> HIDE DEF rs, last, cz, w, z
<1>8. /\ At(h, e) \in Nat /\ h.first <= At(h, e) /\ At(h, e) + z <= h.end
      BY <1>1, <1>4, <1>5, <1>6, <1>7
<1> QED  BY <1>2, <1>6, <1>7, <1>8 DEF z, w, cz, rs

\* Two headers with the same elements in the same places: each element touches
\* itself only.
LEMMA SameIsInPlace ==
    ASSUME NEW g, NEW h, Sound(g), Sound(h), ~ Is_Empty(h), g.buffer = h.buffer,
           g.first = h.first, g.rows = h.rows, g.cols = h.cols, g.step = h.step,
           g.depth = h.depth
    PROVE  InPlace(g, h)
<1> DEFINE z == Size[h.depth]
<1>1. /\ h.first \in Nat /\ h.rows \in Nat \ {0} /\ h.cols \in Nat \ {0} /\ h.step \in Nat
      /\ z \in Nat \ {0} /\ h.cols * z <= h.step /\ h.cols * z \in Nat
      BY Fields, ProductIsNat DEF Sound, WellFormed
<1>2. /\ Elements(g) = Elements(h) /\ \A e : At(g, e) = At(h, e)
      BY DEF Elements, At
<1>3. SUFFICES ASSUME NEW e \in Elements(h), NEW f \in Elements(h), e # f
               PROVE  At(h, e) + z <= At(h, f) \/ At(h, f) + z <= At(h, e)
  <2>1. \A e \in Elements(h) : At(h, e) \in Nat
        BY Places
  <2>2. \A e, f \in Elements(h) :
           (At(h, e) + z <= At(h, f) \/ At(h, f) + z <= At(h, e)) => ~ Touch(g, e, h, f)
        BY <1>1, <1>2, <2>1 DEF Touch
  <2> QED  BY <1>2, <1>3, <2>2 DEF InPlace
\* An element of an earlier row, or of the same row further left, is before.
<1>4. ASSUME NEW a \in Elements(h), NEW b \in Elements(h),
             a[1] < b[1] \/ (a[1] = b[1] /\ a[2] < b[2])
      PROVE  At(h, a) + z <= At(h, b)
  <2> DEFINE ar == a[1] * h.step
             br == b[1] * h.step
             ac == a[2] * z
             bc == b[2] * z
             w == h.cols * z
  <2>1. /\ a[1] \in Nat /\ a[2] \in Nat /\ b[1] \in Nat /\ b[2] \in Nat
        /\ ac + z <= w
        /\ At(h, a) = h.first + ar + ac /\ At(h, b) = h.first + br + bc
        BY Places, <1>1
  <2>2. ar \in Nat /\ br \in Nat /\ ac \in Nat /\ bc \in Nat /\ w \in Nat
        BY <1>1, <2>1, ProductIsNat
  <2>3. CASE a[1] < b[1]
    <3>1. a[1] + 1 \in Nat /\ a[1] + 1 <= b[1]
          BY <2>1, <2>3
    <3>2. (a[1] + 1) * h.step = ar + h.step /\ (a[1] + 1) * h.step <= br
          BY <1>1, <2>1, <3>1, OneMore, Monotonic
    <3>3. ar + h.step <= br /\ w <= h.step
          BY <1>1, <3>2
    <3> HIDE DEF ar, br, ac, bc, w, z
    <3> QED  BY <1>1, <2>1, <2>2, <3>3
  <2>4. CASE (a[1] = b[1] /\ a[2] < b[2])
    <3>1. a[2] + 1 \in Nat /\ a[2] + 1 <= b[2] /\ ar = br
          BY <2>1, <2>4
    <3>2. (a[2] + 1) * z = ac + z /\ (a[2] + 1) * z <= bc
          BY <1>1, <2>1, <3>1, OneMore, Monotonic
    <3>3. ac + z <= bc
          BY <3>2
    <3> HIDE DEF ar, br, ac, bc, w, z
    <3> QED  BY <1>1, <2>1, <2>2, <3>1, <3>3
  <2> QED  BY <1>4, <2>3, <2>4
<1>5. \/ e[1] < f[1] \/ (e[1] = f[1] /\ e[2] < f[2])
      \/ f[1] < e[1] \/ (f[1] = e[1] /\ f[2] < e[2])
  <2>1. /\ e[1] \in Nat /\ e[2] \in Nat /\ f[1] \in Nat /\ f[2] \in Nat
        BY Places, <1>1
  <2>2. e[1] # f[1] \/ e[2] # f[2]
        BY <1>3 DEF Elements
  <2> QED  BY <2>1, <2>2
<1> HIDE DEF z
<1>6. CASE e[1] < f[1] \/ (e[1] = f[1] /\ e[2] < f[2])
  <2>1. At(h, e) + z <= At(h, f)
        BY <1>4, <1>6
  <2> QED  BY <2>1
<1>7. CASE f[1] < e[1] \/ (f[1] = e[1] /\ f[2] < e[2])
  <2>1. At(h, f) + z <= At(h, e)
        BY <1>4, <1>7
  <2> QED  BY <2>1
<1> QED  BY <1>5, <1>6, <1>7

LEMMA ApartIsInPlace ==
    ASSUME NEW g, NEW h, Apart(g, h)
    PROVE  InPlace(g, h)
BY DEF Apart, InPlace

LEMMA OtherBuffersApart ==
    ASSUME NEW g, NEW h, g.buffer # h.buffer
    PROVE  Apart(g, h) /\ InPlace(g, h)
BY DEF Apart, InPlace

\* Storage that does not meet, as scalar_storage_relation compares it.
LEMMA OutsideIsApart ==
    ASSUME NEW g, NEW h, Sound(g), Sound(h), ~ Is_Empty(g), ~ Is_Empty(h),
           ~ (g.first < h.end /\ h.first < g.end)
    PROVE  Apart(g, h)
<1>1. /\ g.first \in Nat /\ g.end \in Nat /\ Size[g.depth] \in Nat
      /\ h.first \in Nat /\ h.end \in Nat /\ Size[h.depth] \in Nat
      BY Fields DEF Sound
<1> SUFFICES ASSUME NEW e \in Elements(g), NEW f \in Elements(h)
             PROVE  ~ Touch(g, e, h, f)
    BY DEF Apart
<1>2. /\ At(g, e) \in Nat /\ g.first <= At(g, e) /\ At(g, e) + Size[g.depth] <= g.end
      /\ At(h, f) \in Nat /\ h.first <= At(h, f) /\ At(h, f) + Size[h.depth] <= h.end
      BY Places
<1> QED  BY <1>1, <1>2 DEF Touch

\* A region of a sound header is sound.
LEMMA RegionIsSound ==
    ASSUME NEW h, Sound(h), ~ Is_Empty(h),
           NEW top \in 0 .. h.rows - 1, NEW left \in 0 .. h.cols - 1,
           NEW rows \in 1 .. h.rows, NEW cols \in 1 .. h.cols,
           top + rows <= h.rows, left + cols <= h.cols
    PROVE  Sound(Header(h.buffer, At(h, <<top, left>>), rows, cols, h.step, h.end, h.depth))
<1> DEFINE e == <<top, left>>
           z == Size[h.depth]
           g == Header(h.buffer, At(h, e), rows, cols, h.step, h.end, h.depth)
           lz == left * z
           cz == cols * z
           w == h.cols * z
           t == top * h.step
           r == (rows - 1) * h.step
           l == (h.rows - 1) * h.step
<1>1. /\ h.first \in Nat /\ h.rows \in Nat \ {0} /\ h.cols \in Nat \ {0} /\ h.step \in Nat
      /\ h.end \in Nat /\ z \in Nat \ {0} /\ WellFormed(h) /\ h.depth \in AllDepths
      /\ h.buffer \in Buffers \cup {NoBuffer}
      BY Fields DEF Sound
<1>2. /\ top \in Nat /\ left \in Nat /\ rows \in Nat /\ cols \in Nat
      /\ rows > 0 /\ cols > 0 /\ rows - 1 \in Nat /\ h.rows - 1 \in Nat
      /\ top + (rows - 1) \in Nat /\ top + (rows - 1) <= h.rows - 1 /\ left + cols \in Nat
      BY <1>1
<1>3. lz \in Nat /\ cz \in Nat /\ w \in Nat /\ t \in Nat /\ r \in Nat /\ l \in Nat
      BY <1>1, <1>2, ProductIsNat
<1>4. lz + cz <= w
  <2>1. (left + cols) * z = lz + cz
        BY <1>1, <1>2, Distributes
  <2>2. (left + cols) * z <= w
        BY <1>1, <1>2, Monotonic
  <2> QED  BY <2>1, <2>2
<1>5. t + r <= l
  <2>1. (top + (rows - 1)) * h.step = t + r
        BY <1>1, <1>2, Distributes
  <2>2. (top + (rows - 1)) * h.step <= l
        BY <1>1, <1>2, Monotonic
  <2> QED  BY <2>1, <2>2
<1>6. w <= h.step /\ h.first + l + w <= h.end
      BY <1>1 DEF WellFormed
<1>7. At(h, e) = h.first + t + lz
      BY DEF At
<1> HIDE DEF lz, cz, w, t, r, l
<1>8. cz <= h.step /\ At(h, e) + r + cz <= h.end /\ At(h, e) \in Nat
      BY <1>1, <1>3, <1>4, <1>5, <1>6, <1>7
<1>9. /\ g.buffer = h.buffer /\ g.first = At(h, e) /\ g.rows = rows /\ g.cols = cols
      /\ g.step = h.step /\ g.end = h.end /\ g.depth = h.depth
      /\ g = [buffer |-> h.buffer, first |-> At(h, e), rows |-> rows, cols |-> cols,
              step |-> h.step, end |-> h.end, depth |-> h.depth]
      BY DEF Header
<1>10. g \in HeaderType
      BY <1>1, <1>2, <1>8, <1>9 DEF HeaderType
<1>11. WellFormed(g)
      BY <1>8, <1>9 DEF WellFormed, cz, r, z
<1> HIDE DEF g
<1>12. ~ Is_Empty(g)
      BY <1>9 DEF Is_Empty
<1> QED  BY <1>2, <1>9, <1>10, <1>11, <1>12 DEF Sound, g

-----------------------------------------------------------------------------
(***************************************************************************)
(* The invariant, and what an operation delivers.                          *)
(***************************************************************************)
IInv ==
    /\ dense \in {"Mat", "UMat"}
    /\ header \in [Matrices -> HeaderType]
    /\ \A m \in Matrices : Sound(header[m])
    /\ faults = {}

LEMMA SoundHeaders ==
    ASSUME IInv, NEW m \in Matrices
    PROVE  /\ Sound(header[m]) /\ header[m] \in HeaderType /\ header[m].depth \in AllDepths
           /\ Is_Empty(header[m]) => header[m].rows = 0
           /\ ~ Is_Empty(header[m]) => header[m].rows \in Nat \ {0} /\ header[m].cols \in Nat \ {0}
<1>1. Sound(header[m]) /\ header[m] \in HeaderType
      BY DEF IInv
<1>2. Is_Empty(header[m]) => header[m].rows = 0
      BY <1>1 DEF Sound, Empty, Header
<1>3. header[m].depth \in AllDepths /\ header[m].rows \in Nat /\ header[m].cols \in Nat
      BY <1>1, Fields
<1>4. ~ Is_Empty(header[m]) => header[m].rows > 0 /\ header[m].cols > 0
      BY <1>1 DEF Sound
<1> QED  BY <1>1, <1>2, <1>3, <1>4

LEMMA OutputIs ==
    ASSUME IInv, NEW m \in Matrices, NEW reuse \in BOOLEAN
    PROVE  /\ Sound(Output(m, reuse)) /\ Output(m, reuse).depth \in AllDepths
           /\ ~ Is_Empty(Output(m, reuse)) => reuse /\ Output(m, reuse) = header[m]
           /\ reuse => Output(m, reuse) = header[m]
<1>1. CASE reuse
      BY <1>1, SoundHeaders DEF Output
<1>2. CASE ~ reuse
  <2>1. "UInt8" \in AllDepths
        BY DEF AllDepths
  <2> QED  BY <1>2, <2>1, EmptyIsSound DEF Output
<1> QED  BY <1>1, <1>2

\* One header changes.
LEMMA HeaderChanges ==
    ASSUME IInv, NEW m \in Matrices, NEW h, Sound(h), header' = [header EXCEPT ![m] = h],
           dense' = dense, faults' = {}
    PROVE  IInv'
<1>1. h \in HeaderType
      BY DEF Sound
<1>2. header' \in [Matrices -> HeaderType]
      BY <1>1 DEF IInv
<1>3. \A n \in Matrices : header'[n] = h \/ header'[n] = header[n]
      BY DEF IInv
<1>4. \A n \in Matrices : Sound(header'[n])
      BY <1>3 DEF IInv
<1>5. \A n \in Matrices : Sound(header[n])'
      BY <1>4 DEF Sound, WellFormed, HeaderType, Is_Empty, Empty, Header
<1> QED  BY <1>2, <1>5 DEF IInv, HeaderType

\* No object holds what a function, or a destination that detaches, is given,
\* nor does a source.
LEMMA TakenCovers ==
    ASSUME NEW sources \in SUBSET Matrices, NEW m, NEW reuse \in BOOLEAN,
           NEW out, out.buffer \notin Taken(sources, {m}, reuse)
    PROVE  /\ out.buffer \notin Held(Matrices \ {m})
           /\ \A s \in sources : InPlace(header[s], out)
<1>1. /\ out.buffer \notin Held(Matrices \ {m})
      /\ \A s \in sources : header[s].buffer # out.buffer
      BY DEF Taken, Held
<1> QED  BY <1>1, OtherBuffersApart

\* An operation has no fault when its kernel writes the depth of the output,
\* reads what was passed, and either detaches or works in place.
LEMMA NoFaults ==
    ASSUME IInv, NEW sources \in SUBSET Matrices, NEW m \in Matrices, NEW reuse \in BOOLEAN,
           NEW late, NEW written, NEW out, written = out.depth,
           out = Output(m, reuse) \/ out.buffer \notin Taken(sources, {m}, reuse),
           out = Output(m, reuse) => \A s \in sources : InPlace(header[s], out),
           late /\ reuse /\ m \in sources => out = header[m]
    PROVE  Faults(sources, m, reuse, late, written, out) = {}
<1>1. \A s \in sources : Acquired(s, m, reuse, late, out) = header[s]
      BY DEF Acquired
<1>2. out # Output(m, reuse) => out.buffer \notin Held(Matrices \ {m})
                                /\ \A s \in sources : InPlace(header[s], out)
      BY TakenCovers
<1>3. \A s \in sources : InPlace(Acquired(s, m, reuse, late, out), out)
      BY <1>1, <1>2
<1>4. "misfit" # "late" /\ "misfit" # "clobbered" /\ "misfit" # "shared" /\ "late" # "clobbered"
      /\ "late" # "shared" /\ "clobbered" # "shared"
      OBVIOUS
<1> DEFINE Has(f) == CASE f = "misfit" -> written /= out.depth
          [] f = "shared" -> out /= Output(m, reuse) /\ out.buffer \in Held(Matrices \ {m})
          [] f = "late" -> \E s \in sources : Acquired(s, m, reuse, late, out) /= header[s]
          [] f = "clobbered" ->
                \E s \in sources : ~ InPlace(Acquired(s, m, reuse, late, out), out)
<1>5. Has("misfit") = FALSE /\ Has("shared") = FALSE /\ Has("late") = FALSE /\ Has("clobbered") = FALSE
      BY <1>1, <1>2, <1>3, <1>4
<1>6. Faults(sources, m, reuse, late, written, out)
        = {f \in {"misfit", "late", "clobbered", "shared"} : Has(f)}
      BY DEF Faults
<1> HIDE DEF Has
<1> QED  BY <1>5, <1>6

LEMMA DeliverKeeps ==
    ASSUME IInv, NEW sources \in SUBSET Matrices, NEW layout, NEW m \in Matrices,
           NEW reuse \in BOOLEAN, NEW late, NEW old, NEW depth, NEW written,
           Deliver(sources, layout, m, reuse, late, old, depth, written),
           layout.rows \in Nat \ {0}, layout.cols \in Nat \ {0}, depth \in AllDepths,
           Sound(old), written = depth,
           old = Output(m, reuse) \/ old.buffer \notin Taken(sources, {m}, reuse),
           old = Output(m, reuse) /\ reuse /\ ~ Is_Empty(old) =>
               \A s \in sources : InPlace(header[s], old),
           late /\ reuse /\ m \in sources =>
               /\ old = header[m] /\ ~ Is_Empty(old)
               /\ old.rows = layout.rows /\ old.cols = layout.cols /\ old.depth = depth
    PROVE  IInv'
<1>1. PICK out \in create(old, layout.rows, layout.cols, depth, Taken(sources, {m}, reuse)) :
        /\ header' = [header EXCEPT ![m] = out]
        /\ faults' = faults \cup Faults(sources, m, reuse, late, written, out)
        /\ UNCHANGED dense
      BY DEF Deliver
<1>2. /\ Sound(out) /\ ~ Is_Empty(out) /\ out.depth = depth
      /\ out = old \/ out.buffer \notin Taken(sources, {m}, reuse)
      /\ ~ Is_Empty(old) /\ old.rows = layout.rows /\ old.cols = layout.cols /\ old.depth = depth
            => out = old
      BY <1>1, CreatedIs
<1>3. /\ out = Output(m, reuse) \/ out.buffer \notin Taken(sources, {m}, reuse)
      BY <1>2
<1>4. out = Output(m, reuse) => \A s \in sources : InPlace(header[s], out)
  <2> SUFFICES ASSUME out = Output(m, reuse) PROVE \A s \in sources : InPlace(header[s], out)
      OBVIOUS
  <2>1. reuse
        BY <1>2, OutputIs
  <2>2. CASE out = old
        BY <1>2, <2>1, <2>2
  <2>3. CASE out.buffer \notin Taken(sources, {m}, reuse)
        BY <2>3, TakenCovers
  <2> QED  BY <1>2, <2>2, <2>3
<1>5. late /\ reuse /\ m \in sources => out = header[m]
      BY <1>2
<1>6. Faults(sources, m, reuse, late, written, out) = {}
      BY <1>2, <1>3, <1>4, <1>5, NoFaults
<1>7. faults' = {}
      BY <1>1, <1>6 DEF IInv
<1> QED  BY <1>1, <1>2, <1>7, HeaderChanges

LEMMA DeliverEmptyKeeps ==
    ASSUME IInv, NEW source \in Matrices, NEW m \in Matrices, NEW reuse \in BOOLEAN,
           NEW depth \in AllDepths, DeliverEmpty(header[source], m, reuse, depth)
    PROVE  IInv'
<1>1. PICK d \in {Output(m, reuse).depth, header[source].depth, depth} :
        header' = [header EXCEPT ![m] = Empty(d)] /\ UNCHANGED <<dense, faults>>
      BY DEF DeliverEmpty
<1>2. d \in AllDepths
      BY <1>1, OutputIs, SoundHeaders
<1>3. Sound(Empty(d))
      BY <1>2, EmptyIsSound
<1> QED  BY <1>1, <1>3, HeaderChanges DEF IInv

\* What the guides ask for is enough to work in place.
LEMMA SupportedIsInPlace ==
    ASSUME IInv, NEW sources \in SUBSET Matrices, NEW m \in Matrices,
           Supported(sources, m, TRUE), ~ Is_Empty(header[m])
    PROVE  \A s \in sources : InPlace(header[s], header[m])
<1> TAKE s \in sources
<1>1. CASE header[s] = header[m]
      BY <1>1, SoundHeaders, SameIsInPlace
<1>2. CASE Apart(header[s], header[m])
      BY <1>2, ApartIsInPlace
<1> QED  BY <1>1, <1>2 DEF Supported

\* An operation on supported operands that passes its destination as it is.
LEMMA PlainKeeps ==
    ASSUME IInv, NEW sources \in SUBSET Matrices, NEW source \in Matrices, NEW m \in Matrices,
           NEW reuse \in BOOLEAN, NEW depth \in AllDepths,
           Supported(sources, m, reuse),
           IF Is_Empty(header[source]) THEN DeliverEmpty(header[source], m, reuse, depth)
           ELSE Deliver(sources, header[source], m, reuse, FALSE, Output(m, reuse), depth, depth)
    PROVE  IInv'
<1>1. CASE Is_Empty(header[source])
      BY <1>1, DeliverEmptyKeeps
<1>2. CASE ~ Is_Empty(header[source])
  <2>1. header[source].rows \in Nat \ {0} /\ header[source].cols \in Nat \ {0}
        BY <1>2, SoundHeaders
  <2>2. Sound(Output(m, reuse)) /\ (reuse => Output(m, reuse) = header[m])
        BY OutputIs
  <2>3. reuse /\ ~ Is_Empty(Output(m, reuse)) =>
           \A s \in sources : InPlace(header[s], Output(m, reuse))
        BY <2>2, SupportedIsInPlace
  <2>4. Deliver(sources, header[source], m, reuse, FALSE, Output(m, reuse), depth, depth)
        BY <1>2
  <2> QED  BY <2>1, <2>2, <2>3, <2>4, DeliverKeeps
<1> QED  BY <1>1, <1>2

-----------------------------------------------------------------------------
(***************************************************************************)
(* Creation, assignment and regions.                                       *)
(***************************************************************************)
LEMMA CreateKeeps ==
    ASSUME IInv, NEW m \in Matrices, NEW rows \in 1 .. MaxRows, NEW cols \in 1 .. MaxColumns,
           NEW depth \in Depths, Create(m, rows, cols, depth)
    PROVE  IInv'
<1>1. PICK b \in Buffers \ Held(Matrices) :
        header' = [header EXCEPT ![m] = Fresh(b, rows, cols, depth)]
      BY DEF Create
<1>2. rows \in Nat \ {0} /\ cols \in Nat \ {0} /\ depth \in AllDepths
      BY DestinationsAssumption
<1>3. Sound(Fresh(b, rows, cols, depth))
      BY <1>1, <1>2, FreshIsSound
<1> QED  BY <1>1, <1>3, HeaderChanges DEF IInv, Create

LEMMA InitializeKeeps ==
    ASSUME IInv, NEW m \in Matrices, Initialize(m)
    PROVE  IInv'
<1>1. "UInt8" \in AllDepths
      BY DEF AllDepths
<1>2. Sound(Empty("UInt8"))
      BY <1>1, EmptyIsSound
<1> QED  BY <1>2, HeaderChanges DEF IInv, Initialize

LEMMA AdjustKeeps ==
    ASSUME IInv, NEW m \in Matrices, NEW n \in Matrices, Adjust(m, n)
    PROVE  IInv'
BY SoundHeaders, HeaderChanges DEF IInv, Adjust

LEMMA RegionKeeps ==
    ASSUME IInv, NEW m \in Matrices, NEW n \in Matrices,
           NEW top \in 0 .. header[n].rows - 1, NEW left \in 0 .. header[n].cols - 1,
           NEW rows \in 1 .. header[n].rows, NEW cols \in 1 .. header[n].cols,
           Region(m, n, top, left, rows, cols)
    PROVE  IInv'
<1> DEFINE h == header[n]
<1>1. Sound(h)
      BY SoundHeaders
<1>2. ~ Is_Empty(h)
  <2>1. Is_Empty(h) => h.rows = 0
        BY SoundHeaders
  <2> QED  BY <2>1
<1>3. top + rows <= h.rows /\ left + cols <= h.cols
      BY DEF Region
<1>4. Sound(Header(h.buffer, At(h, <<top, left>>), rows, cols, h.step, h.end, h.depth))
      BY <1>1, <1>2, <1>3, RegionIsSound
<1> QED  BY <1>4, HeaderChanges DEF IInv, Region

-----------------------------------------------------------------------------
(***************************************************************************)
(* Operations on supported operands.                                       *)
(***************************************************************************)
\* An output that was established, where it would have chosen the kernel, has
\* the depth of the source; and no other output chooses one.
LEMMA EstablishedIs ==
    ASSUME NEW operation, NEW source, source.rows \in Nat \ {0}, source.cols \in Nat \ {0},
           source.depth \in AllDepths, NEW out, Sound(out), NEW taken,
           NEW old \in established(operation, source, out, taken)
    PROVE  /\ Sound(old) /\ (old = out \/ old.buffer \notin taken)
           /\ kernel(operation, source.depth, old.depth, Unspecified) = source.depth
<1> DEFINE Chooses(d) ==
        \/ operation = "Subtract" /\ source.depth \in {"UInt8", "Int8"} /\ d = "Float32"
        \/ operation = "Multiply" /\ source.depth = "UInt8" /\ d = "UInt16"
        \/ operation = "Multiply" /\ source.depth = "Int8" /\ d = "Int16"
<1>1. ~ Chooses(old.depth)
           => kernel(operation, source.depth, old.depth, Unspecified) = source.depth
  <2>1. HAVE ~ Chooses(old.depth)
  <2>2. ~ (operation = "Subtract" /\ source.depth \in {"UInt8", "Int8"} /\ old.depth = "Float32")
        BY <2>1
  <2>3. ~ (operation = "Multiply" /\ source.depth = "UInt8" /\ old.depth = "UInt16")
        BY <2>1
  <2>4. ~ (operation = "Multiply" /\ source.depth = "Int8" /\ old.depth = "Int16")
        BY <2>1
  <2> HIDE DEF Chooses
  <2> QED  BY <2>2, <2>3, <2>4 DEF kernel, Unspecified
<1>2. ~ Chooses(source.depth)
  <2>1. CASE source.depth \in {"UInt8", "Int8"}
        BY <2>1
  <2>2. CASE source.depth \notin {"UInt8", "Int8"}
        BY <2>2
  <2> QED  BY <2>1, <2>2
<1>3. CASE Chooses(out.depth)
  <2>1. old \in create(out, source.rows, source.cols, source.depth, taken)
        BY <1>3 DEF established
  <2>2. /\ Sound(old) /\ old.depth = source.depth
        /\ old = out \/ old.buffer \in Buffers \ taken
        BY <2>1, CreatedIs
  <2> HIDE DEF Chooses
  <2> QED  BY <1>1, <1>2, <2>2
<1>4. CASE ~ Chooses(out.depth)
  <2>1. old = out
        BY <1>4 DEF established
  <2> HIDE DEF Chooses
  <2> QED  BY <1>1, <1>4, <2>1
<1> QED  BY <1>3, <1>4

\* An operation that establishes its destination first, where the kernel would
\* depend on what that held.
LEMMA EstablishedKeeps ==
    ASSUME IInv, NEW operation, NEW sources \in SUBSET Matrices, NEW source \in Matrices,
           NEW m \in Matrices, NEW reuse \in BOOLEAN, Supported(sources, m, reuse),
           ~ Is_Empty(header[source]),
           NEW old \in established(operation, header[source], Output(m, reuse),
                                   Taken(sources, {m}, reuse)),
           Deliver(sources, header[source], m, reuse, FALSE, old, header[source].depth,
                   kernel(operation, header[source].depth, old.depth, Unspecified))
    PROVE  IInv'
<1> DEFINE h == header[source]
           written == kernel(operation, h.depth, old.depth, Unspecified)
<1>1. h.rows \in Nat \ {0} /\ h.cols \in Nat \ {0} /\ h.depth \in AllDepths
      BY SoundHeaders
<1>2. Sound(Output(m, reuse)) /\ (reuse => Output(m, reuse) = header[m])
      BY OutputIs
<1>3. /\ Sound(old) /\ (old = Output(m, reuse) \/ old.buffer \notin Taken(sources, {m}, reuse))
      /\ written = h.depth
      BY <1>1, <1>2, EstablishedIs
<1>4. old = Output(m, reuse) /\ reuse /\ ~ Is_Empty(old) =>
         \A s \in sources : InPlace(header[s], old)
      BY <1>2, SupportedIsInPlace
<1>5. Deliver(sources, h, m, reuse, FALSE, old, h.depth, written)
      OBVIOUS
<1> HIDE DEF written, h
<1> QED  BY <1>1, <1>3, <1>4, <1>5, DeliverKeeps

LEMMA BinaryKeeps ==
    ASSUME IInv, NEW operation, NEW left \in Matrices, NEW right \in Matrices,
           NEW m \in Matrices, NEW reuse \in BOOLEAN, Binary(operation, left, right, m, reuse)
    PROVE  IInv'
<1>1. Supported({left, right}, m, reuse)
      BY DEF Binary
<1>2. CASE Is_Empty(header[left])
      BY <1>2, SoundHeaders, DeliverEmptyKeeps DEF Binary
<1>3. CASE ~ Is_Empty(header[left])
  <2>1. PICK old \in established(operation, header[left], Output(m, reuse),
                                 Taken({left, right}, {m}, reuse)) :
          Deliver({left, right}, header[left], m, reuse, FALSE, old, header[left].depth,
                  kernel(operation, header[left].depth, old.depth, Unspecified))
        BY <1>3 DEF Binary
  <2> QED  BY <1>1, <1>3, <2>1, EstablishedKeeps
<1> QED  BY <1>2, <1>3

LEMMA PowKeeps ==
    ASSUME IInv, NEW source \in Matrices, NEW squares \in BOOLEAN,
           NEW m \in Matrices, NEW reuse \in BOOLEAN, Pow(source, squares, m, reuse)
    PROVE  IInv'
<1> DEFINE operation == IF squares THEN "Multiply" ELSE "Pow"
<1>1. Supported({source}, m, reuse)
      BY DEF Pow
<1>2. CASE Is_Empty(header[source])
      BY <1>2, SoundHeaders, DeliverEmptyKeeps DEF Pow
<1>3. CASE ~ Is_Empty(header[source])
  <2>1. PICK old \in established(operation, header[source], Output(m, reuse),
                                 Taken({source}, {m}, reuse)) :
          Deliver({source}, header[source], m, reuse, FALSE, old, header[source].depth,
                  kernel(operation, header[source].depth, old.depth, Unspecified))
        BY <1>3 DEF Pow
  <2> HIDE DEF operation
  <2> QED  BY <1>1, <1>3, <2>1, EstablishedKeeps
<1> QED  BY <1>2, <1>3

\* A destination apart from the mask keeps it whole, too.
LEMMA Bitwise_MaskedKeeps ==
    ASSUME IInv, NEW left \in Matrices, NEW right \in Matrices, NEW mask \in Matrices,
           NEW m \in Matrices, NEW reuse \in BOOLEAN,
           Bitwise_Masked(left, right, mask, m, reuse)
    PROVE  IInv'
<1>1. Supported({left, right, mask}, m, reuse)
      BY DEF Bitwise_Masked, Supported
<1>2. header[left].depth \in AllDepths
      BY SoundHeaders
<1>3. IF Is_Empty(header[left])
      THEN DeliverEmpty(header[left], m, reuse, header[left].depth)
      ELSE Deliver({left, right, mask}, header[left], m, reuse, FALSE, Output(m, reuse),
                   header[left].depth, header[left].depth)
      BY DEF Bitwise_Masked
<1> QED  BY <1>1, <1>2, <1>3, PlainKeeps

LEMMA Unary_MathKeeps ==
    ASSUME IInv, NEW x \in Matrices, NEW m \in Matrices, NEW reuse \in BOOLEAN,
           Unary_Math(x, m, reuse)
    PROVE  IInv'
<1>1. header[x].depth \in AllDepths
      BY SoundHeaders
<1> QED  BY <1>1, PlainKeeps DEF Unary_Math

LEMMA Float_MathKeeps ==
    ASSUME IInv, NEW x \in Matrices, NEW y \in Matrices, NEW m \in Matrices,
           NEW reuse \in BOOLEAN, Float_Math(x, y, m, reuse)
    PROVE  IInv'
<1>1. header[x].depth \in AllDepths
      BY SoundHeaders
<1> QED  BY <1>1, PlainKeeps DEF Float_Math

LEMMA Convert_ToKeeps ==
    ASSUME IInv, NEW source \in Matrices, NEW depth \in Depths, NEW m \in Matrices,
           NEW reuse \in BOOLEAN, Convert_To(source, depth, m, reuse)
    PROVE  IInv'
<1>1. depth \in AllDepths
      BY DestinationsAssumption
<1> QED  BY <1>1, PlainKeeps DEF Convert_To

LEMMA NormalizeKeeps ==
    ASSUME IInv, NEW source \in Matrices, NEW m \in Matrices, NEW reuse \in BOOLEAN,
           Normalize(source, m, reuse)
    PROVE  IInv'
<1>1. header[source].depth \in AllDepths
      BY SoundHeaders
<1> QED  BY <1>1, PlainKeeps DEF Normalize

-----------------------------------------------------------------------------
(***************************************************************************)
(* Masks as results.                                                       *)
(***************************************************************************)
LEMMA CompareKeeps ==
    ASSUME IInv, NEW left \in Matrices, NEW right \in Matrices, NEW m \in Matrices,
           NEW reuse \in BOOLEAN, Compare(left, right, m, reuse)
    PROVE  IInv'
<1>1. /\ SameOperand(header[left], header[right]) /\ Supported({left, right}, m, reuse)
      /\ dense = "UMat" /\ reuse => (m \in {left, right} => header[m].depth = "UInt8")
      BY DEF Compare, Validate_Arithmetic_Compatibility, mask_compare_alias_preflight
<1>2. "UInt8" \in AllDepths
      BY DEF AllDepths
<1>3. CASE Is_Empty(header[left])
      BY <1>2, <1>3, DeliverEmptyKeeps DEF Compare
<1>4. CASE ~ Is_Empty(header[left])
  <2>1. PICK late \in Late :
          Deliver({left, right}, header[left], m, reuse, late, Output(m, reuse), "UInt8", "UInt8")
        BY <1>4 DEF Compare
  <2>2. late => dense = "UMat"
        BY DEF Late
  <2>3. header[left].rows \in Nat \ {0} /\ header[left].cols \in Nat \ {0}
        BY <1>4, SoundHeaders
  <2>4. Sound(Output(m, reuse)) /\ (reuse => Output(m, reuse) = header[m])
        BY OutputIs
  <2>5. reuse /\ ~ Is_Empty(Output(m, reuse)) =>
           \A s \in {left, right} : InPlace(header[s], Output(m, reuse))
        BY <1>1, <2>4, SupportedIsInPlace
  <2>6. late /\ reuse /\ m \in {left, right} =>
           /\ Output(m, reuse) = header[m] /\ ~ Is_Empty(Output(m, reuse))
           /\ Output(m, reuse).rows = header[left].rows
           /\ Output(m, reuse).cols = header[left].cols
           /\ Output(m, reuse).depth = "UInt8"
    <3> SUFFICES ASSUME late, reuse, m \in {left, right}
                 PROVE  /\ ~ Is_Empty(header[m]) /\ header[m].rows = header[left].rows
                        /\ header[m].cols = header[left].cols /\ header[m].depth = "UInt8"
        BY <2>4
    <3>1. header[m].depth = "UInt8"
          BY <1>1, <2>2
    <3>2. header[m].rows = header[left].rows /\ header[m].cols = header[left].cols
          BY <1>1 DEF SameOperand, SameShape
    <3>3. ~ Is_Empty(header[m])
          BY <2>3, <3>2, SoundHeaders
    <3> QED  BY <3>1, <3>2, <3>3
  <2> QED  BY <1>2, <2>1, <2>3, <2>4, <2>5, <2>6, DeliverKeeps
<1> QED  BY <1>3, <1>4

LEMMA In_RangeKeeps ==
    ASSUME IInv, NEW source \in Matrices, NEW m \in Matrices, NEW reuse \in BOOLEAN,
           In_Range(source, m, reuse)
    PROVE  IInv'
<1>1. /\ ~ Is_Empty(header[source])
      /\ reuse => Apart(header[source], header[m])
      /\ dense = "UMat" /\ reuse => source /= m
      BY DEF In_Range, mask_range_alias_preflight
<1>2. "UInt8" \in AllDepths
      BY DEF AllDepths
<1>3. PICK late \in Late :
        Deliver({source}, header[source], m, reuse, late, Output(m, reuse), "UInt8", "UInt8")
      BY DEF In_Range
<1>4. ~ (late /\ reuse /\ m \in {source})
      BY <1>1 DEF Late
<1>5. header[source].rows \in Nat \ {0} /\ header[source].cols \in Nat \ {0}
      BY <1>1, SoundHeaders
<1>6. Sound(Output(m, reuse)) /\ (reuse => Output(m, reuse) = header[m])
      BY OutputIs
<1>7. reuse => \A s \in {source} : InPlace(header[s], Output(m, reuse))
      BY <1>1, <1>6, ApartIsInPlace
<1> QED  BY <1>2, <1>3, <1>4, <1>5, <1>6, <1>7, DeliverKeeps

-----------------------------------------------------------------------------
(***************************************************************************)
(* A matrix and a scalar: what Validate_Scalar_Destination lets through is *)
(* written in place, wherever it is.                                       *)
(***************************************************************************)
LEMMA AcceptedIsInPlace ==
    ASSUME IInv, NEW source \in Matrices, NEW m \in Matrices, NEW comparison \in BOOLEAN,
           ~ Is_Empty(header[source]), ~ Is_Empty(header[m]),
           Validate_Scalar_Destination(source, m, comparison)
    PROVE  InPlace(header[source], header[m])
<1> DEFINE a == header[source]
           b == header[m]
           Same == a.buffer = b.buffer /\ a.first = b.first /\ SameOperand(a, b)
                      /\ a.step = b.step
           Meets == a.buffer = b.buffer /\ a.first < b.end /\ b.first < a.end
<1>1. scalar_storage_relation(a, b) # 2
      BY DEF Validate_Scalar_Destination
<1>2. Same \/ ~ Meets
      BY <1>1 DEF scalar_storage_relation
<1>3. Sound(a) /\ Sound(b)
      BY SoundHeaders
<1>4. CASE Same
      BY <1>3, <1>4, SameIsInPlace DEF SameOperand, SameShape
<1>5. CASE ~ Meets
  <2>1. CASE a.buffer # b.buffer
        BY <2>1, OtherBuffersApart
  <2>2. CASE ~ (a.first < b.end /\ b.first < a.end)
        BY <1>3, <2>2, OutsideIsApart, ApartIsInPlace
  <2> QED  BY <1>5, <2>1, <2>2
<1> QED  BY <1>2, <1>4, <1>5

LEMMA ScalarKeeps ==
    ASSUME IInv, NEW source \in Matrices, NEW m \in Matrices, NEW reuse \in BOOLEAN,
           NEW comparison \in BOOLEAN, NEW depth \in AllDepths, Validate_Scalar_Source(source),
           reuse => Validate_Scalar_Destination(source, m, comparison),
           Deliver({source}, header[source], m, reuse, FALSE, Output(m, reuse), depth, depth)
    PROVE  IInv'
<1>1. ~ Is_Empty(header[source])
      BY DEF Validate_Scalar_Source
<1>2. header[source].rows \in Nat \ {0} /\ header[source].cols \in Nat \ {0}
      BY <1>1, SoundHeaders
<1>3. Sound(Output(m, reuse)) /\ (reuse => Output(m, reuse) = header[m])
      BY OutputIs
<1>4. reuse /\ ~ Is_Empty(Output(m, reuse)) =>
         \A s \in {source} : InPlace(header[s], Output(m, reuse))
      BY <1>1, <1>3, AcceptedIsInPlace
<1> QED  BY <1>2, <1>3, <1>4, DeliverKeeps

LEMMA Scalar_ArithmeticKeeps ==
    ASSUME IInv, NEW operation, NEW source \in Matrices, NEW m \in Matrices,
           NEW reuse \in BOOLEAN, Scalar_Arithmetic(operation, source, m, reuse)
    PROVE  IInv'
<1> DEFINE h == header[source]
           written == scalar_dispatch(operation, h, Output(m, reuse))
<1>1. h.depth \in AllDepths
      BY SoundHeaders
<1>2. h.depth # Unspecified
      BY <1>1 DEF AllDepths, Unspecified
<1>3. written = h.depth
      BY <1>2 DEF scalar_dispatch, kernel
<1>4. /\ Validate_Scalar_Source(source)
      /\ reuse => Validate_Scalar_Destination(source, m, FALSE)
      /\ Deliver({source}, h, m, reuse, FALSE, Output(m, reuse), h.depth, written)
      BY DEF Scalar_Arithmetic
<1>5. Deliver({source}, h, m, reuse, FALSE, Output(m, reuse), h.depth, h.depth)
      BY <1>3, <1>4
<1> QED  BY <1>1, <1>4, <1>5, ScalarKeeps

LEMMA Compare_ScalarKeeps ==
    ASSUME IInv, NEW source \in Matrices, NEW m \in Matrices, NEW reuse \in BOOLEAN,
           Compare_Scalar(source, m, reuse)
    PROVE  IInv'
<1>1. "UInt8" \in AllDepths
      BY DEF AllDepths
<1> QED  BY <1>1, ScalarKeeps DEF Compare_Scalar

-----------------------------------------------------------------------------
(***************************************************************************)
(* Two outputs.                                                            *)
(***************************************************************************)
LEMMA HeadersChange ==
    ASSUME IInv, NEW m \in Matrices, NEW n \in Matrices, NEW g, NEW h, Sound(g), Sound(h),
           header' = [header EXCEPT ![m] = g, ![n] = h], dense' = dense, faults' = {}
    PROVE  IInv'
<1>1. g \in HeaderType /\ h \in HeaderType
      BY DEF Sound
<1>2. header' \in [Matrices -> HeaderType]
      BY <1>1 DEF IInv
<1>3. \A k \in Matrices : header'[k] = g \/ header'[k] = h \/ header'[k] = header[k]
      BY DEF IInv
<1>4. \A k \in Matrices : Sound(header'[k])
      BY <1>3 DEF IInv
<1>5. \A k \in Matrices : Sound(header[k])'
      BY <1>4 DEF Sound, WellFormed, HeaderType, Is_Empty, Empty, Header
<1> QED  BY <1>2, <1>5 DEF IInv, HeaderType

\* Neither output meets the other or a source, whichever of them detach.
LEMMA NoPolarFaults ==
    ASSUME IInv, NEW sources \in SUBSET Matrices, NEW first \in Matrices, NEW second \in Matrices,
           first # second, NEW reuse \in BOOLEAN,
           reuse => /\ Unshared(sources, {first, second})
                    /\ Validate_Polar_Destinations(sources, first, second),
           NEW out1, ~ Is_Empty(out1),
           out1 = Output(first, reuse) \/ out1.buffer \notin Taken(sources, {first}, reuse),
           NEW out2, ~ Is_Empty(out2),
           \/ out2 = Output(second, reuse)
           \/ out2.buffer \notin Taken(sources, {first, second}, reuse) \cup {out1.buffer}
    PROVE  PolarFaults(sources, first, second, reuse, out1, out2) = {}
<1> DEFINE kept1 == out1 = Output(first, reuse)
           kept2 == out2 = Output(second, reuse)
<1>1. kept1 => reuse /\ out1 = header[first]
      BY OutputIs
<1>2. kept2 => reuse /\ out2 = header[second]
      BY OutputIs
<1>3. ~ kept1 => /\ out1.buffer \notin Held(Matrices \ {first})
                 /\ \A s \in sources : out1.buffer # header[s].buffer
      BY DEF Taken, Held
<1>4. ~ kept2 => /\ out2.buffer \notin Held(Matrices \ {first, second}) \cup {out1.buffer}
                 /\ \A s \in sources : out2.buffer # header[s].buffer
      BY DEF Taken, Held
<1>5. reuse => /\ first \notin sources /\ second \notin sources
               /\ \A s \in sources : Apart(header[s], header[first]) /\ Apart(header[s], header[second])
               /\ Apart(header[first], header[second])
      BY DEF Unshared, Validate_Polar_Destinations
<1>6. Apart(out1, out2)
  <2>1. CASE kept1 /\ kept2
        BY <1>1, <1>2, <1>5, <2>1
  <2>2. CASE ~ kept1 /\ kept2
    <3>1. out2.buffer \in Held(Matrices \ {first})
          BY <1>2, <2>2 DEF Held
    <3>2. out1.buffer # out2.buffer
          BY <1>3, <2>2, <3>1
    <3> QED  BY <3>2, OtherBuffersApart
  <2>3. CASE ~ kept2
    <3>1. out1.buffer # out2.buffer
          BY <1>4, <2>3
    <3> QED  BY <3>1, OtherBuffersApart
  <2> QED  BY <2>1, <2>2, <2>3
<1>7. \A s \in sources : Apart(header[s], out1)
  <2>1. CASE kept1
        BY <1>1, <1>5, <2>1
  <2>2. CASE ~ kept1
        BY <1>3, <2>2, OtherBuffersApart
  <2> QED  BY <2>1, <2>2
<1>8. \A s \in sources : InPlace(header[s], out2)
  <2>1. CASE kept2
        BY <1>2, <1>5, <2>1, ApartIsInPlace
  <2>2. CASE ~ kept2
        BY <1>4, <2>2, OtherBuffersApart
  <2> QED  BY <2>1, <2>2
<1>9. /\ ~ (out1 /= Output(first, reuse) /\ out1.buffer \in Held(Matrices \ {first}))
      /\ ~ (out2 /= Output(second, reuse)
            /\ out2.buffer \in Held(Matrices \ {first, second}) \cup {out1.buffer})
      BY <1>3, <1>4
<1> DEFINE Has(f) == CASE f = "clobbered" ->
                \/ ~ Apart(out1, out2)
                \/ \E s \in sources : ~ Apart(header[s], out1) \/ ~ InPlace(header[s], out2)
          [] f = "shared" ->
                \/ out1 /= Output(first, reuse) /\ out1.buffer \in Held(Matrices \ {first})
                \/ /\ out2 /= Output(second, reuse)
                   /\ out2.buffer \in Held(Matrices \ {first, second}) \cup {out1.buffer}
<1>10. Has("clobbered") = FALSE
      BY <1>6, <1>7, <1>8
<1>11. Has("shared") = FALSE
      BY <1>9
<1>12. PolarFaults(sources, first, second, reuse, out1, out2)
        = {f \in {"clobbered", "shared"} : Has(f)}
      BY DEF PolarFaults
<1> HIDE DEF Has
<1> QED  BY <1>10, <1>11, <1>12

LEMMA PolarKeeps ==
    ASSUME IInv, NEW sources \in SUBSET Matrices, NEW source \in Matrices,
           NEW first \in Matrices, NEW second \in Matrices, NEW reuse \in BOOLEAN,
           Polar(sources, header[source], first, second, reuse)
    PROVE  IInv'
<1> DEFINE layout == header[source]
           Taken1 == Taken(sources, {first}, reuse)
           Taken2 == Taken(sources, {first, second}, reuse)
<1>1. /\ first # second
      /\ reuse => /\ Unshared(sources, {first, second})
                  /\ Validate_Polar_Destinations(sources, first, second)
      BY DEF Polar, Validate_Polar_Destinations
<1>2. /\ Sound(Output(first, reuse)) /\ Output(first, reuse).depth \in AllDepths
      /\ Sound(Output(second, reuse)) /\ Output(second, reuse).depth \in AllDepths
      BY OutputIs
<1>3. CASE Is_Empty(layout)
  <2>1. PICK d1 \in {Output(first, reuse).depth, layout.depth},
             d2 \in {Output(second, reuse).depth, layout.depth} :
          /\ header' = [header EXCEPT ![first] = Empty(d1), ![second] = Empty(d2)]
          /\ UNCHANGED <<dense, faults>>
        BY <1>3 DEF Polar
  <2>2. d1 \in AllDepths /\ d2 \in AllDepths
        BY <1>2, SoundHeaders
  <2>3. Sound(Empty(d1)) /\ Sound(Empty(d2))
        BY <2>2, EmptyIsSound
  <2> QED  BY <2>1, <2>3, HeadersChange DEF IInv
<1>4. CASE ~ Is_Empty(layout)
  <2>1. PICK out1 \in create(Output(first, reuse), layout.rows, layout.cols, layout.depth, Taken1) :
          \E out2 \in create(Output(second, reuse), layout.rows, layout.cols, layout.depth,
                             Taken2 \cup {out1.buffer}) :
             /\ header' = [header EXCEPT ![first] = out1, ![second] = out2]
             /\ faults' = faults \cup PolarFaults(sources, first, second, reuse, out1, out2)
             /\ UNCHANGED dense
        BY <1>4 DEF Polar
  <2>2. PICK out2 \in create(Output(second, reuse), layout.rows, layout.cols, layout.depth,
                             Taken2 \cup {out1.buffer}) :
             /\ header' = [header EXCEPT ![first] = out1, ![second] = out2]
             /\ faults' = faults \cup PolarFaults(sources, first, second, reuse, out1, out2)
             /\ UNCHANGED dense
        BY <2>1
  <2>3. layout.rows \in Nat \ {0} /\ layout.cols \in Nat \ {0} /\ layout.depth \in AllDepths
        BY <1>4, SoundHeaders
  <2>4. /\ Sound(out1) /\ ~ Is_Empty(out1)
        /\ out1 = Output(first, reuse) \/ out1.buffer \notin Taken1
        BY <1>2, <2>1, <2>3, CreatedIs
  <2>5. /\ Sound(out2) /\ ~ Is_Empty(out2)
        /\ out2 = Output(second, reuse) \/ out2.buffer \notin Taken2 \cup {out1.buffer}
    <3> DEFINE taken == Taken2 \cup {out1.buffer}
    <3>1. /\ out2 \in create(Output(second, reuse), layout.rows, layout.cols, layout.depth, taken)
          /\ Sound(Output(second, reuse))
          BY <1>2, <2>2
    <3> HIDE DEF taken, layout
    <3>2. /\ Sound(out2) /\ ~ Is_Empty(out2)
          /\ out2 = Output(second, reuse) \/ out2.buffer \in Buffers \ taken
          BY <2>3, <3>1, CreatedIs
    <3> QED  BY <3>2 DEF taken
  <2>6. PolarFaults(sources, first, second, reuse, out1, out2) = {}
        BY <1>1, <2>4, <2>5, NoPolarFaults
  <2>7. faults' = {}
        BY <2>2, <2>6 DEF IInv
  <2> QED  BY <2>2, <2>4, <2>5, <2>7, HeadersChange
<1> QED  BY <1>3, <1>4

LEMMA Cart_To_PolarKeeps ==
    ASSUME IInv, NEW x \in Matrices, NEW y \in Matrices, NEW magnitude \in Matrices,
           NEW angle \in Matrices, NEW reuse \in BOOLEAN,
           Cart_To_Polar(x, y, magnitude, angle, reuse)
    PROVE  IInv'
BY PolarKeeps DEF Cart_To_Polar

LEMMA Polar_To_CartKeeps ==
    ASSUME IInv, NEW magnitude \in Matrices, NEW angle \in Matrices, NEW x \in Matrices,
           NEW y \in Matrices, NEW reuse \in BOOLEAN,
           Polar_To_Cart(magnitude, angle, x, y, reuse)
    PROVE  IInv'
BY PolarKeeps DEF Polar_To_Cart

-----------------------------------------------------------------------------
(***************************************************************************)
(* The invariant, and what follows.                                        *)
(***************************************************************************)
LEMMA InitEstablishes == Init => IInv
<1> SUFFICES ASSUME Init PROVE IInv
    OBVIOUS
<1>1. "UInt8" \in AllDepths
      BY DEF AllDepths
<1>2. Sound(Empty("UInt8")) /\ Empty("UInt8") \in HeaderType
      BY <1>1, EmptyIsSound DEF Sound
<1> QED  BY <1>2 DEF Init, IInv

LEMMA WithOneSourceKeeps ==
    ASSUME IInv, NEW source \in Matrices, NEW m \in Matrices, NEW reuse \in BOOLEAN,
           WithOneSource(source, m, reuse)
    PROVE  IInv'
<1>1. CASE Unary_Math(source, m, reuse)
      BY <1>1, Unary_MathKeeps
<1>2. ASSUME NEW squares \in BOOLEAN, Pow(source, squares, m, reuse) PROVE IInv'
      BY <1>2, PowKeeps
<1>3. ASSUME NEW depth \in Depths, Convert_To(source, depth, m, reuse) PROVE IInv'
      BY <1>3, Convert_ToKeeps
<1>4. CASE Normalize(source, m, reuse)
      BY <1>4, NormalizeKeeps
<1>5. CASE In_Range(source, m, reuse)
      BY <1>5, In_RangeKeeps
<1>6. ASSUME NEW operation \in ScalarOperations, Scalar_Arithmetic(operation, source, m, reuse)
      PROVE  IInv'
      BY <1>6, Scalar_ArithmeticKeeps
<1>7. CASE Compare_Scalar(source, m, reuse)
      BY <1>7, Compare_ScalarKeeps
<1> QED  BY <1>1, <1>2, <1>3, <1>4, <1>5, <1>6, <1>7 DEF WithOneSource

LEMMA WithTwoSourcesKeeps ==
    ASSUME IInv, NEW left \in Matrices, NEW right \in Matrices, NEW m \in Matrices,
           NEW reuse \in BOOLEAN, WithTwoSources(left, right, m, reuse)
    PROVE  IInv'
<1>1. CASE Add(left, right, m, reuse)
      BY <1>1, BinaryKeeps DEF Add
<1>2. CASE Subtract(left, right, m, reuse)
      BY <1>2, BinaryKeeps DEF Subtract
<1>3. CASE Multiply(left, right, m, reuse)
      BY <1>3, BinaryKeeps DEF Multiply
<1>4. ASSUME NEW mask \in Matrices, Bitwise_Masked(left, right, mask, m, reuse) PROVE IInv'
      BY <1>4, Bitwise_MaskedKeeps
<1>5. CASE Float_Math(left, right, m, reuse)
      BY <1>5, Float_MathKeeps
<1>6. CASE Compare(left, right, m, reuse)
      BY <1>6, CompareKeeps
<1>7. ASSUME NEW n \in Matrices, Cart_To_Polar(left, right, m, n, reuse) PROVE IInv'
      BY <1>7, Cart_To_PolarKeeps
<1>8. ASSUME NEW n \in Matrices, Polar_To_Cart(left, right, m, n, reuse) PROVE IInv'
      BY <1>8, Polar_To_CartKeeps
<1> QED  BY <1>1, <1>2, <1>3, <1>4, <1>5, <1>6, <1>7, <1>8 DEF WithTwoSources

LEMMA NextKeeps == IInv /\ [Next]_vars => IInv'
<1> SUFFICES ASSUME IInv, [Next]_vars PROVE IInv'
    OBVIOUS
<1>1. CASE Bind
  <2>1. PICK m \in Matrices :
          \/ Initialize(m)
          \/ \E rows \in 1 .. MaxRows, cols \in 1 .. MaxColumns, depth \in Depths :
                Create(m, rows, cols, depth)
        BY <1>1 DEF Bind
  <2> QED  BY <2>1, InitializeKeeps, CreateKeeps
<1>2. CASE Share
  <2>1. PICK m \in Matrices, n \in Matrices :
          \/ Adjust(m, n)
          \/ \E top \in 0 .. header[n].rows - 1, left \in 0 .. header[n].cols - 1 :
             \E rows \in 1 .. header[n].rows, cols \in 1 .. header[n].cols :
                Region(m, n, top, left, rows, cols)
        BY <1>2 DEF Share
  <2> QED  BY <2>1, AdjustKeeps, RegionKeeps
<1>3. CASE Compute
  <2>1. PICK m \in Matrices, reuse \in BOOLEAN, left \in Matrices :
          \/ WithOneSource(left, m, reuse)
          \/ \E right \in Matrices : WithTwoSources(left, right, m, reuse)
        BY <1>3 DEF Compute
  <2> QED  BY <2>1, WithOneSourceKeeps, WithTwoSourcesKeeps
<1>4. CASE UNCHANGED vars
  <2>1. dense' = dense /\ header' = header /\ faults' = faults
        BY <1>4 DEF vars
  <2>2. \A m \in Matrices : Sound(header[m])'
        BY <2>1 DEF IInv, Sound, WellFormed, HeaderType, Is_Empty, Empty, Header
  <2> QED  BY <2>1, <2>2 DEF IInv, HeaderType
<1> QED  BY <1>1, <1>2, <1>3, <1>4 DEF Next

\* In every reachable state headers address elements inside of their storage,
\* and no native call has gone wrong.
THEOREM InvariantHolds == Spec => []IInv
BY InitEstablishes, NextKeeps, PTL DEF Spec

\* Types, and headers inside of their storage: creation, regions and what
\* OpenCV creates preserve it.
THEOREM Typed == Spec => []TypeOK
<1>1. IInv => TypeOK
  <2> SUFFICES ASSUME IInv, NEW m \in Matrices
               PROVE  /\ header[m] \in HeaderType
                      /\ IF Is_Empty(header[m])
                         THEN header[m] = Empty(header[m].depth)
                         ELSE WellFormed(header[m]) /\ header[m].rows > 0 /\ header[m].cols > 0
      BY DEF IInv, TypeOK, HeaderType
  <2> QED  BY DEF IInv, Sound
<1> QED  BY <1>1, InvariantHolds, PTL

\* Every kernel writes values of the depth of its output, whatever the
\* destination held: dense_add_or_subtract, dense_multiply, prepare_pow_output
\* and scalar_dispatch.
THEOREM KernelsFit == Spec => []KernelsFitTheirOutput
<1>1. IInv => KernelsFitTheirOutput
      BY DEF IInv, KernelsFitTheirOutput
<1> QED  BY <1>1, InvariantHolds, PTL

\* No source element is read after a byte of it was written for another one:
\* Validate_Scalar_Destination, Validate_Polar_Destinations and what the guides
\* ask of a client are enough.
THEOREM NothingReadLate == Spec => []NothingReadAfterItIsWritten
<1>1. IInv => NothingReadAfterItIsWritten
      BY DEF IInv, NothingReadAfterItIsWritten
<1> QED  BY <1>1, InvariantHolds, PTL

\* A source that is acquired after the output was created is the one passed:
\* mask_compare_alias_preflight and mask_range_alias_preflight.
THEOREM SourcesStay == Spec => []SourcesAreThosePassed
<1>1. IInv => SourcesAreThosePassed
      BY DEF IInv, SourcesAreThosePassed
<1> QED  BY <1>1, InvariantHolds, PTL

\* A result shares storage with no other object, be it returned or delivered
\* to a destination that detached.
THEOREM ResultsStayIndependent == Spec => []ResultsAreIndependent
<1>1. IInv => ResultsAreIndependent
      BY DEF IInv, ResultsAreIndependent
<1> QED  BY <1>1, InvariantHolds, PTL
=============================================================================
