--------------------------- MODULE NDViewsProofs ---------------------------
(***************************************************************************)
(* What the operations of NDViews preserve, for any number of dimensions,  *)
(* extents, strides and depths and any buffer in memory: a header is Sound *)
(* (its dimensions nest, its elements are aligned, and it ends where its   *)
(* storage does or before) and the shim refuses nothing that the Ada layer *)
(* lets through but what Agreed names (ViewNextHolds, at the end).         *)
(* ElementAccessProofs makes theorems of it.                               *)
(*                                                                         *)
(* Sums and products of sequences are folds over their positions.  That    *)
(* the fold is what one expects is shown by taking the positions of a set  *)
(* one by one, with the sets of positions as the induction's range.  From  *)
(* it follow the facts about layouts: the packed one ends first            *)
(* (PackedIsLeast), nested steps end inside the outermost dimension        *)
(* (EndInside), a selection ends inside what it was selected from          *)
(* (SelectionInside, SelectedEnd), and so does a reshape (PackedFits,      *)
(* RowsFit).  Each operation's lemma reads the bounds that its checks      *)
(* establish and cites these.                                              *)
(***************************************************************************)
EXTENDS NDViews, FiniteSetTheorems, SequenceTheorems, TLAPS

-----------------------------------------------------------------------------
(***************************************************************************)
(* Induction, and the folds that the sums and products are.                *)
(***************************************************************************)
\* A nonempty set of naturals has a least element.
LEMMA LeastNatural ==
    ASSUME NEW T \in SUBSET Nat, T # {}
    PROVE  \E least \in T : \A y \in T : least <= y
<1>1. IsWellFoundedOn(OpToRel(<, Nat), Nat)
      BY NatLessThanWellFounded
<1>2. PICK least \in T : \A y \in T : <<y, least>> \notin OpToRel(<, Nat)
      BY <1>1, WFMin
<1>3. \A y \in T : ~ (y < least)
      BY <1>2 DEF OpToRel
<1> QED  BY <1>3

\* A set that holds 0 and, with a number up to n, the next one, holds them all.
LEMMA Upward ==
    ASSUME NEW n \in Nat, NEW P \in SUBSET (0 .. n), 0 \in P,
           \A i \in 0 .. n : i \in P /\ i < n => i + 1 \in P
    PROVE  P = 0 .. n
<1> DEFINE T == {i \in 0 .. n : i \notin P}
<1> SUFFICES ASSUME T # {} PROVE FALSE
    OBVIOUS
<1>1. PICK least \in T : \A y \in T : least <= y
  <2>1. T \in SUBSET Nat
        OBVIOUS
  <2> HIDE DEF T
  <2> QED  BY <2>1, LeastNatural
<1>2. least # 0
      BY <1>1
<1>3. least - 1 \in 0 .. n /\ least - 1 < n /\ least \in 0 .. n /\ ~ (least <= least - 1)
      BY <1>1, <1>2
<1>4. least - 1 \in P
      BY <1>1, <1>3
<1>5. (least - 1) + 1 = least
      BY <1>3
<1> QED  BY <1>1, <1>3, <1>4, <1>5

\* The same from n + 1 down to 1.
LEMMA Downward ==
    ASSUME NEW n \in Nat, NEW P \in SUBSET (1 .. n + 1), n + 1 \in P,
           \A i \in 1 .. n : i + 1 \in P => i \in P
    PROVE  P = 1 .. n + 1
<1> DEFINE Q == {k \in 0 .. n : n + 1 - k \in P}
<1>1. 0 \in Q
      OBVIOUS
<1>2. \A k \in 0 .. n : k \in Q /\ k < n => k + 1 \in Q
  <2> SUFFICES ASSUME NEW k \in 0 .. n, k \in Q, k < n PROVE k + 1 \in Q
      OBVIOUS
  <2>1. n - k \in 1 .. n /\ (n - k) + 1 = n + 1 - k /\ n + 1 - (k + 1) = n - k /\ k + 1 \in 0 .. n
        OBVIOUS
  <2> QED  BY <2>1
<1>3. Q = 0 .. n
  <2>1. Q \in SUBSET (0 .. n)
        OBVIOUS
  <2> HIDE DEF Q
  <2> QED  BY <1>1, <1>2, <2>1, Upward
<1>4. ASSUME NEW i \in 1 .. n + 1 PROVE i \in P
  <2>1. n + 1 - i \in 0 .. n /\ n + 1 - (n + 1 - i) = i
        OBVIOUS
  <2>2. n + 1 - i \in Q
        BY <1>3, <2>1
  <2>3. n + 1 - (n + 1 - i) \in P
        BY <2>2
  <2> QED  BY <2>1, <2>3
<1> QED  BY <1>4

\* Two functions of the sets of positions are the same if each set has a
\* position without which they are the same only if they are the same with it.
LEMMA SameOnSets ==
    ASSUME NEW n \in Nat, NEW G, NEW H, G[{}] = H[{}],
           \A t \in SUBSET (1 .. n) : t # {} =>
               \E i \in t : G[t \ {i}] = H[t \ {i}] => G[t] = H[t]
    PROVE  G[1 .. n] = H[1 .. n]
<1> DEFINE P == {m \in 0 .. n : \A t \in SUBSET (1 .. n) : Cardinality(t) <= m => G[t] = H[t]}
<1>1. \A t \in SUBSET (1 .. n) : IsFiniteSet(t) /\ Cardinality(t) \in Nat /\ Cardinality(t) <= n
  <2> SUFFICES ASSUME NEW t \in SUBSET (1 .. n)
               PROVE  IsFiniteSet(t) /\ Cardinality(t) \in Nat /\ Cardinality(t) <= n
      OBVIOUS
  <2>1. IsFiniteSet(1 .. n) /\ Cardinality(1 .. n) = n
        BY FS_Interval
  <2>2. IsFiniteSet(t) /\ Cardinality(t) <= n
        BY <2>1, FS_Subset
  <2> QED  BY <2>2, FS_CardinalityType
<1>2. 0 \in P
  <2> SUFFICES ASSUME NEW t \in SUBSET (1 .. n), Cardinality(t) <= 0 PROVE G[t] = H[t]
      OBVIOUS
  <2>1. t = {}
        BY <1>1, FS_EmptySet
  <2> QED  BY <2>1
<1>3. \A m \in 0 .. n : m \in P /\ m < n => m + 1 \in P
  <2> SUFFICES ASSUME NEW m \in 0 .. n, m \in P, m < n,
                      NEW t \in SUBSET (1 .. n), Cardinality(t) <= m + 1
               PROVE  G[t] = H[t]
      OBVIOUS
  <2>1. CASE t = {}
        BY <2>1
  <2>2. CASE t # {}
    <3>1. PICK i \in t : G[t \ {i}] = H[t \ {i}] => G[t] = H[t]
          BY <2>2
    <3>2. Cardinality(t \ {i}) = Cardinality(t) - 1
          BY <1>1, FS_RemoveElement
    <3>3. Cardinality(t \ {i}) <= m /\ t \ {i} \in SUBSET (1 .. n)
          BY <1>1, <3>2
    <3> QED  BY <3>1, <3>3
  <2> QED  BY <2>1, <2>2
<1>4. P = 0 .. n
  <2>1. P \in SUBSET (0 .. n)
        OBVIOUS
  <2> HIDE DEF P
  <2> QED  BY <1>2, <1>3, <2>1, Upward
<1>5. n \in P /\ (1 .. n) \in SUBSET (1 .. n)
      BY <1>4
<1> QED  BY <1>1, <1>5

\* A function of the sets of positions of s that takes from any of them
\* whichever position it likes first.
SumsSets(n, s, G) ==
    /\ G \in [SUBSET (1 .. n) -> Nat] /\ G[{}] = 0
    /\ \A t \in SUBSET (1 .. n) : \A i \in t : G[t] = s[i] + G[t \ {i}]

LEMMA SumIsFold ==
    ASSUME NEW n \in Nat, NEW s \in [1 .. n -> Nat], NEW G, SumsSets(n, s, G)
    PROVE  Sum(s) = G[1 .. n]
<1> DEFINE Pick(t) == CHOOSE x \in t : TRUE
           Step(g) == [t \in SUBSET (1 .. n) |->
                         IF t = {} THEN 0 ELSE s[Pick(t)] + g[t \ {Pick(t)}]]
<1>1. Sum(s) = (CHOOSE g : g = Step(g))[1 .. n]
  <2>1. DOMAIN s = 1 .. n
        OBVIOUS
  <2> QED  BY <2>1 DEF Sum, FoldFunction, FoldFunctionOnSet, MapThenFoldSet
<1>2. \A t : t # {} => Pick(t) \in t
      OBVIOUS
<1> HIDE DEF Pick
<1>3. G = Step(G)
      BY <1>2 DEF SumsSets
<1> DEFINE iter == CHOOSE g : g = Step(g)
<1>4. iter = Step(iter)
      BY <1>3
<1> HIDE DEF iter
<1>5. iter[{}] = G[{}]
      BY <1>4 DEF SumsSets
<1>6. \A t \in SUBSET (1 .. n) : t # {} =>
          \E i \in t : iter[t \ {i}] = G[t \ {i}] => iter[t] = G[t]
  <2> SUFFICES ASSUME NEW t \in SUBSET (1 .. n), t # {},
                      iter[t \ {Pick(t)}] = G[t \ {Pick(t)}]
               PROVE  iter[t] = G[t]
      BY <1>2
  <2>1. Pick(t) \in t /\ iter[t] = s[Pick(t)] + iter[t \ {Pick(t)}]
        BY <1>2, <1>4
  <2> QED  BY <2>1 DEF SumsSets
<1>7. iter[1 .. n] = G[1 .. n]
      BY <1>5, <1>6, SameOnSets
<1> QED  BY <1>1, <1>7 DEF iter

LEMMA SumsSetsExist ==
    ASSUME NEW n \in Nat, NEW s \in [1 .. n -> Nat]
    PROVE  \E G : SumsSets(n, s, G)
<1> DEFINE P == {m \in 0 .. n : \E G : SumsSets(m, s, G)}
<1>1. 0 \in P
  <2> DEFINE G == [t \in SUBSET (1 .. 0) |-> 0]
  <2>1. SumsSets(0, s, G)
        BY DEF SumsSets
  <2> QED  BY <2>1
<1>2. \A m \in 0 .. n : m \in P /\ m < n => m + 1 \in P
  <2> SUFFICES ASSUME NEW m \in 0 .. n, m < n, NEW G, SumsSets(m, s, G)
               PROVE  \E H : SumsSets(m + 1, s, H)
      OBVIOUS
  <2> DEFINE last == m + 1
             H == [t \in SUBSET (1 .. last) |->
                     IF last \in t THEN s[last] + G[t \ {last}] ELSE G[t]]
  <2>1. /\ last \in 1 .. n /\ s[last] \in Nat /\ last \notin 1 .. m
        /\ \A t \in SUBSET (1 .. last) : t \ {last} \in SUBSET (1 .. m)
        /\ \A t \in SUBSET (1 .. last) : last \notin t => t \in SUBSET (1 .. m)
        OBVIOUS
  <2> HIDE DEF last
  <2>2. H \in [SUBSET (1 .. last) -> Nat] /\ H[{}] = 0
        BY <2>1 DEF SumsSets
  <2>3. ASSUME NEW t \in SUBSET (1 .. last), NEW i \in t PROVE H[t] = s[i] + H[t \ {i}]
    <3>1. CASE i = last
          BY <2>1, <3>1
    <3>2. CASE i # last /\ last \notin t
      <4>1. t \in SUBSET (1 .. m) /\ H[t] = G[t] /\ H[t \ {i}] = G[t \ {i}]
            BY <2>1, <3>2
      <4> QED  BY <4>1 DEF SumsSets
    <3>3. CASE i # last /\ last \in t
      <4> DEFINE u == t \ {last}
      <4>1. u \in SUBSET (1 .. m) /\ i \in u /\ u \ {i} \in SUBSET (1 .. m)
            BY <2>1, <3>3
      <4>2. (t \ {i}) \ {last} = u \ {i} /\ t \ {i} \in SUBSET (1 .. last) /\ last \in t \ {i}
            BY <3>3
      <4>3. H[t] = s[last] + G[u] /\ H[t \ {i}] = s[last] + G[u \ {i}]
            BY <3>3, <4>2
      <4> HIDE DEF u, H
      <4>4. G[u \ {i}] \in Nat /\ G[u] = s[i] + G[u \ {i}]
            BY <4>1 DEF SumsSets
      <4>5. i \in 1 .. m
            BY <4>1
      <4>6. s[i] \in Nat
            BY <4>5
      <4> QED  BY <2>1, <4>3, <4>4, <4>6
    <3> QED  BY <3>1, <3>2, <3>3
  <2>4. SumsSets(last, s, H)
        BY <2>2, <2>3 DEF SumsSets
  <2> QED  BY <2>4 DEF last
<1>3. P = 0 .. n
  <2>1. P \in SUBSET (0 .. n)
        OBVIOUS
  <2> HIDE DEF P
  <2>2. \A i \in 0 .. n : i \in P /\ i < n => i + 1 \in P
        BY <1>2
  <2>3. P \in SUBSET (0 .. n) /\ 0 \in P
        BY <1>1, <2>1
  <2> QED  BY <2>2, <2>3, Upward
<1>4. n \in P
  <2>1. n \in 0 .. n
        OBVIOUS
  <2> HIDE DEF P
  <2> QED  BY <1>3, <2>1
<1> QED  BY <1>4

\* h gives what the positions from i on sum up to.
SumsFrom(n, s, h) ==
    /\ h \in [1 .. n + 1 -> Nat] /\ h[n + 1] = 0
    /\ \A i \in 1 .. n : h[i] = s[i] + h[i + 1]

LEMMA SumsFromExist ==
    ASSUME NEW n \in Nat, NEW s \in [1 .. n -> Nat]
    PROVE  \E h : SumsFrom(n, s, h)
<1>1. PICK G : SumsSets(n, s, G)
      BY SumsSetsExist
<1> DEFINE h == [i \in 1 .. n + 1 |-> G[i .. n]]
<1>2. h \in [1 .. n + 1 -> Nat]
  <2>1. \A i \in 1 .. n + 1 : i .. n \in SUBSET (1 .. n)
        OBVIOUS
  <2> QED  BY <1>1, <2>1 DEF SumsSets
<1>3. h[n + 1] = 0
  <2>1. (n + 1) .. n = {} /\ n + 1 \in 1 .. n + 1
        OBVIOUS
  <2> QED  BY <1>1, <2>1 DEF SumsSets
<1>4. \A i \in 1 .. n : h[i] = s[i] + h[i + 1]
  <2> TAKE i \in 1 .. n
  <2>1. /\ i .. n \in SUBSET (1 .. n) /\ i \in i .. n /\ (i .. n) \ {i} = (i + 1) .. n
        /\ i \in 1 .. n + 1 /\ i + 1 \in 1 .. n + 1
        OBVIOUS
  <2>2. G[i .. n] = s[i] + G[(i .. n) \ {i}]
        BY <1>1, <2>1 DEF SumsSets
  <2> QED  BY <2>1, <2>2
<1>5. SumsFrom(n, s, h)
      BY <1>2, <1>3, <1>4 DEF SumsFrom
<1> QED  BY <1>5

LEMMA SumIs ==
    ASSUME NEW n \in Nat, NEW s \in [1 .. n -> Nat], NEW h, SumsFrom(n, s, h)
    PROVE  Sum(s) = h[1] /\ Sum(s) \in Nat
<1>1. PICK G : SumsSets(n, s, G)
      BY SumsSetsExist
<1> DEFINE P == {i \in 1 .. n + 1 : h[i] = G[i .. n]}
<1>2. n + 1 \in P
  <2>1. (n + 1) .. n = {} /\ n + 1 \in 1 .. n + 1
        OBVIOUS
  <2> QED  BY <1>1, <2>1 DEF SumsSets, SumsFrom
<1>3. \A i \in 1 .. n : i + 1 \in P => i \in P
  <2> SUFFICES ASSUME NEW i \in 1 .. n, i + 1 \in P PROVE h[i] = G[i .. n]
      OBVIOUS
  <2>1. /\ i .. n \in SUBSET (1 .. n) /\ i \in i .. n /\ (i .. n) \ {i} = (i + 1) .. n
        OBVIOUS
  <2>2. G[i .. n] = s[i] + G[(i + 1) .. n]
        BY <1>1, <2>1 DEF SumsSets
  <2>3. h[i + 1] = G[(i + 1) .. n]
        OBVIOUS
  <2>4. h[i] = s[i] + h[i + 1]
        BY DEF SumsFrom
  <2> QED  BY <2>2, <2>3, <2>4
<1>4. P = 1 .. n + 1
  <2>1. P \in SUBSET (1 .. n + 1)
        OBVIOUS
  <2> HIDE DEF P
  <2> QED  BY <1>2, <1>3, <2>1, Downward
<1>5. 1 \in 1 .. n + 1
      OBVIOUS
<1>6. h[1] = G[1 .. n] /\ h[1] \in Nat
      BY <1>4, <1>5 DEF SumsFrom
<1> QED  BY <1>1, <1>6, SumIsFold

\* The same for products.
LEMMA ProductIsNat ==
    ASSUME NEW a \in Nat, NEW b \in Nat
    PROVE  a * b \in Nat
OBVIOUS

LEMMA Commutes ==
    ASSUME NEW a \in Nat, NEW b \in Nat, NEW c \in Nat
    PROVE  a * (b * c) = b * (a * c)
OBVIOUS

\* A function of the sets of positions of s that takes from any of them
\* whichever position it likes first.
ProductsSets(n, s, G) ==
    /\ G \in [SUBSET (1 .. n) -> Nat] /\ G[{}] = 1
    /\ \A t \in SUBSET (1 .. n) : \A i \in t : G[t] = s[i] * G[t \ {i}]

LEMMA ProductIsFold ==
    ASSUME NEW n \in Nat, NEW s \in [1 .. n -> Nat], NEW G, ProductsSets(n, s, G)
    PROVE  Product(s) = G[1 .. n]
<1> DEFINE Pick(t) == CHOOSE x \in t : TRUE
           Step(g) == [t \in SUBSET (1 .. n) |->
                         IF t = {} THEN 1 ELSE s[Pick(t)] * g[t \ {Pick(t)}]]
<1>1. Product(s) = (CHOOSE g : g = Step(g))[1 .. n]
  <2>1. DOMAIN s = 1 .. n
        OBVIOUS
  <2> QED  BY <2>1 DEF Product, FoldFunction, FoldFunctionOnSet, MapThenFoldSet
<1>2. \A t : t # {} => Pick(t) \in t
      OBVIOUS
<1> HIDE DEF Pick
<1>3. G = Step(G)
      BY <1>2 DEF ProductsSets
<1> DEFINE iter == CHOOSE g : g = Step(g)
<1>4. iter = Step(iter)
      BY <1>3
<1> HIDE DEF iter
<1>5. iter[{}] = G[{}]
      BY <1>4 DEF ProductsSets
<1>6. \A t \in SUBSET (1 .. n) : t # {} =>
          \E i \in t : iter[t \ {i}] = G[t \ {i}] => iter[t] = G[t]
  <2> SUFFICES ASSUME NEW t \in SUBSET (1 .. n), t # {},
                      iter[t \ {Pick(t)}] = G[t \ {Pick(t)}]
               PROVE  iter[t] = G[t]
      BY <1>2
  <2>1. Pick(t) \in t /\ iter[t] = s[Pick(t)] * iter[t \ {Pick(t)}]
        BY <1>2, <1>4
  <2> QED  BY <2>1 DEF ProductsSets
<1>7. iter[1 .. n] = G[1 .. n]
      BY <1>5, <1>6, SameOnSets
<1> QED  BY <1>1, <1>7 DEF iter

LEMMA ProductsSetsExist ==
    ASSUME NEW n \in Nat, NEW s \in [1 .. n -> Nat]
    PROVE  \E G : ProductsSets(n, s, G)
<1> DEFINE P == {m \in 0 .. n : \E G : ProductsSets(m, s, G)}
<1>1. 0 \in P
  <2> DEFINE G == [t \in SUBSET (1 .. 0) |-> 1]
  <2>1. ProductsSets(0, s, G)
        BY DEF ProductsSets
  <2> QED  BY <2>1
<1>2. \A m \in 0 .. n : m \in P /\ m < n => m + 1 \in P
  <2> SUFFICES ASSUME NEW m \in 0 .. n, m < n, NEW G, ProductsSets(m, s, G)
               PROVE  \E H : ProductsSets(m + 1, s, H)
      OBVIOUS
  <2> DEFINE last == m + 1
             H == [t \in SUBSET (1 .. last) |->
                     IF last \in t THEN s[last] * G[t \ {last}] ELSE G[t]]
  <2>1. /\ last \in 1 .. n /\ s[last] \in Nat /\ last \notin 1 .. m
        /\ \A t \in SUBSET (1 .. last) : t \ {last} \in SUBSET (1 .. m)
        /\ \A t \in SUBSET (1 .. last) : last \notin t => t \in SUBSET (1 .. m)
        OBVIOUS
  <2> HIDE DEF last
  <2>2. H \in [SUBSET (1 .. last) -> Nat] /\ H[{}] = 1
        BY <2>1 DEF ProductsSets
  <2>3. ASSUME NEW t \in SUBSET (1 .. last), NEW i \in t PROVE H[t] = s[i] * H[t \ {i}]
    <3>1. CASE i = last
          BY <2>1, <3>1
    <3>2. CASE i # last /\ last \notin t
      <4>1. t \in SUBSET (1 .. m) /\ H[t] = G[t] /\ H[t \ {i}] = G[t \ {i}]
            BY <2>1, <3>2
      <4> QED  BY <4>1 DEF ProductsSets
    <3>3. CASE i # last /\ last \in t
      <4> DEFINE u == t \ {last}
      <4>1. u \in SUBSET (1 .. m) /\ i \in u /\ u \ {i} \in SUBSET (1 .. m)
            BY <2>1, <3>3
      <4>2. (t \ {i}) \ {last} = u \ {i} /\ t \ {i} \in SUBSET (1 .. last) /\ last \in t \ {i}
            BY <3>3
      <4>3. H[t] = s[last] * G[u] /\ H[t \ {i}] = s[last] * G[u \ {i}]
            BY <3>3, <4>2
      <4> HIDE DEF u, H
      <4>4. G[u \ {i}] \in Nat /\ G[u] = s[i] * G[u \ {i}]
            BY <4>1 DEF ProductsSets
      <4>5. i \in 1 .. m
            BY <4>1
      <4>6. s[i] \in Nat
            BY <4>5
      <4> QED  BY <2>1, <4>3, <4>4, <4>6, Commutes
    <3> QED  BY <3>1, <3>2, <3>3
  <2>4. ProductsSets(last, s, H)
        BY <2>2, <2>3 DEF ProductsSets
  <2> QED  BY <2>4 DEF last
<1>3. P = 0 .. n
  <2>1. P \in SUBSET (0 .. n)
        OBVIOUS
  <2> HIDE DEF P
  <2>2. \A i \in 0 .. n : i \in P /\ i < n => i + 1 \in P
        BY <1>2
  <2>3. P \in SUBSET (0 .. n) /\ 0 \in P
        BY <1>1, <2>1
  <2> QED  BY <2>2, <2>3, Upward
<1>4. n \in P
  <2>1. n \in 0 .. n
        OBVIOUS
  <2> HIDE DEF P
  <2> QED  BY <1>3, <2>1
<1> QED  BY <1>4

\* h gives what the positions from i on multiply to.
ProductsFrom(n, s, h) ==
    /\ h \in [1 .. n + 1 -> Nat] /\ h[n + 1] = 1
    /\ \A i \in 1 .. n : h[i] = s[i] * h[i + 1]

LEMMA ProductsFromExist ==
    ASSUME NEW n \in Nat, NEW s \in [1 .. n -> Nat]
    PROVE  \E h : ProductsFrom(n, s, h)
<1>1. PICK G : ProductsSets(n, s, G)
      BY ProductsSetsExist
<1> DEFINE h == [i \in 1 .. n + 1 |-> G[i .. n]]
<1>2. h \in [1 .. n + 1 -> Nat]
  <2>1. \A i \in 1 .. n + 1 : i .. n \in SUBSET (1 .. n)
        OBVIOUS
  <2> QED  BY <1>1, <2>1 DEF ProductsSets
<1>3. h[n + 1] = 1
  <2>1. (n + 1) .. n = {} /\ n + 1 \in 1 .. n + 1
        OBVIOUS
  <2> QED  BY <1>1, <2>1 DEF ProductsSets
<1>4. \A i \in 1 .. n : h[i] = s[i] * h[i + 1]
  <2> TAKE i \in 1 .. n
  <2>1. /\ i .. n \in SUBSET (1 .. n) /\ i \in i .. n /\ (i .. n) \ {i} = (i + 1) .. n
        /\ i \in 1 .. n + 1 /\ i + 1 \in 1 .. n + 1
        OBVIOUS
  <2>2. G[i .. n] = s[i] * G[(i .. n) \ {i}]
        BY <1>1, <2>1 DEF ProductsSets
  <2> QED  BY <2>1, <2>2
<1>5. ProductsFrom(n, s, h)
      BY <1>2, <1>3, <1>4 DEF ProductsFrom
<1> QED  BY <1>5

LEMMA ProductIs ==
    ASSUME NEW n \in Nat, NEW s \in [1 .. n -> Nat], NEW h, ProductsFrom(n, s, h)
    PROVE  Product(s) = h[1] /\ Product(s) \in Nat
<1>1. PICK G : ProductsSets(n, s, G)
      BY ProductsSetsExist
<1> DEFINE P == {i \in 1 .. n + 1 : h[i] = G[i .. n]}
<1>2. n + 1 \in P
  <2>1. (n + 1) .. n = {} /\ n + 1 \in 1 .. n + 1
        OBVIOUS
  <2> QED  BY <1>1, <2>1 DEF ProductsSets, ProductsFrom
<1>3. \A i \in 1 .. n : i + 1 \in P => i \in P
  <2> SUFFICES ASSUME NEW i \in 1 .. n, i + 1 \in P PROVE h[i] = G[i .. n]
      OBVIOUS
  <2>1. /\ i .. n \in SUBSET (1 .. n) /\ i \in i .. n /\ (i .. n) \ {i} = (i + 1) .. n
        OBVIOUS
  <2>2. G[i .. n] = s[i] * G[(i + 1) .. n]
        BY <1>1, <2>1 DEF ProductsSets
  <2>3. h[i + 1] = G[(i + 1) .. n]
        OBVIOUS
  <2>4. h[i] = s[i] * h[i + 1]
        BY DEF ProductsFrom
  <2> QED  BY <2>2, <2>3, <2>4
<1>4. P = 1 .. n + 1
  <2>1. P \in SUBSET (1 .. n + 1)
        OBVIOUS
  <2> HIDE DEF P
  <2> QED  BY <1>2, <1>3, <2>1, Downward
<1>5. 1 \in 1 .. n + 1
      OBVIOUS
<1>6. h[1] = G[1 .. n] /\ h[1] \in Nat
      BY <1>4, <1>5 DEF ProductsFrom
<1> QED  BY <1>1, <1>6, ProductIsFold

-----------------------------------------------------------------------------
(***************************************************************************)
(* Sums and products of sequences.                                         *)
(***************************************************************************)
\* A sum of more is more.
LEMMA SumMonotone ==
    ASSUME NEW n \in Nat, NEW s \in [1 .. n -> Nat], NEW t \in [1 .. n -> Nat],
           \A i \in 1 .. n : s[i] <= t[i]
    PROVE  Sum(s) <= Sum(t)
<1>1. PICK g : SumsFrom(n, s, g)
      BY SumsFromExist
<1>2. PICK h : SumsFrom(n, t, h)
      BY SumsFromExist
<1> DEFINE P == {i \in 1 .. n + 1 : g[i] <= h[i]}
<1>3. n + 1 \in P
      BY <1>1, <1>2 DEF SumsFrom
<1>4. \A i \in 1 .. n : i + 1 \in P => i \in P
  <2> SUFFICES ASSUME NEW i \in 1 .. n, i + 1 \in P PROVE g[i] <= h[i]
      OBVIOUS
  <2>1. g[i] = s[i] + g[i + 1] /\ h[i] = t[i] + h[i + 1] /\ i + 1 \in 1 .. n + 1
        BY <1>1, <1>2 DEF SumsFrom
  <2>2. g[i + 1] \in Nat /\ h[i + 1] \in Nat /\ s[i] \in Nat /\ t[i] \in Nat /\ s[i] <= t[i]
        BY <1>1, <1>2, <2>1 DEF SumsFrom
  <2> QED  BY <2>1, <2>2
<1>5. P = 1 .. n + 1
  <2>1. P \in SUBSET (1 .. n + 1)
        OBVIOUS
  <2> HIDE DEF P
  <2> QED  BY <1>3, <1>4, <2>1, Downward
<1>6. g[1] <= h[1]
  <2>1. 1 \in 1 .. n + 1
        OBVIOUS
  <2> QED  BY <1>5, <2>1
<1>7. Sum(s) = g[1] /\ Sum(t) = h[1]
      BY <1>1, <1>2, SumIs
<1> QED  BY <1>6, <1>7

\* The sum of sums.
LEMMA SumAdds ==
    ASSUME NEW n \in Nat, NEW s \in [1 .. n -> Nat], NEW t \in [1 .. n -> Nat]
    PROVE  Sum([i \in 1 .. n |-> s[i] + t[i]]) = Sum(s) + Sum(t)
<1> DEFINE u == [i \in 1 .. n |-> s[i] + t[i]]
<1>1. PICK g : SumsFrom(n, s, g)
      BY SumsFromExist
<1>2. PICK h : SumsFrom(n, t, h)
      BY SumsFromExist
<1> DEFINE f == [i \in 1 .. n + 1 |-> g[i] + h[i]]
<1>3. SumsFrom(n, u, f)
  <2>1. f \in [1 .. n + 1 -> Nat] /\ f[n + 1] = 0
    <3>1. \A i \in 1 .. n + 1 : g[i] \in Nat /\ h[i] \in Nat
          BY <1>1, <1>2 DEF SumsFrom
    <3>2. n + 1 \in 1 .. n + 1 /\ g[n + 1] = 0 /\ h[n + 1] = 0
          BY <1>1, <1>2 DEF SumsFrom
    <3>3. f \in [1 .. n + 1 -> Nat]
          BY <3>1
    <3>4. f[n + 1] = 0
          BY <3>2
    <3> QED  BY <3>3, <3>4
  <2>2. \A i \in 1 .. n : f[i] = u[i] + f[i + 1]
    <3> TAKE i \in 1 .. n
    <3>1. g[i] = s[i] + g[i + 1] /\ h[i] = t[i] + h[i + 1] /\ i + 1 \in 1 .. n + 1 /\ i \in 1 .. n + 1
          BY <1>1, <1>2 DEF SumsFrom
    <3>2. g[i + 1] \in Nat /\ h[i + 1] \in Nat /\ s[i] \in Nat /\ t[i] \in Nat
          BY <1>1, <1>2, <3>1 DEF SumsFrom
    <3>3. f[i] = g[i] + h[i] /\ f[i + 1] = g[i + 1] + h[i + 1] /\ u[i] = s[i] + t[i]
          BY <3>1
    <3> QED  BY <3>1, <3>2, <3>3
  <2> QED  BY <2>1, <2>2 DEF SumsFrom
<1>4. u \in [1 .. n -> Nat]
      OBVIOUS
<1>5. Sum(s) = g[1] /\ Sum(t) = h[1]
      BY <1>1, <1>2, SumIs
<1>6. f[1] = g[1] + h[1]
      OBVIOUS
<1> HIDE DEF u, f
<1>7. Sum(u) = f[1]
      BY <1>3, <1>4, SumIs
<1> QED  BY <1>5, <1>6, <1>7 DEF u

\* What is behind a first number.
LEMMA SumPrepended ==
    ASSUME NEW n \in Nat, NEW s \in [1 .. n -> Nat], NEW t \in [1 .. n + 1 -> Nat],
           \A i \in 1 .. n : t[i + 1] = s[i]
    PROVE  Sum(t) = t[1] + Sum(s)
<1>1. PICK g : SumsFrom(n, s, g)
      BY SumsFromExist
<1> DEFINE f == [i \in 1 .. n + 2 |-> IF i = 1 THEN t[1] + g[1] ELSE g[i - 1]]
<1>2. SumsFrom(n + 1, t, f)
  <2>1. g \in [1 .. n + 1 -> Nat] /\ t[1] \in Nat /\ g[1] \in Nat
        BY <1>1 DEF SumsFrom
  <2>2. f \in [1 .. n + 2 -> Nat] /\ f[n + 2] = 0
        BY <1>1, <2>1 DEF SumsFrom
  <2>3. \A i \in 1 .. n + 1 : f[i] = t[i] + f[i + 1]
    <3> TAKE i \in 1 .. n + 1
    <3>1. CASE i = 1
          BY <3>1
    <3>2. CASE i # 1
      <4>1. i - 1 \in 1 .. n /\ (i - 1) + 1 = i
            BY <3>2
      <4>2. g[i - 1] = s[i - 1] + g[i] /\ t[i] = s[i - 1]
            BY <1>1, <4>1 DEF SumsFrom
      <4>3. f[i] = g[i - 1] /\ f[i + 1] = g[i]
            BY <3>2
      <4> QED  BY <4>2, <4>3
    <3> QED  BY <3>1, <3>2
  <2>4. (n + 1) + 1 = n + 2
        OBVIOUS
  <2> HIDE DEF f
  <2> QED  BY <2>2, <2>3, <2>4 DEF SumsFrom
<1>3. f[1] = t[1] + g[1]
      OBVIOUS
<1> HIDE DEF f
<1>4. Sum(t) = f[1]
      BY <1>2, SumIs
<1>5. Sum(s) = g[1]
      BY <1>1, SumIs
<1> QED  BY <1>3, <1>4, <1>5

\* The product of what is behind the first i.
LEMMA ProductOfRest ==
    ASSUME NEW n \in Nat, NEW s \in [1 .. n -> Nat], NEW h, ProductsFrom(n, s, h),
           NEW i \in 0 .. n
    PROVE  Product(SubSeq(s, i + 1, n)) = h[i + 1]
<1> DEFINE rest == SubSeq(s, i + 1, n)
           g == [k \in 1 .. (n - i) + 1 |-> h[k + i]]
<1>1. n - i \in Nat /\ rest \in [1 .. n - i -> Nat] /\ \A k \in 1 .. n - i : rest[k] = s[k + i]
  <2>1. \A k \in (i + 1) .. n : s[k] \in Nat
        OBVIOUS
  <2>2. rest \in Seq(Nat) /\ Len(rest) = (IF i + 1 <= n THEN n - (i + 1) + 1 ELSE 0)
        /\ \A k \in 1 .. n - (i + 1) + 1 : rest[k] = s[(i + 1) + k - 1]
        BY <2>1, SubSeqProperties
  <2> HIDE DEF rest
  <2>3. Len(rest) = n - i /\ n - i \in Nat
        BY <2>2
  <2>4. rest \in [1 .. n - i -> Nat]
        BY <2>2, <2>3, LenProperties
  <2>5. ASSUME NEW k \in 1 .. n - i PROVE rest[k] = s[k + i]
    <3>1. k \in 1 .. n - (i + 1) + 1 /\ (i + 1) + k - 1 = k + i
          OBVIOUS
    <3> QED  BY <2>2, <3>1
  <2> QED  BY <2>3, <2>4, <2>5
<1> HIDE DEF rest
<1>2. ProductsFrom(n - i, rest, g)
  <2>1. g \in [1 .. (n - i) + 1 -> Nat] /\ g[(n - i) + 1] = 1
    <3>1. \A k \in 1 .. (n - i) + 1 : k + i \in 1 .. n + 1
          OBVIOUS
    <3>2. (n - i) + 1 \in 1 .. (n - i) + 1 /\ ((n - i) + 1) + i = n + 1
          OBVIOUS
    <3> QED  BY <3>1, <3>2 DEF ProductsFrom
  <2>2. \A k \in 1 .. n - i : g[k] = rest[k] * g[k + 1]
    <3> TAKE k \in 1 .. n - i
    <3>1. k + i \in 1 .. n /\ (k + i) + 1 = (k + 1) + i /\ k + 1 \in 1 .. (n - i) + 1
          /\ k \in 1 .. (n - i) + 1
          OBVIOUS
    <3>2. h[k + i] = s[k + i] * h[(k + 1) + i]
          BY <3>1 DEF ProductsFrom
    <3> QED  BY <1>1, <3>1, <3>2
  <2> QED  BY <2>1, <2>2 DEF ProductsFrom
<1>3. g[1] = h[i + 1]
  <2>1. 1 \in 1 .. (n - i) + 1 /\ 1 + i = i + 1
        OBVIOUS
  <2> QED  BY <2>1
<1> HIDE DEF g
<1>4. Product(rest) = g[1]
      BY <1>1, <1>2, ProductIs
<1> QED  BY <1>3, <1>4 DEF rest

\* Positive numbers have positive products.
LEMMA ProductsPositive ==
    ASSUME NEW n \in Nat, NEW s \in [1 .. n -> Nat \ {0}], NEW h, ProductsFrom(n, s, h)
    PROVE  h \in [1 .. n + 1 -> Nat \ {0}]
<1> DEFINE P == {i \in 1 .. n + 1 : h[i] # 0}
<1>1. n + 1 \in P
      BY DEF ProductsFrom
<1>2. \A i \in 1 .. n : i + 1 \in P => i \in P
  <2> SUFFICES ASSUME NEW i \in 1 .. n, i + 1 \in P PROVE h[i] # 0
      OBVIOUS
  <2>1. h[i] = s[i] * h[i + 1] /\ s[i] \in Nat \ {0} /\ h[i + 1] \in Nat \ {0}
        BY DEF ProductsFrom
  <2>2. \A a, b \in Nat \ {0} : a * b # 0
        OBVIOUS
  <2> QED  BY <2>1, <2>2
<1>3. P = 1 .. n + 1
  <2>1. P \in SUBSET (1 .. n + 1)
        OBVIOUS
  <2> HIDE DEF P
  <2> QED  BY <1>1, <1>2, <2>1, Downward
<1> QED  BY <1>3 DEF ProductsFrom

-----------------------------------------------------------------------------
(***************************************************************************)
(* Layouts: extents, and steps that hold what is behind them.              *)
(***************************************************************************)
LEMMA Monotonic ==
    ASSUME NEW a \in Nat, NEW b \in Nat, NEW c \in Nat, a <= b
    PROVE  a * c <= b * c /\ c * a <= c * b
OBVIOUS

LEMMA NoLess ==
    ASSUME NEW a \in Nat, NEW b \in Nat \ {0}
    PROVE  a <= a * b /\ a <= b * a /\ a * b \in Nat
OBVIOUS

LEMMA OneLess ==
    ASSUME NEW a \in Nat \ {0}, NEW c \in Nat
    PROVE  a - 1 \in Nat /\ (a - 1) * c \in Nat /\ (a - 1) * c + c = a * c
OBVIOUS

Spans(n, size, step) == [i \in 1 .. n |-> (size[i] - 1) * step[i]]

LEMMA SpansType ==
    ASSUME NEW n \in Nat, NEW size \in [1 .. n -> Nat \ {0}], NEW step \in [1 .. n -> Nat]
    PROVE  /\ Spans(n, size, step) \in [1 .. n -> Nat]
           /\ \A e : LogicalEnd(size, step, e) = e + Sum(Spans(n, size, step))
<1>1. \A i \in 1 .. n : (size[i] - 1) * step[i] \in Nat
      BY OneLess
<1>2. DOMAIN size = 1 .. n
      OBVIOUS
<1> QED  BY <1>1, <1>2 DEF Spans, LogicalEnd

\* Every step holds what is behind it, the last one an element.
Holds(n, size, step, e) ==
    /\ e <= step[n]
    /\ \A i \in 1 .. n - 1 : step[i] >= step[i + 1] * size[i + 1]

\* Nothing is behind the end of the outermost dimension.
LEMMA EndInside ==
    ASSUME NEW n \in Nat \ {0}, NEW size \in [1 .. n -> Nat \ {0}],
           NEW step \in [1 .. n -> Nat], NEW e \in Nat, Holds(n, size, step, e)
    PROVE  LogicalEnd(size, step, e) <= size[1] * step[1]
<1> DEFINE spans == Spans(n, size, step)
<1>1. spans \in [1 .. n -> Nat] /\ LogicalEnd(size, step, e) = e + Sum(spans)
      BY SpansType
<1>2. \A i \in 1 .. n : spans[i] = (size[i] - 1) * step[i]
      BY DEF Spans
<1> HIDE DEF spans
<1>3. PICK h : SumsFrom(n, spans, h)
      BY <1>1, SumsFromExist
<1>4. /\ \A i \in 1 .. n + 1 : h[i] \in Nat
      /\ h[n + 1] = 0
      /\ \A i \in 1 .. n : h[i] = spans[i] + h[i + 1]
      BY <1>3 DEF SumsFrom
<1> DEFINE P == {i \in 1 .. n + 1 : i = n + 1 \/ e + h[i] <= size[i] * step[i]}
<1>5. n + 1 \in P
      OBVIOUS
<1>6. \A i \in 1 .. n : i + 1 \in P => i \in P
  <2> SUFFICES ASSUME NEW i \in 1 .. n, i + 1 \in P PROVE e + h[i] <= size[i] * step[i]
      OBVIOUS
  <2> DEFINE span == (size[i] - 1) * step[i]
             all == size[i] * step[i]
  <2>1. span \in Nat /\ span + step[i] = all /\ all \in Nat /\ step[i] \in Nat
    <3>1. size[i] \in Nat \ {0} /\ step[i] \in Nat
          OBVIOUS
    <3> QED  BY <3>1, OneLess, ProductIsNat
  <2>2. h[i] = span + h[i + 1] /\ h[i + 1] \in Nat
    <3>1. i + 1 \in 1 .. n + 1
          OBVIOUS
    <3> QED  BY <1>2, <1>4, <3>1
  <2> HIDE DEF span, all
  <2>3. e + h[i + 1] <= step[i]
    <3>1. CASE i = n
          BY <1>4, <3>1 DEF Holds
    <3>2. CASE i # n
      <4>1. i \in 1 .. n - 1 /\ i + 1 \in 1 .. n /\ i + 1 # n + 1
            BY <3>2
      <4> DEFINE next == size[i + 1] * step[i + 1]
      <4>2. e + h[i + 1] <= next
            BY <4>1
      <4>3. next \in Nat /\ next = step[i + 1] * size[i + 1]
            BY <4>1
      <4>4. next <= step[i]
            BY <4>1, <4>3 DEF Holds
      <4> HIDE DEF next, P
      <4> DEFINE x == h[i + 1]
                 y == step[i]
      <4>5. x \in Nat /\ y \in Nat /\ next \in Nat /\ e + x <= next /\ next <= y
            BY <2>1, <2>2, <4>2, <4>3, <4>4
      <4> HIDE DEF x, y
      <4>6. e + x <= y
            BY <4>5
      <4> QED  BY <4>6 DEF x, y
    <3> QED  BY <3>1, <3>2
  <2> HIDE DEF P
  <2> DEFINE x == h[i + 1]
             y == h[i]
             z == step[i]
  <2>4. y = span + x /\ span + z = all /\ e + x <= z
        /\ x \in Nat /\ span \in Nat /\ z \in Nat /\ all \in Nat /\ e \in Nat
        BY <2>1, <2>2, <2>3
  <2> HIDE DEF x, y, z
  <2>5. e + y <= all
        BY <2>4
  <2> QED  BY <2>5 DEF all, y
<1>7. P = 1 .. n + 1
  <2>1. P \in SUBSET (1 .. n + 1)
        OBVIOUS
  <2> HIDE DEF P
  <2> QED  BY <1>5, <1>6, <2>1, Downward
<1>8. e + h[1] <= size[1] * step[1]
  <2>1. 1 \in 1 .. n + 1 /\ 1 # n + 1
        OBVIOUS
  <2> QED  BY <1>7, <2>1
<1>9. Sum(spans) = h[1]
      BY <1>1, <1>3, SumIs
<1> QED  BY <1>1, <1>8, <1>9

\* No layout ends before the packed one.
LEMMA PackedIsLeast ==
    ASSUME NEW n \in Nat \ {0}, NEW size \in [1 .. n -> Nat \ {0}],
           NEW step \in [1 .. n -> Nat], NEW e \in Nat, Holds(n, size, step, e)
    PROVE  e * Product(size) <= LogicalEnd(size, step, e)
<1> DEFINE spans == Spans(n, size, step)
<1>1. spans \in [1 .. n -> Nat] /\ LogicalEnd(size, step, e) = e + Sum(spans)
      BY SpansType
<1>2. \A i \in 1 .. n : spans[i] = (size[i] - 1) * step[i]
      BY DEF Spans
<1> HIDE DEF spans
<1>3. PICK h : SumsFrom(n, spans, h)
      BY <1>1, SumsFromExist
<1>4. /\ \A i \in 1 .. n + 1 : h[i] \in Nat
      /\ h[n + 1] = 0
      /\ \A i \in 1 .. n : h[i] = spans[i] + h[i + 1]
      BY <1>3 DEF SumsFrom
<1>5. size \in [1 .. n -> Nat]
      OBVIOUS
<1>6. PICK g : ProductsFrom(n, size, g)
      BY <1>5, ProductsFromExist
<1>7. /\ \A i \in 1 .. n + 1 : g[i] \in Nat
      /\ g[n + 1] = 1
      /\ \A i \in 1 .. n : g[i] = size[i] * g[i + 1]
      BY <1>6 DEF ProductsFrom
<1> DEFINE Bound(i) == e * g[i] <= e + h[i] /\ (i # n + 1 => e * g[i] <= size[i] * step[i])
           P == {i \in 1 .. n + 1 : Bound(i)}
<1>8. n + 1 \in P
      BY <1>4, <1>7
<1>9. \A i \in 1 .. n : i + 1 \in P => i \in P
  <2> SUFFICES ASSUME NEW i \in 1 .. n, Bound(i + 1) PROVE Bound(i)
    <3> HIDE DEF Bound
    <3> QED  OBVIOUS
  <2> DEFINE rest == e * g[i + 1]
  <2>1. i + 1 \in 1 .. n + 1 /\ g[i + 1] \in Nat /\ h[i + 1] \in Nat /\ size[i] \in Nat \ {0}
        /\ step[i] \in Nat
        BY <1>4, <1>7
  <2>2. rest \in Nat /\ e * g[i] = size[i] * rest
    <3>1. e * (size[i] * g[i + 1]) = size[i] * (e * g[i + 1])
          BY <2>1, Commutes
    <3> QED  BY <1>7, <2>1, <3>1, ProductIsNat
  <2>3. rest <= step[i]
    <3>1. CASE i = n
      <4>1. rest = e
            BY <1>7, <3>1
      <4> QED  BY <3>1, <4>1 DEF Holds
    <3>2. CASE i # n
      <4>1. i \in 1 .. n - 1 /\ i + 1 \in 1 .. n /\ i + 1 # n + 1
            BY <3>2
      <4> DEFINE next == size[i + 1] * step[i + 1]
      <4>2. rest <= next
            BY <4>1
      <4>3. next \in Nat /\ next = step[i + 1] * size[i + 1]
            BY <4>1
      <4>4. next <= step[i]
            BY <4>1, <4>3 DEF Holds
      <4> HIDE DEF next, rest
      <4> QED  BY <2>1, <2>2, <4>2, <4>3, <4>4
    <3> QED  BY <3>1, <3>2
  <2>4. rest <= e + h[i + 1]
        OBVIOUS
  <2> HIDE DEF rest
  <2>5. size[i] * rest <= size[i] * step[i]
        BY <2>1, <2>2, <2>3, Monotonic
  <2>6. /\ (size[i] - 1) * rest + rest = size[i] * rest
        /\ (size[i] - 1) * rest \in Nat /\ (size[i] - 1) * step[i] \in Nat
        /\ (size[i] - 1) * rest <= (size[i] - 1) * step[i]
        BY <2>1, <2>2, <2>3, OneLess, Monotonic
  <2>7. h[i] = (size[i] - 1) * step[i] + h[i + 1]
        BY <1>2, <1>4
  <2>8. size[i] * rest <= e + h[i]
    <3> DEFINE x == (size[i] - 1) * rest
               y == (size[i] - 1) * step[i]
               w == size[i] * rest
               now == h[i]
               before == h[i + 1]
    <3>1. x + rest = w /\ x \in Nat /\ y \in Nat /\ x <= y /\ now = y + before
          BY <2>6, <2>7
    <3>2. rest \in Nat /\ before \in Nat /\ rest <= e + before
          BY <2>1, <2>2, <2>4
    <3> HIDE DEF x, y, w, now, before
    <3>3. w <= e + now
          BY <3>1, <3>2
    <3> QED  BY <3>3 DEF w, now
  <2> QED  BY <2>2, <2>5, <2>8
<1>10. P = 1 .. n + 1
  <2>1. P \in SUBSET (1 .. n + 1)
        OBVIOUS
  <2> HIDE DEF P
  <2> QED  BY <1>8, <1>9, <2>1, Downward
<1>11. e * g[1] <= e + h[1]
  <2>1. 1 \in 1 .. n + 1
        OBVIOUS
  <2> QED  BY <1>10, <2>1
<1>12. Sum(spans) = h[1] /\ Product(size) = g[1]
      BY <1>1, <1>3, <1>5, <1>6, SumIs, ProductIs
<1> QED  BY <1>1, <1>11, <1>12

\* An outer step holds an inner dimension.
LEMMA StepsDescend ==
    ASSUME NEW n \in Nat \ {0}, NEW size \in [1 .. n -> Nat \ {0}],
           NEW step \in [1 .. n -> Nat], NEW e \in Nat, Holds(n, size, step, e),
           NEW j \in 1 .. n, NEW i \in 1 .. n, i < j
    PROVE  step[j] * size[j] <= step[i]
<1> DEFINE whole == step[j] * size[j]
           P == {k \in 1 .. (j - 1) + 1 : k # j => whole <= step[k]}
<1>1. j - 1 \in Nat /\ (j - 1) + 1 = j
      OBVIOUS
<1>2. (j - 1) + 1 \in P
      BY <1>1
<1>3. whole \in Nat
      OBVIOUS
<1>4. \A k \in 1 .. j - 1 : k + 1 \in P => k \in P
  <2> SUFFICES ASSUME NEW k \in 1 .. j - 1, k + 1 \in P PROVE whole <= step[k]
      OBVIOUS
  <2> HIDE DEF whole
  <2>1. k \in 1 .. n - 1 /\ k + 1 \in 1 .. n /\ k \in 1 .. n
        OBVIOUS
  <2>2. step[k] \in Nat /\ step[k + 1] \in Nat /\ size[k + 1] \in Nat \ {0}
        BY <2>1
  <2>3. step[k + 1] * size[k + 1] <= step[k]
        BY <2>1, <2>2 DEF Holds
  <2>4. CASE k + 1 = j
        BY <2>3, <2>4 DEF whole
  <2>5. CASE k + 1 # j
    <3>1. whole <= step[k + 1]
          BY <2>5
    <3>2. step[k + 1] <= step[k + 1] * size[k + 1]
          BY <2>2, NoLess
    <3>3. step[k + 1] * size[k + 1] \in Nat
          BY <2>2
    <3> QED  BY <1>3, <2>2, <2>3, <3>1, <3>2, <3>3
  <2> QED  BY <2>4, <2>5
<1>5. P = 1 .. (j - 1) + 1
  <2>1. P \in SUBSET (1 .. (j - 1) + 1)
        OBVIOUS
  <2> HIDE DEF P
  <2> QED  BY <1>1, <1>2, <1>4, <2>1, Downward
<1>6. i \in 1 .. (j - 1) + 1 /\ i # j
      OBVIOUS
<1> QED  BY <1>5, <1>6

-----------------------------------------------------------------------------
(***************************************************************************)
(* Multiples.                                                              *)
(***************************************************************************)
LEMMA Divides ==
    ASSUME NEW a \in Nat, NEW d \in Nat \ {0}, a % d = 0
    PROVE  a = d * (a \div d) /\ a \div d \in Nat
OBVIOUS

LEMMA DividesItsMultiples ==
    ASSUME NEW q \in Nat, NEW d \in Nat \ {0}
    PROVE  (d * q) % d = 0
OBVIOUS

LEMMA MultiplesAdd ==
    ASSUME NEW d \in Nat \ {0}, NEW a \in Nat, NEW b \in Nat, a % d = 0, b % d = 0
    PROVE  (a + b) % d = 0
<1> DEFINE q == a \div d
           r == b \div d
<1>1. a = d * q /\ b = d * r /\ q \in Nat /\ r \in Nat
      BY Divides
<1> HIDE DEF q, r
<1>2. a + b = d * (q + r) /\ q + r \in Nat
      BY <1>1
<1> QED  BY <1>2, DividesItsMultiples

LEMMA MultipleTimes ==
    ASSUME NEW d \in Nat \ {0}, NEW a \in Nat, NEW b \in Nat, a % d = 0
    PROVE  (a * b) % d = 0 /\ (b * a) % d = 0
<1> DEFINE q == a \div d
<1>1. a = d * q /\ q \in Nat
      BY Divides
<1> HIDE DEF q
<1>2. a * b = d * (q * b) /\ b * a = d * (q * b) /\ q * b \in Nat
      BY <1>1
<1> QED  BY <1>2, DividesItsMultiples

\* A sum of multiples.
LEMMA SumOfMultiples ==
    ASSUME NEW n \in Nat, NEW s \in [1 .. n -> Nat], NEW d \in Nat \ {0},
           \A i \in 1 .. n : s[i] % d = 0
    PROVE  Sum(s) % d = 0
<1>1. PICK h : SumsFrom(n, s, h)
      BY SumsFromExist
<1> DEFINE P == {i \in 1 .. n + 1 : h[i] % d = 0}
<1>2. n + 1 \in P
      BY <1>1 DEF SumsFrom
<1>3. \A i \in 1 .. n : i + 1 \in P => i \in P
  <2> SUFFICES ASSUME NEW i \in 1 .. n, i + 1 \in P PROVE h[i] % d = 0
      OBVIOUS
  <2>1. h[i] = s[i] + h[i + 1] /\ s[i] \in Nat /\ h[i + 1] \in Nat /\ s[i] % d = 0
        BY <1>1 DEF SumsFrom
  <2>2. h[i + 1] % d = 0
        OBVIOUS
  <2> QED  BY <2>1, <2>2, MultiplesAdd
<1>4. P = 1 .. n + 1
  <2>1. P \in SUBSET (1 .. n + 1)
        OBVIOUS
  <2> HIDE DEF P
  <2> QED  BY <1>2, <1>3, <2>1, Downward
<1>5. h[1] % d = 0
  <2>1. 1 \in 1 .. n + 1
        OBVIOUS
  <2> QED  BY <1>4, <2>1
<1>6. Sum(s) = h[1]
      BY <1>1, SumIs
<1> QED  BY <1>5, <1>6

-----------------------------------------------------------------------------
(***************************************************************************)
(* Recursion, and the dimensions that are kept.                            *)
(***************************************************************************)
\* The value of f at k is made of the one at k - 1.
Follows(n, S, step, first, f) ==
    /\ f \in [0 .. n -> S] /\ f[0] = first
    /\ \A k \in 1 .. n : f[k] = step[k][f[k - 1]]

LEMMA Recursion ==
    ASSUME NEW n \in Nat, NEW S, NEW first \in S, NEW step \in [1 .. n -> [S -> S]]
    PROVE  \E f : Follows(n, S, step, first, f)
<1> DEFINE P == {m \in 0 .. n : \E f : Follows(m, S, step, first, f)}
<1>1. 0 \in P
  <2> DEFINE f == [k \in 0 .. 0 |-> first]
  <2>1. Follows(0, S, step, first, f)
        BY DEF Follows
  <2> HIDE DEF f
  <2> QED  BY <2>1
<1>2. \A m \in 0 .. n : m \in P /\ m < n => m + 1 \in P
  <2> SUFFICES ASSUME NEW m \in 0 .. n, m < n, NEW f, Follows(m, S, step, first, f)
               PROVE  \E g : Follows(m + 1, S, step, first, g)
      OBVIOUS
  <2> DEFINE next == step[m + 1][f[m]]
             g == [k \in 0 .. m + 1 |-> IF k = m + 1 THEN next ELSE f[k]]
  <2>1. next \in S /\ f \in [0 .. m -> S]
    <3>1. m + 1 \in 1 .. n /\ f[m] \in S
          BY DEF Follows
    <3> QED  BY <3>1 DEF Follows
  <2>2. g \in [0 .. m + 1 -> S] /\ g[0] = first /\ g[m + 1] = next /\ g[m] = f[m]
        BY <2>1 DEF Follows
  <2>3. \A k \in 1 .. m + 1 : g[k] = step[k][g[k - 1]]
    <3> TAKE k \in 1 .. m + 1
    <3>1. CASE k = m + 1
      <4>1. k - 1 = m
            BY <3>1
      <4> QED  BY <2>2, <3>1, <4>1
    <3>2. CASE k # m + 1
      <4>1. k \in 1 .. m /\ k - 1 \in 0 .. m /\ k - 1 # m + 1
            BY <3>2
      <4>2. g[k] = f[k] /\ g[k - 1] = f[k - 1]
            BY <3>2, <4>1
      <4> QED  BY <4>1, <4>2 DEF Follows
    <3> QED  BY <3>1, <3>2
  <2> HIDE DEF g
  <2>4. Follows(m + 1, S, step, first, g)
        BY <2>2, <2>3 DEF Follows
  <2> QED  BY <2>4
<1>3. P = 0 .. n
  <2>1. P \in SUBSET (0 .. n)
        OBVIOUS
  <2> HIDE DEF P
  <2>2. \A i \in 0 .. n : i \in P /\ i < n => i + 1 \in P
        BY <1>2
  <2>3. P \in SUBSET (0 .. n) /\ 0 \in P
        BY <1>1, <2>1
  <2> QED  BY <2>2, <2>3, Upward
<1>4. n \in P
  <2>1. n \in 0 .. n
        OBVIOUS
  <2> HIDE DEF P
  <2> QED  BY <1>3, <2>1
<1> QED  BY <1>4

LEMMA Prepended ==
    ASSUME NEW S, NEW x \in S, NEW s \in Seq(S)
    PROVE  /\ <<x>> \o s \in Seq(S)
           /\ Len(<<x>> \o s) = Len(s) + 1
           /\ (<<x>> \o s)[1] = x
           /\ \A i \in 1 .. Len(s) : (<<x>> \o s)[i + 1] = s[i]
<1>1. <<x>> \in Seq(S) /\ Len(<<x>>) = 1 /\ <<x>>[1] = x
      OBVIOUS
<1>2. Len(s) \in Nat
      BY LenProperties
<1>3. /\ <<x>> \o s \in Seq(S)
      /\ Len(<<x>> \o s) = 1 + Len(s)
      /\ \A i \in 1 .. 1 + Len(s) : (<<x>> \o s)[i] = IF i <= 1 THEN <<x>>[1] ELSE s[i - 1]
      BY <1>1, ConcatProperties
<1>4. (<<x>> \o s)[1] = x
  <2>1. 1 \in 1 .. 1 + Len(s)
        BY <1>2
  <2> QED  BY <1>1, <1>3, <2>1
<1>5. ASSUME NEW i \in 1 .. Len(s) PROVE (<<x>> \o s)[i + 1] = s[i]
  <2>1. i + 1 \in 1 .. 1 + Len(s) /\ ~ (i + 1 <= 1) /\ (i + 1) - 1 = i
        BY <1>2
  <2> QED  BY <1>3, <2>1
<1> QED  BY <1>2, <1>3, <1>4, <1>5

\* K gives the dimensions from i on that are not dropped.
KeptFrom(n, drop, K) ==
    /\ K \in [1 .. n + 1 -> Seq(1 .. n)] /\ K[n + 1] = << >>
    /\ \A i \in 1 .. n : K[i] = IF i \in drop THEN K[i + 1] ELSE <<i>> \o K[i + 1]

LEMMA KeptIs ==
    ASSUME NEW h, NEW drop, Len(h.size) \in Nat
    PROVE  \E K : KeptFrom(Len(h.size), drop, K) /\ Kept(h, drop) = K[1]
<1> DEFINE n == Len(h.size)
           Step(K) == [i \in 1 .. n + 1 |->
                         IF i = n + 1 THEN << >>
                         ELSE IF i \in drop THEN K[i + 1] ELSE <<i>> \o K[i + 1]]
<1>1. Kept(h, drop) = (CHOOSE K : K = Step(K))[1]
      BY DEF Kept, Dimension_Count
<1> HIDE DEF n
<1>2. n \in Nat
      BY DEF n
<1>3. \E K : K = Step(K)
  <2> DEFINE S == Seq(1 .. n)
             step == [k \in 1 .. n |-> [s \in S |->
                        IF (n + 1) - k \in drop THEN s ELSE <<(n + 1) - k>> \o s]]
             none == << >>
  <2>1. none \in S
        BY EmptySeq
  <2>2. step \in [1 .. n -> [S -> S]]
    <3>1. \A k \in 1 .. n : (n + 1) - k \in 1 .. n
          BY <1>2
    <3>2. \A x \in 1 .. n, s \in S : <<x>> \o s \in S
          BY Prepended
    <3> HIDE DEF S
    <3> QED  BY <3>1, <3>2
  <2>3. \A k \in 1 .. n, s \in S :
            step[k][s] = IF (n + 1) - k \in drop THEN s ELSE <<(n + 1) - k>> \o s
        OBVIOUS
  <2> HIDE DEF S, step, none
  <2>4. PICK f : Follows(n, S, step, none, f)
        BY <1>2, <2>1, <2>2, Recursion
  <2> DEFINE K == [i \in 1 .. n + 1 |-> f[(n + 1) - i]]
  <2>5. ASSUME NEW i \in 1 .. n + 1
        PROVE  K[i] = IF i = n + 1 THEN << >>
                      ELSE IF i \in drop THEN K[i + 1] ELSE <<i>> \o K[i + 1]
    <3>1. CASE i = n + 1
      <4>1. (n + 1) - i = 0
            BY <1>2, <3>1
      <4> QED  BY <2>4, <3>1, <4>1 DEF Follows, none
    <3>2. CASE i # n + 1
      <4> DEFINE k == (n + 1) - i
      <4>1. /\ k \in 1 .. n /\ (n + 1) - k = i /\ k - 1 = (n + 1) - (i + 1) /\ k - 1 \in 0 .. n
            /\ i + 1 \in 1 .. n + 1
            BY <1>2, <3>2
      <4>2. K[i] = f[k] /\ K[i + 1] = f[k - 1]
            BY <4>1
      <4> HIDE DEF k, K
      <4>3. f[k] = step[k][f[k - 1]] /\ f[k - 1] \in S
            BY <2>4, <4>1 DEF Follows
      <4>4. f[k] = IF i \in drop THEN f[k - 1] ELSE <<i>> \o f[k - 1]
            BY <2>3, <4>1, <4>3
      <4> QED  BY <3>2, <4>2, <4>4
    <3> QED  BY <3>1, <3>2
  <2>6. K = Step(K)
        BY <2>5
  <2> QED  BY <2>6
<1> DEFINE K == CHOOSE K : K = Step(K)
<1>4. K = Step(K)
      BY <1>3
<1> HIDE DEF K
<1>5. /\ K[n + 1] = << >>
      /\ \A i \in 1 .. n : K[i] = IF i \in drop THEN K[i + 1] ELSE <<i>> \o K[i + 1]
  <2>1. n + 1 \in 1 .. n + 1
        BY <1>2
  <2>2. \A i \in 1 .. n : i \in 1 .. n + 1 /\ i # n + 1
        BY <1>2
  <2> QED  BY <1>4, <2>1, <2>2
<1> DEFINE P == {i \in 1 .. n + 1 : K[i] \in Seq(1 .. n)}
<1>6. n + 1 \in P
  <2>1. n + 1 \in 1 .. n + 1 /\ << >> \in Seq(1 .. n)
        BY <1>2, EmptySeq
  <2> QED  BY <1>5, <2>1
<1>7. \A i \in 1 .. n : i + 1 \in P => i \in P
  <2> SUFFICES ASSUME NEW i \in 1 .. n, i + 1 \in P PROVE i \in P
      OBVIOUS
  <2>1. <<i>> \o K[i + 1] \in Seq(1 .. n)
        BY Prepended
  <2>2. i \in 1 .. n + 1
        BY <1>2
  <2> QED  BY <1>5, <2>1, <2>2
<1>8. P = 1 .. n + 1
  <2>1. P \in SUBSET (1 .. n + 1)
        OBVIOUS
  <2> HIDE DEF P
  <2> QED  BY <1>2, <1>6, <1>7, <2>1, Downward
<1>9. K \in [1 .. n + 1 -> Seq(1 .. n)]
  <2>1. \A i \in 1 .. n + 1 : K[i] \in Seq(1 .. n)
        BY <1>8
  <2>2. K = [i \in 1 .. n + 1 |-> K[i]]
        BY <1>4
  <2> QED  BY <2>1, <2>2
<1>10. KeptFrom(n, drop, K)
       BY <1>5, <1>9 DEF KeptFrom
<1> QED  BY <1>1, <1>10 DEF K, n

\* What is kept is in order and ends with the last dimension, if that is kept.
Ordered(n, drop, i, s) ==
    /\ Len(s) <= (n + 1) - i
    /\ \A k \in 1 .. Len(s) : s[k] >= i /\ s[k] \notin drop
    /\ \A k \in 1 .. Len(s) - 1 : s[k] < s[k + 1]
    /\ i <= n => Len(s) >= 1 /\ s[Len(s)] = n
    /\ (\E j \in i .. n - 1 : j \notin drop) => Len(s) >= 2

LEMMA KeptOrdered ==
    ASSUME NEW n \in Nat \ {0}, NEW drop, NEW K, KeptFrom(n, drop, K), n \notin drop
    PROVE  K[1] \in Seq(1 .. n) /\ Ordered(n, drop, 1, K[1])
<1> DEFINE P == {i \in 1 .. n + 1 : Ordered(n, drop, i, K[i])}
<1>1. \A i \in 1 .. n + 1 : K[i] \in Seq(1 .. n)
      BY DEF KeptFrom
<1>2. n + 1 \in P
  <2>1. K[n + 1] = << >> /\ Len(<< >>) = 0
        BY DEF KeptFrom
  <2>2. n + 1 \in 1 .. n + 1 /\ ~ (n + 1 <= n) /\ (n + 1) .. (n - 1) = {} /\ 0 <= (n + 1) - (n + 1)
        /\ 1 .. 0 = {} /\ 1 .. 0 - 1 = {}
        OBVIOUS
  <2>3. Ordered(n, drop, n + 1, K[n + 1])
        BY <2>1, <2>2 DEF Ordered
  <2> QED  BY <2>2, <2>3
<1>3. \A i \in 1 .. n : i + 1 \in P => i \in P
  <2> SUFFICES ASSUME NEW i \in 1 .. n, Ordered(n, drop, i + 1, K[i + 1])
               PROVE  Ordered(n, drop, i, K[i])
      OBVIOUS
  <2> DEFINE rest == K[i + 1]
             l == Len(rest)
  <2>1. rest \in Seq(1 .. n) /\ l \in Nat /\ \A k \in 1 .. l : rest[k] \in 1 .. n
    <3>1. rest \in Seq(1 .. n)
          BY <1>1
    <3> HIDE DEF rest
    <3> QED  BY <3>1, LenProperties, ElementOfSeq
  <2>2. /\ l <= n - i
        /\ \A k \in 1 .. l : rest[k] >= i + 1 /\ rest[k] \notin drop
        /\ \A k \in 1 .. l - 1 : rest[k] < rest[k + 1]
        /\ i < n => l >= 1 /\ rest[l] = n
        /\ (\E j \in i + 1 .. n - 1 : j \notin drop) => l >= 2
    <3>1. (n + 1) - (i + 1) = n - i /\ (i + 1 <= n <=> i < n)
          OBVIOUS
    <3> QED  BY <3>1 DEF Ordered
  <2>3. CASE i \in drop
    <3>1. K[i] = rest /\ i # n
          BY <2>3 DEF KeptFrom
    <3>2. i < n /\ l <= (n + 1) - i /\ \A k \in 1 .. l : rest[k] >= i
      <4>1. l <= (n + 1) - i
            BY <2>1, <2>2
      <4>2. ASSUME NEW k \in 1 .. l PROVE rest[k] >= i
            BY <2>1, <2>2
      <4> QED  BY <3>1, <4>1, <4>2
    <3>3. (\E j \in i .. n - 1 : j \notin drop) => l >= 2
      <4>1. \A j \in i .. n - 1 : j \notin drop => j \in i + 1 .. n - 1
            BY <2>3
      <4> QED  BY <2>2, <4>1
    <3> HIDE DEF rest
    <3> QED  BY <2>2, <3>1, <3>2, <3>3 DEF Ordered
  <2>4. CASE i \notin drop
    <3> DEFINE all == <<i>> \o rest
    <3>1. K[i] = all
          BY <2>4 DEF KeptFrom
    <3> HIDE DEF rest
    <3>2. Len(all) = l + 1 /\ all[1] = i /\ \A k \in 1 .. l : all[k + 1] = rest[k]
          BY <2>1, Prepended
    <3> HIDE DEF all, l
    <3>3. \A k \in 1 .. l + 1 : k = 1 \/ (k - 1 \in 1 .. l /\ all[k] = rest[k - 1])
      <4> TAKE k \in 1 .. l + 1
      <4>1. CASE k = 1
            BY <4>1
      <4>2. CASE k # 1
        <5>1. k - 1 \in 1 .. l /\ (k - 1) + 1 = k
              BY <2>1, <4>2
        <5> QED  BY <3>2, <5>1
      <4> QED  BY <4>1, <4>2
    <3>4. l + 1 <= (n + 1) - i
          BY <2>1, <2>2
    <3>5. ASSUME NEW k \in 1 .. l + 1 PROVE all[k] >= i /\ all[k] \notin drop
      <4>1. CASE k = 1
            BY <2>4, <3>2, <4>1
      <4>2. CASE k # 1
        <5>1. k - 1 \in 1 .. l /\ all[k] = rest[k - 1]
              BY <3>3, <4>2
        <5>2. rest[k - 1] \in 1 .. n /\ rest[k - 1] >= i + 1 /\ rest[k - 1] \notin drop
              BY <2>1, <2>2, <5>1
        <5> QED  BY <5>1, <5>2
      <4> QED  BY <4>1, <4>2
    <3>6. ASSUME NEW k \in 1 .. (l + 1) - 1 PROVE all[k] < all[k + 1]
      <4>1. k \in 1 .. l /\ all[k + 1] = rest[k] /\ k \in 1 .. l + 1
            BY <2>1, <3>2
      <4>2. CASE k = 1
            BY <2>1, <2>2, <3>2, <4>1, <4>2
      <4>3. CASE k # 1
        <5>1. all[k] = rest[k - 1] /\ k - 1 \in 1 .. l - 1 /\ (k - 1) + 1 = k
              BY <2>1, <3>3, <4>1, <4>3
        <5> QED  BY <2>2, <4>1, <5>1
      <4> QED  BY <4>2, <4>3
    <3>7. l + 1 >= 1 /\ all[l + 1] = n
      <4>1. CASE i = n
            BY <2>1, <2>2, <3>2, <4>1
      <4>2. CASE i # n
        <5>1. i < n
              BY <4>2
        <5>2. l >= 1 /\ rest[l] = n /\ l \in 1 .. l
              BY <2>1, <2>2, <5>1
        <5> QED  BY <2>1, <3>2, <5>2
      <4> QED  BY <4>1, <4>2
    <3>8. (\E j \in i .. n - 1 : j \notin drop) => l + 1 >= 2
      <4>1. \A j \in i .. n - 1 : i < n
            OBVIOUS
      <4>2. i < n => l + 1 >= 2
            BY <2>1, <2>2
      <4> QED  BY <4>1, <4>2
    <3> QED  BY <3>1, <3>2, <3>4, <3>5, <3>6, <3>7, <3>8 DEF Ordered
  <2> QED  BY <2>3, <2>4
<1>4. P = 1 .. n + 1
  <2>1. P \in SUBSET (1 .. n + 1)
        OBVIOUS
  <2> HIDE DEF P
  <2> QED  BY <1>2, <1>3, <2>1, Downward
<1>5. 1 \in 1 .. n + 1
      OBVIOUS
<1> QED  BY <1>1, <1>4, <1>5

\* t has the elements of s at the m positions that are kept.
Selects(m, kept, s, t) == t = [k \in 1 .. m |-> s[kept[k]]]

ZeroIn(n, drop, f) == \A i \in 1 .. n : i \in drop => f[i] = 0

\* What is kept sums up to everything if nothing is dropped but zeros.
LEMMA KeptSum ==
    ASSUME NEW n \in Nat, NEW drop, NEW K, KeptFrom(n, drop, K),
           NEW f \in [1 .. n -> Nat], ZeroIn(n, drop, f),
           NEW part, Selects(Len(K[1]), K[1], f, part)
    PROVE  Sum(part) = Sum(f)
<1> DEFINE Part(i) == [k \in 1 .. Len(K[i]) |-> f[K[i][k]]]
<1>1. PICK h : SumsFrom(n, f, h)
      BY SumsFromExist
<1>2. \A i \in 1 .. n + 1 : K[i] \in Seq(1 .. n)
      BY DEF KeptFrom
<1>3. ASSUME NEW i \in 1 .. n + 1
      PROVE  Len(K[i]) \in Nat /\ Part(i) \in [1 .. Len(K[i]) -> Nat]
  <2>1. Len(K[i]) \in Nat /\ \A k \in 1 .. Len(K[i]) : K[i][k] \in 1 .. n
        BY <1>2, LenProperties, ElementOfSeq
  <2> QED  BY <2>1
<1> DEFINE P == {i \in 1 .. n + 1 : Sum(Part(i)) = h[i]}
<1>4. n + 1 \in P
  <2>1. K[n + 1] = << >> /\ Len(<< >>) = 0 /\ n + 1 \in 1 .. n + 1
        BY DEF KeptFrom
  <2> DEFINE g == [k \in 1 .. 0 + 1 |-> 0]
  <2>2. SumsFrom(0, Part(n + 1), g)
        BY DEF SumsFrom
  <2>3. Part(n + 1) \in [1 .. 0 -> Nat]
        BY <1>3, <2>1
  <2>4. g[1] = 0
        OBVIOUS
  <2> HIDE DEF Part, g
  <2>5. Sum(Part(n + 1)) = 0
        BY <2>2, <2>3, <2>4, SumIs
  <2> QED  BY <1>1, <2>1, <2>5 DEF SumsFrom
<1>5. \A i \in 1 .. n : i + 1 \in P => i \in P
  <2> SUFFICES ASSUME NEW i \in 1 .. n, Sum(Part(i + 1)) = h[i + 1] PROVE Sum(Part(i)) = h[i]
    <3> HIDE DEF Part
    <3> QED  OBVIOUS
  <2>1. h[i] = f[i] + h[i + 1] /\ f[i] \in Nat /\ h[i + 1] \in Nat /\ i \in 1 .. n + 1
        /\ i + 1 \in 1 .. n + 1
        BY <1>1 DEF SumsFrom
  <2>2. CASE i \in drop
    <3>1. K[i] = K[i + 1] /\ f[i] = 0
          BY <2>2 DEF KeptFrom, ZeroIn
    <3>2. Part(i) = Part(i + 1)
          BY <3>1
    <3> HIDE DEF Part
    <3> QED  BY <2>1, <3>1, <3>2
  <2>3. CASE i \notin drop
    <3> DEFINE rest == K[i + 1]
               l == Len(rest)
    <3>1. K[i] = <<i>> \o rest
          BY <2>3 DEF KeptFrom
    <3>2. Len(K[i]) = l + 1 /\ K[i][1] = i /\ \A k \in 1 .. l : K[i][k + 1] = rest[k]
      <4>1. rest \in Seq(1 .. n)
            BY <1>2, <2>1
      <4> HIDE DEF rest
      <4> QED  BY <3>1, <4>1, Prepended
    <3>3. l \in Nat /\ Part(i + 1) \in [1 .. l -> Nat] /\ Part(i) \in [1 .. l + 1 -> Nat]
          BY <1>3, <2>1, <3>2
    <3>4. Part(i)[1] = f[i]
      <4>1. 1 \in 1 .. l + 1
            BY <3>3
      <4> QED  BY <3>2, <4>1
    <3>5. \A k \in 1 .. l : Part(i)[k + 1] = Part(i + 1)[k]
      <4> TAKE k \in 1 .. l
      <4>1. k + 1 \in 1 .. l + 1
            BY <3>3
      <4> QED  BY <3>2, <4>1
    <3> HIDE DEF Part, l
    <3>6. Sum(Part(i)) = Part(i)[1] + Sum(Part(i + 1))
          BY <3>3, <3>5, SumPrepended
    <3> QED  BY <2>1, <3>4, <3>6
  <2> QED  BY <2>2, <2>3
<1>6. P = 1 .. n + 1
  <2>1. P \in SUBSET (1 .. n + 1)
        OBVIOUS
  <2> HIDE DEF P
  <2> QED  BY <1>4, <1>5, <2>1, Downward
<1>7. Sum(Part(1)) = h[1]
  <2>1. 1 \in 1 .. n + 1
        OBVIOUS
  <2> QED  BY <1>6, <2>1
<1>8. Sum(f) = h[1]
      BY <1>1, SumIs
<1>9. part = Part(1)
      BY DEF Selects
<1> QED  BY <1>7, <1>8, <1>9

-----------------------------------------------------------------------------
(***************************************************************************)
(* The cancelling of factors.                                              *)
(***************************************************************************)
\* The recursion finds a divisor of both numbers.
LEMMA GreatestCommonDivisor ==
    ASSUME NEW a \in Nat \ {0}, NEW b \in Nat
    PROVE  /\ Greatest_Common_Divisor(a, b) \in 1 .. a
           /\ a % Greatest_Common_Divisor(a, b) = 0
           /\ b % Greatest_Common_Divisor(a, b) = 0
<1> DEFINE Common == {d \in 1 .. a : a % d = 0 /\ b % d = 0}
           T == {a - d : d \in Common}
<1>1. 1 \in Common
      OBVIOUS
<1>2. T \in SUBSET Nat /\ T # {}
      BY <1>1
<1>3. PICK least \in T : \A y \in T : least <= y
  <2> HIDE DEF T
  <2> QED  BY <1>2, LeastNatural
<1>4. PICK d \in Common : least = a - d
      OBVIOUS
<1>5. \A e \in d + 1 .. a : a % e # 0 \/ b % e # 0
  <2> SUFFICES ASSUME NEW e \in d + 1 .. a, a % e = 0, b % e = 0 PROVE FALSE
      OBVIOUS
  <2>1. e \in Common /\ a - e \in T /\ d \in 1 .. a
        OBVIOUS
  <2>2. a - d <= a - e
        BY <1>3, <1>4, <2>1
  <2> QED  BY <2>1, <2>2
<1> HIDE DEF T
<1>6. \E g \in 1 .. a : /\ a % g = 0 /\ b % g = 0
                       /\ \A e \in g + 1 .. a : a % e /= 0 \/ b % e /= 0
      BY <1>4, <1>5
<1> QED  BY <1>6 DEF Greatest_Common_Divisor

CancelStates == [total : Nat \ {0}, channels : Nat \ {0}, exact : BOOLEAN]

\* An exact division has no rest.
LEMMA Quotient ==
    ASSUME NEW a \in Nat \ {0}, NEW d \in Nat \ {0}, a % d = 0
    PROVE  a \div d \in Nat \ {0} /\ a = d * (a \div d)
OBVIOUS

\* Factors in another order.
LEMMA Regroups ==
    ASSUME NEW a \in Nat, NEW b \in Nat, NEW c \in Nat, NEW d \in Nat
    PROVE  (a * b) * (c * d) = (a * c) * (b * d)
OBVIOUS

\* What is cancelled was a factor of the total and the channels.
LEMMA CancelIs ==
    ASSUME NEW state \in CancelStates, NEW factor \in Nat \ {0}
    PROVE  /\ Cancel(state, factor) \in CancelStates
           /\ Cancel(state, factor).exact =>
                 /\ state.exact
                 /\ state.total * state.channels
                       = factor * (Cancel(state, factor).total * Cancel(state, factor).channels)
<1> DEFINE first == Greatest_Common_Divisor(state.total, factor)
           rest == factor \div first
           second == Greatest_Common_Divisor(state.channels, rest)
           total == state.total \div first
           channels == state.channels \div second
<1>1. state.total \in Nat \ {0} /\ state.channels \in Nat \ {0} /\ state.exact \in BOOLEAN
      BY DEF CancelStates
<1>2. first \in Nat \ {0} /\ state.total % first = 0 /\ factor % first = 0
  <2>1. factor \in Nat
        OBVIOUS
  <2>2. first \in 1 .. state.total /\ state.total % first = 0 /\ factor % first = 0
        BY <1>1, <2>1, GreatestCommonDivisor
  <2> HIDE DEF first
  <2> QED  BY <1>1, <2>2
<1>3. rest \in Nat \ {0}
  <2> HIDE DEF first
  <2> QED  BY <1>2, Quotient
<1>4. second \in Nat \ {0} /\ state.channels % second = 0
  <2>1. rest \in Nat
        BY <1>3
  <2> HIDE DEF rest
  <2>2. second \in 1 .. state.channels /\ state.channels % second = 0
        BY <1>1, <2>1, GreatestCommonDivisor
  <2> HIDE DEF second
  <2> QED  BY <1>1, <2>2
<1>5. Cancel(state, factor) =
        [total |-> total, channels |-> channels, exact |-> state.exact /\ factor = first * second]
      BY DEF Cancel
<1> HIDE DEF first, rest, second
<1>6. total \in Nat \ {0} /\ state.total = first * total
      BY <1>1, <1>2, Quotient
<1>7. channels \in Nat \ {0} /\ state.channels = second * channels
      BY <1>1, <1>4, Quotient
<1> HIDE DEF total, channels
<1>8. state.total * state.channels = (first * second) * (total * channels)
      BY <1>2, <1>4, <1>6, <1>7, Regroups
<1>9. (state.exact /\ factor = first * second) \in BOOLEAN
      OBVIOUS
<1>10. Cancel(state, factor) \in CancelStates
       BY <1>5, <1>6, <1>7, <1>9 DEF CancelStates
<1> DEFINE c == Cancel(state, factor)
<1>11. c.total = total /\ c.channels = channels
       BY <1>5
<1>12. c.exact => state.exact /\ factor = first * second
  <2>1. c.exact = (state.exact /\ factor = first * second)
        BY <1>5
  <2> QED  BY <2>1
<1> HIDE DEF c
<1>13. c.exact => state.exact /\ state.total * state.channels = factor * (c.total * c.channels)
       BY <1>8, <1>11, <1>12
<1> QED  BY <1>10, <1>13 DEF c

\* One more extent multiplies the total.
LEMMA ProductAppended ==
    ASSUME NEW n \in Nat, NEW s \in [1 .. n -> Nat], NEW t \in [1 .. n + 1 -> Nat],
           \A i \in 1 .. n : t[i] = s[i]
    PROVE  Product(t) = Product(s) * t[n + 1]
<1>1. PICK h : ProductsFrom(n, s, h)
      BY ProductsFromExist
<1>2. /\ \A i \in 1 .. n + 1 : h[i] \in Nat
      /\ h[n + 1] = 1
      /\ \A i \in 1 .. n : h[i] = s[i] * h[i + 1]
      BY <1>1 DEF ProductsFrom
<1> DEFINE x == t[n + 1]
           g == [i \in 1 .. (n + 1) + 1 |-> IF i = (n + 1) + 1 THEN 1 ELSE h[i] * x]
<1>3. x \in Nat
      OBVIOUS
<1> HIDE DEF x
<1>4. \A i \in 1 .. n + 1 : h[i] * x \in Nat
      BY <1>2, <1>3, ProductIsNat
<1>5. g \in [1 .. (n + 1) + 1 -> Nat] /\ g[(n + 1) + 1] = 1
      BY <1>4
<1>6. \A i \in 1 .. n + 1 : g[i] = t[i] * g[i + 1]
  <2> TAKE i \in 1 .. n + 1
  <2>1. g[i] = h[i] * x
        OBVIOUS
  <2>2. CASE i = n + 1
    <3>1. g[i + 1] = 1 /\ t[i] = x
          BY <2>2 DEF x
    <3>2. h[i] * x = x /\ x * 1 = x
          BY <1>2, <1>3, <2>2
    <3> QED  BY <2>1, <3>1, <3>2
  <2>3. CASE i # n + 1
    <3>1. i \in 1 .. n /\ i + 1 \in 1 .. n + 1
          BY <2>3
    <3>2. g[i + 1] = h[i + 1] * x /\ t[i] = s[i]
          BY <3>1
    <3>3. (s[i] * h[i + 1]) * x = s[i] * (h[i + 1] * x)
      <4>1. s[i] \in Nat /\ h[i + 1] \in Nat
            BY <1>2, <3>1
      <4> HIDE DEF g
      <4> QED  BY <1>3, <4>1
    <3> HIDE DEF g
    <3> QED  BY <1>2, <2>1, <3>1, <3>2, <3>3
  <2> QED  BY <2>2, <2>3
<1>7. ProductsFrom(n + 1, t, g)
  <2> HIDE DEF g
  <2> QED  BY <1>5, <1>6 DEF ProductsFrom
<1>8. g[1] = h[1] * x
      OBVIOUS
<1> HIDE DEF g
<1>9. Product(t) = g[1] /\ Product(s) = h[1]
      BY <1>1, <1>7, ProductIs
<1> QED  BY <1>8, <1>9 DEF x

\* What Validate_ND_Reshape lets through has as many scalars as there are.
LEMMA ValidatedReshape ==
    ASSUME NEW h, NEW channels \in Nat \ {0}, NEW size \in Seq(Nat),
           h.channels \in Nat \ {0}, Total(h) \in Nat \ {0},
           Validate_ND_Reshape(h, channels, size)
    PROVE  Product(size) * channels = Total(h) * h.channels
<1> DEFINE n == Len(size)
           factors == Append(size, channels)
           S == CancelStates
           first == [total |-> Total(h), channels |-> h.channels, exact |-> TRUE]
           Chain(f) == [k \in 0 .. Len(factors) |->
                          IF k = 0 THEN first ELSE Cancel(f[k - 1], factors[k])]
           chain == CHOOSE f : f = Chain(f)
<1>1. n \in Nat /\ size \in [1 .. n -> Nat \ {0}]
  <2>1. n \in Nat /\ size \in [1 .. n -> Nat] /\ DOMAIN size = 1 .. n
        BY LenProperties
  <2>2. \A i \in DOMAIN size : size[i] > 0
        BY DEF Validate_ND_Reshape
  <2>3. \A i \in 1 .. n : size[i] \in Nat \ {0}
        BY <2>1, <2>2
  <2> HIDE DEF n
  <2> QED  BY <2>1, <2>3
<1>2. chain[Len(factors)] = [total |-> 1, channels |-> 1, exact |-> TRUE]
      BY DEF Validate_ND_Reshape
<1>3. Len(factors) = n + 1 /\ factors \in [1 .. n + 1 -> Nat \ {0}] /\ factors[n + 1] = channels
      /\ \A i \in 1 .. n : factors[i] = size[i]
  <2>1. size \in Seq(Nat \ {0})
        BY <1>1, SeqDef
  <2>2. /\ factors \in Seq(Nat \ {0})
        /\ Len(factors) = n + 1
        /\ \A i \in 1 .. n : factors[i] = size[i]
        /\ factors[n + 1] = channels
        BY <2>1, AppendProperties
  <2> HIDE DEF factors
  <2>3. factors \in [1 .. n + 1 -> Nat \ {0}]
        BY <2>2, LenProperties
  <2> QED  BY <2>2, <2>3
<1> HIDE DEF n, factors, S, first
<1>4. first \in S
      BY DEF S, first, CancelStates
<1>5. \E f : f = Chain(f) /\ f \in [0 .. n + 1 -> S]
  <2> DEFINE step == [k \in 1 .. n + 1 |-> [x \in S |-> Cancel(x, factors[k])]]
  <2>1. step \in [1 .. n + 1 -> [S -> S]]
    <3>1. \A k \in 1 .. n + 1, x \in S : Cancel(x, factors[k]) \in S
          BY <1>3, CancelIs DEF S
    <3> QED  BY <3>1
  <2>2. \A k \in 1 .. n + 1, x \in S : step[k][x] = Cancel(x, factors[k])
        OBVIOUS
  <2>3. n + 1 \in Nat
        BY <1>1
  <2> HIDE DEF step
  <2>4. PICK f : Follows(n + 1, S, step, first, f)
        BY <1>4, <2>1, <2>3, Recursion
  <2>5. f \in [0 .. n + 1 -> S] /\ f[0] = first
        BY <2>4 DEF Follows
  <2>6. \A k \in 1 .. n + 1 : f[k] = Cancel(f[k - 1], factors[k])
    <3> TAKE k \in 1 .. n + 1
    <3>1. f[k] = step[k][f[k - 1]]
          BY <2>4 DEF Follows
    <3>2. k - 1 \in 0 .. n + 1
          BY <1>1
    <3> QED  BY <2>2, <2>5, <3>1, <3>2
  <2>7. \A k \in 0 .. n + 1 : f[k] = IF k = 0 THEN first ELSE Cancel(f[k - 1], factors[k])
    <3>1. \A k \in 0 .. n + 1 : k # 0 => k \in 1 .. n + 1
          OBVIOUS
    <3> QED  BY <2>5, <2>6, <3>1
  <2> QED  BY <1>3, <2>5, <2>7
<1>6. chain = Chain(chain)
      BY <1>5
<1> HIDE DEF chain
<1>7. /\ chain[0] = first
      /\ \A k \in 1 .. n + 1 : chain[k] = Cancel(chain[k - 1], factors[k])
  <2>1. 0 \in 0 .. n + 1 /\ \A k \in 1 .. n + 1 : k \in 0 .. n + 1 /\ k # 0
        BY <1>1
  <2> QED  BY <1>3, <1>6, <2>1
<1>8. \A k \in 0 .. n + 1 : chain[k] \in S
  <2> DEFINE P == {k \in 0 .. n + 1 : chain[k] \in S}
  <2>1. 0 \in P
        BY <1>1, <1>4, <1>7
  <2>2. \A k \in 0 .. n + 1 : k \in P /\ k < n + 1 => k + 1 \in P
    <3> SUFFICES ASSUME NEW k \in 0 .. n + 1, k \in P, k < n + 1 PROVE k + 1 \in P
        OBVIOUS
    <3>1. k + 1 \in 1 .. n + 1 /\ (k + 1) - 1 = k /\ k + 1 \in 0 .. n + 1
          BY <1>1
    <3>2. chain[k + 1] = Cancel(chain[k], factors[k + 1])
          BY <1>7, <3>1
    <3>3. chain[k + 1] \in S
          BY <1>3, <3>1, <3>2, CancelIs DEF S
    <3> QED  BY <3>1, <3>3
  <2>3. P \in SUBSET (0 .. n + 1) /\ n + 1 \in Nat
        BY <1>1
  <2> HIDE DEF P
  <2>4. P = 0 .. n + 1
        BY <2>1, <2>2, <2>3, Upward
  <2> QED  BY <2>4 DEF P
<1>9. factors \in [1 .. n + 1 -> Nat] /\ n + 1 \in Nat
      BY <1>1, <1>3
<1>10. PICK g : ProductsFrom(n + 1, factors, g)
       BY <1>9, ProductsFromExist
<1>11. /\ \A i \in 1 .. (n + 1) + 1 : g[i] \in Nat
       /\ g[(n + 1) + 1] = 1
       /\ \A i \in 1 .. n + 1 : g[i] = factors[i] * g[i + 1]
       BY <1>10 DEF ProductsFrom
<1> DEFINE Left(i) == chain[i - 1].exact /\ chain[i - 1].total * chain[i - 1].channels = g[i]
           P == {i \in 1 .. (n + 1) + 1 : Left(i)}
<1>12. (n + 1) + 1 \in P
  <2>1. ((n + 1) + 1) - 1 = n + 1 /\ (n + 1) + 1 \in 1 .. (n + 1) + 1
        BY <1>1
  <2> QED  BY <1>2, <1>3, <1>11, <2>1
<1>13. \A i \in 1 .. n + 1 : i + 1 \in P => i \in P
  <2> SUFFICES ASSUME NEW i \in 1 .. n + 1, Left(i + 1) PROVE Left(i)
    <3>1. \A i \in 1 .. n + 1 : i \in 1 .. (n + 1) + 1
          BY <1>1
    <3> HIDE DEF Left
    <3> QED  BY <3>1
  <2>1. (i + 1) - 1 = i /\ i - 1 \in 0 .. n + 1 /\ i + 1 \in 1 .. (n + 1) + 1
        BY <1>1
  <2>2. chain[i].exact /\ chain[i].total * chain[i].channels = g[i + 1]
        BY <2>1
  <2>3. chain[i] = Cancel(chain[i - 1], factors[i]) /\ chain[i - 1] \in CancelStates
        /\ factors[i] \in Nat \ {0}
        BY <1>3, <1>7, <1>8, <2>1 DEF S
  <2>4. /\ chain[i - 1].exact
        /\ chain[i - 1].total * chain[i - 1].channels
              = factors[i] * (chain[i].total * chain[i].channels)
    <3> DEFINE before == chain[i - 1]
               after == Cancel(before, factors[i])
    <3>1. before \in CancelStates /\ after = chain[i]
          BY <2>3
    <3>2. after.exact => /\ before.exact
                         /\ before.total * before.channels
                               = factors[i] * (after.total * after.channels)
      <4> HIDE DEF before
      <4> QED  BY <2>3, <3>1, CancelIs
    <3> HIDE DEF after
    <3> QED  BY <2>2, <3>1, <3>2
  <2> QED  BY <1>11, <2>2, <2>4
<1>14. P = 1 .. (n + 1) + 1
  <2>1. P \in SUBSET (1 .. (n + 1) + 1)
        OBVIOUS
  <2> HIDE DEF P
  <2> QED  BY <1>9, <1>12, <1>13, <2>1, Downward
<1>15. Total(h) * h.channels = g[1]
  <2>1. 1 \in 1 .. (n + 1) + 1 /\ 1 - 1 = 0
        BY <1>1
  <2> QED  BY <1>7, <1>14, <2>1 DEF first
<1>16. Product(factors) = g[1]
       BY <1>9, <1>10, ProductIs
<1>17. Product(factors) = Product(size) * channels
  <2>1. size \in [1 .. n -> Nat]
        BY <1>1
  <2> QED  BY <1>1, <1>3, <1>9, <2>1, ProductAppended
<1> QED  BY <1>15, <1>16, <1>17

-----------------------------------------------------------------------------
(***************************************************************************)
(* Headers.                                                                *)
(***************************************************************************)
HeaderType ==
    [data : Nat, limit : Nat, size : Seq(Nat \ {0}), step : Seq(Nat \ {0}),
     depth : DOMAIN elemSize1, channels : Nat \ {0}, temporary : BOOLEAN]

\* A header fills its storage with nested dimensions of aligned elements, and
\* what its outermost dimension would take from the beginning of the storage is
\* there, which is where OpenCV constructs the header of a selected view.
Sound(h) ==
    /\ h \in HeaderType
    /\ Len(h.size) \in 2 .. NativeMaxDimensions /\ Len(h.size) <= MaxDimensions
    /\ Len(h.step) = Len(h.size) /\ Last(h.step) = Element_Size(h)
    /\ Nests(h.size, h.step)
    /\ Buffer <= h.data
    /\ h.data + LogicalEnd(h.size, h.step, Element_Size(h)) <= h.limit
    /\ h.size[1] * h.step[1] <= h.limit - Buffer
    /\ h.data % elemSize1[h.depth] = 0
    /\ \A i \in DOMAIN h.step : h.step[i] % elemSize1[h.depth] = 0

LEMMA ElementSizes ==
    /\ \A d \in DOMAIN elemSize1 : elemSize1[d] \in {1, 2, 4, 8}
    /\ \A d \in DOMAIN elemSize1, c \in Nat \ {0} :
          elemSize(d, c) \in Nat \ {0} /\ elemSize(d, c) % elemSize1[d] = 0
<1>1. \A d \in DOMAIN elemSize1 : elemSize1[d] \in {1, 2, 4, 8}
      BY DEF elemSize1
<1>2. ASSUME NEW d \in DOMAIN elemSize1, NEW c \in Nat \ {0}
      PROVE  elemSize(d, c) \in Nat \ {0} /\ elemSize(d, c) % elemSize1[d] = 0
  <2>1. elemSize1[d] \in Nat \ {0}
        BY <1>1
  <2>2. elemSize1[d] * c \in Nat \ {0}
        BY <2>1
  <2>3. (elemSize1[d] * c) % elemSize1[d] = 0
        BY <2>1, DividesItsMultiples
  <2> QED  BY <2>2, <2>3 DEF elemSize
<1> QED  BY <1>1, <1>2

LEMMA LenIs ==
    ASSUME NEW n \in Nat, NEW S, NEW s \in [1 .. n -> S]
    PROVE  s \in Seq(S) /\ Len(s) = n /\ DOMAIN s = 1 .. n
<1>1. s \in Seq(S) /\ DOMAIN s = 1 .. n
      BY SeqDef
<1>2. Len(s) \in Nat /\ DOMAIN s = 1 .. Len(s)
      BY <1>1, LenProperties
<1>3. Len(s) = n
  <2>1. 1 .. n = 1 .. Len(s)
        BY <1>1, <1>2
  <2>2. ~ (Len(s) < n)
    <3>1. n \in 1 .. n => n \in 1 .. Len(s)
          BY <2>1
    <3> QED  BY <1>2, <3>1
  <2>3. ~ (n < Len(s))
    <3>1. Len(s) \in 1 .. Len(s) => Len(s) \in 1 .. n
          BY <2>1
    <3> QED  BY <1>2, <3>1
  <2> QED  BY <1>2, <2>2, <2>3
<1> QED  BY <1>1, <1>3

\* The layout of a header.
LEMMA SoundLayout ==
    ASSUME NEW h, Sound(h)
    PROVE  LET n == Len(h.size)
               e == Element_Size(h)
           IN  /\ n \in Nat \ {0} /\ n >= 2 /\ n <= NativeMaxDimensions /\ n <= MaxDimensions
               /\ h.size \in [1 .. n -> Nat \ {0}] /\ h.step \in [1 .. n -> Nat \ {0}]
               /\ h.step \in [1 .. n -> Nat]
               /\ e \in Nat \ {0} /\ e = elemSize(h.depth, h.channels) /\ h.step[n] = e
               /\ Holds(n, h.size, h.step, e)
               /\ h.data \in Nat /\ h.limit \in Nat /\ h.depth \in DOMAIN elemSize1
               /\ h.channels \in Nat \ {0} /\ h.temporary \in BOOLEAN
<1> DEFINE n == Len(h.size)
           e == Element_Size(h)
<1>1. /\ h.size \in Seq(Nat \ {0}) /\ h.step \in Seq(Nat \ {0})
      /\ h.data \in Nat /\ h.limit \in Nat /\ h.depth \in DOMAIN elemSize1
      /\ h.channels \in Nat \ {0} /\ h.temporary \in BOOLEAN
      BY DEF Sound, HeaderType
<1>2. Len(h.step) = n /\ n \in 2 .. NativeMaxDimensions /\ n <= MaxDimensions
      BY DEF Sound
<1>3. n \in Nat \ {0} /\ n >= 2 /\ n <= NativeMaxDimensions
  <2>1. n \in Nat
        BY <1>1, LenProperties
  <2> HIDE DEF n
  <2> QED  BY <1>2, <2>1, NDViewsAssumption
<1>4. h.size \in [1 .. n -> Nat \ {0}] /\ h.step \in [1 .. n -> Nat \ {0}]
      BY <1>1, <1>2, LenProperties
<1>5. h.step \in [1 .. n -> Nat]
      BY <1>4
<1>6. e \in Nat \ {0} /\ e = elemSize(h.depth, h.channels)
      BY <1>1, ElementSizes DEF Element_Size
<1>7. h.step[n] = e
      BY <1>2 DEF Sound, Last
<1>8. Holds(n, h.size, h.step, e)
  <2>1. \A i \in 1 .. n - 1 : h.step[i] >= h.step[i + 1] * h.size[i + 1]
        BY DEF Sound, Nests
  <2> HIDE DEF n, e
  <2> QED  BY <1>6, <1>7, <2>1 DEF Holds
<1> QED  BY <1>1, <1>2, <1>3, <1>4, <1>5, <1>6, <1>7, <1>8

\* Steps in which aligned elements nest.
Carries(n, size, step, depth, channels) ==
    /\ step \in [1 .. n -> Nat \ {0}]
    /\ step[n] = elemSize(depth, channels)
    /\ \A i \in 1 .. n - 1 : step[i] >= step[i + 1] * size[i + 1]
    /\ \A i \in 1 .. n : step[i] % elemSize1[depth] = 0

\* What makes a header sound.
LEMMA MakesSound ==
    ASSUME NEW n \in Nat, 2 <= n, n <= NativeMaxDimensions, n <= MaxDimensions,
           NEW size \in [1 .. n -> Nat \ {0}], NEW step,
           NEW depth \in DOMAIN elemSize1, NEW channels \in Nat \ {0}, NEW temporary \in BOOLEAN,
           Carries(n, size, step, depth, channels),
           NEW data \in Nat, NEW limit \in Nat, Buffer <= data,
           data + LogicalEnd(size, step, elemSize(depth, channels)) <= limit,
           size[1] * step[1] <= limit - Buffer,
           data % elemSize1[depth] = 0,
           NEW h,
           h = [data |-> data, limit |-> limit, size |-> size, step |-> step, depth |-> depth,
                channels |-> channels, temporary |-> temporary]
    PROVE  Sound(h)
<1> USE DEF Carries
<1>1. size \in Seq(Nat \ {0}) /\ Len(size) = n
      BY LenIs
<1>2. step \in Seq(Nat \ {0}) /\ Len(step) = n /\ DOMAIN step = 1 .. n
  <2>1. step \in [1 .. n -> Nat \ {0}]
        OBVIOUS
  <2> QED  BY <2>1, LenIs
<1>3. h \in HeaderType
      BY <1>1, <1>2 DEF HeaderType
<1>4. /\ h.data = data /\ h.limit = limit /\ h.size = size /\ h.step = step
      /\ h.depth = depth /\ h.channels = channels
      OBVIOUS
<1>5. n \in 2 .. NativeMaxDimensions
      BY NDViewsAssumption
<1>6. Element_Size(h) = elemSize(depth, channels)
      BY <1>4 DEF Element_Size
<1>7. Last(h.step) = Element_Size(h) /\ Nests(h.size, h.step)
      BY <1>1, <1>2, <1>4, <1>6 DEF Last, Nests
<1> QED  BY <1>1, <1>2, <1>3, <1>4, <1>5, <1>6, <1>7 DEF Sound

\* Packed steps nest without gaps, and the outermost dimension takes what
\* there is.
IsPacked(n, size, step, b) ==
    /\ step \in [1 .. n -> Nat \ {0}]
    /\ step[n] = b
    /\ \A i \in 1 .. n - 1 : step[i] = step[i + 1] * size[i + 1]
    /\ size[1] * step[1] = b * Product(size)
    /\ \A d \in Nat \ {0} : b % d = 0 => \A i \in 1 .. n : step[i] % d = 0

\* What packed steps are.
LEMMA PackedLayout ==
    ASSUME NEW n \in Nat \ {0}, NEW size \in [1 .. n -> Nat \ {0}], NEW b \in Nat \ {0},
           NEW step, step = PackedSteps(size, b)
    PROVE  IsPacked(n, size, step, b)
<1>1. size \in [1 .. n -> Nat] /\ Len(size) = n /\ DOMAIN size = 1 .. n
      BY LenIs
<1>2. PICK g : ProductsFrom(n, size, g)
      BY <1>1, ProductsFromExist
<1>3. /\ g[n + 1] = 1
      /\ \A i \in 1 .. n : g[i] = size[i] * g[i + 1]
      BY <1>2 DEF ProductsFrom
<1>4. \A i \in 1 .. n + 1 : g[i] \in Nat \ {0}
      BY <1>2, ProductsPositive
<1>5. \A i \in 1 .. n : step[i] = b * g[i + 1]
  <2> TAKE i \in 1 .. n
  <2>1. i \in 0 .. n
        OBVIOUS
  <2>2. Product(SubSeq(size, i + 1, n)) = g[i + 1]
        BY <1>1, <1>2, <2>1, ProductOfRest
  <2> QED  BY <1>1, <2>2 DEF PackedSteps
<1>6. step \in [1 .. n -> Nat \ {0}]
  <2>1. step = [i \in 1 .. n |-> step[i]]
        BY <1>1 DEF PackedSteps
  <2>2. \A i \in 1 .. n : step[i] \in Nat \ {0}
    <3> TAKE i \in 1 .. n
    <3>1. g[i + 1] \in Nat \ {0}
          BY <1>4
    <3>2. \A x, y \in Nat \ {0} : x * y \in Nat \ {0}
          OBVIOUS
    <3> QED  BY <1>5, <3>1, <3>2
  <2> QED  BY <2>1, <2>2
<1>7. step[n] = b
      BY <1>3, <1>5
<1>8. ASSUME NEW i \in 1 .. n - 1 PROVE step[i] = step[i + 1] * size[i + 1]
  <2>1. i \in 1 .. n /\ i + 1 \in 1 .. n /\ (i + 1) + 1 \in 1 .. n + 1
        OBVIOUS
  <2>2. step[i] = b * g[i + 1] /\ step[i + 1] = b * g[(i + 1) + 1]
        /\ g[i + 1] = size[i + 1] * g[(i + 1) + 1]
        BY <1>3, <1>5, <2>1
  <2>3. size[i + 1] \in Nat /\ g[(i + 1) + 1] \in Nat
        BY <1>4, <2>1
  <2>4. \A x, y, z \in Nat : x * (y * z) = (x * z) * y
        OBVIOUS
  <2> QED  BY <2>2, <2>3, <2>4
<1>9. size[1] * step[1] = b * Product(size)
  <2>1. 1 \in 1 .. n /\ 1 + 1 \in 1 .. n + 1
        OBVIOUS
  <2>2. step[1] = b * g[1 + 1] /\ g[1] = size[1] * g[1 + 1] /\ size[1] \in Nat /\ g[1 + 1] \in Nat
        BY <1>1, <1>3, <1>4, <1>5, <2>1
  <2>3. Product(size) = g[1]
        BY <1>1, <1>2, ProductIs
  <2> QED  BY <2>2, <2>3, Commutes
<1>10. ASSUME NEW d \in Nat \ {0}, b % d = 0, NEW i \in 1 .. n PROVE step[i] % d = 0
  <2>1. g[i + 1] \in Nat
        BY <1>4
  <2>2. (b * g[i + 1]) % d = 0
        BY <1>10, <2>1, MultipleTimes
  <2> QED  BY <1>5, <2>2
<1> QED  BY <1>6, <1>7, <1>8, <1>9, <1>10 DEF IsPacked

LEMMA WithTemporary ==
    ASSUME NEW data, NEW limit, NEW size, NEW step, NEW depth, NEW channels, NEW t, NEW y
    PROVE  [[data |-> data, limit |-> limit, size |-> size, step |-> step, depth |-> depth,
             channels |-> channels, temporary |-> t] EXCEPT !.temporary = y]
             = [data |-> data, limit |-> limit, size |-> size, step |-> step, depth |-> depth,
                channels |-> channels, temporary |-> y]
OBVIOUS

LEMMA TemporaryIs ==
    ASSUME NEW data, NEW limit, NEW size, NEW step, NEW depth, NEW channels, NEW t
    PROVE  Temporary([data |-> data, limit |-> limit, size |-> size, step |-> step,
                      depth |-> depth, channels |-> channels, temporary |-> t])
             = [data |-> data, limit |-> limit, size |-> size, step |-> step,
                depth |-> depth, channels |-> channels, temporary |-> TRUE]
<1> DEFINE y == TRUE
           h == [data |-> data, limit |-> limit, size |-> size, step |-> step,
                 depth |-> depth, channels |-> channels, temporary |-> t]
<1>1. Temporary(h) = [h EXCEPT !.temporary = y]
      BY DEF Temporary
<1> HIDE DEF y
<1>2. [h EXCEPT !.temporary = y]
        = [data |-> data, limit |-> limit, size |-> size, step |-> step,
           depth |-> depth, channels |-> channels, temporary |-> y]
      BY WithTemporary
<1> QED  BY <1>1, <1>2 DEF y

\* A header that is constructed over the whole buffer.
LEMMA ConstructedSound ==
    ASSUME NEW n \in Nat, 2 <= n, n <= NativeMaxDimensions, n <= MaxDimensions,
           NEW size \in [1 .. n -> Nat \ {0}], NEW step,
           NEW depth \in DOMAIN elemSize1, NEW channels \in Nat \ {0},
           Carries(n, size, step, depth, channels),
           Aligned(depth), NEW h, h = Header(Buffer, size, step, depth, channels)
    PROVE  /\ Sound(h) /\ Sound(Temporary(h))
           /\ h.limit = Buffer + size[1] * step[1] /\ Temporary(h).limit = h.limit
           /\ h.size = size /\ Temporary(h).size = size
<1> DEFINE limit == Buffer + size[1] * step[1]
           b == elemSize(depth, channels)
           Made(t) == [data |-> Buffer, limit |-> limit, size |-> size, step |-> step,
                       depth |-> depth, channels |-> channels, temporary |-> t]
<1>a. /\ step \in [1 .. n -> Nat \ {0}] /\ step[n] = b
      /\ \A i \in 1 .. n - 1 : step[i] >= step[i + 1] * size[i + 1]
      BY DEF Carries
<1>1. Len(size) = n
      BY LenIs
<1>2. [step EXCEPT ![Len(size)] = b] = step
      BY <1>1, <1>a
<1>3. h = Made(FALSE) /\ Temporary(h) = Made(TRUE)
  <2>1. h = Made(FALSE)
        BY <1>2 DEF Header
  <2> HIDE DEF limit
  <2>2. Temporary(Made(FALSE)) = Made(TRUE)
        BY TemporaryIs
  <2> QED  BY <2>1, <2>2
<1>4. Buffer \in Nat
      BY NDViewsAssumption
<1>5. size[1] * step[1] \in Nat
  <2>1. 1 \in 1 .. n
        OBVIOUS
  <2>2. size[1] \in Nat /\ step[1] \in Nat
        BY <1>a, <2>1
  <2> QED  BY <2>2, ProductIsNat
<1>6. b \in Nat /\ LogicalEnd(size, step, b) <= size[1] * step[1]
  <2>1. b \in Nat
        BY ElementSizes
  <2>2. step \in [1 .. n -> Nat] /\ n \in Nat \ {0}
        BY <1>a
  <2> HIDE DEF b
  <2>3. Holds(n, size, step, b)
        BY <1>a, <2>1 DEF Holds
  <2> QED  BY <2>1, <2>2, <2>3, EndInside
<1>7. LogicalEnd(size, step, b) \in Nat
  <2>1. step \in [1 .. n -> Nat]
        BY <1>a
  <2>2. Spans(n, size, step) \in [1 .. n -> Nat]
        /\ LogicalEnd(size, step, b) = b + Sum(Spans(n, size, step))
        BY <2>1, SpansType
  <2>3. PICK f : SumsFrom(n, Spans(n, size, step), f)
        BY <2>2, SumsFromExist
  <2>4. Sum(Spans(n, size, step)) \in Nat
        BY <2>2, <2>3, SumIs
  <2> QED  BY <1>6, <2>2, <2>4
<1>8. limit \in Nat /\ limit - Buffer = size[1] * step[1] /\ Buffer <= Buffer
      /\ Buffer + LogicalEnd(size, step, b) <= limit
  <2> DEFINE end == LogicalEnd(size, step, b)
             whole == size[1] * step[1]
  <2>1. Buffer \in Nat /\ whole \in Nat /\ end \in Nat /\ end <= whole /\ limit = Buffer + whole
        BY <1>4, <1>5, <1>6, <1>7
  <2> HIDE DEF end, whole, limit, b
  <2>2. limit \in Nat /\ limit - Buffer = whole /\ Buffer <= Buffer /\ Buffer + end <= limit
        BY <2>1
  <2> QED  BY <2>2 DEF end, whole
<1>9. Buffer % elemSize1[depth] = 0
      BY DEF Aligned
<1>10. size[1] * step[1] <= limit - Buffer
       BY <1>5, <1>8
<1> HIDE DEF limit
<1>11. ASSUME NEW t \in BOOLEAN PROVE Sound(Made(t))
  <2> DEFINE m == Made(t)
  <2>1. m = [data |-> Buffer, limit |-> limit, size |-> size, step |-> step,
             depth |-> depth, channels |-> channels, temporary |-> t]
        OBVIOUS
  <2> HIDE DEF m
  <2>2. Sound(m)
        BY <1>4, <1>8, <1>9, <1>10, <2>1, MakesSound
  <2> QED  BY <2>2 DEF m
<1>12. Sound(h) /\ Sound(Temporary(h))
       BY <1>3, <1>11
<1>13. h.limit = limit /\ Temporary(h).limit = limit /\ h.size = size /\ Temporary(h).size = size
       BY <1>3
<1> QED  BY <1>12, <1>13 DEF limit

-----------------------------------------------------------------------------
(***************************************************************************)
(* What every operation preserves: the header of the client's matrix is    *)
(* sound, or there is none, and ends in the storage that exists, where     *)
(* every address ends that was computed for it.                            *)
(***************************************************************************)
Held ==
    \/ header = Default /\ storage = 0 /\ formed = 0
    \/ /\ Sound(header)
       /\ storage \in Nat /\ formed \in Nat
       /\ header.limit <= Buffer + storage /\ formed <= Buffer + storage
       /\ Buffer + storage <= MaxAddress

\* What the shim may refuse of what the Ada layer let through.
Agreed ==
    refused \in {"nothing", "capacity"} \/ (refused = "view" /\ header.temporary)

\* A call keeps what it was called for when it refuses.
LEMMA CallHolds ==
    ASSUME Held, NEW accepts \in BOOLEAN, NEW h, NEW bytes, NEW last, NEW what,
           Call(accepts, h, bytes, last, what),
           accepts => /\ Sound(h) /\ bytes \in Nat /\ last \in Nat
                      /\ h.limit <= Buffer + bytes /\ last <= Buffer + bytes
                      /\ Buffer + bytes <= MaxAddress,
           ~ accepts => Len(h.size) > NativeMaxDimensions \/ (what = "view" /\ header.temporary)
    PROVE  Held' /\ Agreed'
<1>1. CASE accepts
  <2>1. header' = h /\ storage' = bytes /\ formed' = last /\ refused' = "nothing"
        BY <1>1 DEF Call
  <2> QED  BY <1>1, <2>1 DEF Held, Agreed
<1>2. CASE ~ accepts
  <2>1. header' = header /\ storage' = storage /\ formed' = formed
        BY <1>2 DEF Call
  <2>2. refused' = IF Len(h.size) > NativeMaxDimensions THEN "capacity" ELSE what
        BY <1>2 DEF Call
  <2>3. Held'
        BY <2>1 DEF Held
  <2>4. Agreed'
        BY <1>2, <2>1, <2>2 DEF Agreed
  <2> QED  BY <2>3, <2>4
<1> QED  BY <1>1, <1>2

-----------------------------------------------------------------------------
(***************************************************************************)
(* The constructors: OpenCV's own storage, and packed and strided views of *)
(* a client's buffer.                                                      *)
(***************************************************************************)
LEMMA SizeOfHeader ==
    ASSUME NEW data, NEW size, NEW step, NEW depth, NEW channels
    PROVE  /\ Header(data, size, step, depth, channels).size = size
           /\ Temporary(Header(data, size, step, depth, channels)).size = size
BY DEF Header, Temporary

LEMMA PositiveShape ==
    ASSUME NEW size \in Seq(Nat), \A i \in DOMAIN size : size[i] > 0
    PROVE  Len(size) \in Nat /\ size \in [1 .. Len(size) -> Nat \ {0}] /\ DOMAIN size = 1 .. Len(size)
<1> DEFINE n == Len(size)
<1>1. n \in Nat /\ size \in [1 .. n -> Nat] /\ DOMAIN size = 1 .. n
      BY LenProperties
<1> HIDE DEF n
<1>2. \A i \in 1 .. n : size[i] \in Nat \ {0}
      BY <1>1
<1> QED  BY <1>1, <1>2 DEF n

PackedCarriesIn(n, size, depth, channels, b, step) ==
    /\ Carries(n, size, step, depth, channels)
    /\ size[1] * step[1] = b * Product(size)
    /\ b \in Nat \ {0} /\ Product(size) \in Nat

LEMMA PackedCarries ==
    ASSUME NEW n \in Nat \ {0}, NEW size \in [1 .. n -> Nat \ {0}],
           NEW depth \in DOMAIN elemSize1, NEW channels \in Nat \ {0},
           NEW b, b = elemSize(depth, channels), NEW step, step = PackedSteps(size, b)
    PROVE  PackedCarriesIn(n, size, depth, channels, b, step)
<1> DEFINE d == elemSize1[depth]
<1>1. b \in Nat \ {0} /\ b % d = 0 /\ d \in Nat \ {0}
      BY ElementSizes
<1> HIDE DEF d
<1>2. IsPacked(n, size, step, b)
      BY <1>1, PackedLayout
<1>3. /\ step \in [1 .. n -> Nat \ {0}] /\ step[n] = b
      /\ \A i \in 1 .. n - 1 : step[i] = step[i + 1] * size[i + 1]
      /\ size[1] * step[1] = b * Product(size)
      /\ \A e \in Nat \ {0} : b % e = 0 => \A i \in 1 .. n : step[i] % e = 0
      BY <1>2 DEF IsPacked
<1>4. \A i \in 1 .. n - 1 : step[i] >= step[i + 1] * size[i + 1]
  <2> TAKE i \in 1 .. n - 1
  <2>1. i \in 1 .. n /\ step[i] \in Nat
        BY <1>3
  <2> QED  BY <1>3, <2>1
<1>5. \A i \in 1 .. n : step[i] % elemSize1[depth] = 0
      BY <1>1, <1>3 DEF d
<1>6. Product(size) \in Nat
  <2>1. size \in [1 .. n -> Nat]
        OBVIOUS
  <2>2. PICK g : ProductsFrom(n, size, g)
        BY <2>1, ProductsFromExist
  <2> QED  BY <2>1, <2>2, ProductIs
<1> QED  BY <1>1, <1>3, <1>4, <1>5, <1>6 DEF Carries, PackedCarriesIn

\* The constructors differ in the steps.
Requested(n, size, depth, channels, step, bytes) ==
    /\ n \in Nat /\ 2 <= n /\ n <= MaxDimensions
    /\ size \in [1 .. n -> Nat \ {0}]
    /\ depth \in DOMAIN elemSize1 /\ channels \in Nat \ {0} /\ Aligned(depth)
    /\ Carries(n, size, step, depth, channels)
    /\ bytes \in Nat /\ size[1] * step[1] <= bytes /\ bytes <= MaxAddress - Buffer

LEMMA ConstructHolds ==
    ASSUME Held, NEW n, NEW size, NEW depth, NEW channels, NEW step, NEW bytes,
           Requested(n, size, depth, channels, step, bytes),
           NEW plain, plain = Header(Buffer, size, step, depth, channels),
           NEW h, h = plain \/ h = Temporary(plain),
           NEW last, last = h.limit, NEW what,
           NEW accepts \in BOOLEAN, accepts <=> n <= NativeMaxDimensions,
           Call(accepts, h, bytes, last, what)
    PROVE  Held' /\ Agreed'
<1> USE DEF Requested
<1>1. Buffer \in Nat /\ MaxAddress \in Nat /\ NativeMaxDimensions \in Nat
      BY NDViewsAssumption
<1>2. accepts => /\ Sound(h) /\ bytes \in Nat /\ last \in Nat
                 /\ h.limit <= Buffer + bytes /\ last <= Buffer + bytes
                 /\ Buffer + bytes <= MaxAddress
  <2> SUFFICES ASSUME n <= NativeMaxDimensions
               PROVE  /\ Sound(h) /\ bytes \in Nat /\ last \in Nat
                      /\ h.limit <= Buffer + bytes /\ last <= Buffer + bytes
                      /\ Buffer + bytes <= MaxAddress
      OBVIOUS
  <2> DEFINE whole == size[1] * step[1]
  <2>1. /\ Sound(plain) /\ Sound(Temporary(plain))
        /\ plain.limit = Buffer + whole /\ Temporary(plain).limit = plain.limit
        BY ConstructedSound
  <2>2. whole \in Nat
    <3>1. size[1] \in Nat /\ step[1] \in Nat
      <4>1. 1 \in 1 .. n
            OBVIOUS
      <4> QED  BY <4>1 DEF Carries
    <3> QED  BY <3>1, ProductIsNat
  <2>3. Sound(h) /\ h.limit = Buffer + whole /\ whole <= bytes
        BY <2>1
  <2> HIDE DEF whole
  <2> QED  BY <1>1, <2>2, <2>3
<1>3. ~ accepts => Len(h.size) > NativeMaxDimensions \/ (what = "view" /\ header.temporary)
  <2>1. h.size = size
        BY SizeOfHeader
  <2>2. Len(size) = n
        BY LenIs
  <2> QED  BY <1>1, <2>1, <2>2
<1> QED  BY <1>2, <1>3, CallHolds

\* OpenCV's storage is as large as the packed elements.
LEMMA CreateHolds ==
    ASSUME Held, NEW c \in Created, Create(c.size, c.depth, c.channels)
    PROVE  Held' /\ Agreed'
<1> DEFINE size == c.size
           depth == c.depth
           channels == c.channels
           n == Len(size)
           b == elemSize(depth, channels)
           step == PackedSteps(size, b)
           h == Header(Buffer, size, step, depth, channels)
           accepts == CapacityAccepted(size)
           bytes == h.limit - Buffer
           last == h.limit
           what == "construction"
<1>1. /\ size \in Seq(Nat) /\ depth \in DOMAIN elemSize1 /\ channels \in Nat \ {0}
      /\ Aligned(depth) /\ Product(size) * b <= MaxAddress - Buffer
      /\ Buffer \in Nat /\ MaxAddress \in Nat
      BY NDViewsAssumption
<1>2. /\ DimensionsAccepted(size) /\ \A i \in DOMAIN size : size[i] > 0
      /\ Call(accepts, h, bytes, last, what)
      BY DEF Create, Construct
<1>3. n \in Nat /\ size \in [1 .. n -> Nat \ {0}]
      BY <1>1, <1>2, PositiveShape
<1>4. n >= 2 /\ n <= MaxDimensions /\ n \in Nat \ {0}
      BY <1>2, <1>3, NDViewsAssumption DEF DimensionsAccepted
<1>5. accepts <=> n <= NativeMaxDimensions
      BY <1>4 DEF CapacityAccepted
<1>6. accepts \in BOOLEAN
      BY DEF CapacityAccepted
<1>7. h.limit = Buffer + size[1] * step[1] /\ b = elemSize(depth, channels)
      /\ step = PackedSteps(size, b) /\ last = h.limit
      /\ h = Header(Buffer, size, step, depth, channels) /\ bytes = h.limit - Buffer
      BY DEF Header
<1> HIDE DEF size, depth, channels, n, b, step, h, accepts, bytes, last, what
<1>8. /\ Carries(n, size, step, depth, channels)
      /\ size[1] * step[1] = b * Product(size)
      /\ b \in Nat \ {0} /\ Product(size) \in Nat
  <2>1. /\ n \in Nat \ {0} /\ size \in [1 .. n -> Nat \ {0}]
        /\ depth \in DOMAIN elemSize1 /\ channels \in Nat \ {0}
        /\ b = elemSize(depth, channels) /\ step = PackedSteps(size, b)
        BY <1>1, <1>3, <1>4, <1>7
  <2>2. PackedCarriesIn(n, size, depth, channels, b, step)
        BY <2>1, PackedCarries
  <2> QED  BY <2>2 DEF PackedCarriesIn
<1>9. bytes \in Nat /\ size[1] * step[1] <= bytes /\ bytes <= MaxAddress - Buffer
  <2> DEFINE whole == size[1] * step[1]
             other == Product(size) * b
  <2>1. whole = other
        BY <1>8
  <2>2. whole \in Nat
        BY <1>8, ProductIsNat
  <2>3. h.limit = Buffer + whole /\ other <= MaxAddress - Buffer
        BY <1>1, <1>7
  <2> HIDE DEF whole, other
  <2>4. bytes \in Nat /\ whole <= bytes /\ bytes <= MaxAddress - Buffer
        BY <1>1, <1>7, <2>1, <2>2, <2>3
  <2> QED  BY <2>4 DEF whole
<1>10. Requested(n, size, depth, channels, step, bytes)
      BY <1>1, <1>2, <1>3, <1>4, <1>5, <1>6, <1>7, <1>8, <1>9 DEF Requested
<1>11. /\ h = Header(Buffer, size, step, depth, channels) /\ last = h.limit
      /\ accepts \in BOOLEAN /\ (accepts <=> n <= NativeMaxDimensions)
      /\ Call(accepts, h, bytes, last, what)
      BY <1>1, <1>2, <1>3, <1>4, <1>5, <1>6, <1>7, <1>8, <1>9
<1> QED  BY <1>10, <1>11, ConstructHolds

\* The elements of rows and columns.
LEMMA ProductOfTwo ==
    ASSUME NEW s \in [1 .. 2 -> Nat]
    PROVE  Product(s) = s[1] * s[2]
<1>1. PICK h : ProductsFrom(2, s, h)
      BY ProductsFromExist
<1>2. h[3] = 1 /\ h[2] = s[2] * h[3] /\ h[1] = s[1] * h[2]
      BY <1>1 DEF ProductsFrom
<1>3. s[1] \in Nat /\ s[2] \in Nat
      OBVIOUS
<1>4. Product(s) = h[1]
      BY <1>1, ProductIs
<1> QED  BY <1>2, <1>3, <1>4

\* A shape that an external view may be asked for, and the buffer.
LEMMA ExternalCall ==
    ASSUME NEW c \in External, NEW length \in Lengths
    PROVE  /\ c.size \in Seq(Nat) /\ c.depth \in DOMAIN elemSize1 /\ c.channels \in Nat \ {0}
           /\ elemSize(c.depth, c.channels) \in Nat \ {0} /\ length \in Nat
           /\ length * elemSize(c.depth, c.channels) \in Nat
           /\ length * elemSize(c.depth, c.channels) <= MaxAddress - Buffer
           /\ length * elemSize(c.depth, c.channels) <= MaxAddress
           /\ Buffer \in Nat /\ MaxAddress \in Nat
<1>1. /\ c.size \in Seq(Nat) /\ c.depth \in DOMAIN elemSize1 /\ c.channels \in Nat \ {0}
      /\ length \in Nat /\ Buffer \in Nat /\ MaxAddress \in Nat
      /\ length * elemSize(c.depth, c.channels) <= MaxAddress - Buffer
      BY NDViewsAssumption
<1>2. elemSize(c.depth, c.channels) \in Nat \ {0}
      BY <1>1, ElementSizes
<1> DEFINE bytes == length * elemSize(c.depth, c.channels)
<1>3. bytes \in Nat
      BY <1>1, <1>2, ProductIsNat
<1>4. bytes <= MaxAddress - Buffer
      BY <1>1
<1> HIDE DEF bytes
<1>5. bytes <= MaxAddress
      BY <1>1, <1>3, <1>4
<1> QED  BY <1>1, <1>2, <1>3, <1>4, <1>5 DEF bytes

LEMMA CreatePacked2DHolds ==
    ASSUME Held, NEW c \in External, NEW length \in Lengths,
           Create_Packed_2D(c.size, c.depth, c.channels, length)
    PROVE  Held' /\ Agreed'
<1> DEFINE size == c.size
           depth == c.depth
           channels == c.channels
           b == elemSize(depth, channels)
           bytes == length * b
           step == PackedSteps(size, b)
           plain == Header(Buffer, size, step, depth, channels)
           h == Temporary(plain)
           accepts == mat_create_external_2d_accepts(size[1], size[2], depth, channels, bytes)
           last == h.limit
           what == "construction"
<1>1. /\ size \in Seq(Nat) /\ depth \in DOMAIN elemSize1 /\ channels \in Nat \ {0}
      /\ b \in Nat \ {0} /\ length \in Nat /\ bytes \in Nat /\ bytes <= MaxAddress - Buffer
      /\ bytes <= MaxAddress
      BY ExternalCall
<1>2. /\ Len(size) = 2 /\ size[1] > 0 /\ size[2] > 0 /\ length = size[1] * size[2]
      /\ Aligned(depth) /\ Call(accepts, h, bytes, last, what)
      BY DEF Create_Packed_2D, Create_Packed_2D_accepts, Construct
<1>3. size \in [1 .. 2 -> Nat \ {0}]
  <2>1. size \in [1 .. 2 -> Nat]
        BY <1>1, <1>2, LenProperties
  <2> HIDE DEF size
  <2>2. \A i \in 1 .. 2 : i = 1 \/ i = 2
        OBVIOUS
  <2>3. \A i \in 1 .. 2 : size[i] \in Nat \ {0}
        BY <1>2, <2>1, <2>2
  <2> QED  BY <2>1, <2>3
<1>4. accepts = TRUE
  <2>1. bytes = size[1] * size[2] * elemSize(depth, channels)
        BY <1>2
  <2> HIDE DEF bytes
  <2> QED  BY <1>1, <1>2, <2>1 DEF mat_create_external_2d_accepts, Fits
<1>5. b = elemSize(depth, channels) /\ step = PackedSteps(size, b) /\ last = h.limit
      /\ plain = Header(Buffer, size, step, depth, channels) /\ h = Temporary(plain)
      /\ bytes = length * b
      OBVIOUS
<1>6. 2 \in Nat \ {0} /\ 2 <= MaxDimensions /\ 2 <= NativeMaxDimensions
      BY NDViewsAssumption
<1> HIDE DEF size, depth, channels, b, step, plain, h, accepts, bytes, last, what
<1>7. PackedCarriesIn(2, size, depth, channels, b, step)
  <2>1. /\ 2 \in Nat \ {0} /\ size \in [1 .. 2 -> Nat \ {0}]
        /\ depth \in DOMAIN elemSize1 /\ channels \in Nat \ {0}
        /\ b = elemSize(depth, channels) /\ step = PackedSteps(size, b)
        BY <1>1, <1>3, <1>5
  <2> QED  BY <2>1, PackedCarries
<1>8. size[1] * step[1] <= bytes
  <2>1. size[1] * step[1] = b * Product(size)
        BY <1>7 DEF PackedCarriesIn
  <2>2. Product(size) = length
    <3>1. size \in [1 .. 2 -> Nat]
          BY <1>3
    <3> QED  BY <1>2, <3>1, ProductOfTwo
  <2> QED  BY <1>1, <1>5, <2>1, <2>2
<1>9. Requested(2, size, depth, channels, step, bytes)
      BY <1>1, <1>2, <1>3, <1>4, <1>5, <1>6, <1>7, <1>8 DEF PackedCarriesIn, Requested
<1>10. /\ plain = Header(Buffer, size, step, depth, channels) /\ h = Temporary(plain)
      /\ last = h.limit
      /\ accepts \in BOOLEAN /\ (accepts <=> 2 <= NativeMaxDimensions)
      /\ Call(accepts, h, bytes, last, what)
      BY <1>1, <1>2, <1>3, <1>4, <1>5, <1>6, <1>7, <1>8
<1> QED  BY <1>9, <1>10, ConstructHolds

LEMMA CreatePackedNDHolds ==
    ASSUME Held, NEW c \in External, NEW length \in Lengths,
           Create_Packed_ND(c.size, c.depth, c.channels, length)
    PROVE  Held' /\ Agreed'
<1> DEFINE size == c.size
           depth == c.depth
           channels == c.channels
           n == Len(size)
           b == elemSize(depth, channels)
           bytes == length * b
           step == PackedSteps(size, b)
           plain == Header(Buffer, size, step, depth, channels)
           h == Temporary(plain)
           accepts == mat_create_external_nd_accepts(size, depth, channels, bytes)
           last == h.limit
           what == "construction"
<1>1. /\ size \in Seq(Nat) /\ depth \in DOMAIN elemSize1 /\ channels \in Nat \ {0}
      /\ b \in Nat \ {0} /\ length \in Nat /\ bytes \in Nat /\ bytes <= MaxAddress - Buffer
      /\ bytes <= MaxAddress
      BY ExternalCall
<1>2. /\ DimensionsAccepted(size) /\ \A i \in DOMAIN size : size[i] > 0
      /\ length = Product(size)
      /\ Aligned(depth) /\ Call(accepts, h, bytes, last, what)
      BY DEF Create_Packed_ND, Create_Packed_ND_accepts, Packed_Element_Count_accepts, Construct
<1>3. n \in Nat /\ size \in [1 .. n -> Nat \ {0}]
      BY <1>1, <1>2, PositiveShape
<1>4. n >= 2 /\ n <= MaxDimensions /\ n \in Nat \ {0}
      BY <1>2, <1>3, NDViewsAssumption DEF DimensionsAccepted
<1>5. accepts \in BOOLEAN /\ (accepts <=> n <= NativeMaxDimensions)
  <2>1. bytes = Product(size) * elemSize(depth, channels)
        BY <1>2
  <2> HIDE DEF bytes, b
  <2>2. accepts <=> CapacityAccepted(size)
        BY <1>1, <1>2, <2>1 DEF mat_create_external_nd_accepts, Fits
  <2>3. accepts \in BOOLEAN
        BY DEF mat_create_external_nd_accepts
  <2> HIDE DEF accepts
  <2> QED  BY <1>4, <2>2, <2>3 DEF CapacityAccepted
<1>6. b = elemSize(depth, channels) /\ step = PackedSteps(size, b) /\ last = h.limit
      /\ plain = Header(Buffer, size, step, depth, channels) /\ h = Temporary(plain)
      /\ bytes = length * b
      OBVIOUS
<1> HIDE DEF size, depth, channels, n, b, step, plain, h, accepts, bytes, last, what
<1>7. PackedCarriesIn(n, size, depth, channels, b, step)
  <2>1. /\ n \in Nat \ {0} /\ size \in [1 .. n -> Nat \ {0}]
        /\ depth \in DOMAIN elemSize1 /\ channels \in Nat \ {0}
        /\ b = elemSize(depth, channels) /\ step = PackedSteps(size, b)
        BY <1>1, <1>3, <1>4, <1>6
  <2> QED  BY <2>1, PackedCarries
<1>8. size[1] * step[1] <= bytes
  <2>1. size[1] * step[1] = b * Product(size)
        BY <1>7 DEF PackedCarriesIn
  <2> QED  BY <1>1, <1>2, <1>6, <2>1
<1>9. Requested(n, size, depth, channels, step, bytes)
      BY <1>1, <1>2, <1>3, <1>4, <1>5, <1>6, <1>7, <1>8 DEF PackedCarriesIn, Requested
<1>10. /\ plain = Header(Buffer, size, step, depth, channels) /\ h = Temporary(plain)
      /\ last = h.limit
      /\ accepts \in BOOLEAN /\ (accepts <=> n <= NativeMaxDimensions)
      /\ Call(accepts, h, bytes, last, what)
      BY <1>1, <1>2, <1>3, <1>4, <1>5, <1>6, <1>7, <1>8
<1> QED  BY <1>9, <1>10, ConstructHolds

LEMMA Regroup ==
    ASSUME NEW a \in Nat, NEW b \in Nat, NEW c \in Nat
    PROVE  a * (b * c) = (a * b) * c /\ (a * b) * c = (a * c) * b
OBVIOUS

\* A multiple of a whole element keeps its alignment, and strides keep their
\* order as steps.
LEMMA Scaled ==
    ASSUME NEW d \in Nat \ {0}, NEW b \in Nat \ {0}, b % d = 0, NEW a \in Nat \ {0}
    PROVE  a * b \in Nat \ {0} /\ (a * b) % d = 0
<1>1. a * b = b * a /\ a * b \in Nat \ {0}
      OBVIOUS
<1>2. (b * a) % d = 0
      BY MultipleTimes
<1> QED  BY <1>1, <1>2

LEMMA CreateStrided2DHolds ==
    ASSUME Held, NEW c \in External, NEW length \in Lengths, NEW stride \in Strides,
           Create_Strided_2D(c.size, stride, c.depth, c.channels, length)
    PROVE  Held' /\ Agreed'
<1> DEFINE size == c.size
           depth == c.depth
           channels == c.channels
           b == elemSize(depth, channels)
           bytes == length * b
           step == <<stride * b, b>>
           plain == Header(Buffer, size, step, depth, channels)
           h == Temporary(plain)
           accepts == mat_create_external_2d_strided_accepts(
                          size[1], size[2], depth, channels, bytes, stride * b)
           last == h.limit
           what == "construction"
           d == elemSize1[depth]
<1>1. /\ size \in Seq(Nat) /\ depth \in DOMAIN elemSize1 /\ channels \in Nat \ {0}
      /\ b \in Nat \ {0} /\ length \in Nat /\ bytes \in Nat /\ bytes <= MaxAddress - Buffer
      /\ bytes <= MaxAddress
      BY ExternalCall
<1>2. /\ Len(size) = 2 /\ size[1] > 0 /\ size[2] > 0
      /\ stride >= size[2] /\ length >= size[1] * stride
      /\ Aligned(depth) /\ Call(accepts, h, bytes, last, what)
      BY DEF Create_Strided_2D, Create_Strided_2D_accepts, Construct
<1>3. size \in [1 .. 2 -> Nat \ {0}] /\ size[1] \in Nat \ {0} /\ size[2] \in Nat \ {0}
  <2>1. size \in [1 .. 2 -> Nat]
        BY <1>1, <1>2, LenProperties
  <2> HIDE DEF size
  <2>2. \A i \in 1 .. 2 : i = 1 \/ i = 2
        OBVIOUS
  <2>3. \A i \in 1 .. 2 : size[i] \in Nat \ {0}
        BY <1>2, <2>1, <2>2
  <2> QED  BY <2>1, <2>3
<1>4. b % d = 0 /\ d \in Nat \ {0}
  <2> HIDE DEF depth, channels
  <2>1. elemSize1[depth] \in {1, 2, 4, 8} /\ elemSize(depth, channels) % elemSize1[depth] = 0
        BY <1>1, ElementSizes
  <2> QED  BY <2>1
<1>5. stride \in Nat \ {0}
      BY NDViewsAssumption
<1>6. 2 \in Nat \ {0} /\ 2 <= MaxDimensions /\ 2 <= NativeMaxDimensions
      BY NDViewsAssumption
<1>7. b = elemSize(depth, channels) /\ d = elemSize1[depth] /\ step = <<stride * b, b>>
      /\ last = h.limit
      /\ plain = Header(Buffer, size, step, depth, channels) /\ h = Temporary(plain)
      /\ bytes = length * b
      /\ accepts = mat_create_external_2d_strided_accepts(
                       size[1], size[2], depth, channels, bytes, stride * b)
      OBVIOUS
<1> HIDE DEF size, depth, channels, b, d, step, plain, h, accepts, bytes, last, what
<1>8. stride * b \in Nat \ {0} /\ (stride * b) % d = 0
      BY <1>1, <1>4, <1>5, Scaled
<1>9. size[2] * b <= stride * b /\ size[1] * (stride * b) <= bytes
      /\ stride * b <= size[1] * (stride * b)
      /\ size[2] * b \in Nat /\ size[1] * (stride * b) \in Nat
  <2>1. size[2] * b <= stride * b
        BY <1>1, <1>2, <1>3, <1>5, Monotonic
  <2>2. size[1] * (stride * b) = (size[1] * stride) * b
        BY <1>1, <1>3, <1>5, Regroup
  <2>3. (size[1] * stride) * b <= length * b
    <3>1. size[1] * stride \in Nat /\ size[1] * stride <= length
          BY <1>1, <1>2, <1>3, <1>5, ProductIsNat
    <3> QED  BY <1>1, <3>1, Monotonic
  <2>4. stride * b <= size[1] * (stride * b) /\ size[1] * (stride * b) \in Nat
    <3> DEFINE x == stride * b
    <3>1. x \in Nat
          BY <1>8
    <3> HIDE DEF x
    <3>2. x <= size[1] * x /\ size[1] * x \in Nat
      <4>1. size[1] * x \in Nat
            BY <1>3, <3>1, ProductIsNat
      <4>2. x <= size[1] * x
            BY <1>3, <3>1, NoLess
      <4> QED  BY <4>1, <4>2
    <3> QED  BY <3>2 DEF x
  <2>5. size[2] * b \in Nat
        BY <1>1, <1>3, ProductIsNat
  <2> QED  BY <1>7, <2>1, <2>2, <2>3, <2>4, <2>5
<1>10. accepts = TRUE
  <2> DEFINE wide == stride * b
             row == size[2] * b
             whole == size[1] * wide
  <2>1. row <= wide /\ whole <= bytes /\ wide <= whole /\ row \in Nat /\ whole \in Nat
        /\ wide \in Nat /\ wide % d = 0 /\ Buffer \in Nat /\ MaxAddress \in Nat
        BY <1>8, <1>9, NDViewsAssumption
  <2>2. accepts = (/\ size[1] > 0 /\ size[2] > 0
                   /\ row <= MaxAddress
                   /\ wide >= row
                   /\ wide % d = 0
                   /\ whole <= MaxAddress
                   /\ bytes >= whole
                   /\ whole <= MaxAddress - Buffer
                   /\ Aligned(depth))
        BY <1>7 DEF mat_create_external_2d_strided_accepts, Fits
  <2> HIDE DEF row, wide, whole
  <2>3. row <= MaxAddress /\ wide >= row /\ whole <= MaxAddress /\ bytes >= whole
        /\ whole <= MaxAddress - Buffer
        BY <1>1, <2>1
  <2> QED  BY <1>2, <2>1, <2>2, <2>3
<1>11. Carries(2, size, step, depth, channels) /\ step[1] = stride * b
  <2> DEFINE wide == stride * b
  <2>1. wide \in Nat \ {0} /\ step = <<wide, b>>
        BY <1>7, <1>8
  <2>2. b * size[2] <= wide /\ wide % d = 0
    <3>1. b * size[2] = size[2] * b
          BY <1>1, <1>3
    <3> QED  BY <1>8, <1>9, <3>1
  <2> HIDE DEF wide
  <2>3. \A i \in 1 .. 2 : i = 1 \/ i = 2
        OBVIOUS
  <2>4. step \in [1 .. 2 -> Nat \ {0}] /\ step[1] = wide /\ step[2] = b
        BY <1>1, <2>1
  <2>5. \A i \in 1 .. 2 - 1 : step[i] >= step[i + 1] * size[i + 1]
    <3> TAKE i \in 1 .. 2 - 1
    <3>1. i = 1
          OBVIOUS
    <3>2. b * size[2] \in Nat
          BY <1>1, <1>3, ProductIsNat
    <3>3. step[1] >= step[1 + 1] * size[1 + 1]
          BY <2>1, <2>2, <2>4, <3>2
    <3> QED  BY <3>1, <3>3
  <2>6. \A i \in 1 .. 2 : step[i] % elemSize1[depth] = 0
        BY <1>4, <1>7, <2>2, <2>3, <2>4
  <2>7. step[2] = elemSize(depth, channels)
        BY <1>7, <2>4
  <2>8. Carries(2, size, step, depth, channels)
        BY <2>4, <2>5, <2>6, <2>7 DEF Carries
  <2> QED  BY <2>4, <2>8 DEF wide
<1>12. size[1] * step[1] <= bytes
       BY <1>9, <1>11
<1>13. plain = Header(Buffer, size, step, depth, channels) /\ h = Temporary(plain)
       /\ last = h.limit
       BY <1>7
<1>14. accepts \in BOOLEAN /\ (accepts <=> 2 <= NativeMaxDimensions)
       BY <1>6, <1>10
<1>15. Requested(2, size, depth, channels, step, bytes)
      BY <1>1, <1>2, <1>3, <1>6, <1>11, <1>12, <1>13, <1>14 DEF Requested
<1>16. /\ plain = Header(Buffer, size, step, depth, channels) /\ h = Temporary(plain)
      /\ last = h.limit
      /\ accepts \in BOOLEAN /\ (accepts <=> 2 <= NativeMaxDimensions)
      /\ Call(accepts, h, bytes, last, what)
      BY <1>1, <1>2, <1>3, <1>6, <1>11, <1>12, <1>13, <1>14
<1> QED  BY <1>15, <1>16, ConstructHolds

\* No step is longer than the outermost dimension.
LEMMA StepsInside ==
    ASSUME NEW n \in Nat \ {0}, NEW size \in [1 .. n -> Nat \ {0}],
           NEW step \in [1 .. n -> Nat], NEW e \in Nat, Holds(n, size, step, e),
           NEW i \in 1 .. n
    PROVE  step[i] <= size[1] * step[1] /\ size[1] * step[1] \in Nat
<1>1. 1 \in 1 .. n /\ size[1] \in Nat \ {0} /\ step[1] \in Nat
  <2>1. 1 \in 1 .. n
        OBVIOUS
  <2> QED  BY <2>1
<1>2. step[1] <= size[1] * step[1] /\ size[1] * step[1] \in Nat
      BY <1>1, NoLess, ProductIsNat
<1>3. CASE i = 1
      BY <1>2, <1>3
<1>4. CASE i # 1
  <2>1. 1 < i
        BY <1>4
  <2>2. step[i] * size[i] <= step[1]
        BY <1>1, <2>1, StepsDescend
  <2>3. step[i] \in Nat /\ size[i] \in Nat \ {0}
        OBVIOUS
  <2>4. step[i] <= step[i] * size[i] /\ step[i] * size[i] \in Nat
        BY <2>3, NoLess, ProductIsNat
  <2> DEFINE x == step[i] * size[i]
             y == size[1] * step[1]
             z == step[i]
             w == step[1]
  <2>5. z \in Nat /\ x \in Nat /\ w \in Nat /\ y \in Nat /\ z <= x /\ x <= w /\ w <= y
        BY <1>1, <1>2, <2>2, <2>3, <2>4
  <2> HIDE DEF x, y, z, w
  <2>6. z <= y
        BY <2>5
  <2> QED  BY <2>5, <2>6 DEF y, z
<1> QED  BY <1>3, <1>4

\* Strides that the shim's check of nesting lets through carry the dimensions.
LEMMA StridesCarry ==
    ASSUME NEW n \in Nat \ {0}, NEW size \in [1 .. n -> Nat \ {0}],
           NEW stride \in [1 .. n -> Nat \ {0}], stride[n] = 1,
           \A i \in 1 .. n - 1 : stride[i] >= stride[i + 1] * size[i + 1],
           NEW depth \in DOMAIN elemSize1, NEW channels \in Nat \ {0},
           NEW b, b = elemSize(depth, channels), NEW step, step = [i \in 1 .. n |-> stride[i] * b]
    PROVE  Carries(n, size, step, depth, channels)
<1>1. b \in Nat \ {0} /\ b % elemSize1[depth] = 0 /\ elemSize1[depth] \in Nat \ {0}
  <2>1. elemSize1[depth] \in {1, 2, 4, 8} /\ elemSize(depth, channels) % elemSize1[depth] = 0
        /\ elemSize(depth, channels) \in Nat \ {0}
        BY ElementSizes
  <2> QED  BY <2>1
<1>2. ASSUME NEW i \in 1 .. n
      PROVE  step[i] = stride[i] * b /\ step[i] \in Nat \ {0} /\ step[i] % elemSize1[depth] = 0
  <2>1. stride[i] \in Nat \ {0} /\ step[i] = stride[i] * b
        OBVIOUS
  <2>2. stride[i] * b \in Nat \ {0} /\ (stride[i] * b) % elemSize1[depth] = 0
    <3> DEFINE x == stride[i]
               d == elemSize1[depth]
    <3>1. x \in Nat \ {0} /\ d \in Nat \ {0} /\ b % d = 0
          BY <1>1, <2>1
    <3> HIDE DEF x, d
    <3>2. x * b \in Nat \ {0} /\ (x * b) % d = 0
          BY <1>1, <3>1, Scaled
    <3> QED  BY <3>2 DEF x, d
  <2> QED  BY <2>1, <2>2
<1>3. step \in [1 .. n -> Nat \ {0}]
      BY <1>2
<1>4. step[n] = elemSize(depth, channels)
  <2>1. n \in 1 .. n
        OBVIOUS
  <2>2. step[n] = 1 * b
        BY <1>2, <2>1
  <2> QED  BY <1>1, <2>2
<1>5. ASSUME NEW i \in 1 .. n - 1 PROVE step[i] >= step[i + 1] * size[i + 1]
  <2>1. i \in 1 .. n /\ i + 1 \in 1 .. n
        OBVIOUS
  <2> DEFINE x == stride[i]
             y == stride[i + 1]
             z == size[i + 1]
  <2>2. x \in Nat /\ y \in Nat /\ z \in Nat /\ y * z <= x
    <3>1. x \in Nat /\ y \in Nat /\ z \in Nat
          BY <2>1
    <3>2. y * z \in Nat
      <4> HIDE DEF y, z
      <4> QED  BY <3>1, ProductIsNat
    <3>3. x >= y * z
          OBVIOUS
    <3> HIDE DEF x, y, z
    <3> QED  BY <3>1, <3>2, <3>3
  <2>3. step[i] = x * b /\ step[i + 1] * size[i + 1] = (y * b) * z
        BY <1>2, <2>1
  <2> HIDE DEF x, y, z
  <2>4. (y * z) * b <= x * b
    <3>1. y * z \in Nat
          BY <2>2, ProductIsNat
    <3> QED  BY <1>1, <2>2, <3>1, Monotonic
  <2>5. (y * b) * z = (y * z) * b
        BY <1>1, <2>2, Regroup
  <2>6. (y * z) * b \in Nat /\ x * b \in Nat
    <3>1. y * z \in Nat
          BY <2>2, ProductIsNat
    <3> QED  BY <1>1, <2>2, <3>1, ProductIsNat
  <2> DEFINE left == (y * z) * b
             right == x * b
  <2>7. left \in Nat /\ right \in Nat /\ left <= right /\ step[i] = right
        /\ step[i + 1] * size[i + 1] = left
        BY <2>3, <2>4, <2>5, <2>6
  <2> HIDE DEF left, right
  <2> QED  BY <2>7
<1> QED  BY <1>2, <1>3, <1>4, <1>5 DEF Carries

LEMMA CreateStridedNDHolds ==
    ASSUME Held, NEW c \in External, NEW length \in Lengths,
           NEW stride \in [DOMAIN c.size -> Strides],
           Create_Strided_ND(c.size, stride, c.depth, c.channels, length)
    PROVE  Held' /\ Agreed'
<1> DEFINE size == c.size
           depth == c.depth
           channels == c.channels
           n == Len(size)
           b == elemSize(depth, channels)
           bytes == length * b
           step == [i \in DOMAIN stride |-> stride[i] * b]
           plain == Header(Buffer, size, step, depth, channels)
           h == Temporary(plain)
           accepts == mat_create_external_nd_strided_accepts(size, stride, depth, channels, bytes)
           last == h.limit
           what == "construction"
           required == size[1] * stride[1]
<1>1. /\ size \in Seq(Nat) /\ depth \in DOMAIN elemSize1 /\ channels \in Nat \ {0}
      /\ b \in Nat \ {0} /\ length \in Nat /\ bytes \in Nat /\ bytes <= MaxAddress - Buffer
      /\ bytes <= MaxAddress /\ Buffer \in Nat /\ MaxAddress \in Nat
      BY ExternalCall
<1>2. /\ DimensionsAccepted(size) /\ \A i \in DOMAIN size : size[i] > 0
      /\ Last(stride) = 1 /\ Len(stride) = Len(size)
      /\ Nests(size, stride) /\ LogicalEnd(size, stride, 1) <= required
      /\ length >= required
      /\ Aligned(depth) /\ Call(accepts, h, bytes, last, what)
      BY DEF Create_Strided_ND, Strided_Required_Capacity_accepts, Packed_Element_Count_accepts,
             Construct
<1>3. n \in Nat /\ size \in [1 .. n -> Nat \ {0}] /\ DOMAIN size = 1 .. n
      BY <1>1, <1>2, PositiveShape
<1>4. n >= 2 /\ n <= MaxDimensions /\ n \in Nat \ {0}
      BY <1>2, <1>3, NDViewsAssumption DEF DimensionsAccepted
<1>5. stride \in [1 .. n -> Nat \ {0}] /\ DOMAIN stride = 1 .. n /\ stride[n] = 1
      /\ \A i \in 1 .. n - 1 : stride[i] >= stride[i + 1] * size[i + 1]
  <2>1. Strides \subseteq Nat \ {0}
        BY NDViewsAssumption
  <2>2. stride \in [1 .. n -> Nat \ {0}] /\ DOMAIN stride = 1 .. n
        BY <1>3, <2>1
  <2> QED  BY <1>2, <2>2 DEF Last, Nests
<1>6. b = elemSize(depth, channels) /\ step = [i \in 1 .. n |-> stride[i] * b]
      /\ bytes = length * b /\ required = size[1] * stride[1] /\ n = Len(size)
      BY <1>5
<1>7. plain = Header(Buffer, size, step, depth, channels) /\ h = Temporary(plain)
      /\ last = h.limit
      OBVIOUS
<1>8. accepts = mat_create_external_nd_strided_accepts(size, stride, depth, channels, bytes)
      OBVIOUS
<1> HIDE DEF size, depth, channels, n, b, step, plain, h, accepts, bytes, last, what, required
<1>9. Carries(n, size, step, depth, channels)
      BY <1>1, <1>3, <1>4, <1>5, <1>6, StridesCarry
<1>10. required \in Nat /\ \A i \in 1 .. n : stride[i] <= required
  <2>1. stride \in [1 .. n -> Nat] /\ 1 \in Nat /\ Holds(n, size, stride, 1)
        BY <1>5 DEF Holds
  <2>2. \A i \in 1 .. n : stride[i] <= required /\ required \in Nat
        BY <1>3, <1>4, <1>6, <2>1, StepsInside
  <2>3. 1 \in 1 .. n
        BY <1>4
  <2> QED  BY <2>2, <2>3
<1>11. required * b <= bytes /\ required * b \in Nat
       /\ \A i \in 1 .. n : stride[i] * b \in Nat /\ stride[i] * b <= required * b
  <2>1. required * b <= length * b
        BY <1>1, <1>2, <1>10, Monotonic
  <2>2. required * b \in Nat
        BY <1>1, <1>10, ProductIsNat
  <2>3. ASSUME NEW i \in 1 .. n PROVE stride[i] * b \in Nat /\ stride[i] * b <= required * b
    <3> DEFINE x == stride[i]
    <3>1. x \in Nat /\ x <= required
          BY <1>5, <1>10
    <3> HIDE DEF x
    <3>2. x * b \in Nat /\ x * b <= required * b
          BY <1>1, <1>10, <3>1, ProductIsNat, Monotonic
    <3> QED  BY <3>2 DEF x
  <2>4. required * b <= bytes
        BY <1>6, <2>1
  <2> QED  BY <2>2, <2>3, <2>4
<1>12. size[1] * step[1] <= bytes
  <2>1. step[1] = stride[1] * b /\ size[1] \in Nat /\ stride[1] \in Nat
    <3>1. 1 \in 1 .. n
          BY <1>4
    <3> QED  BY <1>3, <1>5, <1>6, <3>1
  <2> DEFINE w == size[1]
             d == stride[1]
  <2>2. w \in Nat /\ d \in Nat /\ b \in Nat /\ required = w * d /\ step[1] = d * b
        BY <1>1, <1>6, <2>1
  <2> HIDE DEF w, d
  <2>3. w * (d * b) = (w * d) * b
        BY <2>2, Regroup
  <2> DEFINE y == required * b
  <2>4. w * step[1] = y
        BY <2>2, <2>3
  <2>5. y <= bytes
        BY <1>11
  <2> HIDE DEF y
  <2> QED  BY <2>4, <2>5 DEF w
<1>13. accepts \in BOOLEAN /\ (accepts <=> n <= NativeMaxDimensions)
  <2>1. \A i \in DOMAIN stride : Fits(stride[i] * b)
    <3> SUFFICES ASSUME NEW i \in 1 .. n PROVE Fits(stride[i] * b)
        BY <1>5
    <3> DEFINE x == stride[i] * b
               y == required * b
    <3>1. x \in Nat /\ y \in Nat /\ x <= y /\ y <= bytes
          BY <1>11
    <3> HIDE DEF x, y
    <3>2. Fits(x)
          BY <1>1, <3>1 DEF Fits
    <3> QED  BY <3>2 DEF x
  <2>2. Fits(required * b) /\ bytes >= required * b /\ required * b <= MaxAddress - Buffer
    <3> DEFINE y == required * b
    <3>1. y \in Nat /\ y <= bytes
          BY <1>11
    <3> HIDE DEF y
    <3>2. Fits(y) /\ bytes >= y /\ y <= MaxAddress - Buffer
          BY <1>1, <3>1 DEF Fits
    <3> QED  BY <3>2 DEF y
  <2>3. mat_create_external_nd_strided_arguments(size, stride) <=> n <= NativeMaxDimensions
    <3>1. \A i \in DOMAIN size : size[i] > 0 /\ stride[i] > 0
          BY <1>2, <1>3, <1>5
    <3>2. CapacityAccepted(size) <=> n <= NativeMaxDimensions
          BY <1>4, <1>6 DEF CapacityAccepted
    <3> QED  BY <1>2, <3>1, <3>2 DEF mat_create_external_nd_strided_arguments
  <2>4. accepts <=> mat_create_external_nd_strided_arguments(size, stride)
        BY <1>2, <1>6, <1>8, <2>1, <2>2 DEF mat_create_external_nd_strided_accepts
  <2>5. accepts \in BOOLEAN
        BY <1>8 DEF mat_create_external_nd_strided_accepts
  <2> QED  BY <2>3, <2>4, <2>5
<1>14. Requested(n, size, depth, channels, step, bytes)
      BY <1>1, <1>2, <1>3, <1>4, <1>7, <1>9, <1>12, <1>13 DEF Requested
<1>15. /\ plain = Header(Buffer, size, step, depth, channels) /\ h = Temporary(plain)
      /\ last = h.limit
      /\ accepts \in BOOLEAN /\ (accepts <=> n <= NativeMaxDimensions)
      /\ Call(accepts, h, bytes, last, what)
      BY <1>1, <1>2, <1>3, <1>4, <1>7, <1>9, <1>12, <1>13
<1> QED  BY <1>14, <1>15, ConstructHolds

-----------------------------------------------------------------------------
(***************************************************************************)
(* Views.                                                                  *)
(***************************************************************************)
LEMMA SumIsNat ==
    ASSUME NEW n \in Nat, NEW s \in [1 .. n -> Nat]
    PROVE  Sum(s) \in Nat
<1>1. PICK f : SumsFrom(n, s, f)
      BY SumsFromExist
<1> QED  BY <1>1, SumIs

Offsets(n, starts, step) == [i \in 1 .. n |-> starts[i] * step[i]]

LEMMA OffsetsType ==
    ASSUME NEW n \in Nat, NEW starts \in [1 .. n -> Nat], NEW step \in [1 .. n -> Nat]
    PROVE  Offsets(n, starts, step) \in [1 .. n -> Nat] /\ Sum(Offsets(n, starts, step)) \in Nat
<1>1. \A i \in 1 .. n : starts[i] * step[i] \in Nat
  <2> TAKE i \in 1 .. n
  <2>1. starts[i] \in Nat /\ step[i] \in Nat
        OBVIOUS
  <2> QED  BY <2>1, ProductIsNat
<1>2. Offsets(n, starts, step) \in [1 .. n -> Nat]
      BY <1>1 DEF Offsets
<1> QED  BY <1>2, SumIsNat

InMultiples(n, step, d) == \A i \in 1 .. n : step[i] % d = 0

LEMMA OffsetAligned ==
    ASSUME NEW n \in Nat, NEW starts \in [1 .. n -> Nat], NEW step \in [1 .. n -> Nat],
           NEW d \in Nat \ {0}, InMultiples(n, step, d)
    PROVE  Sum(Offsets(n, starts, step)) % d = 0
<1> DEFINE s == Offsets(n, starts, step)
<1>1. s \in [1 .. n -> Nat]
      BY OffsetsType
<1>2. ASSUME NEW i \in 1 .. n PROVE s[i] % d = 0
  <2>1. starts[i] \in Nat /\ step[i] \in Nat /\ step[i] % d = 0
        BY DEF InMultiples
  <2>2. (starts[i] * step[i]) % d = 0
        BY <2>1, MultipleTimes
  <2> QED  BY <2>2 DEF Offsets
<1> HIDE DEF s
<1>3. Sum(s) % d = 0
      BY <1>1, <1>2, SumOfMultiples
<1> QED  BY <1>3 DEF s

LEMMA OneDimension ==
    ASSUME NEW start \in Nat, NEW extent \in Nat \ {0}, NEW whole \in Nat \ {0},
           start + extent <= whole, NEW step \in Nat
    PROVE  start * step + (extent - 1) * step <= (whole - 1) * step
<1>1. start + (extent - 1) \in Nat /\ whole - 1 \in Nat /\ start + (extent - 1) <= whole - 1
      OBVIOUS
<1>2. (start + (extent - 1)) * step <= (whole - 1) * step
      BY <1>1, Monotonic
<1>3. \A a, b, c \in Nat : a * c + b * c = (a + b) * c
      OBVIOUS
<1>4. extent - 1 \in Nat
      OBVIOUS
<1>5. start * step + (extent - 1) * step = (start + (extent - 1)) * step
  <2> DEFINE x == extent - 1
  <2> HIDE DEF x
  <2>1. start * step + x * step = (start + x) * step
        BY <1>3, <1>4 DEF x
  <2> QED  BY <2>1 DEF x
<1> QED  BY <1>2, <1>5

LEMMA SumsType ==
    ASSUME NEW n \in Nat, NEW s \in [1 .. n -> Nat], NEW t \in [1 .. n -> Nat]
    PROVE  [i \in 1 .. n |-> s[i] + t[i]] \in [1 .. n -> Nat]
OBVIOUS

\* What a range of every dimension selects ends inside the matrix.
LEMMA SelectionInside ==
    ASSUME NEW n \in Nat, NEW size \in [1 .. n -> Nat \ {0}], NEW extent \in [1 .. n -> Nat \ {0}],
           NEW starts \in [1 .. n -> Nat], \A i \in 1 .. n : starts[i] + extent[i] <= size[i],
           NEW step \in [1 .. n -> Nat], NEW e \in Nat
    PROVE  /\ Sum(Offsets(n, starts, step)) + LogicalEnd(extent, step, e)
                 <= LogicalEnd(size, step, e)
           /\ Sum(Offsets(n, starts, step)) \in Nat
           /\ LogicalEnd(extent, step, e) \in Nat /\ LogicalEnd(size, step, e) \in Nat
<1> DEFINE off == Offsets(n, starts, step)
           inner == Spans(n, extent, step)
           outer == Spans(n, size, step)
           both == [i \in 1 .. n |-> off[i] + inner[i]]
<1>1. /\ off \in [1 .. n -> Nat] /\ inner \in [1 .. n -> Nat] /\ outer \in [1 .. n -> Nat]
      /\ LogicalEnd(extent, step, e) = e + Sum(inner)
      /\ LogicalEnd(size, step, e) = e + Sum(outer)
      BY OffsetsType, SpansType
<1>2. ASSUME NEW i \in 1 .. n PROVE off[i] + inner[i] <= outer[i]
  <2>1. off[i] = starts[i] * step[i] /\ inner[i] = (extent[i] - 1) * step[i]
        /\ outer[i] = (size[i] - 1) * step[i]
        BY DEF Offsets, Spans
  <2> DEFINE start == starts[i]
             ext == extent[i]
             all == size[i]
             st == step[i]
  <2>2. start \in Nat /\ ext \in Nat \ {0} /\ all \in Nat \ {0} /\ start + ext <= all /\ st \in Nat
        OBVIOUS
  <2> HIDE DEF start, ext, all, st
  <2>3. start * st + (ext - 1) * st <= (all - 1) * st
        BY <2>2, OneDimension
  <2> QED  BY <2>1, <2>3 DEF start, ext, all, st
<1> HIDE DEF off, inner, outer
<1>3. Sum(both) = Sum(off) + Sum(inner)
      BY <1>1, SumAdds
<1>4. both \in [1 .. n -> Nat] /\ \A i \in 1 .. n : both[i] <= outer[i]
  <2>1. \A i \in 1 .. n : both[i] = off[i] + inner[i]
        OBVIOUS
  <2>2. both \in [1 .. n -> Nat]
    <3>1. off \in [1 .. n -> Nat] /\ inner \in [1 .. n -> Nat]
          BY <1>1
    <3>2. [i \in 1 .. n |-> off[i] + inner[i]] \in [1 .. n -> Nat]
          BY <3>1, SumsType
    <3> QED  BY <3>2
  <2> HIDE DEF both
  <2> QED  BY <1>2, <2>1, <2>2
<1> HIDE DEF both
<1>5. Sum(both) <= Sum(outer)
      BY <1>1, <1>4, SumMonotone
<1>6. Sum(off) \in Nat /\ Sum(inner) \in Nat /\ Sum(outer) \in Nat
      BY <1>1, SumIsNat
<1> QED  BY <1>1, <1>3, <1>5, <1>6 DEF off

\* Shrinking keeps the steps.
LEMMA CarriesLess ==
    ASSUME NEW n \in Nat \ {0}, NEW size \in [1 .. n -> Nat \ {0}],
           NEW extent \in [1 .. n -> Nat \ {0}], \A i \in 1 .. n : extent[i] <= size[i],
           NEW step, NEW depth, NEW channels, Carries(n, size, step, depth, channels)
    PROVE  Carries(n, extent, step, depth, channels) /\ extent[1] * step[1] <= size[1] * step[1]
<1>1. step \in [1 .. n -> Nat \ {0}]
      BY DEF Carries
<1>2. ASSUME NEW i \in 1 .. n PROVE /\ extent[i] \in Nat /\ size[i] \in Nat /\ step[i] \in Nat
                                    /\ step[i] * extent[i] <= step[i] * size[i]
                                    /\ extent[i] * step[i] <= size[i] * step[i]
                                    /\ step[i] * extent[i] \in Nat /\ step[i] * size[i] \in Nat
  <2> DEFINE x == extent[i]
             y == size[i]
             z == step[i]
  <2>1. x \in Nat /\ y \in Nat /\ z \in Nat /\ x <= y
        BY <1>1
  <2> HIDE DEF x, y, z
  <2>2. z * x <= z * y /\ x * z <= y * z /\ z * x \in Nat /\ z * y \in Nat
        BY <2>1, Monotonic, ProductIsNat
  <2> QED  BY <2>1, <2>2 DEF x, y, z
<1>3. ASSUME NEW i \in 1 .. n - 1 PROVE step[i] >= step[i + 1] * extent[i + 1]
  <2>1. i \in 1 .. n /\ i + 1 \in 1 .. n
        OBVIOUS
  <2> DEFINE less == step[i + 1] * extent[i + 1]
             more == step[i + 1] * size[i + 1]
  <2>2. less \in Nat /\ more \in Nat /\ less <= more /\ step[i] >= more /\ step[i] \in Nat
        BY <1>2, <2>1 DEF Carries
  <2> HIDE DEF less, more
  <2>3. step[i] >= less
        BY <2>2
  <2> QED  BY <2>3 DEF less
<1>4. Carries(n, extent, step, depth, channels)
      BY <1>3 DEF Carries
<1>5. 1 \in 1 .. n
      OBVIOUS
<1> QED  BY <1>2, <1>4, <1>5

\* Headers with other fields.
Fields(data, limit, size, step, depth, channels, temporary) ==
    [data |-> data, limit |-> limit, size |-> size, step |-> step, depth |-> depth,
     channels |-> channels, temporary |-> temporary]

LEMMA FieldsOf ==
    ASSUME NEW h \in HeaderType
    PROVE  h = Fields(h.data, h.limit, h.size, h.step, h.depth, h.channels, h.temporary)
BY DEF HeaderType, Fields

Moves(h, data, size) == [h EXCEPT !.data = data, !.size = size]
Carried(h, data, limit) == [h EXCEPT !.data = data, !.limit = limit]
Refills(h, size, channels, step) == [h EXCEPT !.size = size, !.channels = channels, !.step = step]

LEMMA Moved ==
    ASSUME NEW data, NEW limit, NEW size, NEW step, NEW depth, NEW channels, NEW temporary,
           NEW h, h = Fields(data, limit, size, step, depth, channels, temporary), NEW x, NEW y
    PROVE  /\ Moves(h, x, y) = Fields(x, limit, y, step, depth, channels, temporary)
           /\ Carried(h, x, y) = Fields(x, y, size, step, depth, channels, temporary)
<1> DEFINE f == [h EXCEPT !.data = x]
<1>1. f = Fields(x, limit, size, step, depth, channels, temporary)
      BY DEF Fields
<1>2. Moves(h, x, y) = [f EXCEPT !.size = y] /\ Carried(h, x, y) = [f EXCEPT !.limit = y]
      BY DEF Moves, Carried
<1> HIDE DEF f
<1>3. [f EXCEPT !.size = y] = Fields(x, limit, y, step, depth, channels, temporary)
      BY <1>1 DEF Fields
<1>4. [f EXCEPT !.limit = y] = Fields(x, y, size, step, depth, channels, temporary)
      BY <1>1 DEF Fields
<1> QED  BY <1>2, <1>3, <1>4

LEMMA Reshaped ==
    ASSUME NEW data, NEW limit, NEW size, NEW step, NEW depth, NEW channels, NEW temporary,
           NEW h, h = Fields(data, limit, size, step, depth, channels, temporary),
           NEW x, NEW y, NEW z
    PROVE  Refills(h, x, y, z)
             = Fields(data, limit, x, z, depth, y, temporary)
<1> DEFINE f == [h EXCEPT !.size = x]
           g == [f EXCEPT !.channels = y]
<1>1. f = Fields(data, limit, x, step, depth, channels, temporary)
      BY DEF Fields
<1>2. Refills(h, x, y, z) = [g EXCEPT !.step = z]
      BY DEF Refills
<1> HIDE DEF f
<1>3. g = Fields(data, limit, x, step, depth, y, temporary)
      BY <1>1 DEF Fields
<1> HIDE DEF g
<1>4. [g EXCEPT !.step = z] = Fields(data, limit, x, z, depth, y, temporary)
      BY <1>3 DEF Fields
<1> QED  BY <1>2, <1>4

\* A layout a header of it is sound with.
Places(n, data, limit, size, step, depth, channels, temporary) ==
    /\ n \in Nat /\ 2 <= n /\ n <= NativeMaxDimensions /\ n <= MaxDimensions
    /\ size \in [1 .. n -> Nat \ {0}] /\ depth \in DOMAIN elemSize1
    /\ channels \in Nat \ {0} /\ temporary \in BOOLEAN
    /\ Carries(n, size, step, depth, channels)
    /\ data \in Nat /\ limit \in Nat /\ Buffer <= data
    /\ data + LogicalEnd(size, step, elemSize(depth, channels)) <= limit
    /\ size[1] * step[1] <= limit - Buffer
    /\ data % elemSize1[depth] = 0

LEMMA PlacesSound ==
    ASSUME NEW n, NEW data, NEW limit, NEW size, NEW step, NEW depth, NEW channels, NEW temporary,
           Places(n, data, limit, size, step, depth, channels, temporary)
    PROVE  Sound(Fields(data, limit, size, step, depth, channels, temporary))
<1> DEFINE made == Fields(data, limit, size, step, depth, channels, temporary)
<1>1. made = [data |-> data, limit |-> limit, size |-> size, step |-> step, depth |-> depth,
              channels |-> channels, temporary |-> temporary]
      BY DEF Fields
<1> HIDE DEF made
<1>2. Sound(made)
      BY <1>1, MakesSound DEF Places
<1> QED  BY <1>2 DEF made

\* What a range of every dimension leaves of a sound header.
LEMMA SlicedSound ==
    ASSUME NEW n, NEW size \in [1 .. n -> Nat \ {0}], NEW step, NEW depth \in DOMAIN elemSize1,
           NEW channels \in Nat \ {0}, NEW temporary \in BOOLEAN, NEW data \in Nat, NEW limit \in Nat,
           NEW h, h = Fields(data, limit, size, step, depth, channels, temporary), Sound(h),
           n = Len(size),
           NEW starts \in [1 .. n -> Nat], NEW extent \in [1 .. n -> Nat \ {0}],
           \A i \in 1 .. n : starts[i] + extent[i] <= size[i],
           NEW offset, offset = Sum(Offsets(n, starts, step)),
           NEW view, view = Fields(data + offset, limit, extent, step, depth, channels, temporary)
    PROVE  Sound(view)
<1> DEFINE e == elemSize(depth, channels)
           d == elemSize1[depth]
           end == LogicalEnd(size, step, e)
           inner == LogicalEnd(extent, step, e)
           whole == size[1] * step[1]
           part == extent[1] * step[1]
<1>1. h.size = size /\ h.step = step /\ h.depth = depth /\ h.channels = channels
      /\ h.data = data /\ h.limit = limit /\ h.temporary = temporary
      BY DEF Fields
<1>2. /\ n \in Nat \ {0} /\ 2 <= n /\ n <= NativeMaxDimensions /\ n <= MaxDimensions
      /\ step \in [1 .. n -> Nat \ {0}] /\ step \in [1 .. n -> Nat]
      /\ step[n] = elemSize(depth, channels)
      BY <1>1, SoundLayout
<1>3. e \in Nat \ {0} /\ d \in Nat \ {0}
  <2>1. elemSize1[depth] \in {1, 2, 4, 8} /\ elemSize(depth, channels) \in Nat \ {0}
        BY ElementSizes
  <2> QED  BY <2>1
<1>4. /\ Nests(size, step) /\ Buffer <= data /\ data + end <= limit
      /\ whole <= limit - Buffer /\ data % d = 0
      /\ \A i \in DOMAIN step : step[i] % d = 0
      BY <1>1 DEF Sound, Element_Size
<1>5. Carries(n, size, step, depth, channels)
      BY <1>2, <1>4 DEF Carries, Nests
<1>6. Carries(n, extent, step, depth, channels) /\ part <= whole
  <2>1. \A i \in 1 .. n : extent[i] <= size[i]
    <3> TAKE i \in 1 .. n
    <3>1. starts[i] \in Nat /\ extent[i] \in Nat /\ size[i] \in Nat /\ starts[i] + extent[i] <= size[i]
          OBVIOUS
    <3> QED  BY <3>1
  <2> QED  BY <1>2, <1>5, <2>1, CarriesLess
<1>7. offset + inner <= end /\ offset \in Nat /\ inner \in Nat /\ end \in Nat
  <2>1. n \in Nat /\ e \in Nat /\ step \in [1 .. n -> Nat]
        BY <1>2, <1>3
  <2> HIDE DEF e
  <2> QED  BY <2>1, SelectionInside
<1>8. offset % d = 0
  <2>1. n \in Nat /\ d \in Nat \ {0} /\ step \in [1 .. n -> Nat] /\ InMultiples(n, step, d)
        BY <1>2, <1>3, <1>4 DEF InMultiples
  <2> HIDE DEF d
  <2> QED  BY <2>1, OffsetAligned
<1>9. part \in Nat /\ whole \in Nat
  <2>1. 1 \in 1 .. n
        BY <1>2
  <2>2. size[1] \in Nat /\ extent[1] \in Nat /\ step[1] \in Nat
        BY <1>2, <2>1
  <2> QED  BY <2>2, ProductIsNat
<1>10. Buffer \in Nat
       BY NDViewsAssumption
<1> DEFINE moved == data + offset
<1>11. moved % d = 0
       BY <1>3, <1>4, <1>7, <1>8, MultiplesAdd
<1> HIDE DEF e, d, end, inner, whole, part
<1>12. moved \in Nat /\ Buffer <= moved /\ moved + inner <= limit /\ part <= limit - Buffer
       BY <1>4, <1>6, <1>7, <1>9, <1>10
<1>13. view = Fields(moved, limit, extent, step, depth, channels, temporary)
       OBVIOUS
<1> HIDE DEF moved
<1>14. Places(n, moved, limit, extent, step, depth, channels, temporary)
  <2>1. moved + LogicalEnd(extent, step, elemSize(depth, channels)) <= limit
        BY <1>12 DEF e, inner
  <2>2. extent[1] * step[1] <= limit - Buffer
        BY <1>12 DEF part
  <2>3. moved % elemSize1[depth] = 0
        BY <1>11 DEF d
  <2>4. n \in Nat /\ Carries(n, extent, step, depth, channels) /\ moved \in Nat /\ Buffer <= moved
        BY <1>2, <1>6, <1>12
  <2> QED  BY <1>2, <2>1, <2>2, <2>3, <2>4 DEF Places
<1>15. Sound(Fields(moved, limit, extent, step, depth, channels, temporary))
       BY <1>14, PlacesSound
<1> QED  BY <1>13, <1>15

\* A selection of a range in each dimension.
LEMMA SliceHolds ==
    ASSUME Held, NEW n, n = Len(header.size),
           NEW starts \in [1 .. n -> Nat], NEW stops \in [1 .. n -> Nat], Slice(starts, stops)
    PROVE  Held' /\ Agreed'
<1> DEFINE data == header.data
           limit == header.limit
           size == header.size
           step == header.step
           depth == header.depth
           channels == header.channels
           temporary == header.temporary
           h == header
           accepts == mat_slice_nd_accepts(h, starts, stops)
           view == mat_slice_nd(h, starts, stops)
           what == "view"
           extent == [i \in 1 .. n |-> stops[i] - starts[i]]
           offset == Sum(Offsets(n, starts, step))
           bytes == storage
           last == formed
<1>1. header # Default
  <2> SUFFICES ASSUME header = Default PROVE FALSE
      OBVIOUS
  <2>1. header.size = << >>
        BY DEF Default
  <2>2. Len(header.size) = 0
        BY <2>1
  <2> QED  BY <2>2 DEF Slice, Slice_accepts, Dimension_Count
<1>2. Sound(h) /\ bytes \in Nat /\ last \in Nat /\ limit <= Buffer + bytes
      /\ last <= Buffer + bytes /\ Buffer + bytes <= MaxAddress
      BY <1>1 DEF Held
<1>3. /\ n \in Nat \ {0} /\ 2 <= n /\ n <= NativeMaxDimensions /\ n <= MaxDimensions
      /\ size \in [1 .. n -> Nat \ {0}] /\ step \in [1 .. n -> Nat \ {0}]
      /\ data \in Nat /\ limit \in Nat /\ depth \in DOMAIN elemSize1
      /\ channels \in Nat \ {0} /\ temporary \in BOOLEAN
      BY <1>2, SoundLayout
<1>4. h = Fields(data, limit, size, step, depth, channels, temporary)
      BY <1>2, FieldsOf DEF Sound
<1>5. \A i \in 1 .. n : starts[i] < stops[i] /\ stops[i] <= size[i]
      BY DEF Slice, Slice_accepts, Extent
<1>6. Call(accepts, view, bytes, last, what)
      BY DEF Slice, View
<1>7. Len(starts) = n /\ DOMAIN starts = 1 .. n
      BY <1>3, LenIs
<1>8. extent \in [1 .. n -> Nat \ {0}] /\ \A i \in 1 .. n : starts[i] + extent[i] <= size[i]
  <2>1. ASSUME NEW i \in 1 .. n
        PROVE  stops[i] - starts[i] \in Nat \ {0} /\ starts[i] + (stops[i] - starts[i]) <= size[i]
    <3>1. starts[i] \in Nat /\ stops[i] \in Nat /\ size[i] \in Nat
          /\ starts[i] < stops[i] /\ stops[i] <= size[i]
          BY <1>3, <1>5
    <3> QED  BY <3>1
  <2> HIDE DEF size
  <2> QED  BY <2>1
<1>9. accepts \in BOOLEAN /\ (accepts <=> ~ h.temporary)
  <2>1. accepts \in BOOLEAN
        BY DEF mat_slice_nd_accepts
  <2>2. \A i \in 1 .. n : 0 <= starts[i] /\ starts[i] <= stops[i] /\ stops[i] <= h.size[i]
    <3> TAKE i \in 1 .. n
    <3>1. starts[i] \in Nat /\ stops[i] \in Nat /\ starts[i] < stops[i] /\ stops[i] <= size[i]
          BY <1>5
    <3> QED  BY <3>1
  <2> QED  BY <1>3, <1>7, <2>1, <2>2 DEF mat_slice_nd_accepts
<1>10. view = [h EXCEPT !.data = data + offset, !.size = extent]
       BY <1>7 DEF mat_slice_nd, Offsets
<1> HIDE DEF data, limit, size, step, depth, channels, temporary, extent, offset, view, accepts, what,
             bytes, last
<1>11. view = Fields(data + offset, limit, extent, step, depth, channels, temporary)
  <2> DEFINE moved == data + offset
             hh == header
  <2>1. view = Moves(hh, moved, extent)
        /\ hh = Fields(data, limit, size, step, depth, channels, temporary)
        BY <1>4, <1>10 DEF Moves
  <2> HIDE DEF moved, hh
  <2>2. view = Fields(moved, limit, extent, step, depth, channels, temporary)
        BY <2>1, Moved
  <2> QED  BY <2>2 DEF moved
<1>12. Sound(view)
  <2>1. n = Len(size) /\ offset = Sum(Offsets(n, starts, step))
        BY DEF size, offset
  <2> DEFINE hh == header
  <2>2. Sound(hh) /\ hh = Fields(data, limit, size, step, depth, channels, temporary)
        BY <1>2, <1>4
  <2> HIDE DEF hh
  <2> QED  BY <1>3, <1>8, <1>11, <2>1, <2>2, SlicedSound
<1>13. view.limit = limit
       BY <1>11 DEF Fields
<1>14. accepts => /\ Sound(view) /\ bytes \in Nat /\ last \in Nat
                  /\ view.limit <= Buffer + bytes /\ last <= Buffer + bytes
                  /\ Buffer + bytes <= MaxAddress
       BY <1>2, <1>12, <1>13
<1>15. ~ accepts => Len(view.size) > NativeMaxDimensions \/ (what = "view" /\ header.temporary)
       BY <1>9 DEF what
<1>16. accepts \in BOOLEAN
       BY <1>9
<1> QED  BY <1>6, <1>14, <1>15, <1>16, CallHolds

\* No dimension is longer than the outermost one.
LEMMA DimensionsInside ==
    ASSUME NEW n \in Nat \ {0}, NEW size \in [1 .. n -> Nat \ {0}],
           NEW step \in [1 .. n -> Nat], NEW e \in Nat, Holds(n, size, step, e),
           NEW i \in 1 .. n
    PROVE  size[i] * step[i] <= size[1] * step[1]
<1> DEFINE x == size[i] * step[i]
           y == step[1]
           z == size[1] * step[1]
<1>1. 1 \in 1 .. n
      OBVIOUS
<1>2. y \in Nat /\ y <= z /\ z \in Nat
      BY <1>1, StepsInside
<1>3. size[i] \in Nat /\ step[i] \in Nat
      OBVIOUS
<1>4. x = step[i] * size[i] /\ x \in Nat
      BY <1>3
<1>5. CASE i = 1
      BY <1>2, <1>5
<1>6. CASE i # 1
  <2>1. 1 < i
        BY <1>6
  <2>2. step[i] * size[i] <= y
        BY <1>1, <2>1, StepsDescend
  <2>3. x <= y
        BY <1>4, <2>2
  <2> HIDE DEF x, y, z
  <2>4. x <= z
        BY <1>2, <1>4, <2>3
  <2> QED  BY <2>4 DEF x, z
<1> QED  BY <1>5, <1>6

-----------------------------------------------------------------------------
(***************************************************************************)
(* Selected views: dimensions of one index that are dropped.               *)
(***************************************************************************)
LEMMA CarriesHolds ==
    ASSUME NEW n \in Nat \ {0}, NEW size, NEW step, NEW depth, NEW channels,
           Carries(n, size, step, depth, channels),
           NEW e \in Nat, e = elemSize(depth, channels)
    PROVE  Holds(n, size, step, e) /\ step \in [1 .. n -> Nat \ {0}] /\ step \in [1 .. n -> Nat]
<1>1. /\ step \in [1 .. n -> Nat \ {0}] /\ step[n] = e
      /\ \A i \in 1 .. n - 1 : step[i] >= step[i + 1] * size[i + 1]
      BY DEF Carries
<1>2. step \in [1 .. n -> Nat]
      BY <1>1
<1>3. e <= step[n]
      BY <1>1
<1> QED  BY <1>1, <1>2, <1>3 DEF Holds

\* The m dimensions that are kept.
Chosen(n, kept, m) ==
    /\ m \in Nat /\ 2 <= m /\ m <= n
    /\ kept \in [1 .. m -> 1 .. n] /\ kept[m] = n
    /\ \A k \in 1 .. m - 1 : kept[k] < kept[k + 1]

\* Their extents and steps.
Selected(m, kept, extent, step, left, by) ==
    Selects(m, kept, extent, left) /\ Selects(m, kept, step, by)

\* The steps of the dimensions that are kept still nest.
LEMMA SelectedCarries ==
    ASSUME NEW n \in Nat \ {0}, NEW size \in [1 .. n -> Nat \ {0}],
           NEW extent \in [1 .. n -> Nat \ {0}], \A i \in 1 .. n : extent[i] <= size[i],
           NEW depth, NEW channels, NEW step, Carries(n, size, step, depth, channels),
           NEW e \in Nat, e = elemSize(depth, channels),
           NEW m, NEW kept, Chosen(n, kept, m),
           NEW left, NEW by, Selected(m, kept, extent, step, left, by)
    PROVE  /\ left \in [1 .. m -> Nat \ {0}]
           /\ Carries(m, left, by, depth, channels)
           /\ left[1] * by[1] <= size[1] * step[1]
           /\ left[1] * by[1] \in Nat /\ size[1] * step[1] \in Nat
<1>1. Holds(n, size, step, e) /\ step \in [1 .. n -> Nat \ {0}] /\ step \in [1 .. n -> Nat]
      BY CarriesHolds
<1>2. m \in Nat \ {0}
      BY DEF Chosen
<1>3. kept \in [1 .. m -> 1 .. n]
      BY DEF Chosen
<1>4. ASSUME NEW k \in 1 .. m
      PROVE  /\ kept[k] \in 1 .. n /\ left[k] = extent[kept[k]] /\ by[k] = step[kept[k]]
             /\ left[k] \in Nat \ {0} /\ by[k] \in Nat \ {0} /\ size[kept[k]] \in Nat \ {0}
             /\ left[k] <= size[kept[k]]
      BY <1>1, <1>3 DEF Selected, Selects
<1>5. left \in [1 .. m -> Nat \ {0}] /\ by \in [1 .. m -> Nat \ {0}]
      BY <1>1, <1>3 DEF Selected, Selects
<1>6. by[m] = elemSize(depth, channels)
  <2>1. m \in 1 .. m /\ kept[m] = n
        BY <1>2 DEF Chosen
  <2>2. by[m] = step[n]
        BY <1>4, <2>1
  <2> QED  BY <2>2 DEF Carries
<1>7. ASSUME NEW k \in 1 .. m - 1 PROVE by[k] >= by[k + 1] * left[k + 1]
  <2>1. k \in 1 .. m /\ k + 1 \in 1 .. m
        BY <1>2
  <2> DEFINE i == kept[k]
             j == kept[k + 1]
             x == step[j]
             y == size[j]
             z == extent[j]
  <2>2. i \in 1 .. n /\ j \in 1 .. n /\ i < j
        BY <1>3, <2>1 DEF Chosen
  <2>3. x \in Nat /\ y \in Nat /\ z \in Nat /\ z <= y /\ by[k] = step[i] /\ by[k + 1] = x
        /\ left[k + 1] = z /\ step[i] \in Nat
        BY <1>1, <1>4, <2>1, <2>2
  <2> HIDE DEF i, j
  <2>4. x * y <= step[i]
        BY <1>1, <2>2, StepsDescend
  <2> HIDE DEF x, y, z
  <2>5. x * z <= x * y /\ x * z \in Nat /\ x * y \in Nat
        BY <2>3, Monotonic, ProductIsNat
  <2> DEFINE xz == x * z
             xy == x * y
             w == by[k]
             product == by[k + 1] * left[k + 1]
  <2>6. xz <= xy /\ xz \in Nat /\ xy \in Nat /\ xy <= w /\ w \in Nat
        BY <2>3, <2>4, <2>5
  <2>7. product = xz
        BY <2>3
  <2> HIDE DEF xz, xy, w, product
  <2>8. w >= product
        BY <2>6, <2>7
  <2> QED  BY <2>8 DEF w, product
<1>8. ASSUME NEW k \in 1 .. m PROVE by[k] % elemSize1[depth] = 0
  <2>1. \A i \in 1 .. n : step[i] % elemSize1[depth] = 0
        BY DEF Carries
  <2> QED  BY <1>4, <2>1
<1>9. Carries(m, left, by, depth, channels)
      BY <1>5, <1>6, <1>7, <1>8 DEF Carries
<1>10. /\ left[1] * by[1] <= size[1] * step[1]
       /\ left[1] * by[1] \in Nat /\ size[1] * step[1] \in Nat
  <2> DEFINE i == kept[1]
             x == left[1]
             y == size[i]
             z == step[i]
             whole == size[1] * step[1]
  <2>1. 1 \in 1 .. m /\ 1 \in 1 .. n
        BY <1>2
  <2>2. i \in 1 .. n /\ x \in Nat /\ y \in Nat /\ z \in Nat /\ x <= y /\ by[1] = z
        BY <1>1, <1>4, <2>1
  <2>3. size[1] \in Nat /\ step[1] \in Nat
        BY <1>1, <2>1
  <2> HIDE DEF i
  <2>4. y * z <= whole
        BY <1>1, <2>2, DimensionsInside
  <2>5. whole \in Nat
        BY <2>3, ProductIsNat
  <2> HIDE DEF x, y, z, whole
  <2>6. x * z <= y * z /\ x * z \in Nat /\ y * z \in Nat
        BY <2>2, Monotonic, ProductIsNat
  <2> DEFINE xz == x * z
             yz == y * z
  <2>7. xz <= yz /\ xz \in Nat /\ yz \in Nat /\ yz <= whole
        BY <2>4, <2>6
  <2>8. left[1] * by[1] = xz
        BY <2>2 DEF x
  <2> HIDE DEF xz, yz
  <2>9. xz <= whole
        BY <2>5, <2>7
  <2> QED  BY <2>5, <2>7, <2>8, <2>9 DEF whole
<1> QED  BY <1>5, <1>9, <1>10

IsKept(n, drop, kept, m) == \E K : KeptFrom(n, drop, K) /\ kept = K[1] /\ m = Len(kept)

Vanishes(n, drop, f) == f \in [1 .. n -> Nat] /\ ZeroIn(n, drop, f)

\* The dropped positions of a sum add nothing if they hold zeros.
LEMMA SelectedSum ==
    ASSUME NEW n \in Nat, NEW drop, NEW kept, NEW m, IsKept(n, drop, kept, m),
           NEW f, Vanishes(n, drop, f),
           NEW part, Selects(m, kept, f, part)
    PROVE  Sum(part) = Sum(f)
<1>1. PICK K : KeptFrom(n, drop, K) /\ kept = K[1] /\ m = Len(kept)
      BY DEF IsKept
<1>2. KeptFrom(n, drop, K) /\ Selects(Len(K[1]), K[1], f, part)
      /\ f \in [1 .. n -> Nat] /\ ZeroIn(n, drop, f)
      BY <1>1 DEF Vanishes
<1> QED  BY <1>2, KeptSum

OneIn(n, drop, extent) == \A i \in 1 .. n : i \in drop => extent[i] = 1

Selecting(n, drop, kept, m, extent, step, left, by) ==
    /\ n \in Nat /\ m \in Nat /\ IsKept(n, drop, kept, m) /\ kept \in [1 .. m -> 1 .. n]
    /\ extent \in [1 .. n -> Nat \ {0}] /\ OneIn(n, drop, extent)
    /\ step \in [1 .. n -> Nat] /\ Selected(m, kept, extent, step, left, by)

\* Dropping dimensions of one index does not change where the elements end.
LEMMA SelectedEnd ==
    ASSUME NEW n, NEW drop, NEW kept, NEW m, NEW extent, NEW step, NEW left, NEW by, NEW e,
           Selecting(n, drop, kept, m, extent, step, left, by)
    PROVE  LogicalEnd(left, by, e) = LogicalEnd(extent, step, e)
<1> DEFINE f == Spans(n, extent, step)
           g == Spans(m, left, by)
<1> USE DEF Selecting
<1>1. f \in [1 .. n -> Nat] /\ LogicalEnd(extent, step, e) = e + Sum(f)
      BY SpansType
<1>2. left \in [1 .. m -> Nat \ {0}] /\ by \in [1 .. m -> Nat]
      BY DEF Selected, Selects
<1>3. LogicalEnd(left, by, e) = e + Sum(g)
  <2>1. DOMAIN left = 1 .. m
        BY <1>2
  <2> QED  BY <2>1 DEF LogicalEnd, Spans
<1>4. g = [k \in 1 .. m |-> f[kept[k]]]
  <2>1. \A k \in 1 .. m : (left[k] - 1) * by[k] = f[kept[k]]
    <3> TAKE k \in 1 .. m
    <3>1. kept[k] \in 1 .. n /\ left[k] = extent[kept[k]] /\ by[k] = step[kept[k]]
          BY DEF Selected, Selects
    <3>2. f[kept[k]] = (extent[kept[k]] - 1) * step[kept[k]]
          BY <3>1 DEF Spans
    <3> QED  BY <3>1, <3>2
  <2> HIDE DEF f
  <2> QED  BY <2>1 DEF Spans
<1>5. Vanishes(n, drop, f)
  <2> SUFFICES ASSUME NEW i \in 1 .. n, i \in drop PROVE f[i] = 0
      BY <1>1 DEF Vanishes, ZeroIn
  <2>1. f[i] = (1 - 1) * step[i] /\ step[i] \in Nat
        BY DEF Spans, OneIn
  <2> HIDE DEF f
  <2>2. \A x \in Nat : (1 - 1) * x = 0
        OBVIOUS
  <2> QED  BY <2>1, <2>2
<1> HIDE DEF f, g, Selecting
<1>6. n \in Nat /\ IsKept(n, drop, kept, m)
      BY DEF Selecting
<1>7. Selects(m, kept, f, g)
      BY <1>4 DEF Selects
<1>8. Sum(g) = Sum(f)
      BY <1>5, <1>7, <1>6, SelectedSum
<1> QED  BY <1>1, <1>3, <1>8

LEMMA TwoKept ==
    ASSUME NEW n \in Nat \ {0}, NEW drop \in SUBSET (1 .. n)
    PROVE  /\ Cardinality(drop) \in Nat
           /\ Cardinality((1 .. n) \ drop) = n - Cardinality(drop)
           /\ Cardinality((1 .. n) \ drop) >= 2 => \E j \in 1 .. n - 1 : j \notin drop
<1> DEFINE rest == (1 .. n) \ drop
<1>1. IsFiniteSet(1 .. n) /\ Cardinality(1 .. n) = n
      BY FS_Interval
<1>2. IsFiniteSet(drop) /\ IsFiniteSet(rest)
      BY <1>1, FS_Subset
<1>3. Cardinality(drop) \in Nat /\ Cardinality(rest) \in Nat
      BY <1>2, FS_CardinalityType
<1>4. Cardinality(rest) = n - Cardinality(drop)
  <2>1. (1 .. n) \cap drop = drop
        OBVIOUS
  <2>2. Cardinality(rest) = Cardinality(1 .. n) - Cardinality((1 .. n) \cap drop)
        BY <1>1, FS_Difference
  <2> QED  BY <1>1, <2>1, <2>2
<1>5. Cardinality(rest) >= 2 => \E j \in 1 .. n - 1 : j \notin drop
  <2> SUFFICES ASSUME \A j \in 1 .. n - 1 : j \in drop PROVE ~ (Cardinality(rest) >= 2)
      OBVIOUS
  <2>1. rest \in SUBSET {n}
        OBVIOUS
  <2>2. IsFiniteSet({n}) /\ Cardinality({n}) = 1
        BY FS_Singleton
  <2>3. Cardinality(rest) <= 1
        BY <2>1, <2>2, FS_Subset
  <2> HIDE DEF rest
  <2> QED  BY <1>3, <2>3
<1> QED  BY <1>3, <1>4, <1>5

LEMMA ChosenFrom ==
    ASSUME NEW n \in Nat \ {0}, NEW drop, NEW K, KeptFrom(n, drop, K), n \notin drop,
           \E j \in 1 .. n - 1 : j \notin drop
    PROVE  Chosen(n, K[1], Len(K[1]))
<1> DEFINE kept == K[1]
           m == Len(kept)
<1>1. kept \in Seq(1 .. n) /\ Ordered(n, drop, 1, kept)
      BY KeptOrdered
<1> HIDE DEF kept
<1>2. m \in Nat /\ kept \in [1 .. m -> 1 .. n]
      BY <1>1, LenProperties
<1>3. 2 <= m /\ m <= n
      BY <1>1, <1>2 DEF Ordered
<1>4. kept[m] = n /\ \A k \in 1 .. m - 1 : kept[k] < kept[k + 1]
      BY <1>1, <1>2 DEF Ordered
<1>5. Chosen(n, kept, m)
      BY <1>2, <1>3, <1>4 DEF Chosen
<1> QED  BY <1>5 DEF kept, m

\* The extents and steps of a selected view.
LEMMA SelectedShape ==
    ASSUME NEW h, NEW n \in Nat \ {0}, n = Len(h.size), NEW drop, n \notin drop,
           \E j \in 1 .. n - 1 : j \notin drop,
           NEW starts \in [1 .. n -> Nat], NEW stops \in [1 .. n -> Nat]
    PROVE  \E kept, m :
              /\ IsKept(n, drop, kept, m) /\ Chosen(n, kept, m)
              /\ Selected(m, kept, [i \in 1 .. n |-> stops[i] - starts[i]], h.step,
                          SelectedSize(h, drop, starts, stops),
                          SelectedStep(h, drop, starts, stops))
<1> DEFINE kept == Kept(h, drop)
           m == Len(kept)
           extent == [i \in 1 .. n |-> stops[i] - starts[i]]
<1>1. PICK K : KeptFrom(n, drop, K) /\ kept = K[1]
      BY KeptIs
<1>2. Chosen(n, kept, m)
      BY <1>1, ChosenFrom
<1>3. DOMAIN kept = 1 .. m /\ kept \in [1 .. m -> 1 .. n]
      BY <1>2 DEF Chosen
<1>4. Selects(m, kept, extent, SelectedSize(h, drop, starts, stops))
  <2>1. SelectedSize(h, drop, starts, stops) = [k \in 1 .. m |-> stops[kept[k]] - starts[kept[k]]]
        BY <1>3 DEF SelectedSize
  <2>2. \A k \in 1 .. m : kept[k] \in 1 .. n
        BY <1>3
  <2> HIDE DEF kept, m
  <2>3. \A k \in 1 .. m : extent[kept[k]] = stops[kept[k]] - starts[kept[k]]
        BY <2>2
  <2> HIDE DEF extent
  <2> QED  BY <2>1, <2>3 DEF Selects
<1>5. Selects(m, kept, h.step, SelectedStep(h, drop, starts, stops))
      BY <1>3 DEF SelectedStep, Selects
<1>6. IsKept(n, drop, kept, m)
      BY <1>1 DEF IsKept
<1> HIDE DEF kept, m
<1> QED  BY <1>2, <1>4, <1>5, <1>6 DEF Selected

\* What is left of the dimensions of a header.
Leaves(m, n, size, step, depth, channels, data, limit, left, by, offset) ==
    /\ m \in Nat /\ 2 <= m /\ m <= n
    /\ left \in [1 .. m -> Nat \ {0}]
    /\ Carries(m, left, by, depth, channels)
    /\ left[1] * by[1] <= size[1] * step[1]
    /\ left[1] * by[1] \in Nat /\ size[1] * step[1] \in Nat
    /\ offset \in Nat /\ offset % elemSize1[depth] = 0
    /\ LogicalEnd(left, by, elemSize(depth, channels)) \in Nat
    /\ LogicalEnd(left, by, elemSize(depth, channels)) <= left[1] * by[1]
    /\ data + (offset + LogicalEnd(left, by, elemSize(depth, channels))) <= limit

\* What a selection leaves of a sound header is laid out soundly.
LEMMA SelectedLeaves ==
    ASSUME NEW n \in Nat \ {0}, NEW size \in [1 .. n -> Nat \ {0}],
           NEW depth \in DOMAIN elemSize1, NEW channels \in Nat \ {0},
           NEW step, Carries(n, size, step, depth, channels),
           NEW data \in Nat, NEW limit \in Nat,
           data + LogicalEnd(size, step, elemSize(depth, channels)) <= limit,
           NEW starts \in [1 .. n -> Nat], NEW extent \in [1 .. n -> Nat \ {0}],
           \A i \in 1 .. n : starts[i] + extent[i] <= size[i],
           NEW drop, OneIn(n, drop, extent),
           NEW kept, NEW m, IsKept(n, drop, kept, m), Chosen(n, kept, m),
           NEW left, NEW by, Selected(m, kept, extent, step, left, by)
    PROVE  Leaves(m, n, size, step, depth, channels, data, limit, left, by,
                  Sum(Offsets(n, starts, step)))
<1> DEFINE e == elemSize(depth, channels)
           d == elemSize1[depth]
           end == LogicalEnd(size, step, e)
           inner == LogicalEnd(left, by, e)
           middle == LogicalEnd(extent, step, e)
           offset == Sum(Offsets(n, starts, step))
<1>1. e \in Nat \ {0} /\ d \in Nat \ {0} /\ e \in Nat /\ e = elemSize(depth, channels)
  <2>1. elemSize1[depth] \in {1, 2, 4, 8} /\ elemSize(depth, channels) \in Nat \ {0}
        BY ElementSizes
  <2> QED  BY <2>1
<1> HIDE DEF e
<1>2. Holds(n, size, step, e) /\ step \in [1 .. n -> Nat \ {0}] /\ step \in [1 .. n -> Nat]
      BY <1>1, CarriesHolds
<1>3. m \in Nat \ {0} /\ m \in Nat /\ 2 <= m /\ m <= n
  <2>1. m \in Nat
        BY DEF Chosen
  <2>2. 2 <= m /\ m <= n
        BY DEF Chosen
  <2>3. m \in Nat \ {0}
        BY <2>1, <2>2
  <2> QED  BY <2>1, <2>2, <2>3
<1>4. kept \in [1 .. m -> 1 .. n]
      BY DEF Chosen
<1>5. \A i \in 1 .. n : extent[i] <= size[i]
  <2> TAKE i \in 1 .. n
  <2>1. starts[i] \in Nat /\ extent[i] \in Nat /\ size[i] \in Nat /\ starts[i] + extent[i] <= size[i]
        OBVIOUS
  <2> QED  BY <2>1
<1>6. /\ left \in [1 .. m -> Nat \ {0}]
      /\ Carries(m, left, by, depth, channels)
      /\ left[1] * by[1] <= size[1] * step[1]
      /\ left[1] * by[1] \in Nat /\ size[1] * step[1] \in Nat
      BY <1>1, <1>3, <1>5, SelectedCarries
<1>7. inner = middle
  <2>1. Selecting(n, drop, kept, m, extent, step, left, by)
        BY <1>2, <1>3, <1>4 DEF Selecting
  <2>2. LogicalEnd(left, by, e) = LogicalEnd(extent, step, e)
        BY <2>1, SelectedEnd
  <2> QED  BY <2>2
<1>8. offset + middle <= end /\ offset \in Nat /\ middle \in Nat /\ end \in Nat
      BY <1>1, <1>2, SelectionInside
<1>9. offset % d = 0
  <2>1. n \in Nat /\ d \in Nat \ {0} /\ step \in [1 .. n -> Nat] /\ InMultiples(n, step, d)
        BY <1>1, <1>2 DEF InMultiples, Carries
  <2> HIDE DEF d
  <2> QED  BY <2>1, OffsetAligned
<1>10. inner <= left[1] * by[1]
  <2>1. Holds(m, left, by, e) /\ by \in [1 .. m -> Nat]
        BY <1>1, <1>3, <1>6, CarriesHolds
  <2> QED  BY <1>1, <1>3, <1>6, <2>1, EndInside
<1>11. data + end <= limit
       BY <1>1
<1>12. data + (offset + inner) <= limit /\ inner \in Nat
  <2> HIDE DEF end, inner, middle, offset
  <2> QED  BY <1>7, <1>8, <1>11
<1> QED  BY <1>1, <1>3, <1>6, <1>8, <1>9, <1>10, <1>12 DEF Leaves

\* What is left fits into the storage again.
Room(size, step, data, limit) ==
    /\ data \in Nat /\ limit \in Nat /\ limit <= MaxAddress /\ Buffer <= data
    /\ size[1] * step[1] <= limit - Buffer

LEMMA SpansAccepted ==
    ASSUME NEW h, NEW drop, NEW starts, NEW stops, NEW m, NEW n, NEW size, NEW step,
           NEW depth, NEW channels, NEW data, NEW limit, NEW left, NEW by, NEW offset,
           NEW temporary,
           h = Fields(data, limit, size, step, depth, channels, temporary),
           left = SelectedSize(h, drop, starts, stops),
           by = SelectedStep(h, drop, starts, stops),
           offset = SelectedOffset(h, starts),
           Room(size, step, data, limit),
           Leaves(m, n, size, step, depth, channels, data, limit, left, by, offset)
    PROVE  selected_spans_accepted(h, drop, starts, stops)
<1> DEFINE e == Element_Size(h)
           end == LogicalEnd(left, by, e)
           part == left[1] * by[1]
           whole == size[1] * step[1]
<1>1. h.data = data /\ h.limit = limit /\ e = elemSize(depth, channels)
      BY DEF Fields, Element_Size
<1> HIDE DEF e
<1>2. /\ data \in Nat /\ limit \in Nat /\ limit <= MaxAddress /\ Buffer <= data
      /\ whole <= limit - Buffer
      BY DEF Room
<1>3. /\ part <= whole /\ part \in Nat /\ whole \in Nat
      /\ offset \in Nat /\ end \in Nat /\ end <= part
      /\ data + (offset + end) <= limit
      BY <1>1 DEF Leaves
<1>4. Buffer \in Nat /\ MaxAddress \in Nat
      BY NDViewsAssumption
<1> HIDE DEF end, part, whole
<1>5. /\ Fits(offset) /\ Fits(part) /\ data <= limit /\ offset <= limit - data
      /\ end <= limit - (data + offset) /\ part <= limit - Buffer
      BY <1>2, <1>3, <1>4 DEF Fits
<1>6. m \in Nat \ {0} /\ left \in [1 .. m -> Nat \ {0}]
      BY DEF Leaves
<1>7. Carries(m, left, by, depth, channels)
      BY DEF Leaves
<1>8. Len(left) = m /\ Len(by) = m
  <2>1. m \in Nat /\ by \in [1 .. m -> Nat \ {0}]
        BY <1>6, <1>7 DEF Carries
  <2> QED  BY <1>6, <2>1, LenIs
<1>9. Last(by) = e
      BY <1>1, <1>7, <1>8 DEF Last, Carries
<1>10. Nests(left, by)
       BY <1>7, <1>8 DEF Carries, Nests
<1>11. /\ Fits(offset) /\ Last(by) = e /\ Nests(left, by) /\ Fits(left[1] * by[1])
       /\ end <= left[1] * by[1] /\ Buffer <= h.data /\ h.data <= h.limit
       /\ offset <= h.limit - h.data /\ end <= h.limit - (h.data + offset)
       /\ left[1] * by[1] <= h.limit - Buffer
       BY <1>1, <1>2, <1>3, <1>5, <1>9, <1>10 DEF part
<1> QED  BY <1>11 DEF selected_spans_accepted, e, end

InCallback(data, limit, size, step, depth, channels) ==
    Fields(data, limit, size, step, depth, channels, TRUE)

\* The header of a selected view, and the address that is computed to make it.
LEMMA SelectedHeader ==
    ASSUME NEW m, NEW n, NEW size, NEW step,
           NEW depth, NEW channels, NEW data, NEW limit, NEW left, NEW by, NEW offset,
           NEW moved, Leaves(m, n, size, step, depth, channels, data, limit, left, by, offset)
    PROVE  /\ Header(Buffer, left, by, depth, channels).limit = Buffer + left[1] * by[1]
           /\ Temporary(Carried(Header(Buffer, left, by, depth, channels), moved, limit))
                = InCallback(moved, limit, left, by, depth, channels)
<1> DEFINE e == elemSize(depth, channels)
           end == Buffer + left[1] * by[1]
           last == [by EXCEPT ![Len(left)] = e]
           carrier == Header(Buffer, left, by, depth, channels)
<1>1. m \in Nat \ {0} /\ left \in [1 .. m -> Nat \ {0}]
      BY DEF Leaves
<1>2. by \in [1 .. m -> Nat \ {0}] /\ by[m] = e
      BY DEF Leaves, Carries
<1>3. Len(left) = m
      BY <1>1, LenIs
<1>4. last = by
      BY <1>1, <1>2, <1>3
<1>5. carrier = Fields(Buffer, end, left, last, depth, channels, FALSE)
      BY DEF Header, Fields
<1> HIDE DEF end, last, e, carrier
<1> DEFINE no == FALSE
           yes == TRUE
<1>6. carrier = Fields(Buffer, end, left, by, depth, channels, no)
      BY <1>4, <1>5
<1> HIDE DEF no, yes
<1>7. Carried(carrier, moved, limit) = Fields(moved, limit, left, by, depth, channels, no)
      BY <1>6, Moved
<1>8. [Fields(moved, limit, left, by, depth, channels, no) EXCEPT !.temporary = yes]
        = Fields(moved, limit, left, by, depth, channels, yes)
      BY DEF Fields
<1>9. Temporary(Carried(carrier, moved, limit))
        = [Carried(carrier, moved, limit) EXCEPT !.temporary = yes]
      BY DEF Temporary, yes
<1>10. carrier.limit = end
       BY <1>6 DEF Fields
<1>11. Temporary(Carried(carrier, moved, limit))
         = Fields(moved, limit, left, by, depth, channels, yes)
       BY <1>7, <1>8, <1>9
<1> QED  BY <1>10, <1>11 DEF end, yes, carrier, InCallback

\* Its header is sound.
LEMMA LeavesSound ==
    ASSUME NEW m, NEW n \in Nat, n <= NativeMaxDimensions, n <= MaxDimensions,
           NEW size, NEW step, NEW depth \in DOMAIN elemSize1, NEW channels \in Nat \ {0},
           NEW temporary \in BOOLEAN, NEW data, NEW limit, NEW left, NEW by, NEW offset,
           Room(size, step, data, limit), data % elemSize1[depth] = 0,
           Leaves(m, n, size, step, depth, channels, data, limit, left, by, offset),
           NEW view, view = Fields(data + offset, limit, left, by, depth, channels, temporary)
    PROVE  Sound(view)
<1> DEFINE e == elemSize(depth, channels)
           d == elemSize1[depth]
           end == LogicalEnd(left, by, e)
           part == left[1] * by[1]
           whole == size[1] * step[1]
           moved == data + offset
<1>1. d \in Nat \ {0}
  <2>1. elemSize1[depth] \in {1, 2, 4, 8}
        BY ElementSizes
  <2> QED  BY <2>1
<1>2. /\ data \in Nat /\ limit \in Nat /\ limit <= MaxAddress /\ Buffer <= data
      /\ whole <= limit - Buffer
      BY DEF Room
<1>3. /\ part <= whole /\ part \in Nat /\ whole \in Nat
      /\ offset \in Nat /\ offset % d = 0 /\ end \in Nat
      /\ data + (offset + end) <= limit
      BY DEF Leaves
<1>4. Buffer \in Nat /\ MaxAddress \in Nat /\ NativeMaxDimensions \in Nat /\ MaxDimensions \in Nat
      BY NDViewsAssumption
<1>5. data % d = 0
      OBVIOUS
<1>6. m \in Nat /\ 2 <= m /\ m <= n /\ left \in [1 .. m -> Nat \ {0}]
      BY DEF Leaves
<1>7. Carries(m, left, by, depth, channels)
      BY DEF Leaves
<1>8. m <= NativeMaxDimensions /\ m <= MaxDimensions
      BY <1>4, <1>6
<1> HIDE DEF d, end, part, whole
<1>9. moved % d = 0
      BY <1>1, <1>2, <1>3, <1>5, MultiplesAdd
<1>10. moved \in Nat /\ Buffer <= moved /\ moved + end <= limit /\ part <= limit - Buffer
       BY <1>2, <1>3, <1>4
<1>11. view = Fields(moved, limit, left, by, depth, channels, temporary)
       OBVIOUS
<1> HIDE DEF moved
<1>12. /\ m \in Nat /\ 2 <= m /\ m <= NativeMaxDimensions /\ m <= MaxDimensions
       /\ Carries(m, left, by, depth, channels)
       /\ left \in [1 .. m -> Nat \ {0}]
       /\ moved \in Nat /\ limit \in Nat /\ Buffer <= moved
       /\ moved + LogicalEnd(left, by, elemSize(depth, channels)) <= limit
       /\ left[1] * by[1] <= limit - Buffer
       /\ moved % elemSize1[depth] = 0
       /\ view = [data |-> moved, limit |-> limit, size |-> left, step |-> by, depth |-> depth,
                  channels |-> channels, temporary |-> temporary]
       BY <1>2, <1>6, <1>7, <1>8, <1>9, <1>10, <1>11 DEF Fields, d, end, e, part
<1> QED  BY <1>12, MakesSound

\* A selection of the n dimensions of h that the Ada layer accepts.
Extents(n, starts, stops) == [i \in 1 .. n |-> stops[i] - starts[i]]

Selection(h, n, drop, starts, stops) ==
    /\ n \in Nat \ {0} /\ n = Len(h.size) /\ drop \in SUBSET (1 .. n)
    /\ h.size \in [1 .. n -> Nat \ {0}]
    /\ starts \in [1 .. n -> Nat] /\ stops \in [1 .. n -> Nat]
    /\ Selections_accepted(h, drop, starts, stops)

\* What the checks of both layers say of a selection.
LEMMA SelectionsMean ==
    ASSUME NEW h, NEW n, NEW drop, NEW starts, NEW stops, Selection(h, n, drop, starts, stops)
    PROVE  /\ Extents(n, starts, stops) \in [1 .. n -> Nat \ {0}]
           /\ \A i \in 1 .. n : starts[i] + Extents(n, starts, stops)[i] <= h.size[i]
           /\ OneIn(n, drop, Extents(n, starts, stops))
           /\ n \notin drop /\ \E j \in 1 .. n - 1 : j \notin drop
           /\ ~ h.temporary => selectors_accepted(h, drop, starts, stops)
<1> DEFINE extent == Extents(n, starts, stops)
<1>1. /\ n \in Nat \ {0} /\ n = Len(h.size) /\ drop \in SUBSET (1 .. n)
      /\ h.size \in [1 .. n -> Nat \ {0}]
      /\ starts \in [1 .. n -> Nat] /\ stops \in [1 .. n -> Nat]
      /\ Selections_accepted(h, drop, starts, stops)
      BY DEF Selection
<1> DEFINE size == h.size
<1>2. DOMAIN starts = 1 .. n /\ Len(starts) = n /\ Dimension_Count(h) = n
      BY <1>1, LenIs DEF Dimension_Count
<1>3. /\ \A i \in 1 .. n : starts[i] < stops[i] /\ stops[i] <= size[i]
      /\ \A i \in drop : stops[i] = starts[i] + 1
      /\ drop # {} /\ Cardinality((1 .. n) \ drop) >= 2 /\ n \notin drop
      BY <1>2, <1>1 DEF Selections_accepted, Extent
<1>4. ASSUME NEW i \in 1 .. n
      PROVE  /\ starts[i] \in Nat /\ stops[i] \in Nat /\ size[i] \in Nat
             /\ starts[i] < stops[i] /\ stops[i] <= size[i]
             /\ i \in drop => stops[i] = starts[i] + 1
      BY <1>3, <1>1
<1> HIDE DEF size
<1>5. ASSUME NEW i \in 1 .. n
      PROVE  /\ extent[i] \in Nat \ {0} /\ starts[i] + extent[i] <= size[i]
             /\ i \in drop => extent[i] = 1
             /\ 0 <= starts[i] /\ starts[i] < stops[i] /\ stops[i] <= size[i]
             /\ i \in drop => stops[i] - starts[i] = 1
  <2>1. extent[i] = stops[i] - starts[i]
        BY DEF Extents
  <2> QED  BY <1>4, <2>1
<1>6. extent \in [1 .. n -> Nat \ {0}]
  <2>1. \A i \in 1 .. n : stops[i] - starts[i] \in Nat \ {0}
    <3> TAKE i \in 1 .. n
    <3>1. extent[i] = stops[i] - starts[i]
          BY DEF Extents
    <3> QED  BY <1>5, <3>1
  <2> QED  BY <2>1 DEF Extents
<1> HIDE DEF extent
<1>7. OneIn(n, drop, extent)
      BY <1>5 DEF OneIn
<1>8. n - Cardinality(drop) >= 2 /\ \E j \in 1 .. n - 1 : j \notin drop
      BY <1>3, <1>1, TwoKept
<1>9. ~ h.temporary => selectors_accepted(h, drop, starts, stops)
      BY <1>2, <1>3, <1>5, <1>8, <1>1 DEF selectors_accepted, size
<1> QED  BY <1>3, <1>5, <1>6, <1>7, <1>8, <1>9 DEF size, extent

\* A view of the dimensions that are left, of any header.
SelectedOf(h, drop, starts, stops) ==
    Temporary(Carried(SelectedCarrier(h, drop, starts, stops),
                      h.data + SelectedOffset(h, starts), h.limit))

LEMMA SelectedView ==
    ASSUME NEW h, Sound(h), h.limit <= MaxAddress,
           NEW n, NEW drop, NEW starts, NEW stops, Selection(h, n, drop, starts, stops)
    PROVE  /\ ~ h.temporary => /\ selectors_accepted(h, drop, starts, stops)
                               /\ selected_spans_accepted(h, drop, starts, stops)
           /\ Sound(SelectedOf(h, drop, starts, stops))
           /\ SelectedOf(h, drop, starts, stops).limit = h.limit
           /\ SelectedCarrier(h, drop, starts, stops).limit \in Nat
           /\ SelectedCarrier(h, drop, starts, stops).limit <= h.limit
<1> DEFINE data == h.data
           limit == h.limit
           size == h.size
           step == h.step
           depth == h.depth
           channels == h.channels
           temporary == h.temporary
           extent == Extents(n, starts, stops)
           moved == h.data + SelectedOffset(h, starts)
           carrier == SelectedCarrier(h, drop, starts, stops)
           view == SelectedOf(h, drop, starts, stops)
           left == SelectedSize(h, drop, starts, stops)
           by == SelectedStep(h, drop, starts, stops)
           offset == SelectedOffset(h, starts)
           end == LogicalEnd(size, step, elemSize(depth, channels))
           whole == size[1] * step[1]
           part == left[1] * by[1]
<1>1. /\ n \in Nat \ {0} /\ n = Len(h.size)
      /\ starts \in [1 .. n -> Nat] /\ stops \in [1 .. n -> Nat]
      BY DEF Selection
<1>2. /\ 2 <= n /\ n <= NativeMaxDimensions /\ n <= MaxDimensions
      /\ size \in [1 .. n -> Nat \ {0}] /\ step \in [1 .. n -> Nat \ {0}]
      /\ step[n] = elemSize(depth, channels)
      /\ data \in Nat /\ limit \in Nat /\ depth \in DOMAIN elemSize1
      /\ channels \in Nat \ {0} /\ temporary \in BOOLEAN
      BY <1>1, SoundLayout
<1>3. h = Fields(data, limit, size, step, depth, channels, temporary)
      BY FieldsOf DEF Sound
<1>4. /\ Nests(size, step) /\ Buffer <= data /\ data + end <= limit
      /\ whole <= limit - Buffer /\ data % elemSize1[depth] = 0
      /\ \A i \in DOMAIN step : step[i] % elemSize1[depth] = 0
      BY DEF Sound, Element_Size
<1>5. Carries(n, size, step, depth, channels)
      BY <1>2, <1>4, <1>1 DEF Carries, Nests
<1>6. /\ extent \in [1 .. n -> Nat \ {0}]
      /\ \A i \in 1 .. n : starts[i] + extent[i] <= size[i]
      /\ OneIn(n, drop, extent)
      /\ n \notin drop /\ \E j \in 1 .. n - 1 : j \notin drop
      /\ ~ h.temporary => selectors_accepted(h, drop, starts, stops)
      BY SelectionsMean
<1>7. PICK kept, m : /\ IsKept(n, drop, kept, m) /\ Chosen(n, kept, m)
                     /\ Selected(m, kept, extent, step, left, by)
  <2>1. Extents(n, starts, stops) = [i \in 1 .. n |-> stops[i] - starts[i]]
        BY DEF Extents
  <2>2. \E kept, m :
              /\ IsKept(n, drop, kept, m) /\ Chosen(n, kept, m)
              /\ Selected(m, kept, [i \in 1 .. n |-> stops[i] - starts[i]], h.step,
                          SelectedSize(h, drop, starts, stops),
                          SelectedStep(h, drop, starts, stops))
        BY <1>6, <1>1, SelectedShape
  <2> QED  BY <2>1, <2>2
<1>8. offset = Sum(Offsets(n, starts, step))
  <2>1. DOMAIN starts = 1 .. n
        BY <1>1
  <2> QED  BY <2>1 DEF SelectedOffset, Offsets
<1>9. Room(size, step, data, limit)
      BY <1>2, <1>4 DEF Room
<1>10. carrier = Header(Buffer, left, by, depth, channels) /\ moved = data + offset
       BY DEF SelectedCarrier
<1>11. view = Temporary(Carried(carrier, moved, limit))
       BY DEF SelectedOf
<1>12. /\ data % elemSize1[depth] = 0
       /\ data + LogicalEnd(size, step, elemSize(depth, channels)) <= limit
       BY <1>4
<1> HIDE DEF data, limit, size, step, depth, channels, temporary, extent, left, by, offset, end,
             whole, part, moved, carrier, view
<1>13. Leaves(m, n, size, step, depth, channels, data, limit, left, by, offset)
       BY <1>2, <1>5, <1>6, <1>7, <1>8, <1>12, <1>1, SelectedLeaves
<1>14. selected_spans_accepted(h, drop, starts, stops)
  <2> HIDE DEF Leaves, Room
  <2>1. /\ left = SelectedSize(h, drop, starts, stops)
        /\ by = SelectedStep(h, drop, starts, stops)
        /\ offset = SelectedOffset(h, starts)
        BY DEF left, by, offset
  <2> QED  BY <1>3, <1>9, <1>13, <2>1, SpansAccepted
<1>15. /\ carrier.limit = Buffer + left[1] * by[1]
       /\ view = Fields(moved, limit, left, by, depth, channels, TRUE)
  <2>1. /\ Header(Buffer, left, by, depth, channels).limit = Buffer + left[1] * by[1]
        /\ Temporary(Carried(Header(Buffer, left, by, depth, channels), moved, limit))
             = InCallback(moved, limit, left, by, depth, channels)
        BY <1>13, SelectedHeader
  <2> QED  BY <1>10, <1>11, <2>1 DEF InCallback
<1>16. Sound(view)
  <2> DEFINE yes == TRUE
  <2>1. view = Fields(data + offset, limit, left, by, depth, channels, yes) /\ yes \in BOOLEAN
        BY <1>10, <1>15
  <2> HIDE DEF yes
  <2>2. n \in Nat
        BY <1>1
  <2> QED  BY <1>2, <1>9, <1>12, <1>13, <2>1, <2>2, LeavesSound
<1>17. view.limit = limit
       BY <1>15 DEF Fields
<1>18. carrier.limit \in Nat /\ carrier.limit <= limit
  <2>1. part <= whole /\ part \in Nat /\ whole \in Nat
        BY <1>13 DEF Leaves, part, whole
  <2>2. whole <= limit - Buffer /\ limit \in Nat
        BY <1>9 DEF Room, whole
  <2>3. Buffer \in Nat
        BY NDViewsAssumption
  <2>4. carrier.limit = Buffer + part
        BY <1>15 DEF part
  <2> QED  BY <2>1, <2>2, <2>3, <2>4
<1> QED  BY <1>6, <1>14, <1>16, <1>17, <1>18 DEF view, limit, carrier

\* A callback's view of a sound header.
LEMMA SelectedHolds ==
    ASSUME Held, NEW n, n = Len(header.size), NEW drop \in SUBSET (1 .. n),
           NEW starts \in [1 .. n -> Nat], NEW stops \in [1 .. n -> Nat],
           With_Selected_View(drop, starts, stops)
    PROVE  Held' /\ Agreed'
<1> DEFINE h == header
           view == SelectedOf(h, drop, starts, stops)
           accepts == /\ selectors_accepted(h, drop, starts, stops)
                      /\ selected_spans_accepted(h, drop, starts, stops)
           what == "view"
           last == SelectedCarrier(h, drop, starts, stops).limit
           bytes == storage
<1>1. header # Default
  <2> SUFFICES ASSUME header = Default PROVE FALSE
      OBVIOUS
  <2>1. header.size = << >>
        BY DEF Default
  <2>2. Is_Empty(header)
        BY <2>1 DEF Is_Empty, Total
  <2> QED  BY <2>2 DEF With_Selected_View, Selections_accepted
<1>2. Sound(h) /\ bytes \in Nat /\ h.limit <= Buffer + bytes /\ Buffer + bytes <= MaxAddress
      BY <1>1 DEF Held
<1>3. n \in Nat \ {0} /\ h.limit \in Nat
      BY <1>2, SoundLayout
<1>4. Buffer \in Nat /\ MaxAddress \in Nat
      BY NDViewsAssumption
<1>5. h.limit <= MaxAddress /\ Buffer + bytes \in Nat
  <2> DEFINE limit == h.limit
  <2> HIDE DEF limit, bytes
  <2>1. limit <= Buffer + bytes /\ limit \in Nat /\ bytes \in Nat /\ Buffer + bytes <= MaxAddress
        BY <1>2, <1>3 DEF limit
  <2> QED  BY <1>4, <2>1 DEF limit
<1>6. Selection(h, n, drop, starts, stops)
  <2>1. h.size \in [1 .. n -> Nat \ {0}]
        BY <1>2, SoundLayout
  <2> QED  BY <1>3, <2>1 DEF Selection, With_Selected_View
<1>7. Call(accepts, view, bytes, last, what)
      BY DEF With_Selected_View, View, Carried, SelectedOf
<1>8. accepts \in BOOLEAN
      BY DEF selectors_accepted
<1> HIDE DEF accepts, what, bytes
<1>9. /\ ~ h.temporary => accepts
      /\ Sound(view) /\ view.limit = h.limit
      /\ last \in Nat /\ last <= h.limit
  <2> HIDE DEF h
  <2> QED  BY <1>2, <1>5, <1>6, SelectedView DEF accepts
<1> HIDE DEF view, last
<1>10. accepts => /\ Sound(view) /\ bytes \in Nat /\ last \in Nat
                  /\ view.limit <= Buffer + bytes /\ last <= Buffer + bytes
                  /\ Buffer + bytes <= MaxAddress
  <2> DEFINE limit == h.limit
  <2>1. /\ limit <= Buffer + bytes /\ limit \in Nat /\ last \in Nat /\ last <= limit
        /\ Buffer + bytes \in Nat
        BY <1>2, <1>3, <1>5, <1>9
  <2> HIDE DEF limit
  <2>2. last <= Buffer + bytes
        BY <2>1
  <2> QED  BY <1>2, <1>9, <2>1, <2>2 DEF limit
<1>11. ~ accepts => Len(view.size) > NativeMaxDimensions \/ (what = "view" /\ header.temporary)
       BY <1>9 DEF what, h
<1> HIDE DEF h
<1> QED  BY <1>7, <1>8, <1>10, <1>11, CallHolds

-----------------------------------------------------------------------------
(***************************************************************************)
(* Reshapes.                                                               *)
(***************************************************************************)
LEMMA SumOfTwo ==
    ASSUME NEW s \in [1 .. 2 -> Nat]
    PROVE  Sum(s) = s[1] + s[2]
<1>1. PICK h : SumsFrom(2, s, h)
      BY SumsFromExist
<1>2. h[3] = 0 /\ h[2] = s[2] + h[3] /\ h[1] = s[1] + h[2]
      BY <1>1 DEF SumsFrom
<1>3. s[1] \in Nat /\ s[2] \in Nat
      OBVIOUS
<1>4. Sum(s) = h[1]
      BY <1>1, SumIs
<1> QED  BY <1>2, <1>3, <1>4

LEMMA ProductInNat ==
    ASSUME NEW n \in Nat, NEW s \in [1 .. n -> Nat]
    PROVE  Product(s) \in Nat
<1>1. PICK f : ProductsFrom(n, s, f)
      BY ProductsFromExist
<1> QED  BY <1>1, ProductIs

\* The bytes of as many scalars, in elements of other channels.
LEMMA SameBytes ==
    ASSUME NEW scalar \in Nat, NEW left \in Nat, NEW channels \in Nat,
           NEW product \in Nat, NEW others \in Nat, left * others = product * channels
    PROVE  (scalar * others) * left = (scalar * channels) * product
<1>1. (scalar * others) * left = scalar * (left * others)
      OBVIOUS
<1>2. (scalar * channels) * product = scalar * (product * channels)
      OBVIOUS
<1> QED  BY <1>1, <1>2

LEMMA Cancels ==
    ASSUME NEW r \in Nat \ {0}, NEW x \in Nat, NEW y \in Nat, r * x = r * y
    PROVE  x = y
OBVIOUS

\* A shape with as many scalars, in other steps that end no later.
Fitted(n, size, step, depth, channels, q, shape, by, others) ==
    /\ q \in Nat /\ 2 <= q /\ shape \in [1 .. q -> Nat \ {0}]
    /\ Carries(q, shape, by, depth, others)
    /\ LogicalEnd(size, step, elemSize(depth, channels)) \in Nat
    /\ LogicalEnd(shape, by, elemSize(depth, others)) \in Nat
    /\ LogicalEnd(shape, by, elemSize(depth, others))
         <= LogicalEnd(size, step, elemSize(depth, channels))
    /\ size[1] * step[1] \in Nat /\ shape[1] * by[1] \in Nat
    /\ shape[1] * by[1] <= size[1] * step[1]

Sized(n, size, depth, channels) ==
    /\ n \in Nat /\ 2 <= n /\ size \in [1 .. n -> Nat \ {0}]
    /\ depth \in DOMAIN elemSize1 /\ channels \in Nat \ {0}

LEMMA EndIsNat ==
    ASSUME NEW n, NEW size, NEW step, NEW depth, NEW channels, Sized(n, size, depth, channels),
           Carries(n, size, step, depth, channels), NEW e, e = elemSize(depth, channels)
    PROVE  /\ n \in Nat \ {0} /\ size \in [1 .. n -> Nat \ {0}] /\ step \in [1 .. n -> Nat]
           /\ e \in Nat \ {0} /\ Holds(n, size, step, e)
           /\ LogicalEnd(size, step, e) \in Nat
           /\ LogicalEnd(size, step, e) <= size[1] * step[1]
           /\ e * Product(size) <= LogicalEnd(size, step, e)
           /\ Product(size) \in Nat
           /\ size[1] * step[1] \in Nat /\ size[1] \in Nat \ {0} /\ step[1] \in Nat
<1>1. n \in Nat \ {0} /\ size \in [1 .. n -> Nat \ {0}]
      BY DEF Sized
<1>2. e \in Nat \ {0}
      BY ElementSizes DEF Sized
<1>3. Holds(n, size, step, e) /\ step \in [1 .. n -> Nat]
      BY <1>1, <1>2, CarriesHolds
<1>4. size \in [1 .. n -> Nat]
      BY <1>1
<1>5. Product(size) \in Nat
      BY <1>1, <1>4, ProductInNat
<1>6. /\ LogicalEnd(size, step, e) <= size[1] * step[1]
      /\ e * Product(size) <= LogicalEnd(size, step, e)
  <2>1. e \in Nat
        BY <1>2
  <2> QED  BY <1>1, <1>3, <2>1, EndInside, PackedIsLeast
<1>7. LogicalEnd(size, step, e) \in Nat
  <2>1. Spans(n, size, step) \in [1 .. n -> Nat]
        /\ LogicalEnd(size, step, e) = e + Sum(Spans(n, size, step))
        BY <1>1, <1>3, SpansType
  <2>2. Sum(Spans(n, size, step)) \in Nat
        BY <1>1, <2>1, SumIsNat
  <2> QED  BY <1>2, <2>1, <2>2
<1>8. 1 \in 1 .. n
      BY <1>1
<1>9. size[1] \in Nat \ {0} /\ step[1] \in Nat
      BY <1>1, <1>3, <1>8
<1>10. size[1] * step[1] \in Nat
       BY <1>9, ProductIsNat
<1> QED  BY <1>1, <1>2, <1>3, <1>5, <1>6, <1>7, <1>9, <1>10

\* Packed steps end no later than any others.
LEMMA PackedFits ==
    ASSUME NEW n, NEW size, NEW step, NEW depth, NEW channels, Sized(n, size, depth, channels),
           Carries(n, size, step, depth, channels),
           NEW q, NEW shape, NEW others, Sized(q, shape, depth, others),
           Product(shape) * others = Product(size) * channels
    PROVE  Fitted(n, size, step, depth, channels, q, shape,
                  PackedSteps(shape, elemSize(depth, others)), others)
<1> DEFINE scalar == elemSize1[depth]
           e == elemSize(depth, channels)
           b == elemSize(depth, others)
           by == PackedSteps(shape, b)
           product == Product(size)
           left == Product(shape)
           end == LogicalEnd(size, step, e)
           last == LogicalEnd(shape, by, b)
           whole == size[1] * step[1]
           part == shape[1] * by[1]
<1>1. depth \in DOMAIN elemSize1 /\ channels \in Nat \ {0} /\ others \in Nat \ {0}
      /\ q \in Nat \ {0} /\ shape \in [1 .. q -> Nat \ {0}] /\ 2 <= q /\ q \in Nat
      BY DEF Sized
<1>2. scalar \in Nat
  <2>1. elemSize1[depth] \in {1, 2, 4, 8}
        BY <1>1, ElementSizes
  <2> QED  BY <2>1
<1>3. e = scalar * channels /\ b = scalar * others
      BY DEF elemSize
<1>4. by = PackedSteps(shape, b) /\ b = elemSize(depth, others) /\ e = elemSize(depth, channels)
      OBVIOUS
<1> HIDE DEF scalar, e, b, by
<1>5. /\ Carries(q, shape, by, depth, others)
      /\ part = b * left /\ b \in Nat \ {0} /\ left \in Nat
  <2>1. PackedCarriesIn(q, shape, depth, others, b, by)
        BY <1>1, <1>4, PackedCarries
  <2> QED  BY <2>1 DEF PackedCarriesIn
<1>6. /\ e \in Nat \ {0} /\ end \in Nat /\ end <= whole /\ e * product <= end
      /\ product \in Nat /\ whole \in Nat
      BY <1>4, EndIsNat
<1>7. last \in Nat /\ last <= part /\ part \in Nat
      BY <1>4, <1>5, EndIsNat
<1>8. left * others = product * channels
      OBVIOUS
<1> HIDE DEF product, left, end, last, whole, part
<1>9. b * left = e * product
  <2>1. others \in Nat /\ channels \in Nat
        BY <1>1
  <2>2. (scalar * others) * left = (scalar * channels) * product
        BY <1>2, <1>5, <1>6, <1>8, <2>1, SameBytes
  <2> QED  BY <1>3, <2>2
<1>10. last <= end /\ part <= whole
  <2> DEFINE bytes == e * product
  <2>1. part = bytes /\ bytes <= end
        BY <1>5, <1>6, <1>9
  <2> HIDE DEF bytes
  <2> QED  BY <1>6, <1>7, <2>1
<1>11. Fitted(n, size, step, depth, channels, q, shape, by, others)
       BY <1>1, <1>4, <1>5, <1>6, <1>7, <1>10 DEF Fitted, end, last, whole, part
<1> QED  BY <1>11 DEF by, b

\* A matrix of two dimensions that keeps its rows keeps where they end.
LEMMA RowsFit ==
    ASSUME NEW size, NEW step, NEW depth, NEW channels, Sized(2, size, depth, channels),
           Carries(2, size, step, depth, channels),
           NEW shape, NEW others, Sized(2, shape, depth, others), shape[1] = size[1],
           Product(shape) * others = Product(size) * channels
    PROVE  Fitted(2, size, step, depth, channels, 2, shape,
                  <<step[1], elemSize(depth, others)>>, others)
<1> DEFINE scalar == elemSize1[depth]
           e == elemSize(depth, channels)
           b == elemSize(depth, others)
           row == step[1]
           by == <<row, b>>
           rows == size[1]
           columns == size[2]
           across == shape[2]
<1>1. /\ depth \in DOMAIN elemSize1 /\ channels \in Nat \ {0} /\ others \in Nat \ {0}
      /\ channels \in Nat /\ others \in Nat
      /\ shape \in [1 .. 2 -> Nat \ {0}] /\ size \in [1 .. 2 -> Nat \ {0}]
      BY DEF Sized
<1>2. shape \in [1 .. 2 -> Nat] /\ size \in [1 .. 2 -> Nat] /\ 1 \in 1 .. 2 /\ 2 \in 1 .. 2
      BY <1>1
<1>3. rows \in Nat \ {0} /\ rows \in Nat /\ columns \in Nat \ {0} /\ across \in Nat \ {0}
      /\ columns \in Nat /\ across \in Nat
      BY <1>1, <1>2
<1>4. Product(size) = rows * columns /\ Product(shape) = shape[1] * across
      BY <1>2, ProductOfTwo
<1>5. scalar \in Nat \ {0} /\ scalar \in Nat
  <2>1. elemSize1[depth] \in {1, 2, 4, 8}
        BY <1>1, ElementSizes
  <2> QED  BY <2>1
<1>6. e = scalar * channels /\ b = scalar * others
      BY DEF elemSize
<1>7. e \in Nat \ {0} /\ b \in Nat \ {0} /\ b % scalar = 0
      BY <1>1, ElementSizes
<1>8. /\ step \in [1 .. 2 -> Nat \ {0}] /\ step[2] = e /\ row >= step[1 + 1] * size[1 + 1]
      /\ row % scalar = 0
      BY <1>2 DEF Carries
<1>9. row \in Nat \ {0}
      BY <1>2, <1>8
<1>10. shape[1] = rows /\ (rows * across) * others = (rows * columns) * channels
       BY <1>4
<1>11. e = elemSize(depth, channels) /\ b = elemSize(depth, others)
       OBVIOUS
<1>12. row >= step[2] * columns
       BY <1>8
<1>13. step[2] = e /\ step[1] = row
       BY <1>8
<1>14. by[1] = row /\ by[2] = b /\ by \in [1 .. 2 -> Nat \ {0}]
       BY <1>7, <1>9
<1> HIDE DEF scalar, e, b, row, rows, columns, across, by
<1>15. across * others = columns * channels
  <2> DEFINE x == across * others
             y == columns * channels
  <2>1. x \in Nat /\ y \in Nat
        BY <1>1, <1>3, ProductIsNat
  <2>2. rows * x = rows * y
        BY <1>1, <1>3, <1>10, Regroup
  <2> HIDE DEF x, y
  <2>3. x = y
        BY <1>3, <2>1, <2>2, Cancels
  <2> QED  BY <2>3 DEF x, y
<1>16. b * across = e * columns
  <2>1. (scalar * others) * across = (scalar * channels) * columns
        BY <1>1, <1>3, <1>5, <1>15, SameBytes
  <2> QED  BY <1>6, <2>1
<1>17. Carries(2, shape, by, depth, others)
  <2>1. row >= b * across
    <3> DEFINE x == b * across
    <3>1. x = step[2] * columns
          BY <1>16, <1>13
    <3> HIDE DEF x
    <3> QED  BY <1>12, <3>1 DEF x
  <2>2. \A i \in 1 .. 2 - 1 : by[i] >= by[i + 1] * shape[i + 1]
    <3> SUFFICES by[1] >= by[1 + 1] * shape[1 + 1]
        OBVIOUS
    <3>1. by[1 + 1] = b /\ shape[1 + 1] = across /\ by[1] = row
          BY <1>14 DEF across
    <3> QED  BY <2>1, <3>1
  <2>3. \A i \in 1 .. 2 : by[i] % elemSize1[depth] = 0
    <3>1. by[1] % scalar = 0 /\ by[2] % scalar = 0
          BY <1>7, <1>8, <1>14
    <3> QED  BY <3>1 DEF scalar
  <2> QED  BY <1>11, <1>14, <2>2, <2>3 DEF Carries
<1> DEFINE end == LogicalEnd(size, step, e)
           last == LogicalEnd(shape, by, b)
           whole == size[1] * step[1]
           part == shape[1] * by[1]
<1>18. end \in Nat /\ whole \in Nat
       BY <1>11, EndIsNat
<1>19. last \in Nat /\ part \in Nat
       BY <1>11, <1>17, EndIsNat
<1>20. part = whole
       BY <1>10, <1>13, <1>14 DEF rows
<1>21. last = end
  <2> DEFINE f == Spans(2, size, step)
             g == Spans(2, shape, by)
             edge == (rows - 1) * row
  <2>1. step \in [1 .. 2 -> Nat] /\ by \in [1 .. 2 -> Nat] /\ 2 \in Nat
        BY <1>8, <1>14
  <2>2. f \in [1 .. 2 -> Nat] /\ end = e + Sum(f)
        BY <1>1, <2>1, SpansType
  <2>3. g \in [1 .. 2 -> Nat] /\ last = b + Sum(g)
        BY <1>1, <2>1, SpansType
  <2>4. Sum(f) = f[1] + f[2] /\ Sum(g) = g[1] + g[2]
        BY <2>2, <2>3, SumOfTwo
  <2>5. f[1] = edge /\ g[1] = edge
        BY <1>2, <1>10, <1>13, <1>14 DEF Spans, rows
  <2>6. f[2] = (columns - 1) * e /\ g[2] = (across - 1) * b
        BY <1>2, <1>13, <1>14 DEF Spans, columns, across
  <2>7. edge \in Nat
        BY <1>3, <1>9, OneLess
  <2>8. (columns - 1) * e + e = columns * e /\ (across - 1) * b + b = across * b
        /\ (columns - 1) * e \in Nat /\ (across - 1) * b \in Nat
        BY <1>3, <1>7, OneLess
  <2>9. columns * e = across * b
    <3>1. columns * e = e * columns /\ across * b = b * across
          BY <1>3, <1>7, Commutes
    <3> QED  BY <1>16, <3>1
  <2> DEFINE x == (columns - 1) * e
             y == (across - 1) * b
             z == columns * e
             w == across * b
  <2>10. x + e = z /\ y + b = w /\ z = w /\ x \in Nat /\ y \in Nat
         BY <2>8, <2>9
  <2>11. end = e + (edge + x) /\ last = b + (edge + y)
         BY <2>2, <2>3, <2>4, <2>5, <2>6
  <2> HIDE DEF x, y, z, w, edge, end, last, f, g
  <2> QED  BY <1>7, <2>7, <2>10, <2>11
<1> HIDE DEF end, last, whole, part
<1>22. Fitted(2, size, step, depth, channels, 2, shape, by, others)
  <2>1. 2 \in Nat /\ 2 <= 2 /\ last <= end /\ part <= whole
        BY <1>18, <1>19, <1>20, <1>21
  <2> QED  BY <1>1, <1>11, <1>17, <1>18, <1>19, <2>1 DEF Fitted, end, last, whole, part
<1> QED  BY <1>22 DEF by, b, row

ReshapedStep(h, channels, size) ==
    LET packed == PackedSteps(size, elemSize(h.depth, channels))
    IN  IF Dimension_Count(h) = 2 /\ Len(size) = 2 /\ size[1] = h.size[1]
        THEN <<h.step[1], packed[2]>>
        ELSE packed

\* A target that Validate_ND_Reshape lets through fits into the matrix.
LEMMA ReshapeFits ==
    ASSUME NEW h, NEW n, n = Len(h.size), Sized(n, h.size, h.depth, h.channels),
           Carries(n, h.size, h.step, h.depth, h.channels),
           NEW q, NEW shape, q = Len(shape), NEW others, Sized(q, shape, h.depth, others),
           Product(shape) * others = Product(h.size) * h.channels
    PROVE  Fitted(n, h.size, h.step, h.depth, h.channels, q, shape,
                  ReshapedStep(h, others, shape), others)
<1> DEFINE size == h.size
           step == h.step
           depth == h.depth
           channels == h.channels
           b == elemSize(depth, others)
           packed == PackedSteps(shape, b)
           by == ReshapedStep(h, others, shape)
           keeps == n = 2 /\ q = 2 /\ shape[1] = size[1]
<1>1. /\ Sized(n, size, depth, channels) /\ Carries(n, size, step, depth, channels)
      /\ Sized(q, shape, depth, others)
      /\ Product(shape) * others = Product(size) * channels
      OBVIOUS
<1>2. by = IF keeps THEN <<step[1], packed[2]>> ELSE packed
      BY DEF ReshapedStep, Dimension_Count
<1>3. q = 2 => packed[2] = b
  <2> SUFFICES ASSUME q = 2 PROVE packed[2] = b
      OBVIOUS
  <2>1. q \in Nat \ {0} /\ shape \in [1 .. q -> Nat \ {0}] /\ depth \in DOMAIN elemSize1
        /\ others \in Nat \ {0} /\ b = elemSize(depth, others) /\ packed = PackedSteps(shape, b)
        BY DEF Sized
  <2> HIDE DEF b, packed, depth
  <2>2. PackedCarriesIn(q, shape, depth, others, b, packed)
        BY <2>1, PackedCarries
  <2> QED  BY <2>1, <2>2 DEF PackedCarriesIn, Carries
<1> HIDE DEF size, step, depth, channels, by, packed
<1>4. CASE keeps
  <2>1. Sized(2, size, depth, channels) /\ Carries(2, size, step, depth, channels)
        /\ Sized(2, shape, depth, others) /\ shape[1] = size[1]
        BY <1>1, <1>4
  <2>2. Fitted(2, size, step, depth, channels, 2, shape, <<step[1], elemSize(depth, others)>>,
               others)
        BY <1>1, <2>1, RowsFit
  <2>3. by = <<step[1], elemSize(depth, others)>>
        BY <1>2, <1>3, <1>4
  <2>4. Fitted(n, size, step, depth, channels, q, shape, by, others)
        BY <1>4, <2>2, <2>3
  <2> QED  BY <2>4 DEF size, step, depth, channels, by
<1>5. CASE ~ keeps
  <2>1. Fitted(n, size, step, depth, channels, q, shape, PackedSteps(shape, elemSize(depth, others)),
               others)
        BY <1>1, PackedFits
  <2>2. by = PackedSteps(shape, elemSize(depth, others))
        BY <1>2, <1>5 DEF packed, b
  <2>3. Fitted(n, size, step, depth, channels, q, shape, by, others)
        BY <2>1, <2>2
  <2> QED  BY <2>3 DEF size, step, depth, channels, by
<1> HIDE DEF keeps
<1> QED  BY <1>4, <1>5

\* A header of the new shape over the same data is sound.
LEMMA FittedSound ==
    ASSUME NEW n, NEW size, NEW step, NEW depth, NEW channels, NEW q, NEW shape, NEW by, NEW others,
           Fitted(n, size, step, depth, channels, q, shape, by, others),
           Sized(q, shape, depth, others), q <= NativeMaxDimensions, q <= MaxDimensions,
           NEW data \in Nat, NEW limit \in Nat, Buffer <= data, data % elemSize1[depth] = 0,
           data + LogicalEnd(size, step, elemSize(depth, channels)) <= limit,
           size[1] * step[1] <= limit - Buffer,
           NEW temporary \in BOOLEAN,
           NEW view, view = Fields(data, limit, shape, by, depth, others, temporary)
    PROVE  Sound(view)
<1> DEFINE end == LogicalEnd(size, step, elemSize(depth, channels))
           last == LogicalEnd(shape, by, elemSize(depth, others))
           whole == size[1] * step[1]
           part == shape[1] * by[1]
<1>1. Buffer \in Nat
      BY NDViewsAssumption
<1>2. /\ q \in Nat /\ 2 <= q /\ shape \in [1 .. q -> Nat \ {0}]
      /\ Carries(q, shape, by, depth, others)
      BY DEF Fitted
<1>3. /\ end \in Nat /\ last \in Nat /\ last <= end
      /\ whole \in Nat /\ part \in Nat /\ part <= whole
      BY DEF Fitted
<1>4. data + end <= limit /\ whole <= limit - Buffer
      OBVIOUS
<1>5. depth \in DOMAIN elemSize1 /\ others \in Nat \ {0}
      BY DEF Sized
<1> HIDE DEF end, last, whole, part
<1>6. data + last <= limit /\ part <= limit - Buffer
      BY <1>1, <1>3, <1>4
<1>7. /\ data + LogicalEnd(shape, by, elemSize(depth, others)) <= limit
      /\ shape[1] * by[1] <= limit - Buffer
      /\ view = [data |-> data, limit |-> limit, size |-> shape, step |-> by, depth |-> depth,
                 channels |-> others, temporary |-> temporary]
      BY <1>6 DEF last, part, Fields
<1> QED  BY <1>2, <1>5, <1>7, MakesSound

LEMMA SizedHeader ==
    ASSUME NEW h, Sound(h)
    PROVE  /\ Sized(Len(h.size), h.size, h.depth, h.channels)
           /\ Carries(Len(h.size), h.size, h.step, h.depth, h.channels)
           /\ Buffer <= h.data /\ h.data \in Nat /\ h.limit \in Nat
           /\ h.data + LogicalEnd(h.size, h.step, elemSize(h.depth, h.channels)) <= h.limit
           /\ h.size[1] * h.step[1] <= h.limit - Buffer
           /\ h.data % elemSize1[h.depth] = 0
           /\ h.temporary \in BOOLEAN /\ h.channels \in Nat \ {0}
           /\ Len(h.size) \in Nat \ {0} /\ Len(h.size) >= 2
           /\ Total(h) = Product(h.size)
<1> DEFINE n == Len(h.size)
           e == Element_Size(h)
<1>1. /\ n \in Nat \ {0} /\ n >= 2
      /\ h.size \in [1 .. n -> Nat \ {0}] /\ h.step \in [1 .. n -> Nat \ {0}]
      /\ e = elemSize(h.depth, h.channels) /\ h.step[n] = e
      /\ h.data \in Nat /\ h.limit \in Nat /\ h.depth \in DOMAIN elemSize1
      /\ h.channels \in Nat \ {0} /\ h.temporary \in BOOLEAN
      BY SoundLayout
<1>2. /\ Nests(h.size, h.step) /\ Buffer <= h.data
      /\ h.data + LogicalEnd(h.size, h.step, e) <= h.limit
      /\ h.size[1] * h.step[1] <= h.limit - Buffer /\ h.data % elemSize1[h.depth] = 0
      /\ \A i \in DOMAIN h.step : h.step[i] % elemSize1[h.depth] = 0
      BY DEF Sound
<1>3. Carries(n, h.size, h.step, h.depth, h.channels)
      BY <1>1, <1>2 DEF Carries, Nests
<1>4. Sized(n, h.size, h.depth, h.channels)
  <2>1. n \in Nat /\ 2 <= n
        BY <1>1
  <2> QED  BY <1>1, <2>1 DEF Sized
<1>5. Total(h) = Product(h.size)
  <2>1. h.size # << >>
    <3> SUFFICES ASSUME h.size = << >> PROVE FALSE
        OBVIOUS
    <3>1. Len(h.size) = 0
          OBVIOUS
    <3> QED  BY <1>1, <3>1
  <2> QED  BY <2>1 DEF Total
<1> QED  BY <1>1, <1>2, <1>3, <1>4, <1>5

LEMMA FinalizeHolds ==
    ASSUME Held, Finalize
    PROVE  Held' /\ Agreed'
<1>1. header' = Default /\ storage' = 0 /\ formed' = 0 /\ refused' = "nothing"
      BY DEF Finalize, Call
<1> QED  BY <1>1 DEF Held, Agreed

\* The shim lets through whatever Validate_ND_Reshape does, unless the matrix
\* is a view in a callback or OpenCV has no room for the dimensions.
LEMMA ReshapeAccepts ==
    ASSUME NEW h, Sound(h), h.limit <= MaxAddress,
           NEW shape \in Seq(Nat), NEW others \in Nat \ {0}, Validate_ND_Reshape(h, others, shape)
    PROVE  /\ Sized(Len(shape), shape, h.depth, others) /\ Len(shape) <= MaxDimensions
           /\ Product(shape) * others = Product(h.size) * h.channels
           /\ (mat_reshape_nd_accepts(h, others, shape) /\ Is_Continuous(h))
                <=> (~ h.temporary /\ Len(shape) <= NativeMaxDimensions)
<1> DEFINE q == Len(shape)
           n == Len(h.size)
           e == elemSize(h.depth, h.channels)
           end == LogicalEnd(h.size, h.step, e)
           product == Product(h.size)
           scalars == product * h.channels
<1>1. /\ Sized(n, h.size, h.depth, h.channels) /\ Carries(n, h.size, h.step, h.depth, h.channels)
      /\ h.data \in Nat /\ h.limit \in Nat /\ h.data + end <= h.limit
      /\ h.channels \in Nat \ {0} /\ Total(h) = product
      BY SizedHeader
<1>2. /\ ~ Is_Empty(h) /\ Is_Continuous(h) /\ DimensionsAccepted(shape)
      /\ \A i \in DOMAIN shape : shape[i] > 0
      BY DEF Validate_ND_Reshape
<1>3. q \in Nat /\ shape \in [1 .. q -> Nat \ {0}]
      BY <1>2, PositiveShape
<1>4. 2 <= q /\ q <= MaxDimensions
      BY <1>2, <1>3, NDViewsAssumption DEF DimensionsAccepted
<1>5. h.depth \in DOMAIN elemSize1
      BY <1>1 DEF Sized
<1>6. Sized(q, shape, h.depth, others)
      BY <1>3, <1>4, <1>5 DEF Sized
<1>7. e \in Nat \ {0} /\ e * product <= end /\ product \in Nat /\ end \in Nat
      BY <1>1, EndIsNat
<1>8. product \in Nat \ {0}
  <2>1. Total(h) # 0
        BY <1>2 DEF Is_Empty
  <2> QED  BY <1>1, <1>7, <2>1
<1>9. Product(shape) * others = scalars
  <2>1. Total(h) \in Nat \ {0}
        BY <1>1, <1>8
  <2> QED  BY <1>1, <2>1, ValidatedReshape
<1>10. Fits(scalars)
  <2> DEFINE scalar == elemSize1[h.depth]
             channels == h.channels
             data == h.data
             limit == h.limit
             bytes == e * product
             x == channels * product
  <2>1. scalar \in Nat \ {0}
    <3>1. elemSize1[h.depth] \in {1, 2, 4, 8}
          BY <1>5, ElementSizes
    <3> QED  BY <3>1
  <2>2. e = scalar * channels
        BY DEF elemSize
  <2>3. channels \in Nat /\ data \in Nat /\ limit \in Nat /\ data + end <= limit
        /\ limit <= MaxAddress
        BY <1>1
  <2>4. MaxAddress \in Nat
        BY NDViewsAssumption
  <2> HIDE DEF scalar, e, end, product, channels, data, limit
  <2>5. bytes = scalar * x /\ scalars = x /\ x \in Nat
    <3>1. (scalar * channels) * product = scalar * (channels * product)
          BY <1>7, <2>1, <2>3, Regroup
    <3>2. product * channels = channels * product
          BY <1>7, <2>3, Commutes
    <3>3. x \in Nat
          BY <1>7, <2>3, ProductIsNat
    <3> QED  BY <2>2, <3>1, <3>2, <3>3 DEF channels
  <2> DEFINE y == scalar * x
  <2>6. x <= y /\ y \in Nat
        BY <2>1, <2>5, NoLess
  <2>7. y <= end
        BY <1>7, <2>5
  <2> HIDE DEF x, y, scalars
  <2>8. x <= MaxAddress
        BY <1>7, <2>3, <2>4, <2>5, <2>6, <2>7
  <2> QED  BY <2>5, <2>8 DEF Fits
<1>11. (mat_reshape_nd_accepts(h, others, shape) /\ Is_Continuous(h))
         <=> (~ h.temporary /\ q <= NativeMaxDimensions)
  <2>1. /\ Fits(Product(shape) * others) /\ Fits(Total(h) * h.channels)
        /\ Product(shape) * others = Total(h) * h.channels
        BY <1>1, <1>9, <1>10
  <2>2. CapacityAccepted(shape) <=> q <= NativeMaxDimensions
        BY <1>4 DEF CapacityAccepted
  <2> HIDE DEF q
  <2> QED  BY <1>2, <2>1, <2>2 DEF mat_reshape_nd_accepts
<1> QED  BY <1>4, <1>6, <1>9, <1>11

\* A reshape shares the data.
LEMMA ReshapeHolds ==
    ASSUME Held, NEW t \in Targets, Reshape(t.channels, t.size)
    PROVE  Held' /\ Agreed'
<1> DEFINE h == header
           shape == t.size
           others == t.channels
           view == reshape(h, others, shape)
           accepts == mat_reshape_nd_accepts(h, others, shape) /\ Is_Continuous(h)
           what == "view"
           last == formed
           bytes == storage
           by == ReshapedStep(h, others, shape)
           n == Len(h.size)
           q == Len(shape)
<1>1. shape \in Seq(Nat) /\ others \in Nat \ {0} /\ Buffer \in Nat /\ MaxAddress \in Nat
      BY NDViewsAssumption
<1>2. Validate_ND_Reshape(h, others, shape)
      BY DEF Reshape
<1>3. Call(accepts, view, bytes, last, what)
      BY DEF Reshape
<1>4. header # Default
  <2> SUFFICES ASSUME header = Default PROVE FALSE
      OBVIOUS
  <2>1. header.size = << >>
        BY DEF Default
  <2>2. Is_Empty(header)
        BY <2>1 DEF Is_Empty, Total
  <2> QED  BY <1>2, <2>2 DEF Validate_ND_Reshape
<1>5. Sound(h) /\ bytes \in Nat /\ last \in Nat /\ h.limit <= Buffer + bytes
      /\ last <= Buffer + bytes /\ Buffer + bytes <= MaxAddress
      BY <1>4 DEF Held
<1>6. accepts \in BOOLEAN
      BY DEF mat_reshape_nd_accepts
<1>7. view = Refills(h, shape, others, by)
      BY DEF reshape, Refills, ReshapedStep
<1> HIDE DEF h, shape, others, accepts, what, last, bytes, view, by
<1>8. /\ Sized(n, h.size, h.depth, h.channels) /\ Carries(n, h.size, h.step, h.depth, h.channels)
      /\ Buffer <= h.data /\ h.data \in Nat /\ h.limit \in Nat
      /\ h.data + LogicalEnd(h.size, h.step, elemSize(h.depth, h.channels)) <= h.limit
      /\ h.size[1] * h.step[1] <= h.limit - Buffer
      /\ h.data % elemSize1[h.depth] = 0
      /\ h.temporary \in BOOLEAN /\ h.channels \in Nat \ {0}
      BY <1>5, SizedHeader
<1>9. h.limit <= MaxAddress
  <2> DEFINE limit == h.limit
  <2>1. limit \in Nat /\ limit <= Buffer + bytes
        BY <1>5, <1>8
  <2> HIDE DEF limit
  <2>2. limit <= MaxAddress
        BY <1>1, <1>5, <2>1
  <2> QED  BY <2>2 DEF limit
<1>10. /\ Sized(q, shape, h.depth, others) /\ q <= MaxDimensions
       /\ Product(shape) * others = Product(h.size) * h.channels
       /\ accepts <=> (~ h.temporary /\ q <= NativeMaxDimensions)
       BY <1>1, <1>2, <1>5, <1>9, ReshapeAccepts DEF accepts
<1>11. Fitted(n, h.size, h.step, h.depth, h.channels, q, shape, by, others)
       BY <1>8, <1>10, ReshapeFits DEF by
<1>12. view = Fields(h.data, h.limit, shape, by, h.depth, others, h.temporary)
  <2>1. h = Fields(h.data, h.limit, h.size, h.step, h.depth, h.channels, h.temporary)
        BY <1>5, FieldsOf DEF Sound
  <2> QED  BY <1>7, <2>1, Reshaped
<1>13. view.size = shape /\ view.limit = h.limit
       BY <1>12 DEF Fields
<1>14. accepts => Sound(view)
  <2> SUFFICES ASSUME accepts PROVE Sound(view)
      OBVIOUS
  <2>1. q <= NativeMaxDimensions
        BY <1>10
  <2> HIDE DEF n, q
  <2> QED  BY <1>8, <1>10, <1>11, <1>12, <2>1, FittedSound
<1>15. accepts => /\ Sound(view) /\ bytes \in Nat /\ last \in Nat
                  /\ view.limit <= Buffer + bytes /\ last <= Buffer + bytes
                  /\ Buffer + bytes <= MaxAddress
       BY <1>5, <1>13, <1>14
<1>16. ~ accepts => Len(view.size) > NativeMaxDimensions \/ (what = "view" /\ header.temporary)
  <2>1. q \in Nat /\ NativeMaxDimensions \in Nat
        BY <1>10, NDViewsAssumption DEF Sized
  <2> HIDE DEF q
  <2>2. ~ (q <= NativeMaxDimensions) => q > NativeMaxDimensions
        BY <2>1
  <2>3. ~ accepts => h.temporary \/ ~ (q <= NativeMaxDimensions)
        BY <1>10
  <2>4. Len(view.size) = q
        BY <1>13 DEF q
  <2> QED  BY <2>2, <2>3, <2>4 DEF what, h
<1> QED  BY <1>3, <1>6, <1>15, <1>16, CallHolds

-----------------------------------------------------------------------------
(***************************************************************************)
(* Every step.                                                             *)
(***************************************************************************)
LEMMA RangesType ==
    ASSUME NEW extent \in Nat, NEW r \in Ranges(extent)
    PROVE  r[1] \in Nat /\ r[2] \in Nat
<1>1. CASE r \in {x \in (0 .. extent) \X (1 .. extent) : x[1] < x[2]}
  <2>1. r[1] \in 0 .. extent /\ r[2] \in 1 .. extent
        BY <1>1
  <2> QED  BY <2>1
<1>2. CASE r = <<0, 0>> \/ r = <<0, extent + 1>>
      BY <1>2
<1> QED  BY <1>1, <1>2 DEF Ranges

LEMMA SelectionsType ==
    ASSUME Held, NEW s \in Selections(header), NEW n, n = Len(header.size)
    PROVE  /\ DOMAIN s = 1 .. n
           /\ [i \in 1 .. n |-> s[i][1]] \in [1 .. n -> Nat]
           /\ [i \in 1 .. n |-> s[i][2]] \in [1 .. n -> Nat]
<1>1. DOMAIN header.size = 1 .. n /\ \A i \in 1 .. n : header.size[i] \in Nat
  <2>1. CASE header = Default
    <3>1. header.size = << >>
          BY <2>1 DEF Default
    <3> QED  BY <3>1
  <2>2. CASE Sound(header)
    <3>1. header.size \in [1 .. n -> Nat \ {0}]
          BY <2>2, SoundLayout
    <3> QED  BY <3>1
  <2> QED  BY <2>1, <2>2 DEF Held
<1>2. DOMAIN s = 1 .. n
      BY <1>1 DEF Selections
<1>3. \A i \in 1 .. n : s[i] \in Ranges(header.size[i])
      BY <1>1 DEF Selections
<1>4. \A i \in 1 .. n : s[i][1] \in Nat /\ s[i][2] \in Nat
      BY <1>1, <1>3, RangesType
<1> QED  BY <1>2, <1>4

\* Whatever is constructed, derived or finalized.
LEMMA ViewNextHolds ==
    ASSUME Held, ViewNext
    PROVE  Held' /\ Agreed'
<1>1. CASE ConstructNext
  <2>1. CASE \E c \in Created : Create(c.size, c.depth, c.channels)
        BY <2>1, CreateHolds
  <2>2. ASSUME NEW c \in External, NEW length \in Lengths,
               Create_Packed_2D(c.size, c.depth, c.channels, length)
        PROVE  Held' /\ Agreed'
        BY <2>2, CreatePacked2DHolds
  <2>3. ASSUME NEW c \in External, NEW length \in Lengths,
               Create_Packed_ND(c.size, c.depth, c.channels, length)
        PROVE  Held' /\ Agreed'
        BY <2>3, CreatePackedNDHolds
  <2>4. ASSUME NEW c \in External, NEW length \in Lengths, NEW stride \in Strides,
               Create_Strided_2D(c.size, stride, c.depth, c.channels, length)
        PROVE  Held' /\ Agreed'
        BY <2>4, CreateStrided2DHolds
  <2>5. ASSUME NEW c \in External, NEW length \in Lengths, NEW stride \in [DOMAIN c.size -> Strides],
               Create_Strided_ND(c.size, stride, c.depth, c.channels, length)
        PROVE  Held' /\ Agreed'
        BY <2>5, CreateStridedNDHolds
  <2> QED  BY <1>1, <2>1, <2>2, <2>3, <2>4, <2>5 DEF ConstructNext
<1>2. CASE DeriveNext
  <2> DEFINE n == Len(header.size)
  <2>1. ASSUME NEW s \in Selections(header),
               Slice([i \in DOMAIN s |-> s[i][1]], [i \in DOMAIN s |-> s[i][2]])
        PROVE  Held' /\ Agreed'
    <3> DEFINE starts == [i \in 1 .. n |-> s[i][1]]
               stops == [i \in 1 .. n |-> s[i][2]]
    <3>1. DOMAIN s = 1 .. n /\ starts \in [1 .. n -> Nat] /\ stops \in [1 .. n -> Nat]
          /\ n = Len(header.size)
          BY SelectionsType
    <3>2. Slice(starts, stops)
          BY <2>1, <3>1
    <3> HIDE DEF starts, stops, n
    <3> QED  BY <3>1, <3>2, SliceHolds
  <2>2. ASSUME NEW s \in Selections(header), NEW drop \in SUBSET DOMAIN s,
               With_Selected_View(drop, [i \in DOMAIN s |-> s[i][1]], [i \in DOMAIN s |-> s[i][2]])
        PROVE  Held' /\ Agreed'
    <3> DEFINE starts == [i \in 1 .. n |-> s[i][1]]
               stops == [i \in 1 .. n |-> s[i][2]]
    <3>1. DOMAIN s = 1 .. n /\ starts \in [1 .. n -> Nat] /\ stops \in [1 .. n -> Nat]
          /\ n = Len(header.size)
          BY SelectionsType
    <3>2. With_Selected_View(drop, starts, stops) /\ drop \in SUBSET (1 .. n)
          BY <2>2, <3>1
    <3> HIDE DEF starts, stops, n
    <3> QED  BY <3>1, <3>2, SelectedHolds
  <2>3. ASSUME NEW t \in Targets, Reshape(t.channels, t.size)
        PROVE  Held' /\ Agreed'
        BY <2>3, ReshapeHolds
  <2> QED  BY <1>2, <2>1, <2>2, <2>3 DEF DeriveNext
<1>3. CASE Finalize
      BY <1>3, FinalizeHolds
<1> QED  BY <1>1, <1>2, <1>3 DEF ViewNext
=============================================================================
