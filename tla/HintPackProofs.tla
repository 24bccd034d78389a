--------------------------- MODULE HintPackProofs ---------------------------
(***************************************************************************)
(* Proofs about HintPack, for any number of rows, coefficients and hints:  *)
(* pack_sig and unpack_sig stay inside the bytes they own, unpacking gives *)
(* the vector back that was packed, and no second string of bytes is read  *)
(* as the same vector.                                                     *)
(***************************************************************************)
EXTENDS HintPack, FiniteSetTheorems, TLAPS

LEMMA Sizes ==
  /\ K \in Nat /\ K >= 1 /\ N \in Nat /\ OMEGA \in Nat /\ OMEGA < N
  /\ 0 \in Rows /\ 0 \in Byte
BY HintAssumption DEF Rows, Byte

\* A set of naturals that is not empty has a least element.
LEMMA Least ==
  ASSUME NEW T \in SUBSET Nat, T # {}
  PROVE  \E x \in T : \A y \in T : x <= y
<1> DEFINE R == OpToRel(<, Nat)
<1>1. \A x, y \in Nat : <<y, x>> \in R <=> y < x
  BY DEF OpToRel
<1>2. IsWellFoundedOn(R, Nat)
  BY NatLessThanWellFounded
<1> HIDE DEF R
<1>3. PICK x \in T : \A y \in T : ~ (<<y, x>> \in R)
  BY <1>2, WFMin
<1>4. \A y \in T : ~ (y < x)
  BY <1>1, <1>3, Zenon
<1>5. \A y \in T : x <= y
  BY <1>4
<1> QED BY <1>5

\* Induction, for a property given as a set.
LEMMA Induction ==
  ASSUME NEW T, 0 \in T, \A n \in Nat : n \in T => n + 1 \in T
  PROVE  Nat \subseteq T
<1> DEFINE U == Nat \ T
<1>1. SUFFICES ASSUME U # {} PROVE FALSE
  OBVIOUS
<1>2. PICK x \in U : \A y \in U : x <= y
  BY <1>1, Least
<1>3. x \in Nat /\ x # 0 /\ x - 1 \in Nat
  BY <1>2
<1>4. x - 1 \in T
  BY <1>2, <1>3
<1>5. (x - 1) + 1 \in T
  BY <1>3, <1>4
<1>6. (x - 1) + 1 = x
  BY <1>3
<1> QED BY <1>2, <1>5, <1>6

-----------------------------------------------------------------------------
(***************************************************************************)
(* One row: the cells a..b-1 list its ones in increasing order.            *)
(***************************************************************************)
Sorted(s, a, b) == \A p, q \in a..(b - 1) : p < q => s[p] < s[q]

Listed(s, a, b, x) == \E p \in a..(b - 1) : s[p] = x

Lists(s, a, b, row) == \A x \in Byte : row[x] = IF Listed(s, a, b, x) THEN 1 ELSE 0

\* One value more, above those listed.
LEMMA SortedMore ==
  ASSUME NEW a \in Nat, NEW b \in Nat, a <= b, NEW s, NEW t, Sorted(s, a, b),
         \A p \in a..(b - 1) : t[p] = s[p] /\ s[p] < t[b]
  PROVE  Sorted(t, a, b + 1)
<1>1. ASSUME NEW p \in a..(b + 1 - 1), NEW q \in a..(b + 1 - 1), p < q
      PROVE  t[p] < t[q]
  <2>1. p \in a..(b - 1) /\ (q = b \/ q \in a..(b - 1))
    BY <1>1
  <2> QED BY <1>1, <2>1 DEF Sorted
<1> QED BY <1>1 DEF Sorted

RowDone(s, v, r) ==
  /\ First(s, r) <= s[OMEGA + r] /\ s[OMEGA + r] <= OMEGA
  /\ Sorted(s, First(s, r), s[OMEGA + r])
  /\ Lists(s, First(s, r), s[OMEGA + r], v[r])

RowsDone(s, v, n) == \A r \in 0..(n - 1) : RowDone(s, v, r)

\* Encodes is RowsDone of all rows, and zeroes.
LEMMA EncodesRows ==
  ASSUME NEW s, NEW v
  PROVE  Encodes(s, v) <=> /\ RowsDone(s, v, K)
                           /\ \A p \in First(s, K)..(OMEGA - 1) : s[p] = 0
<1>1. First(s, K) = s[OMEGA + K - 1]
  BY Sizes DEF First
<1>2. RowsDone(s, v, K) <=>
        /\ \A r \in Rows : First(s, r) <= s[OMEGA + r] /\ s[OMEGA + r] <= OMEGA
        /\ \A r \in Rows : \A p, q \in Segment(s, r) : p < q => s[p] < s[q]
        /\ \A r \in Rows : \A x \in Byte :
             v[r][x] = IF \E p \in Segment(s, r) : s[p] = x THEN 1 ELSE 0
  BY Zenon DEF RowsDone, RowDone, Rows, Sorted, Lists, Listed, Segment
<1> QED BY <1>1, <1>2, Zenon DEF Encodes

\* The bytes that a row is read from are those before its counter.
LEMMA RowFrame ==
  ASSUME NEW s, NEW t, NEW v, NEW w, NEW r \in Rows,
         s \in [Cells -> Byte], t \in [Cells -> Byte],
         First(s, r) = First(t, r), s[OMEGA + r] = t[OMEGA + r],
         \A p \in First(s, r)..(s[OMEGA + r] - 1) : s[p] = t[p],
         v[r] = w[r], RowDone(s, v, r)
  PROVE  RowDone(t, w, r)
<1> DEFINE f == First(s, r)
           g == s[OMEGA + r]
<1>1. /\ f = First(t, r) /\ g = t[OMEGA + r] /\ f <= g /\ g <= OMEGA
      /\ Sorted(s, f, g) /\ Lists(s, f, g, v[r]) /\ v[r] = w[r]
      /\ \A p \in f..(g - 1) : s[p] = t[p]
  BY DEF RowDone
<1> HIDE DEF f, g
<1>2. Sorted(t, f, g)
  BY <1>1 DEF Sorted
<1>3. \A x : Listed(t, f, g, x) <=> Listed(s, f, g, x)
  BY <1>1 DEF Listed
<1>4. Lists(t, f, g, w[r])
  BY <1>1, <1>3 DEF Lists
<1>5. RowDone(t, w, r) <=> /\ First(t, r) <= t[OMEGA + r] /\ t[OMEGA + r] <= OMEGA
                           /\ Sorted(t, First(t, r), t[OMEGA + r])
                           /\ Lists(t, First(t, r), t[OMEGA + r], w[r])
  BY DEF RowDone
<1> QED BY <1>1, <1>2, <1>4, <1>5

\* Two lists in increasing order of the same values, from the same cell on:
\* the first ends no later than the second and agrees with it.
LEMMA SameValues ==
  ASSUME NEW a \in Nat, NEW b \in Nat, NEW c \in Nat, a <= b, a <= c,
         NEW s, NEW t, \A p \in a..(b - 1) : s[p] \in Int, \A p \in a..(c - 1) : t[p] \in Int,
         Sorted(s, a, b), Sorted(t, a, c),
         \A p \in a..(b - 1) : Listed(t, a, c, s[p]),
         \A p \in a..(c - 1) : Listed(s, a, b, t[p])
  PROVE  b <= c /\ \A p \in a..(b - 1) : s[p] = t[p]
<1> DEFINE T == {p \in a..(b - 1) : p >= c \/ s[p] # t[p]}
<1>1. SUFFICES T = {}
  <2>1. ASSUME T = {} PROVE \A p \in a..(b - 1) : p < c /\ s[p] = t[p]
    BY <2>1
  <2>2. ASSUME \A p \in a..(b - 1) : p < c /\ s[p] = t[p] PROVE b <= c
    <3>1. CASE a = b
      BY <3>1
    <3>2. CASE a < b
      BY <2>2, <3>2
    <3> QED BY <3>1, <3>2
  <2> QED BY <2>1, <2>2
<1>2. SUFFICES ASSUME T # {} PROVE FALSE
  OBVIOUS
<1>3. PICK p \in T : \A n \in T : p <= n
  <2>1. T \in SUBSET Nat
    OBVIOUS
  <2> HIDE DEF T
  <2> QED BY <1>2, <2>1, Least
<1>4. p \in a..(b - 1) /\ p \in Nat /\ \A n \in a..(p - 1) : n < c /\ s[n] = t[n]
  <2>1. p \in a..(b - 1) /\ p \in Nat
    OBVIOUS
  <2>2. ASSUME NEW n \in a..(p - 1) PROVE n < c /\ s[n] = t[n]
    <3>1. n \in a..(b - 1) /\ ~(p <= n)
      BY <2>1
    <3>2. n \notin T
      BY <1>3, <3>1
    <3> QED BY <3>1, <3>2
  <2> QED BY <2>1, <2>2
<1>5. PICK q \in a..(c - 1) : t[q] = s[p]
  BY <1>4 DEF Listed
<1>6. CASE q < p
  BY <1>4, <1>5, <1>6 DEF Sorted
<1>7. CASE q = p
  BY <1>3, <1>5, <1>7
<1>8. CASE q > p
  <2>1. p \in a..(c - 1) /\ t[p] < t[q]
    BY <1>4, <1>5, <1>8 DEF Sorted
  <2>2. PICK n \in a..(b - 1) : s[n] = t[p]
    BY <2>1 DEF Listed
  <2>3. s[n] < s[p]
    BY <1>5, <2>1, <2>2
  <2>4. n < p
    BY <1>4, <2>2, <2>3 DEF Sorted
  <2>5. t[n] = t[p] /\ n \in a..(c - 1)
    BY <1>4, <2>2, <2>4
  <2> QED BY <2>1, <2>4, <2>5 DEF Sorted
<1> QED BY <1>4, <1>5, <1>6, <1>7, <1>8

LEMMA FirstType ==
  ASSUME NEW s \in [Cells -> Byte]
  PROVE  /\ \A r \in 0..K : First(s, r) \in Byte
         /\ \A r \in Rows : s[OMEGA + r] \in Byte /\ First(s, r + 1) = s[OMEGA + r]
         /\ \A p \in 0..(OMEGA - 1) : p \in Cells /\ s[p] \in Byte
<1>1. \A r \in Rows : OMEGA + r \in Cells
  BY Sizes DEF Rows, Cells
<1>2. \A r \in 0..K : r = 0 \/ (r - 1 \in Rows /\ OMEGA + r - 1 = OMEGA + (r - 1))
  BY Sizes DEF Rows
<1>3. \A r \in Rows : r + 1 # 0 /\ OMEGA + (r + 1) - 1 = OMEGA + r
  BY Sizes DEF Rows
<1>4. \A p \in 0..(OMEGA - 1) : p \in Cells
  BY Sizes DEF Cells
<1> QED BY <1>1, <1>2, <1>3, <1>4, Sizes DEF First

\* Rows done stay done while the cells in front and their counters stay.
LEMMA RowsFrame ==
  ASSUME NEW s \in [Cells -> Byte], NEW t \in [Cells -> Byte], NEW v,
         NEW n \in 0..K, NEW m \in Nat,
         \A r \in 0..(n - 1) : s[OMEGA + r] = t[OMEGA + r] /\ s[OMEGA + r] <= m,
         \A p \in 0..(m - 1) : s[p] = t[p],
         RowsDone(s, v, n)
  PROVE  RowsDone(t, v, n)
<1> SUFFICES ASSUME NEW r \in 0..(n - 1) PROVE RowDone(t, v, r)
  BY DEF RowsDone
<1>1. r \in Rows /\ r \in 0..K /\ RowDone(s, v, r) /\ s[OMEGA + r] <= m
      /\ s[OMEGA + r] = t[OMEGA + r]
  BY Sizes DEF Rows, RowsDone
<1>2. First(s, r) \in Nat /\ s[OMEGA + r] \in Nat
  BY <1>1, FirstType DEF Byte
<1>3. First(s, r) = First(t, r)
  <2>1. CASE r = 0
    BY <2>1 DEF First
  <2>2. CASE r # 0
    <3>1. r - 1 \in 0..(n - 1) /\ OMEGA + r - 1 = OMEGA + (r - 1)
      BY <2>2, Sizes
    <3> QED BY <2>2, <3>1 DEF First
  <2> QED BY <2>1, <2>2
<1>4. \A p \in First(s, r)..(s[OMEGA + r] - 1) : s[p] = t[p]
  BY <1>1, <1>2
<1> QED BY <1>1, <1>3, <1>4, RowFrame

LEMMA OneRowMore ==
  ASSUME NEW s, NEW v, NEW n \in Nat, RowsDone(s, v, n), RowDone(s, v, n)
  PROVE  RowsDone(s, v, n + 1)
<1> SUFFICES ASSUME NEW r \in 0..(n + 1 - 1) PROVE RowDone(s, v, r)
  BY DEF RowsDone
<1>1. r \in 0..(n - 1) \/ r = n
  OBVIOUS
<1> QED BY <1>1 DEF RowsDone

\* A row that two strings list from the same cell on has the same cells and
\* the same counter in both.
LEMMA RowAgrees ==
  ASSUME NEW s \in [Cells -> Byte], NEW t \in [Cells -> Byte], NEW v, NEW r \in Rows,
         RowDone(s, v, r), RowDone(t, v, r), First(s, r) = First(t, r)
  PROVE  /\ s[OMEGA + r] = t[OMEGA + r]
         /\ \A p \in First(s, r)..(s[OMEGA + r] - 1) : s[p] = t[p]
<1> DEFINE a == First(s, r)
           b == s[OMEGA + r]
           c == t[OMEGA + r]
<1>1. a \in Nat /\ b \in Nat /\ c \in Nat
  BY FirstType, Sizes DEF Rows, Byte
<1>2. /\ a <= b /\ b <= OMEGA /\ Sorted(s, a, b) /\ Lists(s, a, b, v[r])
      /\ a <= c /\ c <= OMEGA /\ Sorted(t, a, c) /\ Lists(t, a, c, v[r])
  BY DEF RowDone
<1> HIDE DEF a, b, c
<1>3. /\ \A p \in a..(b - 1) : s[p] \in Byte
      /\ \A p \in a..(c - 1) : t[p] \in Byte
  BY <1>1, <1>2, Sizes, FirstType
<1>4. /\ \A p \in a..(b - 1) : s[p] \in Int
      /\ \A p \in a..(c - 1) : t[p] \in Int
  BY <1>3 DEF Byte
<1>5. \A x \in Byte : Listed(s, a, b, x) <=> Listed(t, a, c, x)
  BY <1>2 DEF Lists
<1>6. /\ \A p \in a..(b - 1) : Listed(t, a, c, s[p])
      /\ \A p \in a..(c - 1) : Listed(s, a, b, t[p])
  BY <1>3, <1>5 DEF Listed
<1>7. b <= c /\ \A p \in a..(b - 1) : s[p] = t[p]
  BY <1>1, <1>2, <1>4, <1>6, SameValues
<1>8. c <= b
  BY <1>1, <1>2, <1>4, <1>6, SameValues
<1>9. b = c
  BY <1>1, <1>7, <1>8
<1> QED BY <1>7, <1>9 DEF a, b, c

\* Two strings that encode one vector are the same.
LEMMA OneString ==
  ASSUME NEW s \in [Cells -> Byte], NEW t \in [Cells -> Byte], NEW v,
         Encodes(s, v), Encodes(t, v)
  PROVE  s = t
<1> DEFINE Agree(n) == /\ First(s, n) = First(t, n)
                       /\ \A p \in 0..(First(s, n) - 1) : s[p] = t[p]
                       /\ \A r \in 0..(n - 1) : s[OMEGA + r] = t[OMEGA + r]
           T == {n \in Nat : n <= K => Agree(n)}
<1>1. RowsDone(s, v, K) /\ RowsDone(t, v, K)
  BY EncodesRows
<1>2. Agree(0)
  BY DEF First
<1>3. ASSUME NEW n \in Nat, Agree(n), n < K PROVE Agree(n + 1)
  <2>1. n \in Rows /\ n \in 0..(K - 1) /\ n \in 0..K
    BY <1>3, Sizes DEF Rows
  <2>2. RowDone(s, v, n) /\ RowDone(t, v, n)
    BY <1>1, <2>1 DEF RowsDone
  <2>3. /\ s[OMEGA + n] = t[OMEGA + n]
        /\ \A p \in First(s, n)..(s[OMEGA + n] - 1) : s[p] = t[p]
    BY <1>3, <2>1, <2>2, RowAgrees
  <2>4. /\ First(s, n + 1) = s[OMEGA + n] /\ First(t, n + 1) = t[OMEGA + n]
        /\ First(s, n) \in Nat /\ s[OMEGA + n] \in Nat
    BY <2>1, FirstType DEF Byte
  <2>5. \A p \in 0..(s[OMEGA + n] - 1) : s[p] = t[p]
    <3>1. \A p \in 0..(s[OMEGA + n] - 1) :
            p \in 0..(First(s, n) - 1) \/ p \in First(s, n)..(s[OMEGA + n] - 1)
      BY <2>4
    <3> QED BY <1>3, <2>3, <3>1
  <2>6. \A r \in 0..n : r \in 0..(n - 1) \/ r = n
    OBVIOUS
  <2>7. n + 1 - 1 = n
    OBVIOUS
  <2> QED BY <1>3, <2>3, <2>4, <2>5, <2>6, <2>7
<1>4. 0 \in T
  BY <1>2
<1>5. ASSUME NEW n \in Nat, n \in T PROVE n + 1 \in T
  <2>1. SUFFICES ASSUME n + 1 <= K PROVE Agree(n + 1)
    OBVIOUS
  <2>2. n <= K /\ n < K
    BY <2>1, Sizes
  <2> QED BY <1>3, <1>5, <2>2
<1> HIDE DEF T
<1>6. Nat \subseteq T
  BY <1>4, <1>5, Induction
<1>7. Agree(K)
  BY <1>6, Sizes DEF T
<1>8. ASSUME NEW p \in Cells PROVE s[p] = t[p]
  <2>1. First(s, K) \in Nat /\ First(s, K) = First(t, K)
    BY <1>7, FirstType, Sizes DEF Byte
  <2>2. CASE p < First(s, K)
    BY <1>7, <2>1, <2>2 DEF Cells
  <2>3. CASE p >= First(s, K) /\ p < OMEGA
    <3>1. p \in First(s, K)..(OMEGA - 1)
      BY <2>1, <2>3, Sizes DEF Cells
    <3> QED BY <2>1, <3>1, EncodesRows
  <2>4. CASE p >= OMEGA
    <3>1. p - OMEGA \in 0..(K - 1) /\ OMEGA + (p - OMEGA) = p
      BY <2>4, Sizes DEF Cells
    <3> QED BY <1>7, <3>1
  <2> QED BY <2>1, <2>2, <2>3, <2>4, Sizes DEF Cells
<1> QED BY <1>8

\* One string encodes one vector.
LEMMA OneVector ==
  ASSUME NEW s, NEW v, NEW w, Encodes(s, v), Encodes(s, w), NEW r \in Rows, NEW x \in Byte
  PROVE  v[r][x] = w[r][x]
<1> DEFINE One == \E p \in Segment(s, r) : s[p] = x
<1>1. v[r][x] = IF One THEN 1 ELSE 0
  BY Zenon DEF Encodes
<1>2. w[r][x] = IF One THEN 1 ELSE 0
  BY Zenon DEF Encodes
<1> QED BY <1>1, <1>2

-----------------------------------------------------------------------------
(***************************************************************************)
(* pack_sig                                                                *)
(***************************************************************************)
\* The ones in front of coefficient b of row a.
Before(a, b) == {p \in OnesOf(h) : p[1] < a \/ (p[1] = a /\ p[2] < b)}

PackInv ==
  /\ Packable(h) /\ i \in 0..K /\ j \in 0..N /\ (i = K => j = 0)
  /\ k = Cardinality(Before(i, j))
  /\ RowsDone(sig, h, i) /\ \A r \in 0..(i - 1) : sig[OMEGA + r] <= k
  /\ First(sig, i) <= k /\ (j = 0 => k = First(sig, i))
  /\ Sorted(sig, First(sig, i), k)
  /\ \A x \in Byte : Listed(sig, First(sig, i), k, x) <=> (x < j /\ h[i][x] = 1)
  /\ \A p \in k..(OMEGA - 1) : sig[p] = 0

\* pack_sig counts the ones behind it, and they are OMEGA at most.
LEMMA OnesFinite ==
  ASSUME h \in Hints
  PROVE  /\ IsFiniteSet(OnesOf(h)) /\ Cardinality(OnesOf(h)) \in Nat
         /\ \A a, b : /\ IsFiniteSet(Before(a, b)) /\ Cardinality(Before(a, b)) \in Nat
                      /\ Cardinality(Before(a, b)) <= Cardinality(OnesOf(h))
<1>1. IsFiniteSet(Rows) /\ IsFiniteSet(Byte)
  BY Sizes, FS_Interval DEF Rows, Byte
<1>2. IsFiniteSet(Rows \X Byte)
  BY <1>1, FS_Product
<1>3. IsFiniteSet(OnesOf(h))
  BY <1>2, FS_Subset DEF OnesOf
<1>4. \A a, b : Before(a, b) \in SUBSET OnesOf(h)
  BY DEF Before
<1> QED BY <1>3, <1>4, FS_Subset, FS_CardinalityType

LEMMA NextOne ==
  ASSUME h \in Hints, Packable(h), NEW a \in Rows, NEW b \in Byte
  PROVE  IF h[a][b] = 1
         THEN /\ Cardinality(Before(a, b + 1)) = Cardinality(Before(a, b)) + 1
              /\ Cardinality(Before(a, b)) < OMEGA
         ELSE Before(a, b + 1) = Before(a, b)
<1>1. \A p \in OnesOf(h) : p \in Rows \X Byte /\ p = <<p[1], p[2]>> /\ p[1] \in Int /\ p[2] \in Int
  BY DEF OnesOf, Rows, Byte
<1>2. a \in Int /\ b \in Int
  BY DEF Rows, Byte
<1>3. CASE h[a][b] = 1
  <2>1. <<a, b>> \in OnesOf(h) /\ <<a, b>> \notin Before(a, b)
    BY <1>2, <1>3 DEF OnesOf, Before
  <2>2. Before(a, b + 1) = Before(a, b) \cup {<<a, b>>}
    <3>1. ASSUME NEW p \in Before(a, b + 1) PROVE p \in Before(a, b) \cup {<<a, b>>}
      <4>1. p \in OnesOf(h) /\ (p[1] < a \/ (p[1] = a /\ p[2] < b + 1))
        BY <3>1 DEF Before
      <4>2. p[1] < a \/ (p[1] = a /\ p[2] < b) \/ (p[1] = a /\ p[2] = b)
        BY <1>1, <1>2, <4>1
      <4>3. CASE p[1] = a /\ p[2] = b
        BY <1>1, <4>1, <4>3
      <4> QED BY <4>1, <4>2, <4>3 DEF Before
    <3>2. ASSUME NEW p \in Before(a, b) PROVE p \in Before(a, b + 1)
      <4>1. p \in OnesOf(h) /\ (p[1] < a \/ (p[1] = a /\ p[2] < b))
        BY <3>2 DEF Before
      <4>2. p[1] < a \/ (p[1] = a /\ p[2] < b + 1)
        BY <1>1, <1>2, <4>1
      <4> QED BY <4>1, <4>2 DEF Before
    <3>3. <<a, b>> \in Before(a, b + 1)
      BY <1>2, <2>1 DEF Before
    <3> QED BY <3>1, <3>2, <3>3
  <2>3. Cardinality(Before(a, b + 1)) = Cardinality(Before(a, b)) + 1
    BY <2>1, <2>2, OnesFinite, FS_AddElement
  <2>4. Cardinality(Before(a, b + 1)) <= OMEGA
    BY OnesFinite, Sizes DEF Packable
  <2> QED BY <1>3, <2>3, <2>4, OnesFinite, Sizes
<1>4. CASE h[a][b] # 1
  <2>1. <<a, b>> \notin OnesOf(h)
    BY <1>4 DEF OnesOf
  <2>2. \A p \in OnesOf(h) : ~(p[1] = a /\ p[2] = b)
    BY <1>1, <2>1
  <2>3. \A p \in OnesOf(h) : (p[1] < a \/ (p[1] = a /\ p[2] < b + 1))
                               <=> (p[1] < a \/ (p[1] = a /\ p[2] < b))
    BY <1>1, <1>2, <2>2
  <2> QED BY <1>4, <2>3 DEF Before
<1> QED BY <1>3, <1>4

LEMMA NextRow ==
  ASSUME NEW a \in Nat
  PROVE  Before(a, N) = Before(a + 1, 0)
<1>1. \A p \in OnesOf(h) : p[1] \in Int /\ p[2] \in Int /\ 0 <= p[2] /\ p[2] < N
  BY Sizes DEF OnesOf, Rows, Byte
<1>2. \A p \in OnesOf(h) : (p[1] < a \/ (p[1] = a /\ p[2] < N))
                             <=> (p[1] < a + 1 \/ (p[1] = a + 1 /\ p[2] < 0))
  BY <1>1
<1> QED BY <1>2 DEF Before

\* A coefficient that is zero, or is written at the next position.
LEMMA PackCoeffStep == TypeOK /\ PackInv /\ PackCoeff => (TypeOK /\ PackInv)'
<1> SUFFICES ASSUME TypeOK, PackInv, PackCoeff PROVE (TypeOK /\ PackInv)'
  OBVIOUS
<1> DEFINE f == First(sig, i)
<1>1. /\ i \in Rows /\ j \in Byte /\ i < K /\ j < N /\ h \in Hints /\ sig \in [Cells -> Byte]
      /\ i' = i /\ j' = j + 1 /\ j + 1 \in 0..N /\ j + 1 # 0
      /\ UNCHANGED <<pc, h, out, ret>> /\ pc = "pack" /\ h[i][j] \in {0, 1}
  BY Sizes DEF TypeOK, PackInv, PackCoeff, Rows, Byte, Hints
<1>2. /\ Packable(h) /\ k = Cardinality(Before(i, j)) /\ RowsDone(sig, h, i)
      /\ \A r \in 0..(i - 1) : sig[OMEGA + r] <= k
      /\ f \in Nat /\ f <= k /\ Sorted(sig, f, k)
      /\ \A x \in Byte : Listed(sig, f, k, x) <=> (x < j /\ h[i][x] = 1)
      /\ \A p \in k..(OMEGA - 1) : sig[p] = 0
  BY <1>1, FirstType DEF PackInv, Byte
<1>3. k \in Nat /\ k <= OMEGA
  BY DEF TypeOK
<1>4. CASE h[i][j] = 0
  <2>1. UNCHANGED <<sig, k>> /\ Before(i, j + 1) = Before(i, j)
    BY <1>1, <1>2, <1>4, NextOne DEF PackCoeff
  <2>2. \A x \in Byte : Listed(sig, f, k, x) <=> (x < j + 1 /\ h[i][x] = 1)
    <3>1. \A x \in Byte : x < j + 1 <=> x < j \/ x = j
      BY <1>1 DEF Byte
    <3> QED BY <1>2, <1>4, <3>1
  <2>3. Before(i, j)' = Before(i, j + 1)
    BY <1>1 DEF Before
  <2>4. TypeOK'
    BY <1>1, <2>1 DEF TypeOK
  <2>5. First(sig, i)' = f
    BY <1>1, <2>1
  <2>6. PackInv'
    BY <1>1, <1>2, <2>1, <2>2, <2>3, <2>5 DEF PackInv
  <2> QED BY <2>4, <2>6
<1>5. CASE h[i][j] = 1
  <2>1. sig' = [sig EXCEPT ![k] = j] /\ k' = k + 1
    BY <1>1, <1>5 DEF PackCoeff
  <2>2. k < OMEGA /\ k + 1 = Cardinality(Before(i, j + 1))
    BY <1>1, <1>2, <1>5, NextOne
  <2>3. /\ k \in Cells /\ sig' \in [Cells -> Byte] /\ sig'[k] = j
        /\ \A p \in Cells : p # k => sig'[p] = sig[p]
    BY <1>1, <1>3, <2>1, <2>2, Sizes DEF Cells
  <2>4. /\ \A r \in 0..i : First(sig', r) = First(sig, r)
        /\ \A r \in Rows : sig'[OMEGA + r] = sig[OMEGA + r]
    <3>1. \A r \in Rows : OMEGA + r \in Cells /\ OMEGA + r # k
      BY <1>3, <2>2, Sizes DEF Cells, Rows
    <3>2. \A r \in 0..i : r = 0 \/ (OMEGA + r - 1 \in Cells /\ OMEGA + r - 1 # k)
      BY <1>1, <1>3, <2>2, Sizes DEF Cells, Rows
    <3> QED BY <2>3, <3>1, <3>2 DEF First
  <2>5. \A p \in f..(k - 1) : p \in Cells /\ p # k /\ sig'[p] = sig[p] /\ sig[p] \in Byte
    <3>1. \A p \in f..(k - 1) : p \in Cells /\ p # k
      BY <1>2, <1>3, Sizes DEF Cells
    <3> QED BY <1>1, <2>3, <3>1
  <2>6. RowsDone(sig', h, i)
    <3> SUFFICES ASSUME NEW r \in 0..(i - 1) PROVE RowDone(sig', h, r)
      BY DEF RowsDone
    <3>1. r \in Rows /\ r \in 0..i /\ RowDone(sig, h, r) /\ sig[OMEGA + r] <= k
      BY <1>1, <1>2, Sizes DEF Rows, RowsDone
    <3>2. First(sig, r) \in Nat /\ sig[OMEGA + r] \in Nat
      BY <1>1, <3>1, FirstType, Sizes DEF Byte, Rows
    <3>3. \A p \in First(sig, r)..(sig[OMEGA + r] - 1) : p \in Cells /\ p # k
      BY <1>3, <3>1, <3>2, Sizes DEF Cells
    <3>4. \A p \in First(sig, r)..(sig[OMEGA + r] - 1) : sig[p] = sig'[p]
      BY <2>3, <3>3
    <3> QED BY <1>1, <2>3, <2>4, <3>1, <3>4, RowFrame
  <2>7. \A x \in Byte : Listed(sig', f, k + 1, x) <=> (x < j + 1 /\ h[i][x] = 1)
    <3>1. \A p : p \in f..(k + 1 - 1) <=> p \in f..(k - 1) \/ p = k
      BY <1>2, <1>3
    <3>2. \A x : Listed(sig', f, k + 1, x) <=> Listed(sig, f, k, x) \/ x = j
      BY <2>3, <2>5, <3>1 DEF Listed
    <3>3. \A x \in Byte : x < j + 1 <=> x < j \/ x = j
      BY <1>1 DEF Byte
    <3> QED BY <1>2, <1>5, <3>2, <3>3
  <2>8. Sorted(sig', f, k + 1)
    <3>1. \A p \in f..(k - 1) : sig[p] < j
      <4>1. \A p \in f..(k - 1) : Listed(sig, f, k, sig[p])
        BY Zenon DEF Listed
      <4> QED BY <1>2, <2>5, <4>1
    <3> QED BY <1>2, <1>3, <2>3, <2>5, <3>1, SortedMore
  <2>9. \A p \in (k + 1)..(OMEGA - 1) : sig'[p] = 0
    <3>1. \A p \in (k + 1)..(OMEGA - 1) : p \in k..(OMEGA - 1) /\ p # k /\ p \in Cells
      BY <1>3, Sizes DEF Cells
    <3> QED BY <1>2, <2>3, <3>1
  <2>10. Before(i, j)' = Before(i, j + 1)
    BY <1>1 DEF Before
  <2>11. First(sig, i)' = f
    BY <1>1, <2>4 DEF TypeOK
  <2>12. \A r \in 0..(i - 1) : sig'[OMEGA + r] <= k + 1
    <3>1. \A r \in 0..(i - 1) : r \in Rows /\ sig[OMEGA + r] \in Nat
      BY <1>1, FirstType, Sizes DEF Rows, Byte
    <3> QED BY <1>2, <1>3, <2>4, <3>1
  <2>13. k + 1 \in 0..OMEGA /\ f <= k + 1
    BY <1>2, <1>3, <2>2, Sizes
  <2>14. TypeOK'
    BY <1>1, <2>1, <2>3, <2>13 DEF TypeOK
  <2>15. k' = Cardinality(Before(i, j))' /\ k' = k + 1
    BY <2>1, <2>2, <2>10
  <2>16. RowsDone(sig, h, i)' /\ (\A r \in 0..(i - 1) : sig[OMEGA + r] <= k)'
    BY <1>1, <2>6, <2>12, <2>15
  <2>17. /\ First(sig, i)' <= k' /\ Sorted(sig', First(sig, i)', k')
         /\ \A p \in k'..(OMEGA - 1) : sig'[p] = 0
    BY <2>8, <2>9, <2>11, <2>13, <2>15
  <2>18. \A x \in Byte : Listed(sig', First(sig, i)', k', x) <=> (x < j' /\ h'[i'][x] = 1)
    BY <1>1, <2>7, <2>11, <2>15
  <2>19. PackInv'
    BY <1>1, <1>2, <2>15, <2>16, <2>17, <2>18 DEF PackInv
  <2> QED BY <2>14, <2>19
<1> QED BY <1>1, <1>4, <1>5


\* A row's counter.
LEMMA PackRowStep == TypeOK /\ PackInv /\ PackRow => (TypeOK /\ PackInv)'
<1> SUFFICES ASSUME TypeOK, PackInv, PackRow PROVE (TypeOK /\ PackInv)'
  OBVIOUS
<1>1. /\ i \in Rows /\ i \in 0..K /\ i < K /\ j = N /\ h \in Hints /\ sig \in [Cells -> Byte]
      /\ i' = i + 1 /\ j' = 0 /\ UNCHANGED <<pc, h, out, k, ret>>
      /\ i + 1 \in 0..K /\ 0 \in 0..N /\ i \in Nat /\ k \in Nat /\ k <= OMEGA
  BY Sizes DEF TypeOK, PackRow, Rows
<1>2. /\ Packable(h) /\ k = Cardinality(Before(i, N)) /\ RowsDone(sig, h, i)
      /\ \A r \in 0..(i - 1) : sig[OMEGA + r] <= k
      /\ First(sig, i) <= k /\ Sorted(sig, First(sig, i), k)
      /\ \A x \in Byte : Listed(sig, First(sig, i), k, x) <=> (x < N /\ h[i][x] = 1)
      /\ \A p \in k..(OMEGA - 1) : sig[p] = 0
  BY <1>1 DEF PackInv
<1>3. /\ sig' = [sig EXCEPT ![OMEGA + i] = k] /\ OMEGA + i \in Cells /\ k \in Byte
      /\ sig' \in [Cells -> Byte] /\ sig'[OMEGA + i] = k
      /\ \A p \in Cells : p # OMEGA + i => sig'[p] = sig[p]
  BY <1>1, Sizes DEF PackRow, Cells, Byte, Rows
<1>4. /\ \A p \in 0..(OMEGA - 1) : sig'[p] = sig[p]
      /\ \A r \in 0..(i - 1) : sig'[OMEGA + r] = sig[OMEGA + r]
      /\ First(sig', i) = First(sig, i) /\ First(sig, i) \in Nat
  <2>1. \A p \in 0..(OMEGA - 1) : p \in Cells /\ p # OMEGA + i
    BY <1>1, Sizes DEF Cells
  <2>2. \A r \in 0..(i - 1) : OMEGA + r \in Cells /\ OMEGA + r # OMEGA + i
    BY <1>1, Sizes DEF Cells
  <2>3. i = 0 \/ (OMEGA + i - 1 \in Cells /\ OMEGA + i - 1 # OMEGA + i)
    BY <1>1, Sizes DEF Cells
  <2>4. First(sig, i) \in Nat
    BY <1>1, FirstType DEF Byte
  <2> QED BY <1>3, <2>1, <2>2, <2>3, <2>4 DEF First
<1>5. RowsDone(sig', h, i)
  <2>1. \A r \in 0..(i - 1) : sig[OMEGA + r] = sig'[OMEGA + r] /\ sig[OMEGA + r] <= k
    BY <1>2, <1>4
  <2>2. \A p \in 0..(k - 1) : sig[p] = sig'[p]
    BY <1>1, <1>4, Sizes
  <2> QED BY <1>1, <1>2, <1>3, <2>1, <2>2, RowsFrame
<1>6. RowDone(sig', h, i)
  <2> DEFINE f == First(sig, i)
  <2>1. \A p \in f..(k - 1) : sig'[p] = sig[p]
    BY <1>1, <1>4, Sizes
  <2>2. f \in Nat /\ f <= k /\ Sorted(sig, f, k) /\ First(sig', i) = f
        /\ \A x \in Byte : Listed(sig, f, k, x) <=> (x < N /\ h[i][x] = 1)
    BY <1>2, <1>4
  <2> HIDE DEF f
  <2>3. Sorted(sig', f, k)
    BY <2>1, <2>2 DEF Sorted
  <2>4. \A x : Listed(sig', f, k, x) <=> Listed(sig, f, k, x)
    BY <2>1 DEF Listed
  <2>5. \A x \in Byte : x < N /\ h[i][x] \in {0, 1}
    BY <1>1, Sizes DEF Byte, Hints
  <2>6. Lists(sig', f, k, h[i])
    BY <2>2, <2>4, <2>5 DEF Lists
  <2> QED BY <1>1, <1>3, <2>2, <2>3, <2>6 DEF RowDone
<1>7. RowsDone(sig', h, i + 1)
  BY <1>1, <1>5, <1>6, OneRowMore
<1>8. \A r \in 0..(i + 1 - 1) : sig'[OMEGA + r] <= k
  <2>1. \A r \in 0..(i + 1 - 1) : r \in 0..(i - 1) \/ r = i
    BY <1>1
  <2> QED BY <1>1, <1>2, <1>3, <1>4, <2>1
<1>9. First(sig', i + 1) = k
  BY <1>1, <1>3, FirstType
<1>10. Sorted(sig', k, k) /\ \A x : ~Listed(sig', k, k, x)
  <2>1. \A p : p \notin k..(k - 1)
    BY <1>1
  <2> QED BY <2>1 DEF Sorted, Listed
<1>11. Before(i, j)' = Before(i, N)
  <2>1. Before(i, j)' = Before(i + 1, 0)
    BY <1>1 DEF Before
  <2> QED BY <1>1, <2>1, NextRow
<1>12. TypeOK'
  BY <1>1, <1>3 DEF TypeOK
<1>13. \A x \in Byte : ~(x < 0)
  BY DEF Byte
<1>14. /\ k' = Cardinality(Before(i, j))'
       /\ RowsDone(sig, h, i)' /\ (\A r \in 0..(i - 1) : sig[OMEGA + r] <= k)'
       /\ First(sig, i)' = k' /\ k' <= k'
  BY <1>1, <1>2, <1>7, <1>8, <1>9, <1>11
<1>15. /\ Sorted(sig', k', k')
       /\ \A x \in Byte : Listed(sig', k', k', x) <=> (x < j' /\ h'[i'][x] = 1)
       /\ \A p \in k'..(OMEGA - 1) : sig'[p] = 0
  BY <1>1, <1>2, <1>4, <1>10, <1>13
<1>16. PackInv'
  BY <1>1, <1>2, <1>14, <1>15 DEF PackInv
<1> QED BY <1>12, <1>16

\* When pack_sig returns, the bytes encode h.
LEMMA Packed == TypeOK /\ PackInv /\ i = K => Encodes(sig, h)
BY EncodesRows DEF PackInv

-----------------------------------------------------------------------------
(***************************************************************************)
(* unpack_sig, and what holds at every place of the two functions          *)
(***************************************************************************)
\* What the bytes read so far say of the rows written so far; and that no
\* check fails on bytes that pack_sig wrote.
RowInv == k = First(sig, i) /\ RowsDone(sig, out, i)

IndexInv ==
  /\ i < K /\ j \in k..sig[OMEGA + i] /\ sig[OMEGA + i] <= OMEGA
  /\ Sorted(sig, k, j) /\ Lists(sig, k, j, out[i])

PaddingInv ==
  /\ i = K /\ j \in k..OMEGA
  /\ \A p \in k..(j - 1) : sig[p] = 0

UnpackInv ==
  /\ Packable(h) => Encodes(sig, h) /\ ret # 1
  /\ pc \in {"unpackRow", "unpackIndex", "padding"} => RowInv /\ ret = 2
  /\ pc = "unpackIndex" => IndexInv
  /\ pc = "padding" => PaddingInv
  /\ pc = "done" => ret # 2
  /\ ret = 0 => pc = "done" /\ Encodes(sig, out)

IInv ==
  /\ TypeOK
  /\ pc = "pack" => PackInv /\ ret = 2
  /\ pc # "pack" => UnpackInv

LEMMA InitInv == Init => IInv
<1> SUFFICES ASSUME Init PROVE IInv
  OBVIOUS
<1>1. i = 0 /\ j = 0 /\ k = 0 /\ ret = 2 /\ out \in Garbage
  BY DEF Init
<1>2. out \in Hints
  BY <1>1 DEF Garbage, Hints
<1>3. First(sig, 0) = 0 /\ \A v : RowsDone(sig, v, 0)
  BY DEF First, RowsDone
<1>4. CASE InitPack
  <2>1. pc = "pack" /\ h \in Hints /\ Packable(h) /\ sig = Zeros
    BY <1>4 DEF InitPack
  <2>2. TypeOK
    BY <1>1, <1>2, <2>1, Sizes DEF TypeOK, Zeros
  <2>3. Before(0, 0) = {}
    BY <2>1 DEF Before, OnesOf, Rows, Byte
  <2>4. Cardinality(Before(0, 0)) = 0
    BY <2>3, FS_EmptySet
  <2>5. Sorted(sig, 0, 0) /\ \A x \in Byte : ~Listed(sig, 0, 0, x) /\ ~(x < 0)
    BY DEF Sorted, Listed, Byte
  <2>6. \A p \in 0..(OMEGA - 1) : sig[p] = 0
    <3>1. \A p \in 0..(OMEGA - 1) : p \in Cells
      BY Sizes DEF Cells
    <3> QED BY <2>1, <3>1 DEF Zeros
  <2>7. PackInv
    BY <1>1, <1>3, <2>1, <2>4, <2>5, <2>6, Sizes DEF PackInv
  <2> QED BY <1>1, <2>1, <2>2, <2>7 DEF IInv
<1>5. CASE InitUnpack
  <2>1. pc = "unpackRow" /\ h = NothingPacked /\ sig \in [Cells -> Byte]
    BY <1>5 DEF InitUnpack
  <2>2. h \in Hints
    BY <2>1 DEF NothingPacked, Hints
  <2>3. TypeOK
    BY <1>1, <1>2, <2>1, <2>2, Sizes DEF TypeOK
  <2>4. ~Packable(h)
    <3>1. IsFiniteSet(OnesOf(h))
      BY <2>2, OnesFinite
    <3>2. \A x \in Byte : <<0, x>> \in OnesOf(h)
      BY <2>1, Sizes DEF OnesOf, NothingPacked
    <3>3. {0} \X Byte \in SUBSET OnesOf(h)
      BY <3>2
    <3>4. IsFiniteSet({0}) /\ Cardinality({0}) = 1
      BY FS_Singleton
    <3>7. IsFiniteSet(Byte) /\ Cardinality(Byte) = N
      <4>1. Cardinality(0..(N - 1)) = IF 0 > N - 1 THEN 0 ELSE (N - 1) - 0 + 1
        BY Sizes, FS_Interval
      <4>2. IsFiniteSet(0..(N - 1))
        BY Sizes, FS_Interval
      <4> QED BY <4>1, <4>2, Sizes DEF Byte
    <3>5. Cardinality({0} \X Byte) = N
      BY <3>4, <3>7, FS_Product, Sizes
    <3>6. N <= Cardinality(OnesOf(h)) /\ Cardinality(OnesOf(h)) \in Nat
      BY <3>1, <3>3, <3>5, FS_Subset, FS_CardinalityType
    <3> QED BY <3>6, Sizes DEF Packable
  <2>5. UnpackInv
    BY <1>1, <1>3, <2>1, <2>4 DEF UnpackInv, RowInv
  <2> QED BY <2>1, <2>3, <2>5 DEF IInv
<1> QED BY <1>4, <1>5 DEF Init

LEMMA PackReturnStep == IInv /\ PackReturn => IInv'
<1> SUFFICES ASSUME IInv, PackReturn PROVE IInv'
  OBVIOUS
<1>1. /\ pc = "pack" /\ i = K /\ TypeOK /\ PackInv /\ ret = 2
      /\ pc' = "unpackRow" /\ i' = 0 /\ j' = 0 /\ k' = 0 /\ UNCHANGED <<h, sig, out, ret>>
  BY DEF IInv, PackReturn
<1>2. Encodes(sig, h)
  BY <1>1, Packed
<1>3. TypeOK'
  BY <1>1, Sizes DEF TypeOK
<1>4. First(sig, 0) = 0 /\ RowsDone(sig, out, 0)
  BY DEF First, RowsDone
<1>5. Encodes(sig, h)' /\ RowInv'
  BY <1>1, <1>2, <1>4 DEF RowInv
<1>6. UnpackInv'
  BY <1>1, <1>5 DEF UnpackInv
<1> QED BY <1>1, <1>3, <1>6 DEF IInv

\* A check that fails: the bytes are not those of a vector that was packed.
LEMMA FailStep ==
  ASSUME IInv, pc # "pack", ~Packable(h), Fail, UNCHANGED <<h, sig>>, TypeOK'
  PROVE  IInv'
BY DEF IInv, UnpackInv, Fail

LEMMA UnpackFacts ==
  ASSUME IInv, pc \in {"unpackRow", "unpackIndex", "padding"}
  PROVE  /\ sig \in [Cells -> Byte] /\ out \in Hints /\ h \in Hints
         /\ i \in 0..K /\ i \in Nat /\ j \in Nat /\ k \in Nat /\ k <= OMEGA
         /\ k = First(sig, i) /\ RowsDone(sig, out, i) /\ ret = 2
         /\ Packable(h) => Encodes(sig, h)
         /\ pc = "unpackIndex" => IndexInv
         /\ pc = "padding" => PaddingInv
<1>1. TypeOK /\ UnpackInv /\ RowInv
  BY DEF IInv, UnpackInv
<1> QED BY <1>1, Sizes DEF TypeOK, UnpackInv, RowInv

\* The rows before i do not see what row i is given.
LEMMA OtherRows ==
  ASSUME NEW s, NEW v, NEW w, NEW n \in Nat, \A r \in 0..(n - 1) : v[r] = w[r],
         RowsDone(s, v, n)
  PROVE  RowsDone(s, w, n)
<1>1. ASSUME NEW r \in 0..(n - 1) PROVE RowDone(s, w, r)
  <2>1. RowDone(s, v, r) /\ v[r] = w[r]
    BY DEF RowsDone
  <2> QED BY <2>1 DEF RowDone
<1> QED BY <1>1 DEF RowsDone

LEMMA UnpackRowStep == IInv /\ UnpackRow => IInv'
<1> SUFFICES ASSUME IInv, UnpackRow PROVE IInv'
  OBVIOUS
<1>1. pc = "unpackRow" /\ i < K /\ UNCHANGED <<h, sig, i, k>> /\ out' = [out EXCEPT ![i] = ZeroRow]
  BY DEF UnpackRow
<1>2. /\ sig \in [Cells -> Byte] /\ out \in Hints /\ h \in Hints
      /\ i \in 0..K /\ i \in Nat /\ j \in Nat /\ k \in Nat /\ k <= OMEGA
      /\ k = First(sig, i) /\ RowsDone(sig, out, i) /\ ret = 2
      /\ Packable(h) => Encodes(sig, h)
  BY <1>1, UnpackFacts
<1>3. i \in Rows /\ i \in 0..(K - 1) /\ ZeroRow \in [Byte -> {0, 1}] /\ sig[OMEGA + i] \in Nat
  BY <1>1, <1>2, FirstType, Sizes DEF Rows, ZeroRow, Byte
<1>4. out' \in Hints /\ out'[i] = ZeroRow /\ \A r \in 0..(i - 1) : out[r] = out'[r]
  BY <1>1, <1>2, <1>3, Sizes DEF Hints, Rows
<1>5. TypeOK /\ pc # "pack"
  BY <1>1 DEF IInv
<1>6. CASE BadCounter(sig[OMEGA + i])
  <2>1. Fail /\ j' = j
    BY <1>6 DEF UnpackRow
  <2>2. ~Packable(h)
    <3>1. SUFFICES ASSUME Packable(h) PROVE FALSE
      OBVIOUS
    <3>2. RowDone(sig, h, i)
      BY <1>2, <1>3, <3>1, EncodesRows DEF RowsDone
    <3> QED BY <1>2, <1>3, <1>6, <3>2, Sizes DEF RowDone, BadCounter
  <2>3. TypeOK'
    BY <1>1, <1>4, <1>5, <2>1 DEF TypeOK, Fail
  <2> QED BY <1>1, <1>5, <2>1, <2>2, <2>3, FailStep
<1>7. CASE ~BadCounter(sig[OMEGA + i])
  <2>1. j' = k /\ pc' = "unpackIndex" /\ ret' = ret
    BY <1>7 DEF UnpackRow
  <2>2. k <= sig[OMEGA + i] /\ sig[OMEGA + i] <= OMEGA
    BY <1>2, <1>3, <1>7, Sizes DEF BadCounter
  <2>3. TypeOK'
    BY <1>1, <1>2, <1>4, <1>5, <2>1, Sizes DEF TypeOK
  <2>4. RowsDone(sig, out', i)
    BY <1>2, <1>4, OtherRows
  <2>5. \A p : p \notin k..(k - 1)
    BY <1>2
  <2>6. Sorted(sig, k, k) /\ Lists(sig, k, k, out'[i])
    BY <1>4, <2>5 DEF Sorted, Lists, Listed, ZeroRow
  <2>7. RowInv'
    BY <1>1, <1>2, <2>4 DEF RowInv
  <2>8. IndexInv'
    BY <1>1, <1>2, <1>3, <2>1, <2>2, <2>6 DEF IndexInv
  <2>9. (Packable(h) => Encodes(sig, h))'
    BY <1>1, <1>2
  <2>10. UnpackInv'
    BY <1>2, <2>1, <2>7, <2>8, <2>9 DEF UnpackInv
  <2> QED BY <2>1, <2>3, <2>10 DEF IInv
<1> QED BY <1>6, <1>7

LEMMA UnpackIndexStep == IInv /\ UnpackIndex => IInv'
<1> SUFFICES ASSUME IInv, UnpackIndex PROVE IInv'
  OBVIOUS
<1> DEFINE c == sig[OMEGA + i]
<1>1. pc = "unpackIndex" /\ j < c /\ UNCHANGED <<h, sig, i, k>>
  BY DEF UnpackIndex
<1>2. /\ sig \in [Cells -> Byte] /\ out \in Hints /\ h \in Hints
      /\ i \in 0..K /\ i \in Nat /\ j \in Nat /\ k \in Nat /\ k <= OMEGA
      /\ k = First(sig, i) /\ RowsDone(sig, out, i) /\ ret = 2
      /\ Packable(h) => Encodes(sig, h)
  BY <1>1, UnpackFacts
<1>3. /\ i < K /\ j \in k..c /\ c <= OMEGA
      /\ Sorted(sig, k, j) /\ Lists(sig, k, j, out[i])
  BY <1>1, UnpackFacts DEF IndexInv
<1>4. i \in Rows /\ i \in 0..(K - 1) /\ c \in Nat
  BY <1>2, <1>3, FirstType, Sizes DEF Rows, Byte
<1>5. /\ j \in 0..(OMEGA - 1) /\ sig[j] \in Byte /\ k <= j /\ j + 1 \in k..c /\ j + 1 \in 0..N
      /\ \A p \in k..(j - 1) : sig[p] \in Byte
  BY <1>1, <1>2, <1>3, <1>4, FirstType, Sizes
<1>6. TypeOK /\ pc # "pack"
  BY <1>1 DEF IInv
<1>7. CASE BadOrder
  <2>1. Fail /\ UNCHANGED <<out, j>>
    BY <1>7 DEF UnpackIndex
  <2>2. ~Packable(h)
    <3>1. SUFFICES ASSUME Packable(h) PROVE FALSE
      OBVIOUS
    <3>2. RowDone(sig, h, i)
      BY <1>2, <1>4, <3>1, EncodesRows DEF RowsDone
    <3>3. Sorted(sig, k, c)
      BY <1>2, <3>2 DEF RowDone
    <3>4. j \in k..(c - 1) /\ j - 1 \in k..(c - 1) /\ j - 1 < j /\ sig[j] <= sig[j - 1]
      BY <1>1, <1>2, <1>4, <1>5, <1>7 DEF BadOrder
    <3>5. sig[j - 1] < sig[j]
      BY <3>3, <3>4 DEF Sorted
    <3>6. sig[j - 1] \in Int /\ sig[j] \in Int
      BY <1>2, <1>5, <3>4, FirstType DEF Byte
    <3> QED BY <3>4, <3>5, <3>6
  <2>3. TypeOK'
    BY <1>1, <1>6, <2>1 DEF TypeOK, Fail
  <2> QED BY <1>1, <1>6, <2>1, <2>2, <2>3, FailStep
<1>8. CASE ~BadOrder
  <2>1. out' = [out EXCEPT ![i][sig[j]] = 1] /\ j' = j + 1 /\ UNCHANGED <<pc, ret>>
    BY <1>8 DEF UnpackIndex
  <2>2. /\ out' \in Hints /\ out'[i] = [out[i] EXCEPT ![sig[j]] = 1] /\ out[i] \in [Byte -> {0, 1}]
        /\ \A r \in 0..(i - 1) : out[r] = out'[r]
    BY <1>2, <1>4, <1>5, <2>1 DEF Hints, Rows
  <2>3. TypeOK'
    BY <1>1, <1>5, <1>6, <2>1, <2>2 DEF TypeOK
  <2>4. \A p \in k..(j - 1) : sig[p] < sig[j]
    <3> SUFFICES ASSUME NEW p \in k..(j - 1) PROVE sig[p] < sig[j]
      OBVIOUS
    <3>1. j > k /\ j - 1 \in k..(j - 1) /\ ~(sig[j] <= sig[j - 1])
      BY <1>2, <1>5, <1>8 DEF BadOrder
    <3>2. sig[p] \in Int /\ sig[j - 1] \in Int /\ sig[j] \in Int
      BY <1>5, <3>1 DEF Byte
    <3>3. p = j - 1 \/ (p < j - 1 /\ sig[p] < sig[j - 1])
      BY <1>2, <1>3, <1>5, <3>1 DEF Sorted
    <3> QED BY <3>1, <3>2, <3>3
  <2>5. Sorted(sig, k, j + 1)
    BY <1>2, <1>3, <1>5, <2>4, SortedMore
  <2>6. Lists(sig, k, j + 1, out'[i])
    <3>1. \A p : p \in k..(j + 1 - 1) <=> p \in k..(j - 1) \/ p = j
      BY <1>2, <1>5
    <3>2. \A x : Listed(sig, k, j + 1, x) <=> Listed(sig, k, j, x) \/ x = sig[j]
      BY <3>1 DEF Listed
    <3> QED BY <1>3, <1>5, <2>2, <3>2 DEF Lists
  <2>7. RowsDone(sig, out', i)
    BY <1>2, <2>2, OtherRows
  <2>8. RowInv'
    BY <1>1, <1>2, <2>7 DEF RowInv
  <2>9. IndexInv'
    BY <1>1, <1>3, <1>5, <2>1, <2>5, <2>6 DEF IndexInv
  <2>10. (Packable(h) => Encodes(sig, h))'
    BY <1>1, <1>2
  <2>11. UnpackInv'
    BY <1>1, <1>2, <2>1, <2>8, <2>9, <2>10 DEF UnpackInv
  <2> QED BY <1>1, <2>1, <2>3, <2>11 DEF IInv
<1> QED BY <1>7, <1>8

LEMMA UnpackNextStep == IInv /\ UnpackNext => IInv'
<1> SUFFICES ASSUME IInv, UnpackNext PROVE IInv'
  OBVIOUS
<1> DEFINE c == sig[OMEGA + i]
<1>1. pc = "unpackIndex" /\ j >= c /\ k' = c /\ i' = i + 1 /\ pc' = "unpackRow"
      /\ UNCHANGED <<h, sig, out, j, ret>>
  BY DEF UnpackNext
<1>2. /\ sig \in [Cells -> Byte] /\ out \in Hints /\ h \in Hints
      /\ i \in 0..K /\ i \in Nat /\ j \in Nat /\ k \in Nat /\ k <= OMEGA
      /\ k = First(sig, i) /\ RowsDone(sig, out, i) /\ ret = 2
      /\ Packable(h) => Encodes(sig, h)
  BY <1>1, UnpackFacts
<1>3. /\ i < K /\ j \in k..c /\ c <= OMEGA
      /\ Sorted(sig, k, j) /\ Lists(sig, k, j, out[i])
  BY <1>1, UnpackFacts DEF IndexInv
<1>4. i \in Rows /\ i + 1 \in 0..K /\ c \in Nat /\ c \in 0..OMEGA /\ First(sig, i + 1) = c
  BY <1>2, <1>3, FirstType, Sizes DEF Rows, Byte
<1>5. j = c /\ k <= c
  BY <1>1, <1>2, <1>3, <1>4
<1>6. RowDone(sig, out, i)
  BY <1>2, <1>3, <1>5 DEF RowDone
<1>7. RowsDone(sig, out, i + 1)
  BY <1>2, <1>6, OneRowMore
<1>8. TypeOK
  BY DEF IInv
<1>9. TypeOK'
  BY <1>1, <1>4, <1>8 DEF TypeOK
<1>10. RowInv'
  BY <1>1, <1>4, <1>7 DEF RowInv
<1>11. (Packable(h) => Encodes(sig, h))'
  BY <1>1, <1>2
<1>12. UnpackInv'
  BY <1>1, <1>2, <1>10, <1>11 DEF UnpackInv
<1> QED BY <1>1, <1>9, <1>12 DEF IInv

LEMMA UnpackRowsStep == IInv /\ UnpackRows => IInv'
<1> SUFFICES ASSUME IInv, UnpackRows PROVE IInv'
  OBVIOUS
<1>1. pc = "unpackRow" /\ i = K /\ j' = k /\ pc' = "padding" /\ UNCHANGED <<h, sig, out, i, k, ret>>
  BY DEF UnpackRows
<1>2. /\ k \in Nat /\ k <= OMEGA
      /\ k = First(sig, i) /\ RowsDone(sig, out, i) /\ ret = 2
      /\ Packable(h) => Encodes(sig, h)
  BY <1>1, UnpackFacts
<1>3. TypeOK
  BY DEF IInv
<1>4. TypeOK'
  BY <1>1, <1>2, <1>3, Sizes DEF TypeOK
<1>5. RowInv'
  BY <1>1, <1>2 DEF RowInv
<1>6. PaddingInv'
  BY <1>1, <1>2, Sizes DEF PaddingInv
<1>7. (Packable(h) => Encodes(sig, h))'
  BY <1>1, <1>2
<1>8. UnpackInv'
  BY <1>1, <1>2, <1>5, <1>6, <1>7 DEF UnpackInv
<1> QED BY <1>1, <1>4, <1>8 DEF IInv

LEMMA PaddingStep == IInv /\ Padding => IInv'
<1> SUFFICES ASSUME IInv, Padding PROVE IInv'
  OBVIOUS
<1>1. pc = "padding" /\ j < OMEGA /\ UNCHANGED <<h, sig, out, i, k>>
  BY DEF Padding
<1>2. /\ sig \in [Cells -> Byte] /\ j \in Nat /\ k \in Nat /\ k <= OMEGA
      /\ k = First(sig, i) /\ RowsDone(sig, out, i) /\ ret = 2
      /\ Packable(h) => Encodes(sig, h)
      /\ i = K /\ j \in k..OMEGA /\ \A p \in k..(j - 1) : sig[p] = 0
  BY <1>1, UnpackFacts DEF PaddingInv
<1>3. TypeOK /\ pc # "pack"
  BY <1>1 DEF IInv
<1>4. CASE PaddingUsed
  <2>1. Fail /\ j' = j
    BY <1>4 DEF Padding
  <2>2. ~Packable(h)
    <3>1. SUFFICES ASSUME Packable(h) PROVE FALSE
      OBVIOUS
    <3>2. \A p \in k..(OMEGA - 1) : sig[p] = 0
      BY <1>2, <3>1, EncodesRows
    <3> QED BY <1>1, <1>2, <1>4, <3>2, Sizes DEF PaddingUsed
  <2>3. TypeOK'
    BY <1>1, <1>3, <2>1 DEF TypeOK, Fail
  <2> QED BY <1>1, <1>3, <2>1, <2>2, <2>3, FailStep
<1>5. CASE ~PaddingUsed
  <2>1. j' = j + 1 /\ UNCHANGED <<pc, ret>> /\ sig[j] = 0
    BY <1>5 DEF Padding, PaddingUsed
  <2>2. j + 1 \in k..OMEGA /\ j + 1 \in 0..N /\ \A p \in k..(j + 1 - 1) : sig[p] = 0
    <3>1. \A p \in k..(j + 1 - 1) : p \in k..(j - 1) \/ p = j
      BY <1>2
    <3> QED BY <1>1, <1>2, <2>1, <3>1, Sizes
  <2>3. TypeOK'
    BY <1>1, <1>3, <2>1, <2>2 DEF TypeOK
  <2>4. RowInv'
    BY <1>1, <1>2 DEF RowInv
  <2>5. PaddingInv'
    BY <1>1, <1>2, <2>1, <2>2 DEF PaddingInv
  <2>6. (Packable(h) => Encodes(sig, h))'
    BY <1>1, <1>2
  <2>7. UnpackInv'
    BY <1>1, <1>2, <2>1, <2>4, <2>5, <2>6 DEF UnpackInv
  <2> QED BY <1>1, <2>1, <2>3, <2>7 DEF IInv
<1> QED BY <1>4, <1>5

LEMMA UnpackReturnStep == IInv /\ UnpackReturn => IInv'
<1> SUFFICES ASSUME IInv, UnpackReturn PROVE IInv'
  OBVIOUS
<1>1. pc = "padding" /\ j >= OMEGA /\ ret' = 0 /\ pc' = "done" /\ UNCHANGED <<h, sig, out, i, j, k>>
  BY DEF UnpackReturn
<1>2. /\ sig \in [Cells -> Byte] /\ j \in Nat /\ k \in Nat /\ k <= OMEGA
      /\ k = First(sig, i) /\ RowsDone(sig, out, i)
      /\ Packable(h) => Encodes(sig, h)
      /\ i = K /\ j \in k..OMEGA /\ \A p \in k..(j - 1) : sig[p] = 0
  BY <1>1, UnpackFacts DEF PaddingInv
<1>3. Encodes(sig, out)
  <2>1. j = OMEGA
    BY <1>1, <1>2, Sizes
  <2> QED BY <1>2, <2>1, EncodesRows
<1>4. TypeOK
  BY DEF IInv
<1>5. TypeOK'
  BY <1>1, <1>4 DEF TypeOK
<1>6. (Packable(h) => Encodes(sig, h))' /\ Encodes(sig, out)'
  BY <1>1, <1>2, <1>3
<1>7. UnpackInv'
  BY <1>1, <1>6 DEF UnpackInv
<1> QED BY <1>1, <1>5, <1>7 DEF IInv

LEMMA Frame == IInv /\ UNCHANGED vars => IInv'
<1> SUFFICES ASSUME IInv, UNCHANGED vars PROVE IInv'
  OBVIOUS
<1>1. UNCHANGED <<pc, h, sig, out, i, j, k, ret>>
  BY DEF vars
<1>2. TypeOK => TypeOK'
  BY <1>1 DEF TypeOK
<1>3. PackInv => PackInv'
  <2>1. \A a, b : Before(a, b)' = Before(a, b)
    BY <1>1 DEF Before
  <2> QED BY <1>1, <2>1 DEF PackInv
<1>4. UnpackInv => UnpackInv'
  BY <1>1 DEF UnpackInv, RowInv, IndexInv, PaddingInv
<1> QED BY <1>1, <1>2, <1>3, <1>4 DEF IInv

LEMMA NextInv == IInv /\ [Next]_vars => IInv'
<1> SUFFICES ASSUME IInv, [Next]_vars PROVE IInv'
  OBVIOUS
<1>1. CASE PackCoeff
  <2>1. TypeOK /\ PackInv /\ pc = "pack" /\ pc' = "pack" /\ ret = 2 /\ ret' = 2
    BY <1>1 DEF IInv, PackCoeff
  <2> QED BY <1>1, <2>1, PackCoeffStep DEF IInv
<1>2. CASE PackRow
  <2>1. TypeOK /\ PackInv /\ pc = "pack" /\ pc' = "pack" /\ ret = 2 /\ ret' = 2
    BY <1>2 DEF IInv, PackRow
  <2> QED BY <1>2, <2>1, PackRowStep DEF IInv
<1>3. CASE PackReturn
  BY <1>3, PackReturnStep
<1>4. CASE UnpackRow
  BY <1>4, UnpackRowStep
<1>5. CASE UnpackIndex
  BY <1>5, UnpackIndexStep
<1>6. CASE UnpackNext
  BY <1>6, UnpackNextStep
<1>7. CASE UnpackRows
  BY <1>7, UnpackRowsStep
<1>8. CASE Padding
  BY <1>8, PaddingStep
<1>9. CASE UnpackReturn
  BY <1>9, UnpackReturnStep
<1>10. CASE UNCHANGED vars
  BY <1>10, Frame
<1> QED
  BY <1>1, <1>2, <1>3, <1>4, <1>5, <1>6, <1>7, <1>8, <1>9, <1>10 DEF Next, Returned

LEMMA Invariance == Spec => []IInv
BY InitInv, NextInv, PTL DEF Spec

-----------------------------------------------------------------------------
(***************************************************************************)
(* The theorems                                                            *)
(***************************************************************************)
\* Every variable of pack_sig's and unpack_sig's loops keeps its type and
\* its range, for any number of rows, coefficients and hints.
THEOREM TypeCorrect == Spec => []TypeOK
<1>1. IInv => TypeOK
  BY DEF IInv
<1> QED BY <1>1, Invariance, PTL

\* pack_sig has no bound of its own on the positions it writes; the ones
\* that it was given are OMEGA at most, those behind it are among them, and
\* k counts exactly those.  What unpack_sig reads is a position, not a counter.
THEOREM StaysWithin == Spec => []StaysInside
<1>1. IInv => StaysInside
  <2> SUFFICES ASSUME IInv PROVE StaysInside
    OBVIOUS
  <2>1. ASSUME pc = "pack", i < K, j < N, h[i][j] # 0 PROVE k < OMEGA
    <3>1. TypeOK /\ PackInv
      BY <2>1 DEF IInv
    <3>2. i \in Rows /\ j \in Byte /\ h \in Hints /\ Packable(h) /\ k = Cardinality(Before(i, j))
      BY <2>1, <3>1, Sizes DEF TypeOK, PackInv, Rows, Byte
    <3>3. h[i][j] = 1
      BY <2>1, <3>2 DEF Hints
    <3> QED BY <3>2, <3>3, NextOne
  <2>2. ASSUME pc = "unpackIndex", j < sig[OMEGA + i]
        PROVE  j < OMEGA /\ (j > k => j - 1 \in First(sig, i)..(OMEGA - 1))
    <3>1. /\ sig \in [Cells -> Byte] /\ i \in Nat /\ j \in Nat /\ k \in Nat
          /\ k = First(sig, i) /\ i < K /\ sig[OMEGA + i] <= OMEGA
      BY <2>2, UnpackFacts DEF IndexInv
    <3>2. sig[OMEGA + i] \in Nat
      BY <3>1, FirstType, Sizes DEF Rows, Byte
    <3> QED BY <2>2, <3>1, <3>2, Sizes
  <2> QED BY <2>1, <2>2 DEF StaysInside
<1> QED BY <1>1, Invariance, PTL

\* What pack_sig wrote passes every check of unpack_sig and is read as the
\* vector it was written from: both are what the bytes encode.
THEOREM ReadsBack == Spec => []RoundTrip
<1>1. IInv => RoundTrip
  <2> SUFFICES ASSUME IInv, pc = "done", Packable(h) PROVE ret = 0 /\ out = h
    BY DEF RoundTrip
  <2>1. Encodes(sig, h) /\ ret # 1 /\ ret # 2 /\ ret \in {0, 1, 2} /\ out \in Hints /\ h \in Hints
    BY DEF IInv, UnpackInv, TypeOK
  <2>2. ret = 0 /\ Encodes(sig, out)
    BY <2>1 DEF IInv, UnpackInv
  <2>3. \A r \in Rows : \A x \in Byte : out[r][x] = h[r][x]
    BY <2>1, <2>2, OneVector
  <2>4. \A r \in Rows : out[r] \in [Byte -> {0, 1}] /\ h[r] \in [Byte -> {0, 1}]
    BY <2>1 DEF Hints
  <2>5. \A r \in Rows : out[r] = h[r]
    BY <2>3, <2>4
  <2> QED BY <2>1, <2>2, <2>5 DEF Hints
<1> QED BY <1>1, Invariance, PTL

\* Bytes that unpack_sig accepts are the only ones that it reads as that
\* vector: the list, the counters and the padding are determined row by row.
THEOREM Canonical == Spec => []OneEncoding
<1>1. IInv => OneEncoding
  <2> SUFFICES ASSUME IInv, ret = 0, NEW s \in [Cells -> Byte]
               PROVE  Encodes(s, out) <=> s = sig
    BY DEF OneEncoding
  <2>1. sig \in [Cells -> Byte] /\ Encodes(sig, out)
    <3>1. TypeOK /\ UnpackInv
      BY DEF IInv
    <3> QED BY <3>1 DEF TypeOK, UnpackInv
  <2> QED BY <2>1, OneString
<1> QED BY <1>1, Invariance, PTL
=============================================================================
