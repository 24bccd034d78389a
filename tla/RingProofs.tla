----------------------------- MODULE RingProofs -----------------------------
(***************************************************************************)
(* The algebra behind the products of sign.c, for any number of            *)
(* coefficients: sums over finite sets, and the product of the ring, which *)
(* is bilinear, and commutes as a(cs) = c(as).                             *)
(***************************************************************************)
EXTENDS Ring, FiniteSetTheorems, NaturalsInduction, WellFoundedInduction, TLAPS

(***************************************************************************)
(* Sums over finite sets.  Fold is the recursive function that sums of     *)
(* module Functions are taken from; it exists, and what holds of sums is   *)
(* shown along the order in which it takes the elements of a set.          *)
(***************************************************************************)
Pick(s) == CHOOSE x \in s : TRUE

Unfold(g, f, s) == IF s = {} THEN 0 ELSE f[Pick(s)] + g[s \ {Pick(s)}]

Fold(f, S) == CHOOSE g : g = [s \in SUBSET S |-> Unfold(g, f, s)]

\* SumFunction, of module Functions, is Fold at the whole domain.
LEMMA SumIsFold ==
  ASSUME NEW f, NEW S, S = DOMAIN f
  PROVE  SumFunction(f) = Fold(f, S)[S]
BY DEF SumFunction, SumFunctionOnSet, FoldFunctionOnSet, MapThenFoldSet,
       Fold, Unfold, Pick

\* Induction, for a property given as a set: over the natural numbers, and
\* over the subsets of a finite set.
LEMMA Induction ==
  ASSUME NEW T, 0 \in T, \A n \in Nat : n \in T => n + 1 \in T
  PROVE  Nat \subseteq T
<1> DEFINE U == Nat \ T
<1> DEFINE R == OpToRel(<, Nat)
<1>1. SUFFICES ASSUME U # {} PROVE FALSE
  OBVIOUS
<1>2. \A x, w \in Nat : <<w, x>> \in R <=> w < x
  BY DEF OpToRel
<1>3. IsWellFoundedOn(R, Nat)
  BY NatLessThanWellFounded
<1> HIDE DEF R
<1>4. PICK x \in U : \A w \in U : ~ (<<w, x>> \in R)
  BY <1>1, <1>3, WFMin
<1>5. \A w \in U : ~ (w < x)
  BY <1>2, <1>4, Zenon
<1>6. x \in Nat /\ x # 0 /\ x - 1 \in Nat /\ x - 1 < x /\ (x - 1) + 1 = x
  BY <1>4
<1>7. x - 1 \in T
  BY <1>5, <1>6
<1> QED BY <1>4, <1>6, <1>7

\* The element that Fold takes first, and what is left without it.
LEMMA PickRemoved ==
  ASSUME NEW s, s # {}, IsFiniteSet(s)
  PROVE  /\ Pick(s) \in s /\ IsFiniteSet(s \ {Pick(s)})
         /\ Cardinality(s) \in Nat
         /\ Cardinality(s \ {Pick(s)}) + 1 = Cardinality(s)
         /\ Cardinality(s \ {Pick(s)}) \in Nat
<1>1. Pick(s) \in s
  BY DEF Pick
<1>2. IsFiniteSet(s \ {Pick(s)}) /\ Cardinality(s \ {Pick(s)}) = Cardinality(s) - 1
  BY <1>1, FS_RemoveElement
<1>3. Cardinality(s) \in Nat /\ Cardinality(s \ {Pick(s)}) \in Nat
  BY <1>2, FS_CardinalityType
<1> QED BY <1>1, <1>2, <1>3

\* A property of every subset, in the order in which Fold takes elements away.
LEMMA SubsetInduction ==
  ASSUME NEW S, IsFiniteSet(S), NEW T, {} \in T,
         \A s \in SUBSET S : s # {} /\ s \ {Pick(s)} \in T => s \in T
  PROVE  \A s \in SUBSET S : s \in T
<1> DEFINE G == {n \in Nat : \A s \in SUBSET S : Cardinality(s) = n => s \in T}
<1>1. \A s \in SUBSET S : IsFiniteSet(s) /\ Cardinality(s) \in Nat
  BY FS_Subset, FS_CardinalityType
<1>2. 0 \in G
  <2>1. \A s \in SUBSET S : Cardinality(s) = 0 => s = {}
    BY <1>1, FS_EmptySet
  <2> QED BY <2>1
<1>3. ASSUME NEW n \in Nat, n \in G PROVE n + 1 \in G
  <2> SUFFICES ASSUME NEW s \in SUBSET S, Cardinality(s) = n + 1 PROVE s \in T
    OBVIOUS
  <2>1. s # {}
    BY FS_EmptySet
  <2>2. Cardinality(s \ {Pick(s)}) = n /\ s \ {Pick(s)} \in SUBSET S
    BY <1>1, <2>1, PickRemoved
  <2>3. s \ {Pick(s)} \in T
    BY <1>3, <2>2
  <2> QED BY <2>1, <2>3
<1>4. Nat \subseteq G
  <2> HIDE DEF G
  <2> QED BY <1>2, <1>3, Induction
<1> QED BY <1>1, <1>4

\* Fold exists: on the subsets of at most n elements, for every n.
LEMMA FoldExists ==
  ASSUME NEW f, NEW S, IsFiniteSet(S)
  PROVE  \A s \in SUBSET S : Fold(f, S)[s] = Unfold(Fold(f, S), f, s)
<1> DEFINE Below(n) == {s \in SUBSET S : Cardinality(s) <= n}
<1> DEFINE G == {n \in Nat : \E g : g = [s \in Below(n) |-> Unfold(g, f, s)]}
<1>1. \A s \in SUBSET S : IsFiniteSet(s) /\ Cardinality(s) \in Nat
  BY FS_Subset, FS_CardinalityType
<1>2. 0 \in G
  <2> DEFINE g == [s \in Below(0) |-> 0]
  <2>1. \A s \in Below(0) : s = {}
    BY <1>1, FS_EmptySet
  <2>2. g = [s \in Below(0) |-> Unfold(g, f, s)]
    BY <2>1 DEF Unfold
  <2> QED BY <2>2
<1>3. ASSUME NEW n \in Nat, n \in G PROVE n + 1 \in G
  <2>1. PICK g : g = [s \in Below(n) |-> Unfold(g, f, s)]
    BY <1>3
  <2> DEFINE h == [s \in Below(n + 1) |-> Unfold(g, f, s)]
  <2>2. \A s \in Below(n) : s \in Below(n + 1) /\ h[s] = g[s]
    <3>1. \A s \in Below(n) : s \in Below(n + 1)
      BY <1>1
    <3>2. \A s \in Below(n) : g[s] = Unfold(g, f, s)
      <4> HIDE DEF Below
      <4> QED BY <2>1
    <3> HIDE DEF Below
    <3> QED BY <3>1, <3>2
  <2>3. \A s \in Below(n + 1) : s # {} => s \ {Pick(s)} \in Below(n)
    <3> SUFFICES ASSUME NEW s \in Below(n + 1), s # {} PROVE s \ {Pick(s)} \in Below(n)
      OBVIOUS
    <3>1. Cardinality(s \ {Pick(s)}) + 1 = Cardinality(s) /\ Cardinality(s \ {Pick(s)}) \in Nat
      BY <1>1, PickRemoved
    <3> QED BY <3>1
  <2>4. \A s \in Below(n + 1) : Unfold(g, f, s) = Unfold(h, f, s)
    <3> HIDE DEF h, Below
    <3> QED BY <2>2, <2>3 DEF Unfold
  <2>5. h = [s \in Below(n + 1) |-> Unfold(h, f, s)]
    <3> HIDE DEF Below
    <3>1. h = [s \in Below(n + 1) |-> Unfold(g, f, s)]
      OBVIOUS
    <3> HIDE DEF h
    <3> QED BY <2>4, <3>1
  <2> HIDE DEF h, Below
  <2>6. \E k : k = [s \in Below(n + 1) |-> Unfold(k, f, s)]
    BY <2>5
  <2> QED BY <2>6
<1>4. Cardinality(S) \in G
  <2> HIDE DEF G
  <2>1. Nat \subseteq G
    BY <1>2, <1>3, Induction
  <2> QED BY <1>1, <2>1
<1>5. Below(Cardinality(S)) = SUBSET S
  BY FS_Subset, FS_CardinalityType
<1>6. \E g : g = [s \in SUBSET S |-> Unfold(g, f, s)]
  <2> HIDE DEF Below
  <2> QED BY <1>4, <1>5
<1>7. Fold(f, S) = [s \in SUBSET S |-> Unfold(Fold(f, S), f, s)]
  BY <1>6 DEF Fold
<1> DEFINE g == Fold(f, S)
<1>8. g = [s \in SUBSET S |-> Unfold(g, f, s)]
  BY <1>7
<1> HIDE DEF g
<1>9. \A s \in SUBSET S : g[s] = Unfold(g, f, s)
  BY <1>8
<1> QED BY <1>9 DEF g

\* What is used of Fold.
Recursive(g, f, S) ==
  /\ g[{}] = 0
  /\ \A s \in SUBSET S : s # {} => g[s] = f[Pick(s)] + g[s \ {Pick(s)}]

\* Fold takes one element after the other.
LEMMA FoldStep ==
  ASSUME NEW f, NEW S, IsFiniteSet(S)
  PROVE  /\ Recursive(Fold(f, S), f, S)
         /\ \A s \in SUBSET S : s # {} =>
              Pick(s) \in s /\ Pick(s) \in S /\ s \ {Pick(s)} \in SUBSET S
<1> DEFINE g == Fold(f, S)
<1>2. \A s \in SUBSET S : g[s] = Unfold(g, f, s)
  BY FoldExists
<1> HIDE DEF g
<1>3. \A s \in SUBSET S : s # {} => Pick(s) \in s
  BY DEF Pick
<1>4. g[{}] = 0
  BY <1>2 DEF Unfold
<1>5. \A s \in SUBSET S : s # {} => g[s] = f[Pick(s)] + g[s \ {Pick(s)}]
  BY <1>2 DEF Unfold
<1> QED BY <1>3, <1>4, <1>5 DEF g, Recursive

\* A sum of integers is an integer, at every step of Fold.
LEMMA FoldType ==
  ASSUME NEW S, IsFiniteSet(S), NEW f \in [S -> Int]
  PROVE  \A s \in SUBSET S : Fold(f, S)[s] \in Int
<1> DEFINE g == Fold(f, S)
           T == {s \in SUBSET S : g[s] \in Int}
<1>1. /\ Recursive(g, f, S)
      /\ \A s \in SUBSET S : s # {} =>
           Pick(s) \in s /\ Pick(s) \in S /\ s \ {Pick(s)} \in SUBSET S
  BY FoldStep
<1> HIDE DEF g
<1>2. {} \in T
  BY <1>1 DEF Recursive
<1>3. ASSUME NEW s \in SUBSET S, s # {}, s \ {Pick(s)} \in T PROVE s \in T
  BY <1>1, <1>3 DEF Recursive
<1>4. \A s \in SUBSET S : s \in T
  <2> HIDE DEF T
  <2> QED BY <1>2, <1>3, SubsetInduction
<1> QED BY <1>4 DEF g

LEMMA SumType ==
  ASSUME NEW S, IsFiniteSet(S), NEW f \in [S -> Int]
  PROVE  SumFunction(f) \in Int
BY SumIsFold, FoldType

\* The sum of sums.
LEMMA SumAdds ==
  ASSUME NEW S, IsFiniteSet(S), NEW f \in [S -> Int], NEW g \in [S -> Int],
         NEW h \in [S -> Int], \A x \in S : h[x] = f[x] + g[x]
  PROVE  SumFunction(h) = SumFunction(f) + SumFunction(g)
<1> DEFINE ff == Fold(f, S)
           gg == Fold(g, S)
           hh == Fold(h, S)
           T  == {s \in SUBSET S : hh[s] = ff[s] + gg[s]}
<1>1. /\ Recursive(ff, f, S) /\ Recursive(gg, g, S) /\ Recursive(hh, h, S)
      /\ \A s \in SUBSET S : s # {} => Pick(s) \in S /\ s \ {Pick(s)} \in SUBSET S
  BY FoldStep
<1>2. \A s \in SUBSET S : ff[s] \in Int /\ gg[s] \in Int /\ hh[s] \in Int
  BY FoldType
<1>3. SumFunction(f) = ff[S] /\ SumFunction(g) = gg[S] /\ SumFunction(h) = hh[S]
  BY SumIsFold
<1> HIDE DEF ff, gg, hh
<1>4. {} \in T
  BY <1>1 DEF Recursive
<1>5. ASSUME NEW s \in SUBSET S, s # {}, s \ {Pick(s)} \in T PROVE s \in T
  <2> DEFINE r == s \ {Pick(s)}
  <2>1. /\ Pick(s) \in S /\ r \in SUBSET S /\ r \in T
        /\ ff[s] = f[Pick(s)] + ff[r] /\ gg[s] = g[Pick(s)] + gg[r]
        /\ hh[s] = h[Pick(s)] + hh[r]
    BY <1>1, <1>5 DEF Recursive
  <2> HIDE DEF r
  <2>2. /\ f[Pick(s)] \in Int /\ g[Pick(s)] \in Int /\ h[Pick(s)] = f[Pick(s)] + g[Pick(s)]
        /\ ff[r] \in Int /\ gg[r] \in Int /\ hh[r] = ff[r] + gg[r]
    BY <1>2, <2>1
  <2> QED BY <2>1, <2>2
<1>6. \A s \in SUBSET S : s \in T
  <2> HIDE DEF T
  <2> QED BY <1>4, <1>5, SubsetInduction
<1> QED BY <1>3, <1>6

\* Products of integers, which the solver does not multiply out.
LEMMA RingLaws ==
  /\ \A p, q \in Int : p * q \in Int /\ p * q = q * p
  /\ \A p, q, r \in Int : p * (q + r) = p * q + p * r
  /\ \A p, q, r \in Int : p * (q * r) = q * (p * r)
  /\ \A p \in Int : p * 0 = 0 /\ 0 * p = 0 /\ 1 * p = p /\ (-1) * p = -p
  /\ \A p, q \in Int : p * (-q) = -(p * q) /\ (-p) * q = -(p * q)
<1>1. \A p, q \in Int : p * q \in Int /\ p * q = q * p
  BY Z3
<1>2. \A p, q, r \in Int : p * (q + r) = p * q + p * r
  BY Z3
<1>3. \A p, q, r \in Int : p * (q * r) = q * (p * r)
  BY Z3
<1>4. \A p \in Int : p * 0 = 0 /\ 0 * p = 0 /\ 1 * p = p /\ (-1) * p = -p
  BY Z3
<1>5. \A p, q \in Int : p * (-q) = -(p * q) /\ (-p) * q = -(p * q)
  BY Z3
<1> QED BY <1>1, <1>2, <1>3, <1>4, <1>5

\* A factor of every term is a factor of the sum.
LEMMA SumScales ==
  ASSUME NEW S, IsFiniteSet(S), NEW p \in Int, NEW f \in [S -> Int],
         NEW h \in [S -> Int], \A x \in S : h[x] = p * f[x]
  PROVE  SumFunction(h) = p * SumFunction(f)
<1> DEFINE ff == Fold(f, S)
           hh == Fold(h, S)
           T  == {s \in SUBSET S : hh[s] = p * ff[s]}
<1>1. /\ Recursive(ff, f, S) /\ Recursive(hh, h, S)
      /\ \A s \in SUBSET S : s # {} => Pick(s) \in S /\ s \ {Pick(s)} \in SUBSET S
  BY FoldStep
<1>2. \A s \in SUBSET S : ff[s] \in Int /\ hh[s] \in Int
  BY FoldType
<1>3. SumFunction(f) = ff[S] /\ SumFunction(h) = hh[S]
  BY SumIsFold
<1> HIDE DEF ff, hh
<1>4. {} \in T
  BY <1>1, RingLaws DEF Recursive
<1>5. ASSUME NEW s \in SUBSET S, s # {}, s \ {Pick(s)} \in T PROVE s \in T
  <2> DEFINE r == s \ {Pick(s)}
  <2>1. /\ Pick(s) \in S /\ r \in SUBSET S /\ r \in T
        /\ ff[s] = f[Pick(s)] + ff[r] /\ hh[s] = h[Pick(s)] + hh[r]
    BY <1>1, <1>5 DEF Recursive
  <2> HIDE DEF r
  <2>2. /\ f[Pick(s)] \in Int /\ h[Pick(s)] = p * f[Pick(s)]
        /\ ff[r] \in Int /\ hh[r] = p * ff[r]
    BY <1>2, <2>1
  <2>3. p * (f[Pick(s)] + ff[r]) = p * f[Pick(s)] + p * ff[r]
    BY <2>2, RingLaws
  <2> QED BY <2>1, <2>2, <2>3
<1>6. \A s \in SUBSET S : s \in T
  <2> HIDE DEF T
  <2> QED BY <1>4, <1>5, SubsetInduction
<1> QED BY <1>3, <1>6

\* The order of two sums does not matter.
LEMMA SumSwaps ==
  ASSUME NEW S, IsFiniteSet(S), NEW U, IsFiniteSet(U), NEW f \in [S -> [U -> Int]]
  PROVE  SumFunction([x \in S |-> SumFunction(f[x])])
           = SumFunction([u \in U |-> SumFunction([x \in S |-> f[x][u]])])
<1> DEFINE col(u)  == [x \in S |-> f[x][u]]
           rows    == [x \in S |-> SumFunction(f[x])]
           rr      == Fold(rows, S)
           upto(s) == [u \in U |-> Fold(col(u), S)[s]]
           T       == {s \in SUBSET S : rr[s] = SumFunction(upto(s))}
<1>1. rows \in [S -> Int]
  <2>1. \A x \in S : SumFunction(f[x]) \in Int
    BY SumType
  <2> QED BY <2>1
<1>2. \A u \in U : col(u) \in [S -> Int] /\ \A x \in S : col(u)[x] = f[x][u]
  OBVIOUS
<1> HIDE DEF col
<1>3. \A s \in SUBSET S : upto(s) \in [U -> Int]
  <2>1. \A u \in U, s \in SUBSET S : Fold(col(u), S)[s] \in Int
    BY <1>2, FoldType
  <2> QED BY <2>1
<1>4. {} \in T
  <2>1. rr[{}] = 0 /\ \A u \in U : Fold(col(u), S)[{}] = 0
    BY FoldStep DEF Recursive
  <2>2. upto({}) \in [U -> Int] /\ \A u \in U : upto({})[u] = 0
    BY <1>3, <2>1
  <2>3. \A u \in U : upto({})[u] = 0 * upto({})[u]
    BY <2>2
  <2> HIDE DEF upto
  <2>4. SumFunction(upto({})) \in Int
    BY <2>2, SumType
  <2>5. SumFunction(upto({})) = 0 * SumFunction(upto({}))
    BY <2>2, <2>3, SumScales
  <2> QED BY <2>1, <2>4, <2>5, RingLaws
<1>5. ASSUME NEW s \in SUBSET S, s # {}, s \ {Pick(s)} \in T PROVE s \in T
  <2> DEFINE r == s \ {Pick(s)}
  <2>a. Recursive(rr, rows, S) /\ Pick(s) \in S /\ r \in SUBSET S
    BY <1>5, FoldStep
  <2>b. \A u \in U : Recursive(Fold(col(u), S), col(u), S)
    BY FoldStep
  <2> HIDE DEF rr, rows
  <2>1. /\ Pick(s) \in S /\ r \in SUBSET S /\ rr[s] = rows[Pick(s)] + rr[r]
        /\ \A u \in U : Fold(col(u), S)[s] = col(u)[Pick(s)] + Fold(col(u), S)[r]
    BY <1>5, <2>a, <2>b DEF Recursive
  <2>2. rr[r] = SumFunction(upto(r))
    BY <1>5
  <2> HIDE DEF r, rr
  <2>3. \A u \in U : upto(s)[u] = f[Pick(s)][u] + upto(r)[u]
    BY <1>2, <2>1
  <2>4. upto(s) \in [U -> Int] /\ upto(r) \in [U -> Int] /\ f[Pick(s)] \in [U -> Int]
    BY <1>3, <2>1
  <2>5. rows[Pick(s)] = SumFunction(f[Pick(s)])
    BY <2>1 DEF rows
  <2> HIDE DEF upto
  <2>6. SumFunction(upto(s)) = SumFunction(f[Pick(s)]) + SumFunction(upto(r))
    BY <2>3, <2>4, SumAdds
  <2> QED BY <2>1, <2>2, <2>5, <2>6
<1>6. \A s \in SUBSET S : s \in T
  <2> HIDE DEF T
  <2> QED BY <1>4, <1>5, SubsetInduction
<1>7. SumFunction(rows) = SumFunction(upto(S))
  <2>1. rr[S] = SumFunction(upto(S))
    BY <1>6
  <2>2. SumFunction(rows) = rr[S]
    BY SumIsFold
  <2> QED BY <2>1, <2>2
<1>8. upto(S) = [u \in U |-> SumFunction(col(u))]
  <2>1. \A u \in U : SumFunction(col(u)) = Fold(col(u), S)[S]
    BY <1>2, SumIsFold
  <2> QED BY <2>1
<1> QED BY <1>7, <1>8 DEF col

\* A sum with a single term that is not 0, or none.
LEMMA SumOne ==
  ASSUME NEW S, IsFiniteSet(S), NEW f \in [S -> Int], NEW x \in S,
         \A s \in S : s # x => f[s] = 0
  PROVE  SumFunction(f) = f[x]
<1> DEFINE ff == Fold(f, S)
           T  == {s \in SUBSET S : ff[s] = IF x \in s THEN f[x] ELSE 0}
<1>1. /\ Recursive(ff, f, S)
      /\ \A s \in SUBSET S : s # {} =>
           Pick(s) \in s /\ Pick(s) \in S /\ s \ {Pick(s)} \in SUBSET S
  BY FoldStep
<1>2. SumFunction(f) = ff[S] /\ f[x] \in Int
  BY SumIsFold
<1> HIDE DEF ff
<1>3. {} \in T
  BY <1>1 DEF Recursive
<1>4. ASSUME NEW s \in SUBSET S, s # {}, s \ {Pick(s)} \in T PROVE s \in T
  <2>1. /\ Pick(s) \in s /\ Pick(s) \in S
        /\ ff[s] = f[Pick(s)] + ff[s \ {Pick(s)}]
        /\ ff[s \ {Pick(s)}] = IF x \in s \ {Pick(s)} THEN f[x] ELSE 0
    BY <1>1, <1>4 DEF Recursive
  <2>2. CASE Pick(s) = x
    <3>1. x \notin s \ {Pick(s)} /\ x \in s
      BY <2>1, <2>2
    <3> QED BY <1>2, <2>1, <2>2, <3>1
  <2>3. CASE Pick(s) # x
    <3>1. f[Pick(s)] = 0 /\ (x \in s \ {Pick(s)} <=> x \in s)
      BY <2>1, <2>3
    <3> QED BY <1>2, <2>1, <3>1
  <2> QED BY <2>2, <2>3
<1>5. \A s \in SUBSET S : s \in T
  <2> HIDE DEF T
  <2> QED BY <1>3, <1>4, SubsetInduction
<1> QED BY <1>2, <1>5

LEMMA SumZero ==
  ASSUME NEW S, IsFiniteSet(S), NEW f \in [S -> Int], \A s \in S : f[s] = 0
  PROVE  SumFunction(f) = 0
<1>1. \A s \in S : f[s] = 0 * f[s]
  BY RingLaws
<1>2. SumFunction(f) = 0 * SumFunction(f) /\ SumFunction(f) \in Int
  BY <1>1, SumScales, SumType
<1> QED BY <1>2, RingLaws

\* A sum over other indices: every term that is not 0 has one index here.
LEMMA SumEmbeds ==
  ASSUME NEW S, IsFiniteSet(S), NEW U, IsFiniteSet(U), NEW f \in [U -> Int],
         NEW m \in [S -> U], \A s, t \in S : m[s] = m[t] => s = t,
         \A u \in U : f[u] # 0 => \E s \in S : m[s] = u
  PROVE  SumFunction([s \in S |-> f[m[s]]]) = SumFunction(f)
<1> DEFINE F == [s \in S |-> [u \in U |-> IF m[s] = u THEN f[u] ELSE 0]]
<1>1. F \in [S -> [U -> Int]]
  OBVIOUS
<1>2. \A s \in S : SumFunction(F[s]) = f[m[s]]
  <2> TAKE s \in S
  <2>1. F[s] \in [U -> Int] /\ m[s] \in U /\ F[s][m[s]] = f[m[s]]
        /\ \A u \in U : u # m[s] => F[s][u] = 0
    OBVIOUS
  <2> HIDE DEF F
  <2> QED BY <2>1, SumOne
<1>3. \A u \in U : SumFunction([s \in S |-> F[s][u]]) = f[u]
  <2> TAKE u \in U
  <2> DEFINE col == [s \in S |-> F[s][u]]
  <2>1. col \in [S -> Int] /\ \A s \in S : col[s] = IF m[s] = u THEN f[u] ELSE 0
    OBVIOUS
  <2> HIDE DEF col
  <2>2. CASE f[u] = 0
    BY <2>1, <2>2, SumZero DEF col
  <2>3. CASE f[u] # 0
    <3>1. PICK x \in S : m[x] = u
      BY <2>3
    <3>2. SumFunction(col) = col[x]
      BY <2>1, <3>1, SumOne
    <3> QED BY <2>1, <3>1, <3>2 DEF col
  <2> QED BY <2>2, <2>3
<1> HIDE DEF F
<1>4. SumFunction([s \in S |-> SumFunction(F[s])])
        = SumFunction([u \in U |-> SumFunction([s \in S |-> F[s][u]])])
  BY <1>1, SumSwaps
<1>5. [s \in S |-> SumFunction(F[s])] = [s \in S |-> f[m[s]]]
  BY <1>2
<1>6. [u \in U |-> SumFunction([s \in S |-> F[s][u]])] = f
  BY <1>3
<1> QED BY <1>4, <1>5, <1>6

\* A sum taken in two parts, which p and q list.
TwoParts(p, q, S, U) ==
  /\ p \in [S -> U] /\ q \in [S -> U]
  /\ \A s, t \in S : p[s] = p[t] => s = t
  /\ \A s, t \in S : q[s] = q[t] => s = t
  /\ \A s, t \in S : p[s] # q[t]
  /\ \A u \in U : \E s \in S : p[s] = u \/ q[s] = u

LEMMA SumParts ==
  ASSUME NEW S, IsFiniteSet(S), NEW U, IsFiniteSet(U), NEW f \in [U -> Int],
         NEW h \in [S -> Int], NEW p, NEW q, TwoParts(p, q, S, U),
         \A s \in S : h[s] = f[p[s]] + f[q[s]]
  PROVE  SumFunction(f) = SumFunction(h)
<1> DEFINE A == {p[s] : s \in S}
           x == [u \in U |-> IF u \in A THEN f[u] ELSE 0]
           y == [u \in U |-> IF u \in A THEN 0 ELSE f[u]]
           xp == [s \in S |-> x[p[s]]]
           yq == [s \in S |-> y[q[s]]]
<1>1. /\ \A u \in U : u \in A <=> \E s \in S : p[s] = u
      /\ \A u \in U : u \notin A => \E s \in S : q[s] = u
      /\ \A s \in S : p[s] \in U /\ q[s] \in U /\ p[s] \in A /\ q[s] \notin A
      /\ p \in [S -> U] /\ q \in [S -> U]
      /\ \A s, t \in S : p[s] = p[t] => s = t
      /\ \A s, t \in S : q[s] = q[t] => s = t
  BY DEF TwoParts
<1> HIDE DEF A
<1>2. /\ x \in [U -> Int] /\ y \in [U -> Int]
      /\ \A u \in U : f[u] = x[u] + y[u]
      /\ \A u \in U : (x[u] # 0 => u \in A) /\ (y[u] # 0 => u \notin A)
  OBVIOUS
<1>3. /\ xp \in [S -> Int] /\ yq \in [S -> Int]
      /\ \A s \in S : xp[s] = f[p[s]] /\ yq[s] = f[q[s]]
  BY <1>1
<1>4. SumFunction(xp) = SumFunction(x)
  <2> HIDE DEF x, y, yq
  <2> QED BY <1>1, <1>2, SumEmbeds
<1>5. SumFunction(yq) = SumFunction(y)
  <2> HIDE DEF x, y, xp
  <2> QED BY <1>1, <1>2, SumEmbeds
<1> HIDE DEF x, y, xp, yq
<1>6. SumFunction(f) = SumFunction(x) + SumFunction(y)
  BY <1>2, SumAdds
<1>7. SumFunction(h) = SumFunction(xp) + SumFunction(yq)
  <2>1. \A s \in S : h[s] = xp[s] + yq[s]
    BY <1>3
  <2> QED BY <1>3, <2>1, SumAdds
<1> QED BY <1>4, <1>5, <1>6, <1>7

IsHalf(S, U, l) == l \in Nat /\ S = 0..(l - 1) /\ U = 0..(2 * l - 1)

LEMMA Halves ==
  ASSUME NEW S, NEW U, NEW l, IsHalf(S, U, l)
  PROVE  /\ IsFiniteSet(S) /\ IsFiniteSet(U)
         /\ TwoParts([j \in S |-> j], [j \in S |-> j + l], S, U)
<1>1. l \in Nat /\ S = 0..(l - 1) /\ U = 0..(2 * l - 1)
  BY DEF IsHalf
<1> DEFINE p == [j \in 0..(l - 1) |-> j]
           q == [j \in 0..(l - 1) |-> j + l]
<1>2. /\ p \in [S -> U] /\ q \in [S -> U]
      /\ \A j \in S : p[j] = j /\ q[j] = j + l
      /\ \A s, t \in S : p[s] # q[t]
      /\ \A s, t \in S : (p[s] = p[t] => s = t) /\ (q[s] = q[t] => s = t)
  BY <1>1
<1>3. \A u \in U : IF u < l THEN u \in S /\ p[u] = u ELSE u - l \in S /\ q[u - l] = u
  BY <1>1
<1> HIDE DEF p, q
<1>4. \A u \in U : \E s \in S : p[s] = u \/ q[s] = u
  BY <1>3, Zenon
<1>5. TwoParts(p, q, S, U)
  BY <1>2, <1>4, Zenon DEF TwoParts
<1> QED BY <1>1, <1>5, FS_Interval DEF p, q

LEMMA SumHalves ==
  ASSUME NEW S, NEW U, NEW l, IsHalf(S, U, l),
         NEW f \in [U -> Int], NEW h \in [S -> Int], \A j \in S : h[j] = f[j] + f[j + l]
  PROVE  SumFunction(f) = SumFunction(h)
<1>1. PICK p, q : p = [j \in S |-> j] /\ q = [j \in S |-> j + l]
  OBVIOUS
<1>2. TwoParts(p, q, S, U) /\ IsFiniteSet(S) /\ IsFiniteSet(U)
  BY <1>1, Halves
<1>3. \A s \in S : h[s] = f[p[s]] + f[q[s]]
  BY <1>1
<1> QED BY <1>2, <1>3, SumParts

\* A function that is given by its value at 0 and by a step from an earlier
\* value to each other one.
StepsTo(g, n, x, from, step) ==
  /\ g \in [0..n -> Int]
  /\ \A e \in 0..n : g[e] = IF e = 0 THEN x ELSE step[e][g[from[e]]]

Earlier(m, from, step) ==
  /\ \A e \in 1..m : from[e] \in 0..(e - 1)
  /\ step \in [1..m -> [Int -> Int]]

LEMMA Recursion ==
  ASSUME NEW m \in Nat, NEW x \in Int, NEW from, NEW step, Earlier(m, from, step)
  PROVE  \E g : StepsTo(g, m, x, from, step)
<1> DEFINE G == {n \in Nat : n <= m => \E g : StepsTo(g, n, x, from, step)}
<1>1. 0 \in G
  <2> DEFINE g == [e \in 0..0 |-> x]
  <2>1. StepsTo(g, 0, x, from, step)
    BY DEF StepsTo
  <2> QED BY <2>1
<1>2. ASSUME NEW n \in Nat, n \in G PROVE n + 1 \in G
  <2> SUFFICES ASSUME n + 1 <= m PROVE \E g : StepsTo(g, n + 1, x, from, step)
    OBVIOUS
  <2>1. PICK g : StepsTo(g, n, x, from, step)
    BY <1>2
  <2>2. g \in [0..n -> Int] /\ \A e \in 0..n : g[e] = IF e = 0 THEN x ELSE step[e][g[from[e]]]
    BY <2>1 DEF StepsTo
  <2> DEFINE next == step[n + 1][g[from[n + 1]]]
             h == [e \in 0..(n + 1) |-> IF e = n + 1 THEN next ELSE g[e]]
  <2>3. next \in Int
    <3>1. n + 1 \in 1..m /\ from[n + 1] \in 0..n
      BY DEF Earlier
    <3>2. step[n + 1] \in [Int -> Int]
      BY <3>1 DEF Earlier
    <3>3. g[from[n + 1]] \in Int
      BY <2>1, <3>1 DEF StepsTo
    <3> QED BY <3>2, <3>3
  <2> HIDE DEF next
  <2>4. \A e \in 0..n : h[e] = g[e] /\ g[e] \in Int
    BY <2>2
  <2>5. h \in [0..(n + 1) -> Int] /\ h[n + 1] = next
    BY <2>2, <2>3
  <2> HIDE DEF h
  <2>6. ASSUME NEW e \in 0..(n + 1), e # 0 PROVE h[e] = step[e][h[from[e]]]
    <3>5. e \in 1..m /\ e - 1 \in 0..n
      BY <2>6
    <3>6. from[e] \in 0..(e - 1)
      BY <3>5 DEF Earlier
    <3>1. from[e] \in 0..n
      BY <3>5, <3>6
    <3>4. h[from[e]] = g[from[e]]
      BY <2>4, <3>1
    <3>2. CASE e = n + 1
      BY <2>5, <3>2, <3>4 DEF next
    <3>3. CASE e # n + 1
      <4>1. e \in 0..n
        BY <3>3
      <4>2. g[e] = step[e][g[from[e]]] /\ h[e] = g[e]
        BY <2>2, <2>4, <2>6, <4>1
      <4> QED BY <3>4, <4>2
    <3> QED BY <3>2, <3>3
  <2>7. h[0] = x
    BY <2>2, <2>4
  <2>8. StepsTo(h, n + 1, x, from, step)
    BY <2>5, <2>6, <2>7 DEF StepsTo
  <2> QED BY <2>8
<1>3. m \in G
  <2> HIDE DEF G
  <2> QED BY <1>1, <1>2, Induction
<1> QED BY <1>3

LEMMA StepsTaken ==
  ASSUME NEW g, NEW m \in Nat, NEW x \in Int, NEW from, NEW step,
         Earlier(m, from, step), StepsTo(g, m, x, from, step)
  PROVE  /\ g \in [0..m -> Int] /\ g[0] = x
         /\ \A e \in 1..m : /\ from[e] \in 0..(e - 1) /\ g[from[e]] \in Int
                            /\ g[e] = step[e][g[from[e]]]
<1>1. g \in [0..m -> Int]
  BY Zenon DEF StepsTo
<1>2. g[0] = x
  <2>1. 0 \in 0..m
    OBVIOUS
  <2> QED BY <2>1, Zenon DEF StepsTo
<1>3. ASSUME NEW e \in 1..m
      PROVE  /\ from[e] \in 0..(e - 1) /\ g[from[e]] \in Int
             /\ g[e] = step[e][g[from[e]]]
  <2>1. e \in 0..m /\ e # 0 /\ \A n \in 0..(e - 1) : n \in 0..m
    OBVIOUS
  <2>2. from[e] \in 0..(e - 1)
    BY Zenon DEF Earlier
  <2>3. g[from[e]] \in Int
    BY <1>1, <2>1, <2>2
  <2>4. g[e] = step[e][g[from[e]]]
    BY <2>1, Zenon DEF StepsTo
  <2> QED BY <2>2, <2>3, <2>4
<1> QED BY <1>1, <1>2, <1>3

\* A sum with at most n terms that are not 0, each within a bound.
LEMMA SumBounded ==
  ASSUME NEW S, IsFiniteSet(S), NEW f \in [S -> Int], NEW b \in Nat,
         NEW P \in SUBSET S,
         \A x \in S : /\ -b <= f[x] /\ f[x] <= b
                      /\ x \notin P => f[x] = 0
  PROVE  -(Cardinality(P) * b) <= SumFunction(f) /\ SumFunction(f) <= Cardinality(P) * b
<1> DEFINE ff == Fold(f, S)
           n(s) == Cardinality(s \cap P)
           T == {s \in SUBSET S : -(n(s) * b) <= ff[s] /\ ff[s] <= n(s) * b}
<1>1. /\ Recursive(ff, f, S)
      /\ \A s \in SUBSET S : s # {} =>
           Pick(s) \in s /\ Pick(s) \in S /\ s \ {Pick(s)} \in SUBSET S
  BY FoldStep
<1>2. \A s \in SUBSET S : ff[s] \in Int
  BY FoldType
<1>3. SumFunction(f) = ff[S] /\ S \cap P = P
  BY SumIsFold
<1>4. \A s \in SUBSET S : IsFiniteSet(s \cap P) /\ n(s) \in Nat
  BY FS_Subset, FS_CardinalityType
<1> HIDE DEF ff
<1>5. {} \in T
  <2>1. {} \cap P = {} /\ n({}) = 0
    BY FS_EmptySet
  <2>2. 0 * b = 0
    BY RingLaws
  <2> QED BY <1>1, <2>1, <2>2 DEF Recursive
<1>6. ASSUME NEW s \in SUBSET S, s # {}, s \ {Pick(s)} \in T PROVE s \in T
  <2> DEFINE r == s \ {Pick(s)}
  <2>1. Pick(s) \in s /\ Pick(s) \in S /\ r \in SUBSET S /\ ff[s] = f[Pick(s)] + ff[r]
    BY <1>1, <1>6 DEF Recursive
  <2>2. ff[r] \in Int /\ ff[s] \in Int /\ f[Pick(s)] \in Int /\ n(r) \in Nat /\ n(s) \in Nat
    BY <1>2, <1>4, <2>1
  <2>3. -(n(r) * b) <= ff[r] /\ ff[r] <= n(r) * b
    BY <1>6
  <2>4. CASE Pick(s) \in P
    <3>1. r \cap P = (s \cap P) \ {Pick(s)} /\ Pick(s) \in s \cap P
      BY <2>1, <2>4
    <3>2. n(r) = n(s) - 1
      <4>1. IsFiniteSet(s \cap P)
        BY <1>4
      <4> DEFINE q == s \cap P
      <4>2. Cardinality(q \ {Pick(s)}) = Cardinality(q) - 1
        <5> HIDE DEF q
        <5> QED BY <3>1, <4>1, FS_RemoveElement DEF q
      <4> QED BY <3>1, <4>2
    <3>3. n(s) * b = n(r) * b + b /\ n(r) * b \in Int
      <4> HIDE DEF n
      <4>1. \A k \in Int : k * b = (k - 1) * b + b /\ k * b \in Int
        BY Z3
      <4> QED BY <2>2, <3>2, <4>1
    <3>4. -b <= f[Pick(s)] /\ f[Pick(s)] <= b
      BY <2>1
    <3> HIDE DEF n, r
    <3> QED BY <2>1, <2>2, <2>3, <3>3, <3>4
  <2>5. CASE Pick(s) \notin P
    <3>1. r \cap P = s \cap P /\ f[Pick(s)] = 0
      BY <2>1, <2>5
    <3>2. n(r) = n(s)
      BY <3>1
    <3> HIDE DEF n, r
    <3> QED BY <2>1, <2>2, <2>3, <3>1, <3>2
  <2> QED BY <2>4, <2>5
<1>7. \A s \in SUBSET S : s \in T
  <2> HIDE DEF T
  <2> QED BY <1>5, <1>6, SubsetInduction
<1> QED BY <1>3, <1>7

-----------------------------------------------------------------------------
(***************************************************************************)
(* Products.  Ext continues a polynomial to the left, with a change of     *)
(* sign every N coefficients, so that a negacyclic product is a sum of     *)
(* plain products; that products commute is then an exchange of two sums.  *)
(***************************************************************************)
RingPoly == Poly(Int)

Ext(b, m) == IF m >= 0 THEN b[m] ELSE IF m >= -N THEN -b[N + m] ELSE b[2 * N + m]

Addends(a, b, m) == [i \in Idx |-> a[i] * Ext(b, m - i)]

\* The places of a coefficient.
LEMMA IdxFinite == N \in Nat /\ N > 0 /\ IsFiniteSet(Idx) /\ \A i \in Idx : i \in Nat /\ i < N
<1>1. N \in Nat /\ N > 0
  BY RingAssumption
<1>2. IsFiniteSet(Idx)
  BY <1>1, FS_Interval DEF Idx
<1> QED BY <1>1, <1>2 DEF Idx

\* Ext is defined as far to the left as products need it.
LEMMA ExtType ==
  ASSUME NEW b \in RingPoly, NEW m \in (1 - 2 * N)..(N - 1)
  PROVE  Ext(b, m) \in Int
<1>1. \A i \in 0..(N - 1) : b[i] \in Int
  BY DEF RingPoly, Poly, Idx
<1>2. CASE m >= 0
  BY <1>1, <1>2, IdxFinite DEF Ext
<1>3. CASE m < 0 /\ m >= -N
  <2>1. N + m \in 0..(N - 1)
    BY <1>3, IdxFinite
  <2>2. b[N + m] \in Int /\ Ext(b, m) = -b[N + m]
    BY <1>1, <1>3, <2>1, IdxFinite DEF Ext
  <2> QED BY <2>2
<1>4. CASE m < -N
  <2>1. 2 * N + m \in 0..(N - 1)
    BY <1>4, IdxFinite
  <2>2. Ext(b, m) = b[2 * N + m]
    BY <1>4, IdxFinite DEF Ext
  <2> QED BY <1>1, <2>1, <2>2
<1> QED BY <1>2, <1>3, <1>4, IdxFinite

\* Going on for N coefficients changes the sign.
LEMMA ExtTurns ==
  ASSUME NEW b \in RingPoly, NEW m \in (1 - 2 * N)..(-1)
  PROVE  Ext(b, m) = -Ext(b, N + m)
<1>1. N \in Nat /\ N > 0
  BY IdxFinite
<1>2. CASE m >= -N
  BY <1>1, <1>2 DEF Ext
<1>3. CASE m < -N
  <2>1. 2 * N + m \in 0..(N - 1) /\ N + m >= -N /\ ~(N + m >= 0) /\ N + (N + m) = 2 * N + m
    BY <1>1, <1>3
  <2>2. b[2 * N + m] \in Int
    BY <2>1 DEF RingPoly, Poly, Idx
  <2>3. Ext(b, m) = b[2 * N + m] /\ Ext(b, N + m) = -b[2 * N + m]
    BY <1>1, <1>3, <2>1 DEF Ext
  <2> QED BY <2>2, <2>3
<1> QED BY <1>1, <1>2, <1>3

\* The terms of a product.
LEMMA AddendsType ==
  ASSUME NEW a \in RingPoly, NEW b \in RingPoly, NEW m \in (-N)..(N - 1)
  PROVE  Addends(a, b, m) \in [Idx -> Int]
<1>1. ASSUME NEW i \in Idx PROVE a[i] * Ext(b, m - i) \in Int
  <2>1. m - i \in (1 - 2 * N)..(N - 1)
    BY IdxFinite
  <2>2. a[i] \in Int /\ Ext(b, m - i) \in Int
    BY <2>1, ExtType DEF RingPoly, Poly
  <2> QED BY <2>2, RingLaws
<1> QED BY <1>1 DEF Addends

\* Mul in terms of Ext.
LEMMA MulSum ==
  ASSUME NEW a \in RingPoly, NEW b \in RingPoly
  PROVE  /\ Mul(a, b) \in RingPoly
         /\ \A k \in Idx : Mul(a, b)[k] = SumFunction(Addends(a, b, k))
<1> DEFINE terms(k) == [i \in Idx |-> IF i <= k THEN a[i] * b[k - i] ELSE -(a[i] * b[N + k - i])]
<1>1. ASSUME NEW k \in Idx, NEW i \in Idx
      PROVE  (IF i <= k THEN a[i] * b[k - i] ELSE -(a[i] * b[N + k - i])) = a[i] * Ext(b, k - i)
  <2>1. N \in Nat /\ k \in Nat /\ i \in Nat /\ k < N /\ i < N
    BY IdxFinite
  <2>2. CASE i <= k
    BY <2>1, <2>2 DEF Ext
  <2>3. CASE ~(i <= k)
    <3>1. N + k - i \in Idx /\ N + (k - i) = N + k - i /\ ~(k - i >= 0) /\ k - i >= -N
      BY <2>1, <2>3 DEF Idx
    <3>2. a[i] \in Int /\ b[N + k - i] \in Int
      BY <3>1 DEF RingPoly, Poly
    <3>3. Ext(b, k - i) = -b[N + k - i]
      BY <3>1 DEF Ext
    <3> QED BY <2>3, <3>2, <3>3, RingLaws
  <2> QED BY <2>2, <2>3
<1>2. \A k \in Idx : terms(k) = Addends(a, b, k)
  BY <1>1 DEF Addends
<1>3. Mul(a, b) = [k \in Idx |-> SumFunction(terms(k))]
  BY DEF Mul
<1>4. ASSUME NEW k \in Idx PROVE SumFunction(Addends(a, b, k)) \in Int
  <2>1. k \in (-N)..(N - 1)
    BY IdxFinite
  <2> QED BY <2>1, AddendsType, IdxFinite, SumType
<1> HIDE DEF terms
<1> QED BY <1>2, <1>3, <1>4 DEF RingPoly, Poly

\* A product continued to the left is the sum that is continued.
LEMMA MulExt ==
  ASSUME NEW c \in RingPoly, NEW s \in RingPoly, NEW m \in (1 - N)..(N - 1)
  PROVE  Ext(Mul(c, s), m) = SumFunction(Addends(c, s, m))
<1>1. N \in Nat /\ N > 0
  BY IdxFinite
<1>2. CASE m >= 0
  <2>1. m \in Idx /\ Ext(Mul(c, s), m) = Mul(c, s)[m]
    BY <1>1, <1>2 DEF Ext, Idx
  <2> QED BY <2>1, MulSum
<1>3. CASE m < 0
  <2>1. N + m \in Idx /\ Ext(Mul(c, s), m) = -Mul(c, s)[N + m]
    BY <1>1, <1>3 DEF Ext, Idx
  <2>2. Mul(c, s)[N + m] = SumFunction(Addends(c, s, N + m))
    BY <2>1, MulSum
  <2>3. Addends(c, s, m) \in [Idx -> Int] /\ Addends(c, s, N + m) \in [Idx -> Int]
    <3>1. m \in (-N)..(N - 1) /\ N + m \in (-N)..(N - 1)
      BY <1>1, <1>3
    <3> QED BY <3>1, AddendsType
  <2>4. ASSUME NEW j \in Idx
        PROVE  Addends(c, s, m)[j] = (-1) * Addends(c, s, N + m)[j]
    <3> DEFINE x == Ext(s, (N + m) - j)
    <3>1. m - j \in (1 - 2 * N)..(-1) /\ N + (m - j) = (N + m) - j
          /\ (N + m) - j \in (1 - 2 * N)..(N - 1)
      BY <1>1, <1>3, IdxFinite
    <3>2. Ext(s, m - j) = -Ext(s, N + (m - j))
      BY <3>1, ExtTurns
    <3>3. c[j] \in Int /\ x \in Int
      BY <3>1, ExtType DEF RingPoly, Poly
    <3>4. Addends(c, s, m)[j] = c[j] * Ext(s, m - j) /\ Addends(c, s, N + m)[j] = c[j] * x
      BY Zenon DEF Addends
    <3>5. Ext(s, m - j) = -x
      BY <3>1, <3>2
    <3> HIDE DEF x
    <3>6. c[j] * (-x) = -(c[j] * x) /\ c[j] * x \in Int
      BY <3>3, RingLaws
    <3>7. (-1) * (c[j] * x) = -(c[j] * x)
      BY <3>6, RingLaws
    <3> QED BY <3>4, <3>5, <3>6, <3>7
  <2>5. SumFunction(Addends(c, s, m)) = (-1) * SumFunction(Addends(c, s, N + m))
    BY <2>3, <2>4, IdxFinite, SumScales
  <2>6. SumFunction(Addends(c, s, N + m)) \in Int
    BY <2>3, IdxFinite, SumType
  <2> QED BY <2>1, <2>2, <2>5, <2>6, RingLaws
<1> QED BY <1>1, <1>2, <1>3

\* One coefficient of a(cs), as a sum of sums.
LEMMA MulSwapsAt ==
  ASSUME NEW a \in RingPoly, NEW c \in RingPoly, NEW s \in RingPoly, NEW k \in Idx
  PROVE  Mul(a, Mul(c, s))[k]
           = SumFunction([i \in Idx |-> 
                 SumFunction([j \in Idx |-> a[i] * (c[j] * Ext(s, k - i - j))])])
<1> DEFINE inner(i) == [j \in Idx |-> a[i] * (c[j] * Ext(s, k - i - j))]
<1>1. Mul(a, Mul(c, s))[k] = SumFunction(Addends(a, Mul(c, s), k))
  BY MulSum
<1>2. ASSUME NEW i \in Idx PROVE a[i] * Ext(Mul(c, s), k - i) = SumFunction(inner(i))
  <2>1. k - i \in (1 - N)..(N - 1) /\ k - i \in (-N)..(N - 1)
    BY IdxFinite
  <2>2. Ext(Mul(c, s), k - i) = SumFunction(Addends(c, s, k - i))
    BY <2>1, MulExt
  <2>3. Addends(c, s, k - i) \in [Idx -> Int] /\ a[i] \in Int
    BY <2>1, AddendsType DEF RingPoly, Poly
  <2>4. \A j \in Idx : inner(i)[j] = a[i] * Addends(c, s, k - i)[j]
    BY DEF Addends
  <2>5. inner(i) \in [Idx -> Int]
    <3>1. \A j \in Idx : Addends(c, s, k - i)[j] \in Int
                         /\ Addends(c, s, k - i)[j] = c[j] * Ext(s, k - i - j)
      BY <2>3 DEF Addends
    <3>2. \A j \in Idx : a[i] * (c[j] * Ext(s, k - i - j)) \in Int
      BY <2>3, <3>1, RingLaws
    <3> QED BY <3>2
  <2> HIDE DEF inner
  <2> QED BY <2>2, <2>3, <2>4, <2>5, IdxFinite, SumScales
<1>3. Addends(a, Mul(c, s), k) = [i \in Idx |-> SumFunction(inner(i))]
  <2> HIDE DEF inner
  <2> QED BY <1>2 DEF Addends
<1> QED BY <1>1, <1>3

\* poly_pointwise_montgomery: a(cs) = c(as).
THEOREM MulSwaps ==
  ASSUME NEW a \in RingPoly, NEW c \in RingPoly, NEW s \in RingPoly
  PROVE  Mul(a, Mul(c, s)) = Mul(c, Mul(a, s))
<1>1. ASSUME NEW k \in Idx PROVE Mul(a, Mul(c, s))[k] = Mul(c, Mul(a, s))[k]
  <2> DEFINE f == [i \in Idx |-> [j \in Idx |-> a[i] * (c[j] * Ext(s, k - i - j))]]
  <2>1. ASSUME NEW i \in Idx, NEW j \in Idx
        PROVE  /\ a[i] * (c[j] * Ext(s, k - i - j)) \in Int
               /\ a[i] * (c[j] * Ext(s, k - i - j)) = c[j] * (a[i] * Ext(s, k - j - i))
    <3>1. k - i - j \in (1 - 2 * N)..(N - 1) /\ k - i - j = k - j - i
      BY IdxFinite
    <3>2. a[i] \in Int /\ c[j] \in Int /\ Ext(s, k - i - j) \in Int
      BY <3>1, ExtType DEF RingPoly, Poly
    <3> QED BY <3>1, <3>2, RingLaws
  <2>2. f \in [Idx -> [Idx -> Int]]
    BY <2>1
  <2>3. Mul(a, Mul(c, s))[k] = SumFunction([i \in Idx |-> SumFunction(f[i])])
    <3>1. \A i \in Idx : f[i] = [j \in Idx |-> a[i] * (c[j] * Ext(s, k - i - j))]
      OBVIOUS
    <3>2. [i \in Idx |-> SumFunction(f[i])]
            = [i \in Idx |-> SumFunction([j \in Idx |-> a[i] * (c[j] * Ext(s, k - i - j))])]
      <4> HIDE DEF f
      <4> QED BY <3>1
    <3>3. Mul(a, Mul(c, s))[k]
           = SumFunction([i \in Idx |-> 
                 SumFunction([j \in Idx |-> a[i] * (c[j] * Ext(s, k - i - j))])])
      BY MulSwapsAt
    <3> HIDE DEF f
    <3> QED BY <3>2, <3>3
  <2>4. Mul(c, Mul(a, s))[k]
          = SumFunction([j \in Idx |-> 
                SumFunction([i \in Idx |-> c[j] * (a[i] * Ext(s, k - j - i))])])
    BY MulSwapsAt
  <2>5. \A j \in Idx : [i \in Idx |-> c[j] * (a[i] * Ext(s, k - j - i))] = [i \in Idx |-> f[i][j]]
    BY <2>1
  <2>6. Mul(c, Mul(a, s))[k] = SumFunction([j \in Idx |-> SumFunction([i \in Idx |-> f[i][j]])])
    <3> HIDE DEF f
    <3> QED BY <2>4, <2>5
  <2> HIDE DEF f
  <2> QED BY <2>2, <2>3, <2>6, IdxFinite, SumSwaps
<1>2. Mul(a, Mul(c, s)) \in RingPoly /\ Mul(c, Mul(a, s)) \in RingPoly
  BY MulSum
<1> QED BY <1>1, <1>2 DEF RingPoly, Poly

IsSum(w, u, v) == \A i \in Idx : w[i] = u[i] + v[i]

\* A product of a sum.
LEMMA MulAdds ==
  ASSUME NEW a \in RingPoly, NEW u \in RingPoly, NEW v \in RingPoly, NEW w \in RingPoly,
         IsSum(w, u, v)
  PROVE  \A k \in Idx : Mul(a, w)[k] = Mul(a, u)[k] + Mul(a, v)[k]
<1> SUFFICES ASSUME NEW k \in Idx PROVE Mul(a, w)[k] = Mul(a, u)[k] + Mul(a, v)[k]
  OBVIOUS
<1>0. \A i \in Idx : w[i] = u[i] + v[i]
  BY DEF IsSum
<1>1. k \in (-N)..(N - 1)
  BY IdxFinite
<1>2. /\ Addends(a, u, k) \in [Idx -> Int] /\ Addends(a, v, k) \in [Idx -> Int]
      /\ Addends(a, w, k) \in [Idx -> Int]
  BY <1>1, AddendsType
<1>3. ASSUME NEW i \in Idx
      PROVE  Addends(a, w, k)[i] = Addends(a, u, k)[i] + Addends(a, v, k)[i]
  <2>1. k - i \in (1 - N)..(N - 1) /\ k - i \in (1 - 2 * N)..(N - 1)
    BY IdxFinite
  <2>2. a[i] \in Int /\ Ext(u, k - i) \in Int /\ Ext(v, k - i) \in Int
    BY <2>1, ExtType DEF RingPoly, Poly
  <2>3. Ext(w, k - i) = Ext(u, k - i) + Ext(v, k - i)
    <3>1. CASE k - i >= 0
      BY <1>0, <2>1, <3>1, IdxFinite DEF Ext, Idx
    <3>2. CASE ~(k - i >= 0)
      <4>1. N + (k - i) \in Idx /\ k - i >= -N
        BY <2>1, <3>2, IdxFinite DEF Idx
      <4>2. u[N + (k - i)] \in Int /\ v[N + (k - i)] \in Int
            /\ w[N + (k - i)] = u[N + (k - i)] + v[N + (k - i)]
        BY <1>0, <4>1 DEF RingPoly, Poly
      <4> QED BY <3>2, <4>1, <4>2 DEF Ext
    <3> QED BY <3>1, <3>2
  <2> QED BY <2>2, <2>3, RingLaws DEF Addends
<1>4. SumFunction(Addends(a, w, k))
        = SumFunction(Addends(a, u, k)) + SumFunction(Addends(a, v, k))
  BY <1>2, <1>3, IdxFinite, SumAdds
<1> QED BY <1>4, MulSum

\* A product of a multiple.
LEMMA MulScales ==
  ASSUME NEW a \in RingPoly, NEW p \in Int, NEW u \in RingPoly, NEW w \in RingPoly,
         \A i \in Idx : w[i] = p * u[i]
  PROVE  \A k \in Idx : Mul(a, w)[k] = p * Mul(a, u)[k]
<1> SUFFICES ASSUME NEW k \in Idx PROVE Mul(a, w)[k] = p * Mul(a, u)[k]
  OBVIOUS
<1>1. k \in (-N)..(N - 1)
  BY IdxFinite
<1>2. Addends(a, u, k) \in [Idx -> Int] /\ Addends(a, w, k) \in [Idx -> Int]
  BY <1>1, AddendsType
<1>3. ASSUME NEW i \in Idx PROVE Addends(a, w, k)[i] = p * Addends(a, u, k)[i]
  <2>1. k - i \in (1 - N)..(N - 1) /\ k - i \in (1 - 2 * N)..(N - 1)
    BY IdxFinite
  <2>2. a[i] \in Int /\ Ext(u, k - i) \in Int
    BY <2>1, ExtType DEF RingPoly, Poly
  <2>3. Ext(w, k - i) = p * Ext(u, k - i)
    <3>1. CASE k - i >= 0
      BY <2>1, <3>1, IdxFinite DEF Ext, Idx
    <3>2. CASE ~(k - i >= 0)
      <4>1. N + (k - i) \in Idx /\ k - i >= -N
        BY <2>1, <3>2, IdxFinite DEF Idx
      <4>2. u[N + (k - i)] \in Int /\ w[N + (k - i)] = p * u[N + (k - i)]
        BY <4>1 DEF RingPoly, Poly
      <4>3. p * (-u[N + (k - i)]) = -(p * u[N + (k - i)])
        BY <4>2, RingLaws
      <4> QED BY <3>2, <4>1, <4>2, <4>3 DEF Ext
    <3> QED BY <3>1, <3>2
  <2> QED BY <2>2, <2>3, RingLaws DEF Addends
<1>4. SumFunction(Addends(a, w, k)) = p * SumFunction(Addends(a, u, k))
  BY <1>2, <1>3, IdxFinite, SumScales
<1> QED BY <1>4, MulSum
=============================================================================
