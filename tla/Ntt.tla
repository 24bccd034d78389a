-------------------------------- MODULE Ntt --------------------------------
(***************************************************************************)
(* Products in Z_Q[X]/(X^N + 1) as sign.c computes them: ntt and           *)
(* invntt_tomont of common/ntt.c layer by layer, the pointwise products of *)
(* common/polyvec.c with montgomery_reduce, and reduce32.  Nothing is      *)
(* reduced between the butterflies or the terms of a sum, so coefficients  *)
(* grow until the next reduction.                                          *)
(*                                                                         *)
(* A butterfly reads and writes the pair j, j + len alone, and the pairs of *)
(* a layer are disjoint: a layer is one step.                              *)
(***************************************************************************)
EXTENDS Ring, Sequences

CONSTANTS
  Q,              \* 8380417
  R,              \* 2^32: an int32_t holds -R/2 .. R/2 - 1
  QINV,           \* 58728449, the inverse of Q modulo R
  REDUCE,         \* 2^23, the divisor in reduce32
  ROOT_OF_UNITY,  \* 1753
  zetas,          \* the table of ntt.c, a function of 1..N-1
  f,              \* 41978, R^2/N mod Q
  Products        \* bound: the sums of products computed

(***************************************************************************)
(* A sum is a sequence of terms u * v.  given: u is a polynomial of the    *)
(* matrix, sampled in the NTT domain; minus: the term is subtracted.       *)
(* The sums of sign.c are L given terms (A*s1, A*y), these less one more   *)
(* (A*z - c*t1), and a single term without given ones (c*s1, c*s2, c*t0),  *)
(* which alone is not reduced before invntt_tomont.                        *)
(***************************************************************************)
VARIABLES
  sum,       \* the terms, as they were given
  u, v,      \* the factors of each, brought into the NTT domain in place
  w,         \* the sum
  layer,     \* history: layers of the transform that are done
  len, i,    \* the loop variables of the layers and of the terms
  at         \* where the computation is

nttVars == <<sum, u, v, w, layer, len, i, at>>

NttInit ==
  /\ sum \in Products
  /\ u = [k \in DOMAIN sum |-> sum[k].u] /\ v = [k \in DOMAIN sum |-> sum[k].v]
  /\ w = [j \in Idx |-> 0]
  /\ layer = 0 /\ len = N \div 2 /\ i = 1 /\ at = "ntt"

\* (int32_t) x
Int32(x) == LET y == x % R IN IF y >= R \div 2 THEN y - R ELSE y

montgomery_reduceUncentered(x) == (x - ((x * QINV) % R) * Q) \div R
montgomery_reduce(x) == (x - Int32(x * QINV) * Q) \div R

reduce32(x) == x - ((x + REDUCE \div 2) \div REDUCE) * Q

\* The zeta of the block that index j is in: zetas[++k] and zetas[--k].
Zeta(j) == zetas[N \div (2 * len) + j \div (2 * len)]
InverseZetaUnsigned(j) == zetas[N \div len - 1 - j \div (2 * len)]
InverseZeta(j) == -zetas[N \div len - 1 - j \div (2 * len)]

IsLow(j) == j % (2 * len) < len

\* What the inner loops leave in a[j].
Butterfly(a, j) ==
  IF IsLow(j) THEN a[j] + montgomery_reduce(Zeta(j) * a[j + len])
  ELSE a[j - len] - montgomery_reduce(Zeta(j) * a[j])

InverseButterfly(a, j) ==
  IF IsLow(j) THEN a[j] + a[j + len]
  ELSE montgomery_reduce(InverseZeta(j) * (a[j - len] - a[j]))

Layer(a) == [j \in Idx |-> Butterfly(a, j)]

nttLayer ==
  /\ at = "ntt" /\ len > 0
  /\ v' = [k \in DOMAIN v |-> Layer(v[k])]
  /\ u' = [k \in DOMAIN u |-> IF sum[k].given THEN u[k] ELSE Layer(u[k])]
  /\ len' = len \div 2 /\ layer' = layer + 1
  /\ UNCHANGED <<sum, w, i, at>>

nttReturn ==
  /\ at = "ntt" /\ len = 0
  /\ at' = "pointwise"
  /\ UNCHANGED <<sum, u, v, w, layer, len, i>>

\* poly_pointwise_montgomery of two polynomials
poly_pointwise(a, b) == [j \in Idx |-> montgomery_reduce(a[j] * b[j])]

PlusTerm(j) ==
  LET t == poly_pointwise(u[i], v[i])[j] IN
  IF i = 1 THEN t ELSE IF sum[i].minus THEN w[j] - t ELSE w[j] + t

pointwise_acc ==
  /\ at = "pointwise" /\ i <= Len(sum)
  /\ w' = [j \in Idx |-> PlusTerm(j)]
  /\ i' = i + 1
  /\ UNCHANGED <<sum, u, v, layer, len, at>>

\* Sums are reduced, a single product is not.
Unreduced(x) == x
Reduced(x) == IF Len(sum) > 1 THEN reduce32(x) ELSE x

reduce ==
  /\ at = "pointwise" /\ i > Len(sum)
  /\ w' = [j \in Idx |-> Reduced(w[j])]
  /\ at' = "invntt" /\ len' = 1 /\ layer' = 0
  /\ UNCHANGED <<sum, u, v, i>>

invnttLayer ==
  /\ at = "invntt" /\ len < N
  /\ w' = [j \in Idx |-> InverseButterfly(w, j)]
  /\ len' = 2 * len /\ layer' = layer + 1
  /\ UNCHANGED <<sum, u, v, i, at>>

invnttScale ==
  /\ at = "invntt" /\ len = N
  /\ w' = [j \in Idx |-> montgomery_reduce(f * w[j])]
  /\ at' = "done"
  /\ UNCHANGED <<sum, u, v, layer, len, i>>

NttNext ==
  nttLayer \/ nttReturn \/ pointwise_acc \/ reduce \/ invnttLayer \/ invnttScale

NttSpec == NttInit /\ [][NttNext]_nttVars

-----------------------------------------------------------------------------
(***************************************************************************)
(* The reference: a polynomial modulo X^N + 1 is given by its values at    *)
(* the N roots of X^N + 1, the odd powers of ROOT_OF_UNITY, in the order   *)
(* of bit-reversed indices.                                                *)
(***************************************************************************)
brv[n \in Idx] == IF n = 0 THEN 0 ELSE (brv[n \div 2] + (n % 2) * N) \div 2

Power[e \in 0..(2 * N - 1)] == IF e = 0 THEN 1 ELSE (Power[e - 1] * ROOT_OF_UNITY) % Q

ValueAt(a, n) ==
  SumFunction([j \in Idx |-> a[j] * Power[((2 * brv[n] + 1) * j) % (2 * N)]]) % Q

TermAt(t, n) ==
  (IF t.minus THEN -1 ELSE 1) * (IF t.given THEN t.u[n] ELSE ValueAt(t.u, n)) * ValueAt(t.v, n)

\* ntt gives the values of a polynomial at the roots, and the sum has there
\* the value of the sum of products: the factors 1/R that montgomery_reduce
\* leaves in the products cancel with the one in f, and each layer pairs the
\* coefficients with the right zeta, on the way there and back.
NttMultiplies ==
  /\ at = "pointwise" =>
       \A k \in DOMAIN sum, n \in Idx : (v[k][n] - ValueAt(sum[k].v, n)) % Q = 0
  /\ at = "done" =>
       \A n \in Idx :
         (ValueAt(w, n) - SumFunction([k \in DOMAIN sum |-> TermAt(sum[k], n)])) % Q = 0

\* How far coefficients may have grown, in multiples of Q: by one in a layer
\* of ntt, by one in a term, to the double in a layer of invntt_tomont.
Below(a, B) == \A j \in Idx : -B * Q < a[j] /\ a[j] < B * Q

FactorBound == layer + 1
SumBound ==
  CASE at = "ntt" -> 1
    [] at = "pointwise" -> IF i = 1 THEN 1 ELSE i - 1
    [] at = "invntt" -> len
    [] at = "done" -> 1

CoefficientsBounded ==
  /\ at \in {"ntt", "pointwise"} => \A k \in DOMAIN sum :
       Below(v[k], FactorBound) /\ Below(u[k], IF sum[k].given THEN 1 ELSE FactorBound)
  /\ Below(w, SumBound)

\* What montgomery_reduce is given next, from which it makes less than Q in
\* absolute value.  Its comment admits Q * 2^31 too, which it reduces to Q.
Reducible(x) == -(R \div 2) * Q <= x /\ x < (R \div 2) * Q

ArgumentsReducible ==
  \A j \in Idx :
    /\ at = "ntt" /\ len > 0 /\ ~IsLow(j) =>
         \A k \in DOMAIN sum :
           /\ Reducible(Zeta(j) * v[k][j])
           /\ sum[k].given \/ Reducible(Zeta(j) * u[k][j])
    /\ at = "pointwise" /\ i <= Len(sum) => Reducible(u[i][j] * v[i][j])
    /\ at = "invntt" /\ len < N /\ ~IsLow(j) =>
         Reducible(InverseZeta(j) * (w[j - len] - w[j]))
    /\ at = "invntt" /\ len = N => Reducible(f * w[j])

\* No sum or difference leaves an int32_t, not in the 8 layers of ntt nor in
\* those of invntt_tomont, where N * Q is just below 2^31; every argument of
\* montgomery_reduce is in the domain where it can be reduced; and the result is
\* smaller than Q in absolute value, as the comment of invntt_tomont says.
NttStaysInRange ==
  /\ CoefficientsBounded /\ ArgumentsReducible
  /\ \A j \in Idx :
       /\ w[j] \in -(R \div 2)..(R \div 2 - 1)
       /\ \A k \in DOMAIN sum : {u[k][j], v[k][j]} \subseteq -(R \div 2)..(R \div 2 - 1)
=============================================================================
