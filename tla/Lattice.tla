------------------------------ MODULE Lattice -------------------------------
(***************************************************************************)
(* The ring Z_Q[X]/(X^N + 1) of common/poly.c and the vectors over it of   *)
(* common/polyvec.c.  A product is the ring's product: the NTT, the        *)
(* pointwise products and the inverse NTT that compute it in C are one     *)
(* operator here.                                                          *)
(***************************************************************************)
EXTENDS HighBits, Ring, FiniteSetsExt

CONSTANTS K, L,     \* rows and columns of the matrix, 4 and 4
          ETA,      \* bound of a secret coefficient, 2
          TAU,      \* non-zero coefficients of a challenge, 39
          GAMMA1,   \* range of a mask coefficient, 2^17
          OMEGA     \* hints a signature has room for, 80

BETA == TAU * ETA    \* bound of a coefficient of c*s1 and c*s2, 78

ASSUME LatticeAssumption ==
  /\ K \in Nat \ {0} /\ L \in Nat \ {0}
  /\ ETA \in Nat /\ TAU \in 0..N /\ OMEGA \in Nat
  /\ GAMMA1 \in Nat /\ BETA < GAMMA1 /\ BETA < GAMMA2
  /\ GAMMA1 - BETA <= (Q - 1) \div 8 /\ GAMMA2 <= (Q - 1) \div 8

VecL(S)  == [0..(L-1) -> Poly(S)]

Short     == VecL(-ETA..ETA)                 \* what uniform_eta yields
MaskPoly  == Poly((-GAMMA1 + 1)..GAMMA1)     \* what uniform_gamma1 yields
Challenge == {c \in Poly({-1, 0, 1}) : Cardinality({i \in Idx : c[i] # 0}) = TAU}

\* poly_add, poly_sub, poly_shiftl, and the same on each entry of a vector.
Add(u, v)   == [i \in DOMAIN u |-> [j \in Idx |-> u[i][j] + v[i][j]]]
Sub(u, v)   == [i \in DOMAIN u |-> [j \in Idx |-> u[i][j] - v[i][j]]]
ShiftL(u)   == [i \in DOMAIN u |-> [j \in Idx |-> u[i][j] * 2^D]]
Scale(c, v) == [i \in DOMAIN v |-> Mul(c, v[i])]

\* polyvec_matrix_pointwise_montgomery: each row times the vector, accumulated.
MatMul(A, v) ==
  [i \in DOMAIN A |->
     LET prod == [j \in DOMAIN v |-> Mul(A[i][j], v[j])]
     IN [k \in Idx |-> SumFunction([j \in DOMAIN v |-> prod[j][k]])]]

\* A function of one or two coefficients, on every coefficient of a vector:
\* polyvec reduce, caddq after an inverse NTT, decompose, power2round,
\* make_hint, use_hint.
Map(Op(_), u)       == [i \in DOMAIN u |-> [j \in Idx |-> Op(u[i][j])]]
Map2(Op(_,_), u, v) == [i \in DOMAIN u |-> [j \in Idx |-> Op(u[i][j], v[i][j])]]

Reduce(u)   == Map(Centered, u)
Standard(u) == Map(LAMBDA a : a % Q, u)
High(u)     == Map(LAMBDA a : Decompose(a).hi, u)
Low(u)      == Map(LAMBDA a : Decompose(a).lo, u)
T1(t)       == Map(LAMBDA a : Power2Round(a).hi, t)
T0(t)       == Map(LAMBDA a : Power2Round(a).lo, t)

MakeHints(v0, v1) == Map2(MakeHint, v0, v1)
UseHints(v, h)    == Map2(UseHint, v, h)

\* chknorm: 1 in C, TRUE here, when the norm reaches the bound, or when the
\* bound is one that reduced coefficients cannot be compared with.
ChkNorm(u, bound) ==
  \/ bound > (Q - 1) \div 8
  \/ \E i \in DOMAIN u, j \in Idx : Abs(u[i][j]) >= bound

\* The number of ones that polyveck_make_hint returns.
Ones(h) == Cardinality({p \in (DOMAIN h) \X Idx : h[p[1]][p[2]] = 1})
=============================================================================
