-------------------------------- MODULE Ring --------------------------------
(***************************************************************************)
(* The ring Z_Q[X]/(X^N + 1) of common/poly.c, without its reduction       *)
(* modulo Q: polynomials are functions on 0..N-1.  Module Ntt has the way  *)
(* in which the code multiplies.                                           *)
(***************************************************************************)
EXTENDS Params, Integers, Functions

ASSUME RingAssumption == N \in Nat \ {0}

Idx     == 0..(N - 1)
Poly(S) == [Idx -> S]

\* poly_pointwise_montgomery between two NTTs: the negacyclic product.
Mul(a, b) ==
  [k \in Idx |->
     SumFunction([i \in Idx |-> IF i <= k THEN a[i] * b[k-i] ELSE -(a[i] * b[N+k-i])])]
=============================================================================
