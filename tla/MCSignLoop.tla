----------------------------- MODULE MCSignLoop -----------------------------
(***************************************************************************)
(* Two instances of SignLoop for TLC.  "Poly": polynomials of two          *)
(* coefficients, one row and one column, so that products are negacyclic   *)
(* and OMEGA can be exceeded.  "Vec": scalars, two rows and two columns,   *)
(* with a nonce of two bits, so that it wraps after two attempts.          *)
(***************************************************************************)
EXTENDS SignLoop

Vec1(p) == [i \in {0} |-> p]
Pol(a, b) == [i \in 0..1 |-> IF i = 0 THEN a ELSE b]
Con(a) == [i \in {0} |-> a]

PolyMatrices == {Vec1(Vec1(Pol(5, 17)))}
PolySecrets1 == {Vec1(Pol(1, -1)), Vec1(Pol(0, 1)), Vec1(Pol(-1, -1))}
PolySecrets2 == {Vec1(Pol(a, b)) : a \in {-1, 1}, b \in {-1, 0, 1}}
PolyMasks    == {Pol(a, b) : a \in {-3, 1, 4}, b \in {-2, 0, 3}}

VecMatrices == {[i \in 0..1 |-> [j \in 0..1 |-> Con((7 * i + 12 * j + 3) % 41)]]}
VecSecrets1 == {[i \in 0..1 |-> Con(1 - i)], [i \in 0..1 |-> Con(-1)]}
VecSecrets2 == {[i \in 0..1 |-> Con(2 * i - 1)], [i \in 0..1 |-> Con(1)]}
VecMasks    == {Con(a) : a \in {-3, 1, 4}}
=============================================================================
