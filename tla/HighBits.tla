------------------------------ MODULE HighBits ------------------------------
(***************************************************************************)
(* The rounding of common/rounding.c on one coefficient, as arithmetic:    *)
(* what power2round, decompose, make_hint and use_hint compute, for any    *)
(* modulus Q and any GAMMA2 whose double divides Q-1.  Module Rounding     *)
(* holds the shifts and the multiplication by 11275 that the C code uses   *)
(* to compute it for the ML-DSA-44 values, and proves the two equal.       *)
(***************************************************************************)
EXTENDS Integers

CONSTANTS Q,        \* the modulus, 8380417 in params.h
          D,        \* dropped bits of t, 13
          GAMMA2    \* low-order rounding range, (Q-1)/88

\* 2*GAMMA2 is the code's ALPHA; HIGH is the number of high parts, 44.
ALPHA == 2 * GAMMA2
HIGH  == (Q - 1) \div ALPHA

ASSUME RoundingAssumption ==
  /\ Q \in Nat /\ D \in Nat \ {0} /\ GAMMA2 \in Nat \ {0}
  /\ Q = HIGH * ALPHA + 1
  /\ HIGH > 1

\* Powers of two are positive integers.
ASSUME PowerAssumption == 2^D \in Nat \ {0} /\ 2^(D-1) \in Nat \ {0}

\* The representative of a nearest to zero: what poly_reduce leaves of a
\* coefficient whose norm is then compared with a bound of at most (Q-1)/8.
Centered(a) == LET r == a % Q IN IF r > (Q - 1) \div 2 THEN r - Q ELSE r

Abs(a) == IF a < 0 THEN -a ELSE a

(***************************************************************************)
(* power2round, decompose: a record [hi, lo] for a1 and *a0.               *)
(***************************************************************************)
Power2Round(a) ==
  LET a1 == (a + 2^(D-1) - 1) \div 2^D IN [hi |-> a1, lo |-> a - a1 * 2^D]

Decompose(a) ==
  LET up == (a + GAMMA2 - 1) \div ALPHA
      a1 == IF up = HIGH THEN 0 ELSE up
      a0 == a - a1 * ALPHA
  IN [hi |-> a1, lo |-> IF a0 > (Q - 1) \div 2 THEN a0 - Q ELSE a0]

\* make_hint: 1 when adding the low part a0 to a1*ALPHA moves the high part.
MakeHintNoWrap(a0, a1) == IF a0 > GAMMA2 \/ a0 < -GAMMA2 THEN 1 ELSE 0
MakeHint(a0, a1) ==
  IF a0 > GAMMA2 \/ a0 < -GAMMA2 \/ (a0 = -GAMMA2 /\ a1 # 0) THEN 1 ELSE 0

\* use_hint: the high part of a, moved one up or down (cyclically) by a hint.
UseHint(a, hint) ==
  LET d == Decompose(a) IN
  IF hint = 0 THEN d.hi
  ELSE IF d.lo > 0 THEN (IF d.hi = HIGH - 1 THEN 0 ELSE d.hi + 1)
  ELSE IF d.hi = 0 THEN HIGH - 1
  ELSE d.hi - 1
=============================================================================
