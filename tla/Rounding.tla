------------------------------ MODULE Rounding ------------------------------
(***************************************************************************)
(* The arithmetic of common/reduce.c and common/rounding.c on one          *)
(* coefficient, for the ML-DSA-44 values and as the C code computes it:    *)
(* shifts for the divisions, a multiplication by 11275 for the one by      *)
(* ALPHA, sign masks for the conditional additions.  a >> n is a \div 2^n, *)
(* which rounds down as the arithmetic shift does.                         *)
(***************************************************************************)
EXTENDS Integers

Q      == 8380417
D      == 13
GAMMA1 == 131072
GAMMA2 == (Q - 1) \div 88
ETA    == 2
TAU    == 39
BETA   == 78

\* The rounding that module HighBits defines by divisions.
HB == INSTANCE HighBits

INT32_MIN == -2147483647 - 1

\* What reduce32 is said to take: an int32_t with a <= 2^31 - 2^22 - 1.
InReduceDomain(a) == INT32_MIN <= a /\ a <= 2143289343

\* What decompose and power2round assume: a standard representative.
IsStandard(a) == 0 <= a /\ a < Q

(***************************************************************************)
(* reduce.c                                                                *)
(***************************************************************************)
Quotient(a) == (a + 4194304) \div 8388608

reduce32(a) == a - Quotient(a) * Q

\* a += (a >> 31) & Q;
caddq(a) == a + (IF a < 0 THEN Q ELSE 0)

freeze(a) == caddq(reduce32(a))

(***************************************************************************)
(* poly_chknorm, on one coefficient                                        *)
(***************************************************************************)
Magnitude(a) == IF a < 0 THEN -a ELSE a

chknormNotStrict(a, B) == B > (Q - 1) \div 8 \/ Magnitude(a) > B
chknorm(a, B) == B > (Q - 1) \div 8 \/ Magnitude(a) >= B

(***************************************************************************)
(* rounding.c                                                              *)
(***************************************************************************)
power2roundHalfUp(a) ==
  LET a1 == (a + 4096) \div 8192 IN [hi |-> a1, lo |-> a - a1 * 8192]
power2round(a) ==
  LET a1 == (a + 4095) \div 8192 IN [hi |-> a1, lo |-> a - a1 * 8192]

\* ((a + 127) >> 7) * 11275 / 2^24, rounded, stands for a / ALPHA.
ApproxHighOffByOne(a) == (((a + 127) \div 128) * 11274 + 8388608) \div 16777216
ApproxHigh(a) == (((a + 127) \div 128) * 11275 + 8388608) \div 16777216

decompose(a) ==
  LET up == ApproxHigh(a)
      a1 == IF up > 43 THEN 0 ELSE up
      a0 == a - a1 * 2 * GAMMA2
  IN [hi |-> a1, lo |-> a0 - (IF a0 > (Q - 1) \div 2 THEN Q ELSE 0)]

make_hintNoWrap(a0, a1) == IF a0 > GAMMA2 \/ a0 < -GAMMA2 THEN 1 ELSE 0
make_hint(a0, a1) ==
  IF a0 > GAMMA2 \/ a0 < -GAMMA2 \/ (a0 = -GAMMA2 /\ a1 # 0) THEN 1 ELSE 0

use_hint(a, hint) ==
  LET d == decompose(a) IN
  IF hint = 0 THEN d.hi
  ELSE IF d.lo > 0 THEN (IF d.hi = 43 THEN 0 ELSE d.hi + 1)
  ELSE IF d.hi = 0 THEN 43
  ELSE d.hi - 1

-----------------------------------------------------------------------------
(***************************************************************************)
(* What the callers rely on, for one input                                 *)
(***************************************************************************)
\* reduce32 and freeze give representatives of a, freeze the standard one.
ReducesAt(a) ==
  /\ (reduce32(a) - a) % Q = 0
  /\ -6283009 <= reduce32(a) /\ reduce32(a) <= 6283008
  /\ freeze(a) = a % Q

\* The doc comment of reduce32: -6283008 <= r <= 6283008.
DocumentedRangeAt(a) == -6283008 <= reduce32(a) /\ reduce32(a) <= 6283008

\* reduce32 leaves representatives up to three quarters of Q, not only the
\* centered ones; the verdict of chknorm is still that of the centered one.
NormVerdictAt(a, B) == chknorm(reduce32(a), B) <=> HB!Abs(HB!Centered(a)) >= B

\* The multiplication by 11275 is the division by ALPHA, for all of 0..Q-1.
DecomposesAt(a) == decompose(a) = HB!Decompose(a)

\* t1 fits its 10 bits, t0 its 13 and w1 its 6; t is what they came from.
PartsFitAt(a) ==
  LET p == power2round(a) IN
  /\ a = p.hi * 8192 + p.lo
  /\ 0 <= p.hi /\ p.hi < 1024
  /\ 0 <= 4096 - p.lo /\ 4096 - p.lo < 8192
  /\ 0 <= decompose(a).hi /\ decompose(a).hi < 44

\* A hint made from a sum hi*ALPHA + v repairs its high part to hi.
HintRepairsAt(hi, v) ==
  use_hint((hi * 2 * GAMMA2 + v) % Q, make_hint(v, hi)) = hi

(***************************************************************************)
(* One coefficient of a signature, with w of A*y, e of c*s2 and f of c*t0: *)
(* the two checks sign.c makes, and the coefficient a verifier rebuilds,   *)
(* that of A*z - c*t1*2^D = w - e + f.                                     *)
(***************************************************************************)
PassesChecks(w, e, f) ==
  /\ ~chknorm(decompose(w).lo - e, GAMMA2 - BETA)
  /\ ~chknorm(f, GAMMA2)

VerifierAgreesAt(w, e, f) ==
  LET hint == make_hint(decompose(w).lo - e + f, decompose(w).hi)
  IN PassesChecks(w, e, f) => use_hint((w - e + f) % Q, hint) = decompose(w).hi

\* Another c*s2 within BETA would have left the high part as it is.
HighPartHidesAt(w, e, e2) ==
  ~chknorm(decompose(w).lo - e, GAMMA2 - BETA) =>
    decompose((w - e + e2) % Q).hi = decompose(w).hi
=============================================================================
