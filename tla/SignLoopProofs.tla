--------------------------- MODULE SignLoopProofs ---------------------------
(***************************************************************************)
(* Proofs about SignLoop, for any parameters.  First the algebra behind    *)
(* sign.c, on top of RingProofs: what a challenge times a short polynomial *)
(* is bounded by; the rounding of w, t and the hints; and from these, for  *)
(* vectors: what the verifier computes from z and t1 is what the signer    *)
(* committed to, and the checks of the rejection loop leave room for any   *)
(* other secret.  Then the loop: its types; that the 16-bit nonce gives a  *)
(* fresh mask to every attempt until it has run through all its values;    *)
(* that a mask once refused is refused again; that what is signed          *)
(* verifies; and that the checks on z and w0 hide s1 and s2.               *)
(* RoundingProofs shows that the roundings of the code are those of        *)
(* HighBits, which are used here.                                          *)
(***************************************************************************)
EXTENDS SignLoop, RingProofs

\* A challenge times a short polynomial is within BETA.
THEOREM MulBounded ==
  ASSUME NEW c \in Challenge, NEW s \in Poly(-ETA..ETA), NEW k \in Idx
  PROVE  Mul(c, s)[k] \in Int /\ -BETA <= Mul(c, s)[k] /\ Mul(c, s)[k] <= BETA
<1> DEFINE P == {i \in Idx : c[i] # 0}
<1>1. /\ ETA \in Nat /\ TAU \in Nat /\ c \in RingPoly /\ s \in RingPoly
      /\ \A i \in Idx : c[i] \in {-1, 0, 1}
      /\ Cardinality(P) = TAU
  BY LatticeAssumption DEF Challenge, RingPoly, Poly
<1>2. k \in (-N)..(N - 1)
  BY IdxFinite
<1>3. Addends(c, s, k) \in [Idx -> Int]
  BY <1>1, <1>2, AddendsType
<1>4. ASSUME NEW i \in Idx
      PROVE  /\ -ETA <= Addends(c, s, k)[i] /\ Addends(c, s, k)[i] <= ETA
             /\ i \notin P => Addends(c, s, k)[i] = 0
  <2>1. k - i \in (1 - N)..(N - 1)
    BY IdxFinite
  <2>2. Ext(s, k - i) \in -ETA..ETA
    <3>1. \A n \in Idx : s[n] \in -ETA..ETA
      BY DEF Poly
    <3>2. CASE k - i >= 0
      BY <2>1, <3>1, <3>2, IdxFinite DEF Ext, Idx
    <3>3. CASE ~(k - i >= 0)
      <4>1. N + (k - i) \in Idx /\ k - i >= -N
        BY <2>1, <3>3, IdxFinite DEF Idx
      <4>2. s[N + (k - i)] \in -ETA..ETA /\ Ext(s, k - i) = -s[N + (k - i)]
        BY <3>1, <3>3, <4>1 DEF Ext
      <4> QED BY <1>1, <4>2
    <3> QED BY <3>2, <3>3
  <2>3. c[i] \in {-1, 0, 1} /\ Addends(c, s, k)[i] = c[i] * Ext(s, k - i)
    BY <1>1 DEF Addends
  <2>4. Ext(s, k - i) \in Int /\ -ETA <= Ext(s, k - i) /\ Ext(s, k - i) <= ETA
    BY <1>1, <2>2
  <2> DEFINE x == Ext(s, k - i)
  <2>5. 0 * x = 0 /\ 1 * x = x /\ (-1) * x = -x
    BY <2>4, RingLaws
  <2> HIDE DEF x
  <2>6. c[i] # 0 => i \in P
    OBVIOUS
  <2> QED BY <1>1, <2>3, <2>4, <2>5, <2>6 DEF x
<1> HIDE DEF P
<1>5. P \in SUBSET Idx
  BY DEF P
<1>6. -(Cardinality(P) * ETA) <= SumFunction(Addends(c, s, k))
      /\ SumFunction(Addends(c, s, k)) <= Cardinality(P) * ETA
  BY <1>1, <1>3, <1>4, <1>5, IdxFinite, SumBounded
<1>7. Mul(c, s)[k] = SumFunction(Addends(c, s, k)) /\ Mul(c, s)[k] \in Int
  BY <1>1, MulSum DEF RingPoly, Poly
<1> QED BY <1>1, <1>6, <1>7 DEF BETA

-----------------------------------------------------------------------------
(***************************************************************************)
(* Rounding.  Decompose finds the multiple of ALPHA that its argument is   *)
(* within GAMMA2 of, and takes the topmost, Q - 1, for 0.                  *)
(***************************************************************************)
LEMMA RoundingParameters ==
  /\ Q \in Nat /\ GAMMA2 \in Nat /\ GAMMA2 > 0 /\ ALPHA \in Nat /\ ALPHA = 2 * GAMMA2
  /\ HIGH \in Nat /\ HIGH > 1 /\ HIGH * ALPHA \in Nat /\ Q = HIGH * ALPHA + 1
  /\ (Q - 1) \div 2 >= ALPHA
<1>1. /\ Q \in Nat /\ GAMMA2 \in Nat /\ GAMMA2 > 0 /\ ALPHA \in Nat /\ ALPHA = 2 * GAMMA2
      /\ Q = HIGH * ALPHA + 1
  BY RoundingAssumption DEF ALPHA
<1>2. HIGH \in Int /\ HIGH > 1
  BY <1>1, RoundingAssumption DEF HIGH
<1> DEFINE a == ALPHA
           n == HIGH
<1> HIDE DEF a, n
<1>3. a \in Nat /\ n \in Int /\ n > 1
  BY <1>1, <1>2 DEF a, n
<1>4. n * a \in Nat /\ n * a >= 2 * a
  BY <1>3, SMT
<1> QED BY <1>1, <1>2, <1>4 DEF a, n

\* Division with remainder by Q.
LEMMA Division ==
  ASSUME NEW x \in Int
  PROVE  x \div Q \in Int /\ x % Q \in 0..(Q - 1) /\ x = Q * (x \div Q) + (x % Q)
<1>1. Q \in Nat /\ Q > 0
  BY RoundingParameters
<1> QED BY <1>1, SMT

\* A quotient is found from a remainder that fits.
LEMMA Quotients ==
  ASSUME NEW a \in Nat, a > 0, NEW n \in Int, NEW r \in 0..(a - 1)
  PROVE  (n * a + r) \div a = n
BY SMT

\* decompose, where a1 is not wrapped.
LEMMA DecomposeNear ==
  ASSUME NEW n \in 0..(HIGH - 1), NEW v \in Int, -GAMMA2 < v, v <= GAMMA2
  PROVE  Decompose(n * ALPHA + v).hi = n /\ Decompose(n * ALPHA + v).lo = v
<1> DEFINE p == n * ALPHA
<1>1. n \in Int /\ n # HIGH /\ p \in Int /\ v + GAMMA2 - 1 \in 0..(ALPHA - 1)
  <2>1. n \in Int /\ n # HIGH /\ v + GAMMA2 - 1 \in 0..(ALPHA - 1)
    BY RoundingParameters
  <2>2. n \in Int /\ ALPHA \in Int => n * ALPHA \in Int
    OBVIOUS
  <2> QED BY <2>1, <2>2, RoundingParameters
<1>2. (p + (v + GAMMA2 - 1)) \div ALPHA = n
  BY <1>1, Quotients, RoundingParameters
<1> HIDE DEF p
<1>3. p + v + GAMMA2 - 1 = p + (v + GAMMA2 - 1)
  BY <1>1, RoundingParameters
<1>4. (p + v + GAMMA2 - 1) \div ALPHA = n
  BY <1>2, <1>3
<1>5. (p + v) - p = v /\ ~(v > (Q - 1) \div 2)
  BY <1>1, RoundingParameters
<1>6. (p + v) - n * ALPHA = v
  BY <1>5 DEF p
<1>7. Decompose(p + v).hi = n /\ Decompose(p + v).lo = v
  BY <1>1, <1>4, <1>5, <1>6 DEF Decompose
<1> QED BY <1>7 DEF p

\* decompose at the top of the range, where a1 = HIGH becomes 0.
LEMMA DecomposeTop ==
  ASSUME NEW v \in Int, -GAMMA2 < v, v <= 0
  PROVE  /\ Decompose(HIGH * ALPHA + v).hi = 0
         /\ Decompose(HIGH * ALPHA + v).lo = v - 1
<1> DEFINE p == HIGH * ALPHA
<1>1. p \in Int /\ v + GAMMA2 - 1 \in 0..(ALPHA - 1) /\ HIGH \in Int /\ p >= 2 * ALPHA
      /\ Q = p + 1
  BY RoundingParameters
<1>2. (p + (v + GAMMA2 - 1)) \div ALPHA = HIGH
  BY <1>1, Quotients, RoundingParameters
<1> HIDE DEF p
<1>3. p + v + GAMMA2 - 1 = p + (v + GAMMA2 - 1)
  BY <1>1, RoundingParameters
<1>4. (p + v + GAMMA2 - 1) \div ALPHA = HIGH
  BY <1>2, <1>3
<1>5. (p + v) > (Q - 1) \div 2 /\ (p + v) - Q = v - 1 /\ (p + v) - 0 * ALPHA = p + v
  BY <1>1, RoundingParameters
<1>6. Decompose(p + v).hi = 0 /\ Decompose(p + v).lo = v - 1
  BY <1>4, <1>5 DEF Decompose
<1> QED BY <1>6 DEF p

\* Its parts make up its argument, modulo Q.
LEMMA DecomposeParts ==
  ASSUME NEW x \in 0..(Q - 1)
  PROVE  /\ Decompose(x).hi \in 0..(HIGH - 1) /\ Decompose(x).lo \in Int
         /\ \E n \in Int : x = Decompose(x).hi * ALPHA + Decompose(x).lo + Q * n
<1> DEFINE up == (x + GAMMA2 - 1) \div ALPHA
           a1 == IF up = HIGH THEN 0 ELSE up
           a0 == x - a1 * ALPHA
<1>1. x \in Int /\ x + GAMMA2 - 1 \in Nat /\ x + GAMMA2 - 1 < HIGH * ALPHA + ALPHA
  BY RoundingParameters
<1>2. up \in 0..HIGH
  <2> DEFINE b == x + GAMMA2 - 1
             a == ALPHA
             n == HIGH
  <2> HIDE DEF b, a, n
  <2>1. b \in Nat /\ a \in Nat /\ a > 0 /\ n \in Nat /\ b < n * a + a
    BY <1>1, RoundingParameters DEF a, b, n
  <2>2. b \div a >= 0 /\ b \div a < n + 1 /\ b \div a \in Int
    BY <2>1, SMT
  <2>3. b \div a \in 0..n
    BY <2>1, <2>2
  <2> QED BY <2>3 DEF a, b, n
<1>3. a1 \in 0..(HIGH - 1)
  BY <1>2, RoundingParameters
<1>4. Decompose(x).hi = a1
      /\ Decompose(x).lo = IF a0 > (Q - 1) \div 2 THEN a0 - Q ELSE a0
  BY DEF Decompose
<1> HIDE DEF a1
<1> DEFINE p == a1 * ALPHA
<1>5. p \in Int
  <2>1. a1 \in Int /\ ALPHA \in Int => a1 * ALPHA \in Int
    OBVIOUS
  <2> QED BY <1>3, <2>1, RoundingParameters
<1>6. a0 = x - p
  OBVIOUS
<1> HIDE DEF p, a0
<1>7. CASE a0 > (Q - 1) \div 2
  <2>1. Decompose(x).lo \in Int /\ x = p + Decompose(x).lo + Q * 1
    BY <1>1, <1>4, <1>5, <1>6, <1>7, RoundingParameters
  <2> QED BY <1>3, <1>4, <2>1 DEF p
<1>8. CASE ~(a0 > (Q - 1) \div 2)
  <2>1. Decompose(x).lo \in Int /\ x = p + Decompose(x).lo + Q * 0
    BY <1>1, <1>4, <1>5, <1>6, <1>8, RoundingParameters
  <2> QED BY <1>3, <1>4, <2>1 DEF p
<1> QED BY <1>7, <1>8

-----------------------------------------------------------------------------
\* The multiples of ALPHA next to one.
LEMMA Neighbours ==
  ASSUME NEW n \in 0..(HIGH - 1)
  PROVE  /\ n * ALPHA \in Nat /\ n * ALPHA + ALPHA <= HIGH * ALPHA
         /\ (n + 1) * ALPHA = n * ALPHA + ALPHA
         /\ (n - 1) * ALPHA = n * ALPHA - ALPHA
         /\ n = 0 => n * ALPHA = 0
         /\ n # 0 => n * ALPHA >= ALPHA
         /\ n = HIGH - 1 => n * ALPHA + ALPHA = HIGH * ALPHA
<1> DEFINE a == ALPHA
           e == HIGH
<1> HIDE DEF a, e
<1>1. a \in Nat /\ a > 0 /\ e \in Nat /\ n \in 0..(e - 1) /\ n \in Nat
  BY RoundingParameters DEF a, e
<1>2. n * a \in Nat /\ (n + 1) * a = n * a + a /\ (n - 1) * a = n * a - a
  BY <1>1, SMT
<1>3. n * a + a <= e * a
  BY <1>1, SMT
<1>4. n = 0 => n * a = 0
  BY <1>1, SMT
<1>5. n # 0 => n * a >= a
  BY <1>1, SMT
<1>6. n = e - 1 => n * a + a = e * a
  BY <1>1, SMT
<1> QED BY <1>1, <1>2, <1>3, <1>4, <1>5, <1>6 DEF a, e

\* What % Q does within one Q of its range.
LEMMA Residues ==
  ASSUME NEW x \in Int
  PROVE  /\ x \in 0..(Q - 1) => x % Q = x
         /\ x < 0 /\ x >= -Q => x % Q = x + Q
BY RoundingParameters

\* decompose: what is added to a1*ALPHA does not show in the high part, when
\* it is less than GAMMA2.
LEMMA HighKept ==
  ASSUME NEW a1 \in 0..(HIGH - 1), NEW v \in Int, -GAMMA2 < v, v < GAMMA2
  PROVE  Decompose((a1 * ALPHA + v) % Q).hi = a1
<1> DEFINE p == a1 * ALPHA
           g == HIGH * ALPHA
<1>1. /\ p \in Nat /\ p + ALPHA <= g /\ Q = g + 1 /\ g \in Nat /\ ALPHA = 2 * GAMMA2
      /\ a1 = 0 => p = 0
      /\ a1 # 0 => p >= ALPHA
  BY Neighbours, RoundingParameters
<1>2. CASE p + v >= 0
  <2>1. Decompose(p + v).hi = a1
    BY DecomposeNear, RoundingParameters
  <2> HIDE DEF p, g
  <2>2. p + v \in 0..(Q - 1)
    BY <1>1, <1>2, RoundingParameters
  <2>3. (p + v) % Q = p + v
    BY <2>2, Residues
  <2> QED BY <2>1, <2>3 DEF p
<1>3. CASE p + v < 0
  <2>1. Decompose(g + (v + 1)).hi = 0
    <3>1. a1 = 0 /\ p = 0
      <4> HIDE DEF p, g
      <4> QED BY <1>1, <1>3, RoundingParameters
    <3>2. v + 1 \in Int /\ -GAMMA2 < v + 1 /\ v + 1 <= 0
      <4> HIDE DEF p, g
      <4> QED BY <1>3, <3>1, RoundingParameters
    <3> QED BY <3>2, DecomposeTop
  <2> HIDE DEF p, g
  <2>2. a1 = 0 /\ p = 0
    BY <1>1, <1>3, RoundingParameters
  <2>3. (p + v) % Q = (p + v) + Q /\ (p + v) + Q = g + (v + 1)
    BY <1>1, <1>3, <2>2, Residues, RoundingParameters
  <2> QED BY <2>1, <2>2, <2>3 DEF p
<1> QED BY <1>1, <1>2, <1>3

\* make_hint, use_hint: the high part comes back, when what is added to
\* a1*ALPHA is less than ALPHA.
THEOREM HintsRecover ==
  ASSUME NEW a1 \in 0..(HIGH - 1), NEW v \in Int, -ALPHA < v, v < ALPHA
  PROVE  UseHint((a1 * ALPHA + v) % Q, MakeHint(v, a1)) = a1
<1> DEFINE p == a1 * ALPHA
           g == HIGH * ALPHA
           x == (p + v) % Q
<1>1. /\ p \in Nat /\ p + ALPHA <= g /\ Q = g + 1 /\ g \in Nat /\ ALPHA = 2 * GAMMA2
      /\ GAMMA2 \in Nat /\ GAMMA2 > 0 /\ a1 \in Nat /\ a1 < HIGH /\ HIGH \in Nat /\ HIGH > 1
      /\ a1 = 0 => p = 0
      /\ a1 # 0 => p >= ALPHA
      /\ a1 = HIGH - 1 => p + ALPHA = g
  BY Neighbours, RoundingParameters
<1>2. CASE -GAMMA2 < v /\ v <= GAMMA2
  <2>1. MakeHint(v, a1) = 0
    BY <1>2, RoundingParameters DEF MakeHint
  <2>2. Decompose(x).hi = a1
    <3>1. CASE v < GAMMA2
      BY <1>2, <3>1, HighKept
    <3>2. CASE v = GAMMA2
      <4>1. Decompose(p + v).hi = a1
        BY <1>2, DecomposeNear
      <4>2. (p + v) % Q = p + v
        <5> HIDE DEF p, g
        <5>1. p + v \in 0..(Q - 1)
          BY <1>1, <3>2
        <5> QED BY <5>1, Residues
      <4> QED BY <4>1, <4>2
    <3> QED BY <1>1, <1>2, <3>1, <3>2
  <2> QED BY <2>1, <2>2 DEF UseHint
<1>3. CASE v > GAMMA2
  <2>1. MakeHint(v, a1) = 1
    BY <1>3 DEF MakeHint
  <2>2. CASE a1 # HIGH - 1
    <3>1. a1 + 1 \in 0..(HIGH - 1) /\ v - ALPHA \in Int /\ -GAMMA2 < v - ALPHA
          /\ v - ALPHA <= GAMMA2 /\ (a1 + 1) * ALPHA = p + ALPHA /\ v - ALPHA < 0
      BY <1>1, <1>3, <2>2, Neighbours
    <3>2. Decompose((a1 + 1) * ALPHA + (v - ALPHA)).hi = a1 + 1
          /\ Decompose((a1 + 1) * ALPHA + (v - ALPHA)).lo = v - ALPHA
      BY <3>1, DecomposeNear
    <3> HIDE DEF p, g
    <3>3. (p + v) % Q = p + v /\ p + ALPHA + (v - ALPHA) = p + v
      <4>1. p + v \in 0..(Q - 1)
        BY <1>1, <1>3
      <4> QED BY <1>1, <4>1, Residues
    <3>4. Decompose(x).hi = a1 + 1 /\ Decompose(x).lo = v - ALPHA
      BY <3>1, <3>2, <3>3
    <3>5. ~(v - ALPHA > 0) /\ a1 + 1 # 0 /\ a1 + 1 - 1 = a1
      BY <1>1, <3>1
    <3> HIDE DEF x
    <3>6. UseHint(x, 1) = a1
      BY <3>4, <3>5 DEF UseHint
    <3> QED BY <2>1, <3>6 DEF x, p
  <2>3. CASE a1 = HIGH - 1
    <3>1. v - ALPHA \in Int /\ -GAMMA2 < v - ALPHA /\ v - ALPHA <= 0
          /\ ~(v - ALPHA - 1 > 0)
      <4> HIDE DEF p, g
      <4> QED BY <1>1, <1>3
    <3>2. Decompose(g + (v - ALPHA)).hi = 0 /\ Decompose(g + (v - ALPHA)).lo = v - ALPHA - 1
      BY <3>1, DecomposeTop
    <3> HIDE DEF p, g
    <3>3. (p + v) % Q = p + v /\ g + (v - ALPHA) = p + v
      <4>1. p + v \in 0..(Q - 1)
        BY <1>1, <1>3, <2>3
      <4> QED BY <1>1, <2>3, <4>1, Residues
    <3>4. Decompose(x).hi = 0 /\ Decompose(x).lo = v - ALPHA - 1
      BY <3>2, <3>3
    <3> HIDE DEF x
    <3>5. UseHint(x, 1) = HIGH - 1
      BY <3>1, <3>4 DEF UseHint
    <3> QED BY <2>1, <2>3, <3>5 DEF x, p
  <2> QED BY <2>2, <2>3
<1>4. CASE v <= -GAMMA2 /\ a1 # 0
  <2>1. MakeHint(v, a1) = 1
    BY <1>1, <1>4 DEF MakeHint
  <2>2. a1 - 1 \in 0..(HIGH - 1) /\ v + ALPHA \in Int /\ -GAMMA2 < v + ALPHA
        /\ v + ALPHA <= GAMMA2 /\ (a1 - 1) * ALPHA = p - ALPHA /\ v + ALPHA > 0
    BY <1>1, <1>4, Neighbours
  <2>3. Decompose((a1 - 1) * ALPHA + (v + ALPHA)).hi = a1 - 1
        /\ Decompose((a1 - 1) * ALPHA + (v + ALPHA)).lo = v + ALPHA
    BY <2>2, DecomposeNear
  <2> HIDE DEF p, g
  <2>4. (p + v) % Q = p + v /\ p - ALPHA + (v + ALPHA) = p + v
    <3>1. p + v \in 0..(Q - 1)
      BY <1>1, <1>4
    <3> QED BY <1>1, <3>1, Residues
  <2>5. Decompose(x).hi = a1 - 1 /\ Decompose(x).lo = v + ALPHA
    BY <2>2, <2>3, <2>4
  <2>6. a1 - 1 # HIGH - 1 /\ a1 - 1 + 1 = a1
    BY <1>1
  <2> HIDE DEF x
  <2>7. UseHint(x, 1) = a1
    BY <2>2, <2>5, <2>6 DEF UseHint
  <2> QED BY <2>1, <2>7 DEF x, p
<1>5. CASE v = -GAMMA2 /\ a1 = 0
  <2>1. MakeHint(v, a1) = 0
    BY <1>1, <1>5 DEF MakeHint
  <2>2. Decompose(g + (1 - GAMMA2)).hi = 0
    BY <1>1, DecomposeTop
  <2>3. (p + v) % Q = g + (1 - GAMMA2)
    <3> HIDE DEF p, g
    <3>1. p + v = -GAMMA2 /\ -GAMMA2 >= -Q /\ -GAMMA2 < 0 /\ -GAMMA2 + Q = g + (1 - GAMMA2)
      BY <1>1, <1>5
    <3> QED BY <1>1, <3>1, Residues
  <2> QED BY <1>5, <2>1, <2>2, <2>3 DEF UseHint
<1>6. CASE v < -GAMMA2 /\ a1 = 0
  <2>1. MakeHint(v, a1) = 1
    BY <1>6 DEF MakeHint
  <2>2. HIGH - 1 \in 0..(HIGH - 1) /\ v + ALPHA + 1 \in Int /\ -GAMMA2 < v + ALPHA + 1
        /\ v + ALPHA + 1 <= GAMMA2 /\ v + ALPHA + 1 > 0
    <3> HIDE DEF p, g
    <3> QED BY <1>1, <1>6
  <2>3. (HIGH - 1) * ALPHA + ALPHA = g
    <3>1. HIGH - 1 = HIGH - 1
      OBVIOUS
    <3> QED BY <2>2, Neighbours
  <2>4. Decompose((HIGH - 1) * ALPHA + (v + ALPHA + 1)).hi = HIGH - 1
        /\ Decompose((HIGH - 1) * ALPHA + (v + ALPHA + 1)).lo = v + ALPHA + 1
    BY <2>2, DecomposeNear
  <2> DEFINE e == (HIGH - 1) * ALPHA
  <2>5. e \in Nat
    BY <2>2, Neighbours
  <2> HIDE DEF p, g, e
  <2>6. e + ALPHA = g
    BY <2>3 DEF e
  <2>7. (p + v) % Q = e + (v + ALPHA + 1)
    <3>1. p + v = v /\ v >= -Q /\ v < 0 /\ v + Q = e + (v + ALPHA + 1)
      BY <1>1, <1>6, <2>5, <2>6
    <3> QED BY <1>1, <3>1, Residues
  <2>8. Decompose(x).hi = HIGH - 1 /\ Decompose(x).lo = v + ALPHA + 1
    BY <2>4, <2>7 DEF e
  <2> HIDE DEF x
  <2>9. UseHint(x, 1) = 0
    BY <2>2, <2>8 DEF UseHint
  <2> QED BY <1>6, <2>1, <2>9 DEF x, p
<1> HIDE DEF p, g, x
<1> QED BY <1>1, <1>2, <1>3, <1>4, <1>5, <1>6 DEF x, p

\* The representative that norms are compared with.
LEMMA CenteredDiffers ==
  ASSUME NEW x \in Int
  PROVE  Centered(x) \in Int /\ \E n \in Int : Centered(x) = x + Q * n
<1> DEFINE r == x % Q
           e == x \div Q
<1>1. Q \in Nat /\ Q > 0
  BY RoundingParameters
<1>2. r \in Int /\ e \in Int /\ x = Q * e + r
  BY Division
<1>3. Q * (-e) = -(Q * e) /\ Q * (-e - 1) = -(Q * e) - Q /\ Q * e \in Int
  <2> HIDE DEF e, r
  <2> QED BY <1>1, <1>2, SMT
<1>4. Centered(x) = r - Q \/ Centered(x) = r
  BY DEF Centered
<1> HIDE DEF r, e
<1>5. -e \in Int /\ -e - 1 \in Int /\ r = x + Q * (-e) /\ r - Q = x + Q * (-e - 1)
  BY <1>1, <1>2, <1>3
<1>6. Centered(x) \in Int
  BY <1>1, <1>2, <1>4
<1> QED BY <1>4, <1>5, <1>6

\* power2round: the parts make up the coefficient.
LEMMA Power2Parts ==
  ASSUME NEW x \in Int
  PROVE  /\ Power2Round(x).hi \in Int /\ Power2Round(x).lo \in Int
         /\ x = Power2Round(x).hi * 2^D + Power2Round(x).lo
<1> DEFINE e == 2^D
           b == x + 2^(D-1) - 1
<1>0. b \in Int /\ e \in Nat /\ e > 0
  BY PowerAssumption
<1> HIDE DEF e, b
<1>1. b \div e \in Int /\ (b \div e) * e \in Int
  <2> DEFINE q == b \div e
  <2>1. q \in Int
    BY <1>0
  <2> HIDE DEF q
  <2>2. q * e \in Int
    BY <1>0, <2>1
  <2> QED BY <2>1, <2>2 DEF q
<1>2. Power2Round(x).hi = b \div e /\ Power2Round(x).lo = x - (b \div e) * e
  BY DEF Power2Round, e, b
<1> DEFINE p == (b \div e) * e
<1>3. p \in Int /\ Power2Round(x).lo = x - p
  BY <1>1, <1>2
<1>4. Power2Round(x).hi * e = p
  BY <1>2
<1> HIDE DEF p
<1>5. Power2Round(x).lo \in Int /\ x = p + Power2Round(x).lo
  BY <1>3
<1> QED BY <1>1, <1>2, <1>4, <1>5 DEF e

-----------------------------------------------------------------------------
(***************************************************************************)
(* Vectors.  Dot is one row of a matrix times a vector.                    *)
(***************************************************************************)
Cols    == 0..(L - 1)
RingVec == [Cols -> RingPoly]

Terms(a, v, k) == [n \in Cols |-> Mul(a[n], v[n])[k]]
Dot(a, v)      == [k \in Idx |-> SumFunction(Terms(a, v, k))]

\* polyvec_matrix_pointwise_montgomery, row by row.
LEMMA MatMulRows ==
  ASSUME NEW S, NEW A \in [S -> RingVec], NEW v \in RingVec
  PROVE  MatMul(A, v) = [i \in S |-> Dot(A[i], v)]
<1>1. DOMAIN A = S /\ DOMAIN v = Cols
  BY DEF RingVec
<1>2. MatMul(A, v) = [i \in S |-> [k \in Idx |-> SumFunction(
                        [n \in Cols |-> [j \in Cols |-> Mul(A[i][j], v[j])][n][k]])]]
  BY <1>1 DEF MatMul
<1>3. \A i \in S, k \in Idx :
        [n \in Cols |-> [j \in Cols |-> Mul(A[i][j], v[j])][n][k]] = Terms(A[i], v, k)
  BY DEF Terms
<1> QED BY <1>2, <1>3 DEF Dot

\* The types of a row's product and its terms.
LEMMA DotType ==
  ASSUME NEW a \in RingVec, NEW v \in RingVec
  PROVE  /\ IsFiniteSet(Cols) /\ \A k \in Idx : Terms(a, v, k) \in [Cols -> Int]
         /\ Dot(a, v) \in RingPoly /\ \A k \in Idx : Dot(a, v)[k] = SumFunction(Terms(a, v, k))
<1>1. IsFiniteSet(Cols)
  <2>1. 0 \in Int /\ L - 1 \in Int
    BY LatticeAssumption
  <2> QED BY <2>1, FS_Interval DEF Cols
<1>2. ASSUME NEW k \in Idx PROVE Terms(a, v, k) \in [Cols -> Int]
  <2>1. \A n \in Cols : Mul(a[n], v[n])[k] \in Int
    BY MulSum DEF RingVec, RingPoly, Poly
  <2> QED BY <2>1 DEF Terms
<1>3. \A k \in Idx : SumFunction(Terms(a, v, k)) \in Int
  BY <1>1, <1>2, SumType
<1> QED BY <1>1, <1>2, <1>3 DEF Dot, RingPoly, Poly

IsVecSum(w, u, v) == \A n \in Cols : IsSum(w[n], u[n], v[n])

\* A row times a sum.
LEMMA DotAdds ==
  ASSUME NEW a \in RingVec, NEW u \in RingVec, NEW v \in RingVec, NEW w \in RingVec,
         IsVecSum(w, u, v)
  PROVE  \A k \in Idx : Dot(a, w)[k] = Dot(a, u)[k] + Dot(a, v)[k]
<1> SUFFICES ASSUME NEW k \in Idx PROVE Dot(a, w)[k] = Dot(a, u)[k] + Dot(a, v)[k]
  OBVIOUS
<1>1. ASSUME NEW n \in Cols
      PROVE  Terms(a, w, k)[n] = Terms(a, u, k)[n] + Terms(a, v, k)[n]
  <2>1. a[n] \in RingPoly /\ u[n] \in RingPoly /\ v[n] \in RingPoly /\ w[n] \in RingPoly
        /\ IsSum(w[n], u[n], v[n])
    BY DEF RingVec, IsVecSum
  <2>2. Mul(a[n], w[n])[k] = Mul(a[n], u[n])[k] + Mul(a[n], v[n])[k]
    BY <2>1, MulAdds
  <2> QED BY <2>2 DEF Terms
<1>2. /\ IsFiniteSet(Cols) /\ Terms(a, u, k) \in [Cols -> Int]
      /\ Terms(a, v, k) \in [Cols -> Int] /\ Terms(a, w, k) \in [Cols -> Int]
  BY DotType
<1> DEFINE p == Terms(a, u, k)
           q == Terms(a, v, k)
           r == Terms(a, w, k)
<1> HIDE DEF p, q, r
<1>3. /\ p \in [Cols -> Int] /\ q \in [Cols -> Int] /\ r \in [Cols -> Int]
      /\ \A n \in Cols : r[n] = p[n] + q[n]
  BY <1>1, <1>2 DEF p, q, r
<1>4. SumFunction(r) = SumFunction(p) + SumFunction(q)
  BY <1>2, <1>3, SumAdds
<1> QED BY <1>4, DotType DEF p, q, r

\* A row times a multiple.
LEMMA DotScales ==
  ASSUME NEW a \in RingVec, NEW p \in Int, NEW u \in RingVec, NEW w \in RingVec,
         \A n \in Cols, i \in Idx : w[n][i] = p * u[n][i]
  PROVE  \A k \in Idx : Dot(a, w)[k] = p * Dot(a, u)[k]
<1> SUFFICES ASSUME NEW k \in Idx PROVE Dot(a, w)[k] = p * Dot(a, u)[k]
  OBVIOUS
<1>1. ASSUME NEW n \in Cols PROVE Terms(a, w, k)[n] = p * Terms(a, u, k)[n]
  <2>1. a[n] \in RingPoly /\ u[n] \in RingPoly /\ w[n] \in RingPoly
    BY DEF RingVec
  <2>2. Mul(a[n], w[n])[k] = p * Mul(a[n], u[n])[k]
    BY <2>1, MulScales
  <2> QED BY <2>2 DEF Terms
<1>2. SumFunction(Terms(a, w, k)) = p * SumFunction(Terms(a, u, k))
  BY <1>1, DotType, SumScales
<1> QED BY <1>2, DotType

\* A sum of polynomials continues to the left as the sum of what they do.
LEMMA ExtSum ==
  ASSUME NEW a \in RingVec, NEW v \in RingVec, NEW m \in (1 - N)..(N - 1)
  PROVE  /\ [n \in Cols |-> Ext(Mul(a[n], v[n]), m)] \in [Cols -> Int]
         /\ Ext(Dot(a, v), m) = SumFunction([n \in Cols |-> Ext(Mul(a[n], v[n]), m)])
<1> DEFINE e == [n \in Cols |-> Ext(Mul(a[n], v[n]), m)]
<1>1. \A n \in Cols : Mul(a[n], v[n]) \in RingPoly
  BY MulSum DEF RingVec
<1>2. N \in Nat /\ N > 0 /\ m \in (1 - 2 * N)..(N - 1)
  BY IdxFinite
<1>3. e \in [Cols -> Int]
  BY <1>1, <1>2, ExtType
<1>4. CASE m >= 0
  <2>1. m \in Idx
    BY <1>2, <1>4 DEF Idx
  <2>2. e = Terms(a, v, m) /\ Ext(Dot(a, v), m) = Dot(a, v)[m]
    BY <1>4 DEF Ext, Terms
  <2> QED BY <1>3, <2>1, <2>2, DotType
<1>5. CASE m < 0
  <2>1. N + m \in Idx /\ m >= -N /\ ~(m >= 0)
    BY <1>2, <1>5 DEF Idx
  <2> DEFINE q == N + m
  <2>2. \A n \in Cols : e[n] = -Mul(a[n], v[n])[q]
    BY <2>1 DEF Ext
  <2>3. Ext(Dot(a, v), m) = -Dot(a, v)[q]
    BY <2>1 DEF Ext
  <2> HIDE DEF e, q
  <2>4. q \in Idx
    BY <2>1 DEF q
  <2>5. Terms(a, v, q) \in [Cols -> Int] /\ Dot(a, v)[q] = SumFunction(Terms(a, v, q))
    BY <2>4, DotType
  <2>6. \A n \in Cols : e[n] = (-1) * Terms(a, v, q)[n]
    <3>1. \A n \in Cols : Terms(a, v, q)[n] = Mul(a[n], v[n])[q]
      BY DEF Terms
    <3>2. \A n \in Cols : Terms(a, v, q)[n] \in Int
      BY <2>5
    <3> QED BY <2>2, <3>1, <3>2, RingLaws
  <2>7. SumFunction(e) = (-1) * SumFunction(Terms(a, v, q))
    BY <1>3, <2>5, <2>6, DotType, SumScales
  <2>8. SumFunction(Terms(a, v, q)) \in Int
    BY <2>5, DotType, SumType
  <2>9. SumFunction(e) = -SumFunction(Terms(a, v, q))
    BY <2>7, <2>8, RingLaws
  <2> QED BY <1>3, <2>3, <2>5, <2>9 DEF e
<1> HIDE DEF e
<1>6. m >= 0 \/ m < 0
  BY <1>2
<1> QED BY <1>4, <1>5, <1>6

\* A row times a multiple of a vector by a polynomial.
LEMMA DotSwaps ==
  ASSUME NEW a \in RingVec, NEW c \in RingPoly, NEW s \in RingVec, NEW w \in RingVec,
         \A n \in Cols : w[n] = Mul(c, s[n])
  PROVE  \A k \in Idx : Dot(a, w)[k] = Mul(c, Dot(a, s))[k]
<1> SUFFICES ASSUME NEW k \in Idx PROVE Dot(a, w)[k] = Mul(c, Dot(a, s))[k]
  OBVIOUS
<1> DEFINE f == [n \in Cols |-> Addends(c, Mul(a[n], s[n]), k)]
<1>1. \A n \in Cols : /\ a[n] \in RingPoly /\ s[n] \in RingPoly
                      /\ Mul(a[n], s[n]) \in RingPoly
  BY MulSum DEF RingVec
<1>2. k \in (-N)..(N - 1) /\ IsFiniteSet(Idx) /\ IsFiniteSet(Cols)
      /\ \A i \in Idx : k - i \in (1 - N)..(N - 1)
  BY IdxFinite, DotType
<1>3. f \in [Cols -> [Idx -> Int]]
  BY <1>1, <1>2, AddendsType
<1>4. \A n \in Cols : Terms(a, w, k)[n] = SumFunction(f[n])
  <2> SUFFICES ASSUME NEW n \in Cols PROVE Terms(a, w, k)[n] = SumFunction(f[n])
    OBVIOUS
  <2>1. Mul(a[n], w[n]) = Mul(c, Mul(a[n], s[n]))
    BY <1>1, MulSwaps
  <2>2. Mul(c, Mul(a[n], s[n]))[k] = SumFunction(Addends(c, Mul(a[n], s[n]), k))
    BY <1>1, MulSum
  <2> QED BY <2>1, <2>2 DEF Terms
<1>5. Dot(a, w)[k] = SumFunction([n \in Cols |-> SumFunction(f[n])])
  <2> HIDE DEF f
  <2>1. Terms(a, w, k) = [n \in Cols |-> SumFunction(f[n])]
    BY <1>4 DEF Terms
  <2> QED BY <2>1, DotType
<1>6. ASSUME NEW i \in Idx
      PROVE  SumFunction([n \in Cols |-> f[n][i]]) = Addends(c, Dot(a, s), k)[i]
  <2> DEFINE e == [n \in Cols |-> Ext(Mul(a[n], s[n]), k - i)]
             g == [n \in Cols |-> f[n][i]]
  <2>1. e \in [Cols -> Int] /\ Ext(Dot(a, s), k - i) = SumFunction(e)
    BY <1>2, ExtSum
  <2>2. c[i] \in Int /\ g \in [Cols -> Int]
    <3> HIDE DEF f
    <3> QED BY <1>3 DEF RingPoly, Poly
  <2>3. \A n \in Cols : g[n] = c[i] * e[n]
    BY DEF Addends
  <2> HIDE DEF e, g
  <2>4. SumFunction(g) = c[i] * SumFunction(e)
    BY <1>2, <2>1, <2>2, <2>3, SumScales
  <2>5. Addends(c, Dot(a, s), k)[i] = c[i] * Ext(Dot(a, s), k - i)
    BY DEF Addends
  <2> QED BY <2>1, <2>4, <2>5 DEF g
<1>7. [i \in Idx |-> SumFunction([n \in Cols |-> f[n][i]])] = Addends(c, Dot(a, s), k)
  <2> HIDE DEF f
  <2> QED BY <1>6 DEF Addends
<1>8. Mul(c, Dot(a, s))[k] = SumFunction(Addends(c, Dot(a, s), k))
  BY DotType, MulSum
<1> HIDE DEF f
<1>9. SumFunction([n \in Cols |-> SumFunction(f[n])])
        = SumFunction([i \in Idx |-> SumFunction([n \in Cols |-> f[n][i]])])
  <2>1. IsFiniteSet(Cols) /\ IsFiniteSet(Idx)
    BY <1>2
  <2> QED BY <1>3, <2>1, SumSwaps
<1> QED BY <1>5, <1>7, <1>8, <1>9

-----------------------------------------------------------------------------
(***************************************************************************)
(* What the signer and the verifier compute agree modulo Q.                *)
(***************************************************************************)
LEMMA SameResidue ==
  ASSUME NEW x \in Int, NEW v \in Int, NEW n \in Int, x = v + Q * n
  PROVE  x % Q = v % Q
<1> DEFINE r == v % Q
           e == v \div Q
<1>1. Q \in Nat /\ Q > 0
  BY RoundingParameters
<1>2. r \in 0..(Q - 1) /\ e \in Int /\ v = Q * e + r
  BY Division
<1> HIDE DEF r, e
<1>3. Q * e + Q * n = Q * (e + n) /\ e + n \in Int /\ Q * e \in Int /\ Q * n \in Int
      /\ Q * (e + n) = (e + n) * Q /\ (e + n) * Q \in Int
  BY <1>1, <1>2, RingLaws
<1>4. \A q \in Int : (q * Q + r) % Q = r
  BY <1>1, <1>2, SMT
<1>5. x = (e + n) * Q + r
  BY <1>1, <1>2, <1>3
<1>6. x % Q = r
  BY <1>3, <1>4, <1>5
<1> QED BY <1>6 DEF r

\* A response z to a challenge c with the mask m, and a row of a public key.
Responds(zz, c, s1, m, q) ==
  \A n \in Cols, i \in Idx : zz[n][i] = Mul(c, s1[n])[i] + m[n][i] + Q * q[n][i]

SplitsRow(a, s1, s2, t1, t0, u) ==
  \A i \in Idx : Dot(a, s1)[i] + s2[i] = t1[i] + t0[i] + Q * u[i]

\* What follows for that row of A*z - c*t1*2^D.
RowsAgree(a, zz, m, c, s2, t1, t0, k) ==
  \E n \in Int : Dot(a, zz)[k] - Mul(c, t1)[k]
                   = Dot(a, m)[k] - Mul(c, s2)[k] + Mul(c, t0)[k] + Q * n

\* It is that of A*y - c*s2 + c*t0, modulo Q.
LEMMA RowAgrees ==
  ASSUME NEW a \in RingVec, NEW s1 \in RingVec, NEW m \in RingVec, NEW q \in RingVec,
         NEW zz \in RingVec,
         NEW c \in RingPoly, NEW s2 \in RingPoly, NEW u \in RingPoly,
         NEW t1 \in RingPoly, NEW t0 \in RingPoly,
         Responds(zz, c, s1, m, q), SplitsRow(a, s1, s2, t1, t0, u),
         NEW k \in Idx
  PROVE  RowsAgree(a, zz, m, c, s2, t1, t0, k)
<1> DEFINE cs == [n \in Cols |-> Mul(c, s1[n])]
           cm == [n \in Cols |-> [i \in Idx |-> Mul(c, s1[n])[i] + m[n][i]]]
           qq == [n \in Cols |-> [i \in Idx |-> Q * q[n][i]]]
           d  == Dot(a, s1)
           tt == [i \in Idx |-> t1[i] + t0[i]]
           uu == [i \in Idx |-> Q * u[i]]
           ds == [i \in Idx |-> d[i] + s2[i]]
<1>1. Q \in Int
  BY RoundingParameters
<1>2. /\ \A n \in Cols, i \in Idx : s1[n] \in RingPoly /\ m[n][i] \in Int /\ q[n][i] \in Int
      /\ \A i \in Idx : /\ t1[i] \in Int /\ t0[i] \in Int /\ u[i] \in Int /\ s2[i] \in Int
                        /\ d[i] \in Int
      /\ d \in RingPoly
  <2>1. d \in RingPoly
    BY DotType
  <2>2. \A n \in Cols : s1[n] \in RingPoly /\ m[n] \in RingPoly /\ q[n] \in RingPoly
    BY DEF RingVec
  <2> HIDE DEF d
  <2> QED BY <2>1, <2>2 DEF RingPoly, Poly
<1>3. \A n \in Cols, i \in Idx : Mul(c, s1[n]) \in RingPoly /\ Mul(c, s1[n])[i] \in Int
  BY <1>2, MulSum DEF RingPoly, Poly
<1>4. \A n \in Cols, i \in Idx : Q * q[n][i] \in Int /\ Q * u[i] \in Int
  BY <1>1, <1>2, RingLaws
<1>5. cs \in RingVec
  BY <1>3 DEF RingVec
<1>6. cm \in RingVec /\ qq \in RingVec
  BY <1>2, <1>3, <1>4 DEF RingVec, RingPoly, Poly
<1>7. tt \in RingPoly /\ uu \in RingPoly /\ ds \in RingPoly
  <2>1. \A i \in Idx : Q * u[i] \in Int
    BY <1>1, <1>2, RingLaws
  <2> HIDE DEF d
  <2> QED BY <1>2, <2>1 DEF RingPoly, Poly
<1>8. Dot(a, zz)[k] = Dot(a, cm)[k] + Dot(a, qq)[k]
  <2>1. IsVecSum(zz, cm, qq)
    BY DEF IsVecSum, IsSum, Responds
  <2>2. zz \in RingVec /\ cm \in RingVec /\ qq \in RingVec
    BY <1>6
  <2> HIDE DEF cm, qq
  <2>3. \A j \in Idx : Dot(a, zz)[j] = Dot(a, cm)[j] + Dot(a, qq)[j]
    BY <2>1, <2>2, DotAdds
  <2> QED BY <2>3
<1>9. Dot(a, cm)[k] = Dot(a, cs)[k] + Dot(a, m)[k]
  <2>1. IsVecSum(cm, cs, m)
    BY DEF IsVecSum, IsSum
  <2>2. cm \in RingVec /\ cs \in RingVec /\ m \in RingVec
    BY <1>5, <1>6
  <2> HIDE DEF cm, cs
  <2>3. \A j \in Idx : Dot(a, cm)[j] = Dot(a, cs)[j] + Dot(a, m)[j]
    BY <2>1, <2>2, DotAdds
  <2> QED BY <2>3
<1>10. Dot(a, qq)[k] = Q * Dot(a, q)[k]
  <2>1. \A n \in Cols, i \in Idx : qq[n][i] = Q * q[n][i]
    OBVIOUS
  <2> HIDE DEF qq
  <2> QED BY <1>1, <1>6, <2>1, DotScales
<1>11. Dot(a, cs)[k] = Mul(c, d)[k]
  <2>1. \A n \in Cols : cs[n] = Mul(c, s1[n])
    OBVIOUS
  <2> HIDE DEF cs
  <2> QED BY <1>5, <2>1, DotSwaps
<1>12. Mul(c, ds)[k] = Mul(c, d)[k] + Mul(c, s2)[k]
  <2>1. IsSum(ds, d, s2)
    BY DEF IsSum
  <2>2. ds \in RingPoly /\ d \in RingPoly /\ s2 \in RingPoly
    BY <1>2, <1>7
  <2> HIDE DEF ds, d
  <2>3. \A j \in Idx : Mul(c, ds)[j] = Mul(c, d)[j] + Mul(c, s2)[j]
    BY <2>1, <2>2, MulAdds
  <2> QED BY <2>3
<1>13. Mul(c, ds)[k] = Mul(c, tt)[k] + Mul(c, uu)[k]
  <2>1. IsSum(ds, tt, uu)
    BY DEF IsSum, SplitsRow
  <2>2. ds \in RingPoly /\ tt \in RingPoly /\ uu \in RingPoly
    BY <1>7
  <2> HIDE DEF ds, tt, uu
  <2>3. \A j \in Idx : Mul(c, ds)[j] = Mul(c, tt)[j] + Mul(c, uu)[j]
    BY <2>1, <2>2, MulAdds
  <2> QED BY <2>3
<1>14. Mul(c, tt)[k] = Mul(c, t1)[k] + Mul(c, t0)[k]
  <2>1. IsSum(tt, t1, t0)
    BY DEF IsSum
  <2>2. tt \in RingPoly /\ t1 \in RingPoly /\ t0 \in RingPoly
    BY <1>7
  <2> HIDE DEF tt
  <2>3. \A j \in Idx : Mul(c, tt)[j] = Mul(c, t1)[j] + Mul(c, t0)[j]
    BY <2>1, <2>2, MulAdds
  <2> QED BY <2>3
<1>15. Mul(c, uu)[k] = Q * Mul(c, u)[k]
  <2>1. \A i \in Idx : uu[i] = Q * u[i]
    OBVIOUS
  <2> HIDE DEF uu
  <2> QED BY <1>1, <1>7, <2>1, MulScales
<1> DEFINE dz == Dot(a, zz)[k]
           dm == Dot(a, m)[k]
           dq == Dot(a, q)[k]
           pd == Mul(c, d)[k]
           p2 == Mul(c, s2)[k]
           p1 == Mul(c, t1)[k]
           p0 == Mul(c, t0)[k]
           pu == Mul(c, u)[k]
<1>16. /\ dz \in Int /\ dm \in Int /\ dq \in Int
  BY DotType DEF RingPoly, Poly
<1>17. /\ pd \in Int /\ p2 \in Int /\ p1 \in Int /\ p0 \in Int /\ pu \in Int
  BY <1>2, MulSum DEF RingPoly, Poly
<1> DEFINE x == Q * dq
           v == Q * pu
<1>18. dz = pd + dm + x /\ pd + p2 = p1 + p0 + v
  <2> HIDE DEF cs, cm, qq, d, tt, uu, ds
  <2>1. dz = (pd + dm) + x
    BY <1>8, <1>9, <1>10, <1>11
  <2>2. pd + p2 = (p1 + p0) + v
    BY <1>12, <1>13, <1>14, <1>15
  <2> QED BY <2>1, <2>2
<1> HIDE DEF dz, dm, dq, pd, p2, p1, p0, pu
<1>19. x \in Int /\ v \in Int /\ Q * (dq + pu) = x + v /\ dq + pu \in Int
  BY <1>1, <1>16, <1>17, RingLaws
<1> HIDE DEF x, v
<1>20. dz - p1 = dm - p2 + p0 + (x + v)
  BY <1>16, <1>17, <1>18, <1>19
<1>21. dz - p1 = dm - p2 + p0 + Q * (dq + pu)
  BY <1>19, <1>20
<1> QED BY <1>19, <1>21 DEF RowsAgree, dz, dm, p2, p1, p0

\* One coefficient: of w = A*y, of c*s2, and what the signer checks.
LEMMA LowPart ==
  ASSUME NEW w \in Int, NEW s \in Int
  PROVE  LET d == Decompose(w % Q)
             e == Centered(d.lo - s)
         IN /\ d.hi \in 0..(HIGH - 1) /\ d.hi * ALPHA \in Int /\ e \in Int
            /\ \E n \in Int : w - s = d.hi * ALPHA + e + Q * n
<1> DEFINE x == w % Q
           q == w \div Q
           d == Decompose(x)
           e == Centered(d.lo - s)
<1>1. Q \in Nat /\ Q > 0
  BY RoundingParameters
<1>2. x \in 0..(Q - 1) /\ q \in Int /\ w = Q * q + x
  BY Division
<1> HIDE DEF x, q
<1>3. d.hi \in 0..(HIGH - 1) /\ d.lo \in Int
  BY <1>2, DecomposeParts
<1>4. PICK n \in Int : x = d.hi * ALPHA + d.lo + Q * n
  BY <1>2, DecomposeParts
<1>5. d.lo - s \in Int
  BY <1>3
<1>6. e \in Int
  BY <1>5, CenteredDiffers
<1>7. PICK o \in Int : e = d.lo - s + Q * o
  BY <1>5, CenteredDiffers
<1>8. d.hi * ALPHA \in Int
  BY <1>3, Neighbours
<1> DEFINE p == d.hi * ALPHA
           l == d.lo
<1> HIDE DEF e
<1>9. p \in Int /\ l \in Int /\ x = p + l + Q * n /\ e = l - s + Q * o
  BY <1>3, <1>4, <1>7, <1>8
<1> HIDE DEF p, l, d
<1>10. /\ Q * q \in Int /\ Q * n \in Int /\ Q * o \in Int /\ Q * (-o) = -(Q * o)
       /\ Q * (n + (-o)) = Q * n + Q * (-o)
       /\ Q * (q + (n + (-o))) = Q * q + Q * (n + (-o))
       /\ q + (n + (-o)) \in Int
  BY <1>1, <1>2, RingLaws
<1>11. w - s = p + e + Q * (q + (n + (-o)))
  BY <1>1, <1>2, <1>6, <1>9, <1>10
<1>12. \E b \in Int : w - s = p + e + Q * b
  BY <1>10, <1>11
<1> QED BY <1>3, <1>6, <1>8, <1>12 DEF p, d, e, x

-----------------------------------------------------------------------------
(***************************************************************************)
(* From one coefficient to vectors.                                        *)
(***************************************************************************)
Rows    == 0..(K - 1)
RingCol == [Rows -> RingPoly]
Matrix  == [Rows -> RingVec]

\* A vector's coefficients are integers, and what poly_reduce and caddq make of them.
LEMMA Coefficients ==
  ASSUME NEW S, NEW v \in [S -> RingPoly]
  PROVE  /\ DOMAIN v = S /\ \A i \in S : v[i] \in RingPoly /\ \A j \in Idx : v[i][j] \in Int
         /\ Standard(v) = [i \in S |-> [j \in Idx |-> v[i][j] % Q]]
         /\ Reduce(v) = [i \in S |-> [j \in Idx |-> Centered(v[i][j])]]
<1>1. DOMAIN v = S /\ \A i \in S : v[i] \in RingPoly
  OBVIOUS
<1>2. \A i \in S, j \in Idx : v[i][j] \in Int
  BY <1>1 DEF RingPoly, Poly
<1> QED BY <1>1, <1>2 DEF Standard, Reduce, Map

\* The standard representatives of a vector's coefficients.
LEMMA StandardType ==
  ASSUME NEW S, NEW v \in [S -> RingPoly]
  PROVE  /\ Standard(v) \in [S -> RingPoly]
         /\ \A i \in S, j \in Idx : Standard(v)[i][j] = v[i][j] % Q
                                    /\ Standard(v)[i][j] \in 0..(Q - 1)
<1>1. \A x \in Int : x % Q \in 0..(Q - 1) /\ x % Q \in Int
  BY RoundingParameters
<1>2. \A i \in S, j \in Idx : v[i][j] \in Int
  BY Coefficients
<1>3. Standard(v) = [i \in S |-> [j \in Idx |-> v[i][j] % Q]]
  BY Coefficients
<1> QED BY <1>1, <1>2, <1>3 DEF RingPoly, Poly

\* Reduce changes every coefficient by a multiple of Q.
LEMMA Reduced ==
  ASSUME NEW S, NEW v \in [S -> RingPoly]
  PROVE  /\ Reduce(v) \in [S -> RingPoly]
         /\ \A i \in S, j \in Idx : Reduce(v)[i][j] = Centered(v[i][j])
         /\ \E q \in [S -> RingPoly] :
              \A i \in S, j \in Idx : Reduce(v)[i][j] = v[i][j] + Q * q[i][j]
<1> DEFINE q == [i \in S |-> [j \in Idx |-> CHOOSE n \in Int : Centered(v[i][j]) = v[i][j] + Q * n]]
<1>1. \A i \in S, j \in Idx : v[i][j] \in Int
  BY Coefficients
<1>2. Reduce(v) = [i \in S |-> [j \in Idx |-> Centered(v[i][j])]]
  BY Coefficients
<1>3. ASSUME NEW i \in S, NEW j \in Idx
      PROVE  q[i][j] \in Int /\ Centered(v[i][j]) = v[i][j] + Q * q[i][j]
  <2> DEFINE x == v[i][j]
  <2>1. x \in Int
    BY <1>1
  <2>2. q[i][j] = CHOOSE n \in Int : Centered(x) = x + Q * n
    OBVIOUS
  <2> HIDE DEF x, q
  <2>3. \E n \in Int : Centered(x) = x + Q * n
    BY <2>1, CenteredDiffers
  <2>4. q[i][j] \in Int /\ Centered(x) = x + Q * q[i][j]
    BY <2>2, <2>3, Zenon
  <2> QED BY <2>4 DEF x
<1>4. q \in [S -> RingPoly]
  BY <1>3 DEF RingPoly, Poly
<1>5. \A i \in S, j \in Idx : Centered(v[i][j]) \in Int
  BY <1>1, CenteredDiffers
<1>6. Reduce(v) \in [S -> RingPoly] /\ \A i \in S, j \in Idx : Reduce(v)[i][j] = Centered(v[i][j])
  BY <1>2, <1>5 DEF RingPoly, Poly
<1> HIDE DEF q
<1>7. \A i \in S, j \in Idx : Reduce(v)[i][j] = v[i][j] + Q * q[i][j]
  BY <1>3, <1>6
<1> QED BY <1>4, <1>6, <1>7

\* A polynomial times a vector.
LEMMA ScaleType ==
  ASSUME NEW S, NEW c \in RingPoly, NEW v \in [S -> RingPoly]
  PROVE  /\ Scale(c, v) \in [S -> RingPoly]
         /\ \A i \in S : Scale(c, v)[i] = Mul(c, v[i])
BY MulSum DEF Scale

\* polyvec add and sub.
LEMMA SumsType ==
  ASSUME NEW S, NEW u \in [S -> RingPoly], NEW v \in [S -> RingPoly]
  PROVE  /\ Add(u, v) \in [S -> RingPoly] /\ Sub(u, v) \in [S -> RingPoly]
         /\ \A i \in S, j \in Idx : /\ Add(u, v)[i][j] = u[i][j] + v[i][j]
                                    /\ Sub(u, v)[i][j] = u[i][j] - v[i][j]
<1>1. \A i \in S, j \in Idx : u[i][j] \in Int /\ v[i][j] \in Int
  BY Coefficients
<1>2. \A i \in S, j \in Idx : u[i][j] + v[i][j] \in Int /\ u[i][j] - v[i][j] \in Int
  BY <1>1
<1>3. Add(u, v) = [i \in S |-> [j \in Idx |-> u[i][j] + v[i][j]]]
      /\ Sub(u, v) = [i \in S |-> [j \in Idx |-> u[i][j] - v[i][j]]]
  BY DEF Add, Sub
<1> QED BY <1>2, <1>3 DEF RingPoly, Poly

\* A matrix times a vector.
LEMMA MatMulType ==
  ASSUME NEW A \in Matrix, NEW v \in RingVec
  PROVE  /\ MatMul(A, v) \in RingCol
         /\ \A i \in Rows : A[i] \in RingVec /\ MatMul(A, v)[i] = Dot(A[i], v)
<1>1. MatMul(A, v) = [i \in Rows |-> Dot(A[i], v)] /\ \A i \in Rows : A[i] \in RingVec
  BY MatMulRows DEF Matrix
<1> QED BY <1>1, DotType DEF RingCol

\* polyveck_shiftl.
LEMMA ShiftType ==
  ASSUME NEW v \in RingCol
  PROVE  /\ ShiftL(v) \in RingCol
         /\ \A i \in Rows, j \in Idx : ShiftL(v)[i][j] = v[i][j] * 2^D
<1> DEFINE e == 2^D
<1>1. e \in Int
  BY PowerAssumption
<1>2. ShiftL(v) = [i \in Rows |-> [j \in Idx |-> v[i][j] * e]]
  BY DEF ShiftL, RingCol
<1> HIDE DEF e
<1>3. \A i \in Rows, j \in Idx : v[i][j] * e \in Int
  BY <1>1, Coefficients, RingLaws DEF RingCol
<1> QED BY <1>2, <1>3 DEF RingCol, RingPoly, Poly, e

-----------------------------------------------------------------------------
\* What crypto_sign_keypair makes of A, s1 and s2: t1 and t0 make up
\* A*s1 + s2 modulo Q.
SplitsInto(A, s1, s2, t1, t0) ==
  /\ A \in Matrix /\ s1 \in RingVec /\ s2 \in RingCol /\ t1 \in RingCol /\ t0 \in RingCol
  /\ \E u \in RingCol : \A i \in Rows, j \in Idx :
       Dot(A[i], s1)[j] + s2[i][j] = ShiftL(t1)[i][j] + t0[i][j] + Q * u[i][j]

\* crypto_sign_keypair splits t = A*s1 + s2 so.
LEMMA KeySplits ==
  ASSUME NEW A \in Matrix, NEW s1 \in RingVec, NEW s2 \in RingCol
  PROVE  LET t == Standard(Add(MatMul(A, s1), s2))
         IN SplitsInto(A, s1, s2, T1(t), T0(t))
<1> DEFINE b == Add(MatMul(A, s1), s2)
           t == Standard(b)
           u == [i \in Rows |-> [j \in Idx |-> b[i][j] \div Q]]
<1>1. b \in RingCol /\ \A i \in Rows, j \in Idx : b[i][j] = Dot(A[i], s1)[j] + s2[i][j]
  BY MatMulType, SumsType DEF RingCol
<1> HIDE DEF b
<1>2. t \in RingCol /\ \A i \in Rows, j \in Idx : t[i][j] = b[i][j] % Q
  BY <1>1, StandardType DEF RingCol
<1>3. \A i \in Rows, j \in Idx : b[i][j] \in Int /\ t[i][j] \in Int
  BY <1>1, <1>2, Coefficients DEF RingCol
<1> HIDE DEF t
<1>4. /\ T1(t) = [i \in Rows |-> [j \in Idx |-> Power2Round(t[i][j]).hi]]
      /\ T0(t) = [i \in Rows |-> [j \in Idx |-> Power2Round(t[i][j]).lo]]
  BY <1>2 DEF T1, T0, Map, RingCol
<1>5. \A i \in Rows, j \in Idx : Power2Round(t[i][j]).hi \in Int /\ Power2Round(t[i][j]).lo \in Int
  BY <1>3, Power2Parts
<1>6. T1(t) \in RingCol /\ T0(t) \in RingCol
  BY <1>4, <1>5 DEF RingCol, RingPoly, Poly
<1>7. ASSUME NEW i \in Rows, NEW j \in Idx
      PROVE  t[i][j] = ShiftL(T1(t))[i][j] + T0(t)[i][j]
  <2>1. t[i][j] = Power2Round(t[i][j]).hi * 2^D + Power2Round(t[i][j]).lo
    BY <1>3, Power2Parts
  <2>2. ShiftL(T1(t))[i][j] = T1(t)[i][j] * 2^D
    BY <1>6, ShiftType
  <2>3. T1(t)[i][j] = Power2Round(t[i][j]).hi /\ T0(t)[i][j] = Power2Round(t[i][j]).lo
    BY <1>4
  <2> QED BY <2>1, <2>2, <2>3
<1>8. ASSUME NEW i \in Rows, NEW j \in Idx
      PROVE  u[i][j] \in Int /\ b[i][j] = t[i][j] + Q * u[i][j]
  <2> DEFINE x == b[i][j]
  <2>1. x \in Int /\ t[i][j] = x % Q /\ u[i][j] = x \div Q
    BY <1>2, <1>3
  <2> HIDE DEF x, u
  <2>2. Q \in Nat /\ Q > 0
    BY RoundingParameters
  <2>3. x \div Q \in Int /\ x % Q \in 0..(Q - 1) /\ x = Q * (x \div Q) + (x % Q)
    BY <2>1, Division
  <2> DEFINE e == x \div Q
             o == x % Q
  <2> HIDE DEF e, o
  <2>4. e \in Int /\ o \in Int /\ x = Q * e + o /\ Q * e \in Int
    BY <2>2, <2>3, RingLaws DEF e, o
  <2>5. x = o + Q * e
    BY <2>1, <2>4
  <2> QED BY <2>1, <2>4, <2>5 DEF x, e, o
<1>9. u \in RingCol
  BY <1>8 DEF RingCol, RingPoly, Poly
<1> HIDE DEF u
<1>10. \A i \in Rows, j \in Idx :
         Dot(A[i], s1)[j] + s2[i][j] = ShiftL(T1(t))[i][j] + T0(t)[i][j] + Q * u[i][j]
  BY <1>1, <1>7, <1>8
<1> QED BY <1>6, <1>9, <1>10 DEF SplitsInto, t, b

\* A*z - c*t1*2^D, as crypto_sign_verify_ctx computes it, and A*y - c*s2 + c*t0.
LEMMA VerifierSum ==
  ASSUME NEW A, NEW s1, NEW s2, NEW t1, NEW t0, SplitsInto(A, s1, s2, t1, t0),
         NEW c \in RingPoly, NEW m \in RingVec, NEW i \in Rows, NEW j \in Idx
  PROVE  LET zz == Reduce(Add(Scale(c, s1), m))
             r  == Sub(MatMul(A, zz), Scale(c, ShiftL(t1)))
         IN /\ r \in RingCol
            /\ \E n \in Int : r[i][j] = MatMul(A, m)[i][j] - Scale(c, s2)[i][j]
                                          + Scale(c, t0)[i][j] + Q * n
<1> DEFINE b  == Add(Scale(c, s1), m)
           zz == Reduce(b)
           tt == ShiftL(t1)
           r  == Sub(MatMul(A, zz), Scale(c, tt))
<1>1. A \in Matrix /\ s1 \in RingVec /\ s2 \in RingCol /\ t1 \in RingCol /\ t0 \in RingCol
  BY DEF SplitsInto
<1>2. PICK u \in RingCol : \A k \in Rows, l \in Idx :
        Dot(A[k], s1)[l] + s2[k][l] = tt[k][l] + t0[k][l] + Q * u[k][l]
  BY DEF SplitsInto
<1>3. b \in RingVec /\ \A n \in Cols, l \in Idx : b[n][l] = Mul(c, s1[n])[l] + m[n][l]
  <2> DEFINE v == Scale(c, s1)
  <2>1. v \in [Cols -> RingPoly] /\ \A n \in Cols : v[n] = Mul(c, s1[n])
    BY <1>1, ScaleType DEF RingVec
  <2>2. m \in [Cols -> RingPoly]
    BY DEF RingVec
  <2> HIDE DEF v
  <2>3. /\ Add(v, m) \in [Cols -> RingPoly]
        /\ \A n \in Cols, l \in Idx : Add(v, m)[n][l] = v[n][l] + m[n][l]
    BY <2>1, <2>2, SumsType
  <2> QED BY <2>1, <2>3 DEF v, RingVec
<1>4. tt \in RingCol
  BY <1>1, ShiftType
<1> HIDE DEF b, tt
<1>5. zz \in RingVec
  BY <1>3, Reduced DEF RingVec
<1>6. PICK q \in RingVec : \A n \in Cols, l \in Idx : zz[n][l] = b[n][l] + Q * q[n][l]
  BY <1>3, Reduced DEF RingVec
<1> HIDE DEF zz
<1>7. r \in RingCol /\ r[i][j] = Dot(A[i], zz)[j] - Mul(c, tt[i])[j]
  <2> DEFINE v == MatMul(A, zz)
             w == Scale(c, tt)
  <2>1. v \in [Rows -> RingPoly] /\ v[i] = Dot(A[i], zz)
    BY <1>1, <1>5, MatMulType DEF RingCol
  <2>2. w \in [Rows -> RingPoly] /\ w[i] = Mul(c, tt[i])
    BY <1>4, ScaleType DEF RingCol
  <2> HIDE DEF v, w
  <2>3. Sub(v, w) \in [Rows -> RingPoly] /\ Sub(v, w)[i][j] = v[i][j] - w[i][j]
    BY <2>1, <2>2, SumsType
  <2> QED BY <2>1, <2>2, <2>3 DEF v, w, RingCol
<1>8. /\ A[i] \in RingVec /\ s2[i] \in RingPoly /\ u[i] \in RingPoly /\ tt[i] \in RingPoly
      /\ t0[i] \in RingPoly
  BY <1>1, <1>2, <1>4, MatMulType DEF RingCol, Matrix
<1>9. \A n \in Cols, l \in Idx : zz[n][l] = Mul(c, s1[n])[l] + m[n][l] + Q * q[n][l]
  BY <1>3, <1>6
<1>10. \A l \in Idx : Dot(A[i], s1)[l] + s2[i][l] = tt[i][l] + t0[i][l] + Q * u[i][l]
  BY <1>2
<1>11. \E n \in Int : Dot(A[i], zz)[j] - Mul(c, tt[i])[j]
          = Dot(A[i], m)[j] - Mul(c, s2[i])[j] + Mul(c, t0[i])[j] + Q * n
  <2> DEFINE a  == A[i]
             p2 == s2[i]
             pu == u[i]
             p1 == tt[i]
             p0 == t0[i]
  <2>1. /\ a \in RingVec /\ p2 \in RingPoly /\ pu \in RingPoly /\ p1 \in RingPoly
        /\ p0 \in RingPoly /\ s1 \in RingVec /\ zz \in RingVec /\ q \in RingVec
    BY <1>1, <1>5, <1>6, <1>8
  <2>2. SplitsRow(a, s1, p2, p1, p0, pu) /\ Responds(zz, c, s1, m, q)
    BY <1>9, <1>10 DEF SplitsRow, Responds
  <2> HIDE DEF a, p2, pu, p1, p0
  <2>3. RowsAgree(a, zz, m, c, p2, p1, p0, j)
    BY <2>1, <2>2, RowAgrees
  <2> QED BY <2>3 DEF RowsAgree, a, p2, p1, p0
<1>12. /\ MatMul(A, m)[i][j] = Dot(A[i], m)[j] /\ Scale(c, s2)[i][j] = Mul(c, s2[i])[j]
       /\ Scale(c, t0)[i][j] = Mul(c, t0[i])[j]
  <2>1. s2 \in [Rows -> RingPoly] /\ t0 \in [Rows -> RingPoly]
    BY <1>1 DEF RingCol
  <2>2. Scale(c, s2)[i] = Mul(c, s2[i]) /\ Scale(c, t0)[i] = Mul(c, t0[i])
    BY <2>1, ScaleType
  <2>3. MatMul(A, m)[i] = Dot(A[i], m)
    BY <1>1, MatMulType
  <2> QED BY <2>2, <2>3
<1> HIDE DEF r
<1>13. \E n \in Int : r[i][j] = MatMul(A, m)[i][j] - Scale(c, s2)[i][j]
                                 + Scale(c, t0)[i][j] + Q * n
  BY <1>7, <1>11, <1>12
<1> QED BY <1>7, <1>13 DEF r, zz, tt, b

-----------------------------------------------------------------------------
(***************************************************************************)
(* An attempt of crypto_sign_signature_ctx, and the verification of what   *)
(* it returns, for a mask m and a challenge c: w = A*y, and what the       *)
(* attempt checks of w0 - c*s2 and c*t0.                                   *)
(***************************************************************************)
WOfMask(A, m)         == Standard(MatMul(A, m))
LowOfMask(A, s2, m, c) == Reduce(Sub(Low(WOfMask(A, m)), Scale(c, s2)))
Dropped(t0, c)        == Reduce(Scale(c, t0))
Rebuilt(A, s1, t1, m, c) ==
  Sub(MatMul(A, Reduce(Add(Scale(c, s1), m))), Scale(c, ShiftL(t1)))

\* What polyvec chknorm says of a vector that passes it.
LEMMA NormPassed ==
  ASSUME NEW S, NEW v \in [S -> RingPoly], NEW b \in Int, ~ChkNorm(v, b)
  PROVE  \A i \in S, j \in Idx : v[i][j] \in Int /\ -b < v[i][j] /\ v[i][j] < b
<1> SUFFICES ASSUME NEW i \in S, NEW j \in Idx
             PROVE  v[i][j] \in Int /\ -b < v[i][j] /\ v[i][j] < b
  OBVIOUS
<1>1. v[i][j] \in Int /\ i \in DOMAIN v
  BY Coefficients
<1>2. ~(Abs(v[i][j]) >= b)
  BY <1>1 DEF ChkNorm
<1> QED BY <1>1, <1>2 DEF Abs

\* polyveck_decompose of w.
LEMMA HighAndLow ==
  ASSUME NEW A \in Matrix, NEW m \in RingVec
  PROVE  /\ High(WOfMask(A, m)) = [i \in Rows |-> [j \in Idx |-> Decompose(WOfMask(A, m)[i][j]).hi]]
         /\ Low(WOfMask(A, m)) \in RingCol
         /\ \A i \in Rows, j \in Idx :
              /\ MatMul(A, m)[i][j] \in Int
              /\ WOfMask(A, m)[i][j] = MatMul(A, m)[i][j] % Q
              /\ Low(WOfMask(A, m))[i][j] = Decompose(WOfMask(A, m)[i][j]).lo
<1> DEFINE w == WOfMask(A, m)
<1>1. MatMul(A, m) \in [Rows -> RingPoly]
  BY MatMulType DEF RingCol
<1>2. w \in [Rows -> RingPoly]
      /\ \A i \in Rows, j \in Idx : /\ w[i][j] = MatMul(A, m)[i][j] % Q
                                    /\ w[i][j] \in 0..(Q - 1)
  BY <1>1, StandardType DEF WOfMask
<1> HIDE DEF w
<1>3. /\ High(w) = [i \in Rows |-> [j \in Idx |-> Decompose(w[i][j]).hi]]
      /\ Low(w) = [i \in Rows |-> [j \in Idx |-> Decompose(w[i][j]).lo]]
  BY <1>2 DEF High, Low, Map
<1>4. \A i \in Rows, j \in Idx : Decompose(w[i][j]).lo \in Int
  BY <1>2, DecomposeParts
<1>5. Low(w) \in RingCol
  BY <1>3, <1>4 DEF RingCol, RingPoly, Poly
<1>6. \A i \in Rows, j \in Idx : MatMul(A, m)[i][j] \in Int
  BY <1>1, Coefficients
<1> QED BY <1>2, <1>3, <1>5, <1>6 DEF w

\* One coefficient of w - c*s2: ALPHA times the commitment's, and what the
\* attempt checks.
AttemptAt(A, s2, m, c, i, j) ==
  LET hi == High(WOfMask(A, m))[i][j]
      e  == LowOfMask(A, s2, m, c)[i][j]
  IN /\ MatMul(A, m)[i][j] \in Int /\ Scale(c, s2)[i][j] \in Int
     /\ hi \in 0..(HIGH - 1) /\ hi * ALPHA \in Int /\ e \in Int
     /\ \E n \in Int : MatMul(A, m)[i][j] - Scale(c, s2)[i][j] = hi * ALPHA + e + Q * n

\* Every coefficient of an attempt is so.
LEMMA Attempts ==
  ASSUME NEW A \in Matrix, NEW s2 \in RingCol, NEW m \in RingVec, NEW c \in RingPoly
  PROVE  /\ LowOfMask(A, s2, m, c) \in RingCol
         /\ \A i \in Rows, j \in Idx : AttemptAt(A, s2, m, c, i, j)
<1> DEFINE low == Low(WOfMask(A, m))
           cs  == Scale(c, s2)
           b   == Sub(low, cs)
<1>1. low \in [Rows -> RingPoly] /\ cs \in [Rows -> RingPoly]
  <2>1. low \in RingCol
    BY HighAndLow
  <2>2. s2 \in [Rows -> RingPoly]
    BY DEF RingCol
  <2>3. cs \in [Rows -> RingPoly]
    BY <2>2, ScaleType
  <2> HIDE DEF cs, low
  <2> QED BY <2>1, <2>3 DEF RingCol
<1> HIDE DEF low, cs
<1>2. b \in [Rows -> RingPoly] /\ \A i \in Rows, j \in Idx : b[i][j] = low[i][j] - cs[i][j]
  BY <1>1, SumsType
<1> HIDE DEF b
<1>3. Reduce(b) \in [Rows -> RingPoly]
      /\ \A i \in Rows, j \in Idx : Reduce(b)[i][j] = Centered(b[i][j])
  BY <1>2, Reduced
<1>4. LowOfMask(A, s2, m, c) = Reduce(b)
  BY DEF LowOfMask, b, low, cs
<1>5. ASSUME NEW i \in Rows, NEW j \in Idx PROVE AttemptAt(A, s2, m, c, i, j)
  <2> DEFINE x  == MatMul(A, m)[i][j]
             s  == cs[i][j]
             d  == Decompose(x % Q)
             e  == Centered(d.lo - s)
             hi == High(WOfMask(A, m))[i][j]
  <2>1. /\ x \in Int /\ low[i][j] = d.lo /\ hi = d.hi
    BY HighAndLow DEF low
  <2>2. s \in Int
    BY <1>1, Coefficients
  <2>3. LowOfMask(A, s2, m, c)[i][j] = e
    BY <1>2, <1>3, <1>4, <2>1
  <2>4. /\ d.hi \in 0..(HIGH - 1) /\ d.hi * ALPHA \in Int /\ e \in Int
        /\ \E n \in Int : x - s = d.hi * ALPHA + e + Q * n
    BY <2>1, <2>2, LowPart
  <2> HIDE DEF x, s, e, hi, d
  <2>5. /\ x \in Int /\ s \in Int /\ hi \in 0..(HIGH - 1) /\ hi * ALPHA \in Int /\ e \in Int
        /\ \E n \in Int : x - s = hi * ALPHA + e + Q * n
    BY <2>1, <2>2, <2>4
  <2> QED BY <2>3, <2>5 DEF AttemptAt, x, s, hi, cs
<1> QED BY <1>3, <1>4, <1>5 DEF RingCol

\* Two sums of the same hi*ALPHA, equal modulo Q.
LEMMA Collect ==
  ASSUME NEW r \in Int, NEW p \in Int, NEW e \in Int, NEW f \in Int, NEW g \in Int,
         NEW x \in Int, NEW n1 \in Int, NEW n2 \in Int, NEW n3 \in Int,
         r = x + g + Q * n1, x = p + e + Q * n2, f = g + Q * n3
  PROVE  r % Q = (p + (e + f)) % Q
<1>1. Q \in Int
  BY RoundingParameters
<1>2. /\ Q * n1 \in Int /\ Q * n2 \in Int /\ Q * n3 \in Int
      /\ Q * (-n3) = -(Q * n3) /\ Q * (n2 + (-n3)) = Q * n2 + Q * (-n3)
      /\ Q * (n1 + (n2 + (-n3))) = Q * n1 + Q * (n2 + (-n3))
      /\ n1 + (n2 + (-n3)) \in Int
  BY <1>1, RingLaws
<1>3. r = (p + (e + f)) + Q * (n1 + (n2 + (-n3)))
  BY <1>2
<1>4. p + (e + f) \in Int
  OBVIOUS
<1> QED BY <1>2, <1>3, <1>4, SameResidue

\* crypto_sign_verify_ctx rebuilds the commitment of an attempt that has
\* passed the checks of w0 - c*s2 and c*t0.
THEOREM VerifierRebuilds ==
  ASSUME NEW A, NEW s1, NEW s2, NEW t1, NEW t0, SplitsInto(A, s1, s2, t1, t0),
         NEW c \in RingPoly, NEW m \in RingVec,
         ~ChkNorm(LowOfMask(A, s2, m, c), GAMMA2 - BETA), ~ChkNorm(Dropped(t0, c), GAMMA2)
  PROVE  UseHints(Standard(Rebuilt(A, s1, t1, m, c)),
                  MakeHints(Add(LowOfMask(A, s2, m, c), Dropped(t0, c)), High(WOfMask(A, m))))
           = High(WOfMask(A, m))
<1> DEFINE r  == Rebuilt(A, s1, t1, m, c)
           lo == LowOfMask(A, s2, m, c)
           dr == Dropped(t0, c)
           hi == High(WOfMask(A, m))
           ct == Scale(c, t0)
<1>1. A \in Matrix /\ s2 \in RingCol /\ t0 \in [Rows -> RingPoly]
  BY DEF SplitsInto, RingCol
<1>2. GAMMA2 \in Int /\ BETA \in Nat /\ GAMMA2 > 0 /\ ALPHA = 2 * GAMMA2 /\ GAMMA2 - BETA \in Int
  <2>1. BETA \in Nat
    <3>1. TAU \in Int /\ ETA \in Int /\ TAU >= 0 /\ ETA >= 0
      BY LatticeAssumption
    <3>2. TAU * ETA \in Int /\ TAU * ETA >= 0
      BY <3>1, SMT
    <3> QED BY <3>2 DEF BETA
  <2> QED BY <2>1, RoundingParameters
<1>3. ct \in [Rows -> RingPoly] /\ dr = Reduce(ct)
  BY <1>1, ScaleType DEF Dropped
<1>4. dr \in [Rows -> RingPoly] /\ \E q \in [Rows -> RingPoly] :
        \A i \in Rows, j \in Idx : dr[i][j] = ct[i][j] + Q * q[i][j]
  BY <1>3, Reduced
<1>5. PICK q \in [Rows -> RingPoly] : \A i \in Rows, j \in Idx : dr[i][j] = ct[i][j] + Q * q[i][j]
  BY <1>4
<1>6. r \in [Rows -> RingPoly]
  <2>1. Rows # {} /\ Idx # {}
    <3>1. 0 \in Rows /\ 0 \in Idx
      BY LatticeAssumption, IdxFinite DEF Rows, Idx
    <3> QED BY <3>1
  <2> QED BY <2>1, VerifierSum DEF Rebuilt, RingCol
<1>7. ASSUME NEW i \in Rows, NEW j \in Idx
      PROVE  \E n \in Int : r[i][j] = MatMul(A, m)[i][j] - Scale(c, s2)[i][j] + ct[i][j] + Q * n
  BY VerifierSum DEF Rebuilt
<1>8. lo \in [Rows -> RingPoly] /\ \A i \in Rows, j \in Idx : AttemptAt(A, s2, m, c, i, j)
  BY <1>1, Attempts DEF RingCol
<1>9. /\ \A i \in Rows, j \in Idx : lo[i][j] \in Int /\ -(GAMMA2 - BETA) < lo[i][j]
                                    /\ lo[i][j] < GAMMA2 - BETA
      /\ \A i \in Rows, j \in Idx : dr[i][j] \in Int /\ -GAMMA2 < dr[i][j] /\ dr[i][j] < GAMMA2
  BY <1>2, <1>4, <1>8, NormPassed
<1>10. hi = [i \in Rows |-> [j \in Idx |-> Decompose(WOfMask(A, m)[i][j]).hi]]
  BY <1>1, HighAndLow
<1> HIDE DEF r, lo, dr, ct
<1>11. ASSUME NEW i \in Rows, NEW j \in Idx
       PROVE  UseHint(r[i][j] % Q, MakeHint(lo[i][j] + dr[i][j], hi[i][j])) = hi[i][j]
  <2> DEFINE h1 == hi[i][j]
             e  == lo[i][j]
             f  == dr[i][j]
             g  == ct[i][j]
             rr == r[i][j]
             x  == MatMul(A, m)[i][j] - Scale(c, s2)[i][j]
             p  == h1 * ALPHA
  <2>1. /\ h1 \in 0..(HIGH - 1) /\ p \in Int /\ e \in Int /\ x \in Int
        /\ \E n \in Int : x = p + e + Q * n
    BY <1>8 DEF AttemptAt, lo
  <2>2. \E n \in Int : rr = x + g + Q * n
    BY <1>7
  <2>3. rr \in Int /\ g \in Int /\ q[i][j] \in Int /\ f = g + Q * q[i][j]
    BY <1>3, <1>5, <1>6, Coefficients
  <2>4. f \in Int /\ -ALPHA < e + f /\ e + f < ALPHA /\ e + f \in Int
    BY <1>2, <1>9
  <2> HIDE DEF hi, h1, e, f, g, rr, x, p
  <2>5. PICK n2 \in Int : x = p + e + Q * n2
    BY <2>1
  <2>6. PICK n1 \in Int : rr = x + g + Q * n1
    BY <2>2
  <2>7. rr % Q = (p + (e + f)) % Q
    BY <2>1, <2>3, <2>4, <2>5, <2>6, Collect
  <2>8. UseHint((h1 * ALPHA + (e + f)) % Q, MakeHint(e + f, h1)) = h1
    BY <2>1, <2>4, HintsRecover
  <2>9. UseHint(rr % Q, MakeHint(e + f, h1)) = h1
    BY <2>7, <2>8 DEF p
  <2> QED BY <2>9 DEF rr, e, f, h1
<1> DEFINE st == Standard(r)
           su == Add(lo, dr)
           hh == MakeHints(su, hi)
<1>12. st = [i \in Rows |-> [j \in Idx |-> r[i][j] % Q]]
  BY <1>6, Coefficients
<1>13. su \in [Rows -> RingPoly] /\ \A i \in Rows, j \in Idx : su[i][j] = lo[i][j] + dr[i][j]
  BY <1>4, <1>8, SumsType
<1> HIDE DEF st, su
<1>14. hh = [i \in Rows |-> [j \in Idx |-> MakeHint(su[i][j], hi[i][j])]]
  BY <1>13 DEF MakeHints, Map2
<1> HIDE DEF hh, hi
<1>15. UseHints(st, hh) = [i \in Rows |-> [j \in Idx |-> UseHint(st[i][j], hh[i][j])]]
  BY <1>12 DEF UseHints, Map2
<1>16. \A i \in Rows, j \in Idx : UseHint(st[i][j], hh[i][j]) = hi[i][j]
  BY <1>11, <1>12, <1>13, <1>14
<1>17. UseHints(st, hh) = hi
  BY <1>10, <1>15, <1>16
<1> QED BY <1>17 DEF st, hh, su, r, lo, dr, hi

\* Another short s2 would have given the same commitment.
LEMMA CommitmentKept ==
  ASSUME NEW A \in Matrix, NEW s2 \in RingCol, NEW m \in RingVec, NEW c \in Challenge,
         NEW s \in [Rows -> Poly(-ETA..ETA)],
         ~ChkNorm(LowOfMask(A, s2, m, c), GAMMA2 - BETA)
  PROVE  High(Standard(Add(Sub(MatMul(A, m), Scale(c, s2)), Scale(c, s)))) = High(WOfMask(A, m))
<1> DEFINE w  == MatMul(A, m)
           cs == Scale(c, s2)
           co == Scale(c, s)
           r  == Add(Sub(w, cs), co)
           hi == High(WOfMask(A, m))
           lo == LowOfMask(A, s2, m, c)
<1>1. c \in RingPoly /\ s \in [Rows -> RingPoly] /\ s2 \in [Rows -> RingPoly]
  <2>1. ETA \in Nat
    BY LatticeAssumption
  <2>2. -ETA..ETA \subseteq Int /\ {-1, 0, 1} \subseteq Int
    BY <2>1
  <2> QED BY <2>2 DEF Challenge, RingPoly, RingCol, Poly
<1>2. w \in [Rows -> RingPoly]
  BY MatMulType DEF RingCol
<1>3. cs \in [Rows -> RingPoly] /\ co \in [Rows -> RingPoly]
      /\ \A i \in Rows : co[i] = Mul(c, s[i])
  BY <1>1, ScaleType
<1>4. \A i \in Rows, j \in Idx : co[i][j] \in Int /\ -BETA <= co[i][j] /\ co[i][j] <= BETA
  BY <1>3, MulBounded
<1>5. lo \in [Rows -> RingPoly] /\ \A i \in Rows, j \in Idx : AttemptAt(A, s2, m, c, i, j)
  BY <1>1, Attempts DEF RingCol
<1>6. GAMMA2 \in Int /\ BETA \in Int
  <2>1. TAU \in Int /\ ETA \in Int
    BY LatticeAssumption
  <2>2. TAU * ETA \in Int
    BY <2>1, RingLaws
  <2> QED BY <2>2, RoundingParameters DEF BETA
<1>7. \A i \in Rows, j \in Idx : lo[i][j] \in Int /\ -(GAMMA2 - BETA) < lo[i][j]
                                 /\ lo[i][j] < GAMMA2 - BETA
  <2>1. GAMMA2 - BETA \in Int
    BY <1>6
  <2> QED BY <1>5, <2>1, NormPassed
<1>8. hi = [i \in Rows |-> [j \in Idx |-> Decompose(WOfMask(A, m)[i][j]).hi]]
  BY HighAndLow
<1>9. r \in [Rows -> RingPoly]
      /\ \A i \in Rows, j \in Idx : r[i][j] = w[i][j] - cs[i][j] + co[i][j]
  <2> DEFINE b == Sub(w, cs)
  <2> HIDE DEF w, cs, co
  <2>1. b \in [Rows -> RingPoly] /\ \A i \in Rows, j \in Idx : b[i][j] = w[i][j] - cs[i][j]
    BY <1>2, <1>3, SumsType
  <2> HIDE DEF b
  <2>2. Add(b, co) \in [Rows -> RingPoly]
        /\ \A i \in Rows, j \in Idx : Add(b, co)[i][j] = b[i][j] + co[i][j]
    BY <1>3, <2>1, SumsType
  <2> QED BY <2>1, <2>2 DEF b
<1>10. ASSUME NEW i \in Rows, NEW j \in Idx PROVE Decompose(r[i][j] % Q).hi = hi[i][j]
  <2> DEFINE h1 == hi[i][j]
             e  == lo[i][j]
             f  == co[i][j]
             x  == w[i][j] - cs[i][j]
             p  == h1 * ALPHA
  <2>1. /\ h1 \in 0..(HIGH - 1) /\ p \in Int /\ e \in Int /\ x \in Int
        /\ \E n \in Int : x = p + e + Q * n
    BY <1>5 DEF AttemptAt
  <2>2. f \in Int /\ -GAMMA2 < e + f /\ e + f < GAMMA2 /\ e + f \in Int
    <3> HIDE DEF lo, co
    <3> QED BY <1>4, <1>6, <1>7
  <2>3. r[i][j] = x + f
    <3> HIDE DEF r, w, cs, co
    <3> QED BY <1>9
  <2> HIDE DEF hi, h1, e, f, x, p, r, lo, co, w, cs
  <2>4. PICK n \in Int : x = p + e + Q * n
    BY <2>1
  <2>5. Q * n \in Int
    BY RoundingParameters, RingLaws
  <2>6. p + (e + f) \in Int /\ x + f \in Int /\ x + f = (p + (e + f)) + Q * n
    BY <2>1, <2>2, <2>4, <2>5
  <2>7. (x + f) % Q = (p + (e + f)) % Q
    BY <2>6, SameResidue
  <2>8. Decompose((h1 * ALPHA + (e + f)) % Q).hi = h1
    BY <2>1, <2>2, HighKept
  <2> QED BY <2>3, <2>7, <2>8 DEF p, h1
<1> HIDE DEF r, hi
<1> DEFINE st == Standard(r)
<1>11. st = [i \in Rows |-> [j \in Idx |-> r[i][j] % Q]]
  BY <1>9, Coefficients
<1> HIDE DEF st
<1>12. High(st) = [i \in Rows |-> [j \in Idx |-> Decompose(st[i][j]).hi]]
  BY <1>11 DEF High, Map
<1>13. High(st) = hi
  BY <1>8, <1>10, <1>11, <1>12
<1> QED BY <1>13 DEF st, r, hi

\* Another short s1 leaves a mask in the sampler's range for the same z.
LEMMA MaskLeft ==
  ASSUME NEW zz \in RingVec, ~ChkNorm(zz, GAMMA1 - BETA),
         NEW c \in Challenge, NEW s \in Short, NEW i \in Cols, NEW j \in Idx
  PROVE  zz[i][j] - Scale(c, s)[i][j] \in (-GAMMA1 + 1)..GAMMA1
<1>1. GAMMA1 \in Int /\ BETA \in Int /\ GAMMA1 - BETA \in Int
  <2>1. TAU \in Int /\ ETA \in Int /\ GAMMA1 \in Int
    BY LatticeAssumption
  <2>2. TAU * ETA \in Int
    BY <2>1, RingLaws
  <2> QED BY <2>1, <2>2 DEF BETA
<1>2. zz[i][j] \in Int /\ -(GAMMA1 - BETA) < zz[i][j] /\ zz[i][j] < GAMMA1 - BETA
  BY <1>1, NormPassed DEF RingVec
<1>3. s[i] \in Poly(-ETA..ETA) /\ Scale(c, s)[i] = Mul(c, s[i])
  BY DEF Short, VecL, Cols, Scale
<1>4. Mul(c, s[i])[j] \in Int /\ -BETA <= Mul(c, s[i])[j] /\ Mul(c, s[i])[j] <= BETA
  BY <1>3, MulBounded
<1> DEFINE x == zz[i][j]
           v == Mul(c, s[i])[j]
<1> HIDE DEF x, v
<1>5. x - v \in (-GAMMA1 + 1)..GAMMA1
  BY <1>1, <1>2, <1>4 DEF x, v
<1> QED BY <1>3, <1>5 DEF x, v

-----------------------------------------------------------------------------
(***************************************************************************)
(* The rejection loop.                                                     *)
(***************************************************************************)
LEMMA Parameters ==
  /\ L \in Nat \ {0} /\ NONCES \in Nat \ {0} /\ PERIOD \in Nat
  /\ NONCES = L * PERIOD /\ PERIOD <= NONCES
<1>1. L \in Nat \ {0} /\ NONCES \in Nat \ {0} /\ NONCES = L * PERIOD
  BY LatticeAssumption, SignLoopAssumption
<1>2. PERIOD \in Nat
  BY <1>1, SMT DEF PERIOD
<1> DEFINE p == PERIOD
<1> HIDE DEF p
<1>3. p \in Nat /\ NONCES = L * p
  BY <1>1, <1>2 DEF p
<1>4. p <= L * p
  BY <1>1, <1>3, SMT
<1> QED BY <1>1, <1>2, <1>3, <1>4 DEF p

\* The XOF nonces of attempt n, while the nonce has not wrapped: the next L
\* values after those of the attempts before it.
LEMMA NextNonces ==
  ASSUME NEW n \in Nat, n < PERIOD
  PROVE  /\ L * n \in Nat /\ L * n + L <= NONCES /\ L * (n + 1) = L * n + L
         /\ XofNonces(n) = (L * n)..(L * n + L - 1)
<1>1. L * n \in Nat /\ L * (n + 1) = L * n + L
  BY Parameters, SMT
<1>2. L * (n + 1) <= L * PERIOD
  <2> DEFINE p == PERIOD
  <2> HIDE DEF p
  <2>1. p \in Nat /\ n + 1 <= p /\ L \in Nat
    BY Parameters DEF p
  <2>2. L * (n + 1) <= L * p
    BY <2>1, SMT
  <2> QED BY <2>2 DEF p
<1>3. L * n + L <= NONCES
  BY <1>1, <1>2, Parameters
<1>4. \A i \in 0..(L-1) : XofNonce(n, i) = L * n + i
  <2> DEFINE ln == L * n
  <2> HIDE DEF ln
  <2>1. ln \in Nat /\ ln + L <= NONCES /\ NONCES \in Nat \ {0} /\ L \in Nat
    BY <1>1, <1>3, Parameters DEF ln
  <2>2. \A i \in 0..(L-1) : (ln + i) % NONCES = ln + i
    BY <2>1, SMT
  <2> QED BY <2>2 DEF ln, XofNonce
<1>5. XofNonces(n) = (L * n)..(L * n + L - 1)
  <2> DEFINE ln == L * n
  <2>1. XofNonces(n) = {ln + i : i \in 0..(L-1)}
    BY <1>4 DEF XofNonces
  <2> HIDE DEF ln
  <2>2. ln \in Nat /\ L \in Nat
    BY <1>1, Parameters DEF ln
  <2>3. {ln + i : i \in 0..(L-1)} = ln..(ln + L - 1)
    <3>1. ASSUME NEW x \in ln..(ln + L - 1)
          PROVE  x \in {ln + i : i \in 0..(L-1)}
      <4>1. x - ln \in 0..(L-1) /\ x = ln + (x - ln)
        BY <2>2
      <4> QED BY <4>1
    <3>2. \A i \in 0..(L-1) : ln + i \in ln..(ln + L - 1)
      BY <2>2
    <3> QED BY <3>1, <3>2
  <2> QED BY <2>1, <2>3 DEF ln
<1> QED BY <1>1, <1>3, <1>5

\* A 16-bit nonce is a 16-bit nonce.
LEMMA NonceRange ==
  ASSUME NEW n \in 0..(NONCES - 1)
  PROVE  XofNonces(n) \subseteq 0..(NONCES - 1) /\ NextNonce(n) \in 0..(NONCES - 1)
<1>1. \A x \in Nat : x % NONCES \in 0..(NONCES - 1)
  BY Parameters, SMT
<1>2. n + 1 \in Nat /\ \A i \in 0..(L-1) : L * n + i \in Nat
  <2>1. n \in Nat /\ L \in Nat /\ L * n \in Nat
    BY Parameters, SMT
  <2> DEFINE ln == L * n
  <2> HIDE DEF ln
  <2>2. n + 1 \in Nat /\ \A i \in 0..(L-1) : ln + i \in Nat
    BY <2>1 DEF ln
  <2> QED BY <2>2 DEF ln
<1> QED BY <1>1, <1>2 DEF XofNonces, XofNonce, NextNonce

-----------------------------------------------------------------------------
\* Until it wraps, the nonce counts the attempts, and the masks expanded are
\* those of the attempts so far; by then every nonce has been used.
NoncesInv == \/ DOMAIN mask = 0..(NONCES - 1)
             \/ nonce < PERIOD /\ DOMAIN mask = 0..(L * nonce - 1)

IInv == TypeOK /\ NoncesInv

LEMMA InitIInv == Init => IInv
<1> SUFFICES ASSUME Init PROVE IInv
  OBVIOUS
<1>1. mask = << >> /\ DOMAIN mask = {} /\ nonce = 0 /\ DOMAIN chal = {}
  BY DEF Init
<1>2. TypeOK
  BY <1>1, Parameters DEF Init, TypeOK, Pending
<1>3. PERIOD > 0
  <2> DEFINE p == PERIOD
  <2> HIDE DEF p
  <2>1. p \in Nat /\ L * p \in Nat \ {0} /\ L \in Nat
    BY Parameters DEF p
  <2>2. p # 0
    BY <2>1, SMT
  <2> QED BY <2>1, <2>2 DEF p
<1>4. 0..(L * nonce - 1) = {}
  BY <1>1, Parameters
<1> QED BY <1>1, <1>2, <1>3, <1>4 DEF IInv, NoncesInv

\* The attempts' nonces are in order: fresh ones, or all have been used.
LEMMA FreshOrAll ==
  ASSUME IInv
  PROVE  XofNonces(nonce) \cap DOMAIN mask = {} \/ DOMAIN mask = 0..(NONCES - 1)
<1> SUFFICES ASSUME nonce < PERIOD, DOMAIN mask = 0..(L * nonce - 1)
             PROVE  XofNonces(nonce) \cap DOMAIN mask = {}
  BY DEF IInv, NoncesInv
<1>1. nonce \in Nat
  BY Parameters DEF IInv, TypeOK
<1>2. XofNonces(nonce) = (L * nonce)..(L * nonce + L - 1) /\ L * nonce \in Nat
  BY <1>1, NextNonces
<1> DEFINE ln == L * nonce
<1> HIDE DEF ln
<1>3. ln \in Nat /\ L \in Nat
  BY <1>2, Parameters DEF ln
<1>4. (ln..(ln + L - 1)) \cap (0..(ln - 1)) = {}
  BY <1>3
<1> QED BY <1>2, <1>4 DEF ln

LEMMA SampleMaskStep == IInv /\ SampleMask => IInv'
<1> SUFFICES ASSUME IInv, SampleMask PROVE IInv'
  OBVIOUS
<1>1. nonce \in 0..(NONCES - 1) /\ nonce' = NextNonce(nonce)
  BY DEF IInv, TypeOK, SampleMask
<1>2. PICK p \in [0..(L-1) -> MASKS] :
        mask' = [n \in DOMAIN mask \cup XofNonces(nonce) |->
                   IF n \in DOMAIN mask THEN mask[n]
                   ELSE p[CHOOSE i \in 0..(L-1) : XofNonce(nonce, i) = n]]
  BY Zenon DEF SampleMask
<1>3. DOMAIN mask' = DOMAIN mask \cup XofNonces(nonce)
  BY <1>2
<1>4. \A n \in DOMAIN mask' : mask'[n] \in MASKS
  <2> SUFFICES ASSUME NEW n \in DOMAIN mask' PROVE mask'[n] \in MASKS
    OBVIOUS
  <2>1. CASE n \in DOMAIN mask
    BY <1>2, <1>3, <2>1 DEF IInv, TypeOK
  <2>2. CASE n \notin DOMAIN mask
    <3> DEFINE c == CHOOSE i \in 0..(L-1) : XofNonce(nonce, i) = n
    <3>1. \E i \in 0..(L-1) : XofNonce(nonce, i) = n
      BY <1>3, <2>2 DEF XofNonces
    <3>2. c \in 0..(L-1)
      BY <3>1, Zenon
    <3>3. mask'[n] = p[c]
      BY <1>2, <1>3, <2>2
    <3> HIDE DEF c
    <3> QED BY <3>2, <3>3
  <2> QED BY <2>1, <2>2
<1>5. TypeOK'
  <2>1. DOMAIN mask' \subseteq 0..(NONCES - 1) /\ nonce' \in 0..(NONCES - 1)
    BY <1>1, <1>3, NonceRange DEF IInv, TypeOK
  <2> QED BY <1>4, <2>1 DEF IInv, TypeOK, SampleMask
<1>6. NoncesInv'
  <2>1. CASE DOMAIN mask = 0..(NONCES - 1)
    BY <1>1, <1>3, <2>1, NonceRange DEF NoncesInv
  <2>2. CASE nonce < PERIOD /\ DOMAIN mask = 0..(L * nonce - 1)
    <3>1. nonce \in Nat
      BY <1>1, Parameters
    <3>2. /\ L * nonce \in Nat /\ L * (nonce + 1) = L * nonce + L
          /\ XofNonces(nonce) = (L * nonce)..(L * nonce + L - 1)
      BY <2>2, <3>1, NextNonces
    <3>3. DOMAIN mask' = 0..(L * (nonce + 1) - 1)
      <4> DEFINE ln == L * nonce
      <4> HIDE DEF ln
      <4>1. ln \in Nat /\ L \in Nat
        BY <3>2, Parameters DEF ln
      <4>2. (0..(ln - 1)) \cup (ln..(ln + L - 1)) = 0..(ln + L - 1)
        BY <4>1
      <4>3. /\ L * (nonce + 1) = ln + L /\ DOMAIN mask = 0..(ln - 1)
            /\ XofNonces(nonce) = ln..(ln + L - 1)
        BY <2>2, <3>2, Zenon DEF ln
      <4>4. DOMAIN mask' = (0..(ln - 1)) \cup (ln..(ln + L - 1))
        BY <1>3, <4>3, Zenon
      <4>5. DOMAIN mask' = 0..(ln + L - 1)
        BY <4>2, <4>4, Zenon
      <4> DEFINE lm == L * (nonce + 1)
      <4>6. lm = ln + L
        BY <4>3, Zenon
      <4> HIDE DEF lm
      <4>7. lm - 1 = ln + L - 1
        BY <4>1, <4>6
      <4> QED BY <4>5, <4>7, Zenon DEF lm
    <3>4. CASE nonce + 1 = PERIOD
      BY <3>3, <3>4, Parameters DEF NoncesInv
    <3>5. CASE nonce + 1 < PERIOD
      <4>1. nonce + 1 < NONCES
        BY <3>1, <3>5, Parameters
      <4>2. nonce' = nonce + 1
        BY <1>1, <3>1, <4>1, Parameters, SMT DEF NextNonce
      <4> QED BY <3>3, <3>5, <4>2 DEF NoncesInv
    <3> QED BY <2>2, <3>1, <3>4, <3>5, Parameters
  <2> QED BY <2>1, <2>2 DEF IInv, NoncesInv
<1> QED BY <1>5, <1>6 DEF IInv

\* Commit draws a challenge for ctilde, or finds the one it drew before.
LEMMA CommitStep == IInv /\ Commit => IInv'
<1> SUFFICES ASSUME IInv, Commit PROVE IInv'
  OBVIOUS
<1> DEFINE ctilde == High(Standard(MatMul(key.A, y)))
<1>1. PICK c \in (IF ctilde \in DOMAIN chal THEN {chal[ctilde]} ELSE Challenge) :
        chal' = [x \in DOMAIN chal \cup {ctilde} |->
                   IF x = ctilde THEN c ELSE chal[x]]
  BY Zenon DEF Commit
<1> HIDE DEF ctilde
<1>2. \A x \in DOMAIN chal : chal[x] \in Challenge
  BY DEF IInv, TypeOK
<1>3. c \in Challenge
  BY <1>1, <1>2
<1>4. \A x \in DOMAIN chal' : chal'[x] \in Challenge
  BY <1>1, <1>2, <1>3
<1>5. TypeOK'
  BY <1>4 DEF IInv, TypeOK, Commit
<1>6. NoncesInv'
  BY DEF IInv, NoncesInv, Commit
<1> QED BY <1>5, <1>6 DEF IInv

LEMMA NextIInv == IInv /\ [Next]_vars => IInv'
<1> SUFFICES ASSUME IInv, [Next]_vars PROVE IInv'
  OBVIOUS
<1>1. CASE Keypair
  BY <1>1 DEF IInv, TypeOK, NoncesInv, Keypair
<1>2. CASE SampleMask
  BY <1>2, SampleMaskStep
<1>3. CASE Commit
  BY <1>3, CommitStep
<1>4. CASE CheckZ
  BY <1>4 DEF IInv, TypeOK, NoncesInv, CheckZ, Reject
<1>5. CASE CheckLow
  BY <1>5 DEF IInv, TypeOK, NoncesInv, CheckLow, Reject
<1>6. CASE CheckT0
  BY <1>6 DEF IInv, TypeOK, NoncesInv, CheckT0, Reject
<1>7. CASE CheckHints
  BY <1>7 DEF IInv, TypeOK, NoncesInv, CheckHints, Reject
<1>8. CASE WriteSig
  BY <1>8 DEF IInv, TypeOK, NoncesInv, WriteSig
<1>9. CASE Verify
  BY <1>9 DEF IInv, TypeOK, NoncesInv, Verify
<1>10. CASE UNCHANGED vars
  BY <1>10 DEF IInv, TypeOK, NoncesInv, vars
<1> QED BY <1>1, <1>2, <1>3, <1>4, <1>5, <1>6, <1>7, <1>8, <1>9, <1>10
        DEF Next, Step, Returned

LEMMA Invariance == Spec => []IInv
BY InitIInv, NextIInv, PTL DEF Spec

-----------------------------------------------------------------------------
\* The nonce stays within 16 bits, and what is expanded and drawn is a mask
\* and a challenge, through every way the attempts may end.
THEOREM TypeCorrect == Spec => []TypeOK
<1>1. IInv => TypeOK
  BY DEF IInv
<1> QED BY <1>1, Invariance, PTL

\* The rejection loop expands no mask nonce twice until all 2^16 have been.
THEOREM NoncesAreFresh == Spec => MaskNoncesFresh
<1>1. IInv => (SampleMask => \/ XofNonces(nonce) \cap DOMAIN mask = {}
                             \/ DOMAIN mask = 0..(NONCES - 1))
  BY FreshOrAll
<1>2. IInv /\ [Next]_vars =>
        [SampleMask => \/ XofNonces(nonce) \cap DOMAIN mask = {}
                       \/ DOMAIN mask = 0..(NONCES - 1)]_vars
  BY <1>1
<1> QED BY <1>2, Invariance, PTL DEF Spec, MaskNoncesFresh

-----------------------------------------------------------------------------
(***************************************************************************)
(* What an attempt computes from the key, its mask m and the challenge c   *)
(* of its ctilde, and the four reasons to refuse it.                       *)
(***************************************************************************)
WOf(m)      == Standard(MatMul(key.A, m))
CtildeOf(m) == High(WOf(m))
ZOf(m, c)   == Reduce(Add(Scale(c, key.s1), m))
LowOf(m, c) == Reduce(Sub(Low(WOf(m)), Scale(c, key.s2)))
T0Of(c)     == Reduce(Scale(c, key.t0))
SumOf(m, c) == Add(LowOf(m, c), T0Of(c))
HintsOf(m, c) == MakeHints(SumOf(m, c), CtildeOf(m))

Refused(m, c) == \/ ChkNorm(ZOf(m, c), ZBound)
                 \/ ChkNorm(LowOf(m, c), LowBound)
                 \/ ChkNorm(T0Of(c), GAMMA2)
                 \/ Ones(HintsOf(m, c)) > OMEGA

Attempted(m) == CtildeOf(m) \in DOMAIN chal

\* The places of an attempt after Commit, by what has been computed and
\* passed when the attempt is there.
Tried == {"checkZ", "checkLow", "checkT0", "makeHint", "write"}

AttemptInv ==
  /\ pc \in Tried => /\ Attempted(y) /\ cp = chal[CtildeOf(y)]
                     /\ w1 = CtildeOf(y) /\ z = ZOf(y, cp)
                     /\ sig.head = CtildeOf(y)
  /\ pc \in {"checkZ", "checkLow"} => w0 = Low(WOf(y))
  /\ pc \in {"checkLow", "checkT0", "makeHint", "write"} => ~ChkNorm(z, ZBound)
  /\ pc \in {"checkT0", "makeHint"} => w0 = LowOf(y, cp)
  /\ pc \in {"checkT0", "makeHint", "write"} => ~ChkNorm(LowOf(y, cp), LowBound)
  /\ pc = "makeHint" => h = T0Of(cp)
  /\ pc \in {"makeHint", "write"} => ~ChkNorm(T0Of(cp), GAMMA2)
  /\ pc = "write" => h = HintsOf(y, cp) /\ ~(Ones(h) > OMEGA)

\* Every mask in "rejected" has a challenge, and was refused for it.
RejectedInv == \A m \in rejected : Attempted(m) /\ Refused(m, chal[CtildeOf(m)])

VerdictInv == AttemptInv /\ RejectedInv /\ (pc = "keypair" => rejected = {})

\* They depend on the key, and on which challenges have been drawn, alone.
LEMMA SameKey ==
  ASSUME UNCHANGED key
  PROVE  \A m, c : /\ WOf(m)' = WOf(m) /\ CtildeOf(m)' = CtildeOf(m)
                   /\ ZOf(m, c)' = ZOf(m, c) /\ LowOf(m, c)' = LowOf(m, c)
                   /\ T0Of(c)' = T0Of(c) /\ HintsOf(m, c)' = HintsOf(m, c)
                   /\ Refused(m, c)' = Refused(m, c)
BY DEF WOf, CtildeOf, ZOf, LowOf, T0Of, SumOf, HintsOf, Refused

\* Refusing a mask for one of the four reasons.
LEMMA RejectKeeps ==
  ASSUME VerdictInv, pc \in Tried, Reject, UNCHANGED <<key, chal, y, cp>>,
         Refused(y, cp)
  PROVE  VerdictInv'
<1>1. Attempted(y) /\ cp = chal[CtildeOf(y)] /\ pc' = "rej" /\ rejected' = rejected \cup {y}
  BY DEF VerdictInv, AttemptInv, Reject
<1>2. RejectedInv'
  <2> SUFFICES ASSUME NEW m \in rejected'
               PROVE  (Attempted(m) /\ Refused(m, chal[CtildeOf(m)]))'
    BY DEF RejectedInv
  <2>1. Attempted(m) /\ Refused(m, chal[CtildeOf(m)])
    BY <1>1 DEF VerdictInv, RejectedInv
  <2>2. Attempted(m)' /\ CtildeOf(m)' = CtildeOf(m)
    BY <2>1, SameKey DEF Attempted
  <2> QED BY <2>1, <2>2, SameKey
<1> QED BY <1>1, <1>2 DEF VerdictInv, AttemptInv, Tried

\* Going on to the next check leaves the refused masks refused.
LEMMA PassKeeps ==
  ASSUME VerdictInv, UNCHANGED <<key, chal, rejected>>
  PROVE  RejectedInv'
<1> SUFFICES ASSUME NEW m \in rejected
             PROVE  (Attempted(m) /\ Refused(m, chal[CtildeOf(m)]))'
  BY DEF RejectedInv
<1>1. Attempted(m) /\ Refused(m, chal[CtildeOf(m)])
  BY DEF VerdictInv, RejectedInv
<1>2. Attempted(m)' /\ CtildeOf(m)' = CtildeOf(m)
  BY <1>1, SameKey DEF Attempted
<1> QED BY <1>1, <1>2, SameKey

\* Commit draws a challenge for a new ctilde only.
LEMMA CommitKeeps == VerdictInv /\ Commit => VerdictInv'
<1> SUFFICES ASSUME VerdictInv, Commit PROVE VerdictInv'
  OBVIOUS
<1>1. /\ UNCHANGED <<key, y, rejected>> /\ pc' = "checkZ" /\ pc = "commit"
      /\ w1' = CtildeOf(y) /\ w0' = Low(WOf(y)) /\ sig'.head = CtildeOf(y)
  BY DEF Commit, CtildeOf, WOf, NewLow
<1>2. PICK c \in (IF CtildeOf(y) \in DOMAIN chal THEN {chal[CtildeOf(y)]} ELSE Challenge) :
        /\ cp' = c
        /\ chal' = [x \in DOMAIN chal \cup {CtildeOf(y)} |->
                      IF x = CtildeOf(y) THEN c ELSE chal[x]]
        /\ z' = ZOf(y, c)
  BY Zenon DEF Commit, CtildeOf, WOf, ZOf
<1>3. \A x \in DOMAIN chal : x \in DOMAIN chal' /\ chal'[x] = chal[x]
  BY <1>2
<1>4. CtildeOf(y) \in DOMAIN chal' /\ chal'[CtildeOf(y)] = cp'
  BY <1>2
<1>5. RejectedInv'
  <2> SUFFICES ASSUME NEW m \in rejected
               PROVE  (Attempted(m) /\ Refused(m, chal[CtildeOf(m)]))'
    BY <1>1 DEF RejectedInv
  <2>1. Attempted(m) /\ Refused(m, chal[CtildeOf(m)])
    BY DEF VerdictInv, RejectedInv
  <2>2. CtildeOf(m)' = CtildeOf(m)
    BY <1>1, SameKey
  <2>3. CtildeOf(m) \in DOMAIN chal' /\ chal'[CtildeOf(m)] = chal[CtildeOf(m)]
    BY <1>3, <2>1 DEF Attempted
  <2> QED BY <1>1, <2>1, <2>2, <2>3, SameKey DEF Attempted
<1>6. AttemptInv'
  <2>1. CtildeOf(y)' = CtildeOf(y) /\ WOf(y)' = WOf(y)
    BY <1>1 DEF CtildeOf, WOf
  <2>2. ZOf(y, cp)' = ZOf(y, cp')
    BY <1>1 DEF ZOf
  <2>3. Attempted(y)'
    BY <1>4, <2>1 DEF Attempted
  <2> QED BY <1>1, <1>2, <1>4, <2>1, <2>2, <2>3 DEF AttemptInv
<1> QED BY <1>1, <1>5, <1>6 DEF VerdictInv

LEMMA CheckZKeeps == VerdictInv /\ CheckZ => VerdictInv'
<1> SUFFICES ASSUME VerdictInv, CheckZ PROVE VerdictInv'
  OBVIOUS
<1>1. pc = "checkZ" /\ UNCHANGED <<key, chal, y, z, w1, w0, h, cp, sig>> /\ z = ZOf(y, cp)
  BY DEF CheckZ, VerdictInv, AttemptInv, Tried
<1>2. CASE ChkNorm(z, ZBound)
  BY <1>1, <1>2, RejectKeeps DEF CheckZ, Refused, Tried
<1>3. CASE ~ChkNorm(z, ZBound)
  <2>1. pc' = "checkLow" /\ rejected' = rejected
    BY <1>3 DEF CheckZ
  <2>2. AttemptInv'
    BY <1>1, <1>3, <2>1
       DEF VerdictInv, AttemptInv, Tried, Attempted, CtildeOf, WOf, ZOf
  <2> QED BY <1>1, <2>1, <2>2, PassKeeps DEF VerdictInv
<1> QED BY <1>2, <1>3

LEMMA CheckLowKeeps == VerdictInv /\ CheckLow => VerdictInv'
<1> SUFFICES ASSUME VerdictInv, CheckLow PROVE VerdictInv'
  OBVIOUS
<1>1. /\ pc = "checkLow" /\ UNCHANGED <<key, chal, y, z, w1, cp, sig>>
      /\ w0' = LowOf(y, cp)
  BY DEF CheckLow, VerdictInv, AttemptInv, LowOf
<1>2. CASE ChkNorm(w0', LowBound)
  BY <1>1, <1>2, RejectKeeps DEF CheckLow, Refused, Tried
<1>3. CASE ~ChkNorm(w0', LowBound)
  <2>1. pc' = "checkT0" /\ rejected' = rejected
    BY <1>3 DEF CheckLow
  <2>2. LowOf(y, cp)' = LowOf(y, cp)
    BY <1>1 DEF LowOf, WOf
  <2>3. AttemptInv'
    BY <1>1, <1>3, <2>1, <2>2
       DEF VerdictInv, AttemptInv, Tried, Attempted, CtildeOf, WOf, ZOf
  <2> QED BY <1>1, <2>1, <2>3, PassKeeps DEF VerdictInv
<1> QED BY <1>2, <1>3

LEMMA CheckT0Keeps == VerdictInv /\ CheckT0 => VerdictInv'
<1> SUFFICES ASSUME VerdictInv, CheckT0 PROVE VerdictInv'
  OBVIOUS
<1>1. /\ pc = "checkT0" /\ UNCHANGED <<key, chal, y, z, w1, w0, cp, sig>>
      /\ h' = T0Of(cp)
  BY DEF CheckT0, T0Of
<1>2. CASE ChkNorm(h', GAMMA2)
  BY <1>1, <1>2, RejectKeeps DEF CheckT0, Refused, Tried
<1>3. CASE ~ChkNorm(h', GAMMA2)
  <2>1. pc' = "makeHint" /\ rejected' = rejected
    BY <1>3 DEF CheckT0
  <2>2. LowOf(y, cp)' = LowOf(y, cp) /\ T0Of(cp)' = T0Of(cp)
    BY <1>1 DEF LowOf, WOf, T0Of
  <2>3. AttemptInv'
    BY <1>1, <1>3, <2>1, <2>2
       DEF VerdictInv, AttemptInv, Tried, Attempted, CtildeOf, WOf, ZOf
  <2> QED BY <1>1, <2>1, <2>3, PassKeeps DEF VerdictInv
<1> QED BY <1>2, <1>3

LEMMA CheckHintsKeeps == VerdictInv /\ CheckHints => VerdictInv'
<1> SUFFICES ASSUME VerdictInv, CheckHints PROVE VerdictInv'
  OBVIOUS
<1>1. /\ pc = "makeHint" /\ UNCHANGED <<key, chal, y, z, w1, cp, sig>>
      /\ h' = HintsOf(y, cp)
  BY DEF CheckHints, VerdictInv, AttemptInv, Tried, HintsOf, SumOf
<1>2. CASE Ones(h') > OMEGA
  BY <1>1, <1>2, RejectKeeps DEF CheckHints, Refused, Tried
<1>3. CASE ~(Ones(h') > OMEGA)
  <2>1. pc' = "write" /\ rejected' = rejected
    BY <1>3 DEF CheckHints
  <2>2. /\ LowOf(y, cp)' = LowOf(y, cp) /\ T0Of(cp)' = T0Of(cp)
        /\ HintsOf(y, cp)' = HintsOf(y, cp)
    BY <1>1 DEF LowOf, WOf, T0Of, HintsOf, SumOf, CtildeOf
  <2>3. AttemptInv'
    BY <1>1, <1>3, <2>1, <2>2
       DEF VerdictInv, AttemptInv, Tried, Attempted, CtildeOf, WOf, ZOf
  <2> QED BY <1>1, <2>1, <2>3, PassKeeps DEF VerdictInv
<1> QED BY <1>2, <1>3

LEMMA NextVerdict == VerdictInv /\ [Next]_vars => VerdictInv'
<1> SUFFICES ASSUME VerdictInv, [Next]_vars PROVE VerdictInv'
  OBVIOUS
<1>1. CASE Keypair
  BY <1>1 DEF VerdictInv, AttemptInv, RejectedInv, Tried, Keypair
<1>2. CASE SampleMask
  <2>1. pc' = "commit" /\ pc = "rej" /\ UNCHANGED <<key, chal, rejected>>
    BY <1>2 DEF SampleMask
  <2> QED BY <2>1, PassKeeps DEF VerdictInv, AttemptInv, Tried
<1>3. CASE WriteSig \/ Verify
  <2>1. pc' \in {"verify", "done"} /\ UNCHANGED <<key, chal, rejected>>
    BY <1>3 DEF WriteSig, Verify
  <2> QED BY <2>1, PassKeeps DEF VerdictInv, AttemptInv, Tried
<1>4. CASE UNCHANGED vars
  <2>1. AttemptInv'
    BY <1>4 DEF vars, VerdictInv, AttemptInv, Tried, Attempted, CtildeOf, WOf, ZOf,
                LowOf, T0Of, HintsOf, SumOf
  <2> QED BY <1>4, <2>1, PassKeeps DEF vars, VerdictInv
<1> QED BY <1>1, <1>2, <1>3, <1>4, CommitKeeps, CheckZKeeps, CheckLowKeeps,
           CheckT0Keeps, CheckHintsKeeps DEF Next, Step, Returned

\* In every execution, a mask that was refused is refused whenever the nonce
\* comes back to it: the verdict depends on the key and the mask alone.
THEOREM VerdictsRepeat == Spec => []NoSecondChance
<1>1. Init => VerdictInv
  BY DEF Init, VerdictInv, AttemptInv, RejectedInv, Tried
<1>2. VerdictInv => NoSecondChance
  <2> SUFFICES ASSUME VerdictInv, pc = "write", y \in rejected PROVE FALSE
    BY DEF NoSecondChance
  <2>1. Refused(y, cp)
    BY DEF VerdictInv, AttemptInv, RejectedInv, Tried
  <2>2. ~Refused(y, cp)
    BY DEF VerdictInv, AttemptInv, Tried, Refused
  <2> QED BY <2>1, <2>2
<1> QED BY <1>1, <1>2, NextVerdict, PTL DEF Spec

-----------------------------------------------------------------------------
(***************************************************************************)
(* The key is split as KeySplits says, the mask of an attempt is one the   *)
(* sampler yields, and the signature that is returned is the attempt that  *)
(* passed every check.                                                     *)
(***************************************************************************)
KeyInv == pc # "keypair" =>
  /\ SplitsInto(key.A, key.s1, key.s2, key.t1, key.t0)
  /\ key.s1 \in Short /\ key.s2 \in [Rows -> Poly(-ETA..ETA)]

MaskInv == pc \notin {"keypair", "rej"} => y \in RingVec

SigOf(c) ==
  /\ sig.head = CtildeOf(y) /\ Attempted(y)
  /\ sig.tail.z = ZOf(y, c) /\ sig.tail.h = HintsOf(y, c)
  /\ ~ChkNorm(ZOf(y, c), ZBound) /\ ~ChkNorm(LowOf(y, c), LowBound)
  /\ ~ChkNorm(T0Of(c), GAMMA2)

SigInv == /\ pc \in {"verify", "done"} => SigOf(chal[CtildeOf(y)])
          /\ pc = "done" => ret = 0

SoundInv == IInv /\ VerdictInv /\ KeyInv /\ MaskInv /\ SigInv

\* What the samplers yield are vectors of the ring.
LEMMA Samples ==
  /\ MATRICES \subseteq Matrix
  /\ SECRETS1 \subseteq Short /\ Short \subseteq RingVec
  /\ SECRETS2 \subseteq [Rows -> Poly(-ETA..ETA)] /\ [Rows -> Poly(-ETA..ETA)] \subseteq RingCol
  /\ [0..(L-1) -> MASKS] \subseteq RingVec /\ Challenge \subseteq RingPoly
<1>1. ETA \in Nat /\ GAMMA1 \in Nat /\ Q \in Nat
  BY LatticeAssumption, RoundingAssumption
<1>2. /\ -ETA..ETA \subseteq Int /\ (-GAMMA1 + 1)..GAMMA1 \subseteq Int
      /\ 0..(Q - 1) \subseteq Int /\ {-1, 0, 1} \subseteq Int
  BY <1>1
<1>3. /\ Poly(-ETA..ETA) \subseteq RingPoly /\ Poly((-GAMMA1 + 1)..GAMMA1) \subseteq RingPoly
      /\ Poly(0..(Q - 1)) \subseteq RingPoly /\ Challenge \subseteq RingPoly
  BY <1>2 DEF RingPoly, Poly, Challenge
<1>4. /\ Short \subseteq RingVec /\ VecL(0..(Q - 1)) \subseteq RingVec
      /\ [Rows -> Poly(-ETA..ETA)] \subseteq RingCol
  BY <1>3 DEF Short, VecL, RingVec, RingCol, Cols
<1>5. MASKS \subseteq RingPoly
  BY <1>3, SignLoopAssumption DEF MaskPoly
<1>6. [0..(L-1) -> MASKS] \subseteq RingVec
  BY <1>5 DEF RingVec, Cols
<1>7. MATRICES \subseteq [Rows -> VecL(0..(Q - 1))]
      /\ SECRETS1 \subseteq Short /\ SECRETS2 \subseteq [Rows -> Poly(-ETA..ETA)]
  BY SignLoopAssumption DEF Rows
<1>8. MATRICES \subseteq Matrix
  BY <1>4, <1>7 DEF Matrix
<1> QED BY <1>3, <1>4, <1>6, <1>7, <1>8

\* Nothing changes the key, and the mask of an attempt stays to its end.
LEMMA KeyKept == KeyInv /\ MaskInv /\ [Next]_vars => KeyInv' /\ MaskInv'
<1> SUFFICES ASSUME KeyInv, MaskInv, [Next]_vars PROVE KeyInv' /\ MaskInv'
  OBVIOUS
<1>1. CASE Keypair
  <2>1. PICK A \in MATRICES, s1 \in SECRETS1, s2 \in SECRETS2 :
          LET t == Standard(Add(MatMul(A, s1), s2))
          IN key' = [A |-> A, s1 |-> s1, s2 |-> s2, t1 |-> T1(t), t0 |-> T0(t)]
    BY <1>1 DEF Keypair
  <2> DEFINE t == Standard(Add(MatMul(A, s1), s2))
  <2>2. A \in Matrix /\ s1 \in RingVec /\ s2 \in RingCol
        /\ s1 \in Short /\ s2 \in [Rows -> Poly(-ETA..ETA)]
    BY Samples
  <2>3. SplitsInto(A, s1, s2, T1(t), T0(t))
    BY <2>2, KeySplits
  <2>4. /\ key'.A = A /\ key'.s1 = s1 /\ key'.s2 = s2
        /\ key'.t1 = T1(t) /\ key'.t0 = T0(t)
    BY <2>1
  <2> HIDE DEF t
  <2>5. KeyInv'
    BY <2>2, <2>3, <2>4 DEF KeyInv
  <2> QED BY <1>1, <2>5 DEF MaskInv, Keypair
<1>2. CASE SampleMask
  <2>1. y' \in [0..(L-1) -> MASKS]
    BY <1>2 DEF SampleMask
  <2>2. UNCHANGED key /\ pc = "rej" /\ pc' = "commit"
    BY <1>2 DEF SampleMask
  <2> QED BY <2>1, <2>2, Samples DEF KeyInv, MaskInv
<1>3. CASE \/ Commit \/ CheckZ \/ CheckLow \/ CheckT0 \/ CheckHints \/ WriteSig \/ Verify
           \/ UNCHANGED vars
  <2>1. UNCHANGED <<key, y>> /\ (pc = "keypair" <=> pc' = "keypair")
        /\ (pc \in {"keypair", "rej"} => pc' \in {"keypair", "rej"})
    BY <1>3 DEF Commit, CheckZ, CheckLow, CheckT0, CheckHints, WriteSig, Verify, Reject, vars
  <2> QED BY <2>1 DEF KeyInv, MaskInv
<1> QED BY <1>1, <1>2, <1>3 DEF Next, Step, Returned

\* crypto_sign_verify_ctx accepts what crypto_sign_signature_ctx returned.
LEMMA Accepts ==
  ASSUME SoundInv, pc = "verify"
  PROVE  /\ ~ChkNorm(sig.tail.z, GAMMA1 - BETA)
         /\ RebuiltHigh(key, chal[sig.head], sig.tail.z, sig.tail.h) = sig.head
<1> DEFINE c == chal[CtildeOf(y)]
<1>1. SigOf(c) /\ SplitsInto(key.A, key.s1, key.s2, key.t1, key.t0) /\ y \in RingVec
  BY DEF SoundInv, SigInv, KeyInv, MaskInv
<1>2. c \in RingPoly
  <2>1. CtildeOf(y) \in DOMAIN chal
    BY <1>1 DEF SigOf, Attempted
  <2>2. c \in Challenge
    BY <2>1 DEF SoundInv, IInv, TypeOK
  <2> QED BY <2>2, Samples
<1> HIDE DEF c
<1>3. /\ LowOf(y, c) = LowOfMask(key.A, key.s2, y, c) /\ T0Of(c) = Dropped(key.t0, c)
      /\ CtildeOf(y) = High(WOfMask(key.A, y))
  BY DEF LowOf, LowOfMask, T0Of, Dropped, CtildeOf, WOf, WOfMask
<1>4. /\ ~ChkNorm(LowOfMask(key.A, key.s2, y, c), GAMMA2 - BETA)
      /\ ~ChkNorm(Dropped(key.t0, c), GAMMA2)
  BY <1>1, <1>3 DEF SigOf, LowBound
<1>5. UseHints(Standard(Rebuilt(key.A, key.s1, key.t1, y, c)),
               MakeHints(Add(LowOfMask(key.A, key.s2, y, c), Dropped(key.t0, c)),
                         High(WOfMask(key.A, y))))
        = High(WOfMask(key.A, y))
  BY <1>1, <1>2, <1>4, VerifierRebuilds
<1>6. RebuiltHigh(key, c, ZOf(y, c), HintsOf(y, c))
        = UseHints(Standard(Rebuilt(key.A, key.s1, key.t1, y, c)), HintsOf(y, c))
  BY DEF RebuiltHigh, Rebuilt, ZOf
<1>7. HintsOf(y, c) = MakeHints(Add(LowOfMask(key.A, key.s2, y, c), Dropped(key.t0, c)),
                               High(WOfMask(key.A, y)))
  BY <1>3 DEF HintsOf, SumOf
<1>8. RebuiltHigh(key, c, ZOf(y, c), HintsOf(y, c)) = CtildeOf(y)
  BY <1>3, <1>5, <1>6, <1>7
<1>9. sig.head = CtildeOf(y) /\ sig.tail.z = ZOf(y, c) /\ sig.tail.h = HintsOf(y, c)
      /\ ~ChkNorm(ZOf(y, c), GAMMA1 - BETA)
  BY <1>1 DEF SigOf, ZBound
<1> QED BY <1>8, <1>9 DEF c

\* pack_sig writes the attempt that passed, and verifying it ends with 0.
LEMMA SigKept == SoundInv /\ [Next]_vars => SigInv'
<1> SUFFICES ASSUME SoundInv, [Next]_vars PROVE SigInv'
  OBVIOUS
<1>1. CASE WriteSig
  <2>1. /\ pc = "write" /\ pc' = "verify" /\ UNCHANGED <<key, chal, y, z, h>>
        /\ sig'.head = sig.head /\ sig'.tail.z = z /\ sig'.tail.h = h
    BY <1>1 DEF WriteSig
  <2>2. /\ Attempted(y) /\ cp = chal[CtildeOf(y)] /\ z = ZOf(y, cp) /\ sig.head = CtildeOf(y)
        /\ ~ChkNorm(z, ZBound) /\ ~ChkNorm(LowOf(y, cp), LowBound)
        /\ ~ChkNorm(T0Of(cp), GAMMA2) /\ h = HintsOf(y, cp)
    BY <2>1 DEF SoundInv, VerdictInv, AttemptInv, Tried
  <2> DEFINE c == chal[CtildeOf(y)]
  <2>3. /\ Attempted(y) /\ z = ZOf(y, c) /\ sig.head = CtildeOf(y) /\ h = HintsOf(y, c)
        /\ ~ChkNorm(ZOf(y, c), ZBound) /\ ~ChkNorm(LowOf(y, c), LowBound)
        /\ ~ChkNorm(T0Of(c), GAMMA2)
    BY <2>2
  <2>4. c' = c
    BY <2>1 DEF CtildeOf, WOf
  <2>5. /\ CtildeOf(y)' = CtildeOf(y) /\ Attempted(y)' = Attempted(y)
        /\ ZOf(y, c)' = ZOf(y, c) /\ LowOf(y, c)' = LowOf(y, c)
        /\ T0Of(c)' = T0Of(c) /\ HintsOf(y, c)' = HintsOf(y, c)
    BY <2>1, <2>4 DEF CtildeOf, WOf, Attempted, ZOf, LowOf, T0Of, HintsOf, SumOf
  <2> HIDE DEF c
  <2>6. SigOf(c)'
    BY <2>1, <2>3, <2>5 DEF SigOf
  <2> QED BY <2>1, <2>6 DEF SigInv, c
<1>2. CASE Verify
  <2>1. /\ pc = "verify" /\ UNCHANGED <<key, chal, y, sig>>
        /\ ret' = 0
    BY <1>2, Accepts DEF Verify
  <2>2. SigOf(chal[CtildeOf(y)])
    BY <2>1 DEF SoundInv, SigInv
  <2>3. SigOf(chal[CtildeOf(y)])'
    BY <2>1, <2>2
       DEF SigOf, CtildeOf, WOf, Attempted, ZOf, LowOf, T0Of, HintsOf, SumOf
  <2> QED BY <2>1, <2>3 DEF SigInv
<1>3. CASE Keypair \/ SampleMask \/ Commit \/ CheckZ \/ CheckLow \/ CheckT0 \/ CheckHints
  <2>1. pc' \notin {"verify", "done"}
    BY <1>3 DEF Keypair, SampleMask, Commit, CheckZ, CheckLow, CheckT0, CheckHints, Reject
  <2> QED BY <2>1 DEF SigInv
<1>4. CASE UNCHANGED vars
  <2>1. SigInv
    BY DEF SoundInv
  <2> QED BY <1>4, <2>1
          DEF vars, SigInv, SigOf, CtildeOf, WOf, Attempted, ZOf, LowOf, T0Of, HintsOf, SumOf
<1> QED BY <1>1, <1>2, <1>3, <1>4 DEF Next, Step, Returned

\* The inductive invariant holds throughout.
LEMMA Soundness == Spec => []SoundInv
<1>1. Init => SoundInv
  BY InitIInv DEF Init, SoundInv, VerdictInv, AttemptInv, RejectedInv, Tried,
                  KeyInv, MaskInv, SigInv
<1>2. SoundInv /\ [Next]_vars => SoundInv'
  BY NextIInv, NextVerdict, KeyKept, SigKept DEF SoundInv
<1> QED BY <1>1, <1>2, PTL DEF Spec

\* For every key, message and mask, and every challenge the hash may give:
\* verification accepts the signature that signing returns.
THEOREM SignedIsAccepted == Spec => []SignedVerifies
<1>1. SoundInv => SignedVerifies
  BY DEF SoundInv, SigInv, SignedVerifies
<1> QED BY <1>1, Soundness, PTL

\* A z that passes its check could have come from any short s1.
THEOREM ResponseHidesSecret == Spec => []MaskHidesS1
<1>1. SoundInv => MaskHidesS1
  <2> SUFFICES ASSUME SoundInv, pc = "checkLow", NEW s \in SECRETS1,
                      NEW i \in DOMAIN z, NEW j \in Idx
               PROVE  z[i][j] - Scale(cp, s)[i][j] \in (-GAMMA1 + 1)..GAMMA1
    BY DEF MaskHidesS1
  <2>1. /\ Attempted(y) /\ cp = chal[CtildeOf(y)] /\ z = ZOf(y, cp)
        /\ ~ChkNorm(z, GAMMA1 - BETA) /\ y \in RingVec /\ key.s1 \in RingVec
    BY Samples DEF SoundInv, VerdictInv, AttemptInv, Tried, MaskInv, KeyInv, ZBound
  <2>2. cp \in Challenge /\ cp \in RingPoly /\ s \in Short
    BY <2>1, Samples DEF SoundInv, IInv, TypeOK, Attempted
  <2> DEFINE b == Add(Scale(cp, key.s1), y)
  <2>3. b \in [Cols -> RingPoly]
    <3>1. key.s1 \in [Cols -> RingPoly] /\ y \in [Cols -> RingPoly]
      BY <2>1 DEF RingVec
    <3>2. Scale(cp, key.s1) \in [Cols -> RingPoly]
      BY <2>2, <3>1, ScaleType
    <3> QED BY <3>1, <3>2, SumsType
  <2>4. z = Reduce(b)
    BY <2>1 DEF ZOf
  <2> HIDE DEF b
  <2>5. z \in [Cols -> RingPoly]
    BY <2>3, <2>4, Reduced
  <2>6. z \in RingVec /\ i \in Cols
    BY <2>5 DEF RingVec
  <2> QED BY <2>1, <2>2, <2>6, MaskLeft
<1> QED BY <1>1, Soundness, PTL

\* The commitment of a w0 that passes its check could have come from any
\* short s2.
THEOREM CommitmentHidesSecret == Spec => []LowBitsHideS2
<1>1. SoundInv => LowBitsHideS2
  <2> SUFFICES ASSUME SoundInv, pc = "checkT0", NEW s \in SECRETS2
               PROVE  High(Standard(Add(Sub(MatMul(key.A, y), Scale(cp, key.s2)),
                                        Scale(cp, s)))) = w1
    BY DEF LowBitsHideS2
  <2>1. /\ Attempted(y) /\ cp = chal[CtildeOf(y)] /\ w1 = CtildeOf(y)
        /\ ~ChkNorm(LowOf(y, cp), GAMMA2 - BETA) /\ y \in RingVec
        /\ key.A \in Matrix /\ key.s2 \in RingCol
    BY DEF SoundInv, VerdictInv, AttemptInv, Tried, MaskInv, KeyInv, SplitsInto, LowBound
  <2>2. cp \in Challenge /\ s \in [Rows -> Poly(-ETA..ETA)]
    BY <2>1, Samples DEF SoundInv, IInv, TypeOK, Attempted
  <2>3. LowOf(y, cp) = LowOfMask(key.A, key.s2, y, cp) /\ CtildeOf(y) = High(WOfMask(key.A, y))
    BY DEF LowOf, LowOfMask, CtildeOf, WOf, WOfMask
  <2>4. ~ChkNorm(LowOfMask(key.A, key.s2, y, cp), GAMMA2 - BETA)
    BY <2>1, <2>3
  <2> QED BY <2>1, <2>2, <2>3, <2>4, CommitmentKept
<1> QED BY <1>1, Soundness, PTL
=============================================================================
