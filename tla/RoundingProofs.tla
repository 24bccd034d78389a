--------------------------- MODULE RoundingProofs ---------------------------
(***************************************************************************)
(* What MCRounding checks around the places where the functions of module  *)
(* Rounding change course: for every input, and as MCRounding's invariants *)
(* for every number of inputs around those places.  What is under the      *)
(* quantifiers is an expression of divisions by constants, which the SMT   *)
(* solver decides.                                                         *)
(***************************************************************************)
EXTENDS MCRounding, TLAPS

\* reduce32 and freeze return representatives of their argument, within
\* three quarters of Q and in 0..Q-1, on reduce32's whole domain.
THEOREM ReduceCorrect ==
  ASSUME NEW a \in Int, InReduceDomain(a)
  PROVE  ReducesAt(a)
BY SMTT(60) DEF ReducesAt, reduce32, freeze, caddq, Quotient, Q,
                InReduceDomain, INT32_MIN

\* chknorm on what reduce32 returns decides as it would on the centered
\* representative, for every bound it accepts: the bound's limit (Q-1)/8 in
\* poly_chknorm is what makes the sloppier representative good enough.
THEOREM NormVerdictCorrect ==
  ASSUME NEW a \in Int, InReduceDomain(a),
         NEW B \in Nat, B <= (Q - 1) \div 8
  PROVE  NormVerdictAt(a, B)
BY SMTT(60) DEF NormVerdictAt, chknorm, reduce32, Magnitude, HB!Abs,
                HB!Centered, Quotient, Q, InReduceDomain, INT32_MIN

\* The multiplication by 11275 and the two shifts of decompose compute the
\* division by ALPHA of module HighBits for every standard representative.
THEOREM DecomposeCorrect ==
  ASSUME NEW a \in Int, IsStandard(a)
  PROVE  DecomposesAt(a)
BY SMTT(60) DEF DecomposesAt, decompose, HB!Decompose, HB!ALPHA, HB!HIGH,
                ApproxHigh, GAMMA2, Q, IsStandard

\* The functions of rounding.c are those of module HighBits, with which
\* SignLoop and SignLoopProofs reason.  The provers do not know the operator
\* for powers, so the values of two of them are hypotheses.
THEOREM RoundsAsSpecified ==
  ASSUME NEW a \in Int, IsStandard(a), NEW a0 \in Int, NEW hint,
         2^D = 8192, 2^(D - 1) = 4096
  PROVE  /\ power2round(a) = HB!Power2Round(a)
         /\ decompose(a) = HB!Decompose(a)
         /\ make_hint(a0, a) = HB!MakeHint(a0, a)
         /\ use_hint(a, hint) = HB!UseHint(a, hint)
<1>1. power2round(a) = HB!Power2Round(a)
  BY DEF power2round, HB!Power2Round
<1>2. decompose(a) = HB!Decompose(a)
  BY DecomposeCorrect DEF DecomposesAt
<1>3. make_hint(a0, a) = HB!MakeHint(a0, a)
  BY DEF make_hint, HB!MakeHint
<1>4. HB!HIGH - 1 = 43
  BY DEF HB!HIGH, HB!ALPHA, GAMMA2, Q
<1>5. use_hint(a, hint) = HB!UseHint(a, hint)
  BY <1>2, <1>4 DEF use_hint, HB!UseHint
<1> QED BY <1>1, <1>2, <1>3, <1>5

\* power2round and decompose yield parts that fit the bits they are packed
\* into, and that make up the coefficient again.
THEOREM PartsFit ==
  ASSUME NEW a \in Int, IsStandard(a)
  PROVE  PartsFitAt(a)
BY SMTT(60) DEF PartsFitAt, decompose, power2round, ApproxHigh, GAMMA2, Q,
                IsStandard

\* use_hint undoes, on the high part, the addition of any v of less than
\* ALPHA that make_hint was told about.
THEOREM HintCorrect ==
  ASSUME NEW hi \in 0..43,
         NEW v \in Int, -2 * GAMMA2 < v, v < 2 * GAMMA2
  PROVE  HintRepairsAt(hi, v)
BY SMTT(60) DEF HintRepairsAt, decompose, use_hint, make_hint, ApproxHigh,
                GAMMA2, Q

\* One coefficient of a signature that passes the checks of sign.c on w0 and
\* on c*t0: the verifier rebuilds the signer's high part from its hint.
THEOREM VerifierAgrees ==
  ASSUME NEW w \in Int, IsStandard(w), NEW e \in Int, NEW t \in Int
  PROVE  VerifierAgreesAt(w, e, t)
BY SMTT(120) DEF VerifierAgreesAt, PassesChecks, chknorm, Magnitude, decompose,
                use_hint, make_hint, ApproxHigh, GAMMA2, BETA, Q, IsStandard

\* The check on w0 - c*s2 in sign.c: once it is passed, another short s2
\* would have given the same commitment.
THEOREM HighPartHides ==
  ASSUME NEW w \in Int, IsStandard(w), NEW e \in Int, NEW e2 \in Int,
         -BETA <= e2, e2 <= BETA
  PROVE  HighPartHidesAt(w, e, e2)
BY SMTT(120) DEF HighPartHidesAt, chknorm, Magnitude, decompose, ApproxHigh,
                GAMMA2, BETA, Q, IsStandard

-----------------------------------------------------------------------------
\* The counter of MCRounding's behaviours is an integer, and so are the
\* coefficients it picks.
LEMMA Walk == Spec => [](k \in Int)
<1>1. Init => k \in Int
  BY DEF Init
<1>2. k \in Int /\ [Next]_k => (k \in Int)'
  BY DEF Next
<1> QED BY <1>1, <1>2, PTL DEF Spec

LEMMA Picked ==
  ASSUME k \in Int
  PROVE  /\ \A a \in Wide : a \in Int /\ InReduceDomain(a)
         /\ \A a \in Standard : a \in Int /\ IsStandard(a) /\ InReduceDomain(a)
         /\ \A B \in Bounds : B \in Nat \ {0} /\ B <= (Q - 1) \div 8
<1>1. \A a \in Wide : a \in Int /\ InReduceDomain(a)
  BY WidthAssumption DEF Wide
<1>2. \A a \in Standard : a \in Int /\ IsStandard(a)
  BY WidthAssumption DEF Standard, GAMMA2, Q
<1>3. \A a \in Int : IsStandard(a) => InReduceDomain(a)
  BY DEF IsStandard, InReduceDomain, INT32_MIN, Q
<1>4. \A B \in Bounds : B \in Nat \ {0} /\ B <= (Q - 1) \div 8
  BY DEF Bounds, GAMMA1, GAMMA2, BETA, Q
<1> QED BY <1>1, <1>2, <1>3, <1>4

\* Wherever MCRounding looks, and for windows of any width: reduce32 and
\* freeze return representatives, and the norm check's verdict is right.
THEOREM NormVerdicts == Spec => []NormVerdictIsCentered
<1>1. k \in Int => NormVerdictIsCentered
  <2> SUFFICES ASSUME k \in Int PROVE NormVerdictIsCentered
    OBVIOUS
  <2>1. \A a \in Wide \cup Standard : ReducesAt(a)
    BY Picked, ReduceCorrect
  <2>2. ASSUME NEW a \in Wide, NEW x \in {0, 1}, NEW B \in Bounds
        PROVE  NormVerdictAt(a, B) /\ NormVerdictAt(B - x, B) /\ NormVerdictAt(x - B, B)
    <3>1. /\ a \in Int /\ InReduceDomain(a)
          /\ B \in Nat /\ B <= (Q - 1) \div 8
      BY Picked
    <3>2. /\ B - x \in Int /\ InReduceDomain(B - x)
          /\ x - B \in Int /\ InReduceDomain(x - B)
      BY <3>1 DEF InReduceDomain, INT32_MIN, Q
    <3> QED BY <3>1, <3>2, NormVerdictCorrect
  <2> QED BY <2>1, <2>2 DEF NormVerdictIsCentered
<1> QED BY <1>1, Walk, PTL

\* decompose divides, wherever MCRounding looks.
THEOREM Decompositions == Spec => []DecomposeIsDivision
<1>1. k \in Int => DecomposeIsDivision
  BY Picked, DecomposeCorrect DEF DecomposeIsDivision
<1> QED BY <1>1, Walk, PTL

\* The parts fit the bits they are packed into, wherever MCRounding looks.
THEOREM PartWidths == Spec => []PartsFitTheirBits
<1>1. k \in Int => PartsFitTheirBits
  <2> SUFFICES ASSUME k \in Int PROVE PartsFitTheirBits
    OBVIOUS
  <2>1. \A b \in {k * 8192 + 4096 + x : x \in -2..2} : b \in Int
    OBVIOUS
  <2> QED BY <2>1, Picked, PartsFit DEF PartsFitTheirBits
<1> QED BY <1>1, Walk, PTL

\* A hint repairs every high part, for the sums MCRounding picks.
THEOREM HintsRepair == Spec => []HintRepairs
<1>1. k \in Int => HintRepairs
  <2> SUFFICES ASSUME k \in Int PROVE HintRepairs
    OBVIOUS
  <2>1. k % 44 \in 0..43
    OBVIOUS
  <2>2. \A v \in LowSums : v \in Int /\ -2 * GAMMA2 < v /\ v < 2 * GAMMA2
    <3>1. GAMMA2 \in Int
      BY DEF GAMMA2, Q
    <3>2. \A c \in -2..2, x \in -3..3 : c * GAMMA2 + x \in Int
      BY <3>1
    <3> QED BY <3>2 DEF LowSums
  <2> QED BY <2>1, <2>2, HintCorrect DEF HintRepairs
<1> QED BY <1>1, Walk, PTL
=============================================================================
