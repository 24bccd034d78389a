----------------------------- MODULE MCRounding -----------------------------
(***************************************************************************)
(* Rounding on the inputs where its functions change course: WIDTH values  *)
(* on either side of every multiple of 2^22 in the range of an int32_t     *)
(* (where reduce32's quotient changes) and of every multiple of GAMMA2 in  *)
(* 0..Q-1 (where decompose, power2round's neighbour, and the hints do).    *)
(* The state is the multiple that is being looked at.  The tables of        *)
(* BitPack and Zetas and the bytes of the buffers of Layout are walked     *)
(* through by the same counter.                                            *)
(***************************************************************************)
EXTENDS Rounding, BitPack, Zetas, Layout

CONSTANT WIDTH

ASSUME WidthAssumption == WIDTH \in Nat

VARIABLE k

Init == k = -511
Next == k < 511 /\ k' = k + 1
Spec == Init /\ [][Next]_k

Wide     == {a \in {k * 4194304 + x : x \in (-WIDTH)..WIDTH} : InReduceDomain(a)}
Standard == {a \in {(k % 89) * GAMMA2 + x : x \in (-WIDTH)..WIDTH} : IsStandard(a)}

\* Bounds that sign.c and sign_verify use, the least and the greatest.
Bounds == {1, GAMMA1 - BETA, GAMMA2 - BETA, GAMMA2, (Q - 1) \div 8}

\* Sums of low parts around the ends and the middle of their range.
LowSums == {v \in {c * GAMMA2 + x : c \in -2..2, x \in -3..3} :
              -2 * GAMMA2 < v /\ v < 2 * GAMMA2}

\* reduce32 and freeze return representatives of their input, and chknorm of
\* what reduce32 leaves, which is not centered, decides as on the centered one.
NormVerdictIsCentered ==
  /\ \A a \in Wide \cup Standard : ReducesAt(a)
  /\ \A a \in Wide, x \in {0, 1}, B \in Bounds :
       /\ NormVerdictAt(a, B)
       /\ NormVerdictAt(B - x, B) /\ NormVerdictAt(x - B, B)

\* decompose computes the rounded division by ALPHA with its wrap at Q-1.
DecomposeIsDivision == \A a \in Standard : DecomposesAt(a)

\* The parts have the widths that pack_pk, pack_sk and pack_w1 give them.
PartsFitTheirBits == \A a \in Standard \cup {b \in {k * 8192 + 4096 + x : x \in -2..2} : IsStandard(b)} :
                       PartsFitAt(a)

\* A hint repairs the high part of any sum the signer may make a hint of.
HintRepairs == \A v \in LowSums : HintRepairsAt(k % 44, v)

\* Each packer writes the little-endian string of its coefficients' bits, with
\* no bit lost, shared or left over: two polynomials never give the same
\* bytes, which the hash of w1 relies on, and no byte string but one unpacks
\* to a given z.
PackIsBitString ==
  \A format \in Formats :
    LET b == k % Len(format.pack) IN BitStringAt(format, b)

\* Each unpacker takes every bit back to where it was.
UnpackInvertsPack ==
  \A format \in Formats \ {w1} :
    LET i == k % Len(format.unpack) IN InverseAt(format, i)

\* The table of zetas holds the powers of the root that the transform needs,
\* and the other numbers built into ntt.c and reduce.h are what they stand for.
ZetasAreRoots ==
  /\ k \in 1..255 => ZetaIsRoot(k)
  /\ k = 0 => ConstantsStandFor

\* Keys, signatures and seed buffers are filled without gap or overlap, and
\* the unpackers find each byte in the field it was packed from.
FieldsReadAsWritten == \A n \in 0..2 : LaidOutAt(k + 511 + 1023 * n)

\* The doc comment of reduce32, common/reduce.c:44.
DocumentedRange == \A a \in Wide : DocumentedRangeAt(a)
=============================================================================
