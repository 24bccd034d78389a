------------------------------- MODULE BitPack -------------------------------
(***************************************************************************)
(* The bit packers of common/poly.c.  Each of them is unrolled by hand     *)
(* into shifts of the coefficients t[k] of a group to the bytes r[b] of a  *)
(* group and back; the tables below hold those shifts.  The packers of     *)
(* polyeta, polyt0 and polyz take t = bias - a, their unpackers a = bias - t;*)
(* a right shift of a byte or of t fills with zeroes, and what a left shift *)
(* moves beyond a byte, or beyond the mask of the unpacker, is cut off.    *)
(*                                                                         *)
(* Bits are symbols: the bit q of t[k] is <<k, q>>, so that one evaluation *)
(* of a table holds for every value of the coefficients.                   *)
(***************************************************************************)
EXTENDS Integers, Sequences

\* Bit p of a shifted operand is bit p + by of the operand.
Shr(i, n) == [of |-> i, by |-> n]
Shl(i, n) == [of |-> i, by |-> -n]
As(i)     == Shr(i, 0)

PolyetaPack == <<
  {As(0), Shl(1, 3), Shl(2, 6)},
  {Shr(2, 2), Shl(3, 1), Shl(4, 4), Shl(5, 7)},
  {Shr(5, 1), Shl(6, 2), Shl(7, 5)} >>

PolyetaUnpack == <<
  {As(0)}, {Shr(0, 3)}, {Shr(0, 6), Shl(1, 2)}, {Shr(1, 1)},
  {Shr(1, 4)}, {Shr(1, 7), Shl(2, 1)}, {Shr(2, 2)}, {Shr(2, 5)} >>

Polyt1Pack == <<
  {As(0)}, {Shr(0, 8), Shl(1, 2)}, {Shr(1, 6), Shl(2, 4)},
  {Shr(2, 4), Shl(3, 6)}, {Shr(3, 2)} >>

Polyt1Unpack == <<
  {As(0), Shl(1, 8)}, {Shr(1, 2), Shl(2, 6)},
  {Shr(2, 4), Shl(3, 4)}, {Shr(3, 6), Shl(4, 2)} >>

Polyt0Pack == <<
  {As(0)}, {Shr(0, 8), Shl(1, 5)}, {Shr(1, 3)}, {Shr(1, 11), Shl(2, 2)},
  {Shr(2, 6), Shl(3, 7)}, {Shr(3, 1)}, {Shr(3, 9), Shl(4, 4)}, {Shr(4, 4)},
  {Shr(4, 12), Shl(5, 1)}, {Shr(5, 7), Shl(6, 6)}, {Shr(6, 2)},
  {Shr(6, 10), Shl(7, 3)}, {Shr(7, 5)} >>

Polyt0Unpack == <<
  {As(0), Shl(1, 8)}, {Shr(1, 5), Shl(2, 3), Shl(3, 11)},
  {Shr(3, 2), Shl(4, 6)}, {Shr(4, 7), Shl(5, 1), Shl(6, 9)},
  {Shr(6, 4), Shl(7, 4), Shl(8, 12)}, {Shr(8, 1), Shl(9, 7)},
  {Shr(9, 6), Shl(10, 2), Shl(11, 10)}, {Shr(11, 3), Shl(12, 5)} >>

PolyzPack == <<
  {As(0)}, {Shr(0, 8)}, {Shr(0, 16), Shl(1, 2)}, {Shr(1, 6)},
  {Shr(1, 14), Shl(2, 4)}, {Shr(2, 4)}, {Shr(2, 12), Shl(3, 6)},
  {Shr(3, 2)}, {Shr(3, 10)} >>

PolyzUnpackShortShift == <<
  {As(0), Shl(1, 8), Shl(2, 16)}, {Shr(2, 2), Shl(3, 6), Shl(4, 13)},
  {Shr(4, 4), Shl(5, 4), Shl(6, 12)}, {Shr(6, 6), Shl(7, 2), Shl(8, 10)} >>
PolyzUnpack == <<
  {As(0), Shl(1, 8), Shl(2, 16)}, {Shr(2, 2), Shl(3, 6), Shl(4, 14)},
  {Shr(4, 4), Shl(5, 4), Shl(6, 12)}, {Shr(6, 6), Shl(7, 2), Shl(8, 10)} >>

Polyw1PackFourBits == <<
  {As(0), Shl(1, 4)}, {As(2), Shl(3, 4)}, {} >>
Polyw1Pack == <<
  {As(0), Shl(1, 6)}, {Shr(1, 2), Shl(2, 4)}, {Shr(2, 4), Shl(3, 2)} >>

\* The fields are as wide as the values that key generation and signing give
\* them, which is what PartsFitTheirBits of module MCRounding and the norm
\* checks are about: the bits of t from width on are zero.
eta == [width |-> 3,  pack |-> PolyetaPack, unpack |-> PolyetaUnpack]
t1  == [width |-> 10, pack |-> Polyt1Pack,  unpack |-> Polyt1Unpack]
t0  == [width |-> 13, pack |-> Polyt0Pack,  unpack |-> Polyt0Unpack]
z   == [width |-> 18, pack |-> PolyzPack,   unpack |-> PolyzUnpack]
w1  == [width |-> 6,  pack |-> Polyw1Pack,  unpack |-> << >>]

Formats == {eta, t1, t0, z, w1}

\* The symbols that are or-ed into bit p of byte b, and into bit q of the
\* coefficient k that is unpacked from what was packed.
PackedBit(f, b, p) ==
  {<<s.of, p + s.by>> : s \in {x \in f.pack[b + 1] : p + x.by \in 0..(f.width - 1)}}

UnpackedBit(f, k, q) ==
  UNION {PackedBit(f, s.of, q + s.by) : s \in {x \in f.unpack[k + 1] : q + x.by \in 0..7}}

-----------------------------------------------------------------------------
\* The bytes are the coefficients' bits one after the other, each of them once.
BitStringAt(f, b) ==
  \A p \in 0..7 :
    PackedBit(f, b, p) = {<<(8 * b + p) \div f.width, (8 * b + p) % f.width>>}

\* Every bit of a coefficient comes back to its place, alone.
InverseAt(f, k) == \A q \in 0..(f.width - 1) : UnpackedBit(f, k, q) = {<<k, q>>}
=============================================================================
