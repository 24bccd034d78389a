---------------------------- MODULE KeccakProofs ----------------------------
(***************************************************************************)
(* Proofs about KeccakInc, for any rate and any number and length of the   *)
(* calls: the incremental functions absorb and squeeze what the one-shot   *)
(* functions do.  Then about KeccakF, for any lanes: the unrolled rounds    *)
(* are those of FIPS 202.                                                  *)
(***************************************************************************)
EXTENDS KeccakInc, KeccakF, SequenceTheorems, FiniteSetTheorems,
        NaturalsInduction, TLAPS

LEMMA RateType == R \in Nat \ {0} /\ MaxIn \in Nat /\ MaxOut \in Nat
BY RateAssumption

\* A length is a number of whole blocks and a rest.
LEMMA BlocksAndRest ==
  ASSUME NEW k \in Nat, NEW x \in 0..(R - 1)
  PROVE  ((k * R) + x) \div R = k /\ ((k * R) + x) % R = x /\ k * R \in Nat
BY RateType, SMT

LEMMA NextBlock ==
  ASSUME NEW k \in Nat
  PROVE  (k + 1) * R = (k * R) + R /\ k * R \in Nat
BY RateType, SMT

-----------------------------------------------------------------------------
Symbols == Nat \cup {DomainByte, FinalBit}
Blocks  == [Lane -> SUBSET Symbols]
Bytes   == [perm : Nat, lane : Lane]

\* A state whose first n bytes hold the input from symbol first on.
Filled(first, n) == [b \in Lane |-> IF b < n THEN {first + b} ELSE {}]

LEMMA FilledType ==
  ASSUME NEW f \in Nat, NEW n \in Nat
  PROVE  Filled(f, n) \in Blocks /\ Filled(f, 0) = Empty
<1>1. \A b \in Lane : f + b \in Symbols /\ ~(b < 0)
  BY RateType DEF Lane, Symbols
<1>2. Filled(f, n) \in Blocks
  BY <1>1 DEF Filled, Blocks
<1>3. Filled(f, 0) = Empty
  BY <1>1 DEF Filled, Empty
<1> QED BY <1>2, <1>3

\* Absorbing goes on where the last call stopped.
LEMMA XorFilled ==
  ASSUME NEW f \in Nat, NEW p \in Nat, NEW n \in Nat
  PROVE  XorInput(Filled(f, p), p, n, f + p) = Filled(f, p + n)
<1> DEFINE c == Filled(f, p)
<1>1. ASSUME NEW b \in Lane
      PROVE  (IF b \in p..(p + n - 1) THEN SymDiff(c[b], {(f + p) + (b - p)}) ELSE c[b])
               = (IF b < p + n THEN {f + b} ELSE {})
  <2>1. b \in Int
    BY RateType DEF Lane
  <2>2. c[b] = IF b < p THEN {f + b} ELSE {}
    BY DEF Filled
  <2> HIDE DEF c
  <2>3. CASE b < p
    BY <2>1, <2>2, <2>3
  <2>4. CASE b >= p /\ b < p + n
    <3>1. b \in p..(p + n - 1) /\ (f + p) + (b - p) = f + b
      BY <2>1, <2>4
    <3>2. c[b] = {}
      BY <2>1, <2>2, <2>4
    <3>3. SymDiff({}, {f + b}) = {f + b}
      BY DEF SymDiff
    <3> QED BY <2>4, <3>1, <3>2, <3>3
  <2>5. CASE b >= p + n
    <3>1. b \notin p..(p + n - 1) /\ ~(b < p) /\ ~(b < p + n)
      BY <2>1, <2>5
    <3> QED BY <2>2, <3>1, Zenon
  <2> QED BY <2>1, <2>3, <2>4, <2>5
<1>2. XorInput(c, p, n, f + p)
        = [b \in Lane |-> IF b \in p..(p + n - 1)
                            THEN SymDiff(c[b], {(f + p) + (b - p)}) ELSE c[b]]
  BY DEF XorInput
<1> QED BY <1>1, <1>2, Zenon DEF Filled

\* A full block is the one-shot function's.
LEMMA FullIsOneShot ==
  ASSUME NEW k \in Nat
  PROVE  Filled(k * R, R) = OneShotBlock(k + 1)
<1>1. (k + 1) - 1 = k /\ \A b \in Lane : b < R
  BY RateType DEF Lane
<1> QED BY <1>1 DEF Filled, OneShotBlock

\* Padding a block that is not full gives the one-shot function's last block.
LEMMA PadIsOneShot ==
  ASSUME NEW k \in Nat, NEW p \in 0..(R - 1)
  PROVE  Pad(Filled(k * R, p), p) = OneShotLast((k * R) + p)
<1> DEFINE f == k * R
           c == Filled(f, p)
           len == f + p
<1>1. f \in Nat /\ len % R = p /\ len - p = f
  BY BlocksAndRest, RateType
<1> HIDE DEF f
<1>2. ASSUME NEW b \in Lane
      PROVE  SymDiff(SymDiff(c[b], IF b = p THEN {DomainByte} ELSE {}),
                 IF b = R - 1 THEN {FinalBit} ELSE {})
             = (IF b < p THEN {f + b} ELSE {})
                 \cup (IF b = p THEN {DomainByte} ELSE {})
                 \cup (IF b = R - 1 THEN {FinalBit} ELSE {})
  <2>1. c[b] = IF b < p THEN {f + b} ELSE {}
    BY DEF Filled
  <2>2. b \in Nat /\ f + b \in Nat /\ f + b # -1 /\ f + b # -2 /\ p \in Nat
    BY <1>1, RateType DEF Lane
  <2> HIDE DEF c
  <2>3. CASE b < p
    BY <2>1, <2>2, <2>3 DEF SymDiff, DomainByte, FinalBit
  <2>4. CASE b = p
    BY <2>1, <2>2, <2>4 DEF SymDiff, DomainByte, FinalBit
  <2>5. CASE b > p
    BY <2>1, <2>2, <2>5 DEF SymDiff, DomainByte, FinalBit
  <2>6. b < p \/ b = p \/ b > p
    BY <2>2
  <2> QED BY <2>3, <2>4, <2>5, <2>6, Zenon
<1>3. Pad(c, p) = [b \in Lane |-> SymDiff(SymDiff(c[b], IF b = p THEN {DomainByte} ELSE {}),
                                      IF b = R - 1 THEN {FinalBit} ELSE {})]
  BY DEF Pad
<1>4. OneShotLast(len) = [b \in Lane |->
         (IF b < p THEN {f + b} ELSE {})
           \cup (IF b = p THEN {DomainByte} ELSE {})
           \cup (IF b = R - 1 THEN {FinalBit} ELSE {})]
  BY <1>1 DEF OneShotLast
<1> QED BY <1>2, <1>3, <1>4, Zenon DEF f

LEMMA OneShotType ==
  ASSUME NEW len \in Nat
  PROVE  OneShotLast(len) \in Blocks /\ Empty \in Blocks
<1>1. len % R \in 0..(R - 1) /\ len - (len % R) \in Nat
  BY RateType, SMT
<1> DEFINE rest == len % R
<1> HIDE DEF rest
<1>2. \A b \in Lane : (len - rest) + b \in Symbols
  BY <1>1, RateType DEF rest, Lane, Symbols
<1>3. DomainByte \in Symbols /\ FinalBit \in Symbols
  BY DEF Symbols
<1>4. OneShotLast(len) \in Blocks
  BY <1>2, <1>3 DEF rest, OneShotLast, Blocks
<1>5. Empty \in Blocks
  BY DEF Empty, Blocks
<1> QED BY <1>4, <1>5

\* Byte y of the block squeezed after k others.
LEMMA ByteOfBlock ==
  ASSUME NEW len, NEW k \in Nat, NEW y \in 0..(R - 1), NEW n,
         n - 1 = (k * R) + y
  PROVE  OneShotByte(len, n) = [perm |-> (len \div R) + 1 + k, lane |-> y]
BY BlocksAndRest DEF OneShotByte

-----------------------------------------------------------------------------
(***************************************************************************)
(* The inductive invariant.  Absorbing: the state holds the bytes since    *)
(* the last full block.  Squeezing: the last block is padded, what follows *)
(* it is permuted unchanged, and pos counts the bytes not yet read of the  *)
(* block in the state.                                                     *)
(***************************************************************************)
Types ==
  /\ pc \in {"absorbing", "absorb", "squeezing", "squeeze"}
  /\ blocks \in Seq(Blocks) /\ cells \in Blocks /\ out \in Seq(Bytes)
  /\ pos \in Nat /\ left \in Nat /\ total \in Nat /\ absorbed \in Nat

Whole == Len(blocks) * R

AbsorbInv ==
  /\ pos < R
  /\ total = Whole + pos
  /\ \A b \in 1..Len(blocks) : blocks[b] = OneShotBlock(b)
  /\ cells = Filled(Whole, pos)
  /\ out = << >>

\* Blocks squeezed.
Squeezed == Len(blocks) - absorbed

SqueezeInv ==
  /\ absorbed = total \div R
  /\ Squeezed \in Nat
  /\ \A b \in 1..absorbed : blocks[b] = OneShotBlock(b)
  /\ Squeezed = 0 => cells = OneShotLast(total) /\ pos = 0
  /\ Squeezed > 0 => /\ blocks[absorbed + 1] = OneShotLast(total)
                     /\ \A b \in (absorbed + 2)..Len(blocks) : blocks[b] = Empty
                     /\ cells = Empty
  /\ pos <= R
  /\ pc = "squeeze" /\ left > 0 => pos = 0
  /\ Len(out) = (Squeezed * R) - pos
  /\ SqueezesAsOneShot

IInv == /\ Types
        /\ Absorbing => AbsorbInv
        /\ ~Absorbing => SqueezeInv

LEMMA InitIInv == Init => IInv
<1> SUFFICES ASSUME Init PROVE IInv
  OBVIOUS
<1>1. Len(blocks) = 0 /\ Whole = 0
  BY RateType DEF Init, Whole
<1>2. cells = Filled(Whole, pos) /\ cells \in Blocks
  BY <1>1, FilledType DEF Init
<1>3. Types
  BY <1>2 DEF Init, Types
<1>4. Absorbing /\ AbsorbInv
  BY <1>1, <1>2, RateType DEF Init, Absorbing, AbsorbInv
<1> QED BY <1>3, <1>4 DEF IInv

LEMMA AbsorbCallStep == IInv /\ AbsorbCall => IInv'
<1> SUFFICES ASSUME IInv, AbsorbCall PROVE IInv'
  OBVIOUS
<1>1. Absorbing /\ Absorbing'
  BY DEF AbsorbCall, Absorbing
<1>2. Types'
  BY RateType DEF IInv, Types, AbsorbCall
<1>3. AbsorbInv'
  BY <1>1 DEF IInv, AbsorbInv, AbsorbCall, Whole
<1> QED BY <1>1, <1>2, <1>3 DEF IInv

LEMMA AbsorbBlockStep == IInv /\ AbsorbBlock => IInv'
<1> SUFFICES ASSUME IInv, AbsorbBlock PROVE IInv'
  OBVIOUS
<1> DEFINE n == Len(blocks)
           new == XorInput(cells, pos, R - pos, total)
<1>1. Absorbing /\ Absorbing' /\ AbsorbInv /\ Types
  BY DEF IInv, AbsorbBlock, Absorbing
<1>2. n \in Nat /\ Whole = n * R /\ Whole \in Nat /\ pos \in Nat /\ R - pos \in Nat
      /\ pos + (R - pos) = R
  BY <1>1, BlocksAndRest, RateType, LenProperties DEF Types, Whole, AbsorbInv
<1>3. new = OneShotBlock(n + 1)
  <2>1. new = Filled(n * R, R)
    BY <1>1, <1>2, XorFilled DEF AbsorbInv
  <2> QED BY <1>2, <2>1, FullIsOneShot
<1>4. new \in Blocks
  <2>1. new = Filled(Whole, R)
    BY <1>1, <1>2, XorFilled DEF AbsorbInv
  <2> QED BY <1>2, <2>1, FilledType, RateType
<1> HIDE DEF new
<1>5. blocks' = Append(blocks, new)
  BY DEF AbsorbBlock, new
<1>6. /\ blocks' \in Seq(Blocks) /\ Len(blocks') = n + 1
      /\ \A b \in 1..n : blocks'[b] = blocks[b]
      /\ blocks'[n + 1] = new
  BY <1>1, <1>4, <1>5, AppendProperties DEF Types
<1>7. Whole' = Whole + R /\ Whole' \in Nat
  BY <1>2, <1>6, NextBlock, RateType DEF Whole
<1>8. pos' = 0 /\ total' = total + (R - pos) /\ cells' = Empty /\ left' = left - (R - pos)
      /\ out' = out /\ absorbed' = absorbed /\ pc' = pc
  BY DEF AbsorbBlock
<1>9. left - (R - pos) \in Nat
  BY <1>1, <1>2, RateType DEF AbsorbBlock, FullBlock, Types
<1>10. Types'
  BY <1>1, <1>2, <1>6, <1>8, <1>9, OneShotType DEF Types
<1>11. AbsorbInv'
  <2>1. pos' < R /\ total' = Whole' + pos'
    BY <1>1, <1>2, <1>7, <1>8, RateType DEF AbsorbInv
  <2>2. \A b \in 1..Len(blocks') : blocks'[b] = OneShotBlock(b)
    BY <1>1, <1>2, <1>3, <1>6 DEF AbsorbInv
  <2>3. cells' = Filled(Whole', pos') /\ out' = << >>
    BY <1>1, <1>7, <1>8, FilledType DEF AbsorbInv
  <2> QED BY <2>1, <2>2, <2>3 DEF AbsorbInv
<1> QED BY <1>1, <1>10, <1>11 DEF IInv

LEMMA AbsorbRestStep == IInv /\ AbsorbRest => IInv'
<1> SUFFICES ASSUME IInv, AbsorbRest PROVE IInv'
  OBVIOUS
<1>1. Absorbing /\ Absorbing' /\ AbsorbInv /\ Types
  BY DEF IInv, AbsorbRest, Absorbing
<1>2. Whole \in Nat /\ Whole' = Whole /\ pos \in Nat /\ left \in Nat
  BY <1>1, RateType, LenProperties, BlocksAndRest DEF Types, Whole, AbsorbRest
<1>3. cells' = Filled(Whole, pos + left)
  BY <1>1, <1>2, XorFilled DEF AbsorbRest, AbsorbInv
<1>4. pos + left < R
  BY <1>1, RateType DEF AbsorbRest, FullBlock, Types
<1>5. Types'
  BY <1>1, <1>2, <1>3, FilledType DEF Types, AbsorbRest
<1>6. AbsorbInv'
  BY <1>1, <1>2, <1>3, <1>4 DEF AbsorbInv, AbsorbRest
<1> QED BY <1>1, <1>5, <1>6 DEF IInv

LEMMA FinalizeStep == IInv /\ Finalize => IInv'
<1> SUFFICES ASSUME IInv, Finalize PROVE IInv'
  OBVIOUS
<1> DEFINE n == Len(blocks)
<1>1. AbsorbInv /\ Types /\ ~Absorbing'
  BY DEF IInv, Finalize, Absorbing
<1>2. n \in Nat /\ pos \in 0..(R - 1) /\ total = (n * R) + pos /\ n * R \in Nat
  BY <1>1, RateType, LenProperties, BlocksAndRest DEF Types, AbsorbInv, Whole
<1>3. /\ pc' = "squeezing" /\ cells' = Pad(cells, pos) /\ pos' = 0 /\ absorbed' = n
      /\ blocks' = blocks /\ left' = left /\ total' = total /\ out' = out
  BY DEF Finalize
<1>4. cells' = OneShotLast(total) /\ cells' \in Blocks
  <2>1. cells' = OneShotLast(total)
    BY <1>1, <1>2, <1>3, PadIsOneShot DEF AbsorbInv, Whole
  <2> QED BY <1>1, <2>1, OneShotType DEF Types
<1>5. Types'
  BY <1>1, <1>2, <1>3, <1>4 DEF Types
<1>6. absorbed' = total' \div R
  BY <1>2, <1>3, BlocksAndRest
<1>7. Squeezed' = 0
  BY <1>2, <1>3 DEF Squeezed
<1>8. Len(out') = 0 /\ (Squeezed' * R) - pos' = 0
  <2>1. Len(out') = 0
    BY <1>1, <1>3 DEF AbsorbInv
  <2> QED BY <1>3, <1>7, <2>1, RateType
<1>9. SqueezeInv'
  <2>1. SqueezesAsOneShot'
    BY <1>8 DEF SqueezesAsOneShot
  <2>2. \A b \in 1..absorbed' : blocks'[b] = OneShotBlock(b)
    BY <1>1, <1>3 DEF AbsorbInv
  <2> QED BY <1>3, <1>4, <1>6, <1>7, <1>8, <2>1, <2>2, RateType DEF SqueezeInv
<1> QED BY <1>1, <1>5, <1>9 DEF IInv

\* The next n bytes of output, read from byte at of the state after perm
\* permutations, where the output so far is the one-shot function's.
LEMMA ReadStep ==
  ASSUME Types, SqueezesAsOneShot,
         NEW perm \in Nat, NEW k \in Nat, NEW at \in Nat, NEW n \in Nat,
         at + n <= R,
         perm = (total \div R) + 1 + k,
         Len(out) = (k * R) + at,
         out' = out \o Read(perm, at, n), total' = total
  PROVE  /\ out' \in Seq(Bytes) /\ Len(out') = Len(out) + n
         /\ SqueezesAsOneShot'
<1> DEFINE r == Read(perm, at, n)
           e == (k * R) + at
<1>1. r \in Seq(Bytes) /\ Len(r) = n
      /\ \A x \in 1..n : r[x] = [perm |-> perm, lane |-> at + x - 1]
  <2>1. \A x \in 1..n : at + x - 1 \in Lane
    BY RateType DEF Lane
  <2> QED BY <2>1 DEF Read, Bytes
<1> HIDE DEF r
<1>2. k * R \in Nat /\ out \in Seq(Bytes) /\ Len(out) = e /\ e \in Nat
  BY RateType, BlocksAndRest DEF Types
<1>3. /\ out' \in Seq(Bytes) /\ Len(out') = e + n
      /\ \A i \in 1..(e + n) : out'[i] = IF i <= e THEN out[i] ELSE r[i - e]
  <2>1. out' = out \o r
    BY DEF r
  <2>2. \A i \in 1..(Len(out) + Len(r)) :
           (out \o r)[i] = IF i <= Len(out) THEN out[i] ELSE r[i - Len(out)]
    BY <1>1, <1>2, ConcatProperties, Zenon
  <2>3. out \o r \in Seq(Bytes) /\ Len(out \o r) = Len(out) + Len(r)
    BY <1>1, <1>2, ConcatProperties
  <2> QED BY <1>1, <1>2, <2>1, <2>2, <2>3, Zenon
<1>4. ASSUME NEW i \in 1..(e + n)
      PROVE  out'[i] = OneShotByte(total, i)
  <2>1. CASE i <= e
    BY <1>2, <1>3, <2>1 DEF SqueezesAsOneShot
  <2>2. CASE i > e
    <3> DEFINE x == i - e
    <3>1. x \in 1..n /\ at + x - 1 \in 0..(R - 1) /\ ~(i <= e)
      BY <1>2, <2>2, RateType
    <3>2. out'[i] = [perm |-> perm, lane |-> at + x - 1]
      BY <1>1, <1>3, <3>1, Zenon
    <3>3. i - 1 = (k * R) + (at + x - 1)
      <4> DEFINE kR == k * R
      <4>1. kR \in Nat /\ i \in Int /\ x = i - (kR + at)
        BY <1>2
      <4> HIDE DEF kR, x
      <4>2. i - 1 = kR + (at + x - 1)
        BY <4>1
      <4> QED BY <4>2 DEF kR
    <3>4. OneShotByte(total, i) = [perm |-> perm, lane |-> at + x - 1]
      BY <3>1, <3>3, ByteOfBlock
    <3> QED BY <3>2, <3>4, Zenon
  <2>3. e \in Nat /\ i \in Int
    BY <1>2
  <2> HIDE DEF e
  <2>4. i <= e \/ i > e
    BY <2>3
  <2> QED BY <2>1, <2>2, <2>4, Zenon
<1>5. SqueezesAsOneShot'
  BY <1>3, <1>4 DEF SqueezesAsOneShot
<1> QED BY <1>2, <1>3, <1>5

LEMMA SqueezeCallStep == IInv /\ SqueezeCall => IInv'
<1> SUFFICES ASSUME IInv, SqueezeCall PROVE IInv'
  OBVIOUS
<1>1. SqueezeInv /\ Types /\ ~Absorbing'
  BY DEF IInv, SqueezeCall, Absorbing
<1>2. PICK n \in 0..(MaxOut - Len(out)) :
        /\ out' = out \o Read(Len(blocks), Leftover, AtMost(n, pos))
        /\ left' = n - AtMost(n, pos)
        /\ pos' = pos - AtMost(n, pos)
  BY DEF SqueezeCall
<1> DEFINE i == AtMost(n, pos)
<1>3. n \in Nat /\ pos \in Nat /\ Len(out) \in Nat
  BY <1>1, RateType, LenProperties DEF Types
<1>4. i \in Nat /\ i <= pos /\ i <= n /\ (n - i > 0 => pos - i = 0)
  BY <1>3 DEF AtMost
<1> HIDE DEF i
<1>5. /\ pc' = "squeeze" /\ blocks' = blocks /\ cells' = cells /\ total' = total
      /\ absorbed' = absorbed /\ left' = n - i /\ pos' = pos - i
      /\ out' = out \o Read(Len(blocks), Leftover, i)
  BY <1>2 DEF SqueezeCall, i
<1>6. Len(blocks) \in Nat /\ Squeezed \in Nat /\ Squeezed' = Squeezed
      /\ absorbed \in Nat /\ total \in Nat /\ pos <= R
  BY <1>1, <1>5, LenProperties DEF Types, SqueezeInv, Squeezed
<1>7. /\ out' \in Seq(Bytes) /\ Len(out') = Len(out) + i
      /\ SqueezesAsOneShot'
  <2>1. CASE i = 0
    <3>1. Read(Len(blocks), Leftover, i) = << >>
      BY <2>1 DEF Read
    <3>2. out' = out
      BY <1>1, <1>5, <3>1, ConcatEmptySeq DEF Types
    <3>3. SqueezesAsOneShot'
      BY <1>1, <1>5, <3>2, Zenon DEF SqueezeInv, SqueezesAsOneShot
    <3>4. Len(out') = Len(out) + i
      BY <1>3, <2>1, <3>2
    <3> QED BY <1>1, <3>2, <3>3, <3>4 DEF Types
  <2>2. CASE i > 0
    <3> DEFINE k == Squeezed - 1
               at == R - pos
    <3>1. Squeezed > 0
      BY <1>1, <1>3, <1>4, <1>6, <2>2 DEF SqueezeInv
    <3>2. k \in Nat /\ at \in Nat /\ at + i <= R /\ Leftover = at
      BY <1>3, <1>4, <1>6, <3>1, RateType DEF Leftover
    <3>3. Len(blocks) = (total \div R) + 1 + k
      BY <1>1, <1>6 DEF SqueezeInv, Squeezed
    <3>4. Len(out) = (k * R) + at
      <4> DEFINE kR == k * R
      <4>1. Squeezed = k + 1
        BY <1>6
      <4>2. Squeezed * R = kR + R /\ kR \in Nat
        BY <3>2, <4>1, NextBlock, Zenon
      <4>3. Len(out) = (Squeezed * R) - pos
        BY <1>1 DEF SqueezeInv
      <4> HIDE DEF kR
      <4>4. (kR + R) - pos = kR + (R - pos)
        BY <1>3, <4>2, RateType
      <4> QED BY <4>2, <4>3, <4>4, Zenon DEF kR
    <3>5. SqueezesAsOneShot
      BY <1>1 DEF SqueezeInv
    <3> HIDE DEF k, at
    <3> QED BY <1>1, <1>4, <1>5, <1>6, <3>2, <3>3, <3>4, <3>5, ReadStep
  <2> QED BY <1>4, <2>1, <2>2
<1>8. Types'
  BY <1>1, <1>3, <1>4, <1>5, <1>7 DEF Types
<1>9. Len(out') = (Squeezed' * R) - pos'
  <2> DEFINE sR == Squeezed * R
  <2>1. sR \in Nat /\ Len(out) = sR - pos
    BY <1>1, <1>6, BlocksAndRest, RateType DEF SqueezeInv
  <2> HIDE DEF sR
  <2>2. Len(out') = sR - (pos - i)
    BY <1>3, <1>4, <1>7, <2>1
  <2> QED BY <1>5, <1>6, <2>2, Zenon DEF sR
<1>10. /\ \A b \in 1..absorbed' : blocks'[b] = OneShotBlock(b)
       /\ Squeezed' = 0 => cells' = OneShotLast(total')
       /\ Squeezed' > 0 => /\ blocks'[absorbed' + 1] = OneShotLast(total')
                           /\ \A b \in (absorbed' + 2)..Len(blocks') : blocks'[b] = Empty
                           /\ cells' = Empty
       /\ absorbed' = total' \div R
  BY <1>1, <1>5, <1>6, Zenon DEF SqueezeInv
<1>11. /\ pos' <= R /\ (Squeezed' = 0 => pos' = 0) /\ (left' > 0 => pos' = 0)
  BY <1>1, <1>3, <1>4, <1>5, <1>6, RateType DEF SqueezeInv
<1>12. SqueezeInv'
  BY <1>6, <1>7, <1>9, <1>10, <1>11, Zenon DEF SqueezeInv
<1> QED BY <1>1, <1>8, <1>12 DEF IInv

LEMMA SqueezeBlockStep == IInv /\ SqueezeBlock => IInv'
<1> SUFFICES ASSUME IInv, SqueezeBlock PROVE IInv'
  OBVIOUS
<1> DEFINE n == Len(blocks)
           i == AtMost(left, R)
<1>1. SqueezeInv /\ Types /\ ~Absorbing'
  BY DEF IInv, SqueezeBlock, Absorbing
<1>2. /\ n \in Nat /\ Squeezed \in Nat /\ absorbed \in Nat /\ total \in Nat
      /\ left \in Nat /\ Len(out) \in Nat /\ left > 0 /\ pos = 0
  BY <1>1, LenProperties DEF Types, SqueezeInv, SqueezeBlock
<1>3. i \in Nat /\ i <= R /\ i <= left /\ (left - i > 0 => R - i = 0)
  BY <1>2, RateType DEF AtMost
<1>4. /\ blocks' = Append(blocks, cells) /\ cells' = Empty /\ pc' = pc /\ total' = total
      /\ absorbed' = absorbed /\ left' = left - i /\ pos' = R - i
      /\ out' = out \o Read(Len(blocks'), 0, i)
  BY DEF SqueezeBlock
<1> HIDE DEF i
<1>5. /\ blocks' \in Seq(Blocks) /\ Len(blocks') = n + 1
      /\ \A b \in 1..n : blocks'[b] = blocks[b]
      /\ blocks'[n + 1] = cells
  BY <1>1, <1>4, AppendProperties DEF Types
<1>6. Squeezed' = Squeezed + 1 /\ n = absorbed + Squeezed
  BY <1>2, <1>4, <1>5 DEF Squeezed
<1> DEFINE sR == Squeezed * R
<1>7. sR \in Nat /\ Squeezed' * R = sR + R
  BY <1>2, <1>6, NextBlock
<1>8. Len(out) = sR
  <2>1. Len(out) = sR - pos
    BY <1>1 DEF SqueezeInv
  <2> HIDE DEF sR
  <2> QED BY <1>2, <1>7, <2>1
<1>9. /\ out' \in Seq(Bytes) /\ Len(out') = Len(out) + i
      /\ SqueezesAsOneShot'
  <2>1. n + 1 = (total \div R) + 1 + Squeezed /\ n + 1 \in Nat
    BY <1>1, <1>2, <1>6 DEF SqueezeInv
  <2>2. Len(out) = (Squeezed * R) + 0
    BY <1>7, <1>8
  <2>3. SqueezesAsOneShot /\ out' = out \o Read(n + 1, 0, i) /\ 0 + i <= R /\ 0 \in Nat
    BY <1>1, <1>3, <1>4, <1>5, RateType DEF SqueezeInv
  <2> HIDE DEF n
  <2> QED BY <1>1, <1>2, <1>3, <1>4, <2>1, <2>2, <2>3, ReadStep
<1>10. Types'
  <2>1. R - i \in Nat /\ left - i \in Nat /\ Empty \in Blocks
    BY <1>2, <1>3, OneShotType, RateType
  <2> QED BY <1>1, <1>4, <1>5, <1>9, <2>1, Zenon DEF Types
<1>11. Len(out') = (Squeezed' * R) - pos'
  <2> HIDE DEF sR
  <2>1. Len(out') = (sR + R) - (R - i)
    BY <1>3, <1>7, <1>8, <1>9, RateType
  <2> QED BY <1>4, <1>7, <2>1, Zenon
<1>12. \A b \in 1..absorbed' : blocks'[b] = OneShotBlock(b)
  BY <1>1, <1>2, <1>4, <1>5, <1>6, SMTT(30) DEF SqueezeInv
<1>13. blocks'[absorbed' + 1] = OneShotLast(total')
  <2>1. CASE Squeezed = 0
    BY <1>1, <1>2, <1>4, <1>5, <1>6, <2>1 DEF SqueezeInv
  <2>2. CASE Squeezed > 0
    <3>1. absorbed + 1 \in 1..n
      BY <1>2, <1>6, <2>2
    <3>2. blocks[absorbed + 1] = OneShotLast(total)
      BY <1>1, <2>2 DEF SqueezeInv
    <3> QED BY <1>4, <1>5, <3>1, <3>2, Zenon
  <2>3. Squeezed = 0 \/ Squeezed > 0
    BY <1>2
  <2> QED BY <2>1, <2>2, <2>3, Zenon
<1>14. \A b \in (absorbed' + 2)..Len(blocks') : blocks'[b] = Empty
  <2>1. Squeezed > 0 => cells = Empty
    BY <1>1, Zenon DEF SqueezeInv
  <2> SUFFICES ASSUME NEW b \in (absorbed + 2)..(n + 1) PROVE blocks'[b] = Empty
    BY <1>4, <1>5
  <2>2. CASE b = n + 1
    <3>1. Squeezed > 0
      BY <1>2, <1>6, <2>2
    <3> QED BY <1>5, <2>1, <2>2, <3>1, Zenon
  <2>3. CASE b <= n
    <3>1. b \in (absorbed + 2)..n /\ b \in 1..n
      BY <1>2, <2>3
    <3>2. Squeezed > 0
      BY <1>2, <1>6, <3>1
    <3>3. blocks[b] = Empty
      BY <1>1, <3>1, <3>2, Zenon DEF SqueezeInv
    <3> QED BY <1>5, <3>1, <3>3, Zenon
  <2>4. b = n + 1 \/ b <= n
    BY <1>2
  <2> QED BY <2>2, <2>3, <2>4, Zenon
<1>15. /\ pos' <= R /\ Squeezed' \in Nat /\ Squeezed' > 0 /\ (left' > 0 => pos' = 0)
       /\ absorbed' = total' \div R
  BY <1>1, <1>2, <1>3, <1>4, <1>6, RateType DEF SqueezeInv
<1>16. SqueezeInv'
  <2>1. ~(Squeezed' = 0)
    BY <1>15
  <2> QED BY <1>9, <1>11, <1>12, <1>13, <1>14, <1>15, <1>4, <2>1, Zenon DEF SqueezeInv
<1> QED BY <1>1, <1>10, <1>16 DEF IInv

LEMMA SqueezeReturnStep == IInv /\ SqueezeReturn => IInv'
<1> SUFFICES ASSUME IInv, SqueezeReturn PROVE IInv'
  OBVIOUS
<1>1. SqueezeInv /\ Types /\ ~Absorbing'
  BY DEF IInv, SqueezeReturn, Absorbing
<1>2. Types'
  BY <1>1 DEF Types, SqueezeReturn
<1>3. SqueezeInv'
  BY <1>1 DEF SqueezeInv, SqueezeReturn, SqueezesAsOneShot, Squeezed
<1> QED BY <1>1, <1>2, <1>3 DEF IInv

LEMMA NextIInv == IInv /\ [Next]_vars => IInv'
<1> SUFFICES ASSUME IInv, [Next]_vars PROVE IInv'
  OBVIOUS
<1>1. CASE UNCHANGED vars
  BY <1>1 DEF vars, IInv, Types, Absorbing, AbsorbInv, SqueezeInv, Whole, Squeezed,
              SqueezesAsOneShot
<1> QED BY <1>1, AbsorbCallStep, AbsorbBlockStep, AbsorbRestStep, FinalizeStep,
           SqueezeCallStep, SqueezeBlockStep, SqueezeReturnStep DEF Next

LEMMA Invariance == Spec => []IInv
BY InitIInv, NextIInv, PTL DEF Spec

-----------------------------------------------------------------------------
\* Every byte of output is a byte of the rate.
THEOREM TypeCorrect == Spec => []TypeOK
<1>1. IInv => TypeOK
  BY DEF IInv, Types, TypeOK, Blocks, Bytes, Symbols
<1> QED BY <1>1, Invariance, PTL

\* keccak_inc_finalize always has a place for its domain byte.
THEOREM RoomForDomainByte == Spec => []PosBelowRate
<1>1. IInv => PosBelowRate
  BY DEF IInv, AbsorbInv, PosBelowRate
<1> QED BY <1>1, Invariance, PTL

\* However the input is cut into calls of keccak_inc_absorb, the permutation
\* sees the blocks that keccak_absorb would give it.
THEOREM AbsorbCorrect == Spec => []AbsorbsAsOneShot
<1>1. IInv => AbsorbsAsOneShot
  <2> SUFFICES ASSUME IInv PROVE AbsorbsAsOneShot
    OBVIOUS
  <2>1. CASE Absorbing
    BY <2>1 DEF IInv, AbsorbInv, AbsorbsAsOneShot
  <2>2. CASE ~Absorbing
    <3>1. SqueezeInv /\ Len(blocks) \in Nat /\ absorbed \in Nat
      BY <2>2, LenProperties DEF IInv, Types
    <3>2. Len(blocks) = absorbed <=> Squeezed = 0
      BY <3>1 DEF Squeezed
    <3>3. Len(blocks) > absorbed <=> Squeezed > 0
      BY <3>1 DEF Squeezed
    <3>4. \A b \in 1..Len(blocks) : b <= absorbed => b \in 1..absorbed
      BY <3>1
    <3> QED BY <2>2, <3>1, <3>2, <3>3, <3>4, Zenon DEF SqueezeInv, AbsorbsAsOneShot
  <2> QED BY <2>1, <2>2
<1> QED BY <1>1, Invariance, PTL

\* However the output is cut into calls of keccak_inc_squeeze, its bytes are
\* those of keccak_squeezeblocks, in order.
THEOREM SqueezeCorrect == Spec => []SqueezesAsOneShot
<1>1. IInv => SqueezesAsOneShot
  BY DEF IInv, AbsorbInv, SqueezeInv, SqueezesAsOneShot
<1> QED BY <1>1, Invariance, PTL

-----------------------------------------------------------------------------
(***************************************************************************)
(* The refinement of Xof: the bytes read, as states permuted and places in *)
(* them, are the one-shot stream in every state of the invariant.          *)
(***************************************************************************)
StreamInv ==
  /\ Absorbing => BytesRead = << >>
  /\ Len(BytesRead) = Len(out) /\ Len(out) \in Nat
  /\ \A n \in 1..Len(out) : BytesRead[n] = StreamByte(total, n)

LEMMA BytesAreStream ==
  ASSUME IInv
  PROVE  StreamInv
<1>1. Types /\ Len(blocks) \in Nat /\ Len(out) \in Nat
  BY LenProperties DEF IInv, Types
<1>2. Absorbing => BytesRead = << >>
  BY DEF IInv, AbsorbInv, BytesRead
<1>3. Len(BytesRead) = Len(out)
  BY <1>1 DEF BytesRead
<1>4. ASSUME NEW n \in 1..Len(out)
      PROVE  BytesRead[n] = StreamByte(total, n)
  <2>1. SqueezeInv
    BY <1>1, <1>4 DEF IInv, AbsorbInv
  <2> DEFINE p == out[n].perm
             whole == total \div R
  <2>2. out[n] = OneShotByte(total, n) /\ BytesRead[n] = <<SubSeq(blocks, 1, p), out[n].lane>>
    BY <1>4, <2>1 DEF SqueezeInv, SqueezesAsOneShot, BytesRead
  <2>3. absorbed = whole /\ whole \in Nat
    BY <1>1, <2>1 DEF SqueezeInv, Types
  <2>4. p \in Nat /\ p <= Len(blocks)
    <3> DEFINE k == (n - 1) \div R
    <3>1. p = whole + 1 + k
      BY <2>2 DEF OneShotByte
    <3>2. k \in Nat /\ (k * R) + ((n - 1) % R) = n - 1 /\ (n - 1) % R \in 0..(R - 1)
      BY RateType, SMT
    <3>3. Len(out) = (Squeezed * R) - pos /\ Squeezed \in Nat /\ pos \in Nat
      BY <1>1, <2>1 DEF SqueezeInv, Types
    <3> HIDE DEF k
    <3>4. k < Squeezed
      <4> SUFFICES ASSUME Squeezed <= k PROVE FALSE
        BY <3>2, <3>3
      <4> DEFINE sR == Squeezed * R
                 kR == k * R
      <4>1. sR <= kR /\ sR \in Nat /\ kR \in Nat
        BY <3>2, <3>3, RateType, SMT
      <4>2. Len(out) = sR - pos /\ kR + ((n - 1) % R) = n - 1
        BY <3>2, <3>3
      <4> DEFINE y == (n - 1) % R
      <4>3. y \in 0..(R - 1) /\ kR + y = n - 1
        BY <3>2
      <4> HIDE DEF sR, kR, y
      <4> QED BY <1>1, <3>3, <4>1, <4>2, <4>3, RateType
    <3>5. Len(blocks) = absorbed + Squeezed
      BY <1>1, <2>3 DEF Squeezed
    <3> HIDE DEF whole
    <3> QED BY <2>3, <3>1, <3>2, <3>3, <3>4, <3>5
  <2>5. SubSeq(blocks, 1, p) = OneShotPermuted(total, p)
    <3> DEFINE s == SubSeq(blocks, 1, p)
               t == OneShotPermuted(total, p)
    <3>1. s = [b \in 1..p |-> blocks[b]]
      BY <1>1, <2>4 DEF Types
    <3>2. ASSUME NEW b \in 1..p
          PROVE  blocks[b] = IF b <= whole THEN OneShotBlock(b)
                             ELSE IF b = whole + 1 THEN OneShotLast(total) ELSE Empty
      <4>0. b \in Nat /\ b >= 1 /\ b <= Len(blocks)
        BY <2>4
      <4> HIDE DEF whole
      <4>1. CASE b <= whole
        <5>1. b \in 1..absorbed
          BY <2>3, <4>0, <4>1
        <5> QED BY <2>1, <4>1, <5>1, Zenon DEF SqueezeInv
      <4>2. CASE b = whole + 1
        <5>1. Squeezed > 0 /\ ~(b <= whole) /\ b = absorbed + 1
          BY <1>1, <2>3, <4>0, <4>2 DEF Squeezed
        <5> QED BY <2>1, <4>2, <5>1, Zenon DEF SqueezeInv
      <4>3. CASE b > whole + 1
        <5>1. /\ Squeezed > 0 /\ ~(b <= whole) /\ b # whole + 1
              /\ b \in (absorbed + 2)..Len(blocks)
          BY <1>1, <2>3, <4>0, <4>3 DEF Squeezed
        <5> QED BY <2>1, <5>1, Zenon DEF SqueezeInv
      <4>4. b <= whole \/ b = whole + 1 \/ b > whole + 1
        BY <2>3, <4>0
      <4> QED BY <4>1, <4>2, <4>3, <4>4, Zenon
    <3>3. t = [b \in 1..p |-> IF b <= whole THEN OneShotBlock(b)
                              ELSE IF b = whole + 1 THEN OneShotLast(total) ELSE Empty]
      BY Zenon DEF OneShotPermuted
    <3> QED BY <3>1, <3>2, <3>3, Zenon
  <2>6. StreamByte(total, n) = <<OneShotPermuted(total, p), out[n].lane>>
    BY <2>2, Zenon DEF StreamByte
  <2> QED BY <2>2, <2>5, <2>6, Zenon
<1> QED BY <1>1, <1>2, <1>3, <1>4 DEF StreamInv

\* However the calls cut the input and the output, the bytes squeezed are
\* the one-shot stream of the whole input.
THEOREM Refinement == Spec => ImplementsXof
<1>1. Init => X!XofInit
  BY DEF Init, X!XofInit, Absorbing, BytesRead
<1>2. IInv /\ StreamInv /\ StreamInv' /\ [Next]_vars => [X!XofNext]_(X!xvars)
  <2> SUFFICES ASSUME IInv, StreamInv, StreamInv', [Next]_vars PROVE [X!XofNext]_(X!xvars)
    OBVIOUS
  <2>1. CASE UNCHANGED vars
    BY <2>1 DEF vars, X!xvars, Absorbing, BytesRead
  <2>2. CASE AbsorbCall \/ AbsorbBlock \/ AbsorbRest
    <3>1. Absorbing /\ Absorbing' /\ BytesRead = << >> /\ BytesRead' = << >>
      BY <2>2 DEF StreamInv, AbsorbCall, AbsorbBlock, AbsorbRest, Absorbing, BytesRead, IInv, AbsorbInv
    <3>2. total' >= total
      BY <2>2, RateType DEF AbsorbCall, AbsorbBlock, AbsorbRest, IInv, Types, AbsorbInv, Absorbing
    <3> QED BY <3>1, <3>2 DEF X!XofNext, X!Absorb
  <2>3. CASE Finalize
    <3>1. Absorbing /\ ~Absorbing' /\ total' = total /\ out = << >> /\ out' = out
      BY <2>3 DEF Finalize, Absorbing, IInv, AbsorbInv
    <3>2. BytesRead = << >> /\ BytesRead' = << >>
      BY <3>1 DEF BytesRead
    <3> QED BY <3>1, <3>2 DEF X!XofNext, X!Finalize
  <2>4. CASE SqueezeCall \/ SqueezeBlock \/ SqueezeReturn
    <3>1. ~Absorbing /\ ~Absorbing' /\ total' = total
      BY <2>4 DEF SqueezeCall, SqueezeBlock, SqueezeReturn, Absorbing
    <3>2. Len(out') >= Len(out)
      BY <2>4, ConcatProperties DEF SqueezeCall, SqueezeBlock, SqueezeReturn
    <3>3. /\ Len(BytesRead') >= Len(BytesRead)
          /\ \A n \in 1..Len(BytesRead') :
               BytesRead'[n] = IF n <= Len(BytesRead) THEN BytesRead[n]
                               ELSE StreamByte(total, n)
      <4>1. \A n \in 1..Len(out') : BytesRead'[n] = StreamByte(total, n)
        BY <3>1, Zenon DEF StreamInv
      <4>2. \A n \in 1..Len(out) : BytesRead[n] = StreamByte(total, n)
        BY Zenon DEF StreamInv
      <4>3. Len(BytesRead) = Len(out) /\ Len(BytesRead') = Len(out') /\ Len(out) \in Nat
        BY Zenon DEF StreamInv
      <4>4. \A n \in 1..Len(out') : n <= Len(out) => n \in 1..Len(out)
        BY <4>3
      <4> QED BY <3>2, <4>1, <4>2, <4>3, <4>4, Zenon
    <3> QED BY <3>1, <3>2, <3>3 DEF X!XofNext, X!Squeeze
  <2> QED BY <2>1, <2>2, <2>3, <2>4 DEF Next
<1> QED BY <1>1, <1>2, BytesAreStream, Invariance, PTL DEF Spec, ImplementsXof, X!XofSpec

-----------------------------------------------------------------------------
(***************************************************************************)
(* The tables of KeccakF: its places, rotations and round constants are     *)
(* those that FIPS 202 computes with a walk over the lanes and a register   *)
(* of eight bits.  Each recursion is unfolded a step at a time, once what   *)
(* defines it is known to exist.                                           *)
(***************************************************************************)
\* Induction, for a property given as a set.
LEMMA NatInduct ==
  ASSUME NEW T, 0 \in T, \A n \in Nat : n \in T => n + 1 \in T
  PROVE  Nat \subseteq T
<1> DEFINE U == Nat \ T
<1>1. SUFFICES ASSUME U # {} PROVE FALSE
  OBVIOUS
<1> DEFINE P == OpToRel(<, Nat)
<1>2. \A x, y \in Nat : <<y, x>> \in P <=> y < x
  BY DEF OpToRel
<1>3. IsWellFoundedOn(P, Nat)
  BY NatLessThanWellFounded, ZenonT(60)
<1> HIDE DEF P
<1>4. PICK x \in U : \A y \in U : ~ (<<y, x>> \in P)
  BY <1>1, <1>3, WFMin
<1>5. \A y \in U : ~ (y < x)
  BY <1>2, <1>4, Zenon
<1>6. x \in Nat /\ x # 0 /\ x - 1 \in Nat /\ (x - 1) + 1 = x /\ x - 1 < x
  BY <1>4
<1>7. x - 1 \in T
  BY <1>5, <1>6
<1> QED BY <1>4, <1>6, <1>7

\* The values of a recursion from a by the function F.
Steps(g, k, a, F) == [t \in 0..k |-> IF t = 0 THEN a ELSE F[g[t - 1]]]

\* There are such values, for every length.
LEMMA StepsExist ==
  ASSUME NEW k \in Nat, NEW a, NEW F
  PROVE  \E g : g = Steps(g, k, a, F)
<1> DEFINE T == {n \in Nat : \E g : g = Steps(g, n, a, F)}
<1>1. 0 \in T
  <2> DEFINE g == [t \in 0..0 |-> a]
  <2>1. \A t \in 0..0 : g[t] = IF t = 0 THEN a ELSE F[g[t - 1]]
    OBVIOUS
  <2>2. g = Steps(g, 0, a, F)
    BY <2>1 DEF Steps
  <2> QED BY <2>2
<1>2. ASSUME NEW n \in Nat, n \in T PROVE n + 1 \in T
  <2>1. PICK g : g = Steps(g, n, a, F)
    BY <1>2
  <2> DEFINE h == [t \in 0..(n + 1) |-> IF t <= n THEN g[t] ELSE F[g[n]]]
  <2>2. ASSUME NEW t \in 0..(n + 1) PROVE h[t] = IF t = 0 THEN a ELSE F[h[t - 1]]
    <3>1. \A s \in 0..n : g[s] = IF s = 0 THEN a ELSE F[g[s - 1]]
      BY <2>1, Zenon DEF Steps
    <3>2. CASE t = 0
      <4>1. h[t] = g[0] /\ 0 \in 0..n
        BY <3>2
      <4> QED BY <3>1, <3>2, <4>1
    <3>3. CASE t # 0 /\ t <= n
      <4>1. h[t] = g[t] /\ t \in 0..n /\ h[t - 1] = g[t - 1]
        BY <3>3
      <4> QED BY <3>1, <3>3, <4>1
    <3>4. CASE t # 0 /\ ~(t <= n)
      <4>1. h[t] = F[g[n]] /\ t - 1 = n /\ h[n] = g[n]
        BY <3>4
      <4> QED BY <3>4, <4>1
    <3> QED BY <3>2, <3>3, <3>4
  <2>3. h = [t \in 0..(n + 1) |-> h[t]]
    OBVIOUS
  <2> HIDE DEF h
  <2>4. [t \in 0..(n + 1) |-> h[t]] = [t \in 0..(n + 1) |-> IF t = 0 THEN a ELSE F[h[t - 1]]]
    BY <2>2, Zenon
  <2>5. h = Steps(h, n + 1, a, F)
    BY <2>3, <2>4, Zenon DEF Steps
  <2> QED BY <2>5
<1> HIDE DEF T
<1>3. Nat \subseteq T
  BY <1>1, <1>2, NatInduct
<1> QED BY <1>3 DEF T

AreSteps(p, k, a, F) == p[0] = a /\ \A t \in 0..(k - 1) : p[t + 1] = F[p[t]]

\* What the recursive definitions say of their values.
LEMMA StepsAre ==
  ASSUME NEW k \in Nat, NEW a, NEW F, NEW p, p = CHOOSE g : g = Steps(g, k, a, F)
  PROVE  AreSteps(p, k, a, F)
<1>1. p = Steps(p, k, a, F)
  BY StepsExist, Zenon
<1>2. \A t \in 0..k : p[t] = IF t = 0 THEN a ELSE F[p[t - 1]]
  BY <1>1, ZenonT(60) DEF Steps
<1>3. p[0] = a
  BY <1>2
<1>4. ASSUME NEW t \in 0..(k - 1) PROVE p[t + 1] = F[p[t]]
  <2>1. t + 1 \in 0..k /\ t + 1 # 0 /\ (t + 1) - 1 = t
    OBVIOUS
  <2> QED BY <1>2, <2>1
<1> QED BY <1>3, <1>4 DEF AreSteps

LEMMA WalkSteps ==
  /\ Walk[0] = <<1, 0>>
  /\ \A t \in 0..22, x \in 0..4, y \in 0..4 :
       Walk[t] = <<x, y>> => Walk[t + 1] = <<y, (2 * x + 3 * y) % 5>>
<1> DEFINE k == 23
<1>1. Walk = CHOOSE g : g = Steps(g, k, <<1, 0>>, NextPlace)
  BY Zenon DEF Walk, Steps
<1>0. k \in Nat /\ k - 1 = 22
  OBVIOUS
<1> HIDE DEF k
<1>2. AreSteps(Walk, k, <<1, 0>>, NextPlace)
  BY <1>0, <1>1, StepsAre, Zenon
<1>3. \A x \in 0..4, y \in 0..4 : NextPlace[<<x, y>>] = <<y, (2 * x + 3 * y) % 5>>
  BY DEF NextPlace
<1> QED BY <1>0, <1>2, <1>3, ZenonT(60) DEF AreSteps

LEMMA RegisterSteps ==
  /\ Register[0] = {0}
  /\ \A t \in 0..253 : Register[t] \in SUBSET (0..7) => Register[t + 1] = NextRegister[Register[t]]
<1> DEFINE k == 254
<1>1. Register = CHOOSE g : g = Steps(g, k, {0}, NextRegister)
  BY Zenon DEF Register, Steps
<1>0. k \in Nat /\ k - 1 = 253
  OBVIOUS
<1> HIDE DEF k
<1>2. AreSteps(Register, k, {0}, NextRegister)
  BY <1>0, <1>1, StepsAre, Zenon
<1> QED BY <1>0, <1>2 DEF AreSteps

Powers(g) == [j \in 0..6 |-> IF j = 0 THEN 1 ELSE 2 * g[j - 1]]

LEMMA TwoToIs ==
  /\ TwoTo[0] = 1 /\ TwoTo[1] = 2 /\ TwoTo[2] = 4 /\ TwoTo[3] = 8
  /\ TwoTo[4] = 16 /\ TwoTo[5] = 32 /\ TwoTo[6] = 64
<1> DEFINE w == [j \in 0..6 |-> IF j = 0 THEN 1 ELSE IF j = 1 THEN 2 ELSE IF j = 2 THEN 4
                           ELSE IF j = 3 THEN 8 ELSE IF j = 4 THEN 16 ELSE IF j = 5 THEN 32 ELSE 64]
<1>1. \A j \in 0..6 : w[j] = IF j = 0 THEN 1 ELSE 2 * w[j - 1]
  OBVIOUS
<1>2. w = [j \in 0..6 |-> w[j]]
  OBVIOUS
<1> HIDE DEF w
<1>3. w = Powers(w)
  BY <1>1, <1>2 DEF Powers
<1>4. TwoTo = CHOOSE g : g = Powers(g)
  BY Zenon DEF TwoTo, Powers
<1>5. TwoTo = Powers(TwoTo)
  BY <1>3, <1>4, Zenon
<1>6. \A j \in 0..6 : TwoTo[j] = IF j = 0 THEN 1 ELSE 2 * TwoTo[j - 1]
  BY <1>5, Zenon DEF Powers
<1> QED BY <1>6
\* The places of the walk.
Walked(t, x, y) == Walk[t] = <<x, y>>

LEMMA WalkIs ==
  /\ Walked(0, 1, 0)
  /\ Walked(1, 0, 2)
  /\ Walked(2, 2, 1)
  /\ Walked(3, 1, 2)
  /\ Walked(4, 2, 3)
  /\ Walked(5, 3, 3)
  /\ Walked(6, 3, 0)
  /\ Walked(7, 0, 1)
  /\ Walked(8, 1, 3)
  /\ Walked(9, 3, 1)
  /\ Walked(10, 1, 4)
  /\ Walked(11, 4, 4)
  /\ Walked(12, 4, 0)
  /\ Walked(13, 0, 3)
  /\ Walked(14, 3, 4)
  /\ Walked(15, 4, 3)
  /\ Walked(16, 3, 2)
  /\ Walked(17, 2, 2)
  /\ Walked(18, 2, 0)
  /\ Walked(19, 0, 4)
  /\ Walked(20, 4, 2)
  /\ Walked(21, 2, 4)
  /\ Walked(22, 4, 1)
  /\ Walked(23, 1, 1)
<1>0. Walked(0, 1, 0)
  BY WalkSteps DEF Walked
<1>s. \A t \in 0..22, x \in 0..4, y \in 0..4 : Walked(t, x, y) => Walked(t + 1, y, (2 * x + 3 * y) % 5)
  BY WalkSteps, Zenon DEF Walked
<1>1. Walked(1, 0, 2)
  BY <1>0, <1>s
<1>2. Walked(2, 2, 1)
  BY <1>1, <1>s
<1>3. Walked(3, 1, 2)
  BY <1>2, <1>s
<1>4. Walked(4, 2, 3)
  BY <1>3, <1>s
<1>5. Walked(5, 3, 3)
  BY <1>4, <1>s
<1>6. Walked(6, 3, 0)
  BY <1>5, <1>s
<1>7. Walked(7, 0, 1)
  BY <1>6, <1>s
<1>8. Walked(8, 1, 3)
  BY <1>7, <1>s
<1>9. Walked(9, 3, 1)
  BY <1>8, <1>s
<1>10. Walked(10, 1, 4)
  BY <1>9, <1>s
<1>11. Walked(11, 4, 4)
  BY <1>10, <1>s
<1>12. Walked(12, 4, 0)
  BY <1>11, <1>s
<1>13. Walked(13, 0, 3)
  BY <1>12, <1>s
<1>14. Walked(14, 3, 4)
  BY <1>13, <1>s
<1>15. Walked(15, 4, 3)
  BY <1>14, <1>s
<1>16. Walked(16, 3, 2)
  BY <1>15, <1>s
<1>17. Walked(17, 2, 2)
  BY <1>16, <1>s
<1>18. Walked(18, 2, 0)
  BY <1>17, <1>s
<1>19. Walked(19, 0, 4)
  BY <1>18, <1>s
<1>20. Walked(20, 4, 2)
  BY <1>19, <1>s
<1>21. Walked(21, 2, 4)
  BY <1>20, <1>s
<1>22. Walked(22, 4, 1)
  BY <1>21, <1>s
<1>23. Walked(23, 1, 1)
  BY <1>22, <1>s
<1> QED BY <1>0, <1>1, <1>2, <1>3, <1>4, <1>5, <1>6, <1>7, <1>8, <1>9, <1>10, <1>11, <1>12, <1>13, <1>14, <1>15, <1>16, <1>17, <1>18, <1>19, <1>20, <1>21, <1>22, <1>23, Zenon

\* What rho moves a lane by.
Rotation(x, y, n) == RhoOffset(x, y) \in Nat /\ RhoOffset(x, y) % 64 = n

LEMMA RotationIs ==
  ASSUME NEW t \in 0..23, NEW x \in 0..4, NEW y \in 0..4, Walked(t, x, y), <<x, y>> # <<0, 0>>,
         \A n \in 0..23 : Walked(n, x, y) => n = t
  PROVE  Rotation(x, y, (((t + 1) * (t + 2)) \div 2) % 64)
<1>1. (CHOOSE n \in 0..23 : Walk[n] = <<x, y>>) = t
  BY DEF Walked
<1>2. (t + 1) * (t + 2) \in Nat
  OBVIOUS
<1>3. ((t + 1) * (t + 2)) \div 2 \in Nat
  BY <1>2
<1> QED BY <1>1, <1>3 DEF Rotation, RhoOffset

LEMMA Rotations ==
  /\ Rotation(0, 0, 0)
  /\ Rotation(1, 0, 1)
  /\ Rotation(0, 2, 3)
  /\ Rotation(2, 1, 6)
  /\ Rotation(1, 2, 10)
  /\ Rotation(2, 3, 15)
  /\ Rotation(3, 3, 21)
  /\ Rotation(3, 0, 28)
  /\ Rotation(0, 1, 36)
  /\ Rotation(1, 3, 45)
  /\ Rotation(3, 1, 55)
  /\ Rotation(1, 4, 2)
  /\ Rotation(4, 4, 14)
  /\ Rotation(4, 0, 27)
  /\ Rotation(0, 3, 41)
  /\ Rotation(3, 4, 56)
  /\ Rotation(4, 3, 8)
  /\ Rotation(3, 2, 25)
  /\ Rotation(2, 2, 43)
  /\ Rotation(2, 0, 62)
  /\ Rotation(0, 4, 18)
  /\ Rotation(4, 2, 39)
  /\ Rotation(2, 4, 61)
  /\ Rotation(4, 1, 20)
  /\ Rotation(1, 1, 44)
<1>w. \A n \in 0..23 : n \in {0, 1, 2, 3, 4, 5, 6, 7, 8, 9, 10, 11, 12, 13, 14, 15, 16, 17, 18, 19, 20, 21, 22, 23}
  OBVIOUS
<1>z. Rotation(0, 0, 0)
  BY DEF Rotation, RhoOffset
<1>0. Rotation(1, 0, 1)
  <2>1. Walked(0, 1, 0) /\ \A n \in 0..23 : Walked(n, 1, 0) => n = 0
    BY WalkIs DEF Walked
  <2> QED BY <2>1, RotationIs
<1>1. Rotation(0, 2, 3)
  <2>1. Walked(1, 0, 2) /\ \A n \in 0..23 : Walked(n, 0, 2) => n = 1
    BY WalkIs DEF Walked
  <2> QED BY <2>1, RotationIs
<1>2. Rotation(2, 1, 6)
  <2>1. Walked(2, 2, 1) /\ \A n \in 0..23 : Walked(n, 2, 1) => n = 2
    BY WalkIs DEF Walked
  <2> QED BY <2>1, RotationIs
<1>3. Rotation(1, 2, 10)
  <2>1. Walked(3, 1, 2) /\ \A n \in 0..23 : Walked(n, 1, 2) => n = 3
    BY WalkIs DEF Walked
  <2> QED BY <2>1, RotationIs
<1>4. Rotation(2, 3, 15)
  <2>1. Walked(4, 2, 3) /\ \A n \in 0..23 : Walked(n, 2, 3) => n = 4
    BY WalkIs DEF Walked
  <2> QED BY <2>1, RotationIs
<1>5. Rotation(3, 3, 21)
  <2>1. Walked(5, 3, 3) /\ \A n \in 0..23 : Walked(n, 3, 3) => n = 5
    BY WalkIs DEF Walked
  <2> QED BY <2>1, RotationIs
<1>6. Rotation(3, 0, 28)
  <2>1. Walked(6, 3, 0) /\ \A n \in 0..23 : Walked(n, 3, 0) => n = 6
    BY WalkIs DEF Walked
  <2> QED BY <2>1, RotationIs
<1>7. Rotation(0, 1, 36)
  <2>1. Walked(7, 0, 1) /\ \A n \in 0..23 : Walked(n, 0, 1) => n = 7
    BY WalkIs DEF Walked
  <2> QED BY <2>1, RotationIs
<1>8. Rotation(1, 3, 45)
  <2>1. Walked(8, 1, 3) /\ \A n \in 0..23 : Walked(n, 1, 3) => n = 8
    BY WalkIs DEF Walked
  <2> QED BY <2>1, RotationIs
<1>9. Rotation(3, 1, 55)
  <2>1. Walked(9, 3, 1) /\ \A n \in 0..23 : Walked(n, 3, 1) => n = 9
    BY WalkIs DEF Walked
  <2> QED BY <2>1, RotationIs
<1>10. Rotation(1, 4, 2)
  <2>1. Walked(10, 1, 4) /\ \A n \in 0..23 : Walked(n, 1, 4) => n = 10
    BY WalkIs DEF Walked
  <2> QED BY <2>1, RotationIs
<1>11. Rotation(4, 4, 14)
  <2>1. Walked(11, 4, 4) /\ \A n \in 0..23 : Walked(n, 4, 4) => n = 11
    BY WalkIs DEF Walked
  <2> QED BY <2>1, RotationIs
<1>12. Rotation(4, 0, 27)
  <2>1. Walked(12, 4, 0) /\ \A n \in 0..23 : Walked(n, 4, 0) => n = 12
    BY WalkIs DEF Walked
  <2> QED BY <2>1, RotationIs
<1>13. Rotation(0, 3, 41)
  <2>1. Walked(13, 0, 3) /\ \A n \in 0..23 : Walked(n, 0, 3) => n = 13
    BY WalkIs DEF Walked
  <2> QED BY <2>1, RotationIs
<1>14. Rotation(3, 4, 56)
  <2>1. Walked(14, 3, 4) /\ \A n \in 0..23 : Walked(n, 3, 4) => n = 14
    BY WalkIs DEF Walked
  <2> QED BY <2>1, RotationIs
<1>15. Rotation(4, 3, 8)
  <2>1. Walked(15, 4, 3) /\ \A n \in 0..23 : Walked(n, 4, 3) => n = 15
    BY WalkIs DEF Walked
  <2> QED BY <2>1, RotationIs
<1>16. Rotation(3, 2, 25)
  <2>1. Walked(16, 3, 2) /\ \A n \in 0..23 : Walked(n, 3, 2) => n = 16
    BY WalkIs DEF Walked
  <2> QED BY <2>1, RotationIs
<1>17. Rotation(2, 2, 43)
  <2>1. Walked(17, 2, 2) /\ \A n \in 0..23 : Walked(n, 2, 2) => n = 17
    BY WalkIs DEF Walked
  <2> QED BY <2>1, RotationIs
<1>18. Rotation(2, 0, 62)
  <2>1. Walked(18, 2, 0) /\ \A n \in 0..23 : Walked(n, 2, 0) => n = 18
    BY WalkIs DEF Walked
  <2> QED BY <2>1, RotationIs
<1>19. Rotation(0, 4, 18)
  <2>1. Walked(19, 0, 4) /\ \A n \in 0..23 : Walked(n, 0, 4) => n = 19
    BY WalkIs DEF Walked
  <2> QED BY <2>1, RotationIs
<1>20. Rotation(4, 2, 39)
  <2>1. Walked(20, 4, 2) /\ \A n \in 0..23 : Walked(n, 4, 2) => n = 20
    BY WalkIs DEF Walked
  <2> QED BY <2>1, RotationIs
<1>21. Rotation(2, 4, 61)
  <2>1. Walked(21, 2, 4) /\ \A n \in 0..23 : Walked(n, 2, 4) => n = 21
    BY WalkIs DEF Walked
  <2> QED BY <2>1, RotationIs
<1>22. Rotation(4, 1, 20)
  <2>1. Walked(22, 4, 1) /\ \A n \in 0..23 : Walked(n, 4, 1) => n = 22
    BY WalkIs DEF Walked
  <2> QED BY <2>1, RotationIs
<1>23. Rotation(1, 1, 44)
  <2>1. Walked(23, 1, 1) /\ \A n \in 0..23 : Walked(n, 1, 1) => n = 23
    BY WalkIs DEF Walked
  <2> QED BY <2>1, RotationIs
<1> QED BY <1>z, <1>0, <1>1, <1>2, <1>3, <1>4, <1>5, <1>6, <1>7, <1>8, <1>9, <1>10, <1>11, <1>12, <1>13, <1>14, <1>15, <1>16, <1>17, <1>18, <1>19, <1>20, <1>21, <1>22, <1>23, Zenon

\* The place and the rotation that a block has for a lane are those of pi and rho.
GatherIs(r, x) ==
  \E n \in 0..63 : /\ Gather[r + 1][x + 1] = <<((x + 3 * r) % 5) + 5 * x, n>>
                   /\ Rotation((x + 3 * r) % 5, x, n)

LEMMA GathersAll == \A r \in 0..4, x \in 0..4 : GatherIs(r, x)
<1>1. GatherIs(0, 0)
  <2>1. Gather[0 + 1][0 + 1] = <<0, 0>> /\ (0 + 3 * 0) % 5 = 0
    BY DEF Gather
  <2> QED BY <2>1, Rotations DEF GatherIs
<1>2. GatherIs(0, 1)
  <2>1. Gather[0 + 1][1 + 1] = <<6, 44>> /\ (1 + 3 * 0) % 5 = 1
    BY DEF Gather
  <2> QED BY <2>1, Rotations DEF GatherIs
<1>3. GatherIs(0, 2)
  <2>1. Gather[0 + 1][2 + 1] = <<12, 43>> /\ (2 + 3 * 0) % 5 = 2
    BY DEF Gather
  <2> QED BY <2>1, Rotations DEF GatherIs
<1>4. GatherIs(0, 3)
  <2>1. Gather[0 + 1][3 + 1] = <<18, 21>> /\ (3 + 3 * 0) % 5 = 3
    BY DEF Gather
  <2> QED BY <2>1, Rotations DEF GatherIs
<1>5. GatherIs(0, 4)
  <2>1. Gather[0 + 1][4 + 1] = <<24, 14>> /\ (4 + 3 * 0) % 5 = 4
    BY DEF Gather
  <2> QED BY <2>1, Rotations DEF GatherIs
<1>6. GatherIs(1, 0)
  <2>1. Gather[1 + 1][0 + 1] = <<3, 28>> /\ (0 + 3 * 1) % 5 = 3
    BY DEF Gather
  <2> QED BY <2>1, Rotations DEF GatherIs
<1>7. GatherIs(1, 1)
  <2>1. Gather[1 + 1][1 + 1] = <<9, 20>> /\ (1 + 3 * 1) % 5 = 4
    BY DEF Gather
  <2> QED BY <2>1, Rotations DEF GatherIs
<1>8. GatherIs(1, 2)
  <2>1. Gather[1 + 1][2 + 1] = <<10, 3>> /\ (2 + 3 * 1) % 5 = 0
    BY DEF Gather
  <2> QED BY <2>1, Rotations DEF GatherIs
<1>9. GatherIs(1, 3)
  <2>1. Gather[1 + 1][3 + 1] = <<16, 45>> /\ (3 + 3 * 1) % 5 = 1
    BY DEF Gather
  <2> QED BY <2>1, Rotations DEF GatherIs
<1>10. GatherIs(1, 4)
  <2>1. Gather[1 + 1][4 + 1] = <<22, 61>> /\ (4 + 3 * 1) % 5 = 2
    BY DEF Gather
  <2> QED BY <2>1, Rotations DEF GatherIs
<1>11. GatherIs(2, 0)
  <2>1. Gather[2 + 1][0 + 1] = <<1, 1>> /\ (0 + 3 * 2) % 5 = 1
    BY DEF Gather
  <2> QED BY <2>1, Rotations DEF GatherIs
<1>12. GatherIs(2, 1)
  <2>1. Gather[2 + 1][1 + 1] = <<7, 6>> /\ (1 + 3 * 2) % 5 = 2
    BY DEF Gather
  <2> QED BY <2>1, Rotations DEF GatherIs
<1>13. GatherIs(2, 2)
  <2>1. Gather[2 + 1][2 + 1] = <<13, 25>> /\ (2 + 3 * 2) % 5 = 3
    BY DEF Gather
  <2> QED BY <2>1, Rotations DEF GatherIs
<1>14. GatherIs(2, 3)
  <2>1. Gather[2 + 1][3 + 1] = <<19, 8>> /\ (3 + 3 * 2) % 5 = 4
    BY DEF Gather
  <2> QED BY <2>1, Rotations DEF GatherIs
<1>15. GatherIs(2, 4)
  <2>1. Gather[2 + 1][4 + 1] = <<20, 18>> /\ (4 + 3 * 2) % 5 = 0
    BY DEF Gather
  <2> QED BY <2>1, Rotations DEF GatherIs
<1>16. GatherIs(3, 0)
  <2>1. Gather[3 + 1][0 + 1] = <<4, 27>> /\ (0 + 3 * 3) % 5 = 4
    BY DEF Gather
  <2> QED BY <2>1, Rotations DEF GatherIs
<1>17. GatherIs(3, 1)
  <2>1. Gather[3 + 1][1 + 1] = <<5, 36>> /\ (1 + 3 * 3) % 5 = 0
    BY DEF Gather
  <2> QED BY <2>1, Rotations DEF GatherIs
<1>18. GatherIs(3, 2)
  <2>1. Gather[3 + 1][2 + 1] = <<11, 10>> /\ (2 + 3 * 3) % 5 = 1
    BY DEF Gather
  <2> QED BY <2>1, Rotations DEF GatherIs
<1>19. GatherIs(3, 3)
  <2>1. Gather[3 + 1][3 + 1] = <<17, 15>> /\ (3 + 3 * 3) % 5 = 2
    BY DEF Gather
  <2> QED BY <2>1, Rotations DEF GatherIs
<1>20. GatherIs(3, 4)
  <2>1. Gather[3 + 1][4 + 1] = <<23, 56>> /\ (4 + 3 * 3) % 5 = 3
    BY DEF Gather
  <2> QED BY <2>1, Rotations DEF GatherIs
<1>21. GatherIs(4, 0)
  <2>1. Gather[4 + 1][0 + 1] = <<2, 62>> /\ (0 + 3 * 4) % 5 = 2
    BY DEF Gather
  <2> QED BY <2>1, Rotations DEF GatherIs
<1>22. GatherIs(4, 1)
  <2>1. Gather[4 + 1][1 + 1] = <<8, 55>> /\ (1 + 3 * 4) % 5 = 3
    BY DEF Gather
  <2> QED BY <2>1, Rotations DEF GatherIs
<1>23. GatherIs(4, 2)
  <2>1. Gather[4 + 1][2 + 1] = <<14, 39>> /\ (2 + 3 * 4) % 5 = 4
    BY DEF Gather
  <2> QED BY <2>1, Rotations DEF GatherIs
<1>24. GatherIs(4, 3)
  <2>1. Gather[4 + 1][3 + 1] = <<15, 41>> /\ (3 + 3 * 4) % 5 = 0
    BY DEF Gather
  <2> QED BY <2>1, Rotations DEF GatherIs
<1>25. GatherIs(4, 4)
  <2>1. Gather[4 + 1][4 + 1] = <<21, 2>> /\ (4 + 3 * 4) % 5 = 1
    BY DEF Gather
  <2> QED BY <2>1, Rotations DEF GatherIs
<1> QED BY <1>1, <1>2, <1>3, <1>4, <1>5, <1>6, <1>7, <1>8, <1>9, <1>10, <1>11, <1>12, <1>13, <1>14, <1>15, <1>16, <1>17, <1>18, <1>19, <1>20, <1>21, <1>22, <1>23, <1>24, <1>25

LEMMA Offsets == \A x \in 0..4, y \in 0..4 : RhoOffset(x, y) \in Nat
BY Rotations DEF Rotation

\* One step of the register.
Turns(t) ==
  /\ Register[t + 1] \in SUBSET (0..7)
  /\ 0 \in Register[t + 1] <=> 7 \in Register[t]
  /\ 1 \in Register[t + 1] <=> 0 \in Register[t]
  /\ 2 \in Register[t + 1] <=> 1 \in Register[t]
  /\ 3 \in Register[t + 1] <=> 2 \in Register[t]
  /\ 4 \in Register[t + 1] <=> ((3 \in Register[t]) # (7 \in Register[t]))
  /\ 5 \in Register[t + 1] <=> ((4 \in Register[t]) # (7 \in Register[t]))
  /\ 6 \in Register[t + 1] <=> ((5 \in Register[t]) # (7 \in Register[t]))
  /\ 7 \in Register[t + 1] <=> 6 \in Register[t]

LEMMA RegisterTurns ==
  ASSUME NEW t \in 0..253, Register[t] \in SUBSET (0..7)
  PROVE  Turns(t)
<1> DEFINE S == Register[t]
           next == Register[t + 1]
           up == {b + 1 : b \in S}
<1>1. S \in SUBSET (0..7)
  BY Zenon
<1>2. next = IF 8 \in up THEN SymDiff(up \ {8}, {0, 4, 5, 6}) ELSE up
  BY <1>1, RegisterSteps, ZenonT(60) DEF NextRegister
<1>3. /\ 0 \notin up /\ up \in SUBSET (0..8)
      /\ \A b \in 0..7 : b + 1 \in up <=> b \in S
  BY <1>1
<1>4. /\ (1 \in up <=> 0 \in S) /\ (2 \in up <=> 1 \in S) /\ (3 \in up <=> 2 \in S) /\ (4 \in up <=> 3 \in S)
      /\ (5 \in up <=> 4 \in S) /\ (6 \in up <=> 5 \in S) /\ (7 \in up <=> 6 \in S) /\ (8 \in up <=> 7 \in S)
  BY <1>3
<1>5. Turns(t) = ( /\ next \in SUBSET (0..7)
                   /\ 0 \in next <=> 7 \in S
                   /\ 1 \in next <=> 0 \in S
                   /\ 2 \in next <=> 1 \in S
                   /\ 3 \in next <=> 2 \in S
                   /\ 4 \in next <=> ((3 \in S) # (7 \in S))
                   /\ 5 \in next <=> ((4 \in S) # (7 \in S))
                   /\ 6 \in next <=> ((5 \in S) # (7 \in S))
                   /\ 7 \in next <=> 6 \in S)
  BY Zenon DEF Turns
<1> HIDE DEF next, up, S
<1>6. CASE 7 \in S
  <2>1. next = SymDiff(up \ {8}, {0, 4, 5, 6})
    BY <1>2, <1>4, <1>6
  <2>2. next \in SUBSET (0..7)
    BY <1>3, <2>1 DEF SymDiff
  <2>3. /\ 0 \in next
        /\ 1 \in next <=> 1 \in up
        /\ 2 \in next <=> 2 \in up
        /\ 3 \in next <=> 3 \in up
    BY <1>3, <2>1 DEF SymDiff
  <2>4. /\ 4 \in next <=> 4 \notin up
        /\ 5 \in next <=> 5 \notin up
        /\ 6 \in next <=> 6 \notin up
        /\ 7 \in next <=> 7 \in up
    BY <1>3, <2>1 DEF SymDiff
  <2> QED BY <1>4, <1>5, <1>6, <2>2, <2>3, <2>4
<1>7. CASE 7 \notin S
  <2>1. next = up /\ 8 \notin up
    BY <1>2, <1>4, <1>7
  <2>2. next \in SUBSET (0..7)
    BY <1>3, <2>1
  <2> QED BY <1>3, <1>4, <1>5, <1>7, <2>1, <2>2
<1> QED BY <1>6, <1>7

\* Seven steps: the lowest bits that a round takes, and where the next begins.
Has(t, k) == k \in Register[t]
Seven(t) ==
  /\ Has(t + 1, 0) <=> Has(t, 7)
  /\ Has(t + 2, 0) <=> Has(t, 6)
  /\ Has(t + 3, 0) <=> Has(t, 5) # Has(t, 7)
  /\ Has(t + 4, 0) <=> (Has(t, 4) # Has(t, 7)) # Has(t, 6)
  /\ Has(t + 5, 0) <=> (Has(t, 3) # Has(t, 6)) # Has(t, 5)
  /\ Has(t + 6, 0) <=> (Has(t, 2) # Has(t, 5)) # Has(t, 4)
  /\ Register[t + 7] \in SUBSET (0..7)
  /\ Has(t + 7, 0) <=> (Has(t, 1) # Has(t, 4)) # Has(t, 3)
  /\ Has(t + 7, 1) <=> (Has(t, 2) # Has(t, 5)) # Has(t, 4)
  /\ Has(t + 7, 2) <=> (Has(t, 3) # Has(t, 6)) # Has(t, 5)
  /\ Has(t + 7, 3) <=> (Has(t, 4) # Has(t, 7)) # Has(t, 6)
  /\ Has(t + 7, 4) <=> (((Has(t, 5) # Has(t, 7)) # Has(t, 1)) # Has(t, 4)) # Has(t, 3)
  /\ Has(t + 7, 5) <=> (((Has(t, 6) # Has(t, 2)) # Has(t, 5)) # Has(t, 1)) # Has(t, 3)
  /\ Has(t + 7, 6) <=> ((Has(t, 7) # Has(t, 6)) # Has(t, 2)) # Has(t, 1)
  /\ Has(t + 7, 7) <=> ((Has(t, 0) # Has(t, 7)) # Has(t, 3)) # Has(t, 2)

LEMMA SevenTurns ==
  ASSUME NEW t \in 0..247, Register[t] \in SUBSET (0..7)
  PROVE  Seven(t)
<1>1. Turns(t)
  BY RegisterTurns, SMTT(30)
<1>2. Turns(t + 1) /\ (t + 1) + 1 = t + 2
  <2>1. t + 1 \in 0..253 /\ (t + 1) + 1 = t + 2
    OBVIOUS
  <2>2. Register[t + 1] \in SUBSET (0..7)
    BY <1>1, Zenon DEF Turns
  <2> QED BY <2>1, <2>2, RegisterTurns, Zenon
<1>3. Turns(t + 2) /\ (t + 2) + 1 = t + 3
  <2>1. t + 2 \in 0..253 /\ (t + 2) + 1 = t + 3
    OBVIOUS
  <2>2. Register[t + 2] \in SUBSET (0..7)
    BY <1>2, Zenon DEF Turns
  <2> QED BY <2>1, <2>2, RegisterTurns, Zenon
<1>4. Turns(t + 3) /\ (t + 3) + 1 = t + 4
  <2>1. t + 3 \in 0..253 /\ (t + 3) + 1 = t + 4
    OBVIOUS
  <2>2. Register[t + 3] \in SUBSET (0..7)
    BY <1>3, Zenon DEF Turns
  <2> QED BY <2>1, <2>2, RegisterTurns, Zenon
<1>5. Turns(t + 4) /\ (t + 4) + 1 = t + 5
  <2>1. t + 4 \in 0..253 /\ (t + 4) + 1 = t + 5
    OBVIOUS
  <2>2. Register[t + 4] \in SUBSET (0..7)
    BY <1>4, Zenon DEF Turns
  <2> QED BY <2>1, <2>2, RegisterTurns, Zenon
<1>6. Turns(t + 5) /\ (t + 5) + 1 = t + 6
  <2>1. t + 5 \in 0..253 /\ (t + 5) + 1 = t + 6
    OBVIOUS
  <2>2. Register[t + 5] \in SUBSET (0..7)
    BY <1>5, Zenon DEF Turns
  <2> QED BY <2>1, <2>2, RegisterTurns, Zenon
<1>7. Turns(t + 6) /\ (t + 6) + 1 = t + 7
  <2>1. t + 6 \in 0..253 /\ (t + 6) + 1 = t + 7
    OBVIOUS
  <2>2. Register[t + 6] \in SUBSET (0..7)
    BY <1>6, Zenon DEF Turns
  <2> QED BY <2>1, <2>2, RegisterTurns, Zenon
<1> QED BY <1>1, <1>2, <1>3, <1>4, <1>5, <1>6, <1>7 DEF Turns, Seven, Has

\* The ones of a constant are at the places that the bits from t on stand for.
BitsAre(C, t) ==
  \A z \in Positions :
    z \in C <=>
      \/ z = 0 /\ Has(t, 0)
      \/ z = 1 /\ Has(t + 1, 0)
      \/ z = 3 /\ Has(t + 2, 0)
      \/ z = 7 /\ Has(t + 3, 0)
      \/ z = 15 /\ Has(t + 4, 0)
      \/ z = 31 /\ Has(t + 5, 0)
      \/ z = 63 /\ Has(t + 6, 0)

LEMMA ConstantBits == \A ir \in 0..23 : BitsAre(RoundConstants[ir + 1], 7 * ir)
<1>1. Register[0] = {0}
  BY RegisterSteps
<1>2. BitsAre(RoundConstants[1], 0) /\ Register[7] = {7}
  <2>1. Register[0] = {0}
    BY <1>1
  <2>2. Seven(0)
    BY <2>1, SevenTurns
  <2>3. RoundConstants[1] = {0}
    BY DEF RoundConstants
  <2>4. BitsAre(RoundConstants[1], 0)
    BY <2>1, <2>2, <2>3 DEF Seven, BitsAre, Has, Positions
  <2>5. Register[7] = {7}
    BY <2>1, <2>2 DEF Seven, Has
  <2> QED BY <2>4, <2>5
<1>3. BitsAre(RoundConstants[2], 7) /\ Register[14] = {3, 4, 6, 7}
  <2>1. Register[7] = {7}
    BY <1>2
  <2>2. Seven(7)
    BY <2>1, SevenTurns
  <2>3. RoundConstants[2] = {1, 7, 15}
    BY DEF RoundConstants
  <2>4. BitsAre(RoundConstants[2], 7)
    BY <2>1, <2>2, <2>3 DEF Seven, BitsAre, Has, Positions
  <2>5. Register[14] = {3, 4, 6, 7}
    BY <2>1, <2>2 DEF Seven, Has
  <2> QED BY <2>4, <2>5
<1>4. BitsAre(RoundConstants[3], 14) /\ Register[21] = {1, 3, 4}
  <2>1. Register[14] = {3, 4, 6, 7}
    BY <1>3
  <2>2. Seven(14)
    BY <2>1, SevenTurns
  <2>3. RoundConstants[3] = {1, 3, 7, 15, 63}
    BY DEF RoundConstants
  <2>4. BitsAre(RoundConstants[3], 14)
    BY <2>1, <2>2, <2>3 DEF Seven, BitsAre, Has, Positions
  <2>5. Register[21] = {1, 3, 4}
    BY <2>1, <2>2 DEF Seven, Has
  <2> QED BY <2>4, <2>5
<1>5. BitsAre(RoundConstants[4], 21) /\ Register[28] = {0, 1, 2, 3, 4, 6, 7}
  <2>1. Register[21] = {1, 3, 4}
    BY <1>4
  <2>2. Seven(21)
    BY <2>1, SevenTurns
  <2>3. RoundConstants[4] = {15, 31, 63}
    BY DEF RoundConstants
  <2>4. BitsAre(RoundConstants[4], 21)
    BY <2>1, <2>2, <2>3 DEF Seven, BitsAre, Has, Positions
  <2>5. Register[28] = {0, 1, 2, 3, 4, 6, 7}
    BY <2>1, <2>2 DEF Seven, Has
  <2> QED BY <2>4, <2>5
<1>6. BitsAre(RoundConstants[5], 28) /\ Register[35] = {0, 3}
  <2>1. Register[28] = {0, 1, 2, 3, 4, 6, 7}
    BY <1>5
  <2>2. Seven(28)
    BY <2>1, SevenTurns
  <2>3. RoundConstants[5] = {0, 1, 3, 7, 15}
    BY DEF RoundConstants
  <2>4. BitsAre(RoundConstants[5], 28)
    BY <2>1, <2>2, <2>3 DEF Seven, BitsAre, Has, Positions
  <2>5. Register[35] = {0, 3}
    BY <2>1, <2>2 DEF Seven, Has
  <2> QED BY <2>4, <2>5
<1>7. BitsAre(RoundConstants[6], 35) /\ Register[42] = {0, 2, 4, 5}
  <2>1. Register[35] = {0, 3}
    BY <1>6
  <2>2. Seven(35)
    BY <2>1, SevenTurns
  <2>3. RoundConstants[6] = {0, 31}
    BY DEF RoundConstants
  <2>4. BitsAre(RoundConstants[6], 35)
    BY <2>1, <2>2, <2>3 DEF Seven, BitsAre, Has, Positions
  <2>5. Register[42] = {0, 2, 4, 5}
    BY <2>1, <2>2 DEF Seven, Has
  <2> QED BY <2>4, <2>5
<1>8. BitsAre(RoundConstants[7], 42) /\ Register[49] = {0, 1, 2, 3, 6}
  <2>1. Register[42] = {0, 2, 4, 5}
    BY <1>7
  <2>2. Seven(42)
    BY <2>1, SevenTurns
  <2>3. RoundConstants[7] = {0, 7, 15, 31, 63}
    BY DEF RoundConstants
  <2>4. BitsAre(RoundConstants[7], 42)
    BY <2>1, <2>2, <2>3 DEF Seven, BitsAre, Has, Positions
  <2>5. Register[49] = {0, 1, 2, 3, 6}
    BY <2>1, <2>2 DEF Seven, Has
  <2> QED BY <2>4, <2>5
<1>9. BitsAre(RoundConstants[8], 49) /\ Register[56] = {1, 3, 6, 7}
  <2>1. Register[49] = {0, 1, 2, 3, 6}
    BY <1>8
  <2>2. Seven(49)
    BY <2>1, SevenTurns
  <2>3. RoundConstants[8] = {0, 3, 15, 63}
    BY DEF RoundConstants
  <2>4. BitsAre(RoundConstants[8], 49)
    BY <2>1, <2>2, <2>3 DEF Seven, BitsAre, Has, Positions
  <2>5. Register[56] = {1, 3, 6, 7}
    BY <2>1, <2>2 DEF Seven, Has
  <2> QED BY <2>4, <2>5
<1>10. BitsAre(RoundConstants[9], 56) /\ Register[63] = {4, 5, 6}
  <2>1. Register[56] = {1, 3, 6, 7}
    BY <1>9
  <2>2. Seven(56)
    BY <2>1, SevenTurns
  <2>3. RoundConstants[9] = {1, 3, 7}
    BY DEF RoundConstants
  <2>4. BitsAre(RoundConstants[9], 56)
    BY <2>1, <2>2, <2>3 DEF Seven, BitsAre, Has, Positions
  <2>5. Register[63] = {4, 5, 6}
    BY <2>1, <2>2 DEF Seven, Has
  <2> QED BY <2>4, <2>5
<1>11. BitsAre(RoundConstants[10], 63) /\ Register[70] = {0, 6}
  <2>1. Register[63] = {4, 5, 6}
    BY <1>10
  <2>2. Seven(63)
    BY <2>1, SevenTurns
  <2>3. RoundConstants[10] = {3, 7}
    BY DEF RoundConstants
  <2>4. BitsAre(RoundConstants[10], 63)
    BY <2>1, <2>2, <2>3 DEF Seven, BitsAre, Has, Positions
  <2>5. Register[70] = {0, 6}
    BY <2>1, <2>2 DEF Seven, Has
  <2> QED BY <2>4, <2>5
<1>12. BitsAre(RoundConstants[11], 70) /\ Register[77] = {2, 3, 5, 6, 7}
  <2>1. Register[70] = {0, 6}
    BY <1>11
  <2>2. Seven(70)
    BY <2>1, SevenTurns
  <2>3. RoundConstants[11] = {0, 3, 15, 31}
    BY DEF RoundConstants
  <2>4. BitsAre(RoundConstants[11], 70)
    BY <2>1, <2>2, <2>3 DEF Seven, BitsAre, Has, Positions
  <2>5. Register[77] = {2, 3, 5, 6, 7}
    BY <2>1, <2>2 DEF Seven, Has
  <2> QED BY <2>4, <2>5
<1>13. BitsAre(RoundConstants[12], 77) /\ Register[84] = {0, 2, 4, 6, 7}
  <2>1. Register[77] = {2, 3, 5, 6, 7}
    BY <1>12
  <2>2. Seven(77)
    BY <2>1, SevenTurns
  <2>3. RoundConstants[12] = {1, 3, 31}
    BY DEF RoundConstants
  <2>4. BitsAre(RoundConstants[12], 77)
    BY <2>1, <2>2, <2>3 DEF Seven, BitsAre, Has, Positions
  <2>5. Register[84] = {0, 2, 4, 6, 7}
    BY <2>1, <2>2 DEF Seven, Has
  <2> QED BY <2>4, <2>5
<1>14. BitsAre(RoundConstants[13], 84) /\ Register[91] = {0, 2, 3, 6, 7}
  <2>1. Register[84] = {0, 2, 4, 6, 7}
    BY <1>13
  <2>2. Seven(84)
    BY <2>1, SevenTurns
  <2>3. RoundConstants[13] = {0, 1, 3, 7, 15, 31}
    BY DEF RoundConstants
  <2>4. BitsAre(RoundConstants[13], 84)
    BY <2>1, <2>2, <2>3 DEF Seven, BitsAre, Has, Positions
  <2>5. Register[91] = {0, 2, 3, 6, 7}
    BY <2>1, <2>2 DEF Seven, Has
  <2> QED BY <2>4, <2>5
<1>15. BitsAre(RoundConstants[14], 91) /\ Register[98] = {0, 1, 5, 6}
  <2>1. Register[91] = {0, 2, 3, 6, 7}
    BY <1>14
  <2>2. Seven(91)
    BY <2>1, SevenTurns
  <2>3. RoundConstants[14] = {0, 1, 3, 7, 63}
    BY DEF RoundConstants
  <2>4. BitsAre(RoundConstants[14], 91)
    BY <2>1, <2>2, <2>3 DEF Seven, BitsAre, Has, Positions
  <2>5. Register[98] = {0, 1, 5, 6}
    BY <2>1, <2>2 DEF Seven, Has
  <2> QED BY <2>4, <2>5
<1>16. BitsAre(RoundConstants[15], 98) /\ Register[105] = {0, 1, 3, 5, 7}
  <2>1. Register[98] = {0, 1, 5, 6}
    BY <1>15
  <2>2. Seven(98)
    BY <2>1, SevenTurns
  <2>3. RoundConstants[15] = {0, 3, 7, 15, 63}
    BY DEF RoundConstants
  <2>4. BitsAre(RoundConstants[15], 98)
    BY <2>1, <2>2, <2>3 DEF Seven, BitsAre, Has, Positions
  <2>5. Register[105] = {0, 1, 3, 5, 7}
    BY <2>1, <2>2 DEF Seven, Has
  <2> QED BY <2>4, <2>5
<1>17. BitsAre(RoundConstants[16], 105) /\ Register[112] = {1, 3, 5, 7}
  <2>1. Register[105] = {0, 1, 3, 5, 7}
    BY <1>16
  <2>2. Seven(105)
    BY <2>1, SevenTurns
  <2>3. RoundConstants[16] = {0, 1, 15, 63}
    BY DEF RoundConstants
  <2>4. BitsAre(RoundConstants[16], 105)
    BY <2>1, <2>2, <2>3 DEF Seven, BitsAre, Has, Positions
  <2>5. Register[112] = {1, 3, 5, 7}
    BY <2>1, <2>2 DEF Seven, Has
  <2> QED BY <2>4, <2>5
<1>18. BitsAre(RoundConstants[17], 112) /\ Register[119] = {1, 3, 5}
  <2>1. Register[112] = {1, 3, 5, 7}
    BY <1>17
  <2>2. Seven(112)
    BY <2>1, SevenTurns
  <2>3. RoundConstants[17] = {1, 15, 63}
    BY DEF RoundConstants
  <2>4. BitsAre(RoundConstants[17], 112)
    BY <2>1, <2>2, <2>3 DEF Seven, BitsAre, Has, Positions
  <2>5. Register[119] = {1, 3, 5}
    BY <2>1, <2>2 DEF Seven, Has
  <2> QED BY <2>4, <2>5
<1>19. BitsAre(RoundConstants[18], 119) /\ Register[126] = {1, 4, 5, 6, 7}
  <2>1. Register[119] = {1, 3, 5}
    BY <1>18
  <2>2. Seven(119)
    BY <2>1, SevenTurns
  <2>3. RoundConstants[18] = {7, 63}
    BY DEF RoundConstants
  <2>4. BitsAre(RoundConstants[18], 119)
    BY <2>1, <2>2, <2>3 DEF Seven, BitsAre, Has, Positions
  <2>5. Register[126] = {1, 4, 5, 6, 7}
    BY <2>1, <2>2 DEF Seven, Has
  <2> QED BY <2>4, <2>5
<1>20. BitsAre(RoundConstants[19], 126) /\ Register[133] = {3, 5, 6, 7}
  <2>1. Register[126] = {1, 4, 5, 6, 7}
    BY <1>19
  <2>2. Seven(126)
    BY <2>1, SevenTurns
  <2>3. RoundConstants[19] = {1, 3, 15}
    BY DEF RoundConstants
  <2>4. BitsAre(RoundConstants[19], 126)
    BY <2>1, <2>2, <2>3 DEF Seven, BitsAre, Has, Positions
  <2>5. Register[133] = {3, 5, 6, 7}
    BY <2>1, <2>2 DEF Seven, Has
  <2> QED BY <2>4, <2>5
<1>21. BitsAre(RoundConstants[20], 133) /\ Register[140] = {0, 1, 2, 4, 5}
  <2>1. Register[133] = {3, 5, 6, 7}
    BY <1>20
  <2>2. Seven(133)
    BY <2>1, SevenTurns
  <2>3. RoundConstants[20] = {1, 3, 31, 63}
    BY DEF RoundConstants
  <2>4. BitsAre(RoundConstants[20], 133)
    BY <2>1, <2>2, <2>3 DEF Seven, BitsAre, Has, Positions
  <2>5. Register[140] = {0, 1, 2, 4, 5}
    BY <2>1, <2>2 DEF Seven, Has
  <2> QED BY <2>4, <2>5
<1>22. BitsAre(RoundConstants[21], 140) /\ Register[147] = {1, 2, 3, 4, 5}
  <2>1. Register[140] = {0, 1, 2, 4, 5}
    BY <1>21
  <2>2. Seven(140)
    BY <2>1, SevenTurns
  <2>3. RoundConstants[21] = {0, 7, 15, 31, 63}
    BY DEF RoundConstants
  <2>4. BitsAre(RoundConstants[21], 140)
    BY <2>1, <2>2, <2>3 DEF Seven, BitsAre, Has, Positions
  <2>5. Register[147] = {1, 2, 3, 4, 5}
    BY <2>1, <2>2 DEF Seven, Has
  <2> QED BY <2>4, <2>5
<1>23. BitsAre(RoundConstants[22], 147) /\ Register[154] = {0, 1, 3}
  <2>1. Register[147] = {1, 2, 3, 4, 5}
    BY <1>22
  <2>2. Seven(147)
    BY <2>1, SevenTurns
  <2>3. RoundConstants[22] = {7, 15, 63}
    BY DEF RoundConstants
  <2>4. BitsAre(RoundConstants[22], 147)
    BY <2>1, <2>2, <2>3 DEF Seven, BitsAre, Has, Positions
  <2>5. Register[154] = {0, 1, 3}
    BY <2>1, <2>2 DEF Seven, Has
  <2> QED BY <2>4, <2>5
<1>24. BitsAre(RoundConstants[23], 154) /\ Register[161] = {2, 6}
  <2>1. Register[154] = {0, 1, 3}
    BY <1>23
  <2>2. Seven(154)
    BY <2>1, SevenTurns
  <2>3. RoundConstants[23] = {0, 31}
    BY DEF RoundConstants
  <2>4. BitsAre(RoundConstants[23], 154)
    BY <2>1, <2>2, <2>3 DEF Seven, BitsAre, Has, Positions
  <2>5. Register[161] = {2, 6}
    BY <2>1, <2>2 DEF Seven, Has
  <2> QED BY <2>4, <2>5
<1>25. BitsAre(RoundConstants[24], 161)
  <2>1. Register[161] = {2, 6}
    BY <1>24
  <2>2. Seven(161)
    BY <2>1, SevenTurns
  <2>3. RoundConstants[24] = {3, 15, 31, 63}
    BY DEF RoundConstants
  <2>4. BitsAre(RoundConstants[24], 161)
    BY <2>1, <2>2, <2>3 DEF Seven, BitsAre, Has, Positions
  <2> QED BY <2>4
<1>26. \A ir \in 0..23 : ir \in {0, 1, 2, 3, 4, 5, 6, 7, 8, 9, 10, 11, 12, 13, 14, 15, 16, 17, 18, 19, 20, 21, 22, 23}
  OBVIOUS
<1> QED BY <1>26, <1>2, <1>3, <1>4, <1>5, <1>6, <1>7, <1>8, <1>9, <1>10, <1>11, <1>12, <1>13, <1>14, <1>15, <1>16, <1>17, <1>18, <1>19, <1>20, <1>21, <1>22, <1>23, <1>24, <1>25

-----------------------------------------------------------------------------
(***************************************************************************)
(* One round of KeccakF, bit by bit, for any lanes.                        *)
(***************************************************************************)
State == [Lanes -> SUBSET Positions]

Odd(T) == Cardinality(T) % 2 = 1

\* A sum modulo 2 is the xor of its terms.
LEMMA OddNext ==
  ASSUME NEW P, NEW T, IsFiniteSet(T), NEW e, e \notin T
  PROVE  LET U == T \cup (IF e \in P THEN {e} ELSE {})
         IN IsFiniteSet(U) /\ (Odd(U) <=> (Odd(T) # (e \in P)))
<1> DEFINE U == T \cup (IF e \in P THEN {e} ELSE {})
<1>1. CASE e \in P
  <2>1. U = T \cup {e}
    BY <1>1
  <2> HIDE DEF U
  <2>2. IsFiniteSet(U) /\ Cardinality(U) = Cardinality(T) + 1 /\ Cardinality(T) \in Nat
    BY <2>1, FS_AddElement, FS_CardinalityType
  <2>3. Odd(U) <=> ~Odd(T)
    BY <2>2 DEF Odd
  <2> QED BY <1>1, <2>2, <2>3 DEF U
<1>2. CASE e \notin P
  <2>1. U = T
    BY <1>2
  <2> HIDE DEF U
  <2>2. IsFiniteSet(U) /\ (Odd(U) <=> Odd(T))
    BY <2>1
  <2> QED BY <1>2, <2>2 DEF U, Odd
<1> QED BY <1>1, <1>2

LEMMA OddOfFive ==
  ASSUME NEW P \in SUBSET (0..4)
  PROVE  Odd(P) <=> ((0 \in P) # ((1 \in P) # ((2 \in P) # ((3 \in P) # (4 \in P)))))
<1> DEFINE E(e) == IF e \in P THEN {e} ELSE {}
           T4 == {} \cup E(4)
           T3 == T4 \cup E(3)
           T2 == T3 \cup E(2)
           T1 == T2 \cup E(1)
           T0 == T1 \cup E(0)
<1>0. IsFiniteSet({}) /\ ~Odd({})
  BY FS_EmptySet DEF Odd
<1>4. IsFiniteSet(T4) /\ (Odd(T4) <=> (4 \in P)) /\ T4 \subseteq {4}
  BY <1>0, OddNext, SMTT(30)
<1>t. T4 \subseteq {4} /\ T3 \subseteq {3, 4} /\ T2 \subseteq {2, 3, 4} /\ T1 \subseteq {1, 2, 3, 4}
  OBVIOUS
<1>p. T0 = P
  <2>1. \A e : e \in T0 <=> e \in P /\ e \in {0, 1, 2, 3, 4}
    OBVIOUS
  <2>2. 0..4 = {0, 1, 2, 3, 4}
    OBVIOUS
  <2> HIDE DEF T0
  <2> QED BY <2>1, <2>2
<1> HIDE DEF T4
<1>3. IsFiniteSet(T3) /\ (Odd(T3) <=> (Odd(T4) # (3 \in P)))
  BY <1>4, <1>t, OddNext
<1> HIDE DEF T3
<1>2. IsFiniteSet(T2) /\ (Odd(T2) <=> (Odd(T3) # (2 \in P)))
  BY <1>3, <1>t, OddNext
<1> HIDE DEF T2
<1>1. IsFiniteSet(T1) /\ (Odd(T1) <=> (Odd(T2) # (1 \in P)))
  BY <1>2, <1>t, OddNext
<1> HIDE DEF T1
<1>5. IsFiniteSet(T0) /\ (Odd(T0) <=> (Odd(T1) # (0 \in P)))
  BY <1>1, <1>t, OddNext
<1> HIDE DEF T0
<1> QED BY <1>1, <1>2, <1>3, <1>4, <1>5, <1>p DEF Odd

\* ROL on a bit.
LEMMA Rolled ==
  ASSUME NEW Y \in SUBSET Positions, NEW n \in 0..63, NEW z \in Positions
  PROVE  /\ ROL(Y, n) \in SUBSET Positions
         /\ z \in ROL(Y, n) <=> (z + 64 - n) % 64 \in Y
<1>1. \A p \in Positions : (p + n) % 64 \in Positions /\ ((p + n) % 64 = z <=> p = (z + 64 - n) % 64)
  BY DEF Positions
<1>2. (z + 64 - n) % 64 \in Positions
  BY DEF Positions
<1> QED BY <1>1, <1>2 DEF ROL

LEMMA XorBit ==
  ASSUME NEW x, NEW y, NEW z
  PROVE  z \in SymDiff(x, y) <=> ((z \in x) # (z \in y))
BY DEF SymDiff

\* What the blocks compute of a column is theta's parity.
LEMMA ColumnParity ==
  ASSUME lanes \in State, NEW x \in 0..4, NEW z \in Positions
  PROVE  Odd({y \in 0..4 : <<x, y, z>> \in Ones}) <=> z \in Parity(x)
<1> DEFINE P == {y \in 0..4 : z \in lanes[x + 5 * y]}
<1>1. {y \in 0..4 : <<x, y, z>> \in Ones} = P
  BY DEF Ones, Cube
<1>2. (0 \in P <=> z \in lanes[x]) /\ (1 \in P <=> z \in lanes[x + 5]) /\ (2 \in P <=> z \in lanes[x + 10])
      /\ (3 \in P <=> z \in lanes[x + 15]) /\ (4 \in P <=> z \in lanes[x + 20])
  <2>1. x + 5 * 0 = x /\ x + 5 * 1 = x + 5 /\ x + 5 * 2 = x + 10 /\ x + 5 * 3 = x + 15 /\ x + 5 * 4 = x + 20
    OBVIOUS
  <2> QED BY <2>1
<1>3. z \in Parity(x) <=> ((z \in lanes[x]) # ((z \in lanes[x + 5]) # ((z \in lanes[x + 10])
                            # ((z \in lanes[x + 15]) # (z \in lanes[x + 20])))))
  BY XorBit DEF Parity
<1>4. Odd(P) <=> ((0 \in P) # ((1 \in P) # ((2 \in P) # ((3 \in P) # (4 \in P)))))
  BY OddOfFive
<1> HIDE DEF P
<1>5. Odd(P) <=> z \in Parity(x)
  BY <1>2, <1>3, <1>4 DEF Odd
<1> QED BY <1>1, <1>5

LEMMA ParityType ==
  ASSUME lanes \in State, NEW x \in 0..4
  PROVE  Parity(x) \in SUBSET Positions
<1>1. /\ lanes[x] \in SUBSET Positions /\ lanes[x + 5] \in SUBSET Positions
      /\ lanes[x + 10] \in SUBSET Positions /\ lanes[x + 15] \in SUBSET Positions
      /\ lanes[x + 20] \in SUBSET Positions
  BY DEF State, Lanes
<1> QED BY <1>1 DEF Parity, SymDiff

Prepared == mixed = [x \in 0..4 |-> SymDiff(Parity((x + 4) % 5), ROL(Parity((x + 1) % 5), 1))]

\* A lane after theta.
After(x, y) == SymDiff(lanes[x + 5 * y], mixed[x])

LEMMA ThetaBit ==
  ASSUME lanes \in State, Prepared, NEW x \in 0..4, NEW y \in 0..4, NEW z \in Positions
  PROVE  <<x, y, z>> \in theta(Ones) <=> z \in After(x, y)
<1> DEFINE columns == {c \in (0..4) \X Positions :
                         Cardinality({v \in 0..4 : <<c[1], v, c[2]>> \in Ones}) % 2 = 1}
           Turned == {c \in Cube : (<<(c[1] + 4) % 5, c[3]>> \in columns)
                                     # (<<(c[1] + 1) % 5, (c[3] + 63) % 64>> \in columns)}
           west == (x + 4) % 5
           east == (x + 1) % 5
           low  == (z + 63) % 64
<1>1. theta(Ones) = SymDiff(Ones, Turned)
  BY DEF theta
<1>2. west \in 0..4 /\ east \in 0..4 /\ low \in Positions
  BY DEF Positions
<1>3. ASSUME NEW u \in 0..4, NEW p \in Positions PROVE <<u, p>> \in columns <=> p \in Parity(u)
  <2>1. <<u, p>> \in columns <=> Odd({v \in 0..4 : <<u, v, p>> \in Ones})
    BY DEF Odd
  <2> QED BY <2>1, ColumnParity
<1>4. <<x, y, z>> \in Turned <=> ((<<west, z>> \in columns) # (<<east, low>> \in columns))
  BY DEF Cube
<1> HIDE DEF columns, Turned, west, east, low
<1>5. <<x, y, z>> \in Turned <=> ((z \in Parity(west)) # (low \in Parity(east)))
  BY <1>2, <1>3, <1>4
<1>6. z \in ROL(Parity(east), 1) <=> low \in Parity(east)
  <2>1. (z + 64 - 1) % 64 = low
    BY DEF low, Positions
  <2>2. z \in ROL(Parity(east), 1) <=> (z + 64 - 1) % 64 \in Parity(east)
    BY <1>2, ParityType, Rolled
  <2> QED BY <2>1, <2>2
<1>7. mixed[x] = SymDiff(Parity(west), ROL(Parity(east), 1))
  BY DEF Prepared, west, east
<1>8. z \in mixed[x] <=> ((z \in Parity(west)) # (z \in ROL(Parity(east), 1)))
  BY <1>7, XorBit
<1>9. <<x, y, z>> \in Turned <=> z \in mixed[x]
  BY <1>5, <1>6, <1>8
<1>10. <<x, y, z>> \in Ones <=> z \in lanes[x + 5 * y]
  BY DEF Ones, Cube
<1>11. <<x, y, z>> \in theta(Ones) <=> ((<<x, y, z>> \in Ones) # (<<x, y, z>> \in Turned))
  BY <1>1, XorBit
<1>12. z \in After(x, y) <=> ((z \in lanes[x + 5 * y]) # (z \in mixed[x]))
  <2>1. After(x, y) = SymDiff(lanes[x + 5 * y], mixed[x])
    BY DEF After
  <2> QED BY <2>1, XorBit
<1> QED BY <1>9, <1>10, <1>11, <1>12

LEMMA ThetaType == theta(Ones) \in SUBSET Cube
BY DEF theta, Ones, SymDiff

\* Where rho and pi have a bit from.
LEMMA RhoBit ==
  ASSUME NEW T \in SUBSET Cube, NEW x \in 0..4, NEW y \in 0..4, NEW z \in Positions,
         NEW n \in 0..63, Rotation(x, y, n)
  PROVE  <<x, y, z>> \in rho(T) <=> <<x, y, (z + 64 - n) % 64>> \in T
<1> DEFINE low == (z + 64 - n) % 64
<1>1. \A p \in Positions : (p + RhoOffset(x, y)) % 64 = z <=> p = low
  BY DEF Rotation, Positions
<1>2. ASSUME <<x, y, low>> \in T PROVE <<x, y, z>> \in rho(T)
  <2>1. low \in Positions
    BY DEF Positions
  <2>2. (low + RhoOffset(x, y)) % 64 = z
    BY <1>1, <2>1
  <2> HIDE DEF low
  <2> QED BY <1>2, <2>2 DEF rho
<1> HIDE DEF low
<1>3. ASSUME <<x, y, z>> \in rho(T) PROVE <<x, y, low>> \in T
  <2>1. PICK c \in T : <<x, y, z>> = <<c[1], c[2], (c[3] + RhoOffset(c[1], c[2])) % 64>>
    BY <1>3 DEF rho
  <2>2. c = <<c[1], c[2], c[3]>> /\ c[3] \in Positions
    BY DEF Cube
  <2>3. c[1] = x /\ c[2] = y /\ (c[3] + RhoOffset(c[1], c[2])) % 64 = z
    BY <2>1
  <2>4. c[3] = low
    BY <1>1, <2>2, <2>3
  <2> QED BY <2>2, <2>3, <2>4
<1> QED BY <1>2, <1>3 DEF low

LEMMA RhoType ==
  ASSUME NEW T \in SUBSET Cube
  PROVE  rho(T) \in SUBSET Cube
<1>1. ASSUME NEW x \in 0..4, NEW y \in 0..4, NEW z \in Positions
      PROVE  (z + RhoOffset(x, y)) % 64 \in Positions
  <2>1. RhoOffset(x, y) \in Nat
    BY Offsets
  <2> QED BY <2>1 DEF Positions
<1> QED BY <1>1 DEF rho, Cube

LEMMA PiBit ==
  ASSUME NEW T \in SUBSET Cube, NEW x \in 0..4, NEW y \in 0..4, NEW z \in Positions
  PROVE  <<x, y, z>> \in pi(T) <=> <<(x + 3 * y) % 5, x, z>> \in T
<1> DEFINE from == (x + 3 * y) % 5
<1>1. \A u \in 0..4 : (2 * u + 3 * x) % 5 = y <=> u = from
  OBVIOUS
<1>2. from \in 0..4
  OBVIOUS
<1> HIDE DEF from
<1>3. ASSUME <<from, x, z>> \in T PROVE <<x, y, z>> \in pi(T)
  <2>1. (2 * from + 3 * x) % 5 = y
    BY <1>1, <1>2
  <2> QED BY <1>3, <2>1 DEF pi
<1>4. ASSUME <<x, y, z>> \in pi(T) PROVE <<from, x, z>> \in T
  <2>1. PICK c \in T : <<x, y, z>> = <<c[2], (2 * c[1] + 3 * c[2]) % 5, c[3]>>
    BY <1>4 DEF pi
  <2>2. c = <<c[1], c[2], c[3]>> /\ c[1] \in 0..4
    BY DEF Cube
  <2>3. c[2] = x /\ (2 * c[1] + 3 * c[2]) % 5 = y /\ c[3] = z
    BY <2>1
  <2>4. c[1] = from
    BY <1>1, <2>2, <2>3
  <2> QED BY <2>2, <2>3, <2>4
<1> QED BY <1>3, <1>4 DEF from

LEMMA AfterType ==
  ASSUME lanes \in State, Prepared, NEW x \in 0..4, NEW y \in 0..4
  PROVE  After(x, y) \in SUBSET Positions
<1> DEFINE west == (x + 4) % 5
           east == (x + 1) % 5
<1>1. west \in 0..4 /\ east \in 0..4 /\ x + 5 * y \in Lanes
  BY DEF Lanes
<1>2. lanes[x + 5 * y] \in SUBSET Positions
  BY <1>1 DEF State
<1>3. mixed[x] = SymDiff(Parity(west), ROL(Parity(east), 1))
  BY DEF Prepared
<1> HIDE DEF west, east
<1>4. Parity(west) \in SUBSET Positions /\ ROL(Parity(east), 1) \in SUBSET Positions
  <2>1. Parity(west) \in SUBSET Positions /\ Parity(east) \in SUBSET Positions
    BY <1>1, ParityType
  <2>2. \A p \in Positions : (p + 1) % 64 \in Positions
    BY DEF Positions
  <2> QED BY <2>1, <2>2 DEF ROL
<1>5. mixed[x] \in SUBSET Positions
  BY <1>3, <1>4 DEF SymDiff
<1> QED BY <1>2, <1>5 DEF After, SymDiff

\* The state that chi starts from.
Moved == pi(rho(theta(Ones)))

\* What a block gathers is what pi and rho bring there.
LEMMA GatheredBit ==
  ASSUME lanes \in State, Prepared, NEW r \in 0..4, NEW x \in 0..4, NEW z \in Positions
  PROVE  <<x, r, z>> \in Moved <=> z \in BC(r, x)
<1> DEFINE from == (x + 3 * r) % 5
<1>1. PICK n \in 0..63 : Gather[r + 1][x + 1] = <<from + 5 * x, n>> /\ Rotation(from, x, n)
  BY GathersAll, ZenonT(60) DEF GatherIs
<1>2. from \in 0..4
  OBVIOUS
<1> HIDE DEF from
<1>3. (from + 5 * x) % 5 = from /\ x % 5 = x
  BY <1>2
<1>4. BC(r, x) = ROL(After(from, x), n)
  BY <1>1, <1>3 DEF BC, After
<1> DEFINE low == (z + 64 - n) % 64
           Rotated == rho(theta(Ones))
<1>5. low \in Positions
  BY DEF Positions
<1>6. Rotated \in SUBSET Cube
  BY ThetaType, RhoType, ZenonT(30)
<1>7. <<from, x, z>> \in Rotated <=> <<from, x, low>> \in theta(Ones)
  BY <1>1, <1>2, ThetaType, RhoBit, ZenonT(60)
<1>8. z \in ROL(After(from, x), n) <=> low \in After(from, x)
  BY <1>2, AfterType, Rolled
<1> HIDE DEF low
<1>9. <<from, x, low>> \in theta(Ones) <=> low \in After(from, x)
  BY <1>2, <1>5, ThetaBit
<1>10. Moved = pi(Rotated)
  BY DEF Moved
<1> HIDE DEF Rotated
<1>11. <<x, r, z>> \in Moved <=> <<from, x, z>> \in Rotated
  BY <1>6, <1>10, PiBit DEF from
<1> QED BY <1>4, <1>7, <1>8, <1>9, <1>11, ZenonT(30)

LEMMA MovedType == Moved \in SUBSET Cube
<1>1. \A T \in SUBSET Cube : pi(T) \in SUBSET Cube
  BY DEF pi, Cube
<1> QED BY <1>1, ThetaType, RhoType DEF Moved

\* A plane that a block writes is chi's.
LEMMA ChiBit ==
  ASSUME lanes \in State, Prepared, NEW r \in 0..4, NEW x \in 0..4, NEW z \in Positions
  PROVE  <<x, r, z>> \in chi(Moved) <=> z \in Plane(r, x)
<1> DEFINE next == (x + 1) % 5
           over == (x + 2) % 5
           Flipped == {c \in Cube : /\ <<(c[1] + 1) % 5, c[2], c[3]>> \notin Moved
                                    /\ <<(c[1] + 2) % 5, c[2], c[3]>> \in Moved}
<1>1. next \in 0..4 /\ over \in 0..4 /\ next % 5 = (x + 1) % 5 /\ over % 5 = (x + 2) % 5
  OBVIOUS
<1>2. BC(r, x + 1) = BC(r, next) /\ BC(r, x + 2) = BC(r, over)
  BY <1>1 DEF BC
<1>3. <<x, r, z>> \in Flipped <=> <<next, r, z>> \notin Moved /\ <<over, r, z>> \in Moved
  BY DEF Cube
<1>4. chi(Moved) = SymDiff(Moved, Flipped)
  BY DEF chi
<1> HIDE DEF next, over, Flipped
<1>5. /\ <<x, r, z>> \in Moved <=> z \in BC(r, x)
      /\ <<next, r, z>> \in Moved <=> z \in BC(r, next)
      /\ <<over, r, z>> \in Moved <=> z \in BC(r, over)
  BY <1>1, GatheredBit
<1>6. <<x, r, z>> \in chi(Moved) <=> ((<<x, r, z>> \in Moved) # (<<x, r, z>> \in Flipped))
  BY <1>4, XorBit
<1>7. z \in Plane(r, x) <=> ((z \in BC(r, x)) # (z \in BC(r, x + 2) \ BC(r, x + 1)))
  BY XorBit DEF Plane
<1>8. z \in BC(r, x + 2) \ BC(r, x + 1) <=> z \in BC(r, over) /\ z \notin BC(r, next)
  BY <1>2
<1>9. <<x, r, z>> \in Flipped <=> z \in BC(r, x + 2) \ BC(r, x + 1)
  BY <1>3, <1>5, <1>8
<1> QED BY <1>5, <1>6, <1>7, <1>9

LEMMA PlaneType ==
  ASSUME lanes \in State, Prepared, NEW r \in 0..4, NEW x \in 0..4
  PROVE  Plane(r, x) \in SUBSET Positions
<1>1. ASSUME NEW u \in 0..4 PROVE BC(r, u) \in SUBSET Positions
  <2> DEFINE from == (u + 3 * r) % 5
  <2>1. PICK n \in 0..63 : Gather[r + 1][u + 1] = <<from + 5 * u, n>>
    BY GathersAll, ZenonT(60) DEF GatherIs
  <2>2. from \in 0..4
    OBVIOUS
  <2> HIDE DEF from
  <2>3. (from + 5 * u) % 5 = from /\ u % 5 = u
    BY <2>2
  <2>4. BC(r, u) = ROL(After(from, u), n)
    BY <2>1, <2>3 DEF BC, After
  <2>5. 0 \in Positions
    BY DEF Positions
  <2>6. After(from, u) \in SUBSET Positions
    BY <2>2, AfterType
  <2>7. ROL(After(from, u), n) \in SUBSET Positions
    BY <2>5, <2>6, Rolled, SMTT(30)
  <2> QED BY <2>4, <2>7
<1>2. BC(r, x + 2) = BC(r, (x + 2) % 5)
  <2>1. ((x + 2) % 5) % 5 = (x + 2) % 5
    OBVIOUS
  <2> QED BY <2>1 DEF BC
<1>3. BC(r, x) \in SUBSET Positions /\ BC(r, (x + 2) % 5) \in SUBSET Positions
  BY <1>1
<1> QED BY <1>2, <1>3 DEF Plane, SymDiff

\* The cells that iota changes in round ir.
Constant(ir) == {<<0, 0, TwoTo[j] - 1>> : j \in {n \in 0..6 : rc(n + 7 * ir)}}

\* They are the ones of KeccakF_RoundConstants.
LEMMA ConstantBit ==
  ASSUME NEW ir \in 0..23, NEW x \in 0..4, NEW y \in 0..4, NEW z \in Positions
  PROVE  <<x, y, z>> \in Constant(ir) <=> x = 0 /\ y = 0 /\ z \in RoundConstants[ir + 1]
<1>1. \A n \in 0..6 : rc(n + 7 * ir) <=> Has(7 * ir + n, 0)
  <2>1. \A n \in 0..6 : (n + 7 * ir) % 255 = 7 * ir + n
    OBVIOUS
  <2> QED BY <2>1 DEF rc, Has
<1>2. BitsAre(RoundConstants[ir + 1], 7 * ir)
  BY ConstantBits
<1>3. z \in RoundConstants[ir + 1] <=> \E n \in 0..6 : z = TwoTo[n] - 1 /\ Has(7 * ir + n, 0)
  <2> DEFINE t == 7 * ir
  <2>1. t + 0 = t
    OBVIOUS
  <2> HIDE DEF t
  <2>2. (\E n \in 0..6 : z = TwoTo[n] - 1 /\ Has(t + n, 0))
          <=> \/ z = 0 /\ Has(t, 0)
              \/ z = 1 /\ Has(t + 1, 0)
              \/ z = 3 /\ Has(t + 2, 0)
              \/ z = 7 /\ Has(t + 3, 0)
              \/ z = 15 /\ Has(t + 4, 0)
              \/ z = 31 /\ Has(t + 5, 0)
              \/ z = 63 /\ Has(t + 6, 0)
    <3>1. (\E n \in 0..6 : z = TwoTo[n] - 1 /\ Has(t + n, 0))
            <=> \/ z = TwoTo[0] - 1 /\ Has(t + 0, 0)
                \/ z = TwoTo[1] - 1 /\ Has(t + 1, 0)
                \/ z = TwoTo[2] - 1 /\ Has(t + 2, 0)
                \/ z = TwoTo[3] - 1 /\ Has(t + 3, 0)
                \/ z = TwoTo[4] - 1 /\ Has(t + 4, 0)
                \/ z = TwoTo[5] - 1 /\ Has(t + 5, 0)
                \/ z = TwoTo[6] - 1 /\ Has(t + 6, 0)
      OBVIOUS
    <3> QED BY <2>1, <3>1, TwoToIs
  <2> QED BY <1>2, <2>2 DEF t, BitsAre
<1>4. <<x, y, z>> \in Constant(ir)
        <=> \E n \in 0..6 : x = 0 /\ y = 0 /\ z = TwoTo[n] - 1 /\ rc(n + 7 * ir)
  BY Zenon DEF Constant
<1> QED BY <1>1, <1>3, <1>4

\* The lanes that a round leaves.
Permuted == [l \in Lanes |-> IF l = 0 THEN SymDiff(Plane(0, 0), RoundConstants[round + 1])
                             ELSE Plane(l \div 5, l % 5)]

\* A bit that a round leaves is that of Keccak's round.
LEMMA RoundBit ==
  ASSUME lanes \in State, Prepared, round \in 0..23,
         NEW x \in 0..4, NEW y \in 0..4, NEW z \in Positions
  PROVE  <<x, y, z>> \in KeccakRound(Ones, round) <=> z \in Permuted[x + 5 * y]
<1>1. KeccakRound(Ones, round) = SymDiff(chi(Moved), Constant(round))
  BY DEF KeccakRound, iota, Moved, Constant
<1>2. <<x, y, z>> \in KeccakRound(Ones, round)
        <=> ((<<x, y, z>> \in chi(Moved)) # (<<x, y, z>> \in Constant(round)))
  BY <1>1, XorBit
<1>3. <<x, y, z>> \in chi(Moved) <=> z \in Plane(y, x)
  BY ChiBit
<1>4. <<x, y, z>> \in Constant(round) <=> x = 0 /\ y = 0 /\ z \in RoundConstants[round + 1]
  BY ConstantBit, Zenon
<1>5. x + 5 * y \in Lanes /\ (x + 5 * y = 0 <=> x = 0 /\ y = 0)
      /\ (x + 5 * y) \div 5 = y /\ (x + 5 * y) % 5 = x
  BY DEF Lanes
<1>6. CASE x = 0 /\ y = 0
  <2>1. Permuted[x + 5 * y] = SymDiff(Plane(0, 0), RoundConstants[round + 1])
    BY <1>5, <1>6 DEF Permuted
  <2>2. z \in Permuted[x + 5 * y] <=> ((z \in Plane(0, 0)) # (z \in RoundConstants[round + 1]))
    BY <2>1, XorBit
  <2> QED BY <1>2, <1>3, <1>4, <1>6, <2>2
<1>7. CASE ~(x = 0 /\ y = 0)
  <2>1. Permuted[x + 5 * y] = Plane(y, x)
    BY <1>5, <1>7 DEF Permuted
  <2> QED BY <1>2, <1>3, <1>4, <1>7, <2>1
<1> QED BY <1>6, <1>7

LEMMA PermutedType ==
  ASSUME lanes \in State, Prepared, round \in 0..23
  PROVE  Permuted \in State /\ KeccakRound(Ones, round) \in SUBSET Cube
<1>1. RoundConstants[round + 1] \in SUBSET Positions
  BY DEF RoundConstants, Positions
<1>2. Plane(0, 0) \in SUBSET Positions
  BY PlaneType
<1>3. SymDiff(Plane(0, 0), RoundConstants[round + 1]) \in SUBSET Positions
  BY <1>1, <1>2 DEF SymDiff
<1>4. \A l \in Lanes : Plane(l \div 5, l % 5) \in SUBSET Positions
  <2>1. \A l \in Lanes : l \div 5 \in 0..4 /\ l % 5 \in 0..4
    BY DEF Lanes
  <2> QED BY <2>1, PlaneType
<1>5. Permuted \in State
  BY <1>3, <1>4 DEF Permuted, State
<1>6. chi(Moved) \in SUBSET Cube
  BY MovedType DEF chi, SymDiff
<1>7. Constant(round) \in SUBSET Cube
  <2>1. \A j \in 0..6 : TwoTo[j] - 1 \in Positions
    BY TwoToIs DEF Positions
  <2>2. \A j \in 0..6 : <<0, 0, TwoTo[j] - 1>> \in Cube
    BY <2>1 DEF Cube
  <2> QED BY <2>2 DEF Constant
<1>8. KeccakRound(Ones, round) = SymDiff(chi(Moved), Constant(round))
  BY DEF KeccakRound, iota, Moved, Constant
<1>9. KeccakRound(Ones, round) \in SUBSET Cube
  BY <1>6, <1>7, <1>8 DEF SymDiff
<1> QED BY <1>5, <1>9

-----------------------------------------------------------------------------
\* What every step keeps: theta's sums are of the lanes as they are.
PermuteInv ==
  /\ lanes \in State
  /\ round \in 0..NROUNDS /\ prepared \in BOOLEAN
  /\ prepared => round < NROUNDS /\ Prepared
  /\ PermutesAsKeccak

\* Whatever state the permutation is called on, each of its 24 unrolled rounds
\* (KeccakF1600_StatePermute) leaves iota(chi(pi(rho(theta(S))))) of the state S
\* before it.
THEOREM RoundsAreKeccak == PermuteSpec => []PermutesAsKeccak
<1>1. PermuteInit => PermuteInv
  <2> SUFFICES ASSUME PermuteInit PROVE PermuteInv
    OBVIOUS
  <2>1. lanes \in State
    BY StartsAssumption DEF PermuteInit, State
  <2>2. round = 0 /\ prepared = FALSE /\ round \in 0..NROUNDS
    BY DEF PermuteInit, NROUNDS
  <2>3. PermutesAsKeccak
    <3>1. ~(round > 0)
      BY <2>2
    <3> QED BY <3>1, Zenon DEF PermutesAsKeccak
  <2>4. prepared \in BOOLEAN /\ ~prepared
    BY <2>2
  <2> QED BY <2>1, <2>2, <2>3, <2>4, Zenon DEF PermuteInv
<1>2. PermuteInv /\ [PermuteNext]_permuteVars => PermuteInv'
  <2> SUFFICES ASSUME PermuteInv, [PermuteNext]_permuteVars PROVE PermuteInv'
    OBVIOUS
  <2>1. CASE prepareTheta
    <3>1. lanes' = lanes /\ round' = round /\ before' = before /\ prepared' = TRUE /\ round < NROUNDS
      BY <2>1 DEF prepareTheta
    <3>2. Prepared'
      <4>1. \A x \in 0..4 : Parity(x)' = Parity(x)
        BY <3>1 DEF Parity
      <4>2. Prepared' <=> mixed' = [x \in 0..4 |-> SymDiff(Parity((x + 4) % 5), ROL(Parity((x + 1) % 5), 1))]
        BY <3>1 DEF Prepared, Parity
      <4> QED BY <2>1, <4>2 DEF prepareTheta
    <3> QED BY <3>1, <3>2 DEF PermuteInv, PermutesAsKeccak
  <2>2. CASE thetaRhoPiChiIota
    <3>1. lanes' = Permuted /\ before' = Ones /\ round' = round + 1 /\ prepared' = FALSE
      BY <2>2 DEF thetaRhoPiChiIota, Permuted
    <3>2. Prepared /\ lanes \in State /\ round \in 0..23
      BY <2>2 DEF thetaRhoPiChiIota, PermuteInv, NROUNDS
    <3>3. Permuted \in State /\ KeccakRound(Ones, round) \in SUBSET Cube
      BY <3>2, PermutedType
    <3>4. Ones' = {c \in Cube : c[3] \in Permuted[c[1] + 5 * c[2]]}
      BY <3>1 DEF Ones
    <3>5. ASSUME NEW c \in Cube
          PROVE  c \in KeccakRound(Ones, round) <=> c[3] \in Permuted[c[1] + 5 * c[2]]
      <4>1. c = <<c[1], c[2], c[3]>> /\ c[1] \in 0..4 /\ c[2] \in 0..4 /\ c[3] \in Positions
        BY DEF Cube
      <4>2. <<c[1], c[2], c[3]>> \in KeccakRound(Ones, round) <=> c[3] \in Permuted[c[1] + 5 * c[2]]
        BY <3>2, <4>1, RoundBit
      <4> QED BY <4>1, <4>2
    <3>6. Ones' = KeccakRound(Ones, round)
      BY <3>3, <3>4, <3>5
    <3>7. round' - 1 = round /\ round' \in 0..NROUNDS
      BY <3>1, <3>2 DEF NROUNDS
    <3>8. KeccakRound(before, round - 1)' = KeccakRound(before', round' - 1)
      BY DEF KeccakRound, iota, chi, pi, rho, theta
    <3>9. PermutesAsKeccak'
      BY <3>1, <3>6, <3>7, <3>8 DEF PermutesAsKeccak
    <3> QED BY <3>1, <3>3, <3>7, <3>9 DEF PermuteInv
  <2>3. CASE UNCHANGED permuteVars
    <3>1. lanes' = lanes /\ mixed' = mixed /\ round' = round /\ prepared' = prepared /\ before' = before
      BY <2>3 DEF permuteVars
    <3> QED BY <3>1 DEF PermuteInv, PermutesAsKeccak, Prepared, Parity, Ones
  <2> QED BY <2>1, <2>2, <2>3 DEF PermuteNext
<1>3. PermuteInv => PermutesAsKeccak
  BY DEF PermuteInv
<1> QED BY <1>1, <1>2, <1>3, PTL DEF PermuteSpec
=============================================================================
