----------------------------- MODULE KeccakInc ------------------------------
(***************************************************************************)
(* The incremental sponge of common/fips202.c: keccak_inc_init, _absorb,   *)
(* _finalize and _squeeze, with one action per pass of their outer loops,  *)
(* called with any lengths, and the one-shot keccak_absorb and             *)
(* keccak_squeezeblocks as the reference.                                  *)
(*                                                                         *)
(* The sponge never looks at a byte, so the n-th input byte is the symbol  *)
(* n, a state byte is the set of symbols xored into it since the last      *)
(* permutation, and the permutation is a function without collisions: the  *)
(* state is known by "blocks", the states that entered a permutation.      *)
(***************************************************************************)
EXTENDS Integers, Sequences, FiniteSetsExt

CONSTANTS R,         \* rate in bytes: 168 for SHAKE128, 136 for SHAKE256
          MaxIn,     \* bound: input bytes
          MaxOut     \* bound: output bytes

ASSUME RateAssumption == R \in Nat \ {0} /\ MaxIn \in Nat /\ MaxOut \in Nat

Lane == 0..(R - 1)

VARIABLES pc,
          blocks,    \* the states permuted so far
          cells,     \* the symbols in the state's bytes since then
          pos,       \* s_inc[25]
          left,      \* mlen or outlen of the call in progress
          total,     \* input bytes consumed so far
          absorbed,  \* length of blocks when keccak_inc_finalize returned
          out        \* output: byte "lane" after "perm" permutations

vars == <<pc, blocks, cells, pos, left, total, absorbed, out>>

\* Symbols that are not input bytes: p and the final bit 128.
DomainByte == -1
FinalBit   == -2

Empty == [b \in Lane |-> {}]

\* c with the n next input bytes, the symbols from first on, xored in from
\* byte at on.
XorInputNoOffset(c, at, n, first) ==
  [b \in Lane |-> IF b \in at..(at + n - 1) THEN SymDiff(c[b], {first + b}) ELSE c[b]]
XorInput(c, at, n, first) ==
  [b \in Lane |-> IF b \in at..(at + n - 1) THEN SymDiff(c[b], {first + (b - at)}) ELSE c[b]]

\* keccak_inc_init
Init ==
  /\ pc = "absorbing" /\ blocks = << >> /\ cells = Empty /\ pos = 0
  /\ left = 0 /\ total = 0 /\ absorbed = 0 /\ out = << >>

(***************************************************************************)
(* keccak_inc_absorb                                                       *)
(***************************************************************************)
AbsorbCall ==
  /\ pc = "absorbing"
  /\ \E n \in 0..(MaxIn - total) : left' = n
  /\ pc' = "absorb"
  /\ UNCHANGED <<blocks, cells, pos, total, absorbed, out>>

\* One pass of the loop: while (mlen + s_inc[25] >= r)
FullBlock == left + pos >= R

AbsorbBlock ==
  /\ pc = "absorb" /\ FullBlock
  /\ blocks' = Append(blocks, XorInput(cells, pos, R - pos, total))
  /\ cells' = Empty
  /\ left' = left - (R - pos)
  /\ total' = total + (R - pos)
  /\ pos' = 0
  /\ UNCHANGED <<pc, absorbed, out>>

\* The rest of the input, which does not fill a block.
AbsorbRest ==
  /\ pc = "absorb" /\ ~FullBlock
  /\ cells' = XorInput(cells, pos, left, total)
  /\ total' = total + left
  /\ pos' = pos + left
  /\ left' = 0
  /\ pc' = "absorbing"
  /\ UNCHANGED <<blocks, absorbed, out>>

(***************************************************************************)
(* keccak_inc_finalize                                                     *)
(***************************************************************************)
PadOverwrites(c, at) ==
  [b \in Lane |-> IF b = R - 1 THEN {FinalBit} ELSE IF b = at THEN {DomainByte} ELSE c[b]]
Pad(c, at) ==
  [b \in Lane |-> SymDiff(SymDiff(c[b], IF b = at THEN {DomainByte} ELSE {}),
                      IF b = R - 1 THEN {FinalBit} ELSE {})]

Finalize ==
  /\ pc = "absorbing"
  /\ cells' = Pad(cells, pos)
  /\ pos' = 0
  /\ absorbed' = Len(blocks)
  /\ pc' = "squeezing"
  /\ UNCHANGED <<blocks, left, total, out>>

(***************************************************************************)
(* keccak_inc_squeeze                                                      *)
(***************************************************************************)
\* n bytes of the state after perm permutations, from byte at on.
Read(perm, at, n) == [x \in 1..n |-> [perm |-> perm, lane |-> at + x - 1]]

AtMost(a, b) == IF a < b THEN a ELSE b

\* The call, and the bytes the previous call left over.
LeftoverFromStart == 0
Leftover == R - pos

SqueezeCall ==
  /\ pc = "squeezing"
  /\ \E n \in 0..(MaxOut - Len(out)) :
       LET i == AtMost(n, pos) IN
       /\ out' = out \o Read(Len(blocks), Leftover, i)
       /\ left' = n - i
       /\ pos' = pos - i
  /\ pc' = "squeeze"
  /\ UNCHANGED <<blocks, cells, total, absorbed>>

\* One pass of the loop: while (outlen > 0)
SqueezeBlock ==
  /\ pc = "squeeze" /\ left > 0
  /\ blocks' = Append(blocks, cells)
  /\ cells' = Empty
  /\ LET i == AtMost(left, R) IN
       /\ out' = out \o Read(Len(blocks'), 0, i)
       /\ left' = left - i
       /\ pos' = R - i
  /\ UNCHANGED <<pc, total, absorbed>>

SqueezeReturn ==
  /\ pc = "squeeze" /\ left = 0
  /\ pc' = "squeezing"
  /\ UNCHANGED <<blocks, cells, pos, left, total, absorbed, out>>

Next == AbsorbCall \/ AbsorbBlock \/ AbsorbRest \/ Finalize
          \/ SqueezeCall \/ SqueezeBlock \/ SqueezeReturn

Spec == Init /\ [][Next]_vars

-----------------------------------------------------------------------------
(***************************************************************************)
(* The one-shot functions: keccak_absorb of len bytes takes whole blocks   *)
(* and then a padded one; keccak_squeezeblocks permutes once per block.    *)
(***************************************************************************)
OneShotBlock(k) == [b \in Lane |-> {(k - 1) * R + b}]

OneShotLast(len) ==
  LET rest == len % R IN
  [b \in Lane |-> (IF b < rest THEN {(len - rest) + b} ELSE {})
                    \cup (IF b = rest THEN {DomainByte} ELSE {})
                    \cup (IF b = R - 1 THEN {FinalBit} ELSE {})]

OneShotByte(len, n) ==
  [perm |-> (len \div R) + 1 + ((n - 1) \div R), lane |-> (n - 1) % R]

Absorbing == pc \in {"absorbing", "absorb"}

\* The type of every variable; a byte of output is a byte of the rate.
TypeOK ==
  /\ pc \in {"absorbing", "absorb", "squeezing", "squeeze"}
  /\ blocks \in Seq([Lane -> SUBSET (Nat \cup {DomainByte, FinalBit})])
  /\ cells \in [Lane -> SUBSET (Nat \cup {DomainByte, FinalBit})]
  /\ pos \in Nat /\ left \in Nat /\ total \in Nat /\ absorbed \in Nat
  /\ out \in Seq([perm : Nat, lane : Lane])

\* The comment in keccak_inc_finalize: s_inc[25] < r after any absorb, so
\* that the domain byte has a place in the current block.
PosBelowRate == Absorbing => pos < R

\* Every block that entered the permutation while absorbing is the block the
\* one-shot function would have absorbed, whatever the calls' lengths.
AbsorbsAsOneShot ==
  /\ \A b \in 1..Len(blocks) :
       Absorbing \/ b <= absorbed => blocks[b] = OneShotBlock(b)
  /\ ~Absorbing => absorbed = total \div R
  /\ ~Absorbing /\ Len(blocks) > absorbed =>
       blocks[absorbed + 1] = OneShotLast(total)
  /\ ~Absorbing /\ Len(blocks) = absorbed => cells = OneShotLast(total)

\* The bytes squeezed so far are the one-shot function's first bytes: none
\* is skipped, repeated or read from a state permuted too often.
SqueezesAsOneShot ==
  \A n \in 1..Len(out) : out[n] = OneShotByte(total, n)

(***************************************************************************)
(* The calls implement Xof.  A byte of output is known by the states that  *)
(* were permuted before it and its place in the state; the stream is the   *)
(* one-shot function's.                                                    *)
(***************************************************************************)
OneShotPermuted(len, p) ==
  [b \in 1..p |-> IF b <= len \div R THEN OneShotBlock(b)
                  ELSE IF b = (len \div R) + 1 THEN OneShotLast(len)
                  ELSE Empty]

StreamByte(len, n) ==
  LET x == OneShotByte(len, n) IN <<OneShotPermuted(len, x.perm), x.lane>>

BytesRead ==
  [n \in 1..Len(out) |-> <<SubSeq(blocks, 1, out[n].perm), out[n].lane>>]

X == INSTANCE Xof WITH phase <- IF Absorbing THEN "absorb" ELSE "squeeze",
                       out <- BytesRead

\* However the calls cut the input and the output, the bytes squeezed are
\* the one-shot functions' stream of the whole input, in order.
ImplementsXof == X!XofSpec
=============================================================================
