----------------------------- MODULE RejSampler -----------------------------
(***************************************************************************)
(* The rejection samplers of common/poly.c: poly_uniform with rej_uniform, *)
(* which takes a coefficient from every 3 bytes of SHAKE128, and           *)
(* poly_uniform_eta with rej_eta, which takes two from every byte of       *)
(* SHAKE256.  Both read a buffer of blocks and squeeze one block more when *)
(* it runs out; what is left of a group of 3 bytes is carried to the front *)
(* (never the case for the rate 168, which 3 divides, but for others).     *)
(*                                                                         *)
(* The n-th byte of the stream is the symbol n, and whether a candidate is *)
(* below the limit is a free choice: the stream is random.                 *)
(***************************************************************************)
EXTENDS Params, Integers, Sequences

CONSTANTS
  BLOCKS,     \* block lengths, 168 and 136
  NBLOCKS,    \* blocks squeezed at first, 5 and 1
  MaxStream   \* bound: bytes squeezed

\* Per function: the bytes a group takes, the coefficients it may yield, and
\* the room in the buffer for a group that was cut.
Uniform == [bytes |-> 3, parts |-> {1}, spare |-> 2]
Eta     == [bytes |-> 1, parts |-> {1, 2}, spare |-> 0]

ASSUME SamplerAssumption ==
  /\ N \in Nat \ {0} /\ NBLOCKS \in Nat \ {0} /\ MaxStream \in Nat
  /\ BLOCKS \subseteq Nat \ {0}

VARIABLES fn,        \* the function called
          block,     \* its block length
          buf, buflen, pos,
          squeezed,  \* bytes of the stream squeezed so far
          a,         \* the coefficients sampled: group and part of each
          groups     \* history: the groups read, with the parts accepted

vars == <<fn, block, buf, buflen, pos, squeezed, a, groups>>

Size  == NBLOCKS * block + fn.spare   \* of the array buf
Unset == 0   \* a byte of the buffer that was not written yet

Init ==
  /\ fn \in {Uniform, Eta} /\ block \in BLOCKS
  /\ buflen = NBLOCKS * block
  /\ buf = [i \in 0..(Size - 1) |-> IF i < buflen THEN i + 1 ELSE Unset]
  /\ squeezed = buflen /\ pos = 0
  /\ a = << >> /\ groups = << >>

\* ctr < len, tested before a group and again before its second part.
RoomUnchecked(s) == TRUE
Room(s) == Len(s) < N

\* The coefficients after group g, of which the parts in ok are below the limit.
Sampled(g, ok) ==
  LET first == IF 1 \in ok THEN Append(a, <<g, 1>>) ELSE a
  IN IF 2 \in ok /\ Room(first) THEN Append(first, <<g, 2>>) ELSE first

\* One pass of the loop of rej_uniform or rej_eta.
Group ==
  /\ Room(a) /\ pos + fn.bytes <= buflen
  /\ \E ok \in SUBSET fn.parts :
       /\ groups' = Append(groups,
            [bytes |-> [j \in 1..fn.bytes |-> buf[pos + j - 1]], ok |-> ok])
       /\ a' = Sampled(Len(groups) + 1, ok)
  /\ pos' = pos + fn.bytes
  /\ UNCHANGED <<fn, block, buf, buflen, squeezed>>

\* The bytes of a group that the buffer cuts, and where they go.
CarryOne(len) == IF len % fn.bytes = 0 THEN 0 ELSE 1
Carry(len) == len % fn.bytes

\* a->coeffs + ctr, ctr += ...: the coefficients sampled before stay.
FromStart(s) == << >>
Onwards(s)   == s

\* One pass of while (ctr < N): the rest moves to the front, and a block
\* follows it.
Refill ==
  /\ Len(a) < N /\ pos + fn.bytes > buflen
  /\ squeezed + block <= MaxStream
  /\ LET off == Carry(buflen) IN
       /\ buf' = [i \in DOMAIN buf |->
                    IF i < off THEN buf[buflen - off + i]
                    ELSE IF i < off + block THEN squeezed + (i - off) + 1
                    ELSE buf[i]]
       /\ buflen' = block + off
  /\ pos' = 0 /\ squeezed' = squeezed + block
  /\ a' = Onwards(a)
  /\ UNCHANGED <<fn, block, groups>>

Next == Group \/ Refill

Spec == Init /\ [][Next]_vars

-----------------------------------------------------------------------------
\* The buffer has room for what is put there, and the polynomial too; every
\* byte that is read was written.
TypeOK ==
  /\ fn \in {Uniform, Eta} /\ block \in BLOCKS
  /\ buf \in [0..(Size - 1) -> Nat]
  /\ buflen \in 0..Size
  /\ pos \in 0..buflen /\ squeezed \in Nat
  /\ \A i \in pos..(buflen - 1) : buf[i] # Unset
  /\ Len(a) <= N

\* The groups are the stream cut into pieces of equal length: no byte is
\* skipped, read twice or read from an earlier block, wherever blocks end.
ReadsStreamInOrder ==
  \A g \in 1..Len(groups) :
    groups[g].bytes = [j \in 1..fn.bytes |-> (g - 1) * fn.bytes + j]

\* The polynomial is the accepted candidates of the stream in order, up to N
\* of them: refilling the buffer neither drops nor moves a coefficient, and a
\* second one from the last byte does not land behind the array.
Before(x, y) == x[1] < y[1] \/ (x[1] = y[1] /\ x[2] < y[2])

SamplesAcceptedInOrder ==
  /\ Len(a) <= N
  /\ \A k \in 1..(Len(a) - 1) : Before(a[k], a[k + 1])
  /\ \A k \in 1..Len(a) : a[k][2] \in groups[a[k][1]].ok
  /\ \A g \in 1..Len(groups) : \A p \in groups[g].ok :
       \/ \E k \in 1..Len(a) : a[k] = <<g, p>>
       \/ Len(a) = N /\ Before(a[N], <<g, p>>)
=============================================================================
