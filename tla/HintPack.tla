------------------------------ MODULE HintPack ------------------------------
(***************************************************************************)
(* The hint part of a signature: the loops of pack_sig and unpack_sig in   *)
(* common/packing.c that write the vector h into OMEGA + K bytes and read  *)
(* it back.  Bytes 0..OMEGA-1 list the positions of the ones row by row,   *)
(* byte OMEGA+i is the number of ones in rows 0..i.                        *)
(*                                                                         *)
(* A behaviour packs some h and unpacks the result, or unpacks bytes that  *)
(* came from anywhere.  One action per pass of a loop.                     *)
(***************************************************************************)
EXTENDS Integers, FiniteSets

CONSTANTS K, N, OMEGA     \* 4 rows of 256 coefficients, 80 ones at most

\* A position fits a byte exactly (N = 256), and so does a counter.
ASSUME HintAssumption ==
  /\ K \in Nat \ {0} /\ N \in Nat /\ OMEGA \in Nat
  /\ OMEGA < N

Byte  == 0..(N - 1)
Rows  == 0..(K - 1)
Cells == 0..(OMEGA + K - 1)
Hints == [Rows -> [Byte -> {0, 1}]]

VARIABLES pc,
          h,        \* the vector packed
          sig,      \* the OMEGA + K bytes
          out,      \* the vector unpacked
          i, j, k,  \* the loop variables of the function that runs
          ret       \* result of unpack_sig: 0, 1, or 2 before it returns

vars == <<pc, h, sig, out, i, j, k, ret>>

\* The ones of h, and how many make_hint lets through to pack_sig.
OnesOf(v) == {p \in Rows \X Byte : v[p[1]][p[2]] = 1}
PackableOneMore(v) == Cardinality(OnesOf(v)) <= OMEGA + 1
Packable(v) == Cardinality(OnesOf(v)) <= OMEGA

Zeros == [c \in Cells |-> 0]
ZeroRow == [x \in Byte |-> 0]

\* The local polyveck is not initialised: the rows hold anything.
Garbage == {[r \in Rows |-> [x \in Byte |-> g]] : g \in {0, 1}}

\* h where nothing is packed first: a vector that pack_sig is never given.
NothingPacked == [r \in Rows |-> [x \in Byte |-> 1]]

InitPack ==
  /\ pc = "pack" /\ h \in Hints /\ Packable(h) /\ sig = Zeros

InitUnpack ==
  /\ pc = "unpackRow" /\ sig \in [Cells -> Byte]
  /\ h = NothingPacked

Init ==
  /\ InitPack \/ InitUnpack
  /\ out \in Garbage
  /\ i = 0 /\ j = 0 /\ k = 0 /\ ret = 2

(***************************************************************************)
(* pack_sig                                                                *)
(***************************************************************************)
\* One coefficient: if (h[i][j] != 0) sig[k++] = j;
PackCoeff ==
  /\ pc = "pack" /\ i < K /\ j < N
  /\ IF h[i][j] # 0
       THEN sig' = [sig EXCEPT ![k] = j] /\ k' = k + 1
       ELSE UNCHANGED <<sig, k>>
  /\ j' = j + 1
  /\ UNCHANGED <<pc, h, out, i, ret>>

\* The end of a row: sig[OMEGA + i] = k;
PackRow ==
  /\ pc = "pack" /\ i < K /\ j = N
  /\ sig' = [sig EXCEPT ![OMEGA + i] = k]
  /\ i' = i + 1 /\ j' = 0
  /\ UNCHANGED <<pc, h, out, k, ret>>

\* pack_sig returns; the bytes go to a call of unpack_sig.
PackReturn ==
  /\ pc = "pack" /\ i = K
  /\ pc' = "unpackRow" /\ i' = 0 /\ j' = 0 /\ k' = 0
  /\ UNCHANGED <<h, sig, out, ret>>

(***************************************************************************)
(* unpack_sig                                                              *)
(***************************************************************************)
Fail == ret' = 1 /\ pc' = "done"

\* A counter that goes back, or that leaves the list of positions.
BadCounterNoLimit(count) == count < k
BadCounter(count) == count < k \/ count > OMEGA

\* Within a row the positions increase strictly.
BadOrderAcrossRows == j > 0 /\ sig[j] <= sig[j - 1]
BadOrder == j > k /\ sig[j] <= sig[j - 1]

\* The start of row i.
UnpackRow ==
  /\ pc = "unpackRow" /\ i < K
  /\ out' = [out EXCEPT ![i] = ZeroRow]
  /\ IF BadCounter(sig[OMEGA + i])
       THEN Fail /\ UNCHANGED j
       ELSE j' = k /\ pc' = "unpackIndex" /\ UNCHANGED ret
  /\ UNCHANGED <<h, sig, i, k>>

\* One position of row i.
UnpackIndex ==
  /\ pc = "unpackIndex" /\ j < sig[OMEGA + i]
  /\ IF BadOrder
       THEN Fail /\ UNCHANGED <<out, j>>
       ELSE /\ out' = [out EXCEPT ![i][sig[j]] = 1]
            /\ j' = j + 1
            /\ UNCHANGED <<pc, ret>>
  /\ UNCHANGED <<h, sig, i, k>>

\* The end of row i: k = sig[OMEGA + i];
UnpackNext ==
  /\ pc = "unpackIndex" /\ j >= sig[OMEGA + i]
  /\ k' = sig[OMEGA + i]
  /\ i' = i + 1
  /\ pc' = "unpackRow"
  /\ UNCHANGED <<h, sig, out, j, ret>>

\* All rows are read: the unused positions are next.
UnpackRows ==
  /\ pc = "unpackRow" /\ i = K
  /\ j' = k /\ pc' = "padding"
  /\ UNCHANGED <<h, sig, out, i, k, ret>>

\* A position past the last row's that is used nevertheless.
PaddingIgnored == FALSE
PaddingUsed == sig[j] # 0

Padding ==
  /\ pc = "padding" /\ j < OMEGA
  /\ IF PaddingUsed
       THEN Fail /\ UNCHANGED j
       ELSE j' = j + 1 /\ UNCHANGED <<pc, ret>>
  /\ UNCHANGED <<h, sig, out, i, k>>

UnpackReturn ==
  /\ pc = "padding" /\ j >= OMEGA
  /\ ret' = 0 /\ pc' = "done"
  /\ UNCHANGED <<h, sig, out, i, j, k>>

Returned == pc = "done" /\ UNCHANGED vars

Next == \/ PackCoeff \/ PackRow \/ PackReturn
        \/ UnpackRow \/ UnpackIndex \/ UnpackNext \/ UnpackRows
        \/ Padding \/ UnpackReturn
        \/ Returned

Spec == Init /\ [][Next]_vars

-----------------------------------------------------------------------------
(***************************************************************************)
(* What the bytes mean                                                     *)
(***************************************************************************)
\* The cells of the positions of row r.
First(s, r)   == IF r = 0 THEN 0 ELSE s[OMEGA + r - 1]
Segment(s, r) == First(s, r)..(s[OMEGA + r] - 1)

\* s encodes v: counters never go back and stay within OMEGA, the positions
\* of a row are strictly increasing and are the row's ones, the rest is zero.
Encodes(s, v) ==
  /\ \A r \in Rows : First(s, r) <= s[OMEGA + r] /\ s[OMEGA + r] <= OMEGA
  /\ \A r \in Rows : \A p, q \in Segment(s, r) : p < q => s[p] < s[q]
  /\ \A r \in Rows : \A x \in Byte :
       v[r][x] = IF \E p \in Segment(s, r) : s[p] = x THEN 1 ELSE 0
  /\ \A p \in s[OMEGA + K - 1]..(OMEGA - 1) : s[p] = 0

\* The type of every variable, and where the loop variables range.
TypeOK ==
  /\ pc \in {"pack", "unpackRow", "unpackIndex", "padding", "done"}
  /\ h \in Hints /\ out \in Hints /\ sig \in [Cells -> Byte]
  /\ i \in 0..K /\ j \in 0..N /\ k \in 0..OMEGA /\ ret \in {0, 1, 2}

\* Both loops stay inside the bytes they own.  pack_sig has no bound of its
\* own and relies on the number of ones its caller counted: the positions it
\* writes stay in front of the counters.  unpack_sig reads up to a counter
\* that came with the bytes: a cell of the list, and before it one of the
\* same row.
StaysInside ==
  /\ pc = "pack" /\ i < K /\ j < N => (h[i][j] # 0 => k < OMEGA)
  /\ pc = "unpackIndex" /\ j < sig[OMEGA + i] =>
       j < OMEGA /\ (j > k => j - 1 \in First(sig, i)..(OMEGA - 1))

\* Packing and unpacking gives the vector back, and is never refused.
RoundTrip == pc = "done" /\ Packable(h) => ret = 0 /\ out = h

\* Bytes that are accepted encode the vector they are read as, and no others
\* do: the checks on counters, order and padding, "for strong
\* unforgeability", leave no second string for a signature.
OneEncoding ==
  ret = 0 => \A s \in [Cells -> Byte] : Encodes(s, out) <=> s = sig
=============================================================================
