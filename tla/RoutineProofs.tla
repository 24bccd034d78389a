--------------------------- MODULE RoutineProofs ---------------------------
(***************************************************************************)
(* The routines that run for themselves: the rejection samplers, the       *)
(* challenge, randombytes, the copies of sign and open, and the number     *)
(* theoretic transform.  Each has an inductive invariant of its own, for   *)
(* every value of the constants.                                           *)
(***************************************************************************)
EXTENDS RejSampler, Challenge, Ntt, RandomBytes, SignedMessage, RingProofs

(***************************************************************************)
(* The rejection samplers read their stream once and in order, for every   *)
(* number of coefficients, every block length and any number of blocks.    *)
(*                                                                         *)
(* Window is the inductive part: what the buffer holds from pos on are the *)
(* bytes of the stream that follow the groups already read.  A refill      *)
(* keeps it because pos is a multiple of the group, so that buflen % 3     *)
(* bytes are exactly the ones that were not read.                          *)
(***************************************************************************)
Typed ==
  /\ fn \in {Uniform, Eta} /\ block \in BLOCKS
  /\ buf \in [0..(Size - 1) -> Nat]
  /\ buflen \in 0..Size
  /\ pos \in 0..buflen
  /\ squeezed \in Nat /\ buflen <= squeezed
  /\ a \in Seq(Nat \X {1, 2}) /\ Len(a) <= N
  /\ groups \in Seq([bytes : [1..fn.bytes -> Nat], ok : SUBSET fn.parts])

Window ==
  /\ pos % fn.bytes = 0
  /\ Len(groups) * fn.bytes = squeezed - buflen + pos
  /\ \A e \in pos..(buflen - 1) : buf[e] = squeezed - buflen + e + 1

IInv == Typed /\ Window /\ ReadsStreamInOrder

\* The array is longer than a block by what a group that was cut may need.
LEMMA BufferRoom ==
  ASSUME NEW b \in BLOCKS
  PROVE  NBLOCKS * b \in Nat /\ b \in Nat \ {0} /\ b <= NBLOCKS * b
<1>1. NBLOCKS \in Nat /\ NBLOCKS >= 1 /\ b \in Nat /\ b >= 1
  BY SamplerAssumption
<1>2. \A j, n \in Nat : j >= 1 => j * n \in Nat /\ n <= j * n
  BY Z3
<1> QED BY <1>1, <1>2

\* The cut group: its bytes are those that were not read.
LEMMA CarryIsRest ==
  ASSUME fn \in {Uniform, Eta}, buflen \in Nat, pos \in 0..buflen,
         pos % fn.bytes = 0, pos + fn.bytes > buflen
  PROVE  Carry(buflen) = buflen - pos /\ Carry(buflen) \in 0..fn.spare
<1>1. CASE fn = Uniform
  BY <1>1 DEF Uniform, Carry
<1>2. CASE fn = Eta
  BY <1>2 DEF Eta, Carry
<1> QED BY <1>1, <1>2

LEMMA InitIInv == Init => IInv
<1> SUFFICES ASSUME Init PROVE IInv
  OBVIOUS
<1> USE DEF Init
<1>1. NBLOCKS * block \in Nat /\ block \in Nat \ {0}
  BY BufferRoom
<1>2. fn.spare \in Nat /\ fn.bytes \in {1, 3}
  BY DEF Uniform, Eta
<1>3. Typed
  <2>1. Size \in Nat /\ buflen \in 0..Size /\ buflen \in Nat
    BY <1>1, <1>2 DEF Size
  <2>2. buf \in [0..(Size - 1) -> Nat]
    BY <2>1 DEF Unset
  <2>3. a \in Seq(Nat \X {1, 2}) /\ Len(a) <= N
    BY SamplerAssumption
  <2>4. groups \in Seq([bytes : [1..fn.bytes -> Nat], ok : SUBSET fn.parts])
    OBVIOUS
  <2> QED BY <2>1, <2>2, <2>3, <2>4 DEF Typed
<1>4. Window
  <2>1. 0 % fn.bytes = 0 /\ 0 * fn.bytes = 0 /\ Len(groups) = 0
    BY <1>2
  <2>2. buflen \in Nat /\ squeezed = buflen /\ pos = 0
    BY <1>1
  <2>3. ASSUME NEW e \in 0..(buflen - 1) PROVE buf[e] = e + 1
    <3>1. e \in 0..(Size - 1)
      BY <1>1, <1>2, <2>2 DEF Size
    <3> QED BY <3>1, <2>2
  <2> QED BY <2>1, <2>2, <2>3 DEF Window
<1>5. ReadsStreamInOrder
  BY DEF ReadsStreamInOrder
<1> QED BY <1>3, <1>4, <1>5 DEF IInv

\* What Append does to the samples.
LEMMA AppendSample ==
  ASSUME NEW s \in Seq(Nat \X {1, 2}), NEW x \in Nat \X {1, 2}
  PROVE  /\ Append(s, x) \in Seq(Nat \X {1, 2})
         /\ Len(Append(s, x)) = Len(s) + 1
         /\ Append(s, x)[Len(s) + 1] = x
         /\ \A n \in 1..Len(s) : Append(s, x)[n] = s[n]
  OBVIOUS

\* Samples s that follow those in a: both parts of group g in their order, the
\* second one left out only when the first was the last to fit.
Follows(s, g, ok) ==
  /\ s \in Seq(Nat \X {1, 2}) /\ Len(s) \in Nat /\ Len(a) \in Nat
  /\ Len(s) <= N /\ Len(a) <= Len(s) /\ Len(s) <= Len(a) + 2
  /\ \A n \in 1..Len(a) : s[n] = a[n]
  /\ \A n \in (Len(a) + 1)..Len(s) : s[n][1] = g /\ s[n][2] \in ok
  /\ Len(s) = Len(a) + 2 => s[Len(a) + 1] = <<g, 1>> /\ s[Len(a) + 2] = <<g, 2>>
  /\ \A p \in ok : \/ \E n \in 1..Len(s) : s[n] = <<g, p>>
                   \/ Len(s) = N /\ s[N] = <<g, 1>> /\ p = 2

LEMMA SampledFollows ==
  ASSUME a \in Seq(Nat \X {1, 2}), N \in Nat, Room(a),
         NEW g \in Nat, NEW ok \in SUBSET {1, 2}
  PROVE  Follows(Sampled(g, ok), g, ok)
<1> SUFFICES ASSUME NEW s, s = Sampled(g, ok) PROVE Follows(s, g, ok)
  OBVIOUS
<1> USE DEF Follows
<1> DEFINE first == IF 1 \in ok THEN Append(a, <<g, 1>>) ELSE a
<1>1. s = IF 2 \in ok /\ Len(first) < N THEN Append(first, <<g, 2>>) ELSE first
  BY DEF Sampled, Room
<1>2. Len(a) \in Nat /\ Len(a) < N
  BY DEF Room
<1>3. CASE 1 \notin ok /\ 2 \notin ok
  BY <1>1, <1>2, <1>3
<1>4. CASE 1 \in ok /\ 2 \notin ok
  <2>1. s = Append(a, <<g, 1>>)
    BY <1>1, <1>2, <1>4
  <2>2. /\ s \in Seq(Nat \X {1, 2}) /\ Len(s) = Len(a) + 1
        /\ s[Len(a) + 1] = <<g, 1>> /\ \A n \in 1..Len(a) : s[n] = a[n]
    BY <2>1, AppendSample
  <2>3. \A n \in (Len(a) + 1)..Len(s) : n = Len(a) + 1
    BY <2>2, <1>2
  <2>4. \A p \in ok : p = 1
    BY <1>4
  <2>5. Len(a) + 1 \in 1..Len(s)
    BY <2>2, <1>2
  <2>6. \A n \in (Len(a) + 1)..Len(s) : s[n][1] = g /\ s[n][2] \in ok
    BY <2>2, <2>3, <1>4
  <2>7. \A p \in ok : \E n \in 1..Len(s) : s[n] = <<g, p>>
    BY <2>2, <2>4, <2>5
  <2>8. /\ Len(s) \in Nat /\ Len(a) \in Nat /\ Len(s) <= N /\ Len(a) <= Len(s)
        /\ Len(s) <= Len(a) + 2 /\ Len(s) # Len(a) + 2
    BY <2>2, <1>2
  <2> QED BY <2>2, <2>6, <2>7, <2>8, Zenon
<1>5. CASE 1 \notin ok /\ 2 \in ok
  <2>1. s = Append(a, <<g, 2>>)
    BY <1>1, <1>2, <1>5
  <2>2. /\ s \in Seq(Nat \X {1, 2}) /\ Len(s) = Len(a) + 1
        /\ s[Len(a) + 1] = <<g, 2>> /\ \A n \in 1..Len(a) : s[n] = a[n]
    BY <2>1, AppendSample
  <2>3. \A n \in (Len(a) + 1)..Len(s) : n = Len(a) + 1
    BY <2>2, <1>2
  <2>4. \A p \in ok : p = 2
    BY <1>5
  <2>5. Len(a) + 1 \in 1..Len(s)
    BY <2>2, <1>2
  <2>6. \A n \in (Len(a) + 1)..Len(s) : s[n][1] = g /\ s[n][2] \in ok
    BY <2>2, <2>3, <1>5
  <2>7. \A p \in ok : \E n \in 1..Len(s) : s[n] = <<g, p>>
    BY <2>2, <2>4, <2>5
  <2>8. /\ Len(s) \in Nat /\ Len(a) \in Nat /\ Len(s) <= N /\ Len(a) <= Len(s)
        /\ Len(s) <= Len(a) + 2 /\ Len(s) # Len(a) + 2
    BY <2>2, <1>2
  <2> QED BY <2>2, <2>6, <2>7, <2>8, Zenon
<1>6. CASE 1 \in ok /\ 2 \in ok
  <2>1. first = Append(a, <<g, 1>>)
    BY <1>6
  <2> HIDE DEF first
  <2>2. first \in Seq(Nat \X {1, 2}) /\ Len(first) = Len(a) + 1
        /\ first[Len(a) + 1] = <<g, 1>> /\ \A n \in 1..Len(a) : first[n] = a[n]
    BY <2>1, AppendSample
  <2>3. CASE Len(first) < N
    <3>1. s = Append(first, <<g, 2>>)
      BY <2>3, <1>1, <1>6
    <3>2. /\ s \in Seq(Nat \X {1, 2}) /\ Len(s) = Len(a) + 2
          /\ s[Len(a) + 2] = <<g, 2>> /\ \A n \in 1..(Len(a) + 1) : s[n] = first[n]
      BY <3>1, <2>2, <1>2, AppendSample
    <3>3. \A n \in (Len(a) + 1)..Len(s) : n = Len(a) + 1 \/ n = Len(a) + 2
      BY <3>2, <1>2
    <3>4. s[Len(a) + 1] = <<g, 1>> /\ \A n \in 1..Len(a) : s[n] = a[n]
      <4>1. \A n \in 1..Len(a) : n \in 1..(Len(a) + 1)
        BY <1>2
      <4>2. Len(a) + 1 \in 1..(Len(a) + 1)
        BY <1>2
      <4> QED BY <4>1, <4>2, <3>2, <2>2, Zenon
    <3>5. \A n \in (Len(a) + 1)..Len(s) : s[n][1] = g /\ s[n][2] \in ok
      BY <3>2, <3>3, <3>4, <1>6, SMTT(60)
    <3>6. Len(a) + 1 \in 1..Len(s) /\ Len(a) + 2 \in 1..Len(s)
      BY <3>2, <1>2
    <3>7. \A p \in ok : p = 1 \/ p = 2
      OBVIOUS
    <3>8. \A p \in ok : \E n \in 1..Len(s) : s[n] = <<g, p>>
      BY <3>2, <3>4, <3>6, <3>7
    <3>9. /\ Len(s) \in Nat /\ Len(a) \in Nat /\ Len(s) <= N /\ Len(a) <= Len(s)
          /\ Len(s) <= Len(a) + 2
      BY <3>2, <2>2, <2>3, <1>2
    <3> QED BY <3>2, <3>4, <3>5, <3>8, <3>9, Zenon
  <2>4. CASE ~(Len(first) < N)
    <3>1. s = first /\ Len(s) = N
      BY <2>2, <2>4, <1>1, <1>2
    <3>2. \A n \in (Len(a) + 1)..Len(s) : n = Len(a) + 1
      BY <3>1, <2>2, <1>2
    <3>3. \A n \in (Len(a) + 1)..Len(s) : s[n][1] = g /\ s[n][2] \in ok
      BY <3>1, <3>2, <2>2, <1>6
    <3>4. N \in 1..Len(s) /\ s[N] = <<g, 1>>
      BY <3>1, <2>2, <1>2
    <3>5. \A p \in ok : \/ \E n \in 1..Len(s) : s[n] = <<g, p>>
                        \/ Len(s) = N /\ s[N] = <<g, 1>> /\ p = 2
      <4>1. \A p \in ok : p = 1 \/ p = 2
        OBVIOUS
      <4> QED BY <4>1, <3>1, <3>4, Zenon
    <3>6. /\ Len(s) \in Nat /\ Len(a) \in Nat /\ Len(s) <= N /\ Len(a) <= Len(s)
          /\ Len(s) <= Len(a) + 2 /\ Len(s) # Len(a) + 2
      BY <3>1, <2>2, <1>2
    <3> QED BY <3>1, <3>3, <3>5, <3>6, <2>2, Zenon
  <2> QED BY <2>3, <2>4
<1> QED BY <1>3, <1>4, <1>5, <1>6

\* A group: its bytes are the next ones of the stream.
LEMMA GroupKeeps == IInv /\ Group => IInv'
<1> SUFFICES ASSUME IInv, Group PROVE IInv'
  OBVIOUS
<1> USE DEF IInv
<1>1. PICK ok \in SUBSET fn.parts :
        /\ groups' = Append(groups,
             [bytes |-> [j \in 1..fn.bytes |-> buf[pos + j - 1]], ok |-> ok])
        /\ a' = Sampled(Len(groups) + 1, ok)
  BY DEF Group
<1>2. /\ Room(a) /\ pos + fn.bytes <= buflen /\ pos' = pos + fn.bytes
      /\ fn' = fn /\ block' = block /\ buf' = buf /\ buflen' = buflen
      /\ squeezed' = squeezed
  BY DEF Group
<1>3. /\ fn \in {Uniform, Eta} /\ fn.bytes \in {1, 3}
      /\ fn.parts \subseteq {1, 2} /\ fn.spare \in {0, 2}
  BY DEF Typed, Uniform, Eta
<1>4. NBLOCKS * block \in Nat
  BY BufferRoom DEF Typed
<1>5. /\ N \in Nat /\ Len(groups) \in Nat /\ Len(a) \in Nat
  BY SamplerAssumption DEF Typed
<1> DEFINE bytes == [j \in 1..fn.bytes |-> buf[pos + j - 1]]
<1>6. bytes \in [1..fn.bytes -> Nat]
  <2>1. Size \in Nat
    BY <1>3, <1>4 DEF Size
  <2>2. ASSUME NEW j \in 1..fn.bytes PROVE buf[pos + j - 1] \in Nat
    <3>1. pos + j - 1 \in 0..(Size - 1)
      BY <1>2, <1>3, <2>1 DEF Typed
    <3>2. buf \in [0..(Size - 1) -> Nat]
      BY DEF Typed
    <3> QED BY <3>1, <3>2
  <2> QED BY <2>2
<1>7. bytes = [j \in 1..fn.bytes |-> Len(groups) * fn.bytes + j]
  <2>1. /\ pos \in Nat /\ buflen \in Int /\ squeezed \in Int
        /\ Len(groups) * fn.bytes = squeezed - buflen + pos
    BY DEF Typed, Window
  <2>2. ASSUME NEW j \in 1..fn.bytes
        PROVE  buf[pos + j - 1] = squeezed - buflen + pos + j
    <3>1. pos + j - 1 \in pos..(buflen - 1)
      BY <1>2, <1>3, <2>1
    <3>2. buf[pos + j - 1] = squeezed - buflen + (pos + j - 1) + 1
      BY <3>1 DEF Window
    <3> QED BY <3>2, <1>3, <2>1
  <2> QED BY <2>1, <2>2
<1>8. Sampled(Len(groups) + 1, ok) \in Seq(Nat \X {1, 2})
      /\ Len(Sampled(Len(groups) + 1, ok)) <= N
  <2>1. ok \in SUBSET {1, 2} /\ Len(groups) + 1 \in Nat
    BY <1>3, <1>5
  <2>2. a \in Seq(Nat \X {1, 2})
    BY DEF Typed
  <2> QED BY <1>2, <1>5, <2>1, <2>2, SampledFollows DEF Follows
<1>9. Typed'
  <2>1. groups' \in Seq([bytes : [1..fn.bytes -> Nat], ok : SUBSET fn.parts])
    <3>1. [bytes |-> bytes, ok |-> ok] \in [bytes : [1..fn.bytes -> Nat], ok : SUBSET fn.parts]
      BY <1>6
    <3>2. groups \in Seq([bytes : [1..fn.bytes -> Nat], ok : SUBSET fn.parts])
      BY DEF Typed
    <3> HIDE DEF bytes
    <3>3. groups' = Append(groups, [bytes |-> bytes, ok |-> ok])
      BY <1>1 DEF bytes
    <3> QED BY <3>1, <3>2, <3>3
  <2>2. pos' \in 0..buflen
    BY <1>2, <1>3 DEF Typed
  <2> QED BY <1>1, <1>2, <1>8, <2>1, <2>2 DEF Typed, Size
<1>10. Window'
  <2>1. Len(groups') = Len(groups) + 1
    BY <1>1 DEF Typed
  <2>2. (pos + fn.bytes) % fn.bytes = 0
    BY <1>3 DEF Typed, Window
  <2>3. Len(groups') * fn.bytes = squeezed - buflen + pos + fn.bytes
    <3>1. \A n, e \in Nat : (n + 1) * e = n * e + e
      BY Z3
    <3>2. fn.bytes \in Nat
      BY <1>3
    <3>3. Len(groups) * fn.bytes = squeezed - buflen + pos
      BY DEF Window
    <3> QED BY <3>1, <3>2, <3>3, <2>1, <1>5
  <2>4. \A e \in (pos + fn.bytes)..(buflen - 1) : buf[e] = squeezed - buflen + e + 1
    BY <1>3 DEF Typed, Window
  <2>5. /\ pos' % fn.bytes = 0
        /\ Len(groups') * fn.bytes = squeezed - buflen + pos'
    <3>1. /\ pos \in Int /\ buflen \in Int /\ squeezed \in Int
      BY DEF Typed
    <3> QED BY <3>1, <1>2, <1>3, <2>2, <2>3
  <2> QED BY <1>2, <2>4, <2>5 DEF Window
<1>11. ReadsStreamInOrder'
  <2> SUFFICES ASSUME NEW g \in 1..Len(groups')
      PROVE groups'[g].bytes = [j \in 1..fn.bytes |-> (g - 1) * fn.bytes + j]
    BY <1>2 DEF ReadsStreamInOrder
  <2>1. CASE g \in 1..Len(groups)
    BY <2>1, <1>1 DEF Typed, ReadsStreamInOrder
  <2>2. CASE g = Len(groups) + 1
    <3> HIDE DEF bytes
    <3>1. groups'[g].bytes = bytes
      <4>1. groups' = Append(groups, [bytes |-> bytes, ok |-> ok])
        BY <1>1 DEF bytes
      <4>2. groups \in Seq([bytes : [1..fn.bytes -> Nat], ok : SUBSET fn.parts])
        BY DEF Typed
      <4>3. [bytes |-> bytes, ok |-> ok] \in [bytes : [1..fn.bytes -> Nat], ok : SUBSET fn.parts]
        BY <1>6
      <4>4. groups'[Len(groups) + 1] = [bytes |-> bytes, ok |-> ok]
        BY <4>1, <4>2, <4>3
      <4> QED BY <4>4, <2>2
    <3>2. g - 1 = Len(groups)
      BY <2>2, <1>5
    <3> QED BY <3>1, <3>2, <1>7
  <2> QED BY <2>1, <2>2, <1>1, <1>5 DEF Typed
<1> QED BY <1>9, <1>10, <1>11

\* A refill: the rest of the old block and the new one follow each other.
LEMMA RefillKeeps == IInv /\ Refill => IInv'
<1> SUFFICES ASSUME IInv, Refill PROVE IInv'
  OBVIOUS
<1> USE DEF IInv
<1> DEFINE off == Carry(buflen)
<1>1. /\ fn \in {Uniform, Eta} /\ fn.bytes \in {1, 3} /\ fn.spare \in {0, 2}
  BY DEF Typed, Uniform, Eta
<1>2. NBLOCKS * block \in Nat /\ block \in Nat /\ block <= NBLOCKS * block
  BY BufferRoom DEF Typed
<1>3. off = buflen - pos /\ off \in 0..fn.spare
  BY CarryIsRest DEF Typed, Window, Refill
<1> HIDE DEF off
<1>4. /\ buf' = [e \in DOMAIN buf |->
                   IF e < off THEN buf[buflen - off + e]
                   ELSE IF e < off + block THEN squeezed + (e - off) + 1
                   ELSE buf[e]]
      /\ buflen' = block + off /\ pos' = 0 /\ squeezed' = squeezed + block
      /\ a' = a /\ fn' = fn /\ block' = block /\ groups' = groups
  BY DEF Refill, off, Onwards
<1>5. buf' \in [0..(Size - 1) -> Nat]
  <2>1. Size \in Nat /\ buflen \in 0..Size
    BY <1>1, <1>2 DEF Typed, Size
  <2>2. buf \in [0..(Size - 1) -> Nat]
    BY DEF Typed
  <2>3. ASSUME NEW e \in 0..(Size - 1)
        PROVE  /\ e < off => buf[buflen - off + e] \in Nat
               /\ ~(e < off) => squeezed + (e - off) + 1 \in Nat
               /\ buf[e] \in Nat
    <3>1. e < off => buflen - off + e \in 0..(Size - 1)
      BY <1>1, <1>3, <2>1 DEF Typed
    <3> QED BY <3>1, <2>1, <2>2, <1>1, <1>3 DEF Typed
  <2> QED BY <2>2, <2>3, <1>4
<1>6. Typed'
  BY <1>1, <1>2, <1>3, <1>4, <1>5 DEF Typed, Size
<1>7. Window'
  <2>1. ASSUME NEW e \in 0..(block + off - 1)
        PROVE  buf'[e] = squeezed + block - (block + off) + e + 1
    BY <1>1, <1>2, <1>3, <1>4, SMTT(60) DEF Typed, Window, Size
  <2> QED BY <2>1, <1>1, <1>2, <1>3, <1>4 DEF Typed, Window
<1>8. ReadsStreamInOrder'
  BY <1>4 DEF ReadsStreamInOrder
<1> QED BY <1>6, <1>7, <1>8

\* No sample is of a group that was not read yet.
Known == \A n \in 1..Len(a) : a[n][1] \in 1..Len(groups)

AInv == IInv /\ Known /\ SamplesAcceptedInOrder

\* A group: the new samples come after the old ones, and none is forgotten.
LEMMA GroupKeepsSamples == AInv /\ Group => (Known /\ SamplesAcceptedInOrder)'
<1> SUFFICES ASSUME AInv, Group PROVE (Known /\ SamplesAcceptedInOrder)'
  OBVIOUS
<1> DEFINE g == Len(groups) + 1
<1>1. PICK ok \in SUBSET fn.parts :
        /\ groups' = Append(groups,
             [bytes |-> [j \in 1..fn.bytes |-> buf[pos + j - 1]], ok |-> ok])
        /\ a' = Sampled(g, ok)
  BY DEF Group
<1>2. /\ a \in Seq(Nat \X {1, 2}) /\ Room(a) /\ N \in Nat /\ Len(a) \in Nat
      /\ Len(a) < N
  BY SamplerAssumption DEF AInv, IInv, Typed, Group, Room
<1>3. ok \in SUBSET {1, 2} /\ g \in Nat
  BY DEF AInv, IInv, Typed, Uniform, Eta
<1>4. Follows(a', g, ok)
  <2> HIDE DEF g
  <2> QED BY <1>1, <1>2, <1>3, SampledFollows
<1>5. Len(groups) \in Nat /\ Len(groups') = g
  BY <1>1 DEF AInv, IInv, Typed
<1>6. groups'[g].ok = ok /\ \A x \in 1..Len(groups) : groups'[x] = groups[x]
  <2> DEFINE bytes == [j \in 1..fn.bytes |-> buf[pos + j - 1]]
  <2> HIDE DEF bytes
  <2>1. groups' = Append(groups, [bytes |-> bytes, ok |-> ok])
    BY <1>1 DEF bytes
  <2>2. groups \in Seq([bytes : [1..fn.bytes -> Nat], ok : SUBSET fn.parts])
    BY DEF AInv, IInv, Typed
  <2>3. groups'[g] = [bytes |-> bytes, ok |-> ok]
    BY <2>1, <2>2
  <2>4. \A x \in 1..Len(groups) : groups'[x] = groups[x]
    BY <2>1, <2>2
  <2> QED BY <2>3, <2>4
<1> HIDE DEF g
<1>7. \A n \in 1..Len(a) : a[n][1] \in 1..Len(groups)
  BY DEF AInv, Known
<1>8. g = Len(groups) + 1
  BY DEF g
<1>9. Known'
  <2> SUFFICES ASSUME NEW n \in 1..Len(a') PROVE a'[n][1] \in 1..g
    BY <1>5 DEF Known
  <2>1. CASE n \in 1..Len(a)
    <3>1. a'[n] = a[n]
      BY <2>1, <1>4 DEF Follows
    <3>2. a[n][1] \in 1..Len(groups)
      BY <2>1, <1>7
    <3> QED BY <3>1, <3>2, <1>5, <1>8
  <2>2. CASE n \in (Len(a) + 1)..Len(a')
    BY <2>2, <1>4, <1>5, <1>8 DEF Follows
  <2> QED BY <2>1, <2>2, <1>2, <1>4 DEF Follows
<1>10. \A n \in 1..(Len(a') - 1) : Before(a'[n], a'[n + 1])
  <2> SUFFICES ASSUME NEW n \in 1..(Len(a') - 1) PROVE Before(a'[n], a'[n + 1])
    OBVIOUS
  <2>1. CASE n + 1 <= Len(a)
    <3>1. a'[n] = a[n] /\ a'[n + 1] = a[n + 1] /\ n \in 1..(Len(a) - 1)
      <4>1. n \in 1..Len(a) /\ n + 1 \in 1..Len(a) /\ n \in 1..(Len(a) - 1)
        BY <2>1, <1>2
      <4>2. \A x \in 1..Len(a) : a'[x] = a[x]
        BY <1>4 DEF Follows
      <4> QED BY <4>1, <4>2
    <3> QED BY <3>1 DEF AInv, SamplesAcceptedInOrder
  <2>2. CASE n = Len(a)
    <3>1. a'[n] = a[n] /\ a[n][1] \in 1..Len(groups) /\ a'[n + 1][1] = g
      BY <2>2, <1>2, <1>4, <1>7, SMTT(60) DEF Follows
    <3> QED BY <3>1, <1>5, <1>8 DEF Before
  <2>3. CASE n = Len(a) + 1
    <3>1. Len(a') = Len(a) + 2
      BY <2>3, <1>2, <1>4 DEF Follows
    <3>2. a'[n] = <<g, 1>> /\ a'[n + 1] = <<g, 2>>
      BY <2>3, <3>1, <1>2, <1>4 DEF Follows
    <3> QED BY <3>2, <1>3 DEF Before
  <2> QED BY <2>1, <2>2, <2>3, <1>2, <1>4 DEF Follows
<1>11. \A n \in 1..Len(a') : a'[n][2] \in groups'[a'[n][1]].ok
  <2> SUFFICES ASSUME NEW n \in 1..Len(a') PROVE a'[n][2] \in groups'[a'[n][1]].ok
    OBVIOUS
  <2>1. CASE n \in 1..Len(a)
    BY <2>1, <1>4, <1>6, <1>7, SMTT(60) DEF AInv, SamplesAcceptedInOrder, Follows
  <2>2. CASE n \in (Len(a) + 1)..Len(a')
    BY <2>2, <1>4, <1>6 DEF Follows
  <2> QED BY <2>1, <2>2, <1>2, <1>4 DEF Follows
<1>12. ASSUME NEW x \in 1..Len(groups'), NEW p \in groups'[x].ok
       PROVE  \/ \E n \in 1..Len(a') : a'[n] = <<x, p>>
              \/ Len(a') = N /\ Before(a'[N], <<x, p>>)
  <2>1. CASE x = g
    <3>1. p \in ok
      BY <2>1, <1>6
    <3>2. CASE \E n \in 1..Len(a') : a'[n] = <<g, p>>
      BY <3>2, <2>1
    <3>3. CASE Len(a') = N /\ a'[N] = <<g, 1>> /\ p = 2
      BY <3>3, <2>1, <1>3 DEF Before
    <3> QED BY <3>1, <3>2, <3>3, <1>4 DEF Follows
  <2>2. CASE x \in 1..Len(groups)
    <3>1. p \in groups[x].ok
      BY <2>2, <1>6
    <3>2. PICK n \in 1..Len(a) : a[n] = <<x, p>>
      <4>1. \/ \E n \in 1..Len(a) : a[n] = <<x, p>>
            \/ Len(a) = N /\ Before(a[N], <<x, p>>)
        BY <3>1, <2>2 DEF AInv, SamplesAcceptedInOrder
      <4>2. Len(a) # N
        BY <1>2
      <4> QED BY <4>1, <4>2
    <3>3. n \in 1..Len(a')
      BY <1>2, <1>4 DEF Follows
    <3>4. a'[n] = <<x, p>>
      BY <3>2, <1>4 DEF Follows
    <3> QED BY <3>3, <3>4
  <2> QED BY <2>1, <2>2, <1>5, <1>8
<1>13. Len(a') <= N
  BY <1>4 DEF Follows
<1> QED BY <1>9, <1>10, <1>11, <1>12, <1>13 DEF SamplesAcceptedInOrder

LEMMA SamplesUnmoved ==
  ASSUME SamplesAcceptedInOrder, a' = a, groups' = groups
  PROVE  SamplesAcceptedInOrder'
<1>1. \A n \in 1..(Len(a') - 1) : Before(a'[n], a'[n + 1])
  BY DEF SamplesAcceptedInOrder
<1>2. \A n \in 1..Len(a') : a'[n][2] \in groups'[a'[n][1]].ok
  BY DEF SamplesAcceptedInOrder
<1>3. ASSUME NEW x \in 1..Len(groups'), NEW p \in groups'[x].ok
      PROVE  \/ \E n \in 1..Len(a') : a'[n] = <<x, p>>
             \/ Len(a') = N /\ Before(a'[N], <<x, p>>)
  BY DEF SamplesAcceptedInOrder
<1>4. Len(a') <= N
  BY DEF SamplesAcceptedInOrder
<1> QED BY <1>1, <1>2, <1>3, <1>4 DEF SamplesAcceptedInOrder

LEMMA RefillKeepsSamples == AInv /\ Refill => (Known /\ SamplesAcceptedInOrder)'
<1> SUFFICES ASSUME AInv, Refill PROVE (Known /\ SamplesAcceptedInOrder)'
  OBVIOUS
<1>1. a' = a /\ groups' = groups
  BY DEF Refill, Onwards
<1>2. Known'
  BY <1>1 DEF AInv, Known
<1>3. SamplesAcceptedInOrder'
  BY <1>1, SamplesUnmoved DEF AInv
<1> QED BY <1>2, <1>3

LEMMA AInvHolds == Spec => []AInv
<1>1. Init => AInv
  <2> SUFFICES ASSUME Init PROVE Known /\ SamplesAcceptedInOrder
    BY InitIInv DEF AInv
  <2>1. a = << >> /\ groups = << >>
    BY DEF Init
  <2>2. 1..Len(a) = {} /\ 1..(Len(a) - 1) = {} /\ 1..Len(groups) = {}
    BY <2>1
  <2>3. Len(a) <= N
    BY <2>1, SamplerAssumption
  <2> QED BY <2>2, <2>3 DEF Known, SamplesAcceptedInOrder
<1>2. AInv /\ UNCHANGED vars => AInv'
  <2> SUFFICES ASSUME AInv, UNCHANGED vars PROVE AInv'
    OBVIOUS
  <2>1. IInv'
    BY DEF AInv, IInv, Typed, Window, ReadsStreamInOrder, Size, vars
  <2>2. Known'
    BY DEF AInv, Known, vars
  <2>3. a' = a /\ groups' = groups
    BY DEF vars
  <2>4. SamplesAcceptedInOrder'
    BY <2>3, SamplesUnmoved DEF AInv
  <2> QED BY <2>1, <2>2, <2>4 DEF AInv
<1>3. AInv /\ [Next]_vars => AInv'
  BY <1>2, GroupKeeps, RefillKeeps, GroupKeepsSamples, RefillKeepsSamples
  DEF Next, AInv
<1> QED BY <1>1, <1>3, PTL DEF Spec

\* The types; and never more coefficients than the polynomial has, nor a byte
\* read that was not written, nor one written behind the buffer.
THEOREM TypeCorrect == Spec => []TypeOK
<1>1. IInv => TypeOK
  <2> SUFFICES ASSUME IInv PROVE TypeOK
    OBVIOUS
  <2>1. \A e \in pos..(buflen - 1) : buf[e] # Unset
    BY DEF IInv, Typed, Window, Unset
  <2>2. buflen \in Nat
    BY BufferRoom DEF IInv, Typed, Size, Uniform, Eta
  <2> QED BY <2>1, <2>2 DEF IInv, Typed, TypeOK
<1> QED BY <1>1, AInvHolds, PTL DEF AInv

\* The samplers of poly.c never skip a byte of the stream, read one twice or
\* use one of an earlier block, whatever the block length is.
THEOREM StreamInOrder == Spec => []ReadsStreamInOrder
<1>1. AInv => ReadsStreamInOrder
  BY DEF AInv, IInv
<1> QED BY <1>1, AInvHolds, PTL

\* The polynomial is the accepted candidates of the stream, in order, up to N
\* of them; where the blocks end makes no difference.
THEOREM SamplesInOrder == Spec => []SamplesAcceptedInOrder
<1>1. AInv => SamplesAcceptedInOrder
  BY DEF AInv
<1> QED BY <1>1, AInvHolds, PTL

-----------------------------------------------------------------------------
(***************************************************************************)
(* The challenge.  ChallengeInv: the coefficients are a list of the sign   *)
(* bits used so far, each of them once, spread over the places before i;   *)
(* and the next byte of the buffer follows the last one read.              *)
(***************************************************************************)
Placed == {k \in 0..(N - 1) : coeffs[k] # Zero}

ChallengeInv ==
  /\ place \in (N - TAU)..N /\ shifts = place - (N - TAU)
  /\ coeffs \in [0..(N - 1) -> 0..shifts]
  /\ \A k \in place..(N - 1) : coeffs[k] = Zero
  /\ \A n \in 1..shifts : \E k \in 0..(N - 1) : coeffs[k] = n
  /\ IsFiniteSet(Placed) /\ Cardinality(Placed) = shifts
  /\ drawn \in Nat /\ next \in 0..RATE
  /\ buffer = Block(drawn - RATE)
  /\ candidate.symbol = drawn - RATE + next

LEMMA ChallengeStart == ChallengeInit => ChallengeInv
<1> SUFFICES ASSUME ChallengeInit PROVE ChallengeInv
  OBVIOUS
<1>1. /\ place = N - TAU /\ shifts = 0 /\ drawn = RATE /\ next = SIGNBYTES
      /\ buffer = Block(0) /\ candidate.symbol = SIGNBYTES
      /\ coeffs = [k \in 0..(N - 1) |-> 0]
  BY DEF ChallengeInit, AfterSigns, Zero
<1>2. N \in Nat /\ TAU \in 0..N /\ SIGNBYTES \in Nat /\ RATE \in Nat /\ SIGNBYTES <= RATE
  BY ChallengeAssumption
<1>3. Placed = {}
  BY <1>1 DEF Placed, Zero
<1>4. IsFiniteSet(Placed) /\ Cardinality(Placed) = 0
  BY <1>3, FS_EmptySet
<1>5. /\ place \in (N - TAU)..N /\ shifts = place - (N - TAU)
      /\ coeffs \in [0..(N - 1) -> 0..shifts]
      /\ \A k \in place..(N - 1) : coeffs[k] = Zero
      /\ \A n \in 1..shifts : \E k \in 0..(N - 1) : coeffs[k] = n
  BY <1>1, <1>2 DEF Zero
<1>6. drawn \in Nat /\ next \in 0..RATE /\ drawn - RATE = 0
      /\ candidate.symbol = drawn - RATE + next
  BY <1>1, <1>2
<1> QED BY <1>1, <1>4, <1>5, <1>6 DEF ChallengeInv

\* What Read leaves of the stream.
LEMMA ReadNext ==
  ASSUME ChallengeInv, NEW b \in 0..(N - 1), Read(b)
  PROVE  /\ place \in 0..(N - 1) /\ drawn' = drawn /\ next' \in 0..RATE
         /\ buffer' = Block(drawn' - RATE)
         /\ candidate'.symbol = drawn' - RATE + next'
         /\ candidate'.symbol = candidate.symbol + 1 /\ candidate'.value = b
<1>1. N \in Nat /\ TAU \in 0..N /\ RATE \in Nat
  BY ChallengeAssumption
<1>2. /\ place < N /\ next < RATE /\ next' = next + 1 /\ buffer' = buffer /\ drawn' = drawn
      /\ candidate'.symbol = buffer[next] /\ candidate'.value = b
  BY DEF Read
<1>3. /\ next \in 0..(RATE - 1) /\ place \in 0..(N - 1)
      /\ buffer[next] = drawn - RATE + next + 1
  BY <1>1, <1>2 DEF ChallengeInv, Block
<1> QED BY <1>1, <1>2, <1>3 DEF ChallengeInv

\* The shuffle puts a new sign bit at b, and what was there at i.
LEMMA ShuffleKeeps ==
  ASSUME ChallengeInv, NEW b \in 0..(N - 1), b <= place, place < N
  PROVE  LET c == Shuffled(b)
             s == shifts + 1
         IN /\ c \in [0..(N - 1) -> 0..s]
            /\ \A k \in 0..(N - 1) : c[k] = s <=> k = b
            /\ b # place => c[place] = coeffs[b]
            /\ \A k \in 0..(N - 1) : k # b /\ k # place => c[k] = coeffs[k]
<1>1. N \in Nat /\ place \in 0..(N - 1) /\ shifts \in Nat
  BY ChallengeAssumption DEF ChallengeInv
<1>2. coeffs \in [0..(N - 1) -> 0..shifts]
  BY DEF ChallengeInv
<1>3. /\ Shuffled(b) = [coeffs EXCEPT ![place] = coeffs[b], ![b] = shifts + 1]
      /\ \A k \in 0..(N - 1) : coeffs[k] \in 0..shifts
      /\ 0..shifts \subseteq 0..(shifts + 1) /\ shifts + 1 \in 0..(shifts + 1)
  BY <1>1, <1>2 DEF Shuffled
<1> QED BY <1>1, <1>2, <1>3

LEMMA AcceptKeeps ==
  ASSUME ChallengeInv, NEW b \in 0..(N - 1), Read(b), ~TooLarge(b),
         coeffs' = Shuffled(b), shifts' = shifts + 1, place' = place + 1
  PROVE  ChallengeInv'
<1>1. /\ N \in Nat /\ TAU \in 0..N /\ place \in 0..(N - 1) /\ place \in (N - TAU)..N
      /\ shifts = place - (N - TAU) /\ shifts \in Nat /\ b <= place /\ place < N
  BY ReadNext, ChallengeAssumption DEF ChallengeInv, TooLarge
<1>2. /\ coeffs' \in [0..(N - 1) -> 0..(shifts + 1)]
      /\ \A k \in 0..(N - 1) : coeffs'[k] = shifts + 1 <=> k = b
      /\ b # place => coeffs'[place] = coeffs[b]
      /\ \A k \in 0..(N - 1) : k # b /\ k # place => coeffs'[k] = coeffs[k]
  BY <1>1, ShuffleKeeps
<1>3. /\ \A k \in place..(N - 1) : coeffs[k] = 0
      /\ \A n \in 1..shifts : \E k \in 0..(N - 1) : coeffs[k] = n
      /\ coeffs \in [0..(N - 1) -> 0..shifts] /\ coeffs[place] = 0
  BY <1>1 DEF ChallengeInv, Zero
<1>4. place' \in (N - TAU)..N /\ shifts' = place' - (N - TAU)
  BY <1>1
<1>5. \A k \in (place + 1)..(N - 1) : coeffs'[k] = 0
  <2>1. \A k \in (place + 1)..(N - 1) :
          k \in 0..(N - 1) /\ k \in place..(N - 1) /\ k # b /\ k # place
    BY <1>1
  <2> QED BY <1>2, <1>3, <2>1
<1>6. ASSUME NEW n \in 1..(shifts + 1) PROVE \E k \in 0..(N - 1) : coeffs'[k] = n
  <2>1. CASE n = shifts + 1
    BY <1>2, <2>1
  <2>2. CASE n # shifts + 1
    <3>1. PICK k \in 0..(N - 1) : coeffs[k] = n
      BY <1>1, <1>3, <2>2
    <3>2. k # place
      BY <1>3, <3>1
    <3> QED BY <1>1, <1>2, <3>1, <3>2
  <2> QED BY <2>1, <2>2
<1>7. IsFiniteSet(Placed') /\ Cardinality(Placed') = shifts + 1
  <2>1. IsFiniteSet(Placed) /\ Cardinality(Placed) = shifts
    BY DEF ChallengeInv
  <2>2. place \notin Placed /\ \A k : k \in Placed <=> k \in 0..(N - 1) /\ coeffs[k] # 0
    BY <1>3 DEF Placed, Zero
  <2>3. \A k : k \in Placed' <=> k \in 0..(N - 1) /\ coeffs'[k] # 0
    BY DEF Placed, Zero
  <2>4. b \in Placed'
    BY <1>1, <1>2, <2>3
  <2>5. CASE b \in Placed
    <3>1. b # place /\ coeffs[b] # 0
      BY <2>2, <2>5
    <3>2. Placed' = Placed \cup {place}
      <4>1. \A k : k \in Placed' <=> k \in Placed \/ k = place
        BY <1>1, <1>2, <2>2, <2>3, <2>4, <2>5, <3>1
      <4> QED BY <4>1
    <3> QED BY <2>1, <2>2, <3>2, FS_AddElement
  <2>6. CASE b \notin Placed
    <3>1. coeffs[b] = 0
      BY <2>2, <2>6
    <3>2. Placed' = Placed \cup {b}
      <4>1. \A k : k \in Placed' <=> k \in Placed \/ k = b
        BY <1>1, <1>2, <2>2, <2>3, <2>4, <3>1, SMTT(60)
      <4> QED BY <4>1
    <3> QED BY <2>1, <2>6, <3>2, FS_AddElement
  <2> QED BY <2>5, <2>6
<1>8. drawn \in Nat
  BY DEF ChallengeInv
<1> QED BY <1>2, <1>4, <1>5, <1>6, <1>7, <1>8, ReadNext DEF ChallengeInv, Zero

LEMMA ChallengeKeeps == ChallengeInv /\ [ChallengeNext]_challengeVars => ChallengeInv'
<1> SUFFICES ASSUME ChallengeInv, [ChallengeNext]_challengeVars PROVE ChallengeInv'
  OBVIOUS
<1>0. UNCHANGED coeffs => Placed' = Placed
  BY DEF Placed
<1>1. CASE challengeRefill
  <2>1. /\ next >= RATE /\ buffer' = Block(drawn) /\ drawn' = drawn + RATE /\ next' = 0
        /\ UNCHANGED <<place, shifts, coeffs, candidate>>
    BY <1>1 DEF challengeRefill
  <2>2. RATE \in Nat /\ drawn \in Nat /\ next = RATE
    BY <2>1, ChallengeAssumption DEF ChallengeInv
  <2>3. /\ drawn' \in Nat /\ next' \in 0..RATE /\ drawn' - RATE = drawn
        /\ candidate.symbol = drawn' - RATE + next'
    BY <2>1, <2>2 DEF ChallengeInv
  <2> QED BY <1>0, <2>1, <2>3 DEF ChallengeInv
<1>2. CASE challengeReject
  <2>1. PICK b \in 0..(N - 1) : Read(b) /\ UNCHANGED <<place, shifts, coeffs>>
    BY <1>2 DEF challengeReject
  <2>2. drawn' \in Nat
    BY <2>1, ReadNext DEF ChallengeInv
  <2> QED BY <1>0, <2>1, <2>2, ReadNext DEF ChallengeInv
<1>3. CASE challengeAccept
  BY <1>3, AcceptKeeps DEF challengeAccept
<1>4. CASE UNCHANGED challengeVars
  BY <1>0, <1>4 DEF challengeVars, ChallengeInv
<1> QED BY <1>1, <1>2, <1>3, <1>4 DEF ChallengeNext

LEMMA ChallengeInvariance == ChallengeSpec => []ChallengeInv
BY ChallengeStart, ChallengeKeeps, PTL DEF ChallengeSpec

\* poly_challenge gives a polynomial with one nonzero coefficient per round,
\* TAU in the end, each with a sign bit of its own, and never runs out of
\* them: for every N, TAU, number of sign bytes and block length.
THEOREM Ternary == ChallengeSpec => []ChallengeIsTernary
<1>1. ChallengeInv => ChallengeIsTernary
  <2> SUFFICES ASSUME ChallengeInv PROVE ChallengeIsTernary
    OBVIOUS
  <2>1. /\ N \in Nat /\ TAU \in 0..N /\ SIGNBYTES \in Nat /\ TAU <= 8 * SIGNBYTES
        /\ place \in (N - TAU)..N /\ shifts = place - (N - TAU) /\ shifts \in Nat
        /\ coeffs \in [0..(N - 1) -> 0..shifts] /\ DOMAIN coeffs = 0..(N - 1)
        /\ \A n \in 1..shifts : \E k \in 0..(N - 1) : coeffs[k] = n
        /\ \A k \in place..(N - 1) : coeffs[k] = Zero
        /\ Cardinality(Placed) = shifts
    BY ChallengeAssumption DEF ChallengeInv
  <2>2. {k \in DOMAIN coeffs : coeffs[k] # Zero} = Placed
    BY <2>1 DEF Placed
  <2>3. {coeffs[k] : k \in DOMAIN coeffs} \ {Zero} = 1..shifts
    <3>1. \A n : n \in {coeffs[k] : k \in DOMAIN coeffs} \ {Zero} => n \in 1..shifts
      BY <2>1 DEF Zero
    <3>2. \A n \in 1..shifts : n \in {coeffs[k] : k \in DOMAIN coeffs} \ {Zero}
      BY <2>1 DEF Zero
    <3> QED BY <3>1, <3>2
  <2>4. shifts <= 8 * SIGNBYTES
    BY <2>1
  <2> QED BY <2>1, <2>2, <2>3, <2>4 DEF ChallengeIsTernary
<1> QED BY <1>1, ChallengeInvariance, PTL

\* Each candidate is the byte after the last one, across the blocks, and a
\* round can be undone: the place drawn is where the newest sign is.
THEOREM ChoicesKept == ChallengeSpec => ChallengeKeepsChoices
<1> DEFINE Round ==
       /\ candidate' # candidate => candidate'.symbol = candidate.symbol + 1
       /\ shifts' # shifts =>
            LET k == LastPlaced(coeffs', shifts') IN
            /\ k = candidate'.value
            /\ Undone(coeffs', k, place) = coeffs
<1>1. ChallengeInv /\ [ChallengeNext]_challengeVars => [Round]_challengeVars
  <2> SUFFICES ASSUME ChallengeInv, ChallengeNext PROVE Round
    OBVIOUS
  <2>1. CASE challengeRefill
    BY <2>1 DEF challengeRefill
  <2>2. CASE challengeReject
    BY <2>2, ReadNext DEF challengeReject
  <2>3. ASSUME NEW b \in 0..(N - 1), Read(b), ~TooLarge(b),
               coeffs' = Shuffled(b), shifts' = shifts + 1
        PROVE  Round
    <3>1. /\ candidate'.symbol = candidate.symbol + 1 /\ candidate'.value = b
          /\ place \in 0..(N - 1) /\ b <= place /\ place < N /\ shifts \in Nat
      BY <2>3, ReadNext, ChallengeAssumption DEF ChallengeInv, TooLarge
    <3>2. /\ coeffs' \in [0..(N - 1) -> 0..(shifts + 1)]
          /\ \A k \in 0..(N - 1) : coeffs'[k] = shifts + 1 <=> k = b
          /\ b # place => coeffs'[place] = coeffs[b]
          /\ \A k \in 0..(N - 1) : k # b /\ k # place => coeffs'[k] = coeffs[k]
      BY <2>3, <3>1, ShuffleKeeps
    <3>3. DOMAIN coeffs' = 0..(N - 1)
      BY <3>2
    <3>4. LastPlaced(coeffs', shifts + 1) = b
      BY <3>2, <3>3 DEF LastPlaced
    <3>5. coeffs \in [0..(N - 1) -> 0..shifts] /\ coeffs[place] = Zero
      BY <3>1 DEF ChallengeInv
    <3>6. Undone(coeffs', b, place) = coeffs
      <4>1. Undone(coeffs', b, place) =
              [coeffs' EXCEPT ![b] = coeffs'[place], ![place] = Zero]
        BY DEF Undone
      <4>2. \A k \in 0..(N - 1) : Undone(coeffs', b, place)[k] = coeffs[k]
        BY <3>1, <3>2, <3>3, <3>5, <4>1
      <4>3. DOMAIN Undone(coeffs', b, place) = 0..(N - 1)
        BY <3>3, <4>1
      <4>4. Undone(coeffs', b, place) = [k \in 0..(N - 1) |-> Undone(coeffs', b, place)[k]]
        BY <4>1, <4>3
      <4> QED BY <3>5, <4>2, <4>4
    <3> QED BY <2>3, <3>1, <3>4, <3>6
  <2> QED BY <2>1, <2>2, <2>3 DEF ChallengeNext, challengeAccept
<1>2. ChallengeSpec => [][Round]_challengeVars
  BY <1>1, ChallengeInvariance, PTL DEF ChallengeSpec
<1> QED BY <1>2 DEF ChallengeKeepsChoices

-----------------------------------------------------------------------------
(***************************************************************************)
(* randombytes.  RandomInv: the bytes already read are set once, the others *)
(* not at all; which descriptors can be open at each call; and that the    *)
(* wait has ended with enough entropy or with an error before urandom is   *)
(* read.  The last needs that retcode_error is what WaitResult looks at.   *)
(***************************************************************************)
OneCall  == {"getrandom", "arc4random", "randomBytes", "CryptAcquireContext"}
Context  == {"CryptGenRandom", "CryptReleaseContext"}
Device   == {"open urandom", "ioctl", "waited", "read"}
Polling  == {"open random", "poll", "ioctl again", "fscanf", "close random", "fclose"}

ReadOnce ==
  /\ left \in 0..BYTES
  /\ writes = [b \in 0..(BYTES - 1) |-> IF b < BYTES - left THEN 1 ELSE 0]

Opened ==
  /\ strategy \in {"IOCTL", "PROC"}
  /\ build # "urandom" => call \in OneCall \cup Context \cup {"returned"}
  /\ call \in OneCall => open = {}
  /\ call \in Context => open = {"context"}
  /\ call \in Device => open \subseteq {"urandom"}
  /\ call \in Polling => open \subseteq {"urandom", "random", "proc"}
  /\ call = "fclose" => "random" \notin open
  /\ call # "returned" /\ strategy = "IOCTL" => "proc" \notin open

Enough ==
  /\ retcode_error \in {0, -1}
  /\ call = "read" => entropy = TRUE
  /\ call \in {"close random", "fclose", "waited"} => entropy = TRUE \/ retcode_error = -1

RandomInv ==
  /\ ReadOnce /\ Opened /\ Enough
  /\ call = "CryptReleaseContext" => left = 0
  /\ call = "returned" /\ ret = 0 => left = 0 /\ open = {}

LEMMA ShortRead ==
  ASSUME NEW n \in Nat, n > 0, NEW k \in 1..Min({n, CHUNK})
  PROVE  k \in 1..n
<1>1. CHUNK \in Nat /\ CHUNK > 0
  BY RandomAssumption
<1> DEFINE S == {n, CHUNK}
<1>2. \E x \in S : \A y \in S : x <= y
  BY <1>1
<1>3. Min(S) \in S /\ \A y \in S : Min(S) <= y
  BY <1>2 DEF Min
<1>4. Min(S) \in Nat /\ Min(S) <= n
  BY <1>1, <1>3
<1> QED BY <1>4

\* A call that fills the next k bytes sets each of them once.
LEMMA FilledKeeps ==
  ASSUME ReadOnce, NEW k \in 0..left, writes' = Filled(k), left' = left - k
  PROVE  ReadOnce'
<1>1. BYTES \in Nat /\ left \in 0..BYTES /\ left' \in 0..BYTES
  BY RandomAssumption DEF ReadOnce
<1>2. DOMAIN writes = 0..(BYTES - 1)
      /\ \A b \in 0..(BYTES - 1) : writes[b] = IF b < BYTES - left THEN 1 ELSE 0
  BY DEF ReadOnce
<1>3. writes' = [b \in 0..(BYTES - 1) |->
                   IF BYTES - left <= b /\ b < BYTES - left + k THEN writes[b] + 1 ELSE writes[b]]
  BY <1>2 DEF Filled
<1>4. ASSUME NEW b \in 0..(BYTES - 1)
      PROVE  (IF BYTES - left <= b /\ b < BYTES - left + k THEN writes[b] + 1 ELSE writes[b])
               = IF b < BYTES - left' THEN 1 ELSE 0
  BY <1>1, <1>2
<1> QED BY <1>1, <1>3, <1>4 DEF ReadOnce

LEMMA FillAllKeeps == ASSUME ReadOnce, FillAll PROVE ReadOnce' /\ left' = 0
<1>1. left \in 0..left /\ left' = left - left /\ left' = 0 /\ writes' = Filled(left)
  BY RandomAssumption DEF ReadOnce, FillAll
<1> QED BY <1>1, FilledKeeps

LEMMA FillingKept == ReadOnce /\ UNCHANGED filling => ReadOnce'
BY DEF ReadOnce, filling

LEMMA FailureReturned == Return(-1) => call' = "returned" /\ ret' # 0
<1>1. -1 # 0
  OBVIOUS
<1> QED BY <1>1 DEF Return

LEMMA RandomStart == RandomInit => RandomInv
<1> SUFFICES ASSUME RandomInit PROVE RandomInv
  OBVIOUS
<1>1. ReadOnce
  BY RandomAssumption DEF RandomInit, ReadOnce
<1>2. call \in OneCall \cup {"open urandom"} /\ (build # "urandom" => call \in OneCall)
  <2>1. build \in {"getrandom", "urandom", "arc4random", "nodejs", "win32"}
        /\ call = FirstCall[build]
    BY ZenonT(60) DEF RandomInit, FirstCall
  <2>2. /\ FirstCall["getrandom"] = "getrandom" /\ FirstCall["urandom"] = "open urandom"
        /\ FirstCall["arc4random"] = "arc4random" /\ FirstCall["nodejs"] = "randomBytes"
        /\ FirstCall["win32"] = "CryptAcquireContext"
    BY DEF FirstCall
  <2> QED BY <2>1, <2>2, ZenonT(60) DEF OneCall
<1>3. open = {} /\ retcode_error = 0 /\ strategy = "IOCTL"
  BY DEF RandomInit
<1> QED BY <1>1, <1>2, <1>3, ZenonT(60)
        DEF RandomInv, Opened, Enough, OneCall, Context, Device, Polling

LEMMA RandomKeeps == RandomInv /\ [RandomNext]_randomVars => RandomInv'
<1> SUFFICES ASSUME RandomInv, [RandomNext]_randomVars PROVE RandomInv'
  OBVIOUS
<1>0. BYTES \in Nat /\ ReadOnce /\ left \in 0..BYTES
  BY RandomAssumption DEF RandomInv, ReadOnce
<1> USE DEF Opened, Enough, OneCall, Context, Device, Polling,
            waiting, results, Goto
<1>1. CASE Interrupted
  BY <1>1, FillingKept, ZenonT(60) DEF Interrupted, RandomInv, filling
<1>2. CASE ReadSome
  <2>1. PICK k \in 1..Min({left, CHUNK}) : writes' = Filled(k) /\ left' = left - k
    BY <1>2 DEF ReadSome
  <2>2. left > 0 /\ call \in {"getrandom", "read"}
        /\ UNCHANGED <<call, ret, build, open, strategy, entropy, procReads, retcode_error>>
    BY <1>2 DEF ReadSome
  <2>3. k \in 1..left
    BY <1>0, <2>1, <2>2, ShortRead
  <2>4. k \in 0..left
    BY <1>0, <2>3
  <2>5. ReadOnce'
    BY <1>0, <2>1, <2>4, FilledKeeps
  <2> QED BY <2>2, <2>5, ZenonT(60) DEF RandomInv
<1>3. CASE ReadAll
  BY <1>3, FillingKept, ZenonT(60) DEF ReadAll, RandomInv, filling, Return
<1>4. CASE Fails
  BY <1>4, FillingKept, FailureReturned, ZenonT(60) DEF Fails, RandomInv, filling
<1>5. CASE OpenUrandom
  BY <1>5, FillingKept, ZenonT(60) DEF OpenUrandom, RandomInv, filling
<1>6. CASE Ioctl
  BY <1>6, FillingKept, ZenonT(60) DEF Ioctl, RandomInv, filling
<1>7. CASE IoctlUnsupported
  BY <1>7, FillingKept, ZenonT(60) DEF IoctlUnsupported, RandomInv, filling
<1>8. CASE OpenRandom
  BY <1>8, FillingKept, ZenonT(60) DEF OpenRandom, RandomInv, filling
<1>9. CASE Poll
  BY <1>9, FillingKept, ZenonT(60) DEF Poll, RandomInv, filling
<1>10. CASE EntropyRead
  BY <1>10, FillingKept, ZenonT(60) DEF EntropyRead, RandomInv, filling
<1>11. CASE WaitFails
  BY <1>11, FillingKept, ZenonT(60) DEF WaitFails, RandomInv, filling
<1>12. CASE FscanfFails
  BY <1>12, FillingKept, ZenonT(60) DEF FscanfFails, RandomInv, filling
<1>13. CASE CloseRandom
  BY <1>13, FillingKept, ZenonT(60) DEF CloseRandom, RandomInv, filling
<1>14. CASE Fclose
  BY <1>14, FillingKept, ZenonT(60) DEF Fclose, RandomInv, filling
<1>15. CASE Waited
  <2>1. CASE WaitResult = -1
    BY <1>15, <2>1, FillingKept, FailureReturned DEF Waited, RandomInv
  <2>2. CASE WaitResult # -1
    <3>1. retcode_error = 0
      BY <2>2, ZenonT(60) DEF WaitResult, RandomInv
    <3>2. call' = "read" /\ entropy = TRUE /\ ~(retcode_error = -1)
      BY <1>15, <2>2, <3>1 DEF Waited, RandomInv
    <3> QED BY <1>15, <3>2, FillingKept DEF Waited, RandomInv, filling
  <2> QED BY <2>1, <2>2
<1>16. CASE Arc4random
  BY <1>0, <1>16, FillAllKeeps DEF Arc4random, RandomInv, Return
<1>17. CASE NodeRandomBytes
  <2>1. CASE FillAll /\ Return(0) /\ UNCHANGED <<build, errno>>
    BY <1>0, <1>17, <2>1, FillAllKeeps DEF NodeRandomBytes, RandomInv, Return
  <2>2. CASE Return(-1) /\ UNCHANGED filling
    BY <1>17, <2>2, FillingKept, FailureReturned DEF NodeRandomBytes, RandomInv, filling
  <2> QED BY <1>17, <2>1, <2>2 DEF NodeRandomBytes
<1>18. CASE CryptAcquireContext
  BY <1>18, FillingKept DEF CryptAcquireContext, RandomInv, filling
<1>19. CASE CryptGenRandom
  BY <1>0, <1>19, FillAllKeeps DEF CryptGenRandom, RandomInv
<1>20. CASE CryptReleaseContext
  BY <1>20, FillingKept DEF CryptReleaseContext, RandomInv, filling, Return
<1>21. CASE CryptFails
  BY <1>21, FillingKept, FailureReturned, ZenonT(60) DEF CryptFails, RandomInv, filling
<1>22. CASE UNCHANGED randomVars
  BY <1>22, FillingKept, ZenonT(60) DEF randomVars, RandomInv, filling
<1> QED
  BY <1>1, <1>2, <1>3, <1>4, <1>5, <1>6, <1>7, <1>8, <1>9, <1>10, <1>11, <1>12, <1>13,
     <1>14, <1>15, <1>16, <1>17, <1>18, <1>19, <1>20, <1>21, <1>22
     DEF RandomNext, RandomProgress

\* randombytes sets every byte it was asked for once, and reads urandom only
\* after the wait for entropy succeeded: for every length, every most bytes of
\* a call, and any pattern of short reads, interruptions and errors.
THEOREM BytesFilled == RandomSpec => []RandomBytesFills
<1>1. RandomInv => RandomBytesFills
  <2> SUFFICES ASSUME RandomInv PROVE RandomBytesFills
    OBVIOUS
  <2>1. \A b \in DOMAIN writes : writes[b] = IF b < BYTES - left THEN 1 ELSE 0
    BY DEF RandomInv, ReadOnce
  <2>2. (call = "read" => entropy) /\ (call = "returned" /\ ret = 0 => left = 0 /\ open = {})
    BY ZenonT(60) DEF RandomInv, Enough
  <2> QED BY <2>1, <2>2 DEF RandomBytesFills
<1> QED BY <1>1, RandomStart, RandomKeeps, PTL DEF RandomSpec

-----------------------------------------------------------------------------
(***************************************************************************)
(* Signed messages.  MessageInv says, while a message is moved, which of   *)
(* its bytes are already at their new place and that the others are still  *)
(* at the old one; and, between the calls, that the first byte of the      *)
(* signature is one of what was signed, or is no signature.                *)
(***************************************************************************)
Place == sm + SIGBYTES

Signing  == step \in {"sign", "held", "refused"}
Opening  == step \in {"copy", "opened"}

MovedUp ==
  \A k \in 1..mlen :
    /\ k > mlen - copied => memory[Place + k - 1] = Text(k)
    /\ step = "sign" /\ k <= mlen - copied => memory[m + k - 1] = Text(k)

MovedDown ==
  \A k \in 1..mlen :
    /\ k <= copied => memory[m + k - 1] = signed[k]
    /\ k > copied => memory[Place + k - 1] = signed[k]

Buffers ==
  /\ sm \in Nat /\ m \in Nat /\ mlen \in Nat /\ copied \in Nat
  /\ DOMAIN memory = 0..(Cells - 1)

SigningInv ==
  Signing =>
    /\ Place + mlen <= Cells /\ m + mlen <= Cells /\ copied <= mlen
    /\ message = [k \in 1..mlen |-> Text(k)]
    /\ CopyReaches => MovedUp

HeldInv ==
  /\ step = "refused" => copied = mlen
  /\ step = "held" =>
       /\ smlen = SIGBYTES + mlen /\ copied = mlen
       /\ At(sm, SIGBYTES) = Sig(signed) /\ At(Place, mlen) = signed

HandedInv ==
  step = "open" =>
    /\ memory[sm] \in {<<"sig", 1, signed>>, Junk}
    /\ copied = 0 /\ smlen \in Nat
    /\ sm + smlen <= Cells /\ m + smlen <= Cells

OpeningInv ==
  /\ Opening =>
       /\ smlen = SIGBYTES + mlen /\ copied <= mlen
       /\ sm + smlen <= Cells /\ m + smlen <= Cells
       /\ signed = [k \in 1..mlen |-> signed[k]]
       /\ CopyReaches => MovedDown
  /\ step = "opened" => copied = mlen
  /\ step = "bad" =>
       mlen = 0 /\ smlen \in Nat /\ \A c \in m..(m + smlen - 1) : memory[c] = Nought

MessageInv == Buffers /\ SigningInv /\ HeldInv /\ HandedInv /\ OpeningInv

LEMMA MessageStart == MessageInit => MessageInv
<1> SUFFICES ASSUME MessageInit PROVE MessageInv
  OBVIOUS
<1>1. /\ SIGBYTES \in Nat /\ Cells \in Nat /\ MaxMlen \in Nat
      /\ mlen \in 0..MaxMlen /\ sm \in 0..(Cells - SIGBYTES - mlen) /\ m \in 0..(Cells - mlen)
      /\ copied = 0 /\ step = "sign"
      /\ message = [k \in 1..mlen |-> Text(k)]
      /\ memory = [c \in 0..(Cells - 1) |->
                     IF c \in m..(m + mlen - 1) THEN Text(c - m + 1) ELSE Junk]
  BY MessageAssumption DEF MessageInit
<1>2. Buffers
  BY <1>1 DEF Buffers
<1>3. Place + mlen <= Cells /\ m + mlen <= Cells /\ copied <= mlen
  BY <1>1 DEF Place
<1>4. MovedUp
  <2> SUFFICES ASSUME NEW k \in 1..mlen PROVE memory[m + k - 1] = Text(k) /\ ~(k > mlen - copied)
    BY DEF MovedUp
  <2>1. m + k - 1 \in 0..(Cells - 1) /\ m + k - 1 \in m..(m + mlen - 1)
        /\ (m + k - 1) - m + 1 = k
    BY <1>1
  <2> QED BY <1>1, <2>1
<1> QED BY <1>1, <1>2, <1>3, <1>4
        DEF MessageInv, SigningInv, HeldInv, HandedInv, OpeningInv, Opening

\* Signing moves the last byte that is not yet moved.
LEMMA SignCopyKeeps == ASSUME MessageInv, signCopy PROVE MessageInv'
<1>1. /\ step = "sign" /\ copied < mlen /\ copied' = copied + 1
      /\ memory' = [memory EXCEPT ![sm + SIGBYTES + mlen - 1 - copied]
                                    = memory[m + mlen - 1 - copied]]
      /\ message' = message /\ sm' = sm /\ m' = m /\ mlen' = mlen /\ step' = step
  BY DEF signCopy, LastByteFirst
<1>2. /\ DOMAIN memory = 0..(Cells - 1)
      /\ message = [k \in 1..mlen |-> Text(k)]
      /\ CopyReaches => MovedUp
  BY <1>1 DEF MessageInv, Buffers, SigningInv, Signing
<1>3. /\ SIGBYTES \in Nat /\ Cells \in Nat /\ sm \in Nat /\ m \in Nat /\ mlen \in Nat
      /\ copied \in Nat /\ copied < mlen
      /\ Place = sm + SIGBYTES /\ Place \in Nat
      /\ Place + mlen <= Cells /\ m + mlen <= Cells /\ copied <= mlen
  BY <1>1, MessageAssumption, SMTT(60) DEF MessageInv, Buffers, SigningInv, Signing, Place
<1>4. Place' = Place /\ (CopyReaches' => CopyReaches) /\ DOMAIN memory' = 0..(Cells - 1)
  BY <1>1, <1>2 DEF Place, CopyReaches
<1>5. CopyReaches' => MovedUp'
  <2> SUFFICES ASSUME CopyReaches, MovedUp, NEW k \in 1..mlen
               PROVE  /\ k > mlen - copied' => memory'[Place + k - 1] = Text(k)
                      /\ k <= mlen - copied' => memory'[m + k - 1] = Text(k)
    BY <1>1, <1>2, <1>4 DEF MovedUp
  <2> DEFINE j == mlen - copied
  <2>1. /\ j \in 1..mlen /\ j <= mlen - copied
        /\ sm + SIGBYTES + mlen - 1 - copied = Place + j - 1
        /\ m + mlen - 1 - copied = m + j - 1
        /\ Place + k - 1 \in 0..(Cells - 1) /\ m + k - 1 \in 0..(Cells - 1)
        /\ Place + j - 1 \in 0..(Cells - 1)
    BY <1>3
  <2>2. mlen - copied' = j - 1
    BY <1>1, <1>3
  <2>3. memory' = [memory EXCEPT ![Place + j - 1] = memory[m + j - 1]]
    BY <1>1, <2>1
  <2>4. memory[m + j - 1] = Text(j)
    <3> HIDE DEF j
    <3> QED BY <1>1, <2>1 DEF MovedUp
  <2>5. CASE k > j
    <3>1. memory[Place + k - 1] = Text(k) /\ Place + k - 1 # Place + j - 1
      BY <1>3, <2>5 DEF MovedUp
    <3>2. memory'[Place + k - 1] = Text(k)
      BY <1>2, <2>1, <2>3, <3>1
    <3> QED BY <1>3, <2>2, <2>5, <3>2
  <2>6. CASE k = j
    <3>1. memory'[Place + k - 1] = Text(k)
      BY <1>2, <2>1, <2>3, <2>4, <2>6
    <3> QED BY <1>3, <2>2, <2>6, <3>1
  <2>7. CASE k < j
    <3>1. memory[m + k - 1] = Text(k)
      BY <1>1, <1>3, <2>7 DEF MovedUp
    <3>2. m + k - 1 # Place + j - 1
      BY <1>3, <2>7 DEF CopyReaches
    <3>3. memory'[m + k - 1] = Text(k)
      BY <1>2, <2>1, <2>3, <3>1, <3>2
    <3> QED BY <1>3, <2>2, <2>7, <3>3
  <2> QED BY <1>3, <2>5, <2>6, <2>7
<1> QED BY <1>1, <1>2, <1>3, <1>4, <1>5, SMTT(60)
        DEF MessageInv, Buffers, SigningInv, HeldInv, HandedInv, OpeningInv, Opening

\* The signature does not touch what it signs.
LEMMA SignSignatureKeeps == ASSUME MessageInv, signSignature PROVE MessageInv'
<1> DEFINE t == At(Place, mlen)
<1>1. /\ step = "sign" /\ copied = mlen /\ smlen' = SIGBYTES + mlen
      /\ memory' = [c \in DOMAIN memory |->
                      IF c \in sm..(sm + SIGBYTES - 1) THEN Sig(t)[c - sm + 1] ELSE memory[c]]
      /\ signed' = t /\ step' = "held"
      /\ message' = message /\ sm' = sm /\ m' = m /\ mlen' = mlen /\ copied' = copied
  BY DEF signSignature, Place
<1>2. /\ SIGBYTES \in Nat /\ Cells \in Nat /\ sm \in Nat /\ m \in Nat /\ mlen \in Nat
      /\ DOMAIN memory = 0..(Cells - 1)
      /\ Place + mlen <= Cells /\ m + mlen <= Cells
      /\ message = [k \in 1..mlen |-> Text(k)]
      /\ CopyReaches => MovedUp
  BY <1>1, MessageAssumption DEF MessageInv, Buffers, SigningInv, Signing
<1>3. Place' = Place /\ (CopyReaches' => CopyReaches) /\ DOMAIN memory' = 0..(Cells - 1)
      /\ Place = sm + SIGBYTES
  BY <1>1, <1>2 DEF Place, CopyReaches
<1>4. \A k \in 1..mlen : memory'[Place + k - 1] = memory[Place + k - 1]
  <2> SUFFICES ASSUME NEW k \in 1..mlen PROVE memory'[Place + k - 1] = memory[Place + k - 1]
    OBVIOUS
  <2>1. Place + k - 1 \in 0..(Cells - 1) /\ Place + k - 1 \notin sm..(sm + SIGBYTES - 1)
    BY <1>2, <1>3
  <2> HIDE DEF t
  <2> QED BY <1>1, <1>2, <2>1
<1>5. \A k \in 1..SIGBYTES : memory'[sm + k - 1] = Sig(t)[k]
  <2> SUFFICES ASSUME NEW k \in 1..SIGBYTES PROVE memory'[sm + k - 1] = Sig(t)[k]
    OBVIOUS
  <2>1. sm + k - 1 \in 0..(Cells - 1) /\ sm + k - 1 \in sm..(sm + SIGBYTES - 1)
        /\ (sm + k - 1) - sm + 1 = k
    BY <1>2, <1>3
  <2> HIDE DEF t
  <2> QED BY <1>1, <1>2, <2>1
<1>6. At(sm, SIGBYTES)' = Sig(signed')
  <2>1. At(sm, SIGBYTES)' = [k \in 1..SIGBYTES |-> memory'[sm + k - 1]]
    BY <1>1 DEF At
  <2>2. Sig(t) = [k \in 1..SIGBYTES |-> Sig(t)[k]]
    BY DEF Sig
  <2> HIDE DEF t
  <2> QED BY <1>1, <1>5, <2>1, <2>2
<1>7. At(Place, mlen)' = signed'
  BY <1>1, <1>3, <1>4 DEF At
<1>8. CopyReaches' => MovedUp'
  BY <1>1, <1>2, <1>3, <1>4 DEF MovedUp
<1> QED BY <1>1, <1>2, <1>3, <1>6, <1>7, <1>8
        DEF MessageInv, Buffers, SigningInv, HeldInv, HandedInv, OpeningInv, Opening

LEMMA SignRefusesKeeps == ASSUME MessageInv, signRefuses PROVE MessageInv'
<1>1. /\ step = "sign" /\ copied = mlen /\ step' = "refused"
      /\ UNCHANGED <<memory, message, sm, m, mlen, copied, signed>>
  BY DEF signRefuses
<1>2. /\ Buffers /\ Place + mlen <= Cells /\ m + mlen <= Cells
      /\ message = [k \in 1..mlen |-> Text(k)] /\ (CopyReaches => MovedUp)
  BY <1>1 DEF MessageInv, SigningInv, Signing
<1>3. Buffers' /\ Place' = Place /\ (CopyReaches' => CopyReaches) /\ (MovedUp => MovedUp')
  BY <1>1, <1>2 DEF Buffers, Place, CopyReaches, MovedUp
<1> QED BY <1>1, <1>2, <1>3
        DEF MessageInv, Buffers, SigningInv, HeldInv, HandedInv, OpeningInv, Opening

\* A changed or cut signed message still begins with a byte of the signature
\* of what was signed, or with no byte of a signature.
LEMMA HandedKeeps ==
  ASSUME MessageInv, NEW n \in 0..smlen, Handed(n), mlen' = mlen,
         DOMAIN memory' = DOMAIN memory, memory'[sm] \in {memory[sm], Junk}
  PROVE  MessageInv'
<1>1. /\ step = "held" /\ smlen' = n /\ m' \in 0..(Cells - n) /\ copied' = 0 /\ step' = "open"
      /\ sm' = sm /\ signed' = signed
  BY DEF Handed
<1>2. /\ SIGBYTES \in Nat \ {0} /\ Cells \in Nat /\ sm \in Nat /\ mlen \in Nat
      /\ DOMAIN memory = 0..(Cells - 1) /\ smlen = SIGBYTES + mlen
      /\ sm + SIGBYTES + mlen <= Cells
      /\ At(sm, SIGBYTES) = Sig(signed)
  BY <1>1, MessageAssumption
     DEF MessageInv, Buffers, SigningInv, Signing, HeldInv, Place
<1>3. memory[sm] = <<"sig", 1, signed>>
  <2>1. 1 \in 1..SIGBYTES /\ sm + 1 - 1 = sm
    BY <1>2
  <2>2. At(sm, SIGBYTES)[1] = memory[sm] /\ Sig(signed)[1] = <<"sig", 1, signed>>
    BY <2>1 DEF At, Sig
  <2> QED BY <1>2, <2>2
<1>4. /\ memory'[sm'] \in {<<"sig", 1, signed'>>, Junk}
      /\ n \in Nat /\ m' \in Nat /\ sm' + smlen' <= Cells /\ m' + smlen' <= Cells
  <2>1. smlen \in Nat /\ sm + smlen <= Cells
    BY <1>2
  <2>2. n \in Nat /\ n <= smlen
    BY <2>1
  <2>3. m' \in 0..(Cells - n) /\ Cells \in Nat /\ sm \in Nat
    BY <1>1, <1>2
  <2>4. sm + n <= Cells
    BY <2>1, <2>2, <2>3
  <2>5. \A x \in 0..(Cells - n) : x \in Nat /\ x + n <= Cells
    BY <2>2, <2>3
  <2>6. m' \in Nat /\ m' + n <= Cells
    BY <2>3, <2>5
  <2> QED BY <1>1, <1>3, <2>2, <2>4, <2>6
<1> QED BY <1>1, <1>2, <1>4
        DEF MessageInv, Buffers, SigningInv, Signing, HeldInv, HandedInv, OpeningInv, Opening

LEMMA HeldLength ==
  ASSUME MessageInv, step = "held"
  PROVE  smlen \in Nat /\ sm \in Nat /\ sm + smlen <= Cells /\ DOMAIN memory = 0..(Cells - 1)
BY MessageAssumption DEF MessageInv, Buffers, HeldInv, SigningInv, Signing, Place

\* What verifies is what was signed.
LEMMA OpenAcceptsKeeps == ASSUME MessageInv, openAccepts PROVE MessageInv'
<1>1. /\ step = "open" /\ smlen >= SIGBYTES /\ Verifies
      /\ mlen' = smlen - SIGBYTES /\ step' = "copy"
      /\ memory' = memory /\ sm' = sm /\ m' = m /\ smlen' = smlen /\ copied' = copied
      /\ signed' = signed
  BY DEF openAccepts, LongEnough
<1>2. /\ SIGBYTES \in Nat \ {0} /\ Cells \in Nat /\ sm \in Nat /\ m \in Nat
      /\ smlen \in Nat /\ copied = 0 /\ DOMAIN memory = 0..(Cells - 1)
      /\ memory[sm] \in {<<"sig", 1, signed>>, Junk}
      /\ sm + smlen <= Cells /\ m + smlen <= Cells
  BY <1>1, MessageAssumption DEF MessageInv, Buffers, HandedInv
<1> DEFINE t == At(Place, mlen')
<1>3. memory[sm] = <<"sig", 1, t>>
  <2>1. 1 \in 1..SIGBYTES /\ sm + 1 - 1 = sm
    BY <1>2
  <2>2. At(sm, SIGBYTES)[1] = memory[sm] /\ Sig(t)[1] = <<"sig", 1, t>>
    BY <2>1 DEF At, Sig
  <2>3. At(sm, SIGBYTES) = Sig(t)
    BY <1>1 DEF Verifies, Place
  <2> QED BY <2>2, <2>3
<1>4. signed = t
  <2>1. <<"sig", 1, t>> # Junk
    BY DEF Junk
  <2> HIDE DEF t
  <2> QED BY <1>2, <1>3, <2>1
<1>5. signed' = [k \in 1..mlen' |-> memory[Place + k - 1]] /\ mlen' \in Nat /\ Place' = Place
  BY <1>1, <1>2, <1>4 DEF At, Place
<1>6. signed' = [k \in 1..mlen' |-> signed'[k]] /\ MovedDown'
  BY <1>1, <1>2, <1>5 DEF MovedDown
<1>7. smlen' = SIGBYTES + mlen' /\ copied' <= mlen'
  BY <1>1, <1>2
<1> QED BY <1>1, <1>2, <1>5, <1>6, <1>7
        DEF MessageInv, Buffers, SigningInv, Signing, HeldInv, HandedInv, OpeningInv, Opening

\* Opening moves the first byte that is not yet moved.
LEMMA OpenCopyKeeps == ASSUME MessageInv, openCopy PROVE MessageInv'
<1>1. /\ step = "copy" /\ copied < mlen /\ copied' = copied + 1
      /\ memory' = [memory EXCEPT ![m + copied] = memory[sm + SIGBYTES + copied]]
      /\ sm' = sm /\ m' = m /\ mlen' = mlen /\ smlen' = smlen /\ step' = step
      /\ signed' = signed
  BY DEF openCopy
<1>2. /\ DOMAIN memory = 0..(Cells - 1)
      /\ signed = [k \in 1..mlen |-> signed[k]]
      /\ CopyReaches => MovedDown
  BY <1>1 DEF MessageInv, Buffers, OpeningInv, Opening
<1>3. /\ SIGBYTES \in Nat /\ Cells \in Nat /\ sm \in Nat /\ m \in Nat /\ mlen \in Nat
      /\ copied \in Nat /\ copied < mlen
      /\ smlen = SIGBYTES + mlen /\ sm + smlen <= Cells /\ m + smlen <= Cells
      /\ Place = sm + SIGBYTES /\ Place \in Nat
  BY <1>1, MessageAssumption, SMTT(60) DEF MessageInv, Buffers, OpeningInv, Opening, Place
<1>4. /\ Place' = Place
      /\ (CopyReaches' => CopyReaches) /\ DOMAIN memory' = 0..(Cells - 1)
  BY <1>1, <1>2 DEF Place, CopyReaches
<1>5. CopyReaches' => MovedDown'
  <2> SUFFICES ASSUME CopyReaches, MovedDown, NEW k \in 1..mlen
               PROVE  /\ k <= copied' => memory'[m + k - 1] = signed[k]
                      /\ k > copied' => memory'[Place + k - 1] = signed[k]
    BY <1>1, <1>2, <1>4 DEF MovedDown
  <2> DEFINE j == copied + 1
  <2>1. /\ j \in 1..mlen /\ j > copied
        /\ sm + SIGBYTES + copied = Place + j - 1 /\ m + copied = m + j - 1
        /\ Place + k - 1 \in 0..(Cells - 1) /\ m + k - 1 \in 0..(Cells - 1)
        /\ m + j - 1 \in 0..(Cells - 1)
    BY <1>3
  <2>2. copied' = j
    BY <1>1
  <2>3. memory' = [memory EXCEPT ![m + j - 1] = memory[Place + j - 1]]
    BY <1>1, <2>1
  <2>4. memory[Place + j - 1] = signed[j]
    <3> HIDE DEF j
    <3> QED BY <2>1 DEF MovedDown
  <2>5. CASE k < j
    <3>1. memory[m + k - 1] = signed[k] /\ m + k - 1 # m + j - 1
      BY <1>3, <2>5 DEF MovedDown
    <3>2. memory'[m + k - 1] = signed[k]
      BY <1>2, <2>1, <2>3, <3>1
    <3> QED BY <1>3, <2>2, <2>5, <3>2
  <2>6. CASE k = j
    <3>1. memory'[m + k - 1] = signed[k]
      BY <1>2, <2>1, <2>3, <2>4, <2>6
    <3> QED BY <1>3, <2>2, <2>6, <3>1
  <2>7. CASE k > j
    <3>1. memory[Place + k - 1] = signed[k]
      BY <1>3, <2>7 DEF MovedDown
    <3>2. Place + k - 1 # m + j - 1
      BY <1>3, <2>7 DEF CopyReaches
    <3>3. memory'[Place + k - 1] = signed[k]
      BY <1>2, <2>1, <2>3, <3>1, <3>2
    <3> QED BY <1>3, <2>2, <2>7, <3>3
  <2> QED BY <1>3, <2>5, <2>6, <2>7
<1> QED BY <1>1, <1>2, <1>3, <1>4, <1>5, SMTT(60)
        DEF MessageInv, Buffers, SigningInv, Signing, HeldInv, HandedInv, OpeningInv, Opening

LEMMA OpenReturnsKeeps == ASSUME MessageInv, openReturns PROVE MessageInv'
<1>1. /\ step = "copy" /\ copied = mlen /\ step' = "opened"
      /\ UNCHANGED <<memory, message, sm, m, mlen, smlen, copied, signed>>
  BY DEF openReturns
<1>2. Buffers /\ Buffers' /\ Place' = Place /\ (CopyReaches' => CopyReaches)
      /\ (MovedDown => MovedDown')
  BY <1>1 DEF MessageInv, Buffers, Place, CopyReaches, MovedDown
<1> QED BY <1>1, <1>2
        DEF MessageInv, SigningInv, Signing, HeldInv, HandedInv, OpeningInv, Opening

\* The whole of the receiver's buffer is cleared.
LEMMA OpenBadsigKeeps == ASSUME MessageInv, openBadsig PROVE MessageInv'
<1>1. /\ step = "open" /\ mlen' = 0 /\ step' = "bad"
      /\ memory' = [c \in DOMAIN memory |->
                      IF c \in m..(m + smlen - 1) THEN Nought ELSE memory[c]]
      /\ sm' = sm /\ m' = m /\ smlen' = smlen /\ copied' = copied
  BY DEF openBadsig, Cleared
<1>2. /\ Cells \in Nat /\ sm \in Nat /\ m \in Nat /\ copied \in Nat
      /\ smlen \in Nat /\ DOMAIN memory = 0..(Cells - 1) /\ m + smlen <= Cells
  BY <1>1, MessageAssumption DEF MessageInv, Buffers, HandedInv
<1>3. \A c \in m..(m + smlen - 1) : memory'[c] = Nought
  BY <1>1, <1>2
<1> QED BY <1>1, <1>2, <1>3
        DEF MessageInv, Buffers, SigningInv, Signing, HeldInv, HandedInv, OpeningInv, Opening

LEMMA MessageKeeps == MessageInv /\ [MessageNext]_messageVars => MessageInv'
<1> SUFFICES ASSUME MessageInv, [MessageNext]_messageVars PROVE MessageInv'
  OBVIOUS
<1>1. CASE signCopy
  BY <1>1, SignCopyKeeps
<1>2. CASE signSignature
  BY <1>2, SignSignatureKeeps
<1>3. CASE signRefuses
  BY <1>3, SignRefusesKeeps
<1>4. CASE handOver
  <2>1. Handed(smlen) /\ memory' = memory /\ mlen' = mlen /\ step = "held"
    BY <1>4 DEF handOver, Handed
  <2>2. smlen \in 0..smlen
    BY <2>1, HeldLength
  <2>3. DOMAIN memory' = DOMAIN memory /\ memory'[sm] \in {memory[sm], Junk}
    BY <2>1
  <2> QED BY <2>1, <2>2, <2>3, HandedKeeps
<1>5. CASE handOverChanged
  <2>1. Handed(smlen) /\ mlen' = mlen /\ step = "held"
    BY <1>5 DEF handOverChanged, Handed
  <2>2. PICK c \in sm..(sm + smlen - 1) : memory' = [memory EXCEPT ![c] = Junk]
    BY <1>5 DEF handOverChanged
  <2>3. smlen \in Nat /\ sm \in Nat /\ sm + smlen <= Cells /\ DOMAIN memory = 0..(Cells - 1)
    BY <2>1, HeldLength
  <2>4. smlen \in 0..smlen /\ sm \in DOMAIN memory
    <3>1. sm <= c /\ c <= sm + smlen - 1 /\ c \in Int
      BY <2>3
    <3>2. Cells \in Nat
      BY MessageAssumption
    <3> QED BY <2>3, <3>1, <3>2
  <2>5. DOMAIN memory' = DOMAIN memory /\ memory'[sm] \in {memory[sm], Junk}
    BY <2>2, <2>4
  <2> QED BY <2>1, <2>4, <2>5, HandedKeeps
<1>6. CASE handOverCut
  <2>1. PICK n \in 0..(smlen - 1) : Handed(n) /\ memory' = memory /\ mlen' = mlen
    BY <1>6 DEF handOverCut
  <2>2. step = "held"
    BY <2>1 DEF Handed
  <2>3. n \in 0..smlen
    BY <2>1, <2>2, HeldLength
  <2>4. DOMAIN memory' = DOMAIN memory /\ memory'[sm] \in {memory[sm], Junk}
    BY <2>1
  <2> QED BY <2>1, <2>3, <2>4, HandedKeeps
<1>7. CASE openAccepts
  BY <1>7, OpenAcceptsKeeps
<1>8. CASE openCopy
  BY <1>8, OpenCopyKeeps
<1>9. CASE openReturns
  BY <1>9, OpenReturnsKeeps
<1>10. CASE openBadsig
  BY <1>10, OpenBadsigKeeps
<1>11. CASE UNCHANGED messageVars
  BY <1>11
     DEF messageVars, MessageInv, Buffers, SigningInv, Signing, HeldInv, HandedInv,
         OpeningInv, Opening, MovedUp, MovedDown, Place, CopyReaches, At
<1> QED BY <1>1, <1>2, <1>3, <1>4, <1>5, <1>6, <1>7, <1>8, <1>9, <1>10, <1>11
        DEF MessageNext

LEMMA MessageInvariance == MessageSpec => []MessageInv
BY MessageStart, MessageKeeps, PTL DEF MessageSpec

\* crypto_sign_ctx signs the message it was given wherever m lies, as long as
\* a copy from the last byte to the first can reach it: for every length of
\* message and of signature.
THEOREM MessageSigned == MessageSpec => []SignsTheMessage
<1>1. MessageInv => SignsTheMessage
  <2> SUFFICES ASSUME MessageInv, step \in {"held", "refused"}, CopyReaches
               PROVE  /\ At(sm + SIGBYTES, mlen) = message
                      /\ step = "held" => smlen = SIGBYTES + mlen /\ At(sm, SIGBYTES) = Sig(message)
    BY DEF SignsTheMessage
  <2>1. /\ mlen \in Nat /\ copied = mlen /\ message = [k \in 1..mlen |-> Text(k)] /\ MovedUp
        /\ step = "held" => smlen = SIGBYTES + mlen
        /\ step = "held" => At(sm, SIGBYTES) = Sig(signed) /\ At(Place, mlen) = signed
    BY DEF MessageInv, Buffers, SigningInv, Signing, HeldInv
  <2>2. \A k \in 1..mlen : memory[Place + k - 1] = Text(k)
    BY <2>1 DEF MovedUp
  <2>3. At(sm + SIGBYTES, mlen) = message /\ At(Place, mlen) = message
    BY <2>1, <2>2 DEF At, Place
  <2> QED BY <2>1, <2>3
<1> QED BY <1>1, MessageInvariance, PTL

\* crypto_sign_open_ctx gives back the message that was signed, also over sm
\* itself, or clears the receiver's buffer: for every length.
THEOREM SignedOpened == MessageSpec => []OpensOnlyTheSigned
<1>1. MessageInv => OpensOnlyTheSigned
  <2> SUFFICES ASSUME MessageInv PROVE OpensOnlyTheSigned
    OBVIOUS
  <2>1. ASSUME step = "opened", CopyReaches PROVE At(m, mlen) = signed
    <3>1. /\ mlen \in Nat /\ copied = mlen /\ signed = [k \in 1..mlen |-> signed[k]]
          /\ MovedDown
      BY <2>1 DEF MessageInv, Buffers, OpeningInv, Opening
    <3>2. \A k \in 1..mlen : memory[m + k - 1] = signed[k]
      BY <3>1 DEF MovedDown
    <3> QED BY <3>1, <3>2 DEF At
  <2>2. step = "bad" => mlen = 0 /\ \A c \in m..(m + smlen - 1) : memory[c] = Nought
    BY DEF MessageInv, OpeningInv
  <2> QED BY <2>1, <2>2 DEF OpensOnlyTheSigned
<1> QED BY <1>1, MessageInvariance, PTL

-----------------------------------------------------------------------------
(***************************************************************************)
(* montgomery_reduce is correct for every odd modulus and word, and with   *)
(* the numbers of ML-DSA-44 no product that sign.c computes leaves an      *)
(* int32_t: module Ntt with its 256 coefficients, 8 layers, 2^32 and       *)
(* sums of up to 5 terms, which TLC's integers cannot hold.                *)
(***************************************************************************)
\* What the constants of montgomery_reduce are for.
MontgomeryModulus ==
  /\ Q \in Nat \ {0} /\ QINV \in Int
  /\ R \in Nat \ {0} /\ R = 2 * (R \div 2)
  /\ \E c \in Int : Q * QINV = 1 + c * R

LEMMA ExactDivision ==
  ASSUME NEW d \in Nat \ {0}, NEW q \in Int
  PROVE  (d * q) \div d = q
  BY SMT

\* Int32 wraps by a multiple of R.
LEMMA Int32Wraps ==
  ASSUME R \in Nat \ {0}, R = 2 * (R \div 2), NEW y \in Int
  PROVE  /\ Int32(y) \in Int
         /\ -(R \div 2) <= Int32(y) /\ Int32(y) < R \div 2
         /\ \E k \in Int : Int32(y) = y - k * R
<1> DEFINE r == y % R
           n == y \div R
<1>1. /\ r \in Int /\ n \in Int
      /\ y = R * n + r /\ 0 <= r /\ r < R
  BY SMT
<1>2. r = y - n * R /\ r - R = y - (n + 1) * R
  BY <1>1, SMT
<1> HIDE DEF r, n
<1>3. Int32(y) = IF r >= R \div 2 THEN r - R ELSE r
  BY DEF Int32, r
<1> DEFINE h == R \div 2
<1>4. h \in Nat /\ R = 2 * h
  BY SMT
<1> HIDE DEF h
<1>5. /\ Int32(y) \in Int /\ -h <= Int32(y) /\ Int32(y) < h
  BY <1>1, <1>3, <1>4, SMT DEF h
<1>6. Int32(y) = y - (n + 1) * R \/ Int32(y) = y - n * R
  BY <1>2, <1>3
<1>7. \E k \in Int : Int32(y) = y - k * R
  <2>1. n \in Int /\ n + 1 \in Int
    BY <1>1
  <2> QED
    BY <1>6, <2>1
<1> QED
  BY <1>5, <1>7 DEF h

\* montgomery_reduce divides by R modulo Q: its result times R is its
\* argument, but for a multiple of Q that is at most about R/2 times Q.
LEMMA MontgomeryExact ==
  ASSUME MontgomeryModulus, NEW x \in Int
  PROVE  /\ montgomery_reduce(x) \in Int
         /\ \E t \in Int : /\ -(R \div 2) <= t /\ t < R \div 2
                           /\ R * montgomery_reduce(x) = x - t * Q
<1> DEFINE t == Int32(x * QINV)
<1>1. PICK c \in Int : Q * QINV = 1 + c * R
  BY DEF MontgomeryModulus
<1>2. Q \in Nat \ {0} /\ QINV \in Int /\ R \in Nat \ {0} /\ R = 2 * (R \div 2)
  BY DEF MontgomeryModulus
<1>3. x * QINV \in Int
  BY <1>2, SMT
<1>4. /\ t \in Int /\ -(R \div 2) <= t /\ t < R \div 2
      /\ \E k \in Int : t = x * QINV - k * R
  BY <1>2, <1>3, Int32Wraps
<1>5. PICK k \in Int : t = x * QINV - k * R
  BY <1>4
<1> HIDE DEF t
<1> DEFINE r == k * Q - x * c
<1>6. r \in Int
  BY <1>1, <1>2, <1>5, SMT
<1>7. x - t * Q = R * r
  <2>1. t * Q = x * (Q * QINV) - k * R * Q
    BY <1>2, <1>3, <1>5, SMT
  <2>2. x * (Q * QINV) = x + x * c * R
    <3>1. x * (Q * QINV) = x * (1 + c * R)
      BY <1>1
    <3>2. x * (1 + c * R) = x + x * c * R
      BY <1>1, <1>2, SMT
    <3> QED
      BY <3>1, <3>2
  <2> QED
    BY <1>1, <1>2, <1>5, <2>1, <2>2, SMT DEF r
<1> HIDE DEF r
<1>8. montgomery_reduce(x) = r
  BY <1>2, <1>6, <1>7, ExactDivision DEF montgomery_reduce, t
<1> QED
  BY <1>4, <1>6, <1>7, <1>8

\* Of an argument in the domain its comment states it makes less than Q.
THEOREM MontgomeryReduces ==
  ASSUME MontgomeryModulus, NEW x \in Int, Reducible(x)
  PROVE  /\ montgomery_reduce(x) \in Int
         /\ -Q < montgomery_reduce(x) /\ montgomery_reduce(x) < Q
         /\ \E t \in Int : montgomery_reduce(x) * R = x - t * Q
<1> DEFINE r == montgomery_reduce(x)
<1>1. /\ r \in Int
      /\ \E t \in Int : -(R \div 2) <= t /\ t < R \div 2 /\ R * r = x - t * Q
  BY MontgomeryExact
<1>2. Q \in Nat \ {0} /\ R \in Nat \ {0} /\ R = 2 * (R \div 2)
  BY DEF MontgomeryModulus
<1> HIDE DEF r
<1>3. PICK t \in Int : -(R \div 2) <= t /\ t < R \div 2 /\ R * r = x - t * Q
  BY <1>1
<1>4. -Q < r /\ r < Q
  <2> DEFINE h == R \div 2
  <2>1. h \in Nat \ {0} /\ R = 2 * h
    BY <1>2, SMT
  <2>2. -h * Q <= x /\ x < h * Q
    BY DEF Reducible
  <2> HIDE DEF h
  <2>3. -(h * Q) <= t * Q /\ t * Q <= (h - 1) * Q
    BY <1>2, <1>3, <2>1, SMT DEF h
  <2>4. R * r < 2 * h * Q /\ R * r > -(2 * h * Q)
    BY <1>1, <1>2, <1>3, <2>1, <2>2, <2>3, SMT
  <2> QED
    BY <1>1, <1>2, <2>1, <2>4, SMT
<1>5. r * R = x - t * Q
  BY <1>1, <1>2, <1>3, SMT
<1> QED
  BY <1>1, <1>4, <1>5 DEF r

-----------------------------------------------------------------------------
(***************************************************************************)
(* The numbers of ML-DSA-44, and the sums that sign.c computes: up to five *)
(* terms, of factors smaller than Q.                                       *)
(***************************************************************************)
Polynomial(p) == p \in [Idx -> Int]

Numbers ==
  /\ N = 256 /\ Q = 8380417 /\ R = 4294967296 /\ QINV = 58728449
  /\ REDUCE = 8388608 /\ f = 41978

MLDSA44 ==
  /\ Numbers
  /\ zetas \in [1..255 -> Int] /\ \A k \in 1..255 : -Q < zetas[k] /\ zetas[k] < Q
  /\ \A s \in Products :
       /\ Len(s) \in 1..5 /\ DOMAIN s = 1..Len(s)
       /\ \A k \in DOMAIN s :
            /\ Polynomial(s[k].u) /\ Below(s[k].u, 1)
            /\ Polynomial(s[k].v) /\ Below(s[k].v, 1)

InWord(y) == -2147483648 <= y /\ y <= 2147483648

LayerLens == {128, 64, 32, 16, 8, 4, 2, 1}
LayerAndLen == {<<0, 128>>, <<1, 64>>, <<2, 32>>, <<3, 16>>, <<4, 8>>, <<5, 4>>,
                <<6, 2>>, <<7, 1>>, <<8, 0>>}

LEMMA Modulus ==
  ASSUME Numbers
  PROVE  MontgomeryModulus /\ R \div 2 = 2147483648
<1>1. Q * QINV = 1 + 114592 * R
  BY SMT DEF Numbers
<1> QED
  BY <1>1, SMT DEF Numbers, MontgomeryModulus

\* The magnitude of a product.
LEMMA ProductBound ==
  ASSUME NEW X \in Nat, NEW Y \in Nat, NEW x \in Int, NEW y \in Int,
         -X <= x, x <= X, -Y <= y, y <= Y
  PROVE  x * y \in Int /\ -(X * Y) <= x * y /\ x * y <= X * Y
<1>1. /\ (X - x) * (Y + y) >= 0 /\ (X + x) * (Y - y) >= 0
      /\ (X - x) * (Y - y) >= 0 /\ (X + x) * (Y + y) >= 0
  BY SMT
<1>2. /\ (X - x) * (Y + y) + (X + x) * (Y - y) = 2 * (X * Y) - 2 * (x * y)
      /\ (X - x) * (Y - y) + (X + x) * (Y + y) = 2 * (X * Y) + 2 * (x * y)
  BY SMT
<1> QED
  BY <1>1, <1>2, SMT

\* A zeta times any int32_t can be reduced.
LEMMA TwiddleReducible ==
  ASSUME Numbers, NEW x \in Int, NEW y \in Int, -Q < x, x < Q, InWord(y)
  PROVE  x * y \in Int /\ Reducible(x * y)
<1>1. /\ x * y \in Int
      /\ -(8380416 * 2147483648) <= x * y /\ x * y <= 8380416 * 2147483648
  BY ProductBound, SMT DEF Numbers, InWord
<1> QED
  BY <1>1, Modulus, SMT DEF Reducible, Numbers

LEMMA TwiddleReduces ==
  ASSUME Numbers, NEW x \in Int, NEW y \in Int, -Q < x, x < Q, InWord(y)
  PROVE  /\ montgomery_reduce(x * y) \in Int
         /\ -Q < montgomery_reduce(x * y) /\ montgomery_reduce(x * y) < Q
<1> DEFINE p == x * y
<1>1. p \in Int /\ Reducible(p) /\ MontgomeryModulus
  BY TwiddleReducible, Modulus
<1> HIDE DEF p
<1>2. montgomery_reduce(p) \in Int /\ -Q < montgomery_reduce(p) /\ montgomery_reduce(p) < Q
  BY <1>1, MontgomeryReduces, SMTT(60)
<1> QED
  BY <1>2, SMT DEF p

LEMMA BlockIndices ==
  ASSUME NEW l \in LayerLens, NEW j \in 0..255
  PROVE  /\ 256 \div (2 * l) + j \div (2 * l) \in 1..255
         /\ 256 \div l - 1 - j \div (2 * l) \in 1..255
         /\ j % (2 * l) < l => j + l \in 0..255
         /\ ~(j % (2 * l) < l) => j - l \in 0..255
<1>1. CASE l = 128 BY <1>1, 2 * l = 256, SMT
<1>2. CASE l = 64 BY <1>2, 2 * l = 128, SMT
<1>3. CASE l = 32 BY <1>3, 2 * l = 64, SMT
<1>4. CASE l = 16 BY <1>4, 2 * l = 32, SMT
<1>5. CASE l = 8 BY <1>5, 2 * l = 16, SMT
<1>6. CASE l = 4 BY <1>6, 2 * l = 8, SMT
<1>7. CASE l = 2 BY <1>7, 2 * l = 4, SMT
<1>8. CASE l = 1 BY <1>8, 2 * l = 2, SMT
<1> QED
  BY <1>1, <1>2, <1>3, <1>4, <1>5, <1>6, <1>7, <1>8, SMT DEF LayerLens

\* The blocks of a layer stay inside the array, and their zetas in the table.
LEMMA Blocks ==
  ASSUME MLDSA44, len \in LayerLens, NEW j \in Idx
  PROVE  /\ Zeta(j) \in Int /\ -Q < Zeta(j) /\ Zeta(j) < Q
         /\ InverseZeta(j) \in Int /\ -Q < InverseZeta(j) /\ InverseZeta(j) < Q
         /\ IsLow(j) => j + len \in Idx
         /\ ~IsLow(j) => j - len \in Idx
<1>0. Numbers
  BY SMT DEF MLDSA44
<1> DEFINE n == N \div (2 * len) + j \div (2 * len)
           r == N \div len - 1 - j \div (2 * len)
<1>1. N = 256 /\ Idx = 0..255
  BY SMT DEF Idx, MLDSA44, Numbers
<1>2. /\ n \in 1..255 /\ r \in 1..255
      /\ IsLow(j) => j + len \in 0..255
      /\ ~IsLow(j) => j - len \in 0..255
  <2>1. /\ 256 \div (2 * len) + j \div (2 * len) \in 1..255
        /\ 256 \div len - 1 - j \div (2 * len) \in 1..255
        /\ j % (2 * len) < len => j + len \in 0..255
        /\ ~(j % (2 * len) < len) => j - len \in 0..255
    BY <1>1, BlockIndices, ZenonT(60)
  <2> QED
    BY <1>1, <2>1, SMT DEF IsLow
<1>3. Zeta(j) = zetas[n] /\ InverseZeta(j) = -zetas[r]
  BY SMT DEF Zeta, InverseZeta
<1> HIDE DEF n, r
<1>7. zetas \in [1..255 -> Int] /\ \A k \in 1..255 : -Q < zetas[k] /\ zetas[k] < Q
  BY SMT DEF MLDSA44
<1>4. /\ zetas[n] \in Int /\ -Q < zetas[n] /\ zetas[n] < Q
      /\ zetas[r] \in Int /\ -Q < zetas[r] /\ zetas[r] < Q
  BY <1>2, <1>7, SMT
<1>5. /\ Zeta(j) \in Int /\ -Q < Zeta(j) /\ Zeta(j) < Q
      /\ InverseZeta(j) \in Int /\ -Q < InverseZeta(j) /\ InverseZeta(j) < Q
  BY <1>3, <1>4, <1>0, SMT DEF Numbers
<1>6. /\ IsLow(j) => j + len \in Idx
      /\ ~IsLow(j) => j - len \in Idx
  BY <1>1, <1>2, SMT
<1> QED
  BY <1>5, <1>6, SMT

\* A layer of ntt makes coefficients larger by less than Q.
LEMMA LayerGrows ==
  ASSUME MLDSA44, len \in LayerLens, NEW p, Polynomial(p), NEW B \in 1..8, Below(p, B)
  PROVE  /\ Polynomial(Layer(p)) /\ Below(Layer(p), B + 1)
         /\ \A j \in Idx : Reducible(Zeta(j) * p[j])
<1>0. Numbers
  BY SMT DEF MLDSA44
<1>1. \A j \in Idx : /\ p[j] \in Int /\ -B * Q < p[j] /\ p[j] < B * Q
                     /\ InWord(p[j])
  BY <1>0, SMT DEF Polynomial, Below, Numbers, InWord
<1>2. ASSUME NEW j \in Idx
      PROVE  Butterfly(p, j) \in Int /\ -(B + 1) * Q < Butterfly(p, j) /\ Butterfly(p, j) < (B + 1) * Q
  <2>1. CASE IsLow(j)
    <3>1. j + len \in Idx /\ Zeta(j) \in Int /\ -Q < Zeta(j) /\ Zeta(j) < Q
      BY <2>1, Blocks, SMT
    <3> DEFINE t == montgomery_reduce(Zeta(j) * p[j + len])
    <3>2. t \in Int /\ -Q < t /\ t < Q
      BY <1>1, <3>1, TwiddleReduces, <1>0
    <3>3. Butterfly(p, j) = p[j] + t
      BY <2>1, SMT DEF Butterfly
    <3> HIDE DEF t
    <3> QED
      BY <1>1, <3>2, <3>3, <1>0, SMT DEF Numbers
  <2>2. CASE ~IsLow(j)
    <3>1. j - len \in Idx /\ Zeta(j) \in Int /\ -Q < Zeta(j) /\ Zeta(j) < Q
      BY <2>2, Blocks, SMT
    <3> DEFINE t == montgomery_reduce(Zeta(j) * p[j])
    <3>4. p[j] \in Int /\ InWord(p[j])
      BY <1>1, SMT
    <3>2. t \in Int /\ -Q < t /\ t < Q
      BY <3>4, <3>1, TwiddleReduces, <1>0
    <3>3. Butterfly(p, j) = p[j - len] - t
      BY <2>2, SMT DEF Butterfly
    <3> HIDE DEF t
    <3> QED
      BY <1>1, <3>1, <3>2, <3>3, <1>0, SMT DEF Numbers
  <2> QED
    BY <2>1, <2>2, SMT
<1>3. \A j \in Idx : Reducible(Zeta(j) * p[j])
  BY <1>1, Blocks, TwiddleReducible, <1>0
<1> QED
  BY <1>2, <1>3, SMT DEF Layer, Polynomial, Below

\* A layer of invntt_tomont at most doubles them.
LEMMA InverseLayerDoubles ==
  ASSUME MLDSA44, len \in LayerLens, Polynomial(w), Below(w, len)
  PROVE  /\ Polynomial([j \in Idx |-> InverseButterfly(w, j)])
         /\ Below([j \in Idx |-> InverseButterfly(w, j)], 2 * len)
         /\ \A j \in Idx : ~IsLow(j) => Reducible(InverseZeta(j) * (w[j - len] - w[j]))
<1>0. Numbers
  BY SMT DEF MLDSA44
<1>1. len \in 1..128
  BY SMT DEF LayerLens
<1>2. \A j \in Idx : w[j] \in Int /\ -len * Q < w[j] /\ w[j] < len * Q
  BY SMT DEF Polynomial, Below
<1>3. ASSUME NEW j \in Idx, NEW k \in Idx
      PROVE  /\ w[j] - w[k] \in Int /\ InWord(w[j] - w[k])
             /\ -(2 * len) * Q < w[j] + w[k] /\ w[j] + w[k] < (2 * len) * Q
  BY <1>1, <1>2, <1>0, SMT DEF Numbers, InWord
<1>4. ASSUME NEW j \in Idx
      PROVE  /\ InverseButterfly(w, j) \in Int
             /\ -(2 * len) * Q < InverseButterfly(w, j) /\ InverseButterfly(w, j) < (2 * len) * Q
             /\ ~IsLow(j) => Reducible(InverseZeta(j) * (w[j - len] - w[j]))
  <2>1. CASE IsLow(j)
    <3>1. j + len \in Idx
      BY <2>1, Blocks, SMT
    <3> QED
      BY <1>2, <1>3, <2>1, <3>1, SMT DEF InverseButterfly
  <2>2. CASE ~IsLow(j)
    <3>1. j - len \in Idx /\ InverseZeta(j) \in Int /\ -Q < InverseZeta(j) /\ InverseZeta(j) < Q
      BY <2>2, Blocks, SMT
    <3> DEFINE d == w[j - len] - w[j]
    <3>2. d \in Int /\ InWord(d)
      BY <1>3, <3>1, SMT
    <3> HIDE DEF d
    <3> DEFINE t == montgomery_reduce(InverseZeta(j) * d)
    <3>3. t \in Int /\ -Q < t /\ t < Q /\ Reducible(InverseZeta(j) * d)
      BY <3>1, <3>2, <1>0, TwiddleReduces, TwiddleReducible
    <3>4. InverseButterfly(w, j) = t
      BY <2>2, SMT DEF InverseButterfly, d
    <3> HIDE DEF t
    <3>5. -(2 * len) * Q < t /\ t < (2 * len) * Q
      BY <1>1, <3>3, <1>0, SMT DEF Numbers
    <3> QED
      BY <3>3, <3>4, <3>5, SMT DEF d
  <2> QED
    BY <2>1, <2>2, SMT
<1> QED
  BY <1>4, SMT DEF Polynomial, Below

\* Nor does a product of two polynomials in the NTT domain overflow.
LEMMA PointwiseReduces ==
  ASSUME Numbers, NEW x \in Int, NEW y \in Int,
         -9 * Q < x, x < 9 * Q, -9 * Q < y, y < 9 * Q
  PROVE  /\ Reducible(x * y) /\ montgomery_reduce(x * y) \in Int
         /\ -Q < montgomery_reduce(x * y) /\ montgomery_reduce(x * y) < Q
<1> DEFINE p == x * y
<1>1. p \in Int /\ -(75423752 * 75423752) <= p /\ p <= 75423752 * 75423752
  BY ProductBound, SMT DEF Numbers
<1> HIDE DEF p
<1>2. Reducible(p)
  BY <1>1, Modulus, SMT DEF Reducible, Numbers
<1>3. montgomery_reduce(p) \in Int /\ -Q < montgomery_reduce(p) /\ montgomery_reduce(p) < Q
  BY <1>1, <1>2, Modulus, MontgomeryReduces, SMT
<1> QED
  BY <1>2, <1>3 DEF p

LEMMA Reduce32Bound ==
  ASSUME Numbers, NEW x \in Int, -5 * Q < x, x < 5 * Q
  PROVE  reduce32(x) \in Int /\ -Q < reduce32(x) /\ reduce32(x) < Q
  BY SMT DEF reduce32, Numbers

(***************************************************************************)
(* The inductive invariant: the bounds, how they go with the loop          *)
(* variables, and that the factors stay below 9 * Q.                       *)
(***************************************************************************)
NttInv ==
  /\ sum \in Products
  /\ u \in [DOMAIN sum -> [Idx -> Int]] /\ v \in [DOMAIN sum -> [Idx -> Int]]
  /\ Polynomial(w)
  /\ i \in 1..(Len(sum) + 1)
  /\ at \in {"ntt", "pointwise", "invntt", "done"}
  /\ at = "ntt" => i = 1 /\ <<layer, len>> \in LayerAndLen
  /\ at = "pointwise" => layer = 8
  /\ at = "invntt" => len \in LayerLens \cup {256}
  /\ \A k \in DOMAIN sum : Below(u[k], 9) /\ Below(v[k], 9)
  /\ CoefficientsBounded

LEMMA Widen ==
  ASSUME Numbers, NEW p, Polynomial(p), NEW B \in 1..9, Below(p, B), NEW C \in B..9
  PROVE  Below(p, C)
  BY SMT DEF Below, Polynomial, Numbers

LEMMA InitInv ==
  ASSUME MLDSA44, NttInit
  PROVE  NttInv
<1>0. Numbers
  BY SMT DEF MLDSA44
<1>1. /\ sum \in Products /\ Len(sum) \in 1..5 /\ DOMAIN sum = 1..Len(sum)
      /\ \A k \in DOMAIN sum : /\ Polynomial(sum[k].u) /\ Below(sum[k].u, 1)
                               /\ Polynomial(sum[k].v) /\ Below(sum[k].v, 1)
  BY DEF MLDSA44, NttInit
<1>2. /\ u \in [DOMAIN sum -> [Idx -> Int]] /\ v \in [DOMAIN sum -> [Idx -> Int]]
      /\ \A k \in DOMAIN sum : Polynomial(u[k]) /\ Below(u[k], 1) /\ Polynomial(v[k]) /\ Below(v[k], 1)
  BY <1>1, SMT DEF NttInit, Polynomial
<1>3. \A k \in DOMAIN sum : Below(u[k], 9) /\ Below(v[k], 9)
  BY <1>0, <1>2, Widen
<1>4. Polynomial(w) /\ Below(w, 1)
  BY <1>0, SMT DEF NttInit, Polynomial, Below, Numbers
<1>5. at = "ntt" /\ layer = 0 /\ len = 128 /\ i = 1
  BY <1>0, SMT DEF NttInit, Numbers
<1>6. CoefficientsBounded
  BY <1>2, <1>4, <1>5, SMT DEF CoefficientsBounded, FactorBound, SumBound
<1> QED
  BY <1>1, <1>2, <1>3, <1>4, <1>5, <1>6, SMT DEF NttInv, LayerAndLen

\* Every step of the computation keeps the invariant.
LEMMA StepInv ==
  ASSUME MLDSA44, NttInv, [NttNext]_nttVars
  PROVE  NttInv'
<1>0. Numbers
  BY SMT DEF MLDSA44
<1>q. N = 256 /\ Q = 8380417
  BY <1>0, SMT DEF Numbers
<1>1. /\ Len(sum) \in 1..5 /\ DOMAIN sum = 1..Len(sum)
  BY DEF MLDSA44, NttInv
<1>2. \A k \in DOMAIN sum : /\ Polynomial(u[k]) /\ Below(u[k], 9)
                           /\ Polynomial(v[k]) /\ Below(v[k], 9)
  BY DEF NttInv, Polynomial
<1>d. DOMAIN u = DOMAIN sum /\ DOMAIN v = DOMAIN sum
  BY DEF NttInv
<1>3. CASE nttLayer
  <2>1. /\ at = "ntt" /\ len \in LayerLens /\ layer \in 0..7
        /\ <<layer + 1, len \div 2>> \in LayerAndLen
    BY <1>3, SMT DEF nttLayer, NttInv, LayerAndLen, LayerLens
  <2>2. layer + 1 \in 1..8
    BY <2>1, SMT
  <2>3. \A k \in DOMAIN sum :
          /\ Below(v[k], layer + 1) /\ Below(u[k], IF sum[k].given THEN 1 ELSE layer + 1)
    BY <2>1 DEF NttInv, CoefficientsBounded, FactorBound
  <2>4. ASSUME NEW k \in DOMAIN sum
        PROVE  /\ Polynomial(v'[k]) /\ Below(v'[k], layer + 2) /\ Below(v'[k], 9)
               /\ Polynomial(u'[k]) /\ Below(u'[k], IF sum[k].given THEN 1 ELSE layer + 2)
               /\ Below(u'[k], 9)
    <3>1. v'[k] = Layer(v[k]) /\ u'[k] = IF sum[k].given THEN u[k] ELSE Layer(u[k])
      BY <1>3, <1>d DEF nttLayer
    <3>2. Polynomial(Layer(v[k])) /\ Below(Layer(v[k]), (layer + 1) + 1)
      BY <1>2, <2>1, <2>2, <2>3, LayerGrows
    <3>3. (layer + 1) + 1 = layer + 2 /\ layer + 2 \in 1..9 /\ 9 \in (layer + 2)..9
      BY <2>1, SMT
    <3>4. CASE sum[k].given
      BY <1>0, <1>2, <2>3, <3>1, <3>2, <3>3, <3>4, Widen
    <3>5. CASE ~sum[k].given
      <4>1. Below(u[k], layer + 1)
        BY <2>3, <3>5
      <4>2. Polynomial(Layer(u[k])) /\ Below(Layer(u[k]), (layer + 1) + 1)
        BY <1>2, <2>1, <2>2, <4>1, LayerGrows
      <4> QED
        BY <1>0, <3>1, <3>2, <3>3, <3>5, <4>2, Widen
    <3> QED
      BY <3>4, <3>5
  <2>5. /\ u' \in [DOMAIN sum -> [Idx -> Int]] /\ v' \in [DOMAIN sum -> [Idx -> Int]]
    <3>1. /\ u' = [k \in DOMAIN sum |-> u'[k]] /\ v' = [k \in DOMAIN sum |-> v'[k]]
      BY <1>3, SMT DEF nttLayer, NttInv
    <3> QED
      BY <2>4, <3>1, SMT DEF Polynomial
  <2>6. /\ sum' = sum /\ w' = w /\ i' = i /\ at' = at /\ layer' = layer + 1 /\ len' = len \div 2
    BY <1>3 DEF nttLayer
  <2>7. CoefficientsBounded'
    <3>1. Below(w, 1)
      BY <2>1, SMT DEF NttInv, CoefficientsBounded, SumBound
    <3>2. layer' + 1 = layer + 2
      BY <2>1, <2>6, SMT
    <3> QED
      BY <2>1, <2>4, <2>6, <3>1, <3>2, SMT DEF CoefficientsBounded, FactorBound, SumBound, Below
  <2> QED
    BY <2>1, <2>4, <2>5, <2>6, <2>7, SMT DEF NttInv, Polynomial, Below
<1>4. CASE nttReturn
  <2>1. /\ at = "ntt" /\ len = 0 /\ at' = "pointwise"
        /\ UNCHANGED <<sum, u, v, w, layer, len, i>>
    BY <1>4 DEF nttReturn
  <2>2. layer = 8 /\ i = 1
    BY <2>1, SMT DEF NttInv, LayerAndLen, CoefficientsBounded
  <2>3. CoefficientsBounded'
    BY <2>1, <2>2, SMT DEF NttInv, CoefficientsBounded, FactorBound, SumBound, Below
  <2> QED
    BY <2>1, <2>2, <2>3, SMT DEF NttInv, Polynomial, Below
<1>5. CASE pointwise_acc
  <2>1. /\ at = "pointwise" /\ i <= Len(sum)
        /\ w' = [j \in Idx |-> PlusTerm(j)] /\ i' = i + 1
        /\ UNCHANGED <<sum, u, v, layer, len, at>>
    BY <1>5 DEF pointwise_acc
  <2>2. i \in 1..5 /\ i \in DOMAIN sum /\ i + 1 \in 1..(Len(sum) + 1)
    <3>1. i \in 1..(Len(sum) + 1)
      BY DEF NttInv
    <3> QED
      BY <1>1, <2>1, <3>1, SMT
  <2>3. Below(w, IF i = 1 THEN 1 ELSE i - 1)
    BY <2>1, SMT DEF NttInv, CoefficientsBounded, SumBound
  <2>4. ASSUME NEW j \in Idx
        PROVE  PlusTerm(j) \in Int /\ -i * Q < PlusTerm(j) /\ PlusTerm(j) < i * Q
    <3> DEFINE t == montgomery_reduce(u[i][j] * v[i][j])
    <3>1. /\ u[i][j] \in Int /\ -9 * Q < u[i][j] /\ u[i][j] < 9 * Q
          /\ v[i][j] \in Int /\ -9 * Q < v[i][j] /\ v[i][j] < 9 * Q
      BY <1>2, <2>2, SMT DEF Polynomial, Below
    <3>2. t \in Int /\ -Q < t /\ t < Q
      BY <1>0, <3>1, PointwiseReduces
    <3>3. PlusTerm(j) = IF i = 1 THEN t ELSE IF sum[i].minus THEN w[j] - t ELSE w[j] + t
      BY DEF PlusTerm, poly_pointwise
    <3> HIDE DEF t
    <3>4. /\ w[j] \in Int
          /\ -(IF i = 1 THEN 1 ELSE i - 1) * Q < w[j] /\ w[j] < (IF i = 1 THEN 1 ELSE i - 1) * Q
      BY <2>3 DEF NttInv, Polynomial, Below
    <3> QED
      BY <1>q, <2>2, <3>2, <3>3, <3>4, SMT
  <2>5. Polynomial(w') /\ Below(w', i)
    BY <2>1, <2>4 DEF Polynomial, Below
  <2>6. CoefficientsBounded'
    <3>1. (IF i' = 1 THEN 1 ELSE i' - 1) = i
      BY <2>1, <2>2, SMT
    <3> QED
      BY <2>1, <2>5, <3>1, SMT DEF NttInv, CoefficientsBounded, FactorBound, SumBound, Below
  <2> QED
    BY <2>1, <2>2, <2>5, <2>6, SMT DEF NttInv, Polynomial, Below
<1>6. CASE reduce
  <2>1. /\ at = "pointwise" /\ i > Len(sum)
        /\ w' = [j \in Idx |-> Reduced(w[j])]
        /\ at' = "invntt" /\ len' = 1 /\ layer' = 0
        /\ UNCHANGED <<sum, u, v, i>>
    BY <1>6 DEF reduce
  <2>2. i = Len(sum) + 1
    BY <1>1, <2>1, SMT DEF NttInv
  <2>3. Below(w, Len(sum))
    BY <1>1, <2>1, <2>2, SMT DEF NttInv, CoefficientsBounded, SumBound
  <2>4. ASSUME NEW j \in Idx
        PROVE  Reduced(w[j]) \in Int /\ -Q < Reduced(w[j]) /\ Reduced(w[j]) < Q
    <3>1. w[j] \in Int /\ -Len(sum) * Q < w[j] /\ w[j] < Len(sum) * Q
      BY <2>3 DEF NttInv, Polynomial, Below
    <3>2. CASE Len(sum) > 1
      <4>1. \A n \in 1..5 : n \in 1..9 /\ 5 \in n..9
        BY SMT
      <4>2. -5 * Q < w[j] /\ w[j] < 5 * Q
        <5>1. Polynomial(w)
          BY DEF NttInv
        <5> QED
          BY <1>0, <1>1, <2>3, <4>1, <5>1, Widen DEF Below
      <4> QED
        BY <1>0, <3>1, <3>2, <4>2, Reduce32Bound DEF Reduced
    <3>3. CASE ~(Len(sum) > 1)
      BY <1>q, <1>1, <3>1, <3>3, SMT DEF Reduced
    <3> QED
      BY <3>2, <3>3
  <2>5. Polynomial(w') /\ Below(w', 1)
    BY <1>q, <2>1, <2>4, SMT DEF Polynomial, Below
  <2>6. CoefficientsBounded'
    BY <2>1, <2>5, SMT DEF CoefficientsBounded, SumBound
  <2> QED
    BY <2>1, <2>5, <2>6, SMT DEF NttInv, Polynomial, Below, LayerLens
<1>7. CASE invnttLayer
  <2>1. /\ at = "invntt" /\ len < N
        /\ w' = [j \in Idx |-> InverseButterfly(w, j)]
        /\ len' = 2 * len /\ layer' = layer + 1
        /\ UNCHANGED <<sum, u, v, i, at>>
    BY <1>7 DEF invnttLayer
  <2>2. len \in LayerLens /\ 2 * len \in LayerLens \cup {256}
    BY <1>q, <2>1, SMT DEF NttInv, LayerLens
  <2>3. Polynomial(w) /\ Below(w, len)
    BY <2>1, SMT DEF NttInv, CoefficientsBounded, SumBound
  <2>4. Polynomial(w') /\ Below(w', 2 * len)
    BY <2>1, <2>2, <2>3, InverseLayerDoubles
  <2>5. CoefficientsBounded'
    BY <2>1, <2>4, SMT DEF CoefficientsBounded, SumBound, Below
  <2> QED
    BY <2>1, <2>2, <2>4, <2>5, SMT DEF NttInv, Polynomial, Below
<1>8. CASE invnttScale
  <2>1. /\ at = "invntt" /\ len = N /\ at' = "done"
        /\ w' = [j \in Idx |-> montgomery_reduce(f * w[j])]
        /\ UNCHANGED <<sum, u, v, layer, len, i>>
    BY <1>8 DEF invnttScale
  <2>2. ASSUME NEW j \in Idx
        PROVE  /\ montgomery_reduce(f * w[j]) \in Int
               /\ -Q < montgomery_reduce(f * w[j]) /\ montgomery_reduce(f * w[j]) < Q
    <3>1. w[j] \in Int /\ -256 * Q < w[j] /\ w[j] < 256 * Q
      BY <1>q, <2>1, SMT DEF NttInv, CoefficientsBounded, SumBound, Polynomial, Below
    <3>2. InWord(w[j]) /\ f \in Int /\ -Q < f /\ f < Q
      BY <1>0, <3>1, SMT DEF InWord, Numbers
    <3> QED
      BY <1>0, <3>1, <3>2, TwiddleReduces
  <2>3. Polynomial(w') /\ Below(w', 1)
    BY <1>q, <2>1, <2>2, SMT DEF Polynomial, Below
  <2>4. CoefficientsBounded'
    BY <2>1, <2>3, SMT DEF CoefficientsBounded, SumBound
  <2> QED
    BY <2>1, <2>3, <2>4, SMT DEF NttInv, Polynomial, Below
<1>9. CASE UNCHANGED nttVars
  BY <1>9, SMT DEF nttVars, NttInv, Polynomial, Below, CoefficientsBounded, FactorBound, SumBound
<1> QED
  BY <1>3, <1>4, <1>5, <1>6, <1>7, <1>8, <1>9 DEF NttNext

\* What the invariant says of an int32_t and of the arguments of
\* montgomery_reduce.
LEMMA InvInRange ==
  ASSUME MLDSA44, NttInv
  PROVE  NttStaysInRange
<1>0. Numbers
  BY SMT DEF MLDSA44
<1>1. /\ Len(sum) \in 1..5 /\ DOMAIN sum = 1..Len(sum)
  BY DEF MLDSA44, NttInv
<1>2. \A k \in DOMAIN sum : /\ Polynomial(u[k]) /\ Below(u[k], 9)
                           /\ Polynomial(v[k]) /\ Below(v[k], 9)
  BY DEF NttInv, Polynomial
<1>3. Below(w, 256)
  <2>0. /\ i \in 1..(Len(sum) + 1)
        /\ at \in {"ntt", "pointwise", "invntt", "done"}
        /\ at = "invntt" => len \in LayerLens \cup {256}
        /\ Below(w, SumBound)
    BY DEF NttInv, CoefficientsBounded
  <2>1. SumBound \in 1..256 /\ Below(w, SumBound)
    <3>1. CASE at = "ntt" BY <2>0, <3>1, SMT DEF SumBound
    <3>2. CASE at = "pointwise"
      <4>1. SumBound = IF i = 1 THEN 1 ELSE i - 1
        BY <3>2, SMT DEF SumBound
      <4>2. PICK n \in 1..5 : n = Len(sum)
        BY <1>1
      <4>3. (IF i = 1 THEN 1 ELSE i - 1) \in 1..256
        <5>1. i \in 1..(n + 1)
          BY <2>0, <4>2
        <5> QED
          BY <5>1, SMT
      <4> QED
        BY <2>0, <4>1, <4>3
    <3>3. CASE at = "invntt" BY <2>0, <3>3, SMT DEF SumBound, LayerLens
    <3>4. CASE at = "done" BY <2>0, <3>4, SMT DEF SumBound
    <3> QED
      BY <2>0, <3>1, <3>2, <3>3, <3>4
  <2> QED
    BY <1>0, <2>1, SMTT(60) DEF Below, NttInv, Polynomial, Numbers
<1>4. ASSUME NEW j \in Idx
      PROVE  /\ w[j] \in Int /\ InWord(w[j]) /\ w[j] \in -(R \div 2)..(R \div 2 - 1)
             /\ \A k \in DOMAIN sum :
                  /\ u[k][j] \in Int /\ InWord(u[k][j]) /\ u[k][j] \in -(R \div 2)..(R \div 2 - 1)
                  /\ v[k][j] \in Int /\ InWord(v[k][j]) /\ v[k][j] \in -(R \div 2)..(R \div 2 - 1)
                  /\ -9 * Q < u[k][j] /\ u[k][j] < 9 * Q
                  /\ -9 * Q < v[k][j] /\ v[k][j] < 9 * Q
  <2>1. /\ w[j] \in Int /\ -256 * Q < w[j] /\ w[j] < 256 * Q
    BY <1>3 DEF NttInv, Polynomial, Below
  <2>2. ASSUME NEW k \in DOMAIN sum
        PROVE  /\ u[k][j] \in Int /\ -9 * Q < u[k][j] /\ u[k][j] < 9 * Q
               /\ v[k][j] \in Int /\ -9 * Q < v[k][j] /\ v[k][j] < 9 * Q
    BY <1>2, SMT DEF Polynomial, Below
  <2>3. \A x \in Int : -256 * Q < x /\ x < 256 * Q =>
          InWord(x) /\ x \in -(R \div 2)..(R \div 2 - 1)
    <3>1. Q = 8380417 /\ R \div 2 = 2147483648
      BY <1>0, Modulus, SMT DEF Numbers
    <3> QED
      BY <3>1, SMT DEF InWord
  <2>4. \A x \in Int : -9 * Q < x /\ x < 9 * Q => -256 * Q < x /\ x < 256 * Q
    BY <1>0, SMT DEF Numbers
  <2> QED
    BY <2>1, <2>2, <2>3, <2>4
<1>5. ArgumentsReducible
  <2> SUFFICES ASSUME NEW j \in Idx
               PROVE  /\ at = "ntt" /\ len > 0 /\ ~IsLow(j) =>
                           \A k \in DOMAIN sum :
                             /\ Reducible(Zeta(j) * v[k][j])
                             /\ sum[k].given \/ Reducible(Zeta(j) * u[k][j])
                      /\ at = "pointwise" /\ i <= Len(sum) => Reducible(u[i][j] * v[i][j])
                      /\ at = "invntt" /\ len < N /\ ~IsLow(j) =>
                           Reducible(InverseZeta(j) * (w[j - len] - w[j]))
                      /\ at = "invntt" /\ len = N => Reducible(f * w[j])
    BY DEF ArgumentsReducible
  <2>1. ASSUME at = "ntt", len > 0, NEW k \in DOMAIN sum
        PROVE  Reducible(Zeta(j) * v[k][j]) /\ Reducible(Zeta(j) * u[k][j])
    <3>1. len \in LayerLens
      BY <2>1, SMT DEF NttInv, LayerAndLen, LayerLens
    <3>2. Zeta(j) \in Int /\ -Q < Zeta(j) /\ Zeta(j) < Q
      BY <3>1, Blocks
    <3> QED
      BY <1>0, <1>4, <3>2, TwiddleReducible
  <2>2. ASSUME at = "pointwise", i <= Len(sum)
        PROVE  Reducible(u[i][j] * v[i][j])
    <3>1. i \in DOMAIN sum
      BY <1>1, <2>2, SMT DEF NttInv
    <3> QED
      BY <1>0, <1>4, <3>1, PointwiseReduces
  <2>3. ASSUME at = "invntt", len < N, ~IsLow(j)
        PROVE  Reducible(InverseZeta(j) * (w[j - len] - w[j]))
    <3>1. len \in LayerLens
      BY <1>0, <2>3, SMT DEF NttInv, LayerLens, Numbers
    <3>2. Polynomial(w) /\ Below(w, len)
      BY <2>3, SMT DEF NttInv, CoefficientsBounded, SumBound
    <3> QED
      BY <2>3, <3>1, <3>2, InverseLayerDoubles
  <2>4. Reducible(f * w[j])
    <3>1. f \in Int /\ -Q < f /\ f < Q
      BY <1>0, SMT DEF Numbers
    <3> QED
      BY <1>0, <1>4, <3>1, TwiddleReducible
  <2> QED
    BY <2>1, <2>2, <2>3, <2>4
<1> QED
  BY <1>4, <1>5 DEF NttStaysInRange, NttInv

\* Every product of ML-DSA-44 stays in range: no overflow of an int32_t and no
\* argument beyond montgomery_reduce, in all the sums that sign.c computes.
THEOREM ProductsStayInRange ==
  ASSUME MLDSA44
  PROVE  NttSpec => []NttStaysInRange
<1>1. NttInit => NttInv
  BY InitInv
<1>2. NttInv /\ [NttNext]_nttVars => NttInv'
  BY StepInv
<1>3. NttInv => NttStaysInRange
  BY InvInRange
<1> QED
  BY <1>1, <1>2, <1>3, PTL DEF NttSpec

-----------------------------------------------------------------------------
(***************************************************************************)
(* What ntt and invntt_tomont compute: NttMultiplies, for ML-DSA-44.  A    *)
(* polynomial of 256 coefficients is given by its value at each of the 256 *)
(* roots of X^256 + 1.  TransformInv, the inductive part, speaks of the    *)
(* layers between: there a polynomial is given by its remainders modulo    *)
(* X^c - g, where g^(256 / c) = -1, and a layer halves or doubles c.       *)
(***************************************************************************)
\* Congruence modulo Q.
Same(x, y) == \E t \in Int : x = y + Q * t

LEMMA SameBasics ==
  ASSUME Q \in Int
  PROVE  /\ \A x \in Int : Same(x, x)
         /\ \A x, y \in Int : Same(x, y) => Same(y, x)
         /\ \A x, y, z \in Int : Same(x, y) /\ Same(y, z) => Same(x, z)
<1>1. ASSUME NEW x \in Int PROVE Same(x, x)
  <2>1. x = x + Q * 0
    BY RingLaws
  <2> QED BY <2>1 DEF Same
<1>2. ASSUME NEW x \in Int, NEW y \in Int, Same(x, y) PROVE Same(y, x)
  <2>1. PICK t \in Int : x = y + Q * t
    BY <1>2 DEF Same
  <2>2. Q * (-t) = -(Q * t) /\ Q * t \in Int
    BY RingLaws
  <2>3. y = x + Q * (-t) /\ -t \in Int
    BY <2>1, <2>2
  <2> QED BY <2>3 DEF Same
<1>3. ASSUME NEW x \in Int, NEW y \in Int, NEW z \in Int, Same(x, y), Same(y, z)
      PROVE  Same(x, z)
  <2>1. PICK t \in Int : x = y + Q * t
    BY <1>3 DEF Same
  <2>2. PICK s \in Int : y = z + Q * s
    BY <1>3 DEF Same
  <2>3. Q * (s + t) = Q * s + Q * t /\ Q * s \in Int /\ Q * t \in Int
    BY RingLaws
  <2>4. x = z + Q * (s + t) /\ s + t \in Int
    BY <2>1, <2>2, <2>3
  <2> QED BY <2>4 DEF Same
<1> QED BY <1>1, <1>2, <1>3

LEMMA SameAdds ==
  ASSUME Q \in Int, NEW x \in Int, NEW y \in Int, NEW p \in Int, NEW q \in Int,
         Same(x, y), Same(p, q)
  PROVE  Same(x + p, y + q) /\ Same(x - p, y - q)
<1>1. PICK t \in Int : x = y + Q * t
  BY DEF Same
<1>2. PICK s \in Int : p = q + Q * s
  BY DEF Same
<1>3. Q * (t + s) = Q * t + Q * s /\ Q * s \in Int /\ Q * t \in Int
  BY RingLaws
<1>4. Q * (t + (-s)) = Q * t + Q * (-s) /\ Q * (-s) = -(Q * s)
  BY RingLaws
<1>5. x + p = (y + q) + Q * (t + s) /\ t + s \in Int
  BY <1>1, <1>2, <1>3
<1>6. x - p = (y - q) + Q * (t + (-s)) /\ t + (-s) \in Int
  BY <1>1, <1>2, <1>3, <1>4
<1> QED BY <1>5, <1>6 DEF Same

LEMMA SameTimes ==
  ASSUME Q \in Int, NEW x \in Int, NEW y \in Int, NEW p \in Int, NEW q \in Int,
         Same(x, y), Same(p, q)
  PROVE  Same(x * p, y * q)
<1>1. PICK t \in Int : x = y + Q * t
  BY DEF Same
<1>2. PICK s \in Int : p = q + Q * s
  BY DEF Same
<1>3. (y + Q * t) * (q + Q * s) = y * q + Q * (y * s + t * q + Q * (t * s))
  BY SMT
<1>4. y * s + t * q + Q * (t * s) \in Int
  BY RingLaws
<1> QED BY <1>1, <1>2, <1>3, <1>4 DEF Same

LEMMA SameScaled ==
  ASSUME Q \in Int, NEW x \in Int, NEW y \in Int, NEW p \in Int, Same(x, y)
  PROVE  Same(p * x, p * y) /\ Same(x * p, y * p)
BY SameBasics, SameTimes

\* Two integers with the same remainder.
LEMMA SameRemainder ==
  ASSUME Q \in Nat \ {0}, NEW x \in Int, NEW y \in Int
  PROVE  /\ Same(x, y) <=> (x - y) % Q = 0
         /\ x % Q \in Int /\ Same(x % Q, x)
<1>1. ASSUME Same(x, y) PROVE (x - y) % Q = 0
  <2>1. PICK t \in Int : x = y + Q * t
    BY <1>1 DEF Same
  <2>2. Q * t \in Int /\ x - y = Q * t
    BY <2>1, RingLaws
  <2>3. (Q * t) % Q = 0
    BY SMT
  <2> QED BY <2>2, <2>3
<1>2. ASSUME NEW d \in Int PROVE d = (d % Q) + Q * (d \div Q) /\ d \div Q \in Int /\ d % Q \in Int
  BY SMT
<1>3. ASSUME (x - y) % Q = 0 PROVE Same(x, y)
  <2>1. x - y = 0 + Q * ((x - y) \div Q) /\ (x - y) \div Q \in Int
    BY <1>2, <1>3
  <2>2. Q * ((x - y) \div Q) \in Int
    BY <2>1, RingLaws
  <2>3. x = y + Q * ((x - y) \div Q)
    BY <2>1, <2>2
  <2> QED BY <2>1, <2>3 DEF Same
<1>4. Same(x, x % Q)
  BY <1>2 DEF Same
<1>5. Same(x % Q, x)
  BY <1>2, <1>4, SameBasics
<1> QED BY <1>1, <1>2, <1>3, <1>5

\* Sums of terms with the same remainders.
LEMMA SameSums ==
  ASSUME Q \in Int, NEW S, IsFiniteSet(S), NEW p \in [S -> Int], NEW q \in [S -> Int],
         \A s \in S : Same(p[s], q[s])
  PROVE  Same(SumFunction(p), SumFunction(q))
<1> DEFINE T == [s \in S |-> CHOOSE t \in Int : p[s] = q[s] + Q * t]
           D == [s \in S |-> Q * T[s]]
<1>1. \A s \in S : T[s] \in Int /\ p[s] = q[s] + Q * T[s]
  BY DEF Same
<1>2. T \in [S -> Int]
  BY <1>1
<1> HIDE DEF T
<1>3. D \in [S -> Int]
  BY <1>1, RingLaws
<1>4. SumFunction(p) = SumFunction(q) + SumFunction(D)
  <2>1. \A s \in S : p[s] = q[s] + D[s]
    BY <1>1
  <2> HIDE DEF D
  <2> QED BY <1>3, <2>1, SumAdds
<1>5. SumFunction(D) = Q * SumFunction(T) /\ SumFunction(T) \in Int
  <2>1. \A s \in S : D[s] = Q * T[s]
    OBVIOUS
  <2> HIDE DEF D
  <2> QED BY <1>2, <1>3, <2>1, SumScales, SumType
<1> QED BY <1>4, <1>5 DEF Same

-----------------------------------------------------------------------------
\* montgomery_reduce divides by R, and R can be cancelled.
LEMMA ReduceSame ==
  ASSUME Numbers, NEW x \in Int
  PROVE  montgomery_reduce(x) \in Int /\ Same(R * montgomery_reduce(x), x)
<1>1. montgomery_reduce(x) \in Int
  BY Modulus, MontgomeryExact
<1>2. PICK t \in Int : R * montgomery_reduce(x) = x - t * Q
  BY Modulus, MontgomeryExact
<1>3. x - t * Q = x + Q * (-t) /\ -t \in Int
  BY SMT DEF Numbers
<1> QED BY <1>1, <1>2, <1>3 DEF Same

\* R has an inverse modulo Q.
LEMMA CancelR ==
  ASSUME Numbers, NEW x \in Int, NEW y \in Int, Same(R * x, R * y)
  PROVE  Same(x, y)
<1>1. PICK t \in Int : R * x = R * y + Q * t
  BY DEF Same
<1>2. x = y + Q * (8265825 * t - 4236238847 * x + 4236238847 * y)
  BY <1>1, SMT DEF Numbers
<1>3. 8265825 * t - 4236238847 * x + 4236238847 * y \in Int
  OBVIOUS
<1> QED BY <1>2, <1>3 DEF Same

\* A product with the Montgomery form of p is a product with p.
LEMMA TwiddleSame ==
  ASSUME Numbers, NEW z \in Int, NEW p \in Int, NEW x \in Int, Same(z, R * p)
  PROVE  montgomery_reduce(z * x) \in Int /\ Same(montgomery_reduce(z * x), p * x)
<1> DEFINE r == montgomery_reduce(z * x)
<1>0. Q \in Int /\ R \in Int
  BY DEF Numbers
<1>1. z * x \in Int /\ p * x \in Int /\ R * p \in Int /\ (R * p) * x = R * (p * x)
      /\ (R * p) * x \in Int
  BY <1>0, SMT
<1>2. r \in Int /\ Same(R * r, z * x)
  BY <1>1, ReduceSame
<1>3. Same(z * x, R * (p * x))
  BY <1>0, <1>1, SameScaled
<1>4. R * r \in Int /\ R * (p * x) \in Int
  BY <1>0, <1>1, <1>2
<1> HIDE DEF r
<1>5. Same(R * r, R * (p * x))
  BY <1>0, <1>1, <1>2, <1>3, <1>4, SameBasics
<1> QED BY <1>1, <1>2, <1>5, CancelR DEF r

LEMMA Reduce32Same ==
  ASSUME Numbers, NEW x \in Int
  PROVE  reduce32(x) \in Int /\ Same(reduce32(x), x)
<1> DEFINE t == (x + 4194304) \div 8388608
<1>1. t \in Int /\ reduce32(x) = x - t * Q
  BY SMT DEF reduce32, Numbers
<1> HIDE DEF t
<1>2. x - t * Q = x + Q * (-t) /\ x - t * Q \in Int /\ -t \in Int
  BY <1>1, SMT DEF Numbers
<1> QED BY <1>1, <1>2 DEF Same

-----------------------------------------------------------------------------
(***************************************************************************)
(* The roots: powers of 1753, which is a root of X^256 + 1.                *)
(***************************************************************************)
Root == Numbers /\ ROOT_OF_UNITY = 1753

\* Power and brv are recursive functions: each is what its recursion says, from
\* a function that is built step by step.
NextPower(x) == (x * ROOT_OF_UNITY) % Q
Previous(k) == [e \in 1..k |-> e - 1]
NextPowers(k) == [e \in 1..k |-> [x \in Int |-> NextPower(x)]]
PowersTo(g, k) == [e \in 0..k |-> IF e = 0 THEN 1 ELSE NextPower(g[e - 1])]

ArePowers(g, k) ==
  g \in [0..k -> Int] /\ g[0] = 1 /\ \A e \in 1..k : g[e - 1] \in Int /\ g[e] = NextPower(g[e - 1])

LEMMA NextPowerType ==
  ASSUME Root, NEW x \in Int
  PROVE  NextPower(x) \in Int
BY SMT DEF NextPower, Root, Numbers

LEMMA PowersExist ==
  ASSUME Root, NEW k \in Nat
  PROVE  \E g : ArePowers(g, k)
<1>1. Earlier(k, Previous(k), NextPowers(k))
  <2>1. \A x \in Int : NextPower(x) \in Int
    BY NextPowerType
  <2>2. \A e \in 1..k : Previous(k)[e] \in 0..(e - 1)
    BY DEF Previous
  <2>3. NextPowers(k) \in [1..k -> [Int -> Int]]
    BY <2>1 DEF NextPowers
  <2> QED BY <2>2, <2>3 DEF Earlier
<1>2. 1 \in Int
  OBVIOUS
<1>3. PICK g : StepsTo(g, k, 1, Previous(k), NextPowers(k))
  BY <1>1, <1>2, Recursion
<1>4. /\ g \in [0..k -> Int] /\ g[0] = 1
      /\ \A e \in 1..k : g[Previous(k)[e]] \in Int /\ g[e] = NextPowers(k)[e][g[Previous(k)[e]]]
  BY <1>1, <1>2, <1>3, StepsTaken
<1>5. ASSUME NEW e \in 1..k PROVE g[e - 1] \in Int /\ g[e] = NextPower(g[e - 1])
  <2>1. Previous(k)[e] = e - 1 /\ \A x \in Int : NextPowers(k)[e][x] = NextPower(x)
    BY DEF Previous, NextPowers
  <2>2. g[e - 1] \in Int /\ g[e] = NextPowers(k)[e][g[e - 1]]
    BY <1>4, <2>1, Zenon
  <2> QED BY <2>1, <2>2, Zenon
<1> QED BY <1>4, <1>5 DEF ArePowers

LEMMA ChosenPowers ==
  ASSUME Root, NEW k \in Nat, NEW p, p = CHOOSE g : g = PowersTo(g, k)
  PROVE  ArePowers(p, k)
<1>1. PICK g : ArePowers(g, k)
  BY PowersExist
<1>2. g = PowersTo(g, k)
  <2>1. ASSUME NEW e \in 0..k PROVE g[e] = IF e = 0 THEN 1 ELSE NextPower(g[e - 1])
    <3>1. CASE e = 0
      BY <1>1, <3>1, Zenon DEF ArePowers
    <3>2. CASE e # 0
      <4>1. e \in 1..k
        BY <3>2
      <4> QED BY <1>1, <3>2, <4>1, Zenon DEF ArePowers
    <3> QED BY <3>1, <3>2
  <2>2. g = [e \in 0..k |-> g[e]]
    BY <1>1 DEF ArePowers
  <2>3. [e \in 0..k |-> g[e]] = [e \in 0..k |-> IF e = 0 THEN 1 ELSE NextPower(g[e - 1])]
    BY <2>1, Zenon
  <2> QED BY <2>2, <2>3, Zenon DEF PowersTo
<1>3. p = PowersTo(p, k)
  BY <1>2, Zenon
<1>4. \A e \in 0..k : p[e] = IF e = 0 THEN 1 ELSE NextPower(p[e - 1])
  BY <1>3, Zenon DEF PowersTo
<1>5. p = [e \in 0..k |-> p[e]]
  BY <1>3, <1>4, Zenon DEF PowersTo
<1>6. p[0] = 1
  BY <1>4
<1>7. \A e \in 1..k : p[e] = NextPower(p[e - 1])
  BY <1>4
<1> DEFINE T == {n \in Nat : n <= k => p[n] \in Int}
<1>8. 0 \in T
  BY <1>6
<1>9. \A n \in Nat : n \in T => n + 1 \in T
  <2> SUFFICES ASSUME NEW n \in Nat, n + 1 <= k, p[n] \in Int PROVE p[n + 1] \in Int
    OBVIOUS
  <2>1. n + 1 \in 1..k /\ (n + 1) - 1 = n
    OBVIOUS
  <2>2. p[n + 1] = NextPower(p[n])
    BY <1>7, <2>1
  <2> QED BY <2>2, NextPowerType
<1> HIDE DEF T
<1>10. Nat \subseteq T
  BY <1>8, <1>9, Induction
<1>11. \A e \in 0..k : p[e] \in Int
  BY <1>10 DEF T
<1>12. p \in [0..k -> Int]
  BY <1>5, <1>11
<1>13. \A e \in 1..k : p[e - 1] \in Int
  BY <1>11
<1> QED BY <1>6, <1>7, <1>12, <1>13 DEF ArePowers

\* The powers of the root are the powers of 1753 modulo Q.
LEMMA PowerIs ==
  ASSUME Root
  PROVE  ArePowers(Power, 511)
<1>1. 2 * N - 1 = 511 /\ 511 \in Nat
  BY DEF Root, Numbers
<1>2. Power = CHOOSE g : g = PowersTo(g, 2 * N - 1)
  BY Zenon DEF Power, PowersTo, NextPower
<1>3. Power = CHOOSE g : g = PowersTo(g, 511)
  BY <1>1, <1>2, ZenonT(60)
<1> QED BY <1>1, <1>3, ChosenPowers

LEMMA PowerTypes ==
  ASSUME Root
  PROVE  (\A e \in 0..511 : Power[e] \in Int) /\ Power[0] = 1
<1>1. Power \in [0..511 -> Int] /\ Power[0] = 1
  BY PowerIs, Zenon DEF ArePowers
<1> QED BY <1>1

LEMMA PowerZero ==
  ASSUME Root
  PROVE  Power[0] = 1
BY PowerTypes

OneStep(e) == Same(Power[e + 1], Power[e] * 1753)

LEMMA PowerSteps ==
  ASSUME Root, NEW e \in 0..510
  PROVE  OneStep(e)
<1>0. ROOT_OF_UNITY = 1753 /\ Q \in Nat \ {0}
  BY DEF Root, Numbers
<1>1. e + 1 \in 1..511 /\ (e + 1) - 1 = e
  OBVIOUS
<1>2. Power[(e + 1) - 1] \in Int /\ Power[e + 1] = NextPower(Power[(e + 1) - 1])
  BY <1>1, PowerIs, Zenon DEF ArePowers
<1>3. Power[e] \in Int /\ Power[e + 1] = NextPower(Power[e])
  BY <1>1, <1>2, Zenon
<1> DEFINE z == Power[e] * 1753
<1>4. z \in Int
  BY <1>3
<1>5. Power[e + 1] = z % Q
  <2>1. NextPower(Power[e]) = (Power[e] * ROOT_OF_UNITY) % Q
    BY Zenon DEF NextPower
  <2> QED BY <1>0, <1>3, <2>1
<1> HIDE DEF z
<1>6. Same(z % Q, z)
  BY <1>0, <1>4, SameRemainder
<1> QED BY <1>5, <1>6 DEF z, OneStep

\* The power to which the coefficients are multiplied: exponents turn at 2N.
PowerAt(e) == Power[e % 512]

StepsSame(n) == \A e \in 0..(n - 1) : Same(PowerAt(e + 1), PowerAt(e) * 1753)

LEMMA PowerAtType ==
  ASSUME Root, NEW e \in Nat
  PROVE  PowerAt(e) \in Int
<1>1. e % 512 \in 0..511
  OBVIOUS
<1> QED BY <1>1, PowerTypes, ZenonT(60) DEF PowerAt

LEMMA PowerAtZero ==
  ASSUME Root
  PROVE  PowerAt(0) = 1
<1>1. 0 % 512 = 0
  OBVIOUS
<1> QED BY <1>1, PowerZero, Zenon DEF PowerAt

LEMMA PowersAdd ==
  ASSUME Root, NEW n \in Nat, StepsSame(n), NEW x \in Nat
  PROVE  \A y \in Nat : x + y <= n => Same(PowerAt(x + y), PowerAt(x) * PowerAt(y))
<1> DEFINE T == {y \in Nat : x + y <= n => Same(PowerAt(x + y), PowerAt(x) * PowerAt(y))}
<1>0. Q \in Int
  BY DEF Root, Numbers
<1>1. 0 \in T
  <2>1. PowerAt(0) = 1
    BY PowerAtZero
  <2>2. PowerAt(x) \in Int /\ x + 0 = x
    BY PowerAtType
  <2>3. PowerAt(x) * 1 = PowerAt(x)
    BY <2>2
  <2>4. Same(PowerAt(x + 0), PowerAt(x) * PowerAt(0))
    BY <1>0, <2>1, <2>2, <2>3, SameBasics
  <2> QED BY <2>4
<1>2. ASSUME NEW y \in Nat, y \in T PROVE y + 1 \in T
  <2> SUFFICES ASSUME x + (y + 1) <= n
               PROVE  Same(PowerAt(x + (y + 1)), PowerAt(x) * PowerAt(y + 1))
    OBVIOUS
  <2> DEFINE A == PowerAt(x)
             B == PowerAt(y)
             C == PowerAt(x + y)
             D == PowerAt(y + 1)
             G == PowerAt((x + y) + 1)
  <2>1. A \in Int /\ B \in Int /\ C \in Int /\ D \in Int /\ G \in Int
    BY PowerAtType
  <2>2. Same(C, A * B)
    BY <1>2
  <2>3. x + y \in 0..(n - 1) /\ y \in 0..(n - 1) /\ x + (y + 1) = (x + y) + 1
    OBVIOUS
  <2>4. Same(G, C * 1753) /\ Same(D, B * 1753)
    BY <2>3 DEF StepsSame
  <2> HIDE DEF A, B, C, D, G
  <2>5. A * B \in Int /\ B * 1753 \in Int /\ C * 1753 \in Int /\ A * D \in Int
        /\ (A * B) * 1753 = A * (B * 1753) /\ A * (B * 1753) \in Int
    BY <2>1, SMT
  <2>6. Same(C * 1753, A * (B * 1753))
    <3>1. Same(C * 1753, (A * B) * 1753)
      BY <1>0, <2>1, <2>2, <2>5, SameScaled
    <3> QED BY <2>5, <3>1
  <2>9. Same(A * D, A * (B * 1753))
    <3> DEFINE F == B * 1753
    <3>1. Same(D, F) /\ F \in Int
      BY <2>4, <2>5
    <3> HIDE DEF F
    <3>2. Same(A * D, A * F)
      BY <1>0, <2>1, <3>1, SameScaled
    <3> QED BY <3>2 DEF F
  <2>7. Same(A * (B * 1753), A * D)
    BY <1>0, <2>5, <2>9, SameBasics
  <2>10. Same(G, A * (B * 1753))
    BY <1>0, <2>1, <2>4, <2>5, <2>6, SameBasics
  <2>8. Same(G, A * D)
    BY <1>0, <2>1, <2>5, <2>7, <2>10, SameBasics
  <2> QED BY <2>3, <2>8 DEF A, D, G
<1> HIDE DEF T
<1>3. Nat \subseteq T
  BY <1>1, <1>2, Induction
<1> QED BY <1>3 DEF T

LEMMA PowerSquared ==
  ASSUME Root, StepsSame(511), NEW x \in 1..255, NEW c \in Int, NEW b \in Int, NEW t \in Int,
         c * c = b + Q * t, Same(PowerAt(x), c)
  PROVE  Same(PowerAt(2 * x), b)
<1>0. Q \in Int
  BY DEF Root, Numbers
<1>1. Same(PowerAt(x + x), PowerAt(x) * PowerAt(x))
  BY PowersAdd
<1>2. PowerAt(x) \in Int /\ PowerAt(2 * x) \in Int /\ x + x = 2 * x
  BY PowerAtType
<1>3. PowerAt(x) * PowerAt(x) \in Int /\ c * c \in Int
  BY <1>2, RingLaws
<1>4. Same(PowerAt(x) * PowerAt(x), c * c)
  BY <1>0, <1>2, SameTimes
<1>5. Same(c * c, b)
  BY DEF Same
<1> QED BY <1>0, <1>1, <1>2, <1>3, <1>4, <1>5, SameBasics

\* Nine squarings of 1753: its power 256 is -1.
LEMMA HalfTurn ==
  ASSUME Root, StepsSame(511)
  PROVE  Same(PowerAt(256), -1)
<1>q. Q = 8380417
  BY DEF Root, Numbers
<1>0. Same(PowerAt(1), 1753)
  <2>1. 0 \in 0..510 /\ 0 + 1 = 1 /\ 1 * 1753 = 1753
    BY SMTT(60)
  <2>2. Same(PowerAt(0 + 1), PowerAt(0) * 1753)
    BY <2>1 DEF StepsSame
  <2> QED BY <2>1, <2>2, PowerAtZero, SMT
<1>1. Same(PowerAt(2), 3073009)
  <2>1. 1753 * 1753 = 3073009 + Q * 0
    BY <1>q
  <2> QED BY <1>0, <2>1, PowerSquared
<1>2. Same(PowerAt(4), 3602218)
  <2>1. 3073009 * 3073009 = 3602218 + Q * 1126839
    BY <1>q
  <2> QED BY <1>1, <2>1, PowerSquared
<1>3. Same(PowerAt(8), 5010068)
  <2>1. 3602218 * 3602218 = 5010068 + Q * 1548368
    BY <1>q
  <2> QED BY <1>2, <2>1, PowerSquared
<1>4. Same(PowerAt(16), 7778734)
  <2>1. 5010068 * 5010068 = 7778734 + Q * 2995170
    BY <1>q
  <2> QED BY <1>3, <2>1, PowerSquared
<1>5. Same(PowerAt(32), 5178923)
  <2>1. 7778734 * 7778734 = 5178923 + Q * 7220249
    BY <1>q
  <2> QED BY <1>4, <2>1, PowerSquared
<1>6. Same(PowerAt(64), 3765607)
  <2>1. 5178923 * 5178923 = 3765607 + Q * 3200466
    BY <1>q
  <2> QED BY <1>5, <2>1, PowerSquared
<1>7. Same(PowerAt(128), 4808194)
  <2>1. 3765607 * 3765607 = 4808194 + Q * 1692015
    BY <1>q
  <2> QED BY <1>6, <2>1, PowerSquared
<1>8. Same(PowerAt(256), -1)
  <2>1. 4808194 * 4808194 = -1 + Q * 2758661
    BY <1>q
  <2> QED BY <1>7, <2>1, PowerSquared
<1> QED BY <1>8

\* The root has order 512: the law of exponents holds without a bound.
LEMMA PowerLaws ==
  ASSUME Root
  PROVE  /\ Same(PowerAt(256), -1) /\ PowerAt(0) = 1
         /\ \A x, y \in Nat : Same(PowerAt(x + y), PowerAt(x) * PowerAt(y))
<1>0. Q \in Int
  BY DEF Root, Numbers
<1>1. StepsSame(511)
  <2> SUFFICES ASSUME NEW e \in 0..510 PROVE Same(PowerAt(e + 1), PowerAt(e) * 1753)
    BY DEF StepsSame
  <2>1. e % 512 = e /\ (e + 1) % 512 = e + 1
    OBVIOUS
  <2>2. PowerAt(e) = Power[e] /\ PowerAt(e + 1) = Power[e + 1]
    BY <2>1 DEF PowerAt
  <2>3. OneStep(e)
    BY PowerSteps
  <2> QED BY <2>2, <2>3, SMTT(60) DEF OneStep
<1>2. Same(PowerAt(256), -1)
  BY <1>1, HalfTurn
<1>3. Same(PowerAt(512), PowerAt(511) * 1753)
  <2>1. Same(PowerAt(511), PowerAt(256) * PowerAt(255)) /\ Same(PowerAt(256), PowerAt(255) * 1753)
    <3>1. Same(PowerAt(256 + 255), PowerAt(256) * PowerAt(255))
      BY <1>1, PowersAdd, SMTT(60)
    <3>2. Same(PowerAt(255 + 1), PowerAt(255) * 1753)
      BY <1>1 DEF StepsSame
    <3> QED BY <3>1, <3>2
  <2> DEFINE A == PowerAt(255)
             B == PowerAt(256)
             C == PowerAt(511)
  <2>2. A \in Int /\ B \in Int /\ C \in Int
    BY PowerAtType
  <2>3. PowerAt(512) = 1
    <3>1. 512 % 512 = 0
      OBVIOUS
    <3> QED BY <3>1, PowerZero, ZenonT(60) DEF PowerAt
  <2> HIDE DEF A, B, C
  <2>4. B * A \in Int /\ A * 1753 \in Int /\ C * 1753 \in Int /\ B * B \in Int
        /\ (B * A) * 1753 = B * (A * 1753) /\ B * (A * 1753) \in Int
    BY <2>2, SMT
  <2>5. Same(C * 1753, B * (A * 1753))
    BY <1>0, <2>1, <2>2, <2>4, SameScaled DEF A, B, C
  <2>6. Same(B * B, B * (A * 1753))
    BY <1>0, <2>1, <2>2, <2>4, SameScaled DEF A, B
  <2>7. Same(B * B, (-1) * (-1)) /\ (-1) * (-1) = 1
    BY <1>0, <1>2, <2>2, SameTimes DEF B
  <2>8. Same(C * 1753, 1)
    BY <1>0, <2>4, <2>5, <2>6, <2>7, SameBasics
  <2> QED BY <1>0, <2>3, <2>4, <2>8, SameBasics DEF C
<1>4. \A e \in Nat : Same(PowerAt(e + 1), PowerAt(e) * 1753)
  <2> TAKE e \in Nat
  <2> DEFINE d == e % 512
  <2>1. d \in 0..511 /\ (d < 511 => (e + 1) % 512 = d + 1) /\ (d = 511 => (e + 1) % 512 = 0)
    OBVIOUS
  <2>2. PowerAt(e) = PowerAt(d) /\ PowerAt(e + 1) = PowerAt(d + 1)
    <3>1. d % 512 = d /\ (e + 1) % 512 = (d + 1) % 512
      BY <2>1
    <3> QED BY <3>1, ZenonT(60) DEF PowerAt
  <2> HIDE DEF d
  <2>3. CASE d < 511
    <3>1. d \in 0..(511 - 1)
      BY <2>1, <2>3
    <3> QED BY <1>1, <2>2, <3>1 DEF StepsSame
  <2>4. CASE d = 511
    <3>1. 511 + 1 = 512
      OBVIOUS
    <3>2. PowerAt(e + 1) = PowerAt(512) /\ PowerAt(e) = PowerAt(511)
      BY <2>2, <2>4, <3>1, SMT
    <3> QED BY <1>3, <3>2, SMT
  <2> QED BY <2>1, <2>3, <2>4
<1>5. ASSUME NEW x \in Nat, NEW y \in Nat PROVE Same(PowerAt(x + y), PowerAt(x) * PowerAt(y))
  <2>1. StepsSame(x + y) /\ x + y \in Nat
    BY <1>4 DEF StepsSame
  <2> QED BY <2>1, PowersAdd
<1>6. PowerAt(0) = 1
  BY PowerAtZero
<1> QED BY <1>2, <1>5, <1>6

NextReversed(n, x) == (x + (n % 2) * N) \div 2
Halved(k) == [n \in 1..k |-> n \div 2]
NextReverseds(k) == [n \in 1..k |-> [x \in Int |-> NextReversed(n, x)]]
ReversedTo(g, k) == [n \in 0..k |-> IF n = 0 THEN 0 ELSE NextReversed(n, g[n \div 2])]

\* brv follows its recursion.
AreReversed(g, k) ==
  /\ g[0] = 0
  /\ \A n \in 1..k : g[n] = NextReversed(n, g[n \div 2])

LEMMA ReversedExist ==
  ASSUME N \in Nat, NEW k \in Nat
  PROVE  \E g : g = ReversedTo(g, k)
<1>1. Earlier(k, Halved(k), NextReverseds(k))
  <2>1. \A n \in 1..k, x \in Int : NextReversed(n, x) \in Int
    <3> TAKE n \in 1..k, x \in Int
    <3>1. (n % 2) * N \in Int
      BY SMT
    <3> QED BY <3>1 DEF NextReversed
  <2>2. \A n \in 1..k : Halved(k)[n] \in 0..(n - 1)
    BY DEF Halved
  <2>3. NextReverseds(k) \in [1..k -> [Int -> Int]]
    BY <2>1 DEF NextReverseds
  <2> QED BY <2>2, <2>3 DEF Earlier
<1>2. 0 \in Int
  OBVIOUS
<1>3. PICK g : StepsTo(g, k, 0, Halved(k), NextReverseds(k))
  BY <1>1, <1>2, Recursion
<1>4. /\ g \in [0..k -> Int] /\ g[0] = 0
      /\ \A n \in 1..k : /\ g[Halved(k)[n]] \in Int
                         /\ g[n] = NextReverseds(k)[n][g[Halved(k)[n]]]
  BY <1>1, <1>2, <1>3, StepsTaken
<1>5. ASSUME NEW n \in 1..k PROVE g[n] = NextReversed(n, g[n \div 2])
  <2>1. Halved(k)[n] = n \div 2 /\ \A x \in Int : NextReverseds(k)[n][x] = NextReversed(n, x)
    BY DEF Halved, NextReverseds
  <2>2. g[n \div 2] \in Int /\ g[n] = NextReverseds(k)[n][g[n \div 2]]
    BY <1>4, <2>1, Zenon
  <2> QED BY <2>1, <2>2, Zenon
<1>6. ASSUME NEW n \in 0..k PROVE g[n] = IF n = 0 THEN 0 ELSE NextReversed(n, g[n \div 2])
  <2>1. CASE n = 0
    BY <1>4, <2>1, Zenon
  <2>2. CASE n # 0
    <3>1. n \in 1..k
      BY <2>2
    <3> QED BY <1>5, <2>2, <3>1, Zenon
  <2> QED BY <2>1, <2>2
<1>7. g = [n \in 0..k |-> g[n]]
  BY <1>4
<1>8. [n \in 0..k |-> g[n]] = [n \in 0..k |-> IF n = 0 THEN 0 ELSE NextReversed(n, g[n \div 2])]
  BY <1>6, Zenon
<1> QED BY <1>7, <1>8, Zenon DEF ReversedTo

LEMMA ReversedIs ==
  ASSUME N \in Nat \ {0}
  PROVE  AreReversed(brv, N - 1)
<1>1. brv = CHOOSE g : g = ReversedTo(g, N - 1)
  BY Zenon DEF brv, ReversedTo, NextReversed, Idx
<1>2. N - 1 \in Nat
  OBVIOUS
<1>3. brv = ReversedTo(brv, N - 1)
  BY <1>1, <1>2, ReversedExist, Zenon
<1>4. \A n \in 0..(N - 1) : brv[n] = IF n = 0 THEN 0 ELSE NextReversed(n, brv[n \div 2])
  BY <1>3, Zenon DEF ReversedTo
<1>5. brv[0] = 0
  BY <1>2, <1>4
<1>6. \A n \in 1..(N - 1) : brv[n] = NextReversed(n, brv[n \div 2])
  BY <1>4
<1> QED BY <1>5, <1>6, Zenon DEF AreReversed

Bit == 0..1

Reverses(x, y) == x \in 0..255 /\ y \in Int /\ brv[x] = y

\* The bit below the others becomes the highest.
LEMMA ReversedStep ==
  ASSUME N = 256, NEW x, NEW y, Reverses(x, y), x < 128, NEW c \in Bit
  PROVE  Reverses(2 * x + c, (y + 256 * c) \div 2)
<1>0. AreReversed(brv, 255)
  <2>1. N \in Nat \ {0} /\ N - 1 = 255
    OBVIOUS
  <2> QED BY <2>1, ReversedIs
<1> DEFINE n == 2 * x + c
           z == (y + 256 * c) \div 2
<1>a. x \in 0..127 /\ c \in 0..1 /\ y \in Int /\ brv[x] = y
  BY DEF Reverses, Bit
<1>1. n \in 0..255 /\ n \div 2 = x /\ n % 2 = c /\ z \in Int
  BY <1>a
<1> HIDE DEF n
<1>2. brv[n] = z
  <2>1. CASE n = 0
    <3>1. x = 0 /\ c = 0
      BY <1>a, <2>1 DEF n
    <3>2. brv[n] = 0 /\ y = 0
      BY <1>0, <1>a, <2>1, <3>1 DEF AreReversed
    <3> QED BY <3>1, <3>2
  <2>2. CASE n # 0
    <3>1. n \in 1..255
      BY <1>1, <2>2
    <3>2. brv[n] = NextReversed(n, brv[n \div 2])
      BY <1>0, <3>1 DEF AreReversed
    <3>3. brv[n] = (y + c * N) \div 2
      BY <1>1, <1>a, <3>2 DEF NextReversed
    <3>4. c * N = 256 * c
      BY <1>a, SMT
    <3> QED BY <3>3, <3>4
  <2> QED BY <2>1, <2>2
<1> HIDE DEF z
<1> QED BY <1>1, <1>2 DEF Reverses, n, z

\* brv reverses the bits.
BitsReverse(c0, c1, c2, c3, c4, c5, c6, c7) ==
  brv[c0 + 2 * c1 + 4 * c2 + 8 * c3 + 16 * c4 + 32 * c5 + 64 * c6 + 128 * c7]
    = 128 * c0 + 64 * c1 + 32 * c2 + 16 * c3 + 8 * c4 + 4 * c5 + 2 * c6 + c7

LEMMA ReversedBits ==
  ASSUME N = 256,
         NEW c0 \in Bit, NEW c1 \in Bit, NEW c2 \in Bit, NEW c3 \in Bit,
         NEW c4 \in Bit, NEW c5 \in Bit, NEW c6 \in Bit, NEW c7 \in Bit
  PROVE  BitsReverse(c0, c1, c2, c3, c4, c5, c6, c7)
<1> DEFINE x7 == c7
           x6 == 2 * x7 + c6
           x5 == 2 * x6 + c5
           x4 == 2 * x5 + c4
           x3 == 2 * x4 + c3
           x2 == 2 * x3 + c2
           x1 == 2 * x2 + c1
           x0 == 2 * x1 + c0
           y7 == 128 * c7
           y6 == 128 * c6 + 64 * c7
           y5 == 128 * c5 + 64 * c6 + 32 * c7
           y4 == 128 * c4 + 64 * c5 + 32 * c6 + 16 * c7
           y3 == 128 * c3 + 64 * c4 + 32 * c5 + 16 * c6 + 8 * c7
           y2 == 128 * c2 + 64 * c3 + 32 * c4 + 16 * c5 + 8 * c6 + 4 * c7
           y1 == 128 * c1 + 64 * c2 + 32 * c3 + 16 * c4 + 8 * c5 + 4 * c6 + 2 * c7
           y0 == 128 * c0 + 64 * c1 + 32 * c2 + 16 * c3 + 8 * c4 + 4 * c5 + 2 * c6 + c7
<1>0. /\ c0 \in 0..1 /\ c1 \in 0..1 /\ c2 \in 0..1 /\ c3 \in 0..1
      /\ c4 \in 0..1 /\ c5 \in 0..1 /\ c6 \in 0..1 /\ c7 \in 0..1
  BY DEF Bit
<1>1. /\ x7 < 128 /\ x6 < 128 /\ x5 < 128 /\ x4 < 128 /\ x3 < 128 /\ x2 < 128 /\ x1 < 128
  BY <1>0
<1>s7. x7 = 2 * 0 + c7 /\ y7 = (0 + 256 * c7) \div 2
  BY <1>0
<1>s6. x6 = 2 * x7 + c6 /\ y6 = (y7 + 256 * c6) \div 2
  BY <1>0
<1>s5. x5 = 2 * x6 + c5 /\ y5 = (y6 + 256 * c5) \div 2
  BY <1>0
<1>s4. x4 = 2 * x5 + c4 /\ y4 = (y5 + 256 * c4) \div 2
  BY <1>0
<1>s3. x3 = 2 * x4 + c3 /\ y3 = (y4 + 256 * c3) \div 2
  BY <1>0
<1>s2. x2 = 2 * x3 + c2 /\ y2 = (y3 + 256 * c2) \div 2
  BY <1>0
<1>s1. x1 = 2 * x2 + c1 /\ y1 = (y2 + 256 * c1) \div 2
  BY <1>0
<1>s0. x0 = 2 * x1 + c0 /\ y0 = (y1 + 256 * c0) \div 2
  BY <1>0
<1>2. x0 = c0 + 2 * c1 + 4 * c2 + 8 * c3 + 16 * c4 + 32 * c5 + 64 * c6 + 128 * c7
  BY <1>0
<1> HIDE DEF x0, x1, x2, x3, x4, x5, x6, x7, y0, y1, y2, y3, y4, y5, y6, y7
<1>r8. Reverses(0, 0)
  BY ReversedIs DEF AreReversed, Reverses
<1>r7. Reverses(x7, y7)
  BY <1>s7, <1>r8, ReversedStep
<1>r6. Reverses(x6, y6)
  BY <1>1, <1>s6, <1>r7, ReversedStep
<1>r5. Reverses(x5, y5)
  BY <1>1, <1>s5, <1>r6, ReversedStep
<1>r4. Reverses(x4, y4)
  BY <1>1, <1>s4, <1>r5, ReversedStep
<1>r3. Reverses(x3, y3)
  BY <1>1, <1>s3, <1>r4, ReversedStep
<1>r2. Reverses(x2, y2)
  BY <1>1, <1>s2, <1>r3, ReversedStep
<1>r1. Reverses(x1, y1)
  BY <1>1, <1>s1, <1>r2, ReversedStep
<1>r0. Reverses(x0, y0)
  BY <1>1, <1>s0, <1>r1, ReversedStep
<1> QED BY <1>2, <1>r0 DEF BitsReverse, Reverses, y0

\* The bits c0 .. c7 of n, the lowest first.
Bits(n, c) ==
  /\ c \in [0..7 -> Bit]
  /\ n = c[0] + 2 * c[1] + 4 * c[2] + 8 * c[3] + 16 * c[4] + 32 * c[5] + 64 * c[6] + 128 * c[7]

LEMMA HasBits ==
  ASSUME NEW n \in 0..255
  PROVE  \E c : Bits(n, c)
<1>1. \A x \in Nat : x % 2 \in Bit /\ x \div 2 \in Nat /\ x = (x % 2) + 2 * (x \div 2)
  BY DEF Bit
<1> DEFINE n1 == n \div 2
           n2 == n1 \div 2
           n3 == n2 \div 2
           n4 == n3 \div 2
           n5 == n4 \div 2
           n6 == n5 \div 2
           n7 == n6 \div 2
<1>2. /\ n \in Nat /\ n1 \in Nat /\ n2 \in Nat /\ n3 \in Nat /\ n4 \in Nat /\ n5 \in Nat /\ n6 \in Nat
  OBVIOUS
<1>3. /\ n = (n % 2) + 2 * n1 /\ n1 = (n1 % 2) + 2 * n2 /\ n2 = (n2 % 2) + 2 * n3
      /\ n3 = (n3 % 2) + 2 * n4 /\ n4 = (n4 % 2) + 2 * n5 /\ n5 = (n5 % 2) + 2 * n6
      /\ n6 = (n6 % 2) + 2 * n7
  BY <1>1, <1>2
<1>4. n7 \in Bit
  BY DEF Bit
<1>5. /\ n % 2 \in Bit /\ n1 % 2 \in Bit /\ n2 % 2 \in Bit /\ n3 % 2 \in Bit /\ n4 % 2 \in Bit
      /\ n5 % 2 \in Bit /\ n6 % 2 \in Bit
  BY <1>1, <1>2
<1> DEFINE b0 == n % 2
           b1 == n1 % 2
           b2 == n2 % 2
           b3 == n3 % 2
           b4 == n4 % 2
           b5 == n5 % 2
           b6 == n6 % 2
<1> HIDE DEF n1, n2, n3, n4, n5, n6, n7
<1>6. n = b0 + 2 * b1 + 4 * b2 + 8 * b3 + 16 * b4 + 32 * b5 + 64 * b6 + 128 * n7
  <2>1. b0 \in 0..1 /\ b1 \in 0..1 /\ b2 \in 0..1 /\ b3 \in 0..1 /\ b4 \in 0..1 /\ b5 \in 0..1
        /\ b6 \in 0..1 /\ n7 \in 0..1
    BY <1>4, <1>5 DEF Bit
  <2>2. n = b0 + 2 * n1 /\ n1 = b1 + 2 * n2 /\ n2 = b2 + 2 * n3 /\ n3 = b3 + 2 * n4
        /\ n4 = b4 + 2 * n5 /\ n5 = b5 + 2 * n6 /\ n6 = b6 + 2 * n7
    BY <1>3
  <2> HIDE DEF b0, b1, b2, b3, b4, b5, b6
  <2> QED BY <2>1, <2>2
<1>7. /\ b0 \in Bit /\ b1 \in Bit /\ b2 \in Bit /\ b3 \in Bit /\ b4 \in Bit
      /\ b5 \in Bit /\ b6 \in Bit
  BY <1>5
<1> HIDE DEF b0, b1, b2, b3, b4, b5, b6
<1> DEFINE c == [k \in 0..7 |-> IF k = 0 THEN b0 ELSE IF k = 1 THEN b1 ELSE IF k = 2 THEN b2
                              ELSE IF k = 3 THEN b3 ELSE IF k = 4 THEN b4 ELSE IF k = 5 THEN b5
                              ELSE IF k = 6 THEN b6 ELSE n7]
<1>8. c \in [0..7 -> Bit]
  BY <1>4, <1>7
<1>9. /\ c[0] = b0 /\ c[1] = b1 /\ c[2] = b2 /\ c[3] = b3 /\ c[4] = b4 /\ c[5] = b5
      /\ c[6] = b6 /\ c[7] = n7
  OBVIOUS
<1> HIDE DEF c
<1>10. Bits(n, c)
  BY <1>6, <1>8, <1>9 DEF Bits
<1> QED BY <1>10

\* How a layer with blocks of 2l uses the table: the entries k and k2 that ntt
\* and invntt_tomont take for the block of index n.
Twiddle(l, n)        == 256 \div (2 * l) + n \div (2 * l)
InverseTwiddle(l, n) == 256 \div l - 1 - n \div (2 * l)

\* The two entries that a block uses have exponents that add up to 256, half a
\* turn, and the roots of the two halves of the block differ by half a turn.
Line(l, n) ==
  /\ Twiddle(l, n) \in 1..255 /\ InverseTwiddle(l, n) \in 1..255
  /\ brv[Twiddle(l, n)] \in Nat /\ brv[InverseTwiddle(l, n)] \in Nat /\ brv[n] \in Nat
  /\ brv[Twiddle(l, n)] + brv[InverseTwiddle(l, n)] = 256
  /\ \E t \in Nat :
       (2 * brv[n] + 1) * l
         = brv[Twiddle(l, n)] + (IF n % (2 * l) < l THEN 0 ELSE 256) + 512 * t

LEMMA LineIs ==
  ASSUME N = 256, NEW n \in 0..255, NEW l \in LayerLens
  PROVE  Line(l, n)
<1>1. PICK c : Bits(n, c)
  BY HasBits
<1> DEFINE d0 == c[0]
           d1 == c[1]
           d2 == c[2]
           d3 == c[3]
           d4 == c[4]
           d5 == c[5]
           d6 == c[6]
           d7 == c[7]
<1>2. /\ d0 \in Bit /\ d1 \in Bit /\ d2 \in Bit /\ d3 \in Bit
      /\ d4 \in Bit /\ d5 \in Bit /\ d6 \in Bit /\ d7 \in Bit
  BY <1>1 DEF Bits
<1>3. n = d0 + 2 * d1 + 4 * d2 + 8 * d3 + 16 * d4 + 32 * d5 + 64 * d6 + 128 * d7
  BY <1>1 DEF Bits
<1> HIDE DEF d0, d1, d2, d3, d4, d5, d6, d7
<1>4. /\ d0 \in 0..1 /\ d1 \in 0..1 /\ d2 \in 0..1 /\ d3 \in 0..1
      /\ d4 \in 0..1 /\ d5 \in 0..1 /\ d6 \in 0..1 /\ d7 \in 0..1
  BY <1>2 DEF Bit
<1>5. /\ 1 - d1 \in Bit /\ 1 - d2 \in Bit /\ 1 - d3 \in Bit /\ 1 - d4 \in Bit
      /\ 1 - d5 \in Bit /\ 1 - d6 \in Bit /\ 1 - d7 \in Bit /\ 0 \in Bit /\ 1 \in Bit
  BY <1>4 DEF Bit
<1> DEFINE r == 128 * d0 + 64 * d1 + 32 * d2 + 16 * d3 + 8 * d4 + 4 * d5 + 2 * d6 + d7
<1>6. brv[n] = r /\ r \in Nat
  <2>1. BitsReverse(d0, d1, d2, d3, d4, d5, d6, d7)
    BY <1>2, ReversedBits
  <2>2. r \in Nat
    BY <1>4
  <2> QED BY <1>3, <2>1, <2>2 DEF BitsReverse
<1>7. CASE l = 128
  <2> DEFINE k  == 1 + 2 * 0 + 4 * 0 + 8 * 0 + 16 * 0 + 32 * 0 + 64 * 0 + 128 * 0
             k2 == 1 + 2 * 0 + 4 * 0 + 8 * 0 + 16 * 0 + 32 * 0 + 64 * 0 + 128 * 0
             p  == 128 * 1 + 64 * 0 + 32 * 0 + 16 * 0 + 8 * 0 + 4 * 0 + 2 * 0 + 0
             p2 == 128 * 1 + 64 * 0 + 32 * 0 + 16 * 0 + 8 * 0 + 4 * 0 + 2 * 0 + 0
             t  == 64 * d0 + 32 * d1 + 16 * d2 + 8 * d3 + 4 * d4 + 2 * d5 + d6
  <2>1. brv[k] = p
    <3>1. BitsReverse(1, 0, 0, 0, 0, 0, 0, 0)
      BY <1>2, <1>5, ReversedBits
    <3> QED BY <3>1 DEF BitsReverse
  <2>2. brv[k2] = p2
    <3>1. BitsReverse(1, 0, 0, 0, 0, 0, 0, 0)
      BY <1>5, ReversedBits
    <3> QED BY <3>1 DEF BitsReverse
  <2>3. /\ 1 + n \div 256 = k /\ 2 - 1 - n \div 256 = k2
        /\ k \in 1..255 /\ k2 \in 1..255 /\ (n % 256 < 128 <=> d7 = 0)
    BY <1>3, <1>4
  <2>4. p \in Nat /\ p2 \in Nat /\ p + p2 = 256 /\ t \in Nat
        /\ (2 * r + 1) * 128 = p + 256 * d7 + 512 * t
    BY <1>4
  <2>5. Twiddle(l, n) = k /\ InverseTwiddle(l, n) = k2
    BY <1>7, <2>3 DEF Twiddle, InverseTwiddle
  <2>6. 256 * d7 = IF n % (2 * l) < l THEN 0 ELSE 256
    BY <1>4, <1>7, <2>3
  <2> HIDE DEF k, k2, p, p2, r, t
  <2>7. (2 * brv[n] + 1) * l = p + (IF n % (2 * l) < l THEN 0 ELSE 256) + 512 * t
    BY <1>6, <1>7, <2>4, <2>6
  <2> QED BY <1>6, <2>1, <2>2, <2>3, <2>4, <2>5, <2>7 DEF Line
<1>8. CASE l = 64
  <2> DEFINE k  == d7 + 2 * 1 + 4 * 0 + 8 * 0 + 16 * 0 + 32 * 0 + 64 * 0 + 128 * 0
             k2 == (1 - d7) + 2 * 1 + 4 * 0 + 8 * 0 + 16 * 0 + 32 * 0 + 64 * 0 + 128 * 0
             p  == 128 * d7 + 64 * 1 + 32 * 0 + 16 * 0 + 8 * 0 + 4 * 0 + 2 * 0 + 0
             p2 == 128 * (1 - d7) + 64 * 1 + 32 * 0 + 16 * 0 + 8 * 0 + 4 * 0 + 2 * 0 + 0
             t  == 32 * d0 + 16 * d1 + 8 * d2 + 4 * d3 + 2 * d4 + d5
  <2>1. brv[k] = p
    <3>1. BitsReverse(d7, 1, 0, 0, 0, 0, 0, 0)
      BY <1>2, <1>5, ReversedBits
    <3> QED BY <3>1 DEF BitsReverse
  <2>2. brv[k2] = p2
    <3>1. BitsReverse((1 - d7), 1, 0, 0, 0, 0, 0, 0)
      BY <1>5, ReversedBits
    <3> QED BY <3>1 DEF BitsReverse
  <2>3. /\ 2 + n \div 128 = k /\ 4 - 1 - n \div 128 = k2
        /\ k \in 1..255 /\ k2 \in 1..255 /\ (n % 128 < 64 <=> d6 = 0)
    BY <1>3, <1>4
  <2>4. p \in Nat /\ p2 \in Nat /\ p + p2 = 256 /\ t \in Nat
        /\ (2 * r + 1) * 64 = p + 256 * d6 + 512 * t
    BY <1>4
  <2>5. Twiddle(l, n) = k /\ InverseTwiddle(l, n) = k2
    BY <1>8, <2>3 DEF Twiddle, InverseTwiddle
  <2>6. 256 * d6 = IF n % (2 * l) < l THEN 0 ELSE 256
    BY <1>4, <1>8, <2>3
  <2> HIDE DEF k, k2, p, p2, r, t
  <2>7. (2 * brv[n] + 1) * l = p + (IF n % (2 * l) < l THEN 0 ELSE 256) + 512 * t
    BY <1>6, <1>8, <2>4, <2>6
  <2> QED BY <1>6, <2>1, <2>2, <2>3, <2>4, <2>5, <2>7 DEF Line
<1>9. CASE l = 32
  <2> DEFINE k  == d6 + 2 * d7 + 4 * 1 + 8 * 0 + 16 * 0 + 32 * 0 + 64 * 0 + 128 * 0
             k2 == (1 - d6) + 2 * (1 - d7) + 4 * 1 + 8 * 0 + 16 * 0 + 32 * 0 + 64 * 0 + 128 * 0
             p  == 128 * d6 + 64 * d7 + 32 * 1 + 16 * 0 + 8 * 0 + 4 * 0 + 2 * 0 + 0
             p2 == 128 * (1 - d6) + 64 * (1 - d7) + 32 * 1 + 16 * 0 + 8 * 0 + 4 * 0 + 2 * 0 + 0
             t  == 16 * d0 + 8 * d1 + 4 * d2 + 2 * d3 + d4
  <2>1. brv[k] = p
    <3>1. BitsReverse(d6, d7, 1, 0, 0, 0, 0, 0)
      BY <1>2, <1>5, ReversedBits
    <3> QED BY <3>1 DEF BitsReverse
  <2>2. brv[k2] = p2
    <3>1. BitsReverse((1 - d6), (1 - d7), 1, 0, 0, 0, 0, 0)
      BY <1>5, ReversedBits
    <3> QED BY <3>1 DEF BitsReverse
  <2>3. /\ 4 + n \div 64 = k /\ 8 - 1 - n \div 64 = k2
        /\ k \in 1..255 /\ k2 \in 1..255 /\ (n % 64 < 32 <=> d5 = 0)
    BY <1>3, <1>4
  <2>4. p \in Nat /\ p2 \in Nat /\ p + p2 = 256 /\ t \in Nat
        /\ (2 * r + 1) * 32 = p + 256 * d5 + 512 * t
    BY <1>4
  <2>5. Twiddle(l, n) = k /\ InverseTwiddle(l, n) = k2
    BY <1>9, <2>3 DEF Twiddle, InverseTwiddle
  <2>6. 256 * d5 = IF n % (2 * l) < l THEN 0 ELSE 256
    BY <1>4, <1>9, <2>3
  <2> HIDE DEF k, k2, p, p2, r, t
  <2>7. (2 * brv[n] + 1) * l = p + (IF n % (2 * l) < l THEN 0 ELSE 256) + 512 * t
    BY <1>6, <1>9, <2>4, <2>6
  <2> QED BY <1>6, <2>1, <2>2, <2>3, <2>4, <2>5, <2>7 DEF Line
<1>10. CASE l = 16
  <2> DEFINE k  == d5 + 2 * d6 + 4 * d7 + 8 * 1 + 16 * 0 + 32 * 0 + 64 * 0 + 128 * 0
             k2 == (1 - d5) + 2 * (1 - d6) + 4 * (1 - d7) + 8 * 1 + 16 * 0 + 32 * 0 + 64 * 0 + 128 * 0
             p  == 128 * d5 + 64 * d6 + 32 * d7 + 16 * 1 + 8 * 0 + 4 * 0 + 2 * 0 + 0
             p2 == 128 * (1 - d5) + 64 * (1 - d6) + 32 * (1 - d7) + 16 * 1 + 8 * 0 + 4 * 0 + 2 * 0 + 0
             t  == 8 * d0 + 4 * d1 + 2 * d2 + d3
  <2>1. brv[k] = p
    <3>1. BitsReverse(d5, d6, d7, 1, 0, 0, 0, 0)
      BY <1>2, <1>5, ReversedBits
    <3> QED BY <3>1 DEF BitsReverse
  <2>2. brv[k2] = p2
    <3>1. BitsReverse((1 - d5), (1 - d6), (1 - d7), 1, 0, 0, 0, 0)
      BY <1>5, ReversedBits
    <3> QED BY <3>1 DEF BitsReverse
  <2>3. /\ 8 + n \div 32 = k /\ 16 - 1 - n \div 32 = k2
        /\ k \in 1..255 /\ k2 \in 1..255 /\ (n % 32 < 16 <=> d4 = 0)
    BY <1>3, <1>4
  <2>4. p \in Nat /\ p2 \in Nat /\ p + p2 = 256 /\ t \in Nat
        /\ (2 * r + 1) * 16 = p + 256 * d4 + 512 * t
    BY <1>4
  <2>5. Twiddle(l, n) = k /\ InverseTwiddle(l, n) = k2
    BY <1>10, <2>3 DEF Twiddle, InverseTwiddle
  <2>6. 256 * d4 = IF n % (2 * l) < l THEN 0 ELSE 256
    BY <1>4, <1>10, <2>3
  <2> HIDE DEF k, k2, p, p2, r, t
  <2>7. (2 * brv[n] + 1) * l = p + (IF n % (2 * l) < l THEN 0 ELSE 256) + 512 * t
    BY <1>6, <1>10, <2>4, <2>6
  <2> QED BY <1>6, <2>1, <2>2, <2>3, <2>4, <2>5, <2>7 DEF Line
<1>11. CASE l = 8
  <2> DEFINE k  == d4 + 2 * d5 + 4 * d6 + 8 * d7 + 16 * 1 + 32 * 0 + 64 * 0 + 128 * 0
             k2 == (1 - d4) + 2 * (1 - d5) + 4 * (1 - d6) + 8 * (1 - d7) + 16 * 1 + 32 * 0 + 64 * 0 + 128 * 0
             p  == 128 * d4 + 64 * d5 + 32 * d6 + 16 * d7 + 8 * 1 + 4 * 0 + 2 * 0 + 0
             p2 == 128 * (1 - d4) + 64 * (1 - d5) + 32 * (1 - d6) + 16 * (1 - d7) + 8 * 1 + 4 * 0 + 2 * 0 + 0
             t  == 4 * d0 + 2 * d1 + d2
  <2>1. brv[k] = p
    <3>1. BitsReverse(d4, d5, d6, d7, 1, 0, 0, 0)
      BY <1>2, <1>5, ReversedBits
    <3> QED BY <3>1 DEF BitsReverse
  <2>2. brv[k2] = p2
    <3>1. BitsReverse((1 - d4), (1 - d5), (1 - d6), (1 - d7), 1, 0, 0, 0)
      BY <1>5, ReversedBits
    <3> QED BY <3>1 DEF BitsReverse
  <2>3. /\ 16 + n \div 16 = k /\ 32 - 1 - n \div 16 = k2
        /\ k \in 1..255 /\ k2 \in 1..255 /\ (n % 16 < 8 <=> d3 = 0)
    BY <1>3, <1>4
  <2>4. p \in Nat /\ p2 \in Nat /\ p + p2 = 256 /\ t \in Nat
        /\ (2 * r + 1) * 8 = p + 256 * d3 + 512 * t
    BY <1>4
  <2>5. Twiddle(l, n) = k /\ InverseTwiddle(l, n) = k2
    BY <1>11, <2>3 DEF Twiddle, InverseTwiddle
  <2>6. 256 * d3 = IF n % (2 * l) < l THEN 0 ELSE 256
    BY <1>4, <1>11, <2>3
  <2> HIDE DEF k, k2, p, p2, r, t
  <2>7. (2 * brv[n] + 1) * l = p + (IF n % (2 * l) < l THEN 0 ELSE 256) + 512 * t
    BY <1>6, <1>11, <2>4, <2>6
  <2> QED BY <1>6, <2>1, <2>2, <2>3, <2>4, <2>5, <2>7 DEF Line
<1>12. CASE l = 4
  <2> DEFINE k  == d3 + 2 * d4 + 4 * d5 + 8 * d6 + 16 * d7 + 32 * 1 + 64 * 0 + 128 * 0
             k2 == (1 - d3) + 2 * (1 - d4) + 4 * (1 - d5) + 8 * (1 - d6) + 16 * (1 - d7) + 32 * 1 + 64 * 0 + 128 * 0
             p  == 128 * d3 + 64 * d4 + 32 * d5 + 16 * d6 + 8 * d7 + 4 * 1 + 2 * 0 + 0
             p2 == 128 * (1 - d3) + 64 * (1 - d4) + 32 * (1 - d5) + 16 * (1 - d6) + 8 * (1 - d7) + 4 * 1 + 2 * 0 + 0
             t  == 2 * d0 + d1
  <2>1. brv[k] = p
    <3>1. BitsReverse(d3, d4, d5, d6, d7, 1, 0, 0)
      BY <1>2, <1>5, ReversedBits
    <3> QED BY <3>1 DEF BitsReverse
  <2>2. brv[k2] = p2
    <3>1. BitsReverse((1 - d3), (1 - d4), (1 - d5), (1 - d6), (1 - d7), 1, 0, 0)
      BY <1>5, ReversedBits
    <3> QED BY <3>1 DEF BitsReverse
  <2>3. /\ 32 + n \div 8 = k /\ 64 - 1 - n \div 8 = k2
        /\ k \in 1..255 /\ k2 \in 1..255 /\ (n % 8 < 4 <=> d2 = 0)
    BY <1>3, <1>4
  <2>4. p \in Nat /\ p2 \in Nat /\ p + p2 = 256 /\ t \in Nat
        /\ (2 * r + 1) * 4 = p + 256 * d2 + 512 * t
    BY <1>4
  <2>5. Twiddle(l, n) = k /\ InverseTwiddle(l, n) = k2
    BY <1>12, <2>3 DEF Twiddle, InverseTwiddle
  <2>6. 256 * d2 = IF n % (2 * l) < l THEN 0 ELSE 256
    BY <1>4, <1>12, <2>3
  <2> HIDE DEF k, k2, p, p2, r, t
  <2>7. (2 * brv[n] + 1) * l = p + (IF n % (2 * l) < l THEN 0 ELSE 256) + 512 * t
    BY <1>6, <1>12, <2>4, <2>6
  <2> QED BY <1>6, <2>1, <2>2, <2>3, <2>4, <2>5, <2>7 DEF Line
<1>13. CASE l = 2
  <2> DEFINE k  == d2 + 2 * d3 + 4 * d4 + 8 * d5 + 16 * d6 + 32 * d7 + 64 * 1 + 128 * 0
             k2 == (1 - d2) + 2 * (1 - d3) + 4 * (1 - d4) + 8 * (1 - d5) + 16 * (1 - d6) + 32 * (1 - d7) + 64 * 1 + 128 * 0
             p  == 128 * d2 + 64 * d3 + 32 * d4 + 16 * d5 + 8 * d6 + 4 * d7 + 2 * 1 + 0
             p2 == 128 * (1 - d2) + 64 * (1 - d3) + 32 * (1 - d4) + 16 * (1 - d5) + 8 * (1 - d6) + 4 * (1 - d7) + 2 * 1 + 0
             t  == d0
  <2>1. brv[k] = p
    <3>1. BitsReverse(d2, d3, d4, d5, d6, d7, 1, 0)
      BY <1>2, <1>5, ReversedBits
    <3> QED BY <3>1 DEF BitsReverse
  <2>2. brv[k2] = p2
    <3>1. BitsReverse((1 - d2), (1 - d3), (1 - d4), (1 - d5), (1 - d6), (1 - d7), 1, 0)
      BY <1>5, ReversedBits
    <3> QED BY <3>1 DEF BitsReverse
  <2>3. /\ 64 + n \div 4 = k /\ 128 - 1 - n \div 4 = k2
        /\ k \in 1..255 /\ k2 \in 1..255 /\ (n % 4 < 2 <=> d1 = 0)
    BY <1>3, <1>4
  <2>4. p \in Nat /\ p2 \in Nat /\ p + p2 = 256 /\ t \in Nat
        /\ (2 * r + 1) * 2 = p + 256 * d1 + 512 * t
    BY <1>4
  <2>5. Twiddle(l, n) = k /\ InverseTwiddle(l, n) = k2
    BY <1>13, <2>3 DEF Twiddle, InverseTwiddle
  <2>6. 256 * d1 = IF n % (2 * l) < l THEN 0 ELSE 256
    BY <1>4, <1>13, <2>3
  <2> HIDE DEF k, k2, p, p2, r, t
  <2>7. (2 * brv[n] + 1) * l = p + (IF n % (2 * l) < l THEN 0 ELSE 256) + 512 * t
    BY <1>6, <1>13, <2>4, <2>6
  <2> QED BY <1>6, <2>1, <2>2, <2>3, <2>4, <2>5, <2>7 DEF Line
<1>14. CASE l = 1
  <2> DEFINE k  == d1 + 2 * d2 + 4 * d3 + 8 * d4 + 16 * d5 + 32 * d6 + 64 * d7 + 128 * 1
             k2 == (1 - d1) + 2 * (1 - d2) + 4 * (1 - d3) + 8 * (1 - d4) + 16 * (1 - d5) + 32 * (1 - d6) + 64 * (1 - d7) + 128 * 1
             p  == 128 * d1 + 64 * d2 + 32 * d3 + 16 * d4 + 8 * d5 + 4 * d6 + 2 * d7 + 1
             p2 == 128 * (1 - d1) + 64 * (1 - d2) + 32 * (1 - d3) + 16 * (1 - d4) + 8 * (1 - d5) + 4 * (1 - d6) + 2 * (1 - d7) + 1
             t  == 0
  <2>1. brv[k] = p
    <3>1. BitsReverse(d1, d2, d3, d4, d5, d6, d7, 1)
      BY <1>2, <1>5, ReversedBits
    <3> QED BY <3>1 DEF BitsReverse
  <2>2. brv[k2] = p2
    <3>1. BitsReverse((1 - d1), (1 - d2), (1 - d3), (1 - d4), (1 - d5), (1 - d6), (1 - d7), 1)
      BY <1>5, ReversedBits
    <3> QED BY <3>1 DEF BitsReverse
  <2>3. /\ 128 + n \div 2 = k /\ 256 - 1 - n \div 2 = k2
        /\ k \in 1..255 /\ k2 \in 1..255 /\ (n % 2 < 1 <=> d0 = 0)
    BY <1>3, <1>4
  <2>4. p \in Nat /\ p2 \in Nat /\ p + p2 = 256 /\ t \in Nat
        /\ (2 * r + 1) * 1 = p + 256 * d0 + 512 * t
    BY <1>4
  <2>5. Twiddle(l, n) = k /\ InverseTwiddle(l, n) = k2
    BY <1>14, <2>3 DEF Twiddle, InverseTwiddle
  <2>6. 256 * d0 = IF n % (2 * l) < l THEN 0 ELSE 256
    BY <1>4, <1>14, <2>3
  <2> HIDE DEF k, k2, p, p2, r, t
  <2>7. (2 * brv[n] + 1) * l = p + (IF n % (2 * l) < l THEN 0 ELSE 256) + 512 * t
    BY <1>6, <1>14, <2>4, <2>6
  <2> QED BY <1>6, <2>1, <2>2, <2>3, <2>4, <2>5, <2>7 DEF Line
<1> QED BY <1>7, <1>8, <1>9, <1>10, <1>11, <1>12, <1>13, <1>14 DEF LayerLens

\* The table of ntt.c holds the roots in Montgomery form.
RootTable ==
  /\ Root
  /\ \A k \in 1..255 : zetas[k] \in Int /\ (zetas[k] - R * Power[brv[k]]) % Q = 0

\* The power with which coefficient j counts in the value at root n.
Point(n, j) == PowerAt((2 * brv[n] + 1) * j)

\* The factor of ntt and of invntt_tomont in the block of index n.
Factor(l, n)        == PowerAt(brv[Twiddle(l, n)])
InverseFactor(l, n) == PowerAt(brv[InverseTwiddle(l, n)])

LEMMA PointType ==
  ASSUME Root, NEW n \in 0..255, NEW j \in Nat
  PROVE  Point(n, j) \in Int /\ (2 * brv[n] + 1) * j \in Nat
<1>1. N = 256 /\ 1 \in LayerLens
  BY DEF Root, Numbers, LayerLens
<1>2. brv[n] \in Nat
  <2>1. Line(1, n)
    BY <1>1, LineIs
  <2> QED BY <2>1 DEF Line
<1>3. (2 * brv[n] + 1) * j \in Nat
  BY <1>2, SMT
<1> QED BY <1>3, PowerAtType DEF Point

LEMMA PointAdds ==
  ASSUME Root, NEW n \in 0..255, NEW j \in Nat, NEW l \in Nat
  PROVE  Same(Point(n, j + l), Point(n, j) * Point(n, l))
<1> DEFINE c == 2 * brv[n] + 1
<1>1. N = 256 /\ 1 \in LayerLens
  BY DEF Root, Numbers, LayerLens
<1>2. brv[n] \in Nat
  <2>1. Line(1, n)
    BY <1>1, LineIs
  <2> QED BY <2>1 DEF Line
<1>3. c \in Nat
  BY <1>2
<1> HIDE DEF c
<1>4. c * (j + l) = c * j + c * l /\ c * j \in Nat /\ c * l \in Nat
  BY <1>3, SMT
<1>5. Same(PowerAt(c * j + c * l), PowerAt(c * j) * PowerAt(c * l))
  BY <1>4, PowerLaws
<1> QED BY <1>4, <1>5, Zenon DEF Point, c

LEMMA FactorTypes ==
  ASSUME Root, NEW n \in 0..255, NEW l \in LayerLens
  PROVE  /\ Factor(l, n) \in Int /\ InverseFactor(l, n) \in Int
         /\ Twiddle(l, n) \in 1..255 /\ InverseTwiddle(l, n) \in 1..255
<1>1. N = 256
  BY DEF Root, Numbers
<1>2. /\ brv[Twiddle(l, n)] \in Nat /\ brv[InverseTwiddle(l, n)] \in Nat
      /\ Twiddle(l, n) \in 1..255 /\ InverseTwiddle(l, n) \in 1..255
  <2>1. Line(l, n)
    BY <1>1, LineIs
  <2> QED BY <2>1 DEF Line
<1> QED BY <1>2, PowerAtType DEF Factor, InverseFactor

LEMMA PointFactor ==
  ASSUME Root, NEW n \in 0..255, NEW l \in LayerLens
  PROVE  Same(Point(n, l), IF n % (2 * l) < l THEN Factor(l, n) ELSE -Factor(l, n))
<1>0. N = 256 /\ Q \in Int
  BY DEF Root, Numbers
<1> DEFINE c == (2 * brv[n] + 1) * l
           b == brv[Twiddle(l, n)]
           h == IF n % (2 * l) < l THEN 0 ELSE 256
<1>1. b \in Nat /\ \E t \in Nat : c = b + h + 512 * t
  <2>1. Line(l, n)
    BY <1>0, LineIs
  <2> QED BY <2>1 DEF Line
<1>2. h \in {0, 256}
  OBVIOUS
<1>3. PowerAt(c) = PowerAt(b + h)
  <2> HIDE DEF b, h, c
  <2>1. PICK t \in Nat : c = b + h + 512 * t
    BY <1>1
  <2>2. c % 512 = (b + h) % 512
    BY <1>1, <1>2, <2>1
  <2> QED BY <2>2 DEF PowerAt
<1>4. CASE n % (2 * l) < l
  <2>1. b + h = b
    BY <1>1, <1>4
  <2>2. Point(n, l) = Factor(l, n)
    BY <1>3, <2>1 DEF Point, Factor
  <2> QED BY <1>0, <1>4, <2>2, FactorTypes, SameBasics, ZenonT(60)
<1>5. CASE ~(n % (2 * l) < l)
  <2>1. h = 256
    BY <1>5
  <2> DEFINE F == Factor(l, n)
             H == PowerAt(256)
  <2> HIDE DEF c, b, h
  <2>2. Same(PowerAt(b + 256), PowerAt(b) * H)
    BY <1>1, PowerLaws
  <2>3. Same(H, -1) /\ H \in Int
    BY PowerLaws, PowerAtType
  <2>4. F \in Int /\ F = PowerAt(b)
    BY FactorTypes, ZenonT(60) DEF Factor, b
  <2>5. Point(n, l) = PowerAt(b + 256)
    BY <1>3, <2>1 DEF Point, c
  <2>6. PowerAt(b + 256) \in Int
    BY <1>1, PowerAtType
  <2> HIDE DEF F, H
  <2>7. F * H \in Int /\ F * (-1) = -F /\ -F \in Int
    BY <2>3, <2>4, SMT
  <2>8. Same(F * H, F * (-1))
    <3>1. -1 \in Int
      OBVIOUS
    <3> QED BY <1>0, <2>3, <2>4, <3>1, SameScaled, Zenon
  <2>9. Same(PowerAt(b + 256), -F)
    BY <1>0, <2>2, <2>4, <2>6, <2>7, <2>8, SameBasics
  <2> QED BY <1>5, <2>5, <2>9 DEF F
<1> QED BY <1>4, <1>5

LEMMA FactorInverse ==
  ASSUME Root, NEW n \in 0..255, NEW l \in LayerLens
  PROVE  Same(Factor(l, n) * InverseFactor(l, n), -1)
<1>0. N = 256 /\ Q \in Int
  BY DEF Root, Numbers
<1> DEFINE x == brv[Twiddle(l, n)]
           y == brv[InverseTwiddle(l, n)]
<1>1. x \in Nat /\ y \in Nat /\ x + y = 256
  <2>1. Line(l, n)
    BY <1>0, LineIs
  <2> QED BY <2>1 DEF Line
<1> HIDE DEF x, y
<1>2. Same(PowerAt(x + y), PowerAt(x) * PowerAt(y)) /\ Same(PowerAt(256), -1)
  BY <1>1, PowerLaws
<1>3. PowerAt(x) \in Int /\ PowerAt(y) \in Int /\ PowerAt(256) \in Int /\ -1 \in Int
  BY <1>1, PowerAtType
<1>4. PowerAt(x) * PowerAt(y) \in Int
  BY <1>3, RingLaws
<1>5. Same(PowerAt(256), PowerAt(x) * PowerAt(y))
  BY <1>1, <1>2
<1>6. Same(PowerAt(x) * PowerAt(y), -1)
  BY <1>0, <1>2, <1>3, <1>4, <1>5, SameBasics
<1> QED BY <1>6 DEF Factor, InverseFactor, x, y

-----------------------------------------------------------------------------
\* Where the block of index n begins, when blocks have 2l coefficients.
BlockStart(l, n) == (2 * l) * (n \div (2 * l))

\* Coefficient j of the block and its partner lie in its two halves.
InPlace(l, n, j) ==
  /\ BlockStart(l, n) + j \in 0..255 /\ BlockStart(l, n) + j + l \in 0..255
  /\ (BlockStart(l, n) + j) % (2 * l) < l /\ ~((BlockStart(l, n) + j + l) % (2 * l) < l)
  /\ (BlockStart(l, n) + j) \div (2 * l) = n \div (2 * l)
  /\ (BlockStart(l, n) + j + l) \div (2 * l) = n \div (2 * l)
  /\ l * (n \div l) = BlockStart(l, n) + (IF n % (2 * l) < l THEN 0 ELSE l)

LEMMA PlaceIs ==
  ASSUME NEW n \in 0..255, NEW l \in LayerLens, NEW j \in 0..(l - 1)
  PROVE  InPlace(l, n, j)
<1>1. CASE l = 128 BY <1>1, 2 * l = 256, SMT DEF InPlace, BlockStart
<1>2. CASE l = 64 BY <1>2, 2 * l = 128, SMT DEF InPlace, BlockStart
<1>3. CASE l = 32 BY <1>3, 2 * l = 64, SMT DEF InPlace, BlockStart
<1>4. CASE l = 16 BY <1>4, 2 * l = 32, SMT DEF InPlace, BlockStart
<1>5. CASE l = 8 BY <1>5, 2 * l = 16, SMT DEF InPlace, BlockStart
<1>6. CASE l = 4 BY <1>6, 2 * l = 8, SMT DEF InPlace, BlockStart
<1>7. CASE l = 2 BY <1>7, 2 * l = 4, SMT DEF InPlace, BlockStart
<1>8. CASE l = 1 BY <1>8, 2 * l = 2, SMT DEF InPlace, BlockStart
<1> QED
  BY <1>1, <1>2, <1>3, <1>4, <1>5, <1>6, <1>7, <1>8, SMT DEF LayerLens

\* The entries of the table that Zeta and InverseZeta take, as factors.
LEMMA ZetaSame ==
  ASSUME RootTable, len \in LayerLens, NEW n \in 0..255,
         NEW x \in 0..255, x \div (2 * len) = n \div (2 * len)
  PROVE  /\ Zeta(x) \in Int /\ Same(Zeta(x), R * Factor(len, n))
         /\ InverseZeta(x) \in Int /\ Same(InverseZeta(x), R * (-InverseFactor(len, n)))
<1>0. Root /\ N = 256 /\ Q \in Nat \ {0} /\ R \in Int
  BY DEF RootTable, Root, Numbers
<1> DEFINE k == Twiddle(len, n)
           r == InverseTwiddle(len, n)
<1>1. Zeta(x) = zetas[k] /\ InverseZeta(x) = -zetas[r]
  BY <1>0, Zenon DEF Zeta, InverseZeta, Twiddle, InverseTwiddle
<1>2. k \in 1..255 /\ r \in 1..255 /\ Factor(len, n) \in Int /\ InverseFactor(len, n) \in Int
  BY <1>0, FactorTypes, ZenonT(60)
<1>3. Line(len, n)
  BY <1>0, LineIs
<1>4. brv[k] \in Nat /\ brv[r] \in Nat /\ brv[k] < 512 /\ brv[r] < 512
  BY <1>3 DEF Line
<1> HIDE DEF k, r
<1>5. Factor(len, n) = Power[brv[k]] /\ InverseFactor(len, n) = Power[brv[r]]
  <2>1. brv[k] % 512 = brv[k] /\ brv[r] % 512 = brv[r]
    BY <1>4
  <2> QED BY <2>1, ZenonT(60) DEF Factor, InverseFactor, PowerAt, k, r
<1> DEFINE F == Factor(len, n)
           G == InverseFactor(len, n)
           y == zetas[k]
           z == zetas[r]
<1>6. y \in Int /\ z \in Int /\ (y - R * F) % Q = 0 /\ (z - R * G) % Q = 0
  BY <1>2, <1>5 DEF RootTable
<1>7. F \in Int /\ G \in Int
  BY <1>2
<1> HIDE DEF F, G, y, z
<1>8. R * F \in Int /\ R * G \in Int /\ R * (-G) = -(R * G) /\ -(R * G) \in Int /\ -z \in Int
  BY <1>0, <1>6, <1>7, RingLaws
<1>9. Same(y, R * F) /\ Same(z, R * G)
  BY <1>0, <1>6, <1>8, SameRemainder
<1>10. Same(0 - z, 0 - R * G)
  <2>1. 0 \in Int /\ Same(0, 0) /\ Q \in Int
    BY <1>0, SameBasics
  <2> QED BY <1>6, <1>8, <1>9, <2>1, SameAdds
<1>11. 0 - z = -z /\ 0 - R * G = R * (-G)
  BY <1>6, <1>8
<1>12. Same(-z, R * (-G))
  BY <1>10, <1>11
<1> QED BY <1>1, <1>6, <1>8, <1>9, <1>12 DEF F, G, y, z

\* The coefficients of q are the sums and the differences that a layer with
\* blocks of 2 * l makes of p, modulo Q, in the block of index n.
PairAt(p, q, l, n, x) ==
  /\ Same(q[x], p[x] + Factor(l, n) * p[x + l])
  /\ Same(q[x + l], p[x] - Factor(l, n) * p[x + l])

Pairs(p, q, l, n) == \A j \in 0..(l - 1) : PairAt(p, q, l, n, BlockStart(l, n) + j)

\* A layer of ntt: a block of 2 * len becomes two, whose coefficients are the
\* sums and the differences.
LEMMA LayerAt ==
  ASSUME RootTable, len \in LayerLens, NEW p \in [0..255 -> Int], NEW n \in 0..255,
         NEW j \in 0..(len - 1)
  PROVE  PairAt(p, Layer(p), len, n, BlockStart(len, n) + j)
<1>0. Numbers /\ Root /\ Idx = 0..255 /\ len \in Nat /\ Q \in Int
  BY DEF RootTable, Root, Numbers, Idx, LayerLens
<1> DEFINE x == BlockStart(len, n) + j
<1>1. InPlace(len, n, j)
  BY PlaceIs
<1>2. /\ x \in 0..255 /\ x + len \in 0..255 /\ IsLow(x) /\ ~IsLow(x + len)
      /\ x \div (2 * len) = n \div (2 * len) /\ (x + len) \div (2 * len) = n \div (2 * len)
  BY <1>1 DEF InPlace, IsLow
<1> HIDE DEF x
<1> DEFINE F == Factor(len, n)
           q == p[x + len]
           s == montgomery_reduce(Zeta(x) * q)
           t == montgomery_reduce(Zeta(x + len) * q)
<1>3. (x + len) - len = x
  BY <1>0, <1>2
<1>4. Layer(p)[x] = p[x] + s /\ Layer(p)[x + len] = p[x] - t
  BY <1>0, <1>2, <1>3, Zenon DEF Layer, Butterfly
<1>5. F \in Int /\ q \in Int /\ p[x] \in Int
  BY <1>0, <1>2, FactorTypes, ZenonT(60)
<1>6. /\ Zeta(x) \in Int /\ Same(Zeta(x), R * F)
      /\ Zeta(x + len) \in Int /\ Same(Zeta(x + len), R * F)
  BY <1>2, ZetaSame, ZenonT(60)
<1> HIDE DEF F, q
<1>7. s \in Int /\ Same(s, F * q) /\ t \in Int /\ Same(t, F * q)
  BY <1>0, <1>5, <1>6, TwiddleSame
<1>8. F * q \in Int
  BY <1>5, RingLaws
<1> HIDE DEF s, t
<1>9. Same(p[x], p[x])
  BY <1>0, <1>5, SMTT(60), SameBasics
<1>10. Same(p[x] + s, p[x] + F * q) /\ Same(p[x] - t, p[x] - F * q)
  BY <1>0, <1>5, <1>7, <1>8, <1>9, SameAdds
<1>11. /\ Same(Layer(p)[x], p[x] + F * q) /\ Same(Layer(p)[x + len], p[x] - F * q)
  BY <1>4, <1>10, Zenon
<1>12. PairAt(p, Layer(p), len, n, x)
  BY <1>11, Zenon DEF PairAt, F, q
<1> QED BY <1>12 DEF x

\* A layer of invntt_tomont: the sum of a pair, and the difference divided by
\* the factor of ntt.
PairBack(p, n, x) ==
  /\ InverseButterfly(p, x) = p[x] + p[x + len]
  /\ InverseButterfly(p, x + len) \in Int
  /\ Same(InverseButterfly(p, x + len), (-InverseFactor(len, n)) * (p[x] - p[x + len]))

LEMMA InverseLayerAt ==
  ASSUME RootTable, len \in LayerLens, NEW p \in [0..255 -> Int], NEW n \in 0..255,
         NEW j \in 0..(len - 1), NEW x, x = BlockStart(len, n) + j
  PROVE  PairBack(p, n, x)
<1>0. Numbers /\ Root /\ Idx = 0..255 /\ len \in Nat /\ Q \in Int
  BY DEF RootTable, Root, Numbers, Idx, LayerLens
<1>1. InPlace(len, n, j)
  BY PlaceIs
<1>2. /\ x \in 0..255 /\ x + len \in 0..255 /\ IsLow(x) /\ ~IsLow(x + len)
      /\ (x + len) \div (2 * len) = n \div (2 * len)
  BY <1>1 DEF InPlace, IsLow
<1> DEFINE F == -InverseFactor(len, n)
           q == p[x] - p[x + len]
           s == montgomery_reduce(InverseZeta(x + len) * q)
<1>3. (x + len) - len = x
  BY <1>0, <1>2
<1>4. InverseButterfly(p, x) = p[x] + p[x + len] /\ InverseButterfly(p, x + len) = s
  BY <1>0, <1>2, <1>3, Zenon DEF InverseButterfly
<1>5. F \in Int /\ q \in Int
  <2>1. InverseFactor(len, n) \in Int
    BY <1>0, FactorTypes, ZenonT(60)
  <2>2. p[x] \in Int /\ p[x + len] \in Int
    BY <1>2
  <2> QED BY <2>1, <2>2
<1>6. InverseZeta(x + len) \in Int /\ Same(InverseZeta(x + len), R * F)
  BY <1>2, ZetaSame, ZenonT(60)
<1> HIDE DEF F, q
<1>7. s \in Int /\ Same(s, F * q)
  BY <1>0, <1>5, <1>6, TwiddleSame
<1> QED BY <1>4, <1>7, Zenon DEF F, q, PairBack

-----------------------------------------------------------------------------
(***************************************************************************)
(* The transform in the middle: after some layers a polynomial is given by *)
(* its remainders, with c coefficients each, and PartValue is the value at *)
(* root n of the remainder that n is a root of.                            *)
(***************************************************************************)
PartTerms(p, c, n) == [j \in 0..(c - 1) |-> p[c * (n \div c) + j] * Point(n, j)]

PartValue(p, c, n) == SumFunction(PartTerms(p, c, n))

LEMMA RangeFinite ==
  ASSUME NEW c \in Nat
  PROVE  IsFiniteSet(0..(c - 1))
BY FS_Interval

\* The terms of PartValue for blocks of 2 * l and of l.
PartIndex(l, n, j, x) ==
  /\ l \in Nat /\ j \in Nat /\ j \in 0..(2 * l - 1) /\ j + l \in 0..(2 * l - 1)
  /\ (2 * l) * (n \div (2 * l)) + j = x
  /\ (2 * l) * (n \div (2 * l)) + (j + l) = x + l
  /\ l * (n \div l) + j = IF n % (2 * l) < l THEN x ELSE x + l
  /\ x \in 0..255 /\ x + l \in 0..255

LEMMA PartIndices ==
  ASSUME NEW n \in 0..255, NEW l \in LayerLens, NEW j \in 0..(l - 1)
  PROVE  PartIndex(l, n, j, BlockStart(l, n) + j)
<1>1. l \in Nat \ {0} /\ j \in Nat
  BY DEF LayerLens
<1>2. InPlace(l, n, j)
  BY PlaceIs
<1> DEFINE b == BlockStart(l, n)
           c == l * (n \div l)
           x == b + j
<1>3. b \in Int
  BY <1>1, SMT DEF BlockStart
<1>4. c = b + (IF n % (2 * l) < l THEN 0 ELSE l)
      /\ x \in 0..255 /\ x + l \in 0..255
  BY <1>2 DEF InPlace
<1>5. (2 * l) * (n \div (2 * l)) = b
  BY DEF BlockStart
<1> HIDE DEF b, c
<1>6. b + (j + l) = x + l /\ j + l \in 0..(2 * l - 1) /\ j \in 0..(2 * l - 1)
  BY <1>1, <1>3
<1>7. c + j = IF n % (2 * l) < l THEN x ELSE x + l
  <2>1. CASE n % (2 * l) < l
    BY <1>1, <1>3, <1>4, <2>1
  <2>2. CASE ~(n % (2 * l) < l)
    BY <1>1, <1>3, <1>4, <2>2
  <2> QED BY <2>1, <2>2
<1>8. (2 * l) * (n \div (2 * l)) + j = x /\ (2 * l) * (n \div (2 * l)) + (j + l) = x + l
  BY <1>5, <1>6, Zenon
<1> HIDE DEF x
<1>9. PartIndex(l, n, j, x)
  BY <1>1, <1>4, <1>6, <1>7, <1>8, Zenon DEF PartIndex, c
<1> QED BY <1>9 DEF x, b

\* PartValue of blocks of 2 * l as a sum over half of them.
HalfTerm(p, l, n, j) ==
  p[BlockStart(l, n) + j] * Point(n, j) + p[(BlockStart(l, n) + j) + l] * Point(n, j + l)

HalfTerms(p, l, n) == [j \in 0..(l - 1) |-> HalfTerm(p, l, n, j)]

LEMMA PartHalves ==
  ASSUME Root, NEW l \in LayerLens, NEW n \in 0..255, NEW p \in [0..255 -> Int]
  PROVE  /\ HalfTerms(p, l, n) \in [0..(l - 1) -> Int]
         /\ PartValue(p, 2 * l, n) = SumFunction(HalfTerms(p, l, n))
         /\ PartTerms(p, l, n) \in [0..(l - 1) -> Int]
<1>0. l \in Nat
  BY DEF LayerLens
<1> DEFINE S == 0..(l - 1)
           U == 0..(2 * l - 1)
           F == PartTerms(p, 2 * l, n)
           H == [j \in S |-> HalfTerm(p, l, n, j)]
<1>1. IsHalf(S, U, l)
  BY <1>0 DEF IsHalf
<1>2. ASSUME NEW j \in S
      PROVE  H[j] = F[j] + F[j + l] /\ F[j] \in Int /\ F[j + l] \in Int
             /\ PartTerms(p, l, n)[j] \in Int
  <2> DEFINE x == BlockStart(l, n) + j
  <2>1. /\ j \in Nat /\ j \in U /\ j + l \in U /\ x \in 0..255 /\ x + l \in 0..255
        /\ (2 * l) * (n \div (2 * l)) + j = x /\ (2 * l) * (n \div (2 * l)) + (j + l) = x + l
        /\ l * (n \div l) + j \in 0..255
    <3>1. PartIndex(l, n, j, x)
      BY PartIndices
    <3> HIDE DEF x
    <3> QED BY <3>1, Zenon DEF PartIndex
  <2> HIDE DEF x
  <2>2. F[j] = p[x] * Point(n, j) /\ F[j + l] = p[x + l] * Point(n, j + l)
    BY <2>1, Zenon DEF PartTerms
  <2>3. p[x] \in Int /\ p[x + l] \in Int /\ Point(n, j) \in Int /\ Point(n, j + l) \in Int
    <3>1. j + l \in Nat
      BY <1>0, <2>1
    <3> QED BY <2>1, <3>1, PointType, ZenonT(60)
  <2>4. F[j] \in Int /\ F[j + l] \in Int
    BY <2>2, <2>3, RingLaws
  <2>5. H[j] = F[j] + F[j + l]
    BY <2>2 DEF HalfTerm, x
  <2>6. PartTerms(p, l, n)[j] = p[l * (n \div l) + j] * Point(n, j)
    BY Zenon DEF PartTerms
  <2>7. p[l * (n \div l) + j] \in Int
    BY <2>1
  <2>8. PartTerms(p, l, n)[j] \in Int
    BY <2>3, <2>6, <2>7, RingLaws
  <2> QED BY <2>4, <2>5, <2>8
<1>3. H \in [S -> Int]
  <2>1. \A j \in S : H[j] \in Int
    BY <1>2
  <2>2. H = [j \in S |-> H[j]]
    OBVIOUS
  <2> HIDE DEF H
  <2> QED BY <2>1, <2>2
<1>4. F \in [U -> Int]
  <2>1. \A e \in U : F[e] \in Int
    <3> TAKE e \in U
    <3>1. CASE e \in S
      BY <1>2, <3>1
    <3>2. CASE e \notin S
      <4>1. e - l \in S /\ (e - l) + l = e
        BY <1>0, <3>2
      <4> HIDE DEF F
      <4>2. F[(e - l) + l] \in Int
        BY <1>2, <4>1
      <4> QED BY <4>1, <4>2
    <3> QED BY <3>1, <3>2
  <2>2. F = [e \in U |-> F[e]]
    BY DEF PartTerms
  <2> HIDE DEF F
  <2> QED BY <2>1, <2>2
<1>5. PartTerms(p, l, n) \in [S -> Int]
  <2>1. PartTerms(p, l, n) = [j \in S |-> PartTerms(p, l, n)[j]]
    BY DEF PartTerms
  <2> QED BY <1>2, <2>1
<1> HIDE DEF F, H, S, U
<1>6. SumFunction(F) = SumFunction(H)
  BY <1>1, <1>2, <1>3, <1>4, SumHalves
<1> QED BY <1>3, <1>5, <1>6 DEF F, H, S, PartValue, HalfTerms

\* The algebra of one pair of coefficients in a layer of ntt.
LEMMA PairSame ==
  ASSUME Q \in Int, NEW x \in Int, NEW y \in Int, NEW z \in Int, NEW g \in Int,
         NEW P \in Int, NEW P1 \in Int, NEW P2 \in Int,
         Same(P1, g), Same(P2, P * P1), Same(z, x + g * y)
  PROVE  Same(z * P, x * P + y * P2)
<1>0. P * P1 \in Int /\ P * g \in Int /\ g * y \in Int /\ x + g * y \in Int
      /\ x * P \in Int /\ y * (P * g) \in Int /\ y * P2 \in Int /\ z * P \in Int
      /\ (x + g * y) * P = x * P + y * (P * g)
  BY SMT
<1>1. Same(P * P1, P * g)
  BY SameScaled
<1>2. Same(P2, P * g)
  BY <1>0, <1>1, SameBasics
<1>3. Same(y * P2, y * (P * g))
  BY <1>0, <1>2, SameScaled
<1>4. Same(x * P, x * P)
  BY <1>0, SameBasics
<1>5. Same(x * P + y * P2, x * P + y * (P * g))
  BY <1>0, <1>3, <1>4, SameAdds
<1>6. Same(z * P, (x + g * y) * P)
  BY <1>0, SameScaled
<1>7. Same(z * P, x * P + y * (P * g))
  BY <1>0, <1>6
<1>8. x * P + y * P2 \in Int /\ x * P + y * (P * g) \in Int
  BY <1>0
<1> HIDE <1>0
<1>9. z * P \in Int
  BY RingLaws
<1> DEFINE A == z * P
           B == x * P + y * P2
           C == x * P + y * (P * g)
<1> HIDE DEF A, B, C
<1>10. Same(A, C) /\ Same(B, C) /\ A \in Int /\ B \in Int /\ C \in Int
  BY <1>5, <1>7, <1>8, <1>9 DEF A, B, C
<1>11. Same(A, B)
  BY <1>10, SameBasics
<1> QED BY <1>11 DEF A, B

\* That of a pair in a layer of invntt_tomont: c is 1 for the sum that is left
\* in the lower half, -1 for the difference in the upper one.
LEMMA InversePairSame ==
  ASSUME Q \in Int, NEW x \in Int, NEW y \in Int, NEW z \in Int,
         NEW F \in Int, NEW G \in Int, NEW c \in {1, -1}, NEW g, g = c * F,
         NEW P \in Int, NEW P1 \in Int, NEW P2 \in Int,
         Same(P1, g), Same(P2, P * P1), Same(z, (-G) * (x - y)), Same(F * G, -1)
  PROVE  Same((x + y) * P + z * P2, 2 * ((IF c = 1 THEN x ELSE y) * P))
<1> DEFINE D == (-G) * (x - y)
           K == (-c) * ((x - y) * P)
<1>0. g \in Int /\ D \in Int /\ K \in Int /\ x - y \in Int /\ F * G \in Int
  BY SMT
<1>1. P * P1 \in Int /\ P * g \in Int /\ D * (P * g) \in Int /\ z * P2 \in Int
  BY <1>0, RingLaws
<1>2. Same(P2, P * g)
  <2>1. Same(P * P1, P * g)
    BY <1>0, SameScaled
  <2> QED BY <1>1, <2>1, SameBasics
<1>3. Same(z * P2, D * (P * g))
  BY <1>0, <1>1, <1>2, SameTimes
<1>4. D * (P * g) = (F * G) * K
  <2>1. CASE c = 1
    <3>1. g = F
      BY <2>1
    <3> QED BY <2>1, <3>1, SMT
  <2>2. CASE c = -1
    <3>1. g = -F
      BY <2>2
    <3> QED BY <2>2, <3>1, SMT
  <2> QED BY <2>1, <2>2
<1>5. Same((F * G) * K, (-1) * K) /\ (F * G) * K \in Int /\ (-1) * K \in Int
  <2> HIDE DEF K
  <2>1. -1 \in Int
    OBVIOUS
  <2> QED BY <1>0, <2>1, SameScaled, RingLaws
<1> HIDE DEF D
<1>6. Same(z * P2, (-1) * K)
  <2>1. Same(z * P2, (F * G) * K)
    BY <1>3, <1>4, Zenon
  <2> HIDE DEF K
  <2> QED BY <1>1, <1>5, <2>1, SameBasics
<1>7. (x + y) * P + (-1) * K = 2 * ((IF c = 1 THEN x ELSE y) * P)
  <2>1. CASE c = 1
    BY <2>1, SMT
  <2>2. CASE c = -1
    BY <2>2, SMT
  <2> QED BY <2>1, <2>2
<1>8. (x + y) * P \in Int
  BY SMT
<1> DEFINE L == (x + y) * P
           M == z * P2
           Z == (-1) * K
<1>9. L \in Int /\ M \in Int /\ Z \in Int /\ Same(M, Z) /\ Same(L, L)
  BY <1>1, <1>5, <1>6, <1>8, SameBasics
<1> HIDE DEF L, M, Z, K
<1>10. Same(L + M, L + Z)
  BY <1>9, SameAdds
<1> QED BY <1>7, <1>10 DEF L, M, Z

\* Such a pair of layers has the same values, whatever the representatives.
LEMMA PairsValue ==
  ASSUME Root, NEW l \in LayerLens, NEW p \in [0..255 -> Int], NEW q \in [0..255 -> Int],
         NEW n \in 0..255, Pairs(p, q, l, n)
  PROVE  Same(PartValue(q, l, n), PartValue(p, 2 * l, n))
<1>q. Q \in Int
  BY DEF Root, Numbers
<1>n. l \in Nat
  BY DEF LayerLens
<1>0. Root /\ Q \in Int /\ l \in Nat
  BY <1>q, <1>n
<1> DEFINE H == HalfTerms(p, l, n)
           T == PartTerms(q, l, n)
<1>1. H \in [0..(l - 1) -> Int] /\ PartValue(p, 2 * l, n) = SumFunction(H)
  BY <1>0, PartHalves, ZenonT(60)
<1>2. T \in [0..(l - 1) -> Int]
  BY <1>0, PartHalves, ZenonT(60)
<1>3. ASSUME NEW j \in 0..(l - 1) PROVE Same(T[j], H[j])
  <2> DEFINE x  == BlockStart(l, n) + j
             F  == Factor(l, n)
             g  == IF n % (2 * l) < l THEN F ELSE -F
             y  == IF n % (2 * l) < l THEN x ELSE x + l
             P  == Point(n, j)
             P1 == Point(n, l)
             P2 == Point(n, j + l)
             z  == q[y]
  <2>1. /\ j \in Nat /\ j + l \in Nat /\ x \in 0..255 /\ x + l \in 0..255
        /\ l * (n \div l) + j = y
    <3>1. PartIndex(l, n, j, x)
      BY PartIndices
    <3>2. j \in Nat /\ j + l \in Nat
      BY <1>0
    <3> HIDE DEF x
    <3> QED BY <3>1, <3>2, Zenon DEF PartIndex
  <2>2. T[j] = z * P /\ H[j] = p[x] * P + p[x + l] * P2
    BY <2>1, ZenonT(60) DEF PartTerms, HalfTerms, HalfTerm
  <2>3. P \in Int /\ P1 \in Int /\ P2 \in Int /\ F \in Int
    BY <1>0, <2>1, PointType, FactorTypes, ZenonT(60)
  <2>4. Same(P1, g) /\ Same(P2, P * P1)
    BY <1>0, <2>1, PointFactor, PointAdds, ZenonT(60)
  <2>5. PairAt(p, q, l, n, x)
    BY DEF Pairs
  <2>e. Same(q[x], p[x] + F * p[x + l]) /\ Same(q[x + l], p[x] - F * p[x + l])
    BY <2>5, ZenonT(60) DEF PairAt
  <2> HIDE DEF x, F, P, P1, P2
  <2>6. p[x] \in Int /\ p[x + l] \in Int /\ g \in Int /\ z \in Int
    <3>1. p[x] \in Int /\ p[x + l] \in Int /\ q[x] \in Int /\ q[x + l] \in Int
      BY <2>1
    <3>2. g \in Int
      BY <2>3
    <3>3. z \in Int
      BY <3>1, Zenon
    <3> QED BY <3>1, <3>2, <3>3
  <2>7. Same(z, p[x] + g * p[x + l])
    <3>1. CASE n % (2 * l) < l
      BY <2>e, <3>1, ZenonT(60)
    <3>2. CASE ~(n % (2 * l) < l)
      <4>1. g * p[x + l] = -(F * p[x + l]) /\ F * p[x + l] \in Int
        BY <2>3, <2>6, <3>2, RingLaws
      <4>2. p[x] + g * p[x + l] = p[x] - F * p[x + l]
        BY <2>6, <4>1
      <4>3. z = q[x + l]
        BY <3>2
      <4> QED BY <2>e, <4>2, <4>3, ZenonT(60)
    <3> QED BY <3>1, <3>2, ZenonT(60)
  <2> HIDE DEF g, y, z
  <2>8. Same(z * P, p[x] * P + p[x + l] * P2)
    BY <1>0, <2>3, <2>4, <2>6, <2>7, PairSame
  <2> QED BY <2>2, <2>8
<1>4. IsFiniteSet(0..(l - 1))
  BY <1>0, RangeFinite
<1> HIDE DEF H, T
<1>5. Same(SumFunction(T), SumFunction(H))
  BY <1>0, <1>1, <1>2, <1>3, <1>4, SameSums, ZenonT(60)
<1> QED BY <1>1, <1>5 DEF PartValue, T

\* A layer of ntt leaves the values: those of the remainders of half as many
\* coefficients are those of the remainders before.
LEMMA LayerValue ==
  ASSUME RootTable, len \in LayerLens, NEW p \in [0..255 -> Int], NEW n \in 0..255,
         Layer(p) \in [0..255 -> Int]
  PROVE  Same(PartValue(Layer(p), len, n), PartValue(p, 2 * len, n))
<1>1. \A j \in 0..(len - 1) : PairAt(p, Layer(p), len, n, BlockStart(len, n) + j)
  BY LayerAt
<1> QED BY <1>1, PairsValue, ZenonT(60) DEF RootTable, Pairs

\* A layer of invntt_tomont goes back, and doubles them.
LEMMA InverseLayerValue ==
  ASSUME RootTable, len \in LayerLens, NEW p \in [0..255 -> Int], NEW n \in 0..255,
         NEW q \in [0..255 -> Int], \A x \in 0..255 : q[x] = InverseButterfly(p, x)
  PROVE  Same(PartValue(q, 2 * len, n), 2 * PartValue(p, len, n))
<1>r. Root
  BY ZenonT(60) DEF RootTable
<1>q. Q \in Int
  BY <1>r DEF Root, Numbers
<1>n. len \in Nat
  BY DEF LayerLens
<1>0. Root /\ Q \in Int /\ len \in Nat
  BY <1>r, <1>q, <1>n
<1> DEFINE S == 0..(len - 1)
           H == HalfTerms(q, len, n)
           T == PartTerms(p, len, n)
           D == [j \in S |-> 2 * T[j]]
<1>1. H \in [S -> Int] /\ PartValue(q, 2 * len, n) = SumFunction(H)
  BY <1>0, PartHalves, ZenonT(60)
<1>2. T \in [S -> Int]
  BY <1>0, PartHalves, ZenonT(60)
<1>d. D \in [S -> Int] /\ \A j \in S : D[j] = 2 * T[j]
  <2> HIDE DEF S, T
  <2>1. \A j \in S : 2 * T[j] \in Int
    BY <1>2
  <2> QED BY <2>1
<1>3. ASSUME NEW j \in S PROVE Same(H[j], D[j])
  <2> DEFINE x  == BlockStart(len, n) + j
             F  == Factor(len, n)
             G  == InverseFactor(len, n)
             c  == IF n % (2 * len) < len THEN 1 ELSE -1
             g  == c * F
             y  == IF n % (2 * len) < len THEN x ELSE x + len
             P  == Point(n, j)
             P1 == Point(n, len)
             P2 == Point(n, j + len)
  <2>1. /\ j \in Nat /\ j + len \in Nat /\ x \in 0..255 /\ x + len \in 0..255
        /\ len * (n \div len) + j = y
    <3>1. PartIndex(len, n, j, x)
      BY PartIndices
    <3>2. j \in Nat /\ j + len \in Nat
      BY <1>0
    <3> HIDE DEF x
    <3> QED BY <3>1, <3>2, Zenon DEF PartIndex
  <2>2. T[j] = p[y] * P /\ H[j] = q[x] * P + q[x + len] * P2
    BY <2>1, Zenon DEF PartTerms, HalfTerms, HalfTerm
  <2>3. P \in Int /\ P1 \in Int /\ P2 \in Int /\ F \in Int /\ G \in Int
    BY <1>0, <2>1, PointType, FactorTypes, ZenonT(60)
  <2>4. Same(P1, g) /\ Same(P2, P * P1)
    <3>1. Same(P1, IF n % (2 * len) < len THEN F ELSE -F)
      BY <1>0, PointFactor, ZenonT(60)
    <3>2. g = IF n % (2 * len) < len THEN F ELSE -F
      BY <2>3, RingLaws
    <3> QED BY <1>0, <2>1, <3>1, <3>2, PointAdds
  <2>5. /\ q[x] = p[x] + p[x + len]
        /\ q[x + len] \in Int /\ Same(q[x + len], (-G) * (p[x] - p[x + len]))
    <3>1. x = BlockStart(len, n) + j
      OBVIOUS
    <3> HIDE DEF x
    <3>2. /\ InverseButterfly(p, x) = p[x] + p[x + len]
          /\ InverseButterfly(p, x + len) \in Int
          /\ Same(InverseButterfly(p, x + len), (-G) * (p[x] - p[x + len]))
      <4>1. PairBack(p, n, x)
        BY <3>1, InverseLayerAt
      <4> QED BY <4>1, Zenon DEF PairBack
    <3>3. q[x] = InverseButterfly(p, x) /\ q[x + len] = InverseButterfly(p, x + len)
      BY <2>1
    <3> QED BY <3>2, <3>3, Zenon
  <2>6. Same(F * G, -1)
    BY <1>0, FactorInverse
  <2>7. c \in {1, -1} /\ y = (IF c = 1 THEN x ELSE x + len)
    OBVIOUS
  <2> HIDE DEF x, F, G, P, P1, P2, c, g, y
  <2>8. p[x] \in Int /\ p[x + len] \in Int
    BY <2>1
  <2>9. g = c * F
    BY DEF g
  <2>10. Same((p[x] + p[x + len]) * P + q[x + len] * P2,
              2 * ((IF c = 1 THEN p[x] ELSE p[x + len]) * P))
    BY <1>0, <2>3, <2>4, <2>5, <2>6, <2>7, <2>8, <2>9, InversePairSame, ZenonT(60)
  <2>11. p[y] = IF c = 1 THEN p[x] ELSE p[x + len]
    BY <2>7
  <2> HIDE DEF H, T
  <2> QED BY <2>2, <2>5, <2>10, <2>11, ZenonT(60)
<1>4. IsFiniteSet(S)
  BY <1>0, RangeFinite
<1> HIDE DEF H, T, D, S
<1>5. Same(SumFunction(H), SumFunction(D))
  BY <1>0, <1>1, <1>d, <1>3, <1>4, SameSums
<1>6. SumFunction(D) = 2 * SumFunction(T)
  BY <1>2, <1>d, <1>4, SumScales
<1> QED BY <1>1, <1>5, <1>6 DEF PartValue, T

LEMMA ValueType ==
  ASSUME Root, NEW n \in 0..255, NEW p \in [0..255 -> Int]
  PROVE  /\ PartTerms(p, 256, n) \in [0..255 -> Int]
         /\ PartValue(p, 256, n) \in Int
         /\ ValueAt(p, n) \in Int /\ Same(ValueAt(p, n), PartValue(p, 256, n))
<1>0. Idx = 0..255 /\ 2 * N = 512 /\ Q \in Nat \ {0}
  BY DEF Idx, Root, Numbers
<1> DEFINE F == PartTerms(p, 256, n)
           V == [j \in Idx |-> p[j] * Power[((2 * brv[n] + 1) * j) % (2 * N)]]
<1>1. ASSUME NEW j \in Idx
      PROVE  F[j] = V[j] /\ F[j] \in Int
  <2>1. j \in 0..255 /\ j \in 0..(256 - 1) /\ 256 * (n \div 256) + j = j /\ j \in Nat
    BY <1>0
  <2>2. F[j] = p[256 * (n \div 256) + j] * Point(n, j)
    BY <2>1, ZenonT(60) DEF PartTerms
  <2>3. F[j] = p[j] * Point(n, j)
    BY <2>1, <2>2
  <2>4. Point(n, j) \in Int /\ p[j] \in Int
    BY <2>1, PointType
  <2>5. V[j] = p[j] * Power[((2 * brv[n] + 1) * j) % (2 * N)]
    OBVIOUS
  <2>6. Point(n, j) = Power[((2 * brv[n] + 1) * j) % (2 * N)]
    BY <1>0 DEF Point, PowerAt
  <2> HIDE DEF F, V
  <2>7. F[j] = V[j]
    BY <2>3, <2>5, <2>6
  <2>8. F[j] \in Int
    BY <2>3, <2>4, RingLaws
  <2> QED BY <2>7, <2>8
<1>2. F = [j \in Idx |-> F[j]] /\ V = [j \in Idx |-> V[j]]
  BY <1>0 DEF PartTerms
<1> HIDE DEF F, V
<1>3. F \in [Idx -> Int] /\ F = V
  BY <1>1, <1>2
<1>4. PartValue(p, 256, n) \in Int
  BY <1>3, IdxFinite, SumType DEF PartValue, F
<1>5. ValueAt(p, n) = PartValue(p, 256, n) % Q
  BY <1>3, Zenon DEF ValueAt, PartValue, F, V
<1>6. ValueAt(p, n) \in Int /\ Same(ValueAt(p, n), PartValue(p, 256, n))
  <2> DEFINE x == PartValue(p, 256, n)
  <2>1. x \in Int
    BY <1>4
  <2> HIDE DEF x
  <2>2. x % Q \in Int /\ Same(x % Q, x)
    BY <1>0, <2>1, SameRemainder
  <2> QED BY <1>5, <2>2 DEF x
<1> QED BY <1>0, <1>3, <1>4, <1>6 DEF F

\* The value of a remainder that is a number.
LEMMA ValueOfOne ==
  ASSUME Root, NEW n \in 0..255, NEW p \in [0..255 -> Int]
  PROVE  PartValue(p, 1, n) = p[n]
<1> DEFINE T == PartTerms(p, 1, n)
<1>1. T[0] = p[n]
  <2>1. 0 \in 0..(1 - 1) /\ 1 * (n \div 1) + 0 = n
    OBVIOUS
  <2>2. T[0] = p[n] * Point(n, 0)
    BY <2>1 DEF PartTerms
  <2>3. Point(n, 0) = 1
    <3>1. (2 * brv[n] + 1) * 0 = 0
      <4>1. 1 \in LayerLens /\ N = 256
        BY DEF LayerLens, Root, Numbers
      <4>2. Line(1, n)
        BY <4>1, LineIs
      <4>3. brv[n] \in Nat
        BY <4>2 DEF Line
      <4> QED BY <4>3
    <3> QED BY <3>1, PowerAtZero DEF Point
  <2>4. p[n] \in Int
    OBVIOUS
  <2> HIDE DEF T
  <2> QED BY <2>2, <2>3, <2>4
<1>2. T = [j \in {0} |-> T[j]]
  <2>1. 0..(1 - 1) = {0}
    OBVIOUS
  <2> QED BY <2>1, SMT DEF PartTerms
<1>3. T[0] \in Int
  BY <1>1
<1> HIDE DEF T
<1>4. T \in [{0} -> Int]
  BY <1>2, <1>3, SMT
<1> DEFINE S == {0}
<1>5. IsFiniteSet(S) /\ 0 \in S /\ T \in [S -> Int] /\ \A s \in S : s # 0 => T[s] = 0
  BY <1>4, FS_Singleton
<1> HIDE DEF S
<1>6. SumFunction(T) = T[0]
  BY <1>5, SumOne
<1> QED BY <1>1, <1>6 DEF PartValue, T

-----------------------------------------------------------------------------
\* The sum of products, term by term.
UptoTerms(c, n) == [k \in DOMAIN sum |-> IF k <= c THEN TermAt(sum[k], n) ELSE 0]

AllTerms(n) == [k \in DOMAIN sum |-> TermAt(sum[k], n)]

\* The sums of MLDSA44Roots.
SumKnown ==
  /\ Len(sum) \in 1..5 /\ DOMAIN sum = 1..Len(sum) /\ ~sum[1].minus
  /\ \A k \in DOMAIN sum : sum[k].u \in [0..255 -> Int] /\ sum[k].v \in [0..255 -> Int]

\* The parts of TermAt.
Sign(t) == IF t.minus THEN -1 ELSE 1
Left(t, n) == IF t.given THEN t.u[n] ELSE ValueAt(t.u, n)

LEMMA TermType ==
  ASSUME Root, SumKnown, NEW k \in DOMAIN sum, NEW n \in 0..255
  PROVE  /\ Left(sum[k], n) \in Int /\ ValueAt(sum[k].v, n) \in Int
         /\ TermAt(sum[k], n) = Sign(sum[k]) * Left(sum[k], n) * ValueAt(sum[k].v, n)
         /\ TermAt(sum[k], n) \in Int
<1>1. sum[k].u \in [0..255 -> Int] /\ sum[k].v \in [0..255 -> Int]
  BY DEF SumKnown
<1>2. ValueAt(sum[k].u, n) \in Int /\ ValueAt(sum[k].v, n) \in Int /\ sum[k].u[n] \in Int
  <2>1. ValueAt(sum[k].u, n) \in Int
    BY <1>1, ValueType, ZenonT(60)
  <2>2. ValueAt(sum[k].v, n) \in Int
    BY <1>1, ValueType, ZenonT(60)
  <2> QED BY <1>1, <2>1, <2>2
<1>3. Left(sum[k], n) \in Int /\ Sign(sum[k]) \in Int
  BY <1>2 DEF Left, Sign
<1>4. TermAt(sum[k], n) = Sign(sum[k]) * Left(sum[k], n) * ValueAt(sum[k].v, n)
  BY Zenon DEF TermAt, Sign, Left
<1> DEFINE x == Sign(sum[k])
           y == Left(sum[k], n)
           z == ValueAt(sum[k].v, n)
<1> HIDE DEF x, y, z
<1>5. x \in Int /\ y \in Int /\ z \in Int
  BY <1>2, <1>3 DEF x, y, z
<1>6. (x * y) * z \in Int
  BY <1>5, RingLaws
<1> QED BY <1>2, <1>3, <1>4, <1>6 DEF x, y, z

LEMMA SumFinite ==
  ASSUME SumKnown
  PROVE  IsFiniteSet(DOMAIN sum)
<1>1. DOMAIN sum = 1..Len(sum) /\ Len(sum) \in Int
  BY DEF SumKnown
<1> QED BY <1>1, FS_Interval

LEMMA UptoType ==
  ASSUME Root, SumKnown, NEW c \in Nat, NEW n \in 0..255
  PROVE  UptoTerms(c, n) \in [DOMAIN sum -> Int] /\ SumFunction(UptoTerms(c, n)) \in Int
<1>1. \A k \in DOMAIN sum : (IF k <= c THEN TermAt(sum[k], n) ELSE 0) \in Int
  BY TermType
<1>2. UptoTerms(c, n) \in [DOMAIN sum -> Int]
  BY <1>1 DEF UptoTerms
<1> QED BY <1>2, SumFinite, SumType

LEMMA UptoNone ==
  ASSUME Root, SumKnown, NEW n \in 0..255
  PROVE  SumFunction(UptoTerms(0, n)) = 0
<1>1. \A k \in DOMAIN sum : UptoTerms(0, n)[k] = 0
  <2>1. DOMAIN sum = 1..Len(sum)
    BY DEF SumKnown
  <2>2. \A k \in DOMAIN sum : ~(k <= 0)
    BY <2>1
  <2> QED BY <2>2 DEF UptoTerms
<1>2. UptoTerms(0, n) \in [DOMAIN sum -> Int]
  BY UptoType
<1> QED BY <1>1, <1>2, SumFinite, SumZero

LEMMA UptoAll ==
  ASSUME SumKnown, NEW n \in 0..255
  PROVE  UptoTerms(Len(sum), n) = AllTerms(n)
<1>0. DOMAIN sum = 1..Len(sum)
  BY DEF SumKnown
<1>1. \A k \in DOMAIN sum : k <= Len(sum)
  BY <1>0
<1> QED BY <1>1 DEF UptoTerms, AllTerms

LEMMA UptoNext ==
  ASSUME Root, SumKnown, NEW c \in DOMAIN sum, NEW n \in 0..255
  PROVE  SumFunction(UptoTerms(c, n)) = SumFunction(UptoTerms(c - 1, n)) + TermAt(sum[c], n)
<1> DEFINE F == UptoTerms(c - 1, n)
           G == [k \in DOMAIN sum |-> IF k = c THEN TermAt(sum[c], n) ELSE 0]
           H == UptoTerms(c, n)
<1>0. DOMAIN sum = 1..Len(sum)
  BY DEF SumKnown
<1>1. c \in Nat /\ c - 1 \in Nat /\ \A k \in DOMAIN sum : k \in Nat
  BY <1>0
<1>2. F \in [DOMAIN sum -> Int] /\ H \in [DOMAIN sum -> Int]
  BY <1>1, UptoType
<1>3. TermAt(sum[c], n) \in Int
  BY TermType
<1>4. G \in [DOMAIN sum -> Int]
  BY <1>3
<1>5. \A k \in DOMAIN sum : H[k] = F[k] + G[k]
  <2> TAKE k \in DOMAIN sum
  <2>1. TermAt(sum[k], n) \in Int
    BY TermType
  <2>2. k \in Nat
    BY <1>1
  <2>3. H[k] = IF k <= c THEN TermAt(sum[k], n) ELSE 0
    BY DEF UptoTerms
  <2>4. F[k] = IF k <= c - 1 THEN TermAt(sum[k], n) ELSE 0
    BY DEF UptoTerms
  <2> HIDE DEF F, H
  <2>5. CASE k = c
    BY <1>1, <1>3, <2>3, <2>4, <2>5
  <2>6. CASE k # c
    <3>1. G[k] = 0 /\ (k <= c <=> k <= c - 1)
      BY <1>1, <2>2, <2>6
    <3> QED BY <2>1, <2>3, <2>4, <3>1
  <2> QED BY <2>5, <2>6
<1>6. G[c] = TermAt(sum[c], n) /\ \A k \in DOMAIN sum : k # c => G[k] = 0
  OBVIOUS
<1> HIDE DEF F, G, H
<1>7. SumFunction(G) = G[c]
  BY <1>4, <1>6, SumFinite, SumOne
<1>8. SumFunction(H) = SumFunction(F) + SumFunction(G)
  BY <1>2, <1>4, <1>5, SumFinite, SumAdds
<1> QED BY <1>6, <1>7, <1>8 DEF F, H

\* The numbers of ML-DSA-44, its table, and its sums: the first term of each is
\* added.
MLDSA44Roots == MLDSA44 /\ RootTable /\ \A s \in Products : ~s[1].minus

\* How many coefficients the remainders have before the next layer of ntt.
Width == IF len = 0 THEN 1 ELSE 2 * len

\* The remainders q of p, with c coefficients each, have the values of p.
FactorValues(p, given, c, q) ==
  IF given THEN q = p
  ELSE \A n \in 0..255 : Same(PartValue(q, c, n), ValueAt(p, n))

Transformed(c) ==
  \A k \in DOMAIN sum :
    /\ FactorValues(sum[k].u, sum[k].given, c, u[k])
    /\ FactorValues(sum[k].v, FALSE, c, v[k])

\* The remainders p of R times the sum of products, each c times too large.
SumValues(c, p) ==
  \A n \in 0..255 : Same(R * PartValue(p, c, n), c * SumFunction(AllTerms(n)))

\* In ntt the remainders keep the values of the factors; in the products R * w
\* is the sum of the first i - 1 terms at each root; on the way back each layer
\* doubles the sum, which the factor f takes away with the R.
TransformInv ==
  /\ NttInv
  /\ SumKnown
  /\ at = "ntt" => Transformed(Width) /\ \A n \in 0..255 : w[n] = 0
  /\ at = "pointwise" =>
       Transformed(1) /\ \A n \in 0..255 : Same(R * w[n], SumFunction(UptoTerms(i - 1, n)))
  /\ at = "invntt" => SumValues(len, w)
  /\ at = "done" => \A n \in 0..255 : Same(ValueAt(w, n), SumFunction(AllTerms(n)))

LEMMA TransformTypes ==
  ASSUME MLDSA44Roots, NttInv
  PROVE  /\ MLDSA44 /\ RootTable /\ Root /\ Numbers
         /\ Idx = 0..255 /\ Q \in Int /\ R \in Int
         /\ w \in [0..255 -> Int]
         /\ DOMAIN u = DOMAIN sum /\ DOMAIN v = DOMAIN sum
         /\ \A k \in DOMAIN sum : u[k] \in [0..255 -> Int] /\ v[k] \in [0..255 -> Int]
<1>1. MLDSA44 /\ RootTable /\ Root /\ Numbers
  BY DEF MLDSA44Roots, RootTable, Root
<1>2. Idx = 0..255 /\ Q \in Int /\ R \in Int
  BY <1>1 DEF Numbers, Idx
<1>3. w \in [Idx -> Int] /\ u \in [DOMAIN sum -> [Idx -> Int]] /\ v \in [DOMAIN sum -> [Idx -> Int]]
  BY DEF NttInv, Polynomial
<1> QED BY <1>1, <1>2, <1>3, SMTT(60)

LEMMA KnownSums ==
  ASSUME MLDSA44Roots, NttInv
  PROVE  SumKnown
<1>1. sum \in Products
  BY DEF NttInv
<1>2. Idx = 0..255
  BY TransformTypes
<1>3. /\ Len(sum) \in 1..5 /\ DOMAIN sum = 1..Len(sum)
      /\ \A k \in DOMAIN sum : Polynomial(sum[k].u) /\ Polynomial(sum[k].v)
  BY <1>1 DEF MLDSA44Roots, MLDSA44
<1>4. ~sum[1].minus
  BY <1>1 DEF MLDSA44Roots
<1> QED BY <1>2, <1>3, <1>4 DEF SumKnown, Polynomial

LEMMA PartValueType ==
  ASSUME Root, NEW n \in 0..255, NEW c \in LayerLens, NEW p \in [0..255 -> Int]
  PROVE  PartValue(p, c, n) \in Int /\ PartValue(p, 2 * c, n) \in Int
<1>0. c \in Nat /\ IsFiniteSet(0..(c - 1))
  <2>1. c \in Nat
    BY DEF LayerLens
  <2> QED BY <2>1, RangeFinite
<1>1. /\ HalfTerms(p, c, n) \in [0..(c - 1) -> Int]
      /\ PartValue(p, 2 * c, n) = SumFunction(HalfTerms(p, c, n))
      /\ PartTerms(p, c, n) \in [0..(c - 1) -> Int]
  BY PartHalves, ZenonT(60)
<1> QED BY <1>0, <1>1, SumType DEF PartValue

\* At first the whole polynomial is the one remainder.
LEMMA TransformStarts ==
  ASSUME MLDSA44Roots, NttInit
  PROVE  TransformInv
<1>1. NttInv
  BY InitInv DEF MLDSA44Roots
<1>2. SumKnown
  BY <1>1, KnownSums
<1>3. Root /\ Idx = 0..255 /\ N = 256 /\ Q \in Int
  BY <1>1, TransformTypes DEF Numbers
<1>4. at = "ntt" /\ Width = 256 /\ w = [j \in Idx |-> 0]
      /\ u = [k \in DOMAIN sum |-> sum[k].u] /\ v = [k \in DOMAIN sum |-> sum[k].v]
  BY <1>3 DEF NttInit, Width
<1>5. ASSUME NEW p \in [0..255 -> Int]
      PROVE  \A n \in 0..255 : Same(PartValue(p, 256, n), ValueAt(p, n))
  <2> TAKE n \in 0..255
  <2>1. PartValue(p, 256, n) \in Int /\ ValueAt(p, n) \in Int
    BY <1>3, ValueType, ZenonT(60)
  <2>2. Same(ValueAt(p, n), PartValue(p, 256, n))
    BY <1>3, ValueType, ZenonT(60)
  <2> QED BY <1>3, <2>1, <2>2, SameBasics, SMTT(60)
<1>6. Transformed(256)
  <2> SUFFICES ASSUME NEW k \in DOMAIN sum
               PROVE  /\ FactorValues(sum[k].u, sum[k].given, 256, u[k])
                      /\ FactorValues(sum[k].v, FALSE, 256, v[k])
    BY DEF Transformed
  <2>1. u[k] = sum[k].u /\ v[k] = sum[k].v
    BY <1>4
  <2>2. sum[k].u \in [0..255 -> Int] /\ sum[k].v \in [0..255 -> Int]
    BY <1>2 DEF SumKnown
  <2>3. \A n \in 0..255 : Same(PartValue(sum[k].u, 256, n), ValueAt(sum[k].u, n))
    BY <1>5, <2>2
  <2>4. \A n \in 0..255 : Same(PartValue(sum[k].v, 256, n), ValueAt(sum[k].v, n))
    BY <1>5, <2>2
  <2> QED BY <2>1, <2>3, <2>4, Zenon DEF FactorValues
<1>7. \A n \in 0..255 : w[n] = 0
  BY <1>3, <1>4
<1> QED BY <1>1, <1>2, <1>4, <1>6, <1>7 DEF TransformInv

\* A layer of ntt.
LEMMA LayerTransforms ==
  ASSUME MLDSA44Roots, TransformInv, nttLayer, NttInv'
  PROVE  TransformInv'
<1>1. /\ at = "ntt" /\ len \in LayerLens /\ Width = 2 * len
      /\ len' = len \div 2 /\ sum' = sum /\ w' = w /\ at' = "ntt"
      /\ v' = [k \in DOMAIN v |-> Layer(v[k])]
      /\ u' = [k \in DOMAIN u |-> IF sum[k].given THEN u[k] ELSE Layer(u[k])]
  <2>1. NttInv
    BY DEF TransformInv
  <2>2. at = "ntt" /\ len \in LayerLens
    BY <2>1, SMT DEF nttLayer, NttInv, LayerAndLen, LayerLens
  <2>3. Width = 2 * len
    BY <2>2 DEF Width, LayerLens
  <2> QED BY <2>2, <2>3 DEF nttLayer
<1>2. Width' = len
  BY <1>1 DEF Width, LayerLens
<1>3. /\ RootTable /\ Root /\ Q \in Int
      /\ DOMAIN u = DOMAIN sum /\ DOMAIN v = DOMAIN sum
      /\ \A k \in DOMAIN sum : u[k] \in [0..255 -> Int] /\ v[k] \in [0..255 -> Int]
  BY TransformTypes DEF TransformInv
<1>4. \A k \in DOMAIN sum : u'[k] \in [0..255 -> Int] /\ v'[k] \in [0..255 -> Int]
  <2>1. Idx = 0..255
    BY TransformTypes DEF TransformInv
  <2> QED BY <1>1, <2>1 DEF NttInv
<1>5. SumKnown /\ Transformed(2 * len) /\ \A n \in 0..255 : w[n] = 0
  BY <1>1 DEF TransformInv
<1>6. ASSUME NEW p \in [0..255 -> Int], NEW q \in [0..255 -> Int], Layer(q) \in [0..255 -> Int],
             FactorValues(p, FALSE, 2 * len, q)
      PROVE  FactorValues(p, FALSE, len, Layer(q))
  <2> SUFFICES ASSUME NEW n \in 0..255
               PROVE  Same(PartValue(Layer(q), len, n), ValueAt(p, n))
    BY SMTT(60) DEF FactorValues
  <2>1. Same(PartValue(q, 2 * len, n), ValueAt(p, n))
    BY <1>6 DEF FactorValues
  <2>2. Same(PartValue(Layer(q), len, n), PartValue(q, 2 * len, n))
    BY <1>1, <1>3, <1>6, LayerValue, ZenonT(60)
  <2>3. PartValue(Layer(q), len, n) \in Int /\ PartValue(q, 2 * len, n) \in Int
    BY <1>1, <1>3, <1>6, PartValueType, ZenonT(60)
  <2>4. ValueAt(p, n) \in Int
    BY <1>3, ValueType, ZenonT(60)
  <2> QED BY <1>3, <2>1, <2>2, <2>3, <2>4, SameBasics, ZenonT(60)
<1>7. Transformed(Width)'
  <2> SUFFICES ASSUME NEW k \in DOMAIN sum
               PROVE  /\ FactorValues(sum[k].u, sum[k].given, len, u'[k])
                      /\ FactorValues(sum[k].v, FALSE, len, v'[k])
    BY <1>1, <1>2, Zenon DEF Transformed
  <2>1. /\ FactorValues(sum[k].u, sum[k].given, 2 * len, u[k])
        /\ FactorValues(sum[k].v, FALSE, 2 * len, v[k])
    BY <1>5 DEF Transformed
  <2>2. v'[k] = Layer(v[k]) /\ u'[k] = IF sum[k].given THEN u[k] ELSE Layer(u[k])
    BY <1>1, <1>3
  <2>3. sum[k].u \in [0..255 -> Int] /\ sum[k].v \in [0..255 -> Int]
    BY <1>5 DEF SumKnown
  <2>4. FactorValues(sum[k].v, FALSE, len, v'[k])
    BY <1>3, <1>4, <1>6, <2>1, <2>2, <2>3, ZenonT(60)
  <2>5. CASE sum[k].given
    <3>1. u[k] = sum[k].u
      BY <2>1, <2>5, ZenonT(60) DEF FactorValues
    <3> QED BY <2>2, <2>4, <2>5, <3>1, ZenonT(60) DEF FactorValues
  <2>6. CASE ~sum[k].given
    <3>1. FactorValues(sum[k].u, FALSE, 2 * len, u[k])
      BY <2>1, <2>6, ZenonT(60) DEF FactorValues
    <3>2. u'[k] = Layer(u[k])
      BY <2>2, <2>6
    <3>3. FactorValues(sum[k].u, FALSE, len, u'[k])
      BY <1>3, <1>4, <1>6, <2>3, <3>1, <3>2, ZenonT(60)
    <3> QED BY <2>4, <2>6, <3>3, ZenonT(60) DEF FactorValues
  <2> QED BY <2>5, <2>6
<1>8. SumKnown'
  BY <1>1, <1>5 DEF SumKnown
<1>9. \A n \in 0..255 : w'[n] = 0
  BY <1>1, <1>5
<1>10. at' = "ntt"
  BY <1>1
<1> QED BY <1>7, <1>8, <1>9, <1>10 DEF TransformInv

\* The last remainders are the coefficients, which pointwise products take.
LEMMA ReturnTransforms ==
  ASSUME MLDSA44Roots, TransformInv, nttReturn, NttInv'
  PROVE  TransformInv'
<1>1. /\ at = "ntt" /\ len = 0 /\ at' = "pointwise"
      /\ sum' = sum /\ u' = u /\ v' = v /\ w' = w /\ i' = i
  BY DEF nttReturn
<1>2. Root /\ R \in Int /\ Q \in Int
  BY TransformTypes DEF TransformInv
<1>3. SumKnown /\ Transformed(1) /\ (\A n \in 0..255 : w[n] = 0) /\ i = 1
  BY <1>1 DEF TransformInv, Width, NttInv
<1>4. ASSUME NEW n \in 0..255 PROVE Same(R * w[n], SumFunction(UptoTerms(i - 1, n)))
  <2>1. SumFunction(UptoTerms(0, n)) = 0
    BY <1>2, <1>3, UptoNone
  <2>2. R * w[n] = 0 /\ i - 1 = 0
    BY <1>2, <1>3, RingLaws
  <2>3. Same(0, 0)
    BY <1>2, SameBasics
  <2> QED BY <2>1, <2>2, <2>3
<1>5. Transformed(1)'
  BY <1>1, <1>3, ZenonT(60) DEF Transformed
<1>6. SumKnown' /\ \A n \in 0..255 : Same(R * w'[n], SumFunction(UptoTerms(i - 1, n)'))
  <2>1. SumKnown'
    BY <1>1, <1>3 DEF SumKnown
  <2>2. \A n \in 0..255 : UptoTerms(i - 1, n)' = UptoTerms(i - 1, n)
    BY <1>1 DEF UptoTerms
  <2> QED BY <1>1, <1>4, <2>1, <2>2, ZenonT(60)
<1> QED BY <1>1, <1>5, <1>6, ZenonT(60) DEF TransformInv

\* A factor has the value of the polynomial it was made from.
LEMMA FactorIsValue ==
  ASSUME MLDSA44Roots, NttInv, SumKnown, Transformed(1), NEW k \in DOMAIN sum, NEW n \in 0..255
  PROVE  /\ u[k][n] \in Int /\ v[k][n] \in Int
         /\ Same(u[k][n], Left(sum[k], n)) /\ Same(v[k][n], ValueAt(sum[k].v, n))
<1>0. /\ Root /\ Q \in Int
      /\ u[k] \in [0..255 -> Int] /\ v[k] \in [0..255 -> Int]
  BY TransformTypes
<1>1. u[k][n] \in Int /\ v[k][n] \in Int
  BY <1>0
<1>2. /\ FactorValues(sum[k].u, sum[k].given, 1, u[k])
      /\ FactorValues(sum[k].v, FALSE, 1, v[k])
  BY DEF Transformed
<1>3. PartValue(u[k], 1, n) = u[k][n] /\ PartValue(v[k], 1, n) = v[k][n]
  BY <1>0, ValueOfOne, ZenonT(60)
<1>4. Same(v[k][n], ValueAt(sum[k].v, n))
  <2>1. Same(PartValue(v[k], 1, n), ValueAt(sum[k].v, n))
    BY <1>2, ZenonT(60) DEF FactorValues
  <2> QED BY <1>3, <2>1
<1>5. CASE sum[k].given
  <2>1. u[k] = sum[k].u
    BY <1>2, <1>5, ZenonT(60) DEF FactorValues
  <2>2. Left(sum[k], n) = u[k][n]
    BY <1>5, <2>1 DEF Left
  <2>3. Same(u[k][n], u[k][n])
    BY <1>0, <1>1, SameBasics, ZenonT(60)
  <2> QED BY <1>1, <1>4, <2>2, <2>3
<1>6. CASE ~sum[k].given
  <2>1. Same(PartValue(u[k], 1, n), ValueAt(sum[k].u, n))
    BY <1>2, <1>6, ZenonT(60) DEF FactorValues
  <2>2. Left(sum[k], n) = ValueAt(sum[k].u, n)
    BY <1>6 DEF Left
  <2> QED BY <1>1, <1>3, <1>4, <2>1, <2>2
<1> QED BY <1>5, <1>6

\* One term of the pointwise products.
LEMMA TermIsValue ==
  ASSUME MLDSA44Roots, NttInv, SumKnown, Transformed(1), at = "pointwise",
         i \in DOMAIN sum, NEW n \in 0..255,
         Same(R * w[n], SumFunction(UptoTerms(i - 1, n)))
  PROVE  PlusTerm(n) \in Int => Same(R * PlusTerm(n), SumFunction(UptoTerms(i, n)))
<1>0. /\ Numbers /\ Root /\ Q \in Int /\ R \in Int /\ Idx = 0..255 /\ w \in [0..255 -> Int]
  BY TransformTypes
<1> DEFINE x == u[i][n]
           y == v[i][n]
           t == montgomery_reduce(x * y)
           X == Left(sum[i], n)
           Y == ValueAt(sum[i].v, n)
           W == w[n]
           A == SumFunction(UptoTerms(i - 1, n))
           B == TermAt(sum[i], n)
           C == SumFunction(UptoTerms(i, n))
<1>1. PlusTerm(n) = IF i = 1 THEN t ELSE IF sum[i].minus THEN W - t ELSE W + t
  BY <1>0, Zenon DEF PlusTerm, poly_pointwise
<1>2. x \in Int /\ y \in Int /\ Same(x, X) /\ Same(y, Y)
  BY FactorIsValue, ZenonT(60)
<1>3. X \in Int /\ Y \in Int /\ B \in Int /\ B = Sign(sum[i]) * X * Y
  BY <1>0, TermType, ZenonT(60)
<1>4. C = A + B
  BY <1>0, UptoNext
<1>5. A \in Int /\ (i = 1 => A = 0)
  <2>1. DOMAIN sum = 1..Len(sum)
    BY DEF SumKnown
  <2>2. i - 1 \in Nat /\ (i = 1 => i - 1 = 0)
    BY <2>1
  <2>3. A \in Int
    BY <1>0, <2>2, UptoType
  <2>4. SumFunction(UptoTerms(0, n)) = 0
    BY <1>0, UptoNone
  <2> QED BY <2>2, <2>3, <2>4
<1>6. W \in Int /\ Same(R * W, A)
  BY <1>0
<1>7. i = 1 => ~sum[i].minus
  BY DEF SumKnown
<1> HIDE DEF x, y, X, Y, W, A, B, C
<1>8. x * y \in Int /\ X * Y \in Int
  BY <1>2, <1>3, RingLaws
<1>9. t \in Int /\ Same(R * t, x * y)
  BY <1>0, <1>8, ReduceSame
<1>10. Same(x * y, X * Y)
  BY <1>0, <1>2, <1>3, SameTimes
<1> HIDE DEF t
<1>11. R * t \in Int /\ R * W \in Int
  BY <1>0, <1>6, <1>9, RingLaws
<1>12. Same(R * t, X * Y)
  BY <1>0, <1>8, <1>9, <1>10, <1>11, SameBasics
<1>13. CASE sum[i].minus
  <2>1. PlusTerm(n) = W - t
    BY <1>1, <1>7, <1>13
  <2>2. B = -(X * Y)
    <3>1. B = (-1) * X * Y
      BY <1>3, <1>13 DEF Sign
    <3> QED BY <1>3, <3>1, SMT
  <2>3. R * (W - t) = R * W - R * t
    BY <1>0, <1>6, <1>9, SMT
  <2>4. Same(R * W - R * t, A - X * Y)
    BY <1>0, <1>5, <1>6, <1>8, <1>11, <1>12, SameAdds
  <2>5. A - X * Y = C
    BY <1>4, <1>5, <1>8, <2>2
  <2> QED BY <2>1, <2>3, <2>4, <2>5 DEF C
<1>14. CASE ~sum[i].minus
  <2>1. B = X * Y
    <3>1. B = 1 * X * Y
      BY <1>3, <1>14 DEF Sign
    <3> QED BY <1>3, <3>1, SMT
  <2>2. CASE i = 1
    <3>1. PlusTerm(n) = t /\ C = X * Y
      BY <1>1, <1>4, <1>5, <1>8, <2>1, <2>2
    <3> QED BY <1>12, <3>1 DEF C
  <2>3. CASE i # 1
    <3>1. PlusTerm(n) = W + t
      BY <1>1, <1>14, <2>3
    <3>2. R * (W + t) = R * W + R * t
      BY <1>0, <1>6, <1>9, SMT
    <3>3. Same(R * W + R * t, A + X * Y)
      BY <1>0, <1>5, <1>6, <1>8, <1>11, <1>12, SameAdds
    <3>4. A + X * Y = C
      BY <1>4, <2>1
    <3> QED BY <3>1, <3>2, <3>3, <3>4 DEF C
  <2> QED BY <2>2, <2>3
<1> QED BY <1>13, <1>14

LEMMA PointwiseAdds ==
  ASSUME MLDSA44Roots, TransformInv, pointwise_acc, NttInv'
  PROVE  TransformInv'
<1>1. /\ at = "pointwise" /\ i <= Len(sum)
      /\ w' = [j \in Idx |-> PlusTerm(j)] /\ i' = i + 1
      /\ sum' = sum /\ u' = u /\ v' = v /\ at' = at
  BY DEF pointwise_acc
<1>2. /\ NttInv /\ SumKnown /\ Transformed(1)
      /\ \A n \in 0..255 : Same(R * w[n], SumFunction(UptoTerms(i - 1, n)))
  BY <1>1, ZenonT(60) DEF TransformInv
<1>3. Idx = 0..255
  BY <1>2, TransformTypes, ZenonT(60)
<1>4. i \in DOMAIN sum /\ (i + 1) - 1 = i
  <2>1. i \in 1..(Len(sum) + 1) /\ DOMAIN sum = 1..Len(sum) /\ Len(sum) \in 1..5
    BY <1>2, ZenonT(60) DEF NttInv, SumKnown
  <2> QED BY <1>1, <2>1
<1>5. ASSUME NEW n \in 0..255 PROVE Same(R * w'[n], SumFunction(UptoTerms(i, n)))
  <2>1. w'[n] = PlusTerm(n)
    BY <1>1, <1>3
  <2>2. w'[n] \in Int
    <3>1. w' \in [Idx -> Int]
      BY DEF NttInv, Polynomial
    <3> QED BY <1>3, <3>1
  <2>3. Same(R * PlusTerm(n), SumFunction(UptoTerms(i, n)))
    BY <1>1, <1>2, <1>4, <2>1, <2>2, TermIsValue, ZenonT(60)
  <2> QED BY <2>1, <2>3
<1>7. Transformed(1)' /\ SumKnown'
  BY <1>1, <1>2, ZenonT(60) DEF Transformed, SumKnown
<1>8. \A n \in 0..255 : Same(R * w'[n], SumFunction(UptoTerms(i - 1, n)'))
  <2>1. \A n \in 0..255 : UptoTerms(i - 1, n)' = UptoTerms(i, n)
    BY <1>1, <1>4 DEF UptoTerms
  <2> QED BY <1>5, <2>1, ZenonT(60)
<1> QED BY <1>1, <1>7, <1>8, ZenonT(60) DEF TransformInv

LEMMA AllType ==
  ASSUME Root, SumKnown, NEW n \in 0..255
  PROVE  SumFunction(AllTerms(n)) \in Int
<1>1. \A k \in DOMAIN sum : TermAt(sum[k], n) \in Int
  BY TermType, SMTT(60)
<1>2. AllTerms(n) \in [DOMAIN sum -> Int]
  BY <1>1 DEF AllTerms
<1> QED BY <1>2, SumFinite, SumType

LEMMA ReduceTransforms ==
  ASSUME MLDSA44Roots, TransformInv, reduce, NttInv'
  PROVE  TransformInv'
<1>1. /\ at = "pointwise" /\ i > Len(sum) /\ at' = "invntt" /\ len' = 1
      /\ w' = [j \in Idx |-> Reduced(w[j])] /\ sum' = sum
  BY DEF reduce
<1>2. /\ NttInv /\ SumKnown
      /\ \A n \in 0..255 : Same(R * w[n], SumFunction(UptoTerms(i - 1, n)))
  BY <1>1, ZenonT(60) DEF TransformInv
<1>3. /\ Numbers /\ Root /\ Q \in Int /\ R \in Int /\ Idx = 0..255 /\ w \in [0..255 -> Int]
  BY <1>2, TransformTypes, ZenonT(60)
<1>4. i - 1 = Len(sum)
  <2>1. i \in 1..(Len(sum) + 1) /\ Len(sum) \in 1..5
    BY <1>2, ZenonT(60) DEF NttInv, SumKnown
  <2> QED BY <1>1, <2>1
<1>5. w' \in [0..255 -> Int]
  BY <1>3 DEF NttInv, Polynomial
<1>6. ASSUME NEW n \in 0..255
      PROVE  Same(R * PartValue(w', 1, n), 1 * SumFunction(AllTerms(n)))
  <2> DEFINE x == w[n]
             y == w'[n]
             A == SumFunction(AllTerms(n))
  <2>1. x \in Int /\ y \in Int
    BY <1>3, <1>5
  <2>2. y = Reduced(x)
    BY <1>1, <1>3
  <2>3. Same(R * x, A)
    BY <1>2, <1>4, UptoAll, ZenonT(60)
  <2>4. A \in Int
    BY <1>2, <1>3, AllType, ZenonT(60)
  <2>5. PartValue(w', 1, n) = y
    BY <1>3, <1>5, ValueOfOne, ZenonT(60)
  <2> HIDE DEF x, y, A
  <2>6. Same(y, x)
    BY <1>3, <2>1, <2>2, Reduce32Same, SameBasics DEF Reduced
  <2>7. Same(R * y, R * x) /\ R * y \in Int /\ R * x \in Int
    BY <1>3, <2>1, <2>6, SameScaled, RingLaws
  <2>8. Same(R * y, A)
    BY <1>3, <2>3, <2>4, <2>7, SameBasics
  <2>9. 1 * A = A
    BY <2>4, RingLaws
  <2> QED BY <2>5, <2>8, <2>9 DEF A
<1>7. SumKnown'
  BY <1>1, <1>2, ZenonT(60) DEF SumKnown
<1>8. \A n \in 0..255 : AllTerms(n)' = AllTerms(n)
  BY <1>1 DEF AllTerms
<1>9. SumValues(len, w)'
  BY <1>1, <1>6, <1>8, ZenonT(60) DEF SumValues
<1> QED BY <1>1, <1>7, <1>9 DEF TransformInv

LEMMA InverseTransforms ==
  ASSUME MLDSA44Roots, TransformInv, invnttLayer, NttInv'
  PROVE  TransformInv'
<1>1. /\ at = "invntt" /\ len < N /\ at' = "invntt" /\ len' = 2 * len
      /\ w' = [j \in Idx |-> InverseButterfly(w, j)] /\ sum' = sum
  BY DEF invnttLayer
<1>2. NttInv /\ SumKnown /\ SumValues(len, w)
  BY <1>1 DEF TransformInv
<1>3. /\ Numbers /\ Root /\ RootTable /\ Q \in Int /\ R \in Int /\ Idx = 0..255
      /\ w \in [0..255 -> Int]
  BY <1>2, TransformTypes
<1>4. len \in LayerLens
  <2>1. len \in LayerLens \cup {256} /\ N = 256
    BY <1>1, <1>2, <1>3 DEF NttInv, Numbers
  <2> QED BY <1>1, <2>1
<1>5. w' \in [0..255 -> Int] /\ \A x \in 0..255 : w'[x] = InverseButterfly(w, x)
  BY <1>1, <1>3 DEF NttInv, Polynomial
<1>6. ASSUME NEW n \in 0..255
      PROVE  Same(R * PartValue(w', 2 * len, n), (2 * len) * SumFunction(AllTerms(n)))
  <2> DEFINE x == PartValue(w, len, n)
             y == PartValue(w', 2 * len, n)
             A == SumFunction(AllTerms(n))
  <2>1. x \in Int /\ y \in Int
    BY <1>3, <1>4, <1>5, PartValueType, ZenonT(60)
  <2>2. Same(y, 2 * x)
    BY <1>3, <1>4, <1>5, InverseLayerValue, ZenonT(60)
  <2>3. Same(R * x, len * A)
    BY <1>2 DEF SumValues
  <2>4. A \in Int /\ len \in Int
    BY <1>2, <1>3, <1>4, AllType DEF LayerLens
  <2> HIDE DEF x, y, A
  <2>5. /\ 2 * x \in Int /\ R * x \in Int /\ R * y \in Int /\ len * A \in Int
        /\ R * (2 * x) = 2 * (R * x) /\ 2 * (len * A) = (2 * len) * A /\ R * (2 * x) \in Int
        /\ 2 * (len * A) \in Int
    BY <1>3, <2>1, <2>4, SMT
  <2>6. Same(R * y, R * (2 * x))
    BY <1>3, <2>1, <2>2, <2>5, SameScaled
  <2>7. Same(2 * (R * x), 2 * (len * A))
    BY <1>3, <2>3, <2>5, SameScaled
  <2>8. Same(R * y, 2 * (len * A))
    BY <1>3, <2>5, <2>6, <2>7, SameBasics, SMTT(60)
  <2> QED BY <2>5, <2>8 DEF y, A
<1>7. SumKnown'
  BY <1>1, <1>2, ZenonT(60) DEF SumKnown
<1>8. \A n \in 0..255 : AllTerms(n)' = AllTerms(n)
  BY <1>1, SMTT(60) DEF AllTerms
<1>9. SumValues(len, w)'
  BY <1>1, <1>6, <1>8, ZenonT(60) DEF SumValues
<1> QED BY <1>1, <1>7, <1>9 DEF TransformInv

LEMMA ScaleTransforms ==
  ASSUME MLDSA44Roots, TransformInv, invnttScale, NttInv'
  PROVE  TransformInv'
<1>1. /\ at = "invntt" /\ len = N /\ at' = "done"
      /\ w' = [j \in Idx |-> montgomery_reduce(f * w[j])] /\ sum' = sum
  BY DEF invnttScale
<1>2. NttInv /\ SumKnown /\ SumValues(256, w)
  <2>1. N = 256
    BY TransformTypes DEF TransformInv, Numbers
  <2> QED BY <1>1, <2>1 DEF TransformInv
<1>3. /\ Numbers /\ Root /\ RootTable /\ Q \in Int /\ R \in Int /\ Idx = 0..255 /\ f \in Int
      /\ w \in [0..255 -> Int]
  BY <1>2, TransformTypes DEF Numbers
<1>5. w' \in [0..255 -> Int]
  BY <1>3 DEF NttInv, Polynomial
<1>6. ASSUME NEW n \in 0..255
      PROVE  Same(ValueAt(w', n), SumFunction(AllTerms(n)))
  <2> DEFINE S == 0..255
             T == PartTerms(w, 256, n)
             D == PartTerms(w', 256, n)
             RD == [j \in S |-> R * D[j]]
             fT == [j \in S |-> f * T[j]]
             x == PartValue(w, 256, n)
             y == PartValue(w', 256, n)
             A == SumFunction(AllTerms(n))
  <2>1. T \in [S -> Int] /\ D \in [S -> Int] /\ x \in Int /\ y \in Int
        /\ ValueAt(w', n) \in Int /\ Same(ValueAt(w', n), y)
    <3>0. Root
      BY <1>3
    <3>1. T \in [S -> Int] /\ x \in Int
      BY <1>3, ValueType, ZenonT(60)
    <3>2. D \in [S -> Int] /\ y \in Int /\ ValueAt(w', n) \in Int /\ Same(ValueAt(w', n), y)
      <4> DEFINE q == w'
      <4>1. q \in [0..255 -> Int]
        BY <1>5
      <4> HIDE DEF q
      <4>2. PartTerms(q, 256, n) \in [0..255 -> Int]
        BY <3>0, <4>1, ValueType, ZenonT(60)
      <4>3. PartValue(q, 256, n) \in Int
        BY <3>0, <4>1, ValueType, ZenonT(60)
      <4>4. ValueAt(q, n) \in Int
        BY <3>0, <4>1, ValueType, ZenonT(60)
      <4>5. Same(ValueAt(q, n), PartValue(q, 256, n))
        BY <3>0, <4>1, ValueType, ZenonT(60)
      <4> QED BY <4>2, <4>3, <4>4, <4>5 DEF q
    <3> QED BY <3>1, <3>2
  <2>2. ASSUME NEW j \in S PROVE Same(R * D[j], f * T[j])
    <3> DEFINE a1 == w[j]
               b1 == w'[j]
               P == Point(n, j)
    <3>1. j \in 0..(256 - 1) /\ j \in Nat /\ 256 * (n \div 256) + j = j
      OBVIOUS
    <3>2. T[j] = w[256 * (n \div 256) + j] * P /\ D[j] = w'[256 * (n \div 256) + j] * P
      BY <3>1 DEF PartTerms
    <3>3. T[j] = a1 * P /\ D[j] = b1 * P
      BY <3>1, <3>2
    <3>4. a1 \in Int /\ b1 \in Int /\ P \in Int
      BY <1>3, <1>5, <3>1, PointType
    <3>5. b1 = montgomery_reduce(f * a1)
      BY <1>1, <1>3
    <3> HIDE DEF T, D, a1, b1, P
    <3>6. f * a1 \in Int /\ R * b1 \in Int /\ R * (b1 * P) = (R * b1) * P
          /\ f * (a1 * P) = (f * a1) * P
      BY <1>3, <3>4, SMT
    <3>7. Same(R * b1, f * a1)
      BY <1>3, <3>5, <3>6, ReduceSame
    <3>8. Same((R * b1) * P, (f * a1) * P)
      BY <1>3, <3>4, <3>6, <3>7, SameScaled
    <3> QED BY <3>3, <3>6, <3>8
  <2>3. IsFiniteSet(S)
    BY <1>3, IdxFinite
  <2>4. A \in Int /\ Same(R * x, 256 * A)
    BY <1>2, <1>3, AllType DEF SumValues
  <2>d. x = SumFunction(T) /\ y = SumFunction(D)
    BY DEF PartValue
  <2> HIDE DEF S, T, D, x, y, A
  <2>5. /\ RD \in [S -> Int] /\ fT \in [S -> Int]
        /\ \A j \in S : RD[j] = R * D[j] /\ fT[j] = f * T[j]
    <3>1. \A j \in S : R * D[j] \in Int /\ f * T[j] \in Int
      BY <1>3, <2>1, RingLaws
    <3> QED BY <3>1
  <2> HIDE DEF RD, fT
  <2>6. SumFunction(RD) = R * y /\ SumFunction(fT) = f * x
    BY <1>3, <2>1, <2>3, <2>5, <2>d, SumScales
  <2>7. Same(SumFunction(RD), SumFunction(fT))
    BY <1>3, <2>2, <2>3, <2>5, SameSums
  <2>8. Same(R * y, f * x)
    BY <2>6, <2>7
  <2>9. R * y \in Int /\ f * x \in Int /\ R * x \in Int /\ 256 * A \in Int /\ R * A \in Int
    BY <1>3, <2>1, <2>4, RingLaws
  <2>10. Same(R * (R * y), R * (R * A))
    <3>1. Same(R * (R * y), R * (f * x))
      BY <1>3, <2>8, <2>9, SameScaled
    <3>2. R * (f * x) = f * (R * x)
      BY <1>3, <2>1, RingLaws
    <3>3. Same(f * (R * x), f * (256 * A))
      BY <1>3, <2>4, <2>9, SameScaled, ZenonT(60)
    <3>4. Same(f * (256 * A), R * (R * A))
      <4>1. f * (256 * A) = R * (R * A) + Q * (-2201172575744 * A)
        BY <1>3, <2>4, SMT DEF Numbers
      <4>2. -2201172575744 * A \in Int
        BY <2>4, SMT
      <4> QED BY <4>1, <4>2 DEF Same
    <3>5. R * (R * y) \in Int /\ f * (R * x) \in Int /\ f * (256 * A) \in Int /\ R * (R * A) \in Int
      BY <1>3, <2>9, RingLaws
    <3>6. Same(R * (R * y), f * (R * x))
      BY <3>1, <3>2
    <3>7. Same(R * (R * y), f * (256 * A))
      BY <1>3, <3>3, <3>5, <3>6, SameBasics, SMTT(60)
    <3> DEFINE X == R * (R * y)
               Y == f * (256 * A)
               Z == R * (R * A)
    <3>8. X \in Int /\ Y \in Int /\ Z \in Int /\ Same(X, Y) /\ Same(Y, Z)
      BY <3>4, <3>5, <3>7
    <3> HIDE DEF X, Y, Z
    <3>9. Same(X, Z)
      BY <1>3, <3>8, SameBasics
    <3> QED BY <3>9 DEF X, Z
  <2>11. Same(R * y, R * A)
    BY <1>3, <2>9, <2>10, CancelR
  <2>12. Same(y, A)
    BY <1>3, <2>1, <2>4, <2>11, CancelR
  <2>13. Same(ValueAt(w', n), A)
    BY <1>3, <2>1, <2>4, <2>12, SameBasics, SMTT(60)
  <2> QED BY <2>13 DEF A
<1>7. SumKnown'
  BY <1>1, <1>2 DEF SumKnown
<1>8. \A n \in 0..255 : AllTerms(n)' = AllTerms(n)
  BY <1>1 DEF AllTerms
<1>9. \A n \in 0..255 : ValueAt(w, n)' = ValueAt(w', n)
  BY DEF ValueAt
<1> QED BY <1>1, <1>6, <1>7, <1>8, <1>9, ZenonT(60) DEF TransformInv

LEMMA TransformKept ==
  ASSUME MLDSA44Roots, TransformInv, [NttNext]_nttVars
  PROVE  TransformInv'
<1>1. MLDSA44 /\ NttInv
  BY DEF MLDSA44Roots, TransformInv
<1>2. NttInv'
  BY <1>1, StepInv
<1>3. CASE UNCHANGED nttVars
  <2>1. /\ sum' = sum /\ u' = u /\ v' = v /\ w' = w /\ len' = len /\ i' = i /\ at' = at
    BY <1>3 DEF nttVars
  <2>2. SumKnown'
    BY <2>1 DEF TransformInv, SumKnown
  <2>3. \A n \in 0..255 : AllTerms(n)' = AllTerms(n)
    BY <2>1 DEF AllTerms
  <2>4. (at = "ntt" => Transformed(Width) /\ \A n \in 0..255 : w[n] = 0)'
    BY <2>1 DEF TransformInv, Transformed, Width
  <2>5. (at = "pointwise" => Transformed(1)
           /\ \A n \in 0..255 : Same(R * w[n], SumFunction(UptoTerms(i - 1, n))))'
    BY <2>1, ZenonT(60) DEF TransformInv, Transformed, UptoTerms
  <2>6. (at = "invntt" => SumValues(len, w))'
    BY <2>1, <2>3 DEF TransformInv, SumValues
  <2>7. (at = "done" => \A n \in 0..255 : Same(ValueAt(w, n), SumFunction(AllTerms(n))))'
    BY <2>1, <2>3 DEF TransformInv
  <2> QED BY <1>2, <2>2, <2>4, <2>5, <2>6, <2>7 DEF TransformInv
<1> QED BY <1>2, <1>3, LayerTransforms, ReturnTransforms, PointwiseAdds, ReduceTransforms,
        InverseTransforms, ScaleTransforms DEF NttNext

LEMMA TransformMultiplies ==
  ASSUME MLDSA44Roots, TransformInv
  PROVE  NttMultiplies
<1>1. NttInv /\ SumKnown
  BY DEF TransformInv
<1>2. /\ Root /\ Idx = 0..255 /\ Q \in Nat \ {0} /\ w \in [0..255 -> Int]
  BY <1>1, TransformTypes DEF Numbers
<1>3. ASSUME at = "pointwise", NEW k \in DOMAIN sum, NEW n \in Idx
      PROVE  (v[k][n] - ValueAt(sum[k].v, n)) % Q = 0
  <2>1. Transformed(1)
    BY <1>3, ZenonT(60) DEF TransformInv
  <2>2. n \in 0..255
    BY <1>2
  <2>3. v[k][n] \in Int /\ Same(v[k][n], ValueAt(sum[k].v, n))
    BY <1>1, <2>1, <2>2, FactorIsValue, ZenonT(60)
  <2>4. ValueAt(sum[k].v, n) \in Int
    BY <1>1, <1>2, <2>2, TermType
  <2> QED BY <1>2, <2>3, <2>4, SameRemainder, ZenonT(60)
<1>4. ASSUME at = "done", NEW n \in Idx
      PROVE  (ValueAt(w, n) - SumFunction([k \in DOMAIN sum |-> TermAt(sum[k], n)])) % Q = 0
  <2>1. n \in 0..255
    BY <1>2
  <2>2. Same(ValueAt(w, n), SumFunction(AllTerms(n)))
    BY <1>4, <2>1 DEF TransformInv
  <2>3. ValueAt(w, n) \in Int /\ SumFunction(AllTerms(n)) \in Int
    BY <1>1, <1>2, <2>1, ValueType, AllType, ZenonT(60)
  <2>4. (ValueAt(w, n) - SumFunction(AllTerms(n))) % Q = 0
    BY <1>2, <2>2, <2>3, SameRemainder
  <2> QED BY <2>4, Zenon DEF AllTerms
<1> QED BY <1>3, <1>4, Zenon DEF NttMultiplies

\* ntt gives the values at the 256 roots, and the result of the products and
\* invntt_tomont has there the value of the sum of products.
THEOREM ProductsByTransform ==
  ASSUME MLDSA44Roots
  PROVE  NttSpec => []NttMultiplies
<1>1. NttInit => TransformInv
  BY TransformStarts
<1>2. TransformInv /\ [NttNext]_nttVars => TransformInv'
  BY TransformKept
<1>3. TransformInv => NttMultiplies
  BY TransformMultiplies
<1> QED BY <1>1, <1>2, <1>3, PTL DEF NttSpec

-----------------------------------------------------------------------------
\* One layer, and its inverse, without montgomery_reduce.
OneHalf == 4190209

Split(p, l) ==
  [y \in 0..255 |->
     IF y % (2 * l) < l THEN p[y] + Factor(l, y) * p[y + l]
     ELSE p[y - l] - Factor(l, y) * p[y]]

Merge(q, l) ==
  [y \in 0..255 |->
     IF y % (2 * l) < l THEN OneHalf * (q[y] + q[y + l])
     ELSE OneHalf * ((-InverseFactor(l, y)) * (q[y - l] - q[y]))]

\* OneHalf is the inverse of 2 modulo Q.
LEMMA HalfIs ==
  ASSUME Root
  PROVE  OneHalf \in Int /\ Same(2 * OneHalf, 1)
<1>1. OneHalf \in Int /\ 2 * OneHalf = 1 + Q * 1
  BY SMT DEF OneHalf, Root, Numbers
<1> QED BY <1>1 DEF Same

\* The pair at place x of Split and of Merge.
SplitsAt(p, l, n, x) ==
  /\ x \in 0..255 /\ x + l \in 0..255
  /\ Split(p, l)[x] = p[x] + Factor(l, n) * p[x + l]
  /\ Split(p, l)[x + l] = p[x] - Factor(l, n) * p[x + l]
  /\ Merge(p, l)[x] = OneHalf * (p[x] + p[x + l])
  /\ Merge(p, l)[x + l] = OneHalf * ((-InverseFactor(l, n)) * (p[x] - p[x + l]))

\* Every coefficient of a block has its partner in the other half.
LEMMA SplitAt ==
  ASSUME Root, NEW l \in LayerLens, NEW n \in 0..255, NEW j \in 0..(l - 1),
         NEW p \in [0..255 -> Int]
  PROVE  SplitsAt(p, l, n, BlockStart(l, n) + j)
<1> DEFINE x == BlockStart(l, n) + j
<1>1. InPlace(l, n, j)
  BY PlaceIs
<1>2. /\ x \in 0..255 /\ x + l \in 0..255 /\ x % (2 * l) < l /\ ~((x + l) % (2 * l) < l)
      /\ x \div (2 * l) = n \div (2 * l) /\ (x + l) \div (2 * l) = n \div (2 * l)
  BY <1>1 DEF InPlace
<1>3. /\ Factor(l, x) = Factor(l, n) /\ Factor(l, x + l) = Factor(l, n)
      /\ InverseFactor(l, x + l) = InverseFactor(l, n)
  BY <1>2 DEF Factor, InverseFactor, Twiddle, InverseTwiddle
<1>4. (x + l) - l = x
  BY <1>2 DEF LayerLens
<1> HIDE DEF x
<1>5. SplitsAt(p, l, n, x)
  BY <1>2, <1>3, <1>4, ZenonT(60) DEF Split, Merge, SplitsAt
<1> QED BY <1>5 DEF x

\* Both are polynomials with integer coefficients.
LEMMA SplitType ==
  ASSUME Root, NEW l \in LayerLens, NEW p \in [0..255 -> Int]
  PROVE  Split(p, l) \in [0..255 -> Int] /\ Merge(p, l) \in [0..255 -> Int]
<1>1. ASSUME NEW y \in 0..255
      PROVE  /\ Factor(l, y) \in Int /\ InverseFactor(l, y) \in Int /\ p[y] \in Int
             /\ y % (2 * l) < l => p[y + l] \in Int
             /\ ~(y % (2 * l) < l) => p[y - l] \in Int
  <2>1. Factor(l, y) \in Int /\ InverseFactor(l, y) \in Int
    BY FactorTypes, ZenonT(60)
  <2>2. /\ y % (2 * l) < l => y + l \in 0..255
        /\ ~(y % (2 * l) < l) => y - l \in 0..255
    <3>1. CASE l = 128 BY <3>1, 2 * l = 256, SMT
    <3>2. CASE l = 64 BY <3>2, 2 * l = 128, SMT
    <3>3. CASE l = 32 BY <3>3, 2 * l = 64, SMT
    <3>4. CASE l = 16 BY <3>4, 2 * l = 32, SMT
    <3>5. CASE l = 8 BY <3>5, 2 * l = 16, SMT
    <3>6. CASE l = 4 BY <3>6, 2 * l = 8, SMT
    <3>7. CASE l = 2 BY <3>7, 2 * l = 4, SMT
    <3>8. CASE l = 1 BY <3>8, 2 * l = 2, SMT
    <3> QED BY <3>1, <3>2, <3>3, <3>4, <3>5, <3>6, <3>7, <3>8 DEF LayerLens
  <2> QED BY <2>1, <2>2
<1>2. ASSUME NEW y \in 0..255
      PROVE  Split(p, l)[y] \in Int /\ Merge(p, l)[y] \in Int
  <2> DEFINE F == Factor(l, y)
             G == InverseFactor(l, y)
             x == p[y]
  <2>1. F \in Int /\ G \in Int /\ -G \in Int /\ x \in Int /\ OneHalf \in Int
    <3>1. F \in Int /\ G \in Int /\ x \in Int
      BY <1>1, ZenonT(60)
    <3> HIDE DEF F, G, x
    <3>2. -G \in Int
      BY <3>1
    <3> QED BY <3>1, <3>2, HalfIs
  <2>2. CASE y % (2 * l) < l
    <3> DEFINE z == p[y + l]
    <3>1. Split(p, l)[y] = x + F * z /\ Merge(p, l)[y] = OneHalf * (x + z)
      BY <2>2, Zenon DEF Split, Merge
    <3>2. z \in Int
      BY <1>1, <2>2, ZenonT(60)
    <3> HIDE DEF F, x, z
    <3>3. F * z \in Int /\ x + z \in Int
      BY <2>1, <3>2, RingLaws
    <3> QED BY <2>1, <3>1, <3>3, RingLaws
  <2>3. CASE ~(y % (2 * l) < l)
    <3> DEFINE z == p[y - l]
    <3>1. Split(p, l)[y] = z - F * x /\ Merge(p, l)[y] = OneHalf * ((-G) * (z - x))
      BY <2>3, Zenon DEF Split, Merge
    <3>2. z \in Int
      BY <1>1, <2>3, ZenonT(60)
    <3> HIDE DEF F, G, x, z
    <3>3. F * x \in Int /\ z - x \in Int
      BY <2>1, <3>2, RingLaws
    <3>4. (-G) * (z - x) \in Int
      BY <2>1, <3>3, RingLaws
    <3> QED BY <2>1, <3>1, <3>2, <3>3, <3>4, RingLaws
  <2> QED BY <2>2, <2>3
<1> QED BY <1>2, ZenonT(60) DEF Split, Merge

\* Split makes the pairs of a layer, so it leaves the values.
LEMMA SplitPairs ==
  ASSUME Root, NEW l \in LayerLens, NEW p \in [0..255 -> Int], NEW n \in 0..255
  PROVE  Pairs(p, Split(p, l), l, n)
<1> SUFFICES ASSUME NEW j \in 0..(l - 1)
             PROVE  PairAt(p, Split(p, l), l, n, BlockStart(l, n) + j)
  BY DEF Pairs
<1> DEFINE x == BlockStart(l, n) + j
           s0 == Split(p, l)[x]
           s1 == Split(p, l)[x + l]
<1>1. /\ x \in 0..255 /\ x + l \in 0..255
      /\ s0 = p[x] + Factor(l, n) * p[x + l]
      /\ s1 = p[x] - Factor(l, n) * p[x + l]
  <2>1. SplitsAt(p, l, n, x)
    BY SplitAt, ZenonT(60)
  <2> HIDE DEF x
  <2> QED BY <2>1 DEF SplitsAt
<1>2. s0 \in Int /\ s1 \in Int
  BY <1>1, SplitType
<1>3. Same(s0, s0) /\ Same(s1, s1)
  BY <1>2, SameBasics, SMTT(60) DEF Root, Numbers
<1> QED BY <1>1, <1>3, ZenonT(60) DEF PairAt

\* The pair that Merge makes, split again.
LEMMA MergedSame ==
  ASSUME Root, NEW F \in Int, NEW G \in Int, Same(F * G, -1), NEW x \in Int, NEW y \in Int
  PROVE  /\ Same(x, OneHalf * (x + y) + F * (OneHalf * ((-G) * (x - y))))
         /\ Same(y, OneHalf * (x + y) - F * (OneHalf * ((-G) * (x - y))))
<1>0. Q \in Int
  BY DEF Root, Numbers
<1>1. PICK s \in Int : F * G = -1 + Q * s
  BY DEF Same
<1>2. PICK t \in Int : 2 * OneHalf = 1 + Q * t
  BY HalfIs DEF Same
<1> DEFINE h == OneHalf
           d == x - y
           e == F * (h * ((-G) * d))
<1>3. h \in Int /\ d \in Int
  BY HalfIs
<1>4. e = h * d + Q * (-(s * (h * d))) /\ -(s * (h * d)) \in Int
  <2>1. h * d \in Int /\ s * (h * d) \in Int /\ G * (h * d) \in Int
    BY <1>1, <1>3, RingLaws
  <2> HIDE DEF h, d
  <2>2. e = -((F * G) * (h * d))
    BY <1>3, SMT
  <2>3. (F * G) * (h * d) = -(h * d) + Q * (s * (h * d))
    BY <1>0, <1>1, <2>1, SMT
  <2>4. Q * (-(s * (h * d))) = -(Q * (s * (h * d)))
    BY <1>0, <2>1, RingLaws
  <2>5. Q * (s * (h * d)) \in Int /\ (F * G) * (h * d) \in Int
    BY <1>0, <2>1, RingLaws
  <2> QED BY <2>1, <2>2, <2>3, <2>4, <2>5
<1> DEFINE k == -(s * (h * d))
           sm1 == h * (x + y)
<1>5. sm1 + h * d = x + Q * (t * x) /\ t * x \in Int /\ sm1 \in Int /\ h * d \in Int
  <2> HIDE DEF h
  <2>1. sm1 + h * d = (2 * h) * x
    BY <1>3, SMT
  <2>2. (1 + Q * t) * x = x + Q * (t * x)
    BY <1>0, <1>2, SMT
  <2>3. t * x \in Int /\ sm1 \in Int /\ h * d \in Int
    BY <1>2, <1>3, RingLaws
  <2> QED BY <1>2, <2>1, <2>2, <2>3 DEF h
<1>6. sm1 - h * d = y + Q * (t * y) /\ t * y \in Int
  <2> HIDE DEF h
  <2>1. sm1 - h * d = (2 * h) * y
    BY <1>3, SMT
  <2>2. (1 + Q * t) * y = y + Q * (t * y)
    BY <1>0, <1>2, SMT
  <2>3. t * y \in Int
    BY <1>2, <1>3, RingLaws
  <2> QED BY <1>2, <2>1, <2>2, <2>3 DEF h
<1>7. k \in Int /\ e = h * d + Q * k
  BY <1>4
<1> HIDE DEF h, d, e, k, sm1
<1>8. /\ Q * (t * x) \in Int /\ Q * (t * y) \in Int /\ Q * k \in Int /\ -(t * x) - k \in Int
      /\ k - t * y \in Int
      /\ Q * (-(t * x) - k) = -(Q * (t * x)) - Q * k
      /\ Q * (k - t * y) = Q * k - Q * (t * y)
  <2>1. \A p, q \in Int : /\ Q * p \in Int /\ Q * (p - q) = Q * p - Q * q
                          /\ Q * (-p - q) = -(Q * p) - Q * q
    BY <1>0, Z3
  <2>2. -(t * x) - k \in Int /\ k - t * y \in Int
    BY <1>5, <1>6, <1>7
  <2> QED BY <1>5, <1>6, <1>7, <2>1, <2>2
<1>9. x = sm1 + e + Q * (-(t * x) - k) /\ y = sm1 - e + Q * (k - t * y)
  <2> DEFINE A == h * d
             B == Q * (t * x)
             C == Q * (t * y)
             K == Q * k
  <2>1. /\ A \in Int /\ B \in Int /\ C \in Int /\ K \in Int /\ sm1 \in Int
        /\ sm1 + A = x + B /\ sm1 - A = y + C /\ e = A + K
    BY <1>5, <1>6, <1>7, <1>8
  <2> HIDE DEF A, B, C, K
  <2>2. x = sm1 + e + (-B - K) /\ y = sm1 - e + (K - C)
    BY <2>1
  <2> QED BY <1>8, <2>2 DEF B, C, K
<1>10. Same(x, sm1 + e) /\ Same(y, sm1 - e)
  BY <1>8, <1>9 DEF Same
<1> QED BY <1>10 DEF h, d, e, sm1

\* Merge goes back: q has the values of the polynomial it makes.
LEMMA MergePairs ==
  ASSUME Root, NEW l \in LayerLens, NEW q \in [0..255 -> Int], NEW n \in 0..255
  PROVE  Pairs(Merge(q, l), q, l, n)
<1> SUFFICES ASSUME NEW j \in 0..(l - 1)
             PROVE  PairAt(Merge(q, l), q, l, n, BlockStart(l, n) + j)
  BY DEF Pairs
<1> DEFINE x == BlockStart(l, n) + j
           F == Factor(l, n)
           G == InverseFactor(l, n)
           y0 == q[x]
           y1 == q[x + l]
<1>1. /\ x \in 0..255 /\ x + l \in 0..255
      /\ Merge(q, l)[x] = OneHalf * (y0 + y1)
      /\ Merge(q, l)[x + l] = OneHalf * ((-G) * (y0 - y1))
  <2>1. SplitsAt(q, l, n, x)
    BY SplitAt
  <2> HIDE DEF x
  <2> QED BY <2>1 DEF SplitsAt
<1>2. F \in Int /\ G \in Int /\ Same(F * G, -1)
  BY FactorTypes, FactorInverse, ZenonT(60)
<1>3. y0 \in Int /\ y1 \in Int
  BY <1>1
<1>4. /\ Same(y0, OneHalf * (y0 + y1) + F * (OneHalf * ((-G) * (y0 - y1))))
      /\ Same(y1, OneHalf * (y0 + y1) - F * (OneHalf * ((-G) * (y0 - y1))))
  <2> HIDE DEF F, G, y0, y1
  <2> QED BY <1>2, <1>3, MergedSame
<1> QED BY <1>1, <1>4, ZenonT(60) DEF PairAt

\* If both the sum and the difference vanish, so does the pair.
LEMMA PairVanishes ==
  ASSUME Root, NEW F \in Int, NEW G \in Int, Same(F * G, -1), NEW x \in Int, NEW y \in Int,
         Same(x + F * y, 0), Same(x - F * y, 0)
  PROVE  Same(x, 0) /\ Same(y, 0)
<1>0. Q \in Int
  BY DEF Root, Numbers
<1>1. PICK s \in Int : F * G = -1 + Q * s
  BY DEF Same
<1>2. PICK t \in Int : 2 * OneHalf = 1 + Q * t
  BY HalfIs DEF Same
<1>3. PICK k1 \in Int : x + F * y = Q * k1
  <2>1. \A k \in Int : 0 + Q * k = Q * k
    BY <1>0, RingLaws
  <2> QED BY <2>1 DEF Same
<1>4. PICK k2 \in Int : x - F * y = Q * k2
  <2>1. \A k \in Int : 0 + Q * k = Q * k
    BY <1>0, RingLaws
  <2> QED BY <2>1 DEF Same
<1> DEFINE h == OneHalf
<1>5. h \in Int /\ 2 * h = 1 + Q * t
  BY <1>2, HalfIs
<1> HIDE DEF h
<1>6. F * y \in Int /\ Q * k1 \in Int /\ Q * k2 \in Int
  BY <1>0, RingLaws
<1>7. 2 * x = Q * (k1 + k2) /\ 2 * (F * y) = Q * (k1 - k2)
  <2>1. Q * (k1 + k2) = Q * k1 + Q * k2 /\ Q * (k1 - k2) = Q * k1 - Q * k2
    BY <1>0, Z3
  <2> QED BY <1>3, <1>4, <1>6, <2>1
<1>8. x = 0 + Q * (h * (k1 + k2) - t * x) /\ h * (k1 + k2) - t * x \in Int
  BY <1>0, <1>5, <1>7, SMT
<1> DEFINE z == F * y
<1>9. z = 0 + Q * (h * (k1 - k2) - t * z) /\ h * (k1 - k2) - t * z \in Int
  <2>1. z \in Int /\ 2 * z = Q * (k1 - k2)
    BY <1>6, <1>7
  <2> HIDE DEF z
  <2> QED BY <1>0, <1>5, <2>1, SMT
<1> DEFINE c == h * (k1 - k2) - t * z
<1>10. c \in Int /\ F * y = Q * c
  <2>1. z \in Int /\ z = 0 + Q * c /\ c \in Int
    BY <1>6, <1>9
  <2> HIDE DEF c, z
  <2>2. Q * c \in Int
    BY <1>0, <2>1, RingLaws
  <2>3. z = Q * c
    BY <2>1, <2>2
  <2> QED BY <2>1, <2>3 DEF z
<1> HIDE DEF c
<1>11. y = 0 + Q * (s * y - G * c) /\ s * y - G * c \in Int
  <2>1. G * (F * y) = (F * G) * y
    BY SMT
  <2>2. (F * G) * y = -y + Q * (s * y)
    BY <1>0, <1>1, SMT
  <2>3. G * (Q * c) = Q * (G * c) /\ G * c \in Int /\ s * y \in Int
    BY <1>0, <1>10, RingLaws
  <2>4. Q * (s * y - G * c) = Q * (s * y) - Q * (G * c)
    BY <1>0, <2>3, RingLaws, Z3
  <2>5. Q * (s * y) \in Int /\ Q * (G * c) \in Int
    BY <1>0, <2>3, RingLaws
  <2> QED BY <1>10, <2>1, <2>2, <2>3, <2>4, <2>5
<1> QED BY <1>8, <1>11 DEF Same

\* Every coefficient is a multiple of Q.
Vanishes(p) == \A y \in 0..255 : Same(p[y], 0)

\* A polynomial whose layer vanishes does too.
LEMMA SplitVanishes ==
  ASSUME Root, NEW l \in LayerLens, NEW p \in [0..255 -> Int], Vanishes(Split(p, l))
  PROVE  Vanishes(p)
<1> SUFFICES ASSUME NEW y \in 0..255 PROVE Same(p[y], 0)
  BY ZenonT(60) DEF Vanishes
<1>1. PICK j \in 0..(l - 1) : y = BlockStart(l, y) + j \/ y = BlockStart(l, y) + j + l
  <2>1. \/ y - BlockStart(l, y) \in 0..(l - 1)
        \/ y - BlockStart(l, y) - l \in 0..(l - 1)
    <3>1. CASE l = 128 BY <3>1, 2 * l = 256, SMT DEF BlockStart
    <3>2. CASE l = 64 BY <3>2, 2 * l = 128, SMT DEF BlockStart
    <3>3. CASE l = 32 BY <3>3, 2 * l = 64, SMT DEF BlockStart
    <3>4. CASE l = 16 BY <3>4, 2 * l = 32, SMT DEF BlockStart
    <3>5. CASE l = 8 BY <3>5, 2 * l = 16, SMT DEF BlockStart
    <3>6. CASE l = 4 BY <3>6, 2 * l = 8, SMT DEF BlockStart
    <3>7. CASE l = 2 BY <3>7, 2 * l = 4, SMT DEF BlockStart
    <3>8. CASE l = 1 BY <3>8, 2 * l = 2, SMT DEF BlockStart
    <3> QED BY <3>1, <3>2, <3>3, <3>4, <3>5, <3>6, <3>7, <3>8 DEF LayerLens
  <2>2. BlockStart(l, y) \in Int /\ l \in Int
    BY SMT DEF LayerLens, BlockStart
  <2> HIDE DEF BlockStart
  <2>3. CASE y - BlockStart(l, y) \in 0..(l - 1)
    BY <2>2, <2>3
  <2>4. CASE y - BlockStart(l, y) - l \in 0..(l - 1)
    BY <2>2, <2>4
  <2> QED BY <2>1, <2>3, <2>4
<1> DEFINE x  == BlockStart(l, y) + j
           F  == Factor(l, y)
           G  == InverseFactor(l, y)
           p0 == p[x]
           p1 == p[x + l]
<1>2. /\ x \in 0..255 /\ x + l \in 0..255
      /\ Split(p, l)[x] = p0 + F * p1 /\ Split(p, l)[x + l] = p0 - F * p1
  <2>1. SplitsAt(p, l, y, x)
    BY SplitAt, ZenonT(60)
  <2> HIDE DEF x
  <2> QED BY <2>1 DEF SplitsAt
<1>3. Same(p0 + F * p1, 0) /\ Same(p0 - F * p1, 0)
  BY <1>2, ZenonT(60) DEF Vanishes
<1>4. F \in Int /\ G \in Int /\ Same(F * G, -1) /\ p0 \in Int /\ p1 \in Int
  BY <1>2, FactorTypes, FactorInverse, ZenonT(60)
<1>5. Same(p0, 0) /\ Same(p1, 0)
  <2> HIDE DEF x, F, G, p0, p1
  <2> QED BY <1>3, <1>4, PairVanishes
<1> QED BY <1>1, <1>5

\* All remainders of c coefficients have the value 0 at their roots.
AllVanish(p, c) == \A n \in 0..255 : Same(PartValue(p, c, n), 0)

\* The values of these remainders determine a polynomial modulo Q.
Determined(c) == \A p \in [0..255 -> Int] : AllVanish(p, c) => Vanishes(p)

\* p has the values q.
HasValues(p, q, c) == \A n \in 0..255 : Same(PartValue(p, c, n), q[n])

\* The values can be any.
Attained(c) ==
  \A q \in [0..255 -> Int] : \E p \in [0..255 -> Int] : HasValues(p, q, c)

\* From the remainders of a layer to those before it.
LEMMA LayerBack ==
  ASSUME Root, NEW l \in LayerLens, Determined(l), Attained(l)
  PROVE  Determined(2 * l) /\ Attained(2 * l)
<1>0. Q \in Int /\ 0 \in Int
  BY DEF Root, Numbers
<1>1. ASSUME NEW p \in [0..255 -> Int], AllVanish(p, 2 * l)
      PROVE  Vanishes(p)
  <2> DEFINE q == Split(p, l)
  <2>1. q \in [0..255 -> Int]
    BY SplitType
  <2>2. ASSUME NEW n \in 0..255 PROVE Same(PartValue(q, l, n), 0)
    <3>1. Same(PartValue(q, l, n), PartValue(p, 2 * l, n))
      BY <2>1, SplitPairs, PairsValue
    <3>2. Same(PartValue(p, 2 * l, n), 0)
      BY <1>1 DEF AllVanish
    <3>3. PartValue(q, l, n) \in Int /\ PartValue(p, 2 * l, n) \in Int
      BY <2>1, PartValueType, ZenonT(60)
    <3> QED BY <1>0, <3>1, <3>2, <3>3, SameBasics, ZenonT(60)
  <2>3. Vanishes(q)
    <3> HIDE DEF q
    <3>1. AllVanish(q, l)
      BY <2>2 DEF AllVanish
    <3> QED BY <2>1, <3>1 DEF Determined
  <2> QED BY <2>3, SplitVanishes
<1>2. ASSUME NEW q \in [0..255 -> Int]
      PROVE  \E p \in [0..255 -> Int] : HasValues(p, q, 2 * l)
  <2>1. PICK r \in [0..255 -> Int] : HasValues(r, q, l)
    BY DEF Attained
  <2> DEFINE p == Merge(r, l)
  <2>2. p \in [0..255 -> Int]
    BY SplitType
  <2>3. ASSUME NEW n \in 0..255 PROVE Same(PartValue(p, 2 * l, n), q[n])
    <3>1. Same(PartValue(r, l, n), PartValue(p, 2 * l, n))
      BY <2>2, MergePairs, PairsValue
    <3>2. Same(PartValue(r, l, n), q[n])
      BY <2>1, ZenonT(60) DEF HasValues
    <3>3. PartValue(r, l, n) \in Int /\ PartValue(p, 2 * l, n) \in Int /\ q[n] \in Int
      BY <2>2, PartValueType, ZenonT(60)
    <3> QED BY <1>0, <3>1, <3>2, <3>3, SameBasics
  <2> HIDE DEF p
  <2>4. HasValues(p, q, 2 * l)
    BY <2>3, ZenonT(60) DEF HasValues
  <2> QED BY <2>2, <2>4
<1> QED BY <1>1, <1>2 DEF Determined, Attained

\* From single coefficients, eight layers back to the whole polynomial.
LEMMA AllLayersBack ==
  ASSUME Root
  PROVE  Determined(256) /\ Attained(256)
<1>0. Q \in Int
  BY DEF Root, Numbers
<1>1. \A p \in [0..255 -> Int], n \in 0..255 : PartValue(p, 1, n) = p[n]
  BY ValueOfOne, ZenonT(60)
<1>2. Determined(1)
  BY <1>1, ZenonT(60) DEF Determined, AllVanish, Vanishes
<1>3. Attained(1)
  <2>1. ASSUME NEW q \in [0..255 -> Int] PROVE HasValues(q, q, 1)
    <3>1. \A n \in 0..255 : q[n] \in Int
      OBVIOUS
    <3> QED BY <1>0, <1>1, <3>1, SameBasics DEF HasValues
  <2> QED BY <2>1 DEF Attained
<1>l. \A l \in {1, 2, 4, 8, 16, 32, 64, 128} : l \in LayerLens
  BY DEF LayerLens
<1>4. Determined(2) /\ Attained(2)
  BY <1>l, <1>2, <1>3, LayerBack, 2 * 1 = 2
<1>5. Determined(4) /\ Attained(4)
  BY <1>l, <1>4, LayerBack, 2 * 2 = 4
<1>6. Determined(8) /\ Attained(8)
  BY <1>l, <1>5, LayerBack, 2 * 4 = 8
<1>7. Determined(16) /\ Attained(16)
  BY <1>l, <1>6, LayerBack, 2 * 8 = 16
<1>8. Determined(32) /\ Attained(32)
  BY <1>l, <1>7, LayerBack, 2 * 16 = 32
<1>9. Determined(64) /\ Attained(64)
  BY <1>l, <1>8, LayerBack, 2 * 32 = 64
<1>10. Determined(128) /\ Attained(128)
  BY <1>l, <1>9, LayerBack, 2 * 64 = 128
<1> QED BY <1>l, <1>10, LayerBack, 2 * 128 = 256

\* A polynomial is given by its values at the roots, and they can be any.
LEMMA ValuesGive ==
  ASSUME Root
  PROVE  /\ \A p \in [0..255 -> Int] :
              (\A n \in 0..255 : Same(ValueAt(p, n), 0)) => Vanishes(p)
         /\ \A q \in [0..255 -> Int] : \E p \in [0..255 -> Int] :
              \A n \in 0..255 : Same(ValueAt(p, n), q[n])
<1>0. Q \in Int /\ 0 \in Int
  BY DEF Root, Numbers
<1>1. ASSUME NEW p \in [0..255 -> Int], NEW n \in 0..255, NEW x \in Int
      PROVE  Same(ValueAt(p, n), x) <=> Same(PartValue(p, 256, n), x)
  <2>1. /\ PartValue(p, 256, n) \in Int /\ ValueAt(p, n) \in Int
        /\ Same(ValueAt(p, n), PartValue(p, 256, n))
    BY ValueType, ZenonT(60)
  <2> QED BY <1>0, <2>1, SameBasics
<1>2. ASSUME NEW p \in [0..255 -> Int], \A n \in 0..255 : Same(ValueAt(p, n), 0)
      PROVE  Vanishes(p)
  <2>1. AllVanish(p, 256)
    BY <1>0, <1>1, <1>2 DEF AllVanish
  <2> QED BY <2>1, AllLayersBack DEF Determined
<1>3. ASSUME NEW q \in [0..255 -> Int]
      PROVE  \E p \in [0..255 -> Int] : \A n \in 0..255 : Same(ValueAt(p, n), q[n])
  <2>1. PICK p \in [0..255 -> Int] : HasValues(p, q, 256)
    BY AllLayersBack DEF Attained
  <2>2. \A n \in 0..255 : Same(ValueAt(p, n), q[n])
    <3>1. ASSUME NEW n \in 0..255 PROVE Same(ValueAt(p, n), q[n])
      <4>1. q[n] \in Int /\ Same(PartValue(p, 256, n), q[n])
        BY <2>1, ZenonT(60) DEF HasValues
      <4> QED BY <1>1, <4>1, ZenonT(60)
    <3> QED BY <3>1, ZenonT(60)
  <2> QED BY <2>2, ZenonT(60)
<1> QED BY <1>2, <1>3

\* The terms whose sum is the value of p at the root of place n.
Terms(p, n) == [j \in Idx |-> p[j] * Point(n, j)]

\* Their sum is ValueAt, modulo Q.
LEMMA TermsValue ==
  ASSUME Root, NEW n \in 0..255, NEW p \in [0..255 -> Int]
  PROVE  /\ Terms(p, n) \in [Idx -> Int] /\ SumFunction(Terms(p, n)) \in Int
         /\ Same(ValueAt(p, n), SumFunction(Terms(p, n))) /\ ValueAt(p, n) \in Int
<1>0. Idx = 0..255
  BY DEF Root, Numbers, Idx
<1> DEFINE F == PartTerms(p, 256, n)
           T == Terms(p, n)
<1>1. ASSUME NEW j \in 0..255 PROVE F[j] = p[j] * Point(n, j)
  <2>1. j \in 0..(256 - 1) /\ 256 * (n \div 256) + j = j
    OBVIOUS
  <2>2. F[j] = p[256 * (n \div 256) + j] * Point(n, j)
    BY <2>1, ZenonT(60) DEF PartTerms
  <2> QED BY <2>1, <2>2
<1>2. /\ F \in [0..255 -> Int] /\ PartValue(p, 256, n) \in Int
      /\ Same(ValueAt(p, n), PartValue(p, 256, n)) /\ ValueAt(p, n) \in Int
  BY ValueType, ZenonT(60)
<1>3. T = F
  <2>1. \A j \in 0..255 : T[j] = F[j]
    BY <1>0, <1>1 DEF Terms
  <2>2. DOMAIN T = 0..255 /\ T = [j \in DOMAIN T |-> T[j]]
    BY <1>0 DEF Terms
  <2> HIDE DEF T, F
  <2> QED BY <1>2, <2>1, <2>2
<1> QED BY <1>0, <1>2, <1>3 DEF PartValue

\* 256 steps on, a power of a root has the other sign.
LEMMA PointTurns ==
  ASSUME Root, NEW n \in 0..255, NEW j \in Nat
  PROVE  Same(Point(n, j + 256), -Point(n, j))
<1>0. N = 256 /\ Q \in Int /\ 1 \in LayerLens
  BY DEF Root, Numbers, LayerLens
<1>1. brv[n] \in Nat
  <2>1. Line(1, n)
    BY <1>0, LineIs
  <2> QED BY <2>1 DEF Line
<1>2. Point(n, 256) = PowerAt(256)
  <2> DEFINE c == brv[n]
  <2>1. c \in Nat
    BY <1>1
  <2> HIDE DEF c
  <2>2. ((2 * c + 1) * 256) % 512 = 256 /\ 256 % 512 = 256
    BY <2>1, SMT
  <2>3. PowerAt((2 * c + 1) * 256) = PowerAt(256)
    BY <2>2 DEF PowerAt
  <2> QED BY <2>3 DEF Point, c
<1>3. Same(Point(n, 256), -1)
  BY <1>2, PowerLaws
<1> DEFINE x == Point(n, j)
           y == Point(n, 256)
           z == Point(n, j + 256)
<1>4. x \in Int /\ y \in Int /\ z \in Int /\ -1 \in Int
  <2>1. \A k \in Nat : Point(n, k) \in Int
    BY PointType
  <2>2. 256 \in Nat /\ j + 256 \in Nat /\ -1 \in Int
    OBVIOUS
  <2> QED BY <2>1, <2>2
<1>5. Same(z, x * y)
  BY <1>0, PointAdds, 256 \in Nat
<1> HIDE DEF x, y, z
<1>6. x * y \in Int /\ x * (-1) = -x /\ -x \in Int
  BY <1>4, RingLaws
<1>7. Same(x * y, x * (-1))
  BY <1>0, <1>3, <1>4, SameScaled DEF y
<1>8. Same(z, -x)
  BY <1>0, <1>4, <1>5, <1>6, <1>7, SameBasics
<1> QED BY <1>8 DEF x, z

\* Coefficient k of X^i times p comes from place Back(i, k).
Back(i0, k) == IF k >= i0 THEN k - i0 ELSE 256 + k - i0

\* The coefficient that Ext finds, with the sign that the power takes.
LEMMA TermShifts ==
  ASSUME Root, NEW n \in 0..255, NEW p \in RingPoly, NEW i0 \in 0..255, NEW k \in 0..255
  PROVE  /\ Back(i0, k) \in 0..255 /\ Ext(p, k - i0) \in Int
         /\ Same(Ext(p, k - i0) * Point(n, k),
                 Point(n, i0) * (p[Back(i0, k)] * Point(n, Back(i0, k))))
<1>0. N = 256 /\ Q \in Int /\ Idx = 0..255
  BY DEF Root, Numbers, Idx
<1> DEFINE m0 == Back(i0, k)
           x == p[m0]
           e == Ext(p, k - i0)
           P == Point(n, k)
           I == Point(n, i0)
           M == Point(n, m0)
<1>1. m0 \in 0..255 /\ m0 \in Nat /\ i0 \in Nat /\ k \in Nat
  BY SMTT(60) DEF Back
<1>2. x \in Int /\ P \in Int /\ I \in Int /\ M \in Int
  BY <1>0, <1>1, PointType DEF RingPoly, Poly
<1>3. CASE k >= i0
  <2>1. m0 + i0 = k /\ m0 = k - i0 /\ k - i0 >= 0
    BY <1>3 DEF Back
  <2>2. e = x
    BY <2>1 DEF Ext
  <2>3. Same(P, M * I)
    BY <1>1, <2>1, PointAdds
  <2> HIDE DEF x, P, I, M, m0, e
  <2>4. M * I \in Int /\ x * (M * I) = I * (x * M)
    BY <1>2, RingLaws, Z3
  <2>5. Same(x * P, x * (M * I))
    BY <1>0, <1>2, <2>3, <2>4, SameScaled
  <2>6. Same(e * P, I * (x * M)) /\ e \in Int
    BY <1>2, <2>2, <2>4, <2>5
  <2> QED BY <1>1, <2>6 DEF x, P, I, M, m0, e
<1>4. CASE ~(k >= i0)
  <2>1. m0 + i0 = k + 256 /\ m0 = 256 + (k - i0) /\ ~(k - i0 >= 0) /\ k - i0 >= -256
    BY <1>4 DEF Back
  <2>2. e = -x
    BY <1>0, <2>1 DEF Ext
  <2>3. Same(Point(n, k + 256), M * I) /\ Same(Point(n, k + 256), -P)
    BY <1>1, <2>1, PointAdds, PointTurns
  <2> DEFINE z == Point(n, k + 256)
  <2>4. z \in Int
    BY <1>1, PointType, k + 256 \in Nat
  <2> HIDE DEF x, P, I, M, m0, e, z
  <2>5. M * I \in Int /\ x * (M * I) = I * (x * M) /\ -P \in Int
        /\ x * (-P) = (-x) * P /\ x * (-P) \in Int /\ x * z \in Int /\ I * (x * M) \in Int
    <3>1. x * (M * I) = I * (x * M) /\ x * (-P) = (-x) * P
      BY <1>2, Z3
    <3>2. M * I \in Int /\ -P \in Int /\ x * M \in Int /\ x * z \in Int
      BY <1>2, <2>4, RingLaws
    <3>3. x * (-P) \in Int /\ I * (x * M) \in Int
      BY <1>2, <3>2, RingLaws
    <3> QED BY <3>1, <3>2, <3>3
  <2>6. Same(z, M * I) /\ Same(z, -P)
    BY <2>3 DEF z
  <2>7. Same(-P, M * I)
    BY <1>0, <2>4, <2>5, <2>6, SameBasics
  <2>8. Same(x * (-P), x * (M * I))
    BY <1>0, <1>2, <2>5, <2>7, SameScaled, ZenonT(60)
  <2>9. Same(e * P, I * (x * M)) /\ e \in Int
    BY <1>2, <2>2, <2>5, <2>8
  <2> QED BY <1>1, <2>9 DEF x, P, I, M, m0, e
<1> QED BY <1>3, <1>4

\* Turning by i is a permutation of the places.
LEMMA BackOnto ==
  ASSUME NEW i0 \in 0..255
  PROVE  /\ \A s, t \in 0..255 : Back(i0, s) = Back(i0, t) => s = t
         /\ \A x \in 0..255 : \E s \in 0..255 : Back(i0, s) = x
<1>1. \A s, t \in 0..255 : Back(i0, s) = Back(i0, t) => s = t
  BY DEF Back
<1>2. ASSUME NEW x \in 0..255
      PROVE  \E s \in 0..255 : Back(i0, s) = x
  <2>1. CASE x + i0 <= 255
    <3>1. x + i0 \in 0..255 /\ Back(i0, x + i0) = x
      BY <2>1 DEF Back
    <3> QED BY <3>1
  <2>2. CASE x + i0 > 255
    <3>1. x + i0 - 256 \in 0..255 /\ Back(i0, x + i0 - 256) = x
      BY <2>2 DEF Back
    <3> QED BY <3>1
  <2> QED BY <2>1, <2>2
<1> QED BY <1>1, <1>2, ZenonT(60)

\* The numbers of the ring under Root.
LEMMA RootNumbers ==
  ASSUME Root
  PROVE  /\ N = 256 /\ Idx = 0..255 /\ Q \in Nat \ {0} /\ Q \in Int /\ 0 \in Int
         /\ IsFiniteSet(Idx) /\ RingPoly = [0..255 -> Int]
<1>1. N = 256 /\ Q \in Nat \ {0} /\ Q \in Int /\ 0 \in Int
  BY DEF Root, Numbers
<1>2. Idx = 0..255
  BY <1>1, SMT DEF Idx
<1> QED BY <1>1, <1>2, IdxFinite DEF RingPoly, Poly

\* Powers of a root are integers.
LEMMA PointsType ==
  ASSUME Root, NEW n \in 0..255
  PROVE  \A j \in Idx : Point(n, j) \in Int
<1>1. \A j \in Nat : Point(n, j) \in Int
  BY PointType
<1>2. \A j \in Idx : j \in Nat
  BY IdxFinite
<1> QED BY <1>1, <1>2

\* X^i times p at a root: all the places where Ext finds it.
Row(p, i0, n) == [k \in Idx |-> Ext(p, k - i0) * Point(n, k)]

\* Its value is X^i at the root times that of p.
LEMMA RowValue ==
  ASSUME Root, NEW n \in 0..255, NEW p \in RingPoly, NEW i0 \in 0..255
  PROVE  /\ Row(p, i0, n) \in [Idx -> Int]
         /\ Same(SumFunction(Row(p, i0, n)), Point(n, i0) * SumFunction(Terms(p, n)))
<1>0. Q \in Int /\ Idx = 0..255 /\ p \in [0..255 -> Int] /\ IsFiniteSet(Idx)
  BY RootNumbers
<1> DEFINE G == Row(p, i0, n)
           T == Terms(p, n)
           P == Point(n, i0)
           m0 == [k \in Idx |-> Back(i0, k)]
           B == [k \in Idx |-> T[m0[k]]]
           PB == [k \in Idx |-> P * B[k]]
<1>1. T \in [Idx -> Int] /\ SumFunction(T) \in Int
  BY <1>0, TermsValue, ZenonT(60)
<1>2. P \in Int /\ \A k \in 0..255 : Point(n, k) \in Int
  <2>1. \A k \in Nat : Point(n, k) \in Int
    BY PointType
  <2>2. i0 \in Nat /\ \A k \in 0..255 : k \in Nat
    OBVIOUS
  <2> QED BY <2>1, <2>2
<1>s. IsFiniteSet(Idx) /\ Q \in Int
  BY <1>0
<1>3. ASSUME NEW k \in 0..255
      PROVE  /\ m0[k] \in 0..255 /\ G[k] \in Int /\ Same(G[k], P * B[k]) /\ B[k] \in Int
  <2>1. /\ Back(i0, k) \in 0..255 /\ Ext(p, k - i0) \in Int
        /\ Same(Ext(p, k - i0) * Point(n, k),
                 P * (p[Back(i0, k)] * Point(n, Back(i0, k))))
    BY TermShifts, ZenonT(60)
  <2>2. m0[k] = Back(i0, k) /\ G[k] = Ext(p, k - i0) * Point(n, k)
    BY <1>0 DEF Row
  <2>3. G[k] \in Int
    BY <1>2, <2>1, <2>2, RingLaws
  <2>4. T[Back(i0, k)] = p[Back(i0, k)] * Point(n, Back(i0, k))
    BY <1>0, <2>1 DEF Terms
  <2>5. B[k] = T[Back(i0, k)] /\ B[k] \in Int
    <3> HIDE DEF T
    <3>1. B[k] = T[Back(i0, k)]
      BY <1>0, <2>2
    <3> QED BY <1>0, <1>1, <2>1, <3>1, ZenonT(60)
  <2> HIDE DEF T, B, G, P, m0
  <2> QED BY <2>1, <2>2, <2>3, <2>4, <2>5
<1>4. G \in [Idx -> Int]
  BY <1>0, <1>3, ZenonT(60) DEF Row
<1>5. m0 \in [Idx -> Idx]
  BY <1>0, <1>3, ZenonT(60)
<1>6. /\ \A s, t \in Idx : m0[s] = m0[t] => s = t
      /\ \A x \in Idx : \E s \in Idx : m0[s] = x
  <2>1. \A s \in Idx : m0[s] = Back(i0, s)
    OBVIOUS
  <2>2. /\ \A s, t \in Idx : Back(i0, s) = Back(i0, t) => s = t
        /\ \A x \in Idx : \E s \in Idx : Back(i0, s) = x
    <3>1. /\ \A s, t \in 0..255 : Back(i0, s) = Back(i0, t) => s = t
          /\ \A x \in 0..255 : \E s \in 0..255 : Back(i0, s) = x
      BY BackOnto, ZenonT(60)
    <3>2. Idx = 0..255
      BY <1>0
    <3> QED BY <3>1, <3>2, Zenon
  <2> HIDE DEF m0
  <2> QED BY <2>1, <2>2, Zenon
<1>7. SumFunction(B) = SumFunction(T)
  <2> HIDE DEF m0, T
  <2>1. \A x \in Idx : T[x] # 0 => \E s \in Idx : m0[s] = x
    BY <1>6
  <2> QED BY <1>s, <1>1, <1>5, <1>6, <2>1, SumEmbeds
<1>8. B \in [Idx -> Int]
  <2> HIDE DEF m0, T
  <2> QED BY <1>1, <1>5
<1> HIDE DEF G, T, P, m0, B
<1>9. PB \in [Idx -> Int] /\ \A k \in Idx : PB[k] = P * B[k]
  BY <1>2, <1>8, RingLaws
<1> HIDE DEF PB
<1>10. SumFunction(PB) = P * SumFunction(B)
  BY <1>s, <1>2, <1>8, <1>9, SumScales
<1>11. \A k \in Idx : Same(G[k], PB[k])
  BY <1>0, <1>3, <1>9, ZenonT(60)
<1>12. Same(SumFunction(G), SumFunction(PB))
  BY <1>s, <1>4, <1>9, <1>11, SameSums
<1> QED BY <1>4, <1>7, <1>10, <1>12 DEF G, T, P

\* A product in the ring has at each root the product of the values.
LEMMA MulValue ==
  ASSUME Root, NEW n \in 0..255, NEW p \in RingPoly, NEW q \in RingPoly
  PROVE  Same(SumFunction(Terms(Mul(p, q), n)),
              SumFunction(Terms(p, n)) * SumFunction(Terms(q, n)))
<1>0. /\ Q \in Int /\ Idx = 0..255 /\ N = 256 /\ IsFiniteSet(Idx)
      /\ p \in [0..255 -> Int] /\ q \in [0..255 -> Int]
  BY RootNumbers
<1>s. IsFiniteSet(Idx) /\ Q \in Int
  BY <1>0
<1>p. \A k \in Idx : Point(n, k) \in Int
  BY PointsType
<1> DEFINE M == Terms(Mul(p, q), n)
           g == [k \in Idx |-> [j \in Idx |-> p[j] * Row(q, j, n)[k]]]
           C == [j \in Idx |-> SumFunction([k \in Idx |-> g[k][j]])]
           E == SumFunction(Terms(q, n))
           T == Terms(p, n)
           D == [j \in Idx |-> E * T[j]]
<1>1. E \in Int /\ T \in [Idx -> Int] /\ SumFunction(T) \in Int
  BY <1>0, TermsValue, ZenonT(60)
<1>2. \A j \in Idx : Row(q, j, n) \in [Idx -> Int]
  BY <1>0, RowValue, ZenonT(60)
<1>3. ASSUME NEW k \in Idx, NEW j \in Idx PROVE p[j] * Row(q, j, n)[k] \in Int
  <2>1. p[j] \in Int
    BY <1>0
  <2>2. Row(q, j, n)[k] \in Int
    BY <1>2
  <2> QED BY <2>1, <2>2, RingLaws
<1>4. g \in [Idx -> [Idx -> Int]]
  BY <1>3
<1>5. ASSUME NEW k \in Idx PROVE M[k] = SumFunction(g[k])
  <2> DEFINE A == Addends(p, q, k)
             X == Point(n, k)
  <2>1. Mul(p, q)[k] = SumFunction(A) /\ A \in [Idx -> Int]
    <3>1. Mul(p, q)[k] = SumFunction(A)
      BY MulSum
    <3>2. k \in (-N)..(N - 1)
      BY <1>0
    <3>3. A \in [Idx -> Int]
      BY <3>2, AddendsType
    <3> QED BY <3>1, <3>3
  <2>2. X \in Int
    BY <1>p
  <2>3. \A j \in Idx : g[k][j] = X * A[j]
    <3>1. ASSUME NEW j \in Idx PROVE p[j] * Row(q, j, n)[k] = X * (p[j] * Ext(q, k - j))
      <4>1. Row(q, j, n)[k] = Ext(q, k - j) * X
        BY DEF Row
      <4>2. Ext(q, k - j) \in Int /\ p[j] \in Int
        BY <1>0, TermShifts, ZenonT(60)
      <4> HIDE DEF X
      <4> QED BY <2>2, <4>1, <4>2, Z3
    <3>2. \A j \in Idx : A[j] = p[j] * Ext(q, k - j)
      BY DEF Addends
    <3> QED BY <3>1, <3>2
  <2>4. g[k] \in [Idx -> Int]
    <3> HIDE DEF g
    <3> QED BY <1>4
  <2>5. M[k] = SumFunction(A) * X /\ SumFunction(A) \in Int
    <3>1. M[k] = Mul(p, q)[k] * X
      BY DEF Terms
    <3>2. SumFunction(A) \in Int
      BY <1>s, <2>1, SumType
    <3> QED BY <2>1, <3>1, <3>2
  <2>a. A \in [Idx -> Int]
    BY <2>1
  <2> HIDE DEF A, X, g, M
  <2>6. SumFunction(g[k]) = X * SumFunction(A)
    BY <1>s, <2>2, <2>3, <2>4, <2>a, SumScales
  <2> QED BY <2>2, <2>5, <2>6, RingLaws
<1>6. SumFunction(M) = SumFunction(C)
  <2>1. M = [k \in Idx |-> SumFunction(g[k])]
    <3> HIDE DEF g
    <3> QED BY <1>5 DEF Terms
  <2> HIDE DEF g, M
  <2> QED BY <1>s, <1>4, <2>1, SumSwaps DEF C
<1>7. ASSUME NEW j \in Idx PROVE C[j] \in Int /\ Same(C[j], E * T[j]) /\ T[j] \in Int
  <2> DEFINE W == Row(q, j, n)
             V == [k \in Idx |-> g[k][j]]
             x == p[j]
             P == Point(n, j)
  <2>1. W \in [Idx -> Int] /\ Same(SumFunction(W), P * E)
    BY <1>0, RowValue, ZenonT(60)
  <2>2. x \in Int /\ P \in Int /\ T[j] = x * P
    <3>1. x \in Int
      BY <1>0
    <3> QED BY <1>p, <3>1 DEF Terms
  <2>3. V \in [Idx -> Int] /\ \A k \in Idx : V[k] = x * W[k]
    <3>1. \A k \in Idx : V[k] = x * W[k]
      OBVIOUS
    <3>2. \A k \in Idx : x * W[k] \in Int
      BY <1>3
    <3> QED BY <3>1, <3>2
  <2> HIDE DEF V, W, x, P, E, T
  <2>4. SumFunction(V) = x * SumFunction(W) /\ SumFunction(W) \in Int
    <3>1. W \in [Idx -> Int]
      BY <2>1
    <3>2. SumFunction(V) = x * SumFunction(W)
      BY <1>s, <2>2, <2>3, <3>1, SumScales
    <3> QED BY <1>s, <3>1, <3>2, SumType
  <2>5. P * E \in Int /\ x * SumFunction(W) \in Int
    BY <1>1, <2>2, <2>4, RingLaws
  <2>6. Same(x * SumFunction(W), x * (P * E))
    BY <1>s, <2>1, <2>2, <2>4, <2>5, SameScaled
  <2>7. x * (P * E) = E * (x * P) /\ x * P \in Int
    BY <1>1, <2>2, Z3
  <2>8. C[j] = SumFunction(V)
    BY DEF V
  <2> HIDE DEF C
  <2> QED BY <2>2, <2>4, <2>5, <2>6, <2>7, <2>8
<1> HIDE DEF M, g, C, E, T
<1>8. C \in [Idx -> Int]
  BY <1>7 DEF C
<1>9. D \in [Idx -> Int] /\ \A j \in Idx : D[j] = E * T[j]
  <2>1. \A j \in Idx : E * T[j] \in Int
    BY <1>1, RingLaws
  <2> QED BY <2>1
<1> HIDE DEF D
<1>10. Same(SumFunction(C), SumFunction(D))
  <2>1. \A j \in Idx : Same(C[j], D[j])
    BY <1>7, <1>9
  <2> QED BY <1>s, <1>8, <1>9, <2>1, SameSums
<1>11. SumFunction(D) = E * SumFunction(T)
  BY <1>s, <1>1, <1>9, SumScales
<1>12. E * SumFunction(T) = SumFunction(T) * E
  BY <1>1, RingLaws
<1> QED BY <1>6, <1>10, <1>11, <1>12 DEF M, E, T

\* The value of p at the root of place n, unreduced.
ValueOf(p, n) == SumFunction(Terms(p, n))

\* D is the sum of the products P[k] V[k], each times s[k].
Combines(D, s, P, V, S) ==
  /\ IsFiniteSet(S) /\ s \in [S -> Int] /\ P \in [S -> RingPoly] /\ V \in [S -> RingPoly]
  /\ D \in RingPoly
  /\ \A j \in Idx : D[j] = SumFunction([k \in S |-> s[k] * Mul(P[k], V[k])[j]])

\* The products of the values, each times s[k].
ValueProducts(s, P, V, S, n) ==
  [k \in S |-> s[k] * (ValueOf(P[k], n) * ValueOf(V[k], n))]

\* The value of a sum of products in the ring.
LEMMA CombinationValue ==
  ASSUME Root, NEW n \in 0..255, NEW S, NEW s, NEW P, NEW V, NEW D, Combines(D, s, P, V, S)
  PROVE  /\ ValueProducts(s, P, V, S, n) \in [S -> Int]
         /\ Same(ValueOf(D, n), SumFunction(ValueProducts(s, P, V, S, n)))
<1>h. /\ IsFiniteSet(S) /\ s \in [S -> Int] /\ P \in [S -> RingPoly] /\ V \in [S -> RingPoly]
      /\ D \in RingPoly
      /\ \A j \in Idx : D[j] = SumFunction([k \in S |-> s[k] * Mul(P[k], V[k])[j]])
  BY DEF Combines
<1> USE <1>h
<1>0. Idx = 0..255 /\ RingPoly = [0..255 -> Int]
  BY RootNumbers
<1>s. IsFiniteSet(Idx) /\ Q \in Int
  BY RootNumbers
<1>p. \A j \in Idx : Point(n, j) \in Int
  BY PointsType
<1>v. \A p \in RingPoly : ValueOf(p, n) \in Int /\ Terms(p, n) \in [Idx -> Int]
  <2>1. \A p \in [0..255 -> Int] : Terms(p, n) \in [Idx -> Int] /\ SumFunction(Terms(p, n)) \in Int
    BY TermsValue, ZenonT(60)
  <2> QED BY <1>0, <2>1, ZenonT(60) DEF ValueOf
<1> DEFINE M == [k \in S |-> Mul(P[k], V[k])]
           g == [j \in Idx |-> [k \in S |-> Point(n, j) * (s[k] * M[k][j])]]
           C == [k \in S |-> SumFunction([j \in Idx |-> g[j][k]])]
           E == [k \in S |-> s[k] * (ValueOf(P[k], n) * ValueOf(V[k], n))]
<1>1. ASSUME NEW k \in S
      PROVE  /\ M[k] = Mul(P[k], V[k]) /\ M[k] \in RingPoly /\ P[k] \in RingPoly /\ V[k] \in RingPoly
             /\ s[k] \in Int /\ \A j \in Idx : M[k][j] \in Int
  <2>1. M[k] = Mul(P[k], V[k]) /\ P[k] \in RingPoly /\ V[k] \in RingPoly /\ s[k] \in Int
    OBVIOUS
  <2>2. Mul(P[k], V[k]) \in RingPoly
    BY <2>1, MulSum
  <2> QED BY <2>1, <2>2 DEF RingPoly, Poly
<1>2. ASSUME NEW j \in Idx, NEW k \in S
      PROVE  s[k] * M[k][j] \in Int /\ Point(n, j) * (s[k] * M[k][j]) \in Int
  BY <1>p, <1>1, RingLaws
<1>3. g \in [Idx -> [S -> Int]]
  BY <1>2
<1>4. ASSUME NEW j \in Idx PROVE Terms(D, n)[j] = SumFunction(g[j])
  <2> DEFINE A == [k \in S |-> s[k] * M[k][j]]
             X == Point(n, j)
  <2>1. A \in [S -> Int]
    BY <1>2
  <2>2. A = [k \in S |-> s[k] * Mul(P[k], V[k])[j]]
    OBVIOUS
  <2>3. D[j] = SumFunction(A)
    <3> HIDE DEF M
    <3> QED BY <2>2
  <2>4. \A k \in S : g[j][k] = X * A[k]
    OBVIOUS
  <2>5. g[j] \in [S -> Int]
    <3> HIDE DEF g
    <3> QED BY <1>3
  <2>6. X \in Int
    BY <1>p
  <2>7. Terms(D, n)[j] = D[j] * X
    BY DEF Terms
  <2> HIDE DEF A, X, g
  <2>8. SumFunction(g[j]) = X * SumFunction(A) /\ SumFunction(A) \in Int
    <3> DEFINE G == g[j]
    <3>1. IsFiniteSet(S) /\ G \in [S -> Int] /\ \A k \in S : G[k] = X * A[k]
      BY <2>4, <2>5
    <3> HIDE <1>h
    <3> HIDE DEF G
    <3>2. SumFunction(G) = X * SumFunction(A)
      BY <2>1, <2>6, <3>1, SumScales
    <3>3. SumFunction(A) \in Int
      BY <2>1, <3>1, SumType
    <3> QED BY <3>2, <3>3 DEF G
  <2> QED BY <2>3, <2>6, <2>7, <2>8, RingLaws
<1>5. ValueOf(D, n) = SumFunction(C)
  <2>1. Terms(D, n) = [j \in Idx |-> SumFunction(g[j])]
    <3> HIDE DEF g
    <3> QED BY <1>4 DEF Terms
  <2> HIDE DEF g
  <2> QED BY <1>s, <1>3, <2>1, SumSwaps, SMTT(60) DEF C, ValueOf
<1>6. ASSUME NEW k \in S PROVE C[k] \in Int /\ E[k] \in Int /\ Same(C[k], E[k])
  <2> DEFINE m0 == M[k]
             T == Terms(m0, n)
             G == [j \in Idx |-> g[j][k]]
             x == s[k]
             y == ValueOf(m0, n)
             z == ValueOf(P[k], n) * ValueOf(V[k], n)
  <2>1. m0 \in RingPoly /\ x \in Int
    BY <1>1
  <2>2. T \in [Idx -> Int] /\ y \in Int
    BY <1>v, <2>1
  <2>3. ASSUME NEW j \in Idx PROVE G[j] = x * T[j] /\ G[j] \in Int
    <3> DEFINE X == Point(n, j)
               c == m0[j]
    <3>1. X \in Int /\ c \in Int /\ T[j] = c * X /\ G[j] = X * (x * c) /\ G[j] \in Int
      BY <1>p, <1>1, <1>2 DEF Terms
    <3> HIDE DEF X, c, G, T, x
    <3> QED BY <2>1, <3>1, Z3
  <2>4. G \in [Idx -> Int]
    BY <2>3
  <2>5. Same(y, z) /\ z \in Int
    <3>1. M[k] = Mul(P[k], V[k]) /\ P[k] \in RingPoly /\ V[k] \in RingPoly
      BY <1>1
    <3>2. Same(ValueOf(Mul(P[k], V[k]), n), z)
      BY <3>1, MulValue DEF ValueOf
    <3>3. z \in Int
      BY <1>v, <3>1, RingLaws
    <3> QED BY <3>1, <3>2, <3>3
  <2>6. C[k] = SumFunction(G) /\ E[k] = x * z /\ y = SumFunction(T)
    BY DEF ValueOf
  <2> HIDE DEF m0, T, G, x, y, z, C, E
  <2>7. SumFunction(G) = x * y
    BY <1>s, <2>1, <2>2, <2>3, <2>4, <2>6, SumScales
  <2>8. Same(x * y, x * z)
    BY <1>s, <2>1, <2>2, <2>5, SameScaled
  <2>9. x * y \in Int /\ x * z \in Int
    BY <2>1, <2>2, <2>5, RingLaws
  <2> QED BY <2>6, <2>7, <2>8, <2>9
<1> HIDE DEF M, g
<1>7. C \in [S -> Int] /\ E \in [S -> Int]
  BY <1>6
<1> HIDE DEF C, E
<1>8. Same(SumFunction(C), SumFunction(E))
  BY <1>s, <1>6, <1>7, SameSums
<1> QED BY <1>5, <1>7, <1>8 DEF E, ValueProducts

\* Two polynomials with the same values have the same coefficients.
LEMMA SameValues ==
  ASSUME Root, NEW p \in RingPoly, NEW q \in RingPoly,
         \A n \in 0..255 : Same(ValueOf(p, n), ValueOf(q, n))
  PROVE  \A j \in Idx : (p[j] - q[j]) % Q = 0
<1>0. Idx = 0..255 /\ Q \in Nat \ {0} /\ RingPoly = [0..255 -> Int] /\ 0 \in Int
  BY RootNumbers
<1>s. IsFiniteSet(Idx) /\ Q \in Int
  BY RootNumbers
<1> DEFINE d == [j \in Idx |-> p[j] - q[j]]
<1>1. d \in RingPoly /\ \A j \in Idx : d[j] = p[j] - q[j] /\ p[j] \in Int /\ q[j] \in Int
  <2>1. \A j \in Idx : p[j] \in Int /\ q[j] \in Int
    BY DEF RingPoly, Poly
  <2>2. \A j \in Idx : p[j] - q[j] \in Int
    BY <2>1
  <2>3. \A j \in Idx : d[j] = p[j] - q[j]
    OBVIOUS
  <2>4. d \in RingPoly
    BY <2>2 DEF RingPoly, Poly
  <2> HIDE DEF d
  <2> QED BY <2>1, <2>3, <2>4
<1> HIDE DEF d
<1>2. ASSUME NEW n \in 0..255 PROVE Same(ValueAt(d, n), 0)
  <2>1. \A r \in [0..255 -> Int] :
           /\ Terms(r, n) \in [Idx -> Int] /\ ValueOf(r, n) \in Int
           /\ Same(ValueAt(r, n), ValueOf(r, n)) /\ ValueAt(r, n) \in Int
    BY TermsValue, ZenonT(60) DEF ValueOf
  <2> DEFINE F == Terms(d, n)
             G == Terms(q, n)
             H == Terms(p, n)
             x == ValueOf(d, n)
             y == ValueOf(q, n)
             z == ValueOf(p, n)
  <2>2. /\ F \in [Idx -> Int] /\ G \in [Idx -> Int] /\ H \in [Idx -> Int]
        /\ x \in Int /\ y \in Int /\ z \in Int
    BY <1>0, <1>1, <2>1, ZenonT(60)
  <2>3. \A j \in Idx : H[j] = F[j] + G[j]
    <3>1. ASSUME NEW j \in Idx PROVE p[j] * Point(n, j) = d[j] * Point(n, j) + q[j] * Point(n, j)
      <4> DEFINE X == Point(n, j)
                 b1 == p[j]
                 b2 == q[j]
      <4>1. X \in Int
        <5>1. j \in Nat
          BY <1>0
        <5> QED BY <5>1, PointType, ZenonT(60)
      <4>2. d[j] = b1 - b2 /\ b1 \in Int /\ b2 \in Int
        BY <1>1
      <4> HIDE DEF X, b1, b2
      <4>3. b1 * X = (b1 - b2) * X + b2 * X
        BY <4>1, <4>2, Z3
      <4> QED BY <4>2, <4>3 DEF X, b1, b2
    <3> QED BY <3>1 DEF Terms
  <2>4. x = SumFunction(F) /\ y = SumFunction(G) /\ z = SumFunction(H)
    BY DEF ValueOf
  <2>5. Same(z, y)
    OBVIOUS
  <2>6. Same(ValueAt(d, n), x) /\ ValueAt(d, n) \in Int
    BY <1>0, <1>1, <2>1, ZenonT(60)
  <2> HIDE DEF F, G, H, x, y, z
  <2>7. z = x + y
    BY <1>s, <2>2, <2>3, <2>4, SumAdds
  <2>8. PICK t \in Int : z = y + Q * t
    BY <2>5 DEF Same
  <2>9. x = 0 + Q * t
    <3>1. Q * t \in Int
      BY <1>s, RingLaws
    <3> QED BY <2>2, <2>7, <2>8, <3>1
  <2>10. Same(x, 0)
    BY <2>9 DEF Same
  <2> QED BY <1>0, <1>s, <2>2, <2>6, <2>10, SameBasics, ZenonT(60)
<1>3. Vanishes(d)
  <2>1. d \in [0..255 -> Int]
    BY <1>0, <1>1, ZenonT(60)
  <2> QED BY <1>2, <2>1, ValuesGive, ZenonT(60)
<1>4. ASSUME NEW j \in Idx PROVE (p[j] - q[j]) % Q = 0
  <2>1. Same(d[j], 0) /\ d[j] \in Int /\ d[j] = p[j] - q[j]
    <3>1. j \in 0..255
      BY <1>0, SMTT(60)
    <3>2. Same(d[j], 0)
      BY <1>3, <3>1 DEF Vanishes
    <3> QED BY <1>1, <3>2, SMTT(60)
  <2> DEFINE x == d[j]
  <2>2. x \in Int /\ Same(x, 0)
    BY <2>1
  <2> HIDE DEF x
  <2>3. (x - 0) % Q = 0
    BY <1>0, <2>2, SameRemainder
  <2>4. x - 0 = x
    BY <2>2
  <2> QED BY <2>1, <2>3, <2>4 DEF x
<1> QED BY <1>4

\* The polynomials that the terms multiply: a given one is the polynomial
\* whose values poly_uniform drew.
LeftFactors(P) ==
  /\ P \in [DOMAIN sum -> RingPoly]
  /\ \A k \in DOMAIN sum :
       IF sum[k].given THEN \A n \in Idx : (ValueAt(P[k], n) - sum[k].u[n]) % Q = 0
       ELSE P[k] = sum[k].u

\* The sum of the terms in the ring, with the operator Mul that Lattice uses.
RingSum(P) ==
  [j \in Idx |-> SumFunction([k \in DOMAIN sum |-> Sign(sum[k]) * Mul(P[k], sum[k].v)[j]])]

\* The result of the transforms is that sum, coefficient by coefficient modulo
\* Q; there are such left factors, so this says something of every run.
NttIsMul ==
  at = "done" =>
    /\ \E P : LeftFactors(P)
    /\ \A P : LeftFactors(P) => \A j \in Idx : (w[j] - RingSum(P)[j]) % Q = 0

\* The values of a left factor are those that TermAt takes.
LEMMA LeftValue ==
  ASSUME Root, SumKnown, NEW P, LeftFactors(P), NEW k \in DOMAIN sum, NEW n \in 0..255
  PROVE  Same(ValueOf(P[k], n), Left(sum[k], n)) /\ ValueOf(P[k], n) \in Int
<1>0. Idx = 0..255 /\ Q \in Nat \ {0} /\ Q \in Int /\ RingPoly = [0..255 -> Int]
  BY RootNumbers
<1> DEFINE p == P[k]
<1>1. p \in [0..255 -> Int]
  BY <1>0, ZenonT(60) DEF LeftFactors
<1>2. IF sum[k].given THEN (ValueAt(p, n) - sum[k].u[n]) % Q = 0 ELSE p = sum[k].u
  BY <1>0, Zenon DEF LeftFactors
<1> HIDE DEF p
<1>3. ValueOf(p, n) \in Int /\ ValueAt(p, n) \in Int /\ Same(ValueAt(p, n), ValueOf(p, n))
  BY <1>1, TermsValue, ZenonT(60) DEF ValueOf
<1>4. Left(sum[k], n) \in Int
  BY TermType
<1>5. Same(ValueAt(p, n), Left(sum[k], n))
  <2>1. CASE sum[k].given
    <3> DEFINE x == ValueAt(p, n)
               y == sum[k].u[n]
    <3>1. Left(sum[k], n) = y /\ (x - y) % Q = 0
      BY <1>2, <2>1 DEF Left
    <3>2. x \in Int /\ y \in Int
      BY <1>3, <1>4, <3>1
    <3> HIDE DEF x, y
    <3>3. Same(x, y)
      BY <1>0, <3>1, <3>2, SameRemainder
    <3> QED BY <3>1, <3>3 DEF x
  <2>2. CASE ~sum[k].given
    <3>1. Left(sum[k], n) = ValueAt(p, n)
      BY <1>2, <2>2 DEF Left
    <3> QED BY <1>0, <1>3, <3>1, SameBasics
  <2> QED BY <2>1, <2>2
<1>6. Same(ValueOf(p, n), Left(sum[k], n))
  <2> DEFINE x == ValueOf(p, n)
             y == ValueAt(p, n)
             z == Left(sum[k], n)
  <2>1. x \in Int /\ y \in Int /\ z \in Int /\ Same(y, x) /\ Same(y, z)
    BY <1>3, <1>4, <1>5
  <2> HIDE DEF x, y, z
  <2>2. Same(x, z)
    BY <1>0, <2>1, SameBasics
  <2> QED BY <2>2 DEF x, z
<1> QED BY <1>3, <1>6 DEF p

\* Every drawn row is the transform of some polynomial.
LEMMA LeftExists ==
  ASSUME Root, SumKnown
  PROVE  \E P : LeftFactors(P)
<1>0. Idx = 0..255 /\ Q \in Nat \ {0} /\ Q \in Int /\ RingPoly = [0..255 -> Int]
  BY RootNumbers
<1> DEFINE Fits(k, p) ==
             IF sum[k].given THEN \A n \in Idx : (ValueAt(p, n) - sum[k].u[n]) % Q = 0
             ELSE p = sum[k].u
           P == [k \in DOMAIN sum |-> CHOOSE p \in RingPoly : Fits(k, p)]
<1>1. ASSUME NEW k \in DOMAIN sum PROVE \E p \in RingPoly : Fits(k, p)
  <2>1. sum[k].u \in [0..255 -> Int]
    BY SMTT(60) DEF SumKnown
  <2>2. CASE ~sum[k].given
    BY <1>0, <2>1, <2>2, ZenonT(60)
  <2>3. CASE sum[k].given
    <3> DEFINE q == sum[k].u
    <3>1. q \in [0..255 -> Int]
      BY <2>1
    <3> HIDE DEF q
    <3>2. PICK p \in [0..255 -> Int] : \A n \in 0..255 : Same(ValueAt(p, n), q[n])
      BY <3>1, ValuesGive
    <3>3. ASSUME NEW n \in 0..255 PROVE (ValueAt(p, n) - q[n]) % Q = 0
      <4> DEFINE x == ValueAt(p, n)
                 y == q[n]
      <4>1. x \in Int
        BY TermsValue, ZenonT(60)
      <4>2. y \in Int /\ Same(x, y)
        BY <3>1, <3>2, ZenonT(60)
      <4> HIDE DEF x, y
      <4>3. (x - y) % Q = 0
        BY <1>0, <4>1, <4>2, SameRemainder
      <4> QED BY <4>3 DEF x, y
    <3>4. Fits(k, p)
      BY <1>0, <2>3, <3>3, Zenon DEF q
    <3> HIDE DEF Fits
    <3> QED BY <1>0, <3>4
  <2> QED BY <2>2, <2>3
<1>2. ASSUME NEW k \in DOMAIN sum PROVE P[k] \in RingPoly /\ Fits(k, P[k])
  <2> HIDE DEF Fits
  <2>1. P[k] = CHOOSE p \in RingPoly : Fits(k, p)
    OBVIOUS
  <2> HIDE DEF P
  <2> QED BY <1>1, <2>1, Zenon
<1>3. P \in [DOMAIN sum -> RingPoly]
  <2> HIDE DEF Fits
  <2> QED BY <1>2
<1>4. LeftFactors(P)
  <2> HIDE DEF P
  <2> QED BY <1>2, <1>3, Zenon DEF LeftFactors
<1> QED BY <1>4

\* Values of result and ring sum agree at all roots, so the coefficients do.
LEMMA ResultIsSum ==
  ASSUME MLDSA44Roots, TransformInv, at = "done", NEW P, LeftFactors(P)
  PROVE  \A j \in Idx : (w[j] - RingSum(P)[j]) % Q = 0
<1>1. NttInv /\ SumKnown
      /\ \A n \in 0..255 : Same(ValueAt(w, n), SumFunction(AllTerms(n)))
  BY DEF TransformInv
<1>2. Root /\ w \in [0..255 -> Int]
  BY <1>1, TransformTypes, ZenonT(60)
<1>0. Idx = 0..255 /\ Q \in Int /\ RingPoly = [0..255 -> Int]
  BY <1>2, RootNumbers
<1> DEFINE S == DOMAIN sum
           s == [k \in S |-> Sign(sum[k])]
           V == [k \in S |-> sum[k].v]
           D == RingSum(P)
<1>3. IsFiniteSet(S)
  BY <1>1, SumFinite
<1>4. s \in [S -> Int]
  <2>1. \A k \in S : Sign(sum[k]) \in Int
    BY DEF Sign
  <2> QED BY <2>1
<1>5. V \in [S -> RingPoly] /\ P \in [S -> RingPoly]
  <2>1. \A k \in S : sum[k].v \in RingPoly
    BY <1>0, <1>1, ZenonT(60) DEF SumKnown
  <2> QED BY <2>1 DEF LeftFactors
<1>6. ASSUME NEW j \in Idx
      PROVE  /\ D[j] = SumFunction([k \in S |-> s[k] * Mul(P[k], V[k])[j]])
             /\ D[j] \in Int
  <2> DEFINE A == [k \in S |-> s[k] * Mul(P[k], V[k])[j]]
  <2>1. A = [k \in S |-> Sign(sum[k]) * Mul(P[k], sum[k].v)[j]]
    OBVIOUS
  <2>2. D[j] = SumFunction([k \in S |-> Sign(sum[k]) * Mul(P[k], sum[k].v)[j]])
    BY DEF RingSum
  <2>3. ASSUME NEW k \in S PROVE s[k] * Mul(P[k], V[k])[j] \in Int
    <3> HIDE DEF s, V, S
    <3>1. Mul(P[k], V[k]) \in RingPoly
      BY <1>5, MulSum
    <3>2. Mul(P[k], V[k])[j] \in Int /\ s[k] \in Int
      BY <1>4, <3>1 DEF RingPoly, Poly
    <3> QED BY <3>2, RingLaws
  <2>4. A \in [S -> Int]
    BY <2>3
  <2>5. SumFunction(A) \in Int
    <3> HIDE DEF A, S
    <3> QED BY <1>3, <2>4, SumType
  <2> QED BY <2>1, <2>2, <2>5
<1>7. D \in RingPoly
  <2>1. D = [j \in Idx |-> D[j]]
    BY DEF RingSum
  <2> HIDE DEF D
  <2> QED BY <1>6, <2>1 DEF RingPoly, Poly
<1> HIDE DEF D
<1>8. ASSUME NEW n \in 0..255 PROVE Same(ValueOf(w, n), ValueOf(D, n))
  <2> DEFINE E == [k \in S |-> s[k] * (ValueOf(P[k], n) * ValueOf(V[k], n))]
             A == AllTerms(n)
  <2>1. E \in [S -> Int] /\ Same(ValueOf(D, n), SumFunction(E))
    <3> HIDE DEF s, V, S
    <3>1. \A j \in Idx : D[j] = SumFunction([k \in S |-> s[k] * Mul(P[k], V[k])[j]])
      BY <1>6
    <3>2. Combines(D, s, P, V, S)
      BY <1>3, <1>4, <1>5, <1>7, <3>1 DEF Combines
    <3>3. E = ValueProducts(s, P, V, S, n)
      BY DEF ValueProducts
    <3> HIDE DEF E
    <3> QED BY <1>2, <3>2, <3>3, CombinationValue
  <2>2. ASSUME NEW k \in S PROVE A[k] \in Int /\ Same(E[k], A[k])
    <3> DEFINE x  == Sign(sum[k])
               y  == Left(sum[k], n)
               z  == ValueAt(sum[k].v, n)
               y1 == ValueOf(P[k], n)
               z1 == ValueOf(sum[k].v, n)
    <3>1. y \in Int /\ z \in Int /\ A[k] = x * y * z /\ A[k] \in Int
      BY <1>1, <1>2, TermType, ZenonT(60) DEF AllTerms
    <3>2. x \in Int /\ E[k] = x * (y1 * z1)
      BY DEF Sign
    <3>3. y1 \in Int /\ Same(y1, y)
      BY <1>1, <1>2, LeftValue, ZenonT(60)
    <3>4. z1 \in Int /\ Same(z, z1)
      <4>1. sum[k].v \in [0..255 -> Int]
        BY <1>1, ZenonT(60) DEF SumKnown
      <4> QED BY <1>2, <4>1, TermsValue, ZenonT(60) DEF ValueOf
    <3> HIDE DEF x, y, z, y1, z1, E, A
    <3>5. Same(z1, z)
      BY <1>0, <3>1, <3>4, SameBasics
    <3>6. Same(y1 * z1, y * z) /\ y1 * z1 \in Int /\ y * z \in Int
      BY <1>0, <3>1, <3>3, <3>4, <3>5, SameTimes, RingLaws
    <3>7. Same(x * (y1 * z1), x * (y * z))
      BY <1>0, <3>2, <3>6, SameScaled
    <3>8. x * (y * z) = x * y * z
      BY <3>1, <3>2, Z3
    <3> QED BY <3>1, <3>2, <3>7, <3>8
  <2>3. A \in [S -> Int]
    <3>1. A = [k \in S |-> A[k]]
      BY DEF AllTerms
    <3> HIDE DEF A
    <3> QED BY <2>2, <3>1
  <2> HIDE DEF E, A, S
  <2>4. Same(SumFunction(E), SumFunction(A)) /\ SumFunction(E) \in Int /\ SumFunction(A) \in Int
    BY <1>0, <1>3, <2>1, <2>2, <2>3, SameSums, SumType
  <2>5. Same(ValueAt(w, n), SumFunction(A))
    BY <1>1 DEF A
  <2>6. ValueOf(w, n) \in Int /\ Same(ValueAt(w, n), ValueOf(w, n)) /\ ValueAt(w, n) \in Int
    BY <1>2, TermsValue, ZenonT(60) DEF ValueOf
  <2>7. ValueOf(D, n) \in Int
    <3>1. D \in [0..255 -> Int]
      BY <1>0, <1>7
    <3> QED BY <1>2, <3>1, TermsValue, ZenonT(60) DEF ValueOf
  <2> DEFINE x0 == ValueOf(w, n)
             x1 == ValueAt(w, n)
             x2 == SumFunction(A)
             x3 == SumFunction(E)
             x4 == ValueOf(D, n)
  <2>8. /\ x0 \in Int /\ x1 \in Int /\ x2 \in Int /\ x3 \in Int /\ x4 \in Int
        /\ Same(x1, x0) /\ Same(x1, x2) /\ Same(x3, x2) /\ Same(x4, x3)
    BY <2>1, <2>4, <2>5, <2>6, <2>7
  <2> HIDE DEF x0, x1, x2, x3, x4
  <2>9. Same(x0, x2)
    BY <1>0, <2>8, SameBasics
  <2>10. Same(x2, x4)
    BY <1>0, <2>8, SameBasics
  <2>11. Same(x0, x4)
    BY <1>0, <2>8, <2>9, <2>10, SameBasics
  <2> QED BY <2>11 DEF x0, x4
<1>9. w \in RingPoly
  BY <1>0, <1>2, SMTT(60)
<1>10. \A j \in Idx : (w[j] - D[j]) % Q = 0
  BY <1>2, <1>7, <1>8, <1>9, SameValues
<1> QED BY <1>10 DEF D

\* What the code computes in place of Mul is Mul: when invntt_tomont returns,
\* the coefficients are those of the sum of products in Z_Q[X]/(X^256 + 1).
\* Every row of the matrix is the transform of a polynomial.
THEOREM TransformIsMul ==
  ASSUME MLDSA44Roots
  PROVE  NttSpec => []NttIsMul
<1>1. NttInit => TransformInv
  BY TransformStarts
<1>2. TransformInv /\ [NttNext]_nttVars => TransformInv'
  BY TransformKept
<1>3. TransformInv => NttIsMul
  <2>1. ASSUME TransformInv, at = "done"
        PROVE  /\ \E P : LeftFactors(P)
               /\ \A P : LeftFactors(P) => \A j \in Idx : (w[j] - RingSum(P)[j]) % Q = 0
    <3>1. Root /\ SumKnown
      BY <2>1, TransformTypes DEF TransformInv
    <3> QED BY <2>1, <3>1, LeftExists, ResultIsSum, SMTT(60)
  <2> QED BY <2>1 DEF NttIsMul
<1> QED BY <1>1, <1>2, <1>3, PTL DEF NttSpec
==============================================================================
