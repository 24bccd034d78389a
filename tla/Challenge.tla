----------------------------- MODULE Challenge -----------------------------
(***************************************************************************)
(* poly_challenge of common/poly.c: TAU coefficients +1 or -1 are put in a *)
(* polynomial of zeroes by a shuffle of its last TAU places.  The first    *)
(* bytes of the stream of SHAKE256 are the signs, each later byte is a     *)
(* candidate for a place and is rejected when it is too large.             *)
(*                                                                         *)
(* The n-th byte of the stream is the symbol n, and the value of a         *)
(* candidate is a free choice.  A coefficient is Zero or the number of the *)
(* sign bit, from 1, that it got its sign from.                            *)
(***************************************************************************)
EXTENDS Params, Integers, FiniteSetsExt

CONSTANTS TAU,         \* 39
          SIGNBYTES,   \* 8
          RATE,        \* SHAKE256_RATE, 136
          MaxSqueezed  \* bound: bytes squeezed

\* The first block holds the signs, and a sign bit for every place.
ASSUME ChallengeAssumption ==
  /\ N \in Nat /\ TAU \in 0..N /\ SIGNBYTES \in Nat /\ TAU <= 8 * SIGNBYTES
  /\ RATE \in Nat /\ SIGNBYTES <= RATE /\ MaxSqueezed \in Nat

Zero == 0

VARIABLES place,     \* i, the place that is being shuffled in
          buffer,    \* the symbols in buf
          next,      \* pos
          drawn,     \* bytes squeezed so far
          shifts,    \* how often signs was shifted
          coeffs,    \* c->coeffs
          candidate  \* history: the last byte read, symbol and value

challengeVars == <<place, buffer, next, drawn, shifts, coeffs, candidate>>

Block(start) == [k \in 0..(RATE - 1) |-> start + k + 1]

AfterSignsLost == 0
AfterSigns     == SIGNBYTES

ChallengeInit ==
  /\ place = N - TAU
  /\ buffer = Block(0) /\ drawn = RATE /\ next = AfterSigns
  /\ shifts = 0
  /\ coeffs = [k \in 0..(N - 1) |-> Zero]
  /\ candidate = [symbol |-> SIGNBYTES, value |-> 0]

\* if (pos >= SHAKE256_RATE)
challengeRefill ==
  /\ place < N /\ next >= RATE
  /\ drawn + RATE <= MaxSqueezed
  /\ buffer' = Block(drawn) /\ drawn' = drawn + RATE /\ next' = 0
  /\ UNCHANGED <<place, shifts, coeffs, candidate>>

\* b = buf[pos++]
Read(b) ==
  /\ place < N /\ next < RATE
  /\ candidate' = [symbol |-> buffer[next], value |-> b]
  /\ next' = next + 1
  /\ UNCHANGED <<buffer, drawn>>

\* while (b > i)
TooLarge(b) == b > place

challengeReject ==
  \E b \in 0..(N - 1) :
    /\ Read(b) /\ TooLarge(b)
    /\ UNCHANGED <<place, shifts, coeffs>>

\* The coefficient at b moves to the place i, and b gets the next sign.
ShuffledOver(b) == [coeffs EXCEPT ![b] = shifts + 1]
Shuffled(b) == [coeffs EXCEPT ![place] = coeffs[b], ![b] = shifts + 1]

challengeAccept ==
  \E b \in 0..(N - 1) :
    /\ Read(b) /\ ~TooLarge(b)
    /\ coeffs' = Shuffled(b)
    /\ shifts' = shifts + 1 /\ place' = place + 1

ChallengeNext == challengeRefill \/ challengeReject \/ challengeAccept

ChallengeSpec == ChallengeInit /\ [][ChallengeNext]_challengeVars

-----------------------------------------------------------------------------
\* The polynomial has one nonzero coefficient per round, TAU in the end, each
\* with a sign bit of its own of those that were drawn, and none beyond i.
ChallengeIsTernary ==
  /\ Cardinality({k \in DOMAIN coeffs : coeffs[k] # Zero}) = place - (N - TAU)
  /\ {coeffs[k] : k \in DOMAIN coeffs} \ {Zero} = 1..shifts
  /\ shifts <= 8 * SIGNBYTES
  /\ \A k \in place..(N - 1) : coeffs[k] = Zero

\* Every candidate is the byte after the one read before it, the first is the
\* one after the signs: none is skipped or used twice.  And a round loses no
\* choice: what was there before it, and the place drawn, are seen from its
\* result, which makes every challenge come from equally many streams.
LastPlaced(c, n) == CHOOSE k \in DOMAIN c : c[k] = n
Undone(c, k, p)  == [c EXCEPT ![k] = c[p], ![p] = Zero]

ChallengeKeepsChoices ==
  [][ /\ candidate' # candidate => candidate'.symbol = candidate.symbol + 1
      /\ shifts' # shifts =>
           LET k == LastPlaced(coeffs', shifts') IN
           /\ k = candidate'.value
           /\ Undone(coeffs', k, place) = coeffs ]_challengeVars
=============================================================================
