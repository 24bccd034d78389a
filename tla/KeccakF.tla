------------------------------ MODULE KeccakF ------------------------------
(***************************************************************************)
(* KeccakF1600_StatePermute of common/fips202.c.  The function is unrolled *)
(* by hand: each of five blocks gathers five lanes into BCa..BCu, after    *)
(* theta and rotated, and combines them into the five lanes of a plane.    *)
(* The lanes Aba, Abe, .. Asu are 0..24.  The blocks are written twice,    *)
(* from the A lanes to the E lanes in even rounds and back in odd ones;     *)
(* here both are one pair of actions.                                      *)
(*                                                                         *)
(* A lane is the set of the positions of its ones: xor is the symmetric    *)
(* difference, (~x) & y is y \ x.                                          *)
(***************************************************************************)
EXTENDS Integers, Sequences, FiniteSetsExt

CONSTANT Starts   \* bound: the states that are permuted

VARIABLES lanes,    \* the A lanes, or the E lanes
          mixed,    \* Da, De, Di, Do, Du
          round,
          prepared, \* whether prepareTheta of this round is done
          before    \* history: the cells of the state before the last round

permuteVars == <<lanes, mixed, round, prepared, before>>

NROUNDS   == 24
Lanes     == 0..24
Positions == 0..63

ASSUME StartsAssumption == Starts \subseteq [Lanes -> SUBSET Positions]

ROL(x, n) == {(p + n) % 64 : p \in x}

\* The lanes that block r gathers and the rotation of each.
GatherOffsetMistyped == <<
  << <<0, 0>>, <<6, 44>>, <<12, 43>>, <<18, 21>>, <<24, 14>> >>,
  << <<3, 28>>, <<9, 20>>, <<10, 3>>, <<16, 45>>, <<22, 61>> >>,
  << <<1, 1>>, <<7, 6>>, <<13, 25>>, <<19, 8>>, <<20, 18>> >>,
  << <<4, 27>>, <<5, 36>>, <<11, 10>>, <<17, 51>>, <<23, 56>> >>,
  << <<2, 62>>, <<8, 55>>, <<14, 39>>, <<15, 41>>, <<21, 2>> >> >>
Gather == <<
  << <<0, 0>>, <<6, 44>>, <<12, 43>>, <<18, 21>>, <<24, 14>> >>,
  << <<3, 28>>, <<9, 20>>, <<10, 3>>, <<16, 45>>, <<22, 61>> >>,
  << <<1, 1>>, <<7, 6>>, <<13, 25>>, <<19, 8>>, <<20, 18>> >>,
  << <<4, 27>>, <<5, 36>>, <<11, 10>>, <<17, 15>>, <<23, 56>> >>,
  << <<2, 62>>, <<8, 55>>, <<14, 39>>, <<15, 41>>, <<21, 2>> >> >>

\* The hexadecimal digits of KeccakF_RoundConstants that are not zero, as the
\* positions of their ones.
RoundConstants == <<
  {0}, {1, 7, 15}, {1, 3, 7, 15, 63}, {15, 31, 63},
  {0, 1, 3, 7, 15}, {0, 31}, {0, 7, 15, 31, 63}, {0, 3, 15, 63},
  {1, 3, 7}, {3, 7}, {0, 3, 15, 31}, {1, 3, 31},
  {0, 1, 3, 7, 15, 31}, {0, 1, 3, 7, 63}, {0, 3, 7, 15, 63}, {0, 1, 15, 63},
  {1, 15, 63}, {7, 63}, {1, 3, 15}, {1, 3, 31, 63},
  {0, 7, 15, 31, 63}, {7, 15, 63}, {0, 31}, {3, 15, 31, 63} >>

\* The ones of the state, as coordinates <<x, y, z>>: lane x + 5*y has (x, y).
Cube == (0..4) \X (0..4) \X Positions
Ones == {c \in Cube : c[3] \in lanes[c[1] + 5 * c[2]]}

PermuteInit ==
  /\ lanes \in Starts
  /\ mixed = [x \in 0..4 |-> {}]
  /\ round = 0 /\ prepared = FALSE
  /\ before = {}

\* BCa..BCu: the columns' sums
Parity(x) ==
  SymDiff(lanes[x], SymDiff(lanes[x + 5], SymDiff(lanes[x + 10], SymDiff(lanes[x + 15], lanes[x + 20]))))

prepareTheta ==
  /\ round < NROUNDS /\ ~prepared
  /\ mixed' = [x \in 0..4 |-> SymDiff(Parity((x + 4) % 5), ROL(Parity((x + 1) % 5), 1))]
  /\ prepared' = TRUE
  /\ UNCHANGED <<lanes, round, before>>

\* A lane that block r gathers: A ^= D, rotated.
BC(r, x) == LET from == Gather[r + 1][(x % 5) + 1]
            IN ROL(SymDiff(lanes[from[1]], mixed[from[1] % 5]), from[2])

Plane(r, x) == SymDiff(BC(r, x), BC(r, x + 2) \ BC(r, x + 1))

thetaRhoPiChiIota ==
  /\ prepared
  /\ lanes' = [l \in Lanes |->
                 IF l = 0 THEN SymDiff(Plane(0, 0), RoundConstants[round + 1])
                 ELSE Plane(l \div 5, l % 5)]
  /\ before' = Ones
  /\ round' = round + 1 /\ prepared' = FALSE
  /\ UNCHANGED mixed

PermuteNext == prepareTheta \/ thetaRhoPiChiIota
PermuteSpec == PermuteInit /\ [][PermuteNext]_permuteVars

-----------------------------------------------------------------------------
(***************************************************************************)
(* Keccak-f[1600] by its definition in FIPS 202: a state is a set of       *)
(* coordinates <<x, y, z>>, and a round is iota after chi after pi after   *)
(* rho after theta.                                                        *)
(***************************************************************************)
theta(S) ==
  LET columns == {c \in (0..4) \X Positions :
                    Cardinality({y \in 0..4 : <<c[1], y, c[2]>> \in S}) % 2 = 1}
  IN SymDiff(S, {c \in Cube : (<<(c[1] + 4) % 5, c[3]>> \in columns)
                            # (<<(c[1] + 1) % 5, (c[3] + 63) % 64>> \in columns)})

\* rho moves lane (x, y) by a triangular number: the walk from (1, 0) by
\* (x, y) := (y, 2x + 3y).
NextPlace[p \in (0..4) \X (0..4)] == <<p[2], (2 * p[1] + 3 * p[2]) % 5>>
Walk[t \in 0..23] == IF t = 0 THEN <<1, 0>> ELSE NextPlace[Walk[t - 1]]
RhoOffset(x, y) ==
  IF <<x, y>> = <<0, 0>> THEN 0
  ELSE LET t == CHOOSE n \in 0..23 : Walk[n] = <<x, y>> IN ((t + 1) * (t + 2)) \div 2

rho(S) == {<<c[1], c[2], (c[3] + RhoOffset(c[1], c[2])) % 64>> : c \in S}
pi(S)  == {<<c[2], (2 * c[1] + 3 * c[2]) % 5, c[3]>> : c \in S}
chi(S) ==
  SymDiff(S, {c \in Cube : /\ <<(c[1] + 1) % 5, c[2], c[3]>> \notin S
                       /\ <<(c[1] + 2) % 5, c[2], c[3]>> \in S})

\* rc(t): the lowest bit of x^t modulo x^8 + x^6 + x^5 + x^4 + 1.
NextRegister[S \in SUBSET (0..7)] ==
  LET up == {b + 1 : b \in S} IN IF 8 \in up THEN SymDiff(up \ {8}, {0, 4, 5, 6}) ELSE up
Register[t \in 0..254] == IF t = 0 THEN {0} ELSE NextRegister[Register[t - 1]]
rc(t) == 0 \in Register[t % 255]

TwoTo[j \in 0..6] == IF j = 0 THEN 1 ELSE 2 * TwoTo[j - 1]
iota(S, ir) ==
  SymDiff(S, {<<0, 0, TwoTo[j] - 1>> : j \in {n \in 0..6 : rc(n + 7 * ir)}})

KeccakRound(S, ir) == iota(chi(pi(rho(theta(S)))), ir)

\* The lanes after each round are a round of Keccak on those before it, from
\* whatever state the call starts.
PermutesAsKeccak ==
  round > 0 /\ ~prepared =>
    Ones = KeccakRound(before, round - 1)
=============================================================================
