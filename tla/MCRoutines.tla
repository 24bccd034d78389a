----------------------------- MODULE MCRoutines -----------------------------
(***************************************************************************)
(* The routines that keep state of their own while they run and share none: *)
(* the rejection samplers, the challenge, products by the NTT, the         *)
(* permutation, randombytes, signed messages, and the readers of seed files *)
(* and of OpenSSL's text.  A behaviour is a run of one of them from any of *)
(* its initial states; the others stay in one of theirs.                   *)
(***************************************************************************)
EXTENDS RejSampler, Challenge, Ntt, KeccakF, RandomBytes, SignedMessage,
        SeedFile, TextBlocks

VARIABLE routine

routineVars == <<routine, vars, challengeVars, nttVars, permuteVars, randomVars,
                 messageVars, seedVars, blockVars>>

(***************************************************************************)
(* The instance of Ntt: a prime with N * Q as close below R/2 as 256 *     *)
(* 8380417 is below 2^31, and a divisor of reduce32 just above the prime.  *)
(* Factors are all polynomials with every coefficient at an end of its     *)
(* range, and those with a single one.                                     *)
(***************************************************************************)
Centered(x) == IF 2 * (x % Q) > Q THEN (x % Q) - Q ELSE x % Q
SmallZetas  == [n \in 1..(N - 1) |-> Centered(R * Power[brv[n]])]

Extreme(n) == [j \in Idx |-> IF (n \div 2^j) % 2 = 0 THEN Q - 1 ELSE 1 - Q]
Single(n)  == [j \in Idx |-> IF j = n THEN 7 ELSE 0]
Polys == {Extreme(n) : n \in 0..(2^N - 1)} \cup {Single(n) : n \in Idx}
Few   == {Extreme(0), Extreme(5), Single(1)}

Term(x, y, g, s) == [u |-> x, v |-> y, given |-> g, minus |-> s]

SmallProducts ==
  {<<Term(x, y, FALSE, FALSE)>> : x \in Polys, y \in Polys}
  \cup {<<Term(p[1], p[2], TRUE, FALSE), Term(p[3], p[4], TRUE, FALSE)>> :
          p \in Few \X Few \X Few \X Few}
  \cup {<<Term(p[1], p[2], TRUE, FALSE), Term(p[3], p[4], TRUE, FALSE),
          Term(p[1], p[4], FALSE, TRUE)>> : p \in Few \X Few \X Few \X Few}

\* States to permute: all zeroes, and a state in which about half the bits are
\* ones; after two rounds every lane is mixed.
Blank == [l \in Lanes |-> {}]
Half  == [l \in Lanes |-> {b \in Positions : (b * b + 3 * l * b + l) % 7 < 4}]
SmallStarts == {Blank, Half}

\* Every text of a key with or without its seed, or of a public key, and every
\* part of it that can be left.
TextBlock(l, lines) ==
  <<TextLine(l, << >>, TRUE)>>
    \o [n \in 1..lines |-> TextLine("digits", <<<<l, 2 * n>>, <<l, 2 * n + 1>>>>, TRUE)]
Title  == <<TextLine("title", << >>, TRUE)>>
Public == Title \o TextBlock("pub:", 2)
Keys   == {Title \o TextBlock("priv:", 2) \o TextBlock("pub:", 2),
           Title \o TextBlock("seed:", 1) \o TextBlock("priv:", 2) \o TextBlock("pub:", 2)}

CutLines(l) ==
  {[l EXCEPT !.ended = FALSE]}
  \cup (IF l.head = "digits" THEN {[l EXCEPT !.digits = SubSeq(@, 1, n), !.ended = FALSE] : n \in 0..1}
        ELSE {TextLine("cut", letters, FALSE) : letters \in {<< >>, <<<<"letter", 1>>>>}})
SmallTexts ==
  UNION {{SubSeq(t, 1, n) : n \in 0..Len(t)}
         \cup UNION {{Append(SubSeq(t, 1, n - 1), c) : c \in CutLines(t[n])} : n \in 2..Len(t)} :
         t \in Keys \cup {Public}}

-----------------------------------------------------------------------------
SamplerRests   == fn = Uniform /\ block = Min(BLOCKS)
NttRests       == sum = <<Term(Single(0), Single(0), FALSE, FALSE)>>
PermuteRests   == lanes = Blank
RandomRests    == build = "getrandom" /\ procReads
MessageRests   == mlen = 0 /\ sm = 0 /\ m = 0
SeedRests      == content = << >> /\ extension = ".bin"
BlocksRest     == text = << >> /\ program = "app_from_openssl" /\ label = "pub:"

RoutinesInit ==
  /\ routine \in {"sampler", "challenge", "ntt", "permute", "randombytes", "message",
                  "seed", "blocks"}
  /\ Init          /\ (routine = "sampler" \/ SamplerRests)
  /\ ChallengeInit
  /\ NttInit       /\ (routine = "ntt" \/ NttRests)
  /\ PermuteInit   /\ (routine = "permute" \/ PermuteRests)
  /\ RandomInit    /\ (routine = "randombytes" \/ RandomRests)
  /\ MessageInit   /\ (routine = "message" \/ MessageRests)
  /\ SeedInit      /\ (routine = "seed" \/ SeedRests)
  /\ BlocksInit    /\ (routine = "blocks" \/ BlocksRest)

SamplerStep ==
  /\ routine = "sampler" /\ Next
  /\ UNCHANGED <<routine, challengeVars, nttVars, permuteVars, randomVars,
                 messageVars, seedVars, blockVars>>
ChallengeStep ==
  /\ routine = "challenge" /\ ChallengeNext
  /\ UNCHANGED <<routine, vars, nttVars, permuteVars, randomVars,
                 messageVars, seedVars, blockVars>>
NttStep ==
  /\ routine = "ntt" /\ NttNext
  /\ UNCHANGED <<routine, vars, challengeVars, permuteVars, randomVars,
                 messageVars, seedVars, blockVars>>
PermuteStep ==
  /\ routine = "permute" /\ PermuteNext
  /\ UNCHANGED <<routine, vars, challengeVars, nttVars, randomVars,
                 messageVars, seedVars, blockVars>>
RandomStep ==
  /\ routine = "randombytes" /\ RandomNext
  /\ UNCHANGED <<routine, vars, challengeVars, nttVars, permuteVars,
                 messageVars, seedVars, blockVars>>
MessageStep ==
  /\ routine = "message" /\ MessageNext
  /\ UNCHANGED <<routine, vars, challengeVars, nttVars, permuteVars,
                 randomVars, seedVars, blockVars>>
SeedStep ==
  /\ routine = "seed" /\ SeedNext
  /\ UNCHANGED <<routine, vars, challengeVars, nttVars, permuteVars,
                 randomVars, messageVars, blockVars>>
BlocksStep ==
  /\ routine = "blocks" /\ BlocksNext
  /\ UNCHANGED <<routine, vars, challengeVars, nttVars, permuteVars,
                 randomVars, messageVars, seedVars>>

RoutinesNext ==
  SamplerStep \/ ChallengeStep \/ NttStep \/ PermuteStep \/ RandomStep \/ MessageStep
  \/ SeedStep \/ BlocksStep

\* The fairness of modules RandomBytes and TextBlocks, for the behaviours that
\* run them.
RoutinesSpec ==
  /\ RoutinesInit /\ [][RoutinesNext]_routineVars
  /\ WF_routineVars(RandomStep /\ RandomProgress)
  /\ SF_routineVars(RandomStep /\ EntropyRead /\ entropy')
  /\ WF_routineVars(BlocksStep)

\* randombytes returns but for a broken entropy_avail (RandomBytesReturns).
RandomBytesReturnsWhenRun == routine = "randombytes" => RandomBytesReturns

\* The readers of OpenSSL's text come to an end (BlockReadersReturn).
BlockReadersReturnWhenRun == routine = "blocks" => BlockReadersReturn
=============================================================================
