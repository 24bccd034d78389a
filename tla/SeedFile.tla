------------------------------ MODULE SeedFile ------------------------------
(***************************************************************************)
(* How source/openssl_from_app.c gets a seed out of the file it is given:  *)
(* by the file's extension as bytes or as text, and without a known one as *)
(* bytes first and as text when there are too few of them.  What happens   *)
(* when the file cannot be opened is in module KeyTools.                   *)
(*                                                                         *)
(* There are four bytes, so that text and raw bytes can be mistaken for    *)
(* each other: a blank or colon, a newline, and the digits of base 2; a    *)
(* byte is written with two digits.                                        *)
(***************************************************************************)
EXTENDS Integers, Sequences, SequencesExt

CONSTANTS SEEDBYTES,   \* 32
          MaxLength    \* bound: the length of the file

ASSUME SeedAssumption == SEEDBYTES \in Nat \ {0} /\ MaxLength \in Nat

Blanks  == {0, 1}
NewLine == 1
Digit(n) == 2 + n

VARIABLES content,     \* the bytes of the file
          extension,   \* ".bin", ".hex" or another
          seed_hex,
          seedStep     \* "open", "text", "got" or "failed"

seedVars == <<content, extension, seed_hex, seedStep>>

SeedInit ==
  /\ content \in UNION {[1..n -> 0..3] : n \in 0..MaxLength}
  /\ extension \in {".bin", ".hex", "other"}
  /\ seed_hex = << >>
  /\ seedStep = IF extension = ".hex" THEN "text" ELSE "open"

\* sprintf(seed_hex + 2 * i, "%02x", seed_bin[i])
Hex(bytes) ==
  [d \in 1..(2 * Len(bytes)) |->
     LET b == bytes[(d + 1) \div 2] IN Digit(IF d % 2 = 1 THEN b \div 2 ELSE b % 2)]

\* fread of SEEDBYTES bytes; what follows them is not looked at.
ReadBytes ==
  /\ seedStep = "open"
  /\ IF Len(content) >= SEEDBYTES
     THEN seed_hex' = Hex(SubSeq(content, 1, SEEDBYTES)) /\ seedStep' = "got"
     ELSE /\ seedStep' = IF extension = ".bin" THEN "failed" ELSE "text"
          /\ UNCHANGED seed_hex
  /\ UNCHANGED <<content, extension>>

\* fgets into a buffer for size characters: up to size - 1 of them, and none
\* after the first newline.
Line(size) ==
  LET ends == {n \in DOMAIN content : n = size - 1 \/ n = Len(content) \/ content[n] = NewLine}
  IN IF content = << >> THEN << >>
     ELSE SubSeq(content, 1, CHOOSE n \in ends : \A o \in ends : n <= o)

\* The buffer without room for the terminating zero.
TextReadNoTerminator == Line(2 * SEEDBYTES)
TextRead == Line(2 * SEEDBYTES + 1)

\* The characters that are kept, moved up in their order.
clean_hex(s) ==
  LET kept == {n \in DOMAIN s : s[n] \notin Blanks}
  IN [k \in 1..Cardinality(kept) |->
        s[CHOOSE n \in kept : Cardinality({o \in kept : o < n}) = k - 1]]

ReadText ==
  /\ seedStep = "text"
  /\ IF content = << >>
     THEN seedStep' = "failed" /\ UNCHANGED seed_hex
     ELSE /\ seed_hex' = clean_hex(TextRead)
          /\ seedStep' = IF Len(seed_hex') = 2 * SEEDBYTES THEN "got" ELSE "failed"
  /\ UNCHANGED <<content, extension>>

SeedNext == ReadBytes \/ ReadText
SeedSpec == SeedInit /\ [][SeedNext]_seedVars

-----------------------------------------------------------------------------
\* What genkey.c:116-119 writes for a seed: its bytes, and its digits in a line.
GenkeyBin(seed) == seed
GenkeyHex(seed) == Hex(seed) \o <<NewLine>>
Seeds           == [1..SEEDBYTES -> 0..3]

\* openssl_from_app gets the seed that genkey stored from either file, from
\* the binary one under any other name too, and never goes on with a seed of
\* another length.
SeedIsRead ==
  /\ seedStep = "got" => Len(seed_hex) = 2 * SEEDBYTES
  /\ seedStep \in {"got", "failed"} =>
       \A s \in Seeds :
         \/ content = GenkeyBin(s) /\ extension # ".hex"
         \/ content = GenkeyHex(s) /\ extension = ".hex"
         => seedStep = "got" /\ seed_hex = Hex(s)

\* The comment at openssl_from_app.c:141: a .hex file holds the digits, with
\* blanks and newlines among them.
SpacedDigitsAreRead ==
  seedStep = "failed" /\ extension = ".hex" => Len(clean_hex(content)) # 2 * SEEDBYTES
=============================================================================
