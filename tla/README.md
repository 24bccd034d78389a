# A TLA+ model of the ML-DSA-44 demo

This directory holds TLA+ specifications of the program in `src/`, the TLC
configurations that check them on small instances, and theorems about them
that TLAPS proves for every value of the constants. Line numbers refer to the
files under `src/`.

- [1. The program](#1-the-program)
- [2. Modules](#2-modules)
- [3. Runs](#3-runs)
- [4. Theorems](#4-theorems)
- [5. Where code and documentation disagree](#5-where-code-and-documentation-disagree)
- [6. Not modelled](#6-not-modelled)
- [7. Plan](#7-plan)
- [8. How to run it](#8-how-to-run-it)

## 1. The program

The repository is an implementation of ML-DSA-44 (FIPS 204) in C, and five
command line programs that generate keys, sign, verify and exchange keys with
OpenSSL through files in `keys/`. Every program is one process with one
thread; what runs concurrently are the programs, over the files.

| component | state | operations | used by |
|---|---|---|---|
| Signing and verification, `common/sign.c` | none between calls; within one: `seedbuf`, `nonce`, `y`, `z`, `w0`, `w1`, `h`, `cp`, the output buffer | `crypto_sign_keypair`, `crypto_sign_signature_ctx`, `crypto_sign_verify_ctx`, `crypto_sign_ctx`, `crypto_sign_open_ctx` | the programs |
| Ring and vectors, `common/poly.c`, `polyvec.c` | none; the buffer of a rejection sampler while it runs | arithmetic, norms, hints, samplers, bit packing | `sign.c`, `packing.c` |
| Reduction and rounding, `reduce.c`, `rounding.c` | none | `reduce32`, `caddq`, `freeze`, `power2round`, `decompose`, `make_hint`, `use_hint` | `poly.c` |
| Number theoretic transform, `ntt.c`, `montgomery_reduce` | none | `ntt`, `invntt_tomont` | `poly.c` |
| Packing, `packing.c` | none | `pack_*`, `unpack_*` | `sign.c` |
| Keccak sponge, `fips202.c`, `symmetric-shake.c` | `state[25]` and the position `s_inc[25]` | init, absorb, finalize, squeeze; one-shot `shake*` | `sign.c`, `poly.c` |
| Random bytes, `randombytes.c` | the descriptor of `/dev/urandom` | `randombytes` | `sign.c`, `genkey.c` |
| Programs, `source/*.c` | the files of `keys/`, the file that is signed | `genkey`, `sign_file`, `verify`, `openssl_from_app`, `app_from_openssl` | the user |
| Build and demonstration, `src/Makefile`, `src/README.md` | none | | the user |

How they interact: calls only, downwards in the table. The program layer talks
to itself through files: `genkey` writes what `sign_file`, `verify` and
`openssl_from_app` read; `openssl_from_app` writes a PEM that
`app_from_openssl` can read. OpenSSL is a child process whose output is
redirected to a file or a pipe.

What makes each part correct, and what makes it hard to test:

- **Signing.** A signature that is returned verifies, and shows nothing of the
  key: the norm checks decide that, and a wrong bound still gives signatures
  that verify. The hints have a case that an honest signer meets once in
  millions of coefficients (`rounding.c:80`). The loop has no bound, runs
  on a nonce of 16 bits, and works in vectors that a refused attempt leaves
  half changed. `randombytes` may fail unseen.
- **What is hashed.** `mu` is the hash of a concatenation. A context and a
  message must not trade bytes, and no mask may serve two messages, even when
  `rnd` repeats.
- **Arithmetic.** The roundings are multiplications and shifts that must equal
  a division for 8 380 417 inputs; the packers are unrolled by hand.
- **Number theoretic transform.** Nothing is reduced between the layers:
  coefficients grow to 9Q one way and double to 256Q, just below 2^31, the
  other way, and `montgomery_reduce` has a domain. A table of 255 constants
  and Montgomery factors must cancel between three functions.
- **Permutation.** Two rounds of Keccak written out lane by lane.
- **Samplers.** A second block is squeezed only when many candidates were
  refused, and sampling must go on where it stopped in the stream and in the
  polynomial. The code also handles a triple cut by a block boundary, which the
  rate of SHAKE128 (168, a multiple of 3) never produces and other rates would.
- **Hint encoding.** Exactly one string of bytes may decode to a hint vector.
- **Sponge.** Calls of any length must give what one call gives; `s_inc[25]`
  changes its meaning at `finalize`.
- **Random bytes.** Calls that are interrupted, that return fewer bytes, or
  that fail while a descriptor is open; a stale `errno` that decides a loop.
- **Layouts.** A key is a concatenation that three functions must cut alike,
  and signing hashes three neighbouring fields of a buffer in one call.
- **Signed messages.** Copies within one buffer, towards either end, and a
  length that a refused call adds to.
- **Readers of seed files and of OpenSSL's text.** A seed comes as bytes or as
  text; the blocks of a key are found in a text that may end anywhere.
- **Programs.** Two key files are replaced one after the other; a full disk,
  a failing `fopen`, a failing OpenSSL or a kill can come between any two
  steps, and another program may read meanwhile.

`PROJECT.json` lists these hazards one by one with their lines. Five of them have
no property and a note that says why: the model does there what the code does,
and the repository promises nothing else.

## 2. Modules

```
HighBits ─┐
Ring ─────┴─ Lattice ── SignLoop ── MCSignLoop          rejection loop and verification
  └─ RingProofs ────────────┴─ SignLoopProofs
Transcript ── MCTranscript, TranscriptProofs            what is hashed, over several calls
Rounding ──── Zetas ──┐                                 integers of reduce.c, rounding.c; table of ntt.c
BitPack ───── Layout ─┴─ MCRounding ── RoundingProofs   packers of poly.c; fields of keys and signatures
HintPack ── HintPackProofs                              hints in pack_sig, unpack_sig
Xof ── KeccakInc ── KeccakProofs                        sponge; KeccakInc implements Xof
KeyTools ── MCKeyTools, KeyToolsProofs                  the five programs and keys/
RejSampler ────────────┐                                poly_uniform, poly_uniform_eta
Challenge ─────────────┤                                poly_challenge
Ring ── Ntt ───────────┤                                products by ntt, invntt_tomont
RandomBytes ───────────┤                                randombytes
SignedMessage ─────────┼─ RoutineProofs                 crypto_sign_ctx, crypto_sign_open_ctx
KeccakF ───────────────┤                                KeccakF1600_StatePermute
SeedFile ──────────────┤                                the seed file of openssl_from_app
TextBlocks ────────────┴─ MCRoutines                    both readers of OpenSSL's text
```

`RoutineProofs` has the theorems of the five routines above it in the list
(`RejSampler` to `SignedMessage`) and rests on `RingProofs`; that of `KeccakF` is in
`KeccakProofs`, those of `SeedFile` and `TextBlocks` are in `KeyToolsProofs`. `MCRoutines` runs all eight. `Ring`,
`RejSampler` and `Challenge` share `N`, which is in `Params`.

**SignLoop** (on **Lattice**, on **HighBits**). `sign.c` for one key and one
message. One action per stage: `Keypair`, `SampleMask`, `Commit`, `CheckZ`,
`CheckLow`, `CheckT0`, `CheckHints`, `WriteSig`, `Verify`. The four `goto rej`
are `Reject`. The variables are the locals of the call with their reuse kept:
`w0` and `h` are changed in place, and the head of the output buffer holds
`ctilde` from the moment it is computed. The samplers are random oracles that
are drawn lazily, one value per nonce and one challenge per `ctilde`. `Ring`
holds the negacyclic product as a sum of module Functions, and `Lattice` the
norms and vector operations over functions on `0..N-1`; that the transforms
of the code compute this product is the theorem `TransformIsMul`. Parameters
(`Q`, `D`, `GAMMA2`, `N`, `K`, `L`, `ETA`, `TAU`, `OMEGA`) are constants. `HighBits` states the roundings
by their defining equations for any parameters; `Rounding` has the integer
formulas of the code for ML-DSA-44, and equates the two.

**Transcript**. Calls of `crypto_sign_signature_ctx` by several keys, contexts,
messages and values of `rnd`, then one call of `crypto_sign_verify_ctx` on a
signature returned, under any arguments. Hash outputs are labelled terms, so
two are equal exactly when the hashed bytes are; the bytes of `mu` are kept as
a sequence, since moving bytes from one field to the next is the hazard. The
result of `randombytes` is ignored by the code, so `rnd` is any value, an old
one too.

**Rounding**. `reduce32`, `caddq`, `freeze`, `power2round`, `decompose`,
`make_hint`, `use_hint` and the norm test of `poly_chknorm`, with the shifts of
the code as divisions rounding down and the real constants of ML-DSA-44.

**BitPack**. The packers and unpackers of `poly.c` as tables: which bit of
which coefficient goes to which bit of which byte. Packing is linear over
bits, so the tables say what happens to every value at once.

**RejSampler**. `poly_uniform` (three bytes, at most one coefficient) and
`poly_uniform_eta` (one byte, at most two) as one state machine with the two
samplers as parameters: `Group` reads a group and `Refill` squeezes a block,
carrying the bytes that a block boundary cut. Bytes are positions in the XOF's
stream; which parts of a group are accepted is free.

**Challenge**. `poly_challenge`: the first block with its sign bytes, the
refill inside the inner loop, candidates refused and accepted. A byte drawn is
a symbol (its place in the stream) and a value; a nonzero coefficient is the
number of the round that set it, which is also the number of its sign bit.

**Ntt**. A sum of products as `sign.c` computes them, in place: both factors go
through the layers of `ntt` (a matrix is sampled in the NTT domain, `given`),
`pointwise_acc` adds terms without reducing, `reduce` follows if there is more
than one, and the layers of `invntt_tomont` and its scaling end it. One action
per layer, term and pass. `montgomery_reduce` and `reduce32` are those of the
code with the modulus, `R` and the divisor as constants. **Zetas** is the real
table.

**KeccakF**. The permutation, as the 25 lanes that each block of the unrolled
loop gathers, their rotations and the round constants; a lane is the set of
its bits that are one. The two halves of the loop are the same text with `A`
and `E` exchanged, so one action stands for both. The reference in the same module is
FIPS 202's theta, rho, pi, chi, iota, with its offsets and constants computed
from their definitions.

**Layout**. The buffers of `pack_pk`, `pack_sk`, `pack_sig`, their inverses and
the two `seedbuf` as lists of fields, with the real sizes of `params.h`; the
size of a polynomial comes from the tables of `BitPack`.

**RandomBytes**. Every build of `randombytes`. The state is the next system
call, the bytes left, open descriptors, `errno` and the codes the functions
return. A call may succeed, be interrupted, return fewer bytes or fail.

**SignedMessage**. `crypto_sign_ctx` and `crypto_sign_open_ctx` on one array of
cells, in which `sm` and `m` may lie anywhere, one action per byte copied. The
signature is ideal: it verifies for the message it was made of. Between the
calls the signed message may be changed or cut.

**SeedFile**. The seed file of `openssl_from_app`: bytes or digits, by the name
or by trial, `fgets` with its limit and `clean_hex`. **TextBlocks**. The loops
of `extract_block` and of `openssl_from_app` over the lines of a text; both are
run on every text, for each label. `KeyTools` has the outcomes of these two
readers; these modules have the reading itself.

**HintPack**. The hint part of `pack_sig` and `unpack_sig`: one action per
write, row and read, with the encoder's cursor `k` and the decoder's checks in
their order. It decodes every string of bytes, encoded or not.

**KeccakInc** and **Xof**. The incremental sponge, one action per block or rest
of a block, with `s_inc[25]` as `pos`. A lane's content is the set of symbols
XORed into it (symmetric difference), and the permutation is injective and
uninterpreted: a block of output is named by how often the state was permuted.
`Xof` is what a caller of `shake128`/`shake256` is promised: a stream of bytes
determined by the input, of which each call reads the next piece.

**KeyTools**. The programs as processes over the files of `keys/`. Every step
opens, reads or writes one file. A file is replaced in two steps: `fopen` for
writing empties it (`Begin`; `Open` in `genkey`), and its content appears when
the stream is closed (`Finish`; `Close`, `StoreKeys`), as keys, seeds and
signatures are smaller than a stream's buffer; of a longer file, the texts of
OpenSSL, a reader sees a short one until then. Faults: a file that does not open,
a write cut short, an OpenSSL process that fails or stops in the middle of its
text, and a kill at any step. `run_status` looks at the exit status only, so a
run may go on after an OpenSSL that a signal killed (`Pubout`). OpenSSL is
external: it derives from a seed the key pair that `genkey` derives, and prints
three blocks of text.

## 3. Runs

TLC covers every reachable state of each instance below.

| run | question | states |
|---|---|---|
| `sign_poly` | Do signatures verify, and do the norm checks hide the key, when products are negacyclic and the hint limit can be exceeded? | 155 000 |
| `sign_vec` | Is state carried over between attempts? Are mask nonces fresh? Does the loop end? | 15 600 |
| `transcript` | To what are masks and signatures bound? | 169 000 |
| `transcript_readme` | Are two signatures of one file the same? (violated) | |
| `hint_pack` | Is the hint encoding in bounds, invertible and unique? | 34 000 |
| `keccak_inc` | Is the incremental sponge the one-shot one, however calls are cut? | 903 |
| `arithmetic` | Do the integer formulas, packers, layouts and the table of roots hold what they stand for? | 1 023 |
| `reduce32_doc` | Is the documented range of `reduce32` right? (violated) | |
| `routines` | Do the routines that keep state while they run do what their callers rely on? | 557 500 |
| `seed_forms` | Is a `.hex` file with spaced digits read? (violated) | |
| `keytools` | What do failures, kills and concurrent runs leave in `keys/`? | 1 830 000 |
| `keytools_stale` | Are the files of `openssl_from_app` of the given seed? (violated) | |

Bounds, and why they are enough:

- `sign_poly`: Q = 41, D = 3, GAMMA2 = 4, GAMMA1 = 4, N = 2, one row and column,
  OMEGA = 1, two nonces. The parameters keep the relations the scheme needs
  (`2*GAMMA2` divides `Q-1`, `TAU*2^(D-1) <= GAMMA2`) and are small enough that
  every check refuses some attempts and passes others, that w wraps at the top
  of its range (`a0 = -GAMMA2`), and that two hint bits exceed OMEGA.
- `sign_vec`: N = 1, two rows and columns, four nonces: a window of nonces has
  two members and wraps after two attempts, so a refused mask comes back.
  Fairness is `WF_vars(Step)`, for a single thread that always has a next
  statement. `SignTerminates` says that the loop ends *or* that the nonce has
  run through all of its values; that some mask passes is a matter of
  probability, which the model does not have and the code does not bound.
- `transcript`: a byte has two values, so a context of two bytes is already too
  long and its length wraps in the length byte; contexts and messages are
  prefixes and suffixes of each other, so that their concatenations collide.
  Two signing calls and one verification, two attempts each: every property is
  about two uses or one verdict.
- `hint_pack`: K = 2 rows, N = 5, OMEGA = 3. All hint vectors within OMEGA are
  encoded; all byte strings of the length are decoded. A byte has N values, as
  in the code (N = 256), so counters above OMEGA occur among them.
- `keccak_inc`: a rate of 4 bytes, up to 13 bytes in and 13 out, in calls of
  any length: three full blocks and a rest, cut everywhere.
- `arithmetic`: the real ML-DSA-44 values; every integer within 40 of every
  point where a formula changes its course. Between those points the theorems
  of `RoundingProofs` cover the rest. The packing tables, the roots and the bytes of
  keys and signatures are checked whole.
- `routines`: one routine runs, from any of its initial states, and the others
  rest.
  - Samplers: four coefficients, blocks of 3, 4 and 5 bytes, so that a block
    cuts a triple after 0 (the case of the rate 168), 1 and 2 bytes; the first
    squeeze takes two blocks. `MaxStream = 20` bounds how long a sampler goes
    on refusing.
  - Challenge: three of four places, one byte of signs, blocks of three bytes:
    the first has less than a round needs, and every number of candidates may
    be refused until `MaxSqueezed = 9` bytes are drawn.
  - Ntt: N = 4, Q = 241, R = 2048. 4*241 is as close below R/2 as 256*8380417
    is below 2^31, and REDUCE is just above Q. Factors are every polynomial with
    all coefficients at an end of their range and every monomial; sums have one
    to three terms, one of them subtracted. Values are those of a smaller ring;
    the ranges with the real constants are a theorem.
  - Permutation: all 24 rounds from the zero state and from one with half its
    bits set. Each bit of a lane is used in every round, so a wrong offset,
    lane or constant shows.
  - Random bytes: three bytes in calls of up to two.
  - Signed messages: a signature of two bytes, messages of up to three, seven
    cells: the buffers overlap in every way they can.
  - Seed files: a seed of two bytes, every file of up to five characters over
    two digits, a blank and a newline: a line without its newline, one with it
    and one that is too long.
  - Texts: a key with or without its seed and a public key, cut after every
    line, within every line and within every label.
- `keytools`: two seeds, two messages, four runs, two at once, one fault.
  `PairMatches` needs two runs of `genkey` and a fault to go wrong, and the
  others a run that reads while another writes. Seeds and messages are
  interchangeable, and symmetry is declared for both. At most one process of
  each program runs at a time: two concurrent runs of `genkey` are outside the
  model.

Fairness. `RandomFairness`: a program goes on (weak fairness of every step but an
interruption), so a call is not interrupted for ever, and the kernel's entropy
is enough at some time when asked again and again (strong fairness of that
answer). For the readers, weak fairness of their loop.

Deadlock is not checked where the system comes to rest: when the bounded calls
are over, or no program runs.

The properties, in one line each:

- `SignedVerifies`: verification accepts what signing returns.
- `MaskHidesS1`, `LowBitsHideS2`: every other short secret would have given the
  same `z` with another mask in range, and the same `w1`.
- `NoSecondChance`: a mask that was refused is refused when it comes back.
- `MaskNoncesFresh`, `SignTerminates`: no XOF nonce is used twice before all
  have been; the loop ends unless that happens.
- `OneMessagePerMask`, `AcceptsOnlyWhatWasSigned`, `AcceptsWhatWasSigned`: a mask
  serves one key, context and message; a verdict of 0 is given for the signed
  triple and for no other.
- `StaysInside`, `RoundTrip`, `OneEncoding`: the encoder and decoder stay within
  the buffer, decoding undoes encoding, and of all strings of bytes exactly
  one is accepted for a vector.
- `AbsorbsAsOneShot`, `SqueezesAsOneShot`, `ImplementsXof`: however the calls
  are cut, the blocks and the output are those of the one-shot functions.
- `NormVerdictIsCentered`, `DecomposeIsDivision`, `PartsFitTheirBits`,
  `HintRepairs`: what the integer formulas compute.
- `ZetasAreRoots`: each constant of the table is the power of the root its place
  asks for, in Montgomery form. `FieldsReadAsWritten`: each byte of a key or a
  signature belongs to one field, and is read back as what was written; what is
  hashed for `rhoprime` is `key`, `rnd` and `mu`.
- `PackIsBitString`, `UnpackInvertsPack`: the packed bytes are the bits of the
  coefficients in order, and unpacking finds them.
- `ReadsStreamInOrder`, `SamplesAcceptedInOrder`: the sampler looks at every
  group of the stream once, and its coefficients are the first accepted ones.
- `ChallengeIsTernary`, `ChallengeKeepsChoices`: one coefficient per round with
  a sign bit of its own, TAU in the end; no byte of the stream is read twice or
  skipped, and no round loses what an earlier one chose.
- `NttMultiplies`, `NttStaysInRange`: the result is the sum of the products in
  the ring, and nothing leaves its 32 bits or the domain of
  `montgomery_reduce` on the way.
- `PermutesAsKeccak`: each round is that of FIPS 202.
- `RandomBytesFills`, `RandomBytesReturnsWhenRun`: each byte is written once, not
  before there was entropy, and success leaves nothing open; the call returns,
  but for the broken `entropy_avail` of section 5.
- `SignsTheMessage`, `OpensOnlyTheSigned`: what is signed is the message given,
  also where the buffers overlap as the comments allow; what is opened is what
  was signed, and otherwise nothing of it is left.
- `SeedIsRead`: the files `genkey` writes are read as the seed they hold.
- `BlockIsRead`, `BlockReadersReturnWhenRun`: a block is the digits under its
  label, all of them and no others, wherever the text ends; and both readers
  come to an end, but for `extract_block` on a text cut within a label.
- `PairMatches`: two whole key files in `keys/` are of one seed, whatever failed.
- `FailedSignKeepsOld`: a `sign_file` that ends with an error leaves the old
  signature, and one that replaces it has a whole key.
- `CleanRunIsExact`: a run without a fault that ends with 0 has written exactly
  the files of its key.

## 4. Theorems

TLAPS checks every proof in the `*Proofs` modules, for every value of the
constants that the assumptions allow. `PROJECT.json` lists the theorems with
the property each one states; here is the argument of each module.

### Assumptions

They are named `ASSUME`s of the modules, and TLC evaluates them on every run.

| assumption | what it says | in the code |
|---|---|---|
| `RoundingAssumption` | `Q = HIGH*2*GAMMA2 + 1`, `HIGH > 1` | `params.h`, 44 high parts |
| `PowerAssumption` | `2^D` and `2^(D-1)` are positive integers; the provers do not know `^` | D = 13 |
| `LatticeAssumption` | the ranges fit: BETA below GAMMA1 and GAMMA2, norm bounds at most `(Q-1)/8` | the condition of `poly_chknorm`, `poly.c` |
| `SignLoopAssumption` | L divides the number of nonces; samplers yield values in their ranges | `uint16_t nonce`, L = 4; `poly_uniform*` |
| `TranscriptAssumption` | contexts and messages are sequences of bytes; a signature of the right length is among the lengths tried | |
| `HintAssumption` | a counter fits a byte: `OMEGA < N` | 80 < 256 |
| `RateAssumption`, `RandomAssumption`, `MessageAssumption`, `WidthAssumption`, `SamplerAssumption` | sizes are naturals, and positive where the code divides or steps by them | |
| `ChallengeAssumption` | a sign bit for each of the TAU coefficients, and the first block holds them | 39 <= 64 bits, 8 <= 136 |
| `RingAssumption` | a polynomial has a coefficient | N = 256 |
| `StartsAssumption` | a lane is a set of positions 0..63 | `uint64_t` |
| `SeedAssumption` | a seed has a byte | 32 |
| `TextsAssumption` | OpenSSL prints each block once, the lines of digits follow their label, and only the last line is cut | `openssl pkey -text -noout` |
| `KeyToolsAssumption` | the arguments given to the programs are files of `keys/` | the command lines of `README.md` |

Theorems about the transforms have the numbers of ML-DSA-44 as hypotheses:
`MLDSA44`, the constants of `params.h`, `reduce.h` and `ntt.c`, a table of zetas
smaller than Q and sums of up to five terms with factors smaller than Q; and
`MLDSA44Roots`, which adds that the table holds the powers of 1753 at
bit-reversed places in Montgomery form (`RootTable`; `ZetasAreRoots` checks
this of the real table) and that the first term of a sum is not subtracted.

### SignLoopProofs, on RingProofs

The signer's promises, for any ring, matrix, moduli, bounds, keys, masks and
challenges:

- `NoncesAreFresh`. The set of nonces used is `0..L*n-1` with `n` the counter,
  or all of them. Freshness alone is not inductive, since it says nothing of
  which nonces come next; that the set is an initial segment does.
- `VerdictsRepeat` (`NoSecondChance`). Each attempt is a function of its mask
  and challenge: `AttemptInv` says what every local holds at every place of the
  loop (`z`, `w0`, `h` are reused, so their meaning changes from place to place) and
  which checks have been passed on the way; `RejectedInv` says that a refused
  mask has the challenge it was refused with.
- `SignedIsAccepted` (`SignedVerifies`). `SoundInv` adds `KeyInv` (`t1*2^D + t0`
  is `A*s1 + s2` modulo Q), `MaskInv` and `SigInv`: the bytes returned are those
  of an attempt that passed every check, until they are verified. The step to
  the verdict is `VerifierRebuilds`.
- `ResponseHidesSecret` (`MaskHidesS1`) and `CommitmentHidesSecret`
  (`LowBitsHideS2`), from `MaskLeft` and `CommitmentKept`: a norm check leaves
  room for every other short secret, since `MulBounded` bounds `c*s` by BETA.

The algebra behind them. `RingProofs`, which `RoutineProofs` uses too:

- Sums over finite sets. A sum is a fold in an order that nobody chose, so
  linearity, bounds and the exchange of two sums are shown along that order, by
  well-founded induction with the property given as a set of subsets.
- The ring. `Ext` continues a polynomial past its ends with the sign that turns
  at X^N; a product is then one sum without a case, and `MulSwaps` (`a(cs) =
  c(as)`, all of commutativity and associativity that verification needs) is an
  exchange of sums with a shift.

In `SignLoopProofs`:

- `MulBounded`: a challenge times a short polynomial is bounded by BETA.
- The rounding, by its defining equations for any Q and GAMMA2: `HintsRecover`,
  at both ends of the high parts and at `a0 = -GAMMA2`.
- `VerifierRebuilds`: modulo Q, `A*z - c*t1*2^D` is `w - c*s2 + c*t0`, and the
  hints give the high part of `w` back.

### The other modules

- **TranscriptProofs.** `MasksAreOfOneMessage`, `AcceptanceIsBound` and
  `AcceptanceIsComplete`, for any alphabet, contexts and messages. The heart is
  `MuInjective`: the bytes of `mu` determine key, context and message, because
  the length byte is exact for every context that passes the check of
  `ctxlen`. The invariant carries that every recorded mask and signature was
  made from the `mu` of its own call.
- **KeccakProofs.** `AbsorbCorrect`, `SqueezeCorrect` and `Refinement`
  (KeccakInc implements Xof), for any rate and any cut of the calls. The
  invariant says what every cell of the state holds: the bytes of the current
  block below `pos` and nothing above; after `finalize`, how many bytes of the
  squeezed blocks were read.
  - The permutation: `RoundsAreKeccak` (`PermutesAsKeccak`), for every state. FIPS
    202 computes the rotations by a walk over the lanes and the round constants
    by a register of eight bits; both recursions are unfolded, a walk of 24 places
    (`WalkIs`, `Rotations`) and a register of 168 turns (`SevenTurns`,
    `ConstantBits`), and give the numbers in the code. Then bit by bit: the xor of
    five lanes is a parity (`OddOfFive`), a block gathers what pi and rho bring
    there (`GatheredBit`), and the planes are chi's (`ChiBit`). `PermuteInv` adds
    that theta's sums, computed in a step of their own, are of the lanes as they
    still are.
- **RoundingProofs.** What each integer formula returns for every argument in
  its domain, with the constants of ML-DSA-44; `RoundsAsSpecified`, that they
  are the equations of `HighBits` with which `SignLoopProofs` reasons (the
  values of 2^13 and 2^12 are hypotheses there, as the provers do not know powers);
  `VerifierAgrees` and
  `HighPartHides` for one coefficient; and the four properties of the run
  `arithmetic` about them, for windows of any width (`NormVerdicts`,
  `Decompositions`, `PartWidths`, `HintsRepair`).
- **HintPackProofs.** `StaysWithin`, `ReadsBack` and `Canonical`, for any K, N,
  OMEGA and bytes. While packing, `k` is the number of ones before the current
  place, which bounds the cursor, and the bytes written list the ones of each
  row in rising order. While unpacking, the rows read so far are the only ones
  the bytes read so far can mean, because the indices rise strictly and the
  padding is zero (`OneString`, `OneVector`); and no check fails on bytes that
  were packed.
- **KeyToolsProofs.** `PairNeverMixed`, `OldSignatureKept` and
  `CleanRunsAreExact`, for any number of seeds, messages, runs, programs at once
  and faults. Each file has one program that writes it (`Owned`), so that an
  invariant of one program is left alone by all others (`Local`). `OpenInv`:
  while `genkey` has a key file open and unwritten, that file is short, so that
  a whole one is always of the seed being written. `SignInv`: the old signature
  stays until a whole key has been read and `app_sign.bin` is open. `GenkeyInv`, `FromAppInv`,
  `FromOpensslInv`: which files a run without a fault has written at each place.
  - Seed files: `SeedsAreRead`, for any length of seed. `SeedInv`: text is read
    only where the name asks for it or there are too few bytes. The digits that
    `genkey` writes have no blank among them, so `clean_hex` keeps each at its
    place (`AllKept`), and `fgets` takes them whole, with a newline or without.
  - Texts: `BlocksAreRead`, for every text that `TextsAssumption` allows. The
    label a line of digits belongs to is the nearest one above, so up to the
    next label all lines are the block's, and every line of the block is among
    them. `BlockInv`: what is taken is the digits printed under the label up to
    the current line (`Sums`), or begins with all of them once a cut label was
    taken for digits.
- **RoutineProofs.**
  - Samplers: `StreamInOrder` and `SamplesInOrder`, for any block length and
    number of coefficients. `Window` says that the read position is a multiple
    of the group and that the buffer is the stretch of the stream that follows
    what was read; the carried bytes need it.
  - Challenge: `Ternary` and `ChoicesKept`. `ChallengeInv`: the coefficients
    placed are a list of the sign bits used so far, each once, and all lie
    below the place that is being shuffled in.
  - Random bytes: `BytesFilled`, for every build. `RandomInv` says which
    descriptors may be open at each call, and that a call which reads after
    polling, or closes what was polled, either saw enough entropy or holds
    `retcode_error`, which then decides the result.
  - Signed messages: `MessageSigned` and `SignedOpened`, for any length and any
    overlap the copy can bear. `MessageInv`: which bytes have been moved and
    which still stand at their old place, and that the cell of the signature
    names what was signed.
  - NTT: `MontgomeryReduces`, for every odd modulus and every argument in the
    domain; `ProductsStayInRange`: `NttStaysInRange` for N = 256, Q = 8380417,
    R = 2^32, any table of zetas below Q and any sum of up to five terms. The
    invariant bounds every array in multiples of Q by the layer or the term
    the computation is in. TLC cannot do this instance (its integers have 32
    bits), and the small one has no 8 layers.
  - `ProductsByTransform` (`NttMultiplies`). The values of `brv` and of the powers
    of the root, of order 512, come first. `TransformInv` says what an array is
    at each layer: its pieces are the remainders of the polynomial modulo
    `X^len - r`, told by their values at the roots of that factor. A layer of
    `ntt` keeps these values (`LayerValue`), one of `invntt_tomont` doubles them
    (`InverseLayerValue`), and `f` cancels the 2^8 and the Montgomery factors.
    In the middle, `w` holds the values of the sum of the first terms.
  - `TransformIsMul`: the sum of products is that of `Ring`'s `Mul`, the operator
    with which `SignLoopProofs` reasons. The 256 values determine a polynomial
    and can be any (`SameValues`, `ValuesGive`), so a row of the matrix, which
    is sampled in the transform's domain, is the transform of one polynomial;
    the product's values are the products of the values (`MulValue`), by the
    sign that turns at X^N and the exchange of two sums.

### Only model-checked

- `SignTerminates`, `RandomBytesReturnsWhenRun`, `BlockReadersReturnWhenRun`:
  liveness under fairness is out of the prover's reach.
- `PackIsBitString`, `UnpackInvertsPack`, `ZetasAreRoots`,
  `FieldsReadAsWritten`: finite tables without a parameter. TLC evaluates them
  whole, so its check is already a proof.

## 5. Where code and documentation disagree

- `reduce.c:44` gives the range of `reduce32` as -6283008..6283008;
  -2143289344, inside the documented domain, gives -6283009 (run
  `reduce32_doc`). `ReduceCorrect` proves the exact range. No caller depends
  on the difference.
- `src/README.md:164` expects the signatures of the program and of OpenSSL to be
  identical; signing is hedged with fresh random bytes, so two signatures of
  one file differ (run `transcript_readme`).
- `openssl_from_app` goes on after a dump that failed, with the blocks out of the
  dump file of an earlier run, and ends without a word when it cannot open the
  dump file: it returns 0 and leaves files that belong to another seed (run `keytools_stale`; `openssl_from_app.c:239`).

- `openssl_from_app.c:141` allows blanks and newlines among the 64 digits of a
  `.hex` file; `fgets` takes 64 characters of one line before they are removed, so
  such a file is refused (run `seed_forms`).

Met while modelling, without a run of their own:

- `reduce.c:25-26` promises `-Q < r < Q` for arguments up to and including
  `Q*2^31`; that argument gives `r = Q`. No caller reaches it (`NttStaysInRange`,
  `MontgomeryReduces`).
- `packing.c:75` and `:127` name the fields of a secret key in an order that is not
  the one in which both functions have them.
- `extract_block` (`app_from_openssl.c:97-125`) never ends on a text that is cut
  within a label; `BlockReadersReturnWhenRun` excludes that text. `openssl_from_app` takes
  the `b` of a cut `pub` for a digit.
- `randombytes.c:183` tests an `errno` that `fscanf` may not have set, and
  `:264-269` close a descriptor or a stream again that is closed already;
  `rewind(NULL)` follows when `fopen` failed. Only the build without
  `SYS_getrandom` has this code.

## 6. Not modelled

- The nonces under which the matrix and the secrets are expanded
  (`polyvec.c:38`, `:55-61`, `:181-187`): constants of the code.
- Wrappers that apply a function to every polynomial of a vector appear as what
  they apply.
- The limit of 65535 characters of a block in `openssl_from_app.c:285`: the
  longest block OpenSSL prints, the secret key, has about 8 000.
- Timing, memory, wording of messages, the copying of sponge contexts and the
  SHA3 functions that nothing calls.
- `Makefile` and the demonstration: no state of their own.

## 7. Plan

Done: the modules above, in the order SignLoop, Transcript, Rounding,
KeccakInc, HintPack, KeyTools, RejSampler, BitPack; then Ntt, Challenge,
RandomBytes, SignedMessage, Zetas, Layout, KeccakF, SeedFile, TextBlocks.

Proved since: every safety property of SignLoop, Transcript, KeccakInc, HintPack,
KeyTools, RejSampler, Challenge, RandomBytes, SignedMessage, Ntt, KeccakF,
SeedFile and TextBlocks, and those of Rounding named above.

Next: the packing tables for symbolic widths.

## 8. How to run it

```
tlc -config MCSignLoop_poly.cfg MCSignLoop      # any run: cfg and module from PROJECT.json
tlapm SignLoopProofs.tla                        # any *Proofs module
```
