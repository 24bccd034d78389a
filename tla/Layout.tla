------------------------------- MODULE Layout -------------------------------
(***************************************************************************)
(* Where common/packing.c puts the fields of keys and signatures, and where *)
(* common/sign.c has its seeds in seedbuf.  Each function is the sequence  *)
(* of the fields it copies while it moves its pointer over the buffer.     *)
(* The pointer moves by a multiple of a size that params.h gives; what a   *)
(* packer of poly.c touches there follows from its table in BitPack.       *)
(***************************************************************************)
EXTENDS BitPack, FiniteSets, Functions

SEEDBYTES == 32
CRHBYTES  == 64
TRBYTES   == 64
RNDBYTES  == 32
CTILDEBYTES == 32
N     == 256
K     == 4
L     == 4
OMEGA == 80
POLYT1_PACKEDBYTES   == 320
POLYT0_PACKEDBYTES   == 416
POLYZ_PACKEDBYTES    == 576
POLYETA_PACKEDBYTES  == 96
POLYVECH_PACKEDBYTES == OMEGA + K

CRYPTO_PUBLICKEYBYTES == SEEDBYTES + K * POLYT1_PACKEDBYTES
CRYPTO_SECRETKEYBYTES == 2 * SEEDBYTES + TRBYTES + L * POLYETA_PACKEDBYTES
                           + K * POLYETA_PACKEDBYTES + K * POLYT0_PACKEDBYTES
CRYPTO_BYTES == CTILDEBYTES + L * POLYZ_PACKEDBYTES + POLYVECH_PACKEDBYTES

\* The loops of the packers over a polynomial: N / 4 or N / 8 groups.
PolyBytes(format) == (N \div Len(format.unpack)) * Len(format.pack)

\* A field is so many parts, each at a multiple of stride, of so many bytes.
Bytes(field, n)                 == [field |-> field, parts |-> 1, stride |-> n, bytes |-> n]
Polys(field, n, stride, format) == [field |-> field, parts |-> n, stride |-> stride,
                                    bytes |-> PolyBytes(format)]

pack_pk   == << Bytes("rho", SEEDBYTES), Polys("t1", K, POLYT1_PACKEDBYTES, t1) >>
unpack_pk == << Bytes("rho", SEEDBYTES), Polys("t1", K, POLYT1_PACKEDBYTES, t1) >>

\* The order of the arguments, which is the one in the function's comment.
pack_skByArguments ==
  << Bytes("rho", SEEDBYTES), Bytes("tr", TRBYTES), Bytes("key", SEEDBYTES),
     Polys("t0", K, POLYT0_PACKEDBYTES, t0),
     Polys("s1", L, POLYETA_PACKEDBYTES, eta), Polys("s2", K, POLYETA_PACKEDBYTES, eta) >>
pack_sk ==
  << Bytes("rho", SEEDBYTES), Bytes("key", SEEDBYTES), Bytes("tr", TRBYTES),
     Polys("s1", L, POLYETA_PACKEDBYTES, eta), Polys("s2", K, POLYETA_PACKEDBYTES, eta),
     Polys("t0", K, POLYT0_PACKEDBYTES, t0) >>
unpack_sk ==
  << Bytes("rho", SEEDBYTES), Bytes("key", SEEDBYTES), Bytes("tr", TRBYTES),
     Polys("s1", L, POLYETA_PACKEDBYTES, eta), Polys("s2", K, POLYETA_PACKEDBYTES, eta),
     Polys("t0", K, POLYT0_PACKEDBYTES, t0) >>

\* The hints fill the rest of a signature: module HintPack.
pack_sig ==
  << Bytes("c", CTILDEBYTES), Polys("z", L, POLYZ_PACKEDBYTES, z),
     Bytes("h", POLYVECH_PACKEDBYTES) >>
unpack_sig ==
  << Bytes("c", CTILDEBYTES), Polys("z", L, POLYZ_PACKEDBYTES, z),
     Bytes("h", POLYVECH_PACKEDBYTES) >>

\* seedbuf of crypto_sign_keypair and of crypto_sign_signature_ctx
KeypairSeeds == << Bytes("rho", SEEDBYTES), Bytes("rhoprime", CRHBYTES), Bytes("key", SEEDBYTES) >>
SignSeeds ==
  << Bytes("rho", SEEDBYTES), Bytes("tr", TRBYTES), Bytes("key", SEEDBYTES),
     Bytes("rnd", RNDBYTES), Bytes("mu", CRHBYTES), Bytes("rhoprime", CRHBYTES) >>

-----------------------------------------------------------------------------
\* The distance from the start of the buffer to field n.
Offset(fields, n) == SumFunction([i \in 1..(n - 1) |-> fields[i].parts * fields[i].stride])

\* Which byte of which part of which fields is at byte b of the buffer.
At(fields, b) ==
  UNION {{<<fields[n].field, p, b - Offset(fields, n) - p * fields[n].stride>> :
             p \in {q \in 0..(fields[n].parts - 1) :
                      b - Offset(fields, n) - q * fields[n].stride \in 0..(fields[n].bytes - 1)}} :
         n \in DOMAIN fields}

\* The fields share no byte and fill the buffer: byte size is beyond the last.
TilesAt(fields, size, b) == Cardinality(At(fields, b)) = IF b < size THEN 1 ELSE 0

\* shake256(rhoprime, CRHBYTES, key, SEEDBYTES + RNDBYTES + CRHBYTES) takes key,
\* rnd and mu in one piece.
HashedFromKey(b) ==
  Offset(SignSeeds, 3) <= b /\ b < Offset(SignSeeds, 3) + SEEDBYTES + RNDBYTES + CRHBYTES

\* Every byte of the buffers is a byte of one field, what is unpacked is what
\* was packed there, and the bytes hashed for rhoprime are those of key, rnd
\* and mu.
LaidOutAt(b) ==
  /\ TilesAt(pack_pk, CRYPTO_PUBLICKEYBYTES, b)  /\ At(unpack_pk, b) = At(pack_pk, b)
  /\ TilesAt(pack_sk, CRYPTO_SECRETKEYBYTES, b)  /\ At(unpack_sk, b) = At(pack_sk, b)
  /\ TilesAt(pack_sig, CRYPTO_BYTES, b)          /\ At(unpack_sig, b) = At(pack_sig, b)
  /\ TilesAt(KeypairSeeds, 2 * SEEDBYTES + CRHBYTES, b)
  /\ TilesAt(SignSeeds, 2 * SEEDBYTES + TRBYTES + RNDBYTES + 2 * CRHBYTES, b)
  /\ HashedFromKey(b) <=> \E a \in At(SignSeeds, b) : a[1] \in {"key", "rnd", "mu"}
=============================================================================
