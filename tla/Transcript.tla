----------------------------- MODULE Transcript -----------------------------
(***************************************************************************)
(* What a signature is bound to: the byte strings that common/sign.c       *)
(* hashes into tr, mu, rhoprime and ctilde, over several calls of          *)
(* crypto_sign_signature_ctx and crypto_sign_verify_ctx with several keys. *)
(*                                                                         *)
(* SHAKE256 is a collision-free hash: H(x) is the term x under a label, so *)
(* two outputs are equal when the byte strings hashed are.  The arithmetic *)
(* is module SignLoop's: here an attempt is accepted or refused freely,    *)
(* and the w1 that a verifier rebuilds is the signer's when it uses the    *)
(* signer's public key, and anything otherwise.                            *)
(***************************************************************************)
EXTENDS Integers, Sequences

CONSTANTS KEYS,      \* key pairs
          RADIX,     \* values of a byte, 256
          CONTEXTS, MESSAGES,
          RNDS,      \* values of the 32 bytes rnd
          SIGLENS, SIGBYTES,   \* lengths a verifier is given; CRYPTO_BYTES
          MaxCalls,  \* bound: signing calls
          MaxNonce   \* bound: attempts of one call

Bytes == 0..(RADIX - 1)

ASSUME TranscriptAssumption ==
  /\ RADIX \in Nat \ {0}
  /\ CONTEXTS \subseteq Seq(Bytes) /\ MESSAGES \subseteq Seq(Bytes)
  /\ SIGBYTES \in SIGLENS
  /\ MaxCalls \in Nat /\ MaxNonce \in Nat

VARIABLES pc,       \* where the signing call in progress is
          buf,      \* its seedbuf: key pair, rnd, mu, rhoprime; and ctx, m
          nonce,    \* its nonce
          uses,     \* history: every mask expanded, and what it was used for
          signed,   \* history: the signatures returned
          verdict   \* the call of verify: its arguments and result

vars == <<pc, buf, nonce, uses, signed, verdict>>

None == [used |-> FALSE]

\* ctxlen > 255 is refused, by both callers.
TooLongUnchecked(ctx) == FALSE
TooLong(ctx) == Len(ctx) > RADIX - 1

\* mu[0] = 0; mu[1] = (uint8_t)ctxlen
Prefix(ctx) == <<0, Len(ctx) % RADIX>>

\* mu = H(tr | 0 | ctxlen | ctx | m), with tr = H(pk) one element for the key
SignMu(k, ctx, m)   == <<"mu", <<k>> \o Prefix(ctx) \o ctx \o m>>
VerifyMuNoPrefix(k, ctx, m) == <<"mu", <<k>> \o ctx \o m>>
VerifyMu(k, ctx, m) == <<"mu", <<k>> \o Prefix(ctx) \o ctx \o m>>

\* rhoprime = H(key | rnd | mu), three neighbours in seedbuf
RhoPrimeNoMu(b) == <<"rhoprime", b.k, b.rnd>>
RhoPrime(b) == <<"rhoprime", b.k, b.rnd, b.mu>>

\* ctilde = H(mu | w1), where w1 follows from the key and the mask
CTilde(mu, w1) == <<"ctilde", mu, w1>>
W1(k, rhoprime, n) == <<"w1", k, rhoprime, n>>

Init ==
  /\ pc = "idle" /\ buf = None /\ nonce = 0
  /\ uses = {} /\ signed = << >>
  /\ verdict = None

(***************************************************************************)
(* crypto_sign_signature_ctx                                               *)
(***************************************************************************)
\* The call, its check of ctxlen, unpack_sk and the computation of mu.
SignCall(k, ctx, m) ==
  /\ pc = "idle" /\ Len(signed) < MaxCalls
  /\ ~TooLong(ctx)
  /\ buf' = [k |-> k, ctx |-> ctx, m |-> m, mu |-> SignMu(k, ctx, m)]
  /\ nonce' = 0
  /\ pc' = "random"
  /\ UNCHANGED <<uses, signed, verdict>>

\* randombytes(rnd, RNDBYTES), whose result is ignored: whether it succeeds,
\* fails half-way or fails at once, rnd is some bytes, maybe old ones.
Derive ==
  /\ pc = "random"
  /\ \E r \in RNDS :
       LET b == [k |-> buf.k, mu |-> buf.mu, rnd |-> r]
       IN buf' = [k |-> buf.k, ctx |-> buf.ctx, m |-> buf.m, mu |-> buf.mu,
                  rhoprime |-> RhoPrime(b)]
  /\ pc' = "rej"
  /\ UNCHANGED <<nonce, uses, signed, verdict>>

\* One pass of the loop: a mask is expanded, used for ctilde and z.
Use == [rhoprime |-> buf.rhoprime, nonce |-> nonce,
        k |-> buf.k, ctx |-> buf.ctx, m |-> buf.m]

Refused ==
  /\ pc = "rej" /\ nonce < MaxNonce
  /\ uses' = uses \cup {Use}
  /\ nonce' = nonce + 1
  /\ UNCHANGED <<pc, buf, signed, verdict>>

Accepted ==
  /\ pc = "rej"
  /\ uses' = uses \cup {Use}
  /\ nonce' = nonce + 1
  /\ signed' = Append(signed,
       [k |-> buf.k, ctx |-> buf.ctx, m |-> buf.m,
        w1 |-> W1(buf.k, buf.rhoprime, nonce),
        c  |-> CTilde(buf.mu, W1(buf.k, buf.rhoprime, nonce))])
  /\ pc' = "idle" /\ buf' = None
  /\ UNCHANGED verdict

(***************************************************************************)
(* crypto_sign_verify_ctx, of one of the signatures returned, under any    *)
(* key, context, message and length.                                       *)
(***************************************************************************)
VerifyCall(i, k, ctx, m, siglen) ==
  /\ pc = "idle" /\ Len(signed) = MaxCalls /\ ~verdict.used
  /\ \E w1 \in {signed[i].w1, W1(k, <<"other">>, 0)} :
       /\ k = signed[i].k => w1 = signed[i].w1
       /\ verdict' =
            [used |-> TRUE, sig |-> signed[i], k |-> k, ctx |-> ctx, m |-> m,
             siglen |-> siglen,
             ret |-> IF \/ TooLong(ctx) \/ siglen # SIGBYTES
                        \/ CTilde(VerifyMu(k, ctx, m), w1) # signed[i].c
                       THEN -1 ELSE 0]
  /\ UNCHANGED <<pc, buf, nonce, uses, signed>>

Next ==
  \/ \E k \in KEYS, ctx \in CONTEXTS, m \in MESSAGES : SignCall(k, ctx, m)
  \/ Derive \/ Refused \/ Accepted
  \/ \E i \in DOMAIN signed, k \in KEYS, ctx \in CONTEXTS, m \in MESSAGES,
        siglen \in SIGLENS : VerifyCall(i, k, ctx, m, siglen)

Spec == Init /\ [][Next]_vars

-----------------------------------------------------------------------------
\* The type of every variable; no context that does not fit its length byte
\* gets past the signer.
ShortContexts == {ctx \in CONTEXTS : Len(ctx) < RADIX}
OfSameCall(r, s) == r.k = s.k /\ r.ctx = s.ctx /\ r.m = s.m
OfCall(r) == r.k \in KEYS /\ r.ctx \in ShortContexts /\ r.m \in MESSAGES

TypeOK ==
  /\ pc \in {"idle", "random", "rej"}
  /\ nonce \in 0..(MaxNonce + 1)
  /\ pc = "rej" => nonce <= MaxNonce
  /\ pc # "idle" => OfCall(buf)
  /\ \A u \in uses : OfCall(u)
  /\ \A i \in DOMAIN signed : OfCall(signed[i])
  /\ verdict.used => verdict.ret \in {0, -1}

\* Two uses of one mask are uses for one key, one context and one message,
\* even when randombytes returns the same rnd again: a mask used for two
\* challenges gives the secret key away.
OneMessagePerMask ==
  \A u, v \in uses :
    u.rhoprime = v.rhoprime => u.k = v.k /\ u.ctx = v.ctx /\ u.m = v.m

\* A signature is accepted, at its full length, for the key, the context and
\* the message it was made for, and for no other split of the same bytes.
AcceptsOnlyWhatWasSigned ==
  verdict.used /\ verdict.ret = 0 =>
    /\ verdict.siglen = SIGBYTES
    /\ verdict.k = verdict.sig.k
    /\ verdict.ctx = verdict.sig.ctx /\ verdict.m = verdict.sig.m

\* The verifier derives the signer's mu, so what was signed is accepted.
AcceptsWhatWasSigned ==
  (/\ verdict.used
   /\ verdict.k = verdict.sig.k /\ verdict.ctx = verdict.sig.ctx
   /\ verdict.m = verdict.sig.m /\ verdict.siglen = SIGBYTES)
  => verdict.ret = 0

\* What README.md:164 says of app_sign.bin and openssl_app_sign.sig, made of
\* the same file with the same key: they are the same.  One file can equal
\* at most one of two signatures that differ.
IdenticalSignatures ==
  \A i, j \in DOMAIN signed :
    OfSameCall(signed[i], signed[j]) => signed[i].c = signed[j].c
=============================================================================
