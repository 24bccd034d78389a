-------------------------- MODULE TranscriptProofs --------------------------
(***************************************************************************)
(* Proofs about Transcript, for any keys, contexts, messages and number of *)
(* calls: no mask is shared between two messages, and no signature is      *)
(* accepted for anything but what was signed.                              *)
(*                                                                         *)
(* Both follow from the same lemma: mu determines the key, the context and *)
(* the message, because the length byte says where the context ends.  It   *)
(* does so only for contexts whose length fits the byte, which is why the  *)
(* invariant keeps the longer ones out of every buffer.                    *)
(***************************************************************************)
EXTENDS Transcript, SequenceTheorems, TLAPS

\* The bytes hashed into mu, and the symbols they are made of.
Symbols == KEYS \cup Bytes
Hashed(k, ctx, m) == <<k>> \o Prefix(ctx) \o ctx \o m

LEMMA ByteType == RADIX \in Nat \ {0} /\ 0 \in Bytes
BY TranscriptAssumption DEF Bytes

\* A length below RADIX is what the length byte holds.
LEMMA LengthByte ==
  ASSUME NEW n \in Nat, n < RADIX
  PROVE  n % RADIX = n /\ n \in Bytes
<1>1. RADIX \in Nat \ {0}
  BY ByteType
<1> QED BY <1>1, SMT DEF Bytes

\* A concatenation by its parts, with the second one's places counted from
\* the end of the first.
IsConcat(u, s, t) ==
  /\ Len(u) = Len(s) + Len(t)
  /\ \A i \in 1..Len(s) : u[i] = s[i]
  /\ \A i \in 1..Len(t) : u[Len(s) + i] = t[i]

LEMMA Pieces ==
  ASSUME NEW S, NEW s \in Seq(S), NEW t \in Seq(S)
  PROVE  s \o t \in Seq(S) /\ IsConcat(s \o t, s, t)
<1>1. Len(s) \in Nat /\ Len(t) \in Nat
  BY LenProperties
<1>2. /\ s \o t \in Seq(S) /\ Len(s \o t) = Len(s) + Len(t)
      /\ \A i \in 1..(Len(s) + Len(t)) :
           (s \o t)[i] = IF i <= Len(s) THEN s[i] ELSE t[i - Len(s)]
  BY ConcatProperties
<1> DEFINE u == s \o t
<1> HIDE DEF u
<1>3. \A i \in 1..(Len(s) + Len(t)) :
        u[i] = IF i <= Len(s) THEN s[i] ELSE t[i - Len(s)]
  BY <1>2 DEF u
<1>4. \A i \in 1..Len(s) : u[i] = s[i]
  BY <1>1, <1>3, SMT
<1>5. \A i \in 1..Len(t) : u[Len(s) + i] = t[i]
  <2> SUFFICES ASSUME NEW i \in 1..Len(t) PROVE u[Len(s) + i] = t[i]
    OBVIOUS
  <2>1. Len(s) + i \in 1..(Len(s) + Len(t)) /\ ~(Len(s) + i <= Len(s))
        /\ (Len(s) + i) - Len(s) = i
    BY <1>1, SMT
  <2> QED BY <1>3, <2>1, Zenon
<1> QED BY <1>2, <1>4, <1>5, Zenon DEF u, IsConcat

\* Where the pieces of the hashed string are.
LEMMA Layout ==
  ASSUME NEW k \in KEYS, NEW ctx \in ShortContexts, NEW m \in MESSAGES
  PROVE  /\ ctx \in Seq(Bytes) /\ m \in Seq(Bytes)
         /\ Len(Hashed(k, ctx, m)) = 3 + Len(ctx) + Len(m)
         /\ Hashed(k, ctx, m)[1] = k
         /\ Hashed(k, ctx, m)[3] = Len(ctx)
         /\ \A i \in 1..Len(ctx) : Hashed(k, ctx, m)[3 + i] = ctx[i]
         /\ \A i \in 1..Len(m) : Hashed(k, ctx, m)[3 + Len(ctx) + i] = m[i]
<1> DEFINE p == <<k>> \o Prefix(ctx)
           q == p \o ctx
<1>1. /\ ctx \in Seq(Bytes) /\ m \in Seq(Bytes) /\ Len(ctx) < RADIX
      /\ Len(ctx) \in Nat /\ Len(m) \in Nat
  BY TranscriptAssumption, LenProperties DEF ShortContexts
<1>2. ctx \in Seq(Symbols) /\ m \in Seq(Symbols)
  BY <1>1, SeqMonotonic DEF Symbols
<1>3. Len(ctx) % RADIX = Len(ctx) /\ Len(ctx) \in Bytes
  BY <1>1, LengthByte, Zenon
<1>4. /\ <<k>> \in Seq(Symbols) /\ Len(<<k>>) = 1 /\ <<k>>[1] = k
      /\ Prefix(ctx) \in Seq(Symbols) /\ Len(Prefix(ctx)) = 2
      /\ Prefix(ctx)[2] = Len(ctx)
  <2>1. k \in Symbols /\ 0 \in Symbols /\ Len(ctx) \in Symbols
    BY <1>3, ByteType, Zenon DEF Symbols
  <2>2. Prefix(ctx) = <<0, Len(ctx)>>
    BY <1>3, Zenon DEF Prefix
  <2> QED BY <2>1, <2>2
<1>5. p \in Seq(Symbols) /\ Len(p) = 3 /\ p[1] = k /\ p[3] = Len(ctx)
  <2>1. p \in Seq(Symbols) /\ IsConcat(p, <<k>>, Prefix(ctx))
    BY <1>4, Pieces, Zenon
  <2> HIDE DEF p
  <2> QED BY <1>4, <2>1 DEF IsConcat
<1> HIDE DEF p
<1>6. q \in Seq(Symbols) /\ IsConcat(q, p, ctx)
  BY <1>2, <1>5, Pieces, Zenon
<1> HIDE DEF q
<1>7. Hashed(k, ctx, m) = q \o m
  BY DEF q, p, Hashed
<1>8. IsConcat(q \o m, q, m)
  BY <1>2, <1>6, Pieces, Zenon
<1> DEFINE s == q \o m
<1> HIDE DEF s
<1>9. Len(q) = 3 + Len(ctx) /\ Len(s) = 3 + Len(ctx) + Len(m)
  BY <1>1, <1>5, <1>6, <1>8 DEF s, IsConcat
<1>10. s[1] = k /\ s[3] = Len(ctx)
  <2>1. \A i \in 1..3 : s[i] = p[i]
    <3> SUFFICES ASSUME NEW i \in 1..3 PROVE s[i] = p[i]
      OBVIOUS
    <3>1. i \in 1..Len(p) /\ i \in 1..Len(q)
      BY <1>1, <1>5, <1>9
    <3> QED BY <1>6, <1>8, <3>1, Zenon DEF s, IsConcat
  <2> QED BY <1>5, <2>1
<1>11. \A i \in 1..Len(ctx) : s[3 + i] = ctx[i]
  <2> SUFFICES ASSUME NEW i \in 1..Len(ctx) PROVE s[3 + i] = ctx[i]
    OBVIOUS
  <2>1. 3 + i \in 1..Len(q)
    BY <1>1, <1>9
  <2>2. s[3 + i] = q[3 + i]
    BY <1>8, <2>1, Zenon DEF s, IsConcat
  <2>3. q[3 + i] = ctx[i]
    BY <1>5, <1>6 DEF IsConcat
  <2> QED BY <2>2, <2>3
<1>12. \A i \in 1..Len(m) : s[3 + Len(ctx) + i] = m[i]
  BY <1>8, <1>9 DEF s, IsConcat
<1> QED BY <1>1, <1>7, <1>9, <1>10, <1>11, <1>12, Zenon DEF s

\* mu determines the key, the context and the message.
LEMMA MuInjective ==
  ASSUME NEW k1 \in KEYS, NEW c1 \in ShortContexts, NEW m1 \in MESSAGES,
         NEW k2 \in KEYS, NEW c2 \in ShortContexts, NEW m2 \in MESSAGES,
         SignMu(k1, c1, m1) = SignMu(k2, c2, m2)
  PROVE  k1 = k2 /\ c1 = c2 /\ m1 = m2
<1> DEFINE s1 == Hashed(k1, c1, m1)
           s2 == Hashed(k2, c2, m2)
<1>1. s1 = s2
  BY DEF SignMu, Hashed
<1> HIDE DEF s1, s2
<1>2. /\ c1 \in Seq(Bytes) /\ m1 \in Seq(Bytes)
      /\ Len(s1) = 3 + Len(c1) + Len(m1) /\ s1[1] = k1 /\ s1[3] = Len(c1)
      /\ \A i \in 1..Len(c1) : s1[3 + i] = c1[i]
      /\ \A i \in 1..Len(m1) : s1[3 + Len(c1) + i] = m1[i]
  BY Layout DEF s1
<1>3. /\ c2 \in Seq(Bytes) /\ m2 \in Seq(Bytes)
      /\ Len(s2) = 3 + Len(c2) + Len(m2) /\ s2[1] = k2 /\ s2[3] = Len(c2)
      /\ \A i \in 1..Len(c2) : s2[3 + i] = c2[i]
      /\ \A i \in 1..Len(m2) : s2[3 + Len(c2) + i] = m2[i]
  BY Layout DEF s2
<1>4. k1 = k2 /\ Len(c1) = Len(c2)
  BY <1>1, <1>2, <1>3
<1>5. Len(m1) = Len(m2)
  BY <1>1, <1>2, <1>3, <1>4
<1>6. c1 = c2
  <2>1. \A i \in 1..Len(c1) : c1[i] = c2[i]
    BY <1>1, <1>2, <1>3, <1>4
  <2> QED BY <2>1, <1>2, <1>3, <1>4, SeqEqual
<1>7. m1 = m2
  <2>1. \A i \in 1..Len(m1) : m1[i] = m2[i]
    BY <1>1, <1>2, <1>3, <1>4, <1>5
  <2> QED BY <2>1, <1>2, <1>3, <1>5, SeqEqual
<1> QED BY <1>4, <1>6, <1>7

-----------------------------------------------------------------------------
(***************************************************************************)
(* The inductive invariant: what every buffer and record was hashed from.  *)
(***************************************************************************)
MuOf(r) == SignMu(r.k, r.ctx, r.m)

RhoPrimeOf(r) == \E rnd \in RNDS : r.rhoprime = <<"rhoprime", r.k, rnd, MuOf(r)>>

BufInv ==
  /\ pc \in {"idle", "random", "rej"}
  /\ nonce \in 0..(MaxNonce + 1)
  /\ pc # "idle" => nonce <= MaxNonce
  /\ pc # "idle" => OfCall(buf) /\ buf.mu = MuOf(buf)
  /\ pc = "rej"  => RhoPrimeOf(buf)

UsesInv == \A u \in uses : OfCall(u) /\ RhoPrimeOf(u)

SignedInv ==
  /\ Len(signed) \in Nat /\ DOMAIN signed = 1..Len(signed)
  /\ \A i \in DOMAIN signed :
       OfCall(signed[i]) /\ signed[i].c = CTilde(MuOf(signed[i]), signed[i].w1)

VerdictInv ==
  /\ verdict.used => verdict.ret \in {0, -1}
  /\ AcceptsOnlyWhatWasSigned
  /\ AcceptsWhatWasSigned

IInv == BufInv /\ UsesInv /\ SignedInv /\ VerdictInv

\* Equal hashes are of equal strings.
LEMMA CTildeInjective ==
  ASSUME NEW mu1, NEW w1, NEW mu2, NEW w2, CTilde(mu1, w1) = CTilde(mu2, w2)
  PROVE  mu1 = mu2 /\ w1 = w2
BY DEF CTilde

\* Two calls with one mu are calls for one key, context and message.
LEMMA MuOfInjective ==
  ASSUME NEW r, NEW s, OfCall(r), OfCall(s), MuOf(r) = MuOf(s)
  PROVE  r.k = s.k /\ r.ctx = s.ctx /\ r.m = s.m
BY MuInjective DEF OfCall, MuOf

LEMMA InitIInv == Init => IInv
BY TranscriptAssumption DEF Init, IInv, BufInv, UsesInv, SignedInv, VerdictInv,
   None, AcceptsOnlyWhatWasSigned, AcceptsWhatWasSigned

\* The record that a pass of the loop adds to uses is of the call in progress.
LEMMA UseInv ==
  ASSUME pc = "rej", BufInv
  PROVE  OfCall(Use) /\ RhoPrimeOf(Use)
BY DEF BufInv, Use, OfCall, RhoPrimeOf, MuOf

LEMMA SignCallStep ==
  ASSUME IInv, NEW k \in KEYS, NEW ctx \in CONTEXTS, NEW m \in MESSAGES,
         SignCall(k, ctx, m)
  PROVE  IInv'
<1>1. BufInv'
  <2>1. Len(ctx) < RADIX
    BY TranscriptAssumption, LenProperties DEF SignCall, TooLong
  <2> QED BY <2>1, TranscriptAssumption
          DEF SignCall, BufInv, OfCall, MuOf, ShortContexts
<1>2. UsesInv' /\ SignedInv' /\ VerdictInv'
  BY DEF IInv, SignCall, UsesInv, SignedInv, VerdictInv, RhoPrimeOf, MuOf,
     AcceptsOnlyWhatWasSigned, AcceptsWhatWasSigned
<1> QED BY <1>1, <1>2 DEF IInv

LEMMA DeriveStep == IInv /\ Derive => IInv'
<1> SUFFICES ASSUME IInv, Derive PROVE IInv'
  OBVIOUS
<1>1. BufInv'
  BY TranscriptAssumption
  DEF IInv, BufInv, Derive, OfCall, MuOf, RhoPrimeOf, RhoPrime
<1>2. UsesInv' /\ SignedInv' /\ VerdictInv'
  BY DEF IInv, Derive, UsesInv, SignedInv, VerdictInv, RhoPrimeOf, MuOf,
     AcceptsOnlyWhatWasSigned, AcceptsWhatWasSigned
<1> QED BY <1>1, <1>2 DEF IInv

LEMMA RefusedStep == IInv /\ Refused => IInv'
<1> SUFFICES ASSUME IInv, Refused PROVE IInv'
  OBVIOUS
<1>1. BufInv'
  BY TranscriptAssumption DEF IInv, BufInv, Refused, RhoPrimeOf, MuOf
<1>2. UsesInv'
  BY UseInv DEF IInv, Refused, UsesInv, RhoPrimeOf, MuOf
<1>3. SignedInv' /\ VerdictInv'
  BY DEF IInv, Refused, SignedInv, VerdictInv, MuOf,
     AcceptsOnlyWhatWasSigned, AcceptsWhatWasSigned
<1> QED BY <1>1, <1>2, <1>3 DEF IInv

LEMMA AcceptedStep == IInv /\ Accepted => IInv'
<1> SUFFICES ASSUME IInv, Accepted PROVE IInv'
  OBVIOUS
<1>1. BufInv'
  BY TranscriptAssumption DEF IInv, BufInv, Accepted, RhoPrimeOf, MuOf
<1>2. UsesInv'
  BY UseInv DEF IInv, Accepted, UsesInv, RhoPrimeOf, MuOf
<1>3. SignedInv'
  BY DEF IInv, Accepted, BufInv, SignedInv, OfCall, MuOf
<1>4. VerdictInv'
  BY DEF IInv, Accepted, VerdictInv,
     AcceptsOnlyWhatWasSigned, AcceptsWhatWasSigned
<1> QED BY <1>1, <1>2, <1>3, <1>4 DEF IInv

\* The verdict: equal ctilde means equal mu, and equal mu equal arguments.
LEMMA VerifyStep ==
  ASSUME IInv, NEW i \in DOMAIN signed, NEW k \in KEYS, NEW ctx \in CONTEXTS,
         NEW m \in MESSAGES, NEW siglen \in SIGLENS,
         VerifyCall(i, k, ctx, m, siglen)
  PROVE  IInv'
<1> DEFINE s == signed[i]
<1>1. PICK w1 : /\ k = s.k => w1 = s.w1
                /\ verdict' =
                     [used |-> TRUE, sig |-> s, k |-> k, ctx |-> ctx, m |-> m,
                      siglen |-> siglen,
                      ret |-> IF \/ TooLong(ctx) \/ siglen # SIGBYTES
                                 \/ CTilde(VerifyMu(k, ctx, m), w1) # s.c
                                THEN -1 ELSE 0]
  BY DEF VerifyCall
<1>2. OfCall(s) /\ s.c = CTilde(MuOf(s), s.w1)
  BY DEF IInv, SignedInv
<1> HIDE DEF s
<1>3. verdict'.ret \in {0, -1} /\ verdict'.used
  BY <1>1
<1>4. ASSUME verdict'.ret = 0
      PROVE  siglen = SIGBYTES /\ k = s.k /\ ctx = s.ctx /\ m = s.m
  <2>1. ~TooLong(ctx) /\ siglen = SIGBYTES /\ CTilde(VerifyMu(k, ctx, m), w1) = s.c
    BY <1>1, <1>4
  <2>2. SignMu(k, ctx, m) = SignMu(s.k, s.ctx, s.m)
    <3>1. VerifyMu(k, ctx, m) = SignMu(k, ctx, m)
      BY Zenon DEF VerifyMu, SignMu
    <3>2. CTilde(SignMu(k, ctx, m), w1) = CTilde(MuOf(s), s.w1)
      BY <1>2, <2>1, <3>1, Zenon
    <3>3. SignMu(k, ctx, m) = MuOf(s)
      BY <3>2, CTildeInjective
    <3> QED BY <3>3, Zenon DEF MuOf
  <2>3. ctx \in ShortContexts
    BY <2>1, TranscriptAssumption, LenProperties DEF ShortContexts, TooLong
  <2> QED BY <1>2, <2>1, <2>2, <2>3, MuInjective DEF OfCall
<1>5. ASSUME k = s.k, ctx = s.ctx, m = s.m, siglen = SIGBYTES
      PROVE  verdict'.ret = 0
  <2>1. ~TooLong(ctx)
    BY <1>2, <1>5, TranscriptAssumption, LenProperties
    DEF OfCall, ShortContexts, TooLong
  <2>2. CTilde(VerifyMu(k, ctx, m), w1) = s.c
    BY <1>1, <1>2, <1>5 DEF MuOf, SignMu, VerifyMu
  <2> QED BY <1>1, <1>5, <2>1, <2>2
<1>6. VerdictInv'
  BY <1>1, <1>3, <1>4, <1>5
  DEF VerdictInv, AcceptsOnlyWhatWasSigned, AcceptsWhatWasSigned
<1>7. BufInv' /\ UsesInv' /\ SignedInv'
  BY DEF IInv, VerifyCall, BufInv, UsesInv, SignedInv, RhoPrimeOf, MuOf
<1> QED BY <1>6, <1>7 DEF IInv

LEMMA NextIInv == IInv /\ [Next]_vars => IInv'
<1> SUFFICES ASSUME IInv, [Next]_vars PROVE IInv'
  OBVIOUS
<1>1. CASE UNCHANGED vars
  BY <1>1 DEF vars, IInv, BufInv, UsesInv, SignedInv, VerdictInv, RhoPrimeOf,
     MuOf, AcceptsOnlyWhatWasSigned, AcceptsWhatWasSigned
<1>2. CASE \E k \in KEYS, ctx \in CONTEXTS, m \in MESSAGES : SignCall(k, ctx, m)
  BY <1>2, SignCallStep
<1>3. CASE Derive
  BY <1>3, DeriveStep
<1>4. CASE Refused
  BY <1>4, RefusedStep
<1>5. CASE Accepted
  BY <1>5, AcceptedStep
<1>6. CASE \E i \in DOMAIN signed, k \in KEYS, ctx \in CONTEXTS, m \in MESSAGES,
             siglen \in SIGLENS : VerifyCall(i, k, ctx, m, siglen)
  BY <1>6, VerifyStep
<1> QED BY <1>1, <1>2, <1>3, <1>4, <1>5, <1>6 DEF Next

LEMMA Invariance == Spec => []IInv
BY InitIInv, NextIInv, PTL DEF Spec

-----------------------------------------------------------------------------
\* Every buffer, use and signature is of a key, a short context and a message.
THEOREM TypeCorrect == Spec => []TypeOK
<1>1. IInv => TypeOK
  BY DEF IInv, BufInv, UsesInv, SignedInv, VerdictInv, TypeOK
<1> QED BY <1>1, Invariance, PTL

\* crypto_sign_signature_ctx never uses one mask for two messages, whatever
\* randombytes returns: mu is part of what rhoprime is hashed from.
THEOREM MasksAreOfOneMessage == Spec => []OneMessagePerMask
<1>1. IInv => OneMessagePerMask
  <2> SUFFICES ASSUME IInv, NEW u \in uses, NEW v \in uses,
                      u.rhoprime = v.rhoprime
               PROVE  u.k = v.k /\ u.ctx = v.ctx /\ u.m = v.m
    BY DEF OneMessagePerMask
  <2>1. OfCall(u) /\ OfCall(v) /\ RhoPrimeOf(u) /\ RhoPrimeOf(v)
    BY DEF IInv, UsesInv
  <2>2. MuOf(u) = MuOf(v)
    <3>1. PICK r1 \in RNDS : u.rhoprime = <<"rhoprime", u.k, r1, MuOf(u)>>
      BY <2>1, Zenon DEF RhoPrimeOf
    <3>2. PICK r2 \in RNDS : v.rhoprime = <<"rhoprime", v.k, r2, MuOf(v)>>
      BY <2>1, Zenon DEF RhoPrimeOf
    <3> DEFINE mu1 == MuOf(u)
               mu2 == MuOf(v)
    <3> HIDE DEF mu1, mu2
    <3>3. <<"rhoprime", u.k, r1, mu1>> = <<"rhoprime", v.k, r2, mu2>>
      BY <3>1, <3>2, Zenon DEF mu1, mu2
    <3>4. mu1 = mu2
      BY <3>3
    <3> QED BY <3>4, Zenon DEF mu1, mu2
  <2> QED BY <2>1, <2>2, MuOfInjective
<1> QED BY <1>1, Invariance, PTL

\* crypto_sign_verify_ctx accepts a signature for nothing but the key, the
\* context and the message that were signed.
THEOREM AcceptanceIsBound == Spec => []AcceptsOnlyWhatWasSigned
<1>1. IInv => AcceptsOnlyWhatWasSigned
  BY DEF IInv, VerdictInv
<1> QED BY <1>1, Invariance, PTL

\* The mu that crypto_sign_verify_ctx derives is the signer's.
THEOREM AcceptanceIsComplete == Spec => []AcceptsWhatWasSigned
<1>1. IInv => AcceptsWhatWasSigned
  BY DEF IInv, VerdictInv
<1> QED BY <1>1, Invariance, PTL
=============================================================================
