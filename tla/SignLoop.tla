------------------------------ MODULE SignLoop ------------------------------
(***************************************************************************)
(* common/sign.c on one key and one message: key generation, the           *)
(* rejection loop of crypto_sign_signature_ctx with one action per check,  *)
(* and crypto_sign_verify_ctx on the signature it returns.                 *)
(*                                                                         *)
(* The sampling functions are random oracles, drawn lazily: "mask" holds   *)
(* the polynomial SHAKE256(rhoprime | n) has expanded to for every 16-bit  *)
(* nonce n used so far, and "chal" the challenge polynomial of every       *)
(* ctilde.  ctilde = SHAKE256(mu | w1) is a collision-free hash, and mu is *)
(* fixed here (module Transcript is about mu), so ctilde is w1 itself.     *)
(***************************************************************************)
EXTENDS Lattice

CONSTANTS NONCES,                       \* values of a uint16_t nonce, 2^16
          MATRICES, SECRETS1, SECRETS2, \* outputs of the key's samplers
          MASKS                         \* outputs of poly_uniform_gamma1

\* Attempts after which the nonce has run through all its values.
PERIOD == NONCES \div L

ASSUME SignLoopAssumption ==
  /\ NONCES \in Nat \ {0}
  /\ NONCES = L * PERIOD
  /\ MASKS \subseteq MaskPoly
  /\ SECRETS1 \subseteq Short
  /\ SECRETS2 \subseteq [0..(K-1) -> Poly(-ETA..ETA)]
  /\ MATRICES \subseteq [0..(K-1) -> VecL(0..(Q-1))]

VARIABLES pc,
          key,      \* pk and sk: [A, s1, s2, t0, t1]
          nonce,    \* uint16_t nonce
          mask,     \* XOF nonce -> the mask polynomial expanded from it
          chal,     \* ctilde -> its challenge polynomial
          y, z, w1, w0, h, cp,
          sig,      \* the output buffer: bytes 0..31 and the bytes after them
          rejected, \* history: the masks y already refused
          ret       \* what crypto_sign_verify_ctx returned

vars == <<pc, key, nonce, mask, chal, y, z, w1, w0, h, cp, sig, rejected, ret>>

NoValue == << >>  \* an uninitialised local or buffer
Pending == 1   \* no verdict yet

\* The nonce of the i-th polynomial of a mask, as polyvecl_uniform_gamma1
\* passes it to the XOF, in 16 bits.
XofNonceNoStride(n, i) == (n + i) % NONCES
XofNonce(n, i) == (L * n + i) % NONCES
XofNonces(n)   == {XofNonce(n, i) : i \in 0..(L-1)}

\* nonce++, in 16 bits.
NextNonceStuck(n) == n
NextNonce(n)      == (n + 1) % NONCES

\* The bounds of the norm checks on z and on w0 - cp*s2.
ZBoundLoose   == GAMMA1
ZBound        == GAMMA1 - BETA
LowBoundLoose == GAMMA2
LowBound      == GAMMA2 - BETA

Init ==
  /\ pc = "keypair"
  /\ key = NoValue /\ nonce = 0 /\ mask = << >> /\ chal = << >>
  /\ y = NoValue /\ z = NoValue /\ w1 = NoValue /\ w0 = NoValue
  /\ h = NoValue /\ cp = NoValue
  /\ sig = [head |-> NoValue, tail |-> NoValue]
  /\ rejected = {}
  /\ ret = Pending

(***************************************************************************)
(* crypto_sign_keypair: t = A*s1 + s2, split into t1 (public) and t0.      *)
(***************************************************************************)
Keypair ==
  /\ pc = "keypair"
  /\ \E A \in MATRICES, s1 \in SECRETS1, s2 \in SECRETS2 :
       LET t == Standard(Add(MatMul(A, s1), s2))
       IN key' = [A  |-> A, s1 |-> s1, s2 |-> s2,
                  t1 |-> T1(t), t0 |-> T0(t)]
  /\ pc' = "rej"
  /\ UNCHANGED <<nonce, mask, chal, y, z, w1, w0, h, cp, sig, rejected, ret>>

(***************************************************************************)
(* One attempt, from the label rej: to the write of the signature.         *)
(***************************************************************************)
\* y := ExpandMask(rhoprime, nonce++)
SampleMask ==
  /\ pc = "rej"
  /\ \E p \in [0..(L-1) -> MASKS] :
       /\ \A i \in 0..(L-1) :
            XofNonce(nonce, i) \in DOMAIN mask => p[i] = mask[XofNonce(nonce, i)]
       /\ y' = p
       /\ mask' = [n \in DOMAIN mask \cup XofNonces(nonce) |->
                     IF n \in DOMAIN mask THEN mask[n]
                     ELSE p[CHOOSE i \in 0..(L-1) : XofNonce(nonce, i) = n]]
  /\ nonce' = NextNonce(nonce)
  /\ pc' = "commit"
  /\ UNCHANGED <<key, chal, z, w1, w0, h, cp, sig, rejected, ret>>

\* The w0 that polyveck_decompose leaves; the vector is a local of the call,
\* and holds the last attempt's w0 - cp*s2 until then.
StaleLow(w) == IF w0 = NoValue THEN Low(w) ELSE w0
NewLow(w)   == Low(w)

\* (w1, w0) := Decompose(A*y); ctilde := H(mu, w1), which passes through the
\* signature buffer; cp := the challenge of ctilde; z := y + cp*s1.
Commit ==
  /\ pc = "commit"
  /\ LET w == Standard(MatMul(key.A, y))
         ctilde == High(w)
     IN /\ w1' = High(w)
        /\ w0' = NewLow(w)
        /\ sig' = [head |-> ctilde, tail |-> [w1 |-> High(w)]]
        /\ \E c \in (IF ctilde \in DOMAIN chal THEN {chal[ctilde]} ELSE Challenge) :
             /\ cp' = c
             /\ chal' = [x \in DOMAIN chal \cup {ctilde} |->
                           IF x = ctilde THEN c ELSE chal[x]]
             /\ z' = Reduce(Add(Scale(c, key.s1), y))
  /\ pc' = "checkZ"
  /\ UNCHANGED <<key, nonce, mask, y, h, rejected, ret>>

\* What every "goto rej" does; the history variable records the mask.
Reject == pc' = "rej" /\ rejected' = rejected \cup {y}

CheckZ ==
  /\ pc = "checkZ"
  /\ IF ChkNorm(z, ZBound)
       THEN Reject
       ELSE pc' = "checkLow" /\ UNCHANGED rejected
  /\ UNCHANGED <<key, nonce, mask, chal, y, z, w1, w0, h, cp, sig, ret>>

\* w0 := w0 - cp*s2, in place, with h as the scratch vector.
CheckLow ==
  /\ pc = "checkLow"
  /\ h' = Scale(cp, key.s2)
  /\ w0' = Reduce(Sub(w0, h'))
  /\ IF ChkNorm(w0', LowBound)
       THEN Reject
       ELSE pc' = "checkT0" /\ UNCHANGED rejected
  /\ UNCHANGED <<key, nonce, mask, chal, y, z, w1, cp, sig, ret>>

CheckT0 ==
  /\ pc = "checkT0"
  /\ h' = Reduce(Scale(cp, key.t0))
  /\ IF ChkNorm(h', GAMMA2)
       THEN Reject
       ELSE pc' = "makeHint" /\ UNCHANGED rejected
  /\ UNCHANGED <<key, nonce, mask, chal, y, z, w1, w0, cp, sig, ret>>

\* w0 := w0 + cp*t0; h := MakeHint(w0, w1), refused with more than OMEGA ones.
CheckHints ==
  /\ pc = "makeHint"
  /\ w0' = Add(w0, h)
  /\ h' = MakeHints(w0', w1)
  /\ IF Ones(h') > OMEGA
       THEN Reject
       ELSE pc' = "write" /\ UNCHANGED rejected
  /\ UNCHANGED <<key, nonce, mask, chal, y, z, w1, cp, sig, ret>>

\* pack_sig(sig, sig, &z, &h): ctilde is already where it belongs.
WriteSig ==
  /\ pc = "write"
  /\ sig' = [head |-> sig.head, tail |-> [z |-> z, h |-> h]]
  /\ pc' = "verify"
  /\ UNCHANGED <<key, nonce, mask, chal, y, z, w1, w0, h, cp, rejected, ret>>

(***************************************************************************)
(* crypto_sign_verify_ctx on the signature, with A and t1 from the public  *)
(* key: w1 is rebuilt from A*z - cp*t1*2^D and the hints, and ctilde from  *)
(* it is compared with the one in the signature.                           *)
(***************************************************************************)
RebuiltHighNoShift(k, c, zz, hh) ==
  LET w == Standard(Sub(MatMul(k.A, zz), Scale(c, k.t1)))
  IN UseHints(w, hh)
RebuiltHigh(k, c, zz, hh) ==
  LET w == Standard(Sub(MatMul(k.A, zz), Scale(c, ShiftL(k.t1))))
  IN UseHints(w, hh)

Verify ==
  /\ pc = "verify"
  /\ ret' = IF \/ ChkNorm(sig.tail.z, GAMMA1 - BETA)
               \/ RebuiltHigh(key, chal[sig.head], sig.tail.z, sig.tail.h) # sig.head
              THEN -1 ELSE 0
  /\ pc' = "done"
  /\ UNCHANGED <<key, nonce, mask, chal, y, z, w1, w0, h, cp, sig, rejected>>

\* Both calls have returned.
Returned == pc = "done" /\ UNCHANGED vars

Step == Keypair \/ SampleMask \/ Commit \/ CheckZ \/ CheckLow \/ CheckT0
          \/ CheckHints \/ WriteSig \/ Verify

Next == Step \/ Returned

Spec == Init /\ [][Next]_vars

\* One thread runs the calls: as long as a step can be taken, one is.
FairSpec == Spec /\ WF_vars(Step)

-----------------------------------------------------------------------------
(***************************************************************************)
(* Properties                                                              *)
(***************************************************************************)
\* The values the control state and the vectors of the loop range over.
TypeOK ==
  /\ pc \in {"keypair", "rej", "commit", "checkZ", "checkLow", "checkT0",
             "makeHint", "write", "verify", "done"}
  /\ nonce \in 0..(NONCES - 1)
  /\ DOMAIN mask \subseteq 0..(NONCES - 1)
  /\ \A n \in DOMAIN mask : mask[n] \in MASKS
  /\ \A c \in DOMAIN chal : chal[c] \in Challenge
  /\ pc # "keypair" => /\ DOMAIN key = {"A", "s1", "s2", "t0", "t1"}
                       /\ key.s1 \in SECRETS1 /\ key.s2 \in SECRETS2
  /\ ret \in {Pending, 0, -1}

\* Verification accepts every signature that signing returns: the hints
\* repair what dropping t0 from the public key does to the high bits.
SignedVerifies == pc = "done" => ret = 0

\* A z that passes its norm check says nothing about s1: for every other
\* short secret there is a mask in the sampler's range that gives the same z.
MaskHidesS1 ==
  pc = "checkLow" =>
    \A s \in SECRETS1 :
      \A i \in DOMAIN z, j \in Idx :
        z[i][j] - Scale(cp, s)[i][j] \in (-GAMMA1 + 1)..GAMMA1

\* A signature that passes the check on w0 says nothing about s2: with any
\* other short s2 the commitment w1 would have been the same.
LowBitsHideS2 ==
  pc = "checkT0" =>
    \A s \in SECRETS2 :
      LET r == Sub(MatMul(key.A, y), Scale(cp, key.s2))
      IN High(Standard(Add(r, Scale(cp, s)))) = w1

\* The verdict on a mask depends on the key, the message and that mask alone:
\* a mask refused once is refused whenever the nonce wraps back to it, so no
\* state is carried over from one attempt to the next.
NoSecondChance == pc = "write" => y \notin rejected

\* No XOF nonce is used a second time before all 2^16 of them have been: the
\* loop never signs with a mask it has used while fresh ones remain.
MaskNoncesFresh ==
  [][SampleMask => \/ XofNonces(nonce) \cap DOMAIN mask = {}
                   \/ DOMAIN mask = 0..(NONCES - 1)]_vars

\* The loop ends, unless every mask the 16-bit nonce can reach is refused.
SignTerminates == <>(pc = "done" \/ DOMAIN mask = 0..(NONCES - 1))
=============================================================================
