--------------------------- MODULE SignedMessage ---------------------------
(***************************************************************************)
(* crypto_sign_ctx and crypto_sign_open_ctx of common/sign.c: a signature  *)
(* and the message behind it in one buffer sm, made from and taken apart   *)
(* into a buffer m that may be the same memory.  A caller signs a message, *)
(* something may happen to the signed message, and a caller opens it.      *)
(*                                                                         *)
(* Memory is a row of cells.  A message byte is <<"m", i>>; the signature  *)
(* of a message is a row of cells that hold it, and only that message      *)
(* verifies with it.                                                       *)
(***************************************************************************)
EXTENDS Integers, Sequences

CONSTANTS SIGBYTES,   \* CRYPTO_BYTES, 2420
          MaxMlen,    \* bound: the length of a message
          Cells       \* bound: the cells of memory

ASSUME MessageAssumption == SIGBYTES \in Nat \ {0} /\ MaxMlen \in Nat /\ Cells \in Nat

VARIABLES memory,     \* the cells
          message,    \* history: the message that was to be signed
          sm, m,      \* where the buffers of the call start
          mlen, smlen,
          copied,     \* i, the loop variable
          step,       \* where the caller or the call is
          signed      \* history: what was signed

messageVars == <<memory, message, sm, m, mlen, smlen, copied, step, signed>>

Text(k)  == <<"m", k>>
Junk     == <<"junk", 0>>
Nought   == <<"zero", 0>>
Sig(t)   == [k \in 1..SIGBYTES |-> <<"sig", k, t>>]
At(p, n) == [k \in 1..n |-> memory[p + k - 1]]   \* the n cells from p on
NoLength == -1   \* a length the caller has not set

MessageInit ==
  /\ mlen \in 0..MaxMlen
  /\ message = [k \in 1..mlen |-> Text(k)]
  /\ sm \in 0..(Cells - SIGBYTES - mlen) /\ m \in 0..(Cells - mlen)
  /\ memory = [c \in 0..(Cells - 1) |-> IF c \in m..(m + mlen - 1) THEN Text(c - m + 1) ELSE Junk]
  /\ smlen = NoLength /\ copied = 0 /\ step = "sign" /\ signed = << >>

\* The message goes behind the place of the signature, last byte first.
FirstByteFirst(k) == [memory EXCEPT ![sm + SIGBYTES + k] = memory[m + k]]
LastByteFirst(k) ==
  [memory EXCEPT ![sm + SIGBYTES + mlen - 1 - k] = memory[m + mlen - 1 - k]]

signCopy ==
  /\ step = "sign" /\ copied < mlen
  /\ memory' = LastByteFirst(copied) /\ copied' = copied + 1
  /\ UNCHANGED <<message, sm, m, mlen, smlen, step, signed>>

\* crypto_sign_signature_ctx of what was copied; *smlen += mlen.
signSignature ==
  /\ step = "sign" /\ copied = mlen
  /\ LET sig == Sig(At(sm + SIGBYTES, mlen)) IN
     memory' = [c \in DOMAIN memory |->
                  IF c \in sm..(sm + SIGBYTES - 1) THEN sig[c - sm + 1] ELSE memory[c]]
  /\ smlen' = SIGBYTES + mlen /\ signed' = At(sm + SIGBYTES, mlen)
  /\ step' = "held"
  /\ UNCHANGED <<message, sm, m, mlen, copied>>

\* The context string is too long: nothing is written, and mlen is added to
\* the length that the caller left in *smlen.
signRefuses ==
  /\ step = "sign" /\ copied = mlen
  /\ smlen' = smlen + mlen /\ step' = "refused"
  /\ UNCHANGED <<memory, message, sm, m, mlen, copied, signed>>

\* The caller passes the signed message on: as it is, with a cell that has
\* changed, or cut; the receiver has a buffer of smlen bytes.
Handed(n) ==
  /\ step = "held"
  /\ smlen' = n /\ m' \in 0..(Cells - n)
  /\ copied' = 0 /\ step' = "open"
  /\ UNCHANGED <<message, sm, signed>>

handOver == Handed(smlen) /\ UNCHANGED <<memory, mlen>>

handOverChanged ==
  /\ Handed(smlen)
  /\ \E c \in sm..(sm + smlen - 1) : memory' = [memory EXCEPT ![c] = Junk]
  /\ UNCHANGED mlen

handOverCut == \E n \in 0..(smlen - 1) : Handed(n) /\ UNCHANGED <<memory, mlen>>

\* The verdict of crypto_sign_verify_ctx on the signature and the message.
Verifies == At(sm, SIGBYTES) = Sig(At(sm + SIGBYTES, smlen - SIGBYTES))

LongEnough == smlen >= SIGBYTES

openAccepts ==
  /\ step = "open" /\ LongEnough /\ Verifies
  /\ mlen' = smlen - SIGBYTES /\ step' = "copy"
  /\ UNCHANGED <<memory, message, sm, m, smlen, copied, signed>>

openCopy ==
  /\ step = "copy" /\ copied < mlen
  /\ memory' = [memory EXCEPT ![m + copied] = memory[sm + SIGBYTES + copied]]
  /\ copied' = copied + 1
  /\ UNCHANGED <<message, sm, m, mlen, smlen, step, signed>>

openReturns ==
  /\ step = "copy" /\ copied = mlen
  /\ step' = "opened"
  /\ UNCHANGED <<memory, message, sm, m, mlen, smlen, copied, signed>>

\* badsig: the whole output buffer is cleared, as long as sm was.
ClearedNone(n) == 0
Cleared(n) == n

openBadsig ==
  /\ step = "open" /\ ~(LongEnough /\ Verifies)
  /\ mlen' = 0
  /\ memory' = [c \in DOMAIN memory |->
                  IF c \in m..(m + Cleared(smlen) - 1) THEN Nought ELSE memory[c]]
  /\ step' = "bad"
  /\ UNCHANGED <<message, sm, m, smlen, copied, signed>>

MessageNext ==
  \/ signCopy \/ signSignature \/ signRefuses
  \/ handOver \/ handOverChanged \/ handOverCut
  \/ openAccepts \/ openCopy \/ openReturns \/ openBadsig

MessageSpec == MessageInit /\ [][MessageNext]_messageVars

-----------------------------------------------------------------------------
\* Both loops move a message between m and its place in sm, signing upwards
\* from the last byte, opening downwards from the first: no byte is written
\* over before it is read when m is not behind that place, or apart from it.
CopyReaches == m <= sm + SIGBYTES \/ sm + SIGBYTES + mlen <= m

\* What is signed is the message that was given, wherever it lay: in a buffer
\* of its own, at the start of sm, as the comment allows, at its place behind
\* the signature, or anywhere that a copy upwards reaches.
SignsTheMessage ==
  step \in {"held", "refused"} /\ CopyReaches =>
    /\ At(sm + SIGBYTES, mlen) = message
    /\ step = "held" => smlen = SIGBYTES + mlen /\ At(sm, SIGBYTES) = Sig(message)

\* Opening gives the message that was signed, also over sm itself, as the
\* comment allows, or nothing: neither a changed nor a cut signed message
\* leaves one of its bytes in the buffer of the receiver.
OpensOnlyTheSigned ==
  /\ step = "opened" /\ CopyReaches => At(m, mlen) = signed
  /\ step = "bad" => mlen = 0 /\ \A c \in m..(m + smlen - 1) : memory[c] = Nought
=============================================================================
