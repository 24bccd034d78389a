---------------------------- MODULE RandomBytes ----------------------------
(***************************************************************************)
(* randombytes of common/randombytes.c.  On Linux: the loop over getrandom,*)
(* and the one that is compiled where SYS_getrandom is missing, which      *)
(* waits for entropy at /dev/random and reads /dev/urandom.  On the other  *)
(* platforms: the call that fills the buffer, and those around it.         *)
(*                                                                         *)
(* A system call has one of the results the code distinguishes; a failed   *)
(* one sets errno, and close releases the descriptor even when it is       *)
(* interrupted, as on Linux.                                               *)
(***************************************************************************)
EXTENDS Integers, FiniteSetsExt

CONSTANTS BYTES,   \* n, the bytes asked for
          CHUNK    \* 33554431 or SSIZE_MAX, the most bytes of one call

ASSUME RandomAssumption == BYTES \in Nat /\ CHUNK \in Nat \ {0}

VARIABLES build,      \* the function randombytes calls on the platform it is built for
          call,       \* the system call to make next, or "returned"
          left,       \* n, the bytes still to be read
          writes,     \* history: how often each byte of the buffer was written
          open,       \* the descriptors and streams that are open
          strategy,   \* how wait_for_entropy asks for the entropy
          entropy,    \* whether the entropy last read is at least 128 bits
          procReads,  \* whether a number can be read from entropy_avail
          errno, retcode, retcode_error,
          ret         \* what randombytes returns

filling == <<build, left, writes>>
waiting == <<strategy, entropy, procReads>>
results == <<retcode, retcode_error>>

randomVars == <<call, ret, filling, open, waiting, errno, results>>

\* randombytes: the system call each build makes first.
FirstCall == [getrandom |-> "getrandom", urandom |-> "open urandom",
              arc4random |-> "arc4random", nodejs |-> "randomBytes",
              win32 |-> "CryptAcquireContext"]

RandomInit ==
  /\ build \in DOMAIN FirstCall
  /\ call = FirstCall[build]
  /\ left = BYTES /\ writes = [k \in 0..(BYTES - 1) |-> 0]
  /\ open = {} /\ strategy = "IOCTL" /\ entropy = FALSE
  /\ procReads \in BOOLEAN
  /\ errno = "none" /\ retcode = 0 /\ retcode_error = 0 /\ ret = 0

Return(r) == ret' = r /\ call' = "returned"

Goto(c) == call' = c /\ UNCHANGED ret

\* The calls that are repeated when they fail with errno e.
AgainOnAny(e) == TRUE
Again(e) == e = "EINTR"

\* poll and read are also repeated on EAGAIN.  A call that is repeated changes
\* nothing but errno.
Interrupted ==
  /\ \/ call \in {"open urandom", "open random", "poll"}
     \/ (call \in {"getrandom", "read"} /\ left > 0)
  /\ errno' \in {"EINTR"} \cup (IF call \in {"poll", "read"} THEN {"EAGAIN"} ELSE {})
  /\ UNCHANGED <<call, ret, filling, open, waiting, results>>

\* One call has put k bytes into the buffer, from the offset on.
FilledFromStart(k) == [b \in DOMAIN writes |-> IF b < k THEN writes[b] + 1 ELSE writes[b]]
Filled(k) ==
  [b \in DOMAIN writes |->
     IF BYTES - left <= b /\ b < BYTES - left + k THEN writes[b] + 1 ELSE writes[b]]

ReadSome ==
  /\ call \in {"getrandom", "read"} /\ left > 0
  /\ \E k \in 1..Min({left, CHUNK}) :
       /\ writes' = Filled(k) /\ left' = left - k
  /\ UNCHANGED <<call, ret, build, open, waiting, errno, results>>

\* The loop ends when n is 0; the fallback closes the device then.
ReadAll ==
  /\ call \in {"getrandom", "read"} /\ left = 0
  /\ Return(0)
  /\ open' = open \ {"urandom"}
  /\ UNCHANGED <<filling, waiting, errno, results>>

\* A call that fails for good: -1, with the descriptors as they are.
Fails ==
  /\ \/ call \in {"open urandom", "ioctl", "open random"}
     \/ call \in {"getrandom", "read"} /\ left > 0
  /\ errno' = "other" /\ Return(-1)
  /\ UNCHANGED <<filling, open, waiting, results>>

OpenUrandom ==
  /\ call = "open urandom"
  /\ open' = open \cup {"urandom"} /\ Goto("ioctl")
  /\ UNCHANGED <<filling, waiting, errno, results>>

\* wait_for_entropy: the first ioctl, which may say that there is enough, or
\* not be known to the device; fopen may then return NULL.
Ioctl ==
  /\ call = "ioctl"
  /\ entropy' \in BOOLEAN
  /\ Goto(IF entropy' THEN "read" ELSE "open random")
  /\ UNCHANGED <<filling, open, strategy, procReads, errno, results>>

IoctlUnsupported ==
  /\ call = "ioctl"
  /\ strategy' = "PROC" /\ Goto("open random")
  /\ \/ open' = open \cup {"proc"} /\ errno' = "ENOTTY"
     \/ UNCHANGED open /\ errno' = "other"
  /\ UNCHANGED <<filling, entropy, procReads, results>>

OpenRandom ==
  /\ call = "open random"
  /\ open' = open \cup {"random"} /\ Goto("poll")
  /\ UNCHANGED <<filling, waiting, errno, results>>

\* rewind(NULL), when the stream could not be opened, is undefined.
Poll ==
  /\ call = "poll"
  /\ IF strategy = "IOCTL" THEN Goto("ioctl again")
     ELSE IF "proc" \in open THEN Goto("fscanf") ELSE Goto("undefined")
  /\ UNCHANGED <<filling, open, waiting, errno, results>>

\* The entropy is read, and the loop goes on until it suffices.
EntropyRead ==
  /\ call = "ioctl again" \/ (call = "fscanf" /\ procReads)
  /\ entropy' \in BOOLEAN
  /\ Goto(IF entropy' THEN "close random" ELSE "poll")
  /\ UNCHANGED <<filling, open, strategy, procReads, errno, results>>

WaitFails ==
  /\ call \in {"ioctl again", "poll"}
  /\ errno' = "other" /\ retcode_error' = -1 /\ Goto("close random")
  /\ UNCHANGED <<filling, open, waiting, retcode>>

\* fscanf is interrupted, or finds no number: the loop that tests errno then
\* sees what an earlier call left there.
FscanfFails ==
  /\ call = "fscanf"
  /\ errno' = "EINTR" \/ (~procReads /\ UNCHANGED errno)
  /\ IF Again(errno') THEN UNCHANGED <<call, ret, retcode_error>>
     ELSE retcode_error' = -1 /\ Goto("close random")
  /\ UNCHANGED <<filling, open, waiting, retcode>>

\* close(fd), again after EINTR, when fd is no longer a descriptor.
CloseRandom ==
  /\ call = "close random"
  /\ \/ "random" \in open /\ retcode' = 0 /\ UNCHANGED errno
     \/ retcode' = -1 /\ errno' = IF "random" \in open THEN "EINTR" ELSE "EBADF"
  /\ open' = open \ {"random"}
  /\ IF retcode' = -1 /\ Again(errno') THEN UNCHANGED <<call, ret>>
     ELSE Goto(IF strategy = "PROC" THEN "fclose" ELSE "waited")
  /\ UNCHANGED <<filling, waiting, retcode_error>>

\* fclose(proc_file); a second call of it, or one on NULL, is undefined.
Fclose ==
  /\ call = "fclose"
  /\ open' = open \ {"proc"}
  /\ \/ "proc" \in open /\ retcode' = 0 /\ Goto("waited") /\ UNCHANGED errno
     \/ "proc" \in open /\ retcode' = -1 /\ errno' = "EINTR" /\ UNCHANGED <<call, ret>>
     \/ "proc" \notin open /\ Goto("undefined") /\ UNCHANGED <<errno, retcode>>
  /\ UNCHANGED <<filling, waiting, retcode_error>>

\* The value wait_for_entropy returns, and the test for -1 of it.
WaitResultIgnoresError == retcode
WaitResult == IF retcode_error # 0 THEN retcode_error ELSE retcode

Waited ==
  /\ call = "waited"
  /\ IF WaitResult = -1 THEN Return(-1) ELSE Goto("read")
  /\ UNCHANGED <<filling, open, waiting, errno, results>>

\* The other builds fill the buffer in one call.  BSD and WASI: it cannot fail.
FillAll == writes' = Filled(left) /\ left' = 0

Arc4random ==
  /\ call = "arc4random"
  /\ FillAll /\ Return(0)
  /\ UNCHANGED <<build, open, waiting, errno, results>>

\* Emscripten: the module may be missing, or may throw.
NodeRandomBytes ==
  /\ call = "randomBytes"
  /\ \/ FillAll /\ Return(0) /\ UNCHANGED <<build, errno>>
     \/ errno' \in {"EINVAL", "ENOSYS"} /\ Return(-1) /\ UNCHANGED filling
  /\ UNCHANGED <<open, waiting, results>>

\* Windows: a context is acquired, used and released; each call may fail.
CryptAcquireContext ==
  /\ call = "CryptAcquireContext"
  /\ open' = open \cup {"context"} /\ Goto("CryptGenRandom")
  /\ UNCHANGED <<filling, waiting, errno, results>>

CryptGenRandom ==
  /\ call = "CryptGenRandom"
  /\ FillAll /\ Goto("CryptReleaseContext")
  /\ UNCHANGED <<build, open, waiting, errno, results>>

CryptReleaseContext ==
  /\ call = "CryptReleaseContext"
  /\ open' = open \ {"context"} /\ Return(0)
  /\ UNCHANGED <<filling, waiting, errno, results>>

CryptFails ==
  /\ call \in {"CryptAcquireContext", "CryptGenRandom", "CryptReleaseContext"}
  /\ Return(-1)
  /\ UNCHANGED <<filling, open, waiting, errno, results>>

RandomProgress ==
  \/ ReadSome \/ ReadAll \/ Fails
  \/ OpenUrandom \/ Ioctl \/ IoctlUnsupported \/ OpenRandom \/ Poll
  \/ EntropyRead \/ WaitFails \/ FscanfFails \/ CloseRandom \/ Fclose \/ Waited
  \/ Arc4random \/ NodeRandomBytes
  \/ CryptAcquireContext \/ CryptGenRandom \/ CryptReleaseContext \/ CryptFails

RandomNext == Interrupted \/ RandomProgress

\* No call is interrupted for ever, and the entropy is at some time enough.
RandomFairness ==
  /\ WF_randomVars(RandomProgress)
  /\ SF_randomVars(EntropyRead /\ entropy')

RandomSpec == RandomInit /\ [][RandomNext]_randomVars /\ RandomFairness

-----------------------------------------------------------------------------
\* Interruptions and short reads leave no byte of the buffer unset and none
\* set twice; no byte is read from urandom before the entropy sufficed; and
\* success leaves no descriptor open.
RandomBytesFills ==
  /\ \A b \in DOMAIN writes : writes[b] = IF b < BYTES - left THEN 1 ELSE 0
  /\ call = "read" => entropy
  /\ call = "returned" /\ ret = 0 => left = 0 /\ open = {}

\* randombytes returns, unless the fallback found a broken entropy_avail: it
\* repeats fscanf for ever when an earlier call was interrupted, and what it
\* does with a stream that was not opened, or is closed again, is undefined.
Rereads == call = "fscanf" /\ ~procReads /\ errno = "EINTR"

RandomBytesReturns ==
  <>(call = "returned" \/ (call = "undefined" /\ strategy = "PROC")) \/ <>[]Rereads
=============================================================================
