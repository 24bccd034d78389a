------------------------------ MODULE KeyTools ------------------------------
(***************************************************************************)
(* The five programs of source/ and the directory keys/ they share.        *)
(*                                                                         *)
(* Every step reads or changes one file, which is what a concurrent        *)
(* program, or the user after a crash, can see.  fopen(..., "wb") empties  *)
(* the file at once; the bytes reach it when the stream is closed, all of  *)
(* them or (disk full: no result of fwrite or fclose is looked at) fewer.  *)
(* OpenSSL is external: it derives from a seed the key pair that genkey    *)
(* derives from it, and prints a PEM as the blocks seed, priv and pub.     *)
(*                                                                         *)
(* A fault is a file that cannot be opened, a write cut short, an OpenSSL  *)
(* process that fails or a crash; at most MaxFaults of them occur.         *)
(***************************************************************************)
EXTENDS Integers, FiniteSets

CONSTANTS SEEDS,      \* seeds, each of which stands for its key pair too
          MESSAGES,   \* contents of the file that is signed
          SKFILES, PKFILES,   \* key files that sign_file and verify are given
          PEMS,       \* PEM files that app_from_openssl is given
          MaxRuns,    \* bound: runs of programs, in all
          MaxBusy,    \* bound: programs running at once
          MaxFaults

Tools == {"genkey", "sign_file", "verify", "openssl_from_app",
          "app_from_openssl"}

Files == {"app_pk", "app_sk", "app_seed", "app_seed_hex", "app_sign",
          "openssl_key_pem", "openssl_app_key_pem", "openssl_appkey_dump",
          "openssl_app_pk_pem",
          "openssl_app_seed", "openssl_app_sk", "openssl_app_pk",
          "app_openssl_pem_dump", "app_openssl_seed", "app_openssl_seed_hex",
          "app_openssl_sk", "app_openssl_pk"}

ASSUME KeyToolsAssumption ==
  /\ SKFILES \subseteq {"app_sk", "openssl_app_sk", "app_openssl_sk"}
  /\ PKFILES \subseteq {"app_pk", "openssl_app_pk", "app_openssl_pk"}
  /\ PEMS \subseteq {"openssl_key_pem", "openssl_app_key_pem"}
  /\ MaxRuns \in Nat /\ MaxBusy \in Nat /\ MaxFaults \in Nat

VARIABLES files,   \* the content of each file
          message, \* the content of the file that is signed
          pc,      \* where each program is, or how its last run ended
          mem,     \* what the run of each program has read and opened
          runs, faults

vars == <<files, message, pc, mem, runs, faults>>

(***************************************************************************)
(* Contents.  Short is a file with fewer bytes than its reader wants.      *)
(* "padded" is the 32 bytes of a seed that was cut short and then filled   *)
(* up with zeroes.                                                         *)
(***************************************************************************)
Absent == [kind |-> "absent"]
Short  == [kind |-> "short"]
None   == [kind |-> "none"]  \* nothing read yet
Whole(kind, s) == [kind |-> kind, seed |-> s]
IsWhole(c) == c \notin {Absent, Short, None}

\* A key or a signature is one fread of its whole length.
LongEnough(c) == IsWhole(c)

Blocks == <<"seed", "priv", "pub">>
Kind   == [seed |-> "seed", priv |-> "sk", pub |-> "pk"]

\* The text OpenSSL prints for a PEM, and what is left of it when the
\* process or the disk stops in block n, before its digits or among them.
NoText == [b \in {"seed", "priv", "pub"} |-> Absent]
TextOf(pem) == IF IsWhole(pem)
               THEN [b \in {"seed", "priv", "pub"} |-> Whole(Kind[b], pem.seed)]
               ELSE NoText
CutTexts(pem) ==
  {[b \in {"seed", "priv", "pub"} |->
      IF \E i \in 1..(n - 1) : Blocks[i] = b THEN TextOf(pem)[b]
      ELSE IF Blocks[n] = b /\ IsWhole(pem) THEN c ELSE Absent] :
   n \in 1..3, c \in {Absent, Short}}

(***************************************************************************)
(* Steps common to the programs.                                           *)
(***************************************************************************)
Fresh == [seed |-> None, msg |-> None, sig |-> None, text |-> NoText,
          open |-> {}, before |-> None, clean |-> TRUE]

Running(t) == pc[t] \notin {"idle", "exit0", "exit1", "killed"}

At(t, l) == pc[t] = l
Go(t, l) == pc' = [pc EXCEPT ![t] = l]

Keep(t, field, x) == mem' = [mem EXCEPT ![t][field] = x]

\* A step in which something fails.
Faulty(t) == /\ faults < MaxFaults
             /\ faults' = faults + 1
             /\ mem' = [mem EXCEPT ![t].clean = FALSE]

Put(f, c) == files' = [files EXCEPT ![f] = c]

Opened(t, f) == f \in mem[t].open

\* fopen for writing empties the file; or fails, then at failed.
Begin(t, f, failed) ==
  /\ ~Opened(t, f)
  /\ \/ /\ Put(f, Short) /\ mem' = [mem EXCEPT ![t].open = @ \cup {f}]
        /\ UNCHANGED <<pc, faults>>
     \/ UNCHANGED files /\ Go(t, failed) /\ Faulty(t)

\* fwrite and fclose: the whole content, or less, and at l all the same.
Finish(t, f, c, l) ==
  /\ Opened(t, f) /\ Go(t, l)
  /\ \/ Put(f, c) /\ UNCHANGED <<mem, faults>>
     \/ Put(f, Short) /\ Faulty(t)

Save(t, f, c, l, failed) ==
  /\ Begin(t, f, failed) \/ Finish(t, f, c, l)
  /\ UNCHANGED <<message, runs>>

\* A file is opened and read, and the run goes on at l with what it holds,
\* or ends with an error when the file is not there or is not accepted.
Load(t, accepted, field, x, l) ==
  /\ \/ accepted /\ Keep(t, field, x) /\ Go(t, l) /\ UNCHANGED faults
     \/ ~accepted /\ Go(t, "exit1") /\ UNCHANGED <<mem, faults>>
     \/ Go(t, "exit1") /\ Faulty(t)
  /\ UNCHANGED <<files, message, runs>>

Start(t, l) ==
  /\ ~Running(t) /\ runs < MaxRuns
  /\ Cardinality({u \in Tools : Running(u)}) < MaxBusy
  /\ runs' = runs + 1
  /\ Go(t, l)

\* A program is killed: its open streams are lost.
Crash(t) ==
  /\ Running(t)
  /\ Faulty(t) /\ Go(t, "killed")
  /\ UNCHANGED <<files, message, runs>>

\* The user edits the file that is signed.
Edit ==
  /\ message' \in MESSAGES \ {message}
  /\ UNCHANGED <<files, pc, mem, runs, faults>>

(***************************************************************************)
(* genkey.  randombytes is not asked whether it succeeded: the seed is any *)
(* seed, an old one included.  Both key files are opened, and so emptied,  *)
(* before either is written; then the seed files likewise.                 *)
(***************************************************************************)
StartGenkey ==
  /\ Start("genkey", "open_pk")
  /\ \E s \in SEEDS : mem' = [mem EXCEPT !["genkey"] = [Fresh EXCEPT !.seed = s]]
  /\ UNCHANGED <<files, message, faults>>

Open(f, l) ==
  /\ \/ /\ Put(f, Short)
        /\ mem' = [mem EXCEPT !["genkey"].open = @ \cup {f}]
        /\ UNCHANGED faults
     \/ UNCHANGED files /\ Faulty("genkey")
  /\ Go("genkey", l)
  /\ UNCHANGED <<message, runs>>

BothOpen(f, g) == {f, g} \subseteq mem["genkey"].open

Close(f, kind, l) ==
  /\ \/ Put(f, Whole(kind, mem["genkey"].seed)) /\ UNCHANGED <<mem, faults>>
     \/ Put(f, Short) /\ Faulty("genkey")
  /\ Go("genkey", l)
  /\ UNCHANGED <<message, runs>>

\* Not opened, so not written: an error for the keys, a warning for the seed.
Unwritten(l) == Go("genkey", l) /\ UNCHANGED <<files, message, mem, runs, faults>>

StoreKeysSeparately ==
  \/ At("genkey", "open_pk") /\ Open("app_pk", "close_pk")
  \/ /\ At("genkey", "close_pk")
     /\ IF "app_pk" \in mem["genkey"].open THEN Close("app_pk", "pk", "open_sk")
                                           ELSE Unwritten("exit1")
  \/ At("genkey", "open_sk") /\ Open("app_sk", "close_sk")
  \/ /\ At("genkey", "close_sk")
     /\ IF "app_sk" \in mem["genkey"].open THEN Close("app_sk", "sk", "open_seed")
                                           ELSE Unwritten("exit1")
StoreKeys ==
  \/ At("genkey", "open_pk") /\ Open("app_pk", "open_sk")
  \/ At("genkey", "open_sk") /\ Open("app_sk", "close_pk")
  \/ /\ At("genkey", "close_pk")
     /\ IF BothOpen("app_pk", "app_sk") THEN Close("app_pk", "pk", "close_sk")
                                        ELSE Unwritten("exit1")
  \/ At("genkey", "close_sk") /\ Close("app_sk", "sk", "open_seed")

StoreSeed ==
  \/ At("genkey", "open_seed") /\ Open("app_seed", "open_hex")
  \/ At("genkey", "open_hex") /\ Open("app_seed_hex", "close_seed")
  \/ /\ At("genkey", "close_seed")
     /\ IF BothOpen("app_seed", "app_seed_hex")
        THEN Close("app_seed", "seed", "close_hex") ELSE Unwritten("exit0")
  \/ At("genkey", "close_hex") /\ Close("app_seed_hex", "seedhex", "exit0")

(***************************************************************************)
(* sign_file.  app_sign.bin is opened when the signature is there.         *)
(***************************************************************************)
StartSign ==
  /\ Start("sign_file", "read_message")
  /\ mem' = [mem EXCEPT !["sign_file"] = [Fresh EXCEPT !.before = files["app_sign"]]]
  /\ UNCHANGED <<files, message, faults>>

SignReadsMessageOpensOutput ==
  /\ At("sign_file", "read_message")
  /\ Put("app_sign", Short) /\ Keep("sign_file", "msg", message)
  /\ Go("sign_file", "read_sk")
  /\ UNCHANGED <<message, runs, faults>>
SignReadsMessage ==
  /\ At("sign_file", "read_message")
  /\ Load("sign_file", TRUE, "msg", message, "read_sk")

SignReadsKey(f) ==
  /\ At("sign_file", "read_sk")
  /\ Load("sign_file", LongEnough(files[f]), "seed", files[f], "save")

Signature(sk, m) == [kind |-> "sign", seed |-> sk.seed, msg |-> m]

SignSaves ==
  /\ At("sign_file", "save")
  /\ Save("sign_file", "app_sign",
          Signature(mem["sign_file"].seed, mem["sign_file"].msg),
          "exit0", "exit1")

(***************************************************************************)
(* verify                                                                  *)
(***************************************************************************)
StartVerify ==
  /\ Start("verify", "read_message")
  /\ mem' = [mem EXCEPT !["verify"] = Fresh]
  /\ UNCHANGED <<files, message, faults>>

VerifyReadsMessage ==
  /\ At("verify", "read_message")
  /\ Load("verify", TRUE, "msg", message, "read_sign")

VerifyReadsSignature ==
  /\ At("verify", "read_sign")
  /\ Load("verify", LongEnough(files["app_sign"]),
          "sig", files["app_sign"], "read_pk")

VerifyReadsKey(f) ==
  /\ At("verify", "read_pk")
  /\ Load("verify", LongEnough(files[f]), "seed", files[f], "verify")

\* crypto_sign_verify: the signature is of this message by this key.
Verdict ==
  /\ At("verify", "verify")
  /\ LET v == mem["verify"]
     IN Go("verify", IF v.sig = Signature(v.seed, v.msg) THEN "exit0" ELSE "exit1")
  /\ UNCHANGED <<files, message, mem, runs, faults>>

(***************************************************************************)
(* openssl_from_app.  A dump that fails is a warning: the run goes on and  *)
(* takes the blocks out of whatever the dump file then holds.              *)
(***************************************************************************)
StartFromApp ==
  /\ Start("openssl_from_app", "read_seed")
  /\ mem' = [mem EXCEPT !["openssl_from_app"] = Fresh]
  /\ UNCHANGED <<files, message, faults>>

FromAppReadsSeed(f) ==
  /\ At("openssl_from_app", "read_seed")
  /\ Load("openssl_from_app", LongEnough(files[f]), "seed", files[f], "genpkey")

\* run_to_file: the process starts and the file opens, or the run ends; a
\* process that fails leaves a short file, and the run ends; a write cut
\* short goes unnoticed.
Genpkey ==
  LET pem == "openssl_app_key_pem" IN
  /\ At("openssl_from_app", "genpkey")
  /\ \/ Begin("openssl_from_app", pem, "exit1")
     \/ Finish("openssl_from_app", pem,
               Whole("pem", mem["openssl_from_app"].seed.seed), "dump")
     \/ /\ Opened("openssl_from_app", pem) /\ Put(pem, Short)
        /\ Go("openssl_from_app", "exit1") /\ Faulty("openssl_from_app")
  /\ UNCHANGED <<message, runs>>

Dump ==
  LET pem == files["openssl_app_key_pem"] IN
  /\ At("openssl_from_app", "dump")
  /\ \/ Begin("openssl_from_app", "openssl_appkey_dump", "pubout")
     \/ /\ Opened("openssl_from_app", "openssl_appkey_dump")
        /\ Go("openssl_from_app", "pubout")
        /\ \/ /\ Put("openssl_appkey_dump", TextOf(pem))
              /\ UNCHANGED <<mem, faults>>
           \/ /\ \E cut \in CutTexts(pem) : Put("openssl_appkey_dump", cut)
              /\ Faulty("openssl_from_app")
  /\ UNCHANGED <<message, runs>>

\* openssl pkey -pubout writes its file itself.  An error ends the run, but
\* run_status takes WEXITSTATUS of a process that a signal killed for 0.
Pubout ==
  LET pem == files["openssl_app_key_pem"] IN
  /\ At("openssl_from_app", "pubout")
  /\ \/ /\ IsWhole(pem) /\ Put("openssl_app_pk_pem", Whole("pubpem", pem.seed))
        /\ Go("openssl_from_app", "read_dump") /\ UNCHANGED <<mem, faults>>
     \/ /\ ~IsWhole(pem) /\ UNCHANGED <<files, mem, faults>>
        /\ Go("openssl_from_app", "exit1")
     \/ /\ \/ Put("openssl_app_pk_pem", Short) \/ UNCHANGED files
        /\ Faulty("openssl_from_app")
        /\ \E l \in {"read_dump", "exit1"} : Go("openssl_from_app", l)
  /\ UNCHANGED <<message, runs>>

\* A dump that cannot be read is no error either.
ReadDump ==
  /\ At("openssl_from_app", "read_dump")
  /\ \/ /\ files["openssl_appkey_dump"] # Absent
        /\ Keep("openssl_from_app", "text", files["openssl_appkey_dump"])
        /\ Go("openssl_from_app", "seed") /\ UNCHANGED faults
     \/ /\ files["openssl_appkey_dump"] = Absent
        /\ Go("openssl_from_app", "exit0") /\ UNCHANGED <<mem, faults>>
     \/ Go("openssl_from_app", "exit0") /\ Faulty("openssl_from_app")
  /\ UNCHANGED <<files, message, runs>>

\* out_files[] and the label that follows a label, 0 being the end.
OutFilesSwapped == [seed |-> "openssl_app_seed", priv |-> "openssl_app_pk",
                    pub |-> "openssl_app_sk"]
OutFiles == [seed |-> "openssl_app_seed", priv |-> "openssl_app_sk",
             pub |-> "openssl_app_pk"]
After(l) == CASE l = "seed" -> "priv" [] l = "priv" -> "pub" [] l = "pub" -> "exit0"

\* A block that is missing, empty or has an odd number of digits is skipped.
SaveBlock(l) ==
  /\ At("openssl_from_app", l)
  /\ LET c == mem["openssl_from_app"].text[l] IN
     \/ c # Absent /\ Save("openssl_from_app", OutFiles[l], c, After(l), After(l))
     \/ /\ ~IsWhole(c) /\ ~Opened("openssl_from_app", OutFiles[l])
        /\ Go("openssl_from_app", After(l))
        /\ UNCHANGED <<files, message, mem, runs, faults>>

(***************************************************************************)
(* app_from_openssl.  How OpenSSL ends is not asked; text is enough.       *)
(***************************************************************************)
StartFromOpenssl ==
  /\ Start("app_from_openssl", "dump")
  /\ mem' = [mem EXCEPT !["app_from_openssl"] = Fresh]
  /\ UNCHANGED <<files, message, faults>>

ReadPem(f) ==
  /\ At("app_from_openssl", "dump")
  /\ \/ /\ Keep("app_from_openssl", "text", TextOf(files[f]))
        /\ Go("app_from_openssl", IF IsWhole(files[f]) THEN "save_dump" ELSE "exit1")
        /\ UNCHANGED faults
     \/ /\ faults < MaxFaults /\ faults' = faults + 1
        /\ \E cut \in CutTexts(files[f]) :
             mem' = [mem EXCEPT !["app_from_openssl"].text = cut,
                                !["app_from_openssl"].clean = FALSE]
        /\ \/ Go("app_from_openssl", "exit1")
           \/ IsWhole(files[f]) /\ Go("app_from_openssl", "save_dump")
  /\ UNCHANGED <<files, message, runs>>

SaveDump ==
  /\ At("app_from_openssl", "save_dump")
  /\ Save("app_from_openssl", "app_openssl_pem_dump",
          mem["app_from_openssl"].text, "seed", "seed")

Block(l) == mem["app_from_openssl"].text[l]

Skip(l) == /\ Go("app_from_openssl", l)
           /\ UNCHANGED <<files, message, mem, runs, faults>>

\* An odd number of digits, found before the file is opened.
Odd(l, f) == Block(l) = Short /\ ~Opened("app_from_openssl", f)

\* A seed cut short is written as 32 bytes, the missing ones being zero; a
\* block with an odd number of digits ends the run, whichever block it is.
ConvertSeed ==
  \/ /\ At("app_from_openssl", "seed")
     /\ \/ Block("seed") = Absent /\ Skip("priv")
        \/ Odd("seed", "app_openssl_seed") /\ Skip("exit1")
        \/ /\ Block("seed") # Absent
           /\ Save("app_from_openssl", "app_openssl_seed",
                   IF Block("seed") = Short THEN Whole("seed", "padded")
                                            ELSE Block("seed"), "hex", "hex")
  \/ /\ At("app_from_openssl", "hex")
     /\ Save("app_from_openssl", "app_openssl_seed_hex",
             IF Block("seed") = Short THEN Short
                                      ELSE Whole("seedhex", Block("seed").seed),
             "priv", "priv")

\* A secret key that is too short is not saved, and that is a warning.
ConvertPriv ==
  /\ At("app_from_openssl", "priv")
  /\ \/ ~IsWhole(Block("priv")) /\ Skip("pub")
     \/ Odd("priv", "app_openssl_sk") /\ Skip("exit1")
     \/ /\ IsWhole(Block("priv"))
        /\ Save("app_from_openssl", "app_openssl_sk", Block("priv"), "pub", "pub")

\* A public key that is too short is saved as it is.
ConvertPub ==
  /\ At("app_from_openssl", "pub")
  /\ \/ Block("pub") = Absent /\ Skip("exit0")
     \/ Odd("pub", "app_openssl_pk") /\ Skip("exit1")
     \/ /\ Block("pub") # Absent
        /\ Save("app_from_openssl", "app_openssl_pk", Block("pub"), "exit0", "exit0")

-----------------------------------------------------------------------------
Init ==
  /\ \E c \in {Absent} \cup {Whole("pem", s) : s \in SEEDS} :
       files = [f \in Files |-> IF f = "openssl_key_pem" THEN c ELSE Absent]
  /\ message \in MESSAGES
  /\ pc = [t \in Tools |-> "idle"]
  /\ mem = [t \in Tools |-> Fresh]
  /\ runs = 0 /\ faults = 0

Genkey == StartGenkey \/ StoreKeys \/ StoreSeed
Sign   == StartSign \/ SignReadsMessage \/ SignSaves
          \/ \E f \in SKFILES : SignReadsKey(f)
Verify == StartVerify \/ VerifyReadsMessage \/ VerifyReadsSignature \/ Verdict
          \/ \E f \in PKFILES : VerifyReadsKey(f)
FromApp == StartFromApp \/ Genpkey \/ Dump \/ Pubout \/ ReadDump
           \/ \E f \in {"app_seed", "app_seed_hex"} : FromAppReadsSeed(f)
           \/ \E l \in {"seed", "priv", "pub"} : SaveBlock(l)
FromOpenssl == StartFromOpenssl \/ SaveDump \/ ConvertSeed \/ ConvertPriv
               \/ ConvertPub \/ \E f \in PEMS : ReadPem(f)

Next == Genkey \/ Sign \/ Verify \/ FromApp \/ FromOpenssl
        \/ Edit \/ \E t \in Tools : Crash(t)

Spec == Init /\ [][Next]_vars

-----------------------------------------------------------------------------
\* The kind of content each file has, and of what a run holds.
Contents(kinds) == {Absent, Short}
  \cup {c \in [kind : kinds, seed : SEEDS \cup {"padded"}] : c.seed \in SEEDS \/ c.kind = "seed"}
Signatures == [kind : {"sign"}, seed : SEEDS, msg : MESSAGES]

KindOf == [f \in Files |->
  CASE f \in {"app_pk", "openssl_app_pk", "app_openssl_pk"} -> "pk"
    [] f \in {"app_sk", "openssl_app_sk", "app_openssl_sk"} -> "sk"
    [] f \in {"app_seed", "openssl_app_seed", "app_openssl_seed"} -> "seed"
    [] f \in {"app_seed_hex", "app_openssl_seed_hex"} -> "seedhex"
    [] f \in {"openssl_key_pem", "openssl_app_key_pem"} -> "pem"
    [] f = "openssl_app_pk_pem" -> "pubpem"
    [] OTHER -> "other"]

\* Every key file holds a key of its own kind or is short, never a mixture,
\* and what a run has accepted is whole.
TypeOK ==
  /\ \A f \in Files : KindOf[f] # "other" => files[f] \in Contents({KindOf[f]})
  /\ files["app_sign"] \in {Absent, Short} \cup Signatures
  /\ message \in MESSAGES
  /\ \A t \in Tools : /\ mem[t].clean \in BOOLEAN
                      /\ mem[t].open \subseteq Files
  /\ runs \in 0..MaxRuns /\ faults \in 0..MaxFaults

\* At every moment, and whatever failed or was killed before, a secret and a
\* public key in keys/ that are both of full length belong together: genkey
\* empties both files before it writes either.
PairMatches ==
  LET pk == files["app_pk"]
      sk == files["app_sk"]
  IN IsWhole(pk) /\ IsWhole(sk) => pk.seed = sk.seed

\* A run of sign_file that ends with an error leaves the signature that was
\* there, and it replaces it only with a whole key in hand, although the key
\* files may be short at any time; only a run that has opened app_sign.bin and
\* is killed, or finds the disk full, leaves a short signature.
FailedSignKeepsOld ==
  /\ At("sign_file", "exit1") => files["app_sign"] = mem["sign_file"].before
  /\ At("sign_file", "save") => IsWhole(mem["sign_file"].seed)

\* What a run writes when it ends with 0.
Result(t) ==
  LET m == mem[t] IN
  CASE t = "genkey" ->
         [app_pk |-> Whole("pk", m.seed), app_sk |-> Whole("sk", m.seed),
          app_seed |-> Whole("seed", m.seed),
          app_seed_hex |-> Whole("seedhex", m.seed)]
    [] t = "sign_file" -> [app_sign |-> Signature(m.seed, m.msg)]
    [] t = "openssl_from_app" ->
         [openssl_app_key_pem |-> Whole("pem", m.seed.seed),
          openssl_app_pk_pem |-> Whole("pubpem", m.seed.seed),
          openssl_app_seed |-> Whole("seed", m.seed.seed),
          openssl_app_sk |-> Whole("sk", m.seed.seed),
          openssl_app_pk |-> Whole("pk", m.seed.seed)]
    [] t = "app_from_openssl" ->
         LET s == m.text["priv"].seed
         IN [app_openssl_seed |-> Whole("seed", s),
             app_openssl_seed_hex |-> Whole("seedhex", s),
             app_openssl_sk |-> Whole("sk", s), app_openssl_pk |-> Whole("pk", s)]

\* A run that met no fault and ends with 0 has written all its files, of one
\* key: the one it generated or read, whatever runs beside it.
CleanRunIsExact ==
  \A t \in Tools \ {"verify"} :
    At(t, "exit0") /\ mem[t].clean =>
      \A f \in DOMAIN Result(t) : files[f] = Result(t)[f]

\* What README.md:162-165 compares: after a run of openssl_from_app that ends
\* with 0, no key file of another seed is left among its outputs.
ExportIsOfThisSeed ==
  At("openssl_from_app", "exit0") =>
    \A f \in {"openssl_app_seed", "openssl_app_sk", "openssl_app_pk"} :
      IsWhole(files[f]) => files[f].seed = mem["openssl_from_app"].seed.seed
=============================================================================
