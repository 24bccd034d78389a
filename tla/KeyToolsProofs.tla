--------------------------- MODULE KeyToolsProofs ---------------------------
(***************************************************************************)
(* Proofs about KeyTools, for any number of seeds, messages, runs and      *)
(* faults; and, at the end, about the readers that the programs have for   *)
(* seed files and for OpenSSL's text.                                      *)
(*                                                                         *)
(* Each file of keys/ is written by one program.  So what a run has        *)
(* written stays as it is until that program runs again, whatever runs     *)
(* beside it, and an invariant of one program speaks of its place, its     *)
(* memory and its own files only: a step of another program leaves all of  *)
(* them alone (Local).                                                     *)
(***************************************************************************)
EXTENDS KeyTools, SeedFile, TextBlocks, SequenceTheorems, FiniteSetTheorems, TLAPS

Fields == {"seed", "msg", "sig", "text", "open", "before", "clean"}

Shape ==
  /\ DOMAIN files = Files /\ DOMAIN pc = Tools /\ DOMAIN mem = Tools
  /\ \A t \in Tools : DOMAIN mem[t] = Fields

\* The files that a program writes.
Owned ==
  [genkey    |-> {"app_pk", "app_sk", "app_seed", "app_seed_hex"},
   sign_file |-> {"app_sign"},
   verify    |-> {},
   openssl_from_app |->
     {"openssl_app_key_pem", "openssl_appkey_dump", "openssl_app_pk_pem",
      "openssl_app_seed", "openssl_app_sk", "openssl_app_pk"},
   app_from_openssl |->
     {"app_openssl_pem_dump", "app_openssl_seed", "app_openssl_seed_hex",
      "app_openssl_sk", "app_openssl_pk"}]

\* A step that program t takes.
Local(t) ==
  /\ Shape'
  /\ \A u \in Tools \ {t} : mem'[u] = mem[u] /\ pc'[u] = pc[u]
  /\ \A f \in Files \ Owned[t] : files'[f] = files[f]

\* A run that met a fault.
Marked(t) == mem'[t] = [mem[t] EXCEPT !.clean = FALSE]

-----------------------------------------------------------------------------
(***************************************************************************)
(* The invariants of the programs                                          *)
(***************************************************************************)
\* What genkey knows of the two key files at each place.
OpenInv ==
  LET opened == mem["genkey"].open IN
  /\ At("genkey", "open_pk") => opened = {}
  /\ At("genkey", "open_sk") => opened = {} \/ files["app_pk"] = Short
  /\ At("genkey", "open_sk") => "app_sk" \notin opened
  /\ At("genkey", "close_pk") =>
       /\ "app_pk" \in opened => files["app_pk"] = Short
       /\ "app_sk" \in opened => files["app_sk"] = Short
  /\ At("genkey", "close_sk") =>
       /\ files["app_sk"] = Short
       /\ files["app_pk"] \in {Short, Whole("pk", mem["genkey"].seed)}

\* What it has written so far, if it met no fault.
GenkeyInv ==
  LET m == mem["genkey"]
      l == pc["genkey"]
  IN m.clean = TRUE =>
       /\ l \in {"close_sk", "open_seed", "open_hex", "close_seed", "close_hex", "exit0"} =>
            files["app_pk"] = Whole("pk", m.seed)
       /\ l \in {"open_seed", "open_hex", "close_seed", "close_hex", "exit0"} =>
            files["app_sk"] = Whole("sk", m.seed)
       /\ l \in {"open_hex", "close_seed"} => "app_seed" \in m.open
       /\ l = "close_seed" => "app_seed_hex" \in m.open
       /\ l \in {"close_hex", "exit0"} => files["app_seed"] = Whole("seed", m.seed)
       /\ l = "exit0" => files["app_seed_hex"] = Whole("seedhex", m.seed)

\* sign_file leaves the old signature alone until it has a whole key and has
\* opened the file.
SignInv ==
  LET m == mem["sign_file"]
      l == pc["sign_file"]
  IN /\ (l \in {"read_message", "read_sk", "exit1"}
         \/ (l = "save" /\ "app_sign" \notin m.open))
          => files["app_sign"] = m.before
     /\ l = "save" => IsWhole(m.seed)
     /\ l = "exit0" /\ m.clean = TRUE => files["app_sign"] = Signature(m.seed, m.msg)

\* The text OpenSSL prints for the key pair of a seed.
Printed(s) == [b \in {"seed", "priv", "pub"} |-> Whole(Kind[b], s)]

FromAppInv ==
  LET m == mem["openssl_from_app"]
      l == pc["openssl_from_app"]
      s == m.seed.seed
  IN m.clean = TRUE =>
       /\ l \in {"dump", "pubout", "read_dump", "seed", "priv", "pub", "exit0"} =>
            files["openssl_app_key_pem"] = Whole("pem", s)
       /\ l \in {"pubout", "read_dump"} => files["openssl_appkey_dump"] = Printed(s)
       /\ l \in {"read_dump", "seed", "priv", "pub", "exit0"} =>
            files["openssl_app_pk_pem"] = Whole("pubpem", s)
       /\ l \in {"seed", "priv", "pub"} => m.text = Printed(s)
       /\ l \in {"priv", "pub", "exit0"} => files["openssl_app_seed"] = Whole("seed", s)
       /\ l \in {"pub", "exit0"} => files["openssl_app_sk"] = Whole("sk", s)
       /\ l = "exit0" => files["openssl_app_pk"] = Whole("pk", s)

FromOpensslInv ==
  LET m == mem["app_from_openssl"]
      l == pc["app_from_openssl"]
      s == m.text["priv"].seed
  IN m.clean = TRUE =>
       /\ l \in {"save_dump", "seed", "hex", "priv", "pub", "exit0"} => m.text = Printed(s)
       /\ l \in {"hex", "priv", "pub", "exit0"} => files["app_openssl_seed"] = Whole("seed", s)
       /\ l \in {"priv", "pub", "exit0"} => files["app_openssl_seed_hex"] = Whole("seedhex", s)
       /\ l \in {"pub", "exit0"} => files["app_openssl_sk"] = Whole("sk", s)
       /\ l = "exit0" => files["app_openssl_pk"] = Whole("pk", s)

PairInv == OpenInv /\ PairMatches

IInv == Shape /\ PairInv /\ GenkeyInv /\ SignInv /\ FromAppInv /\ FromOpensslInv

-----------------------------------------------------------------------------
(***************************************************************************)
(* Steps of one program and the invariants of the others                   *)
(***************************************************************************)
LEMMA OwnedFacts ==
  /\ \A t \in Tools : Owned[t] \subseteq Files
  /\ \A t, u \in Tools : t # u => Owned[t] \cap Owned[u] = {}
  BY DEF Owned, Tools, Files

LEMMA Aside ==
  ASSUME NEW t \in Tools, NEW u \in Tools \ {t}, Local(t)
  PROVE  /\ mem'[u] = mem[u] /\ pc'[u] = pc[u]
         /\ \A f \in Owned[u] : files'[f] = files[f]
  BY OwnedFacts DEF Local

LEMMA GenkeyAside ==
  ASSUME NEW t \in Tools \ {"genkey"}, Local(t)
  PROVE  (PairInv => PairInv') /\ (GenkeyInv => GenkeyInv')
<1>1. "genkey" \in Tools \ {t} /\ t \in Tools
  BY DEF Tools
<1>2. /\ mem'["genkey"] = mem["genkey"] /\ pc'["genkey"] = pc["genkey"]
      /\ \A f \in {"app_pk", "app_sk", "app_seed", "app_seed_hex"} : files'[f] = files[f]
  BY <1>1, Aside DEF Owned
<1> QED BY <1>2 DEF PairInv, OpenInv, PairMatches, GenkeyInv, At

LEMMA SignAside ==
  ASSUME NEW t \in Tools \ {"sign_file"}, Local(t)
  PROVE  SignInv => SignInv'
<1>1. "sign_file" \in Tools \ {t} /\ t \in Tools
  BY DEF Tools
<1>2. /\ mem'["sign_file"] = mem["sign_file"] /\ pc'["sign_file"] = pc["sign_file"]
      /\ files'["app_sign"] = files["app_sign"]
  BY <1>1, Aside DEF Owned
<1> QED BY <1>2 DEF SignInv

LEMMA FromAppAside ==
  ASSUME NEW t \in Tools \ {"openssl_from_app"}, Local(t)
  PROVE  FromAppInv => FromAppInv'
<1>1. "openssl_from_app" \in Tools \ {t} /\ t \in Tools
  BY DEF Tools
<1>2. /\ mem'["openssl_from_app"] = mem["openssl_from_app"]
      /\ pc'["openssl_from_app"] = pc["openssl_from_app"]
      /\ \A f \in {"openssl_app_key_pem", "openssl_appkey_dump", "openssl_app_pk_pem",
                   "openssl_app_seed", "openssl_app_sk", "openssl_app_pk"} :
           files'[f] = files[f]
  BY <1>1, Aside DEF Owned
<1> QED BY <1>2 DEF FromAppInv

LEMMA FromOpensslAside ==
  ASSUME NEW t \in Tools \ {"app_from_openssl"}, Local(t)
  PROVE  FromOpensslInv => FromOpensslInv'
<1>1. "app_from_openssl" \in Tools \ {t} /\ t \in Tools
  BY DEF Tools
<1>2. /\ mem'["app_from_openssl"] = mem["app_from_openssl"]
      /\ pc'["app_from_openssl"] = pc["app_from_openssl"]
      /\ \A f \in {"app_openssl_pem_dump", "app_openssl_seed", "app_openssl_seed_hex",
                   "app_openssl_sk", "app_openssl_pk"} :
           files'[f] = files[f]
  BY <1>1, Aside DEF Owned
<1> QED BY <1>2 DEF FromOpensslInv

\* What is left to show of a step that a program takes: its own invariant.
LEMMA OwnStep ==
  ASSUME IInv, NEW t \in Tools, Local(t),
         t = "genkey" => PairInv' /\ GenkeyInv', t = "sign_file" => SignInv',
         t = "openssl_from_app" => FromAppInv', t = "app_from_openssl" => FromOpensslInv'
  PROVE  IInv'
  BY GenkeyAside, SignAside, FromAppAside, FromOpensslAside DEF IInv, Local

-----------------------------------------------------------------------------
(***************************************************************************)
(* The steps that programs have in common                                  *)
(***************************************************************************)
\* The program moves, and at most one file that it owns changes.
LEMMA MoveStep ==
  ASSUME Shape, NEW t \in Tools, NEW l, Go(t, l),
         NEW f \in Owned[t], NEW c, files' = files \/ Put(f, c),
         NEW r, DOMAIN r = Fields, mem' = mem \/ mem' = [mem EXCEPT ![t] = r]
  PROVE  /\ Local(t) /\ pc'[t] = l
         /\ \A g \in Files \ {f} : files'[g] = files[g]
         /\ files' = files \/ files'[f] = c
         /\ mem' = mem \/ mem'[t] = r
<1>1. f \in Files
  BY OwnedFacts
<1>2. pc'[t] = l /\ DOMAIN pc' = Tools /\ \A u \in Tools \ {t} : pc'[u] = pc[u]
  BY DEF Go, Shape
<1>3. /\ DOMAIN files' = Files /\ \A g \in Files \ {f} : files'[g] = files[g]
      /\ files' = files \/ files'[f] = c
  BY <1>1 DEF Put, Shape
<1>4. /\ DOMAIN mem' = Tools /\ \A u \in Tools \ {t} : mem'[u] = mem[u]
      /\ mem' = mem \/ mem'[t] = r
      /\ \A u \in Tools : DOMAIN mem'[u] = Fields
  BY DEF Shape
<1> QED BY <1>1, <1>2, <1>3, <1>4 DEF Local, Shape

\* A step of which the files are not part.
LEMMA QuietStep ==
  ASSUME Shape, NEW t \in Tools, NEW l, Go(t, l), files' = files,
         NEW r, DOMAIN r = Fields, mem' = mem \/ mem' = [mem EXCEPT ![t] = r]
  PROVE  Local(t) /\ pc'[t] = l /\ (mem' = mem \/ mem'[t] = r)
<1>1. pc'[t] = l /\ DOMAIN pc' = Tools /\ \A u \in Tools \ {t} : pc'[u] = pc[u]
  BY DEF Go, Shape
<1>2. /\ DOMAIN mem' = Tools /\ \A u \in Tools \ {t} : mem'[u] = mem[u]
      /\ mem' = mem \/ mem'[t] = r
      /\ \A u \in Tools : DOMAIN mem'[u] = Fields
  BY DEF Shape
<1> QED BY <1>1, <1>2 DEF Local, Shape

LEMMA FaultyStep ==
  ASSUME Shape, NEW t \in Tools, Faulty(t)
  PROVE  /\ mem' = [mem EXCEPT ![t] = [mem[t] EXCEPT !.clean = FALSE]]
         /\ DOMAIN [mem[t] EXCEPT !.clean = FALSE] = Fields
         /\ Marked(t) /\ mem'[t].clean = FALSE
  BY DEF Faulty, Marked, Shape, Fields

\* Of a file that is empty since it was opened, the run knows only that.
Emptied(t, f) ==
  /\ files'[f] = Short /\ pc'[t] = pc[t]
  /\ mem'[t].open = mem[t].open \cup {f}
  /\ \A x \in Fields \ {"open"} : mem'[t][x] = mem[t][x]

LEMMA BeginStep ==
  ASSUME Shape, NEW t \in Tools, NEW f \in Owned[t], NEW failed, Begin(t, f, failed)
  PROVE  /\ Local(t) /\ \A g \in Files \ {f} : files'[g] = files[g]
         /\ \/ Emptied(t, f)
            \/ /\ ~Opened(t, f) /\ files' = files /\ pc'[t] = failed
               /\ Marked(t) /\ mem'[t].clean = FALSE
<1>1. f \in Files /\ DOMAIN mem[t] = Fields /\ "open" \in Fields
  BY OwnedFacts DEF Shape, Fields
<1>2. CASE Put(f, Short) /\ mem' = [mem EXCEPT ![t].open = @ \cup {f}] /\ UNCHANGED pc
  <2> DEFINE r == [mem[t] EXCEPT !.open = @ \cup {f}]
  <2>1. mem' = [mem EXCEPT ![t] = r]
    BY <1>2
  <2>2. /\ DOMAIN r = Fields /\ r.open = mem[t].open \cup {f}
        /\ \A x \in Fields \ {"open"} : r[x] = mem[t][x]
    BY <1>1
  <2> HIDE DEF r
  <2>3. DOMAIN mem' = Tools /\ mem'[t] = r /\ \A u \in Tools \ {t} : mem'[u] = mem[u]
    BY <2>1 DEF Shape
  <2>4. /\ DOMAIN files' = Files /\ files'[f] = Short
        /\ \A g \in Files \ {f} : files'[g] = files[g]
    BY <1>1, <1>2 DEF Put, Shape
  <2>5. Local(t)
    BY <1>1, <1>2, <2>2, <2>3, <2>4 DEF Local, Shape
  <2>6. Emptied(t, f)
    BY <1>2, <2>2, <2>3, <2>4 DEF Emptied
  <2> QED BY <2>4, <2>5, <2>6
<1>3. CASE ~Opened(t, f) /\ UNCHANGED files /\ Go(t, failed) /\ Faulty(t)
  BY <1>3, FaultyStep, QuietStep
<1> QED BY <1>2, <1>3 DEF Begin

LEMMA SaveStep ==
  ASSUME Shape, NEW t \in Tools, NEW f \in Owned[t], NEW c, NEW l, NEW failed,
         Save(t, f, c, l, failed)
  PROVE  /\ Local(t) /\ \A g \in Files \ {f} : files'[g] = files[g]
         /\ \/ Emptied(t, f)
            \/ files'[f] = c /\ pc'[t] = l /\ mem'[t] = mem[t]
            \/ pc'[t] = l /\ Marked(t) /\ mem'[t].clean = FALSE
            \/ /\ ~Opened(t, f) /\ files' = files /\ pc'[t] = failed
               /\ Marked(t) /\ mem'[t].clean = FALSE
<1>1. f \in Files
  BY OwnedFacts
<1>2. CASE Put(f, c) /\ Go(t, l) /\ UNCHANGED mem
  <2>1. /\ Local(t) /\ pc'[t] = l /\ \A g \in Files \ {f} : files'[g] = files[g]
    BY <1>2, MoveStep DEF Shape
  <2>2. files'[f] = c
    BY <1>1, <1>2 DEF Put, Shape
  <2> QED BY <1>2, <2>1, <2>2
<1>3. CASE Put(f, Short) /\ Go(t, l) /\ Faulty(t)
  <2> DEFINE r == [mem[t] EXCEPT !.clean = FALSE]
  <2>1. /\ mem' = [mem EXCEPT ![t] = r] /\ DOMAIN r = Fields
        /\ Marked(t) /\ mem'[t].clean = FALSE
    BY <1>3, FaultyStep
  <2> HIDE DEF r
  <2>2. Local(t) /\ pc'[t] = l /\ \A g \in Files \ {f} : files'[g] = files[g]
    BY <1>3, <2>1, MoveStep
  <2> QED BY <2>1, <2>2
<1>4. CASE Begin(t, f, failed)
  BY <1>4, BeginStep
<1> QED BY <1>2, <1>3, <1>4 DEF Save, Finish

LEMMA LoadStep ==
  ASSUME Shape, NEW t \in Tools, NEW accepted \in BOOLEAN, NEW field \in Fields, NEW x, NEW l,
         Load(t, accepted, field, x, l)
  PROVE  /\ Local(t) /\ files' = files
         /\ \/ accepted /\ pc'[t] = l /\ mem'[t] = [mem[t] EXCEPT ![field] = x]
            \/ pc'[t] = "exit1" /\ (mem'[t] = mem[t] \/ Marked(t))
<1>1. CASE accepted /\ Keep(t, field, x) /\ Go(t, l)
  <2>1. /\ mem' = [mem EXCEPT ![t] = [mem[t] EXCEPT ![field] = x]]
        /\ DOMAIN [mem[t] EXCEPT ![field] = x] = Fields
        /\ mem'[t] = [mem[t] EXCEPT ![field] = x]
    BY <1>1 DEF Keep, Shape
  <2> QED BY <1>1, <2>1, QuietStep DEF Load
<1>2. CASE Go(t, "exit1") /\ UNCHANGED mem
  BY <1>2, QuietStep DEF Load, Shape
<1>3. CASE Go(t, "exit1") /\ Faulty(t)
  BY <1>3, FaultyStep, QuietStep DEF Load
<1> QED BY <1>1, <1>2, <1>3 DEF Load

\* A run starts, with nothing in memory but what the program puts there.
LEMMA StartStep ==
  ASSUME Shape, NEW t \in Tools, NEW l, Start(t, l), files' = files,
         NEW r, DOMAIN r = Fields, mem' = [mem EXCEPT ![t] = r]
  PROVE  Local(t) /\ pc'[t] = l /\ mem'[t] = r
<1>1. Go(t, l)
  BY DEF Start
<1>2. mem'[t] = r
  BY DEF Shape
<1> QED BY <1>1, <1>2, QuietStep

LEMMA FreshFields == DOMAIN Fresh = Fields
  BY DEF Fresh, Fields

LEMMA Wholes ==
  /\ ~IsWhole(Short) /\ ~IsWhole(Absent) /\ ~IsWhole(None)
  /\ \A k, s : IsWhole(Whole(k, s)) /\ Whole(k, s).seed = s
<1>1. \A k, s : DOMAIN Whole(k, s) = {"kind", "seed"} /\ Whole(k, s).seed = s
  BY DEF Whole
<1>2. /\ DOMAIN Short = {"kind"} /\ DOMAIN Absent = {"kind"} /\ DOMAIN None = {"kind"}
  BY DEF Short, Absent, None
<1> QED BY <1>1, <1>2 DEF IsWhole

-----------------------------------------------------------------------------
(***************************************************************************)
(* sign_file and verify                                                    *)
(***************************************************************************)
LEMMA SignStep == IInv /\ Sign => IInv'
<1> SUFFICES ASSUME IInv, Sign PROVE IInv'
  OBVIOUS
<1> DEFINE t == "sign_file"
<1>0. /\ t \in Tools /\ Shape /\ SignInv /\ "app_sign" \in Owned[t]
      /\ {"seed", "msg"} \subseteq Fields /\ DOMAIN mem[t] = Fields
      /\ {"before", "clean", "seed", "msg"} \subseteq DOMAIN mem[t]
  BY DEF IInv, Tools, Owned, Fields, Shape
<1>1. CASE StartSign
  <2> DEFINE r == [Fresh EXCEPT !.before = files["app_sign"]]
  <2>1. DOMAIN r = Fields /\ r.before = files["app_sign"]
    BY FreshFields DEF Fresh
  <2>2. Start(t, "read_message") /\ files' = files /\ mem' = [mem EXCEPT ![t] = r]
    BY <1>1 DEF StartSign
  <2> HIDE DEF r
  <2>3. Local(t) /\ pc'[t] = "read_message" /\ mem'[t] = r
    BY <1>0, <2>1, <2>2, StartStep
  <2>4. SignInv'
    BY <2>1, <2>2, <2>3 DEF SignInv
  <2> QED BY <1>0, <2>3, <2>4, OwnStep
<1>2. CASE SignReadsMessage
  <2>1. Load(t, TRUE, "msg", message, "read_sk") /\ pc[t] = "read_message"
    BY <1>2 DEF SignReadsMessage, At
  <2>2. /\ Local(t) /\ files' = files
        /\ \/ pc'[t] = "read_sk" /\ mem'[t] = [mem[t] EXCEPT !["msg"] = message]
           \/ pc'[t] = "exit1" /\ (mem'[t] = mem[t] \/ Marked(t))
    BY <1>0, <2>1, LoadStep
  <2>3. mem'[t].before = mem[t].before
    BY <1>0, <2>2 DEF Marked
  <2>4. SignInv'
    BY <1>0, <2>1, <2>2, <2>3 DEF SignInv
  <2> QED BY <1>0, <2>2, <2>4, OwnStep
<1>3. ASSUME NEW f \in SKFILES, SignReadsKey(f) PROVE IInv'
  <2>1. Load(t, LongEnough(files[f]), "seed", files[f], "save") /\ pc[t] = "read_sk"
    BY <1>3 DEF SignReadsKey, At
  <2>2. LongEnough(files[f]) \in BOOLEAN
    BY DEF LongEnough, IsWhole
  <2>3. /\ Local(t) /\ files' = files
        /\ \/ /\ LongEnough(files[f]) /\ pc'[t] = "save"
              /\ mem'[t] = [mem[t] EXCEPT !["seed"] = files[f]]
           \/ pc'[t] = "exit1" /\ (mem'[t] = mem[t] \/ Marked(t))
    BY <1>0, <2>1, <2>2, LoadStep
  <2>4. mem'[t].before = mem[t].before /\ (pc'[t] = "save" => IsWhole(mem'[t].seed))
    BY <1>0, <2>3 DEF Marked, LongEnough
  <2>5. files'["app_sign"] = mem'[t].before
    BY <1>0, <2>1, <2>3, <2>4 DEF SignInv
  <2>6. pc'[t] \in {"save", "exit1"}
    BY <2>3
  <2>7. SignInv'
    BY <2>4, <2>5, <2>6 DEF SignInv
  <2> QED BY <1>0, <2>3, <2>7, OwnStep
<1>4. CASE SignSaves
  <2> DEFINE c == Signature(mem[t].seed, mem[t].msg)
  <2>1. Save(t, "app_sign", c, "exit0", "exit1") /\ pc[t] = "save"
    BY <1>4 DEF SignSaves, At
  <2> HIDE DEF c
  <2>2. /\ Local(t)
        /\ \/ Emptied(t, "app_sign")
           \/ files'["app_sign"] = c /\ pc'[t] = "exit0" /\ mem'[t] = mem[t]
           \/ pc'[t] = "exit0" /\ Marked(t) /\ mem'[t].clean = FALSE
           \/ /\ ~Opened(t, "app_sign") /\ files' = files /\ pc'[t] = "exit1"
              /\ Marked(t) /\ mem'[t].clean = FALSE
    BY <1>0, <2>1, SaveStep
  <2>3. mem'[t].before = mem[t].before
    BY <1>0, <2>2 DEF Marked, Emptied, Fields
  <2>4. SignInv'
    <3>1. CASE Emptied(t, "app_sign")
      <4>1. /\ pc'[t] = "save" /\ "app_sign" \in mem'[t].open
            /\ mem'[t].seed = mem[t].seed
        BY <2>1, <3>1 DEF Emptied, Fields
      <4> QED BY <1>0, <2>1, <4>1 DEF SignInv
    <3>2. CASE ~Emptied(t, "app_sign")
      BY <1>0, <2>1, <2>2, <2>3, <3>2 DEF SignInv, Opened, c
    <3> QED BY <3>1, <3>2
  <2> QED BY <1>0, <2>2, <2>4, OwnStep
<1> QED BY <1>1, <1>2, <1>3, <1>4 DEF Sign

LEMMA VerifyStep == IInv /\ Verify => IInv'
<1> SUFFICES ASSUME IInv, Verify PROVE IInv'
  OBVIOUS
<1>0. "verify" \in Tools /\ Shape /\ {"seed", "msg", "sig"} \subseteq Fields
      /\ \A f : LongEnough(files[f]) \in BOOLEAN
  BY DEF IInv, Tools, Fields, LongEnough, IsWhole
<1>1. SUFFICES Local("verify")
  BY <1>0, OwnStep
<1>2. CASE StartVerify
  BY <1>0, <1>2, StartStep, FreshFields DEF StartVerify
<1>3. CASE VerifyReadsMessage
  BY <1>0, <1>3, LoadStep DEF VerifyReadsMessage
<1>4. CASE VerifyReadsSignature
  BY <1>0, <1>4, LoadStep DEF VerifyReadsSignature
<1>5. CASE \E f \in PKFILES : VerifyReadsKey(f)
  BY <1>0, <1>5, LoadStep DEF VerifyReadsKey
<1>6. CASE Verdict
  BY <1>0, <1>6, QuietStep DEF Verdict, Shape
<1> QED BY <1>2, <1>3, <1>4, <1>5, <1>6 DEF Verify

-----------------------------------------------------------------------------
(***************************************************************************)
(* openssl_from_app                                                        *)
(***************************************************************************)
\* A file is written in full, or something fails.
LEMMA WriteStep ==
  ASSUME Shape, NEW t \in Tools, NEW f \in Owned[t], NEW c, NEW l,
         Put(f, c), Go(t, l), UNCHANGED mem
  PROVE  /\ Local(t) /\ pc'[t] = l /\ mem'[t] = mem[t] /\ files'[f] = c
         /\ \A g \in Files \ {f} : files'[g] = files[g]
<1>1. f \in Files
  BY OwnedFacts
<1>2. Local(t) /\ pc'[t] = l /\ \A g \in Files \ {f} : files'[g] = files[g]
  BY MoveStep DEF Shape
<1>3. files'[f] = c
  BY <1>1 DEF Put, Shape
<1> QED BY <1>2, <1>3

LEMMA FailedStep ==
  ASSUME Shape, NEW t \in Tools, NEW f \in Owned[t], NEW c, NEW l,
         files' = files \/ Put(f, c), Go(t, l), Faulty(t)
  PROVE  Local(t) /\ mem'[t].clean = FALSE /\ pc'[t] = l
<1> DEFINE r == [mem[t] EXCEPT !.clean = FALSE]
<1>1. mem' = [mem EXCEPT ![t] = r] /\ DOMAIN r = Fields /\ mem'[t].clean = FALSE
  BY FaultyStep
<1> HIDE DEF r
<1>2. Local(t) /\ pc'[t] = l
  BY <1>1, MoveStep
<1> QED BY <1>1, <1>2

LEMMA PrintedFacts ==
  /\ \A k, s : TextOf(Whole(k, s)) = Printed(s)
  /\ \A s : /\ Printed(s) # Absent
            /\ Printed(s)["seed"] = Whole("seed", s)
            /\ Printed(s)["priv"] = Whole("sk", s)
            /\ Printed(s)["pub"] = Whole("pk", s)
<1>1. \A k, s : TextOf(Whole(k, s)) = Printed(s)
  BY Wholes DEF TextOf, Printed
<1>2. Kind["seed"] = "seed" /\ Kind["priv"] = "sk" /\ Kind["pub"] = "pk"
  BY DEF Kind
<1>3. \A s : Printed(s) # Absent
  <2>1. \A s : DOMAIN Printed(s) = {"seed", "priv", "pub"} /\ DOMAIN Absent = {"kind"}
    BY DEF Printed, Absent
  <2> QED BY <2>1
<1> QED BY <1>1, <1>2, <1>3 DEF Printed

LEMMA FromAppStep == IInv /\ FromApp => IInv'
<1> SUFFICES ASSUME IInv, FromApp PROVE IInv'
  OBVIOUS
<1> DEFINE t == "openssl_from_app"
<1>0. /\ t \in Tools /\ Shape /\ FromAppInv /\ DOMAIN mem[t] = Fields
      /\ Owned[t] = {"openssl_app_key_pem", "openssl_appkey_dump", "openssl_app_pk_pem",
                     "openssl_app_seed", "openssl_app_sk", "openssl_app_pk"}
      /\ {"seed", "text", "clean"} \subseteq Fields /\ Owned[t] \subseteq Files
  BY OwnedFacts DEF IInv, Tools, Owned, Fields, Shape
<1>a. SUFFICES Local(t) /\ FromAppInv'
  BY <1>0, OwnStep
<1>b. ASSUME mem'[t].clean = FALSE PROVE FromAppInv'
  BY <1>b DEF FromAppInv
<1>c. ASSUME NEW f \in Owned[t], Emptied(t, f), \A g \in Files \ {f} : files'[g] = files[g],
             \/ f = "openssl_app_key_pem" /\ pc[t] = "genpkey"
             \/ f = "openssl_appkey_dump" /\ pc[t] = "dump"
             \/ f = "openssl_app_seed" /\ pc[t] = "seed"
             \/ f = "openssl_app_sk" /\ pc[t] = "priv"
             \/ f = "openssl_app_pk" /\ pc[t] = "pub"
      PROVE  FromAppInv'
  <2>1. /\ pc'[t] = pc[t] /\ mem'[t].seed = mem[t].seed /\ mem'[t].text = mem[t].text
        /\ mem'[t].clean = mem[t].clean
    BY <1>c DEF Emptied, Fields
  <2>2. \A g \in Owned[t] \ {f} : files'[g] = files[g]
    BY <1>0, <1>c
  <2> QED BY <1>0, <1>c, <2>1, <2>2 DEF FromAppInv
<1>1. CASE StartFromApp
  <2>1. Local(t) /\ pc'[t] = "read_seed"
    BY <1>0, <1>1, StartStep, FreshFields DEF StartFromApp
  <2> QED BY <2>1 DEF FromAppInv
<1>2. ASSUME NEW f, FromAppReadsSeed(f) PROVE Local(t) /\ FromAppInv'
  <2>1. LongEnough(files[f]) \in BOOLEAN
    BY DEF LongEnough, IsWhole
  <2>2. Load(t, LongEnough(files[f]), "seed", files[f], "genpkey")
    BY <1>2 DEF FromAppReadsSeed
  <2> DEFINE accepted == LongEnough(files[f])
             x == files[f]
  <2> HIDE DEF accepted, x
  <2>3. /\ Local(t)
        /\ \/ accepted /\ pc'[t] = "genpkey" /\ mem'[t] = [mem[t] EXCEPT !["seed"] = x]
           \/ pc'[t] = "exit1" /\ (mem'[t] = mem[t] \/ Marked(t))
    BY <1>0, <2>1, <2>2, LoadStep DEF accepted, x
  <2> QED BY <2>3 DEF FromAppInv
<1>3. CASE Genpkey
  <2> DEFINE f == "openssl_app_key_pem"
  <2>1. CASE Put(f, Whole("pem", mem[t].seed.seed)) /\ Go(t, "dump") /\ UNCHANGED mem
    <3>1. /\ Local(t) /\ pc'[t] = "dump" /\ mem'[t] = mem[t]
          /\ files'[f] = Whole("pem", mem[t].seed.seed)
      BY <1>0, <2>1, WriteStep
    <3> QED BY <3>1 DEF FromAppInv
  <2>2. ASSUME NEW l, Go(t, l), files' = files \/ Put(f, Short), Faulty(t)
        PROVE  Local(t) /\ FromAppInv'
    BY <1>0, <1>b, <2>2, FailedStep
  <2>3. CASE Begin(t, f, "exit1")
    <3>1. pc[t] = "genpkey"
      BY <1>3 DEF Genpkey, At
    <3> QED BY <1>0, <1>b, <1>c, <2>3, <3>1, BeginStep
  <2> QED BY <1>3, <2>1, <2>2, <2>3 DEF Genpkey, Finish
<1>4. CASE Dump
  <2> DEFINE f == "openssl_appkey_dump"
             pem == files["openssl_app_key_pem"]
  <2>1. CASE Put(f, TextOf(pem)) /\ Go(t, "pubout") /\ UNCHANGED mem
    <3>1. /\ Local(t) /\ pc'[t] = "pubout" /\ mem'[t] = mem[t] /\ files'[f] = TextOf(pem)
          /\ \A g \in Files \ {f} : files'[g] = files[g]
      BY <1>0, <2>1, WriteStep
    <3>2. pc[t] = "dump" /\ files'["openssl_app_key_pem"] = pem
      BY <1>0, <1>4, <3>1 DEF Dump, At
    <3> QED BY <1>0, <3>1, <3>2, PrintedFacts DEF FromAppInv
  <2>2. ASSUME NEW c, files' = files \/ Put(f, c), Go(t, "pubout"), Faulty(t)
        PROVE  Local(t) /\ FromAppInv'
    BY <1>0, <1>b, <2>2, FailedStep
  <2>3. CASE Begin(t, f, "pubout")
    <3>1. pc[t] = "dump"
      BY <1>4 DEF Dump, At
    <3> QED BY <1>0, <1>b, <1>c, <2>3, <3>1, BeginStep
  <2> QED BY <1>4, <2>1, <2>2, <2>3 DEF Dump
<1>5. CASE Pubout
  <2> DEFINE f == "openssl_app_pk_pem"
             pem == files["openssl_app_key_pem"]
  <2>1. CASE Put(f, Whole("pubpem", pem.seed)) /\ Go(t, "read_dump") /\ UNCHANGED mem
    <3>1. /\ Local(t) /\ pc'[t] = "read_dump" /\ mem'[t] = mem[t]
          /\ files'[f] = Whole("pubpem", pem.seed)
          /\ \A g \in Files \ {f} : files'[g] = files[g]
      BY <1>0, <2>1, WriteStep
    <3>2. /\ pc[t] = "pubout" /\ files'["openssl_app_key_pem"] = pem
          /\ files'["openssl_appkey_dump"] = files["openssl_appkey_dump"]
      BY <1>0, <1>5, <3>1 DEF Pubout, At
    <3> QED BY <1>0, <3>1, <3>2, Wholes DEF FromAppInv
  <2>2. CASE UNCHANGED <<files, mem>> /\ Go(t, "exit1")
    <3>1. Local(t) /\ pc'[t] = "exit1"
      BY <1>0, <2>2, QuietStep
    <3> QED BY <3>1 DEF FromAppInv
  <2>3. ASSUME NEW l, files' = files \/ Put(f, Short), Go(t, l), Faulty(t)
        PROVE  Local(t) /\ FromAppInv'
    BY <1>0, <1>b, <2>3, FailedStep
  <2> QED BY <1>5, <2>1, <2>2, <2>3 DEF Pubout
<1>6. CASE ReadDump
  <2> DEFINE dump == files["openssl_appkey_dump"]
  <2>1. CASE Keep(t, "text", dump) /\ Go(t, "seed")
    <3> DEFINE r == [mem[t] EXCEPT !["text"] = dump]
    <3>1. mem' = [mem EXCEPT ![t] = r] /\ DOMAIN r = Fields /\ files' = files
          /\ r.text = dump /\ r.seed = mem[t].seed /\ r.clean = mem[t].clean
          /\ pc[t] = "read_dump"
      BY <1>0, <1>6, <2>1 DEF Keep, ReadDump, At
    <3> HIDE DEF r
    <3>2. Local(t) /\ pc'[t] = "seed" /\ mem'[t] = r
      BY <1>0, <2>1, <3>1, QuietStep DEF Shape
    <3> QED BY <1>0, <3>1, <3>2 DEF FromAppInv
  <2>2. CASE dump = Absent /\ Go(t, "exit0") /\ UNCHANGED mem
    <3>1. files' = files /\ pc[t] = "read_dump"
      BY <1>6 DEF ReadDump, At
    <3>2. Local(t) /\ mem'[t] = mem[t]
      BY <1>0, <2>2, <3>1, QuietStep
    <3>3. mem[t].clean # TRUE
      BY <1>0, <2>2, <3>1, PrintedFacts DEF FromAppInv
    <3> QED BY <3>2, <3>3 DEF FromAppInv
  <2>3. CASE Go(t, "exit0") /\ Faulty(t)
    <3>1. files' = files
      BY <1>6 DEF ReadDump
    <3> QED BY <1>0, <1>b, <2>3, <3>1, FailedStep
  <2> QED BY <1>6, <2>1, <2>2, <2>3 DEF ReadDump
<1>7. ASSUME NEW l \in {"seed", "priv", "pub"}, SaveBlock(l) PROVE Local(t) /\ FromAppInv'
  <2> DEFINE c == mem[t].text[l]
             f == OutFiles[l]
             n == After(l)
  <2>1. /\ pc[t] = l /\ f \in Owned[t]
        /\ l = "seed" => f = "openssl_app_seed" /\ n = "priv"
        /\ l = "priv" => f = "openssl_app_sk" /\ n = "pub"
        /\ l = "pub" => f = "openssl_app_pk" /\ n = "exit0"
    BY <1>0, <1>7 DEF SaveBlock, At, OutFiles, After
  <2>2. /\ l = "seed" => Printed(mem[t].seed.seed)[l] = Whole("seed", mem[t].seed.seed)
        /\ l = "priv" => Printed(mem[t].seed.seed)[l] = Whole("sk", mem[t].seed.seed)
        /\ l = "pub" => Printed(mem[t].seed.seed)[l] = Whole("pk", mem[t].seed.seed)
    BY PrintedFacts
  <2>3. mem[t].clean = TRUE => mem[t].text = Printed(mem[t].seed.seed) /\ IsWhole(c)
    <3>1. mem[t].clean = TRUE => mem[t].text = Printed(mem[t].seed.seed)
      BY <1>0, <2>1 DEF FromAppInv
    <3> QED BY <2>2, <3>1, Wholes
  <2>6. Save(t, f, c, n, n) \/ (~IsWhole(c) /\ Go(t, n) /\ UNCHANGED <<files, mem>>)
    BY <1>7 DEF SaveBlock
  <2> HIDE DEF f, n, c
  <2>4. CASE Save(t, f, c, n, n)
    <3>1. /\ Local(t) /\ \A g \in Files \ {f} : files'[g] = files[g]
          /\ \/ Emptied(t, f)
             \/ files'[f] = c /\ pc'[t] = n /\ mem'[t] = mem[t]
             \/ mem'[t].clean = FALSE
      BY <1>0, <2>1, <2>4, SaveStep
    <3>2. CASE files'[f] = c /\ pc'[t] = n /\ mem'[t] = mem[t]
      <4>1. mem'[t].clean = TRUE =>
              /\ pc'[t] \in {"priv", "pub"} => mem'[t].text = Printed(mem'[t].seed.seed)
              /\ files'["openssl_app_key_pem"] = Whole("pem", mem'[t].seed.seed)
              /\ files'["openssl_app_pk_pem"] = Whole("pubpem", mem'[t].seed.seed)
        BY <1>0, <2>1, <2>3, <3>1, <3>2 DEF FromAppInv
      <4>2. mem'[t].clean = TRUE =>
              /\ pc'[t] \in {"priv", "pub", "exit0"} =>
                   files'["openssl_app_seed"] = Whole("seed", mem'[t].seed.seed)
              /\ pc'[t] \in {"pub", "exit0"} =>
                   files'["openssl_app_sk"] = Whole("sk", mem'[t].seed.seed)
              /\ pc'[t] = "exit0" => files'["openssl_app_pk"] = Whole("pk", mem'[t].seed.seed)
        BY <1>0, <2>1, <2>2, <2>3, <3>1, <3>2 DEF FromAppInv, c
      <4>3. pc'[t] \in {"priv", "pub", "exit0"}
        BY <2>1, <3>2
      <4> QED BY <3>1, <4>1, <4>2, <4>3 DEF FromAppInv
    <3>3. CASE Emptied(t, f)
      BY <1>c, <2>1, <3>1, <3>3
    <3> QED BY <1>b, <3>1, <3>2, <3>3
  <2>5. CASE ~IsWhole(c) /\ Go(t, n) /\ UNCHANGED <<files, mem>>
    <3>1. Local(t) /\ mem'[t] = mem[t]
      BY <1>0, <2>5, QuietStep
    <3> QED BY <2>3, <2>5, <3>1 DEF FromAppInv
  <2> QED BY <2>4, <2>5, <2>6
<1> QED BY <1>1, <1>2, <1>3, <1>4, <1>5, <1>6, <1>7 DEF FromApp

-----------------------------------------------------------------------------
(***************************************************************************)
(* app_from_openssl                                                        *)
(***************************************************************************)
\* A file of the conversion is written, or opened, or something fails.
LEMMA ConvertStep ==
  ASSUME Shape, FromOpensslInv, NEW f \in Owned["app_from_openssl"], NEW c, NEW l, NEW failed,
         Save("app_from_openssl", f, c, l, failed),
         \/ f = "app_openssl_pem_dump"
         \/ f = "app_openssl_seed" /\ pc["app_from_openssl"] = "seed"
         \/ f = "app_openssl_seed_hex" /\ pc["app_from_openssl"] = "hex"
         \/ f = "app_openssl_sk" /\ pc["app_from_openssl"] = "priv"
         \/ f = "app_openssl_pk" /\ pc["app_from_openssl"] = "pub"
  PROVE  /\ Local("app_from_openssl") /\ \A g \in Files \ {f} : files'[g] = files[g]
         /\ \/ /\ files'[f] = c /\ pc'["app_from_openssl"] = l
               /\ mem'["app_from_openssl"] = mem["app_from_openssl"]
            \/ FromOpensslInv'
<1> DEFINE t == "app_from_openssl"
<1>1. t \in Tools
  BY DEF Tools
<1>2. /\ Local(t) /\ \A g \in Files \ {f} : files'[g] = files[g]
      /\ \/ files'[f] = c /\ pc'[t] = l /\ mem'[t] = mem[t]
         \/ mem'[t].clean = FALSE
         \/ Emptied(t, f)
  BY <1>1, SaveStep
<1>3. mem'[t].clean = FALSE => FromOpensslInv'
  BY DEF FromOpensslInv
<1>4. CASE Emptied(t, f)
  <2>1. /\ pc'[t] = pc[t] /\ mem'[t].text = mem[t].text /\ mem'[t].clean = mem[t].clean
    BY <1>4 DEF Emptied, Fields
  <2>2. Owned[t] = {"app_openssl_pem_dump", "app_openssl_seed", "app_openssl_seed_hex",
                    "app_openssl_sk", "app_openssl_pk"} /\ Owned[t] \subseteq Files
    BY <1>1, OwnedFacts DEF Owned
  <2>3. \A g \in Owned[t] \ {f} : files'[g] = files[g]
    BY <1>2, <2>2
  <2>4. FromOpensslInv'
    BY <2>1, <2>2, <2>3 DEF FromOpensslInv
  <2> QED BY <1>2, <2>4
<1> QED BY <1>2, <1>3, <1>4

LEMMA FromOpensslStep == IInv /\ FromOpenssl => IInv'
<1> SUFFICES ASSUME IInv, FromOpenssl PROVE IInv'
  OBVIOUS
<1> DEFINE t == "app_from_openssl"
           s == mem[t].text["priv"].seed
<1>0. /\ t \in Tools /\ Shape /\ FromOpensslInv /\ DOMAIN mem[t] = Fields
      /\ Owned[t] = {"app_openssl_pem_dump", "app_openssl_seed", "app_openssl_seed_hex",
                     "app_openssl_sk", "app_openssl_pk"}
      /\ {"seed", "text", "clean"} \subseteq Fields /\ Owned[t] \subseteq Files
  BY OwnedFacts DEF IInv, Tools, Owned, Fields, Shape
<1>a. SUFFICES Local(t) /\ FromOpensslInv'
  BY <1>0, OwnStep
<1>b. ASSUME mem'[t].clean = FALSE PROVE FromOpensslInv'
  BY <1>b DEF FromOpensslInv
<1>c. ASSUME NEW l, Skip(l), mem[t].clean # TRUE \/ l = "exit1" PROVE Local(t) /\ FromOpensslInv'
  <2>1. Local(t) /\ mem'[t] = mem[t] /\ pc'[t] = l
    BY <1>0, <1>c, QuietStep DEF Skip
  <2> QED BY <1>c, <2>1 DEF FromOpensslInv
<1>d. /\ Printed(s)["seed"] = Whole("seed", s)
      /\ Printed(s)["priv"] = Whole("sk", s)
      /\ Printed(s)["pub"] = Whole("pk", s)
      /\ \A k : IsWhole(Whole(k, s)) /\ Whole(k, s).seed = s
      /\ ~IsWhole(Short) /\ ~IsWhole(Absent)
  BY PrintedFacts, Wholes
<1>e. pc[t] \in {"save_dump", "seed", "hex", "priv", "pub"} /\ mem[t].clean = TRUE
        => mem[t].text = Printed(s)
  BY <1>0 DEF FromOpensslInv
<1>1. CASE StartFromOpenssl
  <2>1. Local(t) /\ pc'[t] = "dump"
    BY <1>0, <1>1, StartStep, FreshFields DEF StartFromOpenssl
  <2> QED BY <2>1 DEF FromOpensslInv
<1>2. ASSUME NEW f, ReadPem(f) PROVE Local(t) /\ FromOpensslInv'
  <2>1. files' = files
    BY <1>2 DEF ReadPem
  <2>2. ASSUME NEW l, Go(t, l), Keep(t, "text", TextOf(files[f])),
               l = IF IsWhole(files[f]) THEN "save_dump" ELSE "exit1"
        PROVE  Local(t) /\ FromOpensslInv'
    <3> DEFINE r == [mem[t] EXCEPT !["text"] = TextOf(files[f])]
    <3>1. /\ mem' = [mem EXCEPT ![t] = r] /\ DOMAIN r = Fields
          /\ r.text = TextOf(files[f])
      BY <1>0, <2>2 DEF Keep
    <3> HIDE DEF r
    <3>2. Local(t) /\ pc'[t] = l /\ mem'[t] = r
      BY <1>0, <2>1, <2>2, <3>1, QuietStep DEF Shape
    <3>3. IsWhole(files[f]) => r.text = Printed(files[f].seed)
      BY <3>1 DEF TextOf, Printed
    <3>4. IsWhole(files[f]) => r.text["priv"].seed = files[f].seed
      BY <3>3, PrintedFacts, Wholes
    <3>5. CASE IsWhole(files[f])
      BY <2>2, <3>2, <3>3, <3>4, <3>5 DEF FromOpensslInv
    <3>6. CASE ~IsWhole(files[f])
      BY <2>2, <3>2, <3>6 DEF FromOpensslInv
    <3> QED BY <3>5, <3>6
  <2>3. ASSUME NEW l, Go(t, l), NEW cut,
               mem' = [mem EXCEPT ![t].text = cut, ![t].clean = FALSE]
        PROVE  Local(t) /\ FromOpensslInv'
    <3> DEFINE r == [[mem[t] EXCEPT !.text = cut] EXCEPT !.clean = FALSE]
    <3>1. mem' = [mem EXCEPT ![t] = r] /\ DOMAIN r = Fields /\ r.clean = FALSE
      BY <1>0, <2>3 DEF Shape
    <3> HIDE DEF r
    <3>2. Local(t) /\ mem'[t] = r
      BY <1>0, <2>1, <2>3, <3>1, QuietStep DEF Shape
    <3> QED BY <1>b, <3>1, <3>2
  <2> QED BY <1>2, <2>2, <2>3 DEF ReadPem
<1>3. CASE SaveDump
  <2>1. /\ pc[t] = "save_dump"
        /\ Save(t, "app_openssl_pem_dump", mem[t].text, "seed", "seed")
    BY <1>3 DEF SaveDump, At
  <2>2. /\ Local(t)
        /\ \/ pc'[t] = "seed" /\ mem'[t] = mem[t]
           \/ FromOpensslInv'
    BY <1>0, <2>1, ConvertStep
  <2> QED BY <1>0, <1>e, <2>1, <2>2 DEF FromOpensslInv
<1>4. CASE At(t, "seed") /\ ConvertSeed
  <2> DEFINE f == "app_openssl_seed"
             c == IF Block("seed") = Short THEN Whole("seed", "padded") ELSE Block("seed")
  <2>1. pc[t] = "seed" /\ (mem[t].clean = TRUE => Block("seed") = Whole("seed", s))
    BY <1>4, <1>d, <1>e DEF At, Block
  <2>2. mem[t].clean = TRUE => Block("seed") # Absent /\ c = Whole("seed", s)
    BY <1>d, <2>1
  <2>3. (Skip("priv") /\ Block("seed") = Absent) \/ Skip("exit1") \/ Save(t, f, c, "hex", "hex")
    BY <1>4 DEF ConvertSeed, At
  <2> HIDE DEF c
  <2>4. CASE Save(t, f, c, "hex", "hex")
    <3>1. /\ Local(t)
          /\ \/ files'[f] = c /\ pc'[t] = "hex" /\ mem'[t] = mem[t]
             \/ FromOpensslInv'
      BY <1>0, <2>1, <2>4, ConvertStep
    <3> QED BY <1>0, <1>e, <2>1, <2>2, <3>1 DEF FromOpensslInv
  <2> QED BY <1>c, <2>2, <2>3, <2>4
<1>5. CASE At(t, "hex") /\ ConvertSeed
  <2> DEFINE f == "app_openssl_seed_hex"
             c == IF Block("seed") = Short THEN Short ELSE Whole("seedhex", Block("seed").seed)
  <2>1. pc[t] = "hex" /\ (mem[t].clean = TRUE => Block("seed") = Whole("seed", s))
    BY <1>5, <1>d, <1>e DEF At, Block
  <2>2. mem[t].clean = TRUE => c = Whole("seedhex", s)
    BY <1>d, <2>1
  <2>3. Save(t, f, c, "priv", "priv")
    BY <1>5 DEF ConvertSeed, At
  <2> HIDE DEF c
  <2>4. /\ Local(t) /\ \A g \in Files \ {f} : files'[g] = files[g]
        /\ \/ files'[f] = c /\ pc'[t] = "priv" /\ mem'[t] = mem[t]
           \/ FromOpensslInv'
    BY <1>0, <2>1, <2>3, ConvertStep
  <2> QED BY <1>0, <1>e, <2>1, <2>2, <2>4 DEF FromOpensslInv
<1>6. CASE ConvertPriv
  <2> DEFINE f == "app_openssl_sk"
             c == Block("priv")
  <2>1. pc[t] = "priv" /\ (mem[t].clean = TRUE => c = Whole("sk", s) /\ IsWhole(c))
    BY <1>6, <1>d, <1>e DEF At, Block, ConvertPriv, Odd
  <2>2. (Skip("pub") /\ ~IsWhole(c)) \/ Skip("exit1") \/ Save(t, f, c, "pub", "pub")
    BY <1>6 DEF ConvertPriv
  <2> HIDE DEF c
  <2>3. CASE Save(t, f, c, "pub", "pub")
    <3>1. /\ Local(t) /\ \A g \in Files \ {f} : files'[g] = files[g]
          /\ \/ files'[f] = c /\ pc'[t] = "pub" /\ mem'[t] = mem[t]
             \/ FromOpensslInv'
      BY <1>0, <2>1, <2>3, ConvertStep
    <3> QED BY <1>0, <1>e, <2>1, <3>1 DEF FromOpensslInv
  <2> QED BY <1>c, <2>1, <2>2, <2>3
<1>7. CASE ConvertPub
  <2> DEFINE f == "app_openssl_pk"
             c == Block("pub")
  <2>1. pc[t] = "pub" /\ (mem[t].clean = TRUE => c = Whole("pk", s) /\ c # Absent)
    BY <1>7, <1>d, <1>e DEF At, Block, ConvertPub
  <2>2. (Skip("exit0") /\ c = Absent) \/ Skip("exit1") \/ Save(t, f, c, "exit0", "exit0")
    BY <1>7 DEF ConvertPub
  <2> HIDE DEF c
  <2>3. CASE Save(t, f, c, "exit0", "exit0")
    <3>1. /\ Local(t) /\ \A g \in Files \ {f} : files'[g] = files[g]
          /\ \/ files'[f] = c /\ pc'[t] = "exit0" /\ mem'[t] = mem[t]
             \/ FromOpensslInv'
      BY <1>0, <2>1, <2>3, ConvertStep
    <3> QED BY <1>0, <1>e, <2>1, <3>1 DEF FromOpensslInv
  <2> QED BY <1>c, <2>1, <2>2, <2>3
<1>8. ConvertSeed => At(t, "seed") \/ At(t, "hex")
  BY DEF ConvertSeed
<1> QED BY <1>1, <1>2, <1>3, <1>4, <1>5, <1>6, <1>7, <1>8 DEF FromOpenssl

-----------------------------------------------------------------------------
(***************************************************************************)
(* genkey                                                                  *)
(***************************************************************************)
LEMMA StoreStep ==
  ASSUME Shape, NEW t \in Tools, NEW f \in Owned[t], NEW c, NEW l, Put(f, c), Go(t, l),
         NEW r, DOMAIN r = Fields, mem' = [mem EXCEPT ![t] = r]
  PROVE  Local(t) /\ pc'[t] = l /\ \A g \in Files \ {f} : files'[g] = files[g]
  BY MoveStep

\* Opening a file empties it, or fails and leaves genkey without it.
LEMMA OpenStep ==
  ASSUME Shape, NEW f \in Owned["genkey"], NEW l, Open(f, l)
  PROVE  /\ Local("genkey") /\ pc'["genkey"] = l
         /\ mem'["genkey"].seed = mem["genkey"].seed
         /\ \A g \in Files \ {f} : files'[g] = files[g]
         /\ \/ /\ files'[f] = Short /\ mem'["genkey"].clean = mem["genkey"].clean
               /\ mem'["genkey"].open = mem["genkey"].open \cup {f}
            \/ /\ files'[f] = files[f] /\ mem'["genkey"].clean = FALSE
               /\ mem'["genkey"].open = mem["genkey"].open
<1> DEFINE t == "genkey"
<1>1. f \in Files /\ t \in Tools /\ DOMAIN mem[t] = Fields
  BY OwnedFacts DEF Tools, Shape
<1>2. CASE Put(f, Short) /\ mem' = [mem EXCEPT ![t].open = @ \cup {f}]
  <2> DEFINE r == [mem[t] EXCEPT !.open = @ \cup {f}]
  <2>1. /\ mem' = [mem EXCEPT ![t] = r] /\ DOMAIN r = Fields /\ mem'[t] = r
        /\ r.open = mem[t].open \cup {f} /\ r.seed = mem[t].seed /\ r.clean = mem[t].clean
    BY <1>1, <1>2 DEF Shape, Fields
  <2> HIDE DEF r
  <2>2. Local(t) /\ pc'[t] = l /\ \A g \in Files \ {f} : files'[g] = files[g]
    <3>1. Go(t, l) /\ Put(f, Short) /\ f \in Owned[t]
      BY <1>2 DEF Open
    <3>2. mem' = [mem EXCEPT ![t] = r] /\ DOMAIN r = Fields /\ t \in Tools
      BY <1>1, <2>1
    <3> QED BY <3>1, <3>2, StoreStep
  <2>3. files'[f] = Short
    BY <1>1, <1>2 DEF Put, Shape
  <2> QED BY <2>1, <2>2, <2>3
<1>3. CASE UNCHANGED files /\ Faulty(t)
  <2>1. Local(t) /\ pc'[t] = l /\ mem'[t].clean = FALSE
    BY <1>1, <1>3, FailedStep DEF Open
  <2>2. mem'[t].seed = mem[t].seed /\ mem'[t].open = mem[t].open
    BY <1>1, <1>3, FaultyStep DEF Marked, Fields
  <2> QED BY <1>3, <2>1, <2>2
<1> QED BY <1>2, <1>3 DEF Open

\* Closing it puts the whole content there, or less.
LEMMA CloseStep ==
  ASSUME Shape, NEW f \in Owned["genkey"], NEW kind, NEW l, Close(f, kind, l)
  PROVE  /\ Local("genkey") /\ pc'["genkey"] = l
         /\ mem'["genkey"].seed = mem["genkey"].seed
         /\ mem'["genkey"].open = mem["genkey"].open
         /\ \A g \in Files \ {f} : files'[g] = files[g]
         /\ \/ /\ files'[f] = Whole(kind, mem["genkey"].seed)
               /\ mem'["genkey"].clean = mem["genkey"].clean
            \/ files'[f] = Short /\ mem'["genkey"].clean = FALSE
<1> DEFINE t == "genkey"
           c == Whole(kind, mem[t].seed)
<1>1. f \in Files /\ t \in Tools /\ DOMAIN mem[t] = Fields
  BY OwnedFacts DEF Tools, Shape
<1>2. CASE Put(f, c) /\ UNCHANGED mem
  <2>1. Go(t, l)
    BY DEF Close
  <2> HIDE DEF c
  <2>2. Local(t) /\ pc'[t] = l /\ files'[f] = c /\ \A g \in Files \ {f} : files'[g] = files[g]
    BY <1>1, <1>2, <2>1, WriteStep
  <2> QED BY <1>2, <2>2 DEF c
<1>3. CASE Put(f, Short) /\ Faulty(t)
  <2> DEFINE r == [mem[t] EXCEPT !.clean = FALSE]
  <2>1. /\ mem' = [mem EXCEPT ![t] = r] /\ DOMAIN r = Fields /\ mem'[t] = r
        /\ r.clean = FALSE /\ r.seed = mem[t].seed /\ r.open = mem[t].open
    BY <1>1, <1>3, FaultyStep DEF Marked, Fields
  <2> HIDE DEF r
  <2>2. Local(t) /\ pc'[t] = l /\ \A g \in Files \ {f} : files'[g] = files[g]
    <3>1. Go(t, l) /\ Put(f, Short) /\ f \in Owned[t]
      BY <1>3 DEF Close
    <3> QED BY <1>1, <2>1, <3>1, StoreStep, ZenonT(60)
  <2>3. files'[f] = Short
    BY <1>1, <1>3 DEF Put, Shape
  <2> QED BY <2>1, <2>2, <2>3
<1> QED BY <1>2, <1>3 DEF Close

LEMMA GenkeyStep == IInv /\ Genkey => IInv'
<1> SUFFICES ASSUME IInv, Genkey PROVE IInv'
  OBVIOUS
<1> DEFINE t == "genkey"
<1>0. /\ t \in Tools /\ Shape /\ PairInv /\ GenkeyInv
      /\ Owned[t] = {"app_pk", "app_sk", "app_seed", "app_seed_hex"} /\ Owned[t] \subseteq Files
      /\ ~IsWhole(Short)
      /\ \A k, s : Whole(k, s).seed = s
  BY OwnedFacts, Wholes DEF IInv, Tools, Owned
<1>a. SUFFICES Local(t) /\ PairInv' /\ GenkeyInv'
  BY <1>0, OwnStep
<1>c. /\ "app_pk" \in Owned[t] /\ "app_sk" \in Owned[t]
      /\ "app_seed" \in Owned[t] /\ "app_seed_hex" \in Owned[t]
      /\ "app_pk" \in Files /\ "app_sk" \in Files
      /\ "app_seed" \in Files /\ "app_seed_hex" \in Files
  BY <1>0
<1>1. CASE StartGenkey
  <2>1. PICK s \in SEEDS : mem' = [mem EXCEPT ![t] = [Fresh EXCEPT !.seed = s]]
    BY <1>1 DEF StartGenkey
  <2> DEFINE r == [Fresh EXCEPT !.seed = s]
  <2>2. DOMAIN r = Fields /\ r.open = {}
    BY FreshFields DEF Fresh
  <2>3. Start(t, "open_pk") /\ files' = files
    BY <1>1 DEF StartGenkey
  <2> HIDE DEF r
  <2>4. Local(t) /\ pc'[t] = "open_pk" /\ mem'[t] = r
    BY <1>0, <2>1, <2>2, <2>3, StartStep DEF r
  <2>5. PairInv'
    BY <1>0, <2>2, <2>3, <2>4 DEF PairInv, OpenInv, PairMatches, At
  <2>6. GenkeyInv'
    BY <2>4 DEF GenkeyInv
  <2> QED BY <2>4, <2>5, <2>6
<1>2. CASE At(t, "open_pk") /\ Open("app_pk", "open_sk")
  <2>1. /\ Local(t) /\ pc'[t] = "open_sk" /\ files'["app_sk"] = files["app_sk"]
        /\ \/ files'["app_pk"] = Short /\ mem'[t].open = mem[t].open \cup {"app_pk"}
           \/ files'["app_pk"] = files["app_pk"] /\ mem'[t].open = mem[t].open
    <3>1. /\ Local(t) /\ pc'[t] = "open_sk" /\ mem'[t].seed = mem[t].seed
          /\ \A g \in Files \ {"app_pk"} : files'[g] = files[g]
          /\ \/ /\ files'["app_pk"] = Short /\ mem'[t].clean = mem[t].clean
                /\ mem'[t].open = mem[t].open \cup {"app_pk"}
             \/ /\ files'["app_pk"] = files["app_pk"] /\ mem'[t].clean = FALSE
                /\ mem'[t].open = mem[t].open
      BY <1>0, <1>c, <1>2, OpenStep
    <3> QED BY <1>c, <3>1
  <2>2. PairInv'
    BY <1>0, <1>2, <2>1 DEF PairInv, OpenInv, PairMatches, At
  <2>3. GenkeyInv'
    BY <2>1 DEF GenkeyInv
  <2> QED BY <2>1, <2>2, <2>3
<1>3. CASE At(t, "open_sk") /\ Open("app_sk", "close_pk")
  <2>1. /\ Local(t) /\ pc'[t] = "close_pk" /\ files'["app_pk"] = files["app_pk"]
        /\ \/ files'["app_sk"] = Short /\ mem'[t].open = mem[t].open \cup {"app_sk"}
           \/ files'["app_sk"] = files["app_sk"] /\ mem'[t].open = mem[t].open
    <3>1. /\ Local(t) /\ pc'[t] = "close_pk" /\ mem'[t].seed = mem[t].seed
          /\ \A g \in Files \ {"app_sk"} : files'[g] = files[g]
          /\ \/ /\ files'["app_sk"] = Short /\ mem'[t].clean = mem[t].clean
                /\ mem'[t].open = mem[t].open \cup {"app_sk"}
             \/ /\ files'["app_sk"] = files["app_sk"] /\ mem'[t].clean = FALSE
                /\ mem'[t].open = mem[t].open
      BY <1>0, <1>c, <1>3, OpenStep
    <3> QED BY <1>c, <3>1
  <2>2. PairInv'
    BY <1>0, <1>3, <2>1 DEF PairInv, OpenInv, PairMatches, At
  <2>3. GenkeyInv'
    BY <2>1 DEF GenkeyInv
  <2> QED BY <2>1, <2>2, <2>3
<1>4. CASE At(t, "close_pk") /\ Unwritten("exit1")
  <2>1. Local(t) /\ pc'[t] = "exit1" /\ files' = files
    BY <1>0, <1>4, QuietStep DEF Unwritten, Shape
  <2>2. PairInv'
    BY <1>0, <2>1 DEF PairInv, OpenInv, PairMatches, At
  <2>3. GenkeyInv'
    BY <2>1 DEF GenkeyInv
  <2> QED BY <2>1, <2>2, <2>3
<1>5. CASE /\ At(t, "close_pk") /\ BothOpen("app_pk", "app_sk")
           /\ Close("app_pk", "pk", "close_sk")
  <2>1. files["app_sk"] = Short
    BY <1>0, <1>5 DEF PairInv, OpenInv, BothOpen
  <2>2. /\ Local(t) /\ pc'[t] = "close_sk" /\ files'["app_sk"] = Short
        /\ mem'[t].seed = mem[t].seed
        /\ \/ /\ files'["app_pk"] = Whole("pk", mem[t].seed)
              /\ mem'[t].clean = mem[t].clean
           \/ files'["app_pk"] = Short /\ mem'[t].clean = FALSE
    <3>1. /\ Local(t) /\ pc'[t] = "close_sk" /\ mem'[t].seed = mem[t].seed
          /\ \A g \in Files \ {"app_pk"} : files'[g] = files[g]
          /\ \/ /\ files'["app_pk"] = Whole("pk", mem[t].seed)
                /\ mem'[t].clean = mem[t].clean
             \/ files'["app_pk"] = Short /\ mem'[t].clean = FALSE
      BY <1>0, <1>c, <1>5, CloseStep
    <3> QED BY <1>c, <2>1, <3>1
  <2>3. PairInv'
    BY <1>0, <2>2 DEF PairInv, OpenInv, PairMatches, At
  <2>4. GenkeyInv'
    BY <2>2 DEF GenkeyInv
  <2> QED BY <2>2, <2>3, <2>4
<1>6. CASE At(t, "close_sk") /\ Close("app_sk", "sk", "open_seed")
  <2>1. /\ Local(t) /\ pc'[t] = "open_seed" /\ files'["app_pk"] = files["app_pk"]
        /\ mem'[t].seed = mem[t].seed
        /\ \/ /\ files'["app_sk"] = Whole("sk", mem[t].seed)
              /\ mem'[t].clean = mem[t].clean
           \/ files'["app_sk"] = Short /\ mem'[t].clean = FALSE
    <3>1. /\ Local(t) /\ pc'[t] = "open_seed" /\ mem'[t].seed = mem[t].seed
          /\ \A g \in Files \ {"app_sk"} : files'[g] = files[g]
          /\ \/ /\ files'["app_sk"] = Whole("sk", mem[t].seed)
                /\ mem'[t].clean = mem[t].clean
             \/ files'["app_sk"] = Short /\ mem'[t].clean = FALSE
      BY <1>0, <1>c, <1>6, CloseStep
    <3> QED BY <1>c, <3>1
  <2>2. PairInv'
    BY <1>0, <1>6, <2>1 DEF PairInv, OpenInv, PairMatches, At
  <2>3. GenkeyInv'
    BY <1>0, <1>6, <2>1 DEF GenkeyInv, At
  <2> QED BY <2>1, <2>2, <2>3
\* The seed files: the key files are left alone.
<1>b. ASSUME Local(t), pc'[t] \in {"open_hex", "close_seed", "close_hex", "exit0"},
             files'["app_pk"] = files["app_pk"], files'["app_sk"] = files["app_sk"]
      PROVE  PairInv'
  BY <1>0, <1>b DEF PairInv, OpenInv, PairMatches, At
<1>7. CASE At(t, "open_seed") /\ Open("app_seed", "open_hex")
  <2>1. /\ Local(t) /\ pc'[t] = "open_hex" /\ mem'[t].seed = mem[t].seed
        /\ files'["app_pk"] = files["app_pk"] /\ files'["app_sk"] = files["app_sk"]
        /\ \/ mem'[t].clean = mem[t].clean /\ mem'[t].open = mem[t].open \cup {"app_seed"}
           \/ mem'[t].clean = FALSE
    <3>1. /\ Local(t) /\ pc'[t] = "open_hex" /\ mem'[t].seed = mem[t].seed
          /\ \A g \in Files \ {"app_seed"} : files'[g] = files[g]
          /\ \/ /\ files'["app_seed"] = Short /\ mem'[t].clean = mem[t].clean
                /\ mem'[t].open = mem[t].open \cup {"app_seed"}
             \/ /\ files'["app_seed"] = files["app_seed"] /\ mem'[t].clean = FALSE
                /\ mem'[t].open = mem[t].open
      BY <1>0, <1>c, <1>7, OpenStep
    <3> QED BY <1>c, <3>1
  <2>2. GenkeyInv'
    BY <1>0, <1>7, <2>1 DEF GenkeyInv, At
  <2> QED BY <1>b, <2>1, <2>2
<1>8. CASE At(t, "open_hex") /\ Open("app_seed_hex", "close_seed")
  <2>1. /\ Local(t) /\ pc'[t] = "close_seed" /\ mem'[t].seed = mem[t].seed
        /\ files'["app_pk"] = files["app_pk"] /\ files'["app_sk"] = files["app_sk"]
        /\ \/ mem'[t].clean = mem[t].clean /\ mem'[t].open = mem[t].open \cup {"app_seed_hex"}
           \/ mem'[t].clean = FALSE
    <3>1. /\ Local(t) /\ pc'[t] = "close_seed" /\ mem'[t].seed = mem[t].seed
          /\ \A g \in Files \ {"app_seed_hex"} : files'[g] = files[g]
          /\ \/ /\ files'["app_seed_hex"] = Short /\ mem'[t].clean = mem[t].clean
                /\ mem'[t].open = mem[t].open \cup {"app_seed_hex"}
             \/ /\ files'["app_seed_hex"] = files["app_seed_hex"] /\ mem'[t].clean = FALSE
                /\ mem'[t].open = mem[t].open
      BY <1>0, <1>c, <1>8, OpenStep
    <3> QED BY <1>c, <3>1
  <2>2. GenkeyInv'
    BY <1>0, <1>8, <2>1 DEF GenkeyInv, At
  <2> QED BY <1>b, <2>1, <2>2
<1>9. CASE At(t, "close_seed") /\ Close("app_seed", "seed", "close_hex")
  <2>1. /\ Local(t) /\ pc'[t] = "close_hex" /\ mem'[t].seed = mem[t].seed
        /\ files'["app_pk"] = files["app_pk"] /\ files'["app_sk"] = files["app_sk"]
        /\ \/ /\ mem'[t].clean = mem[t].clean
              /\ files'["app_seed"] = Whole("seed", mem[t].seed)
           \/ mem'[t].clean = FALSE
    <3>1. /\ Local(t) /\ pc'[t] = "close_hex" /\ mem'[t].seed = mem[t].seed
          /\ \A g \in Files \ {"app_seed"} : files'[g] = files[g]
          /\ \/ /\ files'["app_seed"] = Whole("seed", mem[t].seed)
                /\ mem'[t].clean = mem[t].clean
             \/ files'["app_seed"] = Short /\ mem'[t].clean = FALSE
      BY <1>0, <1>c, <1>9, CloseStep
    <3> QED BY <1>c, <3>1
  <2>2. GenkeyInv'
    BY <1>0, <1>9, <2>1 DEF GenkeyInv, At
  <2> QED BY <1>b, <2>1, <2>2
<1>10. CASE At(t, "close_seed") /\ ~BothOpen("app_seed", "app_seed_hex") /\ Unwritten("exit0")
  <2>1. Local(t) /\ pc'[t] = "exit0" /\ files' = files /\ mem' = mem
    BY <1>0, <1>10, QuietStep DEF Unwritten, Shape
  <2>2. mem[t].clean # TRUE
    BY <1>0, <1>10 DEF GenkeyInv, BothOpen, At
  <2>3. GenkeyInv'
    BY <2>1, <2>2 DEF GenkeyInv
  <2> QED BY <1>b, <2>1, <2>3
<1>11. CASE At(t, "close_hex") /\ Close("app_seed_hex", "seedhex", "exit0")
  <2>1. /\ Local(t) /\ pc'[t] = "exit0" /\ mem'[t].seed = mem[t].seed
        /\ files'["app_pk"] = files["app_pk"] /\ files'["app_sk"] = files["app_sk"]
        /\ files'["app_seed"] = files["app_seed"]
        /\ \/ /\ mem'[t].clean = mem[t].clean
              /\ files'["app_seed_hex"] = Whole("seedhex", mem[t].seed)
           \/ mem'[t].clean = FALSE
    <3>1. /\ Local(t) /\ pc'[t] = "exit0" /\ mem'[t].seed = mem[t].seed
          /\ \A g \in Files \ {"app_seed_hex"} : files'[g] = files[g]
          /\ \/ /\ files'["app_seed_hex"] = Whole("seedhex", mem[t].seed)
                /\ mem'[t].clean = mem[t].clean
             \/ files'["app_seed_hex"] = Short /\ mem'[t].clean = FALSE
      BY <1>0, <1>c, <1>11, CloseStep
    <3> QED BY <1>c, <3>1
  <2>2. GenkeyInv'
    BY <1>0, <1>11, <2>1 DEF GenkeyInv, At
  <2> QED BY <1>b, <2>1, <2>2
<1>12. StoreKeys \/ StoreSeed => \/ At(t, "open_pk") /\ Open("app_pk", "open_sk")
                                 \/ At(t, "open_sk") /\ Open("app_sk", "close_pk")
                                 \/ At(t, "close_pk") /\ Unwritten("exit1")
                                 \/ /\ At(t, "close_pk") /\ BothOpen("app_pk", "app_sk")
                                    /\ Close("app_pk", "pk", "close_sk")
                                 \/ At(t, "close_sk") /\ Close("app_sk", "sk", "open_seed")
                                 \/ At(t, "open_seed") /\ Open("app_seed", "open_hex")
                                 \/ At(t, "open_hex") /\ Open("app_seed_hex", "close_seed")
                                 \/ At(t, "close_seed") /\ Close("app_seed", "seed", "close_hex")
                                 \/ /\ At(t, "close_seed") /\ ~BothOpen("app_seed", "app_seed_hex")
                                    /\ Unwritten("exit0")
                                 \/ At(t, "close_hex") /\ Close("app_seed_hex", "seedhex", "exit0")
  BY Zenon DEF StoreKeys, StoreSeed
<1> QED
  BY <1>1, <1>2, <1>3, <1>4, <1>5, <1>6, <1>7, <1>8, <1>9, <1>10, <1>11, <1>12 DEF Genkey

-----------------------------------------------------------------------------
(***************************************************************************)
(* Crashes, and all steps together                                         *)
(***************************************************************************)
LEMMA CrashStep ==
  ASSUME IInv, NEW t \in Tools, Crash(t)
  PROVE  IInv'
<1>1. Shape /\ PairMatches
  BY DEF IInv, PairInv
<1>2. Go(t, "killed") /\ Faulty(t) /\ files' = files
  BY DEF Crash
<1>3. Local(t) /\ pc'[t] = "killed"
  BY <1>1, <1>2, FaultyStep, QuietStep
<1>4. t = "genkey" => PairInv' /\ GenkeyInv'
  BY <1>1, <1>2, <1>3 DEF PairInv, OpenInv, PairMatches, GenkeyInv, At
<1>5. /\ t = "sign_file" => SignInv'
      /\ t = "openssl_from_app" => FromAppInv'
      /\ t = "app_from_openssl" => FromOpensslInv'
  BY <1>3 DEF SignInv, FromAppInv, FromOpensslInv
<1> QED BY <1>3, <1>4, <1>5, OwnStep

LEMMA StillStep == IInv /\ UNCHANGED <<files, pc, mem>> => IInv'
  BY DEF IInv, Shape, PairInv, OpenInv, PairMatches, GenkeyInv, SignInv, FromAppInv,
         FromOpensslInv, At

LEMMA Invariance == Spec => []IInv
<1>1. Init => IInv
  <2> SUFFICES ASSUME Init PROVE IInv
    OBVIOUS
  <2>1. Shape
    BY FreshFields DEF Init, Shape
  <2>2. /\ \A t \in Tools : pc[t] = "idle"
        /\ {"genkey", "sign_file", "openssl_from_app", "app_from_openssl"} \subseteq Tools
        /\ files["app_pk"] = Absent
    BY DEF Init, Tools, Files
  <2>3. PairInv
    BY <2>2, Wholes DEF PairInv, OpenInv, PairMatches, At
  <2>4. GenkeyInv /\ SignInv /\ FromAppInv /\ FromOpensslInv
    BY <2>2 DEF GenkeyInv, SignInv, FromAppInv, FromOpensslInv
  <2> QED BY <2>1, <2>3, <2>4 DEF IInv
<1>2. IInv /\ [Next]_vars => IInv'
  <2> SUFFICES ASSUME IInv, [Next]_vars PROVE IInv'
    OBVIOUS
  <2>1. CASE Edit \/ UNCHANGED vars
    BY <2>1, StillStep DEF Edit, vars
  <2> QED
    BY <2>1, GenkeyStep, SignStep, VerifyStep, FromAppStep, FromOpensslStep, CrashStep DEF Next
<1> QED BY <1>1, <1>2, PTL DEF Spec

-----------------------------------------------------------------------------
(***************************************************************************)
(* The theorems                                                            *)
(***************************************************************************)
\* In every state of every execution, a public and a secret key of full
\* length in keys/ are of one seed: genkey.c:97-107, whichever fopen, fwrite
\* or process fails and whatever other programs run beside the one genkey.
THEOREM PairNeverMixed == Spec => []PairMatches
<1>1. IInv => PairMatches
  BY DEF IInv, PairInv
<1> QED BY <1>1, Invariance, PTL

\* A run of sign_file that ends with an error leaves the signature that was
\* there, and never writes without a whole key: sign_file.c reads both files
\* before it opens app_sign.bin, and no other program writes that file.
THEOREM OldSignatureKept == Spec => []FailedSignKeepsOld
<1>1. IInv => FailedSignKeepsOld
  BY DEF IInv, SignInv, FailedSignKeepsOld, At
<1> QED BY <1>1, Invariance, PTL

\* A run of any program that met no fault and ends with 0 has all its files
\* of the one key it generated or read, whatever runs beside it, is killed
\* or fails: the dump it reads back is the one it wrote.
THEOREM CleanRunsAreExact == Spec => []CleanRunIsExact
<1>1. IInv => CleanRunIsExact
  <2> SUFFICES ASSUME IInv, NEW t \in Tools \ {"verify"}, pc[t] = "exit0", mem[t].clean,
                      NEW f \in DOMAIN Result(t)
               PROVE  files[f] = Result(t)[f]
    BY DEF CleanRunIsExact, At
  <2>1. mem[t].clean = TRUE
    OBVIOUS
  <2>2. CASE t = "genkey"
    <3>1. Result(t) = [app_pk |-> Whole("pk", mem[t].seed), app_sk |-> Whole("sk", mem[t].seed),
                       app_seed |-> Whole("seed", mem[t].seed),
                       app_seed_hex |-> Whole("seedhex", mem[t].seed)]
      BY <2>2 DEF Result
    <3> QED BY <2>1, <2>2, <3>1 DEF IInv, GenkeyInv
  <2>3. CASE t = "sign_file"
    <3>1. Result(t) = [app_sign |-> Signature(mem[t].seed, mem[t].msg)]
      BY <2>3 DEF Result
    <3> QED BY <2>1, <2>3, <3>1 DEF IInv, SignInv
  <2>4. CASE t = "openssl_from_app"
    <3> DEFINE s == mem[t].seed.seed
    <3>1. Result(t) = [openssl_app_key_pem |-> Whole("pem", s),
                       openssl_app_pk_pem |-> Whole("pubpem", s),
                       openssl_app_seed |-> Whole("seed", s),
                       openssl_app_sk |-> Whole("sk", s),
                       openssl_app_pk |-> Whole("pk", s)]
      BY <2>4 DEF Result
    <3> QED BY <2>1, <2>4, <3>1 DEF IInv, FromAppInv
  <2>5. CASE t = "app_from_openssl"
    <3> DEFINE s == mem[t].text["priv"].seed
    <3>1. Result(t) = [app_openssl_seed |-> Whole("seed", s),
                       app_openssl_seed_hex |-> Whole("seedhex", s),
                       app_openssl_sk |-> Whole("sk", s), app_openssl_pk |-> Whole("pk", s)]
      BY <2>5 DEF Result
    <3> QED BY <2>1, <2>5, <3>1 DEF IInv, FromOpensslInv
  <2> QED BY <2>2, <2>3, <2>4, <2>5 DEF Tools
<1> QED BY <1>1, Invariance, PTL

-----------------------------------------------------------------------------
(***************************************************************************)
(* The seed file of openssl_from_app, for seeds of any length.             *)
(***************************************************************************)
\* The digits of a seed: two for each byte, and none of them a blank.
LEMMA SeedHex ==
  ASSUME NEW s \in Seeds
  PROVE  /\ Len(s) = SEEDBYTES /\ s \in Seq(0..3)
         /\ Hex(s) \in [1..(2 * SEEDBYTES) -> {2, 3}] /\ Len(Hex(s)) = 2 * SEEDBYTES
         /\ Hex(s) \in Seq(0..3)
<1>1. SEEDBYTES \in Nat
  BY SeedAssumption
<1>2. s \in Seq(0..3) /\ Len(s) = SEEDBYTES
  BY <1>1 DEF Seeds
<1>3. ASSUME NEW d \in 1..(2 * SEEDBYTES)
      PROVE  (LET b == s[(d + 1) \div 2] IN Digit(IF d % 2 = 1 THEN b \div 2 ELSE b % 2)) \in {2, 3}
  <2> DEFINE b == s[(d + 1) \div 2]
  <2>1. (d + 1) \div 2 \in 1..SEEDBYTES
    BY <1>1
  <2>2. b \in 0..3
    BY <2>1 DEF Seeds
  <2> HIDE DEF b
  <2>3. b \div 2 \in {0, 1} /\ b % 2 \in {0, 1}
    BY <2>2
  <2> QED BY <2>3 DEF Digit, b
<1>4. Hex(s) \in [1..(2 * SEEDBYTES) -> {2, 3}]
  BY <1>2, <1>3 DEF Hex
<1> DEFINE h == Hex(s)
<1> HIDE DEF h
<1>5. h \in [1..(2 * SEEDBYTES) -> 0..3]
  BY <1>4 DEF h
<1>6. Len(h) = 2 * SEEDBYTES /\ h \in Seq(0..3)
  BY <1>1, <1>5
<1> QED BY <1>2, <1>4, <1>6 DEF h

\* Of a text without blanks everything is kept.
LEMMA AllKept ==
  ASSUME NEW k \in Nat, NEW s \in [1..k -> 0..3], \A n \in 1..k : s[n] \notin Blanks
  PROVE  clean_hex(s) = s
<1> DEFINE kept == {n \in DOMAIN s : s[n] \notin Blanks}
           below(n) == {o \in kept : o < n}
<1>1. kept = 1..k
  OBVIOUS
<1>2. Cardinality(kept) = k
  <2>1. Cardinality(1..k) = k
    BY FS_Interval
  <2> QED BY <1>1, <2>1
<1>3. ASSUME NEW n \in 1..k PROVE Cardinality(below(n)) = n - 1
  <2>1. below(n) = 1..(n - 1)
    BY <1>1
  <2>2. Cardinality(1..(n - 1)) = n - 1
    BY FS_Interval
  <2> QED BY <2>1, <2>2
<1>4. ASSUME NEW n \in 1..k
      PROVE  (CHOOSE o \in kept : Cardinality(below(o)) = n - 1) = n
  <2> HIDE DEF kept, below
  <2>1. \A o \in kept : Cardinality(below(o)) = n - 1 <=> o = n
    BY <1>1, <1>3
  <2>2. n \in kept
    BY <1>1
  <2> QED BY <2>1, <2>2
<1>5. clean_hex(s) = [n \in 1..Cardinality(kept) |->
                        s[CHOOSE o \in kept : Cardinality(below(o)) = n - 1]]
  BY Zenon DEF clean_hex
<1>6. clean_hex(s) = [n \in 1..k |-> s[n]]
  <2> HIDE DEF kept, below
  <2> QED BY <1>2, <1>4, <1>5
<1> QED BY <1>6

\* The digits of a .hex file end before its newline.
LEMMA HexLine ==
  ASSUME NEW s \in Seeds, content = GenkeyHex(s)
  PROVE  TextRead = Hex(s) /\ content # << >>
<1> DEFINE h == Hex(s)
           m == 2 * SEEDBYTES
           ends == {n \in DOMAIN content : n = (m + 1) - 1 \/ n = Len(content) \/ content[n] = NewLine}
<1>1. SEEDBYTES \in Nat \ {0} /\ m \in Nat \ {0}
  BY SeedAssumption
<1>2. h \in [1..m -> {2, 3}] /\ Len(h) = m /\ h \in Seq(0..3)
  BY SeedHex
<1> HIDE DEF h, m
<1>3. content = h \o <<1>> /\ NewLine = 1
  BY DEF GenkeyHex, NewLine, h
<1>4. content \in Seq(0..3) /\ Len(content) = m + 1 /\ DOMAIN content = 1..(m + 1)
  BY <1>1, <1>2, <1>3
<1>5. (\A n \in 1..m : content[n] = h[n]) /\ content[m + 1] = 1
  BY <1>1, <1>2, <1>3
<1>6. m \in ends /\ \A o \in ends : m <= o
  <2>1. \A n \in 1..m : content[n] # NewLine
    BY <1>2, <1>3, <1>5
  <2> QED BY <1>1, <1>4, <2>1
<1>7. (CHOOSE n \in ends : \A o \in ends : n <= o) = m
  <2>1. ends \subseteq Nat
    BY <1>4
  <2> HIDE DEF ends
  <2>2. \A n \in ends : (\A o \in ends : n <= o) => n = m
    BY <1>1, <1>6, <2>1
  <2> QED BY <1>6, <2>2, Zenon
<1>8. content # << >>
  BY <1>1, <1>4
<1>9. TextRead = SubSeq(content, 1, m)
  <2>1. TextRead = SubSeq(content, 1, CHOOSE n \in ends : \A o \in ends : n <= o)
    BY <1>8, Zenon DEF TextRead, Line, m
  <2> QED BY <1>7, <2>1
<1>10. SubSeq(content, 1, m) = h
  <2>1. SubSeq(content, 1, m) = [n \in 1..m |-> content[n]]
    BY <1>1, <1>4
  <2>2. h = [n \in 1..m |-> h[n]]
    BY <1>2
  <2> QED BY <1>5, <2>1, <2>2
<1> QED BY <1>8, <1>9, <1>10 DEF h

\* A file that is read as text has the extension for it or is too short for bytes.
SeedInv ==
  /\ content \in Seq(0..3) /\ Len(content) \in Nat
  /\ seedStep \in {"open", "text", "got", "failed"}
  /\ seedStep = "open" => extension # ".hex"
  /\ seedStep = "text" => extension = ".hex" \/ Len(content) < SEEDBYTES
  /\ SeedIsRead

LEMMA SeedStarts == ASSUME SeedInit PROVE SeedInv
<1>1. content \in Seq(0..3) /\ Len(content) \in Nat
  <2>1. PICK n \in 0..MaxLength : content \in [1..n -> 0..3]
    BY DEF SeedInit
  <2>2. n \in Nat
    BY SeedAssumption
  <2> QED BY <2>1, <2>2
<1> QED BY <1>1 DEF SeedInit, SeedInv, SeedIsRead

LEMMA SeedBytesRead ==
  ASSUME SeedInv, ReadBytes
  PROVE  SeedInv'
<1>1. SEEDBYTES \in Nat \ {0}
  BY SeedAssumption
<1>2. content' = content /\ extension' = extension /\ seedStep = "open" /\ extension # ".hex"
  BY DEF SeedInv, ReadBytes
<1>3. CASE Len(content) >= SEEDBYTES
  <2> DEFINE c == SubSeq(content, 1, SEEDBYTES)
  <2>1. seed_hex' = Hex(c) /\ seedStep' = "got"
    BY <1>3 DEF ReadBytes
  <2>2. c \in Seeds
    <3>1. content \in Seq(0..3) /\ Len(content) \in Nat
      BY DEF SeedInv
    <3>2. \A n \in 1..SEEDBYTES : content[n] \in 0..3
      BY <1>1, <1>3, <3>1
    <3>3. c = [n \in 1..SEEDBYTES |-> content[n]]
      BY <1>1, <1>3, <3>1
    <3> QED BY <3>2, <3>3 DEF Seeds
  <2>3. Len(Hex(c)) = 2 * SEEDBYTES
    <3> HIDE DEF c
    <3> QED BY <2>2, SeedHex
  <2>4. ASSUME NEW s \in Seeds, content = s PROVE c = s
    BY <1>1, <2>4 DEF Seeds
  <2> HIDE DEF c
  <2> QED BY <1>2, <2>1, <2>3, <2>4 DEF SeedInv, SeedIsRead, GenkeyBin
<1>4. CASE ~(Len(content) >= SEEDBYTES)
  <2>1. seedStep' = (IF extension = ".bin" THEN "failed" ELSE "text") /\ Len(content) < SEEDBYTES
    BY <1>1, <1>4 DEF ReadBytes, SeedInv
  <2>2. ASSUME NEW s \in Seeds PROVE content # GenkeyBin(s)
    <3>1. Len(s) = SEEDBYTES
      BY SeedHex
    <3> QED BY <1>1, <2>1, <3>1 DEF GenkeyBin
  <2> QED BY <1>2, <2>1, <2>2 DEF SeedInv, SeedIsRead
<1> QED BY <1>3, <1>4

LEMMA SeedTextRead ==
  ASSUME SeedInv, ReadText
  PROVE  SeedInv'
<1>1. SEEDBYTES \in Nat \ {0}
  BY SeedAssumption
<1>2. content' = content /\ extension' = extension /\ seedStep' \in {"got", "failed"}
  BY DEF ReadText
<1>3. seedStep' = "got" => Len(seed_hex') = 2 * SEEDBYTES
  BY DEF ReadText
<1>4. ASSUME NEW s \in Seeds, content = GenkeyBin(s), extension # ".hex" PROVE FALSE
  <2>1. Len(content) < SEEDBYTES
    BY <1>4 DEF SeedInv, ReadText
  <2>2. Len(content) = SEEDBYTES
    BY <1>4, SeedHex DEF GenkeyBin
  <2> QED BY <1>1, <2>1, <2>2
<1>5. ASSUME NEW s \in Seeds, content = GenkeyHex(s)
      PROVE  seedStep' = "got" /\ seed_hex' = Hex(s)
  <2> DEFINE h == Hex(s)
  <2>1. TextRead = h /\ content # << >>
    BY <1>5, HexLine
  <2>2. h \in [1..(2 * SEEDBYTES) -> {2, 3}] /\ Len(h) = 2 * SEEDBYTES
    BY SeedHex
  <2> HIDE DEF h
  <2>3. 2 * SEEDBYTES \in Nat /\ h \in [1..(2 * SEEDBYTES) -> 0..3]
        /\ \A n \in 1..(2 * SEEDBYTES) : h[n] \notin Blanks
    BY <1>1, <2>2 DEF Blanks
  <2>4. clean_hex(h) = h
    BY <2>3, AllKept
  <2>5. seed_hex' = h
    BY <2>1, <2>4 DEF ReadText
  <2>6. seedStep' = "got"
    BY <2>1, <2>2, <2>5 DEF ReadText
  <2> QED BY <2>5, <2>6 DEF h
<1>6. SeedIsRead'
  BY <1>2, <1>3, <1>4, <1>5 DEF SeedIsRead, GenkeyBin, GenkeyHex, Hex, Seeds
<1> QED BY <1>2, <1>6 DEF SeedInv

\* The seed that genkey stored is read from either of its files, the text one
\* under a name in .hex, whatever the length of a seed, and never a seed of
\* another length.
THEOREM SeedsAreRead == SeedSpec => []SeedIsRead
<1>1. SeedInit => SeedInv
  BY SeedStarts
<1>2. SeedInv /\ [SeedNext]_seedVars => SeedInv'
  <2> SUFFICES ASSUME SeedInv, [SeedNext]_seedVars PROVE SeedInv'
    OBVIOUS
  <2>1. CASE ReadBytes BY <2>1, SeedBytesRead
  <2>2. CASE ReadText BY <2>2, SeedTextRead
  <2>3. CASE UNCHANGED seedVars
    BY <2>3 DEF SeedInv, SeedIsRead, seedVars
  <2> QED BY <2>1, <2>2, <2>3 DEF SeedNext
<1>3. SeedInv => SeedIsRead
  BY DEF SeedInv
<1> QED BY <1>1, <1>2, <1>3, PTL DEF SeedSpec

-----------------------------------------------------------------------------
(***************************************************************************)
(* The readers of OpenSSL's text, for any texts that OpenSSL may print.    *)
(*                                                                         *)
(* The invariant says which lines the digits taken came from: all those    *)
(* after the label so far, which are the lines of the block because their  *)
(* owner is the nearest label above.                                       *)
(***************************************************************************)
\* A set of naturals that is not empty has a least element.
LEMMA Least ==
  ASSUME NEW T \in SUBSET Nat, T # {}
  PROVE  \E x \in T : \A y \in T : x <= y
<1> DEFINE R == OpToRel(<, Nat)
<1>1. \A x, y \in Nat : <<y, x>> \in R <=> y < x
  BY DEF OpToRel
<1>2. IsWellFoundedOn(R, Nat)
  BY NatLessThanWellFounded, ZenonT(60)
<1> HIDE DEF R
<1>3. PICK x \in T : \A y \in T : ~ (<<y, x>> \in R)
  BY <1>2, WFMin
<1>4. \A y \in T : ~ (y < x)
  BY <1>1, <1>3, Zenon
<1>5. \A y \in T : x <= y
  BY <1>4
<1> QED BY <1>5

\* Induction, for a property given as a set.
LEMMA Induction ==
  ASSUME NEW T, 0 \in T, \A n \in Nat : n \in T => n + 1 \in T
  PROVE  Nat \subseteq T
<1> DEFINE U == Nat \ T
<1>1. SUFFICES ASSUME U # {} PROVE FALSE
  OBVIOUS
<1>2. PICK x \in U : \A y \in U : x <= y
  BY <1>1, Least
<1>3. x \in Nat /\ x # 0 /\ x - 1 \in Nat
  BY <1>2
<1>4. x - 1 \in T
  BY <1>2, <1>3
<1>5. (x - 1) + 1 \in T
  BY <1>3, <1>4
<1>6. (x - 1) + 1 = x
  BY <1>3
<1> QED BY <1>2, <1>5, <1>6

\* FlattenSeq is what its recursion says.
Flattens(g, ss) ==
  /\ \A i \in 1..Len(ss) : g[i] = IF i = 1 THEN ss[i] ELSE g[i - 1] \o ss[i]

FlatTo(g, ss) == [i \in 1..Len(ss) |-> IF i = 1 THEN ss[i] ELSE g[i - 1] \o ss[i]]

IsFlat(g, ss, k) ==
  /\ DOMAIN g = 1..k
  /\ \A i \in 1..k : g[i] = IF i = 1 THEN ss[i] ELSE g[i - 1] \o ss[i]

LEMMA FlatExists ==
  ASSUME NEW ss, Len(ss) \in Nat
  PROVE  \E g : g = FlatTo(g, ss)
<1> DEFINE T == {k \in Nat : \E g : IsFlat(g, ss, k)}
<1>1. 0 \in T
  <2> DEFINE g == [i \in 1..0 |-> 0]
  <2>1. DOMAIN g = 1..0 /\ \A i \in 1..0 : g[i] = IF i = 1 THEN ss[i] ELSE g[i - 1] \o ss[i]
    OBVIOUS
  <2>2. IsFlat(g, ss, 0)
    BY <2>1 DEF IsFlat
  <2> QED BY <2>2
<1>2. ASSUME NEW k \in Nat, k \in T PROVE k + 1 \in T
  <2>1. PICK g : /\ DOMAIN g = 1..k
                 /\ \A i \in 1..k : g[i] = IF i = 1 THEN ss[i] ELSE g[i - 1] \o ss[i]
    BY <1>2 DEF IsFlat
  <2> DEFINE h == [i \in 1..(k + 1) |->
                     IF i <= k THEN g[i] ELSE IF i = 1 THEN ss[i] ELSE g[i - 1] \o ss[i]]
  <2>2. ASSUME NEW i \in 1..(k + 1)
        PROVE  h[i] = IF i = 1 THEN ss[i] ELSE h[i - 1] \o ss[i]
    <3>1. CASE i <= k
      <4>1. h[i] = g[i] /\ (i # 1 => h[i - 1] = g[i - 1])
        BY <3>1
      <4>2. i \in 1..k
        BY <3>1
      <4> HIDE DEF h
      <4> QED BY <2>1, <4>1, <4>2
    <3>2. CASE ~(i <= k)
      <4>1. h[i] = IF i = 1 THEN ss[i] ELSE g[i - 1] \o ss[i]
        BY <3>2
      <4>2. i # 1 => h[i - 1] = g[i - 1]
        BY <3>2
      <4> HIDE DEF h
      <4> QED BY <4>1, <4>2
    <3> QED BY <3>1, <3>2
  <2>3. DOMAIN h = 1..(k + 1)
    OBVIOUS
  <2> HIDE DEF h
  <2>4. IsFlat(h, ss, k + 1)
    BY <2>2, <2>3 DEF IsFlat
  <2> QED BY <2>4
<1> HIDE DEF T
<1>3. Len(ss) \in T
  BY <1>1, <1>2, Induction
<1>4. PICK g : /\ DOMAIN g = 1..Len(ss)
               /\ \A i \in 1..Len(ss) : g[i] = IF i = 1 THEN ss[i] ELSE g[i - 1] \o ss[i]
  BY <1>3 DEF T, IsFlat
<1> DEFINE h == [i \in 1..Len(ss) |-> g[i]]
<1>5. h = FlatTo(h, ss)
  <2>1. \A i \in 1..Len(ss) : h[i] = g[i]
    OBVIOUS
  <2>2. \A i \in 1..Len(ss) : i # 1 => i - 1 \in 1..Len(ss)
    OBVIOUS
  <2>3. \A i \in 1..Len(ss) : h[i] = IF i = 1 THEN ss[i] ELSE h[i - 1] \o ss[i]
    <3> HIDE DEF h
    <3> QED BY <1>4, <2>1, <2>2
  <2>4. h = [i \in 1..Len(ss) |-> h[i]]
    OBVIOUS
  <2> HIDE DEF h
  <2> QED BY <2>3, <2>4 DEF FlatTo
<1> QED BY <1>5

LEMMA FlattenIs ==
  ASSUME NEW ss, Len(ss) \in Nat \ {0}
  PROVE  \E g : Flattens(g, ss) /\ FlattenSeq(ss) = g[Len(ss)]
<1> DEFINE p == CHOOSE g : g = FlatTo(g, ss)
<1>1. p = FlatTo(p, ss)
  <2>1. \E g : g = FlatTo(g, ss)
    BY FlatExists
  <2> QED BY <2>1, Zenon
<1>2. FlattenSeq(ss) = p[Len(ss)]
  BY Zenon DEF FlattenSeq, FlatTo
<1> HIDE DEF p
<1>3. Flattens(p, ss)
  BY <1>1, Zenon DEF Flattens, FlatTo
<1> QED BY <1>2, <1>3

LineOf == [head : Labels \cup {"title", "digits", "cut"}, digits : Seq(Digits), ended : BOOLEAN]

\* What IsText says of one line.
Owner(m, n) ==
  /\ text[m].head \in Labels
  /\ \A o \in (m + 1)..n : text[o].head = "digits"
  /\ \A k \in DOMAIN text[n].digits : text[n].digits[k][1] = text[m].head

LEMMA TextLines ==
  ASSUME text \in Texts
  PROVE  /\ Len(text) \in Nat /\ DOMAIN text = 1..Len(text) /\ text \in Seq(LineOf)
         /\ \A n \in 1..Len(text) :
              /\ text[n].head \in Labels \cup {"title", "digits", "cut"}
              /\ text[n].digits \in Seq(Digits) /\ text[n].ended \in BOOLEAN
              /\ ~text[n].ended \/ text[n].head = "cut" => n = Len(text)
              /\ text[n].digits # << >> => text[n].head \in {"digits", "cut"}
              /\ text[n].head = "digits" => \E m \in 1..(n - 1) : Owner(m, n)
         /\ \A m, n \in 1..Len(text) :
              text[m].head \in Labels /\ text[m].head = text[n].head => m = n
<1>1. IsText(text)
  BY TextsAssumption
<1>2. text \in Seq(LineOf)
  BY <1>1, Zenon DEF IsText, LineOf
<1>3. Len(text) \in Nat /\ DOMAIN text = 1..Len(text)
  BY <1>2
<1>4. \A n \in 1..Len(text) : text[n] \in LineOf
  BY <1>2
<1>5. \A n \in 1..Len(text) : /\ text[n].head \in Labels \cup {"title", "digits", "cut"}
                              /\ text[n].digits \in Seq(Digits) /\ text[n].ended \in BOOLEAN
  BY <1>4, SMT DEF LineOf
<1>6. \A n \in 1..Len(text) :
              /\ ~text[n].ended \/ text[n].head = "cut" => n = Len(text)
              /\ text[n].digits # << >> => text[n].head \in {"digits", "cut"}
              /\ text[n].head = "digits" => \E m \in 1..(n - 1) : Owner(m, n)
              /\ \A m \in 1..Len(text) :
                   text[m].head \in Labels /\ text[m].head = text[n].head => m = n
  BY <1>1, <1>3, Zenon DEF IsText, Owner
<1>7. \A m, n \in 1..Len(text) :
              text[m].head \in Labels /\ text[m].head = text[n].head => m = n
  BY <1>6
<1> QED BY <1>2, <1>3, <1>5, <1>6, <1>7, ZenonT(60)

\* The digits of the first n lines that are of block l, and those of all.
Sums(g, l) ==
  /\ g[0] = << >>
  /\ \A n \in 1..Len(text) : g[n - 1] \in Seq(Digits) /\ g[n] = g[n - 1] \o DigitsIn(n, l)
  /\ \A n \in 0..Len(text) : g[n] \in Seq(Digits)
  /\ DigitsOf(l) = g[Len(text)]

LEMMA InType ==
  ASSUME text \in Texts, NEW n \in 1..Len(text), NEW l
  PROVE  DigitsIn(n, l) \in Seq(Digits)
<1>1. text[n].digits \in Seq(Digits)
  BY TextLines, ZenonT(60)
<1>2. << >> \in Seq(Digits)
  OBVIOUS
<1> QED BY <1>1, <1>2, Zenon DEF DigitsIn

LEMMA SumsExist ==
  ASSUME text \in Texts, NEW l
  PROVE  \E g : Sums(g, l)
<1>0. Len(text) \in Nat /\ DOMAIN text = 1..Len(text)
  BY TextLines, ZenonT(60)
<1> DEFINE ss == [n \in DOMAIN text |-> DigitsIn(n, l)]
<1>1. ss \in Seq(Seq(Digits)) /\ Len(ss) = Len(text) /\ \A n \in 1..Len(text) : ss[n] = DigitsIn(n, l)
  <2>1. ss \in [1..Len(text) -> Seq(Digits)]
    BY <1>0, InType
  <2> QED BY <1>0, <2>1
<1>2. DigitsOf(l) = FlattenSeq(ss)
  BY DEF DigitsOf
<1> HIDE DEF ss
<1>3. CASE Len(text) = 0
  <2>1. FlattenSeq(ss) = ss /\ ss = << >>
    BY <1>1, <1>3 DEF FlattenSeq
  <2> DEFINE g == [n \in 0..0 |-> << >>]
  <2>2. g[0] = << >> /\ << >> \in Seq(Digits)
    OBVIOUS
  <2> HIDE DEF g
  <2>3. /\ \A n \in 1..Len(text) : FALSE
        /\ \A n \in 0..Len(text) : n = 0
        /\ DigitsOf(l) = << >>
    BY <1>2, <1>3, <2>1
  <2>4. Sums(g, l)
    BY <1>3, <2>2, <2>3 DEF Sums
  <2> QED BY <2>4
<1>4. CASE Len(text) # 0
  <2>1. PICK f : Flattens(f, ss) /\ FlattenSeq(ss) = f[Len(ss)]
    BY <1>0, <1>1, <1>4, FlattenIs
  <2> DEFINE g == [n \in 0..Len(text) |-> IF n = 0 THEN << >> ELSE f[n]]
  <2>2. g[0] = << >> /\ << >> \in Seq(Digits)
    BY <1>0
  <2>3. \A n \in 1..Len(text) : g[n] = f[n] /\ (n = 1 => g[n - 1] = << >>) /\ (n # 1 => g[n - 1] = f[n - 1])
    BY <1>0
  <2> HIDE DEF g
  <2>4. ASSUME NEW n \in 1..Len(text), g[n - 1] \in Seq(Digits)
        PROVE  g[n] = g[n - 1] \o DigitsIn(n, l) /\ g[n] \in Seq(Digits)
    <3>1. DigitsIn(n, l) \in Seq(Digits) /\ ss[n] = DigitsIn(n, l)
      BY <1>1, InType
    <3>2. f[n] = IF n = 1 THEN ss[n] ELSE f[n - 1] \o ss[n]
      BY <1>1, <2>1 DEF Flattens
    <3>3. CASE n = 1
      <4>1. g[n] = DigitsIn(n, l) /\ g[n - 1] = << >>
        BY <2>3, <3>1, <3>2, <3>3
      <4>2. << >> \o DigitsIn(n, l) = DigitsIn(n, l)
        BY <3>1, ConcatEmptySeq
      <4> QED BY <3>1, <4>1, <4>2
    <3>4. CASE n # 1
      <4>1. g[n] = g[n - 1] \o DigitsIn(n, l)
        BY <2>3, <3>1, <3>2, <3>4
      <4>2. g[n - 1] \o DigitsIn(n, l) \in Seq(Digits)
        BY <2>4, <3>1, ConcatProperties
      <4> QED BY <4>1, <4>2
    <3> QED BY <3>3, <3>4
  <2> DEFINE T == {n \in Nat : n <= Len(text) => g[n] \in Seq(Digits)}
  <2>5. 0 \in T
    BY <2>2
  <2>6. ASSUME NEW n \in Nat, n \in T PROVE n + 1 \in T
    <3> SUFFICES ASSUME n + 1 <= Len(text) PROVE g[n + 1] \in Seq(Digits)
      OBVIOUS
    <3>1. n + 1 \in 1..Len(text) /\ (n + 1) - 1 = n /\ g[n] \in Seq(Digits)
      BY <1>0, <2>6
    <3> QED BY <2>4, <3>1
  <2> HIDE DEF T
  <2>7. Nat \subseteq T
    BY <2>5, <2>6, Induction
  <2>8. \A n \in 0..Len(text) : g[n] \in Seq(Digits)
    BY <1>0, <2>7 DEF T
  <2>9. \A n \in 1..Len(text) : g[n - 1] \in Seq(Digits) /\ g[n] = g[n - 1] \o DigitsIn(n, l)
    <3>1. \A n \in 1..Len(text) : n - 1 \in 0..Len(text)
      BY <1>0
    <3> QED BY <2>4, <2>8, <3>1
  <2>10. DigitsOf(l) = g[Len(text)]
    <3>1. Len(text) \in 1..Len(text)
      BY <1>0, <1>4
    <3> QED BY <1>1, <1>2, <2>1, <2>3, <3>1
  <2>11. Sums(g, l)
    BY <2>2, <2>8, <2>9, <2>10 DEF Sums
  <2> QED BY <2>11
<1> QED BY <1>3, <1>4

\* Lines without digits of the block leave the digits as they are.
LEMMA SumsStay ==
  ASSUME text \in Texts, NEW l, NEW g, Sums(g, l), NEW from \in 0..Len(text), NEW to \in from..Len(text),
         \A n \in (from + 1)..to : DigitsIn(n, l) = << >>
  PROVE  g[to] = g[from]
<1>l. Len(text) \in Nat
  BY TextLines, ZenonT(60)
<1>0. Len(text) \in Nat /\ from \in Nat /\ to \in Nat
  BY <1>l
<1> DEFINE T == {d \in Nat : from + d <= to => g[from + d] = g[from]}
<1>1. 0 \in T
  BY <1>0
<1>2. ASSUME NEW d \in Nat, d \in T PROVE d + 1 \in T
  <2> SUFFICES ASSUME from + (d + 1) <= to PROVE g[from + (d + 1)] = g[from]
    OBVIOUS
  <2> DEFINE n == from + (d + 1)
  <2>1. n \in (from + 1)..to /\ n \in 1..Len(text) /\ n - 1 = from + d /\ from + d <= to
    BY <1>0
  <2>2. g[from + d] = g[from]
    BY <1>2, <2>1
  <2> HIDE DEF n
  <2>3. g[n] = g[n - 1] \o << >> /\ g[n - 1] \in Seq(Digits)
    BY <2>1 DEF Sums
  <2>4. g[n - 1] \o << >> = g[n - 1]
    BY <2>3, ConcatEmptySeq
  <2> QED BY <2>1, <2>2, <2>3, <2>4 DEF n
<1> HIDE DEF T
<1>3. Nat \subseteq T
  BY <1>1, <1>2, Induction
<1>4. to - from \in Nat /\ from + (to - from) = to
  BY <1>0
<1>5. from + (to - from) <= to => g[from + (to - from)] = g[from]
  BY <1>3, <1>4 DEF T
<1> QED BY <1>0, <1>4, <1>5

\* The line of a label, of which there is one.
LEMMA FoundIs ==
  ASSUME text \in Texts, label \in Labels
  PROVE  \/ Found \in 1..Len(text) /\ text[Found].head = label
         \/ Found = 0 /\ \A n \in 1..Len(text) : text[n].head # label
<1>0. Len(text) \in Nat
  BY TextLines, ZenonT(60)
<1> DEFINE I == {i \in 1..Len(text) : text[i].head = label}
<1>1. Found = IF I # {} THEN Min(I) ELSE 0
  BY Zenon DEF Found, SelectInSeq
<1>2. \A m, n \in I : m = n
  BY TextLines, ZenonT(60)
<1>3. CASE I # {}
  <2>1. PICK m \in I : TRUE
    BY <1>3
  <2>2. m \in 1..Len(text) /\ text[m].head = label
    OBVIOUS
  <2> HIDE DEF I
  <2>3. \A n \in I : n = m
    BY <1>2, <2>1
  <2>4. \A n \in I : m <= n
    BY <1>0, <2>2, <2>3
  <2>5. Min(I) = m
    BY <2>1, <2>3, <2>4, Zenon DEF Min
  <2> QED BY <1>1, <1>3, <2>2, <2>5
<1>4. CASE I = {}
  BY <1>1, <1>4
<1> QED BY <1>3, <1>4

\* Digits under another label are not those of l.
LEMMA OtherDigits ==
  ASSUME text \in Texts, NEW n \in 1..Len(text), NEW l,
         text[n].head = "digits" => \E m \in 1..(n - 1) : Owner(m, n) /\ text[m].head # l
  PROVE  DigitsIn(n, l) = << >>
<1>1. CASE text[n].head # "digits"
  BY <1>1 DEF DigitsIn
<1>2. CASE text[n].head = "digits"
  <2>1. PICK m \in 1..(n - 1) : Owner(m, n) /\ text[m].head # l
    BY <1>2
  <2> DEFINE d == text[n].digits
  <2>2. d \in Seq(Digits) /\ \A k \in DOMAIN d : d[k][1] # l
    <3>1. d \in Seq(Digits)
      BY TextLines, ZenonT(60)
    <3> QED BY <2>1, <3>1 DEF Owner
  <2> HIDE DEF d
  <2>3. (\A k \in DOMAIN d : d[k][1] = l) => d = << >>
    <3> SUFFICES ASSUME d # << >>, \A k \in DOMAIN d : d[k][1] = l PROVE FALSE
      OBVIOUS
    <3>1. 1 \in DOMAIN d
      BY <2>2
    <3> QED BY <2>2, <3>1
  <2>4. DigitsIn(n, l) = IF \A k \in DOMAIN d : d[k][1] = l THEN d ELSE << >>
    BY <1>2 DEF DigitsIn, d
  <2> QED BY <2>3, <2>4
<1> QED BY <1>1, <1>2

\* Before the label there are no digits of its block.
LEMMA BeforeLabel ==
  ASSUME text \in Texts, label \in Labels, NEW g, Sums(g, label),
         NEW to \in 0..Len(text), \A n \in 1..(to - 1) : text[n].head # label
  PROVE  g[to] = << >>
<1>0. Len(text) \in Nat
  BY TextLines, ZenonT(60)
<1>t. to \in Nat /\ to <= Len(text)
  BY <1>0
<1>1. ASSUME NEW n \in 1..to PROVE DigitsIn(n, label) = << >>
  <2>1. n \in 1..Len(text)
    BY <1>0, <1>t
  <2>2. text[n].head = "digits" => \E m \in 1..(n - 1) : Owner(m, n)
    BY <2>1, TextLines, ZenonT(60)
  <2>3. \A m \in 1..(n - 1) : text[m].head # label
    BY <1>t
  <2> QED BY <2>1, <2>2, <2>3, OtherDigits
<1>2. 0 \in 0..Len(text) /\ \A n \in (0 + 1)..to : DigitsIn(n, label) = << >>
  BY <1>0, <1>1
<1>3. g[to] = g[0]
  BY <1>2, SumsStay
<1> QED BY <1>3 DEF Sums

\* Nor after the next one.
LEMMA AfterLabel ==
  ASSUME text \in Texts, NEW g, Sums(g, label), Found \in 1..Len(text), text[Found].head = label,
         label \in Labels,
         NEW n \in 1..Len(text), Found < n, text[n].head \in Labels
  PROVE  DigitsOf(label) = g[n - 1]
<1>0. Len(text) \in Nat /\ n \in Nat /\ Found \in Nat
  <2>1. Len(text) \in Nat
    BY TextLines, ZenonT(60)
  <2> QED BY <2>1
<1>1. ASSUME NEW o \in n..Len(text) PROVE DigitsIn(o, label) = << >>
  <2>1. o \in 1..Len(text) /\ o \in Nat
    BY <1>0
  <2>2. CASE text[o].head = "digits"
    <3>1. PICK m \in 1..(o - 1) : Owner(m, o)
      BY <2>1, <2>2, TextLines, ZenonT(60)
    <3>2. m \in Nat /\ m \in 1..Len(text)
      BY <1>0, <2>1
    <3>3. ~(m + 1 <= n)
      <4> SUFFICES ASSUME m + 1 <= n PROVE FALSE
        OBVIOUS
      <4>1. n \in (m + 1)..o
        BY <1>0, <2>1, <3>2
      <4>2. text[n].head = "digits"
        BY <3>1, <4>1 DEF Owner
      <4> QED BY <4>2 DEF Labels
    <3>4. m # Found
      BY <1>0, <3>2, <3>3
    <3>5. text[m].head # label
      BY <3>2, <3>4, TextLines, ZenonT(60)
    <3> QED BY <2>1, <3>1, <3>5, OtherDigits
  <2>3. CASE text[o].head # "digits"
    BY <2>3 DEF DigitsIn
  <2> QED BY <2>2, <2>3
<1>2. n - 1 \in 0..Len(text) /\ Len(text) \in (n - 1)..Len(text) /\ (n - 1) + 1 = n
  BY <1>0
<1>3. g[Len(text)] = g[n - 1]
  BY <1>1, <1>2, SumsStay
<1> QED BY <1>3 DEF Sums

\* In between all digits are of the block.
LEMMA OwnDigits ==
  ASSUME text \in Texts, Found \in 1..Len(text), text[Found].head = label, label \in Labels,
         NEW n \in 1..Len(text), Found < n, text[n].head = "digits",
         \A o \in (Found + 1)..(n - 1) : text[o].head \notin Labels
  PROVE  DigitsIn(n, label) = text[n].digits
<1>0. Len(text) \in Nat /\ n \in Nat /\ Found \in Nat
  <2>1. Len(text) \in Nat
    BY TextLines, ZenonT(60)
  <2> QED BY <2>1
<1>1. PICK m \in 1..(n - 1) : Owner(m, n)
  BY TextLines, ZenonT(60)
<1>2. m \in Nat /\ m < n
  BY <1>0
<1>3. ~(Found < m)
  <2> SUFFICES ASSUME Found < m PROVE FALSE
    OBVIOUS
  <2>1. m \in (Found + 1)..(n - 1)
    BY <1>0, <1>2
  <2> QED BY <1>1, <2>1 DEF Owner
<1>4. ~(m < Found)
  <2> SUFFICES ASSUME m < Found PROVE FALSE
    OBVIOUS
  <2>1. Found \in (m + 1)..n
    BY <1>0, <1>2
  <2>2. text[Found].head = "digits"
    BY <1>1, <2>1 DEF Owner
  <2> QED BY <2>2 DEF Labels
<1>5. m = Found
  BY <1>0, <1>2, <1>3, <1>4
<1> QED BY <1>1, <1>5 DEF Owner, DigitsIn

\* The last line of which digits were taken.
Past == IF eol THEN line ELSE line - 1

\* p is in a line after the label, and no label in between.
Place ==
  /\ Found \in 1..Len(text) /\ text[Found].head = label
  /\ line \in (Found + 1)..(Len(text) + 1) /\ (eol => line <= Len(text))
  /\ \A n \in (Found + 1)..Past : text[n].head \notin Labels

\* What was taken are the digits so far, but for the letters of a cut label.
TakenOf(g) ==
  IF Past = Len(text) /\ IsCutInLabel THEN IsPrefix(g[Past], taken) ELSE taken = g[Past]

BlockInv ==
  /\ text \in Texts /\ label \in Labels /\ taken \in Seq(Digits) /\ eol \in BOOLEAN
  /\ reading \in {"search", "lines", "read", "absent"}
  /\ reading = "search" => line = 1 /\ ~eol /\ taken = << >>
  /\ reading = "lines" => Place /\ \A g : Sums(g, label) => TakenOf(g)
  /\ BlockIsRead

LEMMA PrefixLaws ==
  ASSUME NEW s \in Seq(Digits), NEW t \in Seq(Digits)
  PROVE  IsPrefix(s, s \o t) /\ IsPrefix(s, s) /\ (IsPrefix(s, << >>) => s = << >>)
<1>1. IsPrefix(s, s \o t)
  BY DEF IsPrefix
<1>2. IsPrefix(s, s)
  BY DEF IsPrefix
<1>3. IsPrefix(s, << >>) => s = << >>
  BY DEF IsPrefix
<1> QED BY <1>1, <1>2, <1>3

\* Only the last line is a cut label.
LEMMA CutIsLast ==
  ASSUME text \in Texts
  PROVE  /\ IsCutInLabel => Len(text) \in Nat \ {0} /\ text[Len(text)].head = "cut"
         /\ \A n \in 1..Len(text) : text[n].head = "cut" => n = Len(text) /\ IsCutInLabel
<1>0. Len(text) \in Nat /\ text \in Seq(LineOf)
  BY TextLines, ZenonT(60)
<1>1. Last(text) = text[Len(text)]
  BY DEF Last
<1>2. text # << >> <=> Len(text) # 0
  BY <1>0
<1>3. IsCutInLabel <=> Len(text) # 0 /\ text[Len(text)].head = "cut"
  BY <1>1, <1>2 DEF IsCutInLabel
<1>4. \A n \in 1..Len(text) : text[n].head = "cut" => n = Len(text)
  BY TextLines, ZenonT(60)
<1> QED BY <1>0, <1>3, <1>4

LEMMA BlocksStart == ASSUME BlocksInit PROVE BlockInv
<1>1. << >> \in Seq(Digits)
  OBVIOUS
<1> QED BY <1>1 DEF BlocksInit, BlockInv, BlockIsRead

LEMMA LabelFound ==
  ASSUME BlockInv, Search
  PROVE  BlockInv'
<1>0. /\ text \in Texts /\ label \in Labels /\ reading = "search" /\ line = 1 /\ ~eol /\ taken = << >>
      /\ text' = text /\ label' = label /\ eol' = eol /\ taken' = taken
  BY DEF BlockInv, Search
<1>1. Len(text) \in Nat
  BY <1>0, TextLines, ZenonT(60)
<1>2. DOMAIN text = 1..Len(text)
  BY <1>0, TextLines, ZenonT(60)
<1>3. Found' = Found
  BY <1>0 DEF Found, SelectInSeq
<1>4. CASE Found # 0 /\ text[Found].ended
  <2>1. line' = Found + 1 /\ reading' = "lines"
    BY <1>4 DEF Search
  <2>2. Found \in 1..Len(text) /\ text[Found].head = label
    BY <1>0, <1>4, FoundIs
  <2>3. Past' = Found
    BY <1>0, <1>1, <2>1, <2>2 DEF Past
  <2>4. Place'
    BY <1>0, <1>1, <1>3, <2>1, <2>2, <2>3 DEF Place
  <2>5. ASSUME NEW g, Sums(g, label) PROVE taken = g[Found] /\ g[Found] \in Seq(Digits)
    <3>1. \A n \in 1..(Found - 1) : text[n].head # label
      <4>1. ASSUME NEW n \in 1..(Found - 1) PROVE n \in 1..Len(text) /\ n # Found
        BY <1>1, <2>2
      <4> QED BY <1>0, <2>2, <4>1, TextLines, ZenonT(60)
    <3>2. Found \in 0..Len(text)
      BY <1>1, <2>2
    <3> QED BY <1>0, <2>5, <3>1, <3>2, BeforeLabel DEF Sums
  <2>6. (\A g : Sums(g, label) => TakenOf(g))'
    <3>1. ASSUME NEW g, Sums(g, label) PROVE IF Found = Len(text) /\ IsCutInLabel THEN IsPrefix(g[Found], taken) ELSE taken = g[Found]
      BY <2>5, <3>1, PrefixLaws
    <3>2. IsCutInLabel' = IsCutInLabel
      BY <1>0 DEF IsCutInLabel
    <3>3. \A g : Sums(g, label)' = Sums(g, label)
      BY <1>0 DEF Sums, DigitsOf, DigitsIn
    <3> QED BY <1>0, <2>3, <3>1, <3>2, <3>3 DEF TakenOf
  <2>7. BlockIsRead'
    BY <2>1 DEF BlockIsRead
  <2>8. taken' \in Seq(Digits) /\ eol' \in BOOLEAN
    BY <1>0 DEF BlockInv
  <2> QED BY <1>0, <2>1, <2>4, <2>6, <2>7, <2>8 DEF BlockInv
<1>5. CASE ~(Found # 0 /\ text[Found].ended)
  <2>1. reading' = "absent"
    BY <1>5 DEF Search
  <2>2. PICK g : Sums(g, label)
    BY <1>0, SumsExist
  <2>3. \A n \in 1..(Len(text) - 1) : text[n].head # label
    <3>1. CASE Found = 0
      BY <1>0, <1>1, <3>1, FoundIs
    <3>2. CASE Found # 0
      <4>1. Found \in 1..Len(text) /\ text[Found].head = label
        BY <1>0, <3>2, FoundIs
      <4>2. Found = Len(text)
        BY <1>0, <1>5, <3>2, <4>1, TextLines, ZenonT(60)
      <4> QED BY <1>0, <1>1, <4>1, <4>2, TextLines
    <3> QED BY <3>1, <3>2
  <2>4. Len(text) \in 0..Len(text)
    BY <1>1
  <2>5. DigitsOf(label) = << >>
    BY <1>0, <2>2, <2>3, <2>4, BeforeLabel DEF Sums
  <2>6. DigitsOf(label)' = DigitsOf(label)
    BY <1>0 DEF DigitsOf, DigitsIn
  <2>7. BlockIsRead'
    BY <2>1, <2>5, <2>6, <1>0 DEF BlockIsRead
  <2>8. taken' \in Seq(Digits) /\ eol' \in BOOLEAN
    BY <1>0 DEF BlockInv
  <2> QED BY <1>0, <2>1, <2>7, <2>8 DEF BlockInv
<1> QED BY <1>4, <1>5

\* At the next label or at the end of the text all digits have been taken.
LEMMA BlockEnded ==
  ASSUME BlockInv, EndOfBlock
  PROVE  BlockInv'
<1>0. /\ text \in Texts /\ label \in Labels /\ reading = "lines" /\ AtEnd /\ Place
      /\ \A g : Sums(g, label) => TakenOf(g)
      /\ text' = text /\ label' = label /\ eol' = eol /\ taken' = taken /\ line' = line
      /\ taken \in Seq(Digits) /\ eol \in BOOLEAN
  BY DEF BlockInv, EndOfBlock
<1>1. Len(text) \in Nat
  BY <1>0, TextLines, ZenonT(60)
<1>2. DOMAIN text = 1..Len(text)
  BY <1>0, TextLines, ZenonT(60)
<1>3. PICK g : Sums(g, label)
  BY <1>0, SumsExist
<1>4. TakenOf(g)
  BY <1>0, <1>3
<1>5. DigitsOf(label) = g[Past] /\ g[Past] \in Seq(Digits)
  <2>1. CASE line \in 1..Len(text)
    <3>1. ~eol /\ text[line].head \in Labels
      BY <1>0, <1>2, <2>1 DEF AtEnd, IsLabel
    <3>2. Found \in 1..Len(text) /\ text[Found].head = label /\ Found < line
      BY <1>0, <1>1 DEF Place
    <3>3. Past = line - 1 /\ Past \in 0..Len(text)
      BY <1>1, <2>1, <3>1 DEF Past
    <3>4. DigitsOf(label) = g[line - 1]
      BY <1>0, <1>3, <2>1, <3>1, <3>2, AfterLabel
    <3> QED BY <1>3, <3>3, <3>4 DEF Sums
  <2>2. CASE ~(line \in 1..Len(text))
    <3>1. Found \in 1..Len(text) /\ line \in (Found + 1)..(Len(text) + 1) /\ (eol => line <= Len(text))
      BY <1>0 DEF Place
    <3>2. Past = Len(text) /\ Len(text) \in 0..Len(text)
      BY <1>1, <2>2, <3>1 DEF Past
    <3> QED BY <1>3, <3>2 DEF Sums
  <2> QED BY <2>1, <2>2
<1>6. IsPrefix(DigitsOf(label), taken) /\ (~IsCutInLabel => taken = DigitsOf(label))
  BY <1>4, <1>5, PrefixLaws DEF TakenOf
<1>7. taken = << >> => DigitsOf(label) = << >>
  BY <1>5, <1>6, PrefixLaws
<1>8. reading' = IF taken = << >> THEN "absent" ELSE "read"
  BY DEF EndOfBlock
<1>9. DigitsOf(label)' = DigitsOf(label) /\ IsCutInLabel' = IsCutInLabel
  BY <1>0 DEF DigitsOf, DigitsIn, IsCutInLabel
<1>10. BlockIsRead'
  BY <1>0, <1>6, <1>7, <1>8, <1>9 DEF BlockIsRead
<1> QED BY <1>0, <1>8, <1>10 DEF BlockInv

\* A line that is not a label is taken: as digits of the block, as a title
\* without digits, or as the letters of a cut label, with which the text ends.
LEMMA LineTaken ==
  ASSUME BlockInv, reading = "lines", ~AtEnd, ~eol, Take,
         UNCHANGED <<text, program, label, reading>>
  PROVE  BlockInv'
<1>0. /\ text \in Texts /\ label \in Labels /\ Place
      /\ \A g : Sums(g, label) => TakenOf(g)
      /\ text' = text /\ label' = label /\ reading' = reading
      /\ taken \in Seq(Digits)
  BY DEF BlockInv
<1>1. Len(text) \in Nat
  BY <1>0, TextLines, ZenonT(60)
<1>2. DOMAIN text = 1..Len(text)
  BY <1>0, TextLines, ZenonT(60)
<1>3. line \in 1..Len(text) /\ text[line].head \notin Labels
  BY <1>2 DEF AtEnd, IsLabel
<1>4. /\ text[line].ended \in BOOLEAN /\ (~text[line].ended => line = Len(text))
      /\ text[line].digits \in Seq(Digits)
  BY <1>0, <1>3, TextLines, ZenonT(60)
<1>5. /\ taken' = taken \o text[line].digits /\ eol' = text[line].ended
      /\ line' = IF text[line].ended THEN line ELSE line + 1
  BY DEF Take
<1>6. Past = line - 1 /\ Past' = line
  BY <1>3, <1>5 DEF Past
<1>7. Found' = Found /\ IsCutInLabel' = IsCutInLabel /\ DigitsOf(label)' = DigitsOf(label)
      /\ \A g : Sums(g, label)' = Sums(g, label)
  BY <1>0 DEF Found, SelectInSeq, IsCutInLabel, DigitsOf, DigitsIn, Sums
<1>8. Found \in 1..Len(text) /\ text[Found].head = label /\ Found < line
      /\ \A n \in (Found + 1)..(line - 1) : text[n].head \notin Labels
  BY <1>0, <1>1, <1>6 DEF Place
<1>9. Place'
  <2>1. line' \in (Found + 1)..(Len(text) + 1) /\ (eol' => line' <= Len(text))
    BY <1>1, <1>3, <1>4, <1>5, <1>8
  <2>2. \A n \in (Found + 1)..line : text[n].head \notin Labels
    BY <1>1, <1>3, <1>8
  <2> QED BY <1>0, <1>6, <1>7, <1>8, <2>1, <2>2 DEF Place
<1>10. taken' \in Seq(Digits)
  BY <1>0, <1>4, <1>5, ConcatProperties
<1>11. ASSUME NEW g, Sums(g, label)
       PROVE  IF line = Len(text) /\ IsCutInLabel THEN IsPrefix(g[line], taken') ELSE taken' = g[line]
  <2>1. taken = g[line - 1]
    <3>1. TakenOf(g)
      BY <1>0, <1>11
    <3>2. line - 1 # Len(text)
      BY <1>1, <1>3
    <3> QED BY <1>6, <3>1, <3>2 DEF TakenOf
  <2>2. g[line] = taken \o DigitsIn(line, label)
    BY <1>3, <1>11, <2>1 DEF Sums
  <2>3. CASE text[line].head = "digits"
    <3>1. DigitsIn(line, label) = text[line].digits
      BY <1>0, <1>3, <1>8, <2>3, OwnDigits
    <3>2. taken' = g[line]
      BY <1>5, <2>2, <3>1
    <3>3. IsPrefix(g[line], taken')
      BY <1>10, <3>2, PrefixLaws
    <3> QED BY <3>2, <3>3
  <2>4. CASE text[line].head = "cut"
    <3>1. line = Len(text) /\ IsCutInLabel
      BY <1>0, <1>3, <2>4, CutIsLast
    <3>2. g[line] = taken
      <4>1. DigitsIn(line, label) = << >>
        BY <2>4 DEF DigitsIn
      <4> QED BY <1>0, <2>2, <4>1, ConcatEmptySeq
    <3>3. IsPrefix(g[line], taken')
      BY <1>0, <1>4, <1>5, <3>2, PrefixLaws
    <3> QED BY <3>1, <3>3
  <2>5. CASE text[line].head \notin {"digits", "cut"}
    <3>1. text[line].digits = << >>
      BY <1>0, <1>3, <2>5, TextLines, ZenonT(60)
    <3>2. DigitsIn(line, label) = << >>
      BY <2>5 DEF DigitsIn
    <3>3. taken' = taken /\ g[line] = taken
      BY <1>0, <1>5, <2>2, <3>1, <3>2, ConcatEmptySeq
    <3>4. IsPrefix(g[line], taken')
      BY <1>0, <3>3, PrefixLaws
    <3> QED BY <3>3, <3>4
  <2> QED BY <2>3, <2>4, <2>5
<1>12. (\A g : Sums(g, label) => TakenOf(g))'
  BY <1>0, <1>6, <1>7, <1>11 DEF TakenOf
<1>13. BlockIsRead'
  BY <1>0 DEF BlockIsRead
<1>14. eol' \in BOOLEAN
  BY <1>4, <1>5
<1> QED BY <1>0, <1>9, <1>10, <1>12, <1>13, <1>14 DEF BlockInv

LEMMA NewlineSkipped ==
  ASSUME BlockInv, SkipNewline
  PROVE  BlockInv'
<1>0. /\ text \in Texts /\ label \in Labels /\ reading = "lines" /\ eol /\ Place
      /\ \A g : Sums(g, label) => TakenOf(g)
      /\ text' = text /\ label' = label /\ reading' = reading /\ taken' = taken
      /\ taken \in Seq(Digits) /\ line' = line + 1 /\ eol' = FALSE
  BY DEF BlockInv, SkipNewline, AtNewline
<1>1. Len(text) \in Nat
  BY <1>0, TextLines, ZenonT(60)
<1>2. Found' = Found /\ IsCutInLabel' = IsCutInLabel /\ DigitsOf(label)' = DigitsOf(label)
      /\ \A g : Sums(g, label)' = Sums(g, label)
  BY <1>0 DEF Found, SelectInSeq, IsCutInLabel, DigitsOf, DigitsIn, Sums
<1>3. /\ Found \in 1..Len(text) /\ text[Found].head = label
      /\ line \in (Found + 1)..(Len(text) + 1) /\ line <= Len(text)
      /\ \A n \in (Found + 1)..line : text[n].head \notin Labels /\ Past = line
  BY <1>0 DEF Place, Past
<1>4. Past' = line /\ Past = line
  BY <1>0, <1>1, <1>3 DEF Past
<1>5. line' \in (Found + 1)..(Len(text) + 1)
  BY <1>0, <1>1, <1>3
<1>6. Place'
  BY <1>0, <1>2, <1>3, <1>4, <1>5 DEF Place
<1>7. (\A g : Sums(g, label) => TakenOf(g))'
  BY <1>0, <1>2, <1>4 DEF TakenOf
<1>8. BlockIsRead'
  BY <1>0 DEF BlockIsRead
<1> QED BY <1>0, <1>6, <1>7, <1>8 DEF BlockInv

\* Both readers take the digits under the label, all and no others, from any
\* text that OpenSSL prints and wherever it is cut, but for the letters of a
\* label that is cut.
THEOREM BlocksAreRead == BlocksSpec => []BlockIsRead
<1>1. BlocksInit => BlockInv
  BY BlocksStart
<1>2. BlockInv /\ [BlocksNext]_blockVars => BlockInv'
  <2> SUFFICES ASSUME BlockInv, [BlocksNext]_blockVars PROVE BlockInv'
    OBVIOUS
  <2>1. CASE Search BY <2>1, LabelFound
  <2>2. CASE EndOfBlock BY <2>2, BlockEnded
  <2>3. CASE TakeLine BY <2>3, LineTaken DEF TakeLine
  <2>4. CASE SkipNewline BY <2>4, NewlineSkipped
  <2>5. CASE OtherLetter BY <2>5, LineTaken DEF OtherLetter
  <2>6. CASE UNCHANGED blockVars
    <3>1. /\ text' = text /\ label' = label /\ reading' = reading /\ taken' = taken
          /\ line' = line /\ eol' = eol
      BY <2>6 DEF blockVars
    <3> QED BY <3>1 DEF BlockInv, Place, Past, TakenOf, Sums, BlockIsRead, DigitsOf, DigitsIn,
                        IsCutInLabel, Found, SelectInSeq
  <2> QED BY <2>1, <2>2, <2>3, <2>4, <2>5, <2>6 DEF BlocksNext
<1>3. BlockInv => BlockIsRead
  BY DEF BlockInv
<1> QED BY <1>1, <1>2, <1>3, PTL DEF BlocksSpec
=============================================================================
