----------------------------- MODULE TextBlocks -----------------------------
(***************************************************************************)
(* How the digits of a block are taken out of the text that OpenSSL prints *)
(* for a key: extract_block of source/app_from_openssl.c and the loop over *)
(* names[] of source/openssl_from_app.c, which is written differently.     *)
(*                                                                         *)
(* The text is external: a title and the blocks that the key has, each a   *)
(* label and lines of digits.  It may end anywhere, in the middle of a line *)
(* too, when the process or the disk that held it failed.  A line says how *)
(* it begins, as that is what the readers look at; two lines of digits     *)
(* are never confused.                                                     *)
(***************************************************************************)
EXTENDS Integers, Sequences, SequencesExt

CONSTANT Texts   \* bound: the texts that are read

Labels == {"seed:", "priv:", "pub:"}

\* head: a label; "digits", for digits or blanks; "title"; and "cut", a label
\* that is cut short.  digits: those of the line, or the letters of a cut label
\* from the first on that is a digit of base 16.  ended: with a newline.
TextLine(head, digits, ended) == [head |-> head, digits |-> digits, ended |-> ended]

Digits == (Labels \cup {"letter"}) \X Nat

\* What OpenSSL prints, as far as it came: each block is printed once, its lines
\* of digits follow its label, and only the last line may be cut.
IsText(t) ==
  /\ t \in Seq([head : Labels \cup {"title", "digits", "cut"}, digits : Seq(Digits), ended : BOOLEAN])
  /\ \A n \in DOMAIN t :
       /\ ~t[n].ended \/ t[n].head = "cut" => n = Len(t)
       /\ t[n].digits # << >> => t[n].head \in {"digits", "cut"}
       /\ t[n].head = "digits" =>
            \E m \in 1..(n - 1) :
              /\ t[m].head \in Labels
              /\ \A o \in (m + 1)..n : t[o].head = "digits"
              /\ \A k \in DOMAIN t[n].digits : t[n].digits[k][1] = t[m].head
       /\ \A m \in DOMAIN t : t[m].head \in Labels /\ t[m].head = t[n].head => m = n

ASSUME TextsAssumption == \A t \in Texts : IsText(t)

VARIABLES text,
          program, label,   \* who reads, and which block
          line, eol,        \* the line that p is in, and whether at its end
          taken,            \* the digits collected, with clean_hex applied
          reading           \* "search", "lines", "read", or "absent"

blockVars == <<text, program, label, line, eol, taken, reading>>

BlocksInit ==
  /\ text \in Texts
  /\ program \in {"app_from_openssl", "openssl_from_app"}
  /\ label \in Labels
  /\ line = 1 /\ eol = FALSE /\ taken = << >> /\ reading = "search"

Found == SelectInSeq(text, LAMBDA l : l.head = label)

\* strstr for the label, strchr for the end of its line
Search ==
  /\ reading = "search"
  /\ IF Found # 0 /\ text[Found].ended
     THEN line' = Found + 1 /\ reading' = "lines"
     ELSE reading' = "absent" /\ UNCHANGED line
  /\ UNCHANGED <<text, program, label, eol, taken>>

IsLabelButPub(head) == head \in Labels \ {"pub:"}
IsLabel(head) == head \in Labels

\* The next label or the end of the text.
AtEnd == line \in DOMAIN text => ~eol /\ IsLabel(text[line].head)

\* A block of no digits at all is NULL, or "je prazdny".
EndOfBlock ==
  /\ reading = "lines" /\ AtEnd
  /\ reading' = IF taken = << >> THEN "absent" ELSE "read"
  /\ UNCHANGED <<text, program, label, line, eol, taken>>

\* The rest of the line is taken, up to its newline or the end of the text.
Take ==
  /\ taken' = taken \o text[line].digits
  /\ eol' = text[line].ended
  /\ line' = IF text[line].ended THEN line ELSE line + 1

TakeLine ==
  /\ reading = "lines" /\ ~AtEnd /\ ~eol
  /\ text[line].head = "digits"
  /\ Take
  /\ UNCHANGED <<text, program, label, reading>>

\* if (*p == '\n') p++; or if (*p) p++;
NeverAtNewline == FALSE
AtNewline      == eol
SkipNewline ==
  /\ reading = "lines" /\ ~AtEnd /\ AtNewline
  /\ line' = line + 1 /\ eol' = FALSE
  /\ UNCHANGED <<text, program, label, taken, reading>>

\* A line that begins with another letter: openssl_from_app.c goes on behind
\* that letter, and takes the rest of the line once a letter is a digit of
\* base 16; extract_block stays where it is, for ever.
OtherLetter ==
  /\ reading = "lines" /\ ~AtEnd /\ ~eol
  /\ text[line].head # "digits"
  /\ program = "openssl_from_app"
  /\ Take
  /\ UNCHANGED <<text, program, label, reading>>

BlocksNext == Search \/ EndOfBlock \/ TakeLine \/ SkipNewline \/ OtherLetter
BlocksSpec == BlocksInit /\ [][BlocksNext]_blockVars /\ WF_blockVars(BlocksNext)

-----------------------------------------------------------------------------
IsCutInLabel == text # << >> /\ Last(text).head = "cut"

\* The digits OpenSSL printed under a label: a digit names its block.
DigitsIn(n, l) ==
  IF text[n].head = "digits" /\ \A k \in DOMAIN text[n].digits : text[n].digits[k][1] = l
  THEN text[n].digits ELSE << >>
DigitsOf(l) == FlattenSeq([n \in DOMAIN text |-> DigitsIn(n, l)])

\* Both readers find the digits of the block they ask for, all of them that
\* were printed, in their order, and no others, whichever blocks the key has
\* and wherever the text ends, but for the letters of a label that is cut.
BlockIsRead ==
  /\ reading = "read" /\ ~IsCutInLabel => taken = DigitsOf(label)
  /\ reading = "read" => IsPrefix(DigitsOf(label), taken)
  /\ reading = "absent" => DigitsOf(label) = << >>

\* Both come to an end, but for extract_block on a text that is cut in a label.
BlockReadersReturn ==
  <>(reading \in {"read", "absent"} \/ (IsCutInLabel /\ program = "app_from_openssl"))
=============================================================================
