---------------------------- MODULE ShellParser ----------------------------
(***************************************************************************)
(* How lab03-Group12 takes a line apart: trimstring of parser.c, and       *)
(* strtok, strchr and parse_args as shell.c uses them.                     *)
(*                                                                         *)
(* A char is one of the special ones below or any other string.  A memory  *)
(* is a sequence of chars; a C string in it ends before the next Nul, and  *)
(* what lies behind that Nul is whatever was there before.                 *)
(***************************************************************************)
EXTENDS Integers, Sequences, FiniteSetsExt

CONSTANTS
  MAX_ARGS,   \* entries of args[], the closing NULL included
  EXECUTABLE  \* the words find_path finds a program for

ASSUME MaxArgsAssumption == MAX_ARGS \in Nat \ {0}

Nul == "nul"
Space == "space"
Tab == "tab"
Newline == "newline"
Quote == "quote"
Pipe == "pipe"
Blanks == {Space, Tab, Newline}

At(mem, i) == IF i \in DOMAIN mem THEN mem[i] ELSE Nul
\* The first place at or after i that holds one of the chars, the end if none,
\* and the first that holds none of them.
FirstOf(mem, i, chars) ==
  CHOOSE j \in i..(Len(mem) + 1) :
    /\ j \in DOMAIN mem => mem[j] \in chars
    /\ \A k \in i..(j - 1) : mem[k] \notin chars
SkipOver(mem, i, chars) ==
  CHOOSE j \in i..(Len(mem) + 1) : At(mem, j) \notin chars /\ \A k \in i..(j - 1) : mem[k] \in chars
StrAt(mem, i) == SubSeq(mem, i, FirstOf(mem, i, {Nul}) - 1)

\* trimstring: the blanks at the end of the string become Nul.
LastPrintable(str) == Max({j \in 1..Len(str) : str[j] \notin Blanks} \union {0})
TrimString(mem) ==
  LET str == StrAt(mem, 1)
  IN [j \in 1..Len(mem) |-> IF j \in LastPrintable(str)+1..Len(str) THEN Nul ELSE mem[j]]

\* strtok(mem, " "): the first token, and a Nul where it ends.
TokenStart(mem) == SkipOver(mem, 1, {Space})
TokenEnd(mem) == FirstOf(mem, TokenStart(mem), {Space, Nul})
StrTok(mem) == SubSeq(mem, TokenStart(mem), TokenEnd(mem) - 1)
AfterStrTok(mem) == [mem EXCEPT ![TokenEnd(mem)] = Nul]

\* Mutant of MaxArgs: no room is left for the closing NULL.
MaxArgsFull == MAX_ARGS
MaxArgs == MAX_ARGS - 1
\* parse_args from place i on.  The end of every argument becomes a Nul, and
\* the walk goes on behind it, also when it was one before: a line that strtok
\* has cut is parsed to its end that way, and so is what follows the string.
ParseArgs(mem, start) ==
  LET args[i \in 1..(Len(mem) + 2)] ==
        [argc \in 0..MAX_ARGS |->
           IF At(mem, i) = Nul \/ argc >= MaxArgs THEN <<>>
           ELSE LET word == SkipOver(mem, i, Blanks)
                    quoted == At(mem, word) = Quote
                    first == IF quoted THEN word + 1 ELSE word
                    end == FirstOf(mem, first, IF quoted THEN {Quote, Nul} ELSE Blanks \union {Nul})
                IN <<SubSeq(mem, first, end - 1)>> \o args[end + 1][argc + 1]]
  IN args[start][0]

-----------------------------------------------------------------------------
(* What an argument is, by a scanner that knows nothing of memory: words    *)
(* separated by blanks, and what is between quotes is one word.  slack      *)
(* counts the blanks after the one, or the quote, that ended a word.        *)

Scanner == [words |-> <<>>, word |-> <<>>, mode |-> "out", slack |-> 0]

Scan(s, c) ==
  LET Out(t) == [t EXCEPT !.words = Append(@, t.word), !.word = <<>>, !.mode = "out", !.slack = 0]
  IN CASE s.mode = "out" /\ c \in Blanks -> [s EXCEPT !.slack = @ + 1]
       [] s.mode = "out" /\ c = Quote -> [s EXCEPT !.mode = "quoted"]
       [] s.mode = "out" /\ c \notin Blanks \union {Quote} -> [s EXCEPT !.mode = "word", !.word = <<c>>]
       [] s.mode = "word" /\ c \in Blanks -> Out(s)
       [] s.mode = "quoted" /\ c = Quote -> Out(s)
       [] OTHER -> [s EXCEPT !.word = Append(@, c)]

Scanned(text) ==
  LET after[i \in 0..Len(text)] == IF i = 0 THEN Scanner ELSE Scan(after[i - 1], text[i])
  IN after[Len(text)]
Words(text) ==
  LET s == Scanned(text) IN IF s.mode = "out" THEN s.words ELSE Append(s.words, s.word)

FirstArgs(words) == SubSeq(words, 1, Min({MAX_ARGS - 1, Len(words)}))
=============================================================================
