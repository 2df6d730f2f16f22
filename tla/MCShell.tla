------------------------------ MODULE MCShell ------------------------------
(***************************************************************************)
(* Shell for TLC: lines whose arguments, quotes, blanks and pipes lie in   *)
(* all positions, "a" and "b" being programs and "x" none.                 *)
(***************************************************************************)
EXTENDS Shell

MCExecutable == {<<"a">>, <<"b">>}

\* Blanks around words, words that are quoted, or more than fit, or no word.
Regular ==
  {<<Space, "a", Space, Space, "b", Tab, Newline>>,
   <<"a", Space, Quote, "b", Space, "c", Quote, Space, "d", Space, "e", Newline>>,
   <<"x", Space, Quote, Newline>>, <<Newline>>, <<Space, "q", Newline>>, <<"q", Newline>>}

Piped ==
  {<<"a", Space, Pipe, Space, "b", Space, "c", Newline>>, <<"a", Pipe, "b", Newline>>,
   <<"a", Space, Space, Pipe, "b", Space, "c", Newline>>,
   <<"a", Space, Quote, "b", Quote, Pipe, "b", Newline>>,
   <<"a", Quote, "c", Space, Quote, "b", Quote, Space, Pipe, "b", Newline>>,
   <<"a", Space, Quote, "b", Pipe, "c", Pipe, Newline>>,
   <<Pipe, "b", Newline>>, <<Tab, "a", Space, Pipe, Newline>>,
   <<"x", Pipe, "b", Newline>>, <<"a", Space, Pipe, "x", Newline>>, <<"x", Space, Pipe, "x", Newline>>}

\* More than a buffer holds.
Long == <<"a">> \o [i \in 1..BUFLEN |-> IF i % 2 = 1 THEN Space ELSE "b"] \o <<Newline>>

\* What comes after the first line: the last has no newline, so that the end of
\* the line before is still behind it.
Second == {<<"q", Newline>>, <<"x", Newline>>, <<"a", Pipe, "b", Newline>>,
           <<"a", Space, Pipe, "b", Newline>>, <<"a">>}
\* What the stack holds behind a first line: nothing, or words.
MCStacks == {[i \in 1..BUFLEN |-> Nul], [i \in 1..BUFLEN |-> IF i % 4 = 0 THEN Nul ELSE "b"]}

UnknownThrice == <<"x", Newline, "x", Newline, "x", Newline>>

MCScripts ==
  {first \o second : first \in Regular \union Piped \union {Long}, second \in Second}
  \union {UnknownThrice, <<"a", Pipe, "b">>}
=============================================================================
