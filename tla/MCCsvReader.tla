---------------------------- MODULE MCCsvReader ----------------------------
(***************************************************************************)
(* CsvReader for TLC: files of up to three lines, whose lengths lie on     *)
(* both sides of every size the buffer can have, ended or not.             *)
(***************************************************************************)
EXTENDS CsvReader

LOCAL INSTANCE SequencesExt

CONSTANT MAX_NUMBERS  \* bound: integers on a line

\* The numbers tell where they stand.
Line(k, length) ==
  [i \in 1..(IF length = 0 THEN 0 ELSE 2 * length - 1) |->
     IF i % 2 = 0 THEN Comma ELSE 10 * k + (i + 1) \div 2]

Lengths == UNION {[1..k -> 0..MAX_NUMBERS] : k \in 0..3}
MCFiles ==
  LET Unended(l) == FlattenSeq([i \in 1..(2 * Len(l) - 1) |->
                      IF i % 2 = 1 THEN Line(i, l[(i + 1) \div 2]) ELSE <<Newline>>])
  IN {<<>>} \union UNION {{Unended(l), Append(Unended(l), Newline)} : l \in Lengths \ {<<>>}}
=============================================================================
