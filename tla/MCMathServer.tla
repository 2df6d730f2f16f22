---------------------------- MODULE MCMathServer ----------------------------
(***************************************************************************)
(* MathServer for TLC: every type of operation with arguments that wrap a  *)
(* word, trap, or reach the several pieces of pri.                         *)
(***************************************************************************)
EXTENDS MathServer

Op(type, arg2) == [type |-> type, arg2 |-> arg2]

MCOps == {Op("set", WORD - 1), Op("add", WORD - 1), Op("mul", 2), Op("div", 0),
          Op("div", 2), Op("fib", 0), Op("pri", 0), Op("unknown", 0)}
=============================================================================
