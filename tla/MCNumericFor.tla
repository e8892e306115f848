---------------------------- MODULE MCNumericFor ----------------------------
(***************************************************************************)
(* NumericFor at a width of four bits, over every range of the width, also *)
(* with steps that lead away from the end or past the width.               *)
(***************************************************************************)
EXTENDS NumericFor

Low == -8

AllRanges == [start : Word, end : Word, stepped : {TRUE}, step : {-7, -3, -2, -1, 0, 1, 2, 3, 7}]
               \cup [start : Word, end : Word, stepped : {FALSE}, step : {0}]
=============================================================================
