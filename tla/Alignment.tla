----------------------------- MODULE Alignment -----------------------------
(***************************************************************************)
(* align() of carbonc/common.hh, which both the layout of structures and   *)
(* the layout of stack frames are built from.                              *)
(***************************************************************************)
EXTENDS Integers

(* Mutant: rounds down.                                                    *)
AlignDown(number, alignment) == number - (number % alignment)

(* align(number, alignment) of common.hh; alignment is not 0.              *)
Align(number, alignment) ==
  LET offset == number % alignment
  IN  IF offset # 0 THEN number - offset + alignment ELSE number
=============================================================================
