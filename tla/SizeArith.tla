------------------------------ MODULE SizeArith -----------------------------
(***************************************************************************)
(* size_t arithmetic of src/code/forktest.c at a width of W bits, and the  *)
(* ALIGN_UP macro of line 38 computed as the C does, with wrap-around and  *)
(* bit masks.                                                              *)
(***************************************************************************)
EXTENDS Naturals, Bitwise

CONSTANT W  \* the width of size_t in bits

ASSUME SizeArithAssumption == W \in Nat \ {0}

(* size_t arithmetic and ~ at width W.                                     *)
SizeT(x) == x % 2^W
BitNot(x) == x ^^ (2^W - 1)

(* Mutant: ALIGN_UP without the - 1.                                       *)
MutAlignUpNoMinus(a, b) == SizeT(a + b) & BitNot(b - 1)

(* ALIGN_UP(a, b), line 38.                                                *)
AlignUp(a, b) == SizeT(a + b - 1) & BitNot(b - 1)

(* The reference: the smallest multiple of b not below a, or 0 where that  *)
(* does not fit in W bits.                                                 *)
AlignUpRef(a, b) ==
  IF a + b - 1 < 2^W THEN ((a + b - 1) \div b) * b ELSE 0
=============================================================================
