----------------------------- MODULE MCAlignUp ------------------------------
(***************************************************************************)
(* ALIGN_UP evaluated for every size of an 8-bit size_t and every power of *)
(* two alignment up to sizeof(obj_s): a behaviour picks the arguments and  *)
(* takes one step that computes the macro.                                 *)
(***************************************************************************)
EXTENDS SizeArith

VARIABLES a, b, r, computed

Init ==
  /\ a \in 0..2^W - 1
  /\ b \in {2^k : k \in 0..4}
  /\ r = 0
  /\ computed = FALSE

Compute ==
  /\ ~computed
  /\ r' = AlignUp(a, b)
  /\ computed' = TRUE
  /\ UNCHANGED <<a, b>>

Spec == Init /\ [][Compute]_<<a, b, r, computed>>

(* ALIGN_UP, computed with size_t's wrap-around and bit masks, rounds up   *)
(* to the alignment for every size that fits in size_t, and wraps to 0     *)
(* beyond: obj_skip's step is the object's size rounded up.                *)
AlignUpCorrect == computed => r = AlignUpRef(a, b)
=============================================================================
