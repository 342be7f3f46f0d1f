------------------------------- MODULE Range -------------------------------
(***************************************************************************)
(* Address ranges of the MPS (range.h): a range is a half-open interval    *)
(* [base, limit) of arena grains.  Addresses are abstracted to the grains  *)
(* 0 .. N-1 of a small address space, so that alignment is always 1 grain. *)
(* This module also fixes the record that an operation of a land returns  *)
(* to its caller, so that the abstract and the detailed land agree on it.  *)
(***************************************************************************)
EXTENDS Naturals

CONSTANT N          \* number of grains in the modelled address space

ASSUME NAssumption == N \in Nat \ {0}

Addr == 0 .. N - 1

\* RangeStruct: base <= limit; RangeIsEmpty when base = limit.
RangeRec == [base : 0 .. N, limit : 0 .. N]
Ranges == {r \in RangeRec : r.base < r.limit}

Rng(b, l) == [base |-> b, limit |-> l]

\* The grains a range covers.
Span(r) == r.base .. (r.limit - 1)

RangeSize(r) == r.limit - r.base

\* RangesNest(outer, inner): inner lies inside outer.
RangesNest(outer, inner) ==
  outer.base <= inner.base /\ inner.limit <= outer.limit

NoRange == Rng(0, 0)

(***************************************************************************)
(* Result codes (Res) and the find-delete modes (FindDelete).  "ALLOC"     *)
(* stands for every result for which ResIsAllocFailure holds.              *)
(***************************************************************************)
Results == {"OK", "FAIL", "ALLOC"}
FindDeletes == {"NONE", "LOW", "HIGH", "ENTIRE"}
Ops == {"none", "insert", "insertSteal", "delete", "deleteSteal",
        "findFirst", "findLast", "findLargest"}
Sizes == 1 .. N

\* What an operation returned to its caller: the operation, its range
\* argument (or the size asked of a find), the result, the range returned
\* in rangeReturn and, for a find, in oldRangeReturn.
Out(op, arg, size, fd, res, ret, old) ==
  [op |-> op, arg |-> arg, size |-> size, fd |-> fd,
   res |-> res, ret |-> ret, old |-> old]

NoOut == Out("none", NoRange, 0, "NONE", "OK", NoRange, NoRange)

OutRec == [op : Ops, arg : RangeRec, size : 0 .. N, fd : FindDeletes,
           res : Results, ret : RangeRec, old : RangeRec]

(***************************************************************************)
(* The part of a found block that a find deletes (cbsFindDeleteRange):     *)
(* NONE returns the whole block and deletes nothing, LOW and HIGH the      *)
(* lowest or highest size grains of it, ENTIRE the whole block.            *)
(***************************************************************************)
\* Mutant: the HIGH part taken one grain too high.
MutFindDeleteRangeHigh(b, size, fd) ==
  CASE fd \in {"NONE", "ENTIRE"} -> b
    [] fd = "LOW"  -> Rng(b.base, b.base + size)
    [] fd = "HIGH" -> Rng(b.limit - size + 1, b.limit + 1)

FindDeleteRange(b, size, fd) ==
  CASE fd \in {"NONE", "ENTIRE"} -> b
    [] fd = "LOW"  -> Rng(b.base, b.base + size)
    [] fd = "HIGH" -> Rng(b.limit - size, b.limit)

FindDeleted(found, fd) == IF fd = "NONE" THEN {} ELSE Span(found)
=============================================================================
