-------------------------------- MODULE Land --------------------------------
(***************************************************************************)
(* The child lands of a Failover, as the Land interface describes them.    *)
(* In MVFF the primary is a CBS and the secondary a freelist; both         *)
(* coalesce a range with its neighbours, so a child is a set of free       *)
(* grains and its blocks are the maximal runs of that set.                 *)
(*                                                                         *)
(* Each operation is a set of outcomes, records [res, land, ret]: the     *)
(* result code, the child's grains afterwards and the range returned.      *)
(* A child that may fail (mayFail, the CBS) can return ALLOC whenever it   *)
(* needs a new block descriptor: for an insert that touches no existing    *)
(* block and for a delete that splits a block in two.  The freelist keeps  *)
(* its descriptors inside the free memory and never fails that way.        *)
(* The child implementations are not part of this repository's sources:    *)
(* these operators follow the Land contract of the specification.          *)
(***************************************************************************)
EXTENDS Range

IsBlock(S, b) ==
  /\ Span(b) \subseteq S
  /\ b.base - 1 \notin S
  /\ b.limit \notin S

Blocks(S) == {b \in Ranges : IsBlock(S, b)}

\* The blocks of S that contain range r (at most one).
Holders(S, r) == {b \in Blocks(S) : RangesNest(b, r)}

\* Inserting r makes a block of its own: a new descriptor is needed.
NeedsNode(S, r) == r.base - 1 \notin S /\ r.limit \notin S

\* Deleting r from block b leaves two fragments: a new descriptor is needed.
Splits(b, r) == b.base < r.base /\ r.limit < b.limit

\* rangeReturn is not defined after a failure: NoRange stands for it.
Fail(S) == [res |-> "FAIL", land |-> S, ret |-> NoRange]

(* LandInsert: FAIL on overlap; otherwise the range joins the land and the *)
(* coalesced block holding it is returned, or the descriptor allocation    *)
(* fails and the land is unchanged.                                        *)
LandInsert(S, r, mayFail) ==
  IF Span(r) \cap S # {} THEN {Fail(S)}
  ELSE {[res |-> "OK", land |-> S \cup Span(r), ret |-> b] :
          b \in Holders(S \cup Span(r), r)}
       \cup (IF mayFail /\ NeedsNode(S, r)
               THEN {[res |-> "ALLOC", land |-> S, ret |-> r]} ELSE {})

(* LandDelete: FAIL unless one block holds r; otherwise r leaves the land  *)
(* and the old block is returned, or a split cannot get its descriptor and *)
(* the land is unchanged, the old block still being returned.              *)
LandDelete(S, r, mayFail) ==
  IF Holders(S, r) = {} THEN {Fail(S)}
  ELSE {[res |-> "OK", land |-> S \ Span(r), ret |-> b] : b \in Holders(S, r)}
       \cup {[res |-> "ALLOC", land |-> S, ret |-> b] :
               b \in {h \in Holders(S, r) : mayFail /\ Splits(h, r)}}

(* LandInsertSteal: as LandInsert, but when the descriptor allocation      *)
(* fails the child takes the first grain of the range for its own block    *)
(* pool and inserts the rest, so the result is OK or FAIL.                 *)
LandInsertSteal(S, r, mayFail) ==
  LET rest == Rng(r.base + 1, r.limit)
      inserted == {r} \cup (IF mayFail /\ NeedsNode(S, r) /\ RangeSize(r) > 1
                              THEN {rest} ELSE {})
  IN IF Span(r) \cap S # {} THEN {Fail(S)}
     ELSE UNION {{[res |-> "OK", land |-> S \cup Span(x), ret |-> b] :
                    b \in Holders(S \cup Span(x), x)} : x \in inserted}

(* LandDeleteSteal: as LandDelete, but when a split cannot get its         *)
(* descriptor the child takes the last grain of the old block for its      *)
(* block pool, so the result is OK or FAIL.                                *)
LandDeleteSteal(S, r, mayFail) ==
  IF Holders(S, r) = {} THEN {Fail(S)}
  ELSE {[res |-> "OK", land |-> S \ Span(r), ret |-> b] : b \in Holders(S, r)}
       \cup {[res |-> "OK", land |-> S \ (Span(r) \cup {h.limit - 1}), ret |-> h] :
               h \in {x \in Holders(S, r) : mayFail /\ Splits(x, r)}}

(***************************************************************************)
(* LandFindFirst, LandFindLast, LandFindLargest: the blocks a child may    *)
(* pick for a request of size grains.  First and last are by address;     *)
(* among blocks of the largest size the child may pick any.               *)
(***************************************************************************)
Fits(S, size) == {b \in Blocks(S) : RangeSize(b) >= size}

Picks(S, kind, size) ==
  CASE kind = "findFirst" ->
         {b \in Fits(S, size) : \A c \in Fits(S, size) : b.base <= c.base}
    [] kind = "findLast" ->
         {b \in Fits(S, size) : \A c \in Fits(S, size) : c.base <= b.base}
    [] kind = "findLargest" ->
         {b \in Fits(S, size) :
            \A c \in Blocks(S) : RangeSize(c) <= RangeSize(b)}

(* A find that picks block b deletes the part fd names; that deletion      *)
(* only shortens b from one end or removes it, so it cannot fail.          *)
LandFind(S, kind, size, fd) ==
  IF Picks(S, kind, size) = {}
    THEN {[found |-> FALSE, land |-> S, ret |-> NoRange, old |-> NoRange]}
    ELSE {[found |-> TRUE,
           land |-> S \ FindDeleted(FindDeleteRange(b, size, fd), fd),
           ret |-> FindDeleteRange(b, size, fd), old |-> b] :
            b \in Picks(S, kind, size)}

(***************************************************************************)
(* LandFlush(dest, src): visit the blocks of src in address order (the     *)
(* freelist is sorted), insert each into dest and delete it from src,      *)
(* stopping at the first insert that does not succeed.  The flush can stop *)
(* at a block that overlaps dest (it must) or that needs a descriptor in   *)
(* dest (it may); the grains below the stopping point have moved.         *)
(***************************************************************************)
MustStop(D, b) == Span(b) \cap D # {}
MayStop(D, b, mayFail) == MustStop(D, b) \/ (mayFail /\ NeedsNode(D, b))

FlushCuts(D, S, mayFail) ==
  {c \in {b.base : b \in {x \in Blocks(S) : MayStop(D, x, mayFail)}} \cup {N} :
     \A b \in Blocks(S) : MustStop(D, b) => c <= b.base}

LandFlush(D, S, mayFail) ==
  {[dest |-> D \cup {a \in S : a < c}, src |-> {a \in S : a >= c}] :
     c \in FlushCuts(D, S, mayFail)}
=============================================================================
