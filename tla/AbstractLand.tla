---------------------------- MODULE AbstractLand ----------------------------
(***************************************************************************)
(* What a land promises its caller (the Land interface of the              *)
(* specification, section 3), over the set of free grains alone:           *)
(*  - insert of grains that are not free succeeds and frees them, and the  *)
(*    returned range holds the inserted one;                               *)
(*  - a delete that succeeds removes exactly its range, which lay inside   *)
(*    the free range it returns; one that fails changes nothing;           *)
(*  - a find that succeeds returns a free range of at least the size      *)
(*    asked and deletes the part its mode names; a miss changes nothing;   *)
(*  - the steal variants may also give up one free grain, outside the      *)
(*    range deleted or at the start of the range inserted, to the land's   *)
(*    own bookkeeping.                                                     *)
(***************************************************************************)
EXTENDS Range

CONSTANT Disciplined

VARIABLES free, last

Init == free = {} /\ last = NoOut

Fragment(old, r) == Span(old) \ Span(r)

Insert(r) ==
  /\ Disciplined => Span(r) \cap free = {}
  /\ \/ /\ Span(r) \cap free = {}
        /\ free' = free \cup Span(r)
        /\ \E ret \in Ranges :
             /\ RangesNest(ret, r) /\ Span(ret) \subseteq free'
             /\ last' = Out("insert", r, 0, "NONE", "OK", ret, NoRange)
     \/ /\ Span(r) \cap free # {}
        /\ free' = free
        /\ last' = Out("insert", r, 0, "NONE", "FAIL", NoRange, NoRange)

InsertSteal(r) ==
  /\ Disciplined => Span(r) \cap free = {}
  /\ \/ /\ Span(r) \cap free = {}
        /\ \E kept \in {Span(r), Span(r) \ {r.base}} :
             /\ free' = free \cup kept
             /\ \E ret \in Ranges :
                  /\ kept \subseteq Span(ret) /\ Span(ret) \subseteq free'
                  /\ last' = Out("insertSteal", r, 0, "NONE", "OK", ret, NoRange)
     \/ /\ Span(r) \cap free # {}
        /\ free' = free
        /\ last' = Out("insertSteal", r, 0, "NONE", "FAIL", NoRange, NoRange)

Delete(r) ==
  \/ \E old \in Ranges :
       /\ RangesNest(old, r) /\ Span(old) \subseteq free
       /\ free' = free \ Span(r)
       /\ last' = Out("delete", r, 0, "NONE", "OK", old, NoRange)
  \/ /\ free' = free
     /\ last' = Out("delete", r, 0, "NONE", "FAIL", NoRange, NoRange)

DeleteSteal(r) ==
  \/ \E old \in Ranges :
       /\ RangesNest(old, r) /\ Span(old) \subseteq free
       /\ \E stolen \in {{}} \cup {{g} : g \in Fragment(old, r)} :
            free' = free \ (Span(r) \cup stolen)
       /\ last' = Out("deleteSteal", r, 0, "NONE", "OK", old, NoRange)
  \/ /\ free' = free
     /\ last' = Out("deleteSteal", r, 0, "NONE", "FAIL", NoRange, NoRange)

Find(kind, size, fd) ==
  \/ \E old \in Ranges :
       /\ Span(old) \subseteq free /\ RangeSize(old) >= size
       /\ free' = free \ FindDeleted(FindDeleteRange(old, size, fd), fd)
       /\ last' = Out(kind, NoRange, size, fd, "OK",
                      FindDeleteRange(old, size, fd), old)
  \/ /\ free' = free
     /\ last' = Out(kind, NoRange, size, fd, "FAIL", NoRange, NoRange)

Next ==
  \/ \E r \in Ranges : Insert(r) \/ InsertSteal(r) \/ Delete(r) \/ DeleteSteal(r)
  \/ \E size \in Sizes, fd \in FindDeletes,
        kind \in {"findFirst", "findLast", "findLargest"} : Find(kind, size, fd)

Spec == Init /\ [][Next]_<<free, last>>
=============================================================================
