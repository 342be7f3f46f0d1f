------------------------------ MODULE ObjFormat -----------------------------
(***************************************************************************)
(* The object format of src/code/forktest.c at the byte level: obj_pad,   *)
(* obj_skip (with ALIGN_UP of SizeArith.tla), and the loop of obj_scan     *)
(* over one segment                                                        *)
(* [0, SegSize) as the MPS hands it to the scanner.  The MPS lays the      *)
(* segment out as cells written by the mutator and pads written by         *)
(* obj_pad; obj_scan must step from object to object with obj_skip and    *)
(* fix the reference of every TYPE_REF cell.  Reading a header at an       *)
(* offset that is not the start of an object reads the inside of another   *)
(* object: any header may be found there.                                  *)
(***************************************************************************)
EXTENDS Naturals, Sequences, SequencesExt, SizeArith

CONSTANTS
  SegSize,     \* the bytes of the segment scanned
  MaxPadUnits  \* bound on a pad's size, in units of ALIGNMENT

(* sizeof(obj_s) on a target with 4-byte unsigned and 8-byte pointers,     *)
(* and ALIGNMENT, which line 35 defines as sizeof(obj_s).                  *)
ObjSize == 16
ALIGNMENT == ObjSize

ASSUME ObjFormatAssumption ==
  /\ SegSize \in Nat /\ 2^W > SegSize
  /\ SegSize % ALIGNMENT = 0
  /\ MaxPadUnits \in Nat \ {0}

(* The header of an object: its type, and the size obj_pad stored in a pad.*)
Header == [type : {"REF", "FWD", "PAD"}, pad : 0..2^W - 1]

(* obj_pad(addr, size): the header a pad of size bytes gets.               *)
ObjPad(size) == [type |-> "PAD", pad |-> size]

Cells == {[type |-> t, pad |-> 0] : t \in {"REF", "FWD"}}

Pads == {ObjPad(k * ALIGNMENT) : k \in 1..MaxPadUnits}

(* The bytes an object of the layout takes.                                *)
Bytes(o) == IF o.type = "PAD" THEN o.pad ELSE ObjSize

(* The offset of the k-th object of the layout L.                          *)
Offset(L, k) == FoldLeft(LAMBDA x, y : x + y, 0,
                         [j \in 1..k - 1 |-> Bytes(L[j])])

(* The layouts of the segment: cells and pads filling it exactly.          *)
Layouts ==
  {L \in BoundedSeq(Cells \cup Pads, SegSize \div ALIGNMENT) :
     Offset(L, Len(L) + 1) = SegSize}

Starts(L) == {Offset(L, k) : k \in 1..Len(L)}

RefStarts(L) == {Offset(L, k) : k \in {j \in 1..Len(L) : L[j].type = "REF"}}

(* The header at offset o of the layout L.                                 *)
HeaderAt(L, o) == L[CHOOSE k \in 1..Len(L) : Offset(L, k) = o]

(* What a read inside an object may find.                                  *)
Junk == Cells \cup {ObjPad(0), ObjPad(ALIGNMENT)}

VARIABLES
  layout,  \* the segment's objects, as the MPS laid them out
  base,    \* obj_scan's base
  fixed,   \* the offsets of the cells whose reference was fixed
  res      \* "none" while scanning, then what obj_scan returns

vars == <<layout, base, fixed, res>>

Init ==
  /\ layout \in Layouts
  /\ base = 0
  /\ fixed = {}
  /\ res = "none"

(* Mutant: obj_skip steps over sizeof(obj_s) whatever the type.           *)
MutObjSkipNoPad(addr, h) == addr + AlignUp(ObjSize, ALIGNMENT)

(* obj_skip(addr) for the header h found at addr.                          *)
ObjSkip(addr, h) ==
  addr + AlignUp(IF h.type = "PAD" THEN h.pad ELSE ObjSize, ALIGNMENT)

(* Mutant: a failed fix returns MPS_RES_OK instead of res.                 *)
MutScanObjectResOK ==
  /\ res = "none"
  /\ base < SegSize
  /\ \E h \in IF base \in Starts(layout) THEN {HeaderAt(layout, base)}
                                          ELSE Junk :
       IF h.type = "REF"
         THEN \/ /\ fixed' = fixed \cup {base}
                 /\ base' = ObjSkip(base, h)
                 /\ UNCHANGED res
              \/ /\ res' = "OK"
                 /\ UNCHANGED <<base, fixed>>
         ELSE /\ base' = ObjSkip(base, h)
              /\ UNCHANGED <<fixed, res>>
  /\ UNCHANGED layout

(* One turn of obj_scan's loop.  MPS_FIX12 of a TYPE_REF cell's reference  *)
(* may fail, and obj_scan returns its result at once.                      *)
ScanObject ==
  /\ res = "none"
  /\ base < SegSize
  /\ \E h \in IF base \in Starts(layout) THEN {HeaderAt(layout, base)}
                                          ELSE Junk :
       IF h.type = "REF"
         THEN \/ /\ fixed' = fixed \cup {base}
                 /\ base' = ObjSkip(base, h)
                 /\ UNCHANGED res
              \/ /\ res' = "MEMORY"
                 /\ UNCHANGED <<base, fixed>>
         ELSE /\ base' = ObjSkip(base, h)
              /\ UNCHANGED <<fixed, res>>
  /\ UNCHANGED layout

(* The loop ends at limit and obj_scan returns MPS_RES_OK.                 *)
ScanDone ==
  /\ res = "none"
  /\ base >= SegSize
  /\ res' = "OK"
  /\ UNCHANGED <<layout, base, fixed>>

Next == ScanObject \/ ScanDone

Spec == Init /\ [][Next]_vars

-----------------------------------------------------------------------------
(* Properties.                                                             *)

(* obj_scan's base, stepped by obj_skip, is always the start of an object  *)
(* of the segment or its limit: the scanner never reads a header inside a  *)
(* cell or a pad.                                                          *)
ScanParsesLayout == base \in Starts(layout) \cup {SegSize}

(* When obj_scan returns MPS_RES_OK it has fixed the reference of every    *)
(* TYPE_REF cell of the segment and of nothing else.                       *)
ScanFixesAllRefs == res = "OK" => fixed = RefStarts(layout)
=============================================================================
