------------------------- MODULE FailoverRefinement -------------------------
(***************************************************************************)
(* The Failover implements the abstract land (AbstractLand) over the union *)
(* of its two children, for every size N of the address space and a       *)
(* client that frees only allocated memory.  Each operation of             *)
(* failover.c is shown to be a step of the abstract operation of the same  *)
(* name, or a stutter, from the invariant IInv of FailoverProofs.          *)
(***************************************************************************)
EXTENDS FailoverProofs

-----------------------------------------------------------------------------
(* What a child operation returns, outcome by outcome. *)

(* LandInsert: OK adds exactly the range and returns a block that holds    *)
(* it; FAIL and ALLOC leave the child as it was.                           *)
LEMMA LandInsertOutcome ==
  ASSUME NEW S, NEW r, NEW mf \in BOOLEAN, NEW o \in LandInsert(S, r, mf)
  PROVE  /\ o.res \in {"OK", "FAIL", "ALLOC"}
         /\ o.res = "OK" => /\ Span(r) \cap S = {}
                            /\ o.land = S \cup Span(r)
                            /\ o.ret \in Ranges /\ RangesNest(o.ret, r)
                            /\ Span(o.ret) \subseteq o.land
         /\ o.res = "FAIL" => /\ Span(r) \cap S # {}
                              /\ o.land = S /\ o.ret = NoRange
         /\ o.res = "ALLOC" => o.land = S
BY DEF LandInsert, Fail, Holders, Blocks, IsBlock

(* The abstract land is stated over the same ranges and results (module   *)
(* Range) as the Failover: its instance's operators are Range's.          *)
LEMMA RangeInstance ==
  /\ AL!Ranges = Ranges /\ AL!NoRange = NoRange /\ AL!NoOut = NoOut
  /\ AL!Sizes = Sizes /\ AL!FindDeletes = FindDeletes
  /\ \A x : AL!Span(x) = Span(x) /\ AL!RangeSize(x) = RangeSize(x)
  /\ \A x, y : AL!RangesNest(x, y) = RangesNest(x, y)
  /\ \A x, y : AL!Fragment(x, y) = Span(x) \ Span(y)
  /\ \A x, y, z : AL!FindDeleteRange(x, y, z) = FindDeleteRange(x, y, z)
  /\ \A x, y : AL!FindDeleted(x, y) = FindDeleted(x, y)
  /\ \A a, b, c, d, e, f, g : AL!Out(a, b, c, d, e, f, g) = Out(a, b, c, d, e, f, g)
BY DEF AL!Ranges, Ranges, AL!RangeRec, RangeRec, AL!NoRange, NoRange, AL!Rng,
   Rng, AL!NoOut, NoOut, AL!Out, Out, AL!Sizes, Sizes, AL!FindDeletes,
   FindDeletes, AL!Span, Span, AL!RangeSize, RangeSize, AL!RangesNest,
   RangesNest, AL!Fragment, AL!FindDeleteRange, FindDeleteRange,
   AL!FindDeleted, FindDeleted

-----------------------------------------------------------------------------
(* The refinement, operation by operation. *)

(* The children start empty and nothing has been returned: the abstract   *)
(* land starts with no free grain.                                         *)
LEMMA RefineInit == Init => AL!Init
BY RangeInstance DEF Init, AL!Init, Free

(* failoverInsert: whether the primary takes the range or, after failing   *)
(* to allocate, spills it to the secondary, the union of the children     *)
(* gains exactly the range, and the block returned holds it.              *)
LEMMA RefineInsert ==
  ASSUME Disciplined, IInv, NEW r \in Ranges, Insert(r)
  PROVE  AL!Insert(r)
<1>0. Span(r) \cap Free = {}
  BY DEF Insert, ClientRange
<1> DEFINE Step(f, p) ==
       IF p.res \in {"OK", "FAIL"}
         THEN /\ primary' = p.land /\ secondary' = f.src
              /\ last' = Out("insert", r, 0, "NONE", p.res, p.ret, NoRange)
         ELSE \E s \in LandInsert(f.src, r, FALSE) :
              /\ primary' = f.dest /\ secondary' = s.land
              /\ last' = Out("insert", r, 0, "NONE", s.res, s.ret, NoRange)
<1>a. PICK f \in Flushes : \E p \in LandInsert(f.dest, r, TRUE) : Step(f, p)
  BY DEF Insert
<1>1. PICK p \in LandInsert(f.dest, r, TRUE) : Step(f, p)
  BY <1>a
<1>2. f.dest \cup f.src = Free /\ f.dest \cap f.src = {}
  BY FlushSafe DEF IInv, Free
<1>3. Span(r) \cap f.dest = {} /\ Span(r) \cap f.src = {}
  BY <1>0, <1>2
<1>4. p.res \in {"OK", "ALLOC"}
  <2>1. p.res \in {"OK", "FAIL", "ALLOC"}
        /\ (p.res = "FAIL" => Span(r) \cap f.dest # {})
    BY LandInsertOutcome
  <2> QED
    BY <1>3, <2>1
<1>5. CASE p.res = "OK"
  <2>1. /\ primary' = p.land /\ secondary' = f.src
        /\ last' = Out("insert", r, 0, "NONE", "OK", p.ret, NoRange)
    BY <1>1, <1>5
  <2>2. /\ p.land = f.dest \cup Span(r)
        /\ p.ret \in Ranges /\ RangesNest(p.ret, r)
        /\ Span(p.ret) \subseteq p.land
    BY <1>5, LandInsertOutcome
  <2>3. Free' = Free \cup Span(r) /\ Span(p.ret) \subseteq Free'
    BY <1>2, <2>1, <2>2 DEF Free
  <2> QED
    BY <1>0, <2>1, <2>2, <2>3, RangeInstance DEF AL!Insert
<1>6. CASE p.res = "ALLOC"
  <2>1. PICK s \in LandInsert(f.src, r, FALSE) :
          /\ primary' = f.dest /\ secondary' = s.land
          /\ last' = Out("insert", r, 0, "NONE", s.res, s.ret, NoRange)
    BY <1>1, <1>6
  <2>2. s.res = "OK"
    BY <1>3, LandInsertEffect
  <2>3. /\ s.land = f.src \cup Span(r)
        /\ s.ret \in Ranges /\ RangesNest(s.ret, r)
        /\ Span(s.ret) \subseteq s.land
    BY <2>2, LandInsertOutcome
  <2>4. Free' = Free \cup Span(r) /\ Span(s.ret) \subseteq Free'
    BY <1>2, <2>1, <2>3 DEF Free
  <2> QED
    BY <1>0, <2>1, <2>2, <2>3, <2>4, RangeInstance DEF AL!Insert
<1> QED
  BY <1>4, <1>5, <1>6

(* LandInsertSteal: OK adds the range, or all of it but its first grain,  *)
(* and returns a block holding what was added; FAIL changes nothing.      *)
LEMMA LandInsertStealOutcome ==
  ASSUME NEW S, NEW r \in RangeRec, NEW mf \in BOOLEAN,
         NEW o \in LandInsertSteal(S, r, mf)
  PROVE  /\ o.res \in {"OK", "FAIL"}
         /\ o.res = "OK" =>
              /\ Span(r) \cap S = {}
              /\ \E kept \in {Span(r), Span(r) \ {r.base}} :
                   /\ o.land = S \cup kept
                   /\ o.ret \in Ranges
                   /\ kept \subseteq Span(o.ret) /\ Span(o.ret) \subseteq o.land
         /\ o.res = "FAIL" => Span(r) \cap S # {} /\ o.land = S /\ o.ret = NoRange
<1> DEFINE rest == Rng(r.base + 1, r.limit)
           inserted == {r} \cup (IF mf /\ NeedsNode(S, r) /\ RangeSize(r) > 1
                                   THEN {rest} ELSE {})
<1>1. \A x \in inserted : Span(x) \in {Span(r), Span(r) \ {r.base}}
  <2>1. Span(rest) = Span(r) \ {r.base}
    BY DEF Span, Rng, RangeRec
  <2> QED
    BY <2>1
<1>2. CASE Span(r) \cap S # {}
  BY <1>2 DEF LandInsertSteal, Fail
<1>3. CASE Span(r) \cap S = {}
  <2>1. PICK x \in inserted :
          o \in {[res |-> "OK", land |-> S \cup Span(x), ret |-> b] :
                  b \in Holders(S \cup Span(x), x)}
    BY <1>3 DEF LandInsertSteal
  <2>2. PICK b \in Holders(S \cup Span(x), x) :
          o = [res |-> "OK", land |-> S \cup Span(x), ret |-> b]
    BY <2>1
  <2>3. /\ b \in Ranges /\ Span(b) \subseteq S \cup Span(x)
        /\ RangesNest(b, x)
    BY DEF Holders, Blocks, IsBlock
  <2>4. Span(x) \subseteq Span(b)
    <3>1. x.base \in Nat /\ x.limit \in Nat
      BY DEF Rng, RangeRec
    <3> QED
      BY <2>3, <3>1 DEF RangesNest, Span, Ranges, RangeRec
  <2> QED
    BY <1>1, <1>3, <2>2, <2>3, <2>4
<1> QED
  BY <1>2, <1>3

(* failoverInsertSteal: the primary takes the range, less the grain it may *)
(* steal for a descriptor, and returns a block that holds what it took.   *)
LEMMA RefineInsertSteal ==
  ASSUME Disciplined, IInv, NEW r \in Ranges, InsertSteal(r)
  PROVE  AL!InsertSteal(r)
<1>0. Span(r) \cap Free = {} /\ r \in RangeRec
  BY DEF InsertSteal, ClientRange, Ranges
<1> DEFINE Step(f, p) ==
       /\ primary' = p.land /\ secondary' = f.src
       /\ last' = Out("insertSteal", r, 0, "NONE", p.res, p.ret, NoRange)
<1>a. PICK f \in Flushes : \E p \in LandInsertSteal(f.dest, r, TRUE) : Step(f, p)
  BY DEF InsertSteal
<1>1. PICK p \in LandInsertSteal(f.dest, r, TRUE) : Step(f, p)
  BY <1>a
<1>2. f.dest \cup f.src = Free /\ f.dest \cap f.src = {}
  BY FlushSafe DEF IInv, Free
<1>3. Span(r) \cap f.dest = {}
  BY <1>0, <1>2
<1>4. p.res = "OK"
  <2>1. p.res \in {"OK", "FAIL"} /\ (p.res = "FAIL" => Span(r) \cap f.dest # {})
    BY <1>0, LandInsertStealOutcome
  <2> QED
    BY <1>3, <2>1
<1>5. PICK kept \in {Span(r), Span(r) \ {r.base}} :
        /\ p.land = f.dest \cup kept
        /\ p.ret \in Ranges
        /\ kept \subseteq Span(p.ret) /\ Span(p.ret) \subseteq p.land
  BY <1>0, <1>4, LandInsertStealOutcome
<1>6. Free' = Free \cup kept /\ Span(p.ret) \subseteq Free'
  BY <1>1, <1>2, <1>5 DEF Free
<1> QED
  BY <1>0, <1>1, <1>4, <1>5, <1>6, RangeInstance DEF AL!InsertSteal

(* A block that holds r lies in the land and covers r.                     *)
LEMMA HolderFacts ==
  ASSUME NEW S, NEW r \in RangeRec, NEW b \in Holders(S, r)
  PROVE  /\ b \in Ranges /\ Span(b) \subseteq S /\ RangesNest(b, r)
         /\ Span(r) \subseteq Span(b)
<1>1. b \in Ranges /\ Span(b) \subseteq S /\ RangesNest(b, r)
  BY DEF Holders, Blocks, IsBlock
<1> QED
  BY <1>1 DEF RangesNest, Span, Ranges, RangeRec

(* LandDeleteSteal: OK removes r from the block that holds it, and at most *)
(* one grain of that block outside r, which only a child that may fail    *)
(* takes; FAIL means no block holds r and nothing changes.                *)
LEMMA LandDeleteStealOutcome ==
  ASSUME NEW S, NEW r \in RangeRec, NEW mf \in BOOLEAN,
         NEW o \in LandDeleteSteal(S, r, mf)
  PROVE  /\ o.res \in {"OK", "FAIL"}
         /\ o.res = "OK" => o.ret \in Holders(S, r)
         /\ o.res = "OK" /\ ~mf => o.land = S \ Span(r)
         /\ o.res = "FAIL" => o.land = S /\ o.ret = NoRange
BY DEF LandDeleteSteal, Fail

(* What an OK LandDeleteSteal leaves: the land less r, and perhaps less   *)
(* the last grain of the old block, which lies outside r.                  *)
StealLand(S, r, o) ==
  \/ o.land = S \ Span(r)
  \/ /\ o.ret.limit - 1 \in Span(o.ret) \ Span(r)
     /\ o.land = S \ (Span(r) \cup {o.ret.limit - 1})

(* An OK deleteSteal of a child takes exactly r, and at most one more    *)
(* grain of the old block besides.                                         *)
LEMMA LandDeleteStealLand ==
  ASSUME NEW S, NEW r \in RangeRec, NEW mf \in BOOLEAN,
         NEW o \in LandDeleteSteal(S, r, mf), o.res = "OK"
  PROVE  StealLand(S, r, o)
<1>1. CASE Holders(S, r) = {}
  BY <1>1 DEF LandDeleteSteal, Fail
<1>2. CASE Holders(S, r) # {}
  <2>1. CASE \E b \in Holders(S, r) :
               o = [res |-> "OK", land |-> S \ Span(r), ret |-> b]
    BY <2>1 DEF StealLand
  <2>2. CASE \E h \in {x \in Holders(S, r) : mf /\ Splits(x, r)} :
               o = [res |-> "OK", land |-> S \ (Span(r) \cup {h.limit - 1}),
                    ret |-> h]
    <3>1. PICK h \in {x \in Holders(S, r) : mf /\ Splits(x, r)} :
            o = [res |-> "OK", land |-> S \ (Span(r) \cup {h.limit - 1}),
                 ret |-> h]
      BY <2>2
    <3>2. h \in Ranges /\ mf /\ Splits(h, r)
      BY HolderFacts
    <3>3. h.limit - 1 \in Span(h) \ Span(r)
      BY <3>2 DEF Splits, Span, Ranges, RangeRec
    <3> QED
      BY <3>1, <3>2, <3>3 DEF StealLand
  <2> QED
    BY <1>2, <2>1, <2>2 DEF LandDeleteSteal
<1> QED
  BY <1>1, <1>2

(* failoverDeleteSteal: the child that holds r gives up r, and perhaps a   *)
(* grain of its old block for a descriptor; the other child is untouched. *)
LEMMA RefineDeleteSteal ==
  ASSUME IInv, NEW r \in Ranges, DeleteSteal(r)
  PROVE  AL!DeleteSteal(r)
<1>0. r \in RangeRec
  BY DEF Ranges
<1> DEFINE Step(f, p) ==
       IF p.res = "FAIL"
         THEN \E s \in LandDeleteSteal(f.src, r, FALSE) :
              /\ primary' = f.dest /\ secondary' = s.land
              /\ halted' = (s.res \notin {"OK", "FAIL"})
              /\ last' = Out("deleteSteal", r, 0, "NONE", s.res, s.ret, NoRange)
         ELSE /\ primary' = p.land /\ secondary' = f.src
              /\ halted' = (p.res \notin {"OK", "FAIL"})
              /\ last' = Out("deleteSteal", r, 0, "NONE", p.res, p.ret, NoRange)
<1>a. PICK f \in Flushes : \E p \in LandDeleteSteal(f.dest, r, TRUE) : Step(f, p)
  BY DEF DeleteSteal
<1>1. PICK p \in LandDeleteSteal(f.dest, r, TRUE) : Step(f, p)
  BY <1>a
<1>2. f.dest \cup f.src = Free /\ f.dest \cap f.src = {}
  BY FlushSafe DEF IInv, Free
<1>3. /\ p.res \in {"OK", "FAIL"}
      /\ p.res = "OK" => p.ret \in Holders(f.dest, r)
      /\ p.res = "FAIL" => p.land = f.dest /\ p.ret = NoRange
  BY DEF LandDeleteSteal, Fail
<1>4. CASE p.res = "OK"
  <2>1. /\ primary' = p.land /\ secondary' = f.src
        /\ last' = Out("deleteSteal", r, 0, "NONE", "OK", p.ret, NoRange)
    BY <1>1, <1>4
  <2>2. PICK stolen \in {{}} \cup {{g} : g \in Span(p.ret) \ Span(r)} :
          p.land = f.dest \ (Span(r) \cup stolen)
    <3>1. \/ p.land = f.dest \ Span(r)
          \/ /\ p.ret.limit - 1 \in Span(p.ret) \ Span(r)
             /\ p.land = f.dest \ (Span(r) \cup {p.ret.limit - 1})
      <4>1. StealLand(f.dest, r, p)
        BY <1>0, <1>4, LandDeleteStealLand
      <4> QED
        BY <4>1 DEF StealLand
    <3>2. CASE p.land = f.dest \ Span(r)
      <4>1. p.land = f.dest \ (Span(r) \cup {})
        BY <3>2
      <4> WITNESS {} \in {{}} \cup {{g} : g \in Span(p.ret) \ Span(r)}
      <4> QED
        BY <4>1
    <3>3. CASE p.land # f.dest \ Span(r)
      <4>1. /\ p.ret.limit - 1 \in Span(p.ret) \ Span(r)
            /\ p.land = f.dest \ (Span(r) \cup {p.ret.limit - 1})
        BY <3>1, <3>3
      <4>2. {p.ret.limit - 1} \in {{g} : g \in Span(p.ret) \ Span(r)}
        BY <4>1
      <4> USE <4>2
      <4> WITNESS {p.ret.limit - 1} \in {{}} \cup {{g} : g \in Span(p.ret) \ Span(r)}
      <4> QED
        BY <4>1, <4>2
    <3> QED
      BY <3>2, <3>3
  <2>3. /\ p.ret \in Ranges /\ Span(p.ret) \subseteq f.dest
        /\ RangesNest(p.ret, r) /\ Span(r) \subseteq Span(p.ret)
    <3>1. p.ret \in Holders(f.dest, r)
      BY <1>3, <1>4
    <3> QED
      BY <1>0, <3>1, HolderFacts
  <2>4. Free' = Free \ (Span(r) \cup stolen) /\ Span(p.ret) \subseteq Free
    BY <1>2, <2>1, <2>2, <2>3 DEF Free
  <2> QED
    BY <2>1, <2>2, <2>3, <2>4, RangeInstance DEF AL!DeleteSteal
<1>5. CASE p.res = "FAIL"
  <2>1. PICK s \in LandDeleteSteal(f.src, r, FALSE) :
          /\ primary' = f.dest /\ secondary' = s.land
          /\ last' = Out("deleteSteal", r, 0, "NONE", s.res, s.ret, NoRange)
    BY <1>1, <1>5
  <2>2. /\ s.res \in {"OK", "FAIL"}
        /\ s.res = "OK" => s.ret \in Holders(f.src, r)
        /\ s.res = "OK" => s.land = f.src \ Span(r)
        /\ s.res = "FAIL" => s.land = f.src /\ s.ret = NoRange
    BY DEF LandDeleteSteal, Fail
  <2>3. CASE s.res = "OK"
    <3>1. s.land = f.src \ Span(r)
      BY <2>2, <2>3
    <3>2. /\ s.ret \in Ranges /\ Span(s.ret) \subseteq f.src
          /\ RangesNest(s.ret, r) /\ Span(r) \subseteq Span(s.ret)
      <4>1. s.ret \in Holders(f.src, r)
        BY <2>2, <2>3
      <4> QED
        BY <1>0, <4>1, HolderFacts
    <3>3. Free' = Free \ (Span(r) \cup {}) /\ Span(s.ret) \subseteq Free
      BY <1>2, <2>1, <3>1, <3>2 DEF Free
    <3> QED
      BY <2>1, <2>3, <3>2, <3>3, RangeInstance DEF AL!DeleteSteal
  <2>4. CASE s.res = "FAIL"
    <3>1. s.land = f.src /\ s.ret = NoRange
      BY <2>2, <2>4
    <3>2. Free' = Free
      BY <1>2, <2>1, <3>1 DEF Free
    <3> QED
      BY <2>1, <2>4, <3>1, <3>2, RangeInstance DEF AL!DeleteSteal
  <2> QED
    BY <2>2, <2>3, <2>4
<1> QED
  BY <1>3, <1>4, <1>5

-----------------------------------------------------------------------------
(* The recovery path of failoverDelete frees exactly the range's grains.  *)

(* The grains of both children after a re-insertion.                      *)
ReinsertFree(P, S, frag, o) == o.p \cup o.s = P \cup S \cup Span(frag)

(* A fragment that neither child holds is re-inserted whole: whichever    *)
(* child takes it, the two together gain exactly its grains.              *)
LEMMA ReinsertExact ==
  ASSUME NEW P \in SUBSET Addr, NEW S \in SUBSET Addr, NEW frag \in RangeRec,
         Span(frag) \cap (P \cup S) = {},
         NEW o \in Reinsert(P, S, frag)
  PROVE  ReinsertFree(P, S, frag, o)
<1>1. CASE frag.base = frag.limit
  <2>1. o = [p |-> P, s |-> S, ok |-> TRUE]
    BY <1>1, Zenon DEF Reinsert
  <2>2. Span(frag) = {}
    BY <1>1 DEF Span, RangeRec
  <2>. QED
    BY <2>1, <2>2 DEF ReinsertFree
<1>2. CASE frag.base # frag.limit
  <2>1. PICK i \in LandInsert(P, frag, TRUE) :
          o \in IF i.res = "OK" THEN {[p |-> i.land, s |-> S, ok |-> TRUE]}
                ELSE {[p |-> P, s |-> j.land,
                       ok |-> i.res # "FAIL" /\ j.res = "OK"] :
                        j \in LandInsert(S, frag, FALSE)}
    BY <1>2 DEF Reinsert
  <2>0. Span(frag) \cap P = {} /\ Span(frag) \cap S = {}
    OBVIOUS
  <2>3. CASE i.res = "OK"
    <3>1. o = [p |-> i.land, s |-> S, ok |-> TRUE]
      BY <2>1, <2>3, Zenon
    <3>2. i.land = P \cup Span(frag)
      BY <2>3, LandInsertOutcome
    <3>. QED
      BY <3>1, <3>2 DEF ReinsertFree
  <2>4. CASE i.res # "OK"
    <3>1. PICK j \in LandInsert(S, frag, FALSE) :
            o = [p |-> P, s |-> j.land, ok |-> i.res # "FAIL" /\ j.res = "OK"]
      BY <2>1, <2>4
    <3>2. j.res = "OK"
      BY <2>0, LandInsertEffect
    <3>3. j.land = S \cup Span(frag)
      BY <3>2, LandInsertOutcome
    <3>. QED
      BY <3>1, <3>3 DEF ReinsertFree
  <2>. QED
    BY <2>3, <2>4
<1>. QED
  BY <1>1, <1>2

(* The fragments left and right of r make up the rest of the old block.   *)
FragmentsCover(old, r) ==
  /\ Span(LeftFragment(old, r)) \cup Span(RightFragment(old, r))
       = Span(old) \ Span(r)
  /\ Span(r) \subseteq Span(old)

(* Deleting r from the old block that holds it leaves exactly the left and *)
(* right fragments that failoverDelete re-inserts.                         *)
LEMMA FragmentsPartition ==
  ASSUME NEW old \in Ranges, NEW r \in Ranges, RangesNest(old, r)
  PROVE  FragmentsCover(old, r)
BY DEF FragmentsCover, LeftFragment, RightFragment, Rng, Span, Ranges,
   RangeRec, RangesNest

(* The grains of both children after the recovery path.                   *)
RecoveryFree(P, S, r, o) == o.p \cup o.s = (P \cup S) \ Span(r)

(* The recovery path, started on the block old of the primary that holds  *)
(* r, leaves the children holding what they held less r: old leaves the   *)
(* primary and its two fragments come back.                               *)
LEMMA DeleteRecoveryExact ==
  ASSUME NEW P \in SUBSET Addr, NEW S \in SUBSET Addr, P \cap S = {},
         NEW old \in Blocks(P), NEW r \in Ranges, RangesNest(old, r),
         NEW o \in DeleteRecovery(P, S, old, r)
  PROVE  RecoveryFree(P, S, r, o)
<1> DEFINE L == LeftFragment(old, r)
           R == RightFragment(old, r)
           P0 == P \ Span(old)
<1>1. old \in Ranges /\ Span(old) \subseteq P
  BY DEF Blocks, IsBlock
<1>2. /\ Span(L) \subseteq Span(old) /\ Span(R) \subseteq Span(old)
      /\ Span(L) \cap Span(R) = {}
  BY <1>1, FragmentsInBlock
<1>3. L \in RangeRec /\ R \in RangeRec
  BY <1>1, FragmentType DEF Ranges
<1>4. PICK w \in LandDelete(P, old, TRUE) :
        o \in IF w.res # "OK"
              THEN {[p |-> w.land, s |-> S, res |-> w.res, ok |-> TRUE]}
              ELSE UNION {{[p |-> rt.p, s |-> rt.s, res |-> "OK",
                            ok |-> w.ret = old /\ lf.ok /\ rt.ok] :
                             rt \in Reinsert(lf.p, lf.s, R)} :
                            lf \in Reinsert(w.land, S, L)}
  BY DEF DeleteRecovery
<1>5. w.res = "OK" /\ w.land = P0
  <2>1. LandDelete(P, old, TRUE) =
          {[res |-> "OK", land |-> P0, ret |-> old]}
    BY DeleteWholeBlock
  <2>2. w = [res |-> "OK", land |-> P0, ret |-> old]
    BY <2>1, Zenon
  <2>. QED
    BY <2>2
<1>6. PICK lf \in Reinsert(w.land, S, L) :
        \E rt \in Reinsert(lf.p, lf.s, R) :
          o = [p |-> rt.p, s |-> rt.s, res |-> "OK",
               ok |-> w.ret = old /\ lf.ok /\ rt.ok]
  BY <1>4, <1>5
<1>. PICK rt \in Reinsert(lf.p, lf.s, R) :
        o = [p |-> rt.p, s |-> rt.s, res |-> "OK",
             ok |-> w.ret = old /\ lf.ok /\ rt.ok]
  BY <1>6
<1>7. lf \in Reinsert(P0, S, L) /\ P0 \in SUBSET Addr /\ P0 \cap S = {}
  BY <1>5
<1>8. /\ lf.p \cup lf.s = P0 \cup S \cup Span(L)
      /\ lf.p \cap lf.s = {}
      /\ lf.p \in SUBSET Addr /\ lf.s \in SUBSET Addr
  <2>1. Span(L) \cap (P0 \cup S) = {}
    BY <1>1, <1>2
  <2>2. ReinsertFree(P0, S, L, lf)
    BY <1>3, <1>7, <2>1, ReinsertExact
  <2>3. lf.p \cap lf.s = {}
    BY <1>3, <1>7, <2>1, ReinsertSafe
  <2>4. lf.p \in SUBSET Addr /\ lf.s \in SUBSET Addr
    BY <1>3, <1>7, ReinsertType
  <2>. QED
    BY <2>2, <2>3, <2>4 DEF ReinsertFree
<1>9. rt.p \cup rt.s = lf.p \cup lf.s \cup Span(R)
  <2>1. Span(R) \cap (lf.p \cup lf.s) = {}
    BY <1>1, <1>2, <1>8
  <2>2. ReinsertFree(lf.p, lf.s, R, rt)
    BY <1>3, <1>8, <2>1, ReinsertExact
  <2>. QED
    BY <2>2 DEF ReinsertFree
<1>10. FragmentsCover(old, r)
  BY <1>1, FragmentsPartition
<1>11. Span(L) \cup Span(R) = Span(old) \ Span(r) /\ Span(r) \subseteq Span(old)
  BY <1>10 DEF FragmentsCover
<1>12. rt.p \cup rt.s = (P \cup S) \ Span(r)
  BY <1>1, <1>8, <1>9, <1>11
<1>. QED
  BY <1>12 DEF RecoveryFree

(* failoverDelete: the child that holds r gives it up, directly or, when  *)
(* the primary cannot split its block, by the recovery path; either way   *)
(* the union loses exactly r and the block returned held it.  A delete    *)
(* that neither child can serve changes nothing.                          *)
LEMMA RefineDelete ==
  ASSUME IInv, NEW r \in Ranges, Delete(r)
  PROVE  AL!Delete(r)
<1> DEFINE Step(f, d) ==
       CASE d.res = "FAIL" ->
              \E s \in LandDelete(f.src, r, FALSE) :
                /\ primary' = f.dest /\ secondary' = s.land
                /\ halted' = FALSE
                /\ last' = Out("delete", r, 0, "NONE", s.res, s.ret, NoRange)
        [] d.res = "OK" ->
              /\ primary' = d.land /\ secondary' = f.src
              /\ halted' = ~RangesNest(d.ret, r)
              /\ last' = Out("delete", r, 0, "NONE", "OK", d.ret, NoRange)
        [] OTHER ->
              \E v \in DeleteRecovery(f.dest, f.src, d.ret, r) :
                /\ primary' = v.p /\ secondary' = v.s
                /\ halted' = ~(d.res = "ALLOC" /\ v.ok
                               /\ (v.res = "OK" => RangesNest(d.ret, r)))
                /\ last' = Out("delete", r, 0, "NONE", v.res,
                               IF v.res = "OK" THEN d.ret ELSE NoRange, NoRange)
<1>0. r \in RangeRec
  BY DEF Ranges
<1>a. PICK f \in Flushes : \E d \in LandDelete(f.dest, r, TRUE) : Step(f, d)
  BY Zenon DEF Delete
<1>1. PICK d \in LandDelete(f.dest, r, TRUE) : Step(f, d)
  BY <1>a
<1>2. /\ f.dest \cup f.src = Free /\ f.dest \cap f.src = {}
      /\ f.dest \subseteq Addr /\ f.src \subseteq Addr
  BY FlushSafe DEF IInv, Free
<1>3. /\ d.res \in {"OK", "FAIL", "ALLOC"}
      /\ d.res = "OK" => d.ret \in Holders(f.dest, r) /\ d.land = f.dest \ Span(r)
      /\ d.res = "ALLOC" => d.ret \in Holders(f.dest, r)
  BY DEF LandDelete, Fail
<1>4. CASE d.res = "FAIL"
  <2>1. PICK s \in LandDelete(f.src, r, FALSE) :
          /\ primary' = f.dest /\ secondary' = s.land
          /\ last' = Out("delete", r, 0, "NONE", s.res, s.ret, NoRange)
    BY <1>1, <1>4, Zenon
  <2>2. /\ s.res \in {"OK", "FAIL"}
        /\ s.res = "OK" => s.ret \in Holders(f.src, r) /\ s.land = f.src \ Span(r)
        /\ s.res = "FAIL" => s.land = f.src /\ s.ret = NoRange
    BY DEF LandDelete, Fail
  <2>3. CASE s.res = "OK"
    <3>1. /\ s.ret \in Ranges /\ Span(s.ret) \subseteq f.src
          /\ RangesNest(s.ret, r) /\ Span(r) \subseteq Span(s.ret)
      <4>1. s.ret \in Holders(f.src, r)
        BY <2>2, <2>3
      <4> QED
        BY <1>0, <4>1, HolderFacts
    <3>2. Free' = Free \ Span(r) /\ Span(s.ret) \subseteq Free
      BY <1>2, <2>1, <2>2, <2>3, <3>1 DEF Free
    <3> QED
      BY <2>1, <2>3, <3>1, <3>2, RangeInstance DEF AL!Delete
  <2>4. CASE s.res = "FAIL"
    <3>1. Free' = Free
      BY <1>2, <2>1, <2>2, <2>4 DEF Free
    <3> QED
      BY <2>1, <2>2, <2>4, <3>1, RangeInstance DEF AL!Delete
  <2> QED
    BY <2>2, <2>3, <2>4
<1>5. CASE d.res = "OK"
  <2>1. /\ primary' = d.land /\ secondary' = f.src
        /\ last' = Out("delete", r, 0, "NONE", "OK", d.ret, NoRange)
    BY <1>1, <1>5, Zenon
  <2>2. /\ d.ret \in Ranges /\ Span(d.ret) \subseteq f.dest
        /\ RangesNest(d.ret, r) /\ Span(r) \subseteq Span(d.ret)
    <3>1. d.ret \in Holders(f.dest, r)
      BY <1>3, <1>5
    <3> QED
      BY <1>0, <3>1, HolderFacts
  <2>3. Free' = Free \ Span(r) /\ Span(d.ret) \subseteq Free
    BY <1>2, <1>3, <1>5, <2>1, <2>2 DEF Free
  <2> QED
    BY <2>1, <2>2, <2>3, RangeInstance DEF AL!Delete
<1>6. CASE d.res = "ALLOC"
  <2>0. d.res \notin {"FAIL", "OK"}
    BY <1>6
  <2>1. PICK v \in DeleteRecovery(f.dest, f.src, d.ret, r) :
          /\ primary' = v.p /\ secondary' = v.s
          /\ last' = Out("delete", r, 0, "NONE", v.res,
                         IF v.res = "OK" THEN d.ret ELSE NoRange, NoRange)
    BY <1>1, <2>0, Zenon
  <2>2. /\ d.ret \in Blocks(f.dest) /\ d.ret \in Ranges
        /\ Span(d.ret) \subseteq f.dest /\ RangesNest(d.ret, r)
    <3>1. d.ret \in Holders(f.dest, r)
      BY <1>3, <1>6
    <3> QED
      BY <1>0, <3>1, HolderFacts DEF Holders
  <2>3. /\ v.res = "OK" /\ v.ok = TRUE
        /\ v.p \cap v.s = {}
        /\ v.p \cup v.s \subseteq f.dest \cup f.src
    BY <1>2, <2>2, DeleteRecoverySafe
  <2>4. RecoveryFree(f.dest, f.src, r, v)
    BY <1>2, <2>2, DeleteRecoveryExact
  <2>5. /\ last' = Out("delete", r, 0, "NONE", "OK", d.ret, NoRange)
        /\ Free' = Free \ Span(r) /\ Span(d.ret) \subseteq Free
    BY <1>2, <2>1, <2>2, <2>3, <2>4 DEF Free, RecoveryFree
  <2> QED
    BY <2>2, <2>5, RangeInstance DEF AL!Delete
<1> QED
  BY <1>3, <1>4, <1>5, <1>6

(* cbsFindDeleteRange deletes only grains of the block it found: the low *)
(* or high size grains, the whole block, or nothing.                       *)
LEMMA FindDeletedInside ==
  ASSUME NEW b \in Ranges, NEW size \in 1 .. RangeSize(b),
         NEW fd \in FindDeletes
  PROVE  FindDeleted(FindDeleteRange(b, size, fd), fd) \subseteq Span(b)
<1>0. b.base \in 0 .. N /\ b.limit \in 0 .. N /\ b.base < b.limit
  BY DEF Ranges, RangeRec
<1>1. CASE fd = "NONE"
  BY <1>1 DEF FindDeleted
<1>2. CASE fd = "ENTIRE"
  <2>1. FindDeleteRange(b, size, fd) = b
    BY <1>2, Zenon DEF FindDeleteRange
  <2> QED
    BY <1>2, <2>1 DEF FindDeleted
<1>3. CASE fd = "LOW"
  <2>1. FindDeleteRange(b, size, fd) = Rng(b.base, b.base + size)
    BY <1>3, Zenon DEF FindDeleteRange
  <2> QED
    BY <1>0, <1>3, <2>1 DEF FindDeleted, Span, Rng, RangeSize
<1>4. CASE fd = "HIGH"
  <2>1. FindDeleteRange(b, size, fd) = Rng(b.limit - size, b.limit)
    BY <1>4, Zenon DEF FindDeleteRange
  <2> QED
    BY <1>0, <1>4, <2>1 DEF FindDeleted, Span, Rng, RangeSize
<1> QED
  BY <1>1, <1>2, <1>3, <1>4 DEF FindDeletes

(* What one child's find reports: a hit names the block it took, which   *)
(* is big enough, and removes the deleted part of it; a miss changes     *)
(* nothing and returns no ranges.                                         *)
FindHit(S, size, fd, o) ==
  /\ o.old \in Ranges /\ Span(o.old) \subseteq S /\ RangeSize(o.old) >= size
  /\ o.ret = FindDeleteRange(o.old, size, fd)
  /\ o.land = S \ FindDeleted(o.ret, fd)
  /\ FindDeleted(o.ret, fd) \subseteq Span(o.old)

FindMiss(S, o) == o.land = S /\ o.ret = NoRange /\ o.old = NoRange

(* Each child's cbsFind is a hit or a miss in the sense above.             *)
LEMMA LandFindOutcome ==
  ASSUME NEW S, NEW kind \in FindKinds, NEW size \in Sizes,
         NEW fd \in FindDeletes, NEW o \in LandFind(S, kind, size, fd)
  PROVE  /\ o.found => FindHit(S, size, fd, o)
         /\ ~o.found => FindMiss(S, o)
<1>1. CASE Picks(S, kind, size) = {}
  BY <1>1 DEF LandFind, FindMiss
<1>2. CASE Picks(S, kind, size) # {}
  <2>1. PICK b \in Picks(S, kind, size) :
          o = [found |-> TRUE,
               land |-> S \ FindDeleted(FindDeleteRange(b, size, fd), fd),
               ret |-> FindDeleteRange(b, size, fd), old |-> b]
    BY <1>2, Zenon DEF LandFind
  <2>2. b \in Ranges /\ Span(b) \subseteq S /\ RangeSize(b) >= size
    <3>1. b \in Fits(S, size)
      BY PicksFit
    <3> QED
      BY <3>1 DEF Fits, Blocks, IsBlock
  <2>3. size \in 1 .. RangeSize(b)
    BY <2>2 DEF Sizes, Ranges, RangeRec, RangeSize
  <2>4. FindDeleted(FindDeleteRange(b, size, fd), fd) \subseteq Span(b)
    BY <2>2, <2>3, FindDeletedInside
  <2> QED
    BY <2>1, <2>2, <2>4 DEF FindHit
<1> QED
  BY <1>1, <1>2

(* failoverFind: the primary's hit, or on a miss the secondary's answer,  *)
(* is a find of the abstract land: the block found lies in the union and *)
(* the union loses exactly the grains the find deletes.                   *)
LEMMA RefineFind ==
  ASSUME IInv, NEW kind \in FindKinds, NEW size \in Sizes,
         NEW fd \in FindDeletes, Find(kind, size, fd)
  PROVE  AL!Find(kind, size, fd)
<1> DEFINE Step(f, p) ==
       IF p.found
         THEN /\ primary' = p.land /\ secondary' = f.src
              /\ last' = Out(kind, NoRange, size, fd, "OK", p.ret, p.old)
         ELSE \E s \in LandFind(f.src, kind, size, fd) :
              /\ primary' = f.dest /\ secondary' = s.land
              /\ last' = Out(kind, NoRange, size, fd,
                             IF s.found THEN "OK" ELSE "FAIL", s.ret, s.old)
<1>a. PICK f \in Flushes : \E p \in LandFind(f.dest, kind, size, fd) : Step(f, p)
  BY Zenon DEF Find
<1>1. PICK p \in LandFind(f.dest, kind, size, fd) : Step(f, p)
  BY <1>a
<1>2. /\ f.dest \cup f.src = Free /\ f.dest \cap f.src = {}
      /\ f.dest \subseteq Addr /\ f.src \subseteq Addr
  BY FlushSafe DEF IInv, Free
<1>3. CASE p.found
  <2>1. /\ primary' = p.land /\ secondary' = f.src
        /\ last' = Out(kind, NoRange, size, fd, "OK", p.ret, p.old)
    BY <1>1, <1>3
  <2>2. FindHit(f.dest, size, fd, p)
    BY <1>3, LandFindOutcome
  <2>3. /\ Span(p.old) \subseteq Free
        /\ Free' = Free \ FindDeleted(FindDeleteRange(p.old, size, fd), fd)
    BY <1>2, <2>1, <2>2 DEF FindHit, Free
  <2> QED
    BY <2>1, <2>2, <2>3, RangeInstance DEF AL!Find, FindHit
<1>4. CASE ~p.found
  <2>0. FindMiss(f.dest, p)
    BY <1>4, LandFindOutcome
  <2>1. PICK s \in LandFind(f.src, kind, size, fd) :
          /\ primary' = f.dest /\ secondary' = s.land
          /\ last' = Out(kind, NoRange, size, fd,
                         IF s.found THEN "OK" ELSE "FAIL", s.ret, s.old)
    BY <1>1, <1>4
  <2>2. CASE s.found
    <3>1. FindHit(f.src, size, fd, s)
      BY <2>2, LandFindOutcome
    <3>2. /\ Span(s.old) \subseteq Free
          /\ Free' = Free \ FindDeleted(FindDeleteRange(s.old, size, fd), fd)
          /\ last' = Out(kind, NoRange, size, fd, "OK",
                         FindDeleteRange(s.old, size, fd), s.old)
      BY <1>2, <2>1, <2>2, <3>1 DEF FindHit, Free
    <3> QED
      BY <3>1, <3>2, RangeInstance DEF AL!Find, FindHit
  <2>3. CASE ~s.found
    <3>1. FindMiss(f.src, s)
      BY <2>3, LandFindOutcome
    <3>2. /\ Free' = Free
          /\ last' = Out(kind, NoRange, size, fd, "FAIL", NoRange, NoRange)
      BY <1>2, <2>1, <2>3, <3>1 DEF FindMiss, Free
    <3> QED
      BY <3>2, RangeInstance DEF AL!Find
  <2> QED
    BY <2>2, <2>3
<1> QED
  BY <1>3, <1>4

(* Every step of the Failover is a step of the abstract land on the union *)
(* of its children, or leaves that union and the last answer alone: init *)
(* and finish only touch the signature.                                   *)
LEMMA RefineNext ==
  ASSUME Disciplined, IInv, [Next]_vars
  PROVE  [AL!Next]_<<Free, last>>
<1>1. CASE FailoverInit \/ FailoverFinish \/ UNCHANGED vars
  BY <1>1 DEF FailoverInit, FailoverFinish, vars, Free
<1>2. CASE \E r \in Ranges :
             Insert(r) \/ InsertSteal(r) \/ Delete(r) \/ DeleteSteal(r)
  <2>1. PICK r \in Ranges :
          Insert(r) \/ InsertSteal(r) \/ Delete(r) \/ DeleteSteal(r)
    BY <1>2
  <2>2. AL!Insert(r) \/ AL!InsertSteal(r) \/ AL!Delete(r) \/ AL!DeleteSteal(r)
    BY <2>1, RefineInsert, RefineInsertSteal, RefineDelete, RefineDeleteSteal
  <2>3. r \in AL!Ranges
    BY RangeInstance
  <2> QED
    BY <2>2, <2>3 DEF AL!Next
<1>3. CASE \E kind \in FindKinds, size \in Sizes, fd \in FindDeletes :
             Find(kind, size, fd)
  <2>1. PICK kind \in FindKinds, size \in Sizes, fd \in FindDeletes :
          Find(kind, size, fd)
    BY <1>3
  <2>2. AL!Find(kind, size, fd)
    BY <2>1, RefineFind
  <2>3. size \in AL!Sizes /\ fd \in AL!FindDeletes
        /\ kind \in {"findFirst", "findLast", "findLargest"}
    BY RangeInstance DEF FindKinds
  <2> QED
    BY <2>2, <2>3 DEF AL!Next
<1> QED
  BY <1>1, <1>2, <1>3 DEF Next

(* For a client that never deletes a range it did not insert, the         *)
(* Failover (failover.c) implements the abstract land of land.c's         *)
(* contract: the union of primary and secondary behaves as one set of     *)
(* free grains under insert, insertSteal, delete, deleteSteal and the     *)
(* three finds, with the same results and returned ranges, whichever      *)
(* child serves each call and whatever the children's flushes moved.      *)
THEOREM ImplementsAbstractLandHolds ==
  ASSUME Disciplined
  PROVE  Spec => ImplementsAbstractLand
<1>1. Spec => []IInv
  <2>1. Init => IInv
    BY TypeInit DEF Init, IInv, ChildrenDisjoint, NoAverFailure
  <2>2. IInv /\ [Next]_vars => IInv'
    BY SafeNext
  <2> QED
    BY <2>1, <2>2, PTL DEF Spec
<1>2. IInv /\ [Next]_vars => [AL!Next]_<<Free, last>>
  BY RefineNext
<1> QED
  BY <1>1, <1>2, RefineInit, PTL DEF Spec, ImplementsAbstractLand, AL!Spec

=============================================================================
