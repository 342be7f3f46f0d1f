--------------------------- MODULE FailoverProofs ---------------------------
(***************************************************************************)
(* Proofs about the Failover land, for every size N of the address space.  *)
(***************************************************************************)
EXTENDS Failover, TLAPS

-----------------------------------------------------------------------------
(* Ranges and their grains. *)

LEMMA SpanInAddr ==
  ASSUME NEW r \in RangeRec
  PROVE  Span(r) \subseteq Addr
BY NAssumption DEF Span, RangeRec, Addr

LEMMA BlocksAreRanges ==
  ASSUME NEW S
  PROVE  Blocks(S) \subseteq Ranges /\ Ranges \subseteq RangeRec
BY DEF Blocks, Ranges

LEMMA HoldersAreRanges ==
  ASSUME NEW S, NEW r
  PROVE  Holders(S, r) \subseteq Ranges
BY BlocksAreRanges DEF Holders

-----------------------------------------------------------------------------
(* What the child operations return. *)

LEMMA LandInsertType ==
  ASSUME NEW S \in SUBSET Addr, NEW r \in RangeRec, NEW mf \in BOOLEAN,
         NEW o \in LandInsert(S, r, mf)
  PROVE  /\ o.land \in SUBSET Addr
         /\ o.res \in Results
         /\ o.ret \in RangeRec
<1>1. Span(r) \subseteq Addr
  BY SpanInAddr
<1>2. Holders(S \cup Span(r), r) \subseteq RangeRec
  BY HoldersAreRanges, BlocksAreRanges
<1>3. NoRange \in RangeRec
  BY NAssumption DEF NoRange, Rng, RangeRec
<1>. QED
  BY <1>1, <1>2, <1>3 DEF LandInsert, Fail, Results

LEMMA NoRangeType == NoRange \in RangeRec
BY NAssumption DEF NoRange, Rng, RangeRec

LEMMA LandDeleteType ==
  ASSUME NEW S \in SUBSET Addr, NEW r \in RangeRec, NEW mf \in BOOLEAN,
         NEW o \in LandDelete(S, r, mf)
  PROVE  /\ o.land \in SUBSET Addr
         /\ o.res \in Results
         /\ o.ret \in RangeRec
BY HoldersAreRanges, BlocksAreRanges, NoRangeType
DEF LandDelete, Fail, Results

LEMMA LandInsertStealType ==
  ASSUME NEW S \in SUBSET Addr, NEW r \in RangeRec, NEW mf \in BOOLEAN,
         NEW o \in LandInsertSteal(S, r, mf)
  PROVE  /\ o.land \in SUBSET Addr
         /\ o.res \in {"OK", "FAIL"}
         /\ o.ret \in RangeRec
<1> DEFINE rest == Rng(r.base + 1, r.limit)
           inserted == {r} \cup (IF mf /\ NeedsNode(S, r) /\ RangeSize(r) > 1
                                   THEN {rest} ELSE {})
<1>1. \A x \in inserted : Span(x) \subseteq Addr
  BY NAssumption, SpanInAddr DEF Span, Rng, RangeRec, Addr
<1>2. CASE Span(r) \cap S # {}
  BY <1>2, NoRangeType DEF LandInsertSteal, Fail
<1>3. CASE Span(r) \cap S = {}
  <2>1. PICK x \in inserted :
          o \in {[res |-> "OK", land |-> S \cup Span(x), ret |-> b] :
                  b \in Holders(S \cup Span(x), x)}
    BY <1>3 DEF LandInsertSteal
  <2>. QED
    BY <1>1, <2>1, HoldersAreRanges, BlocksAreRanges
<1>. QED
  BY <1>2, <1>3

LEMMA LandDeleteStealType ==
  ASSUME NEW S \in SUBSET Addr, NEW r \in RangeRec, NEW mf \in BOOLEAN,
         NEW o \in LandDeleteSteal(S, r, mf)
  PROVE  /\ o.land \in SUBSET Addr
         /\ o.res \in {"OK", "FAIL"}
         /\ o.ret \in RangeRec
BY HoldersAreRanges, BlocksAreRanges, NoRangeType
DEF LandDeleteSteal, Fail

LEMMA FindDeleteRangeType ==
  ASSUME NEW b \in Ranges, NEW size \in Nat, size <= RangeSize(b),
         NEW fd \in FindDeletes
  PROVE  FindDeleteRange(b, size, fd) \in RangeRec
<1>1. CASE fd \in {"NONE", "ENTIRE"}
  <2>1. FindDeleteRange(b, size, fd) = b
    BY <1>1, Zenon DEF FindDeleteRange
  <2>. QED
    BY <2>1 DEF Ranges
<1>2. CASE fd = "LOW"
  <2>1. FindDeleteRange(b, size, fd) = Rng(b.base, b.base + size)
    BY <1>2, Zenon DEF FindDeleteRange
  <2>2. Rng(b.base, b.base + size) \in RangeRec
    <3>1. b.base \in 0 .. N /\ b.limit \in 0 .. N /\ b.base < b.limit
      BY DEF Ranges, RangeRec
    <3>. QED
      BY <3>1, NAssumption DEF RangeRec, RangeSize, Rng
  <2>. QED
    BY <2>1, <2>2
<1>3. CASE fd = "HIGH"
  <2>1. FindDeleteRange(b, size, fd) = Rng(b.limit - size, b.limit)
    BY <1>3, Zenon DEF FindDeleteRange
  <2>2. Rng(b.limit - size, b.limit) \in RangeRec
    <3>1. b.base \in 0 .. N /\ b.limit \in 0 .. N /\ b.base < b.limit
      BY DEF Ranges, RangeRec
    <3>. QED
      BY <3>1, NAssumption DEF RangeRec, RangeSize, Rng
  <2>. QED
    BY <2>1, <2>2
<1>. QED
  BY <1>1, <1>2, <1>3 DEF FindDeletes

LEMMA PicksFit ==
  ASSUME NEW S, NEW kind \in FindKinds, NEW size
  PROVE  Picks(S, kind, size) \subseteq Fits(S, size)
<1>1. CASE kind = "findFirst"
  BY <1>1, Zenon DEF Picks
<1>2. CASE kind = "findLast"
  BY <1>2, Zenon DEF Picks
<1>3. CASE kind = "findLargest"
  BY <1>3, Zenon DEF Picks
<1>. QED
  BY <1>1, <1>2, <1>3 DEF FindKinds

LEMMA LandFindType ==
  ASSUME NEW S \in SUBSET Addr, NEW kind \in FindKinds, NEW size \in Sizes,
         NEW fd \in FindDeletes, NEW o \in LandFind(S, kind, size, fd)
  PROVE  /\ o.land \in SUBSET Addr
         /\ o.found \in BOOLEAN
         /\ o.ret \in RangeRec
         /\ o.old \in RangeRec
<1>1. \A b \in Fits(S, size) :
        b \in Ranges /\ FindDeleteRange(b, size, fd) \in RangeRec
  BY FindDeleteRangeType, BlocksAreRanges DEF Fits, Sizes
<1>2. CASE Picks(S, kind, size) = {}
  <2>1. o = [found |-> FALSE, land |-> S, ret |-> NoRange, old |-> NoRange]
    BY <1>2, Zenon DEF LandFind
  <2>. QED
    BY <2>1, NoRangeType
<1>3. CASE Picks(S, kind, size) # {}
  <2>1. PICK b \in Picks(S, kind, size) :
          o = [found |-> TRUE,
               land |-> S \ FindDeleted(FindDeleteRange(b, size, fd), fd),
               ret |-> FindDeleteRange(b, size, fd), old |-> b]
    BY <1>3 DEF LandFind
  <2>. QED
    BY <2>1, <1>1, PicksFit, BlocksAreRanges
<1>. QED
  BY <1>2, <1>3

LEMMA LandFlushType ==
  ASSUME NEW D \in SUBSET Addr, NEW S \in SUBSET Addr, NEW mf \in BOOLEAN,
         NEW f \in LandFlush(D, S, mf)
  PROVE  f.dest \in SUBSET Addr /\ f.src \in SUBSET Addr
BY DEF LandFlush

LEMMA ReinsertType ==
  ASSUME NEW P \in SUBSET Addr, NEW S \in SUBSET Addr, NEW frag \in RangeRec,
         NEW o \in Reinsert(P, S, frag)
  PROVE  o.p \in SUBSET Addr /\ o.s \in SUBSET Addr /\ o.ok \in BOOLEAN
<1>1. CASE frag.base = frag.limit
  <2>1. o = [p |-> P, s |-> S, ok |-> TRUE]
    BY <1>1, Zenon DEF Reinsert
  <2>. QED
    BY <2>1
<1>2. CASE frag.base # frag.limit
  <2>1. PICK i \in LandInsert(P, frag, TRUE) :
          o \in IF i.res = "OK" THEN {[p |-> i.land, s |-> S, ok |-> TRUE]}
                ELSE {[p |-> P, s |-> j.land,
                       ok |-> i.res # "FAIL" /\ j.res = "OK"] :
                        j \in LandInsert(S, frag, FALSE)}
    BY <1>2 DEF Reinsert
  <2>2. i.land \in SUBSET Addr
    BY LandInsertType
  <2>3. CASE i.res = "OK"
    <3>1. o = [p |-> i.land, s |-> S, ok |-> TRUE]
      BY <2>1, <2>3, Zenon
    <3>. QED
      BY <3>1, <2>2
  <2>4. CASE i.res # "OK"
    <3>1. PICK j \in LandInsert(S, frag, FALSE) :
            o = [p |-> P, s |-> j.land, ok |-> i.res # "FAIL" /\ j.res = "OK"]
      BY <2>1, <2>4
    <3>. QED
      BY <3>1, LandInsertType
  <2>. QED
    BY <2>3, <2>4
<1>. QED
  BY <1>1, <1>2

LEMMA FragmentType ==
  ASSUME NEW old \in RangeRec, NEW r \in RangeRec
  PROVE  LeftFragment(old, r) \in RangeRec /\ RightFragment(old, r) \in RangeRec
BY DEF LeftFragment, RightFragment, Rng, RangeRec

LEMMA DeleteRecoveryType ==
  ASSUME NEW P \in SUBSET Addr, NEW S \in SUBSET Addr, NEW old \in RangeRec,
         NEW r \in RangeRec, NEW o \in DeleteRecovery(P, S, old, r)
  PROVE  /\ o.p \in SUBSET Addr /\ o.s \in SUBSET Addr
         /\ o.res \in Results /\ o.ok \in BOOLEAN
<1>. PICK w \in LandDelete(P, old, TRUE) :
       o \in IF w.res # "OK"
           THEN {[p |-> w.land, s |-> S, res |-> w.res, ok |-> TRUE]}
           ELSE UNION {{[p |-> rt.p, s |-> rt.s, res |-> "OK",
                         ok |-> w.ret = old /\ lf.ok /\ rt.ok] :
                          rt \in Reinsert(lf.p, lf.s, RightFragment(old, r))} :
                         lf \in Reinsert(w.land, S, LeftFragment(old, r))}
  BY DEF DeleteRecovery
<1>1. w.land \in SUBSET Addr /\ w.res \in Results
  BY LandDeleteType
<1>2. CASE w.res # "OK"
  <2>1. o = [p |-> w.land, s |-> S, res |-> w.res, ok |-> TRUE]
    BY <1>2
  <2>. QED
    BY <1>1, <2>1
<1>3. CASE w.res = "OK"
  <2>. PICK lf \in Reinsert(w.land, S, LeftFragment(old, r)) :
         \E rt \in Reinsert(lf.p, lf.s, RightFragment(old, r)) :
            o = [p |-> rt.p, s |-> rt.s, res |-> "OK",
                 ok |-> w.ret = old /\ lf.ok /\ rt.ok]
    BY <1>3
  <2>1. lf.p \in SUBSET Addr /\ lf.s \in SUBSET Addr /\ lf.ok \in BOOLEAN
    BY <1>1, ReinsertType, FragmentType
  <2>. PICK rt \in Reinsert(lf.p, lf.s, RightFragment(old, r)) :
            o = [p |-> rt.p, s |-> rt.s, res |-> "OK",
                 ok |-> w.ret = old /\ lf.ok /\ rt.ok]
    OBVIOUS
  <2>2. rt.p \in SUBSET Addr /\ rt.s \in SUBSET Addr /\ rt.ok \in BOOLEAN
    BY <2>1, ReinsertType, FragmentType
  <2>. QED
    BY <2>1, <2>2 DEF Results
<1>. QED
  BY <1>2, <1>3

-----------------------------------------------------------------------------
(* Type correctness of the Failover. *)

LEMMA OutType ==
  ASSUME NEW op \in Ops, NEW arg \in RangeRec, NEW size \in 0 .. N,
         NEW fd \in FindDeletes, NEW res \in Results, NEW ret \in RangeRec,
         NEW old \in RangeRec
  PROVE  Out(op, arg, size, fd, res, ret, old) \in OutRec
BY DEF Out, OutRec

LEMMA FlushesType ==
  ASSUME TypeOK, NEW f \in Flushes
  PROVE  f.dest \subseteq Addr /\ f.src \subseteq Addr
BY LandFlushType DEF Flushes, TypeOK

LEMMA TypeInit == Init => TypeOK
<1>1. NoOut \in OutRec
  <2>1. 0 \in 0 .. N
    BY NAssumption
  <2>. QED
    BY <2>1, NoRangeType, OutType DEF NoOut, Ops, FindDeletes, Results
<1>. QED
  BY <1>1 DEF Init, TypeOK

LEMMA RangeInRec ==
  ASSUME NEW r \in Ranges
  PROVE  r \in RangeRec
BY DEF Ranges

LEMMA TypeInsert ==
  ASSUME TypeOK, NEW r \in Ranges, Insert(r)
  PROVE  TypeOK'
<1>1. PICK f \in Flushes : \E p \in LandInsert(f.dest, r, TRUE) :
        IF p.res \in {"OK", "FAIL"}
          THEN /\ primary' = p.land /\ secondary' = f.src
               /\ last' = Out("insert", r, 0, "NONE", p.res, p.ret, NoRange)
          ELSE \E s \in LandInsert(f.src, r, FALSE) :
               /\ primary' = f.dest /\ secondary' = s.land
               /\ last' = Out("insert", r, 0, "NONE", s.res, s.ret, NoRange)
  BY DEF Insert
<1>2. f.dest \subseteq Addr /\ f.src \subseteq Addr
  BY FlushesType
<1>3. PICK p \in LandInsert(f.dest, r, TRUE) :
        IF p.res \in {"OK", "FAIL"}
          THEN /\ primary' = p.land /\ secondary' = f.src
               /\ last' = Out("insert", r, 0, "NONE", p.res, p.ret, NoRange)
          ELSE \E s \in LandInsert(f.src, r, FALSE) :
               /\ primary' = f.dest /\ secondary' = s.land
               /\ last' = Out("insert", r, 0, "NONE", s.res, s.ret, NoRange)
  BY <1>1
<1>4. p.land \subseteq Addr /\ p.res \in Results /\ p.ret \in RangeRec
  BY <1>2, RangeInRec, LandInsertType
<1>5. UNCHANGED <<sig, halted>>
  BY DEF Insert
<1>6. CASE p.res \in {"OK", "FAIL"}
  BY <1>2, <1>3, <1>4, <1>5, <1>6, RangeInRec, NoRangeType, OutType, NAssumption
  DEF TypeOK, Ops, FindDeletes
<1>7. CASE p.res \notin {"OK", "FAIL"}
  <2>1. PICK s \in LandInsert(f.src, r, FALSE) :
          /\ primary' = f.dest /\ secondary' = s.land
          /\ last' = Out("insert", r, 0, "NONE", s.res, s.ret, NoRange)
    BY <1>3, <1>7
  <2>2. s.land \subseteq Addr /\ s.res \in Results /\ s.ret \in RangeRec
    BY <1>2, RangeInRec, LandInsertType
  <2>. QED
    BY <1>2, <1>5, <2>1, <2>2, RangeInRec, NoRangeType, OutType, NAssumption
    DEF TypeOK, Ops, FindDeletes
<1>. QED
  BY <1>6, <1>7

LEMMA TypeInsertSteal ==
  ASSUME TypeOK, NEW r \in Ranges, InsertSteal(r)
  PROVE  TypeOK'
<1>1. PICK f \in Flushes : \E p \in LandInsertSteal(f.dest, r, TRUE) :
        /\ primary' = p.land /\ secondary' = f.src
        /\ halted' = (p.res \notin {"OK", "FAIL"})
        /\ last' = Out("insertSteal", r, 0, "NONE", p.res, p.ret, NoRange)
  BY DEF InsertSteal
<1>2. f.dest \subseteq Addr /\ f.src \subseteq Addr
  BY FlushesType
<1>3. PICK p \in LandInsertSteal(f.dest, r, TRUE) :
        /\ primary' = p.land /\ secondary' = f.src
        /\ halted' = (p.res \notin {"OK", "FAIL"})
        /\ last' = Out("insertSteal", r, 0, "NONE", p.res, p.ret, NoRange)
  BY <1>1
<1>4. p.land \subseteq Addr /\ p.res \in {"OK", "FAIL"} /\ p.ret \in RangeRec
  BY <1>2, RangeInRec, LandInsertStealType
<1>5. last' \in OutRec
  BY <1>3, <1>4, RangeInRec, NoRangeType, OutType, NAssumption
  DEF Ops, FindDeletes, Results
<1>. QED
  BY <1>2, <1>3, <1>4, <1>5 DEF InsertSteal, TypeOK

LEMMA TypeDeleteSteal ==
  ASSUME TypeOK, NEW r \in Ranges, DeleteSteal(r)
  PROVE  TypeOK'
<1>1. PICK f \in Flushes : \E p \in LandDeleteSteal(f.dest, r, TRUE) :
        IF p.res = "FAIL"
          THEN \E s \in LandDeleteSteal(f.src, r, FALSE) :
               /\ primary' = f.dest /\ secondary' = s.land
               /\ halted' = (s.res \notin {"OK", "FAIL"})
               /\ last' = Out("deleteSteal", r, 0, "NONE", s.res, s.ret, NoRange)
          ELSE /\ primary' = p.land /\ secondary' = f.src
               /\ halted' = (p.res \notin {"OK", "FAIL"})
               /\ last' = Out("deleteSteal", r, 0, "NONE", p.res, p.ret, NoRange)
  BY DEF DeleteSteal
<1>2. f.dest \subseteq Addr /\ f.src \subseteq Addr
  BY FlushesType
<1>3. PICK p \in LandDeleteSteal(f.dest, r, TRUE) :
        IF p.res = "FAIL"
          THEN \E s \in LandDeleteSteal(f.src, r, FALSE) :
               /\ primary' = f.dest /\ secondary' = s.land
               /\ halted' = (s.res \notin {"OK", "FAIL"})
               /\ last' = Out("deleteSteal", r, 0, "NONE", s.res, s.ret, NoRange)
          ELSE /\ primary' = p.land /\ secondary' = f.src
               /\ halted' = (p.res \notin {"OK", "FAIL"})
               /\ last' = Out("deleteSteal", r, 0, "NONE", p.res, p.ret, NoRange)
  BY <1>1
<1>4. p.land \subseteq Addr /\ p.res \in {"OK", "FAIL"} /\ p.ret \in RangeRec
  BY <1>2, RangeInRec, LandDeleteStealType
<1>5. sig' = sig
  BY DEF DeleteSteal
<1>6. CASE p.res = "FAIL"
  <2>1. PICK s \in LandDeleteSteal(f.src, r, FALSE) :
          /\ primary' = f.dest /\ secondary' = s.land
          /\ halted' = (s.res \notin {"OK", "FAIL"})
          /\ last' = Out("deleteSteal", r, 0, "NONE", s.res, s.ret, NoRange)
    BY <1>3, <1>6
  <2>2. s.land \subseteq Addr /\ s.res \in {"OK", "FAIL"} /\ s.ret \in RangeRec
    BY <1>2, RangeInRec, LandDeleteStealType
  <2>3. last' \in OutRec
    BY <2>1, <2>2, RangeInRec, NoRangeType, OutType, NAssumption
    DEF Ops, FindDeletes, Results
  <2>. QED
    BY <1>2, <1>5, <2>1, <2>2, <2>3 DEF TypeOK
<1>7. CASE p.res # "FAIL"
  <2>1. /\ primary' = p.land /\ secondary' = f.src
        /\ halted' = (p.res \notin {"OK", "FAIL"})
        /\ last' = Out("deleteSteal", r, 0, "NONE", p.res, p.ret, NoRange)
    BY <1>3, <1>7
  <2>3. last' \in OutRec
    BY <1>4, <2>1, RangeInRec, NoRangeType, OutType, NAssumption
    DEF Ops, FindDeletes, Results
  <2>. QED
    BY <1>2, <1>4, <1>5, <2>1, <2>3 DEF TypeOK
<1>. QED
  BY <1>6, <1>7

LEMMA TypeFind ==
  ASSUME TypeOK, NEW kind \in FindKinds, NEW size \in Sizes,
         NEW fd \in FindDeletes, Find(kind, size, fd)
  PROVE  TypeOK'
<1>1. PICK f \in Flushes : \E p \in LandFind(f.dest, kind, size, fd) :
        IF p.found
          THEN /\ primary' = p.land /\ secondary' = f.src
               /\ last' = Out(kind, NoRange, size, fd, "OK", p.ret, p.old)
          ELSE \E s \in LandFind(f.src, kind, size, fd) :
               /\ primary' = f.dest /\ secondary' = s.land
               /\ last' = Out(kind, NoRange, size, fd,
                              IF s.found THEN "OK" ELSE "FAIL", s.ret, s.old)
  BY DEF Find
<1>2. f.dest \subseteq Addr /\ f.src \subseteq Addr
  BY FlushesType
<1>3. PICK p \in LandFind(f.dest, kind, size, fd) :
        IF p.found
          THEN /\ primary' = p.land /\ secondary' = f.src
               /\ last' = Out(kind, NoRange, size, fd, "OK", p.ret, p.old)
          ELSE \E s \in LandFind(f.src, kind, size, fd) :
               /\ primary' = f.dest /\ secondary' = s.land
               /\ last' = Out(kind, NoRange, size, fd,
                              IF s.found THEN "OK" ELSE "FAIL", s.ret, s.old)
  BY <1>1
<1>4. /\ p.land \subseteq Addr /\ p.found \in BOOLEAN
      /\ p.ret \in RangeRec /\ p.old \in RangeRec
  BY <1>2, LandFindType
<1>5. UNCHANGED <<sig, halted>>
  BY DEF Find
<1>6. kind \in Ops /\ size \in 0 .. N
  BY NAssumption DEF FindKinds, Ops, Sizes
<1>7. CASE p.found
  <2>1. /\ primary' = p.land /\ secondary' = f.src
        /\ last' = Out(kind, NoRange, size, fd, "OK", p.ret, p.old)
    BY <1>3, <1>7
  <2>2. last' \in OutRec
    BY <1>4, <1>6, <2>1, NoRangeType, OutType DEF Results
  <2>. QED
    BY <1>2, <1>4, <1>5, <2>1, <2>2 DEF TypeOK
<1>8. CASE ~p.found
  <2>1. PICK s \in LandFind(f.src, kind, size, fd) :
          /\ primary' = f.dest /\ secondary' = s.land
          /\ last' = Out(kind, NoRange, size, fd,
                         IF s.found THEN "OK" ELSE "FAIL", s.ret, s.old)
    BY <1>3, <1>8
  <2>2. /\ s.land \subseteq Addr /\ s.found \in BOOLEAN
        /\ s.ret \in RangeRec /\ s.old \in RangeRec
    BY <1>2, LandFindType
  <2>3. (IF s.found THEN "OK" ELSE "FAIL") \in Results
    BY DEF Results
  <2>4. last' \in OutRec
    BY <1>6, <2>1, <2>2, <2>3, NoRangeType, OutType
  <2>. QED
    BY <1>2, <1>5, <2>1, <2>2, <2>4 DEF TypeOK
<1>. QED
  BY <1>7, <1>8

LEMMA TypeDelete ==
  ASSUME TypeOK, NEW r \in Ranges, Delete(r)
  PROVE  TypeOK'
<1>1. PICK f \in Flushes : \E d \in LandDelete(f.dest, r, TRUE) :
        CASE d.res = "FAIL" ->
               \E s \in LandDelete(f.src, r, FALSE) :
                 /\ primary' = f.dest /\ secondary' = s.land
                 /\ halted' = FALSE
                 /\ last' = Out("delete", r, 0, "NONE", s.res, s.ret, NoRange)
         [] d.res = "OK" ->
               /\ primary' = d.land /\ secondary' = f.src
               /\ halted' = ~RangesNest(d.ret, r)
               /\ last' = Out("delete", r, 0, "NONE", "OK", d.ret, NoRange)
         [] OTHER ->
               \E v \in DeleteRecovery(f.dest, f.src, d.ret, r) :
                 /\ primary' = v.p /\ secondary' = v.s
                 /\ halted' = ~(d.res = "ALLOC" /\ v.ok
                                /\ (v.res = "OK" => RangesNest(d.ret, r)))
                 /\ last' = Out("delete", r, 0, "NONE", v.res,
                                IF v.res = "OK" THEN d.ret ELSE NoRange, NoRange)
  BY Zenon DEF Delete
<1>2. f.dest \subseteq Addr /\ f.src \subseteq Addr
  BY FlushesType
<1>3. PICK d \in LandDelete(f.dest, r, TRUE) :
        CASE d.res = "FAIL" ->
               \E s \in LandDelete(f.src, r, FALSE) :
                 /\ primary' = f.dest /\ secondary' = s.land
                 /\ halted' = FALSE
                 /\ last' = Out("delete", r, 0, "NONE", s.res, s.ret, NoRange)
         [] d.res = "OK" ->
               /\ primary' = d.land /\ secondary' = f.src
               /\ halted' = ~RangesNest(d.ret, r)
               /\ last' = Out("delete", r, 0, "NONE", "OK", d.ret, NoRange)
         [] OTHER ->
               \E v \in DeleteRecovery(f.dest, f.src, d.ret, r) :
                 /\ primary' = v.p /\ secondary' = v.s
                 /\ halted' = ~(d.res = "ALLOC" /\ v.ok
                                /\ (v.res = "OK" => RangesNest(d.ret, r)))
                 /\ last' = Out("delete", r, 0, "NONE", v.res,
                                IF v.res = "OK" THEN d.ret ELSE NoRange, NoRange)
  BY <1>1, Zenon
<1>4. d.land \subseteq Addr /\ d.res \in Results /\ d.ret \in RangeRec
  BY <1>2, RangeInRec, LandDeleteType
<1>5. sig' = sig
  BY DEF Delete
<1>6. "delete" \in Ops /\ 0 \in 0 .. N /\ "NONE" \in FindDeletes
  BY NAssumption DEF Ops, FindDeletes
<1>7. CASE d.res = "FAIL"
  <2>1. PICK s \in LandDelete(f.src, r, FALSE) :
          /\ primary' = f.dest /\ secondary' = s.land
          /\ halted' = FALSE
          /\ last' = Out("delete", r, 0, "NONE", s.res, s.ret, NoRange)
    BY <1>3, <1>7, Zenon
  <2>2. s.land \subseteq Addr /\ s.res \in Results /\ s.ret \in RangeRec
    BY <1>2, RangeInRec, LandDeleteType
  <2>3. last' \in OutRec
    BY <1>6, <2>1, <2>2, RangeInRec, NoRangeType, OutType
  <2>. QED
    BY <1>2, <1>5, <2>1, <2>2, <2>3 DEF TypeOK
<1>8. CASE d.res = "OK"
  <2>1. /\ primary' = d.land /\ secondary' = f.src
        /\ halted' = ~RangesNest(d.ret, r)
        /\ last' = Out("delete", r, 0, "NONE", "OK", d.ret, NoRange)
    BY <1>3, <1>8, Zenon
  <2>3. last' \in OutRec
    BY <1>4, <1>6, <2>1, RangeInRec, NoRangeType, OutType DEF Results
  <2>. QED
    BY <1>2, <1>4, <1>5, <2>1, <2>3 DEF TypeOK
<1>9. CASE d.res \notin {"FAIL", "OK"}
  <2>1. PICK v \in DeleteRecovery(f.dest, f.src, d.ret, r) :
          /\ primary' = v.p /\ secondary' = v.s
          /\ halted' = ~(d.res = "ALLOC" /\ v.ok
                         /\ (v.res = "OK" => RangesNest(d.ret, r)))
          /\ last' = Out("delete", r, 0, "NONE", v.res,
                         IF v.res = "OK" THEN d.ret ELSE NoRange, NoRange)
    BY <1>3, <1>9, Zenon
  <2>2. /\ v.p \subseteq Addr /\ v.s \subseteq Addr
        /\ v.res \in Results /\ v.ok \in BOOLEAN
    BY <1>2, <1>4, RangeInRec, DeleteRecoveryType
  <2>3. (IF v.res = "OK" THEN d.ret ELSE NoRange) \in RangeRec
    BY <1>4, NoRangeType
  <2>4. last' \in OutRec
    BY <1>6, <2>1, <2>2, <2>3, RangeInRec, NoRangeType, OutType
  <2>. QED
    BY <1>5, <2>1, <2>2, <2>4 DEF TypeOK
<1>. QED
  BY <1>7, <1>8, <1>9

LEMMA TypeNext == TypeOK /\ [Next]_vars => TypeOK'
<1> SUFFICES ASSUME TypeOK, [Next]_vars PROVE TypeOK'
  OBVIOUS
<1>1. CASE FailoverInit
  BY <1>1 DEF FailoverInit, TypeOK
<1>2. CASE FailoverFinish
  BY <1>2 DEF FailoverFinish, TypeOK
<1>3. CASE \E r \in Ranges :
             Insert(r) \/ InsertSteal(r) \/ Delete(r) \/ DeleteSteal(r)
  BY <1>3, TypeInsert, TypeInsertSteal, TypeDelete, TypeDeleteSteal
<1>4. CASE \E kind \in FindKinds, size \in Sizes, fd \in FindDeletes :
             Find(kind, size, fd)
  BY <1>4, TypeFind
<1>5. CASE UNCHANGED vars
  BY <1>5 DEF vars, TypeOK
<1>. QED
  BY <1>1, <1>2, <1>3, <1>4, <1>5 DEF Next

(* The Failover's state keeps its type whatever every operation of        *)
(* failover.c and its children return: the children hold grains of the   *)
(* arena, the signature is valid or not, and each result handed back to   *)
(* the caller is a result code with ranges.                               *)
THEOREM TypeCorrect == Spec => []TypeOK
BY TypeInit, TypeNext, PTL DEF Spec

-----------------------------------------------------------------------------
(* What each child operation does to the child's grains. *)

LEMMA LandInsertEffect ==
  ASSUME NEW S, NEW r, NEW mf \in BOOLEAN, NEW o \in LandInsert(S, r, mf)
  PROVE  /\ o.land \subseteq S \cup Span(r)
         /\ Span(r) \cap S = {} => o.res # "FAIL"
         /\ (Span(r) \cap S = {} /\ ~mf) => o.res = "OK"
BY DEF LandInsert, Fail

LEMMA LandInsertStealEffect ==
  ASSUME NEW S, NEW r \in RangeRec, NEW mf \in BOOLEAN,
         NEW o \in LandInsertSteal(S, r, mf)
  PROVE  o.land \subseteq S \cup Span(r)
<1> DEFINE rest == Rng(r.base + 1, r.limit)
           inserted == {r} \cup (IF mf /\ NeedsNode(S, r) /\ RangeSize(r) > 1
                                   THEN {rest} ELSE {})
<1>1. \A x \in inserted : Span(x) \subseteq Span(r)
  BY DEF Span, Rng, RangeRec
<1>2. CASE Span(r) \cap S # {}
  BY <1>2 DEF LandInsertSteal, Fail
<1>3. CASE Span(r) \cap S = {}
  <2>1. PICK x \in inserted :
          o \in {[res |-> "OK", land |-> S \cup Span(x), ret |-> b] :
                  b \in Holders(S \cup Span(x), x)}
    BY <1>3 DEF LandInsertSteal
  <2>. QED
    BY <1>1, <2>1
<1>. QED
  BY <1>2, <1>3

LEMMA LandDeleteEffect ==
  ASSUME NEW S, NEW r, NEW mf \in BOOLEAN, NEW o \in LandDelete(S, r, mf)
  PROVE  /\ o.land \subseteq S
         /\ o.res = "OK" => o.ret \in Holders(S, r)
         /\ o.res = "ALLOC" => o.ret \in Holders(S, r) /\ Splits(o.ret, r)
BY DEF LandDelete, Fail

LEMMA LandDeleteStealEffect ==
  ASSUME NEW S, NEW r, NEW mf \in BOOLEAN, NEW o \in LandDeleteSteal(S, r, mf)
  PROVE  o.land \subseteq S
BY DEF LandDeleteSteal, Fail

LEMMA LandFindEffect ==
  ASSUME NEW S, NEW kind, NEW size, NEW fd, NEW o \in LandFind(S, kind, size, fd)
  PROVE  o.land \subseteq S
BY DEF LandFind

(* A flush moves grains from the secondary to the primary: it loses none, *)
(* makes none up, and leaves the two children disjoint if they were.      *)
LEMMA LandFlushEffect ==
  ASSUME NEW D, NEW S \in SUBSET Addr, NEW mf \in BOOLEAN, D \cap S = {},
         NEW f \in LandFlush(D, S, mf)
  PROVE  f.dest \cup f.src = D \cup S /\ f.dest \cap f.src = {}
<1>1. \E cut \in Nat :
        f = [dest |-> D \cup {a \in S : a < cut}, src |-> {a \in S : a >= cut}]
  BY NAssumption DEF LandFlush, FlushCuts, Blocks, Ranges, RangeRec
<1>2. PICK cut \in Nat :
        f = [dest |-> D \cup {a \in S : a < cut}, src |-> {a \in S : a >= cut}]
  BY <1>1
<1>3. f.dest = D \cup {a \in S : a < cut} /\ f.src = {a \in S : a >= cut}
  BY <1>2
<1>4. \A a \in S : (a < cut \/ a >= cut) /\ ~(a < cut /\ a >= cut)
  BY NAssumption DEF Addr
<1>5. f.dest \cup f.src = D \cup S
  BY <1>3, <1>4, Zenon
<1>6. f.dest \cap f.src = {}
  BY <1>3, <1>4, Zenon
<1>. QED
  BY <1>5, <1>6

(* A block of a land contains no other block: a block holding a block is *)
(* that block.  This is why the recovery path's delete of the whole old  *)
(* block finds exactly that block.                                       *)
LEMMA BlockUnique ==
  ASSUME NEW S, NEW b \in Blocks(S), NEW c \in Blocks(S), RangesNest(b, c)
  PROVE  b = c
<1>1. c.base = b.base
  <2>1. /\ b.base <= c.base /\ c.limit <= b.limit /\ c.base < c.limit
        /\ c.base - 1 \notin S /\ Span(b) \subseteq S
    BY DEF Blocks, IsBlock, RangesNest, Ranges
  <2>2. b.base \in Nat /\ b.limit \in Nat /\ c.base \in Nat /\ c.limit \in Nat
    BY NAssumption DEF Blocks, Ranges, RangeRec
  <2>3. CASE b.base < c.base
    <3>1. c.base - 1 \in Span(b)
      BY <2>1, <2>2, <2>3 DEF Span
    <3>. QED
      BY <3>1, <2>1
  <2>. QED
    BY <2>1, <2>2, <2>3
<1>2. c.limit = b.limit
  <2>1. /\ b.base <= c.base /\ c.limit <= b.limit /\ c.base < c.limit
        /\ c.limit \notin S /\ Span(b) \subseteq S
    BY DEF Blocks, IsBlock, RangesNest, Ranges
  <2>2. b.base \in Nat /\ b.limit \in Nat /\ c.base \in Nat /\ c.limit \in Nat
    BY NAssumption DEF Blocks, Ranges, RangeRec
  <2>3. CASE c.limit < b.limit
    <3>1. c.limit \in Span(b)
      BY <2>1, <2>2, <2>3 DEF Span
    <3>. QED
      BY <3>1, <2>1
  <2>. QED
    BY <2>1, <2>2, <2>3
<1>. QED
  BY <1>1, <1>2 DEF Blocks, Ranges, RangeRec

-----------------------------------------------------------------------------
(* The recovery path of failoverDelete. *)

(* Re-inserting a fragment that neither child holds passes both AVERs and *)
(* keeps the children disjoint: the primary cannot refuse it as an        *)
(* overlap, and the secondary, which never fails to allocate, takes it.   *)
LEMMA ReinsertSafe ==
  ASSUME NEW P \in SUBSET Addr, NEW S \in SUBSET Addr, NEW frag \in RangeRec,
         P \cap S = {}, Span(frag) \cap (P \cup S) = {},
         NEW o \in Reinsert(P, S, frag)
  PROVE  /\ o.ok = TRUE
         /\ o.p \cap o.s = {}
         /\ o.p \cup o.s \subseteq P \cup S \cup Span(frag)
<1>1. CASE frag.base = frag.limit
  <2>1. o = [p |-> P, s |-> S, ok |-> TRUE]
    BY <1>1, Zenon DEF Reinsert
  <2>. QED
    BY <2>1
<1>2. CASE frag.base # frag.limit
  <2>1. PICK i \in LandInsert(P, frag, TRUE) :
          o \in IF i.res = "OK" THEN {[p |-> i.land, s |-> S, ok |-> TRUE]}
                ELSE {[p |-> P, s |-> j.land,
                       ok |-> i.res # "FAIL" /\ j.res = "OK"] :
                        j \in LandInsert(S, frag, FALSE)}
    BY <1>2 DEF Reinsert
  <2>0. Span(frag) \cap P = {} /\ Span(frag) \cap S = {}
    OBVIOUS
  <2>2. i.land \subseteq P \cup Span(frag) /\ i.res # "FAIL"
    BY <2>0, LandInsertEffect
  <2>3. CASE i.res = "OK"
    <3>1. o = [p |-> i.land, s |-> S, ok |-> TRUE]
      BY <2>1, <2>3, Zenon
    <3>. QED
      BY <3>1, <2>2
  <2>4. CASE i.res # "OK"
    <3>1. PICK j \in LandInsert(S, frag, FALSE) :
            o = [p |-> P, s |-> j.land, ok |-> i.res # "FAIL" /\ j.res = "OK"]
      BY <2>1, <2>4
    <3>2. j.land \subseteq S \cup Span(frag) /\ j.res = "OK"
      BY <2>0, LandInsertEffect
    <3>. QED
      BY <3>1, <3>2, <2>2
  <2>. QED
    BY <2>3, <2>4
<1>. QED
  BY <1>1, <1>2

(* Deleting a whole block from its land succeeds and returns that block. *)
LEMMA DeleteWholeBlock ==
  ASSUME NEW P, NEW old \in Blocks(P)
  PROVE  LandDelete(P, old, TRUE) =
           {[res |-> "OK", land |-> P \ Span(old), ret |-> old]}
<1>1. Holders(P, old) = {old}
  <2>1. RangesNest(old, old)
    BY NAssumption DEF RangesNest, Blocks, Ranges, RangeRec
  <2>2. \A h \in Holders(P, old) : h = old
    BY BlockUnique DEF Holders
  <2>. QED
    BY <2>1, <2>2 DEF Holders
<1>2. ~Splits(old, old)
  BY NAssumption DEF Splits, Blocks, Ranges, RangeRec
<1>. QED
  BY <1>1, <1>2 DEF LandDelete

(* The fragments left and right of r lie in the old block and apart.     *)
LEMMA FragmentsInBlock ==
  ASSUME NEW old \in Ranges, NEW r \in Ranges, RangesNest(old, r)
  PROVE  /\ Span(LeftFragment(old, r)) \subseteq Span(old)
         /\ Span(RightFragment(old, r)) \subseteq Span(old)
         /\ Span(LeftFragment(old, r)) \cap Span(RightFragment(old, r)) = {}
BY NAssumption DEF LeftFragment, RightFragment, Rng, Span, Ranges, RangeRec,
   RangesNest

(* The recovery path, started on the block old of the primary that holds  *)
(* r, always succeeds: the whole-block delete returns old itself, and the *)
(* two fragments are taken back by one child or the other, so every AVER  *)
(* holds and no grain ends up in both children.                            *)
LEMMA DeleteRecoverySafe ==
  ASSUME NEW P \in SUBSET Addr, NEW S \in SUBSET Addr, P \cap S = {},
         NEW old \in Blocks(P), NEW r \in Ranges, RangesNest(old, r),
         NEW o \in DeleteRecovery(P, S, old, r)
  PROVE  /\ o.res = "OK" /\ o.ok = TRUE
         /\ o.p \cap o.s = {}
         /\ o.p \cup o.s \subseteq P \cup S
<1> DEFINE L == LeftFragment(old, r)
           R == RightFragment(old, r)
           P0 == P \ Span(old)
<1>1. old \in Ranges /\ Span(old) \subseteq P
  BY DEF Blocks, IsBlock
<1>2. /\ Span(L) \subseteq Span(old) /\ Span(R) \subseteq Span(old)
      /\ Span(L) \cap Span(R) = {}
  BY <1>1, FragmentsInBlock
<1>3. L \in RangeRec /\ R \in RangeRec /\ old \in RangeRec
  BY <1>1, FragmentType DEF Ranges
<1>4. PICK w \in LandDelete(P, old, TRUE) :
        o \in IF w.res # "OK"
              THEN {[p |-> w.land, s |-> S, res |-> w.res, ok |-> TRUE]}
              ELSE UNION {{[p |-> rt.p, s |-> rt.s, res |-> "OK",
                            ok |-> w.ret = old /\ lf.ok /\ rt.ok] :
                             rt \in Reinsert(lf.p, lf.s, R)} :
                            lf \in Reinsert(w.land, S, L)}
  BY DEF DeleteRecovery
<1>5. w.res = "OK" /\ w.land = P0 /\ w.ret = old
  <2>1. LandDelete(P, old, TRUE) =
          {[res |-> "OK", land |-> P0, ret |-> old]}
    BY DeleteWholeBlock
  <2>2. w = [res |-> "OK", land |-> P0, ret |-> old]
    BY <2>1, Zenon
  <2>. QED
    BY <2>2
<1>6. PICK lf \in Reinsert(w.land, S, L) :
        \E rt \in Reinsert(lf.p, lf.s, R) :
          o = [p |-> rt.p, s |-> rt.s, res |-> "OK",
               ok |-> w.ret = old /\ lf.ok /\ rt.ok]
  BY <1>4, <1>5
<1>. PICK rt \in Reinsert(lf.p, lf.s, R) :
        o = [p |-> rt.p, s |-> rt.s, res |-> "OK",
             ok |-> w.ret = old /\ lf.ok /\ rt.ok]
  BY <1>6
<1>7. /\ lf.ok = TRUE /\ lf.p \cap lf.s = {}
      /\ lf.p \cup lf.s \subseteq P0 \cup S \cup Span(L)
  <2>1. P0 \in SUBSET Addr /\ P0 \cap S = {}
    OBVIOUS
  <2>2. Span(L) \cap (P0 \cup S) = {}
    BY <1>1, <1>2
  <2>3. lf \in Reinsert(P0, S, L)
    BY <1>5
  <2>. QED
    BY <1>3, <2>1, <2>2, <2>3, ReinsertSafe
<1>8. lf.p \in SUBSET Addr /\ lf.s \in SUBSET Addr
  <2>1. lf \in Reinsert(P0, S, L) /\ P0 \in SUBSET Addr
    BY <1>5
  <2>. QED
    BY <1>3, <2>1, ReinsertType
<1>9. /\ rt.ok = TRUE /\ rt.p \cap rt.s = {}
      /\ rt.p \cup rt.s \subseteq lf.p \cup lf.s \cup Span(R)
  <2>1. Span(R) \cap (lf.p \cup lf.s) = {}
    BY <1>1, <1>2, <1>7
  <2>2. lf.p \cap lf.s = {}
    BY <1>7
  <2>3. rt \in Reinsert(lf.p, lf.s, R)
    OBVIOUS
  <2>. QED
    BY <1>3, <1>8, <2>1, <2>2, <2>3, ReinsertSafe, ZenonT(60)
<1>10. rt.p \cup rt.s \subseteq P \cup S
  BY <1>1, <1>2, <1>7, <1>9
<1>. QED
  BY <1>5, <1>7, <1>9, <1>10

-----------------------------------------------------------------------------
(* Safety: the children stay disjoint and no AVER fails, when the client  *)
(* frees only allocated memory.                                           *)

(* The inductive invariant: the type, and the two safety properties.      *)
(* Neither property is inductive on its own: the step of failoverDelete   *)
(* needs both children disjoint to show its AVERs hold, and every step    *)
(* needs the type to read the children as sets of grains.                 *)
IInv == TypeOK /\ ChildrenDisjoint /\ NoAverFailure

LEMMA FlushSafe ==
  ASSUME TypeOK, ChildrenDisjoint, NEW f \in Flushes
  PROVE  /\ f.dest \cup f.src = primary \cup secondary
         /\ f.dest \cap f.src = {}
         /\ f.dest \subseteq Addr /\ f.src \subseteq Addr
BY LandFlushEffect, FlushesType DEF Flushes, TypeOK, ChildrenDisjoint

LEMMA SafeInsert ==
  ASSUME Disciplined, IInv, NEW r \in Ranges, Insert(r)
  PROVE  (ChildrenDisjoint /\ NoAverFailure)'
<1>1. PICK f \in Flushes : \E p \in LandInsert(f.dest, r, TRUE) :
        IF p.res \in {"OK", "FAIL"}
          THEN /\ primary' = p.land /\ secondary' = f.src
               /\ last' = Out("insert", r, 0, "NONE", p.res, p.ret, NoRange)
          ELSE \E s \in LandInsert(f.src, r, FALSE) :
               /\ primary' = f.dest /\ secondary' = s.land
               /\ last' = Out("insert", r, 0, "NONE", s.res, s.ret, NoRange)
  BY DEF Insert
<1>2. /\ f.dest \cup f.src = primary \cup secondary /\ f.dest \cap f.src = {}
      /\ Span(r) \cap (f.dest \cup f.src) = {}
  BY FlushSafe DEF IInv, Insert, ClientRange, Free
<1>3. PICK p \in LandInsert(f.dest, r, TRUE) :
        IF p.res \in {"OK", "FAIL"}
          THEN /\ primary' = p.land /\ secondary' = f.src
               /\ last' = Out("insert", r, 0, "NONE", p.res, p.ret, NoRange)
          ELSE \E s \in LandInsert(f.src, r, FALSE) :
               /\ primary' = f.dest /\ secondary' = s.land
               /\ last' = Out("insert", r, 0, "NONE", s.res, s.ret, NoRange)
  BY <1>1
<1>4. NoAverFailure'
  BY DEF Insert, IInv, NoAverFailure
<1>5. CASE p.res \in {"OK", "FAIL"}
  <2>1. p.land \subseteq f.dest \cup Span(r)
    BY LandInsertEffect
  <2>. QED
    BY <1>2, <1>3, <1>4, <1>5, <2>1 DEF ChildrenDisjoint
<1>6. CASE p.res \notin {"OK", "FAIL"}
  <2>1. PICK s \in LandInsert(f.src, r, FALSE) :
          /\ primary' = f.dest /\ secondary' = s.land
    BY <1>3, <1>6
  <2>2. s.land \subseteq f.src \cup Span(r)
    BY LandInsertEffect
  <2>. QED
    BY <1>2, <1>4, <2>1, <2>2 DEF ChildrenDisjoint
<1>. QED
  BY <1>5, <1>6

LEMMA SafeInsertSteal ==
  ASSUME Disciplined, IInv, NEW r \in Ranges, InsertSteal(r)
  PROVE  (ChildrenDisjoint /\ NoAverFailure)'
<1>1. PICK f \in Flushes : \E p \in LandInsertSteal(f.dest, r, TRUE) :
        /\ primary' = p.land /\ secondary' = f.src
        /\ halted' = (p.res \notin {"OK", "FAIL"})
  BY DEF InsertSteal
<1>2. /\ f.dest \cap f.src = {} /\ f.dest \subseteq Addr
      /\ Span(r) \cap (f.dest \cup f.src) = {}
  BY FlushSafe DEF IInv, InsertSteal, ClientRange, Free
<1>3. PICK p \in LandInsertSteal(f.dest, r, TRUE) :
        /\ primary' = p.land /\ secondary' = f.src
        /\ halted' = (p.res \notin {"OK", "FAIL"})
  BY <1>1
<1>4. p.land \subseteq f.dest \cup Span(r) /\ p.res \in {"OK", "FAIL"}
  BY <1>2, RangeInRec, LandInsertStealEffect, LandInsertStealType
<1>. QED
  BY <1>2, <1>3, <1>4 DEF ChildrenDisjoint, NoAverFailure

LEMMA SafeDeleteSteal ==
  ASSUME IInv, NEW r \in Ranges, DeleteSteal(r)
  PROVE  (ChildrenDisjoint /\ NoAverFailure)'
<1>1. PICK f \in Flushes : \E p \in LandDeleteSteal(f.dest, r, TRUE) :
        IF p.res = "FAIL"
          THEN \E s \in LandDeleteSteal(f.src, r, FALSE) :
               /\ primary' = f.dest /\ secondary' = s.land
               /\ halted' = (s.res \notin {"OK", "FAIL"})
          ELSE /\ primary' = p.land /\ secondary' = f.src
               /\ halted' = (p.res \notin {"OK", "FAIL"})
  BY DEF DeleteSteal
<1>2. f.dest \cap f.src = {} /\ f.dest \subseteq Addr /\ f.src \subseteq Addr
  BY FlushSafe DEF IInv
<1>3. PICK p \in LandDeleteSteal(f.dest, r, TRUE) :
        IF p.res = "FAIL"
          THEN \E s \in LandDeleteSteal(f.src, r, FALSE) :
               /\ primary' = f.dest /\ secondary' = s.land
               /\ halted' = (s.res \notin {"OK", "FAIL"})
          ELSE /\ primary' = p.land /\ secondary' = f.src
               /\ halted' = (p.res \notin {"OK", "FAIL"})
  BY <1>1
<1>4. p.land \subseteq f.dest /\ p.res \in {"OK", "FAIL"}
  BY <1>2, RangeInRec, LandDeleteStealEffect, LandDeleteStealType
<1>5. CASE p.res = "FAIL"
  <2>1. PICK s \in LandDeleteSteal(f.src, r, FALSE) :
          /\ primary' = f.dest /\ secondary' = s.land
          /\ halted' = (s.res \notin {"OK", "FAIL"})
    BY <1>3, <1>5
  <2>2. s.land \subseteq f.src /\ s.res \in {"OK", "FAIL"}
    BY <1>2, RangeInRec, LandDeleteStealEffect, LandDeleteStealType
  <2>. QED
    BY <1>2, <2>1, <2>2 DEF ChildrenDisjoint, NoAverFailure
<1>6. CASE p.res # "FAIL"
  BY <1>2, <1>3, <1>4, <1>6 DEF ChildrenDisjoint, NoAverFailure
<1>. QED
  BY <1>5, <1>6

LEMMA SafeFind ==
  ASSUME IInv, NEW kind \in FindKinds, NEW size \in Sizes,
         NEW fd \in FindDeletes, Find(kind, size, fd)
  PROVE  (ChildrenDisjoint /\ NoAverFailure)'
<1>1. PICK f \in Flushes : \E p \in LandFind(f.dest, kind, size, fd) :
        IF p.found
          THEN /\ primary' = p.land /\ secondary' = f.src
          ELSE \E s \in LandFind(f.src, kind, size, fd) :
               /\ primary' = f.dest /\ secondary' = s.land
  BY DEF Find
<1>2. f.dest \cap f.src = {}
  BY FlushSafe DEF IInv
<1>3. PICK p \in LandFind(f.dest, kind, size, fd) :
        IF p.found
          THEN /\ primary' = p.land /\ secondary' = f.src
          ELSE \E s \in LandFind(f.src, kind, size, fd) :
               /\ primary' = f.dest /\ secondary' = s.land
  BY <1>1
<1>4. NoAverFailure'
  BY DEF Find, IInv, NoAverFailure
<1>5. CASE p.found
  <2>1. p.land \subseteq f.dest
    BY LandFindEffect
  <2>. QED
    BY <1>2, <1>3, <1>4, <1>5, <2>1 DEF ChildrenDisjoint
<1>6. CASE ~p.found
  <2>1. PICK s \in LandFind(f.src, kind, size, fd) :
          /\ primary' = f.dest /\ secondary' = s.land
    BY <1>3, <1>6
  <2>2. s.land \subseteq f.src
    BY LandFindEffect
  <2>. QED
    BY <1>2, <1>4, <2>1, <2>2 DEF ChildrenDisjoint
<1>. QED
  BY <1>5, <1>6

(* failoverDelete keeps the children disjoint and its AVERs hold: on OK   *)
(* the primary's block holds the range, and an allocation failure sends  *)
(* it down the recovery path, which DeleteRecoverySafe shows succeeds.    *)
LEMMA SafeDelete ==
  ASSUME IInv, NEW r \in Ranges, Delete(r)
  PROVE  (ChildrenDisjoint /\ NoAverFailure)'
<1>1. PICK f \in Flushes : \E d \in LandDelete(f.dest, r, TRUE) :
        CASE d.res = "FAIL" ->
               \E s \in LandDelete(f.src, r, FALSE) :
                 /\ primary' = f.dest /\ secondary' = s.land
                 /\ halted' = FALSE
                 /\ last' = Out("delete", r, 0, "NONE", s.res, s.ret, NoRange)
         [] d.res = "OK" ->
               /\ primary' = d.land /\ secondary' = f.src
               /\ halted' = ~RangesNest(d.ret, r)
               /\ last' = Out("delete", r, 0, "NONE", "OK", d.ret, NoRange)
         [] OTHER ->
               \E v \in DeleteRecovery(f.dest, f.src, d.ret, r) :
                 /\ primary' = v.p /\ secondary' = v.s
                 /\ halted' = ~(d.res = "ALLOC" /\ v.ok
                                /\ (v.res = "OK" => RangesNest(d.ret, r)))
                 /\ last' = Out("delete", r, 0, "NONE", v.res,
                                IF v.res = "OK" THEN d.ret ELSE NoRange, NoRange)
  BY Zenon DEF Delete
<1>2. f.dest \cap f.src = {} /\ f.dest \subseteq Addr /\ f.src \subseteq Addr
  BY FlushSafe DEF IInv
<1>3. PICK d \in LandDelete(f.dest, r, TRUE) :
        CASE d.res = "FAIL" ->
               \E s \in LandDelete(f.src, r, FALSE) :
                 /\ primary' = f.dest /\ secondary' = s.land
                 /\ halted' = FALSE
                 /\ last' = Out("delete", r, 0, "NONE", s.res, s.ret, NoRange)
         [] d.res = "OK" ->
               /\ primary' = d.land /\ secondary' = f.src
               /\ halted' = ~RangesNest(d.ret, r)
               /\ last' = Out("delete", r, 0, "NONE", "OK", d.ret, NoRange)
         [] OTHER ->
               \E v \in DeleteRecovery(f.dest, f.src, d.ret, r) :
                 /\ primary' = v.p /\ secondary' = v.s
                 /\ halted' = ~(d.res = "ALLOC" /\ v.ok
                                /\ (v.res = "OK" => RangesNest(d.ret, r)))
                 /\ last' = Out("delete", r, 0, "NONE", v.res,
                                IF v.res = "OK" THEN d.ret ELSE NoRange, NoRange)
  BY <1>1, Zenon
<1>4. /\ d.land \subseteq f.dest /\ d.res \in Results
      /\ d.res = "OK" => d.ret \in Holders(f.dest, r)
      /\ d.res = "ALLOC" => d.ret \in Holders(f.dest, r)
  BY <1>2, RangeInRec, LandDeleteEffect, LandDeleteType
<1>5. CASE d.res = "FAIL"
  <2>1. PICK s \in LandDelete(f.src, r, FALSE) :
          /\ primary' = f.dest /\ secondary' = s.land
          /\ halted' = FALSE
    BY <1>3, <1>5, Zenon
  <2>2. s.land \subseteq f.src
    BY LandDeleteEffect
  <2>. QED
    BY <1>2, <2>1, <2>2 DEF ChildrenDisjoint, NoAverFailure
<1>6. CASE d.res = "OK"
  <2>1. /\ primary' = d.land /\ secondary' = f.src
        /\ halted' = ~RangesNest(d.ret, r)
    BY <1>3, <1>6, Zenon
  <2>2. RangesNest(d.ret, r)
    BY <1>4, <1>6 DEF Holders
  <2>. QED
    BY <1>2, <1>4, <2>1, <2>2 DEF ChildrenDisjoint, NoAverFailure
<1>7. CASE d.res \notin {"FAIL", "OK"}
  <2>1. PICK v \in DeleteRecovery(f.dest, f.src, d.ret, r) :
          /\ primary' = v.p /\ secondary' = v.s
          /\ halted' = ~(d.res = "ALLOC" /\ v.ok
                         /\ (v.res = "OK" => RangesNest(d.ret, r)))
    BY <1>3, <1>7, Zenon
  <2>2. d.res = "ALLOC"
    BY <1>4, <1>7 DEF Results
  <2>3. d.ret \in Blocks(f.dest) /\ RangesNest(d.ret, r)
    BY <1>4, <2>2 DEF Holders
  <2>4. f.dest \in SUBSET Addr /\ f.src \in SUBSET Addr
    BY <1>2
  <2>5. /\ v.res = "OK" /\ v.ok = TRUE
        /\ v.p \cap v.s = {}
        /\ v.p \cup v.s \subseteq f.dest \cup f.src
    BY <1>2, <2>3, <2>4, DeleteRecoverySafe
  <2>. QED
    BY <2>1, <2>2, <2>3, <2>5 DEF ChildrenDisjoint, NoAverFailure
<1>. QED
  BY <1>5, <1>6, <1>7

LEMMA SafeNext ==
  ASSUME Disciplined, IInv, [Next]_vars
  PROVE  IInv'
<1>1. TypeOK'
  BY TypeNext DEF IInv
<1>2. (ChildrenDisjoint /\ NoAverFailure)'
  <2>1. CASE FailoverInit
    BY <2>1 DEF FailoverInit, IInv, ChildrenDisjoint, NoAverFailure
  <2>2. CASE FailoverFinish
    BY <2>2 DEF FailoverFinish, IInv, ChildrenDisjoint, NoAverFailure
  <2>3. CASE \E r \in Ranges :
               Insert(r) \/ InsertSteal(r) \/ Delete(r) \/ DeleteSteal(r)
    BY <2>3, SafeInsert, SafeInsertSteal, SafeDelete, SafeDeleteSteal
  <2>4. CASE \E kind \in FindKinds, size \in Sizes, fd \in FindDeletes :
               Find(kind, size, fd)
    BY <2>4, SafeFind
  <2>5. CASE UNCHANGED vars
    BY <2>5 DEF vars, IInv, ChildrenDisjoint, NoAverFailure
  <2>. QED
    BY <2>1, <2>2, <2>3, <2>4, <2>5 DEF Next
<1>. QED
  BY <1>1, <1>2 DEF IInv

(* For a client that frees only allocated memory, as MVFF does, no grain *)
(* is ever free in both children of the Failover: neither the spill of   *)
(* failoverInsert, nor the flush, nor the fragments re-inserted by the   *)
(* recovery path of failoverDelete put a grain in one child while the    *)
(* other holds it.                                                        *)
THEOREM ChildrenDisjointHolds ==
  ASSUME Disciplined
  PROVE  Spec => []ChildrenDisjoint
<1>1. Init => IInv
  BY TypeInit DEF Init, IInv, ChildrenDisjoint, NoAverFailure
<1>2. IInv /\ [Next]_vars => IInv'
  BY SafeNext
<1>3. IInv => ChildrenDisjoint
  BY DEF IInv
<1>. QED
  BY <1>1, <1>2, <1>3, PTL DEF Spec

(* For such a client no AVER of failover.c ever fails: the primary's      *)
(* block always holds the range it deleted, insertSteal and deleteSteal   *)
(* only ever see OK or FAIL, and the recovery path of failoverDelete      *)
(* re-deletes exactly the old block and gets its fragments taken back.    *)
THEOREM NoAverFailureHolds ==
  ASSUME Disciplined
  PROVE  Spec => []NoAverFailure
<1>1. Init => IInv
  BY TypeInit DEF Init, IInv, ChildrenDisjoint, NoAverFailure
<1>2. IInv /\ [Next]_vars => IInv'
  BY SafeNext
<1>3. IInv => NoAverFailure
  BY DEF IInv
<1>. QED
  BY <1>1, <1>2, <1>3, PTL DEF Spec
=============================================================================
