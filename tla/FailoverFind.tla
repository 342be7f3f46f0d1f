---------------------------- MODULE FailoverFind ----------------------------
(***************************************************************************)
(* A find of the Failover misses only when neither child had a block big   *)
(* enough before it (FindNoFalseMiss), for every size N of the address     *)
(* space.  The argument: the flush failoverFind starts with cuts the       *)
(* secondary at a block boundary, so no block it had is split between the  *)
(* children; every run of free grains lies in a block of its child; and a  *)
(* child with a block big enough has one that findFirst, findLast and      *)
(* findLargest pick.                                                       *)
(***************************************************************************)
EXTENDS FailoverRefinement, WellFoundedInduction

-----------------------------------------------------------------------------
(* The less-than relation on the naturals, as a set of pairs. *)
NatLess == {ss \in Nat \X Nat : ss[1] < ss[2]}

(* Every non-empty set of naturals has a least element. *)
LEMMA NatMin ==
  ASSUME NEW T \in SUBSET Nat, T # {}
  PROVE  \E m \in T : \A t \in T : m <= t
<1>0. IsWellFoundedOn(NatLess, Nat)
  BY NatLessThanWellFounded DEF OpToRel, NatLess
<1>1. \E m \in T : \A t \in T : ~(<<t, m>> \in NatLess)
  BY <1>0, WFMin
<1>2. PICK m \in T : \A t \in T : ~(<<t, m>> \in NatLess)
  BY <1>1
<1>3. \A t \in T : m <= t
  <2> TAKE t \in T
  <2>1. ~(<<t, m>> \in NatLess)
    BY <1>2
  <2>2. <<t, m>> \in Nat \X Nat /\ <<t, m>>[1] = t /\ <<t, m>>[2] = m
    OBVIOUS
  <2>3. ~(t < m)
    BY <2>1, <2>2, Zenon DEF NatLess
  <2> QED
    BY <2>3
<1> QED
  BY <1>3

(* A run of free grains lies in one block of the child that holds it: the *)
(* block grows from the run down to the first grain below that is not     *)
(* free and up to the first grain above that is not free.                 *)
LEMMA BlockAround ==
  ASSUME NEW S \in SUBSET Addr, NEW r \in Ranges, Span(r) \subseteq S
  PROVE  \E b \in Blocks(S) : RangesNest(b, r)
<1>0. r.base \in 0 .. N /\ r.limit \in 0 .. N /\ r.base < r.limit
  BY DEF Ranges, RangeRec
<1> DEFINE Lo == {x \in 0 .. r.base : x .. (r.base - 1) \subseteq S}
           Ks == {k \in 0 .. N : r.limit <= N - k /\ r.limit .. (N - k - 1) \subseteq S}
<1>1. PICK lo \in Lo : \A x \in Lo : lo <= x
  <2>1. r.base \in Lo
    BY <1>0
  <2>2. Lo \in SUBSET Nat /\ Lo # {}
    BY <2>1
  <2> QED
    BY <2>2, NatMin, Zenon
<1>2. PICK k \in Ks : \A x \in Ks : k <= x
  <2>1. N - r.limit \in Ks
    BY <1>0, NAssumption
  <2>2. Ks \in SUBSET Nat /\ Ks # {}
    BY <2>1
  <2> QED
    BY <2>2, NatMin, Zenon
<1> DEFINE hi == N - k
           b == Rng(lo, hi)
<1>3. b \in Ranges /\ RangesNest(b, r)
  BY <1>0, <1>1, <1>2, NAssumption DEF Ranges, RangeRec, Rng, RangesNest
<1>4. Span(b) \subseteq S
  BY <1>0, <1>1, <1>2, NAssumption DEF Span, Rng
<1>5. lo - 1 \notin S
  <2>1. SUFFICES ASSUME lo - 1 \in S PROVE FALSE
    OBVIOUS
  <2>2. lo - 1 \in Lo
    BY <1>0, <1>1, <2>1, NAssumption DEF Addr
  <2> QED
    BY <1>1, <2>2
<1>6. hi \notin S
  <2>1. SUFFICES ASSUME hi \in S PROVE FALSE
    OBVIOUS
  <2>2. k - 1 \in Ks
    BY <1>0, <1>2, <2>1, NAssumption DEF Addr
  <2> QED
    BY <1>2, <2>2
<1> QED
  BY <1>3, <1>4, <1>5, <1>6 DEF Blocks, IsBlock, Rng


(* A child that holds a run of size grains has a block that fits.         *)
LEMMA RunFits ==
  ASSUME NEW S \in SUBSET Addr, NEW r \in Ranges, Span(r) \subseteq S,
         NEW size \in Nat, RangeSize(r) >= size
  PROVE  Fits(S, size) # {}
<1>1. PICK b \in Blocks(S) : RangesNest(b, r)
  BY BlockAround
<1>2. RangeSize(b) >= size
  BY <1>1 DEF Blocks, Ranges, RangeRec, RangesNest, RangeSize
<1> QED
  BY <1>1, <1>2 DEF Fits

(* cbsFindFirst, cbsFindLast and cbsFindLargest find a block whenever one *)
(* fits: the lowest, the highest and the largest block exist.             *)
LEMMA PicksExist ==
  ASSUME NEW S, NEW kind \in FindKinds, NEW size \in Nat, Fits(S, size) # {}
  PROVE  Picks(S, kind, size) # {}
<1>0. \A c \in Blocks(S) : c.base \in 0 .. N /\ RangeSize(c) \in 0 .. N
  <2> TAKE c \in Blocks(S)
  <2>1. c \in Ranges
    BY DEF Blocks
  <2>2. c.base \in 0 .. N /\ c.limit \in 0 .. N /\ c.base < c.limit
    BY <2>1 DEF Ranges, RangeRec
  <2> QED
    BY <2>2, NAssumption DEF RangeSize
<1>1. CASE kind = "findFirst"
  <2> DEFINE T == {c.base : c \in Fits(S, size)}
  <2>1. T \in SUBSET Nat /\ T # {}
    BY <1>0, NAssumption DEF Fits
  <2>2. PICK m \in T : \A t \in T : m <= t
    BY <2>1, NatMin, Zenon
  <2>3. PICK b \in Fits(S, size) : b.base = m
    BY <2>2
  <2>4. \A c \in Fits(S, size) : b.base <= c.base
    BY <2>2, <2>3
  <2>5. Picks(S, kind, size) =
          {x \in Fits(S, size) : \A c \in Fits(S, size) : x.base <= c.base}
    BY <1>1, Zenon DEF Picks
  <2> QED
    BY <2>3, <2>4, <2>5
<1>2. CASE kind = "findLast"
  <2> DEFINE T == {N - c.base : c \in Fits(S, size)}
  <2>1. T \in SUBSET Nat /\ T # {}
    BY <1>0, NAssumption DEF Fits
  <2>2. PICK m \in T : \A t \in T : m <= t
    BY <2>1, NatMin, Zenon
  <2>3. PICK b \in Fits(S, size) : N - b.base = m
    BY <2>2
  <2>4. \A c \in Fits(S, size) : c.base <= b.base
    <3> TAKE c \in Fits(S, size)
    <3>1. m <= N - c.base
      <4>1. N - c.base \in T
        OBVIOUS
      <4> QED
        BY <2>2, <4>1
    <3>2. c \in Blocks(S) /\ b \in Blocks(S)
      BY DEF Fits
    <3> QED
      BY <1>0, <2>3, <3>1, <3>2, NAssumption
  <2>5. Picks(S, kind, size) =
          {x \in Fits(S, size) : \A c \in Fits(S, size) : c.base <= x.base}
    BY <1>2, Zenon DEF Picks
  <2> QED
    BY <2>3, <2>4, <2>5
<1>3. CASE kind = "findLargest"
  <2> DEFINE T == {N - RangeSize(c) : c \in Blocks(S)}
  <2>1. T \in SUBSET Nat /\ T # {}
    BY <1>0, NAssumption DEF Fits
  <2>2. PICK m \in T : \A t \in T : m <= t
    BY <2>1, NatMin, Zenon
  <2>3. PICK b \in Blocks(S) : N - RangeSize(b) = m
    BY <2>2
  <2>4. \A c \in Blocks(S) : RangeSize(c) <= RangeSize(b)
    <3> TAKE c \in Blocks(S)
    <3>1. m <= N - RangeSize(c)
      <4>1. N - RangeSize(c) \in T
        OBVIOUS
      <4> QED
        BY <2>2, <4>1
    <3> QED
      BY <1>0, <2>3, <3>1, NAssumption
  <2>5. b \in Fits(S, size)
    <3>1. PICK c \in Fits(S, size) : TRUE
      OBVIOUS
    <3>2. c \in Blocks(S) /\ RangeSize(c) >= size
      BY <3>1 DEF Fits
    <3> QED
      BY <1>0, <2>3, <2>4, <3>2 DEF Fits
  <2>6. Picks(S, kind, size) =
          {x \in Fits(S, size) : \A c \in Blocks(S) : RangeSize(c) <= RangeSize(x)}
    BY <1>3, Zenon DEF Picks
  <2> QED
    BY <2>4, <2>5, <2>6
<1> QED
  BY <1>1, <1>2, <1>3 DEF FindKinds


(* The flush failoverFind starts with (LandFlush) stops only at the base  *)
(* of a block of the secondary, or after its last one: a block of the     *)
(* primary stays in the primary, and a block of the secondary moves whole *)
(* or stays whole, so a block that fitted before still fits in one child. *)
LEMMA FlushKeepsFits ==
  ASSUME NEW D \in SUBSET Addr, NEW S \in SUBSET Addr, NEW mf,
         NEW f \in LandFlush(D, S, mf), NEW size \in Nat
  PROVE  /\ Fits(D, size) # {} => Fits(f.dest, size) # {}
         /\ Fits(S, size) # {} =>
              Fits(f.dest, size) # {} \/ Fits(f.src, size) # {}
<1>1. PICK c \in FlushCuts(D, S, mf) :
        f = [dest |-> D \cup {a \in S : a < c}, src |-> {a \in S : a >= c}]
  BY Zenon DEF LandFlush
<1>2. c = N \/ \E b0 \in Blocks(S) : c = b0.base
  BY DEF FlushCuts
<1>3. /\ f.dest = D \cup {a \in S : a < c} /\ f.src = {a \in S : a >= c}
      /\ f.dest \subseteq Addr /\ f.src \subseteq Addr
  BY <1>1
<1>2a. c \in 0 .. N
  BY <1>2, NAssumption DEF Blocks, Ranges, RangeRec
<1>4. Fits(D, size) # {} => Fits(f.dest, size) # {}
  <2>1. SUFFICES ASSUME NEW b \in Fits(D, size) PROVE Fits(f.dest, size) # {}
    OBVIOUS
  <2>2. b \in Ranges /\ Span(b) \subseteq f.dest /\ RangeSize(b) >= size
    BY <1>3 DEF Fits, Blocks, IsBlock
  <2> QED
    BY <1>3, <2>2, RunFits
<1>5. Fits(S, size) # {} =>
        Fits(f.dest, size) # {} \/ Fits(f.src, size) # {}
  <2>1. SUFFICES ASSUME NEW b \in Fits(S, size)
                 PROVE  Fits(f.dest, size) # {} \/ Fits(f.src, size) # {}
    OBVIOUS
  <2>2. /\ b \in Ranges /\ Span(b) \subseteq S /\ RangeSize(b) >= size
        /\ b.base \in 0 .. N /\ b.limit \in 0 .. N
    BY DEF Fits, Blocks, IsBlock, Ranges, RangeRec
  <2>3. b.limit <= c \/ c <= b.base
    <3>1. CASE c = N
      BY <2>2, <3>1
    <3>2. CASE \E b0 \in Blocks(S) : c = b0.base
      <4>1. PICK b0 \in Blocks(S) : c = b0.base
        BY <3>2
      <4>2. b0.base - 1 \notin S /\ b0.base \in Nat
        BY DEF Blocks, IsBlock, Ranges, RangeRec
      <4>3. SUFFICES ASSUME b.base < c, c < b.limit PROVE FALSE
        BY <4>1, <4>2, <2>2
      <4>4. c - 1 \in Span(b)
        BY <2>2, <4>1, <4>2, <4>3 DEF Span
      <4> QED
        BY <2>2, <4>1, <4>2, <4>4
    <3> QED
      BY <1>2, <3>1, <3>2
  <2>4. CASE b.limit <= c
    <3>1. Span(b) \subseteq f.dest
      BY <1>2a, <1>3, <2>2, <2>4 DEF Span
    <3> QED
      BY <1>3, <2>2, <3>1, RunFits
  <2>5. CASE c <= b.base
    <3>1. Span(b) \subseteq f.src
      BY <1>2a, <1>3, <2>2, <2>5 DEF Span
    <3> QED
      BY <1>3, <2>2, <3>1, RunFits
  <2> QED
    BY <2>3, <2>4, <2>5
<1> QED
  BY <1>4, <1>5


(* The operations other than the finds report themselves by name in last. *)
LEMMA OpNames ==
  ASSUME NEW r
  PROVE  /\ Insert(r) => last'.op = "insert"
         /\ InsertSteal(r) => last'.op = "insertSteal"
         /\ Delete(r) => last'.op = "delete"
         /\ DeleteSteal(r) => last'.op = "deleteSteal"
<1>1. Insert(r) => last'.op = "insert"
  <2>1. Insert(r) => \E x, y, z : last' = Out("insert", r, 0, "NONE", x, y, z)
    BY Zenon DEF Insert
  <2> QED
    BY <2>1 DEF Out
<1>2. InsertSteal(r) => last'.op = "insertSteal"
  <2>1. InsertSteal(r) => \E x, y, z : last' = Out("insertSteal", r, 0, "NONE", x, y, z)
    BY Zenon DEF InsertSteal
  <2> QED
    BY <2>1 DEF Out
<1>3. Delete(r) => last'.op = "delete"
  <2>1. Delete(r) => \E x, y, z : last' = Out("delete", r, 0, "NONE", x, y, z)
    <3> DEFINE Step(f, d) ==
           CASE d.res = "FAIL" ->
                  \E s \in LandDelete(f.src, r, FALSE) :
                    /\ primary' = f.dest /\ secondary' = s.land
                    /\ halted' = FALSE
                    /\ last' = Out("delete", r, 0, "NONE", s.res, s.ret, NoRange)
            [] d.res = "OK" ->
                  /\ primary' = d.land /\ secondary' = f.src
                  /\ halted' = ~RangesNest(d.ret, r)
                  /\ last' = Out("delete", r, 0, "NONE", "OK", d.ret, NoRange)
            [] OTHER ->
                  \E v \in DeleteRecovery(f.dest, f.src, d.ret, r) :
                    /\ primary' = v.p /\ secondary' = v.s
                    /\ halted' = ~(d.res = "ALLOC" /\ v.ok
                                   /\ (v.res = "OK" => RangesNest(d.ret, r)))
                    /\ last' = Out("delete", r, 0, "NONE", v.res,
                                   IF v.res = "OK" THEN d.ret ELSE NoRange, NoRange)
    <3>1. SUFFICES ASSUME Delete(r)
                   PROVE  \E x, y, z : last' = Out("delete", r, 0, "NONE", x, y, z)
      OBVIOUS
    <3>2. PICK f \in Flushes : \E d \in LandDelete(f.dest, r, TRUE) : Step(f, d)
      BY <3>1, Zenon DEF Delete
    <3>3. PICK d \in LandDelete(f.dest, r, TRUE) : Step(f, d)
      BY <3>2
    <3>4. CASE d.res = "FAIL"
      BY <3>3, <3>4, Zenon
    <3>5. CASE d.res = "OK"
      BY <3>3, <3>5, Zenon
    <3>6. CASE d.res \notin {"FAIL", "OK"}
      BY <3>3, <3>6, Zenon
    <3> QED
      BY <3>4, <3>5, <3>6
  <2> QED
    BY <2>1 DEF Out
<1>4. DeleteSteal(r) => last'.op = "deleteSteal"
  <2>1. DeleteSteal(r) => \E x, y, z : last' = Out("deleteSteal", r, 0, "NONE", x, y, z)
    BY Zenon DEF DeleteSteal
  <2> QED
    BY <2>1 DEF Out
<1> QED
  BY <1>1, <1>2, <1>3, <1>4


(* A find that fails was asked of a Failover in which neither child had a *)
(* block of the size asked: failoverFindFirst, failoverFindLast and       *)
(* failoverFindLargest ask the secondary after a miss in the primary, and *)
(* the flush before them keeps every block whole.                         *)
LEMMA FindMissStep ==
  ASSUME TypeOK, NEW kind \in FindKinds, NEW size \in Sizes,
         NEW fd \in FindDeletes, Find(kind, size, fd), last'.res = "FAIL"
  PROVE  /\ last'.size = size
         /\ Fits(primary, size) = {} /\ Fits(secondary, size) = {}
<1> DEFINE Step(f, p) ==
       IF p.found
         THEN /\ primary' = p.land /\ secondary' = f.src
              /\ last' = Out(kind, NoRange, size, fd, "OK", p.ret, p.old)
         ELSE \E s \in LandFind(f.src, kind, size, fd) :
              /\ primary' = f.dest /\ secondary' = s.land
              /\ last' = Out(kind, NoRange, size, fd,
                             IF s.found THEN "OK" ELSE "FAIL", s.ret, s.old)
<1>0. size \in Nat
  BY DEF Sizes
<1>1. PICK f \in Flushes : \E p \in LandFind(f.dest, kind, size, fd) : Step(f, p)
  BY Zenon DEF Find
<1>2. PICK p \in LandFind(f.dest, kind, size, fd) : Step(f, p)
  BY <1>1
<1>3. ~p.found
  <2>1. SUFFICES ASSUME p.found PROVE FALSE
    OBVIOUS
  <2>2. last' = Out(kind, NoRange, size, fd, "OK", p.ret, p.old)
    BY <1>2, <2>1
  <2> QED
    BY <2>2 DEF Out
<1>4. PICK s \in LandFind(f.src, kind, size, fd) :
        last' = Out(kind, NoRange, size, fd,
                    IF s.found THEN "OK" ELSE "FAIL", s.ret, s.old)
  BY <1>2, <1>3
<1>5. ~s.found /\ last'.size = size
  BY <1>4 DEF Out
<1>6. Picks(f.dest, kind, size) = {} /\ Picks(f.src, kind, size) = {}
  BY <1>3, <1>5 DEF LandFind
<1>7. Fits(f.dest, size) = {} /\ Fits(f.src, size) = {}
  BY <1>0, <1>6, PicksExist
<1>8. /\ f \in LandFlush(primary, secondary, TRUE)
      /\ primary \in SUBSET Addr /\ secondary \in SUBSET Addr
  BY DEF Flushes, TypeOK
<1>9. /\ Fits(primary, size) # {} => Fits(f.dest, size) # {}
      /\ Fits(secondary, size) # {} =>
           Fits(f.dest, size) # {} \/ Fits(f.src, size) # {}
  BY <1>0, <1>8, FlushKeepsFits
<1> QED
  BY <1>5, <1>7, <1>9

(* A find misses only when, before it, neither child had a block of the  *)
(* size asked (failoverFind* in failover.c): whatever the client does,   *)
(* the fallback to the secondary and the flush before it never make a    *)
(* find fail that one of the two children would have served.  A block    *)
(* split across the children by a partial flush is served by neither,    *)
(* and this theorem does not say otherwise.                              *)
THEOREM FindNoFalseMissHolds == Spec => FindNoFalseMiss
<1>1. ASSUME TypeOK, [Next]_vars
      PROVE  [ (OpStep /\ last'.op \in FindKinds /\ last'.res = "FAIL")
               => Fits(primary, last'.size) = {} /\ Fits(secondary, last'.size) = {}
             ]_vars
  <2>1. CASE UNCHANGED vars
    BY <2>1
  <2>2. SUFFICES ASSUME OpStep, last'.op \in FindKinds, last'.res = "FAIL", Next
                 PROVE  Fits(primary, last'.size) = {} /\ Fits(secondary, last'.size) = {}
    BY <1>1, <2>1
  <2>3. CASE FailoverInit \/ FailoverFinish
    BY <2>2, <2>3 DEF FailoverInit, FailoverFinish, OpStep
  <2>4. CASE \E r \in Ranges :
               Insert(r) \/ InsertSteal(r) \/ Delete(r) \/ DeleteSteal(r)
    <3>1. PICK r \in Ranges :
            Insert(r) \/ InsertSteal(r) \/ Delete(r) \/ DeleteSteal(r)
      BY <2>4
    <3>2. last'.op \in {"insert", "insertSteal", "delete", "deleteSteal"}
      BY <3>1, OpNames
    <3> QED
      BY <2>2, <3>2 DEF FindKinds
  <2>5. CASE \E kind \in FindKinds, size \in Sizes, fd \in FindDeletes :
               Find(kind, size, fd)
    <3>1. PICK kind \in FindKinds, size \in Sizes, fd \in FindDeletes :
            Find(kind, size, fd)
      BY <2>5
    <3>2. /\ last'.size = size
          /\ Fits(primary, size) = {} /\ Fits(secondary, size) = {}
      BY <1>1, <2>2, <3>1, FindMissStep
    <3> QED
      BY <3>2
  <2> QED
    BY <2>2, <2>3, <2>4, <2>5 DEF Next
<1> QED
  BY <1>1, TypeCorrect, PTL DEF Spec, FindNoFalseMiss

====
