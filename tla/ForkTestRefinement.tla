------------------------ MODULE ForkTestRefinement -------------------------
(***************************************************************************)
(* The fork test implements AbstractForkTest under the mapping WalkLeft,   *)
(* for every list length, every set of addresses and every bound on the    *)
(* collections: the collections the child's released arena runs are       *)
(* invisible to main.  The cells the walk has still to read are read back  *)
(* from what it has read: by WalkProgress, the walk has read exactly the   *)
(* indices from WalkLeft up, so every step's effect on WalkLeft follows    *)
(* from its effect on visited, and the collector's steps change neither.   *)
(***************************************************************************)
EXTENDS ForkTestProofs

(* An interval of indices up to K - 1 determines where it starts.          *)
LEMMA IntervalStart ==
  ASSUME NEW K \in Nat, NEW m \in 0 .. K, NEW n \in 0 .. K,
         m .. K - 1 = n .. K - 1
  PROVE  m = n
<1>1. SUFFICES ASSUME m # n PROVE FALSE
  OBVIOUS
<1>2. CASE m < n
  <2>1. m \in m .. K - 1 /\ m \notin n .. K - 1
    BY <1>2
  <2> QED
    BY <2>1
<1>3. CASE n < m
  <2>1. n \in n .. K - 1 /\ n \notin m .. K - 1
    BY <1>3
  <2> QED
    BY <2>1
<1> QED
  BY <1>1, <1>2, <1>3

(* The cells a walk at o has still to read, in the heap m.                *)
LeftOf(o, m) == IF o # NULL THEN m[o].id + 1 ELSE 0

(* A walk at o that has read the indices WalkProgress says has read the    *)
(* indices from LeftOf(o, m) up; stated for any values so that it serves   *)
(* before and after a step.                                                *)
LEMMA LeftFromVisited ==
  ASSUME NEW o \in Addr \cup {NULL}, NEW m \in [Addr -> Cell], NEW V,
         V = IF o = NULL THEN 0 .. NCells - 1 ELSE m[o].id + 1 .. NCells - 1
  PROVE  LeftOf(o, m) \in 0 .. NCells /\ V = LeftOf(o, m) .. NCells - 1
<1>0. NCells \in Nat /\ NULL \notin Addr
  BY ForkTestAssumption
<1>1. CASE o = NULL
  BY <1>0, <1>1 DEF LeftOf
<1>2. CASE o # NULL
  <2>1. m[o].id \in 0 .. NCells - 1
    BY <1>2 DEF Cell
  <2> QED
    BY <1>0, <1>2, <2>1 DEF LeftOf
<1> QED
  BY <1>1, <1>2

(* WalkLeft, before and after a step, while the child walks.               *)
LEMMA WalkLeftIs ==
  /\ pc["child"] = "walk" => WalkLeft = LeftOf(obj, mem)
  /\ pc'["child"] = "walk" => WalkLeft' = LeftOf(obj', mem')
  /\ pc["child"] # "walk" => WalkLeft = 0
  /\ pc'["child"] # "walk" => WalkLeft' = 0
BY DEF WalkLeft, LeftOf

(* What WalkProgress says of a walking child, as an interval.              *)
LEMMA WalkInterval ==
  ASSUME TypeOK, WalkProgress, pc["child"] = "walk"
  PROVE  WalkLeft \in 0 .. NCells /\ visited = WalkLeft .. NCells - 1
<1>1. visited = IF obj = NULL THEN 0 .. NCells - 1 ELSE mem[obj].id + 1 .. NCells - 1
  BY DEF WalkProgress
<1>2. LeftOf(obj, mem) \in 0 .. NCells /\ visited = LeftOf(obj, mem) .. NCells - 1
  BY <1>1, LeftFromVisited DEF TypeOK
<1> QED
  BY <1>2, WalkLeftIs

(* The same, after a step.                                                 *)
LEMMA WalkIntervalNext ==
  ASSUME TypeOK', WalkProgress', pc'["child"] = "walk"
  PROVE  WalkLeft' \in 0 .. NCells /\ visited' = WalkLeft' .. NCells - 1
<1>1. visited' = IF obj' = NULL THEN 0 .. NCells - 1 ELSE mem'[obj'].id + 1 .. NCells - 1
  BY DEF WalkProgress
<1>2. obj' \in Addr \cup {NULL} /\ mem' \in [Addr -> Cell]
  BY DEF TypeOK
<1>3. LeftOf(obj', mem') \in 0 .. NCells /\ visited' = LeftOf(obj', mem') .. NCells - 1
  BY <1>1, <1>2, LeftFromVisited
<1> QED
  BY <1>3, WalkLeftIs

(* A step that moves neither process nor the walk's reading, whatever it   *)
(* does to the heap, leaves WalkLeft alone.                                *)
LEMMA LeftStable ==
  ASSUME TypeOK, WalkProgress, TypeOK', WalkProgress',
         UNCHANGED <<pc, visited>>
  PROVE  WalkLeft' = WalkLeft
<1>0. NCells \in Nat
  BY ForkTestAssumption
<1>1. CASE pc["child"] = "walk"
  <2>1. WalkLeft \in 0 .. NCells /\ visited = WalkLeft .. NCells - 1
    BY <1>1, WalkInterval
  <2>2. WalkLeft' \in 0 .. NCells /\ visited' = WalkLeft' .. NCells - 1
    BY <1>1, WalkIntervalNext
  <2> QED
    BY <1>0, <2>1, <2>2, IntervalStart
<1>2. CASE pc["child"] # "walk"
  BY <1>2, WalkLeftIs
<1> QED
  BY <1>1, <1>2

(* The mapped variables of the abstract test.                              *)
avarsBar == <<pc, i, visited, status, WalkLeft>>

(* Every step of main, of the child and of the collector is a step of the  *)
(* abstract test or leaves its variables alone.                            *)
LEMMA RefineNext ==
  ASSUME TypeOK, PcInv, HeapInv, WalkProgress, TypeOK', WalkProgress',
         [Next]_vars
  PROVE  [AF!Next]_avarsBar
<1>0. NCells \in Nat \ {0} /\ NULL \notin Addr
  BY ForkTestAssumption
<1>1. CASE UNCHANGED vars
  <2>1. WalkLeft' = WalkLeft
    BY <1>1, LeftStable DEF vars
  <2> QED
    BY <1>1, <2>1 DEF vars, avarsBar
<1>2. CASE Setup
  <2>1. pc["child"] = "none" /\ pc'["child"] = "none"
    BY <1>2 DEF Setup, PcInv, BuildParked, TypeOK, Procs
  <2>2. WalkLeft' = WalkLeft
    BY <2>1, WalkLeftIs
  <2> QED
    BY <1>2, <2>2 DEF Setup, AF!Next, AF!Setup, avarsBar
<1>3. CASE Reserve
  <2>1. pc["child"] = "none" /\ pc'["child"] = "none"
    BY <1>3 DEF Reserve, PcInv, BuildParked, TypeOK, Procs
  <2>2. WalkLeft' = WalkLeft
    BY <2>1, WalkLeftIs
  <2> QED
    BY <1>3, <2>2 DEF Reserve, AF!Next, AF!Reserve, avarsBar
<1>4. CASE Commit
  <2>1. pc["child"] = "none" /\ pc'["child"] = "none" /\ ~trapped
    BY <1>4 DEF Commit, PcInv, BuildParked, CommitNeverFails, TypeOK, Procs
  <2>2. WalkLeft' = WalkLeft
    BY <2>1, WalkLeftIs
  <2> QED
    BY <1>4, <2>1, <2>2 DEF Commit, AF!Next, AF!Commit, avarsBar
<1>5. CASE Fork
  <2>1. pc["child"] = "none" /\ pc'["child"] # "walk"
    BY <1>5 DEF Fork, PcInv, BuildParked, TypeOK, Procs
  <2>2. WalkLeft' = WalkLeft
    BY <2>1, WalkLeftIs
  <2> QED
    BY <1>5, <2>2 DEF Fork, AF!Next, AF!Fork, avarsBar
<1>6. CASE ParentWait
  <2>1. pc'["child"] = pc["child"] /\ UNCHANGED <<obj, mem>>
    BY <1>6 DEF ParentWait, TypeOK, Procs
  <2>2. WalkLeft' = WalkLeft
    BY <2>1 DEF WalkLeft
  <2> QED
    BY <1>6, <2>2 DEF ParentWait, AF!Next, AF!ParentWait, avarsBar
<1>7. ASSUME NEW p \in Procs, Teardown(p)
      PROVE  [AF!Next]_avarsBar
  <2>1. pc[p] = "teardown" /\ pc'[p] # "walk"
    BY <1>7 DEF Teardown, TypeOK
  <2>2. WalkLeft' = WalkLeft
    <3>1. CASE p = "child"
      BY <2>1, <3>1, WalkLeftIs
    <3>2. CASE p = "parent"
      <4>1. pc'["child"] = pc["child"] /\ UNCHANGED <<obj, mem>>
        BY <1>7, <3>2 DEF Teardown, TypeOK
      <4> QED
        BY <4>1 DEF WalkLeft
    <3> QED
      BY <3>1, <3>2 DEF Procs
  <2> QED
    BY <1>7, <2>2 DEF Teardown, AF!Next, AF!Teardown, avarsBar, Procs
<1>8. CASE Release
  <2>1. /\ pc["child"] = "release" /\ pc'["child"] = "walk"
        /\ obj' = first /\ UNCHANGED mem
    BY <1>8 DEF Release, TypeOK
  <2>2. first # NULL /\ mem[first].id = NCells - 1
    BY <1>0, <2>1 DEF WalkProgress
  <2>3. WalkLeft' = NCells
    BY <1>0, <2>1, <2>2, WalkLeftIs DEF LeftOf
  <2> QED
    BY <1>8, <2>3 DEF Release, AF!Next, AF!Release, avarsBar
<1>9. CASE Walk
  <2>1. pc["child"] = "walk"
    BY <1>9 DEF Walk
  <2>2. WalkLeft \in 0 .. NCells /\ visited = WalkLeft .. NCells - 1
    BY <2>1, WalkInterval
  <2>3. CASE obj = NULL
    <3>1. pc' = [pc EXCEPT !["child"] = "park"]
          /\ UNCHANGED <<i, visited, status>>
      BY <1>9, <2>3 DEF Walk
    <3>2. WalkLeft = 0 /\ WalkLeft' = 0
      BY <2>1, <2>3, <3>1, WalkLeftIs DEF LeftOf, TypeOK
    <3> QED
      BY <2>1, <3>1, <3>2 DEF AF!Next, AF!Walk, avarsBar
  <2>4. CASE obj # NULL
    <3>1. mem[obj].type = "REF"
      BY <2>4 DEF HeapInv, Live
    <3>2. /\ visited' = visited \cup {mem[obj].id}
          /\ UNCHANGED <<pc, i, status>>
      BY <1>9, <2>4, <3>1 DEF Walk
    <3>3. WalkLeft = mem[obj].id + 1 /\ mem[obj].id \in 0 .. NCells - 1
      BY <2>1, <2>4, WalkLeftIs DEF LeftOf, TypeOK, Cell
    <3>4. WalkLeft' \in 0 .. NCells /\ visited' = WalkLeft' .. NCells - 1
      BY <2>1, <3>2, WalkIntervalNext
    <3>5. visited' = mem[obj].id .. NCells - 1
      BY <1>0, <2>2, <3>2, <3>3
    <3>6. WalkLeft' = WalkLeft - 1
      BY <1>0, <3>3, <3>4, <3>5, IntervalStart
    <3> QED
      BY <2>1, <3>2, <3>3, <3>6 DEF AF!Next, AF!Walk, avarsBar
  <2> QED
    BY <2>3, <2>4
<1>10. CASE Park
  <2>1. pc["child"] = "park" /\ pc'["child"] = "teardown"
    BY <1>10 DEF Park, TypeOK
  <2>2. WalkLeft' = WalkLeft
    BY <2>1, WalkLeftIs
  <2> QED
    BY <1>10, <2>2 DEF Park, AF!Next, AF!Park, avarsBar
<1>11. CASE Flip \/ CollectorWork
  <2>1. UNCHANGED <<pc, i, visited, status>>
    BY <1>11 DEF Flip, CollectorWork, Scan, Reclaim
  <2>2. WalkLeft' = WalkLeft
    BY <2>1, LeftStable
  <2> QED
    BY <2>1, <2>2 DEF avarsBar
<1>12. CASE Teardown("parent") \/ Teardown("child")
  BY <1>12, <1>7 DEF Procs
<1> QED
  BY <1>1, <1>2, <1>3, <1>4, <1>5, <1>6, <1>8, <1>9, <1>10, <1>11, <1>12
     DEF Next, ParentStep, ChildStep


(* main starts with the parent at its first line, no child, an empty list  *)
(* and nothing walked, as the abstract test does.                          *)
LEMMA RefineInit == Init => AF!Init
<1> SUFFICES ASSUME Init PROVE AF!Init
  OBVIOUS
<1>1. pc["child"] = "none"
  BY DEF Init, Procs
<1>2. WalkLeft = 0
  BY <1>1, WalkLeftIs
<1> QED
  BY <1>2 DEF Init, Procs, AF!Init

(* forktest.c implements the abstract fork test: with the collector        *)
(* moving the list underneath it, main still builds NCells cells with one  *)
(* commit each, and the child's walk reads the cells of index NCells - 1   *)
(* down to 0, one per turn, and parks only when it has read them all.      *)
(* Collector steps (flip, scan, reclaim) are invisible to the test.        *)
THEOREM ImplementsAbstractForkTestHolds == Spec => ImplementsAbstractForkTest
<1>1. LInv /\ [Next]_vars /\ LInv' => [AF!Next]_avarsBar
  <2> SUFFICES ASSUME LInv, [Next]_vars, LInv' PROVE [AF!Next]_avarsBar
    OBVIOUS
  <2>1. TypeOK /\ PcInv /\ HeapInv /\ WalkProgress /\ TypeOK' /\ WalkProgress'
    BY DEF LInv, IInv
  <2> QED
    BY <2>1, RefineNext
<1>2. Spec => []LInv
  BY InitLInv, NextLInv, PTL DEF Spec
<1> QED
  BY <1>1, <1>2, RefineInit, PTL
     DEF Spec, ImplementsAbstractForkTest, AF!Spec, AF!avars, avarsBar

====
