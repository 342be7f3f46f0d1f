--------------------------- MODULE ForkTestProofs ---------------------------
(***************************************************************************)
(* Proofs about the fork test (ForkTest.tla) for every list length, every  *)
(* set of addresses and every bound on the collections.                    *)
(***************************************************************************)
EXTENDS ForkTest, TLAPS

(* The local variable obj, and first, point to an allocated TYPE_REF cell  *)
(* that the running collection has not condemned.                          *)
Live(x) == x \in inUse \ white /\ mem[x].type = "REF"

(* The cells the collection has not condemned are TYPE_REF cells.         *)
UncondemnedAreRefs == \A c \in inUse \ white : mem[c].type = "REF"

(* A TYPE_REF cell refers to an allocated cell or to NULL.                  *)
RefsAllocated ==
  \A c \in inUse : mem[c].type = "REF" => mem[c].ref \in inUse \cup {NULL}

(* A scanned (black) cell refers to no condemned cell.                     *)
BlackRefsSurvive ==
  \A c \in inUse \ (white \cup grey) : mem[c].ref \in (inUse \ white) \cup {NULL}

(* A forwarded cell forwards to a cell that was not condemned.             *)
ForwardsSurvive ==
  \A c \in white : mem[c].type = "FWD" => mem[c].ref \in inUse \ white

(* The tricolour invariant that the read barrier and obj_scan keep.        *)
Tricolour ==
  /\ UncondemnedAreRefs
  /\ RefsAllocated
  /\ BlackRefsSurvive
  /\ ForwardsSurvive
  /\ white \cap grey = {}
  /\ ~tracing => white = {}

(* While the parent builds the list there is no child yet and the arena is *)
(* parked (line 117 until the child's release at line 161).                *)
BuildParked ==
  pc["parent"] \in {"setup", "reserve", "commit", "fork"} =>
    pc["child"] = "none" /\ parked

(* The part of the invariant about control: the loop counter, the cell     *)
(* being committed, the park, and the walk's Insist.                       *)
PcInv ==
  /\ pc["parent"] = "setup" => i = 0
  /\ pc["parent"] \in {"reserve", "commit"} => i < NCells
  /\ pc["parent"] = "commit" => obj \in Addr
  /\ BuildParked
  /\ CommitNeverFails
  /\ WalkSeesOnlyRefs

(* The part of the invariant about the heap and the local variables.       *)
HeapInv ==
  /\ obj = NULL \/ Live(obj)
  /\ first = NULL \/ Live(first)
  /\ Tricolour

IInv == TypeOK /\ PcInv /\ HeapInv

(* The list is a chain of loop indices: a committed TYPE_REF cell made at  *)
(* index k refers to NULL if k = 0 and otherwise to a cell made at k - 1;  *)
(* a condemned cell that obj_fwd forwarded points to its copy, which keeps *)
(* its index.  Only the cell reserved and not yet linked is exempt.        *)
IdChain ==
  /\ \A c \in inUse :
       mem[c].type = "REF" /\ ~(pc["parent"] = "commit" /\ c = obj) =>
         IF mem[c].id = 0 THEN mem[c].ref = NULL
         ELSE mem[c].ref \in inUse /\ mem[mem[c].ref].id = mem[c].id - 1
  /\ \A c \in white :
       mem[c].type = "FWD" => mem[mem[c].ref].id = mem[c].id

(* What the build and the walk have done: first is the cell of the last    *)
(* index, the walk has read the indices above obj's, and the parent        *)
(* concludes only after the child has exited normally.                     *)
WalkProgress ==
  /\ IF i = 0 THEN first = NULL ELSE first # NULL /\ mem[first].id = i - 1
  /\ pc["parent"] = "commit" => mem[obj].id = i
  /\ pc["parent"] = "fork" \/ pc["child"] # "none" => i = NCells
  /\ pc["child"] \in {"none", "release"} => visited = {}
  /\ pc["child"] = "walk" =>
       visited = IF obj = NULL THEN 0..NCells - 1
                 ELSE mem[obj].id + 1..NCells - 1
  /\ pc["child"] \in {"park", "teardown", "exited"} => visited = 0..NCells - 1
  /\ status = "ok" => pc["child"] = "exited"
  /\ pc["parent"] \in {"teardown", "done"} => status = "ok"
  /\ tracing => pc["parent"] \notin {"setup", "reserve", "commit", "fork"}

LInv == IInv /\ IdChain /\ WalkProgress

USE ForkTestAssumption

LEMMA InitIInv == Init => IInv
<1> SUFFICES ASSUME Init PROVE IInv
  OBVIOUS
<1>1. pc \in [Procs -> Loc]
  BY DEF Init, Procs, Loc
<1>2. mem \in [Addr -> Cell]
  <2>1. 0 \in 0..NCells - 1
    OBVIOUS
  <2> QED
    BY <2>1 DEF Init, Cell
<1>7. inUse \subseteq Addr /\ first \in Addr \cup {NULL} /\ obj \in Addr \cup {NULL}
  BY DEF Init
<1>8. i \in 0..NCells /\ gcs \in 0..MaxCollections /\ visited \subseteq 0..NCells - 1
  BY DEF Init
<1>9. parked \in BOOLEAN /\ trapped \in BOOLEAN /\ tracing \in BOOLEAN
  BY Zenon DEF Init
<1>10. white \subseteq inUse /\ grey \subseteq inUse /\ status \in {"none", "ok", "abort"}
  BY DEF Init
<1>3. TypeOK
  BY <1>1, <1>2, <1>7, <1>8, <1>9, <1>10 DEF TypeOK
<1>4. pc["parent"] = "setup" /\ pc["child"] = "none"
  BY DEF Init, Procs
<1>5. PcInv
  BY <1>4 DEF Init, PcInv, BuildParked, CommitNeverFails, WalkSeesOnlyRefs
<1>6. HeapInv
  BY DEF Init, HeapInv, Tricolour, UncondemnedAreRefs, RefsAllocated,
         BlackRefsSurvive, ForwardsSurvive
<1>11. QED
  BY <1>3, <1>5, <1>6 DEF IInv

(* Moving a process to a place of main keeps pc a function to places.    *)
LEMMA PcUpdate ==
  ASSUME NEW f \in [Procs -> Loc], NEW p \in Procs, NEW l \in Loc
  PROVE  [f EXCEPT ![p] = l] \in [Procs -> Loc]
OBVIOUS

(* Once the child exists, the parent is past the build.                    *)
LEMMA ChildAfterBuild ==
  ASSUME PcInv, pc["child"] # "none"
  PROVE  pc["parent"] \notin {"setup", "reserve", "commit", "fork"}
BY DEF PcInv, BuildParked

(* A step that leaves control alone keeps PcInv.                           *)
LEMMA PcUnchanged ==
  ASSUME PcInv, UNCHANGED <<pc, i, obj, parked, trapped, status>>
  PROVE  PcInv'
BY DEF PcInv, BuildParked, CommitNeverFails, WalkSeesOnlyRefs

(* A step that leaves the heap, the locals and the collection alone keeps  *)
(* HeapInv.                                                                *)
LEMMA HeapUnchanged ==
  ASSUME HeapInv,
         UNCHANGED <<mem, inUse, first, obj, tracing, white, grey>>
  PROVE  HeapInv'
BY DEF HeapInv, Live, Tricolour, UncondemnedAreRefs, RefsAllocated,
       BlackRefsSurvive, ForwardsSurvive

(* The arena is parked when the build starts.                              *)
LEMMA SetupStep ==
  ASSUME IInv, Setup
  PROVE  IInv'
<1>1. "reserve" \in Loc /\ "failed" \in Loc
  BY DEF Loc
<1>2. TypeOK'
  <2>1. pc' \in [Procs -> Loc]
    BY <1>1, PcUpdate DEF Setup, IInv, TypeOK, Procs
  <2>2. parked' \in BOOLEAN
    BY Zenon DEF Setup, IInv, TypeOK
  <2> QED
    BY <2>1, <2>2 DEF Setup, IInv, TypeOK
<1>3. /\ pc["parent"] = "setup"
      /\ pc["child"] = "none"
      /\ i = 0
  BY DEF Setup, IInv, PcInv, BuildParked
<1>4. /\ pc'["child"] = pc["child"]
      /\ \/ pc'["parent"] = "reserve" /\ parked' = TRUE
         \/ pc'["parent"] = "failed"
  BY DEF Setup, IInv, TypeOK, Procs
<1>5. PcInv'
  BY <1>3, <1>4 DEF Setup, IInv, PcInv, BuildParked, CommitNeverFails,
                    WalkSeesOnlyRefs
<1>6. HeapInv'
  BY HeapUnchanged DEF Setup, IInv
<1>7. QED
  BY <1>2, <1>5, <1>6 DEF IInv

(* fork(): the child starts at its release, the parent waits.             *)
LEMMA ForkStep ==
  ASSUME IInv, Fork
  PROVE  IInv'
<1>1. "wait" \in Loc /\ "release" \in Loc /\ "failed" \in Loc
  BY DEF Loc
<1>2. TypeOK'
  BY <1>1 DEF Fork, IInv, TypeOK, Procs
<1>3. pc'["parent"] \in {"wait", "failed"}
  BY DEF Fork, IInv, TypeOK, Procs
<1>4. PcInv'
  BY <1>3 DEF Fork, IInv, PcInv, BuildParked, CommitNeverFails,
              WalkSeesOnlyRefs
<1>5. HeapInv'
  BY HeapUnchanged DEF Fork, IInv
<1>6. QED
  BY <1>2, <1>4, <1>5 DEF IInv

LEMMA ParentWaitStep ==
  ASSUME IInv, ParentWait
  PROVE  IInv'
<1>1. "teardown" \in Loc /\ "failed" \in Loc
  BY DEF Loc
<1>2. TypeOK'
  <2>1. pc' \in [Procs -> Loc]
    BY <1>1, PcUpdate DEF ParentWait, IInv, TypeOK, Procs
  <2> QED
    BY <2>1 DEF ParentWait, IInv, TypeOK
<1>3. pc'["parent"] \in {"teardown", "failed"}
  BY DEF ParentWait, IInv, TypeOK, Procs
<1>4. PcInv'
  BY <1>3 DEF ParentWait, IInv, PcInv, BuildParked, CommitNeverFails,
              WalkSeesOnlyRefs
<1>5. HeapInv'
  BY HeapUnchanged DEF ParentWait, IInv
<1>6. QED
  BY <1>2, <1>4, <1>5 DEF IInv

(* The child's teardown returns 0: its exit status is "ok".                *)
LEMMA TeardownStep ==
  ASSUME IInv, NEW p \in Procs, Teardown(p)
  PROVE  IInv'
<1>1. "done" \in Loc /\ "exited" \in Loc
  BY DEF Loc
<1>2. TypeOK'
  <2>1. pc' \in [Procs -> Loc]
    BY <1>1, PcUpdate DEF Teardown, IInv, TypeOK
  <2> QED
    BY <2>1 DEF Teardown, IInv, TypeOK
<1>3. PcInv'
  <2>1. CASE p = "parent"
    <3>1. pc'["parent"] = "done" /\ status' = status
      BY <2>1 DEF Teardown, IInv, TypeOK, Procs
    <3> QED
      BY <3>1 DEF IInv, PcInv, BuildParked, CommitNeverFails, WalkSeesOnlyRefs
  <2>2. CASE p = "child"
    <3>1. pc["child"] # "none"
      BY <2>2 DEF Teardown
    <3>2. pc["parent"] \notin {"setup", "reserve", "commit", "fork"}
      BY <3>1, ChildAfterBuild DEF IInv
    <3>3. pc' = [pc EXCEPT !["child"] = "exited"] /\ status' = "ok"
      BY <2>2 DEF Teardown
    <3>4. pc'["parent"] = pc["parent"]
      BY <3>3 DEF IInv, TypeOK, Procs
    <3> QED
      BY <3>2, <3>3, <3>4 DEF PcInv, BuildParked, CommitNeverFails,
                              WalkSeesOnlyRefs
  <2> QED
    BY <2>1, <2>2 DEF Procs
<1>4. HeapInv'
  BY HeapUnchanged DEF Teardown, IInv
<1>5. QED
  BY <1>2, <1>3, <1>4 DEF IInv

(* A child step leaves the parent, which is past the build, where it is.   *)
LEMMA ChildStepPc ==
  ASSUME IInv, pc["child"] # "none",
         NEW l \in Loc, pc' = [pc EXCEPT !["child"] = l],
         status' # "abort"
  PROVE  PcInv'
<1>1. pc["parent"] \notin {"setup", "reserve", "commit", "fork"}
  BY ChildAfterBuild DEF IInv
<1>2. pc'["parent"] = pc["parent"]
  BY DEF IInv, TypeOK, Procs
<1> QED
  BY <1>1, <1>2 DEF PcInv, BuildParked, CommitNeverFails, WalkSeesOnlyRefs

LEMMA ParkStep ==
  ASSUME IInv, Park
  PROVE  IInv'
<1>1. "teardown" \in Loc
  BY DEF Loc
<1>2. TypeOK'
  <2>1. pc' \in [Procs -> Loc]
    BY <1>1, PcUpdate DEF Park, IInv, TypeOK, Procs
  <2>2. parked' \in BOOLEAN
    BY Zenon DEF Park
  <2> QED
    BY <2>1, <2>2 DEF Park, IInv, TypeOK
<1>3. PcInv'
  BY <1>1, ChildStepPc DEF Park, IInv, PcInv, WalkSeesOnlyRefs
<1>4. HeapInv'
  BY HeapUnchanged DEF Park, IInv
<1>5. QED
  BY <1>2, <1>3, <1>4 DEF IInv

(* mps_reserve takes a cell that is not allocated, so no collection has   *)
(* condemned it and no cell refers to it; the allocation point is not      *)
(* trapped after a reserve.                                                *)
LEMMA ReserveStep ==
  ASSUME IInv, Reserve
  PROVE  IInv'
<1>0. /\ pc["parent"] = "reserve"
      /\ pc["child"] = "none" /\ parked
      /\ i < NCells
  BY DEF Reserve, IInv, PcInv, BuildParked
<1>1. CASE /\ pc' = [pc EXCEPT !["parent"] = "failed"]
           /\ UNCHANGED <<inUse, mem, obj, trapped>>
  <2>1. "failed" \in Loc
    BY DEF Loc
  <2>2. pc' \in [Procs -> Loc] /\ pc'["parent"] = "failed"
    BY <1>1, <2>1, PcUpdate DEF IInv, TypeOK, Procs
  <2>3. HeapInv'
    BY <1>1, HeapUnchanged DEF Reserve, IInv
  <2>4. TypeOK'
    BY <1>1, <2>2 DEF Reserve, IInv, TypeOK
  <2>5. PcInv'
    BY <1>1, <2>2 DEF Reserve, IInv, PcInv, BuildParked, CommitNeverFails,
                      WalkSeesOnlyRefs
  <2> QED
    BY <2>3, <2>4, <2>5 DEF IInv
<1>2. CASE \E a \in Addr \ inUse :
             /\ inUse' = inUse \cup {a}
             /\ mem' = [mem EXCEPT ![a] = [type |-> "REF", ref |-> NULL, id |-> i]]
             /\ obj' = a
             /\ trapped' = FALSE
             /\ pc' = [pc EXCEPT !["parent"] = "commit"]
  <2>1. PICK a \in Addr \ inUse :
             /\ inUse' = inUse \cup {a}
             /\ mem' = [mem EXCEPT ![a] = [type |-> "REF", ref |-> NULL, id |-> i]]
             /\ obj' = a
             /\ trapped' = FALSE
             /\ pc' = [pc EXCEPT !["parent"] = "commit"]
    BY <1>2
  <2>2. UNCHANGED <<first, i, parked, tracing, white, grey, gcs, visited,
                    status>>
    BY DEF Reserve
  <2>3. i \in 0..NCells - 1
    BY <1>0, <2>2 DEF IInv, TypeOK
  <2>4. "commit" \in Loc
    BY DEF Loc
  <2>5. TypeOK'
    <3>1. trapped' \in BOOLEAN
      BY <2>1, Zenon
    <3> QED
      BY <2>1, <2>2, <2>3, <2>4, <3>1, PcUpdate DEF IInv, TypeOK, Procs, Cell
  <2>6. a \notin white \cup grey
    BY DEF IInv, TypeOK
  <2>7. Live(obj)' /\ (first = NULL \/ Live(first))'
    BY <2>1, <2>2 DEF IInv, HeapInv, TypeOK, Live
  <2>8. Tricolour'
    BY <2>1, <2>2, <2>6 DEF IInv, HeapInv, TypeOK, Tricolour,
                            UncondemnedAreRefs, RefsAllocated,
                            BlackRefsSurvive, ForwardsSurvive
  <2>9. pc'["parent"] = "commit" /\ pc'["child"] = "none"
    BY <1>0, <2>1 DEF IInv, TypeOK, Procs
  <2>10. PcInv'
    <3>1. trapped' = FALSE
      BY <2>1
    <3>2. i' < NCells /\ obj' \in Addr /\ status' # "abort"
      BY <1>0, <2>1, <2>2 DEF IInv, PcInv, WalkSeesOnlyRefs
    <3>3. BuildParked' /\ CommitNeverFails'
      BY <1>0, <2>2, <2>9, <3>1, Zenon DEF BuildParked, CommitNeverFails
    <3> QED
      BY <2>9, <3>2, <3>3 DEF PcInv, WalkSeesOnlyRefs
  <2> QED
    BY <2>5, <2>7, <2>8, <2>10 DEF IInv, HeapInv
<1>3. QED
  BY <1>1, <1>2 DEF Reserve

(* The commit links the new cell, which is live, in front of first, which  *)
(* is live or NULL.  The allocation point is never trapped here, so the    *)
(* retry branch is dead.                                                   *)
LEMMA CommitStep ==
  ASSUME IInv, Commit
  PROVE  IInv'
<1>0. /\ pc["parent"] = "commit"
      /\ pc["child"] = "none" /\ parked
      /\ ~trapped
      /\ obj \in Addr
      /\ i < NCells
  BY DEF Commit, IInv, PcInv, BuildParked, CommitNeverFails
<1>1. /\ mem' = [mem EXCEPT ![obj].ref = first]
      /\ first' = obj
      /\ i' = i + 1
      /\ pc' = [pc EXCEPT !["parent"] =
                  IF i + 1 < NCells THEN "reserve" ELSE "fork"]
      /\ UNCHANGED <<inUse, obj, parked, trapped, tracing, white, grey, gcs,
                     visited, status>>
  BY <1>0 DEF Commit
<1>2. /\ Live(obj)
      /\ first = NULL \/ Live(first)
  BY <1>0 DEF IInv, HeapInv
<1>3. "reserve" \in Loc /\ "fork" \in Loc
  BY DEF Loc
<1>4. TypeOK'
  BY <1>0, <1>1, <1>2, <1>3, PcUpdate DEF IInv, TypeOK, Procs, Cell, Live
<1>5. Live(obj)' /\ Live(first)'
  BY <1>0, <1>1, <1>2 DEF IInv, TypeOK, Live
<1>6. Tricolour'
  BY <1>0, <1>1, <1>2 DEF IInv, HeapInv, TypeOK, Live, Tricolour,
                          UncondemnedAreRefs, RefsAllocated,
                          BlackRefsSurvive, ForwardsSurvive
<1>7. /\ pc'["parent"] = IF i + 1 < NCells THEN "reserve" ELSE "fork"
      /\ pc'["child"] = "none"
  BY <1>0, <1>1 DEF IInv, TypeOK, Procs
<1>8. PcInv'
  <2>1. /\ pc'["parent"] \in {"reserve", "commit"} => i' < NCells
        /\ pc'["parent"] \in {"reserve", "fork"}
        /\ status' # "abort"
    BY <1>0, <1>1, <1>7 DEF IInv, PcInv, WalkSeesOnlyRefs
  <2>2. BuildParked'
    BY <1>0, <1>1, <1>7, Zenon DEF BuildParked
  <2> QED
    BY <2>1, <2>2 DEF PcInv, CommitNeverFails, WalkSeesOnlyRefs
<1>9. QED
  BY <1>4, <1>5, <1>6, <1>8 DEF IInv, HeapInv

(* The walk starts at first, which is live or NULL.                        *)
LEMMA ReleaseStep ==
  ASSUME IInv, Release
  PROVE  IInv'
<1>1. "walk" \in Loc
  BY DEF Loc
<1>2. TypeOK'
  <2>1. parked' \in BOOLEAN
    BY Zenon DEF Release
  <2> QED
    BY <1>1, <2>1, PcUpdate DEF Release, IInv, TypeOK, Procs
<1>3. HeapInv'
  BY DEF Release, IInv, HeapInv, Live, Tricolour, UncondemnedAreRefs,
         RefsAllocated, BlackRefsSurvive, ForwardsSurvive
<1>4. PcInv'
  BY <1>1, ChildStepPc DEF Release, IInv, PcInv, WalkSeesOnlyRefs
<1>5. QED
  BY <1>2, <1>3, <1>4 DEF IInv

(* The barrier lets the walk read only a scanned cell, which is a          *)
(* TYPE_REF cell whose reference leads to a live cell or to NULL.          *)
LEMMA WalkStep ==
  ASSUME IInv, Walk
  PROVE  IInv'
<1>0. pc["child"] = "walk"
  BY DEF Walk
<1>1. CASE obj = NULL
  <2>1. "park" \in Loc
    BY DEF Loc
  <2>2. /\ pc' = [pc EXCEPT !["child"] = "park"]
        /\ UNCHANGED <<obj, visited, status, mem, inUse, first, i, parked,
                       trapped, tracing, white, grey, gcs>>
    BY <1>1 DEF Walk
  <2>3. TypeOK'
    BY <2>1, <2>2, PcUpdate DEF IInv, TypeOK, Procs
  <2>4. HeapInv'
    BY <2>2, HeapUnchanged DEF IInv
  <2>5. PcInv'
    BY <1>0, <2>1, <2>2, ChildStepPc DEF IInv, PcInv, WalkSeesOnlyRefs
  <2> QED
    BY <2>3, <2>4, <2>5 DEF IInv
<1>2. CASE obj # NULL
  <2>1. /\ obj \notin grey
        /\ Live(obj)
    BY <1>2 DEF Walk, IInv, HeapInv
  <2>2. /\ obj' = mem[obj].ref
        /\ visited' = visited \cup {mem[obj].id}
        /\ UNCHANGED <<pc, status, mem, inUse, first, i, parked, trapped,
                       tracing, white, grey, gcs>>
    BY <1>2, <2>1 DEF Walk, Live
  <2>3. mem[obj].ref \in (inUse \ white) \cup {NULL}
    BY <2>1 DEF IInv, HeapInv, Tricolour, BlackRefsSurvive, Live
  <2>4. mem[obj].ref = NULL \/ Live(mem[obj].ref)
    BY <2>3 DEF IInv, HeapInv, Tricolour, UncondemnedAreRefs, Live
  <2>5. TypeOK'
    BY <2>1, <2>2 DEF IInv, TypeOK, Cell, Live
  <2>6. HeapInv'
    BY <2>2, <2>4 DEF IInv, HeapInv, Live, Tricolour, UncondemnedAreRefs,
                      RefsAllocated, BlackRefsSurvive, ForwardsSurvive
  <2>7. pc["parent"] \notin {"setup", "reserve", "commit", "fork"}
    BY <1>0, ChildAfterBuild DEF IInv
  <2>8. PcInv'
    BY <2>2, <2>7 DEF IInv, PcInv, BuildParked, CommitNeverFails,
                      WalkSeesOnlyRefs
  <2> QED
    BY <2>5, <2>6, <2>8 DEF IInv
<1>3. QED
  BY <1>1, <1>2

(* A flip condemns every allocated cell but those the stack pins, and     *)
(* there was no condemned cell before it.  It needs an unparked arena, so  *)
(* the parent is past the build and no commit is pending.                  *)
LEMMA FlipStep ==
  ASSUME IInv, Flip
  PROVE  IInv'
<1> DEFINE pinned == {first, obj} \cap inUse
<1>1. /\ white' = inUse \ pinned
      /\ grey' = pinned
      /\ tracing' = TRUE /\ trapped' = TRUE
      /\ ~tracing /\ ~parked
      /\ gcs' = gcs + 1
      /\ gcs < MaxCollections
      /\ UNCHANGED <<pc, mem, inUse, first, obj, i, parked, visited, status>>
  BY DEF Flip
<1>2. white = {}
  BY <1>1 DEF IInv, HeapInv, Tricolour
<1>3. TypeOK'
  <2>1. tracing' \in BOOLEAN /\ trapped' \in BOOLEAN
    BY <1>1, Zenon
  <2> QED
    BY <1>1, <2>1 DEF IInv, TypeOK
<1>4. HeapInv'
  <2>1. Live(obj)' \/ obj' = NULL
    BY <1>1, <1>2 DEF IInv, HeapInv, Live
  <2>2. Live(first)' \/ first' = NULL
    BY <1>1, <1>2 DEF IInv, HeapInv, Live
  <2>3. Tricolour'
    BY <1>1, <1>2 DEF IInv, HeapInv, TypeOK, Live, Tricolour,
                      UncondemnedAreRefs, RefsAllocated, BlackRefsSurvive,
                      ForwardsSurvive
  <2> QED
    BY <2>1, <2>2, <2>3 DEF HeapInv
<1>5. PcInv'
  <2>1. pc["parent"] \notin {"setup", "reserve", "commit", "fork"}
    BY <1>1, Zenon DEF IInv, PcInv, BuildParked
  <2> QED
    BY <1>1, <2>1 DEF IInv, PcInv, BuildParked, CommitNeverFails,
                      WalkSeesOnlyRefs
<1>6. QED
  BY <1>3, <1>4, <1>5 DEF IInv

(* The condemned space is freed once nothing is grey: every surviving cell *)
(* is scanned, so none refers into it.                                     *)
LEMMA ReclaimStep ==
  ASSUME IInv, Reclaim
  PROVE  IInv'
<1>1. /\ grey = {}
      /\ inUse' = inUse \ white
      /\ white' = {}
      /\ tracing' = FALSE
      /\ UNCHANGED <<pc, mem, first, obj, i, parked, trapped, grey, gcs,
                     visited, status>>
  BY DEF Reclaim
<1>2. TypeOK'
  <2>1. tracing' \in BOOLEAN
    BY <1>1, Zenon
  <2> QED
    BY <1>1, <2>1 DEF IInv, TypeOK
<1>3. HeapInv'
  BY <1>1 DEF IInv, HeapInv, Live, Tricolour, UncondemnedAreRefs,
              RefsAllocated, BlackRefsSurvive, ForwardsSurvive
<1>4. PcInv'
  BY <1>1, PcUnchanged DEF IInv
<1>5. QED
  BY <1>2, <1>3, <1>4 DEF IInv

(* obj_scan of a grey cell a: its reference p is fixed to a cell that is  *)
(* not condemned (p's forwarding address, or a fresh copy of p that is     *)
(* grey), and a turns black.                                               *)
LEMMA ScanStep ==
  ASSUME IInv, NEW a \in Addr, Scan(a)
  PROVE  IInv'
<1> DEFINE p == mem[a].ref
<1>1. /\ tracing
      /\ a \in grey
      /\ a \in inUse \ white
      /\ mem[a].type = "REF"
      /\ p \in inUse \cup {NULL}
      /\ UNCHANGED <<pc, first, obj, i, parked, trapped, tracing, white, gcs,
                     visited, status>>
  BY DEF Scan, IInv, TypeOK, HeapInv, Tricolour, UncondemnedAreRefs,
         RefsAllocated
<1>2. PcInv'
  BY <1>1, PcUnchanged DEF IInv
<1>3. CASE p \in white /\ ObjIsFwd(p) # NULL
  <2>1. mem[p].type = "FWD"
    BY <1>3 DEF ObjIsFwd
  <2>2. mem[p].ref \in inUse \ white
    BY <1>3, <2>1 DEF IInv, HeapInv, Tricolour, ForwardsSurvive
  <2>3. /\ mem' = [mem EXCEPT ![a].ref = mem[p].ref]
        /\ grey' = grey \ {a}
        /\ inUse' = inUse
    BY <1>1, <1>3, <2>1 DEF Scan, ObjIsFwd
  <2>4. TypeOK'
    BY <1>1, <2>2, <2>3 DEF IInv, TypeOK, Cell
  <2>5. HeapInv'
    BY <1>1, <2>2, <2>3 DEF IInv, TypeOK, HeapInv, Live, Tricolour,
                            UncondemnedAreRefs, RefsAllocated,
                            BlackRefsSurvive, ForwardsSurvive
  <2> QED
    BY <1>2, <2>4, <2>5 DEF IInv
<1>4. CASE p \in white /\ ObjIsFwd(p) = NULL
  <2>0. p \in inUse /\ p \in Addr
    BY <1>4 DEF IInv, TypeOK
  <2>1. mem[p].type = "REF"
    <3>1. mem[p] \in Cell
      BY <2>0 DEF IInv, TypeOK
    <3>2. mem[p].type = "FWD" => mem[p].ref \in inUse \ white
      BY <1>4 DEF IInv, HeapInv, Tricolour, ForwardsSurvive
    <3> QED
      BY <1>4, <3>1, <3>2 DEF ObjIsFwd, Cell, IInv, TypeOK
  <2>2. PICK n \in Addr \ inUse :
          /\ mem' = [mem EXCEPT ![n] = mem[p],
                                ![p] = ObjFwd(mem[p], n),
                                ![a].ref = n]
          /\ inUse' = inUse \cup {n}
          /\ grey' = (grey \ {a}) \cup {n}
    BY <1>1, <1>4, <2>1 DEF Scan
  <2>3. /\ p # a /\ p # n /\ a # n
        /\ mem[p].ref \in inUse \cup {NULL}
        /\ n \notin white /\ n \notin grey
    BY <1>1, <1>4, <2>0, <2>1, <2>2 DEF IInv, TypeOK, HeapInv, Tricolour,
                                        RefsAllocated
  <2>4. /\ mem'[n] = mem[p]
        /\ mem'[p] = ObjFwd(mem[p], n)
        /\ mem'[a] = [mem[a] EXCEPT !.ref = n]
        /\ \A c \in Addr \ {a, n, p} : mem'[c] = mem[c]
        /\ DOMAIN mem' = Addr
    BY <2>0, <2>2, <2>3 DEF IInv, TypeOK
  <2>5. /\ mem'[n].type = "REF" /\ mem'[n].ref = mem[p].ref
        /\ mem'[p].type = "FWD" /\ mem'[p].ref = n
        /\ mem'[a].type = "REF" /\ mem'[a].ref = n
    BY <1>1, <2>0, <2>1, <2>4 DEF IInv, TypeOK, Cell, ObjFwd
  <2>6. TypeOK'
    <3>1. mem' \in [Addr -> Cell]
      <4>1. mem[p] \in Cell /\ mem[a] \in Cell
        BY <2>0 DEF IInv, TypeOK
      <4>2. ObjFwd(mem[p], n) \in Cell /\ [mem[a] EXCEPT !.ref = n] \in Cell
        BY <4>1 DEF ObjFwd, Cell
      <4>3. \A c \in Addr : mem'[c] \in Cell
        BY <2>4, <4>1, <4>2 DEF IInv, TypeOK
      <4>4. mem' = [c \in Addr |-> mem'[c]]
        BY <2>2 DEF IInv, TypeOK
      <4> QED
        BY <4>3, <4>4, Zenon
    <3> QED
      BY <1>1, <2>2, <3>1 DEF IInv, TypeOK
  <2>7. UncondemnedAreRefs'
    <3> SUFFICES ASSUME NEW c \in inUse' \ white' PROVE mem'[c].type = "REF"
      BY DEF UncondemnedAreRefs
    <3> QED
      BY <1>1, <1>4, <2>2, <2>3, <2>4, <2>5 DEF IInv, TypeOK, HeapInv,
                                                Tricolour, UncondemnedAreRefs
  <2>8. RefsAllocated'
    <3> SUFFICES ASSUME NEW c \in inUse', mem'[c].type = "REF"
                 PROVE  mem'[c].ref \in inUse' \cup {NULL}
      BY DEF RefsAllocated
    <3> QED
      BY <2>2, <2>3, <2>4, <2>5 DEF IInv, TypeOK, HeapInv, Tricolour,
                                    RefsAllocated
  <2>9. BlackRefsSurvive'
    <3> SUFFICES ASSUME NEW c \in inUse' \ (white' \cup grey')
                 PROVE  mem'[c].ref \in (inUse' \ white') \cup {NULL}
      BY DEF BlackRefsSurvive
    <3> QED
      BY <1>1, <1>4, <2>2, <2>3, <2>4, <2>5 DEF IInv, TypeOK, HeapInv,
                                                Tricolour, BlackRefsSurvive
  <2>10. ForwardsSurvive'
    <3> SUFFICES ASSUME NEW c \in white', mem'[c].type = "FWD"
                 PROVE  mem'[c].ref \in inUse' \ white'
      BY DEF ForwardsSurvive
    <3> QED
      BY <1>1, <2>2, <2>3, <2>4, <2>5 DEF IInv, TypeOK, HeapInv, Tricolour,
                                          ForwardsSurvive
  <2>11. /\ (Live(obj)' \/ obj' = NULL)
         /\ (Live(first)' \/ first' = NULL)
    BY <1>1, <1>4, <2>2, <2>3, <2>4, <2>5 DEF IInv, TypeOK, HeapInv, Live
  <2>12. HeapInv'
    BY <1>1, <2>2, <2>3, <2>7, <2>8, <2>9, <2>10, <2>11 DEF IInv, HeapInv,
                                                          Tricolour
  <2> QED
    BY <1>2, <2>6, <2>12 DEF IInv
<1>5. CASE p \notin white
  <2>1. /\ grey' = grey \ {a}
        /\ UNCHANGED <<mem, inUse>>
    BY <1>1, <1>5 DEF Scan
  <2>2. TypeOK'
    BY <1>1, <2>1 DEF IInv, TypeOK
  <2>3. HeapInv'
    BY <1>1, <1>5, <2>1 DEF IInv, HeapInv, Live, Tricolour, UncondemnedAreRefs,
                            RefsAllocated, BlackRefsSurvive, ForwardsSurvive
  <2> QED
    BY <1>2, <2>2, <2>3 DEF IInv
<1>6. QED
  BY <1>3, <1>4, <1>5

LEMMA NextIInv ==
  ASSUME IInv, [Next]_vars
  PROVE  IInv'
<1>1. CASE ParentStep
  BY <1>1, SetupStep, ReserveStep, CommitStep, ForkStep, ParentWaitStep,
     TeardownStep DEF ParentStep, Procs
<1>2. CASE ChildStep
  BY <1>2, ReleaseStep, WalkStep, ParkStep, TeardownStep DEF ChildStep, Procs
<1>3. CASE Flip
  BY <1>3, FlipStep
<1>4. CASE \E a \in grey : Scan(a)
  <2>1. PICK a \in grey : Scan(a)
    BY <1>4
  <2>2. a \in Addr
    BY DEF IInv, TypeOK
  <2> QED
    BY <2>1, <2>2, ScanStep
<1>5. CASE Reclaim
  BY <1>5, ReclaimStep
<1>6. CASE UNCHANGED vars
  <2>1. TypeOK' /\ HeapInv'
    BY <1>6, HeapUnchanged DEF vars, IInv, TypeOK
  <2>2. PcInv'
    BY <1>6, PcUnchanged DEF vars, IInv
  <2> QED
    BY <2>1, <2>2 DEF IInv
<1>7. QED
  BY <1>1, <1>2, <1>3, <1>4, <1>5, <1>6 DEF Next, CollectorWork

(* The invariant holds in every state of the fork test.                    *)
THEOREM IInvHolds == Spec => []IInv
BY InitIInv, NextIInv, PTL DEF Spec

(* Type correctness of the fork test: the list, the heap, the loop counter *)
(* and the collection keep their types in every state.                     *)
THEOREM TypeCorrect == Spec => []TypeOK
BY IInvHolds, PTL DEF IInv

(* The Insist of the child's walk (forktest.c line 165) never fails, for   *)
(* any length of list, any heap and any number of collections: the read    *)
(* barrier holds the walk off a grey cell until obj_scan has written its   *)
(* reference back, so the walk never reaches a cell left forwarding by     *)
(* obj_fwd.                                                                *)
THEOREM WalkSeesOnlyRefsHolds == Spec => []WalkSeesOnlyRefs
BY IInvHolds, PTL DEF IInv, PcInv

(* The retry of forktest.c's do loop (lines 147-152) is never taken, for   *)
(* any length of list: the arena is parked from line 117 until the child   *)
(* releases it, so no flip traps the allocation point between a            *)
(* mps_reserve and its mps_commit.                                         *)
THEOREM CommitNeverFailsHolds == Spec => []CommitNeverFails
BY IInvHolds, PTL DEF IInv, PcInv

-----------------------------------------------------------------------------
(* The conclusion of the parent (line 175) is sound.                       *)

(* A step that moves neither the heap nor obj, and does not move the      *)
(* parent to or from its commit, keeps the chain of indices.               *)
LEMMA IdChainUnchanged ==
  ASSUME IdChain, UNCHANGED <<mem, inUse, white, obj>>,
         pc'["parent"] = "commit" <=> pc["parent"] = "commit"
  PROVE  IdChain'
BY DEF IdChain

(* The same for the progress of the build and the walk, when neither      *)
(* process moves.                                                          *)
LEMMA ProgressUnchanged ==
  ASSUME WalkProgress,
         UNCHANGED <<pc, mem, first, obj, i, visited, status, tracing>>
  PROVE  WalkProgress'
BY DEF WalkProgress

LEMMA SetupProgress ==
  ASSUME TypeOK, PcInv, IdChain, WalkProgress, Setup
  PROVE  IdChain' /\ WalkProgress'
<1>1. pc["parent"] = "setup" /\ pc["child"] = "none" /\ i = 0
  BY DEF Setup, PcInv, BuildParked
<1>2. pc'["child"] = "none" /\ pc'["parent"] \in {"reserve", "failed"}
  BY <1>1 DEF Setup, TypeOK, Procs
<1>3. UNCHANGED <<mem, inUse, first, obj, i, white, visited, status, tracing>>
  BY DEF Setup
<1>4. IdChain'
  BY <1>1, <1>2, <1>3, IdChainUnchanged
<1> QED
  BY <1>1, <1>2, <1>3, <1>4 DEF WalkProgress

LEMMA ForkProgress ==
  ASSUME TypeOK, PcInv, IdChain, WalkProgress, Fork
  PROVE  IdChain' /\ WalkProgress'
<1>1. pc["parent"] = "fork" /\ pc["child"] = "none" /\ i = NCells
  BY DEF Fork, PcInv, BuildParked, WalkProgress
<1>2. pc'["child"] \in {"release", "none"} /\ pc'["parent"] \in {"wait", "failed"}
  BY <1>1 DEF Fork, TypeOK, Procs
<1>3. UNCHANGED <<mem, inUse, first, obj, i, white, visited, status, tracing>>
  BY DEF Fork
<1>4. IdChain'
  BY <1>1, <1>2, <1>3, IdChainUnchanged
<1> QED
  BY <1>1, <1>2, <1>3, <1>4 DEF WalkProgress

(* waitpid: the parent goes on to its conclusion only on status 0.         *)
LEMMA ParentWaitProgress ==
  ASSUME TypeOK, PcInv, IdChain, WalkProgress, ParentWait
  PROVE  IdChain' /\ WalkProgress'
<1>1. pc["parent"] = "wait"
  BY DEF ParentWait
<1>2. /\ pc'["child"] = pc["child"]
      /\ pc'["parent"] = IF status = "ok" THEN "teardown" ELSE "failed"
  BY DEF ParentWait, TypeOK, Procs
<1>3. UNCHANGED <<mem, inUse, first, obj, i, white, visited, status, tracing>>
  BY DEF ParentWait
<1>4. IdChain'
  BY <1>1, <1>2, <1>3, IdChainUnchanged
<1> QED
  BY <1>1, <1>2, <1>3, <1>4 DEF WalkProgress

LEMMA ParkProgress ==
  ASSUME TypeOK, PcInv, IdChain, WalkProgress, Park
  PROVE  IdChain' /\ WalkProgress'
<1>1. pc["child"] = "park"
  BY DEF Park
<1>2. pc'["child"] = "teardown" /\ pc'["parent"] = pc["parent"]
  BY DEF Park, TypeOK, Procs
<1>3. UNCHANGED <<mem, inUse, first, obj, i, white, visited, status, tracing>>
  BY DEF Park
<1>4. IdChain'
  BY <1>2, <1>3, IdChainUnchanged
<1> QED
  BY <1>1, <1>2, <1>3, <1>4 DEF WalkProgress

(* The child's teardown returns 0 after its walk read every index.         *)
LEMMA TeardownProgress ==
  ASSUME TypeOK, PcInv, IdChain, WalkProgress, NEW p \in Procs, Teardown(p)
  PROVE  IdChain' /\ WalkProgress'
<1>1. UNCHANGED <<mem, inUse, first, obj, i, white, visited, tracing>>
  BY DEF Teardown
<1>2. CASE p = "parent"
  <2>1. pc["parent"] = "teardown"
    BY <1>2 DEF Teardown
  <2>2. pc'["child"] = pc["child"] /\ pc'["parent"] = "done" /\ status' = status
    BY <1>2 DEF Teardown, TypeOK, Procs
  <2>3. IdChain'
    BY <1>1, <2>1, <2>2, IdChainUnchanged
  <2> QED
    BY <1>1, <2>1, <2>2, <2>3 DEF WalkProgress
<1>3. CASE p = "child"
  <2>1. pc["child"] = "teardown"
    BY <1>3 DEF Teardown
  <2>2. pc'["child"] = "exited" /\ pc'["parent"] = pc["parent"] /\ status' = "ok"
    BY <1>3 DEF Teardown, TypeOK, Procs
  <2>3. IdChain'
    BY <1>1, <2>2, IdChainUnchanged
  <2> QED
    BY <1>1, <2>1, <2>2, <2>3 DEF WalkProgress
<1> QED
  BY <1>2, <1>3 DEF Procs

(* mps_reserve: the new cell gets the loop index and is exempt from the    *)
(* chain until its commit; no committed cell refers to it.                 *)
LEMMA ReserveProgress ==
  ASSUME TypeOK, PcInv, HeapInv, IdChain, WalkProgress, Reserve
  PROVE  IdChain' /\ WalkProgress'
<1>0. /\ pc["parent"] = "reserve"
      /\ pc["child"] = "none"
      /\ ~tracing
      /\ UNCHANGED <<first, i, white, visited, status, tracing>>
  BY DEF Reserve, PcInv, BuildParked, WalkProgress
<1>1. CASE /\ pc' = [pc EXCEPT !["parent"] = "failed"]
           /\ UNCHANGED <<inUse, mem, obj, trapped>>
  <2>1. pc'["parent"] = "failed" /\ pc'["child"] = "none"
    BY <1>0, <1>1 DEF TypeOK, Procs
  <2>2. IdChain'
    BY <1>0, <1>1, <2>1, IdChainUnchanged
  <2> QED
    BY <1>0, <1>1, <2>1, <2>2 DEF WalkProgress
<1>2. CASE \E a \in Addr \ inUse :
             /\ inUse' = inUse \cup {a}
             /\ mem' = [mem EXCEPT ![a] = [type |-> "REF", ref |-> NULL, id |-> i]]
             /\ obj' = a
             /\ trapped' = FALSE
             /\ pc' = [pc EXCEPT !["parent"] = "commit"]
  <2>1. PICK a \in Addr \ inUse :
             /\ inUse' = inUse \cup {a}
             /\ mem' = [mem EXCEPT ![a] = [type |-> "REF", ref |-> NULL, id |-> i]]
             /\ obj' = a
             /\ trapped' = FALSE
             /\ pc' = [pc EXCEPT !["parent"] = "commit"]
    BY <1>2
  <2>2. /\ \A c \in Addr \ {a} : mem'[c] = mem[c]
        /\ mem'[a].id = i
        /\ pc'["parent"] = "commit" /\ pc'["child"] = "none"
    BY <1>0, <2>1 DEF TypeOK, Procs
  <2>3. white = {}
    BY <1>0 DEF HeapInv, Tricolour
  <2>4. IdChain'
    <3>1. ASSUME NEW c \in inUse', mem'[c].type = "REF",
                 ~(pc'["parent"] = "commit" /\ c = obj')
          PROVE  IF mem'[c].id = 0 THEN mem'[c].ref = NULL
                 ELSE mem'[c].ref \in inUse' /\ mem'[mem'[c].ref].id = mem'[c].id - 1
      <4>1. c \in inUse /\ c # a
        BY <2>1, <2>2, <3>1
      <4>2. mem'[c] = mem[c] /\ mem[c].type = "REF"
        BY <4>1, <2>2, <3>1 DEF TypeOK
      <4>3. IF mem[c].id = 0 THEN mem[c].ref = NULL
            ELSE mem[c].ref \in inUse /\ mem[mem[c].ref].id = mem[c].id - 1
        BY <1>0, <4>1, <4>2 DEF IdChain
      <4>4. mem[c].id # 0 => mem'[mem[c].ref] = mem[mem[c].ref]
        BY <4>3, <2>2 DEF TypeOK
      <4> QED
        BY <2>1, <4>2, <4>3, <4>4
    <3>2. \A c \in white' : mem'[c].type = "FWD" => mem'[mem'[c].ref].id = mem'[c].id
      BY <1>0, <2>3
    <3> QED
      BY <3>1, <3>2 DEF IdChain
  <2>5. first = NULL \/ first \in inUse
    BY DEF HeapInv, Live
  <2>6. first # NULL => mem'[first] = mem[first]
    BY <2>5, <2>2 DEF TypeOK
  <2> QED
    BY <1>0, <2>1, <2>2, <2>4, <2>6 DEF WalkProgress
<1>3. QED
  BY <1>1, <1>2 DEF Reserve

(* The commit links the cell of index i in front of the cell of index      *)
(* i - 1 (or NULL), and first becomes the cell of index i.                 *)
LEMMA CommitProgress ==
  ASSUME TypeOK, PcInv, HeapInv, IdChain, WalkProgress, Commit
  PROVE  IdChain' /\ WalkProgress'
<1>0. /\ pc["parent"] = "commit"
      /\ pc["child"] = "none"
      /\ ~trapped /\ ~tracing
      /\ obj \in Addr /\ Live(obj)
      /\ mem[obj].id = i
      /\ first = NULL \/ Live(first)
      /\ white = {}
  BY DEF Commit, PcInv, BuildParked, CommitNeverFails, WalkProgress, HeapInv,
         Tricolour
<1>1. /\ mem' = [mem EXCEPT ![obj].ref = first]
      /\ first' = obj
      /\ i' = i + 1
      /\ pc' = [pc EXCEPT !["parent"] =
                  IF i + 1 < NCells THEN "reserve" ELSE "fork"]
      /\ UNCHANGED <<inUse, obj, white, visited, status, tracing>>
  BY <1>0 DEF Commit
<1>2. /\ \A c \in Addr : mem'[c].id = mem[c].id /\ mem'[c].type = mem[c].type
      /\ \A c \in Addr \ {obj} : mem'[c] = mem[c]
      /\ mem'[obj].ref = first
      /\ pc'["parent"] = (IF i + 1 < NCells THEN "reserve" ELSE "fork")
      /\ pc'["child"] = "none"
  BY <1>0, <1>1 DEF TypeOK, Procs
<1>3. i \in Nat /\ i < NCells
  BY <1>0 DEF TypeOK, PcInv
<1>4. IF i = 0 THEN first = NULL ELSE first # NULL /\ mem[first].id = i - 1
  BY DEF WalkProgress
<1>5. IdChain'
  <2>1. ASSUME NEW c \in inUse', mem'[c].type = "REF",
               ~(pc'["parent"] = "commit" /\ c = obj')
        PROVE  IF mem'[c].id = 0 THEN mem'[c].ref = NULL
               ELSE mem'[c].ref \in inUse' /\ mem'[mem'[c].ref].id = mem'[c].id - 1
    <3>1. c \in Addr /\ c \in inUse
      BY <1>1 DEF TypeOK
    <3>2. CASE c = obj
      <4>1. first # NULL => first \in inUse /\ first \in Addr
        BY <1>0 DEF Live, TypeOK
      <4> QED
        BY <1>0, <1>1, <1>2, <1>4, <3>2, <4>1
    <3>3. CASE c # obj
      <4>1. mem'[c] = mem[c] /\ mem[c].type = "REF"
        BY <1>2, <2>1, <3>1, <3>3
      <4>2. IF mem[c].id = 0 THEN mem[c].ref = NULL
            ELSE mem[c].ref \in inUse /\ mem[mem[c].ref].id = mem[c].id - 1
        BY <1>0, <3>1, <3>3, <4>1 DEF IdChain
      <4>3. CASE mem[c].id = 0
        BY <4>1, <4>2, <4>3
      <4>4. CASE mem[c].id # 0
        <5>1. mem[c].ref \in inUse /\ mem[mem[c].ref].id = mem[c].id - 1
          BY <4>2, <4>4
        <5>2. mem[c].ref \in Addr
          BY <5>1 DEF TypeOK
        <5>3. mem'[mem[c].ref].id = mem[mem[c].ref].id
          BY <5>2, <1>2
        <5>4. inUse' = inUse
          BY <1>1
        <5> QED
          BY <4>1, <4>4, <5>1, <5>3, <5>4, Zenon
      <4> QED
        BY <4>3, <4>4
    <3> QED
      BY <3>2, <3>3
  <2> QED
    BY <1>0, <1>1, <2>1 DEF IdChain
<1>6. WalkProgress'
  <2>1. IF i' = 0 THEN first' = NULL ELSE first' # NULL /\ mem'[first'].id = i' - 1
    BY <1>0, <1>1, <1>2, <1>3
  <2>2. pc'["parent"] = "fork" => i' = NCells
    BY <1>1, <1>2, <1>3
  <2> QED
    BY <1>0, <1>1, <1>2, <2>1, <2>2 DEF WalkProgress
<1> QED
  BY <1>5, <1>6

(* The release starts the walk at first, the cell of the last index.       *)
LEMMA ReleaseProgress ==
  ASSUME TypeOK, PcInv, IdChain, WalkProgress, Release
  PROVE  IdChain' /\ WalkProgress'
<1>1. /\ pc["child"] = "release"
      /\ pc["parent"] \notin {"setup", "reserve", "commit", "fork"}
  BY ChildAfterBuild DEF Release
<1>2. /\ i = NCells /\ visited = {}
      /\ first # NULL /\ mem[first].id = NCells - 1
  BY <1>1 DEF WalkProgress
<1>3. /\ pc'["child"] = "walk" /\ pc'["parent"] = pc["parent"]
      /\ obj' = first
      /\ UNCHANGED <<mem, inUse, first, i, white, visited, status, tracing>>
  BY DEF Release, TypeOK, Procs
<1>4. IdChain'
  BY <1>1, <1>3 DEF IdChain
<1>5. visited' = mem'[obj'].id + 1..NCells - 1
  BY <1>2, <1>3
<1> QED
  BY <1>1, <1>2, <1>3, <1>4, <1>5 DEF WalkProgress

(* A turn of the walk reads the cell of index k, adds k to what was read,  *)
(* and moves to the cell of index k - 1, or to NULL after index 0.         *)
LEMMA WalkProgressStep ==
  ASSUME TypeOK, PcInv, HeapInv, IdChain, WalkProgress, Walk
  PROVE  IdChain' /\ WalkProgress'
<1>0. /\ pc["child"] = "walk"
      /\ pc["parent"] \notin {"setup", "reserve", "commit", "fork"}
  BY ChildAfterBuild DEF Walk
<1>1. CASE obj = NULL
  <2>1. /\ pc' = [pc EXCEPT !["child"] = "park"]
        /\ UNCHANGED <<obj, visited, status, mem, inUse, first, i, white,
                       tracing>>
    BY <1>1 DEF Walk
  <2>2. pc'["child"] = "park" /\ pc'["parent"] = pc["parent"]
    BY <2>1 DEF TypeOK, Procs
  <2>3. visited = 0..NCells - 1
    BY <1>0, <1>1 DEF WalkProgress
  <2>4. IdChain'
    BY <1>0, <2>1, <2>2, IdChainUnchanged
  <2> QED
    BY <1>0, <2>1, <2>2, <2>3, <2>4 DEF WalkProgress
<1>2. CASE obj # NULL
  <2>1. /\ obj \notin grey
        /\ Live(obj)
        /\ obj \in Addr
    BY <1>2 DEF Walk, HeapInv, TypeOK
  <2>2. /\ obj' = mem[obj].ref
        /\ visited' = visited \cup {mem[obj].id}
        /\ UNCHANGED <<pc, status, mem, inUse, first, i, white, tracing>>
    BY <1>2, <2>1 DEF Walk, Live
  <2>3. /\ mem[obj].id \in 0..NCells - 1
        /\ visited = mem[obj].id + 1..NCells - 1
    BY <1>0, <1>2, <2>1 DEF WalkProgress, TypeOK, Cell
  <2>4. IF mem[obj].id = 0 THEN mem[obj].ref = NULL
        ELSE mem[obj].ref \in inUse /\ mem[mem[obj].ref].id = mem[obj].id - 1
    BY <1>0, <2>1 DEF IdChain, Live
  <2>5. IdChain'
    BY <1>0, <2>2 DEF IdChain
  <2>6. visited' = IF obj' = NULL THEN 0..NCells - 1
                   ELSE mem'[obj'].id + 1..NCells - 1
    <3>1. CASE mem[obj].id = 0
      BY <2>2, <2>3, <2>4, <3>1
    <3>2. CASE mem[obj].id # 0
      <4>1. obj' # NULL
        BY <2>2, <2>4, <3>2 DEF TypeOK
      <4> QED
        BY <2>2, <2>3, <2>4, <3>2, <4>1
    <3> QED
      BY <3>1, <3>2
  <2> QED
    BY <1>0, <2>2, <2>5, <2>6 DEF WalkProgress
<1>3. QED
  BY <1>1, <1>2

(* A flip runs only after the build, and there is no forwarded cell to     *)
(* condemn.                                                                *)
LEMMA FlipProgress ==
  ASSUME TypeOK, PcInv, HeapInv, IdChain, WalkProgress, Flip
  PROVE  IdChain' /\ WalkProgress'
<1>1. /\ ~parked /\ ~tracing /\ tracing' = TRUE
      /\ white' \subseteq inUse
      /\ UNCHANGED <<pc, mem, inUse, first, obj, i, visited, status>>
  BY DEF Flip
<1>2. pc["parent"] \notin {"setup", "reserve", "commit", "fork"}
  BY <1>1, Zenon DEF PcInv, BuildParked
<1>3. \A c \in inUse : mem[c].type = "REF"
  BY <1>1 DEF HeapInv, Tricolour, UncondemnedAreRefs
<1>4. IdChain'
  BY <1>1, <1>3 DEF IdChain
<1> QED
  BY <1>1, <1>2, <1>4 DEF WalkProgress

(* Reclaim frees only condemned cells, and no surviving cell refers to one.*)
LEMMA ReclaimProgress ==
  ASSUME TypeOK, PcInv, HeapInv, IdChain, WalkProgress, Reclaim
  PROVE  IdChain' /\ WalkProgress'
<1>1. /\ grey = {}
      /\ inUse' = inUse \ white
      /\ white' = {}
      /\ tracing' = FALSE
      /\ UNCHANGED <<pc, mem, first, obj, i, visited, status>>
  BY DEF Reclaim
<1>2. IdChain'
  <2>1. ASSUME NEW c \in inUse', mem'[c].type = "REF",
               ~(pc'["parent"] = "commit" /\ c = obj')
        PROVE  IF mem'[c].id = 0 THEN mem'[c].ref = NULL
               ELSE mem'[c].ref \in inUse' /\ mem'[mem'[c].ref].id = mem'[c].id - 1
    <3>0. c \in inUse \ (white \cup grey) /\ mem'[c] = mem[c]
      BY <1>1, <2>1
    <3>1. mem[c].ref \in (inUse \ white) \cup {NULL}
      BY <3>0 DEF HeapInv, Tricolour, BlackRefsSurvive
    <3>2. IF mem[c].id = 0 THEN mem[c].ref = NULL
          ELSE mem[c].ref \in inUse /\ mem[mem[c].ref].id = mem[c].id - 1
      BY <1>1, <2>1 DEF IdChain
    <3>3. mem' = mem /\ inUse' = inUse \ white
      BY <1>1
    <3>4. CASE mem[c].id = 0
      BY <3>2, <3>3, <3>4
    <3>5. CASE mem[c].id # 0
      <4>1. mem[c].ref \in inUse \ white
        BY <3>1, <3>2, <3>5 DEF TypeOK
      <4> QED
        BY <3>2, <3>3, <3>5, <4>1
    <3> QED
      BY <3>4, <3>5
  <2> QED
    BY <1>1, <2>1 DEF IdChain
<1> QED
  BY <1>1, <1>2 DEF WalkProgress

(* A step that keeps the index of every allocated cell, and moves neither  *)
(* process, keeps the progress of the build and the walk: first and obj    *)
(* are allocated, or NULL.                                                 *)
LEMMA ProgressIdsStable ==
  ASSUME TypeOK, PcInv, HeapInv, WalkProgress,
         UNCHANGED <<pc, first, obj, i, visited, status, tracing>>,
         \A c \in inUse : mem'[c].id = mem[c].id
  PROVE  WalkProgress'
<1>1. first # NULL => mem'[first].id = mem[first].id
  BY DEF HeapInv, Live
<1>2. obj # NULL => mem'[obj].id = mem[obj].id
  BY DEF HeapInv, Live
<1>3. (IF i = 0 THEN first = NULL ELSE first # NULL /\ mem[first].id = i - 1)'
  BY <1>1 DEF WalkProgress
<1>4. (pc["parent"] = "commit" => mem[obj].id = i)'
  <2>1. pc["parent"] = "commit" => obj # NULL
    BY DEF PcInv, TypeOK
  <2> QED
    BY <1>2, <2>1 DEF WalkProgress
<1>5. (pc["child"] = "walk" =>
        visited = IF obj = NULL THEN 0..NCells - 1
                  ELSE mem[obj].id + 1..NCells - 1)'
  BY <1>2 DEF WalkProgress
<1> QED
  BY <1>3, <1>4, <1>5 DEF WalkProgress

(* A cell whose contents are those of a chained cell d, in a step that    *)
(* keeps every allocated cell's index and frees none, is chained.          *)
LEMMA ChainTransfer ==
  ASSUME NEW c, NEW d \in inUse,
         IF mem[d].id = 0 THEN mem[d].ref = NULL
         ELSE mem[d].ref \in inUse /\ mem[mem[d].ref].id = mem[d].id - 1,
         mem'[c] = mem[d], inUse \subseteq inUse',
         \A e \in inUse : mem'[e].id = mem[e].id
  PROVE  IF mem'[c].id = 0 THEN mem'[c].ref = NULL
         ELSE mem'[c].ref \in inUse' /\ mem'[mem'[c].ref].id = mem'[c].id - 1
<1>1. CASE mem[d].id = 0
  BY <1>1
<1>2. CASE mem[d].id # 0
  <2>1. mem[d].ref \in inUse /\ mem[mem[d].ref].id = mem[d].id - 1
    BY <1>2
  <2>2. mem'[mem[d].ref].id = mem[mem[d].ref].id
    BY <2>1
  <2> QED
    BY <1>2, <2>1, <2>2
<1> QED
  BY <1>1, <1>2

(* obj_scan keeps the chain of indices: a copy keeps the index of the cell *)
(* it copies, and a fixed reference points to a cell of the same index.    *)
LEMMA ScanProgress ==
  ASSUME TypeOK, PcInv, HeapInv, IdChain, WalkProgress, NEW a \in Addr, Scan(a)
  PROVE  IdChain' /\ WalkProgress'
<1> DEFINE p == mem[a].ref
<1>1. /\ tracing
      /\ a \in inUse \ white
      /\ mem[a].type = "REF"
      /\ p \in inUse \cup {NULL}
      /\ pc["parent"] # "commit"
      /\ UNCHANGED <<pc, first, obj, i, tracing, white, visited, status>>
  BY DEF Scan, TypeOK, HeapInv, Tricolour, UncondemnedAreRefs, RefsAllocated,
         WalkProgress
<1>2. CASE p \in white /\ ObjIsFwd(p) # NULL
  <2>1. mem[p].type = "FWD" /\ p \in inUse
    BY <1>2 DEF ObjIsFwd, TypeOK
  <2>2. mem[p].ref \in inUse \ white /\ mem[mem[p].ref].id = mem[p].id
    BY <1>2, <2>1 DEF HeapInv, Tricolour, ForwardsSurvive, IdChain
  <2>3. /\ mem' = [mem EXCEPT ![a].ref = mem[p].ref]
        /\ inUse' = inUse
    BY <1>1, <1>2, <2>1 DEF Scan, ObjIsFwd
  <2>4. /\ \A c \in Addr \ {a} : mem'[c] = mem[c]
        /\ mem'[a].type = "REF" /\ mem'[a].ref = mem[p].ref
        /\ mem'[a].id = mem[a].id
    BY <1>1, <2>3 DEF TypeOK, Cell
  <2>5. \A c \in inUse : mem'[c].id = mem[c].id
    BY <2>4 DEF TypeOK
  <2>6. /\ p # NULL
        /\ mem[a].id # 0 /\ mem[p].id = mem[a].id - 1
    <3>1. p # NULL
      BY <2>1 DEF TypeOK
    <3>2. IF mem[a].id = 0 THEN p = NULL
          ELSE p \in inUse /\ mem[p].id = mem[a].id - 1
      BY <1>1 DEF IdChain
    <3> QED
      BY <3>1, <3>2
  <2>7. IdChain'
    <3>1. ASSUME NEW c \in inUse', mem'[c].type = "REF",
                 ~(pc'["parent"] = "commit" /\ c = obj')
          PROVE  IF mem'[c].id = 0 THEN mem'[c].ref = NULL
                 ELSE mem'[c].ref \in inUse' /\ mem'[mem'[c].ref].id = mem'[c].id - 1
      <4>1. CASE c = a
        BY <2>2, <2>3, <2>4, <2>5, <2>6, <4>1
      <4>2. CASE c # a
        <5>1. mem'[c] = mem[c] /\ c \in inUse
          BY <2>3, <2>4, <4>2 DEF TypeOK
        <5>2. IF mem[c].id = 0 THEN mem[c].ref = NULL
              ELSE mem[c].ref \in inUse /\ mem[mem[c].ref].id = mem[c].id - 1
          BY <1>1, <3>1, <5>1 DEF IdChain
        <5> QED
          BY <2>3, <2>5, <5>1, <5>2, ChainTransfer
      <4> QED
        BY <4>1, <4>2
    <3>2. ASSUME NEW c \in white', mem'[c].type = "FWD"
          PROVE  mem'[mem'[c].ref].id = mem'[c].id
      <4>1. c # a /\ mem'[c] = mem[c]
        BY <1>1, <2>4 DEF TypeOK
      <4>2. mem[c].ref \in inUse /\ mem[mem[c].ref].id = mem[c].id
        BY <1>1, <3>2, <4>1 DEF HeapInv, Tricolour, ForwardsSurvive, IdChain
      <4> QED
        BY <2>5, <4>1, <4>2
    <3> QED
      BY <3>1, <3>2 DEF IdChain
  <2>8. WalkProgress'
    BY <1>1, <2>5, ProgressIdsStable
  <2> QED
    BY <2>7, <2>8
<1>3. CASE p \in white /\ ObjIsFwd(p) = NULL
  <2>0. p \in inUse /\ p \in Addr /\ p # NULL
    BY <1>3 DEF TypeOK
  <2>1. PICK n \in Addr \ inUse :
          /\ mem' = [mem EXCEPT ![n] = mem[p],
                                ![p] = ObjFwd(mem[p], n),
                                ![a].ref = n]
          /\ inUse' = inUse \cup {n}
    BY <1>1, <1>3 DEF Scan
  <2>2. /\ p # a /\ p # n /\ a # n
        /\ n \notin white
    BY <1>1, <1>3, <2>0, <2>1 DEF TypeOK
  <2>3. /\ mem'[n] = mem[p]
        /\ mem'[p] = ObjFwd(mem[p], n)
        /\ mem'[a] = [mem[a] EXCEPT !.ref = n]
        /\ \A c \in Addr \ {a, n, p} : mem'[c] = mem[c]
    BY <2>0, <2>1, <2>2 DEF TypeOK
  <2>4. /\ mem'[p].type = "FWD" /\ mem'[p].ref = n /\ mem'[p].id = mem[p].id
        /\ mem'[a].type = "REF" /\ mem'[a].ref = n /\ mem'[a].id = mem[a].id
        /\ mem'[n].id = mem[p].id
    BY <1>1, <2>0, <2>3 DEF TypeOK, Cell, ObjFwd
  <2>5. \A c \in inUse : mem'[c].id = mem[c].id
    BY <2>1, <2>3, <2>4 DEF TypeOK
  <2>6. mem[a].id # 0 /\ mem[p].id = mem[a].id - 1
    BY <1>1, <2>0, Zenon DEF IdChain
  <2>7. IdChain'
    <3>1. ASSUME NEW c \in inUse', mem'[c].type = "REF",
                 ~(pc'["parent"] = "commit" /\ c = obj')
          PROVE  IF mem'[c].id = 0 THEN mem'[c].ref = NULL
                 ELSE mem'[c].ref \in inUse' /\ mem'[mem'[c].ref].id = mem'[c].id - 1
      <4>1. CASE c = a
        BY <2>1, <2>4, <2>6, <4>1
      <4>2. CASE c = p
        BY <2>4, <3>1, <4>2
      <4>3. CASE c = n
        <5>1. mem[p].type = "REF"
          BY <2>3, <3>1, <4>3
        <5>2. IF mem[p].id = 0 THEN mem[p].ref = NULL
              ELSE mem[p].ref \in inUse /\ mem[mem[p].ref].id = mem[p].id - 1
          BY <1>1, <2>0, <5>1 DEF IdChain
        <5> QED
          BY <2>0, <2>1, <2>3, <2>5, <4>3, <5>2, ChainTransfer
      <4>4. CASE c \notin {a, n, p}
        <5>1. mem'[c] = mem[c] /\ c \in inUse
          BY <2>1, <2>3, <4>4 DEF TypeOK
        <5>2. IF mem[c].id = 0 THEN mem[c].ref = NULL
              ELSE mem[c].ref \in inUse /\ mem[mem[c].ref].id = mem[c].id - 1
          BY <1>1, <3>1, <5>1 DEF IdChain
        <5> QED
          BY <2>1, <2>5, <5>1, <5>2, ChainTransfer
      <4> QED
        BY <4>1, <4>2, <4>3, <4>4
    <3>2. ASSUME NEW c \in white', mem'[c].type = "FWD"
          PROVE  mem'[mem'[c].ref].id = mem'[c].id
      <4>1. CASE c = p
        BY <2>4, <4>1
      <4>2. CASE c # p
        <5>1. c \notin {a, n} /\ c \in Addr
          BY <1>1, <2>2 DEF TypeOK
        <5>2. mem'[c] = mem[c]
          BY <2>3, <4>2, <5>1
        <5>3. mem[c].ref \in inUse /\ mem[mem[c].ref].id = mem[c].id
          BY <1>1, <3>2, <5>2 DEF HeapInv, Tricolour, ForwardsSurvive, IdChain
        <5> QED
          BY <2>5, <5>2, <5>3
      <4> QED
        BY <4>1, <4>2
    <3> QED
      BY <3>1, <3>2 DEF IdChain
  <2>8. WalkProgress'
    BY <1>1, <2>5, ProgressIdsStable
  <2> QED
    BY <2>7, <2>8
<1>4. CASE p \notin white
  <2>1. UNCHANGED <<mem, inUse>>
    BY <1>1, <1>4 DEF Scan
  <2> QED
    BY <1>1, <2>1, IdChainUnchanged, ProgressUnchanged
<1>5. QED
  BY <1>2, <1>3, <1>4

(* Every step keeps the strengthened invariant.                            *)
LEMMA NextLInv ==
  ASSUME LInv, [Next]_vars
  PROVE  LInv'
<1>0. TypeOK /\ PcInv /\ HeapInv /\ IdChain /\ WalkProgress
  BY DEF LInv, IInv
<1>1. IInv'
  BY NextIInv DEF LInv
<1>2. IdChain' /\ WalkProgress'
  <2>1. CASE ParentStep
    BY <1>0, <2>1, SetupProgress, ReserveProgress, CommitProgress,
       ForkProgress, ParentWaitProgress, TeardownProgress DEF ParentStep, Procs
  <2>2. CASE ChildStep
    BY <1>0, <2>2, ReleaseProgress, WalkProgressStep, ParkProgress,
       TeardownProgress DEF ChildStep, Procs
  <2>3. CASE Flip
    BY <1>0, <2>3, FlipProgress
  <2>4. CASE \E a \in grey : Scan(a)
    <3>1. PICK a \in grey : Scan(a)
      BY <2>4
    <3>2. a \in Addr
      BY <1>0 DEF TypeOK
    <3> QED
      BY <1>0, <3>1, <3>2, ScanProgress
  <2>5. CASE Reclaim
    BY <1>0, <2>5, ReclaimProgress
  <2>6. CASE UNCHANGED vars
    BY <1>0, <2>6, IdChainUnchanged, ProgressUnchanged DEF vars
  <2> QED
    BY <2>1, <2>2, <2>3, <2>4, <2>5, <2>6 DEF Next, CollectorWork
<1> QED
  BY <1>1, <1>2 DEF LInv

(* In the initial state nothing is allocated and nothing has been read.    *)
LEMMA InitLInv == Init => LInv
<1> SUFFICES ASSUME Init PROVE LInv
  OBVIOUS
<1>1. IInv
  BY InitIInv
<1>2. IdChain
  BY DEF Init, IdChain
<1>3. WalkProgress
  BY DEF Init, WalkProgress, Procs
<1> QED
  BY <1>1, <1>2, <1>3 DEF LInv

(* The conclusion of main (forktest.c line 175) is sound: when the parent  *)
(* has seen the child exit with status 0, the child's walk of the list,    *)
(* which the collection moved while it ran, read the cell of every index   *)
(* the build linked.                                                       *)
THEOREM ConclusionSoundHolds == Spec => []ConclusionSound
<1>1. LInv => ConclusionSound
  BY DEF LInv, WalkProgress, ConclusionSound
<1> QED
  BY InitLInv, NextLInv, <1>1, PTL DEF Spec

=============================================================================
