------------------------------ MODULE ForkTest ------------------------------
(***************************************************************************)
(* src/code/forktest.c, the regression test for job004062: the MPS must    *)
(* keep working in the child of a fork().  main builds a linked list of    *)
(* NCells cells in an AMC pool with a parked arena, forks, and the child   *)
(* releases the arena (so an incremental collection may move the cells     *)
(* behind a read barrier) and walks the list, insisting that every cell is *)
(* a TYPE_REF object.  The parent waits for the child and reports.         *)
(*                                                                         *)
(* The collector is the MPS, which is not in this repository.  It enters   *)
(* the model only as the test's format callbacks see it: a flip condemns   *)
(* the cells not pinned by the ambiguous stack root, obj_scan fixes a      *)
(* cell's reference (copying the referent and forwarding it with obj_fwd   *)
(* unless obj_isfwd finds it forwarded already), the mutator may not read  *)
(* a cell that is still grey (the read barrier), and the condemned space   *)
(* is reclaimed when nothing is grey.  A cell takes one address: the byte  *)
(* layout that obj_skip walks is in ObjFormat.tla.                         *)
(***************************************************************************)
EXTENDS Naturals, FiniteSets

CONSTANTS
  NCells,          \* the length of the list (100000 at line 144)
  Addr,            \* the addresses a cell may occupy
  NULL,            \* the null pointer, not an address
  MaxCollections   \* bound on the collections the child's arena runs

ASSUME ForkTestAssumption ==
  /\ NCells \in Nat \ {0}
  /\ NULL \notin Addr
  /\ IsFiniteSet(Addr)
  /\ MaxCollections \in Nat

Procs == {"parent", "child"}

(* The places of main a process can be at ("none": the child before the   *)
(* fork).                                                                  *)
Loc == {"none", "setup", "reserve", "commit", "fork", "wait", "release",
        "walk", "park", "teardown", "done", "failed", "exited", "aborted"}

(* The cells' contents.  id is a ghost: the loop index that made the cell; *)
(* a copy keeps it.                                                        *)
Cell == [type : {"REF", "FWD"}, ref : Addr \cup {NULL}, id : 0..NCells - 1]

VARIABLES
  pc,        \* each process's place in main
  mem,       \* the cells at each address (the child's heap after the fork)
  inUse,     \* the addresses the pool has allocated
  first,     \* the local variable first
  obj,       \* the local variable obj (also addr, which equals it)
  i,         \* the loop counter of the build
  parked,    \* no arena yet, or the arena is parked: no collection may start
  trapped,   \* a flip happened since the last mps_reserve
  tracing,   \* a collection is in progress
  white,     \* the condemned cells of that collection
  grey,      \* the cells the collection has still to scan
  gcs,       \* collections started so far
  visited,   \* ghost: the ids of the cells the child's walk has read
  status     \* the child's exit: "none", "ok" (exit 0) or "abort"

vars == <<pc, mem, inUse, first, obj, i, parked, trapped, tracing, white,
          grey, gcs, visited, status>>

TypeOK ==
  /\ pc \in [Procs -> Loc]
  /\ mem \in [Addr -> Cell]
  /\ inUse \subseteq Addr
  /\ first \in Addr \cup {NULL}
  /\ obj \in Addr \cup {NULL}
  /\ i \in 0..NCells
  /\ parked \in BOOLEAN
  /\ trapped \in BOOLEAN
  /\ tracing \in BOOLEAN
  /\ white \subseteq inUse
  /\ grey \subseteq inUse
  /\ gcs \in 0..MaxCollections
  /\ visited \subseteq 0..NCells - 1
  /\ status \in {"none", "ok", "abort"}

(* Fresh memory from the VM arena is zero-filled: type 0 is TYPE_REF and  *)
(* the union is NULL.                                                      *)
Init ==
  /\ pc = [p \in Procs |-> IF p = "parent" THEN "setup" ELSE "none"]
  /\ mem = [a \in Addr |-> [type |-> "REF", ref |-> NULL, id |-> 0]]
  /\ inUse = {}
  /\ first = NULL
  /\ obj = NULL
  /\ i = 0
  /\ parked = TRUE
  /\ trapped = FALSE
  /\ tracing = FALSE
  /\ white = {}
  /\ grey = {}
  /\ gcs = 0
  /\ visited = {}
  /\ status = "none"

-----------------------------------------------------------------------------
(* The format callbacks.                                                   *)

(* obj_fwd: the old cell becomes a forwarding object to new.               *)
ObjFwd(old, new) == [old EXCEPT !.type = "FWD", !.ref = new]

(* obj_isfwd: the forwarding address of the cell at addr, or NULL.         *)
ObjIsFwd(addr) == IF mem[addr].type = "FWD" THEN mem[addr].ref ELSE NULL

-----------------------------------------------------------------------------
(* The parent, and main before the fork.                                   *)

(* Mutant: the arena is not parked at line 117.                           *)
MutSetupNoPark ==
  /\ pc["parent"] = "setup"
  /\ \/ /\ parked' = FALSE
        /\ pc' = [pc EXCEPT !["parent"] = "reserve"]
     \/ /\ pc' = [pc EXCEPT !["parent"] = "failed"]
        /\ UNCHANGED parked
  /\ UNCHANGED <<mem, inUse, first, obj, i, trapped, tracing, white,
                 grey, gcs, visited, status>>

(* Arena, park, thread, root, format, pool and allocation point: each is   *)
(* a die() that may exit the process.  The new arena holds nothing to      *)
(* collect until it is parked, so it is parked from the start.             *)
Setup ==
  /\ pc["parent"] = "setup"
  /\ \/ /\ parked' = TRUE
        /\ pc' = [pc EXCEPT !["parent"] = "reserve"]
     \/ /\ pc' = [pc EXCEPT !["parent"] = "failed"]
        /\ UNCHANGED parked
  /\ UNCHANGED <<mem, inUse, first, obj, i, trapped, tracing, white, grey,
                 gcs, visited, status>>

(* mps_reserve and the initialisation of the new cell; the reserve may     *)
(* fail (out of memory) and die.                                           *)
Reserve ==
  /\ pc["parent"] = "reserve"
  /\ \/ \E a \in Addr \ inUse :
          /\ inUse' = inUse \cup {a}
          /\ mem' = [mem EXCEPT ![a] = [type |-> "REF", ref |-> NULL, id |-> i]]
          /\ obj' = a
          /\ trapped' = FALSE
          /\ pc' = [pc EXCEPT !["parent"] = "commit"]
     \/ /\ pc' = [pc EXCEPT !["parent"] = "failed"]
        /\ UNCHANGED <<inUse, mem, obj, trapped>>
  /\ UNCHANGED <<first, i, parked, tracing, white, grey, gcs, visited, status>>

(* Mutant: the loop runs once too often (i <= 100000).                    *)
MutCommitLoopBound ==
  /\ pc["parent"] = "commit"
  /\ IF trapped
       THEN /\ pc' = [pc EXCEPT !["parent"] = "reserve"]
            /\ UNCHANGED <<mem, first, i>>
       ELSE /\ mem' = [mem EXCEPT ![obj].ref = first]
            /\ first' = obj
            /\ i' = i + 1
            /\ pc' = [pc EXCEPT !["parent"] =
                        IF i + 1 <= NCells THEN "reserve" ELSE "fork"]
  /\ UNCHANGED <<inUse, obj, parked, trapped, tracing, white, grey, gcs,
                 visited, status>>

(* Mutant: obj->u.ref = first (line 153) is left out.                      *)
MutCommitNoLink ==
  /\ pc["parent"] = "commit"
  /\ IF trapped
       THEN /\ pc' = [pc EXCEPT !["parent"] = "reserve"]
            /\ UNCHANGED <<first, i>>
       ELSE /\ first' = obj
            /\ i' = i + 1
            /\ pc' = [pc EXCEPT !["parent"] =
                        IF i + 1 < NCells THEN "reserve" ELSE "fork"]
  /\ UNCHANGED <<mem, inUse, obj, parked, trapped, tracing, white, grey, gcs,
                 visited, status>>

(* mps_commit fails if a flip happened since the reserve, and the do loop  *)
(* reserves again; otherwise the cell is linked at the head of the list    *)
(* and the for loop goes on or ends.                                       *)
Commit ==
  /\ pc["parent"] = "commit"
  /\ IF trapped
       THEN /\ pc' = [pc EXCEPT !["parent"] = "reserve"]
            /\ UNCHANGED <<mem, first, i>>
       ELSE /\ mem' = [mem EXCEPT ![obj].ref = first]
            /\ first' = obj
            /\ i' = i + 1
            /\ pc' = [pc EXCEPT !["parent"] =
                        IF i + 1 < NCells THEN "reserve" ELSE "fork"]
  /\ UNCHANGED <<inUse, obj, parked, trapped, tracing, white, grey, gcs,
                 visited, status>>

(* fork(): the child starts with a copy of the heap; a failed fork dies.   *)
Fork ==
  /\ pc["parent"] = "fork"
  /\ \/ pc' = [pc EXCEPT !["parent"] = "wait", !["child"] = "release"]
     \/ pc' = [pc EXCEPT !["parent"] = "failed"]
  /\ UNCHANGED <<mem, inUse, first, obj, i, parked, trapped, tracing, white,
                 grey, gcs, visited, status>>

(* waitpid returns once the child has exited; the parent dies unless the  *)
(* child exited normally with status 0, and otherwise prints its          *)
(* conclusion and goes on to the teardown.                                 *)
ParentWait ==
  /\ pc["parent"] = "wait"
  /\ status # "none"
  /\ pc' = [pc EXCEPT !["parent"] =
              IF status = "ok" THEN "teardown" ELSE "failed"]
  /\ UNCHANGED <<mem, inUse, first, obj, i, parked, trapped, tracing, white,
                 grey, gcs, visited, status>>

(* The destroy calls and return 0, in either process.                      *)
Teardown(p) ==
  /\ pc[p] = "teardown"
  /\ pc' = [pc EXCEPT ![p] = IF p = "parent" THEN "done" ELSE "exited"]
  /\ status' = IF p = "child" THEN "ok" ELSE status
  /\ UNCHANGED <<mem, inUse, first, obj, i, parked, trapped, tracing, white,
                 grey, gcs, visited>>

-----------------------------------------------------------------------------
(* The child.                                                              *)

(* mps_arena_release, and the walk's obj = first.                          *)
Release ==
  /\ pc["child"] = "release"
  /\ parked' = FALSE
  /\ obj' = first
  /\ pc' = [pc EXCEPT !["child"] = "walk"]
  /\ UNCHANGED <<mem, inUse, first, i, trapped, tracing, white, grey, gcs,
                 visited, status>>

(* Mutant: the loop advances with obj = first->u.ref.                     *)
MutWalkFromFirst ==
  /\ pc["child"] = "walk"
  /\ \/ /\ obj = NULL
        /\ pc' = [pc EXCEPT !["child"] = "park"]
        /\ UNCHANGED <<obj, visited, status>>
     \/ /\ obj # NULL
        /\ obj \notin grey
        /\ IF mem[obj].type = "REF"
             THEN /\ obj' = mem[first].ref
                  /\ visited' = visited \cup {mem[obj].id}
                  /\ UNCHANGED <<pc, status>>
             ELSE /\ pc' = [pc EXCEPT !["child"] = "aborted"]
                  /\ status' = "abort"
                  /\ UNCHANGED <<obj, visited>>
  /\ UNCHANGED <<mem, inUse, first, i, parked, trapped, tracing, white, grey,
                 gcs>>

(* One turn of the walk.  The read barrier holds the read of a grey cell   *)
(* until the collector has scanned it.  Insist fails on a cell that is not *)
(* TYPE_REF and aborts the child.                                          *)
Walk ==
  /\ pc["child"] = "walk"
  /\ \/ /\ obj = NULL
        /\ pc' = [pc EXCEPT !["child"] = "park"]
        /\ UNCHANGED <<obj, visited, status>>
     \/ /\ obj # NULL
        /\ obj \notin grey
        /\ IF mem[obj].type = "REF"
             THEN /\ obj' = mem[obj].ref
                  /\ visited' = visited \cup {mem[obj].id}
                  /\ UNCHANGED <<pc, status>>
             ELSE /\ pc' = [pc EXCEPT !["child"] = "aborted"]
                  /\ status' = "abort"
                  /\ UNCHANGED <<obj, visited>>
  /\ UNCHANGED <<mem, inUse, first, i, parked, trapped, tracing, white, grey,
                 gcs>>

(* mps_arena_park returns when no collection is in progress.               *)
Park ==
  /\ pc["child"] = "park"
  /\ ~tracing
  /\ parked' = TRUE
  /\ pc' = [pc EXCEPT !["child"] = "teardown"]
  /\ UNCHANGED <<mem, inUse, first, obj, i, trapped, tracing, white, grey,
                 gcs, visited, status>>

-----------------------------------------------------------------------------
(* The collector.                                                          *)

(* A flip.  The stack, registered as an ambiguous root, pins the cells it  *)
(* points to; they are grey, the rest of the pool is condemned, and the    *)
(* allocation point is trapped.                                            *)
Flip ==
  /\ ~parked
  /\ ~tracing
  /\ gcs < MaxCollections
  /\ LET pinned == {first, obj} \cap inUse
     IN /\ white' = inUse \ pinned
        /\ grey' = pinned
  /\ tracing' = TRUE
  /\ trapped' = TRUE
  /\ gcs' = gcs + 1
  /\ UNCHANGED <<pc, mem, inUse, first, obj, i, parked, visited, status>>

(* Mutant: obj_scan does not write the fixed reference back (line 87).    *)
MutScanNoWriteBack(a) ==
  /\ tracing
  /\ a \in grey
  /\ LET p == mem[a].ref
     IN IF mem[a].type = "REF" /\ p \in white
          THEN IF ObjIsFwd(p) # NULL
                 THEN /\ grey' = grey \ {a}
                      /\ UNCHANGED <<mem, inUse>>
                 ELSE \E n \in Addr \ inUse :
                        /\ mem' = [mem EXCEPT ![n] = mem[p],
                                              ![p] = ObjFwd(mem[p], n)]
                        /\ inUse' = inUse \cup {n}
                        /\ grey' = (grey \ {a}) \cup {n}
          ELSE /\ grey' = grey \ {a}
               /\ UNCHANGED <<mem, inUse>>
  /\ UNCHANGED <<pc, first, obj, i, parked, trapped, tracing, white, gcs,
                 visited, status>>

(* obj_scan of the grey cell a: a TYPE_REF cell's reference is fixed.  A   *)
(* condemned referent is replaced by its forwarding address, or copied to  *)
(* a free address and forwarded there; the fixed reference is written back.*)
Scan(a) ==
  /\ tracing
  /\ a \in grey
  /\ LET p == mem[a].ref
     IN IF mem[a].type = "REF" /\ p \in white
          THEN IF ObjIsFwd(p) # NULL
                 THEN /\ mem' = [mem EXCEPT ![a].ref = ObjIsFwd(p)]
                      /\ grey' = grey \ {a}
                      /\ UNCHANGED inUse
                 ELSE \E n \in Addr \ inUse :
                        /\ mem' = [mem EXCEPT ![n] = mem[p],
                                              ![p] = ObjFwd(mem[p], n),
                                              ![a].ref = n]
                        /\ inUse' = inUse \cup {n}
                        /\ grey' = (grey \ {a}) \cup {n}
          ELSE /\ grey' = grey \ {a}
               /\ UNCHANGED <<mem, inUse>>
  /\ UNCHANGED <<pc, first, obj, i, parked, trapped, tracing, white, gcs,
                 visited, status>>

(* When nothing is grey the condemned space is freed.                      *)
Reclaim ==
  /\ tracing
  /\ grey = {}
  /\ inUse' = inUse \ white
  /\ white' = {}
  /\ tracing' = FALSE
  /\ UNCHANGED <<pc, mem, first, obj, i, parked, trapped, grey, gcs,
                 visited, status>>

-----------------------------------------------------------------------------
ParentStep ==
  Setup \/ Reserve \/ Commit \/ Fork \/ ParentWait \/ Teardown("parent")

ChildStep == Release \/ Walk \/ Park \/ Teardown("child")

CollectorWork == (\E a \in grey : Scan(a)) \/ Reclaim

Next == ParentStep \/ ChildStep \/ Flip \/ CollectorWork

(* Each process is scheduled by the OS.  The MPS has no thread of its own: *)
(* its work runs in the child's calls (the barrier's fault handler, and    *)
(* mps_arena_park, which finishes the collection), so a collection in      *)
(* progress is carried on.  A flip need not happen.                        *)
Spec ==
  /\ Init
  /\ [][Next]_vars
  /\ WF_vars(ParentStep)
  /\ WF_vars(ChildStep)
  /\ WF_vars(CollectorWork)

-----------------------------------------------------------------------------
(* Properties.                                                             *)

(* The Insist of the child's walk (line 165) never fails: after the fork   *)
(* and across the collections the released arena runs, every cell the      *)
(* child reads is a TYPE_REF cell, never an old copy left forwarding by    *)
(* obj_fwd.                                                                *)
WalkSeesOnlyRefs == status # "abort"

(* The parent's "Failed to find any defects" (line 175) is printed only    *)
(* when the child has read every cell the build linked: the walk of the    *)
(* moved list reached each of the NCells cells.                            *)
ConclusionSound ==
  pc["parent"] \in {"teardown", "done"} => visited = 0..NCells - 1

(* The retry of the do loop (lines 147-152) is never taken: the arena was  *)
(* parked at line 117, so no flip traps the allocation point between a     *)
(* reserve and its commit.                                                 *)
CommitNeverFails == pc["parent"] = "commit" => ~trapped

(* The test terminates: the parent's waitpid returns, because the child's  *)
(* walk ends at NULL and its park finishes the collection.                 *)
ParentTerminates == <>(pc["parent"] \in {"done", "failed"})

(* The cells the child's walk has still to read: obj's loop index plus     *)
(* one, read from the cell wherever the collector has copied it.           *)
WalkLeft ==
  IF pc["child"] = "walk" /\ obj # NULL THEN mem[obj].id + 1 ELSE 0

(* The collector is invisible to the test: under the mapping above, main   *)
(* behaves as if no cell ever moved.  The commit never retries, the walk   *)
(* reads the cells of indices NCells - 1 down to 0 one by one and never    *)
(* aborts, and the parent concludes only after the child has exited.       *)
AF == INSTANCE AbstractForkTest WITH left <- WalkLeft
ImplementsAbstractForkTest == AF!Spec

=============================================================================
