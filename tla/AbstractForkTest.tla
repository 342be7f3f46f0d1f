-------------------------- MODULE AbstractForkTest --------------------------
(***************************************************************************)
(* What src/code/forktest.c does when the MPS is invisible to it: main     *)
(* builds a list of NCells cells, the loop index k of each cell being its  *)
(* place in the list, forks, and the child walks the list from the last    *)
(* cell made down to the first and exits normally; the parent waits for it *)
(* and concludes.  There is no collector, no commit retry and no failing   *)
(* Insist.  The list is abstracted to the number of cells the walk has     *)
(* still to read: the cell it reads next is the one made at index left - 1.*)
(***************************************************************************)
EXTENDS Naturals

CONSTANT NCells

VARIABLES
  pc,       \* each process's place in main
  i,        \* the loop counter of the build
  visited,  \* the indices of the cells the child's walk has read
  status,   \* the child's exit status
  left      \* the cells the child's walk has still to read

avars == <<pc, i, visited, status, left>>

Init ==
  /\ pc = [p \in {"parent", "child"} |->
             IF p = "parent" THEN "setup" ELSE "none"]
  /\ i = 0
  /\ visited = {}
  /\ status = "none"
  /\ left = 0

Setup ==
  /\ pc["parent"] = "setup"
  /\ pc' \in {[pc EXCEPT !["parent"] = l] : l \in {"reserve", "failed"}}
  /\ UNCHANGED <<i, visited, status, left>>

Reserve ==
  /\ pc["parent"] = "reserve"
  /\ pc' \in {[pc EXCEPT !["parent"] = l] : l \in {"commit", "failed"}}
  /\ UNCHANGED <<i, visited, status, left>>

(* Every commit succeeds and links the cell of index i.                    *)
Commit ==
  /\ pc["parent"] = "commit"
  /\ i' = i + 1
  /\ pc' = [pc EXCEPT !["parent"] = IF i + 1 < NCells THEN "reserve" ELSE "fork"]
  /\ UNCHANGED <<visited, status, left>>

Fork ==
  /\ pc["parent"] = "fork"
  /\ \/ pc' = [pc EXCEPT !["parent"] = "wait", !["child"] = "release"]
     \/ pc' = [pc EXCEPT !["parent"] = "failed"]
  /\ UNCHANGED <<i, visited, status, left>>

ParentWait ==
  /\ pc["parent"] = "wait"
  /\ status # "none"
  /\ pc' = [pc EXCEPT !["parent"] =
              IF status = "ok" THEN "teardown" ELSE "failed"]
  /\ UNCHANGED <<i, visited, status, left>>

Teardown(p) ==
  /\ pc[p] = "teardown"
  /\ pc' = [pc EXCEPT ![p] = IF p = "parent" THEN "done" ELSE "exited"]
  /\ status' = IF p = "child" THEN "ok" ELSE status
  /\ UNCHANGED <<i, visited, left>>

(* The walk starts at the head of the list, the cell of index NCells - 1.  *)
Release ==
  /\ pc["child"] = "release"
  /\ left' = NCells
  /\ pc' = [pc EXCEPT !["child"] = "walk"]
  /\ UNCHANGED <<i, visited, status>>

(* Each turn reads the next cell, which is always a TYPE_REF cell.         *)
Walk ==
  /\ pc["child"] = "walk"
  /\ \/ /\ left = 0
        /\ pc' = [pc EXCEPT !["child"] = "park"]
        /\ UNCHANGED <<visited, left>>
     \/ /\ left > 0
        /\ visited' = visited \cup {left - 1}
        /\ left' = left - 1
        /\ UNCHANGED pc
  /\ UNCHANGED <<i, status>>

Park ==
  /\ pc["child"] = "park"
  /\ pc' = [pc EXCEPT !["child"] = "teardown"]
  /\ UNCHANGED <<i, visited, status, left>>

Next ==
  \/ Setup \/ Reserve \/ Commit \/ Fork \/ ParentWait
  \/ Release \/ Walk \/ Park
  \/ \E p \in {"parent", "child"} : Teardown(p)

Spec == Init /\ [][Next]_avars
=============================================================================
