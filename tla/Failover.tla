------------------------------ MODULE Failover ------------------------------
(***************************************************************************)
(* The Failover land (failover.c): a land made of a primary and a          *)
(* secondary child.  Every operation is one atomic step, since the caller  *)
(* serialises all entries into a land; the steps the code takes inside    *)
(* an operation (flush, child calls, the recovery of a delete) are all    *)
(* part of that one action, each child call with every outcome it can     *)
(* have.  An AVER that fails aborts the program: it sets halted.           *)
(***************************************************************************)
EXTENDS Land

CONSTANT Disciplined   \* TRUE: the client inserts only grains that are not free

ASSUME DisciplinedAssumption == Disciplined \in BOOLEAN

VARIABLES
  primary,     \* grains free in fo->primary (the CBS)
  secondary,   \* grains free in fo->secondary (the freelist)
  sig,         \* fo->sig: "valid" between failoverInit and failoverFinish
  halted,      \* an AVER has failed
  last         \* what the last operation returned to its caller

vars == <<primary, secondary, sig, halted, last>>

\* The grains free in the Failover: the union of its children.
Free == primary \cup secondary

\* The children exist, empty, before the Failover is initialised on them.
Init ==
  /\ primary = {}
  /\ secondary = {}
  /\ sig = "invalid"
  /\ halted = FALSE
  /\ last = NoOut

Ready == sig = "valid" /\ ~halted

\* The client frees only memory that is allocated (MVFF's discipline).
ClientRange(r) == Disciplined => Span(r) \cap Free = {}

(* failoverInit: the base init succeeds, the children are recorded and the *)
(* signature set; the children keep their contents.                        *)
FailoverInit ==
  /\ sig = "invalid" /\ ~halted
  /\ sig' = "valid"
  /\ UNCHANGED <<primary, secondary, halted, last>>

(* failoverFinish: the signature is invalidated; the children untouched.   *)
FailoverFinish ==
  /\ Ready
  /\ sig' = "invalid"
  /\ UNCHANGED <<primary, secondary, halted, last>>

(***************************************************************************)
(* Every operation but iterate starts with                                 *)
(*   (void)LandFlush(fo->primary, fo->secondary)                           *)
(* which moves the secondary's blocks into the primary until an insert    *)
(* fails; Flushes is the set of its outcomes.                   *)
(***************************************************************************)
Flushes == LandFlush(primary, secondary, TRUE)

(* failoverInsert: insert into the primary; on any result but OK and FAIL  *)
(* insert into the secondary instead.                                      *)
Insert(r) ==
  /\ Ready /\ ClientRange(r)
  /\ \E f \in Flushes : \E p \in LandInsert(f.dest, r, TRUE) :
       IF p.res \in {"OK", "FAIL"}
         THEN /\ primary' = p.land /\ secondary' = f.src
              /\ last' = Out("insert", r, 0, "NONE", p.res, p.ret, NoRange)
         ELSE \E s \in LandInsert(f.src, r, FALSE) :
              /\ primary' = f.dest /\ secondary' = s.land
              /\ last' = Out("insert", r, 0, "NONE", s.res, s.ret, NoRange)
  /\ UNCHANGED <<sig, halted>>

(* failoverInsertSteal: only the primary is asked; AVER(OK or FAIL).       *)
InsertSteal(r) ==
  /\ Ready /\ ClientRange(r)
  /\ \E f \in Flushes : \E p \in LandInsertSteal(f.dest, r, TRUE) :
       /\ primary' = p.land /\ secondary' = f.src
       /\ halted' = (p.res \notin {"OK", "FAIL"})
       /\ last' = Out("insertSteal", r, 0, "NONE", p.res, p.ret, NoRange)
  /\ UNCHANGED sig

(***************************************************************************)
(* The recovery path of failoverDelete re-inserts a fragment of the old    *)
(* block: into the primary, or when that fails into the secondary, with    *)
(* AVER(res != ResFAIL) on the first and AVER(res == ResOK) on the second. *)
(* An empty fragment is skipped.  The outcomes are records [p, s, ok]:    *)
(* the two children afterwards and whether both AVERs held.                *)
(***************************************************************************)
\* Mutant: a dangling if, so the fragment goes to the secondary as well.
MutReinsertBoth(P, S, frag) ==
  IF frag.base = frag.limit THEN {[p |-> P, s |-> S, ok |-> TRUE]}
  ELSE UNION {{[p |-> IF i.res = "OK" THEN i.land ELSE P, s |-> j.land,
                ok |-> i.res # "FAIL" /\ j.res = "OK"] :
                 j \in LandInsert(S, frag, FALSE)} :
                i \in LandInsert(P, frag, TRUE)}

Reinsert(P, S, frag) ==
  IF frag.base = frag.limit THEN {[p |-> P, s |-> S, ok |-> TRUE]}
  ELSE UNION {IF i.res = "OK" THEN {[p |-> i.land, s |-> S, ok |-> TRUE]}
              ELSE {[p |-> P, s |-> j.land,
                     ok |-> i.res # "FAIL" /\ j.res = "OK"] :
                      j \in LandInsert(S, frag, FALSE)} :
                i \in LandInsert(P, frag, TRUE)}

\* Mutant: the right fragment starts one grain late.
MutRightFragment(old, r) == Rng(r.limit + 1, old.limit)

LeftFragment(old, r) == Rng(old.base, r.base)
RightFragment(old, r) == Rng(r.limit, old.limit)

(* The recovery path of failoverDelete, after the primary found r inside  *)
(* block old but could not split it: delete the whole of old from the     *)
(* primary, returning that result if it is not OK, then re-insert the     *)
(* fragments left and right of r.  The outcomes are records [p, s, res,   *)
(* ok]: the children afterwards, the result and whether the AVERs held    *)
(* (RangesEqual on the second delete; those of Reinsert).                 *)
\* Mutant: the recovery deletes range instead of oldRange from the primary.
MutDeleteRecoveryRange(P, S, old, r) ==
  UNION {IF w.res # "OK"
           THEN {[p |-> w.land, s |-> S, res |-> w.res, ok |-> TRUE]}
           ELSE UNION {{[p |-> rt.p, s |-> rt.s, res |-> "OK",
                         ok |-> w.ret = old /\ lf.ok /\ rt.ok] :
                          rt \in Reinsert(lf.p, lf.s, RightFragment(old, r))} :
                         lf \in Reinsert(w.land, S, LeftFragment(old, r))} :
           w \in LandDelete(P, r, TRUE)}

DeleteRecovery(P, S, old, r) ==
  UNION {IF w.res # "OK"
           THEN {[p |-> w.land, s |-> S, res |-> w.res, ok |-> TRUE]}
           ELSE UNION {{[p |-> rt.p, s |-> rt.s, res |-> "OK",
                         ok |-> w.ret = old /\ lf.ok /\ rt.ok] :
                          rt \in Reinsert(lf.p, lf.s, RightFragment(old, r))} :
                         lf \in Reinsert(w.land, S, LeftFragment(old, r))} :
           w \in LandDelete(P, old, TRUE)}

(* failoverDelete.  FAIL from the primary: the secondary's answer is      *)
(* returned as it is.  OK: the primary's old block.  Any other result     *)
(* (AVER: an allocation failure): the recovery path.  When the result is  *)
(* OK, AVER_CRITICAL(RangesNest(old, r)) and old is returned.             *)
Delete(r) ==
  /\ Ready
  /\ \E f \in Flushes : \E d \in LandDelete(f.dest, r, TRUE) :
       CASE d.res = "FAIL" ->
              \E s \in LandDelete(f.src, r, FALSE) :
                /\ primary' = f.dest /\ secondary' = s.land
                /\ halted' = FALSE
                /\ last' = Out("delete", r, 0, "NONE", s.res, s.ret, NoRange)
        [] d.res = "OK" ->
              /\ primary' = d.land /\ secondary' = f.src
              /\ halted' = ~RangesNest(d.ret, r)
              /\ last' = Out("delete", r, 0, "NONE", "OK", d.ret, NoRange)
        [] OTHER ->
              \E v \in DeleteRecovery(f.dest, f.src, d.ret, r) :
                /\ primary' = v.p /\ secondary' = v.s
                /\ halted' = ~(d.res = "ALLOC" /\ v.ok
                               /\ (v.res = "OK" => RangesNest(d.ret, r)))
                /\ last' = Out("delete", r, 0, "NONE", v.res,
                               IF v.res = "OK" THEN d.ret ELSE NoRange, NoRange)
  /\ UNCHANGED sig

(* failoverDeleteSteal: the primary, then on FAIL the secondary;           *)
(* AVER(OK or FAIL).                                                       *)
DeleteSteal(r) ==
  /\ Ready
  /\ \E f \in Flushes : \E p \in LandDeleteSteal(f.dest, r, TRUE) :
       IF p.res = "FAIL"
         THEN \E s \in LandDeleteSteal(f.src, r, FALSE) :
              /\ primary' = f.dest /\ secondary' = s.land
              /\ halted' = (s.res \notin {"OK", "FAIL"})
              /\ last' = Out("deleteSteal", r, 0, "NONE", s.res, s.ret, NoRange)
         ELSE /\ primary' = p.land /\ secondary' = f.src
              /\ halted' = (p.res \notin {"OK", "FAIL"})
              /\ last' = Out("deleteSteal", r, 0, "NONE", p.res, p.ret, NoRange)
  /\ UNCHANGED sig

(* failoverFindFirst, failoverFindLast, failoverFindLargest (kind): the   *)
(* primary's find || the secondary's find; the child that finds also does *)
(* the deletion fd asks for.                                               *)
FindKinds == {"findFirst", "findLast", "findLargest"}

\* Mutant: a miss in the primary is returned without asking the secondary.
MutFindPrimaryOnly(kind, size, fd) ==
  /\ Ready
  /\ \E f \in Flushes : \E p \in LandFind(f.dest, kind, size, fd) :
       /\ primary' = p.land /\ secondary' = f.src
       /\ last' = Out(kind, NoRange, size, fd,
                      IF p.found THEN "OK" ELSE "FAIL", p.ret, p.old)
  /\ UNCHANGED <<sig, halted>>

Find(kind, size, fd) ==
  /\ Ready
  /\ \E f \in Flushes : \E p \in LandFind(f.dest, kind, size, fd) :
       IF p.found
         THEN /\ primary' = p.land /\ secondary' = f.src
              /\ last' = Out(kind, NoRange, size, fd, "OK", p.ret, p.old)
         ELSE \E s \in LandFind(f.src, kind, size, fd) :
              /\ primary' = f.dest /\ secondary' = s.land
              /\ last' = Out(kind, NoRange, size, fd,
                             IF s.found THEN "OK" ELSE "FAIL", s.ret, s.old)
  /\ UNCHANGED <<sig, halted>>

(* The class's method table (DEFINE_CLASS(Land, Failover)).  Size,        *)
(* iterate and describe change nothing and are not steps.                  *)
Next ==
  \/ FailoverInit
  \/ FailoverFinish
  \/ \E r \in Ranges :
       Insert(r) \/ InsertSteal(r) \/ Delete(r) \/ DeleteSteal(r)
  \/ \E kind \in FindKinds, size \in Sizes, fd \in FindDeletes :
       Find(kind, size, fd)

Spec == Init /\ [][Next]_vars

-----------------------------------------------------------------------------
(***************************************************************************)
(* Properties.                                                             *)
(***************************************************************************)

TypeOK ==
  /\ primary \subseteq Addr
  /\ secondary \subseteq Addr
  /\ sig \in {"valid", "invalid"}
  /\ halted \in BOOLEAN
  /\ last \in OutRec

\* A step of one of the land's operations (not its init or finish).
OpStep == sig = "valid" /\ sig' = "valid"

(* No grain is free in both children.  The spill of an insert, the flush   *)
(* and the re-insertion of delete fragments into the secondary must never  *)
(* put a grain in one child while the other still holds it.               *)
ChildrenDisjoint == primary \cap secondary = {}

(* No AVER of failover.c fails: in particular the recovery path of        *)
(* failoverDelete never finds a fragment refused by the primary as an      *)
(* overlap, nor refused by the secondary at all.                           *)
NoAverFailure == ~halted

(* A find misses only if, before it, neither child had a block of the      *)
(* size asked: failoverFind* must fall back to the secondary, and the      *)
(* flush it starts with must not lose a block.                             *)
FindNoFalseMiss ==
  [][ (OpStep /\ last'.op \in FindKinds /\ last'.res = "FAIL")
      => Fits(primary, last'.size) = {} /\ Fits(secondary, last'.size) = {}
    ]_vars

(* The Failover implements the abstract land over the union of its        *)
(* children: every operation changes the free grains exactly as the Land   *)
(* contract says, whichever child served it and whatever allocation        *)
(* failures happened on the way, including the delete recovery path.       *)
AL == INSTANCE AbstractLand WITH free <- Free, last <- last
ImplementsAbstractLand == AL!Spec

(* An insert of a range that overlaps the free grains fails (the Land      *)
(* contract's "FAIL on overlap", and the rationale of failoverInsert that  *)
(* a refusal by the primary would also be one by the secondary).           *)
InsertRefusesOverlap ==
  [][ (OpStep /\ last'.op \in {"insert", "insertSteal"} /\ last'.res = "OK")
      => Span(last'.arg) \cap Free = {} ]_vars
=============================================================================
