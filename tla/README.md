# A TLA+ verification of the MPS Failover land and fork test

This directory holds TLA+ models of two programs of the Memory Pool System: the Failover land and the fork regression test `src/code/forktest.c`. TLC model-checks them, and TLAPS proves theorems about them. The Failover's source, `failover.c`, is embedded in `src/design/doc.txt` at lines 360-740. Its behaviour is described in `spec.md`.

## The system

A *land* is a set of free address ranges. It offers insert, delete, iterate and find (first, last, largest, in zones) operations over half-open ranges `[base, limit)`.

A Failover is a land made of two child lands:

* the *primary*, in MVFF a CBS (coalescing block structure), which needs memory for its block descriptors and can fail to get it;
* the *secondary*, in MVFF a freelist, which keeps its descriptors inside the free memory and never fails that way.

Every operation except iterate starts by flushing the secondary into the primary, `LandFlush(fo->primary, fo->secondary)`. The flush moves blocks until an insert into the primary fails.

* **Inserts** go to the primary. On an allocation failure they spill to the secondary (doc.txt:448-450).
* **Deletes** try the primary, and the secondary when the primary reports FAIL. If the primary found the range but could not split the block for want of a descriptor, the *recovery path* runs (doc.txt:495-535):
  1. it deletes the whole old block from the primary;
  2. it re-inserts the left and right fragments, each into the primary or, if that fails, into the secondary.

  Several AVERs guard the recovery path.
* **insertSteal** asks only the primary and asserts the result is OK or FAIL. **deleteSteal** falls back to the secondary on FAIL.
* **Finds** ask the primary, then the secondary on a miss.

The caller (the MVFF pool) serialises every entry into the land, so each operation is one atomic step. Nothing in the Failover runs concurrently and nothing is persisted. What makes it hard is partial failure:

* the flush stops part-way;
* a child refuses an insert;
* the recovery path must put the fragments back;
* and all of this happens over long sequences of operations whose earlier steps left residue in the secondary.

The rest of `src/` is outside the Failover:

* `doc.txt` lines 1-342 are a prose design of the manual build;
* lines 343-358 are the `mpscmvff.h` header;
* `src/code/forktest.c` is a fork regression test of the MPS, modelled in its own section below.

## Modules

| Module | Models |
|---|---|
| `Range.tla` | Ranges (`range.h`) over the grains `0..N-1` of a small address space. Also the record an operation returns to its caller (`Out`), and `FindDeleteRange` (which part of a found block a find deletes). |
| `Land.tla` | The child lands, **from the Land contract** (the CBS and freelist are not in this repository). Details below the table. |
| `Failover.tla` | `failover.c`. Details below the table. |
| `AbstractLand.tla` | What any land promises its caller, over the set `free` of free grains alone. Details below the table. |
| `MCFailover.tla` | `N = 4` for TLC. |
| `FailoverProofs.tla` | The TLAPS proofs of the invariants. |
| `FailoverRefinement.tla` | The TLAPS proof that `Failover` implements `AbstractLand`. |
| `FailoverFind.tla` | The TLAPS proof of `FindNoFalseMiss`. |

**Land.tla.** A child is a coalesced set of grains; its blocks are the maximal runs. Each operation is the set of outcomes it may have, as records `[res, land, ret]`.

* A CBS (`mayFail`) may return ALLOC for an insert that needs a new descriptor or a delete that splits a block.
* The steal variants take a grain for the child's block pool instead of failing.
* `LandFlush` moves the source's blocks in address order. It stops at the first block that overlaps the destination (it must) or that needs a descriptor (it may); which one is a nondeterministic cut.

**Failover.tla.** The state variables are:

* `primary` and `secondary`: the grains free in each child;
* `sig`: `fo->sig`;
* `halted`: an AVER has failed;
* `last`: what the last operation returned.

There is one action per method of the class (`DEFINE_CLASS`, doc.txt:680-698): `FailoverInit`, `FailoverFinish`, `Insert`, `InsertSteal`, `Delete`, `DeleteSteal` and `Find` (first/last/largest).

Each action contains the flush it starts with and every child call it makes, with every outcome the child may have. The recovery path is the operator `DeleteRecovery`, built from `Reinsert` for each fragment. A failing AVER sets `halted`. `size` and `iterate` change nothing and are not steps: the Failover's size is the union `Free`.

**AbstractLand.tla.** The promises are:

* an insert of non-free grains frees them and returns a range holding them;
* a successful delete removes exactly its range from a free block it returns;
* a find returns a free block large enough and deletes the part its mode names;
* failures change nothing;
* the steal variants may lose one grain.

## Correspondence with the code

* `Insert(r)`: flush (446); `LandInsert` into the primary (448); unless the result is OK or FAIL, `LandInsert` into the secondary (449-450). The returned result and range are those of the last call.
* `Delete(r)`: flush (488); `LandDelete` from the primary (490). Then one of three branches:
  * FAIL: the secondary's answer is returned as it is (492-494), with no further AVER.
  * OK: `AVER_CRITICAL(RangesNest(old, range))` and old is returned (536-539).
  * Otherwise: `AVER(ResIsAllocFailure)` (502), then `DeleteRecovery`. It deletes `oldRange` itself (508), returns a failure as it is (509-510), checks `AVER(RangesEqual)` (512), and re-inserts `left` and `right` (513-534) with `AVER(res != ResFAIL)` and `AVER(res == ResOK)`.
* `InsertSteal`: flush; the primary only; `AVER(res == ResOK || res == ResFAIL)` (471).
* `DeleteSteal`: flush; the primary, then the secondary on FAIL; the same AVER (561).
* `Find(kind, size, fd)`: flush; the primary's find, then the secondary's (`||`, 588-589, 604-605, 620-621).
* `Init` is the state before `failoverInit`: the two children exist and are empty, and the signature is not set. `FailoverInit` sets it (412). `FailoverFinish` clears it (423) and leaves the children alone.
* `Ready` is `FailoverCheck` (the signature is valid), together with not having aborted.

Data is abstracted. Addresses are grains, alignment is one grain, and result codes are OK, FAIL and ALLOC, where ALLOC stands for every code for which `ResIsAllocFailure` holds. The constant `Disciplined` says the client frees only memory that is allocated, which is MVFF's discipline (spec.md section 3).

## Runs

| Run | Config | Expect | What it shows |
|---|---|---|---|
| `failover_safety` | `MCFailover.cfg` | pass | With a disciplined client, the five properties below hold in every state reachable in a 4-grain space. That space has 6002 distinct states, with every action and every branch of `Delete` (FAIL, OK, recovery) taken. |
| `failover_double_free` | `MCFailoverDoubleFree.cfg` | violation | If the client frees a range twice, `failoverInsert` may accept it (see findings). |

The properties of `failover_safety`:

* **TypeOK**: the type invariant.
* **NoAverFailure**: no AVER of `failover.c` fails. For this, the recovery path must get both fragments accepted by some child (doc.txt:520-522), after any earlier sequence of partial flushes and spills. `AVER(RangesEqual)` (512) and the steal AVERs (471) hold by the child contract's definitions of delete and insertSteal, so this property does not exercise them.
* **ChildrenDisjoint**: no grain is free in both children. This concerns the spill of an insert, the flush, and the fragments re-inserted into the secondary.
* **FindNoFalseMiss** (an action property): a find misses only if neither child had a fitting block before it. A flush that lost a block, or a find that did not fall back to the secondary, would break it. It is stated per child. A partial flush can leave one free range split across the children, for example grain 3 in the primary and grains 0 and 2 in the secondary. Then a find of size 2 fails although the union holds `[2,4)`. Sections 4.7 and 9 of spec.md accept this, and neither this property nor `ImplementsAbstractLand`, whose finds may FAIL, excludes it.
* **ImplementsAbstractLand**: `Failover` refines `AbstractLand` under the mapping `free <- primary \cup secondary`. Every operation, including the recovery path, changes the union of the children as the Land contract says, and returns what it promises.

Each property is checked against a mutant of the code that TLC must catch (see `PROJECT.json`):

* the HIGH part of a found block taken one grain too high;
* the recovery deleting `range` instead of `oldRange`;
* a fragment inserted into both children;
* a find that never asks the secondary;
* the right fragment starting one grain late.

**Bounds.** `N = 4` grains allow:

* two separate blocks, and a block with a free grain on each side of a deleted one, so the recovery path runs with both fragments non-empty;
* a flush that stops between two secondary blocks;
* finds of every size and mode.

The primary may fail to allocate at every insert and split, so every spill and recovery interleaving over up to four grains is explored. `N = 5` takes more than six minutes with the refinement check. The theorems below cover every `N`.

**Fairness.** None is assumed, and no liveness property is stated. The Failover has no internal scheduling, waiting or retry: every operation finishes in one step of the caller, so there is nothing that must eventually happen. Deadlock is checked; init and finish keep every state live.

## Findings

1. **Double free goes undetected** (`failover_double_free`, spec gap). `failoverInsert` asks only the primary (doc.txt:448). TLC finds this three-step trace:
   1. An insert spills `[0,1)` to the secondary because the primary cannot allocate.
   2. The client frees `[0,1)` again.
   3. The flush stops before that block, the primary accepts the range with OK, and grain 0 is now free in both children.

   The Land contract says an insert of a free range fails. The Failover relies on the caller never doing this (spec.md section 3), and nothing checks it.

**Scenario S5 is not a finding.** In spec.md section 8, S5 has `P={[0,10),[100,130)}` and `S={[200,215)}`, and expects `find_largest(15)` to return `[200,215)`. The code returns `[100,130)` (doc.txt:620-621). That block is the primary's largest, and it is also the largest block of the whole free set. So the scenario's expected answer contradicts "largest" itself, not the primary-first order of section 4.7. It is an error in the scenario, and no run is kept for it.

## Proofs

`FailoverProofs.tla` proves, for every `N \in Nat \ {0}` (`NAssumption` in `Range.tla`), three theorems:

* `TypeCorrect`: `Spec => []TypeOK`.
* `ChildrenDisjointHolds`: `ASSUME Disciplined PROVE Spec => []ChildrenDisjoint`.
* `NoAverFailureHolds`: `ASSUME Disciplined PROVE Spec => []NoAverFailure`.

Neither safety property is inductive alone. The inductive invariant is `IInv == TypeOK /\ ChildrenDisjoint /\ NoAverFailure`:

* the type is needed to read the children as sets of grains;
* `~halted` is needed because the operations are enabled only while the land is ready;
* disjointness is what makes the recovery path's AVERs hold.

The argument for the hard step, `Delete` on an allocation failure:

* the primary's block `old` holds `range`;
* a block of a land contains no other block (`BlockUnique`), so deleting the whole of `old` returns OK with `old` itself (`DeleteWholeBlock`);
* the fragments lie inside `old` and apart from each other (`FragmentsInBlock`);
* `old` lay in the primary, which is disjoint from the secondary, so neither child holds a fragment grain;
* so the primary cannot refuse a fragment as an overlap, and the secondary, which never fails to allocate, accepts it (`ReinsertSafe`);
* so every AVER holds and the children stay disjoint (`DeleteRecoverySafe`).

The other actions rest on these facts:

* what each child operation can do to its grains (`Land*Effect`);
* the flush neither losing nor inventing grains (`LandFlushEffect`);
* the client's discipline: an inserted range is free in neither child.

`FailoverRefinement.tla` proves the refinement:

* `ImplementsAbstractLandHolds`: `ASSUME Disciplined PROVE Spec => ImplementsAbstractLand`.

The proof follows the standard layout for a refinement:

* `Spec => []IInv`;
* `Init => AL!Init` (`RefineInit`);
* `IInv /\ [Next]_vars => [AL!Next]_<<Free, last>>` (`RefineNext`).

`RefineNext` has one lemma per operation: `RefineInsert`, `RefineInsertSteal`, `RefineDelete`, `RefineDeleteSteal` and `RefineFind`. Init and finish touch only the signature, so they are stutters of the abstract land. Each lemma follows the action through the flush (`FlushSafe`: the union survives and the children stay disjoint) and each outcome of each child call. The children's outcomes are stated exactly, one lemma per child operation (`LandInsertOutcome`, `LandDeleteStealOutcome`, `LandFindOutcome`, ...).

The hard case is again the delete recovery path. `DeleteRecoverySafe` shows that it never fails an AVER. `DeleteRecoveryExact` shows that it leaves the union less exactly `range`: the fragments re-inserted (`ReinsertExact`) are the old block less `range` (`FragmentsPartition`).

`RangeInstance` restates the instantiated operators (`AL!Span`, `AL!Out`, ...) as the model's own. The assumption `Disciplined` is needed: an undisciplined insert of a free range may return OK (the `failover_double_free` violation), and the abstract land has no such step.

`FailoverFind.tla` proves the action property for every client, disciplined or not:

* `FindNoFalseMissHolds`: `Spec => FindNoFalseMiss`.

A find fails only after both children missed. The argument has four parts:

* A child misses only when no block fits, because the lowest, the highest and the largest fitting block always exist (`PicksExist`). This uses the least element of a non-empty set of naturals (`NatMin`, from `WFMin` of the library).
* The flush cuts the secondary only at the base of one of its blocks or after all of them. So each block of the secondary moves whole or stays whole, and the primary only gains grains (`FlushKeepsFits`).
* A run of grains lies in a block of the child that holds it (`BlockAround`).
* So a block that fitted before the flush still fits in one of the children.

The non-find operations name themselves in `last` (`OpNames`), and only `TypeOK` is needed (`TypeCorrect`).

What stays with TLC:

* the two violations;
* any liveness (there is none to state);
* the prover handles neither ENABLED nor induction over data.

`Land.tla`, `Failover.tla` and `AbstractLand.tla` declare no recursive operator, so the proofs reach only SMT-friendly definitions.

## Not modelled

* **findInZones** (doc.txt:625-647): it aborts in checking builds (`AVER_CRITICAL(FALSE)`, "completely untested"), and the children's zone sets are not in the model. It is planned, along with the fact that it overwrites the primary's error with the secondary's answer.
* **describe and iterate**: describe only writes text. Iterate visits both children and changes nothing.
* **The CBS and the freelist themselves**: they are not in this repository. `Land.tla` follows their contract.
* **The MPS collector behind forktest.c**: it is not in this repository. It is modelled only as the format callbacks and the read barrier see it (see *The fork test*).
* **The exit codes and messages of forktest.c**: `die`, `cdie` and `Insist` are modelled as the process reaching a failed or aborted state.
* **doc.txt lines 1-342**: the documentation build's prose design, which has no program state.

# The fork test (`src/code/forktest.c`)

## What the program does

`main` runs in these steps:

1. It creates a VM arena and parks it (line 117). It registers its thread with an ambiguous stack root (119-121), creates a format with the test's callbacks, an AMC (copying) pool and an allocation point.
2. It builds a linked list with a `mps_reserve`/`mps_commit` loop (143-155). The loop retries if `mps_commit` fails because a collection flipped between the reserve and the commit.
3. It forks (157).
   * The **child** releases the arena (161), so that an incremental collection may start and leave a read barrier. It walks the list with `Insist(obj->type == TYPE_REF)` (164-166), and parks (168).
   * The **parent** waits for the child and checks its exit status (172-174). Then it prints "Conclusion: Failed to find any defects".
4. Both processes destroy everything they created (178-183).

The collector is the MPS, which is not in this repository. It acts on the test's objects through the format callbacks:

* `obj_scan` fixes references with `MPS_FIX12` and writes them back;
* `obj_skip` steps over objects and pads by `ALIGN_UP` of their size;
* `obj_fwd` and `obj_isfwd` build and read forwarding objects;
* `obj_pad` writes pads.

## Modules

| Module | Models |
|---|---|
| `ForkTest.tla` | `main` as two processes, `parent` and `child`, with the collector as an environment. |
| `ObjFormat.tla` | `obj_scan`'s loop over one segment at the byte level, with `obj_skip` and `obj_pad`. |
| `SizeArith.tla` | `size_t` at width `W` and the `ALIGN_UP` macro, computed with wrap-around and bit masks (`Bitwise`). |
| `MCForkTest.tla`, `MCObjFormat.tla`, `MCAlignUp.tla` | Instances for TLC. `MCAlignUp` is a one-step machine that evaluates `ALIGN_UP` on every input. |
| `AbstractForkTest.tla` | What the test does when the collector is invisible to it: every commit links, and the walk reads indices `NCells - 1` down to 0. |
| `ForkTestProofs.tla` | The TLAPS proofs of `ForkTest`'s invariants. |
| `ForkTestRefinement.tla` | The TLAPS proof that `ForkTest` implements `AbstractForkTest`. |

**ForkTest state.**

* `pc`: each process's place in `main` (`Loc`). The child is at `"none"` before the fork.
* `mem`, `inUse`: the cells at each address, as records `[type, ref, id]`. `id` is a ghost, the loop index that made the cell.
* `first`, `obj`, `i`: the variables of `main`.
* `parked`: the arena is parked. It is `TRUE` from the start, since the arena holds nothing before line 117.
* `trapped`: a flip came between a reserve and its commit.
* `tracing`, `white`, `grey`, `gcs`: the collection in progress, its condemned and its pinned-but-unscanned addresses, and the number of collections so far.
* `visited`, `status`: the ids the child's walk read, and whether its `Insist` failed.

**ForkTest actions.** Each of these is a step of `main`. Each `die`/`cdie` is a disjunct that goes to `"failed"`.

* `Setup`: lines 108-141.
* `Reserve`: lines 144-151, the reserve and the initialisation of the new cell.
* `Commit`: line 152 and the linking on lines 153-154. A trapped commit goes back to `Reserve`.
* `Fork`, `ParentWait`, `Release`, `Walk` (one cell per step, with the `Insist`), `Park`, and `Teardown(p)`.

The collector has three actions:

* `Flip`: possible only when the arena is not parked, up to `MaxCollections` times. It pins the cells that the ambiguous stack root references (`first` and `obj`) as grey and condemns the other cells in use as white. The flip is the MPS's, which is not in this repository. The test's part in it is lines 110-121: a pause time of 0, so that the incremental collection leaves a read barrier, and the thread's stack registered as an ambiguous root.
* `Scan(a)`: `obj_scan` of a grey cell, with a fix that always succeeds. The early return on a failed fix (lines 84-86) is modelled in `ObjFormat`. `MPS_FIX` of a white referent either follows `obj_isfwd`, or copies the referent to a free address and forwards the old copy with `obj_fwd`. The fixed reference is written back (line 87).
* `Reclaim`: frees the white addresses once nothing is grey.

The read barrier is the guard of `Walk`: the child does not read a grey cell.

**Fairness.** The spec has weak fairness on `ParentStep`, `ChildStep` and `CollectorWork`, and none on `Flip`.

* Each process runs until it exits.
* The collector's work after a flip is done inside the child's own calls: the barrier's fault handler, and `mps_arena_park`, which finishes the collection.
* A collection need not start at all.

Deadlock is not checked, because the test terminates.

## Runs

| Run | Config | Expect | What it shows |
|---|---|---|---|
| `forktest` | `MCForkTest.cfg` | pass | See below (482,991 distinct states). |
| `objformat_scan` | `MCObjFormat.cfg` | pass | For each of the 115 layouts of a 64-byte segment into cells and pads of up to 48 bytes, `obj_scan` steps only onto object starts (`ScanParsesLayout`). When it returns OK, it has fixed exactly the `TYPE_REF` cells (`ScanFixesAllRefs`); a failed fix returns at once. |
| `align_up` | `MCAlignUp.cfg` | pass | `ALIGN_UP` rounds every 8-bit size up to alignments 1 through 16, and wraps to 0 past the top of `size_t` (`AlignUpCorrect`). |

The `forktest` run has three cells, six addresses and up to three collections. Its properties:

* **WalkSeesOnlyRefs**: the child's `Insist` never fails. For this, every cell it reads has been fixed, across copies and forwarding.
* **ConclusionSound**: the parent reports success only after the child read every cell the build linked.
* **CommitNeverFails**: the retry of the reserve/commit loop is never taken, because of the park at line 117.
* **ParentTerminates** (liveness): the parent always finishes.
* **ImplementsAbstractForkTest**: with the collector's steps hidden, the test behaves as `AbstractForkTest` (see below).
* **TypeOK**.

**The abstract fork test.** `AbstractForkTest` has the variables `pc`, `i`, `visited` and `status` of `ForkTest`, and `left`, the number of cells the walk has still to read. It has no heap, no collector, no commit retry and no failing `Insist`. `Commit` always increments `i`. `Release` sets `left` to `NCells`. Each turn of `Walk` adds `left - 1` to `visited` and decrements `left`, and the walk parks when `left = 0`. The refinement mapping is `WalkLeft`: during the walk, `obj`'s index plus one, or 0 when `obj` is `NULL`; otherwise 0. `Flip`, `Scan` and `Reclaim` map to stutters. So the refinement says that the moving collector never changes which cell the walk reads next.

**Bounds.** Six addresses are twice the cells. This leaves room for every cell to be copied once in a collection, and three collections let cells move repeatedly. A fourth cell and eight addresses take more than ten minutes. The `obj_isfwd` branch of the fix never fires: each cell of a singly linked list has one referrer, so a referent is fixed at most once per collection. The code has that branch for other graphs.

**Mutants** (each caught by TLC):

* `Setup` without the park (`CommitNeverFails`);
* `Commit` that never stops the loop (`TypeOK`);
* `Commit` that does not link the cell (`ConclusionSound`, `ImplementsAbstractForkTest`);
* `Scan` without the write-back of line 87 (`WalkSeesOnlyRefs`);
* `Walk` that restarts at `first` (`ParentTerminates`);
* `obj_skip` that ignores the pad size (`ScanParsesLayout`);
* `obj_scan` that returns OK on a failed fix (`ScanFixesAllRefs`);
* `ALIGN_UP` without the `- 1` (`AlignUpCorrect`).

## Proofs

`ForkTestProofs.tla` proves five theorems from `ForkTestAssumption` (`NCells > 0`, `NULL` not an address, a finite set of addresses, any number of collections):

* `IInvHolds`: `Spec => []IInv`.
* `TypeCorrect`: `Spec => []TypeOK`.
* `WalkSeesOnlyRefsHolds`: `Spec => []WalkSeesOnlyRefs`.
* `CommitNeverFailsHolds`: `Spec => []CommitNeverFails`.
* `ConclusionSoundHolds`: `Spec => []ConclusionSound`.

Neither property is inductive alone. The inductive invariant is `IInv == TypeOK /\ PcInv /\ HeapInv`.

`PcInv` is about control:

* the loop counter is 0 at setup and below `NCells` in the loop;
* a pending commit has a cell;
* `BuildParked`: while the parent builds, there is no child and the arena is parked;
* `CommitNeverFails`;
* `WalkSeesOnlyRefs`.

`HeapInv` requires that `first` and `obj` are `NULL` or a live cell (`Live`), together with a tricolour invariant of the heap (`Tricolour`):

* a cell in use and not condemned is a `TYPE_REF` cell (`UncondemnedAreRefs`);
* its reference is `NULL` or a cell in use (`RefsAllocated`);
* a black cell, neither white nor grey, refers to no white cell (`BlackRefsSurvive`);
* a condemned forwarding cell points to a cell that is not white (`ForwardsSurvive`);
* white and grey are disjoint, and nothing is white outside a collection.

`BuildParked` is needed for two reasons. `Flip` is disabled while the parent builds, which is why no commit is ever trapped. And the child's steps, which move the shared `obj`, happen only after the build.

The argument runs as follows. The walk reads only cells that are not grey (the barrier). A pinned cell is never white. A black cell's referent is not white, so it is a `TYPE_REF` cell. The hard step is `Scan`: the copy gets the old cell's contents, the old copy becomes a forward to it, and the written-back reference is the copy. So the scanned cell turns black without referring to a white cell. `Reclaim` frees only white cells, to which nothing live refers.

`ConclusionSound` needs more than `IInv`. The inductive invariant is `LInv == IInv /\ IdChain /\ WalkProgress`, and TLC checked it on every state of the `forktest` instance before it was proved. Its proof uses no reachability along the list and no induction over data. It rests on the loop index that the model keeps as a ghost field `id` of each cell: the value of `i` when the cell was reserved.

* `IdChain`: a live `TYPE_REF` cell with index `k > 0` refers to an allocated cell with index `k - 1`, and the cell with index 0 refers to `NULL`. The cell just reserved and not yet linked (the parent at its commit) is exempt. A condemned forwarding cell points to a cell with its own index.
* `WalkProgress`: `first` is the cell with index `i - 1`, or `NULL` when `i = 0`. During the walk, `visited` is the set of indices above `obj`'s index. It is every index once the child has parked. Status `ok` implies the child exited, and tracing implies the build is over.

Each action has its own lemma (`SetupProgress`, ..., `ScanProgress`, `ReclaimProgress`). The difficult one is `Scan`. Every allocated cell keeps its index. A copy takes the index of the cell it copies. A fixed reference points either to the copy or to the old cell's forward target, both with the old cell's index. So the chain survives the collection, and one turn of the walk adds exactly its cell's index to `visited`. `Reclaim` frees only white cells. By `BlackRefsSurvive`, no surviving chained cell refers to one.

`ForkTestRefinement.tla` proves `ImplementsAbstractForkTestHolds`: `Spec => ImplementsAbstractForkTest`, from the same assumption. It follows the usual steps:

* `RefineInit`: `Init => AF!Init`;
* `RefineNext`: under `TypeOK`, `PcInv`, `HeapInv` and `WalkProgress` in both states, every step of `Next` is an `AF!Next` step or leaves the mapped variables unchanged. There is one case per action;
* the theorem combines these with `Spec => []LInv`.

The key fact is that `WalkLeft` is determined by `visited`. `WalkProgress` says that during the walk `visited` is the interval `obj.id + 1 .. NCells - 1`, that is, `WalkLeft .. NCells - 1` (`WalkInterval`, and `WalkIntervalNext` in the next state). Two intervals ending at `NCells - 1` with starts in `0 .. NCells` are equal only if their starts are equal (`IntervalStart`). So:

* a collector step leaves `pc` and `visited` alone, and hence `WalkLeft` (`LeftStable`), even though it moves `obj` to a copy;
* a walk turn adds `obj.id` to `visited`, so `WalkLeft` drops by one. `HeapInv`'s `Live(obj)` rules out the `Insist`'s abort branch;
* at `Release`, `first` has index `NCells - 1` (`WalkProgress`), so `WalkLeft` becomes `NCells`;
* while the parent builds, the child is at `"none"` (`BuildParked`) and `WalkLeft` is 0. `CommitNeverFails` rules out the retry, so each commit is an abstract `Commit`.

What stays with TLC:

* the liveness property `ParentTerminates`;
* `ObjFormat` (`ScanParsesLayout`, `ScanFixesAllRefs`) and `SizeArith` (`AlignUpCorrect`). `ObjFormat` computes with `FoldLeft` of the community modules, which is a RECURSIVE operator. `SizeArith` uses `Bitwise`. tlapm loses its SMT backend in a module that reaches either, and proving what a recursive definition computes for every input would need induction over data, which the installed provers cannot instantiate.
