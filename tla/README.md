# TLA+ models of the catalog dependency engine

This directory models the object-dependency engine of
`src/src/backend/catalog/dependency.c` in TLA+ and checks the models with TLC.
The engine records which catalog objects depend on which, and drives DROP
... RESTRICT/CASCADE.

## The system

| Part | Code | What it does |
|---|---|---|
| EdgeStore | pg_depend scans in `recursiveDeletion`, `deleteDependentObjects`, `findAutoDeletableObjects` | Rows `(depender, referenced, kind)` with kind NORMAL, AUTO, INTERNAL or PIN. A whole object (subId 0) matches the rows of its columns. |
| AddressSet | `new_object_addresses`, `add_*object_address`, `object_address_present`, `object_address_comparator`, `eliminate_duplicate_dependencies` | An array of object addresses with presence test (a whole entry covers its parts) and sort/dedup. |
| DropEngine | `performDeletion`, `performDeletionWithList`, `performMultipleDeletions`, `deleteWhatDependsOn`, `recursiveDeletion`, `deleteDependentObjects`, `findAutoDeletableObjects` | The pre-scan computes `oktodelete`, the AUTO/INTERNAL closure of the targets. Then the mutually recursive walk runs: step 1 deletes the object's own rows, or redirects to an INTERNAL owner; step 2 recurses into dependents; step 3 calls `doDeletion`. |
| ClassRegistry | `doDeletion`, `getObjectClass` | Maps a catalog id to an object class and dispatches the destructor. Dropping a table also destroys its columns. A compression object only gets a NOTICE; a role, database or tablespace, and an unknown class id, raise "unrecognized object class". |
| ExprScanner | `recordDependencyOnExpr`, `recordDependencyOnSingleRelExpr`, `find_expr_references_walker` | Collects the addresses an expression references, dedups them and records the rows. |
| Descriptor | `getObjectDescription`, `getRelationDescription` | Builds message text. It is called at the entry of `recursiveDeletion` (line 569), so its class switch and its catalog lookups can raise errors. |

How the parts interact:

- The engine reads and deletes pg_depend rows through scans.
- Rows deleted in the running command stay visible to those SnapshotNow scans until `CommandCounterIncrement` (lines 696 and 790).
- A RESTRICT violation only clears `ok`. The walk goes on, and the error is raised at the entry point. Any error aborts the transaction, which undoes every drop already done.

## Modules

- **Depend.tla** is the shared data model.
  - An address is `[obj, sub]`.
  - `Edges` is the set of possible pg_depend rows; `PinDep` is the zeroed depender of a PIN row.
  - It also defines the subsumption rules of the scans (`OutMatch`, `InMatch`), `object_address_present` (`Present`), the caller test of line 650 (`CallerMatches`), and what a destructor destroys (`DestroyedBy`).
- **DropEngine.tla** is the engine.
  - The C recursion is an explicit `stack` of frames. `RD` is recursiveDeletion, `DD` is deleteDependentObjects, and `TOP` is the entry point.
  - A frame holds `obj`, `caller`, `seen` (the rows its scan already returned), `owner` (the `owningObject`/`amOwned` pair) and `ok`.
  - A scan step may return any matching, not yet returned row of `edges \cup dead`, which models heap order.
  - `dead` holds the rows deleted since the last CommandCounterIncrement, and every CCI in the code empties it.
  - One action exists per branch of the code: each case of the two switches, the owner redirection, step 3, the entry points and the two loops of performMultipleDeletions.
  - `ereport(ERROR)` is `Fail`: it ends the command with `pc = "failed"`, and `graph0` keeps the state that the abort restores.
  - `FindAutoDeletable` is a RECURSIVE operator over the scan. `okd` holds its result, which is `oktodelete` or `implicit`.
- **DropOutcome.tla** is the abstract promise of `performDeletion`, as one atomic step.
  - The doomed set is the closure of the target over dependents and over the INTERNAL owners of doomed objects other than the target.
  - The command aborts iff the closure is pinned, the target is INTERNAL to another object, or (RESTRICT) the closure leaves the AUTO/INTERNAL closure.
  - `Break` allows an internal error (an abort that changes nothing).
  - MCDropEngine maps the engine onto this spec with `INSTANCE ... WITH`: `objects` is `live` once the command is done, and `Addrs` before or on abort.
  - `ClassIdOf` gives each object its catalog id. `RDUnrecognizedClass` is the error of `getObjectDescription` at the entry of recursiveDeletion; `At` lets no other RD step run on such a frame. In step 3, `DropObject` destroys only for a class with a destructor, and `RDDropUnhandledClass` is the default of doDeletion's switch.
- **ClassRegistry.tla** is `getObjectClass` (`ObjectClassOf`, `GetObjectClass`) and the switch of `doDeletion` (`DoDeletion`: destroy, notice or error). The catalog ids come from the catalog headers, which are not in this tree; only their being distinct matters. ExprScanner takes its class ids from here.
- **AddressSet.tla** is ObjectAddresses.
  - `refs` is the array. Appends are `AddExact`; `Dedup` is qsort with `Comparator` followed by a fold of `DedupStep`.
  - `(unsigned int)` comparison is `UIntLess`. TLC's integers cannot hold 2^32, so this compares the signs first.
- **ExprScanner.tla** is `find_expr_references_walker`, as a RECURSIVE operator over a tree.
  - A tree is two functions: `Node` (node id to record) and `Rte` (range-table-entry id to record). The walker's context is a record of `rtables` (innermost first), `addrs` and `err`.
  - `Walk` handles Var and Const. `JoinAlias` is the JOIN branch, which trims `rtables` to the Var's level and restores it. `WalkQuery` pushes and pops a Query's range table. `WalkExpr` covers every node kind that only names fixed objects (FuncExpr, OpExpr, Aggref, RelabelType, …) and then visits its arguments.
  - An `elog(ERROR)` sets `err`, and the rest of the walk does nothing.
  - `Meaning` is a reference written in a different way: the scope is a parameter, and nothing is mutated and restored.
- **ExprDeps.tla** is `recordDependencyOnExpr` and `recordDependencyOnSingleRelExpr`.
  - One `Record` step is one CREATE statement: the walk, `Dedup` of AddressSet (instantiated), the split into self and other rows, and the recording.
  - A walk that errors aborts the statement and records nothing.
- **MCExprDrop.tla** composes ExprDeps and DropEngine over one pg_depend. An address `(cls, oid, sub)` becomes the engine's `[obj |-> <<cls, oid>>, sub]`.
  - CREATE steps happen before the DROP starts. Their callers' relation locks serialise them against a DROP of the same table.
  - Then `D!Next` runs the engine.
- **MCConcurrentDrop.tla** runs a CREATE session next to a DROP TABLE t2 CASCADE, on the statements of MCExprDrop.
  - `CreateBegin` is the walk and the insertion of the CREATE's rows (`Record`). The rows go into `inflight` and stay invisible to the DROP's scans. `CreateCommit` makes them visible.
  - Locks are modelled from the spec and the parser's behaviour, because no lock is taken in dependency.c. The parser takes AccessShareLock on every relation of a range table (`ParserLocks`). DROP TABLE holds AccessExclusiveLock from its first step to its end (`DropHoldsLock`). A CREATE and the DROP wait for each other only when the CREATE's range tables hold t2 (`Conflicts`).
  - The walk's existence lookups use `Existing` as it was before the DROP. That is true until the DROP commits, and a CREATE may start only before then.
- **MCDropEngine.tla**, **MCAddressSet.tla** and **MCExprDeps.tla** instantiate the modules for TLC.
  - The catalogs have three objects ta, tb, tc as model values, optionally with a column ta.1.
  - Their classes are `MCRelationsOnly`, `MCMixedClasses` (tb a compression object, tc a role) or `MCDamagedClasses` (tc of class id 0, which no catalog has).
  - Every pg_depend content of up to `MaxRows` rows between distinct objects is a start state (`UpTo`). A consistent graph has zeroed PIN dependers and at most one INTERNAL row per depender.

## Runs

| Run | Config | Expect | What it shows |
|---|---|---|---|
| drop_single | MCDropSingle.cfg | pass | DROP ta, RESTRICT/CASCADE, over all consistent graphs of ≤4 rows, with tb a compression object and tc a role: no dangling row, always terminates. doDeletion's three branches all run. |
| drop_multi | MCDropMulti.cfg | pass | `performMultipleDeletions(ta, tb)` (≤3 rows). Also checks `DependentsDroppedFirst`: a destructor runs only once every object with a row on what it destroys is gone, or is still being deleted further down the recursion (a cycle). This is the order the comment of recursiveDeletion asks for ("we must delete B before deleting C"). |
| drop_corrupt | MCDropCorrupt.cfg | pass | A damaged pg_depend: several INTERNAL owners, PIN rows with a depender, and an object of unknown class. Runs DROP TABLE ta, DROP COLUMN ta.1 and DROP ta, tb. The elog paths fire, and the walk still ends cleanly. recursiveDeletion is never entered on an object already dropped (`RecursesIntoLiveObjects`), so the description lookup at its entry cannot fail. It also checks `DependentsDroppedFirst`. The stack never holds more than 3 frames per row plus 3 (`RecursionBoundedByRows`), below the cap of 13. Owner redirection adds a frame without consuming a row, so 2 per row is not enough. |
| drop_refines | MCDropRefines.cfg | pass | The engine implements DropOutcome for every scan order (≤3 rows). |
| expr_deps | MCExprDeps.cfg | pass | Fixtures: a view over `t1 JOIN t2`, with sublinks that use outer join columns, a function in FROM, `'t'::regclass` constants (existing and dangling), system columns, and malformed Vars and SubPlans; also CHECK constraints with self kind AUTO and NORMAL. The walker agrees with `Meaning`, and every mentioned object is covered by a row of the right kind. |
| expr_drop | MCExprDrop.cfg | pass | Any subset of six CREATEs, then DROP TABLE t1 (RESTRICT, CASCADE) or DROP COLUMN t1.b. A committed drop takes every depender whose expression uses what was dropped, and a column drop leaves every other depender. |
| address_dedup | MCAddressSet.cfg | pass | Dedup equals a set-level reference for every sequence of ≤4 appends of 5 addresses. |
| double_drop | MCDoubleDrop.cfg | violation | doDeletion is called on an already dropped object. |
| what_depends_keeps_target | MCKeepsTarget.cfg | violation | deleteWhatDependsOn drops its target. |
| multi_drops_all | MCDropsAllTargets.cfg | violation | performMultipleDeletions commits having dropped neither target. |
| dedup_law | MCDedupLaw.cfg | violation | Negative subIds break the spec's dedup law. |
| concurrent_create_drop | MCConcurrentDrop.cfg | violation | A CREATE VIEW holding only a `'t2'::regclass` reference to t2 commits a row on t2 that a concurrent DROP TABLE t2 CASCADE never sees. |

### Findings

1. **Double drop (code bug).**
   - Graph: tb NORMAL→ta, tc NORMAL→tb, tc INTERNAL→ta.
   - If DROP ta visits tb before tc, the redirection of tc to its owner ta (line 736) drops ta inside the recursion. The outermost frame then calls `doDeletion(ta)` again (line 766).
   - If tc is visited first, the drop succeeds. The outcome therefore depends on scan order.
   - A NORMAL cycle through a column (ta→tb, tb→ta.1, DROP COLUMN ta.1 CASCADE) fails the same way.
2. **deleteWhatDependsOn drops its target.** With ta NORMAL→tb and tb NORMAL→ta (the rows of TLC's trace), the cascade into tb reaches ta as tb's dependent, and nothing guards the target.
3. **performMultipleDeletions skips everything.** With ta AUTO→tb and tb AUTO→ta, the pre-scan puts both targets into `implicit`. The loop then skips both (line 328) and drops nothing.
4. **Negative subIds (spec gap).** A system-column Var records a negative subId (line 1249). After dedup, (c,o,1) and (c,o,−1) remain together, but the spec's law requires both subIds to be > 0.

5. **Unlocked regclass reference (code bug).**
   - `CREATE VIEW v13 AS SELECT 't2'::regclass FROM t1` locks only t1. Its walk checks that t2 exists (line 1314) and records v13 NORMAL→t2.
   - If it inserts the row while DROP TABLE t2 CASCADE runs, and commits after the DROP's scan of t2's dependents, the DROP never sees the row. It commits with v13→t2 in pg_depend and t2 gone.
   - The spec says concurrent drops serialise at the row level and that a successful drop leaves no edges on a deleted node. Views that read t2 in FROM take a lock on t2 and serialise, as the run also shows.

The NOTICE-only drop of a compression object is a hazard in PROJECT.json, not a finding. recursiveDeletion has already deleted the object's rows, so it survives with nothing in pg_depend. It outlives what it depends on, which breaks `DependentsDroppedFirst`: TLC finds that at once on drop_single's catalog. That property is checked only on catalogs without compression objects, because the spec leaves the outcome as an open question.

## Bounds

- **Objects and rows.** Three objects, with up to four rows (or three with a column or two targets), cover every shape used by the findings and the spec's scenarios: chains, 2-cycles, a NORMAL and an AUTO path to the same node, an owner reached from elsewhere, PIN rows, and whole versus column rows.
- **Refinement run.** The refinement run uses three rows, because evaluating the abstract closure on each step dominates the run time.
- **MaxDepth.** It is 12, or 13 in drop_corrupt. Both are above the deepest recursion these graphs reach. A blocked call would show up as a Termination failure. In drop_corrupt the cap lies above the bound of `RecursionBoundedByRows`, which is 12 frames for three rows, so the cap does not imply the property.
- **Expression fixtures.** 25 nodes and 6 range-table entries reach every branch of the walker: each Var case and each of its three errors, a Const with and without an existing OID-alias object, SubPlan, a Query with RELATION, FUNCTION and JOIN entries, a sublink at level 1, and a Var after a sublink. The expr_drop run uses six statements, so all 64 subsets of recorded rows are start points for the DROP.
- **Concurrency.** There are three CREATEs and one DROP. One view locks t2 and one never mentions it. The interleaving needs only one CREATE, inserted before the DROP's scan and committed after it.
- **AddressSet.** Four appends of five addresses cover whole/partial pairs, duplicates and negative subIds.

## Fairness

The engine runs in one backend process and never waits, so `WF_vars(Next)` is assumed. Termination is checked under it. Every config sets CHECK_DEADLOCK FALSE, because a finished command really stops.

MCConcurrentDrop checks a safety property only and has no fairness.

In MCExprDrop, weak fairness covers only the engine's steps. No client is forced to issue a CREATE. ExprDeps checks safety only.

## Mutants

Each property of a passing run is checked against a plausible slip in the code:

- the row is not deleted in step 1 (`RDSeverOutgoingKeepsRow`);
- the CommandCounterIncrement is left out (`RDDeleteDependentsNoCCI`);
- step 3 (doDeletion) runs before step 2 (`RDDeleteDependentsDropFirst`);
- PIN falls through into the AUTO case (`DDCascadeAutoTakesPin`);
- a NORMAL dependent is judged without oktodelete (`DDCascadeNormalIgnoresOkd`);
- a misplaced brace in dedup (`DedupStepAnyObject`);
- dedup keeps the whole-object entry instead of the part (`DedupStepKeepsWhole`);
- the join alias is walked without trimming `rtables` (`JoinAliasNoTrim`);
- rows are written with depender and referenced swapped (`RowsOfSwapped`);
- the scan for a whole object's dependents keeps the sub-id condition (`InMatchExact`), or a column's scan also matches whole-object rows (`InMatchWholeRows`).

## Not modelled yet

- Node kinds beyond their effect: the walker's node kinds that only add fixed addresses are one kind. Their field layout is left out.
- `recordMultipleDependencies` lives in pg_depend.c, which is not under src/. It is modelled from the spec as one row per address.
- Descriptor: only text, apart from its errors. The unknown-class error is `RDUnrecognizedClass`. The lookup errors for a dropped object cannot happen at the entry of recursiveDeletion (`RecursesIntoLiveObjects`). The error message text is left out.
- The individual destructors (outside this file). They are modelled by what they destroy.
- The description of the target at the entry points (lines 179, 235, 361). Every target in the instances is a relation, so it cannot fail.
- Two concurrent DROPs can deadlock on the pg_depend row locks (a hazard in PROJECT.json). Their row locks (FOR UPDATE on the returned rows) order them, but they are not modelled; MCConcurrentDrop covers a CREATE against a DROP.
- Array growth in AddressSet.
- The pinned arm of `MultiDelete`: it cannot occur, because the first loop has already scanned every target that reaches it.
