# A verification of watts

watts is an LLVM `opt` pass that finds assertions a multithreaded program may
fail, by abstract interpretation of each thread (`worklist-ai/`, with helpers
in `utils/`).  This directory holds TLA+ models of it, TLC runs over small
instances, and proofs checked by TLAPS.  All source paths below are relative to
the repository.

## The system

`runOnModule` (worklistai.cpp) drives everything.  In words: analyse every
thread function on its own; remember the fact at every store it reaches; give
those facts to the loads of other threads that may read them; repeat until the
facts at the stores are stable.  The number of reachable `__assert_fail` calls
is the answer.

| component | state | operations | talks to |
|---|---|---|---|
| facts, `LatticeFact` | one APRON value | `leq`, `factJoin`, `assign*`, `add`, `mul`, `mod`, `icmp*`, `constrain*`, `meet*` | APRON |
| transfer functions, `BBOps` | none of its own; fills `reachStores`, `reachThreadCreate`, `rErrors` of its caller | `transfer_func`, `run_transfer_funcs`, `getFactInBB*` | facts |
| worklist engine, `analyzeFunc` | `worklist`, `analState` | pop, compare, analyse, `merge_worklist` | transfer functions |
| interference iteration, `runOnModule` | `interfs`, `allReachStores`, `newReachStores`, `threadsToProcess`, `threadEntryFacts`, `rErrors` | one thread, one iteration, `stableStores` | engine, constraints |
| permutations, `analyzeThreadInterf`, `testCurPerm` | `permCache` | one store (or none) for each load | engine, constraints |
| constraints, the Datalog rules | facts and rules in Z3 | `violatesProgOrder`, `filterMHBInterfs` | Z3, LLVM dominators |
| permutation enumerator, `CartesianProduct` | `permutation_`, the counts | the next permutation, in `analyzeThreadInterf`'s loop | permutations |
| reaching stores, `getReachingStores` | its memoizer | the stores that reach each block; `getPreviousStoresWithCreate` | permutations, constraints |
| identifiers, `z3_fp_helpers` | `value_cacheG` | `getValueBVIDSz`, `addFact2Sz`, `valueCacheToMetadata` | constraints |
| initial state, `createEnvironment`, `VarVisitor`, `getInitState` | dimensions of the facts | once, at the start | facts |
| naming database, `ValToStrDB` | four maps, metadata of the module | names and integers for values, dump, parse | `createEnvironment`, later passes |
| slicing, `-aslice`, `-impact` | metadata from other passes | filters loads | iteration |

The pass is sequential.  What makes it hard is that it must be right about
programs that are not: each result is a claim about every interleaving, and the
analysis reaches it through caches, maps that are overwritten, facts that are
popped and erased, and an order of blocks and instructions that is the order of
heap addresses.  `PROJECT.json` lists the hazards line by line.  What must be
right, component by component:

- facts: each operation describes every concrete result, and is monotone;
- engine: no fact is lost, whatever the order of blocks; what is recorded at
  sites covers every visit; it ends on functions without loops;
- iteration: stores are never lost or made smaller; the end is a fixpoint; the
  interferences are complete; the caches answer what the solver would;
- constraints: a permutation that is pruned belongs to no execution;
- enumerator: every permutation is tested, once, and the carry stays inside;
- reaching stores: the least solution of the data-flow equations;
- identifiers: two values never become one in a run that reports its result;
- the three together: each permutation is asked about in words of its own;
- names: nothing is overwritten, every map leads back, a dump is read back;
- all of it: whatever an interleaved execution does was reported.

## Modules

| module | models | over |
|---|---|---|
| `LatticeFact` | latticefact.cpp, box domain | any variables, bounded integers |
| `BBOps` | bbops.cpp, and what the instructions really do | a program as data |
| `BlockWalk` | a path through a function: run and facts side by side | `BBOps` |
| `Worklist` | `analyzeFunc` | any graph, lattice and transfer functions |
| `AnalyzedThread` | `Worklist`, then a run of the thread | any sound transfer functions |
| `Interference` | `runOnModule` with the permutations, the cache, `stableStores` | any `AnalyzeFunc`, solver answers, options |
| `Constraints` | the facts and rules given to Z3, the reaching stores as a fixpoint | a control-flow graph as data |
| `MemoryModel` | executions of that graph, with store buffers | `Constraints` |
| `AnalyzedProgram` | `Interference` with `BBOps`, `Constraints` and `getInitState` plugged in, then an interleaved execution of the program | a program as data |
| `CartesianProduct` | cartesianprod.h and the loop that tests what it gives | any rows, an int of any width |
| `ReachingStores` | the loop of `getReachingStores`, block by block, and its memoizer | any functions |
| `ValueIds` | `value_cacheG`, `addFact2Sz`, `valueCacheToMetadata` | any values, any width |
| `ThreadQueries` | the three above in the analysis of one thread: facts, then permutations, then the report | any threads |
| `ValToStrDB` | ValToStrDB.cpp, ValToStrDB.h | any values, kinds and uses |
| `ProgramQueries` | `ThreadQueries` run on a program of `Constraints`, and what the two have to agree on | the same program in both |
| `Closures` | what the transitive closures of `Constraints` are meant to be, for the proofs only: TLC would enumerate every relation between blocks | any graph |
| `ThreadQueries_proofs` | theorems about `CartesianProduct`, `ReachingStores`, `ValueIds`, `ThreadQueries`, `ProgramQueries` | every instance |
| other `*_proofs` | theorems about `AnalyzedThread`, `BBOps`, `BlockWalk`, `ValToStrDB`, `Interference`, `AnalyzedProgram`, `MemoryModel` | every instance |
| `MC*` | the programs and bounds of the runs | |

How state and actions correspond to the code:

- A `std::map` is a function whose domain is the set of keys (`Interference`,
  `ValueIds`, `ValToStrDB`), or a function with the value `Absent`
  (`Worklist`).  Maps keyed by pointers are iterated in address order; the
  addresses are a constant set of layouts (`addr`, `address`) from which
  the initial state chooses, so no property may depend on them.
- One step of `Worklist` is one turn of the loop of `analyzeFunc`: `Skip(b)`
  when the popped fact is below the old one, else `Analyze(b)`, which replaces
  the fact in `analState`, records what the transfer functions record and merges
  the outgoing facts.  `seen` is a history variable.
- One step `AnalyzeThread` of `Interference` is one turn of the inner `while` of
  `runOnModule`: filter, enumerate permutations, ask the cache or the
  solver, analyse, join, replace the stores, push the threads created.
  `NextIteration` and `Finish` are the two ends of the outer loop, `Abort` the
  assertions on the way.  Stores are one map, not one per function: the
  code flattens them wherever it looks at them.  It takes the permutations as a
  set, `PermsOf`; `ThreadQueries` takes them one by one.
- `AnalyzeFunc` of `AnalyzedProgram` is the loop of `analyzeFunc` as a function
  from the worklist, the facts of the blocks and what was recorded to what is
  recorded at the end; `Visit` is one turn.
- `Constraints` turns each group of facts and rules into an operator
  (`CreateMHB`, `JoinMHB`, `DomNotReach`, `ReadsFromMHB`, `NotReadsFrom`, ...) and
  the engine's answer into a least fixpoint.  The de Bruijn indices are
  translated as they are written, which is why `NoReoFunc1Func2` asks for an access
  whose address is the access, and `NoReoFunc2Func1` for one whose address is the
  fence.
- `TestAndIncrement` of `CartesianProduct` is one pass of the loop of
  `analyzeThreadInterf`: `testCurPerm` on the current permutation, then
  `Increment`.  `AtEnd` compares with `MaxPermutations`, the product in an int
  that wraps.  `overran` stands for the carry past the last row, where
  `IncrementAndTest` would write outside its vector.
- One step `VisitBlock` of `ReachingStores` is one turn of the `for` over the
  blocks of a function.  The code erases from `curReach` while it iterates
  over it: which of several killed stores is passed over is undefined, so
  any of them but not all may stay (`MayMiss`).  `missed` remembers the
  functions where that happened; the properties are about the others.
- `AddFact` of `ValueIds` is one `addFact2Sz`, which takes two identifiers; the
  width check stops the program ("exited").  `ValueCacheToMetadata` ends in
  "aborted" when an identifier does not fit, the assertion of
  `to_const_bitvec`.
- `ThreadQueries` runs the steps of the three in the order of the code:
  `AddFacts`, then `FindReachingStores` and `TestCurPerm`, then `Report`.
  `asked` is a history of what the solver is told and asked, as bit vectors.
  The code searches the reaching stores inside `testCurPerm` when it first
  needs them; here the search comes before the first permutation, which no
  property tells apart, since it reads nothing that permutations change.
- In `ValToStrDB` the actions are `saveAndGetID` and `saveAndGetIntID` of a
  value, the dump, and the start of a later pass with an empty database.
  `fresh` says that nothing has changed since the dump.
- The execution next to each analysis is not code of the repository: it is the
  C program's meaning, the thing the code's results are about.  Those
  definitions are marked external in `PROJECT.json`.  Integers are LLVM's, in two's
  complement, a number standing for its signed reading: sums and products wrap
  (`Wrapped`), `trunc`, `zext` and `sext` do what they do (`CastTo`), comparisons are
  signed or unsigned (`Holds`).  A run is followed as long as its numbers are in the
  range `Lo..Hi` the facts of the model have bounds in.

What the analysis does not claim about integers, and how the models say so.

- `performCast` "ignores overflow/underflow or sign extension" (bbops.cpp:653-672),
  and `performBinOpMod` reduces a sum without regard to its sign.  A fact may thus be
  wrong after an instruction that changes a number by its width.  The history
  variable `exact` becomes false when the run executes one (`Exact`), and soundness
  (`FactDescribesRun`, `RunReported`) is claimed while it is true.  Without the
  condition TLC refutes `FactDescribesRun` in one step: `r + r` with `r = 1` is -2 in
  two bits, the fact 2..2 (block `e2`); and -2 truncated to one bit is 0, the fact -2..-1
  (block `k1`).
- Unsigned comparisons are constrained as if they were signed (latticefact.cpp:959-1012,
  with a TODO), which `ConstrainICmp` models (`AsSigned`).  But `performAssignCmp`, which
  runs on the comparison before its branch is reached, has no unsigned predicate
  and stops the program with an assertion (bbops.cpp:588-592, 627-631, 639-645): only
  in a build without assertions, where `llvm_unreachable` is undefined, or for a
  comparison slicing skips, does control get to the constraint.  Slicing is not
  modelled, and the models take assertions to be compiled in.
- `Handled` says which instructions `transfer_func` does not stop at: a sum of two
  constants, a product or comparison of two registers, an unsigned comparison, an
  exclusive or of integers other than of one with itself, and the constant `true`
  as the first operand of a logical exclusive or stop it (bbops.cpp:286, 333-343, 354-372,
  390-402).  `BlockWalk` ends there (`Reject`); the programs of `AnalyzedProgram` contain
  none (`ProgramAssumption`).

Interaction: `MemoryModel`, `ProgramQueries` and `Constraints` share their
programs; `AnalyzedProgram` instantiates `Interference` with
`AnalyzeFunc` (the engine with a fixed order of blocks; `Worklist` shows that the
order does not change what is covered), `ViolatesProgOrder` and
`MustHappenBefore` (from `Constraints`).  `AskedAsModelled` and `ReachByPaths` of
`ProgramQueries` close the gap between the two views of a permutation: what the
loop asks, in bit vectors, is what `Constraints` is given as a set of pairs, and
the loop over the blocks finds the stores `Constraints` defines by paths.

## Runs

| run | question | answer |
|---|---|---|
| `worklist` | does the engine lose a fact, a site or an error? | no |
| `block_walk` | are the transfer functions sound, while no number is changed by its width, and monotone on every path? | yes |
| `block_walk_phi` | with the constant `true` in a phi as well? | no |
| `constraints` | does pruning, or `-filter-mhb`, remove what an execution does, under sc, tso or pso? | pruning, of reads the code takes into account and without stores in loops, no; the filter, no |
| `loop_store` | pruning, with a store in a loop? | yes |
| `own_store` | pruning, with a store only one way to a load passes? | yes |
| `program` | is every interleaving of six programs covered by the report? does the iteration end in a fixpoint, or for a known reason, with no interference missing? | yes |
| `queries` | is each permutation asked about once, in its own words, and are they those of `Constraints`? | yes |
| `names` | do the maps of the naming database agree over two passes? | yes |
| `late_thread` | does every thread meet its interferences? | not one found in the last iteration |
| `perm_cache` | does the cache answer what the solver would? | not for another thread |
| `overflow` | is every permutation tested when the product does not fit an int? | no |

Bounds, and why they are enough.

- `worklist`: four functions (a diamond, a counting loop, a loop that alternates
  between two facts, a branch on an interference), integers 0..2, every order
  of the blocks and several entry facts, the bottom fact among them.  The
  diamond and the loops make a block be visited several times with comparable
  and with unrelated facts, in both orders.
- `block_walk`: fifteen blocks that use every instruction of the transfer
  functions and some they reject; integers -2..4 with two-bit arithmetic, so sums
  overflow and are taken modulo; casts between one, two and three bits, of which
  some change the number and some do not; pairs of ordered facts; three interference
  maps; both load modes.
- `constraints`: seven programs with two or three threads: message passing with
  a join, a creation inside a loop, stores on the branches of a condition, a
  store on one side only, store buffering with fences, a thread that stores in a
  loop, a store to the loaded variable on one side only; each under the three
  models.  Every branch may be taken, which only adds executions.  A store
  buffer holds one entry for each store instruction.
- `loop_store` and `own_store`: the last two of these programs, under sc.
- `program`: message passing, a relay over three threads, a thread created by a
  created thread, a spin loop with a join, two atomic increments, a load no
  store can interfere with; integers 0..2; every combination of `-nocombs`,
  `-dyninit`, `-filter-mhb` and `-constraints` that `checkCommandLineArgs`
  allows; two address layouts.  Steps that no other thread notices are not
  interleaved.  The atomic increments abort the combinatorial modes, in which
  `getPreviousStoresWithCreate` does not know `atomicrmw`; the last program
  leaves a load without stores under `-filter-mhb`, which aborts `-nocombs`.
  `AbortsExpected` says that there are no other aborts.
- `queries`: every thread with interferences of eight programs, one of them with
  a loop in which two stores are killed at once.  Identifiers have four bits:
  the module of `main5` has 16 values, which just fit; that of `main6` 17,
  where the last passes the width check and is caught by the assertion at the
  end; that of `main2` more, and the width check ends the program.  The int has
  16 bits, wide enough for the products.
- `names`: an instruction, an argument, a global, a cast of it, a cast of
  that cast, an integer and a cast of it, in every order, over two passes,
  with strings or integers in the metadata.
- `overflow`: rows of sizes 3, 3 and of 4, 4, 5 with an int of six bits, in
  which 80 is 16; in an int of 32 bits 4^16 is 0.
- Deadlock is not checked: analyses end, threads return or wait in a join, and a
  database is used for as long as its pass likes.

Fairness.  The engine's loop runs while the worklist is not empty
(`while (worklist.size())`) and the iteration until it is stable (`do ... while
(!stable)`); nothing blocks them, so both are weakly fair.  In
`AnalyzedProgram` the same is written with the status instead of ENABLED.  The
loops of `ThreadQueries` (`while (updated)`, `while (!cp.AtEnd())`, the loops that add
facts) are sequential code as well, and `QueriesEnd` assumes no more than that
they run.  `LoopFreeTerminates` is stated for functions without loops.
`AnalysisEnds` holds because the model's integers are bounded: the code has no
widening (a TODO in `merge_worklist`), so a counting loop or a relay that counts
ends only at APRON's limits.

## Findings

Six places where the code does not do what its comments say; each has a run
whose counterexample shows it.

1. `testCurPerm` takes the store that reaches a load as the one it reads from its
   own memory when there is a single one, although on another way to the load
   no store comes first (`own_store`).  `main` creates a thread `t`, then on one side of
   a branch joins it and stores to `x`; after the branch it loads `x` and `y`, to which
   `t` stores twice.  On the other side of the branch the load of `x` reads the
   initial value, while `t` is between its two stores, and the load of `y` the first
   of them; the permutation is pruned, as the store to `x`, taken to be read, comes
   after the join.
2. The one-bit constant `true` is read as -1, so a phi with it misses the value 1
   and the branch on it is taken to be impossible (`block_walk_phi`).
3. `addOverwriteNotReads` forgets that an overwritten store may run again in a
   loop (`loop_store`): permutations of real executions are pruned.
4. The permutation cache is shared between threads (`perm_cache`): a feasible
   permutation of one thread is rejected because of another, and a failing
   assertion is missed.
5. A thread discovered in the last iteration is never given its interferences
   (`late_thread`): a failing assertion is missed.  Without `-dyninit` this cannot
   happen, which is the theorem `NoInterferenceMissed`.
6. The number of permutations is a product in an int (`overflow`): when it wraps,
   some permutations are left out, or all of them.

Smaller things met on the way; no run is about them.

- The fence rules bind the address of an access to the wrong variable and derive
  nothing.  `addFenceRel` and `addLwSyncRel` register the same relation.
- The rules for two variables under `-tso` and `-pso` bind both addresses to one.
- The rule for stores before a creation (worklistai.cpp:1754-1761) concludes with
  its arguments in the other order from the queries, and from its comment
  (1722-1727).
- `--no-icmp-constr` is declared with the value true and cannot turn anything off.
- With `-impact` or `-aslice` a load off the slice reads only its own memory,
  where the comment says "arbitrary values" (2166-2167).
- The metadata of an instruction named in an earlier pass stays in the module
  after a later dump, which drops only the lists (`RoundTrip` allows for it); and
  a value that is a constant expression inside a constant expression stops the
  dump with an assertion (status "unhandled" of `ValToStrDB`).
- `analyzeFunc` returns the fact of the last visit of each block, where its comment
  promises "the stabalized facts" (1503-1504): a later visit with an unrelated
  fact replaces the earlier one (1590).  Only the printed facts are affected; what is
  recorded at stores, creations and errors covers all visits (`SitesCoverSeen`).
- Nothing uses `addRelImplicationRule` (which builds `fd1 => fd1`), `joinStFacts`
  (which dereferences an end iterator), `getNotReadFrom`, `sortByCreation`,
  `getParentNotRead`, `getPreviousStore`, `HasNext`, or the value `readFromCache`
  is set to.

## Proofs

`tlapm` proves every leaf; nothing is assumed but the named assumptions of the
constants, which TLC evaluates in the runs, and the hypotheses a theorem states.
`CountFits`, `PhiReadRight`, `CreatedOnce`, `OneReturn`, `LoopFree`, `WellFormed` and
`Covered` are each false of some program, width or command line, and the text below
says what then goes wrong; where they speak of constants, TLC evaluates them on
the programs of the runs.  `ClosuresAreLeast` says what a transitive closure is;
it is the theorem `ClosuresLeast` of `MemoryModel_proofs`, and a hypothesis in
`ThreadQueries_proofs`, which cannot extend that module because the variables clash.

**The engine** (`AnalyzedThread_proofs`), for every control-flow graph, lattice,
transfer function and layout: `TypeCorrect`, `NothingIsLost`, `SitesCover`; and
`ThreadTypeCorrect`, `ThreadIsCovered`, `ReportIsSound` about a run of the thread
next to the engine.  The assumptions: `Below` is reflexive and transitive,
`Join` an upper bound, `Bot` is a fact, transfer functions return facts
(`LatticeAssumption`, `TransferAssumption`); and, for the run, `Concrete` is
monotone, empty at bottom, and each block's transfer function covers each of its
runs (`GammaAssumption`, `TransferSound`).  TLC evaluates them on the instance of
`worklist`; that the transfer functions of bbops.cpp satisfy `TransferSound`,
instruction by instruction, is the next group.

`NothingLost` is not inductive alone: when a popped fact is skipped, it has to be
below something the block was analysed with, and all the step knows is that it
is below `analState`.  `IInv` therefore adds `StateSeen`: `analState[b]` is
bottom or a fact `b` was analysed with.  With it, a skipped fact stays covered by
`seen`; an analysed one moves from the worklist to `seen`; and a merged one is
below the join.  When the worklist is empty, `Covered` says that `seen` is closed
under the transfer functions, so a run, which starts at a covered environment,
stays in covered ones (`ThreadCovered`), and `SitesCoverSeen` turns coverage into
the report (`ReportSound`).  Monotone transfer functions are not needed.

**The transfer functions** (`BBOps_proofs`, `BlockWalk_proofs`), for every function,
width, range of integers, interference map and both load modes.
`BoxesAreALattice`: the order and join of boxes are what `LatticeAssumption` asks
for.  `MonotoneAlongEveryPath` and `TypeCorrect`: of two facts one of which is
below the other, what `transfer_func` and `run_transfer_funcs` make of them along
any path stay so.  `FactsDescribeRuns`: the fact describes every run along the path,
up to the first instruction that is not `Handled` and while the run is `exact`.
The invariant of the last has two parts beside the property.  A branch constrains
the operands of the comparison it tests, in whatever block that was made, so these
have to hold the values they were compared with: `ComparisonsAgree` says that they
do while the comparison is current, and `CurrentAssumption`, which SSA form
justifies, that it is current at every branch on it.  And a branch compares a
register with 1, so the registers branches test hold 0 or 1 (`BitsKept`, from
`BitAssumption`, the type i1).  The theorem needs `PhiReadRight`, that no phi reads
the constant true: with one it is false, finding 2.  `CodeAssumption` (of `BBOps`)
says which instructions there are and that a condition is defined by an instruction
that makes a bit; `WidthAssumption` what 2^w is, as the prover does not compute
powers.

**The iteration** (`Interference_proofs`), for every program, `AnalyzeFunc`,
lattice and solver.  Three hypotheses.  `ConstantsOK` is about the program and the
options; TLC evaluates it.  `FactsOK`, facts are a semilattice with a bottom, is
proved of the boxes.  `AnalysisOK`: the analysis of a function returns facts at sites
of that function, and from a larger entry fact and larger interferences larger
ones, which the code assumes in a comment.

- `NoInterferenceMissed` (from `ConstantsOK` alone).  The code stops without
  computing the interferences from the last stores.  The invariant keeps that
  without `-dyninit` the set of threads never changes and that the
  interferences of each are those of `allReachStores`; `stableStores` then gives
  that no store is new.
- `TypeCorrect`: types, whatever the solver and the cache reject.  Facts that
  are recorded are not bottom, so every creation site on the list of threads
  has an entry fact; that is what makes the invariant inductive.
- `StoresNeverLost`: `newReachStores` is overwritten by each thread in turn, and yet
  no store and no value of one is lost.  Not inductive alone: it has to be known
  that what is recorded of a thread would be recorded again.  `NothingLost` says so
  of each store and creation: one more analysis of the thread it comes from,
  with the interferences and facts of now, would record at least that.
  Interferences only grow, so by `AnalysisOK` the next analysis records as much.  The
  permutations of `PermsOf` are shown to be all choices of a store or none for each
  load, and `JoinAll` the least upper bound of finitely many facts.
- `AbortsAreExpected`: the assertions of the iteration fail in the two cases
  named in `AbortsExpected` only.  Each interfering store was reached
  (`InterfsKnown`), and what was reached keeps its fact.
- `EndIsFixpoint`: without `-dyninit` the iteration, which stops when no fact at a
  store grows, ends at a fixpoint.  `IterationDone` relates each iteration to the facts
  it started from, `StableAtEnd` says why it ended.

`StoresNeverLost` and `AbortsAreExpected` are proved where `Covered` holds: without
`-constraints`, because the solver, or the stale cache, may reject in a later
iteration what it let pass, and with `-dyninit` for functions that are started at
one place, because the entry fact of a thread is that of one site.

**The whole analysis** (`AnalyzedProgram_proofs`).  The operators of `LatticeFact`,
`BBOps` and `Constraints` meet `ConstantsOK` and `FactsOK`, and each step of
`AnalyzedProgram` is a step of the iteration or leaves it alone
(`ImplementsInterference`), so that `NoInterferenceMissed` holds of every program.

`LoopFreeAnalysis`: for functions without loops (`LoopFree`: blocks have an order in
which branches lead forwards) `analyzeFunc` meets `AnalysisOK`, with nothing assumed.
The recursion of the worklist takes the least block first, so no block comes
back, and the fact a block is analysed with is the join over all the ways to it; this
is the least map of facts closed under the transfer functions (`Swept`,
`Least`), and the least one is monotone in what it starts from.  With loops
it is not so clear: the fact of a block that is visited again replaces the old one,
and need not be larger.  Hence, for every program without loops: `TypeCorrect`,
`StoresNeverLost`, `AbortsAreExpected`, `EndIsFixpoint`.

`RunsAreReported` is the claim of the tool: whatever an interleaved execution does was
reported, as long as no cast or sum has changed a number by its width (`exact`).  It holds for programs without loops that are well formed and have only
instructions the transfer functions handle (`ProgramAssumption`), with the threads
known from the start and nothing filtered (no `-dyninit`, so no `-constraints`,
which implies it, and no `-filter-mhb`).  `WellFormed`: registers are not memory
(`MemoryApart`), a function is started at one place, which is known
(`StartedOnce`), branches are on bits (`BranchesOnBits`), no phi reads the constant
true (`PhiReadRight`).  The invariant `Ran` gives each running thread a permutation of
interferences that is right for the loads it has passed, such that the analysis of
the thread with it has a fact at the thread's block that describes its registers
and its view of memory.  Permutations fix what every load reads from the start,
and an execution decides it load by load; so at a load the permutation is
exchanged for one that agrees on all loads before and has the store now read
(`Exchanged`), and the facts up to there are shown not to depend on the rest.  The
value in memory stems from a store that was executed, so, by the same
invariant of the other thread, reported, and among the interferences because the
iteration has ended (`Settled`, from `EndIsFixpoint` and `NoInterferenceMissed`).  A
thread starts with its creator's view; that the creation is passed only once is
`Behind`: without loops a thread only goes forward.

**The enumerator** (`ThreadQueries_proofs`, as are the next four), for any number of rows of any sizes and any
width of int.  Permutations are ordered by the last row in which they differ
(`Before`); the carry goes to the next one in that order (`NextInOrder`), so
`tested` is always the set of those before the current one and its size is the
count: `TestedInOrder`.  `AllGetTested` and `CarryStaysInside` need that the
permutations are fewer than 2^(w-1) (`CountFits`); without it they are false, as
`overflow` shows.  From it `CountRight` proves that the product the constructor
computes, a recursion over the rows with a wrap at each, is the number of the
permutations: by induction over the rows, with a bijection between the choices
for the first k rows and pairs of one for the first k - 1 and a number.

**Identifiers**, for every set of values and width: the
cache numbers its values from zero (`IdsNumbered`), the width check lets through
at most `2^BVSize`, so only that one and zero can share a bit vector
(`IdsStayDistinct`), and the assertion at the end excludes it
(`ReportsAreApart`).

**Reaching stores**, for every graph and every order of its blocks: `LeastSolution`.  A set is replaced only when its size grows; that
this is enough rests on `Rising`: each set is below its own transfer and below
every solution, so a set that is not smaller and not equal is larger
(`NotGrowing`), and a pass without a change leaves every block `Settled`.

**The composition**: each step of the whole is a step or a
stutter of each component (`ImplementsComponents`), so their theorems carry
over (`ComponentProperties`, `ThreadFullyTested`); and, where the number of
permutations fits, each has been asked about, in words no other was
(`EachAskedApart`).  The
invariant relates what was asked to what was tested and says that a value keeps
its identifier from the first fact on, so that equal bit vectors stem from equal
stores and these from equal choices.

**The two views of a permutation**, for every program.  `StoresByPaths`: the stores
`getReachingStores` returns are those with a path on which nothing overwrites them,
which `Constraints` defines by transitive closures.  The stores with such a path are
a solution of the data-flow equations (`PathsSolve`, by the first and the last step
of a path) and below every solution (`PathsLeast`, by induction along the path, for
which a closure, being least, stands in); so is the result, by `LeastSolution`.
`AsksWhatIsModelled`: the set of reads-from facts and queries `Constraints` starts
from is what the loop asks.  Permutations correspond to choices of stores
(`PermutationChosen`, `ChoicePermuted`), the store a load takes from its own thread or
from before its creation is the one defined by paths (`StoresToIs`, `OwnStoresAre`),
and bit vectors lead back to values (`MeantIs`).  The invariant `ToldInv` says that the
searches a permutation needs have returned before the first is tested, so that what
was told of it stays what would be told now.  `ProgramAssumption` ties the
constants of the two views together, as `runOnModule` derives both from one
module: the graph, the order of the stores, the interferences, the creation of
a thread, of which there is at most one, and a fact about every load and store.

**Names** (`ValToStrDB_proofs`), for every set of values, kinds and uses:
`MapsStayInAgreement`, `IntsLeadToTheirValues`, `NeverOverwrites`,
`DumpIsParsedBack`.  A new name holds the size of the map and a new integer the
size of the other; the invariant says that both number what is there, so that a
new one is new to every map.

**The constraints and executions** (`MemoryModel_proofs`), for every program and for
sc, tso and pso: no load reads from a store that `-filter-mhb` has removed
(`FilterIsSound`), and the machine is well typed (`MachineType`).  The first half is
about the rules.  `LeastFix` computes the least relation that is closed under a
monotone step: the proof gives that relation as an intersection, shows that it
satisfies the recursion, and that on finitely many nodes nothing else does, as
each turn adds a pair (`FixIs`; `ClosuresLeast` for transitive closures).  So a must-happen-before fact holds in every
transitive relation that contains the premises (`MHBBelow`).  The second half is
about executions.  The inductive invariant is that a history explains the state: a
set `ran` of instructions that holds all that the memory, the buffers and the blocks
a thread has passed ask for (`Written`, `Behind`), in which what dominates comes
before (`InOrderOf`) and threads are created first and joined last (`ThreadOrder`).
`ran` is then closed under what must happen before (`BeforeHasRun`), and the relation
"b has run only if a has, and something a precedes has run too" is transitive; so had
a load to come before a store that has run, it would dominate something that has
run, and not be reachable from it, while it is about to run.

Two hypotheses say what the rules take a program to be without checking it.
`CreatedOnce`: a function is created at one place, and is no main function.
`OneReturn`: a function returns at one place.  Both are needed.  When two places
create a function, the rules have both before it.  When a function returns in two
places, they have both returns before the join, and a load of a thread that is
joined on the way to one of them before whatever follows: take a thread that joins
another on one branch only and returns on each.  LLVM's `UnifyFunctionExitNodes` would
establish `OneReturn`; the code neither runs it nor asks for it.

Model-checked only, and why:

- Termination and everything else with fairness (`LoopFreeTerminates`, `AnalysisEnds`,
  `QueriesEnd`): liveness.
- `PruningSound`.  It is about executions in which no running thread has a store in a
  loop (`NoStoreLoops`; finding 3 shows why), in which each load always reads in the
  same way, as a permutation gives it one store, and reads from its own memory
  only what `testCurPerm` takes it to read (`Foreseen`; finding 1).  A read from its own
  memory is foreseen when the value is that of the only store that reaches the
  load, or when none or several reach it, of which the code concludes nothing.  Programs 4 and 7 of the run have loads
  which only one branch stores before: the property is about their executions along
  that branch, `OwnReadsPrunedRight` about all.
- `TypeOK`, `RunReported`, `StoresGrow`, `AbortsExpected` and `Fixpoint` of programs
  with loops, such as the spinning thread of `program`: see `LoopFreeAnalysis`.  What
  the recursion returns has a type only if it ends, and without widening it
  ends only because integers are bounded.
- `RunReported` with `-dyninit`, `-filter-mhb` or `-constraints`: with the first,
  threads may be found too late (finding 5); with the last, pruning would have
  to be sound; `-filter-mhb` is, by `FilterIsSound`, but that theorem is about the
  executions of `MemoryModel`, whose instructions carry no values.
- `StoresGrow` and `AbortsExpected` with `-constraints`, or with `-dyninit` and a
  function started at two places; `Fixpoint` is stated without `-dyninit`.

Induction theorems of the library take an operator as a parameter, which the provers
cannot instantiate: the inductions above go through a least counterexample.

## Not modelled

- The other APRON domains, floats, printing.
- `createEnvironment` and `VarVisitor`: bookkeeping done once; the dimensions are
  a constant.  (`createEnvironment` keeps `c_str()` of a local string, a memory
  error and not a matter for a model.)
- Slicing: which loads are dropped comes from metadata other passes write, and
  the loop that drops them erases from the map it iterates over;
  `identity_transfer_func` belongs to it.
- The printed results `threadRes`, the text of messages and statistics.
- `saveAndGetIntID` of strings that stand for no value: nothing outside the
  database calls it.
- `pthread_create` of one function at two sites, which the code says it does not
  support, and with it creation in a cycle.
- A loop in which one load must read two different stores: permutations give each
  load one, and the programs of `program` contain no loop that tells.
- Choices of one domain, of one memory model and of the location of Z3 on the
  command line; a solver that answers "unknown", which Datalog does not.

## What is left

All modules planned are written, every run passes, and every safety invariant a
passing run checks is a theorem, `PruningSound` excepted, for the programs and command
lines named above.  Worth doing next:

1. `LoopFreeAnalysis` for functions with loops on bounded facts: it needs that
   the fact of a revisited block is not smaller than before, which
   `merge_worklist` gives only along one way into the loop.
2. A proof of `PruningSound`: the history of `MemoryModel_proofs`, with the order in
   which the instructions ran.
3. The assertions "reachable bottom fact" and "error reached with bottom" as
   properties of `BlockWalk`.
