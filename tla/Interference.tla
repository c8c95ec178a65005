----------------------------- MODULE Interference -----------------------------
(***************************************************************************)
(* The interference iteration (runOnModule of worklist-ai/worklistai.cpp   *)
(* with analyzeThreadInterf, testCurPerm, getInterferingStores,            *)
(* filterMHBInterfs, joinInterfs and stableStores): every thread is        *)
(* analysed on its own, with the facts other threads reached at their      *)
(* stores, until those facts do not grow any more.                         *)
(*                                                                         *)
(* The analysis of one function, the program-order check and the           *)
(* must-happen-before query are parameters; Worklist and Constraints model *)
(* them.  A std::map is a function whose domain is its set of keys.        *)
(***************************************************************************)
EXTENDS Naturals, Sequences, SequencesExt

CONSTANTS
  Func,              \* thread functions
  Load, Store, Create, Error,  \* instructions; an atomicrmw is a load and a store
  FuncOf(_),         \* FuncOf(i): the function of instruction i
  Starts,            \* Starts[ci]: the function a pthread_create starts
  ThreadCreate,      \* ThreadCreate[m], getThreadCreate: the pthread_create calls of the
                     \* program with main function m, in program order
  SameVal(_, _),     \* loadStoreSameVal
  Layout,            \* addresses the instructions may have: the order of map keys
  Option,            \* command lines: flags and, as main, the program to analyse
                     \* (the choice of a domain and of a memory model is left out)
  Fact, Bot, InitFact,  \* facts, the bottom fact, getInitState
  Leq(_, _), Join(_, _),
  AnalyzeFunc(_, _, _, _),  \* AnalyzeFunc(f, entryFact, interf, nocombs): the facts at
                            \* the stores, creations and failing assertions it reaches
  ViolatesProgOrder(_),     \* of a choice of one store for each load
  MustHappenBefore(_, _),   \* queryMHB
  Own                \* the choice to read from the thread's own memory

MainSite == <<"NULL", 0>>   \* the null CallInst that stands for main

(* What a program and a command line are.                                  *)
ConstantsOK ==
  /\ Option \subseteq [main : Func, nocombs : BOOLEAN, dyninit : BOOLEAN,
                      filter_mhb : BOOLEAN, constraints : BOOLEAN]
  /\ \A f \in DOMAIN ThreadCreate : ThreadCreate[f] \in Seq(Create)
  /\ \A o \in Option : o.main \in DOMAIN ThreadCreate
  /\ \A ci \in Create : Starts[ci] \in Func
  /\ MainSite \notin Create
  /\ IsFiniteSet(Load) /\ IsFiniteSet(Store) /\ IsFiniteSet(Create)
  /\ Own \notin Store
  /\ \A a \in Layout : \A i, j \in Load \cup Store \cup Create :
       a[i] \in Nat /\ (a[i] = a[j] => i = j)

VARIABLES
  option, address,
  threadFuncs,       \* the functions known to run as threads
  threadsToProcess,  \* creation sites still to be analysed in this iteration
  threadEntryFacts,  \* -dyninit: the fact at each reached creation site
  interfs,           \* interfs[f][l]: the stores load l of f may read from
  allReachStores,    \* facts at the stores, as of the previous iteration
  newReachStores,    \* and as of now
  permCache,         \* results of violatesProgOrder, by permutation vector
  rErrors,
  status             \* "running", "done", or "aborted" by an assertion

vars == <<option, address, threadFuncs, threadsToProcess, threadEntryFacts, interfs,
          allReachStores, newReachStores, permCache, rErrors, status>>

(* checkCommandLineArgs: what it lets through, and what it sets.            *)
ValidArgs(o) == ~ (o.constraints /\ o.nocombs)

WithDynInit(o) == [o EXCEPT !.dyninit = @ \/ o.constraints]

CheckCommandLineArgs == {WithDynInit(o) : o \in {o \in Option : ValidArgs(o)}}

Facts(S, m) == DOMAIN m \subseteq S /\ \A k \in DOMAIN m : m[k] \in Fact

TypeOK ==
  /\ option \in CheckCommandLineArgs
  /\ address \in Layout
  /\ threadFuncs \subseteq Func
  /\ \A i \in DOMAIN threadsToProcess : threadsToProcess[i] \in Create \cup {MainSite}
  /\ Facts(Create, threadEntryFacts)
  /\ DOMAIN interfs = Func
  /\ \A f \in Func : /\ DOMAIN interfs[f] \subseteq Load
                     /\ \A l \in DOMAIN interfs[f] : interfs[f][l] \subseteq Store
  /\ Facts(Store, allReachStores)
  /\ Facts(Store, newReachStores)
  /\ \A p \in DOMAIN permCache : permCache[p] \in BOOLEAN
  /\ rErrors \subseteq Error
  /\ status \in {"running", "done", "aborted"}

-----------------------------------------------------------------------------
(* Where an iteration starts: with -dyninit at main, whose creations lead   *)
(* to the other threads, else with every creation site, main last.          *)
ThreadSites ==
  IF option.dyninit THEN <<MainSite>> ELSE Append(ThreadCreate[option.main], MainSite)

SiteFunc(ci) == IF ci = MainSite THEN option.main ELSE Starts[ci]

Init ==
  /\ option \in CheckCommandLineArgs
  /\ address \in Layout
  /\ threadsToProcess = ThreadSites
  /\ threadFuncs = {SiteFunc(ci) : ci \in Range(threadsToProcess)}
  /\ threadEntryFacts = <<>>
  /\ interfs = [f \in Func |-> <<>>]
  /\ allReachStores = <<>>
  /\ newReachStores = <<>>
  /\ permCache = <<>>
  /\ rErrors = {}
  /\ status = "running"

JoinAll(F) == FoldSet(Join, Bot, F)

RestrictTo(m, S) == [k \in DOMAIN m \cap S |-> m[k]]

(* The keys of a std::map, as it is iterated.                               *)
Ordered(S) ==
  CHOOSE q \in [1 .. Cardinality(S) -> S] :
    \A i, j \in 1 .. Cardinality(S) : i < j => address[q[i]] < address[q[j]]

(* getInterferingStores: the reached stores of the other functions that     *)
(* write what l reads.                                                      *)
InterferingAt(l, reach) == {s \in DOMAIN reach : FuncOf(s) # FuncOf(l) /\ SameVal(s, l)}

InterferingStores(f, reach) ==
  [l \in {l \in Load : FuncOf(l) = f /\ InterferingAt(l, reach) # {}} |-> InterferingAt(l, reach)]

FilterAlways(cur) ==                               \* mutant: the flag not looked at
  [l \in DOMAIN cur |-> {s \in cur[l] : ~ MustHappenBefore(l, s)}]

(* filterMHBInterfs: a load may be left with no store at all. *)
FilterMHBInterfs(cur) ==
  [l \in DOMAIN cur |-> {s \in cur[l] : ~ option.filter_mhb \/ ~ MustHappenBefore(l, s)}]

(* joinInterfs *)
JoinInterfs(cur) == [l \in DOMAIN cur |-> JoinAll({newReachStores[s] : s \in cur[l]})]

-----------------------------------------------------------------------------
(* Permutations: a number for each load, in address order; 0 reads from the *)
(* thread's own memory, k > 0 from the k-th interfering store.              *)
PermsNeverOwn(cur) ==                              \* mutant: choice 0 forgotten
  LET loads == Ordered(DOMAIN cur)
      most  == Max({Cardinality(cur[l]) : l \in DOMAIN cur})
  IN  {p \in [DOMAIN loads -> 1 .. most] : \A i \in DOMAIN loads : p[i] <= Cardinality(cur[loads[i]])}

PermsOf(cur) ==
  LET loads == Ordered(DOMAIN cur)
      most  == Max({Cardinality(cur[l]) : l \in DOMAIN cur})
  IN  {p \in [DOMAIN loads -> 0 .. most] : \A i \in DOMAIN loads : p[i] <= Cardinality(cur[loads[i]])}

Choice(cur, p) ==
  LET loads == Ordered(DOMAIN cur)
  IN  [l \in DOMAIN cur |->
         LET k == p[CHOOSE i \in DOMAIN loads : loads[i] = l]
         IN  IF k = 0 THEN Own ELSE Ordered(cur[l])[k]]

Violates(cur, p) ==
  option.constraints
    /\ IF p \in DOMAIN permCache
         THEN permCache[p]
         ELSE \E choice \in {Choice(cur, p)} : ViolatesProgOrder(choice)

InterfMap(choice) ==
  [l \in {l \in DOMAIN choice : choice[l] # Own} |-> newReachStores[choice[l]]]

(* What the runs of analyzeFunc on one thread reach, joined. *)
MergeReached(R) ==
  [s \in UNION {DOMAIN r : r \in R} |-> JoinAll({r[s] : r \in {r \in R : s \in DOMAIN r}})]

EntryFact(ci) ==
  IF option.dyninit /\ ci # MainSite THEN threadEntryFacts[ci] ELSE InitFact

(* The permutations the program-order check rejects. *)
Rejected(cur) ==
  IF DOMAIN cur = {} \/ option.nocombs THEN {} ELSE {p \in PermsOf(cur) : Violates(cur, p)}

(* The interferences analyzeFunc is called with: none, all of them joined,  *)
(* or one map for every permutation that is not rejected.                   *)
InterfMaps(cur, rejected) ==
  IF DOMAIN cur = {} THEN {<<>>}
  ELSE IF option.nocombs THEN {JoinInterfs(cur)}
  ELSE {InterfMap(Choice(cur, p)) : p \in PermsOf(cur) \ rejected}

AnalyzeThreadInterf(ci, cur, rejected) ==
  MergeReached({AnalyzeFunc(SiteFunc(ci), EntryFact(ci), m, option.nocombs)
                  : m \in InterfMaps(cur, rejected)})

(* The assertions on the way: joinInterfs ("load with zero interfering      *)
(* stores"), testCurPerm ("fact not found for store") and                   *)
(* getPreviousStoresWithCreate, which knows no atomicrmw.                   *)
AssertFails(cur) ==
  \E l \in DOMAIN cur :
    \/ option.nocombs /\ cur[l] = {}
    \/ ~ option.nocombs /\ l \in Store
    \/ ~ (cur[l] \subseteq DOMAIN newReachStores)

UpdateCache(cur, rejected) ==
  IF option.constraints /\ DOMAIN cur # {}
    THEN [p \in DOMAIN permCache \cup PermsOf(cur) |->
            IF p \in DOMAIN permCache THEN permCache[p] ELSE p \in rejected]
    ELSE permCache

ThisThreadOnly(f, reached) == RestrictTo(reached, Store)   \* mutant: all erased

(* The stores of f are replaced by the ones just reached. *)
UpdateStores(f, reached) ==
  LET kept == RestrictTo(newReachStores, {s \in Store : FuncOf(s) # f})
  IN  [s \in DOMAIN kept \cup (DOMAIN reached \cap Store) |->
         IF s \in DOMAIN kept THEN kept[s] ELSE reached[s]]

EntryFactAtCalls(reached) ==                       \* mutant: any call taken for a creation
  [s \in DOMAIN threadEntryFacts \cup (DOMAIN reached \cap (Create \cup Error)) |->
     IF s \in DOMAIN reached THEN reached[s] ELSE threadEntryFacts[s]]

(* -dyninit: each creation the thread reaches is analysed in this iteration. *)
UpdateEntryFacts(reached) ==
  IF ~ option.dyninit THEN threadEntryFacts
  ELSE [ci \in DOMAIN threadEntryFacts \cup (DOMAIN reached \cap Create) |->
          IF ci \in DOMAIN reached THEN reached[ci] ELSE threadEntryFacts[ci]]

NewSites(reached) == IF option.dyninit THEN Ordered(DOMAIN reached \cap Create) ELSE <<>>

AnalyzeThread ==
  /\ status = "running"
  /\ threadsToProcess # <<>>
  /\ \E ci \in {Head(threadsToProcess)} :
     \E cur \in {FilterMHBInterfs(interfs[SiteFunc(ci)])} :
       /\ ~ AssertFails(cur)
       /\ \E rejected \in {Rejected(cur)} :
          \E reached \in {AnalyzeThreadInterf(ci, cur, rejected)} :
             /\ permCache' = UpdateCache(cur, rejected)
             /\ newReachStores' = UpdateStores(SiteFunc(ci), reached)
             /\ rErrors' = rErrors \cup (DOMAIN reached \cap Error)
             /\ threadEntryFacts' = UpdateEntryFacts(reached)
             /\ threadsToProcess' = Tail(threadsToProcess) \o NewSites(reached)
             /\ threadFuncs' = threadFuncs \cup {SiteFunc(c) : c \in Range(NewSites(reached))}
  /\ UNCHANGED <<option, address, interfs, allReachStores, status>>

Abort ==
  /\ status = "running"
  /\ threadsToProcess # <<>>
  /\ AssertFails(FilterMHBInterfs(interfs[SiteFunc(Head(threadsToProcess))]))
  /\ status' = "aborted"
  /\ UNCHANGED <<option, address, threadFuncs, threadsToProcess, threadEntryFacts, interfs,
                 allReachStores, newReachStores, permCache, rErrors>>

-----------------------------------------------------------------------------
(* stableStores: no store is new and no fact is strictly larger; facts that *)
(* cannot be compared count as stable.                                      *)
SameStores(old, new) == DOMAIN new \subseteq DOMAIN old  \* mutant: facts not compared

StableIfKnown(old, new) ==                         \* mutant: new stores not noticed
  \A s \in DOMAIN new \cap DOMAIN old : ~ (Leq(old[s], new[s]) /\ ~ Leq(new[s], old[s]))

StableIfNotGEq(old, new) ==                        \* mutant: areValsEq not asked
  \A s \in DOMAIN new : s \in DOMAIN old /\ ~ Leq(old[s], new[s])

StableStores(old, new) ==
  \A s \in DOMAIN new :
    s \in DOMAIN old /\ ~ (Leq(old[s], new[s]) /\ ~ Leq(new[s], old[s]))

NoThreads == ThreadCreate[option.main] = <<>>

Finish ==
  /\ status = "running"
  /\ threadsToProcess = <<>>
  /\ NoThreads \/ StableStores(allReachStores, newReachStores)
  /\ status' = "done"
  /\ UNCHANGED <<option, address, threadFuncs, threadsToProcess, threadEntryFacts, interfs,
                 allReachStores, newReachStores, permCache, rErrors>>

NextIteration ==
  /\ status = "running"
  /\ threadsToProcess = <<>>
  /\ ~ NoThreads
  /\ ~ StableStores(allReachStores, newReachStores)
  /\ interfs' = [f \in Func |->
                   IF f \in threadFuncs THEN InterferingStores(f, newReachStores) ELSE interfs[f]]
  /\ allReachStores' = newReachStores
  /\ threadsToProcess' = ThreadSites
  /\ UNCHANGED <<option, address, threadFuncs, threadEntryFacts, newReachStores, permCache,
                 rErrors, status>>

Next == AnalyzeThread \/ Abort \/ Finish \/ NextIteration

Spec == Init /\ [][Next]_vars /\ WF_vars(Next)

-----------------------------------------------------------------------------
(* What the code relies on when it throws facts away and stops at the first *)
(* iteration that brings nothing new: "assuming the transfer functions are  *)
(* monotonicly increasing" (worklistai.cpp, analyzeFunc).  F and M bound    *)
(* the entry facts and the interference maps; with -nocombs a load that     *)
(* reads from no other thread reads less than one that does.                *)
Reachable == Fact \ {Bot}   \* code that is reached has no bottom fact

InterfLeq(nocombs, m1, m2) ==
  /\ DOMAIN m1 \subseteq DOMAIN m2 /\ (nocombs \/ DOMAIN m1 = DOMAIN m2)
  /\ \A l \in DOMAIN m1 : Leq(m1[l], m2[l])

ReachLeq(r1, r2) == \A s \in DOMAIN r1 : s \in DOMAIN r2 /\ Leq(r1[s], r2[s])

AnalysisMonotone(F, M(_)) ==
  \A f \in Func : \A nocombs \in BOOLEAN : \A e1, e2 \in F : \A m1, m2 \in M(nocombs) :
    Leq(e1, e2) /\ InterfLeq(nocombs, m1, m2) =>
      ReachLeq(AnalyzeFunc(f, e1, m1, nocombs), AnalyzeFunc(f, e2, m2, nocombs))

AnalysisTyped(F, M(_)) ==
  \A f \in Func : \A nocombs \in BOOLEAN : \A e \in F : \A m \in M(nocombs) :
    \A reached \in {AnalyzeFunc(f, e, m, nocombs)} :
      /\ DOMAIN reached \subseteq {s \in Store \cup Create \cup Error : FuncOf(s) = f}
      /\ \A s \in DOMAIN reached : reached[s] \in Reachable

-----------------------------------------------------------------------------
(* The assertions of joinInterfs, testCurPerm and getPreviousStores stop    *)
(* the analysis in two cases only: -filter-mhb with -nocombs, which may     *)
(* leave a load no store to read from, and an atomicrmw another thread      *)
(* interferes with when the combinations are explored.  "fact not found for *)
(* store" of testCurPerm never does: a store that once interfered with a    *)
(* load still has a fact when the load's thread is analysed again, although *)
(* the facts of a function are thrown away each time it is analysed.        *)
AbortsExpected ==
  status = "aborted" =>
    /\ \/ option.nocombs /\ option.filter_mhb
       \/ ~ option.nocombs /\ \E f \in threadFuncs : DOMAIN interfs[f] \cap Store # {}
    /\ \A f \in Func : \A l \in DOMAIN interfs[f] : interfs[f][l] \subseteq DOMAIN newReachStores

(* "the reachable stores are monotonic (on iteration i+1 we at least reach  *)
(* all the stores of iteration i)", worklistai.cpp in runOnModule: replacing *)
(* a thread's stores by the ones just reached never loses a store or a      *)
(* value of one.                                                            *)
StoresGrow ==
  [][\A s \in DOMAIN newReachStores :
       s \in DOMAIN newReachStores' /\ Leq(newReachStores[s], newReachStores'[s])]_vars

(* "a map from each of its Loads to the vector of all interfering store     *)
(* instructions from other threads" (worklistai.cpp, interfs in             *)
(* runOnModule): when the analysis ends, each thread has been analysed with *)
(* every reached store that may interfere with it.                          *)
InterferencesComplete ==
  status = "done" =>
    \A f \in threadFuncs : interfs[f] = InterferingStores(f, newReachStores)

(* The half of it that makes the result sound, for threads that are all     *)
(* known from the start: no store that may interfere with a load of a       *)
(* thread is missing from what the thread was last analysed with, although  *)
(* the iteration stops without computing the interferences again            *)
(* (worklistai.cpp: runOnModule, stableStores).                             *)
NoneMissed ==
  status = "done" /\ ~ option.dyninit /\ ~ NoThreads =>
    \A f \in threadFuncs : \A may \in {InterferingStores(f, newReachStores)} :
      \A l \in DOMAIN may : l \in DOMAIN interfs[f] /\ may[l] \subseteq interfs[f][l]

(* The sites whose threads exist in the end. *)
FinalSites ==
  {MainSite} \cup (IF option.dyninit THEN DOMAIN threadEntryFacts ELSE Range(ThreadCreate[option.main]))

(* The end of the iteration is a fixpoint: one more analysis of any thread, *)
(* with the interferences of the final facts, finds no store, value, error  *)
(* or thread that is not reported (worklistai.cpp: runOnModule "until the   *)
(* interferences (facts at stores in threads) stabalize").                  *)
Fixpoint ==
  status = "done" /\ ~ NoThreads =>
    \A ci \in FinalSites :
      \A cur \in {FilterMHBInterfs(InterferingStores(SiteFunc(ci), newReachStores))} :
        \A reached \in {AnalyzeThreadInterf(ci, cur, Rejected(cur))} :
          \A s \in DOMAIN reached :
            /\ s \in Store => s \in DOMAIN newReachStores /\ Leq(reached[s], newReachStores[s])
            /\ s \in Error => s \in rErrors
            /\ s \in Create /\ option.dyninit =>
                 s \in DOMAIN threadEntryFacts /\ Leq(reached[s], threadEntryFacts[s])

(* "if we see the same _exact_ permutation again we can use a cached        *)
(* result" (worklistai.cpp, testCurPerm): a permutation of the thread to be *)
(* analysed that the cache rejects is one the solver would reject.          *)
CacheRight ==
  status = "running" /\ threadsToProcess # <<>> /\ option.constraints =>
    LET cur == FilterMHBInterfs(interfs[SiteFunc(Head(threadsToProcess))])
    IN  DOMAIN cur # {} =>
          \A p \in PermsOf(cur) \cap DOMAIN permCache :
            permCache[p] => ViolatesProgOrder(Choice(cur, p))

(* The iteration ends, however the threads feed each other. *)
AnalysisEnds == <>(status # "running")
=============================================================================
