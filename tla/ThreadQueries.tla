---------------------------- MODULE ThreadQueries ----------------------------
(***************************************************************************)
(* What the analysis of one thread asks the solver: the facts about the    *)
(* program take identifiers (ValueIds), the enumerator gives one           *)
(* permutation after the other (CartesianProduct), and each becomes        *)
(* reads-from facts between identifiers, for which the first call looks    *)
(* for the thread's own stores (ReachingStores)                            *)
(* (worklist-ai/worklistai.cpp: analyzeThreadInterf, testCurPerm,          *)
(* violatesProgOrder).                                                     *)
(***************************************************************************)
EXTENDS ReachingStores, CartesianProduct, ValueIds

CONSTANTS
  ThreadFunc,   \* the thread functions a run looks at
  FactsOf,      \* FactsOf[f]: the facts added before f is analysed, as pairs of values
  InterfsOf,    \* InterfsOf[f]: its loads, each with the vector of interfering stores
  CreatorOf,    \* CreatorOf[f]: where f is created, <<function, block, stores before>>, or <<>>
  BlockOf,      \* the block of a load
  StoresAbove   \* StoresAbove[l]: how many stores of its block come before load l

(* A load is a key of the map of interferences, and the stores it may read  *)
(* from are keys of the map of reached stores: none comes twice.  All have  *)
(* had facts added about them.                                              *)
ASSUME InterfsAssumption ==
  \A f \in ThreadFunc :
    /\ \A i, j \in DOMAIN InterfsOf[f] : InterfsOf[f][i].at = InterfsOf[f][j].at => i = j
    /\ \A i \in DOMAIN InterfsOf[f] :
         LET stores == InterfsOf[f][i].stores
         IN  /\ stores \in Seq(Value)
             /\ \A m, n \in DOMAIN stores : stores[m] = stores[n] => m = n

ASSUME FactsAssumption ==
  \A f \in ThreadFunc :
    /\ FactsOf[f] \in Seq(Value \X Value)
    /\ \A i \in DOMAIN InterfsOf[f] :
         \A v \in {InterfsOf[f][i].at} \cup {InterfsOf[f][i].stores[n] : n \in DOMAIN InterfsOf[f][i].stores} :
           \E k \in DOMAIN FactsOf[f] : v \in {FactsOf[f][k][1], FactsOf[f][k][2]}

VARIABLES
  thread,  \* the function under analysis
  added,   \* how many of its facts have been added
  asked    \* history: what the solver is told and asked for each permutation

queryVars == <<thread, added, asked>>
vars == <<reachVars, cpVars, idVars, queryVars>>

InterfLoad == InterfsOf[thread]

TypeOK ==
  /\ ReachTypeOK /\ CpTypeOK /\ IdTypeOK
  /\ thread \in ThreadFunc
  /\ added \in 0 .. Len(FactsOf[thread])
  /\ {a.perm : a \in asked} \subseteq AllPermutations

(* choicesPerLoad: one more than the interfering stores, for its own memory. *)
ChoicesPerLoad(f) == [i \in DOMAIN InterfsOf[f] |-> Len(InterfsOf[f][i].stores) + 1]

Init ==
  /\ thread \in ThreadFunc
  /\ added = 0
  /\ asked = {}
  /\ ReachInit /\ func = thread
  /\ CpInit /\ sizes = ChoicesPerLoad(thread)
  /\ IdInit

AddFacts ==
  /\ added < Len(FactsOf[thread])
  /\ AddFact(FactsOf[thread][added + 1][1], FactsOf[thread][added + 1][2])
  /\ added' = added + 1
  /\ UNCHANGED <<reachVars, cpVars, thread, asked>>

(* The last store to p among the first n of block b, or those that reach b. *)
StoresTo(f, b, n, p) ==
  LET own == {i \in 1 .. n : PtrOf[StoresIn[b][i]] = p}
  IN  IF own # {} THEN {StoresIn[b][i] : i \in {i \in own : \A j \in own : j <= i}}
      ELSE {s \in memoizer[f][b] : PtrOf[s] = p}

OwnStoresHere(load) ==                 \* mutant: the creator not searched
  StoresTo(thread, BlockOf[load.at], StoresAbove[load.at], load.ptr)

(* getPreviousStoresWithCreate *)
OwnStores(load) ==
  LET here == StoresTo(thread, BlockOf[load.at], StoresAbove[load.at], load.ptr)
  IN  IF here # {} \/ CreatorOf[thread] = <<>> THEN here
      ELSE StoresTo(CreatorOf[thread][1], CreatorOf[thread][2], CreatorOf[thread][3], load.ptr)

ChosenFromZero(load, choice) ==        \* mutant: choices taken as 0-based indexes
  load.stores[IF choice < Len(load.stores) THEN choice + 1 ELSE choice]

(* "Indecies in the permutation are one indexed". *)
Chosen(load, choice) == load.stores[choice]

(* curInterfStoreMap and curSelfStoreMap of a permutation. *)
InterfReads(perm) == {<<InterfLoad[i].at, Chosen(InterfLoad[i], perm[i])>> : i \in {i \in Row : perm[i] # 0}}

BVPairs(reads) == {<<BVOf(r[1]), BVOf(r[2])>> : r \in reads}

SelfReads(perm) ==
  UNION {{InterfLoad[i].at} \X {s \in OwnStores(InterfLoad[i]) : Cardinality(OwnStores(InterfLoad[i])) = 1}
            : i \in {i \in Row : perm[i] = 0}}

(* violatesProgOrder adds nothing when every load reads its own memory.     *)
ReadsFromFacts(perm) == IF InterfReads(perm) = {} THEN {} ELSE InterfReads(perm) \cup SelfReads(perm)

(* The functions whose reaching stores the permutations ask for. *)
Searched == {thread} \cup (IF CreatorOf[thread] = <<>> THEN {} ELSE {CreatorOf[thread][1]})

FindReachingStores ==
  /\ idStatus = "running"
  /\ added = Len(FactsOf[thread])
  /\ ReachLoop \/ \E f \in Searched : CallReachingStores(f)
  /\ UNCHANGED <<cpVars, idVars, queryVars>>

(* violatesProgOrder: reads-from facts for all loads, a query for each that *)
(* reads from another thread.                                               *)
TestCurPerm ==
  /\ idStatus = "running"
  /\ Searched \subseteq DOMAIN memoizer
  /\ TestAndIncrement
  /\ asked' = asked \cup
       {[perm |-> permutation,
         facts |-> BVPairs(ReadsFromFacts(permutation)),
         queries |-> BVPairs(InterfReads(permutation))]}
  /\ UNCHANGED <<reachVars, idVars, thread, added>>

Report ==
  /\ AtEnd(processed)
  /\ ValueCacheToMetadata
  /\ UNCHANGED <<reachVars, cpVars, queryVars>>

Next == AddFacts \/ FindReachingStores \/ TestCurPerm \/ Report

Spec == Init /\ [][Next]_vars /\ WF_vars(Next)

-----------------------------------------------------------------------------
(* Every permutation is asked about, and no two in the same words, although *)
(* facts name bit vectors and not instructions (worklistai.cpp:             *)
(* testCurPerm, violatesProgOrder).                                         *)
AskedApart ==
  idStatus = "dumped" =>
    /\ {a.perm : a \in asked} = AllPermutations
    /\ \A a, b \in asked : a.perm # b.perm => <<a.facts, a.queries>> # <<b.facts, b.queries>>

(* Every thread is reported on, or the analysis says why it stops. *)
QueriesEnd == <>(idStatus # "running")
=============================================================================
