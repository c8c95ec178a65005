------------------------------ MODULE Worklist ------------------------------
(***************************************************************************)
(* The worklist engine that analyses one thread function: analyzeFunc,     *)
(* initBBs and merge_worklist of worklist-ai/worklistai.cpp with the       *)
(* bookkeeping run_transfer_funcs does through updateReachStores,          *)
(* updateReachThreadCreate and the set of reachable errors (bbops.cpp).    *)
(*                                                                         *)
(* The lattice and the transfer functions are parameters.  One step pops   *)
(* one block and does everything the body of the while loop does for it.   *)
(***************************************************************************)
EXTENDS Naturals

CONSTANTS
  BasicBlock,      \* basic blocks of the analysed functions
  Succ,            \* Succ[b]: the blocks b may branch to
  EntryPoint,      \* pairs <<first block, entry fact>> analyzeFunc is called with
  Layout,          \* the addresses the allocator may have given the blocks
  Store, Create, Error,  \* store, pthread_create and __assert_fail sites
  SitesOf,         \* SitesOf[b]: the sites in block b
  Element, Bot,    \* abstract facts and the fact of unreachable code
  Absent,          \* no entry in a std::map
  Below(_, _),     \* LatticeFact::leq
  Join(_, _),      \* LatticeFact::factJoin
  OutFact(_, _, _),  \* OutFact(b, f, t): what b passes to t when f enters b
  SiteFact(_, _, _)  \* SiteFact(b, f, s): the fact recorded at site s of b

Site == Store \cup Create \cup Error

ASSUME GraphAssumption ==
  /\ Succ \in [BasicBlock -> SUBSET BasicBlock]
  /\ EntryPoint \subseteq BasicBlock \X Element
  /\ Layout \subseteq [BasicBlock -> Nat]
  /\ SitesOf \in [BasicBlock -> SUBSET Site]

ASSUME LatticeAssumption ==
  /\ Bot \in Element
  /\ Absent \notin Element
  /\ \A f \in Element : Below(f, f)
  /\ \A f, g, h \in Element : Below(f, g) /\ Below(g, h) => Below(f, h)
  /\ \A f, g \in Element : Join(f, g) \in Element /\ Below(f, Join(f, g)) /\ Below(g, Join(f, g))

ASSUME TransferAssumption ==
  /\ \A b \in BasicBlock, f \in Element : \A t \in Succ[b] : OutFact(b, f, t) \in Element
  /\ \A b \in BasicBlock, f \in Element : \A s \in SitesOf[b] : SiteFact(b, f, s) \in Element

VARIABLES
  entry,             \* the parameters f and entryFact of this call
  addr,              \* the key order of the maps keyed by BasicBlock*
  worklist,          \* facts waiting at the beginning of blocks
  analState,         \* the fact each block was last analysed with
  reachStores,       \* joined fact at each reached store
  reachThreadCreate, \* joined fact at each reached pthread_create
  rErrors,           \* reached __assert_fail calls
  seen               \* history: every fact each block was analysed with

vars == <<entry, addr, worklist, analState, reachStores, reachThreadCreate, rErrors, seen>>

Maybe(S) == S \cup {Absent}

TypeOK ==
  /\ entry \in EntryPoint
  /\ addr \in Layout
  /\ worklist \in [BasicBlock -> Maybe(Element)]
  /\ analState \in [BasicBlock -> Element]
  /\ reachStores \in [Store -> Maybe(Element)]
  /\ reachThreadCreate \in [Create -> Maybe(Element)]
  /\ rErrors \subseteq Error
  /\ seen \in [BasicBlock -> SUBSET Element]

-----------------------------------------------------------------------------
(* Initially only the first block waits; initBBs maps every block to bottom. *)
InitBBsWithEntry == [b \in BasicBlock |-> entry[2]]  \* mutant: the wrong initial fact

InitBBs == [b \in BasicBlock |-> Bot]

Init ==
  /\ entry \in EntryPoint
  /\ addr \in Layout
  /\ worklist = [b \in BasicBlock |-> IF b = entry[1] THEN entry[2] ELSE Absent]
  /\ analState = InitBBs
  /\ reachStores = [s \in Store |-> Absent]
  /\ reachThreadCreate = [s \in Create |-> Absent]
  /\ rErrors = {}
  /\ seen = [b \in BasicBlock |-> {}]

Pending == {b \in BasicBlock : worklist[b] # Absent}

(* worklist.begin(): the waiting block with the least address. *)
Front(b) ==
  /\ b \in Pending
  /\ \A c \in Pending : addr[b] <= addr[c]

(* A fact arriving at a map key joins the one already there. *)
JoinEntry(old, new) == IF old = Absent THEN new ELSE Join(old, new)

KeepFirst(wl, b) == wl                             \* mutant: erase forgotten

EraseFirst(wl, b) == [wl EXCEPT ![b] = Absent]

MergeOverwrite(wl, b, f) ==                        \* mutant: the map's fact is replaced
  [c \in BasicBlock |-> IF c \in Succ[b] THEN OutFact(b, f, c) ELSE wl[c]]

MergeWorklist(wl, b, f) ==
  [c \in BasicBlock |-> IF c \in Succ[b] THEN JoinEntry(wl[c], OutFact(b, f, c)) ELSE wl[c]]

UpdateReachLast(m, b, f) ==                        \* mutant: the last visit wins
  [s \in DOMAIN m |-> IF s \in SitesOf[b] THEN SiteFact(b, f, s) ELSE m[s]]

UpdateReachFirst(m, b, f) ==                       \* mutant: emplace keeps the old entry
  [s \in DOMAIN m |-> IF s \in SitesOf[b] /\ m[s] = Absent THEN SiteFact(b, f, s) ELSE m[s]]

UpdateReach(m, b, f) ==
  [s \in DOMAIN m |-> IF s \in SitesOf[b] THEN JoinEntry(m[s], SiteFact(b, f, s)) ELSE m[s]]

ReportEveryCall(b) == SitesOf[b]                   \* mutant: isError not asked

ErrorsIn(b) == SitesOf[b] \cap Error

(* The popped fact brings nothing new. *)
CanStop(b) == Below(worklist[b], analState[b])

Skip(b) ==
  /\ Front(b)
  /\ CanStop(b)
  /\ worklist' = EraseFirst(worklist, b)
  /\ UNCHANGED <<entry, addr, analState, reachStores, reachThreadCreate, rErrors, seen>>

(* The popped fact replaces the one the block was last analysed with, and   *)
(* the transfer functions run over the block.                               *)
Analyze(b) ==
  /\ Front(b)
  /\ ~ CanStop(b)
  /\ analState' = [analState EXCEPT ![b] = worklist[b]]
  /\ worklist' = MergeWorklist(EraseFirst(worklist, b), b, worklist[b])
  /\ reachStores' = UpdateReach(reachStores, b, worklist[b])
  /\ reachThreadCreate' = UpdateReach(reachThreadCreate, b, worklist[b])
  /\ rErrors' = rErrors \cup ErrorsIn(b)
  /\ seen' = [seen EXCEPT ![b] = @ \cup {worklist[b]}]
  /\ UNCHANGED <<entry, addr>>

Next == \E b \in BasicBlock : Skip(b) \/ Analyze(b)

Spec == Init /\ [][Next]_vars /\ WF_vars(Next)

Done == Pending = {}

-----------------------------------------------------------------------------
(* f is accounted for at block b: it is unreachable, or some fact b was     *)
(* analysed with is above it, or the fact waiting at b is.                  *)
Covered(f, b) ==
  \/ Below(f, Bot)
  \/ \E g \in seen[b] : Below(f, g)
  \/ worklist[b] # Absent /\ Below(f, worklist[b])

(* Facts are overwritten in analState and popped from the worklist, yet no  *)
(* fact a block ever passed on is lost: it stays below something its target *)
(* was analysed with or still waits there.  (worklistai.cpp: the loop of    *)
(* analyzeFunc with merge_worklist.)                                        *)
NothingLost ==
  /\ Covered(entry[2], entry[1])
  /\ \A b \in BasicBlock : \A f \in seen[b], t \in Succ[b] : Covered(OutFact(b, f, t), t)

(* Every fact a block was ever analysed with is contained in what is        *)
(* reported at the block's stores, thread creations and failing assertions, *)
(* although later visits of the block carry unrelated facts.  (bbops.cpp:   *)
(* updateReachStores, updateReachThreadCreate, rErrors.insert.)             *)
SitesCoverSeen ==
  \A b \in BasicBlock : \A f \in seen[b], s \in SitesOf[b] :
    /\ s \in Store => reachStores[s] # Absent /\ Below(SiteFact(b, f, s), reachStores[s])
    /\ s \in Create => reachThreadCreate[s] # Absent /\ Below(SiteFact(b, f, s), reachThreadCreate[s])
    /\ s \in Error => s \in rErrors

(* The fact a popped fact is compared with is bottom or one the block has   *)
(* been analysed with, so skipping a block is always justified by an        *)
(* earlier visit.  (worklistai.cpp: newFact.leq(oldFact) in analyzeFunc.)   *)
StateSeen == \A b \in BasicBlock : analState[b] = Bot \/ analState[b] \in seen[b]

IInv == TypeOK /\ StateSeen /\ NothingLost /\ SitesCoverSeen
=============================================================================
