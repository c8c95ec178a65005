--------------------------- MODULE ReachingStores ---------------------------
(***************************************************************************)
(* The stores of a function that reach the entry of each of its blocks     *)
(* (worklist-ai/worklistai.cpp: getReachingStores, getGen, getRemVars), a  *)
(* data-flow analysis that visits all blocks until no set grows.  A load   *)
(* that reads its own thread's memory is given the store it reads from     *)
(* when the analysis leaves one only.                                      *)
(*                                                                         *)
(* The code erases from a set while it iterates over it.  Which of several *)
(* killed stores is then missed depends on the shape of the tree; the      *)
(* first one is always erased.                                             *)
(***************************************************************************)
EXTENDS Integers, Sequences, FiniteSets

CONSTANTS
  LayoutOf,  \* LayoutOf[f]: the blocks of function f, in the order of its list
  Pred,      \* Pred[b]: the predecessors of b
  StoresIn,  \* StoresIn[b]: the stores of b, in order
  PtrOf      \* PtrOf[s]: the pointer operand of store s

BlocksOf(f) == {LayoutOf[f][i] : i \in DOMAIN LayoutOf[f]}

StoresOf(f) == UNION {{StoresIn[b][i] : i \in DOMAIN StoresIn[b]} : b \in BlocksOf(f)}

ASSUME LayoutAssumption == \A f \in DOMAIN LayoutOf : LayoutOf[f] \in Seq(BlocksOf(f))
ASSUME StoresAssumption == \A f \in DOMAIN LayoutOf : IsFiniteSet(StoresOf(f))
ASSUME GraphAssumption == \A f \in DOMAIN LayoutOf : \A b \in BlocksOf(f) : Pred[b] \subseteq BlocksOf(f)

VARIABLES
  func,      \* the function of the current call, or of the last one
  running,   \* the call has not returned
  reachOut,  \* the stores found to reach the end of each block
  reachIn,   \* the stores found to reach its entry
  visiting,  \* the position in the list of the block of the for loop
  updated,   \* a set grew in this pass
  memoizer,  \* the results of the calls, by function
  missed     \* history: the functions in which a killed store was not erased

reachVars == <<func, running, reachOut, reachIn, visiting, updated, memoizer, missed>>

Layout == LayoutOf[func]
Block == BlocksOf(func)
AnyStore == StoresOf(func)

NothingReaches(f) == [b \in BlocksOf(f) |-> {}]

ReachTypeOK ==
  /\ func \in DOMAIN LayoutOf
  /\ running \in BOOLEAN
  /\ reachOut \in [Block -> SUBSET AnyStore]
  /\ reachIn \in [Block -> SUBSET AnyStore]
  /\ visiting \in 1 .. Len(Layout) + 1
  /\ updated \in BOOLEAN
  /\ DOMAIN memoizer \subseteq DOMAIN LayoutOf
  /\ missed \subseteq DOMAIN LayoutOf

ReachInit ==
  /\ func \in DOMAIN LayoutOf
  /\ running = FALSE
  /\ reachOut = NothingReaches(func)
  /\ reachIn = NothingReaches(func)
  /\ visiting = 1
  /\ updated = FALSE
  /\ memoizer = [f \in {} |-> NothingReaches(f)]
  /\ missed = {}

(* A call with a function it was not called with before. *)
CallReachingStores(f) ==
  /\ ~ running
  /\ f \in DOMAIN LayoutOf \ DOMAIN memoizer
  /\ func' = f
  /\ running' = TRUE
  /\ reachOut' = NothingReaches(f)
  /\ reachIn' = NothingReaches(f)
  /\ visiting' = 1
  /\ updated' = FALSE
  /\ UNCHANGED <<memoizer, missed>>

FirstStores(b) ==                      \* mutant: the first store of each variable
  {StoresIn[b][i] : i \in {i \in DOMAIN StoresIn[b] :
     \A j \in DOMAIN StoresIn[b] : j < i => PtrOf[StoresIn[b][j]] # PtrOf[StoresIn[b][i]]}}

(* getGen: the most recent store to each variable. *)
Gen(b) ==
  {StoresIn[b][i] : i \in {i \in DOMAIN StoresIn[b] :
     \A j \in DOMAIN StoresIn[b] : j > i => PtrOf[StoresIn[b][j]] # PtrOf[StoresIn[b][i]]}}

(* getRemVars: the variables overwritten. *)
RemVars(b) == {PtrOf[StoresIn[b][i]] : i \in DOMAIN StoresIn[b]}

ReachesEntry(out, b) == UNION {out[p] : p \in Pred[b]}

Killed(out, b) == {s \in ReachesEntry(out, b) : PtrOf[s] \in RemVars(b)}

(* What the loop over curReach may leave of the killed stores: of those to  *)
(* each variable, not all.                                                  *)
MayMiss(out, b) ==
  {left \in SUBSET Killed(out, b) :
     \A s \in left : \E t \in Killed(out, b) \ left : PtrOf[t] = PtrOf[s]}

Transfer(out, b) == (ReachesEntry(out, b) \ Killed(out, b)) \cup Gen(b)

GrownSet(S, T) == Cardinality(S) >= Cardinality(T)   \* mutant: never smaller

GrowsOnce(S, T) == T = {} /\ S # {}                   \* mutant: only the first time

Grows(S, T) == Cardinality(S) > Cardinality(T)

VisitBlock ==
  /\ running
  /\ visiting \in DOMAIN Layout
  /\ LET b == Layout[visiting]
     IN  \E left \in MayMiss(reachOut, b) :
           LET curReach == Transfer(reachOut, b) \cup left
           IN  /\ reachIn' = [reachIn EXCEPT ![b] = ReachesEntry(reachOut, b)]
               /\ IF Grows(curReach, reachOut[b])
                    THEN reachOut' = [reachOut EXCEPT ![b] = curReach] /\ updated' = TRUE
                    ELSE UNCHANGED <<reachOut, updated>>
               /\ missed' = IF left = {} THEN missed ELSE missed \cup {func}
  /\ visiting' = visiting + 1
  /\ UNCHANGED <<func, running, memoizer>>

NextPass ==
  /\ running
  /\ visiting = Len(Layout) + 1
  /\ updated
  /\ visiting' = 1
  /\ updated' = FALSE
  /\ UNCHANGED <<func, running, reachOut, reachIn, memoizer, missed>>

Memoize ==
  /\ running
  /\ visiting = Len(Layout) + 1
  /\ ~ updated
  /\ running' = FALSE
  /\ memoizer' = [f \in DOMAIN memoizer \cup {func} |-> IF f = func THEN reachIn ELSE memoizer[f]]
  /\ UNCHANGED <<func, reachOut, reachIn, visiting, updated, missed>>

ReachLoop == VisitBlock \/ NextPass \/ Memoize

ReachNext == ReachLoop \/ \E f \in DOMAIN LayoutOf : CallReachingStores(f)

ReachSpec == ReachInit /\ [][ReachNext]_reachVars

-----------------------------------------------------------------------------
IsSolution(out) == \A b \in Block : out[b] = Transfer(out, b)

(* The result is the least solution of the data-flow equations: no store    *)
(* that reaches a block is left out, although a set is replaced only when   *)
(* its size grows, and none is added that does not (worklistai.cpp:         *)
(* getReachingStores).  It speaks of calls in which every killed store was  *)
(* erased.                                                                  *)
ReachLeast ==
  ~ running /\ func \in DOMAIN memoizer \ missed =>
    /\ memoizer[func] = [b \in Block |-> ReachesEntry(reachOut, b)]
    /\ IsSolution(reachOut)
    /\ \A out \in [Block -> SUBSET AnyStore] :
         IsSolution(out) => \A b \in Block : reachOut[b] \subseteq out[b]
=============================================================================
