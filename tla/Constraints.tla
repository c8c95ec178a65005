---------------------------- MODULE Constraints ----------------------------
(***************************************************************************)
(* The Datalog constraints with which the analysis prunes permutations of  *)
(* interferences (worklist-ai/worklistai.cpp: addDomLoadStoreFacts ...     *)
(* addNoReoFunc2Func1, violatesProgOrder, filterMHBInterfs).  The Z3       *)
(* fixedpoint engine is the least fixpoint of the rules.                   *)
(*                                                                         *)
(* The analysed program is a control-flow graph of loads, stores and       *)
(* calls; the constraints do not look at anything else.  An instruction is *)
(* <<block, index>>; the terminator comes after the body.                  *)
(***************************************************************************)
EXTENDS Integers, Sequences, FiniteSets, TLC

CONSTANTS
  Code,    \* Code[b]: a basic block, with the function it is in as fn
  Entry,   \* Entry[f]: the first block of f
  Models   \* the memory models looked at: "sc", "tso", "pso" or "rmo"

(* A function as a table, which TLC computes once, as it has to compare it  *)
(* with another; and a set as a list.                                       *)
Table(F) == CHOOSE f \in {F, <<>>} : f = F
List(S) == {x : x \in S}

Blocks == Code
Node == DOMAIN Blocks
Func == DOMAIN Entry

Succ == Table([b \in Node |-> {Blocks[b].term.succ[i] : i \in DOMAIN Blocks[b].term.succ}])

At(a) == Append(Blocks[a[1]].body, [op |-> "term"])[a[2]]

FuncOf(a) == Blocks[a[1]].fn

Instr == List(UNION {{b} \X (1 .. Len(Blocks[b].body) + 1) : b \in Node})

Load == List({a \in Instr : At(a).op = "load"})
Store == List({a \in Instr : At(a).op = "store"})
CreateCall == List({a \in Instr : At(a).op = "create"})
JoinCall == List({a \in Instr : At(a).op = "join"})
Fence == List({a \in Instr : At(a).op = "fence"})

SameVar(a, b) == At(a).ptr = At(b).ptr

(* A relation on N is a function from each element to its successors.       *)
Relation(N) == [N -> SUBSET N]

(* The least relation on N that contains R and is closed under Step. *)
LeastFix(N, Step(_), R) ==
  LET Fix[S \in Relation(N)] ==
        LET more == Step(S)
            T    == [a \in DOMAIN S |-> S[a] \cup more[a]]
        IN  IF T = S THEN S ELSE Fix[T]
  IN  Fix[R]

Twice(R) == [a \in DOMAIN R |-> UNION {R[b] : b \in R[a]}]

TransClosure(R) == LeastFix(Node, Twice, R)

-----------------------------------------------------------------------------
(* The control-flow graph. *)

(* forwardDfs: the blocks reached from b in one step or more. *)
Reaches == TransClosure(Succ)

Avoiding == Table([a \in Node |-> TransClosure([b \in Node |-> IF b = a THEN {} ELSE Succ[b] \ {a}])])

(* Every path from b to a block that returns goes through a. *)
PostDominates(a, b) == a = b \/ \A c \in {b} \cup Avoiding[a][b] : Succ[c] # {}

(* Every path from the entry of b's function to b goes through a, a # b. *)
Dominates(a, b) ==
  LET first == Entry[Blocks[b].fn]
  IN  /\ Blocks[a].fn = Blocks[b].fn
      /\ b \notin {a, first}
      /\ a = first \/ b \notin Avoiding[a][first]

DominatedBy == Table([a \in Node |-> {b \in Node : Dominates(a, b)}])

(* The transitive closure of the dom facts: consecutive instructions of a   *)
(* block, and the terminator of a block before the first instruction of     *)
(* each of its children in the dominator tree.                              *)
Dom(a, b) == (a[1] = b[1] /\ a[2] < b[2]) \/ b[1] \in DominatedBy[a[1]]

NotReach(a, b) == FuncOf(a) = FuncOf(b) /\ b[1] \notin Reaches[a[1]]

-----------------------------------------------------------------------------
(* Facts about thread creation and joining. *)

BeforeFirst(f) == <<Entry[f], 0>>                  \* mutant: off by one

(* getFirstLoadStoreCallTerm of the entry block. *)
FirstOf(f) ==
  LET shown == {a \in Instr : a[1] = Entry[f]
                  /\ At(a).op \in {"load", "store", "create", "join", "fence", "assert_fail", "term"}}
  IN  CHOOSE a \in shown : \A c \in shown : a[2] <= c[2]

CreateMHB(a, b) == a \in CreateCall /\ b = FirstOf(At(a).fn)

(* The returns of the thread a join names come before the join. *)
JoinMHB(a, b) == b \in JoinCall /\ FuncOf(a) = At(b).fn /\ At(a).op = "term" /\ Succ[a[1]] = {}

(* addThreadLocalNotRead: the stores before the creation in its block and   *)
(* in the blocks the creation post-dominates.                               *)
StoresBefore(ci) ==
  {s \in Store :
     \/ s[1] = ci[1] /\ s[2] < ci[2]
     \/ s[1] # ci[1] /\ FuncOf(s) = FuncOf(ci) /\ PostDominates(ci[1], s[1])}

ThreadLocalNotRead(l, s) == \E ci \in CreateCall : At(ci).fn = FuncOf(l) /\ s \in StoresBefore(ci)

-----------------------------------------------------------------------------
(* addNoReorderRules and the rules of the memory models: which accesses to   *)
(* one variable keep their order.  addNoReoFunc2Func2 is given the same      *)
(* bound variable for both accesses, also by the calls for "double          *)
(* variables"; addNoReoFunc1Func2 and addNoReoFunc2Func1 use the bound       *)
(* variable of their second argument for the address of the access, too,     *)
(* be it the access itself or the fence: no access satisfies that.           *)
SingleVariableRules == {<<"load", "load">>, <<"load", "store">>, <<"store", "store">>}

DoubleVariableRules(mm) ==
  CASE mm = "tso" -> SingleVariableRules
    [] mm = "pso" -> {<<"load", "load">>, <<"load", "store">>}
    [] OTHER -> {}

NoReoFunc2Func2(mm, a, b) ==
  <<At(a).op, At(b).op>> \in SingleVariableRules \cup DoubleVariableRules(mm) /\ SameVar(a, b)

NoReoFunc1Func2(a, b) ==
  At(a).op = "fence" /\ At(b).op \in {"load", "store"} /\ At(b).ptr = b

NoReoFunc2Func1(a, b) ==
  At(a).op \in {"load", "store"} /\ At(b).op = "fence" /\ At(a).ptr = b

NothingReordered(mm, a, b) == TRUE              \* mutant: sequential consistency

NoReorder(mm, a, b) == NoReoFunc2Func2(mm, a, b) \/ NoReoFunc1Func2(a, b) \/ NoReoFunc2Func1(a, b)

DomAnyReach(mm, a, b) == Dom(a, b)              \* mutant: not-reach forgotten

(* addDomNotReachRule, addDomNotReachReorderRule *)
DomNotReach(mm, a, b) ==
  Dom(a, b) /\ NotReach(b, a) /\ (mm = "sc" \/ NoReorder(mm, a, b))

BaseMHB ==
  Table([mm \in Models |->
           Table([a \in Instr |->
                    {b \in Instr : CreateMHB(a, b) \/ JoinMHB(a, b) \/ DomNotReach(mm, a, b)}])])

ReadsFromMHBAnyStore(rf, mhb) ==                   \* mutant: the address of s2 not compared
  [a \in Instr |-> UNION {{s2 \in Store : s2 \in mhb[p[2]]} : p \in {q \in rf : q[1] = a}}]

(* addReadsFromMHB: a store that follows the one a load read from comes     *)
(* after the load.                                                          *)
ReadsFromMHB(rf, mhb) ==
  [a \in Instr |->
     UNION {{s2 \in Store : SameVar(s2, a) /\ s2 \in mhb[p[2]]} : p \in {q \in rf : q[1] = a}}]

(* must-happen-before under the reads-from facts rf.  addMHBNRFRule and     *)
(* addReadsFromIsMHB both say that what is read was written before.         *)
MHB(mm, rf) ==
  LET base == [a \in Instr |-> BaseMHB[mm][a] \cup {l \in Load : <<l, a>> \in rf}]
      Step(R) == [a \in Instr |-> Twice(R)[a] \cup ReadsFromMHB(rf, R)[a]]
  IN  LeastFix(Instr, Step, base)

(* addStoreCreateLoadFact: the rule for a store before the creation of a    *)
(* thread concludes (not-rf store load), the arguments the other way round. *)
StoreCreateLoad(mhb, a, b) ==
  a \in Store /\ b \in Load /\ \E ci \in CreateCall : At(ci).fn = FuncOf(b) /\ ci \in mhb[a]

(* addThreadLocalNotRead, addMHBNotReads, addOverwriteNotReads. *)
NotReadsFrom(rf, mhb, l, s) ==
  \/ ThreadLocalNotRead(l, s)
  \/ s \in mhb[l]
  \/ \E p \in rf : /\ p[2] = s
                   /\ SameVar(p[1], l)
                   /\ \E s2 \in Store : SameVar(s2, l) /\ s2 \in mhb[p[1]] /\ l \in mhb[s2]
  \/ StoreCreateLoad(mhb, l, s)

-----------------------------------------------------------------------------
(* Permutations. *)

Own == <<"own", 0>>   \* choice 0: the load reads from the thread's own memory

(* getInterferingStores, once every store has been reached. *)
InterferingStores == List({p \in Load \X Store : FuncOf(p[2]) # FuncOf(p[1]) /\ SameVar(p[2], p[1])})

Interfs(l) == {s \in Store : <<l, s>> \in InterferingStores}

ChoicesOf(l) == Interfs(l) \cup {Own}

InterfLoads(f) == {p[1] : p \in {q \in InterferingStores : FuncOf(q[1]) = f}}

LastStores(b) ==
  {s \in Store : s[1] = b /\ \A t \in Store : t[1] = b /\ SameVar(t, s) => t[2] <= s[2]}

(* getReachingStores: the stores that reach the entry of b. *)
ReachedFrom(s) ==
  LET v     == At(s).ptr
      Kills == {t[1] : t \in {t \in Store : At(t).ptr = v}}
  IN  Succ[s[1]] \cup UNION {TransClosure([b \in Node |-> IF b \in Kills THEN {} ELSE Succ[b]])[c]
                                : c \in Succ[s[1]]}

ReachingStores == Table([b \in Node |-> {s \in UNION {LastStores(c) : c \in Node} : b \in ReachedFrom(s)}])

(* getPreviousStores: the stores to v that may reach instruction a. *)
PreviousStores(a, v) ==
  LET before == {s \in Store : s[1] = a[1] /\ s[2] < a[2] /\ At(s).ptr = v}
  IN  UNION {IF own # {}
               THEN {s \in own : \A t \in own : t[2] <= s[2]}
               ELSE {s \in ReachingStores[a[1]] : At(s).ptr = v}
               : own \in {before}}

(* When none of the thread's own stores reaches a load, the ones before its *)
(* creation do: a function is the function of one thread.                   *)
CreateSiteOf(f) == {ci \in CreateCall : At(ci).fn = f}

PreviousStoresWithCreate(l) ==
  UNION {IF own # {} THEN own
         ELSE UNION {PreviousStores(ci, At(l).ptr) : ci \in CreateSiteOf(FuncOf(l))}
         : own \in {PreviousStores(l, At(l).ptr)}}

(* The store a load reads, when only one may reach it. *)
OnlyStore == Table([l \in Load |-> UNION {S \in {PreviousStoresWithCreate(l)} : Cardinality(S) = 1}])

(* testCurPerm: the reads-from facts of a permutation.  A load that reads   *)
(* from its own memory has one when a single store may reach it.            *)
InterfRF(perm) == {<<l, perm[l]>> : l \in {l \in DOMAIN perm : perm[l] # Own}}

SelfRF(perm) ==
  UNION {{l} \X OnlyStore[l] : l \in {l \in DOMAIN perm : perm[l] = Own}}

ViolatesProgOrder(mm, perm) ==
  \E rf \in {InterfRF(perm) \cup SelfRF(perm)} :
    \E mhb \in {MHB(mm, rf)}, p \in InterfRF(perm) : NotReadsFrom(rf, mhb, p[1], p[2])

Perms(f) == [InterfLoads(f) -> UNION {ChoicesOf(l) : l \in InterfLoads(f)}]

(* The permutations of the cartesian product that are analysed. *)
Feasible(mm, f) ==
  {p \in Perms(f) : (\A l \in DOMAIN p : p[l] \in ChoicesOf(l)) /\ ~ ViolatesProgOrder(mm, p)}

(* filterMHBInterfs: an interference that must come after the load. *)
FilteredByMHB ==
  Table([mm \in Models |->
           UNION {{p \in InterferingStores : p[2] \in mhb[p[1]]} : mhb \in {MHB(mm, {})}}])
=============================================================================
