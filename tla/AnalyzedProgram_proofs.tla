------------------------ MODULE AnalyzedProgram_proofs ------------------------
(***************************************************************************)
(* The analysis of a program beside its execution, for every program: the  *)
(* analysis is the iteration of Interference, whose theorem holds of it,   *)
(* and the execution, which starts when the analysis is done, changes      *)
(* nothing it reported.                                                    *)
(***************************************************************************)
EXTENDS AnalyzedProgram, BBOps_proofs

P == INSTANCE Interference_proofs WITH
       Func <- DOMAIN Entry, Load <- LoadSite, Store <- StoreSite, Create <- CreateSite,
       Error <- ErrorSite, InitFact <- GetInitState, Bot <- Bottom, Join <- FactJoin, ViolatesProgOrder <- ViolatesSC

(* The instance the theorems come with is the one AnalyzedProgram is made of. *)
LEMMA SameThreadAnalysis ==
  /\ A!AnalyzeThread = P!AnalyzeThread
  /\ A!Fixpoint = P!Fixpoint
  BY Zenon DEF A!AnalyzeThread, P!AnalyzeThread, A!Fixpoint, P!Fixpoint, A!NoThreads, P!NoThreads,
    A!FinalSites, P!FinalSites, A!FilterMHBInterfs, P!FilterMHBInterfs, A!InterferingStores,
    P!InterferingStores, A!InterferingAt, P!InterferingAt, A!SiteFunc, P!SiteFunc, A!MainSite,
    P!MainSite, A!AssertFails, P!AssertFails, A!Rejected, P!Rejected, A!PermsOf, P!PermsOf,
    A!Ordered, P!Ordered, A!Violates, P!Violates, A!Choice, P!Choice, A!AnalyzeThreadInterf,
    P!AnalyzeThreadInterf, A!MergeReached, P!MergeReached, A!JoinAll, P!JoinAll, A!EntryFact,
    P!EntryFact, A!InterfMaps, P!InterfMaps, A!JoinInterfs, P!JoinInterfs, A!InterfMap,
    P!InterfMap, A!UpdateCache, P!UpdateCache, A!UpdateStores, P!UpdateStores, A!RestrictTo,
    P!RestrictTo, A!UpdateEntryFacts, P!UpdateEntryFacts, A!NewSites, P!NewSites, A!Range,
    P!Range, A!FoldSet, P!FoldSet, A!MapThenFoldSet, P!MapThenFoldSet, A!Max, P!Max,
    A!Cardinality, P!Cardinality

LEMMA SameIteration ==
  /\ A!ConstantsOK = P!ConstantsOK
  /\ A!Init = P!Init
  /\ A!Next = P!Next
  /\ A!vars = P!vars
  /\ A!NoneMissed = P!NoneMissed
  /\ A!AbortsExpected = P!AbortsExpected
  /\ A!TypeOK = P!TypeOK
<1>1. A!ConstantsOK = P!ConstantsOK
  BY Zenon DEF A!ConstantsOK, P!ConstantsOK, A!MainSite, P!MainSite, A!IsFiniteSet, P!IsFiniteSet
<1>2. A!Init = P!Init
  BY Zenon DEF A!Init, P!Init, A!CheckCommandLineArgs, P!CheckCommandLineArgs, A!WithDynInit,
    P!WithDynInit, A!ValidArgs, P!ValidArgs, A!ThreadSites, P!ThreadSites, A!MainSite,
    P!MainSite, A!SiteFunc, P!SiteFunc, A!Range, P!Range
<1>3. A!Abort = P!Abort
  BY Zenon DEF A!Abort, P!Abort, A!AssertFails, P!AssertFails, A!FilterMHBInterfs,
    P!FilterMHBInterfs, A!SiteFunc, P!SiteFunc, A!MainSite, P!MainSite
<1>4. A!Finish = P!Finish
  BY Zenon DEF A!Finish, P!Finish, A!NoThreads, P!NoThreads, A!StableStores, P!StableStores
<1>5. A!NextIteration = P!NextIteration
  BY Zenon DEF A!NextIteration, P!NextIteration, A!NoThreads, P!NoThreads, A!StableStores,
    P!StableStores, A!InterferingStores, P!InterferingStores, A!InterferingAt, P!InterferingAt,
    A!ThreadSites, P!ThreadSites, A!MainSite, P!MainSite
<1>6. A!vars = P!vars
  BY Zenon DEF A!vars, P!vars
<1>7. A!NoneMissed = P!NoneMissed
  BY Zenon DEF A!NoneMissed, P!NoneMissed, A!NoThreads, P!NoThreads, A!InterferingStores,
    P!InterferingStores, A!InterferingAt, P!InterferingAt
<1>8. A!AbortsExpected = P!AbortsExpected
  BY Zenon DEF A!AbortsExpected, P!AbortsExpected
<1>9. A!TypeOK = P!TypeOK
  BY Zenon DEF A!TypeOK, P!TypeOK, A!CheckCommandLineArgs, P!CheckCommandLineArgs, A!WithDynInit,
    P!WithDynInit, A!ValidArgs, P!ValidArgs, A!MainSite, P!MainSite, A!Facts, P!Facts
<1>10. QED
  BY <1>1, <1>2, <1>3, <1>4, <1>5, <1>6, <1>7, <1>8, <1>9, SameThreadAnalysis DEF A!Next, P!Next

(* Each step of the whole is one of the iteration, or leaves it alone: a    *)
(* run of the program changes nothing the analysis reported.                *)
LEMMA StepOfIteration ==
  ASSUME [Next]_allVars
  PROVE  [P!Next]_(P!vars)
<1>1. CASE Analyze
  BY <1>1, SameIteration DEF Analyze
<1>2. CASE RunThread
  BY <1>2 DEF RunThread, P!vars
<1>3. CASE UNCHANGED allVars
  BY <1>3 DEF allVars, A!vars, P!vars
<1>4. QED BY <1>1, <1>2, <1>3 DEF Next

LEMMA InitOfIteration == Init => P!Init
  BY SameIteration DEF Init

(* The analysis of a program beside its execution implements the iteration  *)
(* (worklistai.cpp: runOnModule).                                           *)
THEOREM ImplementsInterference == Spec => P!Init /\ [][P!Next]_(P!vars)
<1>1. QED BY InitOfIteration, StepOfIteration, PTL DEF Spec

LEMMA ConstantsRight == P!ConstantsOK
  BY ConstantsAssumption, SameIteration

(* For every program, with the transfer functions of BBOps and the          *)
(* constraints of Constraints: when the analysis of threads all known from  *)
(* the start ends, and while the program runs, no store that may interfere  *)
(* with a load is missing from what its thread was last analysed with, and  *)
(* that although the iteration stops without computing the interferences    *)
(* again (worklistai.cpp: runOnModule, stableStores).                       *)
THEOREM NoInterferenceMissed == Spec => []NoneMissed
<1>1. Init => P!InterfInv
  BY InitOfIteration, ConstantsRight, P!InitEstablishes
<1>2. P!InterfInv /\ [Next]_allVars => P!InterfInv'
  BY StepOfIteration, ConstantsRight, P!StepKeeps
<1>3. P!InterfInv => NoneMissed
  BY P!InvImplies, SameIteration DEF NoneMissed
<1>4. QED BY <1>1, <1>2, <1>3, PTL DEF Spec

-----------------------------------------------------------------------------
(* The facts of the boxes are what the iteration needs of facts. *)

LEMMA OnlyBottomBelow ==
  ASSUME NEW f \in Fact, Leq(f, Bottom)
  PROVE  f = Bottom
<1>1. Bottom \in Fact /\ Leq(Bottom, f)
  BY BoxesAreALattice
<1>2. QED BY <1>1, BoxesAreALattice

LEMMA InitStateIs == GetInitState \in Fact
<1>1. ASSUME NEW c \in Lo .. Hi PROVE {c} \in Interval
  <2>1. c .. c = {c}
    BY RangeAssumption
  <2>2. c <= c
    BY RangeAssumption
  <2>3. QED BY <2>1, <2>2, IntervalFrom
<1>2. \A v \in Var : Top[v] \in Interval
  <2>1. Lo .. Hi \in Interval
    BY RangeAssumption, IntervalFrom
  <2>2. QED BY <2>1 DEF Top
<1>3. \A v \in Var : (IF v \in DOMAIN Initializer THEN {Initializer[v]} ELSE Top[v]) \in Interval
  BY <1>1, <1>2, ProgramAssumption
<1>4. QED BY <1>3 DEF GetInitState, Fact

LEMMA FactsRight == P!FactsOK
<1>1. Bottom \in Fact /\ GetInitState \in Fact
  BY BoxesAreALattice, InitStateIs
<1>2. \A f \in Fact : Leq(f, f) /\ Leq(Bottom, f) /\ (Leq(f, Bottom) => f = Bottom)
  BY BoxesAreALattice, OnlyBottomBelow
<1>3. QED BY <1>1, <1>2, BoxesAreALattice DEF P!FactsOK

-----------------------------------------------------------------------------
(* The analysis of a function without loops ends: each visit leaves work    *)
(* only at later blocks.                                                    *)

Works == [list : [Block -> Fact], state : [Block -> Fact], reached : [Recorded -> Fact]]

Passed(w, b, t, g, nc) ==
  IF t \in SuccOf[b] THEN RunTransferFuncs(b, w.list[b], t, g, nc) ELSE Bottom

LEMMA VisitIs ==
  ASSUME NEW w \in Works, NEW b \in Block, NEW nc \in BOOLEAN, NEW g, IsInterf(g, nc)
  PROVE  /\ Visit(w, b, g, nc) \in Works
         /\ Leq(w.list[b], w.state[b]) =>
              Visit(w, b, g, nc) = [w EXCEPT !.list = [w.list EXCEPT ![b] = Bottom]]
         /\ ~ Leq(w.list[b], w.state[b]) =>
              /\ \A t \in Block : Visit(w, b, g, nc).list[t] =
                   FactJoin(IF t = b THEN Bottom ELSE w.list[t], Passed(w, b, t, g, nc))
              /\ \A t \in Block : Visit(w, b, g, nc).state[t] = IF t = b THEN w.list[b] ELSE w.state[t]
              /\ \A s \in Recorded : Visit(w, b, g, nc).reached[s] =
                   IF s[1] = b THEN FactJoin(w.reached[s], RecordedAt(b, w.list[b], s, g, nc))
                   ELSE w.reached[s]
<1> DEFINE v == Visit(w, b, g, nc)
           rest == [w.list EXCEPT ![b] = Bottom]
           list == [t \in Block |-> FactJoin(rest[t], Passed(w, b, t, g, nc))]
           state == [w.state EXCEPT ![b] = w.list[b]]
           reached == [s \in Recorded |->
                         IF s[1] = b THEN FactJoin(w.reached[s], RecordedAt(b, w.list[b], s, g, nc))
                         ELSE w.reached[s]]
<1>1. /\ w.list \in [Block -> Fact] /\ w.state \in [Block -> Fact] /\ w.reached \in [Recorded -> Fact]
      /\ w.list[b] \in Fact /\ Bottom \in Fact
  BY BoxesAreALattice DEF Works
<1>2. rest \in [Block -> Fact] /\ state \in [Block -> Fact]
  BY <1>1
<1>3. list \in [Block -> Fact]
  <2>1. ASSUME NEW t \in Block PROVE FactJoin(rest[t], Passed(w, b, t, g, nc)) \in Fact
    <3>1. Passed(w, b, t, g, nc) \in Fact
      BY <1>1, RunTransferFuncsIs DEF Passed
    <3>2. rest[t] \in Fact
      BY <1>2
    <3>3. QED BY <3>1, <3>2, FactJoinIsLeastUpperBound
  <2>2. QED BY <2>1
<1>4. reached \in [Recorded -> Fact]
  <2>1. ASSUME NEW s \in Recorded, s[1] = b
        PROVE  FactJoin(w.reached[s], RecordedAt(b, w.list[b], s, g, nc)) \in Fact
    <3>1. w.reached[s] \in Fact /\ RecordedAt(s[1], w.list[b], s, g, nc) \in Fact
      BY <1>1, RecordedIs
    <3>2. QED BY <2>1, <3>1, FactJoinIsLeastUpperBound
  <2>2. QED BY <1>1, <2>1
<1>5. v = IF Leq(w.list[b], w.state[b]) THEN [w EXCEPT !.list = rest]
          ELSE [list |-> list, state |-> state, reached |-> reached]
  BY Zenon DEF Visit, Passed
<1> HIDE DEF v
<1>6. CASE Leq(w.list[b], w.state[b])
  <2>1. v = [w EXCEPT !.list = rest]
    BY <1>5, <1>6
  <2> HIDE DEF rest
  <2>2. v \in Works
    BY <1>2, <2>1 DEF Works
  <2>3. QED BY <1>6, <2>1, <2>2 DEF v, rest
<1>7. CASE ~ Leq(w.list[b], w.state[b])
  <2>1. v = [list |-> list, state |-> state, reached |-> reached]
    BY <1>5, <1>7
  <2>2. \A t \in Block : rest[t] = IF t = b THEN Bottom ELSE w.list[t]
    BY <1>1
  <2>3. \A t \in Block : list[t] = FactJoin(IF t = b THEN Bottom ELSE w.list[t], Passed(w, b, t, g, nc))
    BY <2>2
  <2>4. \A t \in Block : state[t] = IF t = b THEN w.list[b] ELSE w.state[t]
    BY <1>1
  <2>5. \A s \in Recorded : reached[s] =
          IF s[1] = b THEN FactJoin(w.reached[s], RecordedAt(b, w.list[b], s, g, nc)) ELSE w.reached[s]
    OBVIOUS
  <2> HIDE DEF rest, list, state, reached
  <2>6. v \in Works /\ v.list = list /\ v.state = state /\ v.reached = reached
    BY <1>2, <1>3, <1>4, <2>1 DEF Works
  <2>7. QED BY <1>7, <2>3, <2>4, <2>5, <2>6 DEF v
<1>8. QED BY <1>6, <1>7

First(w) == Min2(Waiting(w))

LEMMA OrderIs ==
  /\ Len(BlockOrder) \in Nat /\ DOMAIN BlockOrder = 1 .. Len(BlockOrder)
  /\ \A i \in DOMAIN BlockOrder : BlockOrder[i] \in Block
  BY ProgramAssumption

LEMMA FirstIs ==
  ASSUME NEW w, Waiting(w) # {}
  PROVE  /\ First(w) \in DOMAIN BlockOrder /\ First(w) \in Nat /\ BlockOrder[First(w)] \in Block
         /\ w.list[BlockOrder[First(w)]] # Bottom
         /\ \A i \in Waiting(w) : First(w) <= i
<1>1. Waiting(w) \in SUBSET Nat
  BY OrderIs DEF Waiting
<1>2. PICK k \in Waiting(w) : \A i \in Waiting(w) : k <= i
  BY <1>1, LeastOf
<1>3. First(w) \in Waiting(w) /\ \A i \in Waiting(w) : First(w) <= i
  BY <1>2 DEF First, Min2
<1>4. QED BY <1>1, <1>3, OrderIs DEF Waiting, IsBottom

LEMMA JoinBottom ==
  ASSUME NEW f \in Fact
  PROVE  FactJoin(f, Bottom) = f /\ FactJoin(Bottom, f) = f
<1>1. Bottom \in Fact /\ Leq(Bottom, f) /\ Leq(f, f)
  BY BoxesAreALattice
<1>2. /\ FactJoin(f, Bottom) \in Fact /\ Leq(f, FactJoin(f, Bottom)) /\ Leq(FactJoin(f, Bottom), f)
      /\ FactJoin(Bottom, f) \in Fact /\ Leq(f, FactJoin(Bottom, f)) /\ Leq(FactJoin(Bottom, f), f)
  BY <1>1, FactJoinIsLeastUpperBound
<1>3. QED BY <1>2, BoxesAreALattice

LEMMA VisitGoesOn ==
  ASSUME LoopFree, NEW w \in Works, Waiting(w) # {}, NEW nc \in BOOLEAN, NEW g, IsInterf(g, nc)
  PROVE  \A i \in Waiting(Visit(w, BlockOrder[First(w)], g, nc)) : First(w) < i
<1> DEFINE b == BlockOrder[First(w)]
           v == Visit(w, b, g, nc)
<1>1. First(w) \in DOMAIN BlockOrder /\ First(w) \in Nat /\ b \in Block
  BY FirstIs
<1>2. SUFFICES ASSUME NEW i \in DOMAIN BlockOrder, i <= First(w)
               PROVE  v.list[BlockOrder[i]] = Bottom
  <2>1. DOMAIN BlockOrder \in SUBSET Nat
    BY OrderIs
  <2> HIDE DEF v
  <2>2. ASSUME NEW i \in Waiting(v) PROVE First(w) < i
    <3>1. i \in DOMAIN BlockOrder /\ v.list[BlockOrder[i]] # Bottom
      BY DEF Waiting, IsBottom
    <3>2. ~ (i <= First(w))
      BY <1>2, <3>1
    <3>3. QED BY <1>1, <2>1, <3>1, <3>2
  <2>3. QED BY <2>2 DEF v
<1> DEFINE t == BlockOrder[i]
<1>3. t \in Block /\ i \in Nat /\ t \notin SuccOf[b]
  BY <1>1, <1>2, OrderIs DEF LoopFree
<1>4. t # b => w.list[t] = Bottom
  <2>1. t # b => i \notin Waiting(w)
    BY <1>1, <1>2, <1>3, FirstIs
  <2>2. QED BY <2>1 DEF Waiting, IsBottom
<1>5. CASE Leq(w.list[b], w.state[b])
  <2>1. v = [w EXCEPT !.list = [w.list EXCEPT ![b] = Bottom]]
    BY <1>1, <1>5, VisitIs
  <2>2. w.list \in [Block -> Fact]
    BY DEF Works
  <2> HIDE DEF v, b, t
  <2>3. v.list = [w.list EXCEPT ![b] = Bottom]
    BY <2>1 DEF Works
  <2>4. QED BY <1>1, <1>3, <1>4, <2>2, <2>3 DEF t
<1>6. CASE ~ Leq(w.list[b], w.state[b])
  <2>1. v.list[t] = FactJoin(IF t = b THEN Bottom ELSE w.list[t], Passed(w, b, t, g, nc))
    BY <1>1, <1>3, <1>6, VisitIs
  <2>2. Passed(w, b, t, g, nc) = Bottom /\ (IF t = b THEN Bottom ELSE w.list[t]) = Bottom
    BY <1>3, <1>4 DEF Passed
  <2>3. FactJoin(Bottom, Bottom) = Bottom
    BY JoinBottom, BoxesAreALattice
  <2>4. QED BY <2>1, <2>2, <2>3
<1>7. QED BY <1>5, <1>6

WorkOf(interf, nocombs) ==
  LET Work[w \in [list : [Block -> Fact], state : [Block -> Fact], reached : [Recorded -> Fact]]] ==
        IF Waiting(w) = {} THEN w.reached
        ELSE Work[Visit(w, BlockOrder[Min2(Waiting(w))], interf, nocombs)]
  IN  Work

(* The work left at n blocks or fewer. *)
Within(w, n) == \A i \in Waiting(w) : Len(BlockOrder) - n < i

Solved(h, w, g, nc) ==
  h[w] = IF Waiting(w) = {} THEN w.reached ELSE h[Visit(w, BlockOrder[First(w)], g, nc)]

LEMMA WithinIs ==
  ASSUME LoopFree, NEW w \in Works, Waiting(w) # {}, NEW nc \in BOOLEAN, NEW g, IsInterf(g, nc),
         NEW n \in Nat, Within(w, n + 1)
  PROVE  Within(Visit(w, BlockOrder[First(w)], g, nc), n)
<1>1. First(w) \in Waiting(w)
  BY FirstIs DEF Waiting, IsBottom
<1>2. Len(BlockOrder) - (n + 1) < First(w) /\ First(w) \in Nat /\ Len(BlockOrder) \in Nat
  BY <1>1, FirstIs, OrderIs DEF Within
<1>3. \A i \in Waiting(Visit(w, BlockOrder[First(w)], g, nc)) : First(w) < i /\ i \in Nat
  BY VisitGoesOn, OrderIs DEF Waiting
<1>4. QED BY <1>2, <1>3 DEF Within

LEMMA WithinAll ==
  ASSUME NEW w
  PROVE  Within(w, Len(BlockOrder)) /\ (Within(w, 0) => Waiting(w) = {})
<1>1. \A i \in Waiting(w) : i \in 1 .. Len(BlockOrder)
  BY OrderIs DEF Waiting
<1>2. QED BY <1>1, OrderIs DEF Within

LEMMA WorkIs ==
  ASSUME LoopFree, NEW nc \in BOOLEAN, NEW g, IsInterf(g, nc)
  PROVE  \A w \in Works : Solved(WorkOf(g, nc), w, g, nc)
<1> DEFINE Next1(w) == Visit(w, BlockOrder[First(w)], g, nc)
           Body(h) == [w \in Works |-> IF Waiting(w) = {} THEN w.reached ELSE h[Next1(w)]]
           Upto == {n \in Nat : \E h : \A w \in Works : Within(w, n) => Solved(h, w, g, nc)}
<1>1. \A w \in Works : Waiting(w) # {} => Next1(w) \in Works
  BY FirstIs, VisitIs
<1>2. 0 \in Upto
  <2> DEFINE h == [w \in Works |-> w.reached]
  <2>1. \A w \in Works : Within(w, 0) => Solved(h, w, g, nc)
    BY WithinAll DEF Solved
  <2>2. QED BY <2>1
<1>3. ASSUME NEW n \in Nat, n \in Upto PROVE n + 1 \in Upto
  <2>1. PICK h : \A w \in Works : Within(w, n) => Solved(h, w, g, nc)
    BY <1>3
  <2>2. ASSUME NEW w \in Works, Within(w, n + 1) PROVE Solved(Body(h), w, g, nc)
    <3>1. CASE Waiting(w) = {}
      BY <3>1 DEF Solved
    <3>2. CASE Waiting(w) # {}
      <4> DEFINE v == Next1(w)
      <4>1. v \in Works /\ Within(v, n)
        BY <1>1, <2>2, <3>2, WithinIs
      <4> HIDE DEF v
      <4>2. Body(h)[v] = h[v]
        BY <2>1, <4>1 DEF Solved
      <4>3. Body(h)[w] = h[v]
        BY <3>2 DEF v
      <4> HIDE DEF Body
      <4>4. QED BY <3>2, <4>2, <4>3 DEF Solved, v
    <3>3. QED BY <3>1, <3>2
  <2> HIDE DEF Body
  <2>3. QED BY <2>2
<1>4. PICK h : \A w \in Works : Solved(h, w, g, nc)
  <2>1. Len(BlockOrder) \in Upto
    <3> HIDE DEF Upto
    <3>1. QED BY <1>2, <1>3, OrderIs, AllNumbers
  <2>2. QED BY <2>1, WithinAll
<1> DEFINE H == Body(h)
<1>5. H = Body(H)
  <2>1. ASSUME NEW w \in Works PROVE H[w] = Body(H)[w]
    <3>1. CASE Waiting(w) = {}
      BY <3>1
    <3>2. CASE Waiting(w) # {}
      <4> DEFINE v == Next1(w)
      <4>1. v \in Works
        BY <1>1, <3>2
      <4>2. H[w] = h[v] /\ Body(H)[w] = H[v]
        BY <3>2
      <4> HIDE DEF v
      <4>3. H[v] = h[v]
        BY <1>4, <4>1 DEF Solved
      <4> HIDE DEF H, Body
      <4>4. QED BY <4>2, <4>3
    <3>3. QED BY <3>1, <3>2
  <2>2. QED BY <2>1
<1>6. WorkOf(g, nc) = CHOOSE a : a = Body(a)
  BY DEF WorkOf, Works, First
<1> DEFINE a == WorkOf(g, nc)
<1>7. a = Body(a)
  <2> HIDE DEF Body, H
  <2>1. QED BY <1>5, <1>6, Zenon
<1>8. \A w \in Works : a[w] = IF Waiting(w) = {} THEN w.reached ELSE a[Next1(w)]
  <2>1. \A w \in Works : Body(a)[w] = IF Waiting(w) = {} THEN w.reached ELSE a[Next1(w)]
    OBVIOUS
  <2> HIDE DEF Body, a
  <2>2. QED BY <1>7, <2>1, Zenon
<1> HIDE DEF a
<1>9. QED BY <1>8, Zenon DEF Solved, a

(* What every visit keeps holds at the end. *)
Kept(S, g, nc) == \A w \in S : Waiting(w) # {} => Visit(w, BlockOrder[First(w)], g, nc) \in S

EndsIn(S, g, nc) == \A w \in S : \E v \in S : Waiting(v) = {} /\ WorkOf(g, nc)[w] = v.reached

LEMMA WorkEnds ==
  ASSUME LoopFree, NEW nc \in BOOLEAN, NEW g, IsInterf(g, nc), NEW S \in SUBSET Works, Kept(S, g, nc)
  PROVE  EndsIn(S, g, nc)
<1> DEFINE Ends(w) == \E v \in S : Waiting(v) = {} /\ WorkOf(g, nc)[w] = v.reached
           Upto == {n \in Nat : \A w \in S : Within(w, n) => Ends(w)}
<1>1. ASSUME NEW w \in S, Waiting(w) = {} PROVE Ends(w)
  BY <1>1, WorkIs DEF Solved
<1>2. 0 \in Upto
  BY <1>1, WithinAll
<1>3. ASSUME NEW n \in Nat, n \in Upto PROVE n + 1 \in Upto
  <2>1. ASSUME NEW w \in S, Within(w, n + 1), Waiting(w) # {} PROVE Ends(w)
    <3> DEFINE x == Visit(w, BlockOrder[First(w)], g, nc)
    <3>1. x \in S /\ Within(x, n)
      BY <2>1, WithinIs DEF Kept
    <3>2. WorkOf(g, nc)[w] = WorkOf(g, nc)[x]
      BY <2>1, WorkIs DEF Solved
    <3>3. Ends(x)
      BY <1>3, <3>1
    <3>4. QED BY <3>2, <3>3
  <2> HIDE DEF Ends
  <2>2. QED BY <1>1, <2>1
<1>4. Len(BlockOrder) \in Upto
  <2> HIDE DEF Upto
  <2>1. QED BY <1>2, <1>3, OrderIs, AllNumbers
<1>5. \A w \in S : Ends(w)
  <2> HIDE DEF Ends
  <2>1. QED BY <1>4, WithinAll
<1>6. QED BY <1>5 DEF EndsIn

-----------------------------------------------------------------------------
(* The analysis of a function without loops computes the least solution of  *)
(* its flow equations: In[b] is the fact at the start of b, R[s] what is    *)
(* recorded at s.                                                           *)

IsSolution(f, e, In, R, g, nc) ==
  /\ In \in [Block -> Fact] /\ R \in [Recorded -> Fact]
  /\ Leq(e, In[Entry[f]])
  /\ \A b \in Block : In[b] # Bottom =>
       /\ \A t \in SuccOf[b] : Leq(RunTransferFuncs(b, In[b], t, g, nc), In[t])
       /\ \A s \in Recorded : s[1] = b => Leq(RecordedAt(b, In[b], s, g, nc), R[s])

(* Below a solution for larger interferences, up to the n-th block. *)
Under(w, n, In, R) ==
  \A i \in DOMAIN BlockOrder :
    /\ i <= n => Leq(w.list[BlockOrder[i]], In[BlockOrder[i]]) /\ Leq(w.state[BlockOrder[i]], In[BlockOrder[i]])
    /\ i < n => \A s \in Recorded : s[1] = BlockOrder[i] => Leq(w.reached[s], R[s])

IsAbove(f, e, g, nc, n, In, R, k, d) ==
  /\ n \in Nat /\ d \in Fact /\ Leq(e, d) /\ IsInterf(k, nc) /\ IsSolution(f, d, In, R, k, nc)
  /\ \A i \in DOMAIN BlockOrder : i < n => BelowIn(g, k, nc, BlockOrder[i])

Least(w, f, e, g, nc) ==
  \A n, In, R, k, d : IsAbove(f, e, g, nc, n, In, R, k, d) => Under(w, n, In, R)

LEMMA BottomBelow ==
  ASSUME NEW f \in Fact
  PROVE  Bottom \in Fact /\ Leq(Bottom, f)
  BY BoxesAreALattice

LEMMA NotBottomAbove ==
  ASSUME NEW f \in Fact, NEW h \in Fact, Leq(f, h), f # Bottom
  PROVE  h # Bottom
  BY OnlyBottomBelow

LEMMA VisitUnder ==
  ASSUME LoopFree, NEW w \in Works, Waiting(w) # {}, NEW f, NEW e, NEW nc \in BOOLEAN, NEW g, IsInterf(g, nc),
         NEW n, NEW In, NEW R, NEW k, NEW d, IsAbove(f, e, g, nc, n, In, R, k, d), Under(w, n, In, R)
  PROVE  Under(Visit(w, BlockOrder[First(w)], g, nc), n, In, R)
<1> DEFINE b == BlockOrder[First(w)]
           v == Visit(w, b, g, nc)
<1>1. /\ First(w) \in DOMAIN BlockOrder /\ First(w) \in Nat /\ b \in Block /\ w.list[b] # Bottom
      /\ n \in Nat /\ DOMAIN BlockOrder \in SUBSET Nat
  BY FirstIs, OrderIs DEF IsAbove
<1>2. /\ w.list \in [Block -> Fact] /\ w.state \in [Block -> Fact] /\ w.reached \in [Recorded -> Fact]
      /\ In \in [Block -> Fact] /\ R \in [Recorded -> Fact]
  BY DEF Works, IsAbove, IsSolution
<1>3. SUFFICES ASSUME NEW i \in DOMAIN BlockOrder
               PROVE  /\ i <= n => Leq(v.list[BlockOrder[i]], In[BlockOrder[i]]) /\ Leq(v.state[BlockOrder[i]], In[BlockOrder[i]])
                      /\ i < n => \A s \in Recorded : s[1] = BlockOrder[i] => Leq(v.reached[s], R[s])
  BY DEF Under
<1> DEFINE t == BlockOrder[i]
<1>4. t \in Block /\ i \in Nat
  BY <1>1, OrderIs
<1>5. CASE Leq(w.list[b], w.state[b])
  <2>1. v = [w EXCEPT !.list = [w.list EXCEPT ![b] = Bottom]]
    BY <1>1, <1>5, VisitIs
  <2> HIDE DEF v, b
  <2>2. v.list = [w.list EXCEPT ![b] = Bottom] /\ v.state = w.state /\ v.reached = w.reached
    BY <2>1 DEF Works
  <2>3. v.list[t] = Bottom \/ v.list[t] = w.list[t]
    BY <1>2, <1>4, <2>2
  <2>4. In[t] \in Fact
    BY <1>2, <1>4
  <2>5. QED BY <1>3, <2>2, <2>3, <2>4, BottomBelow DEF Under
<1>6. CASE ~ Leq(w.list[b], w.state[b])
  <2>1. /\ v.list[t] = FactJoin(IF t = b THEN Bottom ELSE w.list[t], Passed(w, b, t, g, nc))
        /\ v.state[t] = IF t = b THEN w.list[b] ELSE w.state[t]
        /\ \A s \in Recorded : v.reached[s] =
             IF s[1] = b THEN FactJoin(w.reached[s], RecordedAt(b, w.list[b], s, g, nc)) ELSE w.reached[s]
    BY <1>1, <1>4, <1>6, VisitIs
  <2>2. In[t] \in Fact /\ In[b] \in Fact /\ w.list[t] \in Fact /\ w.list[b] \in Fact
    BY <1>1, <1>2, <1>4
  <2>3. ASSUME First(w) < n
        PROVE  /\ Leq(w.list[b], In[b]) /\ In[b] # Bottom
               /\ IsInterf(k, nc) /\ BelowIn(g, k, nc, b)
    <3>1. Leq(w.list[b], In[b])
      BY <1>1, <2>3 DEF Under
    <3>2. BelowIn(g, k, nc, b) /\ IsInterf(k, nc)
      BY <1>1, <2>3 DEF IsAbove
    <3> HIDE DEF b
    <3>3. QED BY <1>1, <2>2, <3>1, <3>2, NotBottomAbove
  <2>4. ASSUME i <= n PROVE Leq(v.list[t], In[t]) /\ Leq(v.state[t], In[t])
    <3>1. Leq(w.list[t], In[t]) /\ Leq(w.state[t], In[t])
      BY <2>4 DEF Under
    <3>2. Passed(w, b, t, g, nc) \in Fact /\ Leq(Passed(w, b, t, g, nc), In[t])
      <4>1. CASE t \in SuccOf[b]
        <5>1. First(w) < i
          BY <1>1, <4>1 DEF LoopFree
        <5>2. First(w) < n
          BY <1>1, <1>4, <2>4, <5>1
        <5>3. Leq(w.list[b], In[b]) /\ In[b] # Bottom /\ IsInterf(k, nc) /\ BelowIn(g, k, nc, b)
          BY <2>3, <5>2
        <5> DEFINE x == RunTransferFuncs(b, w.list[b], t, g, nc)
                   y == RunTransferFuncs(b, In[b], t, k, nc)
        <5>4. x \in Fact /\ Leq(x, y)
          BY <1>1, <2>2, <5>3, RunTransferFuncsIs
        <5>5. y \in Fact /\ Leq(y, In[t])
          BY <1>1, <2>2, <4>1, <5>3, RunTransferFuncsIs DEF IsAbove, IsSolution
        <5>6. Passed(w, b, t, g, nc) = x
          BY <4>1 DEF Passed
        <5> HIDE DEF x, y
        <5>7. QED BY <5>4, <5>5, <5>6, LeqTransitive
      <4>2. CASE t \notin SuccOf[b]
        BY <2>2, <4>2, BottomBelow DEF Passed
      <4>3. QED BY <4>1, <4>2
    <3>3. (IF t = b THEN Bottom ELSE w.list[t]) \in Fact /\ Leq(IF t = b THEN Bottom ELSE w.list[t], In[t])
      BY <2>2, <3>1, BottomBelow
    <3>4. Leq(v.list[t], In[t])
      BY <2>1, <2>2, <3>2, <3>3, FactJoinIsLeastUpperBound
    <3>5. Leq(v.state[t], In[t])
      <4>1. CASE t = b
        <5>1. Leq(w.list[t], In[t]) /\ v.state[t] = w.list[t]
          BY <2>1, <3>1, <4>1
        <5>2. QED BY <5>1
      <4>2. CASE t # b
        BY <2>1, <3>1, <4>2
      <4>3. QED BY <4>1, <4>2
    <3>6. QED BY <3>4, <3>5
  <2>5. ASSUME i < n, NEW s \in Recorded, s[1] = t PROVE Leq(v.reached[s], R[s])
    <3>1. Leq(w.reached[s], R[s]) /\ w.reached[s] \in Fact /\ R[s] \in Fact
      BY <1>2, <2>5 DEF Under
    <3>2. CASE t = b
      <4>1. First(w) = i
        BY <1>1, <3>2, ProgramAssumption
      <4>2. Leq(w.list[b], In[b]) /\ In[b] # Bottom /\ IsInterf(k, nc) /\ BelowIn(g, k, nc, b)
        BY <2>3, <2>5, <4>1
      <4> DEFINE x == RecordedAt(b, w.list[b], s, g, nc)
                 y == RecordedAt(b, In[b], s, k, nc)
      <4>3. s[1] = b
        BY <2>5, <3>2
      <4>4. x \in Fact /\ Leq(x, y)
        BY <2>2, <4>2, <4>3, RecordedIs
      <4>5. y \in Fact /\ Leq(y, R[s])
        BY <1>1, <2>2, <4>2, <4>3, RecordedIs DEF IsAbove, IsSolution
      <4>6. v.reached[s] = FactJoin(w.reached[s], x)
        BY <2>1, <4>3
      <4> HIDE DEF x, y
      <4>7. Leq(x, R[s])
        BY <4>4, <4>5, LeqTransitive
      <4>8. QED BY <3>1, <4>4, <4>6, <4>7, FactJoinIsLeastUpperBound
    <3>3. CASE t # b
      BY <2>1, <2>5, <3>1, <3>3
    <3>4. QED BY <3>2, <3>3
  <2>6. QED BY <2>4, <2>5
<1>7. QED BY <1>5, <1>6

(* A block has been visited, once, or its fact still waits. *)
Val(w, b) == IF w.state[b] = Bottom THEN w.list[b] ELSE w.state[b]

Swept(w, f, e, g, nc) ==
  /\ \A i \in Waiting(w), j \in DOMAIN BlockOrder : i <= j => w.state[BlockOrder[j]] = Bottom
  /\ Leq(e, Val(w, Entry[f]))
  /\ \A b \in Block : Val(w, b) # Bottom => Prog[b].fn = f
  /\ \A b \in Block : w.state[b] = Bottom => \A s \in Recorded : s[1] = b => w.reached[s] = Bottom
  /\ \A b \in Block : w.state[b] # Bottom =>
       /\ \A t \in SuccOf[b] : Leq(RunTransferFuncs(b, w.state[b], t, g, nc), Val(w, t))
       /\ \A s \in Recorded : s[1] = b => w.reached[s] = RecordedAt(b, w.state[b], s, g, nc)

LEMMA SuccIsBlock ==
  ASSUME NEW b \in Block, NEW t \in SuccOf[b]
  PROVE  t \in Block
<1> DEFINE u == Prog[b].term
<1>1. IsTerminator(u)
  BY CodeAssumption
<1>2. SuccOf[b] = {u.succ[k] : k \in DOMAIN u.succ}
  BY DEF SuccOf, Range
<1>3. PICK k \in DOMAIN u.succ : t = u.succ[k]
  BY <1>2
<1>4. CASE u.kind = "br"
  <2>1. u.succ \in Block \X Block
    BY <1>1, <1>4 DEF IsTerminator
  <2>2. u.succ = <<u.succ[1], u.succ[2]>> /\ u.succ[1] \in Block /\ u.succ[2] \in Block
    BY <2>1
  <2>3. k = 1 \/ k = 2
    BY <1>3, <2>2
  <2>4. QED BY <1>3, <2>2, <2>3
<1>5. CASE u.kind = "goto"
  <2>1. PICK c \in Block : u.succ = <<c>>
    BY <1>1, <1>5 DEF IsTerminator
  <2>2. k = 1
    BY <1>3, <2>1
  <2>3. QED BY <1>3, <2>1, <2>2
<1>6. CASE u.kind = "ret"
  BY <1>1, <1>3, <1>6 DEF IsTerminator
<1>7. QED BY <1>1, <1>4, <1>5, <1>6 DEF IsTerminator

LEMMA VisitSwept ==
  ASSUME LoopFree, NEW w \in Works, Waiting(w) # {}, NEW f \in DOMAIN Entry, NEW e,
         NEW nc \in BOOLEAN, NEW g, IsInterf(g, nc), Swept(w, f, e, g, nc)
  PROVE  Swept(Visit(w, BlockOrder[First(w)], g, nc), f, e, g, nc)
<1> DEFINE b == BlockOrder[First(w)]
           v == Visit(w, b, g, nc)
<1>1. /\ First(w) \in DOMAIN BlockOrder /\ First(w) \in Nat /\ b \in Block /\ w.list[b] # Bottom
      /\ DOMAIN BlockOrder \in SUBSET Nat /\ First(w) \in Waiting(w)
  BY FirstIs, OrderIs DEF Waiting, IsBottom
<1>2. w.list \in [Block -> Fact] /\ w.state \in [Block -> Fact] /\ w.reached \in [Recorded -> Fact]
  BY DEF Works
<1>3. \A j \in DOMAIN BlockOrder : First(w) <= j => w.state[BlockOrder[j]] = Bottom
  BY <1>1 DEF Swept
<1>4. w.state[b] = Bottom
  BY <1>1, <1>3
<1>5. ~ Leq(w.list[b], w.state[b])
  <2>1. w.list[b] \in Fact
    BY <1>1, <1>2
  <2>2. QED BY <1>1, <1>4, <2>1, OnlyBottomBelow
<1>6. /\ v \in Works
      /\ \A t \in Block : v.list[t] = FactJoin(IF t = b THEN Bottom ELSE w.list[t], Passed(w, b, t, g, nc))
      /\ \A t \in Block : v.state[t] = IF t = b THEN w.list[b] ELSE w.state[t]
      /\ \A s \in Recorded : v.reached[s] =
           IF s[1] = b THEN FactJoin(w.reached[s], RecordedAt(b, w.list[b], s, g, nc)) ELSE w.reached[s]
  BY <1>1, <1>5, VisitIs
<1>7. \A i \in Waiting(v) : First(w) < i /\ i \in DOMAIN BlockOrder
  BY VisitGoesOn DEF Waiting
<1>8. ASSUME NEW t \in SuccOf[b]
      PROVE  /\ t \in Block /\ t # b /\ w.state[t] = Bottom /\ Prog[t].fn = Prog[b].fn
  <2>1. t \in Block /\ Prog[t].fn = Prog[b].fn
    BY <1>1, SuccIsBlock, ProgramAssumption
  <2>2. PICK j \in DOMAIN BlockOrder : BlockOrder[j] = t
    BY <2>1, ProgramAssumption
  <2>3. First(w) < j
    BY <1>1, <2>2 DEF LoopFree
  <2>4. t # b
    BY <1>1, <2>2, <2>3, ProgramAssumption
  <2>5. w.state[t] = Bottom
    BY <1>1, <1>3, <2>2, <2>3
  <2>6. QED BY <2>1, <2>4, <2>5
<1> HIDE DEF v
<1>9. Val(v, b) = w.list[b] /\ Val(w, b) = w.list[b]
  <2>1. v.state[b] = w.list[b]
    BY <1>1, <1>6
  <2>2. QED BY <1>1, <1>4, <2>1 DEF Val
<1>10. ASSUME NEW t \in Block, t # b, t \notin SuccOf[b] PROVE Val(v, t) = Val(w, t)
  <2>1. v.state[t] = w.state[t] /\ v.list[t] = FactJoin(w.list[t], Passed(w, b, t, g, nc))
    BY <1>6, <1>10
  <2>2. Passed(w, b, t, g, nc) = Bottom
    BY <1>10 DEF Passed
  <2>3. v.list[t] = w.list[t]
    <3>1. w.list[t] \in Fact
      BY <1>2, <1>10
    <3>2. QED BY <2>1, <2>2, <3>1, JoinBottom
  <2>4. QED BY <2>1, <2>3 DEF Val
<1>11. ASSUME NEW t \in SuccOf[b]
       PROVE  /\ Leq(Val(w, t), Val(v, t))
              /\ Leq(RunTransferFuncs(b, w.list[b], t, g, nc), Val(v, t))
  <2>1. t \in Block /\ t # b /\ w.state[t] = Bottom
    BY <1>8
  <2>2. v.state[t] = Bottom /\ v.list[t] = FactJoin(w.list[t], RunTransferFuncs(b, w.list[b], t, g, nc))
    BY <1>6, <2>1 DEF Passed
  <2>3. w.list[t] \in Fact /\ RunTransferFuncs(b, w.list[b], t, g, nc) \in Fact
    <3>1. w.list[b] \in Fact /\ w.list[t] \in Fact
      BY <1>1, <1>2, <2>1
    <3>2. QED BY <1>1, <3>1, RunTransferFuncsIs
  <2>4. Val(w, t) = w.list[t] /\ Val(v, t) = v.list[t]
    BY <2>1, <2>2 DEF Val
  <2>5. QED BY <2>2, <2>3, <2>4, FactJoinIsLeastUpperBound
<1>12. \A t \in Block : Leq(Val(w, t), Val(v, t))
  <2>1. ASSUME NEW t \in Block PROVE Leq(Val(w, t), Val(w, t))
    BY DEF Leq
  <2>2. QED BY <1>9, <1>10, <1>11, <2>1
<1>13. \A i \in Waiting(v), j \in DOMAIN BlockOrder : i <= j => v.state[BlockOrder[j]] = Bottom
  <2>1. SUFFICES ASSUME NEW i \in Waiting(v), NEW j \in DOMAIN BlockOrder, i <= j
                 PROVE  v.state[BlockOrder[j]] = Bottom
    OBVIOUS
  <2>2. First(w) < j /\ i \in Nat /\ j \in Nat
    BY <1>1, <1>7, <2>1
  <2>3. BlockOrder[j] # b /\ BlockOrder[j] \in Block
    BY <1>1, <2>2, ProgramAssumption, OrderIs
  <2>4. w.state[BlockOrder[j]] = Bottom
    BY <1>1, <1>3, <2>2
  <2>5. QED BY <1>6, <2>3, <2>4
<1>14. Leq(e, Val(v, Entry[f]))
  <2>1. Entry[f] \in Block
    BY ProgramAssumption
  <2>2. Leq(e, Val(w, Entry[f]))
    BY DEF Swept
  <2>3. QED BY <1>12, <2>1, <2>2, LeqTransitive
<1>15. ASSUME NEW t \in Block, Val(v, t) # Bottom PROVE Prog[t].fn = f
  <2>1. CASE t = b
    BY <1>1, <1>9, <2>1 DEF Swept
  <2>2. CASE t \in SuccOf[b]
    <3>1. Prog[b].fn = f
      BY <1>1, <1>9 DEF Swept
    <3>2. QED BY <1>8, <2>2, <3>1
  <2>3. CASE t # b /\ t \notin SuccOf[b]
    <3>1. Val(w, t) # Bottom
      BY <1>10, <1>15, <2>3
    <3>2. QED BY <3>1 DEF Swept
  <2>4. QED BY <2>1, <2>2, <2>3
<1>16. ASSUME NEW t \in Block, v.state[t] = Bottom, NEW s \in Recorded, s[1] = t PROVE v.reached[s] = Bottom
  <2>1. t # b /\ w.state[t] = Bottom
    <3>1. v.state[t] = IF t = b THEN w.list[b] ELSE w.state[t]
      BY <1>6
    <3> HIDE DEF b
    <3>2. QED BY <1>1, <1>16, <3>1
  <2>2. w.reached[s] = Bottom
    BY <1>16, <2>1 DEF Swept
  <2>3. QED BY <1>6, <1>16, <2>1, <2>2
<1>17. ASSUME NEW c \in Block, v.state[c] # Bottom
       PROVE  /\ \A t \in SuccOf[c] : Leq(RunTransferFuncs(c, v.state[c], t, g, nc), Val(v, t))
              /\ \A s \in Recorded : s[1] = c => v.reached[s] = RecordedAt(c, v.state[c], s, g, nc)
  <2>1. CASE c = b
    <3>1. v.state[c] = w.list[b]
      BY <1>6, <2>1
    <3>2. \A t \in SuccOf[c] : Leq(RunTransferFuncs(c, v.state[c], t, g, nc), Val(v, t))
      BY <1>11, <2>1, <3>1
    <3>3. ASSUME NEW s \in Recorded, s[1] = c PROVE v.reached[s] = RecordedAt(c, v.state[c], s, g, nc)
      <4>1. w.reached[s] = Bottom
        BY <1>1, <1>4, <2>1, <3>3 DEF Swept
      <4>2. v.reached[s] = FactJoin(w.reached[s], RecordedAt(b, w.list[b], s, g, nc))
        BY <1>6, <2>1, <3>3
      <4>3. w.list[b] \in Fact
        BY <1>1, <1>2
      <4>4. RecordedAt(b, w.list[b], s, g, nc) \in Fact
        BY <2>1, <3>3, <4>3, RecordedIs
      <4>5. v.reached[s] = RecordedAt(b, w.list[b], s, g, nc)
        BY <4>1, <4>2, <4>4, JoinBottom
      <4>6. QED BY <2>1, <3>1, <4>5
    <3>4. QED BY <3>2, <3>3
  <2>2. CASE c # b
    <3>1. v.state[c] = w.state[c] /\ w.state[c] # Bottom
      BY <1>6, <1>17, <2>2
    <3>2. ASSUME NEW t \in SuccOf[c] PROVE Leq(RunTransferFuncs(c, v.state[c], t, g, nc), Val(v, t))
      <4>1. t \in Block
        BY SuccIsBlock
      <4>2. Leq(RunTransferFuncs(c, w.state[c], t, g, nc), Val(w, t))
        BY <3>1 DEF Swept
      <4>3. QED BY <1>12, <3>1, <4>1, <4>2, LeqTransitive
    <3>3. ASSUME NEW s \in Recorded, s[1] = c PROVE v.reached[s] = RecordedAt(c, v.state[c], s, g, nc)
      <4>1. w.reached[s] = RecordedAt(c, w.state[c], s, g, nc)
        BY <3>1, <3>3 DEF Swept
      <4>2. QED BY <1>6, <2>2, <3>1, <3>3, <4>1
    <3>4. QED BY <3>2, <3>3
  <2>3. QED BY <2>1, <2>2
<1>18. QED BY <1>13, <1>14, <1>15, <1>16, <1>17 DEF Swept, v

(* What is returned: bottom marks what was not reached.                     *)
Returned(R) == [s \in {s \in Recorded : R[s] # Bottom} |-> R[s]]

LowestUpTo(f, e, g, nc, n, In, R) ==
  \A In2, R2, k, d : IsAbove(f, e, g, nc, n, In2, R2, k, d) =>
    \A i \in DOMAIN BlockOrder :
      /\ i <= n => Leq(In[BlockOrder[i]], In2[BlockOrder[i]])
      /\ i < n => \A s \in Recorded : s[1] = BlockOrder[i] => Leq(R[s], R2[s])

IsResult(f, e, In, R, g, nc) ==
  /\ IsSolution(f, e, In, R, g, nc)
  /\ AnalyzeFunc(f, e, g, nc) = Returned(R)
  /\ \A s \in Recorded : R[s] # Bottom => Prog[s[1]].fn = f
  /\ \A n : LowestUpTo(f, e, g, nc, n, In, R)

StartOf(f, e) ==
  LET nowhere == [b \in Block |-> Bottom]
  IN  [list |-> [nowhere EXCEPT ![Entry[f]] = e], state |-> nowhere,
       reached |-> [s \in Recorded |-> Bottom]]

LEMMA AnalyzeFuncIs ==
  ASSUME NEW f, NEW e, NEW g, NEW nc, NEW R, R = WorkOf(g, nc)[StartOf(f, e)]
  PROVE  AnalyzeFunc(f, e, g, nc) = Returned(R)
<1>1. AnalyzeFunc(f, e, g, nc) =
        [s \in {s \in Recorded : ~ IsBottom(WorkOf(g, nc)[StartOf(f, e)][s])} |-> WorkOf(g, nc)[StartOf(f, e)][s]]
  BY Zenon DEF AnalyzeFunc, WorkOf, StartOf
<1>2. QED BY <1>1, Zenon DEF Returned, IsBottom

LEMMA StartIs ==
  ASSUME NEW f \in DOMAIN Entry, NEW e \in Fact
  PROVE  /\ StartOf(f, e) \in Works
         /\ \A b \in Block : /\ StartOf(f, e).list[b] = IF b = Entry[f] THEN e ELSE Bottom
                             /\ StartOf(f, e).state[b] = Bottom
         /\ \A s \in Recorded : StartOf(f, e).reached[s] = Bottom
<1> DEFINE nowhere == [b \in Block |-> Bottom]
<1>1. Bottom \in Fact /\ Entry[f] \in Block
  BY BottomBelow, ProgramAssumption
<1>2. nowhere \in [Block -> Fact] /\ \A b \in Block : nowhere[b] = Bottom
  BY <1>1
<1> HIDE DEF nowhere
<1>3. [nowhere EXCEPT ![Entry[f]] = e] \in [Block -> Fact]
  BY <1>2
<1>4. [s \in Recorded |-> Bottom] \in [Recorded -> Fact]
  BY <1>1
<1>5. QED BY <1>1, <1>2, <1>3, <1>4 DEF StartOf, Works, nowhere

LEMMA AnalysisIs ==
  ASSUME LoopFree, NEW f \in DOMAIN Entry, NEW e \in Fact, NEW nc \in BOOLEAN, NEW g, IsInterf(g, nc)
  PROVE  \E In, R : IsResult(f, e, In, R, g, nc)
<1> DEFINE S == {w \in Works : Swept(w, f, e, g, nc) /\ Least(w, f, e, g, nc)}
           a == StartOf(f, e)
<1>1. /\ a \in Works
      /\ \A b \in Block : a.list[b] = (IF b = Entry[f] THEN e ELSE Bottom) /\ a.state[b] = Bottom
      /\ \A s \in Recorded : a.reached[s] = Bottom
  BY StartIs
<1> HIDE DEF a
<1>2. Swept(a, f, e, g, nc)
  <2>1. Entry[f] \in Block /\ Prog[Entry[f]].fn = f
    BY ProgramAssumption
  <2>2. Leq(e, Val(a, Entry[f]))
    BY <1>1, <2>1, LeqReflexive DEF Val
  <2>3. \A b \in Block : Val(a, b) # Bottom => Prog[b].fn = f
    BY <1>1, <2>1 DEF Val
  <2>4. QED BY <1>1, <2>2, <2>3, OrderIs DEF Swept
<1>3. Least(a, f, e, g, nc)
  <2>1. SUFFICES ASSUME NEW n, NEW In, NEW R, NEW k, NEW d, IsAbove(f, e, g, nc, n, In, R, k, d)
                 PROVE  Under(a, n, In, R)
    BY DEF Least
  <2>2. In \in [Block -> Fact] /\ R \in [Recorded -> Fact] /\ Leq(e, In[Entry[f]])
    BY <2>1, LeqTransitive DEF IsAbove, IsSolution
  <2>3. ASSUME NEW b \in Block PROVE Leq(a.list[b], In[b]) /\ Leq(a.state[b], In[b])
    <3>1. In[b] \in Fact
      BY <2>2
    <3>2. QED BY <1>1, <2>2, <3>1, BottomBelow
  <2>4. ASSUME NEW s \in Recorded PROVE Leq(a.reached[s], R[s])
    <3>1. R[s] \in Fact
      BY <2>2
    <3>2. QED BY <1>1, <3>1, BottomBelow
  <2>5. QED BY <2>3, <2>4, OrderIs DEF Under
<1>4. ASSUME NEW w \in S, Waiting(w) # {} PROVE Visit(w, BlockOrder[First(w)], g, nc) \in S
  <2> DEFINE v == Visit(w, BlockOrder[First(w)], g, nc)
  <2>1. BlockOrder[First(w)] \in Block
    BY <1>4, FirstIs
  <2>2. v \in Works
    BY <1>4, <2>1, VisitIs
  <2>3. Swept(v, f, e, g, nc)
    BY <1>4, VisitSwept
  <2>4. Least(v, f, e, g, nc)
    BY <1>4, VisitUnder DEF Least
  <2> HIDE DEF v
  <2>5. QED BY <2>2, <2>3, <2>4 DEF v
<1>5. PICK v \in S : Waiting(v) = {} /\ WorkOf(g, nc)[a] = v.reached
  <2>1. a \in S
    BY <1>1, <1>2, <1>3
  <2>2. PICK T \in SUBSET Works : T = S
    OBVIOUS
  <2>3. Kept(T, g, nc)
    BY <1>4, <2>2 DEF Kept
  <2> HIDE DEF S
  <2>4. EndsIn(T, g, nc)
    BY <2>3, WorkEnds
  <2>5. QED BY <2>1, <2>2, <2>4 DEF EndsIn
<1>6. v \in Works /\ Swept(v, f, e, g, nc) /\ Least(v, f, e, g, nc)
  BY <1>5
<1> HIDE DEF S
<1>7. v.list \in [Block -> Fact] /\ v.state \in [Block -> Fact] /\ v.reached \in [Recorded -> Fact]
  BY <1>6 DEF Works
<1>8. \A b \in Block : v.list[b] = Bottom
  <2>1. SUFFICES ASSUME NEW b \in Block PROVE v.list[b] = Bottom
    OBVIOUS
  <2>2. PICK i \in DOMAIN BlockOrder : BlockOrder[i] = b
    BY ProgramAssumption
  <2>3. QED BY <1>5, <2>2 DEF Waiting, IsBottom
<1>9. \A b \in Block : Val(v, b) = v.state[b]
  BY <1>8 DEF Val
<1> DEFINE In == v.state
           R == v.reached
<1>10. IsSolution(f, e, In, R, g, nc)
  <2>1. Leq(e, In[Entry[f]])
    BY <1>6, <1>9, ProgramAssumption DEF Swept
  <2>2. ASSUME NEW b \in Block, In[b] # Bottom, NEW t \in SuccOf[b]
        PROVE  Leq(RunTransferFuncs(b, In[b], t, g, nc), In[t])
    BY <1>6, <1>9, <2>2, SuccIsBlock DEF Swept
  <2>3. ASSUME NEW b \in Block, In[b] # Bottom, NEW s \in Recorded, s[1] = b
        PROVE  Leq(RecordedAt(b, In[b], s, g, nc), R[s])
    <3>1. R[s] = RecordedAt(b, In[b], s, g, nc)
      BY <1>6, <2>3 DEF Swept
    <3>2. QED BY <3>1 DEF Leq
  <2>4. QED BY <1>7, <2>1, <2>2, <2>3 DEF IsSolution
<1>11. AnalyzeFunc(f, e, g, nc) = Returned(R)
  <2>1. R = WorkOf(g, nc)[StartOf(f, e)]
    BY <1>5 DEF a
  <2> HIDE DEF R
  <2>2. QED BY <2>1, AnalyzeFuncIs
<1>12. ASSUME NEW s \in Recorded, R[s] # Bottom PROVE Prog[s[1]].fn = f
  <2>1. s[1] \in Block
    BY RecordedBlock
  <2>2. v.state[s[1]] # Bottom
    BY <1>6, <1>12, <2>1 DEF Swept
  <2>3. QED BY <1>6, <1>9, <2>1, <2>2 DEF Swept
<1>13. ASSUME NEW n PROVE LowestUpTo(f, e, g, nc, n, In, R)
  <2>1. ASSUME NEW In2, NEW R2, NEW k, NEW d, IsAbove(f, e, g, nc, n, In2, R2, k, d) PROVE Under(v, n, In2, R2)
    BY <1>6, <2>1 DEF Least
  <2>2. QED BY <2>1 DEF LowestUpTo, Under
<1> HIDE DEF In, R
<1>14. QED BY <1>10, <1>11, <1>12, <1>13 DEF IsResult

LEMMA MapsAreInterfs ==
  ASSUME NEW nc \in BOOLEAN, NEW g \in P!IMap(nc)
  PROVE  IsInterf(g, nc)
<1>1. PICK L \in SUBSET LoadSite : g \in [L -> IF nc THEN Fact ELSE P!Reachable]
  BY DEF P!IMap
<1>2. P!Reachable \subseteq [Var -> Interval]
  BY DEF P!Reachable, Fact
<1>3. QED BY <1>1, <1>2 DEF IsInterf

LEMMA LargerMapsAbove ==
  ASSUME NEW nc \in BOOLEAN, NEW g, NEW k, P!InterfLeq(nc, g, k)
  PROVE  \A b : BelowIn(g, k, nc, b)
<1>1. \A s : BelowAt(g, k, nc, s)
  BY DEF BelowAt, P!InterfLeq
<1>2. QED BY <1>1 DEF BelowIn

(* The analysis of a function without loops is what the iteration needs: it *)
(* returns facts at sites of its function, and from larger facts and larger *)
(* interferences larger ones (worklistai.cpp, analyzeFunc: "assuming the    *)
(* transfer functions are monotonicly increasing").                         *)
THEOREM LoopFreeAnalysis == LoopFree => P!AnalysisOK
<1> SUFFICES ASSUME LoopFree PROVE P!AnalysisOK
  OBVIOUS
<1>1. P!AnalysisTyped(Fact, P!IMap)
  <2>1. SUFFICES ASSUME NEW f \in DOMAIN Entry, NEW nc \in BOOLEAN, NEW e \in Fact, NEW m \in P!IMap(nc)
                 PROVE  /\ DOMAIN AnalyzeFunc(f, e, m, nc) \subseteq
                             {s \in StoreSite \cup CreateSite \cup ErrorSite : FuncOf(s) = f}
                        /\ \A s \in DOMAIN AnalyzeFunc(f, e, m, nc) : AnalyzeFunc(f, e, m, nc)[s] \in P!Reachable
    BY Zenon DEF P!AnalysisTyped
  <2>2. PICK In, R : IsResult(f, e, In, R, m, nc)
    <3>1. IsInterf(m, nc)
      BY MapsAreInterfs
    <3>2. QED BY <3>1, AnalysisIs
  <2>3. R \in [Recorded -> Fact]
    BY <2>2 DEF IsResult, IsSolution
  <2>4. \A s : FuncOf(s) = Prog[s[1]].fn
    BY ProgramAssumption DEF FuncOf, Blocks
  <2>5. AnalyzeFunc(f, e, m, nc) = Returned(R) /\ \A s \in Recorded : R[s] # Bottom => FuncOf(s) = f
    BY <2>2, <2>4 DEF IsResult
  <2>6. QED BY <2>3, <2>5 DEF Returned, P!Reachable, Recorded
<1>2. P!AnalysisMonotone(Fact, P!IMap)
  <2>1. SUFFICES ASSUME NEW f \in DOMAIN Entry, NEW nc \in BOOLEAN, NEW e1 \in Fact, NEW e2 \in Fact,
                        NEW m1 \in P!IMap(nc), NEW m2 \in P!IMap(nc), Leq(e1, e2), P!InterfLeq(nc, m1, m2)
                 PROVE  P!ReachLeq(AnalyzeFunc(f, e1, m1, nc), AnalyzeFunc(f, e2, m2, nc))
    BY Zenon DEF P!AnalysisMonotone
  <2>2. PICK In2, R2 : IsResult(f, e2, In2, R2, m2, nc)
    <3>1. IsInterf(m2, nc)
      BY MapsAreInterfs
    <3>2. QED BY <3>1, AnalysisIs
  <2>3. PICK n : n = Len(BlockOrder) + 1
    OBVIOUS
  <2>4. IsAbove(f, e1, m1, nc, n, In2, R2, m2, e2)
    BY <2>1, <2>2, <2>3, MapsAreInterfs, LargerMapsAbove, OrderIs DEF IsAbove, IsResult
  <2>5. PICK In, R : IsResult(f, e1, In, R, m1, nc)
    <3>1. IsInterf(m1, nc)
      BY MapsAreInterfs
    <3>2. QED BY <3>1, AnalysisIs
  <2>6. ASSUME NEW s \in Recorded PROVE Leq(R[s], R2[s])
    <3>1. s[1] \in Block
      BY RecordedBlock
    <3>2. PICK i \in DOMAIN BlockOrder : BlockOrder[i] = s[1]
      BY <3>1, ProgramAssumption
    <3>3. i < n
      BY <2>3, <3>2, OrderIs
    <3>4. LowestUpTo(f, e1, m1, nc, n, In, R)
      BY <2>5 DEF IsResult
    <3>5. QED BY <2>4, <3>2, <3>3, <3>4 DEF LowestUpTo
  <2>7. R \in [Recorded -> Fact] /\ R2 \in [Recorded -> Fact]
    BY <2>2, <2>5 DEF IsResult, IsSolution
  <2>8. \A s \in Recorded : R[s] # Bottom => R2[s] # Bottom
    BY <2>6, <2>7, NotBottomAbove
  <2>9. AnalyzeFunc(f, e1, m1, nc) = Returned(R) /\ AnalyzeFunc(f, e2, m2, nc) = Returned(R2)
    BY <2>2, <2>5 DEF IsResult
  <2>10. QED BY <2>6, <2>8, <2>9 DEF P!ReachLeq, Returned
<1>3. QED BY <1>1, <1>2, Zenon DEF P!AnalysisOK

-----------------------------------------------------------------------------
(* What rests on the analysis of a function being monotone.  For programs   *)
(* with loops that stays a hypothesis: a block may then be analysed again   *)
(* with a fact that is not larger, which replaces the one before.           *)

LEMMA IterationAssumed ==
  ASSUME P!AnalysisOK
  PROVE  P!Assumed
  BY ConstantsRight, FactsRight DEF P!Assumed

(* "on iteration i+1 we at least reach all the stores of iteration i"       *)
(* (worklistai.cpp: runOnModule).                                           *)
LEMMA StoresKept ==
  ASSUME P!AnalysisOK
  PROVE  Spec /\ P!Covered => StoresGrow
<1>1. Init => P!GrowInv
  BY InitOfIteration, IterationAssumed, P!InitGrow
<1>2. P!GrowInv /\ P!Covered /\ [Next]_allVars => P!GrowInv' /\ P!Covered'
  BY StepOfIteration, IterationAssumed, P!StepGrow, P!CoveredKept
<1>3. P!GrowInv /\ P!Covered /\ [Next]_allVars =>
        [\A s \in DOMAIN newReachStores :
           s \in DOMAIN newReachStores' /\ Leq(newReachStores[s], newReachStores'[s])]_(A!vars)
  BY StepOfIteration, IterationAssumed, P!StepGrow DEF P!ReachLeq
<1>4. QED BY <1>1, <1>2, <1>3, PTL DEF Spec, StoresGrow, A!StoresGrow

LEMMA AbortsKnown ==
  ASSUME P!AnalysisOK
  PROVE  Spec => [](P!Covered => AbortsExpected)
<1>1. Init => P!GrowInv
  BY InitOfIteration, IterationAssumed, P!InitGrow
<1>2. P!GrowInv /\ [Next]_allVars => P!GrowInv'
  BY StepOfIteration, IterationAssumed, P!StepGrow
<1>3. P!GrowInv => (P!Covered => AbortsExpected)
  BY IterationAssumed, P!GrowInvImplies, SameIteration DEF AbortsExpected
<1>4. QED BY <1>1, <1>2, <1>3, PTL DEF Spec

LEMMA IterationInvariant ==
  ASSUME P!AnalysisOK
  PROVE  /\ Init => P!FixInv
         /\ P!FixInv /\ [Next]_allVars => P!FixInv'
<1>1. Init => P!FixInv
  BY InitOfIteration, IterationAssumed, P!FixInit
<1>2. P!FixInv /\ [Next]_allVars => P!FixInv'
  BY StepOfIteration, IterationAssumed, P!FixStep
<1>3. QED BY <1>1, <1>2

LEMMA EndsAtFixpoint ==
  ASSUME P!AnalysisOK
  PROVE  Spec => [](~ option.dyninit => Fixpoint)
<1>1. P!FixInv => (~ option.dyninit => Fixpoint)
  BY IterationAssumed, P!FixInvImplies, SameThreadAnalysis DEF Fixpoint
<1>2. QED BY <1>1, IterationInvariant, PTL DEF Spec

(* For every program without loops: replacing a thread's stores by the ones *)
(* just reached never loses a store or a value of one (worklistai.cpp:      *)
(* runOnModule).  Nothing is assumed of the analysis.                       *)
THEOREM StoresNeverLost == LoopFree => (Spec /\ P!Covered => StoresGrow)
<1> SUFFICES ASSUME LoopFree PROVE Spec /\ P!Covered => StoresGrow
  OBVIOUS
<1>1. QED BY LoopFreeAnalysis, StoresKept

(* For the same programs, the assertions of the iteration fail only with    *)
(* -filter-mhb and -nocombs, or for an atomicrmw another thread interferes  *)
(* with (worklistai.cpp: joinInterfs, testCurPerm).                         *)
THEOREM AbortsAreExpected == LoopFree => (Spec => [](P!Covered => AbortsExpected))
<1> SUFFICES ASSUME LoopFree PROVE Spec => [](P!Covered => AbortsExpected)
  OBVIOUS
<1>1. QED BY LoopFreeAnalysis, AbortsKnown

(* For the same programs, the iteration ends at a fixpoint when all threads *)
(* are known from the start: one more analysis of any thread finds nothing  *)
(* that is not reported (worklistai.cpp: runOnModule).                      *)
THEOREM EndIsFixpoint == LoopFree => (Spec => [](~ option.dyninit => Fixpoint))
<1> SUFFICES ASSUME LoopFree PROVE Spec => [](~ option.dyninit => Fixpoint)
  OBVIOUS
<1>1. QED BY LoopFreeAnalysis, EndsAtFixpoint

-----------------------------------------------------------------------------
(* What a run of the program is compared with: the analysis of each of its  *)
(* threads with the interferences of one permutation.                       *)

MapsFor(f, reach, nc) == P!MapsOf(P!InterferingStores(f, reach), reach, nc)

(* A value another thread may have written, as the analysis knows it. *)
Source(f, v, x, reach) ==
  \E s \in DOMAIN reach : FuncOf(s) # f /\ InstrAt(s).ptr = v /\ x \in reach[s][v]

LEMMA LoadsAre ==
  \A s \in LoadSite \cup StoreSite :
    s \in Site /\ InstrAt(s).op \in {"load", "store", "rmw"} /\ InstrAt(s).ptr \in Var
<1>1. ASSUME NEW s \in LoadSite \cup StoreSite
      PROVE  s \in Site /\ InstrAt(s).op \in {"load", "store", "rmw"} /\ InstrAt(s).ptr \in Var
  <2>1. s \in Site /\ InstrAt(s).op \in {"load", "store", "rmw"}
    BY DEF LoadSite, StoreSite, SitesWith
  <2>2. IsInstruction(InstrAt(s))
    BY <2>1, InstrIs
  <2>3. QED BY <2>1, <2>2, FieldsAre
<1>2. QED BY <1>1

LEMMA MapsForAre ==
  ASSUME NEW f \in DOMAIN Entry, NEW reach, P!Reaches(StoreSite, reach), NEW nc \in BOOLEAN
  PROVE  /\ P!ReachOK(P!InterferingStores(f, reach), reach)
         /\ MapsFor(f, reach, nc) # {}
         /\ \A g \in MapsFor(f, reach, nc) : g \in P!IMap(nc) /\ IsInterf(g, nc)
<1>1. PICK cur : cur = P!InterferingStores(f, reach)
  OBVIOUS
<1>2. P!ReachOK(cur, reach)
  BY <1>1, P!InterferingHaveFacts
<1>3. P!MapsOf(cur, reach, nc) \subseteq P!IMap(nc) /\ P!MapsOf(cur, reach, nc) # {}
  BY <1>2, ConstantsRight, FactsRight, P!MapsOfAre, P!MapsExist
<1>4. QED BY <1>1, <1>2, <1>3, MapsAreInterfs DEF MapsFor

(* What a load sees in memory, its own value or another thread's, it reads  *)
(* in one of the permutations, which may differ from a given one there.     *)
LEMMA LoadForeseen ==
  ASSUME NEW f \in DOMAIN Entry, NEW reach, P!Reaches(StoreSite, reach), NEW nc \in BOOLEAN,
         NEW g \in MapsFor(f, reach, nc), NEW l \in LoadSite, FuncOf(l) = f, NEW m, NEW x,
         x = m[InstrAt(l).ptr] \/ Source(f, InstrAt(l).ptr, x, reach)
  PROVE  \E h \in MapsFor(f, reach, nc) :
           x \in Readable(m, l, h, nc) /\ \A s : s # l => BelowAt(g, h, nc, s)
<1>1. PICK cur : cur = P!InterferingStores(f, reach)
  OBVIOUS
<1>2. P!ReachOK(cur, reach) /\ g \in P!MapsOf(cur, reach, nc)
  BY <1>1, MapsForAre DEF MapsFor
<1>3. \A s : IsInterf(g, nc) /\ (s \in DOMAIN g => Leq(g[s], g[s]))
  BY MapsForAre DEF Leq
<1>4. ASSUME NEW s \in DOMAIN reach, FuncOf(s) # f, InstrAt(s).ptr = InstrAt(l).ptr
      PROVE  l \in DOMAIN cur /\ s \in cur[l]
  BY <1>1, <1>4 DEF P!InterferingStores, P!InterferingAt, SameVal
<1>5. CASE nc
  <2>1. \A s : BelowAt(g, g, nc, s)
    BY <1>3, <1>5 DEF BelowAt
  <2>2. CASE x = m[InstrAt(l).ptr]
    BY <1>5, <2>1, <2>2 DEF Readable
  <2>3. CASE Source(f, InstrAt(l).ptr, x, reach)
    <3>1. PICK s \in DOMAIN reach : FuncOf(s) # f /\ InstrAt(s).ptr = InstrAt(l).ptr /\ x \in reach[s][InstrAt(l).ptr]
      BY <2>3 DEF Source
    <3>2. l \in DOMAIN cur /\ s \in cur[l]
      BY <1>4, <3>1
    <3>3. g \in P!MapsOf(cur, reach, TRUE)
      BY <1>2, <1>5
    <3>4. l \in DOMAIN g /\ Leq(reach[s], g[l])
      BY <1>2, <3>2, <3>3, ConstantsRight, FactsRight, P!JoinedIsAbove
    <3>5. InstrAt(l).ptr \in Var
      BY LoadsAre
    <3>6. x \in g[l][InstrAt(l).ptr]
      BY <3>1, <3>4, <3>5 DEF Leq
    <3>7. QED BY <2>1, <3>4, <3>6 DEF Readable
  <2>4. QED BY <2>2, <2>3
<1>6. CASE ~ nc
  <2>1. g \in P!MapsOf(cur, reach, FALSE)
    BY <1>2, <1>6
  <2>2. ASSUME NEW h \in P!MapsOf(cur, reach, FALSE), NEW c, P!Rereads(g, h, l, c, reach)
        PROVE  h \in MapsFor(f, reach, nc) /\ \A s : s # l => BelowAt(g, h, nc, s)
    BY <1>1, <1>3, <1>6, <2>2 DEF MapsFor, BelowAt, P!Rereads
  <2>3. CASE x = m[InstrAt(l).ptr]
    <3>1. PICK h \in P!MapsOf(cur, reach, FALSE) : P!Rereads(g, h, l, Own, reach)
      BY <1>2, <2>1, ConstantsRight, P!ChoiceChanged
    <3>2. QED BY <2>2, <2>3, <3>1 DEF Readable, P!Rereads
  <2>4. CASE Source(f, InstrAt(l).ptr, x, reach)
    <3>1. PICK s \in DOMAIN reach : FuncOf(s) # f /\ InstrAt(s).ptr = InstrAt(l).ptr /\ x \in reach[s][InstrAt(l).ptr]
      BY <2>4 DEF Source
    <3>2. l \in DOMAIN cur /\ s \in cur[l] /\ s # Own
      BY <1>4, <3>1, ConstantsRight DEF P!ConstantsOK, P!Reaches
    <3>3. PICK h \in P!MapsOf(cur, reach, FALSE) : P!Rereads(g, h, l, s, reach)
      BY <1>2, <2>1, <3>2, ConstantsRight, P!ChoiceChanged
    <3>4. l \in DOMAIN h /\ h[l] = reach[s]
      BY <3>2, <3>3 DEF P!Rereads
    <3>5. x \in Readable(m, l, h, nc)
      BY <3>1, <3>4 DEF Readable
    <3>6. QED BY <2>2, <3>3, <3>5
  <2>5. QED BY <2>3, <2>4
<1>7. QED BY <1>5, <1>6

SameRegisters(e, m) == \A v \in Var \ Memory : e[v] = m[v]

LEMMA SameValue ==
  ASSUME NEW e, NEW m, SameRegisters(e, m), NEW a \in Operand \cup BitOperand, a \notin [reg : Memory]
  PROVE  Value(e, a) = Value(m, a)
<1>1. CASE IsConst(a)
  BY <1>1 DEF Value
<1>2. CASE ~ IsConst(a)
  <2>1. a \in [reg : Var]
    BY <1>2 DEF IsConst, Operand, BitOperand, False, True
  <2>2. a.reg \in Var \ Memory /\ a = [reg |-> a.reg]
    BY <2>1
  <2>3. QED BY <1>2, <2>2 DEF Value, SameRegisters
<1>3. QED BY <1>1, <1>2

LEMMA SharedReadIs ==
  ASSUME NEW s \in Site, NEW mm \in State
  PROVE  /\ IsInterf(SharedRead(s, mm), FALSE)
         /\ s \in LoadSite => \A e : Readable(e, s, SharedRead(s, mm), FALSE) = {mm[InstrAt(s).ptr]}
<1>1. ASSUME s \in LoadSite
      PROVE  /\ DOMAIN SharedRead(s, mm) = {s}
             /\ SharedRead(s, mm)[s] = [v \in Var |-> {mm[v]}]
  BY <1>1 DEF SharedRead
<1>2. [v \in Var |-> {mm[v]}] \in [Var -> Interval]
  <2>1. ASSUME NEW v \in Var PROVE {mm[v]} \in Interval
    <3>1. mm[v] \in Lo .. Hi /\ mm[v] <= mm[v] /\ mm[v] .. mm[v] = {mm[v]}
      BY RangeAssumption DEF State
    <3>2. QED BY <3>1, IntervalFrom
  <2>2. QED BY <2>1
<1>3. IsInterf(SharedRead(s, mm), FALSE)
  <2>1. CASE s \in LoadSite
    BY <1>1, <1>2, <2>1 DEF IsInterf
  <2>2. CASE s \notin LoadSite
    BY <2>2 DEF IsInterf, SharedRead
  <2>3. QED BY <2>1, <2>2
<1>4. ASSUME s \in LoadSite, NEW e PROVE Readable(e, s, SharedRead(s, mm), FALSE) = {mm[InstrAt(s).ptr]}
  <2>1. InstrAt(s).ptr \in Var
    BY <1>4, LoadsAre
  <2>2. QED BY <1>1, <1>4, <2>1 DEF Readable
<1>5. QED BY <1>3, <1>4

(* An instruction that writes a register, on two environments with the same *)
(* registers.                                                               *)
LEMMA RegisterWritten ==
  ASSUME NEW e \in State, NEW m \in State, SameRegisters(e, m), NEW to \in Var \ Memory, NEW x
  PROVE  SameRegisters([e EXCEPT ![to] = x], [m EXCEPT ![to] = x])
  BY DEF SameRegisters, State

(* What both have done: the same, but for shared memory. *)
DidTheSame(s, e, mm, n) ==
  /\ SameRegisters(e, n)
  /\ s \in LoadSite \cup StoreSite => n[InstrAt(s).ptr] = e[InstrAt(s).ptr]
  /\ s \in LoadSite \ StoreSite => e[InstrAt(s).ptr] = mm[InstrAt(s).ptr]

(* What a thread does on shared memory, the analysed thread may do on the   *)
(* memory of its own: a load has to read the same.                          *)
LEMMA MirrorIs ==
  ASSUME MemoryApart, NEW s \in Site, NEW e \in State, NEW mm \in State, NEW preds,
         NEW e2 \in Outcomes(e, s, preds, SharedRead(s, mm), FALSE),
         NEW m \in State, SameRegisters(e, m), NEW g, NEW nc,
         s \in LoadSite => mm[InstrAt(s).ptr] \in Readable(m, s, g, nc)
  PROVE  \E n \in Outcomes(m, s, preds, g, nc) : DidTheSame(s, e2, mm, n)
<1> DEFINE i == InstrAt(s)
<1> USE DEF DidTheSame
<1>1. IsInstruction(i)
  BY InstrIs
<1>2. \A a \in Operands(i) : a \in Operand \cup BitOperand => Value(e, a) = Value(m, a)
  BY SameValue DEF MemoryApart
<1>3. i.op \in {"load", "rmw", "add", "mul", "xor", "intxor", "icmp", "cast", "phi"} => i.to \in Var \ Memory
  BY <1>1, FieldsAre DEF MemoryApart
<1>4. /\ s \in LoadSite <=> i.op \in {"load", "rmw"}
      /\ s \in StoreSite <=> i.op \in {"store", "rmw"}
  BY DEF LoadSite, StoreSite, SitesWith
<1>5. i.op \in {"store", "load", "rmw"} => i.ptr \in Var /\ i.ptr \in Memory
  <2>1. SUFFICES ASSUME i.op \in {"store", "load", "rmw"} PROVE i.ptr \in Var /\ i.ptr \in Memory
    OBVIOUS
  <2>2. i.ptr \in Var
    BY <1>1, <2>1, FieldsAre
  <2>3. QED BY <1>4, <2>1, <2>2 DEF Memory
<1>6. s \in LoadSite => Readable(e, s, SharedRead(s, mm), FALSE) = {mm[i.ptr]}
  BY SharedReadIs
<1>7. \A x : i.op \in {"store", "load", "rmw"} => SameRegisters([e EXCEPT ![i.ptr] = x], [m EXCEPT ![i.ptr] = x])
  BY <1>5 DEF SameRegisters, State
<1>8. CASE i.op = "store"
  <2>1. Value(e, i.val) = Value(m, i.val)
    BY <1>1, <1>2, <1>8, FieldsAre DEF Operands
  <2>2. e2 = [e EXCEPT ![i.ptr] = Value(m, i.val)]
    BY <1>8, <2>1 DEF Outcomes
  <2>3. [m EXCEPT ![i.ptr] = Value(m, i.val)] \in Outcomes(m, s, preds, g, nc)
    BY <1>8 DEF Outcomes
  <2>4. e2[i.ptr] = [m EXCEPT ![i.ptr] = Value(m, i.val)][i.ptr]
    BY <1>5, <1>8, <2>2 DEF State
  <2>5. PICK x, n : x = Value(m, i.val) /\ n = [m EXCEPT ![i.ptr] = x]
    OBVIOUS
  <2>6. SameRegisters(e2, n) /\ n \in Outcomes(m, s, preds, g, nc) /\ n[i.ptr] = e2[i.ptr]
    <3>1. SameRegisters([e EXCEPT ![i.ptr] = x], [m EXCEPT ![i.ptr] = x])
      BY <1>7, <1>8
    <3>2. e2 = [e EXCEPT ![i.ptr] = x]
      BY <2>2, <2>5
    <3>3. QED BY <2>3, <2>4, <2>5, <3>1, <3>2
  <2>7. s \notin LoadSite
    BY <1>4, <1>8
  <2>8. QED BY <2>6, <2>7
<1>9. CASE i.op = "load"
  <2>1. PICK x : x = mm[i.ptr]
    OBVIOUS
  <2>2. e2 = [e EXCEPT ![i.ptr] = x, ![i.to] = x]
    BY <1>4, <1>6, <1>9, <2>1 DEF Outcomes
  <2>3. PICK n : n = [m EXCEPT ![i.ptr] = x, ![i.to] = x]
    OBVIOUS
  <2>4. n \in Outcomes(m, s, preds, g, nc)
    BY <1>4, <1>9, <2>1, <2>3 DEF Outcomes
  <2>5. i.ptr # i.to
    BY <1>3, <1>5, <1>9
  <2>6. SameRegisters(e2, n) /\ e2[i.ptr] = x /\ n[i.ptr] = x
    BY <1>3, <1>5, <1>9, <2>2, <2>3, <2>5 DEF SameRegisters, State
  <2>7. QED BY <1>4, <1>9, <2>1, <2>4, <2>6
<1>10. CASE i.op = "rmw"
  <2>1. PICK x : x = mm[i.ptr]
    OBVIOUS
  <2>2. Value(e, i.val) = Value(m, i.val)
    BY <1>1, <1>2, <1>10, FieldsAre DEF Operands
  <2>3. PICK y : y = Wrapped(x + Value(m, i.val))
    OBVIOUS
  <2>4. e2 = [e EXCEPT ![i.ptr] = y, ![i.to] = x] /\ y \in Lo .. Hi
    BY <1>4, <1>6, <1>10, <2>1, <2>2, <2>3 DEF Outcomes
  <2>5. PICK n : n = [m EXCEPT ![i.ptr] = y, ![i.to] = x]
    OBVIOUS
  <2>6. n \in Outcomes(m, s, preds, g, nc)
    BY <1>4, <1>10, <2>1, <2>3, <2>4, <2>5 DEF Outcomes
  <2>7. i.ptr # i.to
    BY <1>3, <1>5, <1>10
  <2>8. SameRegisters(e2, n) /\ e2[i.ptr] = y /\ n[i.ptr] = y
    BY <1>3, <1>5, <1>10, <2>4, <2>5, <2>7 DEF SameRegisters, State
  <2>9. QED BY <1>4, <1>10, <2>6, <2>8
<1>11. CASE i.op \in {"add", "mul", "xor", "intxor", "icmp", "cast", "phi"}
  <2>1. \E x : e2 = [e EXCEPT ![i.to] = x] /\ [m EXCEPT ![i.to] = x] \in Outcomes(m, s, preds, g, nc)
    <3>1. CASE i.op \in {"add", "mul", "xor", "intxor", "icmp"}
      <4>1. Value(e, i.a) = Value(m, i.a) /\ Value(e, i.b) = Value(m, i.b)
        BY <1>1, <1>2, <3>1, FieldsAre DEF Operands
      <4>2. CASE i.op = "add"
        BY <4>1, <4>2 DEF Outcomes
      <4>3. CASE i.op = "mul"
        BY <4>1, <4>3 DEF Outcomes
      <4>4. CASE i.op = "xor"
        BY <4>1, <4>4 DEF Outcomes
      <4>5. CASE i.op = "icmp"
        BY <4>1, <4>5 DEF Outcomes
      <4>6. CASE i.op = "intxor"
        BY <4>6 DEF Outcomes
      <4>7. QED BY <3>1, <4>2, <4>3, <4>4, <4>5, <4>6
    <3>2. CASE i.op = "cast"
      <4>1. Value(e, i.val) = Value(m, i.val)
        BY <1>1, <1>2, <3>2, FieldsAre DEF Operands
      <4>2. QED BY <3>2, <4>1 DEF Outcomes
    <3>3. CASE i.op = "phi"
      <4>1. PICK p \in preds \cap DOMAIN i.operands :
              e2 = [e EXCEPT ![i.to] = Value(e, i.operands[p])] /\ Value(e, i.operands[p]) \in Lo .. Hi
        BY <3>3 DEF Outcomes
      <4>2. Value(e, i.operands[p]) = Value(m, i.operands[p])
        BY <1>1, <1>2, <3>3, FieldsAre DEF Operands, PhiOperand
      <4>3. PICK x : x = Value(m, i.operands[p])
        OBVIOUS
      <4>4. [m EXCEPT ![i.to] = x] \in Outcomes(m, s, preds, g, nc)
        BY <3>3, <4>1, <4>2, <4>3 DEF Outcomes
      <4>5. QED BY <4>1, <4>2, <4>3, <4>4
    <3>4. QED BY <1>11, <3>1, <3>2, <3>3
  <2>2. PICK x : e2 = [e EXCEPT ![i.to] = x] /\ [m EXCEPT ![i.to] = x] \in Outcomes(m, s, preds, g, nc)
    BY <2>1
  <2>3. PICK n : n = [m EXCEPT ![i.to] = x]
    OBVIOUS
  <2>4. SameRegisters(e2, n)
    BY <1>3, <1>11, <2>2, <2>3, RegisterWritten
  <2>5. s \notin LoadSite \cup StoreSite
    BY <1>4, <1>11
  <2>6. QED BY <2>2, <2>3, <2>4, <2>5
<1>12. CASE i.op \in {"alloca", "fence", "create", "join", "assert_fail"}
  BY <1>4, <1>12 DEF Outcomes
<1>13. QED BY <1>1, <1>8, <1>9, <1>10, <1>11, <1>12, FieldsAre

(* A number not changed by its width in the thread is not changed in the    *)
(* analysed thread either.                                                  *)
LEMMA MirrorIsExact ==
  ASSUME MemoryApart, NEW s \in Site, NEW e \in State, NEW m \in State, SameRegisters(e, m),
         NEW e2, NEW n, SameRegisters(e2, n), Exact(e, s, e2)
  PROVE  Exact(m, s, n)
<1> DEFINE i == InstrAt(s)
<1>1. IsInstruction(i)
  BY InstrIs
<1>2. \A a \in Operands(i) : a \in Operand \cup BitOperand => Value(e, a) = Value(m, a)
  BY SameValue DEF MemoryApart
<1>3. ASSUME i.op \in {"add", "mul"} PROVE Value(e, i.a) = Value(m, i.a) /\ Value(e, i.b) = Value(m, i.b)
  BY <1>1, <1>2, <1>3, FieldsAre DEF Operands
<1>4. ASSUME i.op \in {"rmw", "cast"} PROVE Value(e, i.val) = Value(m, i.val)
  BY <1>1, <1>2, <1>4, FieldsAre DEF Operands
<1>5. ASSUME i.op = "rmw" PROVE e2[i.to] = n[i.to]
  <2>1. i.to \in Var \ Memory
    BY <1>1, <1>5, FieldsAre DEF MemoryApart
  <2>2. QED BY <2>1 DEF SameRegisters
<1>6. CASE i.op = "add"
  BY <1>3, <1>6 DEF Exact
<1>7. CASE i.op = "mul"
  BY <1>3, <1>7 DEF Exact
<1>8. CASE i.op = "rmw"
  BY <1>4, <1>5, <1>8 DEF Exact
<1>9. CASE i.op = "cast"
  BY <1>4, <1>9 DEF Exact
<1>10. QED BY <1>6, <1>7, <1>8, <1>9 DEF Exact

LEMMA FuncOfIs == \A s : FuncOf(s) = Prog[s[1]].fn
  BY ProgramAssumption DEF FuncOf, Blocks

Entries == {Entry[f] : f \in DOMAIN Entry}

IsPoint(p) == p[1] \in Block /\ p[2] \in 1 .. (Len(Prog[p[1]].body) + 1) /\ p = <<p[1], p[2]>>

(* m is where the analysed thread may be when the thread is at p, with the  *)
(* registers of e and shared memory mm: what memory holds that the thread   *)
(* does not know of, others have written.                                   *)
Mirrors(f, p, e, mm, reach, m) ==
  /\ m \in State /\ SameRegisters(e, m)
  /\ \A v \in Memory : mm[v] = m[v] \/ Source(f, v, mm[v], reach)
  /\ AllAgree(p[1], p[2], m, Entries)

(* Analysed with the interferences g, the thread may be in m at p. *)
Described(f, p, reach, nc, g, m) ==
  /\ g \in MapsFor(f, reach, nc)
  /\ \E In, R : /\ IsResult(f, GetInitState, In, R, g, nc)
                /\ In[p[1]] # Bottom
                /\ m \in Gamma(FactsIn(p[1], In[p[1]], g, nc)[p[2] - 1])

Follows(f, p, e, mm, reach, nc) ==
  \E g, m : Mirrors(f, p, e, mm, reach, m) /\ Described(f, p, reach, nc, g, m)

LEMMA GammaGrows ==
  ASSUME NEW f, NEW g, Leq(f, g)
  PROVE  Gamma(f) \subseteq Gamma(g)
  BY DEF Leq, Gamma

LEMMA GammaNotBottom ==
  ASSUME Var # {}, NEW f, NEW m \in Gamma(f)
  PROVE  f # Bottom
  BY DEF Gamma, Bottom

(* A permutation may be exchanged for one that differs only at the site the *)
(* thread has yet to reach.                                                 *)
LEMMA Exchanged ==
  ASSUME LoopFree, NEW f \in DOMAIN Entry, NEW reach, P!Reaches(StoreSite, reach), NEW nc \in BOOLEAN,
         NEW p, IsPoint(p), NEW g, NEW m, Described(f, p, reach, nc, g, m),
         NEW h \in MapsFor(f, reach, nc), \A s : s # p => BelowAt(g, h, nc, s)
  PROVE  Described(f, p, reach, nc, h, m)
<1>1. PICK In, R : /\ IsResult(f, GetInitState, In, R, g, nc) /\ In[p[1]] # Bottom
                   /\ m \in Gamma(FactsIn(p[1], In[p[1]], g, nc)[p[2] - 1])
  BY DEF Described
<1>2. IsInterf(g, nc) /\ IsInterf(h, nc)
  BY MapsForAre DEF Described
<1>3. PICK In2, R2 : IsResult(f, GetInitState, In2, R2, h, nc)
  BY <1>2, InitStateIs, AnalysisIs
<1>4. PICK n \in DOMAIN BlockOrder : BlockOrder[n] = p[1]
  BY ProgramAssumption DEF IsPoint
<1>5. IsAbove(f, GetInitState, g, nc, n, In2, R2, h, GetInitState)
  <2>1. ASSUME NEW i \in DOMAIN BlockOrder, i < n PROVE BelowIn(g, h, nc, BlockOrder[i])
    <3>1. BlockOrder[i] # p[1]
      BY <1>4, <2>1, OrderIs, ProgramAssumption
    <3>2. \A k : <<BlockOrder[i], k>> # p
      BY <3>1
    <3>3. QED BY <3>2 DEF BelowIn
  <2>2. n \in Nat
    BY OrderIs
  <2>3. Leq(GetInitState, GetInitState)
    BY InitStateIs, LeqReflexive
  <2>4. IsSolution(f, GetInitState, In2, R2, h, nc)
    BY <1>3 DEF IsResult
  <2>5. QED BY <1>2, <2>1, <2>2, <2>3, <2>4, InitStateIs DEF IsAbove
<1>6. Leq(In[p[1]], In2[p[1]])
  <2>1. LowestUpTo(f, GetInitState, g, nc, n, In, R)
    BY <1>1 DEF IsResult
  <2>2. n <= n
    BY OrderIs
  <2>3. QED BY <1>4, <1>5, <2>1, <2>2 DEF LowestUpTo
<1>7. In[p[1]] \in Fact /\ In2[p[1]] \in Fact
  BY <1>1, <1>3 DEF IsResult, IsSolution, IsPoint
<1>8. Leq(FactsIn(p[1], In[p[1]], g, nc)[p[2] - 1], FactsIn(p[1], In2[p[1]], h, nc)[p[2] - 1])
  <2>1. PICK b, k : p = <<b, k>> /\ b \in Block /\ k - 1 \in 0 .. Len(Prog[b].body) /\ k \in Nat
    <3>1. Len(Prog[p[1]].body) \in Nat
      BY CodeAssumption DEF IsPoint
    <3>2. QED BY <3>1 DEF IsPoint
  <2>2. ASSUME NEW j \in 1 .. (k - 1) PROVE BelowAt(g, h, nc, <<b, j>>)
    <3>1. <<b, j>> # p
      BY <2>1
    <3>2. QED BY <3>1
  <2>3. In[b] \in Fact /\ In2[b] \in Fact /\ Leq(In[b], In2[b])
    BY <1>6, <1>7, <2>1
  <2>4. \A j \in 0 .. (k - 1) : Leq(FactsIn(b, In[b], g, nc)[j], FactsIn(b, In2[b], h, nc)[j])
    BY <1>2, <2>1, <2>2, <2>3, FactsUptoGrow
  <2>5. k - 1 \in 0 .. (k - 1)
    BY <2>1
  <2>6. QED BY <2>1, <2>4, <2>5
<1>9. m \in Gamma(FactsIn(p[1], In2[p[1]], h, nc)[p[2] - 1])
  BY <1>1, <1>8, GammaGrows
<1>10. In2[p[1]] # Bottom
  BY <1>1, <1>6, <1>7, NotBottomAbove
<1>11. QED BY <1>3, <1>9, <1>10 DEF Described

(* What a thread starts with is what its analysis starts with. *)
LEMMA Started ==
  ASSUME LoopFree, WellFormed, NEW f \in DOMAIN Entry, NEW reach, P!Reaches(StoreSite, reach), NEW nc \in BOOLEAN,
         NEW e \in State, NEW mm,
         \A v \in Memory : mm[v] = Min2(GetInitState[v]) \/ Source(f, v, mm[v], reach)
  PROVE  Follows(f, <<Entry[f], 1>>, e, mm, reach, nc)
<1> DEFINE m == [v \in Var |-> IF v \in Memory THEN Min2(GetInitState[v]) ELSE e[v]]
           b == Entry[f]
<1>1. b \in Block /\ b \in Entries
  BY ProgramAssumption DEF Entries
<1>2. \A v \in Var : Min2(GetInitState[v]) \in GetInitState[v] /\ GetInitState[v] \in SUBSET (Lo .. Hi)
  <2>1. SUFFICES ASSUME NEW v \in Var
                 PROVE  Min2(GetInitState[v]) \in GetInitState[v] /\ GetInitState[v] \in SUBSET (Lo .. Hi)
    OBVIOUS
  <2>2. GetInitState[v] \in SUBSET (Lo .. Hi)
    BY InitStateIs, FactIs
  <2>3. GetInitState[v] # {}
    BY RangeAssumption DEF GetInitState, Top
  <2>4. QED BY <2>2, <2>3, Min2Is
<1>3. \A v \in Var : v \notin Memory => GetInitState[v] = Lo .. Hi
  BY DEF Memory, GetInitState, Top
<1>4. m \in Gamma(GetInitState)
  BY <1>2, <1>3 DEF Gamma, State
<1>5. Mirrors(f, <<b, 1>>, e, mm, reach, m)
  <2>1. m \in State
    BY <1>4 DEF Gamma
  <2>2. SameRegisters(e, m)
    BY DEF SameRegisters
  <2>3. \A v \in Memory : m[v] = Min2(GetInitState[v])
    BY DEF Memory
  <2>4. AllAgree(b, 1, m, Entries)
    BY <1>1, AgreeAtEntry
  <2> HIDE DEF m
  <2>5. QED BY <2>1, <2>2, <2>3, <2>4 DEF Mirrors
<1>6. PICK g : g \in MapsFor(f, reach, nc)
  BY MapsForAre
<1>7. IsInterf(g, nc)
  BY <1>6, MapsForAre
<1>8. PICK In, R : IsResult(f, GetInitState, In, R, g, nc)
  BY <1>7, InitStateIs, AnalysisIs
<1> HIDE DEF m
<1>9. In[b] \in Fact /\ Leq(GetInitState, In[b])
  BY <1>1, <1>8 DEF IsResult, IsSolution
<1>10. m \in Gamma(In[b])
  BY <1>4, <1>9, GammaGrows
<1>11. In[b] # Bottom
  BY <1>10, GammaNotBottom DEF WellFormed
<1>12. FactsIn(b, In[b], g, nc)[1 - 1] = In[b]
  BY <1>1, <1>7, <1>9, FactsInIs
<1>13. Described(f, <<b, 1>>, reach, nc, g, m)
  BY <1>6, <1>8, <1>10, <1>11, <1>12 DEF Described
<1>14. QED BY <1>5, <1>13 DEF Follows

(* A store of another thread that the analysis knows of. *)
LEMMA OthersStore ==
  ASSUME NEW f, NEW p, NEW e, NEW mm \in State, NEW reach, NEW nc, Follows(f, p, e, mm, reach, nc),
         NEW v \in Var, NEW x, Source(f, v, x, reach)
  PROVE  Follows(f, p, e, [mm EXCEPT ![v] = x], reach, nc)
<1>1. PICK g, m : Mirrors(f, p, e, mm, reach, m) /\ Described(f, p, reach, nc, g, m)
  BY DEF Follows
<1>2. PICK mm2 : mm2 = [mm EXCEPT ![v] = x]
  OBVIOUS
<1>3. ASSUME NEW u \in Memory PROVE mm2[u] = m[u] \/ Source(f, u, mm2[u], reach)
  <2>1. CASE u = v
    BY <1>2, <2>1 DEF State
  <2>2. CASE u # v
    <3>1. mm2[u] = mm[u]
      BY <1>2, <2>2 DEF State
    <3>2. QED BY <1>1, <3>1 DEF Mirrors
  <2>3. QED BY <2>1, <2>2
<1>4. Mirrors(f, p, e, mm2, reach, m)
  BY <1>1, <1>3 DEF Mirrors
<1>5. QED BY <1>1, <1>2, <1>4 DEF Follows

(* An instruction of the thread is an instruction of the analysed thread,   *)
(* and what it shows to the analysis is in the result.                      *)
Noted(s, e, reached) ==
  s \in Recorded => s \in DOMAIN reached /\ (s \in StoreSite => e[InstrAt(s).ptr] \in reached[s][InstrAt(s).ptr])

LEMMA InstrFollowed ==
  ASSUME LoopFree, WellFormed, NEW f \in DOMAIN Entry, NEW reach, P!Reaches(StoreSite, reach), NEW nc \in BOOLEAN,
         NEW p \in Site, FuncOf(p) = f, NEW e \in State, NEW mm \in State, Follows(f, p, e, mm, reach, nc),
         NEW preds, NEW e2 \in Outcomes(e, p, preds, SharedRead(p, mm), FALSE), Exact(e, p, e2),
         NEW mm2, mm2 = IF p \in StoreSite THEN [mm EXCEPT ![InstrAt(p).ptr] = e2[InstrAt(p).ptr]] ELSE mm
  PROVE  /\ Follows(f, <<p[1], p[2] + 1>>, e2, mm2, reach, nc)
         /\ \E g \in MapsFor(f, reach, nc) : Noted(p, e2, AnalyzeFunc(f, GetInitState, g, nc))
<1> DEFINE i == InstrAt(p)
<1>1. PICK b, k : p = <<b, k>> /\ b \in Block /\ k \in 1 .. Len(Prog[b].body) /\ Len(Prog[b].body) \in Nat
  BY InstrIs, CodeAssumption DEF Site
<1>2. IsPoint(p) /\ p[1] = b /\ p[2] = k /\ k - 1 \in 0 .. Len(Prog[b].body) /\ k \in 0 .. Len(Prog[b].body)
  BY <1>1 DEF IsPoint
<1>3. PICK g, m : Mirrors(f, p, e, mm, reach, m) /\ Described(f, p, reach, nc, g, m)
  BY DEF Follows
<1>4. m \in State /\ SameRegisters(e, m) /\ AllAgree(b, k, m, Entries)
  BY <1>2, <1>3 DEF Mirrors
<1>5. PICK h \in MapsFor(f, reach, nc) :
        Described(f, p, reach, nc, h, m) /\ (p \in LoadSite => mm[i.ptr] \in Readable(m, p, h, nc))
  <2>1. CASE p \in LoadSite
    <3>1. i.ptr \in Memory
      BY <2>1, LoadsAre DEF Memory
    <3>2. mm[i.ptr] = m[i.ptr] \/ Source(f, i.ptr, mm[i.ptr], reach)
      BY <1>3, <3>1 DEF Mirrors
    <3>3. g \in MapsFor(f, reach, nc)
      BY <1>3 DEF Described
    <3>4. PICK h \in MapsFor(f, reach, nc) :
            mm[i.ptr] \in Readable(m, p, h, nc) /\ \A s : s # p => BelowAt(g, h, nc, s)
      BY <2>1, <3>2, <3>3, LoadForeseen
    <3>5. Described(f, p, reach, nc, h, m)
      BY <1>2, <1>3, <3>4, Exchanged
    <3>6. QED BY <3>4, <3>5
  <2>2. CASE p \notin LoadSite
    BY <1>3, <2>2 DEF Described
  <2>3. QED BY <2>1, <2>2
<1>6. IsInterf(h, nc)
  BY <1>5, MapsForAre
<1>7. PICK n \in Outcomes(m, p, preds, h, nc) :
        /\ SameRegisters(e2, n)
        /\ p \in LoadSite \cup StoreSite => n[i.ptr] = e2[i.ptr]
        /\ p \in LoadSite \ StoreSite => e2[i.ptr] = mm[i.ptr]
        /\ Exact(m, p, n)
  <2>1. MemoryApart
    BY DEF WellFormed
  <2>2. p \in LoadSite => mm[InstrAt(p).ptr] \in Readable(m, p, h, nc)
    BY <1>5
  <2>3. \E n \in Outcomes(m, p, preds, h, nc) : DidTheSame(p, e2, mm, n)
    <3>1. m \in State /\ SameRegisters(e, m)
      BY <1>4
    <3>2. QED BY <2>1, <2>2, <3>1, MirrorIs
  <2>4. PICK n \in Outcomes(m, p, preds, h, nc) : DidTheSame(p, e2, mm, n)
    BY <2>3
  <2>5. SameRegisters(e2, n)
    BY <2>4 DEF DidTheSame
  <2>6. Exact(m, p, n)
    BY <1>4, <2>1, <2>5, MirrorIsExact
  <2>7. QED BY <2>4, <2>6 DEF DidTheSame
<1>8. n \in State /\ \A v \in Var : v \notin Written(i) => n[v] = m[v]
  BY <1>4, <1>6, <1>7, OutcomeIs
<1>9. PICK In, R : /\ IsResult(f, GetInitState, In, R, h, nc) /\ In[b] # Bottom
                   /\ m \in Gamma(FactsIn(b, In[b], h, nc)[k - 1])
  BY <1>2, <1>5 DEF Described
<1> DEFINE F == FactsIn(b, In[b], h, nc)
<1>10. In[b] \in Fact
  BY <1>1, <1>9 DEF IsResult, IsSolution
<1>11. F[k - 1] \in Fact /\ F[k] \in Fact /\ F[k] = Transfer(F[k - 1], p, h, nc)
  BY <1>1, <1>2, <1>6, <1>10, FactsInIs
<1> HIDE DEF F
<1>12. n \in Gamma(F[k])
  <2>1. m \in Gamma(F[k - 1])
    BY <1>9 DEF F
  <2>2. n \in Gamma(Transfer(F[k - 1], p, h, nc))
    <3>1. Handled(InstrAt(p))
      BY ProgramAssumption
    <3>2. QED BY <1>6, <1>7, <1>11, <2>1, <3>1, TransferSound DEF WellFormed
  <2>3. QED BY <1>11, <2>2
<1>13. Described(f, <<b, k + 1>>, reach, nc, h, n)
  <2>1. (k + 1) - 1 = k
    BY <1>1
  <2>2. PICK q : q = <<b, k + 1>>
    OBVIOUS
  <2>5. q[1] = b /\ q[2] - 1 = k
    BY <2>1, <2>2
  <2>3. n \in Gamma(FactsIn(q[1], In[q[1]], h, nc)[q[2] - 1])
    BY <1>12, <2>5 DEF F
  <2>4. QED BY <1>5, <1>9, <2>2, <2>3, <2>5 DEF Described
<1>14. AllAgree(b, k + 1, n, Entries)
  <2>1. Handled(InstrAt(<<b, k>>))
    BY <1>1, ProgramAssumption
  <2>2. QED BY <1>1, <1>4, <1>6, <1>7, <2>1, AgreeAfterStep
<1>15. ASSUME NEW v \in Memory PROVE mm2[v] = n[v] \/ Source(f, v, mm2[v], reach)
  <2>1. v \in Var
    BY DEF Memory
  <2>2. CASE p \in StoreSite /\ v = i.ptr
    BY <1>7, <2>1, <2>2 DEF State
  <2>3. CASE p \in LoadSite \ StoreSite /\ v = i.ptr
    BY <1>7, <2>3
  <2>4. CASE ~ (p \in LoadSite \cup StoreSite /\ v = i.ptr)
    <3>1. mm2[v] = mm[v]
      BY <2>1, <2>4 DEF State
    <3>2. v \notin Written(i)
      <4>1. p \in LoadSite \cup StoreSite <=> i.op \in {"store", "load", "rmw"}
        BY DEF LoadSite, StoreSite, SitesWith
      <4>2. i.op \in {"load", "rmw", "add", "mul", "xor", "intxor", "icmp", "cast", "phi"} => i.to # v
        BY DEF WellFormed, MemoryApart
      <4>3. QED BY <2>4, <4>1, <4>2 DEF Written
    <3>3. QED BY <1>3, <1>8, <2>1, <3>1, <3>2 DEF Mirrors
  <2>5. QED BY <2>2, <2>3, <2>4
<1>16. Follows(f, <<b, k + 1>>, e2, mm2, reach, nc)
  <2>1. PICK q : q = <<b, k + 1>>
    OBVIOUS
  <2>4. q[1] = b /\ q[2] = k + 1
    BY <2>1
  <2>2. Mirrors(f, q, e2, mm2, reach, n)
    BY <1>7, <1>8, <1>14, <1>15, <2>4 DEF Mirrors
  <2>3. QED BY <1>13, <2>1, <2>2 DEF Follows
<1>17. Noted(p, e2, AnalyzeFunc(f, GetInitState, h, nc))
  <2>1. SUFFICES ASSUME p \in Recorded PROVE Noted(p, e2, AnalyzeFunc(f, GetInitState, h, nc))
    BY DEF Noted
  <2>2. Leq(RecordedAt(b, In[b], p, h, nc), R[p])
    BY <1>1, <1>2, <1>9, <2>1 DEF IsResult, IsSolution
  <2>3. RecordedAt(b, In[b], p, h, nc) = IF p \in StoreSite THEN F[k] ELSE F[k - 1]
    BY <1>2 DEF RecordedAt, F
  <2>4. m \in Gamma(F[k - 1])
    BY <1>9 DEF F
  <2>5. /\ p \in StoreSite => n \in Gamma(R[p])
        /\ p \notin StoreSite => m \in Gamma(R[p])
    BY <1>12, <2>2, <2>3, <2>4, GammaGrows
  <2>6. R[p] # Bottom
    BY <2>5, GammaNotBottom DEF WellFormed
  <2>7. p \in DOMAIN Returned(R) /\ Returned(R)[p] = R[p]
    BY <2>1, <2>6 DEF Returned
  <2>8. ASSUME p \in StoreSite PROVE e2[i.ptr] \in R[p][i.ptr]
    <3>1. i.ptr \in Var
      BY <2>8, LoadsAre
    <3>2. QED BY <1>7, <2>5, <2>8, <3>1 DEF Gamma
  <2>9. AnalyzeFunc(f, GetInitState, h, nc) = Returned(R)
    BY <1>9 DEF IsResult
  <2>10. QED BY <2>7, <2>8, <2>9 DEF Noted
<1>18. QED BY <1>2, <1>5, <1>16, <1>17

(* And so is what it does at the end of a block. *)
LEMMA TermFollowed ==
  ASSUME LoopFree, WellFormed, NEW f \in DOMAIN Entry, NEW reach, P!Reaches(StoreSite, reach), NEW nc \in BOOLEAN,
         NEW b \in Block, NEW e, NEW mm, Follows(f, <<b, Len(Prog[b].body) + 1>>, e, mm, reach, nc),
         Prog[b].term.kind = "br" => e[Prog[b].term.cond] \in 0 .. 1,
         Taken(b, e) # Exit
  PROVE  Follows(f, <<Taken(b, e), 1>>, e, mm, reach, nc)
<1> DEFINE k == Len(Prog[b].body)
           t == Taken(b, e)
           p == <<b, k + 1>>
<1>1. k \in Nat /\ k \in 0 .. k /\ p[1] = b /\ p[2] = k + 1 /\ (k + 1) - 1 = k
  BY CodeAssumption
<1>2. t \in SuccOf[b] /\ t \in Block
  BY TerminatorIs, SuccIsBlock
<1>3. PICK g, m : Mirrors(f, p, e, mm, reach, m) /\ Described(f, p, reach, nc, g, m)
  BY DEF Follows
<1> HIDE DEF k, p
<1>4. g \in MapsFor(f, reach, nc) /\ IsInterf(g, nc)
  BY <1>3, MapsForAre DEF Described
<1>5. PICK In, R : /\ IsResult(f, GetInitState, In, R, g, nc) /\ In[b] # Bottom
                   /\ m \in Gamma(FactsIn(b, In[b], g, nc)[k])
  BY <1>1, <1>3 DEF Described
<1>6. In[b] \in Fact /\ In[t] \in Fact /\ Leq(RunTransferFuncs(b, In[b], t, g, nc), In[t])
  BY <1>2, <1>5 DEF IsResult, IsSolution
<1>7. FactsIn(b, In[b], g, nc)[k] \in Fact
  BY <1>1, <1>4, <1>6, FactsInIs DEF k
<1>8. Prog[b].term.kind = "br" => m[Prog[b].term.cond] = e[Prog[b].term.cond]
  <2>1. SUFFICES ASSUME Prog[b].term.kind = "br" PROVE m[Prog[b].term.cond] = e[Prog[b].term.cond]
    OBVIOUS
  <2>2. IsTerminator(Prog[b].term)
    BY TerminatorIs
  <2>3. PICK s \in Site : /\ InstrAt(s).op \in {"icmp", "xor", "phi", "cast"} /\ InstrAt(s).to = Prog[b].term.cond
                          /\ Prog[b].term.cond \in Var
    BY <2>1, <2>2 DEF IsTerminator
  <2>4. Prog[b].term.cond \notin Memory
    BY <2>3 DEF WellFormed, MemoryApart
  <2>5. QED BY <1>3, <2>3, <2>4 DEF Mirrors, SameRegisters
<1>9. Taken(b, m) = t
  <2>1. CASE Prog[b].term.kind = "br"
    <3>1. m[Prog[b].term.cond] = e[Prog[b].term.cond]
      BY <1>8, <2>1
    <3>2. QED BY <3>1 DEF Taken
  <2>2. CASE Prog[b].term.kind # "br"
    <3>1. Prog[b].term.kind \in {"goto", "ret"}
      BY <2>2, TerminatorIs DEF IsTerminator
    <3>2. QED BY <3>1 DEF Taken
  <2>3. QED BY <2>1, <2>2
<1>10. AllAgree(b, Len(Prog[b].body) + 1, m, Entries)
  BY <1>1, <1>3 DEF Mirrors, k
<1>11. m \in Gamma(RunTransferFuncs(b, In[b], t, g, nc))
  <2>1. PICK F : F = FactsIn(b, In[b], g, nc)[k]
    OBVIOUS
  <2>2. F \in Fact /\ m \in Gamma(F)
    BY <1>5, <1>7, <2>1
  <2>3. BranchesCurrent(Entries)
    BY DEF WellFormed, BranchesOnBits, Entries
  <2>4. Prog[b].term.kind = "br" => m[Prog[b].term.cond] \in 0 .. 1
    BY <1>8
  <2>5. m \in Gamma(PassTo(b, F, Taken(b, m)))
    BY <1>10, <2>2, <2>3, <2>4, EdgeSound
  <2>6. QED BY <1>9, <2>1, <2>5 DEF RunTransferFuncs, k
<1> HIDE DEF t
<1>12. m \in Gamma(In[t])
  BY <1>6, <1>11, GammaGrows
<1>13. In[t] # Bottom
  BY <1>12, GammaNotBottom DEF WellFormed
<1>14. PICK q : q = <<t, 1>>
  OBVIOUS
<1>20. q[1] = t /\ q[2] - 1 = 0 /\ q[2] = 1
  BY <1>14
<1>15. FactsIn(t, In[t], g, nc)[0] = In[t]
  BY <1>2, <1>4, <1>6, FactsInIs
<1>16. Described(f, q, reach, nc, g, m)
  BY <1>4, <1>5, <1>12, <1>13, <1>15, <1>20 DEF Described
<1>17. AllAgree(t, 1, m, Entries)
  BY <1>2, <1>10, AgreeAcrossEdge
<1>18. Mirrors(f, q, e, mm, reach, m)
  BY <1>3, <1>17, <1>20 DEF Mirrors
<1>19. QED BY <1>14, <1>16, <1>18 DEF Follows, t

-----------------------------------------------------------------------------
(* The threads of a run, each followed by its analysis. *)

InitialBits(Bits) == HoldBits(Bits) /\ \A v \in Bits : Min2(GetInitState[v]) \in 0 .. 1

(* A thread that has not started will find in memory what it expects there  *)
(* or what others have written.                                             *)
ThreadAt(f, p, e, mm, reach, nc) ==
  /\ e \in State
  /\ \A Bits \in SUBSET Var : InitialBits(Bits) => \A v \in Bits : e[v] \in 0 .. 1
  /\ p = Idle => \A v \in Memory : mm[v] = Min2(GetInitState[v]) \/ Source(f, v, mm[v], reach)
  /\ p \notin {Idle, Over} => IsPoint(p) /\ Prog[p[1]].fn = f /\ Follows(f, p, e, mm, reach, nc)

(* The thread that is at p has passed the creation c. *)
Behind(c, p) ==
  \/ p = Over
  \/ /\ p # Idle
     /\ \E i, j \in DOMAIN BlockOrder :
          BlockOrder[i] = c[1] /\ BlockOrder[j] = p[1] /\ (i < j \/ (i = j /\ c[2] < p[2]))

Ran ==
  /\ DOMAIN pc = DOMAIN Entry /\ DOMAIN env = DOMAIN Entry /\ mem \in State
  /\ \A f \in threadFuncs : ThreadAt(f, pc[f], env[f], mem, allReachStores, option.nocombs)
  /\ \A f \in DOMAIN Entry : pc[f] # Idle => f \in threadFuncs
  /\ \A c \in CreateSite : pc[Starts[c]] # Idle => FuncOf(c) \in DOMAIN Entry /\ Behind(c, pc[FuncOf(c)])
  /\ RunReported

LEMMA PointIsNot ==
  ASSUME NEW p, IsPoint(p)
  PROVE  p \notin {Idle, Over}
<1>1. p[2] # 0
  BY DEF IsPoint
<1>2. Idle[2] = 0 /\ Over[2] = 0
  BY DEF Idle, Over
<1>3. QED BY <1>1, <1>2

LEMMA BitsStay ==
  ASSUME NEW s \in Site, NEW e \in State, NEW mm \in State, NEW preds,
         NEW n \in Outcomes(e, s, preds, SharedRead(s, mm), FALSE),
         NEW Bits \in SUBSET Var, InitialBits(Bits), \A v \in Bits : e[v] \in 0 .. 1
  PROVE  \A v \in Bits : n[v] \in 0 .. 1
<1>1. IsInterf(SharedRead(s, mm), FALSE)
  BY SharedReadIs
<1>2. HoldBits(Bits)
  BY DEF InitialBits
<1>3. QED BY <1>1, <1>2, OutcomeHoldsBits

MemoryAfter(s, mm, e) == IF s \in StoreSite THEN [mm EXCEPT ![InstrAt(s).ptr] = e[InstrAt(s).ptr]] ELSE mm

(* What the instruction did is in the result of one permutation. *)
NotedIn(s, e, f, reach, nc) ==
  \E g \in MapsFor(f, reach, nc) : Noted(s, e, AnalyzeFunc(f, GetInitState, g, nc))

Executes(f, p, e, mm, reach, nc, preds, e2) ==
  /\ f \in DOMAIN Entry /\ P!Reaches(StoreSite, reach) /\ nc \in BOOLEAN
  /\ p \in Site /\ mm \in State /\ ThreadAt(f, p, e, mm, reach, nc)
  /\ e2 \in Outcomes(e, p, preds, SharedRead(p, mm), FALSE) /\ Exact(e, p, e2)

LEMMA ThreadAfterInstr ==
  ASSUME LoopFree, WellFormed,
         NEW f, NEW p, NEW e, NEW mm, NEW reach, NEW nc, NEW preds, NEW e2,
         Executes(f, p, e, mm, reach, nc, preds, e2)
  PROVE  /\ ThreadAt(f, <<p[1], p[2] + 1>>, e2, MemoryAfter(p, mm, e2), reach, nc)
         /\ MemoryAfter(p, mm, e2) \in State /\ FuncOf(p) = f
         /\ NotedIn(p, e2, f, reach, nc)
<1> DEFINE mm2 == MemoryAfter(p, mm, e2)
<1>0. mm2 = IF p \in StoreSite THEN [mm EXCEPT ![InstrAt(p).ptr] = e2[InstrAt(p).ptr]] ELSE mm
  BY DEF MemoryAfter
<1> HIDE DEF mm2
<1>13. /\ f \in DOMAIN Entry /\ P!Reaches(StoreSite, reach) /\ nc \in BOOLEAN
       /\ p \in Site /\ mm \in State /\ ThreadAt(f, p, e, mm, reach, nc)
       /\ e2 \in Outcomes(e, p, preds, SharedRead(p, mm), FALSE) /\ Exact(e, p, e2)
  BY DEF Executes
<1> USE <1>13
<1>1. IsPoint(p) /\ IsPoint(<<p[1], p[2] + 1>>)
  <2>1. PICK b, k : p = <<b, k>> /\ b \in Block /\ k \in 1 .. Len(Prog[b].body) /\ Len(Prog[b].body) \in Nat
    BY InstrIs, CodeAssumption DEF Site
  <2>2. QED BY <2>1 DEF IsPoint
<1>2. e \in State /\ Prog[p[1]].fn = f /\ Follows(f, p, e, mm, reach, nc)
  BY <1>1, PointIsNot DEF ThreadAt
<1>3. FuncOf(p) = f
  BY <1>2, FuncOfIs
<1>4. IsInterf(SharedRead(p, mm), FALSE)
  BY SharedReadIs
<1>5. e2 \in State
  BY <1>2, <1>4, OutcomeIs
<1>6. \A Bits \in SUBSET Var : InitialBits(Bits) => \A v \in Bits : e2[v] \in 0 .. 1
  <2>1. SUFFICES ASSUME NEW Bits \in SUBSET Var, InitialBits(Bits) PROVE \A v \in Bits : e2[v] \in 0 .. 1
    OBVIOUS
  <2>2. \A v \in Bits : e[v] \in 0 .. 1
    BY <2>1 DEF ThreadAt
  <2>3. QED BY <1>2, <2>1, <2>2, BitsStay
<1>7. mm2 \in State
  <2>1. CASE p \in StoreSite
    <3>1. e2[InstrAt(p).ptr] \in Lo .. Hi
      BY <1>5, <2>1, LoadsAre DEF State
    <3>2. QED BY <1>0, <2>1, <3>1 DEF State
  <2>2. CASE p \notin StoreSite
    BY <1>0, <2>2
  <2>3. QED BY <2>1, <2>2
<1>8. /\ Follows(f, <<p[1], p[2] + 1>>, e2, mm2, reach, nc)
      /\ NotedIn(p, e2, f, reach, nc)
  BY <1>0, <1>2, <1>3, InstrFollowed DEF NotedIn
<1>9. PICK q : q = <<p[1], p[2] + 1>>
  OBVIOUS
<1>10. q \notin {Idle, Over} /\ IsPoint(q) /\ q[1] = p[1]
  BY <1>1, <1>9, PointIsNot
<1>11. ThreadAt(f, q, e2, mm2, reach, nc)
  BY <1>2, <1>5, <1>6, <1>8, <1>9, <1>10 DEF ThreadAt
<1>12. QED BY <1>3, <1>7, <1>8, <1>9, <1>11 DEF mm2

LEMMA ThreadAfterTerm ==
  ASSUME LoopFree, WellFormed, NEW f \in DOMAIN Entry, NEW reach, P!Reaches(StoreSite, reach), NEW nc \in BOOLEAN,
         NEW b \in Block, NEW e, NEW mm, ThreadAt(f, <<b, Len(Prog[b].body) + 1>>, e, mm, reach, nc)
  PROVE  ThreadAt(f, IF Taken(b, e) = Exit THEN Over ELSE <<Taken(b, e), 1>>, e, mm, reach, nc)
<1>1. PICK p : p = <<b, Len(Prog[b].body) + 1>>
  OBVIOUS
<1>2. IsPoint(p) /\ p[1] = b
  BY <1>1, CodeAssumption DEF IsPoint
<1>3. e \in State /\ Prog[b].fn = f /\ Follows(f, p, e, mm, reach, nc)
  BY <1>1, <1>2, PointIsNot DEF ThreadAt
<1>4. Idle # Over
  BY DEF Idle, Over
<1>5. CASE Taken(b, e) = Exit
  BY <1>1, <1>4, <1>5 DEF ThreadAt
<1>6. CASE Taken(b, e) # Exit
  <2>1. Taken(b, e) \in SuccOf[b] /\ Taken(b, e) \in Block
    BY <1>6, TerminatorIs
  <2>2. Prog[Taken(b, e)].fn = f
    BY <1>3, <2>1, ProgramAssumption
  <2>3. Prog[b].term.kind = "br" => e[Prog[b].term.cond] \in 0 .. 1
    <3>1. PICK Bits \in SUBSET Var : HoldBits(Bits) /\ \A v \in Bits : Min2(GetInitState[v]) \in 0 .. 1
      BY DEF WellFormed, BranchesOnBits
    <3>2. \A v \in Bits : e[v] \in 0 .. 1
      BY <3>1 DEF ThreadAt, InitialBits
    <3>3. QED BY <3>1, <3>2 DEF HoldBits
  <2>4. Follows(f, <<Taken(b, e), 1>>, e, mm, reach, nc)
    BY <1>1, <1>3, <1>6, <2>3, TermFollowed
  <2>5. PICK q : q = <<Taken(b, e), 1>>
    OBVIOUS
  <2>6. IsPoint(q) /\ q[1] = Taken(b, e)
    BY <2>1, <2>5, CodeAssumption DEF IsPoint
  <2>7. ThreadAt(f, q, e, mm, reach, nc)
    BY <1>3, <2>2, <2>4, <2>5, <2>6, PointIsNot DEF ThreadAt
  <2>8. QED BY <1>6, <2>5, <2>7
<1>7. QED BY <1>5, <1>6

LEMMA ThreadAfterStart ==
  ASSUME LoopFree, WellFormed, NEW f \in DOMAIN Entry, NEW reach, P!Reaches(StoreSite, reach), NEW nc \in BOOLEAN,
         NEW e \in State, \A Bits \in SUBSET Var : InitialBits(Bits) => \A v \in Bits : e[v] \in 0 .. 1,
         NEW mm, \A v \in Memory : mm[v] = Min2(GetInitState[v]) \/ Source(f, v, mm[v], reach)
  PROVE  ThreadAt(f, <<Entry[f], 1>>, e, mm, reach, nc)
<1>1. Follows(f, <<Entry[f], 1>>, e, mm, reach, nc)
  BY Started
<1>2. PICK p : p = <<Entry[f], 1>>
  OBVIOUS
<1>3. IsPoint(p) /\ Prog[p[1]].fn = f
  BY <1>2, CodeAssumption, ProgramAssumption DEF IsPoint
<1>4. QED BY <1>1, <1>2, <1>3, PointIsNot DEF ThreadAt

LEMMA ThreadAfterStore ==
  ASSUME NEW f, NEW p, NEW e, NEW mm \in State, NEW reach, NEW nc, ThreadAt(f, p, e, mm, reach, nc),
         NEW v \in Var, NEW x, Source(f, v, x, reach), NEW mm2, mm2 = [mm EXCEPT ![v] = x]
  PROVE  ThreadAt(f, p, e, mm2, reach, nc)
<1>1. p \notin {Idle, Over} => Follows(f, p, e, mm2, reach, nc)
  BY OthersStore DEF ThreadAt
<1>2. \A u \in Memory : mm2[u] = mm[u] \/ Source(f, u, mm2[u], reach)
  <2>1. SUFFICES ASSUME NEW u \in Memory PROVE mm2[u] = mm[u] \/ Source(f, u, mm2[u], reach)
    OBVIOUS
  <2>2. u \in Var
    BY DEF Memory
  <2>3. CASE u = v
    BY <2>2, <2>3 DEF State
  <2>4. CASE u # v
    BY <2>2, <2>4 DEF State
  <2>5. QED BY <2>3, <2>4
<1>3. p = Idle => \A u \in Memory : mm2[u] = Min2(GetInitState[u]) \/ Source(f, u, mm2[u], reach)
  <2>1. SUFFICES ASSUME p = Idle, NEW u \in Memory
                 PROVE  mm2[u] = Min2(GetInitState[u]) \/ Source(f, u, mm2[u], reach)
    OBVIOUS
  <2>2. mm[u] = Min2(GetInitState[u]) \/ Source(f, u, mm[u], reach)
    BY <2>1 DEF ThreadAt
  <2>3. QED BY <1>2, <2>2
<1>4. QED BY <1>1, <1>3 DEF ThreadAt

(* Going on, a thread leaves behind what it has left behind, and the        *)
(* instruction it has run: it will not run it again.                        *)
LEMMA NotBehindItself ==
  ASSUME NEW c, Behind(c, c), c \notin {Idle, Over}, c[2] \in Nat
  PROVE  FALSE
<1>1. PICK i, j \in DOMAIN BlockOrder :
        BlockOrder[i] = c[1] /\ BlockOrder[j] = c[1] /\ (i < j \/ (i = j /\ c[2] < c[2]))
  BY DEF Behind
<1>2. i = j /\ i \in Nat
  BY <1>1, OrderIs, ProgramAssumption
<1>3. QED BY <1>1, <1>2

LEMMA BehindNext ==
  ASSUME NEW p, IsPoint(p), NEW q, q = <<p[1], p[2] + 1>>, IsPoint(q)
  PROVE  /\ \A c \in Site : Behind(c, p) => Behind(c, q)
         /\ Behind(p, q)
<1>1. p[2] \in Nat /\ q[1] = p[1] /\ q[2] = p[2] + 1 /\ p \notin {Idle, Over} /\ q \notin {Idle, Over}
  BY PointIsNot DEF IsPoint
<1>2. ASSUME NEW c \in Site, Behind(c, p) PROVE Behind(c, q)
  <2>1. c[2] \in Nat
    BY SiteIndex
  <2>2. PICK i, j \in DOMAIN BlockOrder :
          BlockOrder[i] = c[1] /\ BlockOrder[j] = p[1] /\ (i < j \/ (i = j /\ c[2] < p[2]))
    BY <1>1, <1>2 DEF Behind
  <2>3. i < j \/ (i = j /\ c[2] < q[2])
    BY <1>1, <2>1, <2>2
  <2>4. QED BY <1>1, <2>2, <2>3 DEF Behind
<1>3. Behind(p, q)
  <2>1. PICK i \in DOMAIN BlockOrder : BlockOrder[i] = p[1]
    BY ProgramAssumption DEF IsPoint
  <2>2. p[2] < q[2]
    BY <1>1
  <2>3. QED BY <1>1, <2>1, <2>2 DEF Behind
<1>4. QED BY <1>2, <1>3

LEMMA BehindEdge ==
  ASSUME LoopFree, NEW p, IsPoint(p), NEW t \in SuccOf[p[1]], NEW q, q = <<t, 1>>, IsPoint(q)
  PROVE  \A c \in Site : Behind(c, p) => Behind(c, q)
<1>1. SUFFICES ASSUME NEW c \in Site, Behind(c, p) PROVE Behind(c, q)
  OBVIOUS
<1>2. p \notin {Idle, Over} /\ q \notin {Idle, Over} /\ q[1] = t /\ t \in Block
  BY PointIsNot DEF IsPoint
<1>3. PICK i, j \in DOMAIN BlockOrder :
        BlockOrder[i] = c[1] /\ BlockOrder[j] = p[1] /\ (i < j \/ (i = j /\ c[2] < p[2]))
  BY <1>1, <1>2 DEF Behind
<1>4. PICK k \in DOMAIN BlockOrder : BlockOrder[k] = t
  BY <1>2, ProgramAssumption
<1>5. j < k
  BY <1>3, <1>4 DEF LoopFree
<1>6. i < k
  BY <1>3, <1>5, OrderIs
<1>7. QED BY <1>2, <1>3, <1>4, <1>6 DEF Behind

IsSettled == status = "done" /\ ~ option.dyninit /\ ~ option.filter_mhb

LEMMA SettledIs ==
  ASSUME LoopFree, WellFormed, P!FixInv, IsSettled
  PROVE  /\ option.nocombs \in BOOLEAN /\ threadFuncs \subseteq DOMAIN Entry /\ option.main \in threadFuncs
         /\ P!Reaches(StoreSite, allReachStores)
         /\ \A f \in threadFuncs : \A g \in MapsFor(f, allReachStores, option.nocombs) :
              P!RecordedOf(AnalyzeFunc(f, GetInitState, g, option.nocombs))
         /\ \A f, h \in threadFuncs : f # h => P!ReachLeq(newReachStores, allReachStores)
         /\ \A c \in CreateSite : /\ FuncOf(c) \in threadFuncs => Starts[c] \in threadFuncs
                                  /\ Starts[c] # option.main
<1>1. P!Assumed
  BY LoopFreeAnalysis, IterationAssumed
<1>2. status = "done" /\ ~ option.dyninit /\ ~ option.filter_mhb
  BY DEF IsSettled
<1>3. /\ option.nocombs \in BOOLEAN /\ threadFuncs \subseteq DOMAIN Entry
      /\ P!Reaches(StoreSite, allReachStores)
      /\ threadFuncs = {option.main} \cup {Starts[ci] : ci \in Range(ThreadCreate[option.main])}
      /\ \E o \in Option : o.main = option.main
      /\ \A f, h \in threadFuncs : f # h => P!ReachLeq(newReachStores, allReachStores)
  <2>1. \A q : P!Range(q) = Range(q)
    BY DEF Range, P!Range
  <2>2. PICK known : known = {option.main} \cup {Starts[ci] : ci \in P!Range(ThreadCreate[option.main])}
    OBVIOUS
  <2>3. known = {option.main} \cup {Starts[ci] : ci \in Range(ThreadCreate[option.main])}
    BY <2>1, <2>2
  <2>4. threadFuncs = known
    BY <1>1, <1>2, <2>2, P!Settled
  <2>5. /\ option.nocombs \in BOOLEAN /\ threadFuncs \subseteq DOMAIN Entry
        /\ P!Reaches(StoreSite, allReachStores)
        /\ \E o \in Option : o.main = option.main
        /\ \A f, h \in threadFuncs : f # h => P!ReachLeq(newReachStores, allReachStores)
    BY <1>1, <1>2, P!Settled
  <2>6. QED BY <2>3, <2>4, <2>5
<1>4. \A f \in threadFuncs : \A g \in MapsFor(f, allReachStores, option.nocombs) :
        P!RecordedOf(AnalyzeFunc(f, GetInitState, g, option.nocombs))
  BY <1>1, <1>2, P!Settled DEF MapsFor
<1>5. ASSUME NEW c \in CreateSite
      PROVE  (FuncOf(c) \in threadFuncs => Starts[c] \in threadFuncs) /\ Starts[c] # option.main
  <2>1. PICK o \in Option : o.main = option.main
    BY <1>3
  <2>2. PICK created : created = Range(ThreadCreate[option.main])
    OBVIOUS
  <2>3. /\ Starts[c] # option.main
        /\ FuncOf(c) \in {option.main} \cup {Starts[d] : d \in created} => c \in created
    BY <2>1, <2>2 DEF WellFormed, StartedOnce
  <2>4. QED BY <1>3, <2>2, <2>3
<1>6. QED BY <1>3, <1>4, <1>5

LEMMA NowhereIsNoSite == Idle \notin Site /\ Over \notin Site
<1>1. Idle[2] = 0 /\ Over[2] = 0
  BY DEF Idle, Over
<1>2. QED BY <1>1, SiteIndex

LEMMA NothingReported ==
  ASSUME event = Nothing
  PROVE  RunReported
<1>1. event[1] = Idle
  BY DEF Nothing
<1>2. event[1] \notin ErrorSite \cup StoreSite \cup CreateSite
  BY <1>1, NowhereIsNoSite DEF ErrorSite, StoreSite, CreateSite, SitesWith
<1>3. QED BY <1>2 DEF RunReported

LEMMA EntryIs ==
  ASSUME NEW f \in DOMAIN Entry
  PROVE  IsPoint(<<Entry[f], 1>>) /\ <<Entry[f], 1>> \notin {Idle, Over}
<1>1. PICK p : p = <<Entry[f], 1>>
  OBVIOUS
<1>2. IsPoint(p)
  BY <1>1, CodeAssumption, ProgramAssumption DEF IsPoint
<1>3. QED BY <1>1, <1>2, PointIsNot

LEMMA StateAtStart == [v \in Var |-> Min2(GetInitState[v])] \in State
<1>1. ASSUME NEW v \in Var PROVE Min2(GetInitState[v]) \in Lo .. Hi
  <2>1. GetInitState[v] \in SUBSET (Lo .. Hi)
    BY InitStateIs, FactIs
  <2>2. GetInitState[v] # {}
    BY RangeAssumption DEF GetInitState, Top
  <2>3. QED BY <2>1, <2>2, Min2Is
<1>2. QED BY <1>1 DEF State

LEMMA RanAtStart ==
  ASSUME LoopFree, WellFormed, P!FixInv, IsSettled, ThreadInit
  PROVE  Ran
<1>1. /\ option.nocombs \in BOOLEAN /\ threadFuncs \subseteq DOMAIN Entry /\ option.main \in threadFuncs
      /\ P!Reaches(StoreSite, allReachStores)
      /\ \A c \in CreateSite : Starts[c] # option.main
  BY SettledIs
<1>2. /\ mem = [v \in Var |-> Min2(GetInitState[v])] /\ event = Nothing
      /\ DOMAIN pc = DOMAIN Entry /\ DOMAIN env = DOMAIN Entry
      /\ \A f \in DOMAIN Entry : /\ pc[f] = IF f = option.main THEN <<Entry[f], 1>> ELSE Idle
                                 /\ env[f] = mem
  BY DEF ThreadInit
<1>3. mem \in State
  BY <1>2, StateAtStart
<1>4. \A v \in Var : mem[v] = Min2(GetInitState[v])
  BY <1>2
<1>5. \A v \in Memory : mem[v] = Min2(GetInitState[v])
  BY <1>4 DEF Memory
<1>6. \A Bits \in SUBSET Var : InitialBits(Bits) => \A v \in Bits : mem[v] \in 0 .. 1
  BY <1>4 DEF InitialBits
<1>7. ASSUME NEW f \in threadFuncs
      PROVE  ThreadAt(f, pc[f], env[f], mem, allReachStores, option.nocombs)
  <2>1. f \in DOMAIN Entry /\ env[f] = mem
    BY <1>1, <1>2
  <2>2. CASE f = option.main
    <3>1. ThreadAt(f, <<Entry[f], 1>>, mem, mem, allReachStores, option.nocombs)
      BY <1>1, <1>3, <1>5, <1>6, <2>1, ThreadAfterStart
    <3>2. QED BY <1>2, <2>1, <2>2, <3>1
  <2>3. CASE f # option.main
    <3>1. pc[f] = Idle
      BY <1>2, <2>1, <2>3
    <3>2. QED BY <1>3, <1>5, <1>6, <2>1, <3>1 DEF ThreadAt
  <2>4. QED BY <2>2, <2>3
<1>8. \A f \in DOMAIN Entry : pc[f] # Idle => f = option.main
  BY <1>2
<1>9. \A c \in CreateSite : Starts[c] \in DOMAIN Entry
  BY ConstantsRight DEF P!ConstantsOK
<1>10. RunReported
  BY <1>2, NothingReported
<1>11. QED BY <1>1, <1>2, <1>3, <1>7, <1>8, <1>9, <1>10 DEF Ran

LEMMA StartsAreThreads == \A c \in CreateSite : Starts[c] \in DOMAIN Entry /\ InstrAt(c).fn = Starts[c] /\ c \in Site
  BY ConstantsRight DEF P!ConstantsOK, Starts, CreateSite, SitesWith

LEMMA RunsWhere ==
  ASSUME Ran, NEW f \in DOMAIN Entry, MayRun(f)
  PROVE  /\ f \in threadFuncs /\ pc[f] \notin {Idle, Over} /\ IsPoint(pc[f])
         /\ ~ AtEnd(f) => pc[f] \in Site
         /\ AtEnd(f) => pc[f] = <<pc[f][1], Len(Prog[pc[f][1]].body) + 1>>
<1>1. Running(f)
  BY DEF MayRun, Ready, Local
<1>2. pc[f] \notin {Idle, Over} /\ f \in threadFuncs
  BY <1>1 DEF Running, Ran
<1>3. ThreadAt(f, pc[f], env[f], mem, allReachStores, option.nocombs)
  BY <1>2 DEF Ran
<1>4. IsPoint(pc[f])
  BY <1>2, <1>3 DEF ThreadAt
<1>5. PICK b, k : pc[f] = <<b, k>> /\ b \in Block /\ k \in 1 .. (Len(Prog[b].body) + 1) /\ Len(Prog[b].body) \in Nat
  BY <1>4, CodeAssumption DEF IsPoint
<1>6. AtEnd(f) <=> k > Len(Prog[b].body)
  BY <1>1, <1>5 DEF AtEnd
<1>7. ~ AtEnd(f) => k \in 1 .. Len(Prog[b].body)
  BY <1>5, <1>6
<1>8. QED BY <1>2, <1>4, <1>5, <1>6, <1>7, SiteOf

(* What a store of f writes, the other threads expect. *)
LEMMA StoreIsSource ==
  ASSUME LoopFree, WellFormed, P!FixInv, IsSettled, NEW s \in StoreSite, NEW e,
         FuncOf(s) \in threadFuncs,
         NEW g \in MapsFor(FuncOf(s), allReachStores, option.nocombs),
         Noted(s, e, AnalyzeFunc(FuncOf(s), GetInitState, g, option.nocombs))
  PROVE  /\ s \in DOMAIN newReachStores /\ e[InstrAt(s).ptr] \in newReachStores[s][InstrAt(s).ptr]
         /\ \A h \in threadFuncs : h # FuncOf(s) => Source(h, InstrAt(s).ptr, e[InstrAt(s).ptr], allReachStores)
<1>1. PICK r : r = AnalyzeFunc(FuncOf(s), GetInitState, g, option.nocombs)
  OBVIOUS
<1>2. PICK v : v = InstrAt(s).ptr
  OBVIOUS
<1>3. v \in Var /\ s \in Recorded
  BY <1>2, LoadsAre DEF Recorded
<1>4. P!RecordedOf(r)
  BY <1>1, SettledIs
<1>5. s \in DOMAIN r /\ e[v] \in r[s][v]
  BY <1>1, <1>2, <1>3 DEF Noted
<1>6. s \in DOMAIN newReachStores /\ Leq(r[s], newReachStores[s])
  BY <1>4, <1>5 DEF P!RecordedOf
<1>7. e[v] \in newReachStores[s][v]
  BY <1>3, <1>5, <1>6 DEF Leq
<1>8. ASSUME NEW h \in threadFuncs, h # FuncOf(s) PROVE Source(h, v, e[v], allReachStores)
  <2>1. P!ReachLeq(newReachStores, allReachStores)
    BY <1>8, SettledIs
  <2>2. s \in DOMAIN allReachStores /\ Leq(newReachStores[s], allReachStores[s])
    BY <1>6, <2>1 DEF P!ReachLeq
  <2>3. e[v] \in allReachStores[s][v]
    BY <1>3, <1>7, <2>2 DEF Leq
  <2>4. QED BY <1>2, <1>8, <2>2, <2>3 DEF Source
<1>9. QED BY <1>2, <1>6, <1>7, <1>8

(* Everything that is compared with the run stays as the analysis left it.  *)
Reported == <<option, threadFuncs, allReachStores, newReachStores, rErrors>>

LEMMA InstrKeeps ==
  ASSUME LoopFree, WellFormed, P!FixInv, IsSettled, Ran, UNCHANGED Reported,
         NEW f \in DOMAIN Entry, RunInstr(f), exact'
  PROVE  Ran'
<1> DEFINE p == pc[f]
           i == InstrAt(p)
           q == <<p[1], p[2] + 1>>
           reach == allReachStores
           nc == option.nocombs
<1>1. /\ nc \in BOOLEAN /\ threadFuncs \subseteq DOMAIN Entry /\ P!Reaches(StoreSite, reach)
      /\ \A c \in CreateSite : FuncOf(c) \in threadFuncs => Starts[c] \in threadFuncs
  BY SettledIs
<1>2. f \in threadFuncs /\ p \notin {Idle, Over} /\ IsPoint(p) /\ p \in Site
  BY RunsWhere DEF RunInstr
<1>3. PICK e \in Outcomes(env[f], p, {came[f]}, SharedRead(p, mem), FALSE) :
        /\ env' = IF i.op = "create" THEN [env EXCEPT ![i.fn] = e] ELSE [env EXCEPT ![f] = e]
        /\ mem' = IF p \in StoreSite THEN [mem EXCEPT ![i.ptr] = e[i.ptr]] ELSE mem
        /\ event' = IF p \in StoreSite THEN <<p, e[i.ptr]>> ELSE IF p \in Recorded THEN <<p, 0>> ELSE Nothing
        /\ pc' = [g \in DOMAIN Entry |->
                    IF g = f THEN q ELSE IF i.op = "create" /\ g = i.fn THEN <<Entry[g], 1>> ELSE pc[g]]
        /\ Exact(env[f], p, e)
  BY DEF RunInstr
<1>4. /\ mem \in State /\ ThreadAt(f, p, env[f], mem, reach, nc)
      /\ DOMAIN env = DOMAIN Entry
      /\ \A h \in threadFuncs : ThreadAt(h, pc[h], env[h], mem, reach, nc)
      /\ \A h \in DOMAIN Entry : pc[h] # Idle => h \in threadFuncs
      /\ \A c \in CreateSite : pc[Starts[c]] # Idle => FuncOf(c) \in DOMAIN Entry /\ Behind(c, pc[FuncOf(c)])
  BY <1>2 DEF Ran
<1> HIDE DEF p, reach, nc
<1>5. /\ ThreadAt(f, q, e, mem', reach, nc) /\ mem' \in State /\ FuncOf(p) = f
      /\ NotedIn(p, e, f, reach, nc)
  <2>1. PICK mm2 : mm2 = mem'
    OBVIOUS
  <2>2. PICK mm, e1, preds : mm = mem /\ e1 = env[f] /\ preds = {came[f]}
    OBVIOUS
  <2>3. PICK e2 : e2 = e
    OBVIOUS
  <2>4. PICK reach2, nc2 : reach2 = reach /\ nc2 = nc
    OBVIOUS
  <2>5. PICK p2 : p2 = p
    OBVIOUS
  <2>6. Executes(f, p2, e1, mm, reach2, nc2, preds, e2)
    BY <1>1, <1>2, <1>3, <1>4, <2>2, <2>3, <2>4, <2>5 DEF Executes
  <2>9. mm2 = MemoryAfter(p2, mm, e2)
    BY <1>3, <2>1, <2>2, <2>3, <2>5 DEF MemoryAfter
  <2>7. /\ ThreadAt(f, <<p2[1], p2[2] + 1>>, e2, mm2, reach2, nc2) /\ mm2 \in State /\ FuncOf(p2) = f
        /\ NotedIn(p2, e2, f, reach2, nc2)
    <3>1. /\ ThreadAt(f, <<p2[1], p2[2] + 1>>, e2, MemoryAfter(p2, mm, e2), reach2, nc2)
          /\ MemoryAfter(p2, mm, e2) \in State /\ FuncOf(p2) = f
          /\ NotedIn(p2, e2, f, reach2, nc2)
      BY <2>6, ThreadAfterInstr
    <3>2. QED BY <2>9, <3>1
  <2>8. QED BY <2>1, <2>3, <2>4, <2>5, <2>7
<1>6. PICK g \in MapsFor(f, reach, nc) : Noted(p, e, AnalyzeFunc(f, GetInitState, g, nc))
  BY <1>5 DEF NotedIn
<1>7. p \in StoreSite =>
        /\ p \in DOMAIN newReachStores /\ e[i.ptr] \in newReachStores[p][i.ptr]
        /\ \A h \in threadFuncs : h # f => Source(h, i.ptr, e[i.ptr], reach)
  <2>1. SUFFICES ASSUME p \in StoreSite
                 PROVE  /\ p \in DOMAIN newReachStores /\ e[i.ptr] \in newReachStores[p][i.ptr]
                        /\ \A h \in threadFuncs : h # f => Source(h, i.ptr, e[i.ptr], reach)
    OBVIOUS
  <2>2. QED BY <1>2, <1>5, <1>6, <2>1, StoreIsSource DEF reach, nc
<1>8. i.op = "create" => p \in CreateSite /\ i.fn = Starts[p] /\ i.fn \in threadFuncs /\ e = env[f]
  <2>1. SUFFICES ASSUME i.op = "create" PROVE p \in CreateSite /\ i.fn = Starts[p] /\ i.fn \in threadFuncs /\ e = env[f]
    OBVIOUS
  <2>2. p \in CreateSite
    BY <1>2, <2>1 DEF CreateSite, SitesWith
  <2>3. e = env[f]
    BY <1>3, <2>1 DEF Outcomes
  <2>4. QED BY <1>1, <1>2, <1>5, <2>2, <2>3, StartsAreThreads
<1>9. i.op = "create" => pc[i.fn] = Idle /\ i.fn # f
  <2>1. SUFFICES ASSUME i.op = "create", pc[i.fn] # Idle PROVE FALSE
    BY <1>2 DEF p
  <2>2. Behind(p, p)
    BY <1>4, <1>5, <1>8, <2>1 DEF p
  <2>3. p[2] \in Nat
    BY <1>2 DEF IsPoint
  <2>4. QED BY <1>2, <2>2, <2>3, NotBehindItself
<1>10. IsPoint(q) /\ q \notin {Idle, Over}
  <2>1. PICK b, k : p = <<b, k>> /\ b \in Block /\ k \in 1 .. Len(Prog[b].body) /\ Len(Prog[b].body) \in Nat
    BY <1>2, InstrIs, CodeAssumption DEF Site
  <2>2. IsPoint(q)
    BY <2>1 DEF IsPoint
  <2>3. QED BY <2>2, PointIsNot
<1>11. DOMAIN pc' = DOMAIN Entry /\ DOMAIN env' = DOMAIN Entry
  BY <1>3, <1>4
<1>12. ASSUME NEW h \in DOMAIN Entry
       PROVE  /\ h = f => pc'[h] = q /\ env'[h] = e
              /\ h # f /\ i.op = "create" /\ h = i.fn => pc'[h] = <<Entry[h], 1>> /\ env'[h] = e
              /\ h # f /\ ~ (i.op = "create" /\ h = i.fn) => pc'[h] = pc[h] /\ env'[h] = env[h]
  BY <1>3, <1>4, <1>8, <1>9
<1> HIDE DEF q
<1>13. ASSUME NEW h \in threadFuncs
       PROVE  ThreadAt(h, pc'[h], env'[h], mem', reach, nc)
  <2>1. h \in DOMAIN Entry
    BY <1>1
  <2>2. CASE h = f
    BY <1>5, <1>12, <2>1, <2>2
  <2>3. CASE h # f /\ i.op = "create" /\ h = i.fn
    <3>1. mem' = mem
      <4>1. p \notin StoreSite
        BY <2>3 DEF StoreSite, SitesWith
      <4>2. QED BY <1>3, <4>1
    <3>2. pc[h] = Idle /\ ThreadAt(h, pc[h], env[h], mem, reach, nc)
      BY <1>4, <1>9, <2>3
    <3>3. PICK mm, e1, reach2, nc2 : mm = mem /\ e1 = e /\ reach2 = reach /\ nc2 = nc
      OBVIOUS
    <3>4. \A v \in Memory : mm[v] = Min2(GetInitState[v]) \/ Source(h, v, mm[v], reach2)
      BY <3>2, <3>3 DEF ThreadAt
    <3>5. e1 \in State /\ \A Bits \in SUBSET Var : InitialBits(Bits) => \A v \in Bits : e1[v] \in 0 .. 1
      BY <1>5, <3>3 DEF ThreadAt
    <3>6. ThreadAt(h, <<Entry[h], 1>>, e1, mm, reach2, nc2)
      BY <1>1, <2>1, <3>3, <3>4, <3>5, ThreadAfterStart
    <3>7. QED BY <1>12, <2>1, <2>3, <3>1, <3>3, <3>6
  <2>4. CASE h # f /\ ~ (i.op = "create" /\ h = i.fn)
    <3>1. pc'[h] = pc[h] /\ env'[h] = env[h] /\ ThreadAt(h, pc[h], env[h], mem, reach, nc)
      BY <1>4, <1>12, <2>1, <2>4
    <3>2. CASE p \in StoreSite
      <4>1. i.ptr \in Var
        BY <3>2, LoadsAre
      <4>2. PICK mm, mm2, e1, reach2, nc2, p2, x :
              mm = mem /\ mm2 = mem' /\ e1 = env[h] /\ reach2 = reach /\ nc2 = nc /\ p2 = pc[h] /\ x = e[i.ptr]
        OBVIOUS
      <4>3. PICK v \in Var : v = i.ptr
        BY <4>1
      <4>4. Source(h, v, x, reach2) /\ ThreadAt(h, p2, e1, mm, reach2, nc2) /\ mm \in State /\ mm2 = [mm EXCEPT ![v] = x]
        BY <1>3, <1>4, <1>7, <2>4, <3>1, <3>2, <4>2, <4>3
      <4>5. ThreadAt(h, p2, e1, mm2, reach2, nc2)
        BY <4>4, ThreadAfterStore
      <4>6. QED BY <3>1, <4>2, <4>5
    <3>3. CASE p \notin StoreSite
      BY <1>3, <3>1, <3>3
    <3>4. QED BY <3>2, <3>3
  <2>5. QED BY <2>2, <2>3, <2>4
<1>14. ASSUME NEW h \in DOMAIN Entry, pc'[h] # Idle PROVE h \in threadFuncs
  BY <1>2, <1>4, <1>8, <1>12, <1>14
<1>15. ASSUME NEW c \in CreateSite, pc'[Starts[c]] # Idle
       PROVE  FuncOf(c) \in DOMAIN Entry /\ Behind(c, pc'[FuncOf(c)])
  <2>1. Starts[c] \in DOMAIN Entry /\ c \in Site
    BY StartsAreThreads
  <2>2. /\ \A d \in Site : Behind(d, p) => Behind(d, q)
        /\ Behind(p, q)
    BY <1>2, <1>10, BehindNext DEF q
  <2>3. pc'[f] = q
    BY <1>12
  <2>4. CASE i.op = "create" /\ Starts[c] = i.fn
    <3>1. c = p
      BY <1>8, <2>4 DEF WellFormed, StartedOnce
    <3>2. QED BY <1>5, <2>2, <2>3, <3>1
  <2>5. CASE ~ (i.op = "create" /\ Starts[c] = i.fn)
    <3>1. pc[Starts[c]] # Idle
      BY <1>2, <1>12, <1>15, <2>1, <2>5 DEF p
    <3>2. FuncOf(c) \in DOMAIN Entry /\ Behind(c, pc[FuncOf(c)])
      BY <1>4, <3>1
    <3>3. CASE FuncOf(c) = f
      BY <2>1, <2>2, <2>3, <3>2, <3>3 DEF p
    <3>4. CASE FuncOf(c) # f
      <4>1. pc[FuncOf(c)] # Idle
        BY <3>2 DEF Behind, Idle, Over
      <4>2. pc'[FuncOf(c)] = pc[FuncOf(c)]
        BY <1>9, <1>12, <3>2, <3>4, <4>1
      <4>3. QED BY <3>2, <4>2
    <3>5. QED BY <3>3, <3>4
  <2>6. QED BY <2>4, <2>5
<1>16. RunReported'
  <2>1. CASE p \in StoreSite
    <3>1. event'[1] = p /\ event'[2] = e[i.ptr]
      BY <1>3, <2>1
    <3>2. p \notin ErrorSite \cup CreateSite
      BY <2>1 DEF StoreSite, ErrorSite, CreateSite, SitesWith
    <3>3. QED BY <1>7, <2>1, <3>1, <3>2 DEF RunReported, Reported
  <2>2. CASE p \in Recorded \ StoreSite
    <3>1. event'[1] = p
      BY <1>3, <2>2
    <3>2. p \in ErrorSite => p \in rErrors
      BY <1>2, <1>6, <2>2, SettledIs DEF Noted, P!RecordedOf, reach, nc
    <3>3. p \in CreateSite => Starts[p] \in threadFuncs
      BY <1>1, <1>2, <1>5
    <3>4. QED BY <2>2, <3>1, <3>2, <3>3 DEF RunReported, Reported
  <2>3. CASE p \notin Recorded
    <3>1. p \notin StoreSite
      BY <2>3 DEF Recorded
    <3>2. event'[1] = Idle
      BY <1>3, <2>3, <3>1 DEF Nothing
    <3>3. Idle \notin ErrorSite \cup StoreSite \cup CreateSite
      BY NowhereIsNoSite DEF ErrorSite, StoreSite, CreateSite, SitesWith
    <3>4. QED BY <3>2, <3>3 DEF RunReported
  <2>4. QED BY <2>1, <2>2, <2>3
<1>17. reach = allReachStores' /\ nc = option'.nocombs /\ threadFuncs' = threadFuncs
  BY DEF Reported, reach, nc
<1>18. QED BY <1>5, <1>11, <1>13, <1>14, <1>15, <1>16, <1>17 DEF Ran

LEMMA TermKeeps ==
  ASSUME LoopFree, WellFormed, P!FixInv, IsSettled, Ran, UNCHANGED Reported,
         NEW f \in DOMAIN Entry, RunTerm(f)
  PROVE  Ran'
<1> DEFINE b == pc[f][1]
           t == Taken(b, env[f])
           q == IF t = Exit THEN Over ELSE <<t, 1>>
           reach == allReachStores
           nc == option.nocombs
<1>1. nc \in BOOLEAN /\ threadFuncs \subseteq DOMAIN Entry /\ P!Reaches(StoreSite, reach)
  BY SettledIs
<1>2. /\ f \in threadFuncs /\ pc[f] \notin {Idle, Over} /\ IsPoint(pc[f]) /\ b \in Block
      /\ pc[f] = <<b, Len(Prog[b].body) + 1>>
  BY RunsWhere DEF RunTerm, IsPoint
<1>3. /\ pc' = [pc EXCEPT ![f] = q] /\ event' = Nothing /\ env' = env /\ mem' = mem
  BY DEF RunTerm
<1>4. /\ mem \in State /\ DOMAIN env = DOMAIN Entry /\ DOMAIN pc = DOMAIN Entry
      /\ \A h \in threadFuncs : ThreadAt(h, pc[h], env[h], mem, reach, nc)
      /\ \A h \in DOMAIN Entry : pc[h] # Idle => h \in threadFuncs
      /\ \A c \in CreateSite : pc[Starts[c]] # Idle => FuncOf(c) \in DOMAIN Entry /\ Behind(c, pc[FuncOf(c)])
  BY DEF Ran
<1> HIDE DEF b, reach, nc
<1>5. ThreadAt(f, q, env[f], mem, reach, nc)
  <2>1. PICK e, mm, reach2, nc2, b2 : e = env[f] /\ mm = mem /\ reach2 = reach /\ nc2 = nc /\ b2 = b
    OBVIOUS
  <2>2. /\ P!Reaches(StoreSite, reach2) /\ nc2 \in BOOLEAN /\ b2 \in Block
        /\ ThreadAt(f, <<b2, Len(Prog[b2].body) + 1>>, e, mm, reach2, nc2)
    BY <1>1, <1>2, <1>4, <2>1
  <2>3. ThreadAt(f, IF Taken(b2, e) = Exit THEN Over ELSE <<Taken(b2, e), 1>>, e, mm, reach2, nc2)
    BY <2>2, ThreadAfterTerm
  <2>4. QED BY <2>1, <2>3
<1>6. t # Exit => t \in SuccOf[b] /\ IsPoint(q) /\ q \notin {Idle, Over}
  <2>1. SUFFICES ASSUME t # Exit PROVE t \in SuccOf[b] /\ IsPoint(q) /\ q \notin {Idle, Over}
    OBVIOUS
  <2>2. t \in SuccOf[b] /\ t \in Block
    BY <1>2, <2>1, TerminatorIs
  <2>3. q = <<t, 1>>
    BY <2>1
  <2>4. IsPoint(q)
    BY <2>2, <2>3, CodeAssumption DEF IsPoint
  <2>5. QED BY <2>2, <2>4, PointIsNot
<1>7. q # Idle
  BY <1>6 DEF Idle, Over
<1>8. \A c \in Site : Behind(c, pc[f]) => Behind(c, q)
  <2>1. CASE t = Exit
    BY <2>1 DEF Behind
  <2>2. CASE t # Exit
    <3>1. PICK p, q2, t2 : p = pc[f] /\ q2 = q /\ t2 = t
      OBVIOUS
    <3>2. IsPoint(p) /\ t2 \in SuccOf[p[1]] /\ q2 = <<t2, 1>> /\ IsPoint(q2)
      BY <1>2, <1>6, <2>2, <3>1
    <3>3. \A c \in Site : Behind(c, p) => Behind(c, q2)
      BY <3>2, BehindEdge
    <3>4. QED BY <3>1, <3>3
  <2>3. QED BY <2>1, <2>2
<1>9. DOMAIN pc' = DOMAIN Entry /\ \A h \in DOMAIN Entry : pc'[h] = IF h = f THEN q ELSE pc[h]
  BY <1>3, <1>4
<1> HIDE DEF q
<1>10. ASSUME NEW h \in threadFuncs PROVE ThreadAt(h, pc'[h], env[h], mem, reach, nc)
  BY <1>1, <1>4, <1>5, <1>9
<1>11. ASSUME NEW h \in DOMAIN Entry, pc'[h] # Idle PROVE h \in threadFuncs
  BY <1>2, <1>4, <1>9, <1>11
<1>12. ASSUME NEW c \in CreateSite, pc'[Starts[c]] # Idle
       PROVE  FuncOf(c) \in DOMAIN Entry /\ Behind(c, pc'[FuncOf(c)])
  <2>1. Starts[c] \in DOMAIN Entry /\ c \in Site
    BY StartsAreThreads
  <2>2. pc[Starts[c]] # Idle
    BY <1>2, <1>9, <1>12, <2>1
  <2>3. FuncOf(c) \in DOMAIN Entry /\ Behind(c, pc[FuncOf(c)])
    BY <1>4, <2>2
  <2>4. QED BY <1>8, <1>9, <2>1, <2>3
<1>13. RunReported'
  <2>1. event'[1] = Idle
    BY <1>3 DEF Nothing
  <2>2. Idle \notin ErrorSite \cup StoreSite \cup CreateSite
    BY NowhereIsNoSite DEF ErrorSite, StoreSite, CreateSite, SitesWith
  <2>3. QED BY <2>1, <2>2 DEF RunReported
<1>14. reach = allReachStores' /\ nc = option'.nocombs /\ threadFuncs' = threadFuncs
  BY DEF Reported, reach, nc
<1>15. QED BY <1>3, <1>4, <1>9, <1>10, <1>11, <1>12, <1>13, <1>14 DEF Ran

(* No thread runs before the analysis has ended; from then on every thread  *)
(* is followed by its analysis, until a number is changed by its width.     *)
RunInv ==
  P!FixInv /\ (status # "done" => ThreadInit) /\ (IsSettled /\ exact => ThreadInit \/ Ran)

LEMMA RunStep ==
  ASSUME LoopFree, WellFormed, RunInv, [Next]_allVars
  PROVE  RunInv'
<1>1. P!FixInv'
  <2>1. P!AnalysisOK
    BY LoopFreeAnalysis
  <2>2. QED BY <2>1, IterationInvariant DEF RunInv
<1>2. CASE Analyze
  <2>1. status = "running" /\ option' = option
    <3>1. P!Next
      BY <1>2, SameIteration DEF Analyze
    <3>2. QED BY <3>1 DEF P!Next, P!AnalyzeThread, P!Abort, P!Finish, P!NextIteration
  <2>2. ThreadInit
    BY <2>1 DEF RunInv
  <2>3. UNCHANGED <<pc, came, env, mem, event, exact>>
    BY <1>2 DEF Analyze, threadVars
  <2>4. ThreadInit'
    BY <2>1, <2>2, <2>3 DEF ThreadInit
  <2>5. QED BY <1>1, <2>4 DEF RunInv
<1>3. CASE RunThread
  <2>1. /\ status = "done" /\ status' = status /\ UNCHANGED Reported
        /\ \E f \in DOMAIN Entry : RunInstr(f) \/ RunTerm(f)
    BY <1>3 DEF RunThread, Reported
  <2>2. IsSettled' <=> IsSettled
    BY <2>1 DEF IsSettled, Reported
  <2>3. ASSUME IsSettled, exact' PROVE Ran'
    <3>0. exact
      BY <2>1, <2>3 DEF RunInstr, RunTerm
    <3>1. Ran
      BY <2>3, <3>0, RanAtStart DEF RunInv
    <3>2. P!FixInv
      BY DEF RunInv
    <3>3. PICK f \in DOMAIN Entry : RunInstr(f) \/ RunTerm(f)
      BY <2>1
    <3>4. CASE RunInstr(f)
      BY <2>1, <2>3, <3>1, <3>2, <3>4, InstrKeeps
    <3>5. CASE RunTerm(f)
      BY <2>1, <2>3, <3>1, <3>2, <3>5, TermKeeps
    <3>6. QED BY <3>3, <3>4, <3>5
  <2>4. QED BY <1>1, <2>1, <2>2, <2>3 DEF RunInv
<1>4. CASE UNCHANGED allVars
  <2>1. /\ UNCHANGED <<pc, came, env, mem, event, exact>> /\ UNCHANGED Reported /\ status' = status
    BY <1>4 DEF allVars, A!vars, threadVars, Reported
  <2>2. ThreadInit' <=> ThreadInit
    BY <2>1 DEF ThreadInit, Reported
  <2>3. IsSettled' <=> IsSettled
    BY <2>1 DEF IsSettled, Reported
  <2>4. Ran' <=> Ran
    BY <2>1 DEF Ran, RunReported, Reported
  <2>5. QED BY <1>1, <2>1, <2>2, <2>3, <2>4 DEF RunInv
<1>5. QED BY <1>2, <1>3, <1>4 DEF Next

(* What an execution of a program without loops does was foreseen, as long  *)
(* as no cast and no sum changes a number (performCast), when the           *)
(* instructions are those the transfer functions handle, the threads are    *)
(* known from the start and no interference is filtered: an assertion that  *)
(* fails is among the reported errors, a value that a store writes is in    *)
(* the fact reported there, a thread that is created has been analysed      *)
(* (worklistai.cpp: runOnModule).                                           *)
THEOREM RunsAreReported ==
  LoopFree /\ WellFormed =>
    (Spec => [](~ option.dyninit /\ ~ option.filter_mhb => RunReported))
<1> SUFFICES ASSUME LoopFree, WellFormed
             PROVE  Spec => [](~ option.dyninit /\ ~ option.filter_mhb => RunReported)
  OBVIOUS
<1>1. Init => RunInv
  <2>1. SUFFICES ASSUME Init PROVE RunInv
    OBVIOUS
  <2>2. P!AnalysisOK
    BY LoopFreeAnalysis
  <2>3. P!FixInv
    BY <2>1, <2>2, IterationInvariant
  <2>4. ThreadInit
    BY <2>1 DEF Init
  <2>5. QED BY <2>3, <2>4 DEF RunInv
<1>2. RunInv /\ [Next]_allVars => RunInv'
  BY RunStep
<1>3. RunInv => (~ option.dyninit /\ ~ option.filter_mhb => RunReported)
  <2>1. SUFFICES ASSUME RunInv, ~ option.dyninit, ~ option.filter_mhb PROVE RunReported
    OBVIOUS
  <2>2. CASE ThreadInit
    BY <2>2, NothingReported DEF ThreadInit
  <2>3. CASE ~ ThreadInit
    <3>1. ASSUME exact PROVE RunReported
      BY <2>1, <2>3, <3>1 DEF RunInv, IsSettled, Ran
    <3>2. QED BY <3>1 DEF RunReported
  <2>4. QED BY <2>2, <2>3
<1>4. QED BY <1>1, <1>2, <1>3, PTL DEF Spec

-----------------------------------------------------------------------------
(* Type correctness of the analysis and of the execution beside it.         *)
LEMMA PointsAre ==
  /\ \A p : IsPoint(p) => p \in Points
  /\ \A p \in Points : /\ p[1] \in Block /\ p = <<p[1], p[2]>>
                       /\ p[2] \in 1 .. Len(Prog[p[1]].body) + 1 /\ Len(Prog[p[1]].body) \in Nat
<1>1. ASSUME NEW p, IsPoint(p) PROVE p \in Points
  <2>1. p[1] \in Block /\ p \in {p[1]} \X (1 .. Len(Prog[p[1]].body) + 1)
    BY <1>1 DEF IsPoint
  <2>2. QED BY <2>1 DEF Points
<1>2. ASSUME NEW p \in Points
      PROVE  /\ p[1] \in Block /\ p = <<p[1], p[2]>>
             /\ p[2] \in 1 .. Len(Prog[p[1]].body) + 1 /\ Len(Prog[p[1]].body) \in Nat
  <2>1. PICK b \in Block : p \in {b} \X (1 .. Len(Prog[b].body) + 1)
    BY DEF Points
  <2>2. p[1] = b /\ p = <<p[1], p[2]>> /\ p[2] \in 1 .. Len(Prog[b].body) + 1
    BY <2>1
  <2>3. QED BY <2>2, CodeAssumption
<1>3. QED BY <1>1, <1>2

(* A thread that may run stands at a point of its program. *)
LEMMA RunsAtPoint ==
  ASSUME ThreadsTyped, NEW f \in DOMAIN Entry, MayRun(f)
  PROVE  /\ pc[f] \in Points /\ pc[f][1] \in Block
         /\ ~ AtEnd(f) => /\ pc[f] \in Site
                          /\ <<pc[f][1], pc[f][2] + 1>> \in Points
<1>1. Running(f)
  BY DEF MayRun, Ready, Local
<1>2. PICK p : p = pc[f]
  OBVIOUS
<1>3. p \in Points
  BY <1>1, <1>2 DEF ThreadsTyped, Running
<1>4. PICK b, k : p = <<b, k>> /\ b \in Block /\ k \in 1 .. Len(Prog[b].body) + 1 /\ Len(Prog[b].body) \in Nat
  BY <1>3, PointsAre
<1>5. ASSUME ~ AtEnd(f) PROVE p \in Site /\ <<p[1], p[2] + 1>> \in Points
  <2>1. k \in 1 .. Len(Prog[b].body)
    BY <1>1, <1>2, <1>4, <1>5 DEF AtEnd
  <2>2. p \in Site
    BY <1>4, <2>1, SiteOf
  <2>3. IsPoint(<<b, k + 1>>)
    BY <1>4, <2>1 DEF IsPoint
  <2>4. QED BY <1>4, <2>2, <2>3, PointsAre
<1>6. QED BY <1>2, <1>3, <1>4, <1>5

LEMMA ThreadsTypedAtStart ==
  ASSUME ThreadInit
  PROVE  ThreadsTyped
<1>1. \A f \in DOMAIN Entry : <<Entry[f], 1>> \in Points
  BY EntryIs, PointsAre
<1>2. mem \in State
  BY StateAtStart DEF ThreadInit
<1>3. QED BY <1>1, <1>2 DEF ThreadInit, ThreadsTyped, Nothing

LEMMA InstrTyped ==
  ASSUME ThreadsTyped, NEW f \in DOMAIN Entry, RunInstr(f)
  PROVE  ThreadsTyped'
<1> DEFINE i == InstrAt(pc[f])
<1>1. /\ pc[f] \in Site /\ <<pc[f][1], pc[f][2] + 1>> \in Points
  BY RunsAtPoint DEF RunInstr
<1>2. PICK p : p = pc[f]
  OBVIOUS
<1>3. PICK e \in Outcomes(env[f], p, {came[f]}, SharedRead(p, mem), FALSE) :
        /\ env' = IF i.op = "create" THEN [env EXCEPT ![i.fn] = e] ELSE [env EXCEPT ![f] = e]
        /\ mem' = IF p \in StoreSite THEN [mem EXCEPT ![i.ptr] = e[i.ptr]] ELSE mem
        /\ event' = IF p \in StoreSite THEN <<p, e[i.ptr]>> ELSE IF p \in Recorded THEN <<p, 0>> ELSE Nothing
        /\ pc' = [g \in DOMAIN Entry |->
                    IF g = f THEN <<p[1], p[2] + 1>>
                    ELSE IF i.op = "create" /\ g = i.fn THEN <<Entry[g], 1>> ELSE pc[g]]
        /\ came' = came /\ exact' = (exact /\ Exact(env[f], p, e))
  BY <1>2 DEF RunInstr
<1>4. e \in State
  <2>1. PICK m, mm, preds : m = env[f] /\ mm = mem /\ preds = {came[f]}
    OBVIOUS
  <2>2. m \in State /\ mm \in State /\ p \in Site
    BY <1>1, <1>2, <2>1 DEF ThreadsTyped
  <2>3. PICK g : g = SharedRead(p, mm)
    OBVIOUS
  <2>4. IsInterf(g, FALSE)
    BY <2>2, <2>3, SharedReadIs
  <2>5. e \in Outcomes(m, p, preds, g, FALSE)
    BY <1>3, <2>1, <2>3
  <2>6. QED BY <2>2, <2>4, <2>5, OutcomeIs
<1>5. env' \in [DOMAIN Entry -> State]
  BY <1>3, <1>4 DEF ThreadsTyped
<1>6. mem' \in State
  BY <1>1, <1>2, <1>3, <1>4, LoadsAre DEF ThreadsTyped, State
<1>7. pc' \in [DOMAIN Entry -> Points \cup {Idle, Over}]
  <2>1. \A g \in DOMAIN Entry : <<Entry[g], 1>> \in Points
    BY EntryIs, PointsAre
  <2>2. QED BY <1>1, <1>2, <1>3, <2>1 DEF ThreadsTyped
<1>8. event'[1] \in Recorded \cup {Idle}
  BY <1>3 DEF Recorded, Nothing
<1>9. QED BY <1>3, <1>5, <1>6, <1>7, <1>8 DEF ThreadsTyped

LEMMA TermTyped ==
  ASSUME ThreadsTyped, NEW f \in DOMAIN Entry, RunTerm(f)
  PROVE  ThreadsTyped'
<1> DEFINE b == pc[f][1]
           t == Taken(b, env[f])
<1>1. b \in Block
  BY RunsAtPoint DEF RunTerm
<1>2. t # Exit => <<t, 1>> \in Points
  <2>1. SUFFICES ASSUME t # Exit PROVE <<t, 1>> \in Points
    OBVIOUS
  <2>2. t \in Block
    BY <1>1, <2>1, TerminatorIs
  <2>3. IsPoint(<<t, 1>>)
    BY <2>2, CodeAssumption DEF IsPoint
  <2>4. QED BY <2>3, PointsAre
<1>3. /\ pc' = [pc EXCEPT ![f] = IF t = Exit THEN Over ELSE <<t, 1>>]
      /\ came' = [came EXCEPT ![f] = b]
      /\ event' = Nothing /\ env' = env /\ mem' = mem /\ exact' = exact
  BY DEF RunTerm
<1> HIDE DEF b, t
<1>4. QED BY <1>1, <1>2, <1>3 DEF ThreadsTyped, Nothing

(* The inductive invariant of the iteration beside that of the threads.      *)
TypeInv == P!TypeInv /\ ThreadsTyped

LEMMA TypeStep ==
  ASSUME LoopFree, TypeInv, [Next]_allVars
  PROVE  TypeInv'
<1>1. P!TypeInv'
  <2>1. P!AnalysisOK
    BY LoopFreeAnalysis
  <2>2. QED BY <2>1, IterationAssumed, StepOfIteration, P!TypeStep DEF TypeInv
<1>2. ThreadsTyped'
  <2>1. CASE UNCHANGED threadVars
    BY <2>1 DEF threadVars, ThreadsTyped, TypeInv
  <2>2. CASE RunThread
    <3>1. PICK f \in DOMAIN Entry : RunInstr(f) \/ RunTerm(f)
      BY <2>2 DEF RunThread
    <3>2. QED BY <3>1, InstrTyped, TermTyped DEF TypeInv
  <2>3. QED BY <2>1, <2>2 DEF Next, Analyze, allVars
<1>3. QED BY <1>1, <1>2 DEF TypeInv

(* Whatever the command line, the analysis of a program without loops keeps *)
(* the maps of runOnModule well formed, what it records being facts that    *)
(* are not bottom, and the execution beside it stays inside the program and *)
(* its integers.                                                            *)
THEOREM TypeCorrect == LoopFree => (Spec => []TypeOK)
<1> SUFFICES ASSUME LoopFree PROVE Spec => []TypeOK
  OBVIOUS
<1>1. P!Assumed
  BY LoopFreeAnalysis, IterationAssumed
<1>2. Init => TypeInv
  BY <1>1, InitOfIteration, P!TypeInit, ThreadsTypedAtStart DEF Init, TypeInv
<1>3. TypeInv /\ [Next]_allVars => TypeInv'
  BY TypeStep
<1>4. TypeInv => TypeOK
  <2>1. P!TypeInv => A!TypeOK
    BY P!TypeInvImplies, SameIteration
  <2>2. QED BY <2>1 DEF TypeInv, TypeOK
<1>5. QED BY <1>2, <1>3, <1>4, PTL DEF Spec

===============================================================================
