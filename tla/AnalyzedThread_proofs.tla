------------------------ MODULE AnalyzedThread_proofs ------------------------
(***************************************************************************)
(* The results of analyzeFunc describe every run of the function, for any  *)
(* control-flow graph, any lattice and any sound transfer functions: IInv  *)
(* is inductive for the worklist engine, and the promise about the thread  *)
(* follows from it.                                                        *)
(***************************************************************************)
EXTENDS AnalyzedThread, TLAPS

(* Joining into a map entry gives a fact above the old and the new one. *)
LEMMA JoinEntryAbove ==
  ASSUME NEW old \in Maybe(Element), NEW new \in Element
  PROVE  /\ JoinEntry(old, new) \in Element
         /\ Below(new, JoinEntry(old, new))
         /\ old # Absent => Below(old, JoinEntry(old, new))
  BY LatticeAssumption DEF JoinEntry, Maybe

(* A fact is never the mark of a missing map entry. *)
LEMMA FactPresent == \A f \in Element : f # Absent
  BY LatticeAssumption

-----------------------------------------------------------------------------
(* Type correctness of the engine. *)

LEMMA InitType == Init => TypeOK
  BY LatticeAssumption, GraphAssumption
     DEF Init, TypeOK, InitBBs, Maybe

LEMMA MergeType ==
  ASSUME NEW wl \in [BasicBlock -> Maybe(Element)], NEW b \in BasicBlock, NEW f \in Element
  PROVE  MergeWorklist(EraseFirst(wl, b), b, f) \in [BasicBlock -> Maybe(Element)]
<1> DEFINE rest == EraseFirst(wl, b)
<1>1. rest \in [BasicBlock -> Maybe(Element)]
  BY DEF EraseFirst, Maybe
<1>2. ASSUME NEW c \in Succ[b], c \in BasicBlock
      PROVE  JoinEntry(rest[c], OutFact(b, f, c)) \in Element
  BY <1>1, <1>2, JoinEntryAbove, TransferAssumption
<1>3. QED BY <1>1, <1>2 DEF MergeWorklist, Maybe

LEMMA UpdateType ==
  ASSUME NEW S, NEW m \in [S -> Maybe(Element)], NEW b \in BasicBlock, NEW f \in Element
  PROVE  UpdateReach(m, b, f) \in [S -> Maybe(Element)]
<1>1. ASSUME NEW s \in SitesOf[b], s \in S
      PROVE  JoinEntry(m[s], SiteFact(b, f, s)) \in Element
  BY <1>1, JoinEntryAbove, TransferAssumption
<1>2. QED BY <1>1 DEF UpdateReach, Maybe

LEMMA NextType == TypeOK /\ [Next]_vars => TypeOK'
<1> SUFFICES ASSUME TypeOK, [Next]_vars PROVE TypeOK'
  OBVIOUS
<1>1. ASSUME NEW b \in BasicBlock, Skip(b) PROVE TypeOK'
  BY <1>1 DEF TypeOK, Skip, EraseFirst, Maybe
<1>2. ASSUME NEW b \in BasicBlock, Analyze(b) PROVE TypeOK'
  <2>1. worklist[b] \in Element
    BY <1>2 DEF TypeOK, Analyze, Front, Pending, Maybe
  <2>2. analState' \in [BasicBlock -> Element] /\ seen' \in [BasicBlock -> SUBSET Element]
    BY <1>2, <2>1 DEF TypeOK, Analyze
  <2>3. worklist' \in [BasicBlock -> Maybe(Element)]
    BY <1>2, <2>1, MergeType DEF TypeOK, Analyze
  <2>4. /\ reachStores' \in [Store -> Maybe(Element)]
        /\ reachThreadCreate' \in [Create -> Maybe(Element)]
    BY <1>2, <2>1, UpdateType DEF TypeOK, Analyze
  <2>5. rErrors' \subseteq Error
    BY <1>2 DEF TypeOK, Analyze, ErrorsIn
  <2>6. QED BY <1>2, <2>2, <2>3, <2>4, <2>5 DEF TypeOK, Analyze
<1>3. CASE UNCHANGED vars
  BY <1>3 DEF TypeOK, vars
<1>4. QED BY <1>1, <1>2, <1>3 DEF Next

-----------------------------------------------------------------------------
(* A fact accounted for at a block stays accounted for. *)

LEMMA SkipKeepsCovered ==
  ASSUME TypeOK, StateSeen, NEW b \in BasicBlock, Skip(b),
         NEW f \in Element, NEW c \in BasicBlock, Covered(f, c)
  PROVE  Covered(f, c)'
<1>1. CASE c = b /\ worklist[b] # Absent /\ Below(f, worklist[b])
  <2>1. Below(worklist[b], analState[b])
    BY DEF Skip, CanStop
  <2>2. worklist[b] \in Element /\ analState[b] \in Element
    BY <1>1 DEF TypeOK, Maybe
  <2>3. Below(f, analState[b])
    BY <1>1, <2>1, <2>2, LatticeAssumption
  <2>4. analState[b] = Bot \/ analState[b] \in seen[b]
    BY DEF StateSeen
  <2>5. QED BY <1>1, <2>3, <2>4 DEF Covered, Skip
<1>2. CASE c # b
  BY <1>2 DEF Covered, Skip, EraseFirst, TypeOK
<1>3. CASE ~ (worklist[c] # Absent /\ Below(f, worklist[c]))
  BY <1>3 DEF Covered, Skip
<1>4. QED BY <1>1, <1>2, <1>3

LEMMA AnalyzeKeepsCovered ==
  ASSUME TypeOK, NEW b \in BasicBlock, Analyze(b),
         NEW f \in Element, NEW c \in BasicBlock, Covered(f, c)
  PROVE  Covered(f, c)'
<1>1. seen[c] \subseteq seen'[c]
  BY DEF Analyze, TypeOK
<1>2. CASE Below(f, Bot) \/ \E g \in seen[c] : Below(f, g)
  BY <1>1, <1>2 DEF Covered
<1>3. CASE worklist[c] # Absent /\ Below(f, worklist[c])
  <2>1. CASE c = b
    <3>1. worklist[b] \in seen'[b]
      BY DEF Analyze, TypeOK
    <3>2. QED BY <1>3, <2>1, <3>1 DEF Covered
  <2>2. CASE c # b
    <3> DEFINE rest == EraseFirst(worklist, b)
    <3>1. worklist[b] \in Element /\ worklist[c] \in Element
      BY <1>3 DEF Analyze, Front, Pending, TypeOK, Maybe
    <3>2. rest[c] = worklist[c]
      BY <2>2 DEF EraseFirst, TypeOK
    <3>3. CASE c \in Succ[b]
      <4>1. worklist'[c] = JoinEntry(worklist[c], OutFact(b, worklist[b], c))
        BY <3>2, <3>3 DEF Analyze, MergeWorklist
      <4>2. /\ worklist'[c] \in Element
            /\ Below(worklist[c], worklist'[c])
        BY <1>3, <3>1, <3>3, <4>1, JoinEntryAbove, TransferAssumption DEF Maybe
      <4>3. Below(f, worklist'[c])
        BY <1>3, <3>1, <4>2, LatticeAssumption
      <4>4. QED BY <4>2, <4>3, FactPresent DEF Covered
    <3>4. CASE c \notin Succ[b]
      BY <1>3, <3>2, <3>4 DEF Analyze, MergeWorklist, Covered
    <3>5. QED BY <3>3, <3>4
  <2>3. QED BY <2>1, <2>2
<1>4. QED BY <1>2, <1>3 DEF Covered

LEMMA InitNothingLost == Init => NothingLost
<1> SUFFICES ASSUME Init PROVE NothingLost
  OBVIOUS
<1>1. entry[1] \in BasicBlock /\ entry[2] \in Element
  BY GraphAssumption DEF Init
<1>2. worklist[entry[1]] = entry[2]
  BY <1>1 DEF Init
<1>3. Covered(entry[2], entry[1])
  BY <1>1, <1>2, FactPresent, LatticeAssumption DEF Covered
<1>4. QED BY <1>3 DEF NothingLost, Init

LEMMA NextNothingLost == TypeOK /\ StateSeen /\ NothingLost /\ [Next]_vars => NothingLost'
<1> SUFFICES ASSUME TypeOK, StateSeen, NothingLost, [Next]_vars PROVE NothingLost'
  OBVIOUS
<1>1. entry[1] \in BasicBlock /\ entry[2] \in Element
  BY GraphAssumption DEF TypeOK
<1>2. \A b \in BasicBlock : \A f \in seen[b], t \in Succ[b] : t \in BasicBlock /\ OutFact(b, f, t) \in Element
  BY GraphAssumption, TransferAssumption DEF TypeOK
<1>3. ASSUME NEW b \in BasicBlock, Skip(b) PROVE NothingLost'
  <2>1. Covered(entry[2], entry[1])'
    <3>1. Covered(entry[2], entry[1])
      BY DEF NothingLost
    <3>2. QED BY <1>1, <1>3, <3>1, SkipKeepsCovered DEF Skip, Covered
  <2>2. ASSUME NEW c \in BasicBlock, NEW f \in seen[c], NEW t \in Succ[c]
        PROVE  Covered(OutFact(c, f, t), t)'
    <3>1. Covered(OutFact(c, f, t), t)
      BY DEF NothingLost
    <3>2. QED BY <1>2, <1>3, <3>1, SkipKeepsCovered
  <2>3. seen' = seen
    BY <1>3 DEF Skip
  <2>4. QED BY <2>1, <2>2, <2>3 DEF NothingLost
<1>4. ASSUME NEW b \in BasicBlock, Analyze(b) PROVE NothingLost'
  <2>1. worklist[b] \in Element
    BY <1>4 DEF TypeOK, Analyze, Front, Pending, Maybe
  <2>2. Covered(entry[2], entry[1])'
    <3>1. Covered(entry[2], entry[1])
      BY DEF NothingLost
    <3>2. QED BY <1>1, <1>4, <3>1, AnalyzeKeepsCovered DEF Analyze, Covered
  <2>3. ASSUME NEW c \in BasicBlock, NEW f \in seen'[c], NEW t \in Succ[c]
        PROVE  Covered(OutFact(c, f, t), t)'
    <3>1. CASE f \in seen[c]
      <4>1. Covered(OutFact(c, f, t), t)
        BY <3>1 DEF NothingLost
      <4>2. QED BY <1>2, <1>4, <3>1, <4>1, AnalyzeKeepsCovered
    <3>2. CASE f \notin seen[c]
      <4>1. c = b /\ f = worklist[b]
        BY <1>4, <3>2 DEF Analyze, TypeOK
      <4>2. t \in BasicBlock /\ OutFact(b, f, t) \in Element
        BY <2>1, <4>1, GraphAssumption, TransferAssumption
      <4>3. EraseFirst(worklist, b)[t] \in Maybe(Element)
        BY <4>2 DEF EraseFirst, TypeOK, Maybe
      <4>4. worklist'[t] = JoinEntry(EraseFirst(worklist, b)[t], OutFact(b, f, t))
        BY <1>4, <4>1, <4>2 DEF Analyze, MergeWorklist
      <4>5. worklist'[t] \in Element /\ Below(OutFact(b, f, t), worklist'[t])
        BY <4>2, <4>3, <4>4, JoinEntryAbove
      <4>6. QED BY <4>1, <4>5, FactPresent DEF Covered
    <3>3. QED BY <3>1, <3>2
  <2>4. QED BY <2>2, <2>3 DEF NothingLost
<1>5. CASE UNCHANGED vars
  BY <1>5 DEF vars, NothingLost, Covered
<1>6. QED BY <1>3, <1>4, <1>5 DEF Next

-----------------------------------------------------------------------------
(* Skipped blocks were visited, and sites keep what they were shown. *)

LEMMA NextStateSeen == TypeOK /\ StateSeen /\ [Next]_vars => StateSeen'
<1> SUFFICES ASSUME TypeOK, StateSeen, [Next]_vars PROVE StateSeen'
  OBVIOUS
<1>1. ASSUME NEW b \in BasicBlock, Skip(b) PROVE StateSeen'
  BY <1>1 DEF StateSeen, Skip
<1>2. ASSUME NEW b \in BasicBlock, Analyze(b) PROVE StateSeen'
  BY <1>2 DEF StateSeen, Analyze, TypeOK
<1>3. CASE UNCHANGED vars
  BY <1>3 DEF StateSeen, vars
<1>4. QED BY <1>1, <1>2, <1>3 DEF Next

(* What UpdateReach leaves at a site is above what was there and, in the    *)
(* analysed block, above the fact of this visit.                            *)
LEMMA UpdateAbove ==
  ASSUME NEW S, NEW m \in [S -> Maybe(Element)], NEW b \in BasicBlock, NEW f \in Element, NEW s \in S
  PROVE  /\ \A h \in Element : m[s] # Absent /\ Below(h, m[s])
              => UpdateReach(m, b, f)[s] # Absent /\ Below(h, UpdateReach(m, b, f)[s])
         /\ s \in SitesOf[b] => /\ UpdateReach(m, b, f)[s] # Absent
                                /\ Below(SiteFact(b, f, s), UpdateReach(m, b, f)[s])
<1>1. CASE s \notin SitesOf[b]
  BY <1>1 DEF UpdateReach
<1>2. CASE s \in SitesOf[b]
  <2> DEFINE j == JoinEntry(m[s], SiteFact(b, f, s))
  <2>1. UpdateReach(m, b, f)[s] = j
    BY <1>2 DEF UpdateReach
  <2>2. SiteFact(b, f, s) \in Element
    BY <1>2, TransferAssumption
  <2>3. /\ j \in Element
        /\ Below(SiteFact(b, f, s), j)
        /\ m[s] # Absent => Below(m[s], j)
    BY <2>2, JoinEntryAbove
  <2>4. ASSUME NEW h \in Element, m[s] # Absent, Below(h, m[s]) PROVE Below(h, j)
    <3>1. m[s] \in Element
      BY <2>4 DEF Maybe
    <3>2. QED BY <2>3, <2>4, <3>1, LatticeAssumption
  <2>5. QED BY <2>1, <2>3, <2>4, FactPresent
<1>3. QED BY <1>1, <1>2

LEMMA NextSitesCoverSeen == TypeOK /\ SitesCoverSeen /\ [Next]_vars => SitesCoverSeen'
<1> SUFFICES ASSUME TypeOK, SitesCoverSeen, [Next]_vars PROVE SitesCoverSeen'
  OBVIOUS
<1>1. ASSUME NEW b \in BasicBlock, Skip(b) PROVE SitesCoverSeen'
  BY <1>1 DEF SitesCoverSeen, Skip
<1>2. ASSUME NEW b \in BasicBlock, Analyze(b) PROVE SitesCoverSeen'
  <2>1. worklist[b] \in Element
    BY <1>2 DEF TypeOK, Analyze, Front, Pending, Maybe
  <2> SUFFICES ASSUME NEW c \in BasicBlock, NEW f \in seen'[c], NEW s \in SitesOf[c]
               PROVE  /\ s \in Store => /\ reachStores'[s] # Absent
                                        /\ Below(SiteFact(c, f, s), reachStores'[s])
                      /\ s \in Create => /\ reachThreadCreate'[s] # Absent
                                         /\ Below(SiteFact(c, f, s), reachThreadCreate'[s])
                      /\ s \in Error => s \in rErrors'
    BY DEF SitesCoverSeen
  <2>2. /\ reachStores' = UpdateReach(reachStores, b, worklist[b])
        /\ reachThreadCreate' = UpdateReach(reachThreadCreate, b, worklist[b])
        /\ rErrors' = rErrors \cup (SitesOf[b] \cap Error)
    BY <1>2 DEF Analyze, ErrorsIn
  <2>3. CASE f \in seen[c]
    <3>1. SiteFact(c, f, s) \in Element
      BY <2>3, TransferAssumption DEF TypeOK
    <3>2. /\ s \in Store => reachStores[s] # Absent /\ Below(SiteFact(c, f, s), reachStores[s])
          /\ s \in Create =>
               reachThreadCreate[s] # Absent /\ Below(SiteFact(c, f, s), reachThreadCreate[s])
          /\ s \in Error => s \in rErrors
      BY <2>3 DEF SitesCoverSeen
    <3>3. QED BY <2>1, <2>2, <3>1, <3>2, UpdateAbove DEF TypeOK
  <2>4. CASE f \notin seen[c]
    <3>1. c = b /\ f = worklist[b]
      BY <1>2, <2>4 DEF Analyze, TypeOK
    <3>2. QED BY <2>1, <2>2, <3>1, UpdateAbove DEF TypeOK
  <2>5. QED BY <2>3, <2>4
<1>3. CASE UNCHANGED vars
  BY <1>3 DEF SitesCoverSeen, vars
<1>4. QED BY <1>1, <1>2, <1>3 DEF Next

-----------------------------------------------------------------------------
(* The invariants of the engine. *)

LEMMA InitIInv == Init => IInv
<1> SUFFICES ASSUME Init PROVE IInv
  OBVIOUS
<1>1. StateSeen
  BY DEF Init, StateSeen, InitBBs
<1>2. SitesCoverSeen
  BY DEF Init, SitesCoverSeen
<1>3. QED BY <1>1, <1>2, InitType, InitNothingLost DEF IInv

LEMMA NextIInv == IInv /\ [Next]_vars => IInv'
  BY NextType, NextStateSeen, NextNothingLost, NextSitesCoverSeen DEF IInv

(* The maps of analyzeFunc hold facts, at every point of every analysis. *)
THEOREM TypeCorrect == Spec => []TypeOK
<1>1. IInv => TypeOK
  BY DEF IInv
<1>2. QED BY <1>1, InitIInv, NextIInv, PTL DEF Spec

(* No fact handed to a block is lost, although analyzeFunc overwrites the   *)
(* block's entry in analState and merge_worklist joins facts in the map.    *)
THEOREM NothingIsLost == Spec => []NothingLost
<1>1. IInv => NothingLost
  BY DEF IInv
<1>2. QED BY <1>1, InitIInv, NextIInv, PTL DEF Spec

(* What is reported at a site covers every visit of its block. *)
THEOREM SitesCover == Spec => []SitesCoverSeen
<1>1. IInv => SitesCoverSeen
  BY DEF IInv
<1>2. QED BY <1>1, InitIInv, NextIInv, PTL DEF Spec

-----------------------------------------------------------------------------
(* The analysed thread. *)

ThreadInv == IInv /\ ThreadTypeOK /\ ThreadCovered /\ ReportSound

LEMMA ThreadInitInv == ThreadInit => ThreadInv
<1> SUFFICES ASSUME ThreadInit PROVE ThreadInv
  OBVIOUS
<1>1. IInv
  BY InitIInv DEF ThreadInit
<1>2. entry[1] \in BasicBlock /\ entry[2] \in Element
  BY GraphAssumption DEF ThreadInit, Init
<1>3. ThreadTypeOK
  BY <1>1, <1>2, GammaAssumption DEF ThreadInit, ThreadTypeOK, IInv
<1>4. worklist[entry[1]] # Absent
  BY <1>2, FactPresent DEF ThreadInit, Init
<1>5. ~ Done
  BY <1>2, <1>4 DEF Done, Pending
<1>6. QED BY <1>1, <1>3, <1>5 DEF ThreadInv, ThreadInit, ThreadCovered, ReportSound

(* A fact accounted for at a block once nothing waits: either it describes  *)
(* no environment or the block was analysed with a larger one.              *)
LEMMA DoneCovered ==
  ASSUME TypeOK, Done, NEW b \in BasicBlock, NEW f \in Element, Covered(f, b), NEW m \in Concrete(f)
  PROVE  \E g \in seen[b] : m \in Concrete(g)
<1>1. worklist[b] = Absent
  BY DEF Done, Pending
<1>2. CASE Below(f, Bot)
  BY <1>2, LatticeAssumption, GammaAssumption
<1>3. CASE \E g \in seen[b] : Below(f, g)
  BY <1>3, GammaAssumption DEF TypeOK
<1>4. QED BY <1>1, <1>2, <1>3 DEF Covered

LEMMA EngineStepInv == ThreadInv /\ EngineStep => ThreadInv'
<1> SUFFICES ASSUME ThreadInv, EngineStep PROVE ThreadInv'
  OBVIOUS
<1>1. IInv'
  BY NextIInv DEF ThreadInv, EngineStep
<1>2. ThreadTypeOK'
  BY <1>1 DEF ThreadInv, ThreadTypeOK, EngineStep, threadVars, IInv
<1>3. ~ Done /\ entry' = entry
  BY DEF EngineStep, Next, Skip, Analyze, Front, Done, Pending
<1>4. pc = entry[1] /\ mem \in Concrete(entry[2]) /\ shown = {}
  BY <1>3 DEF ThreadInv, ThreadCovered
<1>5. pc' = entry'[1] /\ mem' \in Concrete(entry'[2]) /\ shown' = {}
  BY <1>3, <1>4 DEF EngineStep, threadVars
<1>6. ReportSound'
  BY <1>5 DEF ReportSound
<1>7. Done' => \E g \in seen'[pc'] : mem' \in Concrete(g)
  <2> SUFFICES ASSUME Done' PROVE \E g \in seen'[pc'] : mem' \in Concrete(g)
    OBVIOUS
  <2>1. Covered(entry[2], entry[1])' /\ TypeOK'
    BY <1>1 DEF IInv, NothingLost
  <2>2. entry'[1] \in BasicBlock /\ entry'[2] \in Element
    BY <2>1, GraphAssumption DEF TypeOK
  <2>3. worklist'[entry'[1]] = Absent
    BY <2>2 DEF Done, Pending
  <2>4. CASE Below(entry'[2], Bot)
    BY <1>5, <2>2, <2>4, LatticeAssumption, GammaAssumption
  <2>5. CASE \E g \in seen'[entry'[1]] : Below(entry'[2], g)
    BY <1>5, <2>1, <2>2, <2>5, GammaAssumption DEF TypeOK
  <2>6. QED BY <2>1, <2>3, <2>4, <2>5 DEF Covered
<1>8. QED BY <1>1, <1>2, <1>5, <1>6, <1>7 DEF ThreadInv, ThreadCovered

LEMMA RunBlockInv == ThreadInv /\ RunBlock => ThreadInv'
<1> SUFFICES ASSUME ThreadInv, RunBlock PROVE ThreadInv'
  OBVIOUS
<1> USE DEF ThreadInv
<1>1. pc \in BasicBlock /\ TypeOK
  BY DEF RunBlock, ThreadTypeOK
<1>2. PICK f \in seen[pc] : mem \in Concrete(f)
  BY DEF RunBlock, ThreadCovered
<1>3. f \in Element
  BY <1>1, <1>2 DEF TypeOK
<1>4. PICK r \in Runs(pc, mem) :
        /\ pc' = r.next
        /\ mem' = r.mem
        /\ shown' = shown \cup {<<s, r.obs[s]>> : s \in DOMAIN r.obs}
  BY DEF RunBlock
<1>5. /\ IsRun(pc, r)
      /\ r.next \in Succ[pc] => r.mem \in Concrete(OutFact(pc, f, r.next))
      /\ \A s \in DOMAIN r.obs : r.obs[s] \in Concrete(SiteFact(pc, f, s))
  BY <1>1, <1>2, <1>3, <1>4, TransferSound
<1>6. UNCHANGED vars /\ Done /\ Done'
  BY DEF RunBlock, vars, Done, Pending
<1>7. IInv'
  BY <1>6, NextIInv
<1>8. ThreadTypeOK'
  <2>1. pc' \in BasicBlock \cup {Exit} /\ mem' \in Environment
    BY <1>1, <1>4, <1>5, GraphAssumption DEF IsRun
  <2>2. \A s \in DOMAIN r.obs : s \in Site /\ r.obs[s] \in Environment
    BY <1>1, <1>5, GraphAssumption DEF IsRun
  <2>3. shown' \subseteq Site \X Environment
    BY <1>4, <2>2 DEF ThreadTypeOK
  <2>4. QED BY <1>7, <2>1, <2>3 DEF ThreadTypeOK, IInv
<1>9. ThreadCovered'
  <2>1. ASSUME pc' # Exit PROVE \E g \in seen[pc'] : mem' \in Concrete(g)
    <3>1. pc' \in Succ[pc] /\ pc' \in BasicBlock
      BY <1>1, <1>4, <1>5, <2>1, GraphAssumption DEF IsRun
    <3>2. OutFact(pc, f, pc') \in Element
      BY <1>1, <1>3, <3>1, TransferAssumption
    <3>3. mem' \in Concrete(OutFact(pc, f, pc'))
      BY <1>4, <1>5, <3>1
    <3>4. Covered(OutFact(pc, f, pc'), pc')
      BY <1>1, <3>1 DEF IInv, NothingLost
    <3>5. QED BY <1>1, <1>6, <3>1, <3>2, <3>3, <3>4, DoneCovered
  <2>2. QED BY <1>6, <2>1 DEF ThreadCovered, vars
<1>10. ReportSound'
  <2> SUFFICES ASSUME NEW o \in shown'
               PROVE  /\ o[1] \in Store => /\ reachStores[o[1]] # Absent
                                           /\ o[2] \in Concrete(reachStores[o[1]])
                      /\ o[1] \in Create => /\ reachThreadCreate[o[1]] # Absent
                                            /\ o[2] \in Concrete(reachThreadCreate[o[1]])
                      /\ o[1] \in Error => o[1] \in rErrors
    BY <1>6 DEF ReportSound, vars
  <2>1. CASE o \in shown
    BY <2>1 DEF ReportSound
  <2>2. CASE o \notin shown
    <3>1. PICK s \in DOMAIN r.obs : o = <<s, r.obs[s]>>
      BY <1>4, <2>2
    <3>2. s \in SitesOf[pc] /\ r.obs[s] \in Concrete(SiteFact(pc, f, s))
      BY <1>5 DEF IsRun
    <3>3. SiteFact(pc, f, s) \in Element
      BY <1>1, <1>3, <3>2, TransferAssumption
    <3>4. /\ s \in Store => reachStores[s] # Absent /\ Below(SiteFact(pc, f, s), reachStores[s])
          /\ s \in Create =>
               reachThreadCreate[s] # Absent /\ Below(SiteFact(pc, f, s), reachThreadCreate[s])
          /\ s \in Error => s \in rErrors
      BY <1>1, <3>2 DEF IInv, SitesCoverSeen
    <3>5. \A g \in Element : Below(SiteFact(pc, f, s), g) => r.obs[s] \in Concrete(g)
      BY <3>2, <3>3, GammaAssumption
    <3>6. /\ s \in Store => reachStores[s] \in Maybe(Element)
          /\ s \in Create => reachThreadCreate[s] \in Maybe(Element)
      BY <1>1 DEF TypeOK
    <3>7. QED BY <3>1, <3>4, <3>5, <3>6 DEF Maybe
  <2>3. QED BY <2>1, <2>2
<1>11. QED BY <1>7, <1>8, <1>9, <1>10

LEMMA ThreadNextInv == ThreadInv /\ [ThreadNext]_allVars => ThreadInv'
<1>1. ThreadInv /\ UNCHANGED allVars => ThreadInv'
  BY DEF ThreadInv, IInv, ThreadTypeOK, TypeOK, StateSeen, NothingLost, Covered, SitesCoverSeen,
         ThreadCovered, ReportSound, Done, Pending, allVars, vars, threadVars
<1>2. QED BY <1>1, EngineStepInv, RunBlockInv DEF ThreadNext

(* Every block the thread can enter was analysed with a fact that describes *)
(* the environment it is entered in.                                        *)
THEOREM ThreadIsCovered == ThreadSpec => []ThreadCovered
<1>1. ThreadInv => ThreadCovered
  BY DEF ThreadInv
<1>2. QED BY <1>1, ThreadInitInv, ThreadNextInv, PTL DEF ThreadSpec

(* Soundness of analyzeFunc: what it reports at stores, thread creations    *)
(* and assertions holds of every run of the function.                       *)
THEOREM ReportIsSound == ThreadSpec => []ReportSound
<1>1. ThreadInv => ReportSound
  BY DEF ThreadInv
<1>2. QED BY <1>1, ThreadInitInv, ThreadNextInv, PTL DEF ThreadSpec

(* The engine and the thread keep their types. *)
THEOREM ThreadTypeCorrect == ThreadSpec => []ThreadTypeOK
<1>1. ThreadInv => ThreadTypeOK
  BY DEF ThreadInv
<1>2. QED BY <1>1, ThreadInitInv, ThreadNextInv, PTL DEF ThreadSpec
=============================================================================
