-------------------------- MODULE BlockWalk_proofs --------------------------
(***************************************************************************)
(* The walk of BlockWalk, for any code and any start: facts stay facts, a  *)
(* larger fact gives a larger fact, and the fact computed along a path     *)
(* describes every run of that path in which no number is changed by its   *)
(* width.                                                                  *)
(***************************************************************************)
EXTENDS BlockWalk, BBOps_proofs

-----------------------------------------------------------------------------
(* Type correctness. *)

LEMMA InterfsAre ==
  ASSUME NEW g \in InterfMap, NEW nc \in BOOLEAN
  PROVE  IsInterf(g, nc) /\ \A s : BelowAt(g, g, nc, s)
<1>1. \A s \in DOMAIN g : g[s] \in [Var -> Interval]
  BY StartAssumption
<1>2. QED BY <1>1 DEF IsInterf, BelowAt, Leq, Fact

LEMMA AtSite ==
  ASSUME TypeOK, at[1] # Exit
  PROVE  /\ at = <<at[1], at[2]>> /\ at[1] \in Block
         /\ Len(Body(at[1])) \in Nat /\ at[2] \in 1 .. (Len(Body(at[1])) + 1)
         /\ at[2] <= Len(Body(at[1])) => at \in Site /\ InstrAt(at) = Body(at[1])[at[2]]
<1>1. at \in Point
  BY DEF TypeOK
<1>2. PICK b \in Block : at \in {<<b, k>> : k \in 1 .. (Len(Body(b)) + 1)}
  BY <1>1 DEF Point
<1>3. PICK k \in 1 .. (Len(Body(b)) + 1) : at = <<b, k>>
  BY <1>2
<1>4. Len(Body(b)) \in Nat /\ DOMAIN Prog[b].body = 1 .. Len(Body(b))
  BY CodeAssumption DEF Body
<1>5. k <= Len(Body(b)) => at \in Site
  BY <1>3, <1>4 DEF Site
<1>6. QED BY <1>3, <1>4, <1>5 DEF InstrAt, Body

LEMMA InitType == Init => TypeOK
<1> SUFFICES ASSUME Init PROVE TypeOK
  OBVIOUS
<1>1. PICK s \in Start : /\ at = <<s[1], 1>> /\ fact = s[2] /\ upper = s[3]
                         /\ mem \in Gamma(s[2])
  BY DEF Init
<1>2. s[1] \in Block /\ s[2] \in Fact /\ s[3] \in Fact
  BY StartAssumption
<1>3. 1 \in 1 .. (Len(Body(s[1])) + 1)
  BY <1>2, CodeAssumption DEF Body
<1>4. at \in Point
  BY <1>1, <1>2, <1>3 DEF Point
<1>5. mem \in State
  BY <1>1 DEF Gamma
<1>6. prev \in Block \cup {Exit} /\ interf \in InterfMap /\ nonComb \in BOOLEAN
  BY DEF Init
<1>7. exact \in BOOLEAN
  BY DEF Init
<1>8. QED BY <1>1, <1>2, <1>4, <1>5, <1>6, <1>7 DEF TypeOK

LEMMA StepType == TypeOK /\ [Next]_vars => TypeOK'
<1> SUFFICES ASSUME TypeOK, [Next]_vars PROVE TypeOK'
  OBVIOUS
<1>1. CASE Step
  <2>1. at[1] # Exit /\ at[2] <= Len(Body(at[1]))
    BY <1>1 DEF Step
  <2>2. at \in Site /\ at[1] \in Block /\ at[2] + 1 \in 1 .. (Len(Body(at[1])) + 1)
    BY <2>1, AtSite
  <2>3. at' \in Point
    BY <1>1, <2>2 DEF Step, Point
  <2>4. fact' \in Fact /\ upper' \in Fact
    BY <1>1, <2>2, InterfsAre, TransferIs DEF Step, TypeOK
  <2>5. mem' \in State
    BY <1>1, <2>2, InterfsAre, OutcomeIs DEF Step, TypeOK
  <2>6. exact' \in BOOLEAN
    <3>1. \A p : (exact /\ p) \in BOOLEAN
      BY DEF TypeOK
    <3>2. QED BY <1>1, <3>1 DEF Step
  <2>7. QED BY <1>1, <2>3, <2>4, <2>5, <2>6 DEF Step, TypeOK
<1>2. CASE Leave
  <2>1. at[1] \in Block
    BY <1>2, AtSite DEF Leave
  <2> DEFINE t == Taken(at[1], mem)
  <2>2. t = Exit \/ t \in Block
    BY <2>1, TerminatorIs
  <2>3. at' \in Point \cup {<<Exit, 1>>}
    <3>1. at' = <<t, 1>>
      BY <1>2 DEF Leave
    <3>2. t \in Block => 1 \in 1 .. (Len(Body(t)) + 1)
      BY CodeAssumption DEF Body
    <3> HIDE DEF t
    <3>3. t \in Block => at' \in Point
      BY <3>1, <3>2 DEF Point
    <3>4. QED BY <2>2, <3>1, <3>3
  <2>4. fact' \in Fact /\ upper' \in Fact
    BY <1>2, <2>1, PassToIs DEF Leave, TypeOK
  <2>5. QED BY <1>2, <2>1, <2>3, <2>4 DEF Leave, TypeOK
<1>3. CASE Reject
  BY <1>3 DEF Reject, TypeOK
<1>4. CASE UNCHANGED vars
  BY <1>4 DEF vars, TypeOK
<1>5. QED BY <1>1, <1>2, <1>3, <1>4 DEF Next

(* Every fact the transfer functions and the branch constraints compute is  *)
(* a fact (one interval per dimension or no environment at all), and every  *)
(* run stays inside the code.                                               *)
THEOREM TypeCorrect == Spec => []TypeOK
<1>1. Init => TypeOK
  BY InitType
<1>2. TypeOK /\ [Next]_vars => TypeOK'
  BY StepType
<1>3. QED BY <1>1, <1>2, PTL DEF Spec

-----------------------------------------------------------------------------
(* From the larger fact the functions compute the larger fact               *)
(* (worklistai.cpp: "assuming the transfer functions are monotonicly        *)
(* increasing").                                                            *)
THEOREM MonotoneAlongEveryPath == Spec => []Monotone
<1>1. Init => Monotone
  BY StartAssumption DEF Init, Monotone
<1>2. TypeOK /\ Monotone /\ [Next]_vars => Monotone'
  <2> SUFFICES ASSUME TypeOK, Monotone, [Next]_vars PROVE Leq(fact', upper')
    BY DEF Monotone
  <2>1. Leq(fact, upper) /\ fact \in Fact /\ upper \in Fact
    BY DEF Monotone, TypeOK
  <2>2. CASE Step
    <3>1. at \in Site /\ interf \in InterfMap /\ nonComb \in BOOLEAN
      BY <2>2, AtSite DEF Step, TypeOK
    <3>2. QED BY <2>1, <2>2, <3>1, InterfsAre, TransferIs DEF Step
  <2>3. CASE Leave
    <3>1. at[1] \in Block
      BY <2>3, AtSite DEF Leave
    <3>2. QED BY <2>1, <2>3, <3>1, PassToIs DEF Leave
  <2>4. CASE Reject
    BY <2>1, <2>4 DEF Reject
  <2>5. CASE UNCHANGED vars
    BY <2>1, <2>5 DEF vars
  <2>6. QED BY <2>2, <2>3, <2>4, <2>5 DEF Next
<1>3. QED BY <1>1, <1>2, TypeCorrect, PTL DEF Spec

-----------------------------------------------------------------------------
(* The invariant behind soundness: the registers branches test hold bits    *)
(* and the comparisons that are current agree with the environment.         *)

ComparisonsAgree == at[1] \in Block => AllAgree(at[1], at[2], mem, StartBlock)

BitsKept(Bits) == \A v \in Bits : mem[v] \in 0 .. 1

IInv(Bits) == TypeOK /\ BitsKept(Bits) /\ ComparisonsAgree /\ FactDescribesRun

BitsChosen(Bits) ==
  HoldBits(Bits) /\ \A s \in Start : \A v \in Bits : s[2][v] \subseteq 0 .. 1

LEMMA InitIInv ==
  ASSUME NEW Bits \in SUBSET Var, BitsChosen(Bits), Init
  PROVE  IInv(Bits)
<1>1. PICK s \in Start : at = <<s[1], 1>> /\ fact = s[2] /\ mem \in Gamma(s[2])
  BY DEF Init
<1>2. FactDescribesRun
  BY <1>1 DEF FactDescribesRun
<1>3. BitsKept(Bits)
  BY <1>1 DEF BitsKept, BitsChosen, Gamma
<1>4. s[1] \in StartBlock
  BY DEF StartBlock
<1>5. ComparisonsAgree
  BY <1>1, <1>4, AgreeAtEntry DEF ComparisonsAgree
<1>6. QED BY <1>2, <1>3, <1>5, InitType DEF IInv

LEMMA StepIInv ==
  ASSUME PhiReadRight, NEW Bits \in SUBSET Var, HoldBits(Bits), IInv(Bits), [Next]_vars
  PROVE  IInv(Bits)'
<1>1. TypeOK'
  BY StepType DEF IInv
<1>2. CASE Step
  <2>1. at \in Site /\ at = <<at[1], at[2]>> /\ at[1] \in Block /\ at[2] \in 1 .. Len(Prog[at[1]].body)
    BY <1>2, AtSite DEF Step, IInv, Body
  <2>2. /\ mem \in State /\ fact \in Fact /\ nonComb \in BOOLEAN
        /\ IsInterf(interf, nonComb) /\ mem' \in Outcomes(mem, at, {prev}, interf, nonComb)
        /\ Handled(InstrAt(at))
    BY <1>2, InterfsAre DEF Step, IInv, TypeOK
  <2>3. FactDescribesRun'
    <3>1. SUFFICES ASSUME exact' PROVE mem' \in Gamma(fact')
      BY DEF FactDescribesRun
    <3>2. exact /\ Exact(mem, at, mem')
      BY <1>2, <3>1 DEF Step
    <3>3. mem \in Gamma(fact)
      BY <3>2 DEF IInv, FactDescribesRun
    <3>4. QED BY <1>2, <2>1, <2>2, <3>2, <3>3, TransferSound DEF Step
  <2>4. BitsKept(Bits)'
    BY <2>1, <2>2, OutcomeHoldsBits DEF BitsKept, IInv
  <2>5. ComparisonsAgree'
    <3>1. AllAgree(at[1], at[2], mem, StartBlock)
      BY <2>1 DEF IInv, ComparisonsAgree
    <3>2. AllAgree(at[1], at[2] + 1, mem', StartBlock)
      <4>1. PICK n : n = mem'
        OBVIOUS
      <4>2. PICK s, b, k, m, g, nc, preds :
              s = at /\ b = at[1] /\ k = at[2] /\ m = mem /\ g = interf /\ nc = nonComb /\ preds = {prev}
        OBVIOUS
      <4>3. AllAgree(b, k + 1, n, StartBlock)
        BY <2>1, <2>2, <3>1, <4>1, <4>2, AgreeAfterStep
      <4>4. QED BY <4>1, <4>2, <4>3
    <3>3. at' = <<at[1], at[2] + 1>>
      BY <1>2 DEF Step
    <3>4. QED BY <3>2, <3>3 DEF ComparisonsAgree
  <2>6. QED BY <1>1, <2>3, <2>4, <2>5 DEF IInv
<1>3. CASE Leave
  <2> DEFINE b == at[1]
             t == Taken(b, mem)
             u == Prog[b].term
  <2>1. b \in Block /\ at[2] = Len(Prog[b].body) + 1
    BY <1>3, AtSite DEF Leave, IInv, Body
  <2>2. /\ fact \in Fact /\ mem' = mem /\ at' = <<t, 1>> /\ exact' = exact
        /\ fact' = IF t = Exit THEN fact ELSE PassTo(b, fact, t)
    BY <1>3 DEF Leave, IInv, TypeOK
  <2>3. u.kind = "br" => mem[u.cond] \in 0 .. 1
    BY <2>1 DEF IInv, BitsKept, HoldBits
  <2>4. AllAgree(b, Len(Prog[b].body) + 1, mem, StartBlock)
    BY <2>1 DEF IInv, ComparisonsAgree
  <2>5. FactDescribesRun'
    <3>1. ASSUME exact PROVE mem \in Gamma(fact) /\ mem \in Gamma(PassTo(b, fact, t))
      <4>1. mem \in Gamma(fact)
        BY <3>1 DEF IInv, FactDescribesRun
      <4>2. QED BY <2>1, <2>2, <2>3, <2>4, <4>1, CurrentAssumption, EdgeSound
    <3>2. QED BY <2>2, <3>1 DEF FactDescribesRun
  <2>6. BitsKept(Bits)'
    BY <2>2 DEF IInv, BitsKept
  <2>7. ComparisonsAgree'
    <3>1. ASSUME t \in Block PROVE AllAgree(t, 1, mem, StartBlock)
      <4>1. t \in SuccOf[b]
        BY <2>1, <3>1, TerminatorIs, CodeAssumption
      <4>2. PICK c, d, m : c = b /\ d = t /\ m = mem
        OBVIOUS
      <4>3. AllAgree(d, 1, m, StartBlock)
        BY <2>1, <2>4, <4>1, <4>2, AgreeAcrossEdge
      <4>4. QED BY <4>2, <4>3
    <3>2. QED BY <2>2, <3>1 DEF ComparisonsAgree
  <2>8. QED BY <1>1, <2>5, <2>6, <2>7 DEF IInv
<1>4. CASE Reject
  <2>1. at' = <<Exit, 1>> /\ UNCHANGED <<mem, fact, exact>>
    BY <1>4 DEF Reject
  <2>2. ComparisonsAgree'
    BY <2>1, CodeAssumption DEF ComparisonsAgree
  <2>3. QED BY <1>1, <2>1, <2>2 DEF IInv, BitsKept, FactDescribesRun
<1>5. CASE UNCHANGED vars
  BY <1>5 DEF vars, IInv, TypeOK, BitsKept, ComparisonsAgree, FactDescribesRun
<1>6. QED BY <1>2, <1>3, <1>4, <1>5 DEF Next

(* As long as no cast, sum or product of a run changes a number by its      *)
(* width, which performCast says it ignores, the fact computed along the    *)
(* path describes the environment the run is in: every transfer function    *)
(* and every branch constraint is sound, in both treatments of loads.  A    *)
(* phi over the constant `true' breaks it (PhiJoinsItsValues).              *)
THEOREM FactsDescribeRuns == PhiReadRight => (Spec => []FactDescribesRun)
<1> SUFFICES ASSUME PhiReadRight PROVE Spec => []FactDescribesRun
  OBVIOUS
<1>1. PICK Bits \in SUBSET Var : BitsChosen(Bits)
  BY BitAssumption DEF BitsChosen
<1>2. Init => IInv(Bits)
  BY <1>1, InitIInv
<1>3. IInv(Bits) /\ [Next]_vars => IInv(Bits)'
  BY <1>1, StepIInv DEF BitsChosen
<1>4. IInv(Bits) => FactDescribesRun
  BY DEF IInv
<1>5. QED BY <1>2, <1>3, <1>4, PTL DEF Spec
=============================================================================
