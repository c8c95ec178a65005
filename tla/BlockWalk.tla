------------------------------ MODULE BlockWalk ------------------------------
(***************************************************************************)
(* A run of an analysed function, instruction by instruction, with the     *)
(* facts the transfer functions compute along the same path: `fact' starts *)
(* with a fact that describes the run's environment, `upper' with a larger *)
(* one.  This is what the analysis relies on when it looks at a block      *)
(* (BBOps::getFactInBBBefore, BBOps::run_transfer_funcs).                  *)
(***************************************************************************)
EXTENDS BBOps

CONSTANTS
  Start,      \* triples <<block, fact, upper>> the walk starts from
  InterfMap   \* the interference maps analyzeFunc is called with

VARIABLES
  at,         \* the site about to run; its index passes the body's end before the terminator
  prev,       \* the block control came from, or Exit
  mem,        \* the environment
  fact, upper,
  interf,     \* the map passed to analyzeFunc
  nonComb,    \* the -nocombs option
  exact       \* history: no number of the run was changed by its width

vars == <<at, prev, mem, fact, upper, interf, nonComb, exact>>

-----------------------------------------------------------------------------
StartBlock == {s[1] : s \in Start}

ASSUME StartAssumption ==
  /\ \A s \in Start : s \in Block \X Fact \X Fact /\ Leq(s[2], s[3])
  /\ \A g \in InterfMap : \A s \in DOMAIN g : g[s] \in [Var -> Interval]

ASSUME CurrentAssumption == BranchesCurrent(StartBlock)

ASSUME BitAssumption ==
  \E Bits \in SUBSET Var :
    HoldBits(Bits) /\ \A s \in Start : \A v \in Bits : s[2][v] \subseteq 0 .. 1

Body(b) == Prog[b].body

(* Before an instruction, or before the terminator. *)
Point == UNION {{<<b, k>> : k \in 1 .. (Len(Body(b)) + 1)} : b \in Block}

TypeOK ==
  /\ at \in Point \cup {<<Exit, 1>>}
  /\ prev \in Block \cup {Exit}
  /\ mem \in State
  /\ fact \in Fact
  /\ upper \in Fact
  /\ interf \in InterfMap
  /\ nonComb \in BOOLEAN
  /\ exact \in BOOLEAN

Init ==
  /\ \E s \in Start :
       /\ at = <<s[1], 1>>
       /\ fact = s[2]
       /\ upper = s[3]
       /\ mem \in {m \in Gamma(s[2]) : \A v \in Var : InRange(m[v])}
  /\ prev \in {b \in Block : at[1] \in SuccOf[b]} \cup {Exit}
  /\ interf \in InterfMap
  /\ nonComb \in BOOLEAN
  /\ exact = TRUE

(* transfer_func on the instruction and, in the run, the instruction. *)
Step ==
  /\ at[1] # Exit
  /\ at[2] <= Len(Body(at[1]))
  /\ Handled(InstrAt(at))
  /\ mem' \in Outcomes(mem, at, {prev}, interf, nonComb)
  /\ fact' = Transfer(fact, at, interf, nonComb)
  /\ upper' = Transfer(upper, at, interf, nonComb)
  /\ at' = <<at[1], at[2] + 1>>
  /\ exact' = (exact /\ Exact(mem, at, mem'))
  /\ UNCHANGED <<prev, interf, nonComb>>

(* An assertion or an exit of transfer_func ends the analysis. *)
Reject ==
  /\ at[1] # Exit
  /\ at[2] <= Len(Body(at[1]))
  /\ ~ Handled(InstrAt(at))
  /\ at' = <<Exit, 1>>
  /\ UNCHANGED <<prev, mem, fact, upper, interf, nonComb, exact>>

(* The terminator: the fact handed to the block the run enters next. *)
Leave ==
  /\ at[1] # Exit
  /\ at[2] = Len(Body(at[1])) + 1
  /\ LET t == Taken(at[1], mem)
     IN  /\ at' = <<t, 1>>
         /\ fact' = IF t = Exit THEN fact ELSE PassTo(at[1], fact, t)
         /\ upper' = IF t = Exit THEN upper ELSE PassTo(at[1], upper, t)
  /\ prev' = at[1]
  /\ UNCHANGED <<mem, interf, nonComb, exact>>

Next == Step \/ Reject \/ Leave

Spec == Init /\ [][Next]_vars

-----------------------------------------------------------------------------
(* Every transfer function and every branch constraint is sound as long as  *)
(* no number is changed by its width: the fact keeps describing the         *)
(* environment of the run, in both the combinatorial and the -nocombs       *)
(* treatment of loads (bbops.cpp: transfer_func, run_transfer_funcs).  The  *)
(* condition is what performCast says it ignores.                           *)
FactDescribesRun == exact => mem \in Gamma(fact)

(* The transfer functions are monotone: from a larger fact they compute a   *)
(* larger one (worklistai.cpp, in analyzeFunc: "assuming the transfer       *)
(* functions are monotonicly increasing").                                  *)
Monotone == Leq(fact, upper)

(* bbops.cpp, above performPhiInst: "Join all the values in the phi-node    *)
(* and store them in the result", so the value the phi takes is among them. *)
PhiJoinsItsValues ==
  at[1] # Exit /\ at[2] > 1 /\ InstrAt(<<at[1], at[2] - 1>>).op = "phi" =>
    mem[InstrAt(<<at[1], at[2] - 1>>).to] \in fact[InstrAt(<<at[1], at[2] - 1>>).to]
=============================================================================
