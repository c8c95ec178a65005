--------------------------- MODULE AnalyzedProgram ---------------------------
(***************************************************************************)
(* The whole analysis beside an execution of the program it analyses.      *)
(* Interference, instantiated with the transfer functions of BBOps and the *)
(* Datalog constraints of Constraints, works first; when it is done the    *)
(* threads run, interleaved, on sequentially consistent memory, and what   *)
(* they do is compared with what was reported.                             *)
(***************************************************************************)
EXTENDS BBOps, Constraints, TLC

CONSTANTS
  BlockOrder,    \* the blocks in the order of their addresses
  Initializer,   \* Initializer[v]: the constant a global is initialized with
  ThreadCreate, Layout, Option

VARIABLES
  option, address, threadFuncs, threadsToProcess, threadEntryFacts, interfs,
  allReachStores, newReachStores, permCache, rErrors, status,
  pc,     \* the instruction each thread is about to run
  came,   \* the block each thread was in before
  env,    \* each thread's registers and its own view of memory
  mem,    \* shared memory
  event,  \* what the last step did: a site and the value it wrote
  exact   \* history: no number of the execution was changed by its width

threadVars == <<pc, came, env, mem, event, exact>>

ASSUME ProgramAssumption ==
  /\ Code = Prog
  /\ \A s \in Site : Handled(InstrAt(s))
  /\ \A b \in Block : \A t \in SuccOf[b] : Prog[t].fn = Prog[b].fn
  /\ \A f \in DOMAIN Entry : Entry[f] \in Block /\ Prog[Entry[f]].fn = f
  /\ BlockOrder \in Seq(Block)
  /\ \A b \in Block : \E i \in DOMAIN BlockOrder : BlockOrder[i] = b
  /\ \A i, j \in DOMAIN BlockOrder : BlockOrder[i] = BlockOrder[j] => i = j
  /\ \A v \in DOMAIN Initializer : Initializer[v] \in Lo .. Hi

(* A program without loops, its blocks laid out in a topological order.     *)
LoopFree == \A i, j \in DOMAIN BlockOrder : BlockOrder[j] \in SuccOf[BlockOrder[i]] => i < j

-----------------------------------------------------------------------------
(* analyzeFunc, its blocks in a fixed order of addresses: Worklist shows    *)
(* the order of no importance.  w.list is the worklist, w.state the fact    *)
(* each block was last analysed with, w.reached the facts at the sites;     *)
(* bottom marks what is in none of the maps.                                *)
Waiting(w) == {i \in DOMAIN BlockOrder : ~ IsBottom(w.list[BlockOrder[i]])}

Visit(w, b, interf, nocombs) ==
  LET f == w.list[b]
      passed(t) == IF t \in SuccOf[b] THEN RunTransferFuncs(b, f, t, interf, nocombs) ELSE Bottom
      rest == [w.list EXCEPT ![b] = Bottom]
  IN  IF Leq(f, w.state[b]) THEN [w EXCEPT !.list = rest]
      ELSE [list |-> [t \in Block |-> FactJoin(rest[t], passed(t))],
            state |-> [w.state EXCEPT ![b] = f],
            reached |-> [s \in Recorded |->
                           IF s[1] = b THEN FactJoin(w.reached[s], RecordedAt(b, f, s, interf, nocombs))
                           ELSE w.reached[s]]]

AnalyzeFunc(f, entryFact, interf, nocombs) ==
  LET Work[w \in [list : [Block -> Fact], state : [Block -> Fact], reached : [Recorded -> Fact]]] ==
        IF Waiting(w) = {} THEN w.reached
        ELSE Work[Visit(w, BlockOrder[Min2(Waiting(w))], interf, nocombs)]
      nowhere == [b \in Block |-> Bottom]
      reached == Work[[list |-> [nowhere EXCEPT ![Entry[f]] = entryFact], state |-> nowhere,
                       reached |-> [s \in Recorded |-> Bottom]]]
  IN  [s \in {s \in Recorded : ~ IsBottom(reached[s])} |-> reached[s]]

(* getInitState: the globals with a constant have it, all else is unknown.  *)
GetInitState == [v \in Var |-> IF v \in DOMAIN Initializer THEN {Initializer[v]} ELSE Top[v]]

Starts == [ci \in CreateSite |-> InstrAt(ci).fn]
SameVal(s, l) == InstrAt(s).ptr = InstrAt(l).ptr
ProgramMHB == MHB("sc", {})
MustHappenBefore(l, s) == s \in ProgramMHB[l]
ViolatesSC(choice) == ViolatesProgOrder("sc", choice)

A == INSTANCE Interference WITH
       Func <- DOMAIN Entry, Load <- LoadSite, Store <- StoreSite, Create <- CreateSite,
       Error <- ErrorSite, InitFact <- GetInitState, Bot <- Bottom, Join <- FactJoin, ViolatesProgOrder <- ViolatesSC

ASSUME ConstantsAssumption == A!ConstantsOK

-----------------------------------------------------------------------------
Idle == <<"idle", 0>>
Over == <<"over", 0>>
Nothing == <<Idle, 0>>

ThreadInit ==
  /\ pc = [f \in DOMAIN Entry |-> IF f = option.main THEN <<Entry[f], 1>> ELSE Idle]
  /\ came = [f \in DOMAIN Entry |-> Exit]
  /\ mem = [v \in Var |-> Min2(GetInitState[v])]
  /\ env = [f \in DOMAIN Entry |-> mem]
  /\ event = Nothing
  /\ exact = TRUE

Running(f) == pc[f] \notin {Idle, Over}

AtEnd(f) == Running(f) /\ pc[f][2] > Len(Prog[pc[f][1]].body)

Ready(f) ==
  Running(f) /\ (~ AtEnd(f) /\ InstrAt(pc[f]).op = "join" => pc[InstrAt(pc[f]).fn] = Over)

(* Instructions no other thread notices run as soon as they can: their      *)
(* order makes no difference.                                               *)
Local(f) ==
  Running(f) /\ (AtEnd(f) \/ InstrAt(pc[f]).op \in {"icmp", "add", "mul", "xor", "intxor", "cast", "phi"})

MayRun(f) ==
  LET local == {g \in DOMAIN Entry : Local(g)}
  IN  IF local = {} THEN Ready(f) ELSE f = CHOOSE g \in local : TRUE

(* What a load sees is the value in memory. *)
SharedRead(s, mm) == IF s \in LoadSite THEN [l \in {s} |-> [v \in Var |-> {mm[v]}]] ELSE <<>>

(* One instruction; a creation hands the creator's view on. *)
RunInstr(f) ==
  /\ MayRun(f) /\ ~ AtEnd(f)
  /\ LET s == pc[f]
         i == InstrAt(s)
     IN  \E e \in Outcomes(env[f], s, {came[f]}, SharedRead(s, mem), FALSE) :
           /\ env' = IF i.op = "create" THEN [env EXCEPT ![i.fn] = e] ELSE [env EXCEPT ![f] = e]
           /\ mem' = IF s \in StoreSite THEN [mem EXCEPT ![i.ptr] = e[i.ptr]] ELSE mem
           /\ event' = IF s \in StoreSite THEN <<s, e[i.ptr]>>
                       ELSE IF s \in Recorded THEN <<s, 0>> ELSE Nothing
           /\ exact' = (exact /\ Exact(env[f], s, e))
           /\ pc' = [g \in DOMAIN Entry |->
                       IF g = f THEN <<s[1], s[2] + 1>>
                       ELSE IF i.op = "create" /\ g = i.fn THEN <<Entry[g], 1>> ELSE pc[g]]
  /\ UNCHANGED came

RunTerm(f) ==
  /\ MayRun(f) /\ AtEnd(f)
  /\ LET t == Taken(pc[f][1], env[f])
     IN  pc' = [pc EXCEPT ![f] = IF t = Exit THEN Over ELSE <<t, 1>>]
  /\ came' = [came EXCEPT ![f] = pc[f][1]]
  /\ event' = Nothing
  /\ UNCHANGED <<env, mem, exact>>

RunThread ==
  /\ status = "done"
  /\ \E f \in DOMAIN Entry : RunInstr(f) \/ RunTerm(f)
  /\ UNCHANGED <<option, address, threadFuncs, threadsToProcess, threadEntryFacts, interfs,
                 allReachStores, newReachStores, permCache, rErrors, status>>

Analyze == A!Next /\ UNCHANGED threadVars

allVars == <<A!vars, threadVars>>

Init == A!Init /\ ThreadInit

Next == Analyze \/ RunThread

(* Weak fairness of Analyze, which is enabled exactly while the analysis is *)
(* running, when no thread runs: it does not stop by itself.                *)
Fairness == []<>(status # "running") \/ []<><<TRUE>>_(A!vars)

Spec == Init /\ [][Next]_allVars /\ Fairness

-----------------------------------------------------------------------------
(* The programs of which RunReported is proved for every size.              *)

(* Only loads and stores reach shared memory: the registers of an           *)
(* instruction are other dimensions.                                        *)
Memory ==
  {v \in Var : v \in DOMAIN Initializer \/ \E s \in LoadSite \cup StoreSite : InstrAt(s).ptr = v}

Operands(i) ==
  IF i.op \in {"store", "rmw", "cast"} THEN {i.val}
  ELSE IF i.op \in {"add", "mul", "xor", "intxor", "icmp"} THEN {i.a, i.b}
  ELSE IF i.op = "phi" THEN {i.operands[p] : p \in DOMAIN i.operands} ELSE {}

MemoryApart ==
  \A s \in Site :
    /\ InstrAt(s).op \in {"load", "rmw", "add", "mul", "xor", "intxor", "icmp", "cast", "phi"} =>
         InstrAt(s).to \notin Memory
    /\ Operands(InstrAt(s)) \cap [reg : Memory] = {}

(* A function is one thread: it is started at one place, and that place is  *)
(* known to the analysis.                                                   *)
StartedOnce ==
  /\ \A c, d \in CreateSite : Starts[c] = Starts[d] => c = d
  /\ \A o \in Option : \A c \in CreateSite :
       LET created == Range(ThreadCreate[o.main])
       IN  /\ Starts[c] # o.main
           /\ FuncOf(c) \in {o.main} \cup {Starts[d] : d \in created} => c \in created

(* Branches are on bits, which are bits from the start, and on comparisons  *)
(* that still hold.                                                         *)
BranchesOnBits ==
  /\ BranchesCurrent({Entry[f] : f \in DOMAIN Entry})
  /\ \E Bits \in SUBSET Var : HoldBits(Bits) /\ \A v \in Bits : Min2(GetInitState[v]) \in 0 .. 1

WellFormed == Var # {} /\ MemoryApart /\ StartedOnce /\ BranchesOnBits /\ PhiReadRight

-----------------------------------------------------------------------------
(* Before an instruction, or a terminator. *)
Points == UNION {{b} \X (1 .. Len(Prog[b].body) + 1) : b \in Block}

ThreadsTyped ==
  /\ pc \in [DOMAIN Entry -> Points \cup {Idle, Over}]
  /\ came \in [DOMAIN Entry -> Block \cup {Exit}]
  /\ mem \in State
  /\ env \in [DOMAIN Entry -> State]
  /\ event[1] \in Recorded \cup {Idle}
  /\ exact \in BOOLEAN

TypeOK == A!TypeOK /\ ThreadsTyped

(* As long as no number is changed by its width, every step an execution    *)
(* takes was foreseen: an assertion that fails is among the reported        *)
(* errors, the value a store writes is in the fact reported at that store,  *)
(* and a thread that is created has been analysed (worklistai.cpp:          *)
(* runOnModule, "Errors found").                                            *)
RunReported ==
  LET s == event[1]
  IN  exact =>
        /\ s \in ErrorSite => s \in rErrors
        /\ s \in StoreSite => s \in DOMAIN newReachStores /\ event[2] \in newReachStores[s][InstrAt(s).ptr]
        /\ s \in CreateSite => Starts[s] \in threadFuncs

AbortsExpected == A!AbortsExpected
NoneMissed == A!NoneMissed
StoresGrow == A!StoresGrow
InterferencesComplete == A!InterferencesComplete
Fixpoint == A!Fixpoint
CacheRight == A!CacheRight
AnalysisEnds == A!AnalysisEnds
=============================================================================
