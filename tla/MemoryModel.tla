---------------------------- MODULE MemoryModel ----------------------------
(***************************************************************************)
(* Executions of the program of Constraints, to compare the constraints    *)
(* with: threads, a memory that remembers the last store to each variable  *)
(* and, under the weak memory models, store buffers.  This is the machine  *)
(* the analysed program runs on, not code of the analysis.                 *)
(*                                                                         *)
(* Values play no part: every branch may be taken, which only adds         *)
(* executions.                                                             *)
(***************************************************************************)
EXTENDS Constraints

CONSTANT Main   \* the main functions of the programs a run looks at

(* The program: every instruction is one the machine below runs.            *)
ASSUME ProgramAssumption ==
  /\ IsFiniteSet(Node)
  /\ \A b \in Node :
       /\ Blocks[b].fn \in Func
       /\ Blocks[b].body \in Seq({Blocks[b].body[k] : k \in DOMAIN Blocks[b].body})
       /\ \A k \in DOMAIN Blocks[b].body :
            Blocks[b].body[k].op \in {"load", "store", "create", "join", "fence"}
       /\ \A c \in Succ[b] : c \in Node /\ Blocks[c].fn = Blocks[b].fn
  /\ \A f \in Func : Entry[f] \in Node /\ Blocks[Entry[f]].fn = f
  /\ \A a \in CreateCall \cup JoinCall : At(a).fn \in Func
  /\ Main \subseteq Func

Var == {At(a).ptr : a \in Load \cup Store}

Initially == <<"initially", 0>>   \* the value before any store

VARIABLES
  model,  \* the memory model option, and the memory the program runs on
  pc,     \* the instruction each thread is about to run
  mem,    \* the store each variable holds the value of
  view,   \* the store the thread's own copy of each variable stems from: the
          \* memory of the analysis, which a load from another thread updates
  buf,    \* stores on their way to memory
  may,    \* the readings that explain every execution of a load so far
  reads   \* history: pairs <<load, store it read from>>

vars == <<model, pc, mem, view, buf, may, reads>>

Idle == <<"idle", 0>>
Over == <<"over", 0>>

Source == Store \cup {Initially}

(* A load reads from its own memory in one of two ways: what testCurPerm    *)
(* takes it to read, when it takes it to read anything, or another store.   *)
Unforeseen == <<"own", 1>>

Readings(l) == ChoicesOf(l) \cup {Unforeseen}

(* The stores of a function: its buffer never holds more than one of each. *)
StoresOf(f) == {s \in Store : FuncOf(s) = f}

TypeOK ==
  /\ model \in Models
  /\ pc \in [Func -> Instr \cup {Idle, Over}]
  /\ mem \in [Var -> Source]
  /\ view \in [Func -> [Var -> Source]]
  /\ \A f \in Func : \A i \in DOMAIN buf[f] : buf[f][i] \in StoresOf(f)
  /\ \A l \in Load : may[l] \subseteq Readings(l)
  /\ reads \subseteq Load \X Store

Init ==
  /\ model \in Models
  /\ \E m \in Main : pc = [f \in Func |-> IF f = m THEN FirstOf(m) ELSE Idle]
  /\ mem = [v \in Var |-> Initially]
  /\ view = [f \in Func |-> mem]
  /\ buf = [f \in Func |-> <<>>]
  /\ may = [l \in Load |-> Readings(l)]
  /\ reads = {}

Running(f, ops) == pc[f] \notin {Idle, Over} /\ At(pc[f]).op \in ops

Ahead(f) == pc' = [pc EXCEPT ![f] = <<@[1], @[2] + 1>>]

(* What a load of v by f returns: the newest buffered store, or memory. *)
Visible(f, v) ==
  LET pending == {i \in DOMAIN buf[f] : At(buf[f][i]).ptr = v}
  IN  IF pending = {} THEN mem[v] ELSE buf[f][CHOOSE i \in pending : \A j \in pending : j <= i]

(* The choice of store s, and of the thread's own memory when that holds s. *)
Explains(f, l, s) ==
  {c \in Interfs(l) : c = s}
    \cup (IF view[f][At(l).ptr] # s THEN {}
          ELSE IF OnlyStore[l] \subseteq {s} THEN {Own, Unforeseen} ELSE {Unforeseen})

DoLoad(f) ==
  /\ Running(f, {"load"})
  /\ LET l == pc[f]
         v == At(l).ptr
         s == Visible(f, v)
     IN  /\ may' = [may EXCEPT ![l] = @ \cap Explains(f, l, s)]
         /\ reads' = IF s = Initially THEN reads ELSE reads \cup {<<l, s>>}
         /\ view' = [view EXCEPT ![f][v] = s]
  /\ Ahead(f)
  /\ UNCHANGED <<model, mem, buf>>

DoStore(f) ==
  /\ Running(f, {"store"})
  /\ LET s == pc[f]
         v == At(s).ptr
     IN  /\ IF model = "sc"
              THEN mem' = [mem EXCEPT ![v] = s] /\ UNCHANGED buf
              ELSE s \notin {buf[f][i] : i \in DOMAIN buf[f]}
                   /\ buf' = [buf EXCEPT ![f] = Append(@, s)] /\ UNCHANGED mem
         /\ view' = [view EXCEPT ![f][v] = s]
  /\ Ahead(f)
  /\ UNCHANGED <<model, may, reads>>

(* TSO drains the buffer in order, PSO in order for each variable. *)
Flush(f) ==
  \E i \in DOMAIN buf[f] :
    /\ model = "tso" => i = 1
    /\ \A j \in 1 .. (i - 1) : ~ SameVar(buf[f][j], buf[f][i])
    /\ mem' = [mem EXCEPT ![At(buf[f][i]).ptr] = buf[f][i]]
    /\ buf' = [buf EXCEPT ![f] = SubSeq(@, 1, i - 1) \o SubSeq(@, i + 1, Len(@))]
    /\ UNCHANGED <<model, pc, view, may, reads>>

DoFence(f) ==
  /\ Running(f, {"fence"})
  /\ buf[f] = <<>>
  /\ Ahead(f)
  /\ UNCHANGED <<model, mem, view, buf, may, reads>>

(* pthread_create: the child starts with its creator's memory.  The         *)
(* analysis knows a thread by its function, so a function runs once.        *)
DoCreate(f) ==
  /\ Running(f, {"create"})
  /\ buf[f] = <<>>
  /\ LET g == At(pc[f]).fn
     IN  /\ pc[g] = Idle
         /\ pc' = [pc EXCEPT ![f] = <<@[1], @[2] + 1>>, ![g] = FirstOf(g)]
         /\ view' = [view EXCEPT ![g] = view[f]]
  /\ UNCHANGED <<model, mem, buf, may, reads>>

DoJoin(f) ==
  /\ Running(f, {"join"})
  /\ pc[At(pc[f]).fn] = Over
  /\ Ahead(f)
  /\ UNCHANGED <<model, mem, view, buf, may, reads>>

DoTerm(f) ==
  /\ Running(f, {"term"})
  /\ IF Succ[pc[f][1]] = {}
       THEN buf[f] = <<>> /\ pc' = [pc EXCEPT ![f] = Over]
       ELSE \E b \in Succ[pc[f][1]] : pc' = [pc EXCEPT ![f] = <<b, 1>>]
  /\ UNCHANGED <<model, mem, view, buf, may, reads>>

Next ==
  \E f \in Func :
    \/ DoLoad(f)
    \/ DoStore(f)
    \/ Flush(f)
    \/ DoFence(f)
    \/ DoCreate(f)
    \/ DoJoin(f)
    \/ DoTerm(f)

Spec == Init /\ [][Next]_vars

-----------------------------------------------------------------------------
(* What the constraints take a program to be, without checking it: one      *)
(* place creates a function, which is not a main function; and a function   *)
(* returns at one place, as JoinMHB has every return come before the join.  *)
CreatedOnce ==
  /\ \A a, b \in CreateCall : At(a).fn = At(b).fn => a = b
  /\ \A a \in CreateCall : At(a).fn \notin Main

Return == {a \in Instr : At(a).op = "term" /\ Succ[a[1]] = {}}

OneReturn == \A a, b \in Return : FuncOf(a) = FuncOf(b) => a = b

(* A permutation's domain, a function's loads, tells which function it is for. *)
FeasiblePerms == Table([m \in Models |-> UNION {Feasible(m, f) : f \in Func}])

(* A permutation that is analysed and in which each load of f reads as R    *)
(* allows it to.                                                            *)
SomeAnalysed(f, R(_)) ==
  \E p \in FeasiblePerms[model] :
    DOMAIN p = InterfLoads(f) /\ \A l \in InterfLoads(f) : p[l] \in R(l)

Foreseen(l) == may[l] \ {Unforeseen}

AnyReading(l) == IF Unforeseen \in may[l] THEN may[l] \cup {Own} ELSE may[l]

(* No store of a thread that runs is in a loop. *)
NoStoreLoops == \A s \in Store : pc[FuncOf(s)] # Idle => s[1] \notin Reaches[s[1]]

(* Pruning is sound: for every execution of a program without stores in     *)
(* loops in which each load of a thread always reads in the same way, and   *)
(* from its own memory only what testCurPerm takes it to read, a            *)
(* permutation with exactly those reads is left to analyse                  *)
(* (worklistai.cpp: violatesProgOrder, which testCurPerm uses so that "the  *)
(* solver could not prove the permutation was redundant").                  *)
PruningSound ==
  NoStoreLoops =>
    \A f \in Func :
      (\A l \in InterfLoads(f) : Foreseen(l) # {}) => SomeAnalysed(f, Foreseen)

(* The same of programs with stores in loops: addOverwriteNotReads, "a load *)
(* cannot read from a value which must be overwritten"                      *)
LoopsPrunedRight ==
  \A f \in Func :
    (\A l \in InterfLoads(f) : Foreseen(l) # {}) => SomeAnalysed(f, Foreseen)

(* The same of every execution without stores in loops, whatever a load     *)
(* reads from its own memory: testCurPerm has a "Map from an instruction    *)
(* reading from the thread-local to the corresponding store its reading     *)
(* from", and takes that store to be the one read.                          *)
OwnReadsPrunedRight ==
  NoStoreLoops =>
    \A f \in Func :
      (\A l \in InterfLoads(f) : may[l] # {}) => SomeAnalysed(f, AnyReading)

(* No load reads from a store that -filter-mhb has removed, in loops and    *)
(* inconsistent reads included (worklistai.cpp: filterMHBInterfs).          *)
FilteredNeverRead == reads \cap FilteredByMHB[model] = {}
=============================================================================
