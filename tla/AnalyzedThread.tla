--------------------------- MODULE AnalyzedThread ---------------------------
(***************************************************************************)
(* The worklist engine beside a run of the thread it analyses.  The engine *)
(* works first; once its worklist is empty the thread runs, block by       *)
(* block, from an environment the entry fact describes.  The engine's      *)
(* results are a promise about that run.                                   *)
(***************************************************************************)
EXTENDS Worklist

CONSTANTS
  Environment,  \* environments of the analysed program
  Concrete(_), \* the environments a fact describes
  Runs(_, _),  \* Runs(b, m): the runs of block b from environment m
  Exit         \* the thread has left its function

(* A run of a block: the environment it ends in, the block it goes to and   *)
(* the environment at each site it executed.                                *)
IsRun(b, r) ==
  /\ r.next \in Succ[b] \cup {Exit}
  /\ r.mem \in Environment
  /\ DOMAIN r.obs \subseteq SitesOf[b]
  /\ \A s \in DOMAIN r.obs : r.obs[s] \in Environment

ASSUME GammaAssumption ==
  /\ Exit \notin BasicBlock
  /\ \A f \in Element : Concrete(f) \subseteq Environment
  /\ Concrete(Bot) = {}
  /\ \A f, g \in Element : Below(f, g) => Concrete(f) \subseteq Concrete(g)

(* Soundness of the transfer functions, block by block. *)
ASSUME TransferSound ==
  \A b \in BasicBlock, f \in Element : \A m \in Concrete(f) : \A r \in Runs(b, m) :
    /\ IsRun(b, r)
    /\ r.next \in Succ[b] => r.mem \in Concrete(OutFact(b, f, r.next))
    /\ \A s \in DOMAIN r.obs : r.obs[s] \in Concrete(SiteFact(b, f, s))

VARIABLES
  pc,     \* the block the thread is about to run
  mem,    \* its environment
  shown   \* the pairs <<site, environment>> its run went through

threadVars == <<pc, mem, shown>>

allVars == <<vars, threadVars>>

ThreadTypeOK ==
  /\ TypeOK
  /\ pc \in BasicBlock \cup {Exit}
  /\ mem \in Environment
  /\ shown \subseteq Site \X Environment

ThreadInit ==
  /\ Init
  /\ pc = entry[1]
  /\ mem \in Concrete(entry[2])
  /\ shown = {}

RunBlock ==
  /\ Done
  /\ pc # Exit
  /\ \E r \in Runs(pc, mem) :
       /\ pc' = r.next
       /\ mem' = r.mem
       /\ shown' = shown \cup {<<s, r.obs[s]>> : s \in DOMAIN r.obs}
  /\ UNCHANGED vars

EngineStep == Next /\ UNCHANGED threadVars

ThreadNext == EngineStep \/ RunBlock

ThreadSpec == ThreadInit /\ [][ThreadNext]_allVars /\ WF_allVars(EngineStep)

-----------------------------------------------------------------------------
(* Wherever the thread can be, the engine has analysed that block with a    *)
(* fact that describes the thread's environment.                            *)
ThreadCovered ==
  /\ ~ Done => pc = entry[1] /\ mem \in Concrete(entry[2]) /\ shown = {}
  /\ Done /\ pc # Exit => \E f \in seen[pc] : mem \in Concrete(f)

(* The engine's results hold of the run: each store and each thread         *)
(* creation the thread executes was found reachable, with a fact that       *)
(* describes the environment there, and each assertion that fails was       *)
(* reported.  (bbops.cpp: updateReachStores, updateReachThreadCreate,       *)
(* "Found Reachable Error"; worklistai.cpp: analyzeFunc.)                   *)
ReportSound ==
  \A o \in shown :
    /\ o[1] \in Store => reachStores[o[1]] # Absent /\ o[2] \in Concrete(reachStores[o[1]])
    /\ o[1] \in Create =>
         reachThreadCreate[o[1]] # Absent /\ o[2] \in Concrete(reachThreadCreate[o[1]])
    /\ o[1] \in Error => o[1] \in rErrors
=============================================================================
