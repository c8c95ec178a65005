---------------------------- MODULE ProgramQueries ----------------------------
(***************************************************************************)
(* ThreadQueries run on a program of Constraints: what the data-flow       *)
(* analysis and the loop over the permutations compute is what Constraints *)
(* defines by the paths of the program and as a set.                       *)
(***************************************************************************)
EXTENDS Constraints, ThreadQueries

(* The graph and the stores that getReachingStores iterates over. *)
GraphOfProgram ==
  /\ \A f \in DOMAIN LayoutOf : BlocksOf(f) \subseteq Node
  /\ \A b \in Node : Succ[b] \subseteq Node /\ Pred[b] = {c \in Node : b \in Succ[c]}
  /\ \A b \in Node :
       /\ StoresIn[b] \in Seq(Store)
       /\ {StoresIn[b][i] : i \in DOMAIN StoresIn[b]} = {s \in Store : s[1] = b}
       /\ \A i, j \in DOMAIN StoresIn[b] : i < j => StoresIn[b][i][2] < StoresIn[b][j][2]
  /\ \A s \in Store : PtrOf[s] = At(s).ptr

(* n stores of its block come before instruction a. *)
Above(n, a) ==
  /\ n \in 0 .. Len(StoresIn[a[1]])
  /\ {StoresIn[a[1]][i] : i \in 1 .. n} = {s \in Store : s[1] = a[1] /\ s[2] < a[2]}

(* The interferences, the creations and the facts that the loop over the    *)
(* permutations is given.                                                   *)
QueriesOfProgram ==
  /\ \A f \in ThreadFunc :
       /\ {InterfsOf[f][i].at : i \in DOMAIN InterfsOf[f]} = InterfLoads(f)
       /\ \A i \in DOMAIN InterfsOf[f] :
            LET load == InterfsOf[f][i]
            IN  /\ load.ptr = At(load.at).ptr
                /\ {load.stores[n] : n \in DOMAIN load.stores} = Interfs(load.at)
       /\ \/ CreateSiteOf(f) = {} /\ CreatorOf[f] = <<>>
          \/ \E ci \in CreateSiteOf(f) :
               /\ CreateSiteOf(f) = {ci}
               /\ Len(CreatorOf[f]) = 3
               /\ CreatorOf[f][1] = FuncOf(ci) /\ CreatorOf[f][2] = ci[1] /\ Above(CreatorOf[f][3], ci)
       /\ \A s \in Store :
            FuncOf(s) = f \/ (CreatorOf[f] # <<>> /\ FuncOf(s) = CreatorOf[f][1]) =>
              \E k \in DOMAIN FactsOf[f] : s \in {FactsOf[f][k][1], FactsOf[f][k][2]}
  /\ \A l \in Load : BlockOf[l] = l[1] /\ Above(StoresAbove[l], l)
  /\ \A f \in DOMAIN LayoutOf : BlocksOf(f) = {b \in Node : Blocks[b].fn = f}

ASSUME ProgramAssumption == IsFiniteSet(Node) /\ GraphOfProgram /\ QueriesOfProgram

-----------------------------------------------------------------------------
(* The stores getReachingStores finds are the ones with a path on which     *)
(* nothing overwrites them, in every function it was called with and where  *)
(* it erased every killed store.                                            *)
ReachByPaths ==
  \A f \in DOMAIN memoizer \ missed : \A b \in BlocksOf(f) : memoizer[f][b] = ReachingStores[b]

(* Bit vectors taken back to the values they stand for. *)
ValueOf(n) == CHOOSE v \in DOMAIN valueCache : BVOf(v) = n

Meant(S) == {<<ValueOf(p[1]), ValueOf(p[2])>> : p \in S}

(* The permutations and reads-from facts that Constraints works with, as a  *)
(* set, are the ones the loop asks about (worklistai.cpp:                   *)
(* analyzeThreadInterf), unless a killed store was not erased.              *)
AskedAsModelled ==
  idStatus = "dumped" /\ Searched \cap missed = {} =>
    {<<Meant(a.facts), Meant(a.queries)>> : a \in asked}
      = {<<IF InterfRF(p) = {} THEN {} ELSE InterfRF(p) \cup SelfRF(p), InterfRF(p)>>
           : p \in {p \in Perms(thread) : \A l \in DOMAIN p : p[l] \in ChoicesOf(l)}}
=============================================================================
