----------------------------- MODULE MCQueries -----------------------------
(***************************************************************************)
(* ProgramQueries on the threads of the programs of MCGraphs and one more. *)
(***************************************************************************)
EXTENDS ProgramQueries, MCGraphs

MCQueryEntry == MCEntry @@ ("main8" :> "h0") @@ ("t8" :> "h5")

MCQueryCode ==
  MCCode
  \* two stores reach a loop that overwrites them, one by the back edge
  @@ "h0" :> BB("main8", <<Create("t8"), St("x8"), St("x8")>>, <<"h2">>)
  @@ "h2" :> BB("main8", <<Ld("x8")>>, <<"h3", "h4">>)
  @@ "h3" :> BB("main8", <<St("x8")>>, <<"h2">>)
  @@ "h4" :> BB("main8", <<Ld("y8")>>, <<>>)
  @@ "h5" :> BB("t8", <<Ld("y8"), St("x8"), St("y8")>>, <<>>)

(* Every set as a vector, in the order in which TLC has its elements. *)
Ordered(S) ==
  LET f[T \in SUBSET S] == IF T = {} THEN <<>> ELSE LET x == CHOOSE x \in T : TRUE IN <<x>> \o f[T \ {x}]
  IN  f[S]

(* Layouts: the entry first, the other blocks mostly backwards. *)
MCLayout ==
  ("main1" :> <<"a0">>) @@ ("t1" :> <<"a1">>) @@ ("u1" :> <<"a2">>) @@
  ("main2" :> <<"b0", "b4", "b3", "b2", "b1">>) @@ ("t2" :> <<"b5">>) @@
  ("main3" :> <<"c0", "c3", "c2", "c1">>) @@ ("t3" :> <<"c5">>) @@
  ("main4" :> <<"d0", "d3", "d2">>) @@ ("t4" :> <<"d1">>) @@
  ("main5" :> <<"e0">>) @@ ("t5" :> <<"e1">>) @@
  ("main6" :> <<"f0">>) @@ ("t6" :> <<"f1", "f2">>) @@
  ("main7" :> <<"g0", "g2", "g1">>) @@ ("t7" :> <<"g3">>) @@
  ("main8" :> <<"h0", "h2", "h3", "h4">>) @@ ("t8" :> <<"h5">>)

(* A function with its values in order, which TLC looks up faster. *)
AsTable(F) == F @@ <<>>

MCPred == AsTable([b \in Node |-> {c \in Node : b \in Succ[c]}])

InOrderOf(b, S) ==
  LET n == Len(Blocks[b].body)
      f[i \in 0 .. n] == IF i = 0 THEN <<>> ELSE IF <<b, i>> \in S THEN Append(f[i - 1], <<b, i>>) ELSE f[i - 1]
  IN  f[n]

MCStoresIn == AsTable([b \in Node |-> InOrderOf(b, Store)])

MCPtrOf == AsTable([s \in Store |-> At(s).ptr])

MCValue == Load \cup Store \cup {At(a).ptr : a \in Load \cup Store}

(* The functions of the module that is analysed when f is: main5 and main6  *)
(* are in one of 16 and one of 17 values, main2 in one of more.             *)
Programs ==
  <<{"main1", "t1", "u1"}, {"main2", "t2"}, {"main3", "t3"}, {"main4", "t4"},
    {"main5", "t5"}, {"main6", "t6"}, {"main7", "t7"}, {"main8", "t8"}>>

ModuleOf(f) ==
  UNION {CASE i = 5 -> Programs[5] \cup Programs[2]
           [] i = 6 -> Programs[6] \cup Programs[1]
           [] i = 2 -> Programs[2] \cup Programs[3]
           [] OTHER -> Programs[i]
         : i \in {i \in DOMAIN Programs : f \in Programs[i]}}

MCThreadFunc == {f \in Func : InterfLoads(f) # {}}

MCFactsOf ==
  AsTable([f \in MCThreadFunc |->
           Ordered({<<a, At(a).ptr>> : a \in {a \in Load \cup Store : FuncOf(a) \in ModuleOf(f)}})])

MCInterfsOf ==
  AsTable([f \in MCThreadFunc |->
           Ordered({[at |-> l, ptr |-> At(l).ptr, stores |-> Ordered(Interfs(l))] : l \in InterfLoads(f)})])

MCCreatorOf ==
  AsTable([f \in MCThreadFunc |->
           IF CreateSiteOf(f) = {} THEN <<>>
           ELSE LET ci == CHOOSE ci \in CreateSiteOf(f) : TRUE
                IN  <<FuncOf(ci), ci[1], Cardinality({s \in Store : s[1] = ci[1] /\ s[2] < ci[2]})>>])

MCBlockOf == AsTable([l \in Load |-> l[1]])

MCStoresAbove == AsTable([l \in Load |-> Cardinality({s \in Store : s[1] = l[1] /\ s[2] < l[2]})])

MCRowSizes == {ChoicesPerLoad(f) : f \in MCThreadFunc}

=============================================================================
