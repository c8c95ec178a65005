------------------------- MODULE MCAnalyzedProgram -------------------------
(***************************************************************************)
(* Small multithreaded programs for AnalyzedProgram.                       *)
(***************************************************************************)
EXTENDS MCPrograms

Text == <<
  \* message passing: if (y == 1) assert(x == 1);
  <<"a1", "main1", <<<<"create", "t1">>, <<"load", "y">>, <<"is", 1>>>>, <<3, "a2", "a4">>>>,
  <<"a2", "main1", <<<<"load", "x">>, <<"is", 1>>>>, <<2, "a4", "a3">>>>,
  <<"a3", "main1", <<<<"fail">>>>, <<>>>>,
  <<"a4", "main1", <<>>, <<>>>>,
  <<"a5", "t1", <<<<"store", "x", 1>>, <<"store", "y", 1>>>>, <<>>>>,
  \* a relay: t2 stores x, u2 copies x to y, main asserts that y never is 2
  <<"b1", "main2", <<<<"create", "t2">>, <<"create", "u2">>, <<"load", "y">>, <<"is", 2>>>>, <<4, "b2", "b3">>>>,
  <<"b2", "main2", <<<<"fail">>>>, <<>>>>,
  <<"b3", "main2", <<<<"store", "x", 2>>>>, <<>>>>,
  <<"b4", "t2", <<<<"store", "x", 2>>>>, <<>>>>,
  <<"b5", "u2", <<<<"load", "x">>, <<"copy", "y">>>>, <<>>>>,
  \* threads that start threads; the last one stores what main asserts on
  <<"c1", "main3", <<<<"store", "x", 1>>, <<"create", "t3">>, <<"load", "y">>, <<"is", 2>>>>, <<4, "c2", "c3">>>>,
  <<"c2", "main3", <<<<"fail">>>>, <<>>>>,
  <<"c3", "main3", <<>>, <<>>>>,
  <<"c4", "t3", <<<<"load", "x">>, <<"is", 1>>>>, <<2, "c5", "c7">>>>,
  <<"c5", "t3", <<<<"create", "u3">>>>, <<>>>>,
  <<"c7", "t3", <<>>, <<>>>>,
  <<"c6", "u3", <<<<"load", "x">>, <<"store", "y", 2>>>>, <<>>>>,
  \* spin until x == 1, then assert(y == 0), after a join
  <<"d1", "main4", <<<<"create", "t4">>>>, <<"d2">>>>,
  <<"d2", "main4", <<<<"load", "x">>, <<"is", 1>>>>, <<2, "d3", "d2">>>>,
  <<"d3", "main4", <<<<"join", "t4">>, <<"load", "y">>, <<"is", 0>>>>, <<3, "d5", "d4">>>>,
  <<"d4", "main4", <<<<"fail">>>>, <<>>>>,
  <<"d5", "main4", <<>>, <<>>>>,
  <<"d6", "t4", <<<<"store", "y", 1>>, <<"store", "x", 1>>>>, <<>>>>,
  \* two atomic increments
  <<"e1", "main5", <<<<"create", "t5">>, <<"add", "x", 1>>, <<"load", "x">>, <<"is", 2>>>>, <<4, "e2", "e3">>>>,
  <<"e2", "main5", <<<<"fail">>>>, <<>>>>,
  <<"e3", "main5", <<>>, <<>>>>,
  <<"e4", "t5", <<<<"add", "x", 1>>>>, <<>>>>,
  \* a load that nothing can interfere with
  <<"h1", "main8", <<<<"load", "x">>, <<"create", "t8">>, <<"is", 1>>>>, <<3, "h2", "h3">>>>,
  <<"h2", "main8", <<<<"fail">>>>, <<>>>>,
  <<"h3", "main8", <<>>, <<>>>>,
  <<"h4", "t8", <<<<"store", "x", 1>>>>, <<>>>>>>

MCProg == Program(Text)

MCEntry ==
  ("main1" :> "a1") @@ ("t1" :> "a5") @@
  ("main2" :> "b1") @@ ("t2" :> "b4") @@ ("u2" :> "b5") @@
  ("main3" :> "c1") @@ ("t3" :> "c4") @@ ("u3" :> "c6") @@
  ("main4" :> "d1") @@ ("t4" :> "d6") @@
  ("main5" :> "e1") @@ ("t5" :> "e4") @@
  ("main8" :> "h1") @@ ("t8" :> "h4")

MCThreadCreate ==
  "main1" :> <<<<"a1", 1>>>> @@ "main2" :> <<<<"b1", 1>>, <<"b1", 2>>>>
    @@ "main3" :> <<<<"c1", 2>>, <<"c5", 1>>>> @@ "main4" :> <<<<"d1", 1>>>>
    @@ "main5" :> <<<<"e1", 1>>>> @@ "main8" :> <<<<"h1", 2>>>>

MCBlockOrder == Names(Text)

(* The hypothesis of the theorem about RunReported. *)
ASSUME ProgramsWellFormed == WellFormed

(* LoopFree, the hypothesis of the theorems about the analysis of a         *)
(* function, but for the thread that spins.                                 *)
ASSUME OnlyOneLoops ==
  \A i, j \in DOMAIN BlockOrder :
    BlockOrder[j] \in SuccOf[BlockOrder[i]] => i < j \/ BlockOrder[i] = "d2"

MCOption ==
  CommandLine({"main1", "main2", "main3", "main4", "main5", "main8"},
              Flags(BOOLEAN, BOOLEAN, BOOLEAN, BOOLEAN))
=============================================================================
