---------------------------- MODULE MCLateThread ----------------------------
(***************************************************************************)
(* Two programs for which the iteration leaves something out: a thread     *)
(* that is discovered late, and a permutation that is cached for another   *)
(* thread.  Both are without loops.                                        *)
(***************************************************************************)
EXTENDS MCPrograms

Text == <<
  \* a thread that is started only after another one has stored to x
  <<"f1", "main6", <<<<"create", "u6">>, <<"load", "x">>, <<"is", 1>>>>, <<3, "f2", "f3">>>>,
  <<"f2", "main6", <<<<"create", "t6">>>>, <<>>>>,
  <<"f3", "main6", <<>>, <<>>>>,
  <<"f4", "u6", <<<<"store", "y", 1>>, <<"store", "x", 1>>>>, <<>>>>,
  <<"f5", "t6", <<<<"load", "y">>, <<"is", 0>>>>, <<2, "f7", "f6">>>>,
  <<"f6", "t6", <<<<"fail">>>>, <<>>>>,
  <<"f7", "t6", <<>>, <<>>>>,
  \* main loads x before t7 can store it, t7 may load what main stores
  <<"g1", "main7", <<<<"load", "x">>, <<"create", "t7">>, <<"store", "y", 1>>>>, <<>>>>,
  <<"g2", "t7", <<<<"load", "y">>, <<"is", 1>>, <<"store", "x", 1>>>>, <<2, "g3", "g4">>>>,
  <<"g3", "t7", <<<<"fail">>>>, <<>>>>,
  <<"g4", "t7", <<>>, <<>>>>>>

MCProg == Program(Text)

MCEntry ==
  ("main6" :> "f1") @@ ("t6" :> "f5") @@ ("u6" :> "f4") @@
  ("main7" :> "g1") @@ ("t7" :> "g2")

MCThreadCreate ==
  "main6" :> <<<<"f1", 1>>, <<"f2", 1>>>> @@ "main7" :> <<<<"g1", 2>>>>

MCBlockOrder == Names(Text)

MCOptionCache == CommandLine({"main7"}, Flags({FALSE}, {TRUE}, {FALSE}, {TRUE}))

MCOptionLate == CommandLine({"main6"}, Flags({FALSE}, {TRUE}, {FALSE}, {FALSE}))
=============================================================================
