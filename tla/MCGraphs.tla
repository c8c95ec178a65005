------------------------------ MODULE MCGraphs ------------------------------
(***************************************************************************)
(* Small multithreaded programs as control-flow graphs of loads, stores    *)
(* and calls, for Constraints.  Each uses variables of its own, so that    *)
(* one does not interfere with another.                                    *)
(***************************************************************************)
EXTENDS TLC

(* Globals and instructions are numbered from one space (getValueBVID). *)
Ld(v) == [op |-> "load", ptr |-> <<v, 0>>]
St(v) == [op |-> "store", ptr |-> <<v, 0>>]
Create(f) == [op |-> "create", fn |-> f]
Join(f) == [op |-> "join", fn |-> f]
FenceCall == [op |-> "fence"]
BB(f, body, succ) == [fn |-> f, body |-> body, term |-> [succ |-> succ]]

MCEntry ==
  ("main1" :> "a0") @@ ("t1" :> "a1") @@ ("u1" :> "a2") @@
  ("main2" :> "b0") @@ ("t2" :> "b5") @@
  ("main3" :> "c0") @@ ("t3" :> "c5") @@
  ("main4" :> "d0") @@ ("t4" :> "d1") @@
  ("main5" :> "e0") @@ ("t5" :> "e1") @@
  ("main6" :> "f0") @@ ("t6" :> "f1") @@
  ("main7" :> "g0") @@ ("t7" :> "g3")

MCCode ==
  \* message passing between two threads, with a join
     "a0" :> BB("main1", <<St("x1"), Create("t1"), Create("u1"), Join("t1"), Ld("x1")>>, <<>>)
  @@ "a1" :> BB("t1", <<St("x1"), St("y1"), Ld("y1")>>, <<>>)
  @@ "a2" :> BB("u1", <<Ld("y1"), Ld("x1"), St("y1"), Ld("y1"), Ld("x1")>>, <<>>)
  \* a thread created in a loop that reads what the thread writes
  @@ "b0" :> BB("main2", <<>>, <<"b1">>)
  @@ "b1" :> BB("main2", <<Ld("x2")>>, <<"b2", "b3">>)
  @@ "b2" :> BB("main2", <<Create("t2")>>, <<"b4">>)
  @@ "b3" :> BB("main2", <<St("y2"), Ld("y2")>>, <<>>)
  @@ "b4" :> BB("main2", <<Ld("y2")>>, <<"b1", "b3">>)
  @@ "b5" :> BB("t2", <<Ld("y2"), St("x2"), St("y2"), Ld("y2")>>, <<>>)
  \* stores on both sides of a branch
  @@ "c0" :> BB("main3", <<Create("t3"), Ld("x3")>>, <<"c1", "c2">>)
  @@ "c1" :> BB("main3", <<St("x3")>>, <<"c3">>)
  @@ "c2" :> BB("main3", <<Ld("y3"), St("x3")>>, <<"c3">>)
  @@ "c3" :> BB("main3", <<Ld("x3"), Ld("y3")>>, <<>>)
  @@ "c5" :> BB("t3", <<St("y3"), Ld("x3"), St("x3"), St("y3")>>, <<>>)
  \* a store on one side of a branch, then a load of the same variable
  @@ "d0" :> BB("main4", <<Create("t4"), Ld("y4")>>, <<"d2", "d3">>)
  @@ "d2" :> BB("main4", <<St("y4"), St("x4")>>, <<"d3">>)
  @@ "d3" :> BB("main4", <<Ld("x4"), Ld("y4")>>, <<>>)
  @@ "d1" :> BB("t4", <<St("y4"), St("x4")>>, <<>>)
  \* store buffering with fences
  @@ "e0" :> BB("main5", <<Create("t5"), St("x5"), FenceCall, Ld("y5")>>, <<>>)
  @@ "e1" :> BB("t5", <<St("y5"), FenceCall, Ld("x5")>>, <<>>)
  \* a store in a loop: y6 = 1 for ever, against r = y6; y6 = 0; r = y6
  @@ "f0" :> BB("main6", <<Create("t6"), Ld("y6"), St("y6"), Ld("y6")>>, <<>>)
  @@ "f1" :> BB("t6", <<St("y6")>>, <<"f1", "f2">>)
  @@ "f2" :> BB("t6", <<>>, <<>>)
  \* a store on one side of a branch, after the other thread has ended
  @@ "g0" :> BB("main7", <<Create("t7")>>, <<"g1", "g2">>)
  @@ "g1" :> BB("main7", <<Join("t7"), St("x7")>>, <<"g2">>)
  @@ "g2" :> BB("main7", <<Ld("x7"), Ld("y7")>>, <<>>)
  @@ "g3" :> BB("t7", <<St("y7"), St("y7"), St("x7")>>, <<>>)
=============================================================================
