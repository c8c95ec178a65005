----------------------------- MODULE MCWorklist -----------------------------
(***************************************************************************)
(* Four small functions for AnalyzedThread, analysed with the box transfer *)
(* functions of BBOps: a diamond whose join leads to an assertion, a       *)
(* counting loop, a loop that flips a variable for ever, and a branch on a *)
(* value read from another thread.                                         *)
(***************************************************************************)
EXTENDS AnalyzedThread, Sequences, FiniteSets, TLC

x == "x"
c == "c"

Cst(n) == [cst |-> n]
Reg(v) == [reg |-> v]

St(v, a) == [op |-> "store", ptr |-> v, val |-> a]
Cmp(p, v, n) == [op |-> "icmp", to |-> c, pred |-> p, a |-> Reg(v), b |-> Cst(n)]
Call(k) == [op |-> k]

Br(d, t, f) == [kind |-> "br", cond |-> c, def |-> d, succ |-> <<t, f>>]
Goto(b) == [kind |-> "goto", succ |-> <<b>>]
Ret == [kind |-> "ret", succ |-> <<>>]

BB(body, term) == [body |-> body, term |-> term]

MCProg ==
  \* if (x == 0) x = 1; else x = 2;  pthread_create(..);  assert(x == 1);
  ( "a1" :> BB(<<Cmp("eq", x, 0)>>, Br(<<"a1", 1>>, "a2", "a3"))
 @@ "a2" :> BB(<<St(x, Cst(1))>>, Goto("a4"))
 @@ "a3" :> BB(<<St(x, Cst(2))>>, Goto("a4"))
 @@ "a4" :> BB(<<Call("create"), Cmp("eq", x, 1)>>, Br(<<"a4", 2>>, "a5", "a6"))
 @@ "a5" :> BB(<<>>, Ret)
 @@ "a6" :> BB(<<Call("assert_fail")>>, Ret)
  \* while (x < 2) x = x + 1;  pthread_create(..);
 @@ "b1" :> BB(<<Cmp("slt", x, 2)>>, Br(<<"b1", 1>>, "b2", "b3"))
 @@ "b2" :> BB(<<[op |-> "add", to |-> c, a |-> Reg(x), b |-> Cst(1)], St(x, Reg(c))>>, Goto("b1"))
 @@ "b3" :> BB(<<Call("create")>>, Ret)
  \* while (1) { if (x == 0) x = 1; else x = 0; }
 @@ "c1" :> BB(<<Cmp("eq", x, 0)>>, Br(<<"c1", 1>>, "c2", "c3"))
 @@ "c2" :> BB(<<St(x, Cst(1))>>, Goto("c1"))
 @@ "c3" :> BB(<<St(x, Cst(0))>>, Goto("c1"))
  \* if (x /* read from another thread */) assert(0);  x = x + 1 /* atomic */;
 @@ "d1" :> BB(<<[op |-> "load", to |-> c, ptr |-> x]>>, Br(<<"d1", 1>>, "d2", "d3"))
 @@ "d2" :> BB(<<Call("assert_fail")>>, Ret)
 @@ "d3" :> BB(<<[op |-> "rmw", to |-> c, ptr |-> x, val |-> Cst(1)]>>, Ret) )

B == INSTANCE BBOps WITH
       Var <- {x, c}, Lo <- 0, Hi <- 2, Prog <- MCProg, BitWidth <- 3, Exit <- "exit"

Box(i, j) == (x :> i @@ c :> j)

MCInterf == <<"d1", 1>> :> Box(0 .. 1, 0 .. 1)

MCBlock == DOMAIN MCProg
MCSucc == B!SuccOf
MCStore == B!StoreSite
MCCreate == B!CreateSite
MCError == B!ErrorSite
MCSitesOf == [b \in MCBlock |-> {s \in B!Recorded : s[1] = b}]
MCFact == B!Fact
MCBot == B!Bottom
MCState == B!State
MCLeq(f, g) == B!Leq(f, g)
MCJoin(f, g) == B!FactJoin(f, g)
MCGamma(f) == B!Gamma(f)
MCOutFact(b, f, t) == B!RunTransferFuncs(b, f, t, MCInterf, FALSE)
MCSiteFact(b, f, s) == B!RecordedAt(b, f, s, MCInterf, FALSE)
MCRuns(b, m) == B!BlockRuns(b, m, MCInterf, FALSE)

MCEntryPoint ==
  ({"a1", "b1", "c1"} \X {Box(0 .. 0, 0 .. 2), Box(0 .. 2, 0 .. 0), Box(1 .. 2, 0 .. 1)})
    \cup {<<"d1", Box(0 .. 0, 0 .. 0)>>, <<"d1", MCBot>>}

(* Every order of the first four blocks of a function. *)
Position(b) ==
  CASE b \in {"a1", "b1", "c1", "d1"} -> 1
    [] b \in {"a2", "b2", "c2", "d2"} -> 2
    [] b \in {"a3", "b3", "c3", "d3"} -> 3
    [] b = "a4" -> 4
    [] b = "a5" -> 5
    [] b = "a6" -> 6

MCLayout ==
  {[b \in MCBlock |-> IF Position(b) > 4 THEN Position(b) ELSE p[Position(b)]]
     : p \in Permutations(1 .. 4)}

LoopFree == {"a1", "d1"}

(* On a function without loops the worklist empties, whatever the layout of *)
(* the blocks: the engine pops a block as long as one waits.                *)
(* (worklistai.cpp: while (worklist.size()) in analyzeFunc.)                *)
LoopFreeTerminates == entry[1] \in LoopFree => <>Done
=============================================================================
