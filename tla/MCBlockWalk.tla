---------------------------- MODULE MCBlockWalk ----------------------------
(***************************************************************************)
(* Two programs for BlockWalk.  The first uses every instruction the       *)
(* transfer functions handle, the second is the short-circuit condition    *)
(*   while (1) if (x == 0 || x == 1) x = 0; else x = 0;                    *)
(* as clang compiles it.                                                   *)
(***************************************************************************)
EXTENDS BlockWalk, TLC

x == "x"   \* a global
r == "r"   \* the register of loads, sums and casts
c == "c"   \* the register of conditions

MCVar == {x, r, c}
MCLo == -2

MCNoInterf == {<<>>}

Op(o, a, b) == [op |-> o, to |-> r, a |-> a, b |-> b]
Cmp(p, a, b) == [op |-> "icmp", to |-> c, pred |-> p, a |-> a, b |-> b]
St(v, a) == [op |-> "store", ptr |-> v, val |-> a]
Ld == [op |-> "load", to |-> r, ptr |-> x]
Rmw(n) == [op |-> "rmw", to |-> r, ptr |-> x, val |-> Cst(n)]
Call(k) == [op |-> k]
Cast(via, v, a, from, into) ==
  [op |-> "cast", to |-> v, val |-> a, via |-> via, from |-> from, into |-> into]
BB(body, term) == [body |-> body, term |-> term]

MCProg ==
     "e1" :> BB(<<Ld, Cmp("eq", Reg(r), Cst(1))>>, Branch(c, <<"e1", 2>>, "e2", "e3"))
  @@ "e2" :> BB(<<Op("add", Reg(r), Reg(r)), St(x, Reg(r)), Cmp("sgt", Reg(r), Cst(0))>>,
                Branch(c, <<"e2", 3>>, "e4", "e5"))
  @@ "e3" :> BB(<<Rmw(1), Cmp("ne", Reg(r), Cst(0))>>, Branch(c, <<"e3", 2>>, "e4", "e6"))
  @@ "e4" :> BB(<<Op("mul", Reg(r), Cst(-1)), Cmp("sle", Cst(0), Reg(r))>>,
                Branch(c, <<"e4", 2>>, "e5", "e7"))
  @@ "e5" :> BB(<<Cast("zext", r, Reg(c), 1, 2),
                  [op |-> "xor", to |-> c, a |-> Reg(c), b |-> True]>>,
                Branch(c, <<"e5", 2>>, "e1", "e6"))
  @@ "e6" :> BB(<<Ld, Op("add", Reg(r), Cst(-1)), Call("fence"), Cmp("slt", Reg(r), Cst(1))>>,
                Goto("e7"))
  @@ "e7" :> BB(<<[op |-> "phi", to |-> r, operands |-> ("e4" :> False @@ "e6" :> Reg(c))],
                  Cmp("sge", Reg(r), Cst(1)), St(x, Cst(1))>>,
                Branch(c, <<"e7", 2>>, "e8", "e9"))
  @@ "e8" :> BB(<<Call("create"), Call("join")>>, Return)
  @@ "e9" :> BB(<<Call("assert_fail")>>, Return)
  \* casts that change a number, and one that does not
  @@ "k1" :> BB(<<Cast("trunc", c, Reg(x), 2, 1), Cast("sext", r, Reg(c), 1, 2)>>,
                Branch(c, <<"k1", 1>>, "k2", "k3"))
  @@ "k2" :> BB(<<Cast("zext", r, Reg(x), 2, 3), Cast("trunc", r, Reg(r), 3, 2),
                  Cmp("slt", Reg(r), Cst(0))>>, Branch(c, <<"k2", 3>>, "k4", "k5"))
  @@ "k3" :> BB(<<Cast("same", r, Cst(1), 2, 2), [Op("add", Reg(r), Reg(x)) EXCEPT !.op = "intxor"]>>, Return)
  \* one instruction more that is handled in each block, and one that is not
  @@ "k4" :> BB(<<[Op("add", Reg(x), Reg(x)) EXCEPT !.op = "intxor"], Op("mul", Reg(r), Reg(x))>>, Return)
  @@ "k5" :> BB(<<Cmp("ult", Reg(x), Cst(1))>>, Branch(c, <<"k5", 1>>, "k4", "k4b"))
  @@ "k4b" :> BB(<<[op |-> "xor", to |-> c, a |-> True, b |-> Reg(c)]>>, Return)

Facts(I, J) == {(x :> i @@ r :> j @@ c :> k) : i \in I, j \in I, k \in J}

MCIntervals == {0 .. 0, 1 .. 1, 0 .. 1, -2 .. -1, -2 .. 4}

MCStart ==
  {<<b, f, g>> \in (DOMAIN MCProg) \X Facts(MCIntervals, {0 .. 0, 0 .. 1}) \X
                   Facts(MCIntervals, {0 .. 0, 0 .. 1}) : \A v \in {x, r, c} : f[v] \subseteq g[v]}

Box(i) == (x :> i @@ r :> (-2 .. 4) @@ c :> (0 .. 1))

MCInterfMap ==
  {<<>>, <<"e1", 1>> :> Box(0 .. 1), <<"e3", 1>> :> Box(-2 .. -1) @@ <<"e6", 1>> :> Box(1 .. 1)}

(* The hypothesis of the theorem, on the program that satisfies it. *)
ASSUME PhiHypothesis == Prog = MCProg => PhiReadRight

(* b, d: the two comparisons; c: the phi. *)
MCPhiVar == {x, "b", c, "d"}

MCPhiProg ==
     "p1" :> BB(<<[op |-> "icmp", to |-> "b", pred |-> "eq", a |-> Reg(x), b |-> Cst(0)]>>,
                Branch("b", <<"p1", 1>>, "p3", "p2"))
  @@ "p2" :> BB(<<[op |-> "icmp", to |-> "d", pred |-> "eq", a |-> Reg(x), b |-> Cst(1)]>>,
                Goto("p3"))
  @@ "p3" :> BB(<<[op |-> "phi", to |-> c, operands |-> ("p1" :> True @@ "p2" :> Reg("d"))]>>,
                Branch(c, <<"p3", 1>>, "p4", "p5"))
  @@ "p4" :> BB(<<St(x, Cst(0))>>, Goto("p1"))
  @@ "p5" :> BB(<<St(x, Cst(0))>>, Goto("p1"))

MCPhiStart ==
  {<<"p1", f, f>> : f \in {[v \in MCPhiVar |-> IF v = x THEN i ELSE 0 .. 0]
                            : i \in {0 .. 0, 1 .. 1, -1 .. -1, -1 .. 1}}}
=============================================================================
