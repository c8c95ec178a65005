---------------------------- MODULE LatticeFact ----------------------------
(***************************************************************************)
(* The facts of the analysis (worklist-ai/latticefact.cpp) in the box      *)
(* domain: one interval per APRON dimension.  A LatticeFact is a value:    *)
(* every operation of the class but factJoinDestr returns a fresh fact, so *)
(* the operators below are functions from facts to facts.                  *)
(*                                                                         *)
(* An interval is the set of the integers it contains.  Lo and Hi stand    *)
(* for -oo and +oo: a bound that would leave Lo..Hi saturates, and the     *)
(* concrete values a model enumerates lie strictly inside or on them.      *)
(***************************************************************************)
EXTENDS Integers, FiniteSets

CONSTANTS
  Var,      \* the APRON dimensions: globals, allocas and SSA registers
  Lo, Hi    \* the least and the greatest integer the model distinguishes

ASSUME RangeAssumption == Lo \in Int /\ Hi \in Int /\ Lo <= 0 /\ 1 <= Hi

Min2(S) == CHOOSE x \in S : \A y \in S : x <= y
Max2(S) == CHOOSE x \in S : \A y \in S : y <= x

Saturate(n) == IF n < Lo THEN Lo ELSE IF n > Hi THEN Hi ELSE n

Hull(S) == IF S = {} THEN {} ELSE Min2(S) .. Max2(S)

Interval == {i .. j : i \in Lo .. Hi, j \in Lo .. Hi} \ {{}}

Bottom == [v \in Var |-> {}]

Top == [v \in Var |-> Lo .. Hi]

Fact == {Bottom} \cup [Var -> Interval]

(* The concrete environments a fact describes. *)
State == [Var -> Lo .. Hi]

Gamma(f) == {m \in State : \A v \in Var : m[v] \in f[v]}

IsBottom(f) == f = Bottom

(* A dimension without a value makes the whole fact unreachable. *)
Normal(f) == IF \E v \in Var : f[v] = {} THEN Bottom ELSE f

-----------------------------------------------------------------------------
(* Order and join: leq, factJoin, areValsEq, areValsGEq. *)

Leq(f, g) == \A v \in Var : f[v] \subseteq g[v]

FactUnion(f, g) == [v \in Var |-> f[v] \cup g[v]]   \* mutant: gaps are kept

FactJoin(f, g) == [v \in Var |-> Hull(f[v] \cup g[v])]

AreValsGEq(f, g) == Leq(g, f)

AreValsEq(f, g) == Leq(f, g) /\ Leq(g, f)

-----------------------------------------------------------------------------
(* Assignments.  An operand is a register or a constant. *)

Reg(v) == [reg |-> v]
Cst(c) == [cst |-> c]

IsConst(a) == "cst" \in DOMAIN a

ValuesOf(f, a) == IF IsConst(a) THEN {a.cst} ELSE f[a.reg]

AssignInterval(f, to, I) == IF IsBottom(f) THEN f ELSE [f EXCEPT ![to] = I]

Assign(f, to, from) == AssignInterval(f, to, ValuesOf(f, from))

Sums(X, Y) == {Saturate(x + y) : x \in X, y \in Y}

Products(X, Y) == {Saturate(x * y) : x \in X, y \in Y}

AddFact(f, to, a, b) == AssignInterval(f, to, Hull(Sums(ValuesOf(f, a), ValuesOf(f, b))))

MulFact(f, to, a, b) == AssignInterval(f, to, Hull(Products(ValuesOf(f, a), ValuesOf(f, b))))

(* The remainder keeps the sign of the dividend, as AP_RDIR_ZERO asks for. *)
Clipped(S) == {Saturate(x) : x \in S}

Remainders(I, c) ==
  IF I \subseteq (1 - c) .. (c - 1) THEN I
  ELSE Hull(Clipped((IF Min2(I) >= 0 THEN 0 ELSE 1 - c) .. (c - 1)))

ModFact(f, to, op, c) == AssignInterval(f, to, Remainders(f[op], c))

AssignTrueFalse(f, to, setTrue, setFalse) ==
  AssignInterval(f, to, (IF setTrue THEN {1} ELSE {}) \cup (IF setFalse THEN {0} ELSE {}))

-----------------------------------------------------------------------------
(* Comparisons.  sat_lincons answers TRUE only for a constraint every      *)
(* value satisfies; when neither the predicate nor its negation is         *)
(* definite, both truth values are assigned.                               *)

Predicate == {"eq", "ne", "sgt", "sge", "slt", "sle"}

Compare(pred, x, y) ==
  \/ pred = "eq" /\ x = y
  \/ pred = "ne" /\ x # y
  \/ pred = "sgt" /\ x > y
  \/ pred = "sge" /\ x >= y
  \/ pred = "slt" /\ x < y
  \/ pred = "sle" /\ x <= y

Definitely(f, pred, a, b) ==
  \A x \in ValuesOf(f, a), y \in ValuesOf(f, b) : Compare(pred, x, y)

DefinitelyNot(f, pred, a, b) ==
  \A x \in ValuesOf(f, a), y \in ValuesOf(f, b) : ~ Compare(pred, x, y)

ICmpUnknownIsFalse(f, to, pred, a, b) ==           \* mutant: "not certain" taken for "no"
  AssignTrueFalse(f, to, Definitely(f, pred, a, b), ~ Definitely(f, pred, a, b))

ICmp(f, to, pred, a, b) ==
  LET sat   == Definitely(f, pred, a, b)
      unsat == DefinitelyNot(f, pred, a, b)
  IN  AssignTrueFalse(f, to, sat \/ ~ unsat, unsat \/ ~ sat)

(* meetConstrTy on boxes: each operand keeps the values for which the other *)
(* one has a partner; a disequality prunes nothing but an exact match.      *)
MeetCompare(f, pred, a, b) ==
  LET keepA == {x \in ValuesOf(f, a) : \E y \in ValuesOf(f, b) : Compare(pred, x, y)}
      keepB == {y \in ValuesOf(f, b) : \E x \in ValuesOf(f, a) : Compare(pred, x, y)}
      Tight(v) == IF Reg(v) = a THEN keepA ELSE IF Reg(v) = b THEN keepB ELSE f[v]
  IN  IF keepA = {} THEN Bottom
      ELSE IF pred = "ne" THEN f
      ELSE Normal([v \in Var |-> Tight(v)])

Negated == [eq |-> "ne", ne |-> "eq", sgt |-> "sle", sle |-> "sgt", sge |-> "slt", slt |-> "sge"]

MeetEq(f, b, c) == MeetCompare(f, "eq", Reg(b), Cst(c))

(* constrainTF(std::string, bool): the condition is compared with 1 or 0. *)
ConstrainBool(f, b, tf) == MeetEq(f, b, IF tf THEN 1 ELSE 0)

(* constrainICmp ignores that a comparison is unsigned. *)
Unsigned == [ugt |-> "sgt", uge |-> "sge", ult |-> "slt", ule |-> "sle"]

AsSigned(pred) == IF pred \in DOMAIN Unsigned THEN Unsigned[pred] ELSE pred

(* constrainICmp followed by the constraint on the comparison's own result. *)
ConstrainICmp(f, to, pred, a, b, tf) ==
  LET p == AsSigned(pred)
  IN  ConstrainBool(MeetCompare(f, IF tf THEN p ELSE Negated[p], a, b), to, tf)
=============================================================================
