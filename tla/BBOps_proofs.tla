---------------------------- MODULE BBOps_proofs ----------------------------
(***************************************************************************)
(* The facts, the transfer functions and the branch constraints, for any   *)
(* code, any width and any range of the integers: facts are a lattice, the *)
(* functions keep facts facts, give larger facts for larger facts and      *)
(* interferences, and describe what the instructions do.                   *)
(***************************************************************************)
EXTENDS BBOps, WellFoundedInduction, TLAPS

-----------------------------------------------------------------------------
(* Intervals. *)

LEMMA LeastOf ==
  ASSUME NEW S \in SUBSET Nat, S # {}
  PROVE  \E m \in S : \A n \in S : m <= n
<1>1. PICK m \in S : \A n \in S : ~ (<<n, m>> \in OpToRel(<, Nat))
  BY NatLessThanWellFounded, WFMin, Zenon
<1>2. ASSUME NEW n \in S PROVE m <= n
  <2>1. n < m => <<n, m>> \in OpToRel(<, Nat)
    BY DEF OpToRel
  <2>2. ~ (n < m)
    BY <1>1, <2>1, Zenon
  <2>3. QED BY <2>2
<1>3. QED BY <1>2

LEMMA Min2Is ==
  ASSUME NEW S \in SUBSET (Lo .. Hi), S # {}
  PROVE  Min2(S) \in S /\ \A y \in S : Min2(S) <= y
<1> DEFINE T == {y - Lo : y \in S}
<1>1. T \in SUBSET Nat /\ T # {}
  <2>1. \A y \in S : y - Lo \in Nat
    BY RangeAssumption
  <2>2. QED BY <2>1
<1>2. PICK t \in T : \A u \in T : t <= u
  BY <1>1, LeastOf
<1>3. PICK y \in S : t = y - Lo
  OBVIOUS
<1>4. \A z \in S : y - Lo <= z - Lo
  BY <1>2, <1>3
<1>5. \A z \in S : y <= z
  BY <1>4, RangeAssumption
<1>6. QED BY <1>5 DEF Min2

LEMMA Max2Is ==
  ASSUME NEW S \in SUBSET (Lo .. Hi), S # {}
  PROVE  Max2(S) \in S /\ \A y \in S : y <= Max2(S)
<1> DEFINE T == {Hi - y : y \in S}
<1>1. T \in SUBSET Nat /\ T # {}
  <2>1. \A y \in S : Hi - y \in Nat
    BY RangeAssumption
  <2>2. QED BY <2>1
<1>2. PICK t \in T : \A u \in T : t <= u
  BY <1>1, LeastOf
<1>3. PICK y \in S : t = Hi - y
  OBVIOUS
<1>4. \A z \in S : Hi - y <= Hi - z
  BY <1>2, <1>3
<1>5. \A z \in S : z <= y
  BY <1>4, RangeAssumption
<1>6. QED BY <1>5 DEF Max2

LEMMA IntervalIs ==
  ASSUME NEW I \in Interval
  PROVE  I \in SUBSET (Lo .. Hi) /\ I # {} /\ \E i, j \in Lo .. Hi : I = i .. j
  BY RangeAssumption DEF Interval

LEMMA IntervalFrom ==
  ASSUME NEW i \in Lo .. Hi, NEW j \in Lo .. Hi, i <= j
  PROVE  i .. j \in Interval
<1>1. i \in i .. j
  BY RangeAssumption
<1>2. QED BY <1>1 DEF Interval

(* The hull of a set is the least interval around it. *)
LEMMA HullIs ==
  ASSUME NEW S \in SUBSET (Lo .. Hi)
  PROVE  /\ S \subseteq Hull(S)
         /\ Hull(S) \in SUBSET (Lo .. Hi)
         /\ S # {} => Hull(S) \in Interval
         /\ \A I \in Interval \cup {{}} : S \subseteq I => Hull(S) \subseteq I
<1>1. CASE S = {}
  BY <1>1 DEF Hull
<1>2. CASE S # {}
  <2>1. /\ Min2(S) \in S /\ \A y \in S : Min2(S) <= y
        /\ Max2(S) \in S /\ \A y \in S : y <= Max2(S)
    BY <1>2, Min2Is, Max2Is
  <2>2. Hull(S) = Min2(S) .. Max2(S)
    BY <1>2 DEF Hull
  <2>3. S \subseteq Hull(S) /\ Hull(S) \in SUBSET (Lo .. Hi)
    <3>1. \A y \in S : y \in Min2(S) .. Max2(S)
      BY <2>1, RangeAssumption
    <3>2. Min2(S) \in Lo .. Hi /\ Max2(S) \in Lo .. Hi
      BY <2>1
    <3>3. Min2(S) .. Max2(S) \subseteq Lo .. Hi
      BY <3>2, RangeAssumption
    <3>4. QED BY <2>2, <3>1, <3>3
  <2>4. Hull(S) \in Interval
    BY <2>1, <2>2, IntervalFrom
  <2>5. ASSUME NEW I \in Interval \cup {{}}, S \subseteq I PROVE Hull(S) \subseteq I
    <3>1. PICK i, j \in Lo .. Hi : I = i .. j
      BY <1>2, <2>5, IntervalIs
    <3>2. Min2(S) \in i .. j /\ Max2(S) \in i .. j
      BY <2>1, <2>5, <3>1
    <3>3. QED BY <2>2, <3>1, <3>2, RangeAssumption
  <2>6. QED BY <2>3, <2>4, <2>5
<1>3. QED BY <1>1, <1>2

LEMMA HullGrows ==
  ASSUME NEW T \in SUBSET (Lo .. Hi), NEW S \in SUBSET T
  PROVE  Hull(S) \subseteq Hull(T)
<1>1. T \subseteq Hull(T) /\ (T # {} => Hull(T) \in Interval)
  BY HullIs
<1>2. CASE T = {}
  BY <1>2 DEF Hull
<1>3. CASE T # {}
  <2>1. Hull(T) \in Interval /\ S \subseteq Hull(T)
    BY <1>1, <1>3
  <2>2. QED BY <2>1, HullIs
<1>4. QED BY <1>2, <1>3

LEMMA SaturateIs ==
  ASSUME NEW n \in Int
  PROVE  Saturate(n) \in Lo .. Hi /\ (n \in Lo .. Hi => Saturate(n) = n)
  BY RangeAssumption DEF Saturate

-----------------------------------------------------------------------------
(* Facts: the order, the join and the assignments. *)

LEMMA FactIs ==
  ASSUME NEW f \in Fact
  PROVE  /\ f = [v \in Var |-> f[v]]
         /\ \A v \in Var : f[v] \in SUBSET (Lo .. Hi)
         /\ f # Bottom => f \in [Var -> Interval] /\ \A v \in Var : f[v] \in Interval /\ f[v] # {}
<1>1. CASE f = Bottom
  BY <1>1 DEF Bottom
<1>2. CASE f \in [Var -> Interval]
  BY <1>2, IntervalIs
<1>3. QED BY <1>1, <1>2 DEF Fact

LEMMA LeqReflexive ==
  ASSUME NEW f \in Fact
  PROVE  Leq(f, f)
  BY DEF Leq

LEMMA LeqTransitive ==
  ASSUME NEW f, NEW g, NEW h, Leq(f, g), Leq(g, h)
  PROVE  Leq(f, h)
  BY DEF Leq

LEMMA LeqAntisymmetric ==
  ASSUME NEW f \in Fact, NEW g \in Fact, AreValsEq(f, g)
  PROVE  f = g
<1>1. \A v \in Var : f[v] = g[v]
  BY DEF AreValsEq, Leq
<1>2. f = [v \in Var |-> f[v]] /\ g = [v \in Var |-> g[v]]
  BY FactIs
<1>3. QED BY <1>1, <1>2

(* factJoin computes the least upper bound (latticefact.cpp, factJoin). *)
LEMMA FactJoinIsLeastUpperBound ==
  ASSUME NEW f \in Fact, NEW g \in Fact
  PROVE  /\ FactJoin(f, g) \in Fact
         /\ Leq(f, FactJoin(f, g)) /\ Leq(g, FactJoin(f, g))
         /\ \A h \in Fact : Leq(f, h) /\ Leq(g, h) => Leq(FactJoin(f, g), h)
<1>1. \A v \in Var : f[v] \cup g[v] \in SUBSET (Lo .. Hi)
  BY FactIs
<1>2. \A v \in Var : FactJoin(f, g)[v] = Hull(f[v] \cup g[v])
  BY DEF FactJoin
<1>3. Leq(f, FactJoin(f, g)) /\ Leq(g, FactJoin(f, g))
  <2>1. \A v \in Var : f[v] \cup g[v] \subseteq Hull(f[v] \cup g[v])
    BY <1>1, HullIs
  <2>2. QED BY <1>2, <2>1 DEF Leq
<1>4. FactJoin(f, g) \in Fact
  <2>1. CASE f = Bottom /\ g = Bottom
    <3>1. \A v \in Var : Hull(f[v] \cup g[v]) = {}
      BY <2>1 DEF Bottom, Hull
    <3>2. FactJoin(f, g) = Bottom
      BY <3>1 DEF FactJoin, Bottom
    <3>3. QED BY <3>2 DEF Fact
  <2>2. CASE f # Bottom \/ g # Bottom
    <3>1. \A v \in Var : f[v] \cup g[v] # {}
      BY <2>2, FactIs
    <3>2. \A v \in Var : Hull(f[v] \cup g[v]) \in Interval
      BY <1>1, <3>1, HullIs
    <3>3. QED BY <3>2 DEF FactJoin, Fact
  <2>3. QED BY <2>1, <2>2
<1>5. ASSUME NEW h \in Fact, Leq(f, h), Leq(g, h) PROVE Leq(FactJoin(f, g), h)
  <2>1. ASSUME NEW v \in Var PROVE Hull(f[v] \cup g[v]) \subseteq h[v]
    <3>1. h[v] \in Interval \cup {{}}
      BY FactIs DEF Bottom
    <3>2. f[v] \cup g[v] \subseteq h[v]
      BY <1>5 DEF Leq
    <3>3. QED BY <1>1, <3>1, <3>2, HullIs
  <2>2. QED BY <1>2, <2>1 DEF Leq
<1>6. QED BY <1>3, <1>4, <1>5

(* What AnalyzedThread assumes of its facts (LatticeAssumption and          *)
(* GammaAssumption) is true of the boxes: leq is a partial order, factJoin  *)
(* its least upper bound, bottom describes no environment and a larger fact *)
(* describes more of them.                                                  *)
THEOREM BoxesAreALattice ==
  /\ Bottom \in Fact
  /\ \A f \in Fact : Leq(Bottom, f) /\ Leq(f, f) /\ Gamma(f) \subseteq State
  /\ \A f, g \in Fact : Leq(f, g) /\ Leq(g, f) => f = g
  /\ \A f, g, h \in Fact : Leq(f, g) /\ Leq(g, h) => Leq(f, h)
  /\ \A f, g \in Fact : /\ FactJoin(f, g) \in Fact
                        /\ Leq(f, FactJoin(f, g)) /\ Leq(g, FactJoin(f, g))
                        /\ \A h \in Fact : Leq(f, h) /\ Leq(g, h) => Leq(FactJoin(f, g), h)
  /\ \A f, g \in Fact : Leq(f, g) => Gamma(f) \subseteq Gamma(g)
  /\ Var # {} => Gamma(Bottom) = {}
<1>1. Bottom \in Fact
  BY DEF Fact
<1>2. \A f \in Fact : Leq(Bottom, f) /\ Leq(f, f) /\ Gamma(f) \subseteq State
  BY LeqReflexive DEF Leq, Bottom, Gamma
<1>3. \A f, g \in Fact : Leq(f, g) /\ Leq(g, f) => f = g
  BY LeqAntisymmetric DEF AreValsEq
<1>4. \A f, g, h \in Fact : Leq(f, g) /\ Leq(g, h) => Leq(f, h)
  BY LeqTransitive
<1>5. \A f, g \in Fact : Leq(f, g) => Gamma(f) \subseteq Gamma(g)
  BY DEF Leq, Gamma
<1>6. Var # {} => Gamma(Bottom) = {}
  BY DEF Gamma, Bottom
<1>7. QED BY <1>1, <1>2, <1>3, <1>4, <1>5, <1>6, FactJoinIsLeastUpperBound

LEMMA AssignIntervalType ==
  ASSUME NEW f \in Fact, NEW to \in Var, NEW I, f # Bottom => I \in Interval
  PROVE  AssignInterval(f, to, I) \in Fact
<1>1. CASE f = Bottom
  BY <1>1 DEF AssignInterval, IsBottom
<1>2. CASE f # Bottom
  <2>1. f \in [Var -> Interval]
    BY <1>2, FactIs
  <2>2. QED BY <1>2, <2>1 DEF AssignInterval, IsBottom, Fact
<1>3. QED BY <1>1, <1>2

LEMMA AboveNotBottom ==
  ASSUME NEW f \in Fact, NEW g \in Fact, Leq(f, g), f # Bottom, NEW v \in Var
  PROVE  g # Bottom
<1>1. f[v] # {} /\ f[v] \subseteq g[v]
  BY FactIs DEF Leq
<1>2. QED BY <1>1 DEF Bottom

LEMMA AssignIntervalMonotone ==
  ASSUME NEW f \in Fact, NEW g \in Fact, Leq(f, g), NEW to \in Var, NEW I, NEW J,
         f # Bottom => I \subseteq J
  PROVE  Leq(AssignInterval(f, to, I), AssignInterval(g, to, J))
<1>1. CASE f = Bottom
  BY <1>1 DEF AssignInterval, IsBottom, Leq, Bottom
<1>2. CASE f # Bottom
  <2>1. g # Bottom
    BY <1>2, AboveNotBottom
  <2>2. f = [v \in Var |-> f[v]] /\ g = [v \in Var |-> g[v]]
    BY FactIs
  <2>3. /\ AssignInterval(f, to, I) = [f EXCEPT ![to] = I]
        /\ AssignInterval(g, to, J) = [g EXCEPT ![to] = J]
    BY <1>2, <2>1 DEF AssignInterval, IsBottom
  <2>4. ASSUME NEW v \in Var PROVE [f EXCEPT ![to] = I][v] \subseteq [g EXCEPT ![to] = J][v]
    BY <1>2, <2>2 DEF Leq
  <2>5. QED BY <2>3, <2>4 DEF Leq
<1>3. QED BY <1>1, <1>2

LEMMA AssignIntervalSound ==
  ASSUME NEW f \in Fact, NEW m \in Gamma(f), NEW to \in Var, NEW I, NEW n \in Lo .. Hi, n \in I
  PROVE  [m EXCEPT ![to] = n] \in Gamma(AssignInterval(f, to, I))
<1>1. m \in State /\ \A v \in Var : m[v] \in f[v]
  BY DEF Gamma
<1>2. f # Bottom
  BY <1>1 DEF Bottom
<1>3. f = [v \in Var |-> f[v]]
  BY FactIs
<1>4. AssignInterval(f, to, I) = [f EXCEPT ![to] = I]
  BY <1>2 DEF AssignInterval, IsBottom
<1>5. [m EXCEPT ![to] = n] \in State
  BY <1>1 DEF State
<1>6. ASSUME NEW v \in Var PROVE [m EXCEPT ![to] = n][v] \in [f EXCEPT ![to] = I][v]
  BY <1>1, <1>3 DEF State
<1>7. QED BY <1>4, <1>5, <1>6 DEF Gamma

-----------------------------------------------------------------------------
(* Operands and arithmetic. *)

LEMMA OperandIs ==
  ASSUME NEW f \in Fact, NEW a \in Operand
  PROVE  /\ ValuesOf(f, a) \in SUBSET (Lo .. Hi)
         /\ f # Bottom => ValuesOf(f, a) \in Interval /\ ValuesOf(f, a) # {}
         /\ \A m \in Gamma(f) : Value(m, a) \in ValuesOf(f, a) /\ Value(m, a) \in Lo .. Hi
<1>1. CASE a \in [reg : Var]
  <2>1. ~ IsConst(a) /\ a.reg \in Var
    BY <1>1 DEF IsConst
  <2>2. ValuesOf(f, a) = f[a.reg]
    BY <2>1 DEF ValuesOf
  <2>3. \A m \in Gamma(f) : Value(m, a) = m[a.reg] /\ m[a.reg] \in f[a.reg]
    BY <2>1 DEF Value, Gamma
  <2>4. QED BY <2>1, <2>2, <2>3, FactIs
<1>2. CASE a \in [cst : Lo .. Hi]
  <2>1. IsConst(a) /\ a.cst \in Lo .. Hi /\ "bit" \notin DOMAIN a
    BY <1>2 DEF IsConst
  <2>2. ValuesOf(f, a) = {a.cst} /\ \A m \in Gamma(f) : Value(m, a) = a.cst
    BY <2>1 DEF ValuesOf, Value
  <2>3. a.cst .. a.cst = {a.cst}
    BY <2>1, RangeAssumption
  <2>4. {a.cst} \in Interval
    <3>1. a.cst <= a.cst
      BY <2>1, RangeAssumption
    <3>2. a.cst .. a.cst \in Interval
      BY <2>1, <3>1, IntervalFrom
    <3>3. QED BY <2>3, <3>2
  <2>5. QED BY <2>1, <2>2, <2>4
<1>3. QED BY <1>1, <1>2 DEF Operand

LEMMA OperandGrows ==
  ASSUME NEW f, NEW g, Leq(f, g), NEW a \in Operand
  PROVE  ValuesOf(f, a) \subseteq ValuesOf(g, a)
<1>1. CASE a \in [reg : Var]
  BY <1>1 DEF ValuesOf, IsConst, Leq
<1>2. CASE a \in [cst : Lo .. Hi]
  BY <1>2 DEF ValuesOf, IsConst
<1>3. QED BY <1>1, <1>2 DEF Operand

LEMMA RegIsOperand == \A v \in Var : Reg(v) \in Operand
  BY DEF Reg, Operand

LEMMA CstIsOperand == \A n \in Lo .. Hi : Cst(n) \in Operand
  BY DEF Cst, Operand

(* What an operation gives on the values of its operands. *)
LEMMA SumsAre ==
  ASSUME NEW X \in SUBSET (Lo .. Hi), NEW Y \in SUBSET (Lo .. Hi)
  PROVE  /\ Sums(X, Y) \in SUBSET (Lo .. Hi)
         /\ X # {} /\ Y # {} => Sums(X, Y) # {}
         /\ \A x \in X, y \in Y : x + y \in Lo .. Hi => x + y \in Sums(X, Y)
         /\ \A T \in SUBSET X, U \in SUBSET Y : Sums(T, U) \in SUBSET Sums(X, Y)
<1>1. \A x \in X, y \in Y : x + y \in Int
  BY RangeAssumption
<1>2. \A x \in X, y \in Y : Saturate(x + y) \in Lo .. Hi
  BY <1>1, SaturateIs
<1>3. \A x \in X, y \in Y : x + y \in Lo .. Hi => Saturate(x + y) = x + y
  BY <1>1, SaturateIs
<1>4. \A x \in X, y \in Y : Saturate(x + y) \in Sums(X, Y)
  BY DEF Sums
<1>5. Sums(X, Y) \in SUBSET (Lo .. Hi)
  BY <1>2 DEF Sums
<1>6. \A T \in SUBSET X, U \in SUBSET Y : Sums(T, U) \in SUBSET Sums(X, Y)
  BY DEF Sums
<1>7. QED BY <1>3, <1>4, <1>5, <1>6

LEMMA AddFactIs ==
  ASSUME NEW f \in Fact, NEW to \in Var, NEW a \in Operand, NEW b \in Operand
  PROVE  /\ AddFact(f, to, a, b) \in Fact
         /\ \A g \in Fact : Leq(f, g) => Leq(AddFact(f, to, a, b), AddFact(g, to, a, b))
         /\ \A m \in Gamma(f) : Value(m, a) + Value(m, b) \in Lo .. Hi =>
              [m EXCEPT ![to] = Value(m, a) + Value(m, b)] \in Gamma(AddFact(f, to, a, b))
<1> DEFINE Results(h) == Sums(ValuesOf(h, a), ValuesOf(h, b))
<1>1. ASSUME NEW h \in Fact
      PROVE  Results(h) \in SUBSET (Lo .. Hi) /\ (h # Bottom => Results(h) # {})
  BY OperandIs, SumsAre
<1>2. \A h \in Fact : AddFact(h, to, a, b) = AssignInterval(h, to, Hull(Results(h)))
  BY DEF AddFact
<1>3. \A g \in Fact : Leq(f, g) => Results(f) \in SUBSET Results(g)
  BY OperandGrows, OperandIs, SumsAre
<1>4. \A m \in Gamma(f) : Value(m, a) + Value(m, b) \in Lo .. Hi => Value(m, a) + Value(m, b) \in Results(f)
  BY OperandIs, SumsAre
<1> HIDE DEF Results
<1>5. AddFact(f, to, a, b) \in Fact
  <2>1. f # Bottom => Hull(Results(f)) \in Interval
    BY <1>1, HullIs
  <2>2. QED BY <1>2, <2>1, AssignIntervalType
<1>6. ASSUME NEW g \in Fact, Leq(f, g) PROVE Leq(AddFact(f, to, a, b), AddFact(g, to, a, b))
  <2>1. Hull(Results(f)) \subseteq Hull(Results(g))
    BY <1>1, <1>3, <1>6, HullGrows
  <2>2. QED BY <1>2, <1>6, <2>1, AssignIntervalMonotone
<1>7. ASSUME NEW m \in Gamma(f), Value(m, a) + Value(m, b) \in Lo .. Hi
      PROVE  [m EXCEPT ![to] = Value(m, a) + Value(m, b)] \in Gamma(AddFact(f, to, a, b))
  <2>1. Value(m, a) + Value(m, b) \in Hull(Results(f))
    BY <1>1, <1>4, <1>7, HullIs
  <2>2. QED BY <1>2, <1>7, <2>1, AssignIntervalSound
<1>8. QED BY <1>5, <1>6, <1>7

LEMMA ProductsAre ==
  ASSUME NEW X \in SUBSET (Lo .. Hi), NEW Y \in SUBSET (Lo .. Hi)
  PROVE  /\ Products(X, Y) \in SUBSET (Lo .. Hi)
         /\ X # {} /\ Y # {} => Products(X, Y) # {}
         /\ \A x \in X, y \in Y : x * y \in Lo .. Hi => x * y \in Products(X, Y)
         /\ \A T \in SUBSET X, U \in SUBSET Y : Products(T, U) \in SUBSET Products(X, Y)
<1>1. \A x \in X, y \in Y : x * y \in Int
  BY RangeAssumption
<1>2. \A x \in X, y \in Y : Saturate(x * y) \in Lo .. Hi
  BY <1>1, SaturateIs
<1>3. \A x \in X, y \in Y : x * y \in Lo .. Hi => Saturate(x * y) = x * y
  BY <1>1, SaturateIs
<1>4. \A x \in X, y \in Y : Saturate(x * y) \in Products(X, Y)
  BY DEF Products
<1>5. Products(X, Y) \in SUBSET (Lo .. Hi)
  BY <1>2 DEF Products
<1>6. \A T \in SUBSET X, U \in SUBSET Y : Products(T, U) \in SUBSET Products(X, Y)
  BY DEF Products
<1>7. QED BY <1>3, <1>4, <1>5, <1>6

LEMMA MulFactIs ==
  ASSUME NEW f \in Fact, NEW to \in Var, NEW a \in Operand, NEW b \in Operand
  PROVE  /\ MulFact(f, to, a, b) \in Fact
         /\ \A g \in Fact : Leq(f, g) => Leq(MulFact(f, to, a, b), MulFact(g, to, a, b))
         /\ \A m \in Gamma(f) : Value(m, a) * Value(m, b) \in Lo .. Hi =>
              [m EXCEPT ![to] = Value(m, a) * Value(m, b)] \in Gamma(MulFact(f, to, a, b))
<1> DEFINE Results(h) == Products(ValuesOf(h, a), ValuesOf(h, b))
<1>1. ASSUME NEW h \in Fact
      PROVE  Results(h) \in SUBSET (Lo .. Hi) /\ (h # Bottom => Results(h) # {})
  BY OperandIs, ProductsAre
<1>2. \A h \in Fact : MulFact(h, to, a, b) = AssignInterval(h, to, Hull(Results(h)))
  BY DEF MulFact
<1>3. \A g \in Fact : Leq(f, g) => Results(f) \in SUBSET Results(g)
  BY OperandGrows, OperandIs, ProductsAre
<1>4. \A m \in Gamma(f) : Value(m, a) * Value(m, b) \in Lo .. Hi => Value(m, a) * Value(m, b) \in Results(f)
  BY OperandIs, ProductsAre
<1> HIDE DEF Results
<1>5. MulFact(f, to, a, b) \in Fact
  <2>1. f # Bottom => Hull(Results(f)) \in Interval
    BY <1>1, HullIs
  <2>2. QED BY <1>2, <2>1, AssignIntervalType
<1>6. ASSUME NEW g \in Fact, Leq(f, g) PROVE Leq(MulFact(f, to, a, b), MulFact(g, to, a, b))
  <2>1. Hull(Results(f)) \subseteq Hull(Results(g))
    BY <1>1, <1>3, <1>6, HullGrows
  <2>2. QED BY <1>2, <1>6, <2>1, AssignIntervalMonotone
<1>7. ASSUME NEW m \in Gamma(f), Value(m, a) * Value(m, b) \in Lo .. Hi
      PROVE  [m EXCEPT ![to] = Value(m, a) * Value(m, b)] \in Gamma(MulFact(f, to, a, b))
  <2>1. Value(m, a) * Value(m, b) \in Hull(Results(f))
    BY <1>1, <1>4, <1>7, HullIs
  <2>2. QED BY <1>2, <1>7, <2>1, AssignIntervalSound
<1>8. QED BY <1>5, <1>6, <1>7

LEMMA ClippedIs ==
  ASSUME NEW S \in SUBSET Int
  PROVE  /\ Clipped(S) \in SUBSET (Lo .. Hi)
         /\ S # {} => Clipped(S) # {}
         /\ \A x \in S : x \in Lo .. Hi => x \in Clipped(S)
         /\ \A T \in SUBSET S : Clipped(T) \in SUBSET Clipped(S)
<1>1. \A x \in S : /\ Saturate(x) \in Lo .. Hi /\ Saturate(x) \in Clipped(S)
                   /\ x \in Lo .. Hi => Saturate(x) = x
  BY SaturateIs DEF Clipped
<1>2. \A T \in SUBSET S : Clipped(T) \in SUBSET Clipped(S)
  BY DEF Clipped
<1>3. Clipped(S) \in SUBSET (Lo .. Hi)
  BY <1>1 DEF Clipped
<1>4. QED BY <1>1, <1>2, <1>3

LEMMA RemaindersAre ==
  ASSUME NEW c \in Nat \ {0}, NEW J \in Interval
  PROVE  /\ Remainders(J, c) \in Interval
         /\ \A x \in J : x \in (1 - c) .. (c - 1) => x \in Remainders(J, c)
         /\ \A I \in Interval : I \subseteq J => Remainders(I, c) \subseteq Remainders(J, c)
<1> DEFINE Low(I) == IF Min2(I) >= 0 THEN 0 ELSE 1 - c
<1>1. ASSUME NEW I \in Interval
      PROVE  /\ I \in SUBSET (Lo .. Hi) /\ I # {}
             /\ Min2(I) \in I /\ \A x \in I : Min2(I) <= x
             /\ Low(I) \in {0, 1 - c} /\ Low(I) .. (c - 1) \in SUBSET Int /\ 0 \in Low(I) .. (c - 1)
             /\ Remainders(I, c) = IF I \subseteq (1 - c) .. (c - 1) THEN I ELSE Hull(Clipped(Low(I) .. (c - 1)))
  <2>1. I \in SUBSET (Lo .. Hi) /\ I # {}
    BY IntervalIs
  <2>2. QED BY <2>1, Min2Is, RangeAssumption DEF Remainders
<1>2. Remainders(J, c) \in Interval
  <2>1. CASE J \subseteq (1 - c) .. (c - 1)
    BY <1>1, <2>1
  <2>2. CASE ~ (J \subseteq (1 - c) .. (c - 1))
    <3>1. Clipped(Low(J) .. (c - 1)) \in SUBSET (Lo .. Hi) /\ Clipped(Low(J) .. (c - 1)) # {}
      BY <1>1, ClippedIs
    <3>2. QED BY <1>1, <2>2, <3>1, HullIs
  <2>3. QED BY <2>1, <2>2
<1>3. ASSUME NEW x \in J, x \in (1 - c) .. (c - 1) PROVE x \in Remainders(J, c)
  <2>1. CASE J \subseteq (1 - c) .. (c - 1)
    BY <1>1, <2>1
  <2>2. CASE ~ (J \subseteq (1 - c) .. (c - 1))
    <3>1. x \in Lo .. Hi /\ x \in Low(J) .. (c - 1)
      <4>1. x \in Lo .. Hi /\ Min2(J) \in Lo .. Hi /\ Min2(J) <= x
        BY <1>1
      <4>2. Min2(J) >= 0 => x >= 0
        BY <4>1, RangeAssumption
      <4>3. QED BY <1>3, <4>1, <4>2
    <3>2. Clipped(Low(J) .. (c - 1)) \in SUBSET (Lo .. Hi) /\ x \in Clipped(Low(J) .. (c - 1))
      BY <1>1, <3>1, ClippedIs
    <3>3. QED BY <1>1, <2>2, <3>2, HullIs
  <2>3. QED BY <2>1, <2>2
<1>4. ASSUME NEW I \in Interval, I \subseteq J PROVE Remainders(I, c) \subseteq Remainders(J, c)
  <2>1. CASE I \subseteq (1 - c) .. (c - 1)
    <3>1. Remainders(I, c) = I
      BY <2>1 DEF Remainders
    <3>2. QED BY <1>3, <1>4, <2>1, <3>1
  <2>2. CASE ~ (I \subseteq (1 - c) .. (c - 1))
    <3>1. ~ (J \subseteq (1 - c) .. (c - 1))
      BY <1>4, <2>2
    <3>2. Min2(J) \in Int /\ Min2(I) \in Int /\ Min2(J) <= Min2(I)
      BY <1>1, <1>4, RangeAssumption
    <3>3. Low(I) .. (c - 1) \in SUBSET (Low(J) .. (c - 1))
      BY <1>1, <3>2
    <3> HIDE DEF Low
    <3>4. /\ Clipped(Low(J) .. (c - 1)) \in SUBSET (Lo .. Hi)
          /\ Clipped(Low(I) .. (c - 1)) \in SUBSET Clipped(Low(J) .. (c - 1))
      BY <1>1, <3>3, ClippedIs
    <3>5. Hull(Clipped(Low(I) .. (c - 1))) \subseteq Hull(Clipped(Low(J) .. (c - 1)))
      BY <3>4, HullGrows
    <3>6. QED BY <1>1, <2>2, <3>1, <3>5
  <2>3. QED BY <2>1, <2>2
<1>5. QED BY <1>2, <1>3, <1>4

LEMMA ModFactIs ==
  ASSUME NEW f \in Fact, NEW to \in Var, NEW op \in Var, NEW c \in Nat \ {0}
  PROVE  /\ ModFact(f, to, op, c) \in Fact
         /\ \A g \in Fact : Leq(f, g) => Leq(ModFact(f, to, op, c), ModFact(g, to, op, c))
         /\ \A m \in Gamma(f) : m[op] \in (1 - c) .. (c - 1) =>
              [m EXCEPT ![to] = m[op]] \in Gamma(ModFact(f, to, op, c))
<1>1. f # Bottom => f[op] \in Interval
  BY FactIs
<1>2. ModFact(f, to, op, c) \in Fact
  <2>1. f # Bottom => Remainders(f[op], c) \in Interval
    BY <1>1, RemaindersAre
  <2>2. QED BY <2>1, AssignIntervalType DEF ModFact
<1>3. ASSUME NEW g \in Fact, Leq(f, g) PROVE Leq(ModFact(f, to, op, c), ModFact(g, to, op, c))
  <2>1. f # Bottom => f[op] \in Interval /\ g[op] \in Interval /\ f[op] \subseteq g[op]
    BY <1>1, <1>3, AboveNotBottom, FactIs DEF Leq
  <2>2. f # Bottom => Remainders(f[op], c) \subseteq Remainders(g[op], c)
    BY <2>1, RemaindersAre
  <2>3. QED BY <1>3, <2>2, AssignIntervalMonotone DEF ModFact
<1>4. ASSUME NEW m \in Gamma(f), m[op] \in (1 - c) .. (c - 1)
      PROVE  [m EXCEPT ![to] = m[op]] \in Gamma(ModFact(f, to, op, c))
  <2>1. m[op] \in f[op] /\ m[op] \in Lo .. Hi /\ f # Bottom
    BY DEF Gamma, State, Bottom
  <2>2. m[op] \in Remainders(f[op], c)
    BY <1>1, <1>4, <2>1, RemaindersAre
  <2>3. QED BY <2>1, <2>2, AssignIntervalSound DEF ModFact
<1>5. QED BY <1>2, <1>3, <1>4

(* An addition or a multiplication whose result the width holds. *)
LEMMA PerformBinOpModIs ==
  ASSUME NEW f \in Fact, NEW i, i.op \in {"add", "mul"}, i.to \in Var, i.a \in Operand, i.b \in Operand
  PROVE  /\ PerformBinOpMod(f, i) \in Fact
         /\ \A g \in Fact : Leq(f, g) => Leq(PerformBinOpMod(f, i), PerformBinOpMod(g, i))
         /\ \A m \in Gamma(f) :
              LET y == IF i.op = "mul" THEN Value(m, i.a) * Value(m, i.b) ELSE Value(m, i.a) + Value(m, i.b)
              IN  InRange(y) => [m EXCEPT ![i.to] = y] \in Gamma(PerformBinOpMod(f, i))
<1> DEFINE Plain(h) == IF i.op = "mul" THEN MulFact(h, i.to, i.a, i.b) ELSE AddFact(h, i.to, i.a, i.b)
           Y(m) == IF i.op = "mul" THEN Value(m, i.a) * Value(m, i.b) ELSE Value(m, i.a) + Value(m, i.b)
<1>1. /\ \A h \in Fact : Plain(h) \in Fact
      /\ \A g \in Fact : Leq(f, g) => Leq(Plain(f), Plain(g))
      /\ \A m \in Gamma(f) : Y(m) \in Lo .. Hi => [m EXCEPT ![i.to] = Y(m)] \in Gamma(Plain(f))
  BY AddFactIs, MulFactIs
<1>2. \A h : PerformBinOpMod(h, i) = ModFact(Plain(h), i.to, i.to, 2 ^ BitWidth)
  BY DEF PerformBinOpMod
<1>3. 2 ^ BitWidth \in Nat \ {0}
  BY WidthAssumption
<1> HIDE DEF Plain
<1>4. ASSUME NEW m \in Gamma(f), InRange(Y(m))
      PROVE  [m EXCEPT ![i.to] = Y(m)] \in Gamma(PerformBinOpMod(f, i))
  <2> HIDE DEF Y
  <2> DEFINE x == [m EXCEPT ![i.to] = Y(m)]
  <2>1. Y(m) \in Lo .. Hi /\ Y(m) \in (1 - 2 ^ BitWidth) .. (2 ^ BitWidth - 1)
    BY <1>4, WidthAssumption, RangeAssumption DEF InRange, MaxSigned
  <2>2. x \in Gamma(Plain(f)) /\ x[i.to] = Y(m) /\ [x EXCEPT ![i.to] = x[i.to]] = x
    BY <1>1, <2>1 DEF Gamma, State
  <2>3. [x EXCEPT ![i.to] = x[i.to]] \in Gamma(ModFact(Plain(f), i.to, i.to, 2 ^ BitWidth))
    BY <1>1, <1>3, <2>1, <2>2, ModFactIs
  <2>4. QED BY <1>2, <2>2, <2>3
<1>5. QED BY <1>1, <1>2, <1>3, <1>4, ModFactIs

-----------------------------------------------------------------------------
(* Truth values: comparisons and the exclusive or. *)

LEMMA AssignTrueFalseIs ==
  ASSUME NEW f \in Fact, NEW to \in Var, NEW mayHold \in BOOLEAN, NEW mayFail \in BOOLEAN
  PROVE  /\ mayHold \/ mayFail => AssignTrueFalse(f, to, mayHold, mayFail) \in Fact
         /\ \A g \in Fact, mayHold2, mayFail2 \in BOOLEAN :
              Leq(f, g) /\ (f # Bottom => (mayHold => mayHold2) /\ (mayFail => mayFail2)) =>
                Leq(AssignTrueFalse(f, to, mayHold, mayFail), AssignTrueFalse(g, to, mayHold2, mayFail2))
         /\ \A m \in Gamma(f), p \in BOOLEAN : (p => mayHold) /\ (~ p => mayFail) =>
              [m EXCEPT ![to] = Truth(p)] \in Gamma(AssignTrueFalse(f, to, mayHold, mayFail))
<1> DEFINE Values(h, n) == (IF h THEN {1} ELSE {}) \cup (IF n THEN {0} ELSE {})
<1>1. \A h \in Fact : \A a, b : AssignTrueFalse(h, to, a, b) = AssignInterval(h, to, Values(a, b))
  BY DEF AssignTrueFalse
<1>2. mayHold \/ mayFail => Values(mayHold, mayFail) \in Interval
  <2>1. {1} = 1 .. 1 /\ {0} = 0 .. 0 /\ {1} \cup {0} = 0 .. 1 /\ {1} \cup {} = {1} /\ {} \cup {0} = {0}
    OBVIOUS
  <2>2. 0 \in Lo .. Hi /\ 1 \in Lo .. Hi /\ 0 <= 0 /\ 0 <= 1 /\ 1 <= 1
    BY RangeAssumption
  <2>3. 1 .. 1 \in Interval /\ 0 .. 0 \in Interval /\ 0 .. 1 \in Interval
    BY <2>2, IntervalFrom
  <2>4. QED BY <2>1, <2>3
<1>3. ASSUME NEW h \in BOOLEAN, NEW n \in BOOLEAN, mayHold => h, mayFail => n
      PROVE  Values(mayHold, mayFail) \subseteq Values(h, n)
  BY <1>3
<1>4. ASSUME NEW p \in BOOLEAN, p => mayHold, ~ p => mayFail
      PROVE  Truth(p) \in Values(mayHold, mayFail) /\ Truth(p) \in Lo .. Hi
  BY <1>4, RangeAssumption DEF Truth
<1> HIDE DEF Values
<1>5. mayHold \/ mayFail => AssignTrueFalse(f, to, mayHold, mayFail) \in Fact
  BY <1>1, <1>2, AssignIntervalType
<1>6. ASSUME NEW g \in Fact, NEW h \in BOOLEAN, NEW n \in BOOLEAN, Leq(f, g),
             f # Bottom => (mayHold => h) /\ (mayFail => n)
      PROVE  Leq(AssignTrueFalse(f, to, mayHold, mayFail), AssignTrueFalse(g, to, h, n))
  BY <1>1, <1>3, <1>6, AssignIntervalMonotone
<1>7. ASSUME NEW m \in Gamma(f), NEW p \in BOOLEAN, p => mayHold, ~ p => mayFail
      PROVE  [m EXCEPT ![to] = Truth(p)] \in Gamma(AssignTrueFalse(f, to, mayHold, mayFail))
  BY <1>1, <1>4, <1>7, AssignIntervalSound
<1>8. QED BY <1>5, <1>6, <1>7

LEMMA ICmpIs ==
  ASSUME NEW f \in Fact, NEW to \in Var, NEW pred, NEW a \in Operand, NEW b \in Operand
  PROVE  /\ ICmp(f, to, pred, a, b) \in Fact
         /\ \A g \in Fact : Leq(f, g) => Leq(ICmp(f, to, pred, a, b), ICmp(g, to, pred, a, b))
         /\ \A m \in Gamma(f) : [m EXCEPT ![to] = Truth(Compare(pred, Value(m, a), Value(m, b)))]
                                \in Gamma(ICmp(f, to, pred, a, b))
<1> DEFINE S(h) == Definitely(h, pred, a, b)
           U(h) == DefinitelyNot(h, pred, a, b)
           C(m) == Compare(pred, Value(m, a), Value(m, b))
<1>1. \A h : ICmp(h, to, pred, a, b) = AssignTrueFalse(h, to, S(h) \/ ~ U(h), U(h) \/ ~ S(h))
  BY DEF ICmp
<1>2. \A h : S(h) \in BOOLEAN /\ U(h) \in BOOLEAN
  BY DEF Definitely, DefinitelyNot
<1>3. \A m : C(m) \in BOOLEAN
  BY DEF Compare
<1>4. ASSUME NEW g \in Fact, Leq(f, g), f # Bottom
      PROVE  /\ S(f) \/ ~ U(f) => S(g) \/ ~ U(g)
             /\ U(f) \/ ~ S(f) => U(g) \/ ~ S(g)
  <2>1. /\ ValuesOf(f, a) \subseteq ValuesOf(g, a) /\ ValuesOf(f, b) \subseteq ValuesOf(g, b)
        /\ ValuesOf(f, a) # {} /\ ValuesOf(f, b) # {}
    BY <1>4, OperandGrows, OperandIs
  <2>2. PICK x \in ValuesOf(f, a), y \in ValuesOf(f, b) : TRUE
    BY <2>1
  <2>3. S(g) => S(f) /\ Compare(pred, x, y)
    BY <2>1 DEF Definitely
  <2>4. U(g) => U(f) /\ ~ Compare(pred, x, y)
    BY <2>1 DEF DefinitelyNot
  <2>5. (S(f) => Compare(pred, x, y)) /\ (U(f) => ~ Compare(pred, x, y))
    BY DEF Definitely, DefinitelyNot
  <2> HIDE DEF S, U
  <2>6. QED BY <2>3, <2>4, <2>5
<1>5. ASSUME NEW m \in Gamma(f)
      PROVE  (C(m) => S(f) \/ ~ U(f)) /\ (~ C(m) => U(f) \/ ~ S(f))
  <2>1. Value(m, a) \in ValuesOf(f, a) /\ Value(m, b) \in ValuesOf(f, b)
    BY OperandIs
  <2>2. (S(f) => C(m)) /\ (U(f) => ~ C(m))
    BY <2>1 DEF Definitely, DefinitelyNot
  <2>3. QED BY <2>2
<1> HIDE DEF S, U, C
<1>6. ICmp(f, to, pred, a, b) \in Fact
  BY <1>1, <1>2, AssignTrueFalseIs
<1>7. ASSUME NEW g \in Fact, Leq(f, g) PROVE Leq(ICmp(f, to, pred, a, b), ICmp(g, to, pred, a, b))
  <2> DEFINE mf == S(f) \/ ~ U(f)
             nf == U(f) \/ ~ S(f)
             mg == S(g) \/ ~ U(g)
             ng == U(g) \/ ~ S(g)
  <2>1. mf \in BOOLEAN /\ nf \in BOOLEAN /\ mg \in BOOLEAN /\ ng \in BOOLEAN
    OBVIOUS
  <2>2. f # Bottom => (mf => mg) /\ (nf => ng)
    BY <1>4, <1>7
  <2>3. /\ ICmp(f, to, pred, a, b) = AssignTrueFalse(f, to, mf, nf)
        /\ ICmp(g, to, pred, a, b) = AssignTrueFalse(g, to, mg, ng)
    BY <1>1
  <2> HIDE DEF mf, nf, mg, ng
  <2>4. QED BY <1>7, <2>1, <2>2, <2>3, AssignTrueFalseIs
<1>8. ASSUME NEW m \in Gamma(f) PROVE [m EXCEPT ![to] = Truth(C(m))] \in Gamma(ICmp(f, to, pred, a, b))
  <2>1. (S(f) \/ ~ U(f)) \in BOOLEAN /\ (U(f) \/ ~ S(f)) \in BOOLEAN
    OBVIOUS
  <2>2. QED BY <1>1, <1>3, <1>5, <2>1, AssignTrueFalseIs
<1>9. QED BY <1>6, <1>7, <1>8 DEF C

LEMMA MaybeBitsAre ==
  ASSUME NEW f \in Fact, NEW a \in BitOperand
  PROVE  /\ MaybeBits(f, a) \in {{0}, {1}, {0, 1}}
         /\ \A g \in Fact : Leq(f, g) /\ f # Bottom => MaybeBits(f, a) \subseteq MaybeBits(g, a)
         /\ \A m \in Gamma(f) : MaybeBits(f, a) = {0, 1} \/ MaybeBits(f, a) = {Value(m, a)}
<1>1. CASE a \in {False, True}
  <2>1. IsConst(a) /\ a.bit \in {0, 1} /\ "bit" \in DOMAIN a
    BY <1>1 DEF IsConst, False, True
  <2>2. \A h : MaybeBits(h, a) = {a.bit}
    BY <2>1 DEF MaybeBits
  <2>3. \A m : Value(m, a) = a.bit
    BY <2>1 DEF Value
  <2>4. QED BY <2>1, <2>2, <2>3
<1>2. CASE a \in [reg : Var]
  <2>1. ~ IsConst(a) /\ a.reg \in Var
    BY <1>2 DEF IsConst
  <2>2. \A n \in {0, 1} : ~ (\E m : Cst(n) = a) /\ IsConst(Cst(n)) /\ Cst(n).cst = n
    BY <2>1 DEF Cst, IsConst
  <2>3. \A h, n : n \in {0, 1} => (Definitely(h, "eq", a, Cst(n)) <=> \A x \in h[a.reg] : x = n)
    BY <2>1, <2>2 DEF Definitely, Compare, ValuesOf
  <2>4. \A h : MaybeBits(h, a) = IF \A x \in h[a.reg] : x = 0 THEN {0}
                                ELSE IF \A x \in h[a.reg] : x = 1 THEN {1} ELSE {0, 1}
    BY <2>1, <2>3 DEF MaybeBits
  <2>5. ASSUME NEW g \in Fact, Leq(f, g), f # Bottom PROVE MaybeBits(f, a) \subseteq MaybeBits(g, a)
    <3>1. f[a.reg] # {} /\ f[a.reg] \subseteq g[a.reg]
      BY <2>1, <2>5, FactIs DEF Leq
    <3>2. QED BY <2>4, <3>1
  <2>6. ASSUME NEW m \in Gamma(f) PROVE MaybeBits(f, a) = {0, 1} \/ MaybeBits(f, a) = {Value(m, a)}
    <3>1. Value(m, a) = m[a.reg] /\ m[a.reg] \in f[a.reg]
      BY <2>1 DEF Value, Gamma
    <3>2. QED BY <2>4, <3>1
  <2>7. QED BY <2>4, <2>5, <2>6
<1>3. QED BY <1>1, <1>2 DEF BitOperand

LEMMA PerformXorIs ==
  ASSUME NEW f \in Fact, NEW i, i.to \in Var, i.a \in BitOperand, i.b \in BitOperand
  PROVE  /\ PerformXor(f, i) \in Fact
         /\ \A g \in Fact : Leq(f, g) => Leq(PerformXor(f, i), PerformXor(g, i))
         /\ \A m \in Gamma(f) : [m EXCEPT ![i.to] = Truth(Value(m, i.a) # Value(m, i.b))]
                                \in Gamma(PerformXor(f, i))
<1> DEFINE A(h) == MaybeBits(h, i.a)
           B(h) == MaybeBits(h, i.b)
           D(h) == \E p \in A(h), q \in B(h) : p # q
           E(h) == A(h) \cap B(h) # {}
           C(m) == Value(m, i.a) # Value(m, i.b)
<1>1. \A h : PerformXor(h, i) = AssignTrueFalse(h, i.to, D(h), E(h))
  BY DEF PerformXor
<1>2. \A h : D(h) \in BOOLEAN /\ E(h) \in BOOLEAN
  OBVIOUS
<1>3. \A h \in Fact : A(h) \in {{0}, {1}, {0, 1}} /\ B(h) \in {{0}, {1}, {0, 1}}
  BY MaybeBitsAre
<1>4. D(f) \/ E(f)
  BY <1>3
<1>5. ASSUME NEW g \in Fact, Leq(f, g), f # Bottom PROVE (D(f) => D(g)) /\ (E(f) => E(g))
  <2>1. A(f) \subseteq A(g) /\ B(f) \subseteq B(g)
    BY <1>5, MaybeBitsAre
  <2>2. QED BY <2>1
<1>6. ASSUME NEW m \in Gamma(f) PROVE (C(m) => D(f)) /\ (~ C(m) => E(f))
  <2>1. /\ A(f) = {0, 1} \/ A(f) = {Value(m, i.a)}
        /\ B(f) = {0, 1} \/ B(f) = {Value(m, i.b)}
    BY MaybeBitsAre
  <2> HIDE DEF A, B
  <2>2. QED BY <1>3, <2>1
<1>7. \A m : C(m) \in BOOLEAN
  OBVIOUS
<1> HIDE DEF D, E, C
<1>8. PerformXor(f, i) \in Fact
  BY <1>1, <1>2, <1>4, AssignTrueFalseIs
<1>9. ASSUME NEW g \in Fact, Leq(f, g) PROVE Leq(PerformXor(f, i), PerformXor(g, i))
  <2>1. f # Bottom => (D(f) => D(g)) /\ (E(f) => E(g))
    BY <1>5, <1>9
  <2>2. QED BY <1>1, <1>2, <1>9, <2>1, AssignTrueFalseIs
<1>10. ASSUME NEW m \in Gamma(f) PROVE [m EXCEPT ![i.to] = Truth(C(m))] \in Gamma(PerformXor(f, i))
  BY <1>1, <1>2, <1>6, <1>7, AssignTrueFalseIs
<1>11. QED BY <1>8, <1>9, <1>10 DEF C

-----------------------------------------------------------------------------
(* Copies: stores, casts, phis, loads and read-modify-writes. *)

LEMMA AssignIs ==
  ASSUME NEW f \in Fact, NEW to \in Var, NEW a \in Operand
  PROVE  /\ Assign(f, to, a) \in Fact
         /\ \A g \in Fact : Leq(f, g) => Leq(Assign(f, to, a), Assign(g, to, a))
         /\ \A m \in Gamma(f) : [m EXCEPT ![to] = Value(m, a)] \in Gamma(Assign(f, to, a))
<1>1. Assign(f, to, a) \in Fact
  BY OperandIs, AssignIntervalType DEF Assign
<1>2. ASSUME NEW g \in Fact, Leq(f, g) PROVE Leq(Assign(f, to, a), Assign(g, to, a))
  BY <1>2, OperandGrows, AssignIntervalMonotone DEF Assign
<1>3. ASSUME NEW m \in Gamma(f) PROVE [m EXCEPT ![to] = Value(m, a)] \in Gamma(Assign(f, to, a))
  <2>1. Value(m, a) \in ValuesOf(f, a) /\ Value(m, a) \in Lo .. Hi
    BY OperandIs
  <2>2. QED BY <2>1, AssignIntervalSound DEF Assign
<1>4. QED BY <1>1, <1>2, <1>3

LEMMA PerformPhiIs ==
  ASSUME NEW f \in Fact, NEW i, i.to \in Var, DOMAIN i.operands # {},
         \A p \in DOMAIN i.operands : PhiOperand(i.operands[p])
  PROVE  /\ PerformPhi(f, i) \in Fact
         /\ \A g \in Fact : Leq(f, g) => Leq(PerformPhi(f, i), PerformPhi(g, i))
         /\ \A m \in Gamma(f), p \in DOMAIN i.operands : i.operands[p] # True =>
              [m EXCEPT ![i.to] = Value(m, i.operands[p])] \in Gamma(PerformPhi(f, i))
<1> DEFINE All(h) == UNION {ValuesOf(h, i.operands[p]) : p \in DOMAIN i.operands}
<1>1. \A a \in {False, True} : IsConst(a) /\ "bit" \in DOMAIN a /\ (PhiOperand(a) => a.cst \in Lo .. Hi)
  BY RangeAssumption DEF IsConst, False, True, PhiOperand
<1>2. False.bit = 0 /\ False.cst = 0
  BY DEF False
<1>3. \A p \in DOMAIN i.operands :
        PhiOperand(i.operands[p]) /\ (i.operands[p] \in Operand \/ i.operands[p] \in {False, True})
  BY DEF Operand, BitOperand, PhiOperand
<1>4. ASSUME NEW h \in Fact, NEW p \in DOMAIN i.operands
      PROVE  /\ ValuesOf(h, i.operands[p]) \in SUBSET (Lo .. Hi)
             /\ h # Bottom => ValuesOf(h, i.operands[p]) # {}
  <2>1. CASE i.operands[p] \in Operand
    BY <2>1, OperandIs
  <2>2. CASE i.operands[p] \in {False, True}
    BY <1>1, <1>3, <2>2 DEF ValuesOf
  <2>3. QED BY <1>3, <2>1, <2>2
<1>5. \A h \in Fact : All(h) \in SUBSET (Lo .. Hi) /\ (h # Bottom => All(h) # {})
  BY <1>4
<1>6. ASSUME NEW g \in Fact, Leq(f, g) PROVE All(f) \in SUBSET All(g)
  <2>1. ASSUME NEW p \in DOMAIN i.operands PROVE ValuesOf(f, i.operands[p]) \subseteq ValuesOf(g, i.operands[p])
    <3>1. CASE i.operands[p] \in Operand
      BY <1>6, <3>1, OperandGrows
    <3>2. CASE i.operands[p] \in {False, True}
      BY <1>1, <3>2 DEF ValuesOf
    <3>3. QED BY <1>3, <3>1, <3>2
  <2>2. QED BY <2>1
<1>7. ASSUME NEW m \in Gamma(f), NEW p \in DOMAIN i.operands, i.operands[p] # True
      PROVE  Value(m, i.operands[p]) \in All(f)
  <2>1. CASE i.operands[p] \in Operand
    BY <2>1, OperandIs
  <2>2. CASE i.operands[p] = False
    BY <1>1, <1>2, <2>2 DEF ValuesOf, Value
  <2>3. QED BY <1>3, <1>7, <2>1, <2>2
<1>8. \A h : PerformPhi(h, i) = AssignInterval(h, i.to, Hull(All(h)))
  BY DEF PerformPhi
<1> HIDE DEF All
<1>9. PerformPhi(f, i) \in Fact
  <2>1. f # Bottom => Hull(All(f)) \in Interval
    BY <1>5, HullIs
  <2>2. QED BY <1>8, <2>1, AssignIntervalType
<1>10. ASSUME NEW g \in Fact, Leq(f, g) PROVE Leq(PerformPhi(f, i), PerformPhi(g, i))
  <2>1. Hull(All(f)) \subseteq Hull(All(g))
    BY <1>5, <1>6, <1>10, HullGrows
  <2>2. QED BY <1>8, <1>10, <2>1, AssignIntervalMonotone
<1>11. ASSUME NEW m \in Gamma(f), NEW p \in DOMAIN i.operands, i.operands[p] # True
       PROVE  [m EXCEPT ![i.to] = Value(m, i.operands[p])] \in Gamma(PerformPhi(f, i))
  <2>1. All(f) \in SUBSET (Lo .. Hi) /\ Value(m, i.operands[p]) \in All(f)
    BY <1>5, <1>7, <1>11
  <2>2. Value(m, i.operands[p]) \in Hull(All(f)) /\ Value(m, i.operands[p]) \in Lo .. Hi
    BY <2>1, HullIs
  <2>3. QED BY <1>8, <2>2, AssignIntervalSound
<1>12. QED BY <1>9, <1>10, <1>11

(* The interferences analyzeFunc is called with: the fact of a store that   *)
(* was reached, or with -nocombs the join of some.  With -nocombs a load    *)
(* that reads from no other thread reads less than one that does.           *)
IsInterf(g, nc) == \A s \in DOMAIN g : g[s] \in IF nc THEN Fact ELSE [Var -> Interval]

BelowAt(g, h, nc, s) ==
  /\ s \in DOMAIN g => s \in DOMAIN h /\ Leq(g[s], h[s])
  /\ nc \/ (s \in DOMAIN h => s \in DOMAIN g)

BelowIn(g, h, nc, b) == \A k \in 1 .. Len(Prog[b].body) : BelowAt(g, h, nc, <<b, k>>)

(* What a load with pointer v finds there. *)
Found(h, s, k, nc) ==
  LET v == InstrAt(s).ptr
  IN  IF s \notin DOMAIN k THEN h[v] ELSE IF nc THEN FactJoin(h, k[s])[v] ELSE k[s][v]

LEMMA FoundIs ==
  ASSUME NEW h \in Fact, NEW s, InstrAt(s).ptr \in Var, NEW nc \in BOOLEAN, NEW k, IsInterf(k, nc)
  PROVE  /\ h # Bottom => Found(h, s, k, nc) \in Interval
         /\ s \in DOMAIN k => k[s] \in Fact
         /\ s \in DOMAIN k /\ nc => /\ h[InstrAt(s).ptr] \cup k[s][InstrAt(s).ptr] \in SUBSET (Lo .. Hi)
                                    /\ Found(h, s, k, nc) = Hull(h[InstrAt(s).ptr] \cup k[s][InstrAt(s).ptr])
<1> DEFINE v == InstrAt(s).ptr
           U == h[v] \cup k[s][v]
<1>1. s \in DOMAIN k => k[s] \in Fact
  BY DEF IsInterf, Fact
<1>2. h[v] \in SUBSET (Lo .. Hi) /\ (h # Bottom => h[v] \in Interval /\ h[v] # {})
  BY FactIs
<1>3. s \in DOMAIN k => k[s][v] \in SUBSET (Lo .. Hi)
  BY <1>1, FactIs
<1>4. s \in DOMAIN k /\ nc => Found(h, s, k, nc) = Hull(U)
  BY DEF Found, FactJoin
<1>5. s \in DOMAIN k => U \in SUBSET (Lo .. Hi) /\ (h # Bottom => U # {})
  BY <1>2, <1>3
<1>6. s \in DOMAIN k /\ h # Bottom => Hull(U) \in Interval
  <2> HIDE DEF U
  <2>1. QED BY <1>5, HullIs
<1>7. s \in DOMAIN k /\ ~ nc => Found(h, s, k, nc) \in Interval
  BY DEF Found, IsInterf
<1>8. s \notin DOMAIN k => Found(h, s, k, nc) = h[v]
  BY DEF Found
<1>9. QED BY <1>1, <1>2, <1>4, <1>5, <1>6, <1>7, <1>8

LEMMA FoundGrows ==
  ASSUME NEW f \in Fact, NEW h \in Fact, Leq(f, h), NEW s, InstrAt(s).ptr \in Var, NEW nc \in BOOLEAN,
         NEW g, IsInterf(g, nc), NEW k, IsInterf(k, nc), BelowAt(g, k, nc, s)
  PROVE  Found(f, s, g, nc) \subseteq Found(h, s, k, nc)
<1> DEFINE v == InstrAt(s).ptr
           T == f[v] \cup g[s][v]
           U == h[v] \cup k[s][v]
<1>1. f[v] \subseteq h[v]
  BY DEF Leq
<1>2. s \in DOMAIN g => s \in DOMAIN k /\ g[s][v] \subseteq k[s][v]
  BY DEF BelowAt, Leq
<1>3. s \in DOMAIN k /\ ~ nc => s \in DOMAIN g
  BY DEF BelowAt
<1>4. CASE s \in DOMAIN g /\ nc
  <2>1. T \in SUBSET U /\ U \in SUBSET (Lo .. Hi)
    BY <1>1, <1>2, <1>4, FoundIs
  <2>2. Found(f, s, g, nc) = Hull(T) /\ Found(h, s, k, nc) = Hull(U)
    BY <1>2, <1>4, FoundIs
  <2> HIDE DEF T, U
  <2>3. QED BY <2>1, <2>2, HullGrows
<1>5. CASE s \in DOMAIN g /\ ~ nc
  BY <1>2, <1>5 DEF Found
<1>6. CASE s \notin DOMAIN g /\ s \in DOMAIN k
  <2>1. nc
    BY <1>3, <1>6
  <2>2. U \in SUBSET (Lo .. Hi) /\ f[v] \subseteq U /\ Found(h, s, k, nc) = Hull(U)
    BY <1>1, <1>6, <2>1, FoundIs
  <2>3. U \subseteq Hull(U)
    <3> HIDE DEF U
    <3>1. QED BY <2>2, HullIs
  <2>4. Found(f, s, g, nc) = f[v]
    BY <1>6 DEF Found
  <2> HIDE DEF U
  <2>5. QED BY <2>2, <2>3, <2>4
<1>7. CASE s \notin DOMAIN g /\ s \notin DOMAIN k
  BY <1>1, <1>7 DEF Found
<1>8. QED BY <1>4, <1>5, <1>6, <1>7

LEMMA ReadableFound ==
  ASSUME NEW f \in Fact, NEW s, InstrAt(s).ptr \in Var, NEW nc \in BOOLEAN, NEW g, IsInterf(g, nc),
         NEW m \in Gamma(f), NEW x \in Readable(m, s, g, nc)
  PROVE  x \in Found(f, s, g, nc) /\ x \in Lo .. Hi
<1> DEFINE v == InstrAt(s).ptr
           U == f[v] \cup g[s][v]
<1>1. m[v] \in f[v] /\ m[v] \in Lo .. Hi /\ f # Bottom
  BY DEF Gamma, State, Bottom
<1>2. CASE s \notin DOMAIN g
  BY <1>1, <1>2 DEF Readable, Found
<1>3. CASE s \in DOMAIN g /\ nc
  <2>1. x \in U
    BY <1>1, <1>3 DEF Readable
  <2>2. U \in SUBSET (Lo .. Hi) /\ Found(f, s, g, nc) = Hull(U)
    BY <1>3, FoundIs
  <2> HIDE DEF U
  <2>3. QED BY <2>1, <2>2, HullIs
<1>4. CASE s \in DOMAIN g /\ ~ nc
  <2>1. x \in g[s][v] /\ Found(f, s, g, nc) = g[s][v]
    BY <1>4 DEF Readable, Found
  <2>2. g[s][v] \in SUBSET (Lo .. Hi)
    <3>1. g[s] \in [Var -> Interval]
      BY <1>4 DEF IsInterf
    <3>2. QED BY <3>1, IntervalIs
  <2>3. QED BY <2>1, <2>2
<1>5. QED BY <1>2, <1>3, <1>4

(* A load first replaces what the pointer holds by what may be read. *)
LEMMA PerformLoadIs ==
  ASSUME NEW f \in Fact, NEW s, InstrAt(s).to \in Var, InstrAt(s).ptr \in Var,
         NEW nc \in BOOLEAN, NEW g, IsInterf(g, nc)
  PROVE  /\ PerformLoad(f, s, g, nc) \in Fact
         /\ \A h \in Fact : \A k : Leq(f, h) /\ IsInterf(k, nc) /\ BelowAt(g, k, nc, s) =>
              Leq(PerformLoad(f, s, g, nc), PerformLoad(h, s, k, nc))
         /\ PerformLoad(f, s, g, nc)[InstrAt(s).to] = PerformLoad(f, s, g, nc)[InstrAt(s).ptr]
         /\ \A m \in Gamma(f) : \A x \in Readable(m, s, g, nc) :
              /\ x \in Lo .. Hi
              /\ [m EXCEPT ![InstrAt(s).ptr] = x, ![InstrAt(s).to] = x] \in Gamma(PerformLoad(f, s, g, nc))
<1> DEFINE i == InstrAt(s)
           Read(h, k) == AssignInterval(h, i.ptr, Found(h, s, k, nc))
<1>1. ASSUME NEW h \in Fact, NEW k PROVE PerformLoad(h, s, k, nc) = Assign(Read(h, k), i.to, Reg(i.ptr))
  <2>1. s \notin DOMAIN k => Read(h, k) = h
    <3>1. h = [v \in Var |-> h[v]]
      BY FactIs
    <3>2. [h EXCEPT ![i.ptr] = h[i.ptr]] = h
      BY <3>1
    <3>3. QED BY <3>2 DEF AssignInterval, Found
  <2>2. QED BY <2>1 DEF PerformLoad, PerformNonCombinAssign, PerformAssignWithInterf, Found
<1>2. ASSUME NEW h \in Fact, NEW k, IsInterf(k, nc) PROVE Read(h, k) \in Fact
  <2>1. h # Bottom => Found(h, s, k, nc) \in Interval
    BY <1>2, FoundIs
  <2>2. QED BY <2>1, AssignIntervalType
<1>3. ASSUME NEW h \in Fact, NEW k, Leq(f, h), IsInterf(k, nc), BelowAt(g, k, nc, s)
      PROVE  Leq(Read(f, g), Read(h, k))
  <2>1. Found(f, s, g, nc) \subseteq Found(h, s, k, nc)
    BY <1>3, FoundGrows
  <2>2. QED BY <1>3, <2>1, AssignIntervalMonotone
<1>4. ASSUME NEW m \in Gamma(f), NEW x \in Readable(m, s, g, nc)
      PROVE  /\ x \in Lo .. Hi
             /\ [[m EXCEPT ![i.ptr] = x] EXCEPT ![i.to] = x] \in Gamma(Assign(Read(f, g), i.to, Reg(i.ptr)))
  <2> DEFINE n == [m EXCEPT ![i.ptr] = x]
  <2>1. x \in Found(f, s, g, nc) /\ x \in Lo .. Hi
    BY ReadableFound
  <2>2. n \in Gamma(Read(f, g))
    BY <2>1, AssignIntervalSound
  <2>3. Value(n, Reg(i.ptr)) = x
    BY DEF Value, Reg, IsConst, Gamma, State
  <2> HIDE DEF n, Read
  <2>4. [n EXCEPT ![i.to] = Value(n, Reg(i.ptr))] \in Gamma(Assign(Read(f, g), i.to, Reg(i.ptr)))
    BY <1>2, <2>2, RegIsOperand, AssignIs
  <2>5. QED BY <2>1, <2>3, <2>4 DEF n
<1>5. PerformLoad(f, s, g, nc)[i.to] = PerformLoad(f, s, g, nc)[i.ptr]
  <2> DEFINE q == Read(f, g)
  <2>1. q \in Fact
    BY <1>2
  <2> HIDE DEF q
  <2>2. ValuesOf(q, Reg(i.ptr)) = q[i.ptr]
    BY DEF ValuesOf, Reg, IsConst
  <2>3. CASE q = Bottom
    <3>1. PerformLoad(f, s, g, nc) = Bottom
      BY <1>1, <2>3 DEF Assign, AssignInterval, IsBottom, q
    <3>2. QED BY <3>1 DEF Bottom
  <2>4. CASE q # Bottom
    <3>1. q = [v \in Var |-> q[v]]
      BY <2>1, FactIs
    <3>2. PerformLoad(f, s, g, nc) = [q EXCEPT ![i.to] = q[i.ptr]]
      BY <1>1, <2>2, <2>4 DEF Assign, AssignInterval, IsBottom, q
    <3>3. QED BY <3>1, <3>2
  <2>5. QED BY <2>3, <2>4
<1> HIDE DEF Read
<1>6. PerformLoad(f, s, g, nc) \in Fact
  BY <1>1, <1>2, RegIsOperand, AssignIs
<1>7. ASSUME NEW h \in Fact, NEW k, Leq(f, h), IsInterf(k, nc), BelowAt(g, k, nc, s)
      PROVE  Leq(PerformLoad(f, s, g, nc), PerformLoad(h, s, k, nc))
  <2>1. Read(f, g) \in Fact /\ Read(h, k) \in Fact /\ Leq(Read(f, g), Read(h, k))
    BY <1>2, <1>3, <1>7
  <2>2. Leq(Assign(Read(f, g), i.to, Reg(i.ptr)), Assign(Read(h, k), i.to, Reg(i.ptr)))
    BY <2>1, RegIsOperand, AssignIs
  <2>3. QED BY <1>1, <2>2
<1>8. QED BY <1>1, <1>4, <1>5, <1>6, <1>7

LEMMA PerformAtomicRMWIs ==
  ASSUME NEW f \in Fact, NEW s, InstrAt(s).to \in Var, InstrAt(s).ptr \in Var, InstrAt(s).val \in Operand,
         InstrAt(s).to # InstrAt(s).ptr, InstrAt(s).val \notin {Reg(InstrAt(s).to), Reg(InstrAt(s).ptr)},
         NEW nc \in BOOLEAN, NEW g, IsInterf(g, nc)
  PROVE  /\ PerformAtomicRMW(f, s, g, nc) \in Fact
         /\ \A h \in Fact : \A k : Leq(f, h) /\ IsInterf(k, nc) /\ BelowAt(g, k, nc, s) =>
              Leq(PerformAtomicRMW(f, s, g, nc), PerformAtomicRMW(h, s, k, nc))
         /\ \A m \in Gamma(f) : \A x \in Readable(m, s, g, nc) : InRange(x + Value(m, InstrAt(s).val)) =>
              [m EXCEPT ![InstrAt(s).ptr] = x + Value(m, InstrAt(s).val), ![InstrAt(s).to] = x]
                \in Gamma(PerformAtomicRMW(f, s, g, nc))
<1> DEFINE i == InstrAt(s)
           old == Reg(i.to)
           Ret(h, k) == PerformLoad(h, s, k, nc)
<1>1. ASSUME NEW h \in Fact, NEW k, IsInterf(k, nc)
      PROVE  /\ Ret(h, k) \in Fact
             /\ PerformAtomicRMW(h, s, k, nc) = AddFact(Ret(h, k), i.ptr, old, i.val)
  <2>1. Ret(h, k) \in Fact /\ Ret(h, k)[i.to] = Ret(h, k)[i.ptr]
    BY <1>1, PerformLoadIs
  <2> HIDE DEF Ret
  <2>2. ValuesOf(Ret(h, k), Reg(i.to)) = ValuesOf(Ret(h, k), Reg(i.ptr))
    BY <2>1 DEF ValuesOf, Reg, IsConst
  <2>3. AddFact(Ret(h, k), i.ptr, Reg(i.ptr), i.val) = AddFact(Ret(h, k), i.ptr, old, i.val)
    BY <2>2 DEF AddFact
  <2>4. QED BY <2>1, <2>3 DEF PerformAtomicRMW, Ret
<1>2. old \in Operand
  BY RegIsOperand
<1>3. ASSUME NEW m \in Gamma(f), NEW x \in Readable(m, s, g, nc), InRange(x + Value(m, i.val))
      PROVE  [m EXCEPT ![i.ptr] = x + Value(m, i.val), ![i.to] = x] \in Gamma(AddFact(Ret(f, g), i.ptr, old, i.val))
  <2> DEFINE n == [m EXCEPT ![i.ptr] = x, ![i.to] = x]
  <2>1. n \in Gamma(Ret(f, g))
    BY PerformLoadIs
  <2>2. m \in [Var -> Lo .. Hi]
    BY DEF Gamma, State
  <2>3. Value(n, old) = x
    BY <2>2 DEF Value, Reg, IsConst
  <2>4. Value(n, i.val) = Value(m, i.val)
    <3>1. CASE i.val \in [reg : Var]
      <4>1. i.val = [reg |-> i.val.reg] /\ i.val.reg \in Var
        BY <3>1
      <4>2. i.val.reg # i.to /\ i.val.reg # i.ptr
        BY <4>1 DEF Reg
      <4>3. n[i.val.reg] = m[i.val.reg]
        BY <2>2, <4>1, <4>2
      <4>4. ~ IsConst(i.val)
        BY <3>1 DEF IsConst
      <4>5. QED BY <4>3, <4>4 DEF Value
    <3>2. CASE i.val \in [cst : Lo .. Hi]
      BY <3>2 DEF Value, IsConst
    <3>3. QED BY <3>1, <3>2 DEF Operand
  <2>5. x + Value(m, i.val) \in Lo .. Hi
    BY <1>3 DEF InRange
  <2>6. [n EXCEPT ![i.ptr] = x + Value(m, i.val)] = [m EXCEPT ![i.ptr] = x + Value(m, i.val), ![i.to] = x]
    BY <2>2
  <2> HIDE DEF n, Ret, old
  <2>7. [n EXCEPT ![i.ptr] = Value(n, old) + Value(n, i.val)] \in Gamma(AddFact(Ret(f, g), i.ptr, old, i.val))
    BY <1>1, <1>2, <2>1, <2>3, <2>4, <2>5, AddFactIs
  <2>8. QED BY <2>3, <2>4, <2>6, <2>7
<1>4. ASSUME NEW h \in Fact, NEW k, Leq(f, h), IsInterf(k, nc), BelowAt(g, k, nc, s)
      PROVE  Leq(PerformAtomicRMW(f, s, g, nc), PerformAtomicRMW(h, s, k, nc))
  <2>1. Leq(Ret(f, g), Ret(h, k))
    BY <1>4, PerformLoadIs
  <2> HIDE DEF Ret, old
  <2>2. QED BY <1>1, <1>2, <1>4, <2>1, AddFactIs
<1> HIDE DEF Ret, old
<1>5. QED BY <1>1, <1>2, <1>3, <1>4, AddFactIs

-----------------------------------------------------------------------------
(* Branches. *)

LEMMA ConvexIsInterval ==
  ASSUME NEW S \in SUBSET (Lo .. Hi), S # {},
         \A u, v \in S : \A w \in Lo .. Hi : u <= w /\ w <= v => w \in S
  PROVE  S \in Interval
<1>1. /\ Min2(S) \in S /\ \A y \in S : Min2(S) <= y
      /\ Max2(S) \in S /\ \A y \in S : y <= Max2(S)
  BY Min2Is, Max2Is
<1>2. Min2(S) \in Lo .. Hi /\ Max2(S) \in Lo .. Hi /\ Min2(S) <= Max2(S)
  BY <1>1
<1>3. \A w \in Min2(S) .. Max2(S) : w \in Lo .. Hi /\ Min2(S) <= w /\ w <= Max2(S)
  BY <1>2, RangeAssumption
<1>4. \A w \in Min2(S) .. Max2(S) : w \in S
  BY <1>1, <1>3
<1>5. \A w \in S : w \in Min2(S) .. Max2(S)
  BY <1>1, RangeAssumption
<1>6. S = Min2(S) .. Max2(S)
  BY <1>4, <1>5
<1>7. QED BY <1>2, <1>6, IntervalFrom

(* What a comparison leaves of either operand. *)
KeptLeft(X, pred, Y) == {x \in X : \E y \in Y : Compare(pred, x, y)}

KeptRight(X, pred, Y) == {y \in Y : \E x \in X : Compare(pred, x, y)}

LEMMA KeptIsInterval ==
  ASSUME NEW X \in Interval, NEW Y \in Interval, NEW pred \in Predicate \ {"ne"}, KeptLeft(X, pred, Y) # {}
  PROVE  KeptLeft(X, pred, Y) \in Interval /\ KeptRight(X, pred, Y) \in Interval
<1>1. PICK i, j, k, l \in Lo .. Hi : X = i .. j /\ Y = k .. l
  BY IntervalIs
<1>2. X \in SUBSET (Lo .. Hi) /\ Y \in SUBSET (Lo .. Hi)
  BY IntervalIs
<1>3. \A u, v \in X : \A w \in Lo .. Hi : u <= w /\ w <= v => w \in X
  BY <1>1, RangeAssumption
<1>4. \A u, v \in Y : \A w \in Lo .. Hi : u <= w /\ w <= v => w \in Y
  BY <1>1, RangeAssumption
<1>5. KeptLeft(X, pred, Y) \in Interval
  <2> DEFINE K == KeptLeft(X, pred, Y)
  <2>1. K \in SUBSET (Lo .. Hi)
    BY <1>2 DEF KeptLeft
  <2>2. ASSUME NEW u \in K, NEW v \in K, NEW w \in Lo .. Hi, u <= w, w <= v PROVE w \in K
    <3>1. u \in X /\ v \in X /\ w \in X
      BY <1>3, <2>2 DEF KeptLeft
    <3>2. PICK y, z \in Y : Compare(pred, u, y) /\ Compare(pred, v, z)
      BY DEF KeptLeft
    <3>3. u \in Int /\ v \in Int /\ w \in Int /\ y \in Int /\ z \in Int
      BY <1>2, <3>1, RangeAssumption
    <3>4. \E t \in Y : Compare(pred, w, t)
      <4>1. CASE pred \in {"sgt", "sge"}
        BY <2>2, <3>2, <3>3, <4>1 DEF Compare
      <4>2. CASE pred \in {"slt", "sle"}
        BY <2>2, <3>2, <3>3, <4>2 DEF Compare
      <4>3. CASE pred = "eq"
        <5>1. u = y /\ v = z
          BY <3>2, <4>3 DEF Compare
        <5>2. w \in Y
          BY <1>4, <2>2, <5>1
        <5>3. QED BY <4>3, <5>2 DEF Compare
      <4>4. QED BY <4>1, <4>2, <4>3 DEF Predicate
    <3>5. QED BY <3>1, <3>4 DEF KeptLeft
  <2> HIDE DEF K
  <2>3. K # {} => K \in Interval
    BY <2>1, <2>2, ConvexIsInterval
  <2>4. QED BY <2>3 DEF K
<1>6. KeptRight(X, pred, Y) \in Interval
  <2> DEFINE K == KeptRight(X, pred, Y)
  <2>1. K \in SUBSET (Lo .. Hi) /\ K # {}
    BY <1>2 DEF KeptLeft, KeptRight
  <2>2. ASSUME NEW u \in K, NEW v \in K, NEW w \in Lo .. Hi, u <= w, w <= v PROVE w \in K
    <3>1. u \in Y /\ v \in Y /\ w \in Y
      BY <1>4, <2>2 DEF KeptRight
    <3>2. PICK y, z \in X : Compare(pred, y, u) /\ Compare(pred, z, v)
      BY DEF KeptRight
    <3>3. u \in Int /\ v \in Int /\ w \in Int /\ y \in Int /\ z \in Int
      BY <1>2, <3>1, RangeAssumption
    <3>4. \E t \in X : Compare(pred, t, w)
      <4>1. CASE pred \in {"sgt", "sge"}
        BY <2>2, <3>2, <3>3, <4>1 DEF Compare
      <4>2. CASE pred \in {"slt", "sle"}
        BY <2>2, <3>2, <3>3, <4>2 DEF Compare
      <4>3. CASE pred = "eq"
        <5>1. u = y /\ v = z
          BY <3>2, <4>3 DEF Compare
        <5>2. w \in X
          BY <1>3, <2>2, <5>1
        <5>3. QED BY <4>3, <5>2 DEF Compare
      <4>4. QED BY <4>1, <4>2, <4>3 DEF Predicate
    <3>5. QED BY <3>1, <3>4 DEF KeptRight
  <2> HIDE DEF K
  <2>3. K \in Interval
    BY <2>1, <2>2, ConvexIsInterval
  <2>4. QED BY <2>3 DEF K
<1>7. QED BY <1>5, <1>6

LEMMA MeetCompareIs ==
  ASSUME NEW f \in Fact, NEW pred \in Predicate, NEW a \in Operand, NEW b \in Operand
  PROVE  /\ MeetCompare(f, pred, a, b) \in Fact
         /\ \A g \in Fact : Leq(f, g) => Leq(MeetCompare(f, pred, a, b), MeetCompare(g, pred, a, b))
         /\ \A m \in Gamma(f) : Compare(pred, Value(m, a), Value(m, b)) => m \in Gamma(MeetCompare(f, pred, a, b))
<1> DEFINE L(h) == KeptLeft(ValuesOf(h, a), pred, ValuesOf(h, b))
           R(h) == KeptRight(ValuesOf(h, a), pred, ValuesOf(h, b))
           Tight(h) == [v \in Var |-> IF Reg(v) = a THEN L(h) ELSE IF Reg(v) = b THEN R(h) ELSE h[v]]
<1>1. \A h : MeetCompare(h, pred, a, b) =
               IF L(h) = {} THEN Bottom ELSE IF pred = "ne" THEN h ELSE Normal(Tight(h))
  BY DEF MeetCompare, KeptLeft, KeptRight
<1>2. ASSUME NEW h \in Fact, h # Bottom, L(h) # {}, pred # "ne"
      PROVE  Normal(Tight(h)) = Tight(h) /\ Tight(h) \in [Var -> Interval]
  <2>1. L(h) \in Interval /\ R(h) \in Interval
    BY <1>2, OperandIs, KeptIsInterval
  <2> HIDE DEF L, R
  <2>2. Tight(h) \in [Var -> Interval]
    BY <1>2, <2>1, FactIs
  <2> HIDE DEF Tight
  <2>3. \A v \in Var : Tight(h)[v] # {}
    BY <2>2, IntervalIs
  <2>4. QED BY <2>2, <2>3 DEF Normal
<1>3. MeetCompare(Bottom, pred, a, b) = Bottom
  <2>1. CASE a \in [reg : Var] \/ b \in [reg : Var]
    <3>1. ValuesOf(Bottom, a) = {} \/ ValuesOf(Bottom, b) = {}
      BY <2>1 DEF ValuesOf, IsConst, Bottom
    <3>2. L(Bottom) = {}
      BY <3>1 DEF KeptLeft
    <3>3. QED BY <1>1, <3>2
  <2>2. CASE a \in [cst : Lo .. Hi] /\ b \in [cst : Lo .. Hi]
    <3>1. \A v : Reg(v) # a /\ Reg(v) # b
      BY <2>2 DEF Reg
    <3>2. Tight(Bottom) = Bottom
      BY <3>1 DEF Bottom
    <3>3. QED BY <1>1, <3>2 DEF Normal
  <2>3. QED BY <2>1, <2>2 DEF Operand
<1> HIDE DEF Tight
<1>4. MeetCompare(f, pred, a, b) \in Fact
  BY <1>1, <1>2, <1>3 DEF Fact
<1>5. ASSUME NEW g \in Fact, Leq(f, g) PROVE Leq(MeetCompare(f, pred, a, b), MeetCompare(g, pred, a, b))
  <2>1. CASE f = Bottom \/ L(f) = {}
    <3>1. MeetCompare(f, pred, a, b) = Bottom
      BY <1>1, <1>3, <2>1
    <3>2. QED BY <3>1 DEF Leq, Bottom
  <2>2. ASSUME f # Bottom, L(f) # {}, NEW v \in Var
        PROVE  MeetCompare(f, pred, a, b)[v] \subseteq MeetCompare(g, pred, a, b)[v]
    <3>1. g # Bottom /\ f[v] \subseteq g[v]
      BY <1>5, <2>2, AboveNotBottom DEF Leq
    <3>2. L(f) \subseteq L(g) /\ R(f) \subseteq R(g)
      BY <1>5, OperandGrows DEF KeptLeft, KeptRight
    <3>3. L(g) # {}
      BY <2>2, <3>2
    <3> HIDE DEF L, R
    <3>4. CASE pred = "ne"
      BY <1>1, <2>2, <3>1, <3>3, <3>4
    <3>5. CASE pred # "ne"
      <4>1. /\ MeetCompare(f, pred, a, b) = Tight(f)
            /\ MeetCompare(g, pred, a, b) = Tight(g)
        BY <1>1, <1>2, <2>2, <3>1, <3>3, <3>5
      <4>2. Tight(f)[v] \subseteq Tight(g)[v]
        BY <3>1, <3>2 DEF Tight
      <4>3. QED BY <4>1, <4>2
    <3>6. QED BY <3>4, <3>5
  <2>3. QED BY <2>1, <2>2 DEF Leq
<1>6. ASSUME NEW m \in Gamma(f), Compare(pred, Value(m, a), Value(m, b))
      PROVE  m \in Gamma(MeetCompare(f, pred, a, b))
  <2>1. Value(m, a) \in ValuesOf(f, a) /\ Value(m, b) \in ValuesOf(f, b)
    BY OperandIs
  <2>2. Value(m, a) \in L(f) /\ Value(m, b) \in R(f)
    BY <1>6, <2>1 DEF KeptLeft, KeptRight
  <2>3. m \in State /\ \A v \in Var : m[v] \in f[v]
    BY DEF Gamma
  <2>4. \A v \in Var : Value(m, Reg(v)) = m[v]
    BY DEF Value, Reg, IsConst
  <2> HIDE DEF L, R
  <2>5. \A v \in Var : m[v] \in Tight(f)[v]
    BY <2>2, <2>3, <2>4 DEF Tight
  <2>6. CASE f = Bottom
    BY <1>3, <2>6
  <2>7. CASE pred = "ne"
    BY <1>1, <2>2, <2>7
  <2>8. CASE f # Bottom /\ pred # "ne"
    <3>1. MeetCompare(f, pred, a, b) = Tight(f)
      BY <1>1, <1>2, <2>2, <2>8
    <3>2. QED BY <2>3, <2>5, <3>1 DEF Gamma
  <2>9. QED BY <2>6, <2>7, <2>8
<1>7. QED BY <1>4, <1>5, <1>6

LEMMA NegatedIs ==
  ASSUME NEW pred \in Predicate
  PROVE  /\ Negated[pred] \in Predicate
         /\ \A x, y \in Int : ~ Compare(pred, x, y) => Compare(Negated[pred], x, y)
<1>1. CASE pred = "eq"
  BY <1>1 DEF Negated, Predicate, Compare
<1>2. CASE pred = "ne"
  BY <1>2 DEF Negated, Predicate, Compare
<1>3. CASE pred = "sgt"
  BY <1>3 DEF Negated, Predicate, Compare
<1>4. CASE pred = "sge"
  BY <1>4 DEF Negated, Predicate, Compare
<1>5. CASE pred = "slt"
  BY <1>5 DEF Negated, Predicate, Compare
<1>6. CASE pred = "sle"
  BY <1>6 DEF Negated, Predicate, Compare
<1>7. QED BY <1>1, <1>2, <1>3, <1>4, <1>5, <1>6 DEF Predicate

LEMMA ConstrainBoolIs ==
  ASSUME NEW f \in Fact, NEW v \in Var, NEW tf \in BOOLEAN
  PROVE  /\ ConstrainBool(f, v, tf) \in Fact
         /\ \A g \in Fact : Leq(f, g) => Leq(ConstrainBool(f, v, tf), ConstrainBool(g, v, tf))
         /\ \A m \in Gamma(f) : m[v] = Truth(tf) => m \in Gamma(ConstrainBool(f, v, tf))
<1> DEFINE n == IF tf THEN 1 ELSE 0
<1>1. n \in Lo .. Hi /\ n = Truth(tf)
  BY RangeAssumption DEF Truth
<1>2. Reg(v) \in Operand /\ Cst(n) \in Operand
  BY <1>1, RegIsOperand, CstIsOperand
<1>3. \A h : ConstrainBool(h, v, tf) = MeetCompare(h, "eq", Reg(v), Cst(n))
  BY DEF ConstrainBool, MeetEq
<1>4. \A m : Value(m, Reg(v)) = m[v] /\ Value(m, Cst(n)) = n
  BY DEF Value, Reg, Cst, IsConst
<1>5. "eq" \in Predicate /\ \A x, y : x = y => Compare("eq", x, y)
  BY DEF Predicate, Compare
<1> HIDE DEF n
<1>6. QED BY <1>1, <1>2, <1>3, <1>4, <1>5, MeetCompareIs

LEMMA AsSignedIs ==
  /\ \A p \in Predicate \cup DOMAIN Unsigned : AsSigned(p) \in Predicate
  /\ \A p \in Predicate : p \notin DOMAIN Unsigned /\ AsSigned(p) = p
<1>1. DOMAIN Unsigned = {"ugt", "uge", "ult", "ule"}
  BY DEF Unsigned
<1>2. \A p \in DOMAIN Unsigned : Unsigned[p] \in Predicate
  BY <1>1 DEF Unsigned, Predicate
<1>3. \A p \in Predicate : p \notin DOMAIN Unsigned
  BY <1>1 DEF Predicate
<1>4. QED BY <1>2, <1>3 DEF AsSigned

(* The outcome of a comparison that is current constrains its operands.     *)
LEMMA ConstrainICmpIs ==
  ASSUME NEW f \in Fact, NEW to \in Var, NEW pred \in Predicate \cup DOMAIN Unsigned, NEW a \in Operand, NEW b \in Operand,
         NEW tf \in BOOLEAN
  PROVE  /\ ConstrainICmp(f, to, pred, a, b, tf) \in Fact
         /\ \A g \in Fact : Leq(f, g) =>
              Leq(ConstrainICmp(f, to, pred, a, b, tf), ConstrainICmp(g, to, pred, a, b, tf))
         /\ \A m \in Gamma(f) : m[to] = Truth(tf) /\ m[to] = Truth(Compare(AsSigned(pred), Value(m, a), Value(m, b))) =>
              m \in Gamma(ConstrainICmp(f, to, pred, a, b, tf))
<1> DEFINE p == AsSigned(pred)
           q == IF tf THEN p ELSE Negated[p]
<1>1. p \in Predicate /\ q \in Predicate
  BY AsSignedIs, NegatedIs
<1>2. \A h : ConstrainICmp(h, to, pred, a, b, tf) = ConstrainBool(MeetCompare(h, q, a, b), to, tf)
  BY DEF ConstrainICmp
<1>3. ASSUME NEW m \in Gamma(f), m[to] = Truth(tf), m[to] = Truth(Compare(AsSigned(pred), Value(m, a), Value(m, b)))
      PROVE  Compare(q, Value(m, a), Value(m, b))
  <2>1. Value(m, a) \in Int /\ Value(m, b) \in Int
    BY OperandIs, RangeAssumption
  <2>2. Compare(p, Value(m, a), Value(m, b)) <=> tf
    BY <1>3 DEF Truth
  <2> HIDE DEF p
  <2>3. QED BY <1>1, <2>1, <2>2, NegatedIs
<1> HIDE DEF p, q
<1>4. QED BY <1>1, <1>2, <1>3, MeetCompareIs, ConstrainBoolIs

-----------------------------------------------------------------------------
(* The transfer function of an instruction and its outcomes. *)

LEMMA InstrIs ==
  ASSUME NEW s \in Site
  PROVE  s[1] \in Block /\ s[2] \in DOMAIN Prog[s[1]].body /\ IsInstruction(InstrAt(s))
<1>1. PICK b \in Block : s \in {<<b, k>> : k \in DOMAIN Prog[b].body}
  BY DEF Site
<1>2. PICK k \in DOMAIN Prog[b].body : s = <<b, k>>
  BY <1>1
<1>3. QED BY <1>2, CodeAssumption DEF InstrAt

LEMMA FieldsAre ==
  ASSUME NEW i, IsInstruction(i)
  PROVE  /\ i.op \in {"store", "load", "rmw", "add", "mul", "xor", "intxor", "icmp", "cast", "phi",
                      "alloca", "fence", "create", "join", "assert_fail"}
         /\ i.op \in {"store", "load", "rmw"} => i.ptr \in Var
         /\ i.op \in {"load", "rmw", "add", "mul", "xor", "intxor", "icmp", "cast", "phi"} => i.to \in Var
         /\ i.op \in {"store", "rmw", "cast"} => i.val \in Operand
         /\ i.op = "rmw" => i.to # i.ptr /\ i.val \notin {Reg(i.to), Reg(i.ptr)}
         /\ i.op \in {"add", "mul", "intxor", "icmp"} => i.a \in Operand /\ i.b \in Operand
         /\ i.op = "xor" => i.a \in BitOperand /\ i.b \in BitOperand
         /\ i.op = "icmp" => i.pred \in Predicate \cup DOMAIN Unsigned
         /\ i.op = "cast" => i.via \in {"trunc", "zext", "sext", "same"}
         /\ i.op = "phi" => /\ DOMAIN i.operands # {}
                            /\ \A p \in DOMAIN i.operands : PhiOperand(i.operands[p])
<1> USE DEF IsInstruction
<1>1. CASE i \in [op : {"store"}, ptr : Var, val : Operand]
  BY <1>1
<1>2. CASE i \in [op : {"load"}, to : Var, ptr : Var]
  BY <1>2
<1>3. CASE /\ i \in [op : {"rmw"}, to : Var, ptr : Var, val : Operand]
           /\ i.to # i.ptr /\ i.val \notin {Reg(i.to), Reg(i.ptr)}
  BY <1>3
<1>4. CASE i \in [op : {"add", "mul"}, to : Var, a : Operand, b : Operand]
  BY <1>4
<1>5. CASE i \in [op : {"xor"}, to : Var, a : BitOperand, b : BitOperand]
  BY <1>5
<1>6. CASE i \in [op : {"icmp"}, to : Var, pred : Predicate \cup DOMAIN Unsigned, a : Operand, b : Operand]
  BY <1>6
<1>7. CASE i \in [op : {"cast"}, to : Var, val : Operand, via : {"trunc", "zext", "sext", "same"},
             from : Nat \ {0}, into : Nat \ {0}]
  BY <1>7
<1>8. CASE /\ i.op = "phi" /\ i.to \in Var /\ DOMAIN i.operands # {}
           /\ \A p \in DOMAIN i.operands : PhiOperand(i.operands[p])
  BY <1>8
<1>9. CASE i.op \in {"alloca", "fence", "create", "join", "assert_fail"}
  BY <1>9
<1>10. CASE i \in [op : {"intxor"}, to : Var, a : Operand, b : Operand]
  BY <1>10
<1>11. QED BY <1>10, <1>1, <1>2, <1>3, <1>4, <1>5, <1>6, <1>7, <1>8, <1>9

LEMMA TransferIs ==
  ASSUME NEW s \in Site, NEW f \in Fact, NEW nc \in BOOLEAN, NEW g, IsInterf(g, nc)
  PROVE  /\ Transfer(f, s, g, nc) \in Fact
         /\ \A h \in Fact : \A k : Leq(f, h) /\ IsInterf(k, nc) /\ BelowAt(g, k, nc, s) =>
              Leq(Transfer(f, s, g, nc), Transfer(h, s, k, nc))
<1> DEFINE i == InstrAt(s)
<1>1. IsInstruction(i)
  BY InstrIs
<1>2. CASE i.op = "store"
  <2>1. i.ptr \in Var /\ i.val \in Operand
    BY <1>1, <1>2, FieldsAre
  <2>2. \A h, k : Transfer(h, s, k, nc) = Assign(h, i.ptr, i.val)
    BY <1>2 DEF Transfer, PerformStore
  <2>3. QED BY <2>1, <2>2, AssignIs
<1>3. CASE i.op = "load"
  <2>1. i.ptr \in Var /\ i.to \in Var
    BY <1>1, <1>3, FieldsAre
  <2>2. \A h, k : Transfer(h, s, k, nc) = PerformLoad(h, s, k, nc)
    BY <1>3 DEF Transfer
  <2>3. QED BY <2>1, <2>2, PerformLoadIs
<1>4. CASE i.op = "rmw"
  <2>1. i.ptr \in Var /\ i.to \in Var /\ i.val \in Operand /\ i.to # i.ptr /\ i.val \notin {Reg(i.to), Reg(i.ptr)}
    BY <1>1, <1>4, FieldsAre
  <2>2. \A h, k : Transfer(h, s, k, nc) = PerformAtomicRMW(h, s, k, nc)
    BY <1>4 DEF Transfer
  <2>3. QED BY <2>1, <2>2, PerformAtomicRMWIs
<1>5. CASE i.op \in {"add", "mul"}
  <2>1. i.to \in Var /\ i.a \in Operand /\ i.b \in Operand
    BY <1>1, <1>5, FieldsAre
  <2>2. \A h, k : Transfer(h, s, k, nc) = PerformBinOpMod(h, i)
    BY <1>5 DEF Transfer
  <2>3. QED BY <1>5, <2>1, <2>2, PerformBinOpModIs
<1>6. CASE i.op = "xor"
  <2>1. i.to \in Var /\ i.a \in BitOperand /\ i.b \in BitOperand
    BY <1>1, <1>6, FieldsAre
  <2>2. \A h, k : Transfer(h, s, k, nc) = PerformXor(h, i)
    BY <1>6 DEF Transfer
  <2>3. QED BY <2>1, <2>2, PerformXorIs
<1>7. CASE i.op = "icmp"
  <2>1. i.to \in Var /\ i.a \in Operand /\ i.b \in Operand
    BY <1>1, <1>7, FieldsAre
  <2>2. \A h, k : Transfer(h, s, k, nc) = ICmp(h, i.to, i.pred, i.a, i.b)
    BY <1>7 DEF Transfer, PerformAssignCmp
  <2>3. QED BY <2>1, <2>2, ICmpIs
<1>8. CASE i.op = "cast"
  <2>1. i.to \in Var /\ i.val \in Operand
    BY <1>1, <1>8, FieldsAre
  <2>2. \A h, k : Transfer(h, s, k, nc) = Assign(h, i.to, i.val)
    BY <1>8 DEF Transfer, PerformCast
  <2>3. QED BY <2>1, <2>2, AssignIs
<1>9. CASE i.op = "phi"
  <2>1. /\ i.to \in Var /\ DOMAIN i.operands # {}
        /\ \A p \in DOMAIN i.operands : PhiOperand(i.operands[p])
    BY <1>1, <1>9, FieldsAre
  <2>2. \A h, k : Transfer(h, s, k, nc) = PerformPhi(h, i)
    BY <1>9 DEF Transfer
  <2>3. QED BY <2>1, <2>2, PerformPhiIs
<1>10. CASE i.op \in {"alloca", "fence", "create", "join", "assert_fail"}
  <2>1. \A h, k : Transfer(h, s, k, nc) = h
    BY <1>10 DEF Transfer
  <2>2. QED BY <2>1
<1>11. CASE i.op = "intxor"
  <2>1. i.to \in Var /\ Cst(0) \in Operand
    BY <1>1, <1>11, FieldsAre, CstIsOperand, RangeAssumption
  <2>2. \A h, k : Transfer(h, s, k, nc) = Assign(h, i.to, Cst(0))
    BY <1>11 DEF Transfer, PerformIntXor
  <2>3. QED BY <2>1, <2>2, AssignIs
<1>12. QED BY <1>11, <1>1, <1>2, <1>3, <1>4, <1>5, <1>6, <1>7, <1>8, <1>9, <1>10, FieldsAre

(* The environment after an instruction that is handled and does not change *)
(* a number is described by the fact after it.                              *)
LEMMA TransferSound ==
  ASSUME PhiReadRight, NEW s \in Site, NEW f \in Fact, NEW nc \in BOOLEAN, NEW g, IsInterf(g, nc),
         NEW m \in Gamma(f), NEW preds, NEW n \in Outcomes(m, s, preds, g, nc),
         Handled(InstrAt(s)), Exact(m, s, n)
  PROVE  n \in Gamma(Transfer(f, s, g, nc))
<1> DEFINE i == InstrAt(s)
<1>1. IsInstruction(i)
  BY InstrIs
<1>2. CASE i.op = "store"
  <2>1. i.ptr \in Var /\ i.val \in Operand
    BY <1>1, <1>2, FieldsAre
  <2>2. n = [m EXCEPT ![i.ptr] = Value(m, i.val)] /\ Transfer(f, s, g, nc) = Assign(f, i.ptr, i.val)
    BY <1>2 DEF Outcomes, Transfer, PerformStore
  <2>3. QED BY <2>1, <2>2, AssignIs
<1>3. CASE i.op = "load"
  <2>1. i.ptr \in Var /\ i.to \in Var
    BY <1>1, <1>3, FieldsAre
  <2>2. PICK x \in Readable(m, s, g, nc) : n = [m EXCEPT ![i.ptr] = x, ![i.to] = x]
    BY <1>3 DEF Outcomes
  <2>3. Transfer(f, s, g, nc) = PerformLoad(f, s, g, nc)
    BY <1>3 DEF Transfer
  <2>4. QED BY <2>1, <2>2, <2>3, PerformLoadIs
<1>4. CASE i.op = "rmw"
  <2>1. i.ptr \in Var /\ i.to \in Var /\ i.val \in Operand /\ i.to # i.ptr /\ i.val \notin {Reg(i.to), Reg(i.ptr)}
    BY <1>1, <1>4, FieldsAre
  <2>2. PICK x \in Readable(m, s, g, nc) :
          InRange(x + Value(m, i.val)) /\ n = [m EXCEPT ![i.ptr] = x + Value(m, i.val), ![i.to] = x]
    <3>1. PICK x \in Readable(m, s, g, nc) : n = [m EXCEPT ![i.ptr] = Wrapped(x + Value(m, i.val)), ![i.to] = x]
      BY <1>4 DEF Outcomes
    <3>2. n[i.to] = x
      BY <2>1, <3>1 DEF Gamma, State
    <3>3. InRange(x + Value(m, i.val))
      BY <1>4, <3>2 DEF Exact
    <3>4. QED BY <3>1, <3>3 DEF Wrapped
  <2>3. Transfer(f, s, g, nc) = PerformAtomicRMW(f, s, g, nc)
    BY <1>4 DEF Transfer
  <2>4. QED BY <2>1, <2>2, <2>3, PerformAtomicRMWIs
<1>5. CASE i.op \in {"add", "mul"}
  <2>1. i.to \in Var /\ i.a \in Operand /\ i.b \in Operand
    BY <1>1, <1>5, FieldsAre
  <2> DEFINE y == IF i.op = "mul" THEN Value(m, i.a) * Value(m, i.b) ELSE Value(m, i.a) + Value(m, i.b)
  <2>2. InRange(y) /\ n = [m EXCEPT ![i.to] = y]
    <3>1. CASE i.op = "add"
      <4>1. n = [m EXCEPT ![i.to] = Wrapped(Value(m, i.a) + Value(m, i.b))]
        BY <3>1 DEF Outcomes
      <4>2. QED BY <3>1, <4>1 DEF Exact, Wrapped
    <3>2. CASE i.op = "mul"
      <4>1. n = [m EXCEPT ![i.to] = Wrapped(Value(m, i.a) * Value(m, i.b))]
        BY <3>2 DEF Outcomes
      <4>2. QED BY <3>2, <4>1 DEF Exact, Wrapped
    <3>3. QED BY <1>5, <3>1, <3>2
  <2>3. Transfer(f, s, g, nc) = PerformBinOpMod(f, i)
    BY <1>5 DEF Transfer
  <2>4. InRange(y) => [m EXCEPT ![i.to] = y] \in Gamma(PerformBinOpMod(f, i))
    BY <1>5, <2>1, PerformBinOpModIs
  <2>5. QED BY <2>2, <2>3, <2>4
<1>6. CASE i.op = "xor"
  <2>1. i.to \in Var /\ i.a \in BitOperand /\ i.b \in BitOperand
    BY <1>1, <1>6, FieldsAre
  <2>2. n = [m EXCEPT ![i.to] = Truth(Value(m, i.a) # Value(m, i.b))] /\ Transfer(f, s, g, nc) = PerformXor(f, i)
    BY <1>6 DEF Outcomes, Transfer
  <2>3. QED BY <2>1, <2>2, PerformXorIs
<1>7. CASE i.op = "icmp"
  <2>1. i.to \in Var /\ i.a \in Operand /\ i.b \in Operand
    BY <1>1, <1>7, FieldsAre
  <2>2. /\ n = [m EXCEPT ![i.to] = Truth(Holds(i.pred, Value(m, i.a), Value(m, i.b)))]
        /\ Transfer(f, s, g, nc) = ICmp(f, i.to, i.pred, i.a, i.b)
    BY <1>7 DEF Outcomes, Transfer, PerformAssignCmp
  <2>4. \A u, v : Holds(i.pred, u, v) = Compare(i.pred, u, v)
    BY <1>7, AsSignedIs DEF Handled, Holds
  <2>3. QED BY <2>1, <2>2, <2>4, ICmpIs
<1>8. CASE i.op = "cast"
  <2>1. i.to \in Var /\ i.val \in Operand
    BY <1>1, <1>8, FieldsAre
  <2>2. n = [m EXCEPT ![i.to] = Value(m, i.val)] /\ Transfer(f, s, g, nc) = Assign(f, i.to, i.val)
    BY <1>8 DEF Outcomes, Transfer, PerformCast, Exact
  <2>3. QED BY <2>1, <2>2, AssignIs
<1>9. CASE i.op = "phi"
  <2>1. /\ i.to \in Var /\ DOMAIN i.operands # {}
        /\ \A p \in DOMAIN i.operands : PhiOperand(i.operands[p])
    BY <1>1, <1>9, FieldsAre
  <2>2. PICK p \in DOMAIN i.operands : n = [m EXCEPT ![i.to] = Value(m, i.operands[p])]
    BY <1>9 DEF Outcomes
  <2>3. Transfer(f, s, g, nc) = PerformPhi(f, i) /\ i.operands[p] # True
    BY <1>9, <2>2 DEF Transfer, PhiReadRight
  <2>4. QED BY <2>1, <2>2, <2>3, PerformPhiIs
<1>10. CASE i.op \in {"alloca", "fence", "create", "join", "assert_fail"}
  BY <1>10 DEF Outcomes, Transfer
<1>11. CASE i.op = "intxor"
  <2>1. i.to \in Var /\ Cst(0) \in Operand /\ Value(m, Cst(0)) = 0
    BY <1>1, <1>11, FieldsAre, CstIsOperand, RangeAssumption DEF Value, Cst, IsConst
  <2>2. n = [m EXCEPT ![i.to] = 0] /\ Transfer(f, s, g, nc) = Assign(f, i.to, Cst(0))
    BY <1>11 DEF Outcomes, Transfer, PerformIntXor, Handled
  <2>3. QED BY <2>1, <2>2, AssignIs
<1>12. QED BY <1>11, <1>1, <1>2, <1>3, <1>4, <1>5, <1>6, <1>7, <1>8, <1>9, <1>10, FieldsAre

-----------------------------------------------------------------------------
(* What an outcome may be: an environment that differs where the            *)
(* instruction writes; a register that holds bits keeps holding one.        *)

LEMMA TopIs == Top \in Fact /\ Gamma(Top) = State
<1>1. Lo .. Hi \in Interval
  BY RangeAssumption, IntervalFrom
<1>2. QED BY <1>1 DEF Top, Fact, Gamma, State

LEMMA ValueIs ==
  ASSUME NEW m \in State, NEW a \in Operand \cup BitOperand
  PROVE  Value(m, a) \in Lo .. Hi
<1>1. CASE a \in Operand
  BY <1>1, TopIs, OperandIs
<1>2. CASE a \in {False, True}
  <2>1. IsConst(a) /\ "bit" \in DOMAIN a /\ a.bit \in {0, 1}
    BY <1>2 DEF IsConst, False, True
  <2>2. QED BY <2>1, RangeAssumption DEF Value
<1>3. QED BY <1>1, <1>2 DEF Operand, BitOperand

LEMMA OutcomeIs ==
  ASSUME NEW s \in Site, NEW nc \in BOOLEAN, NEW g, IsInterf(g, nc),
         NEW m \in State, NEW preds, NEW n \in Outcomes(m, s, preds, g, nc)
  PROVE  n \in State /\ \A v \in Var : v \notin Written(InstrAt(s)) => n[v] = m[v]
<1> DEFINE i == InstrAt(s)
<1>1. IsInstruction(i)
  BY InstrIs
<1>2. CASE i.op = "store"
  <2>1. i.ptr \in Var /\ i.val \in Operand
    BY <1>1, <1>2, FieldsAre
  <2>2. n = [m EXCEPT ![i.ptr] = Value(m, i.val)] /\ Value(m, i.val) \in Lo .. Hi
    BY <1>2, <2>1, ValueIs DEF Outcomes
  <2>3. QED BY <1>2, <2>1, <2>2 DEF State, Written
<1>3. CASE i.op = "load"
  <2>1. i.ptr \in Var /\ i.to \in Var
    BY <1>1, <1>3, FieldsAre
  <2>2. PICK x \in Readable(m, s, g, nc) : n = [m EXCEPT ![i.ptr] = x, ![i.to] = x]
    BY <1>3 DEF Outcomes
  <2>3. x \in Lo .. Hi
    BY <2>1, TopIs, PerformLoadIs
  <2>4. QED BY <1>3, <2>1, <2>2, <2>3 DEF State, Written
<1>4. CASE i.op = "rmw"
  <2>1. i.ptr \in Var /\ i.to \in Var
    BY <1>1, <1>4, FieldsAre
  <2>2. PICK x \in Readable(m, s, g, nc) :
          /\ Wrapped(x + Value(m, i.val)) \in Lo .. Hi
          /\ n = [m EXCEPT ![i.ptr] = Wrapped(x + Value(m, i.val)), ![i.to] = x]
    BY <1>4 DEF Outcomes
  <2>3. x \in Lo .. Hi
    BY <2>1, <2>2, TopIs, PerformLoadIs
  <2>4. QED BY <1>4, <2>1, <2>2, <2>3 DEF State, Written
<1>5. CASE i.op \in {"add", "mul", "xor", "intxor", "icmp", "cast", "phi"}
  <2>1. i.to \in Var
    BY <1>1, <1>5, FieldsAre
  <2>2. \E x \in Lo .. Hi : n = [m EXCEPT ![i.to] = x]
    <3>1. CASE i.op = "add"
      BY <3>1 DEF Outcomes
    <3>2. CASE i.op = "mul"
      BY <3>2 DEF Outcomes
    <3>3. CASE i.op \in {"xor", "intxor", "icmp"}
      BY <3>3 DEF Outcomes
    <3>4. CASE i.op = "cast"
      BY <3>4 DEF Outcomes
    <3>5. CASE i.op = "phi"
      BY <3>5 DEF Outcomes
    <3>6. QED BY <1>5, <3>1, <3>2, <3>3, <3>4, <3>5
  <2>3. QED BY <1>5, <2>1, <2>2 DEF State, Written
<1>6. CASE i.op \in {"alloca", "fence", "create", "join", "assert_fail"}
  BY <1>6 DEF Outcomes
<1>7. QED BY <1>1, <1>2, <1>3, <1>4, <1>5, <1>6, FieldsAre

LEMMA OutcomeHoldsBits ==
  ASSUME NEW Bits \in SUBSET Var, HoldBits(Bits),
         NEW s \in Site, NEW nc \in BOOLEAN, NEW g, IsInterf(g, nc),
         NEW m \in State, \A v \in Bits : m[v] \in 0 .. 1,
         NEW preds, NEW n \in Outcomes(m, s, preds, g, nc)
  PROVE  \A v \in Bits : n[v] \in 0 .. 1
<1> DEFINE i == InstrAt(s)
<1>1. IsInstruction(i)
  BY InstrIs
<1>2. ASSUME NEW v \in Bits, v \notin Written(i) PROVE n[v] \in 0 .. 1
  BY <1>2, OutcomeIs
<1>3. ASSUME NEW v \in Bits, v \in Written(i) PROVE n[v] \in 0 .. 1
  <2>1. GivesBit(i, Bits)
    BY <1>3 DEF HoldBits
  <2>2. v = i.to /\ v \in Var
    BY <1>3, <2>1 DEF GivesBit, Written
  <2>3. \A p : Truth(p) \in 0 .. 1
    BY DEF Truth
  <2>4. CASE i.op \in {"icmp", "xor"}
    <3>1. \E p : n = [m EXCEPT ![i.to] = Truth(p)]
      BY <2>4 DEF Outcomes
    <3>2. QED BY <2>2, <2>3, <3>1 DEF State
  <2>5. ASSUME NEW a \in [reg : Bits] \cup {False, True} PROVE Value(m, a) \in 0 .. 1
    BY DEF Value, IsConst, False, True
  <2>6. CASE i.op = "phi"
    <3>1. PICK p \in DOMAIN i.operands : n = [m EXCEPT ![i.to] = Value(m, i.operands[p])]
      BY <2>6 DEF Outcomes
    <3>2. i.operands[p] \in [reg : Bits] \cup {False, True}
      BY <2>1, <2>6 DEF GivesBit
    <3>3. QED BY <2>2, <2>5, <3>1, <3>2 DEF State
  <2>7. CASE i.op = "cast"
    <3>1. n = [m EXCEPT ![i.to] = CastTo(i, Value(m, i.val))]
      BY <2>7 DEF Outcomes
    <3>2. CastTo(i, Value(m, i.val)) = Value(m, i.val) % 2
      BY <2>1, <2>7 DEF GivesBit, CastTo
    <3>3. Value(m, i.val) \in Int
      BY <1>1, <2>7, FieldsAre, ValueIs, RangeAssumption
    <3>4. Value(m, i.val) % 2 \in 0 .. 1
      BY <3>3
    <3>5. QED BY <2>2, <3>1, <3>2, <3>4 DEF State
  <2>8. QED BY <2>1, <2>4, <2>6, <2>7 DEF GivesBit
<1>4. QED BY <1>2, <1>3

-----------------------------------------------------------------------------
(* The fact a block hands on. *)

LEMMA TerminatorIs ==
  ASSUME NEW b \in Block
  PROVE  /\ IsTerminator(Prog[b].term)
         /\ \A m : Taken(b, m) \in SuccOf[b] \cup {Exit} /\ (Taken(b, m) # Exit => Taken(b, m) \in Block)
<1> DEFINE t == Prog[b].term
<1>1. IsTerminator(t)
  BY CodeAssumption
<1>2. SuccOf[b] = {t.succ[k] : k \in DOMAIN t.succ}
  BY DEF SuccOf, Range
<1>3. CASE t.kind = "br"
  <2>1. t.succ \in Block \X Block
    BY <1>1, <1>3 DEF IsTerminator
  <2>2. t.succ = <<t.succ[1], t.succ[2]>> /\ t.succ[1] \in Block /\ t.succ[2] \in Block
    BY <2>1
  <2>3. 1 \in DOMAIN t.succ /\ 2 \in DOMAIN t.succ
    BY <2>2
  <2>4. \A m : Taken(b, m) = t.succ[1] \/ Taken(b, m) = t.succ[2]
    BY <1>3 DEF Taken
  <2>5. QED BY <1>1, <1>2, <2>2, <2>3, <2>4
<1>4. CASE t.kind = "goto"
  <2>1. PICK c \in Block : t.succ = <<c>>
    BY <1>1, <1>4 DEF IsTerminator
  <2>2. \A m : Taken(b, m) = c
    BY <1>4, <2>1 DEF Taken
  <2>3. 1 \in DOMAIN t.succ /\ t.succ[1] = c
    BY <2>1
  <2>4. QED BY <1>1, <1>2, <2>2, <2>3
<1>5. CASE t.kind = "ret"
  <2>1. \A m : Taken(b, m) = Exit
    BY <1>5 DEF Taken
  <2>2. QED BY <1>1, <2>1
<1>6. QED BY <1>1, <1>3, <1>4, <1>5 DEF IsTerminator

LEMMA PassToIs ==
  ASSUME NEW b \in Block, NEW t, NEW f \in Fact
  PROVE  /\ PassTo(b, f, t) \in Fact
         /\ \A h \in Fact : Leq(f, h) => Leq(PassTo(b, f, t), PassTo(b, h, t))
<1> DEFINE u == Prog[b].term
           i == InstrAt(u.def)
           tf == t = u.succ[1]
<1>1. IsTerminator(u)
  BY TerminatorIs
<1>2. CASE u.kind = "br"
  <2>1. u.def \in Site /\ u.cond \in Var /\ i.to = u.cond /\ tf \in BOOLEAN
    BY <1>1, <1>2 DEF IsTerminator
  <2>2. IsInstruction(i)
    BY <2>1, InstrIs
  <2>3. CASE i.op = "icmp"
    <3>1. i.a \in Operand /\ i.b \in Operand /\ i.pred \in Predicate \cup DOMAIN Unsigned /\ i.to \in Var
      BY <2>2, <2>3, FieldsAre
    <3>2. \A h : PassTo(b, h, t) = ConstrainICmp(h, i.to, i.pred, i.a, i.b, tf)
      BY <1>2, <2>3 DEF PassTo, ConstrainTF
    <3> HIDE DEF tf, i
    <3>3. QED BY <2>1, <3>1, <3>2, ConstrainICmpIs
  <2>4. CASE i.op # "icmp"
    <3>1. \A h : PassTo(b, h, t) = ConstrainBool(h, u.cond, tf)
      BY <1>2, <2>4 DEF PassTo, ConstrainTF
    <3> HIDE DEF tf, i
    <3>2. QED BY <2>1, <3>1, ConstrainBoolIs
  <2>5. QED BY <2>3, <2>4
<1>3. CASE u.kind # "br"
  BY <1>3 DEF PassTo
<1>4. QED BY <1>2, <1>3

-----------------------------------------------------------------------------
(* The facts in a block. *)

(* Induction over the natural numbers, for a set of them. *)
LEMMA AllNumbers ==
  ASSUME NEW S, 0 \in S, \A k \in Nat : k \in S => k + 1 \in S
  PROVE  \A k \in Nat : k \in S
<1> DEFINE Bad == {k \in Nat : k \notin S}
<1>1. SUFFICES ASSUME Bad # {} PROVE FALSE
  OBVIOUS
<1>2. PICK k \in Bad : \A n \in Bad : k <= n
  BY <1>1, LeastOf
<1>3. k - 1 \in Nat /\ k - 1 \notin Bad /\ (k - 1) + 1 = k
  BY <1>2
<1>4. QED BY <1>3

FactAt(b, f, g, nc, h, k) == IF k = 0 THEN f ELSE Transfer(h[k - 1], <<b, k>>, g, nc)

LEMMA SiteOf ==
  ASSUME NEW b \in Block, NEW k \in 1 .. Len(Prog[b].body)
  PROVE  <<b, k>> \in Site /\ InstrAt(<<b, k>>) = Prog[b].body[k]
<1>1. k \in DOMAIN Prog[b].body
  BY CodeAssumption
<1>2. QED BY <1>1 DEF Site, InstrAt

LEMMA FactsInIs ==
  ASSUME NEW b \in Block, NEW f \in Fact, NEW nc \in BOOLEAN, NEW g, IsInterf(g, nc)
  PROVE  /\ FactsIn(b, f, g, nc)[0] = f
         /\ \A k \in 1 .. Len(Prog[b].body) :
              FactsIn(b, f, g, nc)[k] = Transfer(FactsIn(b, f, g, nc)[k - 1], <<b, k>>, g, nc)
         /\ \A k \in 0 .. Len(Prog[b].body) : FactsIn(b, f, g, nc)[k] \in Fact
<1> DEFINE n == Len(Prog[b].body)
           Right(h, k) == h[k] = FactAt(b, f, g, nc, h, k)
           Upto == {j \in Nat : \E h \in [0 .. n -> Fact] : \A k \in 0 .. n : k <= j => Right(h, k)}
           Body(h) == [k \in 0 .. n |-> IF k = 0 THEN f ELSE Transfer(h[k - 1], <<b, k>>, g, nc)]
<1>1. n \in Nat
  BY CodeAssumption
<1>2. ASSUME NEW h \in [0 .. n -> Fact] PROVE Body(h) \in [0 .. n -> Fact]
  <2>1. ASSUME NEW k \in 0 .. n, k # 0 PROVE Transfer(h[k - 1], <<b, k>>, g, nc) \in Fact
    <3>1. k - 1 \in 0 .. n /\ k \in 1 .. n
      BY <1>1, <2>1
    <3>2. QED BY <3>1, SiteOf, TransferIs
  <2>2. QED BY <2>1
<1>3. 0 \in Upto
  <2>1. [k \in 0 .. n |-> f] \in [0 .. n -> Fact]
    OBVIOUS
  <2>2. \A k \in 0 .. n : k <= 0 => Right([j \in 0 .. n |-> f], k)
    BY DEF FactAt
  <2>3. QED BY <2>1, <2>2
<1>4. ASSUME NEW j \in Nat, j \in Upto PROVE j + 1 \in Upto
  <2>1. PICK h \in [0 .. n -> Fact] : \A k \in 0 .. n : k <= j => Right(h, k)
    BY <1>4
  <2>2. Body(h) \in [0 .. n -> Fact]
    BY <1>2
  <2>3. ASSUME NEW k \in 0 .. n, k <= j + 1 PROVE Right(Body(h), k)
    <3>1. CASE k = 0
      BY <3>1 DEF FactAt
    <3>2. CASE k # 0
      <4>1. k - 1 \in 0 .. n /\ k - 1 <= j
        BY <1>1, <2>3, <3>2
      <4>2. Body(h)[k - 1] = h[k - 1]
        BY <2>1, <4>1 DEF FactAt
      <4>3. QED BY <3>2, <4>2 DEF FactAt
    <3>3. QED BY <3>1, <3>2
  <2> HIDE DEF Body, Right
  <2>4. QED BY <2>2, <2>3
<1>5. PICK h \in [0 .. n -> Fact] : \A k \in 0 .. n : Right(h, k)
  <2>1. n \in Upto
    <3> HIDE DEF Upto
    <3>1. QED BY <1>1, <1>3, <1>4, AllNumbers
  <2>2. QED BY <1>1, <2>1
<1>6. h = Body(h)
  <2>1. \A k \in 0 .. n : h[k] = Body(h)[k]
    BY <1>5 DEF FactAt
  <2>2. QED BY <2>1
<1>7. FactsIn(b, f, g, nc) = CHOOSE a : a = Body(a)
  BY DEF FactsIn, Steps
<1> DEFINE a == FactsIn(b, f, g, nc)
<1>8. a = Body(a)
  <2> HIDE DEF Body
  <2>1. QED BY <1>6, <1>7, Zenon
<1>9. \A k \in 0 .. n : a[k] = IF k = 0 THEN f ELSE Transfer(a[k - 1], <<b, k>>, g, nc)
  <2>1. \A k \in 0 .. n : Body(a)[k] = IF k = 0 THEN f ELSE Transfer(a[k - 1], <<b, k>>, g, nc)
    OBVIOUS
  <2> HIDE DEF Body, a
  <2>2. QED BY <1>8, <2>1, Zenon
<1> HIDE DEF a
<1>10. a[0] = f /\ \A k \in 1 .. n : a[k] = Transfer(a[k - 1], <<b, k>>, g, nc)
  <2>1. 0 \in 0 .. n /\ \A k \in 1 .. n : k \in 0 .. n /\ k # 0
    BY <1>1
  <2> HIDE DEF n
  <2>2. QED BY <1>9, <2>1, Zenon
<1>11. \A k \in 0 .. n : a[k] \in Fact
  <2> DEFINE S == {k \in Nat : k \in 0 .. n => a[k] \in Fact}
  <2>1. 0 \in S
    BY <1>10
  <2>2. ASSUME NEW k \in Nat, k \in S PROVE k + 1 \in S
    <3>1. CASE k + 1 \in 0 .. n
      <4>1. k \in 0 .. n /\ k + 1 \in 1 .. n /\ (k + 1) - 1 = k
        BY <1>1, <3>1
      <4>2. a[k] \in Fact /\ a[k + 1] = Transfer(a[k], <<b, k + 1>>, g, nc)
        BY <1>10, <2>2, <4>1
      <4>3. QED BY <4>1, <4>2, SiteOf, TransferIs
    <3>2. QED BY <3>1
  <2>3. \A k \in Nat : k \in S
    <3> HIDE DEF S
    <3>1. QED BY <2>1, <2>2, AllNumbers
  <2>4. QED BY <1>1, <2>3
<1>12. QED BY <1>10, <1>11 DEF a

(* From a larger fact and larger interferences the facts in a block, those  *)
(* that are recorded and those that are passed on are larger.               *)
LEMMA FactsUptoGrow ==
  ASSUME NEW b \in Block, NEW nc \in BOOLEAN, NEW f \in Fact, NEW g, IsInterf(g, nc),
         NEW h \in Fact, NEW m, IsInterf(m, nc), Leq(f, h),
         NEW n \in 0 .. Len(Prog[b].body), \A k \in 1 .. n : BelowAt(g, m, nc, <<b, k>>)
  PROVE  \A k \in 0 .. n : Leq(FactsIn(b, f, g, nc)[k], FactsIn(b, h, m, nc)[k])
<1> DEFINE size == Len(Prog[b].body)
           x == FactsIn(b, f, g, nc)
           y == FactsIn(b, h, m, nc)
           S == {k \in Nat : k \in 0 .. n => Leq(x[k], y[k])}
<1>1. n \in Nat /\ size \in Nat /\ n <= size
  BY CodeAssumption
<1>2. 0 \in S
  BY FactsInIs
<1>3. ASSUME NEW k \in Nat, k \in S PROVE k + 1 \in S
  <2>1. CASE k + 1 \in 0 .. n
    <3>1. k \in 0 .. n /\ k \in 0 .. size /\ k + 1 \in 1 .. n /\ k + 1 \in 1 .. size /\ (k + 1) - 1 = k
      BY <1>1, <2>1
    <3>2. x[k] \in Fact /\ y[k] \in Fact /\ Leq(x[k], y[k])
      BY <1>3, <3>1, FactsInIs
    <3>3. x[k + 1] = Transfer(x[k], <<b, k + 1>>, g, nc) /\ y[k + 1] = Transfer(y[k], <<b, k + 1>>, m, nc)
      BY <3>1, FactsInIs
    <3>4. <<b, k + 1>> \in Site
      BY <3>1, SiteOf
    <3> HIDE DEF x, y
    <3>5. Leq(Transfer(x[k], <<b, k + 1>>, g, nc), Transfer(y[k], <<b, k + 1>>, m, nc))
      BY <3>1, <3>2, <3>4, TransferIs
    <3>6. QED BY <3>3, <3>5
  <2>2. QED BY <2>1
<1>4. \A k \in Nat : k \in S
  <2> HIDE DEF S
  <2>1. QED BY <1>2, <1>3, AllNumbers
<1>5. QED BY <1>1, <1>4

LEMMA FactsInGrow ==
  ASSUME NEW b \in Block, NEW nc \in BOOLEAN, NEW f \in Fact, NEW g, IsInterf(g, nc),
         NEW h \in Fact, NEW m, IsInterf(m, nc), Leq(f, h), BelowIn(g, m, nc, b)
  PROVE  \A k \in 0 .. Len(Prog[b].body) : Leq(FactsIn(b, f, g, nc)[k], FactsIn(b, h, m, nc)[k])
<1>1. Len(Prog[b].body) \in 0 .. Len(Prog[b].body)
  BY CodeAssumption
<1>2. QED BY <1>1, FactsUptoGrow DEF BelowIn

LEMMA RecordedBlock ==
  ASSUME NEW s \in Recorded
  PROVE  s \in Site /\ s[1] \in Block
<1>1. s \in Site
  BY DEF Recorded, StoreSite, CreateSite, ErrorSite, SitesWith
<1>2. QED BY <1>1, InstrIs

LEMMA RecordedIs ==
  ASSUME NEW s \in Recorded, NEW nc \in BOOLEAN, NEW f \in Fact, NEW g, IsInterf(g, nc)
  PROVE  /\ s \in Site /\ s[1] \in Block
         /\ RecordedAt(s[1], f, s, g, nc) \in Fact
         /\ \A h \in Fact : \A m : Leq(f, h) /\ IsInterf(m, nc) /\ BelowIn(g, m, nc, s[1]) =>
              Leq(RecordedAt(s[1], f, s, g, nc), RecordedAt(s[1], h, s, m, nc))
<1>1. s \in Site
  BY DEF Recorded, StoreSite, CreateSite, ErrorSite, SitesWith
<1> DEFINE k == IF s \in StoreSite THEN s[2] ELSE s[2] - 1
<1>2. s[1] \in Block /\ k \in 0 .. Len(Prog[s[1]].body)
  BY <1>1, InstrIs, CodeAssumption
<1>3. \A h, m : RecordedAt(s[1], h, s, m, nc) = FactsIn(s[1], h, m, nc)[k]
  BY DEF RecordedAt
<1> HIDE DEF k
<1>4. QED BY <1>1, <1>2, <1>3, FactsInIs, FactsInGrow

LEMMA RunTransferFuncsIs ==
  ASSUME NEW b \in Block, NEW t, NEW nc \in BOOLEAN, NEW f \in Fact, NEW g, IsInterf(g, nc)
  PROVE  /\ RunTransferFuncs(b, f, t, g, nc) \in Fact
         /\ \A h \in Fact : \A m : Leq(f, h) /\ IsInterf(m, nc) /\ BelowIn(g, m, nc, b) =>
              Leq(RunTransferFuncs(b, f, t, g, nc), RunTransferFuncs(b, h, t, m, nc))
<1> DEFINE n == Len(Prog[b].body)
<1>1. n \in 0 .. n
  BY CodeAssumption
<1>2. \A h, m : RunTransferFuncs(b, h, t, m, nc) = PassTo(b, FactsIn(b, h, m, nc)[n], t)
  BY DEF RunTransferFuncs
<1>3. \A h \in Fact : \A m : IsInterf(m, nc) => FactsIn(b, h, m, nc)[n] \in Fact
  BY <1>1, FactsInIs
<1>4. \A h \in Fact : \A m : Leq(f, h) /\ IsInterf(m, nc) /\ BelowIn(g, m, nc, b) =>
        Leq(FactsIn(b, f, g, nc)[n], FactsIn(b, h, m, nc)[n])
  BY <1>1, FactsInGrow
<1> HIDE DEF n
<1>5. QED BY <1>2, <1>3, <1>4, PassToIs

-----------------------------------------------------------------------------
(* A branch constrains the fact twice: by its condition, which must be a    *)
(* bit, and by the comparison that computed it, which must still agree with *)
(* the environment.                                                         *)

Agrees(s, m) ==
  LET i == InstrAt(s)
  IN  m[i.to] = Truth(Compare(AsSigned(i.pred), Value(m, i.a), Value(m, i.b)))

LEMMA AgreesOnRegisters ==
  ASSUME NEW s \in Site, InstrAt(s).op = "icmp"
  PROVE  {InstrAt(s).to} \cup Inputs(s) \subseteq Var
<1>1. InstrAt(s).to \in Var /\ InstrAt(s).a \in Operand /\ InstrAt(s).b \in Operand
  BY InstrIs, FieldsAre
<1>2. \A a \in Operand : Registers(a) \subseteq Var
  BY DEF Operand, Registers, IsConst
<1>3. QED BY <1>1, <1>2 DEF Inputs

LEMMA AgreesKept ==
  ASSUME NEW s \in Site, InstrAt(s).op = "icmp", NEW m \in State, NEW n \in State, Agrees(s, m),
         \A v \in {InstrAt(s).to} \cup Inputs(s) : n[v] = m[v]
  PROVE  Agrees(s, n)
<1> DEFINE i == InstrAt(s)
<1>1. i.a \in Operand /\ i.b \in Operand
  BY InstrIs, FieldsAre
<1>2. ASSUME NEW a \in Operand, Registers(a) \subseteq Inputs(s) PROVE Value(n, a) = Value(m, a)
  <2>1. CASE IsConst(a)
    BY <2>1 DEF Value
  <2>2. CASE ~ IsConst(a)
    <3>1. a.reg \in Inputs(s)
      BY <1>2, <2>2 DEF Registers
    <3>2. n[a.reg] = m[a.reg]
      BY <3>1
    <3>3. QED BY <2>2, <3>2 DEF Value
  <2>3. QED BY <2>1, <2>2
<1>3. Value(n, i.a) = Value(m, i.a) /\ Value(n, i.b) = Value(m, i.b)
  BY <1>1, <1>2 DEF Inputs
<1>4. n[i.to] = m[i.to]
  OBVIOUS
<1>5. QED BY <1>3, <1>4 DEF Agrees

LEMMA AgreesMade ==
  ASSUME NEW s \in Site, InstrAt(s).op = "icmp", InstrAt(s).to \notin Inputs(s), NEW m \in State,
         NEW g, NEW nc, NEW preds, NEW n \in Outcomes(m, s, preds, g, nc), Handled(InstrAt(s))
  PROVE  Agrees(s, n)
<1> DEFINE i == InstrAt(s)
<1>1. i.a \in Operand /\ i.b \in Operand /\ i.to \in Var
  BY InstrIs, FieldsAre
<1>2. n = [m EXCEPT ![i.to] = Truth(Compare(AsSigned(i.pred), Value(m, i.a), Value(m, i.b)))]
  <2>1. n = [m EXCEPT ![i.to] = Truth(Holds(i.pred, Value(m, i.a), Value(m, i.b)))]
    BY DEF Outcomes
  <2>2. \A u, v : Holds(i.pred, u, v) = Compare(AsSigned(i.pred), u, v)
    BY AsSignedIs DEF Handled, Holds
  <2>3. QED BY <2>1, <2>2
<1>3. ASSUME NEW a \in Operand, i.to \notin Registers(a) PROVE Value(n, a) = Value(m, a)
  <2>1. CASE IsConst(a)
    BY <2>1 DEF Value
  <2>2. CASE ~ IsConst(a)
    <3>1. a.reg # i.to
      BY <1>3, <2>2 DEF Registers
    <3>2. n[a.reg] = m[a.reg]
      BY <1>2, <3>1 DEF State
    <3>3. QED BY <2>2, <3>2 DEF Value
  <2>3. QED BY <2>1, <2>2
<1>4. Value(n, i.a) = Value(m, i.a) /\ Value(n, i.b) = Value(m, i.b)
  BY <1>1, <1>3 DEF Inputs
<1>5. n[i.to] = Truth(Compare(AsSigned(i.pred), Value(m, i.a), Value(m, i.b)))
  BY <1>1, <1>2 DEF State
<1>6. QED BY <1>4, <1>5 DEF Agrees

LEMMA PassToSound ==
  ASSUME NEW b \in Block, NEW f \in Fact, NEW m \in Gamma(f),
         Prog[b].term.kind = "br" => m[Prog[b].term.cond] \in 0 .. 1,
         Prog[b].term.kind = "br" /\ InstrAt(Prog[b].term.def).op = "icmp" => Agrees(Prog[b].term.def, m)
  PROVE  m \in Gamma(PassTo(b, f, Taken(b, m)))
<1> DEFINE u == Prog[b].term
           i == InstrAt(u.def)
           tf == Taken(b, m) = u.succ[1]
<1>1. IsTerminator(u)
  BY TerminatorIs
<1>2. CASE u.kind = "br"
  <2>1. u.def \in Site /\ u.cond \in Var /\ i.to = u.cond /\ tf \in BOOLEAN /\ u.succ[1] # u.succ[2]
    BY <1>1, <1>2 DEF IsTerminator
  <2>2. m[u.cond] = Truth(tf)
    BY <1>2, <2>1 DEF Taken, Truth
  <2>3. CASE i.op = "icmp"
    <3>1. i.a \in Operand /\ i.b \in Operand /\ i.pred \in Predicate \cup DOMAIN Unsigned /\ i.to \in Var
      BY <2>1, <2>3, InstrIs, FieldsAre
    <3>2. PassTo(b, f, Taken(b, m)) = ConstrainICmp(f, i.to, i.pred, i.a, i.b, tf)
      BY <1>2, <2>3 DEF PassTo, ConstrainTF
    <3>3. m[i.to] = Truth(tf) /\ m[i.to] = Truth(Compare(AsSigned(i.pred), Value(m, i.a), Value(m, i.b)))
      BY <1>2, <2>1, <2>2, <2>3 DEF Agrees
    <3> HIDE DEF tf, i
    <3>4. QED BY <2>1, <3>1, <3>2, <3>3, ConstrainICmpIs
  <2>4. CASE i.op # "icmp"
    <3>1. PassTo(b, f, Taken(b, m)) = ConstrainBool(f, u.cond, tf)
      BY <1>2, <2>4 DEF PassTo, ConstrainTF
    <3> HIDE DEF tf, i
    <3>2. QED BY <2>1, <2>2, <3>1, ConstrainBoolIs
  <2>5. QED BY <2>3, <2>4
<1>3. CASE u.kind # "br"
  BY <1>3 DEF PassTo
<1>4. QED BY <1>2, <1>3

(* Where a comparison is current after an instruction, either it was made   *)
(* there or it was current before and the instruction left it alone.        *)
LEMMA CurrentStep ==
  ASSUME NEW s \in Site, NEW C, NEW b \in Block, NEW k \in 1 .. Len(Prog[b].body),
         CurrentAt(s, C, b, k + 1), s # <<b, k>>
  PROVE  /\ CurrentAt(s, C, b, k)
         /\ Written(Prog[b].body[k]) \cap ({InstrAt(s).to} \cup Inputs(s)) = {}
<1>1. Len(Prog[b].body) \in Nat /\ (k + 1) - 1 = k
  BY CodeAssumption
<1>2. s = <<s[1], s[2]>> /\ s[2] \in Nat
  <2>1. PICK c \in Block : s \in {<<c, j>> : j \in DOMAIN Prog[c].body}
    BY DEF Site
  <2>2. PICK j \in DOMAIN Prog[c].body : s = <<c, j>>
    BY <2>1
  <2>3. j \in Nat
    BY CodeAssumption
  <2>4. QED BY <2>2, <2>3
<1>3. CASE s[1] = b /\ s[2] < k + 1 /\ ~ Disturbs(s, b, (s[2] + 1) .. k)
  <2>1. s[2] < k
    BY <1>1, <1>2, <1>3
  <2>2. k \in (s[2] + 1) .. k /\ (s[2] + 1) .. (k - 1) \subseteq (s[2] + 1) .. k
    BY <1>1, <1>2, <2>1
  <2>3. QED BY <1>3, <2>1, <2>2 DEF CurrentAt, Disturbs
<1>4. CASE b \in C /\ ~ Disturbs(s, b, 1 .. k)
  <2>1. k \in 1 .. k /\ 1 .. (k - 1) \subseteq 1 .. k
    BY <1>1
  <2>2. QED BY <1>4, <2>1 DEF CurrentAt, Disturbs
<1>5. QED BY <1>1, <1>3, <1>4 DEF CurrentAt

LEMMA SiteIndex == \A s \in Site : s[2] \in Nat \ {0}
<1> SUFFICES ASSUME NEW s \in Site PROVE s[2] \in Nat \ {0}
  OBVIOUS
<1>1. s[1] \in Block /\ s[2] \in DOMAIN Prog[s[1]].body
  BY InstrIs
<1>2. QED BY <1>1, CodeAssumption

(* At a block's entry only what every way in hands on is current. *)
LEMMA CurrentEntry ==
  ASSUME NEW s \in Site, NEW C, NEW b, CurrentAt(s, C, b, 1)
  PROVE  b \in C
  BY SiteIndex DEF CurrentAt

(* Before instruction k of block b every comparison that is current agrees. *)
AllAgree(b, k, m, Enter) ==
  \A s \in Site : InstrAt(s).op = "icmp" /\ InstrAt(s).to \notin Inputs(s) =>
    \A C \in SUBSET Block : HandedOn(s, C, Enter) /\ CurrentAt(s, C, b, k) => Agrees(s, m)

LEMMA AgreeAtEntry ==
  ASSUME NEW Enter, NEW b \in Enter, NEW m
  PROVE  AllAgree(b, 1, m, Enter)
  BY CurrentEntry DEF AllAgree, HandedOn

LEMMA AgreeAfterStep ==
  ASSUME NEW Enter, NEW b \in Block, NEW k \in 1 .. Len(Prog[b].body), NEW m \in State,
         AllAgree(b, k, m, Enter),
         NEW nc \in BOOLEAN, NEW g, IsInterf(g, nc), NEW preds, NEW n \in Outcomes(m, <<b, k>>, preds, g, nc),
         Handled(InstrAt(<<b, k>>))
  PROVE  AllAgree(b, k + 1, n, Enter)
<1> DEFINE at == <<b, k>>
<1>1. at \in Site /\ InstrAt(at) = Prog[b].body[k]
  <2>1. k \in DOMAIN Prog[b].body
    BY CodeAssumption
  <2>2. QED BY <2>1 DEF Site, InstrAt
<1>2. SUFFICES ASSUME NEW s \in Site, InstrAt(s).op = "icmp", InstrAt(s).to \notin Inputs(s),
                      NEW C \in SUBSET Block, HandedOn(s, C, Enter), CurrentAt(s, C, b, k + 1)
               PROVE  Agrees(s, n)
  BY DEF AllAgree
<1>3. CASE s = at
  BY <1>2, <1>3, AgreesMade
<1>4. CASE s # at
  <2>1. /\ CurrentAt(s, C, b, k)
        /\ Written(InstrAt(at)) \cap ({InstrAt(s).to} \cup Inputs(s)) = {}
    BY <1>1, <1>2, <1>4, CurrentStep
  <2>2. Agrees(s, m)
    BY <1>2, <2>1 DEF AllAgree
  <2>3. n \in State /\ \A v \in Var : v \notin Written(InstrAt(at)) => n[v] = m[v]
    BY <1>1, OutcomeIs
  <2>4. {InstrAt(s).to} \cup Inputs(s) \subseteq Var
    BY <1>2, AgreesOnRegisters
  <2>5. \A v \in {InstrAt(s).to} \cup Inputs(s) : n[v] = m[v]
    BY <2>1, <2>3, <2>4
  <2>6. QED BY <1>2, <2>2, <2>3, <2>5, AgreesKept
<1>5. QED BY <1>3, <1>4

LEMMA AgreeAcrossEdge ==
  ASSUME NEW Enter, NEW b \in Block, NEW m, AllAgree(b, Len(Prog[b].body) + 1, m, Enter), NEW t \in SuccOf[b]
  PROVE  AllAgree(t, 1, m, Enter)
<1> SUFFICES ASSUME NEW s \in Site, InstrAt(s).op = "icmp", InstrAt(s).to \notin Inputs(s),
                    NEW C \in SUBSET Block, HandedOn(s, C, Enter), CurrentAt(s, C, t, 1)
             PROVE  Agrees(s, m)
  BY DEF AllAgree
<1>1. t \in C
  BY CurrentEntry
<1>2. CurrentAt(s, C, b, Len(Prog[b].body) + 1)
  BY <1>1 DEF HandedOn
<1>3. QED BY <1>2 DEF AllAgree

(* What a block hands on describes the environments that take the edge.     *)
LEMMA EdgeSound ==
  ASSUME NEW Enter, BranchesCurrent(Enter), NEW b \in Block, NEW f \in Fact, NEW m \in Gamma(f),
         AllAgree(b, Len(Prog[b].body) + 1, m, Enter),
         Prog[b].term.kind = "br" => m[Prog[b].term.cond] \in 0 .. 1
  PROVE  m \in Gamma(PassTo(b, f, Taken(b, m)))
<1> DEFINE u == Prog[b].term
<1>1. ASSUME u.kind = "br", InstrAt(u.def).op = "icmp" PROVE Agrees(u.def, m)
  <2>1. u.def \in Site
    BY <1>1, TerminatorIs DEF IsTerminator
  <2>2. /\ InstrAt(u.def).to \notin Inputs(u.def)
        /\ \E C \in SUBSET Block : HandedOn(u.def, C, Enter) /\ CurrentAt(u.def, C, b, Len(Prog[b].body) + 1)
    BY <1>1 DEF BranchesCurrent
  <2>3. QED BY <1>1, <2>1, <2>2 DEF AllAgree
<1>2. QED BY <1>1, PassToSound

=============================================================================
