------------------------ MODULE Interference_proofs ------------------------
(***************************************************************************)
(* The interference iteration for every program.  Whatever the analysis of *)
(* a function returns, no interference is missing when the iteration ends. *)
(* When the facts are a lattice and the analysis of a function is          *)
(* monotone, no store and no value is ever lost on the way, the iteration  *)
(* aborts only where it should, and it ends at a fixpoint.                 *)
(***************************************************************************)
EXTENDS Interference, FiniteSetTheorems, WellFoundedInduction, TLAPS

-----------------------------------------------------------------------------
(* The join of a finite set of facts.                                       *)

(* The facts are a lattice: Join is the least upper bound of two facts.      *)
FactsOK ==
  /\ Bot \in Fact /\ InitFact \in Fact
  /\ \A f \in Fact : Leq(f, f) /\ Leq(Bot, f) /\ (Leq(f, Bot) => f = Bot)
  /\ \A f, g, h \in Fact : Leq(f, g) /\ Leq(g, h) => Leq(f, h)
  /\ \A f, g \in Fact :
       /\ Join(f, g) \in Fact /\ Leq(f, Join(f, g)) /\ Leq(g, Join(f, g))
       /\ \A h \in Fact : Leq(f, h) /\ Leq(g, h) => Leq(Join(f, g), h)

(* A set of numbers has a least one. *)
LEMMA LeastOf ==
  ASSUME NEW S \in SUBSET Nat, S # {}
  PROVE  \E m \in S : \A n \in S : m <= n
<1>1. PICK m \in S : \A n \in S : ~ (<<n, m>> \in OpToRel(<, Nat))
  BY NatLessThanWellFounded, WFMin, Zenon
<1>2. ASSUME NEW n \in S PROVE m <= n
  <2>1. n < m => <<n, m>> \in OpToRel(<, Nat)
    BY DEF OpToRel
  <2>2. ~ (n < m)
    BY <1>1, <2>1, Zenon
  <2>3. QED BY <2>2
<1>3. QED BY <1>2

(* Taking an element out of a finite set leaves a smaller one.               *)
LEMMA OneLess ==
  ASSUME NEW s, IsFiniteSet(s), NEW x \in s
  PROVE  /\ IsFiniteSet(s \ {x}) /\ Cardinality(s \ {x}) \in Nat /\ Cardinality(s) \in Nat
         /\ Cardinality(s \ {x}) + 1 = Cardinality(s)
<1>1. Cardinality(s) \in Nat
  BY FS_CardinalityType
<1>2. IsFiniteSet(s \ {x}) /\ Cardinality(s \ {x}) = Cardinality(s) - 1
  BY FS_RemoveElement
<1>3. Cardinality(s \ {x}) \in Nat
  BY <1>2, FS_CardinalityType
<1>4. QED BY <1>1, <1>2, <1>3

(* JoinAll folds Join over a set in some order.                              *)
Some(s) == CHOOSE x \in s : TRUE

IsFold(g, s) == g[s] = IF s = {} THEN Bot ELSE Join(Some(s), g[s \ {Some(s)}])

LEMMA SomeIs ==
  ASSUME NEW s, s # {}
  PROVE  Some(s) \in s
  BY DEF Some

(* One more step of the fold.                                               *)
LEMMA FoldStep ==
  ASSUME FactsOK, NEW F \in SUBSET Fact, IsFiniteSet(F), NEW k \in Nat,
         NEW g \in [SUBSET F -> Fact],
         \A s \in SUBSET F : Cardinality(s) <= k => IsFold(g, s)
  PROVE  \E h \in [SUBSET F -> Fact] : \A s \in SUBSET F : Cardinality(s) <= k + 1 => IsFold(h, s)
<1> DEFINE h == [s \in SUBSET F |-> IF s = {} THEN Bot ELSE Join(Some(s), g[s \ {Some(s)}])]
<1>1. \A s \in SUBSET F : s # {} => Some(s) \in Fact /\ g[s \ {Some(s)}] \in Fact
  BY SomeIs
<1>2. h \in [SUBSET F -> Fact]
  BY <1>1 DEF FactsOK
<1>3. ASSUME NEW s \in SUBSET F, Cardinality(s) <= k + 1
      PROVE  IsFold(h, s)
  <2> DEFINE r == s \ {Some(s)}
  <2>1. CASE s = {}
    BY <2>1 DEF IsFold
  <2>2. CASE s # {}
    <3>1. IsFiniteSet(s)
      BY FS_Subset
    <3>2. Some(s) \in s
      BY <2>2, SomeIs
    <3>3. Cardinality(r) <= k
      BY <1>3, <3>1, <3>2, OneLess
    <3>4. r \in SUBSET F /\ IsFold(g, r)
      BY <3>3
    <3>5. h[r] = g[r]
      BY <3>4 DEF IsFold
    <3>6. QED BY <2>2, <3>5 DEF IsFold
  <2>3. QED BY <2>1, <2>2
<1>4. QED BY <1>2, <1>3

(* There is a function that folds every subset of a finite set of facts.    *)
LEMMA FoldExists ==
  ASSUME FactsOK, NEW F \in SUBSET Fact, IsFiniteSet(F)
  PROVE  \E g \in [SUBSET F -> Fact] : \A s \in SUBSET F : IsFold(g, s)
<1> DEFINE UpTo(k) == \E g \in [SUBSET F -> Fact] : \A s \in SUBSET F : Cardinality(s) <= k => IsFold(g, s)
<1>1. UpTo(0)
  <2> DEFINE g == [s \in SUBSET F |-> Bot]
  <2>1. g \in [SUBSET F -> Fact]
    BY DEF FactsOK
  <2>2. ASSUME NEW s \in SUBSET F, Cardinality(s) <= 0 PROVE IsFold(g, s)
    <3>1. IsFiniteSet(s)
      BY FS_Subset
    <3>2. Cardinality(s) = 0
      BY <2>2, <3>1, FS_CardinalityType
    <3>3. s = {}
      BY <3>1, <3>2, FS_EmptySet
    <3>4. QED BY <3>3 DEF IsFold
  <2>3. QED BY <2>1, <2>2
<1>2. ASSUME NEW k \in Nat, UpTo(k) PROVE UpTo(k + 1)
  <2>1. PICK g \in [SUBSET F -> Fact] : \A s \in SUBSET F : Cardinality(s) <= k => IsFold(g, s)
    BY <1>2
  <2>2. QED BY <2>1, FoldStep
<1>3. \A k \in Nat : UpTo(k)
  <2> DEFINE Bad == {k \in Nat : ~ UpTo(k)}
  <2>1. SUFFICES ASSUME Bad # {} PROVE FALSE
    OBVIOUS
  <2>2. PICK k \in Bad : \A n \in Bad : k <= n
    <3> HIDE DEF UpTo
    <3>1. Bad \in SUBSET Nat
      OBVIOUS
    <3> HIDE DEF Bad
    <3>2. QED BY <2>1, <3>1, LeastOf
  <2> HIDE DEF UpTo
  <2>3. k \in Nat /\ k # 0 /\ ~ UpTo(k)
    BY <1>1
  <2>4. k - 1 \in Nat /\ k - 1 \notin Bad
    BY <2>2, <2>3
  <2>5. UpTo((k - 1) + 1)
    BY <1>2, <2>4
  <2>6. QED BY <2>3, <2>5
<1>4. Cardinality(F) \in Nat
  BY FS_CardinalityType
<1>5. PICK g \in [SUBSET F -> Fact] : \A s \in SUBSET F : Cardinality(s) <= Cardinality(F) => IsFold(g, s)
  BY <1>3, <1>4
<1>6. \A s \in SUBSET F : Cardinality(s) <= Cardinality(F)
  BY FS_Subset
<1>7. QED BY <1>5, <1>6

JoinsOf(F) ==
  LET iter[s \in SUBSET F] ==
        IF s = {} THEN Bot ELSE Join(Some(s), iter[s \ {Some(s)}])
  IN  iter

LEMMA JoinAllFolds ==
  ASSUME FactsOK, NEW F \in SUBSET Fact, IsFiniteSet(F)
  PROVE  /\ \A s \in SUBSET F : IsFold(JoinsOf(F), s)
         /\ JoinAll(F) = JoinsOf(F)[F]
<1>1. PICK g \in [SUBSET F -> Fact] : \A s \in SUBSET F : IsFold(g, s)
  BY FoldExists
<1> DEFINE Body(i) == [s \in SUBSET F |-> IF s = {} THEN Bot ELSE Join(Some(s), i[s \ {Some(s)}])]
<1>2. g = Body(g)
  <2>1. \A s \in SUBSET F : g[s] = IF s = {} THEN Bot ELSE Join(Some(s), g[s \ {Some(s)}])
    BY <1>1 DEF IsFold
  <2>2. QED BY <2>1
<1>3. JoinsOf(F) = CHOOSE i : i = Body(i)
  BY DEF JoinsOf
<1>4. JoinsOf(F) = Body(JoinsOf(F))
  <2> HIDE DEF Body
  <2>1. QED BY <1>2, <1>3, Zenon
<1>5. \A s \in SUBSET F : IsFold(JoinsOf(F), s)
  <2>1. \A s \in SUBSET F : Body(JoinsOf(F))[s] = IF s = {} THEN Bot ELSE Join(Some(s), JoinsOf(F)[s \ {Some(s)}])
    OBVIOUS
  <2> HIDE DEF Body
  <2>2. QED BY <1>4, <2>1, Zenon DEF IsFold
<1>6. JoinAll(F) = JoinsOf(F)[F]
  BY Zenon DEF JoinAll, FoldSet, MapThenFoldSet, JoinsOf, Some
<1>7. QED BY <1>5, <1>6

(* JoinAll is the least upper bound of a finite set of facts.               *)
LEMMA JoinAllIsLeast ==
  ASSUME FactsOK, NEW F \in SUBSET Fact, IsFiniteSet(F)
  PROVE  /\ JoinAll(F) \in Fact
         /\ \A f \in F : Leq(f, JoinAll(F))
         /\ \A h \in Fact : (\A f \in F : Leq(f, h)) => Leq(JoinAll(F), h)
<1> DEFINE G == JoinsOf(F)
           IsLeast(s) == /\ G[s] \in Fact
                         /\ \A f \in s : Leq(f, G[s])
                         /\ \A h \in Fact : (\A f \in s : Leq(f, h)) => Leq(G[s], h)
<1>1. \A s \in SUBSET F : IsFold(G, s)
  BY JoinAllFolds
<1> HIDE DEF G
<1>2. ASSUME NEW s \in SUBSET F, s # {}, IsLeast(s \ {Some(s)})
      PROVE  IsLeast(s)
  <2> DEFINE x == Some(s)
             r == s \ {x}
  <2>1. x \in s /\ x \in Fact
    BY <1>2, SomeIs
  <2>2. G[s] = Join(x, G[r])
    BY <1>1, <1>2 DEF IsFold
  <2>3. G[r] \in Fact /\ (\A f \in r : Leq(f, G[r]))
        /\ (\A h \in Fact : (\A f \in r : Leq(f, h)) => Leq(G[r], h))
    BY <1>2
  <2>4. s = r \cup {x} /\ r \subseteq Fact
    BY <2>1
  <2> HIDE DEF x, r
  <2>5. Join(x, G[r]) \in Fact /\ Leq(x, Join(x, G[r])) /\ Leq(G[r], Join(x, G[r]))
    BY <2>1, <2>3 DEF FactsOK
  <2>6. ASSUME NEW f \in r PROVE Leq(f, Join(x, G[r]))
    BY <2>3, <2>4, <2>5 DEF FactsOK
  <2>7. ASSUME NEW h \in Fact, \A f \in s : Leq(f, h) PROVE Leq(Join(x, G[r]), h)
    <3>1. Leq(x, h) /\ Leq(G[r], h)
      BY <2>3, <2>4, <2>7
    <3>2. QED BY <2>1, <2>3, <3>1 DEF FactsOK
  <2>8. QED BY <2>2, <2>4, <2>5, <2>6, <2>7
<1>3. IsLeast({})
  BY <1>1 DEF IsFold, FactsOK
<1>4. \A k \in Nat : \A s \in SUBSET F : Cardinality(s) = k => IsLeast(s)
  <2> DEFINE Bad == {k \in Nat : \E s \in SUBSET F : Cardinality(s) = k /\ ~ IsLeast(s)}
  <2>1. SUFFICES ASSUME Bad # {} PROVE FALSE
    OBVIOUS
  <2>2. PICK k \in Bad : \A n \in Bad : k <= n
    <3> HIDE DEF IsLeast
    <3>1. Bad \in SUBSET Nat
      OBVIOUS
    <3> HIDE DEF Bad
    <3>2. QED BY <2>1, <3>1, LeastOf
  <2> HIDE DEF IsLeast
  <2>3. PICK s \in SUBSET F : Cardinality(s) = k /\ ~ IsLeast(s)
    BY <2>2
  <2>4. s # {} /\ Some(s) \in s
    BY <1>3, <2>3, SomeIs
  <2>5. IsFiniteSet(s)
    BY FS_Subset
  <2> DEFINE r == s \ {Some(s)}
  <2>6. Cardinality(r) \in Nat /\ Cardinality(r) + 1 = k
    BY <2>3, <2>4, <2>5, OneLess
  <2>7. r \in SUBSET F /\ ~ IsLeast(r)
    BY <1>2, <2>3, <2>4
  <2>8. Cardinality(r) \in Bad
    BY <2>6, <2>7
  <2>9. k \in Nat /\ k <= Cardinality(r)
    BY <2>2, <2>8
  <2>10. QED BY <2>6, <2>9
<1>5. Cardinality(F) \in Nat
  BY FS_CardinalityType
<1>6. IsLeast(F)
  BY <1>4, <1>5
<1>7. JoinAll(F) = G[F]
  BY JoinAllFolds DEF G
<1>8. QED BY <1>6, <1>7

(* The join of more and larger facts is larger.                             *)
LEMMA JoinAllGrows ==
  ASSUME FactsOK, NEW F \in SUBSET Fact, IsFiniteSet(F), NEW H \in SUBSET Fact, IsFiniteSet(H),
         \A f \in F : \E h \in H : Leq(f, h)
  PROVE  Leq(JoinAll(F), JoinAll(H))
<1>1. JoinAll(H) \in Fact /\ \A h \in H : Leq(h, JoinAll(H))
  BY JoinAllIsLeast
<1>2. \A f \in F : Leq(f, JoinAll(H))
  BY <1>1 DEF FactsOK
<1>3. QED BY <1>1, <1>2, JoinAllIsLeast

-----------------------------------------------------------------------------
(* The order of the keys of a std::map.                                     *)

Ranks(n) == 1 .. n

Sorts(p, n, a) ==
  /\ p \in [Ranks(n) -> Ranks(n)]
  /\ \A i, j \in Ranks(n) : i < j => a[p[i]] < a[p[j]]

(* An order of n different numbers is extended by one more.                 *)
LEMMA Insert ==
  ASSUME NEW n \in Nat, NEW a \in [Ranks(n + 1) -> Nat],
         \A i, j \in Ranks(n + 1) : a[i] = a[j] => i = j,
         NEW p, Sorts(p, n, a)
  PROVE  \E q : Sorts(q, n + 1, a)
<1> USE DEF Ranks
<1> DEFINE Later == {i \in 1 .. n : a[n + 1] < a[p[i]]} \cup {n + 1}
<1>1. PICK k \in Later : \A i \in Later : k <= i
  <2>1. Later \in SUBSET Nat /\ Later # {}
    OBVIOUS
  <2> HIDE DEF Later
  <2>2. QED BY <2>1, LeastOf
<1>2. k \in 1 .. n + 1
  OBVIOUS
<1> DEFINE q == [i \in 1 .. n + 1 |-> IF i < k THEN p[i] ELSE IF i = k THEN n + 1 ELSE p[i - 1]]
<1>3. \A i \in 1 .. n : p[i] \in 1 .. n
  BY DEF Sorts
<1>4. q \in [1 .. n + 1 -> 1 .. n + 1]
  <2>1. ASSUME NEW i \in 1 .. n + 1 PROVE q[i] \in 1 .. n + 1
    <3>1. CASE i < k
      <4>1. i \in 1 .. n
        BY <1>2, <3>1
      <4>2. QED BY <1>3, <3>1, <4>1
    <3>2. CASE i = k
      BY <3>2
    <3>3. CASE i > k
      <4>1. i - 1 \in 1 .. n
        BY <1>2, <3>3
      <4>2. QED BY <1>2, <1>3, <3>3, <4>1
    <3>4. QED BY <1>2, <3>1, <3>2, <3>3
  <2>2. QED BY <2>1
<1>5. \A i \in 1 .. n : i < k => a[p[i]] < a[n + 1]
  <2>1. ASSUME NEW i \in 1 .. n, i < k PROVE a[p[i]] < a[n + 1]
    <3>1. i \notin Later
      BY <1>1, <1>2, <2>1
    <3>2. p[i] \in 1 .. n + 1 /\ p[i] # n + 1
      BY <1>3
    <3>3. a[p[i]] \in Nat /\ a[n + 1] \in Nat /\ a[p[i]] # a[n + 1]
      BY <3>2
    <3>4. QED BY <3>1, <3>3
  <2>2. QED BY <2>1
<1>6. \A i \in 1 .. n : i >= k => a[n + 1] < a[p[i]]
  <2>1. ASSUME NEW i \in 1 .. n, i >= k PROVE a[n + 1] < a[p[i]]
    <3>1. k \in 1 .. n /\ a[n + 1] < a[p[k]]
      BY <1>2, <2>1
    <3>2. k < i => a[p[k]] < a[p[i]]
      BY <3>1 DEF Sorts
    <3>3. a[p[i]] \in Nat /\ a[n + 1] \in Nat /\ a[p[k]] \in Nat
      BY <1>3, <3>1
    <3>4. QED BY <1>2, <2>1, <3>1, <3>2, <3>3
  <2>2. QED BY <2>1
<1>7. \A i, j \in 1 .. n + 1 : i < j => a[q[i]] < a[q[j]]
  <2>1. ASSUME NEW i \in 1 .. n + 1, NEW j \in 1 .. n + 1, i < j PROVE a[q[i]] < a[q[j]]
    <3>1. i \in 1 .. n /\ j - 1 \in 1 .. n /\ i \in Int /\ j \in Int /\ k \in Int
      BY <1>2, <2>1
    <3>2. CASE j < k
      <4>1. q[i] = p[i] /\ q[j] = p[j] /\ j \in 1 .. n
        BY <1>2, <2>1, <3>2
      <4>2. QED BY <2>1, <3>1, <4>1 DEF Sorts
    <3>3. CASE j = k
      <4>1. q[i] = p[i] /\ q[j] = n + 1
        BY <2>1, <3>3
      <4>2. QED BY <1>5, <2>1, <3>1, <3>3, <4>1
    <3>4. CASE j > k
      <4>1. q[j] = p[j - 1]
        BY <3>1, <3>4
      <4>2. CASE i = k
        <5>1. q[i] = n + 1 /\ j - 1 >= k
          BY <3>1, <3>4, <4>2
        <5>2. QED BY <1>6, <3>1, <4>1, <5>1
      <4>3. CASE i > k
        <5>1. q[i] = p[i - 1] /\ i - 1 \in 1 .. n /\ i - 1 < j - 1
          BY <1>2, <2>1, <3>1, <4>3
        <5>2. QED BY <3>1, <4>1, <5>1 DEF Sorts
      <4>4. CASE i < k
        <5>1. q[i] = p[i] /\ i < j - 1
          BY <3>1, <3>4, <4>4
        <5>2. QED BY <3>1, <4>1, <5>1 DEF Sorts
      <4>5. QED BY <3>1, <4>2, <4>3, <4>4
    <3>5. QED BY <3>1, <3>2, <3>3, <3>4
  <2>2. QED BY <2>1
<1> HIDE DEF q
<1>8. Sorts(q, n + 1, a)
  BY <1>4, <1>7 DEF Sorts
<1>9. QED BY <1>8

(* Any number of different numbers can be sorted.                           *)
LEMMA Sortable ==
  ASSUME NEW n \in Nat, NEW a \in [Ranks(n) -> Nat],
         \A i, j \in Ranks(n) : a[i] = a[j] => i = j
  PROVE  \E p : Sorts(p, n, a)
<1> DEFINE Can(m) == \E p : Sorts(p, m, a)
<1>1. Can(0)
  <2>1. Sorts(<<>>, 0, a)
    BY DEF Sorts, Ranks
  <2>2. QED BY <2>1
<1>2. ASSUME NEW m \in Nat, m + 1 <= n, Can(m) PROVE Can(m + 1)
  <2>1. PICK p : Sorts(p, m, a)
    BY <1>2
  <2> DEFINE b == [i \in Ranks(m + 1) |-> a[i]]
  <2>2. Ranks(m + 1) \subseteq Ranks(n) /\ Ranks(m) \subseteq Ranks(m + 1)
    BY <1>2 DEF Ranks
  <2>3. b \in [Ranks(m + 1) -> Nat] /\ \A i, j \in Ranks(m + 1) : b[i] = b[j] => i = j
    BY <2>2
  <2>4. \A i \in Ranks(m + 1) : a[i] = b[i]
    OBVIOUS
  <2> HIDE DEF b
  <2>5. Sorts(p, m, b)
    BY <2>1, <2>2, <2>4 DEF Sorts
  <2>6. PICK q : Sorts(q, m + 1, b)
    BY <2>3, <2>5, Insert
  <2>7. Sorts(q, m + 1, a)
    BY <2>4, <2>6 DEF Sorts
  <2>8. QED BY <2>7
<1>3. \A m \in Nat : m <= n => Can(m)
  <2> DEFINE Bad == {m \in Nat : m <= n /\ ~ Can(m)}
  <2>1. SUFFICES ASSUME Bad # {} PROVE FALSE
    OBVIOUS
  <2>2. PICK m \in Bad : \A k \in Bad : m <= k
    <3> HIDE DEF Can
    <3>1. Bad \in SUBSET Nat
      OBVIOUS
    <3> HIDE DEF Bad
    <3>2. QED BY <2>1, <3>1, LeastOf
  <2> HIDE DEF Can
  <2>3. m \in Nat /\ m # 0 /\ m <= n /\ ~ Can(m)
    BY <1>1, <2>2
  <2>4. m - 1 \in Nat /\ (m - 1) + 1 = m /\ m - 1 <= n /\ m - 1 \notin Bad
    BY <2>2, <2>3
  <2>5. Can((m - 1) + 1)
    BY <1>2, <2>3, <2>4
  <2>6. QED BY <2>3, <2>4, <2>5
<1>4. QED BY <1>3

(* Ordered lists each member of a finite set of instructions once.          *)
LEMMA OrderedIs ==
  ASSUME ConstantsOK, address \in Layout, NEW S \in SUBSET (Load \cup Store \cup Create), IsFiniteSet(S)
  PROVE  /\ Ordered(S) \in [1 .. Cardinality(S) -> S]
         /\ \A s \in S : \E i \in 1 .. Cardinality(S) : Ordered(S)[i] = s
         /\ \A i, j \in 1 .. Cardinality(S) : Ordered(S)[i] = Ordered(S)[j] => i = j
<1> DEFINE n == Cardinality(S)
           IsOrder(q) == /\ q \in [1 .. n -> S]
                         /\ \A i, j \in 1 .. n : i < j => address[q[i]] < address[q[j]]
<1>1. n \in Nat /\ Bijection(1 .. n, S) # {}
  BY FS_CardinalityType DEF ExistsBijection
<1>2. PICK e : /\ e \in [1 .. n -> S]
               /\ \A i, j \in 1 .. n : e[i] = e[j] => i = j
               /\ \A s \in S : \E i \in 1 .. n : e[i] = s
  <2>1. PICK e : e \in Bijection(1 .. n, S)
    BY <1>1
  <2>2. QED BY <2>1 DEF Bijection, Injection, Surjection, IsInjective
<1>3. \A s, t \in S : address[s] \in Nat /\ (address[s] = address[t] => s = t)
  BY DEF ConstantsOK
<1>4. PICK a : a = [i \in Ranks(n) |-> address[e[i]]]
  OBVIOUS
<1> HIDE DEF n
<1>5. a \in [Ranks(n) -> Nat] /\ \A i, j \in Ranks(n) : a[i] = a[j] => i = j
  BY <1>2, <1>3, <1>4 DEF Ranks
<1>6. PICK p : Sorts(p, n, a)
  BY <1>1, <1>5, Sortable
<1> DEFINE o == [i \in 1 .. n |-> e[p[i]]]
<1>7. p \in [1 .. n -> 1 .. n]
  BY <1>6 DEF Sorts, Ranks
<1>8. \A i \in 1 .. n : address[o[i]] = a[p[i]]
  BY <1>4, <1>7 DEF Ranks
<1>9. IsOrder(o)
  <2>1. o \in [1 .. n -> S]
    BY <1>2, <1>7
  <2> HIDE DEF o
  <2>2. QED BY <1>6, <1>8, <2>1 DEF Sorts, Ranks
<1>10. IsOrder(Ordered(S))
  <2>1. Ordered(S) = CHOOSE q \in [1 .. n -> S] :
                       \A i, j \in 1 .. n : i < j => address[q[i]] < address[q[j]]
    BY DEF Ordered, n
  <2> HIDE DEF o
  <2>2. QED BY <1>9, <2>1
<1>11. PICK q : q = Ordered(S)
  OBVIOUS
<1>12. IsOrder(q)
  BY <1>10, <1>11
<1>13. \A i, j \in 1 .. n : q[i] = q[j] => i = j
  <2>1. ASSUME NEW i \in 1 .. n, NEW j \in 1 .. n, q[i] = q[j], i # j PROVE FALSE
    <3>1. address[q[i]] \in Nat
      BY <1>3, <1>12
    <3>2. i < j \/ j < i
      BY <2>1
    <3>3. address[q[i]] < address[q[i]]
      BY <1>12, <2>1, <3>2
    <3>4. QED BY <3>1, <3>3
  <2>2. QED BY <2>1
<1>14. \A s \in S : \E i \in 1 .. n : q[i] = s
  <2>1. q \in Injection(1 .. n, S)
    BY <1>12, <1>13 DEF Injection, IsInjective
  <2>2. IsFiniteSet(S) /\ IsFiniteSet(1 .. n) /\ Cardinality(1 .. n) = n
    <3>1. \A m \in Nat : IsFiniteSet(1 .. m) /\ Cardinality(1 .. m) = m
      BY FS_Interval
    <3>2. QED BY <1>1, <3>1
  <2>3. q \in Surjection(1 .. n, S)
    BY <2>1, <2>2, FS_Injection DEF n
  <2>4. QED BY <2>3 DEF Surjection
<1>15. QED BY <1>11, <1>12, <1>13, <1>14 DEF n

-----------------------------------------------------------------------------
(* The permutations of a thread stand for all the choices its loads have.   *)

(* A set of numbers below a bound has a largest one.                        *)
LEMMA LargestOf ==
  ASSUME NEW n \in Nat, NEW S \in SUBSET (0 .. n), S # {}
  PROVE  Max(S) \in S /\ \A k \in S : k <= Max(S)
<1> DEFINE T == {n - k : k \in S}
<1>1. T \in SUBSET Nat /\ T # {}
  <2>1. \A k \in S : n - k \in Nat
    OBVIOUS
  <2>2. QED BY <2>1
<1>2. PICK t \in T : \A u \in T : t <= u
  BY <1>1, LeastOf
<1>3. PICK m \in S : t = n - m
  OBVIOUS
<1>4. \A k \in S : n - m <= n - k
  BY <1>2, <1>3
<1>5. \A k \in S : m >= k
  BY <1>4
<1>6. \A k \in S : Max(S) >= k /\ Max(S) \in S
  BY <1>5 DEF Max
<1>7. \A k \in S : k \in Int
  OBVIOUS
<1>8. QED BY <1>6, <1>7

(* Stores the loads of a thread may read from.                              *)
IsInterfs(cur) ==
  /\ DOMAIN cur \subseteq Load
  /\ \A l \in DOMAIN cur : cur[l] \subseteq Store

(* The permutations without their numbers: a store, or its own memory, for  *)
(* each load.                                                               *)
ReadChoices(cur) ==
  {c \in [DOMAIN cur -> Store \cup {Own}] : \A l \in DOMAIN cur : c[l] = Own \/ c[l] \in cur[l]}

LEMMA InterfsFinite ==
  ASSUME ConstantsOK, NEW cur, IsInterfs(cur)
  PROVE  /\ IsFiniteSet(DOMAIN cur) /\ Cardinality(DOMAIN cur) \in Nat
         /\ Cardinality(Store) \in Nat
         /\ \A l \in DOMAIN cur : /\ IsFiniteSet(cur[l])
                                  /\ Cardinality(cur[l]) \in 0 .. Cardinality(Store)
<1>1. IsFiniteSet(Load) /\ IsFiniteSet(Store)
  BY DEF ConstantsOK
<1>2. IsFiniteSet(DOMAIN cur)
  BY <1>1, FS_Subset DEF IsInterfs
<1>3. Cardinality(DOMAIN cur) \in Nat /\ Cardinality(Store) \in Nat
  BY <1>1, <1>2, FS_CardinalityType
<1>4. ASSUME NEW l \in DOMAIN cur
      PROVE  IsFiniteSet(cur[l]) /\ Cardinality(cur[l]) \in 0 .. Cardinality(Store)
  <2>1. cur[l] \in SUBSET Store
    BY DEF IsInterfs
  <2>2. IsFiniteSet(cur[l]) /\ Cardinality(cur[l]) <= Cardinality(Store)
    BY <1>1, <2>1, FS_Subset
  <2>3. Cardinality(cur[l]) \in Nat
    BY <2>2, FS_CardinalityType
  <2>4. QED BY <1>3, <2>2, <2>3
<1>5. QED BY <1>2, <1>3, <1>4

(* What a permutation is.                                                    *)
LEMMA PermsAre ==
  ASSUME ConstantsOK, address \in Layout, NEW cur, IsInterfs(cur), DOMAIN cur # {}, NEW p
  PROVE  p \in PermsOf(cur) <=>
           /\ p \in [1 .. Cardinality(DOMAIN cur) -> Nat]
           /\ \A i \in 1 .. Cardinality(DOMAIN cur) : p[i] <= Cardinality(cur[Ordered(DOMAIN cur)[i]])
<1> DEFINE n == Cardinality(DOMAIN cur)
           Sizes == {Cardinality(cur[l]) : l \in DOMAIN cur}
<1>1. PICK L : L = Ordered(DOMAIN cur)
  OBVIOUS
<1>2. L \in [1 .. n -> DOMAIN cur] /\ n \in Nat
  <2>1. DOMAIN cur \in SUBSET (Load \cup Store \cup Create) /\ IsFiniteSet(DOMAIN cur)
    BY InterfsFinite DEF IsInterfs
  <2>2. QED BY <1>1, <2>1, OrderedIs, InterfsFinite
<1>3. Max(Sizes) \in Nat /\ \A l \in DOMAIN cur : Cardinality(cur[l]) <= Max(Sizes)
  <2>1. Sizes \in SUBSET (0 .. Cardinality(Store)) /\ Sizes # {} /\ Cardinality(Store) \in Nat
    BY InterfsFinite
  <2>2. \A l \in DOMAIN cur : Cardinality(cur[l]) \in Sizes
    OBVIOUS
  <2> HIDE DEF Sizes
  <2>3. Max(Sizes) \in Sizes /\ \A k \in Sizes : k <= Max(Sizes)
    <3>1. PICK m : m = Cardinality(Store)
      OBVIOUS
    <3>2. m \in Nat /\ Sizes \in SUBSET (0 .. m)
      BY <2>1, <3>1
    <3>3. QED BY <2>1, <3>2, LargestOf
  <2>4. PICK x : x = Max(Sizes)
    OBVIOUS
  <2>5. x \in Sizes /\ \A k \in Sizes : k <= x
    BY <2>3, <2>4
  <2>6. x \in Nat
    BY <2>1, <2>5
  <2>7. \A l \in DOMAIN cur : Cardinality(cur[l]) <= x
    BY <2>2, <2>5
  <2>8. QED BY <2>4, <2>6, <2>7
<1>4. \A l \in DOMAIN cur : Cardinality(cur[l]) \in Nat
  BY InterfsFinite
<1>5. PermsOf(cur) = {q \in [1 .. n -> 0 .. Max(Sizes)] :
                        \A i \in 1 .. n : q[i] <= Cardinality(cur[L[i]])}
  <2>1. PermsOf(cur) = {q \in [DOMAIN L -> 0 .. Max(Sizes)] :
                          \A i \in DOMAIN L : q[i] <= Cardinality(cur[L[i]])}
    BY <1>1 DEF PermsOf
  <2>2. DOMAIN L = 1 .. n
    BY <1>2
  <2>3. QED BY <2>1, <2>2
<1> HIDE DEF n, Sizes
<1>6. \A i \in 1 .. n : /\ Cardinality(cur[L[i]]) <= Max(Sizes)
                        /\ Cardinality(cur[L[i]]) \in Nat
  BY <1>2, <1>3, <1>4
<1>7. ASSUME p \in [1 .. n -> Nat], \A i \in 1 .. n : p[i] <= Cardinality(cur[L[i]])
      PROVE  p \in [1 .. n -> 0 .. Max(Sizes)]
  <2>1. \A i \in 1 .. n : p[i] \in 0 .. Max(Sizes)
    BY <1>3, <1>6, <1>7
  <2>2. QED BY <1>7, <2>1
<1>8. p \in [1 .. n -> 0 .. Max(Sizes)] => p \in [1 .. n -> Nat]
  BY <1>3
<1>9. p \in PermsOf(cur) <=> /\ p \in [1 .. n -> Nat]
                             /\ \A i \in 1 .. n : p[i] <= Cardinality(cur[L[i]])
  BY <1>5, <1>7, <1>8
<1>10. QED BY <1>1, <1>9 DEF n

(* The numbers stand for the choices: each choice is that of a permutation. *)
LEMMA PermsAreChoices ==
  ASSUME ConstantsOK, address \in Layout, NEW cur, IsInterfs(cur), DOMAIN cur # {}
  PROVE  {Choice(cur, p) : p \in PermsOf(cur)} = ReadChoices(cur)
<1> DEFINE n == Cardinality(DOMAIN cur)
           size(l) == Cardinality(cur[l])
           at(l) == CHOOSE i \in DOMAIN Ordered(DOMAIN cur) : Ordered(DOMAIN cur)[i] = l
<1>1. PICK L : L = Ordered(DOMAIN cur)
  OBVIOUS
<1>2. /\ n \in Nat /\ L \in [1 .. n -> DOMAIN cur]
      /\ \A l \in DOMAIN cur : \E i \in 1 .. n : L[i] = l
      /\ \A i, j \in 1 .. n : L[i] = L[j] => i = j
  <2>1. DOMAIN cur \in SUBSET (Load \cup Store \cup Create) /\ IsFiniteSet(DOMAIN cur)
    BY InterfsFinite DEF IsInterfs
  <2>2. QED BY <1>1, <2>1, OrderedIs, InterfsFinite
<1>3. \A l \in DOMAIN cur : at(l) \in 1 .. n /\ L[at(l)] = l
  BY <1>1, <1>2
<1>4. \A l \in DOMAIN cur : /\ Ordered(cur[l]) \in [1 .. size(l) -> cur[l]]
                            /\ \A s \in cur[l] : \E k \in 1 .. size(l) : Ordered(cur[l])[k] = s
                            /\ size(l) \in Nat
  <2>1. ASSUME NEW l \in DOMAIN cur
        PROVE  /\ Ordered(cur[l]) \in [1 .. size(l) -> cur[l]]
               /\ \A s \in cur[l] : \E k \in 1 .. size(l) : Ordered(cur[l])[k] = s
               /\ size(l) \in Nat
    <3>1. PICK S : S = cur[l]
      OBVIOUS
    <3>2. S \in SUBSET (Load \cup Store \cup Create) /\ IsFiniteSet(S)
      BY <3>1, InterfsFinite DEF IsInterfs
    <3>3. /\ Ordered(S) \in [1 .. Cardinality(S) -> S]
          /\ \A s \in S : \E k \in 1 .. Cardinality(S) : Ordered(S)[k] = s
      BY <3>2, OrderedIs
    <3>4. QED BY <3>1, <3>2, <3>3, FS_CardinalityType
  <2>2. QED BY <2>1
<1>5. \A p : Choice(cur, p) = [l \in DOMAIN cur |-> IF p[at(l)] = 0 THEN Own ELSE Ordered(cur[l])[p[at(l)]]]
  BY DEF Choice
<1> HIDE DEF at, n
<1>6. ASSUME NEW p \in PermsOf(cur) PROVE Choice(cur, p) \in ReadChoices(cur)
  <2>1. p \in [1 .. n -> Nat] /\ \A i \in 1 .. n : p[i] <= size(L[i])
    BY <1>1, PermsAre DEF n
  <2>2. ASSUME NEW l \in DOMAIN cur
        PROVE  LET c == IF p[at(l)] = 0 THEN Own ELSE Ordered(cur[l])[p[at(l)]]
               IN  (c = Own \/ c \in cur[l]) /\ c \in Store \cup {Own}
    <3>1. p[at(l)] \in Nat /\ p[at(l)] <= size(l)
      BY <1>3, <2>1
    <3>2. p[at(l)] # 0 => p[at(l)] \in 1 .. size(l)
      BY <1>4, <3>1
    <3>3. p[at(l)] # 0 => Ordered(cur[l])[p[at(l)]] \in cur[l]
      BY <1>4, <3>2
    <3>4. QED BY <3>3 DEF IsInterfs
  <2>3. QED BY <1>5, <2>2 DEF ReadChoices
<1>7. ASSUME NEW c \in ReadChoices(cur) PROVE \E p \in PermsOf(cur) : Choice(cur, p) = c
  <2> DEFINE number(l) == IF c[l] = Own THEN 0 ELSE CHOOSE k \in 1 .. size(l) : Ordered(cur[l])[k] = c[l]
             p == [i \in 1 .. n |-> number(L[i])]
  <2>1. c \in [DOMAIN cur -> Store \cup {Own}] /\ \A l \in DOMAIN cur : c[l] = Own \/ c[l] \in cur[l]
    BY DEF ReadChoices
  <2>2. ASSUME NEW l \in DOMAIN cur
        PROVE  /\ number(l) \in Nat /\ number(l) <= size(l)
               /\ number(l) = 0 => c[l] = Own
               /\ number(l) # 0 => Ordered(cur[l])[number(l)] = c[l]
    <3>1. CASE c[l] = Own
      BY <1>4, <3>1
    <3>2. CASE c[l] # Own
      <4>1. \E k \in 1 .. size(l) : Ordered(cur[l])[k] = c[l]
        BY <1>4, <2>1, <3>2
      <4>2. PICK k : k = number(l)
        OBVIOUS
      <4>3. k \in 1 .. size(l) /\ Ordered(cur[l])[k] = c[l]
        BY <3>2, <4>1, <4>2
      <4>4. QED BY <1>4, <4>2, <4>3
    <3>3. QED BY <3>1, <3>2
  <2> HIDE DEF number
  <2>3. p \in PermsOf(cur)
    <3>1. p \in [1 .. n -> Nat] /\ \A i \in 1 .. n : p[i] <= size(L[i])
      BY <1>2, <2>2
    <3> HIDE DEF p
    <3>2. QED BY <1>1, <3>1, PermsAre DEF n
  <2>4. \A l \in DOMAIN cur : p[at(l)] = number(l)
    BY <1>3
  <2>5. Choice(cur, p) = c
    <3>1. \A l \in DOMAIN cur : (IF p[at(l)] = 0 THEN Own ELSE Ordered(cur[l])[p[at(l)]]) = c[l]
      BY <2>2, <2>4
    <3> HIDE DEF p
    <3>2. QED BY <1>5, <2>1, <3>1
  <2>6. QED BY <2>3, <2>5
<1>8. QED BY <1>6, <1>7

-----------------------------------------------------------------------------
(* The interference maps of a thread.                                       *)

(* The interferences of the loads: joined, they may be of no store at all.   *)
IMap(nocombs) == UNION {[L -> IF nocombs THEN Fact ELSE Reachable] : L \in SUBSET Load}

LEMMA FunctionsFinite ==
  ASSUME NEW A, IsFiniteSet(A), NEW B, IsFiniteSet(B)
  PROVE  IsFiniteSet([A -> B])
<1> DEFINE g == [f \in [A -> B] |-> {<<a, f[a]>> : a \in A}]
<1>1. IsFiniteSet(SUBSET (A \X B))
  BY FS_Product, FS_SUBSET
<1>2. g \in [[A -> B] -> SUBSET (A \X B)]
  OBVIOUS
<1>3. ASSUME NEW f \in [A -> B], NEW h \in [A -> B], g[f] = g[h] PROVE f = h
  <2>1. ASSUME NEW a \in A PROVE f[a] = h[a]
    <3>1. <<a, f[a]>> \in g[h]
      BY <1>3
    <3>2. PICK b \in A : <<a, f[a]>> = <<b, h[b]>>
      BY <3>1
    <3>3. QED BY <3>2
  <2>2. QED BY <2>1
<1> HIDE DEF g
<1>4. g \in Injection([A -> B], SUBSET (A \X B))
  BY <1>2, <1>3 DEF Injection, IsInjective
<1>5. QED BY <1>1, <1>4, FS_Injection

(* The image of a finite set under a function.                              *)
ImageOf(g, S) == {g[x] : x \in S}

LEMMA ImageFinite ==
  ASSUME NEW S, IsFiniteSet(S), NEW g
  PROVE  IsFiniteSet(ImageOf(g, S))
<1> DEFINE h == [x \in S |-> g[x]]
<1>1. h \in Surjection(S, ImageOf(g, S))
  BY DEF Surjection, ImageOf
<1>2. QED BY <1>1, FS_Surjection

LEMMA ChoicesFinite ==
  ASSUME ConstantsOK, NEW cur, IsInterfs(cur)
  PROVE  IsFiniteSet(ReadChoices(cur))
<1>1. IsFiniteSet(DOMAIN cur) /\ IsFiniteSet(Store)
  BY InterfsFinite DEF ConstantsOK
<1>2. IsFiniteSet(Store \cup {Own})
  BY <1>1, FS_AddElement
<1>3. IsFiniteSet([DOMAIN cur -> Store \cup {Own}])
  BY <1>1, <1>2, FunctionsFinite
<1>4. ReadChoices(cur) \in SUBSET [DOMAIN cur -> Store \cup {Own}]
  BY DEF ReadChoices
<1>5. QED BY <1>3, <1>4, FS_Subset

(* The interference maps of a thread, whatever order its permutations are   *)
(* tested in.                                                               *)
FactsAt(reach, S) == {reach[s] : s \in S}

MapOf(choice, reach) == [l \in {l \in DOMAIN choice : choice[l] # Own} |-> reach[choice[l]]]

JoinOf(cur, reach) == [l \in DOMAIN cur |-> JoinAll(FactsAt(reach, cur[l]))]

MapsOf(cur, reach, nocombs) ==
  IF DOMAIN cur = {} THEN {<<>>}
  ELSE IF nocombs THEN {JoinOf(cur, reach)} ELSE {MapOf(choice, reach) : choice \in ReadChoices(cur)}

(* Without the constraints no permutation is rejected.                      *)
LEMMA MapsAre ==
  ASSUME ConstantsOK, address \in Layout, ~ option.constraints, option.nocombs \in BOOLEAN,
         NEW cur, IsInterfs(cur)
  PROVE  InterfMaps(cur, Rejected(cur)) = MapsOf(cur, newReachStores, option.nocombs)
<1>1. CASE DOMAIN cur = {}
  BY <1>1 DEF InterfMaps, MapsOf
<1>2. CASE DOMAIN cur # {} /\ option.nocombs
  BY <1>2 DEF InterfMaps, MapsOf, JoinInterfs, JoinOf, FactsAt
<1>3. CASE DOMAIN cur # {} /\ ~ option.nocombs
  <2>1. Rejected(cur) = {}
    BY <1>3 DEF Rejected, Violates
  <2>2. InterfMaps(cur, Rejected(cur)) = {InterfMap(Choice(cur, p)) : p \in PermsOf(cur)}
    BY <1>3, <2>1 DEF InterfMaps
  <2>3. {Choice(cur, p) : p \in PermsOf(cur)} = ReadChoices(cur)
    BY <1>3, PermsAreChoices
  <2>4. \A c : InterfMap(c) = MapOf(c, newReachStores)
    BY DEF InterfMap, MapOf
  <2>5. {InterfMap(Choice(cur, p)) : p \in PermsOf(cur)} = {InterfMap(c) : c \in ReadChoices(cur)}
    BY <2>3
  <2>6. QED BY <1>3, <2>2, <2>4, <2>5 DEF MapsOf
<1>4. QED BY <1>1, <1>2, <1>3

ValuesAt(R, s) == {r[s] : r \in {r \in R : s \in DOMAIN r}}

LEMMA MergedAre ==
  ASSUME FactsOK, NEW R, IsFiniteSet(R), \A r \in R : \A s \in DOMAIN r : r[s] \in Reachable
  PROVE  /\ DOMAIN MergeReached(R) = UNION {DOMAIN r : r \in R}
         /\ \A s \in DOMAIN MergeReached(R) :
              /\ MergeReached(R)[s] = JoinAll(ValuesAt(R, s))
              /\ MergeReached(R)[s] \in Reachable
         /\ \A s : ValuesAt(R, s) \in SUBSET Fact /\ IsFiniteSet(ValuesAt(R, s))
<1>1. /\ DOMAIN MergeReached(R) = UNION {DOMAIN r : r \in R}
      /\ \A s \in DOMAIN MergeReached(R) : MergeReached(R)[s] = JoinAll(ValuesAt(R, s))
  BY DEF MergeReached, ValuesAt
<1>2. ASSUME NEW s PROVE ValuesAt(R, s) \in SUBSET Fact /\ IsFiniteSet(ValuesAt(R, s))
  <2> DEFINE Q == {r \in R : s \in DOMAIN r}
             g == [r \in Q |-> r[s]]
  <2>1. IsFiniteSet(Q)
    BY FS_Subset
  <2>2. ImageOf(g, Q) = ValuesAt(R, s)
    BY DEF ImageOf, ValuesAt
  <2>3. IsFiniteSet(ImageOf(g, Q))
    <3> HIDE DEF g, Q
    <3>1. QED BY <2>1, ImageFinite
  <2>4. QED BY <2>2, <2>3 DEF ValuesAt, Reachable
<1>3. ASSUME NEW s \in DOMAIN MergeReached(R) PROVE MergeReached(R)[s] \in Reachable
  <2>1. PICK V : V = ValuesAt(R, s)
    OBVIOUS
  <2>2. PICK r \in R : s \in DOMAIN r
    BY <1>1
  <2>3. r[s] \in V /\ r[s] \in Fact /\ r[s] # Bot
    BY <2>1, <2>2 DEF ValuesAt, Reachable
  <2>4. JoinAll(V) \in Fact /\ Leq(r[s], JoinAll(V))
    BY <1>2, <2>1, <2>3, JoinAllIsLeast
  <2>5. JoinAll(V) # Bot
    BY <2>3, <2>4 DEF FactsOK
  <2>6. QED BY <1>1, <2>1, <2>4, <2>5 DEF Reachable
<1>4. QED BY <1>1, <1>2, <1>3

LEMMA MergeGrows ==
  ASSUME FactsOK,
         NEW R, IsFiniteSet(R), \A r \in R : \A s \in DOMAIN r : r[s] \in Reachable,
         NEW Q, IsFiniteSet(Q), \A r \in Q : \A s \in DOMAIN r : r[s] \in Reachable,
         \A r \in R : \E q \in Q : ReachLeq(r, q)
  PROVE  ReachLeq(MergeReached(R), MergeReached(Q))
<1> SUFFICES ASSUME NEW s \in DOMAIN MergeReached(R)
             PROVE  /\ s \in DOMAIN MergeReached(Q)
                    /\ Leq(MergeReached(R)[s], MergeReached(Q)[s])
  BY DEF ReachLeq
<1>1. PICK r \in R : s \in DOMAIN r
  <2>1. DOMAIN MergeReached(R) = UNION {DOMAIN r : r \in R}
    BY MergedAre
  <2>2. QED BY <2>1
<1>2. s \in DOMAIN MergeReached(Q)
  <2>1. PICK q \in Q : ReachLeq(r, q)
    OBVIOUS
  <2>2. s \in DOMAIN q
    BY <1>1, <2>1 DEF ReachLeq
  <2>3. QED BY <2>2, MergedAre
<1>3. ASSUME NEW f \in ValuesAt(R, s) PROVE \E h \in ValuesAt(Q, s) : Leq(f, h)
  <2>1. PICK t \in R : s \in DOMAIN t /\ f = t[s]
    BY DEF ValuesAt
  <2>2. PICK q \in Q : ReachLeq(t, q)
    OBVIOUS
  <2>3. s \in DOMAIN q /\ Leq(t[s], q[s])
    BY <2>1, <2>2 DEF ReachLeq
  <2>4. QED BY <2>1, <2>3 DEF ValuesAt
<1>4. Leq(JoinAll(ValuesAt(R, s)), JoinAll(ValuesAt(Q, s)))
  <2>1. PICK V : V = ValuesAt(R, s)
    OBVIOUS
  <2>2. PICK W : W = ValuesAt(Q, s)
    OBVIOUS
  <2>3. V \in SUBSET Fact /\ IsFiniteSet(V) /\ W \in SUBSET Fact /\ IsFiniteSet(W)
    BY <2>1, <2>2, MergedAre
  <2>4. QED BY <1>3, <2>1, <2>2, <2>3, JoinAllGrows
<1>5. QED BY <1>2, <1>4, MergedAre

-----------------------------------------------------------------------------
(* The analysis of a thread as a function of its interferences and of the   *)
(* facts at the stores.                                                     *)
AnalysisOK == AnalysisTyped(Fact, IMap) /\ AnalysisMonotone(Fact, IMap)

Runs(f, entryFact, cur, reach, nocombs) ==
  {AnalyzeFunc(f, entryFact, m, nocombs) : m \in MapsOf(cur, reach, nocombs)}

ResultOf(f, entryFact, cur, reach, nocombs) == MergeReached(Runs(f, entryFact, cur, reach, nocombs))

(* The facts at the stores a thread reads from are known.                   *)
ReachOK(cur, reach) ==
  /\ IsInterfs(cur)
  /\ \A s \in DOMAIN reach : reach[s] \in Reachable
  /\ \A l \in DOMAIN cur : cur[l] \subseteq DOMAIN reach

InterfsLeq(cur1, cur2) == \A l \in DOMAIN cur1 : l \in DOMAIN cur2 /\ cur1[l] \subseteq cur2[l]

LEMMA FactsAtAre ==
  ASSUME ConstantsOK, NEW cur, NEW reach, ReachOK(cur, reach), NEW l \in DOMAIN cur
  PROVE  FactsAt(reach, cur[l]) \in SUBSET Fact /\ IsFiniteSet(FactsAt(reach, cur[l]))
<1>1. IsFiniteSet(cur[l])
  BY InterfsFinite DEF ReachOK
<1>2. FactsAt(reach, cur[l]) = ImageOf(reach, cur[l])
  BY DEF FactsAt, ImageOf
<1>3. IsFiniteSet(FactsAt(reach, cur[l]))
  <2>1. PICK S : S = cur[l]
    OBVIOUS
  <2>2. QED BY <1>1, <1>2, <2>1, ImageFinite
<1>4. FactsAt(reach, cur[l]) \in SUBSET Fact
  BY DEF FactsAt, ReachOK, Reachable
<1>5. QED BY <1>3, <1>4

LEMMA EmptyMap == DOMAIN <<>> = {} /\ \A nocombs : <<>> \in IMap(nocombs)
<1>1. \A S : <<>> \in [{} -> S]
  OBVIOUS
<1>2. QED BY <1>1 DEF IMap

LEMMA MapsOfAre ==
  ASSUME ConstantsOK, FactsOK, NEW cur, NEW reach, ReachOK(cur, reach), NEW nocombs \in BOOLEAN
  PROVE  MapsOf(cur, reach, nocombs) \subseteq IMap(nocombs) /\ IsFiniteSet(MapsOf(cur, reach, nocombs))
<1>1. CASE DOMAIN cur = {}
  BY <1>1, EmptyMap, FS_Singleton DEF MapsOf
<1>2. CASE DOMAIN cur # {} /\ nocombs
  <2>1. \A l \in DOMAIN cur : JoinAll(FactsAt(reach, cur[l])) \in Fact
    <3>1. ASSUME NEW l \in DOMAIN cur PROVE JoinAll(FactsAt(reach, cur[l])) \in Fact
      <4>1. PICK F : F = FactsAt(reach, cur[l])
        OBVIOUS
      <4>2. QED BY <4>1, FactsAtAre, JoinAllIsLeast
    <3>2. QED BY <3>1
  <2>2. JoinOf(cur, reach) \in [DOMAIN cur -> Fact]
    BY <2>1 DEF JoinOf
  <2>3. JoinOf(cur, reach) \in IMap(nocombs)
    BY <1>2, <2>2 DEF IMap, ReachOK, IsInterfs
  <2>4. QED BY <1>2, <2>3, FS_Singleton DEF MapsOf
<1>3. CASE DOMAIN cur # {} /\ ~ nocombs
  <2>1. ASSUME NEW c \in ReadChoices(cur) PROVE MapOf(c, reach) \in IMap(nocombs)
    <3> DEFINE L == {l \in DOMAIN cur : c[l] # Own}
    <3>1. DOMAIN c = DOMAIN cur /\ \A l \in L : c[l] \in cur[l]
      BY DEF ReadChoices
    <3>2. \A l \in L : reach[c[l]] \in Reachable
      BY <3>1 DEF ReachOK
    <3>3. MapOf(c, reach) = [l \in L |-> reach[c[l]]]
      BY <3>1 DEF MapOf
    <3>4. MapOf(c, reach) \in [L -> Reachable] /\ L \in SUBSET Load
      BY <3>2, <3>3 DEF ReachOK, IsInterfs
    <3>5. QED BY <1>3, <3>4 DEF IMap
  <2>2. IsFiniteSet({MapOf(c, reach) : c \in ReadChoices(cur)})
    <3> DEFINE g == [c \in ReadChoices(cur) |-> MapOf(c, reach)]
    <3>1. ImageOf(g, ReadChoices(cur)) = {MapOf(c, reach) : c \in ReadChoices(cur)}
      BY DEF ImageOf
    <3>2. IsFiniteSet(ReadChoices(cur))
      BY ChoicesFinite DEF ReachOK
    <3>3. IsFiniteSet(ImageOf(g, ReadChoices(cur)))
      <4> HIDE DEF g
      <4>1. PICK C : C = ReadChoices(cur)
        OBVIOUS
      <4>2. QED BY <3>2, <4>1, ImageFinite
    <3>4. QED BY <3>1, <3>3
  <2>3. QED BY <1>3, <2>1, <2>2 DEF MapsOf
<1>4. QED BY <1>1, <1>2, <1>3

(* The analyses of a thread, and so what they reach, are facts at sites of  *)
(* its function.                                                            *)
LEMMA RunsAre ==
  ASSUME ConstantsOK, FactsOK, AnalysisOK, NEW f \in Func, NEW e \in Fact, NEW cur, NEW reach,
         ReachOK(cur, reach), NEW nocombs \in BOOLEAN
  PROVE  /\ IsFiniteSet(Runs(f, e, cur, reach, nocombs))
         /\ \A r \in Runs(f, e, cur, reach, nocombs) :
              /\ DOMAIN r \subseteq {s \in Store \cup Create \cup Error : FuncOf(s) = f}
              /\ \A s \in DOMAIN r : r[s] \in Reachable
<1>1. PICK M : M = MapsOf(cur, reach, nocombs)
  OBVIOUS
<1>2. M \subseteq IMap(nocombs) /\ IsFiniteSet(M)
  BY <1>1, MapsOfAre
<1> DEFINE g == [m \in M |-> AnalyzeFunc(f, e, m, nocombs)]
<1>3. ImageOf(g, M) = Runs(f, e, cur, reach, nocombs)
  BY <1>1 DEF ImageOf, Runs
<1>4. IsFiniteSet(ImageOf(g, M))
  <2> HIDE DEF g
  <2>1. QED BY <1>2, ImageFinite
<1>5. ASSUME NEW m \in M
      PROVE  /\ DOMAIN AnalyzeFunc(f, e, m, nocombs) \subseteq {s \in Store \cup Create \cup Error : FuncOf(s) = f}
             /\ \A s \in DOMAIN AnalyzeFunc(f, e, m, nocombs) : AnalyzeFunc(f, e, m, nocombs)[s] \in Reachable
  BY <1>2 DEF AnalysisOK, AnalysisTyped
<1>6. QED BY <1>1, <1>3, <1>4, <1>5 DEF Runs

LEMMA ResultIs ==
  ASSUME ConstantsOK, FactsOK, AnalysisOK, NEW f \in Func, NEW e \in Fact, NEW cur, NEW reach,
         ReachOK(cur, reach), NEW nocombs \in BOOLEAN
  PROVE  /\ DOMAIN ResultOf(f, e, cur, reach, nocombs) \subseteq {s \in Store \cup Create \cup Error : FuncOf(s) = f}
         /\ \A s \in DOMAIN ResultOf(f, e, cur, reach, nocombs) : ResultOf(f, e, cur, reach, nocombs)[s] \in Reachable
<1>1. PICK R : R = Runs(f, e, cur, reach, nocombs)
  OBVIOUS
<1>2. /\ IsFiniteSet(R)
      /\ \A r \in R : /\ DOMAIN r \subseteq {s \in Store \cup Create \cup Error : FuncOf(s) = f}
                      /\ \A s \in DOMAIN r : r[s] \in Reachable
  BY <1>1, RunsAre
<1>3. /\ DOMAIN MergeReached(R) = UNION {DOMAIN r : r \in R}
      /\ \A s \in DOMAIN MergeReached(R) : MergeReached(R)[s] \in Reachable
  BY <1>2, MergedAre
<1>4. QED BY <1>1, <1>2, <1>3 DEF ResultOf

(* Each interference map has a larger one among more and larger             *)
(* interferences.                                                           *)
LEMMA MapsGrow ==
  ASSUME ConstantsOK, FactsOK, NEW nocombs \in BOOLEAN,
         NEW cur1, NEW reach1, ReachOK(cur1, reach1),
         NEW cur2, NEW reach2, ReachOK(cur2, reach2),
         InterfsLeq(cur1, cur2), ReachLeq(reach1, reach2),
         NEW m1 \in MapsOf(cur1, reach1, nocombs)
  PROVE  \E m2 \in MapsOf(cur2, reach2, nocombs) : InterfLeq(nocombs, m1, m2)
<1>1. DOMAIN cur1 \subseteq DOMAIN cur2 /\ \A l \in DOMAIN cur1 : cur1[l] \subseteq cur2[l]
  BY DEF InterfsLeq
<1>2. CASE DOMAIN cur2 = {}
  <2>1. DOMAIN cur1 = {} /\ m1 = <<>>
    BY <1>1, <1>2 DEF MapsOf
  <2>2. QED BY <1>2, <2>1, EmptyMap DEF MapsOf, InterfLeq
<1>3. CASE DOMAIN cur2 # {} /\ nocombs
  <2>1. MapsOf(cur2, reach2, nocombs) = {JoinOf(cur2, reach2)} /\ DOMAIN JoinOf(cur2, reach2) = DOMAIN cur2
    BY <1>3 DEF MapsOf, JoinOf
  <2>2. CASE DOMAIN cur1 = {}
    BY <1>3, <2>1, <2>2, EmptyMap DEF MapsOf, InterfLeq
  <2>3. CASE DOMAIN cur1 # {}
    <3>1. m1 = JoinOf(cur1, reach1) /\ DOMAIN m1 = DOMAIN cur1
      BY <1>3, <2>3 DEF MapsOf, JoinOf
    <3>2. ASSUME NEW l \in DOMAIN cur1 PROVE Leq(m1[l], JoinOf(cur2, reach2)[l])
      <4>1. PICK F : F = FactsAt(reach1, cur1[l])
        OBVIOUS
      <4>2. PICK H : H = FactsAt(reach2, cur2[l])
        OBVIOUS
      <4>3. l \in DOMAIN cur2
        BY <1>1
      <4>4. F \in SUBSET Fact /\ IsFiniteSet(F) /\ H \in SUBSET Fact /\ IsFiniteSet(H)
        BY <4>1, <4>2, <4>3, FactsAtAre
      <4>5. ASSUME NEW g \in F PROVE \E h \in H : Leq(g, h)
        <5>1. PICK s \in cur1[l] : g = reach1[s]
          BY <4>1 DEF FactsAt
        <5>2. s \in DOMAIN reach1 /\ s \in cur2[l]
          BY <1>1 DEF ReachOK
        <5>3. Leq(reach1[s], reach2[s])
          BY <5>2 DEF ReachLeq
        <5>4. QED BY <4>2, <5>1, <5>2, <5>3 DEF FactsAt
      <4>6. Leq(JoinAll(F), JoinAll(H))
        BY <4>4, <4>5, JoinAllGrows
      <4>7. QED BY <3>1, <4>1, <4>2, <4>3, <4>6 DEF JoinOf
    <3>3. QED BY <1>1, <1>3, <2>1, <3>1, <3>2 DEF InterfLeq
  <2>4. QED BY <2>2, <2>3
<1>4. CASE DOMAIN cur2 # {} /\ ~ nocombs
  <2>1. PICK c1 \in ReadChoices(cur1) : m1 = MapOf(c1, reach1)
    <3>1. CASE DOMAIN cur1 = {}
      <4>1. <<>> \in ReadChoices(cur1) /\ MapOf(<<>>, reach1) = <<>>
        BY <3>1 DEF ReadChoices, MapOf
      <4>2. m1 = <<>>
        BY <3>1 DEF MapsOf
      <4>3. QED BY <4>1, <4>2
    <3>2. CASE DOMAIN cur1 # {}
      BY <1>4, <3>2 DEF MapsOf
    <3>3. QED BY <3>1, <3>2
  <2> DEFINE c2 == [l \in DOMAIN cur2 |-> IF l \in DOMAIN cur1 THEN c1[l] ELSE Own]
  <2>2. c1 \in [DOMAIN cur1 -> Store \cup {Own}] /\ \A l \in DOMAIN cur1 : c1[l] = Own \/ c1[l] \in cur1[l]
    BY DEF ReadChoices
  <2>3. c2 \in ReadChoices(cur2)
    BY <1>1, <2>2 DEF ReadChoices
  <2>4. MapOf(c2, reach2) \in MapsOf(cur2, reach2, nocombs)
    BY <1>4, <2>3 DEF MapsOf
  <2>5. {l \in DOMAIN c1 : c1[l] # Own} = {l \in DOMAIN c2 : c2[l] # Own}
    BY <1>1, <2>2
  <2>6. DOMAIN m1 = DOMAIN MapOf(c2, reach2)
    BY <2>1, <2>5 DEF MapOf
  <2>7. ASSUME NEW l \in DOMAIN m1 PROVE Leq(m1[l], MapOf(c2, reach2)[l])
    <3>1. l \in DOMAIN cur1 /\ c1[l] # Own /\ c2[l] = c1[l] /\ l \in DOMAIN c2
      BY <1>1, <2>1, <2>2 DEF MapOf
    <3>2. c1[l] \in DOMAIN reach1
      BY <2>2, <3>1 DEF ReachOK
    <3>3. m1[l] = reach1[c1[l]]
      BY <2>1, <3>1, <2>2 DEF MapOf
    <3>4. MapOf(c2, reach2)[l] = reach2[c1[l]]
      BY <3>1 DEF MapOf
    <3>5. QED BY <3>2, <3>3, <3>4 DEF ReachLeq
  <2>8. QED BY <2>4, <2>6, <2>7 DEF InterfLeq
<1>5. QED BY <1>2, <1>3, <1>4

(* h is g, but that load l reads from c. *)
Rereads(g, h, l, c, reach) ==
  /\ c = Own => l \notin DOMAIN h
  /\ c # Own => l \in DOMAIN h /\ h[l] = reach[c]
  /\ \A k : k # l => (k \in DOMAIN h <=> k \in DOMAIN g) /\ (k \in DOMAIN g => h[k] = g[k])

(* One load may read from another store, the others read as before; joined, *)
(* the interferences of a load are above each of them.                      *)
LEMMA ChoiceChanged ==
  ASSUME ConstantsOK, NEW cur, NEW reach, ReachOK(cur, reach), NEW g \in MapsOf(cur, reach, FALSE),
         NEW l, NEW c, c = Own \/ (l \in DOMAIN cur /\ c \in cur[l])
  PROVE  \E h \in MapsOf(cur, reach, FALSE) : Rereads(g, h, l, c, reach)
<1>1. CASE DOMAIN cur = {}
  BY <1>1, EmptyMap DEF MapsOf, Rereads
<1>2. CASE DOMAIN cur # {} /\ l \notin DOMAIN cur
  BY <1>2 DEF MapsOf, MapOf, ReadChoices, Rereads
<1>3. CASE l \in DOMAIN cur
  <2>1. PICK d \in ReadChoices(cur) : g = MapOf(d, reach)
    BY <1>3 DEF MapsOf
  <2>2. d \in [DOMAIN cur -> Store \cup {Own}] /\ \A k \in DOMAIN cur : d[k] = Own \/ d[k] \in cur[k]
    BY DEF ReadChoices
  <2>3. c \in Store \cup {Own} /\ (c = Own \/ c \in cur[l])
    BY <1>3 DEF ReachOK, IsInterfs
  <2> DEFINE e == [d EXCEPT ![l] = c]
  <2>4. e \in [DOMAIN cur -> Store \cup {Own}] /\ e[l] = c /\ \A k \in DOMAIN cur : k # l => e[k] = d[k]
    BY <1>3, <2>2, <2>3
  <2> HIDE DEF e
  <2>5. e \in ReadChoices(cur)
    BY <2>2, <2>3, <2>4 DEF ReadChoices
  <2>6. MapOf(e, reach) \in MapsOf(cur, reach, FALSE)
    BY <1>3, <2>5 DEF MapsOf
  <2>7. DOMAIN MapOf(e, reach) = {k \in DOMAIN cur : e[k] # Own}
        /\ \A k \in DOMAIN cur : e[k] # Own => MapOf(e, reach)[k] = reach[e[k]]
    BY <2>4 DEF MapOf
  <2>8. DOMAIN g = {k \in DOMAIN cur : d[k] # Own}
        /\ \A k \in DOMAIN cur : d[k] # Own => g[k] = reach[d[k]]
    BY <2>1, <2>2 DEF MapOf
  <2>9. PICK h : h = MapOf(e, reach)
    OBVIOUS
  <2>10. (c = Own => l \notin DOMAIN h) /\ (c # Own => l \in DOMAIN h /\ h[l] = reach[c])
    BY <1>3, <2>4, <2>7, <2>9
  <2>11. \A k : k # l => (k \in DOMAIN h <=> k \in DOMAIN g)
    BY <2>4, <2>7, <2>8, <2>9
  <2>12. \A k : k # l /\ k \in DOMAIN g => h[k] = g[k]
    BY <2>4, <2>7, <2>8, <2>9
  <2>13. h \in MapsOf(cur, reach, FALSE)
    BY <2>6, <2>9
  <2>14. QED BY <2>10, <2>11, <2>12, <2>13 DEF Rereads
<1>4. QED BY <1>1, <1>2, <1>3

LEMMA JoinedIsAbove ==
  ASSUME ConstantsOK, FactsOK, NEW cur, NEW reach, ReachOK(cur, reach), NEW g \in MapsOf(cur, reach, TRUE),
         NEW l \in DOMAIN cur, NEW s \in cur[l]
  PROVE  l \in DOMAIN g /\ Leq(reach[s], g[l])
<1>1. g = JoinOf(cur, reach)
  BY DEF MapsOf
<1>2. PICK F : F = FactsAt(reach, cur[l])
  OBVIOUS
<1>3. F \in SUBSET Fact /\ IsFiniteSet(F)
  BY <1>2, FactsAtAre
<1>4. reach[s] \in F
  BY <1>2 DEF FactsAt
<1>5. Leq(reach[s], JoinAll(F))
  BY <1>3, <1>4, JoinAllIsLeast
<1>6. QED BY <1>1, <1>2, <1>5 DEF JoinOf

LEMMA MapsExist ==
  ASSUME NEW cur, NEW reach, NEW nocombs \in BOOLEAN
  PROVE  MapsOf(cur, reach, nocombs) # {}
<1>1. [l \in DOMAIN cur |-> Own] \in ReadChoices(cur)
  BY DEF ReadChoices
<1>2. QED BY <1>1 DEF MapsOf

(* More and larger interferences, from a larger fact on entry, reach more.   *)
LEMMA ResultGrows ==
  ASSUME ConstantsOK, FactsOK, AnalysisOK, NEW f \in Func, NEW nocombs \in BOOLEAN,
         NEW e1 \in Fact, NEW cur1, NEW reach1, ReachOK(cur1, reach1),
         NEW e2 \in Fact, NEW cur2, NEW reach2, ReachOK(cur2, reach2),
         Leq(e1, e2), InterfsLeq(cur1, cur2), ReachLeq(reach1, reach2)
  PROVE  ReachLeq(ResultOf(f, e1, cur1, reach1, nocombs), ResultOf(f, e2, cur2, reach2, nocombs))
<1>1. PICK R : R = Runs(f, e1, cur1, reach1, nocombs)
  OBVIOUS
<1>2. PICK Q : Q = Runs(f, e2, cur2, reach2, nocombs)
  OBVIOUS
<1>3. /\ IsFiniteSet(R) /\ \A r \in R : \A s \in DOMAIN r : r[s] \in Reachable
      /\ IsFiniteSet(Q) /\ \A r \in Q : \A s \in DOMAIN r : r[s] \in Reachable
  BY <1>1, <1>2, RunsAre
<1>4. ASSUME NEW r \in R PROVE \E q \in Q : ReachLeq(r, q)
  <2>1. PICK m1 \in MapsOf(cur1, reach1, nocombs) : r = AnalyzeFunc(f, e1, m1, nocombs)
    BY <1>1 DEF Runs
  <2>2. PICK m2 \in MapsOf(cur2, reach2, nocombs) : InterfLeq(nocombs, m1, m2)
    BY MapsGrow
  <2>3. m1 \in IMap(nocombs) /\ m2 \in IMap(nocombs)
    BY MapsOfAre
  <2>4. ReachLeq(r, AnalyzeFunc(f, e2, m2, nocombs))
    BY <2>1, <2>2, <2>3 DEF AnalysisOK, AnalysisMonotone
  <2>5. AnalyzeFunc(f, e2, m2, nocombs) \in Q
    BY <1>2 DEF Runs
  <2>6. QED BY <2>4, <2>5
<1>5. QED BY <1>1, <1>2, <1>3, <1>4, MergeGrows DEF ResultOf

-----------------------------------------------------------------------------
(* No interference is missing in the end.                                   *)

(* The threads are the ones ThreadCreate starts, and main.                  *)
ThreadsKnown ==
  /\ option.main \in Func
  /\ ThreadCreate[option.main] \in Seq(Create)
  /\ ~ option.dyninit =>
       threadFuncs = {option.main} \cup {Starts[ci] : ci \in Range(ThreadCreate[option.main])}

(* The interferences of a thread are those of the stores of the last         *)
(* iteration.                                                               *)
InterfsOfLast ==
  /\ DOMAIN interfs = Func
  /\ ~ option.dyninit =>
       \A f \in threadFuncs : \A l \in Load :
         FuncOf(l) = f /\ InterferingAt(l, allReachStores) # {} =>
           l \in DOMAIN interfs[f] /\ InterferingAt(l, allReachStores) \subseteq interfs[f][l]

(* The iteration ends when no store is new.                                 *)
NoNewStore ==
  status = "done" /\ ~ NoThreads => DOMAIN newReachStores \subseteq DOMAIN allReachStores

InterfInv == ThreadsKnown /\ InterfsOfLast /\ NoNewStore

LEMMA OptionMain ==
  ASSUME ConstantsOK, NEW o \in CheckCommandLineArgs
  PROVE  o.main \in Func /\ ThreadCreate[o.main] \in Seq(Create)
<1>1. PICK p \in Option : o = WithDynInit(p)
  BY DEF CheckCommandLineArgs
<1>2. p \in [main : Func, nocombs : BOOLEAN, dyninit : BOOLEAN, filter_mhb : BOOLEAN,
             constraints : BOOLEAN]
  BY DEF ConstantsOK
<1>3. o.main = p.main
  BY <1>1, <1>2 DEF WithDynInit
<1> QED
  BY <1>2, <1>3 DEF ConstantsOK

(* Without -dyninit the sites of an iteration are all there are.             *)
LEMMA SitesAre ==
  ASSUME ConstantsOK, ~ option.dyninit, ThreadCreate[option.main] \in Seq(Create)
  PROVE  {SiteFunc(ci) : ci \in Range(ThreadSites)}
           = {option.main} \cup {Starts[ci] : ci \in Range(ThreadCreate[option.main])}
<1> DEFINE made == ThreadCreate[option.main]
<1>1. ThreadSites = Append(made, MainSite)
  BY DEF ThreadSites
<1>2. Range(Append(made, MainSite)) = Range(made) \cup {MainSite}
  <2> HIDE DEF made
  <2> SUFFICES ASSUME made \in Seq(Create)
      PROVE  Range(Append(made, MainSite)) = Range(made) \cup {MainSite}
    BY DEF made
  <2>1. /\ DOMAIN Append(made, MainSite) = 1 .. Len(made) + 1
        /\ DOMAIN made = 1 .. Len(made)
        /\ Append(made, MainSite)[Len(made) + 1] = MainSite
        /\ \A i \in 1 .. Len(made) : Append(made, MainSite)[i] = made[i]
        /\ Len(made) \in Nat
    OBVIOUS
  <2> QED
    BY <2>1 DEF Range
<1>3. \A ci \in Range(made) : ci \in Create /\ ci # MainSite
  <2>1. \A i \in DOMAIN made : made[i] \in Create
    OBVIOUS
  <2> QED
    BY <2>1 DEF Range, ConstantsOK
<1>4. SiteFunc(MainSite) = option.main
  BY DEF SiteFunc
<1>5. \A ci \in Range(made) : SiteFunc(ci) = Starts[ci]
  BY <1>3 DEF SiteFunc
<1> QED
  <2> HIDE DEF made
  <2>1. {SiteFunc(ci) : ci \in Range(made) \cup {MainSite}}
          = {option.main} \cup {Starts[ci] : ci \in Range(made)}
    BY <1>4, <1>5
  <2> QED
    BY <1>1, <1>2, <2>1 DEF made

LEMMA InitEstablishes ==
  ASSUME ConstantsOK
  PROVE  Init => InterfInv
<1> SUFFICES ASSUME Init PROVE InterfInv
  OBVIOUS
<1>1. ThreadsKnown
  BY OptionMain, SitesAre DEF Init, ThreadsKnown
<1>2. DOMAIN allReachStores = {}
  BY DEF Init
<1>3. \A l \in Load : InterferingAt(l, allReachStores) = {}
  BY <1>2 DEF InterferingAt
<1>4. DOMAIN interfs = Func
  BY DEF Init
<1> QED
  BY <1>1, <1>3, <1>4 DEF Init, InterfInv, InterfsOfLast, NoNewStore

(* No thread is discovered without -dyninit.                                 *)
LEMMA AnalyzeThreadKeeps ==
  ASSUME InterfInv, AnalyzeThread
  PROVE  InterfInv'
<1> USE DEF InterfInv
<1>1. UNCHANGED <<option, interfs, allReachStores, status>> /\ status = "running"
  BY DEF AnalyzeThread
<1>2. ~ option.dyninit => threadFuncs' = threadFuncs
  <2> SUFFICES ASSUME ~ option.dyninit PROVE threadFuncs' = threadFuncs
    OBVIOUS
  <2>1. PICK reached : threadFuncs' = threadFuncs \cup {SiteFunc(c) : c \in Range(NewSites(reached))}
    BY DEF AnalyzeThread
  <2>2. Range(NewSites(reached)) = {}
    BY DEF NewSites, Range
  <2> QED
    BY <2>1, <2>2
<1>3. ThreadsKnown'
  BY <1>1, <1>2 DEF ThreadsKnown
<1>4. InterfsOfLast'
  BY <1>1, <1>2 DEF InterfsOfLast, InterferingAt
<1>5. NoNewStore'
  BY <1>1 DEF NoNewStore
<1> QED
  BY <1>3, <1>4, <1>5

(* The interferences are recomputed from the stores they are kept with.      *)
LEMMA NextIterationKeeps ==
  ASSUME ConstantsOK, InterfInv, NextIteration
  PROVE  InterfInv'
<1> USE DEF InterfInv
<1>1. /\ interfs' = [f \in Func |-> IF f \in threadFuncs THEN InterferingStores(f, newReachStores)
                                    ELSE interfs[f]]
      /\ allReachStores' = newReachStores
      /\ UNCHANGED <<option, threadFuncs, newReachStores, status>>
      /\ status = "running"
  BY DEF NextIteration
<1>2. ThreadsKnown'
  BY <1>1 DEF ThreadsKnown
<1>3. NoNewStore'
  BY <1>1 DEF NoNewStore
<1>4. InterfsOfLast'
  <2>1. DOMAIN interfs' = Func
    BY <1>1
  <2>2. ASSUME ~ option.dyninit, NEW f \in threadFuncs, NEW l \in Load, FuncOf(l) = f,
               InterferingAt(l, newReachStores) # {}
        PROVE  /\ l \in DOMAIN interfs'[f]
               /\ InterferingAt(l, newReachStores) \subseteq interfs'[f][l]
    <3>1. f \in Func
      <4>1. \A i \in DOMAIN ThreadCreate[option.main] : ThreadCreate[option.main][i] \in Create
        BY DEF ThreadsKnown
      <4> QED
        BY <2>2, <4>1 DEF ThreadsKnown, ConstantsOK, Range
    <3>2. interfs'[f] = InterferingStores(f, newReachStores)
      BY <1>1, <3>1
    <3> QED
      BY <2>2, <3>2 DEF InterferingStores
  <2>3. \A l : InterferingAt(l, allReachStores)' = InterferingAt(l, newReachStores)
    BY <1>1 DEF InterferingAt
  <2> QED
    BY <1>1, <2>1, <2>2, <2>3 DEF InterfsOfLast
<1> QED
  BY <1>2, <1>3, <1>4

LEMMA FinishKeeps ==
  ASSUME InterfInv, Finish
  PROVE  InterfInv'
<1> USE DEF InterfInv
<1>1. UNCHANGED <<option, threadFuncs, interfs, allReachStores, newReachStores>>
  BY DEF Finish
<1>2. NoNewStore'
  BY <1>1 DEF Finish, NoNewStore, NoThreads, StableStores
<1> QED
  BY <1>1, <1>2 DEF ThreadsKnown, InterfsOfLast, InterferingAt

LEMMA StepKeeps ==
  ASSUME ConstantsOK, InterfInv, [Next]_vars
  PROVE  InterfInv'
<1> USE DEF InterfInv
<1>1. CASE AnalyzeThread
  BY <1>1, AnalyzeThreadKeeps
<1>2. CASE Abort
  BY <1>2 DEF Abort, ThreadsKnown, InterfsOfLast, InterferingAt, NoNewStore
<1>3. CASE Finish
  BY <1>3, FinishKeeps
<1>4. CASE NextIteration
  BY <1>4, NextIterationKeeps
<1>5. CASE UNCHANGED vars
  BY <1>5 DEF vars, ThreadsKnown, InterfsOfLast, InterferingAt, NoNewStore, NoThreads
<1> QED
  BY <1>1, <1>2, <1>3, <1>4, <1>5 DEF Next

LEMMA InvImplies == InterfInv => NoneMissed
<1> SUFFICES ASSUME InterfInv, status = "done", ~ option.dyninit, ~ NoThreads,
                    NEW f \in threadFuncs,
                    NEW l \in DOMAIN InterferingStores(f, newReachStores)
    PROVE  /\ l \in DOMAIN interfs[f]
           /\ InterferingStores(f, newReachStores)[l] \subseteq interfs[f][l]
  BY DEF NoneMissed
<1>1. /\ l \in Load
      /\ FuncOf(l) = f
      /\ InterferingAt(l, newReachStores) # {}
      /\ InterferingStores(f, newReachStores)[l] = InterferingAt(l, newReachStores)
  BY DEF InterferingStores
<1>2. InterferingAt(l, newReachStores) \subseteq InterferingAt(l, allReachStores)
  BY DEF InterfInv, NoNewStore, InterferingAt
<1> QED
  BY <1>1, <1>2 DEF InterfInv, InterfsOfLast

(* When the iteration ends without -dyninit, every thread has been analysed  *)
(* with each reached store that may interfere with one of its loads          *)
(* (worklistai.cpp: runOnModule, stableStores), whatever the analysis of a   *)
(* function returns.                                                         *)
THEOREM NoInterferenceMissed ==
  ASSUME ConstantsOK
  PROVE  Spec => []NoneMissed
<1>1. Init => InterfInv
  BY InitEstablishes
<1>2. InterfInv /\ [Next]_vars => InterfInv'
  BY StepKeeps
<1>3. InterfInv => NoneMissed
  BY InvImplies
<1> QED
  BY <1>1, <1>2, <1>3, PTL DEF Spec

-----------------------------------------------------------------------------
(* Nothing that was reached is lost.                                        *)

(* The command lines the proofs are about: without the constraints, and with *)
(* -dyninit only when a function is started at one place, as its facts are   *)
(* replaced each time it is analysed.                                        *)
OneSiteEach ==
  /\ \A c, d \in Create : Starts[c] = Starts[d] => c = d
  /\ \A c \in Create : \A o \in Option : Starts[c] # o.main

Covered == ~ option.constraints /\ (option.dyninit => OneSiteEach)

(* The creation sites whose threads may be analysed. *)
KnownSites == {MainSite} \cup (IF option.dyninit THEN DOMAIN threadEntryFacts ELSE Create)

(* A map from sites of S to what is known of them. *)
Reaches(S, m) == DOMAIN m \subseteq S /\ \A k \in DOMAIN m : m[k] \in Reachable

Shape ==
  /\ option \in CheckCommandLineArgs /\ address \in Layout
  /\ threadFuncs \subseteq Func
  /\ threadsToProcess \in Seq(KnownSites)
  /\ \A i \in DOMAIN threadsToProcess : SiteFunc(threadsToProcess[i]) \in threadFuncs
  /\ \A i \in DOMAIN ThreadSites : SiteFunc(ThreadSites[i]) \in threadFuncs
  /\ Reaches(Create, threadEntryFacts) /\ Reaches(Store, allReachStores) /\ Reaches(Store, newReachStores)

(* A load may read from stores of other threads that were reached.           *)
InterfsKnown ==
  /\ DOMAIN interfs = Func
  /\ \A f \in Func : \A l \in DOMAIN interfs[f] :
       /\ l \in Load /\ FuncOf(l) = f
       /\ interfs[f][l] # {} /\ interfs[f][l] \subseteq InterferingAt(l, newReachStores)

(* What the thread of a site would reach if it were analysed now.            *)
Again(ci) ==
  ResultOf(SiteFunc(ci), EntryFact(ci), FilterMHBInterfs(interfs[SiteFunc(ci)]), newReachStores,
           option.nocombs)

(* What is known of a site would be reached again.                           *)
ReachedAgain(m) ==
  \A s \in DOMAIN m : \E ci \in KnownSites :
    /\ SiteFunc(ci) = FuncOf(s)
    /\ s \in DOMAIN Again(ci) /\ Leq(m[s], Again(ci)[s])

NothingLost == ReachedAgain(newReachStores) /\ ReachedAgain(threadEntryFacts)

WhyAborted ==
  status = "aborted" =>
    \/ option.nocombs /\ option.filter_mhb
    \/ ~ option.nocombs /\ \E f \in threadFuncs : DOMAIN interfs[f] \cap Store # {}

GrowInv == Covered => Shape /\ InterfsKnown /\ NothingLost /\ WhyAborted

(* What a thread reaches with the facts the iteration started from.          *)
OfLast(ci) ==
  ResultOf(SiteFunc(ci), InitFact, FilterMHBInterfs(InterferingStores(SiteFunc(ci), allReachStores)),
           allReachStores, option.nocombs)

RecordedOf(reached) ==
  \A s \in DOMAIN reached :
    /\ s \in Store => s \in DOMAIN newReachStores /\ Leq(reached[s], newReachStores[s])
    /\ s \in Error => s \in rErrors

IterationDone ==
  /\ ReachLeq(allReachStores, newReachStores)
  /\ \A ci \in FinalSites : ci \in Range(threadsToProcess) \/ RecordedOf(OfLast(ci))

StableAtEnd ==
  status = "done" => threadsToProcess = <<>> /\ (NoThreads \/ StableStores(allReachStores, newReachStores))

OptionKnown == option \in CheckCommandLineArgs

FixInv == OptionKnown /\ GrowInv /\ InterfInv /\ (~ option.dyninit => IterationDone /\ StableAtEnd)

(* What the proofs assume of a program, of the facts and of the analysis of *)
(* one function.                                                            *)
Assumed == ConstantsOK /\ FactsOK /\ AnalysisOK

LEMMA OptionIs ==
  ASSUME ConstantsOK, NEW o \in CheckCommandLineArgs
  PROVE  /\ o.main \in Func /\ o.nocombs \in BOOLEAN /\ o.dyninit \in BOOLEAN
         /\ ThreadCreate[o.main] \in Seq(Create)
         /\ o.constraints => o.dyninit
         /\ \E p \in Option : o.main = p.main
<1>1. PICK p \in Option : o = WithDynInit(p)
  BY DEF CheckCommandLineArgs
<1>2. p \in [main : Func, nocombs : BOOLEAN, dyninit : BOOLEAN, filter_mhb : BOOLEAN,
             constraints : BOOLEAN]
  BY DEF ConstantsOK
<1>3. /\ o.main = p.main /\ o.nocombs = p.nocombs /\ o.constraints = p.constraints
      /\ o.dyninit = (p.dyninit \/ p.constraints)
  BY <1>1, <1>2 DEF WithDynInit
<1> QED
  BY <1>2, <1>3 DEF ConstantsOK

LEMMA KnownSiteIs ==
  ASSUME Assumed, Shape, NEW ci \in KnownSites
  PROVE  SiteFunc(ci) \in Func /\ EntryFact(ci) \in Fact /\ ci \in Create \cup {MainSite}
<1>1. ci \in Create \cup {MainSite}
  BY DEF KnownSites, Shape, Reaches, Reachable
<1>2. SiteFunc(ci) \in Func
  BY <1>1, OptionIs DEF SiteFunc, Shape, Assumed, ConstantsOK
<1>3. EntryFact(ci) \in Fact
  BY DEF EntryFact, KnownSites, Shape, Reaches, Assumed, FactsOK, Reachable
<1>4. QED BY <1>1, <1>2, <1>3

LEMMA FilterIs ==
  ASSUME NEW c
  PROVE  /\ DOMAIN FilterMHBInterfs(c) = DOMAIN c
         /\ \A l \in DOMAIN c : /\ FilterMHBInterfs(c)[l] \subseteq c[l]
                                /\ ~ option.filter_mhb => FilterMHBInterfs(c)[l] = c[l]
  BY DEF FilterMHBInterfs

LEMMA FilterGrows ==
  ASSUME NEW c, NEW d, InterfsLeq(c, d)
  PROVE  InterfsLeq(FilterMHBInterfs(c), FilterMHBInterfs(d))
  BY DEF InterfsLeq, FilterMHBInterfs

(* The stores a thread reads from, as recorded, have facts.                  *)
LEMMA InterfsHaveFacts ==
  ASSUME Assumed, Shape, InterfsKnown, NEW f \in Func
  PROVE  ReachOK(FilterMHBInterfs(interfs[f]), newReachStores)
<1>1. \A l \in DOMAIN interfs[f] : l \in Load /\ interfs[f][l] \subseteq DOMAIN newReachStores
  BY DEF InterfsKnown, InterferingAt
<1>2. DOMAIN newReachStores \subseteq Store /\ \A s \in DOMAIN newReachStores : newReachStores[s] \in Reachable
  BY DEF Shape, Reaches, Reachable
<1>3. QED BY <1>1, <1>2, FilterIs DEF ReachOK, IsInterfs

(* So do those among the stores of any map of facts.                        *)
LEMMA InterferingHaveFacts ==
  ASSUME NEW f \in Func, NEW reach, Reaches(Store, reach)
  PROVE  /\ ReachOK(FilterMHBInterfs(InterferingStores(f, reach)), reach)
         /\ ReachOK(InterferingStores(f, reach), reach)
<1>1. \A l \in DOMAIN InterferingStores(f, reach) :
        l \in Load /\ InterferingStores(f, reach)[l] \subseteq DOMAIN reach
  BY DEF InterferingStores, InterferingAt
<1>2. DOMAIN reach \subseteq Store /\ \A s \in DOMAIN reach : reach[s] \in Reachable
  BY DEF Reaches, Reachable
<1>3. QED BY <1>1, <1>2, FilterIs DEF ReachOK, IsInterfs

LEMMA AnalysisIs ==
  ASSUME Assumed, Covered, Shape, NEW ci, NEW cur, IsInterfs(cur)
  PROVE  AnalyzeThreadInterf(ci, cur, Rejected(cur))
           = ResultOf(SiteFunc(ci), EntryFact(ci), cur, newReachStores, option.nocombs)
<1>1. InterfMaps(cur, Rejected(cur)) = MapsOf(cur, newReachStores, option.nocombs)
  BY MapsAre, OptionIs DEF Assumed, Covered, Shape
<1>2. QED BY <1>1 DEF AnalyzeThreadInterf, ResultOf, Runs

LEMMA AgainIs ==
  ASSUME Assumed, Shape, InterfsKnown, NEW ci \in KnownSites
  PROVE  /\ DOMAIN Again(ci) \subseteq {s \in Store \cup Create \cup Error : FuncOf(s) = SiteFunc(ci)}
         /\ \A s \in DOMAIN Again(ci) : Again(ci)[s] \in Reachable
<1>1. PICK f : f = SiteFunc(ci)
  OBVIOUS
<1>2. PICK e : e = EntryFact(ci)
  OBVIOUS
<1>3. PICK cur : cur = FilterMHBInterfs(interfs[SiteFunc(ci)])
  OBVIOUS
<1>4. PICK reach : reach = newReachStores
  OBVIOUS
<1>5. PICK n : n = option.nocombs
  OBVIOUS
<1>6. f \in Func /\ e \in Fact /\ n \in BOOLEAN
  BY <1>1, <1>2, <1>5, KnownSiteIs, OptionIs DEF Shape, Assumed
<1>7. ReachOK(cur, reach)
  BY <1>1, <1>3, <1>4, <1>6, InterfsHaveFacts
<1>8. /\ DOMAIN ResultOf(f, e, cur, reach, n) \subseteq {s \in Store \cup Create \cup Error : FuncOf(s) = f}
      /\ \A s \in DOMAIN ResultOf(f, e, cur, reach, n) : ResultOf(f, e, cur, reach, n)[s] \in Reachable
  BY <1>6, <1>7, ResultIs DEF Assumed
<1>9. Again(ci) = ResultOf(f, e, cur, reach, n)
  BY <1>1, <1>2, <1>3, <1>4, <1>5 DEF Again
<1>10. QED BY <1>1, <1>8, <1>9

(* Two sites that start the same function start it with the same fact.      *)
LEMMA SameAgain ==
  ASSUME Assumed, Covered, Shape, NEW ci \in KnownSites, NEW di \in KnownSites,
         SiteFunc(ci) = SiteFunc(di)
  PROVE  Again(ci) = Again(di)
<1>1. CASE ~ option.dyninit
  BY <1>1 DEF Again, EntryFact
<1>2. CASE option.dyninit
  <2>1. OneSiteEach
    BY <1>2 DEF Covered
  <2>2. PICK p \in Option : option.main = p.main
    BY OptionIs DEF Shape, Assumed
  <2>3. ci \in Create \cup {MainSite} /\ di \in Create \cup {MainSite} /\ MainSite \notin Create
    BY KnownSiteIs DEF Assumed, ConstantsOK
  <2>4. ci = di
    BY <2>1, <2>2, <2>3 DEF SiteFunc, OneSiteEach
  <2>5. QED BY <2>4
<1>3. QED BY <1>1, <1>2

(* When facts and interferences only grow, so does what a thread reaches.   *)
LEMMA AgainGrows ==
  ASSUME Assumed, Shape, InterfsKnown, Shape', InterfsKnown', option' = option,
         ReachLeq(newReachStores, newReachStores'),
         ReachLeq(threadEntryFacts, threadEntryFacts'),
         \A f \in Func : InterfsLeq(interfs[f], interfs'[f]),
         NEW ci \in KnownSites
  PROVE  /\ ci \in KnownSites' /\ SiteFunc(ci)' = SiteFunc(ci)
         /\ ReachLeq(Again(ci), Again(ci)')
         /\ \A s \in DOMAIN Again(ci)' : Again(ci)'[s] \in Reachable
<1>1. ci \in KnownSites'
  BY DEF KnownSites, ReachLeq
<1>2. SiteFunc(ci)' = SiteFunc(ci)
  BY DEF SiteFunc
<1>3. PICK f : f = SiteFunc(ci)
  OBVIOUS
<1>4. f \in Func
  BY <1>3, KnownSiteIs
<1>5. PICK e1 : e1 = EntryFact(ci)
  OBVIOUS
<1>6. PICK e2 : e2 = EntryFact(ci)'
  OBVIOUS
<1>7. e1 \in Fact /\ e2 \in Fact
  <2>1. e1 \in Fact
    BY <1>5, KnownSiteIs
  <2>2. e2 \in Fact
    BY <1>1, <1>6 DEF EntryFact, KnownSites, Shape, Reaches, Assumed, FactsOK, Reachable
  <2>3. QED BY <2>1, <2>2
<1>8. Leq(e1, e2)
  <2>1. CASE option.dyninit /\ ci # MainSite
    <3>1. ci \in DOMAIN threadEntryFacts
      BY <2>1 DEF KnownSites
    <3>2. e1 = threadEntryFacts[ci] /\ e2 = threadEntryFacts'[ci]
      BY <1>5, <1>6, <2>1 DEF EntryFact
    <3>3. QED BY <3>1, <3>2 DEF ReachLeq
  <2>2. CASE ~ (option.dyninit /\ ci # MainSite)
    <3>1. e1 = InitFact /\ e2 = InitFact
      BY <1>5, <1>6, <2>2 DEF EntryFact
    <3>2. QED BY <3>1 DEF Assumed, FactsOK, Reachable
  <2>3. QED BY <2>1, <2>2
<1>9. PICK cur1 : cur1 = FilterMHBInterfs(interfs[f])
  OBVIOUS
<1>10. PICK cur2 : cur2 = FilterMHBInterfs(interfs[f])'
  OBVIOUS
<1>11. InterfsLeq(cur1, cur2)
  <2>1. PICK c : c = interfs[f]
    OBVIOUS
  <2>2. PICK d : d = interfs'[f]
    OBVIOUS
  <2>3. cur1 = FilterMHBInterfs(c)
    BY <1>9, <2>1
  <2>4. cur2 = FilterMHBInterfs(d)
    BY <1>10, <2>2 DEF FilterMHBInterfs
  <2>5. InterfsLeq(c, d)
    BY <1>4, <2>1, <2>2
  <2>6. QED BY <2>3, <2>4, <2>5, FilterGrows
<1>12. PICK reach1 : reach1 = newReachStores
  OBVIOUS
<1>13. PICK reach2 : reach2 = newReachStores'
  OBVIOUS
<1>14. ReachOK(cur1, reach1)
  BY <1>4, <1>9, <1>12, InterfsHaveFacts
<1>15. ReachOK(cur2, reach2)
  <2>1. PICK d : d = interfs'[f]
    OBVIOUS
  <2>2. \A l \in DOMAIN d : l \in Load /\ d[l] \subseteq DOMAIN reach2
    BY <1>4, <1>13, <2>1 DEF InterfsKnown, InterferingAt
  <2>3. DOMAIN reach2 \subseteq Store /\ \A s \in DOMAIN reach2 : reach2[s] \in Reachable
    BY <1>13 DEF Shape, Reaches, Reachable
  <2>4. cur2 = FilterMHBInterfs(d)
    BY <1>10, <2>1 DEF FilterMHBInterfs
  <2>5. QED BY <2>2, <2>3, <2>4, FilterIs DEF ReachOK, IsInterfs
<1>16. PICK n : n = option.nocombs
  OBVIOUS
<1>17. n \in BOOLEAN
  BY <1>16, OptionIs DEF Shape, Assumed
<1>18. ReachLeq(reach1, reach2)
  BY <1>12, <1>13
<1>19. ReachLeq(ResultOf(f, e1, cur1, reach1, n), ResultOf(f, e2, cur2, reach2, n))
  BY <1>4, <1>7, <1>8, <1>11, <1>14, <1>15, <1>17, <1>18, ResultGrows DEF Assumed
<1>20. Again(ci) = ResultOf(f, e1, cur1, reach1, n)
  BY <1>3, <1>5, <1>9, <1>12, <1>16 DEF Again
<1>21. Again(ci)' = ResultOf(f, e2, cur2, reach2, n)
  BY <1>2, <1>3, <1>6, <1>10, <1>13, <1>16 DEF Again
<1>22. \A s \in DOMAIN ResultOf(f, e2, cur2, reach2, n) : ResultOf(f, e2, cur2, reach2, n)[s] \in Reachable
  BY <1>4, <1>7, <1>15, <1>17, ResultIs DEF Assumed
<1>23. QED BY <1>1, <1>2, <1>19, <1>20, <1>21, <1>22

LEMMA SeqParts ==
  ASSUME NEW S, NEW q \in Seq(S), q # <<>>, NEW r \in Seq(S)
  PROVE  /\ Head(q) \in Range(q) /\ Head(q) \in S
         /\ Tail(q) \o r \in Seq(S)
         /\ Range(Tail(q) \o r) \subseteq Range(q) \cup Range(r)
         /\ Range(q) \subseteq {Head(q)} \cup Range(Tail(q) \o r)
<1>1. /\ Len(q) \in Nat /\ Len(q) # 0 /\ DOMAIN q = 1 .. Len(q)
      /\ Len(r) \in Nat /\ DOMAIN r = 1 .. Len(r)
      /\ Head(q) = q[1] /\ \A i \in 1 .. Len(q) : q[i] \in S
  OBVIOUS
<1>2. PICK t : t = Tail(q) \o r
  OBVIOUS
<1>3. /\ t \in Seq(S) /\ DOMAIN t = 1 .. (Len(q) - 1) + Len(r)
      /\ \A i \in 1 .. Len(q) - 1 : t[i] = q[i + 1]
      /\ \A i \in 1 .. Len(r) : t[(Len(q) - 1) + i] = r[i]
  <2>1. PICK u : u = Tail(q)
    OBVIOUS
  <2>2. u \in Seq(S) /\ Len(u) = Len(q) - 1 /\ \A i \in 1 .. Len(q) - 1 : u[i] = q[i + 1]
    BY <1>1, <2>1
  <2>3. t = u \o r
    BY <1>2, <2>1
  <2>4. t \in Seq(S) /\ Len(t) = Len(u) + Len(r)
    BY <2>2, <2>3
  <2>5. \A i \in 1 .. Len(u) : t[i] = u[i]
    BY <2>2, <2>3
  <2>6. \A i \in 1 .. Len(r) : t[Len(u) + i] = r[i]
    BY <2>2, <2>3
  <2>7. QED BY <2>2, <2>4, <2>5, <2>6
<1>4. ASSUME NEW i \in DOMAIN t PROVE t[i] \in Range(q) \cup Range(r)
  <2>1. CASE i \in 1 .. Len(q) - 1
    <3>1. t[i] = q[i + 1] /\ i + 1 \in DOMAIN q
      BY <1>1, <1>3, <2>1
    <3>2. QED BY <3>1 DEF Range
  <2>2. CASE i \notin 1 .. Len(q) - 1
    <3>1. i - (Len(q) - 1) \in 1 .. Len(r) /\ (Len(q) - 1) + (i - (Len(q) - 1)) = i
      BY <1>1, <1>3, <2>2
    <3>2. t[i] = r[i - (Len(q) - 1)]
      BY <1>3, <3>1
    <3>3. QED BY <1>1, <3>1, <3>2 DEF Range
  <2>3. QED BY <2>1, <2>2
<1>5. ASSUME NEW i \in DOMAIN q, i # 1 PROVE q[i] \in Range(t)
  <2>1. i - 1 \in 1 .. Len(q) - 1 /\ (i - 1) + 1 = i
    BY <1>1, <1>5
  <2>2. t[i - 1] = q[i] /\ i - 1 \in DOMAIN t
    BY <1>1, <1>3, <2>1
  <2>3. QED BY <2>2 DEF Range
<1>6. Head(q) \in Range(q) /\ Head(q) \in S
  BY <1>1 DEF Range
<1>7. Range(t) \subseteq Range(q) \cup Range(r)
  BY <1>4 DEF Range
<1>8. Range(q) \subseteq {Head(q)} \cup Range(t)
  BY <1>1, <1>5 DEF Range
<1>9. QED BY <1>2, <1>3, <1>6, <1>7, <1>8

(* What the analysis of the thread at the head of the list does.            *)
LEMMA AnalysisStep ==
  ASSUME Assumed, Covered, Shape, InterfsKnown, AnalyzeThread
  PROVE  \E ci \in KnownSites : \E reached \in {Again(ci)} :
           /\ ci = Head(threadsToProcess)
           /\ newReachStores' = UpdateStores(SiteFunc(ci), reached)
           /\ rErrors' = rErrors \cup (DOMAIN reached \cap Error)
           /\ threadEntryFacts' = UpdateEntryFacts(reached)
           /\ threadsToProcess' = Tail(threadsToProcess) \o NewSites(reached)
           /\ threadFuncs' = threadFuncs \cup {SiteFunc(c) : c \in Range(NewSites(reached))}
           /\ UNCHANGED <<option, address, interfs, allReachStores, status>>
           /\ status = "running" /\ threadsToProcess # <<>>
<1>1. PICK ci : ci = Head(threadsToProcess)
  OBVIOUS
<1>2. PICK cur : cur = FilterMHBInterfs(interfs[SiteFunc(ci)])
  OBVIOUS
<1>3. PICK reached : reached = AnalyzeThreadInterf(ci, cur, Rejected(cur))
  OBVIOUS
<1>4. /\ newReachStores' = UpdateStores(SiteFunc(ci), reached)
      /\ rErrors' = rErrors \cup (DOMAIN reached \cap Error)
      /\ threadEntryFacts' = UpdateEntryFacts(reached)
      /\ threadsToProcess' = Tail(threadsToProcess) \o NewSites(reached)
      /\ threadFuncs' = threadFuncs \cup {SiteFunc(c) : c \in Range(NewSites(reached))}
      /\ UNCHANGED <<option, address, interfs, allReachStores, status>>
      /\ status = "running" /\ threadsToProcess # <<>>
  BY <1>1, <1>2, <1>3 DEF AnalyzeThread
<1>5. ci \in KnownSites
  BY <1>1, <1>4 DEF Shape
<1>6. SiteFunc(ci) \in Func
  BY <1>5, KnownSiteIs
<1>7. IsInterfs(cur)
  <2>1. PICK f : f = SiteFunc(ci)
    OBVIOUS
  <2>2. QED BY <1>2, <1>6, <2>1, InterfsHaveFacts DEF ReachOK
<1>8. reached = Again(ci)
  BY <1>2, <1>3, <1>7, AnalysisIs DEF Again
<1>9. QED BY <1>1, <1>4, <1>5, <1>8

(* The stores of a function are replaced by larger ones, the others stay.   *)
LEMMA StoresReplaced ==
  ASSUME Assumed, Covered, Shape, InterfsKnown, NothingLost, NEW ci \in KnownSites,
         NEW reached, reached = Again(ci), newReachStores' = UpdateStores(SiteFunc(ci), reached)
  PROVE  /\ ReachLeq(newReachStores, newReachStores')
         /\ Reaches(Store, newReachStores')
         /\ \A s \in DOMAIN newReachStores' :
              \/ FuncOf(s) = SiteFunc(ci) /\ s \in DOMAIN reached /\ newReachStores'[s] = reached[s]
              \/ FuncOf(s) # SiteFunc(ci) /\ s \in DOMAIN newReachStores /\ newReachStores'[s] = newReachStores[s]
         /\ \A s \in DOMAIN reached \cap Store : s \in DOMAIN newReachStores' /\ newReachStores'[s] = reached[s]
<1>1. /\ DOMAIN reached \subseteq {s \in Store \cup Create \cup Error : FuncOf(s) = SiteFunc(ci)}
      /\ \A s \in DOMAIN reached : reached[s] \in Reachable
  BY AgainIs
<1>2. Reaches(Store, newReachStores)
  BY DEF Shape
<1> DEFINE kept == {s \in DOMAIN newReachStores : FuncOf(s) # SiteFunc(ci)}
<1>3. newReachStores' = [s \in kept \cup (DOMAIN reached \cap Store) |->
                           IF s \in kept THEN newReachStores[s] ELSE reached[s]]
  <2>1. RestrictTo(newReachStores, {s \in Store : FuncOf(s) # SiteFunc(ci)}) = [s \in kept |-> newReachStores[s]]
    BY <1>2 DEF RestrictTo, Reaches, Reachable
  <2>2. QED BY <2>1 DEF UpdateStores
<1>4. \A s \in DOMAIN newReachStores' :
        \/ FuncOf(s) = SiteFunc(ci) /\ s \in DOMAIN reached /\ s \in Store /\ newReachStores'[s] = reached[s]
        \/ FuncOf(s) # SiteFunc(ci) /\ s \in DOMAIN newReachStores /\ newReachStores'[s] = newReachStores[s]
  BY <1>1, <1>3
<1>5. \A s \in DOMAIN reached \cap Store : s \in DOMAIN newReachStores' /\ newReachStores'[s] = reached[s]
  BY <1>1, <1>3
<1>6. ASSUME NEW s \in DOMAIN newReachStores
      PROVE  s \in DOMAIN newReachStores' /\ Leq(newReachStores[s], newReachStores'[s])
  <2>1. s \in Store /\ newReachStores[s] \in Reachable
    BY <1>2 DEF Reaches, Reachable
  <2>2. CASE FuncOf(s) # SiteFunc(ci)
    <3>1. s \in DOMAIN newReachStores' /\ newReachStores'[s] = newReachStores[s]
      BY <1>3, <2>2
    <3>2. QED BY <2>1, <3>1 DEF Assumed, FactsOK, Reachable
  <2>3. CASE FuncOf(s) = SiteFunc(ci)
    <3>1. PICK di \in KnownSites : /\ SiteFunc(di) = FuncOf(s)
                                   /\ s \in DOMAIN Again(di) /\ Leq(newReachStores[s], Again(di)[s])
      BY DEF NothingLost, ReachedAgain
    <3>2. Again(di) = reached
      BY <2>3, <3>1, SameAgain
    <3>3. QED BY <1>5, <2>1, <3>1, <3>2
  <2>4. QED BY <2>2, <2>3
<1>7. Reaches(Store, newReachStores')
  BY <1>1, <1>2, <1>4 DEF Reaches, Reachable
<1>8. QED BY <1>4, <1>5, <1>6, <1>7 DEF ReachLeq

(* So are the facts at the creations, with -dyninit.                         *)
LEMMA EntriesReplaced ==
  ASSUME Assumed, Covered, Shape, InterfsKnown, NothingLost, NEW ci \in KnownSites,
         NEW reached, reached = Again(ci), threadEntryFacts' = UpdateEntryFacts(reached)
  PROVE  /\ ReachLeq(threadEntryFacts, threadEntryFacts')
         /\ Reaches(Create, threadEntryFacts')
         /\ \A s \in DOMAIN threadEntryFacts' :
              \/ FuncOf(s) = SiteFunc(ci) /\ s \in DOMAIN reached /\ threadEntryFacts'[s] = reached[s]
              \/ s \in DOMAIN threadEntryFacts /\ threadEntryFacts'[s] = threadEntryFacts[s]
         /\ option.dyninit => DOMAIN reached \cap Create \subseteq DOMAIN threadEntryFacts'
<1>1. /\ DOMAIN reached \subseteq {s \in Store \cup Create \cup Error : FuncOf(s) = SiteFunc(ci)}
      /\ \A s \in DOMAIN reached : reached[s] \in Reachable
  BY AgainIs
<1>2. Reaches(Create, threadEntryFacts)
  BY DEF Shape
<1>3. CASE ~ option.dyninit
  <2>1. threadEntryFacts' = threadEntryFacts
    BY <1>3 DEF UpdateEntryFacts
  <2>2. QED BY <1>2, <1>3, <2>1 DEF ReachLeq, Reaches, Assumed, FactsOK, Reachable
<1>4. CASE option.dyninit
  <2>1. threadEntryFacts' = [c \in DOMAIN threadEntryFacts \cup (DOMAIN reached \cap Create) |->
                               IF c \in DOMAIN reached THEN reached[c] ELSE threadEntryFacts[c]]
    BY <1>4 DEF UpdateEntryFacts
  <2>2. \A s \in DOMAIN threadEntryFacts' :
          \/ FuncOf(s) = SiteFunc(ci) /\ s \in DOMAIN reached /\ s \in Create /\ threadEntryFacts'[s] = reached[s]
          \/ s \in DOMAIN threadEntryFacts /\ threadEntryFacts'[s] = threadEntryFacts[s]
    <3>1. DOMAIN threadEntryFacts \subseteq Create
      BY <1>2 DEF Reaches, Reachable
    <3>2. QED BY <1>1, <2>1, <3>1
  <2>3. ASSUME NEW s \in DOMAIN threadEntryFacts
        PROVE  s \in DOMAIN threadEntryFacts' /\ Leq(threadEntryFacts[s], threadEntryFacts'[s])
    <3>1. s \in DOMAIN threadEntryFacts' /\ threadEntryFacts[s] \in Reachable
      BY <1>2, <2>1 DEF Reaches, Reachable
    <3>2. CASE s \notin DOMAIN reached
      BY <2>1, <3>1, <3>2 DEF Assumed, FactsOK, Reachable
    <3>3. CASE s \in DOMAIN reached
      <4>1. FuncOf(s) = SiteFunc(ci)
        BY <1>1, <3>3
      <4>2. PICK di \in KnownSites : /\ SiteFunc(di) = FuncOf(s)
                                     /\ s \in DOMAIN Again(di) /\ Leq(threadEntryFacts[s], Again(di)[s])
        BY DEF NothingLost, ReachedAgain
      <4>3. Again(di) = reached
        BY <4>1, <4>2, SameAgain
      <4>4. threadEntryFacts'[s] = reached[s]
        BY <2>1, <3>1, <3>3
      <4>5. QED BY <3>1, <4>2, <4>3, <4>4
    <3>4. QED BY <3>2, <3>3
  <2>4. Reaches(Create, threadEntryFacts')
    BY <1>1, <1>2, <2>2 DEF Reaches, Reachable
  <2>5. DOMAIN reached \cap Create \subseteq DOMAIN threadEntryFacts'
    BY <2>1
  <2>6. QED BY <2>2, <2>3, <2>4, <2>5 DEF ReachLeq
<1>5. QED BY <1>3, <1>4

LEMMA NewSitesAre ==
  ASSUME Assumed, Shape, NEW reached
  PROVE  /\ NewSites(reached) \in Seq(DOMAIN reached \cap Create)
         /\ Range(NewSites(reached)) \subseteq DOMAIN reached \cap Create
         /\ ~ option.dyninit => NewSites(reached) = <<>>
<1>1. PICK S : S = DOMAIN reached \cap Create
  OBVIOUS
<1>2. S \in SUBSET (Load \cup Store \cup Create) /\ IsFiniteSet(S) /\ address \in Layout
  <2>1. IsFiniteSet(Create) /\ address \in Layout
    BY DEF Assumed, ConstantsOK, Shape
  <2>2. QED BY <1>1, <2>1, FS_Subset
<1>3. Ordered(S) \in [1 .. Cardinality(S) -> S] /\ Cardinality(S) \in Nat
  BY <1>2, OrderedIs, FS_CardinalityType DEF Assumed
<1>4. \A q : q \in [1 .. Cardinality(S) -> S] => q \in Seq(S) /\ Range(q) \subseteq S
  BY <1>3 DEF Range
<1>5. Ordered(S) \in Seq(S) /\ Range(Ordered(S)) \subseteq S
  BY <1>3, <1>4
<1>6. <<>> \in Seq(S) /\ Range(<<>>) \subseteq S
  BY DEF Range
<1>7. QED BY <1>1, <1>5, <1>6 DEF NewSites

(* Facts at sites of the thread of ci. *)
ReachedBy(ci, reached) ==
  /\ DOMAIN reached \subseteq {s \in Store \cup Create \cup Error : FuncOf(s) = SiteFunc(ci)}
  /\ \A s \in DOMAIN reached : reached[s] \in Reachable

(* Recording them keeps facts at sites.                                      *)
LEMMA FactsRecorded ==
  ASSUME Shape, NEW ci, NEW reached, ReachedBy(ci, reached),
         newReachStores' = UpdateStores(SiteFunc(ci), reached),
         threadEntryFacts' = UpdateEntryFacts(reached)
  PROVE  /\ Reaches(Store, newReachStores')
         /\ Reaches(Create, threadEntryFacts')
         /\ DOMAIN threadEntryFacts \subseteq DOMAIN threadEntryFacts'
         /\ option.dyninit => DOMAIN reached \cap Create \subseteq DOMAIN threadEntryFacts'
<1>1. Reaches(Store, newReachStores) /\ Reaches(Create, threadEntryFacts)
  BY DEF Shape
<1> DEFINE kept == {s \in DOMAIN newReachStores : FuncOf(s) # SiteFunc(ci)}
<1>2. newReachStores' = [s \in kept \cup (DOMAIN reached \cap Store) |->
                           IF s \in kept THEN newReachStores[s] ELSE reached[s]]
  <2>1. RestrictTo(newReachStores, {s \in Store : FuncOf(s) # SiteFunc(ci)}) = [s \in kept |-> newReachStores[s]]
    BY <1>1 DEF RestrictTo, Reaches, Reachable
  <2>2. QED BY <2>1 DEF UpdateStores
<1>3. Reaches(Store, newReachStores')
  BY <1>1, <1>2 DEF Reaches, Reachable, ReachedBy
<1>4. CASE ~ option.dyninit
  BY <1>1, <1>3, <1>4 DEF UpdateEntryFacts
<1>5. CASE option.dyninit
  <2>1. threadEntryFacts' = [c \in DOMAIN threadEntryFacts \cup (DOMAIN reached \cap Create) |->
                               IF c \in DOMAIN reached THEN reached[c] ELSE threadEntryFacts[c]]
    BY <1>5 DEF UpdateEntryFacts
  <2>2. Reaches(Create, threadEntryFacts')
    BY <1>1, <2>1 DEF Reaches, Reachable, ReachedBy
  <2>3. QED BY <1>3, <2>1, <2>2
<1>6. QED BY <1>4, <1>5

(* So what is recorded keeps its shape, whatever the analysis of the thread  *)
(* returned.                                                                *)
LEMMA ShapeKept ==
  ASSUME Assumed, Shape, threadsToProcess # <<>>, NEW ci, NEW reached, ReachedBy(ci, reached),
         newReachStores' = UpdateStores(SiteFunc(ci), reached),
         threadEntryFacts' = UpdateEntryFacts(reached),
         threadsToProcess' = Tail(threadsToProcess) \o NewSites(reached),
         threadFuncs' = threadFuncs \cup {SiteFunc(c) : c \in Range(NewSites(reached))},
         UNCHANGED <<option, address, allReachStores>>
  PROVE  Shape'
<1>1. /\ Reaches(Store, newReachStores') /\ Reaches(Create, threadEntryFacts')
      /\ DOMAIN threadEntryFacts \subseteq DOMAIN threadEntryFacts'
      /\ option.dyninit => DOMAIN reached \cap Create \subseteq DOMAIN threadEntryFacts'
  BY FactsRecorded
<1>2. PICK r : r = NewSites(reached)
  OBVIOUS
<1>3. PICK K : K = KnownSites'
  OBVIOUS
<1>4. r \in Seq(K) /\ Range(r) \subseteq Create
  <2>1. r \in Seq(DOMAIN reached \cap Create) /\ Range(r) \subseteq DOMAIN reached \cap Create
        /\ (~ option.dyninit => r = <<>>)
    BY <1>2, NewSitesAre
  <2>2. DOMAIN reached \cap Create \subseteq K
    BY <1>1, <1>3 DEF KnownSites
  <2>3. QED BY <2>1, <2>2
<1>5. PICK q : q = threadsToProcess
  OBVIOUS
<1>6. q \in Seq(K) /\ q # <<>> /\ \A i \in DOMAIN q : SiteFunc(q[i]) \in threadFuncs
  <2>1. KnownSites \subseteq K
    BY <1>1, <1>3 DEF KnownSites
  <2>2. QED BY <1>5, <2>1 DEF Shape
<1>7. /\ threadsToProcess' \in Seq(K)
       /\ Range(threadsToProcess') \subseteq Range(q) \cup Range(r)
  BY <1>2, <1>4, <1>5, <1>6, SeqParts
<1>8. \A i \in DOMAIN threadsToProcess' : SiteFunc(threadsToProcess[i])' \in threadFuncs'
  <2>1. SUFFICES ASSUME NEW c \in Range(q) \cup Range(r) PROVE SiteFunc(c)' \in threadFuncs'
    <3>1. PICK t : t = threadsToProcess'
      OBVIOUS
    <3>2. \A i \in DOMAIN t : t[i] \in Range(q) \cup Range(r)
      BY <1>7, <3>1 DEF Range
    <3>3. QED BY <3>1, <3>2
  <2>2. SiteFunc(c)' = SiteFunc(c)
    BY DEF SiteFunc
  <2>3. CASE c \in Range(q)
    BY <1>6, <2>2, <2>3 DEF Range
  <2>4. CASE c \in Range(r)
    BY <1>2, <2>2, <2>4
  <2>5. QED BY <2>3, <2>4
<1>9. threadFuncs' \subseteq Func
  <2>1. \A c \in Range(r) : SiteFunc(c) \in Func
    BY <1>4 DEF SiteFunc, Assumed, ConstantsOK
  <2>2. QED BY <1>2, <2>1 DEF Shape
<1>10. option' \in CheckCommandLineArgs' /\ address' \in Layout /\ Reaches(Store, allReachStores)'
  BY DEF Shape, Reaches, CheckCommandLineArgs, Reachable
<1>11. Reaches(Create, threadEntryFacts)' /\ Reaches(Store, newReachStores)'
  BY <1>1 DEF Reaches, Reachable
<1>12. threadsToProcess' \in Seq(KnownSites')
  BY <1>3, <1>7
<1>13. \A i \in DOMAIN ThreadSites' : SiteFunc(ThreadSites[i])' \in threadFuncs'
  <2>1. ThreadSites' = ThreadSites /\ threadFuncs \subseteq threadFuncs'
    BY DEF ThreadSites
  <2>2. \A i : SiteFunc(ThreadSites[i])' = SiteFunc(ThreadSites[i])
    BY <2>1 DEF SiteFunc
  <2>3. QED BY <2>1, <2>2 DEF Shape
<1>14. QED BY <1>8, <1>9, <1>10, <1>11, <1>12, <1>13 DEF Shape

LEMMA ShapeAfterAnalysis ==
  ASSUME Assumed, Covered, Shape, InterfsKnown, NothingLost, AnalyzeThread
  PROVE  Shape' /\ InterfsKnown'
<1>1. PICK ci \in KnownSites : \E reached \in {Again(ci)} :
           /\ ci = Head(threadsToProcess)
           /\ newReachStores' = UpdateStores(SiteFunc(ci), reached)
           /\ rErrors' = rErrors \cup (DOMAIN reached \cap Error)
           /\ threadEntryFacts' = UpdateEntryFacts(reached)
           /\ threadsToProcess' = Tail(threadsToProcess) \o NewSites(reached)
           /\ threadFuncs' = threadFuncs \cup {SiteFunc(c) : c \in Range(NewSites(reached))}
           /\ UNCHANGED <<option, address, interfs, allReachStores, status>>
           /\ status = "running" /\ threadsToProcess # <<>>
  BY AnalysisStep
<1>2. PICK reached : /\ reached = Again(ci)
           /\ newReachStores' = UpdateStores(SiteFunc(ci), reached)
           /\ threadEntryFacts' = UpdateEntryFacts(reached)
           /\ threadsToProcess' = Tail(threadsToProcess) \o NewSites(reached)
           /\ threadFuncs' = threadFuncs \cup {SiteFunc(c) : c \in Range(NewSites(reached))}
           /\ UNCHANGED <<option, address, interfs, allReachStores, status>>
           /\ threadsToProcess # <<>>
  BY <1>1
<1>3. DOMAIN newReachStores \subseteq DOMAIN newReachStores'
  BY <1>2, StoresReplaced DEF ReachLeq
<1>4. ReachedBy(ci, reached)
  BY <1>2, AgainIs DEF ReachedBy
<1>5. Shape'
  BY <1>2, <1>4, ShapeKept
<1>6. InterfsKnown'
  BY <1>2, <1>3 DEF InterfsKnown, InterferingAt
<1>7. QED BY <1>5, <1>6

(* What is recorded of the thread just analysed is what it reached, and it  *)
(* would be reached again from what is known now; what was known of the     *)
(* others is known to be reached from less.                                 *)
LEMMA AnalyzeThreadGrows ==
  ASSUME Assumed, Covered, Shape, InterfsKnown, NothingLost, AnalyzeThread
  PROVE  /\ Shape' /\ InterfsKnown' /\ NothingLost'
         /\ ReachLeq(newReachStores, newReachStores')
<1>1. Shape' /\ InterfsKnown'
  BY ShapeAfterAnalysis
<1>2. PICK ci \in KnownSites : \E reached \in {Again(ci)} :
           /\ ci = Head(threadsToProcess)
           /\ newReachStores' = UpdateStores(SiteFunc(ci), reached)
           /\ rErrors' = rErrors \cup (DOMAIN reached \cap Error)
           /\ threadEntryFacts' = UpdateEntryFacts(reached)
           /\ threadsToProcess' = Tail(threadsToProcess) \o NewSites(reached)
           /\ threadFuncs' = threadFuncs \cup {SiteFunc(c) : c \in Range(NewSites(reached))}
           /\ UNCHANGED <<option, address, interfs, allReachStores, status>>
           /\ status = "running" /\ threadsToProcess # <<>>
  BY AnalysisStep
<1>3. PICK reached : /\ reached = Again(ci)
           /\ newReachStores' = UpdateStores(SiteFunc(ci), reached)
           /\ threadEntryFacts' = UpdateEntryFacts(reached)
           /\ UNCHANGED <<option, interfs>>
  BY <1>2
<1>4. /\ ReachLeq(newReachStores, newReachStores')
      /\ \A s \in DOMAIN newReachStores' :
           \/ FuncOf(s) = SiteFunc(ci) /\ s \in DOMAIN reached /\ newReachStores'[s] = reached[s]
           \/ s \in DOMAIN newReachStores /\ newReachStores'[s] = newReachStores[s]
  BY <1>3, StoresReplaced
<1>5. /\ ReachLeq(threadEntryFacts, threadEntryFacts')
      /\ \A s \in DOMAIN threadEntryFacts' :
           \/ FuncOf(s) = SiteFunc(ci) /\ s \in DOMAIN reached /\ threadEntryFacts'[s] = reached[s]
           \/ s \in DOMAIN threadEntryFacts /\ threadEntryFacts'[s] = threadEntryFacts[s]
  BY <1>3, EntriesReplaced
<1>6. \A f \in Func : InterfsLeq(interfs[f], interfs'[f])
  BY <1>3 DEF InterfsLeq
<1>7. ASSUME NEW di \in KnownSites, NEW s \in DOMAIN Again(di), NEW v \in Fact, Leq(v, Again(di)[s])
      PROVE  /\ di \in KnownSites' /\ SiteFunc(di)' = SiteFunc(di)
             /\ s \in DOMAIN Again(di)' /\ Leq(v, Again(di)'[s])
  <2>1. /\ di \in KnownSites' /\ SiteFunc(di)' = SiteFunc(di)
        /\ ReachLeq(Again(di), Again(di)')
    BY <1>1, <1>3, <1>4, <1>5, <1>6, AgainGrows
  <2>2. s \in DOMAIN Again(di)' /\ Leq(Again(di)[s], Again(di)'[s])
    BY <2>1 DEF ReachLeq
  <2>3. Again(di)[s] \in Reachable
    BY AgainIs
  <2>4. Again(di)'[s] \in Reachable
    BY <1>1, <1>3, <1>4, <1>5, <1>6, <2>2, AgainGrows
  <2>5. QED BY <1>7, <2>1, <2>2, <2>3, <2>4 DEF Assumed, FactsOK, Reachable
<1>8. ASSUME NEW m, NEW n, ReachedAgain(m),
             \A s \in DOMAIN m : m[s] \in Reachable,
             \A s \in DOMAIN n : \/ FuncOf(s) = SiteFunc(ci) /\ s \in DOMAIN reached /\ n[s] = reached[s]
                                 \/ s \in DOMAIN m /\ n[s] = m[s]
      PROVE  \A s \in DOMAIN n : \E di \in KnownSites' :
               /\ SiteFunc(di)' = FuncOf(s)
               /\ s \in DOMAIN Again(di)' /\ Leq(n[s], Again(di)'[s])
  <2>1. ASSUME NEW s \in DOMAIN n
        PROVE  \E di \in KnownSites : /\ SiteFunc(di) = FuncOf(s) /\ n[s] \in Reachable
                                      /\ s \in DOMAIN Again(di) /\ Leq(n[s], Again(di)[s])
    <3>1. CASE FuncOf(s) = SiteFunc(ci) /\ s \in DOMAIN reached /\ n[s] = reached[s]
      <4>1. reached[s] \in Reachable
        BY <1>3, <3>1, AgainIs
      <4>2. QED BY <1>3, <3>1, <4>1 DEF Assumed, FactsOK, Reachable
    <3>2. CASE s \in DOMAIN m /\ n[s] = m[s]
      BY <1>8, <3>2 DEF ReachedAgain
    <3>3. QED BY <1>8, <3>1, <3>2
  <2>2. QED BY <1>7, <2>1 DEF Reachable
<1>9. ReachedAgain(newReachStores)'
  <2>1. PICK m : m = newReachStores
    OBVIOUS
  <2>2. PICK n : n = newReachStores'
    OBVIOUS
  <2>3. ReachedAgain(m) /\ \A s \in DOMAIN m : m[s] \in Reachable
    BY <2>1 DEF NothingLost, Shape, Reaches, Reachable
  <2>4. \A s \in DOMAIN n : \E di \in KnownSites' :
               /\ SiteFunc(di)' = FuncOf(s)
               /\ s \in DOMAIN Again(di)' /\ Leq(n[s], Again(di)'[s])
    BY <1>4, <1>8, <2>1, <2>2, <2>3
  <2>5. QED BY <2>2, <2>4 DEF ReachedAgain
<1>10. ReachedAgain(threadEntryFacts)'
  <2>1. PICK m : m = threadEntryFacts
    OBVIOUS
  <2>2. PICK n : n = threadEntryFacts'
    OBVIOUS
  <2>3. ReachedAgain(m) /\ \A s \in DOMAIN m : m[s] \in Reachable
    BY <2>1 DEF NothingLost, Shape, Reaches, Reachable
  <2>4. \A s \in DOMAIN n : \E di \in KnownSites' :
               /\ SiteFunc(di)' = FuncOf(s)
               /\ s \in DOMAIN Again(di)' /\ Leq(n[s], Again(di)'[s])
    BY <1>5, <1>8, <2>1, <2>2, <2>3
  <2>5. QED BY <2>2, <2>4 DEF ReachedAgain
<1>11. QED BY <1>1, <1>4, <1>9, <1>10 DEF NothingLost

LEMMA ThreadSitesAre ==
  ASSUME ConstantsOK, option \in CheckCommandLineArgs
  PROVE  /\ ThreadSites \in Seq(Create \cup {MainSite}) /\ ThreadSites # <<>>
         /\ option.dyninit => ThreadSites = <<MainSite>>
         /\ ~ option.dyninit => Range(ThreadSites) = Range(ThreadCreate[option.main]) \cup {MainSite}
<1>1. PICK made : made = ThreadCreate[option.main]
  OBVIOUS
<1>2. made \in Seq(Create)
  BY <1>1, OptionIs
<1>3. CASE option.dyninit
  BY <1>3 DEF ThreadSites
<1>4. CASE ~ option.dyninit
  <2>1. PICK q : q = Append(made, MainSite)
    OBVIOUS
  <2>2. q \in Seq(Create \cup {MainSite}) /\ q # <<>>
    BY <1>2, <2>1
  <2>3. /\ DOMAIN q = 1 .. Len(made) + 1 /\ DOMAIN made = 1 .. Len(made) /\ Len(made) \in Nat
        /\ q[Len(made) + 1] = MainSite /\ \A i \in 1 .. Len(made) : q[i] = made[i]
    BY <1>2, <2>1
  <2>4. Range(q) = Range(made) \cup {MainSite}
    BY <2>3 DEF Range
  <2>5. QED BY <1>1, <1>4, <2>1, <2>2, <2>4 DEF ThreadSites
<1>5. QED BY <1>3, <1>4

LEMMA OneElement ==
  ASSUME NEW S, NEW x \in S
  PROVE  <<x>> \in Seq(S)
  OBVIOUS

LEMMA InitShape ==
  ASSUME Assumed, Init
  PROVE  Shape
<1>1. PICK q : q = ThreadSites
  OBVIOUS
<1>2. q \in Seq(Create \cup {MainSite}) /\ (option.dyninit => q = <<MainSite>>)
  BY <1>1, ThreadSitesAre DEF Assumed, Init
<1>3. q \in Seq(KnownSites)
  <2>1. PICK K : K = KnownSites
    OBVIOUS
  <2>2. MainSite \in K /\ (~ option.dyninit => K = Create \cup {MainSite})
    BY <2>1 DEF KnownSites
  <2>3. q \in Seq(K)
    <3>1. CASE option.dyninit
      BY <1>2, <2>2, <3>1, OneElement, Zenon
    <3>2. CASE ~ option.dyninit
      <4>1. K = Create \cup {MainSite}
        BY <2>2, <3>2
      <4>2. QED BY <1>2, <4>1
    <3>3. QED BY <3>1, <3>2
  <2>4. QED BY <2>1, <2>3
<1>4. threadFuncs = {SiteFunc(ci) : ci \in Range(q)}
  BY <1>1 DEF Init
<1>5. \A i \in DOMAIN q : SiteFunc(q[i]) \in threadFuncs
  BY <1>4 DEF Range
<1>6. threadFuncs \subseteq Func
  <2>1. \A i \in DOMAIN q : q[i] \in Create \cup {MainSite}
    BY <1>2
  <2>2. option.main \in Func
    BY OptionIs DEF Assumed, Init
  <2>3. QED BY <1>4, <2>1, <2>2 DEF Range, SiteFunc, Assumed, ConstantsOK
<1>7. QED
  BY <1>1, <1>3, <1>5, <1>6 DEF Init, Shape, Reaches, Reachable

LEMMA InitGrow ==
  ASSUME Assumed, Init
  PROVE  GrowInv
<1>1. InterfsKnown /\ NothingLost /\ WhyAborted
  BY DEF Init, InterfsKnown, NothingLost, ReachedAgain, WhyAborted
<1>2. QED BY <1>1, InitShape DEF GrowInv

LEMMA ShapeOfNext ==
  ASSUME Assumed, Shape, NextIteration
  PROVE  Shape'
<1>1. /\ allReachStores' = newReachStores
      /\ threadsToProcess' = ThreadSites
      /\ UNCHANGED <<option, address, threadFuncs, threadEntryFacts, newReachStores>>
  BY DEF NextIteration
<1>2. option' \in CheckCommandLineArgs' /\ address' \in Layout /\ threadFuncs' \subseteq Func
  BY <1>1 DEF Shape, CheckCommandLineArgs
<1>3. /\ Reaches(Create, threadEntryFacts)' /\ Reaches(Store, newReachStores)'
      /\ Reaches(Store, allReachStores)'
  BY <1>1 DEF Shape, Reaches, Reachable
<1>4. PICK q : q = ThreadSites
  OBVIOUS
<1>5. threadsToProcess' = q /\ ThreadSites' = q
  BY <1>1, <1>4 DEF ThreadSites
<1>6. q \in Seq(KnownSites')
  <2>1. q \in Seq(Create \cup {MainSite}) /\ (option.dyninit => q = <<MainSite>>)
    BY <1>4, ThreadSitesAre DEF Assumed, Shape
  <2>2. PICK K : K = KnownSites'
    OBVIOUS
  <2>3. MainSite \in K /\ (~ option.dyninit => K = Create \cup {MainSite})
    BY <1>1, <2>2 DEF KnownSites
  <2>4. q \in Seq(K)
    <3>1. CASE option.dyninit
      BY <2>1, <2>3, <3>1, OneElement, Zenon
    <3>2. CASE ~ option.dyninit
      <4>1. K = Create \cup {MainSite}
        BY <2>3, <3>2
      <4>2. QED BY <2>1, <4>1
    <3>3. QED BY <3>1, <3>2
  <2>5. QED BY <2>2, <2>4
<1>7. \A i \in DOMAIN q : SiteFunc(q[i])' \in threadFuncs'
  BY <1>1, <1>4 DEF Shape, SiteFunc
<1>8. QED BY <1>2, <1>3, <1>5, <1>6, <1>7 DEF Shape

(* The interferences computed from the facts of now include those of before. *)
LEMMA NextIterationGrows ==
  ASSUME Assumed, Covered, Shape, InterfsKnown, NothingLost, NextIteration
  PROVE  Shape' /\ InterfsKnown' /\ NothingLost'
<1>1. /\ interfs' = [f \in Func |-> IF f \in threadFuncs THEN InterferingStores(f, newReachStores)
                                    ELSE interfs[f]]
      /\ allReachStores' = newReachStores
      /\ threadsToProcess' = ThreadSites
      /\ UNCHANGED <<option, address, threadFuncs, threadEntryFacts, newReachStores>>
  BY DEF NextIteration
<1>2. Shape'
  BY ShapeOfNext
<1>3. InterfsKnown'
  <2>1. \A f \in Func : \A l \in DOMAIN InterferingStores(f, newReachStores) :
          /\ l \in Load /\ FuncOf(l) = f
          /\ InterferingStores(f, newReachStores)[l] # {}
          /\ InterferingStores(f, newReachStores)[l] \subseteq InterferingAt(l, newReachStores)
    BY DEF InterferingStores
  <2>2. \A l : InterferingAt(l, newReachStores)' = InterferingAt(l, newReachStores)
    BY <1>1 DEF InterferingAt
  <2>3. QED BY <1>1, <2>1, <2>2 DEF InterfsKnown
<1>4. \A f \in Func : InterfsLeq(interfs[f], interfs'[f])
  <2>1. ASSUME NEW f \in Func PROVE InterfsLeq(interfs[f], interfs'[f])
    <3>1. CASE f \notin threadFuncs
      BY <1>1, <3>1 DEF InterfsLeq
    <3>2. CASE f \in threadFuncs
      <4>1. \A l \in DOMAIN interfs[f] : /\ l \in Load /\ FuncOf(l) = f /\ interfs[f][l] # {}
                                         /\ interfs[f][l] \subseteq InterferingAt(l, newReachStores)
        BY DEF InterfsKnown
      <4>2. InterfsLeq(interfs[f], InterferingStores(f, newReachStores))
        BY <4>1 DEF InterfsLeq, InterferingStores
      <4>3. QED BY <1>1, <3>2, <4>2
    <3>3. QED BY <3>1, <3>2
  <2>2. QED BY <2>1
<1>5. ReachLeq(newReachStores, newReachStores') /\ ReachLeq(threadEntryFacts, threadEntryFacts')
  BY <1>1 DEF ReachLeq, Shape, Reaches, Assumed, FactsOK, Reachable
<1>6. ASSUME NEW m, ReachedAgain(m), \A s \in DOMAIN m : m[s] \in Reachable
      PROVE  \A s \in DOMAIN m : \E di \in KnownSites' :
               /\ SiteFunc(di)' = FuncOf(s)
               /\ s \in DOMAIN Again(di)' /\ Leq(m[s], Again(di)'[s])
  <2>1. SUFFICES ASSUME NEW s \in DOMAIN m
        PROVE  \E di \in KnownSites' : /\ SiteFunc(di)' = FuncOf(s)
                                       /\ s \in DOMAIN Again(di)' /\ Leq(m[s], Again(di)'[s])
    OBVIOUS
  <2>2. PICK di \in KnownSites : /\ SiteFunc(di) = FuncOf(s)
                                 /\ s \in DOMAIN Again(di) /\ Leq(m[s], Again(di)[s])
    BY <1>6 DEF ReachedAgain
  <2>3. /\ di \in KnownSites' /\ SiteFunc(di)' = SiteFunc(di)
        /\ ReachLeq(Again(di), Again(di)')
        /\ \A t \in DOMAIN Again(di)' : Again(di)'[t] \in Reachable
    BY <1>1, <1>2, <1>3, <1>4, <1>5, AgainGrows
  <2>4. s \in DOMAIN Again(di)' /\ Leq(Again(di)[s], Again(di)'[s])
    BY <2>2, <2>3 DEF ReachLeq
  <2>5. m[s] \in Reachable /\ Again(di)[s] \in Reachable /\ Again(di)'[s] \in Reachable
    BY <1>6, <2>2, <2>3, <2>4, AgainIs
  <2>6. Leq(m[s], Again(di)'[s])
    BY <2>2, <2>4, <2>5 DEF Assumed, FactsOK, Reachable
  <2>7. QED BY <2>2, <2>3, <2>4, <2>6
<1>7. ReachedAgain(newReachStores)'
  <2>1. PICK m : m = newReachStores
    OBVIOUS
  <2>2. ReachedAgain(m) /\ \A s \in DOMAIN m : m[s] \in Reachable
    BY <2>1 DEF NothingLost, Shape, Reaches, Reachable
  <2>3. newReachStores' = m
    BY <1>1, <2>1
  <2>4. QED BY <1>6, <2>2, <2>3 DEF ReachedAgain
<1>8. ReachedAgain(threadEntryFacts)'
  <2>1. PICK m : m = threadEntryFacts
    OBVIOUS
  <2>2. ReachedAgain(m) /\ \A s \in DOMAIN m : m[s] \in Reachable
    BY <2>1 DEF NothingLost, Shape, Reaches, Reachable
  <2>3. threadEntryFacts' = m
    BY <1>1, <2>1
  <2>4. QED BY <1>6, <2>2, <2>3 DEF ReachedAgain
<1>9. QED BY <1>2, <1>3, <1>7, <1>8 DEF NothingLost

(* Steps that leave the facts and the interferences alone.                   *)
LEMMA NothingMoved ==
  ASSUME Shape, InterfsKnown, NothingLost,
         UNCHANGED <<option, address, threadFuncs, threadsToProcess, threadEntryFacts, interfs,
                     allReachStores, newReachStores>>
  PROVE  Shape' /\ InterfsKnown' /\ NothingLost'
<1>1. Shape'
  BY DEF Shape, CheckCommandLineArgs, KnownSites, SiteFunc, ThreadSites, Reaches, Reachable
<1>2. InterfsKnown'
  BY DEF InterfsKnown, InterferingAt
<1>3. KnownSites' = KnownSites /\ \A ci : SiteFunc(ci)' = SiteFunc(ci)
  BY DEF KnownSites, SiteFunc
<1>4. \A ci : Again(ci)' = Again(ci)
  BY <1>3 DEF Again, EntryFact, FilterMHBInterfs
<1>5. NothingLost'
  BY <1>3, <1>4 DEF NothingLost, ReachedAgain
<1>6. QED BY <1>1, <1>2, <1>5

(* The three assertions fail in the two cases AbortsExpected names.         *)
LEMMA AbortHasReason ==
  ASSUME Assumed, Shape, InterfsKnown, Abort
  PROVE  WhyAborted'
<1>1. PICK ci : ci = Head(threadsToProcess)
  OBVIOUS
<1>2. PICK f : f = SiteFunc(ci)
  OBVIOUS
<1>3. threadsToProcess # <<>> /\ AssertFails(FilterMHBInterfs(interfs[f]))
      /\ UNCHANGED <<option, threadFuncs, interfs>>
  BY <1>1, <1>2 DEF Abort
<1>4. f \in threadFuncs /\ f \in Func
  <2>1. PICK q : q = threadsToProcess
    OBVIOUS
  <2>2. q \in Seq(KnownSites) /\ q # <<>> /\ \A i \in DOMAIN q : SiteFunc(q[i]) \in threadFuncs
    BY <1>3, <2>1 DEF Shape
  <2>3. 1 \in DOMAIN q /\ q[1] = Head(q)
    BY <2>2
  <2>4. f \in threadFuncs
    BY <1>1, <1>2, <2>1, <2>2, <2>3
  <2>5. QED BY <2>4 DEF Shape
<1>5. PICK cur : cur = FilterMHBInterfs(interfs[f])
  OBVIOUS
<1>6. PICK l \in DOMAIN cur : \/ option.nocombs /\ cur[l] = {}
                              \/ ~ option.nocombs /\ l \in Store
                              \/ ~ (cur[l] \subseteq DOMAIN newReachStores)
  BY <1>3, <1>5 DEF AssertFails
<1>7. cur[l] \subseteq DOMAIN newReachStores
  BY <1>4, <1>5, InterfsHaveFacts DEF ReachOK
<1>8. /\ l \in DOMAIN interfs[f] /\ interfs[f][l] # {}
      /\ ~ option.filter_mhb => cur[l] = interfs[f][l]
  <2>1. l \in DOMAIN interfs[f] /\ (~ option.filter_mhb => cur[l] = interfs[f][l])
    <3>1. PICK c : c = interfs[f]
      OBVIOUS
    <3>2. QED BY <1>5, <1>6, <3>1, FilterIs
  <2>2. QED BY <1>4, <2>1 DEF InterfsKnown
<1>9. \/ option.nocombs /\ option.filter_mhb
      \/ ~ option.nocombs /\ \E g \in threadFuncs : DOMAIN interfs[g] \cap Store # {}
  BY <1>4, <1>6, <1>7, <1>8
<1>10. QED BY <1>3, <1>9 DEF WhyAborted

LEMMA StepGrow ==
  ASSUME Assumed, GrowInv, [Next]_vars
  PROVE  /\ GrowInv'
         /\ Covered => ReachLeq(newReachStores, newReachStores')
<1>1. option' = option
  BY DEF Next, AnalyzeThread, Abort, Finish, NextIteration, vars
<1>2. CASE ~ Covered
  BY <1>1, <1>2 DEF GrowInv, Covered
<1>3. CASE Covered
  <2>1. Shape /\ InterfsKnown /\ NothingLost /\ WhyAborted
    BY <1>3 DEF GrowInv
  <2>2. CASE AnalyzeThread
    <3>1. status' = "running"
      BY <2>2 DEF AnalyzeThread
    <3>2. QED BY <1>3, <2>1, <2>2, <3>1, AnalyzeThreadGrows DEF GrowInv, WhyAborted
  <2>3. ASSUME newReachStores' = newReachStores PROVE ReachLeq(newReachStores, newReachStores')
    BY <2>1, <2>3 DEF ReachLeq, Shape, Reaches, Assumed, FactsOK, Reachable
  <2>4. CASE NextIteration
    <3>1. status' = "running" /\ newReachStores' = newReachStores
      BY <2>4 DEF NextIteration
    <3>2. QED BY <1>3, <2>1, <2>3, <2>4, <3>1, NextIterationGrows DEF GrowInv, WhyAborted
  <2>5. CASE Abort
    <3>1. UNCHANGED <<option, address, threadFuncs, threadsToProcess, threadEntryFacts, interfs,
                      allReachStores, newReachStores>>
      BY <2>5 DEF Abort
    <3>2. QED BY <2>1, <2>3, <2>5, <3>1, NothingMoved, AbortHasReason DEF GrowInv
  <2>6. CASE Finish
    <3>1. UNCHANGED <<option, address, threadFuncs, threadsToProcess, threadEntryFacts, interfs,
                      allReachStores, newReachStores>> /\ status' = "done"
      BY <2>6 DEF Finish
    <3>2. QED BY <2>1, <2>3, <3>1, NothingMoved DEF GrowInv, WhyAborted
  <2>7. CASE UNCHANGED vars
    <3>1. UNCHANGED <<option, address, threadFuncs, threadsToProcess, threadEntryFacts, interfs,
                      allReachStores, newReachStores>> /\ status' = status
      BY <2>7 DEF vars
    <3>2. WhyAborted'
      BY <2>1, <3>1 DEF WhyAborted
    <3>3. QED BY <2>1, <2>3, <3>1, <3>2, NothingMoved DEF GrowInv
  <2>8. QED BY <2>2, <2>4, <2>5, <2>6, <2>7 DEF Next
<1>4. QED BY <1>2, <1>3

LEMMA CoveredKept == [Next]_vars => Covered' = Covered
  BY DEF Next, AnalyzeThread, Abort, Finish, NextIteration, vars, Covered

(* "the reachable stores are monotonic (on iteration i+1 we at least reach  *)
(* all the stores of iteration i)" (worklistai.cpp: runOnModule).           *)
THEOREM StoresNeverLost ==
  ASSUME Assumed
  PROVE  Spec /\ Covered => StoresGrow
<1>1. Init => GrowInv
  BY InitGrow
<1>2. GrowInv /\ Covered /\ [Next]_vars => GrowInv' /\ Covered'
  BY StepGrow, CoveredKept
<1>3. GrowInv /\ Covered /\ [Next]_vars =>
        [\A s \in DOMAIN newReachStores :
           s \in DOMAIN newReachStores' /\ Leq(newReachStores[s], newReachStores'[s])]_vars
  BY StepGrow DEF ReachLeq
<1> QED
  BY <1>1, <1>2, <1>3, PTL DEF Spec, StoresGrow

LEMMA GrowInvImplies == GrowInv /\ Covered => AbortsExpected
<1> SUFFICES ASSUME GrowInv, Covered PROVE AbortsExpected
  OBVIOUS
<1>1. InterfsKnown /\ WhyAborted
  BY DEF GrowInv
<1>2. \A f \in Func : \A l \in DOMAIN interfs[f] : interfs[f][l] \subseteq DOMAIN newReachStores
  BY <1>1 DEF InterfsKnown, InterferingAt
<1>3. QED BY <1>1, <1>2 DEF AbortsExpected, WhyAborted

(* The assertions fail in the two cases named in AbortsExpected only: every  *)
(* interference has a fact whenever its thread is analysed (worklistai.cpp:  *)
(* joinInterfs, testCurPerm, "fact not found for store").                    *)
THEOREM AbortsAreExpected ==
  ASSUME Assumed
  PROVE  Spec => [](Covered => AbortsExpected)
<1>1. Init => GrowInv
  BY InitGrow
<1>2. GrowInv /\ [Next]_vars => GrowInv'
  BY StepGrow
<1> QED
  BY <1>1, <1>2, GrowInvImplies, PTL DEF Spec

-----------------------------------------------------------------------------
(* The end of the iteration.                                                *)

LEMMA FinalSitesAre ==
  ASSUME Assumed, Shape, ~ option.dyninit, ThreadsKnown
  PROVE  /\ FinalSites = Range(ThreadSites)
         /\ FinalSites \subseteq KnownSites
         /\ \A ci \in FinalSites : SiteFunc(ci) \in threadFuncs /\ EntryFact(ci) = InitFact
<1>1. FinalSites = Range(ThreadSites)
  BY ThreadSitesAre DEF FinalSites, Assumed, Shape
<1>2. PICK q : q = ThreadSites
  OBVIOUS
<1>3. q \in Seq(Create \cup {MainSite})
  BY <1>2, ThreadSitesAre DEF Assumed, Shape
<1>4. Range(q) \subseteq KnownSites
  BY <1>3 DEF Range, KnownSites
<1>5. \A ci \in Range(q) : SiteFunc(ci) \in threadFuncs
  BY <1>2 DEF Shape, Range
<1>6. \A ci : EntryFact(ci) = InitFact
  BY DEF EntryFact
<1>7. QED BY <1>1, <1>2, <1>4, <1>5, <1>6

LEMMA OfLastIs ==
  ASSUME Assumed, Shape, NEW ci \in KnownSites
  PROVE  \A s \in DOMAIN OfLast(ci) : OfLast(ci)[s] \in Reachable /\ s \in Store \cup Create \cup Error
<1>1. PICK f : f = SiteFunc(ci)
  OBVIOUS
<1>2. PICK reach : reach = allReachStores
  OBVIOUS
<1>3. PICK cur : cur = FilterMHBInterfs(InterferingStores(f, reach))
  OBVIOUS
<1>4. PICK n : n = option.nocombs
  OBVIOUS
<1>5. f \in Func /\ InitFact \in Fact /\ n \in BOOLEAN
  BY <1>1, <1>4, KnownSiteIs, OptionIs DEF Shape, Assumed, FactsOK, Reachable
<1>6. ReachOK(cur, reach)
  BY <1>2, <1>3, <1>5, InterferingHaveFacts DEF Shape
<1>7. \A s \in DOMAIN ResultOf(f, InitFact, cur, reach, n) :
        ResultOf(f, InitFact, cur, reach, n)[s] \in Reachable /\ s \in Store \cup Create \cup Error
  BY <1>5, <1>6, ResultIs DEF Assumed
<1>8. OfLast(ci) = ResultOf(f, InitFact, cur, reach, n)
  BY <1>1, <1>2, <1>3, <1>4 DEF OfLast
<1>9. QED BY <1>7, <1>8

(* A thread reaches at least what it reaches with the facts the iteration   *)
(* started from.                                                            *)
LEMMA LastBelowAgain ==
  ASSUME Assumed, Shape, InterfsKnown, InterfsOfLast, ~ option.dyninit,
         ReachLeq(allReachStores, newReachStores), NEW ci \in KnownSites, SiteFunc(ci) \in threadFuncs
  PROVE  ReachLeq(OfLast(ci), Again(ci))
<1>1. PICK f : f = SiteFunc(ci)
  OBVIOUS
<1>2. PICK reach1 : reach1 = allReachStores
  OBVIOUS
<1>3. PICK reach2 : reach2 = newReachStores
  OBVIOUS
<1>4. PICK c : c = InterferingStores(f, reach1)
  OBVIOUS
<1>5. PICK d : d = interfs[f]
  OBVIOUS
<1>6. PICK cur1 : cur1 = FilterMHBInterfs(c)
  OBVIOUS
<1>7. PICK cur2 : cur2 = FilterMHBInterfs(d)
  OBVIOUS
<1>8. PICK n : n = option.nocombs
  OBVIOUS
<1>9. f \in Func /\ InitFact \in Fact /\ n \in BOOLEAN /\ Leq(InitFact, InitFact)
  BY <1>1, <1>8, KnownSiteIs, OptionIs DEF Shape, Assumed, FactsOK, Reachable
<1>10. ReachOK(cur1, reach1)
  BY <1>2, <1>4, <1>6, <1>9, InterferingHaveFacts DEF Shape
<1>11. ReachOK(cur2, reach2)
  BY <1>3, <1>5, <1>7, <1>9, InterfsHaveFacts
<1>12. InterfsLeq(c, d)
  <2>1. \A l \in Load : FuncOf(l) = f /\ InterferingAt(l, allReachStores) # {} =>
          l \in DOMAIN interfs[f] /\ InterferingAt(l, allReachStores) \subseteq interfs[f][l]
    BY <1>1 DEF InterfsOfLast
  <2>2. QED BY <1>2, <1>4, <1>5, <2>1 DEF InterferingStores, InterfsLeq
<1>13. InterfsLeq(cur1, cur2)
  BY <1>6, <1>7, <1>12, FilterGrows
<1>14. ReachLeq(reach1, reach2)
  BY <1>2, <1>3
<1>15. ReachLeq(ResultOf(f, InitFact, cur1, reach1, n), ResultOf(f, InitFact, cur2, reach2, n))
  BY <1>9, <1>10, <1>11, <1>13, <1>14, ResultGrows DEF Assumed
<1>16. OfLast(ci) = ResultOf(f, InitFact, cur1, reach1, n)
  BY <1>1, <1>2, <1>4, <1>6, <1>8 DEF OfLast
<1>17. EntryFact(ci) = InitFact
  BY DEF EntryFact
<1>18. Again(ci) = ResultOf(f, InitFact, cur2, reach2, n)
  BY <1>1, <1>3, <1>5, <1>7, <1>8, <1>17 DEF Again
<1>19. QED BY <1>15, <1>16, <1>18

LEMMA IterationDoneAfterAnalysis ==
  ASSUME Assumed, Covered, Shape, InterfsKnown, NothingLost, InterfInv, ~ option.dyninit,
         IterationDone, AnalyzeThread
  PROVE  IterationDone'
<1>1. PICK ci \in KnownSites : \E reached \in {Again(ci)} :
           /\ ci = Head(threadsToProcess)
           /\ newReachStores' = UpdateStores(SiteFunc(ci), reached)
           /\ rErrors' = rErrors \cup (DOMAIN reached \cap Error)
           /\ threadEntryFacts' = UpdateEntryFacts(reached)
           /\ threadsToProcess' = Tail(threadsToProcess) \o NewSites(reached)
           /\ threadFuncs' = threadFuncs \cup {SiteFunc(c) : c \in Range(NewSites(reached))}
           /\ UNCHANGED <<option, address, interfs, allReachStores, status>>
           /\ status = "running" /\ threadsToProcess # <<>>
  BY AnalysisStep
<1>2. PICK reached : /\ reached = Again(ci)
           /\ ci = Head(threadsToProcess)
           /\ newReachStores' = UpdateStores(SiteFunc(ci), reached)
           /\ rErrors' = rErrors \cup (DOMAIN reached \cap Error)
           /\ threadsToProcess' = Tail(threadsToProcess) \o NewSites(reached)
           /\ UNCHANGED <<option, interfs, allReachStores>>
           /\ threadsToProcess # <<>>
  BY <1>1
<1>3. /\ ReachLeq(newReachStores, newReachStores')
      /\ Reaches(Store, newReachStores')
      /\ \A s \in DOMAIN reached \cap Store : s \in DOMAIN newReachStores' /\ newReachStores'[s] = reached[s]
  BY <1>2, StoresReplaced
<1>4. /\ Reaches(Store, newReachStores) /\ Reaches(Store, allReachStores)
      /\ ReachLeq(allReachStores, newReachStores)
  BY DEF Shape, IterationDone
<1>5. ReachLeq(allReachStores, newReachStores)'
  BY <1>2, <1>3, <1>4 DEF ReachLeq, Reaches, Assumed, FactsOK, Reachable
<1>6. /\ FinalSites \subseteq KnownSites
      /\ \A di \in FinalSites : SiteFunc(di) \in threadFuncs
  BY FinalSitesAre DEF InterfInv
<1>7. FinalSites' = FinalSites
  BY <1>2 DEF FinalSites
<1>8. \A di : OfLast(di)' = OfLast(di)
  BY <1>2 DEF OfLast, SiteFunc, FilterMHBInterfs
<1>9. ASSUME NEW di \in FinalSites, RecordedOf(OfLast(di)) PROVE RecordedOf(OfLast(di))'
  <2>1. PICK r : r = OfLast(di)
    OBVIOUS
  <2>2. \A s \in DOMAIN r : r[s] \in Reachable
    BY <1>6, <2>1, OfLastIs
  <2>3. RecordedOf(r)
    BY <1>9, <2>1
  <2>4. ASSUME NEW s \in DOMAIN r, s \in Store
        PROVE  s \in DOMAIN newReachStores' /\ Leq(r[s], newReachStores'[s])
    <3>1. s \in DOMAIN newReachStores /\ Leq(r[s], newReachStores[s])
      BY <2>3, <2>4 DEF RecordedOf
    <3>2. s \in DOMAIN newReachStores' /\ Leq(newReachStores[s], newReachStores'[s])
      BY <1>3, <3>1 DEF ReachLeq
    <3>3. r[s] \in Reachable /\ newReachStores[s] \in Reachable /\ newReachStores'[s] \in Fact
      BY <1>3, <1>4, <2>2, <3>1, <3>2 DEF Reaches, Reachable
    <3>4. QED BY <3>1, <3>2, <3>3 DEF Assumed, FactsOK, Reachable
  <2>5. \A s \in DOMAIN r : s \in Error => s \in rErrors'
    BY <1>2, <2>3 DEF RecordedOf
  <2>6. QED BY <1>8, <2>1, <2>4, <2>5 DEF RecordedOf
<1>10. SiteFunc(ci) \in threadFuncs
  <2>1. PICK q : q = threadsToProcess
    OBVIOUS
  <2>2. q \in Seq(KnownSites) /\ q # <<>> /\ \A i \in DOMAIN q : SiteFunc(q[i]) \in threadFuncs
    BY <1>2, <2>1 DEF Shape
  <2>3. 1 \in DOMAIN q /\ q[1] = Head(q)
    BY <2>2
  <2>4. QED BY <1>2, <2>1, <2>2, <2>3
<1>11. RecordedOf(OfLast(ci))'
  <2>1. PICK r : r = OfLast(ci)
    OBVIOUS
  <2>2. ReachLeq(r, reached)
    BY <1>2, <1>4, <1>10, <2>1, LastBelowAgain DEF InterfInv
  <2>3. \A s \in DOMAIN r : s \in DOMAIN reached /\ Leq(r[s], reached[s])
    BY <2>2 DEF ReachLeq
  <2>4. \A s \in DOMAIN r : s \in Store => s \in DOMAIN newReachStores' /\ Leq(r[s], newReachStores'[s])
    BY <1>3, <2>3
  <2>5. \A s \in DOMAIN r : s \in Error => s \in rErrors'
    BY <1>2, <2>3
  <2>6. QED BY <1>8, <2>1, <2>4, <2>5 DEF RecordedOf
<1>12. \A di \in FinalSites : di \in Range(threadsToProcess) => di = ci \/ di \in Range(threadsToProcess')
  <2>1. PICK q : q = threadsToProcess
    OBVIOUS
  <2>2. q \in Seq(KnownSites) /\ q # <<>>
    BY <1>2, <2>1 DEF Shape
  <2>3. NewSites(reached) = <<>>
    BY NewSitesAre
  <2>4. PICK K : K = KnownSites
    OBVIOUS
  <2>6. q \in Seq(K) /\ <<>> \in Seq(K)
    BY <2>2, <2>4
  <2>7. Range(q) \subseteq {Head(q)} \cup Range(Tail(q) \o NewSites(reached))
    BY <2>2, <2>3, <2>6, SeqParts
  <2>8. QED BY <1>2, <2>1, <2>7
<1>13. \A di \in FinalSites' : di \in Range(threadsToProcess)' \/ RecordedOf(OfLast(di))'
  <2>1. ASSUME NEW di \in FinalSites PROVE di \in Range(threadsToProcess') \/ RecordedOf(OfLast(di))'
    <3>1. di \in Range(threadsToProcess) \/ RecordedOf(OfLast(di))
      BY DEF IterationDone
    <3>2. QED BY <1>9, <1>11, <1>12, <3>1
  <2>2. QED BY <1>7, <2>1
<1>14. QED BY <1>5, <1>13 DEF IterationDone

LEMMA FixStep ==
  ASSUME Assumed, FixInv, [Next]_vars
  PROVE  FixInv'
<1>1. option' = option
  BY DEF Next, AnalyzeThread, Abort, Finish, NextIteration, vars
<1>2. GrowInv' /\ InterfInv' /\ OptionKnown'
  BY <1>1, StepGrow, StepKeeps DEF FixInv, Assumed, OptionKnown, CheckCommandLineArgs
<1>3. CASE option.dyninit
  BY <1>1, <1>2, <1>3 DEF FixInv
<1>4. CASE ~ option.dyninit
  <2>1. IterationDone /\ StableAtEnd /\ InterfInv
    BY <1>4 DEF FixInv
  <2>2. Covered
    <3>1. Covered \/ option.constraints
      BY <1>4 DEF Covered
    <3>2. option \in CheckCommandLineArgs
      BY DEF FixInv, OptionKnown
    <3>3. QED BY <1>4, <3>1, <3>2, OptionIs DEF Assumed
  <2>3. Shape /\ InterfsKnown /\ NothingLost
    BY <2>2 DEF FixInv, GrowInv
  <2>4. CASE AnalyzeThread
    <3>1. IterationDone'
      BY <1>4, <2>1, <2>2, <2>3, <2>4, IterationDoneAfterAnalysis
    <3>2. StableAtEnd'
      BY <2>4 DEF AnalyzeThread, StableAtEnd
    <3>3. QED BY <1>2, <3>1, <3>2 DEF FixInv
  <2>5. CASE NextIteration
    <3>1. /\ allReachStores' = newReachStores /\ newReachStores' = newReachStores
          /\ threadsToProcess' = ThreadSites /\ status' = "running"
      BY <2>5 DEF NextIteration
    <3>2. ReachLeq(allReachStores, newReachStores)'
      BY <2>3, <3>1 DEF ReachLeq, Shape, Reaches, Assumed, FactsOK, Reachable
    <3>3. FinalSites' = FinalSites /\ FinalSites = Range(ThreadSites)
      BY <1>1, <1>4, <2>1, <2>3, FinalSitesAre DEF FinalSites, InterfInv
    <3>4. IterationDone'
      BY <3>1, <3>2, <3>3 DEF IterationDone
    <3>5. QED BY <1>2, <3>1, <3>4 DEF FixInv, StableAtEnd
  <2>6. ASSUME UNCHANGED <<option, threadsToProcess, threadEntryFacts, allReachStores, newReachStores, rErrors>>
        PROVE  IterationDone'
    <3>1. FinalSites' = FinalSites /\ \A ci : OfLast(ci)' = OfLast(ci)
      BY <2>6 DEF FinalSites, OfLast, SiteFunc, FilterMHBInterfs
    <3>2. \A r : RecordedOf(r)' = RecordedOf(r)
      BY <2>6 DEF RecordedOf
    <3>3. ReachLeq(allReachStores, newReachStores)'
      BY <2>1, <2>6 DEF IterationDone
    <3>4. \A ci \in FinalSites : ci \in Range(threadsToProcess') \/ RecordedOf(OfLast(ci))'
      <4>1. ASSUME NEW ci \in FinalSites, RecordedOf(OfLast(ci)) PROVE RecordedOf(OfLast(ci))'
        BY <2>6, <3>1, <4>1 DEF RecordedOf
      <4>2. QED BY <2>1, <2>6, <4>1 DEF IterationDone
    <3>5. QED BY <3>1, <3>3, <3>4 DEF IterationDone
  <2>7. CASE Abort
    BY <1>2, <2>6, <2>7 DEF Abort, StableAtEnd, FixInv
  <2>8. CASE Finish
    <3>1. IterationDone'
      BY <2>6, <2>8 DEF Finish
    <3>2. StableAtEnd'
      BY <2>8 DEF Finish, StableAtEnd, NoThreads, StableStores
    <3>3. QED BY <1>2, <3>1, <3>2 DEF FixInv
  <2>9. CASE UNCHANGED vars
    <3>1. IterationDone'
      BY <2>6, <2>9 DEF vars
    <3>2. StableAtEnd'
      BY <2>1, <2>9 DEF vars, StableAtEnd, NoThreads, StableStores
    <3>3. QED BY <1>2, <3>1, <3>2 DEF FixInv
  <2>10. QED BY <2>4, <2>5, <2>7, <2>8, <2>9 DEF Next
<1>5. QED BY <1>3, <1>4

LEMMA FixInit ==
  ASSUME Assumed, Init
  PROVE  FixInv
<1>1. GrowInv /\ InterfInv /\ OptionKnown
  BY InitGrow, InitEstablishes DEF Assumed, OptionKnown, Init
<1>2. ASSUME ~ option.dyninit PROVE IterationDone /\ StableAtEnd
  <2>1. FinalSites = Range(threadsToProcess)
    BY <1>2, ThreadSitesAre DEF FinalSites, Assumed, Init
  <2>2. ReachLeq(allReachStores, newReachStores) /\ status = "running"
    BY DEF Init, ReachLeq
  <2>3. QED BY <2>1, <2>2 DEF IterationDone, StableAtEnd
<1>3. QED BY <1>1, <1>2 DEF FixInv

(* The iteration stops when the facts it started from are those it ends     *)
(* with, so what each thread reached is all it would reach with them.       *)
LEMMA FixInvImplies ==
  ASSUME Assumed, FixInv, ~ option.dyninit
  PROVE  Fixpoint
<1>1. Covered
  <2>1. Covered \/ option.constraints
    BY DEF Covered
  <2>2. option \in CheckCommandLineArgs
    BY DEF FixInv, OptionKnown
  <2>3. QED BY <2>1, <2>2, OptionIs DEF Assumed
<1>2. Shape /\ InterfInv /\ IterationDone /\ StableAtEnd
  BY <1>1 DEF FixInv, GrowInv
<1>3. SUFFICES ASSUME status = "done", ~ NoThreads, NEW ci \in FinalSites, NEW cur, NEW reached,
                      cur = FilterMHBInterfs(InterferingStores(SiteFunc(ci), newReachStores)),
                      reached = AnalyzeThreadInterf(ci, cur, Rejected(cur)),
                      NEW s \in DOMAIN reached
               PROVE  /\ s \in Store => s \in DOMAIN newReachStores /\ Leq(reached[s], newReachStores[s])
                      /\ s \in Error => s \in rErrors
  BY DEF Fixpoint
<1>4. ReachLeq(allReachStores, newReachStores) /\ ReachLeq(newReachStores, allReachStores)
  <2>1. StableStores(allReachStores, newReachStores) /\ ReachLeq(allReachStores, newReachStores)
    BY <1>2, <1>3 DEF StableAtEnd, IterationDone
  <2>2. QED BY <2>1 DEF StableStores, ReachLeq
<1>5. RecordedOf(OfLast(ci))
  <2>1. threadsToProcess = <<>>
    BY <1>2, <1>3 DEF StableAtEnd
  <2>2. Range(<<>>) = {}
    BY DEF Range
  <2>3. QED BY <1>2, <2>1, <2>2 DEF IterationDone
<1>6. ci \in KnownSites /\ EntryFact(ci) = InitFact
  BY <1>2, FinalSitesAre DEF InterfInv
<1>7. PICK f : f = SiteFunc(ci)
  OBVIOUS
<1>8. PICK reach1 : reach1 = newReachStores
  OBVIOUS
<1>9. PICK reach2 : reach2 = allReachStores
  OBVIOUS
<1>10. PICK c : c = InterferingStores(f, reach1)
  OBVIOUS
<1>11. PICK d : d = InterferingStores(f, reach2)
  OBVIOUS
<1>12. PICK cur2 : cur2 = FilterMHBInterfs(d)
  OBVIOUS
<1>13. PICK n : n = option.nocombs
  OBVIOUS
<1>14. cur = FilterMHBInterfs(c)
  BY <1>3, <1>7, <1>8, <1>10
<1>15. f \in Func /\ InitFact \in Fact /\ n \in BOOLEAN /\ Leq(InitFact, InitFact)
  BY <1>2, <1>6, <1>7, <1>13, KnownSiteIs, OptionIs DEF Shape, Assumed, FactsOK, Reachable
<1>16. ReachOK(cur, reach1)
  BY <1>2, <1>8, <1>10, <1>14, <1>15, InterferingHaveFacts DEF Shape
<1>17. ReachOK(cur2, reach2)
  BY <1>2, <1>9, <1>11, <1>12, <1>15, InterferingHaveFacts DEF Shape
<1>18. InterfsLeq(cur, cur2)
  <2>1. DOMAIN reach1 \subseteq DOMAIN reach2
    BY <1>4, <1>8, <1>9 DEF ReachLeq
  <2>2. InterfsLeq(c, d)
    BY <1>10, <1>11, <2>1 DEF InterfsLeq, InterferingStores, InterferingAt
  <2>3. QED BY <1>12, <1>14, <2>2, FilterGrows
<1>19. ReachLeq(reach1, reach2)
  BY <1>4, <1>8, <1>9
<1>20. ReachLeq(ResultOf(f, InitFact, cur, reach1, n), ResultOf(f, InitFact, cur2, reach2, n))
  BY <1>15, <1>16, <1>17, <1>18, <1>19, ResultGrows DEF Assumed
<1>21. OfLast(ci) = ResultOf(f, InitFact, cur2, reach2, n)
  BY <1>7, <1>9, <1>11, <1>12, <1>13 DEF OfLast
<1>22. reached = ResultOf(f, InitFact, cur, reach1, n)
  <2>1. IsInterfs(cur)
    BY <1>16 DEF ReachOK
  <2>2. QED BY <1>1, <1>2, <1>3, <1>6, <1>7, <1>8, <1>13, <2>1, AnalysisIs
<1>23. s \in DOMAIN OfLast(ci) /\ Leq(reached[s], OfLast(ci)[s])
  BY <1>20, <1>21, <1>22 DEF ReachLeq
<1>24. s \in Error => s \in rErrors
  BY <1>5, <1>23 DEF RecordedOf
<1>25. ASSUME s \in Store PROVE s \in DOMAIN newReachStores /\ Leq(reached[s], newReachStores[s])
  <2>1. s \in DOMAIN newReachStores /\ Leq(OfLast(ci)[s], newReachStores[s])
    BY <1>5, <1>23, <1>25 DEF RecordedOf
  <2>2. reached[s] \in Reachable /\ OfLast(ci)[s] \in Reachable
    BY <1>2, <1>6, <1>15, <1>16, <1>22, <1>23, OfLastIs, ResultIs DEF Assumed
  <2>3. newReachStores[s] \in Reachable
    BY <1>2, <2>1 DEF Shape, Reaches, Reachable
  <2>4. QED BY <1>23, <2>1, <2>2, <2>3 DEF Assumed, FactsOK, Reachable
<1>26. QED BY <1>24, <1>25

(* What an ended iteration reports, of threads that are all known from the  *)
(* start, when no interference is filtered.                                 *)
LEMMA Settled ==
  ASSUME Assumed, FixInv, status = "done", ~ option.dyninit, ~ option.filter_mhb
  PROVE  /\ option.nocombs \in BOOLEAN /\ threadFuncs \subseteq Func /\ Reaches(Store, allReachStores)
         /\ threadFuncs = {option.main} \cup {Starts[ci] : ci \in Range(ThreadCreate[option.main])}
         /\ \E o \in Option : o.main = option.main
         /\ \A f \in threadFuncs : \A g \in MapsOf(InterferingStores(f, allReachStores), allReachStores, option.nocombs) :
              RecordedOf(AnalyzeFunc(f, InitFact, g, option.nocombs))
         /\ \A f, h \in threadFuncs : f # h => ReachLeq(newReachStores, allReachStores)
<1>1. option \in CheckCommandLineArgs /\ GrowInv /\ InterfInv /\ IterationDone /\ StableAtEnd
  BY DEF FixInv, OptionKnown
<1>2. option.nocombs \in BOOLEAN /\ ~ option.constraints /\ \E o \in Option : option.main = o.main
  BY <1>1, OptionIs DEF Assumed
<1>3. Shape /\ ThreadsKnown
  BY <1>1, <1>2 DEF GrowInv, Covered, InterfInv
<1>4. threadsToProcess = <<>> /\ (NoThreads \/ StableStores(allReachStores, newReachStores))
  BY <1>1 DEF StableAtEnd
<1>5. threadFuncs = {option.main} \cup {Starts[ci] : ci \in Range(ThreadCreate[option.main])}
  BY <1>3 DEF ThreadsKnown
<1>6. threadFuncs \subseteq Func /\ Reaches(Store, allReachStores)
  BY <1>3 DEF Shape
<1>7. ASSUME NEW f \in threadFuncs,
             NEW g \in MapsOf(InterferingStores(f, allReachStores), allReachStores, option.nocombs)
      PROVE  RecordedOf(AnalyzeFunc(f, InitFact, g, option.nocombs))
  <2>1. PICK ci \in FinalSites : SiteFunc(ci) = f /\ ci \in KnownSites
    <3>1. FinalSites = Range(ThreadSites) /\ FinalSites \subseteq KnownSites
      BY <1>3, FinalSitesAre
    <3>2. f \in {SiteFunc(ci) : ci \in Range(ThreadSites)}
      BY <1>3, <1>5, SitesAre DEF ThreadsKnown, Assumed
    <3>3. QED BY <3>1, <3>2
  <2>2. RecordedOf(OfLast(ci))
    <3>1. Range(<<>>) = {}
      BY DEF Range
    <3>2. QED BY <1>1, <1>4, <3>1 DEF IterationDone
  <2>3. PICK cur : cur = InterferingStores(f, allReachStores)
    OBVIOUS
  <2>4. FilterMHBInterfs(cur) = cur
    BY <2>3 DEF FilterMHBInterfs, InterferingStores
  <2>5. OfLast(ci) = ResultOf(f, InitFact, cur, allReachStores, option.nocombs)
    BY <2>1, <2>3, <2>4, Zenon DEF OfLast
  <2>6. PICK R : R = Runs(f, InitFact, cur, allReachStores, option.nocombs)
    OBVIOUS
  <2>7. f \in Func /\ InitFact \in Fact /\ ReachOK(cur, allReachStores)
    BY <1>6, <2>3, InterferingHaveFacts DEF Assumed, FactsOK
  <2>8. IsFiniteSet(R) /\ \A r \in R : \A s \in DOMAIN r : r[s] \in Reachable
    BY <1>2, <2>6, <2>7, RunsAre DEF Assumed
  <2>9. PICK r : r = AnalyzeFunc(f, InitFact, g, option.nocombs) /\ r \in R
    BY <2>3, <2>6 DEF Runs
  <2>10. ASSUME NEW s \in DOMAIN r
         PROVE  s \in DOMAIN OfLast(ci) /\ Leq(r[s], OfLast(ci)[s]) /\ r[s] \in Fact /\ OfLast(ci)[s] \in Fact
    <3>1. OfLast(ci) = MergeReached(R)
      BY <2>5, <2>6 DEF ResultOf
    <3>2. s \in DOMAIN MergeReached(R)
      BY <2>8, <2>9, MergedAre DEF Assumed
    <3>3. MergeReached(R)[s] = JoinAll(ValuesAt(R, s)) /\ ValuesAt(R, s) \in SUBSET Fact /\ IsFiniteSet(ValuesAt(R, s))
      BY <2>8, <3>2, MergedAre DEF Assumed
    <3>4. r[s] \in ValuesAt(R, s)
      BY <2>9 DEF ValuesAt
    <3>5. JoinAll(ValuesAt(R, s)) \in Fact /\ Leq(r[s], JoinAll(ValuesAt(R, s)))
      BY <3>3, <3>4, JoinAllIsLeast DEF Assumed
    <3>6. QED BY <3>1, <3>2, <3>3, <3>4, <3>5
  <2>11. ASSUME NEW s \in DOMAIN r
         PROVE  /\ s \in Store => s \in DOMAIN newReachStores /\ Leq(r[s], newReachStores[s])
                /\ s \in Error => s \in rErrors
    <3>1. s \in Error => s \in rErrors
      BY <2>2, <2>10 DEF RecordedOf
    <3>2. ASSUME s \in Store PROVE s \in DOMAIN newReachStores /\ Leq(r[s], newReachStores[s])
      <4>1. s \in DOMAIN newReachStores /\ Leq(OfLast(ci)[s], newReachStores[s])
        BY <2>2, <2>10, <3>2 DEF RecordedOf
      <4>2. newReachStores[s] \in Fact
        BY <1>3, <4>1 DEF Shape, Reaches, Reachable
      <4>3. QED BY <2>10, <4>1, <4>2 DEF Assumed, FactsOK
    <3>3. QED BY <3>1, <3>2
  <2>12. QED BY <2>9, <2>11 DEF RecordedOf
<1>8. ASSUME NEW f \in threadFuncs, NEW h \in threadFuncs, f # h
      PROVE  ReachLeq(newReachStores, allReachStores)
  <2>1. ~ NoThreads
    <3>1. SUFFICES ASSUME NoThreads PROVE FALSE
      OBVIOUS
    <3>2. Range(ThreadCreate[option.main]) = {}
      BY <3>1 DEF NoThreads, Range
    <3>3. QED BY <1>5, <1>8, <3>2
  <2>2. QED BY <1>1, <1>4, <2>1 DEF StableStores, IterationDone, ReachLeq
<1>9. QED BY <1>2, <1>5, <1>6, <1>7, <1>8

(* "until the interferences (facts at stores in threads) stabalize"          *)
(* (worklistai.cpp: runOnModule).                                           *)
THEOREM EndIsFixpoint ==
  ASSUME Assumed
  PROVE  Spec => [](~ option.dyninit => Fixpoint)
<1>1. Init => FixInv
  BY FixInit
<1>2. FixInv /\ [Next]_vars => FixInv'
  BY FixStep
<1>3. FixInv => (~ option.dyninit => Fixpoint)
  BY FixInvImplies
<1> QED
  BY <1>1, <1>2, <1>3, PTL DEF Spec

-----------------------------------------------------------------------------
(* Type correctness, with the constraints or without, whatever they reject: *)
(* the facts recorded are at sites and are not bottom, so that a site in    *)
(* the list has an entry fact to be analysed with.                          *)
TypeInv ==
  /\ Shape
  /\ DOMAIN interfs = Func
  /\ \A f \in Func : /\ DOMAIN interfs[f] \subseteq Load
                     /\ \A l \in DOMAIN interfs[f] : interfs[f][l] \subseteq Store
  /\ \A p \in DOMAIN permCache : permCache[p] \in BOOLEAN
  /\ rErrors \subseteq Error
  /\ status \in {"running", "done", "aborted"}

LEMMA InterfMapsAre ==
  ASSUME ConstantsOK, address \in Layout, NEW cur, IsInterfs(cur), NEW rejected
  PROVE  InterfMaps(cur, rejected) \subseteq MapsOf(cur, newReachStores, option.nocombs)
<1>1. CASE DOMAIN cur = {}
  BY <1>1 DEF InterfMaps, MapsOf
<1>2. CASE DOMAIN cur # {} /\ option.nocombs
  BY <1>2 DEF InterfMaps, MapsOf, JoinInterfs, JoinOf, FactsAt
<1>3. CASE DOMAIN cur # {} /\ ~ option.nocombs
  <2>1. InterfMaps(cur, rejected) = {InterfMap(Choice(cur, p)) : p \in PermsOf(cur) \ rejected}
    BY <1>3 DEF InterfMaps
  <2>2. \A p \in PermsOf(cur) : Choice(cur, p) \in ReadChoices(cur)
    BY <1>3, PermsAreChoices
  <2>3. \A c : InterfMap(c) = MapOf(c, newReachStores)
    BY DEF InterfMap, MapOf
  <2>4. QED BY <1>3, <2>1, <2>2, <2>3 DEF MapsOf
<1>4. QED BY <1>1, <1>2, <1>3

(* What a thread is found to reach, however few of its permutations are     *)
(* analysed.                                                                *)
LEMMA ReachedIs ==
  ASSUME Assumed, Shape, NEW ci \in KnownSites, NEW cur, ReachOK(cur, newReachStores), NEW rejected
  PROVE  ReachedBy(ci, AnalyzeThreadInterf(ci, cur, rejected))
<1>1. PICK f : f = SiteFunc(ci)
  OBVIOUS
<1>2. PICK e : e = EntryFact(ci)
  OBVIOUS
<1>3. PICK n : n = option.nocombs
  OBVIOUS
<1>4. PICK reach : reach = newReachStores
  OBVIOUS
<1>5. PICK M : M = InterfMaps(cur, rejected)
  OBVIOUS
<1>6. f \in Func /\ e \in Fact /\ n \in BOOLEAN /\ IsInterfs(cur) /\ ReachOK(cur, reach)
  BY <1>1, <1>2, <1>3, <1>4, KnownSiteIs, OptionIs DEF Shape, Assumed, ReachOK
<1>7. M \subseteq MapsOf(cur, reach, n)
  BY <1>3, <1>4, <1>5, <1>6, InterfMapsAre DEF Assumed, Shape
<1>8. PICK R : R = {AnalyzeFunc(f, e, m, n) : m \in M}
  OBVIOUS
<1>9. PICK all : all = Runs(f, e, cur, reach, n)
  OBVIOUS
<1>10. /\ IsFiniteSet(all)
       /\ \A r \in all : /\ DOMAIN r \subseteq {s \in Store \cup Create \cup Error : FuncOf(s) = f}
                         /\ \A s \in DOMAIN r : r[s] \in Reachable
  BY <1>6, <1>9, RunsAre DEF Assumed
<1>11. R \in SUBSET all
  BY <1>7, <1>8, <1>9 DEF Runs
<1>12. IsFiniteSet(R)
  BY <1>10, <1>11, FS_Subset
<1>13. /\ DOMAIN MergeReached(R) = UNION {DOMAIN r : r \in R}
       /\ \A s \in DOMAIN MergeReached(R) : MergeReached(R)[s] \in Reachable
  BY <1>10, <1>11, <1>12, MergedAre DEF Assumed
<1>14. AnalyzeThreadInterf(ci, cur, rejected) = MergeReached(R)
  BY <1>1, <1>2, <1>3, <1>5, <1>8 DEF AnalyzeThreadInterf
<1>15. DOMAIN MergeReached(R) \subseteq {s \in Store \cup Create \cup Error : FuncOf(s) = f}
  BY <1>10, <1>11, <1>13
<1>16. QED BY <1>1, <1>13, <1>14, <1>15 DEF ReachedBy

(* Where no assertion fails, the stores the loads read from have facts.      *)
LEMMA NoAssertNoGap ==
  ASSUME TypeInv, NEW f \in Func, NEW cur, cur = FilterMHBInterfs(interfs[f]), ~ AssertFails(cur)
  PROVE  ReachOK(cur, newReachStores)
<1>1. PICK c : c = interfs[f]
  OBVIOUS
<1>2. DOMAIN c \subseteq Load /\ \A l \in DOMAIN c : c[l] \subseteq Store
  BY <1>1 DEF TypeInv
<1>3. IsInterfs(cur)
  BY <1>1, <1>2, FilterIs DEF IsInterfs
<1>4. \A l \in DOMAIN cur : cur[l] \subseteq DOMAIN newReachStores
  BY DEF AssertFails
<1>5. \A s \in DOMAIN newReachStores : newReachStores[s] \in Reachable
  BY DEF TypeInv, Shape, Reaches, Reachable
<1>6. QED BY <1>3, <1>4, <1>5 DEF ReachOK

LEMMA CacheTyped ==
  ASSUME \A p \in DOMAIN permCache : permCache[p] \in BOOLEAN, NEW cur, NEW rejected
  PROVE  \A p \in DOMAIN UpdateCache(cur, rejected) : UpdateCache(cur, rejected)[p] \in BOOLEAN
<1> SUFFICES ASSUME NEW p \in DOMAIN UpdateCache(cur, rejected)
             PROVE  UpdateCache(cur, rejected)[p] \in BOOLEAN
  OBVIOUS
<1>1. (p \in rejected) \in BOOLEAN
  <2>1. CASE p \in rejected
    <3>1. (p \in rejected) = TRUE
      BY <2>1
    <3>2. QED BY <3>1
  <2>2. CASE p \notin rejected
    <3>1. (p \in rejected) = FALSE
      BY <2>2
    <3>2. QED BY <3>1
  <2>3. QED BY <2>1, <2>2
<1>2. CASE ~ (option.constraints /\ DOMAIN cur # {})
  BY <1>2 DEF UpdateCache
<1>3. CASE option.constraints /\ DOMAIN cur # {}
  <2>1. UpdateCache(cur, rejected) = [q \in DOMAIN permCache \cup PermsOf(cur) |->
                                        IF q \in DOMAIN permCache THEN permCache[q] ELSE q \in rejected]
    BY <1>3, Zenon DEF UpdateCache
  <2>2. p \in DOMAIN permCache \cup PermsOf(cur)
    BY <2>1, Zenon
  <2>3. UpdateCache(cur, rejected)[p] = IF p \in DOMAIN permCache THEN permCache[p] ELSE p \in rejected
    BY <2>1, <2>2, Zenon
  <2>4. CASE p \in DOMAIN permCache
    BY <2>3, <2>4, Zenon
  <2>5. CASE p \notin DOMAIN permCache
    BY <1>1, <2>3, <2>5, Zenon
  <2>6. QED BY <2>4, <2>5
<1>4. QED BY <1>2, <1>3

LEMMA TypeInvImplies == TypeInv => TypeOK
<1> SUFFICES ASSUME TypeInv PROVE TypeOK
  OBVIOUS
<1>1. /\ Facts(Create, threadEntryFacts) /\ Facts(Store, allReachStores)
      /\ Facts(Store, newReachStores)
  BY DEF TypeInv, Shape, Reaches, Facts, Reachable
<1>2. \A i \in DOMAIN threadsToProcess : threadsToProcess[i] \in Create \cup {MainSite}
  <2>1. KnownSites \subseteq Create \cup {MainSite}
    BY DEF KnownSites, TypeInv, Shape, Reaches, Reachable
  <2>2. \A i \in DOMAIN threadsToProcess : threadsToProcess[i] \in KnownSites
    <3>1. PICK q : q = threadsToProcess
      OBVIOUS
    <3>2. PICK K : K = KnownSites
      OBVIOUS
    <3>3. q \in Seq(K)
      BY <3>1, <3>2 DEF TypeInv, Shape
    <3>4. \A i \in DOMAIN q : q[i] \in K
      BY <3>3
    <3>5. QED BY <3>1, <3>2, <3>4
  <2>3. QED BY <2>1, <2>2
<1>3. QED BY <1>1, <1>2 DEF TypeOK, TypeInv, Shape

LEMMA TypeInit ==
  ASSUME Assumed, Init
  PROVE  TypeInv
<1>1. Shape
  BY InitShape
<1>2. /\ DOMAIN interfs = Func
      /\ \A f \in Func : DOMAIN interfs[f] = {}
      /\ DOMAIN permCache = {} /\ rErrors = {} /\ status = "running"
  BY DEF Init
<1>3. QED BY <1>1, <1>2 DEF TypeInv

LEMMA TypeOfAnalysis ==
  ASSUME Assumed, TypeInv, AnalyzeThread
  PROVE  TypeInv'
<1>1. PICK ci : ci = Head(threadsToProcess)
  OBVIOUS
<1>2. PICK cur : cur = FilterMHBInterfs(interfs[SiteFunc(ci)])
  OBVIOUS
<1>3. PICK rejected : rejected = Rejected(cur)
  OBVIOUS
<1>4. PICK reached : reached = AnalyzeThreadInterf(ci, cur, rejected)
  OBVIOUS
<1>5. /\ status = "running" /\ threadsToProcess # <<>> /\ ~ AssertFails(cur)
      /\ permCache' = UpdateCache(cur, rejected)
      /\ newReachStores' = UpdateStores(SiteFunc(ci), reached)
      /\ rErrors' = rErrors \cup (DOMAIN reached \cap Error)
      /\ threadEntryFacts' = UpdateEntryFacts(reached)
      /\ threadsToProcess' = Tail(threadsToProcess) \o NewSites(reached)
      /\ threadFuncs' = threadFuncs \cup {SiteFunc(c) : c \in Range(NewSites(reached))}
      /\ UNCHANGED <<option, address, interfs, allReachStores, status>>
  BY <1>1, <1>2, <1>3, <1>4 DEF AnalyzeThread
<1>6. ci \in KnownSites
  BY <1>1, <1>5 DEF TypeInv, Shape
<1>7. SiteFunc(ci) \in Func
  BY <1>6, KnownSiteIs DEF TypeInv
<1>8. ReachOK(cur, newReachStores)
  <2>1. PICK f : f = SiteFunc(ci)
    OBVIOUS
  <2>2. QED BY <1>2, <1>5, <1>7, <2>1, NoAssertNoGap
<1>9. ReachedBy(ci, reached)
  BY <1>4, <1>6, <1>8, ReachedIs DEF TypeInv
<1>10. Shape'
  BY <1>5, <1>9, ShapeKept DEF TypeInv
<1>11. \A p \in DOMAIN permCache' : permCache'[p] \in BOOLEAN
  BY <1>5, CacheTyped DEF TypeInv
<1>12. QED BY <1>5, <1>10, <1>11 DEF TypeInv

LEMMA TypeOfNext ==
  ASSUME Assumed, TypeInv, NextIteration
  PROVE  TypeInv'
<1>1. Shape'
  BY ShapeOfNext DEF TypeInv
<1>2. /\ interfs' = [f \in Func |-> IF f \in threadFuncs THEN InterferingStores(f, newReachStores)
                                    ELSE interfs[f]]
      /\ UNCHANGED <<permCache, rErrors, status>>
  BY DEF NextIteration
<1>3. \A f \in Func : /\ DOMAIN InterferingStores(f, newReachStores) \subseteq Load
                      /\ \A l \in DOMAIN InterferingStores(f, newReachStores) :
                           InterferingStores(f, newReachStores)[l] \subseteq Store
  BY DEF InterferingStores, InterferingAt, TypeInv, Shape, Reaches, Reachable
<1>4. QED BY <1>1, <1>2, <1>3 DEF TypeInv

LEMMA TypeStep ==
  ASSUME Assumed, TypeInv, [Next]_vars
  PROVE  TypeInv'
<1>1. CASE AnalyzeThread
  BY <1>1, TypeOfAnalysis
<1>2. CASE NextIteration
  BY <1>2, TypeOfNext
<1>3. CASE Abort \/ Finish \/ UNCHANGED vars
  <2>1. /\ UNCHANGED <<option, address, threadFuncs, threadsToProcess, threadEntryFacts, interfs,
                      allReachStores, newReachStores, permCache, rErrors>>
        /\ status' \in {"running", "done", "aborted"}
    BY <1>3 DEF Abort, Finish, vars, TypeInv
  <2>2. Shape'
    BY <2>1 DEF TypeInv, Shape, CheckCommandLineArgs, KnownSites, SiteFunc, ThreadSites, Reaches, Reachable
  <2>3. QED BY <2>1, <2>2 DEF TypeInv
<1>4. QED BY <1>1, <1>2, <1>3 DEF Next

(* Every variable of the iteration holds what its std::map or vector in     *)
(* runOnModule may hold, whatever the solver and the cache reject: facts    *)
(* that are not bottom at sites that exist, interferences that are stores,  *)
(* sites whose entry facts are known.                                       *)
THEOREM TypeCorrect ==
  ASSUME Assumed
  PROVE  Spec => []TypeOK
<1>1. Init => TypeInv
  BY TypeInit
<1>2. TypeInv /\ [Next]_vars => TypeInv'
  BY TypeStep
<1>3. TypeInv => TypeOK
  BY TypeInvImplies
<1>4. QED BY <1>1, <1>2, <1>3, PTL DEF Spec

=============================================================================
