------------------------ MODULE ThreadQueries_proofs ------------------------
(***************************************************************************)
(* The three parts that ThreadQueries is made of, each for all its         *)
(* instances: the enumerator of permutations, the reaching stores and the  *)
(* identifiers of values.  Then the whole: the analysis of a thread runs   *)
(* them as their specifications say, whence their theorems hold of it; no  *)
(* two permutations are asked about in the same words; and on a program,   *)
(* what is found and asked is what Constraints defines.                    *)
(***************************************************************************)
EXTENDS ProgramQueries, Closures, FiniteSetTheorems, WellFoundedInduction, TLAPS

-----------------------------------------------------------------------------
(* The enumerator, for any number of rows of any sizes: the carry goes to   *)
(* the next permutation in the order of the rows, so that none is skipped   *)
(* and none comes back.                                                     *)

(* A set of numbers has a least one. *)
LEMMA LeastOf ==
  ASSUME NEW S \in SUBSET Nat, S # {}
  PROVE  \E m \in S : \A n \in S : m <= n
<1>1. PICK m \in S : \A n \in S : ~ (<<n, m>> \in OpToRel(<, Nat))
  BY NatLessThanWellFounded, WFMin, Zenon
<1>2. ASSUME NEW n \in S PROVE m <= n
  <2>1. n < m => <<n, m>> \in OpToRel(<, Nat)
    BY DEF OpToRel
  <2>2. ~ (n < m)
    BY <1>1, <2>1, Zenon
  <2>3. QED BY <2>2
<1>3. QED BY <1>2

(* A set of rows has a last one. *)
LEMMA LastOf ==
  ASSUME NEW n \in Nat, NEW S \in SUBSET (1 .. n), S # {}
  PROVE  \E m \in S : \A k \in S : k <= m
<1> DEFINE T == {n - k : k \in S}
<1>1. T \in SUBSET Nat /\ T # {}
  <2>1. \A k \in S : n - k \in Nat
    OBVIOUS
  <2>2. QED BY <2>1
<1>2. PICK t \in T : \A u \in T : t <= u
  BY <1>1, LeastOf
<1>3. PICK m \in S : t = n - m
  OBVIOUS
<1>4. \A k \in S : n - m <= n - k
  BY <1>2, <1>3
<1>5. \A k \in S : k <= m
  BY <1>4
<1>6. QED BY <1>5

-----------------------------------------------------------------------------
(* The order of the permutations. *)

LEMMA NotBeforeItself ==
  ASSUME NEW p \in AllPermutations
  PROVE  ~ Before(p, p)
  BY DEF Before, AllPermutations

LEMMA RowsAre ==
  ASSUME CpTypeOK
  PROVE  /\ Len(sizes) \in Nat \ {0}
         /\ \A r \in Row : sizes[r] \in Nat \ {0}
  BY SizesAssumption DEF CpTypeOK, Row

LEMMA PermutationRows ==
  ASSUME CpTypeOK, NEW p
  PROVE  p \in AllPermutations <=>
           p = [r \in Row |-> p[r]] /\ \A r \in Row : p[r] \in Nat /\ p[r] < sizes[r]
<1>1. \A r \in Row : sizes[r] \in Nat \ {0}
  BY RowsAre
<1>2. ASSUME p \in AllPermutations, NEW r \in Row PROVE p[r] \in Nat /\ p[r] < sizes[r]
  <2>1. p[r] \in UNION {0 .. sizes[s] - 1 : s \in Row}
    BY <1>2 DEF AllPermutations
  <2>2. PICK s \in Row : p[r] \in 0 .. sizes[s] - 1
    BY <2>1
  <2>3. QED BY <1>1, <1>2, <2>2 DEF AllPermutations
<1>3. p \in AllPermutations => p = [r \in Row |-> p[r]]
  BY DEF AllPermutations
<1>4. ASSUME p = [r \in Row |-> p[r]], \A r \in Row : p[r] \in Nat /\ p[r] < sizes[r]
      PROVE  p \in AllPermutations
  <2>1. ASSUME NEW r \in Row PROVE p[r] \in UNION {0 .. sizes[s] - 1 : s \in Row}
    <3>1. p[r] \in 0 .. sizes[r] - 1
      BY <1>1, <1>4
    <3>2. QED BY <3>1
  <2>2. p \in [Row -> UNION {0 .. sizes[s] - 1 : s \in Row}]
    BY <1>4, <2>1, Zenon
  <2>3. QED BY <1>4, <2>2 DEF AllPermutations
<1>5. QED BY <1>2, <1>3, <1>4

(* The last row in which two permutations differ decides their order. *)
LEMMA Decided ==
  ASSUME CpTypeOK, NEW p \in AllPermutations, NEW q \in AllPermutations, NEW n \in 0 .. Len(sizes),
         \A r \in Row : r > n => p[r] = q[r],
         \A r \in 1 .. n : p[r] <= q[r],
         p # q
  PROVE  Before(p, q)
<1> DEFINE S == {r \in 1 .. n : p[r] # q[r]}
<1>1. Len(sizes) \in Nat /\ n \in Nat /\ 1 .. n \subseteq Row
  BY RowsAre DEF Row
<1>2. \A r \in Row : p[r] \in Nat /\ q[r] \in Nat
  BY PermutationRows
<1>3. PICK r \in Row : p[r] # q[r]
  BY PermutationRows
<1>4. r \in S
  BY <1>1, <1>3 DEF Row
<1>5. S \in SUBSET (1 .. n) /\ S # {}
  BY <1>4
<1> HIDE DEF S
<1>6. PICK m \in S : \A k \in S : k <= m
  BY <1>1, <1>5, LastOf
<1>7. m \in Row /\ p[m] < q[m]
  BY <1>1, <1>2, <1>6 DEF S
<1>8. ASSUME NEW j \in Row, j > m PROVE p[j] = q[j]
  BY <1>1, <1>6, <1>8 DEF S, Row
<1>9. QED BY <1>7, <1>8 DEF Before

(* The carry ends in the permutation that comes next. *)
LEMMA NextInOrder ==
  ASSUME CpTypeOK, NEW k \in Row, IsCarryRow(k)
  PROVE  /\ Incremented(k) \in AllPermutations
         /\ Prior(Incremented(k)) = Prior(permutation) \cup {permutation}
<1> DEFINE q == Incremented(k)
<1>1. permutation \in AllPermutations
  BY DEF CpTypeOK
<1>2. /\ Len(sizes) \in Nat /\ k \in 1 .. Len(sizes) /\ 1 .. k - 1 \subseteq Row
      /\ \A r \in Row : sizes[r] \in Nat \ {0}
  BY RowsAre DEF Row
<1>3. \A r \in Row : permutation[r] \in Nat /\ permutation[r] < sizes[r]
  BY <1>1, PermutationRows
<1>4. /\ permutation[k] < sizes[k] - 1
      /\ \A j \in 1 .. (k - 1) : permutation[j] = sizes[j] - 1
  BY DEF IsCarryRow
<1>5. /\ q = [r \in Row |-> q[r]]
      /\ q[k] = permutation[k] + 1
      /\ \A r \in Row : r < k => q[r] = 0
      /\ \A r \in Row : r > k => q[r] = permutation[r]
  <2>1. q = [r \in Row |-> IF r < k THEN 0 ELSE IF r = k THEN permutation[k] + 1 ELSE permutation[r]]
    BY DEF Incremented
  <2>2. k \in Int /\ Row \subseteq Int
    BY <1>2 DEF Row
  <2> HIDE DEF q
  <2>3. QED BY <2>1, <2>2
<1> HIDE DEF q
<1>6. q \in AllPermutations
  <2>1. ASSUME NEW r \in Row PROVE q[r] \in Nat /\ q[r] < sizes[r]
    BY <1>2, <1>3, <1>4, <1>5 DEF Row
  <2>2. QED BY <1>5, <2>1, PermutationRows
<1>7. ASSUME NEW p \in AllPermutations, Before(p, permutation) PROVE Before(p, q)
  <2>1. PICK m \in Row : p[m] < permutation[m] /\ \A j \in Row : j > m => p[j] = permutation[j]
    BY <1>7 DEF Before
  <2>2. \A r \in Row : p[r] \in Nat
    BY PermutationRows
  <2>3. CASE m <= k
    <3>1. p[k] <= permutation[k]
      BY <1>2, <1>3, <2>1, <2>2, <2>3 DEF Row
    <3>2. p[k] < q[k]
      BY <1>3, <1>5, <2>2, <3>1
    <3>3. \A j \in Row : j > k => p[j] = q[j]
      BY <1>2, <1>5, <2>1, <2>3 DEF Row
    <3>4. QED BY <3>2, <3>3 DEF Before
  <2>4. CASE m > k
    <3>1. \A j \in Row : j > m => j > k
      BY <1>2, <2>4 DEF Row
    <3>2. QED BY <1>5, <2>1, <2>4, <3>1 DEF Before
  <2>5. QED BY <1>2, <2>3, <2>4 DEF Row
<1>8. Before(permutation, q)
  BY <1>3, <1>5 DEF Before
<1>9. ASSUME NEW p \in AllPermutations, Before(p, q), p # permutation PROVE Before(p, permutation)
  <2>1. PICK m \in Row : p[m] < q[m] /\ \A j \in Row : j > m => p[j] = q[j]
    BY <1>9 DEF Before
  <2>2. \A r \in Row : p[r] \in Nat /\ p[r] < sizes[r]
    BY PermutationRows
  <2>3. m >= k
    BY <1>2, <1>5, <2>1, <2>2 DEF Row
  <2>4. \A r \in Row : r > m => p[r] = permutation[r]
    BY <1>2, <1>5, <2>1, <2>3 DEF Row
  <2>5. \A r \in Row : r < k => p[r] <= permutation[r]
    BY <1>2, <1>3, <1>4, <2>2, <2>3 DEF Row
  <2>6. CASE m > k
    BY <1>5, <2>1, <2>4, <2>6 DEF Before
  <2>7. CASE m = k
    <3>1. p[m] <= permutation[m]
      BY <1>3, <1>5, <2>1, <2>2, <2>7
    <3>2. \A r \in 1 .. m : p[r] <= permutation[r]
      BY <1>2, <2>5, <2>7, <3>1 DEF Row
    <3>3. m \in 0 .. Len(sizes)
      BY <1>2 DEF Row
    <3>4. QED BY <1>1, <1>9, <2>4, <3>2, <3>3, Decided
  <2>8. QED BY <1>2, <2>3, <2>6, <2>7 DEF Row
<1>10. \A p : p \in Prior(q) <=> p \in Prior(permutation) \cup {permutation}
  BY <1>1, <1>7, <1>8, <1>9 DEF Prior
<1>11. QED BY <1>6, <1>10 DEF q

(* Where no row takes the carry, all permutations are done. *)
LEMMA LastPermutation ==
  ASSUME CpTypeOK, ~ Carries
  PROVE  AllPermutations = Prior(permutation) \cup {permutation}
<1>1. permutation \in AllPermutations
  BY DEF CpTypeOK
<1>2. Len(sizes) \in Nat /\ \A r \in Row : sizes[r] \in Nat \ {0}
  BY RowsAre
<1>3. \A r \in Row : permutation[r] \in Nat /\ permutation[r] < sizes[r]
  BY <1>1, PermutationRows
<1>4. \A r \in Row : permutation[r] = sizes[r] - 1
  <2> DEFINE S == {r \in Row : permutation[r] < sizes[r] - 1}
  <2>1. S \in SUBSET Nat
    BY DEF Row
  <2>2. ASSUME S # {} PROVE FALSE
    <3>1. PICK k \in S : \A r \in S : k <= r
      BY <2>1, <2>2, LeastOf
    <3>2. \A j \in 1 .. (k - 1) : j \in Row /\ j \notin S
      BY <1>2, <3>1 DEF Row
    <3>3. \A j \in 1 .. (k - 1) : permutation[j] = sizes[j] - 1
      BY <1>2, <1>3, <3>2
    <3>4. IsCarryRow(k)
      BY <3>1, <3>3 DEF IsCarryRow
    <3>5. QED BY <3>1, <3>4 DEF Carries
  <2>3. QED BY <1>2, <1>3, <2>2
<1>5. ASSUME NEW p \in AllPermutations, p # permutation PROVE Before(p, permutation)
  <2>1. \A r \in Row : p[r] \in Nat /\ p[r] < sizes[r]
    BY PermutationRows
  <2>2. \A r \in 1 .. Len(sizes) : p[r] <= permutation[r]
    BY <1>2, <1>4, <2>1 DEF Row
  <2>3. Len(sizes) \in 0 .. Len(sizes) /\ \A r \in Row : r > Len(sizes) => p[r] = permutation[r]
    BY <1>2 DEF Row
  <2>4. QED BY <1>1, <1>5, <2>2, <2>3, Decided
<1>6. QED BY <1>1, <1>5 DEF Prior

-----------------------------------------------------------------------------
(* The loop. *)

CpIInv ==
  /\ CpTypeOK
  /\ IsFiniteSet(tested) /\ Cardinality(tested) = processed - 1
  /\ \/ tested = Prior(permutation)
     \/ (AtEnd(processed) \/ overran) /\ tested = Prior(permutation) \cup {permutation}
  /\ overran => ~ Carries /\ ~ AtEnd(processed) /\ tested = Prior(permutation) \cup {permutation}

LEMMA CpInitInv == CpInit => CpIInv
<1> SUFFICES ASSUME CpInit PROVE CpIInv
  OBVIOUS
<1>1. sizes \in RowSizes /\ permutation = [r \in Row |-> 0] /\ processed = 1 /\ overran = FALSE /\ tested = {}
  BY DEF CpInit
<1>2. Len(sizes) \in Nat \ {0} /\ \A r \in Row : sizes[r] \in Nat \ {0}
  BY <1>1, SizesAssumption DEF Row
<1>3. permutation \in AllPermutations
  <2>1. ASSUME NEW r \in Row PROVE 0 \in 0 .. sizes[r] - 1
    BY <1>2
  <2>2. permutation \in [Row -> UNION {0 .. sizes[s] - 1 : s \in Row}]
    BY <1>1, <2>1
  <2>3. \A r \in Row : permutation[r] < sizes[r]
    BY <1>1, <1>2
  <2>4. QED BY <2>2, <2>3 DEF AllPermutations
<1>4. CpTypeOK
  <2>1. overran \in BOOLEAN
    BY <1>1, Zenon
  <2>2. processed \in Nat \ {0} /\ tested \subseteq AllPermutations
    BY <1>1
  <2>3. QED BY <1>1, <1>3, <2>1, <2>2, Zenon DEF CpTypeOK
<1>5. Prior(permutation) = {}
  <2>1. ASSUME NEW q \in AllPermutations, Before(q, permutation) PROVE FALSE
    <3>1. \A r \in Row : q[r] \in Nat
      BY <1>4, PermutationRows
    <3>2. QED BY <1>1, <2>1, <3>1 DEF Before
  <2>2. QED BY <2>1 DEF Prior
<1>6. IsFiniteSet(tested) /\ Cardinality(tested) = processed - 1
  BY <1>1, FS_EmptySet
<1>7. QED BY <1>1, <1>4, <1>5, <1>6 DEF CpIInv

(* What the state says of the rows it says after a step that keeps them. *)
LEMMA SameRows ==
  ASSUME UNCHANGED sizes
  PROVE  /\ Row' = Row /\ AllPermutations' = AllPermutations
         /\ MaxPermutations' = MaxPermutations
<1>1. Row' = Row
  BY DEF Row
<1>2. AllPermutations' = AllPermutations
  BY DEF AllPermutations, Row
<1>3. MaxPermutations' = MaxPermutations
  BY DEF MaxPermutations
<1>4. QED BY <1>1, <1>2, <1>3

LEMMA TestInv ==
  ASSUME CpIInv, TestAndIncrement
  PROVE  CpIInv'
<1> DEFINE end == AtEnd(processed + 1)
<1>1. /\ ~ AtEnd(processed) /\ ~ overran
      /\ tested' = tested \cup {permutation}
      /\ processed' = processed + 1
      /\ permutation' = IF end \/ ~ Carries THEN permutation ELSE Incremented(CarryRow)
      /\ overran' = (~ end /\ ~ Carries)
      /\ sizes' = sizes
  BY DEF TestAndIncrement
<1>2. CpTypeOK /\ tested = Prior(permutation)
  BY <1>1 DEF CpIInv
<1>3. permutation \in AllPermutations /\ processed \in Nat \ {0}
  BY <1>2 DEF CpTypeOK
<1>4. IsFiniteSet(tested') /\ Cardinality(tested') = processed' - 1
  <2>1. permutation \notin tested
    BY <1>2, <1>3, NotBeforeItself DEF Prior
  <2>2. IsFiniteSet(tested) /\ Cardinality(tested) = processed - 1
    BY DEF CpIInv
  <2>3. IsFiniteSet(tested') /\ Cardinality(tested') = Cardinality(tested) + 1
    BY <1>1, <2>1, <2>2, FS_AddElement
  <2>4. QED BY <1>1, <1>3, <2>2, <2>3
<1>5. Row' = Row /\ AllPermutations' = AllPermutations /\ MaxPermutations' = MaxPermutations
  BY <1>1, SameRows
<1>6. AtEnd(processed)' = end
  BY <1>1, <1>5 DEF AtEnd
<1>7. Prior(permutation)' = {q \in AllPermutations : Before(q, permutation')}
  BY <1>5 DEF Prior, Before
<1>8. CASE end \/ ~ Carries
  <2>1. permutation' = permutation /\ Prior(permutation)' = Prior(permutation)
    BY <1>1, <1>7, <1>8 DEF Prior
  <2>2. tested' = Prior(permutation)' \cup {permutation'}
    BY <1>1, <1>2, <2>1
  <2>3. AtEnd(processed)' \/ overran'
    BY <1>1, <1>6, <1>8, Zenon
  <2>4. Carries' = Carries
    BY <1>1, <1>5, <2>1 DEF Carries, IsCarryRow
  <2>5. overran' => ~ Carries' /\ ~ AtEnd(processed)'
    BY <1>1, <1>6, <2>4, Zenon
  <2>6. CpTypeOK'
    <3>1. tested' \subseteq AllPermutations'
      BY <1>1, <1>2, <1>3, <1>5 DEF CpTypeOK
    <3>2. overran' \in BOOLEAN
      BY <1>1, Zenon
    <3>3. sizes' \in RowSizes /\ permutation' \in AllPermutations' /\ processed' \in Nat \ {0}
      BY <1>1, <1>2, <1>3, <1>5, <2>1 DEF CpTypeOK
    <3>4. QED BY <3>1, <3>2, <3>3, Zenon DEF CpTypeOK
  <2>7. QED BY <1>4, <2>2, <2>3, <2>5, <2>6, Zenon DEF CpIInv
<1>9. CASE ~ end /\ Carries
  <2>1. CarryRow \in Row /\ IsCarryRow(CarryRow)
    BY <1>9 DEF Carries, CarryRow
  <2>2. permutation' = Incremented(CarryRow)
    BY <1>1, <1>9
  <2>3. /\ permutation' \in AllPermutations
        /\ Prior(permutation') = Prior(permutation) \cup {permutation}
    BY <1>2, <2>1, <2>2, NextInOrder
  <2>4. tested' = Prior(permutation)'
    BY <1>1, <1>2, <1>7, <2>3 DEF Prior
  <2>5. overran' = FALSE
    BY <1>1, <1>9, Zenon
  <2>6. CpTypeOK'
    <3>1. tested' \subseteq AllPermutations'
      BY <1>1, <1>2, <1>3, <1>5 DEF CpTypeOK
    <3>2. overran' \in BOOLEAN
      BY <2>5, Zenon
    <3>3. sizes' \in RowSizes /\ permutation' \in AllPermutations' /\ processed' \in Nat \ {0}
      BY <1>1, <1>2, <1>3, <1>5, <2>3 DEF CpTypeOK
    <3>4. QED BY <3>1, <3>2, <3>3, Zenon DEF CpTypeOK
  <2>7. QED BY <1>4, <2>4, <2>5, <2>6, Zenon DEF CpIInv
<1>10. QED BY <1>8, <1>9, Zenon

LEMMA CpNextInv == CpIInv /\ [CpNext]_cpVars => CpIInv'
<1> SUFFICES ASSUME CpIInv, [CpNext]_cpVars PROVE CpIInv'
  OBVIOUS
<1>1. CASE CpNext
  BY <1>1, TestInv DEF CpNext
<1>2. CASE UNCHANGED cpVars
  <2>1. /\ sizes' = sizes /\ permutation' = permutation /\ processed' = processed
        /\ overran' = overran /\ tested' = tested
    BY <1>2 DEF cpVars
  <2>2. Row' = Row /\ AllPermutations' = AllPermutations /\ MaxPermutations' = MaxPermutations
    BY <2>1, SameRows
  <2>3. CpTypeOK' = CpTypeOK
    BY <2>1, <2>2, Zenon DEF CpTypeOK
  <2>4. Prior(permutation)' = Prior(permutation) /\ AtEnd(processed)' = AtEnd(processed)
    BY <2>1, <2>2 DEF Prior, Before, AtEnd
  <2>5. Carries' = Carries
    BY <2>1, <2>2 DEF Carries, IsCarryRow
  <2>6. QED BY <2>1, <2>3, <2>4, <2>5, Zenon DEF CpIInv
<1>3. QED BY <1>1, <1>2

THEOREM EnumeratorInvariant == CpSpec => []CpIInv
<1>1. QED BY CpInitInv, CpNextInv, PTL DEF CpSpec

(* Type correctness of the enumerator. *)
THEOREM EnumeratorType == CpSpec => []CpTypeOK
<1>1. CpIInv => CpTypeOK
  BY DEF CpIInv
<1>2. QED BY <1>1, EnumeratorInvariant, PTL

(* What was tested is what comes before the current permutation, each once  *)
(* (IncrementAndTest).                                                      *)
THEOREM TestedInOrder == CpSpec => []InOrder
<1>1. CpIInv => InOrder
  BY DEF CpIInv, InOrder
<1>2. QED BY <1>1, EnumeratorInvariant, PTL

(* Every recursion over the rows has a solution: there is one for the first *)
(* n rows, whence one for n + 1.                                            *)
LEMMA WrappedProduct ==
  ASSUME NEW n \in Nat
  PROVE  \E f : f = [r \in 0 .. n |-> IF r = 0 THEN 1 ELSE AsInt(f[r - 1] * sizes[r])]
<1> DEFINE Is(f, m) == f = [r \in 0 .. m |-> IF r = 0 THEN 1 ELSE AsInt(f[r - 1] * sizes[r])]
           Without == {m \in Nat : ~ \E f : Is(f, m)}
<1> SUFFICES ASSUME Without # {} PROVE FALSE
  OBVIOUS
<1>1. PICK m \in Without : \A k \in Without : m <= k
  <2> Without \in SUBSET Nat
    OBVIOUS
  <2> HIDE DEF Without
  <2> QED BY LeastOf
<1>2. m # 0
  <2>1. Is([r \in 0 .. 0 |-> 1], 0)
    OBVIOUS
  <2>2. QED BY <2>1
<1>3. PICK f : Is(f, m - 1)
  <2>1. m - 1 \in Nat /\ ~ (m <= m - 1)
    BY <1>2
  <2>2. m - 1 \notin Without
    <3> HIDE DEF Without
    <3>1. QED BY <1>1, <2>1
  <2> HIDE DEF Is
  <2>3. QED BY <2>1, <2>2
<1> DEFINE g == [r \in 0 .. m |-> IF r = m THEN AsInt(f[m - 1] * sizes[m]) ELSE f[r]]
<1>4. Is(g, m)
  <2>1. DOMAIN f = 0 .. m - 1
    BY <1>3
  <2>2. ASSUME NEW r \in 0 .. m PROVE g[r] = IF r = 0 THEN 1 ELSE AsInt(g[r - 1] * sizes[r])
    <3>1. CASE r = m
      <4>1. m - 1 \in 0 .. m /\ m - 1 # m
        BY <1>2
      <4>2. g[m - 1] = f[m - 1]
        BY <4>1
      <4>3. QED BY <1>2, <3>1, <4>2
    <3>2. CASE r # m
      <4>1. r \in 0 .. m - 1 /\ g[r] = f[r]
        BY <3>2
      <4>2. f[r] = IF r = 0 THEN 1 ELSE AsInt(f[r - 1] * sizes[r])
        BY <4>1, <1>3
      <4>3. r # 0 => g[r - 1] = f[r - 1]
        BY <4>1
      <4>4. QED BY <4>1, <4>2, <4>3
    <3>3. QED BY <3>1, <3>2
  <2>3. g = [r \in 0 .. m |-> g[r]]
    OBVIOUS
  <2> HIDE DEF g
  <2>4. [r \in 0 .. m |-> g[r]] = [r \in 0 .. m |-> IF r = 0 THEN 1 ELSE AsInt(g[r - 1] * sizes[r])]
    BY <2>2, Zenon
  <2>5. QED BY <2>3, <2>4, Zenon
<1>5. QED BY <1>1, <1>4

(* The permutations of the first n rows. *)
FirstRows(n) == {p \in [1 .. n -> Nat] : \A r \in 1 .. n : p[r] < sizes[r]}

LEMMA FirstRowsAll ==
  ASSUME CpTypeOK
  PROVE  FirstRows(Len(sizes)) = AllPermutations
<1>1. ASSUME NEW p PROVE p \in FirstRows(Len(sizes)) <=> p \in AllPermutations
  <2>1. p \in FirstRows(Len(sizes)) <=> p = [r \in Row |-> p[r]] /\ \A r \in Row : p[r] \in Nat /\ p[r] < sizes[r]
    BY DEF FirstRows, Row
  <2>2. QED BY <2>1, PermutationRows
<1>2. QED BY <1>1

(* No row, one permutation; and every choice of another row with each.      *)
LEMMA NoRows == IsFiniteSet(FirstRows(0)) /\ Cardinality(FirstRows(0)) = 1
<1> DEFINE none == [r \in {} |-> 0]
<1>1. 1 .. 0 = {}
  OBVIOUS
<1>2. FirstRows(0) = {none}
  BY <1>1 DEF FirstRows
<1>3. QED BY <1>2, FS_Singleton, Zenon

LEMMA OneMoreRow ==
  ASSUME CpTypeOK, NEW n \in 0 .. Len(sizes) - 1, IsFiniteSet(FirstRows(n))
  PROVE  /\ IsFiniteSet(FirstRows(n + 1))
         /\ Cardinality(FirstRows(n + 1)) = Cardinality(FirstRows(n)) * sizes[n + 1]
<1> DEFINE S == FirstRows(n) \X (0 .. sizes[n + 1] - 1)
           Extended(x) == [r \in 1 .. n + 1 |-> IF r = n + 1 THEN x[2] ELSE x[1][r]]
           F == [x \in S |-> Extended(x)]
<1>1. n \in Nat /\ sizes[n + 1] \in Nat \ {0}
  BY RowsAre DEF Row
<1>2. IsFiniteSet(0 .. sizes[n + 1] - 1) /\ Cardinality(0 .. sizes[n + 1] - 1) = sizes[n + 1]
  <2>1. \A m \in Nat \ {0} : IsFiniteSet(0 .. m - 1) /\ Cardinality(0 .. m - 1) = m
    <3> TAKE m \in Nat \ {0}
    <3>1. 0 \in Int /\ m - 1 \in Int /\ ~ (0 > m - 1) /\ (m - 1) - 0 + 1 = m
      OBVIOUS
    <3>2. QED BY <3>1, FS_Interval
  <2>2. QED BY <1>1, <2>1
<1>3. IsFiniteSet(S) /\ Cardinality(S) = Cardinality(FirstRows(n)) * sizes[n + 1]
  BY <1>2, FS_Product
<1>4. ASSUME NEW x \in S PROVE Extended(x) \in FirstRows(n + 1)
  <2>1. /\ x[1] \in [1 .. n -> Nat] /\ \A r \in 1 .. n : x[1][r] < sizes[r]
        /\ x[2] \in Nat /\ x[2] < sizes[n + 1]
    <3>1. x[1] \in FirstRows(n) /\ x[2] \in 0 .. sizes[n + 1] - 1
      OBVIOUS
    <3>2. x[2] \in Nat /\ x[2] < sizes[n + 1]
      BY <1>1, <3>1
    <3>3. QED BY <3>1, <3>2 DEF FirstRows
  <2>2. \A r \in 1 .. n + 1 : r # n + 1 => r \in 1 .. n
    BY <1>1
  <2>3. \A r \in 1 .. n + 1 : (IF r = n + 1 THEN x[2] ELSE x[1][r]) \in Nat
    BY <2>1, <2>2
  <2>4. \A r \in 1 .. n + 1 : (IF r = n + 1 THEN x[2] ELSE x[1][r]) < sizes[r]
    BY <2>1, <2>2
  <2>5. QED BY <2>3, <2>4 DEF FirstRows
<1>5. ASSUME NEW x \in S, NEW y \in S, Extended(x) = Extended(y) PROVE x = y
  <2>1. x[2] = y[2]
    <3>1. n + 1 \in 1 .. n + 1
      BY <1>1
    <3>2. Extended(x)[n + 1] = x[2] /\ Extended(y)[n + 1] = y[2]
      BY <3>1
    <3>3. QED BY <1>5, <3>2
  <2>2. ASSUME NEW r \in 1 .. n PROVE x[1][r] = y[1][r]
    <3>1. r \in 1 .. n + 1 /\ r # n + 1
      BY <1>1
    <3>2. Extended(x)[r] = x[1][r] /\ Extended(y)[r] = y[1][r]
      BY <3>1
    <3>3. QED BY <1>5, <3>2
  <2>3. x[1] \in [1 .. n -> Nat] /\ y[1] \in [1 .. n -> Nat]
    BY DEF FirstRows
  <2>4. x[1] = y[1]
    BY <2>2, <2>3
  <2>5. QED BY <2>1, <2>4
<1>6. ASSUME NEW p \in FirstRows(n + 1) PROVE \E x \in S : Extended(x) = p
  <2> DEFINE x == <<[r \in 1 .. n |-> p[r]], p[n + 1]>>
  <2>1. p \in [1 .. n + 1 -> Nat] /\ \A r \in 1 .. n + 1 : p[r] < sizes[r]
    BY DEF FirstRows
  <2>2. \A r \in 1 .. n : r \in 1 .. n + 1
    BY <1>1
  <2>3. [r \in 1 .. n |-> p[r]] \in FirstRows(n)
    BY <2>1, <2>2 DEF FirstRows
  <2>4. p[n + 1] \in 0 .. sizes[n + 1] - 1
    <3>1. n + 1 \in 1 .. n + 1
      BY <1>1
    <3>2. QED BY <1>1, <2>1, <3>1
  <2>5. x \in S
    BY <2>3, <2>4
  <2>6. \A r \in 1 .. n + 1 : Extended(x)[r] = p[r]
    BY <1>1
  <2>7. Extended(x) = p
    BY <2>1, <2>6
  <2>8. QED BY <2>5, <2>7
<1>7. F \in Bijection(S, FirstRows(n + 1))
  <2> HIDE DEF S, Extended
  <2>1. F \in [S -> FirstRows(n + 1)]
    BY <1>4
  <2>2. \A x, y \in S : F[x] = F[y] => x = y
    BY <1>5
  <2>3. \A p \in FirstRows(n + 1) : \E x \in S : F[x] = p
    BY <1>6
  <2> HIDE DEF F
  <2>4. IsInjective(F)
    BY <2>1, <2>2 DEF IsInjective
  <2>5. QED BY <2>1, <2>3, <2>4 DEF Bijection, Injection, Surjection
<1>8. ExistsBijection(S, FirstRows(n + 1))
  BY <1>7 DEF ExistsBijection
<1>9. QED BY <1>3, <1>8, FS_Bijection

(* As many permutations as the product says, if it does not wrap on the way. *)
LEMMA RowsCount ==
  ASSUME CpTypeOK, NEW n \in 0 .. Len(sizes)
  PROVE  /\ IsFiniteSet(FirstRows(n)) /\ Cardinality(FirstRows(n)) \in Nat \ {0}
         /\ \A m \in 0 .. n : Cardinality(FirstRows(m)) <= Cardinality(FirstRows(n))
<1> DEFINE Good(k) == /\ IsFiniteSet(FirstRows(k)) /\ Cardinality(FirstRows(k)) \in Nat \ {0}
                      /\ \A m \in 0 .. k : Cardinality(FirstRows(m)) <= Cardinality(FirstRows(k))
           Bad == {k \in 0 .. Len(sizes) : ~ Good(k)}
<1>0. Len(sizes) \in Nat
  BY RowsAre
<1> SUFFICES ASSUME Bad # {} PROVE FALSE
  OBVIOUS
<1>1. PICK k \in Bad : \A j \in Bad : k <= j
  <2> Bad \in SUBSET Nat
    BY <1>0
  <2> HIDE DEF Bad
  <2> QED BY LeastOf
<1>2. k # 0
  <2>1. Good(0)
    BY NoRows
  <2>2. QED BY <2>1
<1>3. k - 1 \in 0 .. Len(sizes) - 1 /\ Good(k - 1)
  BY <1>0, <1>1, <1>2
<1>4. /\ IsFiniteSet(FirstRows(k))
      /\ Cardinality(FirstRows(k)) = Cardinality(FirstRows(k - 1)) * sizes[k]
  <2>1. (k - 1) + 1 = k
    BY <1>0
  <2>2. QED BY <1>3, <2>1, OneMoreRow
<1>5. sizes[k] \in Nat \ {0}
  BY <1>0, <1>2, RowsAre DEF Row
<1>6. /\ Cardinality(FirstRows(k)) \in Nat \ {0}
      /\ Cardinality(FirstRows(k - 1)) <= Cardinality(FirstRows(k))
  <2>1. \A a, b \in Nat \ {0} : a * b \in Nat \ {0} /\ a <= a * b
    OBVIOUS
  <2>2. QED BY <1>3, <1>4, <1>5, <2>1
<1>7. ASSUME NEW m \in 0 .. k PROVE Cardinality(FirstRows(m)) <= Cardinality(FirstRows(k))
  <2>1. CASE m = k
    BY <1>6, <2>1
  <2>2. CASE m # k
    <3>1. m \in 0 .. k - 1
      BY <1>0, <2>2
    <3>2. Cardinality(FirstRows(m)) <= Cardinality(FirstRows(k - 1))
      BY <1>3, <3>1
    <3>3. IsFiniteSet(FirstRows(m)) /\ Cardinality(FirstRows(m)) \in Nat
      <4>1. m \notin Bad
        BY <1>0, <1>1, <2>2
      <4>2. QED BY <1>0, <4>1
    <3>4. QED BY <1>3, <1>6, <3>2, <3>3
  <2>3. QED BY <2>1, <2>2
<1>8. QED BY <1>4, <1>6, <1>7

(* What an int can hold does not wrap. *)
LEMMA NotWrapped ==
  ASSUME NEW n \in Nat, n < 2 ^ (IntBits - 1)
  PROVE  AsInt(n) = n
<1> DEFINE half == 2 ^ (IntBits - 1)
<1>1. half \in Nat \ {0} /\ 2 ^ IntBits = 2 * half
  BY IntAssumption
<1>2. AsInt(n) = ((n + half) % (2 * half)) - half
  BY <1>1 DEF AsInt
<1> HIDE DEF half
<1>3. n < half
  BY DEF half
<1>4. (n + half) % (2 * half) = n + half
  BY <1>1, <1>3
<1>5. QED BY <1>1, <1>2, <1>4

(* The number of permutations is one an int can hold. *)
CountFits == Cardinality(AllPermutations) < 2 ^ (IntBits - 1)

(* Then the product the constructor keeps is that number. *)
LEMMA CountRight ==
  ASSUME CpTypeOK, CountFits
  PROVE  IsFiniteSet(AllPermutations) /\ Cardinality(AllPermutations) = MaxPermutations
<1> DEFINE IsProduct(f) == f = [r \in 0 .. Len(sizes) |-> IF r = 0 THEN 1 ELSE AsInt(f[r - 1] * sizes[r])]
           product == CHOOSE f : IsProduct(f)
           Bad == {n \in 0 .. Len(sizes) : product[n] # Cardinality(FirstRows(n))}
<1>1. Len(sizes) \in Nat
  BY RowsAre
<1>2. IsProduct(product)
  <2>1. \E f : IsProduct(f)
    BY <1>1, WrappedProduct
  <2> HIDE DEF IsProduct
  <2>2. QED BY <2>1, Zenon
<1>3. MaxPermutations = product[Len(sizes)]
  BY DEF MaxPermutations
<1> HIDE DEF product
<1>4. Bad = {}
  <2> SUFFICES ASSUME Bad # {} PROVE FALSE
    OBVIOUS
  <2>1. PICK n \in Bad : \A j \in Bad : n <= j
    <3> Bad \in SUBSET Nat
      BY <1>1
    <3> HIDE DEF Bad
    <3> QED BY LeastOf
  <2>2. n # 0
    <3>1. product[0] = 1
      BY <1>1, <1>2
    <3>2. QED BY <3>1, NoRows
  <2>3. n - 1 \in 0 .. Len(sizes) - 1 /\ n - 1 \in 0 .. Len(sizes) /\ n - 1 \notin Bad /\ (n - 1) + 1 = n
    BY <1>1, <2>1, <2>2
  <2>4. product[n - 1] = Cardinality(FirstRows(n - 1))
    BY <2>3
  <2>5. Cardinality(FirstRows(n)) = Cardinality(FirstRows(n - 1)) * sizes[n]
    BY <2>3, OneMoreRow, RowsCount
  <2>6. Cardinality(FirstRows(n)) \in Nat /\ Cardinality(FirstRows(n)) < 2 ^ (IntBits - 1)
    <3>1. Cardinality(FirstRows(n)) \in Nat
      BY RowsCount
    <3>2. /\ Cardinality(FirstRows(n)) <= Cardinality(FirstRows(Len(sizes)))
          /\ Cardinality(FirstRows(Len(sizes))) \in Nat
      <4>1. Len(sizes) \in 0 .. Len(sizes) /\ n \in 0 .. Len(sizes)
        BY <1>1
      <4>2. QED BY <4>1, RowsCount
    <3>3. Cardinality(FirstRows(Len(sizes))) < 2 ^ (IntBits - 1)
      BY FirstRowsAll DEF CountFits
    <3>4. QED BY <3>1, <3>2, <3>3, IntAssumption
  <2>7. product[n] = AsInt(product[n - 1] * sizes[n])
    BY <1>1, <1>2, <2>2
  <2>8. product[n] = Cardinality(FirstRows(n))
    BY <2>4, <2>5, <2>6, <2>7, NotWrapped
  <2>9. QED BY <2>8
<1>5. Len(sizes) \in 0 .. Len(sizes)
  BY <1>1
<1>6. product[Len(sizes)] = Cardinality(FirstRows(Len(sizes)))
  BY <1>4, <1>5
<1>7. IsFiniteSet(FirstRows(Len(sizes)))
  BY <1>5, RowsCount
<1>8. QED BY <1>3, <1>6, <1>7, FirstRowsAll

LEMMA CountStaysFit == CountFits /\ [CpNext]_cpVars => CountFits'
<1>1. ASSUME [CpNext]_cpVars PROVE UNCHANGED sizes
  BY <1>1 DEF CpNext, TestAndIncrement, cpVars
<1>2. QED BY <1>1, SameRows DEF CountFits

(* Where an int can hold the number of permutations, all of them are tested *)
(* ("It will output all of the permutations", cartesianprod.h:1-3).         *)
THEOREM AllGetTested == CpSpec /\ CountFits => []AllTested
<1>0. ASSUME CpIInv, CountFits
      PROVE  IsFiniteSet(AllPermutations) /\ Cardinality(AllPermutations) = MaxPermutations
  BY <1>0, CountRight DEF CpIInv
<1>1. ASSUME CpIInv, CountFits PROVE AllTested
  <2> SUFFICES ASSUME AtEnd(processed) PROVE tested = AllPermutations
    BY DEF AllTested
  <2>1. /\ tested \in SUBSET AllPermutations /\ processed \in Nat
        /\ Cardinality(tested) = processed - 1 /\ processed > Cardinality(AllPermutations)
    BY <1>0, <1>1 DEF CpIInv, CpTypeOK, AtEnd
  <2>2. Cardinality(tested) <= Cardinality(AllPermutations)
    BY <1>0, <1>1, <2>1, FS_Subset
  <2>3. Cardinality(AllPermutations) \in Nat
    BY <1>0, <1>1, FS_CardinalityType
  <2>4. Cardinality(tested) = Cardinality(AllPermutations)
    BY <2>1, <2>2, <2>3
  <2>5. QED BY <1>0, <1>1, <2>1, <2>4, FS_Subset
<1>2. QED BY <1>1, EnumeratorInvariant, CountStaysFit, PTL DEF CpSpec

(* And the carry stays within the rows (IncrementAndTest). *)
THEOREM CarryStaysInside == CpSpec /\ CountFits => []NeverOverruns
<1>0. ASSUME CpIInv, CountFits
      PROVE  IsFiniteSet(AllPermutations) /\ Cardinality(AllPermutations) = MaxPermutations
  BY <1>0, CountRight DEF CpIInv
<1>1. ASSUME CpIInv, CountFits PROVE NeverOverruns
  <2> SUFFICES ASSUME overran PROVE FALSE
    BY DEF NeverOverruns
  <2>1. CpTypeOK /\ ~ Carries /\ ~ AtEnd(processed)
    BY <1>1 DEF CpIInv
  <2>2. tested \subseteq AllPermutations /\ permutation \in AllPermutations /\ processed \in Nat \ {0}
    BY <2>1 DEF CpTypeOK
  <2>3. tested = Prior(permutation) \cup {permutation}
    BY <1>1 DEF CpIInv
  <2>4. AllPermutations = Prior(permutation) \cup {permutation}
    BY <2>1, LastPermutation
  <2>5. Cardinality(tested) = processed - 1 /\ processed <= Cardinality(AllPermutations)
    <3>1. Cardinality(AllPermutations) \in Nat
      BY <1>0, <1>1, FS_CardinalityType
    <3>2. QED BY <1>0, <1>1, <2>1, <2>2, <3>1 DEF CpIInv, AtEnd
  <2>6. QED BY <2>2, <2>3, <2>4, <2>5
<1>2. QED BY <1>1, EnumeratorInvariant, CountStaysFit, PTL DEF CpSpec

-----------------------------------------------------------------------------
(* The reaching stores, for any graph of blocks and any stores: the sets    *)
(* only grow, and stay below every solution of the data-flow equations, so  *)
(* that a pass in which none grows in size leaves the least solution.       *)

(* What the code leaves of a set of stores is one of the sets it may leave. *)
LEMMA VisitTypes ==
  ASSUME ReachTypeOK, NEW b \in Block, NEW left \in MayMiss(reachOut, b)
  PROVE  /\ ReachesEntry(reachOut, b) \subseteq AnyStore
         /\ Transfer(reachOut, b) \cup left \subseteq AnyStore
<1>1. Pred[b] \subseteq Block /\ \A p \in Block : reachOut[p] \subseteq AnyStore
  BY GraphAssumption DEF ReachTypeOK, Block
<1>2. ReachesEntry(reachOut, b) \subseteq AnyStore
  BY <1>1 DEF ReachesEntry
<1>3. Gen(b) \subseteq AnyStore
  BY DEF Gen, AnyStore, StoresOf, Block
<1>4. left \subseteq ReachesEntry(reachOut, b)
  BY DEF MayMiss, Killed
<1>5. QED BY <1>2, <1>3, <1>4 DEF Transfer

LEMMA LayoutBlocks ==
  ASSUME func \in DOMAIN LayoutOf
  PROVE  /\ Len(Layout) \in Nat
         /\ DOMAIN Layout = 1 .. Len(Layout)
         /\ \A i \in DOMAIN Layout : Layout[i] \in Block
         /\ \A b \in Block : \E i \in DOMAIN Layout : Layout[i] = b
  BY LayoutAssumption DEF Layout, Block, BlocksOf

LEMMA ReachInitType == ReachInit => ReachTypeOK
<1> SUFFICES ASSUME ReachInit PROVE ReachTypeOK
  OBVIOUS
<1>1. func \in DOMAIN LayoutOf /\ Len(Layout) \in Nat
  BY LayoutBlocks DEF ReachInit
<1>2. reachOut \in [Block -> SUBSET AnyStore] /\ reachIn \in [Block -> SUBSET AnyStore]
  BY DEF ReachInit, NothingReaches, Block
<1>3. visiting \in 1 .. Len(Layout) + 1 /\ DOMAIN memoizer = {} /\ missed = {}
  BY <1>1 DEF ReachInit
<1>4. running \in BOOLEAN /\ updated \in BOOLEAN
  BY Zenon DEF ReachInit
<1>5. QED BY <1>1, <1>2, <1>3, <1>4, Zenon DEF ReachTypeOK

LEMMA CallType ==
  ASSUME ReachTypeOK, NEW f, CallReachingStores(f)
  PROVE  ReachTypeOK'
<1>1. func' = f /\ f \in DOMAIN LayoutOf
  BY DEF CallReachingStores
<1>2. Len(Layout)' \in Nat
  BY <1>1, LayoutAssumption DEF Layout
<1>3. reachOut' \in [Block' -> SUBSET AnyStore'] /\ reachIn' \in [Block' -> SUBSET AnyStore']
  BY <1>1 DEF CallReachingStores, NothingReaches, Block
<1>4. visiting' \in 1 .. Len(Layout)' + 1
  BY <1>2 DEF CallReachingStores
<1>5. DOMAIN memoizer' \subseteq DOMAIN LayoutOf /\ missed' \subseteq DOMAIN LayoutOf
  BY DEF CallReachingStores, ReachTypeOK
<1>6. running' \in BOOLEAN /\ updated' \in BOOLEAN
  BY Zenon DEF CallReachingStores
<1>7. QED BY <1>1, <1>3, <1>4, <1>5, <1>6, Zenon DEF ReachTypeOK

LEMMA VisitType == ReachTypeOK /\ VisitBlock => ReachTypeOK'
<1> SUFFICES ASSUME ReachTypeOK, VisitBlock PROVE ReachTypeOK'
  OBVIOUS
<1> DEFINE b == Layout[visiting]
<1>1. func \in DOMAIN LayoutOf /\ func' = func
  BY DEF ReachTypeOK, VisitBlock
<1>2. /\ Layout' = Layout /\ Block' = Block /\ AnyStore' = AnyStore
      /\ b \in Block /\ Len(Layout) \in Nat /\ visiting \in 1 .. Len(Layout)
  BY <1>1, LayoutBlocks DEF VisitBlock, Layout, Block, AnyStore
<1>3. PICK left \in MayMiss(reachOut, b) :
        /\ reachIn' = [reachIn EXCEPT ![b] = ReachesEntry(reachOut, b)]
        /\ \/ reachOut' = [reachOut EXCEPT ![b] = Transfer(reachOut, b) \cup left] /\ updated' = TRUE
           \/ reachOut' = reachOut /\ updated' = updated
        /\ missed' \in {missed, missed \cup {func}}
  BY DEF VisitBlock
<1>4. /\ ReachesEntry(reachOut, b) \subseteq AnyStore
      /\ Transfer(reachOut, b) \cup left \subseteq AnyStore
  BY <1>2, VisitTypes
<1>5. reachOut' \in [Block -> SUBSET AnyStore] /\ reachIn' \in [Block -> SUBSET AnyStore]
  BY <1>2, <1>3, <1>4 DEF ReachTypeOK
<1>6. visiting' \in 1 .. Len(Layout) + 1
  BY <1>2 DEF VisitBlock
<1>7. running' \in BOOLEAN /\ updated' \in BOOLEAN
  BY <1>3, Zenon DEF VisitBlock, ReachTypeOK
<1>8. DOMAIN memoizer' \subseteq DOMAIN LayoutOf /\ missed' \subseteq DOMAIN LayoutOf
  BY <1>1, <1>3 DEF VisitBlock, ReachTypeOK
<1>9. QED BY <1>1, <1>2, <1>5, <1>6, <1>7, <1>8, Zenon DEF ReachTypeOK

LEMMA ReachNextType == ReachTypeOK /\ [ReachNext]_reachVars => ReachTypeOK'
<1> SUFFICES ASSUME ReachTypeOK, [ReachNext]_reachVars PROVE ReachTypeOK'
  OBVIOUS
<1>1. CASE VisitBlock
  BY <1>1, VisitType
<1>2. CASE NextPass
  <2>1. func' = func /\ Layout' = Layout /\ Block' = Block /\ AnyStore' = AnyStore
    BY <1>2 DEF NextPass, Layout, Block, AnyStore
  <2>2. visiting' \in 1 .. Len(Layout) + 1
    BY <1>2, LayoutBlocks DEF NextPass, ReachTypeOK
  <2>3. updated' \in BOOLEAN /\ running' = running
    BY <1>2, Zenon DEF NextPass
  <2>4. QED BY <1>2, <2>1, <2>2, <2>3, Zenon DEF NextPass, ReachTypeOK
<1>3. CASE Memoize
  <2>1. func' = func /\ Layout' = Layout /\ Block' = Block /\ AnyStore' = AnyStore
    BY <1>3 DEF Memoize, Layout, Block, AnyStore
  <2>2. DOMAIN memoizer' \subseteq DOMAIN LayoutOf
    BY <1>3 DEF Memoize, ReachTypeOK
  <2>3. running' \in BOOLEAN
    BY <1>3, Zenon DEF Memoize
  <2>4. QED BY <1>3, <2>1, <2>2, <2>3, Zenon DEF Memoize, ReachTypeOK
<1>4. ASSUME NEW f \in DOMAIN LayoutOf, CallReachingStores(f) PROVE ReachTypeOK'
  BY <1>4, CallType
<1>5. CASE UNCHANGED reachVars
  <2>1. /\ func' = func /\ running' = running /\ reachOut' = reachOut /\ reachIn' = reachIn
        /\ visiting' = visiting /\ updated' = updated /\ memoizer' = memoizer /\ missed' = missed
    BY <1>5 DEF reachVars
  <2>2. Layout' = Layout /\ Block' = Block /\ AnyStore' = AnyStore
    BY <2>1 DEF Layout, Block, AnyStore
  <2>3. QED BY <2>1, <2>2, Zenon DEF ReachTypeOK
<1>6. QED BY <1>1, <1>2, <1>3, <1>4, <1>5 DEF ReachNext, ReachLoop

(* Type correctness of the analysis of reaching stores. *)
THEOREM ReachTypeCorrect == ReachSpec => []ReachTypeOK
<1>1. QED BY ReachInitType, ReachNextType, PTL DEF ReachSpec

-----------------------------------------------------------------------------
(* The least solution. *)

Solution == {out \in [Block -> SUBSET AnyStore] : IsSolution(out)}

(* A set lies between the solution it grows towards and its own transfer. *)
Rising(out) ==
  \A b \in Block :
    /\ out[b] \subseteq Transfer(out, b)
    /\ \A sol \in Solution : out[b] \subseteq sol[b]

(* What a pass has settled, if it has not changed anything. *)
Settled(b) ==
  /\ reachOut[b] = Transfer(reachOut, b)
  /\ reachIn[b] = ReachesEntry(reachOut, b)

ReachIInv ==
  /\ ReachTypeOK
  /\ func \notin missed =>
       /\ Rising(reachOut)
       /\ ~ updated => \A i \in 1 .. visiting - 1 : Settled(Layout[i])
       /\ ~ running /\ func \in DOMAIN memoizer =>
            memoizer[func] = reachIn /\ ~ updated /\ visiting = Len(Layout) + 1

LEMMA TransferMonotone ==
  ASSUME ReachTypeOK, NEW b \in Block, NEW low, NEW high, \A p \in Block : low[p] \subseteq high[p]
  PROVE  Transfer(low, b) \subseteq Transfer(high, b)
<1>1. Pred[b] \subseteq Block
  BY GraphAssumption DEF ReachTypeOK, Block
<1>2. QED BY <1>1 DEF Transfer, ReachesEntry, Killed

(* Sets that do not grow in size do not grow. *)
LEMMA NotGrowing ==
  ASSUME ReachTypeOK, NEW b \in Block, reachOut[b] \subseteq Transfer(reachOut, b),
         ~ Grows(Transfer(reachOut, b), reachOut[b])
  PROVE  reachOut[b] = Transfer(reachOut, b)
<1> DEFINE new == Transfer(reachOut, b)
<1>1. func \in DOMAIN LayoutOf /\ IsFiniteSet(AnyStore)
  BY StoresAssumption DEF ReachTypeOK, AnyStore
<1>2. {} \in MayMiss(reachOut, b)
  BY DEF MayMiss
<1>3. new \subseteq AnyStore
  BY <1>2, VisitTypes
<1>4. IsFiniteSet(new) /\ Cardinality(new) \in Nat
  BY <1>1, <1>3, FS_Subset, FS_CardinalityType
<1>5. /\ IsFiniteSet(reachOut[b]) /\ Cardinality(reachOut[b]) \in Nat
      /\ Cardinality(reachOut[b]) <= Cardinality(new)
      /\ Cardinality(new) = Cardinality(reachOut[b]) => new = reachOut[b]
  BY <1>4, FS_Subset, FS_CardinalityType
<1>6. ~ (Cardinality(new) > Cardinality(reachOut[b]))
  BY DEF Grows
<1> HIDE DEF new
<1>7. Cardinality(new) = Cardinality(reachOut[b])
  BY <1>4, <1>5, <1>6
<1>8. QED BY <1>5, <1>7 DEF new

LEMMA ReachInitInv == ReachInit => ReachIInv
<1> SUFFICES ASSUME ReachInit PROVE ReachIInv
  OBVIOUS
<1>1. ReachTypeOK
  BY ReachInitType
<1>2. visiting = 1 /\ DOMAIN memoizer = {} /\ \A b \in Block : reachOut[b] = {}
  BY DEF ReachInit, NothingReaches, Block
<1>3. Rising(reachOut)
  BY <1>2 DEF Rising
<1>4. QED BY <1>1, <1>2, <1>3 DEF ReachIInv

LEMMA CallInv ==
  ASSUME ReachIInv, NEW f \in DOMAIN LayoutOf, CallReachingStores(f)
  PROVE  ReachIInv'
<1>1. ReachTypeOK'
  BY CallType DEF ReachIInv
<1>2. \A b \in Block' : reachOut'[b] = {}
  BY DEF CallReachingStores, NothingReaches, Block
<1>3. Rising(reachOut)'
  BY <1>2 DEF Rising
<1>4. visiting' = 1 /\ running' = TRUE
  BY Zenon DEF CallReachingStores
<1>5. \A i \in 1 .. visiting' - 1 : FALSE
  BY <1>4
<1>6. QED BY <1>1, <1>3, <1>4, <1>5, Zenon DEF ReachIInv

LEMMA VisitInv == ReachIInv /\ VisitBlock => ReachIInv'
<1> SUFFICES ASSUME ReachIInv, VisitBlock PROVE ReachIInv'
  OBVIOUS
<1> DEFINE b == Layout[visiting]
<1>1. ReachTypeOK /\ ReachTypeOK'
  BY VisitType DEF ReachIInv
<1>2. /\ func' = func /\ Layout' = Layout /\ Block' = Block /\ AnyStore' = AnyStore
      /\ running' = running /\ running /\ visiting' = visiting + 1
  BY DEF VisitBlock, Layout, Block, AnyStore
<1>3. /\ b \in Block /\ visiting \in Nat /\ Len(Layout) \in Nat
      /\ \A i \in 1 .. visiting : Layout[i] \in Block
      /\ 1 .. visiting' - 1 = 1 .. visiting
  <2>1. b \in Block /\ visiting \in Nat /\ Len(Layout) \in Nat /\ \A i \in 1 .. visiting : Layout[i] \in Block
    BY <1>1, LayoutBlocks DEF VisitBlock, ReachTypeOK
  <2>2. visiting' - 1 = visiting
    BY <1>2, <2>1
  <2>3. QED BY <2>1, <2>2
<1> SUFFICES ASSUME func \notin missed'
             PROVE  /\ Rising(reachOut)'
                    /\ ~ updated' => \A i \in 1 .. visiting : Settled(Layout[i])'
  BY <1>1, <1>2, <1>3, Zenon DEF ReachIInv
<1>4. /\ func \notin missed
      /\ reachIn' = [reachIn EXCEPT ![b] = ReachesEntry(reachOut, b)]
      /\ IF Grows(Transfer(reachOut, b), reachOut[b])
           THEN reachOut' = [reachOut EXCEPT ![b] = Transfer(reachOut, b)] /\ updated' = TRUE
           ELSE reachOut' = reachOut /\ updated' = updated
  <2>1. PICK left \in MayMiss(reachOut, b) :
          LET curReach == Transfer(reachOut, b) \cup left
          IN  /\ reachIn' = [reachIn EXCEPT ![b] = ReachesEntry(reachOut, b)]
              /\ IF Grows(curReach, reachOut[b])
                   THEN reachOut' = [reachOut EXCEPT ![b] = curReach] /\ updated' = TRUE
                   ELSE UNCHANGED <<reachOut, updated>>
              /\ missed' = IF left = {} THEN missed ELSE missed \cup {func}
    BY DEF VisitBlock
  <2>2. left = {} /\ func \notin missed
    BY <2>1
  <2>3. Transfer(reachOut, b) \cup left = Transfer(reachOut, b)
    BY <2>2
  <2>4. QED BY <2>1, <2>2, <2>3
<1>5. Rising(reachOut) /\ (~ updated => \A i \in 1 .. visiting - 1 : Settled(Layout[i]))
  BY <1>4 DEF ReachIInv
<1>6. reachOut \in [Block -> SUBSET AnyStore] /\ reachIn \in [Block -> SUBSET AnyStore]
  BY <1>1 DEF ReachTypeOK
<1>7. CASE Grows(Transfer(reachOut, b), reachOut[b])
  <2>1. /\ \A c \in Block : reachOut'[c] = IF c = b THEN Transfer(reachOut, b) ELSE reachOut[c]
        /\ updated' = TRUE
    BY <1>3, <1>4, <1>6, <1>7
  <2>2. \A c \in Block : reachOut[c] \subseteq reachOut'[c]
    BY <1>3, <1>5, <2>1 DEF Rising
  <2>3. ASSUME NEW c \in Block PROVE reachOut'[c] \subseteq Transfer(reachOut', c)
    <3>1. Transfer(reachOut, c) \subseteq Transfer(reachOut', c)
      BY <1>1, <2>2, TransferMonotone
    <3>2. reachOut'[c] \subseteq Transfer(reachOut, c)
      BY <1>5, <2>1 DEF Rising
    <3>3. QED BY <3>1, <3>2
  <2>4. ASSUME NEW sol \in Solution PROVE Transfer(reachOut, b) \subseteq sol[b]
    <3>1. \A p \in Block : reachOut[p] \subseteq sol[p]
      BY <1>5 DEF Rising
    <3>2. Transfer(reachOut, b) \subseteq Transfer(sol, b)
      BY <1>1, <1>3, <3>1, TransferMonotone
    <3>3. QED BY <1>3, <3>2 DEF Solution, IsSolution
  <2>5. Solution' = Solution
    BY <1>2 DEF Solution, IsSolution
  <2>6. ASSUME NEW c \in Block, NEW sol \in Solution PROVE reachOut'[c] \subseteq sol[c]
    <3>1. CASE c = b
      BY <2>1, <2>4, <3>1
    <3>2. CASE c # b
      BY <1>5, <2>1, <3>2 DEF Rising
    <3>3. QED BY <3>1, <3>2
  <2>7. Rising(reachOut)'
    BY <1>2, <2>3, <2>5, <2>6, Zenon DEF Rising
  <2>8. QED BY <2>1, <2>7, Zenon
<1>8. CASE ~ Grows(Transfer(reachOut, b), reachOut[b])
  <2>1. reachOut' = reachOut /\ updated' = updated
    BY <1>4, <1>8, Zenon
  <2>2. Solution' = Solution
    BY <1>2 DEF Solution, IsSolution
  <2>3. Rising(reachOut)'
    BY <1>2, <1>5, <2>1, <2>2, Zenon DEF Rising
  <2>4. reachOut[b] = Transfer(reachOut, b)
    BY <1>1, <1>3, <1>5, <1>8, NotGrowing DEF Rising
  <2>5. reachIn'[b] = ReachesEntry(reachOut, b) /\ \A c \in Block : c # b => reachIn'[c] = reachIn[c]
    BY <1>3, <1>4, <1>6
  <2>6. ASSUME ~ updated', NEW i \in 1 .. visiting PROVE Settled(Layout[i])'
    <3>1. CASE Layout[i] = b
      <4>1. reachOut'[b] = Transfer(reachOut', b) /\ reachIn'[b] = ReachesEntry(reachOut', b)
        BY <2>1, <2>4, <2>5
      <4>2. QED BY <1>2, <3>1, <4>1 DEF Settled
    <3>2. CASE Layout[i] # b
      <4>1. i \in 1 .. visiting - 1
        BY <1>3, <3>2
      <4>2. Settled(Layout[i])
        BY <1>5, <2>1, <2>6, <4>1, Zenon
      <4>3. reachIn'[Layout[i]] = reachIn[Layout[i]]
        BY <1>3, <2>5, <3>2
      <4>4. QED BY <1>2, <2>1, <4>2, <4>3 DEF Settled
    <3>3. QED BY <3>1, <3>2
  <2>7. QED BY <2>3, <2>6, Zenon
<1>9. QED BY <1>7, <1>8, Zenon

LEMMA NextPassInv == ReachIInv /\ NextPass => ReachIInv'
<1> SUFFICES ASSUME ReachIInv, NextPass PROVE ReachIInv'
  OBVIOUS
<1>1. /\ func' = func /\ Layout' = Layout /\ Block' = Block /\ AnyStore' = AnyStore
      /\ reachOut' = reachOut /\ missed' = missed /\ running' = running /\ running
      /\ visiting' = 1
  BY DEF NextPass, Layout, Block, AnyStore
<1>2. ReachTypeOK'
  BY ReachNextType DEF ReachIInv, ReachNext, ReachLoop
<1>3. Solution' = Solution
  BY <1>1 DEF Solution, IsSolution
<1>4. Rising(reachOut)' = Rising(reachOut)
  BY <1>1, <1>3, Zenon DEF Rising
<1>5. \A i \in 1 .. visiting' - 1 : FALSE
  BY <1>1
<1>6. QED BY <1>1, <1>2, <1>4, <1>5, Zenon DEF ReachIInv

LEMMA MemoizeInv == ReachIInv /\ Memoize => ReachIInv'
<1> SUFFICES ASSUME ReachIInv, Memoize PROVE ReachIInv'
  OBVIOUS
<1>1. /\ func' = func /\ Layout' = Layout /\ Block' = Block /\ AnyStore' = AnyStore
      /\ reachOut' = reachOut /\ reachIn' = reachIn /\ missed' = missed
      /\ visiting' = visiting /\ visiting = Len(Layout) + 1 /\ updated' = updated /\ ~ updated
  BY DEF Memoize, Layout, Block, AnyStore
<1>2. ReachTypeOK'
  BY ReachNextType DEF ReachIInv, ReachNext, ReachLoop
<1>3. Solution' = Solution
  BY <1>1 DEF Solution, IsSolution
<1>4. Rising(reachOut)' = Rising(reachOut) /\ \A c : Settled(c)' = Settled(c)
  BY <1>1, <1>3, Zenon DEF Rising, Settled
<1>5. memoizer'[func] = reachIn
  BY DEF Memoize
<1>6. ~ updated' => (\A i \in 1 .. visiting' - 1 : Settled(Layout[i])')
        \/ ~ (\A i \in 1 .. visiting - 1 : Settled(Layout[i]))
  BY <1>1, <1>4, Zenon
<1>7. QED BY <1>1, <1>2, <1>4, <1>5, <1>6, Zenon DEF ReachIInv

LEMMA ReachNextInv == ReachIInv /\ [ReachNext]_reachVars => ReachIInv'
<1> SUFFICES ASSUME ReachIInv, [ReachNext]_reachVars PROVE ReachIInv'
  OBVIOUS
<1>1. ASSUME NEW f \in DOMAIN LayoutOf, CallReachingStores(f) PROVE ReachIInv'
  BY <1>1, CallInv
<1>2. CASE UNCHANGED reachVars
  <2>1. /\ func' = func /\ running' = running /\ reachOut' = reachOut /\ reachIn' = reachIn
        /\ visiting' = visiting /\ updated' = updated /\ memoizer' = memoizer /\ missed' = missed
    BY <1>2 DEF reachVars
  <2>2. Layout' = Layout /\ Block' = Block /\ AnyStore' = AnyStore
    BY <2>1 DEF Layout, Block, AnyStore
  <2>3. ReachTypeOK'
    BY ReachNextType DEF ReachIInv
  <2>4. Solution' = Solution
    BY <2>2 DEF Solution, IsSolution
  <2>5. Rising(reachOut)' = Rising(reachOut) /\ \A c : Settled(c)' = Settled(c)
    BY <2>1, <2>2, <2>4, Zenon DEF Rising, Settled
  <2>6. QED BY <2>1, <2>2, <2>3, <2>5, Zenon DEF ReachIInv
<1>3. QED BY <1>1, <1>2, VisitInv, NextPassInv, MemoizeInv DEF ReachNext, ReachLoop

THEOREM ReachInvariant == ReachSpec => []ReachIInv
<1>1. QED BY ReachInitInv, ReachNextInv, PTL DEF ReachSpec

LEMMA LeastWhenDone == ReachIInv => ReachLeast
<1> SUFFICES ASSUME ReachIInv, ~ running, func \in DOMAIN memoizer \ missed
             PROVE  /\ memoizer[func] = [b \in Block |-> ReachesEntry(reachOut, b)]
                    /\ IsSolution(reachOut)
                    /\ \A out \in [Block -> SUBSET AnyStore] :
                         IsSolution(out) => \A b \in Block : reachOut[b] \subseteq out[b]
  BY DEF ReachLeast
<1>1. /\ ReachTypeOK /\ Rising(reachOut)
      /\ ~ updated /\ visiting = Len(Layout) + 1 /\ memoizer[func] = reachIn
      /\ \A i \in 1 .. visiting - 1 : Settled(Layout[i])
  BY DEF ReachIInv
<1>2. \A b \in Block : Settled(b)
  <2>1. Len(Layout) \in Nat /\ \A b \in Block : \E i \in 1 .. Len(Layout) : Layout[i] = b
    BY <1>1, LayoutBlocks DEF ReachTypeOK
  <2>2. 1 .. visiting - 1 = 1 .. Len(Layout)
    BY <1>1, <2>1
  <2>3. QED BY <1>1, <2>1, <2>2
<1>3. IsSolution(reachOut)
  BY <1>2 DEF IsSolution, Settled
<1>4. memoizer[func] = [b \in Block |-> ReachesEntry(reachOut, b)]
  BY <1>1, <1>2 DEF Settled, ReachTypeOK
<1>5. QED BY <1>1, <1>3, <1>4 DEF Rising, Solution

(* Replacing sets only when their size grows, in whatever order the blocks  *)
(* are listed, ends in the least solution of the data-flow equations        *)
(* (getReachingStores), where no killed store was missed.                   *)
THEOREM LeastSolution == ReachSpec => []ReachLeast
<1>1. QED BY LeastWhenDone, ReachInvariant, PTL

-----------------------------------------------------------------------------
(* Identifiers of values, for any set of values and any width: they are the *)
(* numbers below the size of the cache, each given once, so that only the   *)
(* one the width check lets through shares a bit vector.                    *)

(* A cache holds the first identifiers, each once. *)
Numbered(cache) ==
  /\ IsFiniteSet(DOMAIN cache)
  /\ \A v \in DOMAIN cache : cache[v] \in Nat /\ cache[v] < Cardinality(DOMAIN cache)
  /\ \A v, w \in DOMAIN cache : v # w => cache[v] # cache[w]
  /\ Cardinality(DOMAIN cache) \in Nat
  /\ Cardinality(DOMAIN cache) <= 2 ^ BVSize + 1

IdIInv == IdTypeOK /\ Numbered(valueCache) /\ (idStatus = "dumped" =>
            \A v \in DOMAIN valueCache : FitsWidth(valueCache[v]))

(* A value takes the next identifier, unless the width check stops it. *)
LEMMA WithIdNumbered ==
  ASSUME NEW cache, NEW v, Numbered(cache), ~ TooWide(cache, v)
  PROVE  Numbered(WithId(cache, v))
<1>1. CASE v \in DOMAIN cache
  BY <1>1 DEF WithId
<1>2. CASE v \notin DOMAIN cache
  <2> DEFINE new == WithId(cache, v)
             n   == Cardinality(DOMAIN cache)
  <2>1. /\ DOMAIN new = DOMAIN cache \cup {v}
        /\ new[v] = n
        /\ \A w \in DOMAIN cache : new[w] = cache[w]
    BY <1>2 DEF WithId, NextId
  <2>2. IsFiniteSet(DOMAIN new) /\ Cardinality(DOMAIN new) = n + 1
    BY <1>2, <2>1, FS_AddElement DEF Numbered
  <2>3. n \in Nat /\ n <= 2 ^ BVSize
    BY <1>2, WidthAssumption DEF TooWide, NextId, Numbered
  <2>4. \A w \in DOMAIN cache : cache[w] \in Nat /\ cache[w] < n
    BY DEF Numbered
  <2>5. \A w \in DOMAIN new : new[w] \in Nat /\ new[w] < n + 1
    BY <2>1, <2>3, <2>4
  <2>6. \A w, u \in DOMAIN new : w # u => new[w] # new[u]
    BY <2>1, <2>3, <2>4 DEF Numbered
  <2>7. n + 1 \in Nat /\ n + 1 <= 2 ^ BVSize + 1
    BY <2>3, WidthAssumption
  <2>8. QED
    BY <2>2, <2>5, <2>6, <2>7 DEF Numbered
<1>3. QED BY <1>1, <1>2

LEMMA IdInitInv == IdInit => IdIInv
<1> SUFFICES ASSUME IdInit PROVE IdIInv
  OBVIOUS
<1>1. DOMAIN valueCache = {}
  BY DEF IdInit, NoIds
<1>2. Numbered(valueCache)
  BY <1>1, FS_EmptySet, WidthAssumption DEF Numbered
<1>3. QED BY <1>1, <1>2 DEF IdIInv, IdTypeOK, IdInit

LEMMA AddFactInv ==
  ASSUME IdIInv, NEW v1 \in Value, NEW v2 \in Value, AddFact(v1, v2)
  PROVE  IdIInv'
<1> DEFINE one == WithId(valueCache, v1)
           two == WithId(one, v2)
<1>1. Numbered(valueCache) /\ DOMAIN valueCache \subseteq Value
  BY DEF IdIInv, IdTypeOK
<1>2. \/ valueCache' = valueCache /\ idStatus' = "exited"
      \/ ~ TooWide(valueCache, v1) /\ valueCache' = one /\ idStatus' = "exited"
      \/ /\ ~ TooWide(valueCache, v1) /\ ~ TooWide(one, v2)
         /\ valueCache' = two /\ idStatus' = "running"
  BY DEF AddFact
<1>3. ~ TooWide(valueCache, v1) => Numbered(one) /\ DOMAIN one \subseteq Value
  <2>1. DOMAIN one \subseteq Value
    BY <1>1 DEF WithId
  <2>2. ~ TooWide(valueCache, v1) => Numbered(one)
    BY <1>1, WithIdNumbered
  <2>3. QED BY <2>1, <2>2
<1>4. ~ TooWide(valueCache, v1) /\ ~ TooWide(one, v2) => Numbered(two) /\ DOMAIN two \subseteq Value
  <2>1. DOMAIN one \subseteq Value => DOMAIN two \subseteq Value
    BY DEF WithId
  <2>2. Numbered(one) /\ ~ TooWide(one, v2) => Numbered(two)
    BY WithIdNumbered
  <2>3. QED BY <1>3, <2>1, <2>2
<1>5. /\ Numbered(valueCache') /\ DOMAIN valueCache' \subseteq Value
      /\ idStatus' \in {"exited", "running"}
  BY <1>1, <1>2, <1>3, <1>4
<1>6. QED BY <1>5 DEF IdIInv, IdTypeOK, Numbered

LEMMA IdNextInv == IdIInv /\ [IdNext]_idVars => IdIInv'
<1> SUFFICES ASSUME IdIInv, [IdNext]_idVars PROVE IdIInv'
  OBVIOUS
<1>1. CASE ValueCacheToMetadata
  BY <1>1 DEF IdIInv, IdTypeOK, Numbered, ValueCacheToMetadata, FitsWidth
<1>2. ASSUME NEW v1 \in Value, NEW v2 \in Value, AddFact(v1, v2) PROVE IdIInv'
  BY <1>2, AddFactInv
<1>3. CASE UNCHANGED idVars
  BY <1>3 DEF IdIInv, IdTypeOK, Numbered, idVars, FitsWidth
<1>4. QED BY <1>1, <1>2, <1>3 DEF IdNext

(* The identifiers stay well numbered. *)
THEOREM IdsNumbered == IdSpec => []IdIInv
<1>1. QED BY IdInitInv, IdNextInv, PTL DEF IdSpec

(* Type correctness of the cache of identifiers. *)
THEOREM IdTypeCorrect == IdSpec => []IdTypeOK
<1>1. IdIInv => IdTypeOK
  BY DEF IdIInv
<1>2. QED BY <1>1, IdsNumbered, PTL

(* Reduced modulo the width, the numbers up to 2 ^ BVSize fall together in  *)
(* one case only.                                                           *)
LEMMA ModApart ==
  ASSUME NEW m \in Nat \ {0}, NEW a \in 0 .. m, NEW b \in 0 .. m, a < b, a % m = b % m
  PROVE  a = 0 /\ b = m
<1>1. a % m = a
  OBVIOUS
<1>2. CASE b < m
  <2>1. b % m = b
    BY <1>2
  <2>2. QED BY <1>1, <2>1
<1>3. CASE b = m
  <2>1. b % m = 0
    BY <1>3
  <2>2. QED BY <1>1, <1>3, <2>1
<1>4. QED BY <1>2, <1>3

(* No two values share an identifier, and at most two share a bit vector    *)
(* (getValueBVIDSz).                                                        *)
THEOREM IdsStayDistinct == IdSpec => []IdsDistinct
<1>1. ASSUME IdIInv PROVE IdsDistinct
  <2> DEFINE m == 2 ^ BVSize
  <2> SUFFICES ASSUME NEW v \in DOMAIN valueCache, NEW w \in DOMAIN valueCache, v # w
               PROVE  /\ valueCache[v] # valueCache[w]
                      /\ BVOf(v) = BVOf(w) => {valueCache[v], valueCache[w]} = {0, m}
    BY DEF IdsDistinct
  <2>1. m \in Nat \ {0}
    BY WidthAssumption
  <2> HIDE DEF m
  <2>2. valueCache[v] \in 0 .. m /\ valueCache[w] \in 0 .. m
    BY <1>1, <2>1 DEF IdIInv, Numbered, m
  <2>3. valueCache[v] # valueCache[w]
    BY <1>1 DEF IdIInv, Numbered
  <2>4. BVOf(v) = valueCache[v] % m /\ BVOf(w) = valueCache[w] % m
    BY DEF BVOf, m
  <2>5. CASE valueCache[v] < valueCache[w]
    BY <2>1, <2>2, <2>3, <2>4, <2>5, ModApart
  <2>6. CASE valueCache[w] < valueCache[v]
    BY <2>1, <2>2, <2>3, <2>4, <2>6, ModApart
  <2>7. QED BY <2>2, <2>3, <2>5, <2>6
<1>2. QED BY <1>1, IdsNumbered, PTL

(* A run that gets to report its errors told all values apart (to_const_bitvec's *)
(* assertion).                                                              *)
THEOREM ReportsAreApart == IdSpec => []ReportedApart
<1>1. ASSUME IdIInv PROVE ReportedApart
  <2> SUFFICES ASSUME idStatus = "dumped", NEW v \in DOMAIN valueCache, NEW w \in DOMAIN valueCache,
                      v # w
               PROVE  BVOf(v) # BVOf(w)
    BY DEF ReportedApart
  <2>1. /\ valueCache[v] \in Nat /\ valueCache[w] \in Nat /\ valueCache[v] # valueCache[w]
        /\ valueCache[v] < 2 ^ BVSize /\ valueCache[w] < 2 ^ BVSize
    BY <1>1 DEF IdIInv, Numbered, FitsWidth
  <2>2. 2 ^ BVSize \in Nat \ {0}
    BY WidthAssumption
  <2>3. valueCache[v] % 2 ^ BVSize = valueCache[v] /\ valueCache[w] % 2 ^ BVSize = valueCache[w]
    BY <2>1, <2>2
  <2>4. QED BY <2>1, <2>3 DEF BVOf
<1>2. QED BY <1>1, IdsNumbered, PTL

-----------------------------------------------------------------------------
(* The analysis of a thread. *)

LEMMA FactValues ==
  ASSUME thread \in ThreadFunc, NEW k \in 1 .. Len(FactsOf[thread])
  PROVE  FactsOf[thread][k][1] \in Value /\ FactsOf[thread][k][2] \in Value
<1>1. FactsOf[thread] \in Seq(Value \X Value)
  BY FactsAssumption
<1>2. FactsOf[thread][k] \in Value \X Value
  BY <1>1
<1>3. QED BY <1>2

(* Every step is one of each component, or leaves it alone. *)
LEMMA StepOfComponents ==
  ASSUME thread \in ThreadFunc, added \in Nat, [Next]_vars
  PROVE  [ReachNext]_reachVars /\ [CpNext]_cpVars /\ [IdNext]_idVars
<1>1. CASE AddFacts
  <2>1. added + 1 \in 1 .. Len(FactsOf[thread])
    <3>1. Len(FactsOf[thread]) \in Nat
      BY FactsAssumption
    <3>2. QED BY <1>1, <3>1 DEF AddFacts
  <2>2. FactsOf[thread][added + 1][1] \in Value /\ FactsOf[thread][added + 1][2] \in Value
    BY <2>1, FactValues
  <2>3. IdNext
    BY <1>1, <2>2 DEF AddFacts, IdNext
  <2>4. QED BY <1>1, <2>3 DEF AddFacts
<1>2. CASE FindReachingStores
  <2>1. ReachNext
    BY <1>2 DEF FindReachingStores, ReachNext, CallReachingStores
  <2>2. QED BY <1>2, <2>1 DEF FindReachingStores
<1>3. CASE TestCurPerm
  BY <1>3 DEF TestCurPerm, CpNext
<1>4. CASE Report
  BY <1>4 DEF Report, IdNext
<1>5. CASE UNCHANGED vars
  BY <1>5 DEF vars
<1>6. QED BY <1>1, <1>2, <1>3, <1>4, <1>5 DEF Next

LEMMA ThreadKept ==
  ASSUME thread \in ThreadFunc, added \in 0 .. Len(FactsOf[thread]), [Next]_vars
  PROVE  thread' = thread /\ added' \in 0 .. Len(FactsOf[thread]) /\ sizes' = sizes
<1>1. Len(FactsOf[thread]) \in Nat
  BY FactsAssumption
<1>2. QED
  BY <1>1 DEF Next, vars, queryVars, cpVars, AddFacts, FindReachingStores, TestCurPerm,
              TestAndIncrement, Report

InThread == thread \in ThreadFunc /\ added \in 0 .. Len(FactsOf[thread]) /\ sizes = ChoicesPerLoad(thread)

LEMMA InitInThread == Init => InThread
<1> SUFFICES ASSUME Init PROVE InThread
  OBVIOUS
<1>1. thread \in ThreadFunc /\ Len(FactsOf[thread]) \in Nat
  BY FactsAssumption DEF Init
<1>2. QED BY <1>1 DEF Init, InThread

LEMMA NextInThread == InThread /\ [Next]_vars => InThread'
  BY ThreadKept DEF InThread, ChoicesPerLoad

THEOREM ThreadInvariant == Spec => []InThread
<1>1. QED BY InitInThread, NextInThread, PTL DEF Spec

(* The analysis of a thread implements the three components it is made of.  *)
THEOREM ImplementsComponents == Spec => ReachSpec /\ CpSpec /\ IdSpec
<1>1. Init => ReachInit /\ CpInit /\ IdInit
  BY DEF Init
<1>2. InThread /\ [Next]_vars => [ReachNext]_reachVars /\ [CpNext]_cpVars /\ [IdNext]_idVars
  <2> SUFFICES ASSUME InThread, [Next]_vars
               PROVE  [ReachNext]_reachVars /\ [CpNext]_cpVars /\ [IdNext]_idVars
    OBVIOUS
  <2>1. thread \in ThreadFunc /\ added \in Nat
    BY FactsAssumption DEF InThread
  <2>2. QED BY <2>1, StepOfComponents
<1>3. QED BY <1>1, <1>2, ThreadInvariant, PTL DEF Spec, ReachSpec, CpSpec, IdSpec

-----------------------------------------------------------------------------
(* What the solver is asked. *)

HaveIds(n) ==
  \A k \in 1 .. n : FactsOf[thread][k][1] \in DOMAIN valueCache /\ FactsOf[thread][k][2] \in DOMAIN valueCache

AllAdded == added = Len(FactsOf[thread])

Queries(p) == BVPairs(InterfReads(p))

AskedInv ==
  /\ {a.perm : a \in asked} = tested
  /\ \A a \in asked : a.queries = Queries(a.perm)

QueryInv ==
  /\ InThread
  /\ idStatus # "exited" => HaveIds(added)
  /\ running \/ DOMAIN memoizer # {} \/ asked # {} => AllAdded
  /\ AskedInv
  /\ idStatus = "dumped" => AtEnd(processed)

LEMMA InitQuery == Init => QueryInv
<1> SUFFICES ASSUME Init PROVE QueryInv
  OBVIOUS
<1>1. /\ added = 0 /\ asked = {} /\ tested = {} /\ DOMAIN memoizer = {} /\ ~ running
      /\ idStatus = "running"
  BY DEF Init, ReachInit, CpInit, IdInit
<1>2. HaveIds(added)
  BY <1>1 DEF HaveIds
<1>3. AskedInv
  BY <1>1 DEF AskedInv
<1>4. QED BY <1>1, <1>2, <1>3, InitInThread DEF QueryInv

LEMMA SameQueries ==
  ASSUME UNCHANGED <<thread, sizes, valueCache>>
  PROVE  \A p : Queries(p)' = Queries(p)
<1>1. \A p : InterfReads(p)' = InterfReads(p)
  BY DEF InterfReads, InterfLoad, Row
<1>2. \A v : BVOf(v)' = BVOf(v)
  BY DEF BVOf
<1>3. QED BY <1>1, <1>2 DEF Queries, BVPairs

LEMMA AddFactsQuery ==
  ASSUME QueryInv, AddFacts
  PROVE  QueryInv'
<1> DEFINE v1 == FactsOf[thread][added + 1][1]
           v2 == FactsOf[thread][added + 1][2]
<1>1. /\ added < Len(FactsOf[thread]) /\ added' = added + 1 /\ AddFact(v1, v2)
      /\ thread' = thread /\ asked' = asked /\ tested' = tested
      /\ running' = running /\ memoizer' = memoizer
  BY DEF AddFacts, reachVars, cpVars
<1>2. added \in Nat /\ Len(FactsOf[thread]) \in Nat
  BY FactsAssumption DEF QueryInv, InThread
<1>3. asked = {} /\ ~ running /\ DOMAIN memoizer = {} /\ tested = {}
  <2>1. ~ AllAdded
    BY <1>1, <1>2 DEF AllAdded
  <2>2. asked = {} /\ ~ running /\ DOMAIN memoizer = {}
    BY <2>1, Zenon DEF QueryInv
  <2>3. QED BY <2>2 DEF QueryInv, AskedInv
<1>4. InThread'
  BY NextInThread DEF QueryInv, Next
<1>5. idStatus = "running" /\ idStatus' \in {"exited", "running"}
  BY <1>1 DEF AddFact
<1>6. idStatus' # "exited" =>
        /\ DOMAIN valueCache \subseteq DOMAIN valueCache'
        /\ v1 \in DOMAIN valueCache' /\ v2 \in DOMAIN valueCache'
  <2>1. idStatus' # "exited" => valueCache' = WithId(WithId(valueCache, v1), v2)
    BY <1>1 DEF AddFact
  <2>2. DOMAIN WithId(valueCache, v1) = DOMAIN valueCache \cup {v1}
    BY DEF WithId
  <2>3. DOMAIN WithId(WithId(valueCache, v1), v2) = DOMAIN WithId(valueCache, v1) \cup {v2}
    BY DEF WithId
  <2>4. QED BY <2>1, <2>2, <2>3
<1>7. idStatus' # "exited" => HaveIds(added)'
  <2> SUFFICES ASSUME idStatus' # "exited", NEW k \in 1 .. added + 1
               PROVE  FactsOf[thread][k][1] \in DOMAIN valueCache' /\ FactsOf[thread][k][2] \in DOMAIN valueCache'
    BY <1>1 DEF HaveIds
  <2>1. CASE k = added + 1
    BY <1>6, <2>1
  <2>2. CASE k # added + 1
    <3>1. k \in 1 .. added
      BY <1>2, <2>2
    <3>2. FactsOf[thread][k][1] \in DOMAIN valueCache /\ FactsOf[thread][k][2] \in DOMAIN valueCache
      BY <1>5, <3>1 DEF QueryInv, HaveIds
    <3>3. QED BY <1>6, <3>2
  <2>3. QED BY <2>1, <2>2
<1>8. AskedInv'
  BY <1>1, <1>3 DEF AskedInv
<1>9. QED BY <1>1, <1>3, <1>4, <1>5, <1>7, <1>8 DEF QueryInv

LEMMA TestCurPermQuery ==
  ASSUME QueryInv, TestCurPerm
  PROVE  QueryInv'
<1> DEFINE a == [perm |-> permutation, facts |-> BVPairs(ReadsFromFacts(permutation)),
                 queries |-> BVPairs(InterfReads(permutation))]
<1>1. /\ idStatus = "running" /\ idStatus' = idStatus /\ valueCache' = valueCache
      /\ thread' = thread /\ added' = added /\ sizes' = sizes
      /\ running' = running /\ memoizer' = memoizer
      /\ asked' = asked \cup {a} /\ tested' = tested \cup {permutation}
  BY DEF TestCurPerm, TestAndIncrement, reachVars, idVars
<1>2. AllAdded
  BY DEF TestCurPerm, Searched, QueryInv
<1>3. InThread'
  BY NextInThread DEF QueryInv, Next
<1>4. a.perm = permutation /\ a.queries = Queries(permutation)
  BY DEF Queries
<1> HIDE DEF a
<1>5. {b.perm : b \in asked'} = tested'
  BY <1>1, <1>4 DEF QueryInv, AskedInv
<1>6. \A p : Queries(p)' = Queries(p)
  BY <1>1, SameQueries
<1>7. \A b \in asked' : b.queries = Queries(b.perm)
  BY <1>1, <1>4 DEF QueryInv, AskedInv
<1>8. AskedInv'
  BY <1>5, <1>6, <1>7 DEF AskedInv
<1>9. HaveIds(added)' /\ AllAdded'
  BY <1>1, <1>2 DEF QueryInv, HaveIds, AllAdded
<1>10. QED BY <1>1, <1>3, <1>8, <1>9 DEF QueryInv

LEMMA NextQuery == QueryInv /\ [Next]_vars => QueryInv'
<1> SUFFICES ASSUME QueryInv, [Next]_vars PROVE QueryInv'
  OBVIOUS
<1>1. InThread'
  BY NextInThread DEF QueryInv
<1>2. ASSUME UNCHANGED <<cpVars, valueCache, queryVars>>
      PROVE  AskedInv' /\ HaveIds(added)' = HaveIds(added) /\ AllAdded' = AllAdded
             /\ AtEnd(processed)' = AtEnd(processed) /\ asked' = asked
  <2>1. /\ thread' = thread /\ added' = added /\ asked' = asked /\ sizes' = sizes
        /\ processed' = processed /\ tested' = tested /\ valueCache' = valueCache
    BY <1>2 DEF cpVars, queryVars
  <2>2. \A p : Queries(p)' = Queries(p)
    BY <2>1, SameQueries
  <2>3. AskedInv'
    BY <2>1, <2>2 DEF AskedInv, QueryInv
  <2>4. AtEnd(processed)' = AtEnd(processed)
    BY <2>1, SameRows DEF AtEnd
  <2>5. QED BY <2>1, <2>3, <2>4, Zenon DEF HaveIds, AllAdded
<1>3. CASE FindReachingStores
  <2>1. /\ AllAdded /\ idStatus' = idStatus /\ UNCHANGED <<cpVars, valueCache, queryVars>>
    BY <1>3 DEF FindReachingStores, AllAdded, idVars
  <2>2. QED BY <1>1, <1>2, <2>1, Zenon DEF QueryInv
<1>4. CASE Report
  <2>1. /\ idStatus = "running" /\ idStatus' \in {"dumped", "aborted"} /\ AtEnd(processed)
        /\ running' = running /\ memoizer' = memoizer
        /\ UNCHANGED <<cpVars, valueCache, queryVars>>
    BY <1>4 DEF Report, ValueCacheToMetadata, reachVars
  <2>2. HaveIds(added)
    BY <2>1 DEF QueryInv
  <2>3. QED BY <1>1, <1>2, <2>1, <2>2, Zenon DEF QueryInv
<1>5. CASE UNCHANGED vars
  <2>1. /\ idStatus' = idStatus /\ running' = running /\ memoizer' = memoizer
        /\ UNCHANGED <<cpVars, valueCache, queryVars>>
    BY <1>5 DEF vars, reachVars, idVars
  <2>2. QED BY <1>1, <1>2, <2>1, Zenon DEF QueryInv
<1>6. QED BY <1>3, <1>4, <1>5, AddFactsQuery, TestCurPermQuery DEF Next

THEOREM QueryInvariant == Spec => []QueryInv
<1>1. QED BY InitQuery, NextQuery, PTL DEF Spec

-----------------------------------------------------------------------------
(* No two permutations in the same words. *)

Apart == \A v, w \in DOMAIN valueCache : v # w => BVOf(v) # BVOf(w)

(* The loads and stores of the permutations have identifiers. *)
LEMMA UsedHaveIds ==
  ASSUME InThread, AllAdded, HaveIds(added), NEW i \in DOMAIN InterfLoad
  PROVE  /\ InterfLoad[i].at \in DOMAIN valueCache
         /\ \A n \in DOMAIN InterfLoad[i].stores : InterfLoad[i].stores[n] \in DOMAIN valueCache
<1> DEFINE facts == FactsOf[thread]
           used == {InterfLoad[i].at} \cup {InterfLoad[i].stores[n] : n \in DOMAIN InterfLoad[i].stores}
<1>1. thread \in ThreadFunc
  BY DEF InThread
<1>2. facts \in Seq(Value \X Value) /\ \A v \in used : \E k \in DOMAIN facts : v \in {facts[k][1], facts[k][2]}
  BY <1>1, FactsAssumption DEF InterfLoad
<1>3. DOMAIN facts = 1 .. added
  BY <1>2 DEF AllAdded
<1>4. \A k \in DOMAIN facts : facts[k][1] \in DOMAIN valueCache /\ facts[k][2] \in DOMAIN valueCache
  BY <1>3 DEF HaveIds
<1> HIDE DEF facts
<1>5. \A v \in used : v \in DOMAIN valueCache
  BY <1>2, <1>4
<1>6. QED BY <1>5

(* The choices of a permutation are indexes of the vectors of stores. *)
LEMMA ChoiceInRange ==
  ASSUME InThread, CpTypeOK, NEW p \in AllPermutations, NEW i \in Row
  PROVE  /\ i \in DOMAIN InterfLoad
         /\ p[i] \in Nat
         /\ p[i] # 0 => p[i] \in DOMAIN InterfLoad[i].stores
<1>1. /\ sizes = [j \in DOMAIN InterfLoad |-> Len(InterfLoad[j].stores) + 1]
      /\ thread \in ThreadFunc
  BY DEF InThread, ChoicesPerLoad, InterfLoad
<1>2. DOMAIN sizes = DOMAIN InterfLoad
  BY <1>1
<1>3. DOMAIN sizes = Row
  BY SizesAssumption DEF CpTypeOK, Row
<1>4. i \in DOMAIN InterfLoad
  BY <1>2, <1>3
<1>5. InterfLoad[i].stores \in Seq(Value)
  BY <1>1, <1>4, InterfsAssumption DEF InterfLoad
<1>6. sizes[i] = Len(InterfLoad[i].stores) + 1
  BY <1>1, <1>4
<1>7. p[i] \in Nat /\ p[i] < sizes[i]
  BY PermutationRows
<1>8. QED BY <1>4, <1>5, <1>6, <1>7

(* A store that is read from can be told from the queries. *)
LEMMA ReadFromQueries ==
  ASSUME InThread, CpTypeOK, AllAdded, HaveIds(added), Apart,
         NEW p \in AllPermutations, NEW q \in AllPermutations, Queries(p) = Queries(q),
         NEW i \in Row, p[i] # 0
  PROVE  q[i] = p[i]
<1> DEFINE s(j, r) == InterfLoad[j].stores[r[j]]
<1>1. <<InterfLoad[i].at, s(i, p)>> \in InterfReads(p)
  BY DEF InterfReads, Chosen
<1>2. <<BVOf(InterfLoad[i].at), BVOf(s(i, p))>> \in Queries(p)
  <2> DEFINE r == <<InterfLoad[i].at, s(i, p)>>
  <2>1. r \in InterfReads(p) /\ r[1] = InterfLoad[i].at /\ r[2] = s(i, p)
    BY <1>1
  <2> HIDE DEF r
  <2>2. <<BVOf(r[1]), BVOf(r[2])>> \in Queries(p)
    BY <2>1 DEF Queries, BVPairs
  <2>3. QED BY <2>1, <2>2
<1>3. PICK r \in InterfReads(q) : <<BVOf(InterfLoad[i].at), BVOf(s(i, p))>> = <<BVOf(r[1]), BVOf(r[2])>>
  BY <1>2 DEF Queries, BVPairs
<1>4. PICK j \in Row : q[j] # 0 /\ r = <<InterfLoad[j].at, s(j, q)>>
  BY DEF InterfReads, Chosen
<1>5. BVOf(InterfLoad[i].at) = BVOf(InterfLoad[j].at) /\ BVOf(s(i, p)) = BVOf(s(j, q))
  BY <1>3, <1>4
<1>6. /\ i \in DOMAIN InterfLoad /\ p[i] \in DOMAIN InterfLoad[i].stores
      /\ j \in DOMAIN InterfLoad /\ q[j] \in DOMAIN InterfLoad[j].stores
  BY <1>4, ChoiceInRange
<1>7. /\ InterfLoad[i].at \in DOMAIN valueCache /\ InterfLoad[j].at \in DOMAIN valueCache
      /\ s(i, p) \in DOMAIN valueCache /\ s(j, q) \in DOMAIN valueCache
  BY <1>6, UsedHaveIds
<1>8. InterfLoad[i].at = InterfLoad[j].at /\ s(i, p) = s(j, q)
  BY <1>5, <1>7 DEF Apart
<1>9. i = j
  BY <1>6, <1>8, InterfsAssumption DEF InThread, InterfLoad
<1>10. InterfLoad[i].stores[p[i]] = InterfLoad[i].stores[q[i]]
  BY <1>8, <1>9
<1>11. QED BY <1>6, <1>9, <1>10, InterfsAssumption DEF InThread, InterfLoad

LEMMA QueriesApart ==
  ASSUME InThread, CpTypeOK, AllAdded, HaveIds(added), Apart,
         NEW p \in AllPermutations, NEW q \in AllPermutations, Queries(p) = Queries(q)
  PROVE  p = q
<1>1. ASSUME NEW i \in Row PROVE p[i] = q[i]
  <2>1. CASE p[i] # 0
    BY <2>1, ReadFromQueries
  <2>2. CASE q[i] # 0
    BY <2>2, ReadFromQueries
  <2>3. QED BY <2>1, <2>2
<1>2. QED BY <1>1, PermutationRows

(* Where an int can hold the number of permutations, a thread that is       *)
(* reported on had every permutation asked about, each in words of its own: *)
(* facts name bit vectors, and a permutation only its choices (testCurPerm, *)
(* violatesProgOrder).                                                      *)
THEOREM EachAskedApart == Spec /\ CountFits => []AskedApart
<1>1. ASSUME QueryInv, AllTested, ReportedApart, CpTypeOK PROVE AskedApart
  <2> SUFFICES ASSUME idStatus = "dumped"
               PROVE  /\ {a.perm : a \in asked} = AllPermutations
                      /\ \A a, b \in asked : a.perm # b.perm => <<a.facts, a.queries>> # <<b.facts, b.queries>>
    BY DEF AskedApart
  <2>1. {a.perm : a \in asked} = AllPermutations
    BY <1>1 DEF QueryInv, AskedInv, AllTested
  <2>2. ASSUME NEW a \in asked, NEW b \in asked, a.perm # b.perm PROVE a.queries # b.queries
    <3>1. a.perm \in AllPermutations /\ b.perm \in AllPermutations
      BY <2>1
    <3>2. a.queries = Queries(a.perm) /\ b.queries = Queries(b.perm)
      BY <1>1 DEF QueryInv, AskedInv
    <3>3. InThread /\ AllAdded /\ HaveIds(added)
      BY <1>1 DEF QueryInv
    <3>4. Apart
      BY <1>1 DEF ReportedApart, Apart
    <3>5. QED BY <1>1, <2>2, <3>1, <3>2, <3>3, <3>4, QueriesApart
  <2>3. QED BY <2>1, <2>2
<1>2. QED BY <1>1, QueryInvariant, ImplementsComponents, AllGetTested, EnumeratorType, ReportsAreApart, PTL

(* Type correctness of the analysis of a thread. *)
THEOREM QueriesType == Spec => []TypeOK
<1>1. ASSUME QueryInv, ReachTypeOK, CpTypeOK, IdTypeOK PROVE TypeOK
  BY <1>1 DEF QueryInv, AskedInv, InThread, CpTypeOK, TypeOK
<1>2. QED BY <1>1, QueryInvariant, ImplementsComponents, ReachTypeCorrect, EnumeratorType,
             IdTypeCorrect, PTL

(* The properties of the components hold of the analysis of a thread. *)
THEOREM ComponentProperties == Spec => [](ReachLeast /\ InOrder /\ IdsDistinct /\ ReportedApart)
<1>1. QED BY ImplementsComponents, LeastSolution, TestedInOrder, IdsStayDistinct, ReportsAreApart, PTL

(* So do those the enumerator has where an int can hold the number of       *)
(* permutations of the thread: analyzeThreadInterf tests all of them.       *)
THEOREM ThreadFullyTested == Spec /\ CountFits => [](AllTested /\ NeverOverruns)
<1>1. QED BY ImplementsComponents, AllGetTested, CarryStaysInside, PTL
-----------------------------------------------------------------------------
(* What reaches a block is what a path leads there from, for any program:   *)
(* the stores with such a path are a solution of the data-flow equations,   *)
(* and any solution has them.                                               *)

Overwriting(v) == {t[1] : t \in {t \in Store : At(t).ptr = v}}

(* The graph with no way on from a block that overwrites v. *)
Onward(v) == [b \in Node |-> IF b \in Overwriting(v) THEN {} ELSE Succ[b]]

LastOnes == UNION {LastStores(c) : c \in Node}

LEMMA StoreIs ==
  ASSUME NEW s \in Store
  PROVE  s[1] \in Node /\ s[2] \in Int
BY DEF Store, Instr, List

LEMMA LastOnesAre ==
  ASSUME NEW s \in LastOnes
  PROVE  s \in Store /\ s[1] \in Node /\ s \in LastStores(s[1])
BY StoreIs DEF LastOnes, LastStores

LEMMA OnwardIs ==
  ASSUME NEW v
  PROVE  Onward(v) \in Relation(Node) /\ \A b \in Node : b \notin Overwriting(v) => Onward(v)[b] = Succ[b]
<1>1. \A b \in Node : Succ[b] \subseteq Node
  BY ProgramAssumption DEF GraphOfProgram
<1>2. QED BY <1>1 DEF Onward, Relation

LEMMA ReachedFromIs ==
  ASSUME NEW s
  PROVE  ReachedFrom(s) = Succ[s[1]] \cup UNION {TransClosure(Onward(At(s).ptr))[c] : c \in Succ[s[1]]}
BY Zenon DEF ReachedFrom, Onward, Overwriting

(* A way to reason about all paths: what the first steps are in, and no     *)
(* further step leaves.                                                     *)
LEMMA ReachedInside ==
  ASSUME ClosuresAreLeast, NEW s \in Store, NEW H \in SUBSET Node, Succ[s[1]] \subseteq H,
         \A c \in H \ Overwriting(At(s).ptr) : Succ[c] \subseteq H
  PROVE  ReachedFrom(s) \subseteq H
<1> DEFINE R == Onward(At(s).ptr)
           Q == [a \in Node |-> IF a \in H THEN H ELSE Node]
<1>1. R \in Relation(Node) /\ \A a \in Node : R[a] \subseteq Node
  BY OnwardIs DEF Relation
<1>2. Q \in Relation(Node)
  BY DEF Relation
<1>3. ClosedRelation(Q)
  BY DEF ClosedRelation
<1>4. \A a \in Node : R[a] \subseteq Q[a]
  <2> SUFFICES ASSUME NEW a \in H PROVE R[a] \subseteq H
    BY <1>1
  <2>1. QED BY DEF Onward
<1> HIDE DEF R, Q
<1>5. \A a \in Node : TransClosure(R)[a] \subseteq Q[a]
  BY <1>1, <1>2, <1>3, <1>4 DEF ClosuresAreLeast
<1>6. \A a \in H : TransClosure(R)[a] \subseteq H
  BY <1>5 DEF Q
<1>7. QED BY <1>6, ReachedFromIs DEF R

(* The first step of a path, and one step more. *)
LEMMA ReachedOnward ==
  ASSUME ClosuresAreLeast, NEW s \in Store
  PROVE  /\ Succ[s[1]] \subseteq ReachedFrom(s)
         /\ \A p \in ReachedFrom(s) \ Overwriting(At(s).ptr) : Succ[p] \subseteq ReachedFrom(s)
         /\ ReachedFrom(s) \subseteq Node
<1> DEFINE R == Onward(At(s).ptr)
           C == TransClosure(R)
<1>1. R \in Relation(Node)
  BY OnwardIs
<1>2. s[1] \in Node /\ Succ[s[1]] \subseteq Node
  BY StoreIs, ProgramAssumption DEF GraphOfProgram
<1>3. C \in Relation(Node) /\ ClosedRelation(C) /\ \A a \in Node : R[a] \subseteq C[a]
  <2> HIDE DEF R
  <2> QED BY <1>1 DEF ClosuresAreLeast
<1>4. ReachedFrom(s) = Succ[s[1]] \cup UNION {C[c] : c \in Succ[s[1]]}
  BY ReachedFromIs
<1>5. \A p \in Node \ Overwriting(At(s).ptr) : Succ[p] = R[p]
  BY OnwardIs
<1> HIDE DEF R, C
<1>6. ReachedFrom(s) \subseteq Node
  BY <1>2, <1>3, <1>4 DEF Relation
<1>7. ASSUME NEW p \in ReachedFrom(s) \ Overwriting(At(s).ptr) PROVE Succ[p] \subseteq ReachedFrom(s)
  <2>1. p \in Node /\ Succ[p] \subseteq C[p]
    BY <1>3, <1>5, <1>6
  <2>2. CASE p \in Succ[s[1]]
    BY <1>4, <2>1, <2>2
  <2>3. CASE \E c \in Succ[s[1]] : p \in C[c]
    <3>1. PICK c \in Succ[s[1]] : p \in C[c]
      BY <2>3
    <3>2. C[p] \subseteq C[c]
      BY <1>2, <1>3, <3>1 DEF ClosedRelation
    <3>3. QED BY <1>4, <2>1, <3>1, <3>2
  <2>4. QED BY <1>4, <2>2, <2>3
<1>8. QED BY <1>4, <1>6, <1>7

(* The last step of a path. *)
LEMMA ReachedBackward ==
  ASSUME ClosuresAreLeast, NEW s \in Store, NEW b \in ReachedFrom(s)
  PROVE  b \in Succ[s[1]] \/ \E p \in ReachedFrom(s) \ Overwriting(At(s).ptr) : b \in Succ[p]
<1> DEFINE H == Succ[s[1]] \cup UNION {Succ[p] : p \in ReachedFrom(s) \ Overwriting(At(s).ptr)}
<1>1. H \subseteq ReachedFrom(s) /\ ReachedFrom(s) \subseteq Node
  BY ReachedOnward
<1>2. \A c \in H \ Overwriting(At(s).ptr) : Succ[c] \subseteq H
  BY <1>1
<1>3. Succ[s[1]] \subseteq H
  OBVIOUS
<1> HIDE DEF H
<1>4. ReachedFrom(s) \subseteq H
  BY <1>1, <1>2, <1>3, ReachedInside
<1>5. QED BY <1>4 DEF H

(* What one block does to the stores that reach it.                         *)
LEMMA BlockStores ==
  ASSUME NEW b \in Node
  PROVE  /\ Gen(b) = LastStores(b)
         /\ \A s \in Store : PtrOf[s] \in RemVars(b) <=> b \in Overwriting(At(s).ptr)
<1> DEFINE n == StoresIn[b]
           D == DOMAIN n
<1>1. /\ n \in Seq(Store) /\ {n[i] : i \in D} = {s \in Store : s[1] = b}
      /\ \A i, j \in D : i < j => n[i][2] < n[j][2]
      /\ \A s \in Store : PtrOf[s] = At(s).ptr
  BY ProgramAssumption DEF GraphOfProgram
<1>2. /\ D \subseteq Int
      /\ \A i \in D : n[i] \in Store /\ n[i][1] = b /\ n[i][2] \in Int /\ PtrOf[n[i]] = At(n[i]).ptr
      /\ \A s \in Store : s[1] = b => \E i \in D : s = n[i]
  <2>1. D \subseteq Int
    BY <1>1
  <2>2. \A i \in D : n[i] \in Store /\ n[i][1] = b
    BY <1>1
  <2>3. QED BY <1>1, <2>1, <2>2, StoreIs
<1>3. Gen(b) = {n[i] : i \in {i \in D : \A j \in D : j > i => PtrOf[n[j]] # PtrOf[n[i]]}}
  BY Zenon DEF Gen
<1>4. RemVars(b) = {PtrOf[n[i]] : i \in D}
  BY Zenon DEF RemVars
<1>5. \A i, j \in D : i < j => n[i][2] < n[j][2]
  BY <1>1
<1> HIDE DEF n, D
<1>6. ASSUME NEW i \in D
      PROVE  (\A j \in D : j > i => PtrOf[n[j]] # PtrOf[n[i]])
               <=> \A t \in Store : t[1] = b /\ SameVar(t, n[i]) => t[2] <= n[i][2]
  <2>1. ASSUME \A j \in D : j > i => PtrOf[n[j]] # PtrOf[n[i]],
               NEW t \in Store, t[1] = b, SameVar(t, n[i])
        PROVE  t[2] <= n[i][2]
    <3>1. PICK j \in D : t = n[j]
      BY <1>2, <2>1
    <3>2. ~ (j > i)
      BY <1>2, <2>1, <3>1 DEF SameVar
    <3>3. j = i \/ j < i
      BY <1>2, <3>2
    <3>4. QED BY <1>2, <1>5, <3>1, <3>3
  <2>2. ASSUME \A t \in Store : t[1] = b /\ SameVar(t, n[i]) => t[2] <= n[i][2],
               NEW j \in D, j > i
        PROVE  PtrOf[n[j]] # PtrOf[n[i]]
    <3>1. n[i][2] < n[j][2]
      BY <1>2, <1>5, <2>2
    <3>2. ~ (n[j][2] <= n[i][2])
      BY <1>2, <3>1
    <3>3. QED BY <1>2, <2>2, <3>2 DEF SameVar
  <2>3. QED BY <2>1, <2>2
<1>7. Gen(b) = LastStores(b)
  <2>1. ASSUME NEW s \in Gen(b) PROVE s \in LastStores(b)
    <3>1. PICK i \in D : s = n[i] /\ \A j \in D : j > i => PtrOf[n[j]] # PtrOf[n[i]]
      BY <1>3, <2>1
    <3>2. QED BY <1>2, <1>6, <3>1 DEF LastStores
  <2>2. ASSUME NEW s \in LastStores(b) PROVE s \in Gen(b)
    <3>1. s \in Store /\ s[1] = b /\ \A t \in Store : t[1] = b /\ SameVar(t, s) => t[2] <= s[2]
      BY DEF LastStores
    <3>2. PICK i \in D : s = n[i]
      BY <1>2, <3>1
    <3>3. \A j \in D : j > i => PtrOf[n[j]] # PtrOf[n[i]]
      BY <1>6, <3>1, <3>2
    <3>4. QED BY <1>3, <3>2, <3>3
  <2>3. QED BY <2>1, <2>2
<1>8. ASSUME NEW s \in Store
      PROVE  PtrOf[s] \in RemVars(b) <=> b \in Overwriting(At(s).ptr)
  <2>1. PtrOf[s] = At(s).ptr
    BY <1>1
  <2>2. b \in Overwriting(At(s).ptr) <=> \E t \in Store : At(t).ptr = At(s).ptr /\ t[1] = b
    BY DEF Overwriting
  <2>3. PtrOf[s] \in RemVars(b) <=> \E i \in D : At(n[i]).ptr = At(s).ptr
    BY <1>2, <1>4, <2>1
  <2>4. QED BY <1>2, <2>2, <2>3
<1>9. QED BY <1>7, <1>8

(* The stores with a path to the entry of b, and those that leave b.        *)
PathIn(b) == {s \in LastOnes : b \in ReachedFrom(s)}

PathOut == [b \in Block |-> LastStores(b) \cup {s \in PathIn(b) : b \notin Overwriting(At(s).ptr)}]

LEMMA PathInIs ==
  ASSUME NEW b \in Node
  PROVE  ReachingStores[b] = PathIn(b)
<1>1. ReachingStores = [c \in Node |-> PathIn(c)]
  BY Zenon DEF ReachingStores, PathIn, LastOnes, Table
<1>2. QED BY <1>1

LEMMA BlocksAre ==
  ASSUME func \in DOMAIN LayoutOf
  PROVE  /\ Block \subseteq Node
         /\ \A b \in Block : Pred[b] \subseteq Block /\ Pred[b] = {c \in Node : b \in Succ[c]}
         /\ \A s \in Store : s[1] \in Block => s \in AnyStore
<1>1. Block \subseteq Node /\ \A b \in Block : Pred[b] \subseteq Block /\ Pred[b] = {c \in Node : b \in Succ[c]}
  BY ProgramAssumption, GraphAssumption DEF Block, GraphOfProgram
<1>2. ASSUME NEW s \in Store, s[1] \in Block PROVE s \in AnyStore
  <2>1. PICK b \in Block : b = s[1]
    BY <1>2
  <2>2. b \in Node
    BY <1>1
  <2>3. {StoresIn[b][i] : i \in DOMAIN StoresIn[b]} = {t \in Store : t[1] = b}
    BY <2>2, ProgramAssumption, Zenon DEF GraphOfProgram
  <2>4. PICK i \in DOMAIN StoresIn[b] : s = StoresIn[b][i]
    BY <2>1, <2>3
  <2>5. b \in BlocksOf(func)
    BY DEF Block
  <2>6. QED BY <2>4, <2>5 DEF AnyStore, StoresOf
<1>3. QED BY <1>1, <1>2

(* A store that reaches a block of a function is in the function.           *)
LEMMA ReachingInside ==
  ASSUME ClosuresAreLeast, NEW f \in DOMAIN LayoutOf, NEW s \in Store, NEW b \in BlocksOf(f),
         b \in ReachedFrom(s)
  PROVE  s[1] \in BlocksOf(f)
<1> DEFINE H == {c \in Node : c \in BlocksOf(f) => s[1] \in BlocksOf(f)}
<1>1. \A c \in Node : /\ Succ[c] \subseteq Node
                      /\ \A d \in Succ[c] : d \in BlocksOf(f) => c \in BlocksOf(f)
  <2> SUFFICES ASSUME NEW c \in Node PROVE /\ Succ[c] \subseteq Node
                                           /\ \A d \in Succ[c] : d \in BlocksOf(f) => c \in BlocksOf(f)
    OBVIOUS
  <2>1. Succ[c] \subseteq Node /\ \A d \in Node : Pred[d] = {a \in Node : d \in Succ[a]}
    BY ProgramAssumption DEF GraphOfProgram
  <2>2. \A d \in BlocksOf(f) : Pred[d] \subseteq BlocksOf(f)
    BY GraphAssumption
  <2>3. QED BY <2>1, <2>2
<1>2. Succ[s[1]] \subseteq H
  BY <1>1, StoreIs
<1>3. \A c \in H \ Overwriting(At(s).ptr) : Succ[c] \subseteq H
  BY <1>1
<1>4. H \in SUBSET Node
  OBVIOUS
<1> HIDE DEF H
<1>5. ReachedFrom(s) \subseteq H
  BY <1>2, <1>3, <1>4, ReachedInside
<1>6. QED BY <1>5, ReachedOnward DEF H

LEMMA PathOutEntry ==
  ASSUME ClosuresAreLeast, func \in DOMAIN LayoutOf, NEW b \in Block
  PROVE  ReachesEntry(PathOut, b) = PathIn(b)
<1>1. /\ b \in Node /\ Block \subseteq Node /\ Pred[b] \subseteq Block
      /\ Pred[b] = {c \in Node : b \in Succ[c]}
  BY BlocksAre
<1>2. ASSUME NEW s \in ReachesEntry(PathOut, b) PROVE s \in PathIn(b)
  <2>1. PICK p \in Pred[b] : s \in PathOut[p]
    BY DEF ReachesEntry
  <2>2. b \in Succ[p] /\ p \in Block /\ p \in Node
    BY <1>1
  <2>3. CASE s \in LastStores(p)
    <3>1. s \in LastOnes /\ s[1] = p /\ s \in Store
      BY <2>2, <2>3 DEF LastOnes, LastStores
    <3>2. b \in ReachedFrom(s)
      BY <2>2, <3>1, ReachedOnward
    <3>3. QED BY <3>1, <3>2 DEF PathIn
  <2>4. CASE s \in PathIn(p) /\ p \notin Overwriting(At(s).ptr)
    <3>1. s \in LastOnes /\ s \in Store /\ p \in ReachedFrom(s)
      BY <2>4, LastOnesAre DEF PathIn
    <3>2. b \in ReachedFrom(s)
      BY <2>2, <2>4, <3>1, ReachedOnward
    <3>3. QED BY <3>1, <3>2 DEF PathIn
  <2>5. QED BY <2>1, <2>2, <2>3, <2>4 DEF PathOut
<1>3. ASSUME NEW s \in PathIn(b) PROVE s \in ReachesEntry(PathOut, b)
  <2>1. s \in LastOnes /\ s \in Store /\ b \in ReachedFrom(s) /\ s[1] \in Node /\ s \in LastStores(s[1])
    BY LastOnesAre DEF PathIn
  <2>2. CASE b \in Succ[s[1]]
    <3>1. s[1] \in Pred[b] /\ s[1] \in Block
      BY <1>1, <2>1, <2>2
    <3>2. s \in PathOut[s[1]]
      BY <2>1, <3>1 DEF PathOut
    <3>3. QED BY <3>1, <3>2 DEF ReachesEntry
  <2>3. CASE \E p \in ReachedFrom(s) \ Overwriting(At(s).ptr) : b \in Succ[p]
    <3>1. PICK p \in ReachedFrom(s) \ Overwriting(At(s).ptr) : b \in Succ[p]
      BY <2>3
    <3>2. p \in Pred[b] /\ p \in Block
      BY <1>1, <2>1, <3>1, ReachedOnward
    <3>3. s \in PathOut[p]
      BY <2>1, <3>1, <3>2 DEF PathOut, PathIn
    <3>4. QED BY <3>2, <3>3 DEF ReachesEntry
  <2>4. QED BY <2>1, <2>2, <2>3, ReachedBackward
<1>4. QED BY <1>2, <1>3

LEMMA PathsSolve ==
  ASSUME ClosuresAreLeast, func \in DOMAIN LayoutOf
  PROVE  PathOut \in [Block -> SUBSET AnyStore] /\ IsSolution(PathOut)
<1>1. ASSUME NEW b \in Block PROVE PathOut[b] \subseteq AnyStore
  <2> SUFFICES ASSUME NEW s \in PathOut[b] PROVE s \in AnyStore
    OBVIOUS
  <2>1. CASE s \in LastStores(b)
    BY <2>1, BlocksAre DEF LastStores
  <2>2. CASE s \in PathIn(b)
    <3>1. s \in Store /\ b \in ReachedFrom(s)
      BY <2>2, LastOnesAre DEF PathIn
    <3>2. PICK f \in DOMAIN LayoutOf : f = func
      OBVIOUS
    <3>3. s[1] \in Block
      BY <3>1, <3>2, ReachingInside DEF Block
    <3>4. QED BY <3>1, <3>3, BlocksAre
  <2>3. QED BY <2>1, <2>2 DEF PathOut
<1>2. ASSUME NEW b \in Block PROVE PathOut[b] = Transfer(PathOut, b)
  <2>1. b \in Node
    BY BlocksAre
  <2>2. \A s \in PathIn(b) : s \in Store
    BY LastOnesAre DEF PathIn
  <2>3. Killed(PathOut, b) = {s \in PathIn(b) : b \in Overwriting(At(s).ptr)}
    BY <2>1, <2>2, PathOutEntry, BlockStores DEF Killed
  <2>4. Transfer(PathOut, b) = (PathIn(b) \ Killed(PathOut, b)) \cup LastStores(b)
    BY <2>1, PathOutEntry, BlockStores DEF Transfer
  <2>5. PathOut[b] = LastStores(b) \cup {s \in PathIn(b) : b \notin Overwriting(At(s).ptr)}
    BY DEF PathOut
  <2>6. QED BY <2>3, <2>4, <2>5
<1>3. PathOut \in [Block -> SUBSET AnyStore]
  BY <1>1 DEF PathOut
<1>4. QED BY <1>2, <1>3 DEF IsSolution

LEMMA PathsLeast ==
  ASSUME ClosuresAreLeast, func \in DOMAIN LayoutOf, NEW out, IsSolution(out)
  PROVE  \A b \in Block : PathOut[b] \subseteq out[b]
<1>1. /\ Block \subseteq Node
      /\ \A b \in Block : Pred[b] \subseteq Block /\ Pred[b] = {c \in Node : b \in Succ[c]}
  BY BlocksAre
<1>2. ASSUME NEW b \in Block PROVE LastStores(b) \subseteq out[b]
  BY <1>1, BlockStores DEF IsSolution, Transfer
<1>3. ASSUME NEW b \in Block, NEW s \in Store, s \in ReachesEntry(out, b), b \notin Overwriting(At(s).ptr)
      PROVE  s \in out[b]
  BY <1>1, <1>3, BlockStores DEF IsSolution, Transfer, Killed
<1>4. ASSUME NEW s \in LastOnes, NEW b \in Block, b \in ReachedFrom(s) PROVE s \in ReachesEntry(out, b)
  <2> DEFINE H == {c \in Node : c \in Block => s \in ReachesEntry(out, c)}
  <2>1. s \in Store /\ s[1] \in Node /\ s \in LastStores(s[1])
    BY LastOnesAre
  <2>2. \A c \in Node : Succ[c] \subseteq Node
    BY ProgramAssumption DEF GraphOfProgram
  <2>3. ASSUME NEW c \in Block, NEW p \in Node, c \in Succ[p], p \in Block => s \in out[p]
        PROVE  s \in ReachesEntry(out, c)
    <3>1. p \in Pred[c] /\ p \in Block
      BY <1>1, <2>3
    <3>2. QED BY <2>3, <3>1 DEF ReachesEntry
  <2>4. Succ[s[1]] \subseteq H
    BY <1>2, <2>1, <2>2, <2>3
  <2>5. ASSUME NEW c \in H \ Overwriting(At(s).ptr), NEW d \in Succ[c] PROVE d \in H
    <3>1. c \in Block => s \in out[c]
      BY <1>3, <2>1
    <3>2. c \in Node
      OBVIOUS
    <3>3. d \in Node
      BY <2>2, <3>2
    <3>4. QED BY <2>3, <3>1, <3>2, <3>3
  <2>6. H \in SUBSET Node
    OBVIOUS
  <2> HIDE DEF H
  <2>7. ReachedFrom(s) \subseteq H
    BY <2>1, <2>4, <2>5, <2>6, ReachedInside
  <2>8. QED BY <1>4, <2>7 DEF H
<1>5. QED
  <2> SUFFICES ASSUME NEW b \in Block, NEW s \in PathOut[b] PROVE s \in out[b]
    OBVIOUS
  <2>1. CASE s \in LastStores(b)
    BY <1>2, <2>1
  <2>2. CASE s \in PathIn(b) /\ b \notin Overwriting(At(s).ptr)
    <3>1. s \in LastOnes /\ s \in Store /\ b \in ReachedFrom(s)
      BY <2>2, LastOnesAre DEF PathIn
    <3>2. QED BY <1>3, <1>4, <2>2, <3>1
  <2>3. QED BY <2>1, <2>2 DEF PathOut

(* The result of a call whose stores were all erased.                       *)
LEMMA ResultByPaths ==
  ASSUME ClosuresAreLeast, ReachIInv, ~ running, func \in DOMAIN memoizer \ missed
  PROVE  \A b \in Block : memoizer[func][b] = ReachingStores[b]
<1>1. /\ memoizer[func] = [b \in Block |-> ReachesEntry(reachOut, b)]
      /\ IsSolution(reachOut)
      /\ \A out \in [Block -> SUBSET AnyStore] :
           IsSolution(out) => \A b \in Block : reachOut[b] \subseteq out[b]
  BY LeastWhenDone DEF ReachLeast
<1>2. ReachTypeOK /\ func \in DOMAIN LayoutOf
  BY DEF ReachIInv, ReachTypeOK
<1>3. \A b \in Block : reachOut[b] = PathOut[b]
  BY <1>1, <1>2, PathsSolve, PathsLeast
<1>4. ASSUME NEW b \in Block PROVE memoizer[func][b] = ReachingStores[b]
  <2>1. b \in Node /\ Pred[b] \subseteq Block
    BY <1>2, BlocksAre
  <2>2. memoizer[func][b] = ReachesEntry(reachOut, b)
    BY <1>1
  <2>3. ReachesEntry(reachOut, b) = ReachesEntry(PathOut, b)
    BY <1>3, <2>1 DEF ReachesEntry
  <2>4. QED BY <1>2, <2>1, <2>2, <2>3, PathOutEntry, PathInIs
<1>5. QED BY <1>4

ResultFound ==
  ~ running /\ func \in DOMAIN memoizer \ missed =>
    \A b \in Block : memoizer[func][b] = ReachingStores[b]

LEMMA ResultKept ==
  ASSUME ReachByPaths, ResultFound', [ReachNext]_reachVars
  PROVE  ReachByPaths'
<1>1. missed \subseteq missed'
  BY DEF ReachNext, ReachLoop, VisitBlock, NextPass, Memoize, CallReachingStores, reachVars
<1>2. CASE memoizer' = memoizer
  BY <1>1, <1>2 DEF ReachByPaths
<1>3. CASE Memoize
  <2>1. /\ running' = FALSE /\ func' = func /\ missed' = missed
        /\ memoizer' = [f \in DOMAIN memoizer \cup {func} |-> IF f = func THEN reachIn ELSE memoizer[f]]
    BY <1>3 DEF Memoize
  <2>2. ASSUME NEW f \in DOMAIN memoizer' \ missed' PROVE \A b \in BlocksOf(f) : memoizer'[f][b] = ReachingStores[b]
    <3>1. CASE f = func
      BY <2>1, <3>1 DEF ResultFound, Block
    <3>2. CASE f # func
      <4>1. f \in DOMAIN memoizer \ missed /\ memoizer'[f] = memoizer[f]
        BY <2>1, <3>2
      <4>2. QED BY <4>1 DEF ReachByPaths
    <3>3. QED BY <3>1, <3>2
  <2>3. QED BY <2>2 DEF ReachByPaths
<1>4. QED BY <1>2, <1>3 DEF ReachNext, ReachLoop, VisitBlock, NextPass, CallReachingStores, reachVars

(* In every program and for any order of its blocks, the stores that        *)
(* getReachingStores returns are those with a path on which nothing         *)
(* overwrites them, where no killed store was missed.                       *)
THEOREM StoresByPaths == ClosuresAreLeast => (ReachSpec => []ReachByPaths)
<1> SUFFICES ASSUME ClosuresAreLeast PROVE ReachSpec => []ReachByPaths
  OBVIOUS
<1>1. ReachInit => ReachByPaths
  BY DEF ReachInit, ReachByPaths
<1>2. ReachIInv => ResultFound
  BY ResultByPaths DEF ResultFound
<1>3. ReachByPaths /\ ResultFound' /\ [ReachNext]_reachVars => ReachByPaths'
  BY ResultKept
<1>4. QED BY <1>1, <1>2, <1>3, ReachInvariant, PTL DEF ReachSpec

THEOREM QueriesByPaths == ClosuresAreLeast => (Spec => []ReachByPaths)
<1>1. QED BY StoresByPaths, ImplementsComponents, PTL

-----------------------------------------------------------------------------
(* The loop over the permutations asks what Constraints says it does.       *)

(* Of the stores to v above an instruction, the one in the last place is    *)
(* the last one; when there is none, those that reach the block remain.     *)
LEMMA StoresToIs ==
  ASSUME NEW f, NEW a, a[1] \in Node, NEW n, Above(n, a), NEW v,
         memoizer[f][a[1]] = ReachingStores[a[1]]
  PROVE  StoresTo(f, a[1], n, v) = PreviousStores(a, v)
<1> DEFINE list == StoresIn[a[1]]
           own == {i \in 1 .. n : PtrOf[list[i]] = v}
           before == {s \in Store : s[1] = a[1] /\ s[2] < a[2] /\ At(s).ptr = v}
           Highest(i) == \A j \in own : j <= i
           Topmost(s) == \A t \in before : t[2] <= s[2]
<1>1. /\ list \in Seq(Store) /\ \A i, j \in DOMAIN list : i < j => list[i][2] < list[j][2]
      /\ \A s \in Store : PtrOf[s] = At(s).ptr
  BY ProgramAssumption DEF GraphOfProgram
<1>2. n \in 0 .. Len(list) /\ {list[i] : i \in 1 .. n} = {s \in Store : s[1] = a[1] /\ s[2] < a[2]}
  BY DEF Above
<1>3. /\ 1 .. n \subseteq Int
      /\ \A i \in 1 .. n : list[i] \in Store /\ list[i][2] \in Int /\ PtrOf[list[i]] = At(list[i]).ptr
      /\ \A i, j \in 1 .. n : i < j => list[i][2] < list[j][2]
  <2>1. \A i \in 1 .. n : i \in DOMAIN list
    BY <1>1, <1>2
  <2>2. \A i \in 1 .. n : list[i] \in Store
    BY <1>1, <2>1
  <2>3. QED BY <1>1, <2>1, <2>2, StoreIs
<1>4. StoresTo(f, a[1], n, v)
        = IF own # {} THEN {list[i] : i \in {i \in own : Highest(i)}}
          ELSE {s \in memoizer[f][a[1]] : PtrOf[s] = v}
  BY Zenon DEF StoresTo
<1>5. PreviousStores(a, v)
        = IF before # {} THEN {s \in before : Topmost(s)}
          ELSE {s \in ReachingStores[a[1]] : At(s).ptr = v}
  BY DEF PreviousStores
<1>6. {s \in memoizer[f][a[1]] : PtrOf[s] = v} = {s \in ReachingStores[a[1]] : At(s).ptr = v}
  <2>1. \A s \in ReachingStores[a[1]] : s \in Store
    BY PathInIs, LastOnesAre DEF PathIn
  <2>2. QED BY <1>1, <2>1
<1> HIDE DEF list
<1>7. before = {list[i] : i \in own}
  BY <1>2, <1>3
<1> HIDE DEF before
<1>8. {list[i] : i \in {i \in own : Highest(i)}} = {s \in before : Topmost(s)}
  <2>1. ASSUME NEW i \in own
        PROVE  (\A j \in own : j <= i) <=> \A j \in own : list[j][2] <= list[i][2]
    <3>1. ASSUME NEW j \in own PROVE j <= i <=> list[j][2] <= list[i][2]
      <4>1. i \in Int /\ j \in Int /\ list[i][2] \in Int /\ list[j][2] \in Int
        BY <1>3
      <4>2. (i < j => list[i][2] < list[j][2]) /\ (j < i => list[j][2] < list[i][2])
        BY <1>3
      <4>3. CASE i < j
        BY <4>1, <4>2, <4>3
      <4>4. CASE j < i
        BY <4>1, <4>2, <4>4
      <4>5. CASE i = j
        BY <4>1, <4>5
      <4>6. QED BY <4>1, <4>3, <4>4, <4>5
    <3>2. QED BY <3>1
  <2>2. \A i \in own : (\A t \in before : t[2] <= list[i][2]) <=> \A j \in own : list[j][2] <= list[i][2]
    BY <1>7
  <2>3. \A i \in own : Highest(i) <=> Topmost(list[i])
    BY <2>1, <2>2
  <2> HIDE DEF own, Highest, Topmost
  <2>4. QED BY <1>7, <2>3
<1> HIDE DEF own, Highest, Topmost
<1>9. own = {} <=> before = {}
  BY <1>7
<1>10. CASE own = {}
  BY <1>4, <1>5, <1>6, <1>9, <1>10, Zenon
<1>11. CASE own # {}
  BY <1>4, <1>5, <1>8, <1>9, <1>11, Zenon
<1>12. QED BY <1>10, <1>11

(* What the loop over the loads of the thread knows of each.                *)
LEMMA LoadsAre ==
  ASSUME InThread, CpTypeOK
  PROVE  /\ DOMAIN InterfLoad = Row
         /\ {InterfLoad[i].at : i \in Row} = InterfLoads(thread)
         /\ \A i \in Row :
              /\ InterfLoad[i].at \in Load /\ InterfLoad[i].at[1] \in Node
              /\ FuncOf(InterfLoad[i].at) = thread
              /\ InterfLoad[i].ptr = At(InterfLoad[i].at).ptr
              /\ {InterfLoad[i].stores[n] : n \in DOMAIN InterfLoad[i].stores} = Interfs(InterfLoad[i].at)
              /\ DOMAIN InterfLoad[i].stores = 1 .. Len(InterfLoad[i].stores)
              /\ Len(InterfLoad[i].stores) \in Nat
              /\ sizes[i] = Len(InterfLoad[i].stores) + 1
              /\ \A j \in Row : InterfLoad[i].at = InterfLoad[j].at => i = j
<1>1. /\ sizes = [j \in DOMAIN InterfLoad |-> Len(InterfLoad[j].stores) + 1]
      /\ thread \in ThreadFunc
  BY DEF InThread, ChoicesPerLoad, InterfLoad
<1>2. DOMAIN sizes = DOMAIN InterfLoad /\ DOMAIN sizes = Row
  BY <1>1, SizesAssumption DEF CpTypeOK, Row
<1>3. /\ {InterfLoad[i].at : i \in Row} = InterfLoads(thread)
      /\ \A i \in Row :
           /\ InterfLoad[i].ptr = At(InterfLoad[i].at).ptr
           /\ {InterfLoad[i].stores[n] : n \in DOMAIN InterfLoad[i].stores} = Interfs(InterfLoad[i].at)
  BY <1>1, <1>2, ProgramAssumption DEF QueriesOfProgram, InterfLoad
<1>4. ASSUME NEW i \in Row
      PROVE  /\ InterfLoad[i].at \in Load /\ InterfLoad[i].at[1] \in Node
             /\ FuncOf(InterfLoad[i].at) = thread
  <2>1. InterfLoad[i].at \in InterfLoads(thread)
    BY <1>3
  <2>2. PICK q \in InterferingStores : FuncOf(q[1]) = thread /\ InterfLoad[i].at = q[1]
    BY <2>1 DEF InterfLoads
  <2>3. q[1] \in Load
    BY DEF InterferingStores, List
  <2>4. q[1][1] \in Node
    BY <2>3 DEF Load, Instr, List
  <2>5. QED BY <2>2, <2>3, <2>4
<1>5. ASSUME NEW i \in Row
      PROVE  /\ DOMAIN InterfLoad[i].stores = 1 .. Len(InterfLoad[i].stores)
             /\ Len(InterfLoad[i].stores) \in Nat
  <2>1. InterfLoad[i].stores \in Seq(Value)
    BY <1>1, <1>2, InterfsAssumption DEF InterfLoad
  <2>2. QED BY <2>1
<1>6. \A i, j \in Row : InterfLoad[i].at = InterfLoad[j].at => i = j
  BY <1>1, <1>2, InterfsAssumption DEF InterfLoad
<1>7. \A i \in Row : sizes[i] = Len(InterfLoad[i].stores) + 1
  BY <1>1, <1>2
<1>8. QED BY <1>2, <1>3, <1>4, <1>5, <1>6, <1>7

(* A permutation of the enumerator, and the choices it stands for.          *)
Choices == {q \in Perms(thread) : \A l \in DOMAIN q : q[l] \in ChoicesOf(l)}

Matches(p, q) ==
  \A i \in Row : q[InterfLoad[i].at] = IF p[i] = 0 THEN Own ELSE InterfLoad[i].stores[p[i]]

LEMMA OwnIsNoStore ==
  ASSUME NEW s \in Store
  PROVE  s # Own
BY DEF Store, Instr, List, Own

LEMMA ChoicesAre ==
  ASSUME NEW q
  PROVE  q \in Choices <=> q = [l \in InterfLoads(thread) |-> q[l]] /\ \A l \in InterfLoads(thread) : q[l] \in ChoicesOf(l)
<1> DEFINE Some == UNION {ChoicesOf(l) : l \in InterfLoads(thread)}
           Each == \A l \in InterfLoads(thread) : q[l] \in ChoicesOf(l)
           Fun == q = [l \in InterfLoads(thread) |-> q[l]]
<1>1. Fun => DOMAIN q = InterfLoads(thread)
  OBVIOUS
<1>2. q \in Choices <=> q \in [InterfLoads(thread) -> Some] /\ \A l \in DOMAIN q : q[l] \in ChoicesOf(l)
  BY DEF Choices, Perms
<1>3. Each => \A l \in InterfLoads(thread) : q[l] \in Some
  OBVIOUS
<1> HIDE DEF Some
<1>4. q \in [InterfLoads(thread) -> Some] => Fun /\ DOMAIN q = InterfLoads(thread)
  OBVIOUS
<1>5. Fun /\ (\A l \in InterfLoads(thread) : q[l] \in Some) => q \in [InterfLoads(thread) -> Some]
  OBVIOUS
<1>6. QED BY <1>1, <1>2, <1>3, <1>4, <1>5

LEMMA PermutationChosen ==
  ASSUME InThread, CpTypeOK, NEW p \in AllPermutations
  PROVE  \E q \in Choices : Matches(p, q)
<1> DEFINE rowOf(l) == CHOOSE i \in Row : InterfLoad[i].at = l
           q == [l \in InterfLoads(thread) |->
                   IF p[rowOf(l)] = 0 THEN Own ELSE InterfLoad[rowOf(l)].stores[p[rowOf(l)]]]
<1>1. ASSUME NEW l \in InterfLoads(thread) PROVE rowOf(l) \in Row /\ InterfLoad[rowOf(l)].at = l
  <2>1. \E i \in Row : InterfLoad[i].at = l
    BY LoadsAre
  <2>2. QED BY <2>1
<1>2. ASSUME NEW i \in Row
      PROVE  InterfLoad[i].at \in InterfLoads(thread) /\ rowOf(InterfLoad[i].at) = i
  <2>1. InterfLoad[i].at \in InterfLoads(thread)
    BY LoadsAre
  <2>2. rowOf(InterfLoad[i].at) \in Row /\ InterfLoad[rowOf(InterfLoad[i].at)].at = InterfLoad[i].at
    BY <1>1, <2>1
  <2> HIDE DEF rowOf
  <2>3. QED BY <2>1, <2>2, LoadsAre
<1> HIDE DEF rowOf
<1>3. ASSUME NEW l \in InterfLoads(thread) PROVE q[l] \in ChoicesOf(l)
  <2>1. PICK i \in Row : rowOf(l) = i
    BY <1>1
  <2>2. InterfLoad[i].at = l
    BY <1>1, <2>1
  <2>3. q[l] = IF p[i] = 0 THEN Own ELSE InterfLoad[i].stores[p[i]]
    BY <2>1
  <2>4. p[i] # 0 => InterfLoad[i].stores[p[i]] \in Interfs(l)
    BY <2>2, ChoiceInRange, LoadsAre
  <2> HIDE DEF q
  <2>5. QED BY <2>3, <2>4 DEF ChoicesOf
<1>4. Matches(p, q)
  <2> SUFFICES ASSUME NEW i \in Row
               PROVE  q[InterfLoad[i].at] = IF p[i] = 0 THEN Own ELSE InterfLoad[i].stores[p[i]]
    BY DEF Matches
  <2>1. QED BY <1>2
<1>5. q = [l \in InterfLoads(thread) |-> q[l]]
  OBVIOUS
<1> HIDE DEF q
<1>6. q \in Choices
  BY <1>3, <1>5, ChoicesAre
<1>7. QED BY <1>4, <1>6

LEMMA ChoicePermuted ==
  ASSUME InThread, CpTypeOK, NEW q \in Choices
  PROVE  \E p \in AllPermutations : Matches(p, q)
<1> DEFINE place(i) == CHOOSE n \in DOMAIN InterfLoad[i].stores : InterfLoad[i].stores[n] = q[InterfLoad[i].at]
           p == [i \in Row |-> IF q[InterfLoad[i].at] = Own THEN 0 ELSE place(i)]
<1>1. ASSUME NEW i \in Row, q[InterfLoad[i].at] # Own
      PROVE  /\ place(i) \in 1 .. Len(InterfLoad[i].stores)
             /\ InterfLoad[i].stores[place(i)] = q[InterfLoad[i].at]
  <2>1. InterfLoad[i].at \in InterfLoads(thread)
    BY LoadsAre
  <2>2. q[InterfLoad[i].at] \in Interfs(InterfLoad[i].at)
    BY <1>1, <2>1, ChoicesAre DEF ChoicesOf
  <2>3. \E n \in DOMAIN InterfLoad[i].stores : InterfLoad[i].stores[n] = q[InterfLoad[i].at]
    <3>1. {InterfLoad[i].stores[n] : n \in DOMAIN InterfLoad[i].stores} = Interfs(InterfLoad[i].at)
      BY LoadsAre
    <3>2. QED BY <2>2, <3>1
  <2>4. /\ place(i) \in DOMAIN InterfLoad[i].stores
        /\ InterfLoad[i].stores[place(i)] = q[InterfLoad[i].at]
    BY <2>3
  <2> HIDE DEF place
  <2>5. QED BY <2>4, LoadsAre
<1> HIDE DEF place
<1>2. ASSUME NEW i \in Row PROVE p[i] \in Nat /\ p[i] < sizes[i]
  <2>1. sizes[i] = Len(InterfLoad[i].stores) + 1 /\ Len(InterfLoad[i].stores) \in Nat
    BY LoadsAre
  <2>2. CASE q[InterfLoad[i].at] = Own
    BY <2>1, <2>2
  <2>3. CASE q[InterfLoad[i].at] # Own
    BY <1>1, <2>1, <2>3
  <2>4. QED BY <2>2, <2>3
<1>3. Matches(p, q)
  <2> SUFFICES ASSUME NEW i \in Row
               PROVE  q[InterfLoad[i].at] = IF p[i] = 0 THEN Own ELSE InterfLoad[i].stores[p[i]]
    BY DEF Matches
  <2>1. CASE q[InterfLoad[i].at] = Own
    BY <2>1
  <2>2. CASE q[InterfLoad[i].at] # Own
    <3>1. p[i] = place(i)
      BY <2>2
    <3>2. p[i] # 0 /\ InterfLoad[i].stores[p[i]] = q[InterfLoad[i].at]
      BY <1>1, <2>2, <3>1
    <3> HIDE DEF p
    <3>3. QED BY <3>2
  <2>3. QED BY <2>1, <2>2
<1>4. p = [i \in Row |-> p[i]]
  OBVIOUS
<1> HIDE DEF p
<1>5. p \in AllPermutations
  BY <1>2, <1>4, PermutationRows
<1>6. QED BY <1>3, <1>5

-----------------------------------------------------------------------------
LEMMA SameReads ==
  ASSUME InThread, CpTypeOK, NEW p \in AllPermutations, NEW q \in Choices, Matches(p, q)
  PROVE  InterfReads(p) = InterfRF(q)
<1>1. \A i \in Row : q[InterfLoad[i].at] = IF p[i] = 0 THEN Own ELSE InterfLoad[i].stores[p[i]]
  BY DEF Matches
<1>2. \A i \in Row : p[i] # 0 => InterfLoad[i].stores[p[i]] # Own
  <2> SUFFICES ASSUME NEW i \in Row, p[i] # 0 PROVE InterfLoad[i].stores[p[i]] # Own
    OBVIOUS
  <2>1. p[i] \in DOMAIN InterfLoad[i].stores
    BY ChoiceInRange
  <2>2. {InterfLoad[i].stores[n] : n \in DOMAIN InterfLoad[i].stores} = Interfs(InterfLoad[i].at)
    BY LoadsAre
  <2>3. InterfLoad[i].stores[p[i]] \in Store
    BY <2>1, <2>2 DEF Interfs
  <2>4. QED BY <2>3, OwnIsNoStore
<1>3. InterfReads(p) = {<<InterfLoad[i].at, InterfLoad[i].stores[p[i]]>> : i \in {i \in Row : p[i] # 0}}
  BY DEF InterfReads, Chosen
<1>4. DOMAIN q = InterfLoads(thread)
  BY ChoicesAre
<1>5. {InterfLoad[i].at : i \in Row} = DOMAIN q
  BY <1>4, LoadsAre
<1>6. ASSUME NEW r \in InterfReads(p) PROVE r \in InterfRF(q)
  <2>1. PICK i \in Row : p[i] # 0 /\ r = <<InterfLoad[i].at, InterfLoad[i].stores[p[i]]>>
    BY <1>3
  <2>2. /\ InterfLoad[i].at \in DOMAIN q /\ q[InterfLoad[i].at] = InterfLoad[i].stores[p[i]]
        /\ q[InterfLoad[i].at] # Own
    BY <1>1, <1>2, <1>5, <2>1
  <2>3. QED BY <2>1, <2>2 DEF InterfRF
<1>7. ASSUME NEW r \in InterfRF(q) PROVE r \in InterfReads(p)
  <2>1. PICK l \in DOMAIN q : q[l] # Own /\ r = <<l, q[l]>>
    BY DEF InterfRF
  <2>2. PICK i \in Row : l = InterfLoad[i].at
    BY <1>5
  <2>3. p[i] # 0 /\ q[l] = InterfLoad[i].stores[p[i]]
    BY <1>1, <2>1, <2>2
  <2>4. QED BY <1>3, <2>1, <2>2, <2>3
<1>8. QED BY <1>6, <1>7

(* The results that the loop over the permutations looks at are the stores  *)
(* with a path.                                                             *)
Found == \A f \in Searched : f \in DOMAIN LayoutOf /\ \A b \in BlocksOf(f) : memoizer[f][b] = ReachingStores[b]

(* The function in which the thread is created is looked at, too. *)
LEMMA CreatorIs ==
  ASSUME thread \in ThreadFunc, Found
  PROVE  \/ CreateSiteOf(thread) = {} /\ CreatorOf[thread] = <<>>
         \/ \E ci \in CreateSiteOf(thread) :
              /\ CreateSiteOf(thread) = {ci} /\ CreatorOf[thread] # <<>>
              /\ ci[1] \in Node /\ CreatorOf[thread][2] = ci[1] /\ Above(CreatorOf[thread][3], ci)
              /\ CreatorOf[thread][1] = FuncOf(ci)
              /\ memoizer[CreatorOf[thread][1]][ci[1]] = ReachingStores[ci[1]]
<1>1. CASE CreateSiteOf(thread) = {} /\ CreatorOf[thread] = <<>>
  BY <1>1
<1>2. CASE \E ci \in CreateSiteOf(thread) :
              /\ CreateSiteOf(thread) = {ci}
              /\ Len(CreatorOf[thread]) = 3
              /\ CreatorOf[thread][1] = FuncOf(ci) /\ CreatorOf[thread][2] = ci[1]
              /\ Above(CreatorOf[thread][3], ci)
  <2>1. PICK ci \in CreateSiteOf(thread) :
              /\ CreateSiteOf(thread) = {ci}
              /\ Len(CreatorOf[thread]) = 3
              /\ CreatorOf[thread][1] = FuncOf(ci) /\ CreatorOf[thread][2] = ci[1]
              /\ Above(CreatorOf[thread][3], ci)
    BY <1>2
  <2>2. CreatorOf[thread] # <<>>
    BY <2>1
  <2>3. ci[1] \in Node
    BY DEF CreateSiteOf, CreateCall, Instr, List
  <2>4. FuncOf(ci) \in Searched
    BY <2>1, <2>2 DEF Searched
  <2>5. ci[1] \in BlocksOf(FuncOf(ci))
    BY <2>3, <2>4, ProgramAssumption DEF Found, QueriesOfProgram, FuncOf
  <2>6. QED BY <2>1, <2>2, <2>3, <2>4, <2>5 DEF Found
<1>3. QED BY <1>1, <1>2, ProgramAssumption DEF QueriesOfProgram

LEMMA OwnStoresAre ==
  ASSUME InThread, CpTypeOK, Found, NEW i \in Row
  PROVE  OwnStores(InterfLoad[i]) = PreviousStoresWithCreate(InterfLoad[i].at)
<1>1. PICK l : l = InterfLoad[i].at
  OBVIOUS
<1>2. PICK v : v = At(l).ptr
  OBVIOUS
<1>3. thread \in ThreadFunc
  BY DEF InThread
<1>4. l \in Load /\ l[1] \in Node /\ FuncOf(l) = thread /\ InterfLoad[i].ptr = v
  BY <1>1, <1>2, LoadsAre
<1>5. BlockOf[l] = l[1] /\ Above(StoresAbove[l], l)
  BY <1>4, ProgramAssumption DEF QueriesOfProgram
<1>6. memoizer[thread][l[1]] = ReachingStores[l[1]]
  <2>1. thread \in Searched
    BY DEF Searched
  <2>2. l[1] \in BlocksOf(thread)
    BY <1>4, <2>1, ProgramAssumption DEF Found, QueriesOfProgram, FuncOf
  <2>3. QED BY <2>1, <2>2 DEF Found
<1>7. StoresTo(thread, BlockOf[l], StoresAbove[l], v) = PreviousStores(l, v)
  <2>1. PICK f : f = thread
    OBVIOUS
  <2>2. QED BY <1>4, <1>5, <1>6, <2>1, StoresToIs
<1>8. OwnStores(InterfLoad[i])
        = IF PreviousStores(l, v) # {} \/ CreatorOf[thread] = <<>> THEN PreviousStores(l, v)
          ELSE StoresTo(CreatorOf[thread][1], CreatorOf[thread][2], CreatorOf[thread][3], v)
  BY <1>1, <1>4, <1>7 DEF OwnStores
<1>9. PreviousStoresWithCreate(l)
        = IF PreviousStores(l, v) # {} THEN PreviousStores(l, v)
          ELSE UNION {PreviousStores(ci, v) : ci \in CreateSiteOf(thread)}
  <2> DEFINE P == PreviousStores(l, v)
             F(own) == IF own # {} THEN own
                       ELSE UNION {PreviousStores(ci, v) : ci \in CreateSiteOf(thread)}
  <2>1. PreviousStoresWithCreate(l) = UNION {F(own) : own \in {P}}
    <3>1. PreviousStoresWithCreate(l)
            = UNION {IF own # {} THEN own
                     ELSE UNION {PreviousStores(ci, At(l).ptr) : ci \in CreateSiteOf(FuncOf(l))}
                     : own \in {PreviousStores(l, At(l).ptr)}}
      BY Zenon DEF PreviousStoresWithCreate
    <3>2. FuncOf(l) = thread /\ At(l).ptr = v
      BY <1>2, <1>4
    <3>3. QED BY <3>1, <3>2
  <2> HIDE DEF P, F
  <2>2. UNION {F(own) : own \in {P}} = F(P)
    OBVIOUS
  <2>3. QED BY <2>1, <2>2 DEF P, F
<1>10. CASE CreateSiteOf(thread) = {} /\ CreatorOf[thread] = <<>>
  BY <1>1, <1>8, <1>9, <1>10
<1>11. CASE \E ci \in CreateSiteOf(thread) :
              /\ CreateSiteOf(thread) = {ci} /\ CreatorOf[thread] # <<>>
              /\ ci[1] \in Node /\ CreatorOf[thread][2] = ci[1] /\ Above(CreatorOf[thread][3], ci)
              /\ CreatorOf[thread][1] = FuncOf(ci)
              /\ memoizer[CreatorOf[thread][1]][ci[1]] = ReachingStores[ci[1]]
  <2>1. PICK ci \in CreateSiteOf(thread) :
              /\ CreateSiteOf(thread) = {ci} /\ CreatorOf[thread] # <<>>
              /\ ci[1] \in Node /\ CreatorOf[thread][2] = ci[1] /\ Above(CreatorOf[thread][3], ci)
              /\ CreatorOf[thread][1] = FuncOf(ci)
              /\ memoizer[CreatorOf[thread][1]][ci[1]] = ReachingStores[ci[1]]
    BY <1>11
  <2>2. PICK f, n : f = CreatorOf[thread][1] /\ n = CreatorOf[thread][3]
    OBVIOUS
  <2>3. StoresTo(f, ci[1], n, v) = PreviousStores(ci, v)
    BY <2>1, <2>2, StoresToIs
  <2>4. UNION {PreviousStores(c, v) : c \in CreateSiteOf(thread)} = PreviousStores(ci, v)
    BY <2>1
  <2>5. QED BY <1>1, <1>8, <1>9, <2>1, <2>2, <2>3, <2>4
<1>12. QED BY <1>3, <1>10, <1>11, CreatorIs

LEMMA SameSelfReads ==
  ASSUME InThread, CpTypeOK, Found, NEW p \in AllPermutations, NEW q \in Choices, Matches(p, q)
  PROVE  SelfReads(p) = SelfRF(q)
<1> DEFINE One(S) == {s \in S : Cardinality(S) = 1}
<1>1. \A l \in Load : OnlyStore[l] = One(PreviousStoresWithCreate(l))
  <2>1. OnlyStore = [l \in Load |-> UNION {S \in {PreviousStoresWithCreate(l)} : Cardinality(S) = 1}]
    BY Zenon DEF OnlyStore, Table
  <2> SUFFICES ASSUME NEW l \in Load PROVE OnlyStore[l] = One(PreviousStoresWithCreate(l))
    OBVIOUS
  <2>2. PICK P : P = PreviousStoresWithCreate(l)
    OBVIOUS
  <2>3. OnlyStore[l] = UNION {S \in {P} : Cardinality(S) = 1}
    BY <2>1, <2>2
  <2>4. QED BY <2>2, <2>3
<1>2. \A i \in Row : /\ {s \in OwnStores(InterfLoad[i]) : Cardinality(OwnStores(InterfLoad[i])) = 1}
                          = OnlyStore[InterfLoad[i].at]
                     /\ (p[i] = 0 <=> q[InterfLoad[i].at] = Own)
  <2> SUFFICES ASSUME NEW i \in Row
               PROVE  /\ {s \in OwnStores(InterfLoad[i]) : Cardinality(OwnStores(InterfLoad[i])) = 1}
                           = OnlyStore[InterfLoad[i].at]
                      /\ (p[i] = 0 <=> q[InterfLoad[i].at] = Own)
    OBVIOUS
  <2>1. InterfLoad[i].at \in Load
    BY LoadsAre
  <2>2. OwnStores(InterfLoad[i]) = PreviousStoresWithCreate(InterfLoad[i].at)
    BY OwnStoresAre
  <2>3. p[i] # 0 => InterfLoad[i].stores[p[i]] # Own
    <3> SUFFICES ASSUME p[i] # 0 PROVE InterfLoad[i].stores[p[i]] # Own
      OBVIOUS
    <3>1. p[i] \in DOMAIN InterfLoad[i].stores
      BY ChoiceInRange
    <3>2. {InterfLoad[i].stores[n] : n \in DOMAIN InterfLoad[i].stores} = Interfs(InterfLoad[i].at)
      BY LoadsAre
    <3>3. InterfLoad[i].stores[p[i]] \in Store
      BY <3>1, <3>2 DEF Interfs
    <3>4. QED BY <3>3, OwnIsNoStore
  <2>4. q[InterfLoad[i].at] = IF p[i] = 0 THEN Own ELSE InterfLoad[i].stores[p[i]]
    BY DEF Matches
  <2>5. p[i] = 0 <=> q[InterfLoad[i].at] = Own
    BY <2>3, <2>4
  <2>6. {s \in OwnStores(InterfLoad[i]) : Cardinality(OwnStores(InterfLoad[i])) = 1}
          = OnlyStore[InterfLoad[i].at]
    BY <1>1, <2>1, <2>2
  <2>7. QED BY <2>5, <2>6
<1>3. {InterfLoad[i].at : i \in Row} = DOMAIN q
  <2>1. DOMAIN q = InterfLoads(thread)
    BY ChoicesAre
  <2>2. QED BY <2>1, LoadsAre
<1>4. SelfReads(p) = UNION {{InterfLoad[i].at} \X OnlyStore[InterfLoad[i].at] : i \in {i \in Row : p[i] = 0}}
  <2>1. \A i \in Row : {InterfLoad[i].at} \X {s \in OwnStores(InterfLoad[i]) : Cardinality(OwnStores(InterfLoad[i])) = 1}
                         = {InterfLoad[i].at} \X OnlyStore[InterfLoad[i].at]
    BY <1>2
  <2>2. QED BY <2>1 DEF SelfReads
<1>5. SelfRF(q) = UNION {{l} \X OnlyStore[l] : l \in {l \in DOMAIN q : q[l] = Own}}
  BY DEF SelfRF
<1>6. {InterfLoad[i].at : i \in {i \in Row : p[i] = 0}} = {l \in DOMAIN q : q[l] = Own}
  BY <1>2, <1>3
<1>7. QED BY <1>4, <1>5, <1>6

-----------------------------------------------------------------------------
(* The answers a permutation is asked about with do not change later: the   *)
(* searches it needs have returned, and their results stay.                 *)
Facts(p) == BVPairs(ReadsFromFacts(p))

ToldInv ==
  /\ asked # {} => Searched \subseteq DOMAIN memoizer
  /\ running => func \in Searched \ DOMAIN memoizer
  /\ \A a \in asked : a.facts = Facts(a.perm)

LEMMA SameFacts ==
  ASSUME UNCHANGED <<thread, sizes, valueCache, memoizer>>
  PROVE  \A p : Facts(p)' = Facts(p)
<1>1. \A p : InterfReads(p)' = InterfReads(p)
  BY DEF InterfReads, InterfLoad, Row
<1>2. \A load : OwnStores(load)' = OwnStores(load)
  BY DEF OwnStores, StoresTo
<1>3. \A p : SelfReads(p)' = SelfReads(p)
  BY <1>2 DEF SelfReads, InterfLoad, Row
<1>4. \A v : BVOf(v)' = BVOf(v)
  BY DEF BVOf
<1>5. \A p : ReadsFromFacts(p)' = ReadsFromFacts(p)
  BY <1>1, <1>3 DEF ReadsFromFacts
<1>6. QED BY <1>4, <1>5 DEF Facts, BVPairs

LEMMA ToldKept == QueryInv /\ ToldInv /\ [Next]_vars => ToldInv'
<1> SUFFICES ASSUME QueryInv, ToldInv, [Next]_vars PROVE ToldInv'
  OBVIOUS
<1>1. thread' = thread /\ sizes' = sizes /\ Searched' = Searched
  BY ThreadKept DEF QueryInv, InThread, Searched
<1>2. ASSUME UNCHANGED <<valueCache, memoizer, asked>>, running' => running /\ func' = func
      PROVE  ToldInv'
  <2>1. \A p : Facts(p)' = Facts(p)
    BY <1>1, <1>2, SameFacts
  <2>2. QED BY <1>1, <1>2, <2>1 DEF ToldInv
<1>3. CASE AddFacts
  <2>1. ~ AllAdded
    <3>1. added \in Nat /\ Len(FactsOf[thread]) \in Nat
      BY FactsAssumption DEF QueryInv, InThread
    <3>2. QED BY <1>3, <3>1 DEF AddFacts, AllAdded
  <2>2. asked = {} /\ ~ running /\ asked' = asked /\ running' = running
    BY <1>3, <2>1 DEF QueryInv, AddFacts, reachVars
  <2>3. QED BY <2>2 DEF ToldInv
<1>4. CASE FindReachingStores
  <2>1. asked = {} /\ asked' = {}
    <3>1. asked' = asked
      BY <1>4 DEF FindReachingStores, queryVars
    <3>2. CASE ReachLoop
      <4>1. running
        BY <3>2 DEF ReachLoop, VisitBlock, NextPass, Memoize
      <4>2. QED BY <3>1, <4>1 DEF ToldInv
    <3>3. CASE \E f \in Searched : CallReachingStores(f)
      BY <3>1, <3>3 DEF ToldInv, CallReachingStores
    <3>4. QED BY <1>4, <3>2, <3>3 DEF FindReachingStores
  <2>2. running' => func' \in Searched \ DOMAIN memoizer'
    <3>1. CASE ReachLoop
      BY <3>1 DEF ToldInv, ReachLoop, VisitBlock, NextPass, Memoize
    <3>2. CASE \E f \in Searched : CallReachingStores(f)
      BY <3>2 DEF CallReachingStores
    <3>3. QED BY <1>4, <3>1, <3>2 DEF FindReachingStores
  <2>3. QED BY <1>1, <2>1, <2>2 DEF ToldInv
<1>5. CASE TestCurPerm
  <2> DEFINE a == [perm |-> permutation, facts |-> BVPairs(ReadsFromFacts(permutation)),
                   queries |-> BVPairs(InterfReads(permutation))]
  <2>1. /\ Searched \subseteq DOMAIN memoizer /\ asked' = asked \cup {a}
        /\ valueCache' = valueCache /\ memoizer' = memoizer /\ running' = running /\ func' = func
    BY <1>5 DEF TestCurPerm, reachVars, idVars
  <2>2. \A p : Facts(p)' = Facts(p)
    BY <1>1, <2>1, SameFacts
  <2>3. a.perm = permutation /\ a.facts = Facts(permutation)
    BY DEF Facts
  <2> HIDE DEF a
  <2>4. \A b \in asked' : b.facts = Facts(b.perm)
    BY <2>1, <2>3 DEF ToldInv
  <2>5. QED BY <1>1, <2>1, <2>2, <2>4 DEF ToldInv
<1>6. CASE Report
  <2>1. UNCHANGED <<valueCache, memoizer, asked, running, func>>
    BY <1>6 DEF Report, ValueCacheToMetadata, reachVars, queryVars
  <2>2. QED BY <1>2, <2>1
<1>7. CASE UNCHANGED vars
  <2>1. UNCHANGED <<valueCache, memoizer, asked, running, func>>
    BY <1>7 DEF vars, reachVars, idVars, queryVars
  <2>2. QED BY <1>2, <2>1
<1>8. QED BY <1>3, <1>4, <1>5, <1>6, <1>7 DEF Next

Known == (DOMAIN valueCache) \X (DOMAIN valueCache)

(* Values with identifiers can be told from their bit vectors.              *)
LEMMA MeantIs ==
  ASSUME Apart, NEW R \in SUBSET Known
  PROVE  Meant(BVPairs(R)) = R
<1>1. ASSUME NEW v \in DOMAIN valueCache PROVE ValueOf(BVOf(v)) = v
  BY DEF Apart, ValueOf
<1>2. BVPairs(R) = {<<BVOf(r[1]), BVOf(r[2])>> : r \in R}
  BY DEF BVPairs
<1>3. Meant(BVPairs(R)) = {<<ValueOf(BVOf(r[1])), ValueOf(BVOf(r[2]))>> : r \in R}
  <2> DEFINE B(r) == <<BVOf(r[1]), BVOf(r[2])>>
             V(q) == <<ValueOf(q[1]), ValueOf(q[2])>>
  <2>1. \A r : V(B(r)) = <<ValueOf(BVOf(r[1])), ValueOf(BVOf(r[2]))>>
    OBVIOUS
  <2>2. Meant(BVPairs(R)) = {V(q) : q \in {B(r) : r \in R}}
    BY <1>2 DEF Meant
  <2> HIDE DEF B, V
  <2>3. {V(q) : q \in {B(r) : r \in R}} = {V(B(r)) : r \in R}
    OBVIOUS
  <2>4. QED BY <2>1, <2>2, <2>3
<1>4. \A r \in R : <<ValueOf(BVOf(r[1])), ValueOf(BVOf(r[2]))>> = r
  BY <1>1 DEF Known
<1>5. QED BY <1>3, <1>4

(* The stores a load may read from its own thread have identifiers, too.    *)
LEMMA OwnHaveIds ==
  ASSUME ClosuresAreLeast, InThread, CpTypeOK, Found, AllAdded, HaveIds(added), NEW i \in Row
  PROVE  OwnStores(InterfLoad[i]) \subseteq DOMAIN valueCache
<1>1. thread \in ThreadFunc
  BY DEF InThread
<1>2. ASSUME NEW s \in Store, FuncOf(s) \in Searched PROVE s \in DOMAIN valueCache
  <2>1. PICK k \in DOMAIN FactsOf[thread] : s \in {FactsOf[thread][k][1], FactsOf[thread][k][2]}
    <3>1. FuncOf(s) = thread \/ (CreatorOf[thread] # <<>> /\ FuncOf(s) = CreatorOf[thread][1])
      BY <1>2 DEF Searched
    <3>2. QED BY <1>1, <3>1, ProgramAssumption DEF QueriesOfProgram
  <2>2. DOMAIN FactsOf[thread] = 1 .. added
    BY <1>1, FactsAssumption DEF AllAdded
  <2>3. QED BY <2>1, <2>2 DEF HaveIds
<1>3. ASSUME NEW a, a[1] \in Node, FuncOf(a) \in Searched, NEW v, NEW s \in PreviousStores(a, v)
      PROVE  s \in DOMAIN valueCache
  <2>1. CASE s \in Store /\ s[1] = a[1]
    BY <1>2, <1>3, <2>1 DEF FuncOf
  <2>2. CASE s \in ReachingStores[a[1]]
    <3>1. PICK f \in DOMAIN LayoutOf : f = FuncOf(a)
      BY <1>3 DEF Found
    <3>2. a[1] \in BlocksOf(f)
      BY <1>3, <3>1, ProgramAssumption DEF QueriesOfProgram, FuncOf
    <3>3. s \in Store /\ a[1] \in ReachedFrom(s)
      BY <1>3, <2>2, PathInIs, LastOnesAre DEF PathIn
    <3>4. s[1] \in BlocksOf(f)
      BY <3>2, <3>3, ReachingInside
    <3>5. FuncOf(s) = FuncOf(a)
      BY <3>1, <3>4, ProgramAssumption DEF QueriesOfProgram, FuncOf
    <3>6. QED BY <1>2, <1>3, <3>3, <3>5
  <2>3. QED BY <1>3, <2>1, <2>2 DEF PreviousStores
<1>4. PICK l, v : l = InterfLoad[i].at /\ v = At(InterfLoad[i].at).ptr
  OBVIOUS
<1>5. l[1] \in Node /\ FuncOf(l) = thread /\ v = At(l).ptr
  BY <1>4, LoadsAre
<1>6. PreviousStoresWithCreate(l)
        \subseteq PreviousStores(l, v) \cup UNION {PreviousStores(ci, v) : ci \in CreateSiteOf(thread)}
  BY <1>5 DEF PreviousStoresWithCreate
<1>7. PreviousStores(l, v) \subseteq DOMAIN valueCache
  BY <1>3, <1>5 DEF Searched
<1>8. ASSUME NEW ci \in CreateSiteOf(thread) PROVE PreviousStores(ci, v) \subseteq DOMAIN valueCache
  <2>1. ci[1] \in Node /\ FuncOf(ci) \in Searched
    BY <1>1, CreatorIs DEF Searched
  <2>2. QED BY <1>3, <2>1
<1>9. OwnStores(InterfLoad[i]) = PreviousStoresWithCreate(l)
  BY <1>4, OwnStoresAre
<1>10. QED BY <1>6, <1>7, <1>8, <1>9

LEMMA ReadsHaveIds ==
  ASSUME ClosuresAreLeast, InThread, CpTypeOK, Found, AllAdded, HaveIds(added),
         NEW p \in AllPermutations
  PROVE  /\ InterfReads(p) \subseteq Known
         /\ ReadsFromFacts(p) \subseteq Known
<1>1. \A i \in Row : InterfLoad[i].at \in DOMAIN valueCache
  BY ChoiceInRange, UsedHaveIds
<1>2. \A i \in Row : p[i] # 0 => InterfLoad[i].stores[p[i]] \in DOMAIN valueCache
  BY ChoiceInRange, UsedHaveIds
<1>3. InterfReads(p) \subseteq Known
  BY <1>1, <1>2 DEF InterfReads, Chosen, Known
<1>4. SelfReads(p) \subseteq Known
  BY <1>1, OwnHaveIds DEF SelfReads, Known
<1>5. QED BY <1>3, <1>4 DEF ReadsFromFacts

(* A permutation is asked about in the words of Constraints.                *)
Words(q) == <<IF InterfRF(q) = {} THEN {} ELSE InterfRF(q) \cup SelfRF(q), InterfRF(q)>>

LEMMA SameWords ==
  ASSUME InThread, CpTypeOK, Found, NEW p \in AllPermutations, NEW q \in Choices, Matches(p, q)
  PROVE  <<ReadsFromFacts(p), InterfReads(p)>> = Words(q)
<1>1. InterfReads(p) = InterfRF(q) /\ SelfReads(p) = SelfRF(q)
  BY SameReads, SameSelfReads
<1>2. QED BY <1>1 DEF Words, ReadsFromFacts

LEMMA WordsAre ==
  ASSUME InThread, CpTypeOK, Found
  PROVE  {<<ReadsFromFacts(p), InterfReads(p)>> : p \in AllPermutations} = {Words(q) : q \in Choices}
<1>1. ASSUME NEW p \in AllPermutations PROVE \E q \in Choices : <<ReadsFromFacts(p), InterfReads(p)>> = Words(q)
  BY PermutationChosen, SameWords
<1>2. ASSUME NEW q \in Choices PROVE \E p \in AllPermutations : <<ReadsFromFacts(p), InterfReads(p)>> = Words(q)
  BY ChoicePermuted, SameWords
<1>3. QED BY <1>1, <1>2

LEMMA AskedAre ==
  ASSUME ClosuresAreLeast, QueryInv, ToldInv, AllTested, Apart, CpTypeOK, ReachTypeOK, ReachByPaths,
         idStatus = "dumped", Searched \cap missed = {}
  PROVE  {<<Meant(a.facts), Meant(a.queries)>> : a \in asked} = {Words(q) : q \in Choices}
<1>1. {a.perm : a \in asked} = AllPermutations
  BY DEF QueryInv, AskedInv, AllTested
<1>2. asked # {}
  BY <1>1 DEF CpTypeOK
<1>3. InThread /\ AllAdded /\ HaveIds(added)
  BY <1>2 DEF QueryInv
<1>4. Found
  BY <1>2 DEF ToldInv, Found, ReachByPaths, ReachTypeOK
<1>5. ASSUME NEW a \in asked
      PROVE  <<Meant(a.facts), Meant(a.queries)>> = <<ReadsFromFacts(a.perm), InterfReads(a.perm)>>
  <2>1. a.facts = BVPairs(ReadsFromFacts(a.perm)) /\ a.queries = BVPairs(InterfReads(a.perm))
    BY DEF ToldInv, Facts, QueryInv, AskedInv, Queries
  <2>2. PICK p \in AllPermutations : p = a.perm
    BY <1>1
  <2>3. /\ InterfReads(p) \in SUBSET Known
        /\ ReadsFromFacts(p) \in SUBSET Known
    BY <1>3, <1>4, ReadsHaveIds
  <2>4. Meant(BVPairs(ReadsFromFacts(p))) = ReadsFromFacts(p) /\ Meant(BVPairs(InterfReads(p))) = InterfReads(p)
    BY <2>3, MeantIs
  <2>5. QED BY <2>1, <2>2, <2>4
<1>6. {<<Meant(a.facts), Meant(a.queries)>> : a \in asked}
        = {<<ReadsFromFacts(p), InterfReads(p)>> : p \in AllPermutations}
  BY <1>1, <1>5
<1>7. QED BY <1>3, <1>4, <1>6, WordsAre

(* What the loop over the permutations asks the solver, when it reports on  *)
(* a thread, is what the constraints of Constraints are stated about: the   *)
(* reads-from facts and queries of every choice of stores for the loads,    *)
(* whatever the order of the rows, the stores and the blocks, where an int  *)
(* can hold the number of permutations and no killed store was missed.      *)
THEOREM AsksWhatIsModelled == ClosuresAreLeast => (Spec /\ CountFits => []AskedAsModelled)
<1> SUFFICES ASSUME ClosuresAreLeast PROVE Spec /\ CountFits => []AskedAsModelled
  OBVIOUS
<1>1. Init => ToldInv
  BY DEF Init, ReachInit, ToldInv
<1>2. ASSUME QueryInv, ToldInv, AllTested, ReportedApart, CpTypeOK, ReachTypeOK, ReachByPaths
      PROVE  AskedAsModelled
  <2>1. idStatus = "dumped" => Apart
    BY <1>2 DEF ReportedApart, Apart
  <2>2. QED BY <1>2, <2>1, AskedAre, Zenon DEF AskedAsModelled, Words, Choices
<1>3. Spec => []ToldInv
  BY <1>1, ToldKept, QueryInvariant, PTL DEF Spec
<1>4. QED BY <1>2, <1>3, QueryInvariant, QueriesByPaths, ImplementsComponents, AllGetTested, EnumeratorType,
             ReachTypeCorrect, ReportsAreApart, PTL
=============================================================================
