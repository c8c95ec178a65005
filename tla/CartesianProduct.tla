-------------------------- MODULE CartesianProduct --------------------------
(***************************************************************************)
(* The enumerator of the permutations of interferences (worklist-ai/       *)
(* cartesianprod.h) and the loop of analyzeThreadInterf that tests what it *)
(* gives.  A permutation has a row for each load; its value in the row is  *)
(* a choice, from 0 to the size of the row less one.                       *)
(***************************************************************************)
EXTENDS Integers, Sequences, FiniteSets

CONSTANTS
  RowSizes,  \* the vectors of sizes a run gives to the constructor
  IntBits    \* the width of int

ASSUME IntAssumption == 2 ^ (IntBits - 1) \in Nat \ {0} /\ 2 ^ IntBits = 2 * 2 ^ (IntBits - 1)

(* The constructor asserts that there is a row and that no row is empty. *)
ASSUME SizesAssumption ==
  \A sizes \in RowSizes : Len(sizes) \in Nat \ {0} /\ sizes \in [1 .. Len(sizes) -> Nat \ {0}]

VARIABLES
  sizes,        \* sizes_of_rows_
  permutation,  \* permutation_
  processed,    \* num_permutations_processed_
  overran,      \* IncrementAndTest went past the last row
  tested        \* history: the permutations given to testCurPerm

cpVars == <<sizes, permutation, processed, overran, tested>>

Row == 1 .. Len(sizes)

AllPermutations == {p \in [Row -> UNION {0 .. sizes[r] - 1 : r \in Row}] : \A r \in Row : p[r] < sizes[r]}

(* The value of a signed int after a computation that wraps. *)
AsInt(n) == ((n + 2 ^ (IntBits - 1)) % (2 ^ IntBits)) - 2 ^ (IntBits - 1)

(* num_max_permutations_ *)
MaxPermutations ==
  LET product[r \in 0 .. Len(sizes)] == IF r = 0 THEN 1 ELSE AsInt(product[r - 1] * sizes[r])
  IN  product[Len(sizes)]

Passed(n) == n >= MaxPermutations      \* mutant: stops before the last one

OnePast(n) == n > MaxPermutations + 1  \* mutant: one too many

AtEnd(n) == n > MaxPermutations

CpTypeOK ==
  /\ sizes \in RowSizes
  /\ permutation \in AllPermutations
  /\ processed \in Nat \ {0}
  /\ overran \in BOOLEAN
  /\ tested \subseteq AllPermutations

CpInit ==
  /\ sizes \in RowSizes
  /\ permutation = [r \in Row |-> 0]
  /\ processed = 1
  /\ overran = FALSE
  /\ tested = {}

RowNotPast(k) ==                       \* mutant: max_index_of_row one too large
  permutation[k] < sizes[k] /\ \A j \in 1 .. (k - 1) : permutation[j] = sizes[j] - 1

(* The row in which the carry of IncrementAndTest ends. *)
IsCarryRow(k) == permutation[k] < sizes[k] - 1 /\ \A j \in 1 .. (k - 1) : permutation[j] = sizes[j] - 1

Carries == \E k \in Row : IsCarryRow(k)

CarryRow == CHOOSE k \in Row : IsCarryRow(k)

IncrementedNoReset(k) == [permutation EXCEPT ![k] = @ + 1]    \* mutant: rows not reset

Incremented(k) == [r \in Row |-> IF r < k THEN 0 ELSE IF r = k THEN permutation[k] + 1 ELSE permutation[r]]

(* One pass of the loop: testCurPerm, then Increment. *)
TestAndIncrement ==
  /\ ~ AtEnd(processed)
  /\ ~ overran
  /\ tested' = tested \cup {permutation}
  /\ processed' = processed + 1
  /\ permutation' = IF AtEnd(processed + 1) \/ ~ Carries THEN permutation ELSE Incremented(CarryRow)
  /\ overran' = (~ AtEnd(processed + 1) /\ ~ Carries)
  /\ UNCHANGED sizes

CpNext == TestAndIncrement

CpSpec == CpInit /\ [][CpNext]_cpVars

-----------------------------------------------------------------------------
(* p comes before q: the last row in which they differ decides. *)
Before(p, q) == \E k \in Row : p[k] < q[k] /\ \A j \in Row : j > k => p[j] = q[j]

(* The permutations that come before p. *)
Prior(p) == {q \in AllPermutations : Before(q, p)}

(* The loop has tested exactly the permutations before the current one,     *)
(* each once: none is skipped by the carry and none comes back              *)
(* (cartesianprod.h: IncrementAndTest).                                     *)
InOrder ==
  /\ ~ AtEnd(processed) /\ ~ overran => tested = Prior(permutation)
  /\ Cardinality(tested) = processed - 1

(* "It will output all of the permutations of these numbers in their        *)
(* respective rows" (cartesianprod.h:1-3), to an analysis that is sound     *)
(* only if it is run on all of them.                                        *)
AllTested == AtEnd(processed) => tested = AllPermutations

(* The carry never leaves the vector (IncrementAndTest has no bound). *)
NeverOverruns == ~ overran
=============================================================================
