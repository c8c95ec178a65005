-------------------------- MODULE MemoryModel_proofs --------------------------
(***************************************************************************)
(* For every program and memory model: no execution reads what -filter-mhb *)
(* has removed.  What the rules derive is what every relation closed under *)
(* them holds, and the instructions a thread has run are ordered by one.   *)
(***************************************************************************)
EXTENDS MemoryModel, Closures, FiniteSetTheorems, WellFoundedInduction, TLAPS

LEMMA TableIs ==
  ASSUME NEW F
  PROVE  Table(F) = F
BY DEF Table

-----------------------------------------------------------------------------
(* The least fixpoint that LeastFix computes, for a monotone step: it is in  *)
(* every relation that contains the start and is closed under the step.     *)
Sub(S, T) == \A a \in DOMAIN S : S[a] \subseteq T[a]

Monotonic(N, step) ==
  /\ step \in [Relation(N) -> Relation(N)]
  /\ \A S, T \in Relation(N) : Sub(S, T) => Sub(step[S], step[T])

More(step, S) == [a \in DOMAIN S |-> S[a] \cup step[S][a]]

IsFix(N, step, F) ==
  F = [S \in Relation(N) |-> IF More(step, S) = S THEN S ELSE F[More(step, S)]]

Above(N, step, S) == {T \in Relation(N) : Sub(S, T) /\ Sub(step[T], T)}

Least(N, step, S) == [a \in N |-> {b \in N : \A T \in Above(N, step, S) : b \in T[a]}]

LEMMA LeastIs ==
  ASSUME NEW N, NEW step, Monotonic(N, step), NEW S \in Relation(N)
  PROVE  /\ Least(N, step, S) \in Relation(N)
         /\ Sub(S, Least(N, step, S))
         /\ Sub(step[Least(N, step, S)], Least(N, step, S))
         /\ \A T \in Above(N, step, S) : Sub(Least(N, step, S), T)
<1> DEFINE L == Least(N, step, S)
<1>1. L \in Relation(N)
  BY DEF Relation, Least
<1>2. Sub(S, L)
  BY DEF Relation, Least, Above, Sub
<1>3. ASSUME NEW T \in Above(N, step, S) PROVE Sub(L, T)
  BY <1>1 DEF Least, Relation, Sub
<1>4. Sub(step[L], L)
  <2>1. step[L] \in Relation(N)
    BY <1>1 DEF Monotonic
  <2>2. ASSUME NEW a \in N, NEW b \in step[L][a], NEW T \in Above(N, step, S) PROVE b \in T[a]
    <3>1. T \in Relation(N) /\ Sub(step[T], T)
      BY DEF Above
    <3>2. Sub(step[L], step[T])
      BY <1>1, <1>3, <3>1 DEF Monotonic
    <3>3. step[T] \in Relation(N)
      BY <3>1 DEF Monotonic
    <3>4. QED BY <2>1, <3>1, <3>2, <3>3 DEF Sub, Relation
  <2>3. ASSUME NEW a \in N, NEW b \in step[L][a] PROVE b \in L[a]
    <3>1. b \in N
      BY <2>1 DEF Relation
    <3>2. QED BY <2>2, <3>1 DEF Least
  <2>4. DOMAIN step[L] = N
    BY <2>1 DEF Relation
  <2> HIDE DEF L
  <2>5. QED BY <2>3, <2>4 DEF Sub
<1>5. QED BY <1>1, <1>2, <1>3, <1>4

LEMMA MoreIs ==
  ASSUME NEW N, NEW step, Monotonic(N, step), NEW S \in Relation(N)
  PROVE  More(step, S) \in Relation(N) /\ Sub(S, More(step, S))
<1>1. step[S] \in Relation(N)
  BY DEF Monotonic
<1>2. QED BY <1>1 DEF More, Relation, Sub

LEMMA LeastStep ==
  ASSUME NEW N, NEW step, Monotonic(N, step), NEW S \in Relation(N)
  PROVE  Least(N, step, S) = IF More(step, S) = S THEN S ELSE Least(N, step, More(step, S))
<1> DEFINE M == More(step, S)
           L == Least(N, step, S)
<1>0. M \in Relation(N) /\ Sub(S, M) /\ step[S] \in Relation(N) /\ DOMAIN S = N
  BY MoreIs DEF Monotonic, Relation
<1>1. CASE M = S
  <2>1. Sub(step[S], S)
    <3>1. ASSUME NEW a \in N PROVE step[S][a] \subseteq S[a]
      BY <1>0, <1>1 DEF More
    <3>2. DOMAIN step[S] = N
      BY <1>0 DEF Relation
    <3>3. QED BY <3>1, <3>2 DEF Sub
  <2>2. S \in Above(N, step, S)
    BY <2>1 DEF Above, Sub
  <2>3. Sub(L, S) /\ Sub(S, L) /\ L \in Relation(N)
    BY <2>2, LeastIs
  <2>4. L = S
    <3> HIDE DEF L
    <3> QED BY <2>3 DEF Sub, Relation
  <2>5. QED BY <1>1, <2>4
<1>2. CASE M # S
  <2>1. Above(N, step, S) \subseteq Above(N, step, M)
    <3> SUFFICES ASSUME NEW T \in Above(N, step, S) PROVE Sub(M, T)
      BY DEF Above
    <3>1. T \in Relation(N) /\ Sub(S, T) /\ Sub(step[T], T)
      BY DEF Above
    <3>2. Sub(step[S], step[T]) /\ step[T] \in Relation(N)
      BY <3>1 DEF Monotonic
    <3>3. ASSUME NEW a \in N PROVE S[a] \cup step[S][a] \subseteq T[a]
      BY <1>0, <3>1, <3>2 DEF Sub, Relation
    <3>4. QED BY <1>0, <3>3 DEF Sub, More
  <2>2. Above(N, step, M) \subseteq Above(N, step, S)
    <3> HIDE DEF M
    <3> QED BY <1>0 DEF Above, Sub, Relation
  <2>3. Above(N, step, M) = Above(N, step, S)
    BY <2>1, <2>2
  <2>4. Least(N, step, M) = L
    BY <2>3, Zenon DEF Least
  <2>5. QED BY <1>2, <2>4
<1>3. QED BY <1>1, <1>2

LEMMA FixExists ==
  ASSUME NEW N, NEW step, Monotonic(N, step)
  PROVE  \E F : IsFix(N, step, F)
<1> DEFINE F == [S \in Relation(N) |-> Least(N, step, S)]
<1>1. ASSUME NEW S \in Relation(N) PROVE F[S] = IF More(step, S) = S THEN S ELSE F[More(step, S)]
  <2>1. More(step, S) \in Relation(N)
    BY MoreIs
  <2>2. F[S] = Least(N, step, S) /\ F[More(step, S)] = Least(N, step, More(step, S))
    BY <2>1, Zenon
  <2>3. QED BY <2>2, LeastStep, Zenon
<1>2. F = [S \in Relation(N) |-> F[S]]
  OBVIOUS
<1> HIDE DEF F
<1>3. [S \in Relation(N) |-> F[S]] = [S \in Relation(N) |-> IF More(step, S) = S THEN S ELSE F[More(step, S)]]
  BY <1>1, Zenon
<1>4. QED BY <1>2, <1>3, Zenon DEF IsFix

(* A set of numbers has a least one. *)
LEMMA LeastOf ==
  ASSUME NEW S \in SUBSET Nat, S # {}
  PROVE  \E m \in S : \A n \in S : m <= n
<1>1. PICK m \in S : \A n \in S : ~ (<<n, m>> \in OpToRel(<, Nat))
  BY NatLessThanWellFounded, WFMin, Zenon
<1>2. ASSUME NEW n \in S PROVE m <= n
  <2>1. n < m => <<n, m>> \in OpToRel(<, Nat)
    BY DEF OpToRel
  <2>2. ~ (n < m)
    BY <1>1, <2>1, Zenon
  <2>3. QED BY <2>2
<1>3. QED BY <1>2

(* On finitely many nodes the recursion ends, so there is one such function: *)
(* each turn relates a pair more.                                           *)
LEMMA FixIs ==
  ASSUME NEW N, IsFiniteSet(N), NEW step, Monotonic(N, step), NEW F, IsFix(N, step, F),
         NEW R \in Relation(N)
  PROVE  F[R] = Least(N, step, R)
<1> DEFINE Missing(S) == {p \in N \X N : p[2] \notin S[p[1]]}
           Bad == {S \in Relation(N) : F[S] # Least(N, step, S)}
           Sizes == {Cardinality(Missing(S)) : S \in Bad}
<1> SUFFICES ASSUME Bad # {} PROVE FALSE
  OBVIOUS
<1>1. ASSUME NEW S PROVE IsFiniteSet(Missing(S)) /\ Cardinality(Missing(S)) \in Nat
  <2>1. IsFiniteSet(N \X N)
    BY FS_Product
  <2>2. Missing(S) \subseteq N \X N
    OBVIOUS
  <2> HIDE DEF Missing
  <2>3. QED BY <2>1, <2>2, FS_Subset, FS_CardinalityType
<1>2. PICK S \in Bad : \A T \in Bad : Cardinality(Missing(S)) <= Cardinality(Missing(T))
  <2> HIDE DEF Missing, Bad
  <2>1. Sizes \in SUBSET Nat /\ Sizes # {}
    BY <1>1
  <2>2. PICK m \in Sizes : \A n \in Sizes : m <= n
    <3> HIDE DEF Sizes
    <3> QED BY <2>1, LeastOf
  <2>3. QED BY <2>2
<1> DEFINE M == More(step, S)
<1>3. S \in Relation(N) /\ M \in Relation(N) /\ Sub(S, M)
  BY MoreIs
<1>4. F[S] = IF M = S THEN S ELSE F[M]
  BY <1>3, Zenon DEF IsFix
<1>5. M # S /\ F[S] = F[M] /\ Least(N, step, S) = Least(N, step, M)
  BY <1>3, <1>4, LeastStep
<1>6. M \in Bad
  BY <1>3, <1>5
<1> HIDE DEF M, Bad
<1>7. Missing(M) \subseteq Missing(S)
  BY <1>3 DEF Sub, Relation
<1>8. Missing(M) # Missing(S)
  <2>1. PICK a \in N : M[a] # S[a]
    BY <1>3, <1>5 DEF Relation
  <2>2. PICK b \in M[a] : b \notin S[a]
    BY <1>3, <2>1 DEF Sub, Relation
  <2>3. b \in N
    BY <1>3 DEF Relation
  <2>4. <<a, b>> \in Missing(S) /\ <<a, b>> \notin Missing(M)
    BY <2>2, <2>3
  <2> HIDE DEF Missing
  <2>5. QED BY <2>4
<1> HIDE DEF Missing
<1>9. Cardinality(Missing(M)) <= Cardinality(Missing(S)) /\ Cardinality(Missing(M)) # Cardinality(Missing(S))
  BY <1>1, <1>7, <1>8, FS_Subset
<1>10. QED BY <1>1, <1>2, <1>6, <1>9

-----------------------------------------------------------------------------
(* What follows for the closures of Constraints.                            *)
LEMMA TwiceMonotonic ==
  ASSUME NEW N
  PROVE  Monotonic(N, [S \in Relation(N) |-> Twice(S)])
<1> DEFINE step == [S \in Relation(N) |-> Twice(S)]
<1>1. ASSUME NEW S \in Relation(N)
      PROVE  step[S] \in Relation(N) /\ step[S] = [a \in N |-> UNION {S[b] : b \in S[a]}]
  BY DEF Twice, Relation
<1>2. ASSUME NEW S \in Relation(N), NEW T \in Relation(N), Sub(S, T) PROVE Sub(step[S], step[T])
  <2>1. step[S] = [a \in N |-> UNION {S[b] : b \in S[a]}] /\ step[T] = [a \in N |-> UNION {T[b] : b \in T[a]}]
    BY <1>1
  <2> HIDE DEF step
  <2>2. ASSUME NEW a \in N PROVE UNION {S[b] : b \in S[a]} \subseteq UNION {T[b] : b \in T[a]}
    BY <1>2 DEF Sub, Relation
  <2>3. QED BY <2>1, <2>2 DEF Sub
<1> HIDE DEF step
<1>3. step \in [Relation(N) -> Relation(N)]
  BY <1>1 DEF step
<1>4. QED BY <1>2, <1>3 DEF Monotonic, step

LEMMA TransClosureIs ==
  ASSUME NEW R \in Relation(Node)
  PROVE  /\ TransClosure(R) \in Relation(Node)
         /\ \A a \in Node : R[a] \subseteq TransClosure(R)[a]
         /\ \A a, b, c \in Node : b \in TransClosure(R)[a] /\ c \in TransClosure(R)[b]
                                    => c \in TransClosure(R)[a]
         /\ \A Q \in Relation(Node) :
              ClosedRelation(Q) /\ (\A a \in Node : R[a] \subseteq Q[a]) =>
                \A a \in Node : TransClosure(R)[a] \subseteq Q[a]
<1> DEFINE step == [S \in Relation(Node) |-> Twice(S)]
           IsIt(F) == F = [S \in Relation(Node) |->
                             LET more == Twice(S)
                                 T    == [a \in DOMAIN S |-> S[a] \cup more[a]]
                             IN  IF T = S THEN S ELSE F[T]]
           Fix == CHOOSE F : IsIt(F)
           L == Least(Node, step, R)
<1>1. Monotonic(Node, step) /\ IsFiniteSet(Node)
  BY TwiceMonotonic, ProgramAssumption
<1>2. \A F : IsIt(F) <=> IsFix(Node, step, F)
  BY DEF IsFix, More
<1>3. IsFix(Node, step, Fix)
  <2>1. \E F : IsIt(F)
    BY <1>1, <1>2, FixExists
  <2> HIDE DEF IsIt
  <2>2. QED BY <1>2, <2>1
<1>4. TransClosure(R) = Fix[R]
  BY Zenon DEF TransClosure, LeastFix
<1> HIDE DEF Fix
<1>5. TransClosure(R) = L
  <2> HIDE DEF step
  <2> QED BY <1>1, <1>3, <1>4, FixIs
<1>6. L \in Relation(Node) /\ Sub(R, L) /\ Sub(step[L], L)
  <2> HIDE DEF step
  <2> QED BY <1>1, LeastIs
<1>10. ASSUME NEW Q \in Relation(Node), ClosedRelation(Q), \A a \in Node : R[a] \subseteq Q[a]
       PROVE  \A a \in Node : L[a] \subseteq Q[a]
  <2>1. Sub(R, Q)
    BY <1>10 DEF Sub, Relation
  <2>2. step[Q] = [a \in Node |-> UNION {Q[b] : b \in Q[a]}]
    BY DEF Twice, Relation
  <2> HIDE DEF step
  <2>3. Sub(step[Q], Q)
    BY <1>10, <2>2 DEF Sub, ClosedRelation
  <2>4. Sub(L, Q)
    BY <1>1, <2>1, <2>3, LeastIs DEF Above
  <2> HIDE DEF L
  <2>5. QED BY <1>6, <2>4 DEF Sub, Relation
<1> HIDE DEF L
<1>7. step[L] = [a \in Node |-> UNION {L[b] : b \in L[a]}]
  BY <1>6 DEF Twice, Relation
<1>8. \A a, b, c \in Node : b \in L[a] /\ c \in L[b] => c \in L[a]
  BY <1>6, <1>7 DEF Sub
<1>9. QED BY <1>5, <1>6, <1>8, <1>10 DEF Sub, Relation

(* The recursion over relations computes the transitive closure: the least  *)
(* transitive relation that contains the given one.                         *)
THEOREM ClosuresLeast == ClosuresAreLeast
<1> SUFFICES ASSUME NEW R \in Relation(Node)
             PROVE  /\ TransClosure(R) \in Relation(Node) /\ ClosedRelation(TransClosure(R))
                    /\ \A a \in Node : R[a] \subseteq TransClosure(R)[a]
                    /\ \A Q \in Relation(Node) :
                         ClosedRelation(Q) /\ (\A a \in Node : R[a] \subseteq Q[a]) =>
                           \A a \in Node : TransClosure(R)[a] \subseteq Q[a]
  BY DEF ClosuresAreLeast
<1>1. TransClosure(R) \in Relation(Node)
  BY TransClosureIs
<1>2. ClosedRelation(TransClosure(R))
  <2> SUFFICES ASSUME NEW a \in Node, NEW b \in TransClosure(R)[a], NEW c \in TransClosure(R)[b]
               PROVE  c \in TransClosure(R)[a]
    BY DEF ClosedRelation
  <2>1. b \in Node
    BY <1>1 DEF Relation
  <2>2. c \in Node
    BY <1>1, <2>1 DEF Relation
  <2>3. QED BY <2>1, <2>2, TransClosureIs
<1>3. QED BY <1>1, <1>2, TransClosureIs

(* The instructions of a program.                                           *)
Length(b) == Len(Blocks[b].body)

Plain == {"load", "store", "create", "join", "fence"}

LEMMA BlockIs ==
  ASSUME NEW b \in Node
  PROVE  /\ Length(b) \in Nat
         /\ DOMAIN Blocks[b].body = 1 .. Length(b)
         /\ Blocks[b].fn \in Func
         /\ Succ[b] \in SUBSET Node
         /\ \A c \in Succ[b] : Blocks[c].fn = Blocks[b].fn
<1>1. Blocks[b].body \in Seq({Blocks[b].body[k] : k \in DOMAIN Blocks[b].body})
  BY ProgramAssumption
<1>2. Length(b) \in Nat /\ DOMAIN Blocks[b].body = 1 .. Length(b)
  <2> DEFINE s == Blocks[b].body
             Op == {s[k] : k \in DOMAIN s}
  <2>1. s \in Seq(Op)
    BY <1>1
  <2> HIDE DEF s, Op
  <2>2. Len(s) \in Nat /\ DOMAIN s = 1 .. Len(s)
    BY <2>1
  <2>3. QED BY <2>2 DEF s, Length
<1>3. QED BY <1>2, ProgramAssumption

LEMMA InstrIs ==
  /\ Instr = UNION {{b} \X (1 .. Length(b) + 1) : b \in Node}
  /\ \A a \in Instr : a[1] \in Node /\ a[2] \in 1 .. Length(a[1]) + 1 /\ a = <<a[1], a[2]>>
  /\ \A b \in Node : \A k \in 1 .. Length(b) + 1 : <<b, k>> \in Instr
<1>1. Instr = UNION {{b} \X (1 .. Length(b) + 1) : b \in Node}
  BY DEF Instr, List, Length
<1>2. QED BY <1>1

LEMMA AtIs ==
  ASSUME NEW a \in Instr
  PROVE  /\ a[2] \in 1 .. Length(a[1]) => At(a) = Blocks[a[1]].body[a[2]] /\ At(a).op \in Plain
         /\ a[2] = Length(a[1]) + 1 => At(a) = [op |-> "term"]
<1> DEFINE s == Blocks[a[1]].body
           Op == {s[k] : k \in DOMAIN s}
<1>1. a[1] \in Node
  BY InstrIs
<1>2. s \in Seq(Op)
  BY <1>1, ProgramAssumption
<1>3. \A k \in 1 .. Length(a[1]) : s[k].op \in Plain
  BY <1>1, BlockIs, ProgramAssumption DEF Plain
<1>4. At(a) = Append(s, [op |-> "term"])[a[2]]
  BY DEF At
<1>5. Len(s) = Length(a[1])
  BY DEF Length
<1> HIDE DEF s, Op
<1>6. /\ \A k \in 1 .. Len(s) : Append(s, [op |-> "term"])[k] = s[k]
      /\ Append(s, [op |-> "term"])[Len(s) + 1] = [op |-> "term"]
  BY <1>2
<1>7. QED BY <1>3, <1>4, <1>5, <1>6 DEF s

LEMMA TermIs ==
  ASSUME NEW a \in Instr
  PROVE  /\ At(a).op = "term" <=> a[2] = Length(a[1]) + 1
         /\ At(a).op \in Plain <=> a[2] \in 1 .. Length(a[1])
<1>1. a[1] \in Node /\ a[2] \in 1 .. Length(a[1]) + 1 /\ Length(a[1]) \in Nat
  BY InstrIs, BlockIs
<1>2. a[2] \in 1 .. Length(a[1]) \/ a[2] = Length(a[1]) + 1
  BY <1>1
<1>3. "term" \notin Plain
  BY DEF Plain
<1>4. a[2] = Length(a[1]) + 1 => At(a).op = "term"
  BY AtIs
<1>5. ~ (a[2] \in 1 .. Length(a[1]) /\ a[2] = Length(a[1]) + 1)
  BY <1>1
<1>6. QED BY <1>2, <1>3, <1>4, <1>5, AtIs

LEMMA NoIdleInstr == Idle \notin Instr /\ Over \notin Instr /\ Initially \notin Store /\ Idle # Over
<1>1. \A a \in Instr : a[2] # 0
  BY InstrIs, BlockIs
<1>2. Idle # Over
  BY DEF Idle, Over
<1>3. QED BY <1>1, <1>2 DEF Idle, Over, Initially, Store, List

LEMMA AccessIs ==
  /\ \A a \in Load : a \in Instr /\ At(a).op = "load"
  /\ \A a \in Store : a \in Instr /\ At(a).op = "store"
  /\ \A a \in CreateCall : a \in Instr /\ At(a).op = "create"
  /\ \A a \in JoinCall : a \in Instr /\ At(a).op = "join"
  BY DEF Load, Store, CreateCall, JoinCall, List

LEMMA FirstIs ==
  ASSUME NEW f \in Func
  PROVE  /\ FirstOf(f) = <<Entry[f], 1>>
         /\ FirstOf(f) \in Instr
         /\ FuncOf(FirstOf(f)) = f
<1> DEFINE shown == {a \in Instr : a[1] = Entry[f]
                       /\ At(a).op \in {"load", "store", "create", "join", "fence", "assert_fail", "term"}}
           first == <<Entry[f], 1>>
<1>1. Entry[f] \in Node /\ Blocks[Entry[f]].fn = f
  BY ProgramAssumption
<1>2. first \in Instr
  BY <1>1, InstrIs, BlockIs
<1>3. \A a \in Instr : At(a).op \in Plain \cup {"term"}
  BY InstrIs, BlockIs, TermIs
<1>4. first \in shown /\ \A c \in shown : 1 <= c[2]
  BY <1>2, <1>3, InstrIs, BlockIs DEF Plain
<1>5. \A a \in shown : (\A c \in shown : a[2] <= c[2]) => a = first
  <2> SUFFICES ASSUME NEW a \in shown, \A c \in shown : a[2] <= c[2] PROVE a = first
    OBVIOUS
  <2>1. a[2] <= first[2] /\ 1 <= a[2] /\ a \in Instr /\ a[1] = Entry[f]
    BY <1>4
  <2>2. a[2] = 1 /\ a = <<a[1], a[2]>>
    BY <2>1, InstrIs, BlockIs
  <2>3. QED BY <2>1, <2>2
<1>6. FirstOf(f) = CHOOSE a \in shown : \A c \in shown : a[2] <= c[2]
  BY Zenon DEF FirstOf
<1> HIDE DEF shown
<1>7. FirstOf(f) = first
  BY <1>4, <1>5, <1>6
<1>8. QED BY <1>1, <1>2, <1>7 DEF FuncOf

LEMMA SuccIs == Succ \in Relation(Node)
<1>1. Succ = [b \in Node |-> Succ[b]]
  BY TableIs, Zenon DEF Succ
<1>2. QED BY <1>1, BlockIs DEF Relation

LEMMA ReachesIs ==
  /\ Reaches \in Relation(Node)
  /\ \A b \in Node : Succ[b] \subseteq Reaches[b]
  /\ \A a, b, c \in Node : b \in Reaches[a] /\ c \in Reaches[b] => c \in Reaches[a]
BY SuccIs, TransClosureIs DEF Reaches

(* Paths that avoid block a.                                                *)
LEMMA AvoidingIs ==
  ASSUME NEW a \in Node
  PROVE  /\ Avoiding[a] \in Relation(Node)
         /\ \A b, c \in Node : b # a /\ c # a /\ c \in Succ[b] => c \in Avoiding[a][b]
         /\ \A b, c, d \in Node : c \in Avoiding[a][b] /\ d \in Avoiding[a][c] => d \in Avoiding[a][b]
<1> DEFINE R == [b \in Node |-> IF b = a THEN {} ELSE Succ[b] \ {a}]
<1>1. R \in Relation(Node)
  BY SuccIs DEF Relation
<1>2. Avoiding[a] = TransClosure(R)
  <2>1. Avoiding = [c \in Node |-> TransClosure([b \in Node |-> IF b = c THEN {} ELSE Succ[b] \ {c}])]
    BY TableIs, Zenon DEF Avoiding
  <2>2. QED BY <2>1, Zenon
<1>3. \A b, c \in Node : b # a /\ c # a /\ c \in Succ[b] => c \in R[b]
  OBVIOUS
<1> HIDE DEF R
<1>4. QED BY <1>1, <1>2, <1>3, TransClosureIs

LEMMA DominatedIs ==
  ASSUME NEW a \in Node, NEW b
  PROVE  b \in DominatedBy[a] <=> b \in Node /\ Dominates(a, b)
<1>1. DominatedBy = [d \in Node |-> {c \in Node : Dominates(d, c)}]
  BY TableIs, Zenon DEF DominatedBy
<1>2. QED BY <1>1

(* What must happen before, with nothing known of what is read, is in every *)
(* transitive relation that holds the rules' premises.                      *)
LEMMA MHBBelow ==
  ASSUME IsFiniteSet(Instr), NEW mm \in Models, NEW C \in Relation(Instr),
         \A a \in Instr : BaseMHB[mm][a] \subseteq C[a],
         \A a, b, c \in Instr : b \in C[a] /\ c \in C[b] => c \in C[a]
  PROVE  \A a \in Instr : MHB(mm, {})[a] \subseteq C[a]
<1> DEFINE base == [a \in Instr |-> BaseMHB[mm][a] \cup {l \in Load : <<l, a>> \in {}}]
           Step(R) == [a \in Instr |-> Twice(R)[a] \cup ReadsFromMHB({}, R)[a]]
           step == [S \in Relation(Instr) |-> Twice(S)]
           IsIt(F) == F = [S \in Relation(Instr) |->
                             LET more == Step(S)
                                 T    == [a \in DOMAIN S |-> S[a] \cup more[a]]
                             IN  IF T = S THEN S ELSE F[T]]
           Fix == CHOOSE F : IsIt(F)
<1>1. Monotonic(Instr, step)
  BY TwiceMonotonic
<1>2. \A S : \A a \in Instr : ReadsFromMHB({}, S)[a] = {}
  BY DEF ReadsFromMHB
<1>3. ASSUME NEW S \in Relation(Instr)
      PROVE  [a \in DOMAIN S |-> S[a] \cup Step(S)[a]] = More(step, S)
  <2>1. DOMAIN S = Instr /\ step[S] = Twice(S)
    BY DEF Relation
  <2>2. ASSUME NEW a \in Instr PROVE Step(S)[a] = Twice(S)[a]
    BY <1>2
  <2>3. More(step, S) = [a \in Instr |-> S[a] \cup Twice(S)[a]]
    BY <2>1 DEF More
  <2> HIDE DEF Step, step
  <2>4. QED BY <2>1, <2>2, <2>3
<1>4. \A F : IsIt(F) <=> IsFix(Instr, step, F)
  <2> HIDE DEF step, Step
  <2> QED BY <1>3 DEF IsFix
<1>5. IsFix(Instr, step, Fix)
  <2>1. \E F : IsIt(F)
    BY <1>1, <1>4, FixExists
  <2> HIDE DEF IsIt
  <2>2. QED BY <1>4, <2>1
<1>6. MHB(mm, {}) = Fix[base]
  BY Zenon DEF MHB, LeastFix
<1> HIDE DEF Fix
<1>7. \A a \in Instr : base[a] = BaseMHB[mm][a]
  OBVIOUS
<1>8. base \in Relation(Instr) /\ Sub(base, C)
  <2>1. \A a \in Instr : base[a] \subseteq C[a] /\ base[a] \subseteq Instr
    BY <1>7 DEF Relation
  <2>2. base = [a \in Instr |-> base[a]]
    OBVIOUS
  <2> HIDE DEF base
  <2>3. QED BY <2>1, <2>2 DEF Relation, Sub
<1>9. MHB(mm, {}) = Least(Instr, step, base)
  <2> HIDE DEF step, base
  <2> QED BY <1>1, <1>5, <1>6, <1>8, FixIs
<1>10. step[C] = [a \in Instr |-> UNION {C[b] : b \in C[a]}]
  BY DEF Twice, Relation
<1>11. Sub(step[C], C)
  <2> HIDE DEF step
  <2>1. ASSUME NEW a \in Instr PROVE UNION {C[b] : b \in C[a]} \subseteq C[a]
    BY DEF Relation
  <2>2. QED BY <1>10, <2>1 DEF Sub
<1>12. C \in Above(Instr, step, base)
  BY <1>8, <1>11 DEF Above
<1> HIDE DEF step, base
<1>13. Sub(Least(Instr, step, base), C) /\ Least(Instr, step, base) \in Relation(Instr)
  BY <1>1, <1>8, <1>12, LeastIs
<1>14. QED BY <1>9, <1>13 DEF Sub, Relation

LEMMA InstrFinite == IsFiniteSet(Instr)
<1> DEFINE Of == [b \in Node |-> {b} \X (1 .. Length(b) + 1)]
           Sets == {Of[b] : b \in Node}
<1>1. IsFiniteSet(Node)
  BY ProgramAssumption
<1>2. IsFiniteSet(Sets)
  <2>1. Of \in [Node -> Sets] /\ \A T \in Sets : \E b \in Node : Of[b] = T
    OBVIOUS
  <2> HIDE DEF Of, Sets
  <2>2. Of \in Surjection(Node, Sets)
    BY <2>1 DEF Surjection
  <2>3. QED BY <1>1, <2>2, FS_Surjection
<1>3. ASSUME NEW b \in Node PROVE IsFiniteSet({b} \X (1 .. Length(b) + 1))
  <2>1. \A n \in Nat : IsFiniteSet(1 .. n + 1)
    <3> TAKE n \in Nat
    <3>1. 1 \in Int /\ n + 1 \in Int
      OBVIOUS
    <3>2. QED BY <3>1, FS_Interval
  <2>2. IsFiniteSet({b}) /\ IsFiniteSet(1 .. Length(b) + 1)
    BY <2>1, BlockIs, FS_Singleton
  <2>3. QED BY <2>2, FS_Product
<1>4. \A T \in Sets : IsFiniteSet(T)
  BY <1>3
<1>5. Instr = UNION Sets
  <2>1. Sets = {{b} \X (1 .. Length(b) + 1) : b \in Node}
    OBVIOUS
  <2> HIDE DEF Sets
  <2>2. QED BY <2>1, InstrIs
<1> HIDE DEF Sets
<1>6. QED BY <1>2, <1>4, <1>5, FS_UNION

-----------------------------------------------------------------------------
(* Where a thread is: what it may still run, and what it has run.           *)
On(f) == pc[f] \notin {Idle, Over}

ToCome(f, a) == (a[1] = pc[f][1] /\ a[2] >= pc[f][2]) \/ a[1] \in Reaches[pc[f][1]]

FullyRan(ran, b) == \A k \in 1 .. Length(b) + 1 : <<b, k>> \in ran

(* ran: what has run so far.  What the memory and the buffers hold has run;  *)
Written(ran) ==
  /\ \A v \in Var : mem[v] \in ran \cup {Initially}
  /\ \A f \in Func : \A i \in DOMAIN buf[f] : buf[f][i] \in ran

(* a thread runs its blocks from the start, every block on its way;         *)
Behind(ran) ==
  \A f \in Func : On(f) =>
    /\ \A k \in 1 .. pc[f][2] - 1 : <<pc[f][1], k>> \in ran
    /\ \A b \in Node : Blocks[b].fn = f /\ b # pc[f][1] =>
         FullyRan(ran, b) \/ (b # Entry[f] /\ pc[f][1] \in {Entry[f]} \cup Avoiding[b][Entry[f]])

(* before an instruction runs, those that dominate it have, and afterwards  *)
(* only what it reaches is still to come;                                   *)
InOrderOf(ran) ==
  \A b \in ran :
    /\ pc[FuncOf(b)] # Idle
    /\ \A a \in Instr : Dom(a, b) => a \in ran
    /\ \A a \in Instr : FuncOf(a) = FuncOf(b) /\ On(FuncOf(b)) /\ ToCome(FuncOf(b), a) =>
         a[1] \in Reaches[b[1]] \/ (a[1] = b[1] /\ a[2] > b[2])

(* and threads are created first and joined last.                           *)
ThreadOrder(ran) ==
  /\ \A f \in Func : pc[f] = Over => \E r \in ran : r \in Return /\ FuncOf(r) = f
  /\ \A f \in Func : pc[f] # Idle => f \in Main \/ \E a \in ran : a \in CreateCall /\ At(a).fn = f
  /\ \A b \in ran : b \in JoinCall => pc[At(b).fn] = Over

History(ran) ==
  /\ ran \in SUBSET Instr
  /\ Written(ran)
  /\ Behind(ran)
  /\ InOrderOf(ran)
  /\ ThreadOrder(ran)

TypeInv ==
  /\ model \in Models
  /\ pc \in [Func -> Instr \cup {Idle, Over}]
  /\ \A f \in Func : On(f) => FuncOf(pc[f]) = f
  /\ mem \in [Var -> Source]
  /\ view \in [Func -> [Var -> Source]]
  /\ buf = [f \in Func |-> buf[f]]
  /\ \A f \in Func : buf[f] \in Seq(StoresOf(f))
  /\ may = [l \in Load |-> may[l]]
  /\ \A l \in Load : may[l] \subseteq Readings(l)
  /\ reads \subseteq Load \X Store

(* One thread runs one instruction, and may start another thread.           *)
Moves(f) ==
  LET a0 == pc[f]
  IN  /\ On(f)
      /\ \/ a0[2] \in 1 .. Length(a0[1]) /\ pc'[f] = <<a0[1], a0[2] + 1>>
         \/ a0[2] = Length(a0[1]) + 1 /\ \E c \in Succ[a0[1]] : pc'[f] = <<c, 1>>
         \/ a0 \in Return /\ pc'[f] = Over
      /\ \A g \in Func \ {f} :
           \/ pc'[g] = pc[g]
           \/ pc[g] = Idle /\ pc'[g] = FirstOf(g) /\ a0 \in CreateCall /\ At(a0).fn = g
      /\ a0 \in JoinCall => pc[At(a0).fn] = Over

LEMMA MovesTo ==
  ASSUME TypeInv, NEW f \in Func, Moves(f)
  PROVE  /\ pc[f] \in Instr /\ FuncOf(pc[f]) = f
         /\ pc[f][1] \in Node /\ pc[f][2] \in 1 .. Length(pc[f][1]) + 1
         /\ Length(pc[f][1]) \in Nat
         /\ pc[f] = <<pc[f][1], pc[f][2]>>
         /\ pc'[f] # Idle
         /\ \A g \in Func : pc[g] # Idle => pc'[g] # Idle
         /\ \A g \in Func : pc[g] = Over => pc'[g] = Over
<1>1. pc[f] \in Instr /\ FuncOf(pc[f]) = f
  BY DEF Moves, TypeInv, On
<1>2. /\ pc[f][1] \in Node /\ pc[f][2] \in 1 .. Length(pc[f][1]) + 1
      /\ Length(pc[f][1]) \in Nat
      /\ pc[f] = <<pc[f][1], pc[f][2]>>
  BY <1>1, InstrIs, BlockIs
<1>3. pc'[f] # Idle
  <2>1. \A n \in Nat : n + 1 # 0
    OBVIOUS
  <2>2. \A x : \A n : n # 0 => <<x, n>> # Idle
    BY DEF Idle
  <2>3. pc[f][2] + 1 # 0
    BY <1>2
  <2>4. 1 # 0 /\ Over # Idle
    BY NoIdleInstr
  <2>5. QED BY <2>2, <2>3, <2>4 DEF Moves
<1>4. ASSUME NEW g \in Func PROVE (pc[g] # Idle => pc'[g] # Idle) /\ (pc[g] = Over => pc'[g] = Over)
  <2>1. CASE g = f
    BY <1>3, <2>1 DEF Moves, On
  <2>2. CASE g # f
    BY <2>2, NoIdleInstr DEF Moves
  <2>3. QED BY <2>1, <2>2
<1>5. QED BY <1>1, <1>2, <1>3, <1>4

LEMMA BehindStep ==
  ASSUME TypeInv, NEW f \in Func, Moves(f), NEW ran, NEW new, new = ran \cup {pc[f]}, Behind(ran)
  PROVE  Behind(new)'
<1> DEFINE a0 == pc[f]
<1>0. /\ a0[1] \in Node /\ a0[2] \in 1 .. Length(a0[1]) + 1 /\ Length(a0[1]) \in Nat
      /\ a0 = <<a0[1], a0[2]>>
      /\ On(f) /\ \A x : x \in ran => x \in new
  BY MovesTo DEF Moves
<1>1. a0 \in new
  OBVIOUS
<1>2. \A b : FullyRan(ran, b) => FullyRan(new, b)
  BY <1>0 DEF FullyRan
<1> SUFFICES ASSUME NEW g \in Func, On(g)'
             PROVE  /\ \A k \in 1 .. pc'[g][2] - 1 : <<pc'[g][1], k>> \in new
                    /\ \A b \in Node : Blocks[b].fn = g /\ b # pc'[g][1] =>
                         FullyRan(new, b)
                         \/ (b # Entry[g] /\ pc'[g][1] \in {Entry[g]} \cup Avoiding[b][Entry[g]])
  BY DEF Behind, FullyRan
<1>3. CASE pc'[g] = pc[g]
  BY <1>0, <1>2, <1>3 DEF Behind, On
<1>4. CASE g # f /\ pc'[g] # pc[g]
  <2>1. pc'[g] = <<Entry[g], 1>>
    BY <1>4, FirstIs DEF Moves
  <2>2. QED BY <2>1
<1>5. CASE g = f
  <2>1. /\ \A k \in 1 .. a0[2] - 1 : <<a0[1], k>> \in ran
        /\ \A b \in Node : Blocks[b].fn = f /\ b # a0[1] =>
             FullyRan(ran, b) \/ (b # Entry[f] /\ a0[1] \in {Entry[f]} \cup Avoiding[b][Entry[f]])
    BY <1>0 DEF Behind
  <2>2. \A k \in 1 .. a0[2] : <<a0[1], k>> \in new
    <3> TAKE k \in 1 .. a0[2]
    <3>1. k = a0[2] \/ k \in 1 .. a0[2] - 1
      BY <1>0
    <3>2. QED BY <3>1, <2>1, <1>0, <1>1
  <2>3. CASE a0[2] \in 1 .. Length(a0[1]) /\ pc'[f] = <<a0[1], a0[2] + 1>>
    <3>1. pc'[f][1] = a0[1] /\ pc'[f][2] - 1 = a0[2]
      BY <2>3, <1>0
    <3>2. QED BY <3>1, <2>1, <2>2, <1>2, <1>5
  <2>4. CASE a0[2] = Length(a0[1]) + 1 /\ \E c \in Succ[a0[1]] : pc'[f] = <<c, 1>>
    <3>1. PICK c \in Succ[a0[1]] : pc'[f] = <<c, 1>>
      BY <2>4
    <3>2. c \in Node
      BY <1>0, BlockIs
    <3>3. FullyRan(new, a0[1])
      BY <2>2, <2>4 DEF FullyRan
    <3>4. ASSUME NEW b \in Node, Blocks[b].fn = f, b # c
          PROVE  FullyRan(new, b) \/ (b # Entry[f] /\ c \in {Entry[f]} \cup Avoiding[b][Entry[f]])
      <4>1. CASE b = a0[1]
        BY <4>1, <3>3
      <4>2. CASE FullyRan(ran, b)
        BY <4>2, <1>2
      <4>3. CASE b # a0[1] /\ ~ FullyRan(ran, b)
        <5>1. b # Entry[f] /\ a0[1] \in {Entry[f]} \cup Avoiding[b][Entry[f]]
          BY <2>1, <3>4, <4>3
        <5>2. c \in Avoiding[b][a0[1]]
          BY <1>0, <3>2, <3>4, <4>3, AvoidingIs
        <5>3. Entry[f] \in Node
          BY ProgramAssumption
        <5>4. c \in Avoiding[b][Entry[f]]
          BY <1>0, <5>1, <5>2, <5>3, <3>2, AvoidingIs
        <5>5. QED BY <5>1, <5>4
      <4>4. QED BY <4>1, <4>2, <4>3
    <3>5. \A k \in 1 .. pc'[g][2] - 1 : FALSE
      BY <3>1, <1>5
    <3>6. pc'[g] = <<c, 1>> /\ pc'[g][1] = c
      BY <3>1, <1>5
    <3>7. \A k \in 1 .. pc'[g][2] - 1 : <<pc'[g][1], k>> \in new
      BY <3>5
    <3> HIDE DEF a0
    <3>8. QED BY <3>4, <3>6, <3>7, <1>5
  <2>5. CASE pc'[f] = Over
    BY <2>5, <1>5 DEF On
  <2>6. QED BY <2>3, <2>4, <2>5 DEF Moves
<1>6. QED BY <1>3, <1>4, <1>5

LEMMA InOrderStep ==
  ASSUME TypeInv, NEW f \in Func, Moves(f), NEW ran \in SUBSET Instr, NEW new, new = ran \cup {pc[f]},
         Behind(ran), InOrderOf(ran)
  PROVE  InOrderOf(new)'
<1> DEFINE a0 == pc[f]
<1>0. /\ a0 \in Instr /\ FuncOf(a0) = f
      /\ a0[1] \in Node /\ a0[2] \in 1 .. Length(a0[1]) + 1 /\ Length(a0[1]) \in Nat
      /\ a0 = <<a0[1], a0[2]>>
      /\ pc'[f] # Idle
      /\ \A g \in Func : pc[g] # Idle => pc'[g] # Idle
      /\ On(f)
  BY MovesTo DEF Moves
<1> SUFFICES ASSUME NEW b \in new
             PROVE  /\ pc'[FuncOf(b)] # Idle
                    /\ \A a \in Instr : Dom(a, b) => a \in new
                    /\ \A a \in Instr : FuncOf(a) = FuncOf(b) /\ On(FuncOf(b))' /\ ToCome(FuncOf(b), a)' =>
                         a[1] \in Reaches[b[1]] \/ (a[1] = b[1] /\ a[2] > b[2])
  BY DEF InOrderOf
<1>1. b \in Instr /\ FuncOf(b) \in Func /\ (b \in ran \/ b = a0)
  BY <1>0, InstrIs, BlockIs DEF FuncOf
<1>2. pc'[FuncOf(b)] # Idle
  BY <1>0, <1>1 DEF InOrderOf
<1>3. ASSUME NEW a \in Instr, Dom(a, b) PROVE a \in new
  <2>1. CASE b \in ran
    BY <2>1, <1>3 DEF InOrderOf
  <2>2. CASE b = a0
    <3>0. /\ \A k \in 1 .. a0[2] - 1 : <<a0[1], k>> \in ran
          /\ \A c \in Node : Blocks[c].fn = f /\ c # a0[1] =>
               FullyRan(ran, c) \/ (c # Entry[f] /\ a0[1] \in {Entry[f]} \cup Avoiding[c][Entry[f]])
      BY <1>0 DEF Behind
    <3>1. a[1] \in Node /\ a[2] \in 1 .. Length(a[1]) + 1 /\ a = <<a[1], a[2]>> /\ Length(a[1]) \in Nat
      BY InstrIs, BlockIs
    <3>2. CASE a[1] = a0[1] /\ a[2] < a0[2]
      <4>1. a[2] \in 1 .. a0[2] - 1
        BY <3>1, <3>2, <1>0
      <4>2. QED BY <4>1, <3>0, <3>1, <3>2
    <3>3. CASE a0[1] \in DominatedBy[a[1]]
      <4>1. Dominates(a[1], a0[1]) /\ Blocks[a0[1]].fn = f
        BY <3>1, <3>3, <1>0, DominatedIs DEF FuncOf
      <4>2. FullyRan(ran, a[1])
        BY <3>0, <3>1, <4>1 DEF Dominates
      <4>3. QED BY <4>2, <3>1 DEF FullyRan
    <3>4. QED BY <1>3, <2>2, <3>2, <3>3 DEF Dom
  <2>3. QED BY <1>1, <2>1, <2>2
<1>4. ASSUME NEW a \in Instr, FuncOf(a) = FuncOf(b), On(FuncOf(b))', ToCome(FuncOf(b), a)'
      PROVE  a[1] \in Reaches[b[1]] \/ (a[1] = b[1] /\ a[2] > b[2])
  <2>0. a[1] \in Node /\ a[2] \in 1 .. Length(a[1]) + 1 /\ Length(a[1]) \in Nat
    BY InstrIs, BlockIs
  <2>1. CASE FuncOf(b) # f
    <3>1. b \in ran /\ pc[FuncOf(b)] # Idle
      BY <1>0, <1>1, <2>1 DEF InOrderOf
    <3>2. pc'[FuncOf(b)] = pc[FuncOf(b)]
      BY <1>1, <2>1, <3>1 DEF Moves
    <3>3. On(FuncOf(b)) /\ ToCome(FuncOf(b), a)
      BY <1>4, <3>2 DEF On, ToCome
    <3>4. QED BY <1>4, <3>1, <3>3 DEF InOrderOf
  <2>2. CASE FuncOf(b) = f
    <3>1. a[1] \in Reaches[a0[1]] \/ (a[1] = a0[1] /\ a[2] > a0[2])
      <4>1. CASE a0[2] \in 1 .. Length(a0[1]) /\ pc'[f] = <<a0[1], a0[2] + 1>>
        <5>1. (a[1] = a0[1] /\ a[2] >= a0[2] + 1) \/ a[1] \in Reaches[a0[1]]
          BY <1>4, <2>2, <4>1 DEF ToCome
        <5>2. QED BY <5>1, <2>0, <1>0
      <4>2. CASE \E c \in Succ[a0[1]] : pc'[f] = <<c, 1>>
        <5>1. PICK c \in Succ[a0[1]] : pc'[f] = <<c, 1>>
          BY <4>2
        <5>2. c \in Node /\ c \in Reaches[a0[1]]
          BY <1>0, BlockIs, ReachesIs
        <5>3. a[1] = c \/ a[1] \in Reaches[c]
          BY <1>4, <2>2, <5>1 DEF ToCome
        <5>4. QED BY <1>0, <2>0, <5>2, <5>3, ReachesIs
      <4>3. CASE pc'[f] = Over
        BY <1>4, <2>2, <4>3 DEF On
      <4>4. QED BY <4>1, <4>2, <4>3 DEF Moves
    <3>2. CASE b = a0
      BY <3>1, <3>2
    <3>3. CASE b \in ran
      <4>1. ToCome(f, a)
        BY <3>1, <2>0, <1>0 DEF ToCome
      <4>2. QED BY <1>0, <1>4, <2>2, <3>3, <4>1 DEF InOrderOf
    <3>4. QED BY <1>1, <3>2, <3>3
  <2>3. QED BY <2>1, <2>2
<1>5. QED BY <1>2, <1>3, <1>4

LEMMA ThreadOrderStep ==
  ASSUME TypeInv, NEW f \in Func, Moves(f), NEW ran \in SUBSET Instr, NEW new, new = ran \cup {pc[f]},
         ThreadOrder(ran)
  PROVE  ThreadOrder(new)'
<1> DEFINE a0 == pc[f]
<1>0. /\ a0 \in Instr /\ FuncOf(a0) = f
      /\ a0[2] \in Nat
      /\ \A g \in Func : pc[g] = Over => pc'[g] = Over
      /\ On(f) /\ a0 \in new /\ \A x \in ran : x \in new
  BY MovesTo DEF Moves
<1>1. \A x : \A n \in Nat : <<x, n + 1>> # Over /\ <<x, 1>> # Over
  BY DEF Over
<1>2. ASSUME NEW g \in Func, pc'[g] = Over PROVE \E r \in new : r \in Return /\ FuncOf(r) = g
  <2>1. CASE pc[g] = Over
    BY <1>0, <2>1 DEF ThreadOrder
  <2>2. CASE g = f
    <3>1. a0 \in Return
      BY <1>0, <1>1, <1>2, <2>2 DEF Moves
    <3>2. QED BY <3>1, <1>0, <2>2
  <2>3. CASE g # f /\ pc[g] # Over
    <3>1. pc'[g] = <<Entry[g], 1>>
      BY <1>2, <2>3, FirstIs DEF Moves
    <3>2. QED BY <1>1, <1>2, <3>1
  <2>4. QED BY <2>1, <2>2, <2>3
<1>3. ASSUME NEW g \in Func, pc'[g] # Idle
      PROVE  g \in Main \/ \E a \in new : a \in CreateCall /\ At(a).fn = g
  <2>1. CASE pc[g] # Idle
    BY <1>0, <2>1 DEF ThreadOrder
  <2>2. CASE pc[g] = Idle
    <3>1. g # f /\ pc'[g] # pc[g]
      BY <1>0, <1>3, <2>2 DEF On
    <3>2. a0 \in CreateCall /\ At(a0).fn = g
      BY <3>1 DEF Moves
    <3>3. QED BY <1>0, <3>2
  <2>3. QED BY <2>1, <2>2
<1>4. ASSUME NEW b \in new, b \in JoinCall PROVE pc'[At(b).fn] = Over
  <2>1. At(b).fn \in Func
    BY <1>4, ProgramAssumption
  <2>2. pc[At(b).fn] = Over
    BY <1>4 DEF ThreadOrder, Moves
  <2>3. QED BY <1>0, <2>1, <2>2
<1>5. QED BY <1>2, <1>3, <1>4 DEF ThreadOrder

(* A step of a thread adds its instruction to what has run.                 *)
LEMMA HistoryStep ==
  ASSUME TypeInv, NEW f \in Func, Moves(f), NEW ran, NEW new, new = ran \cup {pc[f]},
         History(ran), Written(new)'
  PROVE  History(new)'
<1>1. ran \in SUBSET Instr /\ Behind(ran) /\ InOrderOf(ran) /\ ThreadOrder(ran)
  BY DEF History
<1>2. new \in SUBSET Instr
  BY <1>1, MovesTo
<1>3. Behind(new)' /\ InOrderOf(new)' /\ ThreadOrder(new)'
  BY <1>1, BehindStep, InOrderStep, ThreadOrderStep
<1>4. QED BY <1>2, <1>3 DEF History


-----------------------------------------------------------------------------
(* What the actions do.                                                     *)
LEMMA PcType ==
  ASSUME TypeInv, NEW f \in Func, Moves(f), pc' = [g \in Func |-> pc'[g]]
  PROVE  /\ pc' \in [Func -> Instr \cup {Idle, Over}]
         /\ \A g \in Func : On(g)' => FuncOf(pc'[g]) = g
<1>1. ASSUME NEW g \in Func
      PROVE  pc'[g] \in Instr \cup {Idle, Over} /\ (On(g)' => FuncOf(pc'[g]) = g)
  <2>1. CASE pc'[g] = pc[g]
    BY <2>1 DEF TypeInv, On
  <2>2. CASE pc'[g] = Over
    BY <2>2 DEF On
  <2>3. CASE pc'[g] = FirstOf(g)
    BY <2>3, FirstIs
  <2>4. CASE g = f /\ pc'[f] # Over
    <3> DEFINE a0 == pc[f]
    <3>0. /\ a0 \in Instr /\ FuncOf(a0) = f
          /\ a0[1] \in Node /\ a0[2] \in 1 .. Length(a0[1]) + 1 /\ Length(a0[1]) \in Nat
      BY MovesTo
    <3>1. CASE a0[2] \in 1 .. Length(a0[1]) /\ pc'[f] = <<a0[1], a0[2] + 1>>
      <4>1. a0[2] + 1 \in 1 .. Length(a0[1]) + 1
        BY <3>0, <3>1
      <4>2. pc'[f] \in Instr
        BY <3>0, <3>1, <4>1, InstrIs
      <4>3. FuncOf(pc'[f]) = f
        BY <3>0, <3>1 DEF FuncOf
      <4>4. QED BY <4>2, <4>3, <2>4
    <3>2. CASE \E c \in Succ[a0[1]] : pc'[f] = <<c, 1>>
      <4>1. PICK c \in Succ[a0[1]] : pc'[f] = <<c, 1>>
        BY <3>2
      <4>2. c \in Node /\ Blocks[c].fn = f
        BY <3>0, BlockIs DEF FuncOf
      <4>3. 1 \in 1 .. Length(c) + 1
        BY <4>2, BlockIs
      <4>4. pc'[f] \in Instr /\ FuncOf(pc'[f]) = f
        BY <4>1, <4>2, <4>3, InstrIs DEF FuncOf
      <4>5. QED BY <4>4, <2>4
    <3>3. QED BY <2>4, <3>1, <3>2 DEF Moves
  <2>5. QED BY <2>1, <2>2, <2>3, <2>4 DEF Moves
<1>2. QED BY <1>1

LEMMA RunningIs ==
  ASSUME TypeInv, NEW f \in Func, NEW ops, Running(f, ops)
  PROVE  On(f) /\ pc[f] \in Instr /\ FuncOf(pc[f]) = f /\ At(pc[f]).op \in ops
BY DEF TypeInv, On, Running

LEMMA AheadMoves ==
  ASSUME TypeInv, NEW f \in Func, NEW ops \in SUBSET (Plain \ {"create"}), Running(f, ops), Ahead(f),
         pc[f] \in JoinCall => pc[At(pc[f]).fn] = Over
  PROVE  Moves(f) /\ pc' = [g \in Func |-> pc'[g]]
<1>1. On(f) /\ pc[f] \in Instr /\ At(pc[f]).op \in Plain
  BY RunningIs
<1>2. pc[f][2] \in 1 .. Length(pc[f][1])
  BY <1>1, TermIs
<1>3. pc'[f] = <<pc[f][1], pc[f][2] + 1>> /\ (\A g \in Func \ {f} : pc'[g] = pc[g])
      /\ pc' = [g \in Func |-> pc'[g]]
  BY DEF Ahead, TypeInv
<1>4. QED BY <1>1, <1>2, <1>3 DEF Moves

LEMMA CreateMoves ==
  ASSUME TypeInv, NEW f \in Func, DoCreate(f)
  PROVE  Moves(f) /\ pc' = [g \in Func |-> pc'[g]]
<1> DEFINE h == At(pc[f]).fn
<1>1. On(f) /\ pc[f] \in Instr /\ At(pc[f]).op = "create"
  BY RunningIs DEF DoCreate
<1>2. pc[f] \in CreateCall /\ pc[f] \notin JoinCall
  BY <1>1, AccessIs DEF CreateCall, List
<1>3. pc[f][2] \in 1 .. Length(pc[f][1])
  BY <1>1, TermIs DEF Plain
<1>4. h \in Func /\ pc[h] = Idle /\ h # f
  BY <1>1, <1>2, ProgramAssumption DEF DoCreate, On
<1>5. pc' = [pc EXCEPT ![f] = <<pc[f][1], pc[f][2] + 1>>, ![h] = FirstOf(h)]
  BY DEF DoCreate
<1> HIDE DEF h
<1>6. /\ pc'[f] = <<pc[f][1], pc[f][2] + 1>> /\ pc'[h] = FirstOf(h)
      /\ \A g \in Func \ {f} : g # h => pc'[g] = pc[g]
      /\ pc' = [g \in Func |-> pc'[g]]
  BY <1>4, <1>5 DEF TypeInv
<1>7. QED BY <1>1, <1>2, <1>3, <1>4, <1>6 DEF Moves, h

LEMMA TermMoves ==
  ASSUME TypeInv, NEW f \in Func, DoTerm(f)
  PROVE  Moves(f) /\ pc' = [g \in Func |-> pc'[g]]
<1>1. On(f) /\ pc[f] \in Instr /\ At(pc[f]).op = "term"
  BY RunningIs DEF DoTerm
<1>2. pc[f] \notin JoinCall
  BY <1>1, AccessIs
<1>3. pc[f][2] = Length(pc[f][1]) + 1
  BY <1>1, TermIs
<1>4. CASE Succ[pc[f][1]] = {}
  <2>1. pc[f] \in Return
    BY <1>1, <1>4 DEF Return
  <2>2. pc' = [pc EXCEPT ![f] = Over]
    BY <1>4 DEF DoTerm
  <2>3. pc'[f] = Over /\ (\A g \in Func \ {f} : pc'[g] = pc[g]) /\ pc' = [g \in Func |-> pc'[g]]
    BY <2>2 DEF TypeInv
  <2>4. QED BY <1>1, <1>2, <2>1, <2>3 DEF Moves
<1>5. CASE Succ[pc[f][1]] # {}
  <2>1. PICK c \in Succ[pc[f][1]] : pc' = [pc EXCEPT ![f] = <<c, 1>>]
    BY <1>5 DEF DoTerm
  <2>2. pc'[f] = <<c, 1>> /\ (\A g \in Func \ {f} : pc'[g] = pc[g]) /\ pc' = [g \in Func |-> pc'[g]]
    BY <2>1 DEF TypeInv
  <2>3. QED BY <1>1, <1>2, <1>3, <2>2 DEF Moves
<1>6. QED BY <1>4, <1>5

LEMMA Newest ==
  ASSUME NEW n \in Nat, NEW S \in SUBSET (1 .. n), S # {}
  PROVE  \E m \in S : \A j \in S : j <= m
<1> DEFINE D == {n - i : i \in S}
<1>1. D \in SUBSET Nat /\ D # {}
  <2>1. \A i \in S : n - i \in Nat
    OBVIOUS
  <2>2. QED BY <2>1
<1>2. PICK d \in D : \A e \in D : d <= e
  <2> HIDE DEF D
  <2> QED BY <1>1, LeastOf
<1>3. PICK m \in S : d = n - m
  BY <1>2
<1>4. ASSUME NEW j \in S PROVE j <= m
  <2>1. n - m <= n - j
    BY <1>2, <1>3
  <2>2. j \in 1 .. n /\ m \in 1 .. n
    OBVIOUS
  <2>3. QED BY <2>1, <2>2
<1>5. QED BY <1>4

(* A load sees what its variable holds, or a store that is still buffered.  *)
LEMMA VisibleIs ==
  ASSUME TypeInv, NEW f \in Func, NEW v \in Var
  PROVE  Visible(f, v) = mem[v] \/ \E i \in DOMAIN buf[f] : Visible(f, v) = buf[f][i]
<1> DEFINE pending == {i \in DOMAIN buf[f] : At(buf[f][i]).ptr = v}
<1>1. Len(buf[f]) \in Nat /\ DOMAIN buf[f] = 1 .. Len(buf[f])
  BY DEF TypeInv
<1>2. Visible(f, v) = IF pending = {} THEN mem[v] ELSE buf[f][CHOOSE i \in pending : \A j \in pending : j <= i]
  BY Zenon DEF Visible
<1>3. pending \in SUBSET (1 .. Len(buf[f])) /\ \A i \in pending : i \in DOMAIN buf[f]
  BY <1>1
<1> HIDE DEF pending
<1>4. CASE pending # {}
  <2>1. \E i \in pending : \A j \in pending : j <= i
    BY <1>1, <1>3, <1>4, Newest
  <2>2. PICK i \in pending : i = CHOOSE k \in pending : \A j \in pending : j <= k
    BY <2>1, Zenon
  <2>3. QED BY <1>2, <1>3, <1>4, <2>2
<1>5. QED BY <1>2, <1>4

LEMMA BufferIs ==
  ASSUME NEW A, NEW s \in Seq(A)
  PROVE  /\ \A i \in DOMAIN s : s[i] \in A
         /\ \A e \in A : /\ Append(s, e) \in Seq(A)
                         /\ \A k \in DOMAIN Append(s, e) : Append(s, e)[k] = e \/ \E i \in DOMAIN s : Append(s, e)[k] = s[i]
         /\ \A i \in DOMAIN s :
              LET w == SubSeq(s, 1, i - 1) \o SubSeq(s, i + 1, Len(s))
              IN  w \in Seq(A) /\ \A k \in DOMAIN w : \E j \in DOMAIN s : w[k] = s[j]
<1>1. \A i \in DOMAIN s : s[i] \in A
  OBVIOUS
<1>2. ASSUME NEW e \in A
      PROVE  /\ Append(s, e) \in Seq(A)
             /\ \A k \in DOMAIN Append(s, e) : Append(s, e)[k] = e \/ \E i \in DOMAIN s : Append(s, e)[k] = s[i]
  <2>1. Append(s, e) \in Seq(A)
    OBVIOUS
  <2>2. ASSUME NEW k \in DOMAIN Append(s, e), k # Len(s) + 1 PROVE Append(s, e)[k] = s[k] /\ k \in DOMAIN s
    BY <2>2
  <2>3. Append(s, e)[Len(s) + 1] = e
    OBVIOUS
  <2>4. QED BY <2>1, <2>2, <2>3
<1>3. ASSUME NEW i \in DOMAIN s
      PROVE  LET w == SubSeq(s, 1, i - 1) \o SubSeq(s, i + 1, Len(s))
             IN  w \in Seq(A) /\ \A k \in DOMAIN w : \E j \in DOMAIN s : w[k] = s[j]
  <2> DEFINE B == {s[j] : j \in DOMAIN s}
             w == SubSeq(s, 1, i - 1) \o SubSeq(s, i + 1, Len(s))
  <2>1. i \in 1 .. Len(s) /\ Len(s) \in Nat /\ B \subseteq A
    BY <1>1
  <2>2. s \in Seq(B)
    OBVIOUS
  <2> HIDE DEF B
  <2>3. w \in Seq(B)
    <3>1. SubSeq(s, 1, i - 1) \in Seq(B) /\ SubSeq(s, i + 1, Len(s)) \in Seq(B)
      BY <2>1, <2>2
    <3>2. QED BY <3>1
  <2> HIDE DEF w
  <2>4. w \in Seq(A) /\ \A k \in DOMAIN w : w[k] \in B
    BY <2>1, <2>3
  <2>5. QED BY <2>4 DEF B, w
<1>4. QED BY <1>1, <1>2, <1>3


(* The invariant of a step, for what it does to the memory and the buffers. *)
LEMMA Stored ==
  /\ \A a \in Load \cup Store : At(a).ptr \in Var
  /\ \A f \in Func : \A s \in Store : FuncOf(s) = f => s \in StoresOf(f)
  /\ \A f \in Func : StoresOf(f) \subseteq Store
BY DEF Var, StoresOf

LEMMA LoadStep ==
  ASSUME TypeInv, NEW f \in Func, DoLoad(f), NEW ran, NEW new, new = ran \cup {pc[f]}, History(ran)
  PROVE  /\ TypeInv' /\ History(new)'
         /\ pc[f] \in Load /\ On(f)
         /\ reads' = reads \/ \E s \in ran : s \in Store /\ reads' = reads \cup {<<pc[f], s>>}
<1> DEFINE l == pc[f]
           v == At(l).ptr
           s == Visible(f, v)
<1>1. On(f) /\ l \in Instr /\ At(l).op = "load"
  BY RunningIs DEF DoLoad
<1>2. l \in Load /\ v \in Var /\ l \notin JoinCall
  BY <1>1, AccessIs, Stored DEF Load, List
<1>3. Moves(f) /\ pc' = [g \in Func |-> pc'[g]]
  <2>1. Running(f, {"load"}) /\ Ahead(f) /\ {"load"} \in SUBSET (Plain \ {"create"})
    BY DEF DoLoad, Plain
  <2>2. QED BY <1>2, <2>1, AheadMoves
<1>4. s \in ran \cup {Initially} /\ s \in Source
  <2>1. mem[v] \in ran \cup {Initially} /\ mem[v] \in Source
    BY <1>2 DEF History, Written, TypeInv
  <2>2. ASSUME NEW i \in DOMAIN buf[f] PROVE buf[f][i] \in ran /\ buf[f][i] \in Source
    BY BufferIs, Stored DEF History, Written, TypeInv, Source
  <2>3. QED BY <1>2, <2>1, <2>2, VisibleIs
<1>5. /\ may' = [may EXCEPT ![l] = @ \cap Explains(f, l, s)]
      /\ reads' = IF s = Initially THEN reads ELSE reads \cup {<<l, s>>}
      /\ view' = [view EXCEPT ![f][v] = s]
      /\ UNCHANGED <<model, mem, buf>>
  BY DEF DoLoad
<1> HIDE DEF l, v, s
<1>6. s = Initially \/ (s \in ran /\ s \in Store)
  BY <1>4 DEF Source
<1>7. view' \in [Func -> [Var -> Source]]
  BY <1>2, <1>4, <1>5 DEF TypeInv
<1>8. may' = [k \in Load |-> may'[k]] /\ \A k \in Load : may'[k] \subseteq Readings(k)
  <2> DEFINE C(k) == Readings(k)
  <2>1. may = [k \in Load |-> may[k]] /\ \A k \in Load : may[k] \subseteq C(k)
    BY DEF TypeInv
  <2> DEFINE X == Explains(f, l, s)
  <2>2. may' = [may EXCEPT ![l] = @ \cap X]
    BY <1>5
  <2> HIDE DEF C, X
  <2>3. may' = [k \in Load |-> may'[k]] /\ \A k \in Load : may'[k] \subseteq C(k)
    BY <2>1, <2>2, <1>2
  <2>4. QED BY <2>3 DEF C
<1>9. pc' \in [Func -> Instr \cup {Idle, Over}] /\ \A g \in Func : On(g)' => FuncOf(pc'[g]) = g
  BY <1>3, PcType
<1>10. reads' \subseteq Load \X Store
  BY <1>2, <1>5, <1>6 DEF TypeInv
<1>11. TypeInv'
  <2>1. /\ model' \in Models /\ mem' \in [Var -> Source] /\ buf' = [g \in Func |-> buf'[g]]
        /\ \A g \in Func : buf'[g] \in Seq(StoresOf(g))
    BY <1>5 DEF TypeInv
  <2>2. QED BY <1>7, <1>8, <1>9, <1>10, <2>1 DEF TypeInv
<1>12. Written(new)'
  BY <1>5 DEF History, Written
<1>13. History(new)'
  BY <1>3, <1>12, HistoryStep
<1>14. QED BY <1>1, <1>2, <1>5, <1>6, <1>11, <1>13 DEF l

LEMMA StoreStep ==
  ASSUME TypeInv, NEW f \in Func, DoStore(f), NEW ran, NEW new, new = ran \cup {pc[f]}, History(ran)
  PROVE  TypeInv' /\ History(new)' /\ reads' = reads
<1> DEFINE s == pc[f]
           v == At(s).ptr
<1>1. On(f) /\ s \in Instr /\ At(s).op = "store" /\ FuncOf(s) = f
  BY RunningIs DEF DoStore
<1>2. s \in Store /\ v \in Var /\ s \notin JoinCall /\ s \in StoresOf(f) /\ s \in Source
  BY <1>1, AccessIs, Stored DEF Store, List, Source
<1>3. Moves(f) /\ pc' = [g \in Func |-> pc'[g]]
  <2>1. Running(f, {"store"}) /\ Ahead(f) /\ {"store"} \in SUBSET (Plain \ {"create"})
    BY DEF DoStore, Plain
  <2>2. QED BY <1>2, <2>1, AheadMoves
<1>4. /\ IF model = "sc"
           THEN mem' = [mem EXCEPT ![v] = s] /\ buf' = buf
           ELSE buf' = [buf EXCEPT ![f] = Append(@, s)] /\ mem' = mem
      /\ view' = [view EXCEPT ![f][v] = s]
      /\ UNCHANGED <<model, may, reads>>
  BY DEF DoStore
<1>5. s \in new
  OBVIOUS
<1> HIDE DEF s, v
<1>6. view' \in [Func -> [Var -> Source]] /\ mem' \in [Var -> Source]
  BY <1>2, <1>4 DEF TypeInv
<1>7. pc' \in [Func -> Instr \cup {Idle, Over}] /\ \A g \in Func : On(g)' => FuncOf(pc'[g]) = g
  BY <1>3, PcType
<1>8. /\ buf' = [g \in Func |-> buf'[g]]
      /\ \A g \in Func : buf'[g] = buf[g] \/ (g = f /\ buf'[g] = Append(buf[f], s))
  BY <1>4 DEF TypeInv
<1>8a. /\ Append(buf[f], s) \in Seq(StoresOf(f))
      /\ \A k \in DOMAIN Append(buf[f], s) :
           Append(buf[f], s)[k] = s \/ \E j \in DOMAIN buf[f] : Append(buf[f], s)[k] = buf[f][j]
  <2>1. buf[f] \in Seq(StoresOf(f))
    BY DEF TypeInv
  <2>2. QED BY <1>2, <2>1, BufferIs
<1>9. \A g \in Func : buf'[g] \in Seq(StoresOf(g))
  BY <1>8, <1>8a DEF TypeInv
<1>10. TypeInv'
  <2>1. model' \in Models /\ may' = [k \in Load |-> may'[k]] /\ reads' \subseteq Load \X Store
        /\ \A k \in Load : may'[k] \subseteq Readings(k)
    BY <1>4 DEF TypeInv
  <2>2. QED BY <1>6, <1>7, <1>8, <1>9, <2>1 DEF TypeInv
<1>11. Written(new)'
  <2>1. \A w \in Var : mem'[w] = s \/ mem'[w] = mem[w]
    BY <1>4 DEF TypeInv
  <2>2. ASSUME NEW g \in Func, NEW i \in DOMAIN buf'[g]
        PROVE  buf'[g][i] = s \/ \E j \in DOMAIN buf[g] : buf'[g][i] = buf[g][j]
    BY <1>8, <1>8a
  <2>3. QED BY <1>5, <2>1, <2>2 DEF History, Written
<1>12. History(new)'
  BY <1>3, <1>11, HistoryStep
<1>13. QED BY <1>4, <1>10, <1>12

(* The steps that leave the memory and the buffers alone. *)
LEMMA QuietStep ==
  ASSUME TypeInv, NEW f \in Func, DoFence(f) \/ DoCreate(f) \/ DoJoin(f) \/ DoTerm(f),
         NEW ran, NEW new, new = ran \cup {pc[f]}, History(ran)
  PROVE  TypeInv' /\ History(new)' /\ reads' = reads
<1>1. UNCHANGED <<model, mem, buf, may, reads>>
  BY DEF DoFence, DoCreate, DoJoin, DoTerm
<1>2. Moves(f) /\ pc' = [g \in Func |-> pc'[g]]
  <2>1. CASE DoFence(f)
    <3>1. Running(f, {"fence"}) /\ Ahead(f) /\ {"fence"} \in SUBSET (Plain \ {"create"})
      BY <2>1 DEF DoFence, Plain
    <3>2. pc[f] \notin JoinCall
      BY <3>1, RunningIs, AccessIs
    <3>3. QED BY <3>1, <3>2, AheadMoves
  <2>2. CASE DoJoin(f)
    <3>1. Running(f, {"join"}) /\ Ahead(f) /\ {"join"} \in SUBSET (Plain \ {"create"})
      BY <2>2 DEF DoJoin, Plain
    <3>2. QED BY <2>2, <3>1, AheadMoves DEF DoJoin
  <2>3. CASE DoCreate(f)
    BY <2>3, CreateMoves
  <2>4. CASE DoTerm(f)
    BY <2>4, TermMoves
  <2>5. QED BY <2>1, <2>2, <2>3, <2>4
<1>3. view' \in [Func -> [Var -> Source]]
  <2>1. CASE view' = view
    BY <2>1 DEF TypeInv
  <2>2. CASE DoCreate(f)
    BY <2>2 DEF DoCreate, TypeInv
  <2>3. QED BY <2>1, <2>2 DEF DoFence, DoJoin, DoTerm
<1>4. pc' \in [Func -> Instr \cup {Idle, Over}] /\ \A g \in Func : On(g)' => FuncOf(pc'[g]) = g
  BY <1>2, PcType
<1>5. TypeInv'
  BY <1>1, <1>3, <1>4 DEF TypeInv
<1>6. Written(new)'
  BY <1>1 DEF History, Written
<1>7. History(new)'
  BY <1>2, <1>6, HistoryStep
<1>8. QED BY <1>1, <1>5, <1>7

LEMMA FlushStep ==
  ASSUME TypeInv, NEW f \in Func, Flush(f), NEW ran, History(ran)
  PROVE  TypeInv' /\ History(ran)' /\ reads' = reads
<1>1. PICK i \in DOMAIN buf[f] :
        /\ mem' = [mem EXCEPT ![At(buf[f][i]).ptr] = buf[f][i]]
        /\ buf' = [buf EXCEPT ![f] = SubSeq(@, 1, i - 1) \o SubSeq(@, i + 1, Len(@))]
        /\ UNCHANGED <<model, pc, view, may, reads>>
  BY DEF Flush
<1> DEFINE s == buf[f][i]
           w == SubSeq(buf[f], 1, i - 1) \o SubSeq(buf[f], i + 1, Len(buf[f]))
<1>2. s \in StoresOf(f) /\ s \in ran
  BY BufferIs DEF TypeInv, History, Written
<1>3. s \in Store /\ s \in Source /\ At(s).ptr \in Var
  BY <1>2, Stored DEF Source
<1>4. w \in Seq(StoresOf(f)) /\ \A k \in DOMAIN w : \E j \in DOMAIN buf[f] : w[k] = buf[f][j]
  <2>1. buf[f] \in Seq(StoresOf(f))
    BY DEF TypeInv
  <2>2. QED BY <2>1, BufferIs
<1>5. mem' = [mem EXCEPT ![At(s).ptr] = s] /\ buf' = [buf EXCEPT ![f] = w]
  BY <1>1
<1> HIDE DEF s, w
<1>6. mem' \in [Var -> Source] /\ \A v \in Var : mem'[v] = s \/ mem'[v] = mem[v]
  BY <1>3, <1>5 DEF TypeInv
<1>7. buf' = [g \in Func |-> buf'[g]] /\ \A g \in Func : buf'[g] = buf[g] \/ (g = f /\ buf'[g] = w)
  BY <1>5 DEF TypeInv
<1>8. TypeInv'
  <2>1. \A g \in Func : buf'[g] \in Seq(StoresOf(g))
    BY <1>4, <1>7 DEF TypeInv
  <2>2. QED BY <1>1, <1>6, <1>7, <2>1 DEF TypeInv, On
<1>9. Written(ran)'
  BY <1>2, <1>4, <1>6, <1>7 DEF History, Written
<1>10. Behind(ran)' /\ InOrderOf(ran)' /\ ThreadOrder(ran)'
  BY <1>1 DEF History, Behind, InOrderOf, ThreadOrder, On, ToCome
<1>11. QED BY <1>1, <1>8, <1>9, <1>10 DEF History


-----------------------------------------------------------------------------
(* What the filter removes.                                                 *)
LEMMA FilteredIs ==
  ASSUME NEW mm \in Models, NEW p \in FilteredByMHB[mm]
  PROVE  p[2] \in MHB(mm, {})[p[1]]
<1>1. FilteredByMHB =
        [m \in Models |-> UNION {{q \in InterferingStores : q[2] \in mhb[q[1]]} : mhb \in {MHB(m, {})}}]
  BY TableIs, Zenon DEF FilteredByMHB
<1>2. FilteredByMHB[mm] = UNION {{q \in InterferingStores : q[2] \in mhb[q[1]]} : mhb \in {MHB(mm, {})}}
  BY <1>1, Zenon
<1>3. QED BY <1>2

LEMMA BaseIs ==
  ASSUME NEW mm \in Models, NEW a \in Instr, NEW b
  PROVE  b \in BaseMHB[mm][a] <=> b \in Instr /\ (CreateMHB(a, b) \/ JoinMHB(a, b) \/ DomNotReach(mm, a, b))
<1> DEFINE Rel(m) == [c \in Instr |-> {d \in Instr : CreateMHB(c, d) \/ JoinMHB(c, d) \/ DomNotReach(m, c, d)}]
<1>1. BaseMHB = [m \in Models |-> Table(Rel(m))]
  BY TableIs, Zenon DEF BaseMHB
<1>2. BaseMHB[mm] = Rel(mm)
  BY <1>1, TableIs, Zenon
<1>3. BaseMHB[mm][a] = {d \in Instr : CreateMHB(a, d) \/ JoinMHB(a, d) \/ DomNotReach(mm, a, d)}
  BY <1>2, Zenon
<1>4. QED BY <1>3, Zenon

(* What has run is closed under what must happen before it: a function has  *)
(* been created where it is created, and its thread has returned where it   *)
(* returns.                                                                 *)
LEMMA BeforeHasRun ==
  ASSUME CreatedOnce, OneReturn, NEW ran, History(ran), NEW mm \in Models, NEW a \in Instr,
         NEW b \in ran, b \in BaseMHB[mm][a]
  PROVE  a \in ran
<1>0. b \in Instr /\ (CreateMHB(a, b) \/ JoinMHB(a, b) \/ DomNotReach(mm, a, b))
  BY BaseIs
<1>1. CASE CreateMHB(a, b)
  <2> DEFINE g == At(a).fn
  <2>1. a \in CreateCall /\ g \in Func /\ b = FirstOf(g)
    BY <1>1, ProgramAssumption DEF CreateMHB
  <2>2. FuncOf(b) = g
    BY <2>1, FirstIs
  <2>3. pc[g] # Idle
    BY <2>2 DEF History, InOrderOf
  <2>4. g \notin Main
    BY <2>1 DEF CreatedOnce
  <2>5. PICK c \in ran : c \in CreateCall /\ At(c).fn = g
    BY <2>1, <2>3, <2>4 DEF History, ThreadOrder
  <2>6. c = a
    BY <2>1, <2>5 DEF CreatedOnce
  <2>7. QED BY <2>6
<1>2. CASE JoinMHB(a, b)
  <2>1. b \in JoinCall /\ At(b).fn \in Func /\ FuncOf(a) = At(b).fn /\ a \in Return
    BY <1>2, ProgramAssumption DEF JoinMHB, Return
  <2>2. pc[FuncOf(a)] = Over
    BY <2>1 DEF History, ThreadOrder
  <2>3. PICK r \in ran : r \in Return /\ FuncOf(r) = FuncOf(a)
    BY <2>1, <2>2 DEF History, ThreadOrder
  <2>4. r = a
    BY <2>1, <2>3 DEF OneReturn
  <2>5. QED BY <2>4
<1>3. CASE DomNotReach(mm, a, b)
  BY <1>3 DEF DomNotReach, History, InOrderOf
<1>4. QED BY <1>0, <1>1, <1>2, <1>3

(* A load about to run precedes nothing that has run.                       *)
LEMMA NotFilteredNow ==
  ASSUME CreatedOnce, OneReturn, TypeInv, NEW ran, History(ran), NEW f \in Func, On(f), pc[f] \in Load,
         NEW s \in ran
  PROVE  <<pc[f], s>> \notin FilteredByMHB[model]
<1> DEFINE l == pc[f]
           C == [a \in Instr |-> {b \in Instr : b \in ran => a \in ran /\ \E c \in ran : c \in BaseMHB[model][a]}]
<1>0. l \in Instr /\ At(l).op = "load" /\ FuncOf(l) = f /\ model \in Models /\ ran \in SUBSET Instr
  BY AccessIs DEF TypeInv, History
<1> SUFFICES ASSUME <<l, s>> \in FilteredByMHB[model] PROVE FALSE
  OBVIOUS
<1>1. s \in MHB(model, {})[l]
  <2>1. <<l, s>>[1] = l /\ <<l, s>>[2] = s
    OBVIOUS
  <2>2. QED BY <1>0, <2>1, FilteredIs, Zenon
<1>2. C \in Relation(Instr)
  BY DEF Relation
<1>3. \A a \in Instr : BaseMHB[model][a] \subseteq C[a]
  <2> SUFFICES ASSUME NEW a \in Instr, NEW b \in BaseMHB[model][a]
               PROVE  b \in Instr /\ (b \in ran => a \in ran /\ \E c \in ran : c \in BaseMHB[model][a])
    OBVIOUS
  <2>1. b \in Instr
    BY <1>0, BaseIs
  <2>2. QED BY <1>0, <2>1, BeforeHasRun
<1>4. \A a, b, c \in Instr : b \in C[a] /\ c \in C[b] => c \in C[a]
  OBVIOUS
<1>5. s \in C[l]
  <2> HIDE DEF C
  <2>1. \A a \in Instr : MHB(model, {})[a] \subseteq C[a]
    BY <1>0, <1>2, <1>3, <1>4, InstrFinite, MHBBelow
  <2>2. QED BY <1>0, <1>1, <2>1
<1>6. PICK c \in ran : c \in BaseMHB[model][l]
  BY <1>0, <1>5
<1>7. c \in Instr /\ DomNotReach(model, l, c)
  <2>1. ~ CreateMHB(l, c)
    BY <1>0, AccessIs DEF CreateMHB
  <2>2. ~ JoinMHB(l, c)
    BY <1>0 DEF JoinMHB
  <2>3. QED BY <1>0, <1>6, <2>1, <2>2, BaseIs
<1>8. Dom(l, c) /\ FuncOf(c) = f /\ l[1] \notin Reaches[c[1]]
  BY <1>0, <1>7 DEF DomNotReach, NotReach
<1>9. l[1] \in Node /\ l[2] \in Int /\ c[1] \in Node /\ c[2] \in Int
  BY <1>0, <1>7, InstrIs, BlockIs
<1>10. ToCome(f, l)
  BY <1>9 DEF ToCome
<1>11. l[1] = c[1] /\ l[2] > c[2]
  BY <1>0, <1>8, <1>10 DEF History, InOrderOf
<1>12. c[1] \in DominatedBy[l[1]]
  BY <1>8, <1>9, <1>11 DEF Dom
<1>13. Dominates(l[1], c[1])
  BY <1>9, <1>12, DominatedIs
<1>14. QED BY <1>11, <1>13 DEF Dominates

-----------------------------------------------------------------------------
(* The invariant: there is a history that explains the state.  No load has  *)
(* read what the filter removes, as what it read had run before it did.     *)
Explained == TypeInv /\ \E ran \in SUBSET Instr : History(ran)

LEMMA InitExplained == Init => Explained
<1> SUFFICES ASSUME Init PROVE Explained
  OBVIOUS
<1>1. PICK m \in Main : pc = [f \in Func |-> IF f = m THEN FirstOf(m) ELSE Idle]
  BY DEF Init
<1>2. m \in Func
  BY ProgramAssumption
<1>3. \A f \in Func : IF f = m THEN pc[f] = <<Entry[f], 1>> /\ pc[f] = FirstOf(f) ELSE pc[f] = Idle
  BY <1>1, <1>2, FirstIs
<1>4. Initially \in Source /\ \A f \in Func : <<>> \in Seq(StoresOf(f))
  BY DEF Source
<1>5. TypeInv
  <2>1. pc \in [Func -> Instr \cup {Idle, Over}] /\ \A f \in Func : On(f) => FuncOf(pc[f]) = f
    BY <1>1, <1>2, FirstIs DEF On
  <2>2. /\ mem \in [Var -> Source] /\ view \in [Func -> [Var -> Source]]
        /\ buf = [f \in Func |-> buf[f]] /\ \A f \in Func : buf[f] \in Seq(StoresOf(f))
    BY <1>4 DEF Init
  <2>3. may = [l \in Load |-> may[l]] /\ \A l \in Load : may[l] \subseteq Readings(l)
    BY Zenon DEF Init
  <2>4. model \in Models /\ reads \subseteq Load \X Store
    BY DEF Init
  <2>5. QED BY <2>1, <2>2, <2>3, <2>4 DEF TypeInv
<1>6. Written({})
  BY DEF Written, Init
<1>7. Behind({})
  <2> SUFFICES ASSUME NEW f \in Func, On(f)
               PROVE  /\ \A k \in 1 .. pc[f][2] - 1 : <<pc[f][1], k>> \in {}
                      /\ \A b \in Node : Blocks[b].fn = f /\ b # pc[f][1] =>
                           FullyRan({}, b) \/ (b # Entry[f] /\ pc[f][1] \in {Entry[f]} \cup Avoiding[b][Entry[f]])
    BY Zenon DEF Behind
  <2>1. pc[f] = <<Entry[f], 1>>
    BY <1>3 DEF On
  <2>2. QED BY <2>1
<1>8. InOrderOf({})
  BY DEF InOrderOf
<1>9. ThreadOrder({})
  <2>1. \A f \in Func : pc[f] # Over
    <3>1. Idle # Over /\ \A x : <<x, 1>> # Over
      BY DEF Idle, Over
    <3>2. QED BY <3>1, <1>3
  <2>2. \A f \in Func : pc[f] # Idle => f \in Main
    BY <1>3
  <2>3. QED BY <2>1, <2>2 DEF ThreadOrder
<1>10. History({})
  BY <1>6, <1>7, <1>8, <1>9 DEF History
<1>11. QED BY <1>5, <1>10 DEF Explained

(* A step keeps it, and a load reads from what has run. *)
LEMMA NextExplained ==
  ASSUME Explained, [Next]_vars
  PROVE  /\ Explained'
         /\ \/ reads' = reads
            \/ \E ran \in SUBSET Instr : \E f \in Func : \E s \in ran :
                 /\ History(ran) /\ On(f) /\ pc[f] \in Load
                 /\ reads' = reads \cup {<<pc[f], s>>}
         /\ model' = model
<1>1. PICK ran \in SUBSET Instr : History(ran)
  BY DEF Explained
<1>2. TypeInv
  BY DEF Explained
<1>3. CASE UNCHANGED vars
  <2>1. TypeInv'
    BY <1>2, <1>3 DEF TypeInv, vars, On
  <2>2. History(ran)'
    BY <1>1, <1>3 DEF History, Written, Behind, InOrderOf, ThreadOrder, On, ToCome, vars
  <2>3. QED BY <1>3, <2>1, <2>2 DEF Explained, vars
<1>4. CASE Next
  <2>1. PICK f \in Func : \/ DoLoad(f) \/ DoStore(f) \/ Flush(f) \/ DoFence(f)
                          \/ DoCreate(f) \/ DoJoin(f) \/ DoTerm(f)
    BY <1>4 DEF Next
  <2>0. PICK new : new = ran \cup {pc[f]}
    OBVIOUS
  <2>2. model' = model
    BY <2>1 DEF DoLoad, DoStore, Flush, DoFence, DoCreate, DoJoin, DoTerm
  <2>3. CASE DoLoad(f)
    <3>1. /\ TypeInv' /\ History(new)' /\ pc[f] \in Load /\ On(f)
          /\ reads' = reads \/ \E s \in ran : s \in Store /\ reads' = reads \cup {<<pc[f], s>>}
      BY <1>1, <1>2, <2>0, <2>3, LoadStep
    <3>2. Explained'
      BY <3>1 DEF Explained, History
    <3>3. ran \in SUBSET Instr
      OBVIOUS
    <3>4. QED BY <1>1, <2>2, <3>1, <3>2, <3>3
  <2>4. CASE DoStore(f)
    <3>1. TypeInv' /\ History(new)' /\ reads' = reads
      BY <1>1, <1>2, <2>0, <2>4, StoreStep
    <3>2. QED BY <2>2, <3>1 DEF Explained, History
  <2>5. CASE DoFence(f) \/ DoCreate(f) \/ DoJoin(f) \/ DoTerm(f)
    <3>1. TypeInv' /\ History(new)' /\ reads' = reads
      BY <1>1, <1>2, <2>0, <2>5, QuietStep
    <3>2. QED BY <2>2, <3>1 DEF Explained, History
  <2>6. CASE Flush(f)
    <3>1. TypeInv' /\ History(ran)' /\ reads' = reads
      BY <1>1, <1>2, <2>6, FlushStep
    <3>2. QED BY <2>2, <3>1 DEF Explained
  <2>7. QED BY <2>1, <2>3, <2>4, <2>5, <2>6
<1>5. QED BY <1>3, <1>4

(* The machine's variables have their types: a thread is in its function,   *)
(* and a buffer holds stores of its thread.                                 *)
THEOREM MachineType == Spec => []TypeOK
<1>1. Explained => TypeOK
  <2> SUFFICES ASSUME TypeInv PROVE TypeOK
    BY DEF Explained
  <2>1. \A f \in Func : \A i \in DOMAIN buf[f] : buf[f][i] \in StoresOf(f)
    BY BufferIs DEF TypeInv
  <2>2. QED BY <2>1 DEF TypeInv, TypeOK
<1>2. Explained /\ [Next]_vars => Explained'
  BY NextExplained
<1>3. QED BY <1>1, <1>2, InitExplained, PTL DEF Spec

(* For every program, memory model and execution: if a function is created  *)
(* at one place, which no main function is, and returns at one place, then  *)
(* no load reads from a store that -filter-mhb has removed                  *)
(* (worklistai.cpp: filterMHBInterfs).                                      *)
THEOREM FilterIsSound == CreatedOnce /\ OneReturn => (Spec => []FilteredNeverRead)
<1> SUFFICES ASSUME CreatedOnce, OneReturn PROVE Spec => []FilteredNeverRead
  OBVIOUS
<1>1. Init => FilteredNeverRead
  BY DEF Init, FilteredNeverRead
<1>2. Explained /\ FilteredNeverRead /\ [Next]_vars => FilteredNeverRead'
  <2> SUFFICES ASSUME Explained, FilteredNeverRead, [Next]_vars PROVE FilteredNeverRead'
    OBVIOUS
  <2>1. model' = model /\ TypeInv
    BY NextExplained DEF Explained
  <2>2. CASE reads' = reads
    BY <2>1, <2>2 DEF FilteredNeverRead
  <2>3. CASE reads' # reads
    <3>1. PICK ran \in SUBSET Instr, f \in Func :
                 \E s \in ran : /\ History(ran) /\ On(f) /\ pc[f] \in Load
                                /\ reads' = reads \cup {<<pc[f], s>>}
      BY <2>3, NextExplained
    <3>2. PICK s \in ran : /\ History(ran) /\ On(f) /\ pc[f] \in Load
                           /\ reads' = reads \cup {<<pc[f], s>>}
      BY <3>1
    <3>3. <<pc[f], s>> \notin FilteredByMHB[model]
      BY <2>1, <3>2, NotFilteredNow
    <3>4. FilteredByMHB[model'] = FilteredByMHB[model]
      BY <2>1
    <3>5. QED BY <3>2, <3>3, <3>4 DEF FilteredNeverRead
  <2>4. QED BY <2>2, <2>3
<1>3. Explained /\ [Next]_vars => Explained'
  BY NextExplained
<1>4. QED BY <1>1, <1>2, <1>3, InitExplained, PTL DEF Spec

===============================================================================
