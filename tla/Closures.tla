------------------------------- MODULE Closures -------------------------------
(***************************************************************************)
(* What the transitive closures of Constraints are meant to be.            *)
(***************************************************************************)
EXTENDS Constraints

ClosedRelation(Q) == \A a \in Node : \A b \in Q[a] : Q[b] \subseteq Q[a]

(* The closure of a relation is the least transitive one that contains it. *)
ClosuresAreLeast ==
  \A R \in Relation(Node) :
    /\ TransClosure(R) \in Relation(Node) /\ ClosedRelation(TransClosure(R))
    /\ \A a \in Node : R[a] \subseteq TransClosure(R)[a]
    /\ \A Q \in Relation(Node) :
         ClosedRelation(Q) /\ (\A a \in Node : R[a] \subseteq Q[a]) =>
           \A a \in Node : TransClosure(R)[a] \subseteq Q[a]

===============================================================================
