---------------------------- MODULE MCValToStrDB ----------------------------
(***************************************************************************)
(* ValToStrDB on an instruction, an argument, a global, the expressions  *)
(* that cast it and cast it twice, an integer and a cast of one.           *)
(***************************************************************************)
EXTENDS ValToStrDB, TLC

MCKind ==
  ("i1" :> "inst") @@ ("a1" :> "arg") @@ ("g1" :> "global") @@
  [v \in {"cast(g1)", "cast(cast(g1))", "cast(5)"} |-> "expr"] @@ ("5" :> "int")

MCValue == DOMAIN MCKind

MCUse == ("cast(g1)" :> "g1") @@ ("cast(cast(g1))" :> "cast(g1)") @@ ("cast(5)" :> "5")

MCStars == [v \in MCValue |-> CASE v \in {"i1", "5"} -> 0 [] v = "a1" -> 2 [] OTHER -> 1]
=============================================================================
