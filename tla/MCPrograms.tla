----------------------------- MODULE MCPrograms -----------------------------
(***************************************************************************)
(* How the programs of MCAnalyzedProgram and MCLateThread are written: x   *)
(* and y are shared, r and c are registers.                                *)
(***************************************************************************)
EXTENDS AnalyzedProgram

MCVar == {"x", "y", "r", "c"}

(* A program is written as a sequence of <<block, function, body, end>>;    *)
(* an end is <<>>, <<b>> or <<k, t, f>>, which branches on the comparison at *)
(* index k of the block.                                                    *)
Decoded(i) ==
  CASE i[1] = "create" -> [op |-> "create", fn |-> i[2]]
    [] i[1] = "join"   -> [op |-> "join", fn |-> i[2]]
    [] i[1] = "fail"   -> [op |-> "assert_fail"]
    [] i[1] = "load"   -> [op |-> "load", to |-> "r", ptr |-> i[2]]
    [] i[1] = "store"  -> [op |-> "store", ptr |-> i[2], val |-> Cst(i[3])]
    [] i[1] = "copy"   -> [op |-> "store", ptr |-> i[2], val |-> Reg("r")]
    [] i[1] = "add"    -> [op |-> "rmw", to |-> "r", ptr |-> i[2], val |-> Cst(i[3])]
    [] i[1] = "is"     -> [op |-> "icmp", to |-> "c", pred |-> "eq", a |-> Reg("r"), b |-> Cst(i[2])]

EndOf(b, end) ==
  CASE Len(end) = 0 -> Return
    [] Len(end) = 1 -> Goto(end[1])
    [] Len(end) = 3 -> Branch("c", <<b, end[1]>>, end[2], end[3])

Program(text) ==
  [b \in {text[i][1] : i \in DOMAIN text} |->
     LET t == text[CHOOSE i \in DOMAIN text : text[i][1] = b]
     IN  [fn |-> t[2], body |-> [k \in DOMAIN t[3] |-> Decoded(t[3][k])], term |-> EndOf(b, t[4])]]

Names(text) == [i \in DOMAIN text |-> text[i][1]]

(* Two orders of the functions and their instructions in memory. *)
MCLayout ==
  LET index == [s \in Site |-> 10 * (CHOOSE i \in DOMAIN BlockOrder : BlockOrder[i] = s[1]) + s[2]]
  IN  {index, [s \in Site |-> 1000 - index[s]]}

MCInitializer == [v \in {"x", "y"} |-> 0]

Flags(N, D, F, K) ==
  {[nocombs |-> n, dyninit |-> d, filter_mhb |-> h, constraints |-> k]
     : n \in N, d \in D, h \in F, k \in K}

CommandLine(M, F) == {[main |-> m] @@ f : m \in M, f \in F}
=============================================================================
