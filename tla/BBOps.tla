------------------------------- MODULE BBOps -------------------------------
(***************************************************************************)
(* The transfer functions of the analysis (worklist-ai/bbops.cpp) and,     *)
(* next to them, what the analysed instructions do when they really run.   *)
(*                                                                         *)
(* A basic block is a record with a body, a sequence of instructions, and  *)
(* a terminator.  An instruction is named by its site <<block, index>>.    *)
(* `interf' maps the loads that read from another thread to the fact at    *)
(* the store they read from; nonComb is the -nocombs mode, in which such a *)
(* load reads from the thread's own memory as well.                        *)
(***************************************************************************)
EXTENDS LatticeFact, SequencesExt

CONSTANTS
  Prog,      \* Prog[b]: the basic block b
  BitWidth,  \* getBitWidth of the integers the program adds
  Exit       \* where a return goes

(* The one-bit constants: getConstantIntUnsafe reads i1 true as -1. *)
False == [cst |-> 0, bit |-> 0]
True == [cst |-> -1, bit |-> 1]

(* A branch names the register it tests and the site that computes it: the  *)
(* same register may be a dimension of several instructions whose lives do  *)
(* not overlap.                                                             *)
Branch(cond, def, t, f) == [kind |-> "br", cond |-> cond, def |-> def, succ |-> <<t, f>>]
Goto(b) == [kind |-> "goto", succ |-> <<b>>]
Return == [kind |-> "ret", succ |-> <<>>]

Block == DOMAIN Prog

SuccOf == [b \in Block |-> Range(Prog[b].term.succ)]

Site == UNION {{<<b, i>> : i \in DOMAIN Prog[b].body} : b \in Block}

InstrAt(s) == Prog[s[1]].body[s[2]]

SitesWith(ops) == {s \in Site : InstrAt(s).op \in ops}

StoreSite == SitesWith({"store", "rmw"})
LoadSite == SitesWith({"load", "rmw"})
CreateSite == SitesWith({"create"})
ErrorSite == SitesWith({"assert_fail"})

-----------------------------------------------------------------------------
(* The code the analysis is given: LLVM's verifier and the language stand   *)
(* for these assumptions, the analysis relies on them.                      *)

Operand == [reg : Var] \cup [cst : Lo .. Hi]

BitOperand == [reg : Var] \cup {False, True}

(* A phi reads its one-bit constants as signed numbers. *)
PhiOperand(a) == a \in Operand \cup BitOperand /\ (a = True => -1 \in Lo .. Hi)

IsInstruction(i) ==
  \/ i \in [op : {"store"}, ptr : Var, val : Operand]
  \/ i \in [op : {"load"}, to : Var, ptr : Var]
  \/ /\ i \in [op : {"rmw"}, to : Var, ptr : Var, val : Operand]
     /\ i.to # i.ptr /\ i.val \notin {Reg(i.to), Reg(i.ptr)}
  \/ i \in [op : {"add", "mul"}, to : Var, a : Operand, b : Operand]
  \/ i \in [op : {"xor"}, to : Var, a : BitOperand, b : BitOperand]
  \/ i \in [op : {"intxor"}, to : Var, a : Operand, b : Operand]
  \/ i \in [op : {"icmp"}, to : Var, pred : Predicate \cup DOMAIN Unsigned, a : Operand, b : Operand]
  \/ i \in [op : {"cast"}, to : Var, val : Operand, via : {"trunc", "zext", "sext", "same"},
             from : Nat \ {0}, into : Nat \ {0}]
  \/ /\ i.op = "phi" /\ i.to \in Var /\ DOMAIN i.operands # {}
     /\ \A p \in DOMAIN i.operands : PhiOperand(i.operands[p])
  \/ i.op \in {"alloca", "fence", "create", "join", "assert_fail"}

(* The instructions transfer_func does not end the program at: a sum or a   *)
(* comparison has one constant operand, or a sum none, the exclusive or of  *)
(* integers is of one with itself, and `true', read as -1, may only be the  *)
(* second operand of an exclusive or.                                       *)
Handled(i) ==
  /\ i.op = "add" => ~ (IsConst(i.a) /\ IsConst(i.b))
  /\ i.op \in {"mul", "icmp"} => (IsConst(i.a) <=> ~ IsConst(i.b))
  /\ i.op = "icmp" => i.pred \in Predicate
  /\ i.op = "intxor" => i.a = i.b
  /\ i.op = "xor" => i.a # True

IsTerminator(t) ==
  \/ /\ t.kind = "br" /\ t.succ \in Block \X Block /\ t.succ[1] # t.succ[2]
     /\ t.def \in Site /\ t.cond \in Var
     /\ InstrAt(t.def).op \in {"icmp", "xor", "phi", "cast"} /\ InstrAt(t.def).to = t.cond
  \/ t.kind = "goto" /\ t.succ \in {<<b>> : b \in Block}
  \/ t.kind = "ret" /\ t.succ = <<>>

ASSUME CodeAssumption ==
  /\ Exit \notin Block
  /\ \A b \in Block : /\ Len(Prog[b].body) \in Nat
                      /\ DOMAIN Prog[b].body = 1 .. Len(Prog[b].body)
                      /\ \A k \in DOMAIN Prog[b].body : IsInstruction(Prog[b].body[k])
                      /\ IsTerminator(Prog[b].term)

ASSUME WidthAssumption ==
  /\ 2 ^ (BitWidth - 1) \in Nat \ {0}
  /\ 2 ^ BitWidth = 2 * 2 ^ (BitWidth - 1)

(* What an instruction may change. *)
Written(i) ==
  (IF i.op \in {"store", "load", "rmw"} THEN {i.ptr} ELSE {})
    \cup (IF i.op \in {"load", "rmw", "add", "mul", "xor", "intxor", "icmp", "cast", "phi"} THEN {i.to}
     ELSE {})

(* A comparison, by its site, is current while no register of it changes.   *)
(* It is current before instruction k of block b when it was made in b, or  *)
(* on every way into b (C: the blocks of which this is so).                 *)
Registers(a) == IF IsConst(a) THEN {} ELSE {a.reg}

Inputs(s) == Registers(InstrAt(s).a) \cup Registers(InstrAt(s).b)

Disturbs(s, b, ks) == \E k \in ks : Written(Prog[b].body[k]) \cap ({InstrAt(s).to} \cup Inputs(s)) # {}

CurrentAt(s, C, b, k) ==
  \/ s[1] = b /\ s[2] < k /\ ~ Disturbs(s, b, (s[2] + 1) .. (k - 1))
  \/ b \in C /\ ~ Disturbs(s, b, 1 .. (k - 1))

(* Enter: the blocks a run may start at. *)
HandedOn(s, C, Enter) ==
  /\ C \cap Enter = {}
  /\ \A p \in Block : SuccOf[p] \cap C # {} => CurrentAt(s, C, p, Len(Prog[p].body) + 1)

(* SSA: the operands of a comparison a branch tests still have the values   *)
(* they were compared with.                                                 *)
BranchesCurrent(Enter) ==
  \A b \in Block : LET s == Prog[b].term.def
                 IN  Prog[b].term.kind = "br" /\ InstrAt(s).op = "icmp" =>
                       /\ InstrAt(s).to \notin Inputs(s)
                       /\ \E C \in SUBSET Block :
                            HandedOn(s, C, Enter) /\ CurrentAt(s, C, b, Len(Prog[b].body) + 1)

(* i1: the registers branches test hold bits. *)
GivesBit(i, Bits) ==
  \/ i.op \in {"icmp", "xor"}
  \/ i.op = "phi" /\ \A p \in DOMAIN i.operands : i.operands[p] \in [reg : Bits] \cup {False, True}
  \/ i.op = "cast" /\ i.via = "trunc" /\ i.into = 1

HoldBits(Bits) ==
  /\ \A b \in Block : Prog[b].term.kind = "br" => Prog[b].term.cond \in Bits
  /\ \A s \in Site : Written(InstrAt(s)) \cap Bits # {} => GivesBit(InstrAt(s), Bits)

(* The signed reading of a phi's one-bit constants is the bit: not so of    *)
(* `true', which PhiJoinsItsValues is about.                                *)
PhiReadRight ==
  \A s \in Site : InstrAt(s).op = "phi" =>
    \A p \in DOMAIN InstrAt(s).operands : InstrAt(s).operands[p] # True

-----------------------------------------------------------------------------
(* Transfer functions. *)

(* The value read from another thread becomes the value in the thread's own *)
(* memory and the result of the load.                                       *)
PerformAssignWithInterf(f, to, ptr, g) ==
  Assign(AssignInterval(f, ptr, g[ptr]), to, Reg(ptr))

PerformNonCombinAssign(f, to, ptr, g) ==
  Assign(AssignInterval(f, ptr, FactJoin(f, g)[ptr]), to, Reg(ptr))

PerformLoad(f, s, interf, nonComb) ==
  LET i == InstrAt(s)
  IN  IF s \notin DOMAIN interf THEN Assign(f, i.to, Reg(i.ptr))
      ELSE IF nonComb THEN PerformNonCombinAssign(f, i.to, i.ptr, interf[s])
      ELSE PerformAssignWithInterf(f, i.to, i.ptr, interf[s])

(* The result and, when there is no interference, the pointer are updated   *)
(* from the old value; the addition is not taken modulo the width.          *)
PerformAtomicRMW(f, s, interf, nonComb) ==
  LET i   == InstrAt(s)
      ret == PerformLoad(f, s, interf, nonComb)
  IN  AddFact(ret, i.ptr, Reg(IF s \in DOMAIN interf THEN i.to ELSE i.ptr), i.val)

PerformBinOpMod(f, i) ==
  LET plain == IF i.op = "mul" THEN MulFact(f, i.to, i.a, i.b) ELSE AddFact(f, i.to, i.a, i.b)
  IN  ModFact(plain, i.to, i.to, 2 ^ BitWidth)

(* The truth values an operand of a logical operation may have; both when   *)
(* isEq is certain of neither.                                              *)
MaybeBits(f, a) ==
  IF IsConst(a) THEN {a.bit}
  ELSE IF Definitely(f, "eq", a, Cst(0)) THEN {0}
  ELSE IF Definitely(f, "eq", a, Cst(1)) THEN {1}
  ELSE {0, 1}

PerformXor(f, i) ==
  LET differ == \E p \in MaybeBits(f, i.a), q \in MaybeBits(f, i.b) : p # q
      agree  == MaybeBits(f, i.a) \cap MaybeBits(f, i.b) # {}
  IN  AssignTrueFalse(f, i.to, differ, agree)

PerformIntXor(f, i) == Assign(f, i.to, Cst(0))

(* The operands of a phi are joined whatever edge was taken, starting from  *)
(* the empty interval; a constant operand counts as its signed reading.     *)
PhiFirstOperand(f, i) ==                          \* mutant: only one operand joined
  Assign(f, i.to, i.operands[CHOOSE p \in DOMAIN i.operands : TRUE])

PerformPhi(f, i) ==
  AssignInterval(f, i.to,
    Hull(UNION {ValuesOf(f, i.operands[p]) : p \in DOMAIN i.operands}))

PerformAssignCmp(f, i) == ICmp(f, i.to, i.pred, i.a, i.b)

(* The widths are ignored. *)
PerformCast(f, i) == Assign(f, i.to, i.val)

PerformStore(f, i) == Assign(f, i.ptr, i.val)

Transfer(f, s, interf, nonComb) ==
  LET i == InstrAt(s)
  IN  CASE i.op = "store"  -> PerformStore(f, i)
        [] i.op = "load"   -> PerformLoad(f, s, interf, nonComb)
        [] i.op = "rmw"    -> PerformAtomicRMW(f, s, interf, nonComb)
        [] i.op \in {"add", "mul"} -> PerformBinOpMod(f, i)
        [] i.op = "xor"    -> PerformXor(f, i)
        [] i.op = "intxor" -> PerformIntXor(f, i)
        [] i.op = "icmp"   -> PerformAssignCmp(f, i)
        [] i.op = "cast"   -> PerformCast(f, i)
        [] i.op = "phi"    -> PerformPhi(f, i)
        [] i.op \in {"alloca", "fence", "create", "join", "assert_fail"} -> f

(* After k steps, for every k up to n. *)
Steps(Step(_, _), base, n) ==
  LET after[k \in 0 .. n] == IF k = 0 THEN base ELSE Step(after[k - 1], k)
  IN  after

(* The facts in block b: after the first k instructions, for every k.       *)
FactsIn(b, f, interf, nonComb) ==
  Steps(LAMBDA g, k : Transfer(g, <<b, k>>, interf, nonComb), f, Len(Prog[b].body))

(* What the calls before the instruction at s, or for a store before the    *)
(* next one, hand to updateReachStores, to updateReachThreadCreate and to   *)
(* the set of reachable errors.                                             *)
RecordedAt(b, f, s, interf, nonComb) ==
  FactsIn(b, f, interf, nonComb)[IF s \in StoreSite THEN s[2] ELSE s[2] - 1]

(* A branch on a comparison constrains its operands, any other branch only  *)
(* the condition.                                                           *)
ConstrainTF(f, term, tf) ==
  LET i == InstrAt(term.def)
  IN  IF i.op = "icmp" THEN ConstrainICmp(f, i.to, i.pred, i.a, i.b, tf)
      ELSE ConstrainBool(f, term.cond, tf)

(* run_transfer_funcs: the fact the end of b passes to its successor t. *)
PassTo(b, endFact, t) ==
  LET term == Prog[b].term
  IN  IF term.kind = "br" THEN ConstrainTF(endFact, term, t = term.succ[1]) ELSE endFact

RunTransferFuncs(b, f, t, interf, nonComb) ==
  PassTo(b, FactsIn(b, f, interf, nonComb)[Len(Prog[b].body)], t)

-----------------------------------------------------------------------------
(* Execution of the analysed program: what an instruction may do to an      *)
(* environment.  A load with an interference sees a value the interfering   *)
(* store may have written (or, in -nocombs mode, the thread's own value).   *)
(* Integers are in two's complement: a number stands for itself, read with  *)
(* a sign, but for those of one bit, which are 0 and 1.  The model follows  *)
(* a run as long as its numbers are in Lo..Hi.                              *)

Value(m, a) ==
  IF ~ IsConst(a) THEN m[a.reg] ELSE IF "bit" \in DOMAIN a THEN a.bit ELSE a.cst

Readable(m, s, interf, nonComb) ==
  LET own == {m[InstrAt(s).ptr]}
  IN  IF s \notin DOMAIN interf THEN own
      ELSE interf[s][InstrAt(s).ptr] \cup (IF nonComb THEN own ELSE {})

Truth(p) == IF p THEN 1 ELSE 0

MaxSigned == 2 ^ (BitWidth - 1) - 1

InRange(x) == x \in (-1 - MaxSigned) .. MaxSigned /\ x \in Lo .. Hi

(* The number the lowest w bits of x stand for. *)
Signed(x, w) == ((x + 2 ^ (w - 1)) % 2 ^ w) - 2 ^ (w - 1)

Wrapped(x) == IF InRange(x) THEN x ELSE Signed(x, BitWidth)

CastTo(i, x) ==
  CASE i.via = "trunc" -> IF i.into = 1 THEN x % 2 ELSE Signed(x, i.into)
    [] i.via = "zext"  -> x % 2 ^ i.from
    [] i.via = "sext"  -> IF i.from = 1 THEN - x ELSE x
    [] i.via = "same"  -> x

Holds(pred, x, y) ==
  IF pred \in DOMAIN Unsigned THEN Compare(AsSigned(pred), x % 2 ^ BitWidth, y % 2 ^ BitWidth)
  ELSE Compare(pred, x, y)

(* preds: the blocks control may have come from. *)
Outcomes(m, s, preds, interf, nonComb) ==
  LET i == InstrAt(s)
      Result(X) == {[m EXCEPT ![i.to] = x] : x \in X \cap (Lo .. Hi)}
  IN  CASE i.op = "store" -> {[m EXCEPT ![i.ptr] = Value(m, i.val)]}
        [] i.op = "load"  -> {[m EXCEPT ![i.ptr] = x, ![i.to] = x]
                                : x \in Readable(m, s, interf, nonComb)}
        [] i.op = "rmw"   -> {[m EXCEPT ![i.ptr] = Wrapped(x + Value(m, i.val)), ![i.to] = x]
                                : x \in {y \in Readable(m, s, interf, nonComb)
                                           : Wrapped(y + Value(m, i.val)) \in Lo .. Hi}}
        [] i.op = "add"   -> Result({Wrapped(Value(m, i.a) + Value(m, i.b))})
        [] i.op = "mul"   -> Result({Wrapped(Value(m, i.a) * Value(m, i.b))})
        [] i.op = "xor"   -> Result({Truth(Value(m, i.a) # Value(m, i.b))})
        [] i.op = "intxor" -> Result(IF i.a = i.b THEN {0} ELSE Lo .. Hi)
        [] i.op = "icmp"  -> Result({Truth(Holds(i.pred, Value(m, i.a), Value(m, i.b)))})
        [] i.op = "cast"  -> Result({CastTo(i, Value(m, i.val))})
        [] i.op = "phi"   -> Result({Value(m, i.operands[p]) : p \in preds \cap DOMAIN i.operands})
        [] OTHER          -> {m}

(* performCast: "All cast operations simply `do nothing' and ignore          *)
(* overflow/underflow or sign extension", and a sum is not wrapped: the      *)
(* instruction at s, from m to n, gives a number that is not changed by its  *)
(* width.                                                                    *)
Exact(m, s, n) ==
  LET i == InstrAt(s)
  IN  /\ i.op = "add" => InRange(Value(m, i.a) + Value(m, i.b))
      /\ i.op = "mul" => InRange(Value(m, i.a) * Value(m, i.b))
      /\ i.op = "rmw" => InRange(n[i.to] + Value(m, i.val))
      /\ i.op = "cast" => CastTo(i, Value(m, i.val)) = Value(m, i.val)

(* A run of block b from environment m: the environment it ends in, the     *)
(* environments it showed to the stores, thread creations and failing       *)
(* assertions it executed, and the block it goes to (Exit: none).           *)
Recorded == StoreSite \cup CreateSite \cup ErrorSite

StepRun(r, s, interf, nonComb) ==
  {[mem |-> x,
    obs |-> IF s \in Recorded
              THEN (s :> (IF s \in StoreSite THEN x ELSE r.mem)) @@ r.obs
              ELSE r.obs] : x \in Outcomes(r.mem, s, Block, interf, nonComb)}

Taken(b, m) ==
  LET term == Prog[b].term
  IN  CASE term.kind = "br"   -> term.succ[IF m[term.cond] = 1 THEN 1 ELSE 2]
        [] term.kind = "goto" -> term.succ[1]
        [] term.kind = "ret"  -> Exit

BlockRuns(b, m, interf, nonComb) ==
  LET ends == FoldLeft(LAMBDA R, k : UNION {StepRun(r, <<b, k>>, interf, nonComb) : r \in R},
                       {[mem |-> m, obs |-> <<>>]},
                       [k \in 1 .. Len(Prog[b].body) |-> k])
  IN  {[next |-> Taken(b, r.mem), mem |-> r.mem, obs |-> r.obs] : r \in ends}
=============================================================================
