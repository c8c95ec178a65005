----------------------------- MODULE ValToStrDB -----------------------------
(***************************************************************************)
(* The database of names for LLVM values (utils/ValToStrDB.cpp, .h): a     *)
(* value gets a string, a string gets an integer, both with reverse maps,  *)
(* and the strings are kept in the metadata of the module, where a later   *)
(* pass over it finds them.                                                *)
(*                                                                         *)
(* A string is <<"id", stars, number>>, or <<"const", value, 0>> for the   *)
(* representation of a constant, which is never stored.                    *)
(***************************************************************************)
EXTENDS Integers, FiniteSets

CONSTANTS
  Value,      \* the values callers pass and the ones they use
  Kind,       \* "inst", "arg", "global", "func", "int", "null", "expr" or "other"
  Use,        \* Use[v]: what constant expression v uses (getConstExprUse)
  Stars,      \* Stars[v]: how many pointers the type of v nests (getStars)
  MaxPasses   \* bound: how many passes use a database on the module

Expr == {v \in Value : Kind[v] = "expr"}

ASSUME PassesAssumption == MaxPasses \in Nat \ {0}
ASSUME UseAssumption == Use \in [Expr -> Value]

VARIABLES
  IDMap, RevIDMap, StrIDToInt, RevStrIDToInt,
  useBitvectors,
  metadata,   \* of the module: the name written for each value
  fresh,      \* nothing has changed since this database was dumped
  pass,       \* how many passes there have been
  status      \* "running", or the assertion that failed

maps == <<IDMap, RevIDMap, StrIDToInt, RevStrIDToInt>>
vars == <<maps, useBitvectors, metadata, fresh, pass, status>>

Empty == [x \in {} |-> x]

Put(f, x, y) == [z \in DOMAIN f \cup {x} |-> IF z = x THEN y ELSE f[z]]

Size(f) == Cardinality(DOMAIN f)

TypeOK ==
  /\ DOMAIN IDMap \subseteq Value
  /\ \A s \in DOMAIN RevIDMap : RevIDMap[s] \in Value
  /\ \A s \in DOMAIN StrIDToInt : StrIDToInt[s] \in 0 .. Size(StrIDToInt) - 1
  /\ DOMAIN RevStrIDToInt \subseteq 0 .. Size(StrIDToInt) - 1
  /\ useBitvectors \in BOOLEAN
  /\ DOMAIN metadata \subseteq Value
  /\ fresh \in BOOLEAN
  /\ pass \in 1 .. MaxPasses
  /\ status \in {"running", "overwriting", "unhandled"}

EmptyMaps ==
  IDMap = Empty /\ RevIDMap = Empty /\ StrIDToInt = Empty /\ RevStrIDToInt = Empty

Init ==
  /\ EmptyMaps
  /\ useBitvectors \in BOOLEAN
  /\ metadata = Empty
  /\ fresh = FALSE
  /\ pass = 1
  /\ status = "running"

(* A constant expression is replaced by what it uses, once. *)
Named(v) == IF Kind[v] = "expr" THEN Use[v] ELSE v

Static(v) == Kind[v] \in {"int", "null"}

LastID(map) == IF map = Empty THEN 0 ELSE Size(map) - 1    \* mutant: the last identifier

NewID(map) == Size(map)

NewString(v) == <<"id", Stars[v], NewID(IDMap)>>

(* What saveAndGetID returns. *)
StringOf(v) ==
  IF Static(v) THEN <<"const", v, 0>>
  ELSE IF v \in DOMAIN IDMap THEN IDMap[v] ELSE NewString(v)

NotReversed(v, s) ==                                       \* mutant: the old reverse map
  IDMap' = Put(IDMap, v, s) /\ UNCHANGED RevIDMap

BothWays(v, s) == IDMap' = Put(IDMap, v, s) /\ RevIDMap' = Put(RevIDMap, s, v)

MayInsert(v, s) == v \notin DOMAIN IDMap /\ s \notin DOMAIN RevIDMap /\ s \notin DOMAIN StrIDToInt

IntFromOne == Size(StrIDToInt) + 1                         \* mutant: counts from one

IntOfValue == Size(IDMap)                                  \* mutant: constants not counted

NewInt == Size(StrIDToInt)

(* mapInsert *)
MapInsert(v, s) ==
  IF MayInsert(v, s)
    THEN /\ BothWays(v, s)
         /\ StrIDToInt' = Put(StrIDToInt, s, NewInt)
         /\ RevStrIDToInt' = Put(RevStrIDToInt, NewInt, s)
         /\ UNCHANGED status
    ELSE status' = "overwriting" /\ UNCHANGED maps

SaveAndGetID(v) ==
  /\ status = "running"
  /\ ~ Static(Named(v))
  /\ Named(v) \notin DOMAIN IDMap
  /\ MapInsert(Named(v), NewString(Named(v)))
  /\ fresh' = FALSE
  /\ UNCHANGED <<useBitvectors, metadata, pass>>

(* saveAndGetIntID of a string: the reverse map is left alone. *)
SaveAndGetIntIDOfString(s) ==
  /\ status = "running"
  /\ s \notin DOMAIN StrIDToInt
  /\ StrIDToInt' = Put(StrIDToInt, s, NewInt)
  /\ UNCHANGED <<IDMap, RevIDMap, RevStrIDToInt, useBitvectors, metadata, fresh, pass, status>>

(* saveAndGetIntID of a value: a stored one has an integer already. *)
SaveAndGetIntID(v) ==
  IF Static(Named(v)) THEN SaveAndGetIntIDOfString(StringOf(Named(v))) ELSE SaveAndGetID(v)

(* getValueOrNULL: the value found, none for NULL. *)
ValuesOf(s) == {RevIDMap[t] : t \in {s} \cap DOMAIN RevIDMap}

ValuesOfInt(n) == UNION {ValuesOf(RevStrIDToInt[i]) : i \in {n} \cap DOMAIN RevStrIDToInt}

Dumped(v) == IF useBitvectors THEN StrIDToInt[IDMap[v]] ELSE IDMap[v]

KeepsAll(v) == TRUE                                        \* mutant: the old lists not dropped

(* An instruction keeps what is attached to it, the lists are dropped. *)
Survives(v) == Kind[v] = "inst"

DumpIDMapToModule ==
  /\ status = "running"
  /\ ~ fresh
  /\ IF \E v \in DOMAIN IDMap : Kind[v] \in {"expr", "other"}
       THEN status' = "unhandled" /\ UNCHANGED <<metadata, fresh>>
       ELSE /\ metadata' = [v \in DOMAIN IDMap \cup {v \in DOMAIN metadata : Survives(v)} |->
                              IF v \in DOMAIN IDMap THEN Dumped(v) ELSE metadata[v]]
            /\ fresh' = TRUE
            /\ UNCHANGED status
  /\ UNCHANGED <<maps, useBitvectors, pass>>

(* A later pass over the module starts with an empty database. *)
NextPass ==
  /\ status = "running"
  /\ pass < MaxPasses
  /\ pass' = pass + 1
  /\ IDMap' = Empty /\ RevIDMap' = Empty /\ StrIDToInt' = Empty /\ RevStrIDToInt' = Empty
  /\ useBitvectors' \in BOOLEAN
  /\ fresh' = FALSE
  /\ UNCHANGED <<metadata, status>>

Next ==
  \/ \E v \in Value : SaveAndGetID(v) \/ SaveAndGetIntID(v)
  \/ DumpIDMapToModule
  \/ NextPass

Spec == Init /\ [][Next]_vars

-----------------------------------------------------------------------------
(* The four maps agree, whatever is asked for in whatever order: names and  *)
(* integers are each given once, and both reverse maps lead back.           *)
(* saveAndGetIntID of a string must leave room for the identifiers to come  *)
(* (ValToStrDB.h: IDMap .. RevStrIDToInt).                                  *)
MapsAgree ==
  /\ DOMAIN RevIDMap = {IDMap[v] : v \in DOMAIN IDMap}
  /\ \A v \in DOMAIN IDMap : RevIDMap[IDMap[v]] = v
  /\ DOMAIN RevIDMap \subseteq DOMAIN StrIDToInt
  /\ \A s, t \in DOMAIN StrIDToInt : StrIDToInt[s] = StrIDToInt[t] => s = t
  /\ \A i \in DOMAIN RevStrIDToInt :
       RevStrIDToInt[i] \in DOMAIN StrIDToInt /\ StrIDToInt[RevStrIDToInt[i]] = i

(* The integer of a value leads back to the value through two reverse maps, *)
(* and the integer of a constant to none (getValueOrNULL).                  *)
IntLeadsBack ==
  \A s \in DOMAIN StrIDToInt : ValuesOfInt(StrIDToInt[s]) = {v \in DOMAIN IDMap : IDMap[v] = s}

(* "What happens if the item already exists in the map?"                    *)
(* (ValToStrDB.cpp:122): it never does.                                     *)
NothingOverwritten == status # "overwriting"

(* parseIDMapFromModule after dumpIDMapToModule finds every value of the    *)
(* map, no two with one name, and nothing else but instructions an earlier  *)
(* pass named.                                                              *)
RoundTrip ==
  fresh =>
    /\ \A v \in DOMAIN IDMap : v \in DOMAIN metadata /\ metadata[v] = Dumped(v)
    /\ \A v, w \in DOMAIN IDMap : metadata[v] = metadata[w] => v = w
    /\ \A v \in DOMAIN metadata \ DOMAIN IDMap : Kind[v] = "inst" /\ pass > 1
=============================================================================
