------------------------------ MODULE ValueIds ------------------------------
(***************************************************************************)
(* The identifiers that stand for LLVM values in the Datalog facts and     *)
(* queries: bit vectors, numbered in the order in which the values are     *)
(* first seen (utils/z3_fp_helpers.cpp: getValueBVIDSz, addFact2Sz,        *)
(* valueCacheToMetadata).                                                  *)
(***************************************************************************)
EXTENDS Integers, FiniteSets

CONSTANTS
  Value,   \* the values facts are about
  BVSize   \* Z3_BV_SIZE

ASSUME WidthAssumption == 2 ^ BVSize \in Nat \ {0}

VARIABLES
  valueCache,  \* value_cacheG: the identifier of each value seen
  idStatus     \* "running", "exited" (no identifier left), "dumped" or "aborted"

idVars == <<valueCache, idStatus>>

IdTypeOK ==
  /\ DOMAIN valueCache \subseteq Value
  /\ \A v \in DOMAIN valueCache : valueCache[v] \in Nat
  /\ idStatus \in {"running", "exited", "dumped", "aborted"}

NoIds == [v \in {} |-> 0]

IdInit == valueCache = NoIds /\ idStatus = "running"

LastId(cache) ==                       \* mutant: the identifier given last
  IF cache = NoIds THEN 0 ELSE Cardinality(DOMAIN cache) - 1

NextId(cache) == Cardinality(DOMAIN cache)

WithId(cache, v) ==
  IF v \in DOMAIN cache THEN cache
  ELSE [w \in DOMAIN cache \cup {v} |-> IF w = v THEN NextId(cache) ELSE cache[w]]

(* ceil(log2(id)) > bvSize: the identifier 2 ^ bvSize passes. *)
TooWide(cache, v) == v \notin DOMAIN cache /\ NextId(cache) > 2 ^ BVSize

(* context::bv_val keeps the low bits. *)
BVOf(v) == valueCache[v] % 2 ^ BVSize

(* addFact2Sz: the identifiers of both arguments. *)
AddFact(v1, v2) ==
  /\ idStatus = "running"
  /\ \/ /\ TooWide(valueCache, v1)
        /\ idStatus' = "exited"
        /\ UNCHANGED valueCache
     \/ /\ ~ TooWide(valueCache, v1)
        /\ IF TooWide(WithId(valueCache, v1), v2)
             THEN idStatus' = "exited" /\ valueCache' = WithId(valueCache, v1)
             ELSE UNCHANGED idStatus /\ valueCache' = WithId(WithId(valueCache, v1), v2)

FitsOrOneMore(id) == id <= 2 ^ BVSize  \* mutant: off by one

(* to_const_bitvec: "value bigger than size". *)
FitsWidth(id) == id < 2 ^ BVSize

ValueCacheToMetadata ==
  /\ idStatus = "running"
  /\ idStatus' = IF \A v \in DOMAIN valueCache : FitsWidth(valueCache[v]) THEN "dumped" ELSE "aborted"
  /\ UNCHANGED valueCache

IdNext == ValueCacheToMetadata \/ \E v1, v2 \in Value : AddFact(v1, v2)

IdSpec == IdInit /\ [][IdNext]_idVars

-----------------------------------------------------------------------------
(* No two values share an identifier, and at most one pair of values shares *)
(* a bit vector: the first value and the one the width check lets through.  *)
(* (z3_fp_helpers.cpp: getValueBVIDSz).                                     *)
IdsDistinct ==
  \A v, w \in DOMAIN valueCache :
    v # w => /\ valueCache[v] # valueCache[w]
             /\ BVOf(v) = BVOf(w) => {valueCache[v], valueCache[w]} = {0, 2 ^ BVSize}

(* A run that reports its errors used bit vectors that told all values      *)
(* apart: the assertion at the end catches what the width check let through *)
(* (worklistai.cpp:2214, before "Errors found").                            *)
ReportedApart ==
  idStatus = "dumped" => \A v, w \in DOMAIN valueCache : v # w => BVOf(v) # BVOf(w)
=============================================================================
