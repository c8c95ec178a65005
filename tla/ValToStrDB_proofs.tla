-------------------------- MODULE ValToStrDB_proofs --------------------------
(***************************************************************************)
(* The four maps of the database of names agree and lead back, for any     *)
(* values, constants and constant expressions.                             *)
(***************************************************************************)
EXTENDS ValToStrDB, FiniteSetTheorems, TLAPS

(* Strings are numbered by the values that have one. *)
StringsNumbered ==
  /\ IsFiniteSet(DOMAIN IDMap)
  /\ \A v \in DOMAIN IDMap : /\ IDMap[v] = <<"id", Stars[v], IDMap[v][3]>>
                             /\ IDMap[v][3] \in Nat /\ IDMap[v][3] < Size(IDMap)
  /\ \A v, w \in DOMAIN IDMap : v # w => IDMap[v][3] # IDMap[w][3]

StringsLeadBack ==
  /\ \A v \in DOMAIN IDMap : IDMap[v] \in DOMAIN RevIDMap /\ RevIDMap[IDMap[v]] = v
  /\ \A s \in DOMAIN RevIDMap : RevIDMap[s] \in DOMAIN IDMap /\ IDMap[RevIDMap[s]] = s

(* Integers are numbered by the strings that have one, and only those of    *)
(* stored strings lead back.                                                *)
IntsNumbered ==
  /\ IsFiniteSet(DOMAIN StrIDToInt)
  /\ \A s \in DOMAIN StrIDToInt :
       /\ StrIDToInt[s] \in Nat /\ StrIDToInt[s] < Size(StrIDToInt)
       /\ s \in DOMAIN RevIDMap \/ s[1] = "const"
  /\ \A s, t \in DOMAIN StrIDToInt : s # t => StrIDToInt[s] # StrIDToInt[t]

IntsLeadBack ==
  /\ \A s \in DOMAIN RevIDMap : /\ s \in DOMAIN StrIDToInt
                                /\ StrIDToInt[s] \in DOMAIN RevStrIDToInt
                                /\ RevStrIDToInt[StrIDToInt[s]] = s
  /\ \A i \in DOMAIN RevStrIDToInt : /\ RevStrIDToInt[i] \in DOMAIN RevIDMap
                                     /\ StrIDToInt[RevStrIDToInt[i]] = i

MapsInv == StringsNumbered /\ StringsLeadBack /\ IntsNumbered /\ IntsLeadBack

StaticType ==
  /\ DOMAIN IDMap \subseteq Value
  /\ DOMAIN metadata \subseteq Value
  /\ useBitvectors \in BOOLEAN
  /\ fresh \in BOOLEAN
  /\ pass \in 1 .. MaxPasses
  /\ status \in {"running", "unhandled"}

MetadataInv ==
  /\ fresh => \A v \in DOMAIN IDMap : v \in DOMAIN metadata /\ metadata[v] = Dumped(v)
  /\ fresh => \A v \in DOMAIN metadata \ DOMAIN IDMap : Kind[v] = "inst"
  /\ pass = 1 => DOMAIN metadata \subseteq DOMAIN IDMap

DBInv == MapsInv /\ StaticType /\ MetadataInv

-----------------------------------------------------------------------------
LEMMA NamedValue == \A v \in Value : Named(v) \in Value
  BY UseAssumption DEF Named, Expr

(* A new string is new to every map. *)
LEMMA NewStringIsNew ==
  ASSUME MapsInv, NEW v, v \notin DOMAIN IDMap
  PROVE  /\ NewString(v) \notin DOMAIN RevIDMap
         /\ NewString(v) \notin DOMAIN StrIDToInt
         /\ Size(IDMap) \in Nat
<1>1. Size(IDMap) \in Nat
  BY FS_CardinalityType DEF MapsInv, StringsNumbered, Size
<1>2. NewString(v)[1] = "id" /\ NewString(v)[3] = Size(IDMap)
  BY DEF NewString, NewID
<1>3. \A s \in DOMAIN RevIDMap : s[3] \in Nat /\ s[3] < Size(IDMap)
  BY DEF MapsInv, StringsNumbered, StringsLeadBack
<1>4. NewString(v) \notin DOMAIN RevIDMap
  BY <1>1, <1>2, <1>3
<1>5. NewString(v) \notin DOMAIN StrIDToInt
  BY <1>2, <1>4 DEF MapsInv, IntsNumbered
<1>6. QED BY <1>1, <1>4, <1>5

(* A string takes the next integer. *)
LEMMA NextInt ==
  ASSUME IntsNumbered, NEW s, s \notin DOMAIN StrIDToInt,
         StrIDToInt' = Put(StrIDToInt, s, NewInt)
  PROVE  /\ DOMAIN StrIDToInt' = DOMAIN StrIDToInt \cup {s}
         /\ StrIDToInt'[s] = Size(StrIDToInt) /\ Size(StrIDToInt) \in Nat
         /\ \A t \in DOMAIN StrIDToInt : StrIDToInt'[t] = StrIDToInt[t]
         /\ IsFiniteSet(DOMAIN StrIDToInt')
         /\ Size(StrIDToInt)' = Size(StrIDToInt) + 1
         /\ \A t \in DOMAIN StrIDToInt' : StrIDToInt'[t] \in Nat /\ StrIDToInt'[t] < Size(StrIDToInt)'
         /\ \A t, u \in DOMAIN StrIDToInt' : t # u => StrIDToInt'[t] # StrIDToInt'[u]
<1>1. /\ DOMAIN StrIDToInt' = DOMAIN StrIDToInt \cup {s}
      /\ StrIDToInt'[s] = Size(StrIDToInt)
      /\ \A t \in DOMAIN StrIDToInt : StrIDToInt'[t] = StrIDToInt[t]
  BY DEF Put, NewInt
<1>2. /\ IsFiniteSet(DOMAIN StrIDToInt') /\ Size(StrIDToInt) \in Nat
      /\ Size(StrIDToInt)' = Size(StrIDToInt) + 1
  BY <1>1, FS_AddElement, FS_CardinalityType DEF IntsNumbered, Size
<1>3. \A t \in DOMAIN StrIDToInt : StrIDToInt[t] \in Nat /\ StrIDToInt[t] < Size(StrIDToInt)
  BY DEF IntsNumbered
<1>4. \A t \in DOMAIN StrIDToInt' : StrIDToInt'[t] \in Nat /\ StrIDToInt'[t] < Size(StrIDToInt)'
  BY <1>1, <1>2, <1>3
<1>5. \A t, u \in DOMAIN StrIDToInt' : t # u => StrIDToInt'[t] # StrIDToInt'[u]
  BY <1>1, <1>2, <1>3 DEF IntsNumbered
<1>6. QED BY <1>1, <1>2, <1>4, <1>5

LEMMA SaveMaps ==
  ASSUME DBInv, NEW v \in Value, SaveAndGetID(v)
  PROVE  /\ MapsInv'
         /\ status' = "running"
         /\ DOMAIN IDMap' = DOMAIN IDMap \cup {Named(v)}
<1> DEFINE n == Named(v)
           s == NewString(n)
<1>1. MapsInv /\ n \notin DOMAIN IDMap
  BY DEF DBInv, SaveAndGetID
<1>2. s \notin DOMAIN RevIDMap /\ s \notin DOMAIN StrIDToInt /\ Size(IDMap) \in Nat
  BY <1>1, NewStringIsNew
<1>3. /\ IDMap' = Put(IDMap, n, s) /\ RevIDMap' = Put(RevIDMap, s, n)
      /\ StrIDToInt' = Put(StrIDToInt, s, NewInt)
      /\ RevStrIDToInt' = Put(RevStrIDToInt, NewInt, s)
      /\ status' = "running"
  BY <1>1, <1>2 DEF SaveAndGetID, MapInsert, MayInsert, BothWays
<1>4. s = <<"id", Stars[n], Size(IDMap)>>
  BY DEF NewString, NewID
<1> HIDE DEF n, s
<1>5. /\ DOMAIN IDMap' = DOMAIN IDMap \cup {n} /\ IDMap'[n] = s
      /\ \A w \in DOMAIN IDMap : IDMap'[w] = IDMap[w]
  BY <1>1, <1>3 DEF Put
<1>6. /\ DOMAIN RevIDMap' = DOMAIN RevIDMap \cup {s} /\ RevIDMap'[s] = n
      /\ \A t \in DOMAIN RevIDMap : RevIDMap'[t] = RevIDMap[t]
  BY <1>2, <1>3 DEF Put
<1>7. /\ DOMAIN RevStrIDToInt' = DOMAIN RevStrIDToInt \cup {Size(StrIDToInt)}
      /\ RevStrIDToInt'[Size(StrIDToInt)] = s
      /\ \A i \in DOMAIN RevStrIDToInt : i # Size(StrIDToInt) => RevStrIDToInt'[i] = RevStrIDToInt[i]
  BY <1>3 DEF Put, NewInt
<1>8. StringsNumbered'
  <2>1. /\ IsFiniteSet(DOMAIN IDMap)
        /\ \A w \in DOMAIN IDMap : /\ IDMap[w] = <<"id", Stars[w], IDMap[w][3]>>
                                   /\ IDMap[w][3] \in Nat /\ IDMap[w][3] < Size(IDMap)
        /\ \A w, u \in DOMAIN IDMap : w # u => IDMap[w][3] # IDMap[u][3]
    BY <1>1 DEF MapsInv, StringsNumbered
  <2>2. IsFiniteSet(DOMAIN IDMap') /\ Size(IDMap)' = Size(IDMap) + 1
    BY <1>1, <1>5, <2>1, FS_AddElement DEF Size
  <2>3. s[3] = Size(IDMap) /\ s = <<"id", Stars[n], s[3]>>
    BY <1>4
  <2>4. \A w \in DOMAIN IDMap' : /\ IDMap'[w] = <<"id", Stars[w], IDMap'[w][3]>>
                                 /\ IDMap'[w][3] \in Nat /\ IDMap'[w][3] < Size(IDMap)'
    BY <1>2, <1>5, <2>1, <2>2, <2>3
  <2>5. \A w, u \in DOMAIN IDMap' : w # u => IDMap'[w][3] # IDMap'[u][3]
    BY <1>2, <1>5, <2>1, <2>3
  <2>6. QED BY <2>2, <2>4, <2>5 DEF StringsNumbered
<1>9. StringsLeadBack'
  BY <1>1, <1>2, <1>5, <1>6 DEF MapsInv, StringsLeadBack
<1>10. /\ DOMAIN StrIDToInt' = DOMAIN StrIDToInt \cup {s}
       /\ StrIDToInt'[s] = Size(StrIDToInt) /\ Size(StrIDToInt) \in Nat
       /\ \A t \in DOMAIN StrIDToInt : StrIDToInt'[t] = StrIDToInt[t]
       /\ IsFiniteSet(DOMAIN StrIDToInt')
       /\ \A t \in DOMAIN StrIDToInt' : StrIDToInt'[t] \in Nat /\ StrIDToInt'[t] < Size(StrIDToInt)'
       /\ \A t, u \in DOMAIN StrIDToInt' : t # u => StrIDToInt'[t] # StrIDToInt'[u]
  BY <1>1, <1>2, <1>3, NextInt DEF MapsInv
<1>11. IntsNumbered'
  <2>1. \A t \in DOMAIN StrIDToInt' : t \in DOMAIN RevIDMap' \/ t[1] = "const"
    BY <1>1, <1>6, <1>10 DEF MapsInv, IntsNumbered
  <2>2. QED BY <1>10, <2>1 DEF IntsNumbered
<1>12. IntsLeadBack'
  <2>1. \A t \in DOMAIN StrIDToInt : StrIDToInt[t] # Size(StrIDToInt)
    BY <1>1, <1>10 DEF MapsInv, IntsNumbered
  <2>2. Size(StrIDToInt) \notin DOMAIN RevStrIDToInt
    BY <1>1, <2>1 DEF MapsInv, IntsLeadBack
  <2>3. ASSUME NEW t \in DOMAIN RevIDMap'
        PROVE  /\ t \in DOMAIN StrIDToInt' /\ StrIDToInt'[t] \in DOMAIN RevStrIDToInt'
               /\ RevStrIDToInt'[StrIDToInt'[t]] = t
    BY <1>1, <1>6, <1>7, <1>10, <2>1 DEF MapsInv, IntsLeadBack
  <2>4. ASSUME NEW i \in DOMAIN RevStrIDToInt'
        PROVE  RevStrIDToInt'[i] \in DOMAIN RevIDMap' /\ StrIDToInt'[RevStrIDToInt'[i]] = i
    BY <1>1, <1>6, <1>7, <1>10, <2>2 DEF MapsInv, IntsLeadBack
  <2>5. QED BY <2>3, <2>4 DEF IntsLeadBack
<1>13. QED BY <1>3, <1>5, <1>8, <1>9, <1>11, <1>12 DEF MapsInv, n

LEMMA StringMaps ==
  ASSUME DBInv, NEW s, s[1] = "const", SaveAndGetIntIDOfString(s)
  PROVE  MapsInv'
<1>1. /\ s \notin DOMAIN StrIDToInt /\ StrIDToInt' = Put(StrIDToInt, s, NewInt)
      /\ IDMap' = IDMap /\ RevIDMap' = RevIDMap /\ RevStrIDToInt' = RevStrIDToInt
  BY DEF SaveAndGetIntIDOfString
<1>2. MapsInv
  BY DEF DBInv
<1>3. /\ DOMAIN StrIDToInt' = DOMAIN StrIDToInt \cup {s}
      /\ \A t \in DOMAIN StrIDToInt : StrIDToInt'[t] = StrIDToInt[t]
      /\ IsFiniteSet(DOMAIN StrIDToInt')
      /\ \A t \in DOMAIN StrIDToInt' : StrIDToInt'[t] \in Nat /\ StrIDToInt'[t] < Size(StrIDToInt)'
      /\ \A t, u \in DOMAIN StrIDToInt' : t # u => StrIDToInt'[t] # StrIDToInt'[u]
  BY <1>1, <1>2, NextInt DEF MapsInv
<1>4. IntsNumbered'
  <2>1. \A t \in DOMAIN StrIDToInt' : t \in DOMAIN RevIDMap' \/ t[1] = "const"
    BY <1>1, <1>2, <1>3 DEF MapsInv, IntsNumbered
  <2>2. QED BY <1>3, <2>1 DEF IntsNumbered
<1>5. IntsLeadBack'
  BY <1>1, <1>2, <1>3 DEF MapsInv, IntsLeadBack
<1>6. StringsNumbered' /\ StringsLeadBack'
  BY <1>1, <1>2 DEF MapsInv, StringsNumbered, StringsLeadBack, Size
<1>7. QED BY <1>4, <1>5, <1>6 DEF MapsInv

-----------------------------------------------------------------------------
LEMMA InitInv == Init => DBInv
<1> SUFFICES ASSUME Init PROVE DBInv
  OBVIOUS
<1>1. /\ DOMAIN IDMap = {} /\ DOMAIN RevIDMap = {} /\ DOMAIN StrIDToInt = {} /\ DOMAIN RevStrIDToInt = {}
      /\ DOMAIN metadata = {}
  BY DEF Init, EmptyMaps, Empty
<1>2. MapsInv
  BY <1>1, FS_EmptySet
     DEF MapsInv, StringsNumbered, StringsLeadBack, IntsNumbered, IntsLeadBack
<1>3. pass \in 1 .. MaxPasses
  BY PassesAssumption DEF Init
<1>4. useBitvectors \in BOOLEAN /\ fresh \in BOOLEAN /\ ~ fresh /\ status \in {"running", "unhandled"}
  BY Zenon DEF Init
<1>5. QED BY <1>1, <1>2, <1>3, <1>4, Zenon DEF DBInv, StaticType, MetadataInv

LEMMA SaveInv ==
  ASSUME DBInv, NEW v \in Value, SaveAndGetID(v)
  PROVE  DBInv'
<1>1. MapsInv' /\ status' = "running" /\ DOMAIN IDMap' = DOMAIN IDMap \cup {Named(v)}
  BY SaveMaps
<1>2. /\ useBitvectors' = useBitvectors /\ metadata' = metadata /\ pass' = pass
      /\ fresh' = FALSE
  BY DEF SaveAndGetID
<1>3. StaticType'
  <2>1. DOMAIN IDMap' \subseteq Value
    BY <1>1, NamedValue DEF DBInv, StaticType
  <2>2. fresh' \in BOOLEAN /\ status' \in {"running", "unhandled"}
    BY <1>1, <1>2, Zenon
  <2>3. QED BY <1>2, <2>1, <2>2, Zenon DEF DBInv, StaticType
<1>4. pass' = 1 => DOMAIN metadata' \subseteq DOMAIN IDMap'
  BY <1>1, <1>2 DEF DBInv, MetadataInv
<1>5. MetadataInv'
  BY <1>2, <1>4, Zenon DEF MetadataInv
<1>6. QED BY <1>1, <1>3, <1>5 DEF DBInv

LEMMA StringInv ==
  ASSUME DBInv, NEW s, s[1] = "const", SaveAndGetIntIDOfString(s)
  PROVE  DBInv'
<1>1. MapsInv'
  BY StringMaps
<1>2. /\ useBitvectors' = useBitvectors /\ metadata' = metadata /\ pass' = pass /\ fresh' = fresh
      /\ status' = status /\ IDMap' = IDMap
  BY DEF SaveAndGetIntIDOfString
<1>3. \A v \in DOMAIN IDMap : Dumped(v)' = Dumped(v)
  <2>1. \A v \in DOMAIN IDMap : IDMap[v] \in DOMAIN StrIDToInt
    BY DEF DBInv, MapsInv, StringsLeadBack, IntsLeadBack
  <2>2. \A t \in DOMAIN StrIDToInt : StrIDToInt'[t] = StrIDToInt[t]
    BY DEF SaveAndGetIntIDOfString, Put
  <2>3. QED BY <1>2, <2>1, <2>2 DEF Dumped
<1>4. StaticType'
  BY <1>2, Zenon DEF DBInv, StaticType
<1>5. MetadataInv'
  BY <1>2, <1>3, Zenon DEF DBInv, MetadataInv
<1>6. QED BY <1>1, <1>4, <1>5 DEF DBInv

LEMMA SameMaps ==
  ASSUME MapsInv, UNCHANGED maps
  PROVE  MapsInv'
<1>1. /\ IDMap' = IDMap /\ RevIDMap' = RevIDMap /\ StrIDToInt' = StrIDToInt
      /\ RevStrIDToInt' = RevStrIDToInt
  BY DEF maps
<1>2. QED BY <1>1 DEF MapsInv, StringsNumbered, StringsLeadBack, IntsNumbered, IntsLeadBack, Size

LEMMA DumpInv ==
  ASSUME DBInv, DumpIDMapToModule
  PROVE  DBInv'
<1>1. MapsInv' /\ IDMap' = IDMap /\ StrIDToInt' = StrIDToInt
      /\ useBitvectors' = useBitvectors /\ pass' = pass
  BY SameMaps DEF DumpIDMapToModule, DBInv, maps
<1>2. CASE \E v \in DOMAIN IDMap : Kind[v] \in {"expr", "other"}
  <2>1. metadata' = metadata /\ fresh' = fresh /\ status' = "unhandled"
    BY <1>2, Zenon DEF DumpIDMapToModule
  <2>2. \A v : Dumped(v)' = Dumped(v)
    BY <1>1 DEF Dumped
  <2>3. StaticType' /\ MetadataInv'
    BY <1>1, <2>1, <2>2, Zenon DEF DBInv, StaticType, MetadataInv
  <2>4. QED BY <1>1, <2>3 DEF DBInv
<1>3. CASE ~ \E v \in DOMAIN IDMap : Kind[v] \in {"expr", "other"}
  <2>1. /\ metadata' = [v \in DOMAIN IDMap \cup {v \in DOMAIN metadata : Survives(v)} |->
                          IF v \in DOMAIN IDMap THEN Dumped(v) ELSE metadata[v]]
        /\ fresh' = TRUE /\ status' = status
    BY <1>3, Zenon DEF DumpIDMapToModule
  <2>2. /\ DOMAIN metadata' = DOMAIN IDMap \cup {v \in DOMAIN metadata : Survives(v)}
        /\ \A v \in DOMAIN IDMap : metadata'[v] = Dumped(v) /\ Dumped(v)' = Dumped(v)
    <3>1. \A v : Dumped(v)' = Dumped(v)
      BY <1>1 DEF Dumped
    <3>2. QED BY <2>1, <3>1
  <2>3. \A v \in DOMAIN metadata' \ DOMAIN IDMap : Kind[v] = "inst"
    BY <2>2 DEF Survives
  <2>4. DOMAIN metadata' \subseteq Value /\ DOMAIN IDMap \subseteq Value
    BY <2>2 DEF DBInv, StaticType
  <2>5. pass' = 1 => DOMAIN metadata' \subseteq DOMAIN IDMap'
    BY <1>1, <2>2 DEF DBInv, MetadataInv
  <2>6. fresh' \in BOOLEAN
    BY <2>1, Zenon
  <2>7. StaticType'
    BY <1>1, <2>1, <2>4, <2>6, Zenon DEF DBInv, StaticType
  <2>8. \A v \in DOMAIN IDMap' : v \in DOMAIN metadata' /\ metadata'[v] = Dumped(v)'
    BY <1>1, <2>2
  <2>9. MetadataInv'
    BY <1>1, <2>3, <2>5, <2>8, Zenon DEF MetadataInv
  <2>10. QED BY <1>1, <2>7, <2>9 DEF DBInv
<1>4. QED BY <1>2, <1>3, Zenon

LEMMA NextPassInv ==
  ASSUME DBInv, NextPass
  PROVE  DBInv'
<1>1. /\ DOMAIN IDMap' = {} /\ DOMAIN RevIDMap' = {} /\ DOMAIN StrIDToInt' = {}
      /\ DOMAIN RevStrIDToInt' = {}
  BY DEF NextPass, Empty
<1>2. MapsInv'
  BY <1>1, FS_EmptySet
     DEF MapsInv, StringsNumbered, StringsLeadBack, IntsNumbered, IntsLeadBack
<1>3. pass' \in 1 .. MaxPasses /\ pass' # 1
  BY PassesAssumption DEF NextPass, DBInv, StaticType
<1>4. /\ useBitvectors' \in BOOLEAN /\ fresh' \in BOOLEAN /\ ~ fresh'
      /\ metadata' = metadata /\ status' = status
  BY Zenon DEF NextPass
<1>5. QED BY <1>1, <1>2, <1>3, <1>4, Zenon DEF DBInv, StaticType, MetadataInv

LEMMA NextInv == DBInv /\ [Next]_vars => DBInv'
<1> SUFFICES ASSUME DBInv, [Next]_vars PROVE DBInv'
  OBVIOUS
<1>1. ASSUME NEW v \in Value, SaveAndGetID(v) PROVE DBInv'
  BY <1>1, SaveInv
<1>2. ASSUME NEW v \in Value, SaveAndGetIntID(v) PROVE DBInv'
  <2>1. CASE Static(Named(v))
    <3>1. StringOf(Named(v)) = <<"const", Named(v), 0>>
      BY <2>1 DEF StringOf
    <3>2. StringOf(Named(v))[1] = "const"
      BY <3>1
    <3>3. SaveAndGetIntIDOfString(StringOf(Named(v)))
      BY <1>2, <2>1 DEF SaveAndGetIntID
    <3>4. QED BY <3>2, <3>3, StringInv
  <2>2. CASE ~ Static(Named(v))
    BY <1>2, <2>2, SaveInv DEF SaveAndGetIntID
  <2>3. QED BY <2>1, <2>2
<1>3. CASE UNCHANGED vars
  <2>1. MapsInv'
    BY <1>3, SameMaps DEF DBInv, vars
  <2>2. /\ IDMap' = IDMap /\ StrIDToInt' = StrIDToInt /\ useBitvectors' = useBitvectors
        /\ metadata' = metadata /\ fresh' = fresh /\ pass' = pass /\ status' = status
    BY <1>3 DEF vars, maps
  <2>3. \A v : Dumped(v)' = Dumped(v)
    BY <2>2 DEF Dumped
  <2>4. StaticType' /\ MetadataInv'
    BY <2>2, <2>3, Zenon DEF DBInv, StaticType, MetadataInv
  <2>5. QED BY <2>1, <2>4 DEF DBInv
<1>4. QED BY <1>1, <1>2, <1>3, DumpInv, NextPassInv DEF Next

THEOREM DatabaseInvariant == Spec => []DBInv
<1>1. QED BY InitInv, NextInv, PTL DEF Spec

(* Type correctness of the database. *)
THEOREM DatabaseType == Spec => []TypeOK
<1>1. ASSUME DBInv PROVE TypeOK
  <2>1. \A s \in DOMAIN RevIDMap : RevIDMap[s] \in Value
    BY <1>1 DEF DBInv, MapsInv, StringsLeadBack, StaticType
  <2>2. Size(StrIDToInt) \in Nat
    BY <1>1, FS_CardinalityType DEF DBInv, MapsInv, IntsNumbered, Size
  <2>3. \A s \in DOMAIN StrIDToInt : StrIDToInt[s] \in 0 .. Size(StrIDToInt) - 1
    BY <1>1, <2>2 DEF DBInv, MapsInv, IntsNumbered
  <2>4. DOMAIN RevStrIDToInt \subseteq 0 .. Size(StrIDToInt) - 1
    BY <1>1, <2>3 DEF DBInv, MapsInv, IntsLeadBack
  <2>5. status \in {"running", "overwriting", "unhandled"}
    BY <1>1 DEF DBInv, StaticType
  <2>6. QED BY <1>1, <2>1, <2>3, <2>4, <2>5, Zenon DEF TypeOK, DBInv, StaticType
<1>2. QED BY <1>1, DatabaseInvariant, PTL

(* The four maps agree (IDMap .. RevStrIDToInt). *)
THEOREM MapsStayInAgreement == Spec => []MapsAgree
<1>1. ASSUME DBInv PROVE MapsAgree
  <2>1. DOMAIN RevIDMap = {IDMap[v] : v \in DOMAIN IDMap}
    BY <1>1 DEF DBInv, MapsInv, StringsLeadBack
  <2>2. QED BY <1>1, <2>1 DEF DBInv, MapsInv, StringsLeadBack, IntsNumbered, IntsLeadBack, MapsAgree
<1>2. QED BY <1>1, DatabaseInvariant, PTL

(* An integer leads back to the value it was given for (getValueOrNULL).    *)
THEOREM IntsLeadToTheirValues == Spec => []IntLeadsBack
<1>1. ASSUME DBInv PROVE IntLeadsBack
  <2> SUFFICES ASSUME NEW s \in DOMAIN StrIDToInt
               PROVE  ValuesOfInt(StrIDToInt[s]) = {v \in DOMAIN IDMap : IDMap[v] = s}
    BY DEF IntLeadsBack
  <2>1. CASE s \in DOMAIN RevIDMap
    <3>1. StrIDToInt[s] \in DOMAIN RevStrIDToInt /\ RevStrIDToInt[StrIDToInt[s]] = s
      BY <1>1, <2>1 DEF DBInv, MapsInv, IntsLeadBack
    <3>2. ValuesOfInt(StrIDToInt[s]) = ValuesOf(s)
      BY <3>1 DEF ValuesOfInt
    <3>3. ValuesOf(s) = {RevIDMap[s]}
      BY <2>1 DEF ValuesOf
    <3>4. {v \in DOMAIN IDMap : IDMap[v] = s} = {RevIDMap[s]}
      BY <1>1, <2>1 DEF DBInv, MapsInv, StringsLeadBack
    <3>5. QED BY <3>2, <3>3, <3>4
  <2>2. CASE s \notin DOMAIN RevIDMap
    <3>1. StrIDToInt[s] \notin DOMAIN RevStrIDToInt
      BY <1>1, <2>2 DEF DBInv, MapsInv, IntsNumbered, IntsLeadBack
    <3>2. ValuesOfInt(StrIDToInt[s]) = {}
      BY <3>1 DEF ValuesOfInt
    <3>3. {v \in DOMAIN IDMap : IDMap[v] = s} = {}
      BY <1>1, <2>2 DEF DBInv, MapsInv, StringsLeadBack
    <3>4. QED BY <3>2, <3>3
  <2>3. QED BY <2>1, <2>2
<1>2. QED BY <1>1, DatabaseInvariant, PTL

(* mapInsert never finds what it inserts. *)
THEOREM NeverOverwrites == Spec => []NothingOverwritten
<1>1. DBInv => NothingOverwritten
  BY DEF DBInv, StaticType, NothingOverwritten
<1>2. QED BY <1>1, DatabaseInvariant, PTL

(* What was dumped is what would be parsed (dumpIDMapToModule).             *)
THEOREM DumpIsParsedBack == Spec => []RoundTrip
<1>1. ASSUME DBInv PROVE RoundTrip
  <2> SUFFICES ASSUME fresh
               PROVE  /\ \A v \in DOMAIN IDMap : v \in DOMAIN metadata /\ metadata[v] = Dumped(v)
                      /\ \A v, w \in DOMAIN IDMap : metadata[v] = metadata[w] => v = w
                      /\ \A v \in DOMAIN metadata \ DOMAIN IDMap : Kind[v] = "inst" /\ pass > 1
    BY DEF RoundTrip
  <2>1. \A v \in DOMAIN IDMap : v \in DOMAIN metadata /\ metadata[v] = Dumped(v)
    BY <1>1 DEF DBInv, MetadataInv
  <2>2. \A v, w \in DOMAIN IDMap : IDMap[v] = IDMap[w] => v = w
    BY <1>1 DEF DBInv, MapsInv, StringsLeadBack
  <2>3. \A v \in DOMAIN IDMap : IDMap[v] \in DOMAIN StrIDToInt
    BY <1>1 DEF DBInv, MapsInv, StringsLeadBack, IntsLeadBack
  <2>4. \A v, w \in DOMAIN IDMap : Dumped(v) = Dumped(w) => v = w
    BY <1>1, <2>2, <2>3 DEF DBInv, MapsInv, IntsNumbered, Dumped
  <2>5. \A v \in DOMAIN metadata \ DOMAIN IDMap : Kind[v] = "inst" /\ pass > 1
    <3>1. pass \in Nat \ {0}
      BY <1>1, PassesAssumption DEF DBInv, StaticType
    <3>2. QED BY <1>1, <3>1 DEF DBInv, MetadataInv
  <2>6. QED BY <2>1, <2>4, <2>5
<1>2. QED BY <1>1, DatabaseInvariant, PTL
=============================================================================
