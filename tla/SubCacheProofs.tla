--------------------------- MODULE SubCacheProofs ---------------------------
(***************************************************************************)
(* Proof that what the dispatchers know of an address is never older than  *)
(* the life of a cached list: Spec => []BoundedStaleness, with every fault *)
(* and for every number of apps and dispatchers.                           *)
(*                                                                         *)
(* A list is right about every app whose row last changed before the list  *)
(* was read.  The inductive invariant AgeInv keeps that up: list[d] has    *)
(* been read wait[d] ticks ago, and the cached list at most Within ticks   *)
(* before its SET, which was TTL - left ticks ago.                         *)
(***************************************************************************)
EXTENDS SubCache, TLAPS

\* A list in the hands of a dispatcher is wait[d] ticks old.
Held == \A d \in Expanders : subPc[d] = "set" => RightSince(list[d], wait[d] + 1)

\* The cached list has its end, and is at most Within + TTL - left ticks old.
Cached == subCached => /\ left > 0
                       /\ RightSince(sub, Within + 1 + TTL - left)

AgeInv == SubTypeOK /\ Held /\ Cached

\* SubTypeOK without its Booleans.
Shapes ==
    /\ watching \subseteq Apps /\ deleted \subseteq Apps
    /\ watching \cap deleted = {}
    /\ since \in [Apps -> 0..Horizon] /\ subDels \in Nat
    /\ sub \subseteq Apps /\ left \in 0..TTL
    /\ subPc \in [Expanders -> {"idle", "list", "set"}]
    /\ list \in [Expanders -> SUBSET Apps] /\ wait \in [Expanders -> 0..Within]
    /\ subFaults \in 0..MaxSubFaults

\* The two parts of SubTypeOK, for the provers that know one of them each.
LEMMA TypeParts == SubTypeOK <=> Shapes /\ subCached \in BOOLEAN /\ lowerCase \in BOOLEAN
  BY Zenon DEF SubTypeOK, Shapes

\* The initial state has its types.
LEMMA TypesInit == SubInit => SubTypeOK
<1> SUFFICES ASSUME SubInit PROVE SubTypeOK
  OBVIOUS
<1>1. subCached \in BOOLEAN /\ lowerCase \in BOOLEAN
  BY Zenon DEF SubInit
<1>2. Shapes
  BY TimeAssumption, SubBoundAssumption DEF SubInit, Shapes, Horizon
<1> QED BY <1>1, <1>2, TypeParts

\* Types of the state after a step, from the types before it.
LEMMA TypesStep == SubTypeOK /\ [SubNext]_subVars => SubTypeOK'
<1> SUFFICES ASSUME SubTypeOK, [SubNext]_subVars PROVE SubTypeOK'
  OBVIOUS
<1>0. Shapes /\ subCached \in BOOLEAN /\ lowerCase \in BOOLEAN
  BY TypeParts
<1>b. subCached' \in BOOLEAN
  <2>1. subCached' = subCached \/ subCached' = TRUE \/ subCached' = FALSE
    BY DEF SubNext, getWatchedAddresses, Create, Delete, SubDel, Get, ListByChainAddress, Set,
           SubCrash, Tick, subVars, key
  <2> QED BY <1>0, <2>1, Zenon
<1>c. lowerCase' \in BOOLEAN
  <2>1. lowerCase' = lowerCase
    BY DEF SubNext, getWatchedAddresses, Create, Delete, SubDel, Get, ListByChainAddress, Set,
           SubCrash, Tick, subVars, table
  <2> QED BY <1>0, <2>1, Zenon
<1>s. Shapes'
  <2> USE <1>0, TimeAssumption, SubBoundAssumption DEF Shapes, Horizon
  <2>1. ASSUME NEW a \in Apps, Create(a) PROVE Shapes'
    BY <2>1 DEF Create, key, subProcs
  <2>2. ASSUME NEW a \in Apps, Delete(a) PROVE Shapes'
    BY <2>2 DEF Delete, key, subProcs
  <2>3. CASE SubDel
    BY <2>3 DEF SubDel, SubFault, table, key, subProcs
  <2>4. ASSUME NEW d \in Expanders, Get(d) PROVE Shapes'
    BY <2>4 DEF Get, SubFault, LeftAfterHit, table
  <2>5. ASSUME NEW d \in Expanders, ListByChainAddress(d) PROVE Shapes'
    BY <2>5 DEF ListByChainAddress, SubReturn, SubFault, Enabled, table, key
  <2>6. ASSUME NEW d \in Expanders, Set(d) PROVE Shapes'
    BY <2>6 DEF Set, SubReturn, SubFault, SetTTL, table, key
  <2>7. ASSUME NEW d \in Expanders, SubCrash(d) PROVE Shapes'
    BY <2>7 DEF SubCrash, SubReturn, SubFault, table, key
  <2>8. CASE Tick
    BY <2>8 DEF Tick
  <2>9. CASE UNCHANGED subVars
    BY <2>9 DEF subVars, table, key, subProcs
  <2> QED
    BY <2>1, <2>2, <2>3, <2>4, <2>5, <2>6, <2>7, <2>8, <2>9 DEF SubNext, getWatchedAddresses
<1> QED
  <2>1. (Shapes /\ subCached \in BOOLEAN /\ lowerCase \in BOOLEAN)' => SubTypeOK'
    BY TypeParts, PTL
  <2> QED BY <1>b, <1>c, <1>s, <2>1

\* Every step keeps AgeInv: only Tick ages lists, and it ages the rows with them.
LEMMA AgeStep == AgeInv /\ [SubNext]_subVars => AgeInv'
<1> SUFFICES ASSUME AgeInv, [SubNext]_subVars PROVE (Held /\ Cached)'
  BY TypesStep DEF AgeInv
<1> USE TimeAssumption DEF AgeInv, SubTypeOK, Horizon
<1>1. ASSUME NEW b \in Apps, Create(b) PROVE (Held /\ Cached)'
  BY <1>1 DEF Create, Held, Cached, RightSince, key, subProcs
<1>2. ASSUME NEW b \in Apps, Delete(b) PROVE (Held /\ Cached)'
  BY <1>2 DEF Delete, Held, Cached, RightSince, key, subProcs
<1>3. CASE SubDel
  BY <1>3 DEF SubDel, Held, Cached, RightSince, table, key, subProcs
<1>4. ASSUME NEW d \in Expanders, Get(d) PROVE (Held /\ Cached)'
  BY <1>4 DEF Get, Held, Cached, RightSince, LeftAfterHit, table
<1>5. ASSUME NEW d \in Expanders, ListByChainAddress(d) PROVE (Held /\ Cached)'
  <2>1. Cached'
    BY <1>5 DEF ListByChainAddress, Cached, RightSince, table, key
  <2>2. Held'
    BY <1>5 DEF ListByChainAddress, Held, SubReturn, RightSince, Enabled, table
  <2> QED BY <2>1, <2>2
<1>6. ASSUME NEW d \in Expanders, Set(d) PROVE (Held /\ Cached)'
  <2>1. Held'
    BY <1>6 DEF Set, Held, SubReturn, RightSince, table
  <2>2. CASE UNCHANGED key
    BY <1>6, <2>1, <2>2 DEF Set, Cached, RightSince, table, key
  <2>3. CASE subCached' = TRUE /\ sub' = list[d] /\ left' = TTL
    <3>1. RightSince(list[d], Within + 1)
      BY <1>6 DEF Set, Held, RightSince
    <3> QED BY <1>6, <2>1, <2>3, <3>1 DEF Set, Cached, RightSince, table
  <2> QED BY <1>6, <2>2, <2>3 DEF Set, SetTTL
<1>7. ASSUME NEW d \in Expanders, SubCrash(d) PROVE (Held /\ Cached)'
  BY <1>7 DEF SubCrash, Held, Cached, SubReturn, RightSince, table, key
<1>8. CASE Tick
  <2>1. \A a \in Apps : since'[a] = IF since[a] < Horizon THEN since[a] + 1 ELSE since[a]
    BY <1>8 DEF Tick
  <2>2. Held'
    BY <1>8, <2>1 DEF Tick, Held, RightSince
  <2>3. Cached'
    <3>1. SUFFICES ASSUME subCached', left > 1 PROVE Cached'
      BY <1>8 DEF Tick, Cached
    <3>2. left' = left - 1 /\ sub' = sub /\ subCached /\ watching' = watching
      BY <1>8, <3>1 DEF Tick
    <3>3. RightSince(sub, Within + 1 + TTL - left)'
      BY <2>1, <3>1, <3>2 DEF Cached, RightSince
    <3> QED BY <3>1, <3>2, <3>3 DEF Cached, RightSince
  <2> QED BY <2>2, <2>3
<1>9. CASE UNCHANGED subVars
  BY <1>9 DEF subVars, Held, Cached, RightSince, table, key, subProcs
<1> QED
  BY <1>1, <1>2, <1>3, <1>4, <1>5, <1>6, <1>7, <1>8, <1>9 DEF SubNext, getWatchedAddresses

\* The state of getWatchedAddresses, its key and the table have their types.
THEOREM TypeCorrect == SubSpec => []SubTypeOK
  BY TypesInit, TypesStep, PTL DEF SubSpec

\* The lists of getWatchedAddresses (expander.go), cached or just read, are right
\* about every app that has not changed its row for Horizon ticks.
THEOREM BoundedStalenessHolds == SubSpec => []BoundedStaleness
<1>1. SubInit => AgeInv
  BY TypesInit DEF SubInit, AgeInv, Held, Cached
<1>2. AgeInv => BoundedStaleness
  BY TimeAssumption DEF AgeInv, SubTypeOK, Held, Cached, RightSince, Lists, BoundedStaleness, Horizon
<1> QED BY <1>1, <1>2, AgeStep, PTL DEF SubSpec
=============================================================================
