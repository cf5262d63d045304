------------------------- MODULE AppInfoCacheProofs -------------------------
(***************************************************************************)
(* Proofs about getAppInfo's cache of an app's settings, for every number  *)
(* of dispatchers, URLs and contracts.                                     *)
(*                                                                         *)
(* OneVersion holds whatever fails: the hash, and what a dispatcher has    *)
(* read, are always one of the versions of the row (VersionInv).           *)
(* Perishable holds while no dispatcher dies and Redis answers it; it is   *)
(* inductive with the types that say who is about to send an EXPIRE.       *)
(***************************************************************************)
EXTENDS AppInfoCache, TLAPS

\* Every dispatcher is somewhere, and has a place for an app.
Places ==
    /\ pc \in [Dispatchers -> {"idle", "read", "hset", "expire"}]
    /\ got = [d \in Dispatchers |-> got[d]]

\* A step moves dispatchers only from one place to another.
LEMMA PlacesStep == Places /\ [Next]_vars => Places'
<1> SUFFICES ASSUME Places, [Next]_vars PROVE Places'
  OBVIOUS
<1> USE DEF Places
<1>1. CASE UNCHANGED << pc, got >>
  BY <1>1
<1>2. ASSUME NEW d \in Dispatchers, Return(d) PROVE Places'
  BY <1>2 DEF Return
<1>3. ASSUME NEW d \in Dispatchers, NEW c, HMGet(d, c) PROVE Places'
  BY <1>2, <1>3 DEF HMGet, UseInfo
<1>4. ASSUME NEW d \in Dispatchers, GetByID(d) PROVE Places'
  BY <1>2, <1>4 DEF GetByID
<1>5. ASSUME NEW d \in Dispatchers, HSet(d) PROVE Places'
  BY <1>5 DEF HSet
<1>6. ASSUME NEW d \in Dispatchers, Expire(d) PROVE Places'
  BY <1>2, <1>6 DEF Expire, UseInfo
<1>7. ASSUME NEW d \in Dispatchers, Crash(d) PROVE Places'
  BY <1>2, <1>7 DEF Crash
<1>8. Api \/ TimeOut \/ UNCHANGED vars => UNCHANGED << pc, got >>
  BY DEF Api, Update, ResetSecret, UpdateAllowedContracts, Del, TimeOut, vars, procs
<1> QED
  BY <1>1, <1>3, <1>4, <1>5, <1>6, <1>7, <1>8 DEF Next, getAppInfo

\* Each copy of the settings is a version of the row.
Copies ==
    /\ row \in versions
    /\ cached => info \in versions
    /\ \A d \in Dispatchers : pc[d] \in {"hset", "expire"} => got[d] \in versions

VersionInv == Places /\ OneVersion /\ Copies

\* What UseInfo makes of a version of the row agrees with it.
LEMMA UseVersion ==
    ASSUME NEW d \in Dispatchers, NEW r \in versions, NEW c, UseInfo(d, r, c), OneVersion,
           versions' = versions
    PROVE  OneVersion'
  BY DEF UseInfo, OneVersion, isContractAllowed, NoTask

\* Every step keeps the copies versions of the row and the last task one of them.
LEMMA VersionStep == VersionInv /\ [Next]_vars => VersionInv'
<1> SUFFICES ASSUME VersionInv, [Next]_vars PROVE (OneVersion /\ Copies)'
  BY PlacesStep DEF VersionInv
<1> USE DEF VersionInv, Places
<1>1. ASSUME NEW r, Store(r), UNCHANGED << hash, procs, task >> PROVE (OneVersion /\ Copies)'
  BY <1>1 DEF Store, OneVersion, Copies, hash, procs
<1>2. CASE Api
  <2>1. CASE Del
    BY <2>1 DEF Del, Dropped, OneVersion, Copies, db, hash, procs
  <2> QED BY <1>1, <1>2, <2>1 DEF Api, Update, ResetSecret, UpdateAllowedContracts
<1>3. CASE TimeOut
  BY <1>3 DEF TimeOut, Dropped, OneVersion, Copies, db, procs
<1>4. ASSUME NEW d \in Dispatchers, NEW c, HMGet(d, c) PROVE (OneVersion /\ Copies)'
  <2>1. Copies'
    BY <1>4 DEF HMGet, UseInfo, Return, Copies, db, hash
  <2>2. CASE UNCHANGED task
    BY <1>4, <2>1, <2>2 DEF HMGet, OneVersion, db
  <2>3. CASE cached /\ UseInfo(d, info, c)
    BY <1>4, <2>1, <2>3, UseVersion DEF HMGet, Copies, db
  <2> QED BY <1>4, <2>2, <2>3 DEF HMGet
<1>5. ASSUME NEW d \in Dispatchers, GetByID(d) PROVE (OneVersion /\ Copies)'
  BY <1>5 DEF GetByID, Columns, Return, OneVersion, Copies, db, hash
<1>6. ASSUME NEW d \in Dispatchers, HSet(d) PROVE (OneVersion /\ Copies)'
  BY <1>6 DEF HSet, OneVersion, Copies, db
<1>7. ASSUME NEW d \in Dispatchers, Expire(d) PROVE (OneVersion /\ Copies)'
  <2>1. Copies'
    BY <1>7 DEF Expire, UseInfo, Return, Copies, db
  <2> QED BY <1>7, <2>1, UseVersion DEF Expire, Copies, db
<1>8. ASSUME NEW d \in Dispatchers, Crash(d) PROVE (OneVersion /\ Copies)'
  BY <1>8 DEF Crash, Return, OneVersion, Copies, db, hash
<1>9. CASE UNCHANGED vars
  BY <1>9 DEF vars, OneVersion, Copies, db, hash, procs
<1> QED
  BY <1>2, <1>3, <1>4, <1>5, <1>6, <1>7, <1>8, <1>9 DEF Next, getAppInfo

\* Whatever fails, the task Expander.Handle creates last has the URL and the
\* secret of one version of the app, whose whitelist it has passed.
THEOREM OneVersionHolds == Spec => []OneVersion
<1>1. Init => VersionInv
  BY DEF Init, VersionInv, Places, OneVersion, Copies
<1> QED BY <1>1, VersionStep, PTL DEF Spec, VersionInv

-----------------------------------------------------------------------------
(* Types *)

\* A task made of an app is one, and so is what a handler leaves behind.
LEMMA TypeUse ==
    ASSUME TypeOK, NEW d \in Dispatchers, NEW r \in App, NEW c \in Contracts \cup {Native},
           UseInfo(d, r, c)
    PROVE  /\ task' \in [url : URLs, secret : Nat, contract : Contracts \cup {Native}] \cup {NoTask}
           /\ pc' \in [Dispatchers -> {"idle", "read", "hset", "expire"}]
           /\ contract' \in [Dispatchers -> Contracts \cup {Native}]
           /\ got' \in [Dispatchers -> App]
  BY DEF TypeOK, UseInfo, Return, App, NoApp

LEMMA TypeFault ==
    ASSUME TypeOK, NEW k, Fault(k) \/ UNCHANGED faults
    PROVE  faults' \in [count : 0..MaxFaults, kinds : SUBSET FaultKinds]
  BY SettingsAssumption DEF TypeOK, Fault

LEMMA TypeStore ==
    ASSUME TypeOK, NEW r \in App, Store(r)
    PROVE  row' \in App /\ edits' \in 0..MaxEdits /\ versions' \subseteq App
  BY SettingsAssumption DEF TypeOK, Store

\* Every step keeps the types.
LEMMA TypeStep == TypeOK /\ [Next]_vars => TypeOK'
<1> SUFFICES ASSUME TypeOK, [Next]_vars PROVE TypeOK'
  OBVIOUS
<1>1. ASSUME NEW u \in URLs, Update(u) PROVE TypeOK'
  <2>1. [row EXCEPT !.url = u] \in App
    BY DEF TypeOK, App
  <2> QED BY <1>1, <2>1, TypeStore DEF Update, TypeOK, hash, procs
<1>2. CASE ResetSecret
  <2>1. [row EXCEPT !.secret = @ + 1] \in App
    BY DEF TypeOK, App
  <2> QED BY <1>2, <2>1, TypeStore DEF ResetSecret, TypeOK, hash, procs
<1>3. ASSUME NEW l \in SUBSET Contracts, UpdateAllowedContracts(l) PROVE TypeOK'
  <2>1. [row EXCEPT !.allowed = l] \in App
    BY DEF TypeOK, App
  <2> QED BY <1>3, <2>1, TypeStore DEF UpdateAllowedContracts, TypeOK, hash, procs
<1>4. CASE Del
  <2>1. faults' \in [count : 0..MaxFaults, kinds : SUBSET FaultKinds]
    BY <1>4, TypeFault DEF Del
  <2>2. dels' \in Nat
    BY <1>4 DEF Del, TypeOK
  <2>3. cached' \in BOOLEAN /\ ttl' \in BOOLEAN /\ (ttl' => cached')
    <3>1. CASE Dropped
      BY <3>1 DEF Dropped
    <3>2. CASE UNCHANGED hash
      BY <3>2 DEF TypeOK, hash
    <3> QED BY <1>4, <3>1, <3>2 DEF Del
  <2>4. info' \in App
    BY <1>4 DEF Del, Dropped, TypeOK, App, NoApp, hash
  <2> QED BY <1>4, <2>1, <2>2, <2>3, <2>4 DEF Del, TypeOK, db, procs
<1>5. CASE TimeOut
  BY <1>5 DEF TimeOut, Dropped, TypeOK, App, NoApp, db, procs
<1>6. ASSUME NEW d \in Dispatchers, NEW c \in Contracts \cup {Native}, HMGet(d, c) PROVE TypeOK'
  <2>1. faults' \in [count : 0..MaxFaults, kinds : SUBSET FaultKinds]
    BY <1>6, TypeFault DEF HMGet
  <2>2. CASE cached /\ UseInfo(d, info, c)
    <3>1. info \in App
      BY DEF TypeOK
    <3>2. UNCHANGED << db, dels, hash >>
      BY <1>6 DEF HMGet
    <3>3. /\ task' \in [url : URLs, secret : Nat, contract : Contracts \cup {Native}] \cup {NoTask}
          /\ pc' \in [Dispatchers -> {"idle", "read", "hset", "expire"}]
          /\ contract' \in [Dispatchers -> Contracts \cup {Native}]
          /\ got' \in [Dispatchers -> App]
      BY <2>2, <3>1, TypeUse
    <3> QED BY <2>1, <3>2, <3>3 DEF TypeOK, db, hash
  <2>3. CASE ~ (cached /\ UseInfo(d, info, c))
    BY <1>6, <2>1, <2>3 DEF HMGet, TypeOK, db, hash
  <2> QED BY <2>2, <2>3
<1>7. ASSUME NEW d \in Dispatchers, GetByID(d) PROVE TypeOK'
  <2>1. faults' \in [count : 0..MaxFaults, kinds : SUBSET FaultKinds]
    BY <1>7, TypeFault DEF GetByID
  <2>2. NoApp \in App
    BY DEF NoApp, App
  <2> QED BY <1>7, <2>1, <2>2 DEF GetByID, Columns, Return, TypeOK, db, hash
<1>8. ASSUME NEW d \in Dispatchers, HSet(d) PROVE TypeOK'
  <2>1. faults' \in [count : 0..MaxFaults, kinds : SUBSET FaultKinds]
    BY <1>8, TypeFault DEF HSet
  <2> QED BY <1>8, <2>1 DEF HSet, TypeOK, db
<1>9. ASSUME NEW d \in Dispatchers, Expire(d) PROVE TypeOK'
  <2>1. faults' \in [count : 0..MaxFaults, kinds : SUBSET FaultKinds]
    BY <1>9, TypeFault DEF Expire
  <2>2. got[d] \in App /\ contract[d] \in Contracts \cup {Native}
    BY DEF TypeOK
  <2>3. /\ task' \in [url : URLs, secret : Nat, contract : Contracts \cup {Native}] \cup {NoTask}
        /\ pc' \in [Dispatchers -> {"idle", "read", "hset", "expire"}]
        /\ contract' \in [Dispatchers -> Contracts \cup {Native}]
        /\ got' \in [Dispatchers -> App]
    BY <1>9, <2>2, TypeUse DEF Expire
  <2>4. ttl' \in BOOLEAN /\ (ttl' => cached')
    BY <1>9 DEF Expire, ExpireWorks, TypeOK
  <2> QED BY <1>9, <2>1, <2>3, <2>4 DEF Expire, TypeOK, db
<1>10. ASSUME NEW d \in Dispatchers, Crash(d) PROVE TypeOK'
  <2>1. faults' \in [count : 0..MaxFaults, kinds : SUBSET FaultKinds]
    BY <1>10, TypeFault DEF Crash
  <2>2. NoApp \in App
    BY DEF NoApp, App
  <2> QED BY <1>10, <2>1, <2>2 DEF Crash, Return, TypeOK, db, hash
<1>11. CASE UNCHANGED vars
  BY <1>11 DEF vars, TypeOK, db, hash, procs
<1> QED
  BY <1>1, <1>2, <1>3, <1>4, <1>5, <1>6, <1>7, <1>8, <1>9, <1>10, <1>11 DEF Next, Api, getAppInfo

\* Type correctness: rows, copies and tasks are what AppService and getAppInfo
\* make of them, and app_info has a time to live only while it exists.
THEOREM TypeCorrect == Spec => []TypeOK
<1>1. ASSUME Init PROVE TypeOK
  <2>1. row \in App /\ NoApp \in App
    BY <1>1 DEF Init, App, NoApp
  <2>2. faults \in [count : 0..MaxFaults, kinds : SUBSET FaultKinds]
    BY <1>1, SettingsAssumption DEF Init
  <2>3. cached \in BOOLEAN /\ ttl \in BOOLEAN /\ (ttl => cached)
    BY <1>1 DEF Init
  <2>4. task \in [url : URLs, secret : Nat, contract : Contracts \cup {Native}] \cup {NoTask}
    BY <1>1 DEF Init
  <2> QED BY <1>1, <2>1, <2>2, <2>3, <2>4, SettingsAssumption DEF Init, TypeOK
<1> QED BY <1>1, TypeStep, PTL DEF Spec

-----------------------------------------------------------------------------
(* No copy stays for ever *)

PerishInv == Perishable /\ Places

\* The history of faults is never shortened.
LEMMA UndisturbedBefore == [Next]_vars /\ Undisturbed' => Undisturbed
<1>1. ASSUME NEW k, Fault(k) PROVE faults.kinds \subseteq faults'.kinds
  BY <1>1 DEF Fault
<1>2. ASSUME [Next]_vars PROVE faults.kinds \subseteq faults'.kinds
  BY <1>1, <1>2 DEF Next, Api, Update, ResetSecret, UpdateAllowedContracts, Del, TimeOut, getAppInfo,
     HMGet, GetByID, HSet, Expire, Crash, vars
<1> QED BY <1>2 DEF Undisturbed

\* Without crashes and Redis faults only an EXPIRE ends the wait for it.
LEMMA PerishStep == PerishInv /\ [Next]_vars => PerishInv'
<1> SUFFICES ASSUME PerishInv, [Next]_vars, Undisturbed' PROVE Perishable'
  BY PlacesStep DEF PerishInv, Perishable
<1> Undisturbed
  BY UndisturbedBefore
<1> USE DEF PerishInv, Places
<1>0. ~ Fault("crash") /\ ~ Fault("redis")
  BY DEF Undisturbed, Fault
<1>1. CASE Api
  BY <1>1 DEF Api, Update, ResetSecret, UpdateAllowedContracts, Del, Dropped, Perishable, hash, procs
<1>2. CASE TimeOut
  BY <1>2 DEF TimeOut, Dropped, Perishable, procs
<1>3. ASSUME NEW d \in Dispatchers, NEW c, HMGet(d, c) PROVE Perishable'
  BY <1>0, <1>3 DEF HMGet, UseInfo, Return, Perishable, hash
<1>4. ASSUME NEW d \in Dispatchers, GetByID(d) PROVE Perishable'
  BY <1>4 DEF GetByID, Return, Perishable, hash
<1>5. ASSUME NEW d \in Dispatchers, HSet(d) PROVE Perishable'
  BY <1>0, <1>5 DEF HSet, Perishable
<1>6. ASSUME NEW d \in Dispatchers, Expire(d) PROVE Perishable'
  BY <1>0, <1>6 DEF Expire, ExpireWorks, UseInfo, Return, Perishable
<1>7. CASE UNCHANGED vars
  BY <1>7 DEF vars, Perishable, hash, procs
<1> QED
  BY <1>0, <1>1, <1>2, <1>3, <1>4, <1>5, <1>6, <1>7 DEF Next, getAppInfo, Crash

\* While no dispatcher dies and Redis answers, no copy of the settings stays in
\* app_info without an end: its EXPIRE is sent or about to be.
THEOREM PerishableHolds == Spec => []Perishable
<1>1. Init => PerishInv
  BY DEF Init, PerishInv, Places, Perishable
<1> QED BY <1>1, PerishStep, PTL DEF Spec, PerishInv
=============================================================================
