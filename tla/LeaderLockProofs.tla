-------------------------- MODULE LeaderLockProofs --------------------------
(***************************************************************************)
(* The election of LeaderLock, for any number of processes and chains.     *)
(* What a process can rely on is the lock it took last; while it listens   *)
(* to one chain that is the only one, and the election excludes.           *)
(***************************************************************************)
EXTENDS LeaderLock, TLAPS

-----------------------------------------------------------------------------
(* Type correctness, and the values of the locks are distinct *)

\* Every value in a key or a Lock was drawn, and no two running processes have
\* the same one.
Distinct ==
    /\ \A c \in Chains : key[c] <= uuids
    /\ \A i \in Instances : value[i] <= uuids
    /\ \A i \in Instances : value[i] = 0 <=> lkey[i] = 0
    /\ \A i \in Instances : i \notin up => lkey[i] = 0 /\ listening[i] = {} /\ renewing[i] = {}
    /\ \A i, j \in Instances : value[i] = value[j] /\ value[i] # 0 => i = j

LockInv == TypeOK /\ Distinct

LEMMA InitLock ==
    ASSUME Init
    PROVE  LockInv
BY LockAssumption DEF Init, LockInv, TypeOK, Faults, Distinct, NoKey

LEMMA LockStep ==
    ASSUME LockInv, [Next]_vars
    PROVE  LockInv'
<1> USE DEF redisVars
<1>a. TypeOK /\ Distinct /\ TTL \in Nat \ {0} /\ RenewWithin \in Nat \ {0} /\ MaxFaults \in Nat
      /\ 0 \notin Chains
  BY LockAssumption DEF LockInv
<1>c. ASSUME NEW k, Fault(k)
      PROVE  faults' \in Faults
  BY <1>c, <1>a DEF Fault, TypeOK, Faults
<1>1. ASSUME NEW i \in Instances, Start(i)  PROVE  LockInv'
  BY <1>1, <1>a DEF Start, LockInv, TypeOK, Distinct
<1>2. ASSUME NEW i \in Instances, NEW c \in Chains, Lock(i, c)  PROVE  LockInv'
  <2>1. uuids' = uuids + 1 /\ uuids \in Nat  BY <1>2, <1>a DEF Lock, NewUUID, TypeOK
  <2>2. TypeOK'  BY <1>2, <1>a, <2>1 DEF Lock, TypeOK
  <2>3. Distinct'
    <3>1. \A d \in Chains : key'[d] <= uuids'
      BY <1>2, <1>a, <2>1 DEF Lock, TypeOK, Distinct
    <3>2. \A j \in Instances : value'[j] = IF j = i THEN uuids + 1 ELSE value[j]
      BY <1>2, <1>a, <2>1 DEF Lock, TypeOK
    <3>3. \A j \in Instances : lkey'[j] = IF j = i THEN c ELSE lkey[j]
      BY <1>2, <1>a DEF Lock, TypeOK
    <3>4. \A j \in Instances : value[j] \in Nat /\ value[j] <= uuids  BY <1>a DEF TypeOK, Distinct
    <3>5. \A j \in Instances : value'[j] <= uuids'  BY <2>1, <3>2, <3>4
    <3>6. \A j \in Instances : value'[j] = 0 <=> lkey'[j] = 0
      BY <1>a, <2>1, <3>2, <3>3 DEF Distinct
    <3>7. \A j \in Instances :
             j \notin up' => lkey'[j] = 0 /\ listening'[j] = {} /\ renewing'[j] = {}
      BY <1>2, <1>a DEF Lock, TypeOK, Distinct
    <3>8. \A j, k \in Instances : value'[j] = value'[k] /\ value'[j] # 0 => j = k
      BY <1>a, <2>1, <3>2, <3>4 DEF Distinct
    <3>9. QED  BY <3>1, <3>5, <3>6, <3>7, <3>8 DEF Distinct
  <2>4. QED  BY <2>2, <2>3 DEF LockInv
<1>3. ASSUME NEW i \in Instances, NEW c \in Chains, Standby(i, c)  PROVE  LockInv'
  <2>1. faults' \in Faults  BY <1>3, <1>a, <1>c DEF Standby, TypeOK
  <2>2. UNCHANGED << up, lkey, value, renewing, listening, late >>
        /\ todo' \in [Instances -> SUBSET Chains]
    BY <1>3, <1>a DEF Standby, TypeOK
  <2>3. /\ key' \in [Chains -> Nat] /\ ttl' \in [Chains -> 0..TTL]
        /\ uuids' \in Nat /\ uuids <= uuids'
        /\ \A d \in Chains : key'[d] <= uuids'
    <3>1. CASE UNCHANGED << key, ttl, uuids >>  BY <3>1, <1>a DEF TypeOK, Distinct
    <3>2. CASE /\ uuids' = NewUUID /\ key' = [key EXCEPT ![c] = uuids']
               /\ ttl' = [ttl EXCEPT ![c] = TTL]
      BY <3>2, <1>a DEF TypeOK, Distinct, NewUUID
    <3>3. QED  BY <1>3, <3>1, <3>2 DEF Standby
  <2>4. TypeOK'  BY <1>a, <2>1, <2>2, <2>3 DEF TypeOK
  <2>5. \A j \in Instances : value[j] \in Nat /\ value[j] <= uuids'
    BY <1>a, <2>3 DEF TypeOK, Distinct
  <2>6. Distinct'  BY <1>a, <2>2, <2>3, <2>5 DEF Distinct
  <2>7. QED  BY <2>4, <2>6 DEF LockInv
<1>4. ASSUME NEW i \in Instances, NEW c \in Chains, Renew(i, c)  PROVE  LockInv'
  <2>1. faults' \in Faults  BY <1>4, <1>a, <1>c DEF Renew, TypeOK
  <2>2. /\ ttl' \in [Chains -> 0..TTL] /\ late' \in [Instances -> [Chains -> 0..RenewWithin]]
        /\ renewing' \in [Instances -> SUBSET Chains]
        /\ \A j \in Instances : renewing'[j] \subseteq renewing[j]
    <3>1. CASE UNCHANGED renewing
               /\ ttl' = [ttl EXCEPT ![c] = RenewedTTL] /\ late' = [late EXCEPT ![i][c] = 0]
      BY <3>1, <1>a DEF TypeOK, RenewedTTL
    <3>2. CASE renewing' = [renewing EXCEPT ![i] = @ \ {c}] /\ UNCHANGED late
               /\ (ttl' = ttl \/ ttl' = [ttl EXCEPT ![c] = RenewedTTL])
      BY <3>2, <1>a DEF TypeOK, RenewedTTL
    <3>3. QED  BY <1>4, <3>1, <3>2 DEF Renew
  <2>3. UNCHANGED << key, uuids, up, todo, lkey, value, listening >>  BY <1>4 DEF Renew
  <2>4. TypeOK'  BY <2>1, <2>2, <2>3, <1>a DEF TypeOK
  <2>5. Distinct'  BY <2>2, <2>3, <1>a DEF Distinct
  <2>6. QED  BY <2>4, <2>5 DEF LockInv
<1>5. ASSUME NEW i \in Instances, Crash(i)  PROVE  LockInv'
  <2>1. TypeOK'  BY <1>5, <1>a, <1>c DEF Crash, TypeOK
  <2>2. Distinct'  BY <1>5, <1>a DEF Crash, TypeOK, Distinct
  <2>3. QED  BY <2>1, <2>2 DEF LockInv
<1>6. CASE Tick
  <2>1. \A c \in Chains : key'[c] \in Nat /\ ttl'[c] \in 0..TTL /\ key'[c] <= uuids
    BY <1>6, <1>a DEF Tick, TypeOK, Distinct, NoKey
  <2>2. \A i \in Instances : \A c \in Chains : late'[i][c] \in 0..RenewWithin
    <3>1. \A i \in Instances : \A c \in renewing[i] : late[i][c] < RenewWithin
      BY <1>6, <1>a DEF Tick, Distinct
    <3>2. QED  BY <1>6, <1>a, <3>1 DEF Tick, TypeOK
  <2>3. TypeOK'  BY <1>6, <1>a, <2>1, <2>2 DEF Tick, TypeOK
  <2>4. Distinct'  BY <1>6, <1>a, <2>1 DEF Tick, Distinct
  <2>5. QED  BY <2>3, <2>4 DEF LockInv
<1>7. CASE UNCHANGED vars  BY <1>7 DEF vars, LockInv, TypeOK, Distinct
<1>8. QED
  BY <1>1, <1>2, <1>3, <1>4, <1>5, <1>6, <1>7 DEF Next, Run, RenewLoop

\* The state of the locks keeps its types: no renewal makes a key outlive its
\* TTL, and no renewal is later than assumed.
THEOREM TypeCorrect == Spec => []TypeOK
<1>1. Init => LockInv  BY InitLock
<1>2. LockInv /\ [Next]_vars => LockInv'  BY LockStep
<1>3. LockInv => TypeOK  BY DEF LockInv
<1>4. QED  BY <1>1, <1>2, <1>3, PTL DEF Spec

\* renewScript's comparison with ARGV[1] singles out one process, whatever
\* expires, crashes or fails.
THEOREM OneRenewerHolds == Spec => []OneRenewer
<1>1. Init => LockInv  BY InitLock
<1>2. LockInv /\ [Next]_vars => LockInv'  BY LockStep
<1>3. LockInv => OneRenewer  BY DEF LockInv, OneRenewer, Distinct, TypeOK, NoKey
<1>4. QED  BY <1>1, <1>2, <1>3, PTL DEF Spec

-----------------------------------------------------------------------------
(* The lock taken last is kept *)

\* Renewals come in time.
Punctual == RenewWithin < TTL

\* The history of faults is never shortened.
LEMMA KindsGrow == ASSUME [Next]_vars PROVE faults.kinds \subseteq faults'.kinds
<1>1. ASSUME NEW k, Fault(k)  PROVE  faults.kinds \subseteq faults'.kinds
  BY <1>1 DEF Fault
<1>2. CASE UNCHANGED faults  BY <1>2
<1>3. QED  BY <1>1, <1>2 DEF Next, Run, RenewLoop, Start, Lock, Standby, Renew, Crash, Tick, vars

\* The key of the last lock is the process's own, is being renewed, and has at
\* least the rest of its TTL to live.
Held(i) ==
    /\ key[lkey[i]] = value[i]
    /\ lkey[i] \in renewing[i]
    /\ ttl[lkey[i]] >= TTL - late[i][lkey[i]]

\* The inductive invariant of KeptLock.
KeptInv == \A i \in Instances : lkey[i] # 0 => Held(i)

LEMMA KeptStep ==
    ASSUME Punctual, "redis" \notin faults'.kinds, LockInv, LockInv', KeptInv, [Next]_vars
    PROVE  KeptInv'
<1> USE DEF redisVars
<1>a. /\ TypeOK /\ Distinct /\ TTL \in Nat \ {0} /\ RenewWithin \in Nat \ {0} /\ 0 \notin Chains
      /\ RenewWithin < TTL
  BY LockAssumption DEF LockInv, Punctual
<1>b. ~ Fault("redis")  BY DEF Fault
<1>c. \A j \in Instances : lkey[j] # 0 =>
         /\ lkey[j] \in Chains /\ value[j] # 0 /\ j \in up
         /\ ttl[lkey[j]] \in Nat /\ late[j][lkey[j]] \in 0..RenewWithin
  BY <1>a DEF TypeOK, Distinct
<1> SUFFICES ASSUME NEW j \in Instances, lkey'[j] # 0
             PROVE  Held(j)'
  BY DEF KeptInv
<1>1. ASSUME NEW i \in Instances, Start(i)  PROVE  Held(j)'
  BY <1>1 DEF Start, KeptInv, Held
<1>2. ASSUME NEW i \in Instances, NEW c \in Chains, Lock(i, c)  PROVE  Held(j)'
  <2>1. CASE j = i
    <3>1. lkey'[j] = c /\ value'[j] = uuids' /\ key'[c] = uuids' /\ ttl'[c] = TTL
          /\ late'[j][c] = 0 /\ c \in renewing'[j]
      BY <1>2, <2>1, <1>a DEF Lock, TypeOK
    <3>2. QED  BY <3>1, <1>a DEF Held
  <2>2. CASE j # i
    <3>1. lkey'[j] = lkey[j] /\ value'[j] = value[j] /\ renewing'[j] = renewing[j]
          /\ late'[j] = late[j]
      BY <1>2, <2>2, <1>a DEF Lock, TypeOK
    <3>2. Held(j) /\ lkey[j] \in Chains /\ value[j] # 0  BY <3>1, <1>c DEF KeptInv
    <3>3. lkey[j] # c  BY <1>2, <3>2 DEF Lock, SetNXSucceeds, NoKey, Held
    <3>4. key'[lkey[j]] = key[lkey[j]] /\ ttl'[lkey[j]] = ttl[lkey[j]]
      BY <1>2, <1>a, <3>2, <3>3 DEF Lock, TypeOK
    <3>5. QED  BY <3>1, <3>2, <3>4 DEF Held
  <2>3. QED  BY <2>1, <2>2
<1>3. ASSUME NEW i \in Instances, NEW c \in Chains, Standby(i, c)  PROVE  Held(j)'
  BY <1>3, <1>b DEF Standby, KeptInv, Held
<1>4. ASSUME NEW i \in Instances, NEW c \in Chains, Renew(i, c)  PROVE  Held(j)'
  <2>0. UNCHANGED << key, lkey, value >> /\ lkey[j] # 0  BY <1>4 DEF Renew
  <2>1. Held(j) /\ lkey[j] \in Chains /\ late[j][lkey[j]] \in Nat /\ ttl[lkey[j]] \in 0..TTL
    BY <2>0, <1>a, <1>c DEF KeptInv, TypeOK
  <2>2. CASE key[c] = value[i] /\ UNCHANGED renewing
             /\ ttl' = [ttl EXCEPT ![c] = RenewedTTL] /\ late' = [late EXCEPT ![i][c] = 0]
    <3>1. ttl'[lkey[j]] = IF lkey[j] = c THEN TTL ELSE ttl[lkey[j]]
      BY <2>1, <2>2, <1>a DEF TypeOK, RenewedTTL
    <3>2. late'[j][lkey[j]] = IF j = i /\ lkey[j] = c THEN 0 ELSE late[j][lkey[j]]
      BY <2>1, <2>2, <1>a DEF TypeOK
    <3>3. ttl'[lkey[j]] >= TTL - late'[j][lkey[j]]
      BY <2>1, <3>1, <3>2, <1>a DEF Held
    <3>4. QED  BY <2>0, <2>1, <2>2, <3>3 DEF Held
  <2>3. CASE /\ key[c] # value[i] /\ renewing' = [renewing EXCEPT ![i] = @ \ {c}]
             /\ UNCHANGED << ttl, late >>
    <3>1. ~ (j = i /\ lkey[j] = c)  BY <2>1, <2>3 DEF Held
    <3>2. lkey[j] \in renewing'[j]  BY <2>1, <2>3, <3>1, <1>a DEF Held, TypeOK
    <3>3. QED  BY <2>0, <2>1, <2>3, <3>2 DEF Held
  <2>4. QED  BY <1>4, <1>b, <2>2, <2>3 DEF Renew, Renewable
<1>5. ASSUME NEW i \in Instances, Crash(i)  PROVE  Held(j)'
  <2>1. j # i  BY <1>5, <1>a DEF Crash, TypeOK
  <2>2. QED  BY <1>5, <2>1, <1>a DEF Crash, TypeOK, KeptInv, Held
<1>6. CASE Tick
  <2>0. UNCHANGED << up, lkey, value, renewing >> /\ lkey[j] # 0  BY <1>6 DEF Tick
  <2>1. Held(j) /\ lkey[j] \in Chains /\ late[j][lkey[j]] \in Nat /\ ttl[lkey[j]] \in Nat
        /\ j \in up
    BY <2>0, <1>c DEF KeptInv
  <2>2. late[j][lkey[j]] < RenewWithin  BY <1>6, <2>1 DEF Tick, Held
  <2>3. ttl[lkey[j]] > 1  BY <2>1, <2>2, <1>a DEF Held
  <2>4. /\ key'[lkey[j]] = key[lkey[j]] /\ ttl'[lkey[j]] = ttl[lkey[j]] - 1
        /\ late'[j][lkey[j]] = late[j][lkey[j]] + 1
    BY <1>6, <2>1, <2>3 DEF Tick, Held
  <2>5. ttl'[lkey[j]] >= TTL - late'[j][lkey[j]]  BY <2>1, <2>4, <1>a DEF Held
  <2>6. QED  BY <2>0, <2>1, <2>4, <2>5 DEF Held
<1>7. CASE UNCHANGED vars  BY <1>7 DEF vars, KeptInv, Held
<1>8. QED
  BY <1>1, <1>2, <1>3, <1>4, <1>5, <1>6, <1>7 DEF Next, Run, RenewLoop

Undisturbed == "redis" \notin faults.kinds

\* The lock that a process took last is never lost while it runs and Redis
\* answers, for any TTL longer than the time within which RenewLoop renews.
THEOREM KeptLockHolds ==
    ASSUME Punctual
    PROVE  Spec => []KeptLock
<1> DEFINE Inv == LockInv /\ (Undisturbed => KeptInv)
<1>1. Init => Inv
  <2>1. Init => KeptInv  BY DEF Init, KeptInv
  <2>2. QED  BY <2>1, InitLock
<1>2. Inv /\ [Next]_vars => Inv'
  BY LockStep, KeptStep, KindsGrow DEF Undisturbed
<1>3. Inv => KeptLock
  BY DEF LockInv, KeptInv, KeptLock, Held, TypeOK, Undisturbed
<1>4. QED  BY <1>1, <1>2, <1>3, PTL DEF Spec

-----------------------------------------------------------------------------
(* Among workers that listen to one chain the election excludes *)

\* Who listens has taken a lock last that it listens with.
ListensLocked ==
    \A i \in Instances : listening[i] # {} => lkey[i] \in listening[i]

LEMMA ListensStep ==
    ASSUME LockInv, ListensLocked, [Next]_vars
    PROVE  ListensLocked'
<1>a. TypeOK  BY DEF LockInv
<1>1. ASSUME NEW i \in Instances, Start(i)  PROVE  ListensLocked'
  BY <1>1 DEF Start, ListensLocked
<1>2. ASSUME NEW i \in Instances, NEW c \in Chains, Lock(i, c)  PROVE  ListensLocked'
  BY <1>2, <1>a DEF Lock, ListensLocked, TypeOK
<1>3. ASSUME NEW i \in Instances, NEW c \in Chains, Standby(i, c) \/ Renew(i, c)
      PROVE  ListensLocked'
  BY <1>3 DEF Standby, Renew, ListensLocked
<1>4. ASSUME NEW i \in Instances, Crash(i)  PROVE  ListensLocked'
  BY <1>4, <1>a DEF Crash, ListensLocked, TypeOK
<1>5. CASE Tick \/ UNCHANGED vars  BY <1>5 DEF Tick, vars, ListensLocked
<1>6. QED  BY <1>1, <1>2, <1>3, <1>4, <1>5 DEF Next, Run, RenewLoop

\* No two workers that listen to one chain only listen to the same one, with any
\* number of processes and chains, over crashes and take-overs.
THEOREM OneListenerHolds ==
    ASSUME Punctual
    PROVE  Spec => []OneListener
<1> DEFINE Inv == LockInv /\ (Undisturbed => KeptInv) /\ ListensLocked
<1>1. Init => Inv
  <2>1. Init => KeptInv /\ ListensLocked  BY DEF Init, KeptInv, ListensLocked
  <2>2. QED  BY <2>1, InitLock
<1>2. Inv /\ [Next]_vars => Inv'
  BY LockStep, KeptStep, ListensStep, KindsGrow DEF Undisturbed
<1>3. Inv => OneListener
  <2> SUFFICES ASSUME Inv, Undisturbed,
                      NEW c \in Chains, NEW i \in Instances, NEW j \in Instances,
                      listening[i] = {c}, listening[j] = {c}
               PROVE  i = j
    BY DEF OneListener, Undisturbed
  <2>1. lkey[i] = c /\ lkey[j] = c
    BY DEF ListensLocked
  <2>2. key[c] = value[i] /\ key[c] = value[j] /\ value[i] # 0
    BY <2>1, LockAssumption DEF KeptInv, Held, LockInv, Distinct
  <2>3. QED  BY <2>2 DEF LockInv, Distinct
<1> HIDE DEF Inv
<1>4. QED  BY <1>1, <1>2, <1>3, PTL DEF Spec
-----------------------------------------------------------------------------
(* No chain is left alone *)

\* The key of a chain was set by a process that listens to it; who has come past
\* a chain, listens to it or has met such a key.
Attended ==
    /\ \A c \in Chains : key[c] # NoKey => \E j \in up : c \in listening[j]
    /\ \A i \in up : \A c \in Chains \ todo[i] : \E j \in up : c \in listening[j]

LEMMA AttendedStep ==
    ASSUME faults'.kinds = {}, LockInv, Attended, [Next]_vars
    PROVE  Attended'
<1> USE DEF redisVars
<1>a. TypeOK  BY DEF LockInv
<1>b. ASSUME NEW k  PROVE  ~ Fault(k)  BY DEF Fault
<1>1. ASSUME NEW i \in Instances, Start(i)  PROVE  Attended'
  BY <1>1, <1>a DEF Start, Attended, TypeOK
<1>2. ASSUME NEW i \in Instances, NEW c \in Chains, Lock(i, c)  PROVE  Attended'
  <2>1. up' = up /\ i \in up /\ c \in listening'[i]
    BY <1>2, <1>a DEF Lock, TypeOK
  <2>2. \A j \in up : listening[j] \subseteq listening'[j]
    BY <1>2, <1>a DEF Lock, TypeOK
  <2>3. \A d \in Chains \ {c} : key'[d] = key[d]  BY <1>2, <1>a DEF Lock, TypeOK
  <2>4. \A j \in up : \A d \in Chains \ {c} : d \in todo'[j] <=> d \in todo[j]
    BY <1>2, <1>a DEF Lock, TypeOK
  <2>5. QED  BY <2>1, <2>2, <2>3, <2>4 DEF Attended
<1>3. ASSUME NEW i \in Instances, NEW c \in Chains, Standby(i, c)  PROVE  Attended'
  <2>1. UNCHANGED << key, up, listening >> /\ key[c] # NoKey
    BY <1>3, <1>b DEF Standby, SetNXSucceeds
  <2>2. \A j \in up : \A d \in Chains \ {c} : d \in todo'[j] <=> d \in todo[j]
    BY <1>3, <1>a DEF Standby, TypeOK
  <2>3. QED  BY <2>1, <2>2 DEF Attended
<1>4. ASSUME NEW i \in Instances, NEW c \in Chains, Renew(i, c)  PROVE  Attended'
  BY <1>4 DEF Renew, Attended
<1>5. ASSUME NEW i \in Instances, Crash(i)  PROVE  Attended'
  BY <1>5, <1>b DEF Crash
<1>6. CASE Tick
  <2>1. UNCHANGED << up, todo, listening >>
        /\ \A c \in Chains : key'[c] # NoKey => key[c] # NoKey
    BY <1>6 DEF Tick
  <2>2. QED  BY <2>1 DEF Attended
<1>7. CASE UNCHANGED vars  BY <1>7 DEF vars, Attended
<1>8. QED
  BY <1>1, <1>2, <1>3, <1>4, <1>5, <1>6, <1>7 DEF Next, Run, RenewLoop

\* That Run tries each chain once leaves no chain without a listener while no
\* process ends and Redis answers, for any number of both, however late renewals are.
THEOREM SomeoneListensHolds == Spec => []SomeoneListens
<1> DEFINE Inv == LockInv /\ (faults.kinds = {} => Attended)
<1>1. Init => Inv
  <2>1. Init => Attended  BY DEF Init, Attended
  <2>2. QED  BY <2>1, InitLock
<1>2. Inv /\ [Next]_vars => Inv'
  BY LockStep, AttendedStep, KindsGrow
<1>3. Inv => SomeoneListens  BY DEF Attended, SomeoneListens
<1> HIDE DEF Inv
<1>4. QED  BY <1>1, <1>2, <1>3, PTL DEF Spec
=============================================================================
