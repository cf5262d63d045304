----------------------------- MODULE LeaderLock -----------------------------
(***************************************************************************)
(* The election of the worker that listens to a chain: pkg/distlock and    *)
(* the loop of Supervisor.Run (internal/chain/supervisor.go).              *)
(*                                                                         *)
(* Every worker process tries once, at its start, to set the Redis key     *)
(* listener:lock:<chain> of each of its chains.  Where it succeeds it      *)
(* starts a renewal goroutine and a listener.  All chains of a process     *)
(* share one distlock.Lock, whose fields hold the key and the value of the *)
(* last successful call only.                                              *)
(*                                                                         *)
(* Time passes in ticks of the renewal interval (5s in the code, the TTL   *)
(* is 15s).  Left out: Unlock, which no process calls.                     *)
(***************************************************************************)
EXTENDS Naturals, FiniteSets

CONSTANTS
    Instances,    \* worker processes
    Chains,       \* the chains of ENABLED_CHAINS
    TTL,          \* life of a key, in ticks (3)
    RenewWithin,  \* a running renewal goroutine renews within so many ticks
    FaultKinds,   \* the kinds of fault that can strike
    MaxFaults     \* bound: faults in a behaviour

ASSUME LockAssumption ==
    /\ TTL \in Nat \ {0} /\ RenewWithin \in Nat \ {0}
    /\ MaxFaults \in Nat
    /\ 0 \notin Chains
\* "crash": a process ends; "redis": Redis does not answer one request, which it
\* may have carried out.
ASSUME FaultAssumption == FaultKinds \subseteq {"crash", "redis"}

NoKey == 0

VARIABLES
    key,       \* key[c]: the value of listener:lock:<c> in Redis, 0 if there is none
    ttl,       \* ttl[c]: ticks until that key expires
    uuids,     \* number of values drawn by uuid.New
    up,        \* the running processes
    todo,      \* todo[i]: chains the loop of Run has still to come to
    lkey,      \* lkey[i]: field key of the process's Lock, 0 before the first
    value,     \* value[i]: field value of the process's Lock
    renewing,  \* renewing[i]: chains with a RenewLoop
    listening, \* listening[i]: chains with a Listener and its pool
    late,      \* late[i][c]: ticks since i locked or renewed c
    faults     \* history: the number of faults so far, and their kinds

redisVars == << key, ttl >>
vars == << redisVars, uuids, up, todo, lkey, value, renewing, listening, late, faults >>

Init ==
    /\ key = [c \in Chains |-> NoKey] /\ ttl = [c \in Chains |-> 0]
    /\ uuids = 0 /\ up = {}
    /\ todo = [i \in Instances |-> {}]
    /\ lkey = [i \in Instances |-> 0] /\ value = [i \in Instances |-> 0]
    /\ renewing = [i \in Instances |-> {}] /\ listening = [i \in Instances |-> {}]
    /\ late = [i \in Instances |-> [c \in Chains |-> 0]]
    /\ faults = [count |-> 0, kinds |-> {}]

Fault(kind) ==
    /\ kind \in FaultKinds
    /\ faults.count < MaxFaults
    /\ faults' = [count |-> faults.count + 1, kinds |-> faults.kinds \cup {kind}]

-----------------------------------------------------------------------------
(* A process *)

Start(i) ==
    /\ i \notin up
    /\ up' = up \cup {i}
    /\ todo' = [todo EXCEPT ![i] = Chains]
    /\ UNCHANGED << redisVars, uuids, lkey, value, renewing, listening, late, faults >>

SetSucceeds(c) == TRUE   \* mutant: SET without NX

SetXXSucceeds(c) == key[c] # NoKey   \* mutant: XX for NX

SetNXSucceeds(c) == key[c] = NoKey

HostId == 1   \* mutant: a constant instead of a fresh value

NewUUID == uuids + 1

\* An iteration of Run's loop that gets the lock.  SetNX and the assignments
\* to the fields of Lock are one step.
Lock(i, c) ==
    /\ i \in up
    /\ c \in todo[i]
    /\ SetNXSucceeds(c)
    /\ uuids' = NewUUID
    /\ key' = [key EXCEPT ![c] = uuids']
    /\ ttl' = [ttl EXCEPT ![c] = TTL]
    /\ lkey' = [lkey EXCEPT ![i] = c]
    /\ value' = [value EXCEPT ![i] = uuids']
    /\ renewing' = [renewing EXCEPT ![i] = @ \cup {c}]
    /\ listening' = [listening EXCEPT ![i] = @ \cup {c}]
    /\ late' = [late EXCEPT ![i][c] = 0]
    /\ todo' = [todo EXCEPT ![i] = @ \ {c}]
    /\ UNCHANGED << up, faults >>

\* An iteration that does not: the key is set, or Redis fails, perhaps after it has
\* set the key to a value nobody will remember.  The loop goes on to the next chain
\* and never comes back to this one.
Standby(i, c) ==
    /\ i \in up
    /\ c \in todo[i]
    /\ \/ ~ SetNXSucceeds(c) /\ UNCHANGED << redisVars, uuids, faults >>
       \/ Fault("redis") /\ UNCHANGED << redisVars, uuids >>
       \/ /\ SetNXSucceeds(c)
          /\ Fault("redis")
          /\ uuids' = NewUUID
          /\ key' = [key EXCEPT ![c] = uuids']
          /\ ttl' = [ttl EXCEPT ![c] = TTL]
    /\ todo' = [todo EXCEPT ![i] = @ \ {c}]
    /\ UNCHANGED << up, lkey, value, renewing, listening, late >>

RenewedTTLOneTick == 1     \* mutant: the interval passed for the ttl

RenewedTTL == TTL

RenewableAny(i, c) == key[c] # NoKey   \* mutant: EXPIRE without the comparison

\* The script of Renew compares the key with the value of the Lock.
Renewable(i, c) == key[c] = value[i]

\* A tick of RenewLoop.  If Renew does not find the value, or Redis fails (perhaps
\* after it has extended the key), the loop ends and the listener stays.
Renew(i, c) ==
    /\ i \in up
    /\ c \in renewing[i]
    /\ late[i][c] > 0
    /\ \/ /\ Renewable(i, c)
          /\ ttl' = [ttl EXCEPT ![c] = RenewedTTL]
          /\ late' = [late EXCEPT ![i][c] = 0]
          /\ UNCHANGED << renewing, faults >>
       \/ /\ \/ ~ Renewable(i, c) /\ UNCHANGED << ttl, faults >>
             \/ Fault("redis") /\ UNCHANGED ttl
             \/ Renewable(i, c) /\ Fault("redis") /\ ttl' = [ttl EXCEPT ![c] = RenewedTTL]
          /\ renewing' = [renewing EXCEPT ![i] = @ \ {c}]
          /\ UNCHANGED late
    /\ UNCHANGED << key, uuids, up, todo, lkey, value, listening >>

\* The process dies, or main returns: nothing is unlocked.
Crash(i) ==
    /\ i \in up
    /\ Fault("crash")
    /\ up' = up \ {i}
    /\ todo' = [todo EXCEPT ![i] = {}]
    /\ lkey' = [lkey EXCEPT ![i] = 0] /\ value' = [value EXCEPT ![i] = 0]
    /\ renewing' = [renewing EXCEPT ![i] = {}]
    /\ listening' = [listening EXCEPT ![i] = {}]
    /\ late' = [late EXCEPT ![i] = [c \in Chains |-> 0]]
    /\ UNCHANGED << redisVars, uuids >>

-----------------------------------------------------------------------------
(* Time *)

\* One renewal interval passes.  A renewal that is due waits no longer than
\* RenewWithin allows.
Tick ==
    /\ \E c \in Chains : key[c] # NoKey
    /\ \A i \in up : \A c \in renewing[i] : late[i][c] < RenewWithin
    /\ ttl' = [c \in Chains |-> IF ttl[c] > 0 THEN ttl[c] - 1 ELSE 0]
    /\ key' = [c \in Chains |-> IF ttl[c] > 1 THEN key[c] ELSE NoKey]
    /\ late' = [i \in Instances |-> [c \in Chains |->
                   IF c \in renewing[i] THEN late[i][c] + 1 ELSE late[i][c]]]
    /\ UNCHANGED << uuids, up, todo, lkey, value, renewing, listening, faults >>

Run(i) == \E c \in Chains : Lock(i, c) \/ Standby(i, c)

RenewLoop(i) == \E c \in Chains : Renew(i, c)

Next == \/ \E i \in Instances : Start(i) \/ Run(i) \/ RenewLoop(i) \/ Crash(i)
        \/ Tick

Spec == Init /\ [][Next]_vars

\* Time passes, and the renewal goroutines run.
FairSpec == Spec /\ WF_vars(Tick) /\ \A i \in Instances : WF_vars(RenewLoop(i))

-----------------------------------------------------------------------------
(* Properties *)

Faults == [count : 0..MaxFaults, kinds : SUBSET FaultKinds]

TypeOK ==
    /\ key \in [Chains -> Nat] /\ ttl \in [Chains -> 0..TTL] /\ uuids \in Nat
    /\ up \subseteq Instances
    /\ todo \in [Instances -> SUBSET Chains]
    /\ lkey \in [Instances -> Chains \cup {0}] /\ value \in [Instances -> Nat]
    /\ renewing \in [Instances -> SUBSET Chains]
    /\ listening \in [Instances -> SUBSET Chains]
    /\ late \in [Instances -> [Chains -> 0..RenewWithin]]
    /\ faults \in Faults

\* The lock a process took last (the one its Lock remembers) stays its own while
\* the process runs: the key expires under no renewal, and nobody else sets or
\* renews it, when renewals are late by less than the TTL and Redis answers.
KeptLock ==
    "redis" \notin faults.kinds =>
        \A i \in up : lkey[i] # 0 => key[lkey[i]] = value[i]

\* Whatever fails, at most one process can renew the key of a chain.
OneRenewer ==
    \A c \in Chains : \A i, j \in up :
        key[c] # NoKey /\ key[c] = value[i] /\ key[c] = value[j] => i = j

\* What the election is for, as far as it goes: two workers that listen to one
\* chain only do not listen to the same one.
OneListener ==
    "redis" \notin faults.kinds =>
        \A c \in Chains : \A i, j \in Instances :
            listening[i] = {c} /\ listening[j] = {c} => i = j

\* A worker tries a chain once and never again.  Still no chain is left alone while
\* nothing fails: where one worker has given way, another one listens, also when
\* that one's key has since expired.
SomeoneListens ==
    faults.kinds = {} =>
        \A i \in up : \A c \in Chains \ todo[i] : \E j \in up : c \in listening[j]

\* The key of a chain that no renewal goroutine can extend.
Orphaned(c) == key[c] # NoKey /\ ~ \E i \in up : c \in renewing[i] /\ key[c] = value[i]

\* After a crash, or a SETNX or a renewal whose answer got lost, the key of the chain
\* does not bar the workers that start later for ever, however the others go on.
Freed == \A c \in Chains : Orphaned(c) ~> key[c] = NoKey

\* What the documentation says the election is for: at most one worker listens
\* to a chain.
OneListenerPerChain ==
    \A c \in Chains : \A i, j \in Instances :
        c \in listening[i] /\ c \in listening[j] => i = j

\* All running workers are past the chain, and none of them listens to it.
Abandoned(c) == up # {} /\ \A i \in up : c \notin todo[i] \cup listening[i]

\* What the documentation and the log call a standby: when the worker that listened is
\* gone, a worker that had to give way takes the chain over.
Takeover == \A c \in Chains : Abandoned(c) ~> ~ Abandoned(c)
=============================================================================
