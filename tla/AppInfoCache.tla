---------------------------- MODULE AppInfoCache ----------------------------
(***************************************************************************)
(* The settings of an app and the copy of them the dispatchers work from:  *)
(* AppService (internal/api/service/app.go) writes the row of table apps,  *)
(* Expander.getAppInfo (internal/dispatcher/expander.go) reads it through  *)
(* the Redis hash app_info:<id>, which lives ten minutes once its EXPIRE   *)
(* has been sent.                                                          *)
(*                                                                         *)
(* One app and events of one chain, so that a whitelist is the set of      *)
(* contracts it names for that chain.  Left out: the name and the API key, *)
(* which getAppInfo does not copy, and the deletion of the app, which only *)
(* sets a status that getAppInfo does not look at.                         *)
(***************************************************************************)
EXTENDS Naturals

CONSTANTS
    Dispatchers,  \* processes that run an Expander
    URLs,         \* callback URLs
    NoURL,        \* the empty callback URL
    Contracts,    \* token contracts of the chain
    Native,       \* the empty contract address of a native transfer
    MaxEdits,     \* bound: updates of the row
    FaultKinds,   \* the kinds of fault that can strike
    MaxFaults     \* bound: faults in a behaviour

ASSUME SettingsAssumption ==
    /\ NoURL \notin URLs /\ Native \notin Contracts
    /\ MaxEdits \in Nat /\ MaxFaults \in Nat
\* "crash": a dispatcher ends; "api": the API process ends, or Redis fails it,
\* before its DEL; "redis": a request of a dispatcher to Redis fails; "db":
\* GetByID fails.
ASSUME FaultAssumption == FaultKinds \subseteq {"crash", "api", "redis", "db"}

\* The columns of a row that getAppInfo copies.
App == [url : URLs \cup {NoURL}, secret : Nat, allowed : SUBSET Contracts]

NoApp == [url |-> NoURL, secret |-> 0, allowed |-> {}]

NoTask == [url |-> NoURL]

VARIABLES
    row,      \* the app in table apps
    edits,    \* number of its updates
    dels,     \* requests that have updated the row and not yet sent their DEL
    cached,   \* app_info:<id> exists
    info,     \* its fields (those of the last HSET)
    ttl,      \* it has a time to live
    pc,       \* pc[d]: where Expander.Handle of d is in getAppInfo
    contract, \* contract[d]: contract of the event it handles
    got,      \* got[d]: the app it has read
    versions, \* history: what the row has been
    task,     \* history: the task created last
    faults    \* history: how many faults struck, and of which kinds

db    == << row, edits, versions >>
hash  == << cached, info, ttl >>
procs == << pc, contract, got >>
vars  == << db, dels, hash, procs, task, faults >>

Init ==
    /\ row \in [url : URLs \cup {NoURL}, secret : {0}, allowed : {{}}]
    /\ edits = 0 /\ versions = {row} /\ dels = 0
    /\ cached = FALSE /\ info = NoApp /\ ttl = FALSE
    /\ pc = [d \in Dispatchers |-> "idle"]
    /\ contract = [d \in Dispatchers |-> Native]
    /\ got = [d \in Dispatchers |-> NoApp]
    /\ task = NoTask /\ faults = [count |-> 0, kinds |-> {}]

Fault(kind) ==
    /\ kind \in FaultKinds
    /\ faults.count < MaxFaults
    /\ faults' = [count |-> faults.count + 1, kinds |-> faults.kinds \cup {kind}]

-----------------------------------------------------------------------------
(* AppService *)

\* An UPDATE of the row of an app its user owns.
Store(r) ==
    /\ edits < MaxEdits
    /\ edits' = edits + 1
    /\ row' = r
    /\ versions' = versions \cup {r}

Update(u) ==
    /\ Store([row EXCEPT !.url = u])
    /\ UNCHANGED << dels, hash, procs, task, faults >>

ResetSecret ==
    /\ Store([row EXCEPT !.secret = @ + 1])
    /\ UNCHANGED << dels, hash, procs, task, faults >>

\* The row first, then the DEL.  A request that names no chain stores an empty
\* text, which the JSON column of migration 000010 rejects: nothing changes.
UpdateAllowedContracts(list) ==
    /\ Store([row EXCEPT !.allowed = list])
    /\ dels' = dels + 1
    /\ UNCHANGED << hash, procs, task, faults >>

\* The key goes.
Dropped == cached' = FALSE /\ info' = NoApp /\ ttl' = FALSE

Del ==
    /\ dels > 0
    /\ dels' = dels - 1
    /\ \/ Dropped /\ UNCHANGED faults
       \/ Fault("api") /\ UNCHANGED hash
    /\ UNCHANGED << db, procs, task >>

-----------------------------------------------------------------------------
(* Expander *)

\* isContractAllowed: native transfers pass, and no list for the chain is no limit.
isContractAllowed(list, c) == c = Native \/ list = {} \/ c \in list

Return(d) ==
    /\ pc' = [pc EXCEPT ![d] = "idle"]
    /\ contract' = [contract EXCEPT ![d] = Native]
    /\ got' = [got EXCEPT ![d] = NoApp]

\* The rest of Handle's loop body: the task for an event of contract c is made
\* from what getAppInfo returned, and the handler is done.
UseInfo(d, r, c) ==
    /\ task' = IF r.url # NoURL /\ isContractAllowed(r.allowed, c)
               THEN [url |-> r.url, secret |-> r.secret, contract |-> c]
               ELSE task
    /\ Return(d)

\* Handle comes to an address of the app, and getAppInfo asks Redis.
HMGet(d, c) ==
    /\ pc[d] = "idle"
    /\ \/ cached /\ UseInfo(d, info, c) /\ UNCHANGED faults
       \/ /\ \/ ~ cached /\ UNCHANGED faults
             \/ Fault("redis")
          /\ pc' = [pc EXCEPT ![d] = "read"]
          /\ contract' = [contract EXCEPT ![d] = c]
          /\ UNCHANGED << got, task >>
    /\ UNCHANGED << db, dels, hash >>

ReadWithCachedSecret == [row EXCEPT !.secret = info.secret]   \* mutant

\* mutant: what a replica that has not seen the new secret says
ReadStale == CHOOSE r \in versions : \A q \in versions : r.secret <= q.secret

Columns == row

GetByID(d) ==
    /\ pc[d] = "read"
    /\ \/ /\ got' = [got EXCEPT ![d] = Columns]
          /\ pc' = [pc EXCEPT ![d] = "hset"]
          /\ UNCHANGED << contract, faults >>
       \/ Fault("db") /\ Return(d)
    /\ UNCHANGED << db, dels, hash, task >>

\* One HSET of the three fields; a key that exists keeps its time to live.
HSet(d) ==
    /\ pc[d] = "hset"
    /\ pc' = [pc EXCEPT ![d] = "expire"]
    /\ \/ cached' = TRUE /\ info' = got[d] /\ UNCHANGED faults
       \/ Fault("redis") /\ UNCHANGED << cached, info >>
    /\ UNCHANGED << db, dels, ttl, contract, got, task >>

ExpireNothing == FALSE   \* mutant: no EXPIRE

\* EXPIRE of a key that is gone does nothing.
ExpireWorks == cached

\* Then the task is made.
Expire(d) ==
    /\ pc[d] = "expire"
    /\ \/ ttl' = (ttl \/ ExpireWorks) /\ UNCHANGED faults
       \/ Fault("redis") /\ UNCHANGED ttl
    /\ UseInfo(d, got[d], contract[d])
    /\ UNCHANGED << db, dels, cached, info >>

getAppInfo(d) == (\E c \in Contracts \cup {Native} : HMGet(d, c)) \/ GetByID(d) \/ HSet(d) \/ Expire(d)

\* The dispatcher ends; the message comes back to it or to another.
Crash(d) ==
    /\ pc[d] # "idle"
    /\ Fault("crash")
    /\ Return(d)
    /\ UNCHANGED << db, dels, hash, task >>

\* Redis drops the key at the end of its time.
TimeOut ==
    /\ cached /\ ttl
    /\ Dropped
    /\ UNCHANGED << db, dels, procs, task, faults >>

Api == \/ \E u \in URLs : Update(u)
       \/ ResetSecret
       \/ \E list \in SUBSET Contracts : UpdateAllowedContracts(list)
       \/ Del

Next == \/ Api \/ TimeOut
        \/ \E d \in Dispatchers : getAppInfo(d) \/ Crash(d)

Spec == Init /\ [][Next]_vars

\* A handler that has begun goes on, Redis's clock runs, and a DEL is sent.
FairSpec ==
    /\ Spec
    /\ \A d \in Dispatchers : WF_vars(GetByID(d)) /\ WF_vars(HSet(d)) /\ WF_vars(Expire(d))
    /\ WF_vars(TimeOut) /\ WF_vars(Del)

-----------------------------------------------------------------------------
(* Properties *)

TypeOK ==
    /\ row \in App /\ info \in App /\ got \in [Dispatchers -> App]
    /\ edits \in 0..MaxEdits /\ dels \in Nat /\ versions \subseteq App
    /\ cached \in BOOLEAN /\ ttl \in BOOLEAN /\ (ttl => cached)
    /\ pc \in [Dispatchers -> {"idle", "read", "hset", "expire"}]
    /\ contract \in [Dispatchers -> Contracts \cup {Native}]
    /\ task \in [url : URLs, secret : Nat, contract : Contracts \cup {Native}] \cup {NoTask}
    /\ faults \in [count : 0..MaxFaults, kinds : SUBSET FaultKinds]

\* Whatever fails and however old the cache is, a callback goes to the URL, is
\* signed with the secret and has passed the whitelist of one and the same
\* version of the app: a customer is never sent a signature of another version.
OneVersion ==
    task # NoTask => \E r \in versions :
        /\ r.url = task.url /\ r.secret = task.secret
        /\ r.allowed = {} \/ task.contract \in r.allowed \cup {Native}

\* No dispatcher has died, and Redis has answered all of them.
Undisturbed == faults.kinds \cap {"crash", "redis"} = {}

\* So far a hash without a time to live is one whose EXPIRE is still to be sent:
\* no copy of the settings stays for ever.
Perishable ==
    Undisturbed /\ cached /\ ~ ttl => \E d \in Dispatchers : pc[d] = "expire"

\* The settings are edited only so often; in the end the dispatchers see them,
\* also when the API's DEL is lost or is overtaken by an older HSET.
EventuallyFresh == []Undisturbed => <>[](cached => info = row)
=============================================================================
