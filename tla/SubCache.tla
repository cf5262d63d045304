------------------------------ MODULE SubCache ------------------------------
(***************************************************************************)
(* Whom an event is expanded to: Expander.getWatchedAddresses              *)
(* (internal/dispatcher/expander.go) takes the apps that watch an address  *)
(* from the Redis key sub_cache:<chain>:<address> or, when that is not     *)
(* there, from watched_addresses, and caches the answer for five minutes.  *)
(* AddressService (internal/api/service/address.go) changes the table;     *)
(* only Delete also removes the key, and under the address as it is        *)
(* stored, where the dispatcher writes it in lower case.                   *)
(*                                                                         *)
(* One address of one chain.  Time passes in ticks.                        *)
(***************************************************************************)
EXTENDS Integers

CONSTANTS
    Apps,         \* apps that may watch the address
    Expanders,    \* processes that run an Expander
    TTL,          \* life of the key, in ticks
    Within,       \* a dispatcher sends its SET within so many ticks of its SELECT
    SubFaultKinds,\* the kinds of fault that can strike
    MaxSubFaults  \* bound: faults in a behaviour

ASSUME TimeAssumption == TTL \in Nat \ {0} /\ Within \in Nat
ASSUME SubBoundAssumption == MaxSubFaults \in Nat
\* "crash": a dispatcher ends; "api": the API process ends, or Redis fails it,
\* before its DEL; "redis": a request of a dispatcher to Redis fails; "db": the
\* SELECT fails.
ASSUME SubFaultAssumption == SubFaultKinds \subseteq {"crash", "api", "redis", "db"}

VARIABLES
    lowerCase,\* the stored address is in lower case (EVM, not TRON or SOL)
    watching, \* apps with an enabled row
    deleted,  \* apps with a disabled row
    since,    \* since[a]: ticks since the row of a changed, up to Horizon
    subDels,  \* requests that have disabled a row and not yet sent their DEL
    subCached,\* the key exists
    sub,      \* the list it holds
    left,     \* ticks until it expires
    subPc,    \* subPc[d]: where Expander.Handle of d is in getWatchedAddresses
    list,     \* list[d]: what its SELECT returned
    wait,     \* wait[d]: ticks since then
    subFaults \* history: how many faults struck

table    == << lowerCase, watching, deleted, since >>
key      == << subCached, sub, left >>
subProcs == << subPc, list, wait >>
subVars  == << table, subDels, key, subProcs, subFaults >>

\* How long a change may take to be seen.
Horizon == TTL + Within

SubInit ==
    /\ lowerCase \in BOOLEAN
    /\ watching = {} /\ deleted = {} /\ since = [a \in Apps |-> Horizon]
    /\ subDels = 0
    /\ subCached = FALSE /\ sub = {} /\ left = 0
    /\ subPc = [d \in Expanders |-> "idle"]
    /\ list = [d \in Expanders |-> {}] /\ wait = [d \in Expanders |-> 0]
    /\ subFaults = 0

SubFault(kind) ==
    /\ kind \in SubFaultKinds
    /\ subFaults < MaxSubFaults
    /\ subFaults' = subFaults + 1

-----------------------------------------------------------------------------
(* AddressService *)

\* A disabled row keeps its unique key: an app that gave up the address cannot
\* watch it again.
Create(a) ==
    /\ a \notin watching \cup deleted
    /\ watching' = watching \cup {a}
    /\ since' = [since EXCEPT ![a] = 0]
    /\ UNCHANGED << lowerCase, deleted, subDels, key, subProcs, subFaults >>

Delete(a) ==
    /\ a \in watching
    /\ watching' = watching \ {a}
    /\ deleted' = deleted \cup {a}
    /\ since' = [since EXCEPT ![a] = 0]
    /\ subDels' = subDels + 1
    /\ UNCHANGED << lowerCase, key, subProcs, subFaults >>

\* DEL names the key of the dispatchers only if the address is in lower case.
SubDel ==
    /\ subDels > 0
    /\ subDels' = subDels - 1
    /\ \/ /\ IF lowerCase THEN subCached' = FALSE /\ sub' = {} /\ left' = 0
                          ELSE UNCHANGED key
          /\ UNCHANGED subFaults
       \/ SubFault("api") /\ UNCHANGED key
    /\ UNCHANGED << table, subProcs >>

-----------------------------------------------------------------------------
(* Expander *)

LeftRenewed == TTL   \* mutant: a hit renews the life of the key

LeftAfterHit == left

SubReturn(d) ==
    /\ subPc' = [subPc EXCEPT ![d] = "idle"]
    /\ list' = [list EXCEPT ![d] = {}] /\ wait' = [wait EXCEPT ![d] = 0]

\* An event arrives.  A hit answers it from the cache.
Get(d) ==
    /\ subPc[d] = "idle"
    /\ \/ /\ subCached
          /\ left' = LeftAfterHit
          /\ UNCHANGED << subPc, subFaults >>
       \/ /\ \/ ~ subCached /\ UNCHANGED subFaults
             \/ SubFault("redis")
          /\ subPc' = [subPc EXCEPT ![d] = "list"]
          /\ UNCHANGED left
    /\ UNCHANGED << table, subDels, subCached, sub, list, wait >>

Enabled == watching

\* An empty list is not cached; after a failure the event goes to nobody.
ListByChainAddress(d) ==
    /\ subPc[d] = "list"
    /\ \/ /\ Enabled # {}
          /\ subPc' = [subPc EXCEPT ![d] = "set"]
          /\ list' = [list EXCEPT ![d] = Enabled]
          /\ UNCHANGED << wait, subFaults >>
       \/ /\ Enabled = {}
          /\ SubReturn(d)
          /\ UNCHANGED subFaults
       \/ /\ SubFault("db")
          /\ SubReturn(d)
    /\ UNCHANGED << table, subDels, key >>

SetTTL == TTL

\* SET with its time to live, one request.
Set(d) ==
    /\ subPc[d] = "set"
    /\ \/ subCached' = TRUE /\ sub' = list[d] /\ left' = SetTTL /\ UNCHANGED subFaults
       \/ SubFault("redis") /\ UNCHANGED key
    /\ SubReturn(d)
    /\ UNCHANGED << table, subDels >>

getWatchedAddresses(d) == Get(d) \/ ListByChainAddress(d) \/ Set(d)

\* The dispatcher ends; the message comes back to it or to another.
SubCrash(d) ==
    /\ subPc[d] # "idle"
    /\ SubFault("crash")
    /\ SubReturn(d)
    /\ UNCHANGED << table, subDels, key >>

Tick ==
    /\ \A d \in Expanders : subPc[d] = "set" => wait[d] < Within
    /\ since' = [a \in Apps |-> IF since[a] < Horizon THEN since[a] + 1 ELSE since[a]]
    /\ wait' = [d \in Expanders |-> IF subPc[d] = "set" THEN wait[d] + 1 ELSE wait[d]]
    /\ IF left > 1
       THEN left' = left - 1 /\ UNCHANGED << subCached, sub >>
       ELSE left' = 0 /\ subCached' = FALSE /\ sub' = {}
    /\ UNCHANGED << lowerCase, watching, deleted, subDels, subPc, list, subFaults >>

SubNext ==
    \/ \E a \in Apps : Create(a) \/ Delete(a)
    \/ SubDel
    \/ \E d \in Expanders : getWatchedAddresses(d) \/ SubCrash(d)
    \/ Tick

SubSpec == SubInit /\ [][SubNext]_subVars

-----------------------------------------------------------------------------
(* Properties *)

SubTypeOK ==
    /\ lowerCase \in BOOLEAN
    /\ watching \subseteq Apps /\ deleted \subseteq Apps
    /\ watching \cap deleted = {}
    /\ since \in [Apps -> 0..Horizon] /\ subDels \in Nat
    /\ subCached \in BOOLEAN /\ sub \subseteq Apps /\ left \in 0..TTL
    /\ subPc \in [Expanders -> {"idle", "list", "set"}]
    /\ list \in [Expanders -> SUBSET Apps] /\ wait \in [Expanders -> 0..Within]
    /\ subFaults \in 0..MaxSubFaults

\* l is right about every app whose row has not changed for n ticks.
RightSince(l, n) == \A a \in Apps : since[a] >= n => (a \in l <=> a \in watching)

\* The lists an event that arrives, or one being handled, is expanded to; the
\* others come from the table.
Lists == {l \in {sub} : subCached} \cup {list[d] : d \in {e \in Expanders : subPc[e] = "set"}}

\* However the cache is raced, whatever fails and whether or not the DEL hits
\* the key, an event is expanded to every app that has watched the address for
\* as long as a cached list may live, and to no app that gave it up so long ago.
BoundedStaleness == \A l \in Lists : RightSince(l, Horizon)
=============================================================================
