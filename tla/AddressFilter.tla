--------------------------- MODULE AddressFilter ---------------------------
(***************************************************************************)
(* How a watched address gets into, and stays in, the Bloom filters of a   *)
(* worker: AddressService (internal/api/service/address.go), the table     *)
(* watched_addresses (internal/store), and Matcher (internal/matcher) with *)
(* its pub/sub subscriber, MySQL synchronisation and snapshots in Redis.   *)
(*                                                                         *)
(* The first layer of IsWatched drops every event whose address is not in  *)
(* the Bloom filter of its chain, so a watched address missing there is    *)
(* never matched.  The filter is modelled as the exact set of its          *)
(* addresses: a false positive is answered by MySQL, the third layer.      *)
(*                                                                         *)
(* Left out: the hot set, of which both outcomes ask MySQL the same, with  *)
(* the remove message, which only touches it; labels; IncrementalMaxLen    *)
(* (50000, five times the largest batch).  A batch is one insert (up to    *)
(* 500 addresses).                                                         *)
(***************************************************************************)
EXTENDS Integers, Sequences, FiniteSets

CONSTANTS
    Subs,       \* the (app, chain, address) triples that may be watched
    ChainOf,    \* ChainOf[s]: the chain of s
    AddrOf,     \* AddrOf[s]: the address of s
    Chains,
    Later,      \* chains that the worker's config enables only later
    PageSize,   \* rows of a page of LoadFromDB (10000)
    FaultKinds, \* the kinds of fault that can strike
    MaxFaults   \* bound: faults in a behaviour

ASSUME SubsAssumption ==
    /\ IsFiniteSet(Subs)
    /\ ChainOf \in [Subs -> Chains] /\ DOMAIN AddrOf = Subs
    /\ Later \subseteq Chains /\ Later # Chains
ASSUME BoundAssumption ==
    PageSize \in Nat \ {0} /\ MaxFaults \in Nat
\* "crash": the worker ends; "api": the API process ends, or its Redis pipeline
\* fails, after the insert; "pubsub": a message is lost; "db": a query fails;
\* "redis": a request of RestoreBF or SnapshotBF fails.
ASSUME FaultAssumption == FaultKinds \subseteq {"crash", "api", "pubsub", "db", "redis"}

VARIABLES
    id,        \* id[s]: the row of s in watched_addresses, 0 if there is none
    created,   \* created[s]: the second in created_at of that row
    status,    \* status[s]: "none", "open" (insert not committed), "live", "deleted"
    nextId,    \* the last id that AUTO_INCREMENT gave
    open,      \* inserts not yet committed, each the set of its triples
    notify,    \* requests committed and not yet announced
    incr,      \* incr[c]: list bf:incremental:<c>, newest first
    chan,      \* messages on their way to the subscriber
    enabled,   \* chains of the worker's config
    phase,     \* of the worker: "down", "count" and "find" in LoadFromDB, "running"
    page,      \* LoadFromDB's page
    total,     \* what the Count of that page answered
    maxID,     \* LoadFromDB's maxID
    bf,        \* bf[c]: the addresses in the filter of chain c
    lastDBSyncID,
    written,   \* chains that the running SnapshotBF is done with
    snapped,   \* chains with a key bf:snapshot:<c>
    snap,      \* snap[c]: what it holds
    snapMax,   \* bf:snapshot:maxid, -1 if there is none
    whole,     \* history: the filters were built from all rows up to the watermark
    clean,     \* history: so is what the running SnapshotBF writes
    intact,    \* history: so are the snapshots in Redis
    faults     \* history: how many faults struck

table  == << id, created, status, nextId, open >>
redis  == << incr, snapped, snap, snapMax >>
worker == << phase, page, total, maxID, bf, lastDBSyncID, written >>
marks  == << whole, clean, intact >>
vars   == << table, redis, worker, notify, chan, enabled, marks, faults >>

NoAddresses == [c \in Chains |-> {}]

Init ==
    /\ id = [s \in Subs |-> 0] /\ created = [s \in Subs |-> 0]
    /\ status = [s \in Subs |-> "none"] /\ nextId = 0
    /\ open = {} /\ notify = {}
    /\ incr = [c \in Chains |-> << >>] /\ chan = << >>
    /\ enabled = Chains \ Later
    /\ phase = "down" /\ page = 0 /\ total = 0 /\ maxID = 0
    /\ bf = NoAddresses /\ lastDBSyncID = 0
    /\ written = {}
    /\ snapped = {} /\ snap = NoAddresses /\ snapMax = -1
    /\ whole = TRUE /\ clean = TRUE /\ intact = TRUE
    /\ faults = 0

Fault(kind) ==
    /\ kind \in FaultKinds
    /\ faults < MaxFaults
    /\ faults' = faults + 1

Live == {s \in Subs : status[s] = "live"}

\* No insert that got an id up to n is still open.
Settled(n) == \A s \in Subs : status[s] = "open" => id[s] > n

-----------------------------------------------------------------------------
(* AddressService *)

Rows == {s \in Subs : id[s] > 0}

\* The seconds that created_at can say: the API stamps the rows of an insert with one
\* time, before they get their ids, and another insert may overtake it (bound: by
\* one second).
Stamps ==
    IF Rows = {} THEN {1}
    ELSE UNION {(created[s]-1 .. created[s]+1) \cap Nat :
                    s \in {t \in Rows : \A u \in Rows : created[u] <= created[t]}}

\* Create (one triple) and BatchCreate (several of a chain): the insert gets its
\* ids.  A triple that has a row already, deleted or not, violates the unique
\* key and the insert leaves nothing.
Insert(r) ==
    /\ r # {}
    /\ \A s, t \in r : ChainOf[s] = ChainOf[t]
    /\ \A s \in r : status[s] = "none"
    /\ \E f \in [r -> nextId+1 .. nextId+Cardinality(r)] :
          /\ \A s, t \in r : f[s] = f[t] => s = t
          /\ id' = [s \in Subs |-> IF s \in r THEN f[s] ELSE id[s]]
    /\ \E n \in Stamps : created' = [s \in Subs |-> IF s \in r THEN n ELSE created[s]]
    /\ status' = [s \in Subs |-> IF s \in r THEN "open" ELSE status[s]]
    /\ nextId' = nextId + Cardinality(r)
    /\ open' = open \cup {r}
    /\ UNCHANGED << redis, worker, notify, chan, enabled, marks, faults >>

Commit(r) ==
    /\ r \in open
    /\ open' = open \ {r}
    /\ status' = [s \in Subs |-> IF s \in r THEN "live" ELSE status[s]]
    /\ notify' = notify \cup {r}
    /\ UNCHANGED << id, created, nextId, redis, worker, chan, enabled, marks, faults >>

Rollback(r) ==
    /\ r \in open
    /\ Fault("db")
    /\ open' = open \ {r}
    /\ status' = [s \in Subs |-> IF s \in r THEN "none" ELSE status[s]]
    /\ id' = [s \in Subs |-> IF s \in r THEN 0 ELSE id[s]]
    /\ created' = [s \in Subs |-> IF s \in r THEN 0 ELSE created[s]]
    /\ UNCHANGED << nextId, redis, worker, notify, chan, enabled, marks >>

Chain(r) == ChainOf[CHOOSE s \in r : TRUE]

\* The addresses of r as LPush leaves them, the last pushed first.
Pushed(r) ==
    LET rank(s) == Cardinality({t \in r : id[t] >= id[s]})
    IN  [k \in 1..Cardinality(r) |-> AddrOf[CHOOSE s \in r : rank(s) = k]]

\* Create announces the address, BatchCreate (of one address too) how many.
Messages(r) ==
    {[type |-> "batch_add", chain |-> Chain(r), count |-> Cardinality(r)]}
    \cup IF Cardinality(r) = 1
         THEN {[type |-> "add", chain |-> Chain(r), address |-> Pushed(r)[1]]} ELSE {}

\* publishAddEvent, and the pipeline of BatchCreate.  Only a subscriber that is
\* there gets the message.
Announce(r) ==
    /\ r \in notify
    /\ notify' = notify \ {r}
    /\ \/ /\ incr' = [incr EXCEPT ![Chain(r)] = Pushed(r) \o @]
          /\ \E m \in Messages(r) :
                chan' = IF phase = "running" THEN Append(chan, m) ELSE chan
          /\ UNCHANGED faults
       \/ /\ Fault("api")
          /\ UNCHANGED << incr, chan >>
    /\ UNCHANGED << table, snapped, snap, snapMax, worker, enabled, marks >>

\* Between two pages of LoadFromDB a deletion moves the later rows up a place.
Delete(s) ==
    /\ status[s] = "live"
    /\ status' = [status EXCEPT ![s] = "deleted"]
    /\ whole' = (whole /\ ~ (phase \in {"count", "find"} /\ page > 1))
    /\ UNCHANGED << id, created, nextId, open, redis, worker, notify, chan, enabled,
                    clean, intact, faults >>

-----------------------------------------------------------------------------
(* Matcher: the subscriber *)

AddAll(addrs, c) == IF c \in enabled THEN [bf EXCEPT ![c] = @ \cup addrs] ELSE bf

\* handleBatchAdd reads the newest "count" addresses of the list.
Newest(c, count) ==
    {incr[c][k] : k \in 1..(IF count < Len(incr[c]) THEN count ELSE Len(incr[c]))}

Handled(m) ==
    IF m.type = "add" THEN AddAll({m.address}, m.chain)
                      ELSE AddAll(Newest(m.chain, m.count), m.chain)

handleAddressEvent ==
    /\ phase = "running"
    /\ chan # << >>
    /\ bf' = Handled(Head(chan))
    /\ chan' = Tail(chan)
    /\ UNCHANGED << table, redis, phase, page, total, maxID, lastDBSyncID, written,
                    notify, enabled, marks, faults >>

\* A message lost: the connection broke, go-redis dropped it, or the LRange of
\* handleBatchAdd failed.
LoseMessage ==
    /\ chan # << >>
    /\ Fault("pubsub")
    /\ chan' = Tail(chan)
    /\ UNCHANGED << table, redis, worker, notify, enabled, marks >>

-----------------------------------------------------------------------------
(* Matcher: MySQL *)

AfterUnlessZero(n) == IF n = 0 THEN {} ELSE {s \in Live : id[s] > n}   \* mutant

\* ListAfterID
After(n) == {s \in Live : id[s] > n}

With(filters, rows) ==
    [c \in Chains |-> IF c \in enabled
                      THEN filters[c] \cup {AddrOf[s] : s \in {t \in rows : ChainOf[t] = c}}
                      ELSE filters[c]]

MaxOf(n, rows) ==
    IF \E s \in rows : id[s] > n
    THEN id[CHOOSE s \in rows : \A t \in rows : id[t] <= id[s]]
    ELSE n

WatermarkNextId(n, rows) == nextId   \* mutant: the table's AUTO_INCREMENT

\* The watermark after a synchronisation from n that read rows.
Watermark(n, rows) == MaxOf(n, rows)

\* A tick of StartDBIncrementalSync.  The rows it adds are not in the snapshots that
\* a running SnapshotBF has written, and are below the watermark it will write.
syncFromDB ==
    /\ phase = "running"
    /\ After(lastDBSyncID) # {}
    /\ bf' = With(bf, After(lastDBSyncID))
    /\ lastDBSyncID' = Watermark(lastDBSyncID, After(lastDBSyncID))
    /\ whole' = (whole /\ Settled(MaxOf(lastDBSyncID, After(lastDBSyncID))))
    /\ clean' = (clean /\ written = {})
    /\ UNCHANGED << table, redis, phase, page, total, maxID, written, notify, chan,
                    enabled, intact, faults >>

-----------------------------------------------------------------------------
(* Matcher: the start of a worker *)

\* What RestoreBF gets from Redis and MySQL: the snapshots, the watermark (-1 if
\* none) and the rows after it; or a request fails.
Reads(got, max, rows) ==
    \/ got = snapped \cap enabled /\ max = snapMax /\ rows = After(max) /\ UNCHANGED faults
    \/ /\ got \subseteq snapped \cap enabled /\ max \in {snapMax, -1} /\ rows = After(max)
       /\ Fault("redis")
    \/ got = snapped \cap enabled /\ max = snapMax /\ rows = {} /\ Fault("db")

\* Without a watermark no row is added and the next synchronisation starts at 0.
RestoreBF(got, max, rows) ==
    /\ phase' = "running"
    /\ LET base == [c \in Chains |-> IF c \in got THEN snap[c] ELSE {}]
       IN  IF max = -1 THEN bf' = base /\ lastDBSyncID' = 0
           ELSE bf' = With(base, rows) /\ lastDBSyncID' = Watermark(max, rows)
    /\ whole' = (max # -1 => intact /\ got = enabled /\ Settled(MaxOf(max, rows)))
    /\ UNCHANGED << page, total, maxID >>

StartLoading ==
    /\ phase' = "count"
    /\ page' = 1 /\ total' = 0 /\ maxID' = 0
    /\ bf' = NoAddresses /\ lastDBSyncID' = 0
    /\ whole' = TRUE

Start ==
    /\ phase = "down"
    /\ \E got \in SUBSET enabled, max \in {snapMax, -1}, rows \in SUBSET Live :
          /\ Reads(got, max, rows)
          /\ IF got # {} THEN RestoreBF(got, max, rows) ELSE StartLoading
    /\ UNCHANGED << table, redis, written, notify, chan, enabled, clean, intact >>

\* A query of LoadFromDB fails: the worker goes on with what it has, and the next
\* synchronisation starts at 0.
LoadFails ==
    /\ phase \in {"count", "find"}
    /\ Fault("db")
    /\ phase' = "running" /\ page' = 0 /\ total' = 0 /\ maxID' = 0
    /\ whole' = TRUE
    /\ UNCHANGED << table, redis, bf, lastDBSyncID, written,
                    notify, chan, enabled, clean, intact >>

\* ListByApp counts the rows first.
Count ==
    /\ phase = "count"
    /\ phase' = "find"
    /\ total' = Cardinality(Live)
    /\ UNCHANGED << table, redis, page, maxID, bf, lastDBSyncID, written, notify,
                    chan, enabled, marks, faults >>

\* The orders in which ORDER BY created_at DESC can list the rows: f[s] is the place of
\* s.  Rows of one second come in any order, and in another one for the next page.
Orders ==
    {f \in [Live -> 1..Cardinality(Live)] :
        \A s, t \in Live : s # t => f[s] # f[t] /\ (created[s] > created[t] => f[s] < f[t])}

\* The rows of the page in such an order: OFFSET (page - 1) * size LIMIT size.
Page(f) == {s \in Live : (page - 1) * PageSize < f[s] /\ f[s] <= page * PageSize}

\* The first k rows are the newest by id too.
CutById(f, k) == \A s, t \in Live : f[s] <= k /\ k < f[t] => id[t] < id[s]

Known(rows) == {s \in rows : ChainOf[s] \in enabled}

LastPage == page * PageSize >= total

\* The page follows on the ones before and stops at the end.
Consistent(f) ==
    /\ CutById(f, (page - 1) * PageSize) /\ CutById(f, page * PageSize)
    /\ LastPage => page * PageSize >= Cardinality(Live)

\* Then it fetches the page.  LoadFromDB adds its rows, and sets the watermark after
\* the last page only, which it tells by what Count answered.
Find ==
    /\ phase = "find"
    /\ \E f \in Orders : LET max == MaxOf(maxID, Known(Page(f))) IN
          /\ bf' = With(bf, Page(f))
          /\ whole' = (whole /\ Consistent(f) /\ Settled(max))
          /\ IF LastPage
             THEN phase' = "running" /\ lastDBSyncID' = max /\ page' = 0 /\ maxID' = 0
             ELSE /\ phase' = "count" /\ page' = page + 1 /\ maxID' = max
                  /\ UNCHANGED lastDBSyncID
    /\ total' = 0
    /\ UNCHANGED << table, redis, written, notify, chan, enabled, clean, intact,
                    faults >>

LoadFromDB == Count \/ Find

Crash ==
    /\ phase # "down"
    /\ Fault("crash")
    /\ phase' = "down"
    /\ page' = 0 /\ total' = 0 /\ maxID' = 0 /\ bf' = NoAddresses /\ lastDBSyncID' = 0
    /\ written' = {}
    /\ chan' = << >>
    /\ whole' = TRUE /\ clean' = TRUE
    /\ UNCHANGED << table, redis, notify, enabled, intact >>

\* The config enables one more chain before the next start.
Reconfigure ==
    /\ phase = "down"
    /\ \E c \in Later \ enabled : enabled' = enabled \cup {c}
    /\ UNCHANGED << table, redis, worker, notify, chan, marks, faults >>

-----------------------------------------------------------------------------
(* Matcher: SnapshotBF, chain by chain and the watermark at the end *)

\* Until the end the watermark of the last snapshot stands beside the new filter.
SnapshotChain(c) ==
    /\ phase = "running"
    /\ c \in enabled \ written
    /\ \/ /\ snapped' = snapped \cup {c} /\ snap' = [snap EXCEPT ![c] = bf[c]]
          /\ clean' = (clean /\ whole)
          /\ intact' = (intact /\ whole /\ lastDBSyncID >= snapMax)
          /\ UNCHANGED faults
       \/ Fault("redis") /\ clean' = FALSE /\ UNCHANGED << snapped, snap, intact >>
    /\ written' = written \cup {c}
    /\ UNCHANGED << table, incr, snapMax, phase, page, total, maxID, bf, lastDBSyncID,
                    notify, chan, enabled, whole >>

SnapshotMaxID ==
    /\ phase = "running"
    /\ written = enabled
    /\ \/ snapMax' = lastDBSyncID /\ intact' = clean /\ UNCHANGED faults
       \/ Fault("redis") /\ UNCHANGED << snapMax, intact >>
    /\ written' = {}
    /\ clean' = TRUE
    /\ UNCHANGED << table, incr, snapped, snap, phase, page, total, maxID, bf, lastDBSyncID,
                    notify, chan, enabled, whole >>

Snapshot == (\E c \in enabled : SnapshotChain(c)) \/ SnapshotMaxID

Api == \/ \E r \in SUBSET Subs : Insert(r)
       \/ \E r \in open : Commit(r) \/ Rollback(r)
       \/ \E r \in notify : Announce(r)
       \/ \E s \in Subs : Delete(s)

Next == \/ Api \/ handleAddressEvent \/ LoseMessage \/ syncFromDB
        \/ Start \/ LoadFromDB \/ LoadFails \/ Crash \/ Reconfigure \/ Snapshot

Spec == Init /\ [][Next]_vars

\* The worker is restarted, its startup goes on, and the ticker of the MySQL
\* synchronisation fires.
FairSpec == Spec /\ WF_vars(Start) /\ WF_vars(LoadFromDB) /\ WF_vars(syncFromDB)

-----------------------------------------------------------------------------
(* Properties *)

Message ==
    [type : {"add"}, chain : Chains, address : {AddrOf[s] : s \in Subs}]
    \cup [type : {"batch_add"}, chain : Chains, count : Nat \ {0}]

TypeOK ==
    /\ id \in [Subs -> Nat] /\ created \in [Subs -> Nat] /\ nextId \in Nat
    /\ status \in [Subs -> {"none", "open", "live", "deleted"}]
    /\ open \cup notify \subseteq (SUBSET Subs) \ {{}}
    /\ enabled \subseteq Chains
    /\ phase \in {"down", "count", "find", "running"}
    /\ page \in Nat /\ total \in Nat /\ maxID \in Nat
    /\ lastDBSyncID \in Nat /\ snapMax \in Nat \cup {-1}
    /\ written \subseteq enabled /\ snapped \subseteq enabled
    /\ DOMAIN bf = Chains /\ DOMAIN snap = Chains /\ DOMAIN incr = Chains
    /\ chan \in Seq(Message)
    /\ whole \in BOOLEAN /\ clean \in BOOLEAN /\ intact \in BOOLEAN
    /\ faults \in 0..MaxFaults

InFilter(filters, s) == AddrOf[s] \in filters[ChainOf[s]]

\* No watched address is forgotten: what lives in MySQL on a chain of the worker
\* is in its filter, or is still ahead of the watermark from where syncFromDB
\* reads.  Everything the filters are rebuilt from must keep to this, through
\* crashes, lost messages, failed announcements and failed queries.  It fails in six
\* cases, which "whole" names: an insert commits below a watermark already set; a row
\* is committed between Count and Find, so that LoadFromDB stops a page early; two
\* pages overlap, since rows of one second, or stamped out of turn, change places or
\* one is deleted; a synchronisation falls into a snapshot; a snapshot is incomplete
\* or behind its watermark; a chain has none.
Covered ==
    phase = "running" /\ whole =>
        \A s \in Live : ChainOf[s] \in enabled =>
            InFilter(bf, s) \/ id[s] > lastDBSyncID

\* A watched address gets into the filter, whatever of its announcement was lost.
Watched ==
    \A s \in Subs : (status[s] = "live" /\ ChainOf[s] \in enabled)
                    ~> (status[s] = "deleted" \/ InFilter(bf, s))

\* It does as long as the filters are built from all rows.
EventuallyWatched == [](phase = "running" => whole) => Watched
=============================================================================
