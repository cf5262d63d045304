----------------------------- MODULE ChainSync -----------------------------
(***************************************************************************)
(* The block scanner of one chain in a worker process: BlockTracker        *)
(* (internal/chain/tracker.go), PollingListener (poller.go), EVMFetcher    *)
(* (evm/fetcher.go) or TRONFetcher (tron/fetcher.go), and the worker pool  *)
(* of Supervisor (supervisor.go), with the process crashing, starting      *)
(* again and standing for election again.                                  *)
(*                                                                         *)
(* The listener scans the blocks after tracker.current in order, puts the  *)
(* raw events of a block into eventCh and then records the block as the    *)
(* last one, in Redis at once and every PersistEvery blocks in MySQL by a  *)
(* goroutine of its own.  The pool takes events from eventCh and publishes *)
(* the matched ones.  After a restart Init resumes "confirmations" blocks  *)
(* before the recorded one.                                                *)
(*                                                                         *)
(* Every raw event is taken for a matched one: the filters are Matcher's   *)
(* and ContractFilter's.  A block number is a W-bit unsigned integer.  Of  *)
(* the election there is what one worker sees: the key its last process    *)
(* left; LeaderLock has several workers and chains, and failing renewals.  *)
(* Left out: chain reorganisations (the code has no handling of them), the *)
(* raw_events side table and logging.                                      *)
(***************************************************************************)
EXTENDS Integers, FiniteSets

CONSTANTS
    W,             \* width of a block number (64 in the code)
    Head0,         \* height of the chain when the worker starts
    MaxHead,       \* bound: height of the chain
    Content,       \* Content[b]: which of "tx" and "log" events block b has
    Confirmations, \* chainCfg.Confirmations
    ChCap,         \* capacity of eventCh (200 * workerCount)
    WorkerCount,   \* goroutines running processEvents
    PersistEvery,  \* blocks between two writes to MySQL (100)
    FaultKinds,    \* the kinds of fault that can strike
    MaxFaults      \* bound: faults in a behaviour

ASSUME HeightAssumption ==
    /\ W \in Nat /\ Head0 \in Nat \ {0} /\ MaxHead \in Nat
    /\ Head0 <= MaxHead /\ MaxHead < 2^W
    /\ Content \in [1..MaxHead -> SUBSET {"tx", "log"}]
ASSUME ConfigAssumption ==
    /\ Confirmations \in Nat
    /\ {ChCap, WorkerCount, PersistEvery} \subseteq Nat \ {0}
    /\ MaxFaults \in Nat
\* "early": a worker starts again before the key of its last process has expired;
\* "redis": last_block is lost; "store": Redis or MySQL does not answer a SETNX, a read
\* of Init or a write of Update; "primary": the main RPC node goes down; "call": a
\* call of FetchBlock fails and poll sees the error; "half": one of its two calls
\* fails unnoticed; "body": a TRON node answers with an error in JSON, which
\* is taken for a block; "publish": Publish gives up.
ASSUME FaultAssumption ==
    FaultKinds \subseteq {"crash", "early", "redis", "store", "primary", "call", "half",
                          "body", "publish"}

VARIABLES
    fetcher,    \* "evm" or "tron": the BlockFetcher of the chain
    backup,     \* there is a backup RPC node (never with TRONFetcher)
    head,       \* height of the chain
    primaryUp,  \* the main RPC node answers (the backup always does)
    locked,     \* the key listener:lock:<chain> is set
    redis,      \* last_block:<chain>, 0 when the key is missing
    mysql,      \* chain_sync_status.last_block, 0 when there is no row
    upserts,    \* blocks some goroutine of Update is still to write to MySQL
    pc,         \* where the listener is
    current,    \* tracker.current
    counter,    \* tracker.counter modulo PersistEvery
    latest,     \* poll's variable latest
    out,        \* events of the fetched block still to be put into eventCh
    ch,         \* events in eventCh
    busy,       \* events in handleRawEvent
    failCount,  \* EVMFetcher.failCount, 3 stands for 3 and more
    published,  \* history: events published to matched.exchange
    resumed,    \* history: the block Init last resumed after
    faults      \* history: the number of faults so far, and their kinds

disk   == << redis, mysql >>
node   == << fetcher, backup, head, primaryUp >>
pool   == << ch, busy >>
vars   == << node, locked, disk, upserts, pc, current, counter, latest, out, pool,
             failCount, published, resumed, faults >>

RawEvents(b) == {<< b, k >> : k \in Content[b]}

AllEvents == UNION {RawEvents(b) : b \in 1..MaxHead}

Init ==
    /\ fetcher \in {"evm", "tron"} /\ backup \in BOOLEAN /\ (fetcher = "tron" => ~ backup)
    /\ head = Head0 /\ primaryUp = TRUE
    /\ locked \in BOOLEAN    \* by an earlier process that has just ended
    /\ redis \in {0, Head0}   \* a first start, or an earlier process scanned Head0
    /\ mysql = 0 /\ upserts = {}
    /\ pc = "down" /\ current = 0 /\ counter = 0 /\ latest = 0
    /\ out = {} /\ ch = {} /\ busy = {}
    /\ failCount = 0 /\ published = {} /\ resumed = 0
    /\ faults = [count |-> 0, kinds |-> {}]

Fault(kind) ==
    /\ kind \in FaultKinds
    /\ faults.count < MaxFaults
    /\ faults' = [count |-> faults.count + 1, kinds |-> faults.kinds \cup {kind}]

-----------------------------------------------------------------------------
(* EVMFetcher, TRONFetcher *)

\* getClient: the backup, if there is one, after three failures in a row.
\* TRONFetcher counts no failures.
UsesBackup == backup /\ failCount >= 3

CallSucceeds == UsesBackup \/ primaryUp

recordFailure == failCount' = IF fetcher = "evm" /\ failCount < 3 THEN failCount + 1 ELSE failCount

resetFailure == failCount' = 0

\* TRONFetcher does not look at the HTTP status: an error in JSON has no number, no
\* header and no transactions, and is read as block 0, or as an empty block.
ErrorBody == fetcher = "tron" /\ primaryUp /\ Fault("body")

-----------------------------------------------------------------------------
(* BlockTracker *)

ResumeExact(last) == last   \* mutant: nothing is scanned again
ResumeAhead(last) == (last + Confirmations) % 2^W   \* mutant: the sign is wrong

\* val - confirmations, in W-bit unsigned arithmetic.
Resume(last) == (last - Confirmations) % 2^W

StartAt(block) ==
    /\ current' = block
    /\ resumed' = block
    /\ pc' = "idle"
    /\ UNCHANGED failCount

\* BlockTracker.Init: from what Redis answers, else from what MySQL answers,
\* else from the chain.
TrackerInit(val, last) ==
    \/ val > 0 /\ StartAt(Resume(val))
    \/ val = 0 /\ last > 0 /\ StartAt(Resume(last))
    \/ val = 0 /\ last = 0 /\ pc' = "first" /\ UNCHANGED << current, resumed, failCount >>

\* Supervisor.Run in a new process: the SETNX gets the key, and PollingListener.Start
\* runs Init, in which a read that fails counts as 0.
Start ==
    /\ pc = "down"
    /\ ~ locked
    /\ locked' = TRUE
    /\ \/ TrackerInit(redis, mysql) /\ UNCHANGED faults
       \/ (\E last \in {mysql, 0} : TrackerInit(0, last)) /\ Fault("store")
    /\ UNCHANGED << node, disk, upserts, counter, latest, out, pool, published >>

\* The SETNX finds the key, or fails, perhaps after it has set the key.  It is the
\* only one: for as long as it runs the process leaves the chain alone.
Standby ==
    /\ pc = "down"
    /\ \/ locked /\ Fault("early") /\ UNCHANGED locked
       \/ Fault("store") /\ locked' \in {locked, TRUE}
    /\ pc' = "standby"
    /\ UNCHANGED << node, disk, upserts, current, counter, latest, out, pool, failCount,
                    published, resumed >>

\* Nobody deletes the key of a process that has ended; nobody renews it either.
LockExpires ==
    /\ locked
    /\ pc \in {"down", "standby"}
    /\ locked' = FALSE
    /\ UNCHANGED << node, disk, upserts, pc, current, counter, latest, out, pool, failCount,
                    published, resumed, faults >>

\* Init's getLatest.  When it fails the listener goroutine ends.
GetLatest ==
    /\ pc = "first"
    /\ \/ CallSucceeds /\ StartAt(head) /\ UNCHANGED faults
       \/ ErrorBody /\ StartAt(0)
       \/ /\ ~ CallSucceeds /\ recordFailure
          /\ pc' = "stopped"
          /\ UNCHANGED << current, resumed, faults >>
    /\ UNCHANGED << node, locked, disk, upserts, counter, latest, out, pool, published >>

Block == current + 1   \* poll's loop variable i

CounterNext == (counter + 1) % PersistEvery

\* Update, called when the events of the block are in eventCh.  The error of
\* the Redis write is ignored.
Update ==
    /\ pc = "send"
    /\ out = {}
    /\ current' = Block
    /\ \/ redis' = Block /\ UNCHANGED faults
       \/ UNCHANGED redis /\ Fault("store")
    /\ counter' = CounterNext
    /\ upserts' = IF counter' = 0 THEN upserts \cup {Block} ELSE upserts
    /\ pc' = IF Block < latest THEN "fetch" ELSE "idle"
    /\ UNCHANGED << node, locked, mysql, latest, out, pool, failCount, published, resumed >>

\* The goroutines of Update write in any order, or fail.
UpsertLastBlock(b) ==
    /\ b \in upserts
    /\ upserts' = upserts \ {b}
    /\ \/ mysql' = b /\ UNCHANGED faults
       \/ UNCHANGED mysql /\ Fault("store")
    /\ UNCHANGED << node, locked, redis, pc, current, counter, latest, out, pool, failCount,
                    published, resumed >>

-----------------------------------------------------------------------------
(* PollingListener.poll *)

LatestBlockNum ==
    /\ pc = "idle"
    /\ \/ /\ CallSucceeds
          /\ resetFailure
          /\ latest' = head
          /\ pc' = IF head <= current THEN "idle" ELSE "fetch"
          /\ UNCHANGED faults
       \/ ErrorBody /\ latest' = 0 /\ UNCHANGED << pc, failCount >>   \* 0 <= current
       \/ ~ CallSucceeds /\ recordFailure /\ UNCHANGED << latest, pc, faults >>
    /\ UNCHANGED << node, locked, disk, upserts, current, counter, out, pool, published,
                    resumed >>

\* What comes of FetchBlock.  EVMFetcher: two parallel calls and the order of their
\* writes to the shared blockErr.  One call failing is seen as an error when it
\* writes blockErr last; otherwise it goes unnoticed: without its logs the block
\* looks complete, and a nil block is dereferenced.  TRONFetcher: one call for the
\* block and one for the logs of each contract call, where a failure leaves the
\* transaction without its logs.
FetchOutcomes == {"ok", "error", "nologs", "panic", "empty"}

Die == /\ pc' = "down"
       /\ counter' = 0
       /\ upserts' = {}
       /\ out' = {} /\ ch' = {} /\ busy' = {}
       /\ failCount' = 0

Fetched(events) ==
    /\ out' = events
    /\ pc' = "send"
    /\ resetFailure
    /\ UNCHANGED << counter, upserts, pool >>

FetchFailsAdvancing ==   \* mutant: a block that cannot be fetched is skipped
    /\ pc' = "send"
    /\ out' = {}
    /\ recordFailure
    /\ UNCHANGED << counter, upserts, pool >>

FetchFails ==
    /\ pc' = "idle"
    /\ recordFailure
    /\ UNCHANGED << counter, upserts, out, pool >>

FetchBlock ==
    /\ pc = "fetch"
    /\ \E outcome \in FetchOutcomes :
          /\ \/ outcome = "ok"     /\ CallSucceeds /\ Fetched(RawEvents(Block))
                                   /\ UNCHANGED faults
             \/ outcome = "error"  /\ FetchFails
                                   /\ IF CallSucceeds THEN Fault("call")
                                      ELSE UNCHANGED faults
             \/ outcome = "nologs" /\ CallSucceeds
                                   /\ Fetched(RawEvents(Block) \ {<< Block, "log" >>})
                                   /\ Fault("half")
             \/ outcome = "panic"  /\ fetcher = "evm" /\ CallSucceeds /\ Die /\ Fault("half")
             \/ outcome = "empty"  /\ ErrorBody /\ Fetched({})
    /\ UNCHANGED << node, locked, disk, current, latest, published, resumed >>

\* eventCh <- e, blocking while the channel is full.
Send(x) ==
    /\ pc = "send"
    /\ x \in out
    /\ Cardinality(ch) < ChCap
    /\ out' = out \ {x}
    /\ ch' = ch \cup {x}
    /\ UNCHANGED << node, locked, disk, upserts, pc, current, counter, latest, busy, failCount,
                    published, resumed, faults >>

Listen == \/ Start \/ GetLatest \/ LatestBlockNum \/ FetchBlock
          \/ (\E x \in out : Send(x)) \/ Update

-----------------------------------------------------------------------------
(* The pool: processEvents takes an event, handleRawEvent publishes it.  A
   Publish that gives up drops the event. *)

Take(x) ==
    /\ x \in ch
    /\ Cardinality(busy) < WorkerCount
    /\ ch' = ch \ {x}
    /\ busy' = busy \cup {x}
    /\ UNCHANGED << node, locked, disk, upserts, pc, current, counter, latest, out, failCount,
                    published, resumed, faults >>

Handled(x) == published' = published \cup {x} /\ UNCHANGED faults

handleRawEvent(x) ==
    /\ x \in busy
    /\ busy' = busy \ {x}
    /\ \/ Handled(x)
       \/ UNCHANGED published /\ Fault("publish")
    /\ UNCHANGED << node, locked, disk, upserts, pc, current, counter, latest, out, ch,
                    failCount, resumed >>

Work == (\E x \in ch : Take(x)) \/ (\E x \in busy : handleRawEvent(x))

-----------------------------------------------------------------------------
(* The environment *)

NewBlock ==
    /\ head < MaxHead
    /\ head' = head + 1
    /\ UNCHANGED << fetcher, backup, primaryUp, locked, disk, upserts, pc, current, counter,
                    latest, out, pool, failCount, published, resumed, faults >>

PrimaryDown ==
    /\ primaryUp
    /\ Fault("primary")
    /\ primaryUp' = FALSE
    /\ UNCHANGED << fetcher, backup, head, locked, disk, upserts, pc, current, counter,
                    latest, out, pool, failCount, published, resumed >>

PrimaryUp ==
    /\ ~ primaryUp
    /\ primaryUp' = TRUE
    /\ UNCHANGED << fetcher, backup, head, locked, disk, upserts, pc, current, counter,
                    latest, out, pool, failCount, published, resumed, faults >>

RedisLost ==
    /\ redis > 0
    /\ Fault("redis")
    /\ redis' = 0
    /\ UNCHANGED << node, locked, mysql, upserts, pc, current, counter,
                    latest, out, pool, failCount, published, resumed >>

\* The process dies, or is stopped (main waits two seconds, then exits).
Crash ==
    /\ pc # "down"
    /\ Fault("crash")
    /\ Die
    /\ UNCHANGED << node, locked, disk, current, latest, published, resumed >>

Next == \/ Listen \/ Standby \/ LockExpires \/ Work \/ (\E b \in upserts : UpsertLastBlock(b))
        \/ NewBlock \/ PrimaryDown \/ PrimaryUp \/ RedisLost \/ Crash

Spec == Init /\ [][Next]_vars

\* A worker that has ended is started, a key nobody renews expires, the goroutines
\* of a listener are scheduled, and its ticker fires.  Nothing makes a standby listen.
FairSpec == Spec /\ WF_vars(Listen) /\ WF_vars(LockExpires) /\ WF_vars(Work)

\* FairSpec, and a main RPC node that is down comes back.
RecoveringSpec == FairSpec /\ WF_vars(PrimaryUp)

-----------------------------------------------------------------------------
(* Properties *)

Faults == [count : 0..MaxFaults, kinds : SUBSET FaultKinds]

TypeOK ==
    /\ fetcher \in {"evm", "tron"} /\ backup \in BOOLEAN
    /\ head \in Head0..MaxHead /\ primaryUp \in BOOLEAN /\ locked \in BOOLEAN
    /\ redis \in 0..MaxHead /\ mysql \in 0..MaxHead /\ upserts \subseteq 1..MaxHead
    /\ pc \in {"down", "standby", "first", "stopped", "idle", "fetch", "send"}
    /\ current \in 0..2^W-1 /\ resumed \in 0..2^W-1 /\ latest \in 0..MaxHead
    /\ counter \in 0..PersistEvery-1 /\ failCount \in 0..3
    /\ out \subseteq AllEvents /\ ch \subseteq AllEvents /\ busy \subseteq AllEvents
    /\ published \subseteq AllEvents
    /\ faults \in Faults

\* The scan leaves no gap: every event of a block that the running listener
\* has passed since Init is published, or in eventCh, or in a worker.  Crashes,
\* failed calls of poll, failed Redis and MySQL writes and a full eventCh never
\* make it jump over a block.  Three things do, and are excluded: a call of
\* FetchBlock that fails unnoticed, an error taken for a block, and a Publish that
\* gives up.
NoGap ==
    pc \in {"idle", "fetch", "send"} /\ faults.kinds \cap {"half", "body", "publish"} = {} =>
        \A b \in 1..MaxHead : resumed < b /\ b <= current =>
            RawEvents(b) \subseteq published \cup ch \cup busy

\* The scanner is never ahead of the chain: what Redis and MySQL hold and where
\* Init resumes is a block that exists.  (If val - confirmations wrapped around,
\* poll would find no new block for ever.)  An error taken for block 0 is excluded:
\* a first start then scans from block 1, and a restart soon after wraps around.
NeverAhead ==
    "body" \notin faults.kinds =>
        /\ redis <= head /\ mysql <= head /\ \A b \in upserts : b <= head
        /\ current <= head /\ latest <= head

\* Once Redis records a block, every event of every later block is published in
\* the end, although the process crashes, calls fail and the main node goes down
\* for a while (Confirmations must cover the blocks whose events are in memory), as
\* long as a worker starts again only after the key of its last process has
\* expired: one that comes sooner is a standby for ever.
EventuallyPublished ==
    [](faults.kinds \subseteq {"crash", "call", "primary"}) =>
        \A x \in AllEvents :
            (head >= x[1] /\ 0 < redis /\ redis < x[1]) ~> x \in published
=============================================================================
