--------------------------- MODULE RawEventWriter ---------------------------
(***************************************************************************)
(* The side path of the supervisor (internal/chain/supervisor.go) that     *)
(* keeps the raw events that matched: handleRawEvent puts each published   *)
(* event into the bounded channel rawWriteCh, or drops it when that is     *)
(* full, and the one goroutine runRawEventBatchWriter collects them by     *)
(* chain and inserts them in batches (internal/store/chain_raw_event.go).  *)
(*                                                                         *)
(* Events are numbered in the order they enter the channel.  The module    *)
(* has the writer's part only; Pipeline composes it with handleRawEvent.   *)
(***************************************************************************)
EXTENDS Naturals, Sequences, Functions

CONSTANTS
    Chains,
    Cap,          \* capacity of rawWriteCh (2000)
    maxBatch,     \* (100)
    MaxEvents,    \* EventuallyWritten is about the first MaxEvents events
    FaultKinds,   \* the kinds of fault that can strike
    MaxFaults     \* bound: faults in a behaviour

ASSUME SizeAssumption ==
    /\ Cap \in Nat \ {0} /\ maxBatch \in Nat \ {0}
    /\ MaxEvents \in Nat /\ MaxFaults \in Nat
\* "insert": an insert into a raw event table fails; "stop": the context of the
\* worker is cancelled.  The other two strike handleRawEvent: the query of IsWatched
\* fails, or Publish gives up.
ASSUME FaultAssumption == FaultKinds \subseteq {"insert", "stop", "query", "publish"}

VARIABLES
    sent,       \* events put into the channel so far
    rawWriteCh, \* the channel, each item its chain and its number
    buffers,    \* buffers[c]: numbers of the events collected for c
    flushing,   \* chains the writer has still to flush in this round
    rows,       \* rows[c]: numbers of the events in table chain_raw_events_<c>
    done,       \* ctx.Done is closed
    writer,     \* "loop", "last" (the flush after ctx.Done) or "ended"
    faults      \* history: how many faults struck, and of which kinds

writerState == << sent, rawWriteCh, buffers, flushing, rows, done, writer >>
writerVars  == << writerState, faults >>

Nothing == [c \in Chains |-> << >>]

WriterInit ==
    /\ sent = 0 /\ rawWriteCh = << >> /\ buffers = Nothing /\ flushing = {}
    /\ rows = Nothing /\ done = FALSE /\ writer = "loop"
    /\ faults = [count |-> 0, kinds |-> {}]

Fault(kind) ==
    /\ kind \in FaultKinds
    /\ faults.count < MaxFaults
    /\ faults' = [count |-> faults.count + 1, kinds |-> faults.kinds \cup {kind}]

\* The end of handleRawEvent, for an event of chain c.  A worker of the pool that
\* is in handleRawEvent when the context is cancelled still comes here.  With the
\* channel full the event is dropped.
Offer(c) ==
    /\ IF Len(rawWriteCh) < Cap
       THEN sent' = sent + 1 /\ rawWriteCh' = Append(rawWriteCh, [chain |-> c, n |-> sent'])
       ELSE UNCHANGED << sent, rawWriteCh >>
    /\ UNCHANGED << buffers, flushing, rows, done, writer, faults >>

\* flush(c) of a buffer that holds items.  An insert that fails is not repeated.
FlushItems(c, items) ==
    \/ rows' = [rows EXCEPT ![c] = @ \o items] /\ UNCHANGED faults
    \/ Fault("insert") /\ UNCHANGED rows

NotEmptied(c) == buffers   \* mutant: buffers[chain] = nil forgotten

Emptied(c) == [buffers EXCEPT ![c] = << >>]

OverFull(items) == Len(items) > maxBatch   \* mutant

Full(items) == Len(items) >= maxBatch

Receive ==
    /\ writer = "loop" /\ flushing = {}
    /\ rawWriteCh # << >>
    /\ rawWriteCh' = Tail(rawWriteCh)
    /\ LET c == Head(rawWriteCh).chain
           items == Append(buffers[c], Head(rawWriteCh).n)
       IN  IF Full(items)
           THEN FlushItems(c, items) /\ buffers' = Emptied(c)
           ELSE buffers' = [buffers EXCEPT ![c] = items] /\ UNCHANGED << rows, faults >>
    /\ UNCHANGED << sent, flushing, done, writer >>

\* The chains whose flush does not return at once.
ToFlush == {c \in Chains : buffers[c] # << >>}

TickNothing ==   \* mutant: the ticker's case flushes nothing
    /\ writer = "loop" /\ flushing = {}
    /\ UNCHANGED writerVars

\* The ticker fires.
Tick ==
    /\ writer = "loop" /\ flushing = {}
    /\ flushing' = ToFlush
    /\ UNCHANGED << sent, rawWriteCh, buffers, rows, done, writer, faults >>

\* One flush of a round over the chains.
flush(c) ==
    /\ c \in flushing
    /\ FlushItems(c, buffers[c])
    /\ buffers' = Emptied(c)
    /\ flushing' = flushing \ {c}
    /\ UNCHANGED << sent, rawWriteCh, done, writer >>

\* The select may take ctx.Done although rawWriteCh is ready too.
Done ==
    /\ writer = "loop" /\ flushing = {}
    /\ done
    /\ flushing' = ToFlush
    /\ writer' = "last"
    /\ UNCHANGED << sent, rawWriteCh, buffers, rows, done, faults >>

Return ==
    /\ writer = "last" /\ flushing = {}
    /\ writer' = "ended"
    /\ UNCHANGED << sent, rawWriteCh, buffers, flushing, rows, done, faults >>

Cancel ==
    /\ ~ done
    /\ Fault("stop")
    /\ done' = TRUE
    /\ UNCHANGED << sent, rawWriteCh, buffers, flushing, rows, writer >>

runRawEventBatchWriter == Receive \/ Tick \/ (\E c \in Chains : flush(c)) \/ Done \/ Return

-----------------------------------------------------------------------------
(* Properties *)

Written == UNION {Range(rows[c]) : c \in Chains}

WriterTypeOK ==
    /\ sent \in Nat
    /\ rawWriteCh \in Seq([chain : Chains, n : 1..sent]) /\ Len(rawWriteCh) <= Cap
    /\ buffers \in [Chains -> Seq(1..sent)] /\ rows \in [Chains -> Seq(1..sent)]
    /\ \A c \in Chains : Len(buffers[c]) < maxBatch
    /\ flushing \subseteq Chains /\ done \in BOOLEAN
    /\ writer \in {"loop", "last", "ended"}
    /\ faults \in [count : 0..MaxFaults, kinds : SUBSET FaultKinds]

Ascending(s) == \A i, j \in DOMAIN s : i < j => s[i] < s[j]

\* Whatever fails, the rows of a chain, then its buffer, then what of it is in
\* the channel are in the order of the events, each event at most once.
InOrder ==
    \A c \in Chains :
        LET stored  == rows[c] \o buffers[c]
            waiting == {k \in DOMAIN rawWriteCh : rawWriteCh[k].chain = c}
        IN  /\ Ascending(stored)
            /\ \A k \in waiting :
                  /\ \A i \in DOMAIN stored : stored[i] < rawWriteCh[k].n
                  /\ \A l \in waiting : l < k => rawWriteCh[l].n < rawWriteCh[k].n

\* An event in the channel gets into its table, full batch or not, while inserts
\* succeed and the worker is not stopped.
EventuallyWritten ==
    [](faults.kinds = {}) => \A n \in 1..MaxEvents : (sent = n) ~> (n \in Written)
=============================================================================
