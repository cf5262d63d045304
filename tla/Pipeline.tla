------------------------------ MODULE Pipeline ------------------------------
(***************************************************************************)
(* What a worker does with a raw event: the goroutines of the pools        *)
(* (processEvents and handleRawEvent of internal/chain/supervisor.go) take *)
(* it from their chain's channel, parse it (Parser), ask for each event    *)
(* whether its address is watched (IsWatched of internal/matcher: Bloom    *)
(* filter, hot set in Redis, table), publish it and hand it to the writer  *)
(* of raw events (RawEventWriter), while the API edits the addresses.      *)
(*                                                                         *)
(* What the hot set holds is left open: it may answer anything at any      *)
(* time.  The Bloom filter has no false positives here; how addresses get  *)
(* into it is AddressFilter's subject, how the list of contracts changes   *)
(* ContractFilter's.                                                       *)
(***************************************************************************)
EXTENDS RawEventWriter, Parser

CONSTANTS
    Inputs,     \* what may come: the raw events of each chain
    Pool,       \* goroutines of each chain's pool
    Names,      \* Names[c]: the addresses of chain c that may be watched, by name
    Contracts,  \* Contracts[c]: the system's whitelist for chain c, by name
    MaxEdits    \* bound: rows the API inserts or deletes

ASSUME PipelineAssumption ==
    /\ MaxEdits \in Nat
    /\ \A i \in Inputs :
          /\ DOMAIN i = Chains
          /\ \A c \in Chains : i[c] \in Seq(Range(i[c])) /\ \A raw \in Range(i[c]) : RawEvent(raw)
\* A transaction is told in one way, however often it is scanned (it is in one block:
\* no chain is reorganised), and the logs of a block are numbered.
ASSUME ChainAssumption ==
    \A i \in Inputs : \A c \in Chains : \A raw, other \in Range(i[c]) :
        /\ raw.chain = c
        /\ raw.tx = other.tx /\ raw # other =>
              /\ c \in {"ETH", "BSC"}
              /\ "log" \in {raw.type, other.type}
              /\ raw.type = other.type => raw.index # other.index
\* The API requires an address, and skips empty ones in a batch.
ASSUME NameAssumption == \A c \in Chains : None \notin Names[c]

VARIABLES
    input,      \* input[c]: the raw events of chain c
    taken,      \* taken[c]: how many of them the pool has taken
    task,       \* task[w]: the call of handleRawEvent w is in
    watched,    \* addresses with an enabled row in watched_addresses
    edits,      \* history: number of rows inserted or deleted
    bf,         \* addresses in the Bloom filters
    published,  \* history: the events published
    missed      \* history: moves of a watched address that were not published

others == << input, taken, task, watched, edits, bf, published, missed >>
vars   == << writerVars, others >>

\* The chains this worker process listens to.
Enabled == {c \in Chains : input[c] # << >>}

Workers == Enabled \X Pool

\* Their addresses as they are stored, each with its chain.
Addresses == UNION {{<< c, Normalize(c, n) >> : n \in Names[c]} : c \in Enabled}

Idle == [pc |-> "idle"]

\* The rows the API has inserted before are in the filters.
Init ==
    /\ WriterInit
    /\ input \in Inputs /\ taken = [c \in Chains |-> 0]
    /\ task = [w \in Workers |-> Idle]
    /\ watched = Addresses /\ bf = Addresses /\ edits = 0
    /\ published = {} /\ missed = {}

-----------------------------------------------------------------------------
(* handleRawEvent *)

\* Goroutine w of a pool takes the next raw event and parses it.  "steady": the
\* addresses that are watched from then on.
Take(w) ==
    LET c == w[1]
        raw == input[c][taken[c] + 1]
    IN  /\ task[w].pc = "idle"
        /\ taken[c] < Len(input[c])
        /\ taken' = [taken EXCEPT ![c] = @ + 1]
        /\ task' = [task EXCEPT ![w] = [pc |-> "event", raw |-> raw, events |-> Parse(raw),
                                        steady |-> watched \cap bf]]
        /\ UNCHANGED << writerVars, input, watched, edits, bf, published, missed >>

\* The select of processEvents takes ctx.Done.
Quit(w) ==
    /\ task[w].pc = "idle"
    /\ done
    /\ task' = [task EXCEPT ![w].pc = "ended"]
    /\ UNCHANGED << writerVars, input, taken, watched, edits, bf, published, missed >>

Current(w) == Head(task[w].events)

Key(e) == << e.chain, e.watched >>

\* IsAllowed of ContractFilter; native transfers always pass.
IsAllowed(c, contract) == contract = None \/ Contracts[c] = {} \/ contract \in Contracts[c]

\* The whitelist and the Bloom filter let the event pass.
Test(e) == IsAllowed(e.chain, e.contract) /\ Key(e) \in bf

\* The iteration of the loop ends.
Continue(w) == task' = [task EXCEPT ![w].pc = "event", ![w].events = Tail(@)]

Filter(w) ==
    /\ task[w].pc = "event" /\ task[w].events # << >>
    /\ IF Test(Current(w)) THEN task' = [task EXCEPT ![w].pc = "query"] ELSE Continue(w)
    /\ UNCHANGED << writerVars, input, taken, watched, edits, bf, published, missed >>

FoundIfHot(e, isMember) == isMember /\ Key(e) \in watched   \* mutant: cold is not watched

\* ListByChainAddress is asked, whatever the hot set said.
Found(e, isMember) == Key(e) \in watched

\* The rest of IsWatched.
IsWatched(w) ==
    /\ task[w].pc = "query"
    /\ \/ /\ \E isMember \in BOOLEAN :
                IF Found(Current(w), isMember) THEN task' = [task EXCEPT ![w].pc = "publish"]
                                               ELSE Continue(w)
          /\ UNCHANGED faults
       \/ Fault("query") /\ Continue(w)
    /\ UNCHANGED << writerState, input, taken, watched, edits, bf, published, missed >>

\* UpdateLastActive, Publish, and the offer to the writer.
Publish(w) ==
    /\ task[w].pc = "publish"
    /\ Continue(w)
    /\ \/ published' = published \cup {Current(w)} /\ Offer(w[1])
       \/ Fault("publish") /\ UNCHANGED << writerState, published >>
    /\ UNCHANGED << input, taken, watched, edits, bf, missed >>

\* The moves of the raw event that pass the whitelist and touch a steady address.
Due(t) ==
    {m \in Moves(t.raw) : /\ IsAllowed(t.raw.chain, m.contract)
                          /\ << t.raw.chain, Normalize(t.raw.chain, m.name) >> \in t.steady}

Reported(raw, m) ==
    \E e \in published : /\ e.chain = raw.chain /\ e.id[2] = raw.tx
                         /\ e.watched.name = m.name /\ e.direction = m.direction
                         /\ e.contract = m.contract

\* handleRawEvent returns.
Finish(w) ==
    /\ task[w].pc = "event" /\ task[w].events = << >>
    /\ task' = [task EXCEPT ![w] = Idle]
    /\ missed' = missed \cup {m \in Due(task[w]) : ~ Reported(task[w].raw, m)}
    /\ UNCHANGED << writerVars, input, taken, watched, edits, bf, published >>

handleRawEvent(w) == Filter(w) \/ IsWatched(w) \/ Publish(w) \/ Finish(w)

-----------------------------------------------------------------------------
(* The watched addresses *)

\* Create (or BatchCreate) by some app.
Create(a) ==
    /\ a \notin watched /\ edits < MaxEdits
    /\ watched' = watched \cup {a} /\ edits' = edits + 1
    /\ UNCHANGED << writerVars, input, taken, task, bf, published, missed >>

\* Delete by the last app that watches the address.
Delete(a) ==
    /\ a \in watched /\ edits < MaxEdits
    /\ watched' = watched \ {a} /\ edits' = edits + 1
    /\ task' = [w \in Workers |-> IF task[w].pc \in {"idle", "ended"} THEN task[w]
                                  ELSE [task[w] EXCEPT !.steady = @ \ {a}]]
    /\ UNCHANGED << writerVars, input, taken, bf, published, missed >>

\* The subscriber, or a synchronisation, has come to the row.
AddToBF(a) ==
    /\ a \in watched \ bf
    /\ bf' = bf \cup {a}
    /\ UNCHANGED << writerVars, input, taken, task, watched, edits, published, missed >>

-----------------------------------------------------------------------------

Next ==
    \/ \E w \in Workers : Take(w) \/ Quit(w) \/ handleRawEvent(w)
    \/ \E a \in Addresses : Create(a) \/ Delete(a) \/ AddToBF(a)
    \/ (runRawEventBatchWriter \/ Cancel) /\ UNCHANGED others

Spec == Init /\ [][Next]_vars

\* The writer's goroutine runs, and its ticker fires again and again.
FairSpec ==
    /\ Spec
    /\ WF_vars(Receive /\ UNCHANGED others) /\ WF_vars(Tick /\ UNCHANGED others)
    /\ WF_vars((Done \/ Return) /\ UNCHANGED others)
    /\ \A c \in Chains : WF_vars(flush(c) /\ UNCHANGED others)

-----------------------------------------------------------------------------
(* Properties *)

Events == UNION {UNION {Range(Parse(raw)) : raw \in Range(input[c])} : c \in Chains}

TypeOK ==
    /\ WriterTypeOK
    /\ input \in Inputs /\ \A c \in Chains : taken[c] \in 0..Len(input[c])
    /\ \A w \in Workers : task[w].pc \in {"idle", "event", "query", "publish", "ended"}
    /\ watched \subseteq Addresses /\ edits \in 0..MaxEdits /\ bf \subseteq Addresses
    /\ published \subseteq Events

\* While the table and the broker answer, handleRawEvent reports every transfer on an
\* EVM chain or on TRON that touches an address which stays watched meanwhile, each
\* direction of it, whatever the hot set says.
NothingMissed == faults.kinds \cap {"query", "publish"} = {} => missed = {}

\* Where two published events of an address have one id (so that the expander takes
\* the second for a repetition), one is of a token transfer and the other of a plain
\* log, which may have ten times its index.
OnlyLogsCollide ==
    \A e, f \in published :
        e.id = f.id /\ e.watched = f.watched /\ e # f =>
            /\ "TOKEN_TRANSFER" \in {e.type, f.type}
            /\ {e.type, f.type} \cap {"SWAP", "STAKE", "UNSTAKE"} # {}

=============================================================================
