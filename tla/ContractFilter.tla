--------------------------- MODULE ContractFilter ---------------------------
(***************************************************************************)
(* The system's whitelist of token contracts on one chain: ContractService *)
(* (internal/api/service/contract.go) edits table allowed_contracts;       *)
(* ContractFilter (internal/chain/contract_filter.go) keeps a copy of it   *)
(* in each worker, replaced as a whole every five minutes; the goroutines  *)
(* of the pool (Supervisor.handleRawEvent, internal/chain/supervisor.go)   *)
(* ask it three times for an event: may it pass, what is the token's       *)
(* symbol, how many decimals has it.                                       *)
(*                                                                         *)
(* Symbol and decimals are numbers, 0 for the empty symbol.  Left out:     *)
(* native transfers, which are not asked about, and assets that the parser *)
(* itself gave a symbol.                                                   *)
(***************************************************************************)
EXTENDS Naturals

CONSTANTS
    Contracts,
    Pool,        \* goroutines of the pool
    MaxValue,    \* bound: largest symbol and number of decimals
    MaxEdits,    \* bound: edits of the table
    MaxFailures  \* bound: failures of ListEnabled, the only fault there is

ASSUME FilterAssumption ==
    MaxValue \in Nat /\ MaxEdits \in Nat /\ MaxFailures \in Nat

Values == 0..MaxValue

Row == [on : BOOLEAN, symbol : Values, decimals : Values]

Absent == [on |-> FALSE, symbol |-> 0, decimals |-> 0]

VARIABLES
    rowOf,    \* rowOf[c]: row of contract c in allowed_contracts
    present,  \* contracts with a row
    edits,    \* number of edits
    allowed,  \* the filter's set of contracts
    symbols,  \* its symbols, 0 where it has none
    decimals, \* its decimals, 0 where it has none
    job,      \* "load", then the refresh job: "tick" or "reload"
    read,     \* the enabled rows as its SELECT saw them
    pc,       \* pc[w]: where w is in handleRawEvent
    event,    \* event[w]: contract, symbol and decimals of its event, and whether
              \* the maps have been exchanged since it was let pass
    out,      \* history: the event published last
    lists,    \* history: what the enabled part of the table has been
    failures  \* history: how often ListEnabled failed

db     == << rowOf, present, edits, lists >>
filter == << allowed, symbols, decimals >>
pool   == << pc, event, out >>
contractVars == << db, filter, job, read, pool, failures >>

\* The enabled rows of a table.
ListEnabled(t) == [c \in Contracts |-> IF t[c].on THEN t[c] ELSE Absent]

Nothing == [c \in Contracts |-> 0]
Nobody == [c \in Contracts |-> Absent]
NoEvent == [crossed |-> FALSE]

ContractInit ==
    /\ present \in SUBSET Contracts
    /\ rowOf = [c \in Contracts |-> IF c \in present
                                     THEN [on |-> TRUE, symbol |-> MaxValue, decimals |-> MaxValue]
                                     ELSE Absent]
    /\ edits = 0 /\ lists = {ListEnabled(rowOf)}
    /\ allowed = {} /\ symbols = Nothing /\ decimals = Nothing
    /\ job = "load" /\ read = Nobody
    /\ pc = [w \in Pool |-> "idle"] /\ event = [w \in Pool |-> NoEvent] /\ out = NoEvent
    /\ failures = 0

ListEnabledFails ==
    /\ failures < MaxFailures
    /\ failures' = failures + 1

-----------------------------------------------------------------------------
(* ContractService *)

Edit(c, row) ==
    /\ edits < MaxEdits
    /\ edits' = edits + 1
    /\ rowOf' = [rowOf EXCEPT ![c] = row]
    /\ lists' = lists \cup {ListEnabled(rowOf')}
    /\ UNCHANGED << filter, job, read, pool, failures >>

\* A contract that has a row violates the unique key.
CreateContract(c, row) ==
    /\ c \notin present /\ row.on
    /\ present' = present \cup {c}
    /\ Edit(c, row)

\* Any of the three columns.
UpdateContract(c, row) ==
    /\ c \in present
    /\ Edit(c, row)
    /\ UNCHANGED present

DeleteContract(c) ==
    /\ c \in present
    /\ present' = present \ {c}
    /\ Edit(c, Absent)

-----------------------------------------------------------------------------
(* ContractFilter *)

reloadMerged(t) ==   \* mutant: into the old maps
    /\ allowed' = allowed \cup {c \in Contracts : t[c].on}
    /\ symbols' = [c \in Contracts |-> IF t[c].on THEN t[c].symbol ELSE symbols[c]]
    /\ decimals' = [c \in Contracts |-> IF t[c].on THEN t[c].decimals ELSE decimals[c]]

reloadOnce(t) ==   \* mutant: only into an empty filter
    IF allowed = {} THEN /\ allowed' = {c \in Contracts : t[c].on}
                         /\ symbols' = [c \in Contracts |-> t[c].symbol]
                         /\ decimals' = [c \in Contracts |-> t[c].decimals]
                    ELSE UNCHANGED filter

\* reload replaces the three maps under the lock.
reload(t) ==
    /\ allowed' = {c \in Contracts : t[c].on}
    /\ symbols' = [c \in Contracts |-> t[c].symbol]
    /\ decimals' = [c \in Contracts |-> t[c].decimals]

\* At the start of the worker, before its pool.  After a failure it goes on with
\* an empty filter, which lets everything pass.
Load ==
    /\ job = "load"
    /\ \/ reload(ListEnabled(rowOf)) /\ UNCHANGED failures
       \/ ListEnabledFails /\ UNCHANGED filter
    /\ job' = "tick"
    /\ UNCHANGED << db, read, pool >>

AfterFailure == "tick"

\* A tick of StartRefreshJob: the SELECT,
Refresh ==
    /\ job = "tick"
    /\ \/ read' = ListEnabled(rowOf) /\ job' = "reload" /\ UNCHANGED failures
       \/ ListEnabledFails /\ job' = AfterFailure /\ UNCHANGED read
    /\ UNCHANGED << db, filter, pool >>

\* and the exchange of the maps.
Reload ==
    /\ job = "reload"
    /\ reload(read)
    /\ job' = "tick" /\ read' = Nobody
    /\ event' = [w \in Pool |-> [event[w] EXCEPT !.crossed = pc[w] # "idle"]]
    /\ UNCHANGED << db, pc, out, failures >>

-----------------------------------------------------------------------------
(* Supervisor.handleRawEvent *)

IsAllowedAlways(c) == TRUE   \* mutant: the filter is not asked

\* IsAllowed: without any contract on the chain everything passes.
IsAllowed(c) == allowed = {} \/ c \in allowed

Filter(w, c) ==
    /\ pc[w] = "idle" /\ job # "load"
    /\ IsAllowed(c)
    /\ pc' = [pc EXCEPT ![w] = "symbol"]
    /\ event' = [event EXCEPT ![w] = [c |-> c, symbol |-> 0, decimals |-> 0, crossed |-> FALSE]]
    /\ UNCHANGED << db, filter, job, read, out, failures >>

GetSymbol(w) ==
    /\ pc[w] = "symbol"
    /\ pc' = [pc EXCEPT ![w] = "decimals"]
    /\ event' = [event EXCEPT ![w].symbol = symbols[event[w].c]]
    /\ UNCHANGED << db, filter, job, read, out, failures >>

\* The event is published.
GetDecimals(w) ==
    /\ pc[w] = "decimals"
    /\ out' = [event[w] EXCEPT !.decimals = decimals[event[w].c]]
    /\ pc' = [pc EXCEPT ![w] = "idle"]
    /\ event' = [event EXCEPT ![w] = NoEvent]
    /\ UNCHANGED << db, filter, job, read, failures >>

ContractNext ==
    \/ \E c \in Contracts :
          DeleteContract(c) \/ \E row \in Row : CreateContract(c, row) \/ UpdateContract(c, row)
    \/ Load \/ Refresh \/ Reload
    \/ \E w \in Pool : (\E c \in Contracts : Filter(w, c)) \/ GetSymbol(w) \/ GetDecimals(w)

ContractSpec == ContractInit /\ [][ContractNext]_contractVars

\* The worker starts and the ticker of the refresh job fires.
ContractFairSpec ==
    /\ ContractSpec
    /\ WF_contractVars(Load) /\ WF_contractVars(Refresh) /\ WF_contractVars(Reload)

-----------------------------------------------------------------------------
(* Properties *)

Agrees(l) ==
    \A c \in Contracts : /\ c \in allowed <=> l[c].on
                         /\ symbols[c] = l[c].symbol /\ decimals[c] = l[c].decimals

\* The lists a filter may have: of the table, or none if nothing could be loaded.
Loadable == lists \cup {l \in {Nobody} : job = "load" \/ failures > 0}

\* The filter is at every moment one list the table has held, never a mixture of
\* two, or empty when nothing could be loaded yet.
OneList == \E l \in Loadable : Agrees(l)

\* The table is edited only so often; in the end every worker filters by it.
EventuallyFiltered == <>[]Agrees(ListEnabled(rowOf))

\* An event that no reload crossed between its three questions was let pass, and
\* has got its symbol and its decimals, by one and the same list.
TokenIsListed ==
    out # NoEvent /\ ~ out.crossed => \E l \in Loadable :
        /\ l[out.c].symbol = out.symbol /\ l[out.c].decimals = out.decimals
        /\ l[out.c].on \/ \A c \in Contracts : ~ l[c].on
=============================================================================
