---------------------------- MODULE SolListener ----------------------------
(***************************************************************************)
(* The listener of Solana (internal/chain/sol/listener.go): wsLoop runs    *)
(* runWS, which subscribes to the logs of the token and of the system      *)
(* program over one WebSocket, starts a goroutine to read each of the two  *)
(* subscriptions into sigCh, and a goroutine fetchAndEmit for every        *)
(* signature, which gets the transaction, puts it into eventCh and records *)
(* its slot with BlockTracker.Update.                                      *)
(*                                                                         *)
(* Transactions are numbered in the order of their slots, one to a slot.   *)
(* Left out: failed transactions, which the readers skip; the errors sent  *)
(* to errCh, which handleErrors drains; eventCh's bound (ChainSync); and   *)
(* what Update does besides last_block (ChainSync).                        *)
(***************************************************************************)
EXTENDS Naturals, Sequences

CONSTANTS
    Programs,      \* the two programs subscribed to, in this order
    SigCap,        \* capacity of sigCh (100)
    MaxTx,         \* bound: transactions finalized
    SolFaultKinds, \* the kinds of fault that can strike
    MaxSolFaults   \* bound: faults in a behaviour

ASSUME SolAssumption ==
    /\ Programs \in Seq(STRING) /\ Len(Programs) > 0
    /\ SigCap \in Nat \ {0} /\ MaxTx \in Nat /\ MaxSolFaults \in Nat
\* "connect": Connect or a subscription fails; "break": the WebSocket breaks;
\* "rpc": GetSlot fails, GetTransaction fails or finds nothing.
ASSUME SolFaultAssumption == SolFaultKinds \subseteq {"connect", "break", "rpc"}

Program(k) == Programs[k]
All == {Program(k) : k \in 1..Len(Programs)}

VARIABLES
    tx,       \* transactions finalized so far
    phase,    \* of wsLoop: "start", "connect", "subscribe", "select",
              \* "wait", or "dead" when it was never begun
    subs,     \* number of subscriptions runWS has made
    open,     \* the WebSocket is open
    stream,   \* stream[p]: notifications of p on their way to its reader
    reading,  \* programs whose reader goroutine runs
    sigCh,    \* the signatures read
    jobs,     \* goroutines fetchAndEmit: their signature and where they are
    eventCh,  \* transactions put into eventCh
    last,     \* last_block:SOL
    heard,    \* history: transactions the node has sent to the readers
    solFaults \* history: how many faults struck, and of which kinds

ws   == << phase, subs, open >>
solVars == << tx, ws, stream, reading, sigCh, jobs, eventCh, last, heard, solFaults >>

Silence == [p \in All |-> << >>]

SolInit ==
    /\ tx = 0 /\ phase = "start" /\ subs = 0 /\ open = FALSE
    /\ stream = Silence /\ reading = {} /\ sigCh = << >> /\ jobs = {}
    /\ eventCh = {} /\ last = 0 /\ heard = {}
    /\ solFaults = [count |-> 0, kinds |-> {}]

SolFault(kind) ==
    /\ kind \in SolFaultKinds
    /\ solFaults.count < MaxSolFaults
    /\ solFaults' = [count |-> solFaults.count + 1, kinds |-> solFaults.kinds \cup {kind}]

-----------------------------------------------------------------------------
(* The node *)

Subscribed == IF open THEN {Program(k) : k \in 1..subs} ELSE {}

\* A transaction that mentions the programs ps becomes final.
Finalize(ps) ==
    /\ tx < MaxTx
    /\ tx' = tx + 1
    /\ stream' = [p \in All |-> IF p \in ps \cap Subscribed THEN Append(stream[p], tx') ELSE stream[p]]
    /\ heard' = IF phase = "select" /\ ps \cap Subscribed # {} THEN heard \cup {tx'} ELSE heard
    /\ UNCHANGED << ws, reading, sigCh, jobs, eventCh, last, solFaults >>

Break ==
    /\ open
    /\ SolFault("break")
    /\ open' = FALSE
    /\ stream' = Silence
    /\ UNCHANGED << tx, phase, subs, reading, sigCh, jobs, eventCh, last, heard >>

-----------------------------------------------------------------------------
(* wsLoop and runWS *)

\* Start asks for the current slot and begins wsLoop; when the request fails the
\* error is logged and there is no listener.
Start ==
    /\ phase = "start"
    /\ \/ phase' = "connect" /\ UNCHANGED solFaults
       \/ SolFault("rpc") /\ phase' = "dead"
    /\ UNCHANGED << tx, subs, open, stream, reading, sigCh, jobs, eventCh, last, heard >>

\* runWS returns an error; its deferred calls close the WebSocket.
Fail ==
    /\ phase' = "wait" /\ subs' = 0 /\ open' = FALSE /\ stream' = Silence

Connect ==
    /\ phase = "connect"
    /\ \/ phase' = "subscribe" /\ open' = TRUE /\ UNCHANGED << subs, stream, solFaults >>
       \/ SolFault("connect") /\ Fail
    /\ UNCHANGED << tx, reading, sigCh, jobs, eventCh, last, heard >>

\* LogsSubscribeMentions.  After the last one sigCh is made and the readers start.
Subscribe ==
    /\ phase = "subscribe"
    /\ \/ /\ open
          /\ subs' = subs + 1
          /\ IF subs' = Len(Programs)
             THEN phase' = "select" /\ reading' = All /\ sigCh' = << >>
             ELSE UNCHANGED << phase, reading, sigCh >>
          /\ UNCHANGED << open, stream, solFaults >>
       \/ /\ \/ ~ open /\ UNCHANGED solFaults
             \/ SolFault("connect")
          /\ Fail
          /\ UNCHANGED << reading, sigCh >>
    /\ UNCHANGED << tx, jobs, eventCh, last, heard >>

NextTurn == "connect"

\* Five seconds pass.
Retry ==
    /\ phase = "wait"
    /\ phase' = NextTurn
    /\ UNCHANGED << tx, subs, open, stream, reading, sigCh, jobs, eventCh, last, heard, solFaults >>

SentIfEmpty(sig) ==   \* mutant: select with default
    IF sigCh = << >> THEN Append(sigCh, sig) ELSE sigCh

Sent(sig) == Append(sigCh, sig)

NoBound == TRUE   \* mutant

Room == Len(sigCh) < SigCap

\* A reader passes on a notification, or waits for room in sigCh.  When Recv
\* fails the goroutine returns, and nobody is told.
Recv(p) ==
    /\ p \in reading
    /\ \/ /\ stream[p] # << >>
          /\ Room
          /\ stream' = [stream EXCEPT ![p] = Tail(@)]
          /\ sigCh' = Sent([n |-> Head(stream[p]), p |-> p])
          /\ UNCHANGED reading
       \/ /\ ~ open
          /\ reading' = reading \ {p}
          /\ UNCHANGED << stream, sigCh >>
    /\ UNCHANGED << tx, ws, jobs, eventCh, last, heard, solFaults >>

\* The select of runWS: it hears of sigCh and of the end of the context only.
Select ==
    /\ phase = "select"
    /\ sigCh # << >>
    /\ sigCh' = Tail(sigCh)
    /\ jobs' = jobs \cup {[sig |-> Head(sigCh), at |-> "get"]}
    /\ UNCHANGED << tx, ws, stream, reading, eventCh, last, heard, solFaults >>

-----------------------------------------------------------------------------
(* fetchAndEmit *)

EmittedLater(j) == eventCh   \* mutant: recorded before it is emitted

Emitted(j) == eventCh \cup {j.sig.n}

GetTransaction(j) ==
    /\ j \in jobs /\ j.at = "get"
    /\ \/ /\ eventCh' = Emitted(j)
          /\ jobs' = (jobs \ {j}) \cup {[j EXCEPT !.at = "update"]}
          /\ UNCHANGED solFaults
       \/ SolFault("rpc") /\ jobs' = jobs \ {j} /\ UNCHANGED eventCh
    /\ UNCHANGED << tx, ws, stream, reading, sigCh, last, heard >>

Update(j) ==
    /\ j \in jobs /\ j.at = "update"
    /\ jobs' = jobs \ {j}
    /\ last' = j.sig.n
    /\ UNCHANGED << tx, ws, stream, reading, sigCh, eventCh, heard, solFaults >>

fetchAndEmit == \E j \in jobs : GetTransaction(j) \/ Update(j)

SolNext ==
    \/ \E ps \in SUBSET All : Finalize(ps)
    \/ Break \/ Start \/ Connect \/ Subscribe \/ Retry \/ Select
    \/ \E p \in All : Recv(p)
    \/ fetchAndEmit

SolSpec == SolInit /\ [][SolNext]_solVars

\* The goroutines run, requests are answered and the five seconds pass.
SolFairSpec ==
    /\ SolSpec
    /\ WF_solVars(Start) /\ WF_solVars(Connect) /\ WF_solVars(Subscribe) /\ WF_solVars(Retry)
    /\ WF_solVars(Select)
    /\ \A p \in All : WF_solVars(Recv(p))
    /\ WF_solVars(fetchAndEmit)

-----------------------------------------------------------------------------
(* Properties *)

SolTypeOK ==
    /\ tx \in 0..MaxTx /\ phase \in {"start", "connect", "subscribe", "select", "wait", "dead"}
    /\ subs \in 0..Len(Programs) /\ open \in BOOLEAN
    /\ stream \in [All -> Seq(1..MaxTx)] /\ reading \subseteq All
    /\ sigCh \in Seq([n : 1..MaxTx, p : All]) /\ Len(sigCh) <= SigCap
    /\ jobs \subseteq [sig : [n : 1..MaxTx, p : All], at : {"get", "update"}]
    /\ eventCh \subseteq 1..tx /\ heard \subseteq 1..tx /\ last \in 0..tx
    /\ solFaults \in [count : 0..MaxSolFaults, kinds : SUBSET SolFaultKinds]

\* The recorded slot is one whose transaction is in eventCh.
RecordedIsEmitted == last # 0 => last \in eventCh

\* A transaction the node has sent to the readers is emitted, also when sigCh is
\* full for a while, if the WebSocket holds and GetTransaction succeeds.
EventuallyEmitted ==
    [](solFaults.kinds \subseteq {"connect"}) =>
        \A n \in 1..MaxTx : (n \in heard) ~> (n \in eventCh)
=============================================================================
