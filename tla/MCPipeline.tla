----------------------------- MODULE MCPipeline -----------------------------
(* Pipeline for TLC: five inputs that between them reach every case of the   *)
(* parsers.  A, P and Q are watched, B is not; K is on the whitelist, X not. *)
(* And SolListener, which shares no state with it: a behaviour is one of the *)
(* pool and the writer, or one of the listener.                              *)
EXTENDS Pipeline, SolListener

CONSTANTS g1, g2

VARIABLE part

Tx(n, from, to, value) ==
    [chain |-> "ETH", type |-> "tx", tx |-> n, from |-> from, to |-> to, value |-> value]

Log(n, index, address, topics) ==
    [chain |-> "ETH", type |-> "log", tx |-> n, index |-> index, address |-> address,
     topics |-> topics, amount |-> 7]

TronTx(n, ret, contract, from, to, log) ==
    [chain |-> "TRON", type |-> "tx", tx |-> n, ret |-> ret, contract |-> contract,
     from |-> from, to |-> to, amount |-> 7, log |-> log]

LogOf(address, topics) == [address |-> address, topics |-> topics, amount |-> 7]

Balance(account, owner, amount) ==
    [account |-> account, owner |-> owner, mint |-> "K", amount |-> amount]

SolTx(n, pre, post, preTokens, postTokens) ==
    [chain |-> "SOL", type |-> "sol_tx", tx |-> n, meta |-> TRUE, decodes |-> TRUE,
     accounts |-> << "Q", "B" >>, fee |-> 1, pre |-> pre, post |-> post,
     preTokens |-> preTokens, postTokens |-> postTokens]

SolPayment(n) ==
    SolTx(n, << 30, 5 >>, << 17, 17 >>, << >>, << Balance(1, "Q", 2) >>)

Input(eth, tron, sol) == [ETH |-> eth, TRON |-> tron, SOL |-> sol]

TokenTx == TronTx(1, "SUCCESS", "TriggerSmartContract", "B", "B",
    << LogOf("K", << "Approval", "P", "P" >>), LogOf("K", << "Transfer", "P", "B" >>) >>)

MCInputs == {
    \* a token transfer of a contract to itself, and a swap of this contract
    Input(<< Log(1, 1, "K", << "Transfer", "A", "A" >>), Log(1, 10, "A", << "Swap" >>),
             Tx(2, "A", "B", 5) >>, << >>, << >>),
    \* the other logs, and what is no event
    Input(<< Log(1, 2, "K", << "Deposit", "A" >>), Log(1, 3, "K", << "Withdraw" >>),
             Log(1, 4, "A", << "Approval" >>), Log(1, 5, "A", << >>),
             Log(1, 6, "K", << "Transfer", "A" >>), Log(1, 7, "X", << "Transfer", "A", "B" >>),
             Tx(2, "A", "B", 0) >>, << >>, << >>),
    \* TRON, with a block scanned twice
    Input(<< >>, << TokenTx, TronTx(2, "", "TransferContract", "P", "B", << >>),
                    TronTx(3, "SUCCESS", "VoteWitnessContract", "P", "B", << >>), TokenTx >>, << >>),
    \* Solana; a transaction without Meta, and one that does not decode
    Input(<< >>, << >>,
          << SolTx(1, << 30, 5 >>, << 17, 17 >>, << Balance(1, "Q", 25) >>,
                   << Balance(1, "Q", 2), Balance(2, "B", 23) >>),
             [SolPayment(2) EXCEPT !.meta = FALSE], [SolPayment(3) EXCEPT !.decodes = FALSE] >>),
    \* two chains
    Input(<< Tx(2, "B", "A", 5) >>,
          << TronTx(1, "SUCCESS", "TransferContract", "P", "B", << >>) >>, << >>) }

MCNames == [ETH |-> {"A"}, TRON |-> {"P"}, SOL |-> {"Q"}]
MCContracts == [ETH |-> {"K"}, TRON |-> {}, SOL |-> {}]

MCPrograms == << "token", "system" >>

Pooling == part = "pool"
Listening == part = "listener"

MCInit ==
    /\ Init /\ SolInit /\ part \in {"pool", "listener"}
    /\ (Listening => input = CHOOSE i \in Inputs : TRUE)

MCNext == \/ Pooling /\ Next /\ UNCHANGED << solVars, part >>
          \/ Listening /\ SolNext /\ UNCHANGED << vars, part >>

MCSpec ==
    /\ MCInit /\ [][MCNext]_<< vars, solVars, part >>
    /\ WF_vars(Pooling /\ Receive /\ UNCHANGED others)
    /\ WF_vars(Pooling /\ Tick /\ UNCHANGED others)
    /\ WF_vars(Pooling /\ (Done \/ Return) /\ UNCHANGED others)
    /\ \A c \in Chains : WF_vars(Pooling /\ flush(c) /\ UNCHANGED others)
    /\ WF_solVars(Listening /\ Start) /\ WF_solVars(Listening /\ Connect)
    /\ WF_solVars(Listening /\ Subscribe) /\ WF_solVars(Listening /\ Retry)
    /\ WF_solVars(Listening /\ Select)
    /\ \A p \in All : WF_solVars(Listening /\ Recv(p))
    /\ WF_solVars(Listening /\ fetchAndEmit)
=============================================================================
