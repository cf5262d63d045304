------------------------------- MODULE Parser -------------------------------
(***************************************************************************)
(* The parsers of internal/parser: from a raw event of a chain to the      *)
(* events of the addresses it concerns, and pkg/addrcodec, the spelling    *)
(* under which the API stores an address.                                  *)
(*                                                                         *)
(* An address is a name and the form it is written in; two addresses are   *)
(* the same string when both agree.  An event id stands for the hash of    *)
(* the chain, the transaction and the index.  Amounts are numbers.         *)
(***************************************************************************)
EXTENDS Integers, Sequences, SequencesExt

None == "none"   \* the empty contract address, and the empty direction

\* The forms: "hex" (checksummed, or with TRON's prefix 41), "topic" (padded to 32
\* bytes), "lower" (lower-case hex), "base58" and "lowered base58".
Spelled(name, form) == [name |-> name, form |-> form]

NoAddress == Spelled(None, "lower")

ToLower(a) == [a EXCEPT !.form = IF a.form = "base58" THEN "lowered base58" ELSE "lower"]

BytesToAddress(a) == [a EXCEPT !.form = "hex"]

HexToBase58(a) == [a EXCEPT !.form = "base58"]

\* addrcodec: the form in which addresses of a chain are stored.
Normalize(chain, name) ==
    Spelled(name, IF chain \in {"TRON", "SOL"} THEN "base58" ELSE "lower")

\* NormalizedEvent with GenerateEventID.
Event(raw, index, type, watched, direction, contract, amount) ==
    [id |-> << raw.chain, raw.tx, index >>, chain |-> raw.chain, type |-> type,
     watched |-> watched, direction |-> direction, contract |-> contract, amount |-> amount]

TransferOneId(raw, i, type, from, to, contract, amount) ==   \* mutant: one id for both
    << Event(raw, i, type, from, "OUT", contract, amount),
       Event(raw, i, type, to, "IN", contract, amount) >>

\* The two events of a transfer, with indices i and i + 1.
Transfer(raw, i, type, from, to, contract, amount) ==
    << Event(raw, i, type, from, "OUT", contract, amount),
       Event(raw, i + 1, type, to, "IN", contract, amount) >>

-----------------------------------------------------------------------------
(* evm.go *)

parseTx(raw) ==
    IF raw.value <= 0 THEN << >>
    ELSE Transfer(raw, -2, "NATIVE_TRANSFER", ToLower(Spelled(raw.from, "hex")),
                  ToLower(Spelled(raw.to, "hex")), None, raw.value)

\* Topic k of a log, an address.
Topic(raw, k) == ToLower(BytesToAddress(Spelled(raw.topics[k], "topic")))

parseERC20Transfer(raw) ==
    IF Len(raw.topics) < 3 THEN << >>
    ELSE Transfer(raw, raw.index * 10, "TOKEN_TRANSFER", Topic(raw, 2), Topic(raw, 3),
                  raw.address, raw.amount)

parseSwap(raw) ==
    << Event(raw, raw.index, "SWAP", ToLower(Spelled(raw.address, "hex")), None, None, 0) >>

\* parseStake and parseUnstake.
parseStake(raw, type) ==
    << Event(raw, raw.index, type, IF Len(raw.topics) >= 2 THEN Topic(raw, 2) ELSE NoAddress,
             None, raw.address, raw.amount) >>

parseLog(raw) ==
    IF raw.topics = << >> THEN << >>
    ELSE CASE raw.topics[1] = "Transfer" -> parseERC20Transfer(raw)
           [] raw.topics[1] = "Swap"     -> parseSwap(raw)
           [] raw.topics[1] = "Deposit"  -> parseStake(raw, "STAKE")
           [] raw.topics[1] = "Withdraw" -> parseStake(raw, "UNSTAKE")
           [] OTHER -> << Event(raw, raw.index, "CONTRACT_CALL", NoAddress, None, None, 0) >>

-----------------------------------------------------------------------------
(* tron.go *)

parseNativeTransfer(raw) ==
    Transfer(raw, -2, "NATIVE_TRANSFER", HexToBase58(Spelled(raw.from, "hex")),
             HexToBase58(Spelled(raw.to, "hex")), None, raw.amount)

TopicAsItIs(a) == a   \* mutant: the padding is not cut off

tronTopicToAddress(a) == HexToBase58(a)

parseLogs(raw) ==
    FlattenSeq([i \in 1..Len(raw.log) |->
        LET log == raw.log[i]
        IN  IF Len(log.topics) < 3 \/ log.topics[1] # "Transfer" THEN << >>
            ELSE Transfer(raw, (i - 1) * 10, "TOKEN_TRANSFER",
                          tronTopicToAddress(Spelled(log.topics[2], "topic")),
                          tronTopicToAddress(Spelled(log.topics[3], "topic")),
                          log.address, log.amount)])

parseTRON(raw) ==
    IF raw.ret # "SUCCESS" THEN << >>
    ELSE CASE raw.contract = "TransferContract"     -> parseNativeTransfer(raw)
           [] raw.contract = "TriggerSmartContract" -> parseLogs(raw)
           [] OTHER -> << >>

-----------------------------------------------------------------------------
(* sol.go *)

\* It keeps the last digit only.
uint64ToString(n) == n % 10

\* The event of a balance that went from pre to post.
Change(raw, index, type, owner, contract, pre, post) ==
    IF pre = post THEN << >>
    ELSE << Event(raw, index, type, ToLower(Spelled(owner, "base58")),
                  IF post > pre THEN "IN" ELSE "OUT", contract,
                  uint64ToString(IF post > pre THEN post - pre ELSE pre - post)) >>

\* The fee payer, account 0, gets the fee added back.  Without a transaction that
\* decodes there are no accounts to compare.
parseNativeTransfers(raw) ==
    IF ~ raw.decodes THEN << >>
    ELSE FlattenSeq([i \in 1..Len(raw.accounts) |->
             Change(raw, i - 1, "NATIVE_TRANSFER", raw.accounts[i], None, raw.pre[i],
                    raw.post[i] + IF i = 1 THEN raw.fee ELSE 0)])

\* A token account without a balance before had none; one that has no balance
\* afterwards is not looked at.
parseTokenTransfers(raw) ==
    LET before(k) == {j \in 1..Len(raw.preTokens) : raw.preTokens[j].account = k}
        amount(k) == IF before(k) = {} THEN 0
                     ELSE raw.preTokens[CHOOSE j \in before(k) : \A l \in before(k) : l <= j].amount
    IN  FlattenSeq([i \in 1..Len(raw.postTokens) |->
            LET b == raw.postTokens[i]
            IN  Change(raw, 10000 + i - 1, "TOKEN_TRANSFER", b.owner, b.mint,
                       amount(b.account), b.amount)])

\* The balances are in Meta, which a node may leave out.
parseSOL(raw) ==
    IF ~ raw.meta THEN << >> ELSE parseNativeTransfers(raw) \o parseTokenTransfers(raw)

-----------------------------------------------------------------------------

TronLog == [address : STRING, topics : Seq(STRING), amount : Nat]

TokenBalance == [account : Nat, owner : STRING, mint : STRING, amount : Nat]

\* What the fetchers and the Solana listener hand on: the shape of a raw event.
\* (Instructions of Solana name an account by one byte.)
RawEvent(raw) ==
    CASE raw.chain \in {"ETH", "BSC"} /\ raw.type = "tx" -> raw.value \in Int
      [] raw.chain \in {"ETH", "BSC"} /\ raw.type = "log" ->
             raw.topics \in Seq(STRING) /\ raw.index \in Nat
      [] raw.chain = "TRON" -> raw.log \in Seq(TronLog)
      [] raw.chain = "SOL" /\ raw.type = "sol_tx" ->
             /\ raw.meta \in BOOLEAN /\ raw.decodes \in BOOLEAN
             /\ raw.accounts \in Seq(STRING) /\ Len(raw.accounts) <= 256
             /\ raw.postTokens \in Seq(TokenBalance)
      [] OTHER -> TRUE

\* The parsers of NewSupervisor.
Parse(raw) ==
    CASE raw.chain \in {"ETH", "BSC"} /\ raw.type = "tx" -> parseTx(raw)
      [] raw.chain \in {"ETH", "BSC"} /\ raw.type = "log" -> parseLog(raw)
      [] raw.chain = "TRON" -> parseTRON(raw)
      [] raw.chain = "SOL" /\ raw.type = "sol_tx" -> parseSOL(raw)
      [] OTHER -> << >>

-----------------------------------------------------------------------------
(* What a raw event says, for comparison: whose assets it moves, and which. *)

Move(name, direction, contract) ==
    [name |-> name, direction |-> direction, contract |-> contract]

Moved(from, to, contract) == {Move(from, "OUT", contract), Move(to, "IN", contract)}

LogMoves(address, topics) ==
    IF Len(topics) >= 3 /\ topics[1] = "Transfer" THEN Moved(topics[2], topics[3], address)
                                                  ELSE {}

\* The transfers of EVM transactions and logs, and of successful TRON transactions.
Moves(raw) ==
    CASE raw.chain = "TRON" /\ raw.ret = "SUCCESS" /\ raw.contract = "TransferContract" ->
             Moved(raw.from, raw.to, None)
      [] raw.chain = "TRON" /\ raw.ret = "SUCCESS" /\ raw.contract = "TriggerSmartContract" ->
             UNION {LogMoves(raw.log[i].address, raw.log[i].topics) : i \in 1..Len(raw.log)}
      [] raw.chain \in {"ETH", "BSC"} /\ raw.type = "tx" /\ raw.value > 0 ->
             Moved(raw.from, raw.to, None)
      [] raw.chain \in {"ETH", "BSC"} /\ raw.type = "log" -> LogMoves(raw.address, raw.topics)
      [] OTHER -> {}
=============================================================================
