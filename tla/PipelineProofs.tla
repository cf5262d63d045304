--------------------------- MODULE PipelineProofs ---------------------------
(***************************************************************************)
(* From the chain to the queue: the pool of the supervisor with its        *)
(* parsers and the raw event writer (Pipeline, Parser, RawEventWriter),    *)
(* and the listener of Solana before them (SolListener).                   *)
(*                                                                         *)
(* The raw events of a chain are written in order and once (InOrder), and  *)
(* no transfer of an address that stays watched is missed (NothingMissed), *)
(* for any inputs, addresses, edits of them, faults and numbers of         *)
(* workers.  The latter rests on ParseFacts: what Parse returns for a raw  *)
(* event holds an event for every direction of every transfer in it.       *)
(* Two events of an address share an id only if one is of a token transfer *)
(* and the other of a plain log (OnlyLogsCollide).                         *)
(*                                                                         *)
(* The slot recorded by fetchAndEmit is that of an emitted transaction     *)
(* (RecordedIsEmitted).                                                    *)
(***************************************************************************)
EXTENDS Pipeline, SolListener, SequenceTheorems, TLAPS

WF == INSTANCE WellFoundedInduction

LEMMA LeastExists ==
    ASSUME NEW S, S \subseteq Nat, S # {}
    PROVE  \E i \in S : \A j \in S : i <= j
  <1>0. WF!IsWellFoundedOn(WF!OpToRel(<, Nat), Nat)
    BY WF!NatLessThanWellFounded
  <1>1. \E i \in S : \A j \in S : ~ (<< j, i >> \in WF!OpToRel(<, Nat))
    BY <1>0, WF!WFMin
  <1>2. PICK i \in S : \A j \in S : ~ (<< j, i >> \in WF!OpToRel(<, Nat))
    BY <1>1
  <1>3. ASSUME NEW j \in S PROVE i <= j
    <2>1. << j, i >> \in Nat \X Nat /\ << j, i >> \notin {ss \in Nat \X Nat : ss[1] < ss[2]}
      BY <1>2 DEF WF!OpToRel
    <2> QED  BY <2>1
  <1> QED  BY <1>3

\* A set of naturals that holds 0, and with n always n + 1, up to N.
LEMMA Induction ==
    ASSUME NEW N \in Nat, NEW P, 0 \in P,
           \A n \in 0..N : n \in P /\ n < N => n + 1 \in P
    PROVE  0..N \subseteq P
  <1> DEFINE S == {n \in 0..N : n \notin P}
  <1>1. ASSUME S # {} PROVE FALSE
    <2>0. S \subseteq Nat
      OBVIOUS
    <2>1. PICK m \in S : \A j \in S : m <= j
      <3> HIDE DEF S
      <3> QED  BY <1>1, <2>0, LeastExists
    <2>2. m - 1 \in 0..N /\ m - 1 < N /\ m - 1 < m /\ (m - 1) + 1 = m
      <3>1. m \in 0..N /\ m \notin P /\ m # 0
        BY <2>1
      <3> QED  BY <3>1
    <2>3. m - 1 \in P
      <3>1. ~ (m <= m - 1)
        BY <2>1, <2>2
      <3> QED  BY <2>1, <2>2, <3>1
    <2> QED  BY <2>1, <2>2, <2>3
  <1> QED  BY <1>1

Flattens(f, seqs, n) == f = [i \in 1..n |-> IF i = 1 THEN seqs[i] ELSE f[i-1] \o seqs[i]]

LEMMA FlattenIs ==
   ASSUME NEW seqs, Len(seqs) # 0
   PROVE FlattenSeq(seqs) = (CHOOSE f : Flattens(f, seqs, Len(seqs)))[Len(seqs)]
  BY DEF FlattenSeq, Flattens

LEMMA FlattensExists ==
    ASSUME NEW seqs, NEW N \in Nat
    PROVE  \E f : Flattens(f, seqs, N)
  <1> DEFINE P == {n \in 0..N : \E f : Flattens(f, seqs, n)}
  <1>1. 0 \in P
    <2>1. Flattens([i \in 1..0 |-> i], seqs, 0)
      BY DEF Flattens
    <2> QED  BY <2>1
  <1>2. ASSUME NEW n \in 0..N, n \in P, n < N PROVE n + 1 \in P
    <2>1. PICK f : Flattens(f, seqs, n)
      BY <1>2
    <2> DEFINE g == [i \in 1..(n + 1) |-> IF i <= n THEN f[i]
                          ELSE IF i = 1 THEN seqs[i] ELSE f[i - 1] \o seqs[i]]
    <2>2. \A i \in 1..n : f[i] = IF i = 1 THEN seqs[i] ELSE f[i-1] \o seqs[i]
      BY <2>1 DEF Flattens
    <2>3. ASSUME NEW i \in 1..(n + 1) PROVE g[i] = IF i = 1 THEN seqs[i] ELSE g[i-1] \o seqs[i]
      <3>1. CASE i <= n /\ i # 1
        <4>1. i \in 1..n /\ i - 1 \in 1..n /\ i - 1 \in 1..(n + 1) /\ i - 1 <= n
          BY <3>1
        <4>2. g[i] = f[i] /\ g[i - 1] = f[i - 1]
          BY <4>1
        <4> QED  BY <2>2, <3>1, <4>1, <4>2
      <3>2. CASE i <= n /\ i = 1
        BY <2>2, <3>2
      <3>3. CASE ~ (i <= n) /\ i # 1
        <4>1. i - 1 \in 1..n /\ i - 1 \in 1..(n + 1) /\ i - 1 <= n
          BY <3>3
        <4>2. g[i] = f[i - 1] \o seqs[i] /\ g[i - 1] = f[i - 1]
          BY <3>3, <4>1
        <4> QED  BY <3>3, <4>2
      <3>4. CASE ~ (i <= n) /\ i = 1
        BY <3>4
      <3> QED  BY <3>1, <3>2, <3>3, <3>4
    <2> HIDE DEF g
    <2>4. g = [i \in 1..(n + 1) |-> g[i]]
      BY DEF g
    <2>5. g = [i \in 1..(n + 1) |-> IF i = 1 THEN seqs[i] ELSE g[i-1] \o seqs[i]]
      BY <2>3, <2>4
    <2>6. Flattens(g, seqs, n + 1)
      BY <2>5 DEF Flattens
    <2> QED  BY <1>2, <2>6
  <1>3. N \in P
    <2> HIDE DEF P
    <2>1. 0..N \subseteq P
      BY <1>1, <1>2, Induction
    <2> QED  BY <2>1
  <1> QED  BY <1>3

Upto(seqs, i, x) == \E l \in 1..i : \E j \in DOMAIN seqs[l] : seqs[l][j] = x

Collects(S, seqs, i, s) ==
    s \in Seq(S) /\ \A x : (\E k \in DOMAIN s : s[k] = x) <=> Upto(seqs, i, x)

\* What FlattenSeq returns: the elements of all the sequences.
LEMMA FlattenFacts ==
    ASSUME NEW S, NEW seqs \in Seq(Seq(S))
    PROVE  /\ FlattenSeq(seqs) \in Seq(S)
           /\ \A x : (\E k \in DOMAIN FlattenSeq(seqs) : FlattenSeq(seqs)[k] = x)
                     <=> \E i \in DOMAIN seqs : \E j \in DOMAIN seqs[i] : seqs[i][j] = x
  <1>1. PICK N \in Nat : N = Len(seqs) /\ DOMAIN seqs = 1..N /\ \A i \in 1..N : seqs[i] \in Seq(S)
    OBVIOUS
  <1>2. CASE N = 0
    <2>1. FlattenSeq(seqs) = << >> /\ seqs = << >>
      BY <1>1, <1>2 DEF FlattenSeq
    <2> QED  BY <2>1
  <1>3. CASE N # 0
    <2>1. PICK f : f = CHOOSE h : Flattens(h, seqs, N)
      OBVIOUS
    <2>2. Flattens(f, seqs, N) /\ FlattenSeq(seqs) = f[N]
      BY <1>1, <1>3, <2>1, FlattensExists, FlattenIs
    <2>3. \A i \in 1..N : f[i] = IF i = 1 THEN seqs[i] ELSE f[i-1] \o seqs[i]
      BY <2>2 DEF Flattens
    <2> DEFINE P == {n \in 0..N : n = 0 \/ Collects(S, seqs, n, f[n])}
    <2>4. 0 \in P
      OBVIOUS
    <2>5. ASSUME NEW n \in 0..N, n \in P, n < N PROVE n + 1 \in P
      <3>1. n + 1 \in 1..N /\ n + 1 \in 0..N /\ seqs[n + 1] \in Seq(S)
        BY <1>1, <2>5
      <3>2. CASE n = 0
        <4>1. f[1] = seqs[1] /\ 1..1 = {1} /\ n + 1 = 1
          BY <2>3, <3>1, <3>2
        <4>2. Collects(S, seqs, 1, f[1])
          BY <3>1, <4>1 DEF Collects, Upto
        <4> QED  BY <3>1, <4>1, <4>2
      <3>3. CASE n # 0
        <4>0. Collects(S, seqs, n, f[n])
          BY <2>5, <3>3
        <4>1. f[n + 1] = f[n] \o seqs[n + 1]
          <5>1. n + 1 # 1 /\ (n + 1) - 1 = n
            BY <3>3
          <5> QED  BY <2>3, <3>1, <5>1
        <4>2. PICK a : a = f[n]
          OBVIOUS
        <4>3. PICK b : b = seqs[n + 1]
          OBVIOUS
        <4>4. a \in Seq(S) /\ b \in Seq(S) /\ f[n + 1] = a \o b
          BY <3>1, <4>0, <4>1, <4>2, <4>3 DEF Collects
        <4>5. a \o b \in Seq(S)
          BY <4>4
        <4>6. ASSUME NEW x PROVE (\E k \in DOMAIN (a \o b) : (a \o b)[k] = x)
                                 <=> (\E k \in DOMAIN a : a[k] = x) \/ (\E k \in DOMAIN b : b[k] = x)
          <5>1. Range(a \o b) = Range(a) \cup Range(b)
            BY <4>4, RangeConcatenation
          <5>2. x \in Range(a \o b) <=> x \in Range(a) \/ x \in Range(b)
            BY <5>1
          <5> QED  BY <5>2 DEF Range
        <4>7. \A x : Upto(seqs, n + 1, x) <=> Upto(seqs, n, x) \/ \E k \in DOMAIN b : b[k] = x
          <5>1. 1..(n + 1) = 1..n \cup {n + 1}
            OBVIOUS
          <5> QED  BY <4>3, <5>1 DEF Upto
        <4>8. \A x : (\E k \in DOMAIN a : a[k] = x) <=> Upto(seqs, n, x)
          BY <4>0, <4>2 DEF Collects
        <4>9. Collects(S, seqs, n + 1, a \o b)
          BY <4>5, <4>6, <4>7, <4>8 DEF Collects
        <4>10. Collects(S, seqs, n + 1, f[n + 1])
          BY <4>4, <4>9
        <4> QED  BY <3>1, <4>10
      <3> QED  BY <3>2, <3>3
    <2>6. N \in P
      <3> HIDE DEF P
      <3>1. 0..N \subseteq P
        BY <2>4, <2>5, Induction
      <3> QED  BY <3>1
    <2>7. Collects(S, seqs, N, FlattenSeq(seqs))
      BY <1>3, <2>2, <2>6
    <2> QED  BY <1>1, <2>7 DEF Collects, Upto
  <1> QED  BY <1>2, <1>3

LEMMA FlattenOwn ==
    ASSUME NEW seqs, NEW N \in Nat, seqs = [i \in 1..N |-> seqs[i]],
           \A i \in 1..N : seqs[i] \in Seq(Range(seqs[i]))
    PROVE  /\ FlattenSeq(seqs) \in Seq(Range(FlattenSeq(seqs)))
           /\ \A i \in 1..N : \A j \in DOMAIN seqs[i] :
                 \E k \in DOMAIN FlattenSeq(seqs) : FlattenSeq(seqs)[k] = seqs[i][j]
           /\ \A k \in DOMAIN FlattenSeq(seqs) : \E i \in 1..N : \E j \in DOMAIN seqs[i] :
                 FlattenSeq(seqs)[k] = seqs[i][j]
  <1> DEFINE S == UNION {Range(seqs[i]) : i \in 1..N}
  <1>1. ASSUME NEW i \in 1..N PROVE seqs[i] \in Seq(S)
    <2>1. PICK t : t = seqs[i]
      OBVIOUS
    <2>2. t \in Seq(Range(t)) /\ Range(t) \subseteq S
      <3>1. Range(seqs[i]) \subseteq S
        BY Zenon
      <3>2. t \in Seq(Range(t))
        BY <2>1
      <3> HIDE DEF S
      <3> QED  BY <2>1, <3>1, <3>2
    <2>3. t \in Seq(S)
      <3> HIDE DEF S
      <3>1. PICK n \in Nat : n = Len(t) /\ DOMAIN t = 1..n /\ t = [k \in 1..n |-> t[k]]
        BY <2>2
      <3>2. \A k \in 1..n : t[k] \in S
        BY <2>2, <3>1 DEF Range
      <3>3. t \in [1..n -> S]
        BY <3>1, <3>2
      <3> QED  BY <3>3, SeqDef
    <2> QED  BY <2>1, <2>3
  <1> HIDE DEF S
  <1>2. seqs \in Seq(Seq(S)) /\ DOMAIN seqs = 1..N
    BY <1>1
  <1>3. /\ FlattenSeq(seqs) \in Seq(S)
        /\ \A x : (\E k \in DOMAIN FlattenSeq(seqs) : FlattenSeq(seqs)[k] = x)
                  <=> \E i \in DOMAIN seqs : \E j \in DOMAIN seqs[i] : seqs[i][j] = x
    BY <1>2, FlattenFacts
  <1> QED  BY <1>2, <1>3, SeqOfRange

-----------------------------------------------------------------------------
(* The parsers *)

Carries(e, raw, m) ==
    /\ e.chain = raw.chain /\ e.id[2] = raw.tx
    /\ e.watched = Normalize(raw.chain, m.name)
    /\ e.direction = m.direction /\ e.contract = m.contract

Covers(events, raw, m) == \E k \in DOMAIN events : Carries(events[k], raw, m)

LEMMA TransferFacts ==
    ASSUME NEW raw, NEW i, NEW type, NEW from, NEW to, NEW contract, NEW amount,
           NEW p, NEW q, from = Normalize(raw.chain, p), to = Normalize(raw.chain, q)
    PROVE  LET events == Transfer(raw, i, type, from, to, contract, amount)
           IN  \A m \in Moved(p, q, contract) : Covers(events, raw, m)
  <1> DEFINE events == Transfer(raw, i, type, from, to, contract, amount)
  <1>1. DOMAIN events = {1, 2} /\ Carries(events[1], raw, Move(p, "OUT", contract))
                              /\ Carries(events[2], raw, Move(q, "IN", contract))
    BY DEF Transfer, Event, Carries, Move
  <1> QED  BY <1>1 DEF Moved, Covers

LEMMA Lowered ==
    ASSUME NEW chain \in {"ETH", "BSC"}, NEW n, NEW form \in {"hex", "topic"}
    PROVE  /\ ToLower(Spelled(n, "hex")) = Normalize(chain, n)
           /\ ToLower(BytesToAddress(Spelled(n, form))) = Normalize(chain, n)
  <1>1. Normalize(chain, n) = [name |-> n, form |-> "lower"]
    BY DEF Normalize, Spelled
  <1>2. BytesToAddress(Spelled(n, form)) = [name |-> n, form |-> "hex"]
    BY DEF BytesToAddress, Spelled
  <1>3. ToLower([name |-> n, form |-> "hex"]) = [name |-> n, form |-> "lower"]
    BY DEF ToLower
  <1> QED  BY <1>1, <1>2, <1>3 DEF Spelled

LEMMA InBase58 ==
    ASSUME NEW n, NEW form
    PROVE  HexToBase58(Spelled(n, form)) = Normalize("TRON", n)
  BY DEF HexToBase58, Spelled, Normalize

LEMMA TransferSeq ==
    ASSUME NEW raw, NEW i, NEW type, NEW from, NEW to, NEW contract, NEW amount
    PROVE  LET events == Transfer(raw, i, type, from, to, contract, amount)
           IN  events \in Seq(Range(events))
  <1>1. PICK e, f : Transfer(raw, i, type, from, to, contract, amount) = << e, f >>
    BY DEF Transfer
  <1>2. << e, f >> \in Seq({e, f})
    OBVIOUS
  <1> QED  BY <1>1, <1>2, SeqOfRange

LEMMA SingleSeq ==
    ASSUME NEW e
    PROVE  << e >> \in Seq(Range(<< e >>)) /\ << >> \in Seq(Range(<< >>))
  <1>1. << e >> \in Seq({e}) /\ << >> \in Seq({e})
    OBVIOUS
  <1> QED  BY <1>1, SeqOfRange

Faithful(events, raw) ==
    events \in Seq(Range(events)) /\ \A m \in Moves(raw) : Covers(events, raw, m)

LEMMA TxFacts ==
    ASSUME NEW raw, RawEvent(raw), raw.chain \in {"ETH", "BSC"}, raw.type = "tx"
    PROVE  Faithful(parseTx(raw), raw)
  <1>1. raw.value \in Int
    BY DEF RawEvent
  <1>2. CASE raw.value <= 0
    <2>1. Moves(raw) = {} /\ parseTx(raw) = << >>
      BY <1>1, <1>2 DEF Moves, parseTx
    <2> QED  BY <2>1, SingleSeq DEF Faithful
  <1>3. CASE raw.value > 0
    <2>1. Moves(raw) = Moved(raw.from, raw.to, None)
      BY <1>3 DEF Moves
    <2>2. parseTx(raw) = Transfer(raw, -2, "NATIVE_TRANSFER", Normalize(raw.chain, raw.from),
                                  Normalize(raw.chain, raw.to), None, raw.value)
      BY <1>1, <1>3, Lowered DEF parseTx
    <2> QED  BY <2>1, <2>2, TransferFacts, TransferSeq DEF Faithful
  <1> QED  BY <1>1, <1>2, <1>3

LEMMA LogFacts ==
    ASSUME NEW raw, RawEvent(raw), raw.chain \in {"ETH", "BSC"}, raw.type = "log"
    PROVE  Faithful(parseLog(raw), raw)
  <1>1. PICK topics \in Seq(STRING) : topics = raw.topics
    BY DEF RawEvent
  <1>2. Moves(raw) = LogMoves(raw.address, topics)
    BY <1>1 DEF Moves
  <1>3. CASE topics = << >>
    <2>1. Moves(raw) = {} /\ parseLog(raw) = << >>
      BY <1>1, <1>2, <1>3 DEF parseLog, LogMoves
    <2> QED  BY <2>1, SingleSeq DEF Faithful
  <1>4. CASE topics # << >> /\ topics[1] = "Transfer"
    <2>1. parseLog(raw) = parseERC20Transfer(raw)
      BY <1>1, <1>4 DEF parseLog
    <2>2. CASE Len(topics) < 3
      <3>1. Moves(raw) = {} /\ parseERC20Transfer(raw) = << >>
        BY <1>1, <1>2, <2>2 DEF parseERC20Transfer, LogMoves
      <3> QED  BY <2>1, <3>1, SingleSeq DEF Faithful
    <2>3. CASE Len(topics) >= 3
      <3>1. Moves(raw) = Moved(topics[2], topics[3], raw.address)
        BY <1>2, <1>4, <2>3 DEF LogMoves
      <3>2. Topic(raw, 2) = Normalize(raw.chain, topics[2])
            /\ Topic(raw, 3) = Normalize(raw.chain, topics[3])
        BY <1>1, Lowered DEF Topic
      <3>3. ~ (Len(topics) < 3)
        BY <1>1, <2>3
      <3>4. parseERC20Transfer(raw) =
              Transfer(raw, raw.index * 10, "TOKEN_TRANSFER", Normalize(raw.chain, topics[2]),
                       Normalize(raw.chain, topics[3]), raw.address, raw.amount)
        BY <1>1, <3>2, <3>3 DEF parseERC20Transfer
      <3> QED  BY <2>1, <3>1, <3>4, TransferFacts, TransferSeq DEF Faithful
    <2> QED  BY <1>1, <2>2, <2>3
  <1>5. CASE topics # << >> /\ topics[1] # "Transfer"
    <2>1. Moves(raw) = {}
      BY <1>2, <1>5 DEF LogMoves
    <2>2. \E e : parseLog(raw) = << e >>
      BY <1>1, <1>5 DEF parseLog, parseSwap, parseStake
    <2> QED  BY <2>1, <2>2, SingleSeq DEF Faithful
  <1> QED  BY <1>3, <1>4, <1>5

\* The events of log i of a TRON transaction.
TronEvents(raw, i) ==
    LET log == raw.log[i]
    IN  IF Len(log.topics) < 3 \/ log.topics[1] # "Transfer" THEN << >>
        ELSE Transfer(raw, (i - 1) * 10, "TOKEN_TRANSFER",
                      tronTopicToAddress(Spelled(log.topics[2], "topic")),
                      tronTopicToAddress(Spelled(log.topics[3], "topic")),
                      log.address, log.amount)

LEMMA TronLogs ==
    ASSUME NEW raw, RawEvent(raw), raw.chain = "TRON"
    PROVE  /\ parseLogs(raw) \in Seq(Range(parseLogs(raw)))
           /\ \A i \in 1..Len(raw.log) : \A m \in LogMoves(raw.log[i].address, raw.log[i].topics) :
                 Covers(parseLogs(raw), raw, m)
  <1>1. raw.log \in Seq(TronLog)
    BY DEF RawEvent
  <1>2. PICK N \in Nat : N = Len(raw.log)
    BY <1>1
  <1>3. PICK seqs : seqs = [i \in 1..N |-> TronEvents(raw, i)]
    OBVIOUS
  <1>4. parseLogs(raw) = FlattenSeq(seqs)
    BY <1>2, <1>3 DEF parseLogs, TronEvents
  <1>5. ASSUME NEW i \in 1..N
        PROVE  /\ TronEvents(raw, i) \in Seq(Range(TronEvents(raw, i)))
               /\ \A m \in LogMoves(raw.log[i].address, raw.log[i].topics) :
                     Covers(TronEvents(raw, i), raw, m)
    <2>1. PICK log \in TronLog : log = raw.log[i]
      BY <1>1, <1>2
    <2>2. PICK topics \in Seq(STRING) : topics = log.topics
      BY DEF TronLog
    <2>3. CASE Len(topics) < 3 \/ topics[1] # "Transfer"
      <3>1. TronEvents(raw, i) = << >>
        BY <2>1, <2>2, <2>3 DEF TronEvents
      <3>2. LogMoves(log.address, topics) = {}
        BY <2>2, <2>3 DEF LogMoves
      <3> QED  BY <2>1, <2>2, <3>1, <3>2, SingleSeq
    <2>4. CASE ~ (Len(topics) < 3) /\ topics[1] = "Transfer"
      <3>1. LogMoves(log.address, topics) = Moved(topics[2], topics[3], log.address)
        BY <2>2, <2>4 DEF LogMoves
      <3>2. TronEvents(raw, i) =
              Transfer(raw, (i - 1) * 10, "TOKEN_TRANSFER", Normalize(raw.chain, topics[2]),
                       Normalize(raw.chain, topics[3]), log.address, log.amount)
        BY <2>1, <2>2, <2>4, InBase58 DEF TronEvents, tronTopicToAddress
      <3>3. /\ TronEvents(raw, i) \in Seq(Range(TronEvents(raw, i)))
            /\ \A m \in Moved(topics[2], topics[3], log.address) :
                  Covers(TronEvents(raw, i), raw, m)
        BY <3>2, TransferFacts, TransferSeq
      <3>4. raw.log[i].address = log.address /\ raw.log[i].topics = topics
        BY <2>1, <2>2
      <3> QED  BY <3>1, <3>3, <3>4
    <2> QED  BY <2>3, <2>4
  <1>6. /\ seqs = [i \in 1..N |-> seqs[i]]
        /\ \A i \in 1..N : seqs[i] = TronEvents(raw, i) /\ seqs[i] \in Seq(Range(seqs[i]))
    BY <1>3, <1>5
  <1>7. /\ FlattenSeq(seqs) \in Seq(Range(FlattenSeq(seqs)))
        /\ \A i \in 1..N : \A j \in DOMAIN seqs[i] :
              \E k \in DOMAIN FlattenSeq(seqs) : FlattenSeq(seqs)[k] = seqs[i][j]
    BY <1>6, FlattenOwn
  <1>8. ASSUME NEW i \in 1..N, NEW m \in LogMoves(raw.log[i].address, raw.log[i].topics)
        PROVE  Covers(FlattenSeq(seqs), raw, m)
    <2>1. PICK j \in DOMAIN seqs[i] : Carries(seqs[i][j], raw, m)
      BY <1>5, <1>6 DEF Covers
    <2>2. PICK k \in DOMAIN FlattenSeq(seqs) : FlattenSeq(seqs)[k] = seqs[i][j]
      BY <1>7
    <2> QED  BY <2>1, <2>2 DEF Covers
  <1> QED  BY <1>2, <1>4, <1>7, <1>8

LEMMA TronFacts ==
    ASSUME NEW raw, RawEvent(raw), raw.chain = "TRON"
    PROVE  Faithful(parseTRON(raw), raw)
  <1>1. CASE raw.ret = "SUCCESS" /\ raw.contract = "TransferContract"
    <2>1. Moves(raw) = Moved(raw.from, raw.to, None)
      BY <1>1 DEF Moves
    <2>2. parseTRON(raw) = Transfer(raw, -2, "NATIVE_TRANSFER", Normalize(raw.chain, raw.from),
                                    Normalize(raw.chain, raw.to), None, raw.amount)
      BY <1>1, InBase58 DEF parseTRON, parseNativeTransfer
    <2> QED  BY <2>1, <2>2, TransferFacts, TransferSeq DEF Faithful
  <1>2. CASE raw.ret = "SUCCESS" /\ raw.contract = "TriggerSmartContract"
    <2>1. Moves(raw) = UNION {LogMoves(raw.log[i].address, raw.log[i].topics) :
                                  i \in 1..Len(raw.log)}
      BY <1>2 DEF Moves
    <2>2. parseTRON(raw) = parseLogs(raw)
      BY <1>2 DEF parseTRON
    <2> QED  BY <2>1, <2>2, TronLogs DEF Faithful
  <1>3. CASE ~ (raw.ret = "SUCCESS" /\ raw.contract \in {"TransferContract", "TriggerSmartContract"})
    <2>1. Moves(raw) = {} /\ parseTRON(raw) = << >>
      BY <1>3 DEF Moves, parseTRON
    <2> QED  BY <2>1, SingleSeq DEF Faithful
  <1> QED  BY <1>1, <1>2, <1>3

LEMMA ChangeSeq ==
    ASSUME NEW raw, NEW index, NEW type, NEW owner, NEW contract, NEW pre, NEW post
    PROVE  LET events == Change(raw, index, type, owner, contract, pre, post)
           IN  events \in Seq(Range(events))
  <1>1. Change(raw, index, type, owner, contract, pre, post) = << >>
        \/ \E e : Change(raw, index, type, owner, contract, pre, post) = << e >>
    BY DEF Change
  <1> QED  BY <1>1, SingleSeq

LEMMA SolFacts ==
    ASSUME NEW raw, RawEvent(raw), raw.chain = "SOL", raw.type = "sol_tx"
    PROVE  Faithful(parseSOL(raw), raw)
  <1>1. PICK N \in Nat, M \in Nat : N = Len(raw.accounts) /\ M = Len(raw.postTokens)
    BY DEF RawEvent
  <1>2. ASSUME raw.decodes
        PROVE  parseNativeTransfers(raw) \in Seq(Range(parseNativeTransfers(raw)))
    <2>1. PICK seqs :
            /\ parseNativeTransfers(raw) = FlattenSeq(seqs)
            /\ seqs = [i \in 1..N |->
                         Change(raw, i - 1, "NATIVE_TRANSFER", raw.accounts[i], None, raw.pre[i],
                                raw.post[i] + IF i = 1 THEN raw.fee ELSE 0)]
      BY <1>1, <1>2 DEF parseNativeTransfers
    <2>2. seqs = [i \in 1..N |-> seqs[i]] /\ \A i \in 1..N : seqs[i] \in Seq(Range(seqs[i]))
      BY <2>1, ChangeSeq
    <2> QED  BY <2>1, <2>2, FlattenOwn
  <1>3. parseTokenTransfers(raw) \in Seq(Range(parseTokenTransfers(raw)))
    <2> DEFINE before(k) == {j \in 1..Len(raw.preTokens) : raw.preTokens[j].account = k}
               amount(k) == IF before(k) = {} THEN 0
                            ELSE raw.preTokens[CHOOSE j \in before(k) :
                                                   \A l \in before(k) : l <= j].amount
               change(i) == Change(raw, 10000 + i - 1, "TOKEN_TRANSFER", raw.postTokens[i].owner,
                                   raw.postTokens[i].mint, amount(raw.postTokens[i].account),
                                   raw.postTokens[i].amount)
    <2>1. parseTokenTransfers(raw) = FlattenSeq([i \in 1..M |-> change(i)])
      BY <1>1 DEF parseTokenTransfers
    <2>2. \A i : change(i) \in Seq(Range(change(i)))
      BY ChangeSeq
    <2> HIDE DEF change
    <2>3. PICK seqs : seqs = [i \in 1..M |-> change(i)]
      OBVIOUS
    <2>4. seqs = [i \in 1..M |-> seqs[i]] /\ \A i \in 1..M : seqs[i] \in Seq(Range(seqs[i]))
      BY <2>2, <2>3
    <2> QED  BY <2>1, <2>3, <2>4, FlattenOwn
  <1>4. ASSUME NEW s, s \in Seq(Range(s)), NEW t, t \in Seq(Range(t))
        PROVE  s \o t \in Seq(Range(s \o t))
    <2>1. s \in Seq(Range(s) \cup Range(t)) /\ t \in Seq(Range(s) \cup Range(t))
      BY <1>4, SeqMonotonic
    <2>2. s \o t \in Seq(Range(s) \cup Range(t))
      BY <2>1
    <2> QED  BY <2>2, SeqOfRange
  <1>5. Moves(raw) = {}
    BY DEF Moves
  <1>6. << >> \in Seq(Range(<< >>))
    BY SingleSeq
  <1>7. parseNativeTransfers(raw) \in Seq(Range(parseNativeTransfers(raw)))
    BY <1>2, <1>6 DEF parseNativeTransfers
  <1>8. parseSOL(raw) \in Seq(Range(parseSOL(raw)))
    BY <1>3, <1>4, <1>6, <1>7 DEF parseSOL
  <1> QED  BY <1>5, <1>8 DEF Faithful

\* Whatever a raw event says, Parse returns a sequence with an event for each
\* direction of each transfer the raw event makes.
LEMMA ParseFacts ==
    ASSUME NEW raw, RawEvent(raw)
    PROVE  Faithful(Parse(raw), raw)
  <1>1. CASE raw.chain \in {"ETH", "BSC"} /\ raw.type = "tx"
    <2>1. Parse(raw) = parseTx(raw)
      BY <1>1 DEF Parse
    <2> QED  BY <1>1, <2>1, TxFacts
  <1>2. CASE raw.chain \in {"ETH", "BSC"} /\ raw.type = "log"
    <2>1. Parse(raw) = parseLog(raw)
      BY <1>2 DEF Parse
    <2> QED  BY <1>2, <2>1, LogFacts
  <1>3. CASE raw.chain = "TRON"
    <2>1. Parse(raw) = parseTRON(raw)
      BY <1>3 DEF Parse
    <2> QED  BY <1>3, <2>1, TronFacts
  <1>4. CASE raw.chain = "SOL" /\ raw.type = "sol_tx"
    <2>1. Parse(raw) = parseSOL(raw)
      BY <1>4 DEF Parse
    <2> QED  BY <1>4, <2>1, SolFacts
  <1>5. CASE ~ (\/ raw.chain \in {"ETH", "BSC"} /\ raw.type \in {"tx", "log"}
                \/ raw.chain = "TRON"
                \/ raw.chain = "SOL" /\ raw.type = "sol_tx")
    <2>1. Parse(raw) = << >> /\ Moves(raw) = {}
      BY <1>5 DEF Parse, Moves
    <2> QED  BY <2>1, SingleSeq DEF Faithful
  <1> QED  BY <1>1, <1>2, <1>3, <1>4, <1>5

-----------------------------------------------------------------------------
(* The ids of the events that the parsers return *)

\* Events of one raw event whose indices are in K and tell them apart.
Ids(raw, E, K) ==
    /\ \A e \in E : e.id[1] = raw.chain /\ e.id[2] = raw.tx /\ e.id[3] \in K
    /\ \A e, f \in E : e.id = f.id => e = f

LEMMA IdsUnion ==
    ASSUME NEW raw, NEW E, NEW K, Ids(raw, E, K), NEW F, NEW L, Ids(raw, F, L), K \cap L = {}
    PROVE  Ids(raw, E \cup F, K \cup L)
  <1>1. \A e \in E : \A f \in F : e.id # f.id
    BY DEF Ids
  <1> QED  BY <1>1 DEF Ids

\* The parts of a raw event do not share indices: K[i] are those of part i.
LEMMA IdsFlatten ==
    ASSUME NEW raw, NEW N \in Nat, NEW seqs, seqs = [i \in 1..N |-> seqs[i]],
           \A i \in 1..N : seqs[i] \in Seq(Range(seqs[i])),
           NEW K, \A i \in 1..N : Ids(raw, Range(seqs[i]), K[i]),
           \A i, j \in 1..N : i # j => K[i] \cap K[j] = {},
           NEW L, \A i \in 1..N : K[i] \subseteq L
    PROVE  Ids(raw, Range(FlattenSeq(seqs)), L)
  <1>1. PICK s :
          /\ s = FlattenSeq(seqs)
          /\ \A k \in DOMAIN s : \E i \in 1..N : \E j \in DOMAIN seqs[i] : s[k] = seqs[i][j]
    <2>1. \A k \in DOMAIN FlattenSeq(seqs) : \E i \in 1..N : \E j \in DOMAIN seqs[i] :
             FlattenSeq(seqs)[k] = seqs[i][j]
      BY FlattenOwn, Zenon
    <2> QED  BY <2>1, Zenon
  <1>2. ASSUME NEW e \in Range(s) PROVE \E i \in 1..N : e \in Range(seqs[i])
    <2>1. PICK k \in DOMAIN s : e = s[k]
      BY DEF Range
    <2>2. PICK i \in 1..N : \E j \in DOMAIN seqs[i] : s[k] = seqs[i][j]
      BY <1>1
    <2>3. e \in Range(seqs[i])
      BY <2>1, <2>2 DEF Range
    <2> QED  BY <2>3
  <1>3. ASSUME NEW e \in Range(s)
        PROVE  e.id[1] = raw.chain /\ e.id[2] = raw.tx /\ e.id[3] \in L
    BY <1>2 DEF Ids
  <1>4. ASSUME NEW e \in Range(s), NEW f \in Range(s), e.id = f.id
        PROVE  e = f
    <2>1. PICK i \in 1..N : e \in Range(seqs[i])
      BY <1>2
    <2>2. PICK j \in 1..N : f \in Range(seqs[j])
      BY <1>2
    <2>3. e.id[3] \in K[i] /\ e.id[3] \in K[j]
      BY <1>4, <2>1, <2>2 DEF Ids
    <2>4. i = j
      <3>1. K[i] \cap K[j] # {}
        BY <2>3
      <3> QED  BY <3>1
    <2> QED  BY <1>4, <2>1, <2>2, <2>4 DEF Ids
  <1> QED  BY <1>1, <1>3, <1>4 DEF Ids

LEMMA TransferIds ==
    ASSUME NEW raw, NEW i \in Int, NEW type, NEW from, NEW to, NEW contract, NEW amount,
           NEW s, s = Transfer(raw, i, type, from, to, contract, amount)
    PROVE  Ids(raw, Range(s), {i, i + 1})
  <1>1. PICK e, f :
          /\ e = Event(raw, i, type, from, "OUT", contract, amount)
          /\ f = Event(raw, i + 1, type, to, "IN", contract, amount)
    OBVIOUS
  <1>2. s = << e, f >>
    BY <1>1 DEF Transfer
  <1>3. Range(s) = {e, f}
    <2>1. DOMAIN s = {1, 2} /\ s[1] = e /\ s[2] = f
      BY <1>2
    <2> QED  BY <2>1 DEF Range
  <1>4. e.id = << raw.chain, raw.tx, i >> /\ f.id = << raw.chain, raw.tx, i + 1 >>
    BY <1>1 DEF Event
  <1>5. e.id[3] = i /\ f.id[3] = i + 1 /\ i # i + 1
    BY <1>4
  <1> QED  BY <1>3, <1>4, <1>5 DEF Ids

LEMMA SingleIds ==
    ASSUME NEW raw, NEW e, NEW k, e.id = << raw.chain, raw.tx, k >>
    PROVE  Ids(raw, Range(<< e >>), {k}) /\ Range(<< e >>) = {e}
  <1>1. Range(<< e >>) = {e}
    BY DEF Range
  <1> QED  BY <1>1 DEF Ids

LEMMA EmptyIds ==
    ASSUME NEW raw, NEW K
    PROVE  Ids(raw, Range(<< >>), K) /\ Range(<< >>) = {}
  BY DEF Ids, Range

LEMMA IdsMore ==
    ASSUME NEW raw, NEW E, NEW K, Ids(raw, E, K), NEW L, K \subseteq L
    PROVE  Ids(raw, E, L)
  BY DEF Ids

\* An event of a log: a token transfer has one of two indices of its own, any other
\* event the log's.
FromLog(e, raw) ==
    \/ /\ e.type = "TOKEN_TRANSFER"
       /\ e.id[3] \in {raw.index * 10, raw.index * 10 + 1}
    \/ /\ e.type \in {"SWAP", "STAKE", "UNSTAKE"} \/ e.watched.name = None
       /\ e.id[3] = raw.index

LEMMA TxIds ==
    ASSUME NEW raw, RawEvent(raw), raw.chain \in {"ETH", "BSC"}, raw.type = "tx"
    PROVE  Ids(raw, Range(parseTx(raw)), {-2, -1})
  <1>1. PICK v \in Int : v = raw.value
    BY DEF RawEvent
  <1>2. CASE v <= 0
    BY <1>1, <1>2, EmptyIds DEF parseTx
  <1>3. CASE ~ (v <= 0)
    <2>1. parseTx(raw) = Transfer(raw, -2, "NATIVE_TRANSFER", ToLower(Spelled(raw.from, "hex")),
                  ToLower(Spelled(raw.to, "hex")), None, raw.value)
      BY <1>1, <1>3 DEF parseTx
    <2>2. Ids(raw, Range(parseTx(raw)), {-2, -2 + 1})
      <3>1. PICK t, from, to :
              /\ t = parseTx(raw)
              /\ t = Transfer(raw, -2, "NATIVE_TRANSFER", from, to, None, raw.value)
        BY <2>1
      <3>2. Ids(raw, Range(t), {-2, -2 + 1})
        BY <3>1, TransferIds
      <3> QED  BY <3>1, <3>2
    <2>3. -2 + 1 = -1
      OBVIOUS
    <2> QED  BY <2>2, <2>3
  <1> QED  BY <1>2, <1>3

LEMMA TokenIds ==
    ASSUME NEW raw, raw.index \in Nat, NEW from, NEW to, NEW contract, NEW amount,
           NEW s, s = Transfer(raw, raw.index * 10, "TOKEN_TRANSFER", from, to, contract, amount)
    PROVE  Ids(raw, Range(s), Nat) /\ \A e \in Range(s) : FromLog(e, raw)
  <1>1. PICK i \in Int : i = raw.index * 10 /\ i \in Nat
    OBVIOUS
  <1>2. s = Transfer(raw, i, "TOKEN_TRANSFER", from, to, contract, amount)
    BY <1>1
  <1>3. Ids(raw, Range(s), {i, i + 1})
    BY <1>2, TransferIds
  <1>4. Ids(raw, Range(s), Nat)
    <2>1. {i, i + 1} \subseteq Nat
      BY <1>1
    <2> QED  BY <1>3, <2>1, IdsMore
  <1>5. ASSUME NEW e \in Range(s) PROVE e.type = "TOKEN_TRANSFER"
    <2>1. PICK k \in DOMAIN s : e = s[k]
      BY DEF Range
    <2>2. DOMAIN s = {1, 2} /\ s[1].type = "TOKEN_TRANSFER" /\ s[2].type = "TOKEN_TRANSFER"
      BY <1>2 DEF Transfer, Event
    <2> QED  BY <2>1, <2>2
  <1> QED  BY <1>1, <1>3, <1>4, <1>5 DEF Ids, FromLog

LEMMA LogIds ==
    ASSUME NEW raw, RawEvent(raw), raw.chain \in {"ETH", "BSC"}, raw.type = "log"
    PROVE  /\ Ids(raw, Range(parseLog(raw)), Nat)
           /\ \A e \in Range(parseLog(raw)) : FromLog(e, raw)
  <1>1. PICK topics \in Seq(STRING), index \in Nat : topics = raw.topics /\ index = raw.index
    BY DEF RawEvent
  <1>2. PICK E : E = Range(parseLog(raw))
    OBVIOUS
  <1>3. CASE topics = << >>
    <2>1. parseLog(raw) = << >>
      BY <1>1, <1>3 DEF parseLog
    <2> QED  BY <2>1, EmptyIds
  <1>4. CASE topics # << >> /\ topics[1] = "Transfer"
    <2>1. parseLog(raw) = parseERC20Transfer(raw)
      BY <1>1, <1>4 DEF parseLog
    <2>2. CASE Len(topics) < 3
      <3>1. parseERC20Transfer(raw) = << >>
        BY <1>1, <2>2 DEF parseERC20Transfer
      <3> QED  BY <2>1, <3>1, EmptyIds
    <2>3. CASE ~ (Len(topics) < 3)
      <3>1. parseERC20Transfer(raw) = Transfer(raw, raw.index * 10, "TOKEN_TRANSFER",
                Topic(raw, 2), Topic(raw, 3), raw.address, raw.amount)
        BY <1>1, <2>3 DEF parseERC20Transfer
      <3>2. PICK s, from, to, contract, amount :
              /\ s = parseLog(raw)
              /\ s = Transfer(raw, raw.index * 10, "TOKEN_TRANSFER", from, to, contract, amount)
        BY <2>1, <3>1
      <3>3. raw.index \in Nat
        BY <1>1
      <3>4. Ids(raw, Range(s), Nat) /\ \A e \in Range(s) : FromLog(e, raw)
        BY <3>2, <3>3, TokenIds
      <3> QED  BY <1>2, <3>2, <3>4
    <2> QED  BY <2>2, <2>3
  <1>5. CASE topics # << >> /\ topics[1] # "Transfer"
    <2>1. PICK e : /\ parseLog(raw) = << e >>
                   /\ e.id = << raw.chain, raw.tx, raw.index >>
                   /\ e.type \in {"SWAP", "STAKE", "UNSTAKE"} \/ e.watched.name = None
      <3>1. NoAddress.name = None
        BY DEF NoAddress, Spelled
      <3>2. CASE topics[1] = "Swap"
        BY <1>1, <1>5, <3>2 DEF parseLog, parseSwap, Event
      <3>3. CASE topics[1] = "Deposit"
        BY <1>1, <1>5, <3>3 DEF parseLog, parseStake, Event
      <3>4. CASE topics[1] = "Withdraw"
        BY <1>1, <1>5, <3>4 DEF parseLog, parseStake, Event
      <3>5. CASE topics[1] \notin {"Transfer", "Swap", "Deposit", "Withdraw"}
        BY <1>1, <1>5, <3>1, <3>5 DEF parseLog, Event
      <3> QED  BY <1>5, <3>2, <3>3, <3>4, <3>5
    <2>2. Ids(raw, E, {raw.index}) /\ E = {e}
      BY <1>2, <2>1, SingleIds
    <2>3. Ids(raw, E, Nat)
      BY <1>1, <2>2, IdsMore
    <2> QED  BY <1>2, <2>1, <2>2, <2>3 DEF FromLog
  <1> QED  BY <1>3, <1>4, <1>5

LEMMA TronIds ==
    ASSUME NEW raw, RawEvent(raw), raw.chain = "TRON"
    PROVE  Ids(raw, Range(parseTRON(raw)), Int)
  <1>1. CASE raw.ret = "SUCCESS" /\ raw.contract = "TransferContract"
    <2>1. parseTRON(raw) = Transfer(raw, -2, "NATIVE_TRANSFER",
                 HexToBase58(Spelled(raw.from, "hex")), HexToBase58(Spelled(raw.to, "hex")),
                 None, raw.amount)
      BY <1>1 DEF parseTRON, parseNativeTransfer
    <2>2. Ids(raw, Range(parseTRON(raw)), {-2, -2 + 1})
      <3>1. PICK t, from, to :
              /\ t = parseTRON(raw)
              /\ t = Transfer(raw, -2, "NATIVE_TRANSFER", from, to, None, raw.amount)
        BY <2>1
      <3>2. Ids(raw, Range(t), {-2, -2 + 1})
        BY <3>1, TransferIds
      <3> QED  BY <3>1, <3>2
    <2>3. {-2, -2 + 1} \subseteq Int
      OBVIOUS
    <2> QED  BY <2>2, <2>3, IdsMore
  <1>2. CASE raw.ret = "SUCCESS" /\ raw.contract = "TriggerSmartContract"
    <2>1. PICK N \in Nat : N = Len(raw.log)
      BY DEF RawEvent
    <2>2. PICK seqs : seqs = [i \in 1..N |-> TronEvents(raw, i)]
      OBVIOUS
    <2>3. parseTRON(raw) = FlattenSeq(seqs)
      BY <1>2, <2>1, <2>2 DEF parseTRON, parseLogs, TronEvents
    <2>4. PICK K : K = [i \in 1..N |-> {(i - 1) * 10, (i - 1) * 10 + 1}]
      OBVIOUS
    <2>5. ASSUME NEW i \in 1..N
          PROVE  /\ TronEvents(raw, i) \in Seq(Range(TronEvents(raw, i)))
                 /\ Ids(raw, Range(TronEvents(raw, i)), {(i - 1) * 10, (i - 1) * 10 + 1})
      <3>1. (i - 1) * 10 \in Int
        OBVIOUS
      <3>2. PICK t : t = TronEvents(raw, i)
        OBVIOUS
      <3>3. \/ t = << >>
            \/ \E from, to, contract, amount :
                  t = Transfer(raw, (i - 1) * 10, "TOKEN_TRANSFER", from, to, contract, amount)
        BY <3>2, Zenon DEF TronEvents
      <3>4. CASE t = << >>
        BY <3>2, <3>4, EmptyIds, SingleSeq
      <3>5. CASE t # << >>
        <4>1. PICK from, to, contract, amount :
                  t = Transfer(raw, (i - 1) * 10, "TOKEN_TRANSFER", from, to, contract, amount)
          BY <3>3, <3>5
        <4> QED  BY <3>1, <3>2, <4>1, TransferIds, TransferSeq
      <3> QED  BY <3>4, <3>5
    <2>6. /\ seqs = [i \in 1..N |-> seqs[i]]
          /\ \A i \in 1..N : seqs[i] \in Seq(Range(seqs[i]))
          /\ \A i \in 1..N : Ids(raw, Range(seqs[i]), K[i])
      BY <2>2, <2>4, <2>5
    <2>7. ASSUME NEW i \in 1..N, NEW j \in 1..N, i # j PROVE K[i] \cap K[j] = {}
      BY <2>4, <2>7
    <2>8. \A i \in 1..N : K[i] \subseteq Int
      BY <2>4
    <2> QED  BY <2>3, <2>6, <2>7, <2>8, IdsFlatten
  <1>3. CASE ~ (raw.ret = "SUCCESS" /\ raw.contract \in {"TransferContract", "TriggerSmartContract"})
    <2>1. parseTRON(raw) = << >>
      BY <1>3 DEF parseTRON
    <2> QED  BY <2>1, EmptyIds
  <1> QED  BY <1>1, <1>2, <1>3

LEMMA ChangeIds ==
    ASSUME NEW raw, NEW index, NEW type, NEW owner, NEW contract, NEW pre, NEW post
    PROVE  Ids(raw, Range(Change(raw, index, type, owner, contract, pre, post)), {index})
  <1>1. PICK t : t = Change(raw, index, type, owner, contract, pre, post)
    OBVIOUS
  <1>2. t = << >> \/ \E e : t = << e >> /\ e.id = << raw.chain, raw.tx, index >>
    BY <1>1 DEF Change, Event
  <1> QED  BY <1>1, <1>2, EmptyIds, SingleIds

LEMMA SolIds ==
    ASSUME NEW raw, RawEvent(raw), raw.chain = "SOL", raw.type = "sol_tx"
    PROVE  Ids(raw, Range(parseSOL(raw)), Int)
  <1>1. PICK N \in Nat, M \in Nat : N = Len(raw.accounts) /\ M = Len(raw.postTokens) /\ N <= 256
    BY DEF RawEvent
  <1>2. PICK s : s = parseNativeTransfers(raw)
    OBVIOUS
  <1>3. PICK t : t = parseTokenTransfers(raw)
    OBVIOUS
  <1>0. CASE ~ raw.meta
    BY <1>0, EmptyIds DEF parseSOL
  <1>4. Ids(raw, Range(s), 0..255) /\ s \in Seq(Range(s))
    <2>0. CASE ~ raw.decodes
      <3>1. s = << >>
        BY <1>2, <2>0 DEF parseNativeTransfers
      <3> QED  BY <3>1, EmptyIds, SingleSeq
    <2> SUFFICES ASSUME raw.decodes PROVE Ids(raw, Range(s), 0..255) /\ s \in Seq(Range(s))
      BY <2>0
    <2>1. PICK seqs :
            /\ s = FlattenSeq(seqs)
            /\ seqs = [i \in 1..N |->
                         Change(raw, i - 1, "NATIVE_TRANSFER", raw.accounts[i], None, raw.pre[i],
                                raw.post[i] + IF i = 1 THEN raw.fee ELSE 0)]
      BY <1>1, <1>2 DEF parseNativeTransfers
    <2>2. PICK K : K = [i \in 1..N |-> {i - 1}]
      OBVIOUS
    <2>3. /\ seqs = [i \in 1..N |-> seqs[i]]
          /\ \A i \in 1..N : seqs[i] \in Seq(Range(seqs[i]))
          /\ \A i \in 1..N : Ids(raw, Range(seqs[i]), K[i])
      BY <2>1, <2>2, ChangeSeq, ChangeIds
    <2>4. ASSUME NEW i \in 1..N, NEW j \in 1..N, i # j PROVE K[i] \cap K[j] = {}
      BY <2>2, <2>4
    <2>5. ASSUME NEW i \in 1..N PROVE K[i] \subseteq 0..255
      <3>1. i - 1 \in 0..255 /\ K[i] = {i - 1}
        BY <1>1, <2>2
      <3> QED  BY <3>1
    <2>6. Ids(raw, Range(s), 0..255)
      <3>1. Ids(raw, Range(FlattenSeq(seqs)), 0..255)
        BY <2>3, <2>4, <2>5, IdsFlatten
      <3> QED  BY <2>1, <3>1
    <2>7. s \in Seq(Range(s))
      BY <2>1, <2>3, FlattenOwn
    <2> QED  BY <2>6, <2>7
  <1>5. Ids(raw, Range(t), Int \ 0..255) /\ t \in Seq(Range(t))
    <2> DEFINE before(k) == {j \in 1..Len(raw.preTokens) : raw.preTokens[j].account = k}
               amount(k) == IF before(k) = {} THEN 0
                            ELSE raw.preTokens[CHOOSE j \in before(k) :
                                                   \A l \in before(k) : l <= j].amount
               change(i) == Change(raw, 10000 + i - 1, "TOKEN_TRANSFER", raw.postTokens[i].owner,
                                   raw.postTokens[i].mint, amount(raw.postTokens[i].account),
                                   raw.postTokens[i].amount)
    <2>1. t = FlattenSeq([i \in 1..M |-> change(i)])
      BY <1>1, <1>3 DEF parseTokenTransfers
    <2>2. \A i : change(i) \in Seq(Range(change(i))) /\ Ids(raw, Range(change(i)), {10000 + i - 1})
      BY ChangeSeq, ChangeIds
    <2> HIDE DEF change
    <2>3. PICK seqs : seqs = [i \in 1..M |-> change(i)]
      OBVIOUS
    <2>4. PICK K : K = [i \in 1..M |-> {10000 + i - 1}]
      OBVIOUS
    <2>5. /\ seqs = [i \in 1..M |-> seqs[i]]
          /\ \A i \in 1..M : seqs[i] \in Seq(Range(seqs[i]))
          /\ \A i \in 1..M : Ids(raw, Range(seqs[i]), K[i])
      <3>1. seqs = [i \in 1..M |-> seqs[i]] /\ \A i \in 1..M : seqs[i] = change(i)
        BY <2>3
      <3>2. \A i \in 1..M : K[i] = {10000 + i - 1}
        BY <2>4
      <3>3. ASSUME NEW i \in 1..M
            PROVE  seqs[i] \in Seq(Range(seqs[i])) /\ Ids(raw, Range(seqs[i]), K[i])
        <4>1. change(i) \in Seq(Range(change(i))) /\ Ids(raw, Range(change(i)), {10000 + i - 1})
          BY <2>2
        <4>2. seqs[i] = change(i) /\ K[i] = {10000 + i - 1}
          BY <3>1, <3>2
        <4> QED  BY <4>1, <4>2
      <3> QED  BY <3>1, <3>3
    <2>6. ASSUME NEW i \in 1..M, NEW j \in 1..M, i # j PROVE K[i] \cap K[j] = {}
      BY <2>4, <2>6
    <2>7. \A i \in 1..M : K[i] \subseteq Int \ 0..255
      BY <2>4
    <2>8. Ids(raw, Range(t), Int \ 0..255)
      <3>1. PICK L : L = Int \ 0..255
        OBVIOUS
      <3>2. \A i \in 1..M : K[i] \subseteq L
        BY <2>7, <3>1
      <3>3. Ids(raw, Range(FlattenSeq(seqs)), L)
        BY <2>5, <2>6, <3>2, IdsFlatten
      <3> QED  BY <2>1, <2>3, <3>1, <3>3
    <2>9. t \in Seq(Range(t))
      BY <2>1, <2>3, <2>5, FlattenOwn
    <2> QED  BY <2>8, <2>9
  <1>6. ASSUME raw.meta
        PROVE  Range(parseSOL(raw)) = Range(s) \cup Range(t)
    <2>0. parseSOL(raw) = s \o t
      BY <1>2, <1>3, <1>6 DEF parseSOL
    <2>1. PICK S : S = Range(s) \cup Range(t)
      OBVIOUS
    <2>2. s \in Seq(S) /\ t \in Seq(S)
      BY <1>4, <1>5, <2>1, SeqMonotonic
    <2>3. Range(s \o t) = Range(s) \cup Range(t)
      BY <2>2, RangeConcatenation
    <2> QED  BY <2>0, <2>3
  <1>7. Ids(raw, Range(s) \cup Range(t), 0..255 \cup (Int \ 0..255))
    BY <1>4, <1>5, IdsUnion
  <1>8. ASSUME raw.meta PROVE Ids(raw, Range(parseSOL(raw)), Int)
    <2>1. Range(parseSOL(raw)) = Range(s) \cup Range(t)
      BY <1>6, <1>8
    <2> QED  BY <1>7, <2>1, IdsMore
  <1> QED  BY <1>0, <1>8

\* The events of one raw event have ids of their own, and on an EVM chain the ids of a
\* transaction are not those of a log.
LEMMA ParseIds ==
    ASSUME NEW raw, RawEvent(raw)
    PROVE  /\ Ids(raw, Range(Parse(raw)), Int)
           /\ raw.chain \in {"ETH", "BSC"} /\ Range(Parse(raw)) # {} => raw.type \in {"tx", "log"}
           /\ raw.chain \in {"ETH", "BSC"} /\ raw.type = "tx" =>
                Ids(raw, Range(Parse(raw)), {-2, -1})
           /\ raw.chain \in {"ETH", "BSC"} /\ raw.type = "log" =>
                /\ Ids(raw, Range(Parse(raw)), Nat)
                /\ raw.index \in Nat
                /\ \A e \in Range(Parse(raw)) : FromLog(e, raw)
  <1>1. CASE raw.chain \in {"ETH", "BSC"} /\ raw.type = "tx"
    <2>1. Parse(raw) = parseTx(raw)
      BY <1>1 DEF Parse
    <2>2. Ids(raw, Range(Parse(raw)), {-2, -1})
      BY <1>1, <2>1, TxIds
    <2>3. Ids(raw, Range(Parse(raw)), Int)
      BY <2>2, IdsMore
    <2> QED  BY <1>1, <2>2, <2>3
  <1>2. CASE raw.chain \in {"ETH", "BSC"} /\ raw.type = "log"
    <2>1. Parse(raw) = parseLog(raw)
      BY <1>2 DEF Parse
    <2>2. Ids(raw, Range(Parse(raw)), Nat) /\ \A e \in Range(Parse(raw)) : FromLog(e, raw)
      BY <1>2, <2>1, LogIds
    <2>3. Ids(raw, Range(Parse(raw)), Int)
      BY <2>2, IdsMore
    <2>4. raw.index \in Nat
      BY <1>2 DEF RawEvent
    <2> QED  BY <1>2, <2>2, <2>3, <2>4
  <1>3. CASE raw.chain = "TRON"
    <2>1. Parse(raw) = parseTRON(raw)
      BY <1>3 DEF Parse
    <2> QED  BY <1>3, <2>1, TronIds
  <1>4. CASE raw.chain = "SOL" /\ raw.type = "sol_tx"
    <2>1. Parse(raw) = parseSOL(raw)
      BY <1>4 DEF Parse
    <2> QED  BY <1>4, <2>1, SolIds
  <1>5. CASE ~ (\/ raw.chain \in {"ETH", "BSC"} /\ raw.type \in {"tx", "log"}
                \/ raw.chain = "TRON"
                \/ raw.chain = "SOL" /\ raw.type = "sol_tx")
    <2>1. Parse(raw) = << >>
      BY <1>5 DEF Parse
    <2> QED  BY <1>5, <2>1, EmptyIds
  <1> QED  BY <1>1, <1>2, <1>3, <1>4, <1>5

-----------------------------------------------------------------------------
(* The writer *)

\* What InOrder says of one chain: s is its table and buffer, ch the channel.
Ordered(s, ch, c) ==
    /\ Ascending(s)
    /\ \A k \in DOMAIN ch : ch[k].chain = c =>
          /\ \A i \in DOMAIN s : s[i] < ch[k].n
          /\ \A l \in DOMAIN ch : ch[l].chain = c /\ l < k => ch[l].n < ch[k].n

LEMMA OrderedOffer ==
    ASSUME NEW N \in Nat, NEW s \in Seq(1..N), NEW ch \in Seq([chain : Chains, n : 1..N]),
           NEW c, NEW d \in Chains, Ordered(s, ch, c)
    PROVE  Ordered(s, Append(ch, [chain |-> d, n |-> N + 1]), c)
  <1>1. PICK new : new = Append(ch, [chain |-> d, n |-> N + 1])
    OBVIOUS
  <1>2. PICK L \in Nat : L = Len(ch) /\ DOMAIN ch = 1..L
    OBVIOUS
  <1>3. /\ DOMAIN new = 1..(L + 1)
        /\ \A k \in 1..L : new[k] = ch[k]
        /\ new[L + 1].n = N + 1
    BY <1>1, <1>2
  <1>4. ASSUME NEW k \in 1..L PROVE ch[k].n < N + 1
    <2>1. ch[k] \in [chain : Chains, n : 1..N]
      BY <1>2, ElementOfSeq
    <2>2. PICK v \in 1..N : v = ch[k].n
      BY <2>1
    <2> QED  BY <2>2
  <1>5. ASSUME NEW i \in DOMAIN s PROVE s[i] < N + 1
    <2>1. PICK v \in 1..N : v = s[i]
      OBVIOUS
    <2> QED  BY <2>1
  <1>6. ASSUME NEW k \in DOMAIN new, new[k].chain = c
        PROVE  /\ \A i \in DOMAIN s : s[i] < new[k].n
               /\ \A l \in DOMAIN new : new[l].chain = c /\ l < k => new[l].n < new[k].n
    <2>1. CASE k = L + 1
      <3>1. \A l \in DOMAIN new : l < k => l \in 1..L
        BY <1>3, <2>1
      <3>2. new[k].n = N + 1
        BY <1>3, <2>1
      <3>3. \A l \in DOMAIN new : l < k => new[l].n < new[k].n
        BY <1>3, <1>4, <3>1, <3>2
      <3>4. \A i \in DOMAIN s : s[i] < new[k].n
        BY <1>5, <3>2
      <3> QED  BY <3>3, <3>4
    <2>2. CASE k \in 1..L
      <3>1. \A l \in DOMAIN new : l < k => l \in 1..L
        BY <1>3, <2>2
      <3>2. new[k] = ch[k] /\ ch[k].chain = c /\ k \in DOMAIN ch
        BY <1>2, <1>3, <1>6, <2>2
      <3>3. /\ \A i \in DOMAIN s : s[i] < ch[k].n
            /\ \A l \in DOMAIN ch : ch[l].chain = c /\ l < k => ch[l].n < ch[k].n
        BY <3>2 DEF Ordered
      <3>4. \A l \in DOMAIN new : new[l].chain = c /\ l < k => new[l].n < new[k].n
        BY <1>2, <1>3, <3>1, <3>2, <3>3
      <3> QED  BY <3>2, <3>3, <3>4
    <2>3. k = L + 1 \/ k \in 1..L
      BY <1>3
    <2> QED  BY <2>1, <2>2, <2>3
  <1> QED  BY <1>1, <1>6 DEF Ordered

LEMMA OrderedTail ==
    ASSUME NEW N \in Nat, NEW s \in Seq(1..N), NEW ch \in Seq([chain : Chains, n : 1..N]),
           ch # << >>, NEW c, Ordered(s, ch, c)
    PROVE  Ordered(s, Tail(ch), c)
  <1>1. PICK new : new = Tail(ch)
    OBVIOUS
  <1>2. PICK L \in Nat : L = Len(ch) /\ DOMAIN ch = 1..L /\ L # 0
    OBVIOUS
  <1>3. DOMAIN new = 1..(L - 1) /\ \A k \in 1..(L - 1) : new[k] = ch[k + 1]
    BY <1>1, <1>2
  <1>4. ASSUME NEW k \in DOMAIN new, new[k].chain = c
        PROVE  /\ \A i \in DOMAIN s : s[i] < new[k].n
               /\ \A l \in DOMAIN new : new[l].chain = c /\ l < k => new[l].n < new[k].n
    <2>1. k + 1 \in DOMAIN ch /\ new[k] = ch[k + 1]
      BY <1>2, <1>3
    <2>2. \A l \in DOMAIN new : l + 1 \in DOMAIN ch /\ new[l] = ch[l + 1] /\ (l < k => l + 1 < k + 1)
      BY <1>2, <1>3
    <2> QED  BY <1>4, <2>1, <2>2 DEF Ordered
  <1> QED  BY <1>1, <1>4 DEF Ordered

LEMMA OrderedReceive ==
    ASSUME NEW N \in Nat, NEW s \in Seq(1..N), NEW ch \in Seq([chain : Chains, n : 1..N]),
           ch # << >>, Ordered(s, ch, Head(ch).chain)
    PROVE  Ordered(Append(s, Head(ch).n), Tail(ch), Head(ch).chain)
  <1>1. PICK new, c, n, t : new = Tail(ch) /\ c = Head(ch).chain /\ n = Head(ch).n
                            /\ t = Append(s, n)
    OBVIOUS
  <1>2. PICK L \in Nat : L = Len(ch) /\ DOMAIN ch = 1..L /\ L # 0
    OBVIOUS
  <1>3. DOMAIN new = 1..(L - 1) /\ \A k \in 1..(L - 1) : new[k] = ch[k + 1]
    BY <1>1, <1>2
  <1>4. 1 \in DOMAIN ch /\ ch[1].chain = c /\ ch[1].n = n /\ n \in 1..N
    <2>1. 1 \in DOMAIN ch /\ Head(ch) = ch[1]
      BY <1>2
    <2>2. ch[1] \in [chain : Chains, n : 1..N]
      <3>1. 1 \in 1..Len(ch)
        BY <1>2
      <3> QED  BY <3>1, ElementOfSeq
    <2> QED  BY <1>1, <2>1, <2>2
  <1>5. PICK M \in Nat : M = Len(s) /\ DOMAIN s = 1..M
    OBVIOUS
  <1>6. DOMAIN t = 1..(M + 1) /\ (\A i \in 1..M : t[i] = s[i]) /\ t[M + 1] = n
    BY <1>1, <1>4, <1>5
  <1>7. \A i \in 1..M : s[i] < n
    BY <1>1, <1>4, <1>5 DEF Ordered
  <1>8. Ascending(t)
    <2>1. ASSUME NEW i \in DOMAIN t, NEW j \in DOMAIN t, i < j PROVE t[i] < t[j]
      <3>1. i \in 1..M
        BY <1>6, <2>1
      <3>2. CASE j = M + 1
        BY <1>6, <1>7, <3>1, <3>2
      <3>3. CASE j \in 1..M
        BY <1>1, <1>5, <1>6, <2>1, <3>1, <3>3 DEF Ordered, Ascending
      <3> QED  BY <1>6, <3>2, <3>3
    <2> QED  BY <2>1 DEF Ascending
  <1>9. ASSUME NEW k \in DOMAIN new, new[k].chain = c
        PROVE  \A i \in DOMAIN t : t[i] < new[k].n
    <2>1. k + 1 \in DOMAIN ch /\ new[k] = ch[k + 1] /\ 1 < k + 1
      BY <1>2, <1>3
    <2>2. n < new[k].n
      BY <1>1, <1>4, <1>9, <2>1 DEF Ordered
    <2>3. \A i \in 1..M : s[i] < new[k].n
      BY <1>1, <1>5, <1>9, <2>1 DEF Ordered
    <2>4. \A i \in DOMAIN t : i = M + 1 \/ i \in 1..M
      BY <1>6
    <2> QED  BY <1>6, <2>2, <2>3, <2>4
  <1>10. Ordered(s, new, c)
    BY <1>1, OrderedTail
  <1> QED  BY <1>1, <1>8, <1>9, <1>10 DEF Ordered

LEMMA OrderedPrefix ==
    ASSUME NEW N \in Nat, NEW s \in Seq(1..N), NEW t \in Seq(1..N), NEW ch, NEW c,
           Ordered(s \o t, ch, c)
    PROVE  Ordered(s, ch, c)
  <1>1. PICK a : a = s \o t
    OBVIOUS
  <1>2. \A i \in DOMAIN s : i \in DOMAIN a /\ a[i] = s[i]
    BY <1>1
  <1> QED  BY <1>1, <1>2 DEF Ordered, Ascending

LEMMA InOrderIs ==
    InOrder <=> \A c \in Chains : Ordered(rows[c] \o buffers[c], rawWriteCh, c)
  BY DEF InOrder, Ordered

\* What the rest of the pipeline does to the writer's state.
WriterNext ==
    \/ \E c \in Chains : Offer(c)
    \/ UNCHANGED writerState /\ (UNCHANGED faults \/ \E kind \in FaultKinds : Fault(kind))
    \/ runRawEventBatchWriter \/ Cancel

LEMMA FaultTypes ==
    ASSUME WriterTypeOK, NEW kind, Fault(kind)
    PROVE  /\ faults' \in [count : 0..MaxFaults, kinds : SUBSET FaultKinds]
           /\ faults.kinds \subseteq faults'.kinds
  <1>1. PICK k \in 0..MaxFaults, K \in SUBSET FaultKinds : faults = [count |-> k, kinds |-> K]
    BY DEF WriterTypeOK
  <1>2. k < MaxFaults /\ kind \in FaultKinds
        /\ faults' = [count |-> k + 1, kinds |-> K \cup {kind}]
    BY <1>1 DEF Fault
  <1>3. k + 1 \in 0..MaxFaults
    BY <1>1, <1>2, SizeAssumption
  <1> QED  BY <1>1, <1>2, <1>3

\* One flush: of items of chain c, with the buffer emptied.
LEMMA FlushTypes ==
    ASSUME WriterTypeOK, NEW c \in Chains, NEW items \in Seq(1..sent),
           FlushItems(c, items), buffers' = Emptied(c)
    PROVE  /\ rows' \in [Chains -> Seq(1..sent)] /\ buffers' \in [Chains -> Seq(1..sent)]
           /\ \A d \in Chains : Len(buffers'[d]) < maxBatch
           /\ faults' \in [count : 0..MaxFaults, kinds : SUBSET FaultKinds]
  <1>1. rows' \in [Chains -> Seq(1..sent)]
    <2>1. PICK R : R = Seq(1..sent)
      OBVIOUS
    <2>2. rows \in [Chains -> R] /\ rows[c] \o items \in R
      BY <2>1, ConcatProperties DEF WriterTypeOK
    <2> QED  BY <2>1, <2>2 DEF FlushItems
  <1>2. buffers' \in [Chains -> Seq(1..sent)]
    BY DEF WriterTypeOK, Emptied
  <1>3. \A d \in Chains : Len(buffers'[d]) < maxBatch
    <2>1. \A d \in Chains : buffers'[d] = IF d = c THEN << >> ELSE buffers[d]
      BY DEF WriterTypeOK, Emptied
    <2>2. Len(<< >>) < maxBatch
      BY SizeAssumption
    <2> QED  BY <2>1, <2>2 DEF WriterTypeOK
  <1>4. faults' \in [count : 0..MaxFaults, kinds : SUBSET FaultKinds]
    <2>1. CASE UNCHANGED faults
      BY <2>1 DEF WriterTypeOK
    <2>2. CASE Fault("insert")
      BY <2>2, FaultTypes
    <2> QED  BY <2>1, <2>2 DEF FlushItems
  <1> QED  BY <1>1, <1>2, <1>3, <1>4

LEMMA WriterTypes ==
    ASSUME WriterTypeOK, WriterNext
    PROVE  WriterTypeOK'
  <1> USE DEF WriterTypeOK
  <1>1. CASE \E c \in Chains : Offer(c)
    <2>1. PICK c \in Chains : Offer(c)
      BY <1>1
    <2>2. CASE Len(rawWriteCh) < Cap
      <3>1. sent' = sent + 1 /\ rawWriteCh' = Append(rawWriteCh, [chain |-> c, n |-> sent + 1])
        BY <2>1, <2>2 DEF Offer
      <3>2. PICK N \in Nat : N = sent
        OBVIOUS
      <3>3. 1..N \subseteq 1..(N + 1) /\ N + 1 \in 1..(N + 1) /\ N + 1 \in Nat
        OBVIOUS
      <3>4. \A s : s \in Seq(1..N) => s \in Seq(1..(N + 1))
        BY <3>3, SeqMonotonic
      <3>5. buffers \in [Chains -> Seq(1..(N + 1))] /\ rows \in [Chains -> Seq(1..(N + 1))]
        BY <3>2, <3>4
      <3>6. [chain : Chains, n : 1..N] \subseteq [chain : Chains, n : 1..(N + 1)]
        BY <3>3
      <3>7. rawWriteCh \in Seq([chain : Chains, n : 1..(N + 1)])
        BY <3>2, <3>6, SeqMonotonic
      <3>8. [chain |-> c, n |-> N + 1] \in [chain : Chains, n : 1..(N + 1)]
        BY <3>3
      <3>9. rawWriteCh' \in Seq([chain : Chains, n : 1..(N + 1)]) /\ Len(rawWriteCh') <= Cap
        BY <2>2, <3>1, <3>2, <3>7, <3>8, AppendProperties, SizeAssumption
      <3> QED  BY <2>1, <3>1, <3>2, <3>3, <3>5, <3>9 DEF Offer
    <2>3. CASE ~ (Len(rawWriteCh) < Cap)
      BY <2>1, <2>3 DEF Offer
    <2> QED  BY <2>2, <2>3
  <1>2. CASE UNCHANGED writerState /\ (UNCHANGED faults \/ \E kind \in FaultKinds : Fault(kind))
    <2>1. faults' \in [count : 0..MaxFaults, kinds : SUBSET FaultKinds]
      BY <1>2, FaultTypes
    <2> QED  BY <1>2, <2>1 DEF writerState
  <1>3. CASE Receive
    <2>1. PICK N \in Nat : N = sent
      OBVIOUS
    <2>2. PICK head \in [chain : Chains, n : 1..N] : head = Head(rawWriteCh)
      BY <1>3, <2>1, HeadTailProperties DEF Receive
    <2>3. PICK c \in Chains, n \in 1..N : c = head.chain /\ n = head.n
      BY <2>2
    <2>4. rawWriteCh' \in Seq([chain : Chains, n : 1..N]) /\ Len(rawWriteCh') <= Cap
      <3>1. rawWriteCh' = Tail(rawWriteCh) /\ rawWriteCh # << >>
        BY <1>3 DEF Receive
      <3>2. Tail(rawWriteCh) \in Seq([chain : Chains, n : 1..N])
            /\ Len(Tail(rawWriteCh)) = Len(rawWriteCh) - 1
        BY <2>1, <3>1, HeadTailProperties
      <3> QED  BY <3>1, <3>2, SizeAssumption
    <2>5. PICK items \in Seq(1..N) : items = Append(buffers[c], n)
      <3>1. buffers[c] \in Seq(1..N)
        BY <2>1
      <3> QED  BY <3>1, AppendProperties
    <2>6. CASE Full(items)
      <3>1. FlushItems(c, items) /\ buffers' = Emptied(c)
        BY <1>3, <2>2, <2>3, <2>5, <2>6 DEF Receive
      <3> QED  BY <1>3, <2>1, <2>4, <2>5, <3>1, FlushTypes DEF Receive
    <2>7. CASE ~ Full(items)
      <3>1. buffers' = [buffers EXCEPT ![c] = items] /\ UNCHANGED << rows, faults >>
        BY <1>3, <2>2, <2>3, <2>5, <2>7 DEF Receive
      <3>2. Len(items) < maxBatch
        BY <2>5, <2>7, SizeAssumption DEF Full
      <3>3. buffers' \in [Chains -> Seq(1..N)] /\ \A d \in Chains : Len(buffers'[d]) < maxBatch
        BY <2>1, <3>1, <3>2
      <3> QED  BY <1>3, <2>1, <2>4, <3>1, <3>3 DEF Receive
    <2> QED  BY <2>6, <2>7
  <1>4. CASE Tick
    BY <1>4 DEF Tick, ToFlush
  <1>5. CASE \E c \in Chains : flush(c)
    <2>1. PICK c \in Chains : flush(c)
      BY <1>5
    <2>2. PICK items \in Seq(1..sent) : items = buffers[c]
      OBVIOUS
    <2> QED  BY <2>1, <2>2, FlushTypes DEF flush
  <1>6. CASE Done
    BY <1>6 DEF Done, ToFlush
  <1>7. CASE Return
    BY <1>7 DEF Return
  <1>8. CASE Cancel
    <2>1. faults' \in [count : 0..MaxFaults, kinds : SUBSET FaultKinds]
      BY <1>8, FaultTypes DEF Cancel
    <2> QED  BY <1>8, <2>1 DEF Cancel
  <1> QED  BY <1>1, <1>2, <1>3, <1>4, <1>5, <1>6, <1>7, <1>8 DEF WriterNext, runRawEventBatchWriter

\* One flush leaves of a chain's table and buffer what was there, or a prefix.
LEMMA FlushOrder ==
    ASSUME WriterTypeOK, NEW c \in Chains, NEW items \in Seq(1..sent), NEW ch,
           FlushItems(c, items), buffers' = Emptied(c),
           Ordered(rows[c] \o items, ch, c)
    PROVE  /\ Ordered(rows'[c] \o buffers'[c], ch, c)
           /\ \A d \in Chains \ {c} : rows'[d] = rows[d] /\ buffers'[d] = buffers[d]
  <1>1. buffers'[c] = << >> /\ \A d \in Chains \ {c} : buffers'[d] = buffers[d]
    BY DEF WriterTypeOK, Emptied
  <1>2. CASE rows' = [rows EXCEPT ![c] = @ \o items]
    <2>1. rows'[c] = rows[c] \o items /\ \A d \in Chains \ {c} : rows'[d] = rows[d]
      BY <1>2 DEF WriterTypeOK
    <2>2. PICK s : s = rows[c] \o items
      OBVIOUS
    <2>3. s \in Seq(1..sent)
      BY <2>2 DEF WriterTypeOK
    <2>4. s \o << >> = s
      BY <2>3, ConcatEmptySeq
    <2> QED  BY <1>1, <2>1, <2>2, <2>4
  <1>3. CASE UNCHANGED rows
    <2>0. PICK N \in Nat : N = sent
      BY DEF WriterTypeOK
    <2>1. PICK s \in Seq(1..N) : s = rows[c]
      BY <2>0 DEF WriterTypeOK
    <2>2. Ordered(s, ch, c)
      BY <2>0, <2>1, OrderedPrefix
    <2>3. s \o << >> = s
      BY ConcatEmptySeq
    <2>4. rows'[c] \o buffers'[c] = s
      BY <1>1, <1>3, <2>1, <2>3
    <2> QED  BY <1>1, <1>3, <2>2, <2>4
  <1> QED  BY <1>2, <1>3 DEF FlushItems

AppendsInside(a, b, x) == Append(a \o b, x) = a \o Append(b, x)

LEMMA AppendConcat ==
    ASSUME NEW S, NEW a \in Seq(S), NEW b \in Seq(S), NEW x \in S
    PROVE  AppendsInside(a, b, x)
  BY DEF AppendsInside

LEMMA OrderStep ==
    ASSUME WriterTypeOK, WriterNext, NEW c \in Chains,
           \A d \in Chains : Ordered(rows[d] \o buffers[d], rawWriteCh, d)
    PROVE  Ordered(rows'[c] \o buffers'[c], rawWriteCh', c)
  <1>1. PICK N \in Nat : N = sent
    BY DEF WriterTypeOK
  <1>2. PICK s \in Seq(1..N) : s = rows[c] \o buffers[c]
    <2>1. rows[c] \in Seq(1..N) /\ buffers[c] \in Seq(1..N)
      BY <1>1 DEF WriterTypeOK
    <2> QED  BY <2>1, ConcatProperties
  <1>3. PICK ch \in Seq([chain : Chains, n : 1..N]) : ch = rawWriteCh
    BY <1>1 DEF WriterTypeOK
  <1>4. Ordered(s, ch, c)
    BY <1>2, <1>3
  <1>5. CASE UNCHANGED << rows, buffers, rawWriteCh >>
    BY <1>5
  <1>6. CASE \E d \in Chains : Offer(d)
    <2>1. PICK d \in Chains : Offer(d)
      BY <1>6
    <2>2. CASE Len(rawWriteCh) < Cap
      <3>1. rawWriteCh' = Append(ch, [chain |-> d, n |-> N + 1]) /\ UNCHANGED << rows, buffers >>
        BY <1>1, <1>3, <2>1, <2>2 DEF Offer
      <3>2. Ordered(s, Append(ch, [chain |-> d, n |-> N + 1]), c)
        BY <1>4, OrderedOffer
      <3> QED  BY <1>2, <3>1, <3>2
    <2>3. CASE ~ (Len(rawWriteCh) < Cap)
      BY <1>5, <2>1, <2>3 DEF Offer
    <2> QED  BY <2>2, <2>3
  <1>7. CASE Receive
    <2>1. ch # << >> /\ rawWriteCh' = Tail(ch)
      BY <1>3, <1>7 DEF Receive
    <2>2. PICK head \in [chain : Chains, n : 1..N] : head = Head(ch)
      BY <2>1, HeadTailProperties
    <2>3. PICK d \in Chains, n \in 1..N : d = head.chain /\ n = head.n
      BY <2>2
    <2>4. Ordered(s, Tail(ch), c)
      BY <1>4, <2>1, OrderedTail
    <2>5. PICK items \in Seq(1..N) : items = Append(buffers[d], n)
      <3>1. buffers[d] \in Seq(1..N)
        BY <1>1 DEF WriterTypeOK
      <3> QED  BY <3>1, AppendProperties
    <2>6. Ordered(rows[d] \o items, Tail(ch), d)
      <3>1. PICK a \in Seq(1..N), b \in Seq(1..N) : a = rows[d] /\ b = buffers[d]
        BY <1>1 DEF WriterTypeOK
      <3>2. a \o b \in Seq(1..N) /\ Ordered(a \o b, ch, d)
        BY <1>3, <3>1
      <3>3. Ordered(Append(a \o b, n), Tail(ch), d)
        BY <2>1, <2>2, <2>3, <3>2, OrderedReceive
      <3>4. Append(a \o b, n) = a \o Append(b, n)
        <4>1. PICK S : S = 1..N
          OBVIOUS
        <4>2. a \in Seq(S) /\ b \in Seq(S) /\ n \in S
          BY <2>3, <3>1, <4>1
        <4>3. AppendsInside(a, b, n)
          BY <4>2, AppendConcat
        <4> QED  BY <4>3 DEF AppendsInside
      <3> QED  BY <2>5, <3>1, <3>3, <3>4
    <2>7. CASE Full(items)
      <3>1. FlushItems(d, items) /\ buffers' = Emptied(d)
        BY <1>3, <1>7, <2>2, <2>3, <2>5, <2>7 DEF Receive
      <3>2. /\ Ordered(rows'[d] \o buffers'[d], Tail(ch), d)
            /\ \A e \in Chains \ {d} : rows'[e] = rows[e] /\ buffers'[e] = buffers[e]
        BY <1>1, <2>5, <2>6, <3>1, FlushOrder
      <3> QED  BY <1>2, <2>1, <2>4, <3>2
    <2>8. CASE ~ Full(items)
      <3>1. buffers' = [buffers EXCEPT ![d] = items] /\ UNCHANGED rows
        BY <1>3, <1>7, <2>2, <2>3, <2>5, <2>8 DEF Receive
      <3>2. buffers'[d] = items /\ \A e \in Chains \ {d} : buffers'[e] = buffers[e]
        BY <3>1 DEF WriterTypeOK
      <3> QED  BY <1>2, <2>1, <2>4, <2>6, <3>1, <3>2
    <2> QED  BY <2>7, <2>8
  <1>8. CASE \E d \in Chains : flush(d)
    <2>1. PICK d \in Chains : flush(d)
      BY <1>8
    <2>2. PICK items \in Seq(1..sent) : items = buffers[d]
      BY DEF WriterTypeOK
    <2>3. FlushItems(d, items) /\ buffers' = Emptied(d) /\ rawWriteCh' = ch
      BY <1>3, <2>1, <2>2 DEF flush
    <2>4. Ordered(rows[d] \o items, ch, d)
      BY <1>3, <2>2
    <2>5. /\ Ordered(rows'[d] \o buffers'[d], ch, d)
          /\ \A e \in Chains \ {d} : rows'[e] = rows[e] /\ buffers'[e] = buffers[e]
      BY <2>2, <2>3, <2>4, FlushOrder
    <2> QED  BY <1>2, <1>4, <2>3, <2>5
  <1>9. CASE \/ UNCHANGED writerState
             \/ Tick \/ Done \/ Return \/ Cancel
    BY <1>5, <1>9 DEF writerState, Tick, Done, Return, Cancel
  <1> QED  BY <1>6, <1>7, <1>8, <1>9 DEF WriterNext, runRawEventBatchWriter

-----------------------------------------------------------------------------
(* The types *)

Active == {"event", "query", "publish"}

Raws == UNION {Range(input[c]) : c \in Chains}

TaskRecord(R, E, A) == [pc : Active, raw : R, events : Seq(E), steady : SUBSET A]

TaskSet(R, E, A) == TaskRecord(R, E, A) \cup {Idle, [pc |-> "ended"]}

TaskTypeOK ==
    /\ task \in [Workers -> TaskSet(Raws, Events, Addresses)]
    /\ \A w \in Workers : task[w].pc \in {"query", "publish"} => task[w].events # << >>

TypeInv ==
    /\ WriterTypeOK
    /\ input \in Inputs /\ taken \in [Chains -> Nat] /\ \A c \in Chains : taken[c] <= Len(input[c])
    /\ TaskTypeOK
    /\ watched \subseteq Addresses /\ edits \in 0..MaxEdits /\ bf \subseteq Addresses
    /\ published \subseteq Events

LEMMA ActiveIs ==
    ASSUME NEW R, NEW E, NEW A, NEW t \in TaskSet(R, E, A)
    PROVE  /\ t.pc \in Active => t \in TaskRecord(R, E, A)
           /\ t.pc = "idle" => t = Idle
           /\ t.pc \in {"idle", "event", "query", "publish", "ended"}
  <1>1. CASE t \in TaskRecord(R, E, A)
    <2>1. t.pc \in Active
      BY <1>1 DEF TaskRecord
    <2> QED  BY <1>1, <2>1 DEF Active
  <1>2. CASE t = Idle
    BY <1>2 DEF Idle, Active
  <1>3. CASE t = [pc |-> "ended"]
    BY <1>3 DEF Active
  <1> QED  BY <1>1, <1>2, <1>3 DEF TaskSet

\* What is read of the input is a raw event with the shape the parsers need.
LEMMA InputFacts ==
    ASSUME input \in Inputs, NEW c \in Chains, NEW k \in 1..Len(input[c])
    PROVE  /\ Len(input[c]) \in Nat
           /\ input[c][k] \in Raws /\ RawEvent(input[c][k])
           /\ Range(Parse(input[c][k])) \subseteq Events
  <1>1. PICK s : s = input[c]
    OBVIOUS
  <1>2. s \in Seq(Range(s)) /\ \A raw \in Range(s) : RawEvent(raw)
    BY <1>1, PipelineAssumption
  <1>3. PICK raw : raw = s[k]
    OBVIOUS
  <1>4. raw \in Range(s)
    BY <1>1, <1>2, <1>3, ElementOfSeq
  <1>5. raw \in Raws
    BY <1>1, <1>4, Zenon DEF Raws
  <1>6. Range(Parse(raw)) \subseteq Events
    <2>1. ASSUME NEW e \in Range(Parse(raw)) PROVE e \in Events
      <3>1. PICK D : D = UNION {Range(Parse(r)) : r \in Range(input[c])}
        OBVIOUS
      <3>2. e \in D
        BY <1>1, <1>4, <3>1, Zenon
      <3>3. D \in {UNION {Range(Parse(r)) : r \in Range(input[d])} : d \in Chains}
        BY <3>1, Zenon
      <3> QED  BY <3>2, <3>3, Zenon DEF Events
    <2> QED  BY <2>1
  <1>7. Len(s) \in Nat
    BY <1>2
  <1> QED  BY <1>1, <1>2, <1>3, <1>4, <1>5, <1>6, <1>7

LEMMA InputStays ==
    ASSUME UNCHANGED input
    PROVE  /\ Workers' = Workers /\ Addresses' = Addresses /\ Events' = Events /\ Raws' = Raws
  BY DEF Workers, Enabled, Addresses, Events, Raws

LEMMA WorkerChain ==
    ASSUME NEW w \in Workers
    PROVE  w[1] \in Chains
  BY DEF Workers, Enabled

LEMMA InitTypes == Init => TypeInv
  <1> SUFFICES ASSUME Init PROVE TypeInv
    OBVIOUS
  <1> USE DEF Init
  <1>1. WriterTypeOK
    <2>1. << >> \in Seq([chain : Chains, n : 1..0]) /\ << >> \in Seq(1..0)
      OBVIOUS
    <2>2. Len(<< >>) <= Cap /\ Len(<< >>) < maxBatch /\ 0 \in 0..MaxFaults /\ 0 \in Nat
      BY SizeAssumption
    <2>3. Nothing \in [Chains -> Seq(1..0)] /\ \A c \in Chains : Nothing[c] = << >>
      BY <2>1 DEF Nothing
    <2>4. faults \in [count : 0..MaxFaults, kinds : SUBSET FaultKinds]
      BY <2>2 DEF WriterInit
    <2> QED  BY <2>1, <2>2, <2>3, <2>4 DEF WriterInit, WriterTypeOK
  <1>2. \A c \in Chains : taken[c] <= Len(input[c])
    <2>1. ASSUME NEW c \in Chains PROVE 0 <= Len(input[c])
      <3>1. input[c] \in Seq(Range(input[c]))
        BY PipelineAssumption
      <3> QED  BY <3>1
    <2> QED  BY <2>1
  <1>3. TaskTypeOK
    <2>1. \A w \in Workers : task[w] = Idle /\ Idle.pc = "idle"
      BY DEF Idle
    <2>2. task \in [Workers -> TaskSet(Raws, Events, Addresses)]
      BY DEF TaskSet
    <2> QED  BY <2>1, <2>2 DEF TaskTypeOK
  <1>4. 0 \in 0..MaxEdits
    BY PipelineAssumption
  <1> QED  BY <1>1, <1>2, <1>3, <1>4 DEF TypeInv

LEMMA WriterFrame ==
    ASSUME TypeInv, Next
    PROVE  WriterNext /\ UNCHANGED input
  <1> USE DEF WriterNext, writerVars, writerState
  <1>1. CASE \E w \in Workers : Take(w) \/ Quit(w) \/ Filter(w) \/ Finish(w)
    BY <1>1 DEF Take, Quit, Filter, Finish
  <1>2. CASE \E w \in Workers : IsWatched(w)
    BY <1>2 DEF IsWatched, Fault
  <1>3. CASE \E w \in Workers : Publish(w)
    <2>1. PICK w \in Workers : Publish(w)
      BY <1>3
    <2>2. w[1] \in Chains
      BY WorkerChain
    <2> QED  BY <2>1, <2>2 DEF Publish, Fault
  <1>4. CASE \E a \in Addresses : Create(a) \/ Delete(a) \/ AddToBF(a)
    BY <1>4 DEF Create, Delete, AddToBF
  <1>5. CASE (runRawEventBatchWriter \/ Cancel) /\ UNCHANGED others
    BY <1>5 DEF others
  <1> QED  BY <1>1, <1>2, <1>3, <1>4, <1>5 DEF Next, handleRawEvent

\* The task after Continue.
Continued(t) == [t EXCEPT !.pc = "event", !.events = Tail(@)]

\* ... and after the address a has been deleted.
Unsteady(t, a) == [t EXCEPT !.steady = @ \ {a}]

LEMMA ContinuedIs ==
    ASSUME NEW p, NEW raw, NEW events, NEW steady
    PROVE  Continued([pc |-> p, raw |-> raw, events |-> events, steady |-> steady]) =
              [pc |-> "event", raw |-> raw, events |-> Tail(events), steady |-> steady]
  <1>1. PICK t : t = [pc |-> p, raw |-> raw, events |-> events, steady |-> steady]
    OBVIOUS
  <1>2. PICK r : r = [t EXCEPT !.pc = "event", !.events = Tail(@)]
    OBVIOUS
  <1>3. PICK s : s = Tail(events)
    OBVIOUS
  <1>4. DOMAIN r = {"pc", "raw", "events", "steady"}
    BY <1>1, <1>2
  <1>5. r.pc = "event" /\ r.raw = raw /\ r.steady = steady
    BY <1>1, <1>2
  <1>6. r.events = s
    BY <1>1, <1>2, <1>3
  <1>7. r = [y \in {"pc", "raw", "events", "steady"} |-> r[y]]
    BY <1>1, <1>2
  <1>8. r = [pc |-> "event", raw |-> raw, events |-> s, steady |-> steady]
    BY <1>4, <1>5, <1>6, <1>7
  <1> QED  BY <1>1, <1>2, <1>3, <1>8 DEF Continued

LEMMA UnsteadyIs ==
    ASSUME NEW p, NEW raw, NEW events, NEW steady, NEW a
    PROVE  Unsteady([pc |-> p, raw |-> raw, events |-> events, steady |-> steady], a) =
              [pc |-> p, raw |-> raw, events |-> events, steady |-> steady \ {a}]
  BY DEF Unsteady

\* What a step does to the task of one worker.
LEMMA TaskRecords ==
    ASSUME NEW R, NEW E, NEW A, NEW t \in TaskRecord(R, E, A)
    PROVE  /\ \A p \in Active : [t EXCEPT !.pc = p] \in TaskRecord(R, E, A)
           /\ t.events # << >> =>
                /\ Continued(t) \in TaskRecord(R, E, A)
                /\ Head(t.events) \in E
           /\ \A a : Unsteady(t, a) \in TaskRecord(R, E, A)
  <1>1. PICK p \in Active, raw \in R, events \in Seq(E), steady \in SUBSET A :
           t = [pc |-> p, raw |-> raw, events |-> events, steady |-> steady]
    BY DEF TaskRecord
  <1>2. \A q \in Active : [t EXCEPT !.pc = q] \in TaskRecord(R, E, A)
    BY <1>1 DEF TaskRecord
  <1>3. ASSUME events # << >>
        PROVE  /\ Continued(t) \in TaskRecord(R, E, A)
               /\ Head(events) \in E
    <2>1. PICK s \in Seq(E) : s = Tail(events)
      BY <1>1, <1>3, HeadTailProperties
    <2>2. Continued(t) = [pc |-> "event", raw |-> raw, events |-> s, steady |-> steady]
      <3>1. t = [pc |-> p, raw |-> raw, events |-> events, steady |-> steady]
        BY <1>1
      <3> QED  BY <2>1, <3>1, ContinuedIs
    <2>3. Head(events) \in E
      BY <1>1, <1>3, HeadTailProperties
    <2>4. raw \in R /\ steady \in SUBSET A
      BY <1>1
    <2> QED  BY <2>1, <2>2, <2>3, <2>4 DEF TaskRecord, Active
  <1>4. ASSUME NEW a PROVE Unsteady(t, a) \in TaskRecord(R, E, A)
    <2>1. steady \ {a} \in SUBSET A
      BY <1>1
    <2>2. Unsteady(t, a) =
             [pc |-> p, raw |-> raw, events |-> events, steady |-> steady \ {a}]
      <3>1. t = [pc |-> p, raw |-> raw, events |-> events, steady |-> steady]
        BY <1>1
      <3> QED  BY <3>1, UnsteadyIs
    <2> QED  BY <1>1, <2>1, <2>2 DEF TaskRecord
  <1>5. t.events = events
    BY <1>1
  <1> QED  BY <1>2, <1>3, <1>4, <1>5

LEMMA TaskStep ==
    ASSUME TypeInv, Next
    PROVE  TaskTypeOK'
  <1>1. UNCHANGED input
    BY WriterFrame
  <1>2. PICK R, E, A, W : R = Raws /\ E = Events /\ A = Addresses /\ W = Workers
    OBVIOUS
  <1>3. Raws' = R /\ Events' = E /\ Addresses' = A /\ Workers' = W
    BY <1>1, <1>2, InputStays
  <1>4. /\ task \in [W -> TaskSet(R, E, A)]
        /\ \A w \in W : task[w].pc \in {"query", "publish"} => task[w].events # << >>
    BY <1>2 DEF TypeInv, TaskTypeOK
  <1> SUFFICES /\ task' \in [W -> TaskSet(R, E, A)]
               /\ \A w \in W : task'[w].pc \in {"query", "publish"} => task'[w].events # << >>
    BY <1>3 DEF TaskTypeOK
  \* one task becomes t
  <1>5. ASSUME NEW w \in W, NEW t \in TaskSet(R, E, A), task' = [task EXCEPT ![w] = t],
               t.pc \in {"query", "publish"} => t.events # << >>
        PROVE  /\ task' \in [W -> TaskSet(R, E, A)]
               /\ \A v \in W : task'[v].pc \in {"query", "publish"} => task'[v].events # << >>
    <2>1. task' \in [W -> TaskSet(R, E, A)]
      BY <1>4, <1>5
    <2>2. \A v \in W : task'[v] = IF v = w THEN t ELSE task[v]
      BY <1>4, <1>5
    <2> QED  BY <1>4, <1>5, <2>1, <2>2
  \* the iteration of the loop ends
  <1>6. ASSUME NEW w \in W, task[w].pc \in Active, task[w].events # << >>, Continue(w)
        PROVE  /\ task' \in [W -> TaskSet(R, E, A)]
               /\ \A v \in W : task'[v].pc \in {"query", "publish"} => task'[v].events # << >>
    <2>1. PICK t : t = Continued(task[w])
      OBVIOUS
    <2>2. task[w] \in TaskRecord(R, E, A)
      BY <1>4, <1>6, ActiveIs
    <2>3. t \in TaskRecord(R, E, A) /\ t.pc = "event"
      <3>1. t \in TaskRecord(R, E, A)
        BY <1>6, <2>1, <2>2, TaskRecords
      <3>2. "pc" \in DOMAIN task[w]
        BY <2>2 DEF TaskRecord
      <3> QED  BY <2>1, <3>1, <3>2 DEF Continued
    <2>4. task' = [task EXCEPT ![w] = t]
      BY <1>6, <2>1 DEF Continue, Continued
    <2> QED  BY <1>5, <2>3, <2>4 DEF TaskSet
  \* the task goes on to another point
  <1>7. ASSUME NEW w \in W, task[w].pc \in Active, task[w].events # << >>, NEW p \in Active,
               task' = [task EXCEPT ![w].pc = p]
        PROVE  /\ task' \in [W -> TaskSet(R, E, A)]
               /\ \A v \in W : task'[v].pc \in {"query", "publish"} => task'[v].events # << >>
    <2>1. PICK t : t = [task[w] EXCEPT !.pc = p]
      OBVIOUS
    <2>2. task[w] \in TaskRecord(R, E, A)
      BY <1>4, <1>7, ActiveIs
    <2>3. t \in TaskRecord(R, E, A)
      BY <2>1, <2>2, TaskRecords
    <2>4. t.events = task[w].events
      BY <2>1
    <2>5. task' = [task EXCEPT ![w] = t]
      BY <1>7, <2>1
    <2> QED  BY <1>5, <1>7, <2>3, <2>4, <2>5 DEF TaskSet
  <1>8. CASE \E w \in Workers : Take(w)
    <2>1. PICK w \in W : Take(w)
      BY <1>2, <1>8
    <2>2. PICK c \in Chains : c = w[1]
      BY <1>2, WorkerChain
    <2>3. PICK k : k = taken[c] + 1
      OBVIOUS
    <2>4. k \in 1..Len(input[c]) /\ input \in Inputs
      <3>1. taken[c] \in Nat /\ taken[c] < Len(input[c]) /\ input \in Inputs
        BY <2>1, <2>2 DEF TypeInv, Take
      <3>2. input[c] \in Seq(Range(input[c]))
        BY <3>1, PipelineAssumption
      <3>3. Len(input[c]) \in Nat
        BY <3>2
      <3> QED  BY <2>3, <3>1, <3>3
    <2>5. PICK raw : raw = input[c][k]
      OBVIOUS
    <2>6. raw \in R /\ RawEvent(raw) /\ Range(Parse(raw)) \subseteq E
      BY <1>2, <2>4, <2>5, InputFacts
    <2>7. Parse(raw) \in Seq(E)
      <3>1. Parse(raw) \in Seq(Range(Parse(raw)))
        BY <2>6, ParseFacts DEF Faithful
      <3> QED  BY <2>6, <3>1, SeqMonotonic
    <2>8. PICK steady \in SUBSET A : steady = watched \cap bf
      BY <1>2 DEF TypeInv
    <2>9. PICK t : t = [pc |-> "event", raw |-> raw, events |-> Parse(raw), steady |-> steady]
      OBVIOUS
    <2>10. t \in TaskRecord(R, E, A) /\ t.pc = "event"
      BY <2>6, <2>7, <2>8, <2>9 DEF TaskRecord, Active
    <2>11. task' = [task EXCEPT ![w] = t]
      BY <2>1, <2>2, <2>3, <2>5, <2>8, <2>9 DEF Take
    <2> QED  BY <1>5, <2>10, <2>11 DEF TaskSet
  <1>9. CASE \E w \in Workers : Quit(w)
    <2>1. PICK w \in W : Quit(w)
      BY <1>2, <1>9
    <2>2. task[w] = Idle
      BY <1>4, <2>1, ActiveIs DEF Quit
    <2>3. [task[w] EXCEPT !.pc = "ended"] = [pc |-> "ended"]
      BY <2>2 DEF Idle
    <2>4. task' = [task EXCEPT ![w] = [pc |-> "ended"]]
      BY <2>1, <2>3 DEF Quit
    <2> QED  BY <1>5, <2>4 DEF TaskSet
  <1>10. CASE \E w \in Workers : Filter(w)
    <2>1. PICK w \in W : Filter(w)
      BY <1>2, <1>10
    <2>2. task[w].pc \in Active /\ task[w].events # << >>
      BY <2>1 DEF Filter, Active
    <2> QED  BY <1>6, <1>7, <2>1, <2>2 DEF Filter, Active
  <1>11. CASE \E w \in Workers : IsWatched(w)
    <2>1. PICK w \in W : IsWatched(w)
      BY <1>2, <1>11
    <2>2. task[w].pc \in Active /\ task[w].events # << >>
      BY <1>4, <2>1 DEF IsWatched, Active
    <2> QED  BY <1>6, <1>7, <2>1, <2>2 DEF IsWatched, Active
  <1>12. CASE \E w \in Workers : Publish(w)
    <2>1. PICK w \in W : Publish(w)
      BY <1>2, <1>12
    <2>2. task[w].pc \in Active /\ task[w].events # << >>
      BY <1>4, <2>1 DEF Publish, Active
    <2> QED  BY <1>6, <2>1, <2>2 DEF Publish
  <1>13. CASE \E w \in Workers : Finish(w)
    <2>1. PICK w \in W : Finish(w)
      BY <1>2, <1>13
    <2>2. Idle.pc = "idle"
      BY DEF Idle
    <2> QED  BY <1>5, <2>1, <2>2 DEF Finish, TaskSet
  <1>14. CASE \E a \in Addresses : Delete(a)
    <2>1. PICK a : Delete(a)
      BY <1>14
    <2>2. task' = [w \in W |-> IF task[w].pc \in {"idle", "ended"} THEN task[w]
                                ELSE [task[w] EXCEPT !.steady = @ \ {a}]]
      BY <1>2, <2>1 DEF Delete
    <2>3. ASSUME NEW w \in W
          PROVE  /\ task'[w] \in TaskSet(R, E, A)
                 /\ task'[w].pc \in {"query", "publish"} => task'[w].events # << >>
      <3>1. CASE task[w].pc \in {"idle", "ended"}
        BY <1>4, <2>2, <3>1
      <3>2. CASE task[w].pc \notin {"idle", "ended"}
        <4>1. task[w] \in TaskRecord(R, E, A)
          BY <1>4, <3>2, ActiveIs DEF Active
        <4>2. PICK t : t = Unsteady(task[w], a)
          OBVIOUS
        <4>3. t \in TaskRecord(R, E, A) /\ t.pc = task[w].pc /\ t.events = task[w].events
          <5>1. t \in TaskRecord(R, E, A)
            BY <4>1, <4>2, TaskRecords
          <5>2. "pc" \in DOMAIN task[w] /\ "events" \in DOMAIN task[w]
            BY <4>1 DEF TaskRecord
          <5> QED  BY <4>2, <5>1, <5>2 DEF Unsteady
        <4>4. task'[w] = t
          BY <2>2, <3>2, <4>2 DEF Unsteady
        <4> QED  BY <1>4, <4>3, <4>4 DEF TaskSet
      <3> QED  BY <3>1, <3>2
    <2>4. task' \in [W -> TaskSet(R, E, A)]
      BY <2>2, <2>3
    <2> QED  BY <2>3, <2>4
  <1>15. CASE \/ \E a \in Addresses : Create(a) \/ AddToBF(a)
              \/ (runRawEventBatchWriter \/ Cancel) /\ UNCHANGED others
    <2>1. UNCHANGED task
      BY <1>15 DEF Create, AddToBF, others
    <2> QED  BY <1>4, <2>1
  <1> QED  BY <1>8, <1>9, <1>10, <1>11, <1>12, <1>13, <1>14, <1>15 DEF Next, handleRawEvent

LEMMA TypeStep ==
    ASSUME TypeInv, Next
    PROVE  TypeInv'
  <1>1. UNCHANGED input /\ WriterTypeOK'
    BY WriterFrame, WriterTypes DEF TypeInv
  <1>2. TaskTypeOK'
    BY TaskStep
  <1>3. PICK E, A : E = Events /\ A = Addresses
    OBVIOUS
  <1>4. Events' = E /\ Addresses' = A
    BY <1>1, <1>3, InputStays
  <1>5. /\ input' \in Inputs /\ taken' \in [Chains -> Nat]
        /\ \A c \in Chains : taken'[c] <= Len(input'[c])
    <2>1. CASE \E w \in Workers : Take(w)
      <3>1. PICK w \in Workers : Take(w)
        BY <2>1
      <3>2. PICK c \in Chains : c = w[1]
        BY WorkerChain
      <3>3. PICK n \in Nat : n = taken[c]
        BY DEF TypeInv
      <3>4. PICK L \in Nat : L = Len(input[c])
        <4>1. input[c] \in Seq(Range(input[c]))
          BY PipelineAssumption DEF TypeInv
        <4> QED  BY <4>1
      <3>5. n < L /\ n + 1 \in Nat /\ n + 1 <= L
        BY <3>1, <3>2, <3>3, <3>4 DEF Take
      <3>6. taken' = [taken EXCEPT ![c] = n + 1]
        BY <3>1, <3>2, <3>3 DEF Take
      <3>7. taken' \in [Chains -> Nat] /\ \A d \in Chains : taken'[d] = IF d = c THEN n + 1 ELSE taken[d]
        BY <3>5, <3>6 DEF TypeInv
      <3>8. ASSUME NEW d \in Chains PROVE taken'[d] <= Len(input[d])
        <4>1. CASE d = c
          BY <3>4, <3>5, <3>7, <4>1
        <4>2. CASE d # c
          BY <3>7, <4>2 DEF TypeInv
        <4> QED  BY <4>1, <4>2
      <3> QED  BY <1>1, <3>7, <3>8 DEF TypeInv
    <2>2. CASE ~ \E w \in Workers : Take(w)
      <3>1. UNCHANGED taken
        BY <2>2 DEF Next, handleRawEvent, Quit, Filter, IsWatched, Publish, Finish, Create, Delete,
                    AddToBF, others
      <3> QED  BY <1>1, <3>1 DEF TypeInv
    <2> QED  BY <2>1, <2>2
  <1>6. watched' \subseteq A /\ edits' \in 0..MaxEdits /\ bf' \subseteq A
    <2>1. CASE \E a \in Addresses : Create(a) \/ Delete(a)
      <3>1. PICK a \in A : Create(a) \/ Delete(a)
        BY <1>3, <2>1
      <3>2. watched' \subseteq A /\ bf' = bf
        BY <1>3, <3>1 DEF TypeInv, Create, Delete
      <3>3. edits \in 0..MaxEdits /\ edits < MaxEdits /\ edits' = edits + 1
        BY <3>1 DEF TypeInv, Create, Delete
      <3>4. edits' \in 0..MaxEdits
        BY <3>3, PipelineAssumption
      <3> QED  BY <1>3, <3>2, <3>4 DEF TypeInv
    <2>2. CASE \E a \in Addresses : AddToBF(a)
      BY <1>3, <2>2 DEF TypeInv, AddToBF
    <2>3. CASE ~ \E a \in Addresses : Create(a) \/ Delete(a) \/ AddToBF(a)
      <3>1. UNCHANGED << watched, edits, bf >>
        BY <2>3 DEF Next, handleRawEvent, Take, Quit, Filter, IsWatched, Publish, Finish, others
      <3> QED  BY <1>3, <3>1 DEF TypeInv
    <2> QED  BY <2>1, <2>2, <2>3
  <1>7. published' \subseteq E
    <2>1. CASE \E w \in Workers : Publish(w)
      <3>1. PICK w \in Workers : Publish(w)
        BY <2>1
      <3>2. PICK t : t = task[w]
        OBVIOUS
      <3>3. t \in TaskRecord(Raws, E, Addresses) /\ t.events # << >>
        BY <1>3, <3>1, <3>2, ActiveIs DEF TypeInv, TaskTypeOK, Publish, Active
      <3>4. Head(t.events) \in E
        BY <3>3, TaskRecords
      <3> QED  BY <1>3, <3>1, <3>2, <3>4 DEF TypeInv, Publish, Current
    <2>2. CASE ~ \E w \in Workers : Publish(w)
      <3>1. UNCHANGED published
        BY <2>2 DEF Next, handleRawEvent, Take, Quit, Filter, IsWatched, Finish, Create, Delete,
                    AddToBF, others
      <3> QED  BY <1>3, <3>1 DEF TypeInv
    <2> QED  BY <2>1, <2>2
  <1> QED  BY <1>1, <1>2, <1>4, <1>5, <1>6, <1>7 DEF TypeInv

LEMMA TypesStutter ==
    ASSUME TypeInv, UNCHANGED vars
    PROVE  TypeInv'
  <1>1. Workers' = Workers /\ Addresses' = Addresses /\ Events' = Events /\ Raws' = Raws
    BY InputStays DEF vars, others
  <1>2. WriterTypeOK'
    BY WriterTypes DEF WriterNext, TypeInv, vars, writerVars, writerState
  <1>3. TaskTypeOK'
    BY <1>1 DEF TypeInv, TaskTypeOK, vars, others
  <1> QED  BY <1>1, <1>2, <1>3 DEF TypeInv, vars, others

LEMMA TypesHold == Spec => []TypeInv
  <1>1. TypeInv /\ [Next]_vars => TypeInv'
    BY TypeStep, TypesStutter
  <1> QED  BY InitTypes, <1>1, PTL DEF Spec

LEMMA TypesAre == TypeInv => TypeOK
  <1> SUFFICES ASSUME TypeInv PROVE TypeOK
    OBVIOUS
  <1>1. ASSUME NEW c \in Chains PROVE taken[c] \in 0..Len(input[c])
    <2>1. input[c] \in Seq(Range(input[c]))
      BY PipelineAssumption DEF TypeInv
    <2> QED  BY <2>1 DEF TypeInv
  <1>2. \A w \in Workers : task[w].pc \in {"idle", "event", "query", "publish", "ended"}
    BY ActiveIs DEF TypeInv, TaskTypeOK
  <1> QED  BY <1>1, <1>2 DEF TypeInv, TypeOK

\* Every variable has its type: in particular, what is published is what Parse made of
\* a raw event of the input.
THEOREM TypeCorrect == Spec => []TypeOK
  BY TypesHold, TypesAre, PTL

-----------------------------------------------------------------------------

LEMMA InitInOrder == Init => InOrder
  <1> SUFFICES ASSUME Init, NEW c \in Chains PROVE Ordered(rows[c] \o buffers[c], rawWriteCh, c)
    BY InOrderIs
  <1>1. rows[c] = << >> /\ buffers[c] = << >> /\ rawWriteCh = << >>
    BY DEF Init, WriterInit, Nothing
  <1>2. << >> \o << >> = << >>
    OBVIOUS
  <1>3. Ordered(<< >>, << >>, c)
    BY DEF Ordered, Ascending
  <1> QED  BY <1>1, <1>2, <1>3

LEMMA InOrderIsNext ==
    InOrder' <=> \A c \in Chains : Ordered(rows'[c] \o buffers'[c], rawWriteCh', c)
  BY DEF InOrder, Ordered

LEMMA InOrderStep ==
    ASSUME TypeInv, InOrder, [Next]_vars
    PROVE  InOrder'
  <1>1. WriterTypeOK /\ \A d \in Chains : Ordered(rows[d] \o buffers[d], rawWriteCh, d)
    BY InOrderIs DEF TypeInv
  <1>2. CASE Next
    BY <1>1, <1>2, WriterFrame, OrderStep, InOrderIsNext
  <1>3. CASE UNCHANGED vars
    BY <1>1, <1>3, InOrderIsNext DEF vars, writerVars, writerState
  <1> QED  BY <1>2, <1>3

\* Whatever inserts fail and whenever the worker stops, the events of a chain are in
\* its table, in its buffer and in the channel in the order handleRawEvent handed them
\* on, none twice.
THEOREM OrderKept == Spec => []InOrder
  BY InitInOrder, InOrderStep, TypesHold, PTL DEF Spec

-----------------------------------------------------------------------------
(* Nothing is missed *)

\* Reported, for a set P of published events.
ReportedIn(P, raw, m) ==
    \E e \in P : /\ e.chain = raw.chain /\ e.id[2] = raw.tx
                 /\ e.watched.name = m.name /\ e.direction = m.direction
                 /\ e.contract = m.contract

\* Each due move of a task is reported already, or one of the events still to be
\* handled says it.
Kept(t, P) == \A m \in Due(t) : ReportedIn(P, t.raw, m) \/ Covers(t.events, t.raw, m)

\* An event that says a due move passes the whitelist, the filter and the table.
LEMMA DueIsWatched ==
    ASSUME NEW t, NEW m \in Due(t), NEW e, Carries(e, t.raw, m)
    PROVE  Key(e) \in t.steady /\ IsAllowed(e.chain, e.contract)
  BY DEF Due, Carries, Key

LEMMA CarriesReports ==
    ASSUME NEW raw, NEW m, NEW P, NEW e \in P, Carries(e, raw, m)
    PROVE  ReportedIn(P, raw, m)
  <1>1. e.watched.name = m.name
    BY DEF Carries, Normalize, Spelled
  <1> QED  BY <1>1 DEF Carries, ReportedIn

LEMMA KeptMore ==
    ASSUME NEW t, NEW P, NEW Q, Kept(t, P), P \subseteq Q
    PROVE  Kept(t, Q)
  BY DEF Kept, ReportedIn

\* The head of the events goes once no due move needs it.
LEMMA KeptTail ==
    ASSUME NEW R, NEW E, NEW A, NEW t \in TaskRecord(R, E, A), t.events # << >>, NEW P, Kept(t, P),
           \A m \in Due(t) : Carries(Head(t.events), t.raw, m) => ReportedIn(P, t.raw, m)
    PROVE  Kept(Continued(t), P)
  <1>1. PICK p \in Active, raw \in R, events \in Seq(E), steady \in SUBSET A :
           t = [pc |-> p, raw |-> raw, events |-> events, steady |-> steady]
    BY DEF TaskRecord
  <1>2. t.raw = raw /\ t.events = events /\ t.steady = steady
    BY <1>1
  <1>3. PICK u : u = [pc |-> "event", raw |-> raw, events |-> Tail(events), steady |-> steady]
    OBVIOUS
  <1>4. Continued(t) = u
    <2>1. t = [pc |-> p, raw |-> raw, events |-> events, steady |-> steady]
      BY <1>1
    <2> QED  BY <1>3, <2>1, ContinuedIs
  <1>5. u.raw = raw /\ u.events = Tail(events) /\ u.steady = steady
    BY <1>3
  <1>6. Due(u) = Due(t)
    BY <1>2, <1>5 DEF Due
  <1>7. PICK L \in Nat : L = Len(events) /\ DOMAIN events = 1..L /\ L # 0
    BY <1>1, <1>2
  <1>8. /\ Head(events) = events[1]
        /\ DOMAIN Tail(events) = 1..(L - 1)
        /\ \A k \in 1..(L - 1) : Tail(events)[k] = events[k + 1]
    BY <1>1, <1>2, <1>7, HeadTailProperties
  <1>9. ASSUME NEW m \in Due(t), ~ ReportedIn(P, raw, m)
        PROVE  Covers(Tail(events), raw, m)
    <2>1. Covers(events, raw, m)
      BY <1>2, <1>9 DEF Kept
    <2>2. PICK k \in DOMAIN events : Carries(events[k], raw, m)
      BY <2>1 DEF Covers
    <2>3. k # 1
      BY <1>2, <1>8, <1>9, <2>2
    <2>4. k - 1 \in 1..(L - 1) /\ (k - 1) + 1 = k
      BY <1>7, <2>2, <2>3
    <2>5. Carries(Tail(events)[k - 1], raw, m)
      BY <1>8, <2>2, <2>4
    <2> QED  BY <1>8, <2>4, <2>5 DEF Covers
  <1>10. \A m \in Due(u) : ReportedIn(P, u.raw, m) \/ Covers(u.events, u.raw, m)
    BY <1>5, <1>6, <1>9
  <1> QED  BY <1>4, <1>10 DEF Kept

LEMMA KeptUnsteady ==
    ASSUME NEW R, NEW E, NEW A, NEW t \in TaskRecord(R, E, A), NEW P, Kept(t, P), NEW a
    PROVE  Kept(Unsteady(t, a), P) /\ Unsteady(t, a).steady = t.steady \ {a}
  <1>1. PICK p \in Active, raw \in R, events \in Seq(E), steady \in SUBSET A :
           t = [pc |-> p, raw |-> raw, events |-> events, steady |-> steady]
    BY DEF TaskRecord
  <1>2. t.raw = raw /\ t.events = events /\ t.steady = steady
    BY <1>1
  <1>3. PICK u : u = [pc |-> p, raw |-> raw, events |-> events, steady |-> steady \ {a}]
    OBVIOUS
  <1>4. Unsteady(t, a) = u
    <2>1. t = [pc |-> p, raw |-> raw, events |-> events, steady |-> steady]
      BY <1>1
    <2> QED  BY <1>3, <2>1, UnsteadyIs
  <1>5. u.raw = raw /\ u.events = events /\ u.steady = steady \ {a}
    BY <1>3
  <1>6. Due(u) \subseteq Due(t)
    BY <1>2, <1>5 DEF Due
  <1>7. \A m \in Due(u) : ReportedIn(P, u.raw, m) \/ Covers(u.events, u.raw, m)
    BY <1>2, <1>5, <1>6 DEF Kept
  <1> QED  BY <1>2, <1>4, <1>5, <1>7 DEF Kept

\* What a task has taken on stays watched and in the filter.
SteadyOK == \A w \in Workers : task[w].pc \in Active => task[w].steady \subseteq watched \cap bf

AllKept == \A w \in Workers : task[w].pc \in Active => Kept(task[w], published)

Calm == faults.kinds \cap {"query", "publish"} = {}

PromiseInv == SteadyOK /\ (Calm => AllKept /\ missed = {})

LEMMA CalmBefore ==
    ASSUME WriterTypeOK, WriterNext, Calm'
    PROVE  Calm
  <1>1. ASSUME NEW kind, Fault(kind) PROVE Calm
    BY <1>1, FaultTypes DEF Calm
  <1>2. CASE UNCHANGED faults
    BY <1>2 DEF Calm
  <1> QED  BY <1>1, <1>2 DEF WriterNext, Offer, runRawEventBatchWriter, Receive, Tick, flush, Done,
                          Return, Cancel, FlushItems

LEMMA InitPromise == Init => PromiseInv
  BY DEF Init, PromiseInv, SteadyOK, AllKept, Idle, Active, WriterInit

\* The steps of the worker that leave the addresses alone.
LEMMA SteadyKept ==
    ASSUME TypeInv, SteadyOK, Next
    PROVE  SteadyOK'
  <1>1. PICK W : W = Workers
    OBVIOUS
  <1>2. Workers' = W
    BY <1>1, WriterFrame, InputStays
  <1>3. DOMAIN task = W /\ \A w \in W : task[w] \in TaskSet(Raws, Events, Addresses)
    BY <1>1 DEF TypeInv, TaskTypeOK
  <1>4. ASSUME NEW w \in W, NEW t, task' = [task EXCEPT ![w] = t],
               t.pc \in Active => t.steady \subseteq watched \cap bf, UNCHANGED << watched, bf >>
        PROVE  SteadyOK'
    <2>1. \A v \in W : task'[v] = IF v = w THEN t ELSE task[v]
      BY <1>3, <1>4
    <2> QED  BY <1>1, <1>2, <1>4, <2>1 DEF SteadyOK
  <1>5. ASSUME NEW w \in W, task[w].pc \in Active, Continue(w), UNCHANGED << watched, bf >>
        PROVE  SteadyOK'
    <2>1. PICK t : t = Continued(task[w])
      OBVIOUS
    <2>2. task[w] \in TaskRecord(Raws, Events, Addresses)
      BY <1>3, <1>5, ActiveIs
    <2>3. t.steady = task[w].steady
      <3>1. "steady" \in DOMAIN task[w]
        BY <2>2 DEF TaskRecord
      <3> QED  BY <2>1, <3>1 DEF Continued
    <2>4. task' = [task EXCEPT ![w] = t]
      BY <1>5, <2>1 DEF Continue, Continued
    <2> QED  BY <1>1, <1>4, <1>5, <2>3, <2>4 DEF SteadyOK
  <1>6. ASSUME NEW w \in W, task[w].pc \in Active, NEW p, task' = [task EXCEPT ![w].pc = p],
               UNCHANGED << watched, bf >>
        PROVE  SteadyOK'
    <2>1. PICK t : t = [task[w] EXCEPT !.pc = p]
      OBVIOUS
    <2>2. t.steady = task[w].steady
      BY <2>1
    <2>3. task' = [task EXCEPT ![w] = t]
      BY <1>6, <2>1
    <2> QED  BY <1>1, <1>4, <1>6, <2>2, <2>3 DEF SteadyOK
  <1>7. CASE \E w \in Workers : Take(w)
    <2>1. PICK w \in W : Take(w)
      BY <1>1, <1>7
    <2>2. PICK t : t = [pc |-> "event", raw |-> input[w[1]][taken[w[1]] + 1],
                        events |-> Parse(input[w[1]][taken[w[1]] + 1]), steady |-> watched \cap bf]
      OBVIOUS
    <2>3. t.steady = watched \cap bf
      BY <2>2
    <2>4. task' = [task EXCEPT ![w] = t] /\ UNCHANGED << watched, bf >>
      BY <2>1, <2>2 DEF Take
    <2> QED  BY <1>4, <2>3, <2>4
  <1>8. CASE \E w \in Workers : Quit(w)
    <2>1. PICK w \in W : Quit(w)
      BY <1>1, <1>8
    <2>2. task[w] = Idle
      BY <1>3, <2>1, ActiveIs DEF Quit
    <2>3. [task[w] EXCEPT !.pc = "ended"] = [pc |-> "ended"]
      BY <2>2 DEF Idle
    <2>4. task' = [task EXCEPT ![w] = [pc |-> "ended"]] /\ UNCHANGED << watched, bf >>
      BY <2>1, <2>3 DEF Quit
    <2>5. [pc |-> "ended"].pc \notin Active
      BY DEF Active
    <2> QED  BY <1>4, <2>4, <2>5
  <1>9. CASE \E w \in Workers : Filter(w)
    <2>1. PICK w \in W : Filter(w)
      BY <1>1, <1>9
    <2>2. task[w].pc \in Active /\ UNCHANGED << watched, bf >>
      BY <2>1 DEF Filter, Active
    <2> QED  BY <1>5, <1>6, <2>1, <2>2 DEF Filter
  <1>10. CASE \E w \in Workers : IsWatched(w)
    <2>1. PICK w \in W : IsWatched(w)
      BY <1>1, <1>10
    <2>2. task[w].pc \in Active /\ UNCHANGED << watched, bf >>
      BY <2>1 DEF IsWatched, Active
    <2> QED  BY <1>5, <1>6, <2>1, <2>2 DEF IsWatched
  <1>11. CASE \E w \in Workers : Publish(w)
    <2>1. PICK w \in W : Publish(w)
      BY <1>1, <1>11
    <2>2. task[w].pc \in Active /\ UNCHANGED << watched, bf >>
      BY <2>1 DEF Publish, Active
    <2> QED  BY <1>5, <2>1, <2>2 DEF Publish
  <1>12. CASE \E w \in Workers : Finish(w)
    <2>1. PICK w \in W : Finish(w)
      BY <1>1, <1>12
    <2>2. Idle.pc \notin Active
      BY DEF Idle, Active
    <2> QED  BY <1>4, <2>1, <2>2 DEF Finish
  <1>13. CASE \E a \in Addresses : Delete(a)
    <2>1. PICK a : Delete(a)
      BY <1>13
    <2>2. ASSUME NEW w \in W, task'[w].pc \in Active
          PROVE  task'[w].steady \subseteq watched' \cap bf'
      <3>1. task'[w] = IF task[w].pc \in {"idle", "ended"} THEN task[w] ELSE Unsteady(task[w], a)
        BY <1>1, <2>1 DEF Delete, Unsteady
      <3>2. task[w].pc \notin {"idle", "ended"}
        BY <2>2, <3>1 DEF Active
      <3>3. task[w] \in TaskRecord(Raws, Events, Addresses) /\ task[w].pc \in Active
        BY <1>3, <3>2, ActiveIs DEF Active
      <3>4. task'[w].steady = task[w].steady \ {a}
        <4>1. "steady" \in DOMAIN task[w]
          BY <3>3 DEF TaskRecord
        <4> QED  BY <3>1, <3>2, <4>1 DEF Unsteady
      <3> QED  BY <1>1, <2>1, <3>3, <3>4 DEF SteadyOK, Delete
    <2> QED  BY <1>2, <2>2 DEF SteadyOK
  <1>14. CASE \E a \in Addresses : Create(a) \/ AddToBF(a)
    <2>1. UNCHANGED task /\ watched \subseteq watched' /\ bf \subseteq bf'
      BY <1>14 DEF Create, AddToBF
    <2> QED  BY <1>1, <1>2, <2>1 DEF SteadyOK
  <1>15. CASE (runRawEventBatchWriter \/ Cancel) /\ UNCHANGED others
    BY <1>1, <1>2, <1>15 DEF SteadyOK, others
  <1> QED  BY <1>7, <1>8, <1>9, <1>10, <1>11, <1>12, <1>13, <1>14, <1>15 DEF Next, handleRawEvent

LEMMA KeptStep ==
    ASSUME TypeInv, PromiseInv, Next, Calm'
    PROVE  AllKept' /\ missed' = {}
  <1>1. AllKept /\ missed = {} /\ SteadyOK
    BY WriterFrame, CalmBefore DEF TypeInv, PromiseInv
  <1>2. PICK W, P, Q : W = Workers /\ P = published /\ Q = published'
    OBVIOUS
  <1>3. Workers' = W /\ P \subseteq Q
    <2>1. P \subseteq Q
      BY <1>2 DEF Next, handleRawEvent, Take, Quit, Filter, IsWatched, Publish, Finish, Create,
                  Delete, AddToBF, others
    <2> QED  BY <1>2, <2>1, WriterFrame, InputStays
  <1>4. DOMAIN task = W /\ \A w \in W : task[w] \in TaskSet(Raws, Events, Addresses)
    BY <1>2 DEF TypeInv, TaskTypeOK
  <1>5. \A w \in W : task[w].pc \in Active => Kept(task[w], Q) /\ Kept(task[w], P)
    BY <1>1, <1>2, <1>3, KeptMore DEF AllKept
  <1>6. ~ Fault("query") /\ ~ Fault("publish")
    BY DEF Calm, Fault
  <1>7. ASSUME NEW w \in W, NEW t, task' = [task EXCEPT ![w] = t], t.pc \in Active => Kept(t, Q)
        PROVE  AllKept'
    <2>1. \A v \in W : task'[v] = IF v = w THEN t ELSE task[v]
      BY <1>4, <1>7
    <2> QED  BY <1>2, <1>3, <1>5, <1>7, <2>1 DEF AllKept
  <1>8. ASSUME NEW w \in W, task[w].pc \in Active, task[w].events # << >>, Continue(w),
               \A m \in Due(task[w]) : Carries(Current(w), task[w].raw, m)
                                          => ReportedIn(Q, task[w].raw, m)
        PROVE  AllKept'
    <2>1. task[w] \in TaskRecord(Raws, Events, Addresses)
      BY <1>4, <1>8, ActiveIs
    <2>2. Kept(Continued(task[w]), Q)
      BY <1>5, <1>8, <2>1, KeptTail DEF Current
    <2>3. task' = [task EXCEPT ![w] = Continued(task[w])]
      BY <1>8 DEF Continue, Continued
    <2> QED  BY <1>7, <2>2, <2>3
  <1>9. ASSUME NEW w \in W, task[w].pc \in Active, NEW p, task' = [task EXCEPT ![w].pc = p]
        PROVE  AllKept'
    <2>1. PICK t : t = [task[w] EXCEPT !.pc = p]
      OBVIOUS
    <2>2. t.raw = task[w].raw /\ t.events = task[w].events /\ t.steady = task[w].steady
      BY <2>1
    <2>3. Kept(t, Q)
      <3>1. Due(t) = Due(task[w])
        BY <2>2 DEF Due
      <3> QED  BY <1>5, <1>9, <2>2, <3>1 DEF Kept
    <2>4. task' = [task EXCEPT ![w] = t]
      BY <1>9, <2>1
    <2> QED  BY <1>7, <2>3, <2>4
  \* what a due move of a task says passes every test
  <1>10. ASSUME NEW w \in W, task[w].pc \in Active, NEW m \in Due(task[w]),
                Carries(Current(w), task[w].raw, m)
         PROVE  Test(Current(w)) /\ Key(Current(w)) \in watched
    <2>1. Key(Current(w)) \in task[w].steady /\ IsAllowed(Current(w).chain, Current(w).contract)
      BY <1>10, DueIsWatched
    <2>2. task[w].steady \subseteq watched \cap bf
      BY <1>1, <1>2, <1>10 DEF SteadyOK
    <2> QED  BY <2>1, <2>2 DEF Test
  <1>11. CASE \E w \in Workers : Take(w)
    <2>1. PICK w \in W : Take(w)
      BY <1>2, <1>11
    <2>2. PICK c \in Chains : c = w[1]
      BY <1>2, WorkerChain
    <2>0. PICK k : k = taken[c] + 1
      OBVIOUS
    <2>3. k \in 1..Len(input[c]) /\ input \in Inputs
      <3>1. taken[c] \in Nat /\ taken[c] < Len(input[c]) /\ input \in Inputs
        BY <2>1, <2>2 DEF TypeInv, Take
      <3>2. input[c] \in Seq(Range(input[c]))
        BY <3>1, PipelineAssumption
      <3>3. Len(input[c]) \in Nat
        BY <3>2
      <3> QED  BY <2>0, <3>1, <3>3
    <2>4. PICK raw : raw = input[c][k]
      OBVIOUS
    <2>5. Faithful(Parse(raw), raw)
      BY <2>3, <2>4, InputFacts, ParseFacts
    <2>6. PICK t : t = [pc |-> "event", raw |-> raw, events |-> Parse(raw),
                        steady |-> watched \cap bf]
      OBVIOUS
    <2>7. t.raw = raw /\ t.events = Parse(raw)
      BY <2>6
    <2>8. Kept(t, Q)
      BY <2>5, <2>7 DEF Kept, Due, Faithful
    <2>9. task' = [task EXCEPT ![w] = t] /\ UNCHANGED missed
      BY <2>0, <2>1, <2>2, <2>4, <2>6 DEF Take
    <2> QED  BY <1>1, <1>7, <2>8, <2>9
  <1>12. CASE \E w \in Workers : Quit(w)
    <2>1. PICK w \in W : Quit(w)
      BY <1>2, <1>12
    <2>2. task[w] = Idle
      BY <1>4, <2>1, ActiveIs DEF Quit
    <2>3. [task[w] EXCEPT !.pc = "ended"] = [pc |-> "ended"]
      BY <2>2 DEF Idle
    <2>4. task' = [task EXCEPT ![w] = [pc |-> "ended"]] /\ UNCHANGED missed
      BY <2>1, <2>3 DEF Quit
    <2>5. [pc |-> "ended"].pc \notin Active
      BY DEF Active
    <2> QED  BY <1>1, <1>7, <2>4, <2>5
  <1>13. CASE \E w \in Workers : Filter(w)
    <2>1. PICK w \in W : Filter(w)
      BY <1>2, <1>13
    <2>2. task[w].pc \in Active /\ task[w].events # << >> /\ UNCHANGED missed
      BY <2>1 DEF Filter, Active
    <2>3. CASE Test(Current(w))
      BY <1>1, <1>9, <2>1, <2>2, <2>3 DEF Filter
    <2>4. CASE ~ Test(Current(w))
      <3>1. Continue(w)
        BY <2>1, <2>4 DEF Filter
      <3> QED  BY <1>1, <1>8, <1>10, <2>2, <2>4, <3>1
    <2> QED  BY <2>3, <2>4
  <1>14. CASE \E w \in Workers : IsWatched(w)
    <2>1. PICK w \in W : IsWatched(w)
      BY <1>2, <1>14
    <2>2. task[w].pc \in Active /\ task[w].events # << >> /\ UNCHANGED missed
      BY <1>2, <2>1 DEF IsWatched, Active, TypeInv, TaskTypeOK
    <2>3. CASE Key(Current(w)) \in watched
      <3>1. task' = [task EXCEPT ![w].pc = "publish"]
        BY <1>6, <2>1, <2>3 DEF IsWatched, Found
      <3> QED  BY <1>1, <1>9, <2>2, <3>1
    <2>4. CASE Key(Current(w)) \notin watched
      <3>1. Continue(w)
        BY <2>1, <2>4 DEF IsWatched, Found
      <3> QED  BY <1>1, <1>8, <1>10, <2>2, <2>4, <3>1
    <2> QED  BY <2>3, <2>4
  <1>15. CASE \E w \in Workers : Publish(w)
    <2>1. PICK w \in W : Publish(w)
      BY <1>2, <1>15
    <2>2. task[w].pc \in Active /\ task[w].events # << >> /\ UNCHANGED missed
      BY <1>2, <2>1 DEF Publish, Active, TypeInv, TaskTypeOK
    <2>3. Continue(w) /\ Current(w) \in Q
      BY <1>2, <1>6, <2>1 DEF Publish
    <2>4. \A m : Carries(Current(w), task[w].raw, m) => ReportedIn(Q, task[w].raw, m)
      BY <2>3, CarriesReports
    <2> QED  BY <1>1, <1>8, <2>2, <2>3, <2>4
  <1>16. CASE \E w \in Workers : Finish(w)
    <2>1. PICK w \in W : Finish(w)
      BY <1>2, <1>16
    <2>2. PICK t : t = task[w]
      OBVIOUS
    <2>3. t.pc \in Active /\ t.events = << >> /\ task' = [task EXCEPT ![w] = Idle]
          /\ missed' = missed \cup {m \in Due(t) : ~ Reported(t.raw, m)}
      BY <2>1, <2>2 DEF Finish, Active
    <2>4. \A m \in Due(t) : ReportedIn(P, t.raw, m)
      BY <1>5, <2>2, <2>3 DEF Kept, Covers
    <2>5. \A m \in Due(t) : Reported(t.raw, m)
      BY <1>2, <2>4 DEF ReportedIn, Reported
    <2>6. missed' = {}
      BY <1>1, <2>3, <2>5
    <2>7. Idle.pc \notin Active
      BY DEF Idle, Active
    <2> QED  BY <1>7, <2>3, <2>6, <2>7
  <1>17. CASE \E a \in Addresses : Delete(a)
    <2>1. PICK a : Delete(a)
      BY <1>17
    <2>2. ASSUME NEW w \in W, task'[w].pc \in Active
          PROVE  Kept(task'[w], Q)
      <3>1. task'[w] = IF task[w].pc \in {"idle", "ended"} THEN task[w] ELSE Unsteady(task[w], a)
        BY <1>2, <2>1 DEF Delete, Unsteady
      <3>2. task[w].pc \notin {"idle", "ended"}
        BY <2>2, <3>1 DEF Active
      <3>3. task[w] \in TaskRecord(Raws, Events, Addresses) /\ task[w].pc \in Active
        BY <1>4, <3>2, ActiveIs DEF Active
      <3>4. Kept(Unsteady(task[w], a), Q)
        BY <1>5, <3>3, KeptUnsteady
      <3> QED  BY <3>1, <3>2, <3>4
    <2> QED  BY <1>1, <1>2, <1>3, <2>1, <2>2 DEF AllKept, Delete
  <1>18. CASE \/ \E a \in Addresses : Create(a) \/ AddToBF(a)
              \/ (runRawEventBatchWriter \/ Cancel) /\ UNCHANGED others
    <2>1. UNCHANGED << task, missed >>
      BY <1>18 DEF Create, AddToBF, others
    <2> QED  BY <1>1, <1>2, <1>3, <1>5, <2>1 DEF AllKept
  <1> QED  BY <1>11, <1>12, <1>13, <1>14, <1>15, <1>16, <1>17, <1>18 DEF Next, handleRawEvent

LEMMA PromiseStep ==
    ASSUME TypeInv, PromiseInv, [Next]_vars
    PROVE  PromiseInv'
  <1>1. CASE Next
    BY <1>1, SteadyKept, KeptStep DEF PromiseInv
  <1>2. CASE UNCHANGED vars
    <2>1. Workers' = Workers /\ UNCHANGED << task, watched, bf, published, missed, faults >>
      BY <1>2, InputStays DEF vars, writerVars, others
    <2> QED  BY <2>1 DEF PromiseInv, SteadyOK, AllKept, Calm
  <1> QED  BY <1>1, <1>2

\* While the table and the broker answer, handleRawEvent reports every transfer on an
\* EVM chain or on TRON that touches an address which stays watched meanwhile, whatever
\* the input, the hot set and the edits of the addresses.
THEOREM NothingIsMissed == Spec => []NothingMissed
  <1>1. PromiseInv => NothingMissed
    BY DEF PromiseInv, Calm, NothingMissed
  <1> QED  BY <1>1, InitPromise, PromiseStep, TypesHold, PTL DEF Spec

-----------------------------------------------------------------------------
(* Whose ids collide *)

\* What a task has let pass the filter is an event of a watched address.
Passed(t, A) == t.pc \in {"query", "publish"} => Key(Head(t.events)) \in A

AddressInv ==
    /\ \A e \in published : Key(e) \in Addresses
    /\ \A w \in Workers : Passed(task[w], Addresses)

LEMMA NamedAddress ==
    ASSUME NEW e, Key(e) \in Addresses
    PROVE  e.watched.name # None
  <1>1. PICK c \in Enabled : Key(e) \in {<< c, Normalize(c, n) >> : n \in Names[c]}
    BY Zenon DEF Addresses
  <1>2. PICK n \in Names[c] : Key(e) = << c, Normalize(c, n) >>
    BY <1>1
  <1>3. e.watched = Normalize(c, n)
    BY <1>2 DEF Key
  <1>4. e.watched.name = n
    BY <1>3 DEF Normalize, Spelled
  <1> QED  BY <1>4, NameAssumption DEF Enabled

LEMMA PassedStep ==
    ASSUME TypeInv, Next, \A w \in Workers : Passed(task[w], Addresses)
    PROVE  \A w \in Workers' : Passed(task'[w], Addresses')
  <1>1. PICK R, E, A, W : R = Raws /\ E = Events /\ A = Addresses /\ W = Workers
    OBVIOUS
  <1>2. Addresses' = A /\ Workers' = W
    BY <1>1, WriterFrame, InputStays
  <1>3. /\ task \in [W -> TaskSet(R, E, A)] /\ bf \subseteq A
        /\ \A w \in W : Passed(task[w], A)
    BY <1>1 DEF TypeInv, TaskTypeOK
  <1> SUFFICES \A w \in W : Passed(task'[w], A)
    BY <1>2
  \* one task becomes t
  <1>4. ASSUME NEW w \in W, NEW t, Passed(t, A), task' = [task EXCEPT ![w] = t]
        PROVE  \A v \in W : Passed(task'[v], A)
    <2>1. \A v \in W : task'[v] = IF v = w THEN t ELSE task[v]
      BY <1>3, <1>4
    <2> QED  BY <1>3, <1>4, <2>1
  \* the iteration of the loop ends
  <1>5. ASSUME NEW w \in W, task[w].pc \in Active, Continue(w)
        PROVE  \A v \in W : Passed(task'[v], A)
    <2>1. PICK t : t = Continued(task[w])
      OBVIOUS
    <2>2. t.pc = "event"
      <3>1. task[w] \in TaskRecord(R, E, A)
        BY <1>3, <1>5, ActiveIs
      <3>2. "pc" \in DOMAIN task[w]
        BY <3>1 DEF TaskRecord
      <3> QED  BY <2>1, <3>2 DEF Continued
    <2>3. task' = [task EXCEPT ![w] = t]
      BY <1>5, <2>1 DEF Continue, Continued
    <2> QED  BY <1>4, <2>2, <2>3 DEF Passed
  \* the task goes on to ask, or to publish
  <1>6. ASSUME NEW w \in W, Key(Current(w)) \in A, NEW p, task' = [task EXCEPT ![w].pc = p]
        PROVE  \A v \in W : Passed(task'[v], A)
    <2>1. PICK t : t = [task[w] EXCEPT !.pc = p]
      OBVIOUS
    <2>2. t.events = task[w].events
      BY <2>1
    <2>3. task' = [task EXCEPT ![w] = t]
      BY <1>6, <2>1
    <2> QED  BY <1>4, <1>6, <2>2, <2>3 DEF Passed, Current
  <1>7. CASE \E w \in Workers : Take(w)
    <2>1. PICK w \in W : Take(w)
      BY <1>1, <1>7
    <2>2. PICK c, raw : c = w[1] /\ raw = input[c][taken[c] + 1]
      OBVIOUS
    <2>3. PICK t : t = [pc |-> "event", raw |-> raw, events |-> Parse(raw),
                        steady |-> watched \cap bf]
      OBVIOUS
    <2>4. task' = [task EXCEPT ![w] = t] /\ t.pc = "event"
      BY <2>1, <2>2, <2>3 DEF Take
    <2> QED  BY <1>4, <2>4 DEF Passed
  <1>8. CASE \E w \in Workers : Quit(w)
    <2>1. PICK w \in W : Quit(w)
      BY <1>1, <1>8
    <2>2. task[w] = Idle
      BY <1>3, <2>1, ActiveIs DEF Quit
    <2>3. [task[w] EXCEPT !.pc = "ended"] = [pc |-> "ended"]
      BY <2>2 DEF Idle
    <2>4. task' = [task EXCEPT ![w] = [pc |-> "ended"]]
      BY <2>1, <2>3 DEF Quit
    <2> QED  BY <1>4, <2>4 DEF Passed
  <1>9. CASE \E w \in Workers : Filter(w)
    <2>1. PICK w \in W : Filter(w)
      BY <1>1, <1>9
    <2>2. CASE Test(Current(w)) /\ task' = [task EXCEPT ![w].pc = "query"]
      <3>1. Key(Current(w)) \in A
        BY <1>3, <2>2 DEF Test
      <3> QED  BY <1>6, <2>2, <3>1
    <2>3. task[w].pc \in Active
      BY <2>1 DEF Filter, Active
    <2> QED  BY <1>5, <2>1, <2>2, <2>3 DEF Filter
  <1>10. CASE \E w \in Workers : IsWatched(w)
    <2>1. PICK w \in W : IsWatched(w)
      BY <1>1, <1>10
    <2>2. Key(Current(w)) \in A /\ task[w].pc \in Active
      BY <1>3, <2>1 DEF IsWatched, Passed, Current, Active
    <2> QED  BY <1>5, <1>6, <2>1, <2>2 DEF IsWatched
  <1>11. CASE \E w \in Workers : Publish(w)
    <2>1. PICK w \in W : Publish(w)
      BY <1>1, <1>11
    <2> QED  BY <1>5, <2>1 DEF Publish, Active
  <1>12. CASE \E w \in Workers : Finish(w)
    <2>1. PICK w \in W : Finish(w)
      BY <1>1, <1>12
    <2> QED  BY <1>4, <2>1 DEF Finish, Passed, Idle
  <1>13. CASE \E a \in Addresses : Delete(a)
    <2>1. PICK a : Delete(a)
      BY <1>13
    <2>2. task' = [w \in W |-> IF task[w].pc \in {"idle", "ended"} THEN task[w]
                                ELSE Unsteady(task[w], a)]
      BY <1>1, <2>1 DEF Delete, Unsteady
    <2>3. ASSUME NEW w \in W PROVE Passed(task'[w], A)
      <3>1. PICK t : t = Unsteady(task[w], a)
        OBVIOUS
      <3>2. CASE task'[w] = task[w]
        BY <1>3, <3>2
      <3>3. CASE task'[w] = t /\ task[w].pc \notin {"idle", "ended"}
        <4>1. task[w] \in TaskRecord(R, E, A)
          BY <1>3, <3>3, ActiveIs DEF Active
        <4>2. "pc" \in DOMAIN task[w] /\ "events" \in DOMAIN task[w]
          BY <4>1 DEF TaskRecord
        <4>3. t.pc = task[w].pc /\ t.events = task[w].events
          BY <3>1, <4>2 DEF Unsteady
        <4> QED  BY <1>3, <3>3, <4>3 DEF Passed
      <3> QED  BY <2>2, <3>1, <3>2, <3>3
    <2> QED  BY <2>3
  <1>14. CASE \/ \E a \in Addresses : Create(a) \/ AddToBF(a)
              \/ (runRawEventBatchWriter \/ Cancel) /\ UNCHANGED others
    <2>1. UNCHANGED task
      BY <1>14 DEF Create, AddToBF, others
    <2> QED  BY <1>3, <2>1
  <1> QED  BY <1>7, <1>8, <1>9, <1>10, <1>11, <1>12, <1>13, <1>14 DEF Next, handleRawEvent

LEMMA AddressStep ==
    ASSUME TypeInv, AddressInv, [Next]_vars
    PROVE  AddressInv'
  <1>1. CASE UNCHANGED vars
    BY <1>1, InputStays DEF AddressInv, vars, others
  <1>2. CASE Next
    <2>1. \A w \in Workers' : Passed(task'[w], Addresses')
      BY <1>2, PassedStep DEF AddressInv
    <2>2. Addresses' = Addresses
      BY <1>2, WriterFrame, InputStays
    <2>3. CASE \E w \in Workers : Publish(w)
      <3>1. PICK w \in Workers : Publish(w)
        BY <2>3
      <3>2. Key(Current(w)) \in Addresses
        BY <3>1 DEF AddressInv, Passed, Publish, Current
      <3>3. \A e \in published' : Key(e) \in Addresses
        BY <3>1, <3>2 DEF AddressInv, Publish
      <3> QED  BY <2>1, <2>2, <3>3 DEF AddressInv
    <2>4. CASE ~ \E w \in Workers : Publish(w)
      <3>1. UNCHANGED published
        BY <1>2, <2>4 DEF Next, handleRawEvent, Take, Quit, Filter, IsWatched, Finish, Create,
                          Delete, AddToBF, others
      <3> QED  BY <2>1, <2>2, <3>1 DEF AddressInv
    <2> QED  BY <2>3, <2>4
  <1> QED  BY <1>1, <1>2

\* Where a published event comes from.
LEMMA EventSource ==
    ASSUME TypeInv, NEW e \in published
    PROVE  \E c \in Chains : \E raw \in Range(input[c]) :
              e \in Range(Parse(raw)) /\ RawEvent(raw) /\ raw.chain = c
  <1>1. e \in Events
    BY DEF TypeInv
  <1>2. PICK c \in Chains : e \in UNION {Range(Parse(raw)) : raw \in Range(input[c])}
    BY <1>1, Zenon DEF Events
  <1>3. PICK raw \in Range(input[c]) : e \in Range(Parse(raw))
    BY <1>2, Zenon
  <1> QED  BY <1>3, PipelineAssumption, ChainAssumption DEF TypeInv

\* Two events of different logs of one transaction.
LEMMA LogsCollide ==
    ASSUME NEW raw, NEW other, NEW e, NEW f, FromLog(e, raw), FromLog(f, other),
           raw.index \in Nat, other.index \in Nat, raw.index # other.index,
           e.id = f.id, e.watched.name # None, f.watched.name # None
    PROVE  /\ "TOKEN_TRANSFER" \in {e.type, f.type}
           /\ {e.type, f.type} \cap {"SWAP", "STAKE", "UNSTAKE"} # {}
  <1>1. PICK m \in Nat, n \in Nat : m = raw.index /\ n = other.index
    OBVIOUS
  <1>2. CASE e.type = "TOKEN_TRANSFER" /\ f.type = "TOKEN_TRANSFER"
    <2>1. PICK k : k = e.id[3] /\ k \in {m * 10, m * 10 + 1}
      BY <1>1, <1>2 DEF FromLog
    <2>2. k \in {n * 10, n * 10 + 1}
      BY <1>1, <1>2, <2>1 DEF FromLog
    <2>3. m = n
      BY <2>1, <2>2
    <2> QED  BY <1>1, <2>3
  <1>3. CASE e.type # "TOKEN_TRANSFER" /\ f.type # "TOKEN_TRANSFER"
    BY <1>3 DEF FromLog
  <1> QED  BY <1>2, <1>3 DEF FromLog

LEMMA CollisionsAre ==
    ASSUME TypeInv, AddressInv, NEW e \in published, NEW f \in published,
           e.id = f.id, e.watched = f.watched, e # f
    PROVE  /\ "TOKEN_TRANSFER" \in {e.type, f.type}
           /\ {e.type, f.type} \cap {"SWAP", "STAKE", "UNSTAKE"} # {}
  <1>1. PICK c \in Chains : \E raw \in Range(input[c]) :
              e \in Range(Parse(raw)) /\ RawEvent(raw) /\ raw.chain = c
    BY EventSource
  <1>2. PICK raw \in Range(input[c]) : e \in Range(Parse(raw)) /\ RawEvent(raw) /\ raw.chain = c
    BY <1>1
  <1>3. PICK d \in Chains : \E other \in Range(input[d]) :
              f \in Range(Parse(other)) /\ RawEvent(other) /\ other.chain = d
    BY EventSource
  <1>4. PICK other \in Range(input[d]) :
              f \in Range(Parse(other)) /\ RawEvent(other) /\ other.chain = d
    BY <1>3
  <1>5. e.id[1] = c /\ e.id[2] = raw.tx
    BY <1>2, ParseIds DEF Ids
  <1>6. f.id[1] = d /\ f.id[2] = other.tx
    BY <1>4, ParseIds DEF Ids
  <1>7. c = d /\ raw.tx = other.tx
    BY <1>5, <1>6
  <1>8. raw # other
    BY <1>2, <1>4, ParseIds DEF Ids
  <1>9. /\ c \in {"ETH", "BSC"} /\ "log" \in {raw.type, other.type}
        /\ raw.type = other.type => raw.index # other.index
    BY <1>7, <1>8, ChainAssumption DEF TypeInv
  <1>10. raw.type \in {"tx", "log"} /\ other.type \in {"tx", "log"}
    BY <1>2, <1>4, <1>7, <1>9, ParseIds
  <1>11. raw.type = "log" /\ other.type = "log"
    <2>1. CASE raw.type = "tx"
      <3>1. other.type = "log"
        BY <1>9, <2>1
      <3>2. e.id[3] \in {-2, -1}
        BY <1>2, <1>9, <2>1, ParseIds DEF Ids
      <3>3. f.id[3] \in Nat
        BY <1>4, <1>7, <1>9, <3>1, ParseIds DEF Ids
      <3> QED  BY <3>2, <3>3
    <2>2. CASE other.type = "tx"
      <3>1. raw.type = "log"
        BY <1>9, <2>2
      <3>2. f.id[3] \in {-2, -1}
        BY <1>4, <1>7, <1>9, <2>2, ParseIds DEF Ids
      <3>3. e.id[3] \in Nat
        BY <1>2, <1>9, <3>1, ParseIds DEF Ids
      <3> QED  BY <3>2, <3>3
    <2> QED  BY <1>10, <2>1, <2>2
  <1>12. FromLog(e, raw) /\ FromLog(f, other) /\ raw.index \in Nat /\ other.index \in Nat
    BY <1>2, <1>4, <1>7, <1>9, <1>11, ParseIds
  <1>13. e.watched.name # None /\ f.watched.name # None
    BY NamedAddress DEF AddressInv
  <1> QED  BY <1>9, <1>11, <1>12, <1>13, LogsCollide

\* Whatever is scanned, however often, two published events of an address have one id
\* only if one is of a token transfer and the other of a plain log.
THEOREM CollisionsAreOfLogs == Spec => []OnlyLogsCollide
  <1>1. Init => AddressInv
    BY DEF Init, AddressInv, Passed, Idle
  <1>2. TypeInv /\ AddressInv /\ [Next]_vars => AddressInv'
    BY AddressStep
  <1>3. TypeInv /\ AddressInv => OnlyLogsCollide
    BY CollisionsAre DEF OnlyLogsCollide
  <1> QED  BY <1>1, <1>2, <1>3, TypesHold, PTL DEF Spec

-----------------------------------------------------------------------------
(* SolListener *)

Sigs(n) == [n : 1..n, p : All]

Jobs(n) == [sig : Sigs(n), at : {"get", "update"}]

\* SolTypeOK, with every transaction that is under way finalized.
SolTypeInv ==
    /\ tx \in 0..MaxTx /\ phase \in {"start", "connect", "subscribe", "select", "wait", "dead"}
    /\ subs \in 0..Len(Programs) /\ open \in BOOLEAN
    /\ stream \in [All -> Seq(1..tx)] /\ reading \subseteq All
    /\ sigCh \in Seq(Sigs(tx)) /\ Len(sigCh) <= SigCap
    /\ jobs \subseteq Jobs(tx)
    /\ eventCh \subseteq 1..tx /\ heard \subseteq 1..tx /\ last \in 0..tx
    /\ solFaults \in [count : 0..MaxSolFaults, kinds : SUBSET SolFaultKinds]

SubsInv ==
    /\ phase \in {"start", "connect", "wait"} => subs = 0
    /\ phase = "subscribe" => subs < Len(Programs)

\* A fetchAndEmit that goes on to Update has put its transaction into eventCh.
EmittedInv == RecordedIsEmitted /\ \A j \in jobs : j.at = "update" => j.sig.n \in eventCh

SolInv == SolTypeInv /\ SubsInv /\ EmittedInv

-----------------------------------------------------------------------------

LEMMA SolSizes ==
    /\ Len(Programs) \in Nat /\ Len(Programs) > 0 /\ SigCap \in Nat /\ SigCap > 0
    /\ MaxTx \in Nat /\ MaxSolFaults \in Nat
  BY SolAssumption

LEMMA SolFaultTypes ==
    ASSUME SolTypeInv, NEW kind, SolFault(kind)
    PROVE  solFaults' \in [count : 0..MaxSolFaults, kinds : SUBSET SolFaultKinds]
  <1>1. PICK k \in 0..MaxSolFaults, K \in SUBSET SolFaultKinds : solFaults = [count |-> k, kinds |-> K]
    BY DEF SolTypeInv
  <1>2. k < MaxSolFaults /\ kind \in SolFaultKinds
        /\ solFaults' = [count |-> k + 1, kinds |-> K \cup {kind}]
    BY <1>1 DEF SolFault
  <1>3. k + 1 \in 0..MaxSolFaults
    BY <1>1, <1>2, SolSizes
  <1> QED  BY <1>1, <1>2, <1>3

LEMMA SolInitially == SolInit => SolInv
  <1> SUFFICES ASSUME SolInit PROVE SolInv
    OBVIOUS
  <1> USE DEF SolInit
  <1>1. 0 \in 0..MaxTx /\ 0 \in 0..MaxSolFaults /\ 0 \in 0..Len(Programs) /\ 0 \in 0..0 /\ 0 <= SigCap
    BY SolSizes
  <1>2. << >> \in Seq(1..0) /\ << >> \in Seq(Sigs(0)) /\ Len(<< >>) = 0
    OBVIOUS
  <1>3. stream \in [All -> Seq(1..0)]
    BY <1>2 DEF Silence
  <1>4. solFaults \in [count : 0..MaxSolFaults, kinds : SUBSET SolFaultKinds]
    BY <1>1
  <1>5. SolTypeInv
    BY <1>1, <1>2, <1>3, <1>4 DEF SolTypeInv
  <1> QED  BY <1>5 DEF SolInv, SubsInv, EmittedInv, RecordedIsEmitted

LEMMA FinalizeStep ==
    ASSUME SolInv, NEW ps \in SUBSET All, Finalize(ps)
    PROVE  SolInv'
  <1> USE DEF Finalize, ws
  <1>1. PICK n : n = tx
    OBVIOUS
  <1>2. n \in 0..MaxTx /\ n < MaxTx /\ tx' = n + 1
    BY <1>1 DEF SolInv, SolTypeInv
  <1>3. /\ n \in Nat /\ n + 1 \in 0..MaxTx /\ n + 1 \in 1..(n + 1)
        /\ 1..n \subseteq 1..(n + 1) /\ 0..n \subseteq 0..(n + 1)
    BY <1>2, SolSizes
  <1>4. PICK m : m = n + 1
    OBVIOUS
  <1>5. Sigs(n) \subseteq Sigs(m) /\ Jobs(n) \subseteq Jobs(m)
    BY <1>3, <1>4 DEF Sigs, Jobs
  <1>6. ASSUME NEW p \in All PROVE stream'[p] \in Seq(1..m)
    <2>1. stream[p] \in Seq(1..m)
      <3>1. stream[p] \in Seq(1..n)
        BY <1>1 DEF SolInv, SolTypeInv
      <3> QED  BY <1>3, <1>4, <3>1, SeqMonotonic
    <2>2. Append(stream[p], m) \in Seq(1..m)
      BY <1>3, <1>4, <2>1, AppendProperties
    <2> QED  BY <1>2, <1>4, <2>1, <2>2
  <1>7. stream' \in [All -> Seq(1..m)]
    BY <1>6
  <1>8. sigCh' \in Seq(Sigs(m))
    <2>1. sigCh \in Seq(Sigs(n))
      BY <1>1 DEF SolInv, SolTypeInv
    <2> QED  BY <1>5, <2>1, SeqMonotonic
  <1>9. jobs' \subseteq Jobs(m) /\ eventCh' \subseteq 1..m /\ heard' \subseteq 1..m /\ last' \in 0..m
    BY <1>1, <1>2, <1>3, <1>4, <1>5 DEF SolInv, SolTypeInv
  <1>10. SolTypeInv'
    BY <1>2, <1>3, <1>4, <1>7, <1>8, <1>9 DEF SolInv, SolTypeInv
  <1> QED  BY <1>10 DEF SolInv, SubsInv, EmittedInv, RecordedIsEmitted

\* The steps of wsLoop and runWS, and the break, touch neither the transactions nor
\* the goroutines fetchAndEmit.
LEMMA SocketStep ==
    ASSUME SolInv, Break \/ Start \/ Connect \/ Subscribe \/ Retry
    PROVE  SolInv'
  <1>1. UNCHANGED << tx, jobs, eventCh, last, heard >>
    BY DEF Break, Start, Connect, Subscribe, Retry
  <1>2. solFaults' \in [count : 0..MaxSolFaults, kinds : SUBSET SolFaultKinds]
    <2>1. CASE UNCHANGED solFaults
      BY <2>1 DEF SolInv, SolTypeInv
    <2>2. CASE ~ UNCHANGED solFaults
      BY <2>2, SolFaultTypes DEF SolInv, Break, Start, Connect, Subscribe, Retry
    <2> QED  BY <2>1, <2>2
  <1>3. Silence \in [All -> Seq(1..tx)] /\ << >> \in Seq(Sigs(tx)) /\ Len(<< >>) <= SigCap
    <2>1. << >> \in Seq(1..tx) /\ << >> \in Seq(Sigs(tx)) /\ Len(<< >>) = 0
      OBVIOUS
    <2> QED  BY <2>1, SolSizes DEF Silence
  <1>4. /\ stream' \in [All -> Seq(1..tx)] /\ reading' \subseteq All
        /\ sigCh' \in Seq(Sigs(tx)) /\ Len(sigCh') <= SigCap
    <2>1. stream' = stream \/ stream' = Silence
      BY DEF Break, Start, Connect, Subscribe, Retry, Fail
    <2>2. sigCh' = sigCh \/ sigCh' = << >>
      BY DEF Break, Start, Connect, Subscribe, Retry
    <2>3. reading' = reading \/ reading' = All
      BY DEF Break, Start, Connect, Subscribe, Retry
    <2> QED  BY <1>3, <2>1, <2>2, <2>3 DEF SolInv, SolTypeInv
  <1>5. /\ phase' \in {"start", "connect", "subscribe", "select", "wait", "dead"}
        /\ subs' \in 0..Len(Programs) /\ open' \in BOOLEAN
        /\ SubsInv'
    <2>1. PICK s, L : s = subs /\ L = Len(Programs)
      OBVIOUS
    <2>2. s \in 0..L /\ L \in Nat /\ L > 0
      BY <2>1, SolSizes DEF SolInv, SolTypeInv
    <2>3. CASE Break
      BY <2>3 DEF Break, SolInv, SolTypeInv, SubsInv
    <2>4. CASE Start
      BY <2>4 DEF Start, SolInv, SolTypeInv, SubsInv
    <2>5. CASE Connect
      BY <2>1, <2>2, <2>5 DEF Connect, Fail, SolInv, SolTypeInv, SubsInv
    <2>6. CASE Subscribe
      <3>0. phase = "subscribe"
        BY <2>6 DEF Subscribe
      <3>1. CASE /\ open
                 /\ subs' = subs + 1
                 /\ IF subs' = Len(Programs)
                    THEN phase' = "select" /\ reading' = All /\ sigCh' = << >>
                    ELSE UNCHANGED << phase, reading, sigCh >>
                 /\ UNCHANGED << open, stream, solFaults >>
        <4>1. s < L
          BY <2>1, <3>0 DEF SolInv, SubsInv
        <4>2. s + 1 \in 0..L /\ (s + 1 # L => s + 1 < L)
          BY <2>2, <4>1
        <4>3. subs' = s + 1 /\ open' \in BOOLEAN
          BY <2>1, <3>1 DEF SolInv, SolTypeInv
        <4>4. CASE subs' = Len(Programs)
          <5>1. phase' = "select"
            BY <3>1, <4>4
          <5> QED  BY <2>1, <4>2, <4>3, <4>4, <5>1 DEF SubsInv
        <4>5. CASE subs' # Len(Programs)
          <5>1. phase' = "subscribe"
            BY <3>0, <3>1, <4>5
          <5> QED  BY <2>1, <4>2, <4>3, <4>5, <5>1 DEF SubsInv
        <4> QED  BY <4>4, <4>5
      <3>2. CASE Fail
        <4>1. phase' = "wait" /\ subs' = 0 /\ open' = FALSE
          BY <3>2 DEF Fail
        <4>2. 0 \in 0..Len(Programs) /\ 0 < Len(Programs)
          BY <2>1, <2>2
        <4>3. SubsInv'
          BY <4>1 DEF SubsInv
        <4> QED  BY <4>1, <4>2, <4>3
      <3> QED  BY <2>6, <3>1, <3>2 DEF Subscribe
    <2>7. CASE Retry
      BY <2>7 DEF Retry, NextTurn, SolInv, SolTypeInv, SubsInv
    <2> QED  BY <2>3, <2>4, <2>5, <2>6, <2>7
  <1>6. SolTypeInv'
    BY <1>1, <1>2, <1>4, <1>5 DEF SolInv, SolTypeInv
  <1>7. EmittedInv'
    BY <1>1 DEF SolInv, EmittedInv, RecordedIsEmitted
  <1> QED  BY <1>5, <1>6, <1>7 DEF SolInv

LEMMA RecvStep ==
    ASSUME SolInv, NEW p \in All, Recv(p)
    PROVE  SolInv'
  <1> USE DEF Recv, ws
  <1>1. PICK n : n = tx
    OBVIOUS
  <1>2. /\ stream' \in [All -> Seq(1..n)] /\ reading' \subseteq All
        /\ sigCh' \in Seq(Sigs(n)) /\ Len(sigCh') <= SigCap
    <2>1. CASE UNCHANGED << stream, sigCh >> /\ reading' = reading \ {p}
      BY <1>1, <2>1 DEF SolInv, SolTypeInv
    <2>2. CASE /\ stream[p] # << >> /\ Room
               /\ stream' = [stream EXCEPT ![p] = Tail(@)]
               /\ sigCh' = Sent([n |-> Head(stream[p]), p |-> p])
               /\ UNCHANGED reading
      <3>1. PICK s : s = stream[p]
        OBVIOUS
      <3>2. s \in Seq(1..n) /\ s # << >>
        BY <1>1, <2>2, <3>1 DEF SolInv, SolTypeInv
      <3>3. Head(s) \in 1..n /\ Tail(s) \in Seq(1..n)
        BY <3>2, HeadTailProperties
      <3>4. stream' \in [All -> Seq(1..n)]
        BY <1>1, <2>2, <3>1, <3>3 DEF SolInv, SolTypeInv
      <3>5. PICK sig : sig = [n |-> Head(s), p |-> p]
        OBVIOUS
      <3>6. sig \in Sigs(n)
        BY <3>3, <3>5 DEF Sigs
      <3>7. sigCh \in Seq(Sigs(n)) /\ Len(sigCh) < SigCap
        BY <1>1, <2>2 DEF SolInv, SolTypeInv, Room
      <3>8. sigCh' = Append(sigCh, sig)
        BY <2>2, <3>1, <3>5 DEF Sent
      <3>9. sigCh' \in Seq(Sigs(n)) /\ Len(sigCh') = Len(sigCh) + 1 /\ Len(sigCh) \in Nat
        BY <3>6, <3>7, <3>8, AppendProperties
      <3>10. Len(sigCh') <= SigCap
        BY <3>7, <3>9, SolSizes
      <3> QED  BY <2>2, <3>4, <3>9, <3>10 DEF SolInv, SolTypeInv
    <2> QED  BY <2>1, <2>2
  <1>3. SolTypeInv'
    BY <1>1, <1>2 DEF SolInv, SolTypeInv
  <1> QED  BY <1>3 DEF SolInv, SubsInv, EmittedInv, RecordedIsEmitted

LEMMA SelectStep ==
    ASSUME SolInv, Select
    PROVE  SolInv'
  <1> USE DEF Select, ws
  <1>1. PICK n, s : n = tx /\ s = sigCh
    OBVIOUS
  <1>2. s \in Seq(Sigs(n)) /\ s # << >> /\ Len(s) <= SigCap
    BY <1>1 DEF SolInv, SolTypeInv
  <1>3. PICK j : j = [sig |-> Head(s), at |-> "get"]
    OBVIOUS
  <1>4. Head(s) \in Sigs(n) /\ Tail(s) \in Seq(Sigs(n)) /\ Len(Tail(s)) = Len(s) - 1 /\ Len(s) \in Nat
    BY <1>2, HeadTailProperties
  <1>5. Len(Tail(s)) <= SigCap
    BY <1>2, <1>4, SolSizes
  <1>6. j \in Jobs(n) /\ j.at = "get"
    BY <1>3, <1>4 DEF Jobs
  <1>7. sigCh' = Tail(s) /\ jobs' = jobs \cup {j}
    BY <1>1, <1>3
  <1>8. SolTypeInv'
    BY <1>1, <1>4, <1>5, <1>6, <1>7 DEF SolInv, SolTypeInv
  <1> QED  BY <1>6, <1>7, <1>8 DEF SolInv, SubsInv, EmittedInv, RecordedIsEmitted

LEMMA FetchStep ==
    ASSUME SolInv, fetchAndEmit
    PROVE  SolInv'
  <1> USE DEF ws
  <1>1. PICK n : n = tx
    OBVIOUS
  <1>2. PICK j \in jobs : GetTransaction(j) \/ Update(j)
    BY DEF fetchAndEmit, GetTransaction, Update
  <1>3. j \in Jobs(n)
    BY <1>1 DEF SolInv, SolTypeInv
  <1>4. j.sig \in Sigs(n) /\ j.sig.n \in 1..n
    <2>1. j.sig \in Sigs(n)
      BY <1>3 DEF Jobs
    <2> QED  BY <2>1 DEF Sigs
  <1>5. CASE GetTransaction(j)
    <2>1. CASE eventCh' = Emitted(j) /\ UNCHANGED solFaults
               /\ jobs' = (jobs \ {j}) \cup {[j EXCEPT !.at = "update"]}
      <3>1. PICK k : k = [j EXCEPT !.at = "update"]
        OBVIOUS
      <3>2. k \in Jobs(n) /\ k.sig = j.sig
        BY <1>3, <3>1 DEF Jobs
      <3>3. eventCh' = eventCh \cup {j.sig.n} /\ jobs' = (jobs \ {j}) \cup {k}
        BY <2>1, <3>1 DEF Emitted
      <3>4. SolTypeInv'
        BY <1>1, <1>4, <1>5, <2>1, <3>2, <3>3 DEF SolInv, SolTypeInv, GetTransaction
      <3>5. EmittedInv'
        BY <1>5, <3>2, <3>3 DEF SolInv, EmittedInv, RecordedIsEmitted, GetTransaction
      <3> QED  BY <1>5, <3>4, <3>5 DEF SolInv, SubsInv, GetTransaction
    <2>2. CASE SolFault("rpc") /\ jobs' = jobs \ {j} /\ UNCHANGED eventCh
      <3>1. SolTypeInv'
        BY <1>5, <2>2, SolFaultTypes DEF SolInv, SolTypeInv, GetTransaction
      <3> QED  BY <1>5, <2>2, <3>1 DEF SolInv, SubsInv, EmittedInv, RecordedIsEmitted, GetTransaction
    <2> QED  BY <1>5, <2>1, <2>2 DEF GetTransaction
  <1>6. CASE Update(j)
    <2>1. last' = j.sig.n /\ j.sig.n \in eventCh /\ jobs' = jobs \ {j}
      BY <1>6 DEF Update, SolInv, EmittedInv
    <2>2. last' \in 0..n
      <3>1. \A k \in 1..n : k \in 0..n
        OBVIOUS
      <3> QED  BY <1>4, <2>1, <3>1
    <2>3. SolTypeInv'
      BY <1>1, <1>6, <2>1, <2>2 DEF SolInv, SolTypeInv, Update
    <2> QED  BY <1>6, <2>1, <2>3 DEF SolInv, SubsInv, EmittedInv, RecordedIsEmitted, Update
  <1> QED  BY <1>2, <1>5, <1>6

LEMMA SolStep == SolInv /\ [SolNext]_solVars => SolInv'
  <1> SUFFICES ASSUME SolInv, [SolNext]_solVars PROVE SolInv'
    OBVIOUS
  <1>1. CASE SolNext
    BY <1>1, FinalizeStep, SocketStep, RecvStep, SelectStep, FetchStep DEF SolNext
  <1>2. CASE UNCHANGED solVars
    BY <1>2 DEF solVars, ws, SolInv, SolTypeInv, SubsInv, EmittedInv, RecordedIsEmitted
  <1> QED  BY <1>1, <1>2

LEMMA SolHolds == SolSpec => []SolInv
  BY SolInitially, SolStep, PTL DEF SolSpec

LEMMA SolTypes == SolInv => SolTypeOK
  <1> SUFFICES ASSUME SolInv PROVE SolTypeOK
    OBVIOUS
  <1>1. PICK n : n = tx
    OBVIOUS
  <1>2. 1..n \subseteq 1..MaxTx
    BY <1>1, SolSizes DEF SolInv, SolTypeInv
  <1>3. Sigs(n) \subseteq Sigs(MaxTx) /\ Jobs(n) \subseteq Jobs(MaxTx)
    BY <1>2 DEF Sigs, Jobs
  <1>4. stream \in [All -> Seq(1..MaxTx)]
    <2>1. ASSUME NEW p \in All PROVE stream[p] \in Seq(1..MaxTx)
      <3>1. stream[p] \in Seq(1..n)
        BY <1>1 DEF SolInv, SolTypeInv
      <3> QED  BY <1>2, <3>1, SeqMonotonic
    <2> QED  BY <2>1 DEF SolInv, SolTypeInv
  <1>5. sigCh \in Seq(Sigs(MaxTx))
    <2>1. sigCh \in Seq(Sigs(n))
      BY <1>1 DEF SolInv, SolTypeInv
    <2> QED  BY <1>3, <2>1, SeqMonotonic
  <1>6. jobs \subseteq Jobs(MaxTx)
    BY <1>1, <1>3 DEF SolInv, SolTypeInv
  <1> QED  BY <1>4, <1>5, <1>6 DEF SolInv, SolTypeInv, SolTypeOK, Sigs, Jobs

\* Every variable of the Solana listener has its type; no transaction is under way or
\* recorded that the node has not finalized, and sigCh never exceeds its capacity.
THEOREM SolTypeCorrect == SolSpec => []SolTypeOK
  BY SolHolds, SolTypes, PTL

\* The slot that is recorded as the last block is one whose transaction is in eventCh.
THEOREM RecordedAfterEmit == SolSpec => []RecordedIsEmitted
  <1>1. SolInv => RecordedIsEmitted
    BY DEF SolInv, EmittedInv
  <1> QED  BY <1>1, SolHolds, PTL
=============================================================================
