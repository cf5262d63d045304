-------------------------- MODULE ChainSyncProofs --------------------------
(***************************************************************************)
(* The scanner of ChainSync never gets ahead of the chain and leaves no    *)
(* gap, for every chain, every configuration and every number of faults.   *)
(* Every restart moves the scan back by "confirmations" blocks from a      *)
(* block that may itself lie below an earlier one; the chain must be high  *)
(* enough that this never passes below zero (HighChain).                   *)
(***************************************************************************)
EXTENDS ChainSync, TLAPS

Scanning == pc \in {"fetch", "send"} => current < latest

\* The inductive invariant of type correctness.
TypeInv == TypeOK /\ Scanning

Max == 2^W

LEMMA Width == Max \in Nat /\ MaxHead < Max /\ MaxHead \in Nat /\ Confirmations \in Nat
BY HeightAssumption, ConfigAssumption, SMT DEF Max

LEMMA TypeOKDef ==
    TypeOK <=> /\ fetcher \in {"evm", "tron"} /\ backup \in BOOLEAN
               /\ head \in Head0..MaxHead /\ primaryUp \in BOOLEAN /\ locked \in BOOLEAN
               /\ redis \in 0..MaxHead /\ mysql \in 0..MaxHead /\ upserts \subseteq 1..MaxHead
               /\ pc \in {"down", "standby", "first", "stopped", "idle", "fetch", "send"}
               /\ current \in 0..Max-1 /\ resumed \in 0..Max-1 /\ latest \in 0..MaxHead
               /\ counter \in 0..PersistEvery-1 /\ failCount \in 0..3
               /\ out \subseteq AllEvents /\ ch \subseteq AllEvents /\ busy \subseteq AllEvents
               /\ published \subseteq AllEvents
               /\ faults \in Faults
BY DEF TypeOK, Max

LEMMA ResumeType == ASSUME NEW last \in 0..MaxHead PROVE Resume(last) \in 0..Max-1
<1>1. Max \in Nat \ {0} /\ last - Confirmations \in Int  BY Width
<1>2. (last - Confirmations) % Max \in 0..Max-1  BY <1>1, SMT
<1>3. QED  BY <1>2 DEF Resume, Max

LEMMA ResumeFacts ==
    ASSUME NEW last \in 0..MaxHead, last >= Confirmations
    PROVE  Resume(last) = last - Confirmations
<1>1. (last - Confirmations) % Max = last - Confirmations  BY Width, SMT
<1>2. QED  BY <1>1 DEF Resume, Max

LEMMA RawEventsFacts ==
    ASSUME NEW b \in 1..MaxHead
    PROVE  RawEvents(b) \subseteq AllEvents
BY DEF AllEvents

LEMMA InitType == Init => TypeInv
BY HeightAssumption, ConfigAssumption, Width, TypeOKDef DEF Init, TypeInv, Faults, Scanning

\* A step has at most one fault.
LEMMA FaultFacts ==
    ASSUME TypeOK, NEW k, Fault(k)
    PROVE  /\ faults' \in Faults /\ faults'.count = faults.count + 1
           /\ faults'.kinds = faults.kinds \cup {k}
BY ConfigAssumption DEF Fault, TypeOK, Faults

LEMMA CountType ==
    ASSUME TypeOK
    PROVE  /\ recordFailure => failCount' \in 0..3
           /\ resetFailure => failCount' \in 0..3
BY DEF recordFailure, resetFailure, TypeOK

\* What Start does.
LEMMA StartFacts ==
    ASSUME TypeOK, Start
    PROVE  /\ pc = "down"
           /\ faults' \in Faults /\ (faults' = faults \/ faults'.count = faults.count + 1)
           /\ failCount' = failCount
           /\ \/ pc' = "first" /\ current' = current /\ resumed' = resumed
              \/ /\ pc' = "idle" /\ resumed' = current'
                 /\ \E v \in {redis, mysql} : v > 0 /\ current' = Resume(v)
           /\ locked' = TRUE
           /\ UNCHANGED << fetcher, backup, head, primaryUp, redis, mysql, upserts, counter,
                           latest, out, ch, busy, published >>
<1>1. PICK val \in {redis, 0}, last \in {mysql, 0} : TrackerInit(val, last)  BY DEF Start
<1>2. faults' \in Faults /\ (faults' = faults \/ faults'.count = faults.count + 1)
  <2>1. faults \in Faults  BY DEF TypeOK
  <2>2. QED  BY <2>1, FaultFacts DEF Start
<1>3. QED  BY <1>1, <1>2 DEF Start, TrackerInit, StartAt, node, disk, pool

\* What GetLatest does.
LEMMA GetLatestFacts ==
    ASSUME TypeOK, GetLatest
    PROVE  /\ pc = "first"
           /\ \/ faults' = faults
              \/ /\ faults' \in Faults /\ faults'.count = faults.count + 1
                 /\ faults'.kinds = faults.kinds \cup {"body"}
           /\ failCount' \in 0..3
           /\ \/ pc' = "stopped" /\ current' = current /\ resumed' = resumed
              \/ pc' = "idle" /\ resumed' = current' /\ current' = head
              \/ pc' = "idle" /\ resumed' = current' /\ current' = 0 /\ "body" \in faults'.kinds
           /\ locked' = locked
           /\ UNCHANGED << fetcher, backup, head, primaryUp, redis, mysql, upserts, counter,
                           latest, out, ch, busy, published >>
<1>1. failCount \in 0..3  BY DEF TypeOK
<1>2. CASE ErrorBody /\ StartAt(0)
  <2>1. Fault("body")  BY <1>2 DEF ErrorBody
  <2>2. /\ faults' \in Faults /\ faults'.count = faults.count + 1
        /\ faults'.kinds = faults.kinds \cup {"body"}
    BY <2>1, FaultFacts
  <2>3. QED  BY <1>1, <1>2, <2>2 DEF GetLatest, StartAt, node, disk, pool
<1>3. CASE ~ (ErrorBody /\ StartAt(0))
  BY <1>1, <1>3, CountType DEF GetLatest, StartAt, node, disk, pool
<1>4. QED  BY <1>2, <1>3

\* What LatestBlockNum does.
LEMMA LatestFacts ==
    ASSUME TypeOK, LatestBlockNum
    PROVE  /\ pc = "idle" /\ faults' \in Faults
           /\ faults' = faults \/ faults'.count = faults.count + 1
           /\ \/ latest' = head /\ pc' \in {"idle", "fetch"} /\ (pc' = "fetch" => ~ head <= current)
              \/ latest' \in {latest, 0} /\ pc' = "idle"
           /\ failCount' \in 0..3
           /\ locked' = locked
           /\ UNCHANGED << fetcher, backup, head, primaryUp, redis, mysql, upserts, current,
                           counter, out, ch, busy, published, resumed >>
<1>1. failCount \in 0..3 /\ faults \in Faults  BY DEF TypeOK
<1>2. faults' \in Faults /\ (faults' = faults \/ faults'.count = faults.count + 1)
  BY <1>1, FaultFacts DEF LatestBlockNum, ErrorBody
<1>3. QED  BY <1>1, <1>2, CountType DEF LatestBlockNum, node, disk, pool

\* What FetchBlock does.
LEMMA FetchFacts ==
    ASSUME TypeOK, FetchBlock
    PROVE  /\ pc = "fetch" /\ faults' \in Faults
           /\ faults' = faults \/ faults'.count = faults.count + 1
           /\ pc' \in {"idle", "send", "down"} /\ (pc' = "down" => faults'.count = faults.count + 1)
           /\ failCount' \in 0..3
           /\ upserts' \in {upserts, {}} /\ counter' \in {counter, 0}
           /\ out' \in {out, RawEvents(Block), RawEvents(Block) \ {<< Block, "log" >>}, {}}
           /\ ch' \in {ch, {}} /\ busy' \in {busy, {}}
           /\ locked' = locked
           /\ UNCHANGED << fetcher, backup, head, primaryUp, redis, mysql, current, latest,
                           published, resumed >>
<1> USE DEF FetchBlock, node, disk, pool
<1>1. PICK o \in FetchOutcomes :
         \/ o = "ok"     /\ CallSucceeds /\ Fetched(RawEvents(Block)) /\ UNCHANGED faults
         \/ o = "error"  /\ FetchFails
                         /\ IF CallSucceeds THEN Fault("call") ELSE UNCHANGED faults
         \/ o = "nologs" /\ CallSucceeds
                         /\ Fetched(RawEvents(Block) \ {<< Block, "log" >>}) /\ Fault("half")
         \/ o = "panic"  /\ fetcher = "evm" /\ CallSucceeds /\ Die /\ Fault("half")
         \/ o = "empty"  /\ ErrorBody /\ Fetched({})
  OBVIOUS
<1>2. faults \in Faults  BY DEF TypeOK
<1>3. /\ pc = "fetch"
      /\ UNCHANGED << fetcher, backup, head, primaryUp, redis, mysql, current, latest,
                      published, resumed >>
  OBVIOUS
<1>4. faults' \in Faults /\ (faults' = faults \/ faults'.count = faults.count + 1)
  BY <1>1, <1>2, FaultFacts DEF ErrorBody
<1>5. CASE o \in {"ok", "nologs", "empty"}
  BY <1>1, <1>3, <1>4, <1>5, CountType DEF Fetched
<1>6. CASE o = "error"  BY <1>1, <1>3, <1>4, <1>6, CountType DEF FetchFails
<1>7. CASE o = "panic"  BY <1>1, <1>3, <1>4, <1>7, FaultFacts DEF Die
<1>8. QED  BY <1>5, <1>6, <1>7 DEF FetchOutcomes

\* What Update does.
LEMMA UpdateFacts ==
    ASSUME TypeInv, Update
    PROVE  /\ pc = "send" /\ Block \in 1..MaxHead /\ Block <= latest /\ Block = current + 1
           /\ faults' \in Faults /\ (faults' = faults \/ faults'.count = faults.count + 1)
           /\ current' = Block /\ redis' \in {redis, Block} /\ counter' \in 0..PersistEvery-1
           /\ upserts' \in {upserts, upserts \cup {Block}}
           /\ pc' \in {"fetch", "idle"} /\ (pc' = "fetch" => Block < latest)
           /\ UNCHANGED << fetcher, backup, head, primaryUp, locked, mysql, latest, out, ch, busy,
                           failCount, published, resumed >>
<1>1. /\ pc = "send" /\ Block \in 1..MaxHead /\ Block <= latest /\ Block = current + 1
  BY Width, TypeOKDef DEF TypeInv, Update, Scanning, Block
<1>2. faults' \in Faults /\ (faults' = faults \/ faults'.count = faults.count + 1)
  <2>1. faults \in Faults /\ TypeOK  BY DEF TypeInv, TypeOK
  <2>2. QED  BY <2>1, FaultFacts DEF Update
<1>3. CounterNext \in 0..PersistEvery-1
  BY ConfigAssumption DEF CounterNext, TypeInv, TypeOK
<1>4. QED  BY <1>1, <1>2, <1>3 DEF Update, node, disk, pool

\* What the pool does.
LEMMA WorkFacts ==
    ASSUME TypeOK, Work
    PROVE  /\ ch' \subseteq ch /\ busy' \subseteq busy \cup ch
           /\ published' \subseteq published \cup busy
           /\ faults' \in Faults /\ (faults' = faults \/ faults'.count = faults.count + 1)
           /\ locked' = locked
           /\ UNCHANGED << fetcher, backup, head, primaryUp, redis, mysql, upserts, pc,
                           current, counter, latest, out, failCount, resumed >>
<1> USE DEF node, disk, pool
<1>1. faults \in Faults  BY DEF TypeOK
<1>2. CASE \E x \in ch : Take(x)  BY <1>1, <1>2 DEF Take
<1>3. CASE \E x \in busy : handleRawEvent(x)
  BY <1>1, <1>3, FaultFacts DEF handleRawEvent, Handled
<1>4. QED  BY <1>2, <1>3 DEF Work

\* What the other actions do.
LEMMA OtherFacts ==
    ASSUME TypeOK,
           \/ \E x \in out : Send(x)
           \/ \E b \in upserts : UpsertLastBlock(b)
           \/ NewBlock \/ PrimaryDown \/ PrimaryUp \/ RedisLost \/ Crash
           \/ Standby \/ LockExpires
    PROVE  /\ fetcher' = fetcher /\ backup' = backup
           /\ head' \in {head, head + 1} /\ head' <= MaxHead
           /\ primaryUp' \in BOOLEAN /\ locked' \in BOOLEAN
           /\ redis' \in {redis, 0} /\ mysql' \in {mysql} \cup upserts /\ upserts' \subseteq upserts
           /\ pc' \in {pc, "down", "standby"} /\ (pc' # pc => faults'.count = faults.count + 1)
           /\ counter' \in {counter, 0} /\ failCount' \in {failCount, 0}
           /\ out' \subseteq out /\ ch' \subseteq ch \cup out /\ busy' \subseteq busy
           /\ faults' \in Faults /\ (faults' = faults \/ faults'.count = faults.count + 1)
           /\ UNCHANGED << current, latest, published, resumed >>
<1> USE DEF node, disk, pool
<1>1. /\ faults \in Faults /\ head <= MaxHead /\ primaryUp \in BOOLEAN /\ locked \in BOOLEAN
      /\ head \in Int /\ MaxHead \in Nat
  BY HeightAssumption DEF TypeOK
<1>2. CASE \E x \in out : Send(x)  BY <1>1, <1>2 DEF Send
<1>3. CASE \E b \in upserts : UpsertLastBlock(b)  BY <1>1, <1>3, FaultFacts DEF UpsertLastBlock
<1>4. CASE NewBlock  BY <1>1, <1>4 DEF NewBlock
<1>5. CASE PrimaryDown \/ PrimaryUp  BY <1>1, <1>5, FaultFacts DEF PrimaryDown, PrimaryUp
<1>6. CASE RedisLost  BY <1>1, <1>6, FaultFacts DEF RedisLost
<1>7. CASE Crash  BY <1>1, <1>7, FaultFacts DEF Crash, Die
<1>8. CASE Standby \/ LockExpires  BY <1>1, <1>8, FaultFacts DEF Standby, LockExpires
<1>9. QED  BY <1>2, <1>3, <1>4, <1>5, <1>6, <1>7, <1>8

LEMMA TypeStep ==
    ASSUME TypeInv, [Next]_vars
    PROVE  TypeInv'
<1> USE Width, HeightAssumption, ConfigAssumption
<1>a. TypeOK /\ Scanning  BY DEF TypeInv
<1>t. ASSUME /\ fetcher' \in {"evm", "tron"} /\ backup' \in BOOLEAN
             /\ head' \in Head0..MaxHead /\ primaryUp' \in BOOLEAN /\ locked' \in BOOLEAN
             /\ redis' \in 0..MaxHead /\ mysql' \in 0..MaxHead /\ upserts' \subseteq 1..MaxHead
             /\ pc' \in {"down", "standby", "first", "stopped", "idle", "fetch", "send"}
             /\ current' \in 0..Max-1 /\ resumed' \in 0..Max-1 /\ latest' \in 0..MaxHead
             /\ counter' \in 0..PersistEvery-1 /\ failCount' \in 0..3
             /\ out' \subseteq AllEvents /\ ch' \subseteq AllEvents /\ busy' \subseteq AllEvents
             /\ published' \subseteq AllEvents
             /\ faults' \in Faults
      PROVE  TypeOK'
  BY <1>t DEF TypeOK, Max
<1>1. CASE Start
  <2>1. current' \in 0..Max-1 /\ resumed' \in 0..Max-1
    BY <1>1, <1>a, StartFacts, ResumeType, TypeOKDef
  <2>2. TypeOK'  BY <1>1, <1>a, <1>t, <2>1, StartFacts, TypeOKDef
  <2>3. Scanning'  BY <1>1, <1>a, StartFacts DEF Scanning
  <2>4. QED  BY <2>2, <2>3 DEF TypeInv
<1>2. CASE GetLatest
  <2>1. faults \in Faults  BY <1>a DEF TypeOK
  <2>2. TypeOK'  BY <1>2, <1>a, <1>t, <2>1, GetLatestFacts, TypeOKDef
  <2>3. Scanning'  BY <1>2, <1>a, GetLatestFacts DEF Scanning
  <2>4. QED  BY <2>2, <2>3 DEF TypeInv
<1>3. CASE LatestBlockNum
  <2>1. TypeOK'  BY <1>3, <1>a, <1>t, LatestFacts, TypeOKDef
  <2>2. Scanning'  BY <1>3, <1>a, LatestFacts, TypeOKDef DEF Scanning
  <2>3. QED  BY <2>1, <2>2 DEF TypeInv
<1>4. CASE FetchBlock
  <2>1. Block \in 1..MaxHead
    BY <1>4, <1>a, FetchFacts, TypeOKDef DEF Scanning, Block
  <2>2. RawEvents(Block) \subseteq AllEvents  BY <2>1, RawEventsFacts
  <2>3. TypeOK'  BY <1>4, <1>a, <1>t, <2>2, FetchFacts, TypeOKDef
  <2>4. Scanning'  BY <1>4, <1>a, FetchFacts DEF Scanning
  <2>5. QED  BY <2>3, <2>4 DEF TypeInv
<1>5. CASE Update
  <2>1. TypeOK'  BY <1>5, <1>a, <1>t, UpdateFacts, TypeOKDef
  <2>2. Scanning'  BY <1>5, UpdateFacts DEF Scanning
  <2>3. QED  BY <2>1, <2>2 DEF TypeInv
<1>6. CASE Work
  <2>1. TypeOK'  BY <1>6, <1>a, <1>t, WorkFacts, TypeOKDef
  <2>2. Scanning'  BY <1>6, <1>a, WorkFacts DEF Scanning
  <2>3. QED  BY <2>1, <2>2 DEF TypeInv
<1>7. CASE \/ \E x \in out : Send(x)
           \/ \E b \in upserts : UpsertLastBlock(b)
           \/ NewBlock \/ PrimaryDown \/ PrimaryUp \/ RedisLost \/ Crash
           \/ Standby \/ LockExpires
  <2>1. TypeOK'  BY <1>7, <1>a, <1>t, OtherFacts, TypeOKDef
  <2>2. Scanning'  BY <1>7, <1>a, OtherFacts DEF Scanning
  <2>3. QED  BY <2>1, <2>2 DEF TypeInv
<1>8. CASE UNCHANGED vars
  BY <1>8, <1>a DEF vars, node, disk, pool, TypeInv, TypeOK, Scanning
<1>9. QED
  BY <1>1, <1>2, <1>3, <1>4, <1>5, <1>6, <1>7, <1>8 DEF Next, Listen

\* The variables of the scanner keep their types under every kind of fault: the
\* blocks recorded in Redis and MySQL are block numbers of the chain, also when
\* val - confirmations has wrapped around.
THEOREM TypeCorrect == Spec => []TypeOK
<1>1. Init => TypeInv  BY InitType
<1>2. TypeInv /\ [Next]_vars => TypeInv'  BY TypeStep
<1>3. TypeInv => TypeOK  BY DEF TypeInv
<1>4. QED  BY <1>1, <1>2, <1>3, PTL DEF Spec

-----------------------------------------------------------------------------
(* Never ahead *)

\* How low the scan can be after f crashes.
Floor(f) == Head0 - f * Confirmations

HighChain == Head0 >= (MaxFaults + 1) * Confirmations

Low == IF pc = "down" THEN Floor(faults.count) ELSE Floor(faults.count + 1)

AboveFloor ==
    /\ redis = 0 \/ redis >= Low
    /\ mysql = 0 \/ mysql >= Low
    /\ \A b \in upserts : b >= Low
    /\ pc \in {"idle", "fetch", "send"} => current >= Low

Behind ==
    /\ redis <= head /\ mysql <= head /\ \A b \in upserts : b <= head
    /\ current <= head /\ latest <= head

\* The inductive invariant of NeverAhead, with TypeInv.
HeightInv == "body" \notin faults.kinds => Behind /\ AboveFloor

\* The history of faults is never shortened.
LEMMA KindsGrow == ASSUME [Next]_vars PROVE faults.kinds \subseteq faults'.kinds
<1>1. ASSUME NEW k, Fault(k) PROVE faults.kinds \subseteq faults'.kinds
  BY <1>1 DEF Fault
<1>2. CASE UNCHANGED faults  BY <1>2
<1>3. QED  BY <1>1, <1>2 DEF Next, Listen, Work, Start, GetLatest, ErrorBody, LatestBlockNum,
                             FetchBlock, Send, Update, Take, handleRawEvent, Handled,
                             UpsertLastBlock, NewBlock, PrimaryDown, PrimaryUp, RedisLost,
                             Crash, Standby, LockExpires, vars

LEMMA FloorFacts ==
    ASSUME HighChain, NEW f \in 0..MaxFaults
    PROVE  /\ Floor(f) \in Int /\ Floor(f + 1) \in Int
           /\ Floor(f + 1) = Floor(f) - Confirmations
           /\ Floor(f) >= Confirmations
           /\ Floor(f + 1) >= 0
<1>1. Head0 \in Nat /\ Confirmations \in Nat /\ MaxFaults \in Nat
  BY HeightAssumption, ConfigAssumption
<1>2. (f + 1) * Confirmations = f * Confirmations + Confirmations
  BY <1>1, SMT
<1>3. (f + 1) * Confirmations <= (MaxFaults + 1) * Confirmations
  BY <1>1, SMT
<1>4. f * Confirmations \in Nat /\ (MaxFaults + 1) * Confirmations \in Nat
  BY <1>1, SMT
<1>5. QED  BY <1>1, <1>2, <1>3, <1>4 DEF Floor, HighChain

LEMMA InitHeight ==
    ASSUME HighChain, Init
    PROVE  HeightInv
<1>1. Behind  BY HeightAssumption DEF Init, Behind
<1>2. Floor(0) = Head0 /\ Low = Floor(0)
  BY HeightAssumption, ConfigAssumption DEF Init, Low, Floor
<1>3. AboveFloor  BY <1>2, HeightAssumption DEF Init, AboveFloor
<1>4. QED  BY <1>1, <1>3 DEF HeightInv

\* What every action does to the number of faults, and Low with it.
LEMMA LowFacts ==
    ASSUME HighChain, TypeOK, TypeOK',
           \/ faults' = faults \/ faults'.count = faults.count + 1,
           pc' = "down" /\ pc # "down" => faults'.count = faults.count + 1
    PROVE  /\ Low \in Int /\ Low' \in Int /\ Low' <= Low
           /\ pc = "down" => Low >= Confirmations
           /\ pc = "down" /\ pc' # "down" => Low' <= Low - Confirmations
           /\ Low' >= 0
<1>1. faults.count \in 0..MaxFaults /\ faults'.count \in 0..MaxFaults  BY DEF TypeOK, Faults
<1>2. Confirmations \in Nat /\ MaxFaults \in Nat  BY ConfigAssumption
<1>3. /\ Floor(faults.count) \in Int /\ Floor(faults.count + 1) \in Int
      /\ Floor(faults.count + 1) = Floor(faults.count) - Confirmations
      /\ Floor(faults.count) >= Confirmations
      /\ Floor(faults.count + 1) >= 0
  BY <1>1, FloorFacts
<1>4. /\ Floor(faults'.count) \in Int /\ Floor(faults'.count + 1) \in Int
      /\ Floor(faults'.count + 1) = Floor(faults'.count) - Confirmations
      /\ Floor(faults'.count) >= Confirmations
      /\ Floor(faults'.count + 1) >= 0
  BY <1>1, FloorFacts
<1>5. Low = IF pc = "down" THEN Floor(faults.count) ELSE Floor(faults.count + 1)  BY DEF Low
<1>6. Low' = IF pc' = "down" THEN Floor(faults'.count) ELSE Floor(faults'.count + 1)
  BY DEF Low, Floor
<1>7. CASE faults' = faults
  BY <1>2, <1>3, <1>4, <1>5, <1>6, <1>7
<1>8. CASE faults'.count = faults.count + 1
  <2>1. Floor(faults'.count) = Floor(faults.count + 1)  BY <1>8
  <2>2. QED  BY <1>2, <1>3, <1>4, <1>5, <1>6, <2>1
<1>9. QED  BY <1>7, <1>8

\* AboveFloor survives a step that lowers nothing: the disk values are kept or
\* become blocks at or above Low, and so is tracker.current.
LEMMA FloorKept ==
    ASSUME HighChain, TypeOK, TypeOK', AboveFloor,
           faults' = faults \/ faults'.count = faults.count + 1,
           pc' = "down" /\ pc # "down" => faults'.count = faults.count + 1,
           redis' \in {0, redis} \/ redis' >= Low,
           mysql' \in {0, mysql} \/ mysql' >= Low,
           \A b \in upserts' : b \in upserts \/ b >= Low,
           pc' \in {"idle", "fetch", "send"} => current' >= Low
    PROVE  AboveFloor'
<1>1. Low \in Int /\ Low' \in Int /\ Low' <= Low
  BY LowFacts
<1>2. /\ redis' \in Int /\ mysql' \in Int /\ current' \in Int /\ upserts' \subseteq Int
      /\ redis \in Int /\ mysql \in Int /\ upserts \subseteq Int
  <2>1. redis \in Int /\ mysql \in Int /\ upserts \subseteq Int  BY Width, TypeOKDef
  <2>2. redis' \in Int /\ mysql' \in Int /\ upserts' \subseteq Int
    BY HeightAssumption DEF TypeOK
  <2>3. current' \in 0..Max-1  BY DEF TypeOK, Max
  <2>4. QED  BY <2>1, <2>2, <2>3, Width
<1>3. redis' = 0 \/ redis' >= Low  BY <1>1, <1>2 DEF AboveFloor
<1>4. mysql' = 0 \/ mysql' >= Low  BY <1>1, <1>2 DEF AboveFloor
<1>5. \A b \in upserts' : b >= Low  BY <1>1, <1>2 DEF AboveFloor
<1>6. /\ redis' = 0 \/ redis' >= Low'
      /\ mysql' = 0 \/ mysql' >= Low'
      /\ \A b \in upserts' : b >= Low'
      /\ pc' \in {"idle", "fetch", "send"} => current' >= Low'
  BY <1>1, <1>2, <1>3, <1>4, <1>5
<1>7. QED  BY <1>6 DEF AboveFloor

\* The step that moves the scan back.
LEMMA StartHeight ==
    ASSUME HighChain, TypeOK, TypeOK', Behind, AboveFloor, Start
    PROVE  Behind' /\ AboveFloor'
<1>a. /\ Confirmations \in Nat /\ MaxHead \in Nat /\ Head0 \in Nat /\ pc = "down"
      /\ head \in Nat /\ redis \in 0..MaxHead /\ mysql \in 0..MaxHead /\ upserts \subseteq Int
      /\ current \in Nat /\ faults.count \in 0..MaxFaults
  BY HeightAssumption, ConfigAssumption, Width, TypeOKDef, StartFacts DEF Faults
<1>1. /\ Low = Floor(faults.count) /\ Low \in Int /\ Low >= Confirmations
  BY <1>a, FloorFacts DEF Low
<1>2. ASSUME NEW v \in {redis, mysql}, v > 0
      PROVE  Resume(v) = v - Confirmations /\ v <= head /\ v >= Low /\ v \in Int
  <2>1. v \in 0..MaxHead /\ v >= Low /\ v <= head
    BY <1>a, <1>2 DEF AboveFloor, Behind
  <2>2. v >= Confirmations  BY <1>a, <1>1, <2>1
  <2>3. QED  BY <2>1, <2>2, ResumeFacts
<1>3. /\ pc' \in {"first", "idle"} /\ current' \in 0..head
      /\ pc' = "idle" => current' >= Low - Confirmations
  <2>1. CASE pc' = "first"  BY <2>1, <1>a, StartFacts DEF Behind
  <2>2. CASE pc' = "idle"
    <3>1. PICK v \in {redis, mysql} : v > 0 /\ current' = Resume(v)  BY <2>2, StartFacts
    <3>2. Resume(v) = v - Confirmations /\ v <= head /\ v >= Low /\ v \in Int  BY <3>1, <1>2
    <3>3. QED  BY <2>2, <3>1, <3>2, <1>1, <1>a
  <2>3. QED  BY <2>1, <2>2, StartFacts
<1>u. UNCHANGED << head, redis, mysql, upserts, latest >>  BY StartFacts
<1>4. Behind'  BY <1>3, <1>a, <1>u DEF Behind
<1>5. Low' \in Int /\ Low' <= Low - Confirmations
  BY <1>3, <1>a, StartFacts, LowFacts
<1>6. /\ redis' = 0 \/ redis' >= Low'
      /\ mysql' = 0 \/ mysql' >= Low'
      /\ \A b \in upserts' : b >= Low'
  <2>1. Low' <= Low /\ Low' \in Int  BY <1>1, <1>5, <1>a
  <2>2. QED  BY <1>1, <2>1, <1>a, <1>u DEF AboveFloor
<1>7. pc' \in {"idle", "fetch", "send"} => current' >= Low'  BY <1>1, <1>3, <1>5, <1>a
<1>8. QED  BY <1>4, <1>6, <1>7 DEF AboveFloor

LEMMA HeightStep ==
    ASSUME HighChain, TypeInv, TypeInv', HeightInv, [Next]_vars
    PROVE  HeightInv'
<1> SUFFICES ASSUME "body" \notin faults'.kinds PROVE Behind' /\ AboveFloor'
  BY DEF HeightInv
<1>a. TypeOK /\ TypeOK' /\ Scanning  BY DEF TypeInv
<1>b. Behind /\ AboveFloor  BY KindsGrow DEF HeightInv
<1>c. /\ head \in Head0..MaxHead /\ redis \in Nat /\ mysql \in Nat /\ upserts \subseteq Nat
      /\ current \in Nat /\ latest \in Nat /\ Head0 \in Nat /\ MaxHead \in Nat
      /\ faults.count \in 0..MaxFaults
  BY <1>a, Width, HeightAssumption, TypeOKDef DEF Faults
<1>d. Low \in Int /\ Low <= Head0
  <2>1. /\ Floor(faults.count) \in Int /\ Floor(faults.count + 1) \in Int
        /\ Floor(faults.count + 1) = Floor(faults.count) - Confirmations
    BY <1>c, FloorFacts
  <2>2. Floor(faults.count) <= Head0
    <3>1. faults.count * Confirmations \in Nat  BY <1>c, ConfigAssumption, SMT
    <3>2. QED  BY <3>1, <1>c DEF Floor
  <2>3. QED  BY <2>1, <2>2, <1>c, Width DEF Low
<1>1. CASE Start  BY <1>1, <1>a, <1>b, StartHeight
<1>2. CASE GetLatest
  <2>1. current' \in {current, head} /\ (pc' = "idle" => current' = head) /\ pc' \in {"idle", "stopped"}
    BY <1>2, <1>a, GetLatestFacts
  <2>u. UNCHANGED << head, redis, mysql, upserts, latest >>  BY <1>2, <1>a, GetLatestFacts
  <2>2. Behind'  BY <2>1, <2>u, <1>b, <1>c DEF Behind
  <2>3. pc' = "idle" => current' >= Low  BY <2>1, <1>c, <1>d
  <2>4. AboveFloor'  BY <1>2, <2>1, <2>3, <1>a, <1>b, GetLatestFacts, FloorKept
  <2>5. QED  BY <2>2, <2>4
<1>3. CASE LatestBlockNum
  <2>u. UNCHANGED << head, redis, mysql, upserts, current >> /\ latest' \in {latest, head, 0}
    BY <1>3, <1>a, LatestFacts
  <2>1. Behind'  BY <2>u, <1>b, <1>c DEF Behind
  <2>2. AboveFloor'  BY <1>3, <1>a, <1>b, LatestFacts, FloorKept DEF AboveFloor
  <2>3. QED  BY <2>1, <2>2
<1>4. CASE FetchBlock
  <2>1. Behind'  BY <1>4, <1>a, <1>b, FetchFacts DEF Behind
  <2>2. AboveFloor'  BY <1>4, <1>a, <1>b, FetchFacts, FloorKept DEF AboveFloor
  <2>3. QED  BY <2>1, <2>2
<1>5. CASE Update
  <2>1. Block \in Int /\ Block <= head /\ Block >= Low
    BY <1>5, <1>b, <1>c, <1>d, UpdateFacts DEF Behind, AboveFloor
  <2>2. Behind'  BY <1>5, <2>1, <1>b, UpdateFacts DEF Behind
  <2>3. AboveFloor'  BY <1>5, <2>1, <1>a, <1>b, UpdateFacts, FloorKept
  <2>4. QED  BY <2>2, <2>3
<1>6. CASE Work
  <2>1. Behind'  BY <1>6, <1>a, <1>b, WorkFacts DEF Behind
  <2>2. AboveFloor'  BY <1>6, <1>a, <1>b, WorkFacts, FloorKept DEF AboveFloor
  <2>3. QED  BY <2>1, <2>2
<1>7. CASE \/ \E x \in out : Send(x)
           \/ \E b \in upserts : UpsertLastBlock(b)
           \/ NewBlock \/ PrimaryDown \/ PrimaryUp \/ RedisLost \/ Crash
           \/ Standby \/ LockExpires
  <2>u. /\ head' \in {head, head + 1} /\ redis' \in {redis, 0} /\ mysql' \in {mysql} \cup upserts
        /\ upserts' \subseteq upserts /\ UNCHANGED << current, latest >>
    BY <1>7, <1>a, OtherFacts
  <2>1. Behind'  BY <2>u, <1>b, <1>c DEF Behind
  <2>2. /\ mysql' \in {0, mysql} \/ mysql' >= Low
        /\ pc' \in {"idle", "fetch", "send"} => current' >= Low
        /\ pc' = "down" /\ pc # "down" => faults'.count = faults.count + 1
    BY <1>7, <1>a, <1>b, OtherFacts DEF AboveFloor
  <2>3. AboveFloor'  BY <1>7, <2>2, <1>a, <1>b, OtherFacts, FloorKept
  <2>4. QED  BY <2>1, <2>3
<1>8. CASE UNCHANGED vars
  <2>1. Behind'  BY <1>8, <1>b DEF vars, node, disk, pool, Behind
  <2>2. AboveFloor'  BY <1>8, <1>b DEF vars, node, disk, pool, AboveFloor, Low, Floor
  <2>3. QED  BY <2>1, <2>2
<1>9. QED
  BY <1>1, <1>2, <1>3, <1>4, <1>5, <1>6, <1>7, <1>8 DEF Next, Listen

\* The scanner (Init, Update and the MySQL goroutines of BlockTracker) never
\* records or resumes after a block the chain does not have yet, through crashes,
\* losses and outages, until a TRON node's error is taken for block 0.
THEOREM NeverAheadHolds ==
    ASSUME HighChain
    PROVE  Spec => []NeverAhead
<1>1. Init => TypeInv /\ HeightInv  BY InitType, InitHeight
<1>2. TypeInv /\ HeightInv /\ [Next]_vars => (TypeInv /\ HeightInv)'  BY TypeStep, HeightStep
<1>3. HeightInv => NeverAhead  BY DEF HeightInv, NeverAhead, Behind
<1>4. QED  BY <1>1, <1>2, <1>3, PTL DEF Spec

-----------------------------------------------------------------------------
(* No gap *)

\* NoGap, and the block being sent is complete.
GapInv ==
    /\ NoGap
    /\ pc = "send" /\ faults.kinds \cap {"half", "body", "publish"} = {} =>
           RawEvents(Block) \subseteq out \cup ch \cup busy \cup published

LEMMA GapStep ==
    ASSUME TypeInv, TypeInv', GapInv, [Next]_vars
    PROVE  GapInv'
<1> USE DEF node, disk, pool
<1> SUFFICES ASSUME faults'.kinds \cap {"half", "body", "publish"} = {} PROVE GapInv'
  BY DEF GapInv, NoGap
<1>0. faults.kinds \cap {"half", "body", "publish"} = {}  BY KindsGrow
<1>a. /\ MaxHead \in Nat /\ current \in Nat /\ current' \in Nat /\ resumed \in Nat
      /\ resumed' \in Nat
  BY HeightAssumption, Width, TypeOKDef DEF TypeInv, TypeOK, Max
<1>b. ~ Fault("half") /\ ~ Fault("publish") /\ ~ ErrorBody  BY DEF Fault, ErrorBody
<1>1. CASE Start
  <2>1. pc' \in {"first", "idle"} /\ (pc' = "idle" => current' = resumed')
    BY <1>0, <1>1 DEF Start, TrackerInit, StartAt
  <2>2. QED  BY <1>0, <2>1, <1>a DEF GapInv, NoGap
<1>r. CASE GetLatest
  <2>1. pc' \in {"stopped", "idle"} /\ (pc' = "idle" => current' = resumed')
    BY <1>r DEF GetLatest, StartAt
  <2>2. QED  BY <2>1, <1>a DEF GapInv, NoGap
<1>2. CASE LatestBlockNum
  <2>1. /\ pc = "idle" /\ pc' \in {"idle", "fetch"}
        /\ UNCHANGED << current, ch, busy, published, resumed >>
    BY <1>0, <1>2 DEF LatestBlockNum
  <2>2. QED  BY <1>0, <2>1 DEF GapInv, NoGap
<1>3. CASE FetchBlock
  <2>1. /\ pc = "fetch"
        /\ UNCHANGED << current, ch, busy, published, resumed >>
        /\ \/ pc' = "idle"
           \/ pc' = "send" /\ out' = RawEvents(Block)
    BY <1>0, <1>3, <1>b DEF FetchBlock, Fetched, FetchFails
  <2>2. QED  BY <1>0, <2>1 DEF GapInv, NoGap, Block
<1>4. CASE \E x \in out : Send(x)
  BY <1>0, <1>4 DEF Send, GapInv, NoGap, Block
<1>5. CASE Update
  <2>1. /\ pc = "send" /\ out = {} /\ current' = current + 1 /\ pc' \in {"fetch", "idle"}
        /\ UNCHANGED << ch, busy, published, resumed >>
    BY <1>0, <1>5 DEF Update, Block
  <2>2. RawEvents(current + 1) \subseteq ch \cup busy \cup published
    BY <1>0, <2>1 DEF GapInv, Block
  <2>3. ASSUME NEW b \in 1..MaxHead, resumed < b, b <= current'
        PROVE  RawEvents(b) \subseteq published \cup ch \cup busy
    <3>1. b <= current \/ b = current + 1  BY <1>0, <2>1, <2>3, <1>a
    <3>2. CASE b <= current  BY <1>0, <3>2, <2>1, <2>3 DEF GapInv, NoGap
    <3>3. CASE b = current + 1  BY <1>0, <3>3, <2>2
    <3>4. QED  BY <1>0, <3>1, <3>2, <3>3
  <2>4. QED  BY <1>0, <2>1, <2>3 DEF GapInv, NoGap
<1>6. CASE Work
  <2>1. /\ UNCHANGED << pc, current, out, resumed >>
        /\ ch \cup busy \cup published \subseteq ch' \cup busy' \cup published'
    <3>1. CASE \E x \in ch : Take(x)  BY <1>0, <3>1 DEF Take
    <3>2. CASE \E x \in busy : handleRawEvent(x)
      BY <1>0, <3>2, <1>b DEF handleRawEvent, Handled
    <3>3. QED  BY <1>0, <1>6, <3>1, <3>2 DEF Work
  <2>2. QED  BY <1>0, <2>1 DEF GapInv, NoGap, Block
<1>7. CASE \E b \in upserts : UpsertLastBlock(b)
  BY <1>0, <1>7 DEF UpsertLastBlock, GapInv, NoGap, Block
<1>8. CASE NewBlock  BY <1>0, <1>8 DEF NewBlock, GapInv, NoGap, Block
<1>9. CASE PrimaryDown \/ PrimaryUp \/ RedisLost
  BY <1>0, <1>9 DEF PrimaryDown, PrimaryUp, RedisLost, GapInv, NoGap, Block
<1>10. CASE Crash  BY <1>0, <1>10 DEF Crash, Die, GapInv, NoGap
<1>11. CASE Standby \/ LockExpires
  BY <1>0, <1>11 DEF Standby, LockExpires, GapInv, NoGap, Block
<1>12. CASE UNCHANGED vars  BY <1>0, <1>12 DEF vars, GapInv, NoGap, Block
<1>13. QED
  BY <1>1, <1>r, <1>2, <1>3, <1>4, <1>5, <1>6, <1>7, <1>8, <1>9, <1>10, <1>11, <1>12 DEF Next, Listen

\* As long as no call of FetchBlock fails unnoticed, no error is taken for a block
\* and no Publish gives up, poll never passes a block without handing all its events
\* on, through crashes, restarts, lost Redis keys, failed writes and RPC outages.
THEOREM NoGapHolds == Spec => []NoGap
<1>1. Init => TypeInv /\ GapInv
  <2>1. Init => GapInv  BY DEF Init, GapInv, NoGap
  <2>2. QED  BY <2>1, InitType
<1>2. TypeInv /\ GapInv /\ [Next]_vars => (TypeInv /\ GapInv)'
  BY TypeStep, GapStep
<1>3. GapInv => NoGap  BY DEF GapInv
<1>4. QED  BY <1>1, <1>2, <1>3, PTL DEF Spec
=============================================================================
