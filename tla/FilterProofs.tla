---------------------------- MODULE FilterProofs ----------------------------
(***************************************************************************)
(* The two filters an event passes in a worker: of addresses (Address-     *)
(* Filter) and of token contracts (ContractFilter).                        *)
(*                                                                         *)
(* No watched address is forgotten (Covered) as long as the filters were   *)
(* built from all rows, for any number of addresses, chains, pages and     *)
(* restarts, and any faults.                                               *)
(*                                                                         *)
(* A worker filters by one list of contracts at a time (OneList) and an    *)
(* event gets all its answers from one list (TokenIsListed).               *)
(***************************************************************************)
EXTENDS AddressFilter, ContractFilter,
        FiniteSetTheorems, SequenceTheorems, WellFoundedInduction, TLAPS

-----------------------------------------------------------------------------
(* The inductive invariant of AddressFilter *)

\* The types but for the marks; no row has an id above the last that was given.
Types ==
    /\ id \in [Subs -> Nat] /\ created \in [Subs -> Nat] /\ nextId \in Nat
    /\ \A s \in Subs : id[s] <= nextId
    /\ status \in [Subs -> {"none", "open", "live", "deleted"}]
    /\ open \cup notify \subseteq (SUBSET Subs) \ {{}}
    /\ enabled \subseteq Chains
    /\ phase \in {"down", "count", "find", "running"}
    /\ page \in Nat /\ total \in Nat /\ maxID \in Nat
    /\ lastDBSyncID \in Nat /\ snapMax \in Nat \cup {-1}
    /\ written \subseteq enabled /\ snapped \subseteq enabled
    /\ DOMAIN bf = Chains /\ DOMAIN snap = Chains /\ DOMAIN incr = Chains
    /\ chan \in Seq(Message)
    /\ faults \in 0..MaxFaults

\* The open inserts and their rows.
Table ==
    /\ \A r, q \in open : r \cap q # {} => r = q
    /\ \A s \in Subs : status[s] = "open" <=> \E r \in open : s \in r
    /\ \A s \in Subs : status[s] # "none" => id[s] > 0

\* No watermark is ahead of the table, and a worker has a chain.
Bounds ==
    /\ lastDBSyncID <= nextId /\ maxID <= nextId /\ snapMax <= nextId
    /\ enabled # {}

CoveredBy(filters, chains, n) ==
    \A s \in Live : ChainOf[s] \in chains => InFilter(filters, s) \/ id[s] > n

\* The rows with a higher id.
Above(s) == {t \in Live : id[t] > id[s]}

\* The pages that LoadFromDB has read held the newest rows.
Read ==
    \A s \in Live : ChainOf[s] \in enabled =>
        \/ InFilter(bf, s) \/ id[s] > maxID
        \/ Cardinality(Above(s)) >= (page - 1) * PageSize

RunInv == phase = "running" /\ whole =>
              Settled(lastDBSyncID) /\ CoveredBy(bf, enabled, lastDBSyncID)

LoadInv == phase \in {"count", "find"} =>
               page >= 1 /\ lastDBSyncID = 0 /\ (whole => Settled(maxID) /\ Read)

SnapInv == intact => Settled(snapMax) /\ CoveredBy(snap, snapped, snapMax)

\* What SnapshotBF has written will suit the watermark that it writes at the end.
WriteInv == written # {} =>
                /\ phase = "running"
                /\ clean => /\ whole /\ written \subseteq snapped
                            /\ CoveredBy(snap, written, lastDBSyncID)

FilterInv == Table /\ Bounds /\ RunInv /\ LoadInv /\ SnapInv /\ WriteInv

-----------------------------------------------------------------------------
(* Finite sets of ids *)

LEMMA MaxExists ==
    ASSUME NEW R, R # {}, NEW f, \A s \in R : f[s] \in Nat, NEW n \in Nat,
           \A s \in R : f[s] <= n
    PROVE  \E s \in R : \A t \in R : f[t] <= f[s]
<1> DEFINE T == {n - f[s] : s \in R}
<1>1. T \subseteq Nat /\ T # {}  BY SMT
<1>2. IsWellFoundedOn(OpToRel(<, Nat), Nat)  BY NatLessThanWellFounded
<1>3. \E x \in T : \A y \in T : ~ (<< y, x >> \in OpToRel(<, Nat))
  BY <1>1, <1>2, WFMin
<1>4. PICK x \in T : \A y \in T : ~ (<< y, x >> \in OpToRel(<, Nat))  BY <1>3
<1>5. \A y \in T : ~ (y < x)
  <2> TAKE y \in T
  <2>1. << y, x >> \in Nat \X Nat  BY <1>1, <1>4
  <2>2. << y, x >> \notin {ss \in Nat \X Nat : ss[1] < ss[2]}  BY <1>4 DEF OpToRel
  <2>3. QED  BY <2>1, <2>2
<1>6. PICK s \in R : x = n - f[s]  BY <1>4
<1>7. \A t \in R : ~ (n - f[t] < n - f[s])  BY <1>5, <1>6
<1>8. QED  BY <1>6, <1>7

\* MaxOf is n or the id of a row, and no row is above it.
LEMMA MaxOfFacts ==
    ASSUME Types, NEW n \in Int, NEW rows \in SUBSET Subs
    PROVE  /\ MaxOf(n, rows) = n \/ \E s \in rows : MaxOf(n, rows) = id[s]
           /\ MaxOf(n, rows) \in Int /\ MaxOf(n, rows) >= n
           /\ \A s \in rows : id[s] <= MaxOf(n, rows)
<1>1. CASE \E s \in rows : id[s] > n
  <2>1. \E s \in rows : \A t \in rows : id[t] <= id[s]  BY <1>1, MaxExists DEF Types
  <2> DEFINE m == CHOOSE s \in rows : \A t \in rows : id[t] <= id[s]
  <2>2. m \in rows /\ \A t \in rows : id[t] <= id[m]  BY <2>1
  <2>3. MaxOf(n, rows) = id[m]  BY <1>1 DEF MaxOf
  <2> HIDE DEF m
  <2>4. id[m] > n  BY <1>1, <2>2 DEF Types
  <2>5. QED  BY <2>2, <2>3, <2>4 DEF Types
<1>2. CASE ~ \E s \in rows : id[s] > n
  <2>1. MaxOf(n, rows) = n  BY <1>2 DEF MaxOf
  <2>2. QED  BY <1>2, <2>1 DEF Types
<1>3. QED  BY <1>1, <1>2

\* A set whose members have different places after a and up to b is no larger.
LEMMA PlacesBound ==
    ASSUME NEW S, NEW f, \A s, t \in S : s # t => f[s] # f[t],
           NEW a \in Nat, NEW b \in Nat, a <= b, \A s \in S : f[s] \in a+1 .. b
    PROVE  IsFiniteSet(S) /\ Cardinality(S) <= b - a
<1> DEFINE g == [s \in S |-> f[s]]
<1>1. g \in Injection(S, a+1 .. b)  BY DEF Injection, IsInjective
<1>2. IsFiniteSet(a+1 .. b) /\ Cardinality(a+1 .. b) = b - a
  <2>1. /\ IsFiniteSet(a+1 .. b)
        /\ Cardinality(a+1 .. b) = IF a+1 > b THEN 0 ELSE b - (a+1) + 1
    <3>1. a+1 \in Int /\ b \in Int  OBVIOUS
    <3>2. QED  BY <3>1, FS_Interval, Zenon
  <2>2. QED  BY <2>1
<1>3. QED  BY <1>1, <1>2, FS_Injection

\* The first k of n places are all taken.
LEMMA PlacesTaken ==
    ASSUME NEW S, IsFiniteSet(S), NEW f \in [S -> 1..Cardinality(S)],
           \A s, t \in S : s # t => f[s] # f[t],
           NEW k \in Nat, k <= Cardinality(S)
    PROVE  Cardinality({s \in S : f[s] <= k}) >= k
<1> DEFINE B == {s \in S : f[s] <= k}  C == {s \in S : f[s] > k}
<1>1. Cardinality(S) \in Nat /\ IsFiniteSet(B) /\ IsFiniteSet(C)
  BY FS_CardinalityType, FS_Subset
<1>2. Cardinality(B) \in Nat /\ Cardinality(C) \in Nat /\ S = B \cup C /\ B \cap C = {}
  BY <1>1, FS_CardinalityType
<1>3. Cardinality(C) <= Cardinality(S) - k
  <2>1. \A s \in C : f[s] \in k+1 .. Cardinality(S)  BY <1>1
  <2>2. \A s, t \in C : s # t => f[s] # f[t]  OBVIOUS
  <2> HIDE DEF C
  <2>3. QED  BY <1>1, <2>1, <2>2, PlacesBound
<1> HIDE DEF B, C
<1>4. Cardinality(S) = Cardinality(B) + Cardinality(C)
  <2>1. Cardinality(B \cap C) = 0  BY <1>2, FS_EmptySet
  <2>2. Cardinality(B \cup C) = Cardinality(B) + Cardinality(C) - Cardinality(B \cap C)
    BY <1>1, FS_Union
  <2>3. Cardinality(S) = Cardinality(B \cup C)  BY <1>2
  <2>4. QED  BY <1>2, <2>1, <2>2, <2>3
<1>5. Cardinality(B) >= k  BY <1>1, <1>2, <1>3, <1>4
<1>6. QED  BY <1>5 DEF B

LEMMA WithFacts ==
    ASSUME enabled \subseteq Chains, NEW filters, DOMAIN filters = Chains,
           NEW rows \in SUBSET Live
    PROVE  /\ DOMAIN With(filters, rows) = Chains
           /\ \A s \in Live : InFilter(filters, s) => InFilter(With(filters, rows), s)
           /\ \A s \in rows : ChainOf[s] \in enabled => InFilter(With(filters, rows), s)
<1>1. \A s \in Live : s \in Subs /\ ChainOf[s] \in Chains  BY SubsAssumption DEF Live
<1>2. QED  BY <1>1 DEF With, InFilter

-----------------------------------------------------------------------------
(* Types *)

FaultType == faults' \in 0..MaxFaults

LEMMA TypeFault ==
    ASSUME Types, NEW k, Fault(k) \/ UNCHANGED faults
    PROVE  FaultType
  BY BoundAssumption DEF Types, Fault, FaultType

LEMMA TypeMaxOf ==
    ASSUME Types, NEW n \in Nat, NEW rows \in SUBSET Subs
    PROVE  MaxOf(n, rows) \in Nat
<1>1. /\ MaxOf(n, rows) \in Int /\ MaxOf(n, rows) >= n
  BY MaxOfFacts DEF Types
<1>2. QED  BY <1>1

MarksOK == whole \in BOOLEAN /\ clean \in BOOLEAN /\ intact \in BOOLEAN

\* The history of the filters stays Boolean.
LEMMA TypeMarks ==
    ASSUME MarksOK, Next
    PROVE  MarksOK'
<1> USE DEF marks, MarksOK
<1>2. CASE Api
  BY <1>2, Zenon DEF Api, Insert, Commit, Rollback, Announce, Delete
<1>3. CASE handleAddressEvent \/ LoseMessage \/ syncFromDB
  BY <1>3, Zenon DEF handleAddressEvent, LoseMessage, syncFromDB
<1>4. CASE Start
  BY <1>4, Zenon DEF Start, RestoreBF, StartLoading
<1>5. CASE LoadFromDB \/ LoadFails \/ Crash \/ Reconfigure
  BY <1>5, Zenon DEF LoadFromDB, Count, Find, LoadFails, Crash, Reconfigure
<1>6. CASE Snapshot
  BY <1>6, Zenon DEF Snapshot, SnapshotChain, SnapshotMaxID
<1>7. QED  BY <1>2, <1>3, <1>4, <1>5, <1>6 DEF Next

LEMMA TypeInsert ==
    ASSUME Types, NEW r \in SUBSET Subs, Insert(r)
    PROVE  Types'
<1>1. Cardinality(r) \in Nat  BY SubsAssumption, FS_Subset, FS_CardinalityType
<1>2. PICK f \in [r -> nextId+1 .. nextId+Cardinality(r)] :
          id' = [s \in Subs |-> IF s \in r THEN f[s] ELSE id[s]]
  BY DEF Insert
<1>3. nextId' = nextId + Cardinality(r) /\ nextId \in Nat  BY DEF Insert, Types
<1>4. \A s \in Subs : id'[s] \in Nat /\ id'[s] <= nextId'
  BY <1>1, <1>2, <1>3 DEF Types
<1>5. id' \in [Subs -> Nat] /\ nextId' \in Nat  BY <1>1, <1>2, <1>3, <1>4
<1>6. created' \in [Subs -> Nat]
  <2>1. PICK n \in Stamps : created' = [s \in Subs |-> IF s \in r THEN n ELSE created[s]]
    BY DEF Insert
  <2>2. n \in Nat  BY DEF Stamps
  <2>3. QED  BY <2>1, <2>2 DEF Types
<1>7. QED  BY <1>4, <1>5, <1>6 DEF Insert, Types, redis, worker

\* A request names the chain of its triples, and the address of a single one.
LEMMA TypeMessages ==
    ASSUME Types, NEW r \in (SUBSET Subs) \ {{}}
    PROVE  Chain(r) \in Chains /\ Messages(r) \subseteq Message
<1>1. Chain(r) \in Chains  BY SubsAssumption DEF Chain
<1>2. IsFiniteSet(r) /\ Cardinality(r) \in Nat /\ Cardinality(r) # 0
  BY SubsAssumption, FS_Subset, FS_CardinalityType, FS_EmptySet
<1>3. ASSUME Cardinality(r) = 1  PROVE Pushed(r)[1] \in {AddrOf[s] : s \in Subs}
  <2>1. PICK s : r = {s}  BY <1>2, <1>3, FS_Singleton
  <2>2. s \in Subs /\ id[s] >= id[s]  BY <2>1 DEF Types
  <2>3. {t \in r : id[t] >= id[s]} = r  BY <2>1, <2>2
  <2>4. \E q \in r : Cardinality({t \in r : id[t] >= id[q]}) = 1  BY <1>3, <2>1, <2>3
  <2> DEFINE q == CHOOSE q \in r : Cardinality({t \in r : id[t] >= id[q]}) = 1
  <2>5. q \in r  BY <2>4
  <2>6. Pushed(r)[1] = AddrOf[q]  BY <1>3 DEF Pushed
  <2> HIDE DEF q
  <2>7. QED  BY <2>5, <2>6
<1>4. QED  BY <1>1, <1>2, <1>3 DEF Messages, Message

LEMMA TypeApi ==
    ASSUME Types, Api
    PROVE  Types'
<1>1. ASSUME NEW r \in open, Commit(r)  PROVE Types'
  BY <1>1 DEF Commit, Types, redis, worker
<1>2. ASSUME NEW r \in open, Rollback(r)  PROVE Types'
  <2>1. FaultType  BY <1>2, TypeFault DEF Rollback
  <2>2. QED  BY <1>2, <2>1 DEF Rollback, Types, FaultType, redis, worker
<1>3. ASSUME NEW r \in notify, Announce(r)  PROVE Types'
  <2>1. FaultType  BY <1>3, TypeFault DEF Announce
  <2>2. Chain(r) \in Chains /\ Messages(r) \subseteq Message
    BY TypeMessages DEF Types
  <2>3. chan' \in Seq(Message)
    <3>1. chan \in Seq(Message)  BY DEF Types
    <3>2. \A m \in Messages(r) : Append(chan, m) \in Seq(Message)
      BY <2>2, <3>1, AppendProperties
    <3>3. QED  BY <1>3, <3>1, <3>2 DEF Announce
  <2>4. DOMAIN incr' = Chains  BY <1>3 DEF Announce, Types
  <2>5. QED  BY <1>3, <2>1, <2>3, <2>4 DEF Announce, Types, FaultType, table, worker
<1>4. ASSUME NEW s \in Subs, Delete(s)  PROVE Types'
  BY <1>4 DEF Delete, Types, redis, worker
<1>5. QED  BY <1>1, <1>2, <1>3, <1>4, TypeInsert DEF Api

LEMMA TypeStart ==
    ASSUME Types, Start
    PROVE  Types'
<1>1. PICK got \in SUBSET enabled, max \in {snapMax, -1}, rows \in SUBSET Live :
          /\ Reads(got, max, rows)
          /\ IF got # {} THEN RestoreBF(got, max, rows) ELSE StartLoading
  BY DEF Start
<1>2. UNCHANGED << table, redis, written, notify, chan, enabled >>  BY DEF Start
<1>3. FaultType  BY <1>1, TypeFault DEF Reads
<1>4. rows \subseteq Subs  BY DEF Live
<1>5. max # -1 => MaxOf(max, rows) \in Nat  BY <1>4, TypeMaxOf DEF Types
<1>6. /\ phase' \in {"count", "running"} /\ page' \in Nat /\ total' \in Nat
      /\ maxID' \in Nat /\ lastDBSyncID' \in Nat /\ DOMAIN bf' = Chains
  BY <1>1, <1>5 DEF RestoreBF, StartLoading, With, Watermark, NoAddresses, Types
<1>7. QED  BY <1>2, <1>3, <1>6 DEF Types, FaultType, table, redis

LEMMA TypeLoad ==
    ASSUME Types, LoadFromDB \/ LoadFails
    PROVE  Types'
<1>1. IsFiniteSet(Live) /\ Cardinality(Live) \in Nat
  BY SubsAssumption, FS_Subset, FS_CardinalityType DEF Live
<1>2. CASE Count  BY <1>1, <1>2 DEF Count, Types, table, redis
<1>3. CASE Find
  <2>1. PICK f \in Orders : LET max == MaxOf(maxID, Known(Page(f))) IN
          /\ bf' = With(bf, Page(f))
          /\ IF LastPage
             THEN phase' = "running" /\ lastDBSyncID' = max /\ page' = 0 /\ maxID' = 0
             ELSE /\ phase' = "count" /\ page' = page + 1 /\ maxID' = max
                  /\ UNCHANGED lastDBSyncID
    BY <1>3 DEF Find
  <2>2. Known(Page(f)) \subseteq Subs  BY DEF Known, Page, Live
  <2>3. MaxOf(maxID, Known(Page(f))) \in Nat  BY <2>2, TypeMaxOf DEF Types
  <2>4. /\ phase' \in {"count", "running"} /\ page' \in Nat /\ maxID' \in Nat
        /\ lastDBSyncID' \in Nat
    BY <2>1, <2>3 DEF Types
  <2>5. DOMAIN bf' = Chains  BY <2>1 DEF With
  <2>6. total' = 0 /\ UNCHANGED << table, redis, written, notify, chan, enabled, faults >>
    BY <1>3 DEF Find
  <2>7. QED  BY <2>4, <2>5, <2>6 DEF Types, table, redis
<1>4. CASE LoadFails
  <2>1. FaultType  BY <1>4, TypeFault DEF LoadFails
  <2>2. QED  BY <1>4, <2>1 DEF LoadFails, Types, FaultType, table, redis
<1>5. QED  BY <1>2, <1>3, <1>4 DEF LoadFromDB

LEMMA TypeSnapshot ==
    ASSUME Types, Snapshot
    PROVE  Types'
<1>1. ASSUME NEW c \in enabled, SnapshotChain(c)  PROVE Types'
  <2>1. FaultType  BY <1>1, TypeFault DEF SnapshotChain
  <2>2. snapped' \subseteq enabled /\ written' \subseteq enabled /\ DOMAIN snap' = Chains
    BY <1>1 DEF SnapshotChain, Types
  <2>3. QED  BY <1>1, <2>1, <2>2 DEF SnapshotChain, Types, FaultType, table
<1>2. CASE SnapshotMaxID
  <2>1. FaultType  BY <1>2, TypeFault DEF SnapshotMaxID
  <2>2. snapMax' \in Nat \cup {-1}  BY <1>2 DEF SnapshotMaxID, Types
  <2>3. QED  BY <1>2, <2>1, <2>2 DEF SnapshotMaxID, Types, FaultType, table
<1>3. QED  BY <1>1, <1>2 DEF Snapshot

\* Every step keeps the types.
LEMMA TypeStep == ASSUME Types, [Next]_vars PROVE Types'
<1>1. CASE handleAddressEvent
  <2>1. chan' \in Seq(Message)  BY <1>1 DEF handleAddressEvent, Types
  <2>2. DOMAIN bf' = Chains  BY <1>1 DEF handleAddressEvent, Handled, AddAll, Types
  <2>3. QED  BY <1>1, <2>1, <2>2 DEF handleAddressEvent, Types, table, redis
<1>2. CASE LoseMessage
  <2>1. FaultType  BY <1>2, TypeFault DEF LoseMessage
  <2>2. chan' \in Seq(Message)  BY <1>2 DEF LoseMessage, Types
  <2>3. QED  BY <1>2, <2>1, <2>2 DEF LoseMessage, Types, FaultType, table, redis, worker
<1>3. CASE syncFromDB
  <2>1. After(lastDBSyncID) \subseteq Subs  BY DEF After, Live
  <2>2. lastDBSyncID' \in Nat  BY <1>3, <2>1, TypeMaxOf DEF syncFromDB, Watermark, Types
  <2>3. DOMAIN bf' = Chains  BY <1>3 DEF syncFromDB, With
  <2>4. QED  BY <1>3, <2>2, <2>3 DEF syncFromDB, Types, table, redis
<1>4. CASE Crash
  <2>1. FaultType  BY <1>4, TypeFault DEF Crash
  <2>2. chan' \in Seq(Message)  BY <1>4 DEF Crash
  <2>3. QED  BY <1>4, <2>1, <2>2 DEF Crash, NoAddresses, Types, FaultType, table, redis
<1>5. CASE Reconfigure
  <2>1. enabled \subseteq enabled' /\ enabled' \subseteq Chains
    BY <1>5, SubsAssumption DEF Reconfigure, Types
  <2>2. QED  BY <1>5, <2>1 DEF Reconfigure, Types, table, redis, worker
<1>6. CASE UNCHANGED vars  BY <1>6 DEF vars, Types, table, redis, worker
<1>7. QED  BY <1>1, <1>2, <1>3, <1>4, <1>5, <1>6, TypeApi, TypeStart, TypeLoad, TypeSnapshot
       DEF Next

LEMMA TypeInit == ASSUME Init PROVE Types /\ MarksOK
<1>1. chan \in Seq(Message)  BY DEF Init
<1>2. faults \in 0..MaxFaults  BY BoundAssumption DEF Init
<1>3. Types  BY <1>1, <1>2, SubsAssumption DEF Init, Types, NoAddresses
<1>4. MarksOK  BY Zenon DEF Init, MarksOK
<1>5. QED  BY <1>3, <1>4

\* Type correctness of the filters, the table and the messages, under every kind
\* of fault and for pages of any size: the watermarks are ids, a message counts at
\* least one address, and only chains of the config are snapshotted.
THEOREM TypeCorrect == Spec => []TypeOK
<1> DEFINE TypeInv == Types /\ MarksOK
<1>1. Init => TypeInv  BY TypeInit
<1>2. TypeInv /\ [Next]_vars => TypeInv'
  <2>1. MarksOK /\ UNCHANGED vars => MarksOK'  BY Zenon DEF vars, marks, MarksOK
  <2>2. QED  BY <2>1, TypeStep, TypeMarks
<1>3. TypeInv => TypeOK
  <2>1. Types /\ MarksOK => TypeOK  BY DEF Types, MarksOK, TypeOK
  <2>2. QED  BY <2>1
<1>4. QED  BY <1>1, <1>2, <1>3, PTL DEF Spec

-----------------------------------------------------------------------------
(* Every step keeps the invariant *)

LEMMA InitFilter == ASSUME Init PROVE FilterInv
<1>1. Table /\ Bounds
  <2>1. Chains \ Later # {}  BY SubsAssumption
  <2>2. Bounds  BY <2>1 DEF Init, Bounds
  <2>3. Table  BY DEF Init, Table
  <2>4. QED  BY <2>2, <2>3
<1>2. Live = {}  BY DEF Init, Live
<1>3. \A s \in Subs : status[s] # "open"  BY DEF Init
<1>4. phase = "down" /\ written = {}  BY DEF Init
<1>5. RunInv /\ LoadInv /\ WriteInv  BY <1>4 DEF RunInv, LoadInv, WriteInv
<1>6. SnapInv  BY <1>2, <1>3 DEF SnapInv, Settled, CoveredBy
<1>7. QED  BY <1>1, <1>5, <1>6 DEF FilterInv

\* A step of the API keeps what holds of the filters: a row that comes to live was open,
\* and between two pages of LoadFromDB no row goes.
LEMMA RowsStep ==
    ASSUME Types, Types', FilterInv, UNCHANGED << worker, snapped, snap, snapMax, enabled >>,
           whole' => whole, clean' <=> clean, intact' <=> intact,
           phase = "running" /\ whole => whole',
           \A s \in Subs : status'[s] = "open" =>
               (status[s] = "open" /\ id'[s] = id[s]) \/ id'[s] > nextId,
           \A s \in Live' : status[s] \in {"live", "open"} /\ id'[s] = id[s],
           phase \in {"count", "find"} /\ whole' =>
               page = 1 \/ \A s \in Live : s \in Live' /\ id'[s] = id[s]
    PROVE  RunInv' /\ LoadInv' /\ SnapInv' /\ WriteInv'
<1>0. /\ UNCHANGED << phase, page, maxID, bf, lastDBSyncID, written, snapped, snap, snapMax >>
      /\ Bounds /\ RunInv /\ LoadInv /\ SnapInv /\ WriteInv
  BY DEF worker, FilterInv
<1>1. ASSUME NEW n \in Int, n <= nextId, Settled(n)
      PROVE  /\ \A s \in Subs : status'[s] = "open" => id'[s] > n
             /\ \A s \in Live' : (s \in Live /\ id'[s] = id[s]) \/ id'[s] > n
  <2>1. nextId \in Nat /\ \A s \in Subs : id'[s] \in Nat  BY DEF Types
  <2>2. \A s \in Subs : status[s] = "open" => id[s] > n  BY <1>1 DEF Settled
  <2>3. \A s \in Live' : s \in Subs /\ (status[s] = "live" => s \in Live)  BY DEF Live
  <2>4. QED  BY <1>1, <2>1, <2>2, <2>3
<1>2. RunInv'
  <2>1. SUFFICES ASSUME phase' = "running", whole'
                 PROVE  (Settled(lastDBSyncID) /\ CoveredBy(bf, enabled, lastDBSyncID))'
    BY DEF RunInv
  <2>2. Settled(lastDBSyncID) /\ CoveredBy(bf, enabled, lastDBSyncID)
    BY <1>0, <2>1 DEF RunInv
  <2>3. /\ \A s \in Subs : status'[s] = "open" => id'[s] > lastDBSyncID
        /\ \A s \in Live' : (s \in Live /\ id'[s] = id[s]) \/ id'[s] > lastDBSyncID
    BY <1>0, <1>1, <2>2 DEF Types, Bounds
  <2>4. QED  BY <1>0, <2>2, <2>3 DEF Settled, CoveredBy, InFilter
<1>3. LoadInv'
  <2>1. SUFFICES ASSUME phase' \in {"count", "find"}, whole'  PROVE (Settled(maxID) /\ Read)'
    BY <1>0 DEF LoadInv
  <2>2. Settled(maxID) /\ Read  BY <1>0, <2>1 DEF LoadInv
  <2>3. /\ \A s \in Subs : status'[s] = "open" => id'[s] > maxID
        /\ \A s \in Live' : (s \in Live /\ id'[s] = id[s]) \/ id'[s] > maxID
    BY <1>0, <1>1, <2>2 DEF Types, Bounds
  <2>4. ASSUME NEW s \in Live', s \in Live, id'[s] = id[s], ChainOf[s] \in enabled'
        PROVE  \/ AddrOf[s] \in bf'[ChainOf[s]] \/ id'[s] > maxID'
               \/ Cardinality({t \in Live' : id'[t] > id'[s]}) >= (page' - 1) * PageSize
    <3> DEFINE U == {t \in Live : id[t] > id[s]}  V == {t \in Live' : id'[t] > id'[s]}
    <3>1. /\ IsFiniteSet(U) /\ IsFiniteSet(V)
          /\ Cardinality(U) \in Nat /\ Cardinality(V) \in Nat
      <4>1. U \subseteq Subs /\ V \subseteq Subs  BY DEF Live
      <4>2. QED  BY <4>1, SubsAssumption, FS_Subset, FS_CardinalityType
    <3>2. \/ AddrOf[s] \in bf[ChainOf[s]] \/ id[s] > maxID
          \/ Cardinality(U) >= (page - 1) * PageSize
      BY <2>2, <2>4, <1>0 DEF Read, Above, InFilter
    <3>3. CASE page = 1
      <4>1. (page' - 1) * PageSize = 0  BY <1>0, <3>3, BoundAssumption
      <4>2. QED  BY <3>1, <4>1
    <3>4. CASE \A t \in Live : t \in Live' /\ id'[t] = id[t]
      <4>1. U \subseteq V  BY <2>4, <3>4
      <4>2. Cardinality(U) <= Cardinality(V)  BY <3>1, <4>1, FS_Subset
      <4>3. (page' - 1) * PageSize = (page - 1) * PageSize  BY <1>0
      <4>4. (page - 1) * PageSize \in Int  BY BoundAssumption DEF Types
      <4> HIDE DEF U, V
      <4>5. \/ AddrOf[s] \in bf'[ChainOf[s]] \/ id'[s] > maxID'
            \/ Cardinality(V) >= (page' - 1) * PageSize
        BY <1>0, <2>4, <3>1, <3>2, <4>2, <4>3, <4>4
      <4>6. QED  BY <4>5 DEF V
    <3>5. QED  BY <2>1, <1>0, <3>3, <3>4
  <2>5. QED  BY <1>0, <2>3, <2>4 DEF Settled, Read, Above, InFilter
<1>4. SnapInv'
  <2>1. SUFFICES ASSUME intact'  PROVE (Settled(snapMax) /\ CoveredBy(snap, snapped, snapMax))'
    BY DEF SnapInv
  <2>2. Settled(snapMax) /\ CoveredBy(snap, snapped, snapMax)  BY <1>0, <2>1 DEF SnapInv
  <2>3. /\ \A s \in Subs : status'[s] = "open" => id'[s] > snapMax
        /\ \A s \in Live' : (s \in Live /\ id'[s] = id[s]) \/ id'[s] > snapMax
    BY <1>0, <1>1, <2>2 DEF Types, Bounds
  <2>4. QED  BY <1>0, <2>2, <2>3 DEF Settled, CoveredBy, InFilter
<1>5. WriteInv'
  <2>1. SUFFICES ASSUME written # {}, clean
                 PROVE  whole' /\ written' \subseteq snapped'
                        /\ CoveredBy(snap, written, lastDBSyncID)'
    BY <1>0 DEF WriteInv
  <2>2. /\ phase = "running" /\ whole /\ written \subseteq snapped
        /\ CoveredBy(snap, written, lastDBSyncID)
    BY <1>0, <2>1 DEF WriteInv
  <2>3. \A s \in Live' : (s \in Live /\ id'[s] = id[s]) \/ id'[s] > lastDBSyncID
    BY <1>0, <1>1, <2>2 DEF Types, Bounds, RunInv
  <2>4. QED  BY <1>0, <2>2, <2>3 DEF CoveredBy, InFilter
<1>6. QED  BY <1>2, <1>3, <1>4, <1>5

LEMMA ApiStep ==
    ASSUME Types, Types', FilterInv, Api
    PROVE  FilterInv'
<1>a. Table /\ Bounds  BY DEF FilterInv
<1>1. ASSUME NEW r \in SUBSET Subs, Insert(r)  PROVE  FilterInv'
  <2>1. Cardinality(r) \in Nat  BY SubsAssumption, FS_Subset, FS_CardinalityType
  <2>2. PICK f \in [r -> nextId+1 .. nextId+Cardinality(r)] :
            id' = [s \in Subs |-> IF s \in r THEN f[s] ELSE id[s]]
    BY <1>1 DEF Insert
  <2>3. /\ status' = [s \in Subs |-> IF s \in r THEN "open" ELSE status[s]]
        /\ nextId' = nextId + Cardinality(r) /\ open' = open \cup {r}
        /\ UNCHANGED << redis, worker, enabled, marks >>
        /\ \A s \in r : status[s] = "none"
    BY <1>1 DEF Insert
  <2>4. nextId \in Nat /\ nextId <= nextId' /\ \A s \in r : f[s] \in Nat /\ f[s] > nextId
    BY <2>1, <2>2, <2>3 DEF Types
  <2>5. \A s \in Subs : /\ id'[s] = IF s \in r THEN f[s] ELSE id[s]
                        /\ status'[s] = IF s \in r THEN "open" ELSE status[s]
    BY <2>2, <2>3
  <2>6. Table'
    <3>1. \A q \in open : r \cap q = {}  BY <2>3, <1>a DEF Table
    <3>2. \A p, q \in open' : p \cap q # {} => p = q  BY <2>3, <3>1, <1>a DEF Table
    <3>3. \A s \in Subs : status'[s] = "open" <=> \E q \in open' : s \in q
      BY <2>3, <2>5, <1>a DEF Table
    <3>4. \A s \in Subs : status'[s] # "none" => id'[s] > 0
      BY <2>4, <2>5, <1>a DEF Table
    <3>5. QED  BY <3>2, <3>3, <3>4 DEF Table
  <2>7. Bounds'  BY <2>3, <2>4, <1>a DEF Bounds, worker, redis, Types
  <2>8. \A s \in Live' : status[s] \in {"live", "open"} /\ id'[s] = id[s]
    BY <2>5 DEF Live
  <2>9. \A s \in Live : s \in Live' /\ id'[s] = id[s]  BY <2>3, <2>5 DEF Live
  <2>10. \A s \in Subs : status'[s] = "open" =>
             (status[s] = "open" /\ id'[s] = id[s]) \/ id'[s] > nextId
    BY <2>4, <2>5
  <2>11. UNCHANGED << worker, snapped, snap, snapMax, enabled >>  BY <2>3 DEF redis
  <2>12. (whole' <=> whole) /\ (clean' <=> clean) /\ (intact' <=> intact)
    BY <2>3, Zenon DEF marks
  <2>13. RunInv' /\ LoadInv' /\ SnapInv' /\ WriteInv'
    BY <2>8, <2>9, <2>10, <2>11, <2>12, RowsStep
  <2>14. QED  BY <2>6, <2>7, <2>13 DEF FilterInv
<1>2. ASSUME NEW r \in open, Commit(r)  PROVE  FilterInv'
  <2>1. /\ status' = [s \in Subs |-> IF s \in r THEN "live" ELSE status[s]]
        /\ open' = open \ {r} /\ UNCHANGED << id, nextId, redis, worker, enabled, marks >>
    BY <1>2 DEF Commit
  <2>2. \A s \in Subs : status'[s] = IF s \in r THEN "live" ELSE status[s]  BY <2>1
  <2>3. \A s \in r : s \in Subs /\ status[s] = "open"  BY <1>a DEF Table, Types
  <2>4. Table'
    <3>1. \A q \in open' : r \cap q = {}  BY <2>1, <1>a DEF Table
    <3>2. \A s \in Subs : status'[s] = "open" <=> \E q \in open' : s \in q
      BY <2>1, <2>2, <3>1, <1>a DEF Table
    <3>3. \A s \in Subs : status'[s] # "none" => id'[s] > 0
      BY <2>1, <2>2, <2>3, <1>a DEF Table
    <3>4. QED  BY <2>1, <3>2, <3>3, <1>a DEF Table
  <2>5. Bounds'  BY <2>1, <1>a DEF Bounds, worker, redis
  <2>6. \A s \in Live' : status[s] \in {"live", "open"} /\ id'[s] = id[s]
    BY <2>1, <2>2, <2>3 DEF Live
  <2>7. \A s \in Live : s \in Live' /\ id'[s] = id[s]  BY <2>1, <2>2 DEF Live
  <2>8. \A s \in Subs : status'[s] = "open" => status[s] = "open" /\ id'[s] = id[s]
    BY <2>1, <2>2
  <2>9. UNCHANGED << worker, snapped, snap, snapMax, enabled >>  BY <2>1 DEF redis
  <2>10. (whole' <=> whole) /\ (clean' <=> clean) /\ (intact' <=> intact)
    BY <2>1, Zenon DEF marks
  <2>11. RunInv' /\ LoadInv' /\ SnapInv' /\ WriteInv'
    BY <2>6, <2>7, <2>8, <2>9, <2>10, RowsStep
  <2>12. QED  BY <2>4, <2>5, <2>11 DEF FilterInv
<1>3. ASSUME NEW r \in open, Rollback(r)  PROVE  FilterInv'
  <2>1. /\ status' = [s \in Subs |-> IF s \in r THEN "none" ELSE status[s]]
        /\ id' = [s \in Subs |-> IF s \in r THEN 0 ELSE id[s]]
        /\ open' = open \ {r} /\ UNCHANGED << nextId, redis, worker, enabled, marks >>
    BY <1>3 DEF Rollback
  <2>2. \A s \in Subs : /\ status'[s] = IF s \in r THEN "none" ELSE status[s]
                        /\ id'[s] = IF s \in r THEN 0 ELSE id[s]
    BY <2>1
  <2>3. \A s \in r : s \in Subs /\ status[s] = "open"  BY <1>a DEF Table, Types
  <2>4. Table'
    <3>1. \A q \in open' : r \cap q = {}  BY <2>1, <1>a DEF Table
    <3>2. \A s \in Subs : status'[s] = "open" <=> \E q \in open' : s \in q
      BY <2>1, <2>2, <3>1, <1>a DEF Table
    <3>3. \A s \in Subs : status'[s] # "none" => id'[s] > 0  BY <2>2, <1>a DEF Table
    <3>4. QED  BY <2>1, <3>2, <3>3, <1>a DEF Table
  <2>5. Bounds'  BY <2>1, <1>a DEF Bounds, worker, redis
  <2>6. \A s \in Live' : status[s] \in {"live", "open"} /\ id'[s] = id[s]
    BY <2>2 DEF Live
  <2>7. \A s \in Live : s \in Live' /\ id'[s] = id[s]  BY <2>2, <2>3 DEF Live
  <2>8. \A s \in Subs : status'[s] = "open" => status[s] = "open" /\ id'[s] = id[s]
    BY <2>2
  <2>9. UNCHANGED << worker, snapped, snap, snapMax, enabled >>  BY <2>1 DEF redis
  <2>10. (whole' <=> whole) /\ (clean' <=> clean) /\ (intact' <=> intact)
    BY <2>1, Zenon DEF marks
  <2>11. RunInv' /\ LoadInv' /\ SnapInv' /\ WriteInv'
    BY <2>6, <2>7, <2>8, <2>9, <2>10, RowsStep
  <2>12. QED  BY <2>4, <2>5, <2>11 DEF FilterInv
<1>4. ASSUME NEW r \in notify, Announce(r)  PROVE  FilterInv'
  <2>1. UNCHANGED << table, worker, snapped, snap, snapMax, enabled, marks >>
    BY <1>4 DEF Announce
  <2>2. UNCHANGED << id, status, nextId, open >>  BY <2>1 DEF table
  <2>3. Table' /\ Bounds'  BY <2>1, <2>2, <1>a DEF Table, Bounds, worker
  <2>4. (whole' <=> whole) /\ (clean' <=> clean) /\ (intact' <=> intact)
    BY <2>1, Zenon DEF marks
  <2>5. /\ \A s \in Live' : s \in Live /\ id'[s] = id[s] /\ status[s] = "live"
        /\ \A s \in Live : s \in Live'
        /\ \A s \in Subs : status'[s] = "open" => status[s] = "open" /\ id'[s] = id[s]
    BY <2>2 DEF Live
  <2>6. RunInv' /\ LoadInv' /\ SnapInv' /\ WriteInv'  BY <2>1, <2>4, <2>5, RowsStep
  <2>7. QED  BY <2>3, <2>6 DEF FilterInv
<1>5. ASSUME NEW s \in Subs, Delete(s)  PROVE  FilterInv'
  <2>1. /\ status[s] = "live" /\ status' = [status EXCEPT ![s] = "deleted"]
        /\ UNCHANGED << id, nextId, open, redis, worker, enabled >>
    BY <1>5 DEF Delete
  <2>2. \A t \in Subs : status'[t] = IF t = s THEN "deleted" ELSE status[t]
    BY <2>1 DEF Types
  <2>3. Table'
    <3>1. \A t \in Subs : status'[t] = "open" <=> status[t] = "open"  BY <2>1, <2>2
    <3>2. \A t \in Subs : status'[t] # "none" => status[t] # "none"  BY <2>1, <2>2
    <3>3. QED  BY <3>1, <3>2, <2>1, <1>a DEF Table
  <2>4. Bounds'  BY <2>1, <1>a DEF Bounds, worker, redis
  <2>5. /\ \A t \in Live' : t \in Live /\ id'[t] = id[t] /\ status[t] = "live"
        /\ \A t \in Subs : status'[t] = "open" => status[t] = "open" /\ id'[t] = id[t]
    BY <2>1, <2>2 DEF Live
  <2>6. /\ whole' => whole
        /\ whole' => ~ (phase \in {"count", "find"} /\ page > 1)
        /\ whole /\ ~ (phase \in {"count", "find"} /\ page > 1) => whole'
        /\ (clean' <=> clean) /\ (intact' <=> intact)
    BY <1>5, Zenon DEF Delete
  <2>7. phase \in {"count", "find"} /\ whole' => page = 1
    BY <2>6 DEF FilterInv, LoadInv, Types
  <2>8. phase = "running" /\ whole => whole'  BY <2>6
  <2>9. UNCHANGED << worker, snapped, snap, snapMax, enabled >>  BY <2>1 DEF redis
  <2>10. RunInv' /\ LoadInv' /\ SnapInv' /\ WriteInv'
    BY <2>5, <2>6, <2>7, <2>8, <2>9, RowsStep
  <2>11. QED  BY <2>3, <2>4, <2>10 DEF FilterInv
<1>6. QED  BY <1>1, <1>2, <1>3, <1>4, <1>5 DEF Api

LEMMA SubscriberStep ==
    ASSUME Types, FilterInv, handleAddressEvent
    PROVE  FilterInv'
<1>1. /\ phase = "running"
      /\ UNCHANGED << table, redis, enabled, phase, page, maxID, written, lastDBSyncID, marks >>
  BY DEF handleAddressEvent
<1>2. \E addrs, c : bf' = AddAll(addrs, c)  BY DEF handleAddressEvent, Handled
<1>3. PICK addrs, c : bf' = AddAll(addrs, c)  BY <1>2
<1>4. \A d \in Chains : bf[d] \subseteq bf'[d]  BY <1>3 DEF AddAll, Types
<1>5. UNCHANGED << id, status, nextId, open, snapped, snap, snapMax >>
  BY <1>1 DEF table, redis
<1>6. (whole' <=> whole) /\ (clean' <=> clean) /\ (intact' <=> intact)
  BY <1>1, Zenon DEF marks
<1>7. Live' = Live /\ \A s \in Live : ChainOf[s] \in Chains
  BY <1>5, SubsAssumption DEF Live
<1>8. Table' /\ Bounds'  BY <1>1, <1>5 DEF FilterInv, Table, Bounds
<1>9. RunInv'
  BY <1>1, <1>4, <1>5, <1>6, <1>7 DEF FilterInv, RunInv, Settled, CoveredBy, InFilter
<1>10. LoadInv'  BY <1>1 DEF LoadInv
<1>11. SnapInv'
  BY <1>5, <1>6, <1>7 DEF FilterInv, SnapInv, Settled, CoveredBy, InFilter
<1>12. WriteInv'
  BY <1>1, <1>5, <1>6, <1>7 DEF FilterInv, WriteInv, CoveredBy, InFilter
<1>13. QED  BY <1>8, <1>9, <1>10, <1>11, <1>12 DEF FilterInv

LEMMA SyncStep ==
    ASSUME Types, FilterInv, syncFromDB
    PROVE  FilterInv'
<1> DEFINE rows == After(lastDBSyncID)
           max  == MaxOf(lastDBSyncID, rows)
<1>a. Table /\ Bounds /\ RunInv /\ LoadInv /\ SnapInv /\ WriteInv  BY DEF FilterInv
<1>1. /\ phase = "running" /\ bf' = With(bf, rows) /\ lastDBSyncID' = max
      /\ UNCHANGED << table, redis, enabled, phase, page, maxID, written >>
  BY DEF syncFromDB, Watermark
<1>2. UNCHANGED << id, status, nextId, open, snapped, snap, snapMax >>
  BY <1>1 DEF table, redis
<1>3. /\ whole' => whole /\ Settled(max)
      /\ clean' => written = {}
      /\ intact' <=> intact
  BY Zenon DEF syncFromDB
<1>4. /\ rows \subseteq Live /\ rows \subseteq Subs
      /\ \A s \in Live : id[s] > lastDBSyncID => s \in rows
  BY DEF After, Live
<1>5. max \in Int /\ max <= nextId
  BY <1>4, <1>a, MaxOfFacts DEF Types, Bounds
<1>6. /\ \A s \in Live : InFilter(bf, s) => InFilter(With(bf, rows), s)
      /\ \A s \in rows : ChainOf[s] \in enabled => InFilter(With(bf, rows), s)
  BY <1>4, WithFacts DEF Types
<1> HIDE DEF rows, max
<1>7. Live' = Live  BY <1>2 DEF Live
<1>8. Table' /\ Bounds'  BY <1>1, <1>2, <1>5, <1>a DEF Table, Bounds
<1>9. RunInv'
  <2>1. SUFFICES ASSUME whole'
                 PROVE  (Settled(lastDBSyncID) /\ CoveredBy(bf, enabled, lastDBSyncID))'
    BY DEF RunInv
  <2>2. Settled(max) /\ CoveredBy(bf, enabled, lastDBSyncID)
    BY <1>1, <1>3, <1>a, <2>1 DEF RunInv
  <2>3. Settled(lastDBSyncID)'  BY <1>1, <1>2, <2>2 DEF Settled
  <2>4. ASSUME NEW s \in Live, ChainOf[s] \in enabled  PROVE InFilter(With(bf, rows), s)
    <3>1. InFilter(bf, s) \/ id[s] > lastDBSyncID  BY <2>2, <2>4 DEF CoveredBy
    <3>2. QED  BY <3>1, <1>4, <1>6, <2>4
  <2>5. CoveredBy(bf, enabled, lastDBSyncID)'
    BY <1>1, <1>7, <2>4 DEF CoveredBy, InFilter
  <2>6. QED  BY <2>3, <2>5
<1>10. LoadInv'  BY <1>1 DEF LoadInv
<1>11. SnapInv'
  BY <1>2, <1>3, <1>7, <1>a DEF SnapInv, Settled, CoveredBy, InFilter
<1>12. WriteInv'  BY <1>1, <1>3 DEF WriteInv
<1>13. QED  BY <1>8, <1>9, <1>10, <1>11, <1>12 DEF FilterInv

LEMMA StartStep ==
    ASSUME Types, FilterInv, Start
    PROVE  FilterInv'
<1>a. Table /\ Bounds /\ RunInv /\ LoadInv /\ SnapInv /\ WriteInv  BY DEF FilterInv
<1>1. phase = "down" /\ UNCHANGED << table, redis, written, enabled, clean, intact >>
  BY DEF Start
<1>2. PICK got \in SUBSET enabled, max \in {snapMax, -1}, rows \in SUBSET Live :
         /\ Reads(got, max, rows)
         /\ IF got # {} THEN RestoreBF(got, max, rows) ELSE StartLoading
  BY DEF Start
<1>3. /\ UNCHANGED << id, status, nextId, open, snapped, snap, snapMax >>
      /\ (clean' <=> clean) /\ (intact' <=> intact)
  BY <1>1, Zenon DEF table, redis
<1>4. Live' = Live  BY <1>3 DEF Live
<1>5. written = {} /\ written' = {}  BY <1>1, <1>a DEF WriteInv
<1>6. SnapInv'  BY <1>3, <1>4, <1>a DEF SnapInv, Settled, CoveredBy, InFilter
<1>7. WriteInv'  BY <1>5 DEF WriteInv
<1>8. Table'  BY <1>3, <1>a DEF Table
<1>9. \A s \in Live : id[s] \in Nat /\ id[s] > 0  BY <1>a DEF Live, Table, Types
<1>10. Settled(0)  BY <1>a DEF Settled, Table
<1>11. CASE got = {}
  <2>1. phase' = "count" /\ page' = 1 /\ maxID' = 0 /\ lastDBSyncID' = 0
    BY <1>2, <1>11 DEF StartLoading
  <2>2. Bounds'  BY <1>1, <1>3, <1>a, <2>1 DEF Bounds, Types
  <2>3. Settled(0)'  BY <1>3, <1>10 DEF Settled
  <2>4. Read'  BY <1>4, <1>9, <1>3, <2>1 DEF Read
  <2>5. RunInv' /\ LoadInv'  BY <2>1, <2>3, <2>4 DEF RunInv, LoadInv, Settled
  <2>6. QED  BY <1>6, <1>7, <1>8, <2>2, <2>5 DEF FilterInv
<1>12. CASE got # {}
  <2> DEFINE base == [c \in Chains |-> IF c \in got THEN snap[c] ELSE {}]
             top  == MaxOf(max, rows)
  <2>1. /\ phase' = "running" /\ UNCHANGED << page, maxID >>
        /\ max = -1 => bf' = base /\ lastDBSyncID' = 0
        /\ max # -1 => bf' = With(base, rows) /\ lastDBSyncID' = top
    BY <1>2, <1>12 DEF RestoreBF, Watermark
  <2>2. whole' /\ max # -1 => intact /\ got = enabled /\ Settled(top)
    <3>1. RestoreBF(got, max, rows)  BY <1>2, <1>12
    <3>2. QED  BY <3>1, Zenon DEF RestoreBF
  <2>3. max \in Int /\ max <= nextId /\ rows \subseteq Subs
    BY <1>a DEF Types, Bounds, Live
  <2>4. top \in Int /\ top <= nextId
    <3>1. \/ MaxOf(max, rows) = max
          \/ \E s \in rows : MaxOf(max, rows) = id[s]
      BY <2>3, MaxOfFacts
    <3>2. \A s \in rows : id[s] \in Int /\ id[s] <= nextId  BY <2>3 DEF Types
    <3>3. QED  BY <2>3, <3>1, <3>2
  <2>5. got \subseteq snapped /\ (rows = After(max) \/ rows = {})
    BY <1>2 DEF Reads
  <2>6. Bounds'
    BY <1>1, <1>3, <1>a, <2>1, <2>4 DEF Bounds, Types
  <2>7. LoadInv'  BY <2>1 DEF LoadInv
  <2>8. RunInv'
    <3>1. SUFFICES ASSUME whole'
                   PROVE  (Settled(lastDBSyncID) /\ CoveredBy(bf, enabled, lastDBSyncID))'
      BY DEF RunInv
    <3>2. CASE max = -1
      <4>1. lastDBSyncID' = 0  BY <2>1, <3>2
      <4>2. Settled(lastDBSyncID)'  BY <1>3, <1>10, <4>1 DEF Settled
      <4>3. CoveredBy(bf, enabled, lastDBSyncID)'  BY <1>3, <1>4, <1>9, <4>1 DEF CoveredBy
      <4>4. QED  BY <4>2, <4>3
    <3>3. CASE max # -1
      <4>1. intact /\ got = enabled /\ Settled(top) /\ max = snapMax
        BY <2>2, <3>1, <3>3
      <4>2. Settled(lastDBSyncID)'  BY <1>3, <2>1, <3>3, <4>1 DEF Settled
      <4>3. ASSUME NEW s \in Live, ChainOf[s] \in enabled
            PROVE  InFilter(With(base, rows), s) \/ id[s] > top
        <5>1. ChainOf[s] \in Chains /\ ChainOf[s] \in snapped /\ ChainOf[s] \in got
          BY <2>5, <4>1, <4>3 DEF Types
        <5>2. InFilter(snap, s) \/ id[s] > max
          BY <1>a, <4>1, <4>3, <5>1 DEF SnapInv, CoveredBy
        <5>3. DOMAIN base = Chains /\ base[ChainOf[s]] = snap[ChainOf[s]]
          BY <5>1
        <5> HIDE DEF base
        <5>4. /\ InFilter(base, s) => InFilter(With(base, rows), s)
              /\ \A t \in rows : ChainOf[t] \in enabled => InFilter(With(base, rows), t)
          BY <4>3, <5>3, WithFacts DEF Types
        <5>5. CASE InFilter(snap, s)  BY <5>3, <5>4, <5>5 DEF InFilter
        <5>6. CASE id[s] > max /\ rows = After(max)
          <6>1. s \in rows  BY <4>3, <5>6 DEF After
          <6>2. QED  BY <4>3, <5>4, <6>1
        <5>7. CASE id[s] > max /\ rows = {}
          <6>1. top = max  BY <5>7 DEF MaxOf
          <6>2. QED  BY <5>7, <6>1
        <5>8. QED  BY <2>5, <5>2, <5>5, <5>6, <5>7
      <4> HIDE DEF base, top
      <4>4. bf' = With(base, rows) /\ lastDBSyncID' = top  BY <2>1, <3>3
      <4>5. CoveredBy(bf, enabled, lastDBSyncID)'
        BY <1>1, <1>3, <1>4, <4>3, <4>4 DEF CoveredBy, InFilter
      <4>6. QED  BY <4>2, <4>5
    <3>4. QED  BY <3>2, <3>3
  <2>9. QED  BY <1>6, <1>7, <1>8, <2>6, <2>7, <2>8 DEF FilterInv
<1>13. QED  BY <1>11, <1>12

\* Newest rows first: of what the pages up to this one have not read, so many rows
\* are newer as the pages have, and nothing they have read falls behind maxID.
LEMMA PageReads ==
    ASSUME Types, Read, page >= 1, NEW f \in Orders,
           CutById(f, (page - 1) * PageSize), CutById(f, page * PageSize),
           NEW max \in Int, max = maxID \/ \E t \in Known(Page(f)) : max = id[t],
           NEW s \in Live, ChainOf[s] \in enabled
    PROVE  \/ InFilter(With(bf, Page(f)), s) \/ id[s] > max
           \/ Cardinality(Above(s)) >= page * PageSize
<1> DEFINE k == (page - 1) * PageSize
           l == page * PageSize
           n == Cardinality(Live)
<1>1. k \in Nat /\ l \in Nat /\ k <= l  BY BoundAssumption DEF Types
<1>2. IsFiniteSet(Live) /\ n \in Nat
  BY SubsAssumption, FS_Subset, FS_CardinalityType DEF Live
<1>3. f \in [Live -> 1..n] /\ \A t, u \in Live : t # u => f[t] # f[u]  BY DEF Orders
<1>4. /\ \A t \in Live : id[t] \in Nat
      /\ IsFiniteSet(Above(s)) /\ Cardinality(Above(s)) \in Nat
  <2>1. Above(s) \subseteq Live  BY DEF Above
  <2>2. QED  BY <1>2, <2>1, FS_Subset, FS_CardinalityType DEF Types, Live
<1>5. /\ \A t, u \in Live : f[t] <= k /\ k < f[u] => id[u] < id[t]
      /\ \A t, u \in Live : f[t] <= l /\ l < f[u] => id[u] < id[t]
  BY DEF CutById
<1>6. Page(f) = {t \in Live : k < f[t] /\ f[t] <= l}  BY DEF Page
<1> HIDE DEF k, l
<1>7. CASE l < f[s]
  <2> DEFINE B == {t \in Live : f[t] <= l}
  <2>1. l <= n  BY <1>1, <1>2, <1>3, <1>7
  <2>2. Cardinality(B) >= l  BY <1>1, <1>2, <1>3, <2>1, PlacesTaken
  <2>3. B \subseteq Above(s)  BY <1>5, <1>7 DEF Above
  <2> HIDE DEF B
  <2>4. Cardinality(B) <= Cardinality(Above(s)) /\ Cardinality(B) \in Nat
    BY <1>4, <2>3, FS_Subset, FS_CardinalityType
  <2>5. Cardinality(Above(s)) >= l  BY <1>1, <1>4, <2>2, <2>4
  <2>6. QED  BY <2>5 DEF l
<1>8. CASE k < f[s] /\ f[s] <= l
  <2>1. s \in Page(f) /\ Page(f) \subseteq Live  BY <1>6, <1>8
  <2>2. QED  BY <2>1, WithFacts DEF Types
<1>9. CASE f[s] <= k
  <2> DEFINE B == {t \in Live : f[t] <= k}
  <2>1. IsFiniteSet(B) /\ Cardinality(B) <= k
    <3>1. \A t \in B : f[t] \in 0+1 .. k  BY <1>1, <1>3
    <3>2. \A t, u \in B : t # u => f[t] # f[u]  BY <1>3
    <3> HIDE DEF B
    <3>3. 0 \in Nat /\ k \in Nat /\ 0 <= k  BY <1>1
    <3>4. IsFiniteSet(B) /\ Cardinality(B) <= k - 0
      BY <3>1, <3>2, <3>3, PlacesBound, Zenon
    <3>5. QED  BY <1>1, <3>4
  <2>2. Above(s) \subseteq B \ {s}
    <3>1. SUFFICES ASSUME NEW t \in Above(s)  PROVE t \in B /\ t # s  OBVIOUS
    <3>2. t \in Live /\ id[t] > id[s]  BY <3>1 DEF Above
    <3>3. f[t] \in Int /\ ~ (id[t] < id[s]) /\ t # s  BY <1>3, <1>4, <3>2
    <3>4. ~ (k < f[t])  BY <1>5, <1>9, <3>2, <3>3
    <3>5. QED  BY <1>1, <3>2, <3>3, <3>4
  <2>3. s \in B  BY <1>9
  <2> HIDE DEF B
  <2>4. Cardinality(B) \in Nat /\ IsFiniteSet(B \ {s})
        /\ Cardinality(B \ {s}) = Cardinality(B) - 1
    BY <2>1, <2>3, FS_RemoveElement, FS_CardinalityType
  <2>5. Cardinality(Above(s)) <= Cardinality(B \ {s})  BY <2>2, <2>4, FS_Subset
  <2>6. ~ (Cardinality(Above(s)) >= k)  BY <1>1, <1>4, <2>1, <2>4, <2>5
  <2>7. InFilter(bf, s) \/ id[s] > maxID  BY <2>6 DEF Read, k
  <2>8. CASE InFilter(bf, s)
    <3>1. Page(f) \subseteq Live  BY DEF Page
    <3>2. QED  BY <2>8, <3>1, WithFacts DEF Types
  <2>9. CASE id[s] > maxID
    <3>1. \A t \in Page(f) : id[t] < id[s]  BY <1>3, <1>5, <1>6, <1>9
    <3>2. \A t \in Known(Page(f)) : t \in Page(f)  BY DEF Known
    <3>3. id[s] > max  BY <2>9, <3>1, <3>2
    <3>4. QED  BY <3>3
  <2>10. QED  BY <2>7, <2>8, <2>9
<1>10. QED  BY <1>1, <1>2, <1>3, <1>7, <1>8, <1>9

LEMMA FindStep ==
    ASSUME Types, FilterInv, Find
    PROVE  FilterInv'
<1>a. Table /\ Bounds /\ RunInv /\ LoadInv /\ SnapInv /\ WriteInv  BY DEF FilterInv
<1>1. /\ phase = "find"
      /\ UNCHANGED << table, redis, written, enabled, clean, intact >>
  BY DEF Find
<1>2. PICK f \in Orders : LET max == MaxOf(maxID, Known(Page(f))) IN
          /\ bf' = With(bf, Page(f))
          /\ whole' = (whole /\ Consistent(f) /\ Settled(max))
          /\ IF LastPage
             THEN phase' = "running" /\ lastDBSyncID' = max /\ page' = 0 /\ maxID' = 0
             ELSE /\ phase' = "count" /\ page' = page + 1 /\ maxID' = max
                  /\ UNCHANGED lastDBSyncID
  BY DEF Find
<1> DEFINE max == MaxOf(maxID, Known(Page(f)))
<1>3. /\ UNCHANGED << id, status, nextId, open, snapped, snap, snapMax >>
      /\ (clean' <=> clean) /\ (intact' <=> intact)
  BY <1>1, Zenon DEF table, redis
<1>4. whole' => whole /\ Consistent(f) /\ Settled(max)  BY <1>2, Zenon
<1>5. /\ bf' = With(bf, Page(f))
      /\ LastPage => phase' = "running" /\ lastDBSyncID' = max /\ maxID' = 0
      /\ ~ LastPage => phase' = "count" /\ page' = page + 1 /\ maxID' = max
                       /\ lastDBSyncID' = lastDBSyncID
  BY <1>2
<1>6. /\ max = maxID \/ \E t \in Known(Page(f)) : max = id[t]
      /\ max \in Int
  <2>1. Known(Page(f)) \subseteq Subs  BY DEF Known, Page, Live
  <2>2. QED  BY <2>1, MaxOfFacts DEF Types
<1> HIDE DEF max
<1>7. max <= nextId
  <2>1. \A t \in Known(Page(f)) : t \in Subs  BY DEF Known, Page, Live
  <2>2. QED  BY <1>6, <1>a, <2>1 DEF Types, Bounds
<1>8. page >= 1 /\ lastDBSyncID = 0  BY <1>1, <1>a DEF LoadInv
<1>9. Live' = Live /\ \A s \in Live : s \in Subs  BY <1>3 DEF Live
<1>10. ASSUME whole', NEW s \in Live, ChainOf[s] \in enabled
       PROVE  InFilter(bf', s) \/ id[s] > max \/ Cardinality(Above(s)) >= page * PageSize
  <2>1. Read  BY <1>1, <1>4, <1>10, <1>a DEF LoadInv
  <2>2. CutById(f, (page - 1) * PageSize) /\ CutById(f, page * PageSize)
    BY <1>4, <1>10 DEF Consistent
  <2>3. \/ InFilter(With(bf, Page(f)), s) \/ id[s] > max
        \/ Cardinality(Above(s)) >= page * PageSize
    BY <1>6, <1>8, <1>10, <2>1, <2>2, PageReads
  <2>4. QED  BY <1>5, <2>3
<1>11. SnapInv'  BY <1>3, <1>9, <1>a DEF SnapInv, Settled, CoveredBy, InFilter
<1>12. written' = {}  BY <1>1, <1>a DEF WriteInv
<1>13. WriteInv'  BY <1>12 DEF WriteInv
<1>14. Table'  BY <1>3, <1>a DEF Table
<1>15. CASE LastPage
  <2>1. phase' = "running" /\ lastDBSyncID' = max /\ maxID' = 0  BY <1>5, <1>15
  <2>2. Bounds'  BY <1>1, <1>3, <1>7, <1>a, <2>1 DEF Bounds, Types
  <2>3. LoadInv'  BY <2>1 DEF LoadInv
  <2>4. RunInv'
    <3>1. SUFFICES ASSUME whole'
                   PROVE  (Settled(lastDBSyncID) /\ CoveredBy(bf, enabled, lastDBSyncID))'
      BY DEF RunInv
    <3>2. Settled(lastDBSyncID)'  BY <1>3, <1>4, <2>1, <3>1 DEF Settled
    <3>3. ASSUME NEW s \in Live, ChainOf[s] \in enabled
          PROVE  InFilter(bf', s) \/ id[s] > max
      <4>1. page * PageSize >= Cardinality(Live)  BY <1>4, <1>15, <3>1 DEF Consistent
      <4>2. IsFiniteSet(Live) /\ Cardinality(Live) \in Nat
        BY SubsAssumption, FS_Subset, FS_CardinalityType DEF Live
      <4>3. Above(s) \subseteq Live \ {s}  BY DEF Above, Types, Live
      <4>4. /\ IsFiniteSet(Live \ {s})
            /\ Cardinality(Live \ {s}) = Cardinality(Live) - 1
        BY <3>3, <4>2, FS_RemoveElement
      <4>5. Cardinality(Above(s)) <= Cardinality(Live \ {s}) /\ Cardinality(Above(s)) \in Nat
        BY <4>3, <4>4, FS_Subset, FS_CardinalityType
      <4>6. page * PageSize \in Nat  BY BoundAssumption DEF Types
      <4>7. ~ (Cardinality(Above(s)) >= page * PageSize)
        BY <4>1, <4>2, <4>4, <4>5, <4>6
      <4>8. QED  BY <1>10, <3>1, <3>3, <4>7
    <3>4. CoveredBy(bf, enabled, lastDBSyncID)'
      BY <1>1, <1>3, <1>9, <2>1, <3>3 DEF CoveredBy, InFilter
    <3>5. QED  BY <3>2, <3>4
  <2>5. QED  BY <1>11, <1>13, <1>14, <2>2, <2>3, <2>4 DEF FilterInv
<1>16. CASE ~ LastPage
  <2>1. /\ phase' = "count" /\ page' = page + 1 /\ maxID' = max
        /\ lastDBSyncID' = lastDBSyncID
    BY <1>5, <1>16
  <2>2. Bounds'  BY <1>1, <1>3, <1>7, <1>a, <2>1 DEF Bounds, Types
  <2>3. RunInv'  BY <2>1 DEF RunInv
  <2>4. LoadInv'
    <3>1. page' >= 1 /\ lastDBSyncID' = 0  BY <1>8, <2>1 DEF Types
    <3>2. SUFFICES ASSUME whole'  PROVE (Settled(maxID) /\ Read)'
      BY <3>1 DEF LoadInv
    <3>3. Settled(maxID)'  BY <1>3, <1>4, <2>1, <3>2 DEF Settled
    <3>4. page' - 1 = page  BY <2>1 DEF Types
    <3>5. Read'
      BY <1>1, <1>3, <1>9, <1>10, <2>1, <3>2, <3>4 DEF Read, Above, InFilter
    <3>6. QED  BY <3>3, <3>5
  <2>5. QED  BY <1>11, <1>13, <1>14, <2>2, <2>3, <2>4 DEF FilterInv
<1>17. QED  BY <1>15, <1>16

LEMMA LoadStep ==
    ASSUME Types, FilterInv, LoadFromDB \/ LoadFails
    PROVE  FilterInv'
<1>a. Table /\ Bounds /\ RunInv /\ LoadInv /\ SnapInv /\ WriteInv  BY DEF FilterInv
<1>1. CASE Count
  <2>1. /\ phase = "find" \/ phase = "count"
        /\ phase' = "find"
        /\ UNCHANGED << table, redis, page, maxID, bf, lastDBSyncID, written, enabled, marks >>
    BY <1>1 DEF Count
  <2>2. /\ UNCHANGED << id, status, nextId, open, snapped, snap, snapMax >>
        /\ (whole' <=> whole) /\ (clean' <=> clean) /\ (intact' <=> intact)
    BY <2>1, Zenon DEF table, redis, marks
  <2>3. Live' = Live  BY <2>2 DEF Live
  <2>4. Table' /\ Bounds'  BY <2>1, <2>2, <1>a DEF Table, Bounds
  <2>5. RunInv'  BY <2>1 DEF RunInv
  <2>6. Read => Read'  BY <2>1, <2>2, <2>3 DEF Read, Above, InFilter
  <2>7. LoadInv'  BY <2>1, <2>2, <2>6, <1>a DEF LoadInv, Settled
  <2>8. SnapInv'  BY <2>2, <2>3, <1>a DEF SnapInv, Settled, CoveredBy, InFilter
  <2>9. written' = {}  BY <2>1, <1>a DEF WriteInv
  <2>10. WriteInv'  BY <2>9 DEF WriteInv
  <2>11. QED  BY <2>4, <2>5, <2>7, <2>8, <2>10 DEF FilterInv
<1>2. CASE LoadFails
  <2>1. /\ phase \in {"count", "find"} /\ phase' = "running" /\ maxID' = 0
        /\ UNCHANGED << table, redis, bf, lastDBSyncID, written, enabled, clean, intact >>
    BY <1>2 DEF LoadFails
  <2>2. /\ UNCHANGED << id, status, nextId, open, snapped, snap, snapMax >>
        /\ (clean' <=> clean) /\ (intact' <=> intact)
    BY <2>1, Zenon DEF table, redis
  <2>3. Live' = Live /\ \A s \in Live : s \in Subs  BY <2>2 DEF Live
  <2>4. lastDBSyncID = 0  BY <2>1, <1>a DEF LoadInv
  <2>5. Table' /\ Bounds'  BY <2>1, <2>2, <1>a DEF Table, Bounds, Types
  <2>6. Settled(lastDBSyncID)'  BY <2>1, <2>2, <2>4, <1>a DEF Settled, Table
  <2>7. CoveredBy(bf, enabled, lastDBSyncID)'
    BY <2>1, <2>2, <2>3, <2>4, <1>a DEF CoveredBy, Table, Live
  <2>8. RunInv' /\ LoadInv'  BY <2>1, <2>6, <2>7 DEF RunInv, LoadInv
  <2>9. SnapInv'  BY <2>2, <2>3, <1>a DEF SnapInv, Settled, CoveredBy, InFilter
  <2>10. written' = {}  BY <2>1, <1>a DEF WriteInv
  <2>11. WriteInv'  BY <2>10 DEF WriteInv
  <2>12. QED  BY <2>5, <2>8, <2>9, <2>11 DEF FilterInv
<1>3. QED  BY <1>1, <1>2, FindStep DEF LoadFromDB

LEMMA SnapshotStep ==
    ASSUME Types, FilterInv, Snapshot
    PROVE  FilterInv'
<1>a. Table /\ Bounds /\ RunInv /\ LoadInv /\ SnapInv /\ WriteInv  BY DEF FilterInv
<1>s. \A s \in Live : ChainOf[s] \in Chains  BY SubsAssumption DEF Live
<1>1. ASSUME NEW c \in enabled, SnapshotChain(c)  PROVE  FilterInv'
  <2>1. /\ phase = "running" /\ c \notin written /\ written' = written \cup {c}
        /\ UNCHANGED << table, snapMax, phase, page, maxID, bf, lastDBSyncID, enabled, whole >>
    BY <1>1 DEF SnapshotChain
  <2>2. /\ UNCHANGED << id, status, nextId, open >>
        /\ whole' <=> whole
    BY <2>1, Zenon DEF table
  <2>3. Live' = Live  BY <2>2 DEF Live
  <2>4. Table' /\ Bounds'  BY <2>1, <2>2, <1>a DEF Table, Bounds
  <2>5. RunInv' /\ LoadInv'
    BY <2>1, <2>2, <2>3, <1>a DEF RunInv, LoadInv, Settled, CoveredBy, InFilter
  <2>6. CASE /\ snapped' = snapped \cup {c} /\ snap' = [snap EXCEPT ![c] = bf[c]]
             /\ clean' = (clean /\ whole)
             /\ intact' = (intact /\ whole /\ lastDBSyncID >= snapMax)
    <3>1. clean' => clean /\ whole  BY <2>6, Zenon
    <3>2. intact' => intact /\ whole /\ lastDBSyncID >= snapMax  BY <2>6, Zenon
    <3>3. \A d \in Chains : snap'[d] = IF d = c THEN bf[c] ELSE snap[d]
      BY <2>6 DEF Types
    <3>4. ASSUME whole, NEW s \in Live, ChainOf[s] = c
          PROVE  InFilter(snap', s) \/ id[s] > lastDBSyncID
      <4>1. InFilter(bf, s) \/ id[s] > lastDBSyncID
        BY <2>1, <3>4, <1>a DEF RunInv, CoveredBy
      <4>2. QED  BY <3>3, <3>4, <4>1, <1>s DEF InFilter
    <3>5. SnapInv'
      <4>1. SUFFICES ASSUME intact'
                     PROVE  (Settled(snapMax) /\ CoveredBy(snap, snapped, snapMax))'
        BY DEF SnapInv
      <4>2. Settled(snapMax) /\ CoveredBy(snap, snapped, snapMax)
        BY <3>2, <4>1, <1>a DEF SnapInv
      <4>3. ASSUME NEW s \in Live, ChainOf[s] \in snapped'
            PROVE  InFilter(snap', s) \/ id[s] > snapMax
        <5>1. CASE ChainOf[s] = c
          <6>1. InFilter(snap', s) \/ id[s] > lastDBSyncID  BY <3>2, <3>4, <4>1, <5>1
          <6>2. lastDBSyncID >= snapMax /\ id[s] \in Nat /\ lastDBSyncID \in Int /\ snapMax \in Int
            BY <3>2, <4>1 DEF Types, Live
          <6>3. QED  BY <6>1, <6>2
        <5>2. CASE ChainOf[s] # c
          <6>1. InFilter(snap, s) \/ id[s] > snapMax
            BY <2>6, <4>2, <4>3, <5>2 DEF CoveredBy
          <6>2. QED  BY <3>3, <5>2, <6>1, <1>s DEF InFilter
        <5>3. QED  BY <5>1, <5>2
      <4>4. CoveredBy(snap, snapped, snapMax)'
        BY <2>1, <2>2, <2>3, <4>3 DEF CoveredBy, InFilter
      <4>5. QED  BY <2>1, <2>2, <4>2, <4>4 DEF Settled
    <3>6. WriteInv'
      <4>1. SUFFICES ASSUME clean'
                     PROVE  whole' /\ written' \subseteq snapped'
                            /\ CoveredBy(snap, written, lastDBSyncID)'
        BY <2>1 DEF WriteInv
      <4>2. clean /\ whole  BY <3>1, <4>1
      <4>3. /\ written \subseteq snapped
            /\ \A s \in Live : ChainOf[s] \in written =>
                  InFilter(snap, s) \/ id[s] > lastDBSyncID
        <5>1. CASE written = {}  BY <5>1
        <5>2. CASE written # {}  BY <4>2, <5>2, <1>a DEF WriteInv, CoveredBy
        <5>3. QED  BY <5>1, <5>2
      <4>4. ASSUME NEW s \in Live, ChainOf[s] \in written'
            PROVE  InFilter(snap', s) \/ id[s] > lastDBSyncID
        <5>1. CASE ChainOf[s] = c  BY <3>4, <4>2, <5>1
        <5>2. CASE ChainOf[s] # c
          <6>1. InFilter(snap, s) \/ id[s] > lastDBSyncID  BY <2>1, <4>3, <4>4, <5>2
          <6>2. QED  BY <3>3, <5>2, <6>1, <1>s DEF InFilter
        <5>3. QED  BY <5>1, <5>2
      <4>5. CoveredBy(snap, written, lastDBSyncID)'
        BY <2>1, <2>2, <2>3, <4>4 DEF CoveredBy, InFilter
      <4>6. QED  BY <2>1, <2>2, <2>6, <4>2, <4>3, <4>5
    <3>7. QED  BY <2>4, <2>5, <3>5, <3>6 DEF FilterInv
  <2>7. CASE clean' = FALSE /\ UNCHANGED << snapped, snap, intact >>
    <3>1. ~ clean' /\ (intact' <=> intact)  BY <2>7, Zenon
    <3>2. WriteInv'  BY <2>1, <3>1 DEF WriteInv
    <3>3. SnapInv'
      BY <2>1, <2>2, <2>3, <2>7, <3>1, <1>a DEF SnapInv, Settled, CoveredBy, InFilter
    <3>4. QED  BY <2>4, <2>5, <3>2, <3>3 DEF FilterInv
  <2>8. QED  BY <1>1, <2>6, <2>7 DEF SnapshotChain
<1>2. CASE SnapshotMaxID
  <2>1. /\ phase = "running" /\ written = enabled /\ written' = {}
        /\ UNCHANGED << table, snapped, snap, phase, page, maxID, bf, lastDBSyncID, enabled, whole >>
    BY <1>2 DEF SnapshotMaxID
  <2>2. /\ UNCHANGED << id, status, nextId, open >>
        /\ whole' <=> whole
    BY <2>1, Zenon DEF table
  <2>3. Live' = Live  BY <2>2 DEF Live
  <2>4. Table'  BY <2>2, <1>a DEF Table
  <2>5. RunInv' /\ LoadInv'
    BY <2>1, <2>2, <2>3, <1>a DEF RunInv, LoadInv, Settled, CoveredBy, InFilter
  <2>6. WriteInv'  BY <2>1 DEF WriteInv
  <2>7. CASE snapMax' = lastDBSyncID /\ intact' = clean
    <3>1. intact' => clean  BY <2>7, Zenon
    <3>2. Bounds'  BY <2>1, <2>2, <2>7, <1>a DEF Bounds
    <3>3. SnapInv'
      <4>1. SUFFICES ASSUME intact'
                     PROVE  (Settled(snapMax) /\ CoveredBy(snap, snapped, snapMax))'
        BY DEF SnapInv
      <4>2. written # {}  BY <2>1, <1>a DEF Bounds
      <4>3. whole /\ snapped = written /\ CoveredBy(snap, written, lastDBSyncID)
        BY <2>1, <3>1, <4>1, <4>2, <1>a DEF WriteInv, Types
      <4>4. Settled(lastDBSyncID)  BY <2>1, <4>3, <1>a DEF RunInv
      <4>5. Settled(snapMax)'  BY <2>2, <2>7, <4>4 DEF Settled
      <4>6. CoveredBy(snap, snapped, snapMax)'
        BY <2>1, <2>2, <2>3, <2>7, <4>3 DEF CoveredBy, InFilter
      <4>7. QED  BY <4>5, <4>6
    <3>4. QED  BY <2>4, <2>5, <2>6, <3>2, <3>3 DEF FilterInv
  <2>8. CASE UNCHANGED << snapMax, intact >>
    <3>1. intact' <=> intact  BY <2>8, Zenon
    <3>2. Bounds'  BY <2>1, <2>2, <2>8, <1>a DEF Bounds
    <3>3. SnapInv'
      BY <2>1, <2>2, <2>3, <2>8, <3>1, <1>a DEF SnapInv, Settled, CoveredBy, InFilter
    <3>4. QED  BY <2>4, <2>5, <2>6, <3>2, <3>3 DEF FilterInv
  <2>9. QED  BY <1>2, <2>7, <2>8 DEF SnapshotMaxID
<1>3. QED  BY <1>1, <1>2 DEF Snapshot

LEMMA FilterStep ==
    ASSUME Types, FilterInv, [Next]_vars
    PROVE  FilterInv'
<1>a. Table /\ Bounds /\ RunInv /\ LoadInv /\ SnapInv /\ WriteInv  BY DEF FilterInv
<1>1. CASE Api  BY <1>1, ApiStep, TypeStep
<1>2. CASE handleAddressEvent  BY <1>2, SubscriberStep
<1>3. CASE syncFromDB  BY <1>3, SyncStep
<1>4. CASE Start  BY <1>4, StartStep
<1>5. CASE LoadFromDB \/ LoadFails  BY <1>5, LoadStep
<1>6. CASE Snapshot  BY <1>6, SnapshotStep
<1>7. ASSUME UNCHANGED << id, status, nextId, open, snapped, snap, snapMax >>, intact' <=> intact
      PROVE  Table' /\ SnapInv'
  <2>1. Live' = Live  BY <1>7 DEF Live
  <2>2. QED  BY <1>7, <1>a, <2>1 DEF Table, SnapInv, Settled, CoveredBy, InFilter
<1>8. CASE Crash
  <2>1. /\ phase' = "down" /\ maxID' = 0 /\ lastDBSyncID' = 0 /\ written' = {}
        /\ UNCHANGED << table, redis, enabled, intact >>
    BY <1>8 DEF Crash
  <2>2. /\ UNCHANGED << id, status, nextId, open, snapped, snap, snapMax >>
        /\ intact' <=> intact
    BY <2>1, Zenon DEF table, redis
  <2>3. Bounds'  BY <2>1, <2>2, <1>a DEF Bounds, Types
  <2>4. RunInv' /\ LoadInv' /\ WriteInv'  BY <2>1 DEF RunInv, LoadInv, WriteInv
  <2>5. QED  BY <1>7, <2>2, <2>3, <2>4 DEF FilterInv
<1>9. CASE Reconfigure
  <2>1. /\ phase = "down" /\ enabled \subseteq enabled'
        /\ UNCHANGED << table, redis, worker, marks >>
    BY <1>9 DEF Reconfigure
  <2>2. /\ UNCHANGED << id, status, nextId, open, snapped, snap, snapMax >>
        /\ intact' <=> intact
    BY <2>1, Zenon DEF table, redis, marks
  <2>3. UNCHANGED << phase, maxID, lastDBSyncID, written >>  BY <2>1 DEF worker
  <2>4. Bounds'  BY <2>1, <2>2, <2>3, <1>a DEF Bounds
  <2>5. written' = {}  BY <2>1, <2>3, <1>a DEF WriteInv
  <2>6. RunInv' /\ LoadInv' /\ WriteInv'
    BY <2>1, <2>3, <2>5 DEF RunInv, LoadInv, WriteInv
  <2>7. QED  BY <1>7, <2>2, <2>4, <2>6 DEF FilterInv
<1>10. CASE LoseMessage \/ UNCHANGED vars
  <2>1. UNCHANGED << table, redis, worker, enabled, marks >>
    BY <1>10 DEF LoseMessage, vars
  <2>2. /\ UNCHANGED << id, status, nextId, open, snapped, snap, snapMax >>
        /\ (whole' <=> whole) /\ (clean' <=> clean) /\ (intact' <=> intact)
    BY <2>1, Zenon DEF table, redis, marks
  <2>3. UNCHANGED << phase, page, maxID, bf, lastDBSyncID, written, enabled >>
    BY <2>1 DEF worker
  <2>4. Live' = Live  BY <2>2 DEF Live
  <2>5. Bounds'  BY <2>2, <2>3, <1>a DEF Bounds
  <2>6. RunInv'  BY <2>2, <2>3, <2>4, <1>a DEF RunInv, Settled, CoveredBy, InFilter
  <2>7. Read => Read'  BY <2>2, <2>3, <2>4 DEF Read, Above, InFilter
  <2>8. LoadInv'  BY <2>2, <2>3, <2>7, <1>a DEF LoadInv, Settled
  <2>9. WriteInv'  BY <2>2, <2>3, <2>4, <1>a DEF WriteInv, CoveredBy, InFilter
  <2>10. QED  BY <1>7, <2>2, <2>5, <2>6, <2>8, <2>9 DEF FilterInv
<1>11. QED  BY <1>1, <1>2, <1>3, <1>4, <1>5, <1>6, <1>8, <1>9, <1>10 DEF Next

\* Matcher never forgets an address that lives in MySQL while its filters were built
\* from all rows: it is in the Bloom filter, or syncFromDB will still read it.  So
\* the six events that clear "whole" are the only ones that can, for any number of
\* addresses, chains and pages, and crashes, lost messages, failed announcements
\* and failed queries are not among them.
THEOREM CoveredHolds == Spec => []Covered
<1> DEFINE IInv == Types /\ FilterInv
<1>1. Init => IInv  BY TypeInit, InitFilter
<1>2. IInv /\ [Next]_vars => IInv'  BY TypeStep, FilterStep
<1>3. IInv => Covered
  BY DEF Types, FilterInv, RunInv, CoveredBy, Covered
<1>4. QED  BY <1>1, <1>2, <1>3, PTL DEF Spec

-----------------------------------------------------------------------------
(* ContractFilter: the inductive invariant *)

Lists == [Contracts -> Row]

EventRecord == [c : Contracts, symbol : Values, decimals : Values, crossed : BOOLEAN]

PoolTypeOK ==
    /\ pc \in [Pool -> {"idle", "symbol", "decimals"}]
    /\ event \in [Pool -> EventRecord \cup {NoEvent}]
    /\ \A w \in Pool : IF pc[w] = "idle" THEN event[w] = NoEvent ELSE event[w] \in EventRecord

ListTypeInv ==
    /\ rowOf \in Lists /\ lists \subseteq Lists /\ read \in Lists
    /\ allowed \subseteq Contracts
    /\ symbols \in [Contracts -> Values] /\ decimals \in [Contracts -> Values]
    /\ job \in {"load", "tick", "reload"} /\ failures \in Nat
    /\ PoolTypeOK

\* Nothing has been asked of the filter before the first load.
FreshInv ==
    job = "load" => /\ allowed = {} /\ symbols = Nothing /\ decimals = Nothing
                    /\ \A w \in Pool : pc[w] = "idle"
                    /\ out = NoEvent

\* The lists the table has held are the ones the refresh job can have read.
ReadInv == ListEnabled(rowOf) \in lists /\ (job = "reload" => read \in lists)

\* What an event that no reload has crossed was told, the filter still says.
AnsweredInv ==
    \A w \in Pool : pc[w] # "idle" /\ ~ event[w].crossed =>
        /\ IsAllowed(event[w].c)
        /\ pc[w] = "decimals" => event[w].symbol = symbols[event[w].c]

ContractInv == ListTypeInv /\ FreshInv /\ ReadInv /\ OneList /\ AnsweredInv /\ TokenIsListed

-----------------------------------------------------------------------------

LEMMA RowFacts ==
    /\ Absent \in Row
    /\ \A r \in Row : r.on \in BOOLEAN /\ r.symbol \in Values /\ r.decimals \in Values
    /\ \A t \in Lists : ListEnabled(t) \in Lists
    /\ Nobody \in Lists /\ Nothing \in [Contracts -> Values]
  <1>1. Absent \in Row /\ 0 \in Values
    BY FilterAssumption DEF Absent, Row, Values
  <1>2. \A t \in Lists : ListEnabled(t) \in Lists
    BY <1>1 DEF Lists, ListEnabled
  <1>3. Nobody \in Lists /\ Nothing \in [Contracts -> Values]
    BY <1>1 DEF Lists, Nobody, Nothing
  <1>4. \A r \in Row : r.on \in BOOLEAN /\ r.symbol \in Values /\ r.decimals \in Values
    BY DEF Row
  <1> QED  BY <1>1, <1>2, <1>3, <1>4

LEMMA FilterInitially == ContractInit => ContractInv
  <1> SUFFICES ASSUME ContractInit PROVE ContractInv
    OBVIOUS
  <1> USE DEF ContractInit
  <1>1. rowOf \in Lists
    <2>1. [on |-> TRUE, symbol |-> MaxValue, decimals |-> MaxValue] \in Row
      BY FilterAssumption DEF Row, Values
    <2> QED  BY <2>1, RowFacts DEF Lists
  <1>2. ListTypeInv
    <2>1. PoolTypeOK
      BY DEF PoolTypeOK
    <2>2. lists \subseteq Lists
      BY <1>1, RowFacts
    <2> QED  BY <1>1, <2>1, <2>2, RowFacts DEF ListTypeInv
  <1>3. FreshInv /\ ReadInv /\ AnsweredInv
    BY DEF FreshInv, ReadInv, AnsweredInv
  <1>4. OneList
    <2>1. Nobody \in Loadable
      BY DEF Loadable
    <2>2. Agrees(Nobody)
      BY DEF Agrees, Nobody, Nothing, Absent
    <2> QED  BY <2>1, <2>2 DEF OneList
  <1>5. TokenIsListed
    BY DEF TokenIsListed
  <1> QED  BY <1>2, <1>3, <1>4, <1>5 DEF ContractInv

-----------------------------------------------------------------------------

\* Unless the first load succeeds, what could be loaded can still be.
LEMMA LoadableGrows ==
    ASSUME failures \in Nat, failures' \in Nat, failures <= failures', lists \subseteq lists',
           job = "load" => job' = "load" \/ failures' > 0
    PROVE  Loadable \subseteq Loadable'
  BY DEF Loadable

LEMMA SameFilter ==
    ASSUME ContractInv, UNCHANGED filter, Loadable \subseteq Loadable'
    PROVE  OneList'
  <1>1. PICK l \in Loadable : Agrees(l)
    BY DEF ContractInv, OneList
  <1>2. Agrees(l)'
    BY <1>1 DEF Agrees, filter
  <1> QED  BY <1>1, <1>2 DEF OneList

LEMMA SameOut ==
    ASSUME ContractInv, UNCHANGED out, Loadable \subseteq Loadable'
    PROVE  TokenIsListed'
  BY DEF ContractInv, TokenIsListed

LEMMA SamePool ==
    ASSUME ContractInv, UNCHANGED << filter, pc, event >>
    PROVE  AnsweredInv' /\ PoolTypeOK'
  BY DEF ContractInv, ListTypeInv, AnsweredInv, PoolTypeOK, IsAllowed, filter

LEMMA EditStep ==
    ASSUME ContractInv, NEW c \in Contracts, NEW row \in Row, Edit(c, row)
    PROVE  ContractInv'
  <1> USE DEF Edit, filter, pool
  <1>1. rowOf' \in Lists
    BY DEF ContractInv, ListTypeInv, Lists
  <1>2. lists' \subseteq Lists /\ ListEnabled(rowOf') \in lists' /\ lists \subseteq lists'
    BY <1>1, RowFacts DEF ContractInv, ListTypeInv
  <1>3. ReadInv'
    <2>1. job' = "reload" => read' \in lists'
      BY <1>2 DEF ContractInv, ReadInv
    <2>2. ListEnabled(rowOf)' = ListEnabled(rowOf')
      BY DEF ListEnabled
    <2> QED  BY <1>2, <2>1, <2>2 DEF ReadInv
  <1>4. Loadable \subseteq Loadable'
    BY <1>2, LoadableGrows DEF ContractInv, ListTypeInv
  <1>5. ListTypeInv'
    BY <1>1, <1>2, SamePool DEF ContractInv, ListTypeInv
  <1>6. FreshInv'
    BY DEF ContractInv, FreshInv
  <1> QED  BY <1>3, <1>4, <1>5, <1>6, SameFilter, SameOut, SamePool DEF ContractInv

\* The filter takes over a list the table has held.
LEMMA ReloadFacts ==
    ASSUME ListTypeInv, NEW l \in Lists, reload(l)
    PROVE  /\ allowed' \subseteq Contracts /\ symbols' \in [Contracts -> Values]
           /\ decimals' \in [Contracts -> Values]
           /\ Agrees(l)'
  <1>1. \A c \in Contracts : l[c] \in Row
    BY DEF Lists
  <1>2. allowed' \subseteq Contracts /\ \A c \in Contracts : c \in allowed' <=> l[c].on
    BY DEF reload
  <1>3. symbols' \in [Contracts -> Values] /\ \A c \in Contracts : symbols'[c] = l[c].symbol
    BY <1>1, RowFacts DEF reload
  <1>4. decimals' \in [Contracts -> Values] /\ \A c \in Contracts : decimals'[c] = l[c].decimals
    BY <1>1, RowFacts DEF reload
  <1> QED  BY <1>2, <1>3, <1>4 DEF Agrees

LEMMA FailureFacts ==
    ASSUME failures \in Nat, ListEnabledFails
    PROVE  failures' \in Nat /\ failures <= failures' /\ failures' > 0
  BY DEF ListEnabledFails

LEMMA LoadListStep ==
    ASSUME ContractInv, Load
    PROVE  ContractInv'
  <1> USE DEF Load, db, pool
  <1>1. out = NoEvent /\ out' = NoEvent /\ \A w \in Pool : pc[w] = "idle"
    BY DEF ContractInv, FreshInv
  <1>2. PoolTypeOK' /\ AnsweredInv' /\ TokenIsListed'
    BY <1>1 DEF ContractInv, ListTypeInv, PoolTypeOK, AnsweredInv, TokenIsListed
  <1>3. FreshInv' /\ ReadInv'
    <2>1. ListEnabled(rowOf)' = ListEnabled(rowOf)
      BY DEF ListEnabled
    <2> QED  BY <2>1 DEF ContractInv, FreshInv, ReadInv
  <1>4. CASE reload(ListEnabled(rowOf)) /\ UNCHANGED failures
    <2>1. PICK l \in lists : l = ListEnabled(rowOf)
      BY DEF ContractInv, ReadInv
    <2>2. l \in Lists
      BY <2>1 DEF ContractInv, ListTypeInv
    <2>3. /\ allowed' \subseteq Contracts /\ symbols' \in [Contracts -> Values]
          /\ decimals' \in [Contracts -> Values]
          /\ Agrees(l)'
      BY <1>4, <2>1, <2>2, ReloadFacts DEF ContractInv
    <2>4. OneList'
      BY <2>1, <2>3 DEF OneList, Loadable
    <2>5. ListTypeInv'
      BY <1>2, <1>4, <2>3 DEF ContractInv, ListTypeInv
    <2> QED  BY <1>2, <1>3, <2>4, <2>5 DEF ContractInv
  <1>5. CASE ListEnabledFails /\ UNCHANGED filter
    <2>1. failures' \in Nat /\ failures <= failures' /\ failures' > 0
      BY <1>5, FailureFacts DEF ContractInv, ListTypeInv
    <2>2. OneList'
      BY <1>5, <2>1, LoadableGrows, SameFilter DEF ContractInv, ListTypeInv
    <2>3. ListTypeInv'
      BY <1>2, <1>5, <2>1 DEF ContractInv, ListTypeInv, filter
    <2> QED  BY <1>2, <1>3, <2>2, <2>3 DEF ContractInv
  <1> QED  BY <1>4, <1>5

LEMMA RefreshStep ==
    ASSUME ContractInv, Refresh
    PROVE  ContractInv'
  <1> USE DEF Refresh, db, pool, filter, AfterFailure
  <1>1. failures' \in Nat /\ failures <= failures'
    BY FailureFacts DEF ContractInv, ListTypeInv
  <1>2. Loadable \subseteq Loadable'
    BY <1>1, LoadableGrows DEF ContractInv, ListTypeInv
  <1>3. ListEnabled(rowOf)' = ListEnabled(rowOf) /\ ListEnabled(rowOf) \in Lists
    BY RowFacts DEF ListEnabled, ContractInv, ListTypeInv
  <1>4. FreshInv' /\ ReadInv'
    BY <1>3 DEF ContractInv, FreshInv, ReadInv
  <1>5. ListTypeInv'
    BY <1>1, <1>3, SamePool DEF ContractInv, ListTypeInv
  <1> QED  BY <1>2, <1>4, <1>5, SameFilter, SameOut, SamePool DEF ContractInv

LEMMA ReloadStep ==
    ASSUME ContractInv, Reload
    PROVE  ContractInv'
  <1> USE DEF Reload, db
  <1>1. read \in lists /\ read \in Lists
    BY DEF ContractInv, ListTypeInv, ReadInv
  <1>2. /\ allowed' \subseteq Contracts /\ symbols' \in [Contracts -> Values]
        /\ decimals' \in [Contracts -> Values]
        /\ \A c \in Contracts : /\ c \in allowed' <=> read[c].on
                                /\ symbols'[c] = read[c].symbol /\ decimals'[c] = read[c].decimals
    <2>1. PICK l \in Lists : l = read
      BY <1>1
    <2>2. reload(l)
      BY <2>1
    <2> QED  BY <2>1, <2>2, ReloadFacts DEF ContractInv, Agrees
  <1>3. OneList'
    <2>1. PICK l \in lists : l = read
      BY <1>1
    <2>2. l \in Loadable'
      BY <2>1 DEF Loadable
    <2> QED  BY <1>2, <2>1, <2>2 DEF OneList, Agrees
  <1>4. \A w \in Pool : /\ pc'[w] = pc[w]
                        /\ event'[w] = [event[w] EXCEPT !.crossed = pc[w] # "idle"]
    BY DEF ContractInv, ListTypeInv, PoolTypeOK
  <1>5. ASSUME NEW w \in Pool
        PROVE  IF pc[w] = "idle" THEN event'[w] = NoEvent
                                 ELSE event'[w] \in EventRecord /\ event'[w].crossed
    <2>1. CASE pc[w] = "idle"
      BY <1>4, <2>1 DEF ContractInv, ListTypeInv, PoolTypeOK, NoEvent
    <2>2. CASE pc[w] # "idle"
      <3>1. event[w] \in EventRecord
        BY <2>2 DEF ContractInv, ListTypeInv, PoolTypeOK
      <3>2. event'[w] = [event[w] EXCEPT !.crossed = TRUE]
        BY <1>4, <2>2
      <3> QED  BY <2>2, <3>1, <3>2 DEF EventRecord
    <2> QED  BY <2>1, <2>2
  <1>6. PoolTypeOK' /\ AnsweredInv'
    <2>1. AnsweredInv'
      BY <1>4, <1>5 DEF AnsweredInv
    <2>2. DOMAIN event' = Pool /\ event' = [w \in Pool |-> event'[w]]
      OBVIOUS
    <2>3. event' \in [Pool -> EventRecord \cup {NoEvent}]
      BY <1>5, <2>2
    <2> QED  BY <1>4, <1>5, <2>1, <2>3 DEF ContractInv, ListTypeInv, PoolTypeOK
  <1>7. Loadable \subseteq Loadable'
    BY LoadableGrows DEF ContractInv, ListTypeInv
  <1>8. ListTypeInv'
    BY <1>2, <1>6, RowFacts DEF ContractInv, ListTypeInv
  <1>9. FreshInv' /\ ReadInv'
    <2>1. ListEnabled(rowOf)' = ListEnabled(rowOf)
      BY DEF ListEnabled
    <2> QED  BY <2>1 DEF ContractInv, FreshInv, ReadInv
  <1> QED  BY <1>3, <1>6, <1>7, <1>8, <1>9, SameOut DEF ContractInv

\* A step of handleRawEvent: the task of w becomes e, at point p.
LEMMA EventStep ==
    ASSUME ContractInv, NEW w \in Pool, NEW e, NEW p \in {"idle", "symbol", "decimals"},
           pc' = [pc EXCEPT ![w] = p], event' = [event EXCEPT ![w] = e],
           IF p = "idle" THEN e = NoEvent ELSE e \in EventRecord,
           p # "idle" /\ ~ e.crossed => /\ IsAllowed(e.c)
                                        /\ p = "decimals" => e.symbol = symbols[e.c],
           UNCHANGED << db, filter, job, read, failures >>, job # "load", TokenIsListed'
    PROVE  ContractInv'
  <1> USE DEF db, filter
  <1>1. \A v \in Pool : pc'[v] = (IF v = w THEN p ELSE pc[v])
                        /\ event'[v] = (IF v = w THEN e ELSE event[v])
    BY DEF ContractInv, ListTypeInv, PoolTypeOK
  <1>2. PoolTypeOK'
    BY <1>1 DEF ContractInv, ListTypeInv, PoolTypeOK
  <1>3. AnsweredInv'
    BY <1>1 DEF ContractInv, AnsweredInv, IsAllowed
  <1>4. Loadable \subseteq Loadable'
    BY DEF Loadable
  <1>5. FreshInv' /\ ReadInv'
    <2>1. ListEnabled(rowOf)' = ListEnabled(rowOf)
      BY DEF ListEnabled
    <2> QED  BY <2>1 DEF ContractInv, FreshInv, ReadInv
  <1>6. ListTypeInv'
    BY <1>2 DEF ContractInv, ListTypeInv
  <1> QED  BY <1>3, <1>4, <1>5, <1>6, SameFilter DEF ContractInv

LEMMA LoadableStays ==
    ASSUME UNCHANGED << db, job, failures >>
    PROVE  Loadable \subseteq Loadable'
  BY DEF Loadable, db

LEMMA PoolStep ==
    ASSUME ContractInv, NEW w \in Pool,
           (\E c \in Contracts : Filter(w, c)) \/ GetSymbol(w) \/ GetDecimals(w)
    PROVE  ContractInv'
  <1>1. CASE \E c \in Contracts : Filter(w, c)
    <2>1. PICK c \in Contracts : Filter(w, c)
      BY <1>1
    <2>2. PICK e : e = [c |-> c, symbol |-> 0, decimals |-> 0, crossed |-> FALSE]
      OBVIOUS
    <2>3. e \in EventRecord /\ e.c = c
      BY <2>2, FilterAssumption DEF EventRecord, Values
    <2>4. TokenIsListed'
      BY <2>1, LoadableStays, SameOut DEF Filter
    <2> QED  BY <2>1, <2>2, <2>3, <2>4, EventStep DEF Filter
  <1>2. CASE GetSymbol(w)
    <2>1. event[w] \in EventRecord /\ job # "load"
      BY <1>2 DEF GetSymbol, ContractInv, ListTypeInv, PoolTypeOK, FreshInv
    <2>2. PICK e : e = [event[w] EXCEPT !.symbol = symbols[event[w].c]]
      OBVIOUS
    <2>3. symbols[event[w].c] \in Values
      BY <2>1 DEF ContractInv, ListTypeInv, EventRecord
    <2>4. e \in EventRecord /\ e.c = event[w].c /\ e.crossed = event[w].crossed
          /\ e.symbol = symbols[e.c]
      BY <2>1, <2>2, <2>3 DEF EventRecord
    <2>5. event' = [event EXCEPT ![w] = e]
      BY <1>2, <2>2 DEF GetSymbol
    <2>6. ~ e.crossed => IsAllowed(e.c)
      BY <1>2, <2>4 DEF GetSymbol, ContractInv, AnsweredInv
    <2>7. TokenIsListed'
      BY <1>2, LoadableStays, SameOut DEF GetSymbol
    <2> QED  BY <1>2, <2>1, <2>4, <2>5, <2>6, <2>7, EventStep DEF GetSymbol
  <1>3. CASE GetDecimals(w)
    <2>1. event[w] \in EventRecord /\ job # "load"
      BY <1>3 DEF GetDecimals, ContractInv, ListTypeInv, PoolTypeOK, FreshInv
    <2>2. PICK e : e = event[w]
      OBVIOUS
    <2>3. PICK c \in Contracts : c = e.c
      BY <2>1, <2>2 DEF EventRecord
    <2>4. out' = [e EXCEPT !.decimals = decimals[c]]
      BY <1>3, <2>2, <2>3 DEF GetDecimals
    <2>5. out'.c = c /\ out'.symbol = e.symbol /\ out'.crossed = e.crossed
          /\ out'.decimals = decimals[c]
      BY <2>1, <2>2, <2>3, <2>4 DEF EventRecord
    <2>6. ASSUME ~ e.crossed
          PROVE  \E l \in Loadable : /\ l[c].symbol = e.symbol /\ l[c].decimals = decimals[c]
                                     /\ l[c].on \/ \A d \in Contracts : ~ l[d].on
      <3>1. IsAllowed(c) /\ e.symbol = symbols[c]
        BY <1>3, <2>2, <2>3, <2>6 DEF GetDecimals, ContractInv, AnsweredInv
      <3>2. PICK l \in Loadable : Agrees(l)
        BY DEF ContractInv, OneList
      <3>3. l[c].symbol = e.symbol /\ l[c].decimals = decimals[c]
        BY <3>1, <3>2 DEF Agrees
      <3>4. l[c].on \/ \A d \in Contracts : ~ l[d].on
        BY <3>1, <3>2 DEF Agrees, IsAllowed
      <3> QED  BY <3>2, <3>3, <3>4
    <2>7. TokenIsListed'
      <3>1. Loadable \subseteq Loadable'
        BY <1>3, LoadableStays DEF GetDecimals
      <3> QED  BY <2>5, <2>6, <3>1 DEF TokenIsListed
    <2> QED  BY <1>3, <2>1, <2>7, EventStep DEF GetDecimals
  <1> QED  BY <1>1, <1>2, <1>3

LEMMA FilterNext == ContractInv /\ [ContractNext]_contractVars => ContractInv'
  <1> SUFFICES ASSUME ContractInv, [ContractNext]_contractVars PROVE ContractInv'
    OBVIOUS
  <1>1. CASE \E c \in Contracts : DeleteContract(c) \/ \E row \in Row : CreateContract(c, row) \/ UpdateContract(c, row)
    BY <1>1, EditStep, RowFacts DEF DeleteContract, CreateContract, UpdateContract
  <1>2. CASE Load \/ Refresh \/ Reload
    BY <1>2, LoadListStep, RefreshStep, ReloadStep
  <1>3. CASE \E w \in Pool : (\E c \in Contracts : Filter(w, c)) \/ GetSymbol(w) \/ GetDecimals(w)
    BY <1>3, PoolStep
  <1>4. CASE UNCHANGED contractVars
    <2> USE <1>4 DEF contractVars, db, pool, filter
    <2>1. ListTypeInv' /\ FreshInv' /\ ReadInv'
      <3>1. ListEnabled(rowOf)' = ListEnabled(rowOf)
        BY DEF ListEnabled
      <3> QED  BY <3>1 DEF ContractInv, ListTypeInv, FreshInv, ReadInv, PoolTypeOK
    <2>2. Loadable \subseteq Loadable'
      BY DEF Loadable
    <2> QED  BY <2>1, <2>2, SameFilter, SameOut, SamePool DEF ContractInv
  <1> QED  BY <1>1, <1>2, <1>3, <1>4 DEF ContractNext

LEMMA FilterHolds == ContractSpec => []ContractInv
  BY FilterInitially, FilterNext, PTL DEF ContractSpec

\* However edits, refreshes and failures interleave, what a worker filters by is one
\* whole list the table has held, or no list before anything could be loaded.
THEOREM OneListAtATime == ContractSpec => []OneList
  <1>1. ContractInv => OneList
    BY DEF ContractInv
  <1> QED  BY <1>1, FilterHolds, PTL

\* What one event is told by the filter, unless a reload comes between its questions,
\* is what one list says.
THEOREM TokensAreListed == ContractSpec => []TokenIsListed
  <1>1. ContractInv => TokenIsListed
    BY DEF ContractInv
  <1> QED  BY <1>1, FilterHolds, PTL
=============================================================================
