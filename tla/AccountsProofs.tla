---------------------------- MODULE AccountsProofs ----------------------------
(***************************************************************************)
(* Proofs about accounts: links are used up only for verified accounts, a  *)
(* session has one refresh token and a logout ends it, and duplicate names *)
(* and URLs of apps are written by overlapping requests only.              *)
(***************************************************************************)
EXTENDS Accounts, TLAPS, FiniteSetTheorems

-----------------------------------------------------------------------------
(* Rows of a table *)

LEMMA SeqOf ==
    ASSUME NEW S, NEW T, NEW q \in Seq(S), \A i \in DOMAIN q : q[i] \in T
    PROVE  q \in Seq(T)
  OBVIOUS

LEMMA SeqAppend ==
    ASSUME NEW S, NEW T, NEW q \in Seq(S), \A i \in DOMAIN q : q[i] \in T, NEW v \in T
    PROVE  /\ Append(q, v) \in Seq(T)
           /\ Len(q) \in Nat /\ DOMAIN q = 1..Len(q)
           /\ Len(Append(q, v)) = Len(q) + 1
           /\ DOMAIN Append(q, v) = 1..(Len(q) + 1)
           /\ Append(q, v)[Len(q) + 1] = v
           /\ \A i \in DOMAIN q : Append(q, v)[i] = q[i]
  <1>1. q \in Seq(T)
    BY SeqOf
  <1> QED  BY <1>1

LEMMA SeqExcept ==
    ASSUME NEW S, NEW T, NEW q \in Seq(S), \A i \in DOMAIN q : q[i] \in T,
           NEW k, NEW v, k \in DOMAIN q => v \in T
    PROVE  /\ [q EXCEPT ![k] = v] \in Seq(T)
           /\ Len([q EXCEPT ![k] = v]) = Len(q)
           /\ DOMAIN [q EXCEPT ![k] = v] = DOMAIN q
           /\ \A i \in DOMAIN q : [q EXCEPT ![k] = v][i] = IF i = k THEN v ELSE q[i]
  <1> DEFINE r == [q EXCEPT ![k] = v]
  <1>1. /\ Len(q) \in Nat /\ DOMAIN q = 1..Len(q)
        /\ DOMAIN r = 1..Len(q)
        /\ \A i \in 1..Len(q) : r[i] = IF i = k THEN v ELSE q[i]
    OBVIOUS
  <1>2. \A i \in 1..Len(q) : r[i] \in T
    BY <1>1
  <1>3. r = [i \in 1..Len(q) |-> r[i]]
    BY <1>1
  <1> HIDE DEF r
  <1>4. r \in Seq(T)
    BY <1>1, <1>2, <1>3
  <1>5. Len(r) = Len(q)
    BY <1>1, <1>4
  <1> QED  BY <1>1, <1>4, <1>5 DEF r

-----------------------------------------------------------------------------
(* Requests *)

Operations == {"Register", "ResendVerify", "VerifyEmail", "Login", "Refresh", "Logout",
               "Create", "Update", "Delete"}

Apps == 1..Len(apps)

\* The row a request is about: its link, token or app.
RowOK(q) ==
    /\ \/ q.op = "VerifyEmail"
       \/ q.op = "Register" /\ q.at = 4
       \/ q.op = "ResendVerify" /\ q.at = 3
       => q.row \in DOMAIN links /\ links[q.row].user = q.user
    /\ q.op \in {"Refresh", "Logout"} => q.row \in DOMAIN tokens
    /\ q.op = "Create" => q.row = 0 /\ q.name \in Names
    /\ q.op \in {"Update", "Delete"} => q.row \in DOMAIN apps /\ apps[q.row].user = q.user

RequestOK(q) ==
    /\ q \in [op : Operations, user : Users, row : Nat, name : Names \cup {None},
              url : URLs \cup {None}, at : 1..4, during : SUBSET Apps]
    /\ q.at <= Len(Statements(q.op))
    /\ RowOK(q)

RequestsOK == /\ req = [s \in Slots |-> req[s]]
              /\ \A s \in Slots : req[s] # Idle => RequestOK(req[s])

\* TypeOK with the requests: which row each statement finds under the number that the
\* statements before it left.
TypeInv == TypeOK /\ RequestsOK

\* The statements, one by one.
LEMMA StatementsAre ==
    /\ Len(Statements("Register")) = 4
    /\ Statements("Register")[1] = "GetByEmail"
    /\ Statements("Register")[2] = "CreateUser"
    /\ Statements("Register")[3] = "CreateLink"
    /\ Statements("Register")[4] = "Send"
    /\ Len(Statements("ResendVerify")) = 3
    /\ Statements("ResendVerify")[1] = "GetByEmail"
    /\ Statements("ResendVerify")[2] = "CreateLink"
    /\ Statements("ResendVerify")[3] = "Send"
    /\ Len(Statements("VerifyEmail")) = 3
    /\ Statements("VerifyEmail")[1] = "GetByToken"
    /\ Statements("VerifyEmail")[2] = "UpdateStatus"
    /\ Statements("VerifyEmail")[3] = "MarkUsed"
    /\ Len(Statements("Login")) = 2
    /\ Statements("Login")[1] = "GetByEmail"
    /\ Statements("Login")[2] = "generateTokenPair"
    /\ Len(Statements("Refresh")) = 3
    /\ Statements("Refresh")[1] = "GetByTokenHash"
    /\ Statements("Refresh")[2] = "Revoke"
    /\ Statements("Refresh")[3] = "generateTokenPair"
    /\ Len(Statements("Logout")) = 2
    /\ Statements("Logout")[1] = "GetByTokenHash"
    /\ Statements("Logout")[2] = "Revoke"
    /\ Len(Statements("Create")) = 3
    /\ Statements("Create")[1] = "NameExists"
    /\ Statements("Create")[2] = "CallbackURLExists"
    /\ Statements("Create")[3] = "Create"
    /\ Len(Statements("Update")) = 3
    /\ Statements("Update")[1] = "NameExists"
    /\ Statements("Update")[2] = "CallbackURLExists"
    /\ Statements("Update")[3] = "Update"
    /\ Len(Statements("Delete")) = 1
    /\ Statements("Delete")[1] = "Delete"
  BY DEF Statements, VerifyStatements

\* Request s is an op that has come to statement number k.
On(s, op, k) == req[s] # Idle /\ req[s].op = op /\ req[s].at = k

\* Where a request is that has come to a statement.
LEMMA AtIs ==
    ASSUME TypeInv, NEW s \in Slots
    PROVE
    /\ At(s, "GetByEmail") <=> On(s, "Register", 1) \/ On(s, "ResendVerify", 1) \/ On(s, "Login", 1)
    /\ At(s, "CreateUser") <=> On(s, "Register", 2)
    /\ At(s, "CreateLink") <=> On(s, "Register", 3) \/ On(s, "ResendVerify", 2)
    /\ At(s, "Send") <=> On(s, "Register", 4) \/ On(s, "ResendVerify", 3)
    /\ At(s, "GetByToken") <=> On(s, "VerifyEmail", 1)
    /\ At(s, "UpdateStatus") <=> On(s, "VerifyEmail", 2)
    /\ At(s, "MarkUsed") <=> On(s, "VerifyEmail", 3)
    /\ At(s, "generateTokenPair") <=> On(s, "Login", 2) \/ On(s, "Refresh", 3)
    /\ At(s, "GetByTokenHash") <=> On(s, "Refresh", 1) \/ On(s, "Logout", 1)
    /\ At(s, "Revoke") <=> On(s, "Refresh", 2) \/ On(s, "Logout", 2)
    /\ At(s, "NameExists") <=> On(s, "Create", 1) \/ On(s, "Update", 1)
    /\ At(s, "CallbackURLExists") <=> On(s, "Create", 2) \/ On(s, "Update", 2)
    /\ At(s, "Create") <=> On(s, "Create", 3)
    /\ At(s, "Update") <=> On(s, "Update", 3)
    /\ At(s, "Delete") <=> On(s, "Delete", 1)
  <1>1. CASE req[s] = Idle
    BY <1>1 DEF At, On
  <1>2. CASE req[s] # Idle
    <2>0. PICK op \in Operations : op = req[s].op
      BY <1>2 DEF TypeInv, RequestsOK, RequestOK
    <2>1. PICK at \in 1..4 : at = req[s].at
      BY <1>2 DEF TypeInv, RequestsOK, RequestOK
    <2>2. at <= Len(Statements(op)) /\ \A x : At(s, x) <=> Statements(op)[at] = x
      BY <1>2, <2>0, <2>1 DEF TypeInv, RequestsOK, RequestOK, At
    <2>3. \A o, k : On(s, o, k) <=> op = o /\ at = k
      BY <1>2, <2>0, <2>1 DEF On
    <2>4. CASE op = "Register"
      BY <2>1, <2>2, <2>3, <2>4, StatementsAre
    <2>5. CASE op = "ResendVerify"
      BY <2>1, <2>2, <2>3, <2>5, StatementsAre
    <2>6. CASE op = "VerifyEmail"
      BY <2>1, <2>2, <2>3, <2>6, StatementsAre
    <2>7. CASE op = "Login"
      BY <2>1, <2>2, <2>3, <2>7, StatementsAre
    <2>8. CASE op = "Refresh"
      BY <2>1, <2>2, <2>3, <2>8, StatementsAre
    <2>9. CASE op = "Logout"
      BY <2>1, <2>2, <2>3, <2>9, StatementsAre
    <2>10. CASE op = "Create"
      BY <2>1, <2>2, <2>3, <2>10, StatementsAre
    <2>11. CASE op = "Update"
      BY <2>1, <2>2, <2>3, <2>11, StatementsAre
    <2>12. CASE op = "Delete"
      BY <2>1, <2>2, <2>3, <2>12, StatementsAre
    <2> QED  BY <2>4, <2>5, <2>6, <2>7, <2>8, <2>9, <2>10, <2>11, <2>12 DEF Operations
  <1> QED  BY <1>1, <1>2

LEMMA Lengths ==
    /\ \A op \in Operations : Len(Statements(op)) \in 1..4
    /\ Len(Statements("Register")) = 4 /\ Len(Statements("ResendVerify")) = 3
  BY StatementsAre DEF Operations

\* The tables only grow, and no row changes its user.
Grow == /\ \A k \in DOMAIN links : k \in DOMAIN links' /\ links'[k].user = links[k].user
        /\ DOMAIN tokens \subseteq DOMAIN tokens'
        /\ \A a \in DOMAIN apps : a \in DOMAIN apps' /\ apps'[a].user = apps[a].user
        /\ Apps \subseteq Apps'

LEMMA RequestStays ==
    ASSUME Grow, NEW q, RequestOK(q)
    PROVE  RequestOK(q)'
  BY DEF Grow, RequestOK, RowOK

LEMMA RequestStep ==
    ASSUME RequestsOK, Grow, NEW s \in Slots, NEW v, req' = [req EXCEPT ![s] = v],
           v = Idle \/ RequestOK(v)'
    PROVE  RequestsOK'
  <1>1. req' = [r \in Slots |-> req'[r]]
    BY DEF RequestsOK
  <1>2. ASSUME NEW r \in Slots, (req[r] # Idle)' PROVE RequestOK(req[r])'
    <2>1. PICK q : q = req'[r]
      OBVIOUS
    <2>2. CASE r = s
      BY <1>2, <2>1, <2>2 DEF RequestsOK
    <2>3. CASE r # s
      <3>1. q = req[r] /\ RequestOK(q)
        BY <1>2, <2>1, <2>3 DEF RequestsOK
      <3> QED  BY <2>1, <3>1, RequestStays
    <2> QED  BY <2>2, <2>3
  <1> QED  BY <1>1, <1>2 DEF RequestsOK

LEMMA ReturnOK ==
    ASSUME RequestsOK, Grow, NEW s \in Slots, Return(s)
    PROVE  RequestsOK'
  BY RequestStep DEF Return

LEMMA ContinueOK ==
    ASSUME RequestsOK, Grow, NEW s \in Slots, req[s] # Idle, Continue(s),
           ~ On(s, "Register", 3), ~ On(s, "ResendVerify", 2)
    PROVE  RequestsOK'
  <1>1. CASE AtLast(s)
    BY <1>1, ReturnOK DEF Continue
  <1>2. CASE ~ AtLast(s)
    <2>0. PICK q : q = req[s]
      OBVIOUS
    <2>1. PICK v : v = [q EXCEPT !.at = @ + 1]
      OBVIOUS
    <2>2. /\ RequestOK(q) /\ RequestOK(q)'
          /\ req' = [req EXCEPT ![s] = v]
      BY <1>2, <2>0, <2>1, RequestStays DEF RequestsOK, Continue
    <2>a. q.op \in Operations /\ q.at \in 1..4 /\ q.at <= Len(Statements(q.op))
      BY <2>2 DEF RequestOK
    <2>b. /\ q.op = "Register" => q.at # 3
          /\ q.op = "ResendVerify" => q.at # 2
          /\ q.at # Len(Statements(q.op))
      BY <1>2, <2>0 DEF AtLast, On
    <2>c. PICK n \in 1..4 : n = Len(Statements(q.op))
      BY <2>a, Lengths
    <2>d. q.at <= n /\ q.at # n /\ q.at \in 1..4
      BY <2>a, <2>b, <2>c
    <2>3. q.at \in 1..3 /\ q.at + 1 <= n
      BY <2>d
    <2>4. /\ v.op = q.op /\ v.user = q.user /\ v.row = q.row /\ v.name = q.name
          /\ v.at = q.at + 1
          /\ v \in [op : Operations, user : Users, row : Nat, name : Names \cup {None},
                    url : URLs \cup {None}, at : 1..4, during : SUBSET Apps']
      BY <2>1, <2>2, <2>3 DEF RequestOK
    <2>5. RowOK(v)'
      BY <2>2, <2>a, <2>b, <2>4 DEF RequestOK, RowOK
    <2>6. RequestOK(v)'
      BY <2>c, <2>3, <2>4, <2>5 DEF RequestOK
    <2> QED  BY <2>2, <2>6, RequestStep
  <1> QED  BY <1>1, <1>2

\* TypeOK without the requests.
Link == [user : Users, used : BOOLEAN, expired : BOOLEAN, mailed : BOOLEAN]
Token == [user : Users, revoked : BOOLEAN, expired : BOOLEAN, known : BOOLEAN,
          session : Sessions]
App == [user : Users, name : Names, url : URLs \cup {None}, on : BOOLEAN,
        during : SUBSET Apps]

Tables == /\ status \in [Users -> {"none", "unverified", "verified"}]
          /\ links \in Seq(Link) /\ tokens \in Seq(Token) /\ apps \in Seq(App)
          /\ begun \in 0..MaxRequests /\ faults \in 0..MaxFaults
          /\ ended \subseteq Sessions /\ raced \subseteq Sessions /\ cut \subseteq Sessions

LEMMA TypeParts == TypeInv <=> Tables /\ RequestsOK
  <1>1. ASSUME RequestsOK, NEW s \in Slots, req[s] # Idle
        PROVE  req[s].at \in 1..Len(Statements(req[s].op))
    BY <1>1, Lengths DEF RequestsOK, RequestOK
  <1> QED  BY <1>1 DEF TypeInv, TypeOK, Tables, Link, Token, App, Apps

LEMMA TypePartsNext == TypeInv' <=> Tables' /\ RequestsOK'
  BY TypeParts, PTL

LEMMA Rows ==
    ASSUME Tables
    PROVE  /\ Len(links) \in Nat /\ DOMAIN links = 1..Len(links)
           /\ Len(tokens) \in Nat /\ DOMAIN tokens = Sessions
           /\ Len(apps) \in Nat /\ DOMAIN apps = Apps
           /\ \A k \in DOMAIN links : links[k] \in Link
           /\ \A t \in DOMAIN tokens : tokens[t] \in Token
           /\ \A a \in DOMAIN apps : apps[a] \in App
  BY DEF Tables, Sessions, Apps

LEMMA FaultType == ASSUME Tables, NEW k, Fault(k) PROVE faults' \in 0..MaxFaults
  BY AccountsAssumption DEF Tables, Fault

LEMMA SameTables ==
    ASSUME Tables, UNCHANGED << links, tokens, apps >>
    PROVE  Grow /\ Apps' = Apps /\ Sessions' = Sessions /\ Token' = Token /\ App' = App
  BY DEF Grow, Apps, Sessions, Token, App

-----------------------------------------------------------------------------
(* Type correctness *)

\* A step that writes no table but may note a session in the history.
LEMMA SameTablesType ==
    ASSUME TypeInv, UNCHANGED << auth, apps >>, RequestsOK', begun' \in 0..MaxRequests,
           faults' \in 0..MaxFaults, (ended \cup raced \cup cut)' \subseteq Sessions
    PROVE  TypeInv'
  <1>1. Tables /\ Token' = Token /\ App' = App /\ Sessions' = Sessions
    BY TypeParts, SameTables DEF auth
  <1>2. Tables'
    BY <1>1 DEF Tables, auth, Link
  <1> QED  BY <1>2, TypePartsNext

LEMMA BeginType ==
    ASSUME TypeInv, NEW s \in Slots, NEW op \in Operations, NEW u \in Users, NEW row \in Nat,
           NEW n \in Names \cup {None}, NEW l \in URLs \cup {None}, Begin(s, op, u, row, n, l),
           op = "VerifyEmail" => row \in DOMAIN links /\ links[row].user = u,
           op \in {"Refresh", "Logout"} => row \in DOMAIN tokens,
           op = "Create" => row = 0 /\ n \in Names,
           op \in {"Update", "Delete"} => row \in DOMAIN apps /\ apps[row].user = u
    PROVE  TypeInv'
  <1>0. Tables /\ RequestsOK /\ Grow /\ Apps' = Apps
    BY TypeParts, SameTables DEF Begin, auth
  <1>1. PICK v : v = [op |-> op, user |-> u, row |-> row, name |-> n, url |-> l, at |-> 1,
                      during |-> {}]
    OBVIOUS
  <1>2. RequestOK(v)
    <2>1. RowOK(v)
      BY <1>1 DEF RowOK
    <2>2. v.at <= Len(Statements(v.op))
      <3>1. PICK k \in 1..4 : k = Len(Statements(v.op))
        BY <1>1, Lengths
      <3> QED  BY <1>1, <3>1
    <2> QED  BY <1>1, <2>1, <2>2 DEF RequestOK
  <1>3. RequestsOK'
    BY <1>0, <1>1, <1>2, RequestStays, RequestStep DEF Begin
  <1>4. begun' \in 0..MaxRequests
    BY <1>0, AccountsAssumption DEF Tables, Begin
  <1> QED  BY <1>0, <1>3, <1>4, SameTablesType DEF Begin, history, Tables

LEMMA AskType ==
    ASSUME TypeInv, NEW s \in Slots, Ask(s)
    PROVE  TypeInv'
  <1>0. /\ Tables /\ None \in Names \cup {None} /\ None \in URLs \cup {None}
        /\ \A k \in DOMAIN links : k \in Nat /\ links[k].user \in Users
        /\ \A t \in DOMAIN tokens : t \in Nat /\ tokens[t].user \in Users
        /\ DOMAIN apps \subseteq Nat
    <2>1. Tables
      BY TypeParts
    <2> QED  BY <2>1, Rows DEF Link, Token, Sessions, Apps
  <1>1. ASSUME NEW u \in Users, NEW op \in {"Register", "ResendVerify", "Login"},
               Begin(s, op, u, 0, None, None)
        PROVE  TypeInv'
    BY <1>0, <1>1, BeginType DEF Operations
  <1>2. ASSUME NEW k \in DOMAIN links, Begin(s, "VerifyEmail", links[k].user, k, None, None)
        PROVE  TypeInv'
    BY <1>0, <1>2, BeginType DEF Operations
  <1>3. ASSUME NEW t \in DOMAIN tokens
        PROVE  /\ \A op \in {"Refresh", "Logout"} :
                     Begin(s, op, tokens[t].user, t, None, None) => TypeInv'
               /\ \A n \in Names, l \in URLs \cup {None} :
                     Begin(s, "Create", tokens[t].user, 0, n, l) => TypeInv'
               /\ \A a \in DOMAIN apps : apps[a].user = tokens[t].user =>
                     /\ Begin(s, "Delete", tokens[t].user, a, None, None) => TypeInv'
                     /\ \A n \in Names \cup {None}, l \in URLs \cup {None} :
                           Begin(s, "Update", tokens[t].user, a, n, l) => TypeInv'
    <2>1. ASSUME NEW op \in {"Refresh", "Logout"}, Begin(s, op, tokens[t].user, t, None, None)
          PROVE  TypeInv'
      BY <1>0, <2>1, BeginType DEF Operations
    <2>2. ASSUME NEW n \in Names, NEW l \in URLs \cup {None},
                 Begin(s, "Create", tokens[t].user, 0, n, l)
          PROVE  TypeInv'
      BY <1>0, <2>2, BeginType DEF Operations
    <2>3. ASSUME NEW a \in DOMAIN apps, apps[a].user = tokens[t].user,
                 Begin(s, "Delete", tokens[t].user, a, None, None)
          PROVE  TypeInv'
      BY <1>0, <2>3, BeginType DEF Operations
    <2>4. ASSUME NEW a \in DOMAIN apps, apps[a].user = tokens[t].user,
                 NEW n \in Names \cup {None}, NEW l \in URLs \cup {None},
                 Begin(s, "Update", tokens[t].user, a, n, l)
          PROVE  TypeInv'
      BY <1>0, <2>4, BeginType DEF Operations
    <2> QED  BY <2>1, <2>2, <2>3, <2>4
  <1> QED  BY <1>1, <1>2, <1>3 DEF Ask

LEMMA CheckType ==
    ASSUME TypeInv, NEW s \in Slots, req[s] # Idle, NEW ok, Check(s, ok),
           ~ On(s, "Register", 3), ~ On(s, "ResendVerify", 2),
           (ended \cup raced \cup cut)' \subseteq Sessions
    PROVE  TypeInv'
  <1>0. Tables /\ RequestsOK /\ Grow
    BY TypeParts, SameTables DEF Check, auth
  <1>1. RequestsOK'
    BY <1>0, ReturnOK, ContinueOK DEF Check
  <1> QED  BY <1>0, <1>1, SameTablesType DEF Check, Tables

\* The session of a request with a token.
LEMMA SessionType ==
    ASSUME TypeInv, NEW s \in Slots, req[s] # Idle, req[s].op \in {"Refresh", "Logout"}
    PROVE  req[s].row \in DOMAIN tokens /\ Session(s) \in Sessions
  <1>1. Tables /\ req[s].row \in DOMAIN tokens
    BY TypeParts DEF RequestsOK, RequestOK, RowOK
  <1>2. tokens[req[s].row] \in Token
    BY <1>1, Rows
  <1> QED  BY <1>1, <1>2 DEF Token, Session

LEMMA ReadType ==
    ASSUME TypeInv, NEW s \in Slots,
           \/ GetByEmail(s) \/ GetByToken(s) \/ GetByTokenHash(s)
           \/ NameExists(s) \/ CallbackURLExists(s)
    PROVE  TypeInv'
  <1>0. Tables /\ ended \cup raced \cup cut \subseteq Sessions
    BY TypeParts DEF Tables
  <1>1. ASSUME GetByEmail(s) \/ GetByToken(s) \/ NameExists(s) \/ CallbackURLExists(s)
        PROVE  TypeInv'
    <2>1. req[s] # Idle /\ ~ On(s, "Register", 3) /\ ~ On(s, "ResendVerify", 2)
      BY <1>1, AtIs DEF On, GetByEmail, GetByToken, NameExists, CallbackURLExists
    <2> QED  BY <1>0, <1>1, <2>1, CheckType
             DEF GetByEmail, GetByToken, NameExists, CallbackURLExists, history
  <1>2. ASSUME GetByTokenHash(s) PROVE TypeInv'
    <2>1. /\ req[s] # Idle /\ ~ On(s, "Register", 3) /\ ~ On(s, "ResendVerify", 2)
          /\ req[s].op \in {"Refresh", "Logout"}
      BY <1>2, AtIs DEF On, GetByTokenHash
    <2>2. (ended \cup raced \cup cut)' \subseteq Sessions
      BY <1>0, <1>2, <2>1, SessionType DEF GetByTokenHash
    <2> QED  BY <1>2, <2>1, <2>2, CheckType DEF GetByTokenHash
  <1> QED  BY <1>1, <1>2

\* A statement on table users.
LEMMA StatusType ==
    ASSUME TypeInv, NEW s \in Slots, CreateUser(s) \/ UpdateStatus(s)
    PROVE  /\ TypeInv'
           /\ \A u \in Users : status[u] # "none" => status'[u] # "none"
           /\ \A u \in Users : status[u] = "verified" => status'[u] = "verified"
  <1>0. Tables /\ RequestsOK /\ Grow /\ Token' = Token /\ App' = App /\ Sessions' = Sessions
    BY TypeParts, SameTables DEF CreateUser, UpdateStatus
  <1>1. req[s] # Idle /\ ~ On(s, "Register", 3) /\ ~ On(s, "ResendVerify", 2)
    BY AtIs DEF On, CreateUser, UpdateStatus
  <1>2. RequestsOK'
    BY <1>0, <1>1, ReturnOK, ContinueOK DEF CreateUser, UpdateStatus
  <1>3. /\ status' \in [Users -> {"none", "unverified", "verified"}]
        /\ \A u \in Users : status[u] # "none" => status'[u] # "none"
        /\ \A u \in Users : status[u] = "verified" => status'[u] = "verified"
    BY <1>0 DEF CreateUser, UpdateStatus, Tables
  <1>4. Tables'
    BY <1>0, <1>3 DEF Tables, CreateUser, UpdateStatus, history, Link
  <1> QED  BY <1>2, <1>3, <1>4, TypePartsNext

\* A table keeps its rows, one of them in a new version.
LEMMA LinksType ==
    ASSUME TypeInv, NEW k, NEW v, links' = [links EXCEPT ![k] = v],
           k \in DOMAIN links => v \in Link /\ v.user = links[k].user,
           UNCHANGED << status, tokens, apps, begun, history >>, faults' \in 0..MaxFaults
    PROVE  /\ Grow /\ Tables'
           /\ DOMAIN links' = DOMAIN links
           /\ \A i \in DOMAIN links : links'[i] = IF i = k THEN v ELSE links[i]
  <1>0. Tables /\ Token' = Token /\ App' = App /\ Sessions' = Sessions /\ Apps' = Apps
    BY TypeParts DEF Token, App, Sessions, Apps
  <1>1. links \in Seq(Link) /\ \A i \in DOMAIN links : links[i] \in Link
    BY <1>0, Rows DEF Tables
  <1>2. /\ links' \in Seq(Link)
        /\ DOMAIN links' = DOMAIN links
        /\ \A i \in DOMAIN links : links'[i] = IF i = k THEN v ELSE links[i]
    BY <1>1, SeqExcept
  <1>3. Grow
    BY <1>0, <1>2 DEF Grow
  <1>4. Tables'
    BY <1>0, <1>2 DEF Tables, history, Link
  <1> QED  BY <1>2, <1>3, <1>4

LEMMA TokensType ==
    ASSUME TypeInv, NEW k, NEW v, tokens' = [tokens EXCEPT ![k] = v],
           k \in DOMAIN tokens => v \in Token,
           UNCHANGED << status, links, apps, begun >>, faults' \in 0..MaxFaults,
           (ended \cup raced \cup cut)' \subseteq Sessions
    PROVE  /\ Grow /\ Tables'
           /\ Sessions' = Sessions /\ DOMAIN tokens' = DOMAIN tokens
           /\ \A i \in DOMAIN tokens : tokens'[i] = IF i = k THEN v ELSE tokens[i]
  <1>0. Tables /\ App' = App /\ Apps' = Apps
    BY TypeParts DEF App, Apps
  <1>1. tokens \in Seq(Token) /\ \A i \in DOMAIN tokens : tokens[i] \in Token
    BY <1>0, Rows DEF Tables
  <1>2. /\ tokens' \in Seq(Token)
        /\ Len(tokens') = Len(tokens)
        /\ DOMAIN tokens' = DOMAIN tokens
        /\ \A i \in DOMAIN tokens : tokens'[i] = IF i = k THEN v ELSE tokens[i]
    BY <1>1, SeqExcept
  <1>3. Grow
    BY <1>0, <1>2 DEF Grow
  <1>4. Sessions' = Sessions /\ Token' = Token
    BY <1>2 DEF Sessions, Token
  <1>5. Tables'
    BY <1>0, <1>2, <1>4 DEF Tables, Link
  <1> QED  BY <1>2, <1>3, <1>4, <1>5

LEMMA SendType ==
    ASSUME TypeInv, NEW s \in Slots, Send(s)
    PROVE  TypeInv'
  <1>0. Tables /\ RequestsOK /\ req[s] # Idle
    BY TypeParts, AtIs DEF Send, On
  <1>1. CASE UNCHANGED links
    <2>1. Grow
      BY <1>0, <1>1, SameTables DEF Send
    <2>2. RequestsOK' /\ faults' \in 0..MaxFaults
      BY <1>0, <2>1, ReturnOK, FaultType DEF Send, Tables
    <2> QED  BY <1>0, <1>1, <2>2, SameTablesType DEF Send, auth, history, Tables
  <1>2. CASE links' = [links EXCEPT ![req[s].row].mailed = TRUE] /\ UNCHANGED faults
    <2>1. PICK k : k = req[s].row
      OBVIOUS
    <2>2. PICK v : v = [links[k] EXCEPT !.mailed = TRUE]
      OBVIOUS
    <2>3. links' = [links EXCEPT ![k] = v]
      BY <1>2, <2>1, <2>2
    <2>4. k \in DOMAIN links => v \in Link /\ v.user = links[k].user
      BY <1>0, <2>2, Rows DEF Link
    <2>5. Grow /\ Tables'
      BY <1>0, <1>2, <2>3, <2>4, LinksType DEF Send, Tables
    <2> QED  BY <1>0, <2>5, ReturnOK, TypePartsNext DEF Send
  <1> QED  BY <1>1, <1>2 DEF Send

LEMMA MarkUsedType ==
    ASSUME TypeInv, NEW s \in Slots, MarkUsed(s)
    PROVE  /\ TypeInv' /\ DOMAIN links' = DOMAIN links
           /\ \A k \in DOMAIN links : k # req[s].row => links'[k] = links[k]
  <1>0. Tables /\ RequestsOK /\ req[s] # Idle
    BY TypeParts, AtIs DEF MarkUsed, On
  <1>1. ~ On(s, "Register", 3) /\ ~ On(s, "ResendVerify", 2)
    BY AtIs DEF MarkUsed, On
  <1>2. PICK k : k = req[s].row
    OBVIOUS
  <1>3. PICK v : v = [links[k] EXCEPT !.used = TRUE]
    OBVIOUS
  <1>4. links' = [links EXCEPT ![k] = v]
    BY <1>2, <1>3 DEF MarkUsed
  <1>5. k \in DOMAIN links => v \in Link /\ v.user = links[k].user
    BY <1>0, <1>3, Rows DEF Link
  <1>6. /\ Grow /\ Tables' /\ DOMAIN links' = DOMAIN links
        /\ \A i \in DOMAIN links : i # k => links'[i] = links[i]
    BY <1>0, <1>4, <1>5, LinksType DEF MarkUsed, Tables
  <1>7. RequestsOK'
    BY <1>0, <1>1, <1>6, ContinueOK DEF MarkUsed
  <1> QED  BY <1>2, <1>6, <1>7, TypePartsNext

LEMMA CreateLinkType ==
    ASSUME TypeInv, NEW s \in Slots, CreateLink(s)
    PROVE  /\ TypeInv'
           /\ DOMAIN links' = 1..(Len(links) + 1) /\ DOMAIN links = 1..Len(links)
           /\ \A k \in DOMAIN links : links'[k] = links[k]
           /\ ~ links'[Len(links) + 1].used
  <1>0. /\ Tables /\ RequestsOK /\ req[s] # Idle
        /\ App' = App /\ Token' = Token /\ Sessions' = Sessions /\ Apps' = Apps
    BY TypeParts, AtIs DEF CreateLink, On, App, Token, Sessions, Apps
  <1>1. PICK q : q = req[s] /\ RequestOK(q)
    BY <1>0 DEF RequestsOK
  <1>2. (q.op = "Register" /\ q.at = 3) \/ (q.op = "ResendVerify" /\ q.at = 2)
    BY <1>1, AtIs DEF CreateLink, On
  <1>3. PICK n \in Nat : n = Len(links)
    BY <1>0, Rows
  <1>4. PICK w : w = [user |-> q.user, used |-> FALSE, expired |-> FALSE, mailed |-> FALSE]
    OBVIOUS
  <1>5. w \in Link /\ w.user = q.user /\ ~ w.used
    BY <1>1, <1>4 DEF Link, RequestOK
  <1>6. links' = Append(links, w)
    BY <1>1, <1>4 DEF CreateLink
  <1>7. links \in Seq(Link) /\ \A i \in DOMAIN links : links[i] \in Link
    BY <1>0, Rows DEF Tables
  <1>8. /\ links' \in Seq(Link) /\ Len(links') = n + 1
        /\ DOMAIN links = 1..n /\ DOMAIN links' = 1..(n + 1)
        /\ links'[n + 1] = w
        /\ \A i \in DOMAIN links : links'[i] = links[i]
    BY <1>3, <1>5, <1>6, <1>7, SeqAppend
  <1>9. Tables'
    BY <1>0, <1>8 DEF Tables, CreateLink, history, Link
  <1>10. Grow
    BY <1>0, <1>8 DEF Grow, CreateLink
  <1>11. PICK v : v = [q EXCEPT !.at = @ + 1, !.row = n + 1]
    OBVIOUS
  <1>12. /\ q \in [op : Operations, user : Users, row : Nat, name : Names \cup {None},
                   url : URLs \cup {None}, at : 1..4, during : SUBSET Apps]
         /\ q.at \in 1..3 /\ q.at + 1 <= Len(Statements(q.op))
    <2>1. q \in [op : Operations, user : Users, row : Nat, name : Names \cup {None},
                 url : URLs \cup {None}, at : 1..4, during : SUBSET Apps]
      BY <1>1 DEF RequestOK
    <2>2. CASE q.op = "Register" /\ q.at = 3
      BY <2>1, <2>2, Lengths
    <2>3. CASE q.op = "ResendVerify" /\ q.at = 2
      BY <2>1, <2>3, Lengths
    <2> QED  BY <1>2, <2>1, <2>2, <2>3
  <1>13. /\ v.op = q.op /\ v.user = q.user /\ v.row = n + 1 /\ v.name = q.name
         /\ v.at = q.at + 1
         /\ v \in [op : Operations, user : Users, row : Nat, name : Names \cup {None},
                   url : URLs \cup {None}, at : 1..4, during : SUBSET Apps']
    <2>1. q.at + 1 \in 1..4 /\ n + 1 \in Nat /\ SUBSET Apps' = SUBSET Apps
      BY <1>0, <1>12
    <2> QED  BY <1>11, <1>12, <2>1
  <1>14. RowOK(v)'
    BY <1>2, <1>5, <1>8, <1>13 DEF RowOK
  <1>15. RequestOK(v)'
    BY <1>12, <1>13, <1>14 DEF RequestOK
  <1>16. req' = [req EXCEPT ![s] = v]
    BY <1>1, <1>8, <1>11 DEF CreateLink
  <1>17. RequestsOK'
    BY <1>0, <1>10, <1>15, <1>16, RequestStep
  <1> QED  BY <1>3, <1>5, <1>8, <1>9, <1>17, TypePartsNext

\* A statement that revokes the token it was given.
LEMMA RevokeType ==
    ASSUME TypeInv, NEW s \in Slots, Revoke(s)
    PROVE  /\ TypeInv' /\ DOMAIN tokens' = DOMAIN tokens
           /\ req[s].row \in DOMAIN tokens /\ Session(s) \in Sessions
           /\ tokens'[req[s].row] = [tokens[req[s].row] EXCEPT !.revoked = TRUE]
           /\ \A t \in DOMAIN tokens : t # req[s].row => tokens'[t] = tokens[t]
           /\ \A t \in DOMAIN tokens : tokens'[t].session = tokens[t].session
  <1>0. Tables /\ RequestsOK
    BY TypeParts
  <1>1. /\ req[s] # Idle /\ req[s].op \in {"Refresh", "Logout"}
        /\ ~ On(s, "Register", 3) /\ ~ On(s, "ResendVerify", 2)
    BY AtIs DEF Revoke, On
  <1>2. PICK k : k = req[s].row
    OBVIOUS
  <1>3. PICK v : v = [tokens[k] EXCEPT !.revoked = TRUE]
    OBVIOUS
  <1>4. tokens' = [tokens EXCEPT ![k] = v]
    BY <1>2, <1>3 DEF Revoke, Revoked
  <1>5. k \in DOMAIN tokens /\ Session(s) \in Sessions
    BY <1>1, <1>2, SessionType
  <1>6. tokens[k] \in Token
    BY <1>0, <1>5, Rows
  <1>7. v \in Token /\ v.session = tokens[k].session
    BY <1>3, <1>6 DEF Token
  <1>8. (ended \cup raced \cup cut)' \subseteq Sessions /\ faults' \in 0..MaxFaults
    BY <1>0, <1>5 DEF Revoke, Tables
  <1>9. /\ Grow /\ Tables' /\ DOMAIN tokens' = DOMAIN tokens
        /\ \A i \in DOMAIN tokens : tokens'[i] = IF i = k THEN v ELSE tokens[i]
    BY <1>4, <1>7, <1>8, TokensType DEF Revoke
  <1>10. RequestsOK'
    BY <1>0, <1>1, <1>9, ContinueOK DEF Revoke
  <1> QED  BY <1>2, <1>3, <1>5, <1>7, <1>9, <1>10, TypePartsNext

\* The new row of table refresh_tokens, the last one.
LEMMA PairType ==
    ASSUME TypeInv, NEW s \in Slots, generateTokenPair(s)
    PROVE  /\ TypeInv'
           /\ Len(tokens) \in Nat /\ DOMAIN tokens = 1..Len(tokens)
           /\ DOMAIN tokens' = 1..(Len(tokens) + 1)
           /\ \A t \in DOMAIN tokens : tokens'[t] = tokens[t]
           /\ ~ tokens'[Len(tokens) + 1].revoked
           /\ On(s, "Login", 2) => tokens'[Len(tokens) + 1].session = Len(tokens) + 1
           /\ On(s, "Refresh", 3) => tokens'[Len(tokens) + 1].session = Session(s)
           /\ On(s, "Login", 2) \/ On(s, "Refresh", 3)
  <1>0. Tables /\ RequestsOK
    BY TypeParts
  <1>1. On(s, "Login", 2) \/ On(s, "Refresh", 3)
    BY AtIs DEF generateTokenPair
  <1>2. req[s] # Idle /\ req[s].user \in Users
    BY <1>0, <1>1 DEF RequestsOK, RequestOK, On
  <1>3. PICK n \in Nat : n = Len(tokens) /\ DOMAIN tokens = 1..n
    BY <1>0, Rows DEF Sessions
  <1>4. PICK m : m = IF req[s].op = "Login" THEN n + 1 ELSE Session(s)
    OBVIOUS
  <1>5. m \in 1..(n + 1)
    <2>1. CASE On(s, "Login", 2)
      BY <1>4, <2>1 DEF On
    <2>2. CASE On(s, "Refresh", 3)
      <3>1. Session(s) \in 1..n
        BY <1>3, <2>2, SessionType DEF On, Sessions
      <3> QED  BY <1>4, <2>2, <3>1 DEF On
    <2> QED  BY <1>1, <2>1, <2>2
  <1>6. PICK known \in BOOLEAN :
          /\ IF known THEN UNCHANGED faults ELSE Fault("answer")
          /\ tokens' = Append(tokens, [user |-> req[s].user, revoked |-> FALSE,
                                       expired |-> FALSE, known |-> known, session |-> m])
    BY <1>3, <1>4 DEF generateTokenPair
  <1>7. PICK v : v = [user |-> req[s].user, revoked |-> FALSE, expired |-> FALSE,
                      known |-> known, session |-> m]
    OBVIOUS
  <1> DEFINE T == [user : Users, revoked : BOOLEAN, expired : BOOLEAN, known : BOOLEAN,
                   session : 1..(n + 1)]
  <1>8. v \in T
    BY <1>2, <1>5, <1>7
  <1>9. \A i \in DOMAIN tokens : tokens[i] \in T
    <2>1. \A i \in DOMAIN tokens : tokens[i] \in Token
      BY <1>0, Rows
    <2>2. Token = [user : Users, revoked : BOOLEAN, expired : BOOLEAN, known : BOOLEAN,
                   session : 1..n]
      BY <1>3 DEF Token, Sessions
    <2>3. 1..n \subseteq 1..(n + 1)
      OBVIOUS
    <2> QED  BY <2>1, <2>2, <2>3
  <1> HIDE DEF T
  <1>10. /\ tokens' \in Seq(T) /\ Len(tokens') = n + 1
         /\ DOMAIN tokens' = 1..(n + 1)
         /\ tokens'[n + 1] = v
         /\ \A i \in DOMAIN tokens : tokens'[i] = tokens[i]
    <2>1. PICK q \in Seq(Token) : q = tokens
      BY <1>0 DEF Tables
    <2>2. tokens' = Append(q, v)
      BY <1>6, <1>7, <2>1
    <2>3. /\ Append(q, v) \in Seq(T) /\ Len(Append(q, v)) = n + 1
          /\ DOMAIN Append(q, v) = 1..(n + 1)
          /\ Append(q, v)[n + 1] = v
          /\ \A i \in DOMAIN q : Append(q, v)[i] = q[i]
      BY <1>3, <1>8, <1>9, <2>1, SeqAppend
    <2> QED  BY <2>1, <2>2, <2>3
  <1>11. Sessions' = 1..(n + 1) /\ Sessions \subseteq Sessions'
    BY <1>3, <1>10 DEF Sessions
  <1>12. Token' = T /\ App' = App /\ Apps' = Apps /\ Link' = Link
    BY <1>11 DEF Token, T, App, Apps, generateTokenPair, Link
  <1>13. faults' \in 0..MaxFaults
    BY <1>0, <1>6, FaultType DEF Tables
  <1>14. Tables'
    BY <1>0, <1>10, <1>11, <1>12, <1>13 DEF Tables, generateTokenPair, history
  <1>15. Grow
    BY <1>3, <1>10, <1>12 DEF Grow, generateTokenPair
  <1>16. RequestsOK'
    BY <1>0, <1>15, ReturnOK DEF generateTokenPair
  <1> QED  BY <1>1, <1>3, <1>4, <1>7, <1>10, <1>14, <1>16, TypePartsNext DEF On

LEMMA ExpireType ==
    ASSUME TypeInv, Expire
    PROVE  /\ TypeInv' /\ DOMAIN links' = DOMAIN links /\ DOMAIN tokens' = DOMAIN tokens
           /\ \A k \in DOMAIN links : /\ links'[k].used = links[k].used
                                      /\ links'[k].user = links[k].user
           /\ \A t \in DOMAIN tokens : /\ tokens'[t].revoked = tokens[t].revoked
                                       /\ tokens'[t].session = tokens[t].session
  <1>0. Tables /\ RequestsOK
    BY TypeParts
  <1>1. ASSUME Grow PROVE RequestsOK'
    BY <1>0, <1>1, RequestStays DEF RequestsOK, Expire
  <1>2. faults' \in 0..MaxFaults /\ (ended \cup raced \cup cut)' \subseteq Sessions
    BY <1>0 DEF Expire, history, Tables
  <1>3. ASSUME NEW k \in DOMAIN links, links' = [links EXCEPT ![k].expired = TRUE],
               UNCHANGED tokens
        PROVE  /\ TypeInv' /\ DOMAIN links' = DOMAIN links
               /\ \A i \in DOMAIN links : /\ links'[i].used = links[i].used
                                          /\ links'[i].user = links[i].user
    <2>1. PICK v : v = [links[k] EXCEPT !.expired = TRUE]
      OBVIOUS
    <2>2. links[k] \in Link
      BY <1>0, Rows
    <2>3. v \in Link /\ v.user = links[k].user /\ v.used = links[k].used
      BY <2>1, <2>2 DEF Link
    <2>4. links' = [links EXCEPT ![k] = v]
      BY <1>3, <2>1
    <2>5. /\ Grow /\ Tables' /\ DOMAIN links' = DOMAIN links
          /\ \A i \in DOMAIN links : links'[i] = IF i = k THEN v ELSE links[i]
      BY <1>2, <1>3, <2>3, <2>4, LinksType DEF Expire
    <2> QED  BY <1>1, <2>3, <2>5, TypePartsNext
  <1>4. ASSUME NEW k \in DOMAIN tokens, tokens' = [tokens EXCEPT ![k].expired = TRUE],
               UNCHANGED links
        PROVE  /\ TypeInv' /\ DOMAIN tokens' = DOMAIN tokens
               /\ \A i \in DOMAIN tokens : /\ tokens'[i].revoked = tokens[i].revoked
                                           /\ tokens'[i].session = tokens[i].session
    <2>1. PICK v : v = [tokens[k] EXCEPT !.expired = TRUE]
      OBVIOUS
    <2>2. tokens[k] \in Token
      BY <1>0, Rows
    <2>3. v \in Token /\ v.revoked = tokens[k].revoked /\ v.session = tokens[k].session
      BY <2>1, <2>2 DEF Token
    <2>4. tokens' = [tokens EXCEPT ![k] = v]
      BY <1>4, <2>1
    <2>5. /\ Grow /\ Tables' /\ DOMAIN tokens' = DOMAIN tokens
          /\ \A i \in DOMAIN tokens : tokens'[i] = IF i = k THEN v ELSE tokens[i]
      BY <1>2, <1>4, <2>3, <2>4, TokensType DEF Expire
    <2> QED  BY <1>1, <2>3, <2>5, TypePartsNext
  <1> QED  BY <1>3, <1>4 DEF Expire

\* A statement on table apps, a the app it writes.
LEMMA WroteOK ==
    ASSUME RequestsOK, Grow, NEW s \in Slots, NEW a, a \in Apps', Wrote(s, a)
    PROVE  RequestsOK'
  <1>1. req' = [r \in Slots |-> req'[r]]
    BY DEF Wrote
  <1>2. ASSUME NEW r \in Slots, (req[r] # Idle)' PROVE RequestOK(req[r])'
    <2>1. PICK v : v = req'[r]
      OBVIOUS
    <2>2. PICK q : q = req[r]
      OBVIOUS
    <2>3. q # Idle /\ v = [q EXCEPT !.during = @ \cup {a}]
      BY <1>2, <2>1, <2>2 DEF Wrote
    <2>4. RequestOK(q)'
      BY <2>2, <2>3, RequestStays DEF RequestsOK
    <2>5. q \in [op : Operations, user : Users, row : Nat, name : Names \cup {None},
                 url : URLs \cup {None}, at : 1..4, during : SUBSET Apps']
      BY <2>4 DEF RequestOK
    <2>6. q.during \cup {a} \in SUBSET Apps'
      BY <2>5
    <2>7. /\ v.op = q.op /\ v.user = q.user /\ v.row = q.row /\ v.name = q.name /\ v.at = q.at
          /\ v \in [op : Operations, user : Users, row : Nat, name : Names \cup {None},
                    url : URLs \cup {None}, at : 1..4, during : SUBSET Apps']
      BY <2>3, <2>5, <2>6
    <2>8. RequestOK(v)'
      BY <2>4, <2>7 DEF RequestOK, RowOK
    <2> QED  BY <2>1, <2>8
  <1> QED  BY <1>1, <1>2 DEF RequestsOK

LEMMA CreateType ==
    ASSUME TypeInv, NEW s \in Slots, Create(s)
    PROVE  /\ TypeInv' /\ On(s, "Create", 3) /\ req[s].row = 0
           /\ Len(apps) \in Nat /\ DOMAIN apps = 1..Len(apps)
           /\ DOMAIN apps' = 1..(Len(apps) + 1)
           /\ \A a \in DOMAIN apps : apps'[a] = apps[a]
           /\ apps'[Len(apps) + 1] =
                 [user |-> req[s].user, name |-> req[s].name, url |-> req[s].url,
                  on |-> TRUE, during |-> req[s].during]
           /\ Wrote(s, Len(apps) + 1)
  <1>0. Tables /\ RequestsOK /\ Token' = Token /\ Sessions' = Sessions
    BY TypeParts DEF Create, auth, Token, Sessions
  <1>1. On(s, "Create", 3)
    BY AtIs DEF Create
  <1>2. PICK q : q = req[s] /\ RequestOK(q) /\ q.op = "Create"
    BY <1>0, <1>1 DEF RequestsOK, On
  <1>3. PICK n \in Nat : n = Len(apps) /\ DOMAIN apps = 1..n /\ Apps = 1..n
    BY <1>0, Rows DEF Apps
  <1>4. PICK v : v = [user |-> q.user, name |-> q.name, url |-> q.url, on |-> TRUE,
                      during |-> q.during]
    OBVIOUS
  <1> DEFINE T == [user : Users, name : Names, url : URLs \cup {None}, on : BOOLEAN,
                   during : SUBSET (1..(n + 1))]
  <1>5. SUBSET (1..n) \subseteq SUBSET (1..(n + 1))
    <2>1. 1..n \subseteq 1..(n + 1)
      OBVIOUS
    <2> QED  BY <2>1
  <1>6. q.user \in Users /\ q.name \in Names /\ q.url \in URLs \cup {None}
        /\ q.during \in SUBSET (1..n) /\ q.row = 0
    BY <1>2, <1>3 DEF RequestOK, RowOK
  <1>7. v \in T
    BY <1>4, <1>5, <1>6
  <1>8. \A i \in DOMAIN apps : apps[i] \in T
    <2>1. \A i \in DOMAIN apps : apps[i] \in App
      BY <1>0, Rows
    <2>2. App = [user : Users, name : Names, url : URLs \cup {None}, on : BOOLEAN,
                 during : SUBSET (1..n)]
      BY <1>3 DEF App
    <2> QED  BY <1>5, <2>1, <2>2
  <1> HIDE DEF T
  <1>9. apps' = Append(apps, v)
    BY <1>2, <1>4 DEF Create
  <1>10. /\ apps' \in Seq(T) /\ Len(apps') = n + 1
         /\ DOMAIN apps' = 1..(n + 1)
         /\ apps'[n + 1] = v
         /\ \A i \in DOMAIN apps : apps'[i] = apps[i]
    <2>1. PICK r \in Seq(App) : r = apps
      BY <1>0 DEF Tables
    <2>2. apps' = Append(r, v)
      BY <1>9, <2>1
    <2>3. /\ Append(r, v) \in Seq(T) /\ Len(Append(r, v)) = n + 1
          /\ DOMAIN Append(r, v) = 1..(n + 1)
          /\ Append(r, v)[n + 1] = v
          /\ \A i \in DOMAIN r : Append(r, v)[i] = r[i]
      BY <1>3, <1>7, <1>8, <2>1, SeqAppend
    <2> QED  BY <2>1, <2>2, <2>3
  <1>11. Apps' = 1..(n + 1)
    BY <1>10 DEF Apps
  <1>12. App' = T
    BY <1>11 DEF App, T
  <1>13. Tables'
    BY <1>0, <1>10, <1>12 DEF Tables, Create, auth, history, Link
  <1>14. Grow
    BY <1>3, <1>10, <1>11 DEF Grow, Create, auth
  <1>15. Wrote(s, n + 1)
    <2>1. \A i, j : i = j => (Wrote(s, i) <=> Wrote(s, j))
      OBVIOUS
    <2>2. Wrote(s, Len(apps'))
      BY DEF Create
    <2> QED  BY <1>10, <2>1, <2>2
  <1>16. RequestsOK'
    BY <1>0, <1>11, <1>14, <1>15, WroteOK
  <1> QED  BY <1>1, <1>2, <1>3, <1>4, <1>6, <1>10, <1>13, <1>15, <1>16, TypePartsNext

LEMMA AppsType ==
    ASSUME TypeInv, NEW k, NEW v, apps' = [apps EXCEPT ![k] = v],
           k \in DOMAIN apps => v \in App /\ v.user = apps[k].user,
           UNCHANGED << auth, begun, history, faults >>
    PROVE  /\ Grow /\ Tables' /\ Apps' = Apps
           /\ DOMAIN apps' = DOMAIN apps
           /\ \A i \in DOMAIN apps : apps'[i] = IF i = k THEN v ELSE apps[i]
  <1>0. Tables /\ Token' = Token /\ Sessions' = Sessions
    BY TypeParts DEF Token, Sessions, auth
  <1>1. apps \in Seq(App) /\ \A i \in DOMAIN apps : apps[i] \in App
    BY <1>0, Rows DEF Tables
  <1>2. /\ apps' \in Seq(App)
        /\ Len(apps') = Len(apps)
        /\ DOMAIN apps' = DOMAIN apps
        /\ \A i \in DOMAIN apps : apps'[i] = IF i = k THEN v ELSE apps[i]
    BY <1>1, SeqExcept
  <1>3. Apps' = Apps /\ App' = App
    BY <1>2 DEF Apps, App
  <1>4. Grow
    BY <1>0, <1>2, <1>3 DEF Grow, auth
  <1>5. Tables'
    BY <1>0, <1>2, <1>3 DEF Tables, history, auth, Link
  <1> QED  BY <1>2, <1>3, <1>4, <1>5

LEMMA UpdateType ==
    ASSUME TypeInv, NEW s \in Slots, Update(s), NEW k, k = req[s].row
    PROVE  /\ TypeInv' /\ On(s, "Update", 3)
           /\ k \in DOMAIN apps /\ DOMAIN apps' = DOMAIN apps
           /\ \A a \in DOMAIN apps : a # k => apps'[a] = apps[a]
           /\ apps'[k].user = apps[k].user /\ apps[k].user = req[s].user
           /\ apps'[k].on = apps[k].on
           /\ apps'[k].name = IF req[s].name = None THEN apps[k].name ELSE req[s].name
           /\ apps'[k].url = IF req[s].url = None THEN apps[k].url ELSE req[s].url
           /\ apps'[k].during = apps[k].during \cup req[s].during
           /\ Wrote(s, k)
  <1>0. Tables /\ RequestsOK
    BY TypeParts
  <1>1. On(s, "Update", 3)
    BY AtIs DEF Update
  <1>2. PICK q : q = req[s] /\ RequestOK(q) /\ q.op = "Update"
    BY <1>0, <1>1 DEF RequestsOK, On
  <1>3. k \in DOMAIN apps /\ apps[k].user = q.user
    BY <1>2 DEF RequestOK, RowOK
  <1>4. PICK v : v = [apps[k] EXCEPT !.name = IF q.name = None THEN @ ELSE q.name,
                                     !.url = IF q.url = None THEN @ ELSE q.url,
                                     !.during = @ \cup q.during]
    OBVIOUS
  <1>5. apps[k] \in App
    BY <1>0, <1>3, Rows
  <1>6. /\ q.name \in Names \cup {None} /\ q.url \in URLs \cup {None}
        /\ q.during \in SUBSET Apps
    BY <1>2 DEF RequestOK
  <1>7. /\ v \in App /\ v.user = apps[k].user /\ v.on = apps[k].on
        /\ v.name = IF q.name = None THEN apps[k].name ELSE q.name
        /\ v.url = IF q.url = None THEN apps[k].url ELSE q.url
        /\ v.during = apps[k].during \cup q.during
    BY <1>4, <1>5, <1>6 DEF App
  <1>8. apps' = [apps EXCEPT ![k] = v]
    BY <1>2, <1>4 DEF Update
  <1>9. /\ Grow /\ Tables' /\ DOMAIN apps' = DOMAIN apps /\ Apps' = Apps
        /\ \A i \in DOMAIN apps : apps'[i] = IF i = k THEN v ELSE apps[i]
    <2>1. UNCHANGED << auth, begun, history, faults >>
      BY DEF Update
    <2>2. k \in DOMAIN apps => v \in App /\ v.user = apps[k].user
      BY <1>7
    <2> QED  BY <1>8, <2>1, <2>2, AppsType
  <1>10. Wrote(s, k) /\ k \in Apps'
    BY <1>0, <1>3, <1>9, Rows DEF Update
  <1>11. RequestsOK'
    BY <1>0, <1>9, <1>10, WroteOK
  <1> QED  BY <1>1, <1>2, <1>3, <1>7, <1>9, <1>10, <1>11, TypePartsNext

LEMMA DeleteType ==
    ASSUME TypeInv, NEW s \in Slots, Delete(s)
    PROVE  /\ TypeInv' /\ DOMAIN apps' = DOMAIN apps
           /\ \A a \in DOMAIN apps : /\ apps'[a].user = apps[a].user
                                     /\ apps'[a].name = apps[a].name
                                     /\ apps'[a].url = apps[a].url
                                     /\ apps'[a].during = apps[a].during
                                     /\ apps'[a].on => apps[a].on
  <1>0. Tables /\ RequestsOK
    BY TypeParts
  <1>1. PICK k : k = req[s].row
    OBVIOUS
  <1>2. PICK v : v = [apps[k] EXCEPT !.on = FALSE]
    OBVIOUS
  <1>3. ASSUME k \in DOMAIN apps
        PROVE  /\ v \in App /\ v.user = apps[k].user /\ v.name = apps[k].name
               /\ v.url = apps[k].url /\ v.during = apps[k].during /\ ~ v.on
    <2>1. apps[k] \in App
      BY <1>0, <1>3, Rows
    <2> QED  BY <1>2, <2>1 DEF App
  <1>4. apps' = [apps EXCEPT ![k] = v]
    BY <1>1, <1>2 DEF Delete
  <1>5. /\ Grow /\ Tables' /\ DOMAIN apps' = DOMAIN apps
        /\ \A i \in DOMAIN apps : apps'[i] = IF i = k THEN v ELSE apps[i]
    BY <1>3, <1>4, AppsType DEF Delete
  <1>6. RequestsOK'
    BY <1>0, <1>5, ReturnOK DEF Delete
  <1> QED  BY <1>3, <1>5, <1>6, TypePartsNext

LEMMA AbortType ==
    ASSUME TypeInv, NEW s \in Slots, Abort(s)
    PROVE  TypeInv'
  <1>0. Tables /\ RequestsOK /\ Grow /\ req[s] # Idle
    BY TypeParts, SameTables DEF Abort, auth
  <1>1. RequestsOK'
    BY <1>0, ReturnOK DEF Abort
  <1>2. faults' \in 0..MaxFaults
    BY <1>0, FaultType DEF Abort
  <1>3. (ended \cup raced \cup cut)' \subseteq Sessions
    BY <1>0, SessionType DEF Abort, Tables
  <1> QED  BY <1>0, <1>1, <1>2, <1>3, SameTablesType DEF Abort, Tables

\* TypeOK of module Accounts, for any sets of users, requests and names: what one
\* statement of a request leaves in its row, the next one finds.
LEMMA TypeStep == TypeInv /\ [Next]_vars => TypeInv'
  <1> SUFFICES ASSUME TypeInv, [Next]_vars PROVE TypeInv'
    OBVIOUS
  <1>1. ASSUME NEW s \in Slots, AuthService(s) PROVE TypeInv'
    BY <1>1, ReadType, StatusType, CreateLinkType, SendType, MarkUsedType, RevokeType, PairType
       DEF AuthService
  <1>2. ASSUME NEW s \in Slots, AppService(s) PROVE TypeInv'
    BY <1>2, ReadType, CreateType, UpdateType, DeleteType DEF AppService
  <1>3. CASE UNCHANGED vars
    <2>1. Tables /\ RequestsOK /\ Grow
      BY <1>3, TypeParts, SameTables DEF vars, auth
    <2>2. RequestsOK'
      BY <1>3, <2>1, RequestStays DEF RequestsOK, vars
    <2> QED  BY <1>3, <2>1, <2>2, SameTablesType DEF vars, history, Tables
  <1> QED  BY <1>1, <1>2, <1>3, AskType, AbortType, ExpireType DEF Next

LEMMA TypeStart == Init => TypeInv
  <1> SUFFICES ASSUME Init PROVE TypeInv
    OBVIOUS
  <1>1. Tables
    BY AccountsAssumption DEF Init, Tables
  <1>2. RequestsOK
    BY DEF Init, RequestsOK
  <1> QED  BY <1>1, <1>2, TypeParts

LEMMA TypeInvHolds == Spec => []TypeInv
  BY TypeStart, TypeStep, PTL DEF Spec

\* TypeOK of module Accounts, for any number of requests: the rows are well-formed, the
\* apps and sessions they name exist, and every request is at one of its statements.
THEOREM TypeCorrect == Spec => []TypeOK
  <1>1. TypeInv => TypeOK
    BY DEF TypeInv
  <1> QED  BY TypeInvHolds, <1>1, PTL

-----------------------------------------------------------------------------
(* What a step does to a request *)

Same(p, q) == /\ p.op = q.op /\ p.user = q.user /\ p.row = q.row /\ p.at = q.at
              /\ p.name = q.name /\ p.url = q.url /\ p.during \subseteq q.during

Advance(p, q) == /\ p.op = q.op /\ p.user = q.user /\ q.at = p.at + 1
                 /\ p.name = q.name /\ p.url = q.url /\ p.during = q.during
                 /\ p.op \notin {"Register", "ResendVerify"} => p.row = q.row

\* A request waits, comes, goes on by a statement of its own, or ends.
Moved(r, p, q) ==
    \/ p # Idle /\ q # Idle /\ Same(p, q)
    \/ p = Idle /\ (q = Idle \/ (q.at = 1 /\ q.during = {}))
    \/ p # Idle /\ q # Idle /\ Advance(p, q) /\ (AuthService(r) \/ AppService(r))
    \/ p # Idle /\ q = Idle /\ (AuthService(r) \/ AppService(r) \/ Abort(r))

LEMMA MovedWait == ASSUME NEW r, NEW p PROVE Moved(r, p, p)
  BY DEF Moved, Same

LEMMA MovedExcept ==
    ASSUME RequestsOK, NEW r \in Slots, NEW s \in Slots, NEW v, req' = [req EXCEPT ![s] = v],
           r = s => Moved(r, req[r], v)
    PROVE  Moved(r, req[r], req'[r])
  <1>1. req'[r] = IF r = s THEN v ELSE req[r]
    BY DEF RequestsOK
  <1> QED  BY <1>1, MovedWait

LEMMA MovedReturn ==
    ASSUME RequestsOK, NEW r \in Slots, NEW s \in Slots, Return(s), req[s] # Idle,
           AuthService(s) \/ AppService(s) \/ Abort(s)
    PROVE  Moved(r, req[r], req'[r])
  <1>1. r = s => Moved(r, req[r], Idle)
    BY DEF Moved
  <1> QED  BY <1>1, MovedExcept DEF Return

LEMMA MovedContinue ==
    ASSUME TypeInv, NEW r \in Slots, NEW s \in Slots, Continue(s), req[s] # Idle,
           AuthService(s) \/ AppService(s)
    PROVE  Moved(r, req[r], req'[r])
  <1>0. RequestsOK
    BY TypeParts
  <1>1. CASE AtLast(s)
    BY <1>0, <1>1, MovedReturn DEF Continue
  <1>2. CASE ~ AtLast(s)
    <2>1. PICK p : p = req[s] /\ RequestOK(p) /\ p # Idle
      BY <1>0 DEF RequestsOK
    <2>2. PICK v : v = [p EXCEPT !.at = @ + 1]
      OBVIOUS
    <2>3. req' = [req EXCEPT ![s] = v]
      BY <1>2, <2>1, <2>2 DEF Continue
    <2>4. Advance(p, v)
      BY <2>1, <2>2 DEF Advance, RequestOK
    <2>5. v # Idle
      <3>1. v.op \in Operations /\ Idle.op \notin Operations
        BY <2>1, <2>4 DEF Advance, RequestOK, Idle, Operations
      <3> QED  BY <3>1
    <2>6. r = s => Moved(r, req[r], v)
      BY <2>1, <2>4, <2>5 DEF Moved
    <2> QED  BY <1>0, <2>3, <2>6, MovedExcept
  <1> QED  BY <1>1, <1>2

LEMMA MovedWrote ==
    ASSUME RequestsOK, NEW r \in Slots, NEW s \in Slots, NEW a, Wrote(s, a), req[s] # Idle,
           AppService(s)
    PROVE  Moved(r, req[r], req'[r])
  <1>1. PICK p : p = req[r]
    OBVIOUS
  <1>2. PICK q : q = req'[r]
    OBVIOUS
  <1> SUFFICES Moved(r, p, q)
    BY <1>1, <1>2
  <1>3. q = IF r = s \/ p = Idle THEN Idle ELSE [p EXCEPT !.during = @ \cup {a}]
    BY <1>1, <1>2 DEF Wrote
  <1>4. CASE r = s \/ p = Idle
    BY <1>1, <1>3, <1>4 DEF Moved
  <1>5. CASE ~ (r = s \/ p = Idle)
    <2>1. RequestOK(p) /\ p # Idle
      BY <1>1, <1>5 DEF RequestsOK
    <2>2. Same(p, q)
      BY <1>3, <1>5, <2>1 DEF Same, RequestOK
    <2>3. q.op \in Operations /\ Idle.op \notin Operations
      BY <2>1, <2>2 DEF Same, RequestOK, Idle, Operations
    <2> QED  BY <2>1, <2>2, <2>3 DEF Moved
  <1> QED  BY <1>4, <1>5

LEMMA Moves ==
    ASSUME TypeInv, [Next]_vars, NEW r \in Slots
    PROVE  Moved(r, req[r], req'[r])
  <1>0. RequestsOK
    BY TypeParts
  <1>1. ASSUME NEW s \in Slots, NEW op, NEW u, NEW row, NEW n, NEW l,
               Begin(s, op, u, row, n, l)
        PROVE  Moved(r, req[r], req'[r])
    <2>1. PICK v : v = [op |-> op, user |-> u, row |-> row, name |-> n, url |-> l, at |-> 1,
                        during |-> {}]
      OBVIOUS
    <2>2. r = s => Moved(r, req[r], v)
      BY <1>1, <2>1 DEF Begin, Moved
    <2> QED  BY <1>0, <1>1, <2>1, <2>2, MovedExcept DEF Begin
  <1>2. ASSUME NEW s \in Slots, Ask(s) PROVE Moved(r, req[r], req'[r])
    <2>1. \E op, u, row, n, l : Begin(s, op, u, row, n, l)
      BY <1>2 DEF Ask
    <2> QED  BY <1>1, <2>1
  <1>3. ASSUME NEW s \in Slots, AuthService(s) PROVE Moved(r, req[r], req'[r])
    <2>0. req[s] # Idle
      BY <1>3 DEF At, AuthService, GetByEmail, CreateUser, CreateLink, Send, GetByToken,
                  UpdateStatus, MarkUsed, GetByTokenHash, Revoke, generateTokenPair
    <2>1. ASSUME NEW ok, Check(s, ok) PROVE Moved(r, req[r], req'[r])
      BY <1>0, <1>3, <2>0, <2>1, MovedReturn, MovedContinue DEF Check
    <2>2. CASE CreateLink(s)
      <3>1. PICK p : p = req[s] /\ RequestOK(p) /\ p # Idle
        BY <1>0, <2>0 DEF RequestsOK
      <3>2. PICK v : v = [p EXCEPT !.at = @ + 1, !.row = Len(links')]
        OBVIOUS
      <3>3. req' = [req EXCEPT ![s] = v]
        BY <2>2, <3>1, <3>2 DEF CreateLink
      <3>4. p.op \in {"Register", "ResendVerify"}
        BY <2>2, <3>1, AtIs DEF CreateLink, On
      <3>5. Advance(p, v)
        BY <3>1, <3>2, <3>4 DEF Advance, RequestOK
      <3>6. v.op \in Operations /\ Idle.op \notin Operations
        BY <3>1, <3>5 DEF Advance, RequestOK, Idle, Operations
      <3>7. r = s => Moved(r, req[r], v)
        BY <1>3, <3>1, <3>5, <3>6 DEF Moved
      <3> QED  BY <1>0, <3>3, <3>7, MovedExcept
    <2>3. CASE GetByEmail(s) \/ GetByToken(s) \/ GetByTokenHash(s)
      BY <2>1, <2>3 DEF GetByEmail, GetByToken, GetByTokenHash
    <2>4. CASE CreateUser(s) \/ Send(s) \/ UpdateStatus(s) \/ MarkUsed(s) \/ Revoke(s)
               \/ generateTokenPair(s)
      <3>1. Return(s) \/ Continue(s)
        BY <2>4 DEF CreateUser, Send, UpdateStatus, MarkUsed, Revoke, generateTokenPair
      <3> QED  BY <1>0, <1>3, <2>0, <3>1, MovedReturn, MovedContinue
    <2> QED  BY <1>3, <2>2, <2>3, <2>4 DEF AuthService
  <1>4. ASSUME NEW s \in Slots, AppService(s) PROVE Moved(r, req[r], req'[r])
    <2>0. req[s] # Idle
      BY <1>4 DEF At, AppService, NameExists, CallbackURLExists, Create, Update, Delete
    <2>1. ASSUME NEW ok, Check(s, ok) PROVE Moved(r, req[r], req'[r])
      BY <1>0, <1>4, <2>0, <2>1, MovedReturn, MovedContinue DEF Check
    <2>2. ASSUME NEW a, Wrote(s, a) PROVE Moved(r, req[r], req'[r])
      BY <1>0, <1>4, <2>0, <2>2, MovedWrote
    <2>3. CASE NameExists(s) \/ CallbackURLExists(s)
      BY <2>1, <2>3 DEF NameExists, CallbackURLExists
    <2>4. CASE Create(s) \/ Update(s)
      <3>1. \E a : Wrote(s, a)
        BY <2>4 DEF Create, Update
      <3> QED  BY <2>2, <3>1
    <2>5. CASE Delete(s)
      BY <1>0, <1>4, <2>0, <2>5, MovedReturn DEF Delete
    <2> QED  BY <1>4, <2>3, <2>4, <2>5 DEF AppService
  <1>5. ASSUME NEW s \in Slots, Abort(s) PROVE Moved(r, req[r], req'[r])
    BY <1>0, <1>5, MovedReturn DEF Abort
  <1>6. CASE Expire \/ UNCHANGED vars
    <2>1. req'[r] = req[r]
      BY <1>6 DEF Expire, vars
    <2> QED  BY <2>1, MovedWait
  <1> QED  BY <1>2, <1>3, <1>4, <1>5, <1>6 DEF Next

-----------------------------------------------------------------------------
(* Verification *)

\* UsedIsVerified, and a request that is about to use up its link has verified the
\* account.
VerifyInv ==
    /\ UsedIsVerified
    /\ \A s \in Slots : On(s, "VerifyEmail", 3) => status[req[s].user] = "verified"

\* A step writes at most one of the tables.
LEMMA OneTable ==
    ASSUME TypeInv, [Next]_vars
    PROVE  \/ UNCHANGED << auth, apps >>
           \/ Expire /\ UNCHANGED << status, apps >>
           \/ \E s \in Slots :
                 \/ (CreateUser(s) \/ UpdateStatus(s)) /\ UNCHANGED << links, tokens, apps >>
                 \/ (CreateLink(s) \/ Send(s) \/ MarkUsed(s)) /\ UNCHANGED << status, tokens, apps >>
                 \/ (Revoke(s) \/ generateTokenPair(s)) /\ UNCHANGED << status, links, apps >>
                 \/ (Create(s) \/ Update(s) \/ Delete(s)) /\ UNCHANGED auth
  <1>1. ASSUME NEW s \in Slots, Ask(s) PROVE UNCHANGED << auth, apps >>
    <2>1. \E op, u, row, n, l : Begin(s, op, u, row, n, l)
      BY <1>1 DEF Ask
    <2> QED  BY <2>1 DEF Begin
  <1>2. ASSUME NEW s \in Slots, GetByEmail(s) \/ GetByToken(s) \/ GetByTokenHash(s)
                                \/ NameExists(s) \/ CallbackURLExists(s) \/ Abort(s)
        PROVE  UNCHANGED << auth, apps >>
    BY <1>2 DEF GetByEmail, GetByToken, GetByTokenHash, NameExists, CallbackURLExists, Abort, Check
  <1>3. ASSUME NEW s \in Slots
        PROVE  /\ CreateUser(s) \/ UpdateStatus(s) => UNCHANGED << links, tokens, apps >>
               /\ CreateLink(s) \/ Send(s) \/ MarkUsed(s) => UNCHANGED << status, tokens, apps >>
               /\ Revoke(s) \/ generateTokenPair(s) => UNCHANGED << status, links, apps >>
               /\ Create(s) \/ Update(s) \/ Delete(s) => UNCHANGED auth
    BY DEF CreateUser, UpdateStatus, CreateLink, Send, MarkUsed, Revoke, generateTokenPair,
           Create, Update, Delete
  <1>4. CASE Expire
    BY <1>4 DEF Expire
  <1>5. CASE UNCHANGED vars
    BY <1>5 DEF vars
  <1>6. CASE Next /\ ~ Expire
    <2>1. PICK s \in Slots : Ask(s) \/ AuthService(s) \/ AppService(s) \/ Abort(s)
      BY <1>6 DEF Next
    <2>2. CASE Ask(s) \/ Abort(s)
      BY <1>1, <1>2, <2>2
    <2>3. CASE AuthService(s)
      BY <1>2, <1>3, <2>3 DEF AuthService
    <2>4. CASE AppService(s)
      BY <1>2, <1>3, <2>4 DEF AppService
    <2> QED  BY <2>1, <2>2, <2>3, <2>4
  <1> QED  BY <1>4, <1>5, <1>6

LEMMA VerifyStep == TypeInv /\ VerifyInv /\ [Next]_vars => VerifyInv'
  <1> SUFFICES ASSUME TypeInv, VerifyInv, [Next]_vars PROVE VerifyInv'
    OBVIOUS
  <1>0. Tables /\ RequestsOK /\ TypeInv' /\ Tables' /\ RequestsOK'
    BY TypeStep, TypeParts, TypePartsNext
  <1>1. ASSUME NEW u \in Users, status[u] = "verified" PROVE status'[u] = "verified"
    BY <1>1, OneTable, StatusType DEF auth
  <1>2. ASSUME NEW s \in Slots, On(s, "VerifyEmail", 3)' PROVE (status[req[s].user] = "verified")'
    <2>1. PICK p : p = req[s]
      OBVIOUS
    <2>2. PICK q : q = req'[s]
      OBVIOUS
    <2>3. q # Idle /\ q.op = "VerifyEmail" /\ q.at = 3
      BY <1>2, <2>2 DEF On
    <2>4. Moved(s, p, q)
      BY <2>1, <2>2, Moves
    <2>5. CASE p # Idle /\ Same(p, q)
      <3>1. On(s, "VerifyEmail", 3) /\ p.user = q.user
        BY <2>1, <2>3, <2>5 DEF On, Same
      <3>2. status[p.user] = "verified" /\ p.user \in Users
        BY <1>0, <2>1, <3>1 DEF VerifyInv, RequestsOK, RequestOK, On
      <3> QED  BY <1>1, <2>2, <3>1, <3>2
    <2>6. CASE p # Idle /\ Advance(p, q) /\ (AuthService(s) \/ AppService(s))
      <3>1. RequestOK(p)
        BY <1>0, <2>1, <2>6 DEF RequestsOK
      <3>2. p.op = "VerifyEmail" /\ p.at = 2 /\ p.user = q.user /\ p.user \in Users
        BY <2>3, <2>6, <3>1 DEF Advance, RequestOK
      <3>3. On(s, "VerifyEmail", 2)
        BY <2>1, <2>6, <3>2 DEF On
      <3>4. \A op, k : On(s, op, k) => op = "VerifyEmail" /\ k = 2
        BY <2>1, <3>2 DEF On
      <3>5. UpdateStatus(s)
        BY <2>6, <3>4, AtIs
           DEF AuthService, AppService, GetByEmail, CreateUser, CreateLink, Send, GetByToken,
               MarkUsed, GetByTokenHash, Revoke, generateTokenPair, NameExists,
               CallbackURLExists, Create, Update, Delete
      <3>6. status'[p.user] = "verified"
        BY <1>0, <2>1, <3>2, <3>5 DEF UpdateStatus, Tables
      <3> QED  BY <2>2, <3>2, <3>6
    <2> QED  BY <2>3, <2>4, <2>5, <2>6 DEF Moved
  <1>3. ASSUME NEW k \in DOMAIN links', links'[k].used
        PROVE  status'[links'[k].user] = "verified"
    <2>0. \A i \in DOMAIN links : links[i].user \in Users
      BY <1>0, Rows DEF Link
    <2>1. ASSUME k \in DOMAIN links, links[k].used, links'[k].user = links[k].user
          PROVE  status'[links'[k].user] = "verified"
      BY <1>1, <2>0, <2>1 DEF VerifyInv, UsedIsVerified
    <2>2. CASE UNCHANGED links
      BY <1>3, <2>1, <2>2
    <2>3. CASE Expire
      BY <1>3, <2>1, <2>3, ExpireType
    <2>4. ASSUME NEW s \in Slots, CreateLink(s) PROVE status'[links'[k].user] = "verified"
      <3>1. PICK n : n = Len(links)
        OBVIOUS
      <3>2. k \in 1..(n + 1) /\ DOMAIN links = 1..n /\ n \in Nat /\ ~ links'[n + 1].used
        BY <1>0, <1>3, <2>4, <3>1, CreateLinkType, Rows
      <3>3. k \in DOMAIN links
        BY <1>3, <3>2
      <3> QED  BY <1>3, <2>1, <2>4, <3>3, CreateLinkType
    <2>5. ASSUME NEW s \in Slots, Send(s) PROVE status'[links'[k].user] = "verified"
      <3>1. links' = links \/ links' = [links EXCEPT ![req[s].row].mailed = TRUE]
        BY <2>5 DEF Send
      <3>2. DOMAIN links' = DOMAIN links
        BY <3>1
      <3>3. links'[k].used = links[k].used /\ links'[k].user = links[k].user
        <4>1. links[k] \in Link
          BY <1>0, <1>3, <3>2, Rows
        <4>2. links'[k] = links[k] \/ links'[k] = [links[k] EXCEPT !.mailed = TRUE]
          BY <1>3, <3>1, <3>2
        <4> QED  BY <4>1, <4>2 DEF Link
      <3> QED  BY <1>3, <2>1, <3>2, <3>3
    <2>6. ASSUME NEW s \in Slots, MarkUsed(s) PROVE status'[links'[k].user] = "verified"
      <3>1. CASE k = req[s].row
        <4>1. On(s, "VerifyEmail", 3)
          BY <2>6, AtIs DEF MarkUsed
        <4>2. status[req[s].user] = "verified" /\ links[k].user = req[s].user
          BY <1>0, <3>1, <4>1 DEF VerifyInv, RequestsOK, RequestOK, RowOK, On
        <4>3. k \in DOMAIN links
          BY <1>3, <2>6, MarkUsedType
        <4>4. links'[k].user = links[k].user
          <5>1. links[k] \in Link
            BY <1>0, <4>3, Rows
          <5> QED  BY <2>6, <3>1, <4>3, <5>1 DEF MarkUsed, Link
        <4> QED  BY <1>1, <2>0, <4>2, <4>3, <4>4
      <3>2. CASE k # req[s].row
        BY <1>3, <2>1, <2>6, <3>2, MarkUsedType
      <3> QED  BY <3>1, <3>2
    <2> QED  BY <2>2, <2>3, <2>4, <2>5, <2>6, OneTable DEF auth
  <1> QED  BY <1>2, <1>3 DEF VerifyInv, UsedIsVerified

\* UsedIsVerified of module Accounts, for any number of requests: UpdateStatus comes
\* before MarkUsed in VerifyEmail, so a link that is used up has done its work.
THEOREM VerifiedBeforeUsed == Spec => []UsedIsVerified
  <1>1. Init => VerifyInv
    BY DEF Init, VerifyInv, UsedIsVerified, On
  <1>2. VerifyInv => UsedIsVerified
    BY DEF VerifyInv
  <1> QED  BY TypeInvHolds, VerifyStep, <1>1, <1>2, PTL DEF Spec

-----------------------------------------------------------------------------
(* Rotation of refresh tokens *)

IsLive(t, n) == t \in DOMAIN tokens /\ tokens[t].session = n /\ ~ tokens[t].revoked

\* A Refresh of session n that has revoked its token and not yet made the next.
IsRotating(s, n) == On(s, "Refresh", 3) /\ Session(s) = n

\* A request that found its token valid and has not yet revoked it.
Revoking(s) == On(s, "Refresh", 2) \/ On(s, "Logout", 2)

\* The right to go on with session n is in one place: a token or a Refresh.  No place
\* is left once it is ended, and one is left unless it is ended or cut.
Rotation(n) ==
    /\ \A t, u \in Sessions : IsLive(t, n) /\ IsLive(u, n) => t = u
    /\ \A r, s \in Slots : IsRotating(r, n) /\ IsRotating(s, n) => r = s
    /\ \A t \in Sessions, s \in Slots : ~ (IsLive(t, n) /\ IsRotating(s, n))
    /\ n \in ended => /\ \A t \in Sessions : ~ IsLive(t, n)
                      /\ \A s \in Slots : ~ IsRotating(s, n)
    /\ n \notin ended \cup cut /\ (\E t \in Sessions : tokens[t].session = n)
       => (\E t \in Sessions : IsLive(t, n)) \/ (\E s \in Slots : IsRotating(s, n))

\* A request that is about to revoke a token finds it unrevoked and is alone.
RevokesAlone(s) ==
    Revoking(s) /\ Session(s) \notin raced =>
        /\ ~ tokens[req[s].row].revoked
        /\ \A r \in Slots : Revoking(r) /\ req[r].row = req[s].row => r = s

RotationInv == /\ \A n \in Sessions \ raced : Rotation(n)
               /\ \A s \in Slots : RevokesAlone(s)

\* The step of a request that has come to a statement of a token.
LEMMA TokenStatement ==
    ASSUME TypeInv, NEW r \in Slots, AuthService(r) \/ AppService(r)
    PROVE  /\ On(r, "Refresh", 1) \/ On(r, "Logout", 1) => GetByTokenHash(r)
           /\ Revoking(r) => Revoke(r)
           /\ On(r, "Refresh", 3) => generateTokenPair(r)
  <1>1. ASSUME NEW op, NEW k, On(r, op, k), NEW o, NEW j, On(r, o, j) PROVE o = op /\ j = k
    BY <1>1 DEF On
  <1>2. CASE On(r, "Refresh", 1) \/ On(r, "Logout", 1)
    BY <1>1, <1>2, AtIs
       DEF AuthService, AppService, GetByEmail, CreateUser, CreateLink, Send, GetByToken,
           UpdateStatus, MarkUsed, Revoke, generateTokenPair, NameExists,
           CallbackURLExists, Create, Update, Delete, Revoking
  <1>3. CASE Revoking(r)
    BY <1>1, <1>3, AtIs
       DEF AuthService, AppService, GetByEmail, CreateUser, CreateLink, Send, GetByToken,
           UpdateStatus, MarkUsed, GetByTokenHash, generateTokenPair, NameExists,
           CallbackURLExists, Create, Update, Delete, Revoking
  <1>4. CASE On(r, "Refresh", 3)
    BY <1>1, <1>4, AtIs
       DEF AuthService, AppService, GetByEmail, CreateUser, CreateLink, Send, GetByToken,
           UpdateStatus, MarkUsed, GetByTokenHash, Revoke, NameExists,
           CallbackURLExists, Create, Update, Delete, Revoking
  <1> QED  BY <1>2, <1>3, <1>4

\* No step takes a token out of its session.
LEMMA SessionsStay ==
    ASSUME TypeInv, [Next]_vars
    PROVE  /\ \A t \in DOMAIN tokens : t \in DOMAIN tokens' /\ tokens'[t].session = tokens[t].session
           /\ \/ \E s \in Slots : Revoke(s) \/ generateTokenPair(s)
              \/ /\ DOMAIN tokens' = DOMAIN tokens
                 /\ \A t \in DOMAIN tokens : tokens'[t].revoked = tokens[t].revoked
  <1>1. CASE UNCHANGED tokens
    BY <1>1
  <1>2. CASE Expire
    BY <1>2, ExpireType
  <1>3. ASSUME NEW s \in Slots, Revoke(s)
        PROVE  \A t \in DOMAIN tokens : t \in DOMAIN tokens' /\ tokens'[t].session = tokens[t].session
    BY <1>3, RevokeType
  <1>4. ASSUME NEW s \in Slots, generateTokenPair(s)
        PROVE  \A t \in DOMAIN tokens : t \in DOMAIN tokens' /\ tokens'[t].session = tokens[t].session
    <2>1. PICK n : n = Len(tokens)
      OBVIOUS
    <2>2. n \in Nat /\ DOMAIN tokens = 1..n /\ DOMAIN tokens' = 1..(n + 1)
      BY <1>4, <2>1, PairType
    <2>3. 1..n \subseteq 1..(n + 1)
      BY <2>2
    <2> QED  BY <1>4, <2>2, <2>3, PairType
  <1> QED  BY <1>1, <1>2, <1>3, <1>4, OneTable DEF auth

\* A request that waits keeps its session.
LEMMA Waits ==
    ASSUME TypeInv, [Next]_vars, NEW r \in Slots, req[r] # Idle, req'[r] # Idle,
           Same(req[r], req'[r])
    PROVE  /\ \A op, k : On(r, op, k)' <=> On(r, op, k)
           /\ \A n : IsRotating(r, n)' <=> IsRotating(r, n)
           /\ Revoking(r)' <=> Revoking(r)
           /\ Revoking(r) => Session(r)' = Session(r)
           /\ req'[r].row = req[r].row
  <1>0. RequestsOK
    BY TypeParts
  <1>1. PICK p : p = req[r]
    OBVIOUS
  <1>2. PICK q : q = req'[r]
    OBVIOUS
  <1>3. p # Idle /\ q # Idle /\ Same(p, q)
    BY <1>1, <1>2
  <1>4. ASSUME NEW op, NEW k PROVE On(r, op, k)' <=> On(r, op, k)
    BY <1>1, <1>2, <1>3 DEF On, Same
  <1>5. p.row = q.row
    BY <1>3 DEF Same
  <1>6. ASSUME NEW op, NEW k, On(r, op, k), op \in {"Refresh", "Logout"}
        PROVE  Session(r)' = Session(r)
    <2>1. p.row \in DOMAIN tokens
      BY <1>0, <1>1, <1>6 DEF RequestsOK, RequestOK, RowOK, On
    <2>2. tokens'[p.row].session = tokens[p.row].session
      BY <2>1, SessionsStay
    <2> QED  BY <1>1, <1>2, <1>5, <2>2 DEF Session
  <1>7. ASSUME NEW n PROVE IsRotating(r, n)' <=> IsRotating(r, n)
    <2>1. On(r, "Refresh", 3)' <=> On(r, "Refresh", 3)
      BY <1>4
    <2>2. On(r, "Refresh", 3) => Session(r)' = Session(r)
      BY <1>6
    <2> QED  BY <2>1, <2>2 DEF IsRotating
  <1>8. /\ On(r, "Refresh", 2)' <=> On(r, "Refresh", 2)
        /\ On(r, "Logout", 2)' <=> On(r, "Logout", 2)
    BY <1>4
  <1>9. Revoking(r)' <=> Revoking(r)
    BY <1>8 DEF Revoking
  <1> QED  BY <1>1, <1>2, <1>4, <1>5, <1>6, <1>7, <1>9 DEF Revoking

\* A slot without a request holds no part of a session.
LEMMA IdleSlot ==
    ASSUME NEW r, req[r] = Idle
    PROVE  (\A n : ~ IsRotating(r, n)) /\ ~ Revoking(r)
  BY DEF IsRotating, Revoking, On

LEMMA IdleSlotNext ==
    ASSUME NEW r, req'[r] = Idle
    PROVE  (\A n : ~ IsRotating(r, n)') /\ ~ Revoking(r)'
  BY DEF IsRotating, Revoking, On

\* The steps of the other requests leave a request its place.
LEMMA Places ==
    ASSUME TypeInv, [Next]_vars, NEW r \in Slots
    PROVE  /\ \A n : IsRotating(r, n)' => IsRotating(r, n) \/ Revoke(r)
           /\ \A n : IsRotating(r, n) => IsRotating(r, n)' \/ generateTokenPair(r) \/ Abort(r)
           /\ Revoking(r)' => /\ Revoking(r) \/ GetByTokenHash(r)
                              /\ req'[r].row = req[r].row
                              /\ Session(r)' = Session(r)
  <1>0. RequestsOK
    BY TypeParts
  <1>1. PICK p : p = req[r]
    OBVIOUS
  <1>2. PICK q : q = req'[r]
    OBVIOUS
  <1>3. Moved(r, p, q)
    BY <1>1, <1>2, Moves
  <1>4. \A op, k : On(r, op, k) <=> p # Idle /\ p.op = op /\ p.at = k
    BY <1>1 DEF On
  <1>5. ASSUME NEW op, NEW k PROVE On(r, op, k)' <=> q # Idle /\ q.op = op /\ q.at = k
    BY <1>2 DEF On
  <1>6. CASE p # Idle /\ q # Idle /\ Same(p, q)
    BY <1>1, <1>2, <1>6, Waits
  <1>7. CASE p = Idle /\ (q = Idle \/ (q.at = 1 /\ q.during = {}))
    <2>1. (\A n : ~ IsRotating(r, n)) /\ ~ Revoking(r)
      BY <1>1, <1>7, IdleSlot
    <2>2. ~ On(r, "Refresh", 3)' /\ ~ On(r, "Refresh", 2)' /\ ~ On(r, "Logout", 2)'
      BY <1>5, <1>7
    <2>3. ASSUME NEW n PROVE ~ IsRotating(r, n)'
      BY <2>2 DEF IsRotating
    <2>4. ~ Revoking(r)'
      BY <2>2 DEF Revoking
    <2> QED  BY <2>1, <2>3, <2>4
  <1>8. CASE p # Idle /\ q # Idle /\ Advance(p, q) /\ (AuthService(r) \/ AppService(r))
    <2>1. RequestOK(p)
      BY <1>0, <1>1, <1>8 DEF RequestsOK
    <2>2. p.op = q.op /\ q.at = p.at + 1 /\ p.at \in 1..4
      BY <1>8, <2>1 DEF Advance, RequestOK
    <2>3. ASSUME On(r, "Refresh", 3)' PROVE Revoke(r)
      <3>1. On(r, "Refresh", 2)
        <4>1. q.op = "Refresh" /\ q.at = 3
          BY <1>5, <2>3
        <4>2. p.op = "Refresh" /\ p.at = 2
          BY <2>2, <4>1
        <4> QED  BY <1>4, <1>8, <4>2
      <3> QED  BY <1>8, <3>1, TokenStatement DEF Revoking
    <2>4. ASSUME On(r, "Refresh", 3) PROVE generateTokenPair(r)
      BY <1>8, <2>4, TokenStatement
    <2>5. ASSUME Revoking(r)'
          PROVE  /\ GetByTokenHash(r) /\ req'[r].row = req[r].row
                 /\ Session(r)' = Session(r)
      <3>1. On(r, "Refresh", 2)' \/ On(r, "Logout", 2)'
        BY <2>5 DEF Revoking
      <3>2. q.op \in {"Refresh", "Logout"} /\ q.at = 2
        BY <1>5, <3>1
      <3>3. p.op \in {"Refresh", "Logout"} /\ p.at = 1
        BY <2>2, <3>2
      <3>4. On(r, "Refresh", 1) \/ On(r, "Logout", 1)
        BY <1>4, <1>8, <3>3
      <3>5. p.row = q.row /\ p.row \in DOMAIN tokens
        BY <1>8, <2>1, <3>3 DEF Advance, RequestOK, RowOK
      <3>6. tokens'[p.row].session = tokens[p.row].session
        BY <3>5, SessionsStay
      <3> QED  BY <1>1, <1>2, <1>8, <3>4, <3>5, <3>6, TokenStatement DEF Session
    <2> QED  BY <2>3, <2>4, <2>5 DEF IsRotating
  <1>9. CASE p # Idle /\ q = Idle /\ (AuthService(r) \/ AppService(r) \/ Abort(r))
    <2>1. (\A n : ~ IsRotating(r, n)') /\ ~ Revoking(r)'
      BY <1>2, <1>9, IdleSlotNext
    <2>2. ASSUME On(r, "Refresh", 3) PROVE generateTokenPair(r) \/ Abort(r)
      BY <1>9, <2>2, TokenStatement
    <2> QED  BY <2>1, <2>2 DEF IsRotating
  <1> QED  BY <1>3, <1>6, <1>7, <1>8, <1>9 DEF Moved

LEMMA HistoryGrows ==
    ASSUME [Next]_vars
    PROVE  /\ raced \subseteq raced' /\ cut \subseteq cut'
           /\ ended' = ended \/ \E s \in Slots : Revoke(s)
  <1>1. ASSUME NEW s \in Slots, Ask(s) PROVE UNCHANGED history
    <2>1. \E op, u, row, n, l : Begin(s, op, u, row, n, l)
      BY <1>1 DEF Ask
    <2> QED  BY <2>1 DEF Begin
  <1>2. ASSUME NEW s \in Slots, AuthService(s) \/ AppService(s) \/ Abort(s), ~ Revoke(s)
        PROVE  raced \subseteq raced' /\ cut \subseteq cut' /\ ended' = ended
    BY <1>2 DEF AuthService, AppService, GetByEmail, CreateUser, CreateLink, Send, GetByToken,
                UpdateStatus, MarkUsed, GetByTokenHash, generateTokenPair, NameExists,
                CallbackURLExists, Create, Update, Delete, Abort, history
  <1>3. ASSUME NEW s \in Slots, Revoke(s) PROVE raced' = raced /\ cut' = cut
    BY <1>3 DEF Revoke
  <1>4. CASE Expire \/ UNCHANGED vars
    BY <1>4 DEF Expire, vars, history
  <1> QED  BY <1>1, <1>2, <1>3, <1>4 DEF Next, history

\* The request that acts, and the others.
LEMMA Acts ==
    ASSUME TypeInv, NEW s \in Slots, GetByTokenHash(s) \/ Revoke(s) \/ generateTokenPair(s)
    PROVE  /\ req[s] # Idle
           /\ \A r \in Slots : r # s => req'[r] = req[r]
           /\ GetByTokenHash(s) /\ ~ Valid(req[s].row) => req'[s] = Idle
           /\ Revoke(s) /\ On(s, "Refresh", 2) =>
                 /\ req'[s] # Idle /\ req'[s].op = "Refresh" /\ req'[s].at = 3
                 /\ req'[s].row = req[s].row
           /\ Revoke(s) /\ On(s, "Logout", 2) => req'[s] = Idle
           /\ generateTokenPair(s) => req'[s] = Idle
  <1>0. RequestsOK /\ req[s] # Idle
    BY TypeParts DEF At, GetByTokenHash, Revoke, generateTokenPair
  <1>1. Return(s) \/ Continue(s)
    BY DEF GetByTokenHash, Check, Revoke, generateTokenPair
  <1>2. ASSUME NEW r \in Slots, r # s PROVE req'[r] = req[r]
    BY <1>0, <1>1, <1>2 DEF Continue, Return, RequestsOK
  <1>3. Return(s) => req'[s] = Idle
    BY <1>0 DEF Return, RequestsOK
  <1>4. PICK p : p = req[s] /\ RequestOK(p) /\ p # Idle
    BY <1>0 DEF RequestsOK
  <1>5. ASSUME Revoke(s), On(s, "Refresh", 2)
        PROVE  /\ req'[s] # Idle /\ req'[s].op = "Refresh" /\ req'[s].at = 3
               /\ req'[s].row = req[s].row
    <2>1. p.op = "Refresh" /\ p.at = 2
      BY <1>4, <1>5 DEF On
    <2>2. ~ AtLast(s)
      BY <1>4, <2>1, StatementsAre DEF AtLast
    <2>3. PICK v : v = [p EXCEPT !.at = @ + 1]
      OBVIOUS
    <2>4. req'[s] = v
      BY <1>0, <1>4, <1>5, <2>2, <2>3 DEF Revoke, Continue, RequestsOK
    <2>5. v.op = "Refresh" /\ v.at = 3 /\ v.row = p.row
      BY <1>4, <2>1, <2>3 DEF RequestOK
    <2>6. v # Idle
      BY <2>5 DEF Idle
    <2> QED  BY <1>4, <2>4, <2>5, <2>6
  <1>6. ASSUME Revoke(s), On(s, "Logout", 2) PROVE req'[s] = Idle
    <2>1. AtLast(s)
      BY <1>6, StatementsAre DEF AtLast, On
    <2> QED  BY <1>3, <1>6, <2>1 DEF Revoke, Continue
  <1> QED  BY <1>0, <1>2, <1>3, <1>5, <1>6 DEF GetByTokenHash, Check, generateTokenPair

\* A session none of whose places the step changes.
LEMMA KeepRotation ==
    ASSUME Tables, NEW n, Rotation(n), cut \subseteq cut',
           \A t : IsLive(t, n)' => IsLive(t, n),
           \A t : IsLive(t, n) => IsLive(t, n)' /\ t \in Sessions',
           \A r \in Slots : IsRotating(r, n)' => IsRotating(r, n),
           \A r \in Slots : IsRotating(r, n) => IsRotating(r, n)' \/ n \in cut',
           n \in ended' => n \in ended, n \in ended => n \in ended',
           (\E t \in Sessions : tokens[t].session = n)' => \E t \in Sessions : tokens[t].session = n
    PROVE  Rotation(n)'
  <1>0. \A t : IsLive(t, n) => t \in Sessions
    BY Rows DEF IsLive
  <1>1. ASSUME NEW t \in Sessions', NEW u \in Sessions', IsLive(t, n)', IsLive(u, n)' PROVE t = u
    BY <1>0, <1>1 DEF Rotation
  <1>2. ASSUME NEW r \in Slots, NEW s \in Slots, IsRotating(r, n)', IsRotating(s, n)' PROVE r = s
    BY <1>2 DEF Rotation
  <1>3. ASSUME NEW t \in Sessions', NEW s \in Slots, IsLive(t, n)', IsRotating(s, n)' PROVE FALSE
    BY <1>0, <1>3 DEF Rotation
  <1>4. ASSUME n \in ended'
        PROVE  /\ \A t \in Sessions' : ~ IsLive(t, n)'
               /\ \A s \in Slots : ~ IsRotating(s, n)'
    BY <1>0, <1>4 DEF Rotation
  <1>5. ASSUME n \notin ended' \cup cut', (\E t \in Sessions : tokens[t].session = n)'
        PROVE  (\E t \in Sessions' : IsLive(t, n)') \/ (\E s \in Slots : IsRotating(s, n)')
    BY <1>0, <1>5 DEF Rotation
  <1> QED  BY <1>1, <1>2, <1>3, <1>4, <1>5 DEF Rotation

\* Every step but a Revoke and the making of a new token.
LEMMA QuietRotation ==
    ASSUME TypeInv, RotationInv, [Next]_vars,
           \A s \in Slots : ~ Revoke(s) /\ ~ generateTokenPair(s)
    PROVE  RotationInv'
  <1>0. /\ Tables /\ DOMAIN tokens' = DOMAIN tokens /\ TypeInv'
        /\ \A t \in DOMAIN tokens : /\ tokens'[t].session = tokens[t].session
                                    /\ tokens'[t].revoked = tokens[t].revoked
    BY TypeParts, TypeStep, SessionsStay
  <1>1. raced \subseteq raced' /\ cut \subseteq cut' /\ ended' = ended
    BY HistoryGrows
  <1>2. Sessions' = Sessions
    <2>1. Tables' /\ DOMAIN tokens = Sessions
      BY <1>0, TypePartsNext, Rows
    <2>2. (DOMAIN tokens = Sessions)'
      BY <2>1, Rows, PTL
    <2> QED  BY <1>0, <2>1, <2>2
  <1>3. ASSUME NEW n \in Sessions', n \notin raced' PROVE Rotation(n)'
    <2>1. Rotation(n)
      BY <1>1, <1>2, <1>3 DEF RotationInv
    <2>2. ASSUME NEW t PROVE IsLive(t, n)' <=> IsLive(t, n)
      BY <1>0 DEF IsLive
    <2>3. \A t : IsLive(t, n) => t \in Sessions'
      BY <1>0, <1>2, Rows DEF IsLive
    <2>4. ASSUME NEW r \in Slots
          PROVE  /\ IsRotating(r, n)' => IsRotating(r, n)
                 /\ IsRotating(r, n) => IsRotating(r, n)' \/ n \in cut'
      <3>1. ASSUME Abort(r), IsRotating(r, n) PROVE n \in cut'
        <4>1. At(r, "generateTokenPair") /\ req[r].op = "Refresh" /\ Session(r) = n
          BY <3>1, AtIs DEF IsRotating, On
        <4> QED  BY <3>1, <4>1 DEF Abort
      <3> QED  BY <3>1, Places
    <2>5. (\E t \in Sessions : tokens[t].session = n)' => \E t \in Sessions : tokens[t].session = n
      BY <1>0, <1>2, Rows
    <2> QED  BY <1>0, <1>1, <2>1, <2>2, <2>3, <2>4, <2>5, KeepRotation
  \* Two requests that find one token valid race.
  <1>4. ASSUME NEW s \in Slots, NEW r \in Slots, r # s, GetByTokenHash(s), Revoking(s)',
               Revoking(r)', req'[r].row = req'[s].row
        PROVE  Session(s)' \in raced'
    <2>1. req'[s] # Idle /\ req'[r] = req[r]
      BY <1>4, Acts DEF Revoking, On
    <2>2. Valid(req[s].row)
      BY <1>4, <2>1, Acts
    <2>3. Revoking(r)
      BY <1>4, <2>1 DEF Revoking, On
    <2>4. At(r, "Revoke") /\ req[r].row = req[s].row
      BY <1>4, <2>3, Places, AtIs DEF Revoking
    <2>5. Session(s) \in raced'
      BY <1>4, <2>2, <2>4 DEF GetByTokenHash, Before
    <2> QED  BY <1>4, <2>5, Places
  <1>5. ASSUME NEW s \in Slots, Revoking(s)', Session(s)' \notin raced'
        PROVE  /\ ~ tokens'[req'[s].row].revoked
               /\ \A r \in Slots : Revoking(r)' /\ req'[r].row = req'[s].row => r = s
    <2>1. /\ Revoking(s) \/ GetByTokenHash(s)
          /\ req'[s].row = req[s].row /\ Session(s) \notin raced
      BY <1>1, <1>5, Places
    <2>2. req[s].row \in DOMAIN tokens
      BY <2>1, AtIs, SessionType DEF Revoking, GetByTokenHash, On
    <2>3. ~ tokens[req[s].row].revoked
      <3>1. CASE Revoking(s)
        BY <2>1, <3>1 DEF RotationInv, RevokesAlone
      <3>2. CASE GetByTokenHash(s)
        BY <1>5, <3>2, Acts DEF Revoking, On, Valid
      <3> QED  BY <2>1, <3>1, <3>2
    <2>4. ASSUME NEW r \in Slots, r # s, Revoking(r)', req'[r].row = req'[s].row PROVE FALSE
      <3>1. Session(r)' = Session(s)'
        BY <2>4 DEF Session
      <3>2. Revoking(s) /\ Revoking(r)
        BY <1>4, <1>5, <2>1, <2>4, <3>1, Places
      <3>3. req[r].row = req[s].row
        BY <1>5, <2>4, Places
      <3> QED  BY <2>1, <2>4, <3>2, <3>3 DEF RotationInv, RevokesAlone
    <2> QED  BY <1>0, <2>1, <2>2, <2>3, <2>4
  <1>6. ASSUME NEW s \in Slots PROVE RevokesAlone(s)'
    BY <1>5 DEF RevokesAlone
  <1> QED  BY <1>3, <1>6 DEF RotationInv

\* A request that another one's step leaves alone.
LEMMA Unmoved ==
    ASSUME TypeInv, [Next]_vars, NEW r \in Slots, req'[r] = req[r]
    PROVE  /\ \A n : IsRotating(r, n)' <=> IsRotating(r, n)
           /\ Revoking(r)' <=> Revoking(r)
           /\ Revoking(r) => Session(r)' = Session(r)
  <1>1. CASE req[r] = Idle
    BY <1>1, IdleSlot, IdleSlotNext
  <1>2. CASE req[r] # Idle
    BY <1>2, Waits DEF Same
  <1> QED  BY <1>1, <1>2

\* The right moves from the token to the Refresh, or a Logout takes it away.
LEMMA RevokeRotation ==
    ASSUME TypeInv, RotationInv, [Next]_vars, NEW s \in Slots, Revoke(s)
    PROVE  RotationInv'
  <1>0. Tables /\ TypeInv' /\ raced' = raced /\ cut' = cut
    BY TypeParts, TypeStep DEF Revoke
  <1>1. PICK k : k = req[s].row
    OBVIOUS
  <1>2. PICK N : N = Session(s)
    OBVIOUS
  <1>3. /\ DOMAIN tokens' = DOMAIN tokens /\ k \in DOMAIN tokens /\ N \in Sessions
        /\ tokens[k].session = N
        /\ \A t \in DOMAIN tokens : t # k => tokens'[t] = tokens[t]
        /\ \A t \in DOMAIN tokens : tokens'[t].session = tokens[t].session
    BY <1>1, <1>2, RevokeType DEF Session
  <1>4. tokens'[k].revoked
    <2>1. tokens[k] \in Token
      BY <1>0, <1>3, Rows
    <2> QED  BY <1>1, <2>1, RevokeType DEF Token
  <1>5. On(s, "Refresh", 2) \/ On(s, "Logout", 2)
    BY AtIs DEF Revoke
  <1>6. \A n : ~ IsRotating(s, n)
    BY <1>5 DEF IsRotating, On
  <1>7. ASSUME NEW r \in Slots, r # s
        PROVE  /\ \A n : IsRotating(r, n)' <=> IsRotating(r, n)
               /\ Revoking(r)' <=> Revoking(r)
               /\ Revoking(r) => Session(r)' = Session(r)
               /\ req'[r].row = req[r].row
    BY <1>7, Acts, Unmoved
  <1>8. ~ Revoking(s)'
    BY <1>5, Acts DEF Revoking, On
  <1>9. ASSUME NEW n
        PROVE  IsRotating(s, n)' <=> n = N /\ On(s, "Refresh", 2)
    <2>1. CASE On(s, "Refresh", 2)
      <3>1. On(s, "Refresh", 3)' /\ req'[s].row = k
        BY <1>1, <2>1, Acts DEF On
      <3>2. Session(s)' = N
        BY <1>3, <3>1 DEF Session
      <3> QED  BY <2>1, <3>1, <3>2 DEF IsRotating
    <2>2. CASE On(s, "Logout", 2)
      <3>1. req'[s] = Idle /\ ~ On(s, "Refresh", 2)
        BY <2>2, Acts DEF On
      <3> QED  BY <3>1, IdleSlotNext
    <2> QED  BY <1>5, <2>1, <2>2
  <1>10. Sessions' = Sessions
    <2>1. DOMAIN tokens = Sessions
      BY <1>0, Rows
    <2>2. (DOMAIN tokens = Sessions)'
      BY <1>0, TypePartsNext, Rows, PTL
    <2> QED  BY <1>3, <2>1, <2>2
  <1>11. /\ On(s, "Refresh", 2) => ended' = ended
         /\ On(s, "Logout", 2) => ended' = ended \cup {N}
    BY <1>2 DEF Revoke, On
  <1>12. ASSUME NEW n \in Sessions', n \notin raced', n # N PROVE Rotation(n)'
    <2>1. Rotation(n)
      BY <1>0, <1>10, <1>12 DEF RotationInv
    <2>2. ASSUME NEW t PROVE IsLive(t, n)' <=> IsLive(t, n)
      BY <1>3, <1>12 DEF IsLive
    <2>3. \A t : IsLive(t, n) => t \in Sessions'
      BY <1>0, <1>10, Rows DEF IsLive
    <2>4. \A r \in Slots : IsRotating(r, n)' <=> IsRotating(r, n)
      BY <1>6, <1>7, <1>9, <1>12
    <2>5. n \in ended' <=> n \in ended
      BY <1>5, <1>11, <1>12
    <2>6. (\E t \in Sessions : tokens[t].session = n)' => \E t \in Sessions : tokens[t].session = n
      BY <1>0, <1>3, <1>10, Rows
    <2> QED  BY <1>0, <2>1, <2>2, <2>3, <2>4, <2>5, <2>6, KeepRotation
  <1>13. ASSUME N \notin raced PROVE Rotation(N)'
    <2>1. Rotation(N) /\ ~ tokens[k].revoked
      BY <1>1, <1>2, <1>3, <1>5, <1>13 DEF RotationInv, RevokesAlone, Revoking
    <2>2. IsLive(k, N) /\ k \in Sessions
      BY <1>0, <1>3, <2>1, Rows DEF IsLive
    <2>3. \A t : ~ IsLive(t, N)'
      <3>1. ASSUME NEW t, IsLive(t, N)' PROVE FALSE
        <4>1. t # k /\ IsLive(t, N) /\ t \in Sessions
          BY <1>0, <1>3, <1>4, <3>1, Rows DEF IsLive
        <4> QED  BY <2>1, <2>2, <4>1 DEF Rotation
      <3> QED  BY <3>1
    <2>4. \A r \in Slots : r # s => ~ IsRotating(r, N)'
      BY <1>7, <2>1, <2>2 DEF Rotation
    <2>5. N \notin ended
      BY <2>1, <2>2 DEF Rotation
    <2>6. \A r \in Slots : IsRotating(r, N)' <=> r = s /\ On(s, "Refresh", 2)
      BY <1>9, <2>4
    <2>7. CASE On(s, "Refresh", 2)
      BY <1>11, <2>3, <2>5, <2>6, <2>7 DEF Rotation
    <2>8. CASE On(s, "Logout", 2)
      <3>1. N \in ended' /\ ~ On(s, "Refresh", 2)
        BY <1>11, <2>8 DEF On
      <3> QED  BY <2>3, <2>6, <3>1 DEF Rotation
    <2> QED  BY <1>5, <2>7, <2>8
  <1>14. ASSUME NEW n \in Sessions', n \notin raced' PROVE Rotation(n)'
    BY <1>0, <1>12, <1>13, <1>14
  <1>15. ASSUME NEW r \in Slots, Revoking(r)', Session(r)' \notin raced'
         PROVE  /\ ~ tokens'[req'[r].row].revoked
                /\ \A q \in Slots : Revoking(q)' /\ req'[q].row = req'[r].row => q = r
    <2>1. r # s /\ Revoking(r) /\ Session(r) \notin raced /\ req'[r].row = req[r].row
      BY <1>0, <1>7, <1>8, <1>15
    <2>2. /\ ~ tokens[req[r].row].revoked
          /\ \A q \in Slots : Revoking(q) /\ req[q].row = req[r].row => q = r
      BY <2>1 DEF RotationInv, RevokesAlone
    <2>3. req[r].row # k
      BY <1>1, <1>5, <2>1, <2>2 DEF Revoking
    <2>4. req[r].row \in DOMAIN tokens
      BY <2>1, SessionType DEF Revoking, On
    <2>5. ~ tokens'[req'[r].row].revoked
      BY <1>3, <2>1, <2>2, <2>3, <2>4
    <2>6. \A q \in Slots : Revoking(q)' /\ req'[q].row = req'[r].row => q = r
      BY <1>7, <1>8, <2>1, <2>2
    <2> QED  BY <2>5, <2>6
  <1>16. ASSUME NEW r \in Slots PROVE RevokesAlone(r)'
    BY <1>15 DEF RevokesAlone
  <1> QED  BY <1>14, <1>16 DEF RotationInv

\* The right moves from the Refresh to its new token, or begins with a Login.
LEMMA PairRotation ==
    ASSUME TypeInv, RotationInv, [Next]_vars, NEW s \in Slots, generateTokenPair(s)
    PROVE  RotationInv'
  <1>0. Tables /\ TypeInv' /\ raced' = raced /\ cut' = cut /\ ended' = ended
    BY TypeParts, TypeStep DEF generateTokenPair, history
  <1>1. PICK m : m = Len(tokens) + 1
    OBVIOUS
  <1>2. /\ m \in Nat /\ DOMAIN tokens = Sessions /\ DOMAIN tokens' = Sessions \cup {m}
        /\ m \notin Sessions
        /\ \A t \in DOMAIN tokens : tokens'[t] = tokens[t]
        /\ ~ tokens'[m].revoked
    <2>1. PICK n \in Nat : n = Len(tokens)
      BY PairType
    <2>2. DOMAIN tokens = 1..n /\ DOMAIN tokens' = 1..(n + 1)
      BY <2>1, PairType
    <2>3. 1..(n + 1) = 1..n \cup {n + 1} /\ n + 1 \notin 1..n
      OBVIOUS
    <2> QED  BY <1>1, <2>1, <2>2, <2>3, PairType DEF Sessions
  <1>3. Sessions' = Sessions \cup {m}
    <2>1. (DOMAIN tokens = Sessions)'
      BY <1>0, TypePartsNext, Rows, PTL
    <2> QED  BY <1>2, <2>1
  <1>4. PICK N : N = tokens'[m].session
    OBVIOUS
  <1>5. \/ On(s, "Login", 2) /\ N = m
        \/ On(s, "Refresh", 3) /\ N = Session(s) /\ N \in Sessions
    <2>1. On(s, "Refresh", 3) => Session(s) \in Sessions
      BY SessionType DEF On
    <2> QED  BY <1>1, <1>4, <2>1, PairType
  <1>6. /\ ~ Revoking(s)' /\ (\A n : ~ IsRotating(s, n)') /\ ~ Revoking(s)
        /\ \A n : IsRotating(s, n) <=> On(s, "Refresh", 3) /\ n = N
    <2>1. req'[s] = Idle
      BY Acts
    <2>2. ~ Revoking(s)
      BY <1>5 DEF Revoking, On
    <2>3. ASSUME NEW n PROVE IsRotating(s, n) <=> On(s, "Refresh", 3) /\ n = N
      BY <1>5 DEF IsRotating, On
    <2> QED  BY <2>1, <2>2, <2>3, IdleSlotNext
  <1>7. ASSUME NEW r \in Slots, r # s
        PROVE  /\ \A n : IsRotating(r, n)' <=> IsRotating(r, n)
               /\ Revoking(r)' <=> Revoking(r)
               /\ Revoking(r) => Session(r)' = Session(r)
               /\ req'[r].row = req[r].row
    BY <1>7, Acts, Unmoved
  <1>8. ASSUME NEW n, NEW t PROVE IsLive(t, n)' <=> IsLive(t, n) \/ (t = m /\ n = N)
    BY <1>2, <1>4 DEF IsLive
  <1>9. ASSUME NEW r \in Slots, NEW n, IsRotating(r, n) PROVE n \in Sessions
    BY <1>9, SessionType DEF IsRotating, On
  <1>10. \A t \in Sessions : tokens[t].session \in Sessions
    BY <1>0, Rows DEF Token
  <1>11. \A t, n : IsLive(t, n) => t \in Sessions /\ n \in Sessions
    BY <1>2, <1>10 DEF IsLive
  <1>12. ASSUME NEW n \in Sessions, n \notin raced', n # N PROVE Rotation(n)'
    <2>1. Rotation(n)
      BY <1>0, <1>12 DEF RotationInv
    <2>2. \A t : IsLive(t, n)' <=> IsLive(t, n)
      BY <1>8, <1>12
    <2>3. \A t : IsLive(t, n) => t \in Sessions'
      BY <1>3, <1>11
    <2>4. \A r \in Slots : IsRotating(r, n)' <=> IsRotating(r, n)
      BY <1>6, <1>7, <1>12
    <2>5. (\E t \in Sessions : tokens[t].session = n)' => \E t \in Sessions : tokens[t].session = n
      BY <1>2, <1>3, <1>4, <1>12
    <2> QED  BY <1>0, <2>1, <2>2, <2>3, <2>4, <2>5, KeepRotation
  <1>13. ASSUME N \notin raced' PROVE Rotation(N)'
    <2>1. (\A t : ~ IsLive(t, N)) /\ N \notin ended /\ \A r \in Slots : ~ IsRotating(r, N)'
      <3>1. CASE On(s, "Refresh", 3)
        <4>1. Rotation(N) /\ IsRotating(s, N)
          BY <1>0, <1>5, <1>6, <1>13, <3>1 DEF RotationInv, On
        <4>2. (\A t : ~ IsLive(t, N)) /\ N \notin ended
          BY <1>11, <4>1 DEF Rotation
        <4>3. \A r \in Slots : IsRotating(r, N) => r = s
          BY <4>1 DEF Rotation
        <4> QED  BY <1>6, <1>7, <4>2, <4>3
      <3>2. CASE On(s, "Login", 2)
        <4>1. N \notin Sessions
          BY <1>2, <1>5, <3>2 DEF On
        <4>2. N \notin ended
          BY <1>0, <4>1 DEF Tables
        <4> QED  BY <1>6, <1>7, <1>9, <1>11, <4>1, <4>2
      <3> QED  BY <1>5, <3>1, <3>2
    <2>2. \A t : IsLive(t, N)' <=> t = m
      BY <1>8, <2>1
    <2>3. m \in Sessions' /\ N \notin ended'
      BY <1>0, <1>3, <2>1
    <2> QED  BY <2>1, <2>2, <2>3 DEF Rotation
  <1>14. ASSUME m # N PROVE Rotation(m)'
    <2>1. (\A t : ~ IsLive(t, m)') /\ \A r \in Slots : ~ IsRotating(r, m)'
      BY <1>2, <1>6, <1>7, <1>8, <1>9, <1>11, <1>14
    <2>2. \A t \in Sessions' : tokens'[t].session # m
      BY <1>2, <1>3, <1>4, <1>10, <1>14
    <2> QED  BY <2>1, <2>2 DEF Rotation
  <1>15. ASSUME NEW n \in Sessions', n \notin raced' PROVE Rotation(n)'
    BY <1>3, <1>12, <1>13, <1>14, <1>15
  <1>16. ASSUME NEW r \in Slots, Revoking(r)', Session(r)' \notin raced'
         PROVE  /\ ~ tokens'[req'[r].row].revoked
                /\ \A q \in Slots : Revoking(q)' /\ req'[q].row = req'[r].row => q = r
    <2>1. r # s /\ Revoking(r) /\ Session(r) \notin raced /\ req'[r].row = req[r].row
      BY <1>0, <1>6, <1>7, <1>16
    <2>2. req[r].row \in DOMAIN tokens
      BY <2>1, SessionType DEF Revoking, On
    <2> QED  BY <1>2, <1>6, <1>7, <2>1, <2>2 DEF RotationInv, RevokesAlone
  <1>17. ASSUME NEW r \in Slots PROVE RevokesAlone(r)'
    BY <1>16 DEF RevokesAlone
  <1> QED  BY <1>15, <1>17 DEF RotationInv

LEMMA RotationStep == TypeInv /\ RotationInv /\ [Next]_vars => RotationInv'
  BY QuietRotation, RevokeRotation, PairRotation

LEMMA RotationHolds == Spec => []RotationInv
  <1>1. Init => RotationInv
    BY DEF Init, RotationInv, Rotation, RevokesAlone, Revoking, On, IsLive, IsRotating, Sessions
  <1> QED  BY TypeInvHolds, RotationStep, <1>1, PTL DEF Spec

\* The sets of the properties, place by place.
LEMMA Sets ==
    ASSUME TypeInv
    PROVE  /\ \A n : Live(n) = {t \in Sessions : IsLive(t, n)}
           /\ \A n : Rotating(n) = {s \in Slots : IsRotating(s, n)}
  <1>1. DOMAIN tokens = Sessions
    BY TypeParts, Rows
  <1>2. \A s \in Slots : At(s, "generateTokenPair") /\ req[s].op = "Refresh" <=> On(s, "Refresh", 3)
    BY AtIs DEF On
  <1> QED  BY <1>1, <1>2 DEF Live, IsLive, Rotating, IsRotating, Before

\* OneToken of module Accounts, for any number of sessions and requests: two requests
\* that both go on with one session have found its token valid at the same time.
THEOREM OneTokenHolds == Spec => []OneToken
  <1>1. ASSUME TypeInv, RotationInv PROVE OneToken
    <2>1. \A t \in Sessions : tokens[t].session \in Sessions
      BY <1>1, TypeParts, Rows DEF Token
    <2>2. ASSUME NEW n \in {tokens[t].session : t \in DOMAIN tokens} \ (ended \cup raced \cup cut)
          PROVE  Cardinality(Live(n)) + Cardinality(Rotating(n)) = 1
      <3>1. n \in Sessions /\ \E t \in Sessions : tokens[t].session = n
        BY <1>1, <2>1, TypeParts, Rows
      <3>2. Rotation(n)
        BY <1>1, <3>1 DEF RotationInv
      <3>3. /\ Live(n) = {t \in Sessions : IsLive(t, n)}
            /\ Rotating(n) = {s \in Slots : IsRotating(s, n)}
        BY <1>1, Sets
      <3>a. Cardinality({}) = 0 /\ \A x : Cardinality({x}) = 1
        BY FS_EmptySet, FS_Singleton
      <3>4. CASE \E t \in Sessions : IsLive(t, n)
        <4>1. PICK t \in Sessions : IsLive(t, n)
          BY <3>4
        <4>2. Live(n) = {t} /\ Rotating(n) = {}
          BY <3>2, <3>3, <4>1 DEF Rotation
        <4> QED  BY <3>a, <4>2
      <3>5. CASE (\E s \in Slots : IsRotating(s, n)) /\ ~ \E t \in Sessions : IsLive(t, n)
        <4>1. PICK s \in Slots : IsRotating(s, n)
          BY <3>5
        <4>2. Live(n) = {} /\ Rotating(n) = {s}
          BY <3>2, <3>3, <3>5, <4>1 DEF Rotation
        <4> QED  BY <3>a, <4>2
      <3> QED  BY <3>1, <3>2, <3>4, <3>5 DEF Rotation
    <2> QED  BY <2>2 DEF OneToken
  <1> QED  BY TypeInvHolds, RotationHolds, <1>1, PTL

\* LogoutIsFinal of module Accounts: a Logout that did not race takes the last right to
\* go on with its session.
THEOREM LogoutEnds == Spec => []LogoutIsFinal
  <1>1. ASSUME TypeInv, RotationInv PROVE LogoutIsFinal
    <2>1. ended \subseteq Sessions
      BY <1>1, TypeParts DEF Tables
    <2> QED  BY <1>1, <2>1, Sets DEF LogoutIsFinal, RotationInv, Rotation
  <1> QED  BY TypeInvHolds, RotationHolds, <1>1, PTL

-----------------------------------------------------------------------------
(* Duplicates *)

\* Two enabled apps of one user.
Pair(a, b) == a # b /\ apps[a].on /\ apps[b].on /\ apps[a].user = apps[b].user

SameName(a, b) == apps[a].name = apps[b].name

SameURL(a, b) == apps[a].url # None /\ apps[a].url = apps[b].url

Overlap(a, b) == a \in apps[b].during \/ b \in apps[a].during

\* What checkDuplicate found: an app with the name, or with the URL, was written later.
NameChecked(s) ==
    (\E op \in {"Create", "Update"} : On(s, op, 2) \/ On(s, op, 3)) /\ req[s].name # None =>
        \A a \in Others(s) : apps[a].name # req[s].name \/ a \in req[s].during

URLChecked(s) ==
    (\E op \in {"Create", "Update"} : On(s, op, 3)) /\ req[s].url # None =>
        \A a \in Others(s) : apps[a].url # req[s].url \/ a \in req[s].during

CheckedInv ==
    /\ \A a, b \in DOMAIN apps : Pair(a, b) /\ (SameName(a, b) \/ SameURL(a, b)) => Overlap(a, b)
    /\ \A s \in Slots : NameChecked(s) /\ URLChecked(s)

\* The step of a request that has come to a statement of an app.
LEMMA AppStatement ==
    ASSUME TypeInv, NEW r \in Slots, AuthService(r) \/ AppService(r)
    PROVE  /\ On(r, "Create", 1) \/ On(r, "Update", 1) => NameExists(r)
           /\ On(r, "Create", 2) \/ On(r, "Update", 2) => CallbackURLExists(r)
  <1>1. ASSUME NEW op, NEW k, On(r, op, k), NEW o, NEW j, On(r, o, j) PROVE o = op /\ j = k
    BY <1>1 DEF On
  <1>2. CASE On(r, "Create", 1) \/ On(r, "Update", 1)
    BY <1>1, <1>2, AtIs
       DEF AuthService, AppService, GetByEmail, CreateUser, CreateLink, Send, GetByToken,
           UpdateStatus, MarkUsed, GetByTokenHash, Revoke, generateTokenPair,
           CallbackURLExists, Create, Update, Delete
  <1>3. CASE On(r, "Create", 2) \/ On(r, "Update", 2)
    BY <1>1, <1>3, AtIs
       DEF AuthService, AppService, GetByEmail, CreateUser, CreateLink, Send, GetByToken,
           UpdateStatus, MarkUsed, GetByTokenHash, Revoke, generateTokenPair, NameExists,
           Create, Update, Delete
  <1> QED  BY <1>2, <1>3

\* Request s writes app w.
Writes(s, w) == (Create(s) /\ w = Len(apps) + 1) \/ (Update(s) /\ w = req[s].row)

\* How a step changes table apps: not at all, an app is disabled, or a request writes
\* app w, which the others note.
LEMMA AppsStep ==
    ASSUME TypeInv, [Next]_vars
    PROVE  \/ UNCHANGED apps
           \/ /\ DOMAIN apps' = DOMAIN apps
              /\ \A a \in DOMAIN apps : /\ apps'[a].user = apps[a].user
                                        /\ apps'[a].name = apps[a].name
                                        /\ apps'[a].url = apps[a].url
                                        /\ apps'[a].during = apps[a].during
                                        /\ apps'[a].on => apps[a].on
           \/ \E s \in Slots : \E w : Wrote(s, w) /\ Writes(s, w)
  <1>1. ASSUME NEW s \in Slots, Create(s)
        PROVE  \E w : Wrote(s, w) /\ Writes(s, w)
    BY <1>1, CreateType DEF Writes
  <1>2. ASSUME NEW s \in Slots, Update(s)
        PROVE  \E w : Wrote(s, w) /\ Writes(s, w)
    BY <1>2 DEF Update, Writes
  <1> QED  BY OneTable, DeleteType, <1>1, <1>2

\* The row that a write leaves behind, against those it does not touch.
AfterWrite(s, w) ==
    /\ DOMAIN apps' = DOMAIN apps \cup {w}
    /\ \A a \in DOMAIN apps : a # w => apps'[a] = apps[a]
    /\ apps'[w].user = req[s].user
    /\ req[s].during \subseteq apps'[w].during
    /\ \A a \in DOMAIN apps : a # w => a # req[s].row
    /\ On(s, "Create", 3) \/ On(s, "Update", 3)
    /\ \/ apps'[w].name = req[s].name /\ req[s].name # None
       \/ Update(s) /\ apps'[w].name = apps[w].name
    /\ \/ apps'[w].url = req[s].url
       \/ Update(s) /\ apps'[w].url = apps[w].url
    /\ Update(s) => /\ w \in DOMAIN apps /\ apps'[w].on = apps[w].on
                    /\ apps[w].user = apps'[w].user
                    /\ apps[w].during \subseteq apps'[w].during

LEMMA Written ==
    ASSUME TypeInv, NEW s \in Slots, NEW w, Writes(s, w)
    PROVE  AfterWrite(s, w)
  <1>0. RequestsOK
    BY TypeParts
  <1>1. CASE Create(s) /\ w = Len(apps) + 1
    <2>1. PICK n \in Nat : n = Len(apps)
      BY <1>1, CreateType
    <2>2. /\ DOMAIN apps = 1..n /\ DOMAIN apps' = 1..(n + 1) /\ w = n + 1
          /\ req[s].row = 0 /\ On(s, "Create", 3)
      BY <1>1, <2>1, CreateType
    <2>3. 1..(n + 1) = 1..n \cup {n + 1} /\ 0 \notin 1..n
      OBVIOUS
    <2>4. req[s].name \in Names
      BY <1>0, <2>2 DEF RequestsOK, RequestOK, RowOK, On
    <2>5. /\ apps'[w].user = req[s].user /\ apps'[w].name = req[s].name
          /\ apps'[w].url = req[s].url /\ apps'[w].during = req[s].during
          /\ \A a \in DOMAIN apps : apps'[a] = apps[a]
      <3>1. PICK v : v = [user |-> req[s].user, name |-> req[s].name, url |-> req[s].url,
                          on |-> TRUE, during |-> req[s].during]
        OBVIOUS
      <3>2. apps'[w] = v /\ \A a \in DOMAIN apps : apps'[a] = apps[a]
        BY <1>1, <2>1, <2>2, <3>1, CreateType
      <3> QED  BY <3>1, <3>2
    <2>6. ~ Update(s)
      BY <2>2, AtIs DEF Update, On
    <2> QED  BY <2>2, <2>3, <2>4, <2>5, <2>6, AccountsAssumption DEF AfterWrite
  <1>2. CASE Update(s) /\ w = req[s].row
    <2>1. \/ req[s].name = None /\ apps'[w].name = apps[w].name
          \/ req[s].name # None /\ apps'[w].name = req[s].name
      BY <1>2, UpdateType
    <2>2. \/ req[s].url = None /\ apps'[w].url = apps[w].url
          \/ req[s].url # None /\ apps'[w].url = req[s].url
      BY <1>2, UpdateType
    <2>3. /\ w \in DOMAIN apps /\ DOMAIN apps' = DOMAIN apps /\ On(s, "Update", 3)
          /\ \A a \in DOMAIN apps : a # w => apps'[a] = apps[a]
          /\ apps'[w].user = apps[w].user /\ apps[w].user = req[s].user
          /\ apps'[w].on = apps[w].on
          /\ apps'[w].during = apps[w].during \cup req[s].during
      BY <1>2, UpdateType
    <2> QED  BY <1>2, <2>1, <2>2, <2>3 DEF AfterWrite
  <1> QED  BY <1>1, <1>2 DEF Writes

\* A check stays true while others write: what they write, they are noted for.
LEMMA CheckStays ==
    ASSUME TypeInv, [Next]_vars, NEW r \in Slots, req[r] # Idle, req'[r] # Idle,
           Same(req[r], req'[r]), NEW a \in Others(r)', a \notin req'[r].during
    PROVE  a \in Others(r) /\ apps'[a].name = apps[a].name /\ apps'[a].url = apps[a].url
  <1>0. /\ a \in DOMAIN apps' /\ apps'[a].on /\ apps'[a].user = req'[r].user
        /\ a # req'[r].row /\ req'[r].row = req[r].row /\ req'[r].user = req[r].user
    BY DEF Others, Same
  <1>1. CASE UNCHANGED apps
    BY <1>0, <1>1 DEF Others
  <1>2. CASE /\ DOMAIN apps' = DOMAIN apps
             /\ \A i \in DOMAIN apps : /\ apps'[i].user = apps[i].user
                                       /\ apps'[i].name = apps[i].name
                                       /\ apps'[i].url = apps[i].url
                                       /\ apps'[i].during = apps[i].during
                                       /\ apps'[i].on => apps[i].on
    BY <1>0, <1>2 DEF Others
  <1>3. ASSUME NEW s \in Slots, NEW w, Wrote(s, w), Writes(s, w)
        PROVE  a \in Others(r) /\ apps'[a] = apps[a]
    <2>1. req'[r] = [req[r] EXCEPT !.during = @ \cup {w}] /\ req[r] = [req[r] EXCEPT !.at = @]
      <3>1. RequestOK(req[r])
        BY TypeParts DEF RequestsOK
      <3> QED  BY <1>3, <3>1 DEF Wrote, RequestOK
    <2>2. w \in req'[r].during
      <3>1. PICK p : p = req[r] /\ RequestOK(p)
        BY TypeParts DEF RequestsOK
      <3> QED  BY <2>1, <3>1 DEF RequestOK
    <2>3. a # w
      BY <2>2
    <2>4. /\ DOMAIN apps' = DOMAIN apps \cup {w}
          /\ \A i \in DOMAIN apps : i # w => apps'[i] = apps[i]
      <3>1. AfterWrite(s, w)
        BY <1>3, Written
      <3> QED  BY <3>1 DEF AfterWrite
    <2>5. a \in DOMAIN apps /\ apps'[a] = apps[a]
      BY <1>0, <2>3, <2>4
    <2> QED  BY <1>0, <2>5 DEF Others
  <1> QED  BY <1>1, <1>2, <1>3, AppsStep

\* Both checks of a request, after any step.
LEMMA ChecksStep ==
    ASSUME TypeInv, CheckedInv, [Next]_vars, NEW r \in Slots
    PROVE  NameChecked(r)' /\ URLChecked(r)'
  <1>0. RequestsOK
    BY TypeParts
  <1>1. PICK p : p = req[r]
    OBVIOUS
  <1>2. PICK q : q = req'[r]
    OBVIOUS
  <1>3. Moved(r, p, q)
    BY <1>1, <1>2, Moves
  <1>4. \A op, k : On(r, op, k) <=> p # Idle /\ p.op = op /\ p.at = k
    BY <1>1 DEF On
  <1>5. ASSUME NEW op, NEW k PROVE On(r, op, k)' <=> q # Idle /\ q.op = op /\ q.at = k
    BY <1>2 DEF On
  <1>6. NameChecked(r) /\ URLChecked(r)
    BY DEF CheckedInv
  <1>7. CASE p # Idle /\ q # Idle /\ Same(p, q)
    <2>1. ASSUME NEW a \in Others(r)', a \notin q.during
          PROVE  a \in Others(r) /\ apps'[a].name = apps[a].name /\ apps'[a].url = apps[a].url
                 /\ a \notin p.during
      BY <1>1, <1>2, <1>7, <2>1, CheckStays DEF Same
    <2>2. ASSUME NEW op, NEW k PROVE On(r, op, k)' <=> On(r, op, k)
      BY <1>4, <1>5, <1>7 DEF Same
    <2>3. q.name = p.name /\ q.url = p.url
      BY <1>7 DEF Same
    <2>4. NameChecked(r)'
      BY <1>1, <1>2, <1>6, <2>1, <2>2, <2>3 DEF NameChecked
    <2>5. URLChecked(r)'
      BY <1>1, <1>2, <1>6, <2>1, <2>2, <2>3 DEF URLChecked
    <2> QED  BY <2>4, <2>5
  <1>8. CASE p # Idle /\ q # Idle /\ Advance(p, q) /\ (AuthService(r) \/ AppService(r))
    <2>0. RequestOK(p)
      BY <1>0, <1>1, <1>8 DEF RequestsOK
    <2>1. /\ p.op = q.op /\ p.user = q.user /\ q.at = p.at + 1 /\ p.at \in 1..4
          /\ p.name = q.name /\ p.url = q.url /\ p.during = q.during
          /\ p.op \in {"Create", "Update"} => p.row = q.row
      BY <1>8, <2>0 DEF Advance, RequestOK
    <2>2. ASSUME NEW op \in {"Create", "Update"}, On(r, op, 2)'
          PROVE  NameExists(r) /\ On(r, op, 1)
      <3>1. q.op = op /\ q.at = 2
        BY <1>5, <2>2
      <3>2. p.op = op /\ p.at = 1
        BY <2>1, <3>1
      <3>3. On(r, op, 1)
        BY <1>4, <1>8, <3>2
      <3> QED  BY <1>8, <3>3, AppStatement
    <2>3. ASSUME NEW op \in {"Create", "Update"}, On(r, op, 3)'
          PROVE  CallbackURLExists(r) /\ On(r, op, 2)
      <3>1. q.op = op /\ q.at = 3
        BY <1>5, <2>3
      <3>2. p.op = op /\ p.at = 2
        BY <2>1, <3>1
      <3>3. On(r, op, 2)
        BY <1>4, <1>8, <3>2
      <3> QED  BY <1>8, <3>3, AppStatement
    <2>4. ASSUME NameExists(r) \/ CallbackURLExists(r), p.op \in {"Create", "Update"}
          PROVE  Others(r)' = Others(r) /\ apps' = apps
      <3>1. apps' = apps
        BY <2>4 DEF NameExists, CallbackURLExists, Check
      <3> QED  BY <1>1, <1>2, <2>1, <2>4, <3>1 DEF Others
    <2>5. Return(r) => q = Idle
      BY <1>0, <1>2 DEF Return, RequestsOK
    <2>6. NameExists(r) => p.name = None \/ \A a \in Others(r) : apps[a].name # p.name
      BY <1>1, <1>8, <2>5 DEF NameExists, Check
    <2>7. CallbackURLExists(r) => p.url = None \/ \A a \in Others(r) : apps[a].url # p.url
      BY <1>1, <1>8, <2>5 DEF CallbackURLExists, Check
    <2>8. ASSUME NEW op \in {"Create", "Update"}, On(r, op, 2)' \/ On(r, op, 3)', q.name # None,
                 NEW a \in Others(r)'
          PROVE  apps'[a].name # q.name \/ a \in q.during
      <3>1. p.op = op
        BY <1>4, <2>2, <2>3, <2>8
      <3>2. CASE On(r, op, 2)'
        BY <2>1, <2>2, <2>4, <2>6, <2>8, <3>1, <3>2
      <3>3. CASE On(r, op, 3)'
        BY <1>1, <1>6, <2>1, <2>3, <2>4, <2>8, <3>1, <3>3 DEF NameChecked
      <3> QED  BY <2>8, <3>2, <3>3
    <2>9. ASSUME NEW op \in {"Create", "Update"}, On(r, op, 3)', q.url # None,
                 NEW a \in Others(r)'
          PROVE  apps'[a].url # q.url \/ a \in q.during
      BY <1>4, <2>1, <2>3, <2>4, <2>7, <2>9
    <2>10. NameChecked(r)'
      BY <1>2, <2>8 DEF NameChecked
    <2>11. URLChecked(r)'
      BY <1>2, <2>9 DEF URLChecked
    <2> QED  BY <2>10, <2>11
  <1>9. CASE q = Idle \/ (q.at = 1 /\ p = Idle)
    <2>1. ASSUME NEW op PROVE ~ On(r, op, 2)' /\ ~ On(r, op, 3)'
      BY <1>5, <1>9
    <2> QED  BY <2>1 DEF NameChecked, URLChecked
  <1> QED  BY <1>3, <1>7, <1>8, <1>9 DEF Moved

\* Two apps that are duplicates after a write.
LEMMA WriteStep ==
    ASSUME TypeInv, CheckedInv, NEW s \in Slots, NEW w,
           Writes(s, w),
           NEW b \in DOMAIN apps', Pair(w, b)', (SameName(w, b) \/ SameURL(w, b))'
    PROVE  Overlap(w, b)'
  <1>0. /\ DOMAIN apps' = DOMAIN apps \cup {w}
        /\ \A a \in DOMAIN apps : a # w => apps'[a] = apps[a] /\ a # req[s].row
        /\ apps'[w].user = req[s].user
    <2>1. AfterWrite(s, w)
      BY Written
    <2> QED  BY <2>1 DEF AfterWrite
  <1>1. /\ b # w /\ b \in DOMAIN apps /\ apps'[b] = apps[b]
        /\ apps[b].on /\ apps[b].user = req[s].user /\ b # req[s].row
    BY <1>0 DEF Pair
  <1>2. b \in Others(s) /\ NameChecked(s) /\ URLChecked(s)
    BY <1>1 DEF Others, CheckedInv
  <1>3. (\E op \in {"Create", "Update"} : On(s, op, 3)) /\ req[s].during \subseteq apps'[w].during
    BY Written DEF AfterWrite
  <1>4. CASE SameName(w, b)'
    <2>1. apps'[w].name = apps[b].name
      BY <1>1, <1>4 DEF SameName
    <2>2. CASE apps'[w].name = req[s].name /\ req[s].name # None
      BY <1>2, <1>3, <2>1, <2>2 DEF NameChecked, Overlap
    <2>3. CASE Update(s) /\ apps'[w].name = apps[w].name
      <3>1. Pair(w, b) /\ SameName(w, b) /\ w \in DOMAIN apps
        BY <1>1, <2>1, <2>3, Written DEF AfterWrite, Pair, SameName
      <3> QED  BY <1>1, <2>3, <3>1, Written DEF AfterWrite, CheckedInv, Overlap
    <2> QED  BY <2>2, <2>3, Written DEF AfterWrite
  <1>5. CASE SameURL(w, b)'
    <2>1. apps'[w].url = apps[b].url /\ apps'[w].url # None
      BY <1>1, <1>5 DEF SameURL
    <2>2. CASE apps'[w].url = req[s].url
      BY <1>2, <1>3, <2>1, <2>2 DEF URLChecked, Overlap
    <2>3. CASE Update(s) /\ apps'[w].url = apps[w].url
      <3>1. Pair(w, b) /\ SameURL(w, b) /\ w \in DOMAIN apps
        BY <1>1, <2>1, <2>3, Written DEF AfterWrite, Pair, SameURL
      <3> QED  BY <1>1, <2>3, <3>1, Written DEF AfterWrite, CheckedInv, Overlap
    <2> QED  BY <2>2, <2>3, Written DEF AfterWrite
  <1> QED  BY <1>4, <1>5

LEMMA CheckedStep == TypeInv /\ CheckedInv /\ [Next]_vars => CheckedInv'
  <1> SUFFICES ASSUME TypeInv, CheckedInv, [Next]_vars PROVE CheckedInv'
    OBVIOUS
  <1>1. ASSUME NEW a \in DOMAIN apps', NEW b \in DOMAIN apps', Pair(a, b)',
               (SameName(a, b) \/ SameURL(a, b))'
        PROVE  Overlap(a, b)'
    <2>1. CASE UNCHANGED apps
      BY <1>1, <2>1 DEF CheckedInv, Pair, SameName, SameURL, Overlap
    <2>2. CASE /\ DOMAIN apps' = DOMAIN apps
               /\ \A i \in DOMAIN apps : /\ apps'[i].user = apps[i].user
                                         /\ apps'[i].name = apps[i].name
                                         /\ apps'[i].url = apps[i].url
                                         /\ apps'[i].during = apps[i].during
                                         /\ apps'[i].on => apps[i].on
      BY <1>1, <2>2 DEF CheckedInv, Pair, SameName, SameURL, Overlap
    <2>3. ASSUME NEW s \in Slots, NEW w,
                 Writes(s, w)
          PROVE  Overlap(a, b)'
      <3>1. CASE a = w
        BY <1>1, <2>3, <3>1, WriteStep
      <3>2. CASE b = w
        <4>1. Pair(b, a)' /\ (SameName(b, a) \/ SameURL(b, a))'
          BY <1>1 DEF Pair, SameName, SameURL
        <4>2. Overlap(b, a)'
          BY <1>1, <2>3, <3>2, <4>1, WriteStep
        <4> QED  BY <4>2 DEF Overlap
      <3>3. CASE a # w /\ b # w
        <4>0. /\ DOMAIN apps' = DOMAIN apps \cup {w}
              /\ \A i \in DOMAIN apps : i # w => apps'[i] = apps[i]
          <5>1. AfterWrite(s, w)
            BY <2>3, Written
          <5> QED  BY <5>1 DEF AfterWrite
        <4>1. a \in DOMAIN apps /\ b \in DOMAIN apps /\ apps'[a] = apps[a] /\ apps'[b] = apps[b]
          BY <1>1, <3>3, <4>0
        <4> QED  BY <1>1, <4>1 DEF CheckedInv, Pair, SameName, SameURL, Overlap
      <3> QED  BY <3>1, <3>2, <3>3
    <2> QED  BY <2>1, <2>2, <2>3, AppsStep
  <1> QED  BY <1>1, ChecksStep DEF CheckedInv

\* DuplicatesOverlap of module Accounts, for any number of apps and requests: there is
\* no duplicate that the check of checkDuplicate could have seen.
THEOREM DuplicatesAreRaces == Spec => []DuplicatesOverlap
  <1>1. Init => CheckedInv
    BY DEF Init, CheckedInv, NameChecked, URLChecked, On
  <1>2. CheckedInv => DuplicatesOverlap
    BY DEF CheckedInv, DuplicatesOverlap, Pair, SameName, SameURL, Overlap
  <1> QED  BY TypeInvHolds, CheckedStep, <1>1, <1>2, PTL DEF Spec
=============================================================================
