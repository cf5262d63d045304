------------------------------ MODULE Accounts ------------------------------
(***************************************************************************)
(* The accounts of the API: registration, e-mail verification and sessions *)
(* (internal/api/service/auth.go, pkg/jwt, and the stores user.go,         *)
(* email_verification.go and refresh_token.go), and the names and callback *)
(* URLs of a user's apps (internal/api/service/app.go, store/app.go).      *)
(*                                                                         *)
(* A request is a sequence of database statements without a transaction.   *)
(* Requests are served at the same time, and one may end between any two   *)
(* of its statements: the process dies, or the statement fails and the     *)
(* service returns its error.                                              *)
(*                                                                         *)
(* Left out: passwords (a login with a wrong one changes nothing), the     *)
(* status "disabled", which nothing sets, and RevokeAllByUser and the two  *)
(* DeleteExpired, which nothing calls.  A user is its e-mail address, the  *)
(* unique key of table users.  The read of getOwned is part of the next    *)
(* statement of its request: the owner of an app never changes.            *)
(***************************************************************************)
EXTENDS Naturals, FiniteSets, Sequences

CONSTANTS
    Users,       \* e-mail addresses
    Slots,       \* requests served at one time
    Names,       \* names of apps
    URLs,        \* their callback URLs
    None,        \* an empty field
    Ops,         \* the operations clients ask for
    MaxRequests, \* bound: requests
    FaultKinds,  \* the kinds of fault that can strike
    MaxFaults    \* bound: faults in a behaviour

ASSUME AccountsAssumption ==
    /\ None \notin Names \cup URLs
    /\ MaxRequests \in Nat /\ MaxFaults \in Nat
\* "abort": a request ends before its next statement; "answer": it is carried
\* out, and the answer or the mail gets lost.
ASSUME FaultAssumption == FaultKinds \subseteq {"abort", "answer"}

VARIABLES
    status,  \* status[u] in table users, "none" without a row
    links,   \* table email_verifications: user, used, expired, and (mailed) whether
             \* the user has got the link
    tokens,  \* table refresh_tokens: user, revoked, expired; the session it belongs
             \* to, and (known) whether a client has got it
    apps,    \* table apps: user, name, url, and whether it is enabled; and the apps
             \* written while the request was served that wrote name and url
    req,     \* req[s]: the request in slot s
    begun,   \* number of requests
    ended,   \* history: sessions a Logout has ended
    raced,   \* history: sessions with two requests that found one token valid
    cut,     \* history: sessions that lost a request after its Revoke
    faults   \* history: how many faults struck

auth    == << status, links, tokens >>
history == << ended, raced, cut >>
vars    == << auth, apps, req, begun, history, faults >>

UsedFirst == << "GetByToken", "MarkUsed", "UpdateStatus" >>   \* mutant: swapped

VerifyStatements == << "GetByToken", "UpdateStatus", "MarkUsed" >>

\* The statements of a request, in their order.
Statements(op) ==
    CASE op = "Register"     -> << "GetByEmail", "CreateUser", "CreateLink", "Send" >>
      [] op = "ResendVerify" -> << "GetByEmail", "CreateLink", "Send" >>
      [] op = "VerifyEmail"  -> VerifyStatements
      [] op = "Login"        -> << "GetByEmail", "generateTokenPair" >>
      [] op = "Refresh"      -> << "GetByTokenHash", "Revoke", "generateTokenPair" >>
      [] op = "Logout"       -> << "GetByTokenHash", "Revoke" >>
      [] op \in {"Create", "Update"} -> << "NameExists", "CallbackURLExists", op >>
      [] op = "Delete"       -> << "Delete" >>

Idle == [op |-> "idle"]

Init ==
    /\ status = [u \in Users |-> "none"]
    /\ links = << >> /\ tokens = << >> /\ apps = << >>
    /\ req = [s \in Slots |-> Idle] /\ begun = 0
    /\ ended = {} /\ raced = {} /\ cut = {} /\ faults = 0

Fault(kind) ==
    /\ kind \in FaultKinds
    /\ faults < MaxFaults
    /\ faults' = faults + 1

-----------------------------------------------------------------------------
(* A request *)

\* row: the link, token or app it is about, 0 for none.
Begin(s, op, u, row, n, l) ==
    /\ req[s] = Idle /\ begun < MaxRequests
    /\ op \in Ops
    /\ begun' = begun + 1
    /\ req' = [req EXCEPT ![s] = [op |-> op, user |-> u, row |-> row, name |-> n, url |-> l,
                                  at |-> 1, during |-> {}]]
    /\ UNCHANGED << auth, apps, history, faults >>

\* The requests clients can make: with a link that was mailed to them, a token
\* they were given, and for apps with the access token that came with one.
Ask(s) ==
    \/ \E u \in Users, op \in {"Register", "ResendVerify", "Login"} : Begin(s, op, u, 0, None, None)
    \/ \E k \in DOMAIN links : links[k].mailed /\ Begin(s, "VerifyEmail", links[k].user, k, None, None)
    \/ \E t \in DOMAIN tokens : tokens[t].known /\
          \/ \E op \in {"Refresh", "Logout"} : Begin(s, op, tokens[t].user, t, None, None)
          \/ \E n \in Names, l \in URLs \cup {None} : Begin(s, "Create", tokens[t].user, 0, n, l)
          \/ \E a \in DOMAIN apps : apps[a].user = tokens[t].user /\
                \/ Begin(s, "Delete", tokens[t].user, a, None, None)
                \/ \E n \in Names \cup {None}, l \in URLs \cup {None} :
                      Begin(s, "Update", tokens[t].user, a, n, l)

At(s, statement) == req[s] # Idle /\ Statements(req[s].op)[req[s].at] = statement

\* The requests that have come to a statement.
Before(statement) == {s \in Slots : At(s, statement)}

Return(s) == req' = [req EXCEPT ![s] = Idle]

PastLast(s) == req[s].at > Len(Statements(req[s].op))   \* mutant

AtLast(s) == req[s].at = Len(Statements(req[s].op))

Continue(s) ==
    IF AtLast(s) THEN Return(s)
    ELSE req' = [req EXCEPT ![s].at = @ + 1]

\* A request whose check fails changes nothing more.
Check(s, ok) ==
    /\ IF ok THEN Continue(s) ELSE Return(s)
    /\ UNCHANGED << auth, apps, begun, faults >>

Session(s) == tokens[req[s].row].session

Abort(s) ==
    /\ req[s] # Idle
    /\ Fault("abort")
    /\ Return(s)
    /\ cut' = IF req[s].op = "Refresh" /\ At(s, "generateTokenPair") THEN cut \cup {Session(s)} ELSE cut
    /\ UNCHANGED << auth, apps, begun, ended, raced >>

-----------------------------------------------------------------------------
(* AuthService *)

GetByEmail(s) ==
    /\ At(s, "GetByEmail")
    /\ LET found == status[req[s].user]
       IN  Check(s, CASE req[s].op = "Register"     -> found = "none"
                      [] req[s].op = "ResendVerify" -> found = "unverified"
                      [] req[s].op = "Login"        -> found = "verified")
    /\ UNCHANGED history

\* The unique key refuses a second row.
CreateUser(s) ==
    /\ At(s, "CreateUser")
    /\ IF status[req[s].user] = "none"
       THEN status' = [status EXCEPT ![req[s].user] = "unverified"] /\ Continue(s)
       ELSE Return(s) /\ UNCHANGED status
    /\ UNCHANGED << links, tokens, apps, begun, history, faults >>

CreateLink(s) ==
    /\ At(s, "CreateLink")
    /\ links' = Append(links, [user |-> req[s].user, used |-> FALSE, expired |-> FALSE,
                               mailed |-> FALSE])
    /\ req' = [req EXCEPT ![s].at = @ + 1, ![s].row = Len(links')]
    /\ UNCHANGED << status, tokens, apps, begun, history, faults >>

\* SendVerificationEmail.  When it fails the account and the link stay.
Send(s) ==
    /\ At(s, "Send")
    /\ \/ links' = [links EXCEPT ![req[s].row].mailed = TRUE] /\ UNCHANGED faults
       \/ Fault("answer") /\ UNCHANGED links
    /\ Return(s)
    /\ UNCHANGED << status, tokens, apps, begun, history >>

GetByToken(s) ==
    /\ At(s, "GetByToken")
    /\ LET v == links[req[s].row] IN Check(s, ~ v.used /\ ~ v.expired)
    /\ UNCHANGED history

UpdateStatus(s) ==
    /\ At(s, "UpdateStatus")
    /\ status' = [status EXCEPT ![req[s].user] = "verified"]
    /\ Continue(s)
    /\ UNCHANGED << links, tokens, apps, begun, history, faults >>

MarkUsed(s) ==
    /\ At(s, "MarkUsed")
    /\ links' = [links EXCEPT ![req[s].row].used = TRUE]
    /\ Continue(s)
    /\ UNCHANGED << status, tokens, apps, begun, history, faults >>

ValidIfNotExpired(t) == ~ tokens[t].expired   \* mutant: revoked = 0 forgotten

Valid(t) == ~ tokens[t].revoked /\ ~ tokens[t].expired

\* A Logout that finds no valid token returns as well.
GetByTokenHash(s) ==
    /\ At(s, "GetByTokenHash")
    /\ LET t == req[s].row
           other == {r \in Before("Revoke") : req[r].row = t}
       IN  /\ Check(s, Valid(t))
           /\ raced' = IF Valid(t) /\ other # {} THEN raced \cup {Session(s)} ELSE raced
    /\ UNCHANGED << ended, cut >>

RevokedAtLogout(s) ==   \* mutant: Refresh does not rotate
    [tokens EXCEPT ![req[s].row].revoked = @ \/ req[s].op = "Logout"]

Revoked(s) == [tokens EXCEPT ![req[s].row].revoked = TRUE]

Revoke(s) ==
    /\ At(s, "Revoke")
    /\ tokens' = Revoked(s)
    /\ ended' = IF req[s].op = "Logout" THEN ended \cup {Session(s)} ELSE ended
    /\ Continue(s)
    /\ UNCHANGED << status, links, apps, begun, raced, cut, faults >>

\* The new row and the answer.  A Login begins a session, named after its token.
generateTokenPair(s) ==
    /\ At(s, "generateTokenPair")
    /\ \E known \in BOOLEAN :
          /\ IF known THEN UNCHANGED faults ELSE Fault("answer")
          /\ tokens' = Append(tokens,
                [user |-> req[s].user, revoked |-> FALSE, expired |-> FALSE, known |-> known,
                 session |-> IF req[s].op = "Login" THEN Len(tokens) + 1 ELSE Session(s)])
    /\ Return(s)
    /\ UNCHANGED << status, links, apps, begun, history >>

\* Thirty minutes pass for a link, seven days for a refresh token.
Expire ==
    /\ \/ \E k \in DOMAIN links : ~ links[k].expired /\ links' = [links EXCEPT ![k].expired = TRUE]
                                  /\ UNCHANGED tokens
       \/ \E t \in DOMAIN tokens : ~ tokens[t].expired /\ tokens' = [tokens EXCEPT ![t].expired = TRUE]
                                   /\ UNCHANGED links
    /\ UNCHANGED << status, apps, req, begun, history, faults >>

-----------------------------------------------------------------------------
(* AppService *)

\* The enabled apps of the user of request s, but for the one it updates.
OthersAtCreate(s) ==   \* mutant: Update is not checked
    {a \in DOMAIN apps : apps[a].on /\ apps[a].user = req[s].user /\ req[s].row = 0}

Others(s) ==
    {a \in DOMAIN apps : apps[a].on /\ apps[a].user = req[s].user /\ a # req[s].row}

\* checkDuplicate: the name, then the URL, each if it is not empty.
NameExists(s) ==
    /\ At(s, "NameExists")
    /\ Check(s, req[s].name = None \/ \A a \in Others(s) : apps[a].name # req[s].name)
    /\ UNCHANGED history

CallbackURLExists(s) ==
    /\ At(s, "CallbackURLExists")
    /\ Check(s, req[s].url = None \/ \A a \in Others(s) : apps[a].url # req[s].url)
    /\ UNCHANGED history

\* A write of app a ends request s; the requests served meanwhile note it.
Wrote(s, a) ==
    req' = [r \in Slots |-> IF r = s \/ req[r] = Idle THEN Idle
                            ELSE [req[r] EXCEPT !.during = @ \cup {a}]]

Create(s) ==
    /\ At(s, "Create")
    /\ apps' = Append(apps, [user |-> req[s].user, name |-> req[s].name, url |-> req[s].url,
                             on |-> TRUE, during |-> req[s].during])
    /\ Wrote(s, Len(apps'))
    /\ UNCHANGED << auth, begun, history, faults >>

\* The columns that were given, of an app that may be deleted by now.
Update(s) ==
    /\ At(s, "Update")
    /\ LET a == req[s].row
           q == req[s]
       IN  /\ apps' = [apps EXCEPT ![a].name = IF q.name = None THEN @ ELSE q.name,
                                   ![a].url = IF q.url = None THEN @ ELSE q.url,
                                   ![a].during = @ \cup q.during]
           /\ Wrote(s, a)
    /\ UNCHANGED << auth, begun, history, faults >>

\* Delete keeps the row and disables it.
Delete(s) ==
    /\ At(s, "Delete")
    /\ apps' = [apps EXCEPT ![req[s].row].on = FALSE]
    /\ Return(s)
    /\ UNCHANGED << auth, begun, history, faults >>

-----------------------------------------------------------------------------

AuthService(s) == \/ GetByEmail(s) \/ CreateUser(s) \/ CreateLink(s) \/ Send(s)
                  \/ GetByToken(s) \/ UpdateStatus(s) \/ MarkUsed(s)
                  \/ GetByTokenHash(s) \/ Revoke(s) \/ generateTokenPair(s)

AppService(s) == NameExists(s) \/ CallbackURLExists(s) \/ Create(s) \/ Update(s) \/ Delete(s)

Next == (\E s \in Slots : Ask(s) \/ AuthService(s) \/ AppService(s) \/ Abort(s)) \/ Expire

Spec == Init /\ [][Next]_vars

-----------------------------------------------------------------------------
(* Properties *)

Sessions == 1..Len(tokens)

TypeOK ==
    /\ status \in [Users -> {"none", "unverified", "verified"}]
    /\ links \in Seq([user : Users, used : BOOLEAN, expired : BOOLEAN, mailed : BOOLEAN])
    /\ tokens \in Seq([user : Users, revoked : BOOLEAN, expired : BOOLEAN, known : BOOLEAN,
                       session : Sessions])
    /\ apps \in Seq([user : Users, name : Names, url : URLs \cup {None}, on : BOOLEAN,
                     during : SUBSET (1..Len(apps))])
    /\ begun \in 0..MaxRequests /\ faults \in 0..MaxFaults
    /\ ended \subseteq Sessions /\ raced \subseteq Sessions /\ cut \subseteq Sessions
    /\ \A s \in Slots : req[s] # Idle => req[s].at \in 1..Len(Statements(req[s].op))

\* A verification link is used up only for an account that is verified: wherever a
\* request ends between its statements, the user can verify with the same link.
UsedIsVerified == \A k \in DOMAIN links : links[k].used => status[links[k].user] = "verified"

\* The refresh tokens of a session that are not revoked.
Live(n) == {t \in DOMAIN tokens : tokens[t].session = n /\ ~ tokens[t].revoked}

\* The Refresh requests that have revoked a session's token and not yet made the next.
Rotating(n) ==
    {s \in Before("generateTokenPair") : req[s].op = "Refresh" /\ Session(s) = n}

\* Rotation: a session has one refresh token that is not revoked, or a request about
\* to make it, until it is ended, a request is cut short after its Revoke, or two
\* requests have found the same token valid before either revoked it.
OneToken ==
    \A n \in {tokens[t].session : t \in DOMAIN tokens} \ (ended \cup raced \cup cut) :
        Cardinality(Live(n)) + Cardinality(Rotating(n)) = 1

\* After a Logout that found its token, no token of the session is valid or will be,
\* whatever tokens of it are presented again, unless the Logout raced a Refresh.
LogoutIsFinal == \A n \in ended \ raced : Live(n) = {} /\ Rotating(n) = {}

\* checkDuplicate finds every duplicate written before its request began: two enabled
\* apps of a user have one name or one URL only if one of them was written while a
\* request that wrote the other was being served.
DuplicatesOverlap ==
    \A a, b \in DOMAIN apps :
        /\ a # b /\ apps[a].on /\ apps[b].on /\ apps[a].user = apps[b].user
        /\ apps[a].name = apps[b].name \/ (apps[a].url # None /\ apps[a].url = apps[b].url)
        => a \in apps[b].during \/ b \in apps[a].during
=============================================================================
