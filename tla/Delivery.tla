------------------------------ MODULE Delivery ------------------------------
(***************************************************************************)
(* The dispatcher service (internal/dispatcher, internal/mq,               *)
(* internal/store/webhook_log.go): from a matched on-chain event to the    *)
(* callback of the application that watches the address.                   *)
(*                                                                         *)
(* Every instance runs three consumers, each a loop that handles one       *)
(* message at a time (Consumer.runConsume):                                *)
(*   matched.events -> Expander.Handle: one webhook_logs row and one       *)
(*                     dispatch task for every watching address            *)
(*   dispatch.tasks -> Sender.Handle: POST, then success or a delayed retry*)
(*   dispatch.dead  -> DeadLetterHandler.Handle: mark the row dead         *)
(*                                                                         *)
(* A handler is a sequence of atomic steps, one for each call that reads   *)
(* or writes shared state: MySQL, RabbitMQ, the customer's server.  Faults *)
(* strike between them: a dispatcher dies ("crash"), its AMQP connection   *)
(* drops while a handler runs on ("conn"), a MySQL call fails ("db"), an   *)
(* attempt to publish fails or is not confirmed in time ("publish").       *)
(*                                                                         *)
(* Left out: messages whose JSON does not parse (acknowledged at once), the*)
(* prefetch window (a prefetched message is still in the queue here), the  *)
(* signature and the response text.                                        *)
(***************************************************************************)
EXTENDS Integers, Sequences, Broker

CONSTANTS
    Events,      \* parser.NormalizedEvent, named by EventID
    Addrs,       \* rows of watched_addresses
    Instances,   \* dispatcher processes
    Watchers,    \* Watchers[e]: what getWatchedAddresses returns for e
    Routable,    \* << e, wa >> whose app has a callback URL and allows the contract
    FaultKinds,  \* the kinds of fault that can strike
    MaxFaults,   \* bound: faults in a behaviour
    MaxMatched,  \* bound: times the worker publishes one event
    MaxResends   \* bound: calls of WebhookService.Resend

ASSUME WatchersAssumption == Watchers \in [Events -> SUBSET Addrs]
ASSUME RoutableAssumption == Routable \subseteq Events \X Addrs
ASSUME FaultAssumption == FaultKinds \subseteq {"crash", "conn", "db", "publish"}
ASSUME BoundAssumption == {MaxFaults, MaxMatched, MaxResends} \subseteq Nat

VARIABLES
    queue,       \* [Queues -> bag of messages]
    logs,        \* the webhook_logs table; the id of a row is its index
    exp,         \* exp[d]: where instance d is in Expander.Handle
    snd,         \* ... in Sender.Handle
    ded,         \* ... in DeadLetterHandler.Handle
    matched,     \* matched[e]: times e was published to matched.exchange
    resends,     \* calls of Resend so far
    faults       \* history: the number of faults so far, and their kinds

vars == << queue, logs, exp, snd, ded, matched, resends, faults >>

maxRetries == 3     \* attempts of Publisher.Publish

\* DispatchTask with its x-retry-count header; id is WebhookLogID, 0 when the
\* payload was marshalled before the row had one.
Task == [ev : Events, wa : Addrs, id : Nat, rc : 0..5]

Log == [ev : Events, wa : Addrs,
        status : {"pending", "success", "failed", "dead"}, retry : Nat]

Idle == [pc |-> "idle"]

\* held: the broker still takes the message for unacknowledged by this
\* consumer.  It turns FALSE when the connection drops under the handler.
ExpStates ==
    {Idle}
    \cup [pc : {"range"},   ev : Events, todo : SUBSET Addrs, held : BOOLEAN]
    \cup [pc : {"create"},  ev : Events, todo : SUBSET Addrs, held : BOOLEAN,
          wa : Addrs]
    \cup [pc : {"publish"}, ev : Events, todo : SUBSET Addrs, held : BOOLEAN,
          task : Task, try : 0..maxRetries-1]

SndStates ==
    {Idle} \cup
    [pc : {"post", "success", "failed", "incr", "publish", "ackOk", "ack"},
     task : Task, held : BOOLEAN, try : 0..maxRetries-1]

DedStates == {Idle} \cup [pc : {"mark", "ack"}, task : Task, held : BOOLEAN]

Init ==
    /\ queue = [q \in Queues |-> NoMessages]
    /\ logs = << >>
    /\ exp = [d \in Instances |-> Idle]
    /\ snd = [d \in Instances |-> Idle]
    /\ ded = [d \in Instances |-> Idle]
    /\ matched = [e \in Events |-> 0]
    /\ resends = 0
    /\ faults = [count |-> 0, kinds |-> {}]

-----------------------------------------------------------------------------
(* Faults, publishing and the webhook_logs table *)

Fault(kind) ==
    /\ kind \in FaultKinds
    /\ faults.count < MaxFaults
    /\ faults' = [count |-> faults.count + 1, kinds |-> faults.kinds \cup {kind}]

\* One round of the loop in Publisher.Publish.  "acked": the broker took the
\* message and confirmed; "unconfirmed": it took the message, the confirmation
\* did not come within confirmTimeout; "failed": it did not take it.
Outcomes == {"acked", "unconfirmed", "failed"}

publishOnce(exchange, key, m, out) ==
    /\ IF out = "acked" THEN UNCHANGED faults ELSE Fault("publish")
    /\ queue' = IF out = "failed" THEN queue ELSE Enqueue(queue, exchange, key, m)

\* Publish returns: confirmed, or out of attempts (no caller does more than
\* log the error).
PublishReturns(try, out) == out = "acked" \/ try = maxRetries - 1

ExistsSuccessful(e, wa) ==   \* mutant: a row that is not yet successful is not found
    \E i \in DOMAIN logs :
        logs[i].ev = e /\ logs[i].wa = wa /\ logs[i].status = "success"

ExistsByEventAndAddress(e, wa) ==
    \E i \in DOMAIN logs : logs[i].ev = e /\ logs[i].wa = wa

UpdateStatusButDead(id, status) ==   \* mutant: MarkDead is lost
    [i \in DOMAIN logs |-> IF i = id /\ status # "dead"
                           THEN [logs[i] EXCEPT !.status = status] ELSE logs[i]]

\* UPDATE ... WHERE id = ?: no row has id 0.
UpdateStatus(id, status) ==
    [i \in DOMAIN logs |-> IF i = id THEN [logs[i] EXCEPT !.status = status]
                           ELSE logs[i]]

IncrNothing(id) == logs   \* mutant: retry_count is not increased

IncrRetryCount(id) ==
    [i \in DOMAIN logs |-> IF i = id THEN [logs[i] EXCEPT !.retry = @ + 1]
                           ELSE logs[i]]

\* A write whose error the handlers drop.
Write(newLogs) == \/ logs' = newLogs /\ UNCHANGED faults
                  \/ UNCHANGED logs /\ Fault("db")

-----------------------------------------------------------------------------
(* The worker: handleRawEvent publishes the event, once or more (a rescan
   after a restart finds the same event again; an unconfirmed attempt is
   repeated). *)

Matched(e) ==
    /\ matched[e] < MaxMatched
    /\ matched' = [matched EXCEPT ![e] = @ + 1]
    /\ queue' = Enqueue(queue, "matched.exchange", "matched", e)
    /\ UNCHANGED << logs, exp, snd, ded, resends, faults >>

-----------------------------------------------------------------------------
(* Expander.Handle *)

\* getWatchedAddresses returns nil when Redis and MySQL both fail.
ExpReceive(d, e) ==
    /\ exp[d] = Idle
    /\ e \in DOMAIN queue["matched.events"]
    /\ queue' = Dequeue(queue, "matched.events", e)
    /\ \E todo \in {Watchers[e], {}} :
          /\ exp' = [exp EXCEPT ![d] = [pc |-> "range", ev |-> e,
                                        todo |-> todo, held |-> TRUE]]
          /\ IF todo = Watchers[e] THEN UNCHANGED faults ELSE Fault("db")
    /\ UNCHANGED << logs, snd, ded, matched, resends >>

Loop(d, todo) ==
    exp' = [exp EXCEPT ![d] = [pc |-> "range", ev |-> exp[d].ev,
                               todo |-> todo, held |-> exp[d].held]]

\* The checks before the row is written.  A failed query skips the address.
ExpLookup(d, wa) ==
    /\ exp[d].pc = "range"
    /\ wa \in exp[d].todo
    /\ \/ /\ ~ ExistsByEventAndAddress(exp[d].ev, wa)
          /\ << exp[d].ev, wa >> \in Routable
          /\ exp' = [exp EXCEPT ![d] =
                        [pc |-> "create", ev |-> exp[d].ev, todo |-> exp[d].todo,
                         held |-> exp[d].held, wa |-> wa]]
          /\ UNCHANGED faults
       \/ /\ (ExistsByEventAndAddress(exp[d].ev, wa)
                \/ << exp[d].ev, wa >> \notin Routable)
          /\ Loop(d, exp[d].todo \ {wa})
          /\ UNCHANGED faults
       \/ /\ Loop(d, exp[d].todo \ {wa})
          /\ Fault("db")
    /\ UNCHANGED << queue, logs, snd, ded, matched, resends >>

\* The unique key is (event_id, address_id, created_at), created_at in seconds:
\* it stops a second row of the pair only within the same second.
ExpCreate(d) ==
    /\ exp[d].pc = "create"
    /\ \/ LET id == Len(logs) + 1 IN
          /\ logs' = Append(logs, [ev |-> exp[d].ev, wa |-> exp[d].wa,
                                   status |-> "pending", retry |-> 0])
          /\ exp' = [exp EXCEPT ![d] =
                        [pc |-> "publish", ev |-> exp[d].ev,
                         todo |-> exp[d].todo \ {exp[d].wa}, held |-> exp[d].held,
                         task |-> [ev |-> exp[d].ev, wa |-> exp[d].wa,
                                   id |-> id, rc |-> 0],
                         try |-> 0]]
          /\ UNCHANGED faults
       \/ /\ Loop(d, exp[d].todo \ {exp[d].wa})
          /\ UNCHANGED logs
          /\ IF ExistsByEventAndAddress(exp[d].ev, exp[d].wa)
             THEN UNCHANGED faults ELSE Fault("db")
    /\ UNCHANGED << queue, snd, ded, matched, resends >>

ExpPublish(d) ==
    /\ exp[d].pc = "publish"
    /\ \E out \in Outcomes :
          /\ publishOnce("dispatch.exchange", "dispatch", exp[d].task, out)
          /\ IF PublishReturns(exp[d].try, out) THEN Loop(d, exp[d].todo)
             ELSE exp' = [exp EXCEPT ![d].try = @ + 1]
    /\ UNCHANGED << logs, snd, ded, matched, resends >>

ExpAck(d) ==
    /\ exp[d].pc = "range"
    /\ exp[d].todo = {}
    /\ exp' = [exp EXCEPT ![d] = Idle]
    /\ UNCHANGED << queue, logs, snd, ded, matched, resends, faults >>

ExpStep(d) == \/ \E e \in Events : ExpReceive(d, e)
              \/ \E wa \in Addrs : ExpLookup(d, wa)
              \/ ExpCreate(d) \/ ExpPublish(d) \/ ExpAck(d)
-----------------------------------------------------------------------------
(* Sender.Handle *)

SndReceive(d, t) ==
    /\ snd[d] = Idle
    /\ t \in DOMAIN queue["dispatch.tasks"]
    /\ queue' = Dequeue(queue, "dispatch.tasks", t)
    /\ snd' = [snd EXCEPT ![d] = [pc |-> "post", task |-> t,
                                  held |-> TRUE, try |-> 0]]
    /\ UNCHANGED << logs, exp, ded, matched, resends, faults >>

\* The customer's server answers 2xx, or anything else (or nothing).
SndPost(d) ==
    /\ snd[d].pc = "post"
    /\ \E answer \in {"success", "failed"} :
          snd' = [snd EXCEPT ![d].pc = answer]
    /\ UNCHANGED << queue, logs, exp, ded, matched, resends, faults >>

SndUpdate(d) ==
    /\ snd[d].pc \in {"success", "failed"}
    /\ Write(UpdateStatus(snd[d].task.id, snd[d].pc))
    /\ snd' = [snd EXCEPT ![d].pc = IF @ = "success" THEN "ackOk" ELSE "incr"]
    /\ UNCHANGED << queue, exp, ded, matched, resends >>

SndIncr(d) ==
    /\ snd[d].pc = "incr"
    /\ Write(IncrRetryCount(snd[d].task.id))
    /\ snd' = [snd EXCEPT ![d].pc = "publish"]
    /\ UNCHANGED << queue, exp, ded, matched, resends >>

ExhaustedAtFour(rc) == rc >= 4   \* mutant

\* Where a task goes after its rc-th failure.
Exhausted(rc) == rc >= 5

RetryExchangeTasks(rc) ==   \* mutant: the delay queues are not bound to this one
    IF Exhausted(rc) THEN "" ELSE "dispatch.exchange"

RetryExchange(rc) == IF Exhausted(rc) THEN "" ELSE "dlx.exchange"

RetryRoute(rc) == IF Exhausted(rc) THEN "dispatch.dead" ELSE RetryKey[rc]

SndPublish(d) ==
    /\ snd[d].pc = "publish"
    /\ \E out \in Outcomes :
          LET rc == snd[d].task.rc + 1 IN
          /\ publishOnce(RetryExchange(rc), RetryRoute(rc),
                         [snd[d].task EXCEPT !.rc = rc], out)
          /\ snd' = IF PublishReturns(snd[d].try, out)
                    THEN [snd EXCEPT ![d].pc = "ack"]
                    ELSE [snd EXCEPT ![d].try = @ + 1]
    /\ UNCHANGED << logs, exp, ded, matched, resends >>

SndAck(d) ==
    /\ snd[d].pc \in {"ackOk", "ack"}
    /\ snd' = [snd EXCEPT ![d] = Idle]
    /\ UNCHANGED << queue, logs, exp, ded, matched, resends, faults >>

SndStep(d) == \/ \E t \in DOMAIN queue["dispatch.tasks"] : SndReceive(d, t)
              \/ SndPost(d) \/ SndUpdate(d) \/ SndIncr(d)
              \/ SndPublish(d) \/ SndAck(d)

-----------------------------------------------------------------------------
(* DeadLetterHandler.Handle *)

DedReceive(d, t) ==
    /\ ded[d] = Idle
    /\ t \in DOMAIN queue["dispatch.dead"]
    /\ queue' = Dequeue(queue, "dispatch.dead", t)
    /\ ded' = [ded EXCEPT ![d] = [pc |-> "mark", task |-> t, held |-> TRUE]]
    /\ UNCHANGED << logs, exp, snd, matched, resends, faults >>

DedMark(d) ==
    /\ ded[d].pc = "mark"
    /\ Write(UpdateStatus(ded[d].task.id, "dead"))
    /\ ded' = [ded EXCEPT ![d].pc = "ack"]
    /\ UNCHANGED << queue, exp, snd, matched, resends >>

DedAck(d) ==
    /\ ded[d].pc = "ack"
    /\ ded' = [ded EXCEPT ![d] = Idle]
    /\ UNCHANGED << queue, logs, exp, snd, matched, resends, faults >>

DedStep(d) == \/ \E t \in DOMAIN queue["dispatch.dead"] : DedReceive(d, t)
              \/ DedMark(d) \/ DedAck(d)

-----------------------------------------------------------------------------
(* The broker, the API and the environment *)

\* The TTL of a message in a delay queue expires.
RetryExpire(q, t) ==
    /\ t \in DOMAIN queue[q]
    /\ queue' = Enqueue(Dequeue(queue, q, t),
                        DeadLetterRoute[1], DeadLetterRoute[2], t)
    /\ UNCHANGED << logs, exp, snd, ded, matched, resends, faults >>

Expire == \E q \in RetryQueues : \E t \in DOMAIN queue[q] : RetryExpire(q, t)

\* The payload column: Expander.Handle marshals the task before WebhookLogID is
\* filled in.
StoredPayload(i) == [ev |-> logs[i].ev, wa |-> logs[i].wa, id |-> 0, rc |-> 0]

\* WebhookService.Resend publishes the payload stored in the row; a call whose
\* attempt to publish is repeated counts as two.
Resend(i) ==
    /\ resends < MaxResends
    /\ resends' = resends + 1
    /\ queue' = Enqueue(queue, "dispatch.exchange", "dispatch", StoredPayload(i))
    /\ UNCHANGED << logs, exp, snd, ded, matched, faults >>

Held(h) == h # Idle /\ h.held

ReleaseAbandons(h) == Idle   \* mutant: the handler stops with the connection

Release(h) == IF h = Idle THEN Idle ELSE [h EXCEPT !.held = FALSE]

RequeueNothing(d) == UNCHANGED queue   \* mutant: consuming with autoAck

\* The broker puts the unacknowledged messages of d's consumers back.
Requeue(d) ==
    queue' = [queue EXCEPT
        !["matched.events"] = IF Held(exp[d]) THEN BagAdd(@, exp[d].ev) ELSE @,
        !["dispatch.tasks"] = IF Held(snd[d]) THEN BagAdd(@, snd[d].task) ELSE @,
        !["dispatch.dead"]  = IF Held(ded[d]) THEN BagAdd(@, ded[d].task) ELSE @]

\* The process dies (SIGTERM does not wait for the handlers either) and is
\* started again.
Crash(d) ==
    /\ ~ (exp[d] = Idle /\ snd[d] = Idle /\ ded[d] = Idle)
    /\ Fault("crash")
    /\ Requeue(d)
    /\ exp' = [exp EXCEPT ![d] = Idle]
    /\ snd' = [snd EXCEPT ![d] = Idle]
    /\ ded' = [ded EXCEPT ![d] = Idle]
    /\ UNCHANGED << logs, matched, resends >>

\* The connection drops: the messages go back to their queues, the handlers
\* run on, and the consumers register again when their handler returns.
ConnLost(d) ==
    /\ Held(exp[d]) \/ Held(snd[d]) \/ Held(ded[d])
    /\ Fault("conn")
    /\ Requeue(d)
    /\ exp' = [exp EXCEPT ![d] = Release(@)]
    /\ snd' = [snd EXCEPT ![d] = Release(@)]
    /\ ded' = [ded EXCEPT ![d] = Release(@)]
    /\ UNCHANGED << logs, matched, resends >>

Next ==
    \/ \E e \in Events : Matched(e)
    \/ \E d \in Instances : \/ ExpStep(d) \/ SndStep(d) \/ DedStep(d)
                            \/ Crash(d) \/ ConnLost(d)
    \/ Expire
    \/ \E i \in DOMAIN logs : Resend(i)

Spec == Init /\ [][Next]_vars

\* A consumer loop whose process is up takes the next message and finishes the
\* handler (the POST has a timeout); the broker expires messages.
Fairness == /\ \A d \in Instances : /\ WF_vars(ExpStep(d))
                                    /\ WF_vars(SndStep(d))
                                    /\ WF_vars(DedStep(d))
            /\ WF_vars(Expire)

FairSpec == Spec /\ Fairness

-----------------------------------------------------------------------------
(* Properties *)

MessageType(q) == IF q = "matched.events" THEN Events ELSE Task

QueueTypeOK(Q) ==
    /\ Q = [q \in Queues |-> Q[q]]
    /\ \A q \in Queues : \A m \in DOMAIN Q[q] :
          m \in MessageType(q) /\ Q[q][m] \in Nat \ {0}

Faults == [count : 0..MaxFaults, kinds : SUBSET FaultKinds]

TypeOK ==
    /\ QueueTypeOK(queue)
    /\ logs \in Seq(Log)
    /\ exp \in [Instances -> ExpStates]
    /\ snd \in [Instances -> SndStates]
    /\ ded \in [Instances -> DedStates]
    /\ matched \in [Events -> 0..MaxMatched]
    /\ resends \in 0..MaxResends
    /\ faults \in Faults

\* The retry header counts the failed attempts and decides the queue: a task
\* waits in the k-th delay queue exactly with header k, is sent again with at
\* most 4, and reaches the dead letter queue only after the 5th failure.  This
\* keeps routes[retryCount-1] in Sender.Handle inside its four elements, over
\* TTL expiry, redelivery and duplicated publishes.
RetryDiscipline ==
    /\ \A k \in 1..4 : \A t \in DOMAIN queue[RetryQueue[k]] : t.rc = k
    /\ \A t \in DOMAIN queue["dispatch.tasks"] : t.rc \in 0..4
    /\ \A t \in DOMAIN queue["dispatch.dead"] : t.rc = 5
    /\ \A d \in Instances :
          /\ exp[d].pc = "publish" => exp[d].task.rc = 0
          /\ snd[d] # Idle => snd[d].task.rc \in 0..4
          /\ ded[d] # Idle => ded[d].task.rc = 5

\* No watcher is forgotten: once the worker published event e, every routable
\* watcher of e has a webhook_logs row, or the event is still in matched.events,
\* or a consumer that has not acknowledged it will still come to that watcher.
\* Holds with crashes, lost connections and failed publishes (not when a MySQL
\* query fails: Expander.Handle then skips the address and acknowledges).
NoWatcherForgotten ==
    "db" \notin faults.kinds =>
        \A e \in Events : \A wa \in Watchers[e] :
            (matched[e] > 0 /\ << e, wa >> \in Routable) =>
                \/ \E i \in DOMAIN logs : logs[i].ev = e /\ logs[i].wa = wa
                \/ e \in DOMAIN queue["matched.events"]
                \/ \E d \in Instances :
                      Held(exp[d]) /\ exp[d].ev = e /\ wa \in exp[d].todo

\* A task of row i is in a queue, or in a handler that will settle the row or
\* publish the task again.
TaskOf(i) ==
    \/ \E q \in Queues \ {"matched.events"} :
          \E t \in DOMAIN queue[q] : t.id = i
    \/ \E d \in Instances :
          \/ /\ snd[d].pc \in {"post", "success", "failed", "incr", "publish"}
             /\ snd[d].task.id = i
          \/ ded[d].pc = "mark" /\ ded[d].task.id = i

\* A row that is not settled (success or dead) still has a task on its way, or
\* the expander that wrote the row is about to publish it.
EveryLogIsLive ==
    \A i \in DOMAIN logs :
        logs[i].status \in {"pending", "failed"} =>
            \/ TaskOf(i)
            \/ \E d \in Instances : exp[d].pc = "publish" /\ exp[d].task.id = i

\* No notification is left pending or failed for ever, although rows and
\* messages are written by separate calls and the connection may drop between
\* any two of them.
LogsSurviveConnLost == faults.kinds \subseteq {"conn"} => EveryLogIsLive

\* A callback that was tried and failed is tried again: the row has a task on
\* its way, although dispatchers crash.
FailedIsRetried ==
    faults.kinds \subseteq {"crash"} =>
        \A i \in DOMAIN logs : logs[i].status = "failed" => TaskOf(i)

\* Event ids are idempotency keys: an event that was published once gets one row
\* for an address, with any number of dispatchers, crashes and failing queries,
\* while no connection is lost under a handler.
UniqueLog ==
    "conn" \notin faults.kinds =>
        \A i, j \in DOMAIN logs :
            /\ logs[i].ev = logs[j].ev /\ logs[i].wa = logs[j].wa
            /\ matched[logs[i].ev] = 1
            => i = j

\* At most so many updates of webhook_logs have been lost.
LostWrites == IF "db" \in faults.kinds THEN faults.count ELSE 0

\* A row is marked dead only after five failures of its callback, each recorded in
\* its own retry_count or lost with one failed update: the counter of a row and
\* the header of its task, which decides, drift apart by no more than that.
DeadMeansExhausted ==
    \A i \in DOMAIN logs : logs[i].status = "dead" => logs[i].retry + LostWrites >= 5

\* The README's promise (lines 13 and 254-261): a callback is retried at most
\* three times, and the fourth failure is final.
AtMostThreeRetries == \A t \in DOMAIN queue["dispatch.tasks"] : t.rc <= 3

OnlyConnLost == [](faults.kinds \subseteq {"conn"})

\* Every routable watcher of a published event gets a row whose callback is
\* eventually answered 2xx or declared dead, although connections drop.
EventuallySettled ==
    OnlyConnLost =>
        \A e \in Events : \A wa \in Watchers[e] :
            << e, wa >> \in Routable =>
                (matched[e] > 0 ~> \E i \in DOMAIN logs :
                    /\ logs[i].ev = e /\ logs[i].wa = wa
                    /\ logs[i].status \in {"success", "dead"})

\* The retry loop ends: from some point on nothing is queued or in progress and
\* every row is settled.
Quiesces ==
    OnlyConnLost =>
        <>[](/\ \A q \in Queues : queue[q] = NoMessages
             /\ \A d \in Instances : exp[d] = Idle /\ snd[d] = Idle /\ ded[d] = Idle
             /\ \A i \in DOMAIN logs : logs[i].status \in {"success", "dead"})
=============================================================================
