--------------------------- MODULE DeliveryProofs ---------------------------
(***************************************************************************)
(* Proofs about the dispatcher, in four parts.                             *)
(*                                                                         *)
(*   - Types, and the retry header that decides the queue of a task.       *)
(*   - The rows of webhook_logs: they are not duplicated, not forgotten    *)
(*     and not declared dead too early.                                    *)
(*   - No row is stranded: while only connections drop, a row that is not  *)
(*     settled always has a task on its way; while only processes crash, a *)
(*     row whose callback failed has one.                                  *)
(*   - Delivery implements Notification, with every fault.                 *)
(***************************************************************************)
EXTENDS DeliveryRefinement, TLAPS

WF == INSTANCE WellFoundedInduction

-----------------------------------------------------------------------------
(* Bags and routing *)

LEMMA BagAddFacts ==
    ASSUME NEW B, NEW x,
           \A m \in DOMAIN B : B[m] \in Nat \ {0}
    PROVE  /\ DOMAIN BagAdd(B, x) = DOMAIN B \cup {x}
           /\ \A m \in DOMAIN BagAdd(B, x) : BagAdd(B, x)[m] \in Nat \ {0}
  BY DEF BagAdd

LEMMA BagRemoveFacts ==
    ASSUME NEW B, NEW x,
           \A m \in DOMAIN B : B[m] \in Nat \ {0}
    PROVE  /\ DOMAIN BagRemove(B, x) \subseteq DOMAIN B
           /\ DOMAIN B \ {x} \subseteq DOMAIN BagRemove(B, x)
           /\ \A m \in DOMAIN BagRemove(B, x) : BagRemove(B, x)[m] \in Nat \ {0}
  BY DEF BagRemove

LEMMA RetryQueueFacts ==
    /\ RetryQueues = {"dispatch.retry.1m", "dispatch.retry.5m",
                      "dispatch.retry.30m", "dispatch.retry.2h"}
    /\ \A k \in 1..4 : RetryQueue[k] \in RetryQueues
  BY DEF RetryQueues, RetryQueue

LEMMA RoutedDispatch == Routed("dispatch.exchange", "dispatch") = {"dispatch.tasks"}
  BY RetryQueueFacts DEF Routed, Bindings, Queues

LEMMA RoutedMatched == Routed("matched.exchange", "matched") = {"matched.events"}
  BY RetryQueueFacts DEF Routed, Bindings, Queues

\* The queue that receives a task after its rc-th failure.
RetryTarget(rc) == IF rc = 5 THEN "dispatch.dead" ELSE RetryQueue[rc]

LEMMA RoutedRetry ==
    ASSUME NEW rc \in 1..5
    PROVE  /\ Routed(RetryExchange(rc), RetryRoute(rc)) = {RetryTarget(rc)}
           /\ RetryTarget(rc) \in Queues \ {"matched.events", "dispatch.tasks"}
  <1>1. CASE rc = 5
    <2>1. RetryExchange(rc) = "" /\ RetryRoute(rc) = "dispatch.dead"
      BY <1>1 DEF Exhausted, RetryExchange, RetryRoute
    <2>2. Routed("", "dispatch.dead") = {"dispatch.dead"}
      BY DEF Routed, Queues
    <2> QED  BY <1>1, <2>1, <2>2 DEF RetryTarget, Queues
  <1>2. CASE rc \in 1..4
    <2>1. RetryExchange(rc) = "dlx.exchange" /\ RetryRoute(rc) = RetryKey[rc]
      BY <1>2 DEF Exhausted, RetryExchange, RetryRoute
    <2>2. ASSUME NEW q \in Queues
          PROVE  << "dlx.exchange", RetryKey[rc], q >> \in Bindings
                    <=> q = RetryQueue[rc]
      BY <1>2, RetryQueueFacts DEF Bindings, RetryKey, RetryQueue, Queues
    <2>3. RetryQueue[rc] \in Queues \ {"matched.events", "dispatch.tasks"}
      BY <1>2, RetryQueueFacts DEF Queues
    <2> QED  BY <1>2, <2>1, <2>2, <2>3 DEF Routed, RetryTarget
  <1> QED  BY <1>1, <1>2

\* m is in queue q of Q.
In(Q, q, m) == m \in DOMAIN Q[q]

Add(Q, q, m) == [Q EXCEPT ![q] = BagAdd(@, m)]

LEMMA AddFacts ==
    ASSUME NEW Q, QueueTypeOK(Q), NEW r \in Queues, NEW m \in MessageType(r)
    PROVE  /\ QueueTypeOK(Add(Q, r, m))
           /\ \A q \in Queues : \A x :
                 In(Add(Q, r, m), q, x) <=> In(Q, q, x) \/ (q = r /\ x = m)
  <1>1. \A x \in DOMAIN Q[r] : Q[r][x] \in Nat \ {0}
    BY DEF QueueTypeOK
  <1>2. /\ DOMAIN BagAdd(Q[r], m) = DOMAIN Q[r] \cup {m}
        /\ \A x \in DOMAIN BagAdd(Q[r], m) : BagAdd(Q[r], m)[x] \in Nat \ {0}
    BY <1>1, BagAddFacts
  <1> QED  BY <1>2 DEF QueueTypeOK, Add, In

LEMMA DequeueFacts ==
    ASSUME NEW Q, QueueTypeOK(Q), NEW r \in Queues, NEW m
    PROVE  /\ QueueTypeOK(Dequeue(Q, r, m))
           /\ \A q \in Queues : \A x :
                 /\ In(Dequeue(Q, r, m), q, x) => In(Q, q, x)
                 /\ In(Q, q, x) /\ ~(q = r /\ x = m) => In(Dequeue(Q, r, m), q, x)
  <1>1. \A x \in DOMAIN Q[r] : Q[r][x] \in Nat \ {0}
    BY DEF QueueTypeOK
  <1>2. /\ DOMAIN BagRemove(Q[r], m) \subseteq DOMAIN Q[r]
        /\ DOMAIN Q[r] \ {m} \subseteq DOMAIN BagRemove(Q[r], m)
        /\ \A x \in DOMAIN BagRemove(Q[r], m) : BagRemove(Q[r], m)[x] \in Nat \ {0}
    BY <1>1, BagRemoveFacts
  <1> QED  BY <1>2 DEF QueueTypeOK, Dequeue, In

LEMMA EnqueueIsAdd ==
    ASSUME NEW Q, QueueTypeOK(Q), NEW exchange, NEW key, NEW m,
           NEW r \in Queues, Routed(exchange, key) = {r}
    PROVE  Enqueue(Q, exchange, key, m) = Add(Q, r, m)
  BY DEF Enqueue, QueueTypeOK, Add

LEMMA QueueNames ==
    /\ {"matched.events", "dispatch.tasks", "dispatch.dead"} \subseteq Queues
    /\ RetryQueues \subseteq Queues
    /\ {"matched.events", "dispatch.tasks", "dispatch.dead"} \cap RetryQueues = {}
    /\ MessageType("matched.events") = Events
    /\ \A q \in Queues \ {"matched.events"} : MessageType(q) = Task
  BY RetryQueueFacts DEF Queues, MessageType

\* The task a sender publishes after a failure.
Failed(t) == [t EXCEPT !.rc = @ + 1]

-----------------------------------------------------------------------------
(* What a step does to the queues *)

LEMMA MatchedQueue ==
    ASSUME TypeOK, NEW e \in Events, Matched(e)
    PROVE  queue' = Add(queue, "matched.events", e)
  BY EnqueueIsAdd, RoutedMatched, QueueNames DEF Matched, TypeOK

LEMMA ExpPublishQueue ==
    ASSUME TypeOK, NEW d \in Instances, ExpPublish(d)
    PROVE  /\ exp[d].task \in Task
           /\ \/ queue' = queue /\ "publish" \in faults'.kinds
              \/ queue' = Add(queue, "dispatch.tasks", exp[d].task)
  <1>1. exp[d].task \in Task
    BY DEF TypeOK, ExpStates, ExpPublish, Idle
  <1>2. Enqueue(queue, "dispatch.exchange", "dispatch", exp[d].task)
            = Add(queue, "dispatch.tasks", exp[d].task)
    BY EnqueueIsAdd, RoutedDispatch, QueueNames DEF TypeOK
  <1> QED  BY <1>1, <1>2 DEF ExpPublish, publishOnce, Outcomes, Fault

LEMMA SndPublishQueue ==
    ASSUME TypeOK, RetryDiscipline, NEW d \in Instances, SndPublish(d)
    PROVE  /\ snd[d].task \in Task
           /\ snd[d].task.rc \in 0..4
           /\ Failed(snd[d].task) \in Task
           /\ Failed(snd[d].task).rc = snd[d].task.rc + 1
           /\ Failed(snd[d].task).id = snd[d].task.id
           /\ RetryTarget(snd[d].task.rc + 1)
                 \in Queues \ {"matched.events", "dispatch.tasks"}
           /\ \/ queue' = queue /\ "publish" \in faults'.kinds
              \/ queue' = Add(queue, RetryTarget(snd[d].task.rc + 1),
                              Failed(snd[d].task))
  <1> DEFINE t == snd[d].task
             rc == t.rc + 1
  <1>1. t \in Task /\ t.rc \in 0..4
    BY DEF TypeOK, SndStates, SndPublish, Idle, RetryDiscipline
  <1>2. rc \in 1..5
    BY <1>1
  <1>3. /\ Failed(t) \in Task /\ Failed(t).rc = rc /\ Failed(t).id = t.id
        /\ [t EXCEPT !.rc = rc] = Failed(t)
    BY <1>1 DEF Task, Failed
  <1>4. /\ Routed(RetryExchange(rc), RetryRoute(rc)) = {RetryTarget(rc)}
        /\ RetryTarget(rc) \in Queues \ {"matched.events", "dispatch.tasks"}
    BY <1>2, RoutedRetry
  <1>5. Enqueue(queue, RetryExchange(rc), RetryRoute(rc), Failed(t))
            = Add(queue, RetryTarget(rc), Failed(t))
    BY <1>4, EnqueueIsAdd DEF TypeOK
  <1>6. PICK out \in Outcomes :
            publishOnce(RetryExchange(rc), RetryRoute(rc), Failed(t), out)
    BY <1>3 DEF SndPublish
  <1>7. \/ queue' = queue /\ "publish" \in faults'.kinds
        \/ queue' = Add(queue, RetryTarget(rc), Failed(t))
    BY <1>5, <1>6 DEF publishOnce, Outcomes, Fault
  <1> QED  BY <1>1, <1>3, <1>4, <1>7

LEMMA ExpireQueue ==
    ASSUME TypeOK, NEW q \in RetryQueues, NEW t \in DOMAIN queue[q], RetryExpire(q, t)
    PROVE  /\ t \in Task
           /\ QueueTypeOK(Dequeue(queue, q, t))
           /\ queue' = Add(Dequeue(queue, q, t), "dispatch.tasks", t)
  <1>1. t \in Task /\ q \in Queues
    BY QueueNames DEF TypeOK, QueueTypeOK
  <1>2. QueueTypeOK(Dequeue(queue, q, t))
    BY <1>1, DequeueFacts DEF TypeOK
  <1>3. Enqueue(Dequeue(queue, q, t), "dispatch.exchange", "dispatch", t)
            = Add(Dequeue(queue, q, t), "dispatch.tasks", t)
    BY <1>2, EnqueueIsAdd, RoutedDispatch, QueueNames
  <1> QED  BY <1>1, <1>2, <1>3 DEF RetryExpire, DeadLetterRoute

LEMMA ResendQueue ==
    ASSUME TypeOK, NEW i \in DOMAIN logs, Resend(i)
    PROVE  \E t \in Task : /\ t.id = 0 /\ t.rc = 0
                           /\ queue' = Add(queue, "dispatch.tasks", t)
  <1> DEFINE t == [ev |-> logs[i].ev, wa |-> logs[i].wa, id |-> 0, rc |-> 0]
  <1>1. logs[i] \in Log
    BY DEF TypeOK
  <1>2. t \in Task
    BY <1>1 DEF Log, Task
  <1>3. Enqueue(queue, "dispatch.exchange", "dispatch", t)
            = Add(queue, "dispatch.tasks", t)
    BY EnqueueIsAdd, RoutedDispatch, QueueNames DEF TypeOK
  <1> QED  BY <1>2, <1>3 DEF Resend, StoredPayload

LEMMA HeldTypes ==
    ASSUME TypeOK, NEW d \in Instances
    PROVE  /\ exp[d] # Idle => exp[d].ev \in Events
           /\ snd[d] # Idle => snd[d].task \in Task
           /\ ded[d] # Idle => ded[d].task \in Task
  BY DEF TypeOK, ExpStates, SndStates, DedStates

LEMMA RequeueQueue ==
    ASSUME TypeOK, NEW d \in Instances, Requeue(d)
    PROVE  /\ QueueTypeOK(queue')
           /\ \A q \in Queues : \A x :
                 In(queue', q, x) <=>
                    \/ In(queue, q, x)
                    \/ q = "matched.events" /\ Held(exp[d]) /\ x = exp[d].ev
                    \/ q = "dispatch.tasks" /\ Held(snd[d]) /\ x = snd[d].task
                    \/ q = "dispatch.dead"  /\ Held(ded[d]) /\ x = ded[d].task
  <1> DEFINE Q1 == IF Held(exp[d]) THEN Add(queue, "matched.events", exp[d].ev)
                   ELSE queue
             Q2 == IF Held(snd[d]) THEN Add(Q1, "dispatch.tasks", snd[d].task)
                   ELSE Q1
             Q3 == IF Held(ded[d]) THEN Add(Q2, "dispatch.dead", ded[d].task)
                   ELSE Q2
  <1>1. QueueTypeOK(queue)
    BY DEF TypeOK
  <1>2. /\ QueueTypeOK(Q1)
        /\ \A q \in Queues : \A x : In(Q1, q, x) <=>
              \/ In(queue, q, x)
              \/ q = "matched.events" /\ Held(exp[d]) /\ x = exp[d].ev
    BY <1>1, AddFacts, QueueNames, HeldTypes DEF Held
  <1>3. /\ QueueTypeOK(Q2)
        /\ \A q \in Queues : \A x : In(Q2, q, x) <=>
              \/ In(Q1, q, x)
              \/ q = "dispatch.tasks" /\ Held(snd[d]) /\ x = snd[d].task
    <2> HIDE DEF Q1
    <2> QED  BY <1>2, AddFacts, QueueNames, HeldTypes DEF Held
  <1>4. /\ QueueTypeOK(Q3)
        /\ \A q \in Queues : \A x : In(Q3, q, x) <=>
              \/ In(Q2, q, x)
              \/ q = "dispatch.dead" /\ Held(ded[d]) /\ x = ded[d].task
    <2> HIDE DEF Q2
    <2> QED  BY <1>3, AddFacts, QueueNames, HeldTypes DEF Held
  <1>5. queue' = Q3
    BY <1>1, QueueNames DEF Requeue, Add, QueueTypeOK
  <1> QED
    <2> HIDE DEF Q1, Q2, Q3
    <2> QED  BY <1>2, <1>3, <1>4, <1>5

-----------------------------------------------------------------------------
(* The table *)

LEMMA UpdateStatusFacts ==
    ASSUME logs \in Seq(Log), NEW id,
           NEW status \in {"pending", "success", "failed", "dead"}
    PROVE  /\ UpdateStatus(id, status) \in Seq(Log)
           /\ DOMAIN UpdateStatus(id, status) = DOMAIN logs
           /\ \A i \in DOMAIN logs :
                 /\ UpdateStatus(id, status)[i].ev = logs[i].ev
                 /\ UpdateStatus(id, status)[i].wa = logs[i].wa
                 /\ UpdateStatus(id, status)[i].retry = logs[i].retry
                 /\ UpdateStatus(id, status)[i].status
                        = IF i = id THEN status ELSE logs[i].status
  <1>1. logs = [i \in 1..Len(logs) |-> logs[i]]
    OBVIOUS
  <1>2. /\ UpdateStatus(id, status) = [i \in 1..Len(logs) |-> UpdateStatus(id, status)[i]]
        /\ DOMAIN logs = 1..Len(logs)
    BY DEF UpdateStatus
  <1>3. ASSUME NEW i \in 1..Len(logs)
        PROVE  /\ UpdateStatus(id, status)[i] \in Log
               /\ UpdateStatus(id, status)[i].ev = logs[i].ev
               /\ UpdateStatus(id, status)[i].wa = logs[i].wa
               /\ UpdateStatus(id, status)[i].status = IF i = id THEN status ELSE logs[i].status
               /\ UpdateStatus(id, status)[i].retry = logs[i].retry
    <2>1. logs[i] \in Log
      OBVIOUS
    <2> QED  BY <1>2, <2>1 DEF UpdateStatus, Log
  <1>4. UpdateStatus(id, status) \in Seq(Log)
    BY <1>2, <1>3
  <1> QED  BY <1>2, <1>3, <1>4

LEMMA IncrRetryCountFacts ==
    ASSUME logs \in Seq(Log), NEW id
    PROVE  /\ IncrRetryCount(id) \in Seq(Log)
           /\ DOMAIN IncrRetryCount(id) = DOMAIN logs
           /\ \A i \in DOMAIN logs :
                 /\ IncrRetryCount(id)[i].ev = logs[i].ev
                 /\ IncrRetryCount(id)[i].wa = logs[i].wa
                 /\ IncrRetryCount(id)[i].status = logs[i].status
                 /\ IncrRetryCount(id)[i].retry
                        = IF i = id THEN logs[i].retry + 1 ELSE logs[i].retry
  <1>1. logs = [i \in 1..Len(logs) |-> logs[i]]
    OBVIOUS
  <1>2. /\ IncrRetryCount(id) = [i \in 1..Len(logs) |-> IncrRetryCount(id)[i]]
        /\ DOMAIN logs = 1..Len(logs)
    BY DEF IncrRetryCount
  <1>3. ASSUME NEW i \in 1..Len(logs)
        PROVE  /\ IncrRetryCount(id)[i] \in Log
               /\ IncrRetryCount(id)[i].ev = logs[i].ev
               /\ IncrRetryCount(id)[i].wa = logs[i].wa
               /\ IncrRetryCount(id)[i].status = logs[i].status
               /\ IncrRetryCount(id)[i].retry = IF i = id THEN logs[i].retry + 1 ELSE logs[i].retry
    <2>1. PICK l \in Log : l = logs[i]
      OBVIOUS
    <2>2. IncrRetryCount(id)[i] = IF i = id THEN [l EXCEPT !.retry = @ + 1] ELSE l
      BY <1>2, <2>1 DEF IncrRetryCount
    <2>3. CASE i = id
      <3>1. IncrRetryCount(id)[i] = [l EXCEPT !.retry = l.retry + 1]
        BY <2>2, <2>3
      <3>2. /\ [l EXCEPT !.retry = l.retry + 1] \in Log
            /\ [l EXCEPT !.retry = l.retry + 1].ev = l.ev
            /\ [l EXCEPT !.retry = l.retry + 1].wa = l.wa
            /\ [l EXCEPT !.retry = l.retry + 1].status = l.status
            /\ [l EXCEPT !.retry = l.retry + 1].retry = l.retry + 1
        BY DEF Log
      <3> QED  BY <2>1, <2>3, <3>1, <3>2
    <2>4. CASE i # id
      BY <2>1, <2>2, <2>4
    <2> QED  BY <2>3, <2>4
  <1>4. IncrRetryCount(id) \in Seq(Log)
    BY <1>2, <1>3
  <1> QED  BY <1>2, <1>3, <1>4

-----------------------------------------------------------------------------
(* Type correctness *)

LEMMA FaultType == ASSUME TypeOK, NEW k, Fault(k) PROVE faults' \in Faults
  BY BoundAssumption DEF TypeOK, Fault, Faults

\* A kind of fault that has not struck after a step has not struck in it.
LEMMA NoFault == ASSUME NEW k, k \notin faults'.kinds PROVE ~ Fault(k)
  BY DEF Fault

LEMMA FaultGrows == ASSUME NEW k, Fault(k) PROVE faults.kinds \subseteq faults'.kinds
  BY DEF Fault

\* The history of faults is never shortened.
LEMMA KindsGrow == ASSUME [Next]_vars PROVE faults.kinds \subseteq faults'.kinds
  <1>1. ASSUME NEW d \in Instances, ExpStep(d) PROVE faults.kinds \subseteq faults'.kinds
    BY <1>1, FaultGrows DEF ExpStep, ExpReceive, ExpLookup, ExpCreate, ExpPublish, ExpAck,
                            publishOnce
  <1>2. ASSUME NEW d \in Instances, SndStep(d) \/ DedStep(d)
        PROVE  faults.kinds \subseteq faults'.kinds
    BY <1>2, FaultGrows DEF SndStep, SndReceive, SndPost, SndUpdate, SndIncr, SndPublish,
                            SndAck, DedStep, DedReceive, DedMark, DedAck, publishOnce, Write
  <1>3. ASSUME NEW d \in Instances, Crash(d) \/ ConnLost(d)
        PROVE  faults.kinds \subseteq faults'.kinds
    BY <1>3, FaultGrows DEF Crash, ConnLost
  <1>4. CASE UNCHANGED faults
    BY <1>4
  <1> QED  BY <1>1, <1>2, <1>3, <1>4 DEF Next, vars, Matched, Expire, RetryExpire, Resend

LEMMA WriteType ==
    ASSUME TypeOK, NEW newLogs \in Seq(Log), Write(newLogs)
    PROVE  logs' \in Seq(Log) /\ faults' \in Faults
  BY FaultType DEF TypeOK, Write

LEMMA ExpTypeOK ==
    ASSUME TypeOK, NEW d \in Instances, ExpStep(d)
    PROVE  TypeOK'
  <1>1. ASSUME NEW e \in Events, ExpReceive(d, e) PROVE TypeOK'
    <2>1. QueueTypeOK(queue')
      BY <1>1, DequeueFacts, QueueNames DEF ExpReceive, TypeOK
    <2>2. PICK todo \in {Watchers[e], {}} :
              /\ exp' = [exp EXCEPT ![d] = [pc |-> "range", ev |-> e,
                                            todo |-> todo, held |-> TRUE]]
              /\ IF todo = Watchers[e] THEN UNCHANGED faults ELSE Fault("db")
      BY <1>1 DEF ExpReceive
    <2>3. todo \in SUBSET Addrs
      BY <2>2, WatchersAssumption
    <2>4. exp' \in [Instances -> ExpStates]
      BY <2>2, <2>3 DEF TypeOK, ExpStates
    <2>5. faults' \in Faults
      BY <2>2, FaultType DEF TypeOK
    <2> QED  BY <1>1, <2>1, <2>4, <2>5 DEF ExpReceive, TypeOK
  <1>2. ASSUME NEW todo \in SUBSET Addrs, exp[d] # Idle, Loop(d, todo)
        PROVE  exp' \in [Instances -> ExpStates]
    <2>1. exp[d].ev \in Events /\ exp[d].held \in BOOLEAN
      BY <1>2 DEF TypeOK, ExpStates
    <2> QED  BY <1>2, <2>1 DEF TypeOK, ExpStates, Loop
  <1>3. ASSUME NEW wa \in Addrs, ExpLookup(d, wa) PROVE TypeOK'
    <2>1. /\ exp[d].ev \in Events /\ exp[d].held \in BOOLEAN
          /\ exp[d].todo \in SUBSET Addrs /\ exp[d] # Idle
      BY <1>3 DEF ExpLookup, TypeOK, ExpStates, Idle
    <2>2. exp[d].todo \ {wa} \in SUBSET Addrs
      BY <2>1
    <2>3. exp' \in [Instances -> ExpStates]
      <3>1. CASE Loop(d, exp[d].todo \ {wa})
        BY <3>1, <1>2, <2>1, <2>2
      <3>2. CASE exp' = [exp EXCEPT ![d] =
                        [pc |-> "create", ev |-> exp[d].ev, todo |-> exp[d].todo,
                         held |-> exp[d].held, wa |-> wa]]
        BY <3>2, <2>1 DEF TypeOK, ExpStates
      <3> QED  BY <1>3, <3>1, <3>2 DEF ExpLookup
    <2>4. faults' \in Faults
      BY <1>3, FaultType DEF ExpLookup, TypeOK
    <2> QED  BY <1>3, <2>3, <2>4 DEF ExpLookup, TypeOK
  <1>4. ASSUME ExpCreate(d) PROVE TypeOK'
    <2>1. /\ exp[d].ev \in Events /\ exp[d].held \in BOOLEAN /\ exp[d].wa \in Addrs
          /\ exp[d].todo \in SUBSET Addrs /\ exp[d] # Idle
      BY <1>4 DEF ExpCreate, TypeOK, ExpStates, Idle
    <2>2. exp[d].todo \ {exp[d].wa} \in SUBSET Addrs
      BY <2>1
    <2> DEFINE id == Len(logs) + 1
               task == [ev |-> exp[d].ev, wa |-> exp[d].wa, id |-> id, rc |-> 0]
               row == [ev |-> exp[d].ev, wa |-> exp[d].wa,
                       status |-> "pending", retry |-> 0]
    <2>3. CASE /\ logs' = Append(logs, row)
               /\ exp' = [exp EXCEPT ![d] =
                        [pc |-> "publish", ev |-> exp[d].ev,
                         todo |-> exp[d].todo \ {exp[d].wa}, held |-> exp[d].held,
                         task |-> task, try |-> 0]]
               /\ UNCHANGED faults
      <3>1. task \in Task
        BY <2>1 DEF Task, TypeOK
      <3>2. row \in Log
        BY <2>1 DEF Log
      <3>3. logs' \in Seq(Log)
        <4> HIDE DEF row
        <4> QED  BY <2>3, <3>2 DEF TypeOK
      <3>4. exp' \in [Instances -> ExpStates]
        <4> HIDE DEF task
        <4> QED  BY <2>1, <2>2, <2>3, <3>1 DEF TypeOK, ExpStates, maxRetries
      <3> QED  BY <1>4, <2>3, <3>3, <3>4 DEF TypeOK, ExpCreate
    <2>4. CASE Loop(d, exp[d].todo \ {exp[d].wa}) /\ UNCHANGED logs
      <3>1. exp' \in [Instances -> ExpStates]
        BY <2>4, <1>2, <2>1, <2>2
      <3>2. faults' \in Faults
        BY <1>4, FaultType DEF ExpCreate, TypeOK
      <3> QED  BY <1>4, <2>4, <3>1, <3>2 DEF ExpCreate, TypeOK
    <2> QED  BY <1>4, <2>3, <2>4 DEF ExpCreate
  <1>5. ASSUME ExpPublish(d) PROVE TypeOK'
    <2>1. QueueTypeOK(queue')
      BY <1>5, ExpPublishQueue, AddFacts, QueueNames DEF TypeOK
    <2>2. /\ exp[d] # Idle /\ exp[d].todo \in SUBSET Addrs
          /\ exp[d] \in [pc : {"publish"}, ev : Events, todo : SUBSET Addrs,
                         held : BOOLEAN, task : Task, try : 0..maxRetries-1]
      BY <1>5 DEF ExpPublish, TypeOK, ExpStates, Idle
    <2>3. exp' \in [Instances -> ExpStates]
      <3>1. CASE Loop(d, exp[d].todo)
        BY <3>1, <1>2, <2>2
      <3>2. CASE exp' = [exp EXCEPT ![d].try = @ + 1] /\ exp[d].try # maxRetries - 1
        <4>1. exp[d].try + 1 \in 0..maxRetries-1
          BY <3>2, <2>2 DEF maxRetries
        <4>2. [exp[d] EXCEPT !.try = @ + 1] \in
                  [pc : {"publish"}, ev : Events, todo : SUBSET Addrs,
                   held : BOOLEAN, task : Task, try : 0..maxRetries-1]
          BY <4>1, <2>2
        <4>3. exp' = [exp EXCEPT ![d] = [exp[d] EXCEPT !.try = @ + 1]]
          BY <3>2
        <4> QED  BY <4>2, <4>3 DEF TypeOK, ExpStates
      <3> QED  BY <1>5, <3>1, <3>2 DEF ExpPublish, PublishReturns
    <2>4. faults' \in Faults
      BY <1>5, FaultType DEF ExpPublish, publishOnce, TypeOK
    <2> QED  BY <1>5, <2>1, <2>3, <2>4 DEF ExpPublish, TypeOK
  <1>6. ASSUME ExpAck(d) PROVE TypeOK'
    BY <1>6 DEF ExpAck, TypeOK, ExpStates
  <1> QED  BY <1>1, <1>3, <1>4, <1>5, <1>6 DEF ExpStep

LEMMA SndTypeOK ==
    ASSUME TypeOK, RetryDiscipline, NEW d \in Instances, SndStep(d)
    PROVE  TypeOK'
  <1> DEFINE Busy == [pc : {"post", "success", "failed", "incr", "publish",
                            "ackOk", "ack"},
                      task : Task, held : BOOLEAN, try : 0..maxRetries-1]
  <1>0. ASSUME snd[d].pc # "idle" PROVE snd[d] \in Busy
    BY <1>0 DEF TypeOK, SndStates, Idle
  <1>1. ASSUME NEW t \in DOMAIN queue["dispatch.tasks"], SndReceive(d, t)
        PROVE  TypeOK'
    <2>1. QueueTypeOK(queue')
      BY <1>1, DequeueFacts, QueueNames DEF SndReceive, TypeOK
    <2>2. t \in Task
      BY QueueNames DEF TypeOK, QueueTypeOK
    <2>3. snd' \in [Instances -> SndStates]
      BY <1>1, <2>2 DEF SndReceive, TypeOK, SndStates, maxRetries
    <2> QED  BY <1>1, <2>1, <2>3 DEF SndReceive, TypeOK
  <1>2. ASSUME SndPost(d) PROVE TypeOK'
    <2>1. snd' \in [Instances -> SndStates]
      BY <1>2, <1>0 DEF SndPost, TypeOK, SndStates
    <2> QED  BY <1>2, <2>1 DEF SndPost, TypeOK
  <1>3. ASSUME SndUpdate(d) PROVE TypeOK'
    <2>1. snd' \in [Instances -> SndStates]
      BY <1>3, <1>0 DEF SndUpdate, TypeOK, SndStates
    <2>2. logs' \in Seq(Log) /\ faults' \in Faults
      BY <1>3, UpdateStatusFacts, WriteType DEF SndUpdate, TypeOK
    <2> QED  BY <1>3, <2>1, <2>2 DEF SndUpdate, TypeOK
  <1>4. ASSUME SndIncr(d) PROVE TypeOK'
    <2>1. snd' \in [Instances -> SndStates]
      BY <1>4, <1>0 DEF SndIncr, TypeOK, SndStates
    <2>2. logs' \in Seq(Log) /\ faults' \in Faults
      BY <1>4, IncrRetryCountFacts, WriteType DEF SndIncr, TypeOK
    <2> QED  BY <1>4, <2>1, <2>2 DEF SndIncr, TypeOK
  <1>5. ASSUME SndPublish(d) PROVE TypeOK'
    <2>1. QueueTypeOK(queue')
      BY <1>5, SndPublishQueue, AddFacts, QueueNames DEF TypeOK
    <2>2. snd' \in [Instances -> SndStates]
      <3>0. snd[d] \in Busy
        BY <1>5, <1>0 DEF SndPublish
      <3>1. CASE snd' = [snd EXCEPT ![d].pc = "ack"]
        BY <3>0, <3>1 DEF TypeOK, SndStates
      <3>2. CASE snd' = [snd EXCEPT ![d].try = @ + 1] /\ snd[d].try # maxRetries - 1
        <4>1. snd[d].try + 1 \in 0..maxRetries-1
          BY <3>0, <3>2 DEF maxRetries
        <4>2. [snd[d] EXCEPT !.try = @ + 1] \in Busy
          BY <3>0, <4>1
        <4>3. snd' = [snd EXCEPT ![d] = [snd[d] EXCEPT !.try = @ + 1]]
          BY <3>2
        <4> QED  BY <4>2, <4>3 DEF TypeOK, SndStates
      <3> QED  BY <1>5, <3>1, <3>2 DEF SndPublish, PublishReturns
    <2>3. faults' \in Faults
      BY <1>5, FaultType DEF SndPublish, publishOnce, TypeOK
    <2> QED  BY <1>5, <2>1, <2>2, <2>3 DEF SndPublish, TypeOK
  <1>6. ASSUME SndAck(d) PROVE TypeOK'
    BY <1>6 DEF SndAck, TypeOK, SndStates
  <1> QED  BY <1>1, <1>2, <1>3, <1>4, <1>5, <1>6 DEF SndStep

LEMMA DedTypeOK ==
    ASSUME TypeOK, NEW d \in Instances, DedStep(d)
    PROVE  TypeOK'
  <1>1. ASSUME NEW t \in DOMAIN queue["dispatch.dead"], DedReceive(d, t)
        PROVE  TypeOK'
    <2>1. QueueTypeOK(queue')
      BY <1>1, DequeueFacts, QueueNames DEF DedReceive, TypeOK
    <2>2. t \in Task
      BY QueueNames DEF TypeOK, QueueTypeOK
    <2>3. ded' \in [Instances -> DedStates]
      BY <1>1, <2>2 DEF DedReceive, TypeOK, DedStates
    <2> QED  BY <1>1, <2>1, <2>3 DEF DedReceive, TypeOK
  <1>2. ASSUME DedMark(d) PROVE TypeOK'
    <2>1. ded[d] \in [pc : {"mark", "ack"}, task : Task, held : BOOLEAN]
      BY <1>2 DEF DedMark, TypeOK, DedStates, Idle
    <2>2. ded' \in [Instances -> DedStates]
      BY <1>2, <2>1 DEF DedMark, TypeOK, DedStates
    <2>3. logs' \in Seq(Log) /\ faults' \in Faults
      BY <1>2, UpdateStatusFacts, WriteType DEF DedMark, TypeOK
    <2> QED  BY <1>2, <2>2, <2>3 DEF DedMark, TypeOK
  <1>3. ASSUME DedAck(d) PROVE TypeOK'
    BY <1>3 DEF DedAck, TypeOK, DedStates
  <1> QED  BY <1>1, <1>2, <1>3 DEF DedStep

LEMMA EnvTypeOK ==
    ASSUME TypeOK,
           \/ \E e \in Events : Matched(e)
           \/ \E d \in Instances : Crash(d) \/ ConnLost(d)
           \/ Expire
           \/ \E i \in DOMAIN logs : Resend(i)
    PROVE  TypeOK'
  <1>1. ASSUME NEW e \in Events, Matched(e) PROVE TypeOK'
    <2>1. QueueTypeOK(queue')
      BY <1>1, MatchedQueue, AddFacts, QueueNames DEF TypeOK
    <2>2. matched' \in [Events -> 0..MaxMatched]
      BY <1>1, BoundAssumption DEF Matched, TypeOK
    <2> QED  BY <1>1, <2>1, <2>2 DEF Matched, TypeOK
  <1>2. ASSUME NEW d \in Instances, Crash(d) PROVE TypeOK'
    <2>1. QueueTypeOK(queue')
      BY <1>2, RequeueQueue DEF Crash
    <2>2. /\ exp' \in [Instances -> ExpStates]
          /\ snd' \in [Instances -> SndStates]
          /\ ded' \in [Instances -> DedStates]
      BY <1>2 DEF Crash, TypeOK, ExpStates, SndStates, DedStates
    <2>3. faults' \in Faults
      BY <1>2, FaultType DEF Crash
    <2> QED  BY <1>2, <2>1, <2>2, <2>3 DEF Crash, TypeOK
  <1>3. ASSUME NEW d \in Instances, ConnLost(d) PROVE TypeOK'
    <2>1. QueueTypeOK(queue')
      BY <1>3, RequeueQueue DEF ConnLost
    <2>2. Release(exp[d]) \in ExpStates
      <3>1. CASE exp[d] = Idle
        BY <3>1 DEF Release, ExpStates
      <3>2. CASE exp[d] \in [pc : {"range"}, ev : Events, todo : SUBSET Addrs,
                             held : BOOLEAN]
        BY <3>2 DEF Release, ExpStates
      <3>3. CASE exp[d] \in [pc : {"create"}, ev : Events, todo : SUBSET Addrs,
                             held : BOOLEAN, wa : Addrs]
        BY <3>3 DEF Release, ExpStates
      <3>4. CASE exp[d] \in [pc : {"publish"}, ev : Events, todo : SUBSET Addrs,
                             held : BOOLEAN, task : Task, try : 0..maxRetries-1]
        BY <3>4 DEF Release, ExpStates
      <3> QED  BY <3>1, <3>2, <3>3, <3>4 DEF TypeOK, ExpStates
    <2>3. Release(snd[d]) \in SndStates
      BY DEF TypeOK, Release, SndStates
    <2>4. Release(ded[d]) \in DedStates
      BY DEF TypeOK, Release, DedStates
    <2>5. /\ exp' \in [Instances -> ExpStates]
          /\ snd' \in [Instances -> SndStates]
          /\ ded' \in [Instances -> DedStates]
      BY <1>3, <2>2, <2>3, <2>4 DEF ConnLost, TypeOK
    <2>6. faults' \in Faults
      BY <1>3, FaultType DEF ConnLost
    <2> QED  BY <1>3, <2>1, <2>5, <2>6 DEF ConnLost, TypeOK
  <1>4. ASSUME NEW q \in RetryQueues, NEW t \in DOMAIN queue[q], RetryExpire(q, t)
        PROVE  TypeOK'
    <2>1. QueueTypeOK(queue')
      BY <1>4, ExpireQueue, AddFacts, QueueNames
    <2> QED  BY <1>4, <2>1 DEF RetryExpire, TypeOK
  <1>5. ASSUME NEW i \in DOMAIN logs, Resend(i) PROVE TypeOK'
    <2>1. QueueTypeOK(queue')
      BY <1>5, ResendQueue, AddFacts, QueueNames DEF TypeOK
    <2> QED  BY <1>5, <2>1, BoundAssumption DEF Resend, TypeOK
  <1> QED  BY <1>1, <1>2, <1>3, <1>4, <1>5 DEF Expire

LEMMA NextTypeOK ==
    ASSUME TypeOK, RetryDiscipline, [Next]_vars
    PROVE  TypeOK'
  <1>1. CASE UNCHANGED vars
    BY <1>1 DEF vars, TypeOK
  <1> QED  BY <1>1, ExpTypeOK, SndTypeOK, DedTypeOK, EnvTypeOK DEF Next

LEMMA InitTypeOK == Init => TypeOK
  BY BoundAssumption
     DEF Init, TypeOK, QueueTypeOK, NoMessages, ExpStates, SndStates, DedStates, Faults

-----------------------------------------------------------------------------
(* The retry header and the queues *)

\* The part of RetryDiscipline about the queues.
QueueDiscipline(Q) ==
    /\ \A k \in 1..4 : \A t : In(Q, RetryQueue[k], t) => t.rc = k
    /\ \A t : In(Q, "dispatch.tasks", t) => t.rc \in 0..4
    /\ \A t : In(Q, "dispatch.dead", t) => t.rc = 5

LEMMA DisciplineParts ==
    RetryDiscipline <=>
        /\ QueueDiscipline(queue)
        /\ \A d \in Instances : /\ exp[d].pc = "publish" => exp[d].task.rc = 0
                                /\ snd[d] # Idle => snd[d].task.rc \in 0..4
                                /\ ded[d] # Idle => ded[d].task.rc = 5
  BY DEF RetryDiscipline, QueueDiscipline, In

LEMMA DisciplineAdd ==
    ASSUME NEW Q, QueueTypeOK(Q), QueueDiscipline(Q),
           NEW r \in Queues, NEW m \in MessageType(r),
           \/ r = "matched.events"
           \/ r = "dispatch.tasks" /\ m.rc \in 0..4
           \/ m.rc \in 1..5 /\ r = RetryTarget(m.rc)
    PROVE  QueueDiscipline(Add(Q, r, m))
  <1>1. \A k \in 1..4 : RetryQueue[k] \in Queues
    BY RetryQueueFacts, QueueNames
  <1>2. \A k, l \in 1..4 : RetryQueue[k] = RetryQueue[l] => k = l
    BY DEF RetryQueue
  <1>3. \A k \in 1..4 : RetryQueue[k] \notin
            {"matched.events", "dispatch.tasks", "dispatch.dead"}
    BY RetryQueueFacts, QueueNames
  <1>4. \A q \in Queues : \A x :
            In(Add(Q, r, m), q, x) <=> In(Q, q, x) \/ (q = r /\ x = m)
    BY AddFacts
  <1> QED
    BY <1>1, <1>2, <1>3, <1>4, QueueNames DEF QueueDiscipline, RetryTarget

LEMMA DisciplineDequeue ==
    ASSUME NEW Q, QueueTypeOK(Q), QueueDiscipline(Q), NEW r \in Queues, NEW m
    PROVE  QueueDiscipline(Dequeue(Q, r, m))
  <1>1. \A k \in 1..4 : RetryQueue[k] \in Queues
    BY RetryQueueFacts, QueueNames
  <1> QED  BY <1>1, DequeueFacts, QueueNames DEF QueueDiscipline

LEMMA NextDiscipline ==
    ASSUME TypeOK, RetryDiscipline, [Next]_vars
    PROVE  RetryDiscipline'
  <1> DEFINE Handlers == \A d \in Instances :
                            /\ exp[d].pc = "publish" => exp[d].task.rc = 0
                            /\ snd[d] # Idle => snd[d].task.rc \in 0..4
                            /\ ded[d] # Idle => ded[d].task.rc = 5
  <1>0. /\ QueueTypeOK(queue) /\ QueueDiscipline(queue) /\ Handlers
        /\ exp \in [Instances -> ExpStates] /\ snd \in [Instances -> SndStates]
        /\ ded \in [Instances -> DedStates]
    BY DisciplineParts DEF TypeOK
  <1> SUFFICES QueueDiscipline(queue') /\ Handlers'
    BY DEF RetryDiscipline, QueueDiscipline, In
  <1>1. ASSUME NEW e \in Events, Matched(e)
        PROVE  QueueDiscipline(queue') /\ Handlers'
    BY <1>0, <1>1, MatchedQueue, DisciplineAdd, QueueNames DEF Matched
  <1>2. ASSUME NEW d \in Instances, ExpStep(d)
        PROVE  QueueDiscipline(queue') /\ Handlers'
    <2>1. ASSUME NEW e \in Events, ExpReceive(d, e)
          PROVE  QueueDiscipline(queue') /\ Handlers'
      BY <1>0, <2>1, DisciplineDequeue, QueueNames DEF ExpReceive
    <2>2. ASSUME NEW wa \in Addrs, ExpLookup(d, wa)
          PROVE  QueueDiscipline(queue') /\ Handlers'
      BY <1>0, <2>2 DEF ExpLookup, Loop
    <2>3. ASSUME ExpCreate(d) \/ ExpAck(d)
          PROVE  QueueDiscipline(queue') /\ Handlers'
      BY <1>0, <2>3 DEF ExpCreate, ExpAck, Loop, Idle
    <2>4. ASSUME ExpPublish(d)
          PROVE  QueueDiscipline(queue') /\ Handlers'
      <3>1. exp[d].task \in Task /\ exp[d].task.rc = 0
        BY <1>0, <2>4, ExpPublishQueue DEF ExpPublish
      <3>2. QueueDiscipline(queue')
        BY <1>0, <2>4, <3>1, ExpPublishQueue, DisciplineAdd, QueueNames
      <3>3. Handlers'
        <4>1. \/ exp' = [exp EXCEPT ![d].try = @ + 1]
              \/ Loop(d, exp[d].todo)
          BY <2>4 DEF ExpPublish
        <4>2. exp[d] \in [pc : {"publish"}, ev : Events, todo : SUBSET Addrs,
                         held : BOOLEAN, task : Task, try : 0..maxRetries-1]
          BY <1>0, <2>4 DEF ExpPublish, ExpStates, Idle
        <4> QED  BY <1>0, <2>4, <4>1, <4>2 DEF ExpPublish, Loop
      <3> QED  BY <3>2, <3>3
    <2> QED  BY <1>2, <2>1, <2>2, <2>3, <2>4 DEF ExpStep
  <1>3. ASSUME NEW d \in Instances, SndStep(d)
        PROVE  QueueDiscipline(queue') /\ Handlers'
    <2>1. ASSUME NEW t \in DOMAIN queue["dispatch.tasks"], SndReceive(d, t)
          PROVE  QueueDiscipline(queue') /\ Handlers'
      <3>1. t.rc \in 0..4
        BY <1>0 DEF QueueDiscipline, In
      <3> QED  BY <1>0, <2>1, <3>1, DisciplineDequeue, QueueNames DEF SndReceive
    <2>2. ASSUME SndPost(d) \/ SndUpdate(d) \/ SndIncr(d) \/ SndAck(d)
          PROVE  QueueDiscipline(queue') /\ Handlers'
      BY <1>0, <2>2 DEF SndPost, SndUpdate, SndIncr, SndAck, Idle, SndStates
    <2>3. ASSUME SndPublish(d)
          PROVE  QueueDiscipline(queue') /\ Handlers'
      <3>1. QueueDiscipline(queue')
        BY <1>0, <2>3, SndPublishQueue, DisciplineAdd, QueueNames
      <3>2. Handlers'
        BY <1>0, <2>3 DEF SndPublish, Idle, SndStates
      <3> QED  BY <3>1, <3>2
    <2> QED  BY <1>3, <2>1, <2>2, <2>3 DEF SndStep
  <1>4. ASSUME NEW d \in Instances, DedStep(d)
        PROVE  QueueDiscipline(queue') /\ Handlers'
    <2>1. ASSUME NEW t \in DOMAIN queue["dispatch.dead"], DedReceive(d, t)
          PROVE  QueueDiscipline(queue') /\ Handlers'
      <3>1. t.rc = 5
        BY <1>0 DEF QueueDiscipline, In
      <3> QED  BY <1>0, <2>1, <3>1, DisciplineDequeue, QueueNames DEF DedReceive
    <2>2. ASSUME DedMark(d) \/ DedAck(d)
          PROVE  QueueDiscipline(queue') /\ Handlers'
      BY <1>0, <2>2 DEF DedMark, DedAck, Idle, DedStates
    <2> QED  BY <1>4, <2>1, <2>2 DEF DedStep
  <1>5. ASSUME NEW d \in Instances, Crash(d) \/ ConnLost(d)
        PROVE  QueueDiscipline(queue') /\ Handlers'
    <2>1. QueueDiscipline(queue')
      <3>1. \A k \in 1..4 : RetryQueue[k] \in Queues /\ RetryQueue[k] \notin
                {"matched.events", "dispatch.tasks", "dispatch.dead"}
        BY RetryQueueFacts, QueueNames
      <3> QED  BY <1>0, <1>5, <3>1, RequeueQueue, QueueNames
               DEF QueueDiscipline, Crash, ConnLost, Held
    <2>2. Handlers'
      <3>1. CASE Crash(d)
        BY <1>0, <3>1 DEF Crash, Idle
      <3>2. CASE ConnLost(d)
        BY <1>0, <3>2 DEF ConnLost, Release, Idle, ExpStates, SndStates, DedStates
      <3> QED  BY <1>5, <3>1, <3>2
    <2> QED  BY <2>1, <2>2
  <1>6. ASSUME NEW q \in RetryQueues, NEW t \in DOMAIN queue[q], RetryExpire(q, t)
        PROVE  QueueDiscipline(queue') /\ Handlers'
    <2>1. t.rc \in 1..4
      BY <1>0 DEF QueueDiscipline, In, RetryQueues
    <2>2. QueueDiscipline(Dequeue(queue, q, t))
      BY <1>0, DisciplineDequeue, QueueNames
    <2>3. QueueDiscipline(queue')
      BY <1>6, <2>1, <2>2, ExpireQueue, DisciplineAdd, QueueNames
    <2> QED  BY <1>0, <1>6, <2>3 DEF RetryExpire
  <1>7. ASSUME NEW i \in DOMAIN logs, Resend(i)
        PROVE  QueueDiscipline(queue') /\ Handlers'
    <2>1. QueueDiscipline(queue')
      BY <1>0, <1>7, ResendQueue, DisciplineAdd, QueueNames
    <2> QED  BY <1>0, <1>7, <2>1 DEF Resend
  <1>8. CASE UNCHANGED vars
    BY <1>0, <1>8 DEF vars
  <1> QED  BY <1>1, <1>2, <1>3, <1>4, <1>5, <1>6, <1>7, <1>8 DEF Next, Expire

LEMMA InitDiscipline == Init => RetryDiscipline
  BY RetryQueueFacts, QueueNames DEF Init, RetryDiscipline, NoMessages, Idle

(***************************************************************************)
(* Every reachable state is well typed: no task ever carries a retry       *)
(* header above 5, whatever crashes, redeliveries and failed publishes     *)
(* the dispatchers go through.  (Needs RetryDiscipline: the sender adds    *)
(* one to the header it received.)                                         *)
(***************************************************************************)
THEOREM TypeCorrect == Spec => []TypeOK
  <1>1. Init => TypeOK /\ RetryDiscipline
    BY InitTypeOK, InitDiscipline
  <1>2. TypeOK /\ RetryDiscipline /\ [Next]_vars => (TypeOK /\ RetryDiscipline)'
    BY NextTypeOK, NextDiscipline
  <1> QED  BY <1>1, <1>2, PTL DEF Spec

(***************************************************************************)
(* The retry header decides the queue, for any number of dispatchers and   *)
(* under every fault: Sender.Handle never indexes outside its four routes  *)
(* and a task is dead-lettered exactly after the fifth failure.            *)
(***************************************************************************)
THEOREM RetryDisciplineHolds == Spec => []RetryDiscipline
  <1>1. Init => TypeOK /\ RetryDiscipline
    BY InitTypeOK, InitDiscipline
  <1>2. TypeOK /\ RetryDiscipline /\ [Next]_vars => (TypeOK /\ RetryDiscipline)'
    BY NextTypeOK, NextDiscipline
  <1> QED  BY <1>1, <1>2, PTL DEF Spec

-----------------------------------------------------------------------------
(* The rows of webhook_logs *)

\* What is established so far, as an invariant to start from.
Basic == TypeOK /\ RetryDiscipline

LEMMA BasicHolds == Spec => []Basic
  BY TypeCorrect, RetryDisciplineHolds, PTL DEF Basic

-----------------------------------------------------------------------------
(* Rows are added by ExpCreate only; ids, events and addresses never change
   and retry counters never go down. *)

NewRow(d) == [ev |-> exp[d].ev, wa |-> exp[d].wa, status |-> "pending", retry |-> 0]

SameRows == /\ DOMAIN logs' = DOMAIN logs
            /\ \A i \in DOMAIN logs : /\ logs'[i].ev = logs[i].ev
                                      /\ logs'[i].wa = logs[i].wa
                                      /\ logs'[i].retry >= logs[i].retry

LEMMA RetryIsNat == ASSUME TypeOK PROVE \A i \in DOMAIN logs : logs[i].retry \in Nat
  <1>1. \A i \in DOMAIN logs : logs[i] \in Log
    BY DEF TypeOK
  <1> QED  BY <1>1 DEF Log

LEMMA WriteRows ==
    ASSUME TypeOK, NEW id,
           \/ \E st \in {"success", "failed", "dead"} : Write(UpdateStatus(id, st))
           \/ Write(IncrRetryCount(id))
    PROVE  SameRows
  <1>0. \A i \in DOMAIN logs : logs[i].retry \in Nat
    BY RetryIsNat
  <1>1. ASSUME NEW st \in {"success", "failed", "dead"}, Write(UpdateStatus(id, st))
        PROVE  SameRows
    BY <1>0, <1>1, UpdateStatusFacts DEF TypeOK, Write, SameRows
  <1>2. ASSUME Write(IncrRetryCount(id)) PROVE SameRows
    <2>1. CASE logs' = IncrRetryCount(id)
      <3>1. /\ DOMAIN logs' = DOMAIN logs
            /\ \A i \in DOMAIN logs :
                  /\ logs'[i].ev = logs[i].ev /\ logs'[i].wa = logs[i].wa
                  /\ logs'[i].retry = IF i = id THEN logs[i].retry + 1
                                      ELSE logs[i].retry
        BY <2>1, IncrRetryCountFacts DEF TypeOK
      <3> QED  BY <1>0, <3>1 DEF SameRows
    <2>2. CASE logs' = logs
      BY <1>0, <2>2 DEF SameRows
    <2> QED  BY <1>2, <2>1, <2>2 DEF Write
  <1> QED  BY <1>1, <1>2

LEMMA UnchangedRows == ASSUME TypeOK, UNCHANGED logs PROVE SameRows
  BY RetryIsNat DEF SameRows

LEMMA RowsStep ==
    ASSUME TypeOK, [Next]_vars
    PROVE  \/ SameRows
           \/ \E d \in Instances : ExpCreate(d) /\ logs' = Append(logs, NewRow(d))
  <1>1. ASSUME NEW d \in Instances, ExpStep(d)
        PROVE  \/ SameRows
               \/ ExpCreate(d) /\ logs' = Append(logs, NewRow(d))
    BY <1>1, UnchangedRows DEF ExpStep, ExpReceive, ExpLookup, ExpCreate, ExpPublish,
                               ExpAck, NewRow
  <1>2. ASSUME NEW d \in Instances, SndStep(d) PROVE SameRows
    <2>1. CASE SndUpdate(d)
      BY <2>1, WriteRows DEF SndUpdate
    <2>2. CASE SndIncr(d)
      BY <2>2, WriteRows DEF SndIncr
    <2> QED  BY <1>2, <2>1, <2>2, UnchangedRows
             DEF SndStep, SndReceive, SndPost, SndPublish, SndAck
  <1>3. ASSUME NEW d \in Instances, DedStep(d) PROVE SameRows
    <2>1. CASE DedMark(d)
      BY <2>1, WriteRows DEF DedMark
    <2> QED  BY <1>3, <2>1, UnchangedRows DEF DedStep, DedReceive, DedAck
  <1>4. ASSUME \/ \E e \in Events : Matched(e)
               \/ \E d \in Instances : Crash(d) \/ ConnLost(d)
               \/ Expire
               \/ \E i \in DOMAIN logs : Resend(i)
               \/ UNCHANGED vars
        PROVE  SameRows
    BY <1>4, UnchangedRows DEF Matched, Crash, ConnLost, Expire, RetryExpire, Resend, vars
  <1> QED  BY <1>1, <1>2, <1>3, <1>4 DEF Next

LEMMA AppendFacts ==
    ASSUME TypeOK, NEW row, logs' = Append(logs, row)
    PROVE  /\ Len(logs) \in Nat
           /\ DOMAIN logs = 1..Len(logs)
           /\ DOMAIN logs' = 1..(Len(logs) + 1)
           /\ logs'[Len(logs) + 1] = row
           /\ \A i \in DOMAIN logs : logs'[i] = logs[i]
  BY DEF TypeOK

LEMMA ExistsStep ==
    ASSUME TypeOK, [Next]_vars, NEW e, NEW wa, ExistsByEventAndAddress(e, wa)
    PROVE  ExistsByEventAndAddress(e, wa)'
  <1>1. CASE SameRows
    BY <1>1 DEF SameRows, ExistsByEventAndAddress
  <1>2. ASSUME NEW d \in Instances, logs' = Append(logs, NewRow(d))
        PROVE  ExistsByEventAndAddress(e, wa)'
    BY <1>2, AppendFacts DEF ExistsByEventAndAddress
  <1> QED  BY <1>1, <1>2, RowsStep

-----------------------------------------------------------------------------
(* No watcher is forgotten, as long as the queries succeed *)

\* The expander of d has not acknowledged e and will still come to wa.
Pending(d, e, wa) == Held(exp[d]) /\ exp[d].ev = e /\ wa \in exp[d].todo

Remembered(e, wa) ==
    \/ ExistsByEventAndAddress(e, wa)
    \/ In(queue, "matched.events", e)
    \/ \E d \in Instances : Pending(d, e, wa)

LEMMA ExpKeepsPending ==
    ASSUME "db" \notin faults'.kinds, TypeOK, NEW d \in Instances, ExpStep(d),
           NEW e \in Events, NEW wa \in Watchers[e], << e, wa >> \in Routable,
           Pending(d, e, wa)
    PROVE  ExistsByEventAndAddress(e, wa)' \/ Pending(d, e, wa)'
  <1>0. /\ exp \in [Instances -> ExpStates] /\ exp[d] # Idle /\ exp[d].held
        /\ exp[d].ev = e /\ wa \in exp[d].todo
    BY DEF TypeOK, Pending, Held
  <1>1. ASSUME NEW a, Loop(d, exp[d].todo \ {a}), a # wa
        PROVE  Pending(d, e, wa)'
    BY <1>0, <1>1 DEF Loop, Pending, Held, Idle
  <1>2. ASSUME NEW a \in Addrs, ExpLookup(d, a)
        PROVE  ExistsByEventAndAddress(e, wa)' \/ Pending(d, e, wa)'
    <2>1. CASE exp' = [exp EXCEPT ![d] =
                          [pc |-> "create", ev |-> exp[d].ev, todo |-> exp[d].todo,
                           held |-> exp[d].held, wa |-> a]]
      BY <1>0, <2>1 DEF Pending, Held, Idle
    <2>2. CASE /\ ExistsByEventAndAddress(exp[d].ev, a)
                     \/ << exp[d].ev, a >> \notin Routable
               /\ Loop(d, exp[d].todo \ {a})
      <3>1. CASE a = wa
        BY <1>0, <1>2, <2>2, <3>1 DEF ExpLookup, ExistsByEventAndAddress
      <3> QED  BY <1>1, <2>2, <3>1
    <2> QED  BY <1>2, <2>1, <2>2 DEF ExpLookup, Fault
  <1>3. ASSUME ExpCreate(d)
        PROVE  ExistsByEventAndAddress(e, wa)' \/ Pending(d, e, wa)'
    <2>1. CASE logs' = Append(logs, NewRow(d))
      <3>1. CASE exp[d].wa = wa
        BY <1>0, <2>1, <3>1, AppendFacts DEF ExistsByEventAndAddress, NewRow
      <3>2. CASE exp[d].wa # wa
        <4>1. CASE Loop(d, exp[d].todo \ {exp[d].wa})
          BY <1>1, <3>2, <4>1
        <4>2. CASE exp' = [exp EXCEPT ![d] =
                        [pc |-> "publish", ev |-> exp[d].ev,
                         todo |-> exp[d].todo \ {exp[d].wa}, held |-> exp[d].held,
                         task |-> [ev |-> exp[d].ev, wa |-> exp[d].wa,
                                   id |-> Len(logs) + 1, rc |-> 0],
                         try |-> 0]]
          BY <1>0, <3>2, <4>2 DEF Pending, Held, Idle
        <4> QED  BY <1>3, <4>1, <4>2 DEF ExpCreate
      <3> QED  BY <3>1, <3>2
    <2>2. CASE /\ Loop(d, exp[d].todo \ {exp[d].wa}) /\ UNCHANGED logs
               /\ ExistsByEventAndAddress(exp[d].ev, exp[d].wa)
      <3>1. CASE exp[d].wa = wa
        BY <1>0, <2>2, <3>1 DEF ExistsByEventAndAddress
      <3> QED  BY <1>1, <2>2, <3>1
    <2> QED  BY <1>3, <2>1, <2>2 DEF ExpCreate, Fault, NewRow
  <1>4. ASSUME ExpPublish(d)
        PROVE  Pending(d, e, wa)'
    <2>1. exp[d] \in [pc : {"publish"}, ev : Events, todo : SUBSET Addrs,
                      held : BOOLEAN, task : Task, try : 0..maxRetries-1]
      BY <1>0, <1>4 DEF ExpPublish, ExpStates
    <2>2. CASE Loop(d, exp[d].todo)
      BY <1>0, <2>2 DEF Loop, Pending, Held, Idle
    <2>3. CASE exp' = [exp EXCEPT ![d].try = @ + 1]
      BY <1>0, <2>1, <2>3 DEF Pending, Held, Idle
    <2> QED  BY <1>4, <2>2, <2>3 DEF ExpPublish
  <1>5. ~ ExpAck(d)
    BY <1>0 DEF ExpAck
  <1>6. \A x \in Events : ~ ExpReceive(d, x)
    BY <1>0 DEF ExpReceive
  <1> QED  BY <1>2, <1>3, <1>4, <1>5, <1>6 DEF ExpStep

LEMMA RememberedStep ==
    ASSUME "db" \notin faults'.kinds, Basic, [Next]_vars,
           NEW e \in Events, NEW wa \in Watchers[e], << e, wa >> \in Routable,
           Remembered(e, wa)
    PROVE  Remembered(e, wa)'
  <1>0. /\ TypeOK /\ RetryDiscipline /\ QueueTypeOK(queue)
        /\ exp \in [Instances -> ExpStates]
    BY DEF Basic, TypeOK
  <1>1. CASE ExistsByEventAndAddress(e, wa)
    BY <1>0, <1>1, ExistsStep DEF Remembered
  <1>2. CASE In(queue, "matched.events", e)
    <2>1. ASSUME NEW d \in Instances, ExpReceive(d, e) PROVE Pending(d, e, wa)'
      BY <1>0, <2>1 DEF ExpReceive, Fault, Pending, Held, Idle
    <2>2. ASSUME NEW d \in Instances, NEW x \in Events, ExpReceive(d, x), x # e
          PROVE  In(queue, "matched.events", e)'
      BY <1>0, <1>2, <2>2, DequeueFacts, QueueNames DEF ExpReceive, In
    <2>3. ASSUME NEW d \in Instances, SndStep(d)
          PROVE  In(queue, "matched.events", e)'
      <3>1. CASE SndPublish(d)
        BY <1>0, <1>2, <3>1, SndPublishQueue, AddFacts, QueueNames DEF In
      <3>2. ASSUME NEW t, SndReceive(d, t) PROVE In(queue, "matched.events", e)'
        BY <1>0, <1>2, <3>2, DequeueFacts, QueueNames DEF SndReceive, In
      <3> QED  BY <1>2, <2>3, <3>1, <3>2
               DEF SndStep, SndPost, SndUpdate, SndIncr, SndAck, In
    <2>4. ASSUME NEW d \in Instances, DedStep(d)
          PROVE  In(queue, "matched.events", e)'
      <3>1. ASSUME NEW t, DedReceive(d, t) PROVE In(queue, "matched.events", e)'
        BY <1>0, <1>2, <3>1, DequeueFacts, QueueNames DEF DedReceive, In
      <3> QED  BY <1>2, <2>4, <3>1 DEF DedStep, DedMark, DedAck, In
    <2>5. ASSUME NEW d \in Instances, ExpPublish(d)
          PROVE  In(queue, "matched.events", e)'
      BY <1>0, <1>2, <2>5, ExpPublishQueue, AddFacts, QueueNames DEF In
    <2>6. ASSUME NEW d \in Instances, Crash(d) \/ ConnLost(d)
          PROVE  In(queue, "matched.events", e)'
      BY <1>0, <1>2, <2>6, RequeueQueue, QueueNames DEF Crash, ConnLost, In
    <2>7. ASSUME NEW q \in RetryQueues, NEW t \in DOMAIN queue[q], RetryExpire(q, t)
          PROVE  In(queue, "matched.events", e)'
      BY <1>0, <1>2, <2>7, ExpireQueue, DequeueFacts, AddFacts, QueueNames DEF In
    <2>8. ASSUME NEW i \in DOMAIN logs, Resend(i)
          PROVE  In(queue, "matched.events", e)'
      BY <1>0, <1>2, <2>8, ResendQueue, AddFacts, QueueNames DEF In
    <2>9. ASSUME NEW x \in Events, Matched(x)
          PROVE  In(queue, "matched.events", e)'
      BY <1>0, <1>2, <2>9, MatchedQueue, AddFacts, QueueNames DEF In
    <2>10. ASSUME NEW d \in Instances, NEW a \in Addrs,
                  ExpLookup(d, a) \/ ExpCreate(d) \/ ExpAck(d)
           PROVE  In(queue, "matched.events", e)'
      BY <1>2, <2>10 DEF ExpLookup, ExpCreate, ExpAck, In
    <2>11. ASSUME NEW d \in Instances, ExpCreate(d) \/ ExpAck(d)
           PROVE  In(queue, "matched.events", e)'
      BY <1>2, <2>11 DEF ExpCreate, ExpAck, In
    <2>12. ASSUME UNCHANGED vars PROVE In(queue, "matched.events", e)'
      BY <1>2, <2>12 DEF vars, In
    <2> QED  BY <2>1, <2>2, <2>3, <2>4, <2>5, <2>6, <2>7, <2>8, <2>9, <2>10, <2>11,
                <2>12 DEF Next, ExpStep, Expire, Remembered
  <1>3. ASSUME NEW d \in Instances, Pending(d, e, wa) PROVE Remembered(e, wa)'
    <2>1. ASSUME ExpStep(d) PROVE Remembered(e, wa)'
      BY <1>0, <1>3, <2>1, ExpKeepsPending DEF Remembered
    <2>2. ASSUME Crash(d) \/ ConnLost(d) PROVE In(queue, "matched.events", e)'
      BY <1>0, <1>3, <2>2, RequeueQueue, QueueNames DEF Crash, ConnLost, In, Pending
    <2>3. ASSUME NEW x \in Instances, x # d,
                 ExpStep(x) \/ Crash(x) \/ ConnLost(x)
          PROVE  exp'[d] = exp[d]
      BY <1>0, <2>3 DEF ExpStep, ExpReceive, ExpLookup, ExpCreate, ExpPublish, ExpAck,
                        Loop, Crash, ConnLost
    <2>4. ASSUME NEW x \in Instances, SndStep(x) \/ DedStep(x)
          PROVE  exp'[d] = exp[d]
      BY <2>4 DEF SndStep, SndReceive, SndPost, SndUpdate, SndIncr, SndPublish,
                  SndAck, DedStep, DedReceive, DedMark, DedAck
    <2>5. ASSUME \/ \E x \in Events : Matched(x)
                 \/ Expire
                 \/ \E i \in DOMAIN logs : Resend(i)
                 \/ UNCHANGED vars
          PROVE  exp'[d] = exp[d]
      BY <2>5 DEF Matched, Expire, RetryExpire, Resend, vars
    <2>6. ASSUME exp'[d] = exp[d] PROVE Remembered(e, wa)'
      BY <1>3, <2>6 DEF Pending, Held, Remembered
    <2> QED  BY <2>1, <2>2, <2>3, <2>4, <2>5, <2>6 DEF Next, Remembered
  <1> QED  BY <1>1, <1>2, <1>3 DEF Remembered

(***************************************************************************)
(* A published event is never lost on its way to the rows: with any number *)
(* of dispatchers that crash and lose connections, every routable watcher  *)
(* has its row, or the event is still queued, or its unacknowledged        *)
(* consumer will still come to that watcher.                               *)
(***************************************************************************)
THEOREM NoWatcherForgottenHolds == Spec => []NoWatcherForgotten
  <1>1. Init => NoWatcherForgotten
    BY DEF Init, NoWatcherForgotten
  <1>2. Basic /\ NoWatcherForgotten /\ [Next]_vars => NoWatcherForgotten'
    <2> SUFFICES ASSUME Basic, NoWatcherForgotten, [Next]_vars,
                        "db" \notin faults'.kinds,
                        NEW e \in Events, NEW wa \in Watchers[e],
                        matched'[e] > 0, << e, wa >> \in Routable
                 PROVE  Remembered(e, wa)'
      BY DEF NoWatcherForgotten, Remembered, Pending, In,
             ExistsByEventAndAddress
    <2>0. "db" \notin faults.kinds
      BY KindsGrow
    <2>1. CASE matched[e] > 0
      <3>1. Remembered(e, wa)
        BY <2>0, <2>1 DEF NoWatcherForgotten, Remembered, Pending, In,
               ExistsByEventAndAddress
      <3> QED  BY <3>1, RememberedStep
    <2>2. CASE ~(matched[e] > 0)
      <3>1. Matched(e)
        <4>1. matched \in [Events -> Nat]
          BY BoundAssumption DEF Basic, TypeOK
        <4>2. ASSUME NEW x \in Events, Matched(x), x # e PROVE FALSE
          BY <2>2, <4>1, <4>2 DEF Matched
        <4>3. ASSUME \/ \E d \in Instances : \/ ExpStep(d) \/ SndStep(d) \/ DedStep(d)
                                            \/ Crash(d) \/ ConnLost(d)
                     \/ Expire
                     \/ \E i \in DOMAIN logs : Resend(i)
                     \/ UNCHANGED vars
              PROVE  matched' = matched
          BY <4>3 DEF ExpStep, ExpReceive, ExpLookup, ExpCreate, ExpPublish, ExpAck,
                      SndStep, SndReceive, SndPost, SndUpdate, SndIncr, SndPublish,
                      SndAck, DedStep, DedReceive, DedMark, DedAck, Crash, ConnLost,
                      Expire, RetryExpire, Resend, vars
        <4> QED  BY <2>2, <4>2, <4>3 DEF Next
      <3>2. queue' = Add(queue, "matched.events", e)
        BY <3>1, MatchedQueue DEF Basic
      <3> QED  BY <3>2, AddFacts, QueueNames DEF Basic, TypeOK, Remembered, In
    <2> QED  BY <2>1, <2>2
  <1> QED  BY <1>1, <1>2, BasicHolds, PTL DEF Spec

-----------------------------------------------------------------------------
(* Dead means exhausted, up to the writes that failed *)

LEMMA FaultsStep ==
    ASSUME [Next]_vars
    PROVE  faults' = faults \/ \E kind \in FaultKinds : Fault(kind)
  <1> DEFINE Goal == faults' = faults \/ \E kind \in FaultKinds : Fault(kind)
  <1>0. ASSUME NEW kind, Fault(kind) PROVE Goal
    BY <1>0 DEF Fault
  <1>1. ASSUME NEW d \in Instances, ExpStep(d) PROVE Goal
    BY <1>0, <1>1 DEF ExpStep, ExpReceive, ExpLookup, ExpCreate, ExpPublish, ExpAck,
                      publishOnce
  <1>2. ASSUME NEW d \in Instances, SndStep(d) \/ DedStep(d) PROVE Goal
    BY <1>0, <1>2 DEF SndStep, SndReceive, SndPost, SndUpdate, SndIncr, SndPublish, SndAck,
                      DedStep, DedReceive, DedMark, DedAck, publishOnce, Write
  <1>3. ASSUME NEW d \in Instances, Crash(d) \/ ConnLost(d) PROVE Goal
    BY <1>0, <1>3 DEF Crash, ConnLost
  <1> QED  BY <1>1, <1>2, <1>3 DEF Next, vars, Matched, Expire, RetryExpire, Resend

\* The number of lost writes never falls, and a failed write raises it.
LEMMA LostFacts ==
    ASSUME TypeOK, [Next]_vars
    PROVE  /\ LostWrites \in Nat /\ LostWrites' \in Nat /\ LostWrites' >= LostWrites
           /\ Fault("db") => LostWrites' >= LostWrites + 1
  <1>1. faults.count \in Nat /\ faults = [count |-> faults.count, kinds |-> faults.kinds]
    BY BoundAssumption DEF TypeOK, Faults
  <1>2. ASSUME NEW kind, Fault(kind)
        PROVE  /\ faults'.count = faults.count + 1
               /\ faults'.kinds = faults.kinds \cup {kind}
    BY <1>2 DEF Fault
  <1>3. CASE faults' = faults
    <2>1. LostWrites' = LostWrites
      BY <1>3 DEF LostWrites
    <2>2. ~ Fault("db")
      BY <1>1, <1>2, <1>3
    <2> QED  BY <1>1, <2>1, <2>2 DEF LostWrites
  <1>4. ASSUME NEW kind \in FaultKinds, Fault(kind)
        PROVE  LostWrites' \in Nat /\ LostWrites' >= LostWrites /\ LostWrites \in Nat
    BY <1>1, <1>2, <1>4 DEF LostWrites
  <1>5. ASSUME Fault("db") PROVE LostWrites' >= LostWrites + 1
    BY <1>1, <1>2, <1>5 DEF LostWrites
  <1> QED  BY <1>3, <1>4, <1>5, FaultsStep

\* In table L the retry counter of t's row has kept up with t's header, up to n
\* lost writes (tasks of Resend name no row).
Counted(L, n, t) == t.id = 0 \/ (t.id \in DOMAIN L /\ L[t.id].retry + n >= t.rc)

QueueCounted ==
    \A q \in Queues \ {"matched.events"} : \A t : In(queue, q, t) => Counted(logs, LostWrites, t)

HandlerCounted(d) ==
    /\ exp[d].pc = "publish" => Counted(logs, LostWrites, exp[d].task)
    /\ snd[d] # Idle => Counted(logs, LostWrites, snd[d].task)
    /\ snd[d].pc = "publish" => Counted(logs, LostWrites, Failed(snd[d].task))
    /\ ded[d] # Idle => Counted(logs, LostWrites, ded[d].task)

DeadCounted ==
    \A i \in DOMAIN logs : logs[i].status = "dead" => logs[i].retry + LostWrites >= 5

\* DeadMeansExhausted with what makes it inductive: every task in the system is
\* counted, and a sender about to publish has counted one failure more.
DeadInv == /\ DeadCounted
           /\ QueueCounted
           /\ \A d \in Instances : HandlerCounted(d)

LEMMA FailedIsTask == ASSUME NEW t \in Task, t.rc \in 0..4 PROVE Failed(t) \in Task
  BY DEF Task, Failed

LEMMA TaskTypes ==
    ASSUME Basic
    PROVE  /\ \A q \in Queues \ {"matched.events"} : \A t : In(queue, q, t) => t \in Task
           /\ \A d \in Instances :
                 /\ exp[d].pc = "publish" => exp[d].task \in Task
                 /\ snd[d] # Idle => snd[d].task \in Task /\ Failed(snd[d].task) \in Task
                 /\ ded[d] # Idle => ded[d].task \in Task
  <1>1. \A q \in Queues \ {"matched.events"} : \A t : In(queue, q, t) => t \in Task
    BY QueueNames DEF Basic, TypeOK, QueueTypeOK, In
  <1>2. ASSUME NEW d \in Instances
        PROVE  /\ exp[d].pc = "publish" => exp[d].task \in Task
               /\ snd[d] # Idle => snd[d].task \in Task /\ snd[d].task.rc \in 0..4
               /\ ded[d] # Idle => ded[d].task \in Task
    BY DEF Basic, TypeOK, ExpStates, SndStates, DedStates, Idle, RetryDiscipline
  <1> QED  BY <1>1, <1>2, FailedIsTask

LEMMA CountedStep ==
    ASSUME Basic, [Next]_vars, NEW t \in Task, Counted(logs, LostWrites, t)
    PROVE  Counted(logs', LostWrites', t)
  <1>0. /\ TypeOK /\ \A i \in DOMAIN logs : logs[i].retry \in Nat
        /\ LostWrites \in Nat /\ LostWrites' \in Nat /\ LostWrites' >= LostWrites
        /\ t.rc \in Nat
    BY RetryIsNat, LostFacts DEF Basic, Task
  <1>1. CASE SameRows
    <2>1. TypeOK'
      BY NextTypeOK DEF Basic
    <2>2. \A i \in DOMAIN logs' : logs'[i].retry \in Nat
      <3>1. \A i \in DOMAIN logs' : logs'[i] \in Log
        BY <2>1 DEF TypeOK
      <3> QED  BY <3>1 DEF Log
    <2> QED  BY <1>0, <1>1, <2>2 DEF SameRows, Counted
  <1>2. ASSUME NEW d \in Instances, logs' = Append(logs, NewRow(d))
        PROVE  Counted(logs', LostWrites', t)
    BY <1>0, <1>2, AppendFacts DEF Counted
  <1> QED  BY <1>0, <1>1, <1>2, RowsStep

\* What was counted before a step is counted after it.
LEMMA CountedKept ==
    ASSUME Basic, DeadInv, [Next]_vars
    PROVE  /\ \A q \in Queues \ {"matched.events"} : \A t :
                 In(queue, q, t) => Counted(logs', LostWrites', t)
           /\ \A d \in Instances :
                 /\ exp[d].pc = "publish" => Counted(logs', LostWrites', exp[d].task)
                 /\ snd[d] # Idle => Counted(logs', LostWrites', snd[d].task)
                 /\ snd[d].pc = "publish" => Counted(logs', LostWrites', Failed(snd[d].task))
                 /\ ded[d] # Idle => Counted(logs', LostWrites', ded[d].task)
  <1>1. \A d \in Instances : snd[d].pc = "publish" => snd[d] # Idle
    BY DEF Idle
  <1> QED  BY <1>1, TaskTypes, CountedStep DEF DeadInv, QueueCounted, HandlerCounted

LEMMA QueueCountedStep ==
    ASSUME Basic, DeadInv, [Next]_vars
    PROVE  QueueCounted'
  <1> DEFINE Old == \A q \in Queues \ {"matched.events"} : \A t :
                        In(queue, q, t) => Counted(logs', LostWrites', t)
  <1>0. /\ TypeOK /\ RetryDiscipline /\ QueueTypeOK(queue) /\ Old
    BY CountedKept DEF Basic, TypeOK
  <1> SUFFICES \A q \in Queues \ {"matched.events"} : \A t :
                        In(queue', q, t) => Counted(logs', LostWrites', t)
    BY DEF QueueCounted, In
  <1>1. ASSUME NEW e \in Events, Matched(e)
        PROVE  \A q \in Queues \ {"matched.events"} : \A t :
                        In(queue', q, t) => Counted(logs', LostWrites', t)
    BY <1>0, <1>1, MatchedQueue, AddFacts, QueueNames
  <1>2. ASSUME NEW d \in Instances, ExpStep(d)
        PROVE  \A q \in Queues \ {"matched.events"} : \A t :
                        In(queue', q, t) => Counted(logs', LostWrites', t)
    <2>1. ASSUME NEW e \in Events, ExpReceive(d, e)
          PROVE  \A q \in Queues \ {"matched.events"} : \A t :
                          In(queue', q, t) => Counted(logs', LostWrites', t)
      BY <1>0, <2>1, DequeueFacts, QueueNames DEF ExpReceive
    <2>2. ASSUME ExpPublish(d)
          PROVE  \A q \in Queues \ {"matched.events"} : \A t :
                          In(queue', q, t) => Counted(logs', LostWrites', t)
      <3>1. Counted(logs', LostWrites', exp[d].task)
        BY <2>2, CountedKept DEF ExpPublish
      <3> QED  BY <1>0, <2>2, <3>1, ExpPublishQueue, AddFacts, QueueNames
    <2> QED  BY <1>0, <1>2, <2>1, <2>2 DEF ExpStep, ExpLookup, ExpCreate, ExpAck
  <1>3. ASSUME NEW d \in Instances, SndStep(d)
        PROVE  \A q \in Queues \ {"matched.events"} : \A t :
                        In(queue', q, t) => Counted(logs', LostWrites', t)
    <2>1. ASSUME NEW t, SndReceive(d, t)
          PROVE  \A q \in Queues \ {"matched.events"} : \A x :
                          In(queue', q, x) => Counted(logs', LostWrites', x)
      BY <1>0, <2>1, DequeueFacts, QueueNames DEF SndReceive
    <2>2. ASSUME SndPublish(d)
          PROVE  \A q \in Queues \ {"matched.events"} : \A t :
                          In(queue', q, t) => Counted(logs', LostWrites', t)
      <3>1. Counted(logs', LostWrites', Failed(snd[d].task))
        BY <2>2, CountedKept DEF SndPublish
      <3> QED  BY <1>0, <2>2, <3>1, SndPublishQueue, AddFacts, QueueNames
    <2> QED  BY <1>0, <1>3, <2>1, <2>2 DEF SndStep, SndPost, SndUpdate, SndIncr, SndAck
  <1>4. ASSUME NEW d \in Instances, DedStep(d)
        PROVE  \A q \in Queues \ {"matched.events"} : \A t :
                        In(queue', q, t) => Counted(logs', LostWrites', t)
    <2>1. ASSUME NEW t, DedReceive(d, t)
          PROVE  \A q \in Queues \ {"matched.events"} : \A x :
                          In(queue', q, x) => Counted(logs', LostWrites', x)
      BY <1>0, <2>1, DequeueFacts, QueueNames DEF DedReceive
    <2> QED  BY <1>0, <1>4, <2>1 DEF DedStep, DedMark, DedAck
  <1>5. ASSUME NEW d \in Instances, Crash(d) \/ ConnLost(d)
        PROVE  \A q \in Queues \ {"matched.events"} : \A t :
                        In(queue', q, t) => Counted(logs', LostWrites', t)
    <2>1. /\ Held(snd[d]) => Counted(logs', LostWrites', snd[d].task)
          /\ Held(ded[d]) => Counted(logs', LostWrites', ded[d].task)
      BY CountedKept DEF Held
    <2> QED  BY <1>0, <1>5, <2>1, RequeueQueue, QueueNames DEF Crash, ConnLost
  <1>6. ASSUME NEW r \in RetryQueues, NEW m \in DOMAIN queue[r], RetryExpire(r, m)
        PROVE  \A q \in Queues \ {"matched.events"} : \A t :
                        In(queue', q, t) => Counted(logs', LostWrites', t)
    <2>1. Counted(logs', LostWrites', m)
      BY <1>0, QueueNames DEF In
    <2> QED  BY <1>0, <1>6, <2>1, ExpireQueue, DequeueFacts, AddFacts, QueueNames
  <1>7. ASSUME NEW i \in DOMAIN logs, Resend(i)
        PROVE  \A q \in Queues \ {"matched.events"} : \A t :
                        In(queue', q, t) => Counted(logs', LostWrites', t)
    BY <1>0, <1>7, ResendQueue, AddFacts, QueueNames DEF Counted
  <1>8. CASE UNCHANGED vars
    BY <1>0, <1>8 DEF vars
  <1> QED  BY <1>1, <1>2, <1>3, <1>4, <1>5, <1>6, <1>7, <1>8 DEF Next, Expire

-----------------------------------------------------------------------------
(* What can happen to the handlers of one instance *)

LEMMA HandlerFrame ==
    ASSUME TypeOK, [Next]_vars, NEW x \in Instances
    PROVE  /\ \/ exp'[x] = exp[x] \/ ExpStep(x)
              \/ Crash(x) /\ exp'[x] = Idle
              \/ ConnLost(x) /\ exp'[x] = Release(exp[x])
           /\ \/ snd'[x] = snd[x] \/ SndStep(x)
              \/ Crash(x) /\ snd'[x] = Idle
              \/ ConnLost(x) /\ snd'[x] = Release(snd[x])
           /\ \/ ded'[x] = ded[x] \/ DedStep(x)
              \/ Crash(x) /\ ded'[x] = Idle
              \/ ConnLost(x) /\ ded'[x] = Release(ded[x])
  <1>0. /\ exp \in [Instances -> ExpStates] /\ snd \in [Instances -> SndStates]
        /\ ded \in [Instances -> DedStates]
    BY DEF TypeOK
  <1>1. ASSUME NEW d \in Instances, ExpStep(d)
        PROVE  (d # x => exp'[x] = exp[x]) /\ snd' = snd /\ ded' = ded
    BY <1>0, <1>1 DEF ExpStep, ExpReceive, ExpLookup, ExpCreate, ExpPublish, ExpAck, Loop
  <1>2. ASSUME NEW d \in Instances, SndStep(d)
        PROVE  (d # x => snd'[x] = snd[x]) /\ exp' = exp /\ ded' = ded
    BY <1>0, <1>2 DEF SndStep, SndReceive, SndPost, SndUpdate, SndIncr, SndPublish,
                      SndAck
  <1>3. ASSUME NEW d \in Instances, DedStep(d)
        PROVE  (d # x => ded'[x] = ded[x]) /\ exp' = exp /\ snd' = snd
    BY <1>0, <1>3 DEF DedStep, DedReceive, DedMark, DedAck
  <1>4. ASSUME NEW d \in Instances, Crash(d)
        PROVE  \/ d # x /\ exp'[x] = exp[x] /\ snd'[x] = snd[x] /\ ded'[x] = ded[x]
               \/ d = x /\ exp'[x] = Idle /\ snd'[x] = Idle /\ ded'[x] = Idle
    BY <1>0, <1>4 DEF Crash
  <1>5. ASSUME NEW d \in Instances, ConnLost(d)
        PROVE  \/ d # x /\ exp'[x] = exp[x] /\ snd'[x] = snd[x] /\ ded'[x] = ded[x]
               \/ /\ d = x /\ exp'[x] = Release(exp[x]) /\ snd'[x] = Release(snd[x])
                  /\ ded'[x] = Release(ded[x])
    BY <1>0, <1>5 DEF ConnLost
  <1>6. ASSUME \/ \E e \in Events : Matched(e)
               \/ Expire
               \/ \E i \in DOMAIN logs : Resend(i)
               \/ UNCHANGED vars
        PROVE  exp' = exp /\ snd' = snd /\ ded' = ded
    BY <1>6 DEF Matched, Expire, RetryExpire, Resend, vars
  <1> QED  BY <1>1, <1>2, <1>3, <1>4, <1>5, <1>6 DEF Next

LEMMA ReleaseFacts ==
    ASSUME TypeOK, NEW x \in Instances
    PROVE  /\ Release(exp[x]).pc = exp[x].pc
           /\ exp[x].pc = "publish" => Release(exp[x]).task = exp[x].task
           /\ Release(snd[x]).pc = snd[x].pc
           /\ snd[x] # Idle => Release(snd[x]).task = snd[x].task
           /\ Release(snd[x]) # Idle => snd[x] # Idle
           /\ Release(ded[x]).pc = ded[x].pc
           /\ ded[x] # Idle => Release(ded[x]).task = ded[x].task
           /\ Release(ded[x]) # Idle => ded[x] # Idle
  <1>1. exp[x] \in ExpStates /\ snd[x] \in SndStates /\ ded[x] \in DedStates
    BY DEF TypeOK
  <1>2. /\ Release(exp[x]).pc = exp[x].pc
        /\ exp[x].pc = "publish" => Release(exp[x]).task = exp[x].task
    <2>1. CASE exp[x] = Idle
      BY <2>1 DEF Release, Idle
    <2>2. CASE exp[x] \in [pc : {"range"}, ev : Events, todo : SUBSET Addrs,
                           held : BOOLEAN]
      BY <2>2 DEF Release
    <2>3. CASE exp[x] \in [pc : {"create"}, ev : Events, todo : SUBSET Addrs,
                           held : BOOLEAN, wa : Addrs]
      BY <2>3 DEF Release
    <2>4. CASE exp[x] \in [pc : {"publish"}, ev : Events, todo : SUBSET Addrs,
                           held : BOOLEAN, task : Task, try : 0..maxRetries-1]
      BY <2>4 DEF Release
    <2> QED  BY <1>1, <2>1, <2>2, <2>3, <2>4 DEF ExpStates
  <1>3. /\ Release(snd[x]).pc = snd[x].pc
        /\ snd[x] # Idle => Release(snd[x]).task = snd[x].task
        /\ Release(snd[x]) # Idle => snd[x] # Idle
    BY <1>1 DEF Release, SndStates, Idle
  <1>4. /\ Release(ded[x]).pc = ded[x].pc
        /\ ded[x] # Idle => Release(ded[x]).task = ded[x].task
        /\ Release(ded[x]) # Idle => ded[x] # Idle
    BY <1>1 DEF Release, DedStates, Idle
  <1> QED  BY <1>2, <1>3, <1>4

LEMMA HandlerCountedStep ==
    ASSUME Basic, DeadInv, [Next]_vars, NEW x \in Instances
    PROVE  HandlerCounted(x)'
  <1>L. /\ LostWrites \in Nat /\ LostWrites' \in Nat /\ LostWrites' >= LostWrites
        /\ Fault("db") => LostWrites' >= LostWrites + 1
    BY LostFacts DEF Basic
  <1>0. /\ TypeOK /\ exp \in [Instances -> ExpStates]
        /\ snd \in [Instances -> SndStates] /\ ded \in [Instances -> DedStates]
    BY DEF Basic, TypeOK
  <1>1. exp'[x].pc = "publish" => Counted(logs', LostWrites', exp'[x].task)
    <2>1. CASE exp'[x] = exp[x]
      BY <2>1, CountedKept
    <2>2. ASSUME ExpStep(x), exp'[x].pc = "publish"
          PROVE  Counted(logs', LostWrites', exp'[x].task)
      <3>1. CASE ExpCreate(x)
        <4>1. /\ exp'[x].task.id = Len(logs) + 1 /\ exp'[x].task.rc = 0
              /\ logs' = Append(logs, NewRow(x))
          BY <1>0, <2>2, <3>1 DEF ExpCreate, Loop, NewRow
        <4>2. NewRow(x).retry = 0
          BY DEF NewRow
        <4> QED  BY <1>0, <1>L, <4>1, <4>2, AppendFacts DEF Counted
      <3>2. CASE ExpPublish(x)
        <4>1. exp[x] \in [pc : {"publish"}, ev : Events, todo : SUBSET Addrs,
                          held : BOOLEAN, task : Task, try : 0..maxRetries-1]
          BY <1>0, <3>2 DEF ExpPublish, ExpStates, Idle
        <4>2. exp'[x].task = exp[x].task /\ exp[x].pc = "publish"
          BY <1>0, <2>2, <3>2, <4>1 DEF ExpPublish, Loop
        <4> QED  BY <4>2, CountedKept
      <3>3. ASSUME NEW e, ExpReceive(x, e) PROVE exp'[x].pc = "range"
        BY <1>0, <3>3 DEF ExpReceive
      <3>4. ASSUME NEW wa, ExpLookup(x, wa) PROVE exp'[x].pc # "publish"
        BY <1>0, <3>4 DEF ExpLookup, Loop
      <3>5. ASSUME ExpAck(x) PROVE exp'[x].pc = "idle"
        BY <1>0, <3>5 DEF ExpAck, Idle
      <3> QED  BY <2>2, <3>1, <3>2, <3>3, <3>4, <3>5 DEF ExpStep
    <2>3. CASE exp'[x] = Release(exp[x])
      BY <1>0, <2>3, ReleaseFacts, CountedKept
    <2> QED  BY <1>0, <2>1, <2>2, <2>3, HandlerFrame DEF Idle
  <1>2. /\ snd'[x] # Idle => Counted(logs', LostWrites', snd'[x].task)
        /\ snd'[x].pc = "publish" => Counted(logs', LostWrites', Failed(snd'[x].task))
    <2>1. CASE snd'[x] = snd[x]
      BY <2>1, CountedKept
    <2>2. CASE SndStep(x)
      <3>1. ASSUME NEW t, SndReceive(x, t)
            PROVE  Counted(logs', LostWrites', snd'[x].task) /\ snd'[x].pc # "publish"
        <4>1. Counted(logs', LostWrites', t)
          BY <3>1, CountedKept, QueueNames DEF SndReceive, In
        <4> QED  BY <1>0, <3>1, <4>1 DEF SndReceive
      <3>2. CASE SndPost(x) \/ SndUpdate(x)
        <4>1. snd'[x].task = snd[x].task /\ snd[x] # Idle /\ snd'[x].pc # "publish"
          BY <1>0, <3>2 DEF SndPost, SndUpdate, SndStates, Idle
        <4> QED  BY <4>1, CountedKept
      <3>3. CASE SndIncr(x)
        <4> DEFINE t == snd[x].task
        <4>1. snd'[x].task = t /\ snd[x] # Idle /\ t \in Task
          BY <1>0, <3>3 DEF SndIncr, SndStates, Idle
        <4>2. \/ logs' = IncrRetryCount(t.id)
              \/ logs' = logs /\ LostWrites' >= LostWrites + 1
          BY <1>L, <3>3 DEF SndIncr, Write
        <4>3. Counted(logs, LostWrites, t)
          BY <4>1 DEF DeadInv, HandlerCounted
        <4>4. /\ Failed(t).id = t.id /\ Failed(t).rc = t.rc + 1 /\ t.rc \in Nat
          BY <4>1 DEF Task, Failed
        <4>5. Counted(logs', LostWrites', Failed(t))
          <5>1. CASE t.id = 0
            BY <4>4, <5>1 DEF Counted
          <5>2. CASE t.id \in DOMAIN logs /\ logs[t.id].retry + LostWrites >= t.rc
            <6>1. logs[t.id].retry \in Nat
              BY <1>0, <5>2, RetryIsNat
            <6>2. CASE logs' = IncrRetryCount(t.id)
              <7>1. t.id \in DOMAIN logs' /\ logs'[t.id].retry = logs[t.id].retry + 1
                BY <1>0, <5>2, <6>2, IncrRetryCountFacts DEF TypeOK
              <7> QED  BY <1>L, <4>4, <5>2, <6>1, <7>1 DEF Counted
            <6>3. CASE logs' = logs /\ LostWrites' >= LostWrites + 1
              BY <1>L, <4>4, <5>2, <6>1, <6>3 DEF Counted
            <6> QED  BY <4>2, <6>2, <6>3
          <5> QED  BY <4>3, <5>1, <5>2 DEF Counted
        <4>6. Counted(logs', LostWrites', t)
          BY <4>1, CountedKept
        <4> QED  BY <4>1, <4>5, <4>6
      <3>4. CASE SndPublish(x)
        <4>1. /\ snd'[x].task = snd[x].task /\ snd[x] # Idle /\ snd[x].pc = "publish"
          BY <1>0, <3>4 DEF SndPublish, SndStates, Idle
        <4> QED  BY <4>1, CountedKept
      <3>5. CASE SndAck(x)
        BY <1>0, <3>5 DEF SndAck, Idle
      <3> QED  BY <2>2, <3>1, <3>2, <3>3, <3>4, <3>5 DEF SndStep
    <2>3. CASE snd'[x] = Release(snd[x])
      BY <1>0, <2>3, ReleaseFacts, CountedKept
    <2>4. CASE snd'[x] = Idle
      BY <2>4 DEF Idle
    <2> QED  BY <1>0, <2>1, <2>2, <2>3, <2>4, HandlerFrame
  <1>3. ded'[x] # Idle => Counted(logs', LostWrites', ded'[x].task)
    <2>1. CASE ded'[x] = ded[x]
      BY <2>1, CountedKept
    <2>2. CASE DedStep(x)
      <3>1. ASSUME NEW t, DedReceive(x, t) PROVE Counted(logs', LostWrites', ded'[x].task)
        <4>1. Counted(logs', LostWrites', t)
          BY <3>1, CountedKept, QueueNames DEF DedReceive, In
        <4> QED  BY <1>0, <3>1, <4>1 DEF DedReceive
      <3>2. CASE DedMark(x)
        <4>1. ded'[x].task = ded[x].task /\ ded[x] # Idle
          BY <1>0, <3>2 DEF DedMark, DedStates, Idle
        <4> QED  BY <4>1, CountedKept
      <3>3. CASE DedAck(x)
        BY <1>0, <3>3 DEF DedAck
      <3> QED  BY <2>2, <3>1, <3>2, <3>3 DEF DedStep
    <2>3. CASE ded'[x] = Release(ded[x])
      BY <1>0, <2>3, ReleaseFacts, CountedKept
    <2> QED  BY <1>0, <2>1, <2>2, <2>3, HandlerFrame
  <1> QED  BY <1>1, <1>2, <1>3 DEF HandlerCounted

LEMMA DeadStep ==
    ASSUME Basic, DeadInv, [Next]_vars
    PROVE  DeadCounted'
  <1>0. /\ TypeOK /\ \A i \in DOMAIN logs : logs[i].retry \in Nat
        /\ logs \in Seq(Log)
    BY RetryIsNat DEF Basic, TypeOK
  <1>L. LostWrites \in Nat /\ LostWrites' \in Nat /\ LostWrites' >= LostWrites
    BY LostFacts DEF Basic
  <1>1. ASSUME SameRows, NEW i \in DOMAIN logs, logs'[i].status = "dead"
        PROVE  logs'[i].retry + LostWrites' >= 5
    <2>0. TypeOK' /\ logs'[i].retry \in Nat
      <3>1. TypeOK'
        BY NextTypeOK DEF Basic
      <3>2. logs'[i] \in Log
        BY <1>1, <3>1 DEF SameRows, TypeOK
      <3> QED  BY <3>1, <3>2 DEF Log
    <2>1. CASE logs[i].status = "dead"
      BY <1>0, <1>L, <1>1, <2>0, <2>1 DEF SameRows, DeadInv, DeadCounted
    <2>2. ASSUME NEW d \in Instances, DedMark(d), logs[i].status # "dead"
          PROVE  logs'[i].retry + LostWrites' >= 5
      <3>1. /\ ded[d] # Idle /\ ded[d].task.rc = 5 /\ Counted(logs, LostWrites, ded[d].task)
        BY <2>2 DEF DedMark, Idle, Basic, RetryDiscipline, DeadInv, HandlerCounted
      <3>2. ded[d].task.id = i
        BY <1>0, <1>1, <2>2, UpdateStatusFacts DEF DedMark, Write
      <3>3. i # 0
        BY <1>0
      <3> QED  BY <1>0, <1>L, <1>1, <2>0, <3>1, <3>2, <3>3 DEF Counted, SameRows
    <2>3. ASSUME NEW d \in Instances, SndUpdate(d) PROVE logs[i].status = "dead"
      BY <1>0, <1>1, <2>3, UpdateStatusFacts DEF SndUpdate, Write
    <2>4. ASSUME NEW d \in Instances, SndIncr(d) PROVE logs[i].status = "dead"
      BY <1>0, <1>1, <2>4, IncrRetryCountFacts DEF SndIncr, Write
    <2>5. ASSUME NEW d \in Instances, ExpCreate(d) PROVE logs[i].status = "dead"
      BY <1>0, <1>1, <2>5, AppendFacts DEF ExpCreate
    <2>6. ASSUME logs' = logs PROVE logs[i].status = "dead"
      BY <1>1, <2>6
    <2> QED  BY <2>1, <2>2, <2>3, <2>4, <2>5, <2>6
             DEF Next, ExpStep, ExpReceive, ExpLookup, ExpPublish, ExpAck, SndStep,
                 SndReceive, SndPost, SndPublish, SndAck, DedStep, DedReceive, DedAck,
                 Crash, ConnLost, Matched, Expire, RetryExpire, Resend, vars
  <1>2. CASE SameRows
    BY <1>1, <1>2 DEF SameRows, DeadCounted
  <1>3. ASSUME NEW d \in Instances, logs' = Append(logs, NewRow(d))
        PROVE  DeadCounted'
    <2>1. NewRow(d).status = "pending"
      BY DEF NewRow
    <2> QED  BY <1>0, <1>L, <1>3, <2>1, AppendFacts DEF DeadInv, DeadCounted
  <1> QED  BY <1>0, <1>2, <1>3, RowsStep

(***************************************************************************)
(* A row is declared dead only when its own counter shows five failures,   *)
(* or one fewer for every update of the table that failed, for any number  *)
(* of dispatchers and any crashes, redeliveries, failed writes and         *)
(* duplicated or failed publishes.                                         *)
(***************************************************************************)
THEOREM DeadMeansExhaustedHolds == Spec => []DeadMeansExhausted
  <1>1. Init => DeadInv
    BY DEF Init, DeadInv, DeadCounted, QueueCounted, HandlerCounted, In,
           NoMessages, Idle
  <1>2. Basic /\ DeadInv /\ [Next]_vars => DeadInv'
    BY DeadStep, QueueCountedStep, HandlerCountedStep DEF DeadInv
  <1>3. DeadInv => DeadMeansExhausted
    BY DEF DeadInv, DeadCounted, DeadMeansExhausted
  <1> QED  BY <1>1, <1>2, <1>3, BasicHolds, PTL DEF Spec

-----------------------------------------------------------------------------
(* One row for an event and an address *)

\* The expander of d has received e and not returned.
Busy(d, e) == exp[d] # Idle /\ exp[d].ev = e

\* The message of e exists once: in the queue, or with one expander.
Single(e) ==
    /\ \A d1, d2 \in Instances : Busy(d1, e) /\ Busy(d2, e) => d1 = d2
    /\ In(queue, "matched.events", e) => /\ queue["matched.events"][e] = 1
                                         /\ \A d \in Instances : ~ Busy(d, e)

Absent(e) == ~ In(queue, "matched.events", e) /\ \A d \in Instances : ~ Busy(d, e)

AtMostOneRow(e) ==
    /\ \A i, j \in DOMAIN logs :
          logs[i].ev = e /\ logs[j].ev = e /\ logs[i].wa = logs[j].wa => i = j
    /\ \A d \in Instances : exp[d].pc = "create" /\ exp[d].ev = e =>
          ~ ExistsByEventAndAddress(e, exp[d].wa)

\* UniqueLog alone is not inductive: the expander that passed the idempotency
\* check must still be right when it writes the row, so no other one may be
\* working on the same event.
UniqueInv ==
    \A e \in Events : /\ matched[e] = 0 => Absent(e)
                      /\ matched[e] <= 1 => Single(e) /\ AtMostOneRow(e)

LEMMA ExpBusy ==
    ASSUME TypeOK, NEW d \in Instances, NEW e,
           ExpStep(d), \A x \in Events : ~ ExpReceive(d, x)
    PROVE  Busy(d, e)' => Busy(d, e)
  <1>0. exp \in [Instances -> ExpStates]
    BY DEF TypeOK
  <1>1. ASSUME NEW todo, Loop(d, todo), exp[d] # Idle PROVE Busy(d, e)' => Busy(d, e)
    BY <1>0, <1>1 DEF Loop, Busy
  <1>2. ASSUME NEW wa, ExpLookup(d, wa) PROVE Busy(d, e)' => Busy(d, e)
    BY <1>0, <1>1, <1>2 DEF ExpLookup, Busy, Idle
  <1>3. ASSUME ExpCreate(d) PROVE Busy(d, e)' => Busy(d, e)
    BY <1>0, <1>1, <1>3 DEF ExpCreate, Busy, Idle
  <1>4. ASSUME ExpPublish(d) PROVE Busy(d, e)' => Busy(d, e)
    <2>1. exp[d] \in [pc : {"publish"}, ev : Events, todo : SUBSET Addrs,
                      held : BOOLEAN, task : Task, try : 0..maxRetries-1]
      BY <1>0, <1>4 DEF ExpPublish, ExpStates, Idle
    <2>2. exp[d] # Idle
      BY <1>4 DEF ExpPublish, Idle
    <2>3. CASE exp' = [exp EXCEPT ![d].try = @ + 1]
      BY <1>0, <2>1, <2>2, <2>3 DEF Busy
    <2> QED  BY <1>1, <1>4, <2>2, <2>3 DEF ExpPublish
  <1>5. ASSUME ExpAck(d) PROVE ~ Busy(d, e)'
    BY <1>0, <1>5 DEF ExpAck, Busy
  <1> QED  BY <1>2, <1>3, <1>4, <1>5 DEF ExpStep


LEMMA BagCounts ==
    ASSUME NEW B, NEW x, NEW y, \A m \in DOMAIN B : B[m] \in Nat \ {0}
    PROVE  /\ x \notin DOMAIN B => BagAdd(B, x)[x] = 1
           /\ x # y /\ y \in DOMAIN B => BagAdd(B, x)[y] = B[y]
           /\ x # y => (y \in DOMAIN BagAdd(B, x) <=> y \in DOMAIN B)
           /\ x \in DOMAIN B /\ B[x] = 1 => x \notin DOMAIN BagRemove(B, x)
           /\ x # y /\ y \in DOMAIN B => BagRemove(B, x)[y] = B[y]
           /\ x # y => (y \in DOMAIN BagRemove(B, x) <=> y \in DOMAIN B)
  BY DEF BagAdd, BagRemove

MatchedEvents == queue["matched.events"]

NothingMoves == /\ MatchedEvents' = MatchedEvents
                /\ matched' = matched
                /\ \A d \in Instances : \A e : Busy(d, e)' => Busy(d, e)

\* The steps that move the messages of matched.events.
LEMMA MatchedEventsStep ==
    ASSUME Basic, [Next]_vars
    PROVE  \/ NothingMoves
           \/ \E x \in Events : /\ Matched(x)
                                /\ MatchedEvents' = BagAdd(MatchedEvents, x)
           \/ \E d \in Instances : \E x \in Events :
                 ExpReceive(d, x) /\ MatchedEvents' = BagRemove(MatchedEvents, x)
           \/ \E d \in Instances :
                 /\ Crash(d) \/ ConnLost(d)
                 /\ MatchedEvents' = IF Held(exp[d])
                                     THEN BagAdd(MatchedEvents, exp[d].ev)
                                     ELSE MatchedEvents
  <1>0. /\ TypeOK /\ RetryDiscipline /\ QueueTypeOK(queue)
        /\ queue = [q \in Queues |-> queue[q]] /\ "matched.events" \in Queues
    BY QueueNames DEF Basic, TypeOK, QueueTypeOK
  <1>1. ASSUME NEW x \in Events, Matched(x)
        PROVE  MatchedEvents' = BagAdd(MatchedEvents, x)
    BY <1>0, <1>1, MatchedQueue DEF MatchedEvents, Add
  <1>2. ASSUME NEW d \in Instances, NEW x \in Events, ExpReceive(d, x)
        PROVE  MatchedEvents' = BagRemove(MatchedEvents, x)
    BY <1>0, <1>2 DEF ExpReceive, Dequeue, MatchedEvents
  <1>3. ASSUME NEW d \in Instances, Crash(d) \/ ConnLost(d)
        PROVE  MatchedEvents' = IF Held(exp[d])
                                THEN BagAdd(MatchedEvents, exp[d].ev)
                                ELSE MatchedEvents
    BY <1>0, <1>3 DEF Crash, ConnLost, Requeue, MatchedEvents
  <1>4. ASSUME NEW r \in Queues \ {"matched.events"}, NEW m, NEW Q,
               Q = [q \in Queues |-> Q[q]]
        PROVE  /\ Add(Q, r, m)["matched.events"] = Q["matched.events"]
               /\ Dequeue(Q, r, m)["matched.events"] = Q["matched.events"]
               /\ Dequeue(Q, r, m) = [q \in Queues |-> Dequeue(Q, r, m)[q]]
    BY <1>0, <1>4 DEF Add, Dequeue
  <1>5. ASSUME UNCHANGED << exp, matched >>, MatchedEvents' = MatchedEvents
        PROVE  NothingMoves
    BY <1>5 DEF NothingMoves, Busy
  <1>6. ASSUME NEW d \in Instances, SndStep(d) PROVE NothingMoves
    <2>1. ASSUME NEW t, SndReceive(d, t) PROVE MatchedEvents' = MatchedEvents
      BY <1>0, <1>4, <2>1, QueueNames DEF SndReceive, MatchedEvents
    <2>2. CASE SndPublish(d)
      <3>1. MatchedEvents' = MatchedEvents
        BY <1>0, <1>4, <2>2, SndPublishQueue DEF MatchedEvents
      <3> QED  BY <1>5, <2>2, <3>1 DEF SndPublish
    <2> QED  BY <1>5, <1>6, <2>1, <2>2
             DEF SndStep, SndReceive, SndPost, SndUpdate, SndIncr, SndAck, MatchedEvents
  <1>7. ASSUME NEW d \in Instances, DedStep(d) PROVE NothingMoves
    <2>1. ASSUME NEW t, DedReceive(d, t) PROVE MatchedEvents' = MatchedEvents
      BY <1>0, <1>4, <2>1, QueueNames DEF DedReceive, MatchedEvents
    <2> QED  BY <1>5, <1>7, <2>1 DEF DedStep, DedReceive, DedMark, DedAck, MatchedEvents
  <1>8. ASSUME NEW d \in Instances, ExpStep(d), \A x \in Events : ~ ExpReceive(d, x)
        PROVE  NothingMoves
    <2>1. MatchedEvents' = MatchedEvents
      <3>1. CASE ExpPublish(d)
        BY <1>0, <1>4, <3>1, ExpPublishQueue, QueueNames DEF MatchedEvents
      <3> QED  BY <1>8, <3>1 DEF ExpStep, ExpLookup, ExpCreate, ExpAck, MatchedEvents
    <2>2. matched' = matched
      BY <1>8 DEF ExpStep, ExpLookup, ExpCreate, ExpPublish, ExpAck
    <2>3. ASSUME NEW x \in Instances, NEW e, Busy(x, e)' PROVE Busy(x, e)
      <3>1. CASE x = d
        BY <1>0, <1>8, <2>3, <3>1, ExpBusy
      <3>2. CASE x # d
        <4>1. exp'[x] = exp[x]
          BY <1>8, <3>2 DEF ExpStep, ExpLookup, ExpCreate, ExpPublish, ExpAck, Loop,
                            Basic, TypeOK
        <4> QED  BY <2>3, <4>1 DEF Busy
      <3> QED  BY <3>1, <3>2
    <2> QED  BY <2>1, <2>2, <2>3 DEF NothingMoves
  <1>9. ASSUME NEW q \in RetryQueues, NEW t \in DOMAIN queue[q], RetryExpire(q, t)
        PROVE  NothingMoves
    <2>1. queue' = Add(Dequeue(queue, q, t), "dispatch.tasks", t)
      BY <1>0, <1>9, ExpireQueue
    <2>2. MatchedEvents' = MatchedEvents
      BY <1>0, <1>4, <2>1, QueueNames DEF MatchedEvents
    <2> QED  BY <1>5, <1>9, <2>2 DEF RetryExpire
  <1>10. ASSUME NEW i \in DOMAIN logs, Resend(i) PROVE NothingMoves
    <2>1. MatchedEvents' = MatchedEvents
      BY <1>0, <1>4, <1>10, ResendQueue, QueueNames DEF MatchedEvents
    <2> QED  BY <1>5, <1>10, <2>1 DEF Resend
  <1>11. CASE UNCHANGED vars
    BY <1>5, <1>11 DEF vars, MatchedEvents
  <1> QED  BY <1>1, <1>2, <1>3, <1>6, <1>7, <1>8, <1>9, <1>10, <1>11 DEF Next, Expire

LEMMA SingleStep ==
    ASSUME Basic, UniqueInv, [Next]_vars, "conn" \notin faults'.kinds, NEW e \in Events
    PROVE  /\ matched'[e] = 0 => matched[e] = 0 /\ Absent(e)'
           /\ matched'[e] <= 1 => matched[e] <= 1 /\ Single(e)'
  <1>0. /\ TypeOK /\ matched \in [Events -> Nat] /\ exp \in [Instances -> ExpStates]
        /\ \A m \in DOMAIN MatchedEvents : MatchedEvents[m] \in Nat \ {0}
    BY BoundAssumption, QueueNames DEF Basic, TypeOK, QueueTypeOK, MatchedEvents
  <1>1. /\ matched[e] = 0 => Absent(e)
        /\ matched[e] <= 1 => Single(e)
    BY DEF UniqueInv
  <1>2. CASE NothingMoves
    BY <1>0, <1>1, <1>2 DEF NothingMoves, Absent, Single, In, MatchedEvents
  <1>3. ASSUME NEW x \in Events, Matched(x), MatchedEvents' = BagAdd(MatchedEvents, x)
        PROVE  /\ matched'[e] = 0 => matched[e] = 0 /\ Absent(e)'
               /\ matched'[e] <= 1 => matched[e] <= 1 /\ Single(e)'
    <2>1. \A d \in Instances : Busy(d, e)' <=> Busy(d, e)
      BY <1>3 DEF Matched, Busy
    <2>2. CASE x = e
      <3>1. matched'[e] = matched[e] + 1
        BY <1>0, <1>3, <2>2 DEF Matched
      <3> QED  BY <1>0, <1>1, <1>3, <2>1, <2>2, <3>1, BagCounts
               DEF Absent, Single, In, MatchedEvents
    <2>3. CASE x # e
      <3>1. matched'[e] = matched[e]
        BY <1>0, <1>3, <2>3 DEF Matched
      <3> QED  BY <1>0, <1>1, <1>3, <2>1, <2>3, <3>1, BagCounts
               DEF Absent, Single, In, MatchedEvents
    <2> QED  BY <2>2, <2>3
  <1>4. ASSUME NEW d \in Instances, NEW x \in Events, ExpReceive(d, x),
               MatchedEvents' = BagRemove(MatchedEvents, x)
        PROVE  /\ matched'[e] = 0 => matched[e] = 0 /\ Absent(e)'
               /\ matched'[e] <= 1 => matched[e] <= 1 /\ Single(e)'
    <2>1. /\ matched' = matched /\ x \in DOMAIN MatchedEvents
          /\ \A y \in Instances : y # d => exp'[y] = exp[y]
          /\ exp'[d].ev = x
      BY <1>0, <1>4 DEF ExpReceive, MatchedEvents
    <2>2. /\ \A y \in Instances : y # d => (Busy(y, e)' <=> Busy(y, e))
          /\ x # e => ~ Busy(d, e)'
      BY <2>1 DEF Busy
    <2>3. CASE x = e
      BY <1>0, <1>1, <1>4, <2>1, <2>2, <2>3, BagCounts
         DEF Absent, Single, In, MatchedEvents
    <2>4. CASE x # e
      BY <1>0, <1>1, <1>4, <2>1, <2>2, <2>4, BagCounts
         DEF Absent, Single, In, MatchedEvents
    <2> QED  BY <2>3, <2>4
  <1>5. ASSUME NEW d \in Instances, Crash(d),
               MatchedEvents' = IF Held(exp[d]) THEN BagAdd(MatchedEvents, exp[d].ev)
                                ELSE MatchedEvents
        PROVE  /\ matched'[e] = 0 => matched[e] = 0 /\ Absent(e)'
               /\ matched'[e] <= 1 => matched[e] <= 1 /\ Single(e)'
    <2>1. /\ matched' = matched
          /\ \A y \in Instances : y # d => exp'[y] = exp[y]
          /\ exp'[d] = Idle
      BY <1>0, <1>5 DEF Crash
    <2>2. /\ \A y \in Instances : y # d => (Busy(y, e)' <=> Busy(y, e))
          /\ ~ Busy(d, e)'
      BY <2>1 DEF Busy
    <2>3. CASE Busy(d, e) /\ Held(exp[d])
      BY <1>0, <1>1, <1>5, <2>1, <2>2, <2>3, BagCounts
         DEF Absent, Single, In, MatchedEvents, Busy
    <2>4. CASE ~ Busy(d, e) /\ Held(exp[d])
      <3>1. exp[d].ev # e
        BY <2>4 DEF Busy, Held
      <3> QED  BY <1>0, <1>1, <1>5, <2>1, <2>2, <2>4, <3>1, BagCounts
               DEF Absent, Single, In, MatchedEvents
    <2>5. CASE ~ Held(exp[d])
      BY <1>0, <1>1, <1>5, <2>1, <2>2, <2>5 DEF Absent, Single, In, MatchedEvents
    <2> QED  BY <2>3, <2>4, <2>5
  <1>6. \A d \in Instances : ~ ConnLost(d)
    BY NoFault DEF ConnLost
  <1> QED  BY <1>2, <1>3, <1>4, <1>5, <1>6, MatchedEventsStep

LEMMA AtMostOneRowStep ==
    ASSUME Basic, UniqueInv, [Next]_vars, "conn" \notin faults'.kinds,
           NEW e \in Events, matched[e] <= 1
    PROVE  AtMostOneRow(e)'
  <1>0. /\ TypeOK /\ exp \in [Instances -> ExpStates]
        /\ Single(e) /\ AtMostOneRow(e)
    BY DEF Basic, TypeOK, UniqueInv
  <1>1. ASSUME NEW d \in Instances, ExpCreate(d), logs' = Append(logs, NewRow(d))
        PROVE  AtMostOneRow(e)'
    <2>1. /\ NewRow(d).ev = exp[d].ev /\ NewRow(d).wa = exp[d].wa
          /\ exp[d].pc = "create" /\ Busy(d, exp[d].ev)
      BY <1>1 DEF NewRow, ExpCreate, Busy, Idle
    <2>2. /\ exp'[d].pc \in {"publish", "range"}
          /\ \A x \in Instances : x # d => exp'[x] = exp[x]
      BY <1>0, <1>1 DEF ExpCreate, Loop
    <2>3. /\ exp[d].ev = e => ~ ExistsByEventAndAddress(e, exp[d].wa)
          /\ \A i, j \in DOMAIN logs :
                logs[i].ev = e /\ logs[j].ev = e /\ logs[i].wa = logs[j].wa => i = j
      BY <1>0, <2>1 DEF AtMostOneRow
    <2>4. \A i, j \in DOMAIN logs' :
             logs'[i].ev = e /\ logs'[j].ev = e /\ logs'[i].wa = logs'[j].wa => i = j
      BY <1>0, <1>1, <2>1, <2>3, AppendFacts DEF ExistsByEventAndAddress
    <2>5. ASSUME NEW x \in Instances, exp'[x].pc = "create", exp'[x].ev = e
          PROVE  ~ ExistsByEventAndAddress(e, exp[x].wa)'
      <3>1. x # d /\ exp'[x] = exp[x]
        BY <2>2, <2>5
      <3>2. Busy(x, e) /\ exp[d].ev # e
        BY <1>0, <2>1, <2>5, <3>1 DEF Single, Busy, Idle
      <3>3. ~ ExistsByEventAndAddress(e, exp[x].wa)
        BY <1>0, <2>5, <3>1 DEF AtMostOneRow
      <3> QED  BY <1>0, <1>1, <2>1, <3>1, <3>2, <3>3, AppendFacts
               DEF ExistsByEventAndAddress
    <2> QED  BY <2>4, <2>5 DEF AtMostOneRow
  <1>2. ASSUME SameRows PROVE AtMostOneRow(e)'
    <2>1. \A i, j \in DOMAIN logs' :
             logs'[i].ev = e /\ logs'[j].ev = e /\ logs'[i].wa = logs'[j].wa => i = j
      BY <1>0, <1>2 DEF SameRows, AtMostOneRow
    <2>2. \A x, wa : ExistsByEventAndAddress(x, wa)' <=> ExistsByEventAndAddress(x, wa)
      BY <1>2 DEF SameRows, ExistsByEventAndAddress
    <2>3. ASSUME NEW x \in Instances, exp'[x].pc = "create", exp'[x].ev = e
          PROVE  ~ ExistsByEventAndAddress(e, exp'[x].wa)
      <3>1. CASE exp'[x] = exp[x]
        BY <1>0, <2>3, <3>1 DEF AtMostOneRow
      <3>2. ASSUME ExpStep(x)
            PROVE  ~ ExistsByEventAndAddress(e, exp'[x].wa)
        <4>1. ASSUME NEW wa \in Addrs, ExpLookup(x, wa)
              PROVE  ~ ExistsByEventAndAddress(e, exp'[x].wa)
          BY <1>0, <2>3, <4>1 DEF ExpLookup, Loop
        <4>2. ~ ExpPublish(x)
          <5>1. ASSUME ExpPublish(x)
                PROVE  exp'[x].pc = "publish" \/ exp'[x].pc = "range"
            <6>1. exp[x] \in [pc : {"publish"}, ev : Events, todo : SUBSET Addrs,
                              held : BOOLEAN, task : Task, try : 0..maxRetries-1]
              BY <1>0, <5>1 DEF ExpPublish, ExpStates, Idle
            <6>2. CASE Loop(x, exp[x].todo)
              BY <1>0, <6>2 DEF Loop
            <6>3. CASE exp' = [exp EXCEPT ![x].try = @ + 1]
              BY <1>0, <6>1, <6>3
            <6> QED  BY <5>1, <6>2, <6>3 DEF ExpPublish
          <5> QED  BY <2>3, <5>1
        <4>3. ~ ExpCreate(x) /\ ~ ExpAck(x)
          BY <1>0, <2>3 DEF ExpCreate, ExpAck, Loop, Idle
        <4>4. \A y \in Events : ~ ExpReceive(x, y)
          BY <1>0, <2>3 DEF ExpReceive
        <4> QED  BY <3>2, <4>1, <4>2, <4>3, <4>4 DEF ExpStep
      <3>3. ~ ConnLost(x)
        BY NoFault DEF ConnLost
      <3>4. exp'[x] # Idle
        BY <2>3 DEF Idle
      <3> QED  BY <1>0, <3>1, <3>2, <3>3, <3>4, HandlerFrame
    <2> QED  BY <2>1, <2>2, <2>3 DEF AtMostOneRow
  <1> QED  BY <1>0, <1>1, <1>2, RowsStep

(***************************************************************************)
(* The check-then-insert of Expander.Handle is enough for an event the     *)
(* worker published once: with any number of dispatchers that crash and    *)
(* receive it again, it gets one row for an address, because no two of     *)
(* them have the event at the same time while no connection is lost.       *)
(***************************************************************************)
THEOREM UniqueLogHolds == Spec => []UniqueLog
  <1> DEFINE Inv == "conn" \notin faults.kinds => UniqueInv
  <1>1. Init => Inv
    BY DEF Init, UniqueInv, Absent, Single, AtMostOneRow, Busy, In, NoMessages, Idle,
           Queues
  <1>2. Basic /\ Inv /\ [Next]_vars => Inv'
    <2> SUFFICES ASSUME Basic, Inv, [Next]_vars, "conn" \notin faults'.kinds
                 PROVE  UniqueInv'
      OBVIOUS
    <2>1. UniqueInv
      BY KindsGrow
    <2> QED  BY <2>1, SingleStep, AtMostOneRowStep DEF UniqueInv
  <1>3. Basic /\ Inv => UniqueLog
    <2> SUFFICES ASSUME Basic, Inv, "conn" \notin faults.kinds,
                        NEW i \in DOMAIN logs, NEW j \in DOMAIN logs,
                        logs[i].ev = logs[j].ev, logs[i].wa = logs[j].wa,
                        matched[logs[i].ev] = 1
                 PROVE  i = j
      BY DEF UniqueLog
    <2>1. logs[i].ev \in Events
      <3>1. logs[i] \in Log
        BY DEF Basic, TypeOK
      <3> QED  BY <3>1 DEF Log
    <2> QED  BY <2>1 DEF UniqueInv, AtMostOneRow
  <1> QED  BY <1>1, <1>2, <1>3, BasicHolds, PTL DEF Spec

-----------------------------------------------------------------------------
(* No row is stranded *)

Queued(i) == \E q \in Queues \ {"matched.events"} : \E t : In(queue, q, t) /\ t.id = i

Sending(d, i) == /\ snd[d].pc \in {"post", "success", "failed", "incr", "publish"}
                 /\ snd[d].task.id = i

Burying(d, i) == ded[d].pc = "mark" /\ ded[d].task.id = i

Settled(i) == logs[i].status \in {"success", "dead"}

LEMMA TaskOfParts ==
    ASSUME NEW i
    PROVE  TaskOf(i) <=> \/ Queued(i)
                         \/ \E d \in Instances : Sending(d, i) \/ Burying(d, i)
  BY DEF TaskOf, Queued, In, Sending, Burying

\* Without lost connections every busy handler still holds its message.
AllHeld == \A d \in Instances : /\ exp[d] # Idle => Held(exp[d])
                                /\ snd[d] # Idle => Held(snd[d])
                                /\ ded[d] # Idle => Held(ded[d])

\* The tasks that leave a queue in a step, and where they go.
LEMMA QueuedStep ==
    ASSUME Basic, [Next]_vars, NEW i, Queued(i)
    PROVE  \/ Queued(i)'
           \/ \E d \in Instances : Sending(d, i)' \/ Burying(d, i)'
  <1>0. /\ TypeOK /\ RetryDiscipline /\ QueueTypeOK(queue)
        /\ snd \in [Instances -> SndStates] /\ ded \in [Instances -> DedStates]
    BY DEF Basic, TypeOK
  <1>a. PICK q \in Queues \ {"matched.events"} : \E t : In(queue, q, t) /\ t.id = i
    BY DEF Queued
  <1>b. PICK t : In(queue, q, t) /\ t.id = i  BY <1>a
  <1>1. q \in Queues \ {"matched.events"} /\ In(queue, q, t) /\ t.id = i  BY <1>a, <1>b
  <1>2. ASSUME In(queue', q, t) PROVE Queued(i)'
    BY <1>1, <1>2 DEF Queued, In
  <1>3. ASSUME NEW e \in Events, Matched(e) PROVE In(queue', q, t)
    BY <1>0, <1>1, <1>3, MatchedQueue, AddFacts, QueueNames
  <1>4. ASSUME NEW d \in Instances, ExpStep(d) PROVE In(queue', q, t)
    <2>1. ASSUME NEW e \in Events, ExpReceive(d, e) PROVE In(queue', q, t)
      BY <1>0, <1>1, <2>1, DequeueFacts, QueueNames DEF ExpReceive
    <2>2. ASSUME ExpPublish(d) PROVE In(queue', q, t)
      BY <1>0, <1>1, <2>2, ExpPublishQueue, AddFacts, QueueNames
    <2> QED  BY <1>1, <1>4, <2>1, <2>2 DEF ExpStep, ExpLookup, ExpCreate, ExpAck
  <1>5. ASSUME NEW d \in Instances, SndStep(d)
        PROVE  In(queue', q, t) \/ Sending(d, i)'
    <2>1. ASSUME NEW m, SndReceive(d, m)
          PROVE  In(queue', q, t) \/ Sending(d, i)'
      <3>1. CASE q = "dispatch.tasks" /\ m = t
        BY <1>0, <1>1, <2>1, <3>1 DEF SndReceive, Sending
      <3>2. CASE ~ (q = "dispatch.tasks" /\ m = t)
        BY <1>0, <1>1, <2>1, <3>2, DequeueFacts, QueueNames DEF SndReceive
      <3> QED  BY <3>1, <3>2
    <2>2. ASSUME SndPublish(d) PROVE In(queue', q, t)
      BY <1>0, <1>1, <2>2, SndPublishQueue, AddFacts, QueueNames
    <2> QED  BY <1>1, <1>5, <2>1, <2>2 DEF SndStep, SndPost, SndUpdate, SndIncr, SndAck
  <1>6. ASSUME NEW d \in Instances, DedStep(d)
        PROVE  In(queue', q, t) \/ Burying(d, i)'
    <2>1. ASSUME NEW m, DedReceive(d, m)
          PROVE  In(queue', q, t) \/ Burying(d, i)'
      <3>1. CASE q = "dispatch.dead" /\ m = t
        BY <1>0, <1>1, <2>1, <3>1 DEF DedReceive, Burying
      <3>2. CASE ~ (q = "dispatch.dead" /\ m = t)
        BY <1>0, <1>1, <2>1, <3>2, DequeueFacts, QueueNames DEF DedReceive
      <3> QED  BY <3>1, <3>2
    <2> QED  BY <1>1, <1>6, <2>1 DEF DedStep, DedMark, DedAck
  <1>7. ASSUME NEW d \in Instances, Crash(d) \/ ConnLost(d) PROVE In(queue', q, t)
    BY <1>0, <1>1, <1>7, RequeueQueue DEF Crash, ConnLost
  <1>8. ASSUME NEW r \in RetryQueues, NEW m \in DOMAIN queue[r], RetryExpire(r, m)
        PROVE  Queued(i)'
    <2>1. CASE r = q /\ m = t
      <3>1. In(queue', "dispatch.tasks", t)
        BY <1>0, <1>8, <2>1, ExpireQueue, AddFacts, QueueNames
      <3> QED  BY <1>1, <3>1, QueueNames DEF Queued, In
    <2>2. CASE ~ (r = q /\ m = t)
      <3>1. In(queue', q, t)
        BY <1>0, <1>1, <1>8, <2>2, ExpireQueue, DequeueFacts, AddFacts, QueueNames
      <3> QED  BY <3>1, <1>2
    <2> QED  BY <2>1, <2>2
  <1>9. ASSUME NEW n \in DOMAIN logs, Resend(n) PROVE In(queue', q, t)
    BY <1>0, <1>1, <1>9, ResendQueue, AddFacts, QueueNames
  <1>10. ASSUME UNCHANGED vars PROVE In(queue', q, t)
    BY <1>1, <1>10 DEF vars
  <1> QED  BY <1>2, <1>3, <1>4, <1>5, <1>6, <1>7, <1>8, <1>9, <1>10 DEF Next, Expire

LEMMA SendingStep ==
    ASSUME "db" \notin faults'.kinds, "publish" \notin faults'.kinds,
           "crash" \in faults'.kinds => AllHeld,
           Basic, [Next]_vars, NEW i \in DOMAIN logs, NEW d \in Instances, Sending(d, i)
    PROVE  Queued(i)' \/ Sending(d, i)' \/ Settled(i)'
  <1>0. /\ TypeOK /\ RetryDiscipline /\ QueueTypeOK(queue) /\ logs \in Seq(Log)
        /\ snd \in [Instances -> SndStates] /\ snd[d] # Idle
    BY DEF Basic, TypeOK, Sending, Idle
  <1>1. CASE snd'[d] = snd[d]
    BY <1>1 DEF Sending
  <1>2. ASSUME SndStep(d) PROVE Queued(i)' \/ Sending(d, i)' \/ Settled(i)'
    <2>1. CASE SndPost(d)
      BY <1>0, <2>1 DEF SndPost, Sending, SndStates, Idle
    <2>2. CASE SndUpdate(d)
      <3>1. CASE snd[d].pc = "success"
        <4>1. logs' = UpdateStatus(i, "success")
          BY <2>2, <3>1 DEF SndUpdate, Write, Fault, Sending
        <4>2. logs'[i].status = "success"
          BY <1>0, <4>1, UpdateStatusFacts
        <4> QED  BY <4>2 DEF Settled
      <3>2. CASE snd[d].pc = "failed"
        BY <1>0, <2>2, <3>2 DEF SndUpdate, Sending, SndStates, Idle
      <3> QED  BY <2>2, <3>1, <3>2 DEF SndUpdate
    <2>3. CASE SndIncr(d)
      BY <1>0, <2>3 DEF SndIncr, Sending, SndStates, Idle
    <2>4. CASE SndPublish(d)
      <3>1. PICK r \in Queues \ {"matched.events"} :
                queue' = Add(queue, r, Failed(snd[d].task))
        BY <1>0, <2>4, SndPublishQueue
      <3>2. Failed(snd[d].task).id = i /\ Failed(snd[d].task) \in Task
        BY <1>0, <2>4, SndPublishQueue DEF Sending
      <3>3. In(queue', r, Failed(snd[d].task))
        BY <1>0, <3>1, <3>2, AddFacts, QueueNames
      <3> QED  BY <3>2, <3>3 DEF Queued, In
    <2>5. ~ SndAck(d) /\ \A t : ~ SndReceive(d, t)
      BY <1>0 DEF SndAck, SndReceive, Sending
    <2> QED  BY <1>2, <2>1, <2>2, <2>3, <2>4, <2>5 DEF SndStep
  <1>3. ASSUME Crash(d) PROVE Queued(i)'
    <2>1. Held(snd[d])
      BY <1>0, <1>3 DEF Crash, Fault, AllHeld
    <2>2. In(queue', "dispatch.tasks", snd[d].task)
      BY <1>0, <1>3, <2>1, RequeueQueue, QueueNames DEF Crash
    <2> QED  BY <2>2, QueueNames DEF Sending, Queued, In
  <1>4. CASE snd'[d] = Release(snd[d])
    BY <1>0, <1>4, ReleaseFacts DEF Sending
  <1> QED  BY <1>0, <1>1, <1>2, <1>3, <1>4, HandlerFrame

LEMMA BuryingStep ==
    ASSUME "db" \notin faults'.kinds, "crash" \in faults'.kinds => AllHeld,
           Basic, [Next]_vars, NEW i \in DOMAIN logs, NEW d \in Instances, Burying(d, i)
    PROVE  Queued(i)' \/ Burying(d, i)' \/ Settled(i)'
  <1>0. /\ TypeOK /\ logs \in Seq(Log)
        /\ ded \in [Instances -> DedStates] /\ ded[d] # Idle
    BY DEF Basic, TypeOK, Burying, Idle
  <1>1. CASE ded'[d] = ded[d]
    BY <1>1 DEF Burying
  <1>2. ASSUME DedStep(d) PROVE Settled(i)'
    <2>1. CASE DedMark(d)
      <3>1. logs' = UpdateStatus(i, "dead")
        BY <2>1 DEF DedMark, Write, Fault, Burying
      <3>2. logs'[i].status = "dead"
        BY <1>0, <3>1, UpdateStatusFacts
      <3> QED  BY <3>2 DEF Settled
    <2>2. ~ DedAck(d) /\ \A t : ~ DedReceive(d, t)
      BY <1>0 DEF DedAck, DedReceive, Burying
    <2> QED  BY <1>2, <2>1, <2>2 DEF DedStep
  <1>3. ASSUME Crash(d) PROVE Queued(i)'
    <2>1. Held(ded[d])
      BY <1>0, <1>3 DEF Crash, Fault, AllHeld
    <2>2. In(queue', "dispatch.dead", ded[d].task)
      BY <1>0, <1>3, <2>1, RequeueQueue, QueueNames DEF Crash
    <2> QED  BY <2>2, QueueNames DEF Burying, Queued, In
  <1>4. CASE ded'[d] = Release(ded[d])
    BY <1>0, <1>4, ReleaseFacts DEF Burying
  <1> QED  BY <1>0, <1>1, <1>2, <1>3, <1>4, HandlerFrame

LEMMA TaskOfStep ==
    ASSUME "db" \notin faults'.kinds, "publish" \notin faults'.kinds,
           "crash" \in faults'.kinds => AllHeld,
           Basic, [Next]_vars, NEW i \in DOMAIN logs, TaskOf(i)
    PROVE  TaskOf(i)' \/ Settled(i)'
  <1>1. \/ Queued(i)' \/ Settled(i)'
        \/ \E d \in Instances : Sending(d, i)' \/ Burying(d, i)'
    BY TaskOfParts, QueuedStep, SendingStep, BuryingStep
  <1> QED  BY <1>1 DEF TaskOf, Queued, In, Sending, Burying

\* The rows a step can turn into failed or pending ones.
LEMMA UnsettledStep ==
    ASSUME Basic, [Next]_vars, NEW i \in DOMAIN logs', ~ Settled(i)'
    PROVE  \/ i \in DOMAIN logs /\ logs'[i].status = logs[i].status
           \/ /\ i \in DOMAIN logs /\ logs'[i].status = "failed"
              /\ \E d \in Instances : Sending(d, i)'
           \/ /\ logs'[i].status = "pending"
              /\ \E d \in Instances : exp'[d].pc = "publish" /\ exp'[d].task.id = i
  <1>0. /\ TypeOK /\ logs \in Seq(Log) /\ exp \in [Instances -> ExpStates]
        /\ snd \in [Instances -> SndStates]
    BY DEF Basic, TypeOK
  <1>1. ASSUME logs' = logs PROVE logs'[i].status = logs[i].status /\ i \in DOMAIN logs
    BY <1>1
  <1>2. ASSUME NEW d \in Instances, ExpCreate(d), logs' # logs
        PROVE  \/ i \in DOMAIN logs /\ logs'[i].status = logs[i].status
               \/ /\ logs'[i].status = "pending"
                  /\ exp'[d].pc = "publish" /\ exp'[d].task.id = i
    <2>1. logs' = Append(logs, NewRow(d)) /\ NewRow(d).status = "pending"
      BY <1>2 DEF ExpCreate, NewRow
    <2>2. exp'[d].pc = "publish" /\ exp'[d].task.id = Len(logs) + 1
      BY <1>0, <1>2 DEF ExpCreate
    <2>3. i \in DOMAIN logs \/ i = Len(logs) + 1
      BY <1>0, <2>1, AppendFacts
    <2> QED  BY <1>0, <2>1, <2>2, <2>3, AppendFacts
  <1>3. ASSUME NEW d \in Instances, SndUpdate(d)
        PROVE  /\ i \in DOMAIN logs
               /\ \/ logs'[i].status = logs[i].status
                  \/ logs'[i].status = "failed" /\ Sending(d, i)'
    <2>1. CASE logs' = UpdateStatus(snd[d].task.id, snd[d].pc)
      <3>1. /\ i \in DOMAIN logs
            /\ logs'[i].status = IF i = snd[d].task.id THEN snd[d].pc ELSE logs[i].status
        BY <1>0, <1>3, <2>1, UpdateStatusFacts DEF SndUpdate
      <3>2. CASE i = snd[d].task.id /\ snd[d].pc = "failed"
        <4>1. snd'[d].pc = "incr" /\ snd'[d].task.id = i
          BY <1>0, <1>3, <3>2 DEF SndUpdate, SndStates, Idle
        <4> QED  BY <3>1, <3>2, <4>1 DEF Sending
      <3> QED  BY <1>3, <3>1, <3>2 DEF SndUpdate, Settled
    <2> QED  BY <1>1, <1>3, <2>1 DEF SndUpdate, Write
  <1>4. ASSUME NEW d \in Instances, SndIncr(d)
        PROVE  i \in DOMAIN logs /\ logs'[i].status = logs[i].status
    BY <1>0, <1>1, <1>4, IncrRetryCountFacts DEF SndIncr, Write
  <1>5. ASSUME NEW d \in Instances, DedMark(d)
        PROVE  i \in DOMAIN logs /\ logs'[i].status = logs[i].status
    BY <1>0, <1>1, <1>5, UpdateStatusFacts DEF DedMark, Write, Settled
  <1> QED  BY <1>1, <1>2, <1>3, <1>4, <1>5
           DEF Next, ExpStep, ExpReceive, ExpLookup, ExpPublish, ExpAck, SndStep,
               SndReceive, SndPost, SndPublish, SndAck, DedStep, DedReceive, DedAck,
               Crash, ConnLost, Matched, Expire, RetryExpire, Resend, vars

\* The expander that wrote row i has yet to publish its task.
Publishing(d, i) == exp[d].pc = "publish" /\ exp[d].task.id = i

LEMMA PublishingStep ==
    ASSUME "publish" \notin faults'.kinds, "crash" \notin faults'.kinds,
           Basic, [Next]_vars, NEW i, NEW d \in Instances, Publishing(d, i)
    PROVE  Queued(i)' \/ Publishing(d, i)'
  <1>0. /\ TypeOK /\ QueueTypeOK(queue) /\ exp \in [Instances -> ExpStates]
    BY DEF Basic, TypeOK
  <1>1. CASE exp'[d] = exp[d]
    BY <1>1 DEF Publishing
  <1>2. ASSUME ExpStep(d) PROVE Queued(i)'
    <2>1. ASSUME ExpPublish(d) PROVE Queued(i)'
      <3>1. /\ queue' = Add(queue, "dispatch.tasks", exp[d].task)
            /\ exp[d].task \in Task
        BY <1>0, <2>1, ExpPublishQueue
      <3>2. In(queue', "dispatch.tasks", exp[d].task)
        BY <1>0, <3>1, AddFacts, QueueNames
      <3> QED  BY <3>2, QueueNames DEF Queued, In, Publishing
    <2>2. /\ ~ ExpCreate(d) /\ ~ ExpAck(d)
          /\ \A e : ~ ExpReceive(d, e)
          /\ \A wa : ~ ExpLookup(d, wa)
      BY DEF ExpCreate, ExpAck, ExpReceive, ExpLookup, Publishing, Idle
    <2> QED  BY <1>2, <2>1, <2>2 DEF ExpStep
  <1>3. CASE exp'[d] = Release(exp[d])
    BY <1>0, <1>3, ReleaseFacts DEF Publishing
  <1>4. ~ Crash(d)
    BY DEF Crash, Fault
  <1> QED  BY <1>0, <1>1, <1>2, <1>3, <1>4, HandlerFrame

LEMMA AllHeldStep ==
    ASSUME "conn" \notin faults'.kinds, Basic, AllHeld, [Next]_vars
    PROVE  AllHeld'
  <1>0. /\ TypeOK /\ exp \in [Instances -> ExpStates]
        /\ snd \in [Instances -> SndStates] /\ ded \in [Instances -> DedStates]
    BY DEF Basic, TypeOK
  <1> SUFFICES ASSUME NEW d \in Instances
               PROVE  /\ exp'[d] # Idle => Held(exp'[d])
                      /\ snd'[d] # Idle => Held(snd'[d])
                      /\ ded'[d] # Idle => Held(ded'[d])
    BY DEF AllHeld, Held
  <1>1. ~ ConnLost(d)
    BY DEF ConnLost, Fault
  <1>2. ASSUME ExpStep(d) PROVE exp'[d] # Idle => Held(exp'[d])
    <2>1. ASSUME NEW e, ExpReceive(d, e) PROVE Held(exp'[d])
      BY <1>0, <2>1 DEF ExpReceive, Held, Idle
    <2>2. ASSUME NEW todo, Loop(d, todo), exp[d] # Idle PROVE Held(exp'[d])
      BY <1>0, <2>2 DEF Loop, AllHeld, Held, Idle
    <2>3. ASSUME NEW wa, ExpLookup(d, wa) PROVE Held(exp'[d])
      <3>1. exp[d] # Idle /\ exp[d].held
        BY <2>3 DEF ExpLookup, AllHeld, Held, Idle
      <3> QED  BY <1>0, <2>2, <2>3, <3>1 DEF ExpLookup, Held, Idle
    <2>4. ASSUME ExpCreate(d) PROVE Held(exp'[d])
      <3>1. exp[d] # Idle /\ exp[d].held
        BY <2>4 DEF ExpCreate, AllHeld, Held, Idle
      <3> QED  BY <1>0, <2>2, <2>4, <3>1 DEF ExpCreate, Held, Idle
    <2>5. ASSUME ExpPublish(d) PROVE Held(exp'[d])
      <3>1. /\ exp[d] # Idle /\ exp[d].held
            /\ exp[d] \in [pc : {"publish"}, ev : Events, todo : SUBSET Addrs,
                           held : BOOLEAN, task : Task, try : 0..maxRetries-1]
        BY <1>0, <2>5 DEF ExpPublish, AllHeld, Held, Idle, ExpStates
      <3>2. CASE exp' = [exp EXCEPT ![d].try = @ + 1]
        BY <1>0, <3>1, <3>2 DEF Held, Idle
      <3> QED  BY <2>2, <2>5, <3>1, <3>2 DEF ExpPublish
    <2>6. ASSUME ExpAck(d) PROVE exp'[d] = Idle
      BY <1>0, <2>6 DEF ExpAck
    <2> QED  BY <1>2, <2>1, <2>3, <2>4, <2>5, <2>6 DEF ExpStep
  <1>3. ASSUME SndStep(d) PROVE snd'[d] # Idle => Held(snd'[d])
    <2>1. ASSUME NEW t, SndReceive(d, t) PROVE Held(snd'[d])
      BY <1>0, <2>1 DEF SndReceive, Held, Idle
    <2>2. ASSUME SndAck(d) PROVE snd'[d] = Idle
      BY <1>0, <2>2 DEF SndAck
    <2>3. ASSUME SndPost(d) \/ SndUpdate(d) \/ SndIncr(d) \/ SndPublish(d)
          PROVE  Held(snd'[d])
      <3>1. snd[d] # Idle /\ snd[d].held
        BY <2>3 DEF SndPost, SndUpdate, SndIncr, SndPublish, AllHeld, Held, Idle
      <3> QED  BY <1>0, <2>3, <3>1
               DEF SndPost, SndUpdate, SndIncr, SndPublish, Held, Idle, SndStates
    <2> QED  BY <1>3, <2>1, <2>2, <2>3 DEF SndStep
  <1>4. ASSUME DedStep(d) PROVE ded'[d] # Idle => Held(ded'[d])
    BY <1>0, <1>4 DEF DedStep, DedReceive, DedMark, DedAck, AllHeld, Held, Idle, DedStates
  <1> QED  BY <1>0, <1>1, <1>2, <1>3, <1>4, HandlerFrame DEF AllHeld

\* Both properties, with what makes them inductive.
LossInv == /\ FailedIsRetried
           /\ LogsSurviveConnLost
           /\ "conn" \notin faults.kinds => AllHeld

LEMMA LossStep ==
    ASSUME Basic, LossInv, [Next]_vars
    PROVE  LossInv'
  <1>0. faults.kinds \subseteq faults'.kinds
    BY KindsGrow
  <1>1. FailedIsRetried'
    <2> SUFFICES ASSUME faults'.kinds \subseteq {"crash"},
                        NEW i \in DOMAIN logs', logs'[i].status = "failed"
                 PROVE  TaskOf(i)'
      BY DEF FailedIsRetried
    <2>0. /\ "db" \notin faults'.kinds /\ "publish" \notin faults'.kinds
          /\ faults.kinds \subseteq {"crash"} /\ AllHeld
      BY <1>0 DEF LossInv
    <2>1. ~ Settled(i)'
      BY DEF Settled
    <2>2. CASE i \in DOMAIN logs /\ logs'[i].status = logs[i].status
      BY <2>0, <2>1, <2>2, TaskOfStep DEF LossInv, FailedIsRetried
    <2>3. ASSUME NEW d \in Instances, Sending(d, i)' PROVE TaskOf(i)'
      BY <2>3 DEF TaskOf, Sending
    <2> QED  BY <2>1, <2>2, <2>3, UnsettledStep
  <1>2. LogsSurviveConnLost'
    <2> SUFFICES ASSUME faults'.kinds \subseteq {"conn"}, NEW i \in DOMAIN logs',
                        logs'[i].status \in {"pending", "failed"}
                 PROVE  TaskOf(i)' \/ \E d \in Instances : Publishing(d, i)'
      BY DEF LogsSurviveConnLost, EveryLogIsLive, Publishing
    <2>0. /\ "db" \notin faults'.kinds /\ "publish" \notin faults'.kinds
          /\ "crash" \notin faults'.kinds /\ faults.kinds \subseteq {"conn"}
      BY <1>0
    <2>1. ~ Settled(i)'
      BY DEF Settled
    <2>2. CASE i \in DOMAIN logs /\ logs'[i].status = logs[i].status
      <3>1. TaskOf(i) \/ \E d \in Instances : Publishing(d, i)
        BY <2>0, <2>2 DEF LossInv, LogsSurviveConnLost, EveryLogIsLive, Publishing
      <3>2. ASSUME TaskOf(i) PROVE TaskOf(i)'
        BY <2>0, <2>1, <2>2, <3>2, TaskOfStep
      <3>3. ASSUME Queued(i)' PROVE TaskOf(i)'
        BY <3>3 DEF TaskOf, Queued, In
      <3> QED  BY <2>0, <3>1, <3>2, <3>3, PublishingStep
    <2>3. ASSUME NEW d \in Instances, Sending(d, i)' PROVE TaskOf(i)'
      BY <2>3 DEF TaskOf, Sending
    <2> QED  BY <2>1, <2>2, <2>3, UnsettledStep DEF Publishing
  <1>3. ASSUME "conn" \notin faults'.kinds PROVE AllHeld'
    BY <1>0, <1>3, AllHeldStep DEF LossInv
  <1> QED  BY <1>1, <1>2, <1>3 DEF LossInv

LEMMA LossInvHolds == Spec => []LossInv
  <1>1. Init => LossInv
    BY DEF Init, LossInv, FailedIsRetried, LogsSurviveConnLost, EveryLogIsLive, AllHeld
  <1>2. Basic /\ LossInv /\ [Next]_vars => LossInv'
    BY LossStep
  <1> QED  BY <1>1, <1>2, BasicHolds, PTL DEF Spec

(***************************************************************************)
(* While only connections drop, no row is ever stranded: with any number   *)
(* of dispatchers, a pending or failed row always has a task in a queue or *)
(* in a handler, or the expander that wrote it is about to publish one.    *)
(***************************************************************************)
THEOREM LogsSurviveConnLostHolds == Spec => []LogsSurviveConnLost
  BY LossInvHolds, PTL DEF LossInv

(***************************************************************************)
(* While only dispatchers crash, a callback that failed is always tried    *)
(* again: the task goes to the retry queue before the message it came from *)
(* is acknowledged.                                                        *)
(***************************************************************************)
THEOREM FailedIsRetriedHolds == Spec => []FailedIsRetried
  BY LossInvHolds, PTL DEF LossInv

-----------------------------------------------------------------------------
(* The first row of a notification *)

LEMMA LeastExists ==
    ASSUME NEW S, S \subseteq Nat, S # {}
    PROVE  \E i \in S : \A j \in S : i <= j
  <1>0. WF!IsWellFoundedOn(WF!OpToRel(<, Nat), Nat)
    BY WF!NatLessThanWellFounded
  <1>1. \E i \in S : \A j \in S : ~ (<< j, i >> \in WF!OpToRel(<, Nat))
    BY <1>0, WF!WFMin
  <1>2. PICK i \in S : \A j \in S : ~ (<< j, i >> \in WF!OpToRel(<, Nat))
    BY <1>1
  <1>3. ASSUME NEW j \in S PROVE i <= j
    <2>1. << j, i >> \in Nat \X Nat /\ << j, i >> \notin {ss \in Nat \X Nat : ss[1] < ss[2]}
      BY <1>2 DEF WF!OpToRel
    <2> QED  BY <2>1
  <1> QED  BY <1>3

\* The least element of a set of naturals is the only one.
LEMMA LeastIsUnique ==
    ASSUME NEW S, S \subseteq Nat, NEW m \in S, \A j \in S : m <= j
    PROVE  (CHOOSE i \in S : \A j \in S : i <= j) = m
  <1>1. \A i \in S : (\A j \in S : i <= j) => i = m
    OBVIOUS
  <1> QED  BY <1>1

IsFirst(i, n) == i \in RowsOf(n) /\ \A j \in RowsOf(n) : i <= j

LEMMA RowsAreNat == ASSUME TypeOK, NEW n PROVE RowsOf(n) \subseteq Nat \ {0}
  BY DEF TypeOK, RowsOf

LEMMA FirstExists ==
    ASSUME TypeOK, NEW n, RowsOf(n) # {}
    PROVE  \E i : IsFirst(i, n)
  BY RowsAreNat, LeastExists DEF IsFirst

LEMMA FirstRowIs ==
    ASSUME TypeOK, NEW n, NEW i, IsFirst(i, n)
    PROVE  FirstRow(n) = logs[i]
  <1>1. (CHOOSE k \in RowsOf(n) : \A j \in RowsOf(n) : k <= j) = i
    BY RowsAreNat, LeastIsUnique DEF IsFirst
  <1> QED  BY <1>1 DEF FirstRow

LEMMA FirstRowNext ==
    ASSUME TypeOK', NEW n, NEW i, IsFirst(i, n)'
    PROVE  FirstRow(n)' = logs'[i] /\ RowsOf(n)' # {}
  <1>1. /\ i \in RowsOf(n)' /\ \A j \in RowsOf(n)' : i <= j
        /\ RowsOf(n)' \subseteq Nat
    BY DEF TypeOK, IsFirst, RowsOf
  <1>2. (CHOOSE k \in RowsOf(n)' : \A j \in RowsOf(n)' : k <= j) = i
    BY <1>1, LeastIsUnique
  <1> QED  BY <1>1, <1>2 DEF FirstRow

\* Two notifications differ in their event or in their address.
LEMMA NotificationsDiffer ==
    ASSUME NEW m \in Due, NEW n \in Due, m[1] = n[1], m[2] = n[2]
    PROVE  m = n
  BY RoutableAssumption DEF Due

\* What Notification sees of a row.
Seen(row) == << IF row.status \in {"pending", "failed"} THEN "owed" ELSE row.status, row.retry >>

LEMMA SeenIsFirst ==
    ASSUME TypeOK, NEW n, NEW i, IsFirst(i, n)
    PROVE  << StateOf(n), AttemptsOf(n) >> = Seen(logs[i])
  <1>1. RowsOf(n) # {} /\ FirstRow(n) = logs[i]
    BY FirstRowIs DEF IsFirst
  <1> QED  BY <1>1 DEF StateOf, AttemptsOf, Seen
-----------------------------------------------------------------------------
(* What the steps on webhook_logs look like to Notification *)

States == [n \in Due |-> StateOf(n)]
Attempts == [n \in Due |-> AttemptsOf(n)]

LEMMA SameRowsSeen ==
    ASSUME UNCHANGED logs
    PROVE  UNCHANGED << States, Attempts >>
  BY DEF States, Attempts, StateOf, AttemptsOf, FirstRow, RowsOf

\* A row that is written changes the state of one notification at most: of the one it
\* is the first row of.
LEMMA RowSeen ==
    ASSUME TypeOK, TypeOK', SameRows, NEW i \in DOMAIN logs,
           \A j \in DOMAIN logs : j # i => logs'[j] = logs[j]
    PROVE  \/ UNCHANGED << States, Attempts >>
           \/ \E n \in Due :
                 /\ RowsOf(n) # {}
                 /\ << States[n], Attempts[n] >> = Seen(logs[i])
                 /\ States' = [States EXCEPT ![n] = Seen(logs'[i])[1]]
                 /\ Attempts' = [Attempts EXCEPT ![n] = Seen(logs'[i])[2]]
  <1>1. \A n : RowsOf(n)' = RowsOf(n) /\ \A j : IsFirst(j, n)' <=> IsFirst(j, n)
    BY DEF SameRows, RowsOf, IsFirst
  <1>2. ASSUME NEW n, ~ IsFirst(i, n)
        PROVE  StateOf(n)' = StateOf(n) /\ AttemptsOf(n)' = AttemptsOf(n)
    <2>1. CASE RowsOf(n) = {}
      BY <1>1, <2>1 DEF StateOf, AttemptsOf
    <2>2. CASE RowsOf(n) # {}
      <3>1. PICK j : IsFirst(j, n)
        BY <2>2, FirstExists
      <3>2. FirstRow(n) = logs[j] /\ RowsOf(n) # {}
        BY <3>1, FirstRowIs DEF IsFirst
      <3>3. FirstRow(n)' = logs'[j] /\ RowsOf(n)' # {}
        BY <1>1, <3>1, <3>2, FirstRowNext
      <3>4. logs'[j] = logs[j]
        BY <1>2, <3>1 DEF IsFirst, RowsOf
      <3> QED  BY <3>2, <3>3, <3>4 DEF StateOf, AttemptsOf
    <2> QED  BY <2>1, <2>2
  <1>3. CASE \A n \in Due : ~ IsFirst(i, n)
    BY <1>2, <1>3 DEF States, Attempts
  <1>4. ASSUME NEW n \in Due, IsFirst(i, n)
        PROVE  /\ RowsOf(n) # {}
               /\ << States[n], Attempts[n] >> = Seen(logs[i])
               /\ States' = [States EXCEPT ![n] = Seen(logs'[i])[1]]
               /\ Attempts' = [Attempts EXCEPT ![n] = Seen(logs'[i])[2]]
    <2>1. RowsOf(n) # {} /\ FirstRow(n) = logs[i]
      BY <1>4, FirstRowIs DEF IsFirst
    <2>2. RowsOf(n)' # {} /\ FirstRow(n)' = logs'[i]
      BY <1>1, <1>4, <2>1, FirstRowNext
    <2>3. StateOf(n)' = Seen(logs'[i])[1] /\ AttemptsOf(n)' = Seen(logs'[i])[2]
      BY <2>2 DEF StateOf, AttemptsOf, Seen
    <2>4. ASSUME NEW m \in Due, m # n PROVE ~ IsFirst(i, m)
      <3>1. ~ (m[1] = n[1] /\ m[2] = n[2])
        BY <2>4, NotificationsDiffer
      <3> QED  BY <1>4, <3>1 DEF IsFirst, RowsOf
    <2>5. \A m \in Due : m # n => StateOf(m)' = StateOf(m) /\ AttemptsOf(m)' = AttemptsOf(m)
      BY <1>2, <2>4
    <2>6. << States[n], Attempts[n] >> = Seen(logs[i])
      BY <2>1 DEF States, Attempts, StateOf, AttemptsOf, Seen
    <2> QED  BY <2>1, <2>3, <2>5, <2>6 DEF States, Attempts
  <1> QED  BY <1>3, <1>4

\* A new row is the first one of its notification, or is not seen.
LEMMA NewRowSeen ==
    ASSUME TypeOK, TypeOK', NEW row, logs' = Append(logs, row),
           row.status = "pending", row.retry = 0
    PROVE  \/ UNCHANGED << States, Attempts >>
           \/ \E n \in Due : /\ n[1] = row.ev /\ States[n] = "none"
                            /\ States' = [States EXCEPT ![n] = "owed"]
                            /\ UNCHANGED Attempts
  <1>0. PICK k : k = Len(logs) + 1
    OBVIOUS
  <1>1. /\ Len(logs) \in Nat /\ DOMAIN logs = 1..Len(logs) /\ DOMAIN logs' = 1..k
        /\ logs'[k] = row /\ \A i \in DOMAIN logs : logs'[i] = logs[i]
    BY <1>0, AppendFacts
  <1>2. ASSUME NEW n, RowsOf(n) # {}
        PROVE  StateOf(n)' = StateOf(n) /\ AttemptsOf(n)' = AttemptsOf(n)
    <2>1. PICK i : IsFirst(i, n)
      BY <1>2, FirstExists
    <2>2. i \in DOMAIN logs /\ i \in RowsOf(n)' /\ i <= k
      BY <1>0, <1>1, <2>1 DEF IsFirst, RowsOf
    <2>3. \A j \in RowsOf(n)' : j \in RowsOf(n) \/ j = k
      BY <1>0, <1>1 DEF RowsOf
    <2>4. IsFirst(i, n)'
      BY <2>1, <2>2, <2>3 DEF IsFirst
    <2>5. FirstRow(n) = logs[i] /\ FirstRow(n)' = logs'[i] /\ RowsOf(n)' # {}
      BY <2>1, <2>4, FirstRowIs, FirstRowNext
    <2> QED  BY <1>1, <1>2, <2>2, <2>5 DEF StateOf, AttemptsOf
  <1>3. ASSUME NEW n, RowsOf(n) = {}, ~ (row.ev = n[1] /\ row.wa = n[2])
        PROVE  StateOf(n)' = StateOf(n) /\ AttemptsOf(n)' = AttemptsOf(n)
    <2>1. RowsOf(n)' = {}
      BY <1>0, <1>1, <1>3 DEF RowsOf
    <2> QED  BY <1>3, <2>1 DEF StateOf, AttemptsOf
  <1>4. CASE \A n \in Due : RowsOf(n) # {} \/ ~ (row.ev = n[1] /\ row.wa = n[2])
    BY <1>2, <1>3, <1>4 DEF States, Attempts
  <1>5. ASSUME NEW n \in Due, RowsOf(n) = {}, row.ev = n[1], row.wa = n[2]
        PROVE  /\ n[1] = row.ev /\ States[n] = "none"
               /\ States' = [States EXCEPT ![n] = "owed"]
               /\ UNCHANGED Attempts
    <2>1. IsFirst(k, n)'
      BY <1>0, <1>1, <1>5 DEF IsFirst, RowsOf
    <2>2. FirstRow(n)' = row /\ RowsOf(n)' # {}
      BY <1>1, <2>1, FirstRowNext
    <2>3. /\ StateOf(n) = "none" /\ AttemptsOf(n) = 0
          /\ StateOf(n)' = "owed" /\ AttemptsOf(n)' = 0
      BY <1>5, <2>2 DEF StateOf, AttemptsOf
    <2>4. \A m \in Due : m # n => StateOf(m)' = StateOf(m) /\ AttemptsOf(m)' = AttemptsOf(m)
      BY <1>2, <1>3, <1>5, NotificationsDiffer
    <2> QED  BY <1>5, <2>3, <2>4 DEF States, Attempts
  <1> QED  BY <1>4, <1>5

-----------------------------------------------------------------------------
(* An event that has a row was published *)

Happened == \A e \in Events : matched[e] = 0 => Absent(e)

LEMMA HappenedStep ==
    ASSUME Basic, Happened, [Next]_vars
    PROVE  Happened'
  <1>0. /\ TypeOK /\ matched \in [Events -> Nat] /\ exp \in [Instances -> ExpStates]
        /\ \A m \in DOMAIN MatchedEvents : MatchedEvents[m] \in Nat \ {0}
    BY BoundAssumption, QueueNames DEF Basic, TypeOK, QueueTypeOK, MatchedEvents
  <1> SUFFICES ASSUME NEW e \in Events, matched'[e] = 0
               PROVE  Absent(e)'
    BY DEF Happened
  <1>1. CASE NothingMoves
    BY <1>1 DEF NothingMoves, Happened, Absent, In, MatchedEvents
  <1>2. ASSUME NEW x \in Events, Matched(x), MatchedEvents' = BagAdd(MatchedEvents, x)
        PROVE  Absent(e)'
    <2>1. x # e /\ matched[e] = 0
      BY <1>0, <1>2 DEF Matched
    <2>2. \A d \in Instances : Busy(d, e)' <=> Busy(d, e)
      BY <1>2 DEF Matched, Busy
    <2> QED  BY <1>0, <1>2, <2>1, <2>2, BagCounts DEF Happened, Absent, In, MatchedEvents
  <1>3. ASSUME NEW d \in Instances, NEW x \in Events, ExpReceive(d, x),
               MatchedEvents' = BagRemove(MatchedEvents, x)
        PROVE  Absent(e)'
    <2>1. matched' = matched /\ x \in DOMAIN MatchedEvents
      BY <1>3 DEF ExpReceive, MatchedEvents
    <2>2. x # e /\ Absent(e)
      BY <2>1 DEF Happened, Absent, In, MatchedEvents
    <2>3. /\ \A y \in Instances : y # d => exp'[y] = exp[y]
          /\ exp'[d].ev = x
      BY <1>0, <1>3 DEF ExpReceive
    <2> QED  BY <1>0, <1>3, <2>2, <2>3, BagCounts DEF Absent, In, MatchedEvents, Busy
  <1>4. ASSUME NEW d \in Instances, Crash(d) \/ ConnLost(d),
               MatchedEvents' = IF Held(exp[d]) THEN BagAdd(MatchedEvents, exp[d].ev)
                                ELSE MatchedEvents
        PROVE  Absent(e)'
    <2>1. Absent(e)
      BY <1>4 DEF Crash, ConnLost, Happened
    <2>2. ~ In(queue', "matched.events", e)
      <3>1. CASE Held(exp[d])
        <4>1. exp[d].ev # e
          BY <2>1, <3>1 DEF Absent, Busy, Held
        <4> QED  BY <1>0, <1>4, <2>1, <3>1, <4>1, BagCounts DEF Absent, In, MatchedEvents
      <3>2. CASE ~ Held(exp[d])
        BY <1>4, <2>1, <3>2 DEF Absent, In, MatchedEvents
      <3> QED  BY <3>1, <3>2
    <2>3. ASSUME NEW y \in Instances PROVE ~ Busy(y, e)'
      <3>1. CASE exp'[y] = exp[y]
        BY <2>1, <3>1 DEF Absent, Busy
      <3>2. CASE exp'[y] = Idle
        BY <3>2 DEF Busy
      <3>3. CASE exp'[y] = Release(exp[y]) /\ exp[y] # Idle
        <4>1. exp'[y].ev = exp[y].ev
          BY <1>0, <3>3, HeldTypes DEF Release, ExpStates
        <4> QED  BY <2>1, <3>3, <4>1 DEF Absent, Busy
      <3> QED  BY <1>0, <1>4, <3>1, <3>2, <3>3 DEF Crash, ConnLost, Release
    <2> QED  BY <2>2, <2>3 DEF Absent, In
  <1> QED  BY <1>1, <1>2, <1>3, <1>4, MatchedEventsStep

LEMMA HappenedHolds == Spec => []Happened
  <1>1. Init => Happened
    BY QueueNames DEF Init, Happened, Absent, In, NoMessages, Busy
  <1>2. Basic /\ Happened /\ [Next]_vars => Happened'
    BY HappenedStep
  <1> QED  BY <1>1, <1>2, BasicHolds, PTL DEF Spec

-----------------------------------------------------------------------------
(* While nothing fails, the task of a row exists once *)

TaskQueues == Queues \ {"matched.events"}

\* A place is << w, x >>: handler w of instance x, or task x in queue w.  It holds the
\* task of row i when it will settle the row or pass the task on.
Holds(w, x, i) ==
    \/ w = "exp" /\ x \in Instances /\ Publishing(x, i)
    \/ w = "snd" /\ x \in Instances /\ Sending(x, i)
    \/ w = "ded" /\ x \in Instances /\ Burying(x, i)
    \/ w \in TaskQueues /\ In(queue, w, x) /\ x.id = i

\* The failures that the task at this place knows of.
Failures(w, x) ==
    IF w = "exp" THEN exp[x].task.rc
    ELSE IF w = "snd" THEN snd[x].task.rc + (IF snd[x].pc = "publish" THEN 1 ELSE 0)
    ELSE IF w = "ded" THEN ded[x].task.rc
    ELSE x.rc

Faithful(w, x, i) ==
    /\ i \in DOMAIN logs
    /\ logs[i].status \in {"pending", "failed"}
    /\ logs[i].retry = Failures(w, x)
    /\ w \in TaskQueues => queue[w][x] = 1

\* Every row that is not settled has its task at one place, and the retry counter of
\* the row is the task's.  (The tasks of Resend name no row.)
TokenInv ==
    \A i \in Nat \ {0} :
        /\ \A w, x : Holds(w, x, i) => Faithful(w, x, i)
        /\ \A w, x, v, y : Holds(w, x, i) /\ Holds(v, y, i) => w = v /\ x = y

\* A place that a step leaves alone.
Still(w, x) ==
    /\ \A i : Holds(w, x, i)' <=> Holds(w, x, i)
    /\ \A i : Holds(w, x, i) => /\ Failures(w, x)' = Failures(w, x)
                                /\ w \in TaskQueues => queue'[w][x] = queue[w][x]

LEMMA StillIs ==
    ASSUME NEW w, NEW x,
           w = "exp" /\ x \in Instances => exp'[x] = exp[x],
           w = "snd" /\ x \in Instances => snd'[x] = snd[x],
           w = "ded" /\ x \in Instances => ded'[x] = ded[x],
           w \in TaskQueues => /\ In(queue', w, x) <=> In(queue, w, x)
                               /\ In(queue, w, x) => queue'[w][x] = queue[w][x]
    PROVE  Still(w, x)
  <1>1. TaskQueues \cap {"exp", "snd", "ded"} = {}
    BY RetryQueueFacts DEF TaskQueues, Queues
  <1>2. ASSUME NEW i PROVE Holds(w, x, i)' <=> Holds(w, x, i)
    BY DEF Holds, Publishing, Sending, Burying, In
  <1>3. ASSUME NEW i, Holds(w, x, i)
        PROVE  /\ Failures(w, x)' = Failures(w, x)
               /\ w \in TaskQueues => queue'[w][x] = queue[w][x]
    BY <1>1, <1>3 DEF Holds, Failures
  <1> QED  BY <1>2, <1>3 DEF Still

\* A step that takes the task of a row from one place to another, and writes no other
\* row.
LEMMA TokenMove ==
    ASSUME TokenInv, NEW w, NEW x, NEW v, NEW y,
           \A a, b : ~ (a = w /\ b = x) /\ ~ (a = v /\ b = y) => Still(a, b),
           (w = v /\ x = y) \/ \A i \in Nat \ {0} : ~ Holds(w, x, i)',
           \A i \in Nat \ {0} : Holds(v, y, i)' =>
               Faithful(v, y, i)' /\ (Holds(w, x, i) \/ i \notin DOMAIN logs),
           \A i \in DOMAIN logs : i \in DOMAIN logs' /\ (logs'[i] = logs[i] \/ Holds(w, x, i))
    PROVE  TokenInv'
  <1> SUFFICES ASSUME NEW i \in Nat \ {0}
               PROVE  /\ \A a, b : Holds(a, b, i)' => Faithful(a, b, i)'
                      /\ \A a, b, c, d : Holds(a, b, i)' /\ Holds(c, d, i)' => a = c /\ b = d
    BY DEF TokenInv
  <1>1. /\ \A a, b : Holds(a, b, i) => Faithful(a, b, i)
        /\ \A a, b, c, d : Holds(a, b, i) /\ Holds(c, d, i) => a = c /\ b = d
    BY DEF TokenInv
  <1>2. ASSUME NEW a, NEW b, Holds(a, b, i)', ~ (a = v /\ b = y)
        PROVE  Still(a, b) /\ Holds(a, b, i) /\ ~ (a = w /\ b = x)
    <2>1. ~ (a = w /\ b = x)
      BY <1>2
    <2>2. Still(a, b)
      BY <1>2, <2>1
    <2> QED  BY <1>2, <2>1, <2>2 DEF Still
  <1>3. ASSUME NEW a, NEW b, Holds(a, b, i)' PROVE Faithful(a, b, i)'
    <2>1. CASE a = v /\ b = y
      BY <1>3, <2>1
    <2>2. CASE ~ (a = v /\ b = y)
      <3>1. Still(a, b) /\ Holds(a, b, i) /\ ~ (a = w /\ b = x)
        BY <1>2, <1>3, <2>2
      <3>2. Faithful(a, b, i) /\ ~ Holds(w, x, i)
        BY <1>1, <3>1
      <3> QED  BY <3>1, <3>2 DEF Faithful, Still
    <2> QED  BY <2>1, <2>2
  <1>4. ASSUME NEW a, NEW b, Holds(a, b, i)', Holds(v, y, i)', ~ (a = v /\ b = y)
        PROVE  FALSE
    <2>1. Holds(a, b, i) /\ ~ (a = w /\ b = x)
      BY <1>2, <1>4
    <2>2. i \in DOMAIN logs
      BY <1>1, <2>1 DEF Faithful
    <2> QED  BY <1>1, <1>4, <2>1, <2>2
  <1>5. ASSUME NEW a, NEW b, NEW c, NEW d, Holds(a, b, i)', Holds(c, d, i)'
        PROVE  a = c /\ b = d
    <2>1. CASE (a = v /\ b = y) \/ (c = v /\ d = y)
      BY <1>4, <1>5, <2>1
    <2>2. CASE ~ (a = v /\ b = y) /\ ~ (c = v /\ d = y)
      BY <1>1, <1>2, <1>5, <2>2
    <2> QED  BY <2>1, <2>2
  <1> QED  BY <1>3, <1>5

LEMMA TokenStill ==
    ASSUME TokenInv, \A w, x : Still(w, x), logs' = logs
    PROVE  TokenInv'
  <1>1. \A i : ~ Holds("nowhere", 0, i)'
    BY RetryQueueFacts DEF Holds, TaskQueues, Queues
  <1> QED  BY <1>1, TokenMove

\* The copies of the messages that a queue operation leaves alone.
LEMMA AddStill ==
    ASSUME NEW Q, QueueTypeOK(Q), NEW r \in Queues, NEW m
    PROVE  /\ \A q \in Queues : \A x : ~ (q = r /\ x = m) =>
                 /\ In(Add(Q, r, m), q, x) <=> In(Q, q, x)
                 /\ In(Q, q, x) => Add(Q, r, m)[q][x] = Q[q][x]
           /\ ~ In(Q, r, m) => Add(Q, r, m)[r][m] = 1
  <1>1. \A q \in Queues : \A x \in DOMAIN Q[q] : Q[q][x] \in Nat \ {0}
    BY DEF QueueTypeOK
  <1>2. /\ \A q \in Queues : Add(Q, r, m)[q] = IF q = r THEN BagAdd(Q[q], m) ELSE Q[q]
    BY DEF QueueTypeOK, Add
  <1> QED  BY <1>1, <1>2, BagCounts DEF In

LEMMA DequeueStill ==
    ASSUME NEW Q, QueueTypeOK(Q), NEW r \in Queues, NEW m
    PROVE  /\ \A q \in Queues : \A x : ~ (q = r /\ x = m) =>
                 /\ In(Dequeue(Q, r, m), q, x) <=> In(Q, q, x)
                 /\ In(Q, q, x) => Dequeue(Q, r, m)[q][x] = Q[q][x]
           /\ In(Q, r, m) /\ Q[r][m] = 1 => ~ In(Dequeue(Q, r, m), r, m)
  <1>1. \A q \in Queues : \A x \in DOMAIN Q[q] : Q[q][x] \in Nat \ {0}
    BY DEF QueueTypeOK
  <1>2. /\ \A q \in Queues :
              Dequeue(Q, r, m)[q] = IF q = r THEN BagRemove(Q[q], m) ELSE Q[q]
    BY DEF QueueTypeOK, Dequeue
  <1> QED  BY <1>1, <1>2, BagCounts DEF In

LEMMA ExpToken ==
    ASSUME Basic, TokenInv, faults'.kinds = {}, NEW d \in Instances, ExpStep(d)
    PROVE  TokenInv'
  <1>0. /\ TypeOK /\ QueueTypeOK(queue) /\ exp \in [Instances -> ExpStates]
        /\ \A k : ~ Fault(k)
        /\ UNCHANGED << snd, ded >>
    BY NoFault DEF Basic, TypeOK, ExpStep, ExpReceive, ExpLookup, ExpCreate, ExpPublish,
                   ExpAck
  <1>1. \A x \in Instances \ {d} : exp'[x] = exp[x]
    BY <1>0 DEF ExpStep, ExpReceive, ExpLookup, ExpCreate, ExpPublish, ExpAck, Loop
  <1>2. ASSUME \A q \in TaskQueues : \A x :
                  /\ In(queue', q, x) <=> In(queue, q, x)
                  /\ In(queue, q, x) => queue'[q][x] = queue[q][x],
               \A i \in Nat \ {0} : Publishing(d, i)' =>
                  Faithful("exp", d, i)' /\ i \notin DOMAIN logs,
               \A i \in DOMAIN logs : i \in DOMAIN logs' /\ logs'[i] = logs[i]
        PROVE  TokenInv'
    <2>1. \A a, b : ~ (a = "exp" /\ b = d) => Still(a, b)
      BY <1>0, <1>1, <1>2, StillIs
    <2>2. \A i : Holds("exp", d, i)' => Publishing(d, i)'
      BY RetryQueueFacts DEF Holds, TaskQueues, Queues
    <2> QED  BY <1>2, <2>1, <2>2, TokenMove
  <1>3. ASSUME NEW e \in Events, ExpReceive(d, e) PROVE TokenInv'
    <2>1. \A q \in TaskQueues : queue'[q] = queue[q]
      BY <1>0, <1>3 DEF ExpReceive, Dequeue, TaskQueues, QueueTypeOK
    <2>2. \A i : ~ Publishing(d, i)'
      BY <1>0, <1>3 DEF ExpReceive, Publishing
    <2> QED  BY <1>2, <1>3, <2>1, <2>2 DEF ExpReceive, In
  <1>4. ASSUME NEW wa \in Addrs, ExpLookup(d, wa) PROVE TokenInv'
    <2>1. \A i : ~ Publishing(d, i)'
      BY <1>0, <1>4 DEF ExpLookup, Loop, Publishing
    <2> QED  BY <1>2, <1>4, <2>1 DEF ExpLookup, In
  <1>5. CASE ExpAck(d)
    <2>1. \A i : ~ Publishing(d, i)'
      BY <1>0, <1>5 DEF ExpAck, Publishing, Idle
    <2> QED  BY <1>2, <1>5, <2>1 DEF ExpAck, In
  <1>6. CASE ExpCreate(d)
    <2>1. CASE Loop(d, exp[d].todo \ {exp[d].wa}) /\ UNCHANGED logs
      <3>1. \A i : ~ Publishing(d, i)'
        BY <1>0, <2>1 DEF Loop, Publishing
      <3> QED  BY <1>2, <1>6, <2>1, <3>1 DEF ExpCreate, In
    <2>2. CASE /\ logs' = Append(logs, NewRow(d))
               /\ exp' = [exp EXCEPT ![d] =
                        [pc |-> "publish", ev |-> exp[d].ev,
                         todo |-> exp[d].todo \ {exp[d].wa}, held |-> exp[d].held,
                         task |-> [ev |-> exp[d].ev, wa |-> exp[d].wa,
                                   id |-> Len(logs) + 1, rc |-> 0],
                         try |-> 0]]
      <3>1. /\ Len(logs) \in Nat /\ DOMAIN logs = 1..Len(logs)
            /\ DOMAIN logs' = 1..(Len(logs) + 1) /\ logs'[Len(logs) + 1] = NewRow(d)
            /\ \A i \in DOMAIN logs : logs'[i] = logs[i]
        BY <1>0, <2>2, AppendFacts
      <3>2. exp'[d].task.id = Len(logs) + 1 /\ exp'[d].task.rc = 0
        BY <1>0, <2>2
      <3>3. "exp" \notin TaskQueues
        BY RetryQueueFacts DEF TaskQueues, Queues
      <3>4. ASSUME NEW i \in Nat \ {0}, Publishing(d, i)'
            PROVE  Faithful("exp", d, i)' /\ i \notin DOMAIN logs
        <4>1. i = Len(logs) + 1
          BY <3>2, <3>4 DEF Publishing
        <4> QED  BY <3>1, <3>2, <3>3, <4>1 DEF Faithful, Failures, NewRow
      <3> QED  BY <1>2, <1>6, <3>1, <3>4 DEF ExpCreate, In
    <2> QED  BY <1>6, <2>1, <2>2 DEF ExpCreate, NewRow
  <1>7. CASE ExpPublish(d)
    <2>0. PICK t : t = exp[d].task
      OBVIOUS
    <2>1. /\ t \in Task /\ queue' = Add(queue, "dispatch.tasks", t)
          /\ "dispatch.tasks" \in TaskQueues /\ TaskQueues \subseteq Queues
      BY <1>0, <1>7, <2>0, ExpPublishQueue, QueueNames DEF TaskQueues
    <2>2. /\ exp' = [exp EXCEPT ![d] = [pc |-> "range", ev |-> exp[d].ev,
                                        todo |-> exp[d].todo, held |-> exp[d].held]]
          /\ logs' = logs
      BY <1>0, <1>7 DEF ExpPublish, publishOnce, Outcomes, PublishReturns, Loop
    <2>3. \A i : ~ Holds("exp", d, i)'
      BY <1>0, <2>2, RetryQueueFacts DEF Holds, Publishing, TaskQueues, Queues
    <2>4. \A a, b : ~ (a = "exp" /\ b = d) /\ ~ (a = "dispatch.tasks" /\ b = t) =>
                        Still(a, b)
      <3>1. \A q \in TaskQueues : \A x : ~ (q = "dispatch.tasks" /\ x = t) =>
                 /\ In(queue', q, x) <=> In(queue, q, x)
                 /\ In(queue, q, x) => queue'[q][x] = queue[q][x]
        BY <1>0, <2>1, AddStill
      <3> QED  BY <1>0, <1>1, <3>1, StillIs
    <2>5. ASSUME NEW i \in Nat \ {0}, Holds("dispatch.tasks", t, i)'
          PROVE  Faithful("dispatch.tasks", t, i)' /\ Holds("exp", d, i)
      <3>1. t.id = i
        BY <2>1, <2>5 DEF Holds
      <3>2. Holds("exp", d, i)
        BY <1>7, <2>0, <3>1 DEF Holds, Publishing, ExpPublish
      <3>3. ~ In(queue, "dispatch.tasks", t)
        <4>1. In(queue, "dispatch.tasks", t) => Holds("dispatch.tasks", t, i)
          BY <2>1, <3>1 DEF Holds
        <4> QED  BY <3>2, <4>1 DEF TokenInv
      <3>4. queue'["dispatch.tasks"][t] = 1
        BY <1>0, <2>1, <3>3, AddStill
      <3>5. Faithful("exp", d, i) /\ Failures("exp", d) = t.rc
        BY <2>0, <3>2 DEF TokenInv, Failures
      <3>6. Failures("dispatch.tasks", t)' = t.rc
        BY DEF Failures
      <3> QED  BY <2>2, <3>2, <3>4, <3>5, <3>6 DEF Faithful
    <2> QED  BY <2>2, <2>3, <2>4, <2>5, TokenMove
  <1> QED  BY <1>3, <1>4, <1>5, <1>6, <1>7 DEF ExpStep

LEMMA SndToken ==
    ASSUME Basic, TokenInv, faults'.kinds = {}, NEW d \in Instances, SndStep(d)
    PROVE  TokenInv'
  <1>0. /\ TypeOK /\ QueueTypeOK(queue) /\ snd \in [Instances -> SndStates]
        /\ logs \in Seq(Log) /\ RetryDiscipline
        /\ \A k : ~ Fault(k)
        /\ UNCHANGED << exp, ded >>
    BY NoFault DEF Basic, TypeOK, SndStep, SndReceive, SndPost, SndUpdate, SndIncr,
                   SndPublish, SndAck
  <1>1. \A x \in Instances \ {d} : snd'[x] = snd[x]
    BY <1>0 DEF SndStep, SndReceive, SndPost, SndUpdate, SndIncr, SndPublish, SndAck
  <1>2. /\ "snd" \notin TaskQueues /\ "dispatch.tasks" \in TaskQueues
        /\ TaskQueues \subseteq Queues
        /\ \A i : Holds("snd", d, i) <=> Sending(d, i)
        /\ \A i : Holds("snd", d, i)' <=> Sending(d, i)'
    BY RetryQueueFacts DEF Holds, TaskQueues, Queues
  <1>3. ASSUME NEW i \in Nat \ {0}, Sending(d, i)
        PROVE  /\ i \in DOMAIN logs /\ logs[i] \in Log
               /\ logs[i].status \in {"pending", "failed"}
               /\ snd[d] \in [pc : {"post", "success", "failed", "incr", "publish",
                                    "ackOk", "ack"},
                              task : Task, held : BOOLEAN, try : 0..maxRetries-1]
               /\ snd[d].task.rc \in Nat
               /\ logs[i].retry = snd[d].task.rc + (IF snd[d].pc = "publish" THEN 1 ELSE 0)
    <2>1. Faithful("snd", d, i)
      BY <1>2, <1>3 DEF TokenInv
    <2>2. snd[d] \in [pc : {"post", "success", "failed", "incr", "publish", "ackOk", "ack"},
                      task : Task, held : BOOLEAN, try : 0..maxRetries-1]
      BY <1>0, <1>3 DEF SndStates, Sending, Idle
    <2>3. snd[d].task.rc \in Nat
      BY <2>2 DEF Task
    <2> QED  BY <1>0, <2>1, <2>2, <2>3 DEF Faithful, Failures
  <1>4. ASSUME UNCHANGED queue,
               \A i \in Nat \ {0} : Sending(d, i)' => Faithful("snd", d, i)' /\ Sending(d, i),
               \A i \in DOMAIN logs : /\ i \in DOMAIN logs'
                                      /\ logs'[i] = logs[i] \/ Sending(d, i)
        PROVE  TokenInv'
    <2>1. \A a, b : ~ (a = "snd" /\ b = d) => Still(a, b)
      BY <1>0, <1>1, <1>4, StillIs DEF In
    <2> QED  BY <1>2, <1>4, <2>1, TokenMove
  <1>5. ASSUME NEW t \in DOMAIN queue["dispatch.tasks"], SndReceive(d, t) PROVE TokenInv'
    <2>1. /\ queue' = Dequeue(queue, "dispatch.tasks", t)
          /\ snd'[d] = [pc |-> "post", task |-> t, held |-> TRUE, try |-> 0]
          /\ logs' = logs
      BY <1>0, <1>5 DEF SndReceive
    <2>2. \A a, b : ~ (a = "dispatch.tasks" /\ b = t) /\ ~ (a = "snd" /\ b = d) =>
                        Still(a, b)
      <3>1. \A q \in TaskQueues : \A x : ~ (q = "dispatch.tasks" /\ x = t) =>
                 /\ In(queue', q, x) <=> In(queue, q, x)
                 /\ In(queue, q, x) => queue'[q][x] = queue[q][x]
        BY <1>0, <1>2, <2>1, DequeueStill
      <3> QED  BY <1>0, <1>1, <3>1, StillIs
    <2>3. \A i : Holds("dispatch.tasks", t, i) <=> t.id = i
      BY <1>2 DEF Holds, In
    <2>4. ASSUME NEW i \in Nat \ {0} PROVE ~ Holds("dispatch.tasks", t, i)'
      <3>1. CASE t.id # i
        BY <3>1, <1>2 DEF Holds
      <3>2. CASE t.id = i
        <4>1. Faithful("dispatch.tasks", t, i)
          BY <2>3, <3>2 DEF TokenInv
        <4>2. ~ In(queue', "dispatch.tasks", t)
          BY <1>0, <1>2, <2>1, <4>1, DequeueStill DEF Faithful, In
        <4> QED  BY <1>2, <4>2 DEF Holds, In
      <3> QED  BY <3>1, <3>2
    <2>5. ASSUME NEW i \in Nat \ {0}, Holds("snd", d, i)'
          PROVE  Faithful("snd", d, i)' /\ Holds("dispatch.tasks", t, i)
      <3>1. Holds("dispatch.tasks", t, i)
        BY <1>2, <2>1, <2>3, <2>5 DEF Sending
      <3>2. Faithful("dispatch.tasks", t, i) /\ Failures("dispatch.tasks", t) = t.rc
        BY <3>1 DEF TokenInv, Failures
      <3>3. t.rc \in Nat
        BY <1>0 DEF RetryDiscipline
      <3>4. Failures("snd", d)' = t.rc
        BY <2>1, <3>3 DEF Failures
      <3> QED  BY <1>2, <2>1, <3>1, <3>2, <3>4 DEF Faithful
    <2> QED  BY <2>1, <2>2, <2>4, <2>5, TokenMove
  <1>6. CASE SndPost(d)
    <2>1. ASSUME NEW i \in Nat \ {0}, Sending(d, i)'
          PROVE  Faithful("snd", d, i)' /\ Sending(d, i)
      <3>1. PICK answer \in {"success", "failed"} : snd' = [snd EXCEPT ![d].pc = answer]
        BY <1>6 DEF SndPost
      <3>2. snd[d].pc = "post" /\ snd[d] # Idle /\ logs' = logs
        BY <1>6 DEF SndPost, Idle
      <3>3. snd'[d].task = snd[d].task /\ snd'[d].pc = answer
        BY <1>0, <3>1, <3>2 DEF SndStates
      <3>4. Sending(d, i)
        BY <2>1, <3>2, <3>3 DEF Sending
      <3> QED  BY <1>2, <1>3, <3>2, <3>3, <3>4 DEF Faithful, Failures
    <2> QED  BY <1>4, <1>6, <2>1 DEF SndPost
  <1>7. CASE SndUpdate(d)
    <2>1. /\ snd[d].pc \in {"success", "failed"} /\ snd[d] # Idle
          /\ logs' = UpdateStatus(snd[d].task.id, snd[d].pc)
          /\ snd' = [snd EXCEPT ![d].pc = IF @ = "success" THEN "ackOk" ELSE "incr"]
          /\ UNCHANGED queue
      BY <1>0, <1>7 DEF SndUpdate, Write, Idle
    <2>2. /\ snd'[d].task = snd[d].task
          /\ snd'[d].pc = IF snd[d].pc = "success" THEN "ackOk" ELSE "incr"
      BY <1>0, <2>1 DEF SndStates
    <2>3. /\ DOMAIN logs' = DOMAIN logs
          /\ \A i \in DOMAIN logs :
                /\ logs'[i].retry = logs[i].retry
                /\ logs'[i].status = IF i = snd[d].task.id THEN snd[d].pc ELSE logs[i].status
      BY <1>0, <2>1, UpdateStatusFacts
    <2>4. ASSUME NEW i \in Nat \ {0}, Sending(d, i)'
          PROVE  Faithful("snd", d, i)' /\ Sending(d, i)
      <3>1. Sending(d, i) /\ snd[d].pc = "failed" /\ i = snd[d].task.id
        BY <2>1, <2>2, <2>4 DEF Sending
      <3> QED  BY <1>2, <1>3, <2>2, <2>3, <3>1 DEF Faithful, Failures
    <2>5. ASSUME NEW i \in DOMAIN logs, i # snd[d].task.id PROVE logs'[i] = logs[i]
      BY <2>1, <2>5 DEF UpdateStatus
    <2>6. \A i \in DOMAIN logs : i = snd[d].task.id => Sending(d, i)
      BY <2>1 DEF Sending
    <2> QED  BY <1>4, <2>1, <2>3, <2>4, <2>5, <2>6
  <1>8. CASE SndIncr(d)
    <2>1. /\ snd[d].pc = "incr" /\ snd[d] # Idle
          /\ logs' = IncrRetryCount(snd[d].task.id)
          /\ snd' = [snd EXCEPT ![d].pc = "publish"]
          /\ UNCHANGED queue
      BY <1>0, <1>8 DEF SndIncr, Write, Idle
    <2>2. snd'[d].task = snd[d].task /\ snd'[d].pc = "publish"
      BY <1>0, <2>1 DEF SndStates
    <2>3. /\ DOMAIN logs' = DOMAIN logs
          /\ \A i \in DOMAIN logs :
                /\ logs'[i].status = logs[i].status
                /\ logs'[i].retry = IF i = snd[d].task.id THEN logs[i].retry + 1
                                    ELSE logs[i].retry
      BY <1>0, <2>1, IncrRetryCountFacts
    <2>4. ASSUME NEW i \in Nat \ {0}, Sending(d, i)'
          PROVE  Faithful("snd", d, i)' /\ Sending(d, i)
      <3>1. Sending(d, i) /\ i = snd[d].task.id
        BY <2>1, <2>2, <2>4 DEF Sending
      <3>2. logs[i].retry = snd[d].task.rc /\ snd[d].task.rc \in Nat
        BY <1>3, <2>1, <3>1
      <3>3. Failures("snd", d)' = snd[d].task.rc + 1
        BY <2>2 DEF Failures
      <3> QED  BY <1>2, <1>3, <2>3, <3>1, <3>2, <3>3 DEF Faithful
    <2>5. ASSUME NEW i \in DOMAIN logs, i # snd[d].task.id PROVE logs'[i] = logs[i]
      BY <2>1, <2>5 DEF IncrRetryCount
    <2>6. \A i \in DOMAIN logs : i = snd[d].task.id => Sending(d, i)
      BY <2>1 DEF Sending
    <2> QED  BY <1>4, <2>1, <2>3, <2>4, <2>5, <2>6
  <1>9. CASE SndPublish(d)
    <2>0. PICK m : m = Failed(snd[d].task)
      OBVIOUS
    <2>1. PICK r : r = RetryTarget(snd[d].task.rc + 1)
      OBVIOUS
    <2>2. /\ m \in Task /\ m.id = snd[d].task.id /\ m.rc = snd[d].task.rc + 1
          /\ r \in TaskQueues /\ queue' = Add(queue, r, m)
      BY <1>0, <1>9, <2>0, <2>1, SndPublishQueue DEF TaskQueues
    <2>3. snd' = [snd EXCEPT ![d].pc = "ack"] /\ logs' = logs
      BY <1>0, <1>9 DEF SndPublish, publishOnce, Outcomes, PublishReturns
    <2>4. \A i : ~ Holds("snd", d, i)'
      <3>1. snd[d] # Idle
        BY <1>9 DEF SndPublish, Idle
      <3>2. snd'[d].pc = "ack"
        BY <1>0, <2>3, <3>1 DEF SndStates
      <3> QED  BY <1>2, <3>2 DEF Sending
    <2>5. \A a, b : ~ (a = "snd" /\ b = d) /\ ~ (a = r /\ b = m) => Still(a, b)
      <3>1. \A q \in TaskQueues : \A x : ~ (q = r /\ x = m) =>
                 /\ In(queue', q, x) <=> In(queue, q, x)
                 /\ In(queue, q, x) => queue'[q][x] = queue[q][x]
        BY <1>0, <1>2, <2>2, AddStill
      <3> QED  BY <1>0, <1>1, <3>1, StillIs
    <2>6. ASSUME NEW i \in Nat \ {0}, Holds(r, m, i)'
          PROVE  Faithful(r, m, i)' /\ Holds("snd", d, i)
      <3>0. r \notin {"exp", "snd", "ded"}
        BY <2>2, RetryQueueFacts DEF TaskQueues, Queues
      <3>1. m.id = i
        BY <2>6, <3>0 DEF Holds
      <3>2. Sending(d, i)
        BY <1>9, <2>2, <3>1 DEF SndPublish, Sending
      <3>3. ~ In(queue, r, m)
        <4>1. In(queue, r, m) => Holds(r, m, i)
          BY <2>2, <3>1 DEF Holds
        <4> QED  BY <1>2, <3>0, <3>2, <4>1 DEF TokenInv
      <3>4. queue'[r][m] = 1
        BY <1>0, <1>2, <2>2, <3>3, AddStill
      <3>5. Failures(r, m)' = m.rc
        BY <3>0 DEF Failures
      <3> QED  BY <1>2, <1>3, <1>9, <2>2, <2>3, <3>2, <3>4, <3>5 DEF Faithful, SndPublish
    <2> QED  BY <2>3, <2>4, <2>5, <2>6, TokenMove
  <1>10. CASE SndAck(d)
    <2>1. \A i : ~ Sending(d, i)'
      BY <1>0, <1>10 DEF SndAck, Sending, Idle
    <2> QED  BY <1>4, <1>10, <2>1 DEF SndAck
  <1> QED  BY <1>5, <1>6, <1>7, <1>8, <1>9, <1>10 DEF SndStep

LEMMA DedToken ==
    ASSUME Basic, TokenInv, faults'.kinds = {}, NEW d \in Instances, DedStep(d)
    PROVE  TokenInv'
  <1>0. /\ TypeOK /\ QueueTypeOK(queue) /\ ded \in [Instances -> DedStates]
        /\ logs \in Seq(Log)
        /\ \A k : ~ Fault(k)
        /\ UNCHANGED << exp, snd >>
        /\ \A x \in Instances \ {d} : ded'[x] = ded[x]
    BY NoFault DEF Basic, TypeOK, DedStep, DedReceive, DedMark, DedAck
  <1>1. /\ "ded" \notin TaskQueues /\ "dispatch.dead" \in TaskQueues
        /\ TaskQueues \subseteq Queues
        /\ \A i : Holds("ded", d, i) <=> Burying(d, i)
        /\ \A i : Holds("ded", d, i)' <=> Burying(d, i)'
    BY RetryQueueFacts DEF Holds, TaskQueues, Queues
  <1>2. ASSUME NEW t \in DOMAIN queue["dispatch.dead"], DedReceive(d, t) PROVE TokenInv'
    <2>1. /\ queue' = Dequeue(queue, "dispatch.dead", t)
          /\ ded'[d] = [pc |-> "mark", task |-> t, held |-> TRUE]
          /\ logs' = logs
      BY <1>0, <1>2 DEF DedReceive
    <2>2. \A a, b : ~ (a = "dispatch.dead" /\ b = t) /\ ~ (a = "ded" /\ b = d) =>
                        Still(a, b)
      <3>1. \A q \in TaskQueues : \A x : ~ (q = "dispatch.dead" /\ x = t) =>
                 /\ In(queue', q, x) <=> In(queue, q, x)
                 /\ In(queue, q, x) => queue'[q][x] = queue[q][x]
        BY <1>0, <1>1, <2>1, DequeueStill
      <3> QED  BY <1>0, <3>1, StillIs
    <2>3. \A i : Holds("dispatch.dead", t, i) <=> t.id = i
      BY <1>1 DEF Holds, In
    <2>4. ASSUME NEW i \in Nat \ {0} PROVE ~ Holds("dispatch.dead", t, i)'
      <3>1. CASE t.id # i
        BY <3>1, <1>1 DEF Holds
      <3>2. CASE t.id = i
        <4>1. Faithful("dispatch.dead", t, i)
          BY <2>3, <3>2 DEF TokenInv
        <4>2. ~ In(queue', "dispatch.dead", t)
          BY <1>0, <1>1, <2>1, <4>1, DequeueStill DEF Faithful, In
        <4> QED  BY <1>1, <4>2 DEF Holds, In
      <3> QED  BY <3>1, <3>2
    <2>5. ASSUME NEW i \in Nat \ {0}, Holds("ded", d, i)'
          PROVE  Faithful("ded", d, i)' /\ Holds("dispatch.dead", t, i)
      <3>1. Holds("dispatch.dead", t, i)
        BY <1>1, <2>1, <2>3, <2>5 DEF Burying
      <3>2. Faithful("dispatch.dead", t, i) /\ Failures("dispatch.dead", t) = t.rc
        BY <3>1 DEF TokenInv, Failures
      <3>3. Failures("ded", d)' = t.rc
        BY <2>1 DEF Failures
      <3> QED  BY <1>1, <2>1, <3>1, <3>2, <3>3 DEF Faithful
    <2> QED  BY <2>1, <2>2, <2>4, <2>5, TokenMove
  <1>3. ASSUME UNCHANGED queue, \A i : ~ Burying(d, i)',
               \A i \in DOMAIN logs : /\ i \in DOMAIN logs'
                                      /\ logs'[i] = logs[i] \/ Burying(d, i)
        PROVE  TokenInv'
    <2>1. \A a, b : ~ (a = "ded" /\ b = d) => Still(a, b)
      BY <1>0, <1>3, StillIs DEF In
    <2> QED  BY <1>1, <1>3, <2>1, TokenMove
  <1>4. CASE DedMark(d)
    <2>1. /\ ded[d].pc = "mark" /\ ded[d] # Idle
          /\ logs' = UpdateStatus(ded[d].task.id, "dead")
          /\ ded' = [ded EXCEPT ![d].pc = "ack"]
          /\ UNCHANGED queue
      BY <1>0, <1>4 DEF DedMark, Write, Idle
    <2>2. ded'[d].pc = "ack"
      BY <1>0, <2>1 DEF DedStates
    <2>3. DOMAIN logs' = DOMAIN logs
      BY <1>0, <2>1, UpdateStatusFacts
    <2>4. \A i \in DOMAIN logs : i # ded[d].task.id => logs'[i] = logs[i]
      BY <2>1 DEF UpdateStatus
    <2> QED  BY <1>3, <2>1, <2>2, <2>3, <2>4 DEF Burying
  <1>5. CASE DedAck(d)
    <2>1. ded'[d].pc = "idle"
      BY <1>0, <1>5 DEF DedAck, Idle
    <2> QED  BY <1>3, <1>5, <2>1 DEF DedAck, Burying
  <1> QED  BY <1>2, <1>4, <1>5 DEF DedStep

LEMMA TokenStep ==
    ASSUME Basic, TokenInv, faults'.kinds = {}, [Next]_vars
    PROVE  TokenInv'
  <1>0. /\ TypeOK /\ QueueTypeOK(queue) /\ \A k : ~ Fault(k)
        /\ TaskQueues \subseteq Queues /\ "matched.events" \notin TaskQueues
        /\ "dispatch.tasks" \in TaskQueues /\ RetryQueues \subseteq TaskQueues
        /\ "dispatch.tasks" \notin RetryQueues
    BY NoFault, QueueNames DEF Basic, TypeOK, TaskQueues
  <1>1. ASSUME NEW e \in Events, Matched(e) PROVE TokenInv'
    <2>1. \A q \in TaskQueues : queue'[q] = queue[q]
      BY <1>0, <1>1, MatchedQueue DEF Add, QueueTypeOK
    <2>2. \A w, x : Still(w, x)
      BY <1>1, <2>1, StillIs DEF Matched, In
    <2> QED  BY <1>1, <2>2, TokenStill DEF Matched
  <1>2. ASSUME NEW q \in RetryQueues, NEW t \in DOMAIN queue[q], RetryExpire(q, t)
        PROVE  TokenInv'
    <2>0. PICK Q : Q = Dequeue(queue, q, t)
      OBVIOUS
    <2>1. /\ t \in Task /\ QueueTypeOK(Q) /\ queue' = Add(Q, "dispatch.tasks", t)
          /\ logs' = logs /\ UNCHANGED << exp, snd, ded >>
      BY <1>0, <1>2, <2>0, ExpireQueue DEF RetryExpire
    <2>2. ASSUME NEW p \in TaskQueues, NEW x, ~ (p = q /\ x = t),
                 ~ (p = "dispatch.tasks" /\ x = t)
          PROVE  /\ In(queue', p, x) <=> In(queue, p, x)
                 /\ In(queue, p, x) => queue'[p][x] = queue[p][x]
      <3>1. /\ In(queue', p, x) <=> In(Q, p, x)
            /\ In(Q, p, x) => queue'[p][x] = Q[p][x]
        BY <1>0, <2>1, <2>2, AddStill
      <3>2. /\ In(Q, p, x) <=> In(queue, p, x)
            /\ In(queue, p, x) => Q[p][x] = queue[p][x]
        BY <1>0, <2>0, <2>2, DequeueStill
      <3> QED  BY <3>1, <3>2
    <2>3. \A a, b : ~ (a = q /\ b = t) /\ ~ (a = "dispatch.tasks" /\ b = t) => Still(a, b)
      BY <2>1, <2>2, StillIs
    <2>4. \A i : /\ Holds(q, t, i) <=> t.id = i
                 /\ Holds("dispatch.tasks", t, i)' => t.id = i
      BY <1>0, RetryQueueFacts DEF Holds, In
    <2>5. ASSUME NEW i \in Nat \ {0}, t.id = i
          PROVE  ~ Holds(q, t, i)' /\ Faithful("dispatch.tasks", t, i)'
      <3>1. Faithful(q, t, i)
        BY <2>4, <2>5 DEF TokenInv
      <3>2. ~ In(Q, q, t)
        BY <1>0, <2>0, <3>1, DequeueStill DEF Faithful, In
      <3>3. ~ In(queue', q, t)
        BY <1>0, <2>1, <3>2, AddStill
      <3>4. ~ In(queue, "dispatch.tasks", t)
        <4>1. In(queue, "dispatch.tasks", t) => Holds("dispatch.tasks", t, i)
          BY <1>0, <2>5 DEF Holds
        <4> QED  BY <1>0, <2>4, <2>5, <4>1 DEF TokenInv
      <3>5. ~ In(Q, "dispatch.tasks", t)
        BY <1>0, <2>0, <3>4, DequeueStill
      <3>6. queue'["dispatch.tasks"][t] = 1
        BY <1>0, <2>1, <3>5, AddStill
      <3>7. Failures("dispatch.tasks", t)' = t.rc /\ Failures(q, t) = t.rc
        BY RetryQueueFacts DEF Failures
      <3>8. q \notin {"exp", "snd", "ded"}
        BY RetryQueueFacts
      <3> QED  BY <2>1, <3>1, <3>3, <3>6, <3>7, <3>8 DEF Faithful, Holds, In
    <2>6. \A i : Holds(q, t, i)' => t.id = i
      BY RetryQueueFacts DEF Holds
    <2> QED  BY <2>1, <2>3, <2>4, <2>5, <2>6, TokenMove
  <1>3. ASSUME NEW i \in DOMAIN logs, Resend(i) PROVE TokenInv'
    <2>1. PICK t \in Task : t.id = 0 /\ queue' = Add(queue, "dispatch.tasks", t)
      BY <1>0, <1>3, ResendQueue
    <2>2. \A a, b : ~ (a = "dispatch.tasks" /\ b = t) => Still(a, b)
      <3>1. \A q \in TaskQueues : \A x : ~ (q = "dispatch.tasks" /\ x = t) =>
                 /\ In(queue', q, x) <=> In(queue, q, x)
                 /\ In(queue, q, x) => queue'[q][x] = queue[q][x]
        BY <1>0, <2>1, AddStill
      <3> QED  BY <1>3, <3>1, StillIs DEF Resend
    <2>3. \A j \in Nat \ {0} : ~ Holds("dispatch.tasks", t, j)'
      BY <2>1 DEF Holds
    <2> QED  BY <1>3, <2>2, <2>3, TokenMove DEF Resend
  <1>4. \A d \in Instances : ~ Crash(d) /\ ~ ConnLost(d)
    BY <1>0 DEF Crash, ConnLost
  <1>5. CASE UNCHANGED vars
    <2>1. \A w, x : Still(w, x)
      BY <1>5, StillIs DEF vars, In
    <2> QED  BY <1>5, <2>1, TokenStill DEF vars
  <1> QED  BY <1>1, <1>2, <1>3, <1>4, <1>5, ExpToken, SndToken, DedToken DEF Next, Expire

CalmInv == faults.kinds = {} => TokenInv

LEMMA CalmInvHolds == Spec => []CalmInv
  <1>1. Init => CalmInv
    BY DEF Init, CalmInv, TokenInv, Holds, Publishing, Sending, Burying, In, NoMessages,
           TaskQueues, Idle
  <1>2. Basic /\ CalmInv /\ [Next]_vars => CalmInv'
    BY KindsGrow, TokenStep DEF CalmInv
  <1> QED  BY <1>1, <1>2, BasicHolds, PTL DEF Spec

-----------------------------------------------------------------------------
(* Every step does what Notification allows *)

Published == {e \in Events : matched[e] > 0}
Calm == faults.kinds = {}

\* Notification's variables, and its steps, in these terms.
LEMMA PromiseUnchanged ==
    ASSUME UNCHANGED << States, Attempts, matched, Calm >>
    PROVE  UNCHANGED Promise!notificationVars
  BY DEF Promise!notificationVars, States, Attempts, Calm

\* A step that writes no row and publishes no event.
LEMMA NoRowWritten ==
    ASSUME [Next]_vars, UNCHANGED << logs, matched >>
    PROVE  [Promise!Next]_Promise!notificationVars
  <1>1. UNCHANGED << States, Attempts >>
    BY SameRowsSeen
  <1>2. CASE Calm' = Calm
    BY <1>1, <1>2, PromiseUnchanged
  <1>3. CASE Calm' # Calm
    <2>1. Calm' = FALSE
      BY <1>3, KindsGrow DEF Calm
    <2>2. Promise!Disturb
      BY <1>1, <2>1 DEF Promise!Disturb, States, Attempts, Calm
    <2> QED  BY <2>2 DEF Promise!Next
  <1> QED  BY <1>2, <1>3

\* A handler that wrote row i, in the calm or not.
LEMMA RowWritten ==
    ASSUME TypeOK, TypeOK', SameRows, UNCHANGED << matched, faults >>, NEW i \in DOMAIN logs,
           \A j \in DOMAIN logs : j # i => logs'[j] = logs[j],
           \/ /\ logs'[i].retry = logs[i].retry
              /\ Calm => /\ logs[i].status \in {"pending", "failed"}
                         /\ \/ logs'[i].status = "failed"
                            \/ logs'[i].status = "success" /\ logs[i].retry < 5
                            \/ logs'[i].status = "dead" /\ logs[i].retry = 5
           \/ /\ logs'[i].retry = logs[i].retry + 1 /\ logs'[i].status = logs[i].status
              /\ Calm => logs[i].status \in {"pending", "failed"} /\ logs[i].retry < 5
    PROVE  [Promise!Next]_Promise!notificationVars
  <1>0. /\ Calm' = Calm
        /\ logs'[i].status \in {"pending", "success", "failed", "dead"}
        /\ logs[i].status \in {"pending", "success", "failed", "dead"}
    <2>1. logs[i] \in Log /\ logs'[i] \in Log
      BY DEF TypeOK, SameRows
    <2> QED  BY <2>1 DEF Log, Calm
  <1>1. CASE UNCHANGED << States, Attempts >>
    BY <1>0, <1>1, PromiseUnchanged
  <1>2. ASSUME NEW n \in Due, RowsOf(n) # {},
               << States[n], Attempts[n] >> = Seen(logs[i]),
               States' = [States EXCEPT ![n] = Seen(logs'[i])[1]],
               Attempts' = [Attempts EXCEPT ![n] = Seen(logs'[i])[2]]
        PROVE  [Promise!Next]_Promise!notificationVars
    <2>1. /\ States[n] = Seen(logs[i])[1] /\ States[n] # "none"
          /\ Attempts[n] = logs[i].retry
          /\ Seen(logs'[i])[2] = logs'[i].retry
          /\ States = [States EXCEPT ![n] = States[n]]
          /\ Attempts = [Attempts EXCEPT ![n] = Attempts[n]]
      <3>1. Seen(logs[i])[1] # "none"
        BY <1>0 DEF Seen
      <3> QED  BY <1>2, <3>1 DEF Seen, States, Attempts
    <2>2. CASE logs'[i].retry = logs[i].retry /\ ~ Calm
      <3>1. UNCHANGED Attempts /\ Seen(logs'[i])[1] \in {"owed", "success", "dead"}
        BY <1>0, <1>2, <2>1, <2>2 DEF Seen
      <3>2. Promise!Again(n)
        BY <1>0, <1>2, <2>1, <2>2, <3>1 DEF Promise!Again, States, Attempts, Calm
      <3> QED  BY <3>2 DEF Promise!Next
    <2>3. CASE logs'[i].retry = logs[i].retry /\ Calm
      <3>0. UNCHANGED Attempts /\ States[n] = "owed"
        <4>1. logs[i].status \in {"pending", "failed"}
          BY <2>3
        <4> QED  BY <1>2, <2>1, <2>3, <4>1 DEF Seen
      <3>1. CASE logs'[i].status = "failed"
        <4>1. Seen(logs'[i])[1] = "owed"
          BY <3>1 DEF Seen
        <4>2. UNCHANGED States
          BY <1>2, <2>1, <3>0, <4>1
        <4> QED  BY <1>0, <3>0, <4>2, PromiseUnchanged
      <3>2. CASE logs'[i].status = "success" /\ logs[i].retry < 5
        <4>1. States' = [States EXCEPT ![n] = "success"] /\ Attempts[n] < 5
          BY <1>2, <2>1, <3>2 DEF Seen
        <4>2. Promise!Succeed(n)
          BY <1>0, <2>3, <3>0, <4>1 DEF Promise!Succeed, States, Attempts, Calm
        <4> QED  BY <4>2 DEF Promise!Next, Promise!Attempt
      <3>3. CASE logs'[i].status = "dead" /\ logs[i].retry = 5
        <4>1. States' = [States EXCEPT ![n] = "dead"] /\ Attempts[n] = 5
          BY <1>2, <2>1, <3>3 DEF Seen
        <4>2. Promise!Die(n)
          BY <1>0, <2>3, <3>0, <4>1 DEF Promise!Die, States, Attempts, Calm
        <4> QED  BY <4>2 DEF Promise!Next, Promise!Attempt
      <3>4. logs[i].retry # logs[i].retry + 1
        BY RetryIsNat
      <3> QED  BY <2>3, <3>1, <3>2, <3>3, <3>4
    <2>4. CASE logs'[i].retry = logs[i].retry + 1 /\ logs'[i].status = logs[i].status
      <3>0. Seen(logs'[i])[1] = States[n] /\ Seen(logs'[i])[2] = Attempts[n] + 1
        BY <2>1, <2>4 DEF Seen
      <3>1. /\ UNCHANGED States
            /\ Attempts' = [Attempts EXCEPT ![n] = @ + 1]
        BY <1>2, <2>1, <3>0
      <3>2. CASE ~ Calm
        <4>1. Promise!Again(n)
          BY <1>0, <2>1, <3>1, <3>2 DEF Promise!Again, States, Attempts, Calm
        <4> QED  BY <4>1 DEF Promise!Next
      <3>3. CASE Calm /\ logs[i].status \in {"pending", "failed"} /\ logs[i].retry < 5
        <4>1. States[n] = "owed" /\ Attempts[n] < 5
          BY <2>1, <3>3 DEF Seen
        <4>2. Promise!Fail(n)
          BY <1>0, <3>1, <3>3, <4>1 DEF Promise!Fail, States, Attempts, Calm
        <4> QED  BY <4>2 DEF Promise!Next, Promise!Attempt
      <3>4. logs[i].retry \in Nat
        BY RetryIsNat
      <3> QED  BY <2>4, <3>2, <3>3, <3>4
    <2> QED  BY <2>2, <2>3, <2>4
  <1> QED  BY <1>1, <1>2, RowSeen

LEMMA CreateKeepsPromise ==
    ASSUME Basic, Happened, [Next]_vars, NEW d \in Instances, ExpCreate(d)
    PROVE  [Promise!Next]_Promise!notificationVars
  <1>1. CASE UNCHANGED logs
    BY <1>1, NoRowWritten DEF ExpCreate
  <1>2. CASE logs' = Append(logs, NewRow(d)) /\ UNCHANGED faults
    <2>1. TypeOK /\ TypeOK' /\ UNCHANGED matched /\ Calm' = Calm
      BY <1>2, NextTypeOK DEF Basic, ExpCreate, Calm
    <2>2. NewRow(d).status = "pending" /\ NewRow(d).retry = 0 /\ NewRow(d).ev = exp[d].ev
      BY DEF NewRow
    <2>3. CASE UNCHANGED << States, Attempts >>
      BY <2>1, <2>3, PromiseUnchanged
    <2>4. ASSUME NEW n \in Due, n[1] = exp[d].ev, States[n] = "none",
                 States' = [States EXCEPT ![n] = "owed"], UNCHANGED Attempts
          PROVE  [Promise!Next]_Promise!notificationVars
      <3>1. Busy(d, n[1]) /\ n[1] \in Events
        BY <2>1, <2>4, HeldTypes DEF ExpCreate, Busy, Idle
      <3>2. matched[n[1]] > 0
        <4>1. matched[n[1]] # 0 /\ matched[n[1]] \in Nat
          BY <2>1, <3>1, BoundAssumption DEF Happened, Absent, TypeOK
        <4> QED  BY <4>1
      <3>3. Promise!Owe(n)
        BY <2>1, <2>4, <3>1, <3>2 DEF Promise!Owe, States, Attempts, Calm
      <3> QED  BY <3>3 DEF Promise!Next
    <2> QED  BY <1>2, <2>1, <2>2, <2>3, <2>4, NewRowSeen
  <1> QED  BY <1>1, <1>2 DEF ExpCreate, NewRow

LEMMA UpdateKeepsPromise ==
    ASSUME Basic, CalmInv, [Next]_vars, NEW d \in Instances, SndUpdate(d)
    PROVE  [Promise!Next]_Promise!notificationVars
  <1>0. /\ TypeOK /\ TypeOK' /\ logs \in Seq(Log) /\ UNCHANGED matched
        /\ snd[d].pc \in {"success", "failed"} /\ snd[d] # Idle
    BY NextTypeOK DEF Basic, TypeOK, SndUpdate, Idle
  <1>1. CASE UNCHANGED logs
    BY <1>0, <1>1, NoRowWritten
  <1>2. ASSUME logs' = UpdateStatus(snd[d].task.id, snd[d].pc), UNCHANGED faults
        PROVE  [Promise!Next]_Promise!notificationVars
    <2>1. /\ DOMAIN logs' = DOMAIN logs
          /\ \A i \in DOMAIN logs :
                /\ logs'[i].retry = logs[i].retry
                /\ logs'[i].status = IF i = snd[d].task.id THEN snd[d].pc ELSE logs[i].status
      BY <1>0, <1>2, UpdateStatusFacts
    <2>2. SameRows
      BY <1>0, WriteRows DEF SndUpdate
    <2>3. \A i \in DOMAIN logs : i # snd[d].task.id => logs'[i] = logs[i]
      BY <1>2 DEF UpdateStatus
    <2>4. CASE snd[d].task.id \notin DOMAIN logs
      <3>1. logs' = logs
        BY <1>0, <1>2, <2>4 DEF UpdateStatus
      <3> QED  BY <1>1, <3>1
    <2>5. ASSUME NEW i \in DOMAIN logs, i = snd[d].task.id
          PROVE  [Promise!Next]_Promise!notificationVars
      <3>1. logs'[i].retry = logs[i].retry /\ logs'[i].status \in {"success", "failed"}
        BY <1>0, <2>1, <2>5
      <3>2. Calm => logs[i].status \in {"pending", "failed"} /\ logs[i].retry < 5
        <4>1. SUFFICES ASSUME TokenInv
                       PROVE  logs[i].status \in {"pending", "failed"} /\ logs[i].retry < 5
          BY DEF CalmInv, Calm
        <4>2. Holds("snd", d, i) /\ i \in Nat \ {0}
          BY <1>0, <2>5 DEF Holds, Sending
        <4>3. Faithful("snd", d, i)
          BY <4>1, <4>2 DEF TokenInv
        <4>4. snd[d].task.rc \in 0..4
          BY <1>0 DEF Basic, RetryDiscipline
        <4> QED  BY <1>0, <4>3, <4>4 DEF Faithful, Failures
      <3> QED  BY <1>0, <1>2, <2>2, <2>3, <2>5, <3>1, <3>2, RowWritten
    <2> QED  BY <2>4, <2>5
  <1> QED  BY <1>1, <1>2 DEF SndUpdate, Write

LEMMA IncrKeepsPromise ==
    ASSUME Basic, CalmInv, [Next]_vars, NEW d \in Instances, SndIncr(d)
    PROVE  [Promise!Next]_Promise!notificationVars
  <1>0. /\ TypeOK /\ TypeOK' /\ logs \in Seq(Log) /\ UNCHANGED matched
        /\ snd[d].pc = "incr" /\ snd[d] # Idle
    BY NextTypeOK DEF Basic, TypeOK, SndIncr, Idle
  <1>1. CASE UNCHANGED logs
    BY <1>0, <1>1, NoRowWritten
  <1>2. ASSUME logs' = IncrRetryCount(snd[d].task.id), UNCHANGED faults
        PROVE  [Promise!Next]_Promise!notificationVars
    <2>1. /\ DOMAIN logs' = DOMAIN logs
          /\ \A i \in DOMAIN logs :
                /\ logs'[i].status = logs[i].status
                /\ logs'[i].retry = IF i = snd[d].task.id THEN logs[i].retry + 1
                                    ELSE logs[i].retry
      BY <1>0, <1>2, IncrRetryCountFacts
    <2>2. SameRows
      BY <1>0, WriteRows DEF SndIncr
    <2>3. \A i \in DOMAIN logs : i # snd[d].task.id => logs'[i] = logs[i]
      BY <1>2 DEF IncrRetryCount
    <2>4. CASE snd[d].task.id \notin DOMAIN logs
      <3>1. logs' = logs
        BY <1>0, <1>2, <2>4 DEF IncrRetryCount
      <3> QED  BY <1>1, <3>1
    <2>5. ASSUME NEW i \in DOMAIN logs, i = snd[d].task.id
          PROVE  [Promise!Next]_Promise!notificationVars
      <3>1. logs'[i].retry = logs[i].retry + 1 /\ logs'[i].status = logs[i].status
        BY <2>1, <2>5
      <3>2. Calm => logs[i].status \in {"pending", "failed"} /\ logs[i].retry < 5
        <4>1. SUFFICES ASSUME TokenInv
                       PROVE  logs[i].status \in {"pending", "failed"} /\ logs[i].retry < 5
          BY DEF CalmInv, Calm
        <4>2. Holds("snd", d, i) /\ i \in Nat \ {0}
          BY <1>0, <2>5 DEF Holds, Sending
        <4>3. Faithful("snd", d, i)
          BY <4>1, <4>2 DEF TokenInv
        <4>4. snd[d].task.rc \in 0..4
          BY <1>0 DEF Basic, RetryDiscipline
        <4> QED  BY <1>0, <4>3, <4>4 DEF Faithful, Failures
      <3> QED  BY <1>0, <1>2, <2>2, <2>3, <2>5, <3>1, <3>2, RowWritten
    <2> QED  BY <2>4, <2>5
  <1> QED  BY <1>1, <1>2 DEF SndIncr, Write

LEMMA MarkKeepsPromise ==
    ASSUME Basic, CalmInv, [Next]_vars, NEW d \in Instances, DedMark(d)
    PROVE  [Promise!Next]_Promise!notificationVars
  <1>0. /\ TypeOK /\ TypeOK' /\ logs \in Seq(Log) /\ UNCHANGED matched
        /\ ded[d].pc = "mark" /\ ded[d] # Idle
    BY NextTypeOK DEF Basic, TypeOK, DedMark, Idle
  <1>1. CASE UNCHANGED logs
    BY <1>0, <1>1, NoRowWritten
  <1>2. ASSUME logs' = UpdateStatus(ded[d].task.id, "dead"), UNCHANGED faults
        PROVE  [Promise!Next]_Promise!notificationVars
    <2>1. /\ DOMAIN logs' = DOMAIN logs
          /\ \A i \in DOMAIN logs :
                /\ logs'[i].retry = logs[i].retry
                /\ logs'[i].status = IF i = ded[d].task.id THEN "dead" ELSE logs[i].status
      BY <1>0, <1>2, UpdateStatusFacts
    <2>2. SameRows
      BY <1>0, WriteRows DEF DedMark
    <2>3. \A i \in DOMAIN logs : i # ded[d].task.id => logs'[i] = logs[i]
      BY <1>2 DEF UpdateStatus
    <2>4. CASE ded[d].task.id \notin DOMAIN logs
      <3>1. logs' = logs
        BY <1>0, <1>2, <2>4 DEF UpdateStatus
      <3> QED  BY <1>1, <3>1
    <2>5. ASSUME NEW i \in DOMAIN logs, i = ded[d].task.id
          PROVE  [Promise!Next]_Promise!notificationVars
      <3>1. logs'[i].retry = logs[i].retry /\ logs'[i].status = "dead"
        BY <2>1, <2>5
      <3>2. Calm => logs[i].status \in {"pending", "failed"} /\ logs[i].retry = 5
        <4>1. SUFFICES ASSUME TokenInv
                       PROVE  logs[i].status \in {"pending", "failed"} /\ logs[i].retry = 5
          BY DEF CalmInv, Calm
        <4>2. Holds("ded", d, i) /\ i \in Nat \ {0}
          BY <1>0, <2>5 DEF Holds, Burying
        <4>3. Faithful("ded", d, i)
          BY <4>1, <4>2 DEF TokenInv
        <4> QED  BY <1>0, <4>3 DEF Faithful, Failures, Basic, RetryDiscipline
      <3> QED  BY <1>0, <1>2, <2>2, <2>3, <2>5, <3>1, <3>2, RowWritten
    <2> QED  BY <2>4, <2>5
  <1> QED  BY <1>1, <1>2 DEF DedMark, Write

LEMMA MatchedKeepsPromise ==
    ASSUME TypeOK, NEW e \in Events, Matched(e)
    PROVE  Promise!Next
  <1>1. Published' = Published \cup {e}
    BY BoundAssumption DEF TypeOK, Matched, Published
  <1>2. UNCHANGED << States, Attempts, Calm >>
    BY SameRowsSeen DEF Matched, Calm
  <1>3. Promise!Happen(e)
    BY <1>1, <1>2 DEF Promise!Happen, Published, States, Attempts, Calm
  <1> QED  BY <1>3 DEF Promise!Next

LEMMA PromiseStep ==
    ASSUME Basic, Happened, CalmInv, [Next]_vars
    PROVE  [Promise!Next]_Promise!notificationVars
  <1>1. CASE UNCHANGED << logs, matched >>
    BY <1>1, NoRowWritten
  <1>2. CASE \E e \in Events : Matched(e)
    BY <1>2, MatchedKeepsPromise DEF Basic
  <1>3. CASE \E d \in Instances : ExpCreate(d)
    BY <1>3, CreateKeepsPromise
  <1>4. CASE \E d \in Instances : SndUpdate(d)
    BY <1>4, UpdateKeepsPromise
  <1>5. CASE \E d \in Instances : SndIncr(d)
    BY <1>5, IncrKeepsPromise
  <1>6. CASE \E d \in Instances : DedMark(d)
    BY <1>6, MarkKeepsPromise
  <1> QED  BY <1>1, <1>2, <1>3, <1>4, <1>5, <1>6
           DEF Next, ExpStep, ExpReceive, ExpLookup, ExpPublish, ExpAck, SndStep,
               SndReceive, SndPost, SndPublish, SndAck, DedStep, DedReceive, DedAck,
               Crash, ConnLost, Expire, RetryExpire, Resend, vars

(***************************************************************************)
(* The dispatchers implement Notification.  Seen through its first row, a  *)
(* notification becomes owed after its event was published, fails at most  *)
(* five times, counted one by one, succeeds only before the fifth failure  *)
(* and dies only after it - as long as nothing fails; after a fault it may *)
(* be settled again, but is neither forgotten nor loses a failure.  With   *)
(* any number of dispatchers, events, faults and resends.                  *)
(***************************************************************************)
THEOREM KeepsPromiseHolds == Spec => KeepsPromise
  <1>1. Init => Promise!Init
    BY DEF Init, Promise!Init, StateOf, AttemptsOf, RowsOf
  <1>2. Basic /\ Happened /\ CalmInv /\ [Next]_vars
            => [Promise!Next]_Promise!notificationVars
    BY PromiseStep
  <1> QED  BY <1>1, <1>2, BasicHolds, HappenedHolds, CalmInvHolds, PTL
           DEF Spec, KeepsPromise, Promise!Spec
=============================================================================
