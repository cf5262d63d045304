------------------------------- MODULE Broker -------------------------------
(***************************************************************************)
(* The RabbitMQ topology that internal/mq/topology.go declares, and what   *)
(* the broker does with a message published to it.  RabbitMQ itself is not *)
(* part of the repository: it is modelled by what the code relies on, a    *)
(* durable queue that keeps every message it accepted until a consumer     *)
(* acknowledges it.  A queue is a bag: deliveries and redeliveries may     *)
(* overtake one another, and two equal messages are two messages.          *)
(***************************************************************************)
EXTENDS Naturals, BagsExt

NoMessages == [m \in {} |-> 0]

\* The delay queues, in the order Sender.Handle's "routes" reaches them:
\* retry.1 is the 1 minute queue, retry.4 the 2 hours one.
RetryQueue == << "dispatch.retry.1m", "dispatch.retry.5m",
                 "dispatch.retry.30m", "dispatch.retry.2h" >>

RetryKey == << "retry.1", "retry.2", "retry.3", "retry.4" >>

RetryQueues == {RetryQueue[k] : k \in 1..4}

Queues == {"matched.events", "dispatch.tasks", "dispatch.dead"}
              \cup RetryQueues

\* QueueBind: << exchange, routing key, queue >>; all exchanges are direct.
Bindings ==
    { << "matched.exchange",  "matched",  "matched.events" >>,
      << "dispatch.exchange", "dispatch", "dispatch.tasks" >>,
      << "dlx.exchange",      "dead",     "dispatch.dead"  >> }
    \cup { << "dlx.exchange", RetryKey[k], RetryQueue[k] >> : k \in 1..4 }

\* The default exchange "" routes by queue name; a message no binding matches
\* is dropped (publishOnce publishes with mandatory = false).
Routed(exchange, key) ==
    IF exchange = "" THEN {key} \cap Queues
    ELSE {q \in Queues : << exchange, key, q >> \in Bindings}

Enqueue(queue, exchange, key, m) ==
    [q \in Queues |-> IF q \in Routed(exchange, key)
                      THEN BagAdd(queue[q], m) ELSE queue[q]]

\* Delivery of one message to a consumer (unacknowledged from then on).
Dequeue(queue, q, m) == [queue EXCEPT ![q] = BagRemove(@, m)]

DeadLetterRouteUnbound == << "dispatch.exchange", "retry" >>   \* mutant

\* x-dead-letter-exchange and x-dead-letter-routing-key of the retry queues:
\* where a message goes when its TTL expires.
DeadLetterRoute == << "dispatch.exchange", "dispatch" >>
=============================================================================
