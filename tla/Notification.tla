---------------------------- MODULE Notification ----------------------------
(***************************************************************************)
(* What the dispatcher service promises the applications, without queues,  *)
(* handlers and retry headers: the notification of an event to an address  *)
(* that watches it becomes owed, is tried up to MaxAttempts times and ends *)
(* as a success, or dead after the last failure.  While nothing fails      *)
(* ("calm") it gets there and stays there.  After a crash, a lost          *)
(* connection or a failing call it may be tried and settled again; it is   *)
(* still never forgotten, and no attempt is uncounted by a later one.      *)
(***************************************************************************)
EXTENDS Naturals

CONSTANTS
    Happenings,     \* the events
    Notifications,  \* << event, address >> that the service has to deliver
    MaxAttempts

VARIABLES
    happened,  \* events the worker has published
    state,     \* state[n]: "none", "owed", "success" or "dead"
    attempts,  \* attempts[n]: failures recorded
    calm       \* nothing has failed yet

notificationVars == << happened, state, attempts, calm >>

Init ==
    /\ happened = {}
    /\ state = [n \in Notifications |-> "none"]
    /\ attempts = [n \in Notifications |-> 0]
    /\ calm = TRUE

Happen(e) ==
    /\ happened' = happened \cup {e}
    /\ UNCHANGED << state, attempts, calm >>

Owe(n) ==
    /\ n[1] \in happened /\ state[n] = "none"
    /\ state' = [state EXCEPT ![n] = "owed"]
    /\ UNCHANGED << happened, attempts, calm >>

Succeed(n) ==
    /\ calm
    /\ state[n] = "owed" /\ attempts[n] < MaxAttempts
    /\ state' = [state EXCEPT ![n] = "success"]
    /\ UNCHANGED << happened, attempts, calm >>

Fail(n) ==
    /\ calm
    /\ state[n] = "owed" /\ attempts[n] < MaxAttempts
    /\ attempts' = [attempts EXCEPT ![n] = @ + 1]
    /\ UNCHANGED << happened, state, calm >>

Die(n) ==
    /\ calm
    /\ state[n] = "owed" /\ attempts[n] = MaxAttempts
    /\ state' = [state EXCEPT ![n] = "dead"]
    /\ UNCHANGED << happened, attempts, calm >>

Attempt(n) == Succeed(n) \/ Fail(n) \/ Die(n)

\* Something fails.
Disturb ==
    /\ calm' = FALSE
    /\ UNCHANGED << happened, state, attempts >>

\* From then on a notification may be tried and settled again.
Again(n) ==
    /\ ~ calm
    /\ state[n] # "none"
    /\ \/ /\ \E s \in {"owed", "success", "dead"} : state' = [state EXCEPT ![n] = s]
          /\ UNCHANGED attempts
       \/ attempts' = [attempts EXCEPT ![n] = @ + 1] /\ UNCHANGED state
    /\ UNCHANGED << happened, calm >>

Next == \/ \E e \in Happenings : Happen(e)
        \/ \E n \in Notifications : Owe(n) \/ Attempt(n) \/ Again(n)
        \/ Disturb

Spec == Init /\ [][Next]_notificationVars

\* What is owed is delivered or given up in the end.
FairSpec ==
    Spec /\ \A n \in Notifications :
                WF_notificationVars(calm /\ Owe(n)) /\ WF_notificationVars(Attempt(n))
=============================================================================
