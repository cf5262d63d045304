------------------------- MODULE DeliveryRefinement -------------------------
(***************************************************************************)
(* Delivery implements Notification.  A notification is seen through the   *)
(* first row that webhook_logs has for its event and address: none before  *)
(* the row is written, owed while it is pending or failed.  That messages  *)
(* are copied, expire and are resent, and that a row is written by several *)
(* calls, does not show.                                                   *)
(***************************************************************************)
EXTENDS Delivery

Due == {n \in Routable : n[2] \in Watchers[n[1]]}

RowsOf(n) == {i \in DOMAIN logs : logs[i].ev = n[1] /\ logs[i].wa = n[2]}

FirstRow(n) == logs[CHOOSE i \in RowsOf(n) : \A j \in RowsOf(n) : i <= j]

StateOf(n) ==
    IF RowsOf(n) = {} THEN "none"
    ELSE IF FirstRow(n).status \in {"pending", "failed"} THEN "owed" ELSE FirstRow(n).status

AttemptsOf(n) == IF RowsOf(n) = {} THEN 0 ELSE FirstRow(n).retry

Promise == INSTANCE Notification WITH
    Happenings <- Events, Notifications <- Due, MaxAttempts <- 5,
    happened <- {e \in Events : matched[e] > 0},
    state <- [n \in Due |-> StateOf(n)],
    attempts <- [n \in Due |-> AttemptsOf(n)],
    calm <- (faults.kinds = {})

\* The dispatchers do to the rows what Notification allows, step by step: a row is
\* written once its event was published, five failures are counted one by one, only
\* then it dies, a success comes before the fifth failure and stays; after a fault the
\* row may change its status, but it neither disappears nor forgets a failure.
KeepsPromise == Promise!Spec

\* While nothing fails they also get there: what happened gets owed, and what is owed
\* is tried until it is settled.
FulfilsPromise == Promise!FairSpec
=============================================================================
