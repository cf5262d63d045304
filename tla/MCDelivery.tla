----------------------------- MODULE MCDelivery -----------------------------
(* Delivery for TLC: small sets of events, addresses and dispatchers. *)
EXTENDS DeliveryRefinement, TLC

CONSTANTS e1, a1, a2, d1, d2

\* Every address watches every event; a2's app has no callback URL.
MCWatchers == [e \in Events |-> Addrs]
MCRoutable == Events \X (Addrs \ {a2})

\* Dispatchers are interchangeable.
Symmetry == Permutations(Instances)
=============================================================================
