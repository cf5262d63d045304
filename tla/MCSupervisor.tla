---------------------------- MODULE MCSupervisor ----------------------------
(* LeaderLock and ContractFilter for TLC, the two tables a supervisor keeps  *)
(* of what its worker listens to and for which tokens.  They share no state: *)
(* a behaviour is one of the election or one of the lists.                   *)
EXTENDS LeaderLock, ContractFilter

CONSTANTS w1, w2, k1, k2, p1

VARIABLE part

Election == part = "election"
Filtering == part = "lists"

MCInit == Init /\ ContractInit /\ part \in {"election", "lists"} /\ (Election => present = {})

MCNext == \/ Election /\ Next /\ UNCHANGED << contractVars, part >>
          \/ Filtering /\ ContractNext /\ UNCHANGED << vars, part >>

MCSpec ==
    /\ MCInit /\ [][MCNext]_<< vars, contractVars, part >>
    /\ WF_vars(Election /\ Tick)
    /\ \A i \in Instances : WF_vars(Election /\ RenewLoop(i))
    /\ WF_contractVars(Filtering /\ Load) /\ WF_contractVars(Filtering /\ Refresh)
    /\ WF_contractVars(Filtering /\ Reload)
=============================================================================
