----------------------------- MODULE MCExpander -----------------------------
(* The two caches of the expander for TLC, AppInfoCache and SubCache.  They  *)
(* share no state: a behaviour is one of the settings of an app or one of    *)
(* the list of apps.                                                         *)
EXTENDS AppInfoCache, SubCache

CONSTANTS d1, d2, u1, t1, t2, a1, a2

VARIABLE part

Settings == part = "settings"
Watchers == part = "watchers"

MCInit ==
    /\ Init /\ SubInit /\ part \in {"settings", "watchers"}
    /\ (Settings => lowerCase)

MCNext == \/ Settings /\ Next /\ UNCHANGED << subVars, part >>
          \/ Watchers /\ SubNext /\ UNCHANGED << vars, part >>

MCSpec ==
    /\ MCInit /\ [][MCNext]_<< vars, subVars, part >>
    /\ \A d \in Dispatchers : /\ WF_vars(Settings /\ GetByID(d))
                              /\ WF_vars(Settings /\ HSet(d))
                              /\ WF_vars(Settings /\ Expire(d))
    /\ WF_vars(Settings /\ TimeOut) /\ WF_vars(Settings /\ Del)
=============================================================================
