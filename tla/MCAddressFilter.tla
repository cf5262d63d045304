-------------------------- MODULE MCAddressFilter --------------------------
(* AddressFilter for TLC: two addresses of one chain; other chains without. *)
EXTENDS AddressFilter

CONSTANTS s1, s2

MCChainOf == [s \in Subs |-> "ETH"]
MCAddrOf == [s \in Subs |-> s]
=============================================================================
