---------------------------- MODULE MCChainSync ----------------------------
(* ChainSync for TLC: the blocks up to Head0 have no events, the next has two and
   the later ones have one each. *)
EXTENDS ChainSync

MCContent == [b \in 1..MaxHead |-> IF b <= Head0 THEN {}
                                   ELSE IF b = Head0 + 1 THEN {"tx", "log"} ELSE {"tx"}]
=============================================================================
