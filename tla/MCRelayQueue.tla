---------------------------- MODULE MCRelayQueue ----------------------------
(* Small instances of RelayQueue: two messages compete for one asset's cap. *)
EXTENDS RelayQueue

CONSTANTS r1, r2, r3, m1, m2, t1, t2, a1, i1, i2, s1

MCReqOf == [m \in Messages |-> m]
MCOneIndex == [m \in Messages |-> i1]
MCTwoIndexes == [m \in Messages |-> IF m = m1 THEN i1 ELSE i2]
MCAmount == [m \in Messages |-> IF m = m1 THEN 1 ELSE 2]

(* Bounds.  Only the first message is voted for with two source transactions. *)
SecondHasOneTx ==
    /\ PendingTransfers[m2][t2] = <<>>
    /\ OnFlightTransfers[m2] # None => OnFlightTransfers[m2].src_tx_id = t1
(* Only the second message may come before its asset is registered. *)
AssetBeforeFirst ==
    AssetIndexes[i1] = None =>
        /\ OnFlightTransfers[m1] = None /\ m1 \notin FinalizedTransfers
        /\ \A t \in TxIds : PendingTransfers[m1][t] = <<>>

MCSymmetry == Permutations(Accounts)
=============================================================================
