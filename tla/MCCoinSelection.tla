-------------------------- MODULE MCCoinSelection --------------------------
(* Small pools of coins and small queues of messages. *)
EXTENDS CoinSelection

CONSTANTS Amounts, Sizes, MaxCoins, MessageAmounts, MaxRequests

Coin == [amount : Amounts, input_vbytes : Sizes]
MCCoins == UNION {[1..n -> Coin] : n \in 0..MaxCoins}
Outbound == [amount : MessageAmounts, script : {"s1", "s2"}]
MCOutbounds == UNION {[1..n -> Outbound] : n \in 1..MaxRequests}
MCFeeRates == {[long_term |-> 1, current |-> 1], [long_term |-> 1, current |-> 2]}
MCOutputSize == [s1 |-> 1, s2 |-> 2]
=============================================================================
