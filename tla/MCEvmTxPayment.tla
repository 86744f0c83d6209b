--------------------------- MODULE MCEvmTxPayment ---------------------------
(* Instances of EvmTxPayment: prices have two decimals, a native fee of one  *)
(* gas is at least 7, and the tokens are priced by the manager contract and  *)
(* by an aggregator.                                                         *)
EXTENDS EvmTxPayment

CONSTANTS u0, u1, u2, usdc, wbtc, manager, aggregator, idBfc, idUsdc

Stored(v, t) == [value |-> v, time |-> t]

NativeStart == [a \in Accounts |-> IF a = u1 THEN 60 ELSE IF a = u2 THEN 5 ELSE 100]

TokensStart == [t \in Assets |-> [h \in Holders |-> IF h \in Users THEN 50 ELSE 0]]

\* Version 1 still has the oracle in the configuration.
V1(decimals, staleness) ==
  [enabled |-> TRUE, oracle_address |-> manager, decimals |-> decimals, oracle_decimals |-> 2,
   max_staleness_seconds |-> staleness, min_balance |-> 10]

ConfigsStart == [t \in Assets |-> IF t = usdc THEN V1(1, 2) ELSE None]

SomeConfigs ==
  {[enabled |-> e, decimals |-> 2, max_staleness_seconds |-> 0, min_balance |-> 0] : e \in BOOLEAN}

\* usdc has an oracle id, wbtc an aggregator with three decimals.
OraclesStart ==
  [k \in Assets \cup Chains |-> IF k = usdc THEN idUsdc ELSE IF k = wbtc THEN ZeroId ELSE idBfc]

AggregatorsStart == [a \in Assets |-> IF a = usdc THEN None ELSE [address |-> aggregator, decimal |-> 3]]

FeedStart ==
  [c \in Contracts |-> [q \in Queries |->
     IF c = manager /\ q = idBfc THEN Stored(300, 3)
     ELSE IF c = manager /\ q = idUsdc THEN Stored(100, 3)
     ELSE IF c = aggregator /\ q = latestRoundData THEN Stored(2500, 3)
     ELSE None]]
=============================================================================
