--------------------------- MODULE OracleRegistry ---------------------------
(***************************************************************************)
(* pallet-oracle-registry and the price lookups of the fee payment pallet  *)
(* (bifrost-evm-tx-payment/src/oracle.rs) that go through it.              *)
(*                                                                         *)
(* An asset is priced by the oracle manager contract under its oracle id,  *)
(* or, when the id is zero, by an aggregator contract of its own.  Both    *)
(* contracts are external: feed[c][q] is what contract c returns to a view *)
(* call q, None standing for a call that fails, reverts or returns fewer   *)
(* words than the decoder expects, none of which the callers tell apart.   *)
(***************************************************************************)
EXTENDS Integers, Sequences, FiniteSets

CONSTANTS Assets,           \* token contracts
          Chains,           \* chain ids of native currencies
          OracleIds,        \* the oracle ids other than zero
          ZeroId,
          Contracts,        \* contracts that may answer price queries
          ORACLE_DECIMALS,  \* the fixed point of every price (18)
          U256SIZE,         \* 2^256
          U64SIZE,          \* 2^64
          BlockSeconds,
          None

ASSUME OracleAssumption ==
  /\ ZeroId \notin OracleIds
  /\ None \notin Assets \cup Chains \cup OracleIds \cup Contracts
  /\ ORACLE_DECIMALS \in Nat /\ U64SIZE \in Nat \ {0}
  /\ U256SIZE \in Nat /\ U256SIZE >= 2 * U64SIZE
  /\ BlockSeconds \in Nat /\ None \notin Nat

VARIABLES Oracles, Aggregators, OracleManagerContract,  \* the storage of the pallet
          feed,                                         \* external contracts
          block

registryVars == <<Oracles, Aggregators, OracleManagerContract>>

latestRoundData == "latestRoundData"

\* The queries a price contract answers.
Queries == OracleIds \cup {ZeroId, latestRoundData}
-----------------------------------------------------------------------------
(* Calls of the pallet, all of them by root. *)

set_asset_oracle(asset, id) ==
  /\ Oracles[asset] # id
  /\ Oracles' = [Oracles EXCEPT ![asset] = id]
  /\ UNCHANGED <<Aggregators, OracleManagerContract>>

remove_asset_oracle(asset) ==
  /\ Oracles[asset] # None
  /\ Oracles' = [Oracles EXCEPT ![asset] = None]
  /\ UNCHANGED <<Aggregators, OracleManagerContract>>

set_native_currency_oracle(chain, id) ==
  /\ Oracles[chain] # id
  /\ Oracles' = [Oracles EXCEPT ![chain] = id]
  /\ UNCHANGED <<Aggregators, OracleManagerContract>>

remove_native_currency_oracle(chain) ==
  /\ Oracles[chain] # None
  /\ Oracles' = [Oracles EXCEPT ![chain] = None]
  /\ UNCHANGED <<Aggregators, OracleManagerContract>>

set_oracle_manager_contract(contract) ==
  /\ OracleManagerContract # contract
  /\ OracleManagerContract' = contract
  /\ UNCHANGED <<Oracles, Aggregators>>

remove_oracle_manager_contract ==
  /\ OracleManagerContract # None
  /\ OracleManagerContract' = None
  /\ UNCHANGED <<Oracles, Aggregators>>

\* A registered aggregator is replaced only at another address and with the
\* decimals it already has.
Replaceable(current, contract, decimal) ==
  current # None => current.address # contract /\ current.decimal = decimal

set_asset_aggregator(asset, contract, decimal) ==
  /\ Replaceable(Aggregators[asset], contract, decimal)
  /\ Aggregators' = [Aggregators EXCEPT ![asset] = [address |-> contract, decimal |-> decimal]]
  /\ UNCHANGED <<Oracles, OracleManagerContract>>

remove_asset_aggregator(asset) ==
  /\ Aggregators[asset] # None
  /\ Aggregators' = [Aggregators EXCEPT ![asset] = None]
  /\ UNCHANGED <<Oracles, OracleManagerContract>>
-----------------------------------------------------------------------------
(* The read-only interface of the pallet. *)

low_u64(word) == word % U64SIZE

get_oracle(key) == Oracles[key]

get_native_currency_oracle(chain) == get_oracle(chain)

get_asset_oracle(asset) == get_oracle(asset)

\* Of last_oracle_info(bytes32): the price is a word, its time the low 64 bits of one.
decode_oracle_info(answer) ==
  IF answer = None THEN None
  ELSE [data |-> answer.value, time |-> low_u64(answer.time)]

\* Of latestRoundData(): both are whole words.
decode_round_data(answer) ==
  IF answer = None THEN None
  ELSE [answer |-> answer.value, updated_at |-> answer.time]

get_latest_oracle_info(id) ==
  IF OracleManagerContract = None THEN None
  ELSE decode_oracle_info(feed[OracleManagerContract][id])

get_aggregator_info(asset) == Aggregators[asset]

get_latest_round_data(asset) ==
  IF Aggregators[asset] = None THEN None
  ELSE decode_round_data(feed[Aggregators[asset].address][latestRoundData])
-----------------------------------------------------------------------------
(* oracle.rs: a price with ORACLE_DECIMALS decimals, or None on any error. *)

now == BlockSeconds * block

\* Mutant: the age of the price is not compared.
FreshAlways(time, maxStaleness) == maxStaleness = 0 \/ time # 0

\* A price from the future has age 0 (saturating_sub); 0 disables the check.
Fresh(time, maxStaleness) ==
  maxStaleness = 0 \/ (time # 0 /\ now - time <= maxStaleness)

get_oracle_price_from_registry(id, maxStaleness) ==
  LET info == get_latest_oracle_info(id)
  IN  IF info = None THEN None
      ELSE IF info.data = 0 \/ ~Fresh(info.time, maxStaleness) THEN None ELSE info.data

\* int256: the upper half of the words is negative.
Negative(word) == word >= U256SIZE \div 2

saturating_mul(a, b) == IF a * b >= U256SIZE THEN U256SIZE - 1 ELSE a * b

\* U256::from(10).pow(n)
pow10[n \in Nat] == IF n = 0 THEN 1 ELSE 10 * pow10[n - 1]

Normalise(answer, decimal) ==
  IF decimal <= ORACLE_DECIMALS THEN saturating_mul(answer, pow10[ORACLE_DECIMALS - decimal])
  ELSE answer \div pow10[decimal - ORACLE_DECIMALS]

get_aggregator_price_from_registry(token, maxStaleness) ==
  LET info == get_aggregator_info(token)
      data == get_latest_round_data(token)
  IN  IF info = None \/ data = None THEN None
      ELSE LET price == Normalise(data.answer, info.decimal)
           IN  IF \/ data.answer = 0
                  \/ Negative(data.answer)
                  \/ price = 0
                  \/ ~Fresh(low_u64(data.updated_at), maxStaleness)
               THEN None ELSE price

get_token_price_via_registry(token, maxStaleness) ==
  LET id == get_asset_oracle(token)
  IN  IF id = None THEN None
      ELSE IF id = ZeroId THEN get_aggregator_price_from_registry(token, maxStaleness)
           ELSE get_oracle_price_from_registry(id, maxStaleness)
=============================================================================
