---------------------------- MODULE EvmTxPayment ----------------------------
(***************************************************************************)
(* pallet-bifrost-evm-tx-payment: gas fees of Ethereum transactions paid   *)
(* in the native currency or in an ERC20 token.  The module follows a      *)
(* transaction from the pool (the feeless filter of runtime/common) through*)
(* the fee adapter: withdraw_fee before execution, then the call, then     *)
(* correct_and_deposit_fee and pay_priority_fee.  The calls of the pallet, *)
(* the two calls of its precompile, the registry of the oracles and the    *)
(* blocked accounts are actions around it.                                 *)
(*                                                                         *)
(* External and modelled from their use: pallet-evm and pallet-ethereum    *)
(* (order of the adapter's callbacks, amounts they are given, rollback of  *)
(* a transaction that cannot pay), the balances, the token contracts (a    *)
(* transfer moves the whole amount or fails; a token may be paused).       *)
(***************************************************************************)
EXTENDS OracleRegistry, BfcUtility

CONSTANTS Users, Author, Treasury, Collector,
          NativeChainId,
          FeeTokenUpdateCooldown,
          QuietTokens,        \* tokens that return false instead of reverting
          SilentTokens,       \* tokens that return no data on success
          BaseFee,            \* base fee per gas
          Tips,               \* priority fees per gas
          GasLimits,
          Configs,            \* configurations governance chooses from
          Amounts,            \* amounts minted and withdrawn
          Prices,             \* words published by the price contracts
          Decimals,           \* of the aggregators
          Stops,              \* sets of tokens that may be paused together
          GenesisBlocked,
          GenesisNative, GenesisTokens, GenesisConfigs,
          GenesisOracles, GenesisAggregators, GenesisManager, GenesisFeed,
          Calls,              \* the operations that take part
          MaxBlocks, MaxTxs, MaxCalls

ASSUME PaymentAssumption ==
  /\ NativeChainId \in Chains
  /\ Users \cup {Author, Treasury} \subseteq Accounts
  /\ FeeTokenUpdateCooldown \in Nat /\ BaseFee \in Nat \ {0}
  /\ Tips \cup GasLimits \cup Amounts \cup Prices \cup Decimals \subseteq Nat
  /\ None \notin [token : Assets \cup {None}]
  \* The treasury and the collector are accounts without a key: a pallet and a precompile.
  /\ Treasury \notin Users /\ Collector \notin Users \cup {Author}

Holders == Users \cup {Author, Collector}

\* The books of the token contracts.
Balances == [Assets -> [Holders -> Nat]]

WellTyped(config) == config.decimals \in Nat /\ config.max_staleness_seconds \in Nat

ASSUME GenesisAssumption ==
  /\ GenesisNative \in [Accounts -> Nat]
  /\ GenesisTokens \in Balances /\ None \notin Balances
  /\ DOMAIN GenesisConfigs = Assets
  /\ \A t \in Assets : GenesisConfigs[t] # None => WellTyped(GenesisConfigs[t])
  /\ \A config \in Configs : WellTyped(config)
  /\ GenesisOracles \in [Assets \cup Chains -> OracleIds \cup {ZeroId, None}]
  /\ GenesisAggregators \in [Assets -> [address : Contracts, decimal : Nat] \cup {None}]
  /\ GenesisManager \in Contracts \cup {None}
  /\ GenesisFeed \in [Contracts -> [Queries -> [value : Nat, time : Nat] \cup {None}]]

VARIABLES version,             \* on-chain storage version
          AcceptedFeeTokens, UserFeeToken, LastFeeTokenUpdate,
          CurrentTxIndex, PendingFeePayments,
          tokens,              \* balances of the token contracts
          paused,              \* token contracts that refuse transfers
          pool,                \* validated transactions waiting for a block
          receipt,             \* of the last transaction: who paid which fee
          txs, calls           \* bounds

paymentVars == <<version, AcceptedFeeTokens, UserFeeToken, LastFeeTokenUpdate,
                 CurrentTxIndex, PendingFeePayments>>
ledgerVars == <<native, issuance, tokens>>
vars == <<registryVars, feed, block, utilityVars, paymentVars, ledgerVars, paused, pool,
          receipt, txs, calls>>

Init ==
  /\ block = 1
  /\ Oracles = GenesisOracles /\ Aggregators = GenesisAggregators
  /\ OracleManagerContract = GenesisManager /\ feed = GenesisFeed
  /\ UtilityInit(0, GenesisBlocked)
  /\ native = GenesisNative
  /\ issuance = LET Total[S \in SUBSET Accounts] ==
                      IF S = {} THEN 0
                      ELSE LET a == CHOOSE a \in S : TRUE IN GenesisNative[a] + Total[S \ {a}]
                IN  Total[Accounts]
  /\ tokens = GenesisTokens /\ paused = {}
  /\ version = 1 /\ AcceptedFeeTokens = GenesisConfigs
  /\ UserFeeToken = [u \in Users |-> None]
  /\ LastFeeTokenUpdate = [u \in Users |-> None]
  /\ CurrentTxIndex = 0 /\ PendingFeePayments = [k \in {} |-> None]
  /\ pool = {} /\ receipt = None /\ txs = 0 /\ calls = 0
-----------------------------------------------------------------------------
(* ERC20 transfers through the EVM (erc20.rs). *)

\* The token contract: what it returns and the balances it leaves.
CallTransfer(bal, stopped, token, from, to, amount) ==
  IF token \in stopped \/ bal[token][from] < amount
  THEN [value |-> IF token \in QuietTokens THEN "false" ELSE "reverted", bal |-> bal]
  ELSE [value |-> IF token \in SilentTokens THEN "empty" ELSE "true",
        bal   |-> [bal EXCEPT ![token][from] = @ - amount, ![token][to] = @ + amount]]

\* Mutant: any returned word counts as success.
CheckAnyReturn(value) == value # "reverted"

\* No data is a success; otherwise the word must be exactly 1.
check_bool_return(value) == value \in {"empty", "true"}

\* transfer_from_user and transfer_to_user: the balances, or None on failure.
transfer(bal, stopped, token, from, to, amount) ==
  IF amount = 0 THEN bal
  ELSE LET result == CallTransfer(bal, stopped, token, from, to, amount)
       IN  IF check_bool_return(result.value) THEN result.bal ELSE None

\* A paused token that reverts does not answer balanceOf either.
get_token_balance(user, token) ==
  IF token \in paused \ QuietTokens THEN None ELSE tokens[token][user]
-----------------------------------------------------------------------------
(* Conversion of a native fee. *)

checked_mul(a, b) ==
  IF a = None THEN None ELSE IF a * b >= U256SIZE THEN None ELSE a * b

checked_div(a, b) ==
  IF a = None THEN None ELSE IF b = 0 THEN None ELSE a \div b

is_erc20_fee_enabled == get_native_currency_oracle(NativeChainId) # None

is_token_accepted(token) ==
  AcceptedFeeTokens[token] # None /\ AcceptedFeeTokens[token].enabled

\* No staleness limit on the native price.
get_bfc_usd_price ==
  IF ~is_erc20_fee_enabled THEN None
  ELSE get_oracle_price_from_registry(get_native_currency_oracle(NativeChainId), 0)

\* None on any error; otherwise the amount and the two prices.
convert_native_to_token_with_prices(fee, token) ==
  IF ~is_token_accepted(token) THEN None
  ELSE LET config == AcceptedFeeTokens[token]
           native_price == get_bfc_usd_price
           token_price == get_token_price_via_registry(token, config.max_staleness_seconds)
       IN  IF native_price = None \/ token_price = None THEN None
           ELSE LET amount == checked_div(
                                checked_div(
                                  checked_mul(checked_mul(fee, native_price), pow10[config.decimals]),
                                  token_price),
                                pow10[ORACLE_DECIMALS])
                IN  IF amount = None THEN None
                    ELSE [amount |-> amount, token_price |-> token_price,
                          native_price |-> native_price]
-----------------------------------------------------------------------------
(* BifrostFeeAdapter.  A ledger L holds what the callbacks of one           *)
(* transaction change: native, issuance, tokens and the payments on record. *)

Insert(f, k, v) == [x \in DOMAIN f \cup {k} |-> IF x = k THEN v ELSE f[x]]

\* None is BalanceLow.
withdraw_native_fee(L, who, fee) ==
  IF L.native[who] < fee THEN None
  ELSE [L EXCEPT !.native[who] = @ - fee, !.info = [kind |-> "Native", paid |-> fee]]

fallback_to_native(L, who, fee) == withdraw_native_fee(L, who, fee)

execute_fee_transfer(bal, from, token, amount) ==
  transfer(bal, paused, token, from, Collector, amount)

withdraw_erc20_fee(L, who, fee, token, index) ==
  IF ~is_token_accepted(token) THEN fallback_to_native(L, who, fee)
  ELSE LET c == convert_native_to_token_with_prices(fee, token)
       IN  IF c = None THEN fallback_to_native(L, who, fee)
           ELSE LET bal == execute_fee_transfer(L.tokens, who, token, c.amount)
                    paid == [token |-> token, amount |-> c.amount, native_equivalent |-> fee,
                             token_price |-> c.token_price, native_price |-> c.native_price]
                IN  IF bal = None THEN fallback_to_native(L, who, fee)
                    ELSE [L EXCEPT !.tokens = bal,
                                   !.pending = Insert(@, <<who, index>>, paid),
                                   !.info = [kind |-> "ERC20Withdrawn", token |-> token,
                                              amount |-> c.amount, native_equivalent |-> fee,
                                              token_price |-> c.token_price,
                                              native_price |-> c.native_price]]

withdraw_fee(L, who, fee, index) ==
  IF fee = 0 THEN L
  ELSE IF ~is_erc20_fee_enabled THEN withdraw_native_fee(L, who, fee)
  ELSE IF UserFeeToken[who] = None THEN withdraw_native_fee(L, who, fee)
  ELSE withdraw_erc20_fee(L, who, fee, UserFeeToken[who], index)

\* DealWithFees: one fifth of the base fee is burned, the rest goes to the treasury.
on_unbalanced(L, amount) ==
  LET burned == (amount * 20) \div 100
  IN  [L EXCEPT !.native[Treasury] = @ + (amount - burned), !.issuance = @ - burned]

Least(a, b) == IF a < b THEN a ELSE b

SaturatingSub(a, b) == IF a < b THEN 0 ELSE a - b

\* The refund always finds the account: it has just paid.
correct_native_fee(L, who, corrected, base) ==
  LET refund        == SaturatingSub(L.info.paid, corrected)
      adjusted      == L.info.paid - refund
      baseImbalance == Least(adjusted, base)
  IN  [on_unbalanced([L EXCEPT !.native[who] = @ + refund], baseImbalance) EXCEPT
         !.info = [kind |-> "Native", paid |-> adjusted - baseImbalance]]

refund_token(bal, stopped, to, token, amount) ==
  transfer(bal, stopped, token, Collector, to, amount)

\* Mutant: the share of the base fee is computed from what was withdrawn.
TipOfWithdrawn(withdrawn, actual, corrected, base) ==
  IF corrected > base /\ corrected # 0 THEN withdrawn - ((actual * base) \div corrected) ELSE 0

TipOf(withdrawn, actual, corrected, base) ==
  IF corrected > base /\ corrected # 0
  THEN LET portion == checked_div(checked_mul(actual, base), corrected)
       IN  SaturatingSub(actual, IF portion = None THEN actual ELSE portion)
  ELSE 0

\* A refund the token contract refuses is logged and forgotten.
correct_erc20_fee(L, stopped, who, index, corrected, base) ==
  LET t        == L.info
      scaled   == checked_div(checked_mul(t.amount, corrected), t.native_equivalent)
      actual   == IF scaled = None THEN t.amount ELSE scaled
      refunded == refund_token(L.tokens, stopped, who, t.token, SaturatingSub(t.amount, actual))
  IN  IF t.native_equivalent = 0 THEN [L EXCEPT !.info = [kind |-> "None"]]
      ELSE [L EXCEPT
              !.tokens = IF refunded = None THEN L.tokens ELSE refunded,
              !.pending = Insert(@, <<who, index>>,
                                 [token |-> t.token, amount |-> actual,
                                  native_equivalent |-> corrected,
                                  token_price |-> t.token_price, native_price |-> t.native_price]),
              !.info = [kind |-> "ERC20Tip", token |-> t.token,
                        tip |-> TipOf(t.amount, actual, corrected, base)]]

correct_and_deposit_fee(L, stopped, who, index, corrected, base) ==
  IF L.info.kind = "Native" THEN correct_native_fee(L, who, corrected, base)
  ELSE IF L.info.kind = "ERC20Withdrawn" THEN correct_erc20_fee(L, stopped, who, index, corrected, base)
  ELSE L

pay_priority_fee(L, stopped) ==
  IF L.info.kind = "Native" THEN [L EXCEPT !.native[Author] = @ + L.info.paid]
  ELSE IF L.info.kind # "ERC20Tip" THEN L
  ELSE LET bal == transfer(L.tokens, stopped, L.info.token, Collector, Author, L.info.tip)
       IN  IF bal = None THEN L ELSE [L EXCEPT !.tokens = bal]
-----------------------------------------------------------------------------
(* The precompile and the feeless filter. *)

\* check_rate_limit of the precompile.
check_rate_limit(u) ==
  \/ FeeTokenUpdateCooldown = 0
  \/ LastFeeTokenUpdate[u] = None
  \/ block >= LastFeeTokenUpdate[u] + FeeTokenUpdateCooldown

\* What the calls of the precompile do to the caller's preference; None reverts.
Precompile(u, call) ==
  IF ~check_rate_limit(u) THEN None
  ELSE IF call.fn = "clearUserFeeToken" THEN [token |-> None]
  ELSE IF is_token_accepted(call.token) THEN [token |-> call.token] ELSE None

\* Mutant: off by one against the check of the precompile.
RateLimitedEarlier(u) ==
  FeeTokenUpdateCooldown # 0 /\ LastFeeTokenUpdate[u] # None
    /\ block < LastFeeTokenUpdate[u] + FeeTokenUpdateCooldown - 1

\* is_rate_limited of the filter.
is_rate_limited(u) ==
  /\ FeeTokenUpdateCooldown # 0
  /\ LastFeeTokenUpdate[u] # None
  /\ block < LastFeeTokenUpdate[u] + FeeTokenUpdateCooldown

validate_feeless_set_token(u, token) ==
  /\ is_token_accepted(token)
  /\ AcceptedFeeTokens[token].min_balance # 0 =>
       LET balance == get_token_balance(u, token)
       IN  IF balance = None THEN FALSE ELSE balance >= AcceptedFeeTokens[token].min_balance

is_feeless(u, call) ==
  \/ /\ call.fn = "setUserFeeToken"
     /\ ~is_rate_limited(u)
     /\ validate_feeless_set_token(u, call.token)
  \/ /\ call.fn = "clearUserFeeToken"
     /\ ~is_rate_limited(u)

validate_erc20_fee_user(u, token, limit, base) ==
  /\ is_erc20_fee_enabled
  /\ is_token_accepted(token)
  /\ limit * base < U256SIZE
  /\ LET c == convert_native_to_token_with_prices(limit * base, token)
         balance == get_token_balance(u, token)
     IN  IF c = None \/ balance = None THEN FALSE ELSE balance >= c.amount

is_zero_balance_callable(u, call, limit) ==
  IF UserFeeToken[u] # None THEN validate_erc20_fee_user(u, UserFeeToken[u], limit, BaseFee)
  ELSE is_feeless(u, call)
-----------------------------------------------------------------------------
(* Transactions. *)

CallKinds == {[fn |-> "setUserFeeToken", token |-> t] : t \in Assets}
               \cup {[fn |-> "clearUserFeeToken"], [fn |-> "other"]}

Transactions ==
  [who : Users, call : {c \in CallKinds : c.fn \in Calls}, limit : GasLimits, tip : Tips]

\* Validation of the pool: a signer that is not blocked, and enough native
\* balance for the whole gas limit unless the filter waives it.
submit(tx) ==
  /\ txs < MaxTxs
  /\ tx \notin pool
  /\ check_self_contained(tx.who)
  /\ \/ native[tx.who] >= tx.limit * (BaseFee + tx.tip)
     \/ is_zero_balance_callable(tx.who, tx.call, tx.limit)
  /\ pool' = pool \cup {tx} /\ txs' = txs + 1
  /\ UNCHANGED <<registryVars, feed, block, utilityVars, paymentVars, ledgerVars, paused,
                 receipt, calls>>

\* A transaction in a block.  ran: the call did not run out of gas; stopped: the
\* token contracts that are paused once it is over.  A transaction that cannot
\* pay is rolled back.
transact(tx, used, ran, stopped) ==
  LET price == IF is_feeless(tx.who, tx.call) THEN 0 ELSE BaseFee + tx.tip
      index == CurrentTxIndex
      start == [native |-> native, issuance |-> issuance, tokens |-> tokens,
                pending |-> PendingFeePayments, info |-> [kind |-> "None"]]
      taken == withdraw_fee(start, tx.who, tx.limit * price, index)
      base  == IF price = 0 THEN 0 ELSE used * BaseFee
      done  == pay_priority_fee(
                 correct_and_deposit_fee(taken, stopped, tx.who, index, used * price, base),
                 stopped)
      effect == IF tx.call.fn = "other" \/ ~ran THEN None ELSE Precompile(tx.who, tx.call)
  IN  /\ tx \in pool /\ check_self_contained(tx.who)
      /\ taken # None
      /\ pool' = pool \ {tx}
      /\ native' = done.native /\ issuance' = done.issuance /\ tokens' = done.tokens
      /\ PendingFeePayments' = done.pending
      /\ CurrentTxIndex' = index + 1
      /\ paused' = stopped
      /\ IF effect = None THEN UNCHANGED <<UserFeeToken, LastFeeTokenUpdate>>
         ELSE /\ UserFeeToken' = [UserFeeToken EXCEPT ![tx.who] = effect.token]
              /\ LastFeeTokenUpdate' = [LastFeeTokenUpdate EXCEPT ![tx.who] = block]
      /\ receipt' = [who |-> tx.who, fee |-> used * price, base_fee |-> base]
      /\ UNCHANGED <<registryVars, feed, block, utilityVars, version, AcceptedFeeTokens, txs, calls>>

\* The pool drops a transaction.
drop(tx) ==
  /\ tx \in pool
  /\ pool' = pool \ {tx}
  /\ UNCHANGED <<registryVars, feed, block, utilityVars, paymentVars, ledgerVars, paused,
                 receipt, txs, calls>>
-----------------------------------------------------------------------------
(* Calls of the pallet, and the block. *)

\* Configurations have at most 18 decimals.
ValidConfig(config) == config.decimals <= ORACLE_DECIMALS

add_fee_token(token, config) ==
  /\ AcceptedFeeTokens[token] = None
  /\ ValidConfig(config)
  /\ AcceptedFeeTokens' = [AcceptedFeeTokens EXCEPT ![token] = config]

\* Users keep the removed token as their preference.
remove_fee_token(token) ==
  /\ AcceptedFeeTokens[token] # None
  /\ AcceptedFeeTokens' = [AcceptedFeeTokens EXCEPT ![token] = None]

update_fee_token(token, config) ==
  /\ AcceptedFeeTokens[token] # None
  /\ ValidConfig(config)
  /\ AcceptedFeeTokens' = [AcceptedFeeTokens EXCEPT ![token] = config]

\* The extrinsic, as opposed to the call of the precompile.
set_user_fee_token(u, token) ==
  /\ CheckBlockedOrigin(u)
  /\ token # None => is_token_accepted(token)
  /\ UserFeeToken' = [UserFeeToken EXCEPT ![u] = token]

withdraw_collected_fees(token, to, amount) ==
  LET bal == transfer(tokens, paused, token, Collector, to, amount)
  IN  /\ amount # 0
      /\ bal # None
      /\ tokens' = bal

\* V1 to V2: the oracle of the token leaves its configuration.
FromV0(v0) == [enabled |-> v0.enabled, decimals |-> v0.decimals,
               max_staleness_seconds |-> v0.max_staleness_seconds,
               min_balance |-> v0.min_balance]

\* The upgrade to this code, before anything else of the new runtime runs.
on_runtime_upgrade ==
  /\ version = 1
  /\ AcceptedFeeTokens' = [t \in Assets |-> IF AcceptedFeeTokens[t] = None THEN None
                                            ELSE FromV0(AcceptedFeeTokens[t])]
  /\ version' = 2
  /\ UNCHANGED <<registryVars, feed, block, utilityVars, UserFeeToken, LastFeeTokenUpdate,
                 CurrentTxIndex, PendingFeePayments, ledgerVars, paused, pool, receipt, txs, calls>>

on_initialize ==
  /\ block < MaxBlocks
  /\ block' = block + 1
  /\ PendingFeePayments' = [k \in {} |-> None]
  /\ CurrentTxIndex' = 0
  /\ UNCHANGED <<registryVars, feed, utilityVars, version, AcceptedFeeTokens, UserFeeToken,
                 LastFeeTokenUpdate, ledgerVars, paused, pool, receipt, txs, calls>>
-----------------------------------------------------------------------------
Bounded(call) == call \in Calls /\ calls < MaxCalls /\ calls' = calls + 1

\* Root calls on the fee tokens, and the extrinsic of the users.
PalletCall ==
  /\ \/ /\ Bounded("fee_token")
        /\ \E t \in Assets : \/ \E c \in Configs : add_fee_token(t, c) \/ update_fee_token(t, c)
                             \/ remove_fee_token(t)
        /\ UNCHANGED <<UserFeeToken, tokens>>
     \/ /\ Bounded("set_user_fee_token")
        /\ \E u \in Users, t \in Assets \cup {None} : set_user_fee_token(u, t)
        /\ UNCHANGED <<AcceptedFeeTokens, tokens>>
     \/ /\ Bounded("withdraw_collected_fees")
        /\ \E t \in Assets, u \in Users, a \in Amounts : withdraw_collected_fees(t, u, a)
        /\ UNCHANGED <<AcceptedFeeTokens, UserFeeToken>>
  /\ UNCHANGED <<registryVars, feed, block, utilityVars, version, LastFeeTokenUpdate,
                 CurrentTxIndex, PendingFeePayments, native, issuance, paused, pool, receipt, txs>>

RegistryCall ==
  /\ Bounded("registry")
  /\ \/ \E a \in Assets :
          \/ \E id \in OracleIds \cup {ZeroId} : set_asset_oracle(a, id)
          \/ remove_asset_oracle(a)
          \/ \E c \in Contracts, d \in Decimals : set_asset_aggregator(a, c, d)
          \/ remove_asset_aggregator(a)
     \/ \E chain \in Chains :
          \/ \E id \in OracleIds : set_native_currency_oracle(chain, id)
          \/ remove_native_currency_oracle(chain)
     \/ \E c \in Contracts : set_oracle_manager_contract(c)
     \/ remove_oracle_manager_contract
  /\ UNCHANGED <<feed, block, utilityVars, paymentVars, ledgerVars, paused, pool, receipt, txs>>

UtilityCall ==
  /\ Bounded("utility")
  /\ \/ \E a \in Accounts : add_blocked_account(a) \/ remove_blocked_account(a)
     \/ \E a \in Users, m \in Amounts : mint_native(a, m)
     \/ community_proposal("proposal")
  /\ UNCHANGED <<registryVars, feed, block, paymentVars, tokens, paused, pool, receipt, txs>>

\* The price contracts: an answer of now, or one without a time.
publish(c, q, value, time) ==
  /\ Bounded("publish")
  /\ feed[c][q] # None
  /\ feed' = [feed EXCEPT ![c][q] = [value |-> value, time |-> time]]
  /\ UNCHANGED <<registryVars, block, utilityVars, paymentVars, ledgerVars, paused, pool, receipt, txs>>

\* A holder spends tokens elsewhere.
spend(t, from, to) ==
  /\ Bounded("spend")
  /\ t \notin paused /\ from # to /\ tokens[t][from] > 0
  /\ tokens' = [tokens EXCEPT ![t][to] = @ + tokens[t][from], ![t][from] = 0]
  /\ UNCHANGED <<registryVars, feed, block, utilityVars, paymentVars, native, issuance, paused,
                 pool, receipt, txs>>

Transact ==
  \E tx \in pool : \E used \in 1 .. tx.limit, stopped \in Stops :
    \E ran \in IF tx.call.fn = "other" THEN {TRUE} ELSE BOOLEAN :
      transact(tx, used, ran, stopped)

Next ==
  \/ on_runtime_upgrade
  \/ /\ version = 2
     /\ \/ on_initialize
        \/ PalletCall
        \/ RegistryCall
        \/ UtilityCall
        \/ \E c \in Contracts, q \in Queries, value \in Prices, time \in {0, now} :
             publish(c, q, value, time)
        \/ \E t \in Assets, from, to \in Users : spend(t, from, to)
        \/ \E tx \in Transactions : submit(tx)
        \/ \E tx \in pool : drop(tx)
        \/ Transact

Spec == Init /\ [][Next]_vars
-----------------------------------------------------------------------------
TxStep == CurrentTxIndex' = CurrentTxIndex + 1

\* The payment on record of the transaction of this step, if it paid in a token.
Record == <<receipt'.who, CurrentTxIndex>>
InToken == Record \in DOMAIN PendingFeePayments'
Payment == PendingFeePayments'[Record]

TokenLoss(t, u) == tokens[t][u] - tokens'[t][u]

\* Whatever falls back in between, a transaction is charged in one currency
\* only: its exact fee in native currency, or the tokens on record (more only
\* if the token contract refused the refund); nobody else is charged.
ChargedOnce ==
  [][TxStep =>
       /\ \A u \in Users :
            /\ native[u] - native'[u] =
                 IF u = receipt'.who /\ ~InToken THEN receipt'.fee ELSE 0
            /\ \A t \in Assets :
                 IF u = receipt'.who /\ InToken /\ t = Payment.token
                 THEN \/ TokenLoss(t, u) = Payment.amount
                      \/ t \in paused' /\ TokenLoss(t, u) > Payment.amount
                 ELSE TokenLoss(t, u) = 0]_vars

\* A fee in tokens is worth the fee of the receipt at the recorded prices, short
\* of less than two units of the token and never above; and the token price is
\* that of its contract in the decimals of the prices, no older than the
\* configuration allows (convert_native_to_token_with_prices,
\* correct_erc20_fee, get_token_price_via_registry).
PricedFairly ==
  [][TxStep /\ InToken =>
       LET t      == Payment.token
           config == AcceptedFeeTokens[t]
           worth  == receipt'.fee * Payment.native_price * pow10[config.decimals]
           unit   == Payment.token_price * pow10[ORACLE_DECIMALS]
           source == IF Oracles[t] = ZeroId THEN feed[Aggregators[t].address][latestRoundData]
                     ELSE feed[OracleManagerContract][Oracles[t]]
           scale  == pow10[IF Oracles[t] = ZeroId THEN Aggregators[t].decimal ELSE ORACLE_DECIMALS]
           quoted == source.value * pow10[ORACLE_DECIMALS]
       IN  /\ Payment.amount * unit <= worth
           /\ worth < (Payment.amount + 2) * unit
           /\ Payment.token_price * scale <= quoted
           /\ quoted < (Payment.token_price + 1) * scale
           /\ config.max_staleness_seconds # 0 =>
                now <= source.time + config.max_staleness_seconds]_vars

\* The collector of the fees never pays for a transaction: refund and tip leave
\* it at least the share of the base fee in the tokens on record.
CollectorKeepsBase ==
  [][TxStep =>
       \A t \in Assets :
         LET gain == -TokenLoss(t, Collector)
         IN  IF InToken /\ t = Payment.token
             THEN (gain + 1) * receipt'.fee > Payment.amount * receipt'.base_fee
             ELSE gain = 0]_vars

\* A call the filter of the runtime lets through for free is one the precompile
\* accepts: the two copies of the rate limit and of the token checks agree.
FeelessAccepted ==
  \A u \in Users, call \in CallKinds :
    call.fn # "other" /\ is_feeless(u, call) => Precompile(u, call) # None

\* The receipt shows what was paid (correct_erc20_fee: "the correct final amount").
ReceiptExact ==
  [][TxStep /\ InToken => TokenLoss(Payment.token, receipt'.who) = Payment.amount]_vars

\* Only the set-up calls are free (BifrostFeelessCalls::is_feeless).
NeverFree ==
  [][TxStep /\ receipt'.fee > 0 =>
       \/ native'[receipt'.who] < native[receipt'.who]
       \/ \E t \in Assets : TokenLoss(t, receipt'.who) > 0]_vars

\* Users wait for the cooldown before they change their fee token again.
CooldownRespected ==
  [][\A u \in Users : UserFeeToken'[u] # UserFeeToken[u] => check_rate_limit(u)]_vars

\* The set-up calls can be submitted with zero native balance.
SetupCallable ==
  \A u \in Users, call \in CallKinds, limit \in GasLimits :
    is_feeless(u, call) => is_zero_balance_callable(u, call, limit)

\* An aggregator can be set to any value other than the one it has.
AggregatorUpdatable ==
  \A a \in Assets, c \in Contracts, d \in Decimals :
    Aggregators[a] # [address |-> c, decimal |-> d] => Replaceable(Aggregators[a], c, d)
=============================================================================
