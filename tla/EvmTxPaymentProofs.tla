------------------------- MODULE EvmTxPaymentProofs -------------------------
(***************************************************************************)
(* The invariant of EvmTxPayment is inductive, and what follows from it:   *)
(* who is charged for a transaction, in which currency and at which price. *)
(***************************************************************************)
EXTENDS EvmTxPaymentSteps, TLAPS

-----------------------------------------------------------------------------
(* Every step keeps the inductive invariant. *)
LEMMA InitIInv == Init => IInv
<1> SUFFICES ASSUME Init PROVE IInv
  OBVIOUS
<1>1. BooksTyped
  BY GenesisAssumption DEF Init, BooksTyped
<1>2. PricesTyped
  BY GenesisAssumption DEF Init, PricesTyped
<1>3. RecordsOld
  BY DEF Init, RecordsOld
<1>4. QED
  BY <1>1, <1>2, <1>3 DEF IInv

LEMMA PrecompileType ==
    ASSUME NEW tx \in Transactions, NEW ran, NEW effect,
           effect = IF tx.call.fn = "other" \/ ~ran THEN None ELSE Precompile(tx.who, tx.call),
           effect # None
    PROVE effect.token \in Assets \cup {None}
<1>1. tx.call.fn # "other" /\ effect = Precompile(tx.who, tx.call)
  OBVIOUS
<1>2. tx.call \in CallKinds
  BY DEF Transactions
<1>3. CASE tx.call.fn = "clearUserFeeToken"
  BY <1>1, <1>3 DEF Precompile
<1>4. CASE tx.call.fn # "clearUserFeeToken"
  <2>1. PICK t \in Assets : tx.call = [fn |-> "setUserFeeToken", token |-> t]
    BY <1>1, <1>2, <1>4 DEF CallKinds
  <2>2. effect = [token |-> tx.call.token]
    BY <1>1, <1>4 DEF Precompile
  <2>3. QED
    BY <2>1, <2>2
<1>5. QED
  BY <1>3, <1>4

LEMMA TransactKeeps ==
    ASSUME IInv, NEW tx \in pool, NEW used \in 1 .. tx.limit, NEW ran, NEW stopped,
           transact(tx, used, ran, stopped)
    PROVE IInv'
<1> DEFINE effect == IF tx.call.fn = "other" \/ ~ran THEN None ELSE Precompile(tx.who, tx.call)
<1>1. /\ pool' = pool \ {tx}
      /\ IF effect = None THEN UNCHANGED <<UserFeeToken, LastFeeTokenUpdate>>
         ELSE /\ UserFeeToken' = [UserFeeToken EXCEPT ![tx.who] = effect.token]
              /\ LastFeeTokenUpdate' = [LastFeeTokenUpdate EXCEPT ![tx.who] = block]
      /\ UNCHANGED <<registryVars, feed, block, AcceptedFeeTokens>>
  BY DEF transact
<1>2. /\ tx \in Transactions /\ tx.who \in Users
      /\ CurrentTxIndex' = CurrentTxIndex + 1
      /\ FreeStep \/ NativeStep \/ TokenStep(tx, stopped)
  BY TransactFacts
<1>3. BooksTyped /\ PricesTyped /\ RecordsOld
  BY DEF IInv
<1>4. effect # None => effect.token \in Assets \cup {None}
  BY <1>2, PrecompileType
<1> HIDE DEF effect
<1>5. /\ UserFeeToken' \in [Users -> Assets \cup {None}]
      /\ LastFeeTokenUpdate' \in [Users -> Nat \cup {None}]
  <2>1. CASE effect = None
    BY <1>1, <1>3, <2>1 DEF BooksTyped
  <2>2. CASE effect # None
    BY <1>1, <1>2, <1>3, <1>4, <2>2 DEF BooksTyped
  <2>3. QED
    BY <2>1, <2>2
<1>6. /\ native' \in [Accounts -> Nat] /\ tokens' \in Balances
      /\ \A k \in DOMAIN PendingFeePayments' :
           k \in DOMAIN PendingFeePayments \/ k = <<tx.who, CurrentTxIndex>>
  <2>1. CASE FreeStep \/ NativeStep
    BY <1>3, <2>1 DEF FreeStep, NativeStep, BooksTyped
  <2>2. CASE TokenStep(tx, stopped)
    <3>1. PICK token \in Assets, bal \in Balances : \E c, done : PaidBy(tx, stopped, token, c, bal, done)
      BY <2>2 DEF TokenStep
    <3>1a. PICK c, done : PaidBy(tx, stopped, token, c, bal, done)
      BY <3>1
    <3>2. PICK actual \in Nat, b2 \in Balances :
            /\ done.native = native /\ done.tokens = b2
            /\ done.pending = Insert(PendingFeePayments, <<tx.who, CurrentTxIndex>>,
                                     PaymentOf(token, actual, receipt'.fee, c))
      BY <3>1a DEF PaidBy, PaidInTokens
    <3>3. DOMAIN PendingFeePayments' = DOMAIN PendingFeePayments \cup {<<tx.who, CurrentTxIndex>>}
      BY <3>1a, <3>2 DEF Insert, PaidBy
    <3>4. QED
      BY <1>3, <3>1a, <3>2, <3>3 DEF BooksTyped, PaidBy
  <2>3. QED
    BY <1>2, <2>1, <2>2
<1>7. BooksTyped'
  BY <1>1, <1>2, <1>3, <1>5, <1>6 DEF BooksTyped
<1>8. PricesTyped'
  BY <1>1, <1>3 DEF PricesTyped, registryVars
<1>9. RecordsOld'
  <2> SUFFICES ASSUME NEW u \in Users, NEW i \in Nat, <<u, i>> \in DOMAIN PendingFeePayments'
               PROVE i < CurrentTxIndex'
    BY DEF RecordsOld
  <2>1. CurrentTxIndex \in Nat
    BY <1>3 DEF BooksTyped
  <2>2. CASE <<u, i>> \in DOMAIN PendingFeePayments
    <3>1. i < CurrentTxIndex
      BY <1>3, <2>2 DEF RecordsOld
    <3>2. QED
      BY <1>2, <2>1, <3>1
  <2>3. CASE <<u, i>> = <<tx.who, CurrentTxIndex>>
    BY <1>2, <2>1, <2>3
  <2>4. QED
    BY <1>6, <2>2, <2>3
<1>10. QED
  BY <1>7, <1>8, <1>9 DEF IInv

LEMMA PalletCallKeeps == IInv /\ PalletCall => IInv'
<1> SUFFICES ASSUME IInv, PalletCall PROVE IInv'
  OBVIOUS
<1>1. BooksTyped /\ PricesTyped /\ RecordsOld
  BY DEF IInv
<1>2. UNCHANGED <<registryVars, feed, block, LastFeeTokenUpdate, CurrentTxIndex,
                  PendingFeePayments, native, pool>>
  BY DEF PalletCall
<1>3. ASSUME UNCHANGED <<UserFeeToken, tokens>>, NEW t \in Assets, NEW config,
             config # None => WellTyped(config),
             AcceptedFeeTokens' = [AcceptedFeeTokens EXCEPT ![t] = config]
      PROVE IInv'
  <2>1. BooksTyped'
    BY <1>1, <1>2, <1>3 DEF BooksTyped
  <2>2. PricesTyped'
    <3>1. DOMAIN AcceptedFeeTokens' = Assets
      BY <1>1, <1>3 DEF PricesTyped
    <3>2. \A s \in Assets : AcceptedFeeTokens'[s] # None => WellTyped(AcceptedFeeTokens'[s])
      BY <1>1, <1>3 DEF PricesTyped
    <3>3. UNCHANGED <<Oracles, Aggregators, OracleManagerContract, feed>>
      BY <1>2 DEF registryVars
    <3>4. QED
      BY <1>1, <3>1, <3>2, <3>3 DEF PricesTyped
  <2>3. RecordsOld'
    BY <1>1, <1>2 DEF RecordsOld
  <2>4. QED
    BY <2>1, <2>2, <2>3 DEF IInv
<1>4. ASSUME UNCHANGED AcceptedFeeTokens,
             UserFeeToken' \in [Users -> Assets \cup {None}], tokens' \in Balances
      PROVE IInv'
  <2>1. BooksTyped'
    BY <1>1, <1>2, <1>4 DEF BooksTyped
  <2>2. PricesTyped'
    BY <1>1, <1>2, <1>4 DEF PricesTyped, registryVars
  <2>3. RecordsOld'
    BY <1>1, <1>2 DEF RecordsOld
  <2>4. QED
    BY <2>1, <2>2, <2>3 DEF IInv
<1>5. ASSUME UNCHANGED <<UserFeeToken, tokens>>, NEW t \in Assets,
             \/ \E config \in Configs : add_fee_token(t, config) \/ update_fee_token(t, config)
             \/ remove_fee_token(t)
      PROVE IInv'
  <2>1. ASSUME NEW config \in Configs, add_fee_token(t, config) \/ update_fee_token(t, config)
        PROVE IInv'
    <3>1. WellTyped(config)
      BY GenesisAssumption
    <3>2. AcceptedFeeTokens' = [AcceptedFeeTokens EXCEPT ![t] = config]
      BY <2>1 DEF add_fee_token, update_fee_token
    <3>3. QED
      BY <1>3, <1>5, <3>1, <3>2
  <2>2. CASE remove_fee_token(t)
    <3>1. AcceptedFeeTokens' = [AcceptedFeeTokens EXCEPT ![t] = None]
      BY <2>2 DEF remove_fee_token
    <3>2. QED
      BY <1>3, <1>5, <3>1
  <2>3. QED
    BY <1>5, <2>1, <2>2
<1>6. ASSUME UNCHANGED <<AcceptedFeeTokens, tokens>>, NEW u \in Users, NEW t \in Assets \cup {None},
             set_user_fee_token(u, t)
      PROVE IInv'
  <2>1. UserFeeToken' \in [Users -> Assets \cup {None}]
    BY <1>1, <1>6 DEF set_user_fee_token, BooksTyped
  <2>2. tokens' \in Balances
    BY <1>1, <1>6 DEF BooksTyped
  <2>3. QED
    BY <1>4, <1>6, <2>1, <2>2
<1>7. ASSUME UNCHANGED <<AcceptedFeeTokens, UserFeeToken>>, NEW t \in Assets, NEW u \in Users,
             NEW a \in Amounts, withdraw_collected_fees(t, u, a)
      PROVE IInv'
  <2>1. a \in Nat /\ Collector \in Holders /\ u \in Holders /\ Collector # u
    BY PaymentAssumption DEF Holders
  <2>2. tokens' = transfer(tokens, paused, t, Collector, u, a) /\ tokens' # None
    BY <1>7 DEF withdraw_collected_fees
  <2>3. tokens \in Balances
    BY <1>1 DEF BooksTyped
  <2>4. tokens' \in Balances
    <3>1. Transferred(tokens', tokens, paused, t, Collector, u, a)
      BY <2>1, <2>2, <2>3, Transfer
    <3>2. QED
      BY <2>2, <3>1 DEF Transferred
  <2>5. UserFeeToken' \in [Users -> Assets \cup {None}]
    BY <1>1, <1>7 DEF BooksTyped
  <2>6. QED
    BY <1>4, <1>7, <2>4, <2>5
<1>8. QED
  BY <1>5, <1>6, <1>7 DEF PalletCall

LEMMA RegistryCallKeeps == IInv /\ RegistryCall => IInv'
<1> SUFFICES ASSUME IInv, RegistryCall PROVE IInv'
  OBVIOUS
<1> USE DEF IInv
<1>1. UNCHANGED <<feed, block, paymentVars, ledgerVars, pool>>
  BY DEF RegistryCall
<1>2. BooksTyped'
  BY <1>1 DEF BooksTyped, paymentVars, ledgerVars
<1>3. RecordsOld'
  BY <1>1 DEF RecordsOld, paymentVars
<1> DEFINE Ids == OracleIds \cup {ZeroId, None}
           Infos == [address : Contracts, decimal : Nat] \cup {None}
<1>4. ASSUME Oracles' \in [Assets \cup Chains -> Ids], Aggregators' \in [Assets -> Infos],
             OracleManagerContract' \in Contracts \cup {None}
      PROVE PricesTyped'
  BY <1>1, <1>4 DEF PricesTyped, paymentVars
<1>5. /\ Oracles \in [Assets \cup Chains -> Ids] /\ Aggregators \in [Assets -> Infos]
      /\ OracleManagerContract \in Contracts \cup {None}
  BY DEF PricesTyped
<1>6. ASSUME NEW a \in Assets \cup Chains, NEW id \in Ids,
             Oracles' = [Oracles EXCEPT ![a] = id], UNCHANGED <<Aggregators, OracleManagerContract>>
      PROVE PricesTyped'
  BY <1>4, <1>5, <1>6
<1>7. ASSUME NEW a \in Assets, NEW info \in Infos, Aggregators' = [Aggregators EXCEPT ![a] = info],
             UNCHANGED <<Oracles, OracleManagerContract>>
      PROVE PricesTyped'
  BY <1>4, <1>5, <1>7
<1>8. \A a \in Assets, id \in OracleIds \cup {ZeroId} : set_asset_oracle(a, id) => PricesTyped'
  BY <1>6 DEF set_asset_oracle
<1>9. \A a \in Assets : remove_asset_oracle(a) => PricesTyped'
  BY <1>6 DEF remove_asset_oracle
<1>10. \A a \in Assets, c \in Contracts, d \in Decimals : set_asset_aggregator(a, c, d) => PricesTyped'
  <2> TAKE a \in Assets, c \in Contracts, d \in Decimals
  <2>1. d \in Nat
    BY PaymentAssumption
  <2>2. [address |-> c, decimal |-> d] \in Infos
    BY <2>1
  <2>3. QED
    BY <1>7, <2>2 DEF set_asset_aggregator
<1>11. \A a \in Assets : remove_asset_aggregator(a) => PricesTyped'
  BY <1>7 DEF remove_asset_aggregator
<1>12. \A chain \in Chains, id \in OracleIds : set_native_currency_oracle(chain, id) => PricesTyped'
  BY <1>6 DEF set_native_currency_oracle
<1>13. \A chain \in Chains : remove_native_currency_oracle(chain) => PricesTyped'
  BY <1>6 DEF remove_native_currency_oracle
<1>14. \A c \in Contracts : set_oracle_manager_contract(c) => PricesTyped'
  BY <1>4, <1>5 DEF set_oracle_manager_contract
<1>15. remove_oracle_manager_contract => PricesTyped'
  BY <1>4, <1>5 DEF remove_oracle_manager_contract
<1>16. PricesTyped'
  BY <1>8, <1>9, <1>10, <1>11, <1>12, <1>13, <1>14, <1>15 DEF RegistryCall
<1>17. QED
  BY <1>2, <1>3, <1>16

LEMMA UtilityCallKeeps == IInv /\ UtilityCall => IInv'
<1> SUFFICES ASSUME IInv, UtilityCall PROVE IInv'
  OBVIOUS
<1> USE DEF IInv
<1>1. UNCHANGED <<registryVars, feed, block, paymentVars, tokens, pool>>
  BY DEF UtilityCall
<1>2. native' \in [Accounts -> Nat]
  <2>1. native \in [Accounts -> Nat]
    BY DEF BooksTyped
  <2>2. \A a \in Accounts : add_blocked_account(a) \/ remove_blocked_account(a) => native' = native
    BY DEF add_blocked_account, remove_blocked_account
  <2>3. \A a \in Users, m \in Amounts : mint_native(a, m) => native' \in [Accounts -> Nat]
    <3> TAKE a \in Users, m \in Amounts
    <3>1. a \in Accounts /\ m \in Nat
      BY PaymentAssumption
    <3>2. QED
      BY <2>1, <3>1 DEF mint_native
  <2>4. community_proposal("proposal") => native' = native
    BY DEF community_proposal
  <2>5. QED
    BY <2>1, <2>2, <2>3, <2>4 DEF UtilityCall
<1>3. BooksTyped'
  BY <1>1, <1>2 DEF BooksTyped, paymentVars
<1>4. PricesTyped'
  BY <1>1 DEF PricesTyped, registryVars, paymentVars
<1>5. RecordsOld'
  BY <1>1 DEF RecordsOld, paymentVars
<1>6. QED
  BY <1>3, <1>4, <1>5

LEMMA PublishKeeps ==
    ASSUME IInv, NEW c \in Contracts, NEW q \in Queries, NEW value \in Prices, NEW time \in {0, now},
           publish(c, q, value, time)
    PROVE IInv'
<1> USE DEF IInv
<1>1. UNCHANGED <<registryVars, block, paymentVars, ledgerVars, pool>>
  BY DEF publish
<1>2. value \in Nat /\ time \in Nat
  BY PaymentAssumption, OracleAssumption DEF now, BooksTyped
<1>3. feed' = [feed EXCEPT ![c][q] = [value |-> value, time |-> time]]
  BY DEF publish
<1>4. BooksTyped'
  BY <1>1 DEF BooksTyped, paymentVars, ledgerVars
<1>5. feed' \in [Contracts -> [Queries -> [value : Nat, time : Nat] \cup {None}]]
  BY <1>2, <1>3 DEF PricesTyped
<1>6. PricesTyped'
  BY <1>1, <1>5 DEF PricesTyped, registryVars, paymentVars
<1>7. RecordsOld'
  BY <1>1 DEF RecordsOld, paymentVars
<1>8. QED
  BY <1>4, <1>6, <1>7

LEMMA SpendKeeps ==
    ASSUME IInv, NEW t \in Assets, NEW from \in Users, NEW to \in Users, spend(t, from, to)
    PROVE IInv'
<1> USE DEF IInv
<1>1. UNCHANGED <<registryVars, feed, block, paymentVars, native, pool>>
  BY DEF spend
<1>2. tokens' \in Balances
  <2>1. from \in Holders /\ to \in Holders
    BY DEF Holders
  <2>2. /\ tokens \in Balances /\ tokens[t][from] \in Nat /\ tokens[t][to] \in Nat
    BY <2>1 DEF BooksTyped, Balances
  <2>3. tokens' = [tokens EXCEPT ![t][to] = @ + tokens[t][from], ![t][from] = 0]
    BY DEF spend
  <2>4. QED
    BY <2>1, <2>2, <2>3 DEF Balances
<1>3. BooksTyped'
  BY <1>1, <1>2 DEF BooksTyped, paymentVars
<1>4. PricesTyped'
  BY <1>1 DEF PricesTyped, registryVars, paymentVars
<1>5. RecordsOld'
  BY <1>1 DEF RecordsOld, paymentVars
<1>6. QED
  BY <1>3, <1>4, <1>5

LEMMA PoolKeeps ==
    ASSUME IInv, pool' \subseteq Transactions,
           UNCHANGED <<registryVars, feed, block, paymentVars, ledgerVars>>
    PROVE IInv'
<1> USE DEF IInv
<1>1. BooksTyped'
  BY DEF BooksTyped, paymentVars, ledgerVars
<1>2. PricesTyped'
  BY DEF PricesTyped, registryVars, paymentVars
<1>3. RecordsOld'
  BY DEF RecordsOld, paymentVars
<1>4. QED
  BY <1>1, <1>2, <1>3

LEMMA UpgradeKeeps == IInv /\ on_runtime_upgrade => IInv'
<1> SUFFICES ASSUME IInv, on_runtime_upgrade PROVE IInv'
  OBVIOUS
<1> USE DEF IInv
<1>1. /\ UNCHANGED <<registryVars, feed, block, UserFeeToken, LastFeeTokenUpdate, CurrentTxIndex,
                     PendingFeePayments, ledgerVars, pool>>
      /\ AcceptedFeeTokens' = [t \in Assets |-> IF AcceptedFeeTokens[t] = None THEN None
                                                ELSE FromV0(AcceptedFeeTokens[t])]
  BY DEF on_runtime_upgrade
<1>2. BooksTyped'
  BY <1>1 DEF BooksTyped, ledgerVars
<1>3. ASSUME NEW t \in Assets, AcceptedFeeTokens'[t] # None PROVE WellTyped(AcceptedFeeTokens'[t])
  <2>1. AcceptedFeeTokens[t] # None /\ AcceptedFeeTokens'[t] = FromV0(AcceptedFeeTokens[t])
    BY <1>1, <1>3
  <2>2. WellTyped(AcceptedFeeTokens[t])
    BY <2>1 DEF PricesTyped
  <2>3. QED
    BY <2>1, <2>2 DEF WellTyped, FromV0
<1>4. PricesTyped'
  BY <1>1, <1>3 DEF PricesTyped, registryVars
<1>5. RecordsOld'
  BY <1>1 DEF RecordsOld
<1>6. QED
  BY <1>2, <1>4, <1>5

LEMMA BlockKeeps == IInv /\ on_initialize => IInv'
<1> SUFFICES ASSUME IInv, on_initialize PROVE IInv'
  OBVIOUS
<1> USE DEF IInv
<1>1. /\ UNCHANGED <<registryVars, feed, AcceptedFeeTokens, UserFeeToken, LastFeeTokenUpdate,
                     ledgerVars, pool>>
      /\ block' = block + 1 /\ CurrentTxIndex' = 0 /\ PendingFeePayments' = [k \in {} |-> None]
  BY DEF on_initialize
<1>2. BooksTyped'
  BY <1>1 DEF BooksTyped, ledgerVars
<1>3. PricesTyped'
  BY <1>1 DEF PricesTyped, registryVars
<1>4. RecordsOld'
  BY <1>1 DEF RecordsOld
<1>5. QED
  BY <1>2, <1>3, <1>4

LEMMA NextIInv == IInv /\ [Next]_vars => IInv'
<1> SUFFICES ASSUME IInv, [Next]_vars PROVE IInv'
  OBVIOUS
<1>1. ASSUME NEW tx \in Transactions, submit(tx) PROVE IInv'
  <2>1. pool' \subseteq Transactions
    BY <1>1 DEF submit, IInv, BooksTyped
  <2>2. UNCHANGED <<registryVars, feed, block, paymentVars, ledgerVars>>
    BY <1>1 DEF submit
  <2>3. QED
    BY <2>1, <2>2, PoolKeeps
<1>2. ASSUME NEW tx \in pool, drop(tx) PROVE IInv'
  <2>1. pool' \subseteq Transactions
    BY <1>2 DEF drop, IInv, BooksTyped
  <2>2. UNCHANGED <<registryVars, feed, block, paymentVars, ledgerVars>>
    BY <1>2 DEF drop
  <2>3. QED
    BY <2>1, <2>2, PoolKeeps
<1>3. CASE UNCHANGED vars
  <2>1. pool' \subseteq Transactions
    BY <1>3 DEF vars, IInv, BooksTyped
  <2>2. UNCHANGED <<registryVars, feed, block, paymentVars, ledgerVars>>
    BY <1>3 DEF vars
  <2>3. QED
    BY <2>1, <2>2, PoolKeeps
<1>4. CASE Transact
  BY <1>4, TransactKeeps DEF Transact
<1>5. ASSUME NEW c \in Contracts, NEW q \in Queries, NEW value \in Prices, NEW time \in {0, now},
             publish(c, q, value, time)
      PROVE IInv'
  BY <1>5, PublishKeeps
<1>6. ASSUME NEW t \in Assets, NEW from \in Users, NEW to \in Users, spend(t, from, to)
      PROVE IInv'
  BY <1>6, SpendKeeps
<1>7. QED
  BY <1>1, <1>2, <1>3, <1>4, <1>5, <1>6, UpgradeKeeps, BlockKeeps, PalletCallKeeps,
     RegistryCallKeeps, UtilityCallKeeps DEF Next

LEMMA Inductive == Spec => []IInv
BY InitIInv, NextIInv, PTL DEF Spec

\* Whoever the user and whatever the call, the filter of the runtime lets through
\* for free only what the precompile then accepts (is_feeless, check_rate_limit).
THEOREM FeelessSafety == Spec => []FeelessAccepted
<1>1. IInv => FeelessAccepted
  <2> SUFFICES ASSUME IInv, NEW u \in Users, NEW call \in CallKinds, call.fn # "other",
                      is_feeless(u, call)
               PROVE Precompile(u, call) # None
    BY DEF FeelessAccepted
  <2>1. block \in Nat /\ LastFeeTokenUpdate[u] \in Nat \cup {None} /\ FeeTokenUpdateCooldown \in Nat
    BY PaymentAssumption DEF IInv, BooksTyped
  <2>2. ~is_rate_limited(u)
    BY DEF is_feeless
  <2>3. check_rate_limit(u)
    BY <2>1, <2>2 DEF is_rate_limited, check_rate_limit
  <2>4. CASE call.fn = "clearUserFeeToken"
    <3>1. Precompile(u, call) = [token |-> None]
      BY <2>3, <2>4 DEF Precompile
    <3>2. [token |-> None] \in [token : Assets \cup {None}]
      OBVIOUS
    <3>3. QED
      BY <3>1, <3>2, PaymentAssumption
  <2>5. CASE call.fn # "clearUserFeeToken"
    <3>1. PICK t \in Assets : call = [fn |-> "setUserFeeToken", token |-> t]
      BY <2>5 DEF CallKinds
    <3>2. is_token_accepted(call.token)
      BY <2>5 DEF is_feeless, validate_feeless_set_token
    <3>3. Precompile(u, call) = [token |-> t]
      BY <2>3, <2>5, <3>1, <3>2 DEF Precompile
    <3>4. [token |-> t] \in [token : Assets \cup {None}]
      OBVIOUS
    <3>5. QED
      BY <3>3, <3>4, PaymentAssumption
  <2>6. QED
    BY <2>4, <2>5
<1>2. QED
  BY <1>1, Inductive, PTL

-----------------------------------------------------------------------------
(* What a transaction costs, and whom. *)

\* The outcome of a transaction that is not paid in tokens.
PaidOtherwise == ~InToken /\ (FreeStep \/ NativeStep)

\* Paid in tokens: withdrawn (bal), refunded (b1) and tipped (the books of the
\* next state); kept is the amount on record.
PaidInToken(tx, token, c, kept, tip, bal, b1) ==
  /\ c = convert_native_to_token_with_prices(FeeOf(tx), token) /\ c # None
  /\ c.amount \in Nat /\ kept <= c.amount /\ tip <= kept
  /\ c.amount * receipt'.fee < U256SIZE => kept = (c.amount * receipt'.fee) \div FeeOf(tx)
  /\ FeeOf(tx) > 0 /\ receipt'.fee > 0
  /\ kept * receipt'.base_fee < (kept - tip + 1) * receipt'.fee
  /\ Moves(tokens, bal, token, tx.who, Collector, c.amount)
  /\ Refunded(bal, b1, paused', tx.who, token, c.amount - kept)
  /\ Tipped(b1, tokens', token, tip)
  /\ tokens' \in Balances /\ native' = native
  /\ InToken /\ Payment = PaymentOf(token, kept, receipt'.fee, c)

Outcome(tx) ==
  /\ tx \in Transactions /\ tx.who \in Users /\ receipt'.who = tx.who
  /\ receipt'.fee \in Nat /\ receipt'.base_fee \in Nat
  /\ receipt'.fee <= FeeOf(tx) /\ FeeOf(tx) \in Nat
  /\ \/ PaidOtherwise
     \/ \E token \in Assets, kept \in Nat, tip \in Nat, bal \in Balances, b1 \in Balances :
          \E c : PaidInToken(tx, token, c, kept, tip, bal, b1)

LEMMA TransactOutcome ==
    ASSUME IInv, NEW tx \in pool, NEW used \in 1 .. tx.limit, NEW ran, NEW stopped,
           transact(tx, used, ran, stopped)
    PROVE Outcome(tx)
<1>1. /\ tx \in Transactions /\ tx.who \in Users /\ receipt'.who = tx.who
      /\ receipt'.fee \in Nat /\ receipt'.base_fee \in Nat
      /\ receipt'.base_fee <= receipt'.fee /\ receipt'.fee <= FeeOf(tx) /\ FeeOf(tx) \in Nat
      /\ CurrentTxIndex' = CurrentTxIndex + 1 /\ paused' = stopped
      /\ FreeStep \/ NativeStep \/ TokenStep(tx, stopped)
  BY TransactFacts
<1>2. /\ CurrentTxIndex \in Nat /\ PricesTyped
      /\ <<tx.who, CurrentTxIndex>> \notin DOMAIN PendingFeePayments
  <2>1. CurrentTxIndex \in Nat /\ PricesTyped /\ RecordsOld
    BY DEF IInv, BooksTyped
  <2>2. ~(CurrentTxIndex < CurrentTxIndex)
    BY <2>1
  <2>3. QED
    BY <1>1, <2>1, <2>2 DEF RecordsOld
<1>3. CASE FreeStep \/ NativeStep
  <2>1. PendingFeePayments' = PendingFeePayments
    BY <1>3 DEF FreeStep, NativeStep
  <2>2. ~InToken
    BY <1>1, <1>2, <2>1 DEF InToken, Record
  <2>3. QED
    BY <1>1, <1>3, <2>2 DEF Outcome, PaidOtherwise
<1>4. CASE TokenStep(tx, stopped)
  <2>1. PICK token \in Assets, bal \in Balances : \E c, done : PaidBy(tx, stopped, token, c, bal, done)
    BY <1>4 DEF TokenStep
  <2>1a. PICK c, done : PaidBy(tx, stopped, token, c, bal, done)
    BY <2>1
  <2>2. /\ c = convert_native_to_token_with_prices(FeeOf(tx), token) /\ c # None
        /\ Moves(tokens, bal, token, tx.who, Collector, c.amount)
        /\ FeeOf(tx) > 0 /\ receipt'.fee > 0
        /\ native' = done.native /\ tokens' = done.tokens /\ PendingFeePayments' = done.pending
        /\ PaidInTokens(done, native, bal, PendingFeePayments, stopped, tx.who, CurrentTxIndex,
                        token, c, FeeOf(tx), receipt'.fee, receipt'.base_fee)
    BY <2>1a DEF PaidBy
  <2>3. c.amount \in Nat
    BY <1>1, <1>2, <2>2, Converted DEF Worth
  <2>4. PICK kept \in Nat, tip \in Nat, b1 \in Balances, b2 \in Balances :
          /\ kept <= c.amount /\ tip <= kept
          /\ c.amount * receipt'.fee < U256SIZE => kept = (c.amount * receipt'.fee) \div FeeOf(tx)
          /\ kept * receipt'.base_fee < (kept - tip + 1) * receipt'.fee
          /\ Refunded(bal, b1, stopped, tx.who, token, c.amount - kept)
          /\ Tipped(b1, b2, token, tip)
          /\ done.native = native /\ done.tokens = b2
          /\ done.pending = Insert(PendingFeePayments, <<tx.who, CurrentTxIndex>>,
                                   PaymentOf(token, kept, receipt'.fee, c))
    BY <2>2, Zenon DEF PaidInTokens
  <2>5. InToken /\ Payment = PaymentOf(token, kept, receipt'.fee, c)
    <3>1. Record = <<tx.who, CurrentTxIndex>>
      BY <1>1 DEF Record
    <3>2. PendingFeePayments' = Insert(PendingFeePayments, Record, PaymentOf(token, kept, receipt'.fee, c))
      BY <2>2, <2>4, <3>1
    <3>3. QED
      BY <3>2 DEF InToken, Payment, Insert
  <2>6. PaidInToken(tx, token, c, kept, tip, bal, b1)
    <3>1. Refunded(bal, b1, paused', tx.who, token, c.amount - kept)
      BY <1>1, <2>4
    <3>2. Tipped(b1, tokens', token, tip) /\ tokens' \in Balances /\ native' = native
      BY <2>2, <2>4
    <3>3. QED
      BY <2>2, <2>3, <2>4, <2>5, <3>1, <3>2 DEF PaidInToken
  <2>7. QED
    BY <1>1, <2>6 DEF Outcome
<1>5. QED
  BY <1>1, <1>3, <1>4

\* Only a transaction of a block moves the index on.
LEMMA OnlyTransact == ASSUME IInv, Next, TxStep PROVE \E tx \in pool : Outcome(tx)
<1>1. CurrentTxIndex \in Nat /\ CurrentTxIndex' = CurrentTxIndex + 1
  BY DEF IInv, BooksTyped, TxStep
<1>2. CurrentTxIndex' # CurrentTxIndex /\ CurrentTxIndex' # 0
  BY <1>1
<1>3. ~on_runtime_upgrade /\ ~on_initialize /\ ~PalletCall /\ ~RegistryCall /\ ~UtilityCall
  <2>1. ~on_runtime_upgrade
    BY <1>2 DEF on_runtime_upgrade
  <2>2. ~on_initialize
    BY <1>2 DEF on_initialize
  <2>3. ~PalletCall
    BY <1>2 DEF PalletCall
  <2>4. ~RegistryCall
    BY <1>2 DEF RegistryCall, paymentVars
  <2>5. ~UtilityCall
    BY <1>2 DEF UtilityCall, paymentVars
  <2>6. QED
    BY <2>1, <2>2, <2>3, <2>4, <2>5
<1>4. /\ \A c, q, value, time : ~publish(c, q, value, time)
      /\ \A t, from, to : ~spend(t, from, to)
  BY <1>2 DEF publish, spend, paymentVars
<1>5. \A tx : ~submit(tx) /\ ~drop(tx)
  BY <1>2 DEF submit, drop, paymentVars
<1>6. Transact
  BY <1>3, <1>4, <1>5 DEF Next
<1>7. QED
  BY <1>6, TransactOutcome DEF Transact

\* The holders of the tokens over the three transfers of one transaction.
LEMMA HoldersAfter ==
    ASSUME BooksTyped, NEW tx, tx.who \in Users, NEW token \in Assets, NEW kept \in Nat,
           NEW tip \in Nat, NEW bal \in Balances, NEW b1 \in Balances, NEW c,
           PaidInToken(tx, token, c, kept, tip, bal, b1), NEW t \in Assets
    PROVE /\ t # token => \A h \in Holders : TokenLoss(t, h) = 0
          /\ \A u \in Users : u # tx.who /\ u # Author => TokenLoss(t, u) = 0
          /\ tx.who # Author /\ t = token =>
               \/ TokenLoss(t, tx.who) = kept
               \/ t \in paused' /\ TokenLoss(t, tx.who) > kept
          /\ t = token => -TokenLoss(t, Collector) >= kept - tip
<1>0. /\ Collector \in Holders /\ Author \in Holders /\ Users \subseteq Holders
      /\ \A u \in Users : u # Collector
      /\ Collector # Author
  BY PaymentAssumption DEF Holders
<1>1. ASSUME NEW h \in Holders
      PROVE tokens[t][h] \in Nat /\ bal[t][h] \in Nat /\ b1[t][h] \in Nat /\ tokens'[t][h] \in Nat
  BY DEF BooksTyped, Balances, PaidInToken
<1>2. c.amount \in Nat /\ kept <= c.amount /\ tip <= kept
  BY DEF PaidInToken
<1>3. ASSUME NEW h \in Holders
      PROVE bal[t][h] = IF t # token THEN tokens[t][h]
                        ELSE IF h = tx.who THEN tokens[t][h] - c.amount
                        ELSE IF h = Collector THEN tokens[t][h] + c.amount
                        ELSE tokens[t][h]
  BY DEF PaidInToken, Moves
<1>4. \/ \A h \in Holders :
           b1[t][h] = IF t # token THEN bal[t][h]
                      ELSE IF h = Collector THEN bal[t][h] - (c.amount - kept)
                      ELSE IF h = tx.who THEN bal[t][h] + (c.amount - kept)
                      ELSE bal[t][h]
      \/ b1 = bal /\ token \in paused' /\ c.amount - kept > 0
  BY DEF PaidInToken, Refunded, Moves
<1>5. \/ \A h \in Holders :
           tokens'[t][h] = IF t # token THEN b1[t][h]
                           ELSE IF h = Collector THEN b1[t][h] - tip
                           ELSE IF h = Author THEN b1[t][h] + tip
                           ELSE b1[t][h]
      \/ tokens' = b1
  BY DEF PaidInToken, Tipped, Moves
<1>6. t # token => \A h \in Holders : TokenLoss(t, h) = 0
  <2> SUFFICES ASSUME t # token, NEW h \in Holders PROVE TokenLoss(t, h) = 0
    OBVIOUS
  <2>1. bal[t][h] = tokens[t][h]
    BY <1>3
  <2>2. b1[t][h] = bal[t][h]
    BY <1>4
  <2>3. tokens'[t][h] = b1[t][h]
    BY <1>5
  <2>4. tokens'[t][h] = tokens[t][h] /\ tokens[t][h] \in Nat
    BY <1>1, <2>1, <2>2, <2>3
  <2>5. TokenLoss(t, h) = tokens[t][h] - tokens[t][h]
    BY <2>4 DEF TokenLoss
  <2> DEFINE x == tokens[t][h]
  <2>6. x \in Int /\ TokenLoss(t, h) = x - x
    BY <2>4, <2>5
  <2> HIDE DEF x
  <2>7. QED
    BY <2>6, NoDifference
<1>7. ASSUME NEW u \in Users, u # tx.who, u # Author PROVE TokenLoss(t, u) = 0
  <2>1. u \in Holders /\ u # Collector
    BY <1>0
  <2>2. bal[t][u] = tokens[t][u]
    BY <1>3, <1>7, <2>1
  <2>3. b1[t][u] = bal[t][u]
    BY <1>4, <1>7, <2>1
  <2>4. tokens'[t][u] = b1[t][u]
    BY <1>5, <1>7, <2>1
  <2>5. tokens'[t][u] = tokens[t][u] /\ tokens[t][u] \in Nat
    BY <1>1, <2>1, <2>2, <2>3, <2>4
  <2>6. TokenLoss(t, u) = tokens[t][u] - tokens[t][u]
    BY <2>5 DEF TokenLoss
  <2> DEFINE x == tokens[t][u]
  <2>7. x \in Int /\ TokenLoss(t, u) = x - x
    BY <2>5, <2>6
  <2> HIDE DEF x
  <2>8. QED
    BY <2>7, NoDifference
<1>8. ASSUME tx.who # Author, t = token
      PROVE \/ TokenLoss(t, tx.who) = kept
            \/ t \in paused' /\ TokenLoss(t, tx.who) > kept
  <2>1. tx.who \in Holders /\ tx.who # Collector
    BY <1>0
  <2>2. bal[t][tx.who] = tokens[t][tx.who] - c.amount
    BY <1>3, <1>8, <2>1
  <2>3. tokens'[t][tx.who] = b1[t][tx.who]
    BY <1>5, <1>8, <2>1
  <2>4. \/ b1[t][tx.who] = bal[t][tx.who] + (c.amount - kept)
        \/ b1[t][tx.who] = bal[t][tx.who] /\ t \in paused' /\ c.amount - kept > 0
    BY <1>4, <1>8, <2>1
  <2> DEFINE x == tokens[t][tx.who]
             amount == c.amount
  <2>5. x \in Nat /\ amount \in Nat /\ kept <= amount
    BY <1>1, <1>2, <2>1
  <2>6. CASE b1[t][tx.who] = bal[t][tx.who] + (c.amount - kept)
    <3>1. TokenLoss(t, tx.who) = x - ((x - amount) + (amount - kept))
      BY <2>2, <2>3, <2>6 DEF TokenLoss
    <3> HIDE DEF x, amount
    <3>2. x - ((x - amount) + (amount - kept)) = kept
      BY <2>5
    <3>3. QED
      BY <3>1, <3>2
  <2>7. CASE b1[t][tx.who] = bal[t][tx.who] /\ t \in paused' /\ c.amount - kept > 0
    <3>1. TokenLoss(t, tx.who) = x - (x - amount) /\ amount - kept > 0
      BY <2>2, <2>3, <2>7 DEF TokenLoss
    <3> HIDE DEF x, amount
    <3>2. x - (x - amount) > kept
      BY <2>5, <3>1
    <3>3. QED
      BY <2>7, <3>1, <3>2
  <2>8. QED
    BY <2>4, <2>6, <2>7
<1>9. ASSUME t = token PROVE -TokenLoss(t, Collector) >= kept - tip
  <2>1. Collector # tx.who
    BY <1>0
  <2>2. bal[t][Collector] = tokens[t][Collector] + c.amount
    BY <1>0, <1>3, <1>9, <2>1
  <2>3. \/ b1[t][Collector] = bal[t][Collector] - (c.amount - kept)
        \/ b1[t][Collector] = bal[t][Collector]
    BY <1>0, <1>4, <1>9
  <2>4. \/ tokens'[t][Collector] = b1[t][Collector] - tip
        \/ tokens'[t][Collector] = b1[t][Collector]
    BY <1>0, <1>5, <1>9
  <2> DEFINE x == tokens[t][Collector]
             y == b1[t][Collector]
             z == tokens'[t][Collector]
             amount == c.amount
  <2>5. x \in Nat /\ y \in Nat /\ z \in Nat /\ amount \in Nat /\ kept <= amount
    BY <1>0, <1>1, <1>2
  <2>6. /\ y = (x + amount) - (amount - kept) \/ y = x + amount
        /\ z = y - tip \/ z = y
    BY <2>2, <2>3, <2>4
  <2>7. TokenLoss(t, Collector) = x - z
    BY DEF TokenLoss
  <2> HIDE DEF x, y, z, amount
  <2>8. y >= x + kept
    BY <2>5, <2>6
  <2>9. -(x - z) >= kept - tip
    BY <2>5, <2>6, <2>8
  <2>10. QED
    BY <2>7, <2>9
<1>10. QED
  BY <1>6, <1>7, <1>8, <1>9

\* A transaction is charged in one currency only and nobody else is charged, for
\* senders other than the author of the block (who also receives the tip).
THEOREM ChargedOnceSafety ==
    ASSUME Author \notin Users
    PROVE Spec => ChargedOnce
<1> DEFINE Once == TxStep =>
       /\ \A u \in Users :
            /\ native[u] - native'[u] =
                 IF u = receipt'.who /\ ~InToken THEN receipt'.fee ELSE 0
            /\ \A t \in Assets :
                 IF u = receipt'.who /\ InToken /\ t = Payment.token
                 THEN \/ TokenLoss(t, u) = Payment.amount
                      \/ t \in paused' /\ TokenLoss(t, u) > Payment.amount
                 ELSE TokenLoss(t, u) = 0
<1>1. ASSUME IInv, Next PROVE Once
  <2> SUFFICES ASSUME TxStep, NEW u \in Users
               PROVE /\ native[u] - native'[u] =
                          IF u = receipt'.who /\ ~InToken THEN receipt'.fee ELSE 0
                     /\ \A t \in Assets :
                          IF u = receipt'.who /\ InToken /\ t = Payment.token
                          THEN \/ TokenLoss(t, u) = Payment.amount
                               \/ t \in paused' /\ TokenLoss(t, u) > Payment.amount
                          ELSE TokenLoss(t, u) = 0
    OBVIOUS
  <2>1. PICK tx \in pool : Outcome(tx)
    BY <1>1, OnlyTransact
  <2>2. /\ tx.who \in Users /\ receipt'.who = tx.who /\ receipt'.fee \in Nat
    BY <2>1 DEF Outcome
  <2>3. BooksTyped
    BY <1>1 DEF IInv
  <2>4. native[u] \in Nat /\ u # Author
    BY <2>3, PaymentAssumption DEF BooksTyped
  <2>5. \A t \in Assets : tokens[t][u] \in Nat
    BY <2>3 DEF BooksTyped, Balances, Holders
  <2>6. CASE PaidOtherwise
    <3>1. ~InToken /\ tokens' = tokens
      BY <2>6 DEF PaidOtherwise, FreeStep, NativeStep
    <3>2. native'[u] = native[u] - (IF u = receipt'.who THEN receipt'.fee ELSE 0)
      <4>1. CASE FreeStep
        BY <2>4, <4>1 DEF FreeStep
      <4>2. CASE NativeStep
        BY <2>4, <4>2 DEF NativeStep
      <4>3. QED
        BY <2>6, <4>1, <4>2 DEF PaidOtherwise
    <3>3. native[u] - native'[u] = IF u = receipt'.who THEN receipt'.fee ELSE 0
      BY <2>2, <2>4, <3>2
    <3>4. \A t \in Assets : TokenLoss(t, u) = 0
      BY <2>5, <3>1 DEF TokenLoss
    <3>5. QED
      BY <3>1, <3>3, <3>4
  <2>7. ASSUME NEW token \in Assets, NEW kept \in Nat, NEW tip \in Nat, NEW bal \in Balances,
               NEW b1 \in Balances, NEW c, PaidInToken(tx, token, c, kept, tip, bal, b1)
        PROVE /\ native[u] - native'[u] =
                   IF u = receipt'.who /\ ~InToken THEN receipt'.fee ELSE 0
              /\ \A t \in Assets :
                   IF u = receipt'.who /\ InToken /\ t = Payment.token
                   THEN \/ TokenLoss(t, u) = Payment.amount
                        \/ t \in paused' /\ TokenLoss(t, u) > Payment.amount
                   ELSE TokenLoss(t, u) = 0
    <3>1. /\ InToken /\ native' = native
          /\ Payment.token = token /\ Payment.amount = kept
      BY <2>7 DEF PaidInToken, PaymentOf
    <3>2. native[u] - native'[u] = 0
      BY <2>4, <3>1
    <3>3. ASSUME NEW t \in Assets
          PROVE IF u = receipt'.who /\ InToken /\ t = Payment.token
                THEN \/ TokenLoss(t, u) = Payment.amount
                     \/ t \in paused' /\ TokenLoss(t, u) > Payment.amount
                ELSE TokenLoss(t, u) = 0
      <4>1. /\ t # token => \A h \in Holders : TokenLoss(t, h) = 0
            /\ \A v \in Users : v # tx.who /\ v # Author => TokenLoss(t, v) = 0
            /\ tx.who # Author /\ t = token =>
                 \/ TokenLoss(t, tx.who) = kept
                 \/ t \in paused' /\ TokenLoss(t, tx.who) > kept
        BY <2>2, <2>3, <2>7, HoldersAfter
      <4>2. u \in Holders
        BY DEF Holders
      <4>3. QED
        BY <2>2, <2>4, <3>1, <4>1, <4>2
    <3>4. QED
      BY <3>1, <3>2, <3>3
  <2>8. QED
    BY <2>1, <2>6, <2>7 DEF Outcome
<1>2. IInv /\ [Next]_vars => [Once]_vars
  BY <1>1
<1>3. ChargedOnce <=> [][Once]_vars
  BY DEF ChargedOnce
<1>4. QED
  BY <1>2, <1>3, Inductive, PTL DEF Spec

\* Refund and tip leave the collector at least the share of the base fee in the
\* tokens on record (correct_erc20_fee, pay_priority_fee).
THEOREM CollectorSafety == Spec => CollectorKeepsBase
<1> DEFINE Keeps == TxStep =>
       \A t \in Assets :
         LET gain == -TokenLoss(t, Collector)
         IN  IF InToken /\ t = Payment.token
             THEN (gain + 1) * receipt'.fee > Payment.amount * receipt'.base_fee
             ELSE gain = 0
<1>1. ASSUME IInv, Next PROVE Keeps
  <2> SUFFICES ASSUME TxStep, NEW t \in Assets
               PROVE IF InToken /\ t = Payment.token
                     THEN (-TokenLoss(t, Collector) + 1) * receipt'.fee
                            > Payment.amount * receipt'.base_fee
                     ELSE -TokenLoss(t, Collector) = 0
    OBVIOUS
  <2>1. PICK tx \in pool : Outcome(tx)
    BY <1>1, OnlyTransact
  <2>2. /\ tx.who \in Users /\ receipt'.fee \in Nat /\ receipt'.base_fee \in Nat
    BY <2>1 DEF Outcome
  <2>3. BooksTyped /\ Collector \in Holders
    BY <1>1 DEF IInv, Holders
  <2>4. tokens[t][Collector] \in Nat
    BY <2>3 DEF BooksTyped, Balances
  <2>5. CASE PaidOtherwise
    <3>1. ~InToken /\ tokens' = tokens
      BY <2>5 DEF PaidOtherwise, FreeStep, NativeStep
    <3>2. QED
      BY <2>4, <3>1 DEF TokenLoss
  <2>6. ASSUME NEW token \in Assets, NEW kept \in Nat, NEW tip \in Nat, NEW bal \in Balances,
               NEW b1 \in Balances, NEW c, PaidInToken(tx, token, c, kept, tip, bal, b1)
        PROVE IF InToken /\ t = Payment.token
              THEN (-TokenLoss(t, Collector) + 1) * receipt'.fee > Payment.amount * receipt'.base_fee
              ELSE -TokenLoss(t, Collector) = 0
    <3>1. /\ InToken /\ Payment.token = token /\ Payment.amount = kept
          /\ tip <= kept /\ kept * receipt'.base_fee < (kept - tip + 1) * receipt'.fee
          /\ tokens' \in Balances
      BY <2>6 DEF PaidInToken, PaymentOf
    <3>2. /\ t # token => \A h \in Holders : TokenLoss(t, h) = 0
          /\ t = token => -TokenLoss(t, Collector) >= kept - tip
      BY <2>2, <2>3, <2>6, HoldersAfter
    <3>3. CASE t # token
      BY <2>3, <3>1, <3>2, <3>3
    <3>4. CASE t = token
      <4> DEFINE gain == -TokenLoss(t, Collector)
                 fee == receipt'.fee
                 least == kept - tip
      <4>1. gain \in Int /\ gain >= least /\ least \in Nat /\ fee \in Nat
        <5>1. tokens'[t][Collector] \in Nat
          BY <2>3, <3>1 DEF Balances
        <5>2. TokenLoss(t, Collector) \in Int
          <6> DEFINE x == tokens[t][Collector]
                     y == tokens'[t][Collector]
          <6>1. x \in Nat /\ y \in Nat /\ TokenLoss(t, Collector) = x - y
            BY <2>4, <5>1 DEF TokenLoss
          <6> HIDE DEF x, y
          <6>2. QED
            BY <6>1
        <5>3. gain >= least
          BY <3>2, <3>4
        <5>4. least \in Nat /\ fee \in Nat
          BY <2>2, <3>1
        <5>5. QED
          BY <5>2, <5>3, <5>4
      <4>2. kept * receipt'.base_fee < (least + 1) * fee
        BY <3>1
      <4> HIDE DEF gain, fee, least
      <4>3. (least + 1) * fee <= (gain + 1) * fee
        BY <4>1
      <4>4. kept * receipt'.base_fee \in Nat /\ (least + 1) * fee \in Int /\ (gain + 1) * fee \in Int
        BY <2>2, <4>1
      <4>5. kept * receipt'.base_fee < (gain + 1) * fee
        BY <4>2, <4>3, <4>4
      <4>6. QED
        BY <3>1, <3>4, <4>4, <4>5 DEF gain, fee
    <3>5. QED
      BY <3>3, <3>4
  <2>7. QED
    BY <2>1, <2>5, <2>6 DEF Outcome
<1>2. IInv /\ [Next]_vars => [Keeps]_vars
  BY <1>1
<1>3. CollectorKeepsBase <=> [][Keeps]_vars
  BY DEF CollectorKeepsBase
<1>4. QED
  BY <1>2, <1>3, Inductive, PTL DEF Spec

-----------------------------------------------------------------------------
(* What the fee is worth. *)

\* An answer in the decimals of the prices, unless it saturates.
LEMMA NormalisedFairly ==
    ASSUME NEW answer \in Nat, NEW decimal \in Nat,
           decimal <= ORACLE_DECIMALS => answer * pow10[ORACLE_DECIMALS - decimal] < U256SIZE,
           NEW price, price = Normalise(answer, decimal)
    PROVE /\ price * pow10[decimal] <= answer * pow10[ORACLE_DECIMALS]
          /\ answer * pow10[ORACLE_DECIMALS] < (price + 1) * pow10[decimal]
<1>1. /\ pow10[decimal] \in Nat \ {0} /\ pow10[ORACLE_DECIMALS] \in Nat \ {0}
      /\ ORACLE_DECIMALS \in Nat
  BY Pow10Type, OracleAssumption
<1>2. CASE decimal <= ORACLE_DECIMALS
  <2> DEFINE up == pow10[ORACLE_DECIMALS - decimal]
  <2>1. ORACLE_DECIMALS - decimal \in Nat /\ (ORACLE_DECIMALS - decimal) + decimal = ORACLE_DECIMALS
    BY <1>1, <1>2
  <2>2. up \in Nat \ {0} /\ pow10[ORACLE_DECIMALS] = up * pow10[decimal]
    BY <2>1, Pow10Type, Pow10Sum
  <2>3. ~(answer * up >= U256SIZE)
    BY <1>2, <2>2, OracleAssumption
  <2>4. price = answer * up
    BY <1>2, <2>3 DEF Normalise, saturating_mul
  <2> HIDE DEF up
  <2>5. answer * pow10[ORACLE_DECIMALS] = price * pow10[decimal] /\ price \in Nat
    BY <1>1, <2>2, <2>4
  <2>6. price * pow10[decimal] < (price + 1) * pow10[decimal]
    BY <1>1, <2>5
  <2>7. QED
    BY <1>1, <2>5, <2>6
<1>3. CASE ~(decimal <= ORACLE_DECIMALS)
  <2> DEFINE down == pow10[decimal - ORACLE_DECIMALS]
             ten == pow10[ORACLE_DECIMALS]
  <2>1. decimal - ORACLE_DECIMALS \in Nat /\ (decimal - ORACLE_DECIMALS) + ORACLE_DECIMALS = decimal
    BY <1>1, <1>3
  <2>2. down \in Nat \ {0} /\ pow10[decimal] = down * ten
    BY <1>1, <2>1, Pow10Type, Pow10Sum
  <2>3. price = answer \div down
    BY <1>3 DEF Normalise
  <2>4. ten \in Nat \ {0}
    BY <1>1
  <2> HIDE DEF down, ten
  <2>5. price \in Nat /\ price * down <= answer /\ answer < (price + 1) * down
    BY <2>2, <2>3, DivFacts
  <2>6. (price * down) * ten <= answer * ten /\ answer * ten < ((price + 1) * down) * ten
    BY <2>2, <2>4, <2>5
  <2>7. (price * down) * ten = price * (down * ten) /\ ((price + 1) * down) * ten = (price + 1) * (down * ten)
    BY <2>2, <2>4, <2>5
  <2>8. QED
    BY <2>2, <2>6, <2>7 DEF ten
<1>4. QED
  BY <1>2, <1>3

LEMMA FreshBound ==
    ASSUME BooksTyped, NEW time \in Nat, NEW limit \in Nat, Fresh(low_u64(time), limit), limit # 0
    PROVE now <= time + limit
<1>1. now \in Nat
  BY OracleAssumption DEF now, BooksTyped
<1>2. low_u64(time) \in Nat /\ low_u64(time) <= time
  BY OracleAssumption DEF low_u64
<1>3. now - low_u64(time) <= limit
  BY DEF Fresh
<1>4. QED
  BY <1>1, <1>2, <1>3

\* The price of a token is that of its contract and no older than allowed.
LEMMA QuotedFairly ==
    ASSUME IInv, WordsFit, NEW token \in Assets, NEW limit \in Nat,
           NEW price, price = get_token_price_via_registry(token, limit), price # None
    PROVE LET source == IF Oracles[token] = ZeroId
                        THEN feed[Aggregators[token].address][latestRoundData]
                        ELSE feed[OracleManagerContract][Oracles[token]]
              scale  == pow10[IF Oracles[token] = ZeroId THEN Aggregators[token].decimal
                              ELSE ORACLE_DECIMALS]
              quoted == source.value * pow10[ORACLE_DECIMALS]
          IN  /\ price * scale <= quoted
              /\ quoted < (price + 1) * scale
              /\ limit # 0 => now <= source.time + limit
<1>1. BooksTyped /\ PricesTyped
  BY DEF IInv
<1>2. CASE Oracles[token] = ZeroId
  <2> DEFINE source == feed[Aggregators[token].address][latestRoundData]
             decimal == Aggregators[token].decimal
  <2>1. price = get_aggregator_price_from_registry(token, limit)
    BY <1>1, <1>2, TokenPriceType
  <2>2. /\ Aggregators[token] \in [address : Contracts, decimal : Nat]
        /\ Aggregators[token] # None
        /\ source \in [value : Nat, time : Nat] /\ source # None
        /\ price = Normalise(source.value, decimal)
        /\ Fresh(low_u64(source.time), limit)
    BY <1>1, <2>1, AggregatorPriceType
  <2>3. decimal <= ORACLE_DECIMALS => source.value * pow10[ORACLE_DECIMALS - decimal] < U256SIZE
    BY <2>2 DEF WordsFit
  <2>4. decimal \in Nat /\ source.value \in Nat /\ source.time \in Nat
    BY <2>2
  <2> HIDE DEF source, decimal
  <2>5. /\ price * pow10[decimal] <= source.value * pow10[ORACLE_DECIMALS]
        /\ source.value * pow10[ORACLE_DECIMALS] < (price + 1) * pow10[decimal]
    BY <2>2, <2>3, <2>4, NormalisedFairly
  <2>6. limit # 0 => now <= source.time + limit
    BY <1>1, <2>2, <2>4, FreshBound
  <2>7. QED
    BY <1>2, <2>5, <2>6 DEF source, decimal
<1>3. CASE Oracles[token] # ZeroId
  <2> DEFINE source == feed[OracleManagerContract][Oracles[token]]
             ten == pow10[ORACLE_DECIMALS]
  <2>1. /\ Oracles[token] \in OracleIds
        /\ price = get_oracle_price_from_registry(Oracles[token], limit)
    BY <1>1, <1>3, TokenPriceType
  <2>2. /\ source \in [value : Nat, time : Nat]
        /\ price = source.value
        /\ Fresh(low_u64(source.time), limit)
    BY <1>1, <2>1, OraclePriceType
  <2>3. source.value \in Nat /\ source.time \in Nat
    BY <2>2
  <2>4. ten \in Nat \ {0}
    BY Pow10Type, OracleAssumption
  <2> HIDE DEF source, ten
  <2>5. /\ price * ten <= source.value * ten
        /\ source.value * ten < (price + 1) * ten
    BY <2>2, <2>3, <2>4
  <2>6. limit # 0 => now <= source.time + limit
    BY <1>1, <2>2, <2>3, FreshBound
  <2>7. QED
    BY <1>3, <2>5, <2>6 DEF source, ten
<1>4. QED
  BY <1>2, <1>3

\* A fee in tokens is worth the fee of the receipt at prices that are those of
\* the contracts, as long as no product reaches the end of the words
\* (convert_native_to_token_with_prices, correct_erc20_fee, oracle.rs).
THEOREM PriceSafety == Spec /\ []WordsFit => PricedFairly
<1> DEFINE Fair == TxStep /\ InToken =>
       LET t      == Payment.token
           config == AcceptedFeeTokens[t]
           worth  == receipt'.fee * Payment.native_price * pow10[config.decimals]
           unit   == Payment.token_price * pow10[ORACLE_DECIMALS]
           source == IF Oracles[t] = ZeroId THEN feed[Aggregators[t].address][latestRoundData]
                     ELSE feed[OracleManagerContract][Oracles[t]]
           scale  == pow10[IF Oracles[t] = ZeroId THEN Aggregators[t].decimal ELSE ORACLE_DECIMALS]
           quoted == source.value * pow10[ORACLE_DECIMALS]
       IN  /\ Payment.amount * unit <= worth
           /\ worth < (Payment.amount + 2) * unit
           /\ Payment.token_price * scale <= quoted
           /\ quoted < (Payment.token_price + 1) * scale
           /\ config.max_staleness_seconds # 0 =>
                now <= source.time + config.max_staleness_seconds
<1>1. ASSUME IInv, WordsFit, Next PROVE Fair
  <2> SUFFICES ASSUME TxStep, InToken PROVE Fair
    OBVIOUS
  <2>1. PICK tx \in pool : Outcome(tx)
    BY <1>1, OnlyTransact
  <2>2. /\ tx \in Transactions /\ receipt'.fee \in Nat /\ receipt'.fee <= FeeOf(tx)
        /\ FeeOf(tx) \in Nat /\ ~PaidOtherwise
    BY <2>1 DEF Outcome, PaidOtherwise
  <2>3. PICK token \in Assets, kept \in Nat, tip \in Nat, bal \in Balances, b1 \in Balances :
          \E c : PaidInToken(tx, token, c, kept, tip, bal, b1)
    BY <2>1, <2>2 DEF Outcome
  <2>3a. PICK c : PaidInToken(tx, token, c, kept, tip, bal, b1)
    BY <2>3
  <2>4. /\ c = convert_native_to_token_with_prices(FeeOf(tx), token) /\ c # None
        /\ c.amount \in Nat /\ FeeOf(tx) > 0
        /\ c.amount * receipt'.fee < U256SIZE => kept = (c.amount * receipt'.fee) \div FeeOf(tx)
        /\ Payment = PaymentOf(token, kept, receipt'.fee, c)
    BY <2>3a DEF PaidInToken
  <2>5. /\ Payment.token = token /\ Payment.amount = kept
        /\ Payment.token_price = c.token_price /\ Payment.native_price = c.native_price
    BY <2>4 DEF PaymentOf
  <2> DEFINE config == AcceptedFeeTokens[token]
             digits == pow10[config.decimals]
             ten == pow10[ORACLE_DECIMALS]
             fee == FeeOf(tx)
             used == receipt'.fee
             tp == c.token_price
             np == c.native_price
  <2>6. PricesTyped
    BY <1>1 DEF IInv
  <2>7. Worth(fee, token, c)
    BY <2>2, <2>4, <2>6, Converted
  <2>8. /\ config # None /\ config.decimals \in Nat /\ config.max_staleness_seconds \in Nat
        /\ np \in Nat \ {0} /\ tp \in Nat \ {0}
        /\ tp = get_token_price_via_registry(token, config.max_staleness_seconds) /\ tp # None
        /\ c.amount = ((fee * np * digits) \div tp) \div ten
    BY <2>7 DEF Worth, WellTyped
  <2>9. digits \in Nat \ {0} /\ ten \in Nat \ {0}
    BY <2>8, Pow10Type, OracleAssumption
  <2>10. c.amount * used < U256SIZE
    <3>1. tx.limit \in GasLimits /\ tx.tip \in Tips
      BY <2>2 DEF Transactions
    <3>2. c.amount * fee < U256SIZE
      BY <1>1, <2>4, <3>1 DEF WordsFit, FeeOf
    <3>3. c.amount * used <= c.amount * fee
      BY <2>2, <2>4
    <3>4. c.amount * used \in Nat /\ c.amount * fee \in Nat
      BY <2>2, <2>4
    <3>5. QED
      BY <3>2, <3>3, <3>4, OracleAssumption
  <2>11. kept = (c.amount * used) \div fee
    BY <2>4, <2>10
  <2>12. fee \in Nat \ {0} /\ used \in Nat /\ used <= fee
    BY <2>2, <2>4
  <2> HIDE DEF fee, used, tp, np, digits, ten, config
  <2>13. /\ kept * (tp * ten) <= used * np * digits
         /\ used * np * digits < (kept + 2) * (tp * ten)
    <3> DEFINE k == np * digits
               unit == tp * ten
    <3>1. k \in Nat /\ unit \in Nat \ {0} /\ fee * k \in Nat
      BY <2>8, <2>9, <2>12
    <3>2. fee * np * digits = fee * k /\ used * np * digits = used * k
      BY <2>8, <2>9, <2>12
    <3>3. c.amount * unit <= fee * k /\ fee * k < (c.amount + 1) * unit
      BY <2>8, <2>9, <3>1, <3>2, TwoDivisions
    <3> HIDE DEF k, unit
    <3>4. kept * unit <= used * k /\ used * k < (kept + 2) * unit
      <4>1. Scales(fee, used, k, unit, c.amount, kept)
        BY <2>4, <2>11, <2>12, <3>1, <3>3 DEF Scales
      <4>2. QED
        BY <4>1, ScaledFairly
    <3>5. QED
      BY <3>2, <3>4 DEF unit
  <2>14. LET source == IF Oracles[token] = ZeroId
                       THEN feed[Aggregators[token].address][latestRoundData]
                       ELSE feed[OracleManagerContract][Oracles[token]]
             scale  == pow10[IF Oracles[token] = ZeroId THEN Aggregators[token].decimal
                             ELSE ORACLE_DECIMALS]
             quoted == source.value * pow10[ORACLE_DECIMALS]
         IN  /\ tp * scale <= quoted
             /\ quoted < (tp + 1) * scale
             /\ config.max_staleness_seconds # 0 =>
                  now <= source.time + config.max_staleness_seconds
    BY <1>1, <2>8, QuotedFairly
  <2>15. QED
    BY <2>5, <2>13, <2>14 DEF fee, used, tp, np, digits, ten, config
<1>2. IInv /\ WordsFit /\ [Next]_vars => [Fair]_vars
  BY <1>1
<1>3. PricedFairly <=> [][Fair]_vars
  BY DEF PricedFairly
<1>4. QED
  BY <1>2, <1>3, Inductive, PTL DEF Spec

=============================================================================
