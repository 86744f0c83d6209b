-------------------------- MODULE EvmTxPaymentSteps --------------------------
(***************************************************************************)
(* What a transaction does to the books in EvmTxPayment, for any number of *)
(* users, tokens and oracles, any fees, prices and decimals: the inductive *)
(* invariant, the prices, and the callbacks of the fee adapter one by one. *)
(***************************************************************************)
EXTENDS EvmTxPayment, Arithmetic, TLAPS

-----------------------------------------------------------------------------
(* pow10 has the recursion of the powers of ten. *)
LEMMA Pow10 == IsTenPowers(pow10)
<1>1. pow10 = CHOOSE f : f = [n \in Nat |-> IF n = 0 THEN 1 ELSE 10 * f[n - 1]]
  BY DEF pow10
<1>2. QED
  BY <1>1, TenPowers

LEMMA Pow10Type == ASSUME NEW n \in Nat PROVE pow10[n] \in Nat \ {0}
BY Pow10, TenPowersType

LEMMA Pow10Sum ==
    ASSUME NEW m \in Nat, NEW n \in Nat
    PROVE pow10[m + n] = pow10[m] * pow10[n]
BY Pow10, TenPowersSum

-----------------------------------------------------------------------------
(* The inductive invariant: types, and no payment is on record for a        *)
(* transaction of the block that is yet to come.                            *)
BooksTyped ==
  /\ block \in Nat /\ CurrentTxIndex \in Nat
  /\ native \in [Accounts -> Nat]
  /\ tokens \in Balances
  /\ UserFeeToken \in [Users -> Assets \cup {None}]
  /\ LastFeeTokenUpdate \in [Users -> Nat \cup {None}]
  /\ pool \subseteq Transactions

PricesTyped ==
  /\ DOMAIN AcceptedFeeTokens = Assets
  /\ \A t \in Assets : AcceptedFeeTokens[t] # None => WellTyped(AcceptedFeeTokens[t])
  /\ Oracles \in [Assets \cup Chains -> OracleIds \cup {ZeroId, None}]
  /\ Aggregators \in [Assets -> [address : Contracts, decimal : Nat] \cup {None}]
  /\ OracleManagerContract \in Contracts \cup {None}
  /\ feed \in [Contracts -> [Queries -> [value : Nat, time : Nat] \cup {None}]]

RecordsOld ==
  \A u \in Users, i \in Nat : <<u, i>> \in DOMAIN PendingFeePayments => i < CurrentTxIndex

IInv == BooksTyped /\ PricesTyped /\ RecordsOld

\* No fee and no price in its decimals comes near the end of the words: the
\* product of correct_erc20_fee does not overflow, that of
\* get_aggregator_price_from_registry does not saturate.
WordsFit ==
  \A t \in Assets :
    /\ \A limit \in GasLimits, tip \in Tips :
         LET fee == limit * (BaseFee + tip)
             c   == convert_native_to_token_with_prices(fee, t)
         IN  c # None => c.amount * fee < U256SIZE
    /\ Aggregators[t] # None =>
         LET answer == feed[Aggregators[t].address][latestRoundData]
         IN  answer # None /\ Aggregators[t].decimal <= ORACLE_DECIMALS =>
               answer.value * pow10[ORACLE_DECIMALS - Aggregators[t].decimal] < U256SIZE

-----------------------------------------------------------------------------
(* Transfers. *)
Moves(bal, new, token, from, to, amount) ==
  \A t \in Assets, h \in Holders :
    new[t][h] = IF t # token THEN bal[t][h]
                ELSE IF h = from THEN bal[t][h] - amount
                ELSE IF h = to THEN bal[t][h] + amount
                ELSE bal[t][h]

\* What transfer_from_user and transfer_to_user promise: the balances after the
\* whole amount moved, or a failure the token contract has a reason for.
Transferred(new, bal, stopped, token, from, to, amount) ==
  \/ /\ new = None /\ amount > 0
     /\ token \in stopped \/ bal[token][from] < amount
  \/ /\ new # None /\ new \in Balances
     /\ Moves(bal, new, token, from, to, amount)

LEMMA Transfer ==
    ASSUME NEW bal \in Balances, NEW stopped, NEW token \in Assets,
           NEW from \in Holders, NEW to \in Holders, from # to, NEW amount \in Nat
    PROVE Transferred(transfer(bal, stopped, token, from, to, amount),
                      bal, stopped, token, from, to, amount)
<1> DEFINE new == transfer(bal, stopped, token, from, to, amount)
<1> SUFFICES \/ /\ new = None /\ amount > 0
                /\ token \in stopped \/ bal[token][from] < amount
             \/ /\ new # None /\ new \in Balances
                /\ Moves(bal, new, token, from, to, amount)
  BY DEF Transferred
<1>1. bal[token] \in [Holders -> Nat] /\ bal[token][from] \in Nat /\ bal[token][to] \in Nat
  BY DEF Balances
<1>2. CASE amount = 0
  <2>1. new = bal
    BY <1>2 DEF transfer
  <2>2. Moves(bal, bal, token, from, to, amount)
    BY <1>2 DEF Moves, Balances
  <2>3. QED
    BY <1>2, <2>1, <2>2, GenesisAssumption
<1>3. CASE amount > 0 /\ (token \in stopped \/ bal[token][from] < amount)
  <2>1. CallTransfer(bal, stopped, token, from, to, amount).value \in {"false", "reverted"}
    BY <1>3 DEF CallTransfer
  <2>2. new = None
    BY <1>3, <2>1 DEF transfer, check_bool_return
  <2>3. QED
    BY <1>3, <2>2
<1>4. CASE amount > 0 /\ token \notin stopped /\ bal[token][from] >= amount
  <2> DEFINE moved == [bal EXCEPT ![token][from] = @ - amount, ![token][to] = @ + amount]
  <2>1. ~(token \in stopped \/ bal[token][from] < amount)
    BY <1>1, <1>4
  <2>2. CallTransfer(bal, stopped, token, from, to, amount) =
          [value |-> IF token \in SilentTokens THEN "empty" ELSE "true", bal |-> moved]
    BY <2>1 DEF CallTransfer
  <2>3. new = moved
    BY <1>4, <2>2 DEF transfer, check_bool_return
  <2>4. moved \in Balances
    BY <1>1, <1>4 DEF Balances
  <2>5. Moves(bal, moved, token, from, to, amount)
    BY <1>1, <1>4 DEF Moves, Balances
  <2> HIDE DEF moved
  <2>6. QED
    BY <1>4, <2>3, <2>4, <2>5, GenesisAssumption
<1>5. QED
  BY <1>1, <1>2, <1>3, <1>4
-----------------------------------------------------------------------------
(* Prices and conversions. *)
LEMMA OraclePriceType ==
    ASSUME PricesTyped, NEW id \in OracleIds \cup {ZeroId}, NEW limit \in Nat,
           NEW price, price = get_oracle_price_from_registry(id, limit), price # None
    PROVE /\ OracleManagerContract \in Contracts
          /\ feed[OracleManagerContract][id] \in [value : Nat, time : Nat]
          /\ price = feed[OracleManagerContract][id].value /\ price \in Nat \ {0}
          /\ Fresh(low_u64(feed[OracleManagerContract][id].time), limit)
<1>1. OracleManagerContract \in Contracts
  BY DEF get_oracle_price_from_registry, get_latest_oracle_info, PricesTyped
<1>2. id \in Queries
  BY DEF Queries
<1>3. feed[OracleManagerContract][id] \in [value : Nat, time : Nat] \cup {None}
  BY <1>1, <1>2 DEF PricesTyped
<1>4. OracleManagerContract # None
  BY <1>1, OracleAssumption
<1>5. feed[OracleManagerContract][id] # None
  BY DEF get_oracle_price_from_registry, get_latest_oracle_info, decode_oracle_info
<1>6. get_latest_oracle_info(id) = [data |-> feed[OracleManagerContract][id].value,
                                    time |-> low_u64(feed[OracleManagerContract][id].time)]
  BY <1>4, <1>5 DEF get_latest_oracle_info, decode_oracle_info
<1>7. QED
  BY <1>1, <1>3, <1>5, <1>6 DEF get_oracle_price_from_registry

LEMMA NormaliseType ==
    ASSUME NEW answer \in Nat, NEW decimal \in Nat
    PROVE Normalise(answer, decimal) \in Nat
<1>1. CASE decimal <= ORACLE_DECIMALS
  <2>1. ORACLE_DECIMALS - decimal \in Nat
    BY <1>1, OracleAssumption
  <2>2. pow10[ORACLE_DECIMALS - decimal] \in Nat
    BY <2>1, Pow10Type
  <2>3. answer * pow10[ORACLE_DECIMALS - decimal] \in Nat
    BY <2>2
  <2>4. U256SIZE - 1 \in Nat
    BY OracleAssumption
  <2>5. QED
    BY <1>1, <2>3, <2>4 DEF Normalise, saturating_mul
<1>2. CASE ~(decimal <= ORACLE_DECIMALS)
  <2>1. decimal - ORACLE_DECIMALS \in Nat
    BY <1>2, OracleAssumption
  <2>2. pow10[decimal - ORACLE_DECIMALS] \in Nat \ {0}
    BY <2>1, Pow10Type
  <2>3. answer \div pow10[decimal - ORACLE_DECIMALS] \in Nat
    BY <2>2, DivFacts
  <2>4. QED
    BY <1>2, <2>3 DEF Normalise
<1>3. QED
  BY <1>1, <1>2

LEMMA AggregatorPriceType ==
    ASSUME PricesTyped, NEW token \in Assets, NEW limit \in Nat,
           NEW price, price = get_aggregator_price_from_registry(token, limit), price # None
    PROVE /\ Aggregators[token] \in [address : Contracts, decimal : Nat]
          /\ Aggregators[token] # None
          /\ feed[Aggregators[token].address][latestRoundData] \in [value : Nat, time : Nat]
          /\ feed[Aggregators[token].address][latestRoundData] # None
          /\ price = Normalise(feed[Aggregators[token].address][latestRoundData].value,
                               Aggregators[token].decimal)
          /\ price \in Nat \ {0}
          /\ Fresh(low_u64(feed[Aggregators[token].address][latestRoundData].time), limit)
<1> DEFINE answer == feed[Aggregators[token].address][latestRoundData]
<1>1. Aggregators[token] # None
  BY DEF get_aggregator_price_from_registry, get_aggregator_info
<1>2. Aggregators[token] \in [address : Contracts, decimal : Nat]
  BY <1>1 DEF PricesTyped
<1>3. latestRoundData \in Queries
  BY DEF Queries
<1>4. answer \in [value : Nat, time : Nat] \cup {None}
  BY <1>2, <1>3 DEF PricesTyped
<1>5. answer # None
  BY <1>1 DEF get_aggregator_price_from_registry, get_latest_round_data, decode_round_data
<1>6. get_latest_round_data(token) = [answer |-> answer.value, updated_at |-> answer.time]
  BY <1>1, <1>5 DEF get_latest_round_data, decode_round_data
<1>7. /\ price = Normalise(answer.value, Aggregators[token].decimal)
      /\ price # 0
      /\ Fresh(low_u64(answer.time), limit)
  <2> DEFINE data == get_latest_round_data(token)
             rate == Normalise(data.answer, Aggregators[token].decimal)
  <2>1. price = IF Aggregators[token] = None \/ data = None THEN None
                ELSE IF \/ data.answer = 0
                        \/ Negative(data.answer)
                        \/ rate = 0
                        \/ ~Fresh(low_u64(data.updated_at), limit)
                     THEN None ELSE rate
    BY DEF get_aggregator_price_from_registry, get_aggregator_info
  <2>2. data.answer = answer.value /\ data.updated_at = answer.time
    BY <1>6
  <2> HIDE DEF data
  <2>3. QED
    BY <2>1, <2>2
<1>8. price \in Nat
  BY <1>2, <1>4, <1>5, <1>7, NormaliseType
<1>9. QED
  BY <1>1, <1>2, <1>4, <1>5, <1>7, <1>8

LEMMA TokenPriceType ==
    ASSUME PricesTyped, NEW token \in Assets, NEW limit \in Nat,
           NEW price, price = get_token_price_via_registry(token, limit), price # None
    PROVE /\ price \in Nat \ {0}
          /\ Oracles[token] = ZeroId => price = get_aggregator_price_from_registry(token, limit)
          /\ Oracles[token] # ZeroId => /\ Oracles[token] \in OracleIds
                                        /\ price = get_oracle_price_from_registry(Oracles[token], limit)
<1>1. Oracles[token] \in OracleIds \cup {ZeroId, None} /\ Oracles[token] # None
  BY DEF get_token_price_via_registry, get_asset_oracle, get_oracle, PricesTyped
<1>2. CASE Oracles[token] = ZeroId
  <2>1. price = get_aggregator_price_from_registry(token, limit)
    BY <1>1, <1>2 DEF get_token_price_via_registry, get_asset_oracle, get_oracle
  <2>2. QED
    BY <1>2, <2>1, AggregatorPriceType
<1>3. CASE Oracles[token] # ZeroId
  <2>1. price = get_oracle_price_from_registry(Oracles[token], limit)
    BY <1>1, <1>3 DEF get_token_price_via_registry, get_asset_oracle, get_oracle
  <2>2. Oracles[token] \in OracleIds
    BY <1>1, <1>3
  <2>3. price \in Nat \ {0}
    BY <2>1, <2>2, OraclePriceType
  <2>4. QED
    BY <1>3, <2>1, <2>2, <2>3
<1>4. QED
  BY <1>2, <1>3

LEMMA NativePriceType ==
    ASSUME PricesTyped, get_bfc_usd_price # None
    PROVE get_bfc_usd_price \in Nat \ {0}
<1> DEFINE id == get_native_currency_oracle(NativeChainId)
<1>1. id = Oracles[NativeChainId]
  BY DEF get_native_currency_oracle, get_oracle
<1>2. id # None
  BY DEF get_bfc_usd_price, is_erc20_fee_enabled
<1>3. id \in OracleIds \cup {ZeroId}
  BY <1>1, <1>2, PaymentAssumption DEF PricesTyped
<1>4. get_bfc_usd_price = get_oracle_price_from_registry(id, 0)
  BY <1>2 DEF get_bfc_usd_price, is_erc20_fee_enabled
<1> HIDE DEF id
<1>5. QED
  BY <1>3, <1>4, OraclePriceType

\* A fee convert_native_to_token_with_prices converts.
Worth(fee, token, c) ==
  LET config == AcceptedFeeTokens[token]
  IN  /\ config # None
      /\ WellTyped(config)
      /\ c.native_price \in Nat \ {0} /\ c.token_price \in Nat \ {0} /\ c.amount \in Nat
      /\ c.token_price = get_token_price_via_registry(token, config.max_staleness_seconds)
      /\ c.token_price # None
      /\ c.amount = ((fee * c.native_price * pow10[config.decimals]) \div c.token_price)
                      \div pow10[ORACLE_DECIMALS]

LEMMA Converted ==
    ASSUME PricesTyped, NEW token \in Assets, NEW fee \in Nat,
           NEW c, c = convert_native_to_token_with_prices(fee, token), c # None
    PROVE /\ c = [amount |-> c.amount, token_price |-> c.token_price, native_price |-> c.native_price]
          /\ Worth(fee, token, c)
<1> DEFINE config == AcceptedFeeTokens[token]
           native_price == get_bfc_usd_price
           token_price == get_token_price_via_registry(token, config.max_staleness_seconds)
           amount == checked_div(
                       checked_div(
                         checked_mul(checked_mul(fee, native_price), pow10[config.decimals]),
                         token_price),
                       pow10[ORACLE_DECIMALS])
<1>1. config # None
  BY DEF convert_native_to_token_with_prices, is_token_accepted
<1>2. WellTyped(config)
  BY <1>1 DEF PricesTyped
<1>3. native_price # None /\ token_price # None /\ amount # None
  BY DEF convert_native_to_token_with_prices
<1>4. c = [amount |-> amount, token_price |-> token_price, native_price |-> native_price]
  BY <1>3 DEF convert_native_to_token_with_prices
<1>5. native_price \in Nat \ {0}
  BY <1>3, NativePriceType
<1>6. token_price \in Nat \ {0}
  BY <1>2, <1>3, TokenPriceType DEF WellTyped
<1>7. pow10[config.decimals] \in Nat \ {0} /\ pow10[ORACLE_DECIMALS] \in Nat \ {0}
  BY <1>2, Pow10Type, OracleAssumption DEF WellTyped
<1>8. amount = ((fee * native_price * pow10[config.decimals]) \div token_price)
                  \div pow10[ORACLE_DECIMALS]
  <2> HIDE DEF native_price, token_price, config
  <2>1. QED
    BY <1>3, OracleAssumption DEF checked_div, checked_mul
<1>9. amount \in Nat
  <2> HIDE DEF native_price, token_price, config
  <2> DEFINE digits == pow10[config.decimals]
  <2>0. digits \in Nat
    BY <1>7
  <2>1. fee * native_price * pow10[config.decimals] \in Nat
    <3> HIDE DEF digits
    <3>1. fee * native_price \in Nat
      BY <1>5
    <3>2. fee * native_price * digits \in Nat
      BY <2>0, <3>1
    <3>3. QED
      BY <3>2 DEF digits
  <2>2. (fee * native_price * pow10[config.decimals]) \div token_price \in Nat
    BY <1>6, <2>1, DivFacts
  <2>3. QED
    BY <1>7, <1>8, <2>2, DivFacts
<1>10. QED
  <2> HIDE DEF native_price, amount
  <2>1. c.amount = amount /\ c.token_price = token_price /\ c.native_price = native_price
    BY <1>4
  <2>2. QED
    BY <1>1, <1>2, <1>3, <1>4, <1>5, <1>6, <1>8, <1>9, <2>1 DEF Worth

-----------------------------------------------------------------------------
(* The callbacks of the fee adapter on an explicit ledger. *)
Ledger(n, i, b, p, x) == [native |-> n, issuance |-> i, tokens |-> b, pending |-> p, info |-> x]

LEMMA LedgerFields ==
    ASSUME NEW n, NEW i, NEW b, NEW p, NEW x
    PROVE /\ Ledger(n, i, b, p, x).native = n /\ Ledger(n, i, b, p, x).tokens = b
          /\ Ledger(n, i, b, p, x).pending = p
BY DEF Ledger

Nothing == [kind |-> "None"]
InNative(paid) == [kind |-> "Native", paid |-> paid]

InTokens(token, c, fee) ==
  [kind |-> "ERC20Withdrawn", token |-> token, amount |-> c.amount, native_equivalent |-> fee,
   token_price |-> c.token_price, native_price |-> c.native_price]

LEMMA InTokensFields ==
    ASSUME NEW token, NEW c, NEW fee, NEW x, x = InTokens(token, c, fee)
    PROVE /\ x.kind = "ERC20Withdrawn" /\ x.amount = c.amount
          /\ x.native_equivalent = fee /\ x.token = token
          /\ x.token_price = c.token_price /\ x.native_price = c.native_price
BY DEF InTokens

PaymentOf(token, amount, fee, c) ==
  [token |-> token, amount |-> amount, native_equivalent |-> fee,
   token_price |-> c.token_price, native_price |-> c.native_price]

\* The three outcomes of withdraw_fee for a transaction that can pay.
PaysNothing(start, taken, fee) == fee = 0 /\ taken = start

PaysNative(start, taken, who, fee) ==
  /\ fee > 0 /\ start.native[who] >= fee
  /\ taken = Ledger([start.native EXCEPT ![who] = start.native[who] - fee], start.issuance,
                    start.tokens, start.pending, InNative(fee))

PaysTokens(start, taken, who, index, fee) ==
  \E token \in Assets : \E c, bal :
    /\ fee > 0
    /\ c = convert_native_to_token_with_prices(fee, token) /\ c # None
    /\ bal = transfer(start.tokens, paused, token, who, Collector, c.amount) /\ bal # None
    /\ taken = Ledger(start.native, start.issuance, bal,
                      Insert(start.pending, <<who, index>>, PaymentOf(token, c.amount, fee, c)),
                      InTokens(token, c, fee))

LEMMA Withdrawn ==
    ASSUME BooksTyped, NEW i, NEW p, NEW who \in Users, NEW fee \in Nat, NEW index \in Nat,
           NEW start, start = Ledger(native, i, tokens, p, Nothing),
           NEW taken, taken = withdraw_fee(start, who, fee, index), taken # None
    PROVE \/ PaysNothing(start, taken, fee)
          \/ PaysNative(start, taken, who, fee)
          \/ PaysTokens(start, taken, who, index, fee)
<1>1. who \in Accounts /\ native \in [Accounts -> Nat] /\ native[who] \in Nat
  BY PaymentAssumption DEF BooksTyped
<1>2. /\ start.native = native /\ start.issuance = i /\ start.tokens = tokens
      /\ start.pending = p
  BY DEF Ledger
<1>3. CASE fee = 0
  BY <1>3 DEF withdraw_fee, PaysNothing
<1>4. ASSUME fee > 0, taken = withdraw_native_fee(start, who, fee)
      PROVE PaysNative(start, taken, who, fee)
  <2> DEFINE left == Ledger([native EXCEPT ![who] = native[who] - fee], i, tokens, p, InNative(fee))
  <2>1. ~(native[who] < fee)
    BY <1>4 DEF withdraw_native_fee, Ledger
  <2>2. native[who] >= fee
    BY <1>1, <2>1
  <2>3. taken = left
    BY <1>1, <1>4, <2>1 DEF withdraw_native_fee, Ledger, InNative
  <2>4. QED
    BY <1>2, <1>4, <2>2, <2>3 DEF PaysNative
<1>5. ASSUME fee > 0, NEW token \in Assets, taken = withdraw_erc20_fee(start, who, fee, token, index)
      PROVE \/ PaysNative(start, taken, who, fee)
            \/ PaysTokens(start, taken, who, index, fee)
  <2> DEFINE c == convert_native_to_token_with_prices(fee, token)
             bal == execute_fee_transfer(start.tokens, who, token, c.amount)
  <2>1. CASE ~is_token_accepted(token) \/ c = None \/ bal = None
    <3>1. taken = withdraw_native_fee(start, who, fee)
      BY <1>5, <2>1 DEF withdraw_erc20_fee, fallback_to_native
    <3>2. QED
      BY <1>4, <1>5, <3>1
  <2>2. CASE is_token_accepted(token) /\ c # None /\ bal # None
    <3>1. taken = [start EXCEPT
                     !.tokens = bal,
                     !.pending = Insert(@, <<who, index>>, PaymentOf(token, c.amount, fee, c)),
                     !.info = InTokens(token, c, fee)]
      BY <1>5, <2>2 DEF withdraw_erc20_fee, PaymentOf, InTokens
    <3>2. bal = transfer(start.tokens, paused, token, who, Collector, c.amount)
      BY DEF execute_fee_transfer
    <3> HIDE DEF c, bal
    <3>3. taken = Ledger(native, i, bal,
                         Insert(p, <<who, index>>, PaymentOf(token, c.amount, fee, c)),
                         InTokens(token, c, fee))
      BY <3>1 DEF Ledger
    <3>4. c = convert_native_to_token_with_prices(fee, token)
      BY DEF c
    <3>5. QED
      BY <1>2, <1>5, <2>2, <3>2, <3>3, <3>4 DEF PaysTokens
  <2>3. QED
    BY <2>1, <2>2
<1>6. CASE fee > 0
  <2>1. CASE ~is_erc20_fee_enabled \/ UserFeeToken[who] = None
    <3>1. taken = withdraw_native_fee(start, who, fee)
      BY <1>6, <2>1 DEF withdraw_fee
    <3>2. QED
      BY <1>4, <1>6, <3>1
  <2>2. CASE is_erc20_fee_enabled /\ UserFeeToken[who] # None
    <3>1. taken = withdraw_erc20_fee(start, who, fee, UserFeeToken[who], index)
      BY <1>6, <2>2 DEF withdraw_fee
    <3>2. UserFeeToken[who] \in Assets
      BY <2>2 DEF BooksTyped
    <3>3. QED
      BY <1>5, <1>6, <3>1, <3>2
  <2>3. QED
    BY <2>1, <2>2
<1>7. QED
  BY <1>3, <1>6

Settled(L, stopped, who, index, corrected, base) ==
  pay_priority_fee(correct_and_deposit_fee(L, stopped, who, index, corrected, base), stopped)

LEMMA SettledNothing ==
    ASSUME NEW n, NEW i, NEW b, NEW p, NEW stopped, NEW who, NEW index, NEW corrected, NEW base,
           NEW L, L = Ledger(n, i, b, p, Nothing)
    PROVE Settled(L, stopped, who, index, corrected, base) = L
<1>1. L.info.kind = "None"
  BY DEF Ledger, Nothing
<1>2. QED
  BY <1>1 DEF Settled, correct_and_deposit_fee, pay_priority_fee

\* The books after the refund, the share of the treasury and the tip.
PaidInNative(done, n, b, p, who, fee, corrected) ==
  /\ done.tokens = b /\ done.pending = p
  /\ done.native \in [Accounts -> Nat]
  /\ \A u \in Users :
       u # Author => done.native[u] = n[u] + (IF u = who THEN fee - corrected ELSE 0)

LEMMA SettledNative ==
    ASSUME NEW n \in [Accounts -> Nat], NEW i, NEW b, NEW p, NEW stopped, NEW who \in Users,
           NEW index, NEW fee \in Nat, NEW corrected \in Nat, NEW base \in Nat,
           base <= corrected, corrected <= fee,
           NEW L, L = Ledger(n, i, b, p, InNative(fee)),
           NEW done, done = Settled(L, stopped, who, index, corrected, base)
    PROVE PaidInNative(done, n, b, p, who, fee, corrected)
<1> DEFINE burned == (base * 20) \div 100
           n1 == [n EXCEPT ![who] = n[who] + (fee - corrected)]
           n2 == [n1 EXCEPT ![Treasury] = n1[Treasury] + (base - burned)]
           n3 == [n2 EXCEPT ![Author] = n2[Author] + (corrected - base)]
<1>0. who \in Accounts /\ Treasury \in Accounts /\ Author \in Accounts /\ Users \subseteq Accounts
  BY PaymentAssumption
<1>1. burned \in Nat /\ burned <= base
  OBVIOUS
<1>2. fee - corrected \in Nat /\ corrected - base \in Nat /\ base - burned \in Nat
  BY <1>1
<1> HIDE DEF burned
<1>3. n1 \in [Accounts -> Nat]
  BY <1>0, <1>2
<1>4. n2 \in [Accounts -> Nat]
  <2> HIDE DEF n1
  <2>1. QED
    BY <1>0, <1>2, <1>3
<1>5. n3 \in [Accounts -> Nat]
  <2> HIDE DEF n2
  <2>1. QED
    BY <1>0, <1>2, <1>4
<1>6. correct_native_fee(L, who, corrected, base) =
        Ledger(n2, i - burned, b, p, InNative(corrected - base))
  <2>1. L.info.paid = fee
    BY DEF Ledger, InNative
  <2>2. SaturatingSub(fee, corrected) = fee - corrected /\ fee - (fee - corrected) = corrected
    BY DEF SaturatingSub
  <2>3. Least(corrected, base) = base
    BY DEF Least
  <2>4. [L EXCEPT !.native[who] = @ + (fee - corrected)] = Ledger(n1, i, b, p, InNative(fee))
    BY <1>0 DEF Ledger
  <2>5. on_unbalanced(Ledger(n1, i, b, p, InNative(fee)), base) =
          Ledger(n2, i - burned, b, p, InNative(fee))
    <3> HIDE DEF n1
    <3> DEFINE M == Ledger(n1, i, b, p, InNative(fee))
    <3>1. on_unbalanced(M, base) = [M EXCEPT !.native[Treasury] = @ + (base - burned),
                                             !.issuance = @ - burned]
      BY DEF on_unbalanced, burned
    <3>2. QED
      BY <1>0, <1>3, <3>1 DEF Ledger
  <2>6. correct_native_fee(L, who, corrected, base) =
          [on_unbalanced([L EXCEPT !.native[who] = @ + (fee - corrected)], base) EXCEPT
             !.info = [kind |-> "Native", paid |-> corrected - base]]
    BY <2>1, <2>2, <2>3 DEF correct_native_fee
  <2>7. correct_native_fee(L, who, corrected, base) =
          [Ledger(n2, i - burned, b, p, InNative(fee)) EXCEPT
             !.info = [kind |-> "Native", paid |-> corrected - base]]
    BY <2>4, <2>5, <2>6
  <2> HIDE DEF n2
  <2>8. QED
    BY <2>7 DEF Ledger, InNative
<1>7. done = Ledger(n3, i - burned, b, p, InNative(corrected - base))
  <2>1. L.info.kind = "Native"
    BY DEF Ledger, InNative
  <2>2. done = pay_priority_fee(Ledger(n2, i - burned, b, p, InNative(corrected - base)), stopped)
    BY <1>6, <2>1 DEF Settled, correct_and_deposit_fee
  <2> HIDE DEF n2
  <2>3. QED
    BY <2>2, <1>0, <1>4 DEF pay_priority_fee, Ledger, InNative
<1>8. ASSUME NEW u \in Users, u # Author
      PROVE n3[u] = n[u] + (IF u = who THEN fee - corrected ELSE 0)
  <2>1. u # Treasury /\ u \in Accounts
    BY <1>0, PaymentAssumption
  <2>2. n3[u] = n2[u]
    BY <1>0, <1>8, <2>1
  <2>3. n2[u] = n1[u]
    BY <1>0, <2>1
  <2>4. n1[u] = n[u] + (IF u = who THEN fee - corrected ELSE 0)
    BY <1>0, <2>1
  <2>5. QED
    BY <2>2, <2>3, <2>4
<1> HIDE DEF n3
<1>9. QED
  BY <1>5, <1>7, <1>8 DEF Ledger, PaidInNative

LEMMA TipFacts ==
    ASSUME NEW withdrawn, NEW actual \in Nat, NEW corrected \in Nat \ {0}, NEW base \in Nat,
           base <= corrected,
           NEW tip, tip = TipOf(withdrawn, actual, corrected, base)
    PROVE tip \in Nat /\ tip <= actual /\ actual * base < (actual - tip + 1) * corrected
<1>0. actual * base \in Nat /\ actual * base <= actual * corrected
  OBVIOUS
<1>1. CASE tip = 0
  BY <1>0, <1>1
<1>2. CASE tip # 0
  <2> DEFINE portion == (actual * base) \div corrected
  <2>1. actual * base < U256SIZE
    <3> SUFFICES ASSUME actual * base >= U256SIZE PROVE FALSE
      BY <1>0, OracleAssumption
    <3>1. actual # None /\ SaturatingSub(actual, actual) = 0
      BY OracleAssumption DEF SaturatingSub
    <3>2. checked_mul(actual, base) = None
      BY <3>1 DEF checked_mul
    <3>3. checked_div(checked_mul(actual, base), corrected) = None
      BY <3>2 DEF checked_div
    <3>4. QED
      BY <1>2, <3>1, <3>3 DEF TipOf
  <2>2. portion \in Nat /\ portion * corrected <= actual * base /\ actual * base < (portion + 1) * corrected
    BY <1>0, DivFacts
  <2>3. checked_mul(actual, base) = actual * base
    BY <1>0, <2>1, OracleAssumption DEF checked_mul
  <2>4. checked_div(checked_mul(actual, base), corrected) = portion
    BY <1>0, <2>3, OracleAssumption DEF checked_div
  <2>5. portion # None
    BY <2>2, OracleAssumption
  <2> HIDE DEF portion
  <2>6. tip = SaturatingSub(actual, portion)
    BY <1>2, <2>4, <2>5 DEF TipOf
  <2>7. portion <= actual /\ tip = actual - portion
    BY <1>2, <2>2, <2>6 DEF SaturatingSub
  <2>8. actual - tip = portion
    BY <2>2, <2>7
  <2>9. QED
    BY <2>2, <2>7, <2>8
<1>3. QED
  BY <1>1, <1>2

\* What correct_erc20_fee keeps of the tokens that were withdrawn.
LEMMA ActualFacts ==
    ASSUME NEW amount \in Nat, NEW fee \in Nat \ {0}, NEW corrected \in Nat, corrected <= fee,
           NEW scaled, scaled = checked_div(checked_mul(amount, corrected), fee),
           NEW actual, actual = IF scaled = None THEN amount ELSE scaled
    PROVE /\ actual \in Nat /\ actual <= amount
          /\ amount * corrected < U256SIZE => actual = (amount * corrected) \div fee
<1>1. amount * corrected \in Nat /\ amount * corrected <= amount * fee /\ amount # None
  BY OracleAssumption
<1>2. CASE amount * corrected < U256SIZE
  <2> DEFINE portion == (amount * corrected) \div fee
  <2>1. portion \in Nat /\ portion * fee <= amount * corrected
    BY <1>1, DivFacts
  <2>2. checked_mul(amount, corrected) = amount * corrected
    BY <1>1, <1>2, OracleAssumption DEF checked_mul
  <2>3. scaled = portion
    BY <1>1, <2>2, OracleAssumption DEF checked_div
  <2>4. portion # None
    BY <2>1, OracleAssumption
  <2> HIDE DEF portion
  <2>5. actual = portion
    BY <2>3, <2>4
  <2>6. portion * fee <= amount * fee
    BY <1>1, <2>1
  <2>7. portion <= amount
    BY <2>1, <2>6
  <2>8. QED
    BY <2>1, <2>5, <2>7 DEF portion
<1>3. CASE ~(amount * corrected < U256SIZE)
  <2>1. amount * corrected >= U256SIZE
    BY <1>1, <1>3, OracleAssumption
  <2>2. checked_mul(amount, corrected) = None
    BY <1>1, <2>1 DEF checked_mul
  <2>3. scaled = None
    BY <2>2 DEF checked_div
  <2>4. QED
    BY <1>3, <2>3
<1>4. QED
  BY <1>2, <1>3

\* The refund and the tip: what is kept, the share of the author, the books after
\* the refund (refused only by a token contract that is paused) and after the tip.
Refunded(b, b1, stopped, who, token, refund) ==
  \/ Moves(b, b1, token, Collector, who, refund)
  \/ b1 = b /\ token \in stopped /\ refund > 0

Tipped(b1, b2, token, tip) == b2 = b1 \/ Moves(b1, b2, token, Collector, Author, tip)

PaidInTokens(done, n, b, p, stopped, who, index, token, c, fee, corrected, base) ==
  \E actual \in Nat, tip \in Nat : \E b1 \in Balances, b2 \in Balances :
    /\ actual <= c.amount /\ tip <= actual
    /\ c.amount * corrected < U256SIZE => actual = (c.amount * corrected) \div fee
    /\ actual * base < (actual - tip + 1) * corrected
    /\ Refunded(b, b1, stopped, who, token, c.amount - actual)
    /\ Tipped(b1, b2, token, tip)
    /\ done.native = n /\ done.tokens = b2
    /\ done.pending = Insert(p, <<who, index>>, PaymentOf(token, actual, corrected, c))

LEMMA SettledTokens ==
    ASSUME NEW n, NEW i, NEW b \in Balances, NEW p, NEW stopped, NEW who \in Users,
           NEW index, NEW fee \in Nat \ {0}, NEW corrected \in Nat \ {0}, NEW base \in Nat,
           base <= corrected, corrected <= fee,
           NEW token \in Assets, NEW c, c.amount \in Nat, b[token][Collector] >= c.amount,
           NEW L, L = Ledger(n, i, b, p, InTokens(token, c, fee)),
           NEW done, done = Settled(L, stopped, who, index, corrected, base)
    PROVE PaidInTokens(done, n, b, p, stopped, who, index, token, c, fee, corrected, base)
<1> DEFINE scaled == checked_div(checked_mul(c.amount, corrected), fee)
           actual == IF scaled = None THEN c.amount ELSE scaled
           refunded == transfer(b, stopped, token, Collector, who, c.amount - actual)
           b1 == IF refunded = None THEN b ELSE refunded
           tip == TipOf(c.amount, actual, corrected, base)
           paid == transfer(b1, stopped, token, Collector, Author, tip)
           b2 == IF paid = None THEN b1 ELSE paid
           final == Insert(p, <<who, index>>, PaymentOf(token, actual, corrected, c))
           owed == [kind |-> "ERC20Tip", token |-> token, tip |-> tip]
<1>0. /\ Collector \in Holders /\ who \in Holders /\ Author \in Holders
      /\ Collector # who /\ Collector # Author
  BY PaymentAssumption DEF Holders
<1>1. /\ actual \in Nat /\ actual <= c.amount
      /\ c.amount * corrected < U256SIZE => actual = (c.amount * corrected) \div fee
  BY ActualFacts
<1>2. L.info = InTokens(token, c, fee) /\ L.tokens = b /\ L.pending = p
  BY DEF Ledger
<1>3. /\ L.info.kind = "ERC20Withdrawn" /\ L.info.amount = c.amount
      /\ L.info.native_equivalent = fee /\ L.info.token = token
      /\ L.info.token_price = c.token_price /\ L.info.native_price = c.native_price
  BY <1>2, InTokensFields
<1>4. SaturatingSub(c.amount, actual) = c.amount - actual /\ c.amount - actual \in Nat
  <2> DEFINE amount == c.amount
  <2>1. amount \in Nat /\ actual \in Nat /\ actual <= amount
    BY <1>1
  <2> HIDE DEF actual, amount
  <2>2. SaturatingSub(amount, actual) = amount - actual /\ amount - actual \in Nat
    BY <2>1 DEF SaturatingSub
  <2>3. QED
    BY <2>2 DEF amount
<1>5. correct_and_deposit_fee(L, stopped, who, index, corrected, base) = Ledger(n, i, b1, final, owed)
  <2>1. correct_and_deposit_fee(L, stopped, who, index, corrected, base)
          = correct_erc20_fee(L, stopped, who, index, corrected, base)
    BY <1>3 DEF correct_and_deposit_fee
  <2>2. correct_erc20_fee(L, stopped, who, index, corrected, base)
          = [L EXCEPT !.tokens = b1, !.pending = final, !.info = owed]
    <3> DEFINE t == L.info
               s0 == checked_div(checked_mul(t.amount, corrected), t.native_equivalent)
               a0 == IF s0 = None THEN t.amount ELSE s0
               r0 == refund_token(L.tokens, stopped, who, t.token, SaturatingSub(t.amount, a0))
    <3>1. t.native_equivalent # 0
      BY <1>3
    <3>2. correct_erc20_fee(L, stopped, who, index, corrected, base) =
            [L EXCEPT
               !.tokens = IF r0 = None THEN L.tokens ELSE r0,
               !.pending = Insert(@, <<who, index>>,
                                  [token |-> t.token, amount |-> a0,
                                   native_equivalent |-> corrected,
                                   token_price |-> t.token_price, native_price |-> t.native_price]),
               !.info = [kind |-> "ERC20Tip", token |-> t.token,
                         tip |-> TipOf(t.amount, a0, corrected, base)]]
      BY <3>1 DEF correct_erc20_fee
    <3>3. a0 = actual
      BY <1>3
    <3> HIDE DEF a0, actual
    <3>4. r0 = refunded
      BY <1>2, <1>3, <1>4, <3>3 DEF refund_token
    <3> HIDE DEF r0, refunded
    <3>5. /\ (IF r0 = None THEN L.tokens ELSE r0) = b1
          /\ TipOf(t.amount, a0, corrected, base) = tip
      BY <1>2, <1>3, <3>3, <3>4
    <3>6. [token |-> t.token, amount |-> a0, native_equivalent |-> corrected,
           token_price |-> t.token_price, native_price |-> t.native_price]
            = PaymentOf(token, actual, corrected, c)
      BY <1>3, <3>3 DEF PaymentOf
    <3>7. [kind |-> "ERC20Tip", token |-> t.token,
           tip |-> TipOf(t.amount, a0, corrected, base)] = owed
      BY <1>3, <3>5
    <3> HIDE DEF t, b1, tip, owed
    <3>8. QED
      BY <1>2, <3>2, <3>5, <3>6, <3>7
  <2> HIDE DEF b1, final, owed
  <2>3. QED
    BY <2>1, <2>2 DEF Ledger
<1>6. done = Ledger(n, i, b2, final, owed)
  <2>1. owed.kind = "ERC20Tip" /\ owed.token = token /\ owed.tip = tip
    OBVIOUS
  <2>2. done = pay_priority_fee(Ledger(n, i, b1, final, owed), stopped)
    BY <1>5 DEF Settled
  <2> HIDE DEF owed, b1, final, tip
  <2>3. QED
    BY <2>1, <2>2 DEF pay_priority_fee, Ledger
<1> HIDE DEF scaled, actual
<1>7. b1 \in Balances /\ Refunded(b, b1, stopped, who, token, c.amount - actual)
  <2>1. \/ /\ refunded = None /\ c.amount - actual > 0
           /\ token \in stopped \/ b[token][Collector] < c.amount - actual
        \/ /\ refunded # None /\ refunded \in Balances
           /\ Moves(b, refunded, token, Collector, who, c.amount - actual)
    <3>1. Transferred(refunded, b, stopped, token, Collector, who, c.amount - actual)
      BY <1>0, <1>4, Transfer
    <3> HIDE DEF refunded
    <3>2. QED
      BY <3>1 DEF Transferred
  <2>2. b[token][Collector] \in Nat
    BY <1>0 DEF Balances
  <2>3. ~(b[token][Collector] < c.amount - actual)
    BY <1>1, <2>2
  <2> HIDE DEF refunded
  <2>4. QED
    BY <2>1, <2>3 DEF Refunded
<1>8. tip \in Nat /\ tip <= actual /\ actual * base < (actual - tip + 1) * corrected
  BY <1>1, TipFacts
<1> HIDE DEF refunded, b1, tip
<1>9. b2 \in Balances /\ Tipped(b1, b2, token, tip)
  <2>1. \/ paid = None
        \/ paid # None /\ paid \in Balances /\ Moves(b1, paid, token, Collector, Author, tip)
    <3>1. b1 \in Balances /\ tip \in Nat
      BY <1>7, <1>8
    <3>2. Transferred(paid, b1, stopped, token, Collector, Author, tip)
      BY <1>0, <3>1, Transfer
    <3> HIDE DEF paid
    <3>3. QED
      BY <3>2 DEF Transferred
  <2> HIDE DEF paid
  <2>2. QED
    BY <1>7, <2>1 DEF Tipped
<1>10. done.native = n /\ done.tokens = b2 /\ done.pending = final
  <2> HIDE DEF b2, final, owed
  <2>1. QED
    BY <1>6, LedgerFields
<1> HIDE DEF b2
<1>11. QED
  BY <1>1, <1>7, <1>8, <1>9, <1>10 DEF PaidInTokens

-----------------------------------------------------------------------------
(* What a transaction of a block does to the books. *)
FeeOf(tx) == tx.limit * (BaseFee + tx.tip)

FreeStep == receipt'.fee = 0 /\ UNCHANGED <<native, tokens, PendingFeePayments>>

NativeStep ==
  /\ UNCHANGED <<tokens, PendingFeePayments>>
  /\ native' \in [Accounts -> Nat]
  /\ \A u \in Users :
       u # Author => native'[u] = native[u] - (IF u = receipt'.who THEN receipt'.fee ELSE 0)

PaidBy(tx, stopped, token, c, bal, done) ==
  /\ c = convert_native_to_token_with_prices(FeeOf(tx), token) /\ c # None
  /\ Moves(tokens, bal, token, tx.who, Collector, c.amount)
  /\ FeeOf(tx) > 0 /\ receipt'.fee > 0
  /\ PaidInTokens(done, native, bal, PendingFeePayments, stopped, tx.who, CurrentTxIndex,
                  token, c, FeeOf(tx), receipt'.fee, receipt'.base_fee)
  /\ native' = done.native /\ tokens' = done.tokens /\ PendingFeePayments' = done.pending

TokenStep(tx, stopped) ==
  \E token \in Assets, bal \in Balances : \E c, done : PaidBy(tx, stopped, token, c, bal, done)

LEMMA TransactFacts ==
    ASSUME IInv, NEW tx \in pool, NEW used \in 1 .. tx.limit, NEW ran, NEW stopped,
           transact(tx, used, ran, stopped)
    PROVE /\ tx \in Transactions /\ tx.who \in Users /\ receipt'.who = tx.who
          /\ receipt'.fee \in Nat /\ receipt'.base_fee \in Nat
          /\ receipt'.base_fee <= receipt'.fee /\ receipt'.fee <= FeeOf(tx) /\ FeeOf(tx) \in Nat
          /\ CurrentTxIndex' = CurrentTxIndex + 1 /\ paused' = stopped
          /\ FreeStep \/ NativeStep \/ TokenStep(tx, stopped)
<1> DEFINE price == IF is_feeless(tx.who, tx.call) THEN 0 ELSE BaseFee + tx.tip
           index == CurrentTxIndex
           start == Ledger(native, issuance, tokens, PendingFeePayments, Nothing)
           fee == tx.limit * price
           taken == withdraw_fee(start, tx.who, fee, index)
           corrected == used * price
           base == IF price = 0 THEN 0 ELSE used * BaseFee
           done == Settled(taken, stopped, tx.who, index, corrected, base)
<1>1. /\ taken # None
      /\ native' = done.native /\ tokens' = done.tokens
      /\ PendingFeePayments' = done.pending
      /\ CurrentTxIndex' = index + 1
      /\ paused' = stopped
      /\ receipt' = [who |-> tx.who, fee |-> corrected, base_fee |-> base]
  BY DEF transact, Settled, Ledger, Nothing
<1>2. /\ tx \in Transactions /\ tx.who \in Users /\ tx.limit \in Nat /\ tx.tip \in Nat
      /\ used \in Nat \ {0} /\ used <= tx.limit
  <2>1. tx \in Transactions
    BY DEF IInv, BooksTyped
  <2>2. tx.who \in Users /\ tx.limit \in GasLimits /\ tx.tip \in Tips
    BY <2>1 DEF Transactions
  <2>3. tx.limit \in Nat /\ tx.tip \in Nat
    BY <2>2, PaymentAssumption
  <2>4. QED
    BY <2>1, <2>2, <2>3
<1>3. BaseFee \in Nat \ {0} /\ BaseFee + tx.tip \in Nat \ {0} /\ BaseFee <= BaseFee + tx.tip
  BY <1>2, PaymentAssumption
<1>4. price \in Nat /\ (price = 0 \/ price = BaseFee + tx.tip)
  BY <1>3
<1> HIDE DEF price
<1>5. corrected \in Nat /\ base \in Nat /\ fee \in Nat /\ FeeOf(tx) \in Nat
  BY <1>2, <1>3, <1>4 DEF FeeOf
<1>6. corrected <= fee
  BY <1>2, <1>4
<1>7. base <= corrected
  <2>1. CASE price = 0
    BY <1>5, <2>1
  <2>2. CASE price # 0
    <3>1. used * BaseFee <= used * (BaseFee + tx.tip)
      BY <1>2, <1>3
    <3>2. QED
      BY <1>4, <2>2, <3>1
  <2>3. QED
    BY <2>1, <2>2
<1>8. fee <= FeeOf(tx) /\ (fee > 0 => fee = FeeOf(tx) /\ corrected > 0)
  <2>1. CASE price = 0
    BY <1>2, <1>5, <2>1
  <2>2. CASE price # 0
    <3>1. fee = FeeOf(tx)
      BY <1>4, <2>2 DEF FeeOf
    <3>2. corrected > 0
      BY <1>2, <1>4, <2>2
    <3>3. QED
      BY <1>5, <3>1, <3>2
  <2>3. QED
    BY <2>1, <2>2
<1>9. /\ receipt'.who = tx.who /\ receipt'.fee = corrected /\ receipt'.base_fee = base
  BY <1>1
<1>10. /\ start.native = native /\ start.issuance = issuance /\ start.tokens = tokens
       /\ start.pending = PendingFeePayments
  BY DEF Ledger
<1>11. index \in Nat /\ BooksTyped /\ PricesTyped
  BY DEF IInv, BooksTyped
<1> HIDE DEF start, fee, corrected, base, index
<1>12. \/ PaysNothing(start, taken, fee)
       \/ PaysNative(start, taken, tx.who, fee)
       \/ PaysTokens(start, taken, tx.who, index, fee)
  <2>1. start = Ledger(native, issuance, tokens, PendingFeePayments, Nothing)
    BY DEF start
  <2>2. QED
    BY <1>1, <1>2, <1>5, <1>11, <2>1, Withdrawn
<1>12a. /\ tx \in Transactions /\ tx.who \in Users /\ receipt'.who = tx.who
        /\ receipt'.fee \in Nat /\ receipt'.base_fee \in Nat
        /\ receipt'.base_fee <= receipt'.fee /\ receipt'.fee <= FeeOf(tx) /\ FeeOf(tx) \in Nat
        /\ CurrentTxIndex' = CurrentTxIndex + 1 /\ paused' = stopped
  <2>1. corrected <= FeeOf(tx)
    BY <1>5, <1>6, <1>8
  <2>2. /\ receipt'.fee \in Nat /\ receipt'.base_fee \in Nat
        /\ receipt'.base_fee <= receipt'.fee /\ receipt'.fee <= FeeOf(tx)
    BY <1>5, <1>7, <1>9, <2>1
  <2>3. CurrentTxIndex' = CurrentTxIndex + 1 /\ paused' = stopped
    BY <1>1 DEF index
  <2>4. QED
    BY <1>2, <1>5, <1>9, <2>2, <2>3
<1> HIDE DEF taken
<1>13. CASE PaysNothing(start, taken, fee)
  <2>1. fee = 0 /\ taken = start
    BY <1>13 DEF PaysNothing
  <2>2. done = start
    BY <2>1, SettledNothing DEF start
  <2>3. corrected = 0
    BY <1>5, <1>6, <2>1
  <2>4. FreeStep
    BY <1>1, <1>9, <1>10, <2>2, <2>3 DEF FreeStep
  <2>5. QED
    BY <1>12a, <2>4
<1>14. CASE PaysNative(start, taken, tx.who, fee)
  <2> DEFINE n == [native EXCEPT ![tx.who] = native[tx.who] - fee]
  <2>1. /\ native[tx.who] >= fee
        /\ taken = Ledger(n, issuance, tokens, PendingFeePayments, InNative(fee))
    BY <1>10, <1>14 DEF PaysNative
  <2>2. native \in [Accounts -> Nat] /\ tx.who \in Accounts /\ Users \subseteq Accounts
    BY <1>2, <1>11, PaymentAssumption DEF BooksTyped
  <2>3. n \in [Accounts -> Nat]
    BY <1>5, <2>1, <2>2
  <2>4. \A u \in Users : n[u] = native[u] - (IF u = tx.who THEN fee ELSE 0)
    BY <2>2
  <2> HIDE DEF n
  <2>5. PaidInNative(done, n, tokens, PendingFeePayments, tx.who, fee, corrected)
    <3>1. /\ tx.who \in Users /\ fee \in Nat /\ corrected \in Nat /\ base \in Nat
          /\ base <= corrected /\ corrected <= fee
      BY <1>2, <1>5, <1>6, <1>7
    <3>2. taken = Ledger(n, issuance, tokens, PendingFeePayments, InNative(fee))
      BY <2>1
    <3>3. done = Settled(taken, stopped, tx.who, index, corrected, base)
      OBVIOUS
    <3> HIDE DEF done
    <3>4. QED
      BY <2>3, <3>1, <3>2, <3>3, SettledNative
  <2>6. ASSUME NEW u \in Users, u # Author
        PROVE native'[u] = native[u] - (IF u = tx.who THEN corrected ELSE 0)
    <3>1. native[u] \in Nat
      BY <2>2
    <3>2. native'[u] = native[u] - (IF u = tx.who THEN fee ELSE 0)
                         + (IF u = tx.who THEN fee - corrected ELSE 0)
      BY <1>1, <2>4, <2>5, <2>6 DEF PaidInNative
    <3> DEFINE x == native[u]
    <3>3. x - fee + (fee - corrected) = x - corrected /\ x - 0 + 0 = x - 0
      <4> HIDE DEF x
      <4>1. x \in Nat
        BY <3>1 DEF x
      <4>2. QED
        BY <1>5, <4>1
    <3>4. QED
      BY <3>2, <3>3
  <2>7. NativeStep
    BY <1>1, <1>9, <2>5, <2>6 DEF NativeStep, PaidInNative
  <2>8. QED
    BY <1>12a, <2>7
<1>15. CASE PaysTokens(start, taken, tx.who, index, fee)
  <2>0. PICK token \in Assets : \E c, bal :
          /\ fee > 0
          /\ c = convert_native_to_token_with_prices(fee, token) /\ c # None
          /\ bal = transfer(start.tokens, paused, token, tx.who, Collector, c.amount) /\ bal # None
          /\ taken = Ledger(start.native, start.issuance, bal,
                            Insert(start.pending, <<tx.who, index>>,
                                   PaymentOf(token, c.amount, fee, c)),
                            InTokens(token, c, fee))
    BY <1>15 DEF PaysTokens
  <2>1. PICK c, bal :
          /\ fee > 0
          /\ c = convert_native_to_token_with_prices(fee, token) /\ c # None
          /\ bal = transfer(tokens, paused, token, tx.who, Collector, c.amount) /\ bal # None
          /\ taken = Ledger(native, issuance, bal,
                            Insert(PendingFeePayments, <<tx.who, index>>,
                                   PaymentOf(token, c.amount, fee, c)),
                            InTokens(token, c, fee))
    BY <1>10, <2>0
  <2>2. fee = FeeOf(tx) /\ corrected > 0
    BY <1>8, <2>1
  <2>3. c.amount \in Nat
    BY <1>5, <1>11, <2>1, Converted DEF Worth
  <2>4. /\ Collector \in Holders /\ tx.who \in Holders /\ Collector # tx.who
        /\ tokens \in Balances
    BY <1>2, <1>11, PaymentAssumption DEF Holders, BooksTyped
  <2>5. bal \in Balances /\ Moves(tokens, bal, token, tx.who, Collector, c.amount)
    <3>1. bal = transfer(tokens, paused, token, tx.who, Collector, c.amount) /\ bal # None
      BY <2>1
    <3>2. Transferred(bal, tokens, paused, token, tx.who, Collector, c.amount)
      BY <2>3, <2>4, <3>1, Transfer
    <3>3. QED
      BY <3>1, <3>2 DEF Transferred
  <2>6. bal[token][Collector] >= c.amount
    <3>1. tokens[token][Collector] \in Nat
      BY <2>4 DEF Balances
    <3>2. bal[token][Collector] = tokens[token][Collector] + c.amount
      BY <2>4, <2>5 DEF Moves
    <3> DEFINE x == tokens[token][Collector]
               amount == c.amount
    <3>3. x + amount >= amount
      <4>1. x \in Nat /\ amount \in Nat
        BY <2>3, <3>1
      <4> HIDE DEF x, amount
      <4>2. QED
        BY <4>1
    <3>4. QED
      BY <3>2, <3>3
  <2> DEFINE p == Insert(PendingFeePayments, <<tx.who, index>>, PaymentOf(token, c.amount, fee, c))
  <2>7. PaidInTokens(done, native, bal, p, stopped, tx.who, index, token, c, fee, corrected, base)
    <3> HIDE DEF p
    <3>1. taken = Ledger(native, issuance, bal, p, InTokens(token, c, fee))
      BY <2>1 DEF p
    <3>2. fee \in Nat \ {0} /\ corrected \in Nat \ {0}
      BY <1>5, <2>1, <2>2
    <3>3. QED
      BY <1>2, <1>5, <1>6, <1>7, <2>3, <2>5, <2>6, <3>1, <3>2, SettledTokens
  <2>8. PaidInTokens(done, native, bal, PendingFeePayments, stopped, tx.who, index, token, c, fee,
                     corrected, base)
    <3>1. \A q : Insert(p, <<tx.who, index>>, q) = Insert(PendingFeePayments, <<tx.who, index>>, q)
      BY DEF Insert
    <3> HIDE DEF p
    <3>2. QED
      BY <2>7, <3>1 DEF PaidInTokens
  <2>9. TokenStep(tx, stopped)
    <3>1. PaidBy(tx, stopped, token, c, bal, done)
      BY <1>1, <1>9, <2>1, <2>2, <2>5, <2>8 DEF PaidBy, index
    <3> HIDE DEF done
    <3>2. QED
      BY <2>5, <3>1 DEF TokenStep
  <2>10. QED
    BY <1>12a, <2>9
<1>16. QED
  BY <1>12, <1>13, <1>14, <1>15
=============================================================================
