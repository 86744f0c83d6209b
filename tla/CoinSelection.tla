--------------------------- MODULE CoinSelection ---------------------------
(***************************************************************************)
(* How a block with Blaze on pays the queued messages: which of the        *)
(* available coins it spends, whether it gives change, and the fee that    *)
(* the transaction pays as a consequence.  SocketQueue leaves this open    *)
(* and models what becomes of the transaction.                             *)
(*                                                                         *)
(* A behaviour is one block: coins, messages and fee rates are given, and  *)
(* on_initialize composes a transaction or counts a failure.  Amounts are  *)
(* satoshis and sizes virtual bytes; the order of the coins is that of the *)
(* storage map, which is arbitrary.                                        *)
(***************************************************************************)
EXTENDS Integers, SequencesExt

CONSTANTS
    Coins,         \* sequences of available coins: amount and input_vbytes
    Outbounds,     \* sequences of queued messages: amount and script
    FeeRates,      \* finalized fee rates: long_term and current
    TryLimits,     \* limits on the nodes a search visits
    OutputSize,    \* script -> size of an output that pays to it
    MAX_WEIGHT, DUST_LIMIT, CHANGE_SIZE, OVERHEAD,
    U64MAX, None

ASSUME SelectionAssumption ==
    /\ {MAX_WEIGHT, DUST_LIMIT, CHANGE_SIZE, OVERHEAD, U64MAX} \subseteq Nat
    /\ \A rates \in FeeRates : 0 < rates.long_term /\ rates.long_term <= rates.current
    /\ \A coins \in Coins : \A i \in DOMAIN coins : coins[i].input_vbytes \in 1..MAX_WEIGHT

VARIABLES
    utxos, outbounds, rates, max_tries,
    psbt           \* the outcome of the block, None before it

vars == <<utxos, outbounds, rates, max_tries, psbt>>

Init ==
    /\ utxos \in Coins
    /\ outbounds \in Outbounds
    /\ rates \in FeeRates
    /\ max_tries \in TryLimits
    /\ psbt = None

-----------------------------------------------------------------------------
SaturatingSub(a, b) == IF a < b THEN 0 ELSE a - b

(* The sum of a field over a sequence of records. *)
SumOf(seq, field) == FoldSeq(LAMBDA x, sum : x[field] + sum, 0, seq)

(* ScoredUtxo; of the two fees only the excess of the current one is read. *)
Scored(coin) ==
    [amount |-> coin.amount, input_vbytes |-> coin.input_vbytes,
     excess |-> SaturatingSub(coin.input_vbytes * rates.current,
                              coin.input_vbytes * rates.long_term),
     effective_value |-> coin.amount - coin.input_vbytes * rates.current]

Value(coins) == SumOf(coins, "effective_value")
Weight(coins) == SumOf(coins, "input_vbytes")

(* The greatest effective value first, for the first search then the least
   excess fee; equal coins keep their order. *)
Sorted(pool, by_excess) ==
    LET Before(x, y) ==
            \/ x.effective_value > y.effective_value
            \/ by_excess /\ x.effective_value = y.effective_value /\ x.excess < y.excess
        Earlier(i, j) ==
            \/ Before(pool[i], pool[j])
            \/ ~Before(pool[j], pool[i]) /\ i < j
        order == SetToSortSeq(DOMAIN pool, Earlier)
    IN [i \in DOMAIN pool |-> pool[order[i]]]

(* Both searches decide coin after coin, with it first.  They differ in what a
   selection costs, in the greatest value they accept and in the cost at which
   they stop; search holds these and the limits, found the best so far. *)
RECURSIVE dfs(_, _, _, _)
dfs(search, i, chosen, found) ==
    LET value == Value(chosen)
        rest  == Value(SubSeq(search.pool, i, Len(search.pool)))
        cost  == IF search.by_waste
                 THEN value - search.target + SumOf(chosen, "excess") ELSE value
        tried == [found EXCEPT !.tries = @ + 1]
    IN IF found.tries >= search.max_tries THEN found
       ELSE IF \/ value + rest < search.target
               \/ value > search.greatest
               \/ Weight(chosen) > MAX_WEIGHT
       THEN tried
       ELSE IF value >= search.target
       THEN IF cost < found.cost THEN [tried EXCEPT !.cost = cost, !.coins = chosen] ELSE tried
       ELSE IF found.cost = search.least \/ i > Len(search.pool) THEN tried
       ELSE dfs(search, i + 1, chosen,
                dfs(search, i + 1, Append(chosen, search.pool[i]), tried))

NothingFound == [tries |-> 0, cost |-> U64MAX, coins |-> <<>>]

(* A selection that needs no change, with the least waste. *)
select_coins_bnb(pool, target, cost_of_change, tries) ==
    dfs([pool |-> Sorted(pool, TRUE), by_waste |-> TRUE, target |-> target,
         greatest |-> target + cost_of_change, least |-> 0, max_tries |-> tries],
        1, <<>>, NothingFound).coins

(* The coin of least effective value; the first of equals. *)
Lowest(coins) ==
    coins[CHOOSE i \in DOMAIN coins : \A j \in DOMAIN coins :
              \/ coins[i].effective_value < coins[j].effective_value
              \/ coins[i].effective_value = coins[j].effective_value /\ i <= j]

(* Mutant: of the larger coins the first one is taken. *)
FirstLarger(larger) == IF larger = <<>> THEN <<>> ELSE <<larger[1]>>

(* The least of the larger coins, unless it is too heavy. *)
LowestLarger(larger) ==
    IF larger = <<>> THEN <<>>
    ELSE IF Lowest(larger).input_vbytes <= MAX_WEIGHT THEN <<Lowest(larger)>> ELSE <<>>

(* One coin close to the target, else the smallest sum of coins below it or a
   single larger coin, whichever is less; <<>> for nothing. *)
select_coins_knapsack(pool, target, change_target, tries) ==
    LET IsExact(x) == /\ target <= x.effective_value
                      /\ x.effective_value <= target + change_target
                      /\ x.input_vbytes <= MAX_WEIGHT
        IsLower(x) == ~IsExact(x) /\ x.effective_value < target + change_target
        exact      == SelectSeq(pool, IsExact)
        applicable == SelectSeq(pool, IsLower)
        larger     == LowestLarger(SelectSeq(pool, LAMBDA x : ~IsExact(x) /\ ~IsLower(x)))
        found      == dfs([pool |-> Sorted(applicable, FALSE), by_waste |-> FALSE,
                           target |-> target, greatest |-> U64MAX, least |-> target,
                           max_tries |-> tries], 1, <<>>, NothingFound)
    IN IF exact # <<>> THEN <<Lowest(exact)>>
       ELSE IF Value(applicable) < target \/ found.coins = <<>> THEN larger
       ELSE IF larger # <<>> /\ Value(larger) <= found.cost THEN larger
       ELSE found.coins

(* select_coins: no change if possible. *)
select_coins(pool, target, cost_of_change, tries, change_target) ==
    LET bnb == select_coins_bnb(pool, target, cost_of_change, tries)
    IN IF bnb # <<>> THEN [coins |-> bnb, strategy |-> "Bnb"]
       ELSE [coins |-> select_coins_knapsack(pool, target, change_target, tries),
             strategy |-> "Knapsack"]

-----------------------------------------------------------------------------
(* One output for all messages to the same script. *)
Scripts(requests) == {requests[i].script : i \in DOMAIN requests}
AmountTo(requests, script) ==
    SumOf(SelectSeq(requests, LAMBDA x : x.script = script), "amount")
SizeOf(scripts) == MapThenSumSet(LAMBDA script : OutputSize[script], scripts)

(* Mutant: the size of the change output is left out of the fee. *)
FeeWithoutChange(selection, paid) ==
    rates.current * (OVERHEAD + Weight(selection.coins) + SizeOf(paid))

FeeWithChange(selection, paid) ==
    rates.current * (OVERHEAD + Weight(selection.coins) + SizeOf(paid) + CHANGE_SIZE)

(* What is left goes to the system vault, or to the fee if it is dust; a
   selection that was to need no change gives none. *)
Change(selection, paid, target) ==
    LET left == SumOf(selection.coins, "amount") - target - FeeWithChange(selection, paid)
    IN IF selection.strategy = "Knapsack" /\ left > DUST_LIMIT THEN left ELSE 0

Failure == [coins |-> <<>>, strategy |-> "None", paid |-> {}, change |-> 0]

(* composite_psbt: outputs of at most DUST_LIMIT are left out. *)
composite_psbt(selection, target) ==
    LET paid == {script \in Scripts(outbounds) : AmountTo(outbounds, script) > DUST_LIMIT}
    IN IF paid = {} THEN Failure
       ELSE [coins |-> selection.coins, strategy |-> selection.strategy, paid |-> paid,
             change |-> Change(selection, paid, target)]

(* The target includes the fee for what every transaction with these outputs
   has; each coin pays for its own input and drops out if it cannot. *)
Requested == SumOf(outbounds, "amount")
Target == Requested + rates.current * (OVERHEAD + SizeOf(Scripts(outbounds)))
Pool ==
    LET worth == SelectSeq(utxos, LAMBDA x : x.amount >= x.input_vbytes * rates.current)
    IN [i \in DOMAIN worth |-> Scored(worth[i])]

on_initialize ==
    LET selection == select_coins(Pool, Target, CHANGE_SIZE * rates.current, max_tries, DUST_LIMIT)
    IN /\ psbt = None
       /\ psbt' = IF Requested >= SumOf(utxos, "amount") \/ selection.coins = <<>> THEN Failure
                  ELSE composite_psbt(selection, Requested)
       /\ UNCHANGED <<utxos, outbounds, rates, max_tries>>

Next == on_initialize

Spec == Init /\ [][Next]_vars

-----------------------------------------------------------------------------
(* A composed transaction pays the fee of its size at the finalized rate, so
   that it is relayed and confirmed; it pays more only by what change would
   cost, a change that would be dust, and the requests too small for an output. *)
FeeInRange ==
    psbt \notin {None, Failure} =>
        LET spent   == SumOf(psbt.coins, "amount")
            dropped == Scripts(outbounds) \ psbt.paid
            To(scripts) == MapThenSumSet(LAMBDA script : AmountTo(outbounds, script), scripts)
            fee     == spent - To(psbt.paid) - psbt.change
            size    == OVERHEAD + Weight(psbt.coins) + SizeOf(psbt.paid)
                           + IF psbt.change > 0 THEN CHANGE_SIZE ELSE 0
        IN /\ fee >= rates.current * size
           /\ fee <= rates.current * (size + SizeOf(dropped) + CHANGE_SIZE)
                         + DUST_LIMIT + To(dropped)

(* What the two searches are to find, stated over all sets of coins: a set
   that needs no change and wastes least, and when there is none a single coin
   within DUST_LIMIT of the target or the set of least value that covers it.
   A block fails to select only when no set of coins will do.  The searches
   are bounded: the statement is about those that end before their limit. *)
SelectionOptimal ==
    LET ValueOf(S)  == MapThenSumSet(LAMBDA i : Pool[i].effective_value, S)
        WasteOf(S)  == ValueOf(S) - Target + MapThenSumSet(LAMBDA i : Pool[i].excess, S)
        Covers      == {S \in SUBSET DOMAIN Pool :
                            /\ ValueOf(S) >= Target
                            /\ MapThenSumSet(LAMBDA i : Pool[i].input_vbytes, S) <= MAX_WEIGHT}
        Changeless  == {S \in Covers : ValueOf(S) <= Target + CHANGE_SIZE * rates.current}
        value       == Value(psbt.coins)
    IN /\ psbt # None
       /\ max_tries >= 2 ^ (Len(Pool) + 1)
       /\ \E script \in Scripts(outbounds) : AmountTo(outbounds, script) > DUST_LIMIT
       => CASE Changeless # {} ->
                 /\ psbt.strategy = "Bnb"
                 /\ \A S \in Changeless :
                        value - Target + SumOf(psbt.coins, "excess") <= WasteOf(S)
            [] Changeless = {} /\ Covers # {} ->
                 /\ psbt.strategy = "Knapsack"
                 /\ \/ Len(psbt.coins) = 1 /\ value <= Target + DUST_LIMIT
                    \/ \A S \in Covers : value <= ValueOf(S)
            [] OTHER -> psbt = Failure
=============================================================================
