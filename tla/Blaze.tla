-------------------------------- MODULE Blaze --------------------------------
(***************************************************************************)
(* pallet-blaze: the relayers vote on the UTXOs of the vaults, on the fee  *)
(* rate and on broadcast transactions, and collect the outbound messages   *)
(* that the socket queue composes into a PSBT at the start of a block.     *)
(*                                                                         *)
(* A transaction is known by its PSBT.  A UTXO whose address has no bonded *)
(* descriptor is skipped by the code and is not submitted here.  The loops *)
(* over several UTXOs of one submission do one of the steps below for each *)
(* and none of them fails, so a submission carries one UTXO.  Amounts and  *)
(* the choice of coins are left to the socket queue's composition.         *)
(***************************************************************************)
EXTENDS RelayerSet, Sequences, Functions

CONSTANTS
    UtxoIds,             \* hashes of the UTXOs
    Psbts,               \* PSBTs, see SocketQueue.tla
    Messages,            \* outbound socket messages, by sequence
    Rates,               \* fee rates the relayers submit
    ToleranceThreshold,
    MaxUnconfirmed,      \* MAX_UNCONFIRMED_UTXOS_PER_RELAYER
    Activations,         \* values governance gives to IsActivated
    None                 \* absence of a value

ASSUME BlazeAssumption ==
    /\ Rates \subseteq Nat
    /\ ToleranceThreshold \in Nat
    /\ MaxUnconfirmed \in Nat
    /\ Activations \subseteq BOOLEAN

VARIABLES
    IsActivated,
    ToleranceCounter,
    Utxos,                 \* UTXO -> [status, voters] or None
    UnconfirmedUtxoCount,  \* relayer -> number
    PendingTxs,            \* PSBT -> [inputs, voters] or None
    ConfirmedTxs,          \* set of PSBTs
    OutboundPool,          \* set of messages
    FeeRates               \* relayer -> [lt_fee_rate, fee_rate] or None

utxoVars == <<Utxos, UnconfirmedUtxoCount, PendingTxs, ConfirmedTxs>>
feeVars == <<ToleranceCounter, OutboundPool, FeeRates>>
blazeVars == <<IsActivated, utxoVars, feeVars>>

UtxoStatus == {"Unconfirmed", "Available", "Locked", "Used"}

BlazeTypeOK ==
    /\ IsActivated \in BOOLEAN
    /\ ToleranceCounter \in 0..ToleranceThreshold
    /\ \A u \in UtxoIds : Utxos[u] # None =>
           Utxos[u].status \in UtxoStatus /\ Utxos[u].voters \in Seq(Accounts)
    /\ UnconfirmedUtxoCount \in [Accounts -> 0..MaxUnconfirmed]
    /\ \A p \in Psbts : PendingTxs[p] # None =>
           PendingTxs[p].inputs \subseteq UtxoIds /\ PendingTxs[p].voters \in Seq(Accounts)
    /\ ConfirmedTxs \subseteq Psbts
    /\ OutboundPool \subseteq Messages
    /\ FeeRates \in [Accounts -> [lt_fee_rate : Rates, fee_rate : Rates] \cup {None}]

BlazeInit ==
    /\ IsActivated = FALSE
    /\ ToleranceCounter = 0
    /\ Utxos = [u \in UtxoIds |-> None]
    /\ UnconfirmedUtxoCount = [a \in Accounts |-> 0]
    /\ PendingTxs = [p \in Psbts |-> None]
    /\ ConfirmedTxs = {}
    /\ OutboundPool = {}
    /\ FeeRates = [a \in Accounts |-> None]

-----------------------------------------------------------------------------
(* BlazeManager: what the socket queue does with UTXOs and transactions. *)
WithStatus(utxos, inputs, status) ==
    [u \in UtxoIds |-> IF u \in inputs THEN [utxos[u] EXCEPT !.status = status] ELSE utxos[u]]

AreKnown(inputs) == \A u \in inputs : Utxos[u] # None

(* lock_utxos looks at no status; unlock_utxos makes available whatever the
   inputs have become. *)
lock_utxos(utxos, inputs) == WithStatus(utxos, inputs, "Locked")
unlock_utxos(utxos, inputs) == WithStatus(utxos, inputs, "Available")
NewTx(inputs) == [inputs |-> inputs, voters |-> <<>>]

get_utxos == {u \in UtxoIds : Utxos[u] # None /\ Utxos[u].status = "Available"}

(* The submitter of an unconfirmed UTXO is its first voter. *)
SubmittedBy(a) ==
    {u \in UtxoIds : /\ Utxos[u] # None
                     /\ Utxos[u].status = "Unconfirmed"
                     /\ Utxos[u].voters # <<>>
                     /\ Utxos[u].voters[1] = a}
Saturated(n) == IF n < 0 THEN 0 ELSE n

clear_utxos ==
    /\ Utxos' = [u \in UtxoIds |-> IF Utxos[u] # None /\ Utxos[u].status = "Used"
                                   THEN Utxos[u] ELSE None]
    /\ UnconfirmedUtxoCount' = [a \in Accounts |->
           Saturated(UnconfirmedUtxoCount[a] - Cardinality(SubmittedBy(a)))]

IsIntolerable(counter) == counter > ToleranceThreshold

(* A failed or a successful composition; too many failures turn Blaze off. *)
handle_tolerance_counter(is_increase) ==
    LET next == IF is_increase THEN ToleranceCounter + 1 ELSE Saturated(ToleranceCounter - 1)
    IN IF IsIntolerable(next)
       THEN IsActivated' = FALSE /\ ToleranceCounter' = 0
       ELSE ToleranceCounter' = next /\ UNCHANGED IsActivated

-----------------------------------------------------------------------------
(* Fee rates.  All submissions live for the same number of blocks; which of
   them have expired at a block is left open. *)
Submitted(rates) == {a \in Accounts : rates[a] # None}
Unexpired(expired) == [a \in Accounts |-> IF a \in expired THEN None ELSE FeeRates[a]]

(* The element at index len / 2 of the sorted values of a function. *)
Median(values) ==
    LET AtMost(x) == Cardinality({a \in DOMAIN values : values[a] <= x})
        AboveHalf == {x \in Range(values) : AtMost(x) > Cardinality(DOMAIN values) \div 2}
    IN CHOOSE x \in AboveHalf : \A y \in AboveHalf : x <= y

(* Whether try_fee_rate_finalization has a result. *)
FeeRateFinalized(rates) ==
    LET S == Submitted(rates)
    IN /\ Cardinality(S) >= Majority
       /\ S # {}
       /\ Median([a \in S |-> rates[a].fee_rate]) >= Median([a \in S |-> rates[a].lt_fee_rate])

(* The checks of the unsigned calls before they are executed: the signer is a
   selected relayer of the moment.  Signatures are not forged; a rate whose
   deadline has passed, or an oversized list, changes nothing. *)
verify_submit_fee_rate(a) == is_authority(a)
verify_utxo_submission(a) == is_authority(a)
verify_broadcast_submission(a) == is_authority(a)

submit_fee_rate(a, lt_fee_rate, fee_rate, max_fee_rate) ==
    /\ verify_submit_fee_rate(a)
    /\ IsActivated
    /\ lt_fee_rate \in 1..max_fee_rate
    /\ fee_rate \in 1..max_fee_rate
    /\ FeeRates' = [FeeRates EXCEPT ![a] =
                        [lt_fee_rate |-> lt_fee_rate, fee_rate |-> fee_rate]]
    /\ UNCHANGED <<IsActivated, utxoVars, ToleranceCounter, OutboundPool>>

-----------------------------------------------------------------------------
(* set_activation drops the pending transactions when Blaze is turned on; the
   UTXOs keep their status. *)
set_activation(is_activated) ==
    /\ IsActivated # is_activated
    /\ IsActivated' = is_activated
    /\ PendingTxs' = IF is_activated THEN [p \in Psbts |-> None] ELSE PendingTxs
    /\ UNCHANGED <<Utxos, UnconfirmedUtxoCount, ConfirmedTxs, feeVars>>

(* Mutant: counts for the relayer whose vote confirms the UTXO. *)
CountAfterVote(voters) ==
    [UnconfirmedUtxoCount EXCEPT ![voters[Len(voters)]] = Saturated(@ - 1)]

CountAfterConfirmation(voters) ==
    [UnconfirmedUtxoCount EXCEPT ![voters[1]] = Saturated(@ - 1)]

(* The first vote stores the UTXO and counts against its submitter; the vote
   that reaches the majority makes it available. *)
submit_utxo(a, u) ==
    /\ verify_utxo_submission(a)
    /\ IsActivated
    /\ IF Utxos[u] = None
       THEN /\ UnconfirmedUtxoCount[a] < MaxUnconfirmed
            /\ Utxos' = [Utxos EXCEPT ![u] = [status |-> "Unconfirmed", voters |-> <<a>>]]
            /\ UnconfirmedUtxoCount' = [UnconfirmedUtxoCount EXCEPT ![a] = @ + 1]
       ELSE LET voters == Append(Utxos[u].voters, a)
                confirmed == Len(voters) >= Majority
            IN /\ Utxos[u].status = "Unconfirmed"
               /\ a \notin Range(Utxos[u].voters)
               /\ Utxos' = [Utxos EXCEPT ![u] =
                      [status |-> IF confirmed THEN "Available" ELSE "Unconfirmed",
                       voters |-> voters]]
               /\ UnconfirmedUtxoCount' =
                      IF confirmed THEN CountAfterConfirmation(voters)
                      ELSE UnconfirmedUtxoCount
    /\ UNCHANGED <<IsActivated, PendingTxs, ConfirmedTxs, feeVars>>

(* Mutant: the inputs of a confirmed transaction stay locked. *)
keep_utxos(utxos, inputs) == utxos

use_utxos(utxos, inputs) == WithStatus(utxos, inputs, "Used")

(* The majority's vote marks the inputs as used; the call fails if one of
   them is no longer stored. *)
broadcast_poll(a, p) ==
    /\ verify_broadcast_submission(a)
    /\ IsActivated
    /\ p \notin ConfirmedTxs
    /\ PendingTxs[p] # None
    /\ a \notin Range(PendingTxs[p].voters)
    /\ LET voters == Append(PendingTxs[p].voters, a)
       IN IF Len(voters) >= Majority
          THEN /\ AreKnown(PendingTxs[p].inputs)
               /\ Utxos' = use_utxos(Utxos, PendingTxs[p].inputs)
               /\ ConfirmedTxs' = ConfirmedTxs \cup {p}
               /\ PendingTxs' = [PendingTxs EXCEPT ![p] = None]
          ELSE /\ PendingTxs' = [PendingTxs EXCEPT ![p].voters = voters]
               /\ UNCHANGED <<Utxos, ConfirmedTxs>>
    /\ UNCHANGED <<IsActivated, UnconfirmedUtxoCount, feeVars>>

(* One relayer's submission is enough; verified is the socket queue's answer. *)
submit_outbound_requests(messages, verified) ==
    /\ messages # {}
    /\ OutboundPool' = OutboundPool \cup (messages \cap verified)
    /\ UNCHANGED <<IsActivated, utxoVars, ToleranceCounter, FeeRates>>

force_push_utxos(utxos) ==
    /\ ~IsActivated
    /\ utxos # {}
    /\ Utxos' = [u \in UtxoIds |->
           IF Utxos[u] # None /\ Utxos[u].status = "Used" THEN Utxos[u]
           ELSE IF u \in utxos THEN [status |-> "Available", voters |-> <<>>]
           ELSE None]
    /\ UnconfirmedUtxoCount' = [a \in Accounts |->
           Saturated(UnconfirmedUtxoCount[a] - Cardinality(SubmittedBy(a)))]
    /\ UNCHANGED <<IsActivated, PendingTxs, ConfirmedTxs, feeVars>>

remove_outbound_messages(messages) ==
    /\ ~IsActivated
    /\ messages # {}
    /\ OutboundPool' = OutboundPool \ messages
    /\ UNCHANGED <<IsActivated, utxoVars, ToleranceCounter, FeeRates>>

(* Utxo::replace_authority and BTCTransaction::replace_authority. *)
ReplaceVoter(voters, old, new) ==
    IF old \in Range(voters)
    THEN Append(SelectSeq(voters, LAMBDA v : v # old), new)
    ELSE voters

(* A relayer account is replaced in everything that still collects votes. *)
replace_authority(old, new) ==
    /\ UnconfirmedUtxoCount' = [UnconfirmedUtxoCount EXCEPT
           ![old] = 0,
           ![new] = IF UnconfirmedUtxoCount[old] > 0 THEN UnconfirmedUtxoCount[old] ELSE @]
    /\ Utxos' = [u \in UtxoIds |->
           IF Utxos[u] # None /\ Utxos[u].status = "Unconfirmed"
           THEN [Utxos[u] EXCEPT !.voters = ReplaceVoter(@, old, new)] ELSE Utxos[u]]
    /\ PendingTxs' = [p \in Psbts |->
           IF PendingTxs[p] = None THEN None
           ELSE [PendingTxs[p] EXCEPT !.voters = ReplaceVoter(@, old, new)]]
    /\ FeeRates' = [FeeRates EXCEPT
           ![old] = None, ![new] = IF FeeRates[old] # None THEN FeeRates[old] ELSE @]
    /\ UNCHANGED <<IsActivated, ToleranceCounter, ConfirmedTxs, OutboundPool>>
=============================================================================
