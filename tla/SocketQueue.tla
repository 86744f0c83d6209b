----------------------------- MODULE SocketQueue -----------------------------
(***************************************************************************)
(* pallet-btc-socket-queue: unsigned PSBTs are submitted (or composed from *)
(* Blaze's outbound pool), signed by the relay executives, finalized,      *)
(* broadcast and reported as executed.  A request is Normal (it pays       *)
(* socket messages), Rollback (it returns a deposit once the relayers      *)
(* approve) or Migration (it moves the vault's coins to the next round).   *)
(*                                                                         *)
(* Composed of the relayer set, Blaze and the registration pool.  A PSBT   *)
(* has a set of inputs, a set of outputs and a fee; its txid is the PSBT   *)
(* itself.  An output pays a message, returns a deposit or goes to the     *)
(* system vault of a round.  Signatures and the contracts behind Socket    *)
(* and BitcoinSocket are external.                                         *)
(***************************************************************************)
EXTENDS Blaze, PoolManager

CONSTANTS
    Inputs, Outs, Fee,   \* content of a PSBT
    Composed,            \* PSBTs that on_initialize composes
    Deposits,            \* outputs that governance may roll back
    UserOf,              \* message or deposit -> user
    Dust,                \* messages with an amount of at most DUST_LIMIT
    MessageBytes,        \* message -> size
    FeeRateLimits,       \* values given to MaxFeeRate; the least is the default
    MessageLimits,       \* values given to MaxSocketMessageBytes; likewise
    Contracts,           \* addresses given to Socket and BitcoinSocket
    KeyHolders,          \* accounts that hold a key of the vaults
    SigningThreshold     \* signatures that the inputs' descriptors need

VaultOf(round) == [vault |-> round]
VaultOutputs == {VaultOf(round) : round \in Rounds}
WalletPsbts == Psbts \ Composed   \* PSBTs of the authority and of governance

RequestType == {"Normal", "Rollback", "Migration"}
PsbtRequest == [request_type : RequestType, socket_messages : SUBSET Messages,
                signed_psbts : SUBSET Accounts, combined_psbt : SUBSET Accounts]
Votes == [Accounts -> {"yes", "no", "none"}]
RollbackRequest == [deposit : Deposits, votes : Votes, is_approved : BOOLEAN]

(* A composed transaction is never one that the authority or governance has
   built: its locktime, sequence numbers and order of outputs are its own. *)
ASSUME SocketQueueAssumption ==
    /\ Members = Accounts
    /\ MigrationTxs = Psbts
    /\ Composed \subseteq Psbts
    /\ Inputs \in [Psbts -> SUBSET UtxoIds]
    /\ Outs \in [Psbts -> SUBSET (Messages \cup Deposits \cup VaultOutputs)]
    /\ Fee \in [Psbts -> Nat]
    /\ Messages \cap Deposits = {}
    /\ (Messages \cup Deposits) \cap VaultOutputs = {}
    /\ UserOf \in [Messages \cup Deposits -> Users]
    /\ Dust \subseteq Messages
    /\ MessageBytes \in [Messages -> Nat]
    /\ FeeRateLimits \subseteq Nat
    /\ MessageLimits \subseteq Nat
    /\ SigningThreshold \in Nat
    /\ None \notin Psbts
    /\ None \notin PsbtRequest
    /\ None \notin RollbackRequest
    /\ \A messages \in SUBSET Messages : messages # None

VARIABLES
    Authority,               \* the core authority or None
    Socket, BitcoinSocket,   \* contract addresses or None
    MaxFeeRate,
    MaxSocketMessageBytes,
    SocketMessages,          \* message -> PSBT that pays it, or None
    PendingRequests,         \* PSBT -> request or None
    FinalizedRequests,
    ExecutedRequests,
    RollbackRequests,        \* PSBT -> rollback or None
    BondedOutboundTx,        \* PSBT -> messages or None
    BondedRollbackOutputs,   \* deposit -> PSBT or None
    BroadcastConfirmations   \* PSBT -> relayers that confirmed

settingVars == <<Authority, Socket, BitcoinSocket, MaxFeeRate, MaxSocketMessageBytes>>
stageVars == <<PendingRequests, FinalizedRequests, ExecutedRequests>>
rollbackVars == <<RollbackRequests, BondedRollbackOutputs>>
queueVars == <<stageVars, rollbackVars, SocketMessages, BondedOutboundTx,
               BroadcastConfirmations>>
vars == <<relayerVars, blazeVars, poolVars, settingVars, queueVars>>

TypeOK ==
    /\ RelayerTypeOK
    /\ BlazeTypeOK
    /\ PoolTypeOK
    /\ Authority \in Accounts \cup {None}
    /\ {Socket, BitcoinSocket} \subseteq Contracts \cup {None}
    /\ MaxFeeRate \in FeeRateLimits
    /\ MaxSocketMessageBytes \in MessageLimits
    /\ SocketMessages \in [Messages -> Psbts \cup {None}]
    /\ PendingRequests \in [Psbts -> PsbtRequest \cup {None}]
    /\ FinalizedRequests \in [Psbts -> PsbtRequest \cup {None}]
    /\ ExecutedRequests \in [Psbts -> PsbtRequest \cup {None}]
    /\ RollbackRequests \in [Psbts -> RollbackRequest \cup {None}]
    /\ BondedOutboundTx \in [Psbts -> (SUBSET Messages) \cup {None}]
    /\ BondedRollbackOutputs \in [Deposits -> Psbts \cup {None}]
    /\ BroadcastConfirmations \in [Psbts -> SUBSET Accounts]

Least(S) == CHOOSE x \in S : \A y \in S : x <= y

Init ==
    /\ RelayerInit
    /\ BlazeInit
    /\ PoolInit
    /\ Authority \in Accounts \cup {None}
    /\ Socket = None
    /\ BitcoinSocket = None
    /\ MaxFeeRate = Least(FeeRateLimits)
    /\ MaxSocketMessageBytes = Least(MessageLimits)
    /\ SocketMessages = [m \in Messages |-> None]
    /\ PendingRequests = [p \in Psbts |-> None]
    /\ FinalizedRequests = [p \in Psbts |-> None]
    /\ ExecutedRequests = [p \in Psbts |-> None]
    /\ RollbackRequests = [p \in Psbts |-> None]
    /\ BondedOutboundTx = [p \in Psbts |-> None]
    /\ BondedRollbackOutputs = [d \in Deposits |-> None]
    /\ BroadcastConfirmations = [p \in Psbts |-> {}]

-----------------------------------------------------------------------------
Pending == {p \in Psbts : PendingRequests[p] # None}
Finalized == {p \in Psbts : FinalizedRequests[p] # None}
Executed == {p \in Psbts : ExecutedRequests[p] # None}
Rollbacks == {p \in Psbts : RollbackRequests[p] # None}

Request(type, messages) ==
    [request_type |-> type, socket_messages |-> messages,
     signed_psbts |-> {}, combined_psbt |-> {}]

(* The txid is in none of the maps of requests. *)
IsNew(p) == p \notin Pending \cup Finalized \cup Executed \cup Rollbacks

(* try_psbt_fee_verification *)
FeeVerified(p) == Fee[p] <= MaxFeeRate

HasSystemVault == SystemVault[CurrentRound] = "generated"
IsRegistered(user) == UserVault[user] # "none"

(* Mutant: asks only the contract. *)
AcceptedMessages == {m \in Messages : Socket # None}

(* The messages that verify_socket_message accepts: of those the Socket
   contract has accepted, the ones that no PSBT pays yet. *)
VerifiedMessages == {m \in Messages : Socket # None /\ SocketMessages[m] = None}

(* try_psbt_output_verification: the outputs are those of the messages, and
   at most a change output to the system vault. *)
OutputsVerified(p, messages) ==
    /\ HasSystemVault
    /\ messages # {}
    /\ messages \subseteq VerifiedMessages
    /\ \A m \in messages : IsRegistered(UserOf[m])
    /\ Outs[p] \in {messages, messages \cup {VaultOf(CurrentRound)}}

(* verify_authority *)
IsPsbtAuthority(a) == IF IsActivated THEN is_authority(a) ELSE a = Authority

(* Mutant: the rollbacks under vote are not looked at. *)
NoRequestUnderWay == Pending = {} /\ Finalized = {}

is_ready_for_migrate ==
    /\ Pending = {}
    /\ Finalized = {}
    /\ \A p \in Rollbacks : RollbackRequests[p].is_approved

-----------------------------------------------------------------------------
(* Settings, by governance. *)
set_authority(new) ==
    /\ Authority # new
    /\ Authority' = new
    /\ UNCHANGED <<Socket, BitcoinSocket, MaxFeeRate, MaxSocketMessageBytes>>

set_socket(new, is_bitcoin) ==
    /\ IF is_bitcoin
       THEN BitcoinSocket # new /\ BitcoinSocket' = new /\ UNCHANGED Socket
       ELSE Socket # new /\ Socket' = new /\ UNCHANGED BitcoinSocket
    /\ UNCHANGED <<Authority, MaxFeeRate, MaxSocketMessageBytes>>

set_max_fee_rate(new) ==
    /\ MaxFeeRate # new
    /\ MaxFeeRate' = new
    /\ UNCHANGED <<Authority, Socket, BitcoinSocket, MaxSocketMessageBytes>>

set_max_socket_message_bytes(new) ==
    /\ MaxSocketMessageBytes # new
    /\ MaxSocketMessageBytes' = new
    /\ UNCHANGED <<Authority, Socket, BitcoinSocket, MaxFeeRate>>

Settings ==
    /\ \/ \E new \in Accounts : set_authority(new)
       \/ \E new \in Contracts, is_bitcoin \in BOOLEAN : set_socket(new, is_bitcoin)
       \/ \E new \in FeeRateLimits : set_max_fee_rate(new)
       \/ \E new \in MessageLimits : set_max_socket_message_bytes(new)
    /\ UNCHANGED <<relayerVars, blazeVars, poolVars, queueVars>>

-----------------------------------------------------------------------------
(* The core authority submits a PSBT while Blaze is off (submit_unsigned_psbt
   fails when it is on). *)
submit_unsigned_psbt(a, p, messages) ==
    /\ ~IsActivated
    /\ IsPsbtAuthority(a)
    /\ ServiceState = "Normal"
    /\ FeeVerified(p)
    /\ IsNew(p)
    /\ OutputsVerified(p, messages)
    /\ SocketMessages' = [m \in Messages |-> IF m \in messages THEN p ELSE SocketMessages[m]]
    /\ PendingRequests' = [PendingRequests EXCEPT ![p] = Request("Normal", messages)]
    /\ UNCHANGED <<relayerVars, blazeVars, poolVars, settingVars, FinalizedRequests,
                   ExecutedRequests, rollbackVars, BondedOutboundTx, BroadcastConfirmations>>

(* Mutant: one signature too many is asked for. *)
IsOverSigned(request) ==
    Cardinality(request.combined_psbt \cap KeyHolders) > SigningThreshold

(* try_psbt_finalization, external: the combined PSBT has enough signatures of
   the vaults' keys. *)
IsFinalizable(request) ==
    Cardinality(request.combined_psbt \cap KeyHolders) >= SigningThreshold

(* A signed PSBT is combined with the others, and the request is finalized
   once there are enough.  A second PSBT signed by an account that has signed
   adds nothing and is left out. *)
submit_signed_psbt(a, p) ==
    LET request == [PendingRequests[p] EXCEPT !.signed_psbts = @ \cup {a},
                                              !.combined_psbt = @ \cup {a}]
    IN /\ a \in SignerSet
       /\ p \in Pending
       /\ a \notin PendingRequests[p].combined_psbt
       /\ IF IsFinalizable(request)
          THEN /\ FinalizedRequests' = [FinalizedRequests EXCEPT ![p] = request]
               /\ PendingRequests' = [PendingRequests EXCEPT ![p] = None]
               /\ BondedOutboundTx' = IF request.request_type = "Normal"
                                      THEN [BondedOutboundTx EXCEPT ![p] = request.socket_messages]
                                      ELSE BondedOutboundTx
          ELSE /\ PendingRequests' = [PendingRequests EXCEPT ![p] = request]
               /\ UNCHANGED <<FinalizedRequests, BondedOutboundTx>>
       /\ UNCHANGED <<relayerVars, blazeVars, poolVars, settingVars, ExecutedRequests,
                      rollbackVars, SocketMessages, BroadcastConfirmations>>

(* Mutant: forgets the registration pool. *)
ExecutedTx(request, p) == OngoingVaultMigration

MigrationTxExecuted(request, p) ==
    IF request.request_type = "Migration"
    THEN execute_migration_tx(OngoingVaultMigration, p)
    ELSE OngoingVaultMigration

(* With Blaze on the relayers confirm the broadcast by majority, otherwise the
   authority's word is enough. *)
submit_executed_request(a, p) ==
    LET confirmations == BroadcastConfirmations[p] \cup {a}
        should_execute == IsActivated => Cardinality(confirmations) >= Majority
    IN /\ IsPsbtAuthority(a)
       /\ p \in Finalized
       /\ IsActivated => a \notin BroadcastConfirmations[p]
       /\ BroadcastConfirmations' = [BroadcastConfirmations EXCEPT
              ![p] = IF should_execute THEN {} ELSE confirmations]
       /\ IF should_execute
          THEN /\ OngoingVaultMigration' = MigrationTxExecuted(FinalizedRequests[p], p)
               /\ FinalizedRequests' = [FinalizedRequests EXCEPT ![p] = None]
               /\ ExecutedRequests' = [ExecutedRequests EXCEPT ![p] = FinalizedRequests[p]]
          ELSE UNCHANGED <<OngoingVaultMigration, FinalizedRequests, ExecutedRequests>>
       /\ UNCHANGED <<relayerVars, blazeVars, CurrentRound, ServiceState, SystemVault,
                      UserVault, memberVars, settingVars, PendingRequests, rollbackVars,
                      SocketMessages, BondedOutboundTx>>

-----------------------------------------------------------------------------
(* Governance asks to return a deposit.  The outputs go to the refund address
   of the user and possibly to the system vault. *)
submit_rollback_request(p, d) ==
    /\ ServiceState = "Normal"
    /\ FeeVerified(p)
    /\ IsNew(p)
    /\ BondedRollbackOutputs[d] = None
    /\ UserVault[UserOf[d]] = "generated"
    /\ BitcoinSocket # None
    /\ HasSystemVault
    /\ Outs[p] \in {{d}, {d, VaultOf(CurrentRound)}}
    /\ IF IsActivated
       THEN /\ AreKnown(Inputs[p])
            /\ Utxos' = lock_utxos(Utxos, Inputs[p])
            /\ PendingTxs' = [PendingTxs EXCEPT ![p] = NewTx(Inputs[p])]
       ELSE UNCHANGED <<Utxos, PendingTxs>>
    /\ RollbackRequests' = [RollbackRequests EXCEPT ![p] =
           [deposit |-> d, votes |-> [a \in Accounts |-> "none"], is_approved |-> FALSE]]
    /\ BondedRollbackOutputs' = [BondedRollbackOutputs EXCEPT ![d] = p]
    /\ UNCHANGED <<relayerVars, IsActivated, UnconfirmedUtxoCount, ConfirmedTxs, feeVars,
                   poolVars, settingVars, stageVars, SocketMessages, BondedOutboundTx,
                   BroadcastConfirmations>>

IsOpen(p) == p \in Rollbacks /\ ~RollbackRequests[p].is_approved

(* The poll is open in every service state. *)
submit_rollback_poll(a, p, is_approved) ==
    LET vote == IF is_approved THEN "yes" ELSE "no"
        votes == [RollbackRequests[p].votes EXCEPT ![a] = vote]
        approved == Cardinality({b \in Accounts : votes[b] = "yes"}) >= Majority
    IN /\ is_authority(a)
       /\ IsOpen(p)
       /\ RollbackRequests[p].votes[a] # vote
       /\ RollbackRequests' = [RollbackRequests EXCEPT ![p] =
              [deposit |-> @.deposit, votes |-> votes, is_approved |-> approved]]
       /\ PendingRequests' = IF approved
                             THEN [PendingRequests EXCEPT ![p] = Request("Rollback", {})]
                             ELSE PendingRequests
       /\ UNCHANGED <<relayerVars, blazeVars, poolVars, settingVars, FinalizedRequests,
                      ExecutedRequests, BondedRollbackOutputs, SocketMessages,
                      BondedOutboundTx, BroadcastConfirmations>>

(* The deposit stays bonded to the dropped PSBT. *)
drop_pending_rollback_request(p) ==
    /\ ServiceState = "Normal"
    /\ IsOpen(p)
    /\ RollbackRequests' = [RollbackRequests EXCEPT ![p] = None]
    /\ IF IsActivated
       THEN /\ PendingTxs[p] # None
            /\ AreKnown(PendingTxs[p].inputs)
            /\ Utxos' = unlock_utxos(Utxos, PendingTxs[p].inputs)
            /\ PendingTxs' = [PendingTxs EXCEPT ![p] = None]
       ELSE UNCHANGED <<Utxos, PendingTxs>>
    /\ UNCHANGED <<relayerVars, IsActivated, UnconfirmedUtxoCount, ConfirmedTxs, feeVars,
                   poolVars, settingVars, stageVars, BondedRollbackOutputs, SocketMessages,
                   BondedOutboundTx, BroadcastConfirmations>>

-----------------------------------------------------------------------------
(* All coins go to the next round's system vault, and what Blaze knows of
   them is forgotten. *)
submit_migration_request(p) ==
    /\ ServiceState = "UTXOTransfer"
    /\ FeeVerified(p)
    /\ p \notin Pending \cup Finalized \cup Executed
    /\ SystemVault[CurrentRound + 1] = "generated"
    /\ Outs[p] = {VaultOf(CurrentRound + 1)}
    /\ PendingRequests' = [PendingRequests EXCEPT ![p] = Request("Migration", {})]
    /\ OngoingVaultMigration' = add_migration_tx(OngoingVaultMigration, p)
    /\ clear_utxos
    /\ UNCHANGED <<relayerVars, IsActivated, PendingTxs, ConfirmedTxs, feeVars, CurrentRound,
                   ServiceState, SystemVault, UserVault, memberVars, settingVars,
                   FinalizedRequests, ExecutedRequests, rollbackVars, SocketMessages,
                   BondedOutboundTx, BroadcastConfirmations>>

(* Mutant: the old inputs may be left out. *)
BumpPaysMore(old, new, type) ==
    /\ HasSystemVault
    /\ Cardinality(Outs[new]) - Cardinality(Outs[old]) \in -1..1
    /\ Fee[new] > Fee[old]
    /\ Outs[new] \ Outs[old] \subseteq
           IF type = "Migration" THEN {} ELSE {VaultOf(CurrentRound)}

(* try_bump_fee_psbt_verification: only the outputs of the new PSBT are looked
   up in the old one.  The amounts of the outputs are left out. *)
BumpVerified(old, new, type) ==
    /\ HasSystemVault
    /\ Cardinality(Outs[new]) - Cardinality(Outs[old]) \in -1..1
    /\ Inputs[old] \subseteq Inputs[new]
    /\ Fee[new] > Fee[old]
    /\ Outs[new] \ Outs[old] \subseteq
           IF type = "Migration" THEN {} ELSE {VaultOf(CurrentRound)}

(* Mutant: the old PSBT stays bonded to its outputs. *)
BumpMessagesOnly(old, new, messages) ==
    /\ SocketMessages' = [m \in Messages |-> IF m \in messages THEN new ELSE SocketMessages[m]]
    /\ UNCHANGED <<BondedOutboundTx, OngoingVaultMigration, rollbackVars>>

(* What replacing old by new changes for each type of request. *)
BumpNormal(old, new, messages) ==
    /\ SocketMessages' = [m \in Messages |-> IF m \in messages THEN new ELSE SocketMessages[m]]
    /\ BondedOutboundTx' = [BondedOutboundTx EXCEPT ![old] = None]
    /\ UNCHANGED <<OngoingVaultMigration, rollbackVars>>

BumpMigration(old, new) ==
    /\ OngoingVaultMigration' =
           add_migration_tx(remove_migration_tx(OngoingVaultMigration, old), new)
    /\ UNCHANGED <<SocketMessages, BondedOutboundTx, rollbackVars>>

BumpRollback(old, new) ==
    /\ old \in Rollbacks
    /\ RollbackRequests' = [RollbackRequests EXCEPT ![old] = None, ![new] = RollbackRequests[old]]
    /\ BondedRollbackOutputs' =
           [BondedRollbackOutputs EXCEPT ![RollbackRequests[old].deposit] = new]
    /\ UNCHANGED <<SocketMessages, BondedOutboundTx, OngoingVaultMigration>>

(* Governance replaces a transaction that is stuck in the mempool. *)
submit_bump_fee_request(old, new) ==
    LET request == ExecutedRequests[old]
    IN /\ old \in Executed
       /\ new # old
       /\ ServiceState = IF request.request_type = "Migration" THEN "UTXOTransfer" ELSE "Normal"
       /\ FeeVerified(new)
       /\ BumpVerified(old, new, request.request_type)
       /\ IsNew(new)
       /\ CASE request.request_type = "Normal" -> BumpNormal(old, new, request.socket_messages)
            [] request.request_type = "Migration" -> BumpMigration(old, new)
            [] request.request_type = "Rollback" -> BumpRollback(old, new)
       /\ ExecutedRequests' = [ExecutedRequests EXCEPT ![old] = None]
       /\ IF IsActivated
          THEN /\ PendingTxs[old] # None
               /\ AreKnown(PendingTxs[old].inputs \cup Inputs[new])
               /\ Utxos' = lock_utxos(unlock_utxos(Utxos, PendingTxs[old].inputs), Inputs[new])
               /\ PendingTxs' = [PendingTxs EXCEPT ![old] = None, ![new] = NewTx(Inputs[new])]
          ELSE UNCHANGED <<Utxos, PendingTxs>>
       /\ PendingRequests' = [PendingRequests EXCEPT ![new] =
              Request(request.request_type, request.socket_messages)]
       /\ UNCHANGED <<relayerVars, IsActivated, UnconfirmedUtxoCount, ConfirmedTxs, feeVars,
                      CurrentRound, ServiceState, SystemVault, UserVault, memberVars,
                      settingVars, FinalizedRequests, BroadcastConfirmations>>

-----------------------------------------------------------------------------
(* filter_unregistered_outbounds keeps the messages of registered users. *)
RegisteredOutbounds == {m \in OutboundPool : IsRegistered(UserOf[m])}

(* composite_psbt: outputs of at most DUST_LIMIT are left out, and the change
   goes to the system vault.  Which available coins the selection takes, and
   whether it finds any, depends on amounts and is left open. *)
IsComposite(p, messages) ==
    /\ Inputs[p] # {}
    /\ Inputs[p] \subseteq get_utxos
    /\ messages \ Dust # {}
    /\ \/ Outs[p] = messages \ Dust
       \/ HasSystemVault /\ Outs[p] = (messages \ Dust) \cup {VaultOf(CurrentRound)}

composite_psbt(p, messages) ==
    /\ IsComposite(p, messages)
    /\ PendingRequests' = [PendingRequests EXCEPT ![p] = Request("Normal", messages)]
    /\ SocketMessages' = [m \in Messages |-> IF m \in messages THEN p ELSE SocketMessages[m]]
    /\ FeeRates' = [a \in Accounts |-> None]
    /\ OutboundPool' = OutboundPool \ messages
    /\ Utxos' = lock_utxos(Utxos, Inputs[p])
    /\ PendingTxs' = [PendingTxs EXCEPT ![p] = NewTx(Inputs[p])]
    /\ handle_tolerance_counter(FALSE)

(* The start of a block, with the fee rates that expire at it. *)
on_initialize(expired) ==
    LET rates == Unexpired(expired)
        messages == RegisteredOutbounds
    IN /\ IsActivated
       /\ ServiceState = "Normal"
       /\ IF FeeRateFinalized(rates) /\ messages # {}
          THEN \/ \E p \in Composed : composite_psbt(p, messages)
               \/ /\ handle_tolerance_counter(TRUE)
                  /\ FeeRates' = rates
                  /\ UNCHANGED <<PendingRequests, SocketMessages, OutboundPool, Utxos, PendingTxs>>
          ELSE /\ FeeRates' = rates
               /\ UNCHANGED <<PendingRequests, SocketMessages, OutboundPool, Utxos, PendingTxs,
                              IsActivated, ToleranceCounter>>
       /\ UNCHANGED <<relayerVars, UnconfirmedUtxoCount, ConfirmedTxs, poolVars, settingVars,
                      FinalizedRequests, ExecutedRequests, rollbackVars, BondedOutboundTx,
                      BroadcastConfirmations>>

-----------------------------------------------------------------------------
(* Blaze's own calls.  Messages come from a selected relayer, within the size
   limit, and are removed by the authority of the queue. *)
verify_submit_outbound_requests(a, messages) ==
    /\ \A m \in messages : MessageBytes[m] <= MaxSocketMessageBytes
    /\ is_authority(a)

verify_remove_outbound_messages == Authority # None

BlazeCalls ==
    /\ \/ \E is_activated \in Activations : set_activation(is_activated)
       \/ \E a \in Accounts :
             \/ \E u \in UtxoIds : submit_utxo(a, u)
             \/ \E p \in Psbts : broadcast_poll(a, p)
             \/ \E lt, rate \in Rates : submit_fee_rate(a, lt, rate, MaxFeeRate)
             \/ \E messages \in SUBSET Messages :
                    /\ verify_submit_outbound_requests(a, messages)
                    /\ submit_outbound_requests(messages, VerifiedMessages)
       \/ \E utxos \in SUBSET UtxoIds : force_push_utxos(utxos)
       \/ /\ verify_remove_outbound_messages
          /\ \E messages \in SUBSET Messages : remove_outbound_messages(messages)
    /\ UNCHANGED <<relayerVars, poolVars, settingVars, queueVars>>

(* A step of the registration pool; a migration starts only when no request is
   under way. *)
PoolCalls ==
    /\ \/ VaultRequests
       \/ migration_start /\ is_ready_for_migrate
       \/ MigrationStep
       \/ \E new \in ExecutiveSets : membership_change(new)
    /\ UNCHANGED <<relayerVars, blazeVars, settingVars, queueVars>>

(* A key of a map of votes or signatures moves to the new account. *)
Moved(S, old, new) == IF old \in S THEN (S \ {old}) \cup {new} ELSE S
MovedVote(votes, old, new) ==
    IF votes[old] = "none" THEN votes ELSE [votes EXCEPT ![old] = "none", ![new] = votes[old]]

(* replace_authority of the socket queue. *)
replace_requests_authority(old, new) ==
    /\ PendingRequests' = [p \in Psbts |->
           IF p \in Pending
           THEN [PendingRequests[p] EXCEPT !.signed_psbts = Moved(@, old, new)] ELSE None]
    /\ RollbackRequests' = [p \in Psbts |->
           IF p \in Rollbacks /\ ~RollbackRequests[p].is_approved
           THEN [RollbackRequests[p] EXCEPT !.votes = MovedVote(@, old, new)]
           ELSE RollbackRequests[p]]
    /\ BroadcastConfirmations' =
           [p \in Psbts |-> Moved(BroadcastConfirmations[p], old, new)]
    /\ UNCHANGED <<FinalizedRequests, ExecutedRequests, BondedRollbackOutputs, SocketMessages,
                   BondedOutboundTx>>

(* A staking round starts: at most one relayer account is replaced in every
   pallet that knows it (two replacements are two rounds), then the relayers
   are selected anew. *)
new_round(rho, selected) ==
    /\ Cardinality(DOMAIN rho) <= 1
    /\ refresh_round(rho, selected)
    /\ IF DOMAIN rho = {}
       THEN UNCHANGED <<blazeVars, poolVars, queueVars>>
       ELSE \E old \in DOMAIN rho :
                /\ replace_requests_authority(old, rho[old])
                /\ replace_authority(old, rho[old])
                /\ IF old \in Executives /\ rho[old] \notin Executives
                   THEN replace_member(old, rho[old])
                   ELSE UNCHANGED poolVars
    /\ UNCHANGED settingVars

RequestCalls ==
    \/ \E a \in Accounts :
          \/ \E p \in WalletPsbts, messages \in SUBSET Messages :
                 submit_unsigned_psbt(a, p, messages)
          \/ \E p \in Psbts :
                \/ submit_signed_psbt(a, p)
                \/ submit_executed_request(a, p)
                \/ \E is_approved \in BOOLEAN : submit_rollback_poll(a, p, is_approved)
    \/ \E p \in WalletPsbts :
          \/ \E d \in Deposits : submit_rollback_request(p, d)
          \/ drop_pending_rollback_request(p)
          \/ submit_migration_request(p)
          \/ \E old \in Psbts : submit_bump_fee_request(old, p)

RelayerCalls ==
    \/ /\ RelayerMembership
       /\ UNCHANGED <<blazeVars, poolVars, settingVars, queueVars>>
    \/ \E rho \in Replacements, selected \in SUBSET Accounts : new_round(rho, selected)

Next ==
    \/ Settings
    \/ RequestCalls
    \/ \E expired \in SUBSET Accounts : on_initialize(expired)
    \/ BlazeCalls
    \/ PoolCalls
    \/ RelayerCalls

Spec == Init /\ [][Next]_vars

(* The executives sign every pending PSBT, and whoever broadcasts a finalized
   one reports it. *)
FairSpec ==
    /\ Spec
    /\ \A p \in Psbts :
           /\ WF_vars(\E a \in Accounts : submit_signed_psbt(a, p))
           /\ WF_vars(\E a \in Accounts : submit_executed_request(a, p))

-----------------------------------------------------------------------------
Requests == Pending \cup Finalized \cup Executed
UnderWay == Pending \cup Finalized

RequestOf(p) ==
    IF p \in Pending THEN PendingRequests[p]
    ELSE IF p \in Finalized THEN FinalizedRequests[p] ELSE ExecutedRequests[p]
TypeOf(p) == RequestOf(p).request_type

(* A transaction is in one stage only.  A rollback enters the stages when it
   is approved and not before, and only by way of its poll: no resubmission,
   late vote, fee bump or composition brings back a request that has moved on
   (the contains_key checks, is_approved). *)
OneStage ==
    /\ Pending \cap Finalized = {}
    /\ Pending \cap Executed = {}
    /\ Finalized \cap Executed = {}
    /\ \A p \in Rollbacks : RollbackRequests[p].is_approved <=> p \in Requests
    /\ \A p \in Requests : TypeOf(p) = "Rollback" <=> p \in Rollbacks

(* The coins are moved to the next vault with nothing else under way: outside
   Normal only migration requests are pending or finalized, and no rollback
   can still be approved; back in Normal no migration request is left.  No
   call but is_ready_for_migrate and the pool's own completion check looks at
   the other side. *)
MigrationIsolation ==
    /\ ServiceState # "Normal" =>
           /\ \A p \in UnderWay : TypeOf(p) = "Migration"
           /\ \A p \in Rollbacks : RollbackRequests[p].is_approved
    /\ ServiceState # "UTXOTransfer" => \A p \in UnderWay : TypeOf(p) # "Migration"

(* The registration pool's list of migration transactions agrees with the
   queue's requests, through submission, execution and fee bumps: the ones it
   waits for are under way, the ones it counts as executed were executed. *)
MigrationAccounted ==
    \A p \in Psbts :
        /\ OngoingVaultMigration[p] = "waiting" <=> p \in UnderWay /\ TypeOf(p) = "Migration"
        /\ OngoingVaultMigration[p] = "executed" => p \in Executed /\ TypeOf(p) = "Migration"

(* A transaction is in one stage, and the maps that point at it follow it
   through its stages and through fee bumps.  A payment's messages are bonded from its finalization
   on (BondedOutboundTx); the txid stored for a message is that of a request
   which has not been replaced and which lists the message (SocketMessages);
   the PSBT bonded to a deposit is the only one that may return it
   (BondedRollbackOutputs). *)
MapsFollowTx ==
    /\ OneStage
    /\ \A p \in Psbts :
           BondedOutboundTx[p] =
               IF p \in Finalized \cup Executed /\ TypeOf(p) = "Normal"
               THEN RequestOf(p).socket_messages ELSE None
    /\ \A m \in Messages : SocketMessages[m] # None =>
           /\ SocketMessages[m] \in Requests
           /\ m \in RequestOf(SocketMessages[m]).socket_messages
    /\ \A p \in Rollbacks : BondedRollbackOutputs[RollbackRequests[p].deposit] = p

(* A bumped transaction conflicts with the one it replaces: it is replaced by
   a request of the same type for the same messages that spends its inputs, so
   Bitcoin confirms at most one of them. *)
ReplacementConflicts ==
    [][\A p \in Executed : ExecutedRequests'[p] = None =>
           \E q \in Psbts :
               /\ PendingRequests[q] = None /\ PendingRequests'[q] # None
               /\ PendingRequests'[q].request_type = ExecutedRequests[p].request_type
               /\ PendingRequests'[q].socket_messages = ExecutedRequests[p].socket_messages
               /\ Inputs[p] \subseteq Inputs[q]]_vars

(* Every request that is submitted is signed and executed. *)
RequestsExecuted ==
    \A p \in Psbts : p \in Pending ~> p \in Executed

-----------------------------------------------------------------------------
(* Coins are taken from the available ones, locked, and unlocked or used one
   day (get_utxos, lock_utxos, broadcast_poll): no two transactions that Blaze
   follows spend the same UTXO, and a locked UTXO is an input of one of them. *)
InputsExclusive ==
    /\ \A p, q \in Psbts :
           p # q /\ PendingTxs[p] # None /\ PendingTxs[q] # None =>
               PendingTxs[p].inputs \cap PendingTxs[q].inputs = {}
    /\ \A u \in UtxoIds : Utxos[u] # None /\ Utxos[u].status = "Locked" =>
           \E p \in Psbts : PendingTxs[p] # None /\ u \in PendingTxs[p].inputs

(* The count that limits a relayer's submissions is the number of its UTXOs
   that are still unconfirmed. *)
UnconfirmedCountExact ==
    \A a \in Accounts : UnconfirmedUtxoCount[a] = Cardinality(SubmittedBy(a))

(* A message is listed by one request only, the one stored for it (verify_
   socket_message rejects a message that was submitted before). *)
MessagePaidOnce ==
    \A p \in Requests : \A m \in RequestOf(p).socket_messages : SocketMessages[m] = p

(* The PSBT stored for a message has an output for it. *)
MessageHasOutput ==
    \A m \in Messages : SocketMessages[m] # None => m \in Outs[SocketMessages[m]]

(* A deposit is bonded only while there is a request to return it. *)
BondedDepositHasRequest ==
    \A d \in Deposits : BondedRollbackOutputs[d] # None => BondedRollbackOutputs[d] \in Rollbacks

(* Blaze can record the confirmation of every transaction it follows. *)
ConfirmationPossible ==
    \A p \in Psbts : PendingTxs[p] # None => AreKnown(PendingTxs[p].inputs)

(* unlock_utxos finds the transaction of a migration that is to be bumped. *)
MigrationBumpable ==
    IsActivated /\ ServiceState = "UTXOTransfer" =>
        \A p \in Psbts : OngoingVaultMigration[p] = "executed" => PendingTxs[p] # None

(* unlock_utxos finds the transaction of a rollback that is to be dropped. *)
RollbackDroppable ==
    IsActivated /\ ServiceState = "Normal" =>
        \A p \in Rollbacks : ~RollbackRequests[p].is_approved => PendingTxs[p] # None
=============================================================================
