----------------------------- MODULE RelayQueue -----------------------------
(***************************************************************************)
(* pallet-cccp-relay-queue: relayers vote a cross-chain transfer on flight *)
(* and later vote its finalization.  A Fast transfer holds part of its     *)
(* asset's on-flight cap from approval to finalization.                    *)
(*                                                                         *)
(* A message stands for the hash of its REQUESTED form; its amount, asset  *)
(* index, request id and direction are constants.  Not kept: the option of *)
(* a pending transfer (overwritten at every vote, read by nothing) and the *)
(* on_flight_voters of an approved one (read by nothing).                  *)
(***************************************************************************)
EXTENDS RelayerSet, FiniteSetsExt, SequencesExt

CONSTANTS
    Messages, TxIds, Assets, Indexes, Requests, Sockets,
    Outbound,               \* the messages whose source chain is Bifrost
    ReqOf,                  \* request id of a message
    IndexOf,                \* asset index of a message
    Amount,                 \* transferred amount of a message
    None,                   \* absence of a value
    Caps,                   \* max_on_flight_cap values governance submits
    MAX_PENDING_TRANSFERS_PER_RELAYER,
    MAX_ON_FLIGHT_CAP,
    MAX_ASSET_INDEXES_PER_CALL

ASSUME RelayQueueAssumption ==
    /\ IsFiniteSet(Accounts) /\ IsFiniteSet(TxIds)
    /\ Outbound \subseteq Messages
    /\ ReqOf \in [Messages -> Requests]
    /\ IndexOf \in [Messages -> Indexes]
    /\ Amount \in [Messages -> Nat]
    /\ Caps \subseteq Nat
    /\ MAX_PENDING_TRANSFERS_PER_RELAYER \in Nat \ {0}
    /\ MAX_ON_FLIGHT_CAP \in Nat
    /\ MAX_ASSET_INDEXES_PER_CALL \in Nat
    /\ None \notin Assets \cup Sockets \cup Messages
    /\ None \notin [max_on_flight_cap : Nat, on_flight_cap : Nat]
    /\ None \notin [option : {"Fast", "Standard"}, src_tx_id : TxIds,
                    finalization_voters : Seq(Accounts)]

VARIABLES
    Socket,                 \* configured Socket contract or None
    requests,               \* external: request records of each Socket contract
    AssetIndexes,           \* index -> asset or None
    AssetIndexesHookState,  \* index -> "hookable" | "plain" | "unset"
    AssetCaps,              \* asset -> cap record or None
    PendingTransfers,       \* message, tx id -> on_flight_voters; <<>>: no entry
    PendingTransferCount,   \* relayer -> entries it introduced
    OnFlightTransfers,      \* message -> transfer record or None
    FinalizedTransfers      \* messages with a finalized transfer

assetVars == <<AssetIndexes, AssetIndexesHookState, AssetCaps>>
pendingVars == <<PendingTransfers, PendingTransferCount>>
transferVars == <<PendingTransfers, PendingTransferCount, OnFlightTransfers,
                  FinalizedTransfers>>
vars == <<relayerVars, Socket, requests, assetVars, transferVars>>

CapInfo == [max_on_flight_cap : Nat, on_flight_cap : Nat]
TransferInfo == [option : {"Fast", "Standard"}, src_tx_id : TxIds,
                 finalization_voters : Seq(Accounts)]
Statuses == {"zero", "requested", "accepted", "rejected", "committed", "rollbacked"}
RequestInfo == [status : Statuses, msg : Messages \cup {None}]

TypeOK ==
    /\ RelayerTypeOK
    /\ Socket \in Sockets \cup {None}
    /\ requests \in [Sockets -> [Requests -> RequestInfo]]
    /\ AssetIndexes \in [Indexes -> Assets \cup {None}]
    /\ AssetIndexesHookState \in [Indexes -> {"hookable", "plain", "unset"}]
    /\ AssetCaps \in [Assets -> CapInfo \cup {None}]
    /\ PendingTransfers \in [Messages -> [TxIds -> Seq(Accounts)]]
    /\ PendingTransferCount \in [Accounts -> Nat]
    /\ OnFlightTransfers \in [Messages -> TransferInfo \cup {None}]
    /\ FinalizedTransfers \subseteq Messages

Init ==
    /\ RelayerInit
    /\ Socket = None
    /\ requests = [s \in Sockets |-> [q \in Requests |-> [status |-> "zero", msg |-> None]]]
    /\ AssetIndexes = [i \in Indexes |-> None]
    /\ AssetIndexesHookState = [i \in Indexes |-> "unset"]
    /\ AssetCaps = [a \in Assets |-> None]
    /\ PendingTransfers = [m \in Messages |-> [t \in TxIds |-> <<>>]]
    /\ PendingTransferCount = [r \in Accounts |-> 0]
    /\ OnFlightTransfers = [m \in Messages |-> None]
    /\ FinalizedTransfers = {}

-----------------------------------------------------------------------------
(* External: the Socket contracts.  A user's request registers an outbound
   message; an inbound message is registered by the relayers' poll of its
   outcome.  An outbound request is later accepted or rejected, and then
   committed or rolled back. *)
Transitions == {<<"requested", "accepted">>, <<"requested", "rejected">>,
                <<"accepted", "committed">>, <<"rejected", "rollbacked">>}

SocketRegister(s, m, status) ==
    /\ requests[s][ReqOf[m]].status = "zero"
    /\ status \in (IF m \in Outbound THEN {"requested"} ELSE {"accepted", "rejected"})
    /\ requests' = [requests EXCEPT ![s][ReqOf[m]] = [status |-> status, msg |-> m]]
    /\ UNCHANGED <<relayerVars, Socket, assetVars, transferVars>>

SocketAdvance(s, q, status) ==
    /\ requests[s][q].msg \in Outbound
    /\ <<requests[s][q].status, status>> \in Transitions
    /\ requests' = [requests EXCEPT ![s][q].status = status]
    /\ UNCHANGED <<relayerVars, Socket, assetVars, transferVars>>

(* try_get_request: status of the message's request in the configured
   contract, and whether the stored content is the message's. *)
OnChainStatus(m) == requests[Socket][ReqOf[m]].status
validate_on_chain_existence(m) == requests[Socket][ReqOf[m]].msg = m

-----------------------------------------------------------------------------
(* The asset of the message's index, or None when it has no cap entry. *)
get_asset_info(m) ==
    LET asset == AssetIndexes[IndexOf[m]]
    IN IF asset = None THEN None
       ELSE IF AssetCaps[asset] = None THEN None ELSE asset

(* Mutant: compares the current usage, without the new amount. *)
determine_transfer_option_stale(cap, amount) ==
    IF cap.on_flight_cap > cap.max_on_flight_cap THEN "Standard" ELSE "Fast"

determine_transfer_option(cap, amount) ==
    IF cap.on_flight_cap + amount > cap.max_on_flight_cap THEN "Standard" ELSE "Fast"

OptionOf(m) ==
    IF get_asset_info(m) = None THEN "Standard"
    ELSE determine_transfer_option(AssetCaps[get_asset_info(m)], Amount[m])

(* Mutant: forgets that only Fast transfers hold the cap. *)
update_cap_any_option(m, option, sign) ==
    LET asset == get_asset_info(m)
    IN IF asset # None
       THEN /\ AssetCaps[asset].on_flight_cap + sign * Amount[m] >= 0
            /\ AssetCaps' = [AssetCaps EXCEPT ![asset].on_flight_cap = @ + sign * Amount[m]]
       ELSE UNCHANGED AssetCaps

(* Locks (sign 1) or releases (sign -1) the amount of a Fast transfer of a
   registered asset; checked_sub refuses to go below zero. *)
update_fast_transfer_cap(m, option, sign) ==
    LET asset == get_asset_info(m)
    IN IF option = "Fast" /\ asset # None
       THEN /\ AssetCaps[asset].on_flight_cap + sign * Amount[m] >= 0
            /\ AssetCaps' = [AssetCaps EXCEPT ![asset].on_flight_cap = @ + sign * Amount[m]]
       ELSE UNCHANGED AssetCaps

Stored(m) == {t \in TxIds : PendingTransfers[m][t] # <<>>}

(* Entries of m that a relayer introduced: it is their first voter. *)
IntroducedBy(m, r) == {t \in Stored(m) : Head(PendingTransfers[m][t]) = r}

(* Mutant: plain subtraction. *)
wrapping_sub(a, b) == a - b

saturating_sub(a, b) == IF a >= b THEN a - b ELSE 0

(* Mutant: looks only into FinalizedTransfers. *)
NotFinalized(m) == m \notin FinalizedTransfers

NotYetApproved(m) == OnFlightTransfers[m] = None /\ m \notin FinalizedTransfers

(* The ensure!s of on_flight_poll and its validate_unsigned. *)
CanPollOnFlight(r, m, t) ==
    /\ is_authority(r)
    /\ NotYetApproved(m)
    /\ t \notin Stored(m) =>
           PendingTransferCount[r] < MAX_PENDING_TRANSFERS_PER_RELAYER
    /\ Socket # None
    /\ IF m \in Outbound
       THEN validate_on_chain_existence(m) /\ OnChainStatus(m) = "requested"
       ELSE OnChainStatus(m) = "zero"
    /\ r \notin ToSet(PendingTransfers[m][t])

(* Mutant: clears the approved entry only. *)
ApprovedEntryCleared(m, t) == [PendingTransfers EXCEPT ![m][t] = <<>>]

(* clear_prefix: every entry of the message, whatever its source transaction. *)
EntriesCleared(m, t) == [PendingTransfers EXCEPT ![m] = [tx \in TxIds |-> <<>>]]

(* The vote reaches the majority: lock the cap of a Fast transfer, clear
   every entry of the message and give their slots back. *)
ApproveTransfer(m, t) ==
    /\ update_fast_transfer_cap(m, OptionOf(m), 1)
    /\ PendingTransferCount' =
           [r \in Accounts |->
               saturating_sub(PendingTransferCount[r], Cardinality(IntroducedBy(m, r)))]
    /\ PendingTransfers' = EntriesCleared(m, t)
    /\ OnFlightTransfers' =
           [OnFlightTransfers EXCEPT ![m] =
               [option |-> OptionOf(m), src_tx_id |-> t, finalization_voters |-> <<>>]]

StoreVote(r, m, t) ==
    /\ PendingTransferCount' =
           IF t \in Stored(m) THEN PendingTransferCount
           ELSE [PendingTransferCount EXCEPT ![r] = @ + 1]
    /\ PendingTransfers' = [PendingTransfers EXCEPT ![m][t] = Append(@, r)]
    /\ UNCHANGED <<AssetCaps, OnFlightTransfers>>

on_flight_poll(r, m, t) ==
    /\ CanPollOnFlight(r, m, t)
    /\ IF Len(PendingTransfers[m][t]) + 1 >= Majority
       THEN ApproveTransfer(m, t)
       ELSE StoreVote(r, m, t)
    /\ UNCHANGED <<relayerVars, Socket, requests, AssetIndexes,
                   AssetIndexesHookState, FinalizedTransfers>>

(* Mutant: an outbound transfer must be committed. *)
CommitConfirmed(m, claimed) ==
    IF m \in Outbound THEN OnChainStatus(m) = claimed /\ claimed = "committed"
    ELSE OnChainStatus(m) = "accepted" /\ claimed \in {"accepted", "committed"}

(* The status check of finalize_poll: what the submitted message claims must
   agree with the Socket contract. *)
OutcomeConfirmed(m, claimed) ==
    IF m \in Outbound
    THEN OnChainStatus(m) = claimed /\ claimed \in {"committed", "rollbacked"}
    ELSE \/ OnChainStatus(m) = "accepted" /\ claimed \in {"accepted", "committed"}
         \/ OnChainStatus(m) = "rejected" /\ claimed \in {"rejected", "rollbacked"}

(* Outbound transfers finalize at once, inbound ones at the majority. *)
finalize_poll(r, m, claimed) ==
    /\ is_authority(r)
    /\ m \notin FinalizedTransfers
    /\ OnFlightTransfers[m] # None
    /\ Socket # None
    /\ validate_on_chain_existence(m)
    /\ r \notin ToSet(OnFlightTransfers[m].finalization_voters)
    /\ OutcomeConfirmed(m, claimed)
    /\ IF \/ m \in Outbound
          \/ Len(OnFlightTransfers[m].finalization_voters) + 1 >= Majority
       THEN /\ update_fast_transfer_cap(m, OnFlightTransfers[m].option, -1)
            /\ OnFlightTransfers' = [OnFlightTransfers EXCEPT ![m] = None]
            /\ FinalizedTransfers' = FinalizedTransfers \cup {m}
       ELSE /\ OnFlightTransfers' =
                   [OnFlightTransfers EXCEPT ![m].finalization_voters = Append(@, r)]
            /\ UNCHANGED <<AssetCaps, FinalizedTransfers>>
    /\ UNCHANGED <<relayerVars, Socket, requests, AssetIndexes,
                   AssetIndexesHookState, pendingVars>>

-----------------------------------------------------------------------------
set_socket(new) ==
    /\ Socket # new
    /\ Socket' = new
    /\ UNCHANGED <<relayerVars, requests, assetVars, transferVars>>

HookStates == {"hookable", "plain"}
(* The lists of some of the given indexes, each with a hook state. *)
HookChoices(indexes) == UNION {[listed -> HookStates] : listed \in SUBSET indexes}

(* Overrides the entries of f at the indexes in DOMAIN g. *)
Inserted(f, g) == [i \in DOMAIN f |-> IF i \in DOMAIN g THEN g[i] ELSE f[i]]

(* hooks: the submitted indexes with their is_hookable flags. *)
add_asset(asset, cap, hooks) ==
    /\ DOMAIN hooks # {}
    /\ Cardinality(DOMAIN hooks) <= MAX_ASSET_INDEXES_PER_CALL
    /\ cap <= MAX_ON_FLIGHT_CAP
    /\ AssetCaps[asset] = None
    /\ \A i \in DOMAIN hooks : AssetIndexes[i] = None
    /\ AssetCaps' = [AssetCaps EXCEPT ![asset] =
                        [max_on_flight_cap |-> cap, on_flight_cap |-> 0]]
    /\ AssetIndexes' = Inserted(AssetIndexes, [i \in DOMAIN hooks |-> asset])
    /\ AssetIndexesHookState' = Inserted(AssetIndexesHookState, hooks)
    /\ UNCHANGED <<relayerVars, Socket, requests, transferVars>>

has_active_transfers(indexes) ==
    \E m \in Messages : OnFlightTransfers[m] # None /\ IndexOf[m] \in indexes

IndexesOf(asset) == {i \in Indexes : AssetIndexes[i] = asset}

remove_asset(asset) ==
    LET indexes == IndexesOf(asset)
    IN /\ AssetCaps[asset] # None
       /\ ~has_active_transfers(indexes)
       /\ AssetCaps' = [AssetCaps EXCEPT ![asset] = None]
       /\ AssetIndexes' = Inserted(AssetIndexes, [i \in indexes |-> None])
       /\ AssetIndexesHookState' = Inserted(AssetIndexesHookState, [i \in indexes |-> "unset"])
       /\ UNCHANGED <<relayerVars, Socket, requests, transferVars>>

(* cap = None: no new cap is given.  The additions are inserted before the
   updates are looked up. *)
update_asset(asset, cap, add, upd, rem) ==
    /\ \A given \in {DOMAIN add, DOMAIN upd, rem} :
           Cardinality(given) <= MAX_ASSET_INDEXES_PER_CALL
    /\ rem \cap (DOMAIN add \cup DOMAIN upd) = {}
    /\ AssetCaps[asset] # None
    /\ cap # None => /\ cap # AssetCaps[asset].max_on_flight_cap
                     /\ cap > 0
                     /\ cap <= MAX_ON_FLIGHT_CAP
                     /\ cap >= AssetCaps[asset].on_flight_cap
    /\ \A i \in DOMAIN add : AssetIndexes[i] = None /\ AssetIndexesHookState[i] = "unset"
    /\ \A i \in DOMAIN upd \ DOMAIN add :
           AssetIndexes[i] # None /\ AssetIndexesHookState[i] # "unset"
    /\ \A i \in rem : AssetIndexes[i] = asset
    /\ ~has_active_transfers(rem)
    /\ AssetCaps' = IF cap = None THEN AssetCaps
                    ELSE [AssetCaps EXCEPT ![asset].max_on_flight_cap = cap]
    /\ AssetIndexes' = Inserted(Inserted(AssetIndexes, [i \in DOMAIN add |-> asset]),
                                [i \in rem |-> None])
    /\ AssetIndexesHookState' = Inserted(Inserted(Inserted(AssetIndexesHookState, add), upd),
                                         [i \in rem |-> "unset"])
    /\ UNCHANGED <<relayerVars, Socket, requests, transferVars>>

-----------------------------------------------------------------------------
(* Every due replacement puts the new account in the place of the first
   occurrence of the old one.  No account is both replaced and replacing, so
   their order does not matter. *)
ReplaceVoters(voters, rho) ==
    LET first(i) == \A j \in 1..(i - 1) : voters[j] # voters[i]
    IN [i \in DOMAIN voters |->
           IF voters[i] \in DOMAIN rho /\ first(i) THEN rho[voters[i]] ELSE voters[i]]

(* Mutant: reads the old account's count without taking it away. *)
CopiedCount(rho, r) ==
    LET olds == {old \in DOMAIN rho : rho[old] = r /\ PendingTransferCount[old] > 0}
    IN IF olds # {} THEN PendingTransferCount[CHOOSE old \in olds : TRUE]
       ELSE PendingTransferCount[r]

(* The count moves with the account, over whatever the new account had. *)
ReplacedCount(rho, r) ==
    LET olds == {old \in DOMAIN rho : rho[old] = r /\ PendingTransferCount[old] > 0}
    IN IF r \in DOMAIN rho THEN 0
       ELSE IF olds # {} THEN PendingTransferCount[CHOOSE old \in olds : TRUE]
       ELSE PendingTransferCount[r]

replace_authority(rho) ==
    /\ PendingTransferCount' = [r \in Accounts |-> ReplacedCount(rho, r)]
    /\ PendingTransfers' = [m \in Messages |-> [t \in TxIds |->
                               ReplaceVoters(PendingTransfers[m][t], rho)]]
    /\ OnFlightTransfers' =
           [m \in Messages |->
               IF OnFlightTransfers[m] = None THEN None
               ELSE [OnFlightTransfers[m] EXCEPT
                        !.finalization_voters = ReplaceVoters(@, rho)]]
    /\ UNCHANGED FinalizedTransfers

new_round(rho, selected) ==
    /\ refresh_round(rho, selected)
    /\ replace_authority(rho)
    /\ UNCHANGED <<Socket, requests, assetVars>>

-----------------------------------------------------------------------------
Relayer ==
    \/ \E r \in Accounts, m \in Messages, t \in TxIds : on_flight_poll(r, m, t)
    \/ \E r \in Accounts, m \in Messages, claimed \in Statuses : finalize_poll(r, m, claimed)

Governance ==
    \/ \E new \in Sockets : set_socket(new)
    \/ \E asset \in Assets, cap \in Caps, hooks \in HookChoices(Indexes) :
          add_asset(asset, cap, hooks)
    \/ \E asset \in Assets : remove_asset(asset)
    \/ \E asset \in Assets, cap \in Caps \cup {None}, rem \in SUBSET Indexes :
          \E add, upd \in HookChoices(Indexes \ rem) : update_asset(asset, cap, add, upd, rem)

SocketContract ==
    \E s \in Sockets :
        \/ \E m \in Messages, status \in Statuses : SocketRegister(s, m, status)
        \/ \E q \in Requests, status \in Statuses : SocketAdvance(s, q, status)

Membership ==
    \/ RelayerMembership /\ UNCHANGED <<Socket, requests, assetVars, transferVars>>
    \/ \E rho \in Replacements, selected \in SUBSET Accounts : new_round(rho, selected)

Next == Relayer \/ Governance \/ SocketContract \/ Membership

Spec == Init /\ [][Next]_vars

(* A selected relayer keeps submitting its finalization vote until it is
   accepted: relayers poll and resubmit, the pallet does not limit retries. *)
FairSpec ==
    /\ Spec
    /\ \A r \in Accounts, m \in Messages :
           SF_vars(\E claimed \in Statuses : finalize_poll(r, m, claimed))

-----------------------------------------------------------------------------
OnFlight(m) == OnFlightTransfers[m] # None
FastOnFlight == {m \in Messages : OnFlight(m) /\ OnFlightTransfers[m].option = "Fast"}

(* The on_flight_cap that AssetCaps stores for an asset is the sum of the
   amounts of its Fast transfers that are on flight, whatever governance did
   to the asset and its indexes since they were approved. *)
CapAccounting ==
    \A asset \in Assets : AssetCaps[asset] # None =>
        AssetCaps[asset].on_flight_cap =
            MapThenSumSet(LAMBDA m : Amount[m],
                          {m \in FastOnFlight : AssetIndexes[IndexOf[m]] = asset})

(* Fast transfers never exceed the asset's maximum, although votes, cap
   updates and finalizations interleave (determine_transfer_option is
   evaluated on a cap that update_asset may lower later). *)
CapRespected ==
    \A asset \in Assets : AssetCaps[asset] # None =>
        AssetCaps[asset].on_flight_cap <= AssetCaps[asset].max_on_flight_cap

(* The cap release of finalize_poll cannot fail: the asset of a Fast transfer
   on flight is still registered and holds at least its amount, so that
   checked_sub does not return OutOfRange and undo the finalization. *)
ReleasePossible ==
    \A m \in FastOnFlight :
        /\ get_asset_info(m) # None
        /\ AssetCaps[get_asset_info(m)].on_flight_cap >= Amount[m]

(* A message is in at most one of the stages pending, on flight, finalized. *)
OneStage ==
    \A m \in Messages :
        /\ OnFlight(m) => Stored(m) = {} /\ m \notin FinalizedTransfers
        /\ m \in FinalizedTransfers => Stored(m) = {}

(* add_asset, remove_asset and update_asset keep the two index maps in step
   and leave no index of an asset without a cap entry. *)
IndexesConsistent ==
    \A i \in Indexes :
        /\ AssetIndexes[i] = None <=> AssetIndexesHookState[i] = "unset"
        /\ AssetIndexes[i] # None => AssetCaps[AssetIndexes[i]] # None

Introduced(r) == {entry \in Messages \X TxIds : entry[2] \in IntroducedBy(entry[1], r)}

(* No slot leaks: a relayer is charged for no more entries than it really has
   in storage, so that PendingTransferCapExceeded never blocks a relayer on
   account of entries that are gone. *)
NoSlotLeak ==
    \A r \in Accounts : PendingTransferCount[r] <= Cardinality(Introduced(r))

(* PendingTransferCount documents itself as "The number of pending transfers
   each relayer currently has introduced". *)
PendingCountExact ==
    \A r \in Accounts : PendingTransferCount[r] = Cardinality(Introduced(r))

ForwardStep ==
    \A m \in Messages :
        /\ m \in FinalizedTransfers => m \in FinalizedTransfers'
        /\ m \in FinalizedTransfers' \ FinalizedTransfers => OnFlight(m)
        /\ OnFlight(m) =>
              \/ m \in FinalizedTransfers'
              \/ /\ OnFlight(m)'
                 /\ OnFlightTransfers[m].option = OnFlightTransfers'[m].option
                 /\ OnFlightTransfers[m].src_tx_id = OnFlightTransfers'[m].src_tx_id

(* What no step does: un-finalize a message, drop an approved transfer
   without finalizing it, change its option or source transaction, or
   finalize a transfer that was never approved. *)
OnlyForward == [][ForwardStep]_vars

SettledOnChain(m, outcomes) ==
    Socket # None /\ validate_on_chain_existence(m) /\ OnChainStatus(m) \in outcomes

(* An outbound transfer that is on flight finalizes once its request stays
   committed or rolled back in the configured contract, provided that there
   are relayers time and again. *)
OutboundFinalizes ==
    \A m \in Outbound :
        []<>(SelectedRelayers # {} /\ SettledOnChain(m, {"committed", "rollbacked"}))
            => (OnFlight(m) ~> m \in FinalizedTransfers)

(* "When majority reached, finalize the transfer": an inbound transfer whose
   outcome is on chain finalizes when the selected relayers keep voting. *)
InboundFinalizes ==
    \A m \in Messages \ Outbound :
        <>[](SelectedRelayers # {} /\ SettledOnChain(m, {"accepted", "rejected"}))
            => (OnFlight(m) ~> m \in FinalizedTransfers)
=============================================================================
