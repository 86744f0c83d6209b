-------------------------- MODULE RelayQueueProofs --------------------------
(***************************************************************************)
(* Type correctness and stage, index and cap safety of RelayQueue, for any *)
(* number of accounts, messages, source transactions, assets and indexes.  *)
(***************************************************************************)
EXTENDS RelayQueue, FiniteSetTheorems, SequenceTheorems, TLAPS

(* A Fast transfer on flight belongs to a registered asset: what makes the
   invariant inductive, as remove_asset and update_asset must not take away
   the cap entry that the transfer holds a share of. *)
FastRegistered == \A m \in FastOnFlight : get_asset_info(m) # None

IInv == TypeOK /\ OneStage /\ IndexesConsistent /\ CapRespected /\ FastRegistered

-----------------------------------------------------------------------------
(* compute_majority of any set of relayers is a positive number. *)
LEMMA MajorityType ==
    ASSUME NEW S, S \subseteq Accounts
    PROVE compute_majority(S) \in Nat \ {0}
<1>1. IsFiniteSet(S)
  BY FS_Subset, RelayQueueAssumption
<1>2. Cardinality(S) \in Nat
  BY <1>1, FS_CardinalityType
<1>3. QED
  BY <1>2 DEF compute_majority

(* replace_authority keeps voter lists lists of accounts, of the same length. *)
LEMMA ReplaceVotersType ==
    ASSUME NEW voters \in Seq(Accounts), NEW rho,
           \A a \in DOMAIN rho : rho[a] \in Accounts
    PROVE /\ ReplaceVoters(voters, rho) \in Seq(Accounts)
          /\ Len(ReplaceVoters(voters, rho)) = Len(voters)
<1>1. DOMAIN voters = 1..Len(voters) /\ Len(voters) \in Nat
      /\ \A i \in 1..Len(voters) : voters[i] \in Accounts
  BY LenProperties, ElementOfSeq
<1>2. ReplaceVoters(voters, rho) \in [1..Len(voters) -> Accounts]
  BY <1>1 DEF ReplaceVoters
<1>3. QED
  BY <1>1, <1>2, IsASeq, LenProperties

(* A list is empty after the replacements exactly if it was empty before. *)
LEMMA ReplaceVotersEmpty ==
    ASSUME NEW voters \in Seq(Accounts), NEW rho,
           \A a \in DOMAIN rho : rho[a] \in Accounts
    PROVE ReplaceVoters(voters, rho) = <<>> <=> voters = <<>>
<1>1. Len(ReplaceVoters(voters, rho)) = Len(voters)
      /\ ReplaceVoters(voters, rho) \in Seq(Accounts)
  BY ReplaceVotersType
<1>2. \A s \in Seq(Accounts) : s = <<>> <=> Len(s) = 0
  BY EmptySeq
<1>3. QED
  BY <1>1, <1>2

LEMMA InitIInv == Init => IInv
<1> SUFFICES ASSUME Init PROVE IInv
  OBVIOUS
<1>1. TypeOK
  <2>1. RelayerTypeOK
    BY MajorityType DEF Init, RelayerInit, RelayerTypeOK
  <2>2. <<>> \in Seq(Accounts)
    BY EmptySeq
  <2>3. QED
    BY <2>1, <2>2 DEF Init, TypeOK, RequestInfo, Statuses
<1>2. OneStage /\ IndexesConsistent /\ CapRespected /\ FastRegistered
  BY DEF Init, OneStage, IndexesConsistent, CapRespected, FastRegistered, OnFlight,
         FastOnFlight, Stored
<1>3. QED
  BY <1>1, <1>2 DEF IInv

-----------------------------------------------------------------------------
(* Steps that leave the transfers and the assets alone. *)
LEMMA TransfersUnchanged ==
    ASSUME OneStage, IndexesConsistent, CapRespected, FastRegistered,
           UNCHANGED <<assetVars, transferVars>>
    PROVE OneStage' /\ IndexesConsistent' /\ CapRespected' /\ FastRegistered'
BY DEF OneStage, IndexesConsistent, CapRespected, FastRegistered, OnFlight,
       FastOnFlight, Stored, get_asset_info, assetVars, transferVars

LEMMA SocketStep ==
    ASSUME IInv, SocketContract \/ (\E new \in Sockets : set_socket(new))
    PROVE IInv'
<1>1. CASE \E new \in Sockets : set_socket(new)
  <2>1. TypeOK'
    BY <1>1 DEF IInv, TypeOK, RelayerTypeOK, set_socket, relayerVars, assetVars, transferVars
  <2>2. QED
    BY <1>1, <2>1, TransfersUnchanged DEF IInv, set_socket
<1>2. ASSUME NEW s \in Sockets, NEW m \in Messages, NEW status \in Statuses,
             SocketRegister(s, m, status)
      PROVE IInv'
  <2>1. requests' \in [Sockets -> [Requests -> RequestInfo]]
    BY <1>2, RelayQueueAssumption DEF IInv, TypeOK, SocketRegister, RequestInfo
  <2>2. TypeOK'
    BY <1>2, <2>1 DEF IInv, TypeOK, RelayerTypeOK, SocketRegister, relayerVars, assetVars,
                      transferVars
  <2>3. QED
    BY <1>2, <2>2, TransfersUnchanged DEF IInv, SocketRegister
<1>3. ASSUME NEW s \in Sockets, NEW q \in Requests, NEW status \in Statuses,
             SocketAdvance(s, q, status)
      PROVE IInv'
  <2>1. requests' \in [Sockets -> [Requests -> RequestInfo]]
    <3> DEFINE new == [requests[s][q] EXCEPT !.status = status]
    <3>1. requests[s][q] \in RequestInfo
      BY DEF IInv, TypeOK
    <3>2. new \in RequestInfo
      BY <3>1 DEF RequestInfo
    <3>3. requests' = [requests EXCEPT ![s][q] = new]
      BY <1>3 DEF SocketAdvance, IInv, TypeOK
    <3> HIDE DEF new
    <3>4. QED
      BY <3>2, <3>3 DEF IInv, TypeOK
  <2>2. TypeOK'
    BY <1>3, <2>1 DEF IInv, TypeOK, RelayerTypeOK, SocketAdvance, relayerVars, assetVars,
                      transferVars
  <2>3. QED
    BY <1>3, <2>2, TransfersUnchanged DEF IInv, SocketAdvance
<1>4. QED
  BY <1>1, <1>2, <1>3 DEF SocketContract

LEMMA MembershipChange ==
    ASSUME IInv, RelayerMembership, UNCHANGED <<Socket, requests, assetVars, transferVars>>
    PROVE IInv'
<1>1. RelayerTypeOK'
  <2> PICK relayer \in Accounts :
        join_relayers(relayer) \/ leave_relayers(relayer) \/ kickout_relayer(relayer)
    BY DEF RelayerMembership
  <2>1. CASE join_relayers(relayer) \/ leave_relayers(relayer)
    BY <2>1 DEF IInv, TypeOK, RelayerTypeOK, join_relayers, leave_relayers
  <2>2. CASE kickout_relayer(relayer)
    <3>1. SelectedRelayers' \subseteq Accounts
      BY <2>2 DEF IInv, TypeOK, RelayerTypeOK, kickout_relayer
    <3>2. Majority' \in Nat \ {0}
      BY <2>2, <3>1, MajorityType DEF kickout_relayer
    <3>3. QED
      BY <2>2, <3>1, <3>2 DEF IInv, TypeOK, RelayerTypeOK, kickout_relayer
  <2>3. QED
    BY <2>1, <2>2
<1>2. TypeOK'
  BY <1>1 DEF IInv, TypeOK, assetVars, transferVars
<1>3. QED
  BY <1>2, TransfersUnchanged DEF IInv

(* Locking and releasing a Fast transfer's amount keeps the cap map typed. *)
LEMMA CapUpdateType ==
    ASSUME TypeOK, NEW m \in Messages, NEW option, NEW sign \in {1, -1},
           update_fast_transfer_cap(m, option, sign)
    PROVE /\ AssetCaps' \in [Assets -> CapInfo \cup {None}]
          /\ \A a \in Assets : AssetCaps'[a] = None <=> AssetCaps[a] = None
          /\ \A a \in Assets : AssetCaps[a] # None =>
                AssetCaps'[a].max_on_flight_cap = AssetCaps[a].max_on_flight_cap
<1> DEFINE asset == get_asset_info(m)
<1>1. CASE option = "Fast" /\ asset # None
  <2>1. asset \in Assets /\ AssetCaps[asset] \in CapInfo
    BY <1>1, RelayQueueAssumption DEF TypeOK, get_asset_info
  <2>2. Amount[m] \in Nat
    BY RelayQueueAssumption
  <2> DEFINE cap == AssetCaps[asset].on_flight_cap + sign * Amount[m]
  <2>3. cap \in Nat
    BY <1>1, <2>1, <2>2 DEF update_fast_transfer_cap, CapInfo
  <2>4. AssetCaps' = [AssetCaps EXCEPT ![asset].on_flight_cap = cap]
    BY <1>1 DEF update_fast_transfer_cap
  <2>5. [AssetCaps[asset] EXCEPT !.on_flight_cap = cap] \in CapInfo
    BY <2>1, <2>3 DEF CapInfo
  <2>6. None \notin CapInfo
    BY RelayQueueAssumption DEF CapInfo
  <2> HIDE DEF asset, cap
  <2>7. QED
    BY <2>1, <2>4, <2>5, <2>6 DEF TypeOK, CapInfo
<1>2. CASE ~(option = "Fast" /\ asset # None)
  BY <1>2 DEF TypeOK, update_fast_transfer_cap
<1>3. QED
  BY <1>1, <1>2

-----------------------------------------------------------------------------
(* Approval: the cap is locked only when it stays within the maximum, and the
   message leaves the pending stage entirely. *)
LEMMA ApproveStep ==
    ASSUME IInv, NEW r \in Accounts, NEW m \in Messages, NEW t \in TxIds,
           CanPollOnFlight(r, m, t), ApproveTransfer(m, t),
           UNCHANGED <<relayerVars, Socket, requests, AssetIndexes,
                       AssetIndexesHookState, FinalizedTransfers>>
    PROVE IInv'
<1> DEFINE option == OptionOf(m)
           approved == [option |-> option, src_tx_id |-> t, finalization_voters |-> <<>>]
<1>a. TypeOK /\ OneStage /\ IndexesConsistent /\ CapRespected /\ FastRegistered
  BY DEF IInv
<1>b. /\ OnFlightTransfers[m] = None /\ m \notin FinalizedTransfers
      /\ update_fast_transfer_cap(m, option, 1)
      /\ OnFlightTransfers' = [OnFlightTransfers EXCEPT ![m] = approved]
      /\ PendingTransfers' = [PendingTransfers EXCEPT ![m] = [tx \in TxIds |-> <<>>]]
  BY DEF CanPollOnFlight, NotYetApproved, ApproveTransfer, EntriesCleared
<1>c. approved \in TransferInfo /\ None \notin TransferInfo
  <2>1. option \in {"Fast", "Standard"}
    BY DEF OptionOf, determine_transfer_option
  <2>2. <<>> \in Seq(Accounts)
    BY EmptySeq
  <2> HIDE DEF option
  <2>3. QED
    BY <2>1, <2>2, RelayQueueAssumption DEF TransferInfo
<1>d. approved.option = option
  OBVIOUS
<1> HIDE DEF approved
<1>1. /\ AssetCaps' \in [Assets -> CapInfo \cup {None}]
      /\ \A a \in Assets : AssetCaps'[a] = None <=> AssetCaps[a] = None
      /\ \A a \in Assets : AssetCaps[a] # None =>
            AssetCaps'[a].max_on_flight_cap = AssetCaps[a].max_on_flight_cap
  BY <1>a, <1>b, CapUpdateType
<1>2. TypeOK'
  <2>1. PendingTransferCount' \in [Accounts -> Nat]
    <3>1. \A a \in Accounts : Cardinality(IntroducedBy(m, a)) \in Nat
      BY FS_Subset, FS_CardinalityType, RelayQueueAssumption DEF IntroducedBy, Stored
    <3>2. ASSUME NEW a \in Accounts
          PROVE saturating_sub(PendingTransferCount[a], Cardinality(IntroducedBy(m, a))) \in Nat
      <4>1. PendingTransferCount[a] \in Nat
        BY <1>a DEF TypeOK
      <4>2. QED
        BY <3>1, <4>1 DEF saturating_sub
    <3>3. QED
      BY <3>2 DEF ApproveTransfer
  <2>2. PendingTransfers' \in [Messages -> [TxIds -> Seq(Accounts)]]
    <3>1. [tx \in TxIds |-> <<>>] \in [TxIds -> Seq(Accounts)]
      BY EmptySeq
    <3>2. QED
      BY <1>a, <1>b, <3>1 DEF TypeOK
  <2>3. OnFlightTransfers' \in [Messages -> TransferInfo \cup {None}]
    BY <1>a, <1>b, <1>c DEF TypeOK
  <2>4. QED
    BY <1>a, <1>1, <2>1, <2>2, <2>3 DEF TypeOK, RelayerTypeOK, relayerVars
<1>3. OneStage'
  BY <1>a, <1>b, <1>c DEF TypeOK, OneStage, OnFlight, Stored
<1>4. IndexesConsistent'
  BY <1>a, <1>1 DEF TypeOK, IndexesConsistent
<1>5. CapRespected'
  <2> SUFFICES ASSUME NEW a \in Assets, AssetCaps'[a] # None
               PROVE AssetCaps'[a].on_flight_cap <= AssetCaps'[a].max_on_flight_cap
    BY DEF CapRespected
  <2>1. AssetCaps[a] \in CapInfo
    BY <1>a, <1>1 DEF TypeOK
  <2>2. CASE option = "Fast" /\ get_asset_info(m) = a
    <3>1. a # None
      BY RelayQueueAssumption
    <3>2. AssetCaps[a].on_flight_cap + Amount[m] <= AssetCaps[a].max_on_flight_cap
      BY <2>1, <2>2, <3>1, RelayQueueAssumption
         DEF OptionOf, determine_transfer_option, CapInfo
    <3>3. AssetCaps'[a].on_flight_cap = AssetCaps[a].on_flight_cap + Amount[m]
      <4>1. AssetCaps' = [AssetCaps EXCEPT ![a].on_flight_cap = @ + 1 * Amount[m]]
        BY <1>b, <2>2, <3>1 DEF update_fast_transfer_cap
      <4>2. 1 * Amount[m] = Amount[m]
        BY RelayQueueAssumption
      <4>3. QED
        BY <1>a, <2>1, <4>1, <4>2 DEF TypeOK, CapInfo
    <3>4. QED
      BY <1>1, <2>1, <3>2, <3>3, RelayQueueAssumption DEF CapInfo
  <2>3. CASE ~(option = "Fast" /\ get_asset_info(m) = a)
    <3>1. AssetCaps'[a] = AssetCaps[a]
      BY <1>a, <1>b, <2>3 DEF update_fast_transfer_cap, TypeOK
    <3>2. QED
      BY <1>a, <3>1 DEF CapRespected
  <2>4. QED
    BY <2>2, <2>3
<1>6. FastRegistered'
  <2> SUFFICES ASSUME NEW n \in FastOnFlight' PROVE get_asset_info(n)' # None
    BY DEF FastRegistered
  <2>0. n \in Messages
    BY DEF FastOnFlight
  <2>1. get_asset_info(n)' = get_asset_info(n)
    BY <1>a, <1>1, <2>0, RelayQueueAssumption DEF get_asset_info, TypeOK
  <2>2. CASE n = m
    <3>1. option = "Fast"
      BY <1>a, <1>b, <1>d, <2>2 DEF FastOnFlight, TypeOK
    <3>2. get_asset_info(m) # None
      BY <3>1 DEF OptionOf
    <3>3. QED
      BY <2>1, <2>2, <3>2
  <2>3. CASE n # m
    BY <1>a, <1>b, <2>1, <2>3 DEF FastRegistered, FastOnFlight, OnFlight, TypeOK
  <2>4. QED
    BY <2>2, <2>3
<1>7. QED
  BY <1>2, <1>3, <1>4, <1>5, <1>6 DEF IInv

LEMMA StoreVoteStep ==
    ASSUME IInv, NEW r \in Accounts, NEW m \in Messages, NEW t \in TxIds,
           CanPollOnFlight(r, m, t), StoreVote(r, m, t),
           UNCHANGED <<relayerVars, Socket, requests, AssetIndexes,
                       AssetIndexesHookState, FinalizedTransfers>>
    PROVE IInv'
<1>a. TypeOK /\ OneStage /\ IndexesConsistent /\ CapRespected /\ FastRegistered
  BY DEF IInv
<1>1. TypeOK'
  <2>1. PendingTransferCount' \in [Accounts -> Nat]
    BY <1>a DEF StoreVote, TypeOK
  <2>2. PendingTransfers' \in [Messages -> [TxIds -> Seq(Accounts)]]
    <3>1. PendingTransfers[m][t] \in Seq(Accounts)
      BY <1>a DEF TypeOK
    <3>2. Append(PendingTransfers[m][t], r) \in Seq(Accounts)
      BY <3>1, AppendProperties
    <3>3. QED
      BY <1>a, <3>2 DEF StoreVote, TypeOK
  <2>3. QED
    BY <1>a, <2>1, <2>2 DEF StoreVote, TypeOK, RelayerTypeOK, relayerVars
<1>2. OneStage'
  BY <1>a DEF CanPollOnFlight, NotYetApproved, StoreVote, TypeOK, OneStage, OnFlight, Stored
<1>3. IndexesConsistent' /\ CapRespected' /\ FastRegistered'
  BY <1>a DEF StoreVote, IndexesConsistent, CapRespected, FastRegistered, OnFlight,
              FastOnFlight, get_asset_info
<1>4. QED
  BY <1>1, <1>2, <1>3 DEF IInv

LEMMA FinalizeStep ==
    ASSUME IInv, NEW r \in Accounts, NEW m \in Messages, NEW claimed \in Statuses,
           finalize_poll(r, m, claimed)
    PROVE IInv'
<1>a. /\ TypeOK /\ OneStage /\ IndexesConsistent /\ CapRespected /\ FastRegistered
      /\ OnFlightTransfers[m] # None
      /\ UNCHANGED <<relayerVars, Socket, requests, AssetIndexes,
                     AssetIndexesHookState, pendingVars>>
  BY DEF IInv, finalize_poll
<1>b. OnFlightTransfers[m] \in TransferInfo
  BY <1>a DEF TypeOK
<1>1. CASE /\ OnFlightTransfers' = [OnFlightTransfers EXCEPT ![m].finalization_voters = Append(@, r)]
           /\ UNCHANGED <<AssetCaps, FinalizedTransfers>>
  <2> DEFINE voted == [OnFlightTransfers[m] EXCEPT !.finalization_voters = Append(@, r)]
  <2>1. voted \in TransferInfo /\ voted.option = OnFlightTransfers[m].option
    BY <1>b, AppendProperties DEF TransferInfo
  <2>2. OnFlightTransfers' = [OnFlightTransfers EXCEPT ![m] = voted]
    BY <1>1
  <2> HIDE DEF voted
  <2>3. TypeOK'
    BY <1>a, <1>1, <2>1, <2>2 DEF TypeOK, RelayerTypeOK, relayerVars, pendingVars
  <2>4. OneStage'
    BY <1>a, <1>1, <2>1, <2>2 DEF OneStage, OnFlight, Stored, TypeOK, pendingVars
  <2>5. FastOnFlight' = FastOnFlight
    <3>1. None \notin TransferInfo
      BY RelayQueueAssumption DEF TransferInfo
    <3>2. QED
      BY <1>a, <2>1, <2>2, <3>1 DEF FastOnFlight, OnFlight, TypeOK
  <2>6. IndexesConsistent' /\ CapRespected' /\ FastRegistered'
    BY <1>a, <1>1, <2>5 DEF IndexesConsistent, CapRespected, FastRegistered, get_asset_info
  <2>7. QED
    BY <2>3, <2>4, <2>6 DEF IInv
<1>2. CASE /\ update_fast_transfer_cap(m, OnFlightTransfers[m].option, -1)
           /\ OnFlightTransfers' = [OnFlightTransfers EXCEPT ![m] = None]
           /\ FinalizedTransfers' = FinalizedTransfers \cup {m}
  <2>1. /\ AssetCaps' \in [Assets -> CapInfo \cup {None}]
        /\ \A a \in Assets : AssetCaps'[a] = None <=> AssetCaps[a] = None
        /\ \A a \in Assets : AssetCaps[a] # None =>
              AssetCaps'[a].max_on_flight_cap = AssetCaps[a].max_on_flight_cap
    BY <1>a, <1>2, CapUpdateType
  <2>2. TypeOK'
    BY <1>a, <1>2, <2>1 DEF TypeOK, RelayerTypeOK, relayerVars, pendingVars
  <2>3. OneStage'
    BY <1>a, <1>2 DEF OneStage, OnFlight, Stored, TypeOK, pendingVars
  <2>4. IndexesConsistent'
    BY <1>a, <2>1 DEF IndexesConsistent, TypeOK
  <2>5. FastRegistered'
    BY <1>a, <1>2, <2>1, RelayQueueAssumption
       DEF FastRegistered, FastOnFlight, OnFlight, get_asset_info, TypeOK
  <2>6. CapRespected'
    <3> SUFFICES ASSUME NEW a \in Assets, AssetCaps'[a] # None
                 PROVE AssetCaps'[a].on_flight_cap <= AssetCaps'[a].max_on_flight_cap
      BY DEF CapRespected
    <3>1. AssetCaps[a] \in CapInfo
      BY <1>a, <2>1 DEF TypeOK
    <3>2. AssetCaps[a].on_flight_cap <= AssetCaps[a].max_on_flight_cap
      BY <1>a, <2>1 DEF CapRespected
    <3>3. CASE OnFlightTransfers[m].option = "Fast" /\ get_asset_info(m) = a
      <4>1. AssetCaps' = [AssetCaps EXCEPT ![a].on_flight_cap = @ + (-1) * Amount[m]]
        BY <1>2, <3>3, RelayQueueAssumption DEF update_fast_transfer_cap
      <4>2. AssetCaps[a].on_flight_cap + (-1) * Amount[m] <= AssetCaps[a].on_flight_cap
        BY <3>1, RelayQueueAssumption DEF CapInfo
      <4>3. AssetCaps'[a].on_flight_cap = AssetCaps[a].on_flight_cap + (-1) * Amount[m]
        BY <1>a, <3>1, <4>1 DEF TypeOK, CapInfo
      <4>4. (-1) * Amount[m] \in Int
        BY RelayQueueAssumption
      <4>5. QED
        BY <2>1, <3>1, <3>2, <4>2, <4>3, <4>4 DEF CapInfo
    <3>4. CASE ~(OnFlightTransfers[m].option = "Fast" /\ get_asset_info(m) = a)
      <4>1. AssetCaps'[a] = AssetCaps[a]
        BY <1>a, <1>2, <3>4 DEF update_fast_transfer_cap, TypeOK
      <4>2. QED
        BY <3>2, <4>1
    <3>5. QED
      BY <3>3, <3>4
  <2>7. QED
    BY <2>2, <2>3, <2>4, <2>5, <2>6 DEF IInv
<1>3. QED
  BY <1>1, <1>2 DEF finalize_poll

-----------------------------------------------------------------------------
LEMMA AddAssetStep ==
    ASSUME IInv, NEW asset \in Assets, NEW cap \in Caps, NEW hooks \in HookChoices(Indexes),
           add_asset(asset, cap, hooks)
    PROVE IInv'
<1>a. TypeOK /\ OneStage /\ IndexesConsistent /\ CapRespected /\ FastRegistered
  BY DEF IInv
<1>b. DOMAIN hooks \subseteq Indexes /\ \A i \in DOMAIN hooks : hooks[i] \in HookStates
  BY DEF HookChoices
<1>c. cap \in Nat /\ asset # None
  BY RelayQueueAssumption
<1> DEFINE fresh == [max_on_flight_cap |-> cap, on_flight_cap |-> 0]
<1>d. /\ AssetCaps[asset] = None
      /\ \A i \in DOMAIN hooks : AssetIndexes[i] = None
      /\ AssetCaps' = [AssetCaps EXCEPT ![asset] = fresh]
      /\ AssetIndexes' = [i \in Indexes |-> IF i \in DOMAIN hooks THEN asset ELSE AssetIndexes[i]]
      /\ AssetIndexesHookState' =
            [i \in Indexes |-> IF i \in DOMAIN hooks THEN hooks[i] ELSE AssetIndexesHookState[i]]
      /\ UNCHANGED <<relayerVars, Socket, requests, transferVars>>
  BY <1>a DEF add_asset, Inserted, TypeOK
<1>e. fresh \in CapInfo /\ fresh # None
  <2>1. fresh \in CapInfo
    BY <1>c DEF CapInfo
  <2>2. None \notin CapInfo
    BY RelayQueueAssumption DEF CapInfo
  <2>3. QED
    BY <2>1, <2>2
<1>f. fresh.on_flight_cap <= fresh.max_on_flight_cap
  BY <1>c
<1> HIDE DEF fresh
<1>1. TypeOK'
  BY <1>a, <1>b, <1>d, <1>e DEF TypeOK, RelayerTypeOK, relayerVars, transferVars, HookStates
<1>2. OneStage'
  BY <1>a, <1>d DEF OneStage, OnFlight, Stored, transferVars
<1>3. IndexesConsistent'
  BY <1>a, <1>b, <1>c, <1>d, <1>e DEF IndexesConsistent, TypeOK, HookStates
<1>4. CapRespected'
  BY <1>a, <1>d, <1>f DEF CapRespected, TypeOK
<1>5. FastRegistered'
  <2> SUFFICES ASSUME NEW n \in FastOnFlight' PROVE get_asset_info(n)' # None
    BY DEF FastRegistered
  <2>1. n \in FastOnFlight /\ n \in Messages
    BY <1>d DEF FastOnFlight, OnFlight, transferVars
  <2>2. get_asset_info(n) # None /\ IndexOf[n] \in Indexes
    BY <1>a, <2>1, RelayQueueAssumption DEF FastRegistered
  <2>3. IndexOf[n] \notin DOMAIN hooks
    BY <1>d, <2>2 DEF get_asset_info
  <2>4. QED
    BY <1>a, <1>d, <1>e, <2>2, <2>3 DEF get_asset_info, TypeOK
<1>6. QED
  BY <1>1, <1>2, <1>3, <1>4, <1>5 DEF IInv

(* An index that no transfer on flight uses may be taken from its asset. *)
LEMMA RemoveAssetStep ==
    ASSUME IInv, NEW asset \in Assets, remove_asset(asset)
    PROVE IInv'
<1> DEFINE indexes == {i \in Indexes : AssetIndexes[i] = asset}
<1>a. TypeOK /\ OneStage /\ IndexesConsistent /\ CapRespected /\ FastRegistered
  BY DEF IInv
<1>b. /\ ~has_active_transfers(indexes)
      /\ AssetCaps' = [AssetCaps EXCEPT ![asset] = None]
      /\ AssetIndexes' = [i \in Indexes |-> IF i \in indexes THEN None ELSE AssetIndexes[i]]
      /\ AssetIndexesHookState' =
            [i \in Indexes |-> IF i \in indexes THEN "unset" ELSE AssetIndexesHookState[i]]
      /\ UNCHANGED <<relayerVars, Socket, requests, transferVars>>
  BY <1>a DEF remove_asset, IndexesOf, Inserted, TypeOK
<1>c. \A i \in Indexes : i \in indexes <=> AssetIndexes[i] = asset
  OBVIOUS
<1> HIDE DEF indexes
<1>1. TypeOK'
  BY <1>a, <1>b DEF TypeOK, RelayerTypeOK, relayerVars, transferVars
<1>2. OneStage'
  BY <1>a, <1>b DEF OneStage, OnFlight, Stored, transferVars
<1>3. IndexesConsistent'
  BY <1>a, <1>b, <1>c DEF IndexesConsistent, TypeOK
<1>4. CapRespected'
  BY <1>a, <1>b DEF CapRespected, TypeOK
<1>5. FastRegistered'
  <2> SUFFICES ASSUME NEW n \in FastOnFlight' PROVE get_asset_info(n)' # None
    BY DEF FastRegistered
  <2>1. n \in FastOnFlight /\ n \in Messages /\ OnFlightTransfers[n] # None
    BY <1>b DEF FastOnFlight, OnFlight, transferVars
  <2>2. get_asset_info(n) # None /\ IndexOf[n] \in Indexes
    BY <1>a, <2>1, RelayQueueAssumption DEF FastRegistered
  <2>3. IndexOf[n] \notin indexes
    BY <1>b, <2>1 DEF has_active_transfers
  <2>4. AssetIndexes[IndexOf[n]] # asset
    BY <1>c, <2>2, <2>3
  <2>5. QED
    BY <1>a, <1>b, <2>2, <2>3, <2>4 DEF get_asset_info, TypeOK
<1>6. QED
  BY <1>1, <1>2, <1>3, <1>4, <1>5 DEF IInv

LEMMA UpdateAssetStep ==
    ASSUME IInv, NEW asset \in Assets, NEW cap \in Caps \cup {None},
           NEW rem \in SUBSET Indexes, NEW add \in HookChoices(Indexes \ rem),
           NEW upd \in HookChoices(Indexes \ rem),
           update_asset(asset, cap, add, upd, rem)
    PROVE IInv'
<1>a. TypeOK /\ OneStage /\ IndexesConsistent /\ CapRespected /\ FastRegistered
  BY DEF IInv
<1>b. /\ DOMAIN add \subseteq Indexes /\ \A i \in DOMAIN add : add[i] \in HookStates
      /\ DOMAIN upd \subseteq Indexes /\ \A i \in DOMAIN upd : upd[i] \in HookStates
  BY DEF HookChoices
<1>c. asset # None /\ "unset" \notin HookStates
  BY RelayQueueAssumption DEF HookStates
<1>d. /\ rem \cap (DOMAIN add \cup DOMAIN upd) = {}
      /\ AssetCaps[asset] # None
      /\ \A i \in DOMAIN add : AssetIndexes[i] = None
      /\ \A i \in DOMAIN upd \ DOMAIN add : AssetIndexes[i] # None
      /\ \A i \in rem : AssetIndexes[i] = asset
      /\ ~has_active_transfers(rem)
      /\ UNCHANGED <<relayerVars, Socket, requests, transferVars>>
  BY DEF update_asset
<1>e. AssetIndexes' = [i \in Indexes |-> IF i \in rem THEN None
                          ELSE IF i \in DOMAIN add THEN asset ELSE AssetIndexes[i]]
  BY <1>a DEF update_asset, Inserted, TypeOK
<1>f. AssetIndexesHookState' =
         [i \in Indexes |-> IF i \in rem THEN "unset"
             ELSE IF i \in DOMAIN upd THEN upd[i]
             ELSE IF i \in DOMAIN add THEN add[i] ELSE AssetIndexesHookState[i]]
  BY <1>a DEF update_asset, Inserted, TypeOK
<1>g. /\ AssetCaps' \in [Assets -> CapInfo \cup {None}]
      /\ \A a \in Assets : AssetCaps'[a] = None <=> AssetCaps[a] = None
      /\ CapRespected'
  <2>0. AssetCaps[asset] \in CapInfo
    BY <1>a, <1>d DEF TypeOK
  <2>1. CASE cap = None
    BY <1>a, <2>1 DEF update_asset, TypeOK, CapRespected
  <2>2. CASE cap # None
    <3> DEFINE new == [AssetCaps[asset] EXCEPT !.max_on_flight_cap = cap]
    <3>1. cap \in Nat /\ cap >= AssetCaps[asset].on_flight_cap
      BY <2>2, RelayQueueAssumption DEF update_asset
    <3>2. new \in CapInfo /\ new.on_flight_cap <= new.max_on_flight_cap
      BY <2>0, <3>1 DEF CapInfo
    <3>3. AssetCaps' = [AssetCaps EXCEPT ![asset] = new]
      BY <2>2 DEF update_asset
    <3>4. None \notin CapInfo
      BY RelayQueueAssumption DEF CapInfo
    <3> HIDE DEF new
    <3>5. QED
      BY <1>a, <1>d, <3>2, <3>3, <3>4 DEF TypeOK, CapRespected
  <2>3. QED
    BY <2>1, <2>2
<1>1. TypeOK'
  BY <1>a, <1>b, <1>d, <1>e, <1>f, <1>g
     DEF TypeOK, RelayerTypeOK, relayerVars, transferVars, HookStates
<1>2. OneStage'
  BY <1>a, <1>d DEF OneStage, OnFlight, Stored, transferVars
<1>3. IndexesConsistent'
  <2> SUFFICES ASSUME NEW i \in Indexes
               PROVE /\ AssetIndexes'[i] = None <=> AssetIndexesHookState'[i] = "unset"
                     /\ AssetIndexes'[i] # None => AssetCaps'[AssetIndexes'[i]] # None
    BY DEF IndexesConsistent
  <2>1. /\ AssetIndexes[i] = None <=> AssetIndexesHookState[i] = "unset"
        /\ AssetIndexes[i] # None => AssetCaps[AssetIndexes[i]] # None
        /\ AssetIndexes[i] \in Assets \cup {None}
    BY <1>a DEF IndexesConsistent, TypeOK
  <2>2. QED
    BY <1>b, <1>c, <1>d, <1>e, <1>f, <1>g, <2>1
<1>4. FastRegistered'
  <2> SUFFICES ASSUME NEW n \in FastOnFlight' PROVE get_asset_info(n)' # None
    BY DEF FastRegistered
  <2>1. n \in FastOnFlight /\ n \in Messages /\ OnFlightTransfers[n] # None
    BY <1>d DEF FastOnFlight, OnFlight, transferVars
  <2>2. get_asset_info(n) # None /\ IndexOf[n] \in Indexes
    BY <1>a, <2>1, RelayQueueAssumption DEF FastRegistered
  <2>3. IndexOf[n] \notin rem /\ AssetIndexes[IndexOf[n]] # None
    BY <1>d, <2>1, <2>2 DEF has_active_transfers, get_asset_info
  <2>4. AssetIndexes'[IndexOf[n]] = AssetIndexes[IndexOf[n]]
    BY <1>d, <1>e, <2>2, <2>3
  <2>5. QED
    BY <1>a, <1>g, <2>2, <2>4 DEF get_asset_info, TypeOK
<1>5. QED
  BY <1>1, <1>2, <1>3, <1>4, <1>g DEF IInv

(* replace_authority renames finalization voters and changes nothing else of
   a transfer on flight. *)
LEMMA NewRoundOptions ==
    ASSUME IInv, NEW rho \in Replacements, NEW selected \in SUBSET Accounts,
           new_round(rho, selected)
    PROVE /\ OnFlightTransfers' \in [Messages -> TransferInfo \cup {None}]
          /\ \A m \in Messages :
                /\ OnFlightTransfers'[m] = None <=> OnFlightTransfers[m] = None
                /\ OnFlightTransfers[m] # None =>
                      OnFlightTransfers'[m].option = OnFlightTransfers[m].option
<1>a. TypeOK /\ \A a \in DOMAIN rho : rho[a] \in Accounts
  BY DEF IInv, Replacements
<1> DEFINE replaced(m) == [OnFlightTransfers[m] EXCEPT
                              !.finalization_voters = ReplaceVoters(@, rho)]
<1>1. OnFlightTransfers' =
         [m \in Messages |-> IF OnFlightTransfers[m] = None THEN None ELSE replaced(m)]
  BY DEF new_round, replace_authority
<1>2. ASSUME NEW m \in Messages, OnFlightTransfers[m] # None
      PROVE replaced(m) \in TransferInfo /\ replaced(m).option = OnFlightTransfers[m].option
  <2>1. OnFlightTransfers[m] \in TransferInfo
    BY <1>a, <1>2 DEF TypeOK
  <2>2. ReplaceVoters(OnFlightTransfers[m].finalization_voters, rho) \in Seq(Accounts)
    BY <1>a, <2>1, ReplaceVotersType DEF TransferInfo
  <2>3. QED
    BY <2>1, <2>2 DEF TransferInfo
<1>3. None \notin TransferInfo
  BY RelayQueueAssumption DEF TransferInfo
<1> HIDE DEF replaced
<1>4. QED
  BY <1>1, <1>2, <1>3

LEMMA NewRoundStep ==
    ASSUME IInv, NEW rho \in Replacements, NEW selected \in SUBSET Accounts,
           new_round(rho, selected)
    PROVE IInv'
<1>a. /\ TypeOK /\ OneStage /\ IndexesConsistent /\ CapRespected /\ FastRegistered
      /\ UNCHANGED <<Socket, requests, assetVars, FinalizedTransfers>>
  BY DEF IInv, new_round, replace_authority
<1>b. /\ DOMAIN rho \subseteq RelayerState
      /\ \A a \in DOMAIN rho : rho[a] \in Accounts
  BY DEF Replacements
<1>1. RelayerTypeOK'
  <2>1. RelayerState' \subseteq Accounts
    <3>1. RelayerState' = (RelayerState \ DOMAIN rho) \cup {rho[a] : a \in DOMAIN rho}
      BY DEF new_round, refresh_round
    <3>2. RelayerState \subseteq Accounts
      BY <1>a DEF TypeOK, RelayerTypeOK
    <3>3. QED
      BY <1>b, <3>1, <3>2
  <2>2. SelectedRelayers' \subseteq Accounts /\ Majority' \in Nat \ {0}
    BY MajorityType DEF new_round, refresh_round
  <2>3. QED
    BY <2>1, <2>2 DEF RelayerTypeOK
<1>2. PendingTransferCount' \in [Accounts -> Nat]
  <2>1. ASSUME NEW r \in Accounts PROVE ReplacedCount(rho, r) \in Nat
    <3> DEFINE olds == {old \in DOMAIN rho : rho[old] = r /\ PendingTransferCount[old] > 0}
    <3>1. CASE r \in DOMAIN rho
      BY <3>1 DEF ReplacedCount
    <3>2. CASE r \notin DOMAIN rho /\ olds # {}
      <4>1. (CHOOSE old \in olds : TRUE) \in olds
        BY <3>2
      <4>2. (CHOOSE old \in olds : TRUE) \in Accounts
        BY <1>a, <1>b, <4>1 DEF TypeOK, RelayerTypeOK
      <4>3. ReplacedCount(rho, r) = PendingTransferCount[CHOOSE old \in olds : TRUE]
        BY <3>2 DEF ReplacedCount
      <4>4. QED
        BY <1>a, <4>2, <4>3 DEF TypeOK
    <3>3. CASE r \notin DOMAIN rho /\ olds = {}
      <4>1. ReplacedCount(rho, r) = PendingTransferCount[r]
        BY <3>3 DEF ReplacedCount
      <4>2. QED
        BY <1>a, <4>1 DEF TypeOK
    <3>4. QED
      BY <3>1, <3>2, <3>3
  <2>2. QED
    BY <2>1 DEF new_round, replace_authority
<1>3. PendingTransfers' \in [Messages -> [TxIds -> Seq(Accounts)]]
  <2>1. \A m \in Messages, t \in TxIds : PendingTransfers[m][t] \in Seq(Accounts)
    BY <1>a DEF TypeOK
  <2>2. \A m \in Messages, t \in TxIds :
            ReplaceVoters(PendingTransfers[m][t], rho) \in Seq(Accounts)
    BY <1>b, <2>1, ReplaceVotersType
  <2>3. QED
    BY <2>2 DEF new_round, replace_authority
<1>4. /\ OnFlightTransfers' \in [Messages -> TransferInfo \cup {None}]
      /\ \A m \in Messages :
            /\ OnFlightTransfers'[m] = None <=> OnFlightTransfers[m] = None
            /\ OnFlightTransfers[m] # None =>
                  OnFlightTransfers'[m].option = OnFlightTransfers[m].option
  BY NewRoundOptions
<1>5. TypeOK'
  BY <1>a, <1>1, <1>2, <1>3, <1>4 DEF TypeOK, assetVars
<1>6. OneStage'
  <2>1. ASSUME NEW m \in Messages PROVE Stored(m)' = Stored(m)
    <3>1. \A t \in TxIds : PendingTransfers[m][t] \in Seq(Accounts)
      BY <1>a DEF TypeOK
    <3>2. \A t \in TxIds : PendingTransfers'[m][t] = ReplaceVoters(PendingTransfers[m][t], rho)
      BY DEF new_round, replace_authority
    <3>3. \A t \in TxIds : PendingTransfers'[m][t] = <<>> <=> PendingTransfers[m][t] = <<>>
      BY <1>b, <3>1, <3>2, ReplaceVotersEmpty
    <3>4. QED
      BY <3>3 DEF Stored
  <2>2. QED
    BY <1>a, <1>4, <2>1 DEF OneStage, OnFlight
<1>7. IndexesConsistent' /\ CapRespected'
  BY <1>a DEF IndexesConsistent, CapRespected, assetVars
<1>8. FastRegistered'
  <2>1. FastOnFlight' = FastOnFlight
    BY <1>4 DEF FastOnFlight, OnFlight
  <2>2. QED
    BY <1>a, <2>1 DEF FastRegistered, get_asset_info, assetVars
<1>9. QED
  BY <1>5, <1>6, <1>7, <1>8 DEF IInv

-----------------------------------------------------------------------------
LEMMA NextIInv == IInv /\ [Next]_vars => IInv'
<1> SUFFICES ASSUME IInv, [Next]_vars PROVE IInv'
  OBVIOUS
<1>1. ASSUME NEW r \in Accounts, NEW m \in Messages, NEW t \in TxIds, on_flight_poll(r, m, t)
      PROVE IInv'
  BY <1>1, ApproveStep, StoreVoteStep DEF on_flight_poll
<1>2. ASSUME NEW r \in Accounts, NEW m \in Messages, NEW claimed \in Statuses,
             finalize_poll(r, m, claimed)
      PROVE IInv'
  BY <1>2, FinalizeStep
<1>3. CASE Governance
  BY <1>3, SocketStep, AddAssetStep, RemoveAssetStep, UpdateAssetStep DEF Governance
<1>4. CASE SocketContract
  BY <1>4, SocketStep
<1>5. CASE Membership
  BY <1>5, MembershipChange, NewRoundStep DEF Membership
<1>6. CASE UNCHANGED vars
  <2>1. TypeOK'
    BY <1>6 DEF IInv, TypeOK, RelayerTypeOK, vars, relayerVars, assetVars, transferVars
  <2>2. QED
    BY <1>6, <2>1, TransfersUnchanged DEF IInv, vars
<1>7. QED
  BY <1>1, <1>2, <1>3, <1>4, <1>5, <1>6 DEF Next, Relayer

(* Every value of the queue's storage stays well typed. *)
THEOREM TypeCorrect == Spec => []TypeOK
<1>1. IInv => TypeOK
  BY DEF IInv
<1>2. QED
  BY InitIInv, NextIInv, <1>1, PTL DEF Spec

(* Fast transfers never exceed the maximum on-flight cap of their asset,
   whatever the order of votes, finalizations and asset updates. *)
THEOREM CapSafety == Spec => []CapRespected
<1>1. IInv => CapRespected
  BY DEF IInv
<1>2. QED
  BY InitIInv, NextIInv, <1>1, PTL DEF Spec

(* A message is never in two stages of its life at once. *)
THEOREM StageSafety == Spec => []OneStage
<1>1. IInv => OneStage
  BY DEF IInv
<1>2. QED
  BY InitIInv, NextIInv, <1>1, PTL DEF Spec

(* The index maps agree, and no index is left without its asset's cap. *)
THEOREM IndexSafety == Spec => []IndexesConsistent
<1>1. IInv => IndexesConsistent
  BY DEF IInv
<1>2. QED
  BY InitIInv, NextIInv, <1>1, PTL DEF Spec

(* A round change only renames voters of the transfers on flight. *)
LEMMA NewRoundForward ==
    ASSUME TypeOK, NEW rho \in Replacements, NEW selected \in SUBSET Accounts,
           new_round(rho, selected)
    PROVE ForwardStep
<1> DEFINE replaced(m) == [OnFlightTransfers[m] EXCEPT
                              !.finalization_voters = ReplaceVoters(@, rho)]
<1>1. /\ OnFlightTransfers' =
            [m \in Messages |-> IF OnFlightTransfers[m] = None THEN None ELSE replaced(m)]
      /\ FinalizedTransfers' = FinalizedTransfers
  BY DEF new_round, replace_authority
<1>2. \A a \in DOMAIN rho : rho[a] \in Accounts
  BY DEF Replacements
<1>3. ASSUME NEW m \in Messages, OnFlightTransfers[m] # None
      PROVE /\ replaced(m) # None
            /\ replaced(m).option = OnFlightTransfers[m].option
            /\ replaced(m).src_tx_id = OnFlightTransfers[m].src_tx_id
  <2>1. OnFlightTransfers[m] \in TransferInfo
    BY <1>3 DEF TypeOK
  <2>2. ReplaceVoters(OnFlightTransfers[m].finalization_voters, rho) \in Seq(Accounts)
    BY <1>2, <2>1, ReplaceVotersType DEF TransferInfo
  <2>3. replaced(m) \in TransferInfo
    BY <2>1, <2>2 DEF TransferInfo
  <2>4. QED
    BY <2>1, <2>3, RelayQueueAssumption DEF TransferInfo
<1> HIDE DEF replaced
<1>4. QED
  BY <1>1, <1>3 DEF ForwardStep, OnFlight

LEMMA FinalizeForward ==
    ASSUME TypeOK, NEW r \in Accounts, NEW m \in Messages, NEW claimed \in Statuses,
           finalize_poll(r, m, claimed)
    PROVE ForwardStep
<1> DEFINE voted == [OnFlightTransfers[m] EXCEPT !.finalization_voters = Append(@, r)]
<1>1. /\ OnFlightTransfers[m] \in TransferInfo /\ None \notin TransferInfo
      /\ OnFlightTransfers[m] # None
  BY RelayQueueAssumption DEF TypeOK, finalize_poll, TransferInfo
<1>2. /\ voted \in TransferInfo
      /\ voted.option = OnFlightTransfers[m].option
      /\ voted.src_tx_id = OnFlightTransfers[m].src_tx_id
  BY <1>1, AppendProperties DEF TransferInfo
<1>3. \/ /\ OnFlightTransfers' = [OnFlightTransfers EXCEPT ![m] = voted]
         /\ FinalizedTransfers' = FinalizedTransfers
      \/ /\ OnFlightTransfers' = [OnFlightTransfers EXCEPT ![m] = None]
         /\ FinalizedTransfers' = FinalizedTransfers \cup {m}
  BY DEF finalize_poll
<1> HIDE DEF voted
<1>4. QED
  BY <1>1, <1>2, <1>3 DEF ForwardStep, OnFlight, TypeOK

(* The life of a transfer only goes forward: no step un-finalizes a message,
   drops an approved transfer, changes what was approved, or finalizes what
   was never approved. *)
THEOREM Forward == Spec => OnlyForward
<1>1. ASSUME IInv, [Next]_vars PROVE [ForwardStep]_vars
  <2> SUFFICES ASSUME Next PROVE ForwardStep
    BY <1>1
  <2>0. TypeOK
    BY <1>1 DEF IInv
  <2>1. ASSUME NEW r \in Accounts, NEW m \in Messages, NEW t \in TxIds,
               on_flight_poll(r, m, t)
        PROVE ForwardStep
    BY <2>0, <2>1 DEF on_flight_poll, CanPollOnFlight, NotYetApproved, ApproveTransfer,
                      StoreVote, ForwardStep, OnFlight, TypeOK
  <2>2. ASSUME NEW r \in Accounts, NEW m \in Messages, NEW claimed \in Statuses,
               finalize_poll(r, m, claimed)
        PROVE ForwardStep
    BY <2>0, <2>2, FinalizeForward
  <2>3. CASE \/ Governance \/ SocketContract
             \/ RelayerMembership /\ UNCHANGED <<Socket, requests, assetVars, transferVars>>
    <3>1. UNCHANGED transferVars
      <4>1. CASE Governance
        <5>1. ASSUME NEW new \in Sockets, set_socket(new) PROVE UNCHANGED transferVars
          BY <5>1 DEF set_socket
        <5>2. ASSUME NEW asset \in Assets, NEW cap \in Caps, NEW hooks \in HookChoices(Indexes),
                     add_asset(asset, cap, hooks)
              PROVE UNCHANGED transferVars
          BY <5>2 DEF add_asset
        <5>3. ASSUME NEW asset \in Assets, remove_asset(asset) PROVE UNCHANGED transferVars
          BY <5>3 DEF remove_asset
        <5>4. ASSUME NEW asset \in Assets, NEW cap \in Caps \cup {None},
                     NEW rem \in SUBSET Indexes, NEW add \in HookChoices(Indexes \ rem),
                     NEW upd \in HookChoices(Indexes \ rem), update_asset(asset, cap, add, upd, rem)
              PROVE UNCHANGED transferVars
          BY <5>4 DEF update_asset
        <5>5. QED
          BY <4>1, <5>1, <5>2, <5>3, <5>4 DEF Governance
      <4>2. CASE SocketContract
        BY <4>2 DEF SocketContract, SocketRegister, SocketAdvance
      <4>3. QED
        BY <2>3, <4>1, <4>2
    <3>2. QED
      BY <3>1 DEF transferVars, ForwardStep, OnFlight
  <2>4. ASSUME NEW rho \in Replacements, NEW selected \in SUBSET Accounts,
               new_round(rho, selected)
        PROVE ForwardStep
    BY <2>0, <2>4, NewRoundForward
  <2>5. QED
    BY <2>1, <2>2, <2>3, <2>4 DEF Next, Relayer, Membership
<1>2. QED
  BY InitIInv, NextIInv, <1>1, PTL DEF Spec, OnlyForward
=============================================================================
