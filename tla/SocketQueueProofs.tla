-------------------------- MODULE SocketQueueProofs --------------------------
(***************************************************************************)
(* Stage safety of SocketQueue, for any number of accounts, PSBTs,         *)
(* messages, deposits and rounds: where a transaction is, which maps point *)
(* at it and what the registration pool knows of it always agree.          *)
(***************************************************************************)
EXTENDS SocketQueueSteps, TLAPS

-----------------------------------------------------------------------------
(* Steps of the registration pool. *)
LEMMA PoolStep ==
    ASSUME IInv, UNCHANGED <<blazeVars, queueVars>>,
           ServiceState' \in MigrationSequence, CurrentRound' \in 1..MaxRound,
           OngoingVaultMigration' \in [Psbts -> TxStates], AllTx'
    PROVE IInv'
<1>1. StageTypes'
  BY DEF IInv, StageTypes, blazeVars, feeVars, queueVars, stageVars, rollbackVars
<1>2. MessagesListed' /\ DepositsBonded'
  BY DEF IInv, MessagesListed, Lists, DepositsBonded, queueVars, stageVars, rollbackVars
<1>3. ComposedOnce'
  BY DEF IInv, ComposedOnce, InStages, blazeVars, feeVars, queueVars, stageVars
<1>4. QED
  BY <1>1, <1>2, <1>3 DEF IInv

(* A migration starts when nothing is under way and no rollback is open. *)
LEMMA MigrationStartStep ==
    ASSUME IInv, migration_start, is_ready_for_migrate, UNCHANGED <<blazeVars, queueVars>>
    PROVE IInv'
<1>1. ASSUME NEW p \in Psbts PROVE Tx(p)'
  <2>1. /\ PendingRequests[p] = None /\ FinalizedRequests[p] = None
        /\ RollbackRequests[p] # None => RollbackRequests[p].is_approved
    BY DEF is_ready_for_migrate, Pending, Finalized, Rollbacks
  <2>2. Tx(p)
    BY DEF IInv, AllTx
  <2>3. QED
    BY <2>1, <2>2 DEF Tx, TxInv, migration_start, queueVars, stageVars, rollbackVars
<1>2. QED
  BY <1>1, PoolStep DEF migration_start, AllTx, IInv, StageTypes, MigrationSequence

(* It moves on within the migration. *)
LEMMA MigrationAdvanceStep ==
    ASSUME IInv, UNCHANGED <<CurrentRound, OngoingVaultMigration, blazeVars, queueVars>>,
           ServiceState \notin {"Normal", "UTXOTransfer"}, ServiceState' \in MigrationSequence,
           ServiceState' # "Normal"
    PROVE IInv'
<1>1. ASSUME NEW p \in Psbts PROVE Tx(p)'
  <2>1. Tx(p)
    BY DEF IInv, AllTx
  <2>2. PendingRequests[p] = None /\ FinalizedRequests[p] = None
    BY <2>1 DEF Tx, TxInv, ActiveOK
  <2>3. QED
    BY <2>1, <2>2 DEF Tx, TxInv, queueVars, stageVars, rollbackVars
<1>2. QED
  BY <1>1, PoolStep DEF AllTx, IInv, StageTypes

(* It completes when every migration transaction was executed. *)
LEMMA MigrationCompleteStep ==
    ASSUME IInv, migration_complete, UNCHANGED <<blazeVars, queueVars>>
    PROVE IInv'
<1>1. /\ ServiceState = "UTXOTransfer" /\ ServiceState' = "Normal"
      /\ CurrentRound < MaxRound /\ CurrentRound' = CurrentRound + 1
      /\ \A p \in Psbts : OngoingVaultMigration[p] # "waiting"
      /\ OngoingVaultMigration' = [p \in Psbts |-> "absent"]
  BY SocketQueueAssumption DEF migration_complete, AllMigrationTxsExecuted
<1>2. CurrentRound \in 1..MaxRound /\ CurrentRound' \in 1..MaxRound /\ MaxRound \in Nat
  BY <1>1, PoolManagerAssumption DEF IInv, StageTypes
<1>3. ASSUME NEW p \in Psbts PROVE Tx(p)'
  <2>1. Tx(p)
    BY DEF IInv, AllTx
  <2>2. PendingRequests[p] = None /\ FinalizedRequests[p] = None
    BY <1>1, <2>1 DEF Tx, TxInv, ActiveOK
  <2>3. \A r \in Rounds : r <= CurrentRound => r <= CurrentRound'
    BY <1>1, <1>2 DEF Rounds
  <2>4. OngoingVaultMigration'[p] = "absent"
    BY <1>1
  <2>5. QED
    BY <1>1, <2>1, <2>2, <2>3, <2>4 DEF Tx, TxInv, queueVars, stageVars, rollbackVars
<1>4. QED
  BY <1>1, <1>2, <1>3, PoolStep DEF AllTx, MigrationSequence, TxStates

LEMMA PoolCallsStep ==
    ASSUME IInv, PoolCalls
    PROVE IInv'
<1>0. UNCHANGED <<blazeVars, queueVars>>
  BY DEF PoolCalls
<1>1. CASE UNCHANGED <<CurrentRound, ServiceState, OngoingVaultMigration>>
  BY <1>0, <1>1, Untouched DEF blazeVars, feeVars, queueVars
<1>2. CASE VaultRequests
  <2>1. CASE system_vault_generated
    <3>1. CASE ServiceState = "Normal"
      BY <1>1, <2>1, <3>1 DEF system_vault_generated
    <3>2. CASE ServiceState = "PrepareNextSystemVault"
      BY <1>0, <2>1, <3>2, MigrationAdvanceStep DEF system_vault_generated, MigrationSequence
    <3>3. QED
      BY <2>1, <3>1, <3>2 DEF system_vault_generated
  <2>2. CASE ~system_vault_generated
    BY <1>1, <1>2, <2>2 DEF VaultRequests, request_vault, user_vault_generated,
            request_system_vault, clear_vault, drop_previous_round
  <2>3. QED
    BY <2>1, <2>2
<1>3. CASE migration_start /\ is_ready_for_migrate
  BY <1>0, <1>3, MigrationStartStep
<1>4. CASE migration_prepare
  BY <1>0, <1>4, MigrationAdvanceStep DEF migration_prepare, MigrationSequence
<1>5. CASE migration_complete
  BY <1>0, <1>5, MigrationCompleteStep
<1>6. CASE \E new \in ExecutiveSets : membership_change(new)
  BY <1>1, <1>6 DEF membership_change
<1>7. QED
  BY <1>2, <1>3, <1>4, <1>5, <1>6 DEF PoolCalls, MigrationStep

-----------------------------------------------------------------------------
(* Blaze's own calls change only its pool of messages, and take into it only
   messages that no PSBT pays. *)
LEMMA OutboundStep ==
    ASSUME IInv, UNCHANGED <<poolVars, queueVars>>, OutboundPool' \in SUBSET Messages,
           \A m \in OutboundPool' : m \in OutboundPool \/ SocketMessages[m] = None
    PROVE IInv'
<1>1. StageTypes'
  BY DEF IInv, StageTypes, poolVars, queueVars, stageVars, rollbackVars
<1>2. AllTx'
  BY SameTx DEF IInv, AllTx, poolVars, queueVars, stageVars, rollbackVars
<1>3. MessagesListed' /\ DepositsBonded'
  BY DEF IInv, MessagesListed, Lists, DepositsBonded, queueVars, stageVars, rollbackVars
<1>4. ComposedOnce'
  BY DEF IInv, ComposedOnce, InStages, queueVars, stageVars
<1>5. QED
  BY <1>1, <1>2, <1>3, <1>4 DEF IInv

LEMMA BlazeCallsStep ==
    ASSUME IInv, BlazeCalls
    PROVE IInv'
<1>0. UNCHANGED <<poolVars, queueVars>>
  BY DEF BlazeCalls
<1>1. CASE UNCHANGED OutboundPool
  BY <1>0, <1>1, OutboundStep DEF IInv, StageTypes
<1>2. CASE \E is_activated \in Activations : set_activation(is_activated)
  BY <1>1, <1>2 DEF set_activation, feeVars
<1>3. CASE \E a \in Accounts :
              \/ \E u \in UtxoIds : submit_utxo(a, u)
              \/ \E p \in Psbts : broadcast_poll(a, p)
  BY <1>1, <1>3 DEF submit_utxo, broadcast_poll, feeVars
<1>4. CASE \E a \in Accounts : \E lt, rate \in Rates : submit_fee_rate(a, lt, rate, MaxFeeRate)
  BY <1>1, <1>4 DEF submit_fee_rate
<1>5. CASE \E messages \in SUBSET Messages : submit_outbound_requests(messages, VerifiedMessages)
  BY <1>0, <1>5, OutboundStep DEF submit_outbound_requests, VerifiedMessages, IInv, StageTypes
<1>6. CASE \E utxos \in SUBSET UtxoIds : force_push_utxos(utxos)
  BY <1>1, <1>6 DEF force_push_utxos, feeVars
<1>7. CASE \E messages \in SUBSET Messages : remove_outbound_messages(messages)
  BY <1>0, <1>7, OutboundStep DEF remove_outbound_messages, IInv, StageTypes
<1>8. QED
  BY <1>2, <1>3, <1>4, <1>5, <1>6, <1>7 DEF BlazeCalls

(* A replaced relayer account changes the votes and signatures of a request
   and nothing else of it. *)
LEMMA ReplacedPending ==
    ASSUME IInv, NEW old \in Accounts, NEW new \in Accounts,
           replace_requests_authority(old, new), NEW p \in Psbts
    PROVE /\ PendingRequests'[p] \in PsbtRequest \cup {None}
          /\ PendingRequests'[p] = None <=> PendingRequests[p] = None
          /\ PendingRequests[p] # None =>
               /\ PendingRequests'[p].request_type = PendingRequests[p].request_type
               /\ PendingRequests'[p].socket_messages = PendingRequests[p].socket_messages
<1>1. CASE PendingRequests[p] = None
  BY <1>1 DEF replace_requests_authority, Pending
<1>2. CASE PendingRequests[p] # None
  <2>1. PendingRequests[p] \in PsbtRequest
    BY <1>2 DEF IInv, StageTypes
  <2>2. PendingRequests'[p] =
            [PendingRequests[p] EXCEPT !.signed_psbts = Moved(@, old, new)]
    BY <1>2 DEF replace_requests_authority, Pending
  <2>3. /\ PendingRequests'[p] \in PsbtRequest
        /\ PendingRequests'[p].request_type = PendingRequests[p].request_type
        /\ PendingRequests'[p].socket_messages = PendingRequests[p].socket_messages
    BY <2>1, <2>2, MovedRequestType
  <2>4. QED
    BY <1>2, <2>3, RecordTypes
<1>3. QED
  BY <1>1, <1>2

LEMMA ReplaceRequestsStep ==
    ASSUME IInv, NEW old \in Accounts, NEW new \in Accounts,
           replace_requests_authority(old, new),
           UNCHANGED <<ServiceState, CurrentRound, OngoingVaultMigration, OutboundPool>>
    PROVE IInv'
<1>1. ASSUME NEW p \in Psbts
      PROVE /\ PendingRequests'[p] \in PsbtRequest \cup {None}
            /\ PendingRequests'[p] = None <=> PendingRequests[p] = None
            /\ PendingRequests[p] # None =>
                 /\ PendingRequests'[p].request_type = PendingRequests[p].request_type
                 /\ PendingRequests'[p].socket_messages = PendingRequests[p].socket_messages
  BY ReplacedPending
<1>2. ASSUME NEW p \in Psbts
      PROVE /\ RollbackRequests'[p] \in RollbackRequest \cup {None}
            /\ RollbackRequests'[p] = None <=> RollbackRequests[p] = None
            /\ RollbackRequests[p] # None =>
                 /\ RollbackRequests'[p].deposit = RollbackRequests[p].deposit
                 /\ RollbackRequests'[p].is_approved = RollbackRequests[p].is_approved
  <2>1. CASE RollbackRequests'[p] = RollbackRequests[p]
    BY <2>1 DEF IInv, StageTypes
  <2>2. CASE p \in Rollbacks /\ ~RollbackRequests[p].is_approved
    <3>1. RollbackRequests[p] # None /\ RollbackRequests[p] \in RollbackRequest
      BY <2>2 DEF Rollbacks, IInv, StageTypes
    <3>2. RollbackRequests'[p] =
              [RollbackRequests[p] EXCEPT !.votes = MovedVote(@, old, new)]
      BY <2>2 DEF replace_requests_authority
    <3>3. /\ RollbackRequests'[p] \in RollbackRequest
          /\ RollbackRequests'[p].deposit = RollbackRequests[p].deposit
          /\ RollbackRequests'[p].is_approved = RollbackRequests[p].is_approved
      BY <3>1, <3>2, MovedRollbackType
    <3>4. QED
      BY <3>1, <3>3, RecordTypes
  <2>3. QED
    BY <2>1, <2>2 DEF replace_requests_authority
<1>3. UNCHANGED <<FinalizedRequests, ExecutedRequests, BondedRollbackOutputs, SocketMessages,
                  BondedOutboundTx>>
  BY DEF replace_requests_authority
<1>4. StageTypes'
  <2>1. PendingRequests' \in [Psbts -> PsbtRequest \cup {None}]
    <3>1. PendingRequests' = [p \in Psbts |-> PendingRequests'[p]]
      BY DEF replace_requests_authority
    <3>2. QED
      BY <1>1, <3>1
  <2>2. RollbackRequests' \in [Psbts -> RollbackRequest \cup {None}]
    <3>1. RollbackRequests' = [p \in Psbts |-> RollbackRequests'[p]]
      BY DEF replace_requests_authority
    <3>2. QED
      BY <1>2, <3>1
  <2>3. QED
    BY <1>3, <2>1, <2>2 DEF IInv, StageTypes
<1>5. AllTx'
  <2> SUFFICES ASSUME NEW p \in Psbts PROVE Tx(p)'
    BY DEF AllTx
  <2>1. Tx(p)
    BY DEF IInv, AllTx
  <2>2. PendingRequests[p] # None =>
            (ActiveOK(PendingRequests'[p], ServiceState, RollbackRequests'[p],
                      OngoingVaultMigration[p])
             <=> ActiveOK(PendingRequests[p], ServiceState, RollbackRequests[p],
                          OngoingVaultMigration[p]))
    BY <1>1, <1>2 DEF ActiveOK
  <2>3. \A r : ActiveOK(r, ServiceState, RollbackRequests'[p], OngoingVaultMigration[p])
                <=> ActiveOK(r, ServiceState, RollbackRequests[p], OngoingVaultMigration[p])
    BY <1>2 DEF ActiveOK
  <2>4. QED
    BY <1>1, <1>2, <1>3, <2>1, <2>2, <2>3 DEF Tx, TxInv
<1>6. MessagesListed'
  <2> SUFFICES ASSUME NEW m \in Messages, SocketMessages'[m] # None
               PROVE Lists(SocketMessages[m], m)'
    BY DEF MessagesListed
  <2>1. SocketMessages[m] \in Psbts /\ Lists(SocketMessages[m], m)
    BY <1>3 DEF IInv, StageTypes, MessagesListed
  <2>2. QED
    BY <1>1, <1>3, <2>1 DEF Lists
<1>7. DepositsBonded'
  BY <1>2, <1>3 DEF IInv, DepositsBonded
<1>8. ComposedOnce'
  BY <1>1, <1>3, SocketQueueAssumption DEF IInv, ComposedOnce, InStages
<1>9. QED
  BY <1>4, <1>5, <1>6, <1>7, <1>8 DEF IInv

LEMMA NewRoundStep ==
    ASSUME IInv, NEW rho \in Replacements, NEW selected \in SUBSET Accounts,
           RelayerState \subseteq Accounts, new_round(rho, selected)
    PROVE IInv'
<1>1. CASE UNCHANGED <<blazeVars, poolVars, queueVars>>
  BY <1>1, Untouched DEF blazeVars, feeVars, poolVars, queueVars
<1>2. ASSUME NEW old \in DOMAIN rho, replace_requests_authority(old, rho[old]),
             replace_authority(old, rho[old]),
             replace_member(old, rho[old]) \/ UNCHANGED poolVars
      PROVE IInv'
  <2>1. old \in Accounts /\ rho[old] \in Accounts
    <3>1. PICK olds \in SUBSET RelayerState : rho \in [olds -> Accounts \ RelayerState]
      BY DEF Replacements
    <3>2. QED
      BY <3>1
  <2>2. UNCHANGED <<ServiceState, CurrentRound, OngoingVaultMigration, OutboundPool>>
    BY <1>2 DEF replace_authority, replace_member, membership_change, poolVars
  <2>3. QED
    BY <1>2, <2>1, <2>2, ReplaceRequestsStep
<1>3. QED
  BY <1>1, <1>2 DEF new_round

-----------------------------------------------------------------------------
(* Only relayers are replaced, and these are accounts. *)
RelayersAreAccounts == RelayerState \in SUBSET Accounts

LEMMA RelayersStep ==
    ASSUME RelayersAreAccounts, [Next]_vars
    PROVE RelayersAreAccounts'
<1>1. CASE UNCHANGED relayerVars
  BY <1>1 DEF RelayersAreAccounts, relayerVars
<1>2. CASE Settings \/ BlazeCalls \/ PoolCalls
  BY <1>1, <1>2 DEF Settings, BlazeCalls, PoolCalls
<1>7. CASE RequestCalls \/ (\E expired \in SUBSET Accounts : on_initialize(expired))
  <2>1. CASE \E expired \in SUBSET Accounts : on_initialize(expired)
    BY <1>1, <2>1 DEF on_initialize
  <2>2. \A a, p, messages : submit_unsigned_psbt(a, p, messages) => UNCHANGED relayerVars
    BY DEF submit_unsigned_psbt
  <2>3. \A a, p : submit_signed_psbt(a, p) => UNCHANGED relayerVars
    BY DEF submit_signed_psbt
  <2>4. \A a, p : submit_executed_request(a, p) => UNCHANGED relayerVars
    BY DEF submit_executed_request
  <2>5. \A a, p, is_approved : submit_rollback_poll(a, p, is_approved) => UNCHANGED relayerVars
    BY DEF submit_rollback_poll
  <2>6. CASE \E p \in WalletPsbts :
               \/ \E d \in Deposits : submit_rollback_request(p, d)
               \/ drop_pending_rollback_request(p)
               \/ submit_migration_request(p)
               \/ \E old \in Psbts : submit_bump_fee_request(old, p)
    BY <1>1, <2>6 DEF submit_rollback_request, drop_pending_rollback_request,
                      submit_migration_request, submit_bump_fee_request
  <2>7. QED
    BY <1>1, <1>7, <2>1, <2>2, <2>3, <2>4, <2>5, <2>6 DEF RequestCalls
<1>3. CASE RelayerMembership
  BY <1>3 DEF RelayersAreAccounts, RelayerMembership, join_relayers, leave_relayers,
              kickout_relayer
<1>4. ASSUME NEW rho \in Replacements, NEW selected \in SUBSET Accounts,
             new_round(rho, selected)
      PROVE RelayersAreAccounts'
  <2>1. \A a \in DOMAIN rho : rho[a] \in Accounts
    BY DEF Replacements
  <2>2. RelayerState' = (RelayerState \ DOMAIN rho) \cup {rho[a] : a \in DOMAIN rho}
    BY <1>4 DEF new_round, refresh_round
  <2>3. QED
    BY <2>1, <2>2 DEF RelayersAreAccounts
<1>5. CASE UNCHANGED vars
  BY <1>1, <1>5 DEF vars
<1>6. QED
  BY <1>2, <1>3, <1>4, <1>5, <1>7 DEF Next, RelayerCalls

LEMMA NextIInv == IInv /\ RelayersAreAccounts /\ [Next]_vars => IInv'
<1> SUFFICES ASSUME IInv, RelayersAreAccounts, [Next]_vars PROVE IInv'
  OBVIOUS
<1>1. CASE Settings
  BY <1>1, Untouched DEF Settings, poolVars, blazeVars, feeVars, queueVars
<1>2. CASE RequestCalls
  BY <1>2, SubmitUnsignedStep, SubmitSignedStep, SubmitExecutedStep, RollbackPollStep,
     SubmitRollbackStep, DropRollbackStep, SubmitMigrationStep, SubmitBumpStep DEF RequestCalls
<1>3. CASE \E expired \in SUBSET Accounts : on_initialize(expired)
  BY <1>3, OnInitializeStep
<1>4. CASE BlazeCalls
  BY <1>4, BlazeCallsStep
<1>5. CASE PoolCalls
  BY <1>5, PoolCallsStep
<1>6. CASE RelayerCalls
  <2>1. CASE UNCHANGED <<blazeVars, poolVars, queueVars>>
    BY <2>1, Untouched DEF poolVars, blazeVars, feeVars, queueVars
  <2>2. QED
    BY <1>6, <2>1, NewRoundStep DEF RelayerCalls, RelayersAreAccounts
<1>7. CASE UNCHANGED vars
  BY <1>7, Untouched DEF vars, poolVars, blazeVars, feeVars, queueVars
<1>8. QED
  BY <1>1, <1>2, <1>3, <1>4, <1>5, <1>6, <1>7 DEF Next

LEMMA SpecIInv == Spec => [](IInv /\ RelayersAreAccounts)
<1>1. Init => IInv /\ RelayersAreAccounts
  BY InitIInv DEF Init, RelayerInit, RelayersAreAccounts
<1>2. IInv /\ RelayersAreAccounts /\ [Next]_vars => (IInv /\ RelayersAreAccounts)'
  BY NextIInv, RelayersStep
<1>3. QED
  BY <1>1, <1>2, PTL DEF Spec

(* The request of a transaction, by stage. *)
LEMMA RequestByStage ==
    ASSUME IInv, NEW p \in Psbts
    PROVE /\ p \in Requests <=> InStages(p)
          /\ p \in Pending <=> PendingRequests[p] # None
          /\ p \in Finalized <=> FinalizedRequests[p] # None
          /\ p \in Executed <=> ExecutedRequests[p] # None
          /\ p \in Rollbacks <=> RollbackRequests[p] # None
          /\ p \in UnderWay <=> PendingRequests[p] # None \/ FinalizedRequests[p] # None
          /\ PendingRequests[p] # None => RequestOf(p) = PendingRequests[p]
          /\ FinalizedRequests[p] # None => RequestOf(p) = FinalizedRequests[p]
          /\ ExecutedRequests[p] # None => RequestOf(p) = ExecutedRequests[p]
<1>1. Tx(p)
  BY DEF IInv, AllTx
<1>2. QED
  BY <1>1 DEF Tx, TxInv, Requests, UnderWay, InStages, Pending, Finalized, Executed, Rollbacks,
              RequestOf

LEMMA StageFacts == IInv => MapsFollowTx /\ MigrationIsolation /\ MigrationAccounted
<1> SUFFICES ASSUME IInv PROVE MapsFollowTx /\ MigrationIsolation /\ MigrationAccounted
  OBVIOUS
<1>1. \A p \in Psbts : Tx(p)
  BY DEF IInv, AllTx
<1>2. OneStage
  <2>1. ASSUME NEW p \in Psbts
        PROVE /\ ~(p \in Pending /\ p \in Finalized)
              /\ ~(p \in Pending /\ p \in Executed)
              /\ ~(p \in Finalized /\ p \in Executed)
              /\ p \in Rollbacks => (RollbackRequests[p].is_approved <=> p \in Requests)
              /\ p \in Requests => (TypeOf(p) = "Rollback" <=> p \in Rollbacks)
    BY <1>1, RequestByStage DEF Tx, TxInv, ActiveOK, TypeOf, InStages
  <2>2. QED
    BY <2>1 DEF OneStage, Requests, Pending, Finalized, Executed, Rollbacks
<1>3. ASSUME NEW p \in Psbts
      PROVE BondedOutboundTx[p] =
                IF p \in Finalized \cup Executed /\ TypeOf(p) = "Normal"
                THEN RequestOf(p).socket_messages ELSE None
  BY <1>1, RequestByStage DEF Tx, TxInv, BondedTo, TypeOf
<1>4. ASSUME NEW m \in Messages, SocketMessages[m] # None
      PROVE /\ SocketMessages[m] \in Requests
            /\ m \in RequestOf(SocketMessages[m]).socket_messages
  <2>1. SocketMessages[m] \in Psbts /\ Lists(SocketMessages[m], m)
    BY <1>4 DEF IInv, StageTypes, MessagesListed
  <2>2. QED
    BY <2>1, RequestByStage DEF Lists, InStages
<1>5. \A p \in Rollbacks : BondedRollbackOutputs[RollbackRequests[p].deposit] = p
  BY DEF IInv, DepositsBonded, Rollbacks
<1>6. MapsFollowTx
  BY <1>2, <1>3, <1>4, <1>5 DEF MapsFollowTx
<1>7. MigrationIsolation
  <2>1. \A p \in UnderWay \cup Rollbacks : p \in Psbts
    BY DEF UnderWay, Pending, Finalized, Rollbacks
  <2>2. ASSUME NEW p \in Psbts
        PROVE /\ ServiceState # "Normal" /\ p \in UnderWay => TypeOf(p) = "Migration"
              /\ ServiceState # "Normal" /\ p \in Rollbacks => RollbackRequests[p].is_approved
              /\ ServiceState # "UTXOTransfer" /\ p \in UnderWay => TypeOf(p) # "Migration"
    BY <1>1, RequestByStage DEF Tx, TxInv, ActiveOK, TypeOf
  <2>3. QED
    BY <2>1, <2>2 DEF MigrationIsolation
<1>8. MigrationAccounted
  BY <1>1, RequestByStage DEF MigrationAccounted, Tx, TxInv, ActiveOK, TypeOf
<1>9. QED
  BY <1>6, <1>7, <1>8

-----------------------------------------------------------------------------
(* A transaction is in one stage, and the maps of messages and deposits follow
   it through submission, signing, execution and fee bumps (MapsFollowTx). *)
THEOREM StageSafety == Spec => []MapsFollowTx
BY SpecIInv, StageFacts, PTL

(* The coins move to the next vault with nothing else under way, and no
   migration request is left when the pool is back in Normal. *)
THEOREM IsolationSafety == Spec => []MigrationIsolation
BY SpecIInv, StageFacts, PTL

(* The registration pool waits for exactly the migration transactions that are
   under way, so it completes a migration only when all were executed. *)
THEOREM MigrationSafety == Spec => []MigrationAccounted
BY SpecIInv, StageFacts, PTL

-----------------------------------------------------------------------------
(* An executed request disappears only when governance replaces it. *)
LEMMA ReplacementStep ==
    ASSUME IInv, [Next]_vars, NEW p \in Executed, ExecutedRequests'[p] = None
    PROVE \E q \in Psbts :
              /\ PendingRequests[q] = None /\ PendingRequests'[q] # None
              /\ PendingRequests'[q].request_type = ExecutedRequests[p].request_type
              /\ PendingRequests'[q].socket_messages = ExecutedRequests[p].socket_messages
              /\ Inputs[p] \subseteq Inputs[q]
<1>1. p \in Psbts /\ ExecutedRequests[p] # None
  BY DEF Executed
<1>2. CASE UNCHANGED ExecutedRequests
  BY <1>1, <1>2
<1>3. CASE Settings \/ BlazeCalls \/ PoolCalls \/ UNCHANGED vars
  BY <1>2, <1>3 DEF Settings, BlazeCalls, PoolCalls, vars, queueVars, stageVars
<1>4. CASE RelayerCalls \/ (\E expired \in SUBSET Accounts : on_initialize(expired))
  BY <1>2, <1>4 DEF RelayerCalls, new_round, replace_requests_authority, on_initialize,
                    queueVars, stageVars
<1>5. CASE RequestCalls
  <2>1. \A a, q, messages : submit_unsigned_psbt(a, q, messages) => UNCHANGED ExecutedRequests
    BY DEF submit_unsigned_psbt
  <2>2. \A a, q : submit_signed_psbt(a, q) => UNCHANGED ExecutedRequests
    BY DEF submit_signed_psbt
  <2>3. ASSUME NEW a, NEW q \in Psbts, submit_executed_request(a, q)
        PROVE FALSE
    <3>1. FinalizedRequests[q] # None
      BY <2>3 DEF submit_executed_request, Finalized
    <3>2. \/ UNCHANGED ExecutedRequests
          \/ ExecutedRequests' = [ExecutedRequests EXCEPT ![q] = FinalizedRequests[q]]
      BY <2>3 DEF submit_executed_request
    <3>3. QED
      BY <1>1, <3>1, <3>2 DEF IInv, StageTypes
  <2>4. \A a, q, is_approved : submit_rollback_poll(a, q, is_approved) => UNCHANGED ExecutedRequests
    BY DEF submit_rollback_poll
  <2>5. \A q : /\ \A d : submit_rollback_request(q, d) => UNCHANGED ExecutedRequests
               /\ drop_pending_rollback_request(q) => UNCHANGED ExecutedRequests
               /\ submit_migration_request(q) => UNCHANGED ExecutedRequests
    BY DEF submit_rollback_request, drop_pending_rollback_request, submit_migration_request,
           stageVars
  <2>6. ASSUME NEW old \in Psbts, NEW q \in WalletPsbts, submit_bump_fee_request(old, q)
        PROVE /\ PendingRequests[q] = None /\ PendingRequests'[q] # None
              /\ PendingRequests'[q].request_type = ExecutedRequests[p].request_type
              /\ PendingRequests'[q].socket_messages = ExecutedRequests[p].socket_messages
              /\ Inputs[p] \subseteq Inputs[q]
    <3> DEFINE request == ExecutedRequests[old]
               replacement == Request(request.request_type, request.socket_messages)
    <3>1. /\ q \in Psbts
          /\ replacement # None
          /\ replacement.request_type = request.request_type
          /\ replacement.socket_messages = request.socket_messages
          /\ BumpVerified(old, q, request.request_type)
          /\ ExecutedRequests' = [ExecutedRequests EXCEPT ![old] = None]
          /\ PendingRequests' = [PendingRequests EXCEPT ![q] = replacement]
      BY <2>6, BumpFacts
    <3>2. PendingRequests[q] = None
      BY <2>6, <3>1 DEF submit_bump_fee_request, IsNew, Pending
    <3> HIDE DEF replacement
    <3>3. p = old /\ PendingRequests'[q] = replacement
      BY <1>1, <3>1 DEF IInv, StageTypes
    <3>4. QED
      BY <3>1, <3>2, <3>3 DEF BumpVerified
  <2>7. QED
    BY <1>2, <1>5, <2>1, <2>2, <2>3, <2>4, <2>5, <2>6 DEF RequestCalls, WalletPsbts
<1>6. QED
  BY <1>3, <1>4, <1>5 DEF Next

(* Only submit_bump_fee_request takes a transaction back after its execution
   was reported, and then for one that spends its inputs: Bitcoin confirms at
   most one of the two. *)
THEOREM ReplacementSafety == Spec => ReplacementConflicts
<1>1. IInv /\ [Next]_vars =>
        [\A p \in Executed : ExecutedRequests'[p] = None =>
           \E q \in Psbts :
               /\ PendingRequests[q] = None /\ PendingRequests'[q] # None
               /\ PendingRequests'[q].request_type = ExecutedRequests[p].request_type
               /\ PendingRequests'[q].socket_messages = ExecutedRequests[p].socket_messages
               /\ Inputs[p] \subseteq Inputs[q]]_vars
  BY ReplacementStep
<1>2. QED
  BY <1>1, SpecIInv, PTL DEF Spec, ReplacementConflicts

-----------------------------------------------------------------------------
(* What a request lists, seen from the messages. *)
ListedOnce ==
    \A p \in Psbts, m \in Messages : Lists(p, m) => SocketMessages[m] = p

(* No message that waits in Blaze's pool is paid already.  The authority may
   break this while Blaze is off: composite_psbt does not look. *)
PoolUnpaid == \A m \in OutboundPool : SocketMessages[m] = None

(* Steps that add no message to any request. *)
LEMMA NothingListed ==
    ASSUME ListedOnce, UNCHANGED SocketMessages,
           \A p \in Psbts, m \in Messages : Lists(p, m)' => Lists(p, m)
    PROVE ListedOnce'
BY DEF ListedOnce

LEMMA ListedNewPayment ==
    ASSUME IInv, ListedOnce, NEW p \in Psbts, NEW messages \in SUBSET Messages,
           \A m \in messages : SocketMessages[m] = None,
           PendingRequests' = [PendingRequests EXCEPT ![p] = Request("Normal", messages)],
           SocketMessages' = [m \in Messages |-> IF m \in messages THEN p ELSE SocketMessages[m]],
           UNCHANGED <<FinalizedRequests, ExecutedRequests>>
    PROVE ListedOnce'
<1> SUFFICES ASSUME NEW q \in Psbts, NEW m \in Messages, Lists(q, m)'
             PROVE SocketMessages'[m] = q
  BY DEF ListedOnce
<1>1. Request("Normal", messages).socket_messages = messages
  BY RequestType1 DEF RequestType
<1>2. Lists(q, m) \/ (q = p /\ m \in messages)
  BY <1>1 DEF Lists, IInv, StageTypes
<1>3. SocketMessages \in [Messages -> Psbts \cup {None}] /\ None \notin Psbts
  BY SocketQueueAssumption DEF IInv, StageTypes
<1>4. CASE Lists(q, m)
  BY <1>3, <1>4 DEF ListedOnce
<1>5. CASE q = p /\ m \in messages
  BY <1>5
<1>6. QED
  BY <1>2, <1>4, <1>5

LEMMA ListedBump ==
    ASSUME IInv, ListedOnce, NEW old \in Psbts, NEW new \in WalletPsbts,
           submit_bump_fee_request(old, new)
    PROVE ListedOnce'
<1> DEFINE request == ExecutedRequests[old]
           replacement == Request(request.request_type, request.socket_messages)
<1>1. /\ new \in Psbts /\ new # old
      /\ request \in PsbtRequest
      /\ replacement.socket_messages = request.socket_messages
      /\ ExecutedRequests' = [ExecutedRequests EXCEPT ![old] = None]
      /\ PendingRequests' = [PendingRequests EXCEPT ![new] = replacement]
      /\ UNCHANGED FinalizedRequests
      /\ \/ request.request_type = "Normal" /\ BumpNormal(old, new, request.socket_messages)
         \/ request.request_type = "Migration" /\ BumpMigration(old, new)
         \/ request.request_type = "Rollback" /\ BumpRollback(old, new)
  BY BumpFacts
<1>2. request # None
  BY <1>1, RecordTypes
<1>3. /\ PendingRequests[old] = None /\ FinalizedRequests[old] = None
      /\ request.request_type # "Normal" => request.socket_messages = {}
  BY <1>2 DEF IInv, AllTx, Tx, TxInv
<1> HIDE DEF replacement
<1> SUFFICES ASSUME NEW q \in Psbts, NEW m \in Messages, Lists(q, m)'
             PROVE SocketMessages'[m] = q
  BY DEF ListedOnce
<1>4. \/ q # old /\ Lists(q, m)
      \/ q = new /\ m \in request.socket_messages
  BY <1>1, <1>3 DEF Lists, IInv, StageTypes
<1>5. m \in request.socket_messages => SocketMessages[m] = old
  BY <1>2 DEF ListedOnce, Lists
<1>6. CASE request.request_type = "Normal" /\ BumpNormal(old, new, request.socket_messages)
  BY <1>4, <1>5, <1>6 DEF ListedOnce, BumpNormal
<1>7. CASE BumpMigration(old, new) \/ BumpRollback(old, new)
  <2>1. UNCHANGED SocketMessages
    BY <1>7 DEF BumpMigration, BumpRollback
  <2>2. CASE request.request_type = "Normal"
    BY <1>1, <1>6, <1>7, <2>2
  <2>3. QED
    BY <1>3, <1>4, <2>1, <2>2 DEF ListedOnce
<1>8. QED
  BY <1>1, <1>6, <1>7

LEMMA ListedStep ==
    ASSUME IInv, RelayersAreAccounts, ListedOnce, PoolUnpaid, [Next]_vars
    PROVE ListedOnce'
<1>1. CASE UNCHANGED <<stageVars, SocketMessages>>
  BY <1>1, NothingListed DEF Lists, stageVars
<1>2. CASE Settings \/ BlazeCalls \/ PoolCalls \/ UNCHANGED vars
  BY <1>1, <1>2 DEF Settings, BlazeCalls, PoolCalls, vars, queueVars
<1>3. ASSUME NEW expired \in SUBSET Accounts, on_initialize(expired)
      PROVE ListedOnce'
  <2>1. UNCHANGED <<FinalizedRequests, ExecutedRequests>>
    BY <1>3 DEF on_initialize
  <2>2. \/ UNCHANGED <<PendingRequests, SocketMessages>>
        \/ \E p \in Composed : composite_psbt(p, RegisteredOutbounds)
    BY <1>3 DEF on_initialize
  <2>3. ASSUME NEW p \in Composed, composite_psbt(p, RegisteredOutbounds)
        PROVE ListedOnce'
    <3>1. p \in Psbts
      BY SocketQueueAssumption
    <3>2. /\ RegisteredOutbounds \in SUBSET Messages
          /\ \A m \in RegisteredOutbounds : SocketMessages[m] = None
      BY DEF RegisteredOutbounds, PoolUnpaid, IInv, StageTypes
    <3> DEFINE messages == RegisteredOutbounds
    <3>3. /\ PendingRequests' = [PendingRequests EXCEPT ![p] = Request("Normal", messages)]
          /\ SocketMessages' =
                 [m \in Messages |-> IF m \in messages THEN p ELSE SocketMessages[m]]
      BY <2>3 DEF composite_psbt
    <3> HIDE DEF messages
    <3>4. QED
      BY <2>1, <3>1, <3>2, <3>3, ListedNewPayment DEF messages
  <2>4. QED
    BY <1>1, <2>1, <2>2, <2>3 DEF stageVars
<1>4. CASE RelayerCalls
  <2>1. ASSUME NEW rho \in Replacements, NEW selected \in SUBSET Accounts,
               new_round(rho, selected)
        PROVE ListedOnce'
    <3>1. ASSUME NEW old \in DOMAIN rho, replace_requests_authority(old, rho[old])
          PROVE ListedOnce'
      <4>1. old \in Accounts /\ rho[old] \in Accounts
        <5>1. PICK olds \in SUBSET RelayerState : rho \in [olds -> Accounts \ RelayerState]
          BY DEF Replacements
        <5>2. QED
          BY <5>1 DEF RelayersAreAccounts
      <4>2. UNCHANGED <<FinalizedRequests, ExecutedRequests, SocketMessages>>
        BY <3>1 DEF replace_requests_authority
      <4>3. QED
        BY <3>1, <4>1, <4>2, ReplacedPending, NothingListed DEF Lists
    <3>2. QED
      BY <1>1, <2>1, <3>1 DEF new_round, queueVars
  <2>2. QED
    BY <1>1, <1>4, <2>1 DEF RelayerCalls, queueVars
<1>5. ASSUME NEW a \in Accounts, NEW p \in WalletPsbts, NEW messages \in SUBSET Messages,
             submit_unsigned_psbt(a, p, messages)
      PROVE ListedOnce'
  <2>1. \A m \in messages : SocketMessages[m] = None
    BY <1>5 DEF submit_unsigned_psbt, OutputsVerified, VerifiedMessages
  <2>2. QED
    BY <1>5, <2>1, ListedNewPayment DEF submit_unsigned_psbt, WalletPsbts
<1>6. ASSUME NEW a \in Accounts, NEW p \in Psbts, submit_signed_psbt(a, p)
      PROVE ListedOnce'
  <2> DEFINE signed == [PendingRequests[p] EXCEPT !.signed_psbts = @ \cup {a},
                                                  !.combined_psbt = @ \cup {a}]
  <2>1. PendingRequests[p] # None /\ PendingRequests[p] \in PsbtRequest
    BY <1>6 DEF submit_signed_psbt, Pending, IInv, StageTypes
  <2>2. signed.socket_messages = PendingRequests[p].socket_messages
    BY <2>1, SignedType
  <2>3. /\ \/ /\ FinalizedRequests' = [FinalizedRequests EXCEPT ![p] = signed]
              /\ PendingRequests' = [PendingRequests EXCEPT ![p] = None]
           \/ /\ PendingRequests' = [PendingRequests EXCEPT ![p] = signed]
              /\ UNCHANGED FinalizedRequests
        /\ UNCHANGED <<ExecutedRequests, SocketMessages>>
    BY <1>6 DEF submit_signed_psbt
  <2> HIDE DEF signed
  <2>4. ASSUME NEW q \in Psbts, NEW m \in Messages, Lists(q, m)'
        PROVE Lists(q, m)
    BY <2>1, <2>2, <2>3, <2>4 DEF Lists, IInv, StageTypes
  <2>5. QED
    BY <2>3, <2>4, NothingListed
<1>7. ASSUME NEW a \in Accounts, NEW p \in Psbts, submit_executed_request(a, p)
      PROVE ListedOnce'
  <2>1. /\ FinalizedRequests[p] # None
        /\ \/ /\ FinalizedRequests' = [FinalizedRequests EXCEPT ![p] = None]
              /\ ExecutedRequests' = [ExecutedRequests EXCEPT ![p] = FinalizedRequests[p]]
           \/ UNCHANGED <<FinalizedRequests, ExecutedRequests>>
        /\ UNCHANGED <<PendingRequests, SocketMessages>>
    BY <1>7 DEF submit_executed_request, Finalized
  <2>2. ASSUME NEW q \in Psbts, NEW m \in Messages, Lists(q, m)'
        PROVE Lists(q, m)
    BY <2>1, <2>2 DEF Lists, IInv, StageTypes
  <2>3. QED
    BY <2>1, <2>2, NothingListed
<1>8. ASSUME NEW p \in Psbts, NEW type \in RequestType,
             \/ PendingRequests' = [PendingRequests EXCEPT ![p] = Request(type, {})]
             \/ UNCHANGED PendingRequests,
             UNCHANGED <<FinalizedRequests, ExecutedRequests, SocketMessages>>
      PROVE ListedOnce'
  <2>1. Request(type, {}).socket_messages = {}
    BY RequestType1
  <2>2. QED
    BY <1>8, <2>1, NothingListed DEF Lists, IInv, StageTypes
<1>9. ASSUME NEW a \in Accounts, NEW p \in Psbts, NEW is_approved \in BOOLEAN,
             submit_rollback_poll(a, p, is_approved)
      PROVE ListedOnce'
  BY <1>8, <1>9 DEF submit_rollback_poll, RequestType
<1>10. ASSUME NEW p \in WalletPsbts, NEW d \in Deposits, submit_rollback_request(p, d)
       PROVE ListedOnce'
  BY <1>1, <1>10 DEF submit_rollback_request
<1>11. ASSUME NEW p \in WalletPsbts, drop_pending_rollback_request(p)
       PROVE ListedOnce'
  BY <1>1, <1>11 DEF drop_pending_rollback_request
<1>12. ASSUME NEW p \in WalletPsbts, submit_migration_request(p)
       PROVE ListedOnce'
  BY <1>8, <1>12 DEF submit_migration_request, RequestType, WalletPsbts
<1>13. QED
  BY <1>2, <1>3, <1>4, <1>5, <1>6, <1>7, <1>9, <1>10, <1>11, <1>12, ListedBump
     DEF Next, RequestCalls

LEMMA PaidFacts == IInv /\ ListedOnce => MessagePaidOnce
<1> SUFFICES ASSUME IInv, ListedOnce, NEW p \in Requests,
                    NEW m \in RequestOf(p).socket_messages
             PROVE SocketMessages[m] = p
  BY DEF MessagePaidOnce
<1>1. p \in Psbts /\ InStages(p)
  BY RequestByStage DEF Requests, Pending, Finalized, Executed
<1>2. RequestOf(p) \in PsbtRequest /\ Lists(p, m)
  BY <1>1, RequestByStage DEF InStages, Lists, IInv, StageTypes
<1>3. QED
  BY <1>1, <1>2, RecordTypes DEF ListedOnce

(* As long as the authority pays no message that waits in Blaze's pool, a
   message is listed by one request only: submit_unsigned_psbt asks
   SocketMessages, and a message leaves the pool when it is composed. *)
THEOREM PaidOnceSafety == Spec /\ []PoolUnpaid => []MessagePaidOnce
<1>1. Init => ListedOnce
  <2>1. Init => \A p \in Psbts : /\ PendingRequests[p] = None
                                /\ FinalizedRequests[p] = None
                                /\ ExecutedRequests[p] = None
    BY DEF Init
  <2>2. QED
    BY <2>1 DEF ListedOnce, Lists
<1>2. IInv /\ RelayersAreAccounts /\ ListedOnce /\ PoolUnpaid /\ [Next]_vars => ListedOnce'
  BY ListedStep
<1>3. QED
  BY <1>1, <1>2, SpecIInv, PaidFacts, PTL DEF Spec

LEMMA PoolUnpaidStep ==
    ASSUME WalletPsbts = {}, IInv, PoolUnpaid, [Next]_vars
    PROVE PoolUnpaid'
<1>1. CASE UNCHANGED SocketMessages /\ OutboundPool' \in SUBSET OutboundPool
  BY <1>1 DEF PoolUnpaid
<1>2. CASE Settings \/ PoolCalls \/ UNCHANGED vars
  BY <1>1, <1>2 DEF Settings, PoolCalls, vars, queueVars, blazeVars, feeVars
<1>3. CASE BlazeCalls
  <2>1. UNCHANGED SocketMessages
    BY <1>3 DEF BlazeCalls, queueVars
  <2>2. OutboundPool' \in SUBSET (OutboundPool \cup VerifiedMessages)
    BY <1>3 DEF BlazeCalls, set_activation, submit_utxo, broadcast_poll, submit_fee_rate,
                submit_outbound_requests, force_push_utxos, remove_outbound_messages,
                feeVars, utxoVars
  <2>3. QED
    BY <2>1, <2>2 DEF PoolUnpaid, VerifiedMessages
<1>4. ASSUME NEW expired \in SUBSET Accounts, on_initialize(expired)
      PROVE PoolUnpaid'
  <2>1. \/ UNCHANGED <<OutboundPool, SocketMessages>>
        \/ \E p \in Composed : composite_psbt(p, RegisteredOutbounds)
    BY <1>4 DEF on_initialize
  <2>2. ASSUME NEW p \in Composed, composite_psbt(p, RegisteredOutbounds)
        PROVE PoolUnpaid'
    <3>1. OutboundPool' \in SUBSET Messages
      BY <2>2 DEF composite_psbt, IInv, StageTypes
    <3>2. QED
      BY <2>2, <3>1 DEF composite_psbt, PoolUnpaid
  <2>3. QED
    BY <1>1, <2>1, <2>2
<1>5. CASE RelayerCalls
  BY <1>1, <1>5 DEF RelayerCalls, new_round, replace_requests_authority, replace_authority,
                    queueVars, blazeVars, feeVars
<1>6. CASE RequestCalls
  <2>1. PICK a \in Accounts, p \in Psbts :
          \/ submit_signed_psbt(a, p)
          \/ submit_executed_request(a, p)
          \/ \E is_approved \in BOOLEAN : submit_rollback_poll(a, p, is_approved)
    BY <1>6 DEF RequestCalls
  <2>2. UNCHANGED <<SocketMessages, OutboundPool>>
    BY <2>1 DEF submit_signed_psbt, submit_executed_request, submit_rollback_poll, blazeVars,
                feeVars
  <2>3. QED
    BY <1>1, <2>2
<1>7. QED
  BY <1>2, <1>3, <1>4, <1>5, <1>6 DEF Next

(* When on_initialize builds every payment, a message is paid once without
   further conditions: a composed message has left the pool, and
   submit_outbound_requests lets it in no more. *)
THEOREM ComposedPaidOnceSafety ==
    ASSUME WalletPsbts = {}
    PROVE Spec => []MessagePaidOnce
<1>1. Init => PoolUnpaid
  BY DEF Init, BlazeInit, PoolUnpaid
<1>2. IInv /\ PoolUnpaid /\ [Next]_vars => PoolUnpaid'
  BY PoolUnpaidStep
<1>3. Spec => []PoolUnpaid
  BY <1>1, <1>2, SpecIInv, PTL DEF Spec
<1>4. QED
  BY <1>3, PaidOnceSafety, PTL

=============================================================================
