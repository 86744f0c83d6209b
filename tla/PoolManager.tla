----------------------------- MODULE PoolManager -----------------------------
(***************************************************************************)
(* What the other pallets see of pallet-btc-registration-pool (the         *)
(* PoolManager trait): the pool round, the state of the vaults of the      *)
(* round, the sequence of a vault migration with its transactions, and the *)
(* relay executives.  RegistrationPool.tla is the pallet itself and is     *)
(* shown to implement this module; SocketQueue.tla is built on it.         *)
(***************************************************************************)
EXTENDS Integers, FiniteSets

CONSTANTS
    Members,         \* accounts that may be relay executives
    ExecutiveSets,   \* memberships the executives may be given
    Users,           \* accounts that register for a vault
    MigrationTxs,    \* transactions that may be submitted for a migration
    MaxRound,        \* bound: pool rounds explored
    MembershipHook   \* whether membership changes reach the pool (MembershipHook)

ASSUME PoolManagerAssumption ==
    /\ MaxRound \in Nat \ {0}
    /\ ExecutiveSets \subseteq SUBSET Members
    /\ MembershipHook \in BOOLEAN

VARIABLES
    CurrentRound,
    ServiceState,            \* step of the migration sequence
    SystemVault,             \* round -> state of its system vault
    UserVault,               \* user -> state of its vault in the current round
    OngoingVaultMigration,   \* transaction -> absent, or whether it was executed
    Executives,              \* live membership of the relay executives
    RelayExecutives          \* round -> stored membership

poolVars == <<CurrentRound, ServiceState, SystemVault, UserVault,
              OngoingVaultMigration, Executives, RelayExecutives>>
memberVars == <<Executives, RelayExecutives>>

MigrationSequence ==
    {"Normal", "SetExecutiveMembers", "PrepareNextSystemVault", "UTXOTransfer"}
VaultStates == {"none", "pending", "generated"}
TxStates == {"absent", "waiting", "executed"}
Rounds == 1..(MaxRound + 1)

PoolTypeOK ==
    /\ CurrentRound \in 1..MaxRound
    /\ ServiceState \in MigrationSequence
    /\ SystemVault \in [Rounds -> VaultStates]
    /\ UserVault \in [Users -> VaultStates]
    /\ OngoingVaultMigration \in [MigrationTxs -> TxStates]
    /\ Executives \in SUBSET Members
    /\ RelayExecutives \in [Rounds -> SUBSET Members]

(* Genesis, with the members given to initialize_members. *)
PoolInit ==
    /\ CurrentRound = 1
    /\ ServiceState = "Normal"
    /\ SystemVault = [r \in Rounds |-> "none"]
    /\ UserVault = [u \in Users |-> "none"]
    /\ OngoingVaultMigration = [t \in MigrationTxs |-> "absent"]
    /\ Executives \in ExecutiveSets
    /\ RelayExecutives =
           [r \in Rounds |-> IF r = 1 /\ MembershipHook THEN Executives ELSE {}]

-----------------------------------------------------------------------------
(* Vaults: requested, then generated when the last public key arrives. *)
request_vault(user, state) ==
    /\ ServiceState = "Normal"
    /\ UserVault[user] = "none"
    /\ state \in {"pending", "generated"}
    /\ UserVault' = [UserVault EXCEPT ![user] = state]
    /\ UNCHANGED <<CurrentRound, ServiceState, SystemVault, OngoingVaultMigration, memberVars>>

user_vault_generated(user) ==
    /\ ServiceState = "Normal"
    /\ UserVault[user] = "pending"
    /\ UserVault' = [UserVault EXCEPT ![user] = "generated"]
    /\ UNCHANGED <<CurrentRound, ServiceState, SystemVault, OngoingVaultMigration, memberVars>>

request_system_vault(round) ==
    /\ ServiceState \in {"Normal", "PrepareNextSystemVault"}
    /\ round \in {CurrentRound, CurrentRound + 1}
    /\ SystemVault[round] = "none"
    /\ SystemVault' = [SystemVault EXCEPT ![round] = "pending"]
    /\ UNCHANGED <<CurrentRound, ServiceState, UserVault, OngoingVaultMigration, memberVars>>

(* The last key of the next round's system vault moves the migration on. *)
system_vault_generated ==
    LET round == IF ServiceState = "Normal" THEN CurrentRound ELSE CurrentRound + 1
    IN /\ ServiceState \in {"Normal", "PrepareNextSystemVault"}
       /\ SystemVault[round] = "pending"
       /\ SystemVault' = [SystemVault EXCEPT ![round] = "generated"]
       /\ ServiceState' = IF ServiceState = "Normal" THEN "Normal" ELSE "UTXOTransfer"
       /\ UNCHANGED <<CurrentRound, UserVault, OngoingVaultMigration, memberVars>>

clear_vault ==
    /\ ServiceState = "Normal"
    /\ \/ /\ SystemVault[CurrentRound] = "generated"
          /\ SystemVault' = [SystemVault EXCEPT ![CurrentRound] = "none"]
          /\ UNCHANGED UserVault
       \/ /\ \E user \in Users :
                 /\ UserVault[user] = "generated"
                 /\ UserVault' = [UserVault EXCEPT ![user] = "none"]
          /\ UNCHANGED SystemVault
    /\ UNCHANGED <<CurrentRound, ServiceState, OngoingVaultMigration, memberVars>>

drop_previous_round(round) ==
    /\ ServiceState = "Normal"
    /\ round < CurrentRound
    /\ SystemVault' = [SystemVault EXCEPT ![round] = "none"]
    /\ UNCHANGED <<CurrentRound, ServiceState, UserVault, OngoingVaultMigration, memberVars>>

-----------------------------------------------------------------------------
(* migration_control, one action per step of the sequence.  The first one also
   needs the socket queue to be ready (is_ready_for_migrate). *)
migration_start ==
    /\ ServiceState = "Normal"
    /\ ServiceState' = "SetExecutiveMembers"
    /\ UNCHANGED <<CurrentRound, SystemVault, UserVault, OngoingVaultMigration, memberVars>>

(* Requests the next system vault, and fails with it. *)
migration_prepare ==
    /\ ServiceState = "SetExecutiveMembers"
    /\ SystemVault[CurrentRound + 1] = "none"
    /\ SystemVault' = [SystemVault EXCEPT ![CurrentRound + 1] = "pending"]
    /\ ServiceState' = "PrepareNextSystemVault"
    /\ UNCHANGED <<CurrentRound, UserVault, OngoingVaultMigration, memberVars>>

AllMigrationTxsExecuted ==
    /\ \E t \in MigrationTxs : OngoingVaultMigration[t] # "absent"
    /\ \A t \in MigrationTxs : OngoingVaultMigration[t] # "waiting"

(* The users of the next round start without a vault. *)
migration_complete ==
    /\ ServiceState = "UTXOTransfer"
    /\ AllMigrationTxsExecuted
    /\ CurrentRound < MaxRound
    /\ CurrentRound' = CurrentRound + 1
    /\ ServiceState' = "Normal"
    /\ OngoingVaultMigration' = [t \in MigrationTxs |-> "absent"]
    /\ UserVault' = [u \in Users |-> "none"]
    /\ UNCHANGED <<SystemVault, memberVars>>

-----------------------------------------------------------------------------
(* The migration transactions, updated by the socket queue. *)
add_migration_tx(txs, t) == [txs EXCEPT ![t] = IF @ = "absent" THEN "waiting" ELSE @]
remove_migration_tx(txs, t) == [txs EXCEPT ![t] = "absent"]
execute_migration_tx(txs, t) == [txs EXCEPT ![t] = IF @ = "absent" THEN @ ELSE "executed"]

(* The round whose stored executives a membership change updates. *)
MembershipRound == IF ServiceState = "Normal" THEN CurrentRound ELSE CurrentRound + 1

change_members_sorted(new) ==
    /\ Executives' = new
    /\ RelayExecutives' = IF MembershipHook
                          THEN [RelayExecutives EXCEPT ![MembershipRound] = new]
                          ELSE RelayExecutives

(* pallet-membership: members are added, removed, swapped or reset. *)
membership_change(new) ==
    /\ change_members_sorted(new)
    /\ UNCHANGED <<CurrentRound, ServiceState, SystemVault, UserVault, OngoingVaultMigration>>

(* A relayer account that is an executive is replaced. *)
replace_member(old, new) ==
    /\ old \in Executives
    /\ new \notin Executives
    /\ membership_change((Executives \ {old}) \cup {new})

(* Who may submit a signed PSBT. *)
SignerSet ==
    IF ServiceState = "UTXOTransfer" THEN RelayExecutives[CurrentRound] ELSE Executives

-----------------------------------------------------------------------------
VaultRequests ==
    \/ \E user \in Users :
          \/ \E state \in VaultStates : request_vault(user, state)
          \/ user_vault_generated(user)
    \/ \E round \in Rounds : request_system_vault(round) \/ drop_previous_round(round)
    \/ system_vault_generated
    \/ clear_vault

MigrationStep == migration_prepare \/ migration_complete

MembershipStep ==
    \/ \E new \in ExecutiveSets : membership_change(new)
    \/ \E old, new \in Members : replace_member(old, new)

(* External to this module: the socket queue's calls on the transactions. *)
SocketQueueCalls ==
    /\ ServiceState = "UTXOTransfer"
    /\ \E t \in MigrationTxs :
           \/ OngoingVaultMigration' = add_migration_tx(OngoingVaultMigration, t)
           \/ OngoingVaultMigration' = remove_migration_tx(OngoingVaultMigration, t)
           \/ OngoingVaultMigration' = execute_migration_tx(OngoingVaultMigration, t)
    /\ UNCHANGED <<CurrentRound, ServiceState, SystemVault, UserVault, memberVars>>

PoolNext ==
    VaultRequests \/ migration_start \/ MigrationStep \/ MembershipStep \/ SocketQueueCalls

PoolSpec == PoolInit /\ [][PoolNext]_poolVars

=============================================================================
