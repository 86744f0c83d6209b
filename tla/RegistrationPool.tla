-------------------------- MODULE RegistrationPool --------------------------
(***************************************************************************)
(* pallet-btc-registration-pool: users register for a Bitcoin vault, the   *)
(* relay executives submit one public key each, and the last key generates *)
(* the vault's address.  migration_control moves the pool to its next      *)
(* round, whose system vault has to be generated first.                    *)
(*                                                                         *)
(* A public key is a number (the order of BTreeSet).  A vault address is   *)
(* determined by the keys and the threshold of its descriptor, so it is    *)
(* the record of both; the descriptor and BondedDescriptor, written and    *)
(* removed together with the address and BondedVault, are not kept.  The   *)
(* storage maps keyed by address or key are functions on the stored keys.  *)
(***************************************************************************)
EXTENDS Integers, FiniteSetsExt, Functions

CONSTANTS
    Members, ExecutiveSets, Users, MigrationTxs, MaxRound, MembershipHook,
    PubKeys,         \* public keys the executives submit
    RefundAddresses, \* refund addresses the users submit
    Ratios,          \* multi-sig ratios (percent) governance sets
    PreSubmissions,  \* sets of keys submitted in one presubmission
    MaxPreSubmissions, \* values of MaxPreSubmission governance sets
    Precompile,      \* account that owns the system vaults
    None             \* absence of a value

Rounds == 1..(MaxRound + 1)
Owners == Users \cup {Precompile}
VaultAddresses == [keys : SUBSET PubKeys, m : Nat]
PartialFunctions(S, T) == UNION {[X -> T] : X \in SUBSET S}
MultiSigAccounts ==
    [address : VaultAddresses \cup {None}, pub_keys : PartialFunctions(Members, PubKeys),
     m : Nat, n : Nat]
BitcoinRelayTargets == [refund_address : RefundAddresses, vault : MultiSigAccounts]

ASSUME RegistrationPoolAssumption ==
    /\ MaxRound \in Nat \ {0}
    /\ IsFiniteSet(Members)
    /\ ExecutiveSets \subseteq SUBSET Members
    /\ MembershipHook \in BOOLEAN
    /\ PubKeys \subseteq Nat
    /\ Ratios \subseteq 0..100
    /\ PreSubmissions \subseteq SUBSET PubKeys
    /\ Precompile \notin Users
    /\ None \notin Owners \cup RefundAddresses
    /\ None \notin VaultAddresses
    /\ None \notin MultiSigAccounts
    /\ None \notin BitcoinRelayTargets

VARIABLES
    CurrentRound, ServiceState, Executives, RelayExecutives, OngoingVaultMigration,
    SystemVault,          \* round -> vault or None
    Registrations,        \* RegistrationPool: round, user -> target or None
    BondedVault,          \* round -> (vault address -> owner)
    BondedRefund,         \* round -> (refund address -> users)
    BondedPubKey,         \* round -> (public key -> owner)
    PreSubmittedPubKeys,  \* round, executive -> keys
    PendingSetRefunds,    \* round, user -> new refund address or None
    MultiSigRatio,
    MaxPreSubmission

memberVars == <<Executives, RelayExecutives>>
sequenceVars == <<CurrentRound, ServiceState, OngoingVaultMigration>>
settingVars == <<MultiSigRatio, MaxPreSubmission>>
roundVars == <<SystemVault, Registrations, BondedVault, BondedRefund, BondedPubKey,
               PreSubmittedPubKeys, PendingSetRefunds>>
vars == <<memberVars, sequenceVars, settingVars, roundVars>>

(* A storage double map: a partial function from keys to values in every round. *)
IsRoundMap(f, Keys, Values) ==
    /\ f = [r \in Rounds |-> f[r]]
    /\ \A r \in Rounds : DOMAIN f[r] \subseteq Keys /\ f[r] \in [DOMAIN f[r] -> Values]

TypeOK ==
    /\ CurrentRound \in 1..MaxRound
    /\ ServiceState \in {"Normal", "SetExecutiveMembers", "PrepareNextSystemVault",
                         "UTXOTransfer"}
    /\ Executives \subseteq Members
    /\ RelayExecutives \in [Rounds -> SUBSET Members]
    /\ OngoingVaultMigration \in [MigrationTxs -> {"absent", "waiting", "executed"}]
    /\ SystemVault \in [Rounds -> MultiSigAccounts \cup {None}]
    /\ Registrations \in [Rounds -> [Users -> BitcoinRelayTargets \cup {None}]]
    /\ IsRoundMap(BondedVault, VaultAddresses, Owners)
    /\ IsRoundMap(BondedRefund, RefundAddresses, SUBSET Users)
    /\ IsRoundMap(BondedPubKey, PubKeys, Owners)
    /\ PreSubmittedPubKeys \in [Rounds -> [Members -> SUBSET PubKeys]]
    /\ PendingSetRefunds \in [Rounds -> [Users -> RefundAddresses \cup {None}]]
    /\ MultiSigRatio \in Ratios
    /\ MaxPreSubmission \in MaxPreSubmissions

Init ==
    /\ CurrentRound = 1
    /\ ServiceState = "Normal"
    /\ OngoingVaultMigration = [t \in MigrationTxs |-> "absent"]
    /\ Executives \in ExecutiveSets
    /\ RelayExecutives =
           [r \in Rounds |-> IF r = 1 /\ MembershipHook THEN Executives ELSE {}]
    /\ SystemVault = [r \in Rounds |-> None]
    /\ Registrations = [r \in Rounds |-> [u \in Users |-> None]]
    /\ BondedVault = [r \in Rounds |-> <<>>]
    /\ BondedRefund = [r \in Rounds |-> <<>>]
    /\ BondedPubKey = [r \in Rounds |-> <<>>]
    /\ PreSubmittedPubKeys = [r \in Rounds |-> [e \in Members |-> {}]]
    /\ PendingSetRefunds = [r \in Rounds |-> [u \in Users |-> None]]
    /\ MultiSigRatio \in Ratios
    /\ MaxPreSubmission \in MaxPreSubmissions

-----------------------------------------------------------------------------
(* Multi-sig accounts. *)
get_n == Cardinality(Executives)
get_m == (MultiSigRatio * get_n + 99) \div 100

NewVault(keys) == [address |-> None, pub_keys |-> keys, m |-> get_m, n |-> get_n]
is_pending(vault) == vault.address = None
(* Mutant: waits for one key more. *)
ReadyTooLate(vault) == vault.n + 1 = Cardinality(DOMAIN vault.pub_keys)

is_key_generation_ready(vault) == vault.n = Cardinality(DOMAIN vault.pub_keys)

InsertAll(f, S, y) == [x \in DOMAIN f \cup S |-> IF x \in S THEN y ELSE f[x]]
Insert(f, x, y) == InsertAll(f, {x}, y)
Without(f, S) == Restrict(f, DOMAIN f \ S)

(* generate_vault_address: a sorted multi-sig descriptor needs distinct keys
   and a threshold between one and their number.  The threshold is computed
   from the executives of the moment. *)
CanDescribe(vault) ==
    /\ IsInjective(vault.pub_keys)
    /\ get_m \in 1..Cardinality(DOMAIN vault.pub_keys)
generate_vault_address(vault) == [keys |-> Range(vault.pub_keys), m |-> get_m]

(* Mutant: only looks at the user's own refund address. *)
AddressDiffers(vault, refund, round) ==
    CanDescribe(vault) /\ generate_vault_address(vault) # refund

(* Whether try_bond_vault_address succeeds. *)
CanBond(vault, refund, round) ==
    /\ CanDescribe(vault)
    /\ generate_vault_address(vault) # refund
    /\ generate_vault_address(vault) \notin DOMAIN BondedRefund[round]

Generated(vault) == [vault EXCEPT !.address = generate_vault_address(vault)]
Bond(vault, who, round) ==
    BondedVault' = [BondedVault EXCEPT ![round] =
                        Insert(@, generate_vault_address(vault), who)]

-----------------------------------------------------------------------------
(* Refund addresses. *)
request_set_refund(who, new) ==
    LET target == Registrations[CurrentRound][who]
    IN /\ ServiceState = "Normal"
       /\ target # None
       /\ target.refund_address # new
       /\ new \notin DOMAIN BondedVault[CurrentRound]
       /\ PendingSetRefunds[CurrentRound][who] = None
       /\ PendingSetRefunds' = [PendingSetRefunds EXCEPT ![CurrentRound][who] = new]
       /\ UNCHANGED <<memberVars, sequenceVars, settingVars, SystemVault, Registrations,
                      BondedVault, BondedRefund, BondedPubKey, PreSubmittedPubKeys>>

(* BondedRefund after the users in movers went from their old address to
   their new one; mutate creates the entries it touches. *)
MovedRefunds(movers, new, old) ==
    [a \in DOMAIN BondedRefund[CurrentRound] \cup Range(new) \cup Range(old) |->
        ((IF a \in DOMAIN BondedRefund[CurrentRound]
          THEN BondedRefund[CurrentRound][a] ELSE {})
         \ {u \in movers : old[u] = a})
        \cup {u \in movers : new[u] = a}]

(* Carries out the pending sets of some users; the sets of users that are
   not registered and those to an address that is now a vault are dropped. *)
SetRefunds(users) ==
    LET pending == PendingSetRefunds[CurrentRound]
        movers == {u \in users : /\ pending[u] \notin DOMAIN BondedVault[CurrentRound]
                                 /\ Registrations[CurrentRound][u] # None}
        new == [u \in movers |-> pending[u]]
        old == [u \in movers |-> Registrations[CurrentRound][u].refund_address]
    IN /\ BondedRefund' = [BondedRefund EXCEPT ![CurrentRound] =
                               MovedRefunds(movers, new, old)]
       /\ Registrations' = [Registrations EXCEPT ![CurrentRound] =
              [u \in Users |-> IF u \in movers
                               THEN [@[u] EXCEPT !.refund_address = new[u]] ELSE @[u]]]
       /\ PendingSetRefunds' = [PendingSetRefunds EXCEPT ![CurrentRound] =
              [u \in Users |-> IF u \in users THEN None ELSE @[u]]]
       /\ UNCHANGED <<memberVars, sequenceVars, settingVars, SystemVault, BondedVault,
                      BondedPubKey, PreSubmittedPubKeys>>

(* The legacy authority approves some sets: the whole call fails on a set
   that is not pending or whose user is gone. *)
approve_set_refunds(users) ==
    /\ ServiceState = "Normal"
    /\ users # {}
    /\ \A u \in users :
        /\ PendingSetRefunds[CurrentRound][u] # None
        /\ \/ PendingSetRefunds[CurrentRound][u] \in DOMAIN BondedVault[CurrentRound]
           \/ Registrations[CurrentRound][u] # None
    /\ SetRefunds(users)

(* With Blaze the socket queue carries out every pending set at the next block. *)
process_set_refunds ==
    /\ ServiceState = "Normal"
    /\ SetRefunds({u \in Users : PendingSetRefunds[CurrentRound][u] # None})

-----------------------------------------------------------------------------
(* Every executive's first presubmitted key is taken, and used unless it is
   bonded.  With all keys at hand the vault is generated at once; if that
   fails, the keys are cleared. *)
request_vault(who, refund) ==
    LET r == CurrentRound
        given == {e \in Executives : PreSubmittedPubKeys[r][e] # {}}
        key == [e \in given |-> Min(PreSubmittedPubKeys[r][e])]
        vault == NewVault(Restrict(key, {e \in given : key[e] \notin DOMAIN BondedPubKey[r]}))
        ready == is_key_generation_ready(vault)
        bonds == ready /\ CanBond(vault, refund, r)
        stored == IF bonds THEN Generated(vault)
                  ELSE IF ready THEN [vault EXCEPT !.pub_keys = <<>>]
                  ELSE vault
    IN /\ ServiceState = "Normal"
       /\ refund \notin DOMAIN BondedVault[r]
       /\ Registrations[r][who] = None
       /\ PreSubmittedPubKeys' = [PreSubmittedPubKeys EXCEPT ![r] =
              [e \in Members |-> IF e \in given THEN @[e] \ {key[e]} ELSE @[e]]]
       /\ IF bonds
          THEN /\ Bond(vault, who, r)
               /\ BondedPubKey' = [BondedPubKey EXCEPT ![r] =
                      InsertAll(@, Range(vault.pub_keys), who)]
          ELSE UNCHANGED <<BondedVault, BondedPubKey>>
       /\ BondedRefund' = [BondedRefund EXCEPT ![r] =
              Insert(@, refund, {who} \cup (IF refund \in DOMAIN @ THEN @[refund] ELSE {}))]
       /\ Registrations' = [Registrations EXCEPT ![r][who] =
              [refund_address |-> refund, vault |-> stored]]
       /\ UNCHANGED <<memberVars, sequenceVars, settingVars, SystemVault, PendingSetRefunds>>

(* Mutant: replaces a vault that exists. *)
CanRequestAnyTime(round) == ServiceState \in {"Normal", "PrepareNextSystemVault"}

CanRequestSystemVault(round) ==
    /\ ServiceState \in {"Normal", "PrepareNextSystemVault"}
    /\ SystemVault[round] = None

request_system_vault(migration_prepare) ==
    LET round == IF migration_prepare THEN CurrentRound + 1 ELSE CurrentRound
    IN /\ CanRequestSystemVault(round)
       /\ SystemVault' = [SystemVault EXCEPT ![round] = NewVault(<<>>)]
       /\ UNCHANGED <<memberVars, sequenceVars, settingVars, Registrations, BondedVault,
                      BondedRefund, BondedPubKey, PreSubmittedPubKeys, PendingSetRefunds>>

(* Mutant: forgets the keys that other vaults of the round use. *)
KeyNotInVault(vault, authority, key, round) ==
    /\ is_pending(vault)
    /\ authority \notin DOMAIN vault.pub_keys
    /\ key \notin Range(vault.pub_keys)

(* The ensure!s that both key submissions share. *)
CanSubmitKey(vault, authority, key, round) ==
    /\ is_pending(vault)
    /\ authority \notin DOMAIN vault.pub_keys
    /\ key \notin Range(vault.pub_keys)
    /\ key \notin DOMAIN BondedPubKey[round]

WithKey(vault, authority, key) == [vault EXCEPT !.pub_keys = Insert(@, authority, key)]

(* A vault with one more key is stored; the last key generates the address,
   and the call fails if it cannot. *)
Submitted(vault) == IF is_key_generation_ready(vault) THEN Generated(vault) ELSE vault

(* The checks of the unsigned calls before they are executed: the signer is an
   executive of the moment.  Signatures are not forged. *)
verify_key_submission(authority) == authority \in Executives
verify_key_presubmission(authority) == authority \in Executives

SubmitKey(vault, authority, key, who, refund, round) ==
    LET more == WithKey(vault, authority, key)
    IN /\ verify_key_submission(authority)
       /\ CanSubmitKey(vault, authority, key, round)
       /\ IF is_key_generation_ready(more)
          THEN CanBond(more, refund, round) /\ Bond(more, who, round)
          ELSE UNCHANGED BondedVault
       /\ BondedPubKey' = [BondedPubKey EXCEPT ![round] = Insert(@, key, who)]
       /\ UNCHANGED <<memberVars, CurrentRound, OngoingVaultMigration, settingVars,
                      BondedRefund, PreSubmittedPubKeys, PendingSetRefunds>>

submit_vault_key(authority, who, key) ==
    LET target == Registrations[CurrentRound][who]
    IN /\ ServiceState = "Normal"
       /\ target # None
       /\ SubmitKey(target.vault, authority, key, who, target.refund_address, CurrentRound)
       /\ Registrations' = [Registrations EXCEPT ![CurrentRound][who].vault =
              Submitted(WithKey(@, authority, key))]
       /\ UNCHANGED <<ServiceState, SystemVault>>

(* The last key of the next system vault starts the transfer of the UTXOs. *)
submit_system_vault_key(authority, key) ==
    LET round == IF ServiceState = "Normal" THEN CurrentRound ELSE CurrentRound + 1
        more == WithKey(SystemVault[round], authority, key)
    IN /\ ServiceState \in {"Normal", "PrepareNextSystemVault"}
       /\ SystemVault[round] # None
       /\ SubmitKey(SystemVault[round], authority, key, Precompile, None, round)
       /\ SystemVault' = [SystemVault EXCEPT ![round] = Submitted(more)]
       /\ ServiceState' = IF ServiceState # "Normal" /\ is_key_generation_ready(more)
                          THEN "UTXOTransfer" ELSE ServiceState
       /\ UNCHANGED Registrations

vault_key_presubmission(authority, keys) ==
    LET stored == PreSubmittedPubKeys[CurrentRound][authority]
    IN /\ ServiceState = "Normal"
       /\ verify_key_presubmission(authority)
       /\ Cardinality(stored) + Cardinality(keys) <= MaxPreSubmission
       /\ stored \cap keys = {}
       /\ PreSubmittedPubKeys' =
              [PreSubmittedPubKeys EXCEPT ![CurrentRound][authority] = stored \cup keys]
       /\ UNCHANGED <<memberVars, sequenceVars, settingVars, SystemVault, Registrations,
                      BondedVault, BondedRefund, BondedPubKey, PendingSetRefunds>>

Unbonded(address, round) == [BondedVault EXCEPT ![round] = Without(@, {address})]

(* Removes the whole BondedRefund entry of the user's refund address. *)
clear_vault(address) ==
    LET r == CurrentRound
        who == BondedVault[r][address]
        vault == IF who = Precompile THEN SystemVault[r] ELSE Registrations[r][who].vault
    IN /\ ServiceState = "Normal"
       /\ address \in DOMAIN BondedVault[r]
       /\ IF who = Precompile
          THEN /\ SystemVault[r] # None
               /\ SystemVault' = [SystemVault EXCEPT ![r] = None]
               /\ UNCHANGED <<Registrations, BondedRefund>>
          ELSE /\ Registrations[r][who] # None
               /\ Registrations' = [Registrations EXCEPT ![r][who] = None]
               /\ BondedRefund' = [BondedRefund EXCEPT ![r] =
                      Without(@, {Registrations[r][who].refund_address})]
               /\ UNCHANGED SystemVault
       /\ BondedPubKey' = [BondedPubKey EXCEPT ![r] = Without(@, Range(vault.pub_keys))]
       /\ BondedVault' = Unbonded(address, r)
       /\ UNCHANGED <<memberVars, sequenceVars, settingVars, PreSubmittedPubKeys,
                      PendingSetRefunds>>

-----------------------------------------------------------------------------
(* migration_control.  is_ready_for_migrate is the socket queue's answer. *)
AllMigrationTxsExecuted ==
    /\ \E t \in MigrationTxs : OngoingVaultMigration[t] # "absent"
    /\ \A t \in MigrationTxs : OngoingVaultMigration[t] # "waiting"

migration_control(is_ready_for_migrate) ==
    /\ \/ /\ ServiceState = "Normal"
          /\ is_ready_for_migrate
          /\ ServiceState' = "SetExecutiveMembers"
          /\ UNCHANGED <<CurrentRound, OngoingVaultMigration, SystemVault>>
       \/ /\ ServiceState = "SetExecutiveMembers"
          /\ SystemVault[CurrentRound + 1] = None
          /\ ServiceState' = "PrepareNextSystemVault"
          /\ SystemVault' = [SystemVault EXCEPT ![CurrentRound + 1] = NewVault(<<>>)]
          /\ UNCHANGED <<CurrentRound, OngoingVaultMigration>>
       \/ /\ ServiceState = "UTXOTransfer"
          /\ AllMigrationTxsExecuted
          /\ CurrentRound < MaxRound
          /\ CurrentRound' = CurrentRound + 1
          /\ ServiceState' = "Normal"
          /\ OngoingVaultMigration' = [t \in MigrationTxs |-> "absent"]
          /\ UNCHANGED SystemVault
    /\ UNCHANGED <<memberVars, settingVars, Registrations, BondedVault, BondedRefund,
                   BondedPubKey, PreSubmittedPubKeys, PendingSetRefunds>>

drop_previous_round(round) ==
    /\ ServiceState = "Normal"
    /\ round < CurrentRound
    /\ SystemVault' = [SystemVault EXCEPT ![round] = None]
    /\ Registrations' = [Registrations EXCEPT ![round] = [u \in Users |-> None]]
    /\ BondedVault' = [BondedVault EXCEPT ![round] = <<>>]
    /\ BondedRefund' = [BondedRefund EXCEPT ![round] = <<>>]
    /\ BondedPubKey' = [BondedPubKey EXCEPT ![round] = <<>>]
    /\ PreSubmittedPubKeys' = [PreSubmittedPubKeys EXCEPT ![round] = [e \in Members |-> {}]]
    /\ UNCHANGED <<memberVars, sequenceVars, settingVars, PendingSetRefunds>>

set_max_presubmission(max) ==
    /\ max > 0
    /\ MaxPreSubmission' = max
    /\ UNCHANGED <<memberVars, sequenceVars, MultiSigRatio, roundVars>>

set_multi_sig_ratio(new) ==
    /\ new >= 50
    /\ new # MultiSigRatio
    /\ MultiSigRatio' = new
    /\ UNCHANGED <<memberVars, sequenceVars, MaxPreSubmission, roundVars>>

-----------------------------------------------------------------------------
(* A membership change updates the stored executives of the current round, or
   of the next one during a migration. *)
change_members_sorted(new) ==
    LET round == IF ServiceState = "Normal" THEN CurrentRound ELSE CurrentRound + 1
    IN /\ Executives' = new
       /\ RelayExecutives' = IF MembershipHook
                             THEN [RelayExecutives EXCEPT ![round] = new]
                             ELSE RelayExecutives

(* External: pallet-membership adds, removes, swaps or resets members. *)
membership_change(new) ==
    /\ change_members_sorted(new)
    /\ UNCHANGED <<sequenceVars, settingVars, roundVars>>

(* MultiSigAccount::replace_authority, on a pending vault. *)
ReplaceInVault(vault, old, new) ==
    IF is_pending(vault) /\ old \in DOMAIN vault.pub_keys
    THEN [vault EXCEPT !.pub_keys = Insert(Without(@, {old}), new, @[old])]
    ELSE vault

(* A relayer account is replaced at the start of a staking round
   (handle_delayed_relayer_sets): in the pool, then in the membership. *)
replace_authority(old, new) ==
    LET r == CurrentRound
        keys == PreSubmittedPubKeys[r]
        targets == Registrations[r]
    IN /\ old # new
       /\ PreSubmittedPubKeys' = [PreSubmittedPubKeys EXCEPT ![r] =
              [keys EXCEPT ![old] = {}, ![new] = IF keys[old] = {} THEN @ ELSE keys[old]]]
       /\ SystemVault' = [SystemVault EXCEPT ![r] =
              IF @ = None THEN None ELSE ReplaceInVault(@, old, new)]
       /\ Registrations' = [Registrations EXCEPT ![r] = [u \in Users |->
              IF targets[u] = None THEN None
              ELSE [targets[u] EXCEPT !.vault = ReplaceInVault(@, old, new)]]]
       /\ IF old \in Executives /\ new \notin Executives
          THEN change_members_sorted((Executives \ {old}) \cup {new})
          ELSE UNCHANGED memberVars
       /\ UNCHANGED <<sequenceVars, settingVars, BondedVault, BondedRefund, BondedPubKey,
                      PendingSetRefunds>>

(* The socket queue's calls on the migration transactions; it makes them for
   Migration requests only, which exist during the transfer only
   (MigrationIsolation of SocketQueue.tla). *)
MigrationTxCall(t, state) ==
    /\ ServiceState = "UTXOTransfer"
    /\ \/ OngoingVaultMigration[t] = "absent" /\ state = "waiting"
       \/ OngoingVaultMigration[t] # "absent" /\ state \in {"executed", "absent"}
    /\ OngoingVaultMigration' = [OngoingVaultMigration EXCEPT ![t] = state]
    /\ UNCHANGED <<memberVars, CurrentRound, ServiceState, settingVars, roundVars>>

-----------------------------------------------------------------------------
UserCalls ==
    \E who \in Users, refund \in RefundAddresses :
        request_vault(who, refund) \/ request_set_refund(who, refund)

ExecutiveCalls ==
    \E e \in Members :
        \/ \E key \in PubKeys :
              \/ \E who \in Users : submit_vault_key(e, who, key)
              \/ submit_system_vault_key(e, key)
        \/ \E keys \in PreSubmissions : vault_key_presubmission(e, keys)

RefundApprovals ==
    \/ \E users \in SUBSET Users : approve_set_refunds(users)
    \/ process_set_refunds

Governance ==
    \/ \E prepare \in BOOLEAN : request_system_vault(prepare)
    \/ \E address \in DOMAIN BondedVault[CurrentRound] : clear_vault(address)
    \/ \E ready \in BOOLEAN : migration_control(ready)
    \/ \E round \in Rounds : drop_previous_round(round)
    \/ \E max \in MaxPreSubmissions : set_max_presubmission(max)
    \/ \E new \in Ratios : set_multi_sig_ratio(new)

Membership ==
    \/ \E new \in ExecutiveSets : membership_change(new)
    \/ \E old, new \in Members : replace_authority(old, new)

Next ==
    \/ UserCalls
    \/ ExecutiveCalls
    \/ RefundApprovals
    \/ Governance
    \/ Membership
    \/ \E t \in MigrationTxs, state \in {"waiting", "executed", "absent"} :
           MigrationTxCall(t, state)

Spec == Init /\ [][Next]_vars

-----------------------------------------------------------------------------
(* The vault of an owner (a user or the precompile) in a round. *)
VaultOf(owner, r) ==
    IF owner = Precompile THEN SystemVault[r]
    ELSE IF Registrations[r][owner] = None THEN None ELSE Registrations[r][owner].vault
HasVault(owner, r) == VaultOf(owner, r) # None
HasAddress(owner, r) == HasVault(owner, r) /\ ~is_pending(VaultOf(owner, r))
VaultState(owner, r) ==
    IF ~HasVault(owner, r) THEN "none"
    ELSE IF HasAddress(owner, r) THEN "generated" ELSE "pending"

(* The pallet implements the interface the other pallets rely on. *)
Pool == INSTANCE PoolManager WITH
    SystemVault <- [r \in Rounds |-> VaultState(Precompile, r)],
    UserVault <- [u \in Users |-> VaultState(u, CurrentRound)]

(* Every step of the pallet (key submissions, presubmitted keys, clearing,
   dropping, relayer replacement) is a step of PoolManager.tla or invisible
   there. *)
ImplementsPoolManager == Pool!PoolSpec

(* The bonded addresses are exactly the generated vaults of their owners, and a
   vault is still made of the keys its address was made of: no vault takes the
   address of another (try_bond_vault_address overwrites an entry, only the key
   checks of the submissions keep the addresses apart), none leaves an address
   behind when it is cleared, and neither a replaced relayer nor a late key
   rewrites a generated one. *)
VaultsBonded ==
    \A r \in Rounds :
        /\ \A owner \in Owners : HasAddress(owner, r) =>
              LET vault == VaultOf(owner, r)
              IN /\ vault.address \in DOMAIN BondedVault[r]
                 /\ BondedVault[r][vault.address] = owner
                 /\ Range(vault.pub_keys) = vault.address.keys
        /\ \A a \in DOMAIN BondedVault[r] :
              LET owner == BondedVault[r][a]
              IN HasAddress(owner, r) /\ VaultOf(owner, r).address = a

(* No refund goes to a vault: an address bonded as the refund address of a user
   is never bonded as a vault of the round (request_vault, request_set_refund,
   its execution and try_bond_vault_address each check one order of events). *)
VaultNotRefund ==
    \A r \in Rounds : \A a \in DOMAIN BondedRefund[r] \cap DOMAIN BondedVault[r] :
        BondedRefund[r][a] = {}

(* try_bond_vault_address: "If the generated address is already used as a refund
   address, the stored public keys will be cleared."  No refund address of a
   registered user is bonded as a vault. *)
RefundNeverVault ==
    \A r \in Rounds, u \in Users :
        Registrations[r][u] # None =>
            Registrations[r][u].refund_address \notin DOMAIN BondedVault[r]

(* BondedPubKey: "Mapped public keys used for vault account generation. The
   key is the public key and the value is user's Bifrost address." *)
KeysBonded ==
    \A r \in Rounds, owner \in Owners : HasAddress(owner, r) =>
        \A key \in Range(VaultOf(owner, r).pub_keys) :
            key \in DOMAIN BondedPubKey[r] /\ BondedPubKey[r][key] = owner

(* BondedRefund: "The key is the refund address and the value is the user's
   Bifrost address(s)." *)
RefundsBonded ==
    \A r \in Rounds, u \in Users : Registrations[r][u] # None =>
        LET a == Registrations[r][u].refund_address
        IN a \in DOMAIN BondedRefund[r] /\ u \in BondedRefund[r][a]

(* MultiSigAccount::m: "The m value of the multi-sig address." *)
VaultThreshold ==
    \A r \in Rounds, owner \in Owners : HasAddress(owner, r) =>
        VaultOf(owner, r).m = VaultOf(owner, r).address.m

(* RelayExecutives: "The relay executive members per round, kept in sync with
   T::Executives via ChangeMembers." *)
ExecutivesInSync ==
    ServiceState = "Normal" => RelayExecutives[CurrentRound] = Executives

(* drop_previous_round: "Drop a previous round and all its related data." *)
DroppedRoundGone ==
    [][\A r \in Rounds : drop_previous_round(r) =>
          PendingSetRefunds'[r] = [u \in Users |-> None]]_vars

(* Governance goes on with a migration it started, and the executives go on
   submitting keys to a pending vault. *)
FairSpec ==
    /\ Spec
    /\ WF_vars(ServiceState # "Normal" /\ \E ready \in BOOLEAN : migration_control(ready))
    /\ \A u \in Users :
           WF_vars(\E e \in Members, key \in PubKeys : submit_vault_key(e, u, key))

(* submit_vault_key: "If the quorum reach, the vault address will be
   generated."  Unless the service stays in a migration, a requested vault is
   generated while the executives submit keys. *)
RequestedVaultGenerated ==
    <>[](ServiceState = "Normal") =>
        \A u \in Users : (VaultState(u, CurrentRound) = "pending")
                             ~> (VaultState(u, CurrentRound) # "pending")

(* migration_control, "Sequence Order": SetExecutiveMembers is followed by
   PrepareNextSystemVault. *)
MigrationMovesOn ==
    (ServiceState = "SetExecutiveMembers") ~> (ServiceState = "PrepareNextSystemVault")
=============================================================================
