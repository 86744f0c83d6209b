----------------------- MODULE RegistrationPoolProofs -----------------------
(***************************************************************************)
(* Proofs about RegistrationPool.tla, for any members, users, keys,        *)
(* addresses, ratios and number of rounds.                                 *)
(***************************************************************************)
EXTENDS RegistrationPool, FiniteSetTheorems, WellFoundedInduction, TLAPS

(* Every bonded address belongs to an owner whose vault it is. *)
BondedOwned ==
    \A r \in Rounds : \A a \in DOMAIN BondedVault[r] :
        LET owner == BondedVault[r][a]
        IN HasAddress(owner, r) /\ VaultOf(owner, r).address = a

(* Nobody registers in a round to come. *)
FutureEmpty ==
    \A r \in Rounds, u \in Users : r > CurrentRound => Registrations[r][u] = None

(* The inductive invariant. *)
IInv == TypeOK /\ FutureEmpty /\ BondedOwned /\ VaultNotRefund

-----------------------------------------------------------------------------
(* The first presubmitted key is one of them. *)
LEMMA MinIn ==
    ASSUME NEW S \in SUBSET Nat, S # {}
    PROVE Min(S) \in S
<1> DEFINE less == {ss \in Nat \X Nat : ss[1] < ss[2]}
<1>1. IsWellFoundedOn(less, Nat)
  BY NatLessThanWellFounded DEF OpToRel
<1> HIDE DEF less
<1>2. \E x \in S : \A y \in S : ~ (<<y, x>> \in less)
  BY <1>1, WFMin, Zenon
<1>3. PICK x \in S : \A y \in S : ~ (<<y, x>> \in less)
  BY <1>2
<1>4. ASSUME NEW y \in S PROVE x <= y
  <2>1. x \in Nat /\ y \in Nat
    OBVIOUS
  <2>2. ~ (<<y, x>> \in less)
    BY <1>3
  <2> QED
    BY <2>1, <2>2 DEF less
<1> QED
  BY <1>4, Zenon DEF Min

(* The counts of the executives of the moment. *)
LEMMA CountTypes == TypeOK => get_n \in Nat /\ get_m \in Nat
<1> SUFFICES ASSUME TypeOK PROVE get_n \in Nat /\ get_m \in Nat
  OBVIOUS
<1>1. get_n \in Nat
  BY RegistrationPoolAssumption, FS_Subset, FS_CardinalityType DEF TypeOK, get_n
<1>2. MultiSigRatio \in 0..100
  BY RegistrationPoolAssumption DEF TypeOK
<1>3. MultiSigRatio * get_n \in Nat
  BY <1>1, <1>2
<1> QED
  BY <1>1, <1>3 DEF get_m

-----------------------------------------------------------------------------
(* Vault records. *)
LEMMA VaultType ==
    ASSUME NEW v \in MultiSigAccounts
    PROVE /\ v # None
          /\ v.address \in VaultAddresses \cup {None}
          /\ DOMAIN v.pub_keys \subseteq Members
          /\ v.pub_keys \in [DOMAIN v.pub_keys -> PubKeys]
          /\ v.m \in Nat /\ v.n \in Nat
<1>1. v # None
  BY RegistrationPoolAssumption
<1>2. v.pub_keys \in PartialFunctions(Members, PubKeys)
  BY DEF MultiSigAccounts
<1>3. DOMAIN v.pub_keys \subseteq Members /\ v.pub_keys \in [DOMAIN v.pub_keys -> PubKeys]
  BY <1>2 DEF PartialFunctions
<1> QED
  BY <1>1, <1>3 DEF MultiSigAccounts

LEMMA VaultMade ==
    ASSUME NEW a \in VaultAddresses \cup {None}, NEW keys, NEW m \in Nat, NEW n \in Nat,
           DOMAIN keys \subseteq Members, keys \in [DOMAIN keys -> PubKeys]
    PROVE [address |-> a, pub_keys |-> keys, m |-> m, n |-> n] \in MultiSigAccounts
<1>1. keys \in PartialFunctions(Members, PubKeys)
  BY DEF PartialFunctions
<1> QED
  BY <1>1 DEF MultiSigAccounts

LEMMA VaultWithAddress ==
    ASSUME NEW v \in MultiSigAccounts, NEW a \in VaultAddresses \cup {None}
    PROVE /\ [v EXCEPT !.address = a] \in MultiSigAccounts
          /\ [v EXCEPT !.address = a].address = a
          /\ [v EXCEPT !.address = a].pub_keys = v.pub_keys
  BY DEF MultiSigAccounts

LEMMA VaultWithKeys ==
    ASSUME NEW v \in MultiSigAccounts, NEW keys,
           DOMAIN keys \subseteq Members, keys \in [DOMAIN keys -> PubKeys]
    PROVE /\ [v EXCEPT !.pub_keys = keys] \in MultiSigAccounts
          /\ [v EXCEPT !.pub_keys = keys].address = v.address
          /\ [v EXCEPT !.pub_keys = keys].pub_keys = keys
<1>1. keys \in PartialFunctions(Members, PubKeys)
  BY DEF PartialFunctions
<1> QED
  BY <1>1 DEF MultiSigAccounts

LEMMA TargetType ==
    ASSUME NEW t \in BitcoinRelayTargets
    PROVE /\ t # None
          /\ t.vault \in MultiSigAccounts
          /\ t.refund_address \in RefundAddresses
          /\ \A v \in MultiSigAccounts :
                /\ [t EXCEPT !.vault = v] \in BitcoinRelayTargets
                /\ [t EXCEPT !.vault = v].vault = v
          /\ \A a \in RefundAddresses :
                /\ [t EXCEPT !.refund_address = a] \in BitcoinRelayTargets
                /\ [t EXCEPT !.refund_address = a].vault = t.vault
  BY RegistrationPoolAssumption DEF BitcoinRelayTargets

(* An address that can be generated is one. *)
LEMMA AddressType ==
    ASSUME TypeOK, NEW v \in MultiSigAccounts
    PROVE /\ generate_vault_address(v) \in VaultAddresses
          /\ generate_vault_address(v) # None
          /\ generate_vault_address(v).keys = Range(v.pub_keys)
          /\ Generated(v) \in MultiSigAccounts
          /\ Generated(v).address = generate_vault_address(v)
          /\ Generated(v).pub_keys = v.pub_keys
<1>1. Range(v.pub_keys) \subseteq PubKeys
  BY VaultType DEF Range
<1>2. generate_vault_address(v) \in VaultAddresses
  BY <1>1, CountTypes DEF generate_vault_address, VaultAddresses
<1>3. generate_vault_address(v) # None
  BY <1>2, RegistrationPoolAssumption
<1>4. generate_vault_address(v).keys = Range(v.pub_keys)
  BY DEF generate_vault_address
<1> QED
  BY <1>2, <1>3, <1>4, VaultWithAddress DEF Generated

LEMMA RoundType ==
    ASSUME IInv
    PROVE CurrentRound \in Nat /\ CurrentRound \in Rounds /\ CurrentRound + 1 \in Rounds
  BY RegistrationPoolAssumption DEF IInv, TypeOK, Rounds

LEMMA VaultOfType ==
    ASSUME TypeOK, NEW o \in Owners, NEW r \in Rounds
    PROVE /\ VaultOf(o, r) \in MultiSigAccounts \cup {None}
          /\ o \in Users /\ Registrations[r][o] # None =>
                 VaultOf(o, r) = Registrations[r][o].vault
          /\ o = Precompile => VaultOf(o, r) = SystemVault[r]
  BY TargetType, RegistrationPoolAssumption DEF TypeOK, VaultOf, Owners

-----------------------------------------------------------------------------
(* Steps by what they do to the vaults of the owners. *)

(* One vault of one round is given a value. *)
OneVault(who, round, v) ==
    \A o \in Owners, r \in Rounds :
        VaultOf(o, r)' = IF o = who /\ r = round THEN v ELSE VaultOf(o, r)

StateOf(v) == IF v = None THEN "none" ELSE IF v.address = None THEN "pending" ELSE "generated"

(* No vault appears, disappears or gets another address. *)
SameAddresses ==
    \A o \in Owners, r \in Rounds :
        /\ VaultOf(o, r)' = None <=> VaultOf(o, r) = None
        /\ VaultOf(o, r) # None => VaultOf(o, r)'.address = VaultOf(o, r).address

LEMMA OneVaultStates ==
    ASSUME NEW who, NEW round, NEW v, OneVault(who, round, v),
           NEW o \in Owners, NEW r \in Rounds
    PROVE VaultState(o, r)' = IF o = who /\ r = round THEN StateOf(v) ELSE VaultState(o, r)
  BY DEF OneVault, VaultState, StateOf, HasVault, HasAddress, is_pending

LEMMA SameStates ==
    ASSUME SameAddresses, NEW o \in Owners, NEW r \in Rounds
    PROVE VaultState(o, r)' = VaultState(o, r)
  BY DEF SameAddresses, VaultState, HasVault, HasAddress, is_pending

LEMMA BondStep ==
    ASSUME IInv, NEW who \in Owners, NEW round \in Rounds, NEW v \in MultiSigAccounts,
           OneVault(who, round, v),
           ~HasAddress(who, round),
           \/ BondedVault' = BondedVault
           \/ /\ v.address # None
              /\ BondedVault' = [BondedVault EXCEPT ![round] = Insert(@, v.address, who)]
    PROVE BondedOwned'
<1> SUFFICES ASSUME NEW r \in Rounds, NEW a \in DOMAIN BondedVault'[r], NEW o,
                    o = BondedVault'[r][a]
             PROVE HasAddress(o, r)' /\ VaultOf(o, r)'.address = a
  BY DEF BondedOwned
<1>1. v # None
  BY VaultType
<1>2. IsRoundMap(BondedVault, VaultAddresses, Owners)
  BY DEF IInv, TypeOK
<1>3. CASE a \in DOMAIN BondedVault[r] /\ o = BondedVault[r][a]
  <2>1. o \in Owners
    BY <1>2, <1>3 DEF IsRoundMap
  <2>2. HasAddress(o, r) /\ VaultOf(o, r).address = a
    BY <1>3 DEF IInv, BondedOwned
  <2>3. VaultOf(o, r)' = VaultOf(o, r)
    BY <2>1, <2>2 DEF OneVault
  <2> QED
    BY <1>3, <2>2, <2>3 DEF HasAddress, HasVault, is_pending
<1>4. CASE r = round /\ a = v.address /\ v.address # None /\ o = who
  <2>1. VaultOf(o, r)' = v
    BY <1>4 DEF OneVault
  <2> QED
    BY <1>1, <1>4, <2>1 DEF HasAddress, HasVault, is_pending
<1>5. CASE BondedVault' = BondedVault
  BY <1>3, <1>5
<1>6. CASE /\ v.address # None
           /\ BondedVault' = [BondedVault EXCEPT ![round] = Insert(@, v.address, who)]
  <2>1. v.address \in VaultAddresses
    BY <1>6, VaultType
  <2>2. DOMAIN BondedVault[round] \subseteq VaultAddresses
        /\ BondedVault[round] \in [DOMAIN BondedVault[round] -> Owners]
    BY <1>2 DEF IsRoundMap
  <2>3. BondedVault'[round] = Insert(BondedVault[round], v.address, who)
        /\ \A q \in Rounds \ {round} : BondedVault'[q] = BondedVault[q]
    BY <1>2, <1>6 DEF IsRoundMap
  <2>4. CASE r = round
    <3> DEFINE g == Insert(BondedVault[round], v.address, who)
    <3>1. /\ DOMAIN g = DOMAIN BondedVault[round] \cup {v.address}
          /\ g[v.address] = who
          /\ \A z \in DOMAIN BondedVault[round] \ {v.address} : g[z] = BondedVault[round][z]
      BY DEF Insert, InsertAll
    <3>2. a \in DOMAIN g /\ o = g[a]
      BY <2>3, <2>4
    <3> HIDE DEF g
    <3>3. CASE a = v.address
      BY <1>4, <1>6, <2>4, <3>1, <3>2, <3>3
    <3>4. CASE a # v.address
      BY <1>3, <2>4, <3>1, <3>2, <3>4
    <3> QED
      BY <3>3, <3>4
  <2>5. CASE r # round
    BY <1>3, <2>3, <2>5
  <2> QED
    BY <2>4, <2>5
<1> QED
  BY <1>5, <1>6

LEMMA SameBonds ==
    ASSUME IInv, SameAddresses, BondedVault' = BondedVault
    PROVE BondedOwned'
<1> SUFFICES ASSUME NEW r \in Rounds, NEW a \in DOMAIN BondedVault[r], NEW o,
                    o = BondedVault[r][a]
             PROVE HasAddress(o, r)' /\ VaultOf(o, r)'.address = a
  BY DEF BondedOwned
<1>1. o \in Owners
  BY DEF IInv, TypeOK, IsRoundMap
<1>2. HasAddress(o, r) /\ VaultOf(o, r).address = a
  BY DEF IInv, BondedOwned
<1> QED
  BY <1>1, <1>2 DEF SameAddresses, HasAddress, HasVault, is_pending

-----------------------------------------------------------------------------
LEMMA InitIInv == Init => IInv
<1> SUFFICES ASSUME Init PROVE IInv
  OBVIOUS
<1>1. CurrentRound \in 1..MaxRound /\ 1 \in Rounds
  BY RegistrationPoolAssumption DEF Init, Rounds
<1>2. Executives \subseteq Members /\ RelayExecutives \in [Rounds -> SUBSET Members]
  BY RegistrationPoolAssumption DEF Init
<1>3. DOMAIN <<>> = {}
  OBVIOUS
<1>4. /\ IsRoundMap(BondedVault, VaultAddresses, Owners)
      /\ IsRoundMap(BondedRefund, RefundAddresses, SUBSET Users)
      /\ IsRoundMap(BondedPubKey, PubKeys, Owners)
  BY <1>3 DEF Init, IsRoundMap
<1>5. TypeOK
  BY <1>1, <1>2, <1>4 DEF Init, TypeOK
<1>6. FutureEmpty
  BY DEF Init, FutureEmpty
<1>7. BondedOwned /\ VaultNotRefund
  BY <1>3 DEF Init, BondedOwned, VaultNotRefund
<1> QED
  BY <1>5, <1>6, <1>7 DEF IInv

LEMMA InitPool == Init => Pool!PoolInit
<1> SUFFICES ASSUME Init PROVE Pool!PoolInit
  OBVIOUS
<1>1. \A o \in Owners, r \in Rounds : VaultState(o, r) = "none"
  BY DEF Init, VaultState, HasVault, VaultOf, Owners
<1>2. [r \in Rounds |-> VaultState(Precompile, r)] = [r \in Pool!Rounds |-> "none"]
  BY <1>1 DEF Owners, Rounds, Pool!Rounds
<1>3. [u \in Users |-> VaultState(u, CurrentRound)] = [u \in Users |-> "none"]
  BY <1>1, RegistrationPoolAssumption DEF Owners, Rounds, Init
<1> QED
  BY <1>2, <1>3 DEF Init, Pool!PoolInit, Rounds, Pool!Rounds

-----------------------------------------------------------------------------
(* A step of PoolManager.tla, by what becomes of the states of the vaults. *)

LEMMA UserVaultStep ==
    ASSUME IInv, NEW who \in Users, NEW v \in MultiSigAccounts \cup {None},
           OneVault(who, CurrentRound, v),
           UNCHANGED <<CurrentRound, ServiceState, OngoingVaultMigration, memberVars>>,
           ServiceState = "Normal",
           \/ VaultState(who, CurrentRound) = "none"
           \/ VaultState(who, CurrentRound) = "pending" /\ StateOf(v) # "none"
           \/ VaultState(who, CurrentRound) = "generated" /\ StateOf(v) = "none"
    PROVE [Pool!PoolNext]_(Pool!poolVars)
<1>1. CurrentRound \in Rounds /\ who \in Owners /\ Users \subseteq Owners
      /\ Precompile \in Owners /\ Precompile # who
  BY RegistrationPoolAssumption DEF IInv, TypeOK, Rounds, Owners
<1> DEFINE uv == [u \in Users |-> VaultState(u, CurrentRound)]
           sv == [r \in Rounds |-> VaultState(Precompile, r)]
<1>2. sv' = sv
  BY <1>1, OneVaultStates
<1>3. uv' = [uv EXCEPT ![who] = StateOf(v)]
  <2>1. \A u \in Users : VaultState(u, CurrentRound)' =
                             IF u = who THEN StateOf(v) ELSE VaultState(u, CurrentRound)
    BY <1>1, OneVaultStates
  <2> QED
    BY <2>1, Zenon
<1>4. uv[who] = VaultState(who, CurrentRound)
  OBVIOUS
<1>5. StateOf(v) \in {"none", "pending", "generated"}
  BY DEF StateOf
<1>6. UNCHANGED <<CurrentRound, ServiceState, sv, OngoingVaultMigration, Executives, RelayExecutives>>
  BY <1>2 DEF memberVars
<1> HIDE DEF uv, sv
<1>7. CASE uv' = uv
  BY <1>6, <1>7 DEF Pool!poolVars, uv, sv
<1>8. CASE VaultState(who, CurrentRound) = "none" /\ StateOf(v) # "none"
  <2>1. Pool!request_vault(who, StateOf(v))
    BY <1>3, <1>4, <1>5, <1>6, <1>8 DEF Pool!request_vault, Pool!memberVars, uv, sv
  <2> QED
    BY <1>5, <2>1 DEF Pool!PoolNext, Pool!VaultRequests, Pool!VaultStates
<1>9. CASE VaultState(who, CurrentRound) = "pending" /\ StateOf(v) = "generated"
  <2>1. Pool!user_vault_generated(who)
    BY <1>3, <1>4, <1>6, <1>9 DEF Pool!user_vault_generated, Pool!memberVars, uv, sv
  <2> QED
    BY <2>1 DEF Pool!PoolNext, Pool!VaultRequests
<1>10. CASE VaultState(who, CurrentRound) = "generated" /\ StateOf(v) = "none"
  <2>1. Pool!clear_vault
    BY <1>3, <1>4, <1>6, <1>10, Zenon DEF Pool!clear_vault, Pool!memberVars, uv, sv
  <2> QED
    BY <2>1 DEF Pool!PoolNext, Pool!VaultRequests
<1>11. CASE VaultState(who, CurrentRound) = StateOf(v)
  <2>1. uv' = uv
    BY <1>3, <1>4, <1>11, Zenon DEF uv
  <2> QED
    BY <1>7, <2>1
<1> QED
  BY <1>5, <1>8, <1>9, <1>10, <1>11

LEMMA SameVaults ==
    ASSUME IInv, SameAddresses, CurrentRound' = CurrentRound
    PROVE /\ [r \in Rounds |-> VaultState(Precompile, r)]' = [r \in Rounds |-> VaultState(Precompile, r)]
          /\ [u \in Users |-> VaultState(u, CurrentRound)]' = [u \in Users |-> VaultState(u, CurrentRound)]
<1>1. CurrentRound \in Rounds /\ Users \subseteq Owners /\ Precompile \in Owners
  BY RegistrationPoolAssumption DEF IInv, TypeOK, Rounds, Owners
<1>2. \A r \in Rounds : VaultState(Precompile, r)' = VaultState(Precompile, r)
  BY <1>1, SameStates
<1>3. \A u \in Users : VaultState(u, CurrentRound)' = VaultState(u, CurrentRound)
  BY <1>1, SameStates
<1> QED
  BY <1>2, <1>3

LEMMA QuietStep ==
    ASSUME IInv, SameAddresses, UNCHANGED <<sequenceVars, memberVars>>
    PROVE [Pool!PoolNext]_(Pool!poolVars)
  BY SameVaults DEF sequenceVars, memberVars, Pool!poolVars

LEMMA Untouched ==
    ASSUME UNCHANGED <<SystemVault, Registrations>>
    PROVE SameAddresses
  BY DEF SameAddresses, VaultOf

-----------------------------------------------------------------------------
(* The actions. *)
LEMMA RequestSetRefundStep ==
    ASSUME IInv, NEW who \in Users, NEW new \in RefundAddresses, request_set_refund(who, new)
    PROVE IInv' /\ [Pool!PoolNext]_(Pool!poolVars)
<1> USE DEF request_set_refund
<1>1. SameAddresses
  BY Untouched
<1>2. TypeOK'
  BY Zenon DEF IInv, TypeOK, memberVars, sequenceVars, settingVars, IsRoundMap
<1>3. BondedOwned'
  BY <1>1, SameBonds
<1>4. FutureEmpty' /\ VaultNotRefund'
  BY DEF IInv, FutureEmpty, VaultNotRefund, sequenceVars
<1>5. [Pool!PoolNext]_(Pool!poolVars)
  BY <1>1, QuietStep
<1> QED
  BY <1>2, <1>3, <1>4, <1>5 DEF IInv

LEMMA PresubmissionStep ==
    ASSUME IInv, NEW e \in Members, NEW keys \in PreSubmissions, vault_key_presubmission(e, keys)
    PROVE IInv' /\ [Pool!PoolNext]_(Pool!poolVars)
<1> USE DEF vault_key_presubmission
<1>1. SameAddresses
  BY Untouched
<1>2. PreSubmittedPubKeys' \in [Rounds -> [Members -> SUBSET PubKeys]]
  <2>1. CurrentRound \in Rounds
    BY RoundType
  <2>2. PreSubmittedPubKeys[CurrentRound][e] \cup keys \in SUBSET PubKeys
    <3>1. keys \in SUBSET PubKeys
      BY RegistrationPoolAssumption
    <3>2. PreSubmittedPubKeys[CurrentRound][e] \in SUBSET PubKeys
      BY <2>1 DEF IInv, TypeOK
    <3> QED
      BY <3>1, <3>2
  <2> QED
    BY <2>1, <2>2 DEF IInv, TypeOK
<1>3. TypeOK'
  BY <1>2 DEF IInv, TypeOK, memberVars, sequenceVars, settingVars, IsRoundMap
<1>4. BondedOwned'
  BY <1>1, SameBonds
<1>5. FutureEmpty' /\ VaultNotRefund'
  BY DEF IInv, FutureEmpty, VaultNotRefund, sequenceVars
<1>6. [Pool!PoolNext]_(Pool!poolVars)
  BY <1>1, QuietStep
<1> QED
  BY <1>3, <1>4, <1>5, <1>6 DEF IInv

LEMMA SettingStep ==
    ASSUME IInv,
           \/ \E max \in MaxPreSubmissions : set_max_presubmission(max)
           \/ \E new \in Ratios : set_multi_sig_ratio(new)
    PROVE IInv' /\ [Pool!PoolNext]_(Pool!poolVars)
<1>1. /\ UNCHANGED <<memberVars, sequenceVars, roundVars>>
      /\ MultiSigRatio' \in Ratios /\ MaxPreSubmission' \in MaxPreSubmissions
  BY DEF set_max_presubmission, set_multi_sig_ratio, IInv, TypeOK
<1>2. SameAddresses
  BY <1>1, Untouched DEF roundVars
<1>3. TypeOK'
  BY <1>1 DEF IInv, TypeOK, memberVars, sequenceVars, roundVars, IsRoundMap
<1>4. BondedOwned'
  BY <1>1, <1>2, SameBonds DEF roundVars
<1>5. FutureEmpty' /\ VaultNotRefund'
  BY <1>1 DEF IInv, FutureEmpty, VaultNotRefund, sequenceVars, roundVars
<1>6. [Pool!PoolNext]_(Pool!poolVars)
  BY <1>1, <1>2, QuietStep
<1> QED
  BY <1>3, <1>4, <1>5, <1>6 DEF IInv

(* approve_set_refunds and process_set_refunds. *)
LEMMA SetRefundsStep ==
    ASSUME IInv, NEW users \in SUBSET Users,
           \A u \in users : PendingSetRefunds[CurrentRound][u] # None,
           SetRefunds(users)
    PROVE IInv' /\ [Pool!PoolNext]_(Pool!poolVars)
<1> DEFINE r0 == CurrentRound
           pending == PendingSetRefunds[r0]
           movers == {u \in users : /\ pending[u] \notin DOMAIN BondedVault[r0]
                                    /\ Registrations[r0][u] # None}
           new == [u \in movers |-> pending[u]]
           old == [u \in movers |-> Registrations[r0][u].refund_address]
           refunds == MovedRefunds(movers, new, old)
           targets == [u \in Users |->
                         IF u \in movers
                         THEN [Registrations[r0][u] EXCEPT !.refund_address = new[u]]
                         ELSE Registrations[r0][u]]
           left == [u \in Users |-> IF u \in users THEN None ELSE pending[u]]
<1>1. /\ BondedRefund' = [BondedRefund EXCEPT ![r0] = refunds]
      /\ Registrations' = [Registrations EXCEPT ![r0] = targets]
      /\ PendingSetRefunds' = [PendingSetRefunds EXCEPT ![r0] = left]
      /\ UNCHANGED <<memberVars, sequenceVars, settingVars, SystemVault, BondedVault,
                     BondedPubKey, PreSubmittedPubKeys>>
  BY DEF SetRefunds
<1>2. r0 \in Rounds /\ TypeOK
  BY RoundType DEF IInv
<1>3. /\ Registrations[r0] \in [Users -> BitcoinRelayTargets \cup {None}]
      /\ pending \in [Users -> RefundAddresses \cup {None}]
  BY <1>2 DEF TypeOK
<1>4. \A u \in movers : /\ u \in Users
                        /\ Registrations[r0][u] \in BitcoinRelayTargets
                        /\ new[u] = pending[u]
                        /\ new[u] \in RefundAddresses
                        /\ new[u] \notin DOMAIN BondedVault[r0]
                        /\ old[u] \in RefundAddresses
  BY <1>3, TargetType
<1>5. \A u \in Users : /\ targets[u] \in BitcoinRelayTargets \cup {None}
                       /\ targets[u] = None <=> Registrations[r0][u] = None
                       /\ targets[u] # None => targets[u].vault = Registrations[r0][u].vault
  <2> SUFFICES ASSUME NEW u \in Users
               PROVE /\ targets[u] \in BitcoinRelayTargets \cup {None}
                     /\ targets[u] = None <=> Registrations[r0][u] = None
                     /\ targets[u] # None => targets[u].vault = Registrations[r0][u].vault
    OBVIOUS
  <2>1. CASE u \in movers
    <3>1. targets[u] = [Registrations[r0][u] EXCEPT !.refund_address = new[u]]
      BY <2>1
    <3>2. Registrations[r0][u] \in BitcoinRelayTargets /\ new[u] \in RefundAddresses
      BY <1>4, <2>1, Zenon
    <3> HIDE DEF targets, new
    <3> QED
      BY <3>1, <3>2, TargetType
  <2>2. CASE u \notin movers
    BY <1>3, <2>2
  <2> QED
    BY <2>1, <2>2
<1>6. /\ DOMAIN refunds = DOMAIN BondedRefund[r0] \cup Range(new) \cup Range(old)
      /\ \A a \in DOMAIN refunds : refunds[a] =
            ((IF a \in DOMAIN BondedRefund[r0] THEN BondedRefund[r0][a] ELSE {})
             \ {u \in movers : old[u] = a}) \cup {u \in movers : new[u] = a}
  BY Zenon DEF MovedRefunds
<1>7. DOMAIN BondedRefund[r0] \subseteq RefundAddresses
      /\ BondedRefund[r0] \in [DOMAIN BondedRefund[r0] -> SUBSET Users]
  BY <1>2 DEF TypeOK, IsRoundMap
<1>8. Range(new) \subseteq RefundAddresses /\ Range(old) \subseteq RefundAddresses
  BY <1>4, Zenon DEF Range
<1>9. DOMAIN refunds \subseteq RefundAddresses
  BY <1>6, <1>7, <1>8, Zenon
<1>10. refunds \in [DOMAIN refunds -> SUBSET Users]
  <2>1. \A a \in DOMAIN refunds : refunds[a] \in SUBSET Users
    BY <1>6, <1>7, <1>4, Zenon
  <2>2. refunds = [a \in DOMAIN refunds |-> refunds[a]]
    BY Zenon DEF MovedRefunds
  <2> QED
    BY <2>1, <2>2, Zenon
<1>11. \A a \in DOMAIN refunds : a \in DOMAIN BondedVault[r0] => refunds[a] = {}
  <2> SUFFICES ASSUME NEW a \in DOMAIN refunds, a \in DOMAIN BondedVault[r0] PROVE refunds[a] = {}
    BY Zenon
  <2>1. {u \in movers : new[u] = a} = {}
    BY <1>4, Zenon
  <2>2. a \in DOMAIN BondedRefund[r0] => BondedRefund[r0][a] = {}
    BY <1>2 DEF IInv, VaultNotRefund
  <2> QED
    BY <1>6, <2>1, <2>2, Zenon
<1>12. left \in [Users -> RefundAddresses \cup {None}]
  BY <1>3
<1> HIDE DEF refunds, targets, left, movers, new, old, pending
<1>13. SameAddresses
  <2>1. \A r \in Rounds : r # r0 => Registrations'[r] = Registrations[r]
    BY <1>1, <1>2 DEF TypeOK
  <2>2. Registrations'[r0] = targets
    BY <1>1, <1>2 DEF TypeOK
  <2> SUFFICES ASSUME NEW o \in Owners, NEW r \in Rounds
               PROVE /\ VaultOf(o, r)' = None <=> VaultOf(o, r) = None
                     /\ VaultOf(o, r) # None => VaultOf(o, r)'.address = VaultOf(o, r).address
    BY DEF SameAddresses
  <2>3. CASE o = Precompile \/ r # r0
    BY <1>1, <2>1, <2>3 DEF VaultOf
  <2>4. CASE o # Precompile /\ r = r0
    BY <1>5, <2>2, <2>4 DEF VaultOf, Owners
  <2> QED
    BY <2>3, <2>4
<1>14. IsRoundMap(BondedRefund', RefundAddresses, SUBSET Users)
       /\ BondedRefund'[r0] = refunds
       /\ \A r \in Rounds \ {r0} : BondedRefund'[r] = BondedRefund[r]
  <2>1. IsRoundMap(BondedRefund, RefundAddresses, SUBSET Users)
    BY <1>2 DEF TypeOK
  <2>2. BondedRefund' = [r \in Rounds |-> IF r = r0 THEN refunds ELSE BondedRefund[r]]
    BY <1>1, <2>1 DEF IsRoundMap
  <2>3. BondedRefund'[r0] = refunds /\ \A r \in Rounds \ {r0} : BondedRefund'[r] = BondedRefund[r]
    BY <1>2, <2>2
  <2> QED
    BY <1>9, <1>10, <2>1, <2>2, <2>3 DEF IsRoundMap
<1>15. Registrations' \in [Rounds -> [Users -> BitcoinRelayTargets \cup {None}]]
  <2>1. targets \in [Users -> BitcoinRelayTargets \cup {None}]
    BY <1>5 DEF targets
  <2> QED
    BY <1>1, <1>2, <2>1 DEF TypeOK
<1>16. PendingSetRefunds' \in [Rounds -> [Users -> RefundAddresses \cup {None}]]
  BY <1>1, <1>2, <1>12 DEF TypeOK
<1>17. TypeOK'
  BY <1>1, <1>2, <1>14, <1>15, <1>16
     DEF TypeOK, memberVars, sequenceVars, settingVars, IsRoundMap
<1>18. BondedOwned'
  BY <1>1, <1>13, SameBonds
<1>19. FutureEmpty'
  <2>1. \A r \in Rounds : r > r0 => Registrations'[r] = Registrations[r]
    BY <1>1, <1>2, RoundType DEF TypeOK, Rounds
  <2> QED
    BY <1>1, <2>1 DEF IInv, FutureEmpty, sequenceVars
<1>20. VaultNotRefund'
  BY <1>1, <1>11, <1>14 DEF IInv, VaultNotRefund
<1>21. [Pool!PoolNext]_(Pool!poolVars)
  BY <1>1, <1>13, QuietStep
<1> QED
  BY <1>17, <1>18, <1>19, <1>20, <1>21 DEF IInv

LEMMA RequestSystemVaultStep ==
    ASSUME IInv, NEW round \in {CurrentRound, CurrentRound + 1},
           SystemVault[round] = None,
           SystemVault' = [SystemVault EXCEPT ![round] = NewVault(<<>>)],
           UNCHANGED <<memberVars, CurrentRound, OngoingVaultMigration, settingVars, Registrations,
                       BondedVault, BondedRefund, BondedPubKey, PreSubmittedPubKeys,
                       PendingSetRefunds>>,
           ServiceState' \in {"Normal", "SetExecutiveMembers", "PrepareNextSystemVault",
                              "UTXOTransfer"}
    PROVE /\ IInv'
          /\ round \in Rounds
          /\ [r \in Rounds |-> VaultState(Precompile, r)][round] = "none"
          /\ [r \in Rounds |-> VaultState(Precompile, r)]' =
                [[r \in Rounds |-> VaultState(Precompile, r)] EXCEPT ![round] = "pending"]
          /\ [u \in Users |-> VaultState(u, CurrentRound)]' =
                [u \in Users |-> VaultState(u, CurrentRound)]
<1> DEFINE v == NewVault(<<>>)
<1>1. round \in Rounds /\ CurrentRound \in Rounds /\ TypeOK /\ Precompile \in Owners
      /\ Users \subseteq Owners /\ Precompile \notin Users
  BY RoundType, RegistrationPoolAssumption DEF IInv, Owners
<1>2. v \in MultiSigAccounts /\ v.address = None
  <2>1. DOMAIN <<>> \subseteq Members /\ <<>> \in [DOMAIN <<>> -> PubKeys]
    OBVIOUS
  <2> QED
    BY <1>1, <2>1, CountTypes, VaultMade, Zenon DEF NewVault
<1> HIDE DEF v
<1>3. SystemVault' = [SystemVault EXCEPT ![round] = v]
  BY DEF v
<1>4. OneVault(Precompile, round, v)
  BY <1>1, <1>3 DEF OneVault, VaultOf, TypeOK
<1>5. VaultOf(Precompile, round) = None
  BY DEF VaultOf
<1>6. BondedOwned'
  BY <1>1, <1>2, <1>4, <1>5, BondStep DEF HasAddress, HasVault
<1>7. TypeOK'
  <2>1. SystemVault' \in [Rounds -> MultiSigAccounts \cup {None}]
    BY <1>1, <1>2, <1>3 DEF TypeOK
  <2> QED
    BY <1>1, <2>1 DEF TypeOK, memberVars, settingVars, IsRoundMap
<1>8. FutureEmpty' /\ VaultNotRefund'
  BY DEF IInv, FutureEmpty, VaultNotRefund
<1>9. StateOf(v) = "pending"
  BY <1>2, VaultType DEF StateOf
<1>10. VaultState(Precompile, round) = "none"
  BY <1>5 DEF VaultState, HasVault
<1>11. \A r \in Rounds : VaultState(Precompile, r)' =
                            IF r = round THEN "pending" ELSE VaultState(Precompile, r)
  BY <1>1, <1>4, <1>9, OneVaultStates
<1>12. \A u \in Users : VaultState(u, CurrentRound)' = VaultState(u, CurrentRound)
  BY <1>1, <1>4, OneVaultStates
<1> QED
  BY <1>1, <1>6, <1>7, <1>8, <1>10, <1>11, <1>12, Zenon DEF IInv

LEMMA SystemRequestStep ==
    ASSUME IInv, NEW prepare \in BOOLEAN, request_system_vault(prepare)
    PROVE IInv' /\ [Pool!PoolNext]_(Pool!poolVars)
<1> DEFINE round == IF prepare THEN CurrentRound + 1 ELSE CurrentRound
<1>1. /\ round \in {CurrentRound, CurrentRound + 1}
      /\ SystemVault[round] = None
      /\ ServiceState \in {"Normal", "PrepareNextSystemVault"}
      /\ SystemVault' = [SystemVault EXCEPT ![round] = NewVault(<<>>)]
      /\ UNCHANGED <<memberVars, sequenceVars, settingVars, Registrations, BondedVault,
                     BondedRefund, BondedPubKey, PreSubmittedPubKeys, PendingSetRefunds>>
  BY DEF request_system_vault, CanRequestSystemVault
<1> HIDE DEF round
<1>2. ServiceState' \in {"Normal", "SetExecutiveMembers", "PrepareNextSystemVault", "UTXOTransfer"}
  BY <1>1 DEF sequenceVars
<1>3. /\ IInv'
      /\ round \in Rounds
      /\ [r \in Rounds |-> VaultState(Precompile, r)][round] = "none"
      /\ [r \in Rounds |-> VaultState(Precompile, r)]' =
            [[r \in Rounds |-> VaultState(Precompile, r)] EXCEPT ![round] = "pending"]
      /\ [u \in Users |-> VaultState(u, CurrentRound)]' =
            [u \in Users |-> VaultState(u, CurrentRound)]
  BY <1>1, <1>2, RequestSystemVaultStep, Zenon DEF sequenceVars
<1>4. Pool!request_system_vault(round)
  BY <1>1, <1>3 DEF Pool!request_system_vault, Pool!memberVars, memberVars, sequenceVars
<1> QED
  BY <1>3, <1>4 DEF Pool!PoolNext, Pool!VaultRequests, Rounds, Pool!Rounds

LEMMA MigrationControlStep ==
    ASSUME IInv, NEW ready \in BOOLEAN, migration_control(ready)
    PROVE IInv' /\ [Pool!PoolNext]_(Pool!poolVars)
<1>1. UNCHANGED <<memberVars, settingVars, Registrations, BondedVault, BondedRefund,
                  BondedPubKey, PreSubmittedPubKeys, PendingSetRefunds>>
  BY DEF migration_control
<1>2. CASE /\ ServiceState = "Normal"
           /\ ServiceState' = "SetExecutiveMembers"
           /\ UNCHANGED <<CurrentRound, OngoingVaultMigration, SystemVault>>
  <2>1. SameAddresses
    BY <1>1, <1>2, Untouched
  <2>2. TypeOK'
    BY <1>1, <1>2 DEF IInv, TypeOK, memberVars, settingVars, IsRoundMap
  <2>3. BondedOwned'
    BY <1>1, <2>1, SameBonds
  <2>4. FutureEmpty' /\ VaultNotRefund'
    BY <1>1, <1>2 DEF IInv, FutureEmpty, VaultNotRefund
  <2>5. Pool!migration_start
    BY <1>1, <1>2, <2>1, SameVaults DEF Pool!migration_start, Pool!memberVars, memberVars
  <2> QED
    BY <2>2, <2>3, <2>4, <2>5 DEF IInv, Pool!PoolNext
<1>3. CASE /\ ServiceState = "SetExecutiveMembers"
           /\ SystemVault[CurrentRound + 1] = None
           /\ ServiceState' = "PrepareNextSystemVault"
           /\ SystemVault' = [SystemVault EXCEPT ![CurrentRound + 1] = NewVault(<<>>)]
           /\ UNCHANGED <<CurrentRound, OngoingVaultMigration>>
  <2>1. /\ IInv'
        /\ [r \in Rounds |-> VaultState(Precompile, r)][CurrentRound + 1] = "none"
        /\ [r \in Rounds |-> VaultState(Precompile, r)]' =
              [[r \in Rounds |-> VaultState(Precompile, r)] EXCEPT ![CurrentRound + 1] = "pending"]
        /\ [u \in Users |-> VaultState(u, CurrentRound)]' =
              [u \in Users |-> VaultState(u, CurrentRound)]
    BY <1>1, <1>3, RequestSystemVaultStep
  <2>2. Pool!migration_prepare
    BY <1>1, <1>3, <2>1 DEF Pool!migration_prepare, Pool!memberVars, memberVars
  <2> QED
    BY <2>1, <2>2 DEF Pool!PoolNext, Pool!MigrationStep
<1>4. CASE /\ ServiceState = "UTXOTransfer"
           /\ AllMigrationTxsExecuted
           /\ CurrentRound < MaxRound
           /\ CurrentRound' = CurrentRound + 1
           /\ ServiceState' = "Normal"
           /\ OngoingVaultMigration' = [t \in MigrationTxs |-> "absent"]
           /\ UNCHANGED SystemVault
  <2>1. SameAddresses
    BY <1>1, <1>4, Untouched
  <2>2. TypeOK'
    BY <1>1, <1>4, RegistrationPoolAssumption
       DEF IInv, TypeOK, memberVars, settingVars, IsRoundMap
  <2>3. BondedOwned'
    BY <1>1, <2>1, SameBonds
  <2>4. FutureEmpty' /\ VaultNotRefund'
    BY <1>1, <1>4, RoundType DEF IInv, FutureEmpty, VaultNotRefund, Rounds
  <2>5. \A u \in Users : VaultState(u, CurrentRound)' = "none"
    <3>1. \A u \in Users : Registrations[CurrentRound + 1][u] = None
      BY RoundType DEF IInv, FutureEmpty
    <3> QED
      BY <1>1, <1>4, <3>1, RegistrationPoolAssumption DEF VaultState, HasVault, VaultOf
  <2>6. \A r \in Rounds : VaultState(Precompile, r)' = VaultState(Precompile, r)
    BY <2>1, SameStates DEF Owners
  <2>7. Pool!AllMigrationTxsExecuted
    BY <1>4 DEF AllMigrationTxsExecuted, Pool!AllMigrationTxsExecuted
  <2>8. Pool!migration_complete
    BY <1>1, <1>4, <2>5, <2>6, <2>7 DEF Pool!migration_complete, Pool!memberVars, memberVars
  <2> QED
    BY <2>2, <2>3, <2>4, <2>8 DEF IInv, Pool!PoolNext, Pool!MigrationStep
<1> QED
  BY <1>2, <1>3, <1>4 DEF migration_control

LEMMA DropStep ==
    ASSUME IInv, NEW round \in Rounds, drop_previous_round(round)
    PROVE IInv' /\ [Pool!PoolNext]_(Pool!poolVars)
<1>1. /\ ServiceState = "Normal"
      /\ round < CurrentRound
      /\ SystemVault' = [SystemVault EXCEPT ![round] = None]
      /\ Registrations' = [Registrations EXCEPT ![round] = [u \in Users |-> None]]
      /\ BondedVault' = [BondedVault EXCEPT ![round] = <<>>]
      /\ BondedRefund' = [BondedRefund EXCEPT ![round] = <<>>]
      /\ BondedPubKey' = [BondedPubKey EXCEPT ![round] = <<>>]
      /\ PreSubmittedPubKeys' = [PreSubmittedPubKeys EXCEPT ![round] = [e \in Members |-> {}]]
      /\ UNCHANGED <<memberVars, sequenceVars, settingVars, PendingSetRefunds>>
  BY DEF drop_previous_round
<1>2. DOMAIN <<>> = {}
  OBVIOUS
<1>3. TypeOK
  BY DEF IInv
<1>4. /\ SystemVault' \in [Rounds -> MultiSigAccounts \cup {None}]
      /\ Registrations' \in [Rounds -> [Users -> BitcoinRelayTargets \cup {None}]]
      /\ PreSubmittedPubKeys' \in [Rounds -> [Members -> SUBSET PubKeys]]
  BY <1>1, <1>3 DEF TypeOK
<1>5. /\ BondedVault' = [r \in Rounds |-> IF r = round THEN <<>> ELSE BondedVault[r]]
      /\ BondedRefund' = [r \in Rounds |-> IF r = round THEN <<>> ELSE BondedRefund[r]]
      /\ BondedPubKey' = [r \in Rounds |-> IF r = round THEN <<>> ELSE BondedPubKey[r]]
  BY <1>1, <1>3, Zenon DEF TypeOK, IsRoundMap
<1>6. IsRoundMap(BondedVault', VaultAddresses, Owners)
  BY <1>2, <1>3, <1>5 DEF TypeOK, IsRoundMap
<1>7. IsRoundMap(BondedRefund', RefundAddresses, SUBSET Users)
  BY <1>2, <1>3, <1>5 DEF TypeOK, IsRoundMap
<1>8. IsRoundMap(BondedPubKey', PubKeys, Owners)
  BY <1>2, <1>3, <1>5 DEF TypeOK, IsRoundMap
<1>9. TypeOK'
  BY <1>1, <1>3, <1>4, <1>6, <1>7, <1>8, Zenon DEF TypeOK, memberVars, sequenceVars, settingVars, IsRoundMap
<1>10. \A o \in Owners, r \in Rounds :
          VaultOf(o, r)' = IF r = round THEN None ELSE VaultOf(o, r)
  BY <1>1, <1>3 DEF TypeOK, VaultOf, Owners
<1>11. BondedOwned'
  <2> SUFFICES ASSUME NEW r \in Rounds, NEW a \in DOMAIN BondedVault'[r], NEW o,
                      o = BondedVault'[r][a]
               PROVE HasAddress(o, r)' /\ VaultOf(o, r)'.address = a
    BY DEF BondedOwned
  <2>1. r # round /\ BondedVault'[r] = BondedVault[r]
    BY <1>2, <1>5
  <2>2. o \in Owners /\ HasAddress(o, r) /\ VaultOf(o, r).address = a
    BY <1>3, <2>1 DEF IInv, BondedOwned, TypeOK, IsRoundMap
  <2> QED
    BY <1>10, <2>1, <2>2 DEF HasAddress, HasVault, is_pending
<1>12. FutureEmpty' /\ VaultNotRefund'
  <2>1. FutureEmpty'
    BY <1>1, <1>3, RoundType DEF IInv, FutureEmpty, TypeOK, sequenceVars
  <2>2. VaultNotRefund'
    BY <1>2, <1>5 DEF IInv, VaultNotRefund
  <2> QED
    BY <2>1, <2>2
<1>13. \A r \in Rounds : VaultState(Precompile, r)' =
                            IF r = round THEN "none" ELSE VaultState(Precompile, r)
  BY <1>10 DEF VaultState, HasAddress, HasVault, is_pending, Owners
<1>14. \A u \in Users : VaultState(u, CurrentRound)' = VaultState(u, CurrentRound)
  BY <1>1, <1>10, RoundType DEF VaultState, HasAddress, HasVault, is_pending, Owners, sequenceVars
<1>15. Pool!drop_previous_round(round)
  BY <1>1, <1>13, <1>14, Zenon DEF Pool!drop_previous_round, Pool!memberVars, memberVars, sequenceVars
<1> QED
  BY <1>9, <1>11, <1>12, <1>15 DEF IInv, Pool!PoolNext, Pool!VaultRequests, Rounds, Pool!Rounds

LEMMA MembersType ==
    ASSUME IInv, NEW new \in SUBSET Members, change_members_sorted(new)
    PROVE /\ Executives' \subseteq Members
          /\ RelayExecutives' \in [Rounds -> SUBSET Members]
          /\ Pool!change_members_sorted(new)
<1>1. CurrentRound \in Rounds /\ CurrentRound + 1 \in Rounds
  BY RoundType
<1>2. Executives' \subseteq Members /\ RelayExecutives' \in [Rounds -> SUBSET Members]
  BY <1>1 DEF IInv, TypeOK, change_members_sorted
<1> QED
  BY <1>2 DEF change_members_sorted, Pool!change_members_sorted, Pool!MembershipRound

LEMMA MembershipChangeStep ==
    ASSUME IInv, NEW new \in ExecutiveSets, membership_change(new)
    PROVE IInv' /\ [Pool!PoolNext]_(Pool!poolVars)
<1>1. change_members_sorted(new) /\ UNCHANGED <<sequenceVars, settingVars, roundVars>>
  BY DEF membership_change
<1>2. new \in SUBSET Members
  BY RegistrationPoolAssumption
<1>3. SameAddresses
  BY <1>1, Untouched DEF roundVars
<1>4. TypeOK'
  BY <1>1, <1>2, MembersType, Zenon DEF IInv, TypeOK, sequenceVars, settingVars, roundVars, IsRoundMap
<1>5. BondedOwned'
  BY <1>1, <1>3, SameBonds DEF roundVars
<1>6. FutureEmpty' /\ VaultNotRefund'
  BY <1>1 DEF IInv, FutureEmpty, VaultNotRefund, sequenceVars, roundVars
<1>7. Pool!membership_change(new)
  BY <1>1, <1>2, <1>3, MembersType, SameVaults DEF Pool!membership_change, sequenceVars
<1> QED
  BY <1>4, <1>5, <1>6, <1>7 DEF IInv, Pool!PoolNext, Pool!MembershipStep

LEMMA MigrationTxStep ==
    ASSUME IInv, NEW t \in MigrationTxs, NEW state \in {"waiting", "executed", "absent"},
           MigrationTxCall(t, state)
    PROVE IInv' /\ [Pool!PoolNext]_(Pool!poolVars)
<1> USE DEF MigrationTxCall
<1>1. SameAddresses
  BY Untouched DEF roundVars
<1>2. TypeOK'
  BY Zenon DEF IInv, TypeOK, memberVars, settingVars, roundVars, IsRoundMap
<1>3. BondedOwned'
  BY <1>1, SameBonds DEF roundVars
<1>4. FutureEmpty' /\ VaultNotRefund'
  BY Zenon DEF IInv, FutureEmpty, VaultNotRefund, roundVars
<1>5. \/ OngoingVaultMigration' = Pool!add_migration_tx(OngoingVaultMigration, t)
      \/ OngoingVaultMigration' = Pool!remove_migration_tx(OngoingVaultMigration, t)
      \/ OngoingVaultMigration' = Pool!execute_migration_tx(OngoingVaultMigration, t)
  BY Zenon DEF Pool!add_migration_tx, Pool!remove_migration_tx, Pool!execute_migration_tx, IInv, TypeOK
<1>6. Pool!SocketQueueCalls
  BY <1>1, <1>5, SameVaults DEF Pool!SocketQueueCalls, Pool!memberVars, memberVars
<1> QED
  BY <1>2, <1>3, <1>4, <1>6 DEF IInv, Pool!PoolNext

-----------------------------------------------------------------------------
(* Key submissions. *)
LEMMA KeyVault ==
    ASSUME TypeOK, NEW vault \in MultiSigAccounts, vault.address = None,
           NEW e \in Members, NEW key \in PubKeys
    PROVE LET more == WithKey(vault, e, key)
          IN /\ more \in MultiSigAccounts
             /\ more.address = None
             /\ more.pub_keys = Insert(vault.pub_keys, e, key)
             /\ Submitted(more) \in MultiSigAccounts
             /\ Submitted(more).pub_keys = more.pub_keys
             /\ Submitted(more).address = IF is_key_generation_ready(more)
                                          THEN generate_vault_address(more) ELSE None
             /\ generate_vault_address(more) \in VaultAddresses
             /\ generate_vault_address(more) # None
<1> DEFINE keys == Insert(vault.pub_keys, e, key)
           more == WithKey(vault, e, key)
<1>1. DOMAIN keys \subseteq Members /\ keys \in [DOMAIN keys -> PubKeys]
  <2>1. DOMAIN vault.pub_keys \subseteq Members /\ vault.pub_keys \in [DOMAIN vault.pub_keys -> PubKeys]
    BY VaultType
  <2> QED
    BY <2>1 DEF Insert, InsertAll
<1> HIDE DEF keys
<1>2. more = [vault EXCEPT !.pub_keys = keys]
  BY DEF WithKey, keys
<1>3. more \in MultiSigAccounts /\ more.address = None /\ more.pub_keys = keys
  BY <1>1, <1>2, VaultWithKeys
<1> HIDE DEF more
<1>4. /\ generate_vault_address(more) \in VaultAddresses
      /\ generate_vault_address(more) # None
      /\ Generated(more) \in MultiSigAccounts
      /\ Generated(more).address = generate_vault_address(more)
      /\ Generated(more).pub_keys = more.pub_keys
  BY <1>3, AddressType
<1>5. /\ Submitted(more) \in MultiSigAccounts
      /\ Submitted(more).pub_keys = more.pub_keys
      /\ Submitted(more).address = IF is_key_generation_ready(more)
                                   THEN generate_vault_address(more) ELSE None
  BY <1>3, <1>4 DEF Submitted
<1> QED
  BY <1>3, <1>4, <1>5 DEF more, keys

LEMMA SubmitKeyStep ==
    ASSUME IInv, NEW vault \in MultiSigAccounts, NEW e \in Members, NEW key \in PubKeys,
           NEW who \in Owners, NEW refund, NEW round \in Rounds,
           SubmitKey(vault, e, key, who, refund, round),
           VaultOf(who, round) = vault,
           OneVault(who, round, Submitted(WithKey(vault, e, key)))
    PROVE /\ BondedOwned' /\ VaultNotRefund'
          /\ IsRoundMap(BondedVault', VaultAddresses, Owners)
          /\ IsRoundMap(BondedPubKey', PubKeys, Owners)
          /\ VaultState(who, round) = "pending"
          /\ StateOf(Submitted(WithKey(vault, e, key))) =
                IF is_key_generation_ready(WithKey(vault, e, key)) THEN "generated" ELSE "pending"
<1> DEFINE more == WithKey(vault, e, key)
           v == Submitted(more)
           a == generate_vault_address(more)
<1>1. vault.address = None
  BY DEF SubmitKey, CanSubmitKey, is_pending
<1>2. TypeOK
  BY DEF IInv
<1>3. /\ v \in MultiSigAccounts
      /\ v.address = IF is_key_generation_ready(more) THEN a ELSE None
      /\ a \in VaultAddresses
      /\ a # None
  BY <1>1, <1>2, KeyVault
<1>4. IF is_key_generation_ready(more)
      THEN /\ a \notin DOMAIN BondedRefund[round]
           /\ BondedVault' = [BondedVault EXCEPT ![round] = Insert(@, a, who)]
      ELSE BondedVault' = BondedVault
  BY DEF SubmitKey, CanBond, Bond
<1>5. BondedPubKey' = [BondedPubKey EXCEPT ![round] = Insert(@, key, who)]
      /\ BondedRefund' = BondedRefund
  BY DEF SubmitKey
<1>6. OneVault(who, round, v)
  OBVIOUS
<1> HIDE DEF v, a, more
<1>7. ~HasAddress(who, round) /\ VaultState(who, round) = "pending"
  BY <1>1, VaultType DEF HasAddress, HasVault, is_pending, VaultState
<1>8. BondedOwned'
  <2>1. \/ BondedVault' = BondedVault
        \/ /\ v.address # None
           /\ BondedVault' = [BondedVault EXCEPT ![round] = Insert(@, v.address, who)]
    BY <1>3, <1>4, Zenon
  <2> QED
    BY <1>3, <1>6, <1>7, <2>1, BondStep
<1>9. /\ IsRoundMap(BondedVault, VaultAddresses, Owners)
      /\ IsRoundMap(BondedPubKey, PubKeys, Owners)
  BY <1>2 DEF TypeOK
<1>10. /\ DOMAIN Insert(BondedVault[round], a, who) = DOMAIN BondedVault[round] \cup {a}
       /\ DOMAIN Insert(BondedVault[round], a, who) \subseteq VaultAddresses
       /\ Insert(BondedVault[round], a, who) \in [DOMAIN Insert(BondedVault[round], a, who) -> Owners]
  <2>1. DOMAIN BondedVault[round] \subseteq VaultAddresses
        /\ BondedVault[round] \in [DOMAIN BondedVault[round] -> Owners]
    BY <1>9 DEF IsRoundMap
  <2> QED
    BY <1>3, <2>1, Zenon DEF Insert, InsertAll
<1>11. /\ DOMAIN Insert(BondedPubKey[round], key, who) \subseteq PubKeys
       /\ Insert(BondedPubKey[round], key, who) \in [DOMAIN Insert(BondedPubKey[round], key, who) -> Owners]
  <2>1. DOMAIN BondedPubKey[round] \subseteq PubKeys
        /\ BondedPubKey[round] \in [DOMAIN BondedPubKey[round] -> Owners]
    BY <1>9 DEF IsRoundMap
  <2> QED
    BY <2>1, Zenon DEF Insert, InsertAll
<1>12. IsRoundMap(BondedPubKey', PubKeys, Owners)
  <2>1. BondedPubKey' = [r \in Rounds |-> IF r = round THEN Insert(BondedPubKey[round], key, who)
                                          ELSE BondedPubKey[r]]
    BY <1>5, <1>9 DEF IsRoundMap
  <2> QED
    BY <1>9, <1>11, <2>1 DEF IsRoundMap
<1>13. CASE is_key_generation_ready(more)
  <2>1. BondedVault' = [r \in Rounds |-> IF r = round THEN Insert(BondedVault[round], a, who)
                                         ELSE BondedVault[r]]
    BY <1>4, <1>9, <1>13 DEF IsRoundMap
  <2>2. IsRoundMap(BondedVault', VaultAddresses, Owners)
    BY <1>9, <1>10, <2>1 DEF IsRoundMap
  <2>3. VaultNotRefund'
    BY <1>4, <1>5, <1>10, <1>13, <2>1 DEF IInv, VaultNotRefund
  <2> QED
    BY <1>3, <1>7, <1>8, <1>12, <1>13, <2>2, <2>3, VaultType DEF StateOf, more, v
<1>14. CASE ~is_key_generation_ready(more)
  <2>1. VaultNotRefund'
    BY <1>4, <1>5, <1>14, Zenon DEF IInv, VaultNotRefund
  <2> QED
    BY <1>3, <1>4, <1>7, <1>8, <1>9, <1>12, <1>14, <2>1, VaultType, Zenon DEF StateOf, more, v
<1> QED
  BY <1>13, <1>14

LEMMA SubmitVaultKeyStep ==
    ASSUME IInv, NEW e \in Members, NEW who \in Users, NEW key \in PubKeys,
           submit_vault_key(e, who, key)
    PROVE /\ IInv' /\ [Pool!PoolNext]_(Pool!poolVars)
          /\ OneVault(who, CurrentRound,
                      Submitted(WithKey(Registrations[CurrentRound][who].vault, e, key)))
<1> DEFINE r0 == CurrentRound
           target == Registrations[r0][who]
           v == Submitted(WithKey(target.vault, e, key))
<1>1. /\ ServiceState = "Normal"
      /\ target # None
      /\ SubmitKey(target.vault, e, key, who, target.refund_address, r0)
      /\ Registrations' = [Registrations EXCEPT ![r0][who].vault = v]
      /\ UNCHANGED <<ServiceState, SystemVault>>
  BY DEF submit_vault_key
<1>2. r0 \in Rounds /\ TypeOK /\ who \in Owners /\ who # Precompile
  BY RoundType, RegistrationPoolAssumption DEF IInv, Owners
<1>3. target \in BitcoinRelayTargets /\ target.vault \in MultiSigAccounts
  BY <1>1, <1>2, TargetType DEF TypeOK
<1>4. UNCHANGED <<memberVars, CurrentRound, OngoingVaultMigration, settingVars,
                  BondedRefund, PreSubmittedPubKeys, PendingSetRefunds>>
  BY <1>1 DEF SubmitKey
<1>5. v \in MultiSigAccounts
  <2>1. target.vault.address = None
    BY <1>1 DEF SubmitKey, CanSubmitKey, is_pending
  <2> QED
    BY <1>2, <1>3, <2>1, KeyVault, Zenon
<1>6. VaultOf(who, r0) = target.vault
  BY <1>1, <1>2 DEF VaultOf
<1> HIDE DEF v
<1>7. [target EXCEPT !.vault = v] \in BitcoinRelayTargets /\ [target EXCEPT !.vault = v].vault = v
      /\ [target EXCEPT !.vault = v] # None
  BY <1>3, <1>5, TargetType
<1>8. Registrations' = [Registrations EXCEPT ![r0][who] = [target EXCEPT !.vault = v]]
  BY <1>1
<1>9. Registrations' \in [Rounds -> [Users -> BitcoinRelayTargets \cup {None}]]
      /\ Registrations'[r0][who] = [target EXCEPT !.vault = v]
      /\ \A r \in Rounds, u \in Users :
            ~(r = r0 /\ u = who) => Registrations'[r][u] = Registrations[r][u]
  <2> DEFINE t == [target EXCEPT !.vault = v]
  <2>1. t \in BitcoinRelayTargets
    BY <1>7
  <2> HIDE DEF t
  <2>2. Registrations' = [Registrations EXCEPT ![r0][who] = t]
    BY <1>8 DEF t
  <2>3. Registrations' \in [Rounds -> [Users -> BitcoinRelayTargets \cup {None}]]
        /\ Registrations'[r0][who] = t
        /\ \A r \in Rounds, u \in Users :
              ~(r = r0 /\ u = who) => Registrations'[r][u] = Registrations[r][u]
    BY <1>2, <2>1, <2>2 DEF TypeOK
  <2> QED
    BY <2>3 DEF t
<1>10. OneVault(who, r0, v)
  <2> SUFFICES ASSUME NEW o \in Owners, NEW r \in Rounds
               PROVE VaultOf(o, r)' = IF o = who /\ r = r0 THEN v ELSE VaultOf(o, r)
    BY DEF OneVault
  <2>1. CASE o = Precompile
    BY <1>1, <1>2, <2>1 DEF VaultOf
  <2>2. CASE o # Precompile /\ o = who /\ r = r0
    BY <1>7, <1>9, <2>2, Zenon DEF VaultOf
  <2>3. CASE o # Precompile /\ ~(o = who /\ r = r0)
    BY <1>9, <2>3 DEF VaultOf, Owners
  <2> QED
    BY <2>1, <2>2, <2>3
<1>11. /\ BondedOwned' /\ VaultNotRefund'
       /\ IsRoundMap(BondedVault', VaultAddresses, Owners)
       /\ IsRoundMap(BondedPubKey', PubKeys, Owners)
       /\ VaultState(who, r0) = "pending"
       /\ StateOf(v) # "none"
  BY <1>1, <1>2, <1>3, <1>6, <1>10, SubmitKeyStep DEF v
<1>12. TypeOK'
  BY <1>1, <1>2, <1>4, <1>9, <1>11 DEF TypeOK, memberVars, settingVars, IsRoundMap
<1>13. FutureEmpty'
  BY <1>2, <1>4, <1>9, RoundType DEF IInv, FutureEmpty, Rounds
<1>14. [Pool!PoolNext]_(Pool!poolVars)
  BY <1>1, <1>4, <1>5, <1>10, <1>11, UserVaultStep
<1> QED
  BY <1>10, <1>11, <1>12, <1>13, <1>14 DEF IInv, v

LEMMA SubmitSystemKeyStep ==
    ASSUME IInv, NEW e \in Members, NEW key \in PubKeys, submit_system_vault_key(e, key)
    PROVE IInv' /\ [Pool!PoolNext]_(Pool!poolVars)
<1> DEFINE round == IF ServiceState = "Normal" THEN CurrentRound ELSE CurrentRound + 1
           more == WithKey(SystemVault[round], e, key)
           v == Submitted(more)
<1>1. /\ ServiceState \in {"Normal", "PrepareNextSystemVault"}
      /\ SystemVault[round] # None
      /\ SubmitKey(SystemVault[round], e, key, Precompile, None, round)
      /\ SystemVault' = [SystemVault EXCEPT ![round] = v]
      /\ ServiceState' = IF ServiceState # "Normal" /\ is_key_generation_ready(more)
                         THEN "UTXOTransfer" ELSE ServiceState
      /\ UNCHANGED Registrations
  BY DEF submit_system_vault_key
<1>2. /\ round \in Rounds /\ CurrentRound \in Rounds /\ TypeOK /\ Precompile \in Owners
      /\ Users \subseteq Owners /\ Precompile \notin Users
  BY RoundType, RegistrationPoolAssumption DEF IInv, Owners
<1>3. round = IF ServiceState = "Normal" THEN CurrentRound ELSE CurrentRound + 1
  OBVIOUS
<1> HIDE DEF round
<1>4. SystemVault[round] \in MultiSigAccounts
  BY <1>1, <1>2 DEF TypeOK
<1>5. UNCHANGED <<memberVars, CurrentRound, OngoingVaultMigration, settingVars,
                  BondedRefund, PreSubmittedPubKeys, PendingSetRefunds>>
  BY <1>1 DEF SubmitKey
<1>6. v \in MultiSigAccounts
  <2>1. SystemVault[round].address = None
    BY <1>1 DEF SubmitKey, CanSubmitKey, is_pending
  <2> QED
    BY <1>2, <1>4, <2>1, KeyVault
<1>7. VaultOf(Precompile, round) = SystemVault[round]
  BY Zenon DEF VaultOf
<1> HIDE DEF v
<1>8. OneVault(Precompile, round, v)
  BY <1>1, <1>2 DEF OneVault, VaultOf, TypeOK
<1>9. /\ BondedOwned' /\ VaultNotRefund'
      /\ IsRoundMap(BondedVault', VaultAddresses, Owners)
      /\ IsRoundMap(BondedPubKey', PubKeys, Owners)
      /\ VaultState(Precompile, round) = "pending"
      /\ StateOf(v) = IF is_key_generation_ready(more) THEN "generated" ELSE "pending"
  BY <1>1, <1>2, <1>4, <1>7, <1>8, SubmitKeyStep DEF v
<1>10. TypeOK'
  <2>1. SystemVault' \in [Rounds -> MultiSigAccounts \cup {None}]
    BY <1>1, <1>2, <1>6 DEF TypeOK
  <2> QED
    BY <1>1, <1>2, <1>5, <1>9, <2>1, Zenon DEF TypeOK, memberVars, settingVars, IsRoundMap
<1>11. FutureEmpty'
  BY <1>1, <1>5 DEF IInv, FutureEmpty
<1> HIDE DEF more
<1>12. \A r \in Rounds : VaultState(Precompile, r)' =
                            IF r = round THEN StateOf(v) ELSE VaultState(Precompile, r)
  BY <1>2, <1>8, OneVaultStates
<1>13. \A u \in Users : VaultState(u, CurrentRound)' = VaultState(u, CurrentRound)
  BY <1>2, <1>5, <1>8, OneVaultStates
<1>14. CASE is_key_generation_ready(more)
  <2>1. Pool!system_vault_generated
    BY <1>1, <1>2, <1>3, <1>5, <1>9, <1>12, <1>13, <1>14, Zenon
       DEF Pool!system_vault_generated, Pool!memberVars, memberVars
  <2> QED
    BY <1>9, <1>10, <1>11, <2>1 DEF IInv, Pool!PoolNext, Pool!VaultRequests
<1>15. CASE ~is_key_generation_ready(more)
  <2>1. \A r \in Rounds : VaultState(Precompile, r)' = VaultState(Precompile, r)
    BY <1>9, <1>12, <1>15
  <2>2. UNCHANGED (Pool!poolVars)
    BY <1>1, <1>5, <1>13, <1>15, <2>1 DEF Pool!poolVars, memberVars
  <2> QED
    BY <1>9, <1>10, <1>11, <2>2 DEF IInv
<1> QED
  BY <1>14, <1>15

(* One registration of the current round is written. *)
LEMMA RegistrationStep ==
    ASSUME IInv, NEW who \in Users, NEW t \in BitcoinRelayTargets \cup {None}, NEW v,
           v = IF t = None THEN None ELSE t.vault,
           Registrations' = [Registrations EXCEPT ![CurrentRound][who] = t],
           UNCHANGED <<CurrentRound, SystemVault>>
    PROVE /\ Registrations' \in [Rounds -> [Users -> BitcoinRelayTargets \cup {None}]]
          /\ FutureEmpty'
          /\ OneVault(who, CurrentRound, v)
<1>1. CurrentRound \in Rounds /\ CurrentRound \in Nat /\ TypeOK
      /\ who # Precompile /\ Precompile \notin Users
  BY RoundType, RegistrationPoolAssumption DEF IInv
<1>2. Registrations' \in [Rounds -> [Users -> BitcoinRelayTargets \cup {None}]]
      /\ Registrations'[CurrentRound][who] = t
      /\ \A r \in Rounds, u \in Users :
            ~(r = CurrentRound /\ u = who) => Registrations'[r][u] = Registrations[r][u]
  BY <1>1, Zenon DEF TypeOK
<1>3. FutureEmpty'
  BY <1>1, <1>2 DEF IInv, FutureEmpty, Rounds
<1>4. OneVault(who, CurrentRound, v)
  BY <1>1, <1>2 DEF OneVault, VaultOf, Owners
<1> QED
  BY <1>2, <1>3, <1>4, Zenon

LEMMA RequestVaultStep ==
    ASSUME IInv, NEW who \in Users, NEW refund \in RefundAddresses, request_vault(who, refund)
    PROVE IInv' /\ [Pool!PoolNext]_(Pool!poolVars)
<1> DEFINE r0 == CurrentRound
           given == {e \in Executives : PreSubmittedPubKeys[r0][e] # {}}
           key == [e \in given |-> Min(PreSubmittedPubKeys[r0][e])]
           keys == Restrict(key, {e \in given : key[e] \notin DOMAIN BondedPubKey[r0]})
           vault == NewVault(keys)
           ready == is_key_generation_ready(vault)
           bonds == ready /\ CanBond(vault, refund, r0)
           stored == IF bonds THEN Generated(vault)
                     ELSE IF ready THEN [vault EXCEPT !.pub_keys = <<>>]
                     ELSE vault
           a == generate_vault_address(vault)
           users == {who} \cup (IF refund \in DOMAIN BondedRefund[r0] THEN BondedRefund[r0][refund] ELSE {})
<1>1. /\ ServiceState = "Normal"
      /\ refund \notin DOMAIN BondedVault[r0]
      /\ Registrations[r0][who] = None
      /\ PreSubmittedPubKeys' = [PreSubmittedPubKeys EXCEPT ![r0] =
             [e \in Members |-> IF e \in given THEN PreSubmittedPubKeys[r0][e] \ {key[e]}
                                ELSE PreSubmittedPubKeys[r0][e]]]
      /\ IF bonds
         THEN /\ BondedVault' = [BondedVault EXCEPT ![r0] = Insert(@, a, who)]
              /\ BondedPubKey' = [BondedPubKey EXCEPT ![r0] =
                     InsertAll(@, Range(vault.pub_keys), who)]
         ELSE UNCHANGED <<BondedVault, BondedPubKey>>
      /\ BondedRefund' = [BondedRefund EXCEPT ![r0] = Insert(@, refund, users)]
      /\ Registrations' = [Registrations EXCEPT ![r0][who] =
             [refund_address |-> refund, vault |-> stored]]
      /\ UNCHANGED <<memberVars, sequenceVars, settingVars, SystemVault, PendingSetRefunds>>
  BY Zenon DEF request_vault, Bond
<1>2. r0 \in Rounds /\ TypeOK /\ who \in Owners
  BY RoundType DEF IInv, Owners
<1>3. PreSubmittedPubKeys' \in [Rounds -> [Members -> SUBSET PubKeys]]
  <2> DEFINE left == [e \in Members |-> IF e \in given THEN PreSubmittedPubKeys[r0][e] \ {key[e]}
                                        ELSE PreSubmittedPubKeys[r0][e]]
  <2>1. left \in [Members -> SUBSET PubKeys]
    BY <1>2 DEF TypeOK
  <2>2. PreSubmittedPubKeys' = [PreSubmittedPubKeys EXCEPT ![r0] = left]
    BY <1>1, Zenon
  <2> HIDE DEF left
  <2> QED
    BY <1>2, <2>1, <2>2 DEF TypeOK
<1>4. vault \in MultiSigAccounts /\ vault.address = None /\ vault.pub_keys = keys
      /\ Range(keys) \subseteq PubKeys
  <2>1. \A e \in given : e \in Members /\ key[e] \in PubKeys
    <3> SUFFICES ASSUME NEW e \in given PROVE e \in Members /\ key[e] \in PubKeys
      OBVIOUS
    <3>1. e \in Members
      BY <1>2 DEF TypeOK
    <3>2. PreSubmittedPubKeys[r0][e] \in SUBSET PubKeys /\ PreSubmittedPubKeys[r0][e] # {}
      BY <1>2, <3>1 DEF TypeOK
    <3>3. PreSubmittedPubKeys[r0][e] \in SUBSET Nat
      BY <3>2, RegistrationPoolAssumption, Zenon
    <3>4. Min(PreSubmittedPubKeys[r0][e]) \in PreSubmittedPubKeys[r0][e]
      BY <3>2, <3>3, MinIn
    <3> QED
      BY <3>1, <3>2, <3>4, Zenon
  <2> DEFINE fresh == {e \in given : key[e] \notin DOMAIN BondedPubKey[r0]}
  <2>2. DOMAIN key = given
    OBVIOUS
  <2>3. fresh \subseteq given
    OBVIOUS
  <2>4. keys = Restrict(key, fresh)
    OBVIOUS
  <2> HIDE DEF key, given, keys, fresh
  <2>5. DOMAIN keys \subseteq Members /\ keys \in [DOMAIN keys -> PubKeys]
    BY <2>1, <2>2, <2>3, <2>4 DEF Restrict
  <2>6. Range(keys) \subseteq PubKeys
    BY <2>5 DEF Range
  <2>7. get_m \in Nat /\ get_n \in Nat
    BY <1>2, CountTypes
  <2>8. vault \in MultiSigAccounts
    BY <2>5, <2>7, VaultMade DEF NewVault
  <2> QED
    BY <2>6, <2>8 DEF NewVault
<1> HIDE DEF keys, given, key, vault
<1>5. a \in VaultAddresses /\ Generated(vault) \in MultiSigAccounts /\ Generated(vault).address = a
      /\ a # None
  BY <1>2, <1>4, AddressType
<1>6. [vault EXCEPT !.pub_keys = <<>>] \in MultiSigAccounts
      /\ [vault EXCEPT !.pub_keys = <<>>].address = vault.address
  <2>1. DOMAIN <<>> \subseteq Members /\ <<>> \in [DOMAIN <<>> -> PubKeys]
    OBVIOUS
  <2> QED
    BY <1>4, <2>1, VaultWithKeys, Zenon
<1>7. /\ stored \in MultiSigAccounts
      /\ stored.address = IF bonds THEN a ELSE None
  BY <1>4, <1>5, <1>6
<1>8. bonds => a # refund /\ a \notin DOMAIN BondedRefund[r0]
  BY DEF CanBond
<1> HIDE DEF a, stored, bonds, ready, users
<1>9. [refund_address |-> refund, vault |-> stored] \in BitcoinRelayTargets
      /\ [refund_address |-> refund, vault |-> stored].vault = stored
      /\ [refund_address |-> refund, vault |-> stored] # None
  <2>1. [refund_address |-> refund, vault |-> stored] \in BitcoinRelayTargets
        /\ [refund_address |-> refund, vault |-> stored].vault = stored
    BY <1>7 DEF BitcoinRelayTargets
  <2> QED
    BY <2>1, TargetType
<1>10. CurrentRound' = CurrentRound
  BY <1>1 DEF sequenceVars
<1>11. /\ Registrations' \in [Rounds -> [Users -> BitcoinRelayTargets \cup {None}]]
       /\ FutureEmpty'
       /\ OneVault(who, r0, stored)
  <2> DEFINE t == [refund_address |-> refund, vault |-> stored]
  <2>1. t \in BitcoinRelayTargets \cup {None} /\ stored = IF t = None THEN None ELSE t.vault
    BY <1>9, Zenon
  <2>2. Registrations' = [Registrations EXCEPT ![CurrentRound][who] = t]
        /\ UNCHANGED <<CurrentRound, SystemVault>>
    BY <1>1, <1>10
  <2> HIDE DEF t
  <2> QED
    BY <2>1, <2>2, RegistrationStep, Zenon
<1>12. VaultState(who, r0) = "none" /\ ~HasAddress(who, r0)
  BY <1>1, <1>2, RegistrationPoolAssumption, Zenon DEF VaultState, HasVault, VaultOf, HasAddress
<1>13. BondedOwned'
  <2>1. \/ BondedVault' = BondedVault
        \/ /\ stored.address # None
           /\ BondedVault' = [BondedVault EXCEPT ![r0] = Insert(@, stored.address, who)]
    BY <1>1, <1>5, <1>7
  <2> QED
    BY <1>2, <1>7, <1>11, <1>12, <2>1, BondStep
<1>14. /\ IsRoundMap(BondedVault, VaultAddresses, Owners)
       /\ IsRoundMap(BondedRefund, RefundAddresses, SUBSET Users)
       /\ IsRoundMap(BondedPubKey, PubKeys, Owners)
  BY <1>2 DEF TypeOK
<1>15. BondedRefund' = [r \in Rounds |-> IF r = r0 THEN Insert(BondedRefund[r0], refund, users)
                                         ELSE BondedRefund[r]]
  BY <1>1, <1>14, Zenon DEF IsRoundMap
<1>16. DOMAIN Insert(BondedRefund[r0], refund, users) = DOMAIN BondedRefund[r0] \cup {refund}
       /\ \A z \in DOMAIN BondedRefund[r0] \ {refund} :
             Insert(BondedRefund[r0], refund, users)[z] = BondedRefund[r0][z]
  BY DEF Insert, InsertAll
<1>17. IsRoundMap(BondedRefund', RefundAddresses, SUBSET Users)
  <2>1. DOMAIN BondedRefund[r0] \subseteq RefundAddresses
        /\ BondedRefund[r0] \in [DOMAIN BondedRefund[r0] -> SUBSET Users]
    BY <1>2, <1>14 DEF IsRoundMap
  <2>2. users \in SUBSET Users
    BY <2>1, Zenon DEF users
  <2>3. Insert(BondedRefund[r0], refund, users)
          \in [DOMAIN Insert(BondedRefund[r0], refund, users) -> SUBSET Users]
        /\ DOMAIN Insert(BondedRefund[r0], refund, users) \subseteq RefundAddresses
    BY <2>1, <2>2 DEF Insert, InsertAll
  <2> QED
    BY <1>14, <1>15, <2>3, Zenon DEF IsRoundMap
<1>18. /\ IsRoundMap(BondedVault', VaultAddresses, Owners)
       /\ IsRoundMap(BondedPubKey', PubKeys, Owners)
       /\ VaultNotRefund'
  <2>1. CASE ~bonds
    <3>1. VaultNotRefund'
      BY <1>1, <1>2, <1>15, <1>16, <2>1 DEF IInv, VaultNotRefund
    <3> QED
      BY <1>1, <1>14, <2>1, <3>1
  <2>2. CASE bonds
    <3> DEFINE g == Insert(BondedVault[r0], a, who)
               h == InsertAll(BondedPubKey[r0], Range(vault.pub_keys), who)
    <3>1. DOMAIN BondedVault[r0] \subseteq VaultAddresses
          /\ BondedVault[r0] \in [DOMAIN BondedVault[r0] -> Owners]
          /\ DOMAIN BondedPubKey[r0] \subseteq PubKeys
          /\ BondedPubKey[r0] \in [DOMAIN BondedPubKey[r0] -> Owners]
      BY <1>2, <1>14 DEF IsRoundMap
    <3>2. DOMAIN g \subseteq VaultAddresses /\ g \in [DOMAIN g -> Owners]
          /\ DOMAIN g = DOMAIN BondedVault[r0] \cup {a}
      BY <1>2, <1>5, <3>1, Zenon DEF Insert, InsertAll
    <3>3. DOMAIN h \subseteq PubKeys /\ h \in [DOMAIN h -> Owners]
      BY <1>2, <1>4, <3>1, Zenon DEF InsertAll
    <3>4. BondedVault' = [r \in Rounds |-> IF r = r0 THEN g ELSE BondedVault[r]]
          /\ BondedPubKey' = [r \in Rounds |-> IF r = r0 THEN h ELSE BondedPubKey[r]]
      BY <1>1, <1>14, <2>2 DEF IsRoundMap
    <3> HIDE DEF g, h
    <3>5. IsRoundMap(BondedVault', VaultAddresses, Owners)
      BY <1>14, <3>2, <3>4, Zenon DEF IsRoundMap
    <3>6. IsRoundMap(BondedPubKey', PubKeys, Owners)
      BY <1>14, <3>3, <3>4 DEF IsRoundMap
    <3>7. VaultNotRefund'
      <4> SUFFICES ASSUME NEW r \in Rounds,
                          NEW b \in DOMAIN BondedRefund'[r] \cap DOMAIN BondedVault'[r]
                   PROVE BondedRefund'[r][b] = {}
        BY DEF VaultNotRefund
      <4>1. CASE r # r0
        <5>1. BondedRefund'[r] = BondedRefund[r] /\ BondedVault'[r] = BondedVault[r]
          BY <1>15, <3>4, <4>1
        <5> QED
          BY <5>1, Zenon DEF IInv, VaultNotRefund
      <4>2. CASE r = r0
        <5>1. BondedRefund'[r0] = Insert(BondedRefund[r0], refund, users) /\ BondedVault'[r0] = g
          BY <1>2, <1>15, <3>4
        <5>2. b \in DOMAIN BondedRefund[r0] /\ b \in DOMAIN BondedVault[r0] /\ b # refund
          BY <1>1, <1>8, <1>16, <2>2, <3>2, <4>2, <5>1, Zenon
        <5>3. BondedRefund[r0][b] = {}
          BY <1>2, <5>2, Zenon DEF IInv, VaultNotRefund
        <5> QED
          BY <1>16, <4>2, <5>1, <5>2, <5>3, Zenon
      <4> QED
        BY <4>1, <4>2
    <3> QED
      BY <3>5, <3>6, <3>7
  <2> QED
    BY <2>1, <2>2
<1>19. TypeOK'
  BY <1>1, <1>2, <1>3, <1>11, <1>17, <1>18, Zenon
     DEF TypeOK, memberVars, sequenceVars, settingVars, IsRoundMap
<1>20. [Pool!PoolNext]_(Pool!poolVars)
  BY <1>1, <1>7, <1>11, <1>12, UserVaultStep, Zenon DEF sequenceVars
<1> QED
  BY <1>11, <1>13, <1>18, <1>19, <1>20 DEF IInv

LEMMA ClearVaultStep ==
    ASSUME IInv, NEW address \in DOMAIN BondedVault[CurrentRound], clear_vault(address)
    PROVE /\ IInv' /\ [Pool!PoolNext]_(Pool!poolVars)
          /\ OneVault(BondedVault[CurrentRound][address], CurrentRound, None)
<1> DEFINE r0 == CurrentRound
           who == BondedVault[r0][address]
           old == IF who = Precompile THEN SystemVault[r0] ELSE Registrations[r0][who].vault
<1>1. /\ ServiceState = "Normal"
      /\ IF who = Precompile
         THEN /\ SystemVault' = [SystemVault EXCEPT ![r0] = None]
              /\ UNCHANGED <<Registrations, BondedRefund>>
         ELSE /\ Registrations' = [Registrations EXCEPT ![r0][who] = None]
              /\ BondedRefund' = [BondedRefund EXCEPT ![r0] =
                     Without(@, {Registrations[r0][who].refund_address})]
              /\ UNCHANGED SystemVault
      /\ BondedPubKey' = [BondedPubKey EXCEPT ![r0] = Without(@, Range(old.pub_keys))]
      /\ BondedVault' = [BondedVault EXCEPT ![r0] = Without(@, {address})]
      /\ UNCHANGED <<memberVars, sequenceVars, settingVars, PreSubmittedPubKeys, PendingSetRefunds>>
  BY Zenon DEF clear_vault, Unbonded
<1>2. r0 \in Rounds /\ TypeOK /\ UNCHANGED CurrentRound /\ Precompile \notin Users
      /\ Precompile \in Owners /\ Users \subseteq Owners
  BY <1>1, RoundType, RegistrationPoolAssumption, Zenon DEF IInv, sequenceVars, Owners
<1>3. /\ IsRoundMap(BondedVault, VaultAddresses, Owners)
      /\ IsRoundMap(BondedRefund, RefundAddresses, SUBSET Users)
      /\ IsRoundMap(BondedPubKey, PubKeys, Owners)
  BY <1>2 DEF TypeOK
<1>4. who \in Owners
  BY <1>2, <1>3 DEF IsRoundMap
<1>5. HasAddress(who, r0) /\ VaultOf(who, r0).address = address
  BY <1>2 DEF IInv, BondedOwned
<1> HIDE DEF who, old
<1>6. OneVault(who, r0, None)
      /\ SystemVault' \in [Rounds -> MultiSigAccounts \cup {None}]
      /\ Registrations' \in [Rounds -> [Users -> BitcoinRelayTargets \cup {None}]]
      /\ FutureEmpty'
  <2>1. CASE who = Precompile
    <3>1. SystemVault' \in [Rounds -> MultiSigAccounts \cup {None}]
      BY <1>1, <1>2, <2>1, Zenon DEF TypeOK
    <3>2. OneVault(who, r0, None)
      BY <1>1, <1>2, <2>1, Zenon DEF TypeOK, OneVault, VaultOf
    <3> QED
      BY <1>1, <1>2, <2>1, <3>1, <3>2, Zenon DEF TypeOK, IInv, FutureEmpty
  <2>2. CASE who # Precompile
    <3>1. who \in Users
      BY <1>4, <2>2 DEF Owners
    <3>2. Registrations' = [Registrations EXCEPT ![CurrentRound][who] = None]
          /\ UNCHANGED <<CurrentRound, SystemVault>>
      BY <1>1, <1>2, <2>2
    <3>3. /\ Registrations' \in [Rounds -> [Users -> BitcoinRelayTargets \cup {None}]]
          /\ FutureEmpty'
          /\ OneVault(who, CurrentRound, None)
      BY <3>1, <3>2, RegistrationStep, Zenon
    <3> QED
      BY <1>2, <3>2, <3>3, Zenon DEF TypeOK
  <2> QED
    BY <2>1, <2>2
<1>7. /\ BondedVault' = [r \in Rounds |-> IF r = r0 THEN Without(BondedVault[r0], {address})
                                          ELSE BondedVault[r]]
      /\ BondedPubKey' = [r \in Rounds |-> IF r = r0
                                           THEN Without(BondedPubKey[r0], Range(old.pub_keys))
                                           ELSE BondedPubKey[r]]
  BY <1>1, <1>3, Zenon DEF IsRoundMap
<1>8. /\ DOMAIN Without(BondedVault[r0], {address}) = DOMAIN BondedVault[r0] \ {address}
      /\ \A z \in DOMAIN BondedVault[r0] \ {address} :
            Without(BondedVault[r0], {address})[z] = BondedVault[r0][z]
  BY DEF Without, Restrict
<1>9. IsRoundMap(BondedVault', VaultAddresses, Owners)
  <2>1. Without(BondedVault[r0], {address})
          \in [DOMAIN Without(BondedVault[r0], {address}) -> Owners]
    <3>1. BondedVault[r0] \in [DOMAIN BondedVault[r0] -> Owners]
      BY <1>2, <1>3 DEF IsRoundMap
    <3> QED
      BY <3>1 DEF Without, Restrict
  <2> QED
    BY <1>2, <1>3, <1>7, <1>8, <2>1, Zenon DEF IsRoundMap
<1>10. IsRoundMap(BondedPubKey', PubKeys, Owners)
  <2> DEFINE h == Without(BondedPubKey[r0], Range(old.pub_keys))
  <2>1. DOMAIN h \subseteq DOMAIN BondedPubKey[r0] /\ h \in [DOMAIN h -> Owners]
    <3>1. BondedPubKey[r0] \in [DOMAIN BondedPubKey[r0] -> Owners]
      BY <1>2, <1>3 DEF IsRoundMap
    <3> QED
      BY <3>1 DEF Without, Restrict
  <2>2. BondedPubKey' = [r \in Rounds |-> IF r = r0 THEN h ELSE BondedPubKey[r]]
    BY <1>7
  <2> HIDE DEF h
  <2> QED
    BY <1>2, <1>3, <2>1, <2>2 DEF IsRoundMap
<1>11. /\ IsRoundMap(BondedRefund', RefundAddresses, SUBSET Users)
       /\ \A r \in Rounds : /\ DOMAIN BondedRefund'[r] \subseteq DOMAIN BondedRefund[r]
                            /\ \A a \in DOMAIN BondedRefund'[r] :
                                  BondedRefund'[r][a] = BondedRefund[r][a]
  <2>1. CASE who = Precompile
    BY <1>1, <1>3, <2>1
  <2>2. CASE who # Precompile
    <3> DEFINE g == Without(BondedRefund[r0], {Registrations[r0][who].refund_address})
    <3>1. /\ DOMAIN g \subseteq DOMAIN BondedRefund[r0]
          /\ g \in [DOMAIN g -> SUBSET Users]
          /\ \A a \in DOMAIN g : g[a] = BondedRefund[r0][a]
      <4>1. BondedRefund[r0] \in [DOMAIN BondedRefund[r0] -> SUBSET Users]
        BY <1>2, <1>3 DEF IsRoundMap
      <4> QED
        BY <4>1, Zenon DEF Without, Restrict
    <3>2. BondedRefund' = [r \in Rounds |-> IF r = r0 THEN g ELSE BondedRefund[r]]
      BY <1>1, <1>3, <2>2, Zenon DEF IsRoundMap
    <3> HIDE DEF g
    <3> QED
      BY <1>2, <1>3, <3>1, <3>2 DEF IsRoundMap
  <2> QED
    BY <2>1, <2>2, Zenon
<1>12. TypeOK'
  BY <1>1, <1>2, <1>6, <1>9, <1>10, <1>11, Zenon
     DEF TypeOK, memberVars, sequenceVars, settingVars, IsRoundMap
<1>13. BondedOwned'
  <2> SUFFICES ASSUME NEW r \in Rounds, NEW a \in DOMAIN BondedVault'[r], NEW o,
                      o = BondedVault'[r][a]
               PROVE HasAddress(o, r)' /\ VaultOf(o, r)'.address = a
    BY DEF BondedOwned
  <2>1. a \in DOMAIN BondedVault[r] /\ o = BondedVault[r][a] /\ (r = r0 => a # address)
    BY <1>7, <1>8, Zenon
  <2>2. o \in Owners /\ HasAddress(o, r) /\ VaultOf(o, r).address = a
    BY <1>3, <2>1 DEF IInv, BondedOwned, IsRoundMap
  <2>3. VaultOf(o, r)' = VaultOf(o, r)
    BY <1>5, <1>6, <2>1, <2>2, Zenon DEF OneVault
  <2> QED
    BY <2>2, <2>3 DEF HasAddress, HasVault, is_pending
<1>14. VaultNotRefund'
  <2>1. \A r \in Rounds : DOMAIN BondedVault'[r] \subseteq DOMAIN BondedVault[r]
    BY <1>7, <1>8
  <2> QED
    BY <1>11, <2>1, Zenon DEF IInv, VaultNotRefund
<1>15. VaultState(who, r0) = "generated" /\ StateOf(None) = "none"
  BY <1>5 DEF VaultState, StateOf, HasAddress
<1>16. [Pool!PoolNext]_(Pool!poolVars)
  <2>1. CASE who = Precompile
    <3>1. \A r \in Rounds : VaultState(Precompile, r)' =
                               IF r = r0 THEN "none" ELSE VaultState(Precompile, r)
      BY <1>2, <1>6, <1>15, <2>1, OneVaultStates
    <3>2. \A u \in Users : VaultState(u, CurrentRound)' = VaultState(u, CurrentRound)
      BY <1>2, <1>6, <2>1, OneVaultStates
    <3>3. Pool!clear_vault
      BY <1>1, <1>2, <1>15, <2>1, <3>1, <3>2, Zenon
         DEF Pool!clear_vault, Pool!memberVars, memberVars, sequenceVars
    <3> QED
      BY <3>3 DEF Pool!PoolNext, Pool!VaultRequests
  <2>2. CASE who # Precompile
    <3>1. who \in Users
      BY <1>4, <2>2 DEF Owners
    <3> QED
      BY <1>1, <1>6, <1>15, <3>1, UserVaultStep DEF sequenceVars
  <2> QED
    BY <2>1, <2>2
<1> QED
  BY <1>6, <1>12, <1>13, <1>14, <1>16 DEF IInv, who

LEMMA ReplaceInVaultType ==
    ASSUME NEW v \in MultiSigAccounts, NEW old \in Members, NEW new \in Members
    PROVE /\ ReplaceInVault(v, old, new) \in MultiSigAccounts
          /\ ReplaceInVault(v, old, new).address = v.address
<1>1. CASE is_pending(v) /\ old \in DOMAIN v.pub_keys
  <2> DEFINE keys == Insert(Without(v.pub_keys, {old}), new, v.pub_keys[old])
  <2>1. DOMAIN v.pub_keys \subseteq Members /\ v.pub_keys \in [DOMAIN v.pub_keys -> PubKeys]
    BY VaultType
  <2>2. DOMAIN keys \subseteq Members /\ keys \in [DOMAIN keys -> PubKeys]
    BY <1>1, <2>1, Zenon DEF Insert, InsertAll, Without, Restrict
  <2>3. ReplaceInVault(v, old, new) = [v EXCEPT !.pub_keys = keys]
    BY <1>1 DEF ReplaceInVault
  <2> HIDE DEF keys
  <2> QED
    BY <2>2, <2>3, VaultWithKeys
<1>2. CASE ~(is_pending(v) /\ old \in DOMAIN v.pub_keys)
  BY <1>2 DEF ReplaceInVault
<1> QED
  BY <1>1, <1>2

LEMMA ReplaceAuthorityStep ==
    ASSUME IInv, NEW old \in Members, NEW new \in Members, replace_authority(old, new)
    PROVE IInv' /\ [Pool!PoolNext]_(Pool!poolVars)
<1> DEFINE r0 == CurrentRound
           presub == [PreSubmittedPubKeys[r0] EXCEPT ![old] = {},
                         ![new] = IF PreSubmittedPubKeys[r0][old] = {} THEN @
                                  ELSE PreSubmittedPubKeys[r0][old]]
           system == IF SystemVault[r0] = None THEN None
                     ELSE ReplaceInVault(SystemVault[r0], old, new)
           targets == [u \in Users |->
                          IF Registrations[r0][u] = None THEN None
                          ELSE [Registrations[r0][u] EXCEPT !.vault = ReplaceInVault(@, old, new)]]
<1>1. /\ PreSubmittedPubKeys' = [PreSubmittedPubKeys EXCEPT ![r0] = presub]
      /\ SystemVault' = [SystemVault EXCEPT ![r0] = system]
      /\ Registrations' = [Registrations EXCEPT ![r0] = targets]
      /\ IF old \in Executives /\ new \notin Executives
         THEN change_members_sorted((Executives \ {old}) \cup {new})
         ELSE UNCHANGED memberVars
      /\ UNCHANGED <<sequenceVars, settingVars, BondedVault, BondedRefund, BondedPubKey,
                     PendingSetRefunds>>
  <2>1. PreSubmittedPubKeys' = [PreSubmittedPubKeys EXCEPT ![r0] = presub]
    BY Zenon DEF replace_authority
  <2>2. SystemVault' = [SystemVault EXCEPT ![r0] = system]
    BY DEF replace_authority
  <2>3. Registrations' = [Registrations EXCEPT ![r0] = targets]
    BY Zenon DEF replace_authority
  <2> QED
    BY <2>1, <2>2, <2>3 DEF replace_authority
<1>2. r0 \in Rounds /\ r0 \in Nat /\ TypeOK /\ Precompile \notin Users
  BY RoundType, RegistrationPoolAssumption DEF IInv
<1>3. presub \in [Members -> SUBSET PubKeys]
  BY <1>2 DEF TypeOK
<1>4. /\ system \in MultiSigAccounts \cup {None}
      /\ system = None <=> SystemVault[r0] = None
      /\ system # None => system.address = SystemVault[r0].address
  <2>1. SystemVault[r0] \in MultiSigAccounts \cup {None}
    BY <1>2 DEF TypeOK
  <2> QED
    BY <2>1, ReplaceInVaultType, VaultType, Zenon
<1>5. /\ targets \in [Users -> BitcoinRelayTargets \cup {None}]
      /\ \A u \in Users :
            /\ targets[u] = None <=> Registrations[r0][u] = None
            /\ targets[u] # None => /\ targets[u].vault # None
                                    /\ Registrations[r0][u].vault # None
                                    /\ targets[u].vault.address = Registrations[r0][u].vault.address
  <2> SUFFICES ASSUME NEW u \in Users
               PROVE /\ targets[u] \in BitcoinRelayTargets \cup {None}
                     /\ targets[u] = None <=> Registrations[r0][u] = None
                     /\ targets[u] # None =>
                           /\ targets[u].vault # None
                           /\ Registrations[r0][u].vault # None
                           /\ targets[u].vault.address = Registrations[r0][u].vault.address
    BY Zenon
  <2>1. CASE Registrations[r0][u] = None
    BY <2>1
  <2>2. CASE Registrations[r0][u] # None
    <3> DEFINE t == Registrations[r0][u]
               v == ReplaceInVault(t.vault, old, new)
    <3>1. t \in BitcoinRelayTargets
      BY <1>2, <2>2 DEF TypeOK
    <3>2. t.vault \in MultiSigAccounts
      BY <3>1, TargetType
    <3>3. v \in MultiSigAccounts /\ v.address = t.vault.address
      BY <3>2, ReplaceInVaultType, Zenon
    <3>4. targets[u] = [t EXCEPT !.vault = v]
      BY <2>2
    <3> HIDE DEF v, t, targets
    <3>5. targets[u] \in BitcoinRelayTargets /\ targets[u].vault = v
      BY <3>1, <3>3, <3>4, TargetType
    <3> QED
      BY <2>2, <3>2, <3>3, <3>5, TargetType, VaultType DEF t
  <2> QED
    BY <2>1, <2>2
<1> HIDE DEF presub, system, targets
<1>6. /\ PreSubmittedPubKeys' \in [Rounds -> [Members -> SUBSET PubKeys]]
      /\ SystemVault' \in [Rounds -> MultiSigAccounts \cup {None}]
      /\ Registrations' \in [Rounds -> [Users -> BitcoinRelayTargets \cup {None}]]
  BY <1>1, <1>2, <1>3, <1>4, <1>5, Zenon DEF TypeOK
<1>7. /\ \A r \in Rounds : SystemVault'[r] = IF r = r0 THEN system ELSE SystemVault[r]
      /\ \A r \in Rounds : Registrations'[r] = IF r = r0 THEN targets ELSE Registrations[r]
  BY <1>1, <1>2 DEF TypeOK
<1>8. SameAddresses
  <2> SUFFICES ASSUME NEW o \in Owners, NEW r \in Rounds
               PROVE /\ VaultOf(o, r)' = None <=> VaultOf(o, r) = None
                     /\ VaultOf(o, r) # None => VaultOf(o, r)'.address = VaultOf(o, r).address
    BY DEF SameAddresses
  <2>1. CASE o = Precompile
    BY <1>4, <1>7, <2>1, Zenon DEF VaultOf
  <2>2. CASE o # Precompile
    BY <1>5, <1>7, <2>2, Zenon DEF VaultOf, Owners
  <2> QED
    BY <2>1, <2>2
<1>9. BondedOwned'
  BY <1>1, <1>8, SameBonds
<1>10. FutureEmpty' /\ VaultNotRefund'
  <2>1. FutureEmpty'
    <3>1. \A r \in Rounds : r > r0 => r # r0
      BY <1>2 DEF Rounds
    <3>2. \A r \in Rounds : r > r0 => Registrations'[r] = Registrations[r]
      BY <1>7, <3>1, Zenon
    <3>3. CurrentRound' = CurrentRound
      BY <1>1 DEF sequenceVars
    <3> QED
      BY <3>2, <3>3, Zenon DEF IInv, FutureEmpty
  <2>2. VaultNotRefund'
    BY <1>1 DEF IInv, VaultNotRefund
  <2> QED
    BY <2>1, <2>2
<1>11. /\ Executives' \subseteq Members /\ RelayExecutives' \in [Rounds -> SUBSET Members]
       /\ [Pool!PoolNext]_(Pool!poolVars)
  <2>1. CASE old \in Executives /\ new \notin Executives
    <3> DEFINE ms == (Executives \ {old}) \cup {new}
    <3>1. ms \in SUBSET Members
      BY <1>2 DEF TypeOK
    <3>2. change_members_sorted(ms)
      BY <1>1, <2>1
    <3>3. /\ Executives' \subseteq Members
          /\ RelayExecutives' \in [Rounds -> SUBSET Members]
          /\ Pool!change_members_sorted(ms)
      BY <3>1, <3>2, MembersType
    <3>4. Pool!membership_change(ms)
      BY <1>1, <1>8, <3>3, SameVaults DEF Pool!membership_change, sequenceVars
    <3>5. Pool!replace_member(old, new)
      BY <2>1, <3>4 DEF Pool!replace_member
    <3> QED
      BY <3>3, <3>5 DEF Pool!PoolNext, Pool!MembershipStep
  <2>2. CASE ~(old \in Executives /\ new \notin Executives)
    BY <1>1, <1>2, <1>8, <2>2, QuietStep DEF TypeOK, memberVars
  <2> QED
    BY <2>1, <2>2
<1>12. TypeOK'
  BY <1>1, <1>2, <1>6, <1>11, Zenon DEF TypeOK, sequenceVars, settingVars, IsRoundMap
<1> QED
  BY <1>9, <1>10, <1>11, <1>12 DEF IInv

-----------------------------------------------------------------------------
LEMMA NextIInv == IInv /\ [Next]_vars => IInv' /\ [Pool!PoolNext]_(Pool!poolVars)
<1> SUFFICES ASSUME IInv, [Next]_vars
             PROVE IInv' /\ [Pool!PoolNext]_(Pool!poolVars)
  OBVIOUS
<1>1. CASE UserCalls
  BY <1>1, RequestVaultStep, RequestSetRefundStep DEF UserCalls
<1>2. CASE ExecutiveCalls
  BY <1>2, SubmitVaultKeyStep, SubmitSystemKeyStep, PresubmissionStep DEF ExecutiveCalls
<1>3. CASE RefundApprovals
  <2>1. CASE \E users \in SUBSET Users : approve_set_refunds(users)
    BY <2>1, SetRefundsStep DEF approve_set_refunds
  <2>2. CASE process_set_refunds
    <3> DEFINE users == {u \in Users : PendingSetRefunds[CurrentRound][u] # None}
    <3>1. users \in SUBSET Users /\ SetRefunds(users)
          /\ \A u \in users : PendingSetRefunds[CurrentRound][u] # None
      BY <2>2 DEF process_set_refunds
    <3> HIDE DEF users
    <3> QED
      BY <3>1, SetRefundsStep
  <2> QED
    BY <1>3, <2>1, <2>2 DEF RefundApprovals
<1>4. CASE Governance
  BY <1>4, SystemRequestStep, ClearVaultStep, MigrationControlStep, DropStep, SettingStep
     DEF Governance
<1>5. CASE Membership
  BY <1>5, MembershipChangeStep, ReplaceAuthorityStep DEF Membership
<1>6. CASE \E t \in MigrationTxs, state \in {"waiting", "executed", "absent"} :
              MigrationTxCall(t, state)
  BY <1>6, MigrationTxStep
<1>7. CASE UNCHANGED vars
  <2>1. SameAddresses
    BY <1>7, Untouched DEF vars, roundVars
  <2>2. BondedOwned'
    BY <1>7, <2>1, SameBonds DEF vars, roundVars
  <2>3. TypeOK'
    BY <1>7, Zenon DEF IInv, TypeOK, vars, memberVars, sequenceVars, settingVars, roundVars, IsRoundMap
  <2>4. FutureEmpty' /\ VaultNotRefund'
    BY <1>7, Zenon DEF IInv, FutureEmpty, VaultNotRefund, vars, sequenceVars, roundVars
  <2>5. [Pool!PoolNext]_(Pool!poolVars)
    BY <1>7, <2>1, QuietStep DEF vars
  <2> QED
    BY <2>2, <2>3, <2>4, <2>5 DEF IInv
<1> QED
  BY <1>1, <1>2, <1>3, <1>4, <1>5, <1>6, <1>7 DEF Next

(* The storage of the pallet is well formed after any sequence of calls, hooks,
   membership changes and relayer replacements. *)
THEOREM PoolTypes == Spec => []TypeOK
<1>1. IInv => TypeOK
  BY DEF IInv
<1> QED
  BY <1>1, InitIInv, NextIInv, PTL DEF Spec

(* No address is both the refund address of a bonded user and a bonded vault of the
   same round, whatever the order of request_vault, request_set_refund and its
   execution, the key submissions and clear_vault. *)
THEOREM RefundSafety == Spec => []VaultNotRefund
<1>1. IInv => VaultNotRefund
  BY DEF IInv
<1> QED
  BY <1>1, InitIInv, NextIInv, PTL DEF Spec

(* The pallet implements what the socket queue relies on: every call is a step of
   PoolManager.tla on the states of the vaults, or invisible there. *)
THEOREM PoolRefinement == Spec => ImplementsPoolManager
  BY InitIInv, InitPool, NextIInv, PTL DEF Spec, ImplementsPoolManager, Pool!PoolSpec

-----------------------------------------------------------------------------
(* The keys of a vault, pending or not, are bonded to its owner, and the address
   of a generated vault is bonded to its owner and still made of its keys. *)
Held(o, r) ==
    HasVault(o, r) =>
        /\ \A key \in Range(VaultOf(o, r).pub_keys) :
              key \in DOMAIN BondedPubKey[r] /\ BondedPubKey[r][key] = o
        /\ HasAddress(o, r) =>
              /\ VaultOf(o, r).address \in DOMAIN BondedVault[r]
              /\ BondedVault[r][VaultOf(o, r).address] = o
              /\ Range(VaultOf(o, r).pub_keys) = VaultOf(o, r).address.keys

AllHeld == \A o \in Owners, r \in Rounds : Held(o, r)

NothingAhead == PreSubmittedPubKeys = [r \in Rounds |-> [e \in Members |-> {}]]

(* The inductive invariant without keys submitted in advance. *)
KInv == IInv /\ AllHeld /\ NothingAhead

(* What a step may do to a vault without touching its bonds. *)
Kept(v, w) ==
    \/ w = None
    \/ w.address = None /\ Range(w.pub_keys) = {}
    \/ /\ v # None
       /\ w.address = v.address
       /\ Range(w.pub_keys) \subseteq Range(v.pub_keys)
       /\ w.address # None => w.pub_keys = v.pub_keys

(* A step leaves what is bonded to an owner. *)
StillBonded(o, r) ==
    /\ \A key \in DOMAIN BondedPubKey[r] : BondedPubKey[r][key] = o =>
          key \in DOMAIN BondedPubKey'[r] /\ BondedPubKey'[r][key] = o
    /\ \A a \in DOMAIN BondedVault[r] : BondedVault[r][a] = o =>
          a \in DOMAIN BondedVault'[r] /\ BondedVault'[r][a] = o

LEMMA KeptHeld ==
    ASSUME NEW o \in Owners, NEW r \in Rounds, Held(o, r), NEW w, w = VaultOf(o, r)',
           Kept(VaultOf(o, r), w), w # None => StillBonded(o, r)
    PROVE Held(o, r)'
<1> DEFINE v == VaultOf(o, r)
<1> SUFFICES ASSUME w # None
             PROVE /\ \A key \in Range(w.pub_keys) :
                         key \in DOMAIN BondedPubKey'[r] /\ BondedPubKey'[r][key] = o
                   /\ w.address # None =>
                         /\ w.address \in DOMAIN BondedVault'[r]
                         /\ BondedVault'[r][w.address] = o
                         /\ Range(w.pub_keys) = w.address.keys
  BY Zenon DEF Held, HasVault, HasAddress, is_pending
<1>1. CASE w.address = None /\ Range(w.pub_keys) = {}
  BY <1>1
<1>2. CASE /\ v # None
           /\ w.address = v.address
           /\ Range(w.pub_keys) \subseteq Range(v.pub_keys)
           /\ w.address # None => w.pub_keys = v.pub_keys
  <2>1. /\ \A key \in Range(v.pub_keys) :
              key \in DOMAIN BondedPubKey[r] /\ BondedPubKey[r][key] = o
        /\ v.address # None =>
              /\ v.address \in DOMAIN BondedVault[r]
              /\ BondedVault[r][v.address] = o
              /\ Range(v.pub_keys) = v.address.keys
    BY <1>2, Zenon DEF Held, HasVault, HasAddress, is_pending
  <2> HIDE DEF v
  <2> QED
    BY <1>2, <2>1 DEF StillBonded
<1> QED
  BY <1>1, <1>2, Zenon DEF Kept

LEMMA KeptStep ==
    ASSUME KInv, UNCHANGED <<BondedVault, BondedPubKey>>,
           \A o \in Owners, r \in Rounds : Kept(VaultOf(o, r), VaultOf(o, r)')
    PROVE AllHeld'
<1> SUFFICES ASSUME NEW o \in Owners, NEW r \in Rounds PROVE Held(o, r)'
  BY DEF AllHeld
<1>1. Held(o, r) /\ StillBonded(o, r)
  BY DEF KInv, AllHeld, StillBonded
<1> QED
  BY <1>1, KeptHeld

LEMMA SameKept ==
    ASSUME KInv, UNCHANGED <<SystemVault, Registrations, BondedVault, BondedPubKey>>
    PROVE AllHeld'
<1>1. \A o \in Owners, r \in Rounds : VaultOf(o, r)' = VaultOf(o, r)
  BY DEF VaultOf
<1>2. \A o \in Owners, r \in Rounds : Kept(VaultOf(o, r), VaultOf(o, r)')
  BY <1>1, Zenon DEF Kept
<1> QED
  BY <1>2, KeptStep

LEMMA OneKept ==
    ASSUME KInv, NEW who \in Owners, NEW round \in Rounds, NEW v, OneVault(who, round, v),
           v.address = None, Range(v.pub_keys) = {},
           UNCHANGED <<BondedVault, BondedPubKey>>
    PROVE AllHeld'
<1>1. \A o \in Owners, r \in Rounds : Kept(VaultOf(o, r), VaultOf(o, r)')
  BY Zenon DEF OneVault, Kept
<1> QED
  BY <1>1, KeptStep

LEMMA NoKeys == Range(<<>>) = {}
  BY DEF Range

LEMMA SystemRequestHeld ==
    ASSUME KInv, NEW round \in Rounds,
           SystemVault' = [SystemVault EXCEPT ![round] = NewVault(<<>>)],
           UNCHANGED <<Registrations, BondedVault, BondedPubKey>>
    PROVE AllHeld'
<1> DEFINE v == NewVault(<<>>)
<1>1. v.address = None /\ Range(v.pub_keys) = {}
  BY NoKeys DEF NewVault
<1> HIDE DEF v
<1>2. SystemVault' = [SystemVault EXCEPT ![round] = v]
  BY DEF v
<1>3. OneVault(Precompile, round, v)
  BY <1>2 DEF KInv, IInv, TypeOK, OneVault, VaultOf
<1>4. Precompile \in Owners
  BY DEF Owners
<1> QED
  BY <1>1, <1>3, <1>4, OneKept

LEMMA SetRefundsHeld ==
    ASSUME KInv, NEW users \in SUBSET Users, SetRefunds(users)
    PROVE AllHeld'
<1> DEFINE r0 == CurrentRound
           pending == PendingSetRefunds[r0]
           movers == {u \in users : /\ pending[u] \notin DOMAIN BondedVault[r0]
                                    /\ Registrations[r0][u] # None}
           new == [u \in movers |-> pending[u]]
           targets == [u \in Users |->
                         IF u \in movers
                         THEN [Registrations[r0][u] EXCEPT !.refund_address = new[u]]
                         ELSE Registrations[r0][u]]
<1>1. /\ Registrations' = [Registrations EXCEPT ![r0] = targets]
      /\ UNCHANGED <<SystemVault, BondedVault, BondedPubKey>>
  BY DEF SetRefunds
<1>2. r0 \in Rounds /\ TypeOK
  BY RoundType DEF KInv, IInv
<1>3. \A u \in Users : targets[u] # None => /\ Registrations[r0][u] # None
                                            /\ targets[u].vault = Registrations[r0][u].vault
  <2> SUFFICES ASSUME NEW u \in Users, targets[u] # None
               PROVE /\ Registrations[r0][u] # None
                     /\ targets[u].vault = Registrations[r0][u].vault
    OBVIOUS
  <2>1. CASE u \in movers
    <3> DEFINE t == Registrations[r0][u]
               a == new[u]
    <3>1. t \in BitcoinRelayTargets
      BY <1>2, <2>1 DEF TypeOK
    <3>2. targets[u] = [t EXCEPT !.refund_address = a]
      BY <2>1
    <3> HIDE DEF a, t, targets, movers, new
    <3>3. targets[u].vault = t.vault /\ t # None
      BY <3>1, <3>2, TargetType DEF BitcoinRelayTargets
    <3> QED
      BY <3>3 DEF t
  <2>2. CASE u \notin movers
    BY <2>2
  <2> QED
    BY <2>1, <2>2
<1> HIDE DEF targets
<1>4. Registrations'[r0] = targets /\ \A r \in Rounds \ {r0} : Registrations'[r] = Registrations[r]
  BY <1>1, <1>2 DEF TypeOK
<1>5. \A o \in Owners, r \in Rounds : VaultOf(o, r)' = VaultOf(o, r) \/ VaultOf(o, r)' = None
  <2> SUFFICES ASSUME NEW o \in Owners, NEW r \in Rounds
               PROVE VaultOf(o, r)' = VaultOf(o, r) \/ VaultOf(o, r)' = None
    OBVIOUS
  <2>1. CASE o = Precompile \/ r # r0
    BY <1>1, <1>4, <2>1 DEF VaultOf
  <2>2. CASE o # Precompile /\ r = r0
    BY <1>3, <1>4, <2>2, Zenon DEF VaultOf, Owners
  <2> QED
    BY <2>1, <2>2
<1>6. \A o \in Owners, r \in Rounds : Kept(VaultOf(o, r), VaultOf(o, r)')
  BY <1>5, Zenon DEF Kept
<1> QED
  BY <1>1, <1>6, KeptStep

LEMMA SubmitKeyHeld ==
    ASSUME KInv, NEW vault \in MultiSigAccounts, NEW e \in Members, NEW key \in PubKeys,
           NEW who \in Owners, NEW refund, NEW round \in Rounds,
           SubmitKey(vault, e, key, who, refund, round),
           VaultOf(who, round) = vault,
           OneVault(who, round, Submitted(WithKey(vault, e, key)))
    PROVE AllHeld'
<1> DEFINE more == WithKey(vault, e, key)
           v == Submitted(more)
           a == generate_vault_address(more)
<1>1. /\ vault.address = None
      /\ key \notin DOMAIN BondedPubKey[round]
      /\ BondedPubKey' = [BondedPubKey EXCEPT ![round] = Insert(@, key, who)]
      /\ IF is_key_generation_ready(more)
         THEN BondedVault' = [BondedVault EXCEPT ![round] = Insert(@, a, who)]
         ELSE BondedVault' = BondedVault
  BY Zenon DEF SubmitKey, CanSubmitKey, is_pending, Bond
<1>2. TypeOK /\ IInv
  BY DEF KInv, IInv
<1>3. /\ v \in MultiSigAccounts
      /\ v.address = IF is_key_generation_ready(more) THEN a ELSE None
      /\ v.pub_keys = Insert(vault.pub_keys, e, key)
      /\ a.keys = Range(v.pub_keys)
      /\ a # None
  <2>1. /\ more \in MultiSigAccounts
        /\ more.pub_keys = Insert(vault.pub_keys, e, key)
        /\ v \in MultiSigAccounts
        /\ v.pub_keys = more.pub_keys
        /\ v.address = IF is_key_generation_ready(more) THEN a ELSE None
        /\ a # None
    BY <1>1, <1>2, KeyVault, Zenon
  <2> QED
    BY <2>1, Zenon DEF generate_vault_address
<1>4. OneVault(who, round, v)
  OBVIOUS
<1> HIDE DEF v, a, more
<1>5. Range(v.pub_keys) \subseteq Range(vault.pub_keys) \cup {key} /\ key \in Range(v.pub_keys)
  <2>1. /\ DOMAIN v.pub_keys = DOMAIN vault.pub_keys \cup {e}
        /\ v.pub_keys[e] = key
        /\ \A x \in DOMAIN vault.pub_keys \ {e} : v.pub_keys[x] = vault.pub_keys[x]
    BY <1>3 DEF Insert, InsertAll
  <2> QED
    BY <2>1, Zenon DEF Range
<1>6. /\ \A o \in Owners, r \in Rounds : Held(o, r)
      /\ IsRoundMap(BondedVault, VaultAddresses, Owners)
      /\ IsRoundMap(BondedPubKey, PubKeys, Owners)
  BY <1>2, Zenon DEF KInv, AllHeld, TypeOK
<1>7. a \notin DOMAIN BondedVault[round]
  <2> SUFFICES ASSUME a \in DOMAIN BondedVault[round] PROVE FALSE
    OBVIOUS
  <2> DEFINE q == BondedVault[round][a]
  <2>1. q \in Owners /\ HasAddress(q, round) /\ VaultOf(q, round).address = a
    BY <1>2, <1>6 DEF IInv, BondedOwned, IsRoundMap
  <2> HIDE DEF q
  <2>2. Range(VaultOf(q, round).pub_keys) = a.keys
        /\ \A k \in Range(VaultOf(q, round).pub_keys) : k \in DOMAIN BondedPubKey[round]
    BY <1>6, <2>1, Zenon DEF Held, HasAddress
  <2> QED
    BY <1>1, <1>3, <1>5, <2>2, Zenon
<1>8. /\ BondedPubKey'[round] = Insert(BondedPubKey[round], key, who)
      /\ \A r \in Rounds \ {round} : BondedPubKey'[r] = BondedPubKey[r]
  BY <1>1, <1>6 DEF IsRoundMap
<1>9. /\ \/ BondedVault'[round] = Insert(BondedVault[round], a, who)
         \/ BondedVault'[round] = BondedVault[round]
      /\ v.address # None => v.address = a /\ BondedVault'[round] = Insert(BondedVault[round], a, who)
      /\ \A r \in Rounds \ {round} : BondedVault'[r] = BondedVault[r]
  BY <1>1, <1>3, <1>6 DEF IsRoundMap
<1>10. /\ \A k \in DOMAIN BondedPubKey[round] :
             /\ k \in DOMAIN Insert(BondedPubKey[round], key, who)
             /\ Insert(BondedPubKey[round], key, who)[k] = BondedPubKey[round][k]
       /\ key \in DOMAIN Insert(BondedPubKey[round], key, who)
       /\ Insert(BondedPubKey[round], key, who)[key] = who
  BY <1>1 DEF Insert, InsertAll
<1>11. /\ \A b \in DOMAIN BondedVault[round] :
             /\ b \in DOMAIN Insert(BondedVault[round], a, who)
             /\ Insert(BondedVault[round], a, who)[b] = BondedVault[round][b]
       /\ a \in DOMAIN Insert(BondedVault[round], a, who)
       /\ Insert(BondedVault[round], a, who)[a] = who
  BY <1>7 DEF Insert, InsertAll
<1>12. \A o \in Owners, r \in Rounds : StillBonded(o, r)
  BY <1>8, <1>9, <1>10, <1>11, Zenon DEF StillBonded
<1>13. Held(who, round)'
  <2>1. VaultOf(who, round)' = v /\ v # None
    BY <1>3, <1>4, VaultType DEF OneVault
  <2>2. \A k \in Range(v.pub_keys) : k \in DOMAIN BondedPubKey'[round] /\ BondedPubKey'[round][k] = who
    <3>1. \A k \in Range(vault.pub_keys) : k \in DOMAIN BondedPubKey[round] /\ BondedPubKey[round][k] = who
      BY <1>6, VaultType, Zenon DEF Held, HasVault
    <3> QED
      BY <1>5, <1>8, <1>10, <3>1, Zenon
  <2>3. v.address # None => /\ v.address \in DOMAIN BondedVault'[round]
                            /\ BondedVault'[round][v.address] = who
                            /\ Range(v.pub_keys) = v.address.keys
    BY <1>3, <1>9, <1>11, Zenon
  <2> QED
    BY <2>1, <2>2, <2>3, Zenon DEF Held, HasVault, HasAddress, is_pending
<1> SUFFICES ASSUME NEW o \in Owners, NEW r \in Rounds PROVE Held(o, r)'
  BY DEF AllHeld
<1>14. CASE o = who /\ r = round
  BY <1>13, <1>14
<1>15. CASE ~(o = who /\ r = round)
  <2>1. VaultOf(o, r)' = VaultOf(o, r)
    BY <1>4, <1>15 DEF OneVault
  <2>2. Kept(VaultOf(o, r), VaultOf(o, r))
    BY DEF Kept
  <2> QED
    BY <1>6, <1>12, <2>1, <2>2, KeptHeld, Zenon
<1> QED
  BY <1>14, <1>15

LEMMA SubmitVaultKeyHeld ==
    ASSUME KInv, NEW e \in Members, NEW who \in Users, NEW key \in PubKeys,
           submit_vault_key(e, who, key)
    PROVE AllHeld'
<1> DEFINE target == Registrations[CurrentRound][who]
<1>1. target # None /\ SubmitKey(target.vault, e, key, who, target.refund_address, CurrentRound)
  BY DEF submit_vault_key
<1>2. IInv /\ TypeOK /\ CurrentRound \in Rounds /\ who \in Owners /\ who # Precompile
  BY RoundType, RegistrationPoolAssumption DEF KInv, IInv, Owners
<1>3. target.vault \in MultiSigAccounts
  BY <1>1, <1>2, TargetType DEF TypeOK
<1>4. VaultOf(who, CurrentRound) = target.vault
  BY <1>1, <1>2, Zenon DEF VaultOf
<1>5. OneVault(who, CurrentRound, Submitted(WithKey(target.vault, e, key)))
  BY <1>2, SubmitVaultKeyStep
<1> QED
  BY <1>1, <1>2, <1>3, <1>4, <1>5, SubmitKeyHeld, Zenon

LEMMA SubmitSystemKeyHeld ==
    ASSUME KInv, NEW e \in Members, NEW key \in PubKeys, submit_system_vault_key(e, key)
    PROVE AllHeld'
<1> DEFINE round == IF ServiceState = "Normal" THEN CurrentRound ELSE CurrentRound + 1
           v == Submitted(WithKey(SystemVault[round], e, key))
<1>1. /\ SystemVault[round] # None
      /\ SubmitKey(SystemVault[round], e, key, Precompile, None, round)
      /\ SystemVault' = [SystemVault EXCEPT ![round] = v]
      /\ UNCHANGED Registrations
  BY DEF submit_system_vault_key
<1>2. TypeOK /\ round \in Rounds /\ Precompile \in Owners
  BY RoundType DEF KInv, IInv, Owners
<1> HIDE DEF round
<1>3. SystemVault[round] \in MultiSigAccounts /\ VaultOf(Precompile, round) = SystemVault[round]
  BY <1>1, <1>2 DEF TypeOK, VaultOf
<1> HIDE DEF v
<1>4. OneVault(Precompile, round, v)
  BY <1>1, <1>2, Zenon DEF OneVault, VaultOf, TypeOK
<1> QED
  BY <1>1, <1>2, <1>3, <1>4, SubmitKeyHeld DEF v

(* Without keys submitted in advance a requested vault starts without keys. *)
LEMMA RequestVaultHeld ==
    ASSUME KInv, NEW who \in Users, NEW refund \in RefundAddresses, request_vault(who, refund)
    PROVE AllHeld' /\ NothingAhead'
<1> DEFINE r0 == CurrentRound
           given == {e \in Executives : PreSubmittedPubKeys[r0][e] # {}}
           key == [e \in given |-> Min(PreSubmittedPubKeys[r0][e])]
           keys == Restrict(key, {e \in given : key[e] \notin DOMAIN BondedPubKey[r0]})
           vault == NewVault(keys)
           ready == is_key_generation_ready(vault)
           bonds == ready /\ CanBond(vault, refund, r0)
           stored == IF bonds THEN Generated(vault)
                     ELSE IF ready THEN [vault EXCEPT !.pub_keys = <<>>]
                     ELSE vault
<1>1. /\ PreSubmittedPubKeys' = [PreSubmittedPubKeys EXCEPT ![r0] =
             [e \in Members |-> IF e \in given THEN PreSubmittedPubKeys[r0][e] \ {key[e]}
                                ELSE PreSubmittedPubKeys[r0][e]]]
      /\ ~bonds => UNCHANGED <<BondedVault, BondedPubKey>>
      /\ Registrations' = [Registrations EXCEPT ![r0][who] =
             [refund_address |-> refund, vault |-> stored]]
      /\ UNCHANGED <<sequenceVars, SystemVault>>
  BY Zenon DEF request_vault
<1>2. r0 \in Rounds /\ TypeOK /\ IInv /\ who \in Owners
  BY RoundType DEF KInv, IInv, Owners
<1>3. \A e \in Members : PreSubmittedPubKeys[r0][e] = {}
  BY <1>2 DEF KInv, NothingAhead
<1>4. given = {}
  BY <1>2, <1>3 DEF TypeOK
<1>5. NothingAhead'
  <2>1. PreSubmittedPubKeys' = [PreSubmittedPubKeys EXCEPT ![r0] = [e \in Members |-> {}]]
    BY <1>1, <1>3, <1>4, Zenon
  <2> QED
    BY <1>2, <2>1, Zenon DEF KInv, NothingAhead
<1>6. DOMAIN keys = {}
  BY <1>4, Zenon DEF Restrict
<1> HIDE DEF keys, key, given
<1>7. vault.address = None /\ vault.pub_keys = keys /\ vault.m = get_m /\ vault.n = get_n
      /\ vault \in MultiSigAccounts
  <2>1. DOMAIN keys \subseteq Members /\ keys \in [DOMAIN keys -> PubKeys]
    <3>1. keys = [x \in DOMAIN keys |-> keys[x]]
      BY DEF keys, Restrict
    <3> QED
      BY <1>6, <3>1
  <2> QED
    BY <1>2, <2>1, CountTypes, VaultMade, Zenon DEF NewVault
<1> HIDE DEF vault
<1>8. ~bonds
  <2>1. Cardinality(DOMAIN vault.pub_keys) = 0
    BY <1>6, <1>7, FS_EmptySet
  <2> QED
    BY <2>1 DEF CanBond, CanDescribe
<1>9. stored.address = None /\ Range(stored.pub_keys) = {} /\ stored \in MultiSigAccounts
  <2>1. DOMAIN <<>> \subseteq Members /\ <<>> \in [DOMAIN <<>> -> PubKeys]
    OBVIOUS
  <2>2. /\ [vault EXCEPT !.pub_keys = <<>>] \in MultiSigAccounts
        /\ [vault EXCEPT !.pub_keys = <<>>].address = vault.address
        /\ [vault EXCEPT !.pub_keys = <<>>].pub_keys = <<>>
    BY <1>7, <2>1, VaultWithKeys, Zenon
  <2>3. Range(vault.pub_keys) = {}
    BY <1>6, <1>7 DEF Range
  <2> QED
    BY <1>7, <1>8, <2>2, <2>3, NoKeys
<1> HIDE DEF stored, bonds, ready
<1>10. OneVault(who, r0, stored)
  <2> DEFINE t == [refund_address |-> refund, vault |-> stored]
  <2>1. t \in BitcoinRelayTargets /\ t.vault = stored
    BY <1>9 DEF BitcoinRelayTargets
  <2>2. stored = IF t = None THEN None ELSE t.vault
    BY <2>1, TargetType
  <2>3. Registrations' = [Registrations EXCEPT ![CurrentRound][who] = t]
        /\ UNCHANGED <<CurrentRound, SystemVault>>
    BY <1>1 DEF sequenceVars
  <2> HIDE DEF t
  <2> QED
    BY <1>2, <2>1, <2>2, <2>3, RegistrationStep, Zenon
<1>11. AllHeld'
  BY <1>1, <1>2, <1>8, <1>9, <1>10, OneKept
<1> QED
  BY <1>5, <1>11

LEMMA ClearVaultHeld ==
    ASSUME KInv, NEW address \in DOMAIN BondedVault[CurrentRound], clear_vault(address)
    PROVE AllHeld'
<1> DEFINE r0 == CurrentRound
           who == BondedVault[r0][address]
           old == IF who = Precompile THEN SystemVault[r0] ELSE Registrations[r0][who].vault
<1>1. /\ BondedPubKey' = [BondedPubKey EXCEPT ![r0] = Without(@, Range(old.pub_keys))]
      /\ BondedVault' = [BondedVault EXCEPT ![r0] = Without(@, {address})]
  BY Zenon DEF clear_vault, Unbonded
<1>2. r0 \in Rounds /\ TypeOK /\ IInv
  BY RoundType DEF KInv, IInv
<1>3. /\ IsRoundMap(BondedVault, VaultAddresses, Owners)
      /\ IsRoundMap(BondedPubKey, PubKeys, Owners)
  BY <1>2 DEF TypeOK
<1>4. who \in Owners /\ HasAddress(who, r0)
  BY <1>2, <1>3 DEF IInv, BondedOwned, IsRoundMap
<1>5. OneVault(who, r0, None)
  BY <1>2, ClearVaultStep
<1>6. old = VaultOf(who, r0)
  BY <1>4, Zenon DEF VaultOf, HasAddress, HasVault
<1>7. \A key \in Range(old.pub_keys) : BondedPubKey[r0][key] = who
  <2>1. Held(who, r0)
    BY <1>2, <1>4, Zenon DEF KInv, AllHeld
  <2>2. HasVault(who, r0)
    BY <1>4, Zenon DEF HasAddress
  <2> QED
    BY <1>6, <2>1, <2>2, Zenon DEF Held
<1>8. BondedVault[r0][address] = who
  OBVIOUS
<1> HIDE DEF who, old
<1> DEFINE g == Without(BondedVault[r0], {address})
           h == Without(BondedPubKey[r0], Range(old.pub_keys))
<1>9. /\ \A a \in DOMAIN BondedVault[r0] \ {address} : a \in DOMAIN g /\ g[a] = BondedVault[r0][a]
      /\ \A key \in DOMAIN BondedPubKey[r0] \ Range(old.pub_keys) :
            key \in DOMAIN h /\ h[key] = BondedPubKey[r0][key]
  BY Zenon DEF Without, Restrict
<1>10. /\ BondedVault'[r0] = g /\ \A r \in Rounds \ {r0} : BondedVault'[r] = BondedVault[r]
       /\ BondedPubKey'[r0] = h /\ \A r \in Rounds \ {r0} : BondedPubKey'[r] = BondedPubKey[r]
  BY <1>1, <1>2, <1>3 DEF IsRoundMap
<1> HIDE DEF g, h
<1> SUFFICES ASSUME NEW o \in Owners, NEW r \in Rounds PROVE Held(o, r)'
  BY DEF AllHeld
<1>11. Held(o, r)
  BY DEF KInv, AllHeld
<1>12. CASE o = who /\ r = r0
  <2>1. VaultOf(o, r)' = None
    BY <1>5, <1>12 DEF OneVault
  <2> QED
    BY <2>1, Zenon DEF Held, HasVault
<1>13. CASE ~(o = who /\ r = r0)
  <2>1. VaultOf(o, r)' = VaultOf(o, r)
    BY <1>5, <1>13 DEF OneVault
  <2>2. Kept(VaultOf(o, r), VaultOf(o, r))
    BY Zenon DEF Kept
  <2>3. StillBonded(o, r)
    <3>1. CASE r = r0
      BY <1>7, <1>8, <1>9, <1>10, <1>13, <3>1, Zenon DEF StillBonded
    <3>2. CASE r # r0
      BY <1>10, <3>2, Zenon DEF StillBonded
    <3> QED
      BY <3>1, <3>2
  <2> QED
    BY <1>11, <2>1, <2>2, <2>3, KeptHeld
<1> QED
  BY <1>12, <1>13

LEMMA DropHeld ==
    ASSUME KInv, NEW round \in Rounds, drop_previous_round(round)
    PROVE AllHeld' /\ NothingAhead'
<1>1. /\ SystemVault' = [SystemVault EXCEPT ![round] = None]
      /\ Registrations' = [Registrations EXCEPT ![round] = [u \in Users |-> None]]
      /\ BondedVault' = [BondedVault EXCEPT ![round] = <<>>]
      /\ BondedPubKey' = [BondedPubKey EXCEPT ![round] = <<>>]
      /\ PreSubmittedPubKeys' = [PreSubmittedPubKeys EXCEPT ![round] = [e \in Members |-> {}]]
  BY DEF drop_previous_round
<1>2. TypeOK
  BY DEF KInv, IInv
<1>3. \A r \in Rounds \ {round} : BondedVault'[r] = BondedVault[r] /\ BondedPubKey'[r] = BondedPubKey[r]
  BY <1>1, <1>2, Zenon DEF TypeOK, IsRoundMap
<1>4. \A o \in Owners, r \in Rounds :
          VaultOf(o, r)' = IF r = round THEN None ELSE VaultOf(o, r)
  BY <1>1, <1>2, Zenon DEF TypeOK, VaultOf, Owners
<1>5. NothingAhead'
  BY <1>1, Zenon DEF KInv, NothingAhead
<1>6. AllHeld'
  <2> SUFFICES ASSUME NEW o \in Owners, NEW r \in Rounds PROVE Held(o, r)'
    BY DEF AllHeld
  <2>1. CASE r = round
    BY <1>4, <2>1, Zenon DEF Held, HasVault
  <2>2. CASE r # round
    <3>1. VaultOf(o, r)' = VaultOf(o, r)
      BY <1>4, <2>2, Zenon
    <3>2. Held(o, r) /\ StillBonded(o, r)
      BY <1>3, <2>2, Zenon DEF KInv, AllHeld, StillBonded
    <3>3. Kept(VaultOf(o, r), VaultOf(o, r))
      BY DEF Kept
    <3> QED
      BY <3>1, <3>2, <3>3, KeptHeld
  <2> QED
    BY <2>1, <2>2
<1> QED
  BY <1>5, <1>6

LEMMA ReplaceInVaultKept ==
    ASSUME NEW v \in MultiSigAccounts, NEW old \in Members, NEW new \in Members
    PROVE Kept(v, ReplaceInVault(v, old, new))
<1>1. v # None
  BY VaultType
<1>2. CASE is_pending(v) /\ old \in DOMAIN v.pub_keys
  <2> DEFINE keys == Insert(Without(v.pub_keys, {old}), new, v.pub_keys[old])
  <2>1. ReplaceInVault(v, old, new) = [v EXCEPT !.pub_keys = keys]
    BY <1>2 DEF ReplaceInVault
  <2>2. Range(keys) \subseteq Range(v.pub_keys)
    BY <1>2, Zenon DEF Insert, InsertAll, Without, Restrict, Range
  <2> HIDE DEF keys
  <2>3. [v EXCEPT !.pub_keys = keys].address = v.address
        /\ [v EXCEPT !.pub_keys = keys].pub_keys = keys
    BY DEF MultiSigAccounts
  <2> QED
    BY <1>1, <1>2, <2>1, <2>2, <2>3 DEF Kept, is_pending
<1>3. CASE ~(is_pending(v) /\ old \in DOMAIN v.pub_keys)
  BY <1>1, <1>3 DEF ReplaceInVault, Kept
<1> QED
  BY <1>2, <1>3

LEMMA ReplaceAuthorityHeld ==
    ASSUME KInv, NEW old \in Members, NEW new \in Members, replace_authority(old, new)
    PROVE AllHeld' /\ NothingAhead'
<1> DEFINE r0 == CurrentRound
           presub == [PreSubmittedPubKeys[r0] EXCEPT ![old] = {},
                         ![new] = IF PreSubmittedPubKeys[r0][old] = {} THEN @
                                  ELSE PreSubmittedPubKeys[r0][old]]
           system == IF SystemVault[r0] = None THEN None
                     ELSE ReplaceInVault(SystemVault[r0], old, new)
           targets == [u \in Users |->
                          IF Registrations[r0][u] = None THEN None
                          ELSE [Registrations[r0][u] EXCEPT !.vault = ReplaceInVault(@, old, new)]]
<1>1. /\ PreSubmittedPubKeys' = [PreSubmittedPubKeys EXCEPT ![r0] = presub]
      /\ SystemVault' = [SystemVault EXCEPT ![r0] = system]
      /\ Registrations' = [Registrations EXCEPT ![r0] = targets]
      /\ UNCHANGED <<BondedVault, BondedPubKey>>
  <2>1. PreSubmittedPubKeys' = [PreSubmittedPubKeys EXCEPT ![r0] = presub]
    BY Zenon DEF replace_authority
  <2>2. SystemVault' = [SystemVault EXCEPT ![r0] = system]
    BY DEF replace_authority
  <2>3. Registrations' = [Registrations EXCEPT ![r0] = targets]
    BY Zenon DEF replace_authority
  <2> QED
    BY <2>1, <2>2, <2>3 DEF replace_authority
<1>2. r0 \in Rounds /\ TypeOK
  BY RoundType DEF KInv, IInv
<1>3. NothingAhead'
  <2>1. PreSubmittedPubKeys[r0] = [e \in Members |-> {}]
    BY <1>2 DEF KInv, NothingAhead
  <2>2. presub = [e \in Members |-> {}]
    BY <2>1, Zenon
  <2> HIDE DEF presub
  <2> QED
    BY <1>1, <1>2, <2>2, Zenon DEF KInv, NothingAhead
<1>4. Kept(SystemVault[r0], system)
  <2>1. SystemVault[r0] \in MultiSigAccounts \cup {None}
    BY <1>2 DEF TypeOK
  <2>2. CASE SystemVault[r0] = None
    BY <2>2 DEF Kept
  <2>3. CASE SystemVault[r0] # None
    BY <2>1, <2>3, ReplaceInVaultKept
  <2> QED
    BY <2>2, <2>3
<1>5. \A u \in Users : targets[u] # None =>
          /\ Registrations[r0][u] # None
          /\ Kept(Registrations[r0][u].vault, targets[u].vault)
  <2> SUFFICES ASSUME NEW u \in Users, targets[u] # None
               PROVE /\ Registrations[r0][u] # None
                     /\ Kept(Registrations[r0][u].vault, targets[u].vault)
    OBVIOUS
  <2> DEFINE t == Registrations[r0][u]
             v == ReplaceInVault(t.vault, old, new)
  <2>1. t # None /\ targets[u] = [t EXCEPT !.vault = v]
    OBVIOUS
  <2>2. t \in BitcoinRelayTargets
    BY <1>2, <2>1 DEF TypeOK
  <2>3. t.vault \in MultiSigAccounts
    BY <2>2, TargetType
  <2>4. Kept(t.vault, v)
    BY <2>3, ReplaceInVaultKept
  <2> HIDE DEF v, targets
  <2>5. targets[u].vault = v
    BY <2>1, <2>2 DEF BitcoinRelayTargets
  <2> QED
    BY <2>1, <2>4, <2>5
<1> HIDE DEF presub, system, targets
<1>6. /\ \A r \in Rounds : SystemVault'[r] = IF r = r0 THEN system ELSE SystemVault[r]
      /\ \A r \in Rounds : Registrations'[r] = IF r = r0 THEN targets ELSE Registrations[r]
  BY <1>1, <1>2 DEF TypeOK
<1>7. \A o \in Owners, r \in Rounds : Kept(VaultOf(o, r), VaultOf(o, r)')
  <2> SUFFICES ASSUME NEW o \in Owners, NEW r \in Rounds PROVE Kept(VaultOf(o, r), VaultOf(o, r)')
    OBVIOUS
  <2>1. CASE r # r0
    <3>1. VaultOf(o, r)' = VaultOf(o, r)
      BY <1>6, <2>1 DEF VaultOf
    <3> QED
      BY <3>1, Zenon DEF Kept
  <2>2. CASE r = r0 /\ o = Precompile
    <3>1. VaultOf(o, r)' = system /\ VaultOf(o, r) = SystemVault[r0]
      BY <1>6, <2>2 DEF VaultOf
    <3> QED
      BY <1>4, <3>1
  <2>3. CASE r = r0 /\ o # Precompile
    <3>1. o \in Users
      BY <2>3 DEF Owners
    <3>2. CASE targets[o] = None
      <4>1. VaultOf(o, r)' = None
        BY <1>6, <2>3, <3>2 DEF VaultOf
      <4> QED
        BY <4>1, Zenon DEF Kept
    <3>3. CASE targets[o] # None
      <4>1. VaultOf(o, r)' = targets[o].vault /\ VaultOf(o, r) = Registrations[r0][o].vault
        BY <1>5, <1>6, <2>3, <3>1, <3>3, Zenon DEF VaultOf
      <4> QED
        BY <1>5, <3>1, <3>3, <4>1, Zenon
    <3> QED
      BY <3>2, <3>3
  <2> QED
    BY <2>1, <2>2, <2>3
<1>8. AllHeld'
  BY <1>1, <1>7, KeptStep
<1> QED
  BY <1>3, <1>8

LEMMA NextKInv ==
    ASSUME PreSubmissions = {}
    PROVE KInv /\ [Next]_vars => KInv'
<1> SUFFICES ASSUME KInv, [Next]_vars PROVE KInv'
  OBVIOUS
<1>1. IInv'
  BY NextIInv DEF KInv
<1>2. ASSUME UNCHANGED PreSubmittedPubKeys PROVE NothingAhead'
  BY <1>2 DEF KInv, NothingAhead
<1>3. IInv /\ CurrentRound \in Rounds /\ CurrentRound + 1 \in Rounds
  BY RoundType DEF KInv
<1> SUFFICES AllHeld' /\ NothingAhead'
  BY <1>1 DEF KInv
<1>4. CASE UserCalls
  <2>1. CASE \E who \in Users, refund \in RefundAddresses : request_vault(who, refund)
    BY <2>1, RequestVaultHeld
  <2>2. CASE \E who \in Users, refund \in RefundAddresses : request_set_refund(who, refund)
    <3>1. UNCHANGED <<SystemVault, Registrations, BondedVault, BondedPubKey, PreSubmittedPubKeys>>
      BY <2>2 DEF request_set_refund
    <3> QED
      BY <1>2, <3>1, SameKept
  <2> QED
    BY <1>4, <2>1, <2>2 DEF UserCalls
<1>5. CASE ExecutiveCalls
  <2>1. PICK e \in Members, key \in PubKeys :
            (\E who \in Users : submit_vault_key(e, who, key)) \/ submit_system_vault_key(e, key)
    BY <1>5 DEF ExecutiveCalls
  <2>2. AllHeld'
    BY <2>1, SubmitVaultKeyHeld, SubmitSystemKeyHeld
  <2>3. UNCHANGED PreSubmittedPubKeys
    BY <2>1 DEF submit_vault_key, submit_system_vault_key, SubmitKey
  <2> QED
    BY <1>2, <2>2, <2>3
<1>6. CASE RefundApprovals
  <2>1. PICK users \in SUBSET Users : SetRefunds(users)
    <3>1. {u \in Users : PendingSetRefunds[CurrentRound][u] # None} \in SUBSET Users
      OBVIOUS
    <3> QED
      BY <1>6, <3>1 DEF RefundApprovals, approve_set_refunds, process_set_refunds
  <2>2. UNCHANGED PreSubmittedPubKeys
    BY <2>1 DEF SetRefunds
  <2> QED
    BY <1>2, <2>1, <2>2, SetRefundsHeld
<1>7. CASE Governance
  <2>1. CASE \E prepare \in BOOLEAN : request_system_vault(prepare)
    <3>1. PICK prepare \in BOOLEAN : request_system_vault(prepare)
      BY <2>1
    <3> DEFINE round == IF prepare THEN CurrentRound + 1 ELSE CurrentRound
    <3>2. /\ SystemVault' = [SystemVault EXCEPT ![round] = NewVault(<<>>)]
          /\ UNCHANGED <<Registrations, BondedVault, BondedPubKey, PreSubmittedPubKeys>>
      BY <3>1 DEF request_system_vault
    <3>3. round \in Rounds
      BY <1>3
    <3> HIDE DEF round
    <3> QED
      BY <1>2, <3>2, <3>3, SystemRequestHeld, Zenon
  <2>2. CASE \E address \in DOMAIN BondedVault[CurrentRound] : clear_vault(address)
    <3>1. UNCHANGED PreSubmittedPubKeys
      BY <2>2, Zenon DEF clear_vault
    <3> QED
      BY <1>2, <2>2, <3>1, ClearVaultHeld
  <2>3. CASE \E ready \in BOOLEAN : migration_control(ready)
    <3>1. /\ UNCHANGED <<Registrations, BondedVault, BondedPubKey, PreSubmittedPubKeys>>
          /\ \/ UNCHANGED SystemVault
             \/ SystemVault' = [SystemVault EXCEPT ![CurrentRound + 1] = NewVault(<<>>)]
      BY <2>3 DEF migration_control
    <3>2. CASE UNCHANGED SystemVault
      BY <1>2, <3>1, <3>2, SameKept
    <3>3. CASE SystemVault' = [SystemVault EXCEPT ![CurrentRound + 1] = NewVault(<<>>)]
      BY <1>2, <1>3, <3>1, <3>3, SystemRequestHeld, Zenon
    <3> QED
      BY <3>1, <3>2, <3>3
  <2>4. CASE \E round \in Rounds : drop_previous_round(round)
    BY <2>4, DropHeld
  <2>5. CASE \/ \E max \in MaxPreSubmissions : set_max_presubmission(max)
             \/ \E new \in Ratios : set_multi_sig_ratio(new)
    <3>1. UNCHANGED <<SystemVault, Registrations, BondedVault, BondedPubKey, PreSubmittedPubKeys>>
      BY <2>5 DEF set_max_presubmission, set_multi_sig_ratio, roundVars
    <3> QED
      BY <1>2, <3>1, SameKept
  <2> QED
    BY <1>7, <2>1, <2>2, <2>3, <2>4, <2>5 DEF Governance
<1>8. CASE Membership
  <2>1. CASE \E new \in ExecutiveSets : membership_change(new)
    <3>1. UNCHANGED <<SystemVault, Registrations, BondedVault, BondedPubKey, PreSubmittedPubKeys>>
      BY <2>1 DEF membership_change, roundVars
    <3> QED
      BY <1>2, <3>1, SameKept
  <2>2. CASE \E old, new \in Members : replace_authority(old, new)
    BY <2>2, ReplaceAuthorityHeld
  <2> QED
    BY <1>8, <2>1, <2>2 DEF Membership
<1>9. CASE \/ \E t \in MigrationTxs, state \in {"waiting", "executed", "absent"} :
                 MigrationTxCall(t, state)
           \/ UNCHANGED vars
  <2>1. UNCHANGED <<SystemVault, Registrations, BondedVault, BondedPubKey, PreSubmittedPubKeys>>
    BY <1>9 DEF MigrationTxCall, vars, roundVars
  <2> QED
    BY <1>2, <2>1, SameKept
<1> QED
  BY <1>4, <1>5, <1>6, <1>7, <1>8, <1>9 DEF Next

(* When no keys are submitted in advance, the bonded addresses are exactly the
   generated vaults of their owners, and these are still made of the keys they were
   generated from: the key checks of the submissions alone keep
   try_bond_vault_address from overwriting the entry of another vault. *)
THEOREM VaultSafety ==
    ASSUME PreSubmissions = {}
    PROVE Spec => []VaultsBonded
<1>1. Init => KInv
  <2> SUFFICES ASSUME Init PROVE KInv
    OBVIOUS
  <2>1. \A o \in Owners, r \in Rounds : ~HasVault(o, r)
    BY DEF Init, HasVault, VaultOf, Owners
  <2> QED
    BY <2>1, InitIInv, Zenon DEF Init, KInv, AllHeld, Held, NothingAhead
<1>2. KInv /\ [Next]_vars => KInv'
  BY NextKInv
<1>3. KInv => VaultsBonded
  <2> SUFFICES ASSUME KInv PROVE VaultsBonded
    OBVIOUS
  <2>1. BondedOwned /\ AllHeld
    BY DEF KInv, IInv
  <2> QED
    BY <2>1, Zenon DEF VaultsBonded, BondedOwned, AllHeld, Held, HasAddress
<1> QED
  BY <1>1, <1>2, <1>3, PTL DEF Spec
=============================================================================
