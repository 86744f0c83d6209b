----------------------------- MODULE RelayerSet -----------------------------
(***************************************************************************)
(* What the voting pallets see of pallet-relay-manager: which accounts are *)
(* relayers, which of them are selected in the current round, and the      *)
(* majority that a vote count is compared with (the Authorities trait).    *)
(*                                                                         *)
(* The controller behind a relayer, the pool order and the heartbeats are  *)
(* not visible to the voting pallets and are left out here.                *)
(***************************************************************************)
EXTENDS Integers, FiniteSets

CONSTANT Accounts        \* accounts that may act as relayers

VARIABLES
    RelayerState,        \* accounts with a RelayerState entry
    SelectedRelayers,    \* relayers of the current round
    Majority             \* stored majority, compared with every vote count

relayerVars == <<RelayerState, SelectedRelayers, Majority>>

compute_majority(selected) == (Cardinality(selected) \div 2) + 1

RelayerTypeOK ==
    /\ RelayerState \subseteq Accounts
    /\ SelectedRelayers \subseteq Accounts
    /\ Majority \in Nat \ {0}

RelayerInit ==
    /\ RelayerState \in SUBSET Accounts
    /\ SelectedRelayers \in SUBSET RelayerState
    /\ Majority = compute_majority(SelectedRelayers)

is_authority(who) == who \in SelectedRelayers

-----------------------------------------------------------------------------
(* A controller joins with a fresh relayer account. *)
join_relayers(relayer) ==
    /\ relayer \notin RelayerState
    /\ RelayerState' = RelayerState \cup {relayer}
    /\ UNCHANGED <<SelectedRelayers, Majority>>

(* A controller leaves.  SelectedRelayers and Majority are not refreshed:
   the account keeps its voting right until the next round. *)
leave_relayers(relayer) ==
    /\ relayer \in RelayerState
    /\ RelayerState' = RelayerState \ {relayer}
    /\ UNCHANGED <<SelectedRelayers, Majority>>

(* The relayer of a kicked-out validator loses its seat at once, and the
   majority is recomputed from the remaining seats. *)
kickout_relayer(relayer) ==
    /\ relayer \in RelayerState \cap SelectedRelayers
    /\ SelectedRelayers' = SelectedRelayers \ {relayer}
    /\ Majority' = compute_majority(SelectedRelayers')
    /\ UNCHANGED RelayerState

(* The relayer account replacements that may be due at a round change: each
   replaces a relayer by an account that is no relayer, and no account
   replaces two relayers (set_relayer, verify_relayer_existence and
   add_to_relayer_sets reject the others). *)
Replacements ==
    {rho \in UNION {[olds -> Accounts \ RelayerState] : olds \in SUBSET RelayerState} :
        \A a, b \in DOMAIN rho : rho[a] = rho[b] => a = b}

(* Start of a round: the due replacements, then the relayers of the selected
   candidates, then the majority. *)
refresh_round(rho, selected) ==
    /\ RelayerState' = (RelayerState \ DOMAIN rho) \cup {rho[a] : a \in DOMAIN rho}
    /\ selected \subseteq RelayerState'
    /\ SelectedRelayers' = selected
    /\ Majority' = compute_majority(selected)

(* Relayer-set changes that no voting pallet takes part in. *)
RelayerMembership ==
    \E relayer \in Accounts :
        join_relayers(relayer) \/ leave_relayers(relayer) \/ kickout_relayer(relayer)

(* The offences of one session may cost several relayers their seats. *)
kickout_relayers(relayers) ==
    /\ relayers \subseteq RelayerState \cap SelectedRelayers
    /\ SelectedRelayers' = SelectedRelayers \ relayers
    /\ Majority' = compute_majority(SelectedRelayers')
    /\ UNCHANGED RelayerState

(* What the relay manager as a whole may do to the set. *)
RelayerNext ==
    \/ \E relayer \in Accounts : join_relayers(relayer) \/ leave_relayers(relayer)
    \/ \E relayers \in SUBSET (RelayerState \cap SelectedRelayers) : kickout_relayers(relayers)
    \/ \E rho \in Replacements, selected \in SUBSET Accounts : refresh_round(rho, selected)

RelayerSpec == RelayerInit /\ [][RelayerNext]_relayerVars
=============================================================================
