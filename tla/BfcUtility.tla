----------------------------- MODULE BfcUtility -----------------------------
(***************************************************************************)
(* pallet-bfc-utility (accepted proposals, minting, blocked accounts) and  *)
(* the two places of runtime/common that keep the transactions of blocked  *)
(* accounts out: the transaction extension of the extrinsics and the       *)
(* signer check of the Ethereum transactions.                              *)
(*                                                                         *)
(* native and issuance are the balances pallet, which is external.         *)
(***************************************************************************)
EXTENDS Integers, Sequences

CONSTANTS Accounts

VARIABLES AcceptedProposals, ProposalIndex, BlockedAccounts,
          native,     \* free balance of every account
          issuance    \* total issuance

utilityVars == <<AcceptedProposals, ProposalIndex, BlockedAccounts>>

UtilityInit(index, blocked) ==
  /\ AcceptedProposals = <<>>
  /\ ProposalIndex = index
  /\ BlockedAccounts = blocked

is_blocked_account(a) == a \in BlockedAccounts

to_hex(proposal) == <<"0x", proposal>>

community_proposal(proposal) ==
  /\ AcceptedProposals' =
       Append(AcceptedProposals,
              [proposal_hex |-> to_hex(proposal), proposal_index |-> ProposalIndex])
  /\ ProposalIndex' = ProposalIndex + 1
  /\ UNCHANGED <<BlockedAccounts, native, issuance>>

mint_native(beneficiary, mint) ==
  /\ mint # 0
  /\ native' = [native EXCEPT ![beneficiary] = @ + mint]
  /\ issuance' = issuance + mint
  /\ UNCHANGED utilityVars

add_blocked_account(a) ==
  /\ ~is_blocked_account(a)
  /\ BlockedAccounts' = BlockedAccounts \cup {a}
  /\ UNCHANGED <<AcceptedProposals, ProposalIndex, native, issuance>>

remove_blocked_account(a) ==
  /\ is_blocked_account(a)
  /\ BlockedAccounts' = BlockedAccounts \ {a}
  /\ UNCHANGED <<AcceptedProposals, ProposalIndex, native, issuance>>

\* CheckBlockedOrigin::validate, for signed extrinsics.
CheckBlockedOrigin(who) == ~is_blocked_account(who)

\* check_self_contained, for Ethereum transactions with a valid signature.
check_self_contained(who) == ~is_blocked_account(who)
=============================================================================
