------------------------- MODULE MCRegistrationPool -------------------------
(* Small instances of RegistrationPool.tla. *)
EXTENDS RegistrationPool, TLC

CONSTANTS e1, e2, e3, u1, u2, a1, a2

TwoMembers == {e1, e2}
ThreeMembers == {e1, e2, e3}
Both == {{e1, e2}}
Shrinking == {{e1, e2}, {e1}}
TwoPairs == {{e1, e2}, {e2, e3}}

(* The address of the vault with the first two keys, used as a refund address. *)
VaultLike == [keys |-> {1, 2}, m |-> 2]
PlainAndVault == {a1, VaultLike}

SingleKeys == {{k} : k \in PubKeys}

(* During and after a migration no keys are presubmitted, no refunds are pending and
   no user registers in the new round. *)
MigrationAlone ==
    ServiceState # "Normal" \/ CurrentRound > 1 =>
        \A r \in Rounds : /\ PreSubmittedPubKeys[r] = [e \in Members |-> {}]
                          /\ PendingSetRefunds[r] = [u \in Users |-> None]
                          /\ r > 1 => Registrations[r] = [u \in Users |-> None]
(* The ratio is lower only in the first round, before users register or keys are presubmitted. *)
RatioRestored ==
    MultiSigRatio < 100 =>
        /\ CurrentRound = 1 /\ ServiceState = "Normal"
        /\ Registrations[1] = [u \in Users |-> None]
        /\ PreSubmittedPubKeys[1] = [e \in Members |-> {}]

MCSymmetry == Permutations(Users) \cup Permutations(Members)
=============================================================================
