---------------------------- MODULE MCSocketQueue ----------------------------
(* Small instances of SocketQueue.tla. *)
EXTENDS SocketQueue

CONSTANTS
    a1, a2, u1, m1, m2, d1, x1, x2, c1,
    pay, payMore, payElse,       \* a payment, its replacement, a rival with a higher fee
    payBoth, payLess,            \* two messages paid, and a replacement that pays one
    give, giveMore, giveOther,   \* a rollback, its replacement, one from another coin
    move, moveMore,              \* a migration and its replacement
    comp11, comp12, comp21, comp22   \* coin x1 or x2 pays message m1 or m2

Psbt(inputs, outs, fee) == [inputs |-> inputs, outs |-> outs, fee |-> fee]

Content(p) ==
    CASE p = pay       -> Psbt({x1}, {m1}, 1)
      [] p = payMore   -> Psbt({x1, x2}, {m1, VaultOf(1)}, 2)
      [] p = payElse   -> Psbt({x2}, {m1}, 2)
      [] p = payBoth   -> Psbt({x1}, {m1, m2}, 1)
      [] p = payLess   -> Psbt({x1}, {m1, VaultOf(1)}, 2)
      [] p = give      -> Psbt({x2}, {d1}, 1)
      [] p = giveMore  -> Psbt({x2}, {d1}, 2)
      [] p = giveOther -> Psbt({x1}, {d1}, 1)
      [] p = move      -> Psbt({x1}, {VaultOf(2)}, 1)
      [] p = moveMore  -> Psbt({x1}, {VaultOf(2)}, 2)
      [] p = comp11    -> Psbt({x1}, {m1}, 1)
      [] p = comp12    -> Psbt({x1}, {m2}, 1)
      [] p = comp21    -> Psbt({x2}, {m1}, 1)
      [] p = comp22    -> Psbt({x2}, {m2}, 1)

MCInputs == [p \in Psbts |-> Content(p).inputs]
MCOuts == [p \in Psbts |-> Content(p).outs]
MCFee == [p \in Psbts |-> Content(p).fee]

OneUser == [y \in Messages \cup Deposits |-> u1]
OneByte == [m \in Messages |-> 1]
OneExecutive == {{a1}}
TwoExecutives == {{a1, a2}}

(* Bounds.  The relayers are fixed, all of them selected. *)
FixedRelayers == RelayerState = Accounts /\ SelectedRelayers = Accounts
(* The relayers come and go only while no request is under way. *)
RelayersStay == UnderWay \cup Rollbacks # {} => FixedRelayers
(* The vaults of the current round are generated first and stay. *)
VaultsStay ==
    /\ CurrentRound' = CurrentRound /\ SystemVault[CurrentRound] = "generated"
           => SystemVault'[CurrentRound] = "generated"
    /\ CurrentRound' = CurrentRound
           => \A u \in Users : UserVault[u] = "generated" => UserVault'[u] = "generated"
(* The contracts are set and the vaults generated before anything else. *)
IsSetUp ==
    /\ Socket # None /\ BitcoinSocket # None
    /\ HasSystemVault
    /\ \A u \in Users : UserVault[u] = "generated"
SetUpFirst == ServiceState = "Normal" /\ ~IsSetUp => UNCHANGED <<blazeVars, queueVars, ServiceState>>
(* The authority is fixed and there is no migration. *)
FixedAuthority == Authority = a1
NoMigration == ServiceState = "Normal"
(* Blaze is not turned off, neither by governance nor by failed compositions. *)
BlazeStaysOn == IsActivated => IsActivated'
=============================================================================
