---------------------------- MODULE RelayManager ----------------------------
(***************************************************************************)
(* pallet-relay-manager: the relayer account behind every full node, the   *)
(* relayers selected for the round, their majority, the caches of both per *)
(* round, the heartbeats of the session and the delayed replacement of     *)
(* relayer accounts.                                                       *)
(*                                                                         *)
(* The staking pallet calls several of these operations within one hook.   *)
(* Each of them is therefore an operator from the storage of the pallet to *)
(* the storage it leaves behind; the calls of the pallet itself are        *)
(* actions on the variable relay.                                          *)
(*                                                                         *)
(* Left out: the versions a relayer reports in heartbeat_v2, and the votes *)
(* the other pallets move when a relayer account is replaced (modelled in  *)
(* RelayQueue, SocketQueue and RegistrationPool).                          *)
(***************************************************************************)
EXTENDS Integers, Sequences, FiniteSets

CONSTANTS Controllers,   \* controller accounts
          Relayers,      \* relayer accounts
          None

ASSUME RelayManagerAssumption == None \notin Controllers \cup Relayers

VARIABLE relay           \* the storage of the pallet

NoCache == [r \in {} |-> {}]

\* Genesis of the pallet, before the staking pallet selects anybody.
EmptyRelay(lifetime, active, fraction, members, prime) ==
  [Round                   |-> 1,
   StorageCacheLifetime    |-> lifetime,
   RelayerPool             |-> <<>>,
   RelayerState            |-> [r \in Relayers |-> None],
   BondedController        |-> [c \in Controllers |-> None],
   SelectedRelayers        |-> {},
   InitialSelectedRelayers |-> {},
   CachedSelectedRelayers  |-> NoCache,
   CachedInitialSelectedRelayers |-> NoCache,
   Majority                |-> 0,
   InitialMajority         |-> 0,
   CachedMajority          |-> NoCache,
   CachedInitialMajority   |-> NoCache,
   ReceivedHeartbeats      |-> {},
   IsHeartbeatOffenceActive |-> active,
   HeartbeatSlashFraction  |-> fraction,
   DelayedRelayerSets      |-> <<>>,
   Members                 |-> members,  \* of the relay executive collective
   Prime                   |-> prime]
-----------------------------------------------------------------------------
(* Caches per round. *)

SmallestKey(cache) == CHOOSE r \in DOMAIN cache : \A q \in DOMAIN cache : r <= q

\* An entry is added or overwritten; a full cache loses its oldest round first.
Insert(cache, round, value) ==
  [r \in DOMAIN cache \cup {round} |-> IF r = round THEN value ELSE cache[r]]

pop_first(cache) == [r \in DOMAIN cache \ {SmallestKey(cache)} |-> cache[r]]

\* Mutant: the oldest round is dropped whatever the lifetime is.
InsertAlwaysDrops(cache, lifetime, round, value) ==
  Insert(IF DOMAIN cache # {} THEN pop_first(cache) ELSE cache, round, value)

InsertBounded(cache, lifetime, round, value) ==
  Insert(IF lifetime <= Cardinality(DOMAIN cache) THEN pop_first(cache) ELSE cache, round, value)
-----------------------------------------------------------------------------
is_relayer(rm, r) == rm.RelayerState[r] # None

is_selected_relayer(rm, r) == r \in rm.SelectedRelayers

is_relayer_set_requested(rm, r) == \E i \in DOMAIN rm.DelayedRelayerSets : rm.DelayedRelayerSets[i].old = r

is_heartbeat_pulsed(rm, r) == r \in rm.ReceivedHeartbeats

compute_majority(selected) == (Cardinality(selected) \div 2) + 1

\* RelayerMetadata with another status.
WithStatus(rm, r, status) == [rm EXCEPT !.RelayerState[r].status = status]

refresh_latest_cached_relayers(rm) ==
  [rm EXCEPT !.CachedSelectedRelayers = Insert(@, rm.Round, rm.SelectedRelayers)]

refresh_latest_cached_majority(rm) ==
  [rm EXCEPT !.CachedMajority = Insert(@, rm.Round, rm.Majority)]

\* Removes by relayer account, or by controller account.
remove_from_relayer_pool(rm, acc) ==
  [rm EXCEPT !.RelayerPool = SelectSeq(@, LAMBDA p : p.relayer # acc)]

RemoveControllerFromPool(rm, acc) ==
  [rm EXCEPT !.RelayerPool = SelectSeq(@, LAMBDA p : p.controller # acc)]

add_to_relayer_pool(rm, r, c) ==
  [rm EXCEPT !.RelayerPool = Append(@, [relayer |-> r, controller |-> c])]
-----------------------------------------------------------------------------
(* Operations called by the staking pallet. *)

verify_relayer_existence(rm, r, c) ==
  /\ ~is_relayer(rm, r)
  /\ rm.BondedController[c] = None
  /\ \A i \in DOMAIN rm.DelayedRelayerSets : rm.DelayedRelayerSets[i].new # r

join_relayers(rm, r, c) ==
  [add_to_relayer_pool(rm, r, c) EXCEPT
     !.RelayerState[r] = [controller |-> c, status |-> "Idle"],
     !.BondedController[c] = r]

\* SelectedRelayers and Majority keep the relayer until the next round.
leave_relayers(rm, c) ==
  IF rm.BondedController[c] = None THEN rm
  ELSE LET r == rm.BondedController[c]
       IN  [remove_from_relayer_pool(rm, r) EXCEPT
              !.RelayerState[r] = None, !.BondedController[c] = None]

\* Mutant: a kicked-out relayer loses its seat but the majority is not recomputed.
KickoutKeepsMajority(rm, c) ==
  IF rm.BondedController[c] = None THEN rm
  ELSE refresh_latest_cached_relayers(
         [WithStatus(rm, rm.BondedController[c], "KickedOut") EXCEPT
            !.SelectedRelayers = @ \ {rm.BondedController[c]}])

kickout_relayer(rm, c) ==
  IF rm.BondedController[c] = None THEN rm
  ELSE LET r      == rm.BondedController[c]
           kicked == WithStatus(rm, r, "KickedOut")
           left   == rm.SelectedRelayers \ {r}
       IN  IF r \notin rm.SelectedRelayers THEN kicked
           ELSE refresh_latest_cached_majority(
                  refresh_latest_cached_relayers(
                    [kicked EXCEPT !.SelectedRelayers = left,
                                   !.Majority = compute_majority(left)]))

refresh_round(rm, now) == [rm EXCEPT !.Round = now]

refresh_relayer_pool(rm) ==
  [rm EXCEPT !.RelayerState =
     [r \in Relayers |->
        IF @[r] # None /\ @[r].status # "KickedOut"
           /\ \E i \in DOMAIN rm.RelayerPool : rm.RelayerPool[i].relayer = r
        THEN [@[r] EXCEPT !.status = "Idle"] ELSE @[r]]]

refresh_cached_selected_relayers(rm, now, selected) ==
  [rm EXCEPT
     !.CachedSelectedRelayers = InsertBounded(@, rm.StorageCacheLifetime, now, selected),
     !.CachedInitialSelectedRelayers = InsertBounded(@, rm.StorageCacheLifetime, now, selected)]

refresh_selected_relayers(rm, now, candidates) ==
  LET idle     == refresh_relayer_pool(rm)
      selected == {rm.BondedController[c] : c \in {d \in candidates : rm.BondedController[d] # None}}
      online   == [r \in Relayers |->
                     IF r \in selected THEN [idle.RelayerState[r] EXCEPT !.status = "Active"]
                     ELSE idle.RelayerState[r]]
  IN  refresh_cached_selected_relayers(
        [idle EXCEPT !.RelayerState = online,
                     !.SelectedRelayers = selected,
                     !.InitialSelectedRelayers = selected], now, selected)

refresh_majority(rm, now) ==
  LET majority == compute_majority(rm.SelectedRelayers)
  IN  [rm EXCEPT
         !.Majority = majority,
         !.InitialMajority = majority,
         !.CachedMajority = InsertBounded(@, rm.StorageCacheLifetime, now, majority),
         !.CachedInitialMajority = InsertBounded(@, rm.StorageCacheLifetime, now, majority)]

replace_bonded_controller(rm, old, new) ==
  IF rm.BondedController[old] = None THEN rm
  ELSE LET r == rm.BondedController[old]
       IN  add_to_relayer_pool(
             RemoveControllerFromPool(
               [rm EXCEPT !.BondedController = [@ EXCEPT ![old] = None, ![new] = r],
                          !.RelayerState[r].controller = new], old), r, new)
-----------------------------------------------------------------------------
(* The delayed replacement of relayer accounts. *)

replace_selected_relayers(rm, old, new) ==
  IF old \notin rm.SelectedRelayers THEN rm
  ELSE LET moved == refresh_latest_cached_relayers(
                      [rm EXCEPT !.SelectedRelayers = (@ \ {old}) \cup {new}])
       IN  [moved EXCEPT !.ReceivedHeartbeats =
              (@ \ {old, new}) \cup (IF old \in @ THEN {new} ELSE {})]

replace_bonded_relayer(rm, old, new) ==
  LET state  == rm.RelayerState[old]
      pooled == \E i \in DOMAIN rm.RelayerPool : rm.RelayerPool[i].relayer = old
      pool   == IF pooled
                THEN add_to_relayer_pool(remove_from_relayer_pool(rm, old), new, state.controller)
                ELSE rm
  IN  replace_selected_relayers(
        [pool EXCEPT !.BondedController[state.controller] = new,
                     !.RelayerState = [@ EXCEPT ![old] = None, ![new] = state]], old, new)

\* The seat in the relay executive moves along, unless the new account has one.
ReplaceExecutive(rm, old, new) ==
  IF old \in rm.Members /\ new \notin rm.Members
  THEN [rm EXCEPT !.Members = (@ \ {old}) \cup {new},
                  !.Prime = IF @ = old THEN new ELSE @]
  ELSE rm

ApplyRelayerSet(rm, set) ==
  IF is_relayer(rm, set.old)
  THEN ReplaceExecutive(replace_bonded_relayer(rm, set.old, set.new), set.old, set.new)
  ELSE rm

\* The requests of the ended round, one after the other.
handle_delayed_relayer_sets(rm) ==
  LET sets == rm.DelayedRelayerSets
      Applied[i \in 0..Len(sets)] ==
        IF i = 0 THEN [rm EXCEPT !.DelayedRelayerSets = <<>>]
                 ELSE ApplyRelayerSet(Applied[i - 1], sets[i])
  IN  Applied[Len(sets)]
-----------------------------------------------------------------------------
(* Heartbeats. *)

\* The controllers of the session whose relayer sent no heartbeat.
Unresponsive(rm, validators) ==
  {c \in validators : rm.BondedController[c] # None /\ ~is_heartbeat_pulsed(rm, rm.BondedController[c])}

collect_heartbeats(rm, validators) ==
  LET late == {rm.BondedController[c] : c \in Unresponsive(rm, validators)}
  IN  [rm EXCEPT
         !.RelayerState = [r \in Relayers |-> IF r \in late THEN [@[r] EXCEPT !.status = "Idle"]
                                              ELSE @[r]],
         !.ReceivedHeartbeats = {}]
-----------------------------------------------------------------------------
(* Calls of the pallet. *)

add_to_relayer_sets(rm, old, new) ==
  [rm EXCEPT !.DelayedRelayerSets = Append(@, [old |-> old, new |-> new])]

remove_relayer_set(rm, who) ==
  [rm EXCEPT !.DelayedRelayerSets = SelectSeq(@, LAMBDA s : s.old # who)]

pulse_heartbeat(rm, r) == [rm EXCEPT !.ReceivedHeartbeats = @ \cup {r}]

set_relayer(c, new) ==
  LET old == relay.BondedController[c]
  IN  /\ old # None
      /\ old # new
      /\ is_relayer(relay, old)
      /\ ~is_relayer(relay, new)
      /\ \A i \in DOMAIN relay.DelayedRelayerSets :
            relay.DelayedRelayerSets[i].old # old /\ relay.DelayedRelayerSets[i].new # new
      /\ relay' = add_to_relayer_sets(relay, old, new)

cancel_relayer_set(c) ==
  LET old == relay.BondedController[c]
  IN  /\ old # None
      /\ is_relayer_set_requested(relay, old)
      /\ relay' = remove_relayer_set(relay, old)

\* heartbeat and heartbeat_v2; a second one in the session changes nothing.
heartbeat(r) ==
  /\ is_relayer(relay, r)
  /\ is_selected_relayer(relay, r)
  /\ ~is_heartbeat_pulsed(relay, r)
  /\ relay' = pulse_heartbeat(WithStatus(relay, r, "Active"), r)

set_relay_cache_lifetime(new) ==
  /\ new >= 1
  /\ relay.StorageCacheLifetime # new
  /\ relay' = [relay EXCEPT !.StorageCacheLifetime = new]

set_heartbeat_offence_activation(active) ==
  /\ relay.IsHeartbeatOffenceActive # active
  /\ relay' = [relay EXCEPT !.IsHeartbeatOffenceActive = active]

set_heartbeat_slash_fraction(new) ==
  /\ relay.HeartbeatSlashFraction # new
  /\ relay' = [relay EXCEPT !.HeartbeatSlashFraction = new]
-----------------------------------------------------------------------------
(* The interface the voting pallets rely on. *)
RS == INSTANCE RelayerSet
        WITH Accounts         <- Relayers,
             RelayerState     <- {r \in Relayers : relay.RelayerState[r] # None},
             SelectedRelayers <- relay.SelectedRelayers,
             Majority         <- relay.Majority

=============================================================================
