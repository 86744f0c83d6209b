----------------------------- MODULE RelayViews -----------------------------
(***************************************************************************)
(* What the relay manager precompile tells a contract: the view methods    *)
(* over the storage of RelayManager.  Names that RelayManager uses for an  *)
(* operation of the pallet are those of the Solidity interface.            *)
(*                                                                         *)
(* A method that reverts answers None.  Vectors filled from sets come in   *)
(* the order of the accounts and are modelled as the sets.                 *)
(***************************************************************************)
EXTENDS RelayManager, SequencesExt

Unique(list) == Cardinality(ToSet(list)) = Len(list)

isRelayer(r) == is_relayer(relay, r)

selected_relayers(is_initial) ==
  IF is_initial THEN relay.InitialSelectedRelayers ELSE relay.SelectedRelayers

isSelectedRelayer(r, is_initial) == r \in selected_relayers(is_initial)

\* The length of a complete list is compared with the current selection, also when
\* the members are looked up in the initial one.
dedup_sort_validate(list, is_complete, valid) ==
  IF ~Unique(list) THEN None
  ELSE IF is_complete /\ Cardinality(relay.SelectedRelayers) # Len(list) THEN FALSE
  ELSE ToSet(list) \subseteq valid

is_relayers(list) == dedup_sort_validate(list, FALSE, {r \in Relayers : isRelayer(r)})

is_selected_relayers(list, is_initial) ==
  dedup_sort_validate(list, FALSE, {r \in Relayers : isSelectedRelayer(r, is_initial)})

is_complete_selected_relayers(list, is_initial) ==
  dedup_sort_validate(list, TRUE, {r \in Relayers : isSelectedRelayer(r, is_initial)})

get_previous_selected_relayers(round, is_initial) ==
  LET cached == IF is_initial THEN relay.CachedInitialSelectedRelayers ELSE relay.CachedSelectedRelayers
  IN  IF round \in DOMAIN cached THEN cached[round] ELSE None

previous_selected_relayers(round, is_initial) == get_previous_selected_relayers(round, is_initial)

is_previous_selected_relayer(round, r, is_initial) ==
  LET previous == get_previous_selected_relayers(round, is_initial)
  IN  IF previous = None THEN None ELSE r \in previous

is_previous_selected_relayers(round, list, is_initial) ==
  LET previous == get_previous_selected_relayers(round, is_initial)
  IN  IF ~Unique(list) \/ previous = None THEN None
      ELSE previous # {} /\ ToSet(list) \subseteq previous

relayer_pool == relay.RelayerPool

relayer_majority(is_initial) == IF is_initial THEN relay.InitialMajority ELSE relay.Majority

previous_relayer_majority(round, is_initial) ==
  LET cached == IF is_initial THEN relay.CachedInitialMajority ELSE relay.CachedMajority
  IN  IF round \in DOMAIN cached THEN cached[round] ELSE None

latest_relay_round == relay.Round

\* RelayerState::set_state
RelayerRow(r) ==
  [relayer |-> r, controller |-> relay.RelayerState[r].controller,
   status  |-> CASE relay.RelayerState[r].status = "KickedOut" -> 2
                 [] relay.RelayerState[r].status = "Active"    -> 1
                 [] relay.RelayerState[r].status = "Idle"      -> 0]

NoRelayerRow == [relayer |-> None, controller |-> None, status |-> 0]

relayer_state(r) == IF isRelayer(r) THEN RelayerRow(r) ELSE NoRelayerRow

\* In the order of the storage iterator.
relayer_states == {RelayerRow(r) : r \in {q \in Relayers : isRelayer(q)}}
-----------------------------------------------------------------------------
\* The answers about relayers are of one piece: the pool lists, once each, the relayers
\* and controllers that relayer_states lists; the cached answers about the running round
\* are the current ones, for the seats at the start of the round as well as for those
\* left; each majority is that of its seats; and seats are only lost during a round.
RelayerAnswersAgree ==
  LET now == latest_relay_round
      Pair(row) == [relayer |-> row.relayer, controller |-> row.controller]
  IN  /\ Unique(relayer_pool) /\ ToSet(relayer_pool) = {Pair(row) : row \in relayer_states}
      /\ \A row \in relayer_states :
           relayer_state(row.relayer) = row /\ is_relayers(<<row.relayer>>)
      /\ \A is_initial \in BOOLEAN :
           LET seats == selected_relayers(is_initial)  list == SetToSeq(seats)
           IN  /\ previous_selected_relayers(now, is_initial) = seats
               /\ {r \in Relayers : is_previous_selected_relayer(now, r, is_initial)} = seats
               /\ is_previous_selected_relayers(now, list, is_initial) = (list # <<>>)
               /\ is_selected_relayers(list, is_initial)
               /\ previous_relayer_majority(now, is_initial) = relayer_majority(is_initial)
               /\ relayer_majority(is_initial) = compute_majority(seats)
      /\ is_complete_selected_relayers(SetToSeq(selected_relayers(FALSE)), FALSE)
      /\ is_selected_relayers(SetToSeq(selected_relayers(FALSE)), TRUE)

\* "whether the address array is identical with the active relayer set", now or "at the
\* beginning of the current round" (interface.sol).
CompleteMeansIdentical ==
  \A is_initial \in BOOLEAN :
    is_complete_selected_relayers(SetToSeq(selected_relayers(is_initial)), is_initial)
=============================================================================
