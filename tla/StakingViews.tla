---------------------------- MODULE StakingViews ----------------------------
(***************************************************************************)
(* What the staking precompile tells a contract about candidates, the      *)
(* selection, the rounds and the rewards: its view methods over the        *)
(* storage of StakingRounds (the ones about nominations are in             *)
(* NominationViews).                                                       *)
(*                                                                         *)
(* A method that reverts answers None.  Vectors filled from sets come in   *)
(* the order of the accounts and are modelled as the sets; the states of   *)
(* candidates are sorted by voting power, and in the order of the storage  *)
(* iterator where it is equal: they are modelled as sets of rows.          *)
(***************************************************************************)
EXTENDS StakingRounds, RelayViews

TierOf(tier) == CASE tier = 2 -> "Full" [] tier = 1 -> "Basic" [] OTHER -> "All"

isCandidate(c, tier) == is_candidate(staking, c, TierOf(tier))

isSelectedCandidate(c, tier) == is_selected_candidate(staking, c, TierOf(tier))

\* The seats kept per tier, while isSelectedCandidate asks for the current tier of a seat.
selected_candidates(tier) ==
  CASE tier = 2 -> staking.SelectedFullCandidates
    [] tier = 1 -> staking.SelectedBasicCandidates
    [] OTHER    -> staking.SelectedCandidates

get_unique_candidates(list) == IF Unique(list) THEN ToSet(list) ELSE None

compare_selected_candidates(candidates, tier, is_complete) ==
  LET selected == selected_candidates(tier)
  IN  /\ candidates # {}
      /\ is_complete => Cardinality(selected) = Cardinality(candidates)
      /\ candidates \subseteq selected

is_selected_candidates(list, tier) ==
  IF get_unique_candidates(list) = None THEN None
  ELSE compare_selected_candidates(get_unique_candidates(list), tier, FALSE)

is_complete_selected_candidates(list, tier) ==
  IF get_unique_candidates(list) = None THEN None
  ELSE compare_selected_candidates(get_unique_candidates(list), tier, TRUE)

get_previous_selected_candidates(round) ==
  IF round \in DOMAIN staking.CachedSelectedCandidates
  THEN staking.CachedSelectedCandidates[round] ELSE None

is_previous_selected_candidate(round, c) ==
  LET previous == get_previous_selected_candidates(round)
  IN  IF previous = None THEN None ELSE c \in previous

is_previous_selected_candidates(round, list) ==
  LET previous == get_previous_selected_candidates(round)
  IN  IF previous = None \/ get_unique_candidates(list) = None THEN None
      ELSE get_unique_candidates(list) \subseteq previous

previous_selected_candidates(round) == get_previous_selected_candidates(round)

latest_round == staking.Round.index

majority == staking.Majority

previous_majority(round) ==
  IF round \in DOMAIN staking.CachedMajority THEN staking.CachedMajority[round] ELSE None

\* The rounds "now" and "prev" are the ones StakingRounds keeps.
points(round) == staking.Points[round]

validator_points(round, c) ==
  IF staking.AwardedPts[round][c] = None THEN 0 ELSE staking.AwardedPts[round][c]

candidate_pool ==
  {[controller |-> c, voting_power |-> staking.CandidatePool[c]] :
     c \in {d \in Controllers : staking.CandidatePool[d] # None}}

candidate_count == Cardinality({c \in Controllers : staking.CandidatePool[c] # None})

\* CandidateState::set_state; the round a candidate leaves in stands for its status.
CandidateRow(c) ==
  LET info == staking.CandidateInfo[c]
  IN  [controller |-> c, stash |-> info.stash, bond |-> info.bond, voting_power |-> info.voting_power,
       status |-> CASE info.status = "KickedOut" -> 2
                    [] info.status = "Active"    -> 1
                    [] info.status = "Idle"      -> 0
                    [] info.status = "Leaving"   -> info.when,
       is_selected |-> info.is_selected, commission |-> info.commission,
       productivity |-> info.productivity,
       reward_dst |-> IF info.reward_dst = "Staked" THEN 0 ELSE 1,
       tier |-> IF info.tier = "Full" THEN 2 ELSE 1]

\* CandidateStates::insert_empty
NoCandidateRow ==
  [controller |-> None, stash |-> None, bond |-> 0, voting_power |-> 0, status |-> 0,
   is_selected |-> FALSE, commission |-> 0, productivity |-> 0, reward_dst |-> 0, tier |-> 0]

candidate_state(c) == IF c \in Candidates(staking) THEN CandidateRow(c) ELSE NoCandidateRow

candidate_states(tier) == {CandidateRow(c) : c \in {d \in Controllers : isCandidate(d, tier)}}

candidate_states_by_selection(tier, is_selected) ==
  {row \in candidate_states(tier) : row.is_selected = is_selected}
-----------------------------------------------------------------------------
(* Rewards. *)

rounds_per_year == BlocksPerYear \div staking.Round.length

\* Mutant: the commission is not taken off.
YearlyReturnGross(c, stake, power) ==
  LET issuance == compute_issuance(staking.InflationConfig, staking.Total)
      share    == from_rational(1, Cardinality(staking.SelectedCandidates))
  IN  PerMul(from_rational(stake, power), PerMul(share, issuance)) * rounds_per_year

\* What stake earns a nominator of c in a year of rounds like this one, when the power
\* behind c is power and every validator makes as many blocks.
YearlyReturn(c, stake, power) ==
  LET issuance   == compute_issuance(staking.InflationConfig, staking.Total)
      share      == from_rational(1, Cardinality(staking.SelectedCandidates))
      commission == PerMul(share, PerMul(staking.CandidateInfo[c].commission, issuance))
  IN  PerMul(from_rational(stake, power), PerMul(share, issuance) - commission) * rounds_per_year

\* For stakes that are added to candidates; accounts that are no candidates are left out.
estimated_yearly_return(candidates, amounts) ==
  IF \/ candidates = <<>> \/ Len(candidates) # Len(amounts)
     \/ staking.SelectedCandidates = {}
  THEN None
  ELSE LET known == SelectSeq([i \in DOMAIN candidates |-> i],
                              LAMBDA i : candidates[i] \in Candidates(staking))
       IN  [k \in DOMAIN known |->
              LET c == candidates[known[k]]  stake == amounts[known[k]]
              IN  YearlyReturn(c, stake, staking.CandidateInfo[c].voting_power + stake)]

\* For the stakes a nominator has.
nominator_estimated_yearly_return(n) ==
  IF staking.SelectedCandidates = {} THEN None
  ELSE [c \in {d \in Candidates(staking) : staking.NominatorState[n].nominations[d] > 0} |->
          YearlyReturn(c, staking.NominatorState[n].nominations[c],
                       staking.CandidateInfo[c].voting_power)]
-----------------------------------------------------------------------------
(* Totals and offences. *)

\* Of the running round; reverts before its first block.
total == staking.TotalAtStake

rewards == staking.AwardedTokens

maximum_offence_count(tier) ==
  CASE tier = 2 -> <<offences.FullMaximumOffenceCount>>
    [] tier = 1 -> <<offences.BasicMaximumOffenceCount>>
    [] tier = 0 -> <<offences.FullMaximumOffenceCount, offences.BasicMaximumOffenceCount>>
    [] OTHER    -> None

\* ValidatorOffence::set_offence; set_empty gives zeros.
OffenceRow(c, info) ==
  [validator |-> c, latest_offence_session_index |-> info.session, offence_count |-> info.count]

validator_offence(c) == OffenceRow(c, offences.ValidatorOffences[c])
-----------------------------------------------------------------------------
(* Properties. *)

\* The methods a contract can ask about the validators of the round give one answer,
\* after any mix of joins, departures, offline validators and replaced accounts: an
\* account is selected by isSelectedCandidate, by the list of the selected, by its own
\* state and by the cache of the round, or by none; the selected are neither idle nor
\* kicked out; the pool is the active ones with their voting power; the full nodes are the
\* controllers of the relayers; and both pallets are in the same round and consistent about it.
AnswersAgree ==
  LET all  == selected_candidates(0)
      list == SetToSeq(all)
      rows == candidate_states_by_selection(0, TRUE)
  IN  /\ {c \in Controllers : isSelectedCandidate(c, 0)} = all
      /\ {row.controller : row \in rows} = all
      /\ \A row \in rows : row.status \notin {0, 2} /\ candidate_state(row.controller) = row
      /\ previous_selected_candidates(latest_round) = all
      /\ {c \in Controllers : is_previous_selected_candidate(latest_round, c)} = all
      /\ is_previous_selected_candidates(latest_round, list)
      /\ is_selected_candidates(list, 0) = (all # {})
      /\ is_complete_selected_candidates(list, 0) = (all # {})
      /\ previous_majority(latest_round) = majority
      /\ candidate_count = Cardinality({row \in candidate_states(0) : row.status = 1})
      /\ candidate_pool = {[controller |-> row.controller, voting_power |-> row.voting_power] :
                             row \in {r \in candidate_states(0) : r.status = 1}}
      /\ {row.controller : row \in candidate_states(2)} = {row.controller : row \in relayer_states}
      /\ latest_round = latest_relay_round
      /\ RelayerAnswersAgree

\* Nominators are told what they will get: while a payout is open in which every
\* validator of the round made as many blocks, the estimated return of a nomination that
\* is not paid yet is its payment times the rounds of a year, unless stakes or the
\* configuration have changed since; and more stake of that size is promised no more.
EstimateIsPayout ==
  \A n \in Nominators, c \in Candidates(staking) :
    LET snapshot == staking.AtStake.prev[c]
        pts      == validator_points("prev", c)
        stake    == staking.NominatorState[n].nominations[c]
    IN  (/\ staking.DelayedPayout # None
         /\ pts * Cardinality(staking.SelectedCandidates) = points("prev")
         /\ stake > 0 /\ pts > 0
         /\ snapshot.nominations = TopNominations(staking, c)
         /\ snapshot.total = staking.CandidateInfo[c].voting_power
         /\ staking.DelayedPayout = compute_issuance(staking.InflationConfig, staking.Total))
        => LET estimate == nominator_estimated_yearly_return(n)[c]
           IN  /\ estimate = rounds_per_year *
                    NominatorReward(staking.CandidateInfo[c].commission, pts, points("prev"),
                                    staking.DelayedPayout, snapshot, n)
               /\ estimated_yearly_return(<<c>>, <<stake>>)[1] <= estimate

\* The locked total is the bonds and the nominations, whatever was compounded, slashed,
\* returned or moved to another controller; and the total a contract reads after a block
\* is that amount, short of no more than the rewards of the same block.
TotalExact ==
  [][LET locked == Snapshot(staking', Candidates(staking')).stake
     IN  /\ staking'.Total = locked
         /\ chain'.block # chain.block =>
              /\ total'.active.stake <= total'.total.stake
              /\ total'.total.stake <= locked
              /\ locked <= total'.total.stake + (rewards' - rewards)]_vars

\* What is on record against a validator is in force: the record never exceeds the
\* limit of its tier, is clear when the validator is kicked out, does not grow after that
\* although the session still counts it among its validators, and holds no offence that
\* has expired when a session begins.
OffencesInForce ==
  [][\A c \in Candidates(staking) \cap Candidates(staking') :
       LET old   == validator_offence(c)
           new   == validator_offence(c)'
           limit == maximum_offence_count(CandidateRow(c).tier)[1]
           out   == {s \in {staking, staking'} : s.CandidateInfo[c].status = "KickedOut"}
       IN  /\ new.offence_count > old.offence_count => new.offence_count <= limit
           /\ out = {staking'} /\ staking # staking' => new.offence_count = 0
           /\ /\ out = {staking, staking'}
              /\ staking.CandidateInfo[c].stash = staking'.CandidateInfo[c].stash
              => new.offence_count <= old.offence_count
           /\ chain'.session # chain.session /\ new.offence_count > 0 =>
                chain'.session - new.latest_offence_session_index
                  <= offences.OffenceExpirationInSessions]_vars

\* "Verifies if the given `candidate` parameter is an active validator for the current
\* round", and "if each of the address in the given `candidates`" is: with the tier.
TierAnswersAgree ==
  \A c \in Controllers, tier \in 0..2 :
    isSelectedCandidate(c, tier) = is_selected_candidates(<<c>>, tier)
=============================================================================
