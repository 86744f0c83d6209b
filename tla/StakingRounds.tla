---------------------------- MODULE StakingRounds ----------------------------
(***************************************************************************)
(* pallet-bfc-staking over sessions and rounds: the selection of validators*)
(* from the candidate pool, the seats of their relayers, the points of the *)
(* block authors and the payouts of the next round, offences, and the calls*)
(* that take effect at once or at the next round.  Composes the relay      *)
(* manager and the offences pallet, which staking drives from its hooks.   *)
(*                                                                         *)
(* One block is one action: the author is noted, the session rotates when  *)
(* it is over (end_session, then the queued validators, then new_session), *)
(* and on_initialize pays one validator.  The session pallet selects its   *)
(* validators one session ahead.  Between blocks come the calls.           *)
(*                                                                         *)
(* The ranking of nominations is modelled in Nominations; here every       *)
(* nomination counts.  RewardPaymentDelay is one round as in the runtimes, *)
(* so only the current and the previous round of AwardedPts, Points,       *)
(* AtStake and DelayedPayouts are ever read, and kept here.                *)
(* Controllers are numbers: candidates of equal voting power are selected  *)
(* in the order of their accounts.                                         *)
(***************************************************************************)
EXTENDS RelayManager, Offences

CONSTANTS Stashes, Nominators,
          Genesis,         \* candidates of the genesis: [stash, controller, relayer, bond]
          GenesisNominations, \* nominator -> controller -> amount
          GenesisStorage,  \* the storage set from the configuration
          MinFullCandidateStk, MinBasicCandidateStk,
          MinFullValidatorStk, MinBasicValidatorStk,
          LeaveCandidatesDelay,
          MinBlocksPerRound, MaxBlocksPerRound,
          SessionPeriod,   \* blocks per session (pallet_session::PeriodicSessions)
          MaxBlocks,       \* bound on the chain
          MaxCalls,        \* bound on the calls between the blocks
          Calls,           \* the calls that are explored
          Bonds, Commissions, RoundLengths, SelectionSizes, Lifetimes, Fractions, Schedules

ASSUME StakingAssumption ==
  /\ Controllers \subseteq Nat
  /\ MinFullValidatorStk >= MinFullCandidateStk
  /\ SessionPeriod \in Nat \ {0}

VARIABLES staking,       \* the storage of the pallet
          chain          \* block, session, Validators, Queued and Keys of the session
                         \* pallet; calls, their number; ledger (history): the tokens
                         \* awarded before the round and the issuance it pays out

vars == <<staking, relay, offences, chain>>
-----------------------------------------------------------------------------
NoPoints == [c \in Controllers |-> None]

NoSnapshot == [bond |-> 0, total |-> 0, nominations |-> [n \in Nominators |-> 0]]

Candidates(st) == {c \in Controllers : st.CandidateInfo[c] # None}

is_candidate(st, c, tier) == c \in Candidates(st) /\ (tier = "All" \/ st.CandidateInfo[c].tier = tier)

is_selected_candidate(st, c, tier) == c \in st.SelectedCandidates /\ is_candidate(st, c, tier)

is_controller_set_requested(st, c) ==
  \E i \in DOMAIN st.DelayedControllerSets : st.DelayedControllerSets[i].old = c

is_commission_set_requested(st, c) ==
  \E i \in DOMAIN st.DelayedCommissionSets : st.DelayedCommissionSets[i].who = c

is_leaving(info) == info.status = "Leaving"

MinCandidateStk(tier) == IF tier = "Full" THEN MinFullCandidateStk ELSE MinBasicCandidateStk

\* CandidateMetadata::new; when is the round of ValidatorStatus::Leaving.
NewCandidate(st, stash, bond, tier) ==
  [stash |-> stash, bond |-> bond, voting_power |-> bond, tier |-> tier,
   status |-> "Active", when |-> 0, is_selected |-> FALSE,
   commission |-> st.DefaultCommission[tier],
   productivity |-> from_percent(100), productive |-> FALSE, reward_dst |-> "Staked"]

update_active(st, c, voting_power) ==
  IF st.CandidatePool[c] = None THEN st ELSE [st EXCEPT !.CandidatePool[c] = voting_power]

\* CandidateMetadata::bond_more, which also raises the total.
bond_more(st, c, more) ==
  [st EXCEPT !.CandidateInfo[c].bond = @ + more,
             !.CandidateInfo[c].voting_power = @ + more,
             !.Total = @ + more]
-----------------------------------------------------------------------------
(* Selection. *)

\* get_sorted_candidates: by voting power, then by account.
Outranks(st, c, d) ==
  \/ st.CandidatePool[c] > st.CandidatePool[d]
  \/ st.CandidatePool[c] = st.CandidatePool[d] /\ c < d

get_top_n_candidates(st, candidates, top_n, min_stake) ==
  LET qualified == {c \in candidates : st.CandidatePool[c] >= min_stake}
  IN  {c \in qualified : Cardinality({d \in qualified : Outranks(st, d, c)}) < top_n}

PoolOfTier(st, tier) ==
  {c \in Candidates(st) : /\ st.CandidatePool[c] # None
                          /\ st.CandidateInfo[c].tier = tier
                          /\ st.CandidateInfo[c].bond >= MinCandidateStk(tier)}

compute_top_candidates(st) ==
  [full  |-> get_top_n_candidates(st, PoolOfTier(st, "Full"), st.MaxFullSelected, MinFullValidatorStk),
   basic |-> get_top_n_candidates(st, PoolOfTier(st, "Basic"), st.MaxBasicSelected, MinBasicValidatorStk)]

refresh_cached_selected_candidates(st, now, validators) ==
  [st EXCEPT !.CachedSelectedCandidates = InsertBounded(@, st.StorageCacheLifetime, now, validators)]

refresh_latest_cached_selected_candidates(st) ==
  [st EXCEPT !.CachedSelectedCandidates = Insert(@, st.Round.index, st.SelectedCandidates)]

refresh_latest_cached_staking_majority(st) ==
  [st EXCEPT !.CachedMajority = Insert(@, st.Round.index, st.Majority)]

refresh_staking_majority(st, now) ==
  LET majority == compute_majority(st.SelectedCandidates)
  IN  [st EXCEPT !.Majority = majority,
                 !.CachedMajority = InsertBounded(@, st.StorageCacheLifetime, now, majority)]

TopNominations(st, c) == [n \in Nominators |-> st.NominatorState[n].nominations[c]]

collect_validator_snapshot(st, validators) ==
  [st EXCEPT
     !.AtStake.now = [c \in Controllers |->
        IF c \in validators
        THEN [bond |-> st.CandidateInfo[c].bond, total |-> st.CandidateInfo[c].voting_power,
              nominations |-> TopNominations(st, c)]
        ELSE @[c]],
     !.CandidateInfo = [c \in Controllers |->
        IF c \in validators THEN [@[c] EXCEPT !.is_selected = TRUE] ELSE @[c]]]

\* w = [st, rm, of], the storage of the three pallets.
update_top_candidates(w, now, full, basic) ==
  LET taken == collect_validator_snapshot(collect_validator_snapshot(w.st, full), basic)
  IN  [w EXCEPT
         !.st = refresh_cached_selected_candidates(
                  [taken EXCEPT !.SelectedCandidates = full \cup basic,
                                !.SelectedFullCandidates = full,
                                !.SelectedBasicCandidates = basic], now, full \cup basic),
         !.rm = refresh_selected_relayers(@, now, full)]

remove_from_selected_candidates(st, c, tier) ==
  [st EXCEPT !.SelectedCandidates = @ \ {c},
             !.SelectedFullCandidates = IF tier = "Full" THEN @ \ {c} ELSE @,
             !.SelectedBasicCandidates = IF tier = "Full" THEN @ ELSE @ \ {c}]

add_to_selected_candidates(st, c, tier) ==
  [st EXCEPT !.SelectedCandidates = @ \cup {c},
             !.SelectedFullCandidates = IF tier = "Full" THEN @ \cup {c} ELSE @,
             !.SelectedBasicCandidates = IF tier = "Full" THEN @ ELSE @ \cup {c}]

replace_from_selected_candidates(st, old, new, tier) ==
  refresh_latest_cached_selected_candidates(
    add_to_selected_candidates(remove_from_selected_candidates(st, old, tier), new, tier))
-----------------------------------------------------------------------------
(* Points and payouts. *)

\* EventHandler::note_author: five points whether the author is a candidate or not.
note_author(st, author) ==
  LET noted == [st EXCEPT !.AwardedPts.now[author] = IF @ = None THEN 5 ELSE @ + 5,
                          !.Points.now = @ + 5]
  IN  IF author \in Candidates(st) THEN [noted EXCEPT !.CandidateInfo[author].productive = TRUE]
      ELSE noted

\* Opens the payout of the previous round.
prepare_staking_payouts(st, now) ==
  IF now <= 1 \/ st.Points.prev = 0 THEN st
  ELSE [st EXCEPT !.DelayedPayout = compute_issuance(st.InflationConfig, st.Staked),
                  !.Staked = 0]

mint_reward(st, amount) == [st EXCEPT !.AwardedTokens = @ + amount]

handle_validator_reward_payout(st, c, reward) ==
  LET minted == mint_reward(st, reward)
  IN  IF st.CandidateInfo[c].reward_dst # "Staked" THEN minted
      ELSE LET bonded == bond_more(minted, c, reward)
           IN  update_active(bonded, c, bonded.CandidateInfo[c].voting_power)

\* Nominator::increase_nomination; a nomination that is gone is not increased.
increase_nomination(st, n, c, more) ==
  IF st.NominatorState[n].nominations[c] = 0 THEN st
  ELSE LET raised == [st EXCEPT !.NominatorState[n].nominations[c] = @ + more,
                                !.CandidateInfo[c].voting_power = @ + more,
                                !.Total = @ + more]
       IN  update_active(raised, c, raised.CandidateInfo[c].voting_power)

handle_nominator_reward_payout(st, c, n, reward) ==
  IF reward = 0 \/ ~st.NominatorState[n].active \/ c \in st.NominatorState[n].requests THEN st
  ELSE LET minted == mint_reward(st, reward)
       IN  IF st.NominatorState[n].reward_dst = "Staked" THEN increase_nomination(minted, n, c, reward)
           ELSE minted

\* Mutant: the drained entry stays, so that the validator is paid again.
PayKeepsPoints(st, v) ==
  LET reward == Contribution(st.AwardedPts.prev[v], st.Points.prev, st.DelayedPayout)
  IN  IF v \notin Candidates(st) THEN [st |-> st, paid |-> FALSE]
      ELSE [st |-> handle_validator_reward_payout(st, v, reward), paid |-> TRUE]

\* v is the entry the storage iterator yields first.
pay_one_validator_reward(st, v) ==
  LET pts      == st.AwardedPts.prev[v]
      rate     == st.CandidateInfo[v].commission
      snapshot == st.AtStake.prev[v]
      drained  == [st EXCEPT !.AwardedPts.prev[v] = None]
      taken    == [drained EXCEPT !.AtStake.prev[v] = NoSnapshot]
      paid     == handle_validator_reward_payout(taken, v,
                    ValidatorReward(rate, pts, st.Points.prev, st.DelayedPayout, snapshot))
  IN  IF v \notin Candidates(st) THEN [st |-> drained, paid |-> FALSE]
      ELSE [st |-> FoldSet(LAMBDA n, s :
                      handle_nominator_reward_payout(s, v, n,
                        NominatorReward(rate, pts, st.Points.prev, st.DelayedPayout, snapshot, n)),
                      paid, Nominators),
            paid |-> TRUE]

\* The entries the next payout may find first; none when all have been paid.
Unpaid(st) == {c \in Controllers : st.AwardedPts.prev[c] # None}

PayoutChoices(st) ==
  IF st.DelayedPayout = None \/ st.Points.prev = 0 \/ Unpaid(st) = {} THEN {None} ELSE Unpaid(st)

\* Mutant: the payout is closed with the first payment.
HandleClosesAtOnce(st, v) ==
  IF st.DelayedPayout = None THEN st
  ELSE [(IF v = None THEN st ELSE pay_one_validator_reward(st, v).st)
          EXCEPT !.DelayedPayout = None, !.Points.prev = 0]

handle_delayed_payouts(st, v) ==
  LET result == IF v = None THEN [st |-> st, paid |-> FALSE] ELSE pay_one_validator_reward(st, v)
  IN  IF st.DelayedPayout = None \/ result.paid THEN result.st
      ELSE [result.st EXCEPT !.DelayedPayout = None, !.Points.prev = 0]

NoTotals == [self_bond |-> 0, nominations |-> 0, nominators |-> 0, stake |-> 0, voting_power |-> 0]

\* The increments of TotalSnapshot for one candidate; top and bottom are not told apart here.
Increment(totals, st, c) ==
  LET nominators == {n \in Nominators : st.NominatorState[n].nominations[c] > 0}
      nominated  == MapThenSumSet(LAMBDA n : st.NominatorState[n].nominations[c], nominators)
  IN  [self_bond    |-> totals.self_bond + st.CandidateInfo[c].bond,
       nominations  |-> totals.nominations + nominated,
       nominators   |-> totals.nominators + Cardinality(nominators),
       stake        |-> totals.stake + st.CandidateInfo[c].bond + nominated,
       voting_power |-> totals.voting_power + st.CandidateInfo[c].voting_power]

Snapshot(st, who) == FoldSet(LAMBDA c, totals : Increment(totals, st, c), NoTotals, who)

refresh_total_snapshot(st) ==
  [st EXCEPT !.TotalAtStake = [active |-> Snapshot(st, Candidates(st) \cap st.SelectedCandidates),
                               total  |-> Snapshot(st, Candidates(st))]]

on_initialize(st, v) == handle_delayed_payouts(refresh_total_snapshot(st), v)
-----------------------------------------------------------------------------
(* Offences. *)

kickout_validator(w, c) ==
  LET tier == w.st.CandidateInfo[c].tier
      gone == remove_from_selected_candidates(
                [w.st EXCEPT !.CandidatePool[c] = None,
                             !.CandidateInfo[c].status = "KickedOut",
                             !.CandidateInfo[c].is_selected = FALSE], c, tier)
      seats == [refresh_latest_cached_selected_candidates(gone) EXCEPT
                  !.Majority = compute_majority(gone.SelectedCandidates)]
  IN  [w EXCEPT !.st = refresh_latest_cached_staking_majority(seats),
                !.rm = IF tier = "Full" THEN kickout_relayer(@, c) ELSE @]

\* Mutant: the locked total keeps what was slashed.
SlashKeepsTotal(st, c, amount) ==
  [st EXCEPT !.CandidateInfo[c].bond = @ - AtMost(amount, @),
             !.CandidateInfo[c].voting_power = @ - AtMost(amount, @)]

slash_reserved_bonds(st, c, amount) ==
  LET loss == AtMost(amount, st.CandidateInfo[c].bond)
  IN  [st EXCEPT !.CandidateInfo[c].bond = @ - loss,
                 !.CandidateInfo[c].voting_power = @ - AtMost(amount, @),
                 !.Total = @ - AtMost(amount, @)]

\* Mutant: a kicked-out validator is charged again while it stays in the session.
OffenceAgain(w, c, session, fraction) ==
  IF c \notin Candidates(w.st) THEN w
  ELSE LET info    == w.st.CandidateInfo[c]
           handled == try_handle_offence(w.of, c, info.tier, session, fraction, info.bond)
           charged == [w EXCEPT !.of = handled.of]
       IN  IF ~handled.slashed THEN charged
           ELSE LET out == kickout_validator(charged, c)
                IN  [out EXCEPT !.st = slash_reserved_bonds(@, c, handled.amount)]

on_offence(w, c, session, fraction) ==
  IF c \notin Candidates(w.st) \/ w.st.CandidateInfo[c].status = "KickedOut" THEN w
  ELSE LET info    == w.st.CandidateInfo[c]
           handled == try_handle_offence(w.of, c, info.tier, session, fraction, info.bond)
           charged == [w EXCEPT !.of = handled.of]
       IN  IF ~handled.slashed THEN charged
           ELSE LET out == kickout_validator(charged, c)
                IN  [out EXCEPT !.st = slash_reserved_bonds(@, c, handled.amount)]

\* The heartbeats of the ending session; the reports reach on_offence at once.
end_session(w, validators, session) ==
  LET late == Unresponsive(w.rm, validators)
      over == [w EXCEPT !.rm = collect_heartbeats(@, validators)]
  IN  IF ~w.rm.IsHeartbeatOffenceActive THEN over
      ELSE FoldSet(LAMBDA c, u : on_offence(u, c, session, w.rm.HeartbeatSlashFraction), over, late)
-----------------------------------------------------------------------------
(* Sessions and rounds. *)

should_update(round, n) == n - round.first >= round.length

\* The rounds the maps are keyed by move on with the index.
update_round(st, n) ==
  [st EXCEPT !.Round.index = @ + 1, !.Round.first = n,
             !.Points = [prev |-> @.now, now |-> 0],
             !.AwardedPts = [prev |-> @.now, now |-> NoPoints],
             !.AtStake = [prev |-> @.now, now |-> [c \in Controllers |-> NoSnapshot]],
             !.DelayedPayout = None]

reset_candidate_states(st) ==
  [st EXCEPT !.CandidateInfo = [c \in Controllers |->
     IF @[c] = None THEN None
     ELSE [@[c] EXCEPT !.productivity = from_percent(100), !.productive = FALSE,
                       !.is_selected = FALSE]]]

calculate_productivity_per_block(validator_count, round_length) ==
  IF validator_count = 0 THEN 0
  ELSE from_percent((100 \div ((round_length \div validator_count) + 1)) + 1)

\* CandidateMetadata::decrement_productivity
decrement_productivity(info, base) == [info EXCEPT !.productivity = @ - AtMost(@, base)]

compute_productivity(st, validators) ==
  [st EXCEPT !.CandidateInfo = [c \in Controllers |->
     IF c \in validators \cap Candidates(st) /\ ~@[c].productive
     THEN decrement_productivity(@[c], st.ProductivityPerBlock)
     ELSE @[c]]]

handle_delayed_commission_sets(st) ==
  LET sets == st.DelayedCommissionSets
      New(c) == (CHOOSE i \in DOMAIN sets : sets[i].who = c)
  IN  [st EXCEPT
         !.CandidateInfo = [c \in Controllers |->
            IF c \in Candidates(st) /\ is_commission_set_requested(st, c)
            THEN [@[c] EXCEPT !.commission = sets[New(c)].new] ELSE @[c]],
         !.DelayedCommissionSets = <<>>]

\* The entry of one key moves to another.
Moved(f, old, new, empty) == [f EXCEPT ![new] = f[old], ![old] = empty]

\* replace_nominations and replace_requests of every nominator of the candidate.
replace_nominator_nominations(st, old, new) ==
  [st EXCEPT !.NominatorState = [n \in Nominators |->
     IF @[n].nominations[old] = 0 THEN @[n]
     ELSE [@[n] EXCEPT !.nominations = Moved(@, old, new, 0),
                       !.requests = IF old \in @ THEN (@ \ {old}) \cup {new} ELSE @]]]

\* A missing entry counts as zero points, and the new one is always written.
MovedPoints(points, old, new) ==
  Moved(IF points[old] = None THEN [points EXCEPT ![old] = 0] ELSE points, old, new, None)

\* The points of both rounds move; the snapshot of the previous round does not.
ReplaceHistory(st, old, new) ==
  [st EXCEPT !.AwardedPts.now = MovedPoints(@, old, new),
             !.AwardedPts.prev = MovedPoints(@, old, new),
             !.AtStake.now = Moved(@, old, new, NoSnapshot)]

ApplyControllerSet(w, set) ==
  LET info   == w.st.CandidateInfo[set.old]
      moved  == [w.st EXCEPT
                   !.CandidateInfo = [@ EXCEPT ![set.old] = None, ![set.new] = info],
                   !.BondedStash[set.stash] = set.new,
                   !.CandidatePool = IF @[set.old] = None THEN @
                                     ELSE Moved(@, set.old, set.new, None)]
      seated == IF info.is_selected
                THEN replace_from_selected_candidates(moved, set.old, set.new, info.tier) ELSE moved
  IN  IF info = None THEN w
      ELSE [w EXCEPT !.st = ReplaceHistory(replace_nominator_nominations(seated, set.old, set.new),
                                           set.old, set.new),
                     !.rm = IF info.tier = "Full"
                            THEN replace_bonded_controller(@, set.old, set.new) ELSE @]

handle_delayed_controller_sets(w) ==
  LET sets == w.st.DelayedControllerSets
      Applied[i \in 0..Len(sets)] ==
        IF i = 0 THEN [w EXCEPT !.st.DelayedControllerSets = <<>>]
                 ELSE ApplyControllerSet(Applied[i - 1], sets[i])
  IN  Applied[Len(sets)]

new_round(w, n, full, basic) ==
  LET begun    == update_round(w.st, n)
      now      == begun.Round.index
      relayers == handle_delayed_relayer_sets(refresh_round(w.rm, now))
      paying   == prepare_staking_payouts(reset_candidate_states(begun), now)
      selected == update_top_candidates([w EXCEPT !.st = paying, !.rm = relayers], now, full, basic)
      counted  == [refresh_staking_majority(selected.st, now) EXCEPT
                     !.ProductivityPerBlock = calculate_productivity_per_block(
                        Cardinality(full \cup basic), begun.Round.length),
                     !.Staked = selected.st.Total]
  IN  handle_delayed_controller_sets(
        [selected EXCEPT !.st = handle_delayed_commission_sets(counted),
                         !.rm = refresh_majority(@, now)])

\* session is the one that begins, validators its members.
new_session(w, validators, n, session, keys) ==
  LET judged == [w EXCEPT !.st = compute_productivity(@, validators)]
      top    == compute_top_candidates(judged.st)
      begun  == IF should_update(judged.st.Round, n)
                THEN new_round(judged, n, top.full \cap keys, top.basic \cap keys) ELSE judged
  IN  [begun EXCEPT !.of = refresh_offences(@, session)]

\* pallet_session::rotate_session, driven by PeriodicSessions (external); the
\* session pallet leaves out validators without keys.
rotate_session(w, n) ==
  IF n % SessionPeriod # 0 THEN [w |-> w, chain |-> [chain EXCEPT !.block = n]]
  ELSE LET ended == end_session(w, chain.Validators, chain.session)
           begun == new_session(ended, chain.Queued, n, chain.session + 1, chain.Keys)
       IN  [w |-> begun,
            chain |-> [chain EXCEPT !.block = n, !.session = @ + 1,
                                    !.ledger = IF begun.st.Round = w.st.Round THEN @
                                               ELSE [before |-> w.st.AwardedTokens,
                                                     issuance |-> begun.st.DelayedPayout],
                                    !.Validators = chain.Queued,
                                    !.Queued = begun.st.SelectedCandidates \cap chain.Keys]]

block(author) ==
  LET n       == chain.block + 1
      noted   == [st |-> note_author(staking, author), rm |-> relay, of |-> offences]
      rotated == rotate_session(noted, n)
  IN  /\ n <= MaxBlocks
      /\ author \in chain.Validators
      /\ \E v \in PayoutChoices(rotated.w.st) : staking' = on_initialize(rotated.w.st, v)
      /\ relay' = rotated.w.rm
      /\ offences' = rotated.w.of
      /\ chain' = rotated.chain
-----------------------------------------------------------------------------
(* Calls on candidates.  A call that fails changes nothing. *)

Call(name) ==
  /\ name \in Calls
  /\ chain.calls < MaxCalls
  /\ chain' = [chain EXCEPT !.calls = @ + 1]

JoinCandidate(w, stash, c, r, bond) ==
  LET tier == IF r = None THEN "Basic" ELSE "Full"
  IN  [w EXCEPT
         !.st = [@ EXCEPT !.CandidateInfo[c] = NewCandidate(w.st, stash, bond, tier),
                          !.BondedStash[stash] = c,
                          !.CandidatePool[c] = bond,
                          !.Total = @ + bond],
         !.rm = IF r = None THEN @ ELSE join_relayers(@, r, c)]

World == [st |-> staking, rm |-> relay, of |-> offences]

\* Stores what a call leaves behind.
Store(w) == staking' = w.st /\ relay' = w.rm /\ UNCHANGED offences

join_candidates(stash, c, r, bond) ==
  /\ staking.BondedStash[stash] = None
  /\ c \notin Candidates(staking)
  /\ \A i \in DOMAIN staking.DelayedControllerSets : staking.DelayedControllerSets[i].new # c
  /\ bond >= MinCandidateStk(IF r = None THEN "Basic" ELSE "Full")
  /\ r # None => verify_relayer_existence(relay, r, c)
  /\ Store(JoinCandidate(World, stash, c, r, bond))

\* CandidateMetadata::schedule_leave
schedule_leave(info) ==
  [info EXCEPT !.status = "Leaving", !.when = staking.Round.index + LeaveCandidatesDelay]

schedule_leave_candidates(c) ==
  /\ c \in Candidates(staking)
  /\ ~is_controller_set_requested(staking, c)
  /\ ~is_commission_set_requested(staking, c)
  /\ staking.CandidatePool[c] # None
  /\ ~is_leaving(staking.CandidateInfo[c])
  /\ staking' = [staking EXCEPT !.CandidatePool[c] = None,
                                !.CandidateInfo[c] = schedule_leave(@)]
  /\ UNCHANGED <<relay, offences>>

can_leave(info) == is_leaving(info) /\ staking.Round.index >= info.when

\* Every nomination goes back with the bond.
execute_leave_candidates(stash) ==
  LET c        == staking.BondedStash[stash]
      returned == MapThenSumSet(LAMBDA n : staking.NominatorState[n].nominations[c], Nominators)
  IN  /\ c # None
      /\ can_leave(staking.CandidateInfo[c])
      /\ staking' = [staking EXCEPT
            !.CandidateInfo[c] = None,
            !.BondedStash[stash] = None,
            !.NominatorState = [n \in Nominators |->
               [@[n] EXCEPT !.nominations[c] = 0, !.requests = @ \ {c}]],
            !.Total = @ - (returned + staking.CandidateInfo[c].bond)]
      /\ relay' = leave_relayers(relay, c)
      /\ UNCHANGED offences

cancel_leave_candidates(c) ==
  /\ c \in Candidates(staking)
  /\ is_leaving(staking.CandidateInfo[c])
  /\ staking' = [staking EXCEPT !.CandidateInfo[c].status = "Active",
                                !.CandidatePool[c] = staking.CandidateInfo[c].voting_power]
  /\ UNCHANGED <<relay, offences>>

add_to_controller_sets(st, stash, old, new) ==
  [st EXCEPT !.DelayedControllerSets = Append(@, [stash |-> stash, old |-> old, new |-> new])]

remove_controller_set(st, who) ==
  [st EXCEPT !.DelayedControllerSets = SelectSeq(@, LAMBDA s : s.old # who)]

set_controller(stash, new) ==
  LET old == staking.BondedStash[stash]
  IN  /\ old # None
      /\ new # old
      /\ new \notin Candidates(staking)
      /\ ~is_leaving(staking.CandidateInfo[old])
      /\ \A i \in DOMAIN staking.DelayedControllerSets :
            staking.DelayedControllerSets[i].old # old /\ staking.DelayedControllerSets[i].new # new
      /\ staking' = add_to_controller_sets(staking, stash, old, new)
      /\ UNCHANGED <<relay, offences>>

cancel_controller_set(c) ==
  /\ c \in Candidates(staking)
  /\ is_controller_set_requested(staking, c)
  /\ staking' = remove_controller_set(staking, c)
  /\ UNCHANGED <<relay, offences>>

add_to_commission_sets(st, c, new) ==
  [st EXCEPT !.DelayedCommissionSets = Append(@, [who |-> c, new |-> new])]

set_validator_commission(c, new) ==
  /\ c \in Candidates(staking)
  /\ staking.CandidateInfo[c].commission # new
  /\ new <= staking.MaxCommission[staking.CandidateInfo[c].tier]
  /\ ~is_commission_set_requested(staking, c)
  /\ ~is_leaving(staking.CandidateInfo[c])
  /\ staking' = add_to_commission_sets(staking, c, new)
  /\ UNCHANGED <<relay, offences>>

WithoutCommissionSet(st, c) ==
  [st EXCEPT !.DelayedCommissionSets = SelectSeq(@, LAMBDA s : s.who # c)]

cancel_validator_commission_set(c) ==
  /\ c \in Candidates(staking)
  /\ is_commission_set_requested(staking, c)
  /\ staking' = WithoutCommissionSet(staking, c)
  /\ UNCHANGED <<relay, offences>>

\* CandidateMetadata::reset_commission
reset_commission(st, c, tier) ==
  [WithoutCommissionSet(st, c) EXCEPT !.CandidateInfo[c].commission = st.DefaultCommission[tier]]

\* The seats of the round are left as they are.
set_validator_tier(stash, more, r) ==
  LET c      == staking.BondedStash[stash]
      tier   == IF r = None THEN "Basic" ELSE "Full"
      bonded == bond_more(staking, c, more)
      tiered == reset_commission([bonded EXCEPT !.CandidateInfo[c].tier = tier], c, tier)
  IN  /\ c # None
      /\ staking.CandidateInfo[c].tier # tier
      /\ staking.CandidateInfo[c].bond + more >= MinCandidateStk(tier)
      /\ r # None => verify_relayer_existence(relay, r, c)
      /\ staking' = update_active(tiered, c, tiered.CandidateInfo[c].voting_power)
      /\ relay' = IF r = None THEN leave_relayers(relay, c) ELSE join_relayers(relay, r, c)
      /\ UNCHANGED offences

set_candidate_reward_dst(c, new) ==
  /\ c \in Candidates(staking)
  /\ staking.CandidateInfo[c].reward_dst # new
  /\ staking' = [staking EXCEPT !.CandidateInfo[c].reward_dst = new]
  /\ UNCHANGED <<relay, offences>>

set_nominator_reward_dst(n, new) ==
  /\ \E c \in Controllers : staking.NominatorState[n].nominations[c] > 0
  /\ staking.NominatorState[n].reward_dst # new
  /\ staking' = [staking EXCEPT !.NominatorState[n].reward_dst = new]
  /\ UNCHANGED <<relay, offences>>

\* Mutant: the selection is only cached, and stays as it was.
OfflineKeepsSeat(c) ==
  /\ c \in Candidates(staking)
  /\ staking.CandidateInfo[c].status = "Active"
  /\ staking.CandidatePool[c] # None
  /\ staking' = [refresh_cached_selected_candidates(staking, staking.Round.index,
                                                    staking.SelectedCandidates \ {c})
                   EXCEPT !.CandidatePool[c] = None,
                          !.CandidateInfo[c].status = "Idle",
                          !.CandidateInfo[c].is_selected = FALSE]
  /\ relay' = kickout_relayer(relay, c)
  /\ UNCHANGED offences

\* The majority is computed before the selection is stored.
go_offline(c) ==
  LET full     == staking.CandidateInfo[c].tier = "Full"
      left     == staking.SelectedCandidates \ {c}
      majority == compute_majority(staking.SelectedCandidates)
      cached   == refresh_cached_selected_candidates(staking, staking.Round.index, left)
  IN  /\ c \in Candidates(staking)
      /\ staking.CandidateInfo[c].status = "Active"
      /\ staking.CandidatePool[c] # None
      /\ staking' = [cached EXCEPT
            !.CandidatePool[c] = None,
            !.Majority = majority,
            !.CachedMajority = Insert(@, staking.Round.index, majority),
            !.SelectedFullCandidates = IF full THEN @ \ {c} ELSE @,
            !.SelectedBasicCandidates = IF full THEN @ ELSE @ \ {c},
            !.CandidateInfo[c].status = "Idle",
            !.CandidateInfo[c].is_selected = FALSE,
            !.SelectedCandidates = left]
      /\ relay' = IF full THEN kickout_relayer(relay, c) ELSE relay
      /\ UNCHANGED offences

go_online(c) ==
  /\ c \in Candidates(staking)
  /\ staking.CandidateInfo[c].status \notin {"Active", "Leaving"}
  /\ staking' = [staking EXCEPT !.CandidateInfo[c].status = "Active",
                                !.CandidatePool[c] = staking.CandidateInfo[c].voting_power]
  /\ UNCHANGED <<relay, offences>>
-----------------------------------------------------------------------------
(* Calls on the configuration, from root or from the governance. *)

OnlyStaking(st) == staking' = st /\ UNCHANGED <<relay, offences>>

set_staking_expectations(expect) ==
  /\ is_valid(expect)
  /\ staking.InflationConfig.expect # expect
  /\ OnlyStaking([staking EXCEPT !.InflationConfig.expect = expect])

set_inflation(schedule) ==
  /\ is_valid(schedule)
  /\ schedule.min >= from_percent(1)
  /\ staking.InflationConfig.annual # schedule
  /\ OnlyStaking([staking EXCEPT !.InflationConfig = WithRound(@, schedule, staking.Round.length)])

set_max_full_selected(new) ==
  /\ new >= 1
  /\ staking.MaxFullSelected # new
  /\ new <= staking.Round.length
  /\ OnlyStaking([staking EXCEPT !.MaxFullSelected = new])

set_max_basic_selected(new) ==
  /\ new >= 1
  /\ staking.MaxBasicSelected # new
  /\ new <= staking.Round.length
  /\ OnlyStaking([staking EXCEPT !.MaxBasicSelected = new])

Tiers(tier) == IF tier = "All" THEN {"Full", "Basic"} ELSE {tier}

WithTiers(rates, tier, new) == [t \in DOMAIN rates |-> IF t \in Tiers(tier) THEN new ELSE rates[t]]

set_default_validator_commission(new, tier) ==
  /\ \A t \in Tiers(tier) : staking.DefaultCommission[t] # new /\ new <= staking.MaxCommission[t]
  /\ OnlyStaking([staking EXCEPT !.DefaultCommission = WithTiers(@, tier, new)])

\* Neither the defaults nor the rates in use are compared with the new maximum.
set_max_validator_commission(new, tier) ==
  /\ \A t \in Tiers(tier) : staking.MaxCommission[t] # new
  /\ OnlyStaking([staking EXCEPT !.MaxCommission = WithTiers(@, tier, new)])

\* The round that runs gets the new length; MaxTotalSelected is the sum of both limits.
set_blocks_per_round(new) ==
  /\ new >= MinBlocksPerRound
  /\ new <= MaxBlocksPerRound
  /\ staking.Round.length # new
  /\ chain.block - staking.Round.first < new
  /\ new >= staking.MaxFullSelected + staking.MaxBasicSelected
  /\ OnlyStaking([staking EXCEPT
        !.Round.length = new,
        !.InflationConfig = WithRound(@, staking.InflationConfig.annual, new)])

set_storage_cache_lifetime(new) ==
  /\ new >= 1
  /\ staking.StorageCacheLifetime # new
  /\ OnlyStaking([staking EXCEPT !.StorageCacheLifetime = new])

\* An offence of another kind against a validator of the session (external:
\* pallet_im_online and pallet_grandpa report through the same handler).
ReportOffence(c, fraction) ==
  LET w == on_offence(World, c, chain.session, fraction)
  IN  /\ c \in chain.Validators
      /\ staking' = w.st
      /\ relay' = w.rm
      /\ offences' = w.of

\* pallet_session::set_keys (external)
SetKeys(c) ==
  /\ c \notin chain.Keys
  /\ "set_keys" \in Calls
  /\ chain.calls < MaxCalls
  /\ chain' = [chain EXCEPT !.Keys = @ \cup {c}, !.calls = @ + 1]
  /\ UNCHANGED <<staking, relay, offences>>

\* What a nominator does that ends its rewards from a candidate, or from all.
schedule_revoke_nomination(n, c) ==
  /\ staking.NominatorState[n].active
  /\ staking.NominatorState[n].nominations[c] > 0
  /\ c \notin staking.NominatorState[n].requests
  /\ OnlyStaking([staking EXCEPT !.NominatorState[n].requests = @ \cup {c}])

schedule_leave_nominators(n) ==
  /\ \E c \in Controllers : staking.NominatorState[n].nominations[c] > 0
  /\ staking.NominatorState[n].active
  /\ staking.NominatorState[n].requests = {}
  /\ OnlyStaking([staking EXCEPT !.NominatorState[n].active = FALSE])
-----------------------------------------------------------------------------
(* Genesis. *)

EmptyStaking ==
  [Round |-> [index |-> 1, first |-> 0, length |-> GenesisStorage.length],
   CandidateInfo |-> [c \in Controllers |-> None],
   BondedStash |-> [s \in Stashes |-> None],
   CandidatePool |-> [c \in Controllers |-> None],
   NominatorState |-> [n \in Nominators |->
      [nominations |-> GenesisNominations[n], requests |-> {}, active |-> TRUE,
       reward_dst |-> "Staked"]],
   SelectedCandidates |-> {}, SelectedFullCandidates |-> {}, SelectedBasicCandidates |-> {},
   CachedSelectedCandidates |-> NoCache, Majority |-> 0, CachedMajority |-> NoCache,
   StorageCacheLifetime |-> GenesisStorage.lifetime,
   MaxFullSelected |-> GenesisStorage.max_full, MaxBasicSelected |-> GenesisStorage.max_basic,
   DefaultCommission |-> GenesisStorage.commission, MaxCommission |-> GenesisStorage.max_commission,
   InflationConfig |-> WithRound([expect |-> GenesisStorage.expect, annual |-> 0, round |-> 0],
                                 GenesisStorage.annual, GenesisStorage.length),
   Total |-> 0, Staked |-> 0, AwardedTokens |-> 0,
   Points |-> [now |-> 0, prev |-> 0],
   AwardedPts |-> [now |-> NoPoints, prev |-> NoPoints],
   AtStake |-> [now |-> [c \in Controllers |-> NoSnapshot], prev |-> [c \in Controllers |-> NoSnapshot]],
   DelayedPayout |-> None, DelayedCommissionSets |-> <<>>, DelayedControllerSets |-> <<>>,
   ProductivityPerBlock |-> 0, TotalAtStake |-> None]

\* nominate, for the nominations of the genesis.
WithNominations(st, c) ==
  LET amount == MapThenSumSet(LAMBDA n : GenesisNominations[n][c], Nominators)
  IN  [st EXCEPT !.CandidateInfo[c].voting_power = @ + amount,
                 !.CandidatePool[c] = @ + amount,
                 !.Total = @ + amount]

GenesisBuild ==
  LET empty  == [st |-> EmptyStaking,
                 rm |-> EmptyRelay(GenesisStorage.lifetime, GenesisStorage.heartbeat_active,
                                   GenesisStorage.heartbeat_fraction, GenesisStorage.members,
                                   GenesisStorage.prime),
                 of |-> EmptyOffences(Controllers, GenesisStorage.expiration,
                                      GenesisStorage.max_offences, GenesisStorage.max_offences,
                                      GenesisStorage.offence_active, GenesisStorage.slash_active)]
      joined == FoldSet(LAMBDA g, w : JoinCandidate(w, g.stash, g.controller, g.relayer, g.bond),
                        empty, Genesis)
      backed == [joined EXCEPT !.st = FoldSet(LAMBDA g, s : WithNominations(s, g.controller), @, Genesis)]
      top    == compute_top_candidates(backed.st)
      chosen == update_top_candidates(backed, 1, top.full, top.basic)
  IN  [chosen EXCEPT
         !.st = [refresh_staking_majority(@, 1) EXCEPT
                   !.ProductivityPerBlock = calculate_productivity_per_block(
                      Cardinality(top.full \cup top.basic), GenesisStorage.length),
                   !.Staked = chosen.st.Total],
         !.rm = refresh_round(refresh_majority(@, 1), 1)]

GenesisControllers == {g.controller : g \in Genesis}

\* The session pallet is built first, from the accounts with session keys.
Init ==
  /\ staking = GenesisBuild.st
  /\ relay = GenesisBuild.rm
  /\ offences = GenesisBuild.of
  /\ chain = [block |-> 0, session |-> 0, calls |-> 0, Keys |-> GenesisControllers,
              ledger |-> [before |-> 0, issuance |-> None],
              Validators |-> GenesisControllers, Queued |-> GenesisControllers]
-----------------------------------------------------------------------------
CandidateCall ==
  \/ Call("join_candidates") /\ \E s \in Stashes, c \in Controllers, r \in Relayers \cup {None}, b \in Bonds :
        join_candidates(s, c, r, b)
  \/ Call("leave") /\ \E c \in Controllers : schedule_leave_candidates(c)
  \/ Call("leave") /\ \E s \in Stashes : execute_leave_candidates(s)
  \/ Call("leave") /\ \E c \in Controllers : cancel_leave_candidates(c)
  \/ Call("set_controller") /\ \E s \in Stashes, c \in Controllers : set_controller(s, c)
  \/ Call("set_controller") /\ \E c \in Controllers : cancel_controller_set(c)
  \/ Call("commission") /\ \E c \in Controllers, p \in Commissions : set_validator_commission(c, p)
  \/ Call("commission") /\ \E c \in Controllers : cancel_validator_commission_set(c)
  \/ Call("set_validator_tier") /\ \E s \in Stashes, m \in Bonds \cup {0}, r \in Relayers \cup {None} :
        set_validator_tier(s, m, r)
  \/ Call("reward_dst") /\ \E c \in Controllers : \E d \in {"Staked", "Account"} :
        set_candidate_reward_dst(c, d)
  \/ Call("go_offline") /\ \E c \in Controllers : go_offline(c)
  \/ Call("go_online") /\ \E c \in Controllers : go_online(c)

NominatorCall ==
  \/ Call("reward_dst") /\ \E n \in Nominators : \E d \in {"Staked", "Account"} :
        set_nominator_reward_dst(n, d)
  \/ Call("revoke") /\ \E n \in Nominators, c \in Controllers : schedule_revoke_nomination(n, c)
  \/ Call("revoke") /\ \E n \in Nominators : schedule_leave_nominators(n)

ConfigurationCall ==
  \/ Call("expectations") /\ \E e \in Schedules : set_staking_expectations(e)
  \/ Call("inflation") /\ \E a \in Schedules : set_inflation(a)
  \/ Call("max_selected") /\ \E m \in SelectionSizes : set_max_full_selected(m)
  \/ Call("max_selected") /\ \E m \in SelectionSizes : set_max_basic_selected(m)
  \/ Call("default_commission") /\ \E p \in Commissions, t \in {"Full", "Basic", "All"} :
        set_default_validator_commission(p, t)
  \/ Call("max_commission") /\ \E p \in Commissions, t \in {"Full", "Basic", "All"} :
        set_max_validator_commission(p, t)
  \/ Call("blocks_per_round") /\ \E l \in RoundLengths : set_blocks_per_round(l)
  \/ Call("lifetime") /\ \E l \in Lifetimes : set_storage_cache_lifetime(l)

RelayCall ==
  /\ \/ "heartbeat" \in Calls /\ UNCHANGED chain /\ \E r \in Relayers : heartbeat(r)
     \/ Call("set_relayer") /\ \E c \in Controllers, r \in Relayers : set_relayer(c, r)
     \/ Call("set_relayer") /\ \E c \in Controllers : cancel_relayer_set(c)
     \/ Call("lifetime") /\ \E l \in Lifetimes : set_relay_cache_lifetime(l)
     \/ Call("heartbeat_offence") /\ \E a \in BOOLEAN : set_heartbeat_offence_activation(a)
     \/ Call("heartbeat_offence") /\ \E p \in Fractions : set_heartbeat_slash_fraction(p)
  /\ UNCHANGED <<staking, offences>>

OffenceCall ==
  /\ \/ Call("offence_limits") /\ \E s \in 1..2 : set_offence_expiration(s)
     \/ Call("offence_limits") /\ \E m \in 1..2, t \in {"Full", "Basic", "All"} : set_max_offence_count(m, t)
     \/ Call("offence_limits") /\ \E a \in BOOLEAN : set_offence_activation(a)
     \/ Call("offence_limits") /\ \E a \in BOOLEAN : set_slash_activation(a)
  /\ UNCHANGED <<staking, relay>>

Next ==
  \/ \E c \in Controllers : block(c)
  \/ CandidateCall
  \/ NominatorCall
  \/ ConfigurationCall
  \/ RelayCall
  \/ OffenceCall
  \/ Call("report") /\ \E c \in Controllers, p \in Fractions : ReportOffence(c, p)
  \/ \E c \in Controllers : SetKeys(c)

Spec == Init /\ [][Next]_vars
-----------------------------------------------------------------------------
(* Properties. *)

Kept(old, new, now, lifetime) ==
  \A r \in DOMAIN old :
    \/ r \in DOMAIN new /\ (r < now => new[r] = old[r])
    \/ r \notin DOMAIN new /\ Cardinality(DOMAIN old) >= lifetime

\* What the caches say of a past round never changes, and a round is only forgotten
\* by a cache that is as long as its lifetime, or one short of it when relayers are
\* replaced with the change of the round.
CacheHistory ==
  [][/\ Kept(relay.CachedSelectedRelayers, relay'.CachedSelectedRelayers, relay.Round,
             relay.StorageCacheLifetime - (IF relay.DelayedRelayerSets # <<>> THEN 1 ELSE 0))
     /\ Kept(staking.CachedSelectedCandidates, staking'.CachedSelectedCandidates,
             staking.Round.index, staking.StorageCacheLifetime)]_vars

\* All payouts of a round together mint no more than its issuance, up to the
\* rounding of each payment.
IssuanceRespected ==
  staking.AwardedTokens - chain.ledger.before <=
    IF chain.ledger.issuance = None THEN 0
    ELSE chain.ledger.issuance + Cardinality(Controllers) * (1 + Cardinality(Nominators))

\* A payout is closed when all its authors are paid, or when it meets one that is no
\* candidate any more.
ClosedWhenPaid ==
  [][(staking'.DelayedPayout = None /\ Unpaid(staking') # {}) =>
       LET fresh == staking'.Round.index # staking.Round.index
           due   == IF fresh THEN staking.AwardedPts.now ELSE staking.AwardedPts.prev
       IN  \/ ~fresh /\ staking.DelayedPayout = None
           \/ \E c \in Controllers \ Candidates(staking') :
                 due[c] # None \/ (fresh /\ c \in chain.Validators)]_vars

\* Every payout is over before the next one is due.
PayoutsClosed == [][staking'.Round.index # staking.Round.index => staking.DelayedPayout = None]_vars

\* The relay manager keeps to the interface the voting pallets are verified against.
ImplementsRelayerSet == RS!RelayerSpec
-----------------------------------------------------------------------------
(* What the comments say and the code does not keep; each is a statement
   of a StakingDocs configuration. *)

\* A validator that is idle is "excused for inactivity" (ValidatorStatus): no
\* offence is added while it is offline.
IdleExcused ==
  [][\A c \in Controllers :
       (/\ c \in Candidates(staking) /\ c \in Candidates(staking)'
        /\ staking.CandidateInfo[c].status = "Idle" /\ staking'.CandidateInfo[c].status = "Idle")
       => offences'.ValidatorOffences[c].count <= offences.ValidatorOffences[c].count]_vars

\* Majority is "the majority of the current active validator set".
MajorityExact == staking.Majority = compute_majority(staking.SelectedCandidates)

\* SelectedFullCandidates is the "active full validator set": of the selected
\* candidates.
FullSeatsSelected == staking.SelectedFullCandidates \subseteq staking.SelectedCandidates

\* A payout without a snapshot is taken for a "solo validator with no nominators".
PointsHaveStake ==
  \A c \in Candidates(staking) :
    (staking.DelayedPayout # None /\ staking.AwardedPts.prev[c] \notin {None, 0}
       /\ staking.AtStake.prev[c] = NoSnapshot)
    => \A n \in Nominators : staking.NominatorState[n].nominations[c] = 0

\* A round is closed when "there were no more payouts to be made".
AuthorsPaid ==
  [][(staking.Round = staking'.Round /\ staking.DelayedPayout # None /\ staking'.DelayedPayout = None)
     => Unpaid(staking') = {}]_vars

\* StorageCacheLifetime is the "max storage lifetime for storage data to be cached".
CacheLifetimeRespected ==
  [][staking.Round # staking'.Round =>
       Cardinality(DOMAIN staking'.CachedMajority) <= staking.StorageCacheLifetime]_vars

\* The relayers selected in a round are cached for the lifetime.
CachedForLifetime ==
  [][Kept(relay.CachedSelectedRelayers, relay'.CachedSelectedRelayers,
          relay.Round, relay.StorageCacheLifetime)]_vars

\* A relayer that is "kicked out due to continuing unresponsiveness" stays so until
\* its controller is selected again.
KickedOutStays ==
  [][\A r \in Relayers :
       (/\ relay.RelayerState[r] # None /\ relay'.RelayerState[r] # None
        /\ relay.RelayerState[r].status = "KickedOut" /\ relay.Round = relay'.Round)
       => relay'.RelayerState[r].status = "KickedOut"]_vars
=============================================================================
