--------------------------- MODULE StakingRewards ---------------------------
(***************************************************************************)
(* The arithmetic of the staking rewards: the parts-per-billion type, the  *)
(* inflation schedule, the issuance of a round, and how the reward of one  *)
(* validator is split between the validator and its nominators.            *)
(***************************************************************************)
EXTENDS Integers, FiniteSetsExt

CONSTANTS Accuracy,      \* Perbill::ACCURACY
          BlocksPerYear  \* BLOCKS_PER_YEAR

ASSUME RewardsAssumption == Accuracy \in Nat \ {0} /\ BlocksPerYear \in Nat \ {0}

AtMost(x, y) == IF x <= y THEN x ELSE y

\* Perbill * n rounds to the nearest, a tie downwards.
PerMul(p, n) == (2 * p * n + Accuracy - 1) \div (2 * Accuracy)

\* Perbill::from_rational rounds downwards and is at most one.
from_rational(p, q) ==
  LET whole == IF q = 0 THEN 1 ELSE q
  IN  (AtMost(p, whole) * Accuracy) \div whole

from_percent(x) == (AtMost(x, 100) * Accuracy) \div 100
-----------------------------------------------------------------------------
(* Inflation. *)

is_valid(range) == range.max >= range.ideal /\ range.ideal >= range.min

\* (1 + annual)^(1 / periods) - 1 in parts, rounded up; the code computes the
\* root in fixed point.
AnnualToRound(annual, periods) ==
  CHOOSE p \in 0..annual :
    /\ (Accuracy + p)^periods >= (Accuracy + annual) * Accuracy^(periods - 1)
    /\ \A q \in 0..(p - 1) : (Accuracy + q)^periods < (Accuracy + annual) * Accuracy^(periods - 1)

perbill_annual_to_perbill_round(annual, periods) ==
  [min   |-> AnnualToRound(annual.min, periods),
   ideal |-> AnnualToRound(annual.ideal, periods),
   max   |-> AnnualToRound(annual.max, periods)]

\* InflationInfo::set_round_from_annual, and reset_round for another length.
WithRound(config, annual, round_length) ==
  [config EXCEPT !.annual = annual,
                 !.round  = perbill_annual_to_perbill_round(annual, BlocksPerYear \div round_length)]

compute_issuance(config, staked) ==
  PerMul(IF staked <= config.expect.min THEN config.round.max
         ELSE IF staked >= config.expect.max THEN config.round.min
         ELSE config.round.ideal, staked)
-----------------------------------------------------------------------------
(* One payout. *)

\* The part of the issuance of a round that pts of total_points points earn.
Contribution(pts, total_points, issuance) ==
  PerMul(from_rational(pts, total_points), issuance)

\* Mutant: the commission is taken from the issuance of the whole round.
CommissionOfRound(rate, pts, total_points, issuance) == PerMul(rate, issuance)

Commission(rate, pts, total_points, issuance) ==
  PerMul(from_rational(pts, total_points), PerMul(rate, issuance))

\* snapshot = [bond, total, nominations]; nominations gives 0 to a nominator of others.
ValidatorReward(rate, pts, total_points, issuance, snapshot) ==
  LET total == Contribution(pts, total_points, issuance)
      fee   == Commission(rate, pts, total_points, issuance)
  IN  IF \A n \in DOMAIN snapshot.nominations : snapshot.nominations[n] = 0 THEN total
      ELSE PerMul(from_rational(snapshot.bond, snapshot.total), total - fee) + fee

NominatorReward(rate, pts, total_points, issuance, snapshot, n) ==
  IF snapshot.nominations[n] = 0 THEN 0
  ELSE PerMul(from_rational(snapshot.nominations[n], snapshot.total),
              Contribution(pts, total_points, issuance) - Commission(rate, pts, total_points, issuance))
=============================================================================
