------------------------------ MODULE Offences ------------------------------
(***************************************************************************)
(* pallet-bfc-offences: the offences a validator has collected, when they  *)
(* expire, and when they cost the validator its seat and part of its bond. *)
(*                                                                         *)
(* The staking pallet calls the handler within its hooks, so the handler   *)
(* is an operator from the storage of the pallet to the storage it leaves  *)
(* behind; the calls of the pallet are actions on the variable offences.   *)
(* The list of single offences kept with the totals is only shown to       *)
(* clients and is left out.                                                *)
(***************************************************************************)
EXTENDS Integers, StakingRewards

VARIABLE offences        \* the storage of the pallet

NoOffence == [session |-> 0, count |-> 0, fraction |-> 0]

EmptyOffences(controllers, expiration, full_max, basic_max, active, slash) ==
  [ValidatorOffences           |-> [c \in controllers |-> NoOffence],
   OffenceExpirationInSessions |-> expiration,
   FullMaximumOffenceCount     |-> full_max,
   BasicMaximumOffenceCount    |-> basic_max,
   IsOffenceActive             |-> active,
   IsSlashActive               |-> slash]

is_offence_count_exceeds(of, count, tier) ==
  count > IF tier = "Full" THEN of.FullMaximumOffenceCount ELSE of.BasicMaximumOffenceCount

NewOffence(session, fraction) ==
  [session |-> session, count |-> 1, fraction |-> fraction]

\* ValidatorOffenceInfo::add_offence; Perbill::from_parts caps the sum.
add_offence(info, session, fraction) ==
  [session |-> session, count |-> info.count + 1, fraction |-> AtMost(info.fraction + fraction, Accuracy)]

try_slash(of, fraction, bond) == IF of.IsSlashActive THEN PerMul(fraction, bond) ELSE 0

\* The slash is computed from the fractions collected before this offence.
handle_offence(of, who, tier, session, fraction, bond) ==
  LET info == of.ValidatorOffences[who]
  IN  IF info = NoOffence
      THEN [of |-> [of EXCEPT !.ValidatorOffences[who] = NewOffence(session, fraction)],
            slashed |-> FALSE, amount |-> 0]
      ELSE IF is_offence_count_exceeds(of, info.count + 1, tier)
      THEN [of |-> [of EXCEPT !.ValidatorOffences[who] = NoOffence],
            slashed |-> TRUE, amount |-> try_slash(of, info.fraction, bond)]
      ELSE [of |-> [of EXCEPT !.ValidatorOffences[who] = add_offence(info, session, fraction)],
            slashed |-> FALSE, amount |-> 0]

try_handle_offence(of, who, tier, session, fraction, bond) ==
  IF of.IsOffenceActive THEN handle_offence(of, who, tier, session, fraction, bond)
  ELSE [of |-> of, slashed |-> FALSE, amount |-> 0]

refresh_offences(of, session) ==
  [of EXCEPT !.ValidatorOffences = [c \in DOMAIN of.ValidatorOffences |->
     IF @[c] # NoOffence /\ session - @[c].session > of.OffenceExpirationInSessions
     THEN NoOffence ELSE @[c]]]
-----------------------------------------------------------------------------
(* Calls of the pallet, all from root. *)

set_offence_expiration(new) ==
  /\ new > 0
  /\ new # offences.OffenceExpirationInSessions
  /\ offences' = [offences EXCEPT !.OffenceExpirationInSessions = new]

\* For TierType::All both counts must differ from the new one.
set_max_offence_count(new, tier) ==
  /\ new > 0
  /\ tier \in {"Full", "All"} => offences.FullMaximumOffenceCount # new
  /\ tier \in {"Basic", "All"} => offences.BasicMaximumOffenceCount # new
  /\ offences' = [offences EXCEPT
        !.FullMaximumOffenceCount  = IF tier \in {"Full", "All"} THEN new ELSE @,
        !.BasicMaximumOffenceCount = IF tier \in {"Basic", "All"} THEN new ELSE @]

set_offence_activation(is_active) ==
  /\ is_active # offences.IsOffenceActive
  /\ offences' = [offences EXCEPT !.IsOffenceActive = is_active]

set_slash_activation(is_active) ==
  /\ is_active # offences.IsSlashActive
  /\ offences' = [offences EXCEPT !.IsSlashActive = is_active]
=============================================================================
