-------------------------- MODULE NominationViews --------------------------
(***************************************************************************)
(* What the staking precompile tells a contract about nominations: the     *)
(* view methods over the books of Nominations.                             *)
(*                                                                         *)
(* A vector that is filled from a map keyed by accounts comes in the order *)
(* of the keys.  It is modelled as a function of the keys: two vectors of  *)
(* one answer describe the same accounts, index by index, exactly when     *)
(* they have the same keys.  Amounts awarded and initially nominated are   *)
(* left out, their keys are not.                                           *)
(***************************************************************************)
EXTENDS Nominations

\* A map without its absent entries.
Present(f, absent) == [c \in {d \in DOMAIN f : f[d] # absent} |-> f[c]]

is_nominator(n) == NominatorState[n] # None

\* NominatorState::set_state and from_owner; an account without a state gets zeros.
set_state(state) ==
  [total        |-> state.total,
   status       |-> IF state.leaving = None THEN 1 ELSE state.leaving,
   request_revocations_count |-> state.revocations_count,
   request_less_total        |-> state.less_total,
   nominations  |-> Present(state.nominations, 0),
   initial_nominations          |-> state.initial,
   awarded_tokens_per_candidate |-> state.awarded]

DefaultNominator ==
  [total |-> 0, status |-> 0, request_revocations_count |-> 0, request_less_total |-> 0,
   nominations |-> <<>>, initial_nominations |-> {}, awarded_tokens_per_candidate |-> {}]

nominator_state(n) == IF is_nominator(n) THEN set_state(NominatorState[n]) ELSE DefaultNominator

nominator_nomination_count(n) ==
  IF is_nominator(n) THEN Cardinality(Nominated(NominatorState[n])) ELSE 0

\* The actions are 1 for a revocation and 2 for a decrease.
nominator_requests(n) ==
  IF ~is_nominator(n) THEN [revocations_count |-> 0, less_total |-> 0, requests |-> <<>>]
  ELSE LET pending == Present(NominatorState[n].requests, None)
       IN  [revocations_count |-> NominatorState[n].revocations_count,
            less_total        |-> NominatorState[n].less_total,
            requests |-> [c \in DOMAIN pending |->
                            [pending[c] EXCEPT !.action = IF @ = "Revoke" THEN 1 ELSE 2]]]

candidate_top_nominations(c) == TopNominations[c]

candidate_bottom_nominations(c) == BottomNominations[c]

candidate_nomination_count(c) == IF CandidateInfo[c] = None THEN 0 ELSE CandidateInfo[c].nomination_count

candidate_request(c) ==
  IF CandidateInfo[c] = None \/ CandidateInfo[c].request = None THEN [amount |-> 0, when |-> 0]
  ELSE CandidateInfo[c].request

\* get_sorted_candidates; candidates of equal voting power come in the order they joined.
candidate_pool == Present(CandidatePool, None)
-----------------------------------------------------------------------------
Entries(list, n) == SelectSeq(list.nominations, LAMBDA bond : bond.owner = n)

\* What a contract reads about one nomination does not depend on whom it asks: the
\* nominator's answer lists a candidate with an amount exactly if one of the two
\* answers about the candidate has that nominator, once, with that amount; the counts and
\* totals are those of the lists, the initial amounts come under the same indexes as the
\* current ones, and a pending request names a listed candidate.
ViewsAgree ==
  /\ \A n \in Nominators :
       LET view == nominator_state(n)
           nominated == DOMAIN view.nominations
       IN  /\ \A c \in Controllers :
                Entries(candidate_top_nominations(c), n) \o Entries(candidate_bottom_nominations(c), n) =
                  IF c \in nominated THEN <<[owner |-> n, amount |-> view.nominations[c]]>> ELSE <<>>
           /\ view.initial_nominations = nominated
           /\ nominator_nomination_count(n) = Cardinality(nominated)
           /\ is_nominator(n) <=> nominated # {}
           /\ view.total = MapThenSumSet(LAMBDA c : view.nominations[c], nominated)
           /\ DOMAIN nominator_requests(n).requests \subseteq nominated
  /\ \A c \in Controllers :
       /\ candidate_nomination_count(c) =
            Cardinality({n \in Nominators : c \in DOMAIN nominator_state(n).nominations})
       /\ c \in DOMAIN candidate_pool => CandidateInfo[c] # None
       /\ candidate_request(c).amount > 0 => CandidateInfo[c].bond > candidate_request(c).amount

\* "The amount of awarded tokens to this nominator per candidate" (NominatorState): one for
\* each nominated candidate.
AwardedAligned ==
  \A n \in Nominators :
    nominator_state(n).awarded_tokens_per_candidate = DOMAIN nominator_state(n).nominations
=============================================================================
