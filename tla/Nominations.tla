---------------------------- MODULE Nominations ----------------------------
(***************************************************************************)
(* The stake books of the bfc-staking pallet: who bonds how much behind    *)
(* which validator candidate.                                              *)
(*                                                                         *)
(* The same stake is written down four times: in the sorted top and bottom *)
(* nomination lists of a candidate, in the metadata a candidate caches     *)
(* about those lists, in the nominator's own state, and in the balance     *)
(* reserved on the nominator's account.  The pallet never searches all of  *)
(* them: it looks a nomination up in the top or in the bottom list by      *)
(* comparing its amount with the cached ones.                              *)
(*                                                                         *)
(* Calls are extrinsics, so one that returns an error changes nothing.     *)
(* Left out: commissions, tiers, reward destinations, the amounts awarded  *)
(* and initially nominated (of both only the candidates they are kept for),*)
(* the selection of validators, and the weight hints of the calls.         *)
(* Controllers, stashes and nominators are three disjoint sets of accounts.*)
(***************************************************************************)
EXTENDS Integers, SequencesExt, FiniteSetsExt

CONSTANTS Controllers, Stashes, Nominators, None,
          MaxTop,        \* T::MaxTopNominationsPerCandidate
          MaxBottom,     \* T::MaxBottomNominationsPerCandidate
          MinNomination, \* T::MinNomination = T::MinNominatorStk in the runtimes
          MinBond,       \* T::MinBasicCandidateStk
          MaxNominations, \* T::MaxNominationsPerNominator
          Delay,         \* the delays of leaving, bonding less and revoking
          Balance,       \* bound: account -> what it owns
          MaxRound       \* bound: the last round

ASSUME NominationsAssumption ==
  /\ {MaxTop, MaxBottom, MinNomination, MinBond, MaxNominations, Delay} \subseteq Nat \ {0}
  /\ Balance \in [Nominators \cup Stashes -> Nat]
  /\ MaxRound \in Nat
  /\ None \notin Controllers

VARIABLES
  CandidateInfo,      \* controller -> metadata, or None
  BondedStash,        \* stash -> controller, or None
  TopNominations,     \* controller -> sorted list with its total
  BottomNominations,  \* controller -> sorted list with its total
  CandidatePool,      \* controller -> voting power, or None
  NominatorState,     \* nominator -> state, or None
  DelayedControllerSets, \* controller -> the account that replaces it, or None
  Total,              \* capital locked by the pallet
  Reserved,           \* account -> balance reserved by the pallet
  Round               \* index of the current round

vars == <<CandidateInfo, BondedStash, TopNominations, BottomNominations, CandidatePool,
          NominatorState, DelayedControllerSets, Total, Reserved, Round>>

Amounts == 1..Max(Range(Balance))

saturating_sub(x, y) == IF x >= y THEN x - y ELSE 0

CanReserve(who, amount) == Reserved[who] + amount <= Balance[who]
-----------------------------------------------------------------------------
(* Nomination lists: sequences of bonds with the total they claim.         *)

EmptyList == [nominations |-> <<>>, total |-> 0]

\* A stable sort: a bond comes after the larger ones and after its equals that
\* already were before it.
sort_greatest_to_least(s) ==
  LET Before(i, j) == s[i].amount > s[j].amount \/ (s[i].amount = s[j].amount /\ i <= j)
      Position(j)  == Cardinality({i \in DOMAIN s : Before(i, j)})
  IN  [k \in DOMAIN s |-> s[CHOOSE j \in DOMAIN s : Position(j) = k]]

\* On a sorted list, the binary search puts a bond after its equals.
insert_sorted_greatest_to_least(list, bond) ==
  [nominations |-> sort_greatest_to_least(Append(list.nominations, bond)),
   total       |-> list.total + bond.amount]

Capacity(list, max) ==
  CASE Len(list.nominations) >= max -> "Full"
    [] Len(list.nominations) = 0    -> "Empty"
    [] OTHER                        -> "Partial"

lowest_nomination_amount(list) ==
  IF list.nominations = <<>> THEN 0 ELSE Last(list.nominations).amount

highest_nomination_amount(list) ==
  IF list.nominations = <<>> THEN 0 ELSE Head(list.nominations).amount

Owners(list) == {list.nominations[i].owner : i \in DOMAIN list.nominations}

BondOf(list, who) == CHOOSE bond \in ToSet(list.nominations) : bond.owner = who

\* The list without the bond of who, the total lowered by amount.
Without(list, who, amount) ==
  [nominations |-> SelectSeq(list.nominations, LAMBDA bond : bond.owner # who),
   total       |-> saturating_sub(list.total, amount)]

WithoutFirst(list) ==
  [nominations |-> Tail(list.nominations),
   total       |-> saturating_sub(list.total, Head(list.nominations).amount)]

WithoutLast(list) ==
  [nominations |-> Front(list.nominations),
   total       |-> saturating_sub(list.total, Last(list.nominations).amount)]

\* The list with the bond of who set to amount and sorted again.
Rebonded(list, who, amount, total) ==
  [nominations |-> sort_greatest_to_least(
                     [i \in DOMAIN list.nominations |->
                        IF list.nominations[i].owner = who
                        THEN [owner |-> who, amount |-> amount]
                        ELSE list.nominations[i]]),
   total       |-> total]
-----------------------------------------------------------------------------
(* A book is what the pallet stores about the nominations of a candidate.  *)

Book(c) == [info |-> CandidateInfo[c], top |-> TopNominations[c], bottom |-> BottomNominations[c]]

reset_top_data(book) ==
  [book EXCEPT !.info.lowest_top_nomination_amount = lowest_nomination_amount(book.top),
               !.info.top_capacity                 = Capacity(book.top, MaxTop),
               !.info.voting_power                 = book.info.bond + book.top.total]

reset_bottom_data(book) ==
  [book EXCEPT !.info.lowest_bottom_nomination_amount  = lowest_nomination_amount(book.bottom),
               !.info.highest_bottom_nomination_amount = highest_nomination_amount(book.bottom),
               !.info.bottom_capacity                  = Capacity(book.bottom, MaxBottom)]

add_bottom_nomination(book, bumped_from_top, bond) ==
  LET full == Len(book.bottom.nominations) = MaxBottom
      room == IF full THEN WithoutLast(book.bottom) ELSE book.bottom
      more == IF full \/ bumped_from_top THEN 0 ELSE 1
  IN  reset_bottom_data([book EXCEPT !.bottom = insert_sorted_greatest_to_least(room, bond),
                                     !.info.nomination_count = @ + more])

add_top_nomination(book, bond) ==
  LET full   == Len(book.top.nominations) = MaxTop
      room   == IF full
                THEN add_bottom_nomination([book EXCEPT !.top = WithoutLast(@)], TRUE,
                                           Last(book.top.nominations))
                ELSE book
      kicked == full /\ book.info.bottom_capacity = "Full"
  IN  reset_top_data([room EXCEPT !.top = insert_sorted_greatest_to_least(@, bond),
                                  !.info.nomination_count = IF kicked THEN @ ELSE @ + 1])

\* Mutant: an equal nomination is let in and kicks the older one.
BottomAcceptsEqual(info, amount) ==
  info.bottom_capacity = "Full" => amount >= info.lowest_bottom_nomination_amount

\* add_nomination returns an error when the bottom is full of larger nominations.
BottomAccepts(info, amount) ==
  info.bottom_capacity = "Full" => amount > info.lowest_bottom_nomination_amount

CanAddNomination(info, amount) ==
  \/ info.top_capacity # "Full"
  \/ info.lowest_top_nomination_amount < amount
  \/ BottomAccepts(info, amount)

add_nomination(book, bond) ==
  IF book.info.top_capacity = "Full" /\ book.info.lowest_top_nomination_amount >= bond.amount
  THEN add_bottom_nomination(book, FALSE, bond)
  ELSE add_top_nomination(book, bond)

\* The owners a new nomination drives out of the book, and what it takes off Total.
Kicked(book) ==
  IF Len(book.top.nominations) = MaxTop /\ Len(book.bottom.nominations) = MaxBottom
  THEN {Last(book.bottom.nominations).owner}
  ELSE {}

less_total_staked(info) ==
  IF info.top_capacity = "Full" /\ info.bottom_capacity = "Full"
  THEN info.lowest_bottom_nomination_amount
  ELSE 0

\* Where an amount is looked up: the cached amounts decide, and a tie between the
\* lowest top and the highest bottom is broken by looking into the top list first.
InTop(book, who, amount) ==
  /\ amount >= book.info.lowest_top_nomination_amount
  /\ \/ book.info.lowest_top_nomination_amount # book.info.highest_bottom_nomination_amount
     \/ who \in Owners(book.top)

RemovedFromTop(book, who, amount) == book.info.top_capacity # "Full" \/ InTop(book, who, amount)

Found(book, who, in_top) == who \in Owners(IF in_top THEN book.top ELSE book.bottom)

\* Mutant: the highest bottom nomination does not move up.
RmTopKeepsBottom(book, who) ==
  reset_top_data([book EXCEPT !.top = Without(@, who, BondOf(@, who).amount),
                              !.info.nomination_count = saturating_sub(@, 1)])

rm_top_nomination(book, who) ==
  LET left   == Without(book.top, who, BondOf(book.top, who).amount)
      bumped == Head(book.bottom.nominations)
      moved  == IF book.info.bottom_capacity = "Empty"
                THEN [book EXCEPT !.top = left]
                ELSE reset_bottom_data(
                       [book EXCEPT !.top    = insert_sorted_greatest_to_least(left, bumped),
                                    !.bottom = WithoutFirst(@)])
  IN  reset_top_data([moved EXCEPT !.info.nomination_count = saturating_sub(@, 1)])

\* Mutant: the cached amounts of the bottom list are not reset.
RmBottomKeepsCache(book, who) ==
  [book EXCEPT !.bottom = Without(@, who, BondOf(@, who).amount),
               !.info.nomination_count = saturating_sub(@, 1)]

rm_bottom_nomination(book, who) ==
  reset_bottom_data([book EXCEPT !.bottom = Without(@, who, BondOf(@, who).amount),
                                 !.info.nomination_count = saturating_sub(@, 1)])

rm_nomination_if_exists(book, who, amount) ==
  IF RemovedFromTop(book, who, amount)
  THEN rm_top_nomination(book, who)
  ELSE rm_bottom_nomination(book, who)

increase_top_nomination(book, who, more) ==
  reset_top_data([book EXCEPT !.top = Rebonded(@, who, BondOf(@, who).amount + more, @.total + more)])

increase_bottom_nomination(book, who, bond, more) ==
  LET raised  == [owner |-> who, amount |-> BondOf(book.bottom, who).amount + more]
      full    == Capacity(book.top, MaxTop) = "Full"
      left    == Without(book.bottom, who, bond)
      in_top  == bond + more > book.info.lowest_top_nomination_amount
      promote == reset_top_data(
                   [book EXCEPT
                      !.top    = insert_sorted_greatest_to_least(
                                   IF full THEN WithoutLast(@) ELSE @, raised),
                      !.bottom = IF full
                                 THEN insert_sorted_greatest_to_least(left, Last(book.top.nominations))
                                 ELSE left])
      stay    == [book EXCEPT !.bottom = Rebonded(@, who, raised.amount, @.total + more)]
  IN  reset_bottom_data(IF in_top THEN promote ELSE stay)

increase_nomination(book, who, bond, more) ==
  IF InTop(book, who, bond)
  THEN increase_top_nomination(book, who, more)
  ELSE increase_bottom_nomination(book, who, bond, more)

decrease_top_nomination(book, who, bond, less) ==
  LET lowered == [owner |-> who, amount |-> saturating_sub(BondOf(book.top, who).amount, less)]
      demoted == /\ saturating_sub(bond, less) < book.info.highest_bottom_nomination_amount
                 /\ book.info.top_capacity = "Full"
                 /\ book.info.bottom_capacity # "Empty"
      demote  == reset_bottom_data(
                   [book EXCEPT
                      !.top    = insert_sorted_greatest_to_least(
                                   Without(@, who, BondOf(@, who).amount),
                                   Head(book.bottom.nominations)),
                      !.bottom = insert_sorted_greatest_to_least(WithoutFirst(@), lowered)])
      stay    == [book EXCEPT !.top = Rebonded(@, who, lowered.amount,
                                               saturating_sub(@.total, less))]
  IN  reset_top_data(IF demoted THEN demote ELSE stay)

\* The total of the bottom list is not lowered.
decrease_bottom_nomination(book, who, less) ==
  reset_bottom_data(
    [book EXCEPT !.bottom = Rebonded(@, who, saturating_sub(BondOf(@, who).amount, less), @.total)])

decrease_nomination(book, who, bond, less) ==
  IF InTop(book, who, bond)
  THEN decrease_top_nomination(book, who, bond, less)
  ELSE decrease_bottom_nomination(book, who, less)
-----------------------------------------------------------------------------
(* Nominators.                                                             *)

NoNominations == [c \in Controllers |-> 0]
NoRequests == [c \in Controllers |-> None]

\* initial and awarded are the keys of initial_nominations and of
\* awarded_tokens_per_candidate.
NewNominator(c, amount) ==
  [nominations |-> [NoNominations EXCEPT ![c] = amount], initial |-> {c}, awarded |-> {c},
   total |-> amount, requests |-> NoRequests, revocations_count |-> 0, less_total |-> 0,
   leaving |-> None]

AddedNomination(state, c, amount) ==
  [state EXCEPT !.nominations[c] = amount, !.total = @ + amount,
                !.initial = @ \cup {c}, !.awarded = @ \cup {c}]

Nominated(state) == {c \in Controllers : state.nominations[c] > 0}

rm_nomination(state, c) ==
  IF state.nominations[c] = 0 THEN state
  ELSE [state EXCEPT !.nominations[c] = 0, !.initial = @ \ {c}, !.awarded = @ \ {c},
                     !.total = saturating_sub(@, state.nominations[c])]

remove_request(state, c) ==
  IF state.requests[c] = None THEN state
  ELSE [state EXCEPT !.requests[c] = None,
                     !.revocations_count = IF state.requests[c].action = "Revoke"
                                           THEN saturating_sub(@, 1) ELSE @,
                     !.less_total  = saturating_sub(@, state.requests[c].amount)]

\* Mutant: the pending request about c survives the kick.
KickKeepsRequest(state, c) ==
  IF Cardinality(Nominated(state)) = 1 THEN None ELSE rm_nomination(state, c)

\* Mutant: the nominator is forgotten with its other nominations.
ReturnForgets(state, c) == None

\* A nominator kicked out of the book of c; it leaves with its last nomination.
KickedState(state, c) ==
  IF Cardinality(Nominated(state)) = 1 THEN None ELSE remove_request(rm_nomination(state, c), c)

\* A nominator that gets its stake back from the leaving candidate c.
ReturnedState(state, c) ==
  LET removed == rm_nomination(state, c)
  IN  IF c \notin Nominated(state) THEN state
      ELSE IF removed.total = 0 THEN None ELSE remove_request(removed, c)

unreserve(reserved, who, amount) == [reserved EXCEPT ![who] = saturating_sub(@, amount)]

update_active(c, voting_power) ==
  IF CandidatePool[c] = None THEN CandidatePool ELSE [CandidatePool EXCEPT ![c] = voting_power]

\* Stores a book; reset_top_data has updated the pool if the voting power changed.
StoreBook(c, book) ==
  /\ CandidateInfo' = [CandidateInfo EXCEPT ![c] = book.info]
  /\ TopNominations' = [TopNominations EXCEPT ![c] = book.top]
  /\ BottomNominations' = [BottomNominations EXCEPT ![c] = book.bottom]
  /\ CandidatePool' = IF book.info.voting_power = CandidateInfo[c].voting_power
                      THEN CandidatePool ELSE update_active(c, book.info.voting_power)

nominate(n, c, amount) ==
  LET book   == Book(c)
      state  == NominatorState[n]
      joined == IF state = None THEN NewNominator(c, amount)
                ELSE AddedNomination(state, c, amount)
      kicked == Kicked(book)
  IN  /\ CanReserve(n, amount)
      /\ amount >= MinNomination
      /\ state # None => /\ state.leaving = None
                         /\ Cardinality(Nominated(state)) < MaxNominations
                         /\ c \notin Nominated(state)
      /\ CandidateInfo[c] # None
      /\ CanAddNomination(book.info, amount)
      /\ StoreBook(c, add_nomination(book, [owner |-> n, amount |-> amount]))
      /\ NominatorState' = [m \in Nominators |->
                              CASE m = n        -> joined
                                [] m \in kicked -> KickedState(NominatorState[m], c)
                                [] OTHER        -> NominatorState[m]]
      /\ Reserved' = [a \in DOMAIN Reserved |->
                        CASE a = n        -> Reserved[a] + amount
                          [] a \in kicked -> saturating_sub(Reserved[a],
                                                            Last(book.bottom.nominations).amount)
                          [] OTHER        -> Reserved[a]]
      /\ Total' = Total + (amount - less_total_staked(book.info))
      /\ UNCHANGED <<BondedStash, DelayedControllerSets, Round>>

nominator_bond_more(n, c, more) ==
  LET state == NominatorState[n]
      bond  == state.nominations[c]
      book  == Book(c)
      after == increase_nomination(book, n, bond, more)
  IN  /\ state # None
      /\ bond > 0
      /\ CandidateInfo[c] # None
      /\ CanReserve(n, more)
      /\ Found(book, n, InTop(book, n, bond))
      /\ CandidateInfo' = [CandidateInfo EXCEPT ![c] = after.info]
      /\ TopNominations' = [TopNominations EXCEPT ![c] = after.top]
      /\ BottomNominations' = [BottomNominations EXCEPT ![c] = after.bottom]
      /\ CandidatePool' = update_active(c, after.info.voting_power)
      /\ NominatorState' = [NominatorState EXCEPT ![n].nominations[c] = @ + more,
                                                  ![n].total          = @ + more]
      /\ Reserved' = [Reserved EXCEPT ![n] = @ + more]
      /\ Total' = Total + more
      /\ UNCHANGED <<BondedStash, DelayedControllerSets, Round>>

\* The one pending request of a nominator about a candidate.
Request(n, c, action, amount) ==
  /\ NominatorState[n].requests[c] = None
  /\ NominatorState' = [NominatorState EXCEPT
        ![n].requests[c] = [amount |-> amount, when |-> Round + Delay, action |-> action],
        ![n].revocations_count = IF action = "Revoke" THEN @ + 1 ELSE @,
        ![n].less_total  = @ + amount]
  /\ UNCHANGED <<CandidateInfo, BondedStash, TopNominations, BottomNominations, CandidatePool,
                 DelayedControllerSets, Total, Reserved, Round>>

schedule_revoke_nomination(n, c) ==
  /\ NominatorState[n] # None
  /\ NominatorState[n].leaving = None
  /\ c \in Nominated(NominatorState[n])
  /\ Request(n, c, "Revoke", NominatorState[n].nominations[c])

\* The code's unsigned net_total - MinNominatorStk wraps only when every nomination
\* has a pending request; the call then fails on the pending request of c.
schedule_nominator_bond_less(n, c, less) ==
  LET state == NominatorState[n]
  IN  /\ state # None
      /\ state.leaving = None
      /\ state.nominations[c] > less
      /\ state.nominations[c] - less >= MinNomination
      /\ less <= (state.total - state.less_total) - MinNomination
      /\ Request(n, c, "Decrease", less)

cancel_nomination_request(n, c) ==
  /\ NominatorState[n] # None
  /\ NominatorState[n].requests[c] # None
  /\ NominatorState' = [NominatorState EXCEPT ![n] = remove_request(@, c)]
  /\ UNCHANGED <<CandidateInfo, BondedStash, TopNominations, BottomNominations, CandidatePool,
                 DelayedControllerSets, Total, Reserved, Round>>

\* The nomination leaves in full, the request's amount is what is paid back.
ExecuteRevoke(n, c) ==
  LET state  == NominatorState[n]
      amount == state.requests[c].amount
      last   == Cardinality(Nominated(state)) = 1
      book   == Book(c)
  IN  /\ last \/ state.total - MinNomination >= amount
      /\ CandidateInfo[c] # None
      /\ Found(book, n, RemovedFromTop(book, n, amount))
      /\ StoreBook(c, rm_nomination_if_exists(book, n, amount))
      /\ NominatorState' = [NominatorState EXCEPT
            ![n] = IF last THEN None ELSE rm_nomination(remove_request(state, c), c)]
      /\ Reserved' = unreserve(Reserved, n, amount)
      /\ Total' = saturating_sub(Total, amount)

ExecuteDecrease(n, c) ==
  LET state  == NominatorState[n]
      amount == state.requests[c].amount
      book   == Book(c)
      bond   == state.nominations[c]
  IN  /\ bond > amount
      /\ state.total - amount >= MinNomination
      /\ CandidateInfo[c] # None
      /\ Found(book, n, InTop(book, n, bond))
      /\ StoreBook(c, decrease_nomination(book, n, bond, amount))
      /\ NominatorState' = [NominatorState EXCEPT
            ![n] = [remove_request(state, c) EXCEPT !.nominations[c] = @ - amount,
                                                    !.total          = @ - amount]]
      /\ Reserved' = unreserve(Reserved, n, amount)
      /\ Total' = saturating_sub(Total, amount)

execute_nomination_request(n, c) ==
  /\ NominatorState[n] # None
  /\ NominatorState[n].requests[c] # None
  /\ NominatorState[n].requests[c].when <= Round
  /\ \/ NominatorState[n].requests[c].action = "Revoke" /\ ExecuteRevoke(n, c)
     \/ NominatorState[n].requests[c].action = "Decrease" /\ ExecuteDecrease(n, c)
  /\ UNCHANGED <<BondedStash, DelayedControllerSets, Round>>

schedule_leave_nominators(n) ==
  /\ NominatorState[n] # None
  /\ NominatorState[n].leaving = None
  /\ NominatorState[n].requests = NoRequests
  /\ NominatorState' = [NominatorState EXCEPT ![n].leaving = Round + Delay]
  /\ UNCHANGED <<CandidateInfo, BondedStash, TopNominations, BottomNominations, CandidatePool,
                 DelayedControllerSets, Total, Reserved, Round>>

cancel_leave_nominators(n) ==
  /\ NominatorState[n] # None
  /\ NominatorState[n].leaving # None
  /\ NominatorState' = [NominatorState EXCEPT ![n].leaving = None]
  /\ UNCHANGED <<CandidateInfo, BondedStash, TopNominations, BottomNominations, CandidatePool,
                 DelayedControllerSets, Total, Reserved, Round>>

\* A nomination that is not found is logged as corrupted storage and skipped.
Leavable(n, c) ==
  LET amount == NominatorState[n].nominations[c]
  IN  /\ CandidateInfo[c] # None
      /\ Found(Book(c), n, RemovedFromTop(Book(c), n, amount))

execute_leave_nominators(n) ==
  LET state    == NominatorState[n]
      left     == {c \in Nominated(state) : Leavable(n, c)}
      after    == [c \in Controllers |->
                     IF c \in left THEN rm_nomination_if_exists(Book(c), n, state.nominations[c])
                     ELSE Book(c)]
      returned == MapThenSumSet(LAMBDA c : state.nominations[c], left)
  IN  /\ state # None
      /\ state.leaving # None
      /\ Round >= state.leaving
      /\ CandidateInfo' = [c \in Controllers |-> after[c].info]
      /\ TopNominations' = [c \in Controllers |-> after[c].top]
      /\ BottomNominations' = [c \in Controllers |-> after[c].bottom]
      /\ CandidatePool' = [c \in Controllers |->
            IF c \in left /\ CandidatePool[c] # None
               /\ after[c].info.voting_power # CandidateInfo[c].voting_power
            THEN after[c].info.voting_power ELSE CandidatePool[c]]
      /\ NominatorState' = [NominatorState EXCEPT ![n] = None]
      /\ Reserved' = unreserve(Reserved, n, returned)
      /\ Total' = saturating_sub(Total, returned)
      /\ UNCHANGED <<BondedStash, DelayedControllerSets, Round>>
-----------------------------------------------------------------------------
(* Candidates.                                                             *)

NewCandidate(stash, bond) ==
  [stash |-> stash, bond |-> bond, nomination_count |-> 0, voting_power |-> bond,
   lowest_top_nomination_amount |-> 0, highest_bottom_nomination_amount |-> 0,
   lowest_bottom_nomination_amount |-> 0, top_capacity |-> "Empty",
   bottom_capacity |-> "Empty", request |-> None, status |-> "Active", leaving |-> None]

nominationVars == <<TopNominations, BottomNominations, NominatorState>>

join_candidates(stash, c, bond) ==
  /\ BondedStash[stash] = None
  /\ CandidateInfo[c] = None
  /\ \A old \in Controllers : DelayedControllerSets[old] # c
  /\ CanReserve(stash, bond)
  /\ bond >= MinBond
  /\ CandidateInfo' = [CandidateInfo EXCEPT ![c] = NewCandidate(stash, bond)]
  /\ BondedStash' = [BondedStash EXCEPT ![stash] = c]
  /\ TopNominations' = [TopNominations EXCEPT ![c] = EmptyList]
  /\ BottomNominations' = [BottomNominations EXCEPT ![c] = EmptyList]
  /\ CandidatePool' = [CandidatePool EXCEPT ![c] = bond]
  /\ Total' = Total + bond
  /\ Reserved' = [Reserved EXCEPT ![stash] = @ + bond]
  /\ UNCHANGED <<NominatorState, DelayedControllerSets, Round>>

\* Only a candidate in the pool can leave: not an idle or kicked out one.
schedule_leave_candidates(c) ==
  /\ CandidateInfo[c] # None
  /\ DelayedControllerSets[c] = None
  /\ CandidatePool[c] # None
  /\ CandidateInfo[c].status # "Leaving"
  /\ CandidateInfo[c].request = None
  /\ CandidatePool' = [CandidatePool EXCEPT ![c] = None]
  /\ CandidateInfo' = [CandidateInfo EXCEPT ![c].status = "Leaving", ![c].leaving = Round + Delay]
  /\ UNCHANGED <<BondedStash, nominationVars, DelayedControllerSets, Total, Reserved, Round>>

cancel_leave_candidates(c) ==
  /\ CandidateInfo[c] # None
  /\ CandidateInfo[c].status = "Leaving"
  /\ CandidateInfo' = [CandidateInfo EXCEPT ![c].status = "Active", ![c].leaving = None]
  /\ CandidatePool' = [CandidatePool EXCEPT ![c] = CandidateInfo[c].voting_power]
  /\ UNCHANGED <<BondedStash, nominationVars, DelayedControllerSets, Total, Reserved, Round>>

\* Every nominator gets its stake back; Total falls by what the lists claim to hold.
execute_leave_candidates(stash) ==
  LET c       == BondedStash[stash]
      info    == CandidateInfo[c]
      bonds   == ToSet(TopNominations[c].nominations) \cup ToSet(BottomNominations[c].nominations)
      Bond(n) == CHOOSE bond \in bonds : bond.owner = n
      owners  == {bond.owner : bond \in bonds}
  IN  /\ c # None
      /\ info # None
      /\ info.status = "Leaving"
      /\ Round >= info.leaving
      /\ NominatorState' = [n \in Nominators |->
            IF n \in owners THEN ReturnedState(NominatorState[n], c) ELSE NominatorState[n]]
      /\ Reserved' = [a \in DOMAIN Reserved |->
            CASE a = stash     -> saturating_sub(Reserved[a], info.bond)
              [] a \in owners  -> saturating_sub(Reserved[a], Bond(a).amount)
              [] OTHER         -> Reserved[a]]
      /\ Total' = saturating_sub(Total, info.bond + TopNominations[c].total
                                                  + BottomNominations[c].total)
      /\ CandidateInfo' = [CandidateInfo EXCEPT ![c] = None]
      /\ BondedStash' = [BondedStash EXCEPT ![stash] = None]
      /\ TopNominations' = [TopNominations EXCEPT ![c] = EmptyList]
      /\ BottomNominations' = [BottomNominations EXCEPT ![c] = EmptyList]
      /\ UNCHANGED <<CandidatePool, DelayedControllerSets, Round>>

go_offline(c) ==
  /\ CandidateInfo[c] # None
  /\ CandidateInfo[c].status = "Active"
  /\ CandidatePool[c] # None
  /\ CandidatePool' = [CandidatePool EXCEPT ![c] = None]
  /\ CandidateInfo' = [CandidateInfo EXCEPT ![c].status = "Idle"]
  /\ UNCHANGED <<BondedStash, nominationVars, DelayedControllerSets, Total, Reserved, Round>>

go_online(c) ==
  /\ CandidateInfo[c] # None
  /\ CandidateInfo[c].status \notin {"Active", "Leaving"}
  /\ CandidateInfo' = [CandidateInfo EXCEPT ![c].status = "Active"]
  /\ CandidatePool' = [CandidatePool EXCEPT ![c] = CandidateInfo[c].voting_power]
  /\ UNCHANGED <<BondedStash, nominationVars, DelayedControllerSets, Total, Reserved, Round>>

candidate_bond_more(stash, more) ==
  LET c == BondedStash[stash]
  IN  /\ c # None
      /\ CandidateInfo[c] # None
      /\ CanReserve(stash, more)
      /\ CandidateInfo' = [CandidateInfo EXCEPT ![c].bond = @ + more, ![c].voting_power = @ + more]
      /\ CandidatePool' = update_active(c, CandidateInfo'[c].voting_power)
      /\ Total' = Total + more
      /\ Reserved' = [Reserved EXCEPT ![stash] = @ + more]
      /\ UNCHANGED <<BondedStash, nominationVars, DelayedControllerSets, Round>>

schedule_candidate_bond_less(c, less) ==
  LET info == CandidateInfo[c]
  IN  /\ info # None
      /\ info.status # "Leaving"
      /\ info.request = None
      /\ info.bond > less
      /\ info.bond - less >= MinBond
      /\ CandidateInfo' = [CandidateInfo EXCEPT
                              ![c].request = [amount |-> less, when |-> Round + Delay]]
      /\ UNCHANGED <<BondedStash, nominationVars, CandidatePool, DelayedControllerSets, Total,
                     Reserved, Round>>

\* Mutant: the metadata keeps the old bond.
BondKept(info, amount) == [info EXCEPT !.request = None]

BondLowered(info, amount) ==
  [info EXCEPT !.request = None, !.bond = saturating_sub(@, amount),
               !.voting_power = saturating_sub(@, amount)]

execute_candidate_bond_less(stash) ==
  LET c      == BondedStash[stash]
      amount == CandidateInfo[c].request.amount
  IN  /\ c # None
      /\ CandidateInfo[c] # None
      /\ CandidateInfo[c].request # None
      /\ CandidateInfo[c].request.when <= Round
      /\ CandidateInfo' = [CandidateInfo EXCEPT ![c] = BondLowered(@, amount)]
      /\ CandidatePool' = update_active(c, CandidateInfo'[c].voting_power)
      /\ Total' = saturating_sub(Total, amount)
      /\ Reserved' = unreserve(Reserved, stash, amount)
      /\ UNCHANGED <<BondedStash, nominationVars, DelayedControllerSets, Round>>

cancel_candidate_bond_less(c) ==
  /\ CandidateInfo[c] # None
  /\ CandidateInfo[c].request # None
  /\ CandidateInfo' = [CandidateInfo EXCEPT ![c].request = None]
  /\ UNCHANGED <<BondedStash, nominationVars, CandidatePool, DelayedControllerSets, Total,
                 Reserved, Round>>

\* A request the slashed bond can no longer bear is cancelled.
RequestAfterSlash(request, bond) ==
  IF request # None /\ (bond <= request.amount \/ saturating_sub(bond, request.amount) < MinBond)
  THEN None ELSE request

\* An offence over the limit kicks the validator out and slashes a part of its bond.
on_offence(c, slash) ==
  LET info == CandidateInfo[c]
      bond == saturating_sub(info.bond, slash)
  IN  /\ info # None
      /\ info.status # "KickedOut"
      /\ slash <= info.bond
      /\ CandidatePool' = [CandidatePool EXCEPT ![c] = None]
      /\ CandidateInfo' = [CandidateInfo EXCEPT
            ![c].status = "KickedOut", ![c].leaving = None, ![c].bond = bond,
            ![c].voting_power = saturating_sub(@, slash),
            ![c].request = RequestAfterSlash(@, bond)]
      /\ Total' = saturating_sub(Total, slash)
      /\ Reserved' = unreserve(Reserved, info.stash, slash)
      /\ UNCHANGED <<BondedStash, nominationVars, DelayedControllerSets, Round>>

set_controller(stash, new) ==
  LET old == BondedStash[stash]
  IN  /\ old # None
      /\ CandidateInfo[old] # None
      /\ new # old
      /\ CandidateInfo[new] = None
      /\ CandidateInfo[old].status # "Leaving"
      /\ DelayedControllerSets[old] = None
      /\ \A other \in Controllers : DelayedControllerSets[other] # new
      /\ DelayedControllerSets' = [DelayedControllerSets EXCEPT ![old] = new]
      /\ UNCHANGED <<CandidateInfo, BondedStash, nominationVars, CandidatePool, Total, Reserved,
                     Round>>

cancel_controller_set(c) ==
  /\ CandidateInfo[c] # None
  /\ DelayedControllerSets[c] # None
  /\ DelayedControllerSets' = [DelayedControllerSets EXCEPT ![c] = None]
  /\ UNCHANGED <<CandidateInfo, BondedStash, nominationVars, CandidatePool, Total, Reserved, Round>>

\* The controllers the requests of the ended round rename.
Renamed == {old \in Controllers : DelayedControllerSets[old] # None /\ CandidateInfo[old] # None}

\* f with the value of every renamed controller in scope moved to its new name.
Replace(f, scope, gone) ==
  [c \in Controllers |->
     IF \E old \in scope : DelayedControllerSets[old] = c
     THEN f[CHOOSE old \in scope : DelayedControllerSets[old] = c]
     ELSE IF c \in scope THEN gone ELSE f[c]]

\* The awarded amounts stay under the old name.
replace_nominator_nominations(n) ==
  LET state == NominatorState[n]
      scope == {old \in Renamed : n \in Owners(TopNominations[old]) \cup Owners(BottomNominations[old])}
  IN  IF state = None THEN None
      ELSE [state EXCEPT !.nominations = Replace(@, scope, 0), !.requests = Replace(@, scope, None),
                         !.initial = (@ \ scope) \cup {DelayedControllerSets[c] : c \in scope \cap @}]

new_round ==
  /\ Round < MaxRound
  /\ Round' = Round + 1
  /\ CandidateInfo' = Replace(CandidateInfo, Renamed, None)
  /\ BondedStash' = [s \in Stashes |-> IF BondedStash[s] \in Renamed
                                       THEN DelayedControllerSets[BondedStash[s]] ELSE BondedStash[s]]
  /\ CandidatePool' = Replace(CandidatePool, Renamed, None)
  /\ TopNominations' = Replace(TopNominations, Renamed, EmptyList)
  /\ BottomNominations' = Replace(BottomNominations, Renamed, EmptyList)
  /\ NominatorState' = [n \in Nominators |-> replace_nominator_nominations(n)]
  /\ DelayedControllerSets' = NoRequests
  /\ UNCHANGED <<Total, Reserved>>
-----------------------------------------------------------------------------
Init ==
  /\ CandidateInfo = [c \in Controllers |-> None]
  /\ BondedStash = [s \in Stashes |-> None]
  /\ TopNominations = [c \in Controllers |-> EmptyList]
  /\ BottomNominations = [c \in Controllers |-> EmptyList]
  /\ CandidatePool = [c \in Controllers |-> None]
  /\ NominatorState = [n \in Nominators |-> None]
  /\ DelayedControllerSets = [c \in Controllers |-> None]
  /\ Total = 0
  /\ Reserved = [a \in Nominators \cup Stashes |-> 0]
  /\ Round = 1

NominatorNext ==
  \E n \in Nominators :
    \/ schedule_leave_nominators(n)
    \/ cancel_leave_nominators(n)
    \/ execute_leave_nominators(n)
    \/ \E c \in Controllers :
         \/ schedule_revoke_nomination(n, c)
         \/ cancel_nomination_request(n, c)
         \/ execute_nomination_request(n, c)
         \/ \E amount \in Amounts : \/ nominate(n, c, amount)
                                    \/ nominator_bond_more(n, c, amount)
                                    \/ schedule_nominator_bond_less(n, c, amount)

StashNext ==
  \E s \in Stashes :
    \/ execute_leave_candidates(s)
    \/ execute_candidate_bond_less(s)
    \/ \E amount \in Amounts : candidate_bond_more(s, amount)
    \/ \E c \in Controllers : \/ set_controller(s, c)
                             \/ \E amount \in Amounts : join_candidates(s, c, amount)

ControllerNext ==
  \E c \in Controllers :
    \/ schedule_leave_candidates(c)
    \/ cancel_leave_candidates(c)
    \/ go_offline(c)
    \/ go_online(c)
    \/ cancel_candidate_bond_less(c)
    \/ cancel_controller_set(c)
    \/ \E amount \in Amounts : schedule_candidate_bond_less(c, amount)
    \/ \E amount \in {0} \cup Amounts : on_offence(c, amount)

Next == NominatorNext \/ StashNext \/ ControllerNext \/ new_round

Spec == Init /\ [][Next]_vars
-----------------------------------------------------------------------------
(* Properties.                                                             *)

Requests == [amount : Amounts, when : Nat, action : {"Revoke", "Decrease"}]

\* The stored values have the shapes the pallet's storage items declare.
TypeOK ==
  /\ \A c \in Controllers :
       /\ CandidatePool[c] \in Nat \cup {None}
       /\ DelayedControllerSets[c] \in Controllers \cup {None}
       /\ CandidateInfo[c] # None =>
            /\ CandidateInfo[c].stash \in Stashes
            /\ CandidateInfo[c].status \in {"Active", "Idle", "KickedOut", "Leaving"}
            /\ CandidateInfo[c].bond \in Nat
            /\ BondedStash[CandidateInfo[c].stash] = c
       /\ CandidatePool[c] # None <=> CandidateInfo[c] # None /\ CandidateInfo[c].status = "Active"
  /\ \A n \in Nominators : NominatorState[n] # None =>
       /\ NominatorState[n].nominations \in [Controllers -> Nat]
       /\ NominatorState[n].requests \in [Controllers -> Requests \cup {None}]
       /\ NominatorState[n].leaving \in Nat \cup {None}
  /\ Reserved \in [Nominators \cup Stashes -> Nat]
  /\ Total \in Nat
  /\ Round \in 1..MaxRound

Sorted(list) ==
  \A i, j \in DOMAIN list.nominations :
    i < j => list.nominations[i].amount >= list.nominations[j].amount

SumOf(list) == FoldSeq(LAMBDA bond, sum : bond.amount + sum, 0, list.nominations)

\* After any mix of nominations, raises, cuts, kicks and removals the two lists of a
\* candidate are one ranking: both are sorted and within their limits, the bottom is
\* used only while the top is full, and no bottom nomination exceeds a top one.  The
\* code relies on it when it pops the last and removes the first element.
OneRanking ==
  \A c \in Controllers :
    LET top == TopNominations[c]  bottom == BottomNominations[c] IN
      /\ Sorted(top) /\ Sorted(bottom)
      /\ Len(top.nominations) <= MaxTop /\ Len(bottom.nominations) <= MaxBottom
      /\ bottom.nominations # <<>> =>
           /\ Len(top.nominations) = MaxTop
           /\ lowest_nomination_amount(top) >= highest_nomination_amount(bottom)

\* The metadata a candidate caches is what its lists say, so that lookups by amount
\* and the selection of validators read current values: amounts, capacities, count and
\* the voting power, which is the bond and the top nominations, also in the pool.  A
\* leaving nominator is then looked up in the list that has it: the branch that logs
\* corrupted storage and goes on is never taken.
MetadataCurrent ==
  \A c \in Controllers : CandidateInfo[c] # None =>
    LET info == CandidateInfo[c]  top == TopNominations[c]  bottom == BottomNominations[c] IN
      /\ info.lowest_top_nomination_amount = lowest_nomination_amount(top)
      /\ info.lowest_bottom_nomination_amount = lowest_nomination_amount(bottom)
      /\ info.highest_bottom_nomination_amount = highest_nomination_amount(bottom)
      /\ info.top_capacity = Capacity(top, MaxTop)
      /\ info.bottom_capacity = Capacity(bottom, MaxBottom)
      /\ info.nomination_count = Len(top.nominations) + Len(bottom.nominations)
      /\ info.voting_power = info.bond + SumOf(top)
      /\ CandidatePool[c] \in {None, info.voting_power}
      /\ \A n \in Owners(top) \cup Owners(bottom) : Leavable(n, c)

\* A pending request is about an existing nomination, of an amount that nomination still
\* covers, and less_total and revocations_count sum them up: kicks, leaving candidates and
\* renamed controllers drop or move the requests with the nominations.
RequestsBacked ==
  \A n \in Nominators : NominatorState[n] # None =>
    LET state   == NominatorState[n]
        pending == {c \in Controllers : state.requests[c] # None}
    IN  /\ \A c \in pending :
             LET request == state.requests[c]
             IN  /\ request.amount <= state.nominations[c]
                 /\ request.action = "Decrease" =>
                      state.nominations[c] - request.amount >= MinNomination
        /\ state.less_total = MapThenSumSet(LAMBDA c : state.requests[c].amount, pending)
        /\ state.revocations_count =
             Cardinality({c \in pending : state.requests[c].action = "Revoke"})
        /\ state.leaving # None => pending = {}

\* What the pallet counts as staked is reserved on the account it belongs to: a stash has
\* exactly its bond reserved, a nominator at least its total.
StakeReserved ==
  /\ \A n \in Nominators : NominatorState[n] # None => Reserved[n] >= NominatorState[n].total
  /\ \A s \in Stashes :
       Reserved[s] = IF BondedStash[s] = None THEN 0 ELSE CandidateInfo[BondedStash[s]].bond

Holds(n, c) == NominatorState[n] # None /\ NominatorState[n].nominations[c] > 0

\* First come, first served: a nominator that loses its nomination in the step in which
\* another one enters the same book is outbid, never matched.
OutbidOnly ==
  [][\A c \in Controllers, loser, winner \in Nominators :
       /\ CandidateInfo[c] # None
       /\ Round' = Round
       /\ Holds(loser, c) /\ ~Holds(loser, c)'
       /\ ~Holds(winner, c) /\ Holds(winner, c)'
       => NominatorState'[winner].nominations[c] > NominatorState[loser].nominations[c]]_vars

\* "Total balance locked for this nominator": what is reserved is what is nominated.
ReservedExact ==
  \A n \in Nominators :
    Reserved[n] = IF NominatorState[n] = None THEN 0 ELSE NominatorState[n].total

\* "Total capital locked by this staking pallet".
TotalLocked == Total = MapThenSumSet(LAMBDA a : Reserved[a], DOMAIN Reserved)

\* "The total nomination of top or bottom".
BottomTotalExact == \A c \in Controllers : BottomNominations[c].total = SumOf(BottomNominations[c])
=============================================================================
