--------------------------- MODULE MCNominations ---------------------------
(* Small instances of Nominations. *)
EXTENDS NominationViews, TLC

CONSTANTS c1, c2, s1, s2, n1, n2, n3, n4

Deep == [a \in Nominators |-> 3] @@ [s \in Stashes |-> 2]
Wide == [a \in Nominators |-> 2] @@ [s \in Stashes |-> 1]
Uneven == [a \in Nominators |-> 2] @@ [s \in Stashes |-> IF s = s1 THEN 2 ELSE 1]

MCSymmetry == Permutations(Nominators) \cup Permutations(Controllers) \cup Permutations(Stashes)
UnevenSymmetry == Permutations(Nominators) \cup Permutations(Controllers)

\* A view: states that differ only in the keys of the awarded amounts, on which no action
\* depends, are explored once.
WithoutAwarded ==
  <<CandidateInfo, BondedStash, TopNominations, BottomNominations, CandidatePool,
    [n \in Nominators |-> IF NominatorState[n] = None THEN None
                          ELSE [NominatorState[n] EXCEPT !.awarded = {}]],
    DelayedControllerSets, Total, Reserved, Round>>

\* A state constraint: one nominator at a time has requests pending or is leaving, and
\* none while a candidate waits to bond less.
Busy(n) ==
  /\ NominatorState[n] # None
  /\ NominatorState[n].leaving # None \/ NominatorState[n].requests # NoRequests

BondingLess == {c \in Controllers : CandidateInfo[c] # None /\ CandidateInfo[c].request # None}

OnePending == Cardinality({n \in Nominators : Busy(n)} \cup BondingLess) <= 1

\* A state constraint: the second candidate stays active and under its name, and one
\* nominator at most backs it.
SecondStays ==
  BondedStash[s2] # None =>
    LET c == BondedStash[s2]
    IN  /\ CandidateInfo[c].nomination_count <= 1
        /\ CandidateInfo[c].status = "Active"
        /\ DelayedControllerSets[c] = None

\* A state constraint: candidates join and leave, but are neither offline, slashed nor
\* renamed.
JoinAndLeave ==
  \A c \in Controllers :
    /\ DelayedControllerSets[c] = None
    /\ CandidateInfo[c] # None => CandidateInfo[c].status \in {"Active", "Leaving"}
=============================================================================
