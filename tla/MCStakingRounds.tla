--------------------------- MODULE MCStakingRounds ---------------------------
(* Instances of StakingRounds for TLC: accounts are numbers, tokens are few. *)
EXTENDS StakingViews

Bonded(c) == [stash |-> 20 + c, controller |-> c, relayer |-> 10 + c, bond |-> 1000 + 50 * c]

Two == {Bonded(1), Bonded(2)}

Range3(min, ideal, max) == [min |-> min, ideal |-> ideal, max |-> max]

\* The nominator 31 backs the first candidate only.
OneNomination == [n \in Nominators |-> [c \in Controllers |-> IF c = 1 THEN 500 ELSE 0]]

Storage == [length |-> 2, lifetime |-> 2, max_full |-> 2, max_basic |-> 1,
            commission |-> [Full |-> 30, Basic |-> 10],
            max_commission |-> [Full |-> 100, Basic |-> 20],
            expect |-> Range3(1000, 2000, 3000), annual |-> Range3(7, 13, 15),
            heartbeat_active |-> TRUE, heartbeat_fraction |-> 40, members |-> {11}, prime |-> 11,
            expiration |-> 2, max_offences |-> 1, offence_active |-> TRUE, slash_active |-> TRUE]

\* Missing heartbeats are not reported, as in the mainnet.
Quiet == [Storage EXCEPT !.heartbeat_active = FALSE]

ThreeBlockRounds == [Quiet EXCEPT !.length = 3]

\* Longer rounds, with the reports of missing heartbeats.
OneBlockSpan == [Storage EXCEPT !.length = 4]

SomeSchedules == {Range3(7, 13, 15), Range3(1, 5, 20)}
=============================================================================
