-------------------------------- MODULE MCDEx --------------------------------
(* Instances of the distributed exchange for TLC. *)
EXTENDS DExEscrow, TLC

CONSTANTS a1, a2, a3

\* a1 is the seller, a2 and a3 come to the exchange without tokens.
MCSupply == [k \in Address \X Property |-> IF k[1] = a1 THEN 2 ELSE 0]

\* Two tokens of property 1 and one of property 2, all with a1.
MCSupplyTwoOne == [k \in Address \X Property |-> IF k[1] # a1 THEN 0 ELSE 3 - k[2]]

\* One token of each property, all with a1.
MCSupplyOne == [k \in Address \X Property |-> IF k[1] = a1 THEN 1 ELSE 0]

\* Everything an int64_t can count, so that any excess is an overflow.
MCSupplyMax == [k \in Address \X Property |-> IF k[1] = a1 THEN MaxInt ELSE 0]

MCKeyRank == [p \in Property |-> p]

MCFrozenSeller == {<<a1, 1>>}

\* A price above 2^63 is a negative int64_t.
MCEdgePrices == {-1, 0, 1}

MCBuyers == Permutations({a2, a3})
=============================================================================
