------------------------------ MODULE MCMetaDEx ------------------------------
(***************************************************************************)
(* Instances of MetaDEx for TLC.                                           *)
(***************************************************************************)
EXTENDS MetaDEx

CONSTANTS A, B

TwoRank == (A :> 1) @@ (B :> 2)

\* A owns the tokens of property 3 and B those of property 4.
PairSupply == [k \in Address \X Property |-> CASE k = <<A, 3>> -> 3 [] k = <<B, 4>> -> 2 [] OTHER -> 0]

\* Both have OMNI to pay and to receive fees.
FeeSupply ==
    [k \in Address \X Property |->
       CASE k = <<A, 3>> -> 4 [] k = <<B, 4>> -> 2 [] k[2] = 1 -> 1 [] OTHER -> 0]

\* A owns tokens of either ecosystem, B OMNI and TOMN.
EcosystemSupply ==
    [k \in Address \X Property |->
       CASE k \in {<<A, 3>>, <<B, 2>>} -> 2 [] k \in {<<A, 5>>, <<B, 1>>} -> 1 [] OTHER -> 0]

FrozenA == {<<A, 3>>}

UnitFees == (0 :> 1) @@ (1 :> 1)
=============================================================================
