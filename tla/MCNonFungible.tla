---------------------------- MODULE MCNonFungible ----------------------------
(***************************************************************************)
(* Instances of NonFungible for TLC.                                       *)
(***************************************************************************)
EXTENDS NonFungible

CONSTANTS alice, bob, text1, text2

\* Data of holders, for a range that need not belong to one of them.
HolderRange == {<<"HolderData", 1, 2, text1>>}

\* Issuer data for every range of tokens.
IssuerRanges ==
    {<<"IssuerData", r[1], r[2], r[3]>> : r \in {r \in Token \X Token \X Data : r[1] <= r[2]}}
=============================================================================
