---------------------------- MODULE SendToOwners ----------------------------
(***************************************************************************)
(* STO_GetReceivers (src/omnicore/sto.cpp): how an amount is split among   *)
(* the owners of a property, used by Send To Owners transactions and by    *)
(* the distribution of cached fees.                                        *)
(***************************************************************************)
EXTENDS Tally, SequencesExt

CONSTANT AddressRank  \* [Address -> Nat], the order of the address strings

ASSUME AddressRankAssumption ==
    AddressRank \in [Address -> Nat] /\ IsInjective(AddressRank)

\* The tallies an address owns tokens in.
OwnedTypes == {"BALANCE", "SELLOFFER_RESERVE", "ACCEPT_RESERVE", "METADEX_RESERVE"}

TokensOf(t, a, p) == MapThenSumSet(LAMBDA h : t[<<a, p, h>>], OwnedTypes)

\* The tokens of all addresses but the sender.
OthersTokens(t, sender, p) == MapThenSumSet(LAMBDA a : TokensOf(t, a, p), Address \ {sender})

\* SendToOwners_compare, walked backwards: the largest owners first, and among
\* equal ones the lowest address.
ServedBefore(t, p, a, b) ==
    \/ TokensOf(t, a, p) > TokensOf(t, b, p)
    \/ TokensOf(t, a, p) = TokensOf(t, b, p) /\ AddressRank[a] < AddressRank[b]

\* Variant: shares are rounded down.
Share_RoundDown(t, sender, p, amount, a) ==
    (TokensOf(t, a, p) * amount) \div OthersTokens(t, sender, p)

Share(t, sender, p, amount, a) ==
    DivideAndRoundUp(TokensOf(t, a, p) * amount, OthersTokens(t, sender, p))

\* Ensure that no more than available is distributed.
WillReallyReceive(left, share) == IF left < share THEN left ELSE share

\* Owner a is next and is due a share; got is what was given so far.
Serve(got, a, amount, share) ==
    LET n == WillReallyReceive(amount - MapThenSumSet(LAMBDA b : got[b], DOMAIN got), share)
    IN  IF n > 0 THEN got @@ (a :> n) ELSE got

\* The receivers, as a function from addresses to what they receive.  The code
\* stops at the first owner for whom nothing is left; nothing is left for the
\* owners after it either.
STO_GetReceivers(t, sender, p, amount) ==
    LET owners == SetToSortSeq({a \in Address \ {sender} : TokensOf(t, a, p) > 0},
                               LAMBDA a, b : ServedBefore(t, p, a, b))
    IN  FoldLeft(LAMBDA got, a : Serve(got, a, amount, Share(t, sender, p, amount, a)),
                 <<>>, owners)

TotalOf(receivers) == MapThenSumSet(LAMBDA a : receivers[a], DOMAIN receivers)
=============================================================================
