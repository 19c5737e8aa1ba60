------------------------------- MODULE MetaDEx -------------------------------
(***************************************************************************)
(* The token exchange: an order offers tokens of one property for tokens   *)
(* of another and is matched on arrival against the orders in the book     *)
(* (src/omnicore/mdex.cpp), with the handlers of src/omnicore/tx.cpp that  *)
(* trade, cancel, send to owners and deactivate features.  Trades between  *)
(* two tokens pay a fee into the fee cache.                                *)
(*                                                                         *)
(* metadex, a map from properties to maps from prices to sets of orders    *)
(* sorted by block and position, is one sequence of orders in the order of *)
(* their arrival; unitPrice is a pair of amounts compared by cross         *)
(* multiplication.                                                         *)
(***************************************************************************)
EXTENDS FeeCache

CONSTANTS
    Amounts,       \* amounts for sale and desired
    SendAmounts,   \* amounts sent to owners
    FeeDivider,    \* 2000: the fee is 0.05% of what the buyer gets
    FeePerOwner,   \* [{0, 1} -> Nat], TRANSFER_FEE_PER_OWNER of version 0 and 1
    MaxOrders,     \* bound: orders in the book
    Supply,        \* [Address \X Property -> tokens issued at the start]
    MayFreeze,     \* the <<address, property>> pairs that are ever frozen
    InitFeatures,  \* the features that are live at the start
    MayToggle,     \* the features activated or deactivated later on
    MayRestart     \* whether the node is restarted

VARIABLES
    tally,      \* mp_tally_map
    book,       \* metadex
    cached,     \* pDbFeeCache: the cached fee of every property
    threshold,  \* distributionThresholds, 0 for a property without an entry
    features,   \* the features IsFeatureActivated answers yes for
    frozen,     \* the pairs isAddressFrozen answers yes for
    burned,     \* OMNI and TOMN destroyed by version 0 of Send To Owners
    abort       \* what stopped the process, if anything

vars == <<tally, book, cached, threshold, features, frozen, burned, abort>>

ASSUME MetaDExAssumption == /\ Amounts \subseteq Nat /\ SendAmounts \subseteq Nat
                            /\ FeeDivider \in Nat \ {0}
                            /\ FeePerOwner \in [{0, 1} -> Nat \ {0}]
                            /\ MaxOrders \in Nat
                            /\ Supply \in [Address \X Property -> 0 .. MaxInt]

\* CMPMetaDEx
Order == [addr : Address, prop : Property, forsale : 1 .. MaxInt,
          desprop : Property, desired : 1 .. MaxInt, remaining : 1 .. MaxInt]

\* The start is a chain on which the tokens have been issued; issuing sets the
\* threshold of the property, except for TOMN.
IssuedTokens(p) == MapThenSumSet(LAMBDA a : Supply[<<a, p>>], Address)

Init ==
    /\ tally = [k \in TallyKey |-> IF k[3] = "BALANCE" THEN Supply[<<k[1], k[2]>>] ELSE 0]
    /\ book = <<>>
    /\ cached = [p \in Property |-> 0]
    /\ threshold = [p \in Property |-> IF p = OMNI_PROPERTY_TMSC THEN 0 ELSE ThresholdFor(IssuedTokens(p))]
    /\ features = InitFeatures
    /\ frozen = {}
    /\ burned = [p \in Property |-> 0]
    /\ abort = NoAbort

Current == [tally |-> tally, book |-> book, cached |-> cached,
            threshold |-> threshold, abort |-> abort]

Install(d) ==
    /\ abort' = d.abort
    /\ IF d.abort = NoAbort
       THEN /\ tally' = d.tally /\ book' = d.book
            /\ cached' = d.cached /\ threshold' = d.threshold
       ELSE UNCHANGED <<tally, book, cached, threshold>>

\* Neither side of the order is OMNI or TOMN.
IsAllPair(o) == o.prop > OMNI_PROPERTY_TMSC /\ o.desprop > OMNI_PROPERTY_TMSC

---------------------------------------------------------------------------
(* Prices *)

\* o's unit price is at most q's.
PriceAtMost(o, q) == o.desired * q.forsale <= q.desired * o.forsale

SamePrice(o, q) == o.desired * q.forsale = q.desired * o.forsale

\* Variant: equal prices do not meet.
PricesCross_Strict(new, old) == old.desired * new.desired < old.forsale * new.forsale

\* new.inversePrice() >= old.unitPrice()
PricesCross(new, old) == old.desired * new.desired <= old.forsale * new.forsale

\* The tokens the new order can buy from the old one at the old one's price.
CouldBuy(new, old) ==
    LET n == (new.remaining * old.forsale) \div old.desired
    IN  IF n < old.remaining THEN n ELSE old.remaining

WouldPay(n, old) == DivideAndRoundUp(n * old.desired, old.forsale)

TooExpensive(paid, got, new) == paid * new.desired > new.forsale * got

TradingFee(old, got) ==
    IF "FEES" \in features /\ IsAllPair(old) THEN got \div FeeDivider ELSE 0

---------------------------------------------------------------------------
(* Matching *)

\* Variant: the newest order at a price is matched first.
MatchedBefore_Newest(bk, i, j) ==
    IF SamePrice(bk[i], bk[j]) THEN i > j ELSE PriceAtMost(bk[i], bk[j])

\* The order in which x_Trade looks at the book: by price, then by age.
MatchedBefore(bk, i, j) ==
    IF SamePrice(bk[i], bk[j]) THEN i < j ELSE PriceAtMost(bk[i], bk[j])

\* Variant: that rounding makes the trade too expensive goes unnoticed.
Matches_AnyPrice(d, new, i) ==
    LET old == d.book[i]
    IN  /\ d.abort = NoAbort
        /\ new.remaining > 0
        /\ PricesCross(new, old)
        /\ old.desprop = new.prop
        /\ CouldBuy(new, old) > 0

\* Whether x_Trade executes a trade between the new order and order i.
Matches(d, new, i) ==
    LET old == d.book[i]
        got == CouldBuy(new, old)
    IN  /\ d.abort = NoAbort
        /\ new.remaining > 0
        /\ PricesCross(new, old)
        /\ old.desprop = new.prop
        /\ got > 0
        /\ ~TooExpensive(WouldPay(got, old), got, new)

\* The asserted pre- and postconditions of a trade.
TradeAsserts(new, old, got, paid) ==
    /\ old.remaining > 0
    /\ paid * old.forsale >= got * old.desired
    /\ paid * new.desired <= got * new.forsale
    /\ new.remaining - paid >= 0
    /\ old.remaining - got >= 0

\* A trade at the old order's price.
ExecuteTrade(d, new, i) ==
    LET old == d.book[i]
        got == CouldBuy(new, old)
        paid == WouldPay(got, old)
        fee == TradingFee(old, got)
        d0 == IF TradeAsserts(new, old, got, paid) THEN d ELSE [d EXCEPT !.abort = "x_Trade"]
        d1 == IF "FEES" \in features /\ IsAllPair(old) THEN AddFee(d0, new.desprop, fee) ELSE d0
        d2 == AssertUpdate(d1, frozen, new.addr, new.prop, -paid, "BALANCE")
        d3 == AssertUpdate(d2, frozen, old.addr, old.desprop, paid, "BALANCE")
        d4 == AssertUpdate(d3, frozen, old.addr, old.prop, -got, "METADEX_RESERVE")
        d5 == AssertUpdate(d4, frozen, new.addr, new.desprop, got - fee, "BALANCE")
    IN  [d5 EXCEPT !.book[i].remaining = @ - got]

\* x_Trade: the state and what remains of the new order after the book was
\* walked.  An order that is traded in part keeps its place.
x_Trade(d, order) ==
    LET levels == SetToSortSeq({i \in DOMAIN d.book : d.book[i].prop = order.desprop},
                               LAMBDA i, j : MatchedBefore(d.book, i, j))
        Visit(acc, i) ==
            IF ~Matches(acc.d, acc.new, i) THEN acc
            ELSE LET old == acc.d.book[i]
                     paid == WouldPay(CouldBuy(acc.new, old), old)
                 IN  [d |-> ExecuteTrade(acc.d, acc.new, i),
                      new |-> [acc.new EXCEPT !.remaining = @ - paid]]
    IN  FoldLeft(Visit, [d |-> d, new |-> order], levels)

\* What is left of the new order goes into the book and its tokens into the
\* reserve.
InsertRest(d, new) ==
    IF new.remaining > 0
    THEN [Move(d, frozen, new.addr, new.addr, new.prop, "BALANCE", "METADEX_RESERVE",
               new.remaining) EXCEPT !.book = Append(@, new)]
    ELSE d

\* Orders that are used up are gone.
AfterTrade(traded) ==
    InsertRest([traded.d EXCEPT !.book = SelectSeq(@, LAMBDA o : o.remaining > 0)], traded.new)

MetaDEx_ADD(d, order) == AfterTrade(x_Trade(d, order))

\* Variant: the tokens of a removed order stay reserved.
RemoveOrders_KeepReserve(d, gone) ==
    [d EXCEPT !.book = SelectSeq(@, LAMBDA o : o \notin gone)]

\* Orders are removed and what they have left goes back to the balance.
RemoveOrders(d, gone) ==
    LET Return(e, o) == Move(e, frozen, o.addr, o.addr, o.prop,
                             "METADEX_RESERVE", "BALANCE", o.remaining)
    IN  [FoldLeft(Return, d, SelectSeq(d.book, LAMBDA o : o \in gone)) EXCEPT
            !.book = SelectSeq(@, LAMBDA o : o \notin gone)]

---------------------------------------------------------------------------
(* Transactions *)

\* Variant: the sender may be frozen.
IsAllowed_Frozen(sender, p) ==
    abort = NoAbort /\ ("METADEX" \in features \/ isTestEcosystemProperty(p))

\* Transactions of the test ecosystem are not restricted.
IsAllowed(sender, p) ==
    /\ abort = NoAbort
    /\ "METADEX" \in features \/ isTestEcosystemProperty(p)
    /\ <<sender, p>> \notin frozen

IsPair(p, q) == p # q /\ (isTestEcosystemProperty(p) <=> isTestEcosystemProperty(q))

\* The checks of logicMath_MetaDExTrade.
MayTrade(sender, p, n, q, m) ==
    /\ IsAllowed(sender, p)
    /\ IsPair(p, q)
    /\ n > 0 /\ n <= MaxInt /\ m > 0 /\ m <= MaxInt
    /\ "TRADEALLPAIRS" \in features \/ {p, q} \cap {OMNI_PROPERTY_MSC, OMNI_PROPERTY_TMSC} # {}
    /\ tally[<<sender, p, "BALANCE">>] >= n

NewOrder(sender, p, n, q, m) ==
    [addr |-> sender, prop |-> p, forsale |-> n, desprop |-> q, desired |-> m, remaining |-> n]

MetaDExTrade(sender, p, n, q, m) ==
    /\ MayTrade(sender, p, n, q, m)
    /\ \E d \in {MetaDEx_ADD(Current, NewOrder(sender, p, n, q, m))} :
          Len(d.book) <= MaxOrders /\ Install(d)
    /\ UNCHANGED <<features, frozen, burned>>

\* logicMath_MetaDExCancelPrice and MetaDEx_CANCEL_AT_PRICE
MetaDExCancelPrice(sender, p, n, q, m) ==
    LET cancelled == {o \in ToSet(book) :
                         /\ o.addr = sender /\ o.prop = p /\ o.desprop = q
                         /\ SamePrice(o, [forsale |-> n, desired |-> m])}
    IN  /\ IsAllowed(sender, p)
        /\ IsPair(p, q)
        /\ n > 0 /\ n <= MaxInt /\ m > 0 /\ m <= MaxInt
        /\ Install(RemoveOrders(Current, cancelled))
        /\ UNCHANGED <<features, frozen, burned>>

\* logicMath_MetaDExCancelPair and MetaDEx_CANCEL_ALL_FOR_PAIR
MetaDExCancelPair(sender, p, q) ==
    LET cancelled == {o \in ToSet(book) : o.addr = sender /\ o.prop = p /\ o.desprop = q}
    IN  /\ IsAllowed(sender, p)
        /\ IsPair(p, q)
        /\ Install(RemoveOrders(Current, cancelled))
        /\ UNCHANGED <<features, frozen, burned>>

\* logicMath_MetaDExCancelEcosystem and MetaDEx_CANCEL_EVERYTHING; the
\* transaction names no property, so a frozen sender may cancel.
MetaDExCancelEcosystem(sender, ecosystem) ==
    LET cancelled == {o \in ToSet(book) :
                         /\ o.addr = sender
                         /\ isTestEcosystemProperty(o.prop) <=> ecosystem = OMNI_PROPERTY_TMSC}
    IN  /\ abort = NoAbort
        /\ "METADEX" \in features \/ ecosystem = OMNI_PROPERTY_TMSC
        /\ Install(RemoveOrders(Current, cancelled))
        /\ UNCHANGED <<features, frozen, burned>>

\* The closing assertion of a Send To Owners.
AssertAllSent(d, sent, n) ==
    IF d.abort = NoAbort /\ sent # n THEN [d EXCEPT !.abort = "logicMath_SendToOwners"] ELSE d

SendToReceivers(d, sender, p, n, receivers) ==
    LET Send(a, e) == Move(e, frozen, sender, a, p, "BALANCE", "BALANCE", receivers[a])
    IN  AssertAllSent(FoldSet(Send, d, DOMAIN receivers), TotalOf(receivers), n)

EcosystemToken(p) == IF isTestEcosystemProperty(p) THEN OMNI_PROPERTY_TMSC ELSE OMNI_PROPERTY_MSC

\* The state changes of logicMath_SendToOwners.  Version 0 burns the fee and
\* announces a change of the number of OMNI, version 1 pays it into the cache.
SendFromOwner(d, sender, p, n, version, fee, receivers) ==
    LET charged == AssertUpdate(d, frozen, sender, EcosystemToken(p), -fee, "BALANCE")
    IN  IF version = 0
        THEN NotifyTotalTokensChanged(SendToReceivers(charged, sender, p, n, receivers),
                                      OMNI_PROPERTY_MSC, "FEES" \in features)
        ELSE SendToReceivers(AddFee(charged, EcosystemToken(p), fee), sender, p, n, receivers)

\* logicMath_SendToOwners: n tokens of p to the owners of q.
SendToOwnersTx(sender, p, n, version, q) ==
    /\ abort = NoAbort
    /\ <<sender, p>> \notin frozen
    /\ version = 1 => "STOV1" \in features \/ isTestEcosystemProperty(p)
    /\ version = 0 => q = p
    /\ n > 0 /\ n <= MaxInt
    /\ tally[<<sender, p, "BALANCE">>] >= n
    /\ \E receivers \in {STO_GetReceivers(tally, sender, q, n)} :
          LET fee == FeePerOwner[version] * Cardinality(DOMAIN receivers)
              token == EcosystemToken(p)
          IN  /\ receivers # <<>>
              /\ tally[<<sender, token, "BALANCE">>] >= (IF token = p THEN n + fee ELSE fee)
              /\ Install(SendFromOwner(Current, sender, p, n, version, fee, receivers))
              /\ burned' = IF version = 0 /\ abort' = NoAbort
                           THEN [burned EXCEPT ![token] = @ + fee] ELSE burned
    /\ UNCHANGED <<features, frozen>>

\* logicMath_Deactivation, which closes orders.  MetaDEx_SHUTDOWN_ALLPAIR does not
\* advance past an order with OMNI or TOMN on one side, so it never returns.
Deactivate(f) ==
    LET everything == RemoveOrders(Current, ToSet(book))
        allpair == IF \E i \in DOMAIN book : ~IsAllPair(book[i])
                   THEN [Current EXCEPT !.abort = "MetaDEx_SHUTDOWN_ALLPAIR"]
                   ELSE everything
    IN  /\ abort = NoAbort
        /\ f \in MayToggle \cap features
        /\ features' = features \ {f}
        /\ Install(CASE f = "METADEX" -> everything
                     [] f = "TRADEALLPAIRS" -> allpair
                     [] OTHER -> Current)
        /\ UNCHANGED <<frozen, burned>>

\* A feature goes live.
Activate(f) ==
    /\ abort = NoAbort
    /\ f \in MayToggle \ features
    /\ features' = features \cup {f}
    /\ UNCHANGED <<tally, book, cached, threshold, frozen, burned, abort>>

\* The node is stopped and started again.  Balances and orders come back from the
\* files and the fee cache from its database; distributionThresholds is neither
\* saved nor computed again.
Restart ==
    /\ MayRestart
    /\ abort = NoAbort
    /\ threshold' = [p \in Property |-> 0]
    /\ UNCHANGED <<tally, book, cached, features, frozen, burned, abort>>

\* The issuer of a property freezes or unfreezes an address.
FreezeOrUnfreeze(a, p) ==
    /\ abort = NoAbort
    /\ <<a, p>> \in MayFreeze
    /\ frozen' = IF <<a, p>> \in frozen THEN frozen \ {<<a, p>>} ELSE frozen \cup {<<a, p>>}
    /\ UNCHANGED <<tally, book, cached, threshold, features, burned, abort>>

Next ==
    \/ \E a \in Address, p, q \in Property :
          \/ \E n, m \in Amounts : MetaDExTrade(a, p, n, q, m)
          \/ \E n, m \in Amounts : MetaDExCancelPrice(a, p, n, q, m)
          \/ MetaDExCancelPair(a, p, q)
          \/ \E n \in SendAmounts, version \in {0, 1} : SendToOwnersTx(a, p, n, version, q)
    \/ \E a \in Address, e \in {OMNI_PROPERTY_MSC, OMNI_PROPERTY_TMSC} : MetaDExCancelEcosystem(a, e)
    \/ \E f \in MayToggle : Deactivate(f) \/ Activate(f)
    \/ Restart
    \/ \E a \in Address, p \in Property : FreezeOrUnfreeze(a, p)

Spec == Init /\ [][Next]_vars

---------------------------------------------------------------------------
(* Properties *)

\* Every variable has the type its C++ counterpart has: no tally is negative, and
\* no order in the book is empty or asks for nothing.
TypeOK ==
    /\ tally \in Tallies
    /\ book \in Seq(Order)
    /\ cached \in [Property -> 0 .. MaxInt]
    /\ threshold \in [Property -> 0 .. MaxInt]
    /\ features \subseteq InitFeatures \cup MayToggle
    /\ frozen \subseteq MayFreeze
    /\ burned \in [Property -> 0 .. MaxInt]

\* The tokens a has in orders that offer p.
InOrders(a, p) ==
    MapThenSumSet(LAMBDA i : book[i].remaining,
                  {i \in DOMAIN book : book[i].addr = a /\ book[i].prop = p})

\* What an address has in METADEX_RESERVE is exactly what its open orders still
\* offer: matching, cancelling and the shutdown of the exchange change both by
\* the same amount.
ReserveIsBook ==
    \A a \in Address, p \in Property : tally[<<a, p, "METADEX_RESERVE">>] = InOrders(a, p)

\* Trading, fees, their distribution and Send To Owners neither create nor lose a
\* token: balances, reserves, the fee cache and what version 0 of Send To Owners
\* burned add up to what was issued.
TokensConserved ==
    \A p \in Property :
        OthersTokens(tally, Nobody, p) + cached[p] + burned[p] = IssuedTokens(p)

\* None of the assertions of x_Trade, of the cancellations, of Send To Owners and
\* of the fee distribution fails, with one exception: a distribution when the
\* last OMNI (or TOMN) is spent on fees, so that nobody is left to receive it.
AssertionsHold ==
    abort # NoAbort =>
        /\ abort = "DistributeCache"
        /\ \E p \in Property \cap {OMNI_PROPERTY_MSC, OMNI_PROPERTY_TMSC} :
              Cardinality({a \in Address : TokensOf(tally, a, p) > 0}) <= 1

\* Two orders that could trade do not stay in the book together: if the newer
\* one's price reaches the older one's, and the older one asks a whole number of
\* tokens apiece so that rounding cannot prevent the trade, the newer one has too
\* little left to buy a single token.
NoMissedTrade ==
    \A i, j \in DOMAIN book :
        LET old == book[i]
            new == book[j]
        IN  (/\ i < j
             /\ old.prop = new.desprop /\ old.desprop = new.prop
             /\ old.desired * new.desired <= old.forsale * new.forsale
             /\ old.desired % old.forsale = 0)
            => new.remaining * old.forsale < old.desired

\* Every order that a transaction could bring now, with the outcome of x_Trade.
ForEveryOrder(Test(_, _)) ==
    \A a \in Address, p, q \in Property, n, m \in Amounts :
        MayTrade(a, p, n, q, m) =>
            LET new == NewOrder(a, p, n, q, m)
            IN  \A done \in {x_Trade(Current, new)} : Test(new, done)

Sold(done, i) == book[i].remaining - done.d.book[i].remaining

\* Whatever order comes next and however many orders it meets, with whatever
\* rounding: no assertion of x_Trade on prices fails, the owner of an order in the
\* book receives at least its price for what is taken from it, and nothing of that
\* pays fees, and the new order pays at most its own price over all its trades.
LimitsRespected ==
    LET Test(new, done) ==
            LET PriceOf(i) == DivideAndRoundUp(Sold(done, i) * book[i].desired, book[i].forsale)
                got == MapThenSumSet(LAMBDA i : Sold(done, i), DOMAIN book)
                Gain(a) == done.d.tally[<<a, new.prop, "BALANCE">>] - tally[<<a, new.prop, "BALANCE">>]
            IN  /\ done.d.abort # "x_Trade"
                /\ (new.remaining - done.new.remaining) * new.desired <= got * new.forsale
                /\ \A a \in Address \ {new.addr} :
                      Gain(a) >= MapThenSumSet(PriceOf, {i \in DOMAIN book : book[i].addr = a})
    IN  ForEveryOrder(Test)

\* Whatever order comes next: it takes from an order only when nothing is left of
\* those that are cheaper, or as cheap and older (if they ask a whole number of
\* tokens apiece, so that rounding is not in the way).
PriceTimePriority ==
    LET First(i, j) ==
            \/ book[i].desired * book[j].forsale < book[j].desired * book[i].forsale
            \/ book[i].desired * book[j].forsale = book[j].desired * book[i].forsale /\ i < j
        Test(new, done) ==
            \A i, j \in DOMAIN book :
                (/\ book[i].prop = new.desprop /\ book[i].desprop = new.prop
                 /\ book[i].desired % book[i].forsale = 0
                 /\ First(i, j)
                 /\ Sold(done, j) > 0)
                => done.d.book[i].remaining = 0
    IN  ForEveryOrder(Test)

\* The cached fees of a property with a threshold stay below it: each fee added
\* and each change of the number of tokens is followed by a distribution if due.
FeesBelowThreshold ==
    \A p \in Property \ {OMNI_PROPERTY_TMSC} : cached[p] < ThresholdFor(getTotalTokens(Current, p))

\* "Scans the orderbook and removes every all-pair order": a deactivation of
\* trading between tokens completes.
AllPairShutdownEnds == abort # "MetaDEx_SHUTDOWN_ALLPAIR"

\* "When (propertyTotalTokens / OMNI_FEE_THRESHOLD) is reached fee distribution
\* will occur": fees of a token are not distributed before.  The largest fee one
\* order can add is bounded by the tokens issued over the divider.
DistributedAtThreshold ==
    [][\A p \in Property \ {OMNI_PROPERTY_MSC, OMNI_PROPERTY_TMSC} :
          cached'[p] < cached[p] =>
              cached[p] + IssuedTokens(p) \div FeeDivider >= ThresholdFor(IssuedTokens(p))]_vars
=============================================================================
