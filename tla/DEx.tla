--------------------------------- MODULE DEx ---------------------------------
(***************************************************************************)
(* The distributed exchange: a seller offers tokens for XEP, a buyer       *)
(* reserves some of them with an accept, and has a number of blocks to pay *)
(* for them on chain.                                                      *)
(*                                                                         *)
(* src/omnicore/dex.cpp, with the handlers of src/omnicore/tx.cpp and the  *)
(* block handler of src/omnicore/omnicore.cpp that call it.                *)
(*                                                                         *)
(* The DEx_* operators take the state d a handler has built so far, a      *)
(* record with the fields                                                  *)
(*    tally, offers, accepts   mp_tally_map, my_offers, my_accepts         *)
(*    valid                    whether the return code is 0                *)
(*    abort                    the assertion that failed, if any           *)
(* and return the state after the function, so they compose the way the    *)
(* functions call one another.                                             *)
(***************************************************************************)
EXTENDS Tally, FiniteSetsExt

CONSTANTS
    Txid,          \* identities of the transactions that created live offers
    None,          \* no entry in a map
    Amounts,       \* token amounts in trade offers and accepts (uint64)
    Prices,        \* XEP amounts asked for, as the int64_t they are read into
    MinFees,       \* minimum fees asked for by offers
    Fees,          \* fees paid by accepts
    Windows,       \* payment windows, in blocks
    Payments,      \* XEP values of transaction outputs
    Supply,        \* [Address \X Property -> tokens issued before the DEx is used]
    KeyRank,       \* [Property -> rank of the property's decimal string]
    MayFreeze,     \* the <<address, property>> pairs that are ever frozen
    InitFeatures,  \* the features that are live at the start
    MayToggle      \* the features activated or deactivated later on

VARIABLES
    tally,     \* mp_tally_map
    offers,    \* my_offers:  <<seller, property>> -> CMPOffer
    accepts,   \* my_accepts: <<seller, property, buyer>> -> CMPAccept
    features,  \* the features IsFeatureActivated answers yes for
    frozen,    \* the pairs isAddressFrozen answers yes for
    erasing,   \* eraseExpiredAccepts is running (cs_tally is held)
    abort      \* the assertion that stopped the process, if any

vars == <<tally, offers, accepts, features, frozen, erasing, abort>>

OfferKey  == Address \X Property
AcceptKey == Address \X Property \X Address

\* CMPOffer; desired is XEP_desired_original, window is blocktimelimit.
Offer == [amount : 1 .. MaxInt, desired : Int64, minFee : Int, window : Nat, txid : Txid]

\* CMPAccept; amount, desired, window and txid are copied from the offer.  The
\* block the accept was confirmed in is kept as the number of blocks since then.
Accept == [remaining : Int, amount : 1 .. MaxInt, desired : Int64,
           window : Nat, txid : Txid, age : Nat]

ASSUME NoneAssumption == None \notin Offer \cup Accept
ASSUME SupplyAssumption == Supply \in [Address \X Property -> 0 .. MaxInt]
ASSUME InputAssumption == /\ Amounts \subseteq Nat
                          /\ Prices \subseteq Int64
                          /\ MinFees \subseteq Int
                          /\ Fees \subseteq Int
                          /\ Windows \subseteq Nat
                          /\ Payments \subseteq Nat
                          /\ MayFreeze \subseteq Address \X Property

OMNI_PROPERTY_MSC  == 1
OMNI_PROPERTY_TMSC == 2

Init ==
    /\ tally = [k \in TallyKey |-> IF k[3] = "BALANCE" THEN Supply[<<k[1], k[2]>>] ELSE 0]
    /\ offers = [k \in OfferKey |-> None]
    /\ accepts = [k \in AcceptKey |-> None]
    /\ features = InitFeatures
    /\ frozen = {}
    /\ erasing = FALSE
    /\ abort = NoAbort

\* The state a handler starts from, and the step that installs its result: a
\* process stopped by an assertion keeps nothing of the handler's work.
Current == [tally |-> tally, offers |-> offers, accepts |-> accepts,
            valid |-> TRUE, abort |-> abort]

Install(d) ==
    /\ abort' = d.abort
    /\ IF d.abort = NoAbort
       THEN tally' = d.tally /\ offers' = d.offers /\ accepts' = d.accepts
       ELSE UNCHANGED <<tally, offers, accepts>>

Invalid(d) == [d EXCEPT !.valid = FALSE]

\* A txid no live offer or accept carries.  Transaction hashes are unique; one
\* that nothing refers to any more cannot be told from a new one.  Txid bounds
\* how many are in use at a time.
IsFreshTxid(t) ==
    /\ t \in Txid
    /\ \A k \in OfferKey : offers[k] # None => offers[k].txid # t
    /\ \A k \in AcceptKey : accepts[k] # None => accepts[k].txid # t

FreshTxid == CHOOSE t \in Txid : IsFreshTxid(t)

---------------------------------------------------------------------------
(* Arithmetic *)

\* rounduint64 of the quotient of two naturals, b > 0.  On amounts as small as
\* the model's the double arithmetic of the legacy functions is exact.
DivideAndRound(a, b) == (2 * a + b) \div (2 * b)

legacy_calculateDesiredXEP(amountOffered, amountDesired, amountAvailable) ==
    LET U == 2 * (MaxInt + 1)
    IN  ToInt64(DivideAndRound(((amountDesired % U) * amountAvailable) % U, amountOffered))

legacy_calculateDExPurchase(amountOffered, amountDesired, amountPaid) ==
    ToInt64(DivideAndRound(amountOffered * amountPaid, amountDesired % (2 * (MaxInt + 1))))

calculateDExPurchase(amountOffered, amountDesired, amountPaid) ==
    DivideAndRoundUp(amountPaid * amountOffered, amountDesired)

\* The assertions of ConvertTo256 and ConvertTo64 that calculateDExPurchase meets.
PurchaseConverts(amountOffered, amountDesired, amountPaid) ==
    /\ amountDesired >= 0
    /\ calculateDExPurchase(amountOffered, amountDesired, amountPaid) <= MaxInt

---------------------------------------------------------------------------
(* Offers *)

DEx_offerExists(d, seller, propertyId) == d.offers[<<seller, propertyId>>] # None

DEx_hasOffer(d, seller) == \E p \in Property : DEx_offerExists(d, seller, p)

\* The first offer of the seller in the order of the keys of my_offers.
IsTokenForSale(d, seller, propertyId) ==
    /\ DEx_offerExists(d, seller, propertyId)
    /\ \A p \in Property :
          DEx_offerExists(d, seller, p) => KeyRank[propertyId] <= KeyRank[p]

\* Variant: a second property may be offered.
OfferRefused_ManyOffers(d, seller, propertyId, offered, desired, window) ==
    \/ window = 0
    \/ desired = 0
    \/ DEx_offerExists(d, seller, propertyId)
    \/ offered > d.tally[<<seller, propertyId, "BALANCE">>]
    \/ offered = 0

\* The returns of DEx_offerCreate with an error code.
OfferRefused(d, seller, propertyId, offered, desired, window) ==
    LET available == d.tally[<<seller, propertyId, "BALANCE">>]
    IN  \/ window = 0
        \/ desired = 0
        \/ DEx_offerExists(d, seller, propertyId)
        \/ "FREEDEX" \in features /\ DEx_hasOffer(d, seller)
        \/ "DEXMATH" \in features /\ offered > available
        \/ offered = 0 \/ available = 0

DEx_offerCreate(d, seller, propertyId, offered, desired, minFee, window, txid) ==
    LET available == d.tally[<<seller, propertyId, "BALANCE">>]
        exceeds == offered > available
        amount == IF exceeds THEN available ELSE offered
        price == IF exceeds THEN legacy_calculateDesiredXEP(offered, desired, available)
                            ELSE desired
        moved == Move(d, frozen, seller, seller, propertyId,
                      "BALANCE", "SELLOFFER_RESERVE", amount)
    IN  IF OfferRefused(d, seller, propertyId, offered, desired, window)
        THEN Invalid(d)
        ELSE [moved EXCEPT !.offers[<<seller, propertyId>>] =
                 [amount |-> amount, desired |-> price, minFee |-> minFee,
                  window |-> window, txid |-> txid]]

\* Variant: nothing is returned.
AmountReserved_None(d, seller, propertyId) == 0

\* What DEx_offerDestroy returns to the seller.
AmountReserved(d, seller, propertyId) == d.tally[<<seller, propertyId, "SELLOFFER_RESERVE">>]

\* The offer must exist.
DEx_offerDestroy(d, seller, propertyId) ==
    LET reserved == AmountReserved(d, seller, propertyId)
        moved == IF reserved > 0
                 THEN Move(d, frozen, seller, seller, propertyId,
                           "SELLOFFER_RESERVE", "BALANCE", reserved)
                 ELSE d
    IN  [moved EXCEPT !.offers[<<seller, propertyId>>] = None]

\* The offer must exist.  The old one is gone even if the new one is refused.
DEx_offerUpdate(d, seller, propertyId, offered, desired, minFee, window, txid) ==
    DEx_offerCreate(DEx_offerDestroy(d, seller, propertyId),
                    seller, propertyId, offered, desired, minFee, window, txid)
---------------------------------------------------------------------------
(* Accepts and payments *)

DEx_acceptExists(d, seller, propertyId, buyer) ==
    d.accepts[<<seller, propertyId, buyer>>] # None

DEx_acceptCreate(d, buyer, seller, propertyId, amountAccepted, feePaid) ==
    LET k == <<seller, propertyId, buyer>>
        offer == d.offers[<<seller, propertyId>>]
        forSale == d.tally[<<seller, propertyId, "SELLOFFER_RESERVE">>]
        reserved == IF forSale >= amountAccepted THEN amountAccepted ELSE forSale
        moved == Move(d, frozen, seller, seller, propertyId,
                      "SELLOFFER_RESERVE", "ACCEPT_RESERVE", reserved)
    IN  IF \/ ~DEx_offerExists(d, seller, propertyId)
           \/ DEx_acceptExists(d, seller, propertyId, buyer)
           \/ feePaid < offer.minFee
           \/ reserved = 0
        THEN Invalid(d)
        ELSE [moved EXCEPT !.accepts[k] =
                 [remaining |-> reserved, amount |-> offer.amount, desired |-> offer.desired,
                  window |-> offer.window, txid |-> offer.txid, age |-> 0]]

\* Variant: any offer of the seller is taken for the one that was accepted.
SameOffer_Any(d, k) == DEx_offerExists(d, k[1], k[2])

\* The offer that was accepted is still there.
SameOffer(d, k) ==
    /\ DEx_offerExists(d, k[1], k[2])
    /\ d.offers[<<k[1], k[2]>>].txid = d.accepts[k].txid

\* DEx_acceptDestroy with the removal from my_accepts, which is done here
\* (fForceErase) or by the caller right after it.  What is left returns to the
\* offer it was taken from, or to the seller if that offer is gone.
DEx_acceptDestroy(d, buyer, seller, propertyId) ==
    LET k == <<seller, propertyId, buyer>>
        accept == d.accepts[k]
        moved == IF accept.remaining > 0
                 THEN Move(d, frozen, seller, seller, propertyId, "ACCEPT_RESERVE",
                           IF SameOffer(d, k) THEN "SELLOFFER_RESERVE" ELSE "BALANCE",
                           accept.remaining)
                 ELSE d
    IN  [moved EXCEPT !.accepts[k] = None]

\* The property whose accept a payment is booked on: the one token the seller
\* has on sale or, before FREEDEX, OMNI and then TOMNI.
IsPaidFor(d, seller, buyer, propertyId) ==
    /\ DEx_acceptExists(d, seller, propertyId, buyer)
    /\ IF "FREEDEX" \in features
       THEN IsTokenForSale(d, seller, propertyId)
       ELSE \/ propertyId = OMNI_PROPERTY_MSC
            \/ /\ propertyId = OMNI_PROPERTY_TMSC
               /\ ~DEx_acceptExists(d, seller, OMNI_PROPERTY_MSC, buyer)

\* Variants: the accept is not reduced; a purchase is not limited to the accept.
AmountLeft_Unreduced(accept, purchased) == accept.remaining
AmountPurchased_Unlimited(accept, units) == units

\* reduceAcceptAmountRemaining_andIsZero, and the limit on what is purchased.
AmountLeft(accept, purchased) == accept.remaining - purchased
AmountPurchased(accept, units) == IF accept.remaining < units THEN accept.remaining ELSE units

\* The tail of DEx_payment: book the purchase, and close the accept and the
\* offer when nothing is left of them.
BookPurchase(d, seller, buyer, propertyId, purchased) ==
    LET k == <<seller, propertyId, buyer>>
        left == AmountLeft(d.accepts[k], purchased)
        moved == IF purchased > 0
                 THEN Move(d, frozen, seller, buyer, propertyId,
                           "ACCEPT_RESERVE", "BALANCE", purchased)
                 ELSE Invalid(d)
        reduced == [moved EXCEPT !.accepts[k].remaining = left]
        closed == DEx_acceptDestroy(reduced, buyer, seller, propertyId)
    IN  IF left > 0
        THEN reduced
        ELSE IF /\ reduced.tally[<<seller, propertyId, "SELLOFFER_RESERVE">>] = 0
                /\ reduced.tally[<<seller, propertyId, "ACCEPT_RESERVE">>] = 0
                /\ DEx_offerExists(closed, seller, propertyId)
             THEN DEx_offerDestroy(closed, seller, propertyId)
             ELSE closed

\* DEx_payment from the point where the accept has been found.
DEx_payment(d, seller, buyer, propertyId, amountPaid) ==
    LET accept == d.accepts[<<seller, propertyId, buyer>>]
        units == IF "DEXMATH" \in features
                 THEN calculateDExPurchase(accept.amount, accept.desired, amountPaid)
                 ELSE legacy_calculateDExPurchase(accept.amount, accept.desired, amountPaid)
    IN  IF accept.desired = 0
        THEN Invalid(d)
        ELSE IF /\ "DEXMATH" \in features
                /\ ~PurchaseConverts(accept.amount, accept.desired, amountPaid)
             THEN [d EXCEPT !.abort = "uint256_extensions"]
             ELSE BookPurchase(d, seller, buyer, propertyId,
                               AmountPurchased(accept, units))
---------------------------------------------------------------------------
(* Transactions and blocks *)

\* A transaction is handled, or a block is finished, with cs_tally held.
Running == abort = NoAbort /\ ~erasing

\* Variant: the sender may be frozen.
MayTradeOffer_Frozen(sender, property, nValue) ==
    /\ Running
    /\ nValue <= MaxInt
    /\ UNCHANGED <<features, frozen, erasing>>

\* The checks of interpretPacket and logicMath_TradeOffer before the action of
\* the offer is looked at.  A rejected transaction changes nothing.
MayTradeOffer(sender, property, nValue) ==
    /\ Running
    /\ <<sender, property>> \notin frozen
    /\ nValue <= MaxInt
    /\ "FREEDEX" \in features \/ property \in {OMNI_PROPERTY_MSC, OMNI_PROPERTY_TMSC}
    /\ UNCHANGED <<features, frozen, erasing>>

\* No offer yet: version 0 with a value, or version 1 with NEW.
TradeOfferNew(sender, property, nValue, desired, minFee, window) ==
    /\ MayTradeOffer(sender, property, nValue)
    /\ ~DEx_offerExists(Current, sender, property)
    /\ \E t \in Txid : IsFreshTxid(t)
    /\ Install(DEx_offerCreate(Current, sender, property, nValue, desired, minFee,
                               window, FreshTxid))

\* An offer to replace: version 0 with a value, or version 1 with UPDATE.
TradeOfferUpdate(sender, property, nValue, desired, minFee, window) ==
    /\ MayTradeOffer(sender, property, nValue)
    /\ DEx_offerExists(Current, sender, property)
    /\ \E t \in Txid : IsFreshTxid(t)
    /\ Install(DEx_offerUpdate(Current, sender, property, nValue, desired, minFee,
                               window, FreshTxid))

\* An offer to withdraw: version 0 with value 0, or version 1 with CANCEL.
TradeOfferCancel(sender, property) ==
    /\ MayTradeOffer(sender, property, 0)
    /\ DEx_offerExists(Current, sender, property)
    /\ Install(DEx_offerDestroy(Current, sender, property))

AcceptOffer_XEP(sender, receiver, property, nValue, feePaid) ==
    /\ Running
    /\ <<sender, property>> \notin frozen
    /\ nValue \in 1 .. MaxInt
    /\ Install(DEx_acceptCreate(Current, sender, receiver, property, nValue, feePaid))
    /\ UNCHANGED <<features, frozen, erasing>>

\* One output of a transaction that pays a seller.  HandleDExPayments calls
\* DEx_payment for the outputs one after the other; a payment for which there
\* is no accept changes nothing.
HandleDExPayment(seller, buyer, property, amountPaid) ==
    /\ Running
    /\ IsPaidFor(Current, seller, buyer, property)
    /\ Install(DEx_payment(Current, seller, buyer, property, amountPaid))
    /\ UNCHANGED <<features, frozen, erasing>>

\* mastercore_handler_block_end starts eraseExpiredAccepts; the iterations of
\* its loop are steps, and nothing else runs until it has finished.
BlockEnd ==
    /\ Running
    /\ erasing' = TRUE
    /\ UNCHANGED <<tally, offers, accepts, features, frozen, abort>>

\* Variant: one block early.
Expired_Early(k) == accepts[k] # None /\ accepts[k].age + 1 >= accepts[k].window

\* The payment window of the accept has passed.
Expired(k) == accepts[k] # None /\ accepts[k].age >= accepts[k].window

EraseExpiredAccept(k) ==
    /\ abort = NoAbort
    /\ erasing
    /\ Expired(k)
    /\ Install(DEx_acceptDestroy(Current, k[3], k[1], k[2]))
    /\ UNCHANGED <<features, frozen, erasing>>

\* Variants: blockNow and the accept's block are swapped; the accept's block is
\* taken to be the current one.
EraseExpiredAcceptsDone_Swapped ==
    /\ abort = NoAbort
    /\ erasing
    /\ \A k \in AcceptKey : ~Expired(k)
    /\ accepts' = [k \in AcceptKey |-> IF accepts[k] = None THEN None
                                       ELSE [accepts[k] EXCEPT !.age = @ - 1]]
    /\ erasing' = FALSE
    /\ UNCHANGED <<tally, offers, features, frozen, abort>>

EraseExpiredAcceptsDone_NoAging ==
    /\ abort = NoAbort
    /\ erasing
    /\ \A k \in AcceptKey : ~Expired(k)
    /\ erasing' = FALSE
    /\ UNCHANGED <<tally, offers, accepts, features, frozen, abort>>

\* The loop is over; every accept that is left gets one block older.
EraseExpiredAcceptsDone ==
    /\ abort = NoAbort
    /\ erasing
    /\ \A k \in AcceptKey : ~Expired(k)
    /\ accepts' = [k \in AcceptKey |-> IF accepts[k] = None THEN None
                                       ELSE [accepts[k] EXCEPT !.age = @ + 1]]
    /\ erasing' = FALSE
    /\ UNCHANGED <<tally, offers, features, frozen, abort>>

\* The issuer of a managed property freezes or unfreezes an address.
FreezeOrUnfreeze(k) ==
    /\ Running
    /\ frozen' = IF k \in frozen THEN frozen \ {k} ELSE frozen \cup {k}
    /\ UNCHANGED <<tally, offers, accepts, features, erasing, abort>>

\* An activation goes live, or a feature is switched off.
ToggleFeature(f) ==
    /\ Running
    /\ features' = IF f \in features THEN features \ {f} ELSE features \cup {f}
    /\ UNCHANGED <<tally, offers, accepts, frozen, erasing, abort>>

TradeOffer ==
    \E s \in Address, p \in Property :
        \/ TradeOfferCancel(s, p)
        \/ \E n \in Amounts, x \in Prices, f \in MinFees, w \in Windows :
              \/ TradeOfferNew(s, p, n, x, f, w)
              \/ TradeOfferUpdate(s, p, n, x, f, w)

Next ==
    \/ TradeOffer
    \/ \E b, s \in Address, p \in Property :
          \/ \E n \in Amounts, f \in Fees : AcceptOffer_XEP(b, s, p, n, f)
          \/ \E x \in Payments : HandleDExPayment(s, b, p, x)
    \/ BlockEnd
    \/ \E k \in AcceptKey : EraseExpiredAccept(k)
    \/ EraseExpiredAcceptsDone
    \/ \E k \in MayFreeze : FreezeOrUnfreeze(k)
    \/ \E f \in MayToggle : ToggleFeature(f)

\* Blocks keep coming, and the loop at their end runs to completion.
BlockProgress == \/ BlockEnd
                 \/ \E k \in AcceptKey : EraseExpiredAccept(k)
                 \/ EraseExpiredAcceptsDone

Spec == Init /\ [][Next]_vars /\ WF_vars(BlockProgress)
---------------------------------------------------------------------------
(* Properties *)

\* Every variable has the type its C++ counterpart has; only pending amounts
\* are ever negative.
TypeOK ==
    /\ tally \in Tallies
    /\ offers \in [OfferKey -> Offer \cup {None}]
    /\ accepts \in [AcceptKey -> Accept \cup {None}]
    /\ frozen \subseteq Address \X Property
    /\ erasing \in BOOLEAN
    /\ abort \in {NoAbort, "update_tally_map", "uint256_extensions"}

Remaining(k) == IF accepts[k] = None THEN 0 ELSE accepts[k].remaining

\* The tokens of an address outside the meta exchange, in whatever tally.
Holdings(s, p) == tally[<<s, p, "BALANCE">>] + tally[<<s, p, "SELLOFFER_RESERVE">>]
                                             + tally[<<s, p, "ACCEPT_RESERVE">>]

\* The ACCEPT_RESERVE of a seller is exactly what the open accepts have left to
\* buy: DEx_acceptCreate, DEx_payment and DEx_acceptDestroy keep the two in step.
AcceptReserveBacked ==
    \A s \in Address, p \in Property :
        tally[<<s, p, "ACCEPT_RESERVE">>] =
            MapThenSumSet(LAMBDA b : Remaining(<<s, p, b>>), Address)

\* Tokens wait in the SELLOFFER_RESERVE only while there is an offer whose
\* cancellation (DEx_offerDestroy) gives them back.
SellReserveHasOffer ==
    \A s \in Address, p \in Property :
        tally[<<s, p, "SELLOFFER_RESERVE">>] > 0 => offers[<<s, p>>] # None

\* What an offer has for sale plus what is reserved by accepts of that very
\* offer never exceeds what was offered, however accepts of earlier offers of
\* the seller expire or are paid (the txid test of DEx_acceptDestroy).
NeverOversold ==
    \A s \in Address, p \in Property :
        LET o == offers[<<s, p>>]
        IN  o # None =>
              tally[<<s, p, "SELLOFFER_RESERVE">>]
                + MapThenSumSet(LAMBDA b : LET a == accepts[<<s, p, b>>]
                                           IN  IF a = None THEN 0
                                               ELSE IF a.txid = o.txid THEN a.remaining ELSE 0,
                                Address)
              <= o.amount

\* No assert(update_tally_map(...)) of the exchange fails: every debit is covered
\* and never touches the balance of a frozen address.
TallyAssertsHold == abort # "update_tally_map"

\* The assertions of ConvertTo256 and ConvertTo64 hold for every payment.
ConversionAssertsHold == abort # "uint256_extensions"

\* With FREEDEX live from the start a seller has one offer at a time, which is
\* what DEx_getTokenForSale relies on to find the accept a payment is for.
OneOfferPerSeller ==
    \A s \in Address : \A p, q \in Property :
        offers[<<s, p>>] # None /\ offers[<<s, q>>] # None => p = q

\* A buyer can pay for an open accept until it expires (the comment on
\* eraseExpiredAccepts in mastercore_handler_block_end).
AcceptsPayable ==
    \A k \in AcceptKey : accepts[k] # None => IsPaidFor(Current, k[1], k[3], k[2])

TokensLeaveForAccept ==
    \A s \in Address, p \in Property :
        Holdings(s, p)' < Holdings(s, p) =>
            \E b \in Address \ {s} :
                /\ Remaining(<<s, p, b>>) - Remaining(<<s, p, b>>)'
                      = Holdings(s, p) - Holdings(s, p)'
                /\ tally'[<<b, p, "BALANCE">>] - tally[<<b, p, "BALANCE">>]
                      = Holdings(s, p) - Holdings(s, p)'

\* Tokens leave a seller only for a buyer with an open accept, who receives
\* exactly what the accept is reduced by.
OnlyAcceptedTokensLeave == [][TokensLeaveForAccept]_vars

SameTerms(a, c) == [c EXCEPT !.remaining = 0, !.age = 0] = [a EXCEPT !.remaining = 0, !.age = 0]

AcceptKeptOrEnded ==
    \A s, b \in Address, p \in Property :
        LET a == accepts[<<s, p, b>>]
            c == accepts'[<<s, p, b>>]
        IN  a # None =>
              \/ c # None /\ SameTerms(a, c) /\ c.remaining <= a.remaining
              \/ c = None /\ erasing /\ a.age >= a.window
              \/ c = None /\ tally'[<<b, p, "BALANCE">>] >= tally[<<b, p, "BALANCE">>] + a.remaining

\* The terms of an accept (price, window, offer) are those of the offer at the
\* time of the accept, whatever the seller does with the offer afterwards, and
\* it ends only when its window has passed or the buyer got what was left.
AcceptsKeepTerms == [][AcceptKeptOrEnded]_vars

\* Every accept ends, for it is paid, or eraseExpiredAccepts releases the tokens: no
\* buyer has one open for ever.
AcceptsEnd == \A k \in AcceptKey : []<>(accepts[k] = None)
=============================================================================
