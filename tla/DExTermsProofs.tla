---------------------------- MODULE DExTermsProofs ----------------------------
(***************************************************************************)
(* Two promises of the distributed exchange that depend on features being  *)
(* live throughout: a seller has one offer at a time (FREEDEX), and the    *)
(* terms of an accept do not change (DEXMATH).                             *)
(***************************************************************************)
EXTENDS DExProofs

\* A feature that is live at the start and never switched off is live.
Live(f) == f \in features

\* No step switches off a feature that is not among those that may change.
LEMMA LiveStep ==
    ASSUME NEW f, f \notin MayToggle, Live(f), [Next]_vars
    PROVE  Live(f)'
<1>1. ASSUME NEW g \in MayToggle, ToggleFeature(g)
      PROVE  Live(f)'
  BY <1>1 DEF ToggleFeature, Live
<1>2. CASE UNCHANGED features
  BY <1>2 DEF Live
<1>3. TradeOffer => UNCHANGED features
  BY DEF TradeOffer, TradeOfferCancel, TradeOfferNew, TradeOfferUpdate, MayTradeOffer
<1>4. \A k \in AcceptKey : EraseExpiredAccept(k) => UNCHANGED features
  BY DEF EraseExpiredAccept
<1>5. BlockEnd \/ EraseExpiredAcceptsDone \/ UNCHANGED vars => UNCHANGED features
  BY DEF BlockEnd, EraseExpiredAcceptsDone, vars
<1>6. \A b, s \in Address, p \in Property :
         /\ \A n \in Amounts, fee \in Fees : AcceptOffer_XEP(b, s, p, n, fee) => UNCHANGED features
         /\ \A x \in Payments : HandleDExPayment(s, b, p, x) => UNCHANGED features
  BY DEF AcceptOffer_XEP, HandleDExPayment
<1>7. \A k \in MayFreeze : FreezeOrUnfreeze(k) => UNCHANGED features
  BY DEF FreezeOrUnfreeze
<1> QED
  BY <1>1, <1>2, <1>3, <1>4, <1>5, <1>6, <1>7 DEF Next

---------------------------------------------------------------------------
(* One offer per seller *)

\* OneOfferPerSeller of a map of offers.
Single(o) == \A s \in Address : \A p, q \in Property :
                o[<<s, p>>] # None /\ o[<<s, q>>] # None => p = q

\* Removing an offer leaves at most one.
LEMMA SingleWithout ==
    ASSUME NEW o \in [OfferKey -> Offer \cup {None}], Single(o),
           NEW s \in Address, NEW p \in Property
    PROVE  Single(With(o, <<s, p>>, None))
  BY DEF Single, With, OfferKey

\* An offer that DEx_offerCreate does not refuse is the only one of its seller.
LEMMA SingleCreate ==
    ASSUME Live("FREEDEX"), NEW d \in DState, Single(d.offers),
           NEW s \in Address, NEW p \in Property, NEW offered \in 0 .. MaxInt,
           NEW desired \in Int64, NEW minFee \in Int, NEW window \in Nat, NEW txid \in Txid
    PROVE  LET r == DEx_offerCreate(d, s, p, offered, desired, minFee, window, txid)
           IN  r.abort = NoAbort => Single(r.offers)
<1> DEFINE r == DEx_offerCreate(d, s, p, offered, desired, minFee, window, txid)
<1>1. OfferCreated(d, r, s, p, offered, desired, window, txid)
  BY OfferCreateEffect
<1> HIDE DEF r
<1>2. CASE r.abort = NoAbort /\ r.offers # d.offers
  <2>1. PICK o \in Offer : r.offers = With(d.offers, <<s, p>>, o)
    BY <1>1, <1>2 DEF OfferCreated
  <2>2. \A q \in Property : d.offers[<<s, q>>] = None
    BY <1>1, <1>2 DEF OfferCreated, OfferRefused, Live, DEx_hasOffer, DEx_offerExists
  <2>3. d.offers \in [OfferKey -> Offer \cup {None}]
    BY DEF DState
  <2> QED
    <3>1. ASSUME NEW a \in Address, NEW q \in Property, NEW q2 \in Property,
                 r.offers[<<a, q>>] # None, r.offers[<<a, q2>>] # None
          PROVE  q = q2
      <4>1. \A x \in Property : a = s => (r.offers[<<a, x>>] # None => x = p)
        BY <2>1, <2>2, <2>3 DEF With, OfferKey
      <4>2. \A x \in Property : a # s => r.offers[<<a, x>>] = d.offers[<<a, x>>]
        BY <2>1, <2>3 DEF With, OfferKey
      <4>3. CASE a = s
        BY <3>1, <4>1, <4>3
      <4>4. CASE a # s
        BY <3>1, <4>2, <4>4 DEF Single
      <4> QED BY <4>3, <4>4
    <3>2. \A a \in Address : \A q, q2 \in Property :
             r.offers[<<a, q>>] # None /\ r.offers[<<a, q2>>] # None => q = q2
      BY <3>1, Zenon
    <3>3. Single(r.offers)
      BY <3>2, Zenon DEF Single
    <3> QED BY <3>3 DEF r
<1>3. CASE r.abort # NoAbort \/ r.offers = d.offers
  BY <1>3 DEF r
<1> QED
  BY <1>2, <1>3 DEF r

\* Every action leaves a seller with one offer at most.
LEMMA SingleStep ==
    ASSUME TypeOK, Live("FREEDEX"), OneOfferPerSeller, [Next]_vars
    PROVE  OneOfferPerSeller'
<1> DEFINE c == Current
<1>0. c \in DState /\ c.offers = offers /\ c.accepts = accepts /\ Single(c.offers)
  BY CurrentType DEF Current, Single, OneOfferPerSeller
<1> HIDE DEF c
<1>1. ASSUME NEW r, Install(r), r.abort = NoAbort => Single(r.offers)
      PROVE  OneOfferPerSeller'
  BY <1>1, <1>0 DEF Install, Single, OneOfferPerSeller
<1>2. ASSUME NEW s \in Address, NEW p \in Property
      PROVE  LET e == DEx_offerDestroy(c, s, p)
             IN  e \in DState /\ (e.abort = NoAbort => Single(e.offers))
  <2> DEFINE e == DEx_offerDestroy(c, s, p)
  <2>1. e \in DState /\ (e.abort = NoAbort => e.offers = With(c.offers, <<s, p>>, None))
    BY <1>0, OfferDestroyEffect
  <2> HIDE DEF e
  <2>2. c.offers \in [OfferKey -> Offer \cup {None}]
    BY <1>0 DEF DState
  <2> QED
    BY <1>0, <2>1, <2>2, SingleWithout DEF e
<1>3. ASSUME NEW s \in Address, NEW p \in Property, TradeOfferCancel(s, p)
      PROVE  OneOfferPerSeller'
  BY <1>1, <1>2, <1>3 DEF TradeOfferCancel, c
<1>4. ASSUME NEW s \in Address, NEW p \in Property, NEW n \in Amounts, NEW x \in Prices,
             NEW f \in MinFees, NEW w \in Windows,
             TradeOfferNew(s, p, n, x, f, w) \/ TradeOfferUpdate(s, p, n, x, f, w)
      PROVE  OneOfferPerSeller'
  <2>1. FreshTxid \in Txid /\ n \in 0 .. MaxInt /\ x \in Int64 /\ f \in Int /\ w \in Nat
    BY <1>4, FreshTxidType, MaxIntAssumption, InputAssumption
       DEF TradeOfferNew, TradeOfferUpdate, MayTradeOffer
  <2>2. CASE TradeOfferNew(s, p, n, x, f, w)
    <3> DEFINE r == DEx_offerCreate(c, s, p, n, x, f, w, FreshTxid)
    <3>1. r.abort = NoAbort => Single(r.offers)
      BY <1>0, <2>1, SingleCreate
    <3>2. Install(r)
      BY <2>2 DEF TradeOfferNew, c
    <3> QED BY <1>1, <3>1, <3>2
  <2>3. CASE TradeOfferUpdate(s, p, n, x, f, w)
    <3> DEFINE e == DEx_offerDestroy(c, s, p)
               r == DEx_offerCreate(e, s, p, n, x, f, w, FreshTxid)
    <3>1. e \in DState /\ (e.abort = NoAbort => Single(e.offers))
      BY <1>2
    <3>2. Install(r)
      BY <2>3 DEF TradeOfferUpdate, DEx_offerUpdate, c
    <3> HIDE DEF e
    <3>3. r.abort = NoAbort => e.abort = NoAbort
      <4>1. OfferCreated(e, r, s, p, n, x, w, FreshTxid)
        BY <2>1, <3>1, OfferCreateEffect
      <4> QED BY <4>1 DEF OfferCreated
    <3>4. r.abort = NoAbort => Single(r.offers)
      BY <2>1, <3>1, <3>3, SingleCreate
    <3> QED BY <1>1, <3>2, <3>4
  <2> QED BY <1>4, <2>2, <2>3
<1>5. ASSUME NEW b \in Address, NEW s \in Address, NEW p \in Property,
             NEW n \in Amounts, NEW f \in Fees, AcceptOffer_XEP(b, s, p, n, f)
      PROVE  OneOfferPerSeller'
  <2> DEFINE r == DEx_acceptCreate(c, b, s, p, n, f)
  <2>1. n \in 1 .. MaxInt /\ f \in Int /\ Install(r)
    BY <1>5, InputAssumption DEF AcceptOffer_XEP, c
  <2>2. AcceptCreated(c, r, b, s, p)
    BY <1>0, <2>1, AcceptCreateEffect
  <2> HIDE DEF r
  <2> QED BY <1>0, <1>1, <2>1, <2>2 DEF AcceptCreated
<1>6. ASSUME NEW b \in Address, NEW s \in Address, NEW p \in Property,
             NEW x \in Payments, HandleDExPayment(s, b, p, x)
      PROVE  OneOfferPerSeller'
  <2> DEFINE r == DEx_payment(c, s, b, p, x)
  <2>1. c.accepts[<<s, p, b>>] # None /\ x \in Nat /\ Install(r)
    BY <1>6, InputAssumption DEF HandleDExPayment, IsPaidFor, DEx_acceptExists, c
  <2>2. Paid(c, r, s, b, p)
    BY <1>0, <2>1, PaymentEffect
  <2> HIDE DEF r
  <2>3. ASSUME NEW n \in Int, n <= c.accepts[<<s, p, b>>].remaining,
               r = BookPurchase(c, s, b, p, n), r.abort = NoAbort
        PROVE  Single(r.offers)
    <3>1. PurchaseBooked(c, r, s, b, p, n)
      BY <1>0, <2>1, <2>3, BookPurchaseEffect
    <3>2. r.offers = c.offers \/ r.offers = With(c.offers, <<s, p>>, None)
      BY <2>3, <3>1 DEF PurchaseBooked
    <3>3. c.offers \in [OfferKey -> Offer \cup {None}]
      BY <1>0 DEF DState
    <3> QED BY <1>0, <3>2, <3>3, SingleWithout
  <2>4. r.abort = NoAbort => Single(r.offers)
    BY <1>0, <2>2, <2>3 DEF Paid
  <2> QED BY <1>1, <2>1, <2>4
<1>7. ASSUME NEW k \in AcceptKey, EraseExpiredAccept(k)
      PROVE  OneOfferPerSeller'
  <2>1. PICK s \in Address, p \in Property, b \in Address : k = <<s, p, b>>
    BY DEF AcceptKey
  <2> DEFINE r == DEx_acceptDestroy(c, b, s, p)
  <2>2. c.accepts[<<s, p, b>>] # None /\ Install(r)
    BY <1>0, <1>7, <2>1 DEF EraseExpiredAccept, Expired, c
  <2>3. r.offers = c.offers
    BY <1>0, <2>2, AcceptDestroyEffect
  <2> HIDE DEF r
  <2> QED BY <1>0, <1>1, <2>2, <2>3
<1>8. CASE UNCHANGED offers
  BY <1>8 DEF OneOfferPerSeller
<1> QED
  BY <1>3, <1>4, <1>5, <1>6, <1>7, <1>8
     DEF Next, vars, TradeOffer, BlockEnd, EraseExpiredAcceptsDone, FreezeOrUnfreeze, ToggleFeature

\* With FREEDEX live from the start, the token for sale that DEx_getTokenForSale
\* finds is the only one of the seller, for any inputs and numbers of parties.
THEOREM SingleOffer ==
    ASSUME "FREEDEX" \in InitFeatures, "FREEDEX" \notin MayToggle
    PROVE  Spec => []OneOfferPerSeller
<1> DEFINE IInv == TypeOK /\ Live("FREEDEX") /\ OneOfferPerSeller
<1>1. Init => IInv
  <2>1. Init => Live("FREEDEX") /\ OneOfferPerSeller
    BY DEF Init, Live, OneOfferPerSeller, OfferKey
  <2> QED BY <2>1, TypeInit
<1>2. IInv /\ [Next]_vars => IInv'
  BY TypeStep, LiveStep, SingleStep
<1>3. IInv => OneOfferPerSeller
  OBVIOUS
<1> QED
  BY <1>1, <1>2, <1>3, PTL DEF Spec

---------------------------------------------------------------------------
(* The terms of accepts *)

\* What AcceptKeptOrEnded says of one accept.
KeptOrEnded(s, p, b) ==
    LET a == accepts[<<s, p, b>>]
        c == accepts'[<<s, p, b>>]
    IN  a # None =>
          \/ c # None /\ SameTerms(a, c) /\ c.remaining <= a.remaining
          \/ c = None /\ erasing /\ a.age >= a.window
          \/ c = None /\ tally'[<<b, p, "BALANCE">>] >= tally[<<b, p, "BALANCE">>] + a.remaining

\* AcceptKeptOrEnded is KeptOrEnded of every accept.
LEMMA AllKept ==
    ASSUME \A s, b \in Address, p \in Property : KeptOrEnded(s, p, b)
    PROVE  AcceptKeptOrEnded
  BY Zenon DEF AcceptKeptOrEnded, KeptOrEnded

\* An accept that a step does not touch is kept.
LEMMA UntouchedIsKept ==
    ASSUME TypeOK, NEW s \in Address, NEW p \in Property, NEW b \in Address,
           accepts'[<<s, p, b>>] = accepts[<<s, p, b>>]
    PROVE  KeptOrEnded(s, p, b)
<1>1. accepts[<<s, p, b>>] # None => accepts[<<s, p, b>>].remaining \in Int
  BY DEF TypeOK, AcceptKey, Accept
<1> QED
  BY <1>1 DEF KeptOrEnded, SameTerms

\* A step that replaces one entry keeps all other accepts.
LEMMA OthersAreKept ==
    ASSUME TypeOK, NEW s \in Address, NEW p \in Property, NEW b \in Address, NEW v,
           accepts' = With(accepts, <<s, p, b>>, v), KeptOrEnded(s, p, b)
    PROVE  AcceptKeptOrEnded
<1>1. ASSUME NEW s1 \in Address, NEW p1 \in Property, NEW b1 \in Address
      PROVE  KeptOrEnded(s1, p1, b1)
  <2>1. CASE <<s1, p1, b1>> = <<s, p, b>>
    <3>1. s1 = s /\ p1 = p /\ b1 = b
      BY <2>1
    <3> QED BY <3>1
  <2>2. CASE <<s1, p1, b1>> # <<s, p, b>>
    <3>1. accepts'[<<s1, p1, b1>>] = accepts[<<s1, p1, b1>>]
      BY <2>2 DEF TypeOK, With, AcceptKey
    <3> QED BY <3>1, UntouchedIsKept
  <2> QED BY <2>1, <2>2
<1> QED
  BY <1>1, AllKept

\* A step that changes no accept keeps them all.
LEMMA SameAcceptsAreKept ==
    ASSUME TypeOK, accepts' = accepts
    PROVE  AcceptKeptOrEnded
<1>1. ASSUME NEW s \in Address, NEW p \in Property, NEW b \in Address
      PROVE  KeptOrEnded(s, p, b)
  BY UntouchedIsKept
<1> QED
  BY <1>1, AllKept

\* A purchase reduces the accept and nothing else of it, or gives the buyer what
\* was left.
LEMMA PurchaseKeepsTerms ==
    ASSUME TypeOK, NEW s \in Address, NEW b \in Address, NEW p \in Property,
           accepts[<<s, p, b>>] # None, NEW r,
           NEW n \in Int, n <= accepts[<<s, p, b>>].remaining,
           n >= 0 \/ n = accepts[<<s, p, b>>].remaining,
           PurchaseBooked(Current, r, s, b, p, n), Install(r)
    PROVE  AcceptKeptOrEnded
<1> DEFINE k == <<s, p, b>>
           a == accepts[k]
           left == a.remaining - n
<1>0. k \in AcceptKey /\ a \in Accept /\ a # None
  BY DEF TypeOK, AcceptKey
<1>1. a.remaining \in Int /\ left \in Int /\ left >= 0
  BY <1>0 DEF Accept
<1>2. CASE r.abort # NoAbort
  <2>1. accepts' = accepts
    BY <1>2 DEF Install
  <2> QED BY <2>1, SameAcceptsAreKept
<1>3. CASE r.abort = NoAbort
  <2>1. /\ accepts' = With(accepts, k, Reduced(a, left))
        /\ tally' = IF n > 0
                    THEN Moved(tally, <<s, p, "ACCEPT_RESERVE">>, <<b, p, "BALANCE">>, n)
                    ELSE tally
    BY <1>3 DEF Install, PurchaseBooked, Current
  <2>2. accepts'[k] = Reduced(a, left)
    BY <1>0, <2>1 DEF TypeOK, With
  <2>3. CASE left > 0
    <3>1. accepts'[k] = [a EXCEPT !.remaining = left]
      BY <2>2, <2>3 DEF Reduced
    <3>2. [a EXCEPT !.remaining = left] \in Accept /\ left <= a.remaining
      BY <1>0, <1>1, <2>3 DEF Accept
    <3>3. accepts'[k] # None /\ SameTerms(a, accepts'[k]) /\ accepts'[k].remaining = left
      BY <1>0, <3>1, <3>2, NoneAssumption DEF SameTerms, Accept
    <3>4. KeptOrEnded(s, p, b)
      BY <3>2, <3>3 DEF KeptOrEnded
    <3> QED BY <2>1, <3>4, OthersAreKept
  <2>4. CASE left = 0
    <3>1. accepts'[k] = None
      BY <2>2, <2>4 DEF Reduced
    <3>2. tally'[<<b, p, "BALANCE">>] >= tally[<<b, p, "BALANCE">>] + a.remaining
      <4>1. /\ <<b, p, "BALANCE">> \in TallyKey /\ <<s, p, "ACCEPT_RESERVE">> \in TallyKey
            /\ <<b, p, "BALANCE">> # <<s, p, "ACCEPT_RESERVE">>
            /\ tally \in [TallyKey -> Int]
        BY TallyTypes DEF TallyKey, TypeOK, Tallies, Int64
      <4>2. n = a.remaining
        BY <1>1, <2>4
      <4>3. CASE n > 0
        <5>1. tally'[<<b, p, "BALANCE">>] = tally[<<b, p, "BALANCE">>] + n
          BY <2>1, <4>1, <4>3 DEF Moved
        <5> QED BY <4>1, <4>2, <5>1
      <4>4. CASE ~(n > 0)
        <5>1. tally'[<<b, p, "BALANCE">>] = tally[<<b, p, "BALANCE">>]
          BY <2>1, <4>4
        <5> QED BY <4>1, <4>2, <4>4, <5>1
      <4> QED BY <4>3, <4>4
    <3>3. KeptOrEnded(s, p, b)
      BY <3>1, <3>2 DEF KeptOrEnded
    <3> QED BY <2>1, <3>3, OthersAreKept
  <2> QED BY <1>1, <2>3, <2>4
<1> QED BY <1>2, <1>3

\* Every action keeps the terms of every accept.
LEMMA TermsStep ==
    ASSUME TypeOK, Live("DEXMATH"), Next
    PROVE  AcceptKeptOrEnded
<1> DEFINE c == Current
<1>0. c \in DState /\ c.accepts = accepts
  BY CurrentType DEF Current
<1> HIDE DEF c
<1>1. ASSUME NEW r, Install(r), r.accepts = accepts
      PROVE  AcceptKeptOrEnded
  <2>1. accepts' = accepts
    BY <1>1 DEF Install
  <2> QED BY <2>1, SameAcceptsAreKept
<1>2. ASSUME NEW s \in Address, NEW p \in Property, TradeOfferCancel(s, p)
      PROVE  AcceptKeptOrEnded
  <2> DEFINE r == DEx_offerDestroy(c, s, p)
  <2>1. r.accepts = c.accepts
    BY <1>0, OfferDestroyEffect
  <2>2. Install(r)
    BY <1>2 DEF TradeOfferCancel, c
  <2> HIDE DEF r
  <2> QED BY <1>0, <1>1, <2>1, <2>2
<1>3. ASSUME NEW s \in Address, NEW p \in Property, NEW n \in Amounts, NEW x \in Prices,
             NEW f \in MinFees, NEW w \in Windows,
             TradeOfferNew(s, p, n, x, f, w) \/ TradeOfferUpdate(s, p, n, x, f, w)
      PROVE  AcceptKeptOrEnded
  <2>1. FreshTxid \in Txid /\ n \in 0 .. MaxInt /\ x \in Int64 /\ f \in Int /\ w \in Nat
    BY <1>3, FreshTxidType, MaxIntAssumption, InputAssumption
       DEF TradeOfferNew, TradeOfferUpdate, MayTradeOffer
  <2>2. ASSUME NEW d \in DState
        PROVE  DEx_offerCreate(d, s, p, n, x, f, w, FreshTxid).accepts = d.accepts
    <3>1. OfferCreated(d, DEx_offerCreate(d, s, p, n, x, f, w, FreshTxid), s, p, n, x, w, FreshTxid)
      BY <2>1, OfferCreateEffect
    <3> QED BY <3>1 DEF OfferCreated
  <2>3. CASE TradeOfferNew(s, p, n, x, f, w)
    <3> DEFINE r == DEx_offerCreate(c, s, p, n, x, f, w, FreshTxid)
    <3>1. Install(r)
      BY <2>3 DEF TradeOfferNew, c
    <3>2. r.accepts = accepts
      BY <1>0, <2>2
    <3> HIDE DEF r
    <3> QED BY <1>1, <3>1, <3>2
  <2>4. CASE TradeOfferUpdate(s, p, n, x, f, w)
    <3> DEFINE e == DEx_offerDestroy(c, s, p)
               r == DEx_offerCreate(e, s, p, n, x, f, w, FreshTxid)
    <3>1. Install(r)
      BY <2>4 DEF TradeOfferUpdate, DEx_offerUpdate, c
    <3>2. e \in DState /\ e.accepts = c.accepts
      BY <1>0, OfferDestroyEffect
    <3> HIDE DEF e
    <3>3. r.accepts = accepts
      BY <1>0, <2>2, <3>2
    <3> HIDE DEF r
    <3> QED BY <1>1, <3>1, <3>3
  <2> QED BY <1>3, <2>3, <2>4
<1>4. ASSUME NEW b \in Address, NEW s \in Address, NEW p \in Property,
             NEW n \in Amounts, NEW f \in Fees, AcceptOffer_XEP(b, s, p, n, f)
      PROVE  AcceptKeptOrEnded
  <2> DEFINE r == DEx_acceptCreate(c, b, s, p, n, f)
  <2>1. n \in 1 .. MaxInt /\ f \in Int /\ Install(r)
    BY <1>4, InputAssumption DEF AcceptOffer_XEP, c
  <2>2. AcceptCreated(c, r, b, s, p)
    BY <1>0, <2>1, AcceptCreateEffect
  <2> HIDE DEF r
  <2>3. CASE accepts' = accepts
    BY <2>3, SameAcceptsAreKept
  <2>4. CASE accepts' # accepts
    <3>1. r.abort = NoAbort /\ r.accepts # accepts /\ accepts' = r.accepts
      BY <2>1, <2>4 DEF Install
    <3>2. accepts[<<s, p, b>>] = None /\ \E a \in Accept : r.accepts = With(accepts, <<s, p, b>>, a)
      BY <1>0, <2>2, <3>1 DEF AcceptCreated
    <3>3. KeptOrEnded(s, p, b)
      BY <3>2 DEF KeptOrEnded
    <3> QED BY <3>1, <3>2, <3>3, OthersAreKept
  <2> QED BY <2>3, <2>4
<1>5. ASSUME NEW b \in Address, NEW s \in Address, NEW p \in Property,
             NEW x \in Payments, HandleDExPayment(s, b, p, x)
      PROVE  AcceptKeptOrEnded
  <2> DEFINE r == DEx_payment(c, s, b, p, x)
  <2>1. accepts[<<s, p, b>>] # None /\ x \in Nat /\ Install(r)
    BY <1>0, <1>5, InputAssumption DEF HandleDExPayment, IsPaidFor, DEx_acceptExists, c
  <2>2. Paid(c, r, s, b, p)
    BY <1>0, <2>1, PaymentEffect
  <2> HIDE DEF r
  <2>3. CASE accepts' = accepts
    BY <2>3, SameAcceptsAreKept
  <2>4. CASE accepts' # accepts
    <3>1. r.abort = NoAbort /\ r.accepts # accepts
      BY <2>1, <2>4 DEF Install
    <3>2. PICK n \in Int : /\ n <= accepts[<<s, p, b>>].remaining
                           /\ n >= 0 \/ n = accepts[<<s, p, b>>].remaining
                           /\ r = BookPurchase(c, s, b, p, n)
      BY <1>0, <2>2, <3>1 DEF Paid, Live
    <3>3. PurchaseBooked(c, r, s, b, p, n)
      BY <1>0, <2>1, <3>2, BookPurchaseEffect
    <3> QED BY <2>1, <3>2, <3>3, PurchaseKeepsTerms DEF c
  <2> QED BY <2>3, <2>4
<1>6. ASSUME NEW k \in AcceptKey, EraseExpiredAccept(k)
      PROVE  AcceptKeptOrEnded
  <2>1. PICK s \in Address, p \in Property, b \in Address : k = <<s, p, b>>
    BY DEF AcceptKey
  <2> DEFINE r == DEx_acceptDestroy(c, b, s, p)
  <2>2. accepts[<<s, p, b>>] # None /\ Install(r)
    BY <1>6, <2>1 DEF EraseExpiredAccept, Expired, c
  <2>3. erasing /\ accepts[<<s, p, b>>].age >= accepts[<<s, p, b>>].window
    BY <1>6, <2>1 DEF EraseExpiredAccept, Expired
  <2>4. r.accepts = With(accepts, <<s, p, b>>, None)
    BY <1>0, <2>2, AcceptDestroyEffect
  <2> HIDE DEF r
  <2>5. CASE accepts' = accepts
    BY <2>5, SameAcceptsAreKept
  <2>6. CASE accepts' # accepts
    <3>1. accepts' = With(accepts, <<s, p, b>>, None)
      BY <2>2, <2>4, <2>6 DEF Install
    <3>2. accepts'[<<s, p, b>>] = None
      BY <3>1 DEF TypeOK, With, AcceptKey
    <3>3. KeptOrEnded(s, p, b)
      BY <2>3, <3>2 DEF KeptOrEnded
    <3> QED BY <3>1, <3>3, OthersAreKept
  <2> QED BY <2>5, <2>6
<1>7. CASE EraseExpiredAcceptsDone
  <2>1. ASSUME NEW s \in Address, NEW p \in Property, NEW b \in Address
        PROVE  KeptOrEnded(s, p, b)
    <3> SUFFICES ASSUME accepts[<<s, p, b>>] # None
                 PROVE  KeptOrEnded(s, p, b)
      BY DEF KeptOrEnded
    <3> DEFINE a == accepts[<<s, p, b>>]
    <3>1. a \in Accept /\ <<s, p, b>> \in AcceptKey
      BY DEF TypeOK, AcceptKey
    <3>2. accepts'[<<s, p, b>>] = [a EXCEPT !.age = @ + 1]
      BY <1>7, <3>1, Zenon DEF EraseExpiredAcceptsDone
    <3> HIDE DEF a
    <3>3. [a EXCEPT !.age = @ + 1] \in Accept /\ a.remaining \in Int
      BY <3>1 DEF Accept
    <3>4. SameTerms(a, [a EXCEPT !.age = @ + 1]) /\ [a EXCEPT !.age = @ + 1].remaining = a.remaining
      BY <3>1 DEF SameTerms, Accept
    <3> QED
      BY <3>2, <3>3, <3>4, NoneAssumption DEF KeptOrEnded, a
  <2> QED
    BY <2>1, AllKept
<1>8. CASE accepts' = accepts
  BY <1>8, SameAcceptsAreKept
<1>9. BlockEnd \/ (\E k \in MayFreeze : FreezeOrUnfreeze(k)) \/ (\E f \in MayToggle : ToggleFeature(f))
        => accepts' = accepts
  BY DEF BlockEnd, FreezeOrUnfreeze, ToggleFeature
<1> QED
  BY <1>2, <1>3, <1>4, <1>5, <1>6, <1>7, <1>8, <1>9 DEF Next, TradeOffer

\* With DEXMATH live from the start, whatever the seller does with the offer: the
\* price, window and offer of an accept stay those of the moment it was made, and
\* it ends only by expiry or because the buyer received all that was left of it.
THEOREM TermsKept ==
    ASSUME "DEXMATH" \in InitFeatures, "DEXMATH" \notin MayToggle
    PROVE  Spec => AcceptsKeepTerms
<1> DEFINE IInv == TypeOK /\ Live("DEXMATH")
<1>1. Init => IInv
  <2>1. Init => Live("DEXMATH")
    BY DEF Init, Live
  <2> QED BY <2>1, TypeInit
<1>2. IInv /\ [Next]_vars => IInv'
  BY TypeStep, LiveStep
<1>3. IInv /\ [Next]_vars => [AcceptKeptOrEnded]_vars
  BY TermsStep
<1> QED
  BY <1>1, <1>2, <1>3, PTL DEF Spec, AcceptsKeepTerms
=============================================================================
