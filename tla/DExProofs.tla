------------------------------ MODULE DExProofs ------------------------------
(***************************************************************************)
(* Proofs about the distributed exchange, for any number of addresses,     *)
(* properties and tokens, any int64 width and any inputs.                  *)
(*                                                                         *)
(* Each DEx_* operator has a lemma that says what it does to the state of  *)
(* a handler; the theorems follow from these lemmas action by action.      *)
(***************************************************************************)
EXTENDS DEx, TLAPS

Aborts == {NoAbort, "update_tally_map", "uint256_extensions"}

\* The states a handler goes through.
DState == [tally : Tallies,
           offers : [OfferKey -> Offer \cup {None}],
           accepts : [AcceptKey -> Accept \cup {None}],
           valid : BOOLEAN,
           abort : Aborts]

\* A map after a debit and a credit, and with another entry.
Moved(t, from, to, n) == [[t EXCEPT ![from] = @ - n] EXCEPT ![to] = @ + n]
With(f, k, v) == [f EXCEPT ![k] = v]

\* An accept that has an amount left, or is closed.
Reduced(accept, left) == IF left > 0 THEN [accept EXCEPT !.remaining = left] ELSE None

\* An asserted update keeps the types and changes one tally by the amount, or
\* stops the process (update_tally_map and the assert around it).
LEMMA AssertUpdateEffect ==
    ASSUME NEW d \in DState, NEW who \in Address, NEW p \in Property,
           NEW tt \in TallyType, NEW amount \in Int, NEW F
    PROVE  LET r == AssertUpdate(d, F, who, p, amount, tt)
               k == <<who, p, tt>>
           IN  /\ r \in DState
               /\ r.offers = d.offers /\ r.accepts = d.accepts /\ r.valid = d.valid
               /\ r.abort = NoAbort =>
                    d.abort = NoAbort /\ r.tally = [d.tally EXCEPT ![k] = @ + amount]
<1> DEFINE r == AssertUpdate(d, F, who, p, amount, tt)
           k == <<who, p, tt>>
<1>1. k \in TallyKey /\ k[3] = tt
  BY DEF TallyKey
<1>2. CASE d.abort # NoAbort
  BY <1>2 DEF AssertUpdate, DState
<1>3. CASE /\ d.abort = NoAbort
           /\ updateMoneySucceeds(d.tally, k, amount)
           /\ ~(tt = "BALANCE" /\ amount < 0 /\ <<who, p>> \in F)
  <2>1. r = [d EXCEPT !.tally[k] = @ + amount]
    BY <1>3 DEF AssertUpdate
  <2>2. d.tally \in [TallyKey -> Int64] /\ d.tally[k] \in Int64
    BY <1>1 DEF DState, Tallies
  <2>3. d.tally[k] + amount \in Int64
    BY <1>3, <2>2, MaxIntAssumption DEF updateMoneySucceeds, isOverflow, Int64, MinInt
  <2>4. tt # "PENDING" => d.tally[k] + amount >= 0
    BY <1>1, <1>3 DEF updateMoneySucceeds
  <2>5. [d.tally EXCEPT ![k] = @ + amount] \in Tallies
    BY <1>1, <2>2, <2>3, <2>4 DEF DState, Tallies
  <2> QED
    BY <1>3, <2>1, <2>5 DEF DState
<1>4. CASE /\ d.abort = NoAbort
           /\ ~ (/\ updateMoneySucceeds(d.tally, k, amount)
                 /\ ~(tt = "BALANCE" /\ amount < 0 /\ <<who, p>> \in F))
  <2>1. r = [d EXCEPT !.abort = "update_tally_map"]
    BY <1>4 DEF AssertUpdate
  <2> QED
    BY <2>1 DEF DState, Aborts, NoAbort
<1> QED
  BY <1>2, <1>3, <1>4
\* Moving tokens between tallies of different types debits one and credits the
\* other by the same amount, or stops the process.
LEMMA MoveEffect ==
    ASSUME NEW d \in DState, NEW from \in Address, NEW to \in Address,
           NEW p \in Property, NEW ft \in TallyType, NEW tt \in TallyType,
           NEW amount \in Int, NEW F
    PROVE  LET r == Move(d, F, from, to, p, ft, tt, amount)
           IN  /\ r \in DState
               /\ r.offers = d.offers /\ r.accepts = d.accepts /\ r.valid = d.valid
               /\ r.abort = NoAbort =>
                    /\ d.abort = NoAbort
                    /\ r.tally = Moved(d.tally, <<from, p, ft>>, <<to, p, tt>>, amount)
<1> DEFINE r1 == AssertUpdate(d, F, from, p, -amount, ft)
           r2 == AssertUpdate(r1, F, to, p, amount, tt)
<1>1. /\ r1 \in DState
      /\ r1.offers = d.offers /\ r1.accepts = d.accepts /\ r1.valid = d.valid
      /\ r1.abort = NoAbort =>
           d.abort = NoAbort /\ r1.tally = [d.tally EXCEPT ![<<from, p, ft>>] = @ + (-amount)]
  BY AssertUpdateEffect, -amount \in Int
<1>2. /\ r2 \in DState
      /\ r2.offers = r1.offers /\ r2.accepts = r1.accepts /\ r2.valid = r1.valid
      /\ r2.abort = NoAbort =>
           r1.abort = NoAbort /\ r2.tally = [r1.tally EXCEPT ![<<to, p, tt>>] = @ + amount]
  BY <1>1, AssertUpdateEffect
<1>3. d.tally[<<from, p, ft>>] \in Int
  BY DEF DState, Tallies, TallyKey, Int64
<1>4. [d.tally EXCEPT ![<<from, p, ft>>] = @ + (-amount)]
        = [d.tally EXCEPT ![<<from, p, ft>>] = @ - amount]
  BY <1>3
<1> HIDE DEF r1, r2
<1>5. /\ r2 \in DState
      /\ r2.offers = d.offers /\ r2.accepts = d.accepts /\ r2.valid = d.valid
      /\ r2.abort = NoAbort =>
           /\ d.abort = NoAbort
           /\ r2.tally = Moved(d.tally, <<from, p, ft>>, <<to, p, tt>>, amount)
  BY <1>1, <1>2, <1>4 DEF Moved
<1> QED
  BY <1>5 DEF Move, r1, r2

\* The tallies a seller's tokens are in.
LEMMA TallyTypes ==
    /\ "BALANCE" \in TallyType
    /\ "SELLOFFER_RESERVE" \in TallyType
    /\ "ACCEPT_RESERVE" \in TallyType
  BY DEF TallyType

\* Rounding a quotient by a positive divisor does not exceed the dividend.
LEMMA DivideAndRoundRange ==
    ASSUME NEW a \in Nat, NEW b \in Nat \ {0}
    PROVE  DivideAndRound(a, b) \in 0 .. a
<1> DEFINE q == (2 * a + b) \div (2 * b)
<1>1. 2 * a + b \in Nat /\ 2 * b \in Nat \ {0}
  OBVIOUS
<1>2. q \in Nat /\ (2 * b) * q <= 2 * a + b
  BY <1>1
<1> HIDE DEF q
<1>3. SUFFICES ASSUME q >= a + 1 PROVE FALSE
  BY <1>2 DEF DivideAndRound, q
<1>4. (2 * b) * q >= (2 * b) * (a + 1)
  BY <1>2, <1>3
<1>5. (2 * b) * (a + 1) = 2 * (a * b) + 2 * b
  OBVIOUS
<1>6. a * b >= a
  OBVIOUS
<1>7. a * b \in Nat /\ (2 * b) * q \in Int
  BY <1>2
<1> QED
  BY <1>2, <1>4, <1>5, <1>6, <1>7

\* An unsigned 64-bit value read as an int64_t.
LEMMA ToInt64Type ==
    ASSUME NEW u \in 0 .. 2 * (MaxInt + 1) - 1
    PROVE  ToInt64(u) \in Int64
  BY MaxIntAssumption DEF ToInt64, Int64, MinInt

\* The legacy price of a clamped offer is an int64_t.
LEMMA LegacyPriceType ==
    ASSUME NEW offered \in Nat \ {0}, NEW desired \in Int, NEW available \in Nat
    PROVE  legacy_calculateDesiredXEP(offered, desired, available) \in Int64
<1> DEFINE U == 2 * (MaxInt + 1)
           a == ((desired % U) * available) % U
<1>1. U \in Nat \ {0}
  BY MaxIntAssumption
<1>2. desired % U \in Nat
  BY <1>1
<1>3. (desired % U) * available \in Int
  BY <1>2
<1>4. a \in 0 .. U - 1
  BY <1>1, <1>3
<1>5. DivideAndRound(a, offered) \in 0 .. U - 1
  <2> HIDE DEF a
  <2>1. DivideAndRound(a, offered) \in 0 .. a
    BY <1>4, DivideAndRoundRange
  <2> QED
    BY <1>1, <1>4, <2>1
<1> HIDE DEF a
<1>6. ToInt64(DivideAndRound(a, offered)) \in Int64
  BY <1>5, ToInt64Type
<1> QED
  BY <1>6 DEF legacy_calculateDesiredXEP, a

\* What DEx_offerCreate makes of the state d.
OfferCreated(d, r, s, p, offered, desired, window, txid) ==
    /\ r \in DState
    /\ r.accepts = d.accepts
    /\ r.abort = NoAbort =>
         /\ d.abort = NoAbort
         /\ \/ r.tally = d.tally /\ r.offers = d.offers
            \/ /\ ~OfferRefused(d, s, p, offered, desired, window)
               /\ \E n \in 1 .. MaxInt :
                     r.tally = Moved(d.tally, <<s, p, "BALANCE">>, <<s, p, "SELLOFFER_RESERVE">>, n)
               /\ \E o \in Offer : /\ o.txid = txid
                                   /\ r.offers = With(d.offers, <<s, p>>, o)

\* DEx_offerCreate refuses the offer and changes no map, or takes the tokens
\* from the balance into the reserve of a new offer.
LEMMA OfferCreateEffect ==
    ASSUME NEW d \in DState, NEW s \in Address, NEW p \in Property,
           NEW offered \in 0 .. MaxInt, NEW desired \in Int64, NEW minFee \in Int,
           NEW window \in Nat, NEW txid \in Txid
    PROVE  OfferCreated(d, DEx_offerCreate(d, s, p, offered, desired, minFee, window, txid), s, p, offered, desired, window, txid)
<1> DEFINE r == DEx_offerCreate(d, s, p, offered, desired, minFee, window, txid)
           available == d.tally[<<s, p, "BALANCE">>]
           n == IF offered > available THEN available ELSE offered
           price == IF offered > available
                    THEN legacy_calculateDesiredXEP(offered, desired, available) ELSE desired
           moved == Move(d, frozen, s, s, p, "BALANCE", "SELLOFFER_RESERVE", n)
           o == [amount |-> n, desired |-> price, minFee |-> minFee,
                 window |-> window, txid |-> txid]
<1>1. available \in 0 .. MaxInt
  BY TallyTypes DEF DState, Tallies, TallyKey, Int64
<1>2. CASE OfferRefused(d, s, p, offered, desired, window)
  <2>1. r = [d EXCEPT !.valid = FALSE]
    BY <1>2 DEF DEx_offerCreate, Invalid
  <2> QED
    BY <2>1 DEF DState, OfferCreated
<1>3. CASE ~OfferRefused(d, s, p, offered, desired, window)
  <2>1. n \in 1 .. MaxInt /\ offered \in Nat \ {0}
    BY <1>1, <1>3, MaxIntAssumption DEF OfferRefused
  <2>2. price \in Int64
    <3>1. desired \in Int
      BY DEF Int64
    <3>2. available \in Nat
      BY <1>1
    <3> HIDE DEF available
    <3>3. legacy_calculateDesiredXEP(offered, desired, available) \in Int64
      BY <2>1, <3>1, <3>2, LegacyPriceType
    <3> QED BY <3>3
  <2>3. o \in Offer /\ o.txid = txid
    <3> HIDE DEF n, price
    <3> QED BY <2>1, <2>2 DEF Offer
  <2>4. /\ moved \in DState
        /\ moved.offers = d.offers /\ moved.accepts = d.accepts
        /\ moved.abort = NoAbort =>
             /\ d.abort = NoAbort
             /\ moved.tally = Moved(d.tally, <<s, p, "BALANCE">>, <<s, p, "SELLOFFER_RESERVE">>, n)
    <3> HIDE DEF n
    <3>1. n \in Int
      BY <2>1
    <3> QED BY <3>1, MoveEffect, TallyTypes
  <2>5. r = [moved EXCEPT !.offers[<<s, p>>] = o]
    BY <1>3 DEF DEx_offerCreate
  <2> HIDE DEF r, o, moved, n
  <2>6. With(moved.offers, <<s, p>>, o) \in [OfferKey -> Offer \cup {None}]
    BY <2>3, <2>4 DEF DState, With
  <2>7. /\ r \in DState
        /\ r.tally = moved.tally /\ r.accepts = moved.accepts /\ r.abort = moved.abort
        /\ r.offers = With(moved.offers, <<s, p>>, o)
    BY <2>4, <2>5, <2>6 DEF DState, With
  <2> QED
    BY <1>3, <2>1, <2>3, <2>4, <2>7 DEF r, OfferCreated
<1> QED
  BY <1>2, <1>3

\* DEx_offerDestroy empties the reserve into the balance and drops the offer.
LEMMA OfferDestroyEffect ==
    ASSUME NEW d \in DState, NEW s \in Address, NEW p \in Property
    PROVE  LET r == DEx_offerDestroy(d, s, p)
               n == d.tally[<<s, p, "SELLOFFER_RESERVE">>]
           IN  /\ r \in DState
               /\ r.accepts = d.accepts
               /\ n \in 0 .. MaxInt
               /\ r.abort = NoAbort =>
                    /\ d.abort = NoAbort
                    /\ r.offers = With(d.offers, <<s, p>>, None)
                    /\ r.tally = Moved(d.tally, <<s, p, "SELLOFFER_RESERVE">>, <<s, p, "BALANCE">>, n)
<1> DEFINE r == DEx_offerDestroy(d, s, p)
           n == d.tally[<<s, p, "SELLOFFER_RESERVE">>]
           m == Move(d, frozen, s, s, p, "SELLOFFER_RESERVE", "BALANCE", n)
           moved == IF n > 0 THEN m ELSE d
           after == Moved(d.tally, <<s, p, "SELLOFFER_RESERVE">>, <<s, p, "BALANCE">>, n)
<1>1. n \in 0 .. MaxInt
  BY TallyTypes DEF DState, Tallies, TallyKey, Int64
<1>2. /\ m \in DState
      /\ m.offers = d.offers /\ m.accepts = d.accepts
      /\ m.abort = NoAbort => d.abort = NoAbort /\ m.tally = after
  <2> HIDE DEF n
  <2>1. n \in Int
    BY <1>1
  <2> QED BY <2>1, MoveEffect, TallyTypes
<1>3. n = 0 => after = d.tally
  BY TallyTypes DEF DState, Tallies, TallyKey, Int64, Moved
<1>4. r = [moved EXCEPT !.offers[<<s, p>>] = None]
  BY DEF DEx_offerDestroy, AmountReserved
<1> HIDE DEF r, m, n, after
<1>5. /\ moved \in DState
      /\ moved.offers = d.offers /\ moved.accepts = d.accepts
      /\ moved.abort = NoAbort => d.abort = NoAbort /\ moved.tally = after
  BY <1>1, <1>2, <1>3
<1> HIDE DEF moved
<1>6. /\ r \in DState
      /\ r.tally = moved.tally /\ r.accepts = moved.accepts /\ r.abort = moved.abort
      /\ r.offers = With(moved.offers, <<s, p>>, None)
  BY <1>4, <1>5 DEF DState, With
<1> QED
  BY <1>1, <1>5, <1>6 DEF r, n, after
\* What DEx_acceptCreate makes of the state d.
AcceptCreated(d, r, b, s, p) ==
    /\ r \in DState
    /\ r.offers = d.offers
    /\ r.abort = NoAbort =>
         /\ d.abort = NoAbort
         /\ \/ r.tally = d.tally /\ r.accepts = d.accepts
            \/ /\ d.offers[<<s, p>>] # None
               /\ d.accepts[<<s, p, b>>] = None
               /\ \E n \in 1 .. MaxInt, a \in Accept :
                     /\ r.tally = Moved(d.tally, <<s, p, "SELLOFFER_RESERVE">>, <<s, p, "ACCEPT_RESERVE">>, n)
                     /\ a.remaining = n
                     /\ r.accepts = With(d.accepts, <<s, p, b>>, a)

\* DEx_acceptCreate changes no map, or moves tokens of an existing offer into the
\* reserve of a new accept.
LEMMA AcceptCreateEffect ==
    ASSUME NEW d \in DState, NEW b \in Address, NEW s \in Address, NEW p \in Property,
           NEW amount \in 1 .. MaxInt, NEW fee \in Int
    PROVE  AcceptCreated(d, DEx_acceptCreate(d, b, s, p, amount, fee), b, s, p)
<1> DEFINE r == DEx_acceptCreate(d, b, s, p, amount, fee)
           k == <<s, p, b>>
           offer == d.offers[<<s, p>>]
           forSale == d.tally[<<s, p, "SELLOFFER_RESERVE">>]
           n == IF forSale >= amount THEN amount ELSE forSale
           moved == Move(d, frozen, s, s, p, "SELLOFFER_RESERVE", "ACCEPT_RESERVE", n)
           a == [remaining |-> n, amount |-> offer.amount, desired |-> offer.desired,
                 window |-> offer.window, txid |-> offer.txid, age |-> 0]
           refused == \/ ~DEx_offerExists(d, s, p)
                      \/ DEx_acceptExists(d, s, p, b)
                      \/ fee < offer.minFee
                      \/ n = 0
<1>1. n \in 0 .. MaxInt
  <2>1. forSale \in 0 .. MaxInt
    BY TallyTypes DEF DState, Tallies, TallyKey, Int64
  <2> QED BY <2>1
<1>2. CASE refused
  <2>1. r = [d EXCEPT !.valid = FALSE]
    BY <1>2 DEF DEx_acceptCreate, Invalid
  <2> QED
    BY <2>1 DEF DState, AcceptCreated
<1>3. CASE ~refused
  <2>1. n \in 1 .. MaxInt /\ offer # None /\ d.accepts[k] = None
    BY <1>1, <1>3 DEF DEx_offerExists, DEx_acceptExists
  <2>2. offer \in Offer
    BY <2>1 DEF DState, OfferKey
  <2>3. a \in Accept
    <3> HIDE DEF n, offer
    <3> QED BY <2>1, <2>2 DEF Offer, Accept
  <2>4. /\ moved \in DState
        /\ moved.offers = d.offers /\ moved.accepts = d.accepts
        /\ moved.abort = NoAbort =>
             /\ d.abort = NoAbort
             /\ moved.tally = Moved(d.tally, <<s, p, "SELLOFFER_RESERVE">>, <<s, p, "ACCEPT_RESERVE">>, n)
    <3> HIDE DEF n
    <3>1. n \in Int
      BY <2>1
    <3> QED BY <3>1, MoveEffect, TallyTypes
  <2>5. r = [moved EXCEPT !.accepts[k] = a]
    BY <1>3 DEF DEx_acceptCreate
  <2> HIDE DEF r, a, moved, n
  <2>6. With(moved.accepts, k, a) \in [AcceptKey -> Accept \cup {None}]
    BY <2>3, <2>4 DEF DState, With
  <2>7. /\ r \in DState
        /\ r.tally = moved.tally /\ r.offers = moved.offers /\ r.abort = moved.abort
        /\ r.accepts = With(moved.accepts, k, a)
    BY <2>4, <2>5, <2>6 DEF DState, With
  <2>8. a.remaining = n
    BY DEF a
  <2> QED
    BY <2>1, <2>3, <2>4, <2>7, <2>8 DEF r, AcceptCreated
<1> QED
  BY <1>2, <1>3

\* DEx_acceptDestroy drops the accept; what it had left goes to the balance, or
\* to the offer's reserve if there is an offer.
LEMMA AcceptDestroyEffect ==
    ASSUME NEW d \in DState, NEW b \in Address, NEW s \in Address, NEW p \in Property,
           d.accepts[<<s, p, b>>] # None
    PROVE  LET r == DEx_acceptDestroy(d, b, s, p)
               k == <<s, p, b>>
               n == d.accepts[k].remaining
           IN  /\ r \in DState
               /\ r.offers = d.offers
               /\ r.accepts = With(d.accepts, k, None)
               /\ n \in Int
               /\ r.abort = NoAbort =>
                    /\ d.abort = NoAbort
                    /\ n > 0 =>
                         \/ r.tally = Moved(d.tally, <<s, p, "ACCEPT_RESERVE">>, <<s, p, "BALANCE">>, n)
                         \/ /\ d.offers[<<s, p>>] # None
                            /\ r.tally = Moved(d.tally, <<s, p, "ACCEPT_RESERVE">>, <<s, p, "SELLOFFER_RESERVE">>, n)
                    /\ ~(n > 0) => r.tally = d.tally
<1> DEFINE r == DEx_acceptDestroy(d, b, s, p)
           k == <<s, p, b>>
           n == d.accepts[k].remaining
           tt == IF SameOffer(d, k) THEN "SELLOFFER_RESERVE" ELSE "BALANCE"
           m == Move(d, frozen, s, s, p, "ACCEPT_RESERVE", tt, n)
           moved == IF n > 0 THEN m ELSE d
<1>1. n \in Int
  BY DEF DState, AcceptKey, Accept
<1>2. tt \in {"BALANCE", "SELLOFFER_RESERVE"} /\ tt \in TallyType
  BY TallyTypes
<1>3. tt = "SELLOFFER_RESERVE" => d.offers[<<s, p>>] # None
  BY DEF SameOffer, DEx_offerExists
<1>4. r = [moved EXCEPT !.accepts[k] = None]
  BY DEF DEx_acceptDestroy
<1> HIDE DEF n, tt, r
<1>5. /\ m \in DState
      /\ m.offers = d.offers /\ m.accepts = d.accepts
      /\ m.abort = NoAbort =>
           /\ d.abort = NoAbort
           /\ m.tally = Moved(d.tally, <<s, p, "ACCEPT_RESERVE">>, <<s, p, tt>>, n)
  BY <1>1, <1>2, MoveEffect, TallyTypes
<1> HIDE DEF m
<1>6. /\ moved \in DState
      /\ moved.offers = d.offers /\ moved.accepts = d.accepts
  BY <1>5
<1>7. /\ r \in DState
      /\ r.tally = moved.tally /\ r.offers = moved.offers /\ r.abort = moved.abort
      /\ r.accepts = With(moved.accepts, k, None)
  <2> HIDE DEF moved
  <2> QED BY <1>4, <1>6 DEF DState, With
<1>8. n > 0 => moved = m
  OBVIOUS
<1>9. ~(n > 0) => moved = d
  OBVIOUS
<1> HIDE DEF moved
<1> QED
  BY <1>1, <1>2, <1>3, <1>5, <1>6, <1>7, <1>8, <1>9 DEF r, n

\* The part of it that is about types.
LEMMA AcceptDestroyType ==
    ASSUME NEW d \in DState, NEW b \in Address, NEW s \in Address, NEW p \in Property,
           d.accepts[<<s, p, b>>] # None
    PROVE  DEx_acceptDestroy(d, b, s, p) \in DState
BY AcceptDestroyEffect, Zenon

\* Dropping an accept that has nothing left moves no token.
LEMMA SpentAcceptDestroyEffect ==
    ASSUME NEW d \in DState, NEW b \in Address, NEW s \in Address, NEW p \in Property,
           d.accepts[<<s, p, b>>] # None, ~(d.accepts[<<s, p, b>>].remaining > 0)
    PROVE  LET r == DEx_acceptDestroy(d, b, s, p)
           IN  /\ r \in DState
               /\ r.offers = d.offers
               /\ r.accepts = With(d.accepts, <<s, p, b>>, None)
               /\ r.abort = NoAbort => d.abort = NoAbort /\ r.tally = d.tally
<1> DEFINE r == DEx_acceptDestroy(d, b, s, p)
<1>1. r = [d EXCEPT !.accepts[<<s, p, b>>] = None]
  BY DEF DEx_acceptDestroy
<1> HIDE DEF r
<1>2. With(d.accepts, <<s, p, b>>, None) \in [AcceptKey -> Accept \cup {None}]
  BY DEF DState, With
<1> QED
  BY <1>1, <1>2 DEF r, DState, With

\* Destroying an offer that has nothing left for sale moves no token.
LEMMA EmptyOfferDestroyEffect ==
    ASSUME NEW d \in DState, NEW s \in Address, NEW p \in Property,
           d.tally[<<s, p, "SELLOFFER_RESERVE">>] = 0
    PROVE  LET r == DEx_offerDestroy(d, s, p)
           IN  /\ r \in DState
               /\ r.accepts = d.accepts
               /\ r.abort = NoAbort =>
                    /\ d.abort = NoAbort
                    /\ r.offers = With(d.offers, <<s, p>>, None)
                    /\ r.tally = d.tally
<1> DEFINE r == DEx_offerDestroy(d, s, p)
<1>1. /\ r \in DState
      /\ r.accepts = d.accepts
      /\ r.abort = NoAbort =>
           /\ d.abort = NoAbort
           /\ r.offers = With(d.offers, <<s, p>>, None)
           /\ r.tally = Moved(d.tally, <<s, p, "SELLOFFER_RESERVE">>, <<s, p, "BALANCE">>, 0)
  BY OfferDestroyEffect
<1>2. d.tally \in [TallyKey -> Int]
  BY DEF DState, Tallies, Int64
<1>3. <<s, p, "SELLOFFER_RESERVE">> \in TallyKey /\ <<s, p, "BALANCE">> \in TallyKey
  BY TallyTypes DEF TallyKey
<1> HIDE DEF r
<1>4. r.abort = NoAbort => r.tally = d.tally
  BY <1>1, <1>2, <1>3 DEF Moved
<1> QED
  BY <1>1, <1>4 DEF r

\* What BookPurchase makes of the state d.
PurchaseBooked(d, r, s, b, p, n) ==
    LET k == <<s, p, b>>
        left == d.accepts[k].remaining - n
    IN  /\ r \in DState
        /\ r.abort = NoAbort =>
             /\ d.abort = NoAbort
             /\ r.tally = IF n > 0
                          THEN Moved(d.tally, <<s, p, "ACCEPT_RESERVE">>, <<b, p, "BALANCE">>, n)
                          ELSE d.tally
             /\ r.accepts = With(d.accepts, k, Reduced(d.accepts[k], left))
             /\ \/ r.offers = d.offers
                \/ /\ r.offers = With(d.offers, <<s, p>>, None)
                   /\ r.tally[<<s, p, "SELLOFFER_RESERVE">>] = 0

\* The tokens a payment buys go from the seller's ACCEPT_RESERVE to the buyer, and
\* the accept is reduced by the same amount; an offer that is closed with it has
\* nothing left for sale.
LEMMA BookPurchaseEffect ==
    ASSUME NEW d \in DState, NEW s \in Address, NEW b \in Address, NEW p \in Property,
           d.accepts[<<s, p, b>>] # None,
           NEW n \in Int, n <= d.accepts[<<s, p, b>>].remaining
    PROVE  PurchaseBooked(d, BookPurchase(d, s, b, p, n), s, b, p, n)
<1> DEFINE r == BookPurchase(d, s, b, p, n)
           k == <<s, p, b>>
           a == d.accepts[k]
           left == a.remaining - n
           m == Move(d, frozen, s, b, p, "ACCEPT_RESERVE", "BALANCE", n)
           moved == IF n > 0 THEN m ELSE [d EXCEPT !.valid = FALSE]
           reduced == [moved EXCEPT !.accepts[k].remaining = left]
           closed == DEx_acceptDestroy(reduced, b, s, p)
           done == DEx_offerDestroy(closed, s, p)
           close == /\ reduced.tally[<<s, p, "SELLOFFER_RESERVE">>] = 0
                    /\ reduced.tally[<<s, p, "ACCEPT_RESERVE">>] = 0
                    /\ DEx_offerExists(closed, s, p)
           after == IF n > 0
                    THEN Moved(d.tally, <<s, p, "ACCEPT_RESERVE">>, <<b, p, "BALANCE">>, n)
                    ELSE d.tally
<1>0. k \in AcceptKey /\ a \in Accept
  BY DEF DState, AcceptKey
<1>1. left \in Int /\ left >= 0
  BY <1>0 DEF Accept
<1>2. /\ m \in DState
      /\ m.offers = d.offers /\ m.accepts = d.accepts
      /\ m.abort = NoAbort =>
           /\ d.abort = NoAbort
           /\ m.tally = Moved(d.tally, <<s, p, "ACCEPT_RESERVE">>, <<b, p, "BALANCE">>, n)
  BY MoveEffect, TallyTypes
<1>3. /\ moved \in DState
      /\ moved.offers = d.offers /\ moved.accepts = d.accepts
      /\ moved.abort = NoAbort => d.abort = NoAbort /\ moved.tally = after
  <2>1. CASE n > 0
    <3> HIDE DEF m
    <3> QED BY <1>2, <2>1
  <2>2. CASE ~(n > 0)
    BY <2>2 DEF DState
  <2> QED BY <2>1, <2>2
<1>4. /\ reduced \in DState
      /\ reduced.tally = moved.tally /\ reduced.offers = moved.offers
      /\ reduced.abort = moved.abort
      /\ reduced.accepts = [d.accepts EXCEPT ![k] = [@ EXCEPT !.remaining = left]]
  <2> HIDE DEF moved, left
  <2>1. [a EXCEPT !.remaining = left] \in Accept
    BY <1>0, <1>1 DEF Accept
  <2>2. [moved.accepts EXCEPT ![k].remaining = left] \in [AcceptKey -> Accept \cup {None}]
    BY <1>0, <1>3, <2>1 DEF DState
  <2> QED
    BY <1>3, <2>2 DEF DState
<1>5. reduced.accepts[k] # None /\ reduced.accepts[k].remaining = left
  <2> HIDE DEF reduced, left
  <2>1. reduced.accepts[k] = [a EXCEPT !.remaining = left] /\ a \in Accept
    BY <1>0, <1>4 DEF DState
  <2>2. [a EXCEPT !.remaining = left] \in Accept
    BY <1>0, <1>1 DEF Accept
  <2> QED
    BY <2>1, <2>2, NoneAssumption DEF Accept
<1>6. r = IF left > 0 THEN reduced ELSE IF close THEN done ELSE closed
  BY DEF BookPurchase, AmountLeft, Invalid
<1> HIDE DEF moved, reduced, left, after, r
<1>7. CASE left > 0
  <2>1. r = reduced
    BY <1>6, <1>7
  <2> QED
    BY <1>3, <1>4, <1>7, <2>1 DEF r, left, after, With, Reduced, PurchaseBooked
<1>8. CASE left = 0
  <2>1. /\ closed \in DState
        /\ closed.offers = reduced.offers
        /\ closed.accepts = With(reduced.accepts, k, None)
        /\ closed.abort = NoAbort => reduced.abort = NoAbort /\ closed.tally = reduced.tally
    <3>1. reduced \in DState /\ reduced.accepts[<<s, p, b>>] # None
      BY <1>4, <1>5
    <3>2. ~(reduced.accepts[<<s, p, b>>].remaining > 0)
      BY <1>5, <1>8
    <3> QED BY <3>1, <3>2, SpentAcceptDestroyEffect
  <2>2. closed.accepts = With(d.accepts, k, None)
    BY <1>4, <2>1 DEF With
  <2> HIDE DEF closed
  <2>3. CASE ~close
    <3>1. r = closed
      BY <1>6, <1>8, <2>3
    <3> QED
      BY <1>3, <1>4, <1>8, <2>1, <2>2, <3>1 DEF r, left, after, With, Reduced, PurchaseBooked
  <2>4. CASE close
    <3>1. r = done
      BY <1>6, <1>8, <2>4
    <3>2. reduced.tally[<<s, p, "SELLOFFER_RESERVE">>] = 0
      BY <2>4
    <3>3. closed.abort = NoAbort => closed.tally[<<s, p, "SELLOFFER_RESERVE">>] = 0
      BY <2>1, <3>2
    <3>4. /\ done \in DState
          /\ done.abort = NoAbort => closed.abort = NoAbort
      <4>1. closed \in DState
        BY <2>1
      <4>2. done \in DState
        BY <4>1, OfferDestroyEffect
      <4>3. done.abort = NoAbort => closed.abort = NoAbort
        BY <4>1, OfferDestroyEffect
      <4> QED BY <4>2, <4>3
    <3>5. done.abort = NoAbort =>
            /\ done.accepts = closed.accepts
            /\ done.offers = With(closed.offers, <<s, p>>, None)
            /\ done.tally = closed.tally
      BY <2>1, <3>3, <3>4, EmptyOfferDestroyEffect
    <3> HIDE DEF done
    <3>6. done.abort = NoAbort => moved.abort = NoAbort /\ closed.tally = moved.tally
      BY <1>4, <2>1, <3>4
    <3>7. done.abort = NoAbort => d.abort = NoAbort /\ done.tally = after
      BY <1>3, <3>5, <3>6
    <3>8. done.abort = NoAbort => done.accepts = With(d.accepts, k, None)
      BY <2>2, <3>5
    <3>9. done.abort = NoAbort => done.offers = With(d.offers, <<s, p>>, None)
      BY <1>3, <1>4, <2>1, <3>5
    <3>10. done.abort = NoAbort => done.tally[<<s, p, "SELLOFFER_RESERVE">>] = 0
      BY <3>3, <3>4, <3>5
    <3>11. ~(left > 0)
      BY <1>8
    <3> HIDE DEF a, k, m
    <3> QED
      BY <3>1, <3>4, <3>7, <3>8, <3>9, <3>10, <3>11 DEF r, left, after, a, k, With, Reduced, PurchaseBooked
  <2> QED BY <2>3, <2>4
<1> QED
  BY <1>1, <1>7, <1>8

\* What calculateDExPurchase computes: naturals from naturals.
LEMMA PurchaseType ==
    ASSUME NEW amount \in Nat, NEW desired \in Nat \ {0}, NEW paid \in Nat
    PROVE  calculateDExPurchase(amount, desired, paid) \in Nat
<1> DEFINE x == paid * amount
<1>1. x \in Nat
  OBVIOUS
<1> HIDE DEF x
<1>2. CASE x = 0
  BY <1>2 DEF calculateDExPurchase, DivideAndRoundUp, x
<1>3. CASE x # 0
  <2>1. (x - 1) \in Nat
    BY <1>1, <1>3
  <2>2. (x - 1) \div desired \in Nat
    BY <2>1
  <2> QED
    BY <1>3, <2>2 DEF calculateDExPurchase, DivideAndRoundUp, x
<1> QED BY <1>2, <1>3

\* The legacy purchase is an integer, whatever the conversion makes of it.
LEMMA LegacyPurchaseType ==
    ASSUME NEW amount \in Nat, NEW desired \in Int64 \ {0}, NEW paid \in Nat
    PROVE  legacy_calculateDExPurchase(amount, desired, paid) \in Int
<1> DEFINE U == 2 * (MaxInt + 1)
           x == amount * paid
           u == desired % U
<1>1. U \in Nat \ {0} /\ desired \in Int
  BY MaxIntAssumption DEF Int64
<1>2. u \in Nat
  BY <1>1
<1>3. u # 0
  BY <1>1, MaxIntAssumption DEF Int64, MinInt
<1>4. x \in Nat
  OBVIOUS
<1> HIDE DEF x, u
<1>5. DivideAndRound(x, u) \in Int
  BY <1>2, <1>3, <1>4, DivideAndRoundRange
<1>6. ToInt64(DivideAndRound(x, u)) \in Int
  BY <1>5, MaxIntAssumption DEF ToInt64
<1> QED
  BY <1>6 DEF legacy_calculateDExPurchase, x, u

\* What DEx_payment makes of the state d.
Paid(d, r, s, b, p) ==
    /\ r \in DState
    /\ r.abort = NoAbort =>
         \/ /\ d.abort = NoAbort
            /\ r.tally = d.tally /\ r.offers = d.offers /\ r.accepts = d.accepts
         \/ \E n \in Int : /\ n <= d.accepts[<<s, p, b>>].remaining
                           /\ "DEXMATH" \in features =>
                                 n >= 0 \/ n = d.accepts[<<s, p, b>>].remaining
                           /\ r = BookPurchase(d, s, b, p, n)

\* DEx_payment changes no map, fails an assertion, or books a purchase of no more
\* than the accept has left; with DEXMATH the purchase is not negative.
LEMMA PaymentEffect ==
    ASSUME NEW d \in DState, NEW s \in Address, NEW b \in Address, NEW p \in Property,
           d.accepts[<<s, p, b>>] # None, NEW paid \in Nat
    PROVE  Paid(d, DEx_payment(d, s, b, p, paid), s, b, p)
<1> DEFINE r == DEx_payment(d, s, b, p, paid)
           a == d.accepts[<<s, p, b>>]
           units == IF "DEXMATH" \in features
                    THEN calculateDExPurchase(a.amount, a.desired, paid)
                    ELSE legacy_calculateDExPurchase(a.amount, a.desired, paid)
           n == AmountPurchased(a, units)
<1>1. a \in Accept
  BY DEF DState, AcceptKey
<1>2. a.amount \in Nat /\ a.desired \in Int64 /\ a.remaining \in Int
  BY <1>1, MaxIntAssumption DEF Accept
<1>3. CASE a.desired = 0
  <2>1. r = [d EXCEPT !.valid = FALSE]
    BY <1>3 DEF DEx_payment, Invalid
  <2> QED
    BY <2>1 DEF DState, Paid
<1>4. CASE a.desired # 0 /\ "DEXMATH" \in features /\ ~PurchaseConverts(a.amount, a.desired, paid)
  <2>1. r = [d EXCEPT !.abort = "uint256_extensions"]
    BY <1>4 DEF DEx_payment
  <2> QED
    BY <2>1 DEF DState, Aborts, NoAbort, Paid
<1>5. CASE a.desired # 0 /\ ~("DEXMATH" \in features /\ ~PurchaseConverts(a.amount, a.desired, paid))
  <2>1. r = BookPurchase(d, s, b, p, n)
    BY <1>5 DEF DEx_payment
  <2>2. units \in Int /\ ("DEXMATH" \in features => units >= 0)
    <3>1. CASE "DEXMATH" \in features
      <4>1. a.desired \in Nat \ {0}
        BY <1>2, <1>5, <3>1 DEF PurchaseConverts, Int64
      <4> HIDE DEF a
      <4>2. calculateDExPurchase(a.amount, a.desired, paid) \in Nat
        BY <1>2, <4>1, PurchaseType
      <4> QED BY <3>1, <4>2
    <3>2. CASE "DEXMATH" \notin features
      <4> HIDE DEF a
      <4> QED BY <1>2, <1>5, <3>2, LegacyPurchaseType
    <3> QED BY <3>1, <3>2
  <2> HIDE DEF units, r, a
  <2>3. n \in Int /\ n <= a.remaining /\ ("DEXMATH" \in features => n >= 0 \/ n = a.remaining)
    BY <1>2, <2>2 DEF AmountPurchased
  <2> HIDE DEF n
  <2>4. r \in DState
    <3>1. PurchaseBooked(d, BookPurchase(d, s, b, p, n), s, b, p, n)
      BY <2>3, BookPurchaseEffect DEF a
    <3> QED BY <2>1, <3>1 DEF PurchaseBooked
  <2> QED
    BY <2>1, <2>3, <2>4 DEF r, a, Paid
<1> QED BY <1>3, <1>4, <1>5

---------------------------------------------------------------------------
(* Type correctness *)

\* A handler starts in a state of the right type.
LEMMA CurrentType == TypeOK => Current \in DState
  BY DEF TypeOK, Current, DState, Aborts

\* A handler that ends in a state of the right type leaves one.
LEMMA InstallType ==
    ASSUME TypeOK, NEW d \in DState, Install(d), UNCHANGED <<frozen, erasing>>
    PROVE  TypeOK'
<1>1. d.tally \in Tallies /\ d.offers \in [OfferKey -> Offer \cup {None}]
      /\ d.accepts \in [AcceptKey -> Accept \cup {None}] /\ d.abort \in Aborts
  BY DEF DState
<1> QED
  BY <1>1 DEF TypeOK, Install, Aborts

\* A fresh txid is a txid.
LEMMA FreshTxidType == (\E t \in Txid : IsFreshTxid(t)) => FreshTxid \in Txid
  BY DEF FreshTxid

\* The result of each handler has the right type.
LEMMA HandlerType ==
    ASSUME TypeOK, NEW s \in Address, NEW p \in Property
    PROVE  /\ DEx_offerDestroy(Current, s, p) \in DState
           /\ \A n \in Amounts, x \in Prices, f \in MinFees, w \in Windows :
                 n <= MaxInt /\ (\E t \in Txid : IsFreshTxid(t)) =>
                   /\ DEx_offerCreate(Current, s, p, n, x, f, w, FreshTxid) \in DState
                   /\ DEx_offerUpdate(Current, s, p, n, x, f, w, FreshTxid) \in DState
           /\ \A b \in Address, n \in 1 .. MaxInt, f \in Fees :
                 DEx_acceptCreate(Current, b, s, p, n, f) \in DState
           /\ \A b \in Address, x \in Payments :
                 accepts[<<s, p, b>>] # None => DEx_payment(Current, s, b, p, x) \in DState
           /\ \A b \in Address :
                 accepts[<<s, p, b>>] # None => DEx_acceptDestroy(Current, b, s, p) \in DState
<1> DEFINE c == Current
           e == DEx_offerDestroy(c, s, p)
<1>1. c \in DState /\ c.accepts = accepts
  BY CurrentType DEF Current
<1> HIDE DEF c
<1>2. e \in DState
  BY <1>1, OfferDestroyEffect
<1> HIDE DEF e
<1>3. ASSUME NEW n \in Amounts, NEW x \in Prices, NEW f \in MinFees, NEW w \in Windows,
             n <= MaxInt, \E t \in Txid : IsFreshTxid(t)
      PROVE  /\ DEx_offerCreate(c, s, p, n, x, f, w, FreshTxid) \in DState
             /\ DEx_offerCreate(e, s, p, n, x, f, w, FreshTxid) \in DState
  <2>1. FreshTxid \in Txid
    BY <1>3, FreshTxidType
  <2>2. n \in 0 .. MaxInt /\ x \in Int64 /\ f \in Int /\ w \in Nat
    BY <1>3, MaxIntAssumption, InputAssumption
  <2> QED
    <3>1. ASSUME NEW x0 \in DState
          PROVE  DEx_offerCreate(x0, s, p, n, x, f, w, FreshTxid) \in DState
      <4>1. OfferCreated(x0, DEx_offerCreate(x0, s, p, n, x, f, w, FreshTxid), s, p, n, x, w, FreshTxid)
        BY <2>1, <2>2, OfferCreateEffect
      <4> QED BY <4>1 DEF OfferCreated
    <3> QED BY <1>1, <1>2, <3>1
<1>4. ASSUME NEW b \in Address, NEW n \in 1 .. MaxInt, NEW f \in Fees
      PROVE  DEx_acceptCreate(c, b, s, p, n, f) \in DState
  <2>1. f \in Int
    BY InputAssumption
  <2> QED
    <3>1. AcceptCreated(c, DEx_acceptCreate(c, b, s, p, n, f), b, s, p)
      BY <1>1, <2>1, AcceptCreateEffect
    <3> QED BY <3>1 DEF AcceptCreated
<1>5. ASSUME NEW b \in Address, NEW x \in Payments, accepts[<<s, p, b>>] # None
      PROVE  DEx_payment(c, s, b, p, x) \in DState
  <2>1. x \in Nat
    BY InputAssumption
  <2>2. c.accepts[<<s, p, b>>] # None
    BY <1>1, <1>5
  <2> QED
    <3>1. Paid(c, DEx_payment(c, s, b, p, x), s, b, p)
      BY <1>1, <2>1, <2>2, PaymentEffect
    <3> QED BY <3>1 DEF Paid
<1>6. ASSUME NEW b \in Address, accepts[<<s, p, b>>] # None
      PROVE  DEx_acceptDestroy(c, b, s, p) \in DState
  <2>1. c.accepts[<<s, p, b>>] # None
    BY <1>1, <1>6
  <2> QED
    BY <1>1, <2>1, AcceptDestroyType
<1> QED
  BY <1>2, <1>3, <1>4, <1>5, <1>6 DEF c, e, DEx_offerUpdate

\* Every action keeps the types.
LEMMA TypeStep == TypeOK /\ [Next]_vars => TypeOK'
<1> SUFFICES ASSUME TypeOK, [Next]_vars PROVE TypeOK'
  OBVIOUS
<1>0. Current.accepts = accepts
  BY DEF Current
<1>1. ASSUME NEW s \in Address, NEW p \in Property, TradeOfferCancel(s, p)
      PROVE  TypeOK'
  BY <1>1, HandlerType, InstallType DEF TradeOfferCancel, MayTradeOffer
<1>2. ASSUME NEW s \in Address, NEW p \in Property, NEW n \in Amounts, NEW x \in Prices,
             NEW f \in MinFees, NEW w \in Windows,
             TradeOfferNew(s, p, n, x, f, w) \/ TradeOfferUpdate(s, p, n, x, f, w)
      PROVE  TypeOK'
  <2>1. n <= MaxInt /\ (\E t \in Txid : IsFreshTxid(t)) /\ UNCHANGED <<frozen, erasing>>
    BY <1>2 DEF TradeOfferNew, TradeOfferUpdate, MayTradeOffer
  <2>2. CASE TradeOfferNew(s, p, n, x, f, w)
    BY <2>1, <2>2, HandlerType, InstallType DEF TradeOfferNew
  <2>3. CASE TradeOfferUpdate(s, p, n, x, f, w)
    BY <2>1, <2>3, HandlerType, InstallType DEF TradeOfferUpdate
  <2> QED BY <1>2, <2>2, <2>3
<1>3. ASSUME NEW b \in Address, NEW s \in Address, NEW p \in Property,
             NEW n \in Amounts, NEW f \in Fees, AcceptOffer_XEP(b, s, p, n, f)
      PROVE  TypeOK'
  BY <1>3, HandlerType, InstallType DEF AcceptOffer_XEP
<1>4. ASSUME NEW b \in Address, NEW s \in Address, NEW p \in Property,
             NEW x \in Payments, HandleDExPayment(s, b, p, x)
      PROVE  TypeOK'
  <2>1. accepts[<<s, p, b>>] # None
    BY <1>0, <1>4 DEF HandleDExPayment, IsPaidFor, DEx_acceptExists
  <2> QED
    BY <1>4, <2>1, HandlerType, InstallType DEF HandleDExPayment
<1>5. CASE BlockEnd
  BY <1>5 DEF BlockEnd, TypeOK
<1>6. ASSUME NEW k \in AcceptKey, EraseExpiredAccept(k)
      PROVE  TypeOK'
  <2>1. PICK s \in Address, p \in Property, b \in Address : k = <<s, p, b>>
    BY DEF AcceptKey
  <2>2. /\ accepts[<<s, p, b>>] # None
        /\ Install(DEx_acceptDestroy(Current, b, s, p))
        /\ UNCHANGED <<frozen, erasing>>
    BY <1>6, <2>1 DEF EraseExpiredAccept, Expired
  <2> QED
    BY <2>2, HandlerType, InstallType
<1>7. CASE EraseExpiredAcceptsDone
  <2>1. ASSUME NEW k \in AcceptKey, accepts[k] # None
        PROVE  [accepts[k] EXCEPT !.age = @ + 1] \in Accept
    <3>1. accepts[k] \in Accept
      BY <2>1 DEF TypeOK
    <3> QED BY <3>1 DEF Accept
  <2>2. accepts' \in [AcceptKey -> Accept \cup {None}]
    BY <1>7, <2>1, Zenon DEF EraseExpiredAcceptsDone
  <2> QED
    BY <1>7, <2>2 DEF EraseExpiredAcceptsDone, TypeOK
<1>8. ASSUME NEW k \in MayFreeze, FreezeOrUnfreeze(k)
      PROVE  TypeOK'
  BY <1>8, InputAssumption DEF FreezeOrUnfreeze, TypeOK
<1>9. ASSUME NEW f \in MayToggle, ToggleFeature(f)
      PROVE  TypeOK'
  BY <1>9 DEF ToggleFeature, TypeOK
<1>10. CASE UNCHANGED vars
  BY <1>10 DEF vars, TypeOK
<1> QED
  BY <1>1, <1>2, <1>3, <1>4, <1>5, <1>6, <1>7, <1>8, <1>9, <1>10 DEF Next, TradeOffer

\* The exchange starts well typed.
LEMMA TypeInit == Init => TypeOK
<1> SUFFICES ASSUME Init PROVE TypeOK
  OBVIOUS
<1>1. tally \in Tallies
  <2>1. ASSUME NEW k \in TallyKey PROVE tally[k] \in 0 .. MaxInt
    <3>1. <<k[1], k[2]>> \in Address \X Property
      BY DEF TallyKey
    <3> QED
      BY <3>1, SupplyAssumption, MaxIntAssumption DEF Init
  <2>2. tally = [k \in TallyKey |-> tally[k]]
    BY DEF Init
  <2>3. 0 .. MaxInt \subseteq Int64
    BY MaxIntAssumption DEF Int64, MinInt
  <2> QED
    BY <2>1, <2>2, <2>3 DEF Tallies
<1> QED
  BY <1>1 DEF Init, TypeOK

\* Whatever the sequence of offers, accepts, payments, expiries, freezes and
\* activations: no tally but PENDING ever becomes negative or leaves int64, and
\* every offer and accept is well formed.
THEOREM TypeCorrect == Spec => []TypeOK
<1>1. Init => TypeOK
  BY TypeInit
<1>2. TypeOK /\ [Next]_vars => TypeOK'
  BY TypeStep
<1> QED
  BY <1>1, <1>2, PTL DEF Spec

---------------------------------------------------------------------------
(* Reserves and offers *)

SellerTallies == {"BALANCE", "SELLOFFER_RESERVE", "ACCEPT_RESERVE"}

\* SellReserveHasOffer and Holdings, of a state within a handler.
Covered(d) == \A s \in Address, p \in Property :
                 d.tally[<<s, p, "SELLOFFER_RESERVE">>] > 0 => d.offers[<<s, p>>] # None

HoldingsOf(d, s, p) == d.tally[<<s, p, "BALANCE">>] + d.tally[<<s, p, "SELLOFFER_RESERVE">>]
                                                    + d.tally[<<s, p, "ACCEPT_RESERVE">>]

SameHoldings(d, r) == \A s \in Address, p \in Property : HoldingsOf(r, s, p) = HoldingsOf(d, s, p)

\* n tokens went from one tally of a seller to another.
SellerMoved(d, r, s, p, f, g, n) ==
    /\ SameHoldings(d, r)
    /\ f # g => r.tally[<<s, p, f>>] = d.tally[<<s, p, f>>] - n
    /\ \A s1 \in Address, p1 \in Property :
         <<s1, p1>> # <<s, p>> \/ "SELLOFFER_RESERVE" \notin {f, g} =>
           r.tally[<<s1, p1, "SELLOFFER_RESERVE">>] = d.tally[<<s1, p1, "SELLOFFER_RESERVE">>]

\* A move between two tallies of one address leaves every address what it holds,
\* and touches the reserve of no other address or property.
LEMMA SellerMove ==
    ASSUME NEW d \in DState, NEW r \in DState, NEW s \in Address, NEW p \in Property,
           NEW n \in Int, NEW f \in SellerTallies, NEW g \in SellerTallies,
           r.tally = Moved(d.tally, <<s, p, f>>, <<s, p, g>>, n)
    PROVE  SellerMoved(d, r, s, p, f, g, n)
<1> DEFINE Change(s1, p1, h) == (IF <<s1, p1>> = <<s, p>> /\ h = g THEN n ELSE 0)
                                  - (IF <<s1, p1>> = <<s, p>> /\ h = f THEN n ELSE 0)
<1>0. SellerTallies \subseteq TallyType
  BY DEF SellerTallies, TallyType
<1>1. ASSUME NEW s1 \in Address, NEW p1 \in Property, NEW h \in SellerTallies
      PROVE  /\ d.tally[<<s1, p1, h>>] \in Int
             /\ r.tally[<<s1, p1, h>>] = d.tally[<<s1, p1, h>>] + Change(s1, p1, h)
  <2>1. d.tally \in Tallies
    BY DEF DState
  <2>2. <<s1, p1, h>> \in TallyKey /\ <<s, p, f>> \in TallyKey /\ <<s, p, g>> \in TallyKey
    BY <1>0 DEF TallyKey
  <2>3. d.tally[<<s1, p1, h>>] \in Int
    BY <2>1, <2>2 DEF Tallies, Int64
  <2>4. r.tally[<<s1, p1, h>>] = d.tally[<<s1, p1, h>>]
                  - (IF <<s1, p1, h>> = <<s, p, f>> THEN n ELSE 0)
                  + (IF <<s1, p1, h>> = <<s, p, g>> THEN n ELSE 0)
    <3> DEFINE k == <<s1, p1, h>>
               from == <<s, p, f>>
               to == <<s, p, g>>
               t == d.tally
    <3>1. r.tally = Moved(t, from, to, n)
      OBVIOUS
    <3>2. t \in [TallyKey -> Int] /\ k \in TallyKey /\ from \in TallyKey /\ to \in TallyKey
      BY <2>1, <2>2 DEF Tallies, Int64
    <3> HIDE DEF k, from, to, t
    <3>3. Moved(t, from, to, n)[k]
            = t[k] - (IF k = from THEN n ELSE 0) + (IF k = to THEN n ELSE 0)
      BY <3>2 DEF Moved
    <3>4. r.tally[k] = t[k] - (IF k = from THEN n ELSE 0) + (IF k = to THEN n ELSE 0)
      BY <3>1, <3>3
    <3> QED
      BY <3>4 DEF k, from, to, t
  <2> QED BY <2>3, <2>4
<1>2. "BALANCE" \in SellerTallies /\ "SELLOFFER_RESERVE" \in SellerTallies
      /\ "ACCEPT_RESERVE" \in SellerTallies
  BY DEF SellerTallies
<1>3. ASSUME NEW s1 \in Address, NEW p1 \in Property
      PROVE  HoldingsOf(r, s1, p1) = HoldingsOf(d, s1, p1)
  <2> DEFINE B(x) == x.tally[<<s1, p1, "BALANCE">>]
             S(x) == x.tally[<<s1, p1, "SELLOFFER_RESERVE">>]
             A(x) == x.tally[<<s1, p1, "ACCEPT_RESERVE">>]
  <2> HIDE DEF Change
  <2>1. B(d) \in Int /\ B(r) = B(d) + Change(s1, p1, "BALANCE")
    BY <1>1, <1>2
  <2>2. S(d) \in Int /\ S(r) = S(d) + Change(s1, p1, "SELLOFFER_RESERVE")
    BY <1>1, <1>2
  <2>3. A(d) \in Int /\ A(r) = A(d) + Change(s1, p1, "ACCEPT_RESERVE")
    BY <1>1, <1>2
  <2>4. Change(s1, p1, "BALANCE") + Change(s1, p1, "SELLOFFER_RESERVE") + Change(s1, p1, "ACCEPT_RESERVE") = 0
    BY DEF SellerTallies, Change
  <2>5. \A h \in SellerTallies : Change(s1, p1, h) \in Int
    BY DEF Change
  <2> HIDE DEF B, S, A
  <2>6. B(r) + S(r) + A(r) = B(d) + S(d) + A(d)
    BY <1>2, <2>1, <2>2, <2>3, <2>4, <2>5
  <2> QED
    BY <2>6 DEF HoldingsOf, B, S, A
<1>4. ASSUME NEW s1 \in Address, NEW p1 \in Property,
             <<s1, p1>> # <<s, p>> \/ "SELLOFFER_RESERVE" \notin {f, g}
      PROVE  r.tally[<<s1, p1, "SELLOFFER_RESERVE">>] = d.tally[<<s1, p1, "SELLOFFER_RESERVE">>]
  BY <1>1, <1>2, <1>4
<1>5. f # g => r.tally[<<s, p, f>>] = d.tally[<<s, p, f>>] - n
  BY <1>1
<1> QED
  BY <1>3, <1>4, <1>5 DEF SameHoldings, SellerMoved

\* Withdrawing an offer empties its reserve.
LEMMA OfferDestroyCovers ==
    ASSUME NEW d \in DState, NEW s \in Address, NEW p \in Property, Covered(d)
    PROVE  LET r == DEx_offerDestroy(d, s, p)
           IN  r.abort = NoAbort => Covered(r) /\ SameHoldings(d, r)
<1> DEFINE r == DEx_offerDestroy(d, s, p)
           n == d.tally[<<s, p, "SELLOFFER_RESERVE">>]
<1> SUFFICES ASSUME r.abort = NoAbort PROVE Covered(r) /\ SameHoldings(d, r)
  OBVIOUS
<1>1. /\ r \in DState /\ n \in Int
      /\ r.offers = With(d.offers, <<s, p>>, None)
      /\ r.tally = Moved(d.tally, <<s, p, "SELLOFFER_RESERVE">>, <<s, p, "BALANCE">>, n)
  BY OfferDestroyEffect
<1> HIDE DEF r
<1>2. /\ SameHoldings(d, r)
      /\ r.tally[<<s, p, "SELLOFFER_RESERVE">>] = 0
      /\ \A s1 \in Address, p1 \in Property : <<s1, p1>> # <<s, p>> =>
            r.tally[<<s1, p1, "SELLOFFER_RESERVE">>] = d.tally[<<s1, p1, "SELLOFFER_RESERVE">>]
  <2>1. "SELLOFFER_RESERVE" \in SellerTallies /\ "BALANCE" \in SellerTallies
    BY DEF SellerTallies
  <2>2. n - n = 0
    BY <1>1
  <2> HIDE DEF n
  <2>3. SellerMoved(d, r, s, p, "SELLOFFER_RESERVE", "BALANCE", n)
    BY <1>1, <2>1, SellerMove
  <2> QED BY <2>2, <2>3 DEF n, SellerMoved
<1>3. \A s1 \in Address, p1 \in Property : <<s1, p1>> # <<s, p>> =>
         r.offers[<<s1, p1>>] = d.offers[<<s1, p1>>]
  BY <1>1 DEF With, DState, OfferKey
<1>4. Covered(r)
  BY <1>2, <1>3 DEF Covered
<1> QED
  BY <1>2, <1>4

\* A process that was stopped stays stopped.
LEMMA OfferCreateAborts ==
    ASSUME NEW d \in DState, NEW s \in Address, NEW p \in Property,
           NEW offered \in 0 .. MaxInt, NEW desired \in Int64, NEW minFee \in Int,
           NEW window \in Nat, NEW txid \in Txid
    PROVE  DEx_offerCreate(d, s, p, offered, desired, minFee, window, txid).abort = NoAbort
             => d.abort = NoAbort
<1> DEFINE r == DEx_offerCreate(d, s, p, offered, desired, minFee, window, txid)
<1>1. OfferCreated(d, r, s, p, offered, desired, window, txid)
  BY OfferCreateEffect
<1> HIDE DEF r
<1> QED
  BY <1>1 DEF r, OfferCreated

\* A new offer covers the reserve it fills.
LEMMA OfferCreateCovers ==
    ASSUME NEW d \in DState, NEW s \in Address, NEW p \in Property, Covered(d),
           NEW offered \in 0 .. MaxInt, NEW desired \in Int64, NEW minFee \in Int,
           NEW window \in Nat, NEW txid \in Txid
    PROVE  LET r == DEx_offerCreate(d, s, p, offered, desired, minFee, window, txid)
           IN  r.abort = NoAbort => Covered(r) /\ SameHoldings(d, r)
<1> DEFINE r == DEx_offerCreate(d, s, p, offered, desired, minFee, window, txid)
<1>0. OfferCreated(d, r, s, p, offered, desired, window, txid)
  BY OfferCreateEffect
<1> HIDE DEF r
<1> SUFFICES ASSUME r.abort = NoAbort PROVE Covered(r) /\ SameHoldings(d, r)
  BY DEF r
<1>1. /\ r \in DState
      /\ \/ r.tally = d.tally /\ r.offers = d.offers
         \/ /\ \E n \in 1 .. MaxInt :
                  r.tally = Moved(d.tally, <<s, p, "BALANCE">>, <<s, p, "SELLOFFER_RESERVE">>, n)
            /\ \E o \in Offer : r.offers = With(d.offers, <<s, p>>, o)
  BY <1>0 DEF OfferCreated
<1>2. CASE r.tally = d.tally /\ r.offers = d.offers
  BY <1>2 DEF Covered, SameHoldings, HoldingsOf
<1>3. CASE /\ \E n \in 1 .. MaxInt :
                 r.tally = Moved(d.tally, <<s, p, "BALANCE">>, <<s, p, "SELLOFFER_RESERVE">>, n)
           /\ \E o \in Offer : r.offers = With(d.offers, <<s, p>>, o)
  <2>1. PICK n \in Int :
           r.tally = Moved(d.tally, <<s, p, "BALANCE">>, <<s, p, "SELLOFFER_RESERVE">>, n)
    BY <1>3
  <2>2. PICK o \in Offer : r.offers = With(d.offers, <<s, p>>, o)
    BY <1>3
  <2>3. "SELLOFFER_RESERVE" \in SellerTallies /\ "BALANCE" \in SellerTallies
    BY DEF SellerTallies
  <2>4. /\ SameHoldings(d, r)
        /\ \A s1 \in Address, p1 \in Property : <<s1, p1>> # <<s, p>> =>
              r.tally[<<s1, p1, "SELLOFFER_RESERVE">>] = d.tally[<<s1, p1, "SELLOFFER_RESERVE">>]
    <3>1. SellerMoved(d, r, s, p, "BALANCE", "SELLOFFER_RESERVE", n)
      BY <1>1, <2>1, <2>3, SellerMove
    <3> QED BY <3>1 DEF SellerMoved
  <2>5. \A s1 \in Address, p1 \in Property :
           r.offers[<<s1, p1>>] = IF <<s1, p1>> = <<s, p>> THEN o ELSE d.offers[<<s1, p1>>]
    BY <2>2 DEF With, DState, OfferKey
  <2>6. o # None
    BY NoneAssumption
  <2>7. Covered(r)
    BY <2>4, <2>5, <2>6 DEF Covered
  <2> QED BY <2>4, <2>7
<1> QED
  BY <1>1, <1>2, <1>3

\* An accept takes its tokens from the reserve of an existing offer.
LEMMA AcceptCreateCovers ==
    ASSUME NEW d \in DState, NEW b \in Address, NEW s \in Address, NEW p \in Property,
           Covered(d), NEW amount \in 1 .. MaxInt, NEW fee \in Int
    PROVE  LET r == DEx_acceptCreate(d, b, s, p, amount, fee)
           IN  r.abort = NoAbort => Covered(r) /\ SameHoldings(d, r)
<1> DEFINE r == DEx_acceptCreate(d, b, s, p, amount, fee)
<1>0. AcceptCreated(d, r, b, s, p)
  BY AcceptCreateEffect
<1> HIDE DEF r
<1> SUFFICES ASSUME r.abort = NoAbort PROVE Covered(r) /\ SameHoldings(d, r)
  BY DEF r
<1>1. /\ r \in DState /\ r.offers = d.offers
      /\ \/ r.tally = d.tally
         \/ /\ d.offers[<<s, p>>] # None
            /\ \E n \in 1 .. MaxInt : r.tally =
                  Moved(d.tally, <<s, p, "SELLOFFER_RESERVE">>, <<s, p, "ACCEPT_RESERVE">>, n)
  BY <1>0 DEF AcceptCreated
<1>2. CASE r.tally = d.tally
  BY <1>1, <1>2 DEF Covered, SameHoldings, HoldingsOf
<1>3. CASE /\ d.offers[<<s, p>>] # None
           /\ \E n \in 1 .. MaxInt : r.tally =
                 Moved(d.tally, <<s, p, "SELLOFFER_RESERVE">>, <<s, p, "ACCEPT_RESERVE">>, n)
  <2>1. PICK n \in Int : r.tally =
                 Moved(d.tally, <<s, p, "SELLOFFER_RESERVE">>, <<s, p, "ACCEPT_RESERVE">>, n)
    BY <1>3
  <2>2. "SELLOFFER_RESERVE" \in SellerTallies /\ "ACCEPT_RESERVE" \in SellerTallies
    BY DEF SellerTallies
  <2>3. /\ SameHoldings(d, r)
        /\ \A s1 \in Address, p1 \in Property : <<s1, p1>> # <<s, p>> =>
              r.tally[<<s1, p1, "SELLOFFER_RESERVE">>] = d.tally[<<s1, p1, "SELLOFFER_RESERVE">>]
    <3>1. SellerMoved(d, r, s, p, "SELLOFFER_RESERVE", "ACCEPT_RESERVE", n)
      BY <1>1, <2>1, <2>2, SellerMove
    <3> QED BY <3>1 DEF SellerMoved
  <2>4. Covered(r)
    BY <1>1, <1>3, <2>3 DEF Covered
  <2> QED BY <2>3, <2>4
<1> QED
  BY <1>1, <1>2, <1>3

\* What is left of an accept goes back to a reserve only if there is an offer.
LEMMA AcceptDestroyCovers ==
    ASSUME NEW d \in DState, NEW b \in Address, NEW s \in Address, NEW p \in Property,
           d.accepts[<<s, p, b>>] # None, Covered(d)
    PROVE  LET r == DEx_acceptDestroy(d, b, s, p)
           IN  r.abort = NoAbort => Covered(r) /\ SameHoldings(d, r)
<1> DEFINE r == DEx_acceptDestroy(d, b, s, p)
           n == d.accepts[<<s, p, b>>].remaining
<1>0. /\ r \in DState /\ r.offers = d.offers /\ n \in Int
      /\ r.abort = NoAbort =>
           \/ r.tally = d.tally
           \/ r.tally = Moved(d.tally, <<s, p, "ACCEPT_RESERVE">>, <<s, p, "BALANCE">>, n)
           \/ /\ d.offers[<<s, p>>] # None
              /\ r.tally = Moved(d.tally, <<s, p, "ACCEPT_RESERVE">>, <<s, p, "SELLOFFER_RESERVE">>, n)
  BY AcceptDestroyEffect
<1> HIDE DEF r, n
<1> SUFFICES ASSUME r.abort = NoAbort PROVE Covered(r) /\ SameHoldings(d, r)
  BY DEF r
<1>1. r \in DState /\ r.offers = d.offers /\ n \in Int
  BY <1>0
<1>2. "SELLOFFER_RESERVE" \in SellerTallies /\ "ACCEPT_RESERVE" \in SellerTallies
      /\ "BALANCE" \in SellerTallies
  BY DEF SellerTallies
<1>3. CASE r.tally = d.tally
  BY <1>1, <1>3 DEF Covered, SameHoldings, HoldingsOf
<1>4. CASE r.tally = Moved(d.tally, <<s, p, "ACCEPT_RESERVE">>, <<s, p, "BALANCE">>, n)
  <2>1. /\ SameHoldings(d, r)
        /\ \A s1 \in Address, p1 \in Property :
              r.tally[<<s1, p1, "SELLOFFER_RESERVE">>] = d.tally[<<s1, p1, "SELLOFFER_RESERVE">>]
    <3>1. SellerMoved(d, r, s, p, "ACCEPT_RESERVE", "BALANCE", n)
      BY <1>1, <1>2, <1>4, SellerMove
    <3> QED BY <3>1 DEF SellerMoved
  <2>2. Covered(r)
    BY <1>1, <2>1 DEF Covered
  <2> QED BY <2>1, <2>2
<1>5. CASE /\ d.offers[<<s, p>>] # None
           /\ r.tally = Moved(d.tally, <<s, p, "ACCEPT_RESERVE">>, <<s, p, "SELLOFFER_RESERVE">>, n)
  <2>1. /\ SameHoldings(d, r)
        /\ \A s1 \in Address, p1 \in Property : <<s1, p1>> # <<s, p>> =>
              r.tally[<<s1, p1, "SELLOFFER_RESERVE">>] = d.tally[<<s1, p1, "SELLOFFER_RESERVE">>]
    <3>1. r \in DState /\ n \in Int
      BY <1>1
    <3>2. r.tally = Moved(d.tally, <<s, p, "ACCEPT_RESERVE">>, <<s, p, "SELLOFFER_RESERVE">>, n)
      BY <1>5
    <3>3. "SELLOFFER_RESERVE" \in SellerTallies /\ "ACCEPT_RESERVE" \in SellerTallies
      BY <1>2
    <3>4. SellerMoved(d, r, s, p, "ACCEPT_RESERVE", "SELLOFFER_RESERVE", n)
      BY <3>1, <3>2, <3>3, SellerMove
    <3> QED BY <3>4 DEF SellerMoved
  <2>2. Covered(r)
    BY <1>1, <1>5, <2>1 DEF Covered
  <2> QED BY <2>1, <2>2
<1> QED
  BY <1>0, <1>3, <1>4, <1>5

\* The entries of a map after a debit and a credit.
LEMMA MovedValue ==
    ASSUME NEW t \in Tallies, NEW from \in TallyKey, NEW to \in TallyKey, NEW n \in Int
    PROVE  \A k \in TallyKey :
              /\ t[k] \in Int
              /\ Moved(t, from, to, n)[k]
                    = t[k] - (IF k = from THEN n ELSE 0) + (IF k = to THEN n ELSE 0)
<1>1. t \in [TallyKey -> Int]
  BY DEF Tallies, Int64
<1> QED
  BY <1>1 DEF Moved

\* The buyer has n tokens more, the seller as many less, and no sell reserve changes.
HandedOver(d, r, s, b, p, n) ==
    /\ \A s1 \in Address, p1 \in Property :
         r.tally[<<s1, p1, "SELLOFFER_RESERVE">>] = d.tally[<<s1, p1, "SELLOFFER_RESERVE">>]
    /\ \A s1 \in Address, p1 \in Property : HoldingsOf(r, s1, p1) < HoldingsOf(d, s1, p1) =>
         /\ s1 = s /\ p1 = p /\ b # s
         /\ HoldingsOf(d, s1, p1) - HoldingsOf(r, s1, p1) = n
    /\ r.tally[<<b, p, "BALANCE">>] - d.tally[<<b, p, "BALANCE">>] = n

\* A purchase takes tokens from the accept reserve of the seller only, gives them
\* to the buyer, and touches no sell reserve.
LEMMA PurchaseMove ==
    ASSUME NEW d \in DState, NEW r \in DState, NEW s \in Address, NEW b \in Address,
           NEW p \in Property, NEW n \in Int, n > 0,
           r.tally = Moved(d.tally, <<s, p, "ACCEPT_RESERVE">>, <<b, p, "BALANCE">>, n)
    PROVE  HandedOver(d, r, s, b, p, n)
<1> DEFINE In(a, q, h) == IF <<a, q, h>> = <<b, p, "BALANCE">> THEN n ELSE 0
           Out(a, q, h) == IF <<a, q, h>> = <<s, p, "ACCEPT_RESERVE">> THEN n ELSE 0
<1>1. ASSUME NEW a \in Address, NEW q \in Property, NEW h \in SellerTallies
      PROVE  /\ d.tally[<<a, q, h>>] \in Int
             /\ r.tally[<<a, q, h>>] = d.tally[<<a, q, h>>] - Out(a, q, h) + In(a, q, h)
  <2>1. d.tally \in Tallies
    BY DEF DState
  <2>2. /\ <<a, q, h>> \in TallyKey /\ <<b, p, "BALANCE">> \in TallyKey
        /\ <<s, p, "ACCEPT_RESERVE">> \in TallyKey
    BY DEF TallyKey, SellerTallies, TallyType
  <2> QED BY <2>1, <2>2, MovedValue
<1>2. "BALANCE" \in SellerTallies /\ "SELLOFFER_RESERVE" \in SellerTallies
      /\ "ACCEPT_RESERVE" \in SellerTallies
  BY DEF SellerTallies
<1>3. ASSUME NEW a \in Address, NEW q \in Property
      PROVE  r.tally[<<a, q, "SELLOFFER_RESERVE">>] = d.tally[<<a, q, "SELLOFFER_RESERVE">>]
  BY <1>1, <1>2
<1>4. ASSUME NEW a \in Address, NEW q \in Property
      PROVE  /\ HoldingsOf(d, a, q) \in Int
             /\ HoldingsOf(r, a, q) = HoldingsOf(d, a, q)
                   - (IF a = s /\ q = p THEN n ELSE 0) + (IF a = b /\ q = p THEN n ELSE 0)
  <2> DEFINE B(x) == x.tally[<<a, q, "BALANCE">>]
             S(x) == x.tally[<<a, q, "SELLOFFER_RESERVE">>]
             A(x) == x.tally[<<a, q, "ACCEPT_RESERVE">>]
             minus == IF a = s /\ q = p THEN n ELSE 0
             plus == IF a = b /\ q = p THEN n ELSE 0
  <2>1. B(d) \in Int /\ B(r) = B(d) + plus
    BY <1>1, <1>2
  <2>2. S(d) \in Int /\ S(r) = S(d)
    BY <1>1, <1>2
  <2>3. A(d) \in Int /\ A(r) = A(d) - minus
    BY <1>1, <1>2
  <2>4. plus \in Int /\ minus \in Int
    OBVIOUS
  <2> HIDE DEF B, S, A, plus, minus
  <2>5. /\ B(d) + S(d) + A(d) \in Int
        /\ B(r) + S(r) + A(r) = (B(d) + S(d) + A(d)) - minus + plus
    BY <2>1, <2>2, <2>3, <2>4
  <2> QED
    BY <2>5 DEF HoldingsOf, B, S, A, plus, minus
<1>5. ASSUME NEW a \in Address, NEW q \in Property, HoldingsOf(r, a, q) < HoldingsOf(d, a, q)
      PROVE  a = s /\ q = p /\ b # s /\ HoldingsOf(d, a, q) - HoldingsOf(r, a, q) = n
  <2> DEFINE H(x) == HoldingsOf(x, a, q)
  <2>1. H(d) \in Int
    BY <1>4
  <2>2. H(r) = H(d) - (IF a = s /\ q = p THEN n ELSE 0) + (IF a = b /\ q = p THEN n ELSE 0)
    BY <1>4
  <2>3. H(r) < H(d)
    BY <1>5
  <2> HIDE DEF H
  <2>4. a = s /\ q = p /\ b # s /\ H(d) - H(r) = n
    BY <2>1, <2>2, <2>3
  <2> QED BY <2>4 DEF H
<1>6. r.tally[<<b, p, "BALANCE">>] - d.tally[<<b, p, "BALANCE">>] = n
  BY <1>1, <1>2
<1> QED
  BY <1>3, <1>5, <1>6 DEF HandedOver

RemainingOf(d, k) == IF d.accepts[k] = None THEN 0 ELSE d.accepts[k].remaining

\* An address that holds less after a payment is the seller, whose accept is
\* reduced by just as much, and the buyer has got it.
Delivered(d, r, s, b, p) ==
    \A s1 \in Address, p1 \in Property : HoldingsOf(r, s1, p1) < HoldingsOf(d, s1, p1) =>
        /\ s1 = s /\ p1 = p /\ b # s
        /\ RemainingOf(d, <<s, p, b>>) - RemainingOf(r, <<s, p, b>>)
              = HoldingsOf(d, s, p) - HoldingsOf(r, s, p)
        /\ r.tally[<<b, p, "BALANCE">>] - d.tally[<<b, p, "BALANCE">>]
              = HoldingsOf(d, s, p) - HoldingsOf(r, s, p)

\* A booked purchase keeps the reserves covered and delivers what it takes.
LEMMA BookPurchaseDelivers ==
    ASSUME NEW d \in DState, NEW s \in Address, NEW b \in Address, NEW p \in Property,
           d.accepts[<<s, p, b>>] # None,
           NEW n \in Int, n <= d.accepts[<<s, p, b>>].remaining, Covered(d)
    PROVE  LET r == BookPurchase(d, s, b, p, n)
           IN  r.abort = NoAbort => Covered(r) /\ Delivered(d, r, s, b, p)
<1> DEFINE r == BookPurchase(d, s, b, p, n)
           k == <<s, p, b>>
           rem == d.accepts[k].remaining
           left == rem - n
           kept == IF n > 0 THEN Moved(d.tally, <<s, p, "ACCEPT_RESERVE">>, <<b, p, "BALANCE">>, n)
                   ELSE d.tally
<1>0. PurchaseBooked(d, r, s, b, p, n)
  BY BookPurchaseEffect
<1>1. /\ r \in DState
      /\ r.abort = NoAbort =>
           /\ r.tally = kept
           /\ r.accepts = With(d.accepts, k, Reduced(d.accepts[k], left))
           /\ \/ r.offers = d.offers
              \/ /\ r.offers = With(d.offers, <<s, p>>, None)
                 /\ r.tally[<<s, p, "SELLOFFER_RESERVE">>] = 0
  <2> HIDE DEF r
  <2> QED BY <1>0 DEF PurchaseBooked
<1>2. rem \in Int /\ k \in AcceptKey /\ d.accepts[k] \in Accept
  BY DEF DState, AcceptKey, Accept
<1> HIDE DEF r
<1> SUFFICES ASSUME r.abort = NoAbort PROVE Covered(r) /\ Delivered(d, r, s, b, p)
  BY DEF r
<1>3. RemainingOf(d, k) - RemainingOf(r, k) = n
  <2>1. left \in Int /\ left >= 0
    BY <1>2
  <2>2. r.accepts[k] = Reduced(d.accepts[k], left)
    BY <1>1, <1>2 DEF With, DState
  <2> HIDE DEF left
  <2>3. CASE left > 0
    <3>1. [d.accepts[k] EXCEPT !.remaining = left] \in Accept
      BY <1>2, <2>1 DEF Accept
    <3>2. r.accepts[k] = [d.accepts[k] EXCEPT !.remaining = left]
      BY <2>2, <2>3 DEF Reduced
    <3>3. r.accepts[k] # None
      BY <3>1, <3>2, NoneAssumption
    <3>4. r.accepts[k].remaining = left
      <4> DEFINE a == d.accepts[k]
      <4>1. a \in Accept
        BY <1>2
      <4> HIDE DEF a
      <4>2. [a EXCEPT !.remaining = left].remaining = left
        BY <4>1 DEF Accept
      <4> QED BY <3>2, <4>2 DEF a
    <3> QED
      BY <1>2, <3>3, <3>4 DEF RemainingOf, left
  <2>4. CASE left = 0
    <3>1. r.accepts[k] = None
      BY <2>2, <2>4 DEF Reduced
    <3> QED
      BY <1>2, <2>4, <3>1 DEF RemainingOf, left
  <2> QED BY <2>1, <2>3, <2>4
<1> HIDE DEF k, left
<1>4. \A s1 \in Address, p1 \in Property :
         r.tally[<<s1, p1, "SELLOFFER_RESERVE">>] = d.tally[<<s1, p1, "SELLOFFER_RESERVE">>]
  <2>1. CASE n > 0
    <3>1. r \in DState /\ r.tally = Moved(d.tally, <<s, p, "ACCEPT_RESERVE">>, <<b, p, "BALANCE">>, n)
      BY <1>1, <2>1
    <3>2. HandedOver(d, r, s, b, p, n)
      BY <2>1, <3>1, PurchaseMove
    <3> QED BY <3>2 DEF HandedOver
  <2>2. CASE ~(n > 0)
    BY <1>1, <2>2
  <2> QED BY <2>1, <2>2
<1>5. Covered(r)
  <2>1. CASE r.offers = d.offers
    BY <1>4, <2>1 DEF Covered
  <2>2. CASE r.offers = With(d.offers, <<s, p>>, None) /\ r.tally[<<s, p, "SELLOFFER_RESERVE">>] = 0
    <3>1. \A s1 \in Address, p1 \in Property : <<s1, p1>> # <<s, p>> =>
             r.offers[<<s1, p1>>] = d.offers[<<s1, p1>>]
      BY <2>2 DEF With, DState, OfferKey
    <3> QED BY <1>4, <2>2, <3>1 DEF Covered
  <2> QED BY <1>1, <2>1, <2>2
<1>6. Delivered(d, r, s, b, p)
  <2>1. CASE n > 0
    <3>1. r.tally = Moved(d.tally, <<s, p, "ACCEPT_RESERVE">>, <<b, p, "BALANCE">>, n)
      BY <1>1, <2>1
    <3>2. HandedOver(d, r, s, b, p, n)
      BY <1>1, <2>1, <3>1, PurchaseMove
    <3> QED BY <1>3, <3>2 DEF Delivered, HandedOver, k
  <2>2. CASE ~(n > 0)
    <3>1. r.tally = d.tally
      BY <1>1, <2>2
    <3>2. ASSUME NEW s1 \in Address, NEW p1 \in Property
          PROVE  ~(HoldingsOf(r, s1, p1) < HoldingsOf(d, s1, p1))
      <4>1. HoldingsOf(d, s1, p1) \in Int
        BY TallyTypes DEF HoldingsOf, DState, Tallies, TallyKey, Int64
      <4>2. HoldingsOf(r, s1, p1) = HoldingsOf(d, s1, p1)
        BY <3>1 DEF HoldingsOf
      <4> QED BY <4>1, <4>2
    <3> QED BY <3>2 DEF Delivered
  <2> QED BY <2>1, <2>2
<1> QED
  BY <1>5, <1>6

\* The same of DEx_payment.
LEMMA PaymentDelivers ==
    ASSUME NEW d \in DState, NEW s \in Address, NEW b \in Address, NEW p \in Property,
           d.accepts[<<s, p, b>>] # None, NEW paid \in Nat, Covered(d)
    PROVE  LET r == DEx_payment(d, s, b, p, paid)
           IN  r.abort = NoAbort => Covered(r) /\ Delivered(d, r, s, b, p)
<1> DEFINE r == DEx_payment(d, s, b, p, paid)
<1>0. Paid(d, r, s, b, p)
  BY PaymentEffect
<1>1. /\ r \in DState
      /\ r.abort = NoAbort =>
           \/ /\ d.abort = NoAbort
              /\ r.tally = d.tally /\ r.offers = d.offers /\ r.accepts = d.accepts
           \/ \E n \in Int : /\ n <= d.accepts[<<s, p, b>>].remaining
                             /\ "DEXMATH" \in features =>
                                   n >= 0 \/ n = d.accepts[<<s, p, b>>].remaining
                             /\ r = BookPurchase(d, s, b, p, n)
  <2> HIDE DEF r
  <2> QED BY <1>0 DEF Paid
<1> HIDE DEF r
<1> SUFFICES ASSUME r.abort = NoAbort PROVE Covered(r) /\ Delivered(d, r, s, b, p)
  BY DEF r
<1>2. CASE r.tally = d.tally /\ r.offers = d.offers
  <2>1. Covered(r)
    BY <1>2 DEF Covered
  <2>2. ASSUME NEW s1 \in Address, NEW p1 \in Property
        PROVE  ~(HoldingsOf(r, s1, p1) < HoldingsOf(d, s1, p1))
    <3>1. HoldingsOf(d, s1, p1) \in Int
      BY TallyTypes DEF HoldingsOf, DState, Tallies, TallyKey, Int64
    <3>2. HoldingsOf(r, s1, p1) = HoldingsOf(d, s1, p1)
      BY <1>2 DEF HoldingsOf
    <3> QED BY <3>1, <3>2
  <2> QED BY <2>1, <2>2 DEF Delivered
<1>3. CASE \E n \in Int : /\ n <= d.accepts[<<s, p, b>>].remaining
                          /\ "DEXMATH" \in features =>
                                n >= 0 \/ n = d.accepts[<<s, p, b>>].remaining
                          /\ r = BookPurchase(d, s, b, p, n)
  <2>1. PICK n \in Int : /\ n <= d.accepts[<<s, p, b>>].remaining
                         /\ "DEXMATH" \in features =>
                                n >= 0 \/ n = d.accepts[<<s, p, b>>].remaining
                         /\ r = BookPurchase(d, s, b, p, n)
    BY <1>3
  <2> QED BY <2>1, BookPurchaseDelivers
<1> QED
  BY <1>1, <1>2, <1>3

\* SellReserveHasOffer is Covered of the current state.
LEMMA CoveredCurrent ==
    /\ SellReserveHasOffer <=> Covered(Current)
    /\ \A s \in Address, p \in Property : HoldingsOf(Current, s, p) = Holdings(s, p)
    /\ \A k \in AcceptKey : RemainingOf(Current, k) = Remaining(k)
  BY DEF SellReserveHasOffer, Covered, Current, HoldingsOf, Holdings, RemainingOf, Remaining

\* A handler that ends with the reserves covered leaves them covered, and the
\* holdings and the accepts are those it has computed.
LEMMA InstallCovered ==
    ASSUME NEW d, Install(d), d.abort = NoAbort
    PROVE  /\ Covered(d) => SellReserveHasOffer'
           /\ \A s \in Address, p \in Property : HoldingsOf(d, s, p) = Holdings(s, p)'
           /\ \A k \in AcceptKey : RemainingOf(d, k) = Remaining(k)'
           /\ tally' = d.tally
<1>1. tally' = d.tally /\ offers' = d.offers /\ accepts' = d.accepts
  BY DEF Install
<1>2. Covered(d) => SellReserveHasOffer'
  BY <1>1 DEF SellReserveHasOffer, Covered
<1>3. \A s \in Address, p \in Property : HoldingsOf(d, s, p) = Holdings(s, p)'
  BY <1>1 DEF HoldingsOf, Holdings
<1>4. \A k \in AcceptKey : RemainingOf(d, k) = Remaining(k)'
  BY <1>1 DEF RemainingOf, Remaining
<1> QED
  BY <1>1, <1>2, <1>3, <1>4

\* An assertion that fails leaves the maps alone.
LEMMA InstallAborted ==
    ASSUME NEW d, Install(d), d.abort # NoAbort
    PROVE  UNCHANGED <<tally, offers, accepts>>
  BY DEF Install

\* The holdings of an address are an integer.
LEMMA HoldingsType ==
    ASSUME TypeOK, NEW s \in Address, NEW p \in Property
    PROVE  Holdings(s, p) \in Int
  BY TallyTypes DEF TypeOK, Holdings, Tallies, TallyKey, Int64

\* A step that leaves the tallies alone takes no tokens from anyone.
LEMMA SameTally ==
    ASSUME TypeOK, UNCHANGED tally
    PROVE  TokensLeaveForAccept
<1>1. ASSUME NEW s \in Address, NEW p \in Property
      PROVE  ~(Holdings(s, p)' < Holdings(s, p))
  <2>1. Holdings(s, p)' = Holdings(s, p)
    BY DEF Holdings
  <2>2. Holdings(s, p) \in Int
    BY HoldingsType
  <2> QED BY <2>1, <2>2
<1> QED
  BY <1>1 DEF TokensLeaveForAccept

\* A handler that moves tokens only between tallies of one address.
LEMMA KeepStep ==
    ASSUME TypeOK, SellReserveHasOffer, NEW r, Install(r),
           r.abort = NoAbort => Covered(r) /\ SameHoldings(Current, r)
    PROVE  SellReserveHasOffer' /\ TokensLeaveForAccept
<1>1. CASE r.abort # NoAbort
  <2>1. UNCHANGED <<tally, offers, accepts>>
    BY <1>1, InstallAborted
  <2> QED
    BY <2>1, SameTally DEF SellReserveHasOffer
<1>2. CASE r.abort = NoAbort
  <2>1. SellReserveHasOffer'
    BY <1>2, InstallCovered
  <2>2. ASSUME NEW s \in Address, NEW p \in Property
        PROVE  ~(Holdings(s, p)' < Holdings(s, p))
    <3>1. HoldingsOf(r, s, p) = HoldingsOf(Current, s, p)
      BY <1>2 DEF SameHoldings
    <3>2. HoldingsOf(r, s, p) = Holdings(s, p)'
      BY <1>2, InstallCovered
    <3>3. HoldingsOf(Current, s, p) = Holdings(s, p)
      BY CoveredCurrent
    <3>4. Holdings(s, p) \in Int
      BY HoldingsType
    <3>5. Holdings(s, p)' = Holdings(s, p)
      BY <3>1, <3>2, <3>3
    <3> QED BY <3>4, <3>5
  <2> QED
    BY <2>1, <2>2 DEF TokensLeaveForAccept
<1> QED BY <1>1, <1>2

\* A payment.
LEMMA DeliverStep ==
    ASSUME TypeOK, SellReserveHasOffer, NEW r, Install(r),
           NEW s \in Address, NEW b \in Address, NEW p \in Property,
           r.abort = NoAbort => Covered(r) /\ Delivered(Current, r, s, b, p)
    PROVE  SellReserveHasOffer' /\ TokensLeaveForAccept
<1>1. CASE r.abort # NoAbort
  <2>1. UNCHANGED <<tally, offers, accepts>>
    BY <1>1, InstallAborted
  <2> QED
    BY <2>1, SameTally DEF SellReserveHasOffer
<1>2. CASE r.abort = NoAbort
  <2>1. SellReserveHasOffer' /\ tally' = r.tally
    BY <1>2, InstallCovered
  <2>2. ASSUME NEW s1 \in Address, NEW p1 \in Property, Holdings(s1, p1)' < Holdings(s1, p1)
        PROVE  \E b1 \in Address \ {s1} :
                  /\ Remaining(<<s1, p1, b1>>) - Remaining(<<s1, p1, b1>>)'
                        = Holdings(s1, p1) - Holdings(s1, p1)'
                  /\ tally'[<<b1, p1, "BALANCE">>] - tally[<<b1, p1, "BALANCE">>]
                        = Holdings(s1, p1) - Holdings(s1, p1)'
    <3>1. HoldingsOf(r, s1, p1) = Holdings(s1, p1)'
      BY <1>2, InstallCovered
    <3>2. HoldingsOf(Current, s1, p1) = Holdings(s1, p1)
      BY CoveredCurrent
    <3>3. /\ s1 = s /\ p1 = p /\ b # s
          /\ RemainingOf(Current, <<s, p, b>>) - RemainingOf(r, <<s, p, b>>)
                = HoldingsOf(Current, s, p) - HoldingsOf(r, s, p)
          /\ r.tally[<<b, p, "BALANCE">>] - Current.tally[<<b, p, "BALANCE">>]
                = HoldingsOf(Current, s, p) - HoldingsOf(r, s, p)
      BY <1>2, <2>2, <3>1, <3>2 DEF Delivered
    <3>4. <<s, p, b>> \in AcceptKey
      BY DEF AcceptKey
    <3>5. /\ RemainingOf(r, <<s, p, b>>) = Remaining(<<s, p, b>>)'
          /\ RemainingOf(Current, <<s, p, b>>) = Remaining(<<s, p, b>>)
      BY <1>2, <3>4, InstallCovered, CoveredCurrent
    <3>6. Current.tally = tally
      BY DEF Current
    <3>7. /\ Remaining(<<s, p, b>>) - Remaining(<<s, p, b>>)' = Holdings(s, p) - Holdings(s, p)'
          /\ tally'[<<b, p, "BALANCE">>] - tally[<<b, p, "BALANCE">>]
                = Holdings(s, p) - Holdings(s, p)'
      BY <2>1, <3>1, <3>2, <3>3, <3>5, <3>6
    <3> QED BY <3>3, <3>7
  <2> QED
    BY <2>1, <2>2 DEF TokensLeaveForAccept
<1> QED BY <1>1, <1>2

\* Every action keeps the reserves covered and delivers the tokens it takes.
LEMMA ReserveStep ==
    TypeOK /\ SellReserveHasOffer /\ [Next]_vars => SellReserveHasOffer' /\ [TokensLeaveForAccept]_vars
<1> SUFFICES ASSUME TypeOK, SellReserveHasOffer, [Next]_vars
             PROVE  SellReserveHasOffer' /\ TokensLeaveForAccept
  OBVIOUS
<1>0. Current \in DState /\ Covered(Current) /\ Current.accepts = accepts
  BY CurrentType, CoveredCurrent DEF Current
<1>1. ASSUME NEW s \in Address, NEW p \in Property, TradeOfferCancel(s, p)
      PROVE  SellReserveHasOffer' /\ TokensLeaveForAccept
  <2> DEFINE r == DEx_offerDestroy(Current, s, p)
  <2>1. r.abort = NoAbort => Covered(r) /\ SameHoldings(Current, r)
    BY <1>0, OfferDestroyCovers
  <2>2. Install(r)
    BY <1>1 DEF TradeOfferCancel
  <2> HIDE DEF r
  <2> QED BY <2>1, <2>2, KeepStep
<1>2. ASSUME NEW s \in Address, NEW p \in Property, NEW n \in Amounts, NEW x \in Prices,
             NEW f \in MinFees, NEW w \in Windows,
             TradeOfferNew(s, p, n, x, f, w) \/ TradeOfferUpdate(s, p, n, x, f, w)
      PROVE  SellReserveHasOffer' /\ TokensLeaveForAccept
  <2>1. n <= MaxInt /\ (\E t \in Txid : IsFreshTxid(t))
    BY <1>2 DEF TradeOfferNew, TradeOfferUpdate, MayTradeOffer
  <2>2. FreshTxid \in Txid
    BY <2>1, FreshTxidType
  <2>3. n \in 0 .. MaxInt /\ x \in Int64 /\ f \in Int /\ w \in Nat
    BY <2>1, MaxIntAssumption, InputAssumption
  <2>4. CASE TradeOfferNew(s, p, n, x, f, w)
    <3> DEFINE r == DEx_offerCreate(Current, s, p, n, x, f, w, FreshTxid)
    <3>1. r.abort = NoAbort => Covered(r) /\ SameHoldings(Current, r)
      BY <1>0, <2>2, <2>3, OfferCreateCovers
    <3>2. Install(r)
      BY <2>4 DEF TradeOfferNew
    <3> HIDE DEF r
    <3> QED BY <3>1, <3>2, KeepStep
  <2>5. CASE TradeOfferUpdate(s, p, n, x, f, w)
    <3> DEFINE e == DEx_offerDestroy(Current, s, p)
               r == DEx_offerCreate(e, s, p, n, x, f, w, FreshTxid)
    <3>1. e \in DState
      BY <1>0, OfferDestroyEffect
    <3>2. e.abort = NoAbort => Covered(e) /\ SameHoldings(Current, e)
      BY <1>0, OfferDestroyCovers
    <3> HIDE DEF e
    <3>3. r.abort = NoAbort => e.abort = NoAbort
      BY <2>2, <2>3, <3>1, OfferCreateAborts
    <3>4. Covered(e) => (r.abort = NoAbort => Covered(r) /\ SameHoldings(e, r))
      BY <2>2, <2>3, <3>1, OfferCreateCovers
    <3>5. Install(r)
      BY <2>5 DEF TradeOfferUpdate, DEx_offerUpdate, e
    <3> HIDE DEF r
    <3>6. SameHoldings(Current, e) /\ SameHoldings(e, r) => SameHoldings(Current, r)
      BY DEF SameHoldings
    <3>7. r.abort = NoAbort => Covered(r) /\ SameHoldings(Current, r)
      BY <3>2, <3>3, <3>4, <3>6
    <3> QED BY <3>5, <3>7, KeepStep
  <2> QED BY <1>2, <2>4, <2>5
<1>3. ASSUME NEW b \in Address, NEW s \in Address, NEW p \in Property,
             NEW n \in Amounts, NEW f \in Fees, AcceptOffer_XEP(b, s, p, n, f)
      PROVE  SellReserveHasOffer' /\ TokensLeaveForAccept
  <2> DEFINE r == DEx_acceptCreate(Current, b, s, p, n, f)
  <2>1. n \in 1 .. MaxInt /\ f \in Int /\ Install(r)
    BY <1>3, InputAssumption DEF AcceptOffer_XEP
  <2>2. r.abort = NoAbort => Covered(r) /\ SameHoldings(Current, r)
    BY <1>0, <2>1, AcceptCreateCovers
  <2> HIDE DEF r
  <2> QED BY <2>1, <2>2, KeepStep
<1>4. ASSUME NEW b \in Address, NEW s \in Address, NEW p \in Property,
             NEW x \in Payments, HandleDExPayment(s, b, p, x)
      PROVE  SellReserveHasOffer' /\ TokensLeaveForAccept
  <2> DEFINE r == DEx_payment(Current, s, b, p, x)
  <2>1. Current.accepts[<<s, p, b>>] # None /\ x \in Nat /\ Install(r)
    BY <1>4, InputAssumption DEF HandleDExPayment, IsPaidFor, DEx_acceptExists
  <2>2. r.abort = NoAbort => Covered(r) /\ Delivered(Current, r, s, b, p)
    BY <1>0, <2>1, PaymentDelivers
  <2> HIDE DEF r
  <2> QED BY <2>1, <2>2, DeliverStep
<1>5. ASSUME NEW k \in AcceptKey, EraseExpiredAccept(k)
      PROVE  SellReserveHasOffer' /\ TokensLeaveForAccept
  <2>1. PICK s \in Address, p \in Property, b \in Address : k = <<s, p, b>>
    BY DEF AcceptKey
  <2> DEFINE r == DEx_acceptDestroy(Current, b, s, p)
  <2>2. Current.accepts[<<s, p, b>>] # None /\ Install(r)
    BY <1>0, <1>5, <2>1 DEF EraseExpiredAccept, Expired
  <2>3. r.abort = NoAbort => Covered(r) /\ SameHoldings(Current, r)
    BY <1>0, <2>2, AcceptDestroyCovers
  <2> HIDE DEF r
  <2> QED BY <2>2, <2>3, KeepStep
<1>6. ASSUME UNCHANGED <<tally, offers>>
      PROVE  SellReserveHasOffer' /\ TokensLeaveForAccept
  BY <1>6, SameTally DEF SellReserveHasOffer
<1>7. CASE BlockEnd \/ EraseExpiredAcceptsDone \/ UNCHANGED vars
  BY <1>6, <1>7 DEF BlockEnd, EraseExpiredAcceptsDone, vars
<1>8. ASSUME NEW k, FreezeOrUnfreeze(k) \/ ToggleFeature(k)
      PROVE  SellReserveHasOffer' /\ TokensLeaveForAccept
  BY <1>6, <1>8 DEF FreezeOrUnfreeze, ToggleFeature
<1> QED
  BY <1>1, <1>2, <1>3, <1>4, <1>5, <1>7, <1>8 DEF Next, TradeOffer

\* The exchange starts with nothing reserved.
LEMMA ReserveInit == Init => SellReserveHasOffer
<1> SUFFICES ASSUME Init, NEW s \in Address, NEW p \in Property
             PROVE  ~(tally[<<s, p, "SELLOFFER_RESERVE">>] > 0)
  BY DEF SellReserveHasOffer
<1>1. <<s, p, "SELLOFFER_RESERVE">> \in TallyKey
  BY TallyTypes DEF TallyKey
<1>2. tally[<<s, p, "SELLOFFER_RESERVE">>] = 0
  BY <1>1 DEF Init
<1> QED BY <1>2

\* No token is ever stuck in a SELLOFFER_RESERVE without an offer whose
\* cancellation would release it.
THEOREM ReserveCovered == Spec => []SellReserveHasOffer
<1>1. Init => TypeOK /\ SellReserveHasOffer
  BY TypeInit, ReserveInit
<1>2. TypeOK /\ SellReserveHasOffer /\ [Next]_vars => (TypeOK /\ SellReserveHasOffer)'
  BY TypeStep, ReserveStep
<1> QED
  BY <1>1, <1>2, PTL DEF Spec

\* Nobody's holdings shrink except by a payment for their own accepted offer, and
\* what the seller loses, the accept and the buyer's balance account for.
THEOREM TokensLeaveOnlyForAccepts == Spec => OnlyAcceptedTokensLeave
<1>1. TypeOK /\ SellReserveHasOffer /\ [Next]_vars => [TokensLeaveForAccept]_vars
  BY ReserveStep
<1>2. Spec => [](TypeOK /\ SellReserveHasOffer)
  BY TypeCorrect, ReserveCovered, PTL
<1> QED
  BY <1>1, <1>2, PTL DEF Spec, OnlyAcceptedTokensLeave
=============================================================================
