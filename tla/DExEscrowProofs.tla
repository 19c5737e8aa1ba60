--------------------------- MODULE DExEscrowProofs ---------------------------
(***************************************************************************)
(* With DEXMATH live, the distributed exchange implements the escrow: the  *)
(* initial states correspond, and every step of a handler is one step of   *)
(* the escrow or leaves all of its variables alone.                        *)
(***************************************************************************)
EXTENDS DExTermsProofs, DExEscrow

\* A map that differs from another one in a single entry.
LEMMA OneEntry ==
    ASSUME NEW S, NEW f \in [S -> Int], NEW g \in [S -> Int], NEW x \in S, NEW v \in Int,
           g[x] = v, \A y \in S : y # x => g[y] = f[y]
    PROVE  g = [f EXCEPT ![x] = v]
<1>1. [f EXCEPT ![x] = v] \in [S -> Int]
  OBVIOUS
<1>2. \A y \in S : [f EXCEPT ![x] = v][y] = g[y]
  OBVIOUS
<1> QED BY <1>1, <1>2

\* The tokens of a tally that is never negative.
LEMMA TokensType ==
    ASSUME NEW t \in Tallies, NEW h \in {"BALANCE", "SELLOFFER_RESERVE"}
    PROVE  /\ Tokens(t, h) \in [OfferKey -> Int]
           /\ \A a \in Address, p \in Property :
                 /\ Tokens(t, h)[<<a, p>>] = t[<<a, p, h>>]
                 /\ Tokens(t, h)[<<a, p>>] >= 0
<1>1. h \in TallyType /\ h # "PENDING"
  BY TallyTypes
<1>2. ASSUME NEW a \in Address, NEW p \in Property
      PROVE  t[<<a, p, h>>] \in Int /\ t[<<a, p, h>>] >= 0
  <2>1. <<a, p, h>> \in TallyKey
    BY <1>1 DEF TallyKey
  <2> QED BY <1>1, <2>1 DEF Tallies, Int64
<1>3. \A k \in OfferKey : t[<<k[1], k[2], h>>] \in Int
  BY <1>2 DEF OfferKey
<1>4. ASSUME NEW a \in Address, NEW p \in Property
      PROVE  Tokens(t, h)[<<a, p>>] = t[<<a, p, h>>]
  BY DEF Tokens, OfferKey
<1> QED BY <1>2, <1>3, <1>4 DEF Tokens

\* u is t after a move of n tokens.
IsMove(t, u, a, b, p, f, g, n) == u = Moved(t, <<a, p, f>>, <<b, p, g>>, n)

\* What it does to the tokens all addresses have in the tally h.
TokensMoved(t, u, a, b, p, f, g, n, h) ==
    LET T == Tokens(t, h)
        U == Tokens(u, h)
    IN  /\ h = f => U = [T EXCEPT ![<<a, p>>] = T[<<a, p>>] - n]
        /\ h = g => U = [T EXCEPT ![<<b, p>>] = T[<<b, p>>] + n]
        /\ h # f /\ h # g => U = T

\* A move changes one entry of the tally it debits and one of the tally it credits.
LEMMA MovedTokens ==
    ASSUME NEW t \in Tallies, NEW u \in Tallies, NEW a \in Address, NEW b \in Address,
           NEW p \in Property, NEW f \in TallyType, NEW g \in TallyType, f # g, NEW n \in Int,
           IsMove(t, u, a, b, p, f, g, n), NEW h \in {"BALANCE", "SELLOFFER_RESERVE"}
    PROVE  TokensMoved(t, u, a, b, p, f, g, n, h)
<1> DEFINE T == Tokens(t, h)
           U == Tokens(u, h)
<1>1. h \in TallyType /\ <<a, p, f>> \in TallyKey /\ <<b, p, g>> \in TallyKey
  BY TallyTypes DEF TallyKey
<1>2. T \in [OfferKey -> Int] /\ U \in [OfferKey -> Int]
  BY TokensType
<1>3. <<a, p>> \in OfferKey /\ <<b, p>> \in OfferKey
  BY DEF OfferKey
<1>4. ASSUME NEW c \in Address, NEW q \in Property
      PROVE  U[<<c, q>>] = T[<<c, q>>] - (IF <<c, q>> = <<a, p>> /\ h = f THEN n ELSE 0)
                                       + (IF <<c, q>> = <<b, p>> /\ h = g THEN n ELSE 0)
  <2>1. <<c, q, h>> \in TallyKey
    BY <1>1 DEF TallyKey
  <2>2. u[<<c, q, h>>] = t[<<c, q, h>>] - (IF <<c, q, h>> = <<a, p, f>> THEN n ELSE 0)
                                        + (IF <<c, q, h>> = <<b, p, g>> THEN n ELSE 0)
    BY <1>1, <2>1, MovedValue DEF IsMove
  <2>3. U[<<c, q>>] = u[<<c, q, h>>] /\ T[<<c, q>>] = t[<<c, q, h>>]
    BY TokensType
  <2> HIDE DEF T, U
  <2> QED BY <2>2, <2>3
<1> HIDE DEF T, U
<1>5. \A k \in OfferKey :
         U[k] = T[k] - (IF k = <<a, p>> /\ h = f THEN n ELSE 0)
                     + (IF k = <<b, p>> /\ h = g THEN n ELSE 0)
  BY <1>4 DEF OfferKey
<1>6. CASE h = f
  <2>1. \A k \in OfferKey : k # <<a, p>> => U[k] = T[k]
    BY <1>2, <1>5, <1>6
  <2>2. U[<<a, p>>] = T[<<a, p>>] - n /\ T[<<a, p>>] - n \in Int
    BY <1>2, <1>3, <1>5, <1>6
  <2>3. U = [T EXCEPT ![<<a, p>>] = T[<<a, p>>] - n]
    BY <1>2, <1>3, <2>1, <2>2, OneEntry
  <2> QED BY <1>6, <2>3 DEF T, U, TokensMoved
<1>7. CASE h = g
  <2>1. \A k \in OfferKey : k # <<b, p>> => U[k] = T[k]
    BY <1>2, <1>5, <1>7
  <2>2. U[<<b, p>>] = T[<<b, p>>] + n /\ T[<<b, p>>] + n \in Int
    BY <1>2, <1>3, <1>5, <1>7
  <2>3. U = [T EXCEPT ![<<b, p>>] = T[<<b, p>>] + n]
    BY <1>2, <1>3, <2>1, <2>2, OneEntry
  <2> QED BY <1>7, <2>3 DEF T, U, TokensMoved
<1>8. CASE h # f /\ h # g
  <2>1. \A k \in OfferKey : U[k] = T[k]
    BY <1>2, <1>5, <1>8
  <2>2. U = T
    BY <1>2, <2>1
  <2> QED BY <1>8, <2>2 DEF T, U, TokensMoved
<1> QED BY <1>6, <1>7, <1>8

---------------------------------------------------------------------------
(* The promises *)

\* What is left of an entry of my_accepts.
Left(v) == IF v = None THEN 0 ELSE v.remaining

\* No accept is kept in my_accepts when nothing is left of it.
Positive == \A k \in AcceptKey : accepts[k] # None => accepts[k].remaining > 0

\* The promises of a map of accepts.
PromisesOf(c) == [k \in AcceptKey |-> Left(c[k])]

\* They are numbers, and those of my_accepts are what the mapping takes.
LEMMA PromisesType ==
    /\ \A c \in [AcceptKey -> Accept \cup {None}] : PromisesOf(c) \in [AcceptKey -> Int]
    /\ Promised = PromisesOf(accepts)
    /\ Promised' = PromisesOf(accepts')
<1>1. ASSUME NEW c \in [AcceptKey -> Accept \cup {None}], NEW k \in AcceptKey
      PROVE  Left(c[k]) \in Int
  BY DEF Left, Accept
<1>2. \A c \in [AcceptKey -> Accept \cup {None}] : PromisesOf(c) \in [AcceptKey -> Int]
  BY <1>1 DEF PromisesOf
<1>3. Promised = PromisesOf(accepts) /\ Promised' = PromisesOf(accepts')
  BY DEF Promised, PromisesOf, Remaining, Left
<1> QED BY <1>2, <1>3

\* A step that replaces one accept changes one promise.
LEMMA PromisedWith ==
    ASSUME TypeOK, TypeOK', NEW k \in AcceptKey, NEW v, accepts' = With(accepts, k, v)
    PROVE  /\ Promised \in [AcceptKey -> Int]
           /\ Promised[k] = Left(accepts[k])
           /\ Promised' = [Promised EXCEPT ![k] = Left(v)]
<1>1. Promised \in [AcceptKey -> Int] /\ Promised' \in [AcceptKey -> Int]
  BY PromisesType DEF TypeOK
<1>2. \A j \in AcceptKey : Promised[j] = Left(accepts[j]) /\ Promised'[j] = Left(accepts'[j])
  BY PromisesType DEF PromisesOf
<1>3. accepts'[k] = v /\ \A j \in AcceptKey : j # k => accepts'[j] = accepts[j]
  BY DEF With, TypeOK
<1>4. Promised'[k] = Left(v) /\ \A j \in AcceptKey : j # k => Promised'[j] = Promised[j]
  BY <1>2, <1>3
<1>5. Left(v) \in Int
  BY <1>1, <1>4
<1> HIDE DEF Promised
<1>6. Promised' = [Promised EXCEPT ![k] = Left(v)]
  BY <1>1, <1>4, <1>5, OneEntry
<1> QED BY <1>1, <1>2, <1>6

\* The same accepts are the same promises.
LEMMA PromisedSame ==
    ASSUME accepts' = accepts
    PROVE  Promised' = Promised
  BY DEF Promised, Remaining

---------------------------------------------------------------------------
(* Steps of the escrow *)

\* Tokens of a seller are divided anew between the balance and the offer.
Resplit(t, u, s, p) ==
    \A a \in Address, q \in Property :
        /\ t[<<a, q, "BALANCE">>] + t[<<a, q, "SELLOFFER_RESERVE">>]
              = u[<<a, q, "BALANCE">>] + u[<<a, q, "SELLOFFER_RESERVE">>]
        /\ <<a, q>> # <<s, p>> =>
              u[<<a, q, "SELLOFFER_RESERVE">>] = t[<<a, q, "SELLOFFER_RESERVE">>]

\* A move between the two tallies divides the tokens anew.
LEMMA MoveResplits ==
    ASSUME NEW t \in Tallies, NEW u \in Tallies, NEW s \in Address, NEW p \in Property,
           NEW f \in {"BALANCE", "SELLOFFER_RESERVE"}, NEW g \in {"BALANCE", "SELLOFFER_RESERVE"},
           f # g, NEW n \in Int, u = Moved(t, <<s, p, f>>, <<s, p, g>>, n)
    PROVE  Resplit(t, u, s, p)
<1>1. <<s, p, f>> \in TallyKey /\ <<s, p, g>> \in TallyKey
  BY TallyTypes DEF TallyKey
<1>2. ASSUME NEW a \in Address, NEW q \in Property
      PROVE  /\ t[<<a, q, "BALANCE">>] + t[<<a, q, "SELLOFFER_RESERVE">>]
                   = u[<<a, q, "BALANCE">>] + u[<<a, q, "SELLOFFER_RESERVE">>]
             /\ <<a, q>> # <<s, p>> =>
                   u[<<a, q, "SELLOFFER_RESERVE">>] = t[<<a, q, "SELLOFFER_RESERVE">>]
  <2>1. <<a, q, "BALANCE">> \in TallyKey /\ <<a, q, "SELLOFFER_RESERVE">> \in TallyKey
    BY TallyTypes DEF TallyKey
  <2>2. ASSUME NEW h \in TallyType, <<a, q, h>> \in TallyKey
        PROVE  /\ t[<<a, q, h>>] \in Int
               /\ u[<<a, q, h>>] = t[<<a, q, h>>]
                       - (IF <<a, q>> = <<s, p>> /\ h = f THEN n ELSE 0)
                       + (IF <<a, q>> = <<s, p>> /\ h = g THEN n ELSE 0)
    <3>1. /\ t[<<a, q, h>>] \in Int
          /\ u[<<a, q, h>>] = t[<<a, q, h>>] - (IF <<a, q, h>> = <<s, p, f>> THEN n ELSE 0)
                                             + (IF <<a, q, h>> = <<s, p, g>> THEN n ELSE 0)
      BY <1>1, <2>2, MovedValue
    <3> QED BY <3>1
  <2>3. /\ t[<<a, q, "BALANCE">>] \in Int /\ t[<<a, q, "SELLOFFER_RESERVE">>] \in Int
        /\ u[<<a, q, "BALANCE">>] = t[<<a, q, "BALANCE">>]
              - (IF <<a, q>> = <<s, p>> /\ "BALANCE" = f THEN n ELSE 0)
              + (IF <<a, q>> = <<s, p>> /\ "BALANCE" = g THEN n ELSE 0)
        /\ u[<<a, q, "SELLOFFER_RESERVE">>] = t[<<a, q, "SELLOFFER_RESERVE">>]
              - (IF <<a, q>> = <<s, p>> /\ "SELLOFFER_RESERVE" = f THEN n ELSE 0)
              + (IF <<a, q>> = <<s, p>> /\ "SELLOFFER_RESERVE" = g THEN n ELSE 0)
    BY <2>1, <2>2, TallyTypes
  <2> QED BY <2>3
<1> QED BY <1>2 DEF Resplit

\* Offers that are made, replaced or cancelled are steps of the escrow.
LEMMA ReofferStep ==
    ASSUME TypeOK, TypeOK', NEW s \in Address, NEW p \in Property,
           Resplit(tally, tally', s, p), accepts' = accepts
    PROVE  E!Next
<1> DEFINE k == <<s, p>>
           n == Offered'[k]
<1>1. /\ Free \in [OfferKey -> Int] /\ Offered \in [OfferKey -> Int]
      /\ \A a \in Address, q \in Property :
            /\ Free[<<a, q>>] = tally[<<a, q, "BALANCE">>] /\ Free[<<a, q>>] >= 0
            /\ Offered[<<a, q>>] = tally[<<a, q, "SELLOFFER_RESERVE">>] /\ Offered[<<a, q>>] >= 0
  BY TokensType DEF TypeOK, Free, Offered
<1>2. /\ Free' \in [OfferKey -> Int] /\ Offered' \in [OfferKey -> Int]
      /\ \A a \in Address, q \in Property :
            /\ Free'[<<a, q>>] = tally'[<<a, q, "BALANCE">>] /\ Free'[<<a, q>>] >= 0
            /\ Offered'[<<a, q>>] = tally'[<<a, q, "SELLOFFER_RESERVE">>] /\ Offered'[<<a, q>>] >= 0
  BY TokensType DEF TypeOK, Free, Offered
<1>3. k \in OfferKey
  BY DEF OfferKey
<1> HIDE DEF Free, Offered
<1>4. \A a \in Address, q \in Property :
         /\ Free'[<<a, q>>] = Free[<<a, q>>] + Offered[<<a, q>>] - Offered'[<<a, q>>]
         /\ <<a, q>> # k => Offered'[<<a, q>>] = Offered[<<a, q>>]
  <2> SUFFICES ASSUME NEW a \in Address, NEW q \in Property
               PROVE  /\ Free'[<<a, q>>] = Free[<<a, q>>] + Offered[<<a, q>>] - Offered'[<<a, q>>]
                      /\ <<a, q>> # k => Offered'[<<a, q>>] = Offered[<<a, q>>]
    OBVIOUS
  <2>1. <<a, q>> \in OfferKey
    BY DEF OfferKey
  <2>2. /\ Free[<<a, q>>] + Offered[<<a, q>>] = Free'[<<a, q>>] + Offered'[<<a, q>>]
        /\ <<a, q>> # k => Offered'[<<a, q>>] = Offered[<<a, q>>]
    <3>1. /\ tally[<<a, q, "BALANCE">>] + tally[<<a, q, "SELLOFFER_RESERVE">>]
                = tally'[<<a, q, "BALANCE">>] + tally'[<<a, q, "SELLOFFER_RESERVE">>]
          /\ <<a, q>> # <<s, p>> =>
                tally'[<<a, q, "SELLOFFER_RESERVE">>] = tally[<<a, q, "SELLOFFER_RESERVE">>]
      BY Zenon DEF Resplit
    <3> QED BY <1>1, <1>2, <3>1
  <2>3. /\ Free[<<a, q>>] \in Int /\ Offered[<<a, q>>] \in Int
        /\ Free'[<<a, q>>] \in Int /\ Offered'[<<a, q>>] \in Int
    BY <1>1, <1>2, <2>1
  <2> QED BY <2>2, <2>3
<1>5. /\ \A j \in OfferKey : j # k => Offered'[j] = Offered[j]
      /\ \A j \in OfferKey : j # k => Free'[j] = Free[j]
      /\ Free'[k] = Free[k] + Offered[k] - n
      /\ n \in Int /\ n >= 0 /\ Free'[k] >= 0 /\ Free[k] + Offered[k] \in Int
  <2>1. \A j \in OfferKey : /\ Free'[j] = Free[j] + Offered[j] - Offered'[j]
                            /\ j # k => Offered'[j] = Offered[j]
    BY <1>4 DEF OfferKey
  <2>2. n >= 0 /\ Free'[k] >= 0
    BY <1>2
  <2>3. \A j \in OfferKey : /\ Free[j] \in Int /\ Offered[j] \in Int
                            /\ Free'[j] \in Int /\ Offered'[j] \in Int
    BY <1>1, <1>2
  <2> HIDE DEF k
  <2>4. \A j \in OfferKey : j # k => Free'[j] = Free[j]
    BY <2>1, <2>3
  <2> QED BY <1>3, <2>1, <2>2, <2>3, <2>4
<1>6. Offered' = [Offered EXCEPT ![k] = n]
  BY <1>1, <1>2, <1>3, <1>5, OneEntry
<1>7. Free' = [Free EXCEPT ![k] = Free[k] + Offered[k] - n]
  <2>1. Free[k] + Offered[k] - n \in Int
    BY <1>2, <1>3, <1>5
  <2> QED BY <1>1, <1>2, <1>3, <1>5, <2>1, OneEntry
<1>8. n \in 0 .. Free[k] + Offered[k]
  <2>1. Free[k] \in Int /\ Offered[k] \in Int
    BY <1>1, <1>3
  <2> QED BY <1>5, <2>1
<1>9. Promised' = Promised
  BY PromisedSame
<1>10. E!Reoffer(s, p, n)
  BY <1>1, <1>3, <1>6, <1>7, <1>9 DEF E!Reoffer
<1> QED BY <1>8, <1>10 DEF E!Next

\* The same of a step of the exchange, for the tokens that are free and on offer.
StepMoved(a, b, p, f, g, n) ==
    /\ g = "BALANCE" => Free' = [Free EXCEPT ![<<b, p>>] = Free[<<b, p>>] + n]
    /\ f # "BALANCE" /\ g # "BALANCE" => Free' = Free
    /\ f = "SELLOFFER_RESERVE" => Offered' = [Offered EXCEPT ![<<a, p>>] = Offered[<<a, p>>] - n]
    /\ g = "SELLOFFER_RESERVE" => Offered' = [Offered EXCEPT ![<<b, p>>] = Offered[<<b, p>>] + n]
    /\ f # "SELLOFFER_RESERVE" /\ g # "SELLOFFER_RESERVE" => Offered' = Offered

\* A step that moves tokens.
LEMMA MoveStep ==
    ASSUME TypeOK, TypeOK', NEW a \in Address, NEW b \in Address, NEW p \in Property,
           NEW f \in TallyType, NEW g \in TallyType, f # g, NEW n \in Int,
           IsMove(tally, tally', a, b, p, f, g, n)
    PROVE  StepMoved(a, b, p, f, g, n)
<1>1. tally \in Tallies /\ tally' \in Tallies
  BY DEF TypeOK
<1>2. /\ TokensMoved(tally, tally', a, b, p, f, g, n, "BALANCE")
      /\ TokensMoved(tally, tally', a, b, p, f, g, n, "SELLOFFER_RESERVE")
  BY <1>1, MovedTokens
<1>3. Free = Tokens(tally, "BALANCE") /\ Free' = Tokens(tally', "BALANCE")
  BY DEF Free
<1>4. Offered = Tokens(tally, "SELLOFFER_RESERVE") /\ Offered' = Tokens(tally', "SELLOFFER_RESERVE")
  BY DEF Offered
<1> HIDE DEF Free, Offered
<1>5. TokensMoved(tally, tally', a, b, p, f, g, n, "BALANCE")
        => /\ g = "BALANCE" => Free' = [Free EXCEPT ![<<b, p>>] = Free[<<b, p>>] + n]
           /\ f # "BALANCE" /\ g # "BALANCE" => Free' = Free
  BY <1>3 DEF TokensMoved
<1>6. TokensMoved(tally, tally', a, b, p, f, g, n, "SELLOFFER_RESERVE")
        => /\ f = "SELLOFFER_RESERVE" => Offered' = [Offered EXCEPT ![<<a, p>>] = Offered[<<a, p>>] - n]
           /\ g = "SELLOFFER_RESERVE" => Offered' = [Offered EXCEPT ![<<b, p>>] = Offered[<<b, p>>] + n]
           /\ f # "SELLOFFER_RESERVE" /\ g # "SELLOFFER_RESERVE" => Offered' = Offered
  BY <1>4 DEF TokensMoved
<1> QED BY <1>2, <1>5, <1>6 DEF StepMoved

\* An accept is a promise.
LEMMA PromiseStep ==
    ASSUME TypeOK, TypeOK', NEW s \in Address, NEW p \in Property, NEW b \in Address,
           NEW n \in Int, n >= 1, NEW a \in Accept, a.remaining = n,
           IsMove(tally, tally', s, s, p, "SELLOFFER_RESERVE", "ACCEPT_RESERVE", n),
           accepts[<<s, p, b>>] = None, accepts' = With(accepts, <<s, p, b>>, a)
    PROVE  E!Next
<1>1. StepMoved(s, s, p, "SELLOFFER_RESERVE", "ACCEPT_RESERVE", n)
  BY TallyTypes, MoveStep
<1>2. Offered' = [Offered EXCEPT ![<<s, p>>] = Offered[<<s, p>>] - n]
  BY <1>1 DEF StepMoved
<1>3. Free' = Free
  BY <1>1 DEF StepMoved
<1>4. <<s, p, b>> \in AcceptKey /\ <<s, p>> \in OfferKey
  BY DEF AcceptKey, OfferKey
<1>5. /\ Promised \in [AcceptKey -> Int]
      /\ Promised[<<s, p, b>>] = Left(accepts[<<s, p, b>>])
      /\ Promised' = [Promised EXCEPT ![<<s, p, b>>] = Left(a)]
  BY <1>4, PromisedWith
<1>6. Left(accepts[<<s, p, b>>]) = 0 /\ Left(a) = n
  BY NoneAssumption DEF Left
<1>7. n \in 1 .. Offered[<<s, p>>]
  <2>1. Offered \in [OfferKey -> Int] /\ Offered'[<<s, p>>] >= 0
    BY TokensType DEF Offered, TypeOK
  <2> HIDE DEF Offered
  <2>2. Offered'[<<s, p>>] = Offered[<<s, p>>] - n /\ Offered[<<s, p>>] \in Int
    BY <1>2, <1>4, <2>1
  <2> QED BY <2>1, <2>2
<1> HIDE DEF Free, Offered, Promised
<1>8. E!Promise(s, p, b, n)
  BY <1>2, <1>3, <1>4, <1>5, <1>6 DEF E!Promise
<1> QED BY <1>7, <1>8 DEF E!Next

\* A payment delivers.
LEMMA DeliveryStep ==
    ASSUME TypeOK, TypeOK', NEW s \in Address, NEW p \in Property, NEW b \in Address,
           NEW n \in Int, n >= 1, accepts[<<s, p, b>>] # None,
           n <= accepts[<<s, p, b>>].remaining,
           IsMove(tally, tally', s, b, p, "ACCEPT_RESERVE", "BALANCE", n),
           accepts' = With(accepts, <<s, p, b>>,
                           Reduced(accepts[<<s, p, b>>], accepts[<<s, p, b>>].remaining - n))
    PROVE  E!Next
<1> DEFINE k == <<s, p, b>>
           a == accepts[k]
<1>1. StepMoved(s, b, p, "ACCEPT_RESERVE", "BALANCE", n)
  BY TallyTypes, MoveStep
<1>2. Free' = [Free EXCEPT ![<<b, p>>] = Free[<<b, p>>] + n]
  BY <1>1 DEF StepMoved
<1>3. Offered' = Offered
  BY <1>1 DEF StepMoved
<1>4. k \in AcceptKey /\ a \in Accept
  BY DEF AcceptKey, TypeOK
<1>5. /\ Promised \in [AcceptKey -> Int]
      /\ Promised[k] = Left(a)
      /\ Promised' = [Promised EXCEPT ![k] = Left(Reduced(a, a.remaining - n))]
  BY <1>4, PromisedWith
<1>6. Left(a) = a.remaining /\ a.remaining \in Int
  BY <1>4, NoneAssumption DEF Left, Accept
<1> HIDE DEF a, k
<1>7. Left(Reduced(a, a.remaining - n)) = a.remaining - n
  <2>1. CASE a.remaining - n > 0
    <3> DEFINE m == a.remaining - n
    <3>1. m \in Int
      BY <1>6
    <3> HIDE DEF m
    <3>2. [a EXCEPT !.remaining = m] \in Accept /\ [a EXCEPT !.remaining = m].remaining = m
      BY <1>4, <3>1 DEF Accept
    <3>3. [a EXCEPT !.remaining = m] # None
      BY <3>2, NoneAssumption
    <3>4. Reduced(a, m) = [a EXCEPT !.remaining = m]
      BY <2>1 DEF Reduced, m
    <3>5. Left(Reduced(a, m)) = m
      BY <3>2, <3>3, <3>4 DEF Left
    <3> QED BY <3>5 DEF m
  <2>2. CASE a.remaining - n = 0
    BY <2>2 DEF Left, Reduced
  <2>3. a.remaining - n >= 0
    BY <1>6 DEF a, k
  <2> QED BY <1>6, <2>1, <2>2, <2>3
<1>8. n \in 1 .. Promised[k]
  <2>1. n <= a.remaining
    BY DEF a, k
  <2> QED BY <1>5, <1>6, <2>1
<1> HIDE DEF Free, Offered, Promised
<1>9. Promised' = [Promised EXCEPT ![k] = Promised[k] - n]
  BY <1>5, <1>6, <1>7
<1>10. E!Deliver(s, p, b, n)
  BY <1>2, <1>3, <1>9 DEF E!Deliver, k
<1> QED BY <1>8, <1>10 DEF E!Next, k

\* An expiry releases.
LEMMA ReleaseStep ==
    ASSUME TypeOK, TypeOK', NEW s \in Address, NEW p \in Property, NEW b \in Address,
           accepts[<<s, p, b>>] # None, accepts[<<s, p, b>>].remaining > 0,
           NEW g \in {"BALANCE", "SELLOFFER_RESERVE"},
           IsMove(tally, tally', s, s, p, "ACCEPT_RESERVE", g, accepts[<<s, p, b>>].remaining),
           accepts' = With(accepts, <<s, p, b>>, None)
    PROVE  E!Next
<1> DEFINE k == <<s, p, b>>
           n == accepts[k].remaining
<1>2. k \in AcceptKey /\ n \in Int
  BY DEF AcceptKey, TypeOK, Accept
<1>3. /\ Promised \in [AcceptKey -> Int]
      /\ Promised[k] = Left(accepts[k])
      /\ Promised' = [Promised EXCEPT ![k] = Left(None)]
  BY <1>2, PromisedWith
<1>4. Left(accepts[k]) = n /\ Left(None) = 0 /\ n > 0
  BY DEF Left
<1>5. StepMoved(s, s, p, "ACCEPT_RESERVE", g, n)
  BY <1>2, TallyTypes, MoveStep
<1> HIDE DEF n
<1>6. CASE g = "BALANCE"
  <2>1. Free' = [Free EXCEPT ![<<s, p>>] = Free[<<s, p>>] + n]
    BY <1>5, <1>6 DEF StepMoved
  <2>2. Offered' = Offered
    BY <1>5, <1>6 DEF StepMoved
  <2> HIDE DEF Free, Offered, Promised
  <2>3. E!Release(s, p, b)
    BY <1>3, <1>4, <2>1, <2>2 DEF E!Release
  <2> QED BY <2>3 DEF E!Next
<1>7. CASE g = "SELLOFFER_RESERVE"
  <2>1. Offered' = [Offered EXCEPT ![<<s, p>>] = Offered[<<s, p>>] + n]
    BY <1>5, <1>7 DEF StepMoved
  <2>2. Free' = Free
    BY <1>5, <1>7 DEF StepMoved
  <2> HIDE DEF Free, Offered, Promised
  <2>3. E!Release(s, p, b)
    BY <1>3, <1>4, <2>1, <2>2 DEF E!Release
  <2> QED BY <2>3 DEF E!Next
<1> QED BY <1>6, <1>7

---------------------------------------------------------------------------
(* The refinement *)

\* What is to be shown of every step.
Simulated == Positive' /\ (E!Next \/ UNCHANGED <<Free, Offered, Promised>>)

\* A step that changes no tally and no accept.
LEMMA IdleStep ==
    ASSUME Positive, tally' = tally, accepts' = accepts
    PROVE  Simulated
<1>1. Positive'
  BY DEF Positive
<1>2. UNCHANGED <<Free, Offered, Promised>>
  BY DEF Free, Offered, Tokens, Promised, Remaining
<1> QED BY <1>1, <1>2 DEF Simulated

\* A step that replaces one accept.
LEMMA PositiveWith ==
    ASSUME TypeOK, Positive, NEW k \in AcceptKey, NEW v, v # None => v.remaining > 0,
           accepts' = With(accepts, k, v)
    PROVE  Positive'
<1>1. accepts'[k] = v /\ \A j \in AcceptKey : j # k => accepts'[j] = accepts[j]
  BY DEF With, TypeOK
<1> QED BY <1>1 DEF Positive

\* Dividing tokens anew twice is dividing them anew.
LEMMA ResplitTwice ==
    ASSUME NEW t, NEW u, NEW w, NEW s, NEW p, Resplit(t, u, s, p), Resplit(u, w, s, p)
    PROVE  Resplit(t, w, s, p)
  BY DEF Resplit

\* A handler that divides tokens of the sender anew.
LEMMA OfferStep ==
    ASSUME TypeOK, TypeOK', Positive, NEW r, Install(r), NEW s \in Address, NEW p \in Property,
           r.abort = NoAbort => r.accepts = accepts /\ Resplit(tally, r.tally, s, p)
    PROVE  Simulated
<1>1. CASE r.abort # NoAbort
  <2>1. tally' = tally /\ accepts' = accepts
    BY <1>1 DEF Install
  <2> QED BY <2>1, IdleStep
<1>2. CASE r.abort = NoAbort
  <2>1. tally' = r.tally /\ accepts' = accepts
    BY <1>2 DEF Install
  <2>2. Positive'
    BY <2>1 DEF Positive
  <2>3. E!Next
    BY <1>2, <2>1, ReofferStep
  <2> QED BY <2>2, <2>3 DEF Simulated
<1> QED BY <1>1, <1>2

\* DEx_offerDestroy and DEx_offerCreate divide tokens of the sender anew.
LEMMA OfferResplits ==
    ASSUME NEW d \in DState, NEW s \in Address, NEW p \in Property
    PROVE  /\ LET r == DEx_offerDestroy(d, s, p)
              IN  /\ r \in DState /\ r.accepts = d.accepts
                  /\ r.abort = NoAbort => d.abort = NoAbort /\ Resplit(d.tally, r.tally, s, p)
           /\ \A n \in 0 .. MaxInt, x \in Int64, f \in Int, w \in Nat, t \in Txid :
                 LET r == DEx_offerCreate(d, s, p, n, x, f, w, t)
                 IN  /\ r \in DState /\ r.accepts = d.accepts
                     /\ r.abort = NoAbort => d.abort = NoAbort /\ Resplit(d.tally, r.tally, s, p)
<1>0. d.tally \in Tallies
  BY DEF DState
<1>1. LET r == DEx_offerDestroy(d, s, p)
      IN  /\ r \in DState /\ r.accepts = d.accepts
          /\ r.abort = NoAbort => d.abort = NoAbort /\ Resplit(d.tally, r.tally, s, p)
  <2> DEFINE r == DEx_offerDestroy(d, s, p)
             m == d.tally[<<s, p, "SELLOFFER_RESERVE">>]
  <2>1. /\ r \in DState /\ r.accepts = d.accepts /\ m \in 0 .. MaxInt
        /\ r.abort = NoAbort =>
             /\ d.abort = NoAbort
             /\ r.tally = Moved(d.tally, <<s, p, "SELLOFFER_RESERVE">>, <<s, p, "BALANCE">>, m)
    BY OfferDestroyEffect
  <2> HIDE DEF r, m
  <2>2. r.tally \in Tallies /\ m \in Int
    BY <2>1, MaxIntAssumption DEF DState
  <2>3. r.abort = NoAbort => Resplit(d.tally, r.tally, s, p)
    BY <1>0, <2>1, <2>2, MoveResplits
  <2>4. /\ r \in DState /\ r.accepts = d.accepts
        /\ r.abort = NoAbort => d.abort = NoAbort /\ Resplit(d.tally, r.tally, s, p)
    BY <2>1, <2>3
  <2> QED BY <2>4 DEF r
<1>2. ASSUME NEW n \in 0 .. MaxInt, NEW x \in Int64, NEW f \in Int, NEW w \in Nat, NEW t \in Txid
      PROVE  LET r == DEx_offerCreate(d, s, p, n, x, f, w, t)
             IN  /\ r \in DState /\ r.accepts = d.accepts
                 /\ r.abort = NoAbort => d.abort = NoAbort /\ Resplit(d.tally, r.tally, s, p)
  <2> DEFINE r == DEx_offerCreate(d, s, p, n, x, f, w, t)
  <2>1. OfferCreated(d, r, s, p, n, x, w, t)
    BY OfferCreateEffect
  <2> HIDE DEF r
  <2>2. r \in DState /\ r.accepts = d.accepts /\ r.tally \in Tallies
        /\ (r.abort = NoAbort => d.abort = NoAbort)
    BY <2>1 DEF OfferCreated, DState
  <2>3. ASSUME r.abort = NoAbort
        PROVE  Resplit(d.tally, r.tally, s, p)
    <3>1. CASE r.tally = d.tally
      BY <3>1 DEF Resplit
    <3>2. CASE r.tally # d.tally
      <4>1. PICK m \in 1 .. MaxInt :
               r.tally = Moved(d.tally, <<s, p, "BALANCE">>, <<s, p, "SELLOFFER_RESERVE">>, m)
        BY <2>1, <2>3, <3>2 DEF OfferCreated
      <4>2. m \in Int
        BY MaxIntAssumption
      <4> QED BY <1>0, <2>2, <4>1, <4>2, MoveResplits
    <3> QED BY <3>1, <3>2
  <2> QED BY <2>2, <2>3 DEF r
<1> QED BY <1>1, <1>2

\* A purchase of n tokens.
LEMMA PurchaseStep ==
    ASSUME TypeOK, TypeOK', Positive, NEW s \in Address, NEW b \in Address, NEW p \in Property,
           accepts[<<s, p, b>>] # None, NEW r, NEW n \in Int,
           n <= accepts[<<s, p, b>>].remaining, n >= 0,
           PurchaseBooked(Current, r, s, b, p, n), Install(r), r.abort = NoAbort
    PROVE  Simulated
<1> DEFINE k == <<s, p, b>>
           a == accepts[k]
<1>1. k \in AcceptKey /\ a \in Accept /\ a.remaining \in Int /\ a.remaining > 0
  BY DEF AcceptKey, TypeOK, Positive, Accept
<1>2. Current.tally = tally /\ Current.accepts = accepts
  BY DEF Current
<1>3. /\ r.tally = IF n > 0
                   THEN Moved(tally, <<s, p, "ACCEPT_RESERVE">>, <<b, p, "BALANCE">>, n)
                   ELSE tally
      /\ r.accepts = With(accepts, k, Reduced(a, a.remaining - n))
  BY <1>2 DEF PurchaseBooked
<1>4. tally' = r.tally /\ accepts' = r.accepts
  BY DEF Install
<1>5. CASE n > 0
  <2>1. Reduced(a, a.remaining - n) # None => Reduced(a, a.remaining - n).remaining > 0
    <3> DEFINE m == a.remaining - n
    <3>1. m \in Int
      BY <1>1
    <3> HIDE DEF m, a, k
    <3>2. m > 0 => [a EXCEPT !.remaining = m].remaining > 0
      BY <1>1, <3>1 DEF Accept
    <3>3. Reduced(a, m) # None => Reduced(a, m).remaining > 0
      BY <3>2 DEF Reduced
    <3> QED BY <3>3 DEF m
  <2>2. Positive'
    BY <1>1, <1>3, <1>4, <2>1, PositiveWith
  <2>3. IsMove(tally, tally', s, b, p, "ACCEPT_RESERVE", "BALANCE", n)
    BY <1>3, <1>4, <1>5 DEF IsMove
  <2>4. accepts' = With(accepts, k, Reduced(a, a.remaining - n)) /\ n >= 1
    BY <1>3, <1>4, <1>5
  <2>5. E!Next
    BY <2>3, <2>4, DeliveryStep
  <2> QED BY <2>2, <2>5 DEF Simulated
<1>6. CASE ~(n > 0)
  <2>1. n = 0
    BY <1>6
  <2>2. a.remaining - n = a.remaining
    BY <1>1, <2>1
  <2>3. Reduced(a, a.remaining) = [a EXCEPT !.remaining = a.remaining]
    <3> HIDE DEF a
    <3> QED BY <1>1 DEF Reduced
  <2>4. [a EXCEPT !.remaining = a.remaining] = a
    <3> HIDE DEF a
    <3> QED BY <1>1 DEF Accept
  <2>5. With(accepts, k, a) = accepts
    BY <1>1 DEF With, TypeOK
  <2>6. accepts' = accepts
    BY <1>3, <1>4, <2>2, <2>3, <2>4, <2>5
  <2>7. tally' = tally
    BY <1>3, <1>4, <1>6
  <2> QED BY <2>6, <2>7, IdleStep
<1> QED BY <1>5, <1>6

\* The aging of the accepts at the end of a block is no step of the escrow.
LEMMA AgingStep ==
    ASSUME TypeOK, Positive, EraseExpiredAcceptsDone
    PROVE  Simulated
<1>1. ASSUME NEW k \in AcceptKey
      PROVE  /\ accepts[k] = None <=> accepts'[k] = None
             /\ accepts[k] # None => accepts'[k].remaining = accepts[k].remaining
  <2> DEFINE a == accepts[k]
  <2>1. CASE a = None
    <3>1. accepts'[k] = None
      BY <2>1, Zenon DEF EraseExpiredAcceptsDone
    <3> QED BY <2>1, <3>1
  <2>2. CASE a # None
    <3>1. a \in Accept
      BY <2>2 DEF TypeOK
    <3>2. accepts'[k] = [a EXCEPT !.age = @ + 1]
      BY <2>2, Zenon DEF EraseExpiredAcceptsDone
    <3> HIDE DEF a
    <3>3. [a EXCEPT !.age = @ + 1] \in Accept /\ [a EXCEPT !.age = @ + 1].remaining = a.remaining
      BY <3>1 DEF Accept
    <3>4. accepts'[k] # None
      BY <3>2, <3>3, NoneAssumption
    <3> QED BY <2>2, <3>2, <3>3, <3>4 DEF a
  <2> QED BY <2>1, <2>2
<1>2. Positive'
  BY <1>1 DEF Positive
<1>3. \A k \in AcceptKey : Remaining(k)' = Remaining(k)
  BY <1>1 DEF Remaining
<1>4. Promised' = Promised
  BY <1>3 DEF Promised
<1>5. Free' = Free /\ Offered' = Offered
  BY DEF EraseExpiredAcceptsDone, Free, Offered, Tokens
<1> QED BY <1>2, <1>4, <1>5 DEF Simulated

\* Every step of the exchange is one of the escrow, or none.
LEMMA EscrowStep ==
    ASSUME TypeOK, TypeOK', Live("DEXMATH"), Positive, [Next]_vars
    PROVE  Simulated
<1> DEFINE c == Current
<1>0. c \in DState /\ c.tally = tally /\ c.accepts = accepts
  BY CurrentType DEF Current
<1>1. ASSUME NEW s \in Address, NEW p \in Property, TradeOfferCancel(s, p)
      PROVE  Simulated
  <2> DEFINE r == DEx_offerDestroy(c, s, p)
  <2>1. Install(r)
    BY <1>1 DEF TradeOfferCancel
  <2>2. r.abort = NoAbort => r.accepts = accepts /\ Resplit(tally, r.tally, s, p)
    BY <1>0, OfferResplits
  <2> HIDE DEF r, c
  <2> QED BY <2>1, <2>2, OfferStep
<1>2. ASSUME NEW s \in Address, NEW p \in Property, NEW n \in Amounts, NEW x \in Prices,
             NEW f \in MinFees, NEW w \in Windows,
             TradeOfferNew(s, p, n, x, f, w) \/ TradeOfferUpdate(s, p, n, x, f, w)
      PROVE  Simulated
  <2>1. n <= MaxInt /\ FreshTxid \in Txid
    BY <1>2, FreshTxidType DEF TradeOfferNew, TradeOfferUpdate, MayTradeOffer
  <2>2. n \in 0 .. MaxInt /\ x \in Int64 /\ f \in Int /\ w \in Nat
    BY <2>1, MaxIntAssumption, InputAssumption
  <2>3. CASE TradeOfferNew(s, p, n, x, f, w)
    <3> DEFINE r == DEx_offerCreate(c, s, p, n, x, f, w, FreshTxid)
    <3>1. Install(r)
      BY <2>3 DEF TradeOfferNew
    <3>2. r.abort = NoAbort => r.accepts = accepts /\ Resplit(tally, r.tally, s, p)
      BY <1>0, <2>1, <2>2, OfferResplits
    <3> HIDE DEF r, c
    <3> QED BY <3>1, <3>2, OfferStep
  <2>4. CASE TradeOfferUpdate(s, p, n, x, f, w)
    <3> DEFINE e == DEx_offerDestroy(c, s, p)
               r == DEx_offerCreate(e, s, p, n, x, f, w, FreshTxid)
    <3>1. Install(r)
      BY <2>4 DEF TradeOfferUpdate, DEx_offerUpdate
    <3>2. /\ e \in DState /\ e.accepts = accepts
          /\ e.abort = NoAbort => Resplit(tally, e.tally, s, p)
      BY <1>0, OfferResplits
    <3> HIDE DEF e, c
    <3>3. /\ r.accepts = e.accepts
          /\ r.abort = NoAbort => e.abort = NoAbort /\ Resplit(e.tally, r.tally, s, p)
      BY <2>1, <2>2, <3>2, OfferResplits
    <3> HIDE DEF r
    <3>4. r.abort = NoAbort => r.accepts = accepts /\ Resplit(tally, r.tally, s, p)
      BY <3>2, <3>3, ResplitTwice
    <3> QED BY <3>1, <3>4, OfferStep
  <2> QED BY <1>2, <2>3, <2>4
<1>3. ASSUME NEW b \in Address, NEW s \in Address, NEW p \in Property,
             NEW m \in Amounts, NEW f \in Fees, AcceptOffer_XEP(b, s, p, m, f)
      PROVE  Simulated
  <2> DEFINE r == DEx_acceptCreate(c, b, s, p, m, f)
  <2>1. m \in 1 .. MaxInt /\ f \in Int /\ Install(r)
    BY <1>3, InputAssumption DEF AcceptOffer_XEP
  <2>2. AcceptCreated(c, r, b, s, p)
    BY <1>0, <2>1, AcceptCreateEffect
  <2> HIDE DEF r, c
  <2>3. CASE tally' = tally /\ accepts' = accepts
    BY <2>3, IdleStep
  <2>4. CASE ~(tally' = tally /\ accepts' = accepts)
    <3>1. r.abort = NoAbort /\ tally' = r.tally /\ accepts' = r.accepts
      BY <2>1, <2>4 DEF Install
    <3>2. accepts[<<s, p, b>>] = None
      BY <1>0, <2>2, <2>4, <3>1 DEF AcceptCreated
    <3>3. PICK n \in 1 .. MaxInt, a \in Accept :
             /\ r.tally = Moved(tally, <<s, p, "SELLOFFER_RESERVE">>, <<s, p, "ACCEPT_RESERVE">>, n)
             /\ a.remaining = n
             /\ r.accepts = With(accepts, <<s, p, b>>, a)
      BY <1>0, <2>2, <2>4, <3>1 DEF AcceptCreated
    <3>4. IsMove(tally, tally', s, s, p, "SELLOFFER_RESERVE", "ACCEPT_RESERVE", n)
      BY <3>1, <3>3 DEF IsMove
    <3>5. <<s, p, b>> \in AcceptKey /\ n \in Int /\ n >= 1 /\ a.remaining > 0
      BY <3>3, MaxIntAssumption DEF AcceptKey
    <3>6. Positive'
      BY <3>1, <3>3, <3>5, PositiveWith
    <3>7. E!Next
      BY <3>1, <3>2, <3>3, <3>4, <3>5, PromiseStep
    <3> QED BY <3>6, <3>7 DEF Simulated
  <2> QED BY <2>3, <2>4
<1>4. ASSUME NEW b \in Address, NEW s \in Address, NEW p \in Property,
             NEW x \in Payments, HandleDExPayment(s, b, p, x)
      PROVE  Simulated
  <2> DEFINE r == DEx_payment(c, s, b, p, x)
  <2>1. accepts[<<s, p, b>>] # None /\ x \in Nat /\ Install(r)
    BY <1>0, <1>4, InputAssumption DEF HandleDExPayment, IsPaidFor, DEx_acceptExists
  <2>2. Paid(c, r, s, b, p)
    BY <1>0, <2>1, PaymentEffect
  <2> HIDE DEF r
  <2>3. CASE tally' = tally /\ accepts' = accepts
    BY <2>3, IdleStep
  <2>4. CASE ~(tally' = tally /\ accepts' = accepts)
    <3>1. r.abort = NoAbort /\ tally' = r.tally /\ accepts' = r.accepts
      BY <2>1, <2>4 DEF Install
    <3>2. PICK n \in Int : /\ n <= accepts[<<s, p, b>>].remaining
                           /\ n >= 0 \/ n = accepts[<<s, p, b>>].remaining
                           /\ r = BookPurchase(c, s, b, p, n)
      BY <1>0, <2>2, <2>4, <3>1 DEF Paid, Live
    <3>3. n >= 0
      BY <2>1, <3>2 DEF Positive, AcceptKey
    <3>4. PurchaseBooked(c, r, s, b, p, n)
      BY <1>0, <2>1, <3>2, BookPurchaseEffect
    <3> QED BY <2>1, <3>1, <3>2, <3>3, <3>4, PurchaseStep DEF c
  <2> QED BY <2>3, <2>4
<1>5. ASSUME NEW k \in AcceptKey, EraseExpiredAccept(k)
      PROVE  Simulated
  <2>1. PICK s \in Address, p \in Property, b \in Address : k = <<s, p, b>>
    BY DEF AcceptKey
  <2> DEFINE r == DEx_acceptDestroy(c, b, s, p)
             n == accepts[<<s, p, b>>].remaining
  <2>2. accepts[<<s, p, b>>] # None /\ Install(r)
    BY <1>5, <2>1 DEF EraseExpiredAccept, Expired
  <2>3. n > 0
    BY <2>1, <2>2 DEF Positive
  <2>4. /\ r.accepts = With(accepts, <<s, p, b>>, None)
        /\ r.abort = NoAbort =>
             \/ r.tally = Moved(tally, <<s, p, "ACCEPT_RESERVE">>, <<s, p, "BALANCE">>, n)
             \/ r.tally = Moved(tally, <<s, p, "ACCEPT_RESERVE">>, <<s, p, "SELLOFFER_RESERVE">>, n)
    BY <1>0, <2>2, <2>3, AcceptDestroyEffect
  <2> HIDE DEF r, c, n
  <2>5. CASE r.abort # NoAbort
    <3>1. tally' = tally /\ accepts' = accepts
      BY <2>2, <2>5 DEF Install
    <3> QED BY <3>1, IdleStep
  <2>6. CASE r.abort = NoAbort
    <3>1. accepts' = With(accepts, <<s, p, b>>, None) /\ tally' = r.tally
      BY <2>2, <2>4, <2>6 DEF Install
    <3>2. Positive'
      BY <2>1, <3>1, PositiveWith
    <3>3. PICK g \in {"BALANCE", "SELLOFFER_RESERVE"} :
             IsMove(tally, tally', s, s, p, "ACCEPT_RESERVE", g, n)
      BY <2>4, <2>6, <3>1 DEF IsMove
    <3>4. E!Next
      BY <2>2, <2>3, <3>1, <3>3, ReleaseStep DEF n
    <3> QED BY <3>2, <3>4 DEF Simulated
  <2> QED BY <2>5, <2>6
<1>6. EraseExpiredAcceptsDone => Simulated
  BY AgingStep
<1>7. ASSUME BlockEnd \/ (\E k \in MayFreeze : FreezeOrUnfreeze(k))
               \/ (\E f \in MayToggle : ToggleFeature(f)) \/ UNCHANGED vars
      PROVE  Simulated
  <2>1. tally' = tally /\ accepts' = accepts
    BY <1>7 DEF BlockEnd, FreezeOrUnfreeze, ToggleFeature, vars
  <2> QED BY <2>1, IdleStep
<1> QED
  BY <1>1, <1>2, <1>3, <1>4, <1>5, <1>6, <1>7 DEF Next, TradeOffer

\* The exchange starts as the escrow does.
LEMMA EscrowInit == Init => Positive /\ E!Init
<1> SUFFICES ASSUME Init PROVE Positive /\ E!Init
  OBVIOUS
<1>1. tally = [k \in TallyKey |-> IF k[3] = "BALANCE" THEN Supply[<<k[1], k[2]>>] ELSE 0]
      /\ accepts = [k \in AcceptKey |-> None]
  BY DEF Init
<1>2. Positive
  BY <1>1 DEF Positive
<1>3. Promised = [k \in Address \X Property \X Address |-> 0]
  BY <1>1 DEF Promised, Remaining, AcceptKey
<1>4. \A a \in Address, p \in Property :
         tally[<<a, p, "BALANCE">>] = Supply[<<a, p>>] /\ tally[<<a, p, "SELLOFFER_RESERVE">>] = 0
  BY <1>1, TallyTypes DEF TallyKey
<1>5. Offered = [k \in Address \X Property |-> 0]
  BY <1>4 DEF Offered, Tokens, OfferKey
<1>6. Free = Supply
  <2>1. ASSUME NEW k \in OfferKey
        PROVE  tally[<<k[1], k[2], "BALANCE">>] = Supply[k]
    <3>1. k[1] \in Address /\ k[2] \in Property /\ k = <<k[1], k[2]>>
      BY DEF OfferKey
    <3>2. tally[<<k[1], k[2], "BALANCE">>] = Supply[<<k[1], k[2]>>]
      BY <1>4, <3>1, Zenon
    <3> QED BY <3>1, <3>2
  <2>2. Free = [k \in OfferKey |-> Supply[k]]
    BY <2>1 DEF Free, Tokens
  <2>3. Supply = [k \in OfferKey |-> Supply[k]]
    BY SupplyAssumption DEF OfferKey
  <2> QED BY <2>2, <2>3
<1>7. E!Init
  BY <1>3, <1>5, <1>6 DEF E!Init
<1> QED BY <1>2, <1>7

\* With DEXMATH live from the start, the exchange implements the escrow: whatever
\* its handlers do is, on the tokens, one of the four steps of the escrow.
THEOREM DExImplementsEscrow ==
    ASSUME "DEXMATH" \in InitFeatures, "DEXMATH" \notin MayToggle
    PROVE  Spec => ImplementsEscrow
<1> DEFINE IInv == TypeOK /\ Live("DEXMATH") /\ Positive
<1>1. Init => IInv /\ E!Init
  <2>1. Init => Live("DEXMATH")
    BY DEF Init, Live
  <2>2. Init => TypeOK
    BY TypeInit
  <2>3. Init => Positive /\ E!Init
    BY EscrowInit
  <2> QED BY <2>1, <2>2, <2>3
<1>2. IInv /\ [Next]_vars => IInv' /\ [E!Next]_(E!vars)
  <2> SUFFICES ASSUME IInv, [Next]_vars
               PROVE  IInv' /\ [E!Next]_(E!vars)
    OBVIOUS
  <2>1. TypeOK' /\ Live("DEXMATH")'
    <3>1. TypeOK'
      BY TypeStep
    <3>2. Live("DEXMATH")'
      BY LiveStep
    <3> QED BY <3>1, <3>2
  <2>2. Simulated
    BY <2>1, EscrowStep
  <2> QED BY <2>1, <2>2 DEF Simulated, E!vars
<1> QED
  BY <1>1, <1>2, PTL DEF Spec, ImplementsEscrow, E!Spec
=============================================================================
