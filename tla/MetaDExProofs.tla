---------------------------- MODULE MetaDExProofs ----------------------------
(***************************************************************************)
(* Proofs about the amounts of a trade on the token exchange, for orders   *)
(* and an int64 of any size.                                               *)
(***************************************************************************)
EXTENDS MetaDEx, TLAPS

\* What \div means: the quotient is the one number with a remainder below b.
LEMMA QuotientBounds ==
    ASSUME NEW a \in Nat, NEW b \in Nat \ {0}
    PROVE  /\ a \div b \in Nat
           /\ b * (a \div b) <= a
           /\ a < b * (a \div b) + b
  OBVIOUS

\* DivideAndRoundUp gives the least number of which b times is at least a.
LEMMA RoundUpBounds ==
    ASSUME NEW a \in Nat, NEW b \in Nat \ {0}
    PROVE  /\ DivideAndRoundUp(a, b) \in Nat
           /\ b * DivideAndRoundUp(a, b) >= a
           /\ b * DivideAndRoundUp(a, b) < a + b
           /\ a > 0 => DivideAndRoundUp(a, b) > 0
<1>1. CASE a = 0
  <2>1. DivideAndRoundUp(a, b) = 0
    BY <1>1 DEF DivideAndRoundUp
  <2> QED BY <1>1, <2>1
<1>2. CASE a # 0
  <2> DEFINE q == (a - 1) \div b
  <2>1. a - 1 \in Nat
    BY <1>2
  <2>2. q \in Nat /\ b * q <= a - 1 /\ a - 1 < b * q + b
    BY <2>1, QuotientBounds
  <2>3. DivideAndRoundUp(a, b) = 1 + q
    BY <1>2 DEF DivideAndRoundUp
  <2> HIDE DEF q
  <2>4. b * (1 + q) = b * q + b
    BY <2>2
  <2>5. b * q \in Nat
    BY <2>2
  <2> QED BY <2>2, <2>3, <2>4, <2>5
<1> QED BY <1>1, <1>2

\* A factor is at most another if its product is less than one multiple above.
LEMMA FactorBound ==
    ASSUME NEW x \in Nat, NEW y \in Nat, NEW b \in Nat \ {0}, b * x < b * y + b
    PROVE  x <= y
<1>1. x >= y + 1 => b * x >= b * (y + 1)
  OBVIOUS
<1>2. b * (y + 1) = b * y + b
  OBVIOUS
<1> QED BY <1>1, <1>2

---------------------------------------------------------------------------
\* What x_Trade relies on of an order: positive amounts in the range of an int64.
Tradable(o) == o.forsale \in 1 .. MaxInt /\ o.desired \in 1 .. MaxInt /\ o.remaining \in 1 .. MaxInt

\* Rounding what the buyer pays up never asks for more than is left of the order:
\* what can be bought was rounded down, at the same price.
THEOREM PaymentCovered ==
    ASSUME NEW new, NEW old, Tradable(new), Tradable(old)
    PROVE  LET got  == CouldBuy(new, old)
               paid == WouldPay(got, old)
           IN  /\ got \in 0 .. old.remaining
               /\ paid \in 0 .. new.remaining
               /\ paid * old.forsale >= got * old.desired
               /\ got > 0 => paid > 0
<1> DEFINE rem  == new.remaining
           left == old.remaining
           fs   == old.forsale
           des  == old.desired
           n    == (rem * fs) \div des
           got  == IF n < left THEN n ELSE left
           paid == DivideAndRoundUp(got * des, fs)
<1>0. rem \in Nat \ {0} /\ left \in Nat \ {0} /\ fs \in Nat \ {0} /\ des \in Nat \ {0}
  BY MaxIntAssumption DEF Tradable
<1>1. got = CouldBuy(new, old) /\ paid = WouldPay(CouldBuy(new, old), old)
  BY DEF CouldBuy, WouldPay
<1> HIDE DEF rem, left, fs, des
<1>2. rem * fs \in Nat
  BY <1>0
<1>3. n \in Nat /\ des * n <= rem * fs
  BY <1>0, <1>2, QuotientBounds
<1> HIDE DEF n
<1>4. got \in Nat /\ got <= left /\ got <= n
  BY <1>0, <1>3
<1> HIDE DEF got
<1>5. got * des \in Nat /\ (got > 0 => got * des > 0) /\ got * des <= rem * fs
  <2>1. des * got <= des * n
    BY <1>0, <1>3, <1>4
  <2>2. got * des = des * got /\ got * des \in Nat /\ (got > 0 => got * des > 0)
    BY <1>0, <1>4
  <2> QED BY <1>0, <1>2, <1>3, <1>4, <2>1, <2>2
<1>6. /\ paid \in Nat /\ fs * paid >= got * des /\ fs * paid < got * des + fs
      /\ got * des > 0 => paid > 0
  BY <1>0, <1>5, RoundUpBounds
<1> HIDE DEF paid
<1>7. paid <= rem
  <2>1. fs * rem = rem * fs /\ fs * paid \in Nat
    BY <1>0, <1>6
  <2>2. fs * paid < fs * rem + fs
    BY <1>0, <1>2, <1>5, <1>6, <2>1
  <2> QED BY <1>0, <1>6, <2>2, FactorBound
<1>8. paid * fs = fs * paid
  BY <1>0, <1>6
<1>9. /\ got \in 0 .. left /\ paid \in 0 .. rem /\ paid * fs >= got * des /\ (got > 0 => paid > 0)
  BY <1>0, <1>4, <1>5, <1>6, <1>7, <1>8
<1> QED BY <1>1, <1>9 DEF rem, left, fs, des

\* The assertions around a trade in x_Trade never fail: for every pair of orders
\* that x_Trade decides to match, the price is one that both accept and neither
\* order is left with a negative amount.
THEOREM TradeAssertsHold ==
    ASSUME NEW d, NEW new, NEW i, Tradable(new), Tradable(d.book[i]), Matches(d, new, i)
    PROVE  LET old == d.book[i]
               got == CouldBuy(new, old)
           IN  TradeAsserts(new, old, got, WouldPay(got, old))
<1> DEFINE old  == d.book[i]
           got  == CouldBuy(new, old)
           paid == WouldPay(got, old)
<1>1. /\ got \in 0 .. old.remaining /\ paid \in 0 .. new.remaining
      /\ paid * old.forsale >= got * old.desired
  BY PaymentCovered
<1>2. ~TooExpensive(paid, got, new)
  BY DEF Matches
<1>3. old.remaining \in Nat \ {0} /\ new.remaining \in Nat /\ new.forsale \in Nat /\ new.desired \in Nat
  BY MaxIntAssumption DEF Tradable
<1> HIDE DEF old, got, paid
<1>4. paid * new.desired <= got * new.forsale
  <2>1. got \in Nat /\ paid \in Nat
    BY <1>1, <1>3
  <2>2. got * new.forsale = new.forsale * got /\ got * new.forsale \in Nat /\ paid * new.desired \in Nat
    BY <1>3, <2>1
  <2> QED BY <1>2, <2>2 DEF TooExpensive
<1>5. old.remaining > 0 /\ new.remaining - paid >= 0 /\ old.remaining - got >= 0
  BY <1>1, <1>3
<1>6. TradeAsserts(new, old, got, paid)
  BY <1>1, <1>4, <1>5 DEF TradeAsserts
<1> QED BY <1>6 DEF old, got, paid

\* The trading fee is part of what the buyer got: the credit of the rest is never
\* negative.
THEOREM FeeWithinTrade ==
    ASSUME NEW old, NEW got \in Nat
    PROVE  TradingFee(old, got) \in 0 .. got
<1>1. FeeDivider \in Nat \ {0}
  BY MetaDExAssumption
<1>2. got \div FeeDivider \in Nat /\ FeeDivider * (got \div FeeDivider) <= got
  BY <1>1, QuotientBounds
<1>3. \A k \in Nat \ {0}, q \in Nat : q <= k * q
  OBVIOUS
<1>4. got \div FeeDivider <= FeeDivider * (got \div FeeDivider)
  BY <1>1, <1>2, <1>3
<1>5. got \div FeeDivider \in 0 .. got /\ 0 \in 0 .. got
  BY <1>1, <1>2, <1>4
<1> QED BY <1>5, Zenon DEF TradingFee
=============================================================================
