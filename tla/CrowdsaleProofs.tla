--------------------------- MODULE CrowdsaleProofs ---------------------------
(***************************************************************************)
(* Proofs about the arithmetic of crowdsales, for tokens, prices, bonuses, *)
(* deadlines and an int64 of any size.                                     *)
(***************************************************************************)
EXTENDS Crowdsale, TLAPS

\* What \div means: the quotient is the one number with a remainder below b.
LEMMA Quotient ==
    ASSUME NEW a \in Nat, NEW b \in Nat \ {0}
    PROVE  /\ a \div b \in Nat
           /\ b * (a \div b) <= a
           /\ a < b * (a \div b) + b
  OBVIOUS

\* A number is the quotient if its product with the divisor fits.
LEMMA QuotientUnique ==
    ASSUME NEW a \in Nat, NEW b \in Nat \ {0}, NEW q \in Nat, b * q <= a, a < b * q + b
    PROVE  a \div b = q
<1> DEFINE r == a \div b
<1>1. r \in Nat /\ b * r <= a /\ a < b * r + b
  BY Quotient
<1> HIDE DEF r
<1>2. ASSUME NEW x \in Nat, NEW y \in Nat, b * x < b * y + b
      PROVE  x <= y
  <2>1. x >= y + 1 => b * x >= b * (y + 1)
    OBVIOUS
  <2>2. b * (y + 1) = b * y + b
    OBVIOUS
  <2> QED BY <1>2, <2>1, <2>2
<1>3. r <= q
  <2>1. b * r < b * q + b
    BY <1>1
  <2> QED BY <1>1, <1>2, <2>1
<1>4. q <= r
  <2>1. b * q < b * r + b
    BY <1>1
  <2> QED BY <1>1, <1>2, <2>1
<1> QED BY <1>1, <1>3, <1>4 DEF r

\* Dividing a multiple gives back the factor.
LEMMA DivideProduct ==
    ASSUME NEW a \in Nat, NEW b \in Nat \ {0}
    PROVE  (a * b) \div b = a
<1>1. a * b \in Nat /\ b * a = a * b
  OBVIOUS
<1>2. b * a <= a * b /\ a * b < b * a + b
  BY <1>1
<1> QED BY <1>1, <1>2, QuotientUnique

\* Rounding two amounts down separately never gives more than rounding their sum.
LEMMA DivideSum ==
    ASSUME NEW a \in Nat, NEW b \in Nat, NEW h \in Nat \ {0}
    PROVE  (a \div h) + (b \div h) <= (a + b) \div h
<1> DEFINE x == a \div h
           y == b \div h
           z == (a + b) \div h
<1>1. x \in Nat /\ h * x <= a
  BY Quotient
<1>2. y \in Nat /\ h * y <= b
  BY Quotient
<1>3. z \in Nat /\ a + b < h * z + h
  BY Quotient
<1> HIDE DEF x, y, z
<1>4. h * (x + y) = h * x + h * y /\ h * (z + 1) = h * z + h
  BY <1>1, <1>2, <1>3
<1>5. h * (x + y) < h * (z + 1)
  BY <1>1, <1>2, <1>3, <1>4
<1>6. x + y >= z + 1 => h * (x + y) >= h * (z + 1)
  BY <1>1, <1>2, <1>3
<1>7. x + y <= z
  BY <1>1, <1>2, <1>3, <1>5, <1>6
<1> QED BY <1>7 DEF x, y, z

\* Precision is positive.
LEMMA PrecisionType == Precision \in Nat \ {0} /\ Precision * Satoshi \in Nat \ {0}
<1>1. \A x, y \in Nat \ {0} : x * y \in Nat \ {0}
  OBVIOUS
<1>2. Satoshi * Percent \in Nat \ {0}
  BY <1>1, ScaleAssumption
<1>3. Satoshi * Percent * Percent \in Nat \ {0}
  BY <1>1, <1>2, ScaleAssumption
<1>4. Precision \in Nat \ {0}
  BY <1>3 DEF Precision
<1> QED BY <1>1, <1>4, ScaleAssumption

---------------------------------------------------------------------------
(* The shares of one purchase *)

\* The products and quotients of calculateFundraiser in which the precision cancels
\* out lose nothing: the issuer's share is the percentage, rounded down once.
THEOREM IssuerTokensExact ==
    ASSUME NEW s, s.percentage \in Nat, NEW user \in Nat
    PROVE  IssuerTokens(s, user) = (user * s.percentage) \div Percent
<1> DEFINE f == s.percentage
<1>0. f \in Nat /\ Satoshi \in Nat \ {0} /\ Percent \in Nat \ {0}
  BY ScaleAssumption
<1> HIDE DEF f
<1>1. f * Precision = (f * Satoshi * Percent) * Percent
  BY <1>0 DEF Precision
<1>2. f * Satoshi \in Nat /\ f * Satoshi * Percent \in Nat /\ user * f \in Nat
  BY <1>0
<1>3. (f * Precision) \div Percent = f * Satoshi * Percent
  BY <1>0, <1>1, <1>2, DivideProduct
<1>4. ((f * Precision) \div Percent) \div Percent = f * Satoshi
  BY <1>0, <1>2, <1>3, DivideProduct
<1>5. user * (f * Satoshi) = (user * f) * Satoshi
  BY <1>0
<1>6. (user * (f * Satoshi)) \div Satoshi = user * f
  BY <1>0, <1>2, <1>5, DivideProduct
<1> QED
  BY <1>4, <1>6 DEF IssuerTokens, f

\* The bonuses credited so far and the one of the next purchase are never more than
\* the percentage of the tokens sold, which is why GetMissedIssuerBonus finds no
\* "negative missing amount".
THEOREM BonusNeverAhead ==
    ASSUME NEW s, s.percentage \in Nat, NEW sold \in Nat, NEW user \in Nat, NEW credited \in Nat,
           credited <= (sold * s.percentage) \div Percent
    PROVE  credited + IssuerTokens(s, user) <= ((sold + user) * s.percentage) \div Percent
<1> DEFINE f == s.percentage
<1>0. f \in Nat /\ Percent \in Nat \ {0}
  BY ScaleAssumption
<1>1. IssuerTokens(s, user) = (user * f) \div Percent
  BY IssuerTokensExact
<1>2. credited <= (sold * f) \div Percent
  OBVIOUS
<1> HIDE DEF f
<1>3. sold * f \in Nat /\ user * f \in Nat /\ (sold + user) * f = sold * f + user * f
  BY <1>0
<1>4. ((sold * f) \div Percent) + ((user * f) \div Percent) <= (sold * f + user * f) \div Percent
  BY <1>0, <1>3, DivideSum
<1>5. /\ (sold * f) \div Percent \in Nat /\ (user * f) \div Percent \in Nat
      /\ (sold * f + user * f) \div Percent \in Nat
  <2>1. \A a \in Nat : a \div Percent \in Nat
    BY <1>0, Quotient
  <2>2. sold * f + user * f \in Nat
    BY <1>3
  <2> QED BY <1>3, <2>1, <2>2, Zenon
<1>6. credited + IssuerTokens(s, user) <= ((sold + user) * f) \div Percent
  BY <1>1, <1>2, <1>3, <1>4, <1>5
<1> QED BY <1>6 DEF f

---------------------------------------------------------------------------
(* The limit *)

\* The assertion of calculateFundraiser that the issuer's reduced share fits never
\* fails; the two shares make up exactly what may be created, and the buyer gets
\* at least one token.  This rests on 10^20 being larger than any int64.
THEOREM LimitedSharesFit ==
    ASSUME NEW user \in Nat \ {0}, NEW issuer \in Nat, NEW creatable \in 1 .. MaxInt,
           creatable < user + issuer
    PROVE  LET r == Limited(user, issuer, creatable)
           IN  /\ r.fails = NoAbort
               /\ r.issuer \in Nat /\ r.user \in Nat \ {0}
               /\ r.user + r.issuer = creatable
<1> DEFINE K == Precision * Satoshi
           ratio == ((user + issuer) * Precision * Satoshi) \div creatable
           scaled == (issuer * Precision * Satoshi) \div ratio
<1>0. /\ Precision \in Nat /\ Satoshi \in Nat /\ K \in Nat \ {0} /\ creatable \in Nat \ {0}
      /\ creatable <= K
  BY PrecisionType, ScaleAssumption, MaxIntAssumption
<1>1. /\ (user + issuer) * Precision * Satoshi = (user + issuer) * K
      /\ issuer * Precision * Satoshi = issuer * K
  BY <1>0
<1> HIDE DEF K
<1>2. /\ (user + issuer) * K \in Nat /\ issuer * K \in Nat /\ user * K \in Nat
      /\ (user + issuer) * K = user * K + issuer * K
      /\ user * K >= K
  BY <1>0
<1>3. /\ ratio \in Nat
      /\ creatable * ratio <= (user + issuer) * K
      /\ (user + issuer) * K < creatable * ratio + creatable
  BY <1>0, <1>1, <1>2, Quotient
<1> HIDE DEF ratio
<1>4. issuer * K < creatable * ratio
  BY <1>0, <1>2, <1>3
<1>5. ratio # 0
  BY <1>0, <1>2, <1>3, <1>4
<1>6. scaled \in Nat /\ ratio * scaled <= issuer * K
  BY <1>1, <1>2, <1>3, <1>5, Quotient
<1> HIDE DEF scaled
<1>7. scaled < creatable
  <2>1. ratio * scaled < ratio * creatable
    BY <1>0, <1>2, <1>3, <1>4, <1>6
  <2>2. scaled >= creatable => ratio * scaled >= ratio * creatable
    BY <1>0, <1>3, <1>6
  <2> QED BY <1>0, <1>3, <1>6, <2>1, <2>2
<1>8. Limited(user, issuer, creatable) =
        [user |-> creatable - scaled, issuer |-> scaled, close |-> TRUE,
         fails |-> IF scaled > creatable THEN "calculateFundraiser" ELSE NoAbort]
  BY DEF Limited, ratio, scaled
<1> QED
  BY <1>0, <1>6, <1>7, <1>8

\* What a crowdsale entry fixes of the arithmetic, in natural numbers.
Terms(s) == /\ s.num_tokens \in Nat /\ s.early_bird \in Nat /\ s.percentage \in Nat
            /\ s.deadline \in Int

\* The early bird bonus is never negative, after the deadline neither.
LEMMA BonusWeeksType == ASSUME NEW deadline \in Int, NEW now \in Int PROVE BonusWeeks(deadline, now) \in Nat
<1> DEFINE secs == IF now < deadline THEN deadline - now ELSE 0
<1>0. Precision \in Nat /\ Week \in Nat \ {0} /\ secs \in Nat
  BY PrecisionType, ScaleAssumption
<1> HIDE DEF secs
<1>1. secs \div Week \in Nat /\ secs % Week \in Nat
  BY <1>0
<1>2. (secs \div Week) * Precision \in Nat /\ (secs % Week) * Precision \in Nat
  BY <1>0, <1>1
<1>3. ((secs % Week) * Precision) \div Week \in Nat
  BY <1>0, <1>2, Quotient
<1>4. (secs \div Week) * Precision + ((secs % Week) * Precision) \div Week \in Nat
  BY <1>2, <1>3
<1> QED BY <1>4 DEF BonusWeeks, secs

\* A buyer is never due a negative number of tokens.
LEMMA UserTokensType ==
    ASSUME NEW s, Terms(s), NEW inflate, NEW amount \in Nat, NEW now \in Int
    PROVE  UserTokens(s, inflate, amount, now) \in Nat
<1> DEFINE weeks == BonusWeeks(s.deadline, now)
           bonus == (Precision * Percent + weeks * s.early_bird) \div Percent
           units == IF inflate THEN amount * Satoshi ELSE amount
           bird  == s.early_bird
           price == s.num_tokens
<1>0. /\ Precision \in Nat \ {0} /\ Percent \in Nat \ {0} /\ Satoshi \in Nat \ {0}
      /\ bird \in Nat /\ price \in Nat
  BY PrecisionType, ScaleAssumption DEF Terms
<1>1. weeks \in Nat
  BY BonusWeeksType DEF Terms
<1>2. \A x, y \in Nat : x * y \in Nat /\ x + y \in Nat
  OBVIOUS
<1>3. \A x \in Nat : \A y \in Nat \ {0} : x \div y \in Nat
  BY Quotient
<1>4. units \in Nat
  BY <1>0, <1>2
<1> HIDE DEF weeks, units, bird, price
<1>5. (Precision * Percent + weeks * bird) \in Nat
  <2>1. Precision * Percent \in Nat /\ weeks * bird \in Nat
    BY <1>0, <1>1, <1>2
  <2> QED BY <2>1, <1>2
<1>6. bonus \in Nat
  BY <1>0, <1>3, <1>5 DEF bird
<1> HIDE DEF bonus
<1>7. units * price * bonus \in Nat
  <2>1. units * price \in Nat
    BY <1>0, <1>2, <1>4
  <2> QED BY <1>2, <1>6, <2>1
<1>8. (units * price * bonus) \div Precision \in Nat
  BY <1>0, <1>3, <1>7
<1>9. ((units * price * bonus) \div Precision) \div Satoshi \in Nat
  BY <1>0, <1>3, <1>8
<1> QED BY <1>9 DEF UserTokens, weeks, bonus, units, price

\* Whatever is bought at whatever terms and time, calculateFundraiser stays within
\* the limit of MAX_INT_8_BYTES tokens, closes the crowdsale only when the limit is
\* reached, and throws only when no token was left to be created.
THEOREM FundraiserWithinLimit ==
    ASSUME NEW s, Terms(s), NEW inflate, NEW amount \in Nat, NEW now \in Int,
           NEW total \in 0 .. MaxInt
    PROVE  LET r == calculateFundraiser(s, inflate, amount, now, total)
           IN  /\ r.user \in Nat /\ r.issuer \in Nat
               /\ total + r.user + r.issuer <= MaxInt
               /\ r.fails = NoAbort \/ (r.fails = "division by zero" /\ total = MaxInt)
               /\ r.close => total + r.user + r.issuer = MaxInt
<1> DEFINE user   == UserTokens(s, inflate, amount, now)
           issuer == IssuerTokens(s, user)
           r      == calculateFundraiser(s, inflate, amount, now, total)
<1>0. user \in Nat /\ MaxInt \in Nat /\ total \in Nat /\ total <= MaxInt
  BY MaxIntAssumption, UserTokensType
<1>1. issuer \in Nat /\ (user = 0 => issuer = 0)
  <2> DEFINE f == s.percentage
  <2>0. f \in Nat
    BY DEF Terms
  <2>1. issuer = (user * f) \div Percent
    BY <1>0, <2>0, IssuerTokensExact
  <2> HIDE DEF f, user, issuer
  <2>2. user * f \in Nat /\ (user = 0 => user * f = 0)
    BY <1>0, <2>0
  <2>3. \A a \in Nat : a \div Percent \in Nat /\ (a = 0 => a \div Percent = 0)
    BY ScaleAssumption, Quotient
  <2> QED BY <2>1, <2>2, <2>3, Zenon
<1>2. r = IF total + user + issuer <= MaxInt
          THEN [user |-> user, issuer |-> issuer, close |-> FALSE, fails |-> NoAbort]
          ELSE IF total = MaxInt
               THEN [user |-> 0, issuer |-> 0, close |-> FALSE, fails |-> "division by zero"]
               ELSE Limited(user, issuer, MaxInt - total)
  BY DEF calculateFundraiser
<1> HIDE DEF user, issuer, r
<1>3. CASE total + user + issuer <= MaxInt
  <2>1. r = [user |-> user, issuer |-> issuer, close |-> FALSE, fails |-> NoAbort]
    BY <1>2, <1>3
  <2> QED BY <1>0, <1>1, <1>3, <2>1 DEF r
<1>4. CASE ~(total + user + issuer <= MaxInt) /\ total = MaxInt
  <2>1. r = [user |-> 0, issuer |-> 0, close |-> FALSE, fails |-> "division by zero"]
    BY <1>2, <1>4
  <2>2. r.user = 0 /\ r.issuer = 0
    BY <2>1
  <2>3. r.close = FALSE /\ r.fails = "division by zero"
    BY <2>1
  <2>4. r.user \in Nat /\ r.issuer \in Nat /\ total + r.user + r.issuer <= MaxInt
    BY <1>0, <2>2
  <2> QED BY <1>4, <2>3, <2>4 DEF r
<1>5. CASE ~(total + user + issuer <= MaxInt) /\ total # MaxInt
  <2>1. r = Limited(user, issuer, MaxInt - total)
    BY <1>2, <1>5
  <2>2. MaxInt - total \in 1 .. MaxInt /\ MaxInt - total < user + issuer /\ user # 0
    BY <1>0, <1>1, <1>5
  <2>3. /\ r.fails = NoAbort /\ r.issuer \in Nat /\ r.user \in Nat
        /\ r.user + r.issuer = MaxInt - total
    BY <1>0, <1>1, <2>1, <2>2, LimitedSharesFit
  <2>4. total + r.user + r.issuer = MaxInt
    BY <1>0, <2>3
  <2> QED BY <1>0, <2>3, <2>4 DEF r
<1> QED BY <1>3, <1>4, <1>5

---------------------------------------------------------------------------
(* The end of a crowdsale *)

\* The issuer ends with the exact percentage of the tokens sold, or with all that
\* may still be created, and never beyond the limit: what GetMissedIssuerBonus adds
\* makes up for the rounding of the single purchases.
THEOREM MissedBonusExact ==
    ASSUME NEW s, s.percentage \in Nat, NEW c, c.user \in Nat, c.issuer \in Nat,
           c.user + c.issuer <= MaxInt,
           c.issuer <= (c.user * s.percentage) \div Percent
    PROVE  LET exact == (c.user * s.percentage) \div Percent
               ends  == c.issuer + GetMissedIssuerBonus(s, c)
           IN  /\ GetMissedIssuerBonus(s, c) \in Nat
               /\ c.user + ends <= MaxInt
               /\ ends = exact \/ (ends < exact /\ c.user + ends = MaxInt)
<1> DEFINE exact  == (c.user * s.percentage) \div Percent
           missed == GetMissedIssuerBonus(s, c)
<1>1. exact \in Nat
  <2>1. c.user * s.percentage \in Nat
    OBVIOUS
  <2>2. \A a \in Nat : a \div Percent \in Nat
    BY ScaleAssumption, Quotient
  <2> QED BY <2>1, <2>2, Zenon
<1>2. c.issuer <= exact
  OBVIOUS
<1>3. missed = IF exact <= c.issuer
               THEN 0
               ELSE IF c.user + c.issuer + (exact - c.issuer) > MaxInt
                    THEN MaxInt - (c.user + c.issuer)
                    ELSE exact - c.issuer
  BY DEF GetMissedIssuerBonus
<1>4. MaxInt \in Nat
  BY MaxIntAssumption
<1> HIDE DEF exact, missed
<1>5. /\ missed \in Nat /\ c.user + (c.issuer + missed) <= MaxInt
      /\ \/ c.issuer + missed = exact
         \/ c.issuer + missed < exact /\ c.user + (c.issuer + missed) = MaxInt
  BY <1>1, <1>2, <1>3, <1>4
<1> QED BY <1>5 DEF exact, missed
=============================================================================
