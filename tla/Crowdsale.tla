------------------------------ MODULE Crowdsale ------------------------------
(***************************************************************************)
(* Creation of properties and of their tokens: fixed, managed and          *)
(* crowdsale properties, grants and revocations, change of issuer, the     *)
(* sends that buy from a crowdsale, and the ends of a crowdsale            *)
(* (src/omnicore/tx.cpp, src/omnicore/sp.cpp).                             *)
(*                                                                         *)
(* sp is the database of properties, crowds the map my_crowds from issuers *)
(* to live crowdsales.  Properties 1 .. Len(FirstSP) exist at the start.   *)
(* The constants 10^8, 10^12 and 100 of calculateFundraiser are scaled     *)
(* down to Satoshi, Precision and Percent, which keep their relation       *)
(* Precision = Satoshi * Percent^2.                                        *)
(***************************************************************************)
EXTENDS Tally, TLC, FiniteSets, Sequences, SequencesExt

CONSTANTS FirstSP,     \* the properties that exist at the start
          FirstCrowds, \* the crowdsales that are live at the start
          Supply,      \* the balances at the start
          Satoshi,     \* 100000000
          Percent,     \* 100
          Week,        \* 604800 seconds
          SaleInput,   \* terms of crowdsales that may be created
          Amount,      \* amounts that occur in transactions
          Divisible,   \* may new properties be divisible: a subset of BOOLEAN
          MaxTime,     \* bound: block times, later than every deadline
          MaxTxs,      \* bound: transactions
          Features     \* may FEATURE_GRANTEFFECTS be active: a subset of BOOLEAN

VARIABLES tally,   \* mp_tally_map
          sp,      \* pDbSpInfo: properties in the order of their identifiers
          crowds,  \* my_crowds
          time,    \* time of the current block
          effects, \* is FEATURE_GRANTEFFECTS active
          txs,     \* transactions so far
          abort    \* the assertion or exception that ended the process

vars == <<tally, sp, crowds, time, effects, txs, abort>>

Precision == Satoshi * Percent * Percent

\* The scale is that of the code, where Precision * Satoshi is 10^20.
ASSUME ScaleAssumption == /\ Satoshi \in Nat \ {0}
                          /\ Percent \in Nat \ {0}
                          /\ Week \in Nat \ {0}
                          /\ MaxInt <= Precision * Satoshi

State == [tally |-> tally, sp |-> sp, crowds |-> crowds, abort |-> abort]

Install(d) ==
    \E e \in {d} :
       /\ tally' = e.tally
       /\ sp' = e.sp
       /\ crowds' = e.crowds
       /\ abort' = e.abort

Stop(d, why) == IF d.abort = NoAbort THEN [d EXCEPT !.abort = why] ELSE d

Credit(d, who, p, n) == AssertUpdate(d, {}, who, p, n, "BALANCE")

CreditIfAny(d, who, p, n) == IF n > 0 THEN Credit(d, who, p, n) ELSE d

IsPropertyIdValid(d, p) == p \in DOMAIN d.sp

SumOver(f, S) == FoldSet(LAMBDA x, sum : f[x] + sum, 0, S)

getTotalTokens(d, p) ==
    IF d.sp[p].kind = "fixed"
    THEN d.sp[p].num_tokens
    ELSE SumOver(d.tally, Address \X {p} \X (TallyType \ {"PENDING"}))

-----------------------------------------------------------------------------
(***************************************************************************)
(* The arithmetic of crowdsales.                                           *)
(***************************************************************************)

\* The weeks to the deadline, in units of 1 / Precision.
BonusWeeks(deadline, now) ==
    LET secs == IF now < deadline THEN deadline - now ELSE 0
    IN  (secs \div Week) * Precision + ((secs % Week) * Precision) \div Week

\* The tokens for the buyer before the limit is applied.
UserTokens(s, inflate, amount, now) ==
    LET bonus == (Precision * Percent + BonusWeeks(s.deadline, now) * s.early_bird) \div Percent
        units == IF inflate THEN amount * Satoshi ELSE amount
    IN  ((units * s.num_tokens * bonus) \div Precision) \div Satoshi

\* The tokens for the issuer, in the order in which the code multiplies and divides.
IssuerTokens(s, user) ==
    LET share == ((s.percentage * Precision) \div Percent) \div Percent
    IN  ((user * share) \div Satoshi) \div Percent

\* Both shares reduced in proportion to the creatable > 0 tokens that are left.
Limited(user, issuer, creatable) ==
    LET ratio  == ((user + issuer) * Precision * Satoshi) \div creatable
        scaled == (issuer * Precision * Satoshi) \div ratio
    IN  [user |-> creatable - scaled, issuer |-> scaled, close |-> TRUE,
         fails |-> IF scaled > creatable THEN "calculateFundraiser" ELSE NoAbort]

\* The tokens for buyer and issuer, and whether the crowdsale is to be closed.
\* Dividing by the tokens that are left throws when there are none.
calculateFundraiser(s, inflate, amount, now, total) ==
    LET user   == UserTokens(s, inflate, amount, now)
        issuer == IssuerTokens(s, user)
    IN  IF total + user + issuer <= MaxInt
        THEN [user |-> user, issuer |-> issuer, close |-> FALSE, fails |-> NoAbort]
        ELSE IF total = MaxInt
             THEN [user |-> 0, issuer |-> 0, close |-> FALSE, fails |-> "division by zero"]
             ELSE Limited(user, issuer, MaxInt - total)

\* Variant: rounding losses are not made up for.
GetMissedIssuerBonus_None(s, c) == 0

\* What the issuer is short of because each purchase was rounded down.
GetMissedIssuerBonus(s, c) ==
    LET exact == (c.user * s.percentage) \div Percent
        total == c.user + c.issuer
    IN  IF exact <= c.issuer
        THEN 0
        ELSE IF total + (exact - c.issuer) > MaxInt THEN MaxInt - total ELSE exact - c.issuer

-----------------------------------------------------------------------------
(***************************************************************************)
(* The ends of a crowdsale: the deadline, a transaction, the maximum.      *)
(***************************************************************************)

\* The crowdsale of a moves from my_crowds into the database of properties.
Finish(d, a, how, missed) ==
    LET c == d.crowds[a]
    IN  [d EXCEPT !.crowds = Restrict(@, DOMAIN @ \ {a}),
                  !.sp[c.property].data = c.data,
                  !.sp[c.property].closed = how,
                  !.sp[c.property].missed = missed]

\* What the deadline and CloseCrowdsale have in common: the issuer recorded with
\* the property is credited with the missed tokens.
FinishWithBonus(d, a, how) ==
    LET c      == d.crowds[a]
        s      == d.sp[c.property]
        missed == GetMissedIssuerBonus(s, c)
    IN  IF getTotalTokens(d, c.property) # c.user + c.issuer
        THEN Stop(d, "GetMissedIssuerBonus")
        ELSE CreditIfAny(Finish(d, a, how, missed), s.issuer, c.property, missed)

\* Variant: the purchases are not copied.
eraseMaxedCrowdsale_NoData(d, a) ==
    [Finish(d, a, "maxed", 0) EXCEPT !.sp[d.crowds[a].property].data = <<>>]

eraseMaxedCrowdsale(d, a) == Finish(d, a, "maxed", 0)

\* Variant: the loop ends with the first expired crowdsale.
eraseExpiredCrowdsale_First(d, now) ==
    LET expired == {a \in DOMAIN d.crowds : now > d.crowds[a].deadline}
    IN  IF expired = {} THEN d ELSE FinishWithBonus(d, Min(expired), "expired")

\* Variant: a crowdsale that sold nothing is passed over.
eraseExpiredCrowdsale_Sold(d, now) ==
    FoldSet(LAMBDA a, e : FinishWithBonus(e, a, "expired"),
            d, {a \in DOMAIN d.crowds : now > d.crowds[a].deadline /\ d.crowds[a].user > 0})

eraseExpiredCrowdsale(d, now) ==
    FoldSet(LAMBDA a, e : FinishWithBonus(e, a, "expired"),
            d, {a \in DOMAIN d.crowds : now > d.crowds[a].deadline})

\* The tokens of one purchase, r being what calculateFundraiser answered.
Participate(d, sender, receiver, r) ==
    LET p    == d.crowds[receiver].property
        sold == [d EXCEPT !.crowds[receiver].user = @ + r.user,
                          !.crowds[receiver].issuer = @ + r.issuer,
                          !.crowds[receiver].data =
                              Append(@, [time |-> time, user |-> r.user, issuer |-> r.issuer])]
        paid == CreditIfAny(CreditIfAny(sold, sender, p, r.user), receiver, p, r.issuer)
    IN  CASE r.fails # NoAbort -> Stop(d, r.fails)
          [] r.fails = NoAbort /\ r.close -> eraseMaxedCrowdsale(paid, receiver)
          [] OTHER -> paid

\* Called after n tokens of property p came from sender to receiver.
logicHelper_CrowdsaleParticipation(d, sender, receiver, p, n) ==
    IF d.abort = NoAbort /\ receiver \in DOMAIN d.crowds /\ d.crowds[receiver].desired = p
    THEN Participate(d, sender, receiver,
             calculateFundraiser(d.sp[d.crowds[receiver].property], ~d.sp[p].divisible, n, time,
                                 getTotalTokens(d, d.crowds[receiver].property)))
    ELSE d

-----------------------------------------------------------------------------
(***************************************************************************)
(* Transactions: the guard of each handler is a conjunct of its action.    *)
(***************************************************************************)

Init ==
    /\ tally = [k \in TallyKey |-> IF k[3] = "BALANCE" THEN Supply[k[2]][k[1]] ELSE 0]
    /\ sp = FirstSP
    /\ crowds = FirstCrowds
    /\ time = 0
    /\ effects \in Features
    /\ txs = 0
    /\ abort = NoAbort

\* A transaction whose handler leaves state d.
Process(d) ==
    /\ abort = NoAbort
    /\ txs < MaxTxs
    /\ txs' = txs + 1
    /\ Install(d)
    /\ UNCHANGED <<time, effects>>

HasBalance(who, p, n) == tally[who, p, "BALANCE"] >= n

SimpleSend(sender, receiver, p, n) ==
    /\ IsPropertyIdValid(State, p)
    /\ HasBalance(sender, p, n)
    /\ Process(logicHelper_CrowdsaleParticipation(
           Move(State, {}, sender, receiver, p, "BALANCE", "BALANCE", n), sender, receiver, p, n))

\* outputs are the pairs of receivers and amounts; nothing is bought with them.
SendToMany(sender, outputs, p) ==
    /\ IsPropertyIdValid(State, p)
    /\ HasBalance(sender, p, FoldLeft(LAMBDA sum, o : sum + o[2], 0, outputs))
    /\ Process(FoldLeft(LAMBDA d, o : Move(d, {}, sender, o[1], p, "BALANCE", "BALANCE", o[2]),
                        State, outputs))

\* What a property has before its kind says more.
NewSP(kind, sender, divisible) ==
    [kind |-> kind, issuer |-> sender, divisible |-> divisible, num_tokens |-> 0, desired |-> 0,
     deadline |-> 0, early_bird |-> 0, percentage |-> 0, data |-> <<>>, missed |-> 0,
     closed |-> "no"]

putSP(d, entry) == [d EXCEPT !.sp = Append(@, entry)]

NextSPID == Len(sp) + 1

CreatePropertyFixed(sender, n, divisible) ==
    /\ NextSPID \in Property
    /\ Process(Credit(putSP(State, [NewSP("fixed", sender, divisible) EXCEPT !.num_tokens = n]),
                      sender, NextSPID, n))

CreatePropertyManaged(sender, divisible) ==
    /\ NextSPID \in Property
    /\ Process(putSP(State, NewSP("managed", sender, divisible)))

\* What my_crowds holds of a new crowdsale.
NewCrowd(p, sale) ==
    [property |-> p, desired |-> sale.desired, deadline |-> sale.deadline,
     user |-> 0, issuer |-> 0, data |-> <<>>]

CreatePropertyVariable(sender, sale, divisible) ==
    /\ NextSPID \in Property
    /\ IsPropertyIdValid(State, sale.desired)
    /\ sale.deadline >= time
    /\ sender \notin DOMAIN crowds
    /\ Process([putSP(State, sale @@ NewSP("crowdsale", sender, divisible)) EXCEPT
                   !.crowds = @ @@ (sender :> NewCrowd(NextSPID, sale))])

CloseCrowdsale(sender, p) ==
    /\ sender \in DOMAIN crowds
    /\ crowds[sender].property = p
    /\ Process(FinishWithBonus(State, sender, "early"))

\* Variant: tokens of every property may be granted and revoked.
IsManaged_Any(p) == p \in DOMAIN sp

IsManaged(p) == p \in DOMAIN sp /\ sp[p].kind = "managed"

\* A grant or revocation enters the history of the property.
Recorded(d, p, granted, revoked) ==
    [d EXCEPT !.sp[p].data = Append(@, [granted |-> granted, revoked |-> revoked])]

\* Until FEATURE_GRANTEFFECTS is active the receiver's crowdsale sees a purchase.
GrantTokens(sender, receiver, p, n) ==
    /\ IsManaged(p)
    /\ sp[p].issuer = sender
    /\ n <= MaxInt - getTotalTokens(State, p)
    /\ \E d \in {Credit(Recorded(State, p, n, 0), receiver, p, n)} :
           Process(IF effects THEN d
                   ELSE logicHelper_CrowdsaleParticipation(d, sender, receiver, p, n))

RevokeTokens(sender, p, n) ==
    /\ IsManaged(p)
    /\ HasBalance(sender, p, n)
    /\ Process(Recorded(AssertUpdate(State, {}, sender, p, -n, "BALANCE"), p, 0, n))

\* Variant: only the receiver must have no crowdsale.
ChangeAllowed_Receiver(sender, receiver) == receiver \notin DOMAIN crowds

ChangeAllowed(sender, receiver) == sender \notin DOMAIN crowds /\ receiver \notin DOMAIN crowds

ChangeIssuer(sender, receiver, p) ==
    /\ IsPropertyIdValid(State, p)
    /\ sp[p].issuer = sender
    /\ ChangeAllowed(sender, receiver)
    /\ Process([State EXCEPT !.sp[p].issuer = receiver])

\* mastercore_handler_block_begin: block times may also decrease.
BeginBlock(now) ==
    /\ abort = NoAbort
    /\ time' = now
    /\ Install(eraseExpiredCrowdsale(State, now))
    /\ UNCHANGED <<effects, txs>>

Sends(sender) ==
    \E p \in Property, n \in Amount :
       \/ \E receiver \in Address : SimpleSend(sender, receiver, p, n)
       \/ SendToMany(sender, SetToSeq({<<a, n>> : a \in Address}), p)

Creates(sender) ==
    \E divisible \in Divisible :
       \/ \E n \in Amount : CreatePropertyFixed(sender, n, divisible)
       \/ CreatePropertyManaged(sender, divisible)
       \/ \E sale \in SaleInput : CreatePropertyVariable(sender, sale, divisible)

Manages(sender) ==
    \E p \in Property :
       \/ CloseCrowdsale(sender, p)
       \/ \E n \in Amount :
             \/ \E receiver \in Address : GrantTokens(sender, receiver, p, n)
             \/ RevokeTokens(sender, p, n)
       \/ \E receiver \in Address : ChangeIssuer(sender, receiver, p)

Next ==
    \/ \E sender \in Address : Sends(sender) \/ Creates(sender) \/ Manages(sender)
    \/ \E now \in 0 .. MaxTime : BeginBlock(now)

\* Blocks keep coming, and the time of one is past every deadline.
Spec == Init /\ [][Next]_vars /\ WF_vars(BeginBlock(MaxTime))

-----------------------------------------------------------------------------
(***************************************************************************)
(* Properties.                                                             *)
(***************************************************************************)

Purchase == [time : 0 .. MaxTime, user : 0 .. MaxInt, issuer : 0 .. MaxInt]

Grant == [granted : 0 .. MaxInt, revoked : 0 .. MaxInt]

\* Every balance, counter and purchase is in the range of its type: no purchase
\* takes the counters of a live crowdsale (incTokensUserCreated) past int64.
TypeOK ==
    /\ tally \in Tallies
    /\ Len(sp) <= Cardinality(Property)
    /\ \A p \in DOMAIN sp :
          /\ sp[p].kind \in {"fixed", "managed", "crowdsale"}
          /\ sp[p].issuer \in Address
          /\ sp[p].missed \in 0 .. MaxInt
          /\ sp[p].closed \in {"no", "expired", "early", "maxed"}
          /\ sp[p].data \in IF sp[p].kind = "managed" THEN Seq(Grant) ELSE Seq(Purchase)
    /\ DOMAIN crowds \subseteq Address
    /\ \A a \in DOMAIN crowds :
          crowds[a] \in [property : DOMAIN sp, desired : DOMAIN sp, deadline : 0 .. MaxTime,
                         user : 0 .. MaxInt, issuer : 0 .. MaxInt, data : Seq(Purchase)]
    /\ time \in 0 .. MaxTime
    /\ effects \in BOOLEAN
    /\ txs \in 0 .. MaxTxs

Running == abort = NoAbort

Sold(data) == FoldLeft(LAMBDA sum, e : sum + e.user + e.issuer, 0, data)

Granted(data) == FoldLeft(LAMBDA sum, e : sum + e.granted - e.revoked, 0, data)

Outstanding(p) == SumOver(tally, Address \X {p} \X {"BALANCE"})

OnSale(p) == \E a \in DOMAIN crowds : crowds[a].property = p

\* The record kept of every property created (historicalData and missedTokens,
\* which the RPCs report) accounts for every token that exists, however the
\* crowdsale ended and whatever was sent, granted or revoked meanwhile.
HistoryExplainsSupply ==
    Running => \A p \in DOMAIN sp :
        Outstanding(p) =
            CASE sp[p].kind = "fixed"     -> sp[p].num_tokens
              [] sp[p].kind = "managed"   -> Granted(sp[p].data)
              [] sp[p].kind = "crowdsale" ->
                    IF OnSale(p)
                    THEN Sold((CHOOSE c \in Range(crowds) : c.property = p).data)
                    ELSE Sold(sp[p].data) + sp[p].missed

\* The counters of a live crowdsale add up to the tokens that exist, which
\* GetMissedIssuerBonus asserts when the crowdsale ends; and that assertion, the
\* one of calculateFundraiser and those on balance updates never fail.
BooksBalance ==
    /\ Running => \A a \in DOMAIN crowds :
                      getTotalTokens(State, crowds[a].property) = crowds[a].user + crowds[a].issuer
    /\ abort \in {NoAbort, "division by zero"}

\* The address my_crowds files a crowdsale under is the issuer of its property,
\* so that purchases and the missed bonus are credited to the same address, and
\* no property is on sale twice or after its crowdsale was closed.
SaleBelongsToIssuer ==
    \A a \in DOMAIN crowds :
        /\ sp[crowds[a].property].issuer = a
        /\ sp[crowds[a].property].closed = "no"
        /\ \A b \in DOMAIN crowds \ {a} : crowds[b].property # crowds[a].property

\* When a crowdsale expires or is closed, rounding has cost the issuer nothing: the
\* bonuses of the purchases and the missed bonus are the percentage of all tokens
\* sold, up to the limit on tokens.  A crowdsale closed at the limit is at the limit.
IssuerBonusExact ==
    Running => \A p \in DOMAIN sp :
        LET user   == FoldLeft(LAMBDA sum, e : sum + e.user, 0, sp[p].data)
            issuer == FoldLeft(LAMBDA sum, e : sum + e.issuer, sp[p].missed, sp[p].data)
            due    == (user * sp[p].percentage) \div Percent
        IN  /\ sp[p].closed \in {"expired", "early"} =>
                  issuer = IF due < MaxInt - user THEN due ELSE MaxInt - user
            /\ sp[p].closed = "maxed" => user + issuer = MaxInt

\* No purchase is later than the deadline: block_begin ends every expired
\* crowdsale before a transaction of the block is processed.
NoLateTokens ==
    /\ \A a \in DOMAIN crowds : \A i \in DOMAIN crowds[a].data :
          crowds[a].data[i].time <= crowds[a].deadline
    /\ Running => \A a \in DOMAIN crowds : time <= crowds[a].deadline

\* Every crowdsale ends, with or without purchases, unless the process does: an
\* address that sells is free again, before it can begin another crowdsale.
EverySaleEnds ==
    \A a \in Address : []<>(a \notin DOMAIN crowds \/ ~Running)

\* "Close crowdsale, if we hit MAX_TOKENS": no crowdsale stays open at the limit.
MaxedSaleCloses ==
    \A a \in DOMAIN crowds : getTotalTokens(State, crowds[a].property) < MaxInt
=============================================================================
