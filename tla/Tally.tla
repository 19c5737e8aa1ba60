-------------------------------- MODULE Tally --------------------------------
(***************************************************************************)
(* Token balances: CMPTally (src/omnicore/tally.cpp) and update_tally_map  *)
(* (src/omnicore/omnicore.cpp), the one door through which every handler   *)
(* changes them.                                                           *)
(*                                                                         *)
(* mp_tally_map, a map from addresses to maps from properties to five      *)
(* int64 counters, is a total function over <<address, property, type>>: a *)
(* missing entry reads as 0 in CMPTally::getMoney.                         *)
(*                                                                         *)
(* Handlers wrap most updates in assert().  The process state a handler    *)
(* works on is a record with (at least) the fields tally and abort; abort  *)
(* names the first assertion that failed, after which nothing is executed. *)
(***************************************************************************)
EXTENDS Integers

CONSTANTS Address,   \* addresses that occur in transactions
          Property,  \* property identifiers
          MaxInt     \* std::numeric_limits<int64_t>::max()

ASSUME MaxIntAssumption == MaxInt \in Nat

TallyType ==
    {"BALANCE", "SELLOFFER_RESERVE", "ACCEPT_RESERVE", "PENDING", "METADEX_RESERVE"}

TallyKey == Address \X Property \X TallyType

MinInt == -MaxInt - 1

Int64 == MinInt .. MaxInt

\* What a tally may hold: only pending amounts may be negative.
Tallies == {t \in [TallyKey -> Int64] : \A k \in TallyKey : k[3] # "PENDING" => t[k] >= 0}

\* The value an int64_t takes when it is assigned the unsigned 64-bit value u.
ToInt64(u) == IF u > MaxInt THEN u - 2 * (MaxInt + 1) ELSE u

\* DivideAndRoundUp, on naturals with b > 0.
DivideAndRoundUp(a, b) == IF a = 0 THEN 0 ELSE 1 + (a - 1) \div b

isOverflow(a, b) ==
    \/ b > 0 /\ a > MaxInt - b
    \/ b < 0 /\ a < MinInt - b

\* The condition under which updateMoney changes the tally and returns true.
updateMoneySucceeds(t, k, amount) ==
    /\ amount # 0
    /\ ~isOverflow(t[k], amount)
    /\ k[3] = "PENDING" \/ t[k] + amount >= 0

NoAbort == "none"

\* assert(update_tally_map(who, propertyId, amount, ttype)) executed in state d.
\* frozen is the set of <<address, property>> pairs isAddressFrozen answers yes for.
AssertUpdate(d, frozen, who, propertyId, amount, ttype) ==
    LET k == <<who, propertyId, ttype>>
    IN  IF d.abort # NoAbort
        THEN d
        ELSE IF /\ updateMoneySucceeds(d.tally, k, amount)
                /\ ~(ttype = "BALANCE" /\ amount < 0 /\ <<who, propertyId>> \in frozen)
             THEN [d EXCEPT !.tally[k] = @ + amount]
             ELSE [d EXCEPT !.abort = "update_tally_map"]

\* The pair of asserted updates that moves tokens from one tally to another.
Move(d, frozen, from, to, propertyId, fromType, toType, amount) ==
    AssertUpdate(AssertUpdate(d, frozen, from, propertyId, -amount, fromType),
                 frozen, to, propertyId, amount, toType)
=============================================================================
