------------------------------ MODULE FeeCache ------------------------------
(***************************************************************************)
(* The cache of trading fees and its distribution to the owners of OMNI:   *)
(* COmniFeeCache (src/omnicore/dbfees.cpp).                                *)
(*                                                                         *)
(* The operators work on a handler's state d with the fields tally, cached *)
(* (property -> GetCachedAmount), threshold (distributionThresholds) and   *)
(* abort.  The entries of earlier blocks, which only RollBackCache reads,  *)
(* are not kept.                                                           *)
(***************************************************************************)
EXTENDS SendToOwners

CONSTANTS FeeThreshold,  \* OMNI_FEE_THRESHOLD
          TestProperty,  \* the properties of the test ecosystem
          Nobody         \* the pseudo sender "FEEDISTRIBUTION", no address

ASSUME FeeAssumption == /\ FeeThreshold \in Nat \ {0}
                        /\ TestProperty \subseteq Property
                        /\ Nobody \notin Address

OMNI_PROPERTY_MSC  == 1
OMNI_PROPERTY_TMSC == 2

isTestEcosystemProperty(p) == p \in TestProperty

\* getTotalTokens; for a fixed property the code answers the number of tokens
\* issued, which is the same.
getTotalTokens(d, p) == OthersTokens(d.tally, Nobody, p) + d.cached[p]

\* The threshold that goes with a number of tokens.
ThresholdFor(n) == IF n \div FeeThreshold <= 0 THEN 1 ELSE n \div FeeThreshold

UpdateDistributionThresholds(d, p) ==
    [d EXCEPT !.threshold[p] = ThresholdFor(getTotalTokens(d, p))]

\* The assertions in a row that credit every receiver.
Credit(d, p, receivers) ==
    FoldSet(LAMBDA a, e : AssertUpdate(e, {}, a, p, receivers[a], "BALANCE"), d, DOMAIN receivers)

\* All that was cached must have been distributed; the cache is then cleared.
ClearCache(d, p, distributed) ==
    IF d.abort # NoAbort THEN d
    ELSE IF distributed # d.cached[p]
         THEN [d EXCEPT !.abort = "DistributeCache"]
         ELSE [d EXCEPT !.cached[p] = 0]

PayReceivers(d, p, receivers) == ClearCache(Credit(d, p, receivers), p, TotalOf(receivers))

DistributeCache(d, p) ==
    LET owned == IF isTestEcosystemProperty(p) THEN OMNI_PROPERTY_TMSC ELSE OMNI_PROPERTY_MSC
    IN  PayReceivers(d, p, STO_GetReceivers(d.tally, Nobody, owned, d.cached[p]))

\* Variant: the threshold must be exceeded.
EvalCache_Exceeded(d, p) == IF d.cached[p] > d.threshold[p] THEN DistributeCache(d, p) ELSE d

EvalCache(d, p) == IF d.cached[p] >= d.threshold[p] THEN DistributeCache(d, p) ELSE d

\* Variant: the amount cached so far is forgotten.
AddFee_Overwrite(d, p, amount) ==
    IF d.abort # NoAbort THEN d ELSE EvalCache([d EXCEPT !.cached[p] = amount], p)

\* A cache that would overflow stops the node.
AddFee(d, p, amount) ==
    IF d.abort # NoAbort THEN d
    ELSE IF d.cached[p] > 0 /\ amount > MaxInt - d.cached[p]
         THEN [d EXCEPT !.abort = "AddFee"]
         ELSE EvalCache([d EXCEPT !.cached[p] = @ + amount], p)

\* The number of tokens of p has changed.
NotifyTotalTokensChanged(d, p, fees) ==
    LET e == UpdateDistributionThresholds(d, p)
    IN  IF d.abort # NoAbort THEN d ELSE IF fees THEN EvalCache(e, p) ELSE e
=============================================================================
