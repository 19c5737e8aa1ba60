----------------------------- MODULE MCFreezing -----------------------------
(***************************************************************************)
(* Instances of Freezing: addresses 1 (the creator) and 2, properties 1    *)
(* (whose rights change hands) and 2 (held, and frozen by its issuer).     *)
(***************************************************************************)
EXTENDS Freezing

OneEach == [a \in Address, p \in Property |-> IF a = 2 THEN 1 ELSE 0]

Of(type, senders, receivers, properties) ==
    [type : {type}, sender : senders, receiver : receivers, property : properties]

\* The creator enables freezing at the start of block 1.
EnabledFirst ==
    <<1, 1>> :> [type |-> "EnableFreezing", sender |-> 1, receiver |-> 0, property |-> 1]

SomeTxs ==
    UNION {Of("EnableFreezing", {1}, {0}, {1}),
           Of("DisableFreezing", {1}, {0}, {1}),
           Of("FreezeTokens", {1}, {2}, {1}),
           Of("FreezeTokens", {2}, {1}, {1}),
           Of("UnfreezeTokens", {1}, {2}, {1}),
           Of("ChangeIssuer", {1}, {2}, {1}),
           Of("AddDelegate", {1}, {2}, {1}),
           Of("RemoveDelegate", {2}, {2}, {1}),
           Of("SendAll", {2}, {1}, {1})}
=============================================================================
