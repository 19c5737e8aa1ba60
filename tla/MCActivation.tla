---------------------------- MODULE MCActivation ----------------------------
(***************************************************************************)
(* Instances of Activation: feature 1 is live from the start, feature 2    *)
(* waits for its activation, and this client has no feature 3.             *)
(***************************************************************************)
EXTENDS Activation

OneIsLive == (1 :> 0) @@ (2 :> Never)

AllForGood == [f \in Feature |-> Never]

\* Feature 2 is switched off the way SEND_TO_MANY and NFTS are.
TwoReturns == (1 :> Never) @@ (2 :> 4)

Foundation == [Activation |-> {"board"}, Deactivation |-> {"board"}]

Activations(features, blocks, outdated) ==
    [type : {"Activation"}, sender : {"board"}, feature : features, at : blocks,
     outdated : outdated]

Deactivations(features, senders) ==
    [type : {"Deactivation"}, sender : senders, feature : features, at : {0}, outdated : {FALSE}]

SomeTxs ==
    UNION {Activations({1}, {4}, {FALSE}),
           Activations({2}, {3}, {FALSE}),
           Activations({2, 3}, {3}, {TRUE}),
           Deactivations({1, 2}, {"board"}),
           Deactivations({1}, {"other"})}
=============================================================================
