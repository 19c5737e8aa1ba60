---------------------------- MODULE MCCrowdsale ----------------------------
(***************************************************************************)
(* A small instance of Crowdsale.  Property 1 is divisible, property 2 is  *)
(* indivisible and managed, and address 1 has just begun to sell property  *)
(* 3 for property 1.  A week has two units of time.                        *)
(***************************************************************************)
EXTENDS Crowdsale

\* Rounding in both shares and an early bird bonus.
SaleForFirst ==
    [num_tokens |-> 3, desired |-> 1, deadline |-> 1, early_bird |-> 10, percentage |-> 5]

\* A sale for tokens that are granted; a percentage may exceed 100.
SaleForSecond ==
    [num_tokens |-> 1, desired |-> 2, deadline |-> 1, early_bird |-> 0, percentage |-> 20]

SomeSales == {SaleForFirst, SaleForSecond}

ThreeProperties ==
    <<[NewSP("fixed", 1, TRUE) EXCEPT !.num_tokens = 4],
      NewSP("managed", 1, FALSE),
      SaleForFirst @@ NewSP("crowdsale", 1, FALSE)>>

OneCrowd == 1 :> NewCrowd(3, SaleForFirst)

FourTokens == <<<<1, 3>>, <<0, 0>>, <<0, 0>>, <<0, 0>>>>
============================================================================
