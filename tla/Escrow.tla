------------------------------- MODULE Escrow -------------------------------
(***************************************************************************)
(* What the distributed exchange promises of the tokens it is given: a     *)
(* seller puts tokens on offer, some of them are promised to a buyer, and  *)
(* what is promised is delivered to that buyer or released to the seller.  *)
(* Prices, payment windows, fees, features and freezes only decide which   *)
(* of these steps happens.                                                 *)
(***************************************************************************)
EXTENDS Integers

CONSTANTS Address, Property,
          Supply     \* the tokens an address starts with

VARIABLES free,      \* the tokens an address may use
          offered,   \* the tokens it has on offer
          promised   \* the tokens of a seller that are promised to a buyer

vars == <<free, offered, promised>>

Init ==
    /\ free = Supply
    /\ offered = [k \in Address \X Property |-> 0]
    /\ promised = [k \in Address \X Property \X Address |-> 0]

\* A seller has n tokens on offer from now on.
Reoffer(s, p, n) ==
    /\ free' = [free EXCEPT ![<<s, p>>] = @ + offered[<<s, p>>] - n]
    /\ offered' = [offered EXCEPT ![<<s, p>>] = n]
    /\ UNCHANGED promised

\* Tokens on offer are promised to a buyer who waits for no others of this seller.
Promise(s, p, b, n) ==
    /\ promised[<<s, p, b>>] = 0
    /\ offered' = [offered EXCEPT ![<<s, p>>] = @ - n]
    /\ promised' = [promised EXCEPT ![<<s, p, b>>] = n]
    /\ UNCHANGED free

\* The buyer receives promised tokens.
Deliver(s, p, b, n) ==
    /\ promised' = [promised EXCEPT ![<<s, p, b>>] = @ - n]
    /\ free' = [free EXCEPT ![<<b, p>>] = @ + n]
    /\ UNCHANGED offered

\* A promise ends, and what is left of it goes back on offer or to the seller.
Release(s, p, b) ==
    /\ promised[<<s, p, b>>] > 0
    /\ promised' = [promised EXCEPT ![<<s, p, b>>] = 0]
    /\ \/ /\ offered' = [offered EXCEPT ![<<s, p>>] = @ + promised[<<s, p, b>>]]
          /\ UNCHANGED free
       \/ /\ free' = [free EXCEPT ![<<s, p>>] = @ + promised[<<s, p, b>>]]
          /\ UNCHANGED offered

Next ==
    \E s \in Address, p \in Property :
        \/ \E n \in 0 .. free[<<s, p>>] + offered[<<s, p>>] : Reoffer(s, p, n)
        \/ \E b \in Address :
              \/ \E n \in 1 .. offered[<<s, p>>] : Promise(s, p, b, n)
              \/ \E n \in 1 .. promised[<<s, p, b>>] : Deliver(s, p, b, n)
              \/ Release(s, p, b)

Spec == Init /\ [][Next]_vars
=============================================================================
