------------------------------ MODULE DExEscrow ------------------------------
(* The distributed exchange as an implementation of an escrow. *)
EXTENDS DEx

\* The tokens all addresses have in one tally.
Tokens(t, type) == [k \in OfferKey |-> t[<<k[1], k[2], type>>]]

\* What is free is the BALANCE, what is on offer the SELLOFFER_RESERVE, and what
\* is promised to a buyer is what remains of the accept in my_accepts.
Free     == Tokens(tally, "BALANCE")
Offered  == Tokens(tally, "SELLOFFER_RESERVE")
Promised == [k \in AcceptKey |-> Remaining(k)]

E == INSTANCE Escrow WITH free <- Free, offered <- Offered, promised <- Promised

\* With the exact arithmetic of DEXMATH, every step of the exchange (an offer
\* made, replaced or cancelled, an accept, a payment, an expiry) is one step of
\* the escrow or none: no handler moves tokens in another way, and the amounts
\* the accepts keep are those the tallies moved.
ImplementsEscrow == E!Spec
=============================================================================
