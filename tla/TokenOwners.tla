----------------------------- MODULE TokenOwners -----------------------------
(***************************************************************************)
(* What the database of non-fungible tokens promises, without ranges, keys *)
(* or undo records: every token has an owner, tokens are numbered from 1   *)
(* in the order of their grants, a send moves a run of tokens of one owner *)
(* and a return to an earlier block restores the owners of that block.     *)
(***************************************************************************)
EXTENDS Sequences, Integers

CONSTANTS Address,  \* the possible owners
          Limit     \* the highest token number

VARIABLES owner,    \* owner[t]: who owns token t
          past      \* past[n]: the owners at the end of the n-th block, 1 for the state at the start

vars == <<owner, past>>

Init == owner = <<>> /\ past = << <<>> >>

\* n new tokens for a, after the ones owned before.
Grant(before, a, n) ==
    /\ Len(before) + n <= Limit
    /\ owner' = before \o [i \in 1 .. n |-> a]

\* The tokens s .. e, all of them of one owner, go to another.
Send(before, to, s, e) ==
    /\ \A t \in s .. e : before[t] = before[s]
    /\ owner' = [t \in DOMAIN before |-> IF t \in s .. e THEN to ELSE before[t]]

EndBlock == past' = Append(past, owner) /\ UNCHANGED owner

\* Back to the end of block n.
Return(n) ==
    /\ owner' = past[n]
    /\ past' = SubSeq(past, 1, n)

Next ==
    \/ /\ UNCHANGED past
       /\ \E before \in {owner}, a \in Address :
             \/ \E n \in 1 .. Limit : Grant(before, a, n)
             \/ \E s \in DOMAIN before : \E e \in s .. Len(before) : Send(before, a, s, e)
    \/ EndBlock
    \/ \E n \in DOMAIN past : Return(n)

Spec == Init /\ [][Next]_vars
=============================================================================
