-------------------------- MODULE MCStateSnapshots --------------------------
(***************************************************************************)
(* Instances of StateSnapshots for TLC.                                    *)
(***************************************************************************)
EXTENDS StateSnapshots

\* "a" creates a property, "b" freezes an address.
Labels == {"a", "b"}

\* A scan may end early.
ScanStops == {{"stop in scan"}}

\* The process may die, but not in the middle of a rewind.
Crashes == {{"crash"}}

\* No faults; deaths except in a rewind, and interrupted reorganisations; deaths anywhere.
NoneOrCrash == {{}, {"crash", "stop in reorganisation"}, {"crash", "crash in rewind"}}
=============================================================================
