----------------------------- MODULE ObjectPool -----------------------------
(***************************************************************************)
(* What a checker that creates objects in the cluster promises about them, *)
(* whatever it does to keep the promise: an object is held by the run that *)
(* works with it, a held object is removed by its own run only, every      *)
(* other object is litter that anybody may sweep, and there are never more *)
(* than Cap of them.                                                       *)
(***************************************************************************)
EXTENDS Integers, FiniteSets

CONSTANTS
    Names,      \* names an object may have
    Cap         \* objects that can exist at any one time

VARIABLES
    stored,     \* the objects that exist
    held        \* those a run works with

poolVars == <<stored, held>>

PoolInit == stored = {} /\ held = {}

HasRoom == Cardinality(stored) < Cap

\* A run creates an object and works with it.
Obtain(n) ==
    /\ n \notin stored
    /\ HasRoom
    /\ stored' = stored \cup {n}
    /\ held' = held \cup {n}

\* An object appears that nobody works with, its run having given up on it.
Appear(n) ==
    /\ n \notin stored
    /\ HasRoom
    /\ stored' = stored \cup {n}
    /\ UNCHANGED held

\* A run deletes the object it works with.
Release(n) ==
    /\ n \in held
    /\ stored' = stored \ {n}
    /\ held' = held \ {n}

\* Runs end, or run out of time, without deleting their objects.
Abandon(S) ==
    /\ S \subseteq held
    /\ held' = held \ S
    /\ UNCHANGED stored

\* Litter is removed.
Sweep(n) ==
    /\ n \in stored \ held
    /\ stored' = stored \ {n}
    /\ UNCHANGED held

PoolNext ==
    \/ \E n \in Names : Obtain(n) \/ Appear(n) \/ Release(n) \/ Sweep(n)
    \/ \E S \in SUBSET Names : Abandon(S)

PoolSpec == PoolInit /\ [][PoolNext]_poolVars

=============================================================================
