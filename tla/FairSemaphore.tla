--------------------------- MODULE FairSemaphore ---------------------------
(***************************************************************************)
(* What the fair scheduler promises, without counters: a set of holders    *)
(* that never exceeds the global limit, nor any team's share of it.        *)
(***************************************************************************)
EXTENDS Integers, FiniteSets

CONSTANTS Execs, Teams, Owner, GlobalMax, TeamMax

VARIABLE holders

HoldersOf(t) == {e \in holders : Owner[e] = t}

Init == holders = {}

Grant(e) ==
    /\ e \notin holders
    /\ Cardinality(holders) < GlobalMax
    /\ Cardinality(HoldersOf(Owner[e])) < TeamMax
    /\ holders' = holders \cup {e}

GiveBack(e) ==
    /\ e \in holders
    /\ holders' = holders \ {e}

Next == \E e \in Execs : Grant(e) \/ GiveBack(e)

Spec == Init /\ [][Next]_holders
=============================================================================
