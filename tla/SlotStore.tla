----------------------------- MODULE SlotStore -----------------------------
(***************************************************************************)
(* The Redis keys of the fair scheduler and the two Lua scripts that are   *)
(* the only atomic updates of them (engine/server/src/executions/          *)
(* scheduler.py).  A script runs atomically on the Redis server, so each   *)
(* is one action here; what happens between two scripts is the business of *)
(* the modules that extend this one.                                       *)
(***************************************************************************)
EXTENDS Integers

CONSTANTS
    Execs,      \* execution ids
    Teams,      \* team ids; every caller passes its user id as the team
    NoTeam,     \* "the slot key does not exist"
    GlobalMax,  \* FAIR_SCHEDULE_GLOBAL_MAX
    TeamMax     \* FAIR_SCHEDULE_MAX_PER_TEAM

ASSUME NoTeamAssumption == NoTeam \notin Teams
ASSUME LimitAssumption == GlobalMax \in Nat \ {0} /\ TeamMax \in Nat \ {0}

VARIABLES
    global,   \* scheduler:global
    team,     \* scheduler:team:{t}, for every t
    slot,     \* scheduler:slot:{e}: the team that holds the slot, or NoTeam
    active    \* scheduler:active_slots

slotVars == <<global, team, slot, active>>

SlotTypeOK ==
    /\ global \in Nat
    /\ team \in [Teams -> Nat]
    /\ slot \in [Execs -> Teams \cup {NoTeam}]
    /\ active \in SUBSET Execs

SlotInit ==
    /\ global = 0
    /\ team = [t \in Teams |-> 0]
    /\ slot = [e \in Execs |-> NoTeam]
    /\ active = {}

(***************************************************************************)
(* _ACQUIRE_LUA.  The script increments first and takes the increment back *)
(* when a limit is passed; atomically that is a test and an increment.     *)
(***************************************************************************)
\* Mistake: the limit compared before the increment it is meant for.
HasRoomOffByOne(t) == global <= GlobalMax /\ team[t] <= TeamMax

HasRoom(t) == global + 1 <= GlobalMax /\ team[t] + 1 <= TeamMax

\* Mistake: the SADD is forgotten.
AcquireUntracked(t, e) ==
    /\ HasRoom(t)
    /\ global' = global + 1
    /\ team' = [team EXCEPT ![t] = @ + 1]
    /\ slot' = [slot EXCEPT ![e] = t]
    /\ UNCHANGED active

AcquireSlot(t, e) ==
    /\ HasRoom(t)
    /\ global' = global + 1
    /\ team' = [team EXCEPT ![t] = @ + 1]
    /\ slot' = [slot EXCEPT ![e] = t]
    /\ active' = active \cup {e}

AcquireDenied(t) ==
    /\ ~HasRoom(t)
    /\ UNCHANGED slotVars

(***************************************************************************)
(* _RELEASE_LUA.  It asks neither whether e holds a slot nor which team    *)
(* took it: a second release of one execution takes another's unit away.   *)
(***************************************************************************)
\* Mistake: DECR without the correction of a negative result.
DecrUnclamped(n) == n - 1

DecrClamped(n) == IF n > 0 THEN n - 1 ELSE 0

\* Mistake: the team's counter is forgotten.
ReleaseGlobalOnly(t, e) ==
    /\ slot' = [slot EXCEPT ![e] = NoTeam]
    /\ active' = active \ {e}
    /\ global' = DecrClamped(global)
    /\ UNCHANGED team

ReleaseSlot(t, e) ==
    /\ slot' = [slot EXCEPT ![e] = NoTeam]
    /\ active' = active \ {e}
    /\ global' = DecrClamped(global)
    /\ team' = [team EXCEPT ![t] = DecrClamped(@)]

\* The slot key was SET with EX slot_ttl; nothing ever renews it.
ExpireSlot(e) ==
    /\ slot[e] # NoTeam
    /\ slot' = [slot EXCEPT ![e] = NoTeam]
    /\ UNCHANGED <<global, team, active>>

\* SREM alone: what the cleanup does for a member whose slot key has expired.
ForgetSlot(e) ==
    /\ active' = active \ {e}
    /\ UNCHANGED <<global, team, slot>>

(***************************************************************************)
(* The keys the Lua scripts count in stay inside the configured limits, so *)
(* a caller is never turned away by a counter that ran past its maximum.   *)
(***************************************************************************)
WithinLimits == global <= GlobalMax /\ \A t \in Teams : team[t] <= TeamMax

(***************************************************************************)
(* Whatever still has a slot key is a member of active_slots: the cleanup, *)
(* which enumerates only that set, can reach every slot there is.          *)
(***************************************************************************)
SlotsAreTracked == \A e \in Execs : slot[e] # NoTeam => e \in active
=============================================================================
