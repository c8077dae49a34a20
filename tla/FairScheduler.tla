--------------------------- MODULE FairScheduler ---------------------------
(***************************************************************************)
(* The fair scheduler under those who call it: the request and the worker  *)
(* that take and give back the slot of one execution; the reapers and the  *)
(* deletion of a conversation, which end an execution and give its slot    *)
(* back although it may still run; and cleanup_stale_slots, which runs     *)
(* every minute beside them and after every boot.  The cleanup is not      *)
(* atomic: it awaits Redis, the database and Redis again, and each await   *)
(* is a point where the others run.                                        *)
(***************************************************************************)
EXTENDS SlotStore, FiniteSets

CONSTANTS
    Owner,      \* the user an execution belongs to
    Cleaners,   \* the places that call cleanup_stale_slots
    Endable,    \* bound: executions that a reaper or a deletion may end
    Expirable   \* bound: executions that may outlive slot_ttl

ASSUME OwnerAssumption == Owner \in [Execs -> Teams]
ASSUME BoundsAssumption == Endable \subseteq Execs /\ Expirable \subseteq Execs
ASSUME ExecsAssumption == IsFiniteSet(Execs) /\ {"idle", "query", "loop"} \cap Execs = {}

VARIABLES
    row,      \* the execution's row as other sessions see it
    client,   \* where the execution is between create and release
    other,    \* who else is ending it: a reaper, a deletion, or nobody
    at,       \* per cleanup: the await it is at
    members,  \* per cleanup: what it has read and not yet dealt with
    slotData, \* per cleanup: the slot key it has just read
    charged,  \* history: acquired and not released by anyone since
    surplus   \* history: releases of what was not charged

clientVars == <<row, client, other>>
cleanerVars == <<at, members, slotData>>
history == <<charged, surplus>>
vars == <<slotVars, clientVars, cleanerVars, history>>

\* Mistake: the cleanup asks for deleted rows only.
IsStaleIfDeleted(e) == row[e] = "absent"

\* What the batch query returns that makes a member stale: no row, or a row in
\* COMPLETED, FAILED or STOPPED.
IsStale(e) == row[e] \in {"absent", "terminal"}

TypeOK ==
    /\ SlotTypeOK
    /\ row \in [Execs -> {"absent", "active", "terminal"}]
    /\ client \in [Execs -> {"new", "created", "denied", "held", "finished",
                             "released", "gave_up"}]
    /\ other \in [Execs -> {"none", "reaped", "deleting", "done"}]
    /\ at \in [Cleaners -> {"idle", "query", "loop"} \cup Execs]
    /\ members \in [Cleaners -> SUBSET Execs]
    /\ slotData \in [Cleaners -> Teams \cup {NoTeam}]
    /\ charged \in SUBSET Execs /\ surplus \in Nat

Init ==
    /\ SlotInit
    /\ row = [e \in Execs |-> "absent"]
    /\ client = [e \in Execs |-> "new"]
    /\ other = [e \in Execs |-> "none"]
    /\ at = [c \in Cleaners |-> "idle"]
    /\ members = [c \in Cleaners |-> {}]
    /\ slotData = [c \in Cleaners |-> NoTeam]
    /\ charged = {} /\ surplus = 0

-----------------------------------------------------------------------------
(* One execution's own calls.                                              *)

\* Mistake: the row is flushed, and committed with the dispatch.
CreateUncommitted(e) ==
    /\ client[e] = "new"
    /\ client' = [client EXCEPT ![e] = "created"]
    /\ UNCHANGED <<slotVars, row, other, cleanerVars, history>>

\* The row is committed before acquire is called.
Create(e) ==
    /\ client[e] = "new"
    /\ client' = [client EXCEPT ![e] = "created"]
    /\ row' = [row EXCEPT ![e] = "active"]
    /\ UNCHANGED <<slotVars, other, cleanerVars, history>>

Acquire(e) ==
    /\ client[e] = "created"
    /\ AcquireSlot(Owner[e], e)
    /\ client' = [client EXCEPT ![e] = "held"]
    /\ charged' = charged \cup {e}
    /\ UNCHANGED <<row, other, cleanerVars, surplus>>

\* HTTP 429: the row stays behind, PENDING.
Deny(e) ==
    /\ client[e] = "created"
    /\ AcquireDenied(Owner[e])
    /\ client' = [client EXCEPT ![e] = "denied"]
    /\ UNCHANGED <<row, other, cleanerVars, history>>

\* Whoever releases does not look whether there is anything to give back.
GiveBack(t, e) ==
    /\ ReleaseSlot(t, e)
    /\ charged' = charged \ {e}
    /\ surplus' = IF e \in charged THEN surplus ELSE surplus + 1

\* The worker commits a terminal status, whatever the row has become, then runs its
\* finally block.  A deletion that has begun holds the row's lock.
Finish(e) ==
    /\ client[e] = "held" /\ other[e] # "deleting"
    /\ client' = [client EXCEPT ![e] = "finished"]
    /\ row' = [row EXCEPT ![e] = IF @ = "absent" THEN @ ELSE "terminal"]
    /\ UNCHANGED <<slotVars, other, cleanerVars, history>>

Release(e) ==
    /\ client[e] = "finished"
    /\ GiveBack(Owner[e], e)
    /\ client' = [client EXCEPT ![e] = "released"]
    /\ UNCHANGED <<row, other, cleanerVars>>

\* Three failed attempts, or the process dies before the finally block.
GiveUp(e) ==
    /\ client[e] = "finished"
    /\ client' = [client EXCEPT ![e] = "gave_up"]
    /\ UNCHANGED <<slotVars, row, other, cleanerVars, history>>

-----------------------------------------------------------------------------
(* Others who end it, once per execution: recover_interrupted_executions   *)
(* and cleanup_stale_executions, and delete_conversation.  None of them    *)
(* asks whether it is queued, running, or was refused a slot.              *)

Reap(e) ==
    /\ e \in Endable /\ row[e] = "active" /\ other[e] = "none"
    /\ row' = [row EXCEPT ![e] = "terminal"]
    /\ other' = [other EXCEPT ![e] = "reaped"]
    /\ UNCHANGED <<slotVars, client, cleanerVars, history>>

\* The release comes after the commit; its failure is logged.
ReapRelease(e) ==
    /\ other[e] = "reaped"
    /\ GiveBack(Owner[e], e) \/ UNCHANGED <<slotVars, history>>
    /\ other' = [other EXCEPT ![e] = "done"]
    /\ UNCHANGED <<row, client, cleanerVars>>

\* What is active is marked STOPPED in the deletion's transaction, and its slot given
\* back, before the row goes.
DeleteRelease(e) ==
    /\ e \in Endable /\ row[e] = "active" /\ other[e] = "none"
    /\ GiveBack(Owner[e], e) \/ UNCHANGED <<slotVars, history>>
    /\ other' = [other EXCEPT ![e] = "deleting"]
    /\ UNCHANGED <<row, client, cleanerVars>>

\* The transaction commits, with a row that was over already or with the marked one ...
DeleteRow(e) ==
    /\ row[e] = "terminal" \/ other[e] = "deleting"
    /\ row' = [row EXCEPT ![e] = "absent"]
    /\ other' = [other EXCEPT ![e] = IF @ = "deleting" THEN "done" ELSE @]
    /\ UNCHANGED <<slotVars, client, cleanerVars, history>>

\* ... or is rolled back, without the slot.
DeleteFails(e) ==
    /\ other[e] = "deleting"
    /\ other' = [other EXCEPT ![e] = "done"]
    /\ UNCHANGED <<slotVars, row, client, cleanerVars, history>>

Expire(e) ==
    /\ e \in Expirable
    /\ ExpireSlot(e)
    /\ UNCHANGED <<clientVars, cleanerVars, history>>

-----------------------------------------------------------------------------
(* cleanup_stale_slots, which the worker's job and an administrator's      *)
(* request may run at the same time.                                       *)

\* SMEMBERS; an empty set returns at once.
CleanupScan(c) ==
    /\ at[c] = "idle"
    /\ active # {}
    /\ at' = [at EXCEPT ![c] = "query"]
    /\ members' = [members EXCEPT ![c] = active]
    /\ UNCHANGED <<slotVars, clientVars, slotData, history>>

\* One query for the status of every member; the stale ones are kept.
CleanupQuery(c) ==
    /\ at[c] = "query"
    /\ at' = [at EXCEPT ![c] = "loop"]
    /\ members' = [members EXCEPT ![c] = {e \in @ : IsStale(e)}]
    /\ UNCHANGED <<slotVars, clientVars, slotData, history>>

\* GET the slot key of the next stale member, to learn its team.
CleanupGet(c, e) ==
    /\ at[c] = "loop"
    /\ e \in members[c]
    /\ at' = [at EXCEPT ![c] = e]
    /\ slotData' = [slotData EXCEPT ![c] = slot[e]]
    /\ UNCHANGED <<slotVars, clientVars, members, history>>

NextMember(c, e) ==
    /\ at' = [at EXCEPT ![c] = "loop"]
    /\ members' = [members EXCEPT ![c] = @ \ {e}]
    /\ slotData' = [slotData EXCEPT ![c] = NoTeam]
    /\ UNCHANGED clientVars

CleanupRelease(c, e) ==
    /\ at[c] = e
    /\ slotData[c] # NoTeam
    /\ GiveBack(slotData[c], e)
    /\ NextMember(c, e)

CleanupForget(c, e) ==
    /\ at[c] = e
    /\ slotData[c] = NoTeam
    /\ ForgetSlot(e)
    /\ NextMember(c, e)
    /\ UNCHANGED history

CleanupDone(c) ==
    /\ at[c] = "loop"
    /\ members[c] = {}
    /\ at' = [at EXCEPT ![c] = "idle"]
    /\ UNCHANGED <<slotVars, clientVars, members, slotData, history>>

-----------------------------------------------------------------------------
ClientStep(e) ==
    \/ Create(e) \/ Acquire(e) \/ Deny(e) \/ Finish(e) \/ Release(e)

OtherStep(e) ==
    \/ Reap(e) \/ ReapRelease(e)
    \/ DeleteRelease(e) \/ DeleteRow(e) \/ DeleteFails(e)

CleanupStep(c) ==
    \/ CleanupScan(c) \/ CleanupQuery(c) \/ CleanupDone(c)
    \/ \E e \in Execs : CleanupGet(c, e) \/ CleanupRelease(c, e) \/ CleanupForget(c, e)

Next ==
    \/ \E e \in Execs : ClientStep(e) \/ OtherStep(e) \/ GiveUp(e) \/ Expire(e)
    \/ \E c \in Cleaners : CleanupStep(c)

Spec == Init /\ [][Next]_vars

\* The periodic job is scheduled every 60 seconds for as long as the worker lives.
FairSpec == Spec /\ \A c \in Cleaners : WF_vars(CleanupStep(c))

\* The clients alone: nobody but the holder gives a slot back.
ClientNext == \E e \in Execs : ClientStep(e)
ClientSpec == Init /\ [][ClientNext]_vars

-----------------------------------------------------------------------------
HeldBy(t) == {e \in Execs : client[e] = "held" /\ Owner[e] = t}
ChargedTo(t) == {e \in charged : Owner[e] = t}

(***************************************************************************)
(* The books of the scheduler balance.  The counters never charge for more *)
(* than the executions that took a slot and have not seen it released, so  *)
(* no capacity is lost while somebody still has to release; and they fall  *)
(* below that by one at most for each release of what held none, so that a *)
(* limit is exceeded by no more than such releases.                        *)
(***************************************************************************)
Balanced(counter, holders) ==
    counter <= Cardinality(holders) /\ Cardinality(holders) <= counter + surplus

CountersBalance ==
    Balanced(global, charged) /\ \A t \in Teams : Balanced(team[t], ChargedTo(t))

(***************************************************************************)
(* The cleanup judges by a status it read two awaits ago.  Still what it   *)
(* takes is over at that moment: the row is committed before the slot is   *)
(* taken, and neither the end nor the deletion of a row is undone.  From a *)
(* holder that still runs it takes only what a reaper or a deletion has    *)
(* ended beside it.                                                        *)
(***************************************************************************)
CleanupSparesTheLiving ==
    [][\A c \in Cleaners, e \in Execs :
          CleanupRelease(c, e) \/ CleanupForget(c, e) =>
              IsStale(e) /\ (client[e] = "held" => other[e] # "none")]_vars

(***************************************************************************)
(* A slot whose holder died or gave up on releasing it comes back: the     *)
(* cleanup is what makes the crash of a worker survivable.  The one        *)
(* exception is a key that expired first: ForgetSlot leaves its unit in    *)
(* the counters for ever.                                                  *)
(***************************************************************************)
AbandonedSlotsComeBack ==
    \A e \in Execs : client[e] = "gave_up" ~> e \notin charged \/ slot[e] = NoTeam

(***************************************************************************)
(* scheduler.py, line 3: "Prevents any single team (or user) from          *)
(* monopolizing worker slots."  The executions a team has running never    *)
(* outnumber FAIR_SCHEDULE_MAX_PER_TEAM.                                   *)
(***************************************************************************)
NoTeamMonopolizes == \A t \in Teams : Cardinality(HeldBy(t)) <= TeamMax

(***************************************************************************)
(* Without a second releaser the counters are a faithful implementation of *)
(* a semaphore with shares.                                                *)
(***************************************************************************)
Semaphore == INSTANCE FairSemaphore WITH holders <- charged
ImplementsSemaphore == Semaphore!Spec
=============================================================================
