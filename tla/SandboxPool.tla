----------------------------- MODULE SandboxPool -----------------------------
(***************************************************************************)
(* The gateway's SandboxManager: one container per execution, made on the  *)
(* first command that needs one, used under a lock per execution and one   *)
(* semaphore for Docker, removed when the engine releases the execution or *)
(* when a sweep finds it idle.  Every wait is a step of its own, because   *)
(* the dictionaries are read before the awaits and used after them.  When  *)
(* no container is to be had a command runs directly in the gateway.  The  *)
(* composition with the approvals is the module Gateway.                   *)
(***************************************************************************)
EXTENDS Naturals, FiniteSets

CONSTANTS
    Calls,            \* tool calls that reach the gateway
    Executions,
    Payloads,         \* what the calls may be: a set of functions from calls to payloads
    MaxActive,        \* SANDBOX_MAX_ACTIVE
    Nobody

ASSUME PoolAssumption ==
    /\ Payloads \subseteq [Calls -> [execution : Executions, kind : {"file", "shell", "asking"}]]
    /\ MaxActive \in Nat \ {0} /\ Nobody \notin Calls \cup Executions

VARIABLES
    payload,     \* per call: its execution; whether it writes files, runs a shell
                 \* command, or one that needs an approval
    active,      \* _active
    docker,      \* executions with a container of their name in Docker
    client,      \* _docker is set: Docker has been reached once
    semaphore,   \* _docker_sem: the call that holds it, or Nobody
    work,        \* per call: where its command is
    at,          \* per call: the lock it waits for or holds; 0 none, 1 the one in
                 \* _locks, more: one that was dropped from _locks in the meantime
    early,       \* file calls in the router's own acquire_or_reuse
    ran,         \* per call: how often its command was started
    removing,    \* containers popped from _active and not yet removed
    stray,       \* threads that still make a container nobody waits for
    cooling,     \* the pause after a sandbox failed
    sweep,       \* cleanup_stale: its list, and the one it is releasing
    overlapped,  \* executions whose container was made while another one was
    mishaps      \* executions that had a container fail to be made or removed

jobs == <<work, at, early, ran>>
poolVars == <<payload, active, docker, client, semaphore, jobs, removing, stray, cooling, sweep,
              overlapped, mishaps>>

ExecutionOf(c) == payload[c].execution
FileCalls == {c \in Calls : payload[c].kind = "file"}
Resting == [on |-> FALSE, todo |-> {}, current |-> Nobody]

PoolTypeOK ==
    /\ payload \in Payloads
    /\ active \cup docker \subseteq Executions
    /\ at \in [Calls -> 0..2 * Cardinality(Calls)]
    /\ \A c \in Calls : at[c] > 0 <=> work[c] \in {"lock", "create"}
    /\ work \in [Calls -> {"none", "lock", "create", "semaphore", "gone", "run", "direct", "done"}]
    /\ semaphore = (IF \E c \in Calls : work[c] = "run"
                    THEN CHOOSE c \in Calls : work[c] = "run" ELSE Nobody)
    /\ early \subseteq FileCalls /\ ran \in [Calls -> 0..2]
    /\ removing \cup stray \cup overlapped \cup mishaps \subseteq Executions
    /\ active \cup removing \subseteq docker /\ active \cap removing = {}
    /\ sweep.on \in BOOLEAN /\ sweep.todo \subseteq Executions
    /\ sweep.current \in Executions \cup {Nobody} /\ {cooling, client} \subseteq BOOLEAN

PoolInit ==
    /\ payload \in Payloads
    /\ active = {} /\ docker = {} /\ client \in BOOLEAN /\ at = [c \in Calls |-> 0]
    /\ semaphore = Nobody /\ removing = {} /\ stray = {}
    /\ work = [c \in Calls |-> "none"] /\ ran = [c \in Calls |-> 0]
    /\ early = FileCalls /\ cooling = FALSE /\ sweep = Resting
    /\ overlapped = {} /\ mishaps = {}

Making == {ExecutionOf(c) : c \in {d \in Calls : work[d] = "create"}}

GoesTo(c, place, l) ==
    /\ work' = [work EXCEPT ![c] = place]
    /\ at' = [at EXCEPT ![c] = l]
Starts(c) == ran' = [ran EXCEPT ![c] = @ + 1]  \* the command itself

-----------------------------------------------------------------------------
(* acquire_or_reuse, exec_hybrid and exec_in_sandbox.                      *)

\* The command runs in the gateway itself.
Direct(c) == GoesTo(c, "direct", 0) /\ Starts(c)

\* Without a sandbox the command runs directly, and for a while nobody tries to
\* get one; a file call whose first try failed tries again.
Fallback(c) ==
    \/ /\ c \in early
       /\ early' = early \ {c} /\ GoesTo(c, "none", 0)
       /\ UNCHANGED <<ran, cooling>>
    \/ /\ c \notin early
       /\ Direct(c) /\ cooling' = TRUE
       /\ UNCHANGED early

\* The sandbox is there: exec_hybrid ends the pause and waits for Docker; a file
\* call comes to exec_hybrid only now, and the pause may keep it from the sandbox.
Found(c) ==
    /\ early' = early \ {c}
    /\ IF cooling /\ c \in early
       THEN Direct(c) /\ UNCHANGED cooling
       ELSE GoesTo(c, "semaphore", 0) /\ cooling' = FALSE /\ UNCHANGED ran

Use(c) == Found(c) /\ UNCHANGED <<active, overlapped>>

\* The pause after a failure: the command does not try to get a sandbox.
Skip(c) ==
    /\ work[c] = "none" /\ cooling /\ c \notin early
    /\ Direct(c)
    /\ UNCHANGED <<payload, active, docker, client, semaphore, early, removing, stray,
                   cooling, sweep,
                   overlapped, mishaps>>

Tries(c) == work[c] = "none" /\ (~cooling \/ c \in early)

\* The fast path, without the lock.
Reuse(c) ==
    /\ Tries(c) /\ ExecutionOf(c) \in active
    /\ Use(c)
    /\ UNCHANGED <<payload, docker, client, semaphore, removing, stray, sweep, mishaps>>

\* The lock of an execution is made when there is none: one that nobody uses is as
\* good as none.
Users(e, l) == {c \in Calls : ExecutionOf(c) = e /\ at[c] = l}

WaitForLock(c) ==
    /\ Tries(c) /\ ExecutionOf(c) \notin active /\ Users(ExecutionOf(c), 1) # {}
    /\ GoesTo(c, "lock", 1)
    /\ UNCHANGED <<payload, active, docker, client, semaphore, early, ran, removing, stray,
                   cooling, sweep,
                   overlapped, mishaps>>

HasRoomOffByOne == Cardinality(active) <= MaxActive \* Mistake: one sandbox too many.
HasRoom == Cardinality(active) < MaxActive

GrantedIfListed(c) == \* Mistake: the waiters are looked up in _locks.
    at[c] = 1 /\ work[c] = "lock" /\ \A d \in Users(ExecutionOf(c), 1) : work[d] # "create"
Granted(c) == work[c] = "lock" /\ \A d \in Users(ExecutionOf(c), at[c]) : work[d] # "create"

\* Docker cannot be reached for the first time: unlike the failures of a client that is
\* there, that is an error of the call and not a reason to run the command directly.
Unreachable(c) ==
    /\ ~client /\ client' \in BOOLEAN
    /\ GoesTo(c, "done", 0) /\ early' = early \ {c}
    /\ UNCHANGED <<active, ran, cooling, overlapped>>

\* With the lock in hand: look again, then the limit, then Docker.
Locked(c) ==
    LET e == ExecutionOf(c)
    IN  /\ \/ Granted(c)
           \/ Tries(c) /\ e \notin active /\ Users(e, 1) = {}
        /\ \/ e \in active /\ Use(c) /\ UNCHANGED client
           \/ /\ e \notin active /\ ~HasRoom
              /\ Fallback(c)
              /\ UNCHANGED <<active, client, overlapped>>
           \/ e \notin active /\ HasRoom /\ Unreachable(c)
           \/ /\ e \notin active /\ HasRoom
              /\ client' = TRUE
              /\ GoesTo(c, "create", IF work[c] = "lock" THEN at[c] ELSE 1)
              /\ overlapped' = overlapped \cup (IF Making = {} THEN {} ELSE Making \cup {e})
              /\ UNCHANGED <<active, early, ran, cooling>>
        /\ UNCHANGED <<payload, docker, semaphore, removing, stray, sweep, mishaps>>

\* Docker has made the container.
Created(c) ==
    LET e == ExecutionOf(c)
    IN  /\ work[c] = "create" /\ e \notin docker
        /\ docker' = docker \cup {e}
        /\ active' = active \cup {e}
        /\ Found(c)
        /\ UNCHANGED <<payload, client, semaphore, removing, stray, sweep, overlapped, mishaps>>

\* There still is a container of that name.
NameTaken(c) ==
    /\ work[c] = "create" /\ ExecutionOf(c) \in docker
    /\ Fallback(c)
    /\ UNCHANGED <<payload, active, docker, client, semaphore, removing, stray, sweep,
                   overlapped, mishaps>>

\* Docker is too slow: nobody waits for the thread any longer, but it goes on.
CreateTimesOut(c) ==
    /\ work[c] = "create"
    /\ stray' = stray \cup {ExecutionOf(c)}
    /\ mishaps' = mishaps \cup {ExecutionOf(c)}
    /\ Fallback(c)
    /\ UNCHANGED <<payload, active, docker, client, semaphore, removing, sweep, overlapped>>

StrayCreated(e) ==
    /\ e \in stray /\ stray' = stray \ {e}
    /\ docker' = docker \cup {e}
    /\ UNCHANGED <<payload, active, client, semaphore, jobs, removing, cooling, sweep,
                   overlapped, mishaps>>

\* The command runs in the container, if that is still there.
Run(c) ==
    /\ work[c] = "semaphore" /\ semaphore = Nobody
    /\ semaphore' = c
    /\ GoesTo(c, "run", 0) /\ Starts(c)
    /\ UNCHANGED <<payload, active, docker, client, early, removing, stray, cooling, sweep,
                   overlapped, mishaps>>

Gone(c) ==
    /\ work[c] = "gone" /\ semaphore = Nobody
    /\ GoesTo(c, "done", 0)
    /\ UNCHANGED <<payload, active, docker, client, semaphore, early, ran, removing, stray,
                   cooling, sweep,
                   overlapped, mishaps>>

Ends(c) ==
    /\ work[c] \in {"run", "direct"}
    /\ semaphore' = IF work[c] = "run" THEN Nobody ELSE semaphore
    /\ GoesTo(c, "done", 0)
    /\ UNCHANGED <<payload, active, docker, client, early, ran, removing, stray, cooling, sweep,
                   overlapped, mishaps>>

\* execute_shell has waited long enough and cancels whatever the command is at;
\* a file call only gives up a command that takes too long.  What already runs goes
\* on in its thread and its container, and nobody waits for it any longer.
Abandon(c) ==
    /\ work[c] \in IF c \in FileCalls THEN {"run"}
                   ELSE {"lock", "create", "semaphore", "gone", "run"}
    /\ LET made == {e \in {ExecutionOf(c)} : work[c] = "create"}
       IN  stray' = stray \cup made /\ mishaps' = mishaps \cup made
    /\ UNCHANGED <<payload, active, docker, client, early, removing, cooling, sweep, overlapped>>
LetGo(c) == semaphore' = IF work[c] = "run" THEN Nobody ELSE semaphore

CutOffHolding(c) == \* Mistake: the semaphore is not given back.
    Abandon(c) /\ UNCHANGED <<semaphore, ran>> /\ GoesTo(c, "done", 0)
CutOffRetried(c) == \* Mistake: the time limit counts as a sandbox that is not there.
    Abandon(c) /\ LetGo(c) /\ Direct(c)
CutOff(c) == Abandon(c) /\ LetGo(c) /\ UNCHANGED ran /\ GoesTo(c, "done", 0)

-----------------------------------------------------------------------------
(* release, the sweep of idle sandboxes, and the start of the gateway.     *)

\* The locks of E leave _locks; who waits for one or holds it goes on with it.
DropLocks(E) ==
    at' = [c \in Calls |-> IF ExecutionOf(c) \in E /\ Users(ExecutionOf(c), 1) # {} /\ at[c] > 0
                           THEN at[c] + 1 ELSE at[c]]

\* The tables forget the sandbox at once, its container is removed later.
Forget(e) ==
    /\ active' = active \ {e}
    /\ DropLocks({e})
    /\ removing' = removing \cup ({e} \cap active)
    /\ overlapped' = IF e \in active \ Making THEN overlapped \ {e} ELSE overlapped

Release(e) ==
    /\ Forget(e)
    /\ UNCHANGED <<payload, docker, client, semaphore, work, early, ran, stray, cooling,
                   sweep, mishaps>>

Removed(e) ==
    /\ docker' = docker \ {e}
    /\ work' = [c \in Calls |-> IF work[c] = "semaphore" /\ ExecutionOf(c) = e
                                THEN "gone" ELSE work[c]]

RemoveAtOnce(e) == e \in removing /\ Removed(e) \* Mistake: without the semaphore.
RemoveWhenFree(e) == e \in removing /\ semaphore = Nobody /\ Removed(e)

Remove(e) ==
    /\ RemoveWhenFree(e)
    /\ removing' = removing \ {e}
    /\ sweep' = IF sweep.current = e THEN [sweep EXCEPT !.current = Nobody] ELSE sweep
    /\ UNCHANGED <<payload, active, client, semaphore, at, early, ran, stray, cooling,
                   overlapped, mishaps>>

\* Docker does not remove the container in time, and nobody tries again.
RemoveFails(e) ==
    /\ e \in removing /\ semaphore = Nobody
    /\ removing' = removing \ {e}
    /\ mishaps' = mishaps \cup {e}
    /\ sweep' = IF sweep.current = e THEN [sweep EXCEPT !.current = Nobody] ELSE sweep
    /\ UNCHANGED <<payload, active, docker, client, semaphore, jobs, stray, cooling, overlapped>>

\* cleanup_stale first lists the sandboxes whose last_used is too long ago ...
SweepStarts(old) ==
    /\ ~sweep.on
    /\ sweep' = [on |-> TRUE, todo |-> old, current |-> Nobody]
    /\ UNCHANGED <<payload, active, docker, client, semaphore, jobs, removing, stray,
                   cooling, overlapped, mishaps>>

\* What is not used any longer is found some day.
SweepFinds(e) == \E old \in SUBSET active : e \in old /\ SweepStarts(old)

SweepForgets(e) == \* Mistake: the container is dropped from the table only.
    /\ e \in sweep.todo
    /\ active' = active \ {e} /\ DropLocks({e})
    /\ sweep' = [sweep EXCEPT !.todo = @ \ {e}]
    /\ UNCHANGED <<payload, docker, client, semaphore, work, early, ran, removing, stray,
                   cooling, overlapped, mishaps>>

\* ... releases what is on it, used again in the meantime or not ...
SweepReleases(e) ==
    /\ e \in sweep.todo /\ sweep.current = Nobody
    /\ Forget(e)
    /\ sweep' = [sweep EXCEPT !.todo = @ \ {e}, !.current = IF e \in active THEN e ELSE Nobody]
    /\ UNCHANGED <<payload, docker, client, semaphore, work, early, ran, stray, cooling, mishaps>>

\* ... and deletes every lock without a sandbox, held or not.
SweepEnds ==
    /\ sweep.on /\ sweep.todo = {} /\ sweep.current = Nobody
    /\ DropLocks(Executions \ active)
    /\ sweep' = Resting
    /\ UNCHANGED <<payload, active, docker, client, semaphore, work, early, ran, removing,
                   stray, cooling,
                   overlapped, mishaps>>

CoolDown ==
    /\ cooling /\ cooling' = FALSE
    /\ UNCHANGED <<payload, active, docker, client, semaphore, jobs, removing, stray,
                   sweep, overlapped, mishaps>>

\* The gateway starts again: it knows nothing, and cleanup_orphaned removes the
\* containers of its label, those that were being made included, except for `left`.
Containers == docker \cup Making \cup stray

PoolRestart(left) ==
    /\ active' = {}
    /\ docker' = left /\ mishaps' = left /\ client' \in BOOLEAN
    /\ semaphore' = Nobody /\ removing' = {} /\ stray' = {}
    /\ work' = [c \in Calls |-> IF work[c] = "none" THEN "none" ELSE "done"]
    /\ at' = [c \in Calls |-> 0]
    /\ cooling' = FALSE /\ sweep' = Resting /\ overlapped' = {}
    /\ UNCHANGED <<payload, early, ran>>

Command(c) ==
    \/ Skip(c) \/ Reuse(c) \/ WaitForLock(c) \/ Locked(c) \/ Created(c) \/ NameTaken(c)
    \/ Run(c) \/ Gone(c) \/ Ends(c)

-----------------------------------------------------------------------------
(* Properties.                                                             *)

\* PoolIsBounded: there are more sandboxes than the limit only by as many as were
\* being made side by side; the limit is read before the wait for Docker
\* (acquire_or_reuse, manager.py:160).
PoolIsBounded ==
    LET extra == Cardinality(overlapped)
    IN  Cardinality(active) <= MaxActive + (IF extra = 0 THEN 0 ELSE extra - 1)

\* NothingIsKilledInFlight: no container is removed under a command that runs in it
\* and that somebody waits for, whoever releases it and whichever list it was on
\* (release and exec_in_sandbox share _docker_sem).
NothingIsKilledInFlight == \A c \in Calls : work[c] = "run" => ExecutionOf(c) \in docker

\* CommandsRunOnce: a command is started at most once, the fallback and the second
\* try of a file call included (exec_hybrid).
CommandsRunOnce == \A c \in Calls : ran[c] <= 1

\* LeaksHaveACause: a container nobody keeps track of is one that Docker was too
\* slow to make or to remove (acquire_or_reuse, release, cleanup_stale).
LeaksHaveACause == docker \ (active \cup removing) \subseteq mishaps

\* PoolComesToRest: once no more calls come, every command ends, whatever lock or
\* semaphore it waits for, and every sandbox is taken out of the table and removed
\* or given up, also one that was made after its execution was released.
PoolComesToRest ==
    <>[](active \cup removing = {} /\ \A c \in Calls : work[c] \in {"none", "done"})
=============================================================================
