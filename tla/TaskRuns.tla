------------------------------ MODULE TaskRuns ------------------------------
(***************************************************************************)
(* What becomes of a scheduled task that fires: a run and an execution are *)
(* created in one transaction and the execution is queued after it; the    *)
(* worker runs it, writes the verdict into the run and then performs the   *)
(* post-actions (a comment, a merge, a webhook).  Around it: a crash and   *)
(* the recovery at boot, the stale job, the handler's timeout, errors of   *)
(* Redis and of the database.                                              *)
(*                                                                         *)
(* The slots are those of the fair scheduler (SlotStore).  A firing takes  *)
(* none, and the worker gives one back all the same.                       *)
(***************************************************************************)
EXTENDS SlotStore, Sequences, FiniteSets, FiniteSetsExt

CONSTANTS
    Runs,             \* runs of scheduled tasks, and their executions
    Others,           \* executions of users, which do acquire a slot
    Platform,         \* the team of the runs: "platform-service"
    Owner,            \* the team of a user's execution: the user
    MaxCrashes, MaxFaults  \* bounds

ASSUME ExecsAssumption ==
    /\ Execs = Runs \cup Others /\ Runs \cap Others = {} /\ IsFiniteSet(Execs)
    /\ Platform \in Teams /\ Owner \in [Others -> Teams \ {Platform}]
ASSUME BoundsAssumption == MaxCrashes \in Nat /\ MaxFaults \in Nat

VARIABLES
    worker,    \* "up" or "down"
    run,       \* scheduled_task_runs: the status of each run
    exec,      \* the status of its execution
    sending,   \* runs created by a trigger that has not queued the execution yet
    gone,      \* runs whose task has been deleted
    queue,     \* tasks:executions, the message being handled first
    handler,   \* where graph_execution_handler is, and the verdict it will write
    picked,    \* executions the stale job has selected
    hooked,    \* how often each run's post-actions were performed
    disturbed, \* runs whose course something other than their handler cut short
    other,     \* executions of users: "new", "held", "released" early, "over"
    excess,    \* units of the limit given back by executions that held none
    crashes, faults

rowVars == <<run, exec, gone>>
workVars == <<queue, handler, picked, hooked>>
userVars == <<other, slotVars, excess>>
vars == <<worker, rowVars, sending, workVars, disturbed, userVars, crashes, faults>>

NoWork == [pc |-> "idle", verdict |-> "none", raise |-> FALSE]

TypeOK ==
    /\ worker \in {"down", "up"}
    /\ run \in [Runs -> {"none", "running", "completed", "failed", "skipped"}]
    /\ exec \in [Runs -> {"none", "pending", "completed", "failed", "stopped"}]
    /\ sending \subseteq Runs /\ gone \subseteq Runs
    /\ queue \in Seq(Runs)
    /\ handler \in [pc : {"idle", "running", "verdict", "hooks", "expire", "release"},
                    verdict : {"none", "completed", "failed", "skipped"}, raise : BOOLEAN]
    /\ picked \subseteq Runs /\ disturbed \subseteq Runs
    /\ hooked \in [Runs -> 0..2]
    /\ other \in [Others -> {"new", "held", "released", "over"}]
    /\ SlotTypeOK /\ excess \in 0..Cardinality(Others)
    /\ crashes \in 0..MaxCrashes /\ faults \in 0..MaxFaults

Init ==
    /\ worker = "up"
    /\ run = [r \in Runs |-> "none"] /\ exec = [r \in Runs |-> "none"]
    /\ sending = {} /\ gone = {} /\ queue = <<>> /\ handler = NoWork
    /\ picked = {} /\ hooked = [r \in Runs |-> 0] /\ disturbed = {}
    /\ other = [u \in Others |-> "new"] /\ SlotInit /\ excess = 0
    /\ crashes = 0 /\ faults = 0

-----------------------------------------------------------------------------
(* execute_trigger, and what the user does to the task meanwhile.          *)

\* One transaction inserts the execution and the run; runs are named in the order
\* they are created ...
CreateRun(r) ==
    /\ worker = "up" /\ run[r] = "none"
    /\ r = CHOOSE first \in Runs : run[first] = "none"
    /\ run' = [run EXCEPT ![r] = "running"] /\ exec' = [exec EXCEPT ![r] = "pending"]
    /\ sending' = sending \cup {r}
    /\ UNCHANGED <<worker, gone, workVars, disturbed, userVars, crashes, faults>>

\* Mistake: the trigger returns without a message on the stream.
EnqueueNothing(r) ==
    /\ r \in sending
    /\ sending' = sending \ {r}
    /\ UNCHANGED <<worker, rowVars, workVars, disturbed, userVars, crashes, faults>>

\* ... and the execution is queued after it, without a slot.
Enqueue(r) ==
    /\ r \in sending
    /\ queue' = Append(queue, r) /\ sending' = sending \ {r}
    /\ UNCHANGED <<worker, rowVars, handler, picked, hooked, disturbed, userVars, crashes, faults>>

\* The exception of Redis is logged, and nothing queues the execution again.
EnqueueFails(r) ==
    /\ r \in sending /\ faults < MaxFaults
    /\ faults' = faults + 1
    /\ sending' = sending \ {r} /\ disturbed' = disturbed \cup {r}
    /\ UNCHANGED <<worker, rowVars, workVars, userVars, crashes>>

\* delete_task leaves the run and takes its task away.
TaskDeleted(r) ==
    /\ run[r] # "none" /\ r \notin gone
    /\ gone' = gone \cup {r}
    /\ UNCHANGED <<worker, run, exec, sending, workVars, disturbed, userVars, crashes, faults>>

-----------------------------------------------------------------------------
(* The slots.                                                              *)

\* How many units a release of e gives back that e did not hold.
Unheld(e) == IF slot[e] = NoTeam /\ global > 0 THEN 1 ELSE 0

Release(tm, e) == ReleaseSlot(tm, e) /\ excess' = excess + Unheld(e)

UserAcquire(u) ==
    /\ other[u] = "new"
    /\ AcquireSlot(Owner[u], u)
    /\ other' = [other EXCEPT ![u] = "held"]
    /\ UNCHANGED <<worker, rowVars, sending, workVars, disturbed,
                   excess, crashes, faults>>

\* The finally clause of a user's execution; after a restart it is the second.
UserRelease(u) ==
    /\ other[u] \in {"held", "released"} /\ worker = "up"
    /\ Release(Owner[u], u)
    /\ other' = [other EXCEPT ![u] = "over"]
    /\ UNCHANGED <<worker, rowVars, sending, workVars, disturbed, crashes, faults>>

-----------------------------------------------------------------------------
(* The worker: graph_execution_handler and what it does for the run.       *)

Job == Head(queue)
At(pc) == worker = "up" /\ queue # <<>> /\ handler.pc = pc

\* Mistake: a redelivered message runs its execution again.
TakeAgain ==
    /\ At("idle")
    /\ handler' = [handler EXCEPT !.pc = "running"]
    /\ UNCHANGED <<worker, rowVars, sending, queue, picked, hooked,
                   disturbed, userVars, crashes, faults>>

\* An execution that is over is skipped.
Take ==
    /\ At("idle")
    /\ handler' = [handler EXCEPT !.pc = IF exec[Job] = "pending" THEN "running" ELSE "release"]
    /\ UNCHANGED <<worker, rowVars, sending, queue, picked, hooked,
                   disturbed, userVars, crashes, faults>>

\* service.execute turns most exceptions into a complete event: the loop ends
\* as it does for a success, and the verdict is "completed".
Verdicts == {[status |-> "completed", verdict |-> "completed", raise |-> FALSE],
             [status |-> "failed", verdict |-> "completed", raise |-> FALSE],
             [status |-> "stopped", verdict |-> "skipped", raise |-> FALSE],
             [status |-> "failed", verdict |-> "failed", raise |-> TRUE]}

Finish ==
    /\ At("running")
    /\ \E v \in Verdicts :
         /\ exec' = [exec EXCEPT ![Job] = v.status]
         /\ handler' = [pc |-> "verdict", verdict |-> v.verdict, raise |-> v.raise]
    /\ UNCHANGED <<worker, run, gone, sending, queue, picked, hooked,
                   disturbed, userVars, crashes, faults>>

\* Mistake: update_scheduled_task_run is left out after a cancellation.
WriteVerdictOrSkip ==
    /\ At("verdict")
    /\ run' = IF handler.verdict = "skipped" THEN run ELSE [run EXCEPT ![Job] = handler.verdict]
    /\ handler' = [handler EXCEPT !.pc = CASE handler.verdict = "completed" -> "hooks"
                                           [] handler.raise -> "release"
                                           [] OTHER -> "expire"]
    /\ UNCHANGED <<worker, exec, gone, sending, queue, picked, hooked,
                   disturbed, userVars, crashes, faults>>

\* update_scheduled_task_run commits the status of the run ...
WriteVerdict ==
    /\ At("verdict")
    /\ run' = [run EXCEPT ![Job] = handler.verdict]
    /\ handler' = [handler EXCEPT !.pc = CASE handler.verdict = "completed" -> "hooks"
                                           [] handler.raise -> "release"
                                           [] OTHER -> "expire"]
    /\ UNCHANGED <<worker, exec, gone, sending, queue, picked, hooked,
                   disturbed, userVars, crashes, faults>>

\* ... or the database fails, which it logs.
VerdictLost ==
    /\ At("verdict") /\ faults < MaxFaults
    /\ faults' = faults + 1 /\ disturbed' = disturbed \cup {Job}
    /\ handler' = [handler EXCEPT !.pc = IF handler.raise THEN "release" ELSE "expire"]
    /\ UNCHANGED <<worker, rowVars, sending, queue, picked, hooked,
                   userVars, crashes>>

\* The post-actions of a run that is "completed", if its task is still there.
RunHooks ==
    /\ At("hooks")
    /\ hooked' = IF Job \notin gone THEN [hooked EXCEPT ![Job] = @ + 1] ELSE hooked
    /\ handler' = [handler EXCEPT !.pc = "expire"]
    /\ UNCHANGED <<worker, rowVars, sending, queue, picked,
                   disturbed, userVars, crashes, faults>>

Expire ==
    /\ At("expire")
    /\ handler' = [handler EXCEPT !.pc = "release"]
    /\ UNCHANGED <<worker, rowVars, sending, queue, picked, hooked,
                   disturbed, userVars, crashes, faults>>

\* Redis fails on the EXPIRE of the stream: the except clause takes an execution
\* that is over, whatever its end, for one that failed.
ExpireFails ==
    /\ At("expire") /\ faults < MaxFaults
    /\ faults' = faults + 1
    /\ exec' = [exec EXCEPT ![Job] = "failed"]
    /\ handler' = [pc |-> "verdict", verdict |-> "failed", raise |-> TRUE]
    /\ UNCHANGED <<worker, run, gone, sending, queue, picked, hooked,
                   disturbed, userVars, crashes>>

\* The handler's own timeout cancels it at any await.
TimeOut ==
    /\ worker = "up" /\ queue # <<>> /\ handler.pc \in {"running", "verdict", "hooks", "expire"}
    /\ faults < MaxFaults
    /\ faults' = faults + 1 /\ disturbed' = disturbed \cup {Job}
    /\ exec' = [exec EXCEPT ![Job] = "failed"]
    /\ handler' = [NoWork EXCEPT !.pc = "release"]
    /\ UNCHANGED <<worker, run, gone, sending, queue, picked, hooked,
                   userVars, crashes>>

\* The finally clause releases a slot nobody took; a message whose handler
\* raised goes to the end of the stream, and it is acknowledged.
EndHandler ==
    /\ At("release")
    /\ Release(Platform, Job)
    /\ queue' = IF handler.raise THEN Append(Tail(queue), Job) ELSE Tail(queue)
    /\ handler' = NoWork
    /\ UNCHANGED <<worker, rowVars, sending, picked, hooked,
                   disturbed, other, crashes, faults>>

\* cleanup_stale_executions selects what has been PENDING for too long; while
\* the handler runs, that is the status others see ...
StalePick(r) ==
    /\ worker = "up" /\ exec[r] = "pending" /\ r \notin picked
    /\ faults < MaxFaults /\ faults' = faults + 1
    /\ picked' = picked \cup {r}
    /\ UNCHANGED <<worker, rowVars, sending, queue, handler, hooked,
                   disturbed, userVars, crashes>>

\* ... and writes when it gets the lock of the row, over whatever is there.
StaleFail(r) ==
    /\ r \in picked /\ ~(At("running") /\ Job = r)
    /\ picked' = picked \ {r} /\ disturbed' = disturbed \cup {r}
    /\ exec' = [exec EXCEPT ![r] = "failed"]
    /\ Release(Platform, r)
    /\ UNCHANGED <<worker, run, gone, sending, queue, handler, hooked,
                   other, crashes, faults>>

-----------------------------------------------------------------------------
(* Crash and restart.                                                      *)

Crash ==
    /\ worker # "down" /\ crashes < MaxCrashes
    /\ worker' = "down" /\ crashes' = crashes + 1
    /\ sending' = {} /\ handler' = NoWork /\ picked' = {}
    /\ disturbed' = disturbed \cup {r \in Runs : run[r] = "running"}
                      \cup IF handler.pc = "idle" THEN {} ELSE {Job}
    /\ UNCHANGED <<rowVars, queue, hooked, userVars, faults>>

\* recover_interrupted_executions fails what is PENDING and releases its slot,
\* held or not; it knows nothing of runs.
Restart ==
    LET interrupted == {r \in Runs : exec[r] = "pending"}
        holders == {u \in Others : other[u] = "held"}
        minus(n, s) == Max({0, n - Cardinality(s)})
    IN  /\ worker = "down"
        /\ worker' = "up"
        /\ exec' = [r \in Runs |-> IF r \in interrupted THEN "failed" ELSE exec[r]]
        /\ other' = [u \in Others |-> IF u \in holders THEN "released" ELSE other[u]]
        /\ global' = minus(global, interrupted \cup holders)
        /\ team' = [tm \in Teams |->
                       minus(team[tm], IF tm = Platform THEN interrupted
                                       ELSE {u \in holders : Owner[u] = tm})]
        /\ slot' = [e \in Execs |-> IF e \in interrupted \cup holders THEN NoTeam ELSE slot[e]]
        /\ active' = active \ (interrupted \cup holders)
        /\ excess' = excess + Min({global, Cardinality(interrupted)})
        /\ UNCHANGED <<run, gone, sending, workVars, disturbed, crashes, faults>>

-----------------------------------------------------------------------------
Trigger(r) == CreateRun(r) \/ Enqueue(r) \/ EnqueueFails(r) \/ TaskDeleted(r)

Handler == Take \/ Finish \/ WriteVerdict \/ VerdictLost \/ RunHooks \/ Expire \/ ExpireFails
             \/ TimeOut \/ EndHandler

Next ==
    \/ \E r \in Runs : Trigger(r) \/ StalePick(r) \/ StaleFail(r)
    \/ \E u \in Others : UserAcquire(u) \/ UserRelease(u)
    \/ Handler \/ Crash \/ Restart

Spec == Init /\ [][Next]_vars

(***************************************************************************)
(* The worker runs: its coroutines get their turn, an execution ends       *)
(* within its timeout, and Docker starts the process again.                *)
(***************************************************************************)
Fairness ==
    /\ WF_vars(Restart) /\ WF_vars(Handler)
    /\ \A r \in Runs : WF_vars(Enqueue(r) \/ EnqueueFails(r))

FairSpec == Spec /\ Fairness

-----------------------------------------------------------------------------
(***************************************************************************)
(* The verdict of a run agrees with the end of its execution, once the     *)
(* handler is through, unless the run is one of those whose row somebody   *)
(* else wrote or whose handler was cut short.  A failed execution may      *)
(* count as a completed run (update_scheduled_task_run).                   *)
(***************************************************************************)
InHand(r) == queue # <<>> /\ Job = r /\ handler.pc # "idle"

RunTellsTheOutcome ==
    \A r \in Runs \ disturbed : ~InHand(r) =>
        run[r] \in CASE exec[r] = "none" -> {"none"}
                     [] exec[r] = "pending" -> {"running"}
                     [] exec[r] = "completed" -> {"completed"}
                     [] exec[r] = "stopped" -> {"skipped"}
                     [] exec[r] = "failed" -> {"failed", "completed"}

(***************************************************************************)
(* A pull request is merged, a webhook called, at most once for a run,     *)
(* whatever is redelivered after a crash or an error.                      *)
(***************************************************************************)
PostActionsRunOnce == \A r \in Runs : hooked[r] <= 1

(***************************************************************************)
(* More executions hold a slot than the limit allows only to the extent    *)
(* that executions which never acquired one have given one back.           *)
(***************************************************************************)
OveradmissionIsPaidFor ==
    Cardinality({e \in Execs : slot[e] # NoTeam}) <= GlobalMax + excess

(***************************************************************************)
(* A run does not stay "running", except where the worker, Redis or the    *)
(* database failed it, a timeout hit it, or the stale job took it.         *)
(***************************************************************************)
RunsAreClosed ==
    \A r \in Runs : run[r] = "running" ~> run[r] # "running" \/ r \in disturbed
=============================================================================
