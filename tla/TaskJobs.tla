------------------------------ MODULE TaskJobs ------------------------------
(***************************************************************************)
(* When a scheduled task fires: the rows the user edits, with PATCHes that *)
(* overlap; sync_jobs, which makes the jobs of APScheduler follow the rows *)
(* at boot and after a poll of the platform; the timers and the trigger    *)
(* stream, which call execute_trigger side by side.  The API and the       *)
(* worker are different processes: what the API calls after an edit to     *)
(* have the jobs synchronised finds no runner and does nothing.  What      *)
(* becomes of a firing is the business of TaskRuns.                        *)
(***************************************************************************)
EXTENDS Naturals, Sequences, FiniteSets, Functions, FiniteSetsExt

CONSTANTS
    Tasks,            \* task ids
    Born,             \* ... of them those that are there at the start
    Editors,          \* requests that PATCH a task
    NoTask,
    PlatformSync,     \* PLATFORM_SYNC_ENABLED
    MaxRuns,          \* bound on the runs of all tasks
    MaxEvents         \* bound on what the user and misfortune do, together

ASSUME TasksAssumption ==
    /\ Born \subseteq Tasks /\ {NoTask, "stream"} \cap Tasks = {}
    /\ IsFiniteSet(Tasks) /\ IsFiniteSet(Editors)
ASSUME TaskBoundsAssumption == {MaxRuns, MaxEvents} \subseteq Nat

VARIABLES
    row,       \* scheduled_tasks: the columns the scheduling depends on
    edit,      \* per editor: what it has read and will write over
    clashed,   \* tasks with two PATCHes that overlapped
    jobs,      \* _active_jobs, with the arguments of the job
    timer,     \* the tasks APScheduler will fire
    snapshot,  \* the rows sync_jobs has read and not yet acted on
    stable,    \* tasks whose row nobody has written since sync_jobs last read it
    worker,    \* "down", "boot" or "up"
    trigger,   \* per caller of execute_trigger: where it is, for what
    asked,     \* the trigger stream, the message being handled first
    runs,      \* how many runs each task has had while it was a one-shot
    events,    \* how much of MaxEvents is used
    excuses    \* why a one-shot may run more often: two for an edit, one for a run it
               \* was not disabled after

apiVars == <<row, edit, clashed, stable>>
jobVars == <<jobs, timer, snapshot>>
workVars == <<worker, trigger, runs>>
counts == <<events, excuses>>
vars == <<apiVars, jobVars, workVars, asked, counts>>

Kinds == {"interval", "one_shot", "manual"}  \* schedule_type
Params == {"interval", "one_shot"}  \* interval_value and interval_unit, scheduled_at

\* given: the parameters that have a value; schedule: the edition of this value; past:
\* scheduled_at is over.
Unborn == [state |-> "unborn", kind |-> "manual", given |-> {}, enabled |-> FALSE,
           version |-> 0, schedule |-> 0, past |-> FALSE]
Fresh(kind, given, on) ==
    [Unborn EXCEPT !.state = "live", !.kind = kind, !.given = given, !.enabled = on, !.version = 1]

\* What _add_job returns without a job for: an interval without its value or unit, a
\* one-shot without its date.  (An interval of 0 is no value, and a schedule_type that is
\* none of the three, which a PATCH does not refuse, is like one.)
Schedulable(r) == r.kind = "manual" \/ r.kind \in r.given

\* One more event, with n more excuses.
Event(n) == events < MaxEvents /\ events' = events + 1 /\ excuses' = excuses + n
Live(t) == row[t].state = "live"

Changes == {"enable", "disable", "reschedule"} \cup Kinds
NoEdit == [task |-> NoTask, version |-> 0, change |-> "none"]
NoJob == [version |-> 0, kind |-> "manual", schedule |-> 0]
Closed == [open |-> FALSE, rows |-> [t \in Tasks |-> Unborn]]
Idle == [pc |-> "idle", task |-> NoTask]
Callers == Tasks \cup {"stream"}

RowType == [state : {"unborn", "live", "deleted"}, kind : Kinds, given : SUBSET Params,
            enabled : BOOLEAN, version : 0..MaxEvents + 1, schedule : 0..MaxEvents, past : BOOLEAN]

TypeOK ==
    /\ row \in [Tasks -> RowType] /\ stable \subseteq Tasks
    /\ snapshot.open \in BOOLEAN /\ snapshot.rows \in [Tasks -> RowType]
    /\ edit \in [Editors -> [task : Tasks \cup {NoTask}, version : 0..MaxEvents,
                             change : Changes \cup {"none"}]]
    /\ clashed \subseteq Tasks
    /\ jobs \in [Tasks -> [version : 0..MaxEvents + 1, kind : Kinds, schedule : 0..MaxEvents]]
    /\ timer \subseteq {t \in Tasks : jobs[t] # NoJob}
    /\ worker \in {"down", "boot", "up"}
    /\ trigger \in [Callers -> [pc : {"idle", "read", "create", "mark"},
                                task : Tasks \cup {NoTask}]]
    /\ asked \in Seq(Tasks) /\ Len(asked) <= MaxEvents
    /\ runs \in [Tasks -> 0..MaxRuns]
    /\ events \in 0..MaxEvents /\ excuses \in 0..(1 + Cardinality(Callers)) * events

Init ==
    /\ \E kind \in Kinds, on \in BOOLEAN : \E given \in SUBSET ({kind} \cap Params) :
         row = [t \in Tasks |-> IF t \in Born THEN Fresh(kind, given, on) ELSE Unborn]
    /\ snapshot = Closed /\ stable = {}
    /\ edit = [p \in Editors |-> NoEdit] /\ clashed = {}
    /\ jobs = [t \in Tasks |-> NoJob] /\ timer = {} /\ worker = "boot"
    /\ trigger = [c \in Callers |-> Idle] /\ asked = <<>>
    /\ runs = [t \in Tasks |-> 0]
    /\ events = 0 /\ excuses = 0

-----------------------------------------------------------------------------
(* The API.                                                                *)

\* Somebody writes the row of t.
Write(t, new) ==
    /\ row' = [row EXCEPT ![t] = new]
    /\ stable' = stable \ {t}

\* Nothing asks for the parameter of the kind.
Create(t, kind, given, on) ==
    /\ row[t].state = "unborn" /\ Event(0)
    /\ Write(t, Fresh(kind, given, on))
    /\ UNCHANGED <<edit, clashed, jobVars, workVars, asked>>

Duplicate(t, copy) ==
    /\ Live(t) /\ row[copy].state = "unborn" /\ Event(0)
    /\ Write(copy, [row[t] EXCEPT !.enabled = FALSE, !.version = 1])
    /\ UNCHANGED <<edit, clashed, jobVars, workVars, asked>>

Delete(t) ==
    /\ Live(t) /\ Event(0)
    /\ Write(t, [row[t] EXCEPT !.state = "deleted"])
    /\ UNCHANGED <<edit, clashed, jobVars, workVars, asked>>

\* A column that is given the value it was read with is not written.
Writes(old, change) ==
    CASE change = "enable" -> ~old.enabled
      [] change = "disable" -> old.enabled
      [] change \in Kinds -> old.kind # change
      [] OTHER -> TRUE

\* update_task reads the row without a lock ...
BeginUpdate(p, t, change) ==
    /\ edit[p].task = NoTask /\ Live(t) /\ Event(2)
    /\ edit' = [edit EXCEPT ![p] =
                   [task |-> t, version |-> row[t].version,
                    change |-> IF Writes(row[t], change) THEN change ELSE "none"]]
    /\ clashed' = IF \E q \in Editors : edit[q].task = t THEN clashed \cup {t} ELSE clashed
    /\ UNCHANGED <<row, stable, jobVars, workVars, asked>>

\* ... and writes the version it read plus one and the columns it has changed.  A new
\* kind comes without its parameter.
Changed(old, e) ==
    LET new == [old EXCEPT !.version = e.version + 1]
    IN  CASE e.change = "enable" -> [new EXCEPT !.enabled = TRUE]
          [] e.change = "disable" -> [new EXCEPT !.enabled = FALSE]
          [] e.change = "reschedule" ->
               [new EXCEPT !.given = @ \cup ({old.kind} \cap Params), !.schedule = @ + 1,
                           !.past = @ /\ old.kind # "one_shot"]
          [] e.change \in Kinds -> [new EXCEPT !.kind = e.change]
          [] OTHER -> new

CommitUpdate(p) ==
    LET t == edit[p].task
    IN  /\ t # NoTask
        /\ IF Live(t) THEN Write(t, Changed(row[t], edit[p])) ELSE UNCHANGED <<row, stable>>
        /\ edit' = [edit EXCEPT ![p] = NoEdit]
        /\ UNCHANGED <<clashed, jobVars, workVars, asked, counts>>

\* POST /trigger puts the task on the stream, enabled or not.
Trigger(t) ==
    /\ Live(t) /\ Event(0)
    /\ asked' = Append(asked, t)
    /\ UNCHANGED <<apiVars, jobVars, workVars>>

-----------------------------------------------------------------------------
(* The jobs.                                                               *)

\* sync_jobs reads every row: at boot, and after each poll of the platform ...
SyncRead ==
    /\ worker = "boot" \/ (worker = "up" /\ PlatformSync)
    /\ ~snapshot.open
    /\ snapshot' = [open |-> TRUE, rows |-> [t \in Tasks |->
                       IF Live(t) /\ row[t].enabled THEN row[t] ELSE Unborn]]
    /\ stable' = Tasks
    /\ UNCHANGED <<row, edit, clashed, jobs, timer, workVars, asked, counts>>

Wanted(t) == snapshot.rows[t] # Unborn

\* Mistake: a task that has a job keeps it.
OutdatedIfMissing(t) == Wanted(t) /\ jobs[t] = NoJob

Outdated(t) == Wanted(t) /\ jobs[t].version # snapshot.rows[t].version

AddJob(r) ==
    IF Schedulable(r) THEN [version |-> r.version, kind |-> r.kind, schedule |-> r.schedule]
                      ELSE NoJob

\* A date that has passed is given to APScheduler, which finds it missed.
Armed(r) == Schedulable(r) /\ (r.kind = "interval" \/ (r.kind = "one_shot" /\ ~r.past))

Keeps(t) == t \in timer /\ Wanted(t)

\* ... and then, without an await, makes the jobs follow them.
SyncApply ==
    /\ snapshot.open
    /\ jobs' = [t \in Tasks |-> CASE ~Wanted(t) -> NoJob
                                  [] Outdated(t) -> AddJob(snapshot.rows[t])
                                  [] OTHER -> jobs[t]]
    /\ timer' = {t \in Tasks : IF Outdated(t) THEN Armed(snapshot.rows[t]) ELSE Keeps(t)}
    /\ snapshot' = Closed
    /\ worker' = "up"
    /\ UNCHANGED <<apiVars, trigger, runs, asked, counts>>

\* The job is a date, the one the row has.
Due(t) == jobs[t].kind = "one_shot" /\ jobs[t].schedule = row[t].schedule

\* scheduled_at comes while no timer waits for it.
DatePasses(t) ==
    /\ "one_shot" \in row[t].given /\ Live(t) /\ ~row[t].past
    /\ ~(t \in timer /\ Due(t))
    /\ row' = [row EXCEPT ![t].past = TRUE]
    /\ UNCHANGED <<edit, clashed, stable, jobVars, workVars, asked, counts>>

\* A bound on the runs, those about to be created included.
Room == SumFunction(runs) + Cardinality({c \in Callers : trigger[c].pc \in {"read", "create"}}) < MaxRuns

\* APScheduler calls execute_trigger, one instance per job; a date is used up.
Fire(t) ==
    /\ worker = "up" /\ t \in timer /\ trigger[t].pc = "idle"
    /\ Room
    /\ trigger' = [trigger EXCEPT ![t] = [pc |-> "read", task |-> t]]
    /\ timer' = IF jobs[t].kind = "one_shot" THEN timer \ {t} ELSE timer
    /\ row' = IF Due(t) THEN [row EXCEPT ![t].past = TRUE] ELSE row
    /\ UNCHANGED <<edit, clashed, stable, jobs, snapshot, worker, runs, asked, counts>>

\* The consumer of the trigger stream calls it too, next to the timers.
Consume ==
    /\ worker = "up" /\ asked # <<>> /\ trigger["stream"].pc = "idle" /\ Room
    /\ trigger' = [trigger EXCEPT !["stream"] = [pc |-> "read", task |-> Head(asked)]]
    /\ UNCHANGED <<apiVars, jobVars, worker, runs, asked, counts>>

-----------------------------------------------------------------------------
(* execute_trigger.                                                        *)

\* It returns: the caller is idle again, the consumer acknowledges.
Return(c) ==
    /\ trigger' = [trigger EXCEPT ![c] = Idle]
    /\ asked' = IF c = "stream" THEN Tail(asked) ELSE asked

\* The task is read again here, and only an enabled one goes on ...
ReadTask(c) ==
    /\ trigger[c].pc = "read"
    /\ LET t == trigger[c].task
       IN  IF Live(t) /\ row[t].enabled
           THEN trigger' = [trigger EXCEPT ![c].pc = "create"] /\ UNCHANGED asked
           ELSE Return(c)
    /\ UNCHANGED <<apiVars, jobVars, worker, runs, counts>>

\* Mistake: a commit whose answer is lost is made again, and again a run is created.
CreateRunAgain(c) ==
    /\ trigger[c].pc = "create" /\ Live(trigger[c].task)
    /\ runs' = [runs EXCEPT ![trigger[c].task] = IF row[trigger[c].task].kind = "one_shot"
                                                 THEN @ + 1 ELSE @]
    /\ trigger' \in {trigger, [trigger EXCEPT ![c].pc = "mark"]}
    /\ UNCHANGED <<apiVars, jobVars, worker, asked, counts>>

\* ... to a transaction that creates the execution and the run; a task deleted
\* in between violates its foreign key, and the exception ends the trigger.
CreateRun(c) ==
    /\ trigger[c].pc = "create"
    /\ LET t == trigger[c].task
       IN  IF Live(t)
           THEN /\ trigger' = [trigger EXCEPT ![c].pc = "mark"] /\ UNCHANGED asked
                /\ runs' = [runs EXCEPT ![t] = IF row[t].kind = "one_shot" THEN @ + 1 ELSE @]
           ELSE Return(c) /\ UNCHANGED runs
    /\ UNCHANGED <<apiVars, jobVars, worker, counts>>

\* The execution is then queued; an exception there ends the trigger too.
EnqueueFails(c) ==
    /\ trigger[c].pc = "mark" /\ Event(1)
    /\ Return(c)
    /\ UNCHANGED <<apiVars, jobVars, worker, runs>>

\* last_run_at, and a one-shot is disabled, which leaves its version as it is.
MarkRun(c) ==
    /\ trigger[c].pc = "mark"
    /\ LET t == trigger[c].task
       IN  IF Live(t) /\ row[t].kind = "one_shot"
           THEN Write(t, [row[t] EXCEPT !.enabled = FALSE]) ELSE UNCHANGED <<row, stable>>
    /\ Return(c)
    /\ UNCHANGED <<edit, clashed, jobVars, worker, runs, counts>>

-----------------------------------------------------------------------------
(* Crash and restart: jobs, timers and triggers are in memory alone.       *)

Crash ==
    /\ worker # "down"
    /\ Event(Cardinality({c \in Callers : trigger[c].pc = "mark"}))
    /\ worker' = "down"
    /\ trigger' = [c \in Callers |-> Idle]
    /\ jobs' = [t \in Tasks |-> NoJob] /\ timer' = {}
    /\ snapshot' = Closed
    /\ UNCHANGED <<apiVars, runs, asked>>

Restart ==
    /\ worker = "down"
    /\ worker' = "boot"
    /\ UNCHANGED <<apiVars, jobVars, trigger, runs, asked, counts>>

-----------------------------------------------------------------------------
\* All of them but the end of a PATCH are events.
Api ==
    \/ /\ events < MaxEvents
       /\ \E t \in Tasks :
            \/ \E kind \in Kinds, on \in BOOLEAN :
                 \E given \in SUBSET ({kind} \cap Params) : Create(t, kind, given, on)
            \/ \E copy \in Tasks : Duplicate(t, copy)
            \/ Delete(t)
            \/ Trigger(t)
            \/ \E p \in Editors, change \in Changes : BeginUpdate(p, t, change)
    \/ \E p \in Editors : CommitUpdate(p)

Sync == SyncRead \/ SyncApply

ExecuteTrigger(c) == ReadTask(c) \/ CreateRun(c) \/ EnqueueFails(c) \/ MarkRun(c)

Next ==
    \/ Api \/ Sync \/ Consume \/ Crash \/ Restart
    \/ \E t \in Tasks : DatePasses(t) \/ Fire(t)
    \/ \E c \in Callers : ExecuteTrigger(c)

Spec == Init /\ [][Next]_vars

-----------------------------------------------------------------------------
(***************************************************************************)
(* When no row has changed since sync_jobs read it, there is a job for     *)
(* exactly the enabled tasks that have what their kind asks for, of that   *)
(* kind and with the schedule of the row, and an interval's timer is set.  *)
(* The version that tells a changed row from an unchanged one counts two   *)
(* PATCHes that overlap as one: nothing is said of a task that had them.   *)
(***************************************************************************)
JobsFollowTheRows ==
    worker = "up" /\ ~snapshot.open =>
        \A t \in stable \ clashed :
            /\ jobs[t] # NoJob <=> Live(t) /\ row[t].enabled /\ Schedulable(row[t])
            /\ jobs[t] # NoJob => /\ jobs[t].kind = row[t].kind
                                  /\ jobs[t].schedule = row[t].schedule
                                  /\ row[t].kind = "interval" => t \in timer

(***************************************************************************)
(* A timer and the trigger stream can start a one-shot together, each      *)
(* before the other has disabled it.  More than these two runs take an     *)
(* edit, which may make it another kind of task and back, or a run after   *)
(* which a failed enqueue or a crash has left it enabled.                  *)
(***************************************************************************)
OneShotRunsAreBounded == \A t \in Tasks : runs[t] <= 2 + excuses
=============================================================================
