--------------------------- MODULE TaskJobsProofs ---------------------------
(***************************************************************************)
(* Proofs about TaskJobs for any number of tasks and requests, and for any *)
(* bounds on the runs and on what goes wrong.                              *)
(***************************************************************************)
EXTENDS TaskJobs, FiniteSetTheorems, TLAPS

-----------------------------------------------------------------------------
(* Types, without the bounds.                                              *)

Rows == [state : {"unborn", "live", "deleted"}, kind : Kinds, given : SUBSET Params,
         enabled : BOOLEAN, version : Nat, schedule : Nat, past : BOOLEAN]
Edits == [task : Tasks \cup {NoTask}, version : Nat, change : Changes \cup {"none"}]
Jobs == [version : Nat, kind : Kinds, schedule : Nat]

Calls == [pc : {"idle", "read", "create", "mark"}, task : Tasks \cup {NoTask}]

Typed ==
    /\ row \in [Tasks -> Rows] /\ edit \in [Editors -> Edits]
    /\ jobs \in [Tasks -> Jobs]
    /\ snapshot \in [open : BOOLEAN, rows : [Tasks -> Rows]]
    /\ clashed \subseteq Tasks /\ stable \subseteq Tasks /\ timer \subseteq Tasks
    /\ worker \in {"down", "boot", "up"}
    /\ trigger \in [Callers -> Calls]
    /\ asked \in Seq(Tasks)
    /\ runs \in [Tasks -> Nat]
    /\ events \in Nat /\ excuses \in Nat

Before(t) == row[t].state = "unborn"
Seen(t) == snapshot.rows[t]

\* Where a task has come from.
Lineage == \A t \in Tasks :
    /\ Before(t) =>
         /\ row[t] = Unborn /\ runs[t] = 0 /\ jobs[t] = NoJob /\ Seen(t) = Unborn
         /\ \A p \in Editors : edit[p].task # t
         /\ \A c \in Callers : trigger[c].task # t
         /\ \A i \in 1..Len(asked) : asked[i] # t
    /\ ~Before(t) => row[t].version # 0
    /\ t \in timer => jobs[t] # NoJob
    /\ jobs[t] # NoJob => jobs[t].version # 0
    /\ jobs[t] # NoJob /\ jobs[t].kind = "interval" => t \in timer
    /\ snapshot.open \/ Seen(t) = Unborn
    /\ Wanted(t) => Seen(t).version # 0

\* A caller knows its task; the stream's is the message it handles.
Calling ==
    /\ \A c \in Callers : trigger[c].pc # "idle" => trigger[c].task \in Tasks
    /\ \A t \in Tasks : trigger[t].pc # "idle" => trigger[t].task = t
    /\ trigger["stream"].pc # "idle" => asked # <<>>

\* A job is what _add_job makes of a row.
Serves(j, r) == j.kind = r.kind /\ j.schedule = r.schedule /\ Schedulable(r)

\* Without overlapping PATCHes a version has one schedule.
VersionedAt(t) ==
    /\ \A p \in Editors : edit[p].task = t => edit[p].version = row[t].version
    /\ \A p, q \in Editors : edit[p].task = t /\ edit[q].task = t => p = q
    /\ jobs[t].version <= row[t].version
    /\ Seen(t).version <= row[t].version
    /\ jobs[t] # NoJob /\ jobs[t].version = row[t].version => Serves(jobs[t], row[t])
    /\ jobs[t] # NoJob /\ jobs[t].version = Seen(t).version => Serves(jobs[t], Seen(t))
    /\ Seen(t).version = row[t].version =>
         /\ Seen(t).kind = row[t].kind /\ Seen(t).given = row[t].given
         /\ Seen(t).schedule = row[t].schedule

Versioned == \A t \in Tasks \ clashed : VersionedAt(t)

\* What sync_jobs has read is what is there.
CurrentAt(t) ==
    /\ Wanted(t) <=> Live(t) /\ row[t].enabled
    /\ Wanted(t) => /\ Seen(t).kind = row[t].kind /\ Seen(t).given = row[t].given
                    /\ Seen(t).version = row[t].version /\ Seen(t).schedule = row[t].schedule

Current == snapshot.open => \A t \in stable : CurrentAt(t)

\* The runs a one-shot can still get without an edit or a fault: one from its timer, one
\* from the stream, each as long as the task is enabled or the run is about to be made.
Num(P) == IF P THEN 1 ELSE 0

Making(c, t) == trigger[c].task = t /\ trigger[c].pc = "create"
Marking(c, t) == trigger[c].task = t /\ trigger[c].pc = "mark"
May(c, t) ==
    \/ row[t].kind # "one_shot"
    \/ Making(c, t)
    \/ Live(t) /\ row[t].enabled /\ ~Marking(c, t)
Open(t) == {p \in Editors : edit[p].task = t}

BudgetAt(t) ==
    runs[t] + Num(May(t, t)) + Num(May("stream", t)) + 2 * Cardinality(Open(t)) <= 2 + excuses
Budget == \A t \in Tasks : BudgetAt(t)

-----------------------------------------------------------------------------

\* A caller that returns.
LEMMA ReturnIsTyped ==
  ASSUME Typed, Calling, NEW c \in Callers, trigger[c].pc # "idle", Return(c)
  PROVE  trigger' \in [Callers -> Calls] /\ asked' \in Seq(Tasks)
<1>1. Idle \in Calls BY DEF Idle, Calls
<1>2. trigger \in [Callers -> Calls] /\ asked \in Seq(Tasks) BY DEF Typed
<1>3. c = "stream" => asked # <<>> BY DEF Calling
<1>4. asked # <<>> => Tail(asked) \in Seq(Tasks) BY <1>2
<1>5. trigger' \in [Callers -> Calls] BY <1>1, <1>2 DEF Return
<1>6. asked' \in Seq(Tasks) BY <1>2, <1>3, <1>4 DEF Return
<1> QED BY <1>5, <1>6

\* What is written to a row is a row.
LEMMA RowsAreTyped ==
  ASSUME Typed
  PROVE  /\ Unborn \in Rows
         /\ \A kind \in Kinds, given \in SUBSET Params, on \in BOOLEAN :
              Fresh(kind, given, on) \in Rows
         /\ \A t \in Tasks, p \in Editors : Changed(row[t], edit[p]) \in Rows
         /\ \A t \in Tasks : [row[t] EXCEPT !.state = "deleted"] \in Rows
         /\ \A t \in Tasks : [row[t] EXCEPT !.enabled = FALSE] \in Rows
         /\ \A t \in Tasks : [row[t] EXCEPT !.past = TRUE] \in Rows
         /\ \A t \in Tasks : [row[t] EXCEPT !.enabled = FALSE, !.version = 1] \in Rows
<1>1. Unborn \in Rows BY DEF Unborn, Rows, Kinds
<1>2. \A kind \in Kinds, given \in SUBSET Params, on \in BOOLEAN : Fresh(kind, given, on) \in Rows
  BY DEF Fresh, Unborn, Rows
<1>3. row \in [Tasks -> Rows] /\ edit \in [Editors -> Edits] BY DEF Typed
<1>4. ASSUME NEW r \in Rows
      PROVE  /\ [r EXCEPT !.state = "deleted"] \in Rows
             /\ [r EXCEPT !.enabled = FALSE] \in Rows
             /\ [r EXCEPT !.enabled = TRUE] \in Rows
             /\ [r EXCEPT !.past = TRUE] \in Rows
             /\ [r EXCEPT !.enabled = FALSE, !.version = 1] \in Rows
             /\ \A v \in Nat : [r EXCEPT !.version = v] \in Rows
  <2>1. [r EXCEPT !.state = "deleted"] \in Rows BY DEF Rows
  <2>2. [r EXCEPT !.enabled = FALSE] \in Rows BY DEF Rows
  <2>3. [r EXCEPT !.enabled = TRUE] \in Rows BY DEF Rows
  <2>4. [r EXCEPT !.past = TRUE] \in Rows BY DEF Rows
  <2>5. [r EXCEPT !.enabled = FALSE, !.version = 1] \in Rows BY DEF Rows
  <2>6. \A v \in Nat : [r EXCEPT !.version = v] \in Rows BY DEF Rows
  <2> QED BY <2>1, <2>2, <2>3, <2>4, <2>5, <2>6
<1>5. ASSUME NEW t \in Tasks, NEW p \in Editors PROVE Changed(row[t], edit[p]) \in Rows
  <2>1. row[t] \in Rows /\ edit[p] \in Edits BY <1>3
  <2>2. edit[p].version + 1 \in Nat /\ edit[p].change \in Changes \cup {"none"}
    BY <2>1 DEF Edits
  <2>3. PICK r \in Rows : r = [row[t] EXCEPT !.version = edit[p].version + 1]
    BY <1>4, <2>1, <2>2
  <2>4. [r EXCEPT !.given = @ \cup ({row[t].kind} \cap Params), !.schedule = @ + 1,
                  !.past = @ /\ row[t].kind # "one_shot"] \in Rows
    <3>1. r.schedule + 1 \in Nat /\ (r.past /\ row[t].kind # "one_shot") \in BOOLEAN
          /\ r.given \cup ({row[t].kind} \cap Params) \in SUBSET Params
      BY DEF Rows
    <3> QED BY <3>1 DEF Rows
  <2>5. \A kind \in Kinds : [r EXCEPT !.kind = kind] \in Rows BY DEF Rows
  <2>6. \/ Changed(row[t], edit[p]) = r
        \/ Changed(row[t], edit[p]) = [r EXCEPT !.enabled = TRUE]
        \/ Changed(row[t], edit[p]) = [r EXCEPT !.enabled = FALSE]
        \/ Changed(row[t], edit[p]) =
             [r EXCEPT !.given = @ \cup ({row[t].kind} \cap Params), !.schedule = @ + 1,
                       !.past = @ /\ row[t].kind # "one_shot"]
        \/ \E kind \in Kinds : Changed(row[t], edit[p]) = [r EXCEPT !.kind = kind]
    BY <2>2, <2>3 DEF Changed, Changes, Kinds
  <2> QED BY <1>4, <2>4, <2>5, <2>6
<1> QED BY <1>1, <1>2, <1>3, <1>4, <1>5

\* The job _add_job makes of a row is one.
LEMMA JobsAreTyped == NoJob \in Jobs /\ \A r \in Rows : AddJob(r) \in Jobs
<1>1. NoJob \in Jobs BY DEF NoJob, Jobs, Kinds
<1>2. ASSUME NEW r \in Rows PROVE [version |-> r.version, kind |-> r.kind,
                                  schedule |-> r.schedule] \in Jobs
  BY DEF Rows, Jobs
<1> QED BY <1>1, <1>2 DEF AddJob

\* There are finitely many callers.
LEMMA CallersAreFinite ==
  ASSUME NEW S \in SUBSET Callers
  PROVE  IsFiniteSet(S) /\ Cardinality(S) \in Nat
<1>1. IsFiniteSet(Tasks \cup {"stream"}) BY TasksAssumption, FS_AddElement
<1> QED BY <1>1, FS_Subset, FS_CardinalityType DEF Callers

\* Every step keeps the types.
LEMMA TypedStep == ASSUME Typed, Calling, [Next]_vars PROVE Typed'
<1> USE DEF apiVars, jobVars, workVars, counts, Write, Event
<1>0. /\ row \in [Tasks -> Rows] /\ edit \in [Editors -> Edits]
      /\ trigger \in [Callers -> Calls] /\ asked \in Seq(Tasks) /\ runs \in [Tasks -> Nat]
  BY DEF Typed
<1>1. CASE Api
  <2>1. ASSUME NEW t \in Tasks, NEW kind \in Kinds, NEW given \in SUBSET Params,
               NEW on \in BOOLEAN, Create(t, kind, given, on)
        PROVE  Typed'
    <3>1. row' \in [Tasks -> Rows] BY <1>0, <2>1, RowsAreTyped DEF Create
    <3> QED BY <2>1, <3>1 DEF Create, Typed
  <2>2. ASSUME NEW t \in Tasks, NEW copy \in Tasks, Duplicate(t, copy) PROVE Typed'
    <3>1. [row[t] EXCEPT !.enabled = FALSE, !.version = 1] \in Rows BY <1>0, RowsAreTyped
    <3>2. row' = [row EXCEPT ![copy] = [row[t] EXCEPT !.enabled = FALSE, !.version = 1]]
      BY <2>2 DEF Duplicate
    <3>3. PICK r \in Rows : r = [row[t] EXCEPT !.enabled = FALSE, !.version = 1] BY <3>1
    <3>4. row' \in [Tasks -> Rows] BY <1>0, <3>2, <3>3
    <3>5. UNCHANGED <<edit, clashed, jobVars, workVars, asked>> /\ stable' = stable \ {copy}
          /\ Event(0)
      BY <2>2 DEF Duplicate
    <3> QED BY <3>4, <3>5 DEF Typed
  <2>3. ASSUME NEW t \in Tasks, Delete(t) PROVE Typed'
    <3>1. row' \in [Tasks -> Rows] BY <1>0, <2>3, RowsAreTyped DEF Delete
    <3> QED BY <2>3, <3>1 DEF Delete, Typed
  <2>4. ASSUME NEW t \in Tasks, Trigger(t) PROVE Typed'
    <3>1. asked' \in Seq(Tasks) BY <1>0, <2>4 DEF Trigger
    <3> QED BY <2>4, <3>1 DEF Trigger, Typed
  <2>5. ASSUME NEW t \in Tasks, NEW p \in Editors,
               NEW change \in Changes, BeginUpdate(p, t, change)
        PROVE  Typed'
    <3>1. row[t] \in Rows BY <1>0
    <3>2. [task |-> t, version |-> row[t].version,
           change |-> IF Writes(row[t], change) THEN change ELSE "none"] \in Edits
      BY <3>1 DEF Edits, Rows
    <3>3. edit' \in [Editors -> Edits] BY <1>0, <2>5, <3>2 DEF BeginUpdate
    <3> QED BY <2>5, <3>3 DEF BeginUpdate, Typed
  <2>6. ASSUME NEW p \in Editors, CommitUpdate(p) PROVE Typed'
    <3>1. NoEdit \in Edits BY DEF NoEdit, Edits
    <3>2. edit[p].task \in Tasks BY <1>0, <2>6 DEF CommitUpdate, Edits
    <3>3. edit' \in [Editors -> Edits] BY <1>0, <2>6, <3>1 DEF CommitUpdate
    <3>4. Changed(row[edit[p].task], edit[p]) \in Rows BY <3>2, RowsAreTyped
    <3>5. row' \in [Tasks -> Rows] BY <1>0, <2>6, <3>2, <3>4 DEF CommitUpdate
    <3> QED BY <2>6, <3>3, <3>5 DEF CommitUpdate, Typed
  <2> QED BY <1>1, <2>1, <2>2, <2>3, <2>4, <2>5, <2>6 DEF Api
<1>2. CASE Sync
  <2>1. CASE SyncRead
    <3>1. snapshot' \in [open : BOOLEAN, rows : [Tasks -> Rows]]
      BY <1>0, <2>1, RowsAreTyped DEF SyncRead
    <3> QED BY <2>1, <3>1 DEF SyncRead, Typed
  <2>2. CASE SyncApply
    <3>2. Closed \in [open : BOOLEAN, rows : [Tasks -> Rows]] BY RowsAreTyped DEF Closed
    <3>3. \A t \in Tasks : Seen(t) \in Rows BY DEF Typed, Seen
    <3>4. \A t \in Tasks : AddJob(Seen(t)) \in Jobs BY <3>3, JobsAreTyped
    <3>5. jobs' \in [Tasks -> Jobs]
      BY <2>2, <3>4, JobsAreTyped DEF SyncApply, Typed, Seen
    <3> QED BY <2>2, <3>2, <3>5 DEF SyncApply, Typed
  <2> QED BY <1>2, <2>1, <2>2 DEF Sync
<1>3. ASSUME NEW t \in Tasks, DatePasses(t) \/ Fire(t) PROVE Typed'
  <2>1. t \in Callers /\ [pc |-> "read", task |-> t] \in Calls BY DEF Callers, Calls
  <2>2. trigger' \in [Callers -> Calls] BY <1>0, <1>3, <2>1 DEF DatePasses, Fire
  <2>3. row' \in [Tasks -> Rows] BY <1>0, <1>3, RowsAreTyped DEF DatePasses, Fire
  <2> QED BY <1>3, <2>2, <2>3 DEF DatePasses, Fire, Typed
<1>4. CASE Consume
  <2>1. Head(asked) \in Tasks BY <1>0, <1>4 DEF Consume
  <2>2. [pc |-> "read", task |-> Head(asked)] \in Calls BY <2>1 DEF Calls
  <2>3. trigger' \in [Callers -> Calls] BY <1>0, <1>4, <2>2 DEF Consume
  <2> QED BY <1>4, <2>3 DEF Consume, Typed
<1>5. ASSUME NEW c \in Callers, ExecuteTrigger(c) PROVE Typed'
  <2>1. trigger[c].pc # "idle"
    BY <1>5 DEF ExecuteTrigger, ReadTask, CreateRun, EnqueueFails, MarkRun
  <2>2. trigger[c].task \in Tasks BY <2>1 DEF Calling
  <2>3. PICK t \in Tasks : t = trigger[c].task BY <2>2
  <2>4. [trigger[c] EXCEPT !.pc = "create"] \in Calls /\ [trigger[c] EXCEPT !.pc = "mark"] \in Calls
    BY <1>0 DEF Calls
  <2>5. trigger' \in [Callers -> Calls] /\ asked' \in Seq(Tasks)
    BY <1>0, <1>5, <2>1, <2>4, ReturnIsTyped
    DEF ExecuteTrigger, ReadTask, CreateRun, EnqueueFails, MarkRun
  <2>6. runs' \in [Tasks -> Nat]
    <3>1. runs[t] + 1 \in Nat /\ [runs EXCEPT ![t] = runs[t]] = runs BY <1>0
    <3>2. [runs EXCEPT ![t] = runs[t] + 1] \in [Tasks -> Nat] BY <1>0, <3>1
    <3>3. CASE CreateRun(c)
      <4>1. runs' = runs \/ runs' = [runs EXCEPT ![t] = runs[t] + 1]
        BY <2>3, <3>1, <3>3 DEF CreateRun
      <4> QED BY <1>0, <3>2, <4>1
    <3> QED BY <1>0, <1>5, <3>3 DEF ExecuteTrigger, ReadTask, EnqueueFails, MarkRun
  <2>7. row' \in [Tasks -> Rows]
    BY <1>0, <1>5, <2>3, RowsAreTyped
    DEF ExecuteTrigger, ReadTask, CreateRun, EnqueueFails, MarkRun
  <2> QED BY <1>5, <2>5, <2>6, <2>7
      DEF ExecuteTrigger, ReadTask, CreateRun, EnqueueFails, MarkRun, Typed
<1>6. CASE Crash
  <2>1. Idle \in Calls BY DEF Idle, Calls
  <2>2. Cardinality({c \in Callers : trigger[c].pc = "mark"}) \in Nat BY CallersAreFinite
  <2>3. Closed \in [open : BOOLEAN, rows : [Tasks -> Rows]] BY RowsAreTyped DEF Closed
  <2> QED BY <1>6, <2>1, <2>2, <2>3, JobsAreTyped DEF Crash, Typed
<1>7. CASE Restart BY <1>7 DEF Restart, Typed
<1>8. CASE UNCHANGED vars BY <1>8 DEF vars, Typed
<1> QED BY <1>1, <1>2, <1>3, <1>4, <1>5, <1>6, <1>7, <1>8 DEF Next

-----------------------------------------------------------------------------
\* Steps that are none of a caller's.
Elsewhere == Api \/ Sync \/ Restart \/ (\E t \in Tasks : DatePasses(t)) \/ UNCHANGED vars

\* The calls of execute_trigger are as they were; the stream may have grown.
LEMMA ElsewhereNobodyCalls ==
  ASSUME Typed, Elsewhere
  PROVE  /\ UNCHANGED <<trigger, runs>>
         /\ asked' = asked \/ \E t \in Tasks : Live(t) /\ asked' = Append(asked, t)
<1> USE DEF apiVars, jobVars, workVars, counts
<1>1. CASE Api
  BY <1>1 DEF Api, Create, Duplicate, Delete, Trigger, BeginUpdate, CommitUpdate
<1>2. CASE Sync BY <1>2 DEF Sync, SyncRead, SyncApply
<1>3. CASE Restart BY <1>3 DEF Restart
<1>4. CASE \E t \in Tasks : DatePasses(t) BY <1>4 DEF DatePasses
<1>5. CASE UNCHANGED vars BY <1>5 DEF vars
<1> QED BY <1>1, <1>2, <1>3, <1>4, <1>5 DEF Elsewhere

\* The calls of execute_trigger while it is at work.
LEMMA CallerMoves ==
  ASSUME Typed, Calling, NEW c \in Callers, ExecuteTrigger(c)
  PROVE  /\ trigger[c].pc # "idle" /\ trigger[c].task \in Tasks
         /\ \/ Return(c)
            \/ /\ asked' = asked
               /\ \E pc \in {"create", "mark"} : trigger' = [trigger EXCEPT ![c].pc = pc]
         /\ \/ runs' = runs
            \/ /\ runs' = [runs EXCEPT ![trigger[c].task] = @ + 1]
               /\ Live(trigger[c].task) /\ row[trigger[c].task].kind = "one_shot"
         /\ UNCHANGED <<edit, clashed, jobs, timer, snapshot, worker>>
<1> USE DEF apiVars, jobVars, workVars, counts
<1>1. trigger[c].pc # "idle"
  BY DEF ExecuteTrigger, ReadTask, CreateRun, EnqueueFails, MarkRun
<1>2. trigger[c].task \in Tasks BY <1>1 DEF Calling
<1>3. CASE ReadTask(c) BY <1>1, <1>2, <1>3 DEF ReadTask
<1>4. CASE CreateRun(c)
  <2>1. PICK u \in Tasks : u = trigger[c].task BY <1>2
  <2>2. [runs EXCEPT ![u] = runs[u]] = runs BY DEF Typed
  <2> QED BY <1>1, <1>2, <1>4, <2>1, <2>2 DEF CreateRun
<1>5. CASE EnqueueFails(c) BY <1>1, <1>2, <1>5 DEF EnqueueFails
<1>6. CASE MarkRun(c) BY <1>1, <1>2, <1>6 DEF MarkRun
<1> QED BY <1>3, <1>4, <1>5, <1>6 DEF ExecuteTrigger

\* Every step leaves the callers of execute_trigger with a task.
LEMMA CallingStep == ASSUME Typed, Calling, [Next]_vars PROVE Calling'
<1> USE DEF apiVars, jobVars, workVars, counts
<1>0. trigger \in [Callers -> Calls] /\ asked \in Seq(Tasks) /\ Tasks \subseteq Callers
      /\ "stream" \in Callers /\ "stream" \notin Tasks
  BY TasksAssumption DEF Typed, Callers
<1>1. CASE Elsewhere
  <2>1. ASSUME NEW t \in Tasks, asked' = Append(asked, t) PROVE asked' # <<>>
    BY <1>0, <2>1
  <2> QED BY <1>1, <2>1, ElsewhereNobodyCalls DEF Calling
<1>2. ASSUME NEW t \in Tasks, Fire(t) PROVE Calling'
  BY <1>0, <1>2 DEF Fire, Calling
<1>3. CASE Consume
  <2>1. Head(asked) \in Tasks BY <1>0, <1>3 DEF Consume
  <2> QED BY <1>0, <1>3, <2>1 DEF Consume, Calling
<1>4. ASSUME NEW c \in Callers, ExecuteTrigger(c) PROVE Calling'
  <2>1. CASE Return(c)
    <3>1. trigger' = [trigger EXCEPT ![c] = Idle] /\ Idle.pc = "idle"
          /\ (c # "stream" => asked' = asked)
      BY <2>1 DEF Return, Idle
    <3>2. \A d \in Callers : trigger'[d].pc # "idle" => d # c /\ trigger'[d] = trigger[d]
      BY <1>0, <3>1
    <3> QED BY <1>0, <3>1, <3>2 DEF Calling
  <2>2. ASSUME asked' = asked, NEW pc \in {"create", "mark"},
               trigger' = [trigger EXCEPT ![c].pc = pc]
        PROVE  Calling'
    <3>1. \A d \in Callers : trigger'[d].task = trigger[d].task
      BY <1>0, <2>2 DEF Calls
    <3>2. \A d \in Callers : trigger'[d].pc # "idle" => trigger[d].pc # "idle"
      BY <1>0, <1>4, <2>2, CallerMoves DEF Calls
    <3> QED BY <1>0, <2>2, <3>1, <3>2 DEF Calling
  <2> QED BY <1>4, <2>1, <2>2, CallerMoves
<1>5. CASE Crash
  <2>1. \A c \in Callers : trigger'[c].pc = "idle" BY <1>5 DEF Crash, Idle
  <2> QED BY <1>0, <2>1 DEF Calling
<1> QED BY <1>1, <1>2, <1>3, <1>4, <1>5 DEF Next, Elsewhere

-----------------------------------------------------------------------------
\* A row is written by whoever creates it or edits it; otherwise it only loses.
Fades(t) ==
    /\ row'[t].state = row[t].state \/ row'[t].state = "deleted"
    /\ row'[t].kind = row[t].kind /\ row'[t].given = row[t].given
    /\ row'[t].version = row[t].version /\ row'[t].schedule = row[t].schedule
    /\ row'[t].past = row[t].past \/ row'[t].past = TRUE
    /\ row'[t].enabled = row[t].enabled \/ row'[t].enabled = FALSE

Arrives(t) ==
    /\ Before(t) /\ Live(t)' /\ row'[t].version = 1 /\ row' # row
    /\ UNCHANGED <<edit, clashed, jobVars, workVars, asked, excuses>>
    /\ stable' = stable \ {t}

\* Every row is as it was, has arrived, has lost something, or was patched.
LEMMA RowMoves ==
  ASSUME Typed, Lineage, Calling, [Next]_vars, NEW t \in Tasks
  PROVE  \/ row'[t] = row[t]
         \/ Arrives(t)
         \/ ~Before(t) /\ Fades(t)
         \/ \E p \in Editors : /\ edit[p].task = t /\ CommitUpdate(p) /\ Live(t)
                               /\ row'[t] = Changed(row[t], edit[p])
<1> USE DEF apiVars, jobVars, workVars, counts, Write, Event, Before, Live
<1>0. row \in [Tasks -> Rows] /\ row[t] \in Rows BY DEF Typed
<1>9. excuses + 0 = excuses BY DEF Typed
<1>1. CASE Api
  <2>1. ASSUME NEW u \in Tasks, NEW kind \in Kinds, NEW given \in SUBSET Params,
               NEW on \in BOOLEAN, Create(u, kind, given, on)
        PROVE  row'[t] = row[t] \/ Arrives(t)
    <3>1. Fresh(kind, given, on).state = "live" /\ Fresh(kind, given, on).version = 1
      BY DEF Fresh, Unborn
    <3>2. CASE u = t
      <4>1. row'[t] = Fresh(kind, given, on) BY <1>0, <2>1, <3>2 DEF Create
      <4>2. row' # row BY <2>1, <3>1, <3>2, <4>1 DEF Create
      <4> QED BY <1>9, <2>1, <3>1, <3>2, <4>1, <4>2 DEF Create, Arrives
    <3> QED BY <1>0, <2>1, <3>2 DEF Create
  <2>2. ASSUME NEW u \in Tasks, NEW copy \in Tasks, Duplicate(u, copy)
        PROVE  row'[t] = row[t] \/ Arrives(t)
    <3>1. row[u] \in Rows /\ row[u].state = "live" BY <1>0, <2>2 DEF Duplicate
    <3>2. PICK r \in Rows : r = row[u] BY <3>1
    <3>3. /\ [r EXCEPT !.enabled = FALSE, !.version = 1].state = "live"
          /\ [r EXCEPT !.enabled = FALSE, !.version = 1].version = 1
      BY <3>1, <3>2 DEF Rows
    <3>4. CASE copy = t
      <4>1. row'[t] = [r EXCEPT !.enabled = FALSE, !.version = 1]
        BY <1>0, <2>2, <3>2, <3>4 DEF Duplicate
      <4>2. row' # row BY <2>2, <3>3, <3>4, <4>1 DEF Duplicate
      <4> QED BY <1>9, <2>2, <3>3, <3>4, <4>1, <4>2 DEF Duplicate, Arrives
    <3> QED BY <1>0, <2>2, <3>4 DEF Duplicate
  <2>3. ASSUME NEW u \in Tasks, Delete(u)
        PROVE  row'[t] = row[t] \/ (~Before(t) /\ Fades(t))
    BY <1>0, <2>3 DEF Delete, Fades, Rows
  <2>4. ASSUME NEW p \in Editors, CommitUpdate(p)
        PROVE  \/ row'[t] = row[t]
               \/ edit[p].task = t /\ Live(t) /\ row'[t] = Changed(row[t], edit[p])
    <3>1. edit[p].task \in Tasks BY <2>4 DEF CommitUpdate, Typed, Edits
    <3> QED BY <1>0, <2>4, <3>1 DEF CommitUpdate
  <2>5. ASSUME NEW u \in Tasks, Trigger(u) PROVE row'[t] = row[t]
    BY <2>5 DEF Trigger
  <2>6. ASSUME NEW u \in Tasks, NEW p \in Editors,
               NEW change \in Changes, BeginUpdate(p, u, change)
        PROVE  row'[t] = row[t]
    BY <2>6 DEF BeginUpdate
  <2> QED BY <1>1, <2>1, <2>2, <2>3, <2>4, <2>5, <2>6 DEF Api
<1>2. CASE Sync BY <1>2 DEF Sync, SyncRead, SyncApply
<1>3. ASSUME NEW u \in Tasks, DatePasses(u)
      PROVE  row'[t] = row[t] \/ (~Before(t) /\ Fades(t))
  BY <1>0, <1>3 DEF DatePasses, Fades, Rows
<1>4. ASSUME NEW u \in Tasks, Fire(u)
      PROVE  row'[t] = row[t] \/ (~Before(t) /\ Fades(t))
  <2>1. row'[t] = row[t] \/ (u = t /\ row'[t] = [row[t] EXCEPT !.past = TRUE])
    BY <1>0, <1>4 DEF Fire
  <2>2. Before(t) => u # t BY <1>4 DEF Lineage, Fire
  <2> QED BY <1>0, <2>1, <2>2 DEF Fades, Rows
<1>5. ASSUME NEW c \in Callers, ExecuteTrigger(c)
      PROVE  row'[t] = row[t] \/ (~Before(t) /\ Fades(t))
  <2>1. PICK u \in Tasks : u = trigger[c].task BY <1>5, CallerMoves
  <2>2. CASE MarkRun(c) BY <1>0, <2>1, <2>2 DEF MarkRun, Fades, Rows
  <2> QED BY <1>5, <2>2 DEF ExecuteTrigger, ReadTask, CreateRun, EnqueueFails
<1>6. CASE Consume \/ Crash \/ Restart \/ UNCHANGED vars
  BY <1>6 DEF Consume, Crash, Restart, vars
<1> QED BY <1>1, <1>2, <1>3, <1>4, <1>5, <1>6 DEF Next

\* What a PATCH makes of a row.
LEMMA PatchedRow ==
  ASSUME Typed, NEW t \in Tasks, NEW p \in Editors
  PROVE  /\ Changed(row[t], edit[p]).version = edit[p].version + 1
         /\ Changed(row[t], edit[p]).state = row[t].state
<1>1. edit[p].version \in Nat /\ row[t] \in Rows BY DEF Typed, Edits
<1>2. PICK v \in Nat : v = edit[p].version + 1 BY <1>1
<1>3. PICK r \in Rows : r = row[t] BY <1>1
<1>4. PICK n \in Rows : n = [r EXCEPT !.version = v] /\ n.version = v /\ n.state = r.state
  <2>1. [r EXCEPT !.version = v] \in Rows BY DEF Rows
  <2> QED BY <2>1 DEF Rows
<1>5. \/ Changed(row[t], edit[p]) = n
      \/ Changed(row[t], edit[p]) = [n EXCEPT !.enabled = TRUE]
      \/ Changed(row[t], edit[p]) = [n EXCEPT !.enabled = FALSE]
      \/ Changed(row[t], edit[p]) =
           [n EXCEPT !.given = @ \cup ({r.kind} \cap Params), !.schedule = @ + 1,
                     !.past = @ /\ r.kind # "one_shot"]
      \/ Changed(row[t], edit[p]) = [n EXCEPT !.kind = edit[p].change]
  BY <1>2, <1>3, <1>4 DEF Changed
<1>6. /\ Changed(row[t], edit[p]).version = n.version
      /\ Changed(row[t], edit[p]).state = n.state
  BY <1>5 DEF Rows
<1> QED BY <1>2, <1>3, <1>4, <1>6

\* What was there has a version.
LEMMA RowKeeps ==
  ASSUME Typed, Lineage, Calling, [Next]_vars, NEW t \in Tasks
  PROVE  /\ Before(t)' => Before(t) /\ row'[t] = row[t]
         /\ ~Before(t)' => row'[t].version # 0
<1>0. row[t] \in Rows BY DEF Typed
<1>1. CASE row'[t] = row[t] BY <1>1 DEF Before, Lineage
<1>2. CASE Arrives(t) BY <1>2 DEF Arrives, Live, Before
<1>3. CASE ~Before(t) /\ Fades(t) BY <1>3 DEF Fades, Before, Lineage
<1>4. ASSUME NEW p \in Editors, Live(t), row'[t] = Changed(row[t], edit[p])
      PROVE  row'[t].state = "live" /\ row'[t].version # 0
  <2>1. edit[p].version \in Nat BY DEF Typed, Edits
  <2> QED BY <1>4, <2>1, PatchedRow DEF Live
<1> QED BY <1>1, <1>2, <1>3, <1>4, RowMoves DEF Before, Live

\* Who writes the jobs of APScheduler and what sync_jobs has read.
LEMMA JobsMove ==
  ASSUME Typed, Calling, [Next]_vars
  PROVE  \/ UNCHANGED <<jobs, timer, snapshot>>
         \/ SyncRead \/ SyncApply \/ Crash
         \/ \E t \in Tasks : Fire(t)
<1> USE DEF apiVars, jobVars, workVars, counts
<1>1. CASE Api
  BY <1>1 DEF Api, Create, Duplicate, Delete, Trigger, BeginUpdate, CommitUpdate
<1>2. CASE Sync BY <1>2 DEF Sync
<1>3. CASE Consume \/ Restart \/ UNCHANGED vars BY <1>3 DEF Consume, Restart, vars
<1>4. ASSUME NEW t \in Tasks, DatePasses(t) PROVE UNCHANGED <<jobs, timer, snapshot>>
  BY <1>4 DEF DatePasses
<1>5. ASSUME NEW c \in Callers, ExecuteTrigger(c) PROVE UNCHANGED <<jobs, timer, snapshot>>
  BY <1>5, CallerMoves
<1> QED BY <1>1, <1>2, <1>3, <1>4, <1>5 DEF Next

\* What a step does to the job of one task.
Resynchronised(t) ==
    /\ SyncApply /\ row' = row
    /\ Seen(t)' = Unborn
    /\ \/ ~Wanted(t) /\ jobs'[t] = NoJob /\ t \notin timer'
       \/ Outdated(t) /\ ~Schedulable(Seen(t)) /\ jobs'[t] = NoJob /\ t \notin timer'
       \/ /\ Outdated(t) /\ jobs'[t] # NoJob /\ (t \in timer' <=> Armed(Seen(t)))
          /\ Serves(jobs'[t], Seen(t)) /\ jobs'[t].version = Seen(t).version
       \/ /\ Wanted(t) /\ ~Outdated(t) /\ jobs'[t] = jobs[t] /\ (t \in timer' <=> t \in timer)

\* The job of a task stays, is read for, resynchronised, lost in a crash, or fires.
LEMMA JobMoves ==
  ASSUME Typed, Lineage, Calling, [Next]_vars, NEW t \in Tasks
  PROVE  \/ /\ jobs'[t] = jobs[t] /\ (t \in timer' <=> t \in timer)
            /\ Seen(t)' = Seen(t) /\ snapshot' = snapshot
         \/ /\ SyncRead /\ jobs'[t] = jobs[t] /\ (t \in timer' <=> t \in timer)
            /\ Seen(t)' = (IF Live(t) /\ row[t].enabled THEN row[t] ELSE Unborn) /\ row' = row
         \/ Resynchronised(t)
         \/ Crash /\ jobs'[t] = NoJob /\ t \notin timer' /\ Seen(t)' = Unborn /\ row' = row
         \/ Fire(t)
<1>1. CASE UNCHANGED <<jobs, timer, snapshot>> BY <1>1 DEF Seen
<1>2. CASE SyncRead BY <1>2 DEF SyncRead, Seen
<1>3. CASE SyncApply
  <2>1. Seen(t)' = Unborn /\ row' = row BY <1>3 DEF SyncApply, Closed, Seen, apiVars
  <2>2. Outdated(t) => Wanted(t) BY DEF Outdated
  <2>3. jobs' = [u \in Tasks |-> CASE ~Wanted(u) -> NoJob
                                   [] Outdated(u) -> AddJob(Seen(u))
                                   [] OTHER -> jobs[u]]
    BY <1>3 DEF SyncApply, Seen
  <2>4. t \in timer' <=> IF Outdated(t) THEN Armed(Seen(t)) ELSE Keeps(t)
    BY <1>3 DEF SyncApply, Seen
  <2>5. CASE ~Wanted(t)
    <3>1. jobs'[t] = NoJob BY <2>2, <2>3, <2>5
    <3>2. t \notin timer' BY <2>2, <2>4, <2>5 DEF Keeps
    <3> QED BY <1>3, <2>1, <2>5, <3>1, <3>2 DEF Resynchronised
  <2>6. CASE Outdated(t)
    <3>1. jobs'[t] = AddJob(Seen(t)) /\ (t \in timer' <=> Armed(Seen(t)))
      BY <2>2, <2>3, <2>4, <2>6
    <3>2. CASE ~Schedulable(Seen(t))
      <4>1. jobs'[t] = NoJob /\ t \notin timer' BY <3>1, <3>2 DEF AddJob, Armed
      <4> QED BY <1>3, <2>1, <2>6, <3>2, <4>1 DEF Resynchronised
    <3>3. CASE Schedulable(Seen(t))
      <4>1. Serves(jobs'[t], Seen(t)) /\ jobs'[t].version = Seen(t).version
        BY <3>1, <3>3 DEF AddJob, Serves
      <4>2. Seen(t).version # 0 BY <2>2, <2>6 DEF Lineage
      <4>3. jobs'[t] # NoJob BY <4>1, <4>2 DEF NoJob
      <4> QED BY <1>3, <2>1, <2>6, <3>1, <4>1, <4>3 DEF Resynchronised
    <3> QED BY <3>2, <3>3
  <2>7. CASE Wanted(t) /\ ~Outdated(t)
    <3>1. jobs'[t] = jobs[t] BY <2>3, <2>7
    <3>2. t \in timer' <=> t \in timer BY <2>4, <2>7 DEF Keeps
    <3> QED BY <1>3, <2>1, <2>7, <3>1, <3>2 DEF Resynchronised
  <2> QED BY <2>5, <2>6, <2>7
<1>4. CASE Crash BY <1>4 DEF Crash, Closed, Seen, apiVars
<1>5. ASSUME NEW u \in Tasks, Fire(u), u # t
      PROVE  jobs'[t] = jobs[t] /\ (t \in timer' <=> t \in timer) /\ Seen(t)' = Seen(t)
             /\ snapshot' = snapshot
  BY <1>5 DEF Fire, Seen
<1> QED BY <1>1, <1>2, <1>3, <1>4, <1>5, JobsMove

\* Jobs and what sync_jobs has read are of tasks that are there.
LEMMA JobsKeep ==
  ASSUME Typed, Lineage, Calling, [Next]_vars, NEW t \in Tasks
  PROVE  /\ t \in timer' => jobs'[t] # NoJob
         /\ jobs'[t] # NoJob => jobs'[t].version # 0
         /\ jobs'[t] # NoJob /\ jobs'[t].kind = "interval" => t \in timer'
         /\ Before(t) => jobs'[t] = NoJob /\ Seen(t)' = Unborn
         /\ snapshot'.open \/ Seen(t)' = Unborn
         /\ Wanted(t)' => Seen(t)'.version # 0
<1>0. /\ Before(t) => jobs[t] = NoJob /\ Seen(t) = Unborn
      /\ t \in timer => jobs[t] # NoJob
      /\ jobs[t] # NoJob => jobs[t].version # 0
      /\ jobs[t] # NoJob /\ jobs[t].kind = "interval" => t \in timer
      /\ snapshot.open \/ Seen(t) = Unborn
      /\ Wanted(t) => Seen(t).version # 0
  BY DEF Lineage
<1>1. (Wanted(t) <=> Seen(t) # Unborn) /\ (Wanted(t)' <=> Seen(t)' # Unborn)
  BY DEF Wanted, Seen
<1>2. CASE /\ jobs'[t] = jobs[t] /\ (t \in timer' <=> t \in timer)
           /\ Seen(t)' = Seen(t) /\ snapshot' = snapshot
  BY <1>0, <1>1, <1>2
<1>3. CASE /\ SyncRead /\ jobs'[t] = jobs[t] /\ (t \in timer' <=> t \in timer)
           /\ Seen(t)' = (IF Live(t) /\ row[t].enabled THEN row[t] ELSE Unborn)
  <2>1. snapshot'.open BY <1>3 DEF SyncRead
  <2>2. Live(t) => ~Before(t) /\ row[t].version # 0 BY DEF Live, Before, Lineage
  <2> QED BY <1>0, <1>1, <1>3, <2>1, <2>2
<1>4. CASE Resynchronised(t)
  <2>1. Seen(t)' = Unborn BY <1>4 DEF Resynchronised
  <2>2. Before(t) => ~Wanted(t) BY <1>0, <1>1
  <2>3. Outdated(t) => Wanted(t) BY DEF Outdated
  <2>4. CASE jobs'[t] = NoJob /\ t \notin timer' BY <1>1, <2>1, <2>4
  <2>5. CASE Wanted(t) /\ jobs'[t] = jobs[t] /\ (t \in timer' <=> t \in timer)
    BY <1>0, <1>1, <2>1, <2>2, <2>5
  <2>6. CASE /\ Outdated(t) /\ jobs'[t] # NoJob /\ (t \in timer' <=> Armed(Seen(t)))
             /\ Serves(jobs'[t], Seen(t)) /\ jobs'[t].version = Seen(t).version
    <3>1. jobs'[t].kind = "interval" => t \in timer' BY <2>6 DEF Serves, Armed
    <3> QED BY <1>0, <1>1, <2>1, <2>2, <2>3, <2>6, <3>1
  <2> QED BY <1>4, <2>4, <2>5, <2>6 DEF Resynchronised
<1>5. CASE Crash /\ jobs'[t] = NoJob /\ t \notin timer' /\ Seen(t)' = Unborn
  BY <1>1, <1>5
<1>6. CASE Fire(t)
  <2>1. /\ jobs' = jobs /\ Seen(t)' = Seen(t) /\ snapshot' = snapshot
        /\ t \in timer' => t \in timer
        /\ jobs[t].kind # "one_shot" => timer' = timer
    BY <1>6 DEF Fire, Seen
  <2> QED BY <1>0, <1>1, <2>1
<1> QED BY <1>2, <1>3, <1>4, <1>5, <1>6, JobMoves

\* Nobody is at work for a task that is not there yet.
LEMMA UnbornIsLeftAlone ==
  ASSUME Typed, Lineage, Calling, [Next]_vars, NEW t \in Tasks, Before(t)
  PROVE  /\ runs'[t] = 0
         /\ \A p \in Editors : edit'[p].task # t
         /\ \A c \in Callers : trigger'[c].task # t
         /\ \A i \in 1..Len(asked') : asked'[i] # t
<1> USE DEF apiVars, jobVars, workVars, counts
<1>0. /\ runs[t] = 0 /\ jobs[t] = NoJob
      /\ \A p \in Editors : edit[p].task # t
      /\ \A c \in Callers : trigger[c].task # t
      /\ \A i \in 1..Len(asked) : asked[i] # t
  BY DEF Lineage
<1>1. /\ runs \in [Tasks -> Nat] /\ edit \in [Editors -> Edits] /\ asked \in Seq(Tasks)
      /\ trigger \in [Callers -> Calls] /\ ~Live(t) /\ Idle.task # t /\ NoEdit.task # t
  BY TasksAssumption DEF Typed, Live, Before, Idle, NoEdit
<1>2. ASSUME NEW p \in Editors PROVE edit'[p].task # t
  <2>1. CASE edit' = edit BY <1>0, <2>1
  <2>2. ASSUME NEW u \in Tasks, NEW q \in Editors,
               NEW change \in Changes, BeginUpdate(q, u, change)
        PROVE  edit'[p].task # t
    BY <1>0, <1>1, <2>2 DEF BeginUpdate
  <2>3. ASSUME NEW q \in Editors, CommitUpdate(q) PROVE edit'[p].task # t
    BY <1>0, <1>1, <2>3 DEF CommitUpdate
  <2>4. ASSUME NEW c \in Callers, ExecuteTrigger(c) PROVE edit' = edit
    BY <2>4, CallerMoves
  <2> QED BY <2>1, <2>2, <2>3, <2>4 DEF Next, Api, Create, Duplicate, Delete, Trigger, Sync,
      SyncRead, SyncApply, Consume, Crash, Restart, DatePasses, Fire, vars
<1>3. CASE Elsewhere
  <2>1. ASSUME NEW u \in Tasks, Live(u), asked' = Append(asked, u)
        PROVE  \A i \in 1..Len(asked') : asked'[i] # t
    BY <1>0, <1>1, <2>1
  <2> QED BY <1>0, <1>2, <1>3, <2>1, ElsewhereNobodyCalls
<1>4. ASSUME NEW u \in Tasks, Fire(u) PROVE u # t /\ runs' = runs /\ asked' = asked
                                         /\ \A c \in Callers : trigger'[c].task # t
  <2>1. u # t BY <1>0, <1>4 DEF Fire, Lineage
  <2> QED BY <1>0, <1>1, <1>4, <2>1 DEF Fire
<1>5. CASE Consume
  <2>1. Head(asked) # t BY <1>0, <1>1, <1>5 DEF Consume
  <2> QED BY <1>0, <1>1, <1>2, <1>5, <2>1 DEF Consume
<1>6. ASSUME NEW c \in Callers, ExecuteTrigger(c)
      PROVE  /\ runs'[t] = 0
             /\ \A d \in Callers : trigger'[d].task # t
             /\ \A i \in 1..Len(asked') : asked'[i] # t
  <2>1. runs'[t] = 0 BY <1>0, <1>1, <1>6, CallerMoves
  <2>2. CASE Return(c)
    <3>1. \A d \in Callers : trigger'[d].task # t BY <1>0, <1>1, <2>2 DEF Return
    <3>2. c = "stream" => asked # <<>> BY <1>6, CallerMoves DEF Calling
    <3>3. asked # <<>> => \A i \in 1..Len(Tail(asked)) : Tail(asked)[i] # t
      BY <1>0, <1>1
    <3> QED BY <1>0, <2>1, <2>2, <3>1, <3>2, <3>3 DEF Return
  <2>3. ASSUME NEW pc \in {"create", "mark"}, trigger' = [trigger EXCEPT ![c].pc = pc]
        PROVE  \A d \in Callers : trigger'[d].task # t
    BY <1>0, <1>1, <2>3 DEF Calls
  <2> QED BY <1>0, <1>6, <2>1, <2>2, <2>3, CallerMoves
<1>7. CASE Crash BY <1>0, <1>1, <1>2, <1>7 DEF Crash
<1> QED BY <1>0, <1>2, <1>3, <1>4, <1>5, <1>6, <1>7 DEF Next, Elsewhere

\* Every step keeps where the tasks have come from.
LEMMA LineageStep == ASSUME Typed, Lineage, Calling, [Next]_vars PROVE Lineage'
<1> SUFFICES ASSUME NEW t \in Tasks
    PROVE ( /\ Before(t) =>
                 /\ row[t] = Unborn /\ runs[t] = 0 /\ jobs[t] = NoJob /\ Seen(t) = Unborn
                 /\ \A p \in Editors : edit[p].task # t
                 /\ \A c \in Callers : trigger[c].task # t
                 /\ \A i \in 1..Len(asked) : asked[i] # t
            /\ ~Before(t) => row[t].version # 0
            /\ t \in timer => jobs[t] # NoJob
            /\ jobs[t] # NoJob => jobs[t].version # 0
            /\ jobs[t] # NoJob /\ jobs[t].kind = "interval" => t \in timer
            /\ snapshot.open \/ Seen(t) = Unborn
            /\ Wanted(t) => Seen(t).version # 0 )'
  BY DEF Lineage
<1>1. CASE Before(t)'
  <2>1. Before(t) /\ row'[t] = row[t] BY <1>1, RowKeeps
  <2>2. row'[t] = Unborn BY <2>1 DEF Lineage
  <2> QED BY <1>1, <2>1, <2>2, JobsKeep, UnbornIsLeftAlone
<1>2. CASE ~Before(t)' BY <1>2, RowKeeps, JobsKeep
<1> QED BY <1>1, <1>2

-----------------------------------------------------------------------------
\* What is not above a number is below its successor.
LEMMA OneMore == \A j, r \in Nat : j <= r => j <= r + 1 /\ j # r + 1
OBVIOUS

\* Who writes the PATCHes that are open.
LEMMA EditsMove ==
  ASSUME Typed, Calling, [Next]_vars
  PROVE  \/ UNCHANGED <<edit, clashed>>
         \/ \E u \in Tasks, p \in Editors, change \in Changes :
              BeginUpdate(p, u, change)
         \/ \E p \in Editors : CommitUpdate(p)
<1> USE DEF apiVars, jobVars, workVars, counts
<1>1. ASSUME NEW c \in Callers, ExecuteTrigger(c) PROVE UNCHANGED <<edit, clashed>>
  BY <1>1, CallerMoves
<1> QED BY <1>1 DEF Next, Api, Create, Duplicate, Delete, Trigger, Sync, SyncRead, SyncApply,
    Consume, Crash, Restart, DatePasses, Fire, vars

\* The PATCHes of a task whose PATCHes never overlap.
LEMMA OneEditor ==
  ASSUME Typed, Calling, Versioned, [Next]_vars, NEW t \in Tasks, t \notin clashed'
  PROVE  /\ t \notin clashed
         /\ \A p, q \in Editors : edit'[p].task = t /\ edit'[q].task = t => p = q
         /\ \/ \A p \in Editors : edit'[p].task = t => edit'[p].version = row[t].version
            \/ \E p \in Editors : CommitUpdate(p) /\ edit[p].task = t
         /\ \A p \in Editors : CommitUpdate(p) /\ edit[p].task = t =>
              \A q \in Editors : edit'[q].task # t
<1> USE DEF apiVars, jobVars, workVars, counts
<1>0. edit \in [Editors -> Edits] /\ NoEdit.task # t
  BY TasksAssumption DEF Typed, NoEdit
<1>1. t \notin clashed BY EditsMove DEF BeginUpdate, CommitUpdate
<1>2. /\ \A p \in Editors : edit[p].task = t => edit[p].version = row[t].version
      /\ \A p, q \in Editors : edit[p].task = t /\ edit[q].task = t => p = q
  BY <1>1 DEF Versioned, VersionedAt
<1>3. ASSUME NEW p \in Editors, CommitUpdate(p)
      PROVE  /\ \A q \in Editors : edit'[q].task = t => edit'[q] = edit[q]
             /\ edit[p].task = t => \A q \in Editors : edit'[q].task # t
  <2>1. \A q \in Editors : edit'[q] = IF q = p THEN NoEdit ELSE edit[q]
    BY <1>0, <1>3 DEF CommitUpdate
  <2> QED BY <1>0, <1>2, <2>1
<1>4. ASSUME NEW u \in Tasks, NEW p \in Editors,
             NEW change \in Changes, BeginUpdate(p, u, change)
      PROVE  /\ \A q \in Editors : edit'[q].task = t => edit'[q].version = row[t].version
             /\ \A q, r \in Editors : edit'[q].task = t /\ edit'[r].task = t => q = r
             /\ \A q \in Editors : CommitUpdate(q) => edit[q].task # t
  <2>1. /\ edit'[p].task = u /\ edit'[p].version = row[u].version
        /\ \A q \in Editors : q # p => edit'[q] = edit[q]
        /\ edit[p].task = NoTask
    BY <1>0, <1>4 DEF BeginUpdate
  <2>2. u = t => \A q \in Editors : edit[q].task # t
    BY <1>4 DEF BeginUpdate
  <2>3. \A q \in Editors : CommitUpdate(q) => edit[q].task # t
    <3> SUFFICES ASSUME NEW q \in Editors, CommitUpdate(q), edit[q].task = t PROVE FALSE
      OBVIOUS
    <3>1. \A r \in Editors : edit'[r].task # t BY <1>3
    <3>2. q # p BY <2>1, TasksAssumption
    <3> QED BY <2>1, <3>1, <3>2
  <2> QED BY <1>2, <2>1, <2>2, <2>3
<1>5. CASE UNCHANGED <<edit, clashed>>
  <2>1. \A q \in Editors : CommitUpdate(q) => edit[q].task # t
    BY <1>0, <1>3, <1>5
  <2> QED BY <1>1, <1>2, <1>5, <2>1
<1>6. ASSUME NEW p \in Editors, CommitUpdate(p)
      PROVE  /\ \A q \in Editors : edit'[q].task = t => edit'[q].version = row[t].version
             /\ \A q, r \in Editors : edit'[q].task = t /\ edit'[r].task = t => q = r
  BY <1>2, <1>3, <1>6
<1> QED BY <1>1, <1>3, <1>4, <1>5, <1>6, EditsMove

\* Every step keeps one schedule per version where PATCHes do not overlap.
LEMMA VersionedStep ==
  ASSUME Typed, Lineage, Calling, Versioned, [Next]_vars PROVE Versioned'
<1> SUFFICES ASSUME NEW t \in Tasks, t \notin clashed' PROVE VersionedAt(t)'
  BY DEF Versioned
<1>0. /\ row'[t] \in Rows /\ row[t] \in Rows /\ Seen(t) \in Rows /\ VersionedAt(t)
      /\ jobs[t].version \in Nat /\ Unborn.version = 0 /\ NoJob.version = 0
  BY TypedStep, OneEditor DEF Typed, Seen, Versioned, Unborn, NoJob, Jobs
<1>1. row[t].version \in Nat /\ row'[t].version \in Nat /\ Seen(t).version \in Nat
  BY <1>0 DEF Rows
<1>2. \A p, q \in Editors : edit'[p].task = t /\ edit'[q].task = t => p = q
  BY OneEditor
<1>3. CASE Before(t)
  <2>1. \A p \in Editors : edit'[p].task # t BY <1>3, UnbornIsLeftAlone
  <2>2. jobs'[t] = NoJob /\ Seen(t)' = Unborn BY <1>3, JobsKeep DEF Lineage
  <2>3. row'[t].version = 0 => row'[t] = Unborn BY LineageStep DEF Lineage
  <2>4. jobs'[t].version <= row'[t].version /\ Seen(t)'.version <= row'[t].version
    BY <1>0, <1>1, <2>2
  <2> QED BY <1>0, <1>2, <2>1, <2>2, <2>3, <2>4 DEF VersionedAt
<1>4. ASSUME NEW p \in Editors, CommitUpdate(p), edit[p].task = t, ~Before(t)
      PROVE  VersionedAt(t)'
  <2>1. \A q \in Editors : edit'[q].task # t BY <1>4, OneEditor
  <2>2. jobs'[t] = jobs[t] /\ Seen(t)' = Seen(t)
    BY <1>4 DEF CommitUpdate, jobVars, Seen
  <2>3. edit[p].version = row[t].version BY <1>0, <1>4 DEF VersionedAt
  <2>4. CASE row'[t] = row[t] BY <1>0, <2>1, <2>2, <2>4 DEF VersionedAt
  <2>5. CASE row'[t] = Changed(row[t], edit[p])
    <3>1. row'[t].version = row[t].version + 1 BY <2>3, <2>5, PatchedRow
    <3>2. /\ jobs[t].version <= row'[t].version /\ jobs[t].version # row'[t].version
          /\ Seen(t).version <= row'[t].version /\ Seen(t).version # row'[t].version
      BY <1>0, <1>1, <3>1, OneMore DEF VersionedAt
    <3> QED BY <1>0, <2>1, <2>2, <3>2 DEF VersionedAt
  <2>6. row'[t] = row[t] \/ row'[t] = Changed(row[t], edit[p])
    BY <1>4 DEF CommitUpdate, Write, Typed
  <2> QED BY <2>4, <2>5, <2>6
<1>5. ASSUME ~Before(t), ~ \E p \in Editors : CommitUpdate(p) /\ edit[p].task = t
      PROVE  VersionedAt(t)'
  <2>1. /\ row'[t].version = row[t].version /\ row'[t].schedule = row[t].schedule
        /\ row'[t].kind = row[t].kind /\ row'[t].given = row[t].given
    BY <1>5, RowMoves DEF Fades, Arrives
  <2>2. row[t].version # 0 /\ 0 <= row[t].version BY <1>1, <1>5 DEF Lineage
  <2>3. \A p \in Editors : edit'[p].task = t => edit'[p].version = row'[t].version
    BY <1>5, <2>1, OneEditor
  <2>4. \A j : Serves(j, row'[t]) <=> Serves(j, row[t]) BY <2>1 DEF Serves, Schedulable
  <2>5. jobs'[t] # NoJob => jobs'[t].version # 0 BY JobsKeep
  <2>6. ASSUME jobs'[t] = jobs[t], Seen(t)' = Seen(t) PROVE VersionedAt(t)'
    BY <1>0, <1>2, <2>1, <2>3, <2>4, <2>6 DEF VersionedAt
  <2>7. ASSUME jobs'[t] = jobs[t], Seen(t)' = row[t] PROVE VersionedAt(t)'
    <3>1. row[t].version <= row[t].version BY <1>1
    <3> QED BY <1>0, <1>2, <2>1, <2>3, <2>4, <2>7, <3>1 DEF VersionedAt
  <2>8. ASSUME Seen(t)' = Unborn, jobs'[t].version <= row[t].version,
               jobs'[t] # NoJob /\ jobs'[t].version = row[t].version => Serves(jobs'[t], row[t])
        PROVE  VersionedAt(t)'
    BY <1>0, <1>2, <2>1, <2>2, <2>3, <2>4, <2>5, <2>8 DEF VersionedAt
  <2>9. ASSUME Seen(t)' = Unborn, jobs'[t] = jobs[t] \/ jobs'[t] = NoJob PROVE VersionedAt(t)'
    BY <1>0, <2>2, <2>8, <2>9 DEF VersionedAt
  <2>10. CASE Resynchronised(t)
    <3>1. Seen(t)' = Unborn BY <2>10 DEF Resynchronised
    <3>2. CASE Serves(jobs'[t], Seen(t)) /\ jobs'[t].version = Seen(t).version
      <4>1. Seen(t).version = row[t].version => Serves(jobs'[t], row[t])
        BY <1>0, <3>2 DEF VersionedAt, Serves, Schedulable
      <4>2. Seen(t).version <= row[t].version BY <1>0 DEF VersionedAt
      <4> QED BY <2>8, <3>1, <3>2, <4>1, <4>2
    <3> QED BY <2>9, <2>10, <3>1, <3>2 DEF Resynchronised
  <2>11. CASE Fire(t)
    <3>1. jobs'[t] = jobs[t] /\ Seen(t)' = Seen(t) BY <2>11 DEF Fire, Seen
    <3> QED BY <2>6, <3>1
  <2> QED BY <2>6, <2>7, <2>9, <2>10, <2>11, JobMoves
<1> QED BY <1>3, <1>4, <1>5

-----------------------------------------------------------------------------
\* Nothing that sync_jobs looks at has changed.
Unmoved(t) ==
    /\ row'[t].state = row[t].state /\ row'[t].enabled = row[t].enabled
    /\ row'[t].kind = row[t].kind /\ row'[t].given = row[t].given
    /\ row'[t].version = row[t].version /\ row'[t].schedule = row[t].schedule

\* Only the passing of a date changes a row and leaves it stable.
LEMMA StableRowsStay ==
  ASSUME Typed, Lineage, Calling, [Next]_vars, NEW t \in Tasks, t \in stable'
  PROVE  Unmoved(t) /\ (t \in stable \/ SyncRead)
<1> USE DEF apiVars, jobVars, workVars, counts, Write
<1>0. row \in [Tasks -> Rows] /\ row[t] \in Rows BY DEF Typed
<1>1. ASSUME NEW u \in Tasks, NEW new, row' = [row EXCEPT ![u] = new], stable' = stable \ {u}
      PROVE  Unmoved(t) /\ t \in stable
  BY <1>0, <1>1 DEF Unmoved
<1>2. ASSUME row' = row, stable' = stable PROVE Unmoved(t) /\ t \in stable
  BY <1>2 DEF Unmoved
<1>3. CASE Api
  <2>1. ASSUME NEW p \in Editors, CommitUpdate(p) PROVE Unmoved(t) /\ t \in stable
    <3>1. edit[p].task \in Tasks BY <2>1 DEF CommitUpdate, Typed, Edits
    <3> QED BY <1>1, <1>2, <2>1, <3>1 DEF CommitUpdate
  <2>2. ASSUME NEW u \in Tasks, NEW kind \in Kinds, NEW given \in SUBSET Params,
               NEW on \in BOOLEAN, Create(u, kind, given, on)
        PROVE  Unmoved(t) /\ t \in stable
    BY <1>1, <2>2 DEF Create
  <2>3. ASSUME NEW u \in Tasks, NEW copy \in Tasks, Duplicate(u, copy)
        PROVE  Unmoved(t) /\ t \in stable
    BY <1>1, <2>3 DEF Duplicate
  <2>4. ASSUME NEW u \in Tasks, Delete(u) PROVE Unmoved(t) /\ t \in stable
    BY <1>1, <2>4 DEF Delete
  <2>5. ASSUME NEW u \in Tasks, Trigger(u) PROVE Unmoved(t) /\ t \in stable
    BY <1>2, <2>5 DEF Trigger
  <2>6. ASSUME NEW u \in Tasks, NEW p \in Editors,
               NEW change \in Changes, BeginUpdate(p, u, change)
        PROVE  Unmoved(t) /\ t \in stable
    BY <1>2, <2>6 DEF BeginUpdate
  <2> QED BY <1>3, <2>1, <2>2, <2>3, <2>4, <2>5, <2>6 DEF Api
<1>4. CASE SyncRead BY <1>4 DEF SyncRead, Unmoved
<1>5. ASSUME NEW u \in Tasks, DatePasses(u) \/ Fire(u) PROVE Unmoved(t) /\ t \in stable
  <2>1. t \in stable /\ (row'[t] = row[t] \/ row'[t] = [row[t] EXCEPT !.past = TRUE])
    BY <1>0, <1>5 DEF DatePasses, Fire
  <2> QED BY <1>0, <2>1 DEF Unmoved, Rows
<1>6. ASSUME NEW c \in Callers, ExecuteTrigger(c) PROVE Unmoved(t) /\ t \in stable
  <2>1. trigger[c].task \in Tasks BY <1>6, CallerMoves
  <2>2. CASE MarkRun(c) BY <1>1, <1>2, <2>1, <2>2 DEF MarkRun
  <2> QED BY <1>2, <1>6, <2>2 DEF ExecuteTrigger, ReadTask, CreateRun, EnqueueFails
<1>7. CASE SyncApply \/ Consume \/ Crash \/ Restart \/ UNCHANGED vars
  BY <1>2, <1>7 DEF SyncApply, Consume, Crash, Restart, vars
<1> QED BY <1>3, <1>4, <1>5, <1>6, <1>7 DEF Next, Sync

\* Every step keeps what sync_jobs has read equal to the rows nobody wrote.
LEMMA CurrentStep == ASSUME Typed, Lineage, Calling, Current, [Next]_vars PROVE Current'
<1> SUFFICES ASSUME snapshot'.open, NEW t \in Tasks, t \in stable' PROVE CurrentAt(t)'
  BY TypedStep DEF Current, Typed
<1>0. (Wanted(t) <=> Seen(t) # Unborn) /\ (Wanted(t)' <=> Seen(t)' # Unborn)
  BY DEF Wanted, Seen
<1>1. Unmoved(t) /\ (t \in stable \/ SyncRead) BY StableRowsStay
<1>2. CASE SyncRead
  <2>1. Seen(t)' = (IF Live(t) /\ row[t].enabled THEN row[t] ELSE Unborn) /\ row' = row
    BY <1>2 DEF SyncRead, Seen
  <2>2. Live(t)' = Live(t) /\ (Live(t) => row[t] # Unborn) BY <2>1 DEF Live, Unborn
  <2>3. Wanted(t)' <=> Live(t) /\ row[t].enabled BY <1>0, <2>1, <2>2
  <2> QED BY <2>1, <2>2, <2>3 DEF CurrentAt
<1>3. CASE Seen(t)' = Seen(t) /\ snapshot' = snapshot /\ t \in stable
  <2>1. CurrentAt(t) BY <1>3 DEF Current
  <2>2. Live(t)' <=> Live(t) BY <1>1 DEF Unmoved, Live
  <2> QED BY <1>0, <1>1, <1>3, <2>1, <2>2 DEF Unmoved, CurrentAt
<1>4. CASE Fire(t)
  <2>1. Seen(t)' = Seen(t) /\ snapshot' = snapshot /\ stable' = stable
    BY <1>4 DEF Fire, Seen
  <2> QED BY <1>3, <2>1
<1>5. ~Resynchronised(t) /\ ~Crash
  BY DEF Resynchronised, SyncApply, Crash, Closed
<1> QED BY <1>1, <1>2, <1>3, <1>4, <1>5, JobMoves

\* Every step keeps the jobs behind the rows nobody wrote.
LEMMA FollowsStep ==
  ASSUME Typed, Lineage, Calling, Versioned, Current, JobsFollowTheRows, [Next]_vars
  PROVE  JobsFollowTheRows'
<1> DEFINE Follows(j, r, live) ==
             /\ j # NoJob <=> live /\ r.enabled /\ Schedulable(r)
             /\ j # NoJob => j.kind = r.kind /\ j.schedule = r.schedule
<1> SUFFICES ASSUME worker' = "up", ~snapshot'.open, NEW t \in Tasks, t \in stable',
                    t \notin clashed'
             PROVE  Follows(jobs'[t], row'[t], Live(t)')
  <2>1. ASSUME NEW t \in Tasks, Follows(jobs'[t], row'[t], Live(t)')
        PROVE  (jobs'[t] # NoJob /\ row'[t].kind = "interval") => t \in timer'
    BY <2>1, JobsKeep
  <2>2. stable' \subseteq Tasks BY TypedStep DEF Typed
  <2> QED BY <2>1, <2>2 DEF JobsFollowTheRows
<1>1. Unmoved(t) /\ (t \in stable \/ SyncRead) BY StableRowsStay
<1>2. ~SyncRead /\ ~Crash BY DEF SyncRead, Crash
<1>3. t \notin clashed BY OneEditor
<1>4. (Live(t)' <=> Live(t)) /\ (Schedulable(row'[t]) <=> Schedulable(row[t]))
  BY <1>1 DEF Unmoved, Live, Schedulable
<1>5. worker = "up" \/ SyncApply
  <2>1. ASSUME NEW c \in Callers, ExecuteTrigger(c) PROVE worker' = worker
    BY <2>1, CallerMoves
  <2> QED BY <1>2, <2>1 DEF Next, Api, Create, Duplicate, Delete, Trigger, BeginUpdate,
      CommitUpdate, Sync, Consume, Restart, DatePasses, Fire, vars, workVars
<1>6. ASSUME Follows(jobs'[t], row[t], Live(t)) PROVE Follows(jobs'[t], row'[t], Live(t)')
  BY <1>1, <1>4, <1>6 DEF Unmoved
<1>7. CASE jobs'[t] = jobs[t] /\ snapshot' = snapshot /\ worker = "up"
  <2>1. Follows(jobs[t], row[t], Live(t)) BY <1>1, <1>2, <1>3, <1>7 DEF JobsFollowTheRows
  <2> QED BY <1>6, <1>7, <2>1
<1>8. CASE Resynchronised(t)
  <2>1. snapshot.open /\ t \in stable BY <1>1, <1>2, <1>8 DEF Resynchronised, SyncApply
  <2>2. CurrentAt(t) BY <2>1 DEF Current
  <2>3. Wanted(t) => (Schedulable(Seen(t)) <=> Schedulable(row[t]))
    BY <2>2 DEF CurrentAt, Schedulable
  <2>4. CASE ~Wanted(t) /\ jobs'[t] = NoJob
    BY <1>6, <2>2, <2>4 DEF CurrentAt
  <2>5. CASE Outdated(t) /\ ~Schedulable(Seen(t)) /\ jobs'[t] = NoJob
    <3>1. ~Schedulable(row[t]) BY <2>3, <2>5 DEF Outdated
    <3> QED BY <1>6, <2>5, <3>1
  <2>6. CASE Wanted(t) /\ jobs'[t] # NoJob /\ Serves(jobs'[t], Seen(t))
    BY <1>6, <2>2, <2>3, <2>6 DEF CurrentAt, Serves
  <2>7. CASE Wanted(t) /\ ~Outdated(t) /\ jobs'[t] = jobs[t]
    <3>1. jobs[t].version = Seen(t).version BY <2>7 DEF Outdated, Seen
    <3>2. Seen(t).version # 0 BY <2>7 DEF Lineage
    <3>3. jobs[t] # NoJob BY <3>1, <3>2 DEF NoJob
    <3>4. Serves(jobs[t], Seen(t)) BY <1>3, <3>1, <3>3 DEF Versioned, VersionedAt
    <3> QED BY <2>6, <2>7, <3>3, <3>4
  <2>8. Outdated(t) => Wanted(t) BY DEF Outdated
  <2> QED BY <1>8, <2>4, <2>5, <2>6, <2>7, <2>8 DEF Resynchronised
<1>9. CASE Fire(t)
  <2>1. jobs'[t] = jobs[t] /\ snapshot' = snapshot /\ worker = "up" BY <1>9 DEF Fire
  <2> QED BY <1>7, <2>1
<1>10. CASE SyncApply
  <2>1. snapshot.open /\ ~Closed.open BY <1>10 DEF SyncApply, Closed
  <2>2. snapshot' # snapshot BY <1>10, <2>1 DEF SyncApply
  <2> QED BY <1>2, <1>8, <1>9, <2>2, JobMoves
<1> QED BY <1>2, <1>5, <1>7, <1>8, <1>9, <1>10, JobMoves

-----------------------------------------------------------------------------
(* How often a one-shot runs.                                              *)

\* The open PATCHes can be counted.
LEMMA OpenIsFinite ==
  ASSUME NEW t PROVE IsFiniteSet(Open(t)) /\ Cardinality(Open(t)) \in Nat
<1>1. Open(t) \subseteq Editors BY DEF Open
<1>2. IsFiniteSet(Editors) BY TasksAssumption
<1> QED BY <1>1, <1>2, FS_Subset, FS_CardinalityType

\* Excuses only add up.
LEMMA ExcusesGrow ==
  ASSUME Typed, Calling, [Next]_vars
  PROVE  excuses \in Nat /\ excuses' \in Nat /\ excuses <= excuses'
<1> USE DEF counts, Event
<1>0. excuses \in Nat /\ excuses' \in Nat BY TypedStep DEF Typed
<1>1. CASE Crash
  <2>1. Cardinality({c \in Callers : trigger[c].pc = "mark"}) \in Nat BY CallersAreFinite
  <2>2. excuses' = excuses + Cardinality({c \in Callers : trigger[c].pc = "mark"})
    BY <1>1 DEF Crash
  <2> QED BY <1>0, <2>1, <2>2
<1>2. CASE ~Crash
  <2>1. excuses' = excuses \/ excuses' = excuses + 0 \/ excuses' = excuses + 1
        \/ excuses' = excuses + 2
    BY <1>2 DEF Next, Api, Create, Duplicate, Delete, Trigger, BeginUpdate, CommitUpdate, Sync,
       SyncRead, SyncApply, Consume, Restart, DatePasses, Fire, ExecuteTrigger, ReadTask,
       CreateRun, EnqueueFails, MarkRun, vars
  <2> QED BY <1>0, <2>1
<1> QED BY <1>1, <1>2

\* A task that is created has its two runs before it.
LEMMA NewTasksAreBounded ==
  ASSUME Typed, Lineage, Calling, [Next]_vars, NEW t \in Tasks, Before(t)
  PROVE  BudgetAt(t)'
<1>1. runs'[t] = 0 /\ \A p \in Editors : edit'[p].task # t BY UnbornIsLeftAlone
<1>2. Cardinality(Open(t)') = 0
  <2>1. Open(t)' = {} BY <1>1 DEF Open
  <2> QED BY <2>1, FS_EmptySet
<1>3. Num(May(t, t))' \in {0, 1} /\ Num(May("stream", t))' \in {0, 1} BY DEF Num
<1>4. excuses' \in Nat BY ExcusesGrow
<1> QED BY <1>1, <1>2, <1>3, <1>4 DEF BudgetAt

\* Patched(t): one of the PATCHes of t is written.
Patched(t) == \E p \in Editors : CommitUpdate(p) /\ edit[p].task = t

\* A task that nobody patches keeps its kind and is not enabled again.
LEMMA LivesLess ==
  ASSUME Typed, Lineage, Calling, [Next]_vars, NEW t \in Tasks, ~Before(t), ~Patched(t)
  PROVE  /\ (Live(t) /\ row[t].enabled)' => Live(t) /\ row[t].enabled
         /\ row'[t].kind = row[t].kind
<1>1. CASE row'[t] = row[t] BY <1>1 DEF Live
<1>2. CASE Fades(t) BY <1>2 DEF Fades, Live
<1> QED BY <1>1, <1>2, RowMoves DEF Arrives, Patched

\* How a caller gets on.
LEMMA CallMoves ==
  ASSUME Typed, Calling, [Next]_vars, NEW c \in Callers
  PROVE  \/ trigger'[c] = trigger[c]
         \/ trigger[c].pc = "idle" /\ trigger'[c].pc = "read"
         \/ Crash \/ ExecuteTrigger(c)
<1>0. trigger \in [Callers -> Calls] BY DEF Typed
<1>1. CASE Elsewhere BY <1>1, ElsewhereNobodyCalls
<1>2. ASSUME NEW u \in Tasks, Fire(u)
      PROVE  trigger'[c] = trigger[c] \/ (trigger[c].pc = "idle" /\ trigger'[c].pc = "read")
  BY <1>0, <1>2 DEF Fire
<1>3. CASE Consume BY <1>0, <1>3 DEF Consume
<1>4. ASSUME NEW d \in Callers, ExecuteTrigger(d), d # c PROVE trigger'[c] = trigger[c]
  BY <1>0, <1>4, CallerMoves DEF Return
<1> QED BY <1>1, <1>2, <1>3, <1>4 DEF Next, Elsewhere

\* Without a PATCH or a fault a caller gets no run it did not have.
LEMMA MayStays ==
  ASSUME Typed, Lineage, Calling, [Next]_vars, NEW t \in Tasks, NEW c \in Callers,
         ~Before(t), ~Patched(t), ~Crash, ~EnqueueFails(c), May(c, t)'
  PROVE  May(c, t)
<1>0. /\ trigger \in [Callers -> Calls]
      /\ (Live(t) /\ row[t].enabled)' => Live(t) /\ row[t].enabled
      /\ row'[t].kind = row[t].kind
  BY LivesLess DEF Typed
<1>1. CASE trigger'[c] = trigger[c] BY <1>0, <1>1 DEF May, Making, Marking
<1>2. CASE trigger[c].pc = "idle" /\ trigger'[c].pc = "read"
  BY <1>0, <1>2 DEF May, Making, Marking
<1>3. ASSUME trigger[c].pc = "read", Return(c) PROVE May(c, t)
  <2>1. trigger'[c].pc = "idle" BY <1>0, <1>3 DEF Return, Idle
  <2> QED BY <1>0, <1>3, <2>1 DEF May, Making, Marking
<1>4. CASE ReadTask(c)
  <2>1. trigger[c].pc = "read" BY <1>4 DEF ReadTask
  <2>2. CASE ~Return(c)
    <3>1. /\ trigger' = [trigger EXCEPT ![c].pc = "create"]
          /\ Live(trigger[c].task) /\ row[trigger[c].task].enabled
      BY <1>4, <2>2 DEF ReadTask
    <3>2. trigger'[c].task = trigger[c].task BY <1>0, <3>1 DEF Calls
    <3> QED BY <1>0, <2>1, <3>1, <3>2 DEF May, Making, Marking
  <2> QED BY <1>3, <2>1, <2>2
<1>5. CASE CreateRun(c)
  <2>1. trigger[c].pc = "create" BY <1>5 DEF CreateRun
  <2>2. CASE trigger' = [trigger EXCEPT ![c].pc = "mark"]
    <3>1. trigger'[c].pc = "mark" /\ trigger'[c].task = trigger[c].task
      BY <1>0, <2>2 DEF Calls
    <3> QED BY <1>0, <2>1, <3>1 DEF May, Making, Marking
  <2>3. CASE Return(c)
    <3>1. trigger'[c].pc = "idle" BY <1>0, <2>3 DEF Return, Idle
    <3> QED BY <1>0, <2>1, <3>1 DEF May, Making, Marking
  <2> QED BY <1>5, <2>2, <2>3 DEF CreateRun
<1>6. CASE MarkRun(c)
  <2>1. trigger[c].pc = "mark" /\ trigger'[c].pc = "idle"
    BY <1>0, <1>6 DEF MarkRun, Return, Idle
  <2>2. CASE trigger[c].task = t /\ row[t].kind = "one_shot"
    <3>1. row[t] \in Rows /\ row \in [Tasks -> Rows] BY DEF Typed
    <3>2. CASE Live(t)
      <4>1. row'[t] = [row[t] EXCEPT !.enabled = FALSE]
        BY <1>6, <2>2, <3>1, <3>2 DEF MarkRun, Write
      <4>2. ~row'[t].enabled BY <3>1, <4>1 DEF Rows
      <4> QED BY <1>0, <2>1, <2>2, <4>2 DEF May, Making, Marking
    <3>3. CASE ~Live(t) BY <1>0, <2>1, <2>2, <3>3 DEF May, Making, Marking
    <3> QED BY <3>2, <3>3
  <2>3. CASE ~(trigger[c].task = t /\ row[t].kind = "one_shot")
    BY <1>0, <2>1, <2>3 DEF May, Making, Marking
  <2> QED BY <2>2, <2>3
<1> QED BY <1>1, <1>2, <1>4, <1>5, <1>6, CallMoves DEF ExecuteTrigger

\* A run is made by the stream or by a timer, which had it before them.
LEMMA RunsMove ==
  ASSUME Typed, Calling, [Next]_vars, NEW t \in Tasks
  PROVE  \/ runs'[t] = runs[t]
         \/ \E c \in {t, "stream"} :
              /\ runs'[t] = runs[t] + 1 /\ May(c, t) /\ ~May(c, t)'
              /\ edit' = edit /\ ~Crash /\ \A d \in Callers : ~EnqueueFails(d)
<1>0. trigger \in [Callers -> Calls] /\ runs \in [Tasks -> Nat] BY DEF Typed
<1>1. CASE Elsewhere BY <1>1, ElsewhereNobodyCalls
<1>2. ASSUME NEW u \in Tasks, Fire(u) PROVE runs' = runs BY <1>2 DEF Fire
<1>3. CASE Consume \/ Crash BY <1>3 DEF Consume, Crash
<1>4. ASSUME NEW c \in Callers, ExecuteTrigger(c), ~CreateRun(c) PROVE runs' = runs
  BY <1>4 DEF ExecuteTrigger, ReadTask, EnqueueFails, MarkRun, workVars
<1>5. ASSUME NEW c \in Callers, CreateRun(c), runs'[t] # runs[t]
      PROVE  /\ c \in {t, "stream"}
             /\ runs'[t] = runs[t] + 1 /\ May(c, t) /\ ~May(c, t)'
             /\ edit' = edit /\ ~Crash /\ \A d \in Callers : ~EnqueueFails(d)
  <2>1. /\ trigger[c].pc = "create" /\ trigger[c].task = t /\ Live(t)
        /\ trigger' = [trigger EXCEPT ![c].pc = "mark"] /\ row' = row /\ edit' = edit
    BY <1>0, <1>5 DEF CreateRun, apiVars
  <2>2. runs'[t] = (IF row[t].kind = "one_shot" THEN runs[t] + 1 ELSE runs[t])
    BY <1>0, <1>5, <2>1 DEF CreateRun
  <2>3. row[t].kind = "one_shot" /\ runs'[t] = runs[t] + 1 BY <1>5, <2>2
  <2>4. trigger'[c].pc = "mark" /\ trigger'[c].task = t BY <1>0, <2>1 DEF Calls
  <2>5. c = "stream" \/ c = t BY <1>0, <2>1 DEF Calling, Callers
  <2>6. May(c, t) /\ ~May(c, t)' BY <2>1, <2>3, <2>4 DEF May, Making, Marking
  <2>7. runs' # runs BY <1>5
  <2>8. ~Crash /\ \A d \in Callers : ~EnqueueFails(d)
    BY <2>7 DEF Crash, EnqueueFails, workVars
  <2> QED BY <2>1, <2>3, <2>5, <2>6, <2>8
<1> QED BY <1>1, <1>2, <1>3, <1>4, <1>5 DEF Next, Elsewhere

\* What a crash interrupts can come again, once for each caller it interrupts.
LEMMA CrashingIsExcused ==
  ASSUME Typed, Calling, Crash, NEW t \in Tasks
  PROVE  \E n \in Nat : /\ excuses' = excuses + n
                        /\ Num(May(t, t))' + Num(May("stream", t))'
                             <= Num(May(t, t)) + Num(May("stream", t)) + n
<1> DEFINE Marked == {c \in Callers : trigger[c].pc = "mark"}
           New == {c \in {t, "stream"} : May(c, t)' /\ ~May(c, t)}
<1>0. /\ trigger \in [Callers -> Calls] /\ t \in Callers /\ "stream" \in Callers
      /\ t # "stream" /\ excuses \in Nat
  BY TasksAssumption DEF Typed, Callers
<1>1. excuses' = excuses + Cardinality(Marked) /\ row' = row
  BY DEF Crash, Event, apiVars
<1>2. New \subseteq Marked
  <2> SUFFICES ASSUME NEW c \in {t, "stream"}, May(c, t)', ~May(c, t) PROVE c \in Marked
    OBVIOUS
  <2>1. c \in Callers /\ trigger'[c].pc = "idle" BY <1>0 DEF Crash, Idle
  <2>2. (Live(t)' <=> Live(t)) /\ row'[t] = row[t] BY <1>1 DEF Live
  <2>3. Marking(c, t) BY <2>1, <2>2 DEF May, Making, Marking
  <2> QED BY <2>1, <2>3 DEF Marking
<1>3. IsFiniteSet(Marked) /\ Cardinality(Marked) \in Nat BY CallersAreFinite
<1>4. Cardinality(New) \in Nat /\ Cardinality(New) <= Cardinality(Marked)
  BY <1>2, <1>3, FS_Subset, FS_CardinalityType
<1>5. Num(May(t, t))' + Num(May("stream", t))'
        <= Num(May(t, t)) + Num(May("stream", t)) + Cardinality(New)
  <2>1. CASE t \in New /\ "stream" \in New
    <3>1. New = {t, "stream"} BY <2>1
    <3>2. Cardinality(New) = 2
      <4>1. {t, "stream"} = {t} \cup {"stream"} /\ "stream" \notin {t} BY <1>0
      <4>2. IsFiniteSet({t}) /\ Cardinality({t}) = 1 BY FS_Singleton
      <4> QED BY <3>1, <4>1, <4>2, FS_AddElement
    <3> QED BY <3>2 DEF Num
  <2>2. CASE t \in New /\ "stream" \notin New
    <3>1. New = {t} BY <2>2
    <3>2. Cardinality(New) = 1 BY <3>1, FS_Singleton
    <3>3. May("stream", t)' => May("stream", t) BY <2>2
    <3> QED BY <3>2, <3>3 DEF Num
  <2>3. CASE t \notin New /\ "stream" \in New
    <3>1. New = {"stream"} BY <2>3
    <3>2. Cardinality(New) = 1 BY <3>1, FS_Singleton
    <3>3. May(t, t)' => May(t, t) BY <2>3
    <3> QED BY <3>2, <3>3 DEF Num
  <2>4. CASE t \notin New /\ "stream" \notin New
    <3>1. (May(t, t)' => May(t, t)) /\ (May("stream", t)' => May("stream", t)) BY <2>4
    <3> QED BY <1>4, <3>1 DEF Num
  <2> QED BY <2>1, <2>2, <2>3, <2>4
<1>6. Num(May(t, t)) \in Nat /\ Num(May("stream", t)) \in Nat
      /\ Num(May(t, t))' \in Nat /\ Num(May("stream", t))' \in Nat
  BY DEF Num
<1>7. Num(May(t, t))' + Num(May("stream", t))'
        <= Num(May(t, t)) + Num(May("stream", t)) + Cardinality(Marked)
  BY <1>3, <1>4, <1>5, <1>6
<1> QED BY <1>1, <1>3, <1>7

\* A PATCH that begins has its excuses with it; one that is written is over.
LEMMA OpenMoves ==
  ASSUME Typed, Calling, [Next]_vars, NEW t \in Tasks
  PROVE  /\ Patched(t) => Cardinality(Open(t)') = Cardinality(Open(t)) - 1
         /\ edit' = edit => Open(t)' = Open(t) /\ ~Patched(t)
         /\ \/ Patched(t) \/ Open(t)' = Open(t)
            \/ /\ Cardinality(Open(t)') = Cardinality(Open(t)) + 1
               /\ excuses' = excuses + 2 /\ edit' # edit
<1>0. edit \in [Editors -> Edits] /\ NoEdit.task # t /\ NoTask # t
  BY TasksAssumption DEF Typed, NoEdit
<1>1. ASSUME NEW p \in Editors, CommitUpdate(p)
      PROVE  Open(t)' = Open(t) \ {p} /\ edit'[p].task # t
  <2>1. \A q \in Editors : edit'[q] = IF q = p THEN NoEdit ELSE edit[q]
    BY <1>0, <1>1 DEF CommitUpdate
  <2> QED BY <1>0, <2>1 DEF Open
<1>2. Patched(t) => Cardinality(Open(t)') = Cardinality(Open(t)) - 1
  <2> SUFFICES ASSUME NEW p \in Editors, CommitUpdate(p), edit[p].task = t
               PROVE  Cardinality(Open(t)') = Cardinality(Open(t)) - 1
    BY DEF Patched
  <2>1. p \in Open(t) BY DEF Open
  <2>2. Cardinality(Open(t) \ {p}) = Cardinality(Open(t)) - 1
    BY <2>1, OpenIsFinite, FS_RemoveElement
  <2> QED BY <1>1, <2>2
<1>3. edit' = edit => Open(t)' = Open(t) /\ ~Patched(t)
  BY <1>1 DEF Open, Patched
<1>4. ASSUME NEW p \in Editors, CommitUpdate(p) PROVE Patched(t) \/ Open(t)' = Open(t)
  BY <1>1, <1>4 DEF Patched, Open
<1>5. ASSUME NEW u \in Tasks, NEW p \in Editors,
             NEW change \in Changes, BeginUpdate(p, u, change)
      PROVE  \/ Open(t)' = Open(t)
             \/ /\ Cardinality(Open(t)') = Cardinality(Open(t)) + 1
                /\ excuses' = excuses + 2 /\ edit' # edit
  <2>1. /\ edit'[p].task = u /\ edit[p].task = NoTask
        /\ \A q \in Editors : q # p => edit'[q] = edit[q]
        /\ excuses' = excuses + 2
    BY <1>0, <1>5 DEF BeginUpdate, Event
  <2>2. CASE u # t
    <3>1. Open(t)' = Open(t) BY <1>0, <2>1, <2>2 DEF Open
    <3> QED BY <3>1
  <2>3. CASE u = t
    <3>1. Open(t)' = Open(t) \cup {p} /\ p \notin Open(t) BY <1>0, <2>1, <2>3 DEF Open
    <3>2. Cardinality(Open(t) \cup {p}) = Cardinality(Open(t)) + 1
      BY <3>1, OpenIsFinite, FS_AddElement
    <3> QED BY <1>0, <2>1, <2>3, <3>1, <3>2
  <2> QED BY <2>2, <2>3
<1> QED BY <1>2, <1>3, <1>4, <1>5, EditsMove

\* Every step keeps the runs made and to come within the excuses.
LEMMA BudgetStep ==
  ASSUME Typed, Lineage, Calling, Budget, [Next]_vars PROVE Budget'
<1> SUFFICES ASSUME NEW t \in Tasks, ~Before(t) PROVE BudgetAt(t)'
  BY NewTasksAreBounded DEF Budget
<1>0. "stream" \in Callers /\ t \in Callers /\ t # "stream"
  BY TasksAssumption DEF Callers
<1>1. /\ runs[t] \in Nat /\ runs'[t] \in Nat /\ excuses \in Nat /\ excuses' \in Nat
      /\ excuses <= excuses'
  BY TypedStep, ExcusesGrow DEF Typed
<1>2. Cardinality(Open(t)) \in Nat /\ Cardinality(Open(t)') \in Nat
  <2>1. Open(t)' \subseteq Editors BY DEF Open
  <2> QED BY <2>1, OpenIsFinite, TasksAssumption, FS_Subset, FS_CardinalityType
<1>3. PICK n, n2, e, e2, k, k2 \in Nat :
        /\ n = runs[t] /\ n2 = runs'[t] /\ e = excuses /\ e2 = excuses'
        /\ k = Cardinality(Open(t)) /\ k2 = Cardinality(Open(t)')
  BY <1>1, <1>2
<1>4. PICK a, s, a2, s2 \in {0, 1} :
        /\ a = Num(May(t, t)) /\ s = Num(May("stream", t))
        /\ a2 = Num(May(t, t))' /\ s2 = Num(May("stream", t))'
  <2>1. /\ Num(May(t, t)) \in {0, 1} /\ Num(May("stream", t)) \in {0, 1}
        /\ Num(May(t, t))' \in {0, 1} /\ Num(May("stream", t))' \in {0, 1}
    BY DEF Num
  <2> QED BY <2>1
<1>5. n + a + s + 2 * k <= 2 + e /\ e <= e2
  BY <1>1, <1>3, <1>4 DEF Budget, BudgetAt
<1>6. SUFFICES n2 + a2 + s2 + 2 * k2 <= 2 + e2
  BY <1>3, <1>4 DEF BudgetAt
<1>7. /\ (a = 1 <=> May(t, t)) /\ (s = 1 <=> May("stream", t))
      /\ (a2 = 1 <=> May(t, t)') /\ (s2 = 1 <=> May("stream", t)')
  BY <1>4 DEF Num
<1>8. CASE Crash
  <2>1. PICK m \in Nat : excuses' = excuses + m /\ a2 + s2 <= a + s + m
    BY <1>4, <1>8, CrashingIsExcused
  <2>2. runs' = runs /\ edit' = edit BY <1>8 DEF Crash, apiVars
  <2>3. n2 = n /\ k2 = k /\ e2 = e + m BY <1>3, <2>1, <2>2, OpenMoves
  <2> QED BY <1>5, <2>1, <2>3
<1>9. CASE Patched(t)
  <2>1. runs' = runs BY <1>9 DEF Patched, CommitUpdate, workVars
  <2>2. n2 = n /\ k2 = k - 1 BY <1>3, <1>9, <2>1, OpenMoves
  <2> QED BY <1>5, <2>2
<1>10. ASSUME NEW c \in Callers, EnqueueFails(c) PROVE n2 + a2 + s2 + 2 * k2 <= 2 + e2
  <2>1. runs' = runs /\ edit' = edit /\ excuses' = excuses + 1
    BY <1>10 DEF EnqueueFails, apiVars, Event
  <2>2. n2 = n /\ k2 = k /\ e2 = e + 1 /\ ~Patched(t) BY <1>3, <2>1, OpenMoves
  <2>3. \A d \in Callers : d # c => ~EnqueueFails(d)
    <3> SUFFICES ASSUME NEW d \in Callers, d # c, EnqueueFails(d) PROVE FALSE OBVIOUS
    <3>1. trigger \in [Callers -> Calls] BY DEF Typed
    <3>2. trigger'[d] = Idle /\ trigger'[d] = trigger[d] /\ trigger[d].pc = "mark"
      BY <1>10, <3>1 DEF EnqueueFails, Return
    <3> QED BY <3>2 DEF Idle
  <2>4. ~Crash
    <3>1. worker' = worker BY <1>10 DEF EnqueueFails
    <3> QED BY <3>1 DEF Crash
  <2>5. t # c => (a2 = 1 => a = 1) BY <1>0, <1>7, <2>2, <2>3, <2>4, MayStays
  <2>6. "stream" # c => (s2 = 1 => s = 1) BY <1>0, <1>7, <2>2, <2>3, <2>4, MayStays
  <2> QED BY <1>0, <1>5, <2>2, <2>5, <2>6
<1>11. ASSUME ~Crash, ~Patched(t), \A c \in Callers : ~EnqueueFails(c)
       PROVE  n2 + a2 + s2 + 2 * k2 <= 2 + e2
  <2>1. (a2 = 1 => a = 1) /\ (s2 = 1 => s = 1) BY <1>0, <1>7, <1>11, MayStays
  <2>2. CASE runs'[t] = runs[t]
    <3>1. n2 = n /\ (k2 = k \/ (k2 = k + 1 /\ e2 = e + 2))
      BY <1>3, <1>11, <2>2, OpenMoves
    <3> QED BY <1>5, <2>1, <3>1
  <2>3. ASSUME NEW c \in {t, "stream"}, runs'[t] = runs[t] + 1, May(c, t), ~May(c, t)',
               edit' = edit
        PROVE  n2 + a2 + s2 + 2 * k2 <= 2 + e2
    <3>1. n2 = n + 1 /\ k2 = k BY <1>3, <2>3, OpenMoves
    <3>2. (a = 1 /\ a2 # 1) \/ (s = 1 /\ s2 # 1) BY <1>7, <2>3
    <3> QED BY <1>5, <2>1, <3>1, <3>2
  <2> QED BY <2>2, <2>3, RunsMove
<1> QED BY <1>8, <1>9, <1>10, <1>11

-----------------------------------------------------------------------------
JobsInv == /\ Typed /\ Lineage /\ Calling /\ Versioned /\ Current
           /\ JobsFollowTheRows /\ Budget

\* JobsInv holds at the start.
LEMMA JobsInvInit == Init => JobsInv
<1> SUFFICES ASSUME Init PROVE JobsInv OBVIOUS
<1>1. PICK kind \in Kinds, on \in BOOLEAN, given \in SUBSET Params :
        row = [t \in Tasks |-> IF t \in Born THEN Fresh(kind, given, on) ELSE Unborn]
  <2>1. \A kind : SUBSET ({kind} \cap Params) \subseteq SUBSET Params OBVIOUS
  <2> QED BY <2>1 DEF Init
<1>2. /\ snapshot = Closed /\ stable = {} /\ edit = [p \in Editors |-> NoEdit] /\ clashed = {}
      /\ jobs = [t \in Tasks |-> NoJob] /\ timer = {} /\ worker = "boot"
      /\ trigger = [c \in Callers |-> Idle] /\ asked = <<>> /\ runs = [t \in Tasks |-> 0]
      /\ events = 0 /\ excuses = 0
  BY DEF Init
<1>3. Unborn \in Rows /\ Fresh(kind, given, on) \in Rows
  <2>1. Unborn \in Rows BY DEF Unborn, Rows, Kinds
  <2>2. Fresh(kind, given, on) \in Rows BY DEF Fresh, Unborn, Rows
  <2> QED BY <2>1, <2>2
<1>4. /\ Fresh(kind, given, on).state = "live" /\ Fresh(kind, given, on).version = 1
      /\ Unborn.state = "unborn" /\ Unborn.version = 0
  BY DEF Fresh, Unborn
<1>5. Typed
  <2>1. row \in [Tasks -> Rows] BY <1>1, <1>3
  <2>2. NoEdit \in Edits BY DEF NoEdit, Edits
  <2>3. Closed \in [open : BOOLEAN, rows : [Tasks -> Rows]] BY <1>3 DEF Closed
  <2>4. Idle \in Calls BY DEF Idle, Calls
  <2> QED BY <1>2, <2>1, <2>2, <2>3, <2>4, JobsAreTyped DEF Typed
<1>6. /\ \A t \in Tasks : jobs[t] = NoJob /\ Seen(t) = Unborn /\ t \in Callers /\ ~Wanted(t)
      /\ \A c \in Callers : trigger[c] = Idle
      /\ \A p \in Editors : edit[p].task \notin Tasks
      /\ "stream" \in Callers
  BY <1>2, TasksAssumption DEF Seen, Wanted, Closed, NoEdit, Callers
<1>7. Lineage
  <2> SUFFICES ASSUME NEW t \in Tasks
      PROVE /\ Before(t) =>
                 /\ row[t] = Unborn /\ runs[t] = 0 /\ jobs[t] = NoJob /\ Seen(t) = Unborn
                 /\ \A p \in Editors : edit[p].task # t
                 /\ \A c \in Callers : trigger[c].task # t
                 /\ \A i \in 1..Len(asked) : asked[i] # t
            /\ ~Before(t) => row[t].version # 0
            /\ t \in timer => jobs[t] # NoJob
            /\ jobs[t] # NoJob => jobs[t].version # 0
            /\ jobs[t] # NoJob /\ jobs[t].kind = "interval" => t \in timer
            /\ snapshot.open \/ Seen(t) = Unborn
            /\ Wanted(t) => Seen(t).version # 0
    BY DEF Lineage
  <2>1. Before(t) => row[t] = Unborn BY <1>1, <1>4 DEF Before
  <2>2. ~Before(t) => row[t].version # 0 BY <1>1, <1>4 DEF Before
  <2>3. \A c \in Callers : trigger[c].task # t BY <1>6, TasksAssumption DEF Idle
  <2>4. \A i \in 1..Len(asked) : asked[i] # t BY <1>2
  <2> QED BY <1>2, <1>6, <2>1, <2>2, <2>3, <2>4
<1>8. Calling BY <1>6 DEF Calling, Idle
<1>9. Versioned
  <2> SUFFICES ASSUME NEW t \in Tasks PROVE VersionedAt(t) BY DEF Versioned
  <2>1. row[t].version = 0 => row[t] = Unborn BY <1>1, <1>4
  <2>2. NoJob.version = 0 BY DEF NoJob
  <2>3. 0 <= row[t].version BY <1>5 DEF Typed, Rows
  <2> QED BY <1>4, <1>6, <2>1, <2>2, <2>3 DEF VersionedAt
<1>10. Current /\ JobsFollowTheRows BY <1>2 DEF Current, JobsFollowTheRows, Closed
<1>11. ASSUME NEW t \in Tasks PROVE BudgetAt(t)
  <2>1. Open(t) = {} BY <1>6 DEF Open
  <2>2. Cardinality(Open(t)) = 0 BY <2>1, FS_EmptySet
  <2>3. runs[t] = 0 /\ excuses = 0 BY <1>2
  <2>4. Num(May(t, t)) \in {0, 1} /\ Num(May("stream", t)) \in {0, 1} BY DEF Num
  <2> QED BY <2>2, <2>3, <2>4 DEF BudgetAt
<1> QED BY <1>5, <1>7, <1>8, <1>9, <1>10, <1>11 DEF JobsInv, Budget

\* JobsInv is kept by every step.
LEMMA JobsInvStep == JobsInv /\ [Next]_vars => JobsInv'
BY TypedStep, LineageStep, CallingStep, VersionedStep, CurrentStep, FollowsStep, BudgetStep
   DEF JobsInv

\* JobsInv is inductive.
LEMMA JobsInvHolds == Spec => []JobsInv
BY JobsInvInit, JobsInvStep, PTL DEF Spec

\* sync_jobs: once it has run and while nobody writes a row, the enabled tasks that have
\* what their kind asks for, and no others, have a job, of the kind and with the schedule
\* of the row and, for an interval, a timer that is set; whatever PATCHes, changes of kind,
\* firings, crashes and synchronisations came before, unless two PATCHes of the task
\* overlapped.
THEOREM JobsAreRight == Spec => []JobsFollowTheRows
<1>1. JobsInv => JobsFollowTheRows BY DEF JobsInv
<1> QED BY <1>1, JobsInvHolds, PTL

\* execute_trigger: as a one-shot a task runs twice at the most, plus once for every run a
\* failed enqueue or a crash did not let disable it and twice for every PATCH, however
\* timers, trigger messages and synchronisations are interleaved.
THEOREM OneShotsAreBounded == Spec => []OneShotRunsAreBounded
<1>1. JobsInv => OneShotRunsAreBounded
  <2> SUFFICES ASSUME JobsInv, NEW t \in Tasks PROVE runs[t] <= 2 + excuses
    BY DEF OneShotRunsAreBounded
  <2>1. runs[t] \in Nat /\ excuses \in Nat BY DEF JobsInv, Typed
  <2>2. Cardinality(Open(t)) \in Nat BY OpenIsFinite
  <2>3. Num(May(t, t)) \in {0, 1} /\ Num(May("stream", t)) \in {0, 1} BY DEF Num
  <2> QED BY <2>1, <2>2, <2>3 DEF JobsInv, Budget, BudgetAt
<1> QED BY <1>1, JobsInvHolds, PTL
=============================================================================
