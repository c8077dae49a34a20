------------------------- MODULE ExecutionLifecycle -------------------------
(***************************************************************************)
(* One execution from its HTTP request to its end, and everybody who       *)
(* writes its row: the request that creates it, the worker that runs it,   *)
(* the requests that stop, resume or delete it, the recovery that every    *)
(* worker process performs when it boots, and the job that fails what is   *)
(* older than the longest allowed run.                                     *)
(*                                                                         *)
(* RUNNING is flushed and never committed: until the worker commits the    *)
(* terminal status the other sessions read PENDING, and their UPDATE of    *)
(* the row waits for the lock the worker's transaction holds.              *)
(***************************************************************************)
EXTENDS SlotStore, Sequences, FiniteSets

CONSTANTS
    Owner,        \* the user an execution belongs to
    Reapers,      \* who fails executions from outside: "boot" is the recovery of
                  \* this worker, "peer" that of the worker of the other streams,
                  \* "stale" the periodic job of this worker
    Faults,       \* what fails: "redis" (redis.exceptions.*), "os" (an OSError that
                  \* check_revoke_intent takes for "no intent"), "db" (a commit),
                  \* "release" (three attempts to release a slot)
    MaxRetries,   \* max_retries of the bus
    Stopping,     \* bound: executions somebody may ask to stop
    Expiring,     \* bound: executions whose intent key may expire
    Outliving,    \* bound: executions that may outlive the TTL of their slot key
    MaxFaults, MaxCrashes, MaxTimeouts, MaxResumes, MaxPeerBoots  \* bounds

ASSUME OwnerAssumption == Owner \in [Execs -> Teams]
ASSUME ReapersAssumption == "boot" \in Reapers /\ Reapers \subseteq {"boot", "peer", "stale"}
ASSUME BoundsAssumption ==
    {MaxRetries, MaxFaults, MaxCrashes, MaxTimeouts, MaxResumes, MaxPeerBoots} \subseteq Nat

VARIABLES
    row,       \* the committed status of the execution, as other sessions read it
    api,       \* how far the request that starts the execution has come
    stopReq,   \* how far a request to stop it has come, and when it was accepted
    intent,    \* revoke_intent:{e} is "cancel"
    stream,    \* the events in exec_stream:{e} that end a stream
    queue,     \* tasks:executions: what is not acknowledged, oldest first
    worker,    \* where the worker is with the message at the head of the queue
    open,      \* its transaction holds the lock of that execution's row
    outcome,   \* the status it has given the execution in its session
    verdict,   \* how the handler returns to the bus
    reaper,    \* per reaper: the await it is at
    found,     \* per reaper: what its SELECT returned
    old,       \* created_at is before the cutoff
    starts, charged,                            \* history
    faults, crashes, timeouts, resumes, boots   \* used up

requestVars == <<api, stopReq, resumes>>
workerVars == <<queue, worker, open, outcome, verdict, timeouts>>
reaperVars == <<reaper, found, boots>>
slotState == <<slotVars, charged>>
vars == <<row, requestVars, intent, stream, workerVars, reaperVars, old, slotState,
          starts, faults, crashes>>

Terminal == {"completed", "failed", "stopped"}

\* The last event of a stream is "complete" with a status, or "error".
Event == Terminal \cup {"error"}

Message == [exec : Execs, retry : 0..MaxRetries]

TypeOK ==
    /\ SlotTypeOK
    /\ row \in [Execs -> {"absent", "pending"} \cup Terminal]
    /\ api \in [Execs -> {"new", "created", "acquired", "sent", "denied", "lost"}]
    /\ stopReq \in [Execs -> {"none", "checked", "early", "late"}]
    /\ intent \in SUBSET Execs /\ old \in SUBSET Execs /\ charged \in SUBSET Execs
    /\ stream \in [Execs -> Seq(Event)]
    /\ queue \in Seq(Message)
    /\ worker \in {"down", "boot", "idle", "taken", "running", "announced", "cancelling",
                   "stopping", "clearing", "committed", "failing", "forcing",
                   "releasing", "settling"}
    /\ worker \notin {"down", "boot", "idle"} => queue # <<>>
    /\ open \in BOOLEAN /\ outcome \in {"completed", "failed"} /\ verdict \in {"ack", "retry"}
    /\ reaper \in [Reapers -> {"idle", "found", "release"}]
    /\ found \in [Reapers -> SUBSET Execs]
    /\ starts \in [Execs -> Nat]
    /\ faults \in 0..MaxFaults /\ crashes \in 0..MaxCrashes /\ timeouts \in 0..MaxTimeouts
    /\ resumes \in 0..MaxResumes /\ boots \in 0..MaxPeerBoots

Init ==
    /\ SlotInit
    /\ row = [e \in Execs |-> "absent"] /\ api = [e \in Execs |-> "new"]
    /\ stopReq = [e \in Execs |-> "none"] /\ intent = {} /\ old = {} /\ charged = {}
    /\ stream = [e \in Execs |-> <<>>] /\ queue = <<>>
    /\ worker = "idle" /\ open = FALSE /\ outcome = "failed" /\ verdict = "ack"
    /\ reaper = [r \in Reapers |-> "idle"] /\ found = [r \in Reapers |-> {}]
    /\ starts = [e \in Execs |-> 0]
    /\ faults = 0 /\ crashes = 0 /\ timeouts = 0 /\ resumes = 0 /\ boots = 0

-----------------------------------------------------------------------------
cur == Head(queue).exec

Locked(e) == open /\ e = cur

Pending == {e \in Execs : row[e] = "pending"}

Fault(kind) ==
    /\ kind \in Faults
    /\ faults < MaxFaults
    /\ faults' = faults + 1

NoFault == UNCHANGED faults

Tell(e, event) == stream' = [stream EXCEPT ![e] = Append(@, event)]

\* UPDATE ... WHERE id IN S: it asks for no status, and skips a row that is gone.
SetStatus(S, status) ==
    row' = [e \in Execs |-> IF e \in S /\ row[e] # "absent" THEN status ELSE row[e]]

GiveSlotBack(e) ==
    /\ ReleaseSlot(Owner[e], e)
    /\ charged' = charged \ {e}

-----------------------------------------------------------------------------
(* The request that starts an execution.                                   *)

Create(e) ==
    /\ api[e] = "new"
    /\ api' = [api EXCEPT ![e] = "created"]
    /\ row' = [row EXCEPT ![e] = "pending"]
    /\ UNCHANGED <<stopReq, resumes, intent, stream, workerVars, reaperVars, old, slotState,
                   starts, faults, crashes>>

Acquire(e) ==
    /\ api[e] = "created"
    /\ \/ /\ AcquireSlot(Owner[e], e)
          /\ charged' = charged \cup {e}
          /\ api' = [api EXCEPT ![e] = "acquired"]
       \/ /\ AcquireDenied(Owner[e])
          /\ api' = [api EXCEPT ![e] = "denied"]
          /\ UNCHANGED charged
    /\ UNCHANGED <<row, stopReq, resumes, intent, stream, workerVars, reaperVars, old,
                   starts, faults, crashes>>

Enqueue(e) == queue' = Append(queue, [exec |-> e, retry |-> 0])

\* XADD, then the UPDATE of stream_task_id, on which nothing else depends.
Dispatch(e) ==
    /\ api[e] = "acquired"
    /\ api' = [api EXCEPT ![e] = "sent"]
    /\ Enqueue(e)
    /\ UNCHANGED <<row, stopReq, resumes, intent, stream, worker, open, outcome, verdict,
                   timeouts, reaperVars, old, slotState, starts, faults, crashes>>

\* The API process dies, or XADD fails, between two of these awaits.
RequestDies(e) ==
    /\ api[e] \in {"created", "acquired"}
    /\ api' = [api EXCEPT ![e] = "lost"]
    /\ UNCHANGED <<row, stopReq, resumes, intent, stream, workerVars, reaperVars, old,
                   slotState, starts, faults, crashes>>

-----------------------------------------------------------------------------
(* The requests about an execution that exists.                            *)

\* Any PENDING execution can be resumed, the one that is running included.  A slot
\* is not acquired for it.
Resume(e) ==
    /\ resumes < MaxResumes
    /\ row[e] = "pending"
    /\ resumes' = resumes + 1
    /\ Enqueue(e)
    /\ UNCHANGED <<row, api, stopReq, intent, stream, worker, open, outcome, verdict,
                   timeouts, reaperVars, old, slotState, starts, faults, crashes>>

\* stop_execution reads the status, then awaits Redis.
StopCheck(e) ==
    /\ e \in Stopping /\ stopReq[e] = "none"
    /\ row[e] = "pending"
    /\ stopReq' = [stopReq EXCEPT ![e] = "checked"]
    /\ UNCHANGED <<row, api, resumes, intent, stream, workerVars, reaperVars, old,
                   slotState, starts, faults, crashes>>

StopSet(e) ==
    /\ stopReq[e] = "checked"
    /\ stopReq' = [stopReq EXCEPT ![e] = IF starts[e] = 0 THEN "early" ELSE "late"]
    /\ intent' = intent \cup {e}
    /\ UNCHANGED <<row, api, resumes, stream, workerVars, reaperVars, old, slotState,
                   starts, faults, crashes>>

\* The reader of the SSE stream goes away before it has read a final event: SET NX.
Disconnect(e) ==
    /\ api[e] = "sent"
    /\ intent' = intent \cup {e}
    /\ UNCHANGED <<row, requestVars, stream, workerVars, reaperVars, old, slotState,
                   starts, faults, crashes>>

IntentExpires(e) ==
    /\ e \in Expiring \cap intent
    /\ intent' = intent \ {e}
    /\ UNCHANGED <<row, requestVars, stream, workerVars, reaperVars, old, slotState,
                   starts, faults, crashes>>

\* delete_conversation marks what is active STOPPED, signals it, gives its slot back,
\* and deletes the rows with the conversation, in one transaction.
DeleteConversation(e) ==
    /\ row[e] # "absent"
    /\ ~Locked(e)
    /\ row' = [row EXCEPT ![e] = "absent"]
    /\ IF row[e] = "pending"
       THEN intent' = intent \cup {e} /\ GiveSlotBack(e)
       ELSE UNCHANGED <<intent, slotState>>
    /\ UNCHANGED <<requestVars, stream, workerVars, reaperVars, old, starts, faults, crashes>>

-----------------------------------------------------------------------------
(* The worker.                                                             *)

Goto(phase, isOpen) == worker' = phase /\ open' = isOpen

\* What every step of the handler leaves alone.
HandlerFrame == UNCHANGED <<requestVars, reaperVars, old, crashes>>

\* The handler is over; "how" is what the bus will see.
Leave(how) == Goto("releasing", FALSE) /\ verdict' = how

\* Mistake: the status of the execution is not looked at.
TakeAnyway ==
    /\ worker = "idle" /\ queue # <<>>
    /\ Goto("taken", FALSE)
    /\ UNCHANGED <<row, intent, stream, queue, outcome, verdict, timeouts, slotState, starts>>
    /\ NoFault /\ HandlerFrame

\* _run_execution reads the status and leaves a terminal one alone.
Take ==
    /\ worker = "idle" /\ queue # <<>>
    /\ \/ row[cur] \in Terminal /\ Leave("ack")
       \/ row[cur] \notin Terminal /\ Goto("taken", FALSE) /\ UNCHANGED verdict
    /\ UNCHANGED <<row, intent, stream, queue, outcome, timeouts, slotState, starts>>
    /\ NoFault /\ HandlerFrame

\* service.execute: RUNNING is flushed whatever the status is by now, and a row that
\* is gone is nothing to lock.
Begin ==
    /\ worker = "taken"
    /\ \/ /\ Goto("running", row[cur] # "absent")
          /\ starts' = IF row[cur] = "absent" THEN starts ELSE [starts EXCEPT ![cur] = @ + 1]
          /\ UNCHANGED verdict /\ NoFault
       \/ Leave("retry") /\ UNCHANGED starts /\ Fault("db")
    /\ UNCHANGED <<row, intent, stream, queue, outcome, timeouts, slotState>>
    /\ HandlerFrame

\* The intent is looked up before an event is written, the last one included.
NoticeCancel ==
    /\ worker = "running" /\ cur \in intent
    /\ Goto("cancelling", open)
    /\ UNCHANGED <<row, intent, stream, queue, outcome, verdict, timeouts, slotState, starts>>
    /\ NoFault /\ HandlerFrame

IntentOverlooked == IF cur \in intent THEN Fault("os") ELSE NoFault

\* "Execution not found": the one event of an execution whose row is gone.
TellMissing ==
    /\ worker = "running" /\ ~open
    /\ IntentOverlooked
    /\ Tell(cur, "error") /\ Goto("committed", FALSE)
    /\ UNCHANGED <<row, intent, queue, outcome, verdict, timeouts, slotState, starts>>
    /\ HandlerFrame

\* Mistakes: the final event is left for after the commit; it is written without a
\* last look at the intent.
AnnounceLater(status) ==
    /\ worker = "running" /\ open
    /\ IntentOverlooked
    /\ outcome' = status
    /\ Goto("announced", TRUE)
    /\ UNCHANGED <<row, intent, stream, queue, verdict, timeouts, slotState, starts>>
    /\ HandlerFrame

AnnounceUnchecked(status) ==
    /\ worker = "running" /\ open
    /\ Tell(cur, status) /\ outcome' = status
    /\ Goto("announced", TRUE)
    /\ UNCHANGED <<row, intent, queue, verdict, timeouts, slotState, starts>>
    /\ NoFault /\ HandlerFrame

\* The final event is in the stream before the status is committed.
Announce(status) ==
    /\ worker = "running" /\ open
    /\ IntentOverlooked
    /\ Tell(cur, status) /\ outcome' = status
    /\ Goto("announced", TRUE)
    /\ UNCHANGED <<row, intent, queue, verdict, timeouts, slotState, starts>>
    /\ HandlerFrame

\* A failed commit leaves the session unusable, so the except clause fails too; the
\* database may have committed all the same.
CommitOr(status, next) ==
    \/ SetStatus({cur}, status) /\ Goto(next, FALSE) /\ UNCHANGED verdict /\ NoFault
    \/ (SetStatus({cur}, status) \/ UNCHANGED row) /\ Leave("retry") /\ Fault("db")

Commit ==
    /\ worker = "announced"
    /\ CommitOr(outcome, "committed")
    /\ UNCHANGED <<intent, stream, queue, outcome, timeouts, slotState, starts>>
    /\ HandlerFrame

\* EXPIRE on the stream is inside the try: when it fails, a run that is committed
\* is taken for a failed one.
ExpireStream ==
    /\ worker = "committed"
    /\ \/ Leave("ack") /\ NoFault
       \/ Goto("failing", FALSE) /\ UNCHANGED verdict /\ Fault("redis")
    /\ UNCHANGED <<row, intent, stream, queue, outcome, timeouts, slotState, starts>>
    /\ HandlerFrame

CancelTell ==
    /\ worker = "cancelling"
    /\ Tell(cur, "stopped") /\ Goto("stopping", open)
    /\ UNCHANGED <<row, intent, queue, outcome, verdict, timeouts, slotState, starts>>
    /\ NoFault /\ HandlerFrame

CancelCommit ==
    /\ worker = "stopping"
    /\ CommitOr("stopped", "clearing")
    /\ UNCHANGED <<intent, stream, queue, outcome, timeouts, slotState, starts>>
    /\ HandlerFrame

\* The intent is deleted, and so is a conversation with a single message, which takes
\* the row with it.
CancelClear ==
    /\ worker = "clearing"
    /\ intent' = intent \ {cur}
    /\ row' \in {row, [row EXCEPT ![cur] = "absent"]}
    /\ Goto("committed", FALSE)
    /\ UNCHANGED <<stream, queue, outcome, verdict, timeouts, slotState, starts>>
    /\ NoFault /\ HandlerFrame

\* A Redis call of the run, or of the cancellation, raises.
RunFails ==
    /\ worker \in {"running", "cancelling", "clearing"}
    /\ Fault("redis")
    /\ Goto("failing", open)
    /\ UNCHANGED <<row, intent, stream, queue, outcome, verdict, timeouts, slotState, starts>>
    /\ HandlerFrame

\* The except clause: UPDATE to FAILED, commit, raise.
Fail ==
    /\ worker = "failing"
    /\ \/ SetStatus({cur}, "failed") /\ NoFault
       \/ UNCHANGED row /\ Fault("db")
    /\ Leave("retry")
    /\ UNCHANGED <<intent, stream, queue, outcome, timeouts, slotState, starts>>
    /\ HandlerFrame

\* asyncio.timeout around the whole of _run_execution; the transaction is rolled back.
TimeOut ==
    /\ worker \in {"taken", "running", "announced", "cancelling", "stopping", "clearing",
                   "committed", "failing"}
    /\ timeouts < MaxTimeouts
    /\ timeouts' = timeouts + 1
    /\ Goto("forcing", FALSE)
    /\ UNCHANGED <<row, intent, stream, queue, outcome, verdict, slotState, starts>>
    /\ NoFault /\ HandlerFrame

\* _force_fail_execution; its own failure is logged.
ForceFail ==
    /\ worker = "forcing"
    /\ \/ SetStatus({cur}, "failed") /\ NoFault
       \/ UNCHANGED row /\ Fault("db")
    /\ Leave("ack")
    /\ UNCHANGED <<intent, stream, queue, outcome, timeouts, slotState, starts>>
    /\ HandlerFrame

\* The handler's finally block, which runs for a skipped message as well.
Release ==
    /\ worker = "releasing"
    /\ \/ GiveSlotBack(cur) /\ NoFault
       \/ UNCHANGED slotState /\ Fault("release")
    /\ Goto("settling", FALSE)
    /\ UNCHANGED <<row, intent, stream, queue, outcome, verdict, timeouts, starts>>
    /\ HandlerFrame

\* The session is closed, and the exception that decided on a retry is handled.
Forget == outcome' = "failed" /\ verdict' = "ack"

\* The bus acknowledges, after writing the message again when the handler raised.
Settle ==
    /\ worker = "settling"
    /\ LET m == Head(queue) IN
       queue' = IF verdict = "retry" /\ m.retry < MaxRetries
                THEN Append(Tail(queue), [m EXCEPT !.retry = @ + 1])
                ELSE Tail(queue)
    /\ Goto("idle", FALSE) /\ Forget
    /\ UNCHANGED <<row, intent, stream, timeouts, slotState, starts>>
    /\ NoFault /\ HandlerFrame

-----------------------------------------------------------------------------
(* Crash, boot, and the reapers.                                           *)

\* The message stays pending, the transaction is rolled back, the job is gone.
Crash ==
    /\ worker # "down" /\ crashes < MaxCrashes
    /\ crashes' = crashes + 1
    /\ Goto("down", FALSE) /\ Forget
    /\ reaper' = [r \in Reapers |-> IF r = "peer" THEN reaper[r] ELSE "idle"]
    /\ found' = [r \in Reapers |-> IF r = "peer" THEN found[r] ELSE {}]
    /\ UNCHANGED <<row, requestVars, intent, stream, queue, timeouts, boots, old, slotState,
                   starts, faults>>

Restart ==
    /\ worker = "down"
    /\ Goto("boot", FALSE)
    /\ UNCHANGED <<row, requestVars, intent, stream, queue, outcome, verdict, timeouts,
                   reaperVars, old, slotState, starts, faults, crashes>>

\* Mistake: the stale job asks for RUNNING alone, which nobody ever commits.
ReapedIfRunning(r) == IF r = "stale" THEN {} ELSE Pending

\* What a reaper's SELECT asks for, and when it runs.
Reaped(r) == IF r = "stale" THEN Pending \cap old ELSE Pending

Scheduled(r) ==
    CASE r = "boot"  -> worker = "boot"
      [] r = "peer"  -> boots < MaxPeerBoots
      [] r = "stale" -> worker \notin {"down", "boot"} /\ Reaped(r) # {}

\* The boot goes on to subscribe once its recovery is over.
ReaperGoto(r, at, S) ==
    /\ reaper' = [reaper EXCEPT ![r] = at]
    /\ found' = [found EXCEPT ![r] = S]
    /\ worker' = IF r = "boot" /\ at = "idle" THEN "idle" ELSE worker

ReaperFrame == UNCHANGED <<requestVars, intent, stream, queue, open, outcome, verdict, timeouts,
                           old, starts, crashes>>

ReapSelect(r) ==
    /\ reaper[r] = "idle"
    /\ Scheduled(r)
    /\ boots' = IF r = "peer" THEN boots + 1 ELSE boots
    /\ ReaperGoto(r, IF Reaped(r) = {} THEN "idle" ELSE "found", Reaped(r))
    /\ UNCHANGED <<row, slotState>>
    /\ NoFault /\ ReaperFrame

\* The UPDATE names the ids, and waits for a row the worker has locked.
ReapFail(r) ==
    /\ reaper[r] = "found"
    /\ \A e \in found[r] : ~Locked(e)
    /\ SetStatus(found[r], "failed")
    /\ ReaperGoto(r, "release", found[r])
    /\ UNCHANGED <<boots, slotState>>
    /\ NoFault /\ ReaperFrame

\* The wait for the lock ends in DB_COMMAND_TIMEOUT, or the database fails; both are
\* logged and the reaper gives up.
ReapGivesUp(r) ==
    /\ reaper[r] = "found"
    /\ \/ (\E e \in found[r] : Locked(e)) /\ NoFault
       \/ Fault("db")
    /\ ReaperGoto(r, "idle", {})
    /\ UNCHANGED <<row, boots, slotState>>
    /\ ReaperFrame

\* One release per execution that was found, whether or not it held a slot.
ReapRelease(r, e) ==
    /\ reaper[r] = "release"
    /\ e \in found[r]
    /\ \/ GiveSlotBack(e) /\ NoFault
       \/ UNCHANGED slotState /\ Fault("release")
    /\ ReaperGoto(r, IF found[r] = {e} THEN "idle" ELSE "release", found[r] \ {e})
    /\ UNCHANGED <<row, boots>>
    /\ ReaperFrame

\* MAX_EXECUTION_TIMEOUT + 60 seconds go by.
Age(e) ==
    /\ "stale" \in Reapers
    /\ row[e] = "pending" /\ e \notin old
    /\ old' = old \cup {e}
    /\ UNCHANGED <<row, requestVars, intent, stream, workerVars, reaperVars, slotState,
                   starts, faults, crashes>>

\* The TTL of the slot key counts from the acquire, the time in the queue included; the
\* request that acquired it is over long before.
Outlive(e) ==
    /\ e \in Outliving /\ api[e] \in {"sent", "lost"}
    /\ ExpireSlot(e)
    /\ UNCHANGED <<row, requestVars, intent, stream, workerVars, reaperVars, old, charged,
                   starts, faults, crashes>>

\* The owner of a slot is read from its key; without the key the member is forgotten and
\* its unit stays in the counters.
Reclaim(e) ==
    \/ slot[e] # NoTeam /\ GiveSlotBack(e)
    \/ slot[e] = NoTeam /\ ForgetSlot(e) /\ UNCHANGED charged

\* Mistakes: the cleanup does not look at the row, or only for rows that are gone.
CleanupEverySlot(e) ==
    /\ worker \notin {"down", "boot"}
    /\ e \in active
    /\ Reclaim(e)
    /\ UNCHANGED <<row, requestVars, intent, stream, workerVars, reaperVars, old, starts,
                   faults, crashes>>

CleanupIfDeleted(e) ==
    /\ worker \notin {"down", "boot"}
    /\ e \in active /\ row[e] = "absent"
    /\ Reclaim(e)
    /\ UNCHANGED <<row, requestVars, intent, stream, workerVars, reaperVars, old, starts,
                   faults, crashes>>

\* cleanup_scheduler_slots, which FairScheduler takes apart.
CleanupSlot(e) ==
    /\ worker \notin {"down", "boot"}
    /\ e \in active /\ row[e] # "pending"
    /\ Reclaim(e)
    /\ UNCHANGED <<row, requestVars, intent, stream, workerVars, reaperVars, old, starts,
                   faults, crashes>>

-----------------------------------------------------------------------------
Request(e) ==
    \/ Create(e) \/ Acquire(e) \/ Dispatch(e) \/ RequestDies(e) \/ Resume(e)
    \/ StopCheck(e) \/ StopSet(e) \/ Disconnect(e) \/ IntentExpires(e) \/ DeleteConversation(e)

Handle ==
    \/ Take \/ Begin \/ NoticeCancel \/ TellMissing \/ \E s \in {"completed", "failed"} : Announce(s)
    \/ Commit \/ ExpireStream \/ CancelTell \/ CancelCommit \/ CancelClear
    \/ Fail \/ ForceFail \/ Release \/ Settle

Reap(r) ==
    \/ ReapSelect(r) \/ ReapFail(r) \/ ReapGivesUp(r) \/ \E e \in Execs : ReapRelease(r, e)

Next ==
    \/ \E e \in Execs : Request(e) \/ Age(e) \/ Outlive(e) \/ CleanupSlot(e)
    \/ \E r \in Reapers : Reap(r)
    \/ Handle \/ RunFails \/ TimeOut \/ Crash \/ Restart

Spec == Init /\ [][Next]_vars

\* The worker is restarted, recovers and goes on; its timers fire; time passes.
FairSpec ==
    /\ Spec
    /\ WF_vars(Restart \/ Reap("boot") \/ Handle)
    /\ \A r \in Reapers \ {"boot"} : WF_vars(Reap(r))
    /\ \A e \in Execs : WF_vars(Age(e)) /\ WF_vars(CleanupSlot(e))

-----------------------------------------------------------------------------
Told(e) == {stream[e][i] : i \in 1..Len(stream[e])}

(***************************************************************************)
(* An execution is run once, and once more for each call to Redis or the   *)
(* database that failed: neither a crash, nor a redelivery, nor a second   *)
(* message from resume_execution makes a model be paid for twice.          *)
(***************************************************************************)
RunsOnce == \A e \in Execs : starts[e] <= 1 + faults

(***************************************************************************)
(* A user who reads COMPLETED after a reload has been sent the answer: no  *)
(* interleaving of crash, retry and recovery commits the status first.     *)
(***************************************************************************)
CompletedWasAnnounced ==
    \A e \in Execs : row[e] = "completed" => "completed" \in Told(e)

(***************************************************************************)
(* dispatch.py, line 24: "Revoke intent TTL: must exceed time_limit + 60s  *)
(* to prevent race condition".  Whoever was told "stopped" before the      *)
(* worker began does not see the execution complete.                       *)
(***************************************************************************)
StopIsHonored ==
    \A e \in Execs : stopReq[e] = "early" => "completed" \notin Told(e)

(***************************************************************************)
(* router.py, line 128: "Common dispatch: fair-scheduler acquire + Redis   *)
(* Streams dispatch".  As long as nobody resumes an execution and no call  *)
(* fails, the execution that runs is charged for: nobody, a crash and the  *)
(* cleanups included, has given back the unit its request acquired, and    *)
(* it is still among the slots the cleanup looks at, even when its slot    *)
(* key has run out.  (A resumed execution has acquired none, and a retried *)
(* one gave it back.)                                                      *)
(***************************************************************************)
RunningHoldsASlot == open /\ resumes = 0 /\ faults = 0 => cur \in charged \cap active

(***************************************************************************)
(* Nothing stays PENDING, however its request, its worker or its message   *)
(* fared: what nobody runs, the stale job fails in the end.                *)
(***************************************************************************)
EveryExecutionEnds == \A e \in Execs : row[e] = "pending" ~> row[e] # "pending"

(***************************************************************************)
(* Every slot taken is given back by somebody, unless its key runs out     *)
(* first: the cleanup then forgets it, and a unit nobody else gives back   *)
(* stays in the counters for ever.                                         *)
(***************************************************************************)
EverySlotReturns ==
    \A e \in Execs : e \in charged ~> e \notin charged \/ slot[e] = NoTeam

(***************************************************************************)
(* With its own recovery as the only reaper, and with neither a handler    *)
(* timeout nor a Redis failure after the commit, a terminal status is      *)
(* final and COMPLETED is never silent.                                    *)
(***************************************************************************)
Contract == INSTANCE ExecutionContract
ImplementsContract == Contract!Spec
=============================================================================
