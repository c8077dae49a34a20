--------------------------- MODULE TaskRunsProofs ---------------------------
(***************************************************************************)
(* Proofs about TaskRuns, for any runs, users, limits, crashes and errors. *)
(***************************************************************************)
EXTENDS TaskRuns, FiniteSetTheorems, SequenceTheorems, TLAPS

(***************************************************************************)
(* What the rows, the queue and the handler hold.  From "running" to       *)
(* "expire" the handler may still write the rows of the run in its hands.  *)
(***************************************************************************)
Handling == [pc : {"idle", "running", "verdict", "hooks", "expire", "release"},
             verdict : {"none", "completed", "failed", "skipped"}, raise : BOOLEAN]

Typed ==
    /\ worker \in {"down", "up"}
    /\ run \in [Runs -> {"none", "running", "completed", "failed", "skipped"}]
    /\ exec \in [Runs -> {"none", "pending", "completed", "failed", "stopped"}]
    /\ sending \subseteq Runs /\ gone \subseteq Runs
    /\ queue \in Seq(Runs)
    /\ handler \in Handling
    /\ picked \subseteq Runs /\ disturbed \subseteq Runs
    /\ hooked \in [Runs -> Nat]
    /\ crashes \in 0..MaxCrashes /\ faults \in 0..MaxFaults

\* A handler at work has a message, and the worker that runs it is up.
AtWork == handler.pc # "idle" => queue # <<>> /\ worker = "up"

-----------------------------------------------------------------------------
(* Single steps.                                                           *)

\* The handler goes on to another step with the verdict it has.
LEMMA HandlerMoves ==
  ASSUME handler \in Handling,
         NEW p \in {"idle", "running", "verdict", "hooks", "expire", "release"},
         handler' = [handler EXCEPT !.pc = p]
  PROVE  handler' \in Handling /\ handler'.pc = p /\ handler'.verdict = handler.verdict
BY DEF Handling

\* The message in hand is the execution of a run.
LEMMA JobIsARun ==
  ASSUME queue \in Seq(Runs), queue # <<>>
  PROVE  Job \in Runs /\ Tail(queue) \in Seq(Runs)
BY HeadTailProperties DEF Job

\* What is queued goes behind the message in hand.
LEMMA JobStays ==
  ASSUME queue \in Seq(Runs), NEW r \in Runs, queue' = Append(queue, r)
  PROVE  queue' \in Seq(Runs) /\ queue' # <<>> /\ (queue # <<>> => Job' = Job)
<1>1. queue' \in Seq(Runs) /\ queue' # <<>> BY AppendProperties, EmptySeq
<1>2. queue # <<>> => Head(queue') = Head(queue) BY AppendProperties, EmptySeq, LenProperties
<1> QED BY <1>1, <1>2 DEF Job

\* Every step keeps the types.
LEMMA TypesHold == ASSUME Typed, AtWork, [Next]_vars PROVE Typed' /\ AtWork'
<1> USE DEF rowVars, workVars, userVars
<1> DEFINE Goal == Typed' /\ AtWork'
<1>0. MaxCrashes \in Nat /\ MaxFaults \in Nat BY BoundsAssumption
<1>1. ASSUME NEW r \in Runs, CreateRun(r) PROVE Goal BY <1>1 DEF CreateRun, Typed, AtWork
<1>2. ASSUME NEW r \in Runs, Enqueue(r) PROVE Goal
  BY <1>2, JobStays DEF Enqueue, Typed, AtWork
<1>3. ASSUME NEW r \in Runs, EnqueueFails(r) PROVE Goal
  BY <1>0, <1>3 DEF EnqueueFails, Typed, AtWork
<1>4. ASSUME NEW r \in Runs, TaskDeleted(r) PROVE Goal BY <1>4 DEF TaskDeleted, Typed, AtWork
<1>5. ASSUME NEW r \in Runs, StalePick(r) PROVE Goal
  BY <1>0, <1>5 DEF StalePick, Typed, AtWork
<1>6. ASSUME NEW r \in Runs, StaleFail(r) PROVE Goal BY <1>6 DEF StaleFail, Typed, AtWork
<1>7. ASSUME NEW u \in Others, UserAcquire(u) \/ UserRelease(u) PROVE Goal
  BY <1>7 DEF UserAcquire, UserRelease, Typed, AtWork
<1>8. CASE Take BY <1>8, HandlerMoves DEF Take, At, Typed, AtWork
<1>9. CASE Finish
  <2>1. Job \in Runs BY <1>9, JobIsARun DEF Finish, At, Typed
  <2>2. PICK v \in Verdicts :
          /\ exec' = [exec EXCEPT ![Job] = v.status]
          /\ handler' = [pc |-> "verdict", verdict |-> v.verdict, raise |-> v.raise]
    BY <1>9 DEF Finish
  <2>3. v.status \in {"completed", "failed", "stopped"} BY DEF Verdicts
  <2>4. v.raise \in BOOLEAN
    <3>1. v.raise = FALSE \/ v.raise = TRUE BY DEF Verdicts
    <3> QED BY <3>1, Zenon
  <2>5. v.verdict \in {"completed", "failed", "skipped"} BY DEF Verdicts
  <2>6. handler' \in Handling BY <2>2, <2>4, <2>5 DEF Handling
  <2> QED BY <1>9, <2>1, <2>2, <2>3, <2>6 DEF Finish, At, Typed, AtWork
<1>10. CASE WriteVerdict
  <2>1. Job \in Runs BY <1>10, JobIsARun DEF WriteVerdict, At, Typed
  <2>2. PICK p \in {"hooks", "release", "expire"} : handler' = [handler EXCEPT !.pc = p]
    BY <1>10 DEF WriteVerdict
  <2>3. handler' \in Handling BY <2>2, HandlerMoves DEF Typed
  <2> QED BY <1>10, <2>1, <2>3 DEF WriteVerdict, At, Typed, AtWork, Handling
<1>11. CASE VerdictLost
  <2>1. Job \in Runs BY <1>11, JobIsARun DEF VerdictLost, At, Typed
  <2>2. PICK p \in {"release", "expire"} : handler' = [handler EXCEPT !.pc = p]
    BY <1>11 DEF VerdictLost
  <2>3. handler' \in Handling BY <2>2, HandlerMoves DEF Typed
  <2> QED BY <1>0, <1>11, <2>1, <2>3 DEF VerdictLost, At, Typed, AtWork
<1>12. CASE RunHooks
  <2>1. Job \in Runs BY <1>12, JobIsARun DEF RunHooks, At, Typed
  <2>2. handler' \in Handling BY <1>12, HandlerMoves DEF RunHooks, Typed
  <2> QED BY <1>12, <2>1, <2>2 DEF RunHooks, At, Typed, AtWork
<1>13. CASE Expire BY <1>13, HandlerMoves DEF Expire, At, Typed, AtWork
<1>14. CASE ExpireFails
  <2>1. Job \in Runs BY <1>14, JobIsARun DEF ExpireFails, At, Typed
  <2>2. handler' \in Handling BY <1>14 DEF ExpireFails, Handling
  <2> QED BY <1>0, <1>14, <2>1, <2>2 DEF ExpireFails, At, Typed, AtWork
<1>15. CASE TimeOut
  <2>1. Job \in Runs BY <1>15, JobIsARun DEF TimeOut, Typed
  <2>2. handler' \in Handling BY <1>15 DEF TimeOut, NoWork, Handling
  <2> QED BY <1>0, <1>15, <2>1, <2>2 DEF TimeOut, Typed, AtWork
<1>16. CASE EndHandler
  <2>1. Job \in Runs /\ Tail(queue) \in Seq(Runs)
    BY <1>16, JobIsARun DEF EndHandler, At, Typed
  <2>2. handler' \in Handling /\ handler'.pc = "idle" BY <1>16 DEF EndHandler, NoWork, Handling
  <2>3. queue' \in Seq(Runs) BY <1>16, <2>1, AppendProperties DEF EndHandler
  <2> QED BY <1>16, <2>2, <2>3 DEF EndHandler, Typed, AtWork
<1>17. CASE Crash
  <2>1. handler' \in Handling /\ handler'.pc = "idle" BY <1>17 DEF Crash, NoWork, Handling
  <2>2. disturbed' \subseteq Runs
    BY <1>17, JobIsARun DEF Crash, Typed, AtWork
  <2> QED BY <1>0, <1>17, <2>1, <2>2 DEF Crash, Typed, AtWork
<1>18. CASE Restart BY <1>18 DEF Restart, Typed, AtWork
<1>19. CASE UNCHANGED vars BY <1>19 DEF vars, Typed, AtWork
<1> QED
  BY <1>1, <1>2, <1>3, <1>4, <1>5, <1>6, <1>7, <1>8, <1>9, <1>10, <1>11, <1>12, <1>13, <1>14,
     <1>15, <1>16, <1>17, <1>18, <1>19
  DEF Next, Trigger, Handler

-----------------------------------------------------------------------------
(* Post-actions.                                                           *)

\* A run whose post-actions were performed has a verdict, and its execution is not
\* PENDING any more: nothing takes it up again.  The handler performs them for a run
\* that had none before.
Once ==
    /\ \A r \in Runs : /\ hooked[r] <= 1
                       /\ exec[r] = "pending" => run[r] # "none"
                       /\ hooked[r] > 0 => run[r] # "none" /\ exec[r] # "pending"
    /\ handler.pc = "running" => exec[Job] = "pending"
    /\ handler.pc \in {"verdict", "hooks", "expire"} =>
          run[Job] # "none" /\ exec[Job] # "pending"
    /\ handler.pc = "verdict" => handler.verdict # "none"
    /\ handler.pc = "hooks" \/ (handler.pc = "verdict" /\ handler.verdict = "completed") =>
          hooked[Job] = 0

\* Every step keeps Once.
LEMMA OnceHolds == ASSUME Typed, AtWork, Once, [Next]_vars PROVE Once'
<1> USE DEF rowVars, workVars, userVars
<1>0. queue # <<>> => Job \in Runs BY JobIsARun DEF Typed
<1>1. ASSUME NEW r \in Runs, CreateRun(r) PROVE Once'
  BY <1>0, <1>1 DEF CreateRun, Typed, AtWork, Once, Job
<1>2. ASSUME NEW r \in Runs, Enqueue(r) PROVE Once'
  <2>1. queue # <<>> => Job' = Job BY <1>2, JobStays DEF Enqueue, Typed
  <2> QED BY <1>2, <2>1 DEF Enqueue, AtWork, Once
<1>3. ASSUME NEW r \in Runs, EnqueueFails(r) \/ TaskDeleted(r) \/ StalePick(r) PROVE Once'
  BY <1>3 DEF EnqueueFails, TaskDeleted, StalePick, Once, Job
<1>4. ASSUME NEW r \in Runs, StaleFail(r) PROVE Once'
  BY <1>0, <1>4 DEF StaleFail, At, Typed, AtWork, Once, Job
<1>5. ASSUME NEW u \in Others, UserAcquire(u) \/ UserRelease(u) PROVE Once'
  BY <1>5 DEF UserAcquire, UserRelease, Once, Job
<1>6. CASE Take
  <2>1. handler'.pc = IF exec[Job] = "pending" THEN "running" ELSE "release"
    BY <1>6 DEF Take, Typed, Handling
  <2> QED BY <1>6, <2>1 DEF Take, Once, Job
<1>7. CASE Finish
  <2>1. Job \in Runs /\ handler.pc = "running" BY <1>0, <1>7 DEF Finish, At
  <2>2. PICK v \in Verdicts :
          /\ exec' = [exec EXCEPT ![Job] = v.status]
          /\ handler' = [pc |-> "verdict", verdict |-> v.verdict, raise |-> v.raise]
    BY <1>7 DEF Finish
  <2>3. v.status # "pending" /\ v.verdict # "none" BY DEF Verdicts
  <2>4. handler'.pc = "verdict" /\ handler'.verdict # "none" BY <2>2, <2>3
  <2>5. UNCHANGED <<run, hooked, queue>> BY <1>7 DEF Finish
  <2>6. exec[Job] = "pending" /\ run[Job] # "none" /\ hooked[Job] = 0
    BY <2>1 DEF Typed, Once
  <2>7. \A r \in Runs : exec'[r] = IF r = Job THEN v.status ELSE exec[r]
    BY <2>1, <2>2 DEF Typed
  <2>8. Job' = Job BY <2>5 DEF Job
  <2> QED BY <2>1, <2>3, <2>4, <2>5, <2>6, <2>7, <2>8 DEF Once
<1>8. CASE WriteVerdict
  <2>1. Job \in Runs /\ handler.pc = "verdict" BY <1>0, <1>8 DEF WriteVerdict, At
  <2>2. PICK p \in {"hooks", "release", "expire"} :
          handler' = [handler EXCEPT !.pc = p] /\ (p = "hooks" => handler.verdict = "completed")
    BY <1>8 DEF WriteVerdict
  <2>3. handler'.pc = p BY <2>2, HandlerMoves DEF Typed
  <2>4. UNCHANGED <<exec, hooked, queue>> BY <1>8 DEF WriteVerdict
  <2>5. \A r \in Runs : run'[r] = IF r = Job THEN handler.verdict ELSE run[r]
    BY <1>8, <2>1 DEF WriteVerdict, Typed
  <2>6. handler.verdict # "none" /\ exec[Job] # "pending" BY <2>1 DEF Once
  <2>7. Job' = Job BY <2>4 DEF Job
  <2> QED BY <2>1, <2>2, <2>3, <2>4, <2>5, <2>6, <2>7 DEF Once
<1>9. CASE VerdictLost
  <2>1. handler.pc = "verdict" BY <1>9 DEF VerdictLost, At
  <2>2. PICK p \in {"release", "expire"} : handler' = [handler EXCEPT !.pc = p]
    BY <1>9 DEF VerdictLost
  <2>3. handler'.pc = p BY <2>2, HandlerMoves DEF Typed
  <2> QED BY <1>9, <2>1, <2>2, <2>3 DEF VerdictLost, Once, Job
<1>10. CASE RunHooks
  <2>1. Job \in Runs /\ handler.pc = "hooks" BY <1>0, <1>10 DEF RunHooks, At
  <2>2. handler'.pc = "expire" BY <1>10, HandlerMoves DEF RunHooks, Typed
  <2>3. hooked[Job] = 0 /\ run[Job] # "none" /\ exec[Job] # "pending" BY <2>1 DEF Once
  <2>4. \A r \in Runs : r # Job => hooked'[r] = hooked[r] BY <1>10, <2>1 DEF RunHooks, Typed
  <2>5. hooked'[Job] \in 0..1 BY <1>10, <2>1, <2>3 DEF RunHooks, Typed
  <2>6. UNCHANGED <<run, exec, queue>> /\ Job' = Job BY <1>10 DEF RunHooks, Job
  <2> QED BY <2>1, <2>2, <2>3, <2>4, <2>5, <2>6 DEF Once
<1>11. CASE Expire
  <2>1. handler'.pc = "release" BY <1>11, HandlerMoves DEF Expire, Typed
  <2> QED BY <1>11, <2>1 DEF Expire, Once, Job
<1>12. CASE ExpireFails
  <2>1. Job \in Runs /\ handler.pc = "expire" BY <1>0, <1>12 DEF ExpireFails, At
  <2>2. handler'.pc = "verdict" /\ handler'.verdict = "failed" BY <1>12 DEF ExpireFails
  <2> QED BY <1>12, <2>1, <2>2 DEF ExpireFails, Once, Typed, Job
<1>13. CASE TimeOut
  <2>1. Job \in Runs BY <1>0, <1>13 DEF TimeOut
  <2>2. handler'.pc = "release" BY <1>13 DEF TimeOut, NoWork
  <2> QED BY <1>13, <2>1, <2>2 DEF TimeOut, Once, Typed, Job
<1>14. CASE EndHandler
  <2>1. handler'.pc = "idle" BY <1>14 DEF EndHandler, NoWork
  <2> QED BY <1>14, <2>1 DEF EndHandler, Once
<1>15. CASE Crash
  <2>1. handler'.pc = "idle" BY <1>15 DEF Crash, NoWork
  <2> QED BY <1>15, <2>1 DEF Crash, Once
<1>16. CASE Restart
  <2>1. handler.pc = "idle" /\ handler' = handler BY <1>16 DEF Restart, AtWork
  <2>2. \A r \in Runs : exec'[r] # "pending" BY <1>16 DEF Restart
  <2> QED BY <1>16, <2>1, <2>2 DEF Restart, Once
<1>17. CASE UNCHANGED vars BY <1>17 DEF vars, Once, Job
<1> QED
  BY <1>1, <1>2, <1>3, <1>4, <1>5, <1>6, <1>7, <1>8, <1>9, <1>10, <1>11, <1>12, <1>13, <1>14,
     <1>15, <1>16, <1>17
  DEF Next, Trigger, Handler

-----------------------------------------------------------------------------
(* Verdicts.                                                               *)

\* The verdicts a run may have when its execution ended like this.
Agrees(status, verdict) ==
    \/ status = "none" /\ verdict = "none"
    \/ status = "pending" /\ verdict = "running"
    \/ status = "completed" /\ verdict = "completed"
    \/ status = "stopped" /\ verdict = "skipped"
    \/ status = "failed" /\ verdict \in {"failed", "completed"}

Writing(r) == handler.pc = "verdict" /\ Job = r

Told ==
    /\ \A r \in Runs \ disturbed :
         Agrees(exec[r], IF Writing(r) THEN handler.verdict ELSE run[r])
    /\ worker = "down" => {r \in Runs : run[r] = "running"} \subseteq disturbed

\* Every step keeps Told.
LEMMA ToldHolds == ASSUME Typed, AtWork, Once, Told, [Next]_vars PROVE Told'
<1> USE DEF rowVars, workVars, userVars
<1>0. queue # <<>> => Job \in Runs BY JobIsARun DEF Typed
<1>1. ASSUME NEW r \in Runs, CreateRun(r) PROVE Told'
  <2>1. ~Writing(r) BY <1>1 DEF CreateRun, Once, Writing
  <2>2. \A x \in Runs : Writing(x)' <=> Writing(x) BY <1>1 DEF CreateRun, Writing, Job
  <2>3. /\ UNCHANGED <<disturbed, handler>> /\ worker = "up" /\ worker' = "up"
        /\ run'[r] = "running" /\ exec'[r] = "pending"
        /\ \A x \in Runs : x # r => run'[x] = run[x] /\ exec'[x] = exec[x]
    BY <1>1 DEF CreateRun, Typed
  <2>4. Agrees("pending", "running") BY DEF Agrees
  <2> QED BY <2>1, <2>2, <2>3, <2>4 DEF Told
<1>2. ASSUME NEW r \in Runs, Enqueue(r) PROVE Told'
  <2>1. queue # <<>> => Job' = Job BY <1>2, JobStays DEF Enqueue, Typed
  <2>2. \A x \in Runs : Writing(x)' <=> Writing(x) BY <1>2, <2>1 DEF Enqueue, AtWork, Writing
  <2> QED BY <1>2, <2>2 DEF Enqueue, Told
<1>3. ASSUME NEW r \in Runs, EnqueueFails(r) \/ TaskDeleted(r) \/ StalePick(r) PROVE Told'
  BY <1>3 DEF EnqueueFails, TaskDeleted, StalePick, Told, Writing, Job
<1>4. ASSUME NEW r \in Runs, StaleFail(r) PROVE Told'
  BY <1>4 DEF StaleFail, Typed, Told, Writing, Job
<1>5. ASSUME NEW u \in Others, UserAcquire(u) \/ UserRelease(u) PROVE Told'
  BY <1>5 DEF UserAcquire, UserRelease, Told, Writing, Job
<1>6. CASE Take
  <2>1. handler.pc = "idle" /\ handler'.pc \in {"running", "release"}
    BY <1>6 DEF Take, At, Typed, Handling
  <2> QED BY <1>6, <2>1 DEF Take, Told, Writing
<1>7. CASE Finish
  <2>1. Job \in Runs /\ handler.pc = "running" BY <1>0, <1>7 DEF Finish, At
  <2>2. PICK v \in Verdicts :
          /\ exec' = [exec EXCEPT ![Job] = v.status]
          /\ handler' = [pc |-> "verdict", verdict |-> v.verdict, raise |-> v.raise]
    BY <1>7 DEF Finish
  <2>3. Agrees(v.status, v.verdict) BY DEF Verdicts, Agrees
  <2>4. handler'.pc = "verdict" /\ handler'.verdict = v.verdict BY <2>2
  <2>5. UNCHANGED <<run, worker, disturbed, queue>> /\ Job' = Job BY <1>7 DEF Finish, Job
  <2>6. \A r \in Runs : exec'[r] = IF r = Job THEN v.status ELSE exec[r]
    BY <2>1, <2>2 DEF Typed
  <2>7. \A r \in Runs : ~Writing(r) /\ (Writing(r)' <=> r = Job)
    BY <2>1, <2>4, <2>5 DEF Writing
  <2> QED BY <2>3, <2>4, <2>5, <2>6, <2>7 DEF Told
<1>8. CASE WriteVerdict
  <2>1. Job \in Runs /\ handler.pc = "verdict" /\ worker = "up"
    BY <1>0, <1>8 DEF WriteVerdict, At
  <2>2. PICK p \in {"hooks", "release", "expire"} : handler' = [handler EXCEPT !.pc = p]
    BY <1>8 DEF WriteVerdict
  <2>3. handler'.pc # "verdict" BY <2>2, HandlerMoves DEF Typed
  <2>4. UNCHANGED <<exec, worker, disturbed, queue>> BY <1>8 DEF WriteVerdict
  <2>5. \A r \in Runs : run'[r] = IF r = Job THEN handler.verdict ELSE run[r]
    BY <1>8, <2>1 DEF WriteVerdict, Typed
  <2>6. \A r \in Runs : (Writing(r) <=> r = Job) /\ ~Writing(r)' BY <2>1, <2>3 DEF Writing
  <2> QED BY <2>1, <2>4, <2>5, <2>6 DEF Told
<1>9. CASE VerdictLost
  <2>1. worker = "up" /\ handler.pc = "verdict" BY <1>9 DEF VerdictLost, At
  <2>2. \A r \in Runs \ disturbed' : ~Writing(r) BY <1>9 DEF VerdictLost, Writing
  <2>3. PICK p \in {"release", "expire"} : handler' = [handler EXCEPT !.pc = p]
    BY <1>9 DEF VerdictLost
  <2>4. handler'.pc # "verdict" BY <2>3, HandlerMoves DEF Typed
  <2> QED BY <1>9, <2>1, <2>2, <2>4 DEF VerdictLost, Told, Writing
<1>10. CASE RunHooks \/ Expire
  <2>1. handler.pc # "verdict" BY <1>10 DEF RunHooks, Expire, At
  <2>2. handler'.pc # "verdict" BY <1>10, HandlerMoves DEF RunHooks, Expire, Typed
  <2> QED BY <1>10, <2>1, <2>2 DEF RunHooks, Expire, Told, Writing
<1>11. CASE ExpireFails
  <2>1. Job \in Runs /\ handler.pc = "expire" /\ worker = "up"
    BY <1>0, <1>11 DEF ExpireFails, At
  <2>2. handler'.pc = "verdict" /\ handler'.verdict = "failed" BY <1>11 DEF ExpireFails
  <2>3. UNCHANGED <<run, worker, disturbed, queue>> /\ Job' = Job BY <1>11 DEF ExpireFails, Job
  <2>4. \A r \in Runs : exec'[r] = IF r = Job THEN "failed" ELSE exec[r]
    BY <1>11, <2>1 DEF ExpireFails, Typed
  <2>5. \A r \in Runs : ~Writing(r) /\ (Writing(r)' <=> r = Job)
    BY <2>1, <2>2, <2>3 DEF Writing
  <2>6. Agrees("failed", "failed") BY DEF Agrees
  <2> QED BY <2>2, <2>3, <2>4, <2>5, <2>6 DEF Told
<1>12. CASE TimeOut
  <2>1. Job \in Runs /\ worker = "up" BY <1>0, <1>12 DEF TimeOut
  <2>2. handler'.pc = "release" BY <1>12 DEF TimeOut, NoWork
  <2>3. \A r \in Runs \ disturbed' : r # Job /\ r \notin disturbed BY <1>12 DEF TimeOut
  <2>4. \A r \in Runs \ disturbed' : ~Writing(r) /\ ~Writing(r)' BY <2>2, <2>3 DEF Writing
  <2>5. \A r \in Runs : r # Job => exec'[r] = exec[r] BY <1>12 DEF TimeOut, Typed
  <2> QED BY <1>12, <2>1, <2>3, <2>4, <2>5 DEF TimeOut, Told
<1>13. CASE EndHandler
  <2>1. handler'.pc = "idle" /\ handler.pc = "release" BY <1>13 DEF EndHandler, NoWork, At
  <2> QED BY <1>13, <2>1 DEF EndHandler, Told, Writing
<1>14. CASE Crash
  <2>1. handler'.pc = "idle" BY <1>14 DEF Crash, NoWork
  <2>2. \A r \in Runs \ disturbed' : ~Writing(r) /\ ~Writing(r)'
    BY <1>14, <2>1 DEF Crash, Writing
  <2> QED BY <1>14, <2>2 DEF Crash, Told
<1>15. CASE Restart
  <2>1. handler.pc = "idle" /\ handler' = handler /\ UNCHANGED <<run, disturbed>>
    BY <1>15 DEF Restart, AtWork
  <2>2. ASSUME NEW r \in Runs \ disturbed PROVE exec'[r] = exec[r]
    <3>1. run[r] # "running" BY <1>15 DEF Restart, Told
    <3>2. exec[r] # "pending" BY <2>1, <3>1 DEF Told, Agrees, Writing
    <3> QED BY <1>15, <3>2 DEF Restart
  <2> QED BY <1>15, <2>1, <2>2 DEF Restart, Told, Writing
<1>16. CASE UNCHANGED vars BY <1>16 DEF vars, Told, Writing, Job
<1> QED
  BY <1>1, <1>2, <1>3, <1>4, <1>5, <1>6, <1>7, <1>8, <1>9, <1>10, <1>11, <1>12, <1>13, <1>14,
     <1>15, <1>16
  DEF Next, Trigger, Handler

-----------------------------------------------------------------------------
(* Slots.                                                                  *)

Held == {e \in Execs : slot[e] # NoTeam}

\* Only users' executions acquire.  A holder keeps its slot until it is released, and
\* every release that had none to give back is counted in "excess".
Balanced ==
    /\ other \in [Others -> {"new", "held", "released", "over"}]
    /\ slot \in [Execs -> Teams \cup {NoTeam}]
    /\ global \in Nat /\ global <= GlobalMax /\ excess \in Nat
    /\ \A r \in Runs : slot[r] = NoTeam
    /\ \A u \in Others : other[u] = "held" => slot[u] # NoTeam
    /\ Cardinality(Held) <= global + excess

\* The larger and the smaller of two numbers, as the library defines them.
LEMMA MaxOfTwo == ASSUME NEW n \in Int PROVE Max({0, n}) = IF n > 0 THEN n ELSE 0
<1>1. \E x \in {0, n} : \A y \in {0, n} : x >= y
  <2>1. CASE n > 0 BY <2>1
  <2>2. CASE ~(n > 0) BY <2>2
  <2> QED BY <2>1, <2>2
<1>2. Max({0, n}) \in {0, n} /\ \A y \in {0, n} : Max({0, n}) >= y BY <1>1 DEF Max
<1> QED BY <1>2

\* The smaller of two numbers is one of them and below both.
LEMMA MinOfTwo ==
  ASSUME NEW m \in Nat, NEW n \in Nat PROVE Min({m, n}) = IF m <= n THEN m ELSE n
<1>1. \E x \in {m, n} : \A y \in {m, n} : x =< y
  <2>1. CASE m <= n BY <2>1
  <2>2. CASE ~(m <= n) BY <2>2
  <2> QED BY <2>1, <2>2
<1>2. Min({m, n}) \in {m, n} /\ \A y \in {m, n} : Min({m, n}) =< y BY <1>1 DEF Min
<1> QED BY <1>2

\* A set of executions can be counted.
LEMMA ExecsAreFinite ==
  ASSUME NEW S \in SUBSET Execs PROVE IsFiniteSet(S) /\ Cardinality(S) \in Nat
BY ExecsAssumption, FS_Subset, FS_CardinalityType

\* A release takes a slot away from its execution, or a unit from somebody else.
LEMMA ReleaseBalances ==
  ASSUME Balanced, NEW tm \in Teams, NEW e \in Execs, Release(tm, e)
  PROVE  /\ slot' = [slot EXCEPT ![e] = NoTeam]
         /\ global' \in Nat /\ global' <= GlobalMax /\ excess' \in Nat
         /\ Cardinality(Held') <= global' + excess'
<1>1. slot' = [slot EXCEPT ![e] = NoTeam] BY DEF Release, ReleaseSlot
<1>2. global' = IF global > 0 THEN global - 1 ELSE 0 BY DEF Release, ReleaseSlot, DecrClamped
<1>3. excess' = excess + (IF slot[e] = NoTeam /\ global > 0 THEN 1 ELSE 0)
  BY DEF Release, Unheld
<1>4. global \in Nat /\ excess \in Nat /\ global <= GlobalMax /\ GlobalMax \in Nat
  BY LimitAssumption DEF Balanced
<1>5. global' \in Nat /\ global' <= GlobalMax /\ excess' \in Nat BY <1>2, <1>3, <1>4
<1>6. Held' = Held \ {e} BY <1>1 DEF Held, Balanced
<1>7. IsFiniteSet(Held) /\ Cardinality(Held) \in Nat BY ExecsAreFinite DEF Held
<1>8. CASE slot[e] = NoTeam
  <2>1. Held' = Held BY <1>6, <1>8 DEF Held
  <2>2. global' + excess' = global + excess BY <1>2, <1>3, <1>4, <1>8
  <2> QED BY <1>1, <1>5, <2>1, <2>2 DEF Balanced
<1>9. CASE slot[e] # NoTeam
  <2>1. e \in Held BY <1>9 DEF Held
  <2>2. Cardinality(Held') = Cardinality(Held) - 1 BY <1>6, <1>7, <2>1, FS_RemoveElement
  <2>3. global' + excess' >= global + excess - 1 BY <1>2, <1>3, <1>4, <1>9
  <2>4. Cardinality(Held) <= global + excess BY DEF Balanced
  <2>5. PICK g, x : g = global' /\ x = excess' OBVIOUS
  <2>6. g \in Nat /\ x \in Nat /\ g + x >= global + excess - 1 BY <1>5, <2>3, <2>5
  <2>7. Cardinality(Held) - 1 <= g + x BY <1>4, <1>7, <2>4, <2>6
  <2>8. Cardinality(Held') <= global' + excess' BY <2>2, <2>5, <2>7
  <2> QED BY <1>1, <1>5, <2>8
<1> QED BY <1>8, <1>9

\* The recovery takes one unit for every interrupted run, which held none, and one for
\* every user's execution that held a slot.
LEMMA RecoveryBalances == ASSUME Typed, Balanced, Restart PROVE Balanced'
<1> DEFINE interrupted == {r \in Runs : exec[r] = "pending"}
           holders == {u \in Others : other[u] = "held"}
           both == interrupted \cup holders
<1>1. PICK I, H, B : I = interrupted /\ H = holders /\ B = both OBVIOUS
<1>2. /\ I \in SUBSET Execs /\ H \in SUBSET Execs /\ I \cap H = {} /\ B = I \cup H
      /\ I \subseteq Runs /\ H \subseteq Others
  BY <1>1, ExecsAssumption
<1>3. IsFiniteSet(I) /\ IsFiniteSet(H) /\ Cardinality(I) \in Nat /\ Cardinality(H) \in Nat
  BY <1>2, ExecsAreFinite
<1>4. Cardinality(B) = Cardinality(I) + Cardinality(H)
  <2>1. Cardinality(I \cap H) = 0 BY <1>2, FS_EmptySet
  <2>2. Cardinality(I \cup H) = Cardinality(I) + Cardinality(H) - Cardinality(I \cap H)
    BY <1>3, FS_Union
  <2> QED BY <1>2, <1>3, <2>1, <2>2
<1>5. /\ other' = [u \in Others |-> IF u \in H THEN "released" ELSE other[u]]
      /\ global' = Max({0, global - Cardinality(B)})
      /\ slot' = [e \in Execs |-> IF e \in B THEN NoTeam ELSE slot[e]]
      /\ excess' = excess + Min({global, Cardinality(I)})
  BY <1>1 DEF Restart
<1> HIDE DEF interrupted, holders, both
<1>6. global \in Nat /\ excess \in Nat /\ global <= GlobalMax /\ GlobalMax \in Nat
  BY LimitAssumption DEF Balanced
<1>7. global' = IF global - Cardinality(B) > 0 THEN global - Cardinality(B) ELSE 0
  BY <1>3, <1>4, <1>5, <1>6, MaxOfTwo
<1>8. excess' = excess + (IF global <= Cardinality(I) THEN global ELSE Cardinality(I))
  BY <1>3, <1>5, <1>6, MinOfTwo
<1>9. global' \in Nat /\ global' <= GlobalMax /\ excess' \in Nat
  BY <1>3, <1>4, <1>6, <1>7, <1>8
<1>10. other' \in [Others -> {"new", "held", "released", "over"}] BY <1>5 DEF Balanced
<1>11. slot' \in [Execs -> Teams \cup {NoTeam}] BY <1>5 DEF Balanced
<1>12. \A r \in Runs : slot'[r] = NoTeam BY <1>5, ExecsAssumption DEF Balanced
<1>13. \A u \in Others : other'[u] # "held" BY <1>1, <1>5 DEF Balanced, holders
<1>14. Cardinality(Held') <= global' + excess'
  <2>1. H \subseteq Held BY <1>1, <1>2, ExecsAssumption DEF Balanced, Held, holders
  <2>2. Held' = Held \ H
    <3>1. Held' = Held \ B BY <1>5 DEF Held
    <3>2. Held \cap I = {} BY <1>2 DEF Balanced, Held
    <3> QED BY <1>2, <3>1, <3>2
  <2>3. IsFiniteSet(Held) /\ Cardinality(Held) \in Nat BY ExecsAreFinite DEF Held
  <2>4. Held \cap H = H BY <2>1
  <2>5. Cardinality(Held') = Cardinality(Held) - Cardinality(H)
    <3>1. Cardinality(Held \ H) = Cardinality(Held) - Cardinality(Held \cap H)
      BY <1>3, <2>3, FS_Difference
    <3> QED BY <2>2, <2>4, <3>1
  <2>6. Cardinality(Held) <= global + excess BY DEF Balanced
  <2> QED BY <1>3, <1>4, <1>6, <1>7, <1>8, <1>9, <2>3, <2>5, <2>6
<1> QED BY <1>9, <1>10, <1>11, <1>12, <1>13, <1>14 DEF Balanced

\* A step that touches neither slots nor holders keeps Balanced.
LEMMA QuietSlots == ASSUME Balanced, UNCHANGED userVars PROVE Balanced'
BY DEF Balanced, Held, userVars, slotVars

\* Every step keeps Balanced.
LEMMA BalancedHolds == ASSUME Typed, Balanced, [Next]_vars PROVE Balanced'
<1>0. /\ Platform \in Teams /\ \A r \in Runs : r \in Execs /\ r \notin Others
      /\ \A u \in Others : Owner[u] \in Teams
  BY ExecsAssumption
<1>1. ASSUME NEW u \in Others, UserAcquire(u) PROVE Balanced'
  <2>1. /\ u \in Execs /\ u \notin Runs /\ Owner[u] # NoTeam
    BY <1>0, ExecsAssumption, NoTeamAssumption
  <2>2. /\ global + 1 <= GlobalMax /\ global' = global + 1 /\ excess' = excess
        /\ slot' = [slot EXCEPT ![u] = Owner[u]] /\ other' = [other EXCEPT ![u] = "held"]
    BY <1>1 DEF UserAcquire, AcquireSlot, HasRoom
  <2>3. IsFiniteSet(Held) /\ Cardinality(Held) \in Nat BY ExecsAreFinite DEF Held
  <2>4. Held' = Held \cup {u} BY <2>1, <2>2 DEF Held, Balanced
  <2>5. Cardinality(Held \cup {u}) \in {Cardinality(Held), Cardinality(Held) + 1}
    BY <2>3, FS_AddElement
  <2>6. Cardinality(Held') <= global' + excess'
    BY <2>2, <2>3, <2>4, <2>5 DEF Balanced
  <2>7. /\ slot' \in [Execs -> Teams \cup {NoTeam}] /\ \A r \in Runs : slot'[r] = NoTeam
        /\ other' \in [Others -> {"new", "held", "released", "over"}]
        /\ \A x \in Others : other'[x] = "held" => slot'[x] # NoTeam
    BY <1>0, <2>1, <2>2, ExecsAssumption DEF Balanced
  <2>8. global' \in Nat /\ global' <= GlobalMax /\ excess' \in Nat BY <2>2 DEF Balanced
  <2> QED BY <2>6, <2>7, <2>8 DEF Balanced
<1>2. ASSUME NEW u \in Others, UserRelease(u) PROVE Balanced'
  <2>1. u \in Execs /\ Release(Owner[u], u) /\ other' = [other EXCEPT ![u] = "over"]
    BY <1>2, ExecsAssumption DEF UserRelease
  <2>2. /\ slot' = [slot EXCEPT ![u] = NoTeam]
        /\ global' \in Nat /\ global' <= GlobalMax /\ excess' \in Nat
        /\ Cardinality(Held') <= global' + excess'
    BY <1>0, <2>1, ReleaseBalances
  <2>3. /\ slot' \in [Execs -> Teams \cup {NoTeam}] /\ \A r \in Runs : slot'[r] = NoTeam
        /\ other' \in [Others -> {"new", "held", "released", "over"}]
        /\ \A x \in Others : other'[x] = "held" => slot'[x] # NoTeam
    BY <1>0, <2>1, <2>2, ExecsAssumption DEF Balanced
  <2> QED BY <2>2, <2>3 DEF Balanced
<1>3. ASSUME NEW r \in Runs, Release(Platform, r), other' = other PROVE Balanced'
  <2>1. /\ slot' = [slot EXCEPT ![r] = NoTeam]
        /\ global' \in Nat /\ global' <= GlobalMax /\ excess' \in Nat
        /\ Cardinality(Held') <= global' + excess'
    BY <1>0, <1>3, ReleaseBalances
  <2>2. slot' = slot BY <1>0, <2>1 DEF Balanced
  <2> QED BY <1>3, <2>1, <2>2 DEF Balanced
<1>4. CASE \E r \in Runs : StaleFail(r) BY <1>3, <1>4 DEF StaleFail
<1>5. CASE EndHandler
  <2>1. Job \in Runs BY <1>5, JobIsARun DEF EndHandler, At, Typed
  <2> QED BY <1>3, <1>5, <2>1 DEF EndHandler
<1>6. CASE \E r \in Runs : Trigger(r) \/ StalePick(r)
  BY <1>6, QuietSlots
  DEF Trigger, CreateRun, Enqueue, EnqueueFails, TaskDeleted, StalePick
<1>7. CASE Take \/ Finish \/ WriteVerdict \/ VerdictLost \/ RunHooks
  BY <1>7, QuietSlots DEF Take, Finish, WriteVerdict, VerdictLost, RunHooks
<1>8. CASE Expire \/ ExpireFails \/ TimeOut \/ Crash
  BY <1>8, QuietSlots DEF Expire, ExpireFails, TimeOut, Crash
<1>9. CASE Restart BY <1>9, RecoveryBalances
<1>10. CASE UNCHANGED vars BY <1>10, QuietSlots DEF vars
<1> QED
  BY <1>1, <1>2, <1>4, <1>5, <1>6, <1>7, <1>8, <1>9, <1>10 DEF Next, Trigger, Handler

-----------------------------------------------------------------------------
(* The inductive invariant, and what follows from it.                      *)

RunsInv == Typed /\ AtWork /\ Once /\ Told /\ Balanced

\* RunsInv is inductive.
LEMMA RunsInductive == Spec => []RunsInv
<1>1. Init => RunsInv
  <2> SUFFICES ASSUME Init PROVE RunsInv OBVIOUS
  <2> USE DEF Init
  <2>1. Typed
    <3>1. handler \in Handling BY DEF NoWork, Handling
    <3> QED BY <3>1, BoundsAssumption DEF Typed
  <2>2. AtWork /\ Once BY DEF AtWork, Once, NoWork
  <2>3. Told BY DEF Told, Agrees, Writing, NoWork
  <2>4. Balanced
    <3>1. Held = {} BY DEF SlotInit, Held
    <3>2. Cardinality(Held) = 0 BY <3>1, FS_EmptySet
    <3> QED BY <3>2, LimitAssumption, ExecsAssumption DEF SlotInit, Balanced
  <2> QED BY <2>1, <2>2, <2>3, <2>4 DEF RunsInv
<1>2. RunsInv /\ [Next]_vars => RunsInv'
  BY TypesHold, OnceHolds, ToldHolds, BalancedHolds DEF RunsInv
<1> QED BY <1>1, <1>2, PTL DEF Spec

(***************************************************************************)
(* update_scheduled_task_run tells the truth: where nobody but the handler *)
(* wrote the rows of a run and nothing cut the handler short, the verdict  *)
(* agrees with the end of the execution once the handler has gone on.      *)
(***************************************************************************)
THEOREM VerdictsAreTrue == Spec => []RunTellsTheOutcome
<1>1. RunsInv => RunTellsTheOutcome
  <2> SUFFICES ASSUME RunsInv, NEW r \in Runs \ disturbed, ~InHand(r)
               PROVE  run[r] \in CASE exec[r] = "none" -> {"none"}
                                   [] exec[r] = "pending" -> {"running"}
                                   [] exec[r] = "completed" -> {"completed"}
                                   [] exec[r] = "stopped" -> {"skipped"}
                                   [] exec[r] = "failed" -> {"failed", "completed"}
    BY DEF RunTellsTheOutcome
  <2>1. ~Writing(r) BY DEF RunsInv, AtWork, InHand, Writing
  <2>2. Agrees(exec[r], run[r]) BY <2>1 DEF RunsInv, Told
  <2> QED BY <2>2 DEF Agrees
<1> QED BY <1>1, RunsInductive, PTL

(***************************************************************************)
(* _execute_post_actions merges a pull request, calls a webhook, at most   *)
(* once for a run: whatever is redelivered, an execution that is not       *)
(* PENDING any more is skipped.                                            *)
(***************************************************************************)
THEOREM HooksRunOnce == Spec => []PostActionsRunOnce
<1>1. RunsInv => PostActionsRunOnce BY DEF RunsInv, Once, PostActionsRunOnce
<1> QED BY <1>1, RunsInductive, PTL

(***************************************************************************)
(* The slots in use exceed FAIR_SCHEDULE_GLOBAL_MAX by no more than what   *)
(* releases without an acquire (execute_trigger acquires none) and the     *)
(* recovery have given back.                                               *)
(***************************************************************************)
THEOREM ExcessIsAccountedFor == Spec => []OveradmissionIsPaidFor
<1>1. RunsInv => OveradmissionIsPaidFor
  <2> SUFFICES ASSUME RunsInv PROVE OveradmissionIsPaidFor OBVIOUS
  <2>1. /\ Cardinality(Held) <= global + excess /\ global <= GlobalMax
        /\ global \in Nat /\ excess \in Nat
    BY DEF RunsInv, Balanced
  <2>2. Cardinality(Held) \in Nat /\ GlobalMax \in Nat
    BY ExecsAreFinite, LimitAssumption DEF Held
  <2>3. Cardinality(Held) <= GlobalMax + excess BY <2>1, <2>2
  <2> QED BY <2>3 DEF OveradmissionIsPaidFor, Held
<1> QED BY <1>1, RunsInductive, PTL

=============================================================================
