------------------------------- MODULE Gateway -------------------------------
(***************************************************************************)
(* A tool call on its way through the gateway: the executor in the engine  *)
(* asks, is told to wait for an approval, subscribes, and asks again when  *)
(* it hears that the call was approved; admins and users decide; commands  *)
(* run in the sandboxes of SandboxPool.  The decision is published before  *)
(* its transaction commits, and to whoever listens at that moment; the     *)
(* tool loop of the engine gives a call up after MCP_TOOL_CALL_TIMEOUT,    *)
(* whatever it is waiting for.                                             *)
(***************************************************************************)
EXTENDS SandboxPool

CONSTANT MaxFaults    \* bound on failed steps, slow containers and restarts

ASSUME GatewayAssumption == MaxFaults \in Nat

VARIABLES
    call,      \* per call: where the executor in the engine is
    sent,      \* the request of the call the gateway has not looked at yet
    row,       \* gateway_pending_approvals: the status of its row
    deciding,  \* the decision of a transaction that has not committed yet
    heard,     \* the decision the executor's subscription has received
    told,      \* ghost: all decisions ever published for the call
    undone,    \* ghost: calls with a decision that was rolled back
    over,      \* executions the worker has done with
    faults

approvalVars == <<row, deciding, told, undone>>
engineVars == <<call, sent, heard, over>>
vars == <<poolVars, approvalVars, engineVars, faults>>

AskCalls == {c \in Calls : payload[c].kind = "asking"}
Decisions == {"approved", "rejected"}

TypeOK ==
    /\ PoolTypeOK
    /\ call \in [Calls -> {"idle", "asking", "told", "listening", "recall", "returned"}]
    /\ sent \in [Calls -> {"none", "first", "second"}]
    /\ row \in [Calls -> {"none", "new", "pending", "approved", "rejected", "timeout"}]
    /\ deciding \in [Calls -> Decisions \cup {"none"}]
    /\ heard \in [Calls -> {"none", "approved", "rejected"}]
    /\ told \in [Calls -> SUBSET {"approved", "rejected"}]
    /\ undone \subseteq AskCalls /\ over \subseteq Executions
    /\ faults \in 0..MaxFaults
    /\ \A c \in Calls : heard[c] # "none" => call[c] = "listening"

Init ==
    /\ PoolInit
    /\ call = [c \in Calls |-> "idle"] /\ heard = [c \in Calls |-> "none"] /\ over = {}
    /\ sent = [c \in Calls |-> "none"]
    /\ row = [c \in Calls |-> "none"] /\ deciding = [c \in Calls |-> "none"]
    /\ told = [c \in Calls |-> {}] /\ undone = {}
    /\ faults = 0

Fault == faults < MaxFaults /\ faults' = faults + 1
Engine(c, there) == call' = [call EXCEPT ![c] = there]
Request(c, which) == sent' = [sent EXCEPT ![c] = which]

-----------------------------------------------------------------------------
(* The executor in the engine.                                             *)

Ask(c) ==
    /\ call[c] = "idle"
    /\ Engine(c, "asking") /\ Request(c, "first")
    /\ UNCHANGED <<poolVars, approvalVars, heard, over, faults>>

\* The answer of a command that has ended.
Answer(c) ==
    /\ call[c] \in {"asking", "recall"} /\ work[c] = "done"
    /\ Engine(c, "returned")
    /\ UNCHANGED <<poolVars, approvalVars, sent, heard, over, faults>>

\* The request fails on the way, or the circuit is open.
CallFails(c) ==
    /\ call[c] \in {"asking", "recall"} /\ Fault
    /\ Engine(c, "returned")
    /\ sent' \in {sent, [sent EXCEPT ![c] = "none"]}
    /\ UNCHANGED <<poolVars, approvalVars, heard, over>>

Subscribe(c) ==
    /\ call[c] = "told"
    /\ Engine(c, "listening")
    /\ UNCHANGED <<poolVars, approvalVars, sent, heard, over, faults>>

Hear(c) ==
    /\ call[c] = "listening" /\ heard[c] # "none"
    /\ IF heard[c] = "approved"
       THEN Engine(c, "recall") /\ Request(c, "second")
       ELSE Engine(c, "returned") /\ UNCHANGED sent
    /\ heard' = [heard EXCEPT ![c] = "none"]
    /\ UNCHANGED <<poolVars, approvalVars, over, faults>>

\* _execute_with_cancel_check: the time of the tool call is up, or the execution
\* is cancelled.  The gateway does not learn of it.
InTime(c) == call[c] \in {"idle", "returned"}
GiveUp(c) ==
    /\ ~InTime(c)
    /\ Engine(c, "returned")
    /\ heard' = [heard EXCEPT ![c] = "none"]
    /\ UNCHANGED <<poolVars, approvalVars, sent, over, faults>>

\* graph_execution_handler ends and releases the sandbox; the request may be lost.
\* After a stop or a timeout the graph, and with it its calls, may go on.
ExecutionEnds(e) ==
    /\ e \notin over
    /\ over' = over \cup {e}
    /\ \/ Release(e) /\ UNCHANGED faults
       \/ Fault /\ UNCHANGED poolVars
    /\ UNCHANGED <<approvalVars, call, sent, heard>>

-----------------------------------------------------------------------------
(* The gateway: execute_tool.                                              *)

\* A call that needs no approval, or has one, runs its command.  A call that comes
\* with an approved_id is not looked up again.
Allowed(c) ==
    \/ sent[c] = "first" /\ c \notin AskCalls
    \/ sent[c] = "second"

\* The command of a call goes on although the engine has given the call up.
Execute(c) ==
    /\ Command(c)
    /\ IF work[c] = "none" /\ c \notin FileCalls \ early
       THEN Allowed(c) /\ Request(c, "none")
       ELSE UNCHANGED sent
    /\ UNCHANGED <<approvalVars, call, heard, over, faults>>

NeedsApproval(c) == sent[c] = "first" /\ c \in AskCalls

\* request_approval: the answer and the commit of the row follow in either order.
RequestApproval(c) ==
    /\ NeedsApproval(c)
    /\ row' = [row EXCEPT ![c] = "new"] /\ Request(c, "none")
    /\ UNCHANGED <<poolVars, deciding, told, undone, call, heard, over, faults>>

\* Earlier calls of the agent have left APPROVAL_MAX_PENDING_PER_AGENT rows pending.
TooManyPending(c) ==
    /\ NeedsApproval(c)
    /\ Engine(c, "returned") /\ Request(c, "none")
    /\ UNCHANGED <<poolVars, approvalVars, heard, over, faults>>

\* Redis fails after the row was written: the call is an error, the row commits.
RequestBreaks(c) ==
    /\ NeedsApproval(c) /\ Fault
    /\ row' = [row EXCEPT ![c] = "new"]
    /\ Engine(c, "returned") /\ Request(c, "none")
    /\ UNCHANGED <<poolVars, deciding, told, undone, heard, over>>

CommitRequest(c) ==
    /\ row[c] = "new"
    /\ row' = [row EXCEPT ![c] = "pending"]
    /\ UNCHANGED <<poolVars, deciding, told, undone, engineVars, faults>>

Told(c) ==
    /\ call[c] = "asking" /\ row[c] # "none"
    /\ Engine(c, "told")
    /\ UNCHANGED <<poolVars, approvalVars, sent, heard, over, faults>>

-----------------------------------------------------------------------------
(* approve, reject and timeout_expired_approvals.                          *)

NotDeciding(c) == row[c] \notin {"none", "new"} /\ deciding[c] = "none" \* Mistake: no WHERE.
\* UPDATE ... WHERE status = 'pending' locks the row.
Undecided(c) == row[c] = "pending" /\ deciding[c] = "none"

\* The decision is published before the commit.
Decide(c, d) ==
    /\ Undecided(c)
    /\ deciding' = [deciding EXCEPT ![c] = d]
    /\ told' = [told EXCEPT ![c] = @ \cup {d}]
    /\ heard' = IF call[c] = "listening" /\ heard[c] = "none"
                THEN [heard EXCEPT ![c] = d] ELSE heard
    /\ UNCHANGED <<poolVars, row, undone, call, sent, over, faults>>

CommitDecision(c) ==
    /\ deciding[c] # "none"
    /\ row' = [row EXCEPT ![c] = deciding[c]]
    /\ deciding' = [deciding EXCEPT ![c] = "none"]
    /\ UNCHANGED <<poolVars, told, undone, engineVars, faults>>

RollBack(c) ==
    /\ deciding[c] # "none" /\ Fault
    /\ deciding' = [deciding EXCEPT ![c] = "none"]
    /\ undone' = undone \cup {c}
    /\ UNCHANGED <<poolVars, row, told, engineVars>>

\* The gateway stops and starts: requests and transactions under way are lost, and
\* rows whose time is up become timeouts.  Nobody is told.
Restart ==
    /\ Fault
    /\ \E left \in SUBSET Containers : PoolRestart(left)
    /\ call' = [c \in Calls |-> IF call[c] \in {"asking", "recall"} THEN "returned" ELSE call[c]]
    /\ sent' = [c \in Calls |-> "none"]
    /\ \E expired \in SUBSET {c \in Calls : row[c] = "pending"} :
         row' = [c \in Calls |-> IF row[c] = "new" THEN "none"
                                 ELSE IF c \in expired THEN "timeout" ELSE row[c]]
    /\ deciding' = [c \in Calls |-> "none"]
    /\ undone' = undone \cup {c \in Calls : deciding[c] # "none"}
    /\ UNCHANGED <<told, heard, over>>

Mishap ==
    /\ Fault
    /\ \/ \E c \in Calls : CutOff(c) \/ CreateTimesOut(c)
       \/ \E e \in Executions : RemoveFails(e)
    /\ UNCHANGED <<approvalVars, engineVars>>

\* A step of the pool alone.
Alone(A) == A /\ UNCHANGED <<approvalVars, engineVars, faults>>
Docker ==
    \/ \E old \in SUBSET active : Alone(SweepStarts(old))
    \/ Alone(SweepEnds) \/ Alone(CoolDown)
    \/ \E e \in Executions :
         Alone(SweepReleases(e)) \/ Alone(Remove(e)) \/ Alone(StrayCreated(e))

Executor(c) == Ask(c) \/ Answer(c) \/ Subscribe(c) \/ Hear(c) \/ GiveUp(c)
Approval(c) ==
    RequestApproval(c) \/ TooManyPending(c) \/ CommitRequest(c) \/ Told(c) \/ CommitDecision(c)

Next ==
    \/ \E c \in Calls : Executor(c) \/ Execute(c) \/ Approval(c)
    \/ \E c \in Calls : CallFails(c) \/ RequestBreaks(c) \/ RollBack(c)
    \/ \E c \in Calls, d \in Decisions : Decide(c, d)
    \/ \E e \in Executions : ExecutionEnds(e)
    \/ Mishap \/ Docker \/ Restart
Spec == Init /\ [][Next]_vars

\* Timers, the tasks of the event loop and Docker go on; nobody needs to decide.
Fairness ==
    /\ \A c \in Calls : WF_vars(Execute(c))
    /\ WF_vars(Alone(SweepEnds))
    /\ \A e \in Executions : /\ WF_vars(Alone(SweepReleases(e))) /\ WF_vars(Alone(Remove(e)))
                             /\ SF_vars(Alone(SweepFinds(e)))
FairSpec == Spec /\ Fairness

-----------------------------------------------------------------------------
(* Properties.                                                             *)

\* RunsOnApproval: the command of a call that has to ask runs only when somebody has
\* said yes and nobody has said no; when both were said, a decision had been
\* published and then rolled back (approve and reject of approval/service.py).
RunsOnApproval == \A c \in AskCalls :
    ran[c] > 0 => /\ "approved" \in told[c]
                  /\ "rejected" \in told[c] => c \in undone
=============================================================================
