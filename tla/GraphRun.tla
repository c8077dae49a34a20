------------------------------ MODULE GraphRun ------------------------------
(***************************************************************************)
(* What a worker does between two events of an execution: LangGraph runs   *)
(* the nodes of the graph in a task of its own, the generator of the       *)
(* service reads the events of that task and the worker looks for a        *)
(* request to stop before it passes each of them on.  Agents call the      *)
(* model and their tools, gates wait for a person, and branches of a       *)
(* parallel node (or items of a loop) swallow what is raised in them.      *)
(***************************************************************************)
EXTENDS Naturals, Sequences, FiniteSets

CONSTANTS
    Nodes,          \* the nodes of the graph that are neither start nor end
    Kind,           \* what they are: "agent" (with tools), "plain" (without), "gate"
    Stages,         \* what LangGraph runs one after the other; a stage of several
                    \* nodes is a parallel node with its branches, or a loop
    MaxIterations,  \* max_iterations of the tool loop
    MaxTools,       \* bound: tool calls in one response
    MaxClicks,      \* bound: answers a person gives to one gate
    MaxTimeouts     \* bound: executions that reach their time limit

ASSUME KindAssumption == Kind \in [Nodes -> {"agent", "plain", "gate"}]
ASSUME StagesAssumption == Stages \in Seq(SUBSET Nodes) /\ Stages # <<>>
ASSUME GraphBoundsAssumption ==
    /\ {MaxIterations, MaxTools} \subseteq Nat \ {0}
    /\ {MaxClicks, MaxTimeouts} \subseteq Nat

VARIABLES
    stage,      \* the stage that runs
    at,         \* per node: the await it is at
    tools,      \* per node: tool calls of its last response that were not started
    calls,      \* per node: responses it had from the model
    task,       \* the task that runs the graph
    unread,     \* the queue between the graph and the generator holds events
    reader,     \* the worker reads events, handles a cancellation, or is done
    status,     \* the status of the execution
    intent,     \* revoke_intent:{execution} is "cancel"
    decision,   \* approval_decision:{execution}
    shown,      \* gates whose approval_required event is in the stream
    clicks,     \* answers on their way to the API: <<gate, answer>>
    answers,    \* per gate: what the person answered so far
    replied,    \* nodes whose human prompt has an answer in Redis
    stopAsked,  \* a stop was accepted while the execution ran
    timeouts

graphVars == <<stage, at, tools, calls, task, unread>>
workerVars == <<reader, status, timeouts>>
userVars == <<shown, clicks, answers, replied, stopAsked>>
vars == <<graphVars, workerVars, intent, decision, userVars>>

Gates == {n \in Nodes : Kind[n] = "gate"}
Answer == {"approved", "rejected"}
Ended == {"done", "failed"}

TypeOK ==
    /\ stage \in 1..Len(Stages)
    /\ at \in [Nodes -> {"idle", "loop", "llm", "calls", "tool", "prompt",
                         "opened", "gate", "granted"} \cup Ended]
    /\ tools \in [Nodes -> 0..MaxTools] /\ calls \in [Nodes -> 0..MaxIterations]
    /\ task \in {"running", "done", "error"} /\ unread \in BOOLEAN
    /\ reader \in {"reading", "stopping", "over"}
    /\ status \in {"running", "completed", "failed", "stopped"}
    /\ intent \in BOOLEAN /\ stopAsked \in BOOLEAN
    /\ decision \in {"none", "pending"} \cup Answer
    /\ shown \subseteq Gates /\ clicks \subseteq Gates \X Answer
    /\ answers \in [Gates -> Seq(Answer)] /\ replied \subseteq Nodes
    /\ timeouts \in 0..MaxTimeouts

Init ==
    /\ stage = 1 /\ at = [n \in Nodes |-> "idle"]
    /\ tools = [n \in Nodes |-> 0] /\ calls = [n \in Nodes |-> 0]
    /\ task = "running" /\ unread = TRUE
    /\ reader = "reading" /\ status = "running" /\ timeouts = 0
    /\ intent = FALSE /\ decision = "none"
    /\ shown = {} /\ clicks = {} /\ answers = [g \in Gates |-> <<>>]
    /\ replied = {} /\ stopAsked = FALSE

-----------------------------------------------------------------------------
Goto(n, place) == at' = [at EXCEPT ![n] = place]

Running(n) == task = "running" /\ n \in Stages[stage]

InBranch == Cardinality(Stages[stage]) > 1

\* What a node raises ends the graph, unless run_branch or gather catches it.
Raise(n) ==
    /\ Goto(n, "failed")
    /\ task' = IF InBranch THEN task ELSE "error"

-----------------------------------------------------------------------------
(* An agent: run_tool_loop, or a single call of the model.                 *)

Start(n) ==
    /\ Running(n) /\ at[n] = "idle" /\ Kind[n] # "gate"
    /\ Goto(n, IF Kind[n] = "agent" THEN "loop" ELSE "llm")
    /\ unread' = TRUE      \* step_started
    /\ UNCHANGED <<stage, tools, calls, task, workerVars, intent, decision, userVars>>

\* Before a call of the model: the loop looks for a request to stop.
CallModel(n) ==
    /\ Running(n) /\ at[n] = "loop"
    /\ IF intent THEN Raise(n) ELSE Goto(n, "llm") /\ UNCHANGED task
    /\ UNCHANGED <<stage, tools, calls, unread, workerVars, intent, decision, userVars>>

\* The response has tool calls; or none, which the loop refuses while it wants
\* more searches; after the last iteration the loop returns what it has.
ModelAnswers(n) ==
    /\ Running(n) /\ at[n] = "llm"
    /\ IF Kind[n] = "plain"
       THEN Goto(n, "done") /\ UNCHANGED <<tools, calls>>
       ELSE /\ calls' = [calls EXCEPT ![n] = @ + 1]
            /\ \/ \E k \in 1..MaxTools :
                    tools' = [tools EXCEPT ![n] = k] /\ Goto(n, "calls")
               \/ /\ Goto(n, IF calls'[n] < MaxIterations THEN "loop" ELSE "done")
                  /\ UNCHANGED tools
               \/ Goto(n, "done") /\ UNCHANGED tools
    /\ unread' = TRUE      \* llm_end
    /\ UNCHANGED <<stage, task, workerVars, intent, decision, userVars>>

ModelFails(n) ==
    /\ Running(n) /\ at[n] = "llm"
    /\ Raise(n)
    /\ UNCHANGED <<stage, tools, calls, unread, workerVars, intent, decision, userVars>>

CallTool(n) ==
    /\ Running(n) /\ at[n] = "calls"
    /\ IF intent
       THEN Raise(n) /\ UNCHANGED <<tools, unread>>
       ELSE /\ tools' = [tools EXCEPT ![n] = @ - 1]
            /\ \E place \in {"tool", "prompt"} : Goto(n, place)
            /\ unread' = TRUE      \* tool_start
            /\ UNCHANGED task
    /\ UNCHANGED <<stage, calls, workerVars, intent, decision, userVars>>

\* Mistake: an off-by-one in the loop over the tool calls.
AfterToolOffByOne(n) ==
    /\ Goto(n, IF tools[n] >= 0 THEN "calls" ELSE "loop")
    /\ unread' = TRUE

\* After a tool, whatever came of it, the loop goes on.
AfterTool(n) ==
    /\ Goto(n, IF tools[n] > 0 THEN "calls"
               ELSE IF calls[n] < MaxIterations THEN "loop" ELSE "done")
    /\ unread' = TRUE      \* tool_end

\* The tool answers, fails, runs out of its time, or is cancelled by the poll of
\* the intent: the ExecutionCancelled of the poll is one more tool error.
ToolReturns(n) ==
    /\ Running(n) /\ at[n] = "tool"
    /\ AfterTool(n)
    /\ UNCHANGED <<stage, tools, calls, task, workerVars, intent, decision, userVars>>

\* MCPConnectionError and ExecutionError are raised again.
ToolBreaks(n) ==
    /\ Running(n) /\ at[n] = "tool"
    /\ Raise(n)
    /\ UNCHANGED <<stage, tools, calls, unread, workerVars, intent, decision, userVars>>

\* Mistake: the prompt polls for its answer alone.
PromptReturnsIfAnswered(n) ==
    /\ Running(n) /\ at[n] = "prompt"
    /\ n \in replied
    /\ AfterTool(n)
    /\ replied' = replied \ {n}
    /\ UNCHANGED <<stage, tools, calls, task, workerVars, intent, decision, shown, clicks,
                   answers, stopAsked>>

\* human_prompt waits for its answer or for a stop, without a time limit.
PromptReturns(n) ==
    /\ Running(n) /\ at[n] = "prompt"
    /\ n \in replied \/ intent
    /\ AfterTool(n)
    /\ replied' = replied \ {n}
    /\ UNCHANGED <<stage, tools, calls, task, workerVars, intent, decision, shown, clicks,
                   answers, stopAsked>>

-----------------------------------------------------------------------------
(* An approval gate: create_approval_node.                                 *)

GateOpens(n) ==
    /\ Running(n) /\ at[n] = "idle" /\ Kind[n] = "gate"
    /\ Goto(n, "opened")
    /\ decision' = "pending"
    /\ UNCHANGED <<stage, tools, calls, task, unread, workerVars, intent, userVars>>

\* approval_required goes to the stream directly, past the queue of the task.
GateAsks(n) ==
    /\ Running(n) /\ at[n] = "opened"
    /\ Goto(n, "gate")
    /\ shown' = shown \cup {n}
    /\ UNCHANGED <<stage, tools, calls, task, unread, workerVars, intent, decision, clicks,
                   answers, replied, stopAsked>>

\* Mistake: the gate knows one answer.
GatePollsApproval(n) ==
    /\ Running(n) /\ at[n] = "gate"
    /\ \/ intent /\ Raise(n)
       \/ decision = "approved" /\ Goto(n, "granted") /\ UNCHANGED task
    /\ UNCHANGED <<stage, tools, calls, unread, workerVars, intent, decision, userVars>>

\* One poll: a stop raises (AttributeError, since the client returns str), so
\* does a rejection (ExecutionCancelled); neither has a time limit.
GatePolls(n) ==
    /\ Running(n) /\ at[n] = "gate"
    /\ \/ /\ intent
          /\ Raise(n)
          /\ UNCHANGED decision
       \/ /\ decision = "rejected"
          /\ decision' = "none"
          /\ Raise(n)
       \/ /\ decision = "approved"
          /\ Goto(n, "granted")
          /\ UNCHANGED <<decision, task>>
    /\ UNCHANGED <<stage, tools, calls, unread, workerVars, intent, userVars>>

\* approval_granted, then the keys are deleted.
GateCloses(n) ==
    /\ Running(n) /\ at[n] = "granted"
    /\ Goto(n, "done")
    /\ decision' = "none"
    /\ UNCHANGED <<stage, tools, calls, task, unread, workerVars, intent, userVars>>

\* LangGraph goes on to the next stage, or ends.
NextStage ==
    /\ task = "running"
    /\ \A n \in Stages[stage] : at[n] \in Ended
    /\ IF stage < Len(Stages)
       THEN stage' = stage + 1 /\ UNCHANGED task
       ELSE task' = "done" /\ UNCHANGED stage
    /\ unread' = TRUE      \* step_completed
    /\ UNCHANGED <<at, tools, calls, workerVars, intent, decision, userVars>>

NodeStep(n) ==
    \/ Start(n) \/ CallModel(n) \/ ModelAnswers(n) \/ ModelFails(n)
    \/ CallTool(n) \/ ToolReturns(n) \/ ToolBreaks(n) \/ PromptReturns(n)
    \/ GateOpens(n) \/ GateAsks(n) \/ GatePolls(n) \/ GateCloses(n)

-----------------------------------------------------------------------------
(* The worker: it looks for the intent before it passes an event on.       *)

Conclude(outcome) ==
    IF intent
    THEN reader' = "stopping" /\ status' = "stopped"
    ELSE reader' = "over" /\ status' = outcome

ReadEvents ==
    /\ reader = "reading" /\ unread
    /\ unread' = FALSE
    /\ IF intent THEN Conclude("stopped") ELSE UNCHANGED <<reader, status>>
    /\ UNCHANGED <<stage, at, tools, calls, task, timeouts, intent, decision, userVars>>

\* Mistake: a graph that raised is marked FAILED before anybody asks why.
ReadEndUnchecked ==
    /\ reader = "reading" /\ ~unread /\ task # "running"
    /\ IF task = "error" THEN reader' = "over" /\ status' = "failed" ELSE Conclude("completed")
    /\ UNCHANGED <<graphVars, timeouts, intent, decision, userVars>>

\* stream_done: the service makes a complete event of whatever the graph
\* returned or raised, a cancellation included, and the worker checks it too.
ReadEnd ==
    /\ reader = "reading" /\ ~unread /\ task # "running"
    /\ Conclude(IF task = "done" THEN "completed" ELSE "failed")
    /\ UNCHANGED <<graphVars, timeouts, intent, decision, userVars>>

\* asyncio.timeout cancels the generator; the task of the graph goes on.
TimeOut ==
    /\ reader = "reading" /\ timeouts < MaxTimeouts
    /\ timeouts' = timeouts + 1
    /\ Conclude("failed")
    /\ UNCHANGED <<graphVars, intent, decision, userVars>>

\* The end of _handle_cancellation.
ClearIntent ==
    /\ reader = "stopping"
    /\ reader' = "over"
    /\ intent' = FALSE
    /\ UNCHANGED <<graphVars, status, timeouts, decision, userVars>>

Worker == ReadEvents \/ ReadEnd \/ ClearIntent

-----------------------------------------------------------------------------
(* The person who started the execution, and the API.                      *)

StopIt ==
    /\ reader = "reading" /\ ~stopAsked
    /\ stopAsked' = TRUE
    /\ intent' = TRUE
    /\ UNCHANGED <<graphVars, workerVars, decision, shown, clicks, answers, replied>>

\* A click on a gate whose panel is open: approval_granted has not closed it.
Click(n, answer) ==
    /\ n \in shown /\ at[n] \in {"opened", "gate", "granted"}
    /\ Len(answers[n]) < MaxClicks
    /\ answers' = [answers EXCEPT ![n] = Append(@, answer)]
    /\ clicks' = clicks \cup {<<n, answer>>}
    /\ UNCHANGED <<graphVars, workerVars, intent, decision, shown, replied, stopAsked>>

\* Mistake: a rejection is written as an approval.
DecideApproved(n, answer) ==
    /\ <<n, answer>> \in clicks
    /\ clicks' = clicks \ {<<n, answer>>}
    /\ decision' = "approved"
    /\ UNCHANGED <<graphVars, workerVars, intent, shown, answers, replied, stopAsked>>

\* The request reaches approve_execution or reject_execution: one key for all
\* gates, written whatever it holds.
Decide(n, answer) ==
    /\ <<n, answer>> \in clicks
    /\ clicks' = clicks \ {<<n, answer>>}
    /\ decision' = answer
    /\ UNCHANGED <<graphVars, workerVars, intent, shown, answers, replied, stopAsked>>

Reply(n) ==
    /\ at[n] = "prompt" /\ n \notin replied
    /\ replied' = replied \cup {n}
    /\ UNCHANGED <<graphVars, workerVars, intent, decision, shown, clicks, answers, stopAsked>>

Next ==
    \/ \E n \in Nodes : NodeStep(n) \/ Reply(n)
    \/ NextStage \/ Worker \/ TimeOut \/ StopIt
    \/ \E n \in Gates, answer \in Answer : Click(n, answer) \/ Decide(n, answer)

Spec == Init /\ [][Next]_vars

\* Calls of the model and of tools end (they have time limits), and polls and
\* requests are served; nobody has to answer a gate or a prompt.
Fairness ==
    /\ \A n \in Nodes : WF_vars(NodeStep(n))
    /\ WF_vars(NextStage) /\ WF_vars(Worker)
    /\ \A n \in Gates, answer \in Answer : WF_vars(Decide(n, answer))

FairSpec == Spec /\ Fairness

-----------------------------------------------------------------------------
\* A stop accepted while the graph runs decides how the execution ends: neither
\* the tool loop that takes the cancellation for a tool error, nor the branches
\* that swallow it, nor the AttributeError of a gate, nor the complete event of
\* the service lets it end completed or failed.
StopWins == stopAsked => status \in {"running", "stopped"}

Before(g, n) == \E i, j \in DOMAIN Stages : i < j /\ g \in Stages[i] /\ n \in Stages[j]

\* What lies behind a gate runs only after a person approved that very gate.  It
\* holds while every gate is answered at most once, and for gates that follow
\* each other: the key of the decision names the execution only.
GateHolds ==
    (\A g \in Gates : Len(answers[g]) <= 1) =>
        \A g \in Gates, n \in Nodes :
            at[n] # "idle" /\ Before(g, n) => answers[g] = <<"approved">>

\* A stop ends the execution although nobody answers its gates and prompts.
StopEndsTheRun == stopAsked ~> reader = "over"

\* A gate that was answered opens or ends the graph: no answer is overwritten by
\* the gate's own "pending" or lost between two polls.
AnswersAreHeard == \A g \in Gates : answers[g] # <<>> ~> at[g] \in Ended
=============================================================================
