---------------------------- MODULE GraphProofs ----------------------------
(***************************************************************************)
(* Proofs about GraphRun for any graph, any limits and any number of       *)
(* answers.                                                                *)
(***************************************************************************)
EXTENDS GraphRun, FiniteSetTheorems, SequenceTheorems, TLAPS

Places == {"idle", "loop", "llm", "calls", "tool", "prompt", "opened", "gate", "granted"}
              \cup Ended

-----------------------------------------------------------------------------
(* Types.                                                                  *)

\* The loop of an agent makes no more calls than it may; gates and agents have awaits
\* of their own.
Bounded == \A n \in Nodes :
    /\ at[n] = "idle" => calls[n] = 0
    /\ at[n] = "calls" => tools[n] # 0
    /\ Kind[n] = "agent" /\ at[n] \in {"loop", "llm"} => calls[n] # MaxIterations
    /\ at[n] \in {"opened", "gate", "granted"} => Kind[n] = "gate"
    /\ at[n] = "llm" => Kind[n] # "gate"
    /\ at[n] \in {"loop", "calls", "tool", "prompt"} => Kind[n] = "agent"

\* The bounds, one by one.
LEMMA LimitsAreNatural ==
  /\ MaxIterations \in Nat /\ MaxIterations # 0 /\ MaxTools \in Nat /\ MaxTools # 0
  /\ MaxClicks \in Nat /\ MaxTimeouts \in Nat
BY GraphBoundsAssumption

\* There is a first stage.
LEMMA StagesAreThere == Len(Stages) \in Nat /\ 1 \in 1..Len(Stages)
<1>1. Stages \in Seq(SUBSET Nodes) /\ Stages # <<>> BY StagesAssumption
<1> QED BY <1>1, EmptySeq, LenProperties

\* A step of a node that is not a gate keeps types and bounds.
LEMMA AgentIsTyped ==
  ASSUME TypeOK, Bounded, NEW n \in Nodes,
         \/ Start(n) \/ CallModel(n) \/ ModelAnswers(n) \/ ModelFails(n)
         \/ CallTool(n) \/ ToolReturns(n) \/ ToolBreaks(n) \/ PromptReturns(n)
  PROVE  TypeOK' /\ Bounded'
<1> USE DEF workerVars, userVars, Goto, Ended
<1>1. /\ at \in [Nodes -> Places] /\ tools \in [Nodes -> 0..MaxTools]
      /\ calls \in [Nodes -> 0..MaxIterations] /\ Kind \in [Nodes -> {"agent", "plain", "gate"}]
      /\ replied \subseteq Nodes
  BY KindAssumption DEF TypeOK, Places
<1>2. \E p \in Places : at' = [at EXCEPT ![n] = p]
  BY <1>1 DEF Start, CallModel, ModelAnswers, ModelFails, CallTool, ToolReturns, ToolBreaks,
     PromptReturns, AfterTool, Raise, Places
<1>3. \/ tools' = tools
      \/ tools' = [tools EXCEPT ![n] = @ - 1] /\ at[n] = "calls"
      \/ \E k \in 1..MaxTools : tools' = [tools EXCEPT ![n] = k]
  BY DEF Start, CallModel, ModelAnswers, ModelFails, CallTool, ToolReturns, ToolBreaks,
     PromptReturns, AfterTool, Raise
<1>4. \/ calls' = calls
      \/ /\ calls' = [calls EXCEPT ![n] = @ + 1] /\ at[n] = "llm" /\ Kind[n] # "plain"
  BY DEF Start, CallModel, ModelAnswers, ModelFails, CallTool, ToolReturns, ToolBreaks,
     PromptReturns, AfterTool, Raise
<1>5. tools' \in [Nodes -> 0..MaxTools]
  <2>1. CASE tools' = [tools EXCEPT ![n] = @ - 1] /\ at[n] = "calls"
    <3>1. tools[n] \in 0..MaxTools /\ tools[n] # 0 BY <1>1, <2>1 DEF Bounded
    <3>2. tools[n] - 1 \in 0..MaxTools BY <3>1, LimitsAreNatural
    <3> QED BY <1>1, <2>1, <3>2
  <2>2. ASSUME NEW k \in 1..MaxTools, tools' = [tools EXCEPT ![n] = k]
        PROVE  tools' \in [Nodes -> 0..MaxTools]
    <3>1. k \in 0..MaxTools BY LimitsAreNatural
    <3> QED BY <1>1, <2>2, <3>1
  <2> QED BY <1>1, <1>3, <2>1, <2>2
<1>6. calls' \in [Nodes -> 0..MaxIterations]
  <2> SUFFICES ASSUME calls' = [calls EXCEPT ![n] = @ + 1], at[n] = "llm", Kind[n] # "plain"
               PROVE  calls' \in [Nodes -> 0..MaxIterations]
    BY <1>1, <1>4
  <2>1. Kind[n] = "agent" BY <1>1 DEF Bounded
  <2>2. calls[n] \in 0..MaxIterations /\ calls[n] # MaxIterations BY <1>1, <2>1 DEF Bounded
  <2>3. calls[n] + 1 \in 0..MaxIterations BY <2>2, LimitsAreNatural
  <2> QED BY <1>1, <2>3
<1>7. task' \in {"running", "done", "error"} /\ unread' \in BOOLEAN /\ replied' \subseteq Nodes
  BY <1>1 DEF Start, CallModel, ModelAnswers, ModelFails, CallTool, ToolReturns, ToolBreaks,
     PromptReturns, AfterTool, Raise, TypeOK
<1>8. UNCHANGED <<stage, workerVars, intent, decision, shown, clicks, answers, stopAsked>>
  BY DEF Start, CallModel, ModelAnswers, ModelFails, CallTool, ToolReturns, ToolBreaks,
     PromptReturns
<1>9. TypeOK'
  <2>1. at' \in [Nodes -> Places] BY <1>1, <1>2
  <2> QED BY <2>1, <1>5, <1>6, <1>7, <1>8 DEF TypeOK, Places
<1>10. \A x \in Nodes : x # n => /\ at'[x] = at[x] /\ tools'[x] = tools[x]
                                 /\ calls'[x] = calls[x]
  <2>1. \A x \in Nodes : x # n => at'[x] = at[x] BY <1>1, <1>2
  <2>2. \A x \in Nodes : x # n => tools'[x] = tools[x] BY <1>1, <1>3
  <2>3. \A x \in Nodes : x # n => calls'[x] = calls[x] BY <1>1, <1>4
  <2> QED BY <2>1, <2>2, <2>3
<1>11. /\ at'[n] # "idle"
       /\ at'[n] = "calls" => tools'[n] # 0
       /\ Kind[n] = "agent" /\ at'[n] \in {"loop", "llm"} => calls'[n] # MaxIterations
       /\ at'[n] \notin {"opened", "gate", "granted"} /\ Kind[n] # "gate"
       /\ at'[n] \in {"loop", "calls", "tool", "prompt"} => Kind[n] = "agent"
  <2>1. calls[n] \in 0..MaxIterations /\ tools[n] \in 0..MaxTools
        /\ Kind[n] \in {"agent", "plain", "gate"}
    BY <1>1
  <2>2. CASE Start(n) BY <1>1, <2>2, LimitsAreNatural DEF Start, Bounded
  <2>3. CASE CallModel(n)
    BY <1>1, <2>3 DEF CallModel, Raise, Bounded
  <2>4. CASE ModelAnswers(n)
    <3>1. Kind[n] = "plain" => at'[n] = "done" BY <1>1, <2>4 DEF ModelAnswers
    <3>2. ASSUME Kind[n] = "agent"
          PROVE  \/ \E k \in 1..MaxTools : tools'[n] = k /\ at'[n] = "calls"
                 \/ at'[n] = "loop" /\ calls'[n] < MaxIterations
                 \/ at'[n] = "done"
      BY <1>1, <2>4, <3>2 DEF ModelAnswers
    <3>3. Kind[n] \in {"agent", "plain"} BY <1>1, <2>4 DEF ModelAnswers, Bounded
    <3> QED BY <2>1, <3>1, <3>2, <3>3, LimitsAreNatural
  <2>5. CASE ModelFails(n) \/ ToolBreaks(n) BY <1>1, <2>5 DEF ModelFails, ToolBreaks, Raise, Bounded
  <2>6. CASE CallTool(n) BY <1>1, <2>6 DEF CallTool, Raise, Bounded
  <2>7. CASE ToolReturns(n) \/ PromptReturns(n)
    <3>1. AfterTool(n) /\ calls' = calls /\ tools' = tools /\ Kind[n] = "agent"
      BY <2>7 DEF ToolReturns, PromptReturns, Bounded
    <3> QED BY <1>1, <2>1, <3>1, LimitsAreNatural DEF AfterTool
  <2> QED BY <2>2, <2>3, <2>4, <2>5, <2>6, <2>7
<1>12. Bounded' BY <1>10, <1>11 DEF Bounded
<1> QED BY <1>9, <1>12

\* A step of a gate keeps types and bounds.
LEMMA GateIsTyped ==
  ASSUME TypeOK, Bounded, NEW n \in Nodes,
         GateOpens(n) \/ GateAsks(n) \/ GatePolls(n) \/ GateCloses(n)
  PROVE  TypeOK' /\ Bounded'
<1> USE DEF workerVars, userVars, Goto, Ended
<1>1. /\ at \in [Nodes -> Places] /\ Kind[n] = "gate" /\ n \in Gates
      /\ decision \in {"none", "pending"} \cup Answer
  BY DEF GateOpens, GateAsks, GatePolls, GateCloses, Bounded, TypeOK, Places, Gates
<1>2. \E p \in {"opened", "gate", "granted", "done", "failed"} : at' = [at EXCEPT ![n] = p]
  BY DEF GateOpens, GateAsks, GatePolls, GateCloses, Raise
<1>3. at' \in [Nodes -> Places] BY <1>1, <1>2 DEF Places
<1>4. task' \in {"running", "done", "error"} /\ decision' \in {"none", "pending"} \cup Answer
      /\ shown' \subseteq Gates
  BY <1>1 DEF GateOpens, GateAsks, GatePolls, GateCloses, Raise, TypeOK
<1>5. UNCHANGED <<stage, tools, calls, unread, workerVars, intent, clicks, answers, replied,
                  stopAsked>>
  BY DEF GateOpens, GateAsks, GatePolls, GateCloses
<1>6. TypeOK' BY <1>3, <1>4, <1>5 DEF TypeOK, Places
<1>7. at'[n] \in {"opened", "gate", "granted", "done", "failed"}
      /\ \A x \in Nodes : x # n => at'[x] = at[x]
  BY <1>1, <1>2
<1>8. Bounded' BY <1>1, <1>5, <1>7 DEF Bounded
<1> QED BY <1>6, <1>8

\* Every step keeps types and bounds.
LEMMA GraphIsTyped ==
  ASSUME TypeOK, Bounded, [Next]_vars
  PROVE  TypeOK' /\ Bounded'
<1> USE DEF graphVars, workerVars, userVars
<1>1. ASSUME NEW n \in Nodes, NodeStep(n) PROVE TypeOK' /\ Bounded'
  BY <1>1, AgentIsTyped, GateIsTyped DEF NodeStep
<1>2. CASE NextStage
  <2>1. stage' \in 1..Len(Stages)
    <3>1. stage \in 1..Len(Stages) BY DEF TypeOK
    <3>2. stage' = stage \/ (stage < Len(Stages) /\ stage' = stage + 1) BY <1>2 DEF NextStage
    <3> QED BY <3>1, <3>2, StagesAreThere
  <2> QED BY <1>2, <2>1 DEF NextStage, TypeOK, Bounded
<1>3. CASE Worker
  BY <1>3 DEF Worker, ReadEvents, ReadEnd, ClearIntent, Conclude, TypeOK, Bounded
<1>4. CASE TimeOut
  <2>1. timeouts' \in 0..MaxTimeouts BY <1>4, LimitsAreNatural DEF TimeOut, TypeOK
  <2> QED BY <1>4, <2>1 DEF TimeOut, Conclude, TypeOK, Bounded
<1>5. CASE StopIt BY <1>5 DEF StopIt, TypeOK, Bounded
<1>6. ASSUME NEW n \in Gates, NEW a \in Answer, Click(n, a) \/ Decide(n, a)
      PROVE  TypeOK' /\ Bounded'
  <2>1. answers' \in [Gates -> Seq(Answer)]
    <3>1. answers[n] \in Seq(Answer) BY DEF TypeOK
    <3>2. Append(answers[n], a) \in Seq(Answer) BY <3>1, AppendProperties
    <3>3. answers' \in {answers, [answers EXCEPT ![n] = Append(answers[n], a)]}
      BY <1>6 DEF Click, Decide
    <3> QED BY <3>2, <3>3 DEF TypeOK
  <2> QED BY <1>6, <2>1 DEF Click, Decide, TypeOK, Bounded
<1>7. ASSUME NEW n \in Nodes, Reply(n) PROVE TypeOK' /\ Bounded'
  BY <1>7 DEF Reply, TypeOK, Bounded
<1>8. CASE UNCHANGED vars BY <1>8 DEF vars, TypeOK, Bounded
<1> QED BY <1>1, <1>2, <1>3, <1>4, <1>5, <1>6, <1>7, <1>8 DEF Next

\* What the variables hold, for every graph.
THEOREM TypeCorrect == Spec => [](TypeOK /\ Bounded)
<1>1. Init => TypeOK /\ Bounded
  <2>1. 0 \in 0..MaxTools /\ 0 \in 0..MaxIterations /\ 0 \in 0..MaxTimeouts
    BY LimitsAreNatural
  <2>2. <<>> \in Seq(Answer) BY EmptySeq
  <2> QED BY <2>1, <2>2, StagesAreThere DEF Init, TypeOK, Bounded
<1>2. TypeOK /\ Bounded /\ [Next]_vars => TypeOK' /\ Bounded' BY GraphIsTyped
<1> QED BY <1>1, <1>2, PTL DEF Spec

-----------------------------------------------------------------------------
(* A stop decides how the execution ends.                                  *)

\* The worker has not finished, and the intent is there for it to see, or it has seen it.
Attentive ==
    /\ reader = "reading" => status = "running"
    /\ stopAsked => (reader = "reading" /\ intent) \/ status = "stopped"

(***************************************************************************)
(* A stop that is accepted while the execution runs decides how it ends,   *)
(* whatever the nodes, the gates and a time limit do.                      *)
(***************************************************************************)
THEOREM StopDecides == Spec => []StopWins
<1>1. Init => Attentive BY DEF Init, Attentive
<1>2. Attentive /\ [Next]_vars => Attentive'
  <2> SUFFICES ASSUME Attentive, [Next]_vars PROVE Attentive' OBVIOUS
  <2> USE DEF graphVars, workerVars, userVars, Attentive
  <2>1. ASSUME NEW n \in Nodes, NodeStep(n) \/ Reply(n) PROVE Attentive'
    BY <2>1 DEF NodeStep, Start, CallModel, ModelAnswers, ModelFails, CallTool, ToolReturns,
                ToolBreaks, PromptReturns, GateOpens, GateAsks, GatePolls, GateCloses, Reply
  <2>2. CASE NextStage BY <2>2 DEF NextStage
  <2>3. CASE Worker \/ TimeOut BY <2>3 DEF Worker, ReadEvents, ReadEnd, ClearIntent, TimeOut,
        Conclude
  <2>4. CASE StopIt BY <2>4 DEF StopIt
  <2>5. ASSUME NEW n \in Gates, NEW a \in Answer, Click(n, a) \/ Decide(n, a) PROVE Attentive'
    BY <2>5 DEF Click, Decide
  <2>6. CASE UNCHANGED vars BY <2>6 DEF vars
  <2> QED BY <2>1, <2>2, <2>3, <2>4, <2>5, <2>6 DEF Next
<1>3. Attentive /\ TypeOK => StopWins BY DEF Attentive, TypeOK, StopWins
<1> QED BY <1>1, <1>2, <1>3, TypeCorrect, PTL DEF Spec

-----------------------------------------------------------------------------
(* A gate holds.                                                           *)

\* A node runs in one stage, and a gate has its stage to itself.
StagesAreDisjoint ==
    \A i, j \in DOMAIN Stages : i # j => Stages[i] \cap Stages[j] = {}
GatesStandAlone ==
    \A i \in DOMAIN Stages : \A g \in Gates : g \in Stages[i] => Stages[i] = {g}

AnsweredOnce == \A g \in Gates : Len(answers[g]) <= 1

\* The graph has come as far as its stage.
Reached == \A n \in Nodes :
    /\ at[n] # "idle" => \E i \in 1..stage : n \in Stages[i]
    /\ at[n] \notin Ended => \A i \in 1..(stage - 1) : n \notin Stages[i]

\* Nobody can answer before the gate asks, and a gate that fails ends the graph.
Asked == \A g \in Gates :
    /\ at[g] \in {"idle", "opened"} => answers[g] = <<>> /\ g \notin shown
    /\ at[g] = "failed" => task # "running" /\ g \in Stages[stage]

\* While every gate is answered at most once, what is on its way to the API and what
\* is in Redis is the answer to the gate that waits.
Heard ==
    AnsweredOnce =>
        /\ \A g \in Gates : at[g] \in {"granted", "done"} => answers[g] = <<"approved">>
        /\ task = "running" =>
              /\ \A g \in Gates, a \in Answer :
                    <<g, a>> \in clicks =>
                        at[g] = "gate" /\ answers[g] = <<a>> /\ decision \notin Answer
              /\ \A g \in Gates :
                    at[g] \in {"opened", "gate"} /\ decision \in Answer => answers[g] = <<decision>>

GateInv == Reached /\ Asked /\ Heard

\* The nodes of a stage, and the indices of stages.
LEMMA StageNodes ==
  ASSUME TypeOK
  PROVE  /\ stage \in Nat /\ stage \in DOMAIN Stages /\ DOMAIN Stages = 1..Len(Stages)
         /\ Len(Stages) \in Nat /\ \A i \in DOMAIN Stages : Stages[i] \subseteq Nodes
<1>1. Stages \in Seq(SUBSET Nodes) BY StagesAssumption
<1>2. DOMAIN Stages = 1..Len(Stages) /\ Len(Stages) \in Nat BY <1>1, LenProperties
<1>3. \A i \in DOMAIN Stages : Stages[i] \in SUBSET Nodes BY <1>1, <1>2, ElementOfSeq
<1> QED BY <1>2, <1>3, StagesAreThere DEF TypeOK

\* What a step of a node changes at the node, and nowhere else.
LEMMA NodeFrame ==
  ASSUME TypeOK, Bounded, NEW n \in Nodes, NodeStep(n)
  PROVE  /\ UNCHANGED <<stage, clicks, answers>> /\ task = "running" /\ n \in Stages[stage]
         /\ at[n] \notin Ended /\ at'[n] # "idle" /\ \A x \in Nodes : x # n => at'[x] = at[x]
         /\ Kind[n] # "gate" => UNCHANGED <<decision, shown>>
                                /\ at'[n] \notin {"opened", "gate", "granted"}
         /\ task' = "running" \/ at'[n] = "failed"
         /\ at'[n] = "failed" => task' # "running" \/ InBranch
<1> USE DEF userVars, Ended
<1>1. at \in [Nodes -> Places] BY DEF TypeOK, Places
<1>2. \E p \in Places \ {"idle"} : at' = [at EXCEPT ![n] = p]
  BY <1>1 DEF NodeStep, Start, CallModel, ModelAnswers, ModelFails, CallTool, ToolReturns,
     ToolBreaks, PromptReturns, GateOpens, GateAsks, GatePolls, GateCloses, AfterTool, Raise,
     Goto, Places
<1>3. at'[n] # "idle" /\ \A x \in Nodes : x # n => at'[x] = at[x] BY <1>1, <1>2
<1>4. /\ UNCHANGED <<stage, clicks, answers>> /\ task = "running" /\ n \in Stages[stage]
      /\ at[n] \notin Ended
  BY DEF NodeStep, Start, CallModel, ModelAnswers, ModelFails, CallTool, ToolReturns,
     ToolBreaks, PromptReturns, GateOpens, GateAsks, GatePolls, GateCloses, Running
<1>5. ASSUME Kind[n] # "gate" PROVE UNCHANGED <<decision, shown>>
  BY <1>5
  DEF NodeStep, Start, CallModel, ModelAnswers, ModelFails, CallTool, ToolReturns,
      ToolBreaks, PromptReturns, GateOpens, GateAsks, GatePolls, GateCloses, Bounded
<1>6. Kind[n] # "gate" => at'[n] \notin {"opened", "gate", "granted"}
  BY GraphIsTyped DEF Next, Bounded
<1>7. /\ task' = "running" \/ at'[n] = "failed"
      /\ at'[n] = "failed" => task' # "running" \/ InBranch
  BY <1>1, <1>4
  DEF NodeStep, Start, CallModel, ModelAnswers, ModelFails, CallTool, ToolReturns,
      ToolBreaks, PromptReturns, GateOpens, GateAsks, GatePolls, GateCloses, AfterTool, Raise,
      Goto
<1> QED BY <1>3, <1>4, <1>5, <1>6, <1>7

\* A step of a node keeps the stages, and fails a gate with the graph.
LEMMA NodeKeepsStages ==
  ASSUME TypeOK, Bounded, GateInv, GatesStandAlone, StagesAreDisjoint, NEW n \in Nodes, NodeStep(n)
  PROVE  Reached' /\ Asked'
<1>1. stage' = stage /\ stage \in Nat /\ stage \in 1..stage /\ n \in Stages[stage]
  BY NodeFrame, StageNodes DEF TypeOK
<1>2. \A i \in 1..(stage - 1) : n \notin Stages[i] BY NodeFrame DEF GateInv, Reached
<1>3. Reached' BY <1>1, <1>2, NodeFrame DEF GateInv, Reached
<1>4. ASSUME NEW g \in Gates, at'[g] = "failed" PROVE task' # "running" /\ g \in Stages[stage]
  <2>1. CASE g = n
    <3>1. Stages[stage] = {n} BY <1>1, <2>1, StageNodes DEF GatesStandAlone
    <3>2. ~InBranch
      <4>1. Cardinality({n}) = 1 BY FS_Singleton
      <4> QED BY <3>1, <4>1 DEF InBranch
    <3> QED BY <1>1, <1>4, <2>1, <3>2, NodeFrame
  <2>2. CASE g # n
    <3>1. at[g] = "failed" BY <1>4, <2>2, NodeFrame DEF Gates
    <3> QED BY <3>1, NodeFrame DEF GateInv, Asked
  <2> QED BY <2>1, <2>2
<1>5. ASSUME NEW g \in Gates, at'[g] \in {"idle", "opened"}
      PROVE  answers'[g] = <<>> /\ g \notin shown'
  <2>1. CASE g # n
    <3>1. at[g] = at'[g] BY <2>1, NodeFrame DEF Gates
    <3>2. shown' \subseteq shown \cup {n}
      BY DEF NodeStep, Start, CallModel, ModelAnswers, ModelFails, CallTool, ToolReturns,
         ToolBreaks, PromptReturns, GateOpens, GateAsks, GatePolls, GateCloses, userVars
    <3> QED BY <1>5, <2>1, <3>1, <3>2, NodeFrame DEF GateInv, Asked
  <2>2. CASE g = n
    <3>1. at[n] = "idle" /\ shown' = shown
      BY <1>5, <2>2
      DEF NodeStep, Start, CallModel, ModelAnswers, ModelFails, CallTool, ToolReturns,
          ToolBreaks, PromptReturns, GateOpens, GateAsks, GatePolls, GateCloses, AfterTool, Raise,
          Goto, userVars, TypeOK, Gates
    <3> QED BY <2>2, <3>1, NodeFrame DEF GateInv, Asked
  <2> QED BY <2>1, <2>2
<1> QED BY <1>1, <1>3, <1>4, <1>5 DEF Asked

\* The gate that waits is the stage.
LEMMA OneGateWaits ==
  ASSUME TypeOK, GateInv, GatesStandAlone, NEW g \in Gates, at[g] \in {"opened", "gate", "granted"}
  PROVE  Stages[stage] = {g}
<1>1. at[g] \notin Ended /\ at[g] # "idle" BY DEF Ended
<1>2. PICK i \in 1..stage : g \in Stages[i] BY <1>1 DEF GateInv, Reached, Gates
<1>3. \A j \in 1..(stage - 1) : g \notin Stages[j] BY <1>1 DEF GateInv, Reached, Gates
<1>4. i = stage /\ stage \in DOMAIN Stages BY <1>2, <1>3, StageNodes
<1> QED BY <1>2, <1>4 DEF GatesStandAlone

\* A step of a node keeps what is heard: the gate opens with an empty key, and goes on
\* with the answer that was given to it.
LEMMA NodeKeepsHeard ==
  ASSUME TypeOK, Bounded, GateInv, GatesStandAlone, NEW n \in Nodes, NodeStep(n)
  PROVE  Heard'
<1> USE DEF GateInv
<1>1. /\ UNCHANGED <<stage, clicks, answers>> /\ task = "running" /\ n \in Stages[stage]
      /\ at'[n] # "idle" /\ \A x \in Nodes : x # n => at'[x] = at[x]
      /\ Kind[n] # "gate" => UNCHANGED <<decision, shown>>
  BY NodeFrame
<1> SUFFICES ASSUME AnsweredOnce
             PROVE  /\ \A g \in Gates : at'[g] \in {"granted", "done"}
                         => answers'[g] = <<"approved">>
                    /\ task' = "running" =>
                          /\ \A g \in Gates, a \in Answer :
                                <<g, a>> \in clicks' => /\ at'[g] = "gate" /\ answers'[g] = <<a>>
                                                        /\ decision' \notin Answer
                          /\ \A g \in Gates :
                                at'[g] \in {"opened", "gate"} /\ decision' \in Answer
                                    => answers'[g] = <<decision'>>
  BY <1>1 DEF Heard, AnsweredOnce
<1>2. /\ \A g \in Gates : at[g] \in {"granted", "done"} => answers[g] = <<"approved">>
      /\ \A g \in Gates, a \in Answer :
            <<g, a>> \in clicks => at[g] = "gate" /\ answers[g] = <<a>> /\ decision \notin Answer
      /\ \A g \in Gates : at[g] \in {"opened", "gate"} /\ decision \in Answer
            => answers[g] = <<decision>>
  BY <1>1 DEF Heard
<1>3. CASE Kind[n] # "gate"
  <2>1. \A g \in Gates : g # n /\ at'[g] = at[g] BY <1>1, <1>3 DEF Gates
  <2> QED BY <1>1, <1>2, <1>3, <2>1
<1>4. CASE Kind[n] = "gate"
  <2>1. n \in Gates /\ at \in [Nodes -> Places] /\ Gates \subseteq Nodes
    BY <1>4 DEF Gates, TypeOK, Places
  <2>2. Stages[stage] = {n} BY <1>1, <2>1, StageNodes DEF GatesStandAlone
  <2>3. ASSUME NEW g \in Gates, g # n
        PROVE  at'[g] = at[g] /\ at[g] \notin {"opened", "gate", "granted"}
    BY <1>1, <2>1, <2>2, <2>3, OneGateWaits
  <2>4. \A g \in Gates, a \in Answer : <<g, a>> \in clicks => g = n BY <1>2, <2>3
  <2>5. \A g \in Gates : g # n /\ at'[g] \in {"granted", "done"} => answers'[g] = <<"approved">>
    BY <1>1, <1>2, <2>3
  <2>6. ASSUME at'[n] \in {"granted", "done"} => answers[n] = <<"approved">>,
               task' = "running" =>
                  /\ \A a \in Answer : <<n, a>> \in clicks =>
                        at'[n] = "gate" /\ answers[n] = <<a>> /\ decision' \notin Answer
                  /\ at'[n] \in {"opened", "gate"} /\ decision' \in Answer
                        => answers[n] = <<decision'>>
        PROVE  /\ \A g \in Gates : at'[g] \in {"granted", "done"} => answers'[g] = <<"approved">>
               /\ task' = "running" =>
                     /\ \A g \in Gates, a \in Answer :
                           <<g, a>> \in clicks' => /\ at'[g] = "gate" /\ answers'[g] = <<a>>
                                                   /\ decision' \notin Answer
                     /\ \A g \in Gates :
                           at'[g] \in {"opened", "gate"} /\ decision' \in Answer
                               => answers'[g] = <<decision'>>
    BY <1>1, <2>3, <2>4, <2>5, <2>6
  <2>7. Cardinality(Stages[stage]) = 1 BY <2>2, FS_Singleton
  <2>8. CASE GateOpens(n)
    <3>1. at[n] = "idle" /\ at'[n] = "opened" /\ decision' = "pending"
      BY <2>1, <2>8 DEF GateOpens, Goto
    <3>2. \A a \in Answer : <<n, a>> \notin clicks BY <1>2, <2>1, <3>1
    <3> QED BY <2>6, <3>1, <3>2 DEF Answer
  <2>9. CASE GateAsks(n)
    <3>1. at[n] = "opened" /\ at'[n] = "gate" /\ decision' = decision
      BY <2>1, <2>9 DEF GateAsks, Goto
    <3>2. \A a \in Answer : <<n, a>> \notin clicks BY <1>2, <2>1, <3>1
    <3>3. answers[n] = <<>> BY <2>1, <3>1 DEF Asked
    <3>4. decision \in Answer => answers[n] = <<decision>> BY <1>2, <2>1, <3>1
    <3>5. decision \notin Answer BY <3>3, <3>4
    <3> QED BY <2>6, <3>1, <3>2, <3>5
  <2>10. CASE GatePolls(n)
    <3>1. at[n] = "gate" BY <2>10 DEF GatePolls
    <3>2. \/ at'[n] = "failed" /\ task' = "error"
          \/ at'[n] = "granted" /\ decision = "approved"
      BY <2>1, <2>7, <2>10 DEF GatePolls, Raise, Goto, InBranch
    <3>3. CASE at'[n] = "failed" /\ task' = "error" BY <2>6, <3>3
    <3>4. CASE at'[n] = "granted" /\ decision = "approved"
      <4>1. decision \in Answer BY <3>4 DEF Answer
      <4>2. answers[n] = <<"approved">> BY <1>2, <2>1, <3>1, <3>4, <4>1
      <4>3. \A a \in Answer : <<n, a>> \notin clicks BY <1>2, <2>1, <4>1
      <4> QED BY <2>6, <3>4, <4>2, <4>3
    <3> QED BY <3>2, <3>3, <3>4
  <2>11. CASE GateCloses(n)
    <3>1. at[n] = "granted" /\ at'[n] = "done" BY <2>1, <2>11 DEF GateCloses, Goto
    <3>2. \A a \in Answer : <<n, a>> \notin clicks BY <1>2, <2>1, <3>1
    <3>3. answers[n] = <<"approved">> BY <1>2, <2>1, <3>1
    <3> QED BY <2>6, <3>1, <3>2, <3>3
  <2> QED BY <1>4, <2>8, <2>9, <2>10, <2>11
          DEF NodeStep, Start, CallModel, ModelAnswers, ModelFails, CallTool, ToolReturns,
              ToolBreaks, PromptReturns, Bounded
<1> QED BY <1>3, <1>4

\* An answer on its way to a gate.
LEMMA UserKeepsGates ==
  ASSUME TypeOK, GateInv, GatesStandAlone, NEW n \in Gates, NEW a \in Answer,
         Click(n, a) \/ Decide(n, a)
  PROVE  GateInv'
<1> USE DEF GateInv, graphVars, workerVars
<1>1. UNCHANGED <<at, stage, task, shown>> BY DEF Click, Decide
<1>2. Reached' BY <1>1 DEF Reached
<1>3. answers \in [Gates -> Seq(Answer)] BY DEF TypeOK
<1>4. CASE Click(n, a)
  <2>1. /\ answers' = [answers EXCEPT ![n] = Append(answers[n], a)] /\ decision' = decision
        /\ clicks' = clicks \cup {<<n, a>>} /\ n \in shown
        /\ at[n] \in {"opened", "gate", "granted"}
    BY <1>4 DEF Click
  <2>2. at[n] \in {"gate", "granted"} BY <2>1 DEF Asked
  <2>3. \A g \in Gates : g # n => answers'[g] = answers[g] BY <1>3, <2>1
  <2>4. Asked' BY <1>1, <2>2, <2>3 DEF Asked
  <2>5. ASSUME AnsweredOnce' PROVE answers[n] = <<>> /\ answers'[n] = <<a>> /\ AnsweredOnce
    <3>1. answers[n] \in Seq(Answer) /\ Len(answers'[n]) = Len(answers[n]) + 1
          /\ Len(answers[n]) \in Nat /\ answers'[n] = Append(answers[n], a)
      BY <1>3, <2>1, AppendProperties, LenProperties
    <3>2. Len(answers'[n]) <= 1 BY <2>5 DEF AnsweredOnce
    <3>3. Len(answers[n]) = 0 BY <3>1, <3>2
    <3>4. answers[n] = <<>> BY <3>1, <3>3, EmptySeq
    <3>5. Len(answers[n]) <= 1 BY <3>3
    <3>6. AnsweredOnce BY <2>3, <2>5, <3>5 DEF AnsweredOnce
    <3> QED BY <3>1, <3>4, <3>6
  <2>6. Heard'
    <3> SUFFICES ASSUME AnsweredOnce' PROVE Heard' BY DEF Heard
    <3>1. answers[n] = <<>> /\ answers'[n] = <<a>> /\ AnsweredOnce BY <2>5
    <3>2. at[n] = "gate"
      <4>1. at[n] = "granted" => answers[n] = <<"approved">> BY <3>1 DEF Heard
      <4> QED BY <2>2, <3>1, <4>1
    <3>3. task = "running" => decision \notin Answer
      <4>1. task = "running" /\ decision \in Answer => answers[n] = <<decision>>
        BY <3>1, <3>2 DEF Heard
      <4> QED BY <3>1, <4>1
    <3>4. \A g \in Gates, b \in Answer : <<g, b>> \in clicks' =>
             (<<g, b>> \in clicks /\ g # n) \/ (g = n /\ b = a) \/ (g = n /\ <<n, b>> \in clicks)
      BY <2>1
    <3>5. task = "running" => \A b \in Answer : <<n, b>> \notin clicks
      <4>1. \A b \in Answer : task = "running" /\ <<n, b>> \in clicks => answers[n] = <<b>>
        BY <3>1 DEF Heard
      <4> QED BY <3>1, <4>1
    <3>6. \A g \in Gates : at'[g] \in {"granted", "done"} => answers'[g] = <<"approved">>
      BY <1>1, <2>3, <3>1, <3>2 DEF Heard
    <3>7. task' = "running" => \A g \in Gates, b \in Answer :
             <<g, b>> \in clicks' => at'[g] = "gate" /\ answers'[g] = <<b>>
                   /\ decision' \notin Answer
      BY <1>1, <2>1, <2>3, <3>1, <3>2, <3>3, <3>4, <3>5 DEF Heard
    <3>8. task' = "running" => decision' \notin Answer BY <1>1, <2>1, <3>3
    <3> QED BY <3>6, <3>7, <3>8 DEF Heard
  <2> QED BY <1>2, <2>4, <2>6
<1>5. CASE Decide(n, a)
  <2>1. answers' = answers /\ clicks' = clicks \ {<<n, a>>} /\ <<n, a>> \in clicks /\ decision' = a
    BY <1>5 DEF Decide
  <2>2. Asked' BY <1>1, <2>1 DEF Asked
  <2>3. Heard'
    <3> SUFFICES ASSUME AnsweredOnce PROVE Heard' BY <2>1 DEF Heard, AnsweredOnce
    <3>1. \A g \in Gates : at'[g] \in {"granted", "done"} => answers'[g] = <<"approved">>
      BY <1>1, <2>1 DEF Heard
    <3>2. ASSUME task = "running"
          PROVE  /\ at[n] = "gate" /\ answers[n] = <<a>> /\ clicks' \cap (Gates \X Answer) = {}
                 /\ \A g \in Gates : at[g] \in {"opened", "gate"} => g = n
      <4>1. at[n] = "gate" /\ answers[n] = <<a>> BY <2>1, <3>2 DEF Heard
      <4>2. Stages[stage] = {n} BY <4>1, OneGateWaits
      <4>3. \A g \in Gates : at[g] \in {"opened", "gate"} => g = n BY <4>2, OneGateWaits
      <4>4. ASSUME NEW g \in Gates, NEW b \in Answer, <<g, b>> \in clicks PROVE g = n /\ b = a
        <5>1. at[g] = "gate" /\ answers[g] = <<b>> BY <3>2, <4>4 DEF Heard
        <5>2. g = n BY <4>3, <5>1
        <5>3. <<b>> = <<a>> BY <4>1, <5>1, <5>2
        <5> QED BY <5>2, <5>3
      <4> QED BY <2>1, <4>1, <4>3, <4>4
    <3> QED BY <1>1, <2>1, <3>1, <3>2 DEF Heard
  <2> QED BY <1>2, <2>2, <2>3
<1> QED BY <1>4, <1>5

(***************************************************************************)
(* What lies behind a gate runs only after a person approved that very     *)
(* gate, in every graph whose nodes run in one stage and whose gates have  *)
(* a stage to themselves, while every gate is answered at most once.       *)
(***************************************************************************)
THEOREM GatesHold ==
  ASSUME StagesAreDisjoint, GatesStandAlone
  PROVE  Spec => []GateHolds
<1>1. Init => GateInv
  BY StagesAreThere DEF Init, GateInv, Reached, Asked, Heard, Gates, Ended
<1>2. TypeOK /\ Bounded /\ GateInv /\ [Next]_vars => GateInv'
  <2> SUFFICES ASSUME TypeOK, Bounded, GateInv, [Next]_vars PROVE GateInv' OBVIOUS
  <2> USE DEF graphVars, workerVars, userVars
  <2>1. ASSUME NEW n \in Nodes, NodeStep(n) PROVE GateInv'
    BY <2>1, NodeKeepsStages, NodeKeepsHeard DEF GateInv
  <2>2. CASE NextStage
    <3>1. /\ UNCHANGED <<at, decision, shown, clicks, answers>> /\ task = "running"
          /\ \A n \in Stages[stage] : at[n] \in Ended
          /\ stage' = stage \/ (stage' = stage + 1 /\ task' = task)
      BY <2>2 DEF NextStage
    <3>2. stage \in Nat BY StageNodes
    <3>3. 1..stage \subseteq 1..stage' /\ \A i \in 1..(stage' - 1) : i \in 1..stage
      <4>1. stage' = stage \/ stage' = stage + 1 BY <3>1
      <4> QED BY <3>2, <4>1
    <3>4. ASSUME NEW n \in Nodes
          PROVE  /\ at'[n] # "idle" => \E i \in 1..stage' : n \in Stages[i]
                 /\ at'[n] \notin Ended => \A i \in 1..(stage' - 1) : n \notin Stages[i]
      <4>1. \A i \in 1..(stage' - 1) : i \in 1..(stage - 1) \/ i = stage BY <3>2, <3>3
      <4>2. at'[n] = at[n] /\ (n \in Stages[stage] => at[n] \in Ended) BY <3>1
      <4> QED BY <3>3, <4>1, <4>2 DEF GateInv, Reached
    <3>5. Reached' BY <3>4 DEF Reached
    <3>6. Asked' BY <3>1 DEF GateInv, Asked
    <3>7. Heard' BY <3>1 DEF GateInv, Heard, AnsweredOnce
    <3> QED BY <3>5, <3>6, <3>7 DEF GateInv
  <2>3. CASE Worker \/ TimeOut \/ StopIt \/ (\E n \in Nodes : Reply(n)) \/ UNCHANGED vars
    <3>1. UNCHANGED <<at, stage, task, decision, shown, clicks, answers>>
      BY <2>3 DEF Worker, ReadEvents, ReadEnd, ClearIntent, TimeOut, StopIt, Reply, vars
    <3> QED BY <3>1 DEF GateInv, Reached, Asked, Heard, AnsweredOnce
  <2> QED BY <2>1, <2>2, <2>3, UserKeepsGates DEF Next
<1>3. TypeOK /\ GateInv => GateHolds
  <2> SUFFICES ASSUME TypeOK, GateInv, AnsweredOnce, NEW g \in Gates, NEW n \in Nodes,
                      at[n] # "idle", Before(g, n)
               PROVE  answers[g] = <<"approved">>
    BY DEF GateHolds, AnsweredOnce
  <2>1. PICK i \in DOMAIN Stages, j \in DOMAIN Stages : i < j /\ g \in Stages[i] /\ n \in Stages[j]
    BY DEF Before
  <2>2. PICK k \in 1..stage : n \in Stages[k] BY DEF GateInv, Reached
  <2>3. k \in DOMAIN Stages /\ stage \in Nat /\ i \in Nat /\ j \in Nat
    <3>1. stage \in 1..Len(Stages) /\ DOMAIN Stages = 1..Len(Stages) BY StageNodes
    <3> QED BY <2>1, <2>2, <3>1
  <2>4. k = j
    <3>1. n \in Stages[k] \cap Stages[j] BY <2>1, <2>2
    <3> QED BY <2>1, <2>3, <3>1 DEF StagesAreDisjoint
  <2>5. i \in 1..(stage - 1) BY <2>1, <2>2, <2>3, <2>4, StageNodes
  <2>6. at[g] \in Ended BY <2>1, <2>5 DEF GateInv, Reached, Gates
  <2>7. at[g] # "failed"
    <3> SUFFICES ASSUME at[g] = "failed" PROVE FALSE OBVIOUS
    <3>1. g \in Stages[stage] BY DEF GateInv, Asked
    <3>2. i = stage BY <2>1, <2>3, <3>1, StageNodes DEF StagesAreDisjoint
    <3> QED BY <2>5, <3>2, <2>3
  <2> QED BY <2>6, <2>7 DEF GateInv, Heard, Ended
<1> QED BY <1>1, <1>2, <1>3, TypeCorrect, PTL DEF Spec
=============================================================================
