--------------------------- MODULE GatewayProofs ---------------------------
(***************************************************************************)
(* Proofs about Gateway and the SandboxPool it extends, for any number of  *)
(* calls and executions, any limit and any number of faults.               *)
(***************************************************************************)
EXTENDS Gateway, FiniteSetTheorems, TLAPS

Places == {"none", "lock", "create", "semaphore", "gone", "run", "direct", "done"}

PoolTyped ==
    /\ payload \in [Calls -> [execution : Executions, kind : {"file", "shell", "asking"}]]
    /\ active \in SUBSET Executions /\ docker \in SUBSET Executions
    /\ removing \in SUBSET Executions /\ stray \in SUBSET Executions
    /\ overlapped \in SUBSET Executions /\ mishaps \in SUBSET Executions
    /\ work \in [Calls -> Places] /\ at \in [Calls -> Nat] /\ ran \in [Calls -> Nat]
    /\ early \in SUBSET FileCalls /\ cooling \in BOOLEAN
    /\ semaphore \in Calls \cup {Nobody}
    /\ sweep \in [on : BOOLEAN, todo : SUBSET Executions, current : Executions \cup {Nobody}]

\* What the steps of the pool are, whoever takes them: those of one call, and the
\* rest, in which no call comes to a command.
Quiet ==
    \/ \E c \in Calls : CutOff(c) \/ CreateTimesOut(c)
    \/ \E e \in Executions : Release(e) \/ SweepReleases(e) \/ Remove(e) \/ RemoveFails(e)
                             \/ StrayCreated(e)
    \/ \E old \in SUBSET active : SweepStarts(old)
    \/ SweepEnds \/ CoolDown
    \/ \E left \in SUBSET Containers : PoolRestart(left)
PoolStep == Quiet \/ \E c \in Calls : Command(c)

\* A step of the gateway is a step of the pool or leaves the pool alone.
LEMMA StepsOfThePool == ASSUME [Next]_vars PROVE PoolStep \/ UNCHANGED poolVars
<1>1. ASSUME NEW c \in Calls, Executor(c) \/ Execute(c) \/ Approval(c)
      PROVE  PoolStep \/ UNCHANGED poolVars
  BY <1>1 DEF Executor, Ask, Answer, Subscribe, Hear, GiveUp, Execute, Approval, RequestApproval,
              TooManyPending, CommitRequest, Told, CommitDecision, PoolStep, Quiet
<1>2. ASSUME NEW c \in Calls, CallFails(c) \/ RequestBreaks(c) \/ RollBack(c)
      PROVE  UNCHANGED poolVars
  BY <1>2 DEF CallFails, RequestBreaks, RollBack
<1>3. ASSUME NEW c \in Calls, NEW d \in Decisions, Decide(c, d) PROVE UNCHANGED poolVars
  BY <1>3 DEF Decide
<1>4. ASSUME NEW e \in Executions, ExecutionEnds(e) PROVE PoolStep \/ UNCHANGED poolVars
  BY <1>4 DEF ExecutionEnds, PoolStep, Quiet
<1>5. CASE Mishap BY <1>5 DEF Mishap, PoolStep, Quiet
<1>6. CASE Docker BY <1>6 DEF Docker, Alone, PoolStep, Quiet
<1>7. CASE Restart BY <1>7 DEF Restart, PoolStep, Quiet
<1>8. CASE UNCHANGED vars BY <1>8 DEF vars
<1> QED BY <1>1, <1>2, <1>3, <1>4, <1>5, <1>6, <1>7, <1>8 DEF Next

\* A call that falls back to a direct run stays typed.
LEMMA FallbackTyped ==
  ASSUME PoolTyped, NEW c \in Calls, Fallback(c)
  PROVE  /\ work' \in [Calls -> Places] /\ at' \in [Calls -> Nat] /\ ran' \in [Calls -> Nat]
         /\ early' \in SUBSET FileCalls /\ cooling' \in BOOLEAN
<1>1. work' \in [Calls -> Places] /\ at' \in [Calls -> Nat] /\ ran' \in [Calls -> Nat]
  <2>1. work \in [Calls -> Places] /\ at \in [Calls -> Nat] /\ ran \in [Calls -> Nat]
    BY DEF PoolTyped
  <2>2. \/ GoesTo(c, "direct", 0) /\ Starts(c)
        \/ GoesTo(c, "none", 0) /\ UNCHANGED ran
    BY DEF Fallback, Direct
  <2>3. GoesTo(c, "direct", 0) \/ GoesTo(c, "none", 0) =>
          work' \in [Calls -> Places] /\ at' \in [Calls -> Nat]
    BY <2>1 DEF GoesTo, Places
  <2>4. Starts(c) => ran' \in [Calls -> Nat] BY <2>1 DEF Starts
  <2> QED BY <2>1, <2>2, <2>3, <2>4
<1>2. early' \in SUBSET FileCalls BY DEF PoolTyped, Fallback
<1>3. cooling' \in BOOLEAN BY Zenon DEF PoolTyped, Fallback
<1> QED BY <1>1, <1>2, <1>3

\* A call that found its sandbox stays typed.
LEMMA FoundTyped ==
  ASSUME PoolTyped, NEW c \in Calls, Found(c)
  PROVE  /\ work' \in [Calls -> Places] /\ at' \in [Calls -> Nat] /\ ran' \in [Calls -> Nat]
         /\ early' \in SUBSET FileCalls /\ cooling' \in BOOLEAN
<1>1. work' \in [Calls -> Places] /\ at' \in [Calls -> Nat] /\ ran' \in [Calls -> Nat]
  <2>1. work \in [Calls -> Places] /\ at \in [Calls -> Nat] /\ ran \in [Calls -> Nat]
    BY DEF PoolTyped
  <2>2. \/ GoesTo(c, "direct", 0) /\ Starts(c)
        \/ GoesTo(c, "semaphore", 0) /\ UNCHANGED ran
    BY DEF Found, Direct
  <2>3. GoesTo(c, "direct", 0) \/ GoesTo(c, "semaphore", 0) =>
          work' \in [Calls -> Places] /\ at' \in [Calls -> Nat]
    BY <2>1 DEF GoesTo, Places
  <2>4. Starts(c) => ran' \in [Calls -> Nat] BY <2>1 DEF Starts
  <2> QED BY <2>1, <2>2, <2>3, <2>4
<1>2. early' \in SUBSET FileCalls BY DEF PoolTyped, Found
<1>3. cooling' \in BOOLEAN
  <2>1. CASE cooling /\ c \in early BY <2>1, Zenon DEF PoolTyped, Found
  <2>2. CASE ~(cooling /\ c \in early) BY <2>2, Zenon DEF Found
  <2> QED BY <2>1, <2>2
<1> QED BY <1>1, <1>2, <1>3

\* Dropping the locks of released sandboxes only moves calls.
LEMMA DropLocksTyped ==
  ASSUME PoolTyped, NEW E, DropLocks(E)
  PROVE  at' \in [Calls -> Nat]
BY DEF PoolTyped, DropLocks

\* Every step of the pool keeps its types.
LEMMA PoolTypesHold == ASSUME PoolTyped, PoolStep PROVE PoolTyped'
<1> USE DEF poolVars, jobs, GoesTo, ExecutionOf, FileCalls
<1>1. ASSUME NEW c \in Calls, Command(c) PROVE PoolTyped'
  <2>1. CASE Skip(c) BY <2>1 DEF Skip, Direct, Starts, PoolTyped, Places
  <2>2. CASE Reuse(c) BY <2>2, FoundTyped DEF Reuse, Use, PoolTyped
  <2>3. CASE WaitForLock(c) BY <2>3 DEF WaitForLock, PoolTyped, Places
  <2>4. CASE Locked(c)
    <3> DEFINE e == ExecutionOf(c)
    <3>1. e \in Executions /\ Making \in SUBSET Executions BY DEF PoolTyped, Making
    <3>2. CASE e \in active /\ Use(c) BY <2>4, <3>2, FoundTyped DEF Locked, Use, PoolTyped
    <3>3. CASE Fallback(c) /\ UNCHANGED <<active, overlapped>>
      BY <2>4, <3>3, FallbackTyped DEF Locked, PoolTyped
    <3>4. CASE /\ GoesTo(c, "create", IF work[c] = "lock" THEN at[c] ELSE 1)
               /\ overlapped' = overlapped \cup (IF Making = {} THEN {} ELSE Making \cup {e})
               /\ UNCHANGED <<active, early, ran, cooling>>
      BY <2>4, <3>1, <3>4 DEF Locked, PoolTyped, Places
    <3>5. CASE Unreachable(c) BY <2>4, <3>5 DEF Locked, Unreachable, PoolTyped, Places
    <3> QED BY <2>4, <3>2, <3>3, <3>4, <3>5 DEF Locked
  <2>5. CASE Created(c) BY <2>5, FoundTyped DEF Created, PoolTyped
  <2>6. CASE NameTaken(c) BY <2>6, FallbackTyped DEF NameTaken, PoolTyped
  <2>7. CASE Run(c) BY <2>7 DEF Run, Starts, PoolTyped, Places
  <2>8. CASE Gone(c) BY <2>8 DEF Gone, PoolTyped, Places
  <2>9. CASE Ends(c) BY <2>9 DEF Ends, PoolTyped, Places
  <2> QED BY <1>1, <2>1, <2>2, <2>3, <2>4, <2>5, <2>6, <2>7, <2>8, <2>9 DEF Command
<1>2. ASSUME NEW c \in Calls, CutOff(c) PROVE PoolTyped'
  BY <1>2 DEF CutOff, Abandon, LetGo, PoolTyped, Places
<1>3. ASSUME NEW c \in Calls, CreateTimesOut(c) PROVE PoolTyped'
  BY <1>3, FallbackTyped DEF CreateTimesOut, PoolTyped
<1>4. ASSUME NEW e \in Executions, Release(e) PROVE PoolTyped'
  BY <1>4, DropLocksTyped DEF Release, Forget, PoolTyped
<1>5. ASSUME NEW e \in Executions, SweepReleases(e) PROVE PoolTyped'
  BY <1>5, DropLocksTyped DEF SweepReleases, Forget, PoolTyped
<1>6. ASSUME NEW e \in Executions, Remove(e) PROVE PoolTyped'
  BY <1>6 DEF Remove, RemoveWhenFree, Removed, PoolTyped, Places
<1>7. ASSUME NEW e \in Executions, RemoveFails(e) PROVE PoolTyped'
  BY <1>7 DEF RemoveFails, PoolTyped
<1>8. ASSUME NEW e \in Executions, StrayCreated(e) PROVE PoolTyped'
  BY <1>8 DEF StrayCreated, PoolTyped
<1>9. ASSUME NEW old \in SUBSET active, SweepStarts(old) PROVE PoolTyped'
  BY <1>9 DEF SweepStarts, PoolTyped
<1>10. CASE SweepEnds BY <1>10, DropLocksTyped DEF SweepEnds, Resting, PoolTyped
<1>11. CASE CoolDown BY <1>11 DEF CoolDown, PoolTyped
<1>12. ASSUME NEW left \in SUBSET Containers, PoolRestart(left) PROVE PoolTyped'
  <2>1. Containers \in SUBSET Executions BY DEF Containers, Making, PoolTyped
  <2> QED BY <1>12, <2>1 DEF PoolRestart, Resting, PoolTyped, Places
<1> QED
  BY <1>1, <1>2, <1>3, <1>4, <1>5, <1>6, <1>7, <1>8, <1>9, <1>10, <1>11, <1>12
  DEF PoolStep, Quiet

-----------------------------------------------------------------------------
(* The containers: what is in Docker, who uses it, and who knows of it.    *)

Tracked ==
    /\ active \cup removing \subseteq docker /\ active \cap removing = {}
    /\ stray \subseteq mishaps
    /\ docker \ (active \cup removing) \subseteq mishaps

InUse == \A c \in Calls :
    /\ work[c] = "run" <=> semaphore = c
    /\ work[c] \in {"semaphore", "run"} => ExecutionOf(c) \in docker

Waiting == {"none", "lock", "create", "semaphore", "gone"}
StartedOnce == \A c \in Calls : ran[c] <= 1 /\ (work[c] \in Waiting => ran[c] = 0)

PoolInv == PoolTyped /\ Tracked /\ InUse /\ StartedOnce

\* What a call that gets its sandbox, or does not, changes of the pool: its own
\* place only.
LEMMA FallbackKeeps ==
  ASSUME PoolInv, NEW c \in Calls, Fallback(c), work[c] \in Waiting \ {"semaphore", "gone"},
         UNCHANGED <<payload, semaphore, docker>>
  PROVE  InUse' /\ StartedOnce'
<1> USE DEF PoolInv, PoolTyped, InUse, StartedOnce, Waiting, Places, ExecutionOf, GoesTo
<1>1. semaphore # c OBVIOUS
<1>2. CASE c \in early BY <1>1, <1>2 DEF Fallback
<1>3. CASE c \notin early BY <1>1, <1>3 DEF Fallback, Direct, Starts
<1> QED BY <1>2, <1>3

\* A call that found its sandbox uses one that exists, and starts once.
LEMMA FoundKeeps ==
  ASSUME PoolInv, NEW c \in Calls, Found(c), work[c] \in Waiting \ {"semaphore", "gone"},
         UNCHANGED <<payload, semaphore>>, docker \subseteq docker', ExecutionOf(c) \in docker'
  PROVE  InUse' /\ StartedOnce'
<1> USE DEF PoolInv, PoolTyped, InUse, StartedOnce, Waiting, Places, ExecutionOf
<1>1. semaphore # c BY DEF Waiting
<1>2. CASE cooling /\ c \in early BY <1>1, <1>2 DEF Found, GoesTo, Direct, Starts
<1>3. CASE ~(cooling /\ c \in early) BY <1>1, <1>3 DEF Found, GoesTo
<1> QED BY <1>2, <1>3

\* Every step of the pool keeps what is tracked, in use and started.
LEMMA PoolInvHolds == ASSUME PoolInv, PoolStep PROVE PoolInv'
<1> USE DEF poolVars, jobs, ExecutionOf
<1>0. PoolTyped' BY PoolTypesHold DEF PoolInv
<1> DEFINE Goal == Tracked' /\ InUse' /\ StartedOnce'
<1>1. ASSUME NEW c \in Calls, Command(c) PROVE Goal
  <2> USE DEF PoolInv
  <2>1. CASE Skip(c)
    BY <2>1
    DEF Skip, Direct, Starts, GoesTo, PoolTyped, Places, Tracked, InUse, StartedOnce, Waiting
  <2>2. CASE Reuse(c)
    <3>1. Tracked' BY <2>2 DEF Reuse, Use, Tracked
    <3>2. InUse' /\ StartedOnce' BY <2>2, FoundKeeps DEF Reuse, Use, Tries, Waiting, Tracked
    <3> QED BY <3>1, <3>2
  <2>3. CASE WaitForLock(c)
    BY <2>3 DEF WaitForLock, Tries, GoesTo, PoolTyped, Places, Tracked, InUse, StartedOnce, Waiting
  <2>4. CASE Locked(c)
    <3>0. work[c] \in {"none", "lock"} BY <2>4 DEF Locked, Granted, Tries
    <3>1. Tracked' BY <2>4 DEF Locked, Use, Unreachable, Tracked
    <3>2. CASE ExecutionOf(c) \in active /\ Use(c)
      BY <2>4, <3>0, <3>1, <3>2, FoundKeeps DEF Locked, Use, Waiting, Tracked
    <3>3. CASE Fallback(c)
      BY <2>4, <3>0, <3>1, <3>3, FallbackKeeps DEF Locked, Waiting
    <3>4. CASE /\ GoesTo(c, "create", IF work[c] = "lock" THEN at[c] ELSE 1)
               /\ UNCHANGED ran
      BY <2>4, <3>0, <3>1, <3>4 DEF Locked, GoesTo, PoolTyped, Places, InUse, StartedOnce, Waiting
    <3>5. CASE Unreachable(c)
      BY <2>4, <3>0, <3>1, <3>5, PoolAssumption
      DEF Locked, Unreachable, GoesTo, PoolTyped, Places, InUse, StartedOnce, Waiting
    <3> QED BY <2>4, <3>2, <3>3, <3>4, <3>5 DEF Locked
  <2>5. CASE Created(c)
    <3>1. Tracked' BY <2>5 DEF Created, Tracked
    <3>2. InUse' /\ StartedOnce' BY <2>5, FoundKeeps DEF Created, Waiting, PoolTyped
    <3> QED BY <3>1, <3>2
  <2>6. CASE NameTaken(c)
    <3>1. Tracked' BY <2>6 DEF NameTaken, Tracked
    <3>2. InUse' /\ StartedOnce' BY <2>6, FallbackKeeps DEF NameTaken, Waiting
    <3> QED BY <3>1, <3>2
  <2>7. CASE Run(c)
    BY <2>7, PoolAssumption
    DEF Run, Starts, GoesTo, PoolTyped, Places, Tracked, InUse, StartedOnce, Waiting
  <2>8. CASE Gone(c)
    BY <2>8 DEF Gone, GoesTo, PoolTyped, Places, Tracked, InUse, StartedOnce, Waiting
  <2>9. CASE Ends(c)
    BY <2>9, PoolAssumption
    DEF Ends, GoesTo, PoolTyped, Places, Tracked, InUse, StartedOnce, Waiting
  <2> QED BY <1>1, <2>1, <2>2, <2>3, <2>4, <2>5, <2>6, <2>7, <2>8, <2>9 DEF Command
<1>2. ASSUME NEW c \in Calls, CutOff(c) PROVE Goal
  BY <1>2, PoolAssumption
  DEF CutOff, Abandon, LetGo, GoesTo, PoolInv, PoolTyped, Places, Tracked, InUse,
      StartedOnce, Waiting
<1>3. ASSUME NEW c \in Calls, CreateTimesOut(c) PROVE Goal
  <2>1. Tracked' BY <1>3 DEF CreateTimesOut, PoolInv, Tracked
  <2>2. InUse' /\ StartedOnce' BY <1>3, FallbackKeeps DEF CreateTimesOut, Waiting
  <2> QED BY <2>1, <2>2
<1>4. ASSUME NEW e \in Executions, Release(e) PROVE Goal
  BY <1>4 DEF Release, Forget, PoolInv, PoolTyped, Tracked, InUse, StartedOnce
<1>5. ASSUME NEW e \in Executions, SweepReleases(e) PROVE Goal
  BY <1>5 DEF SweepReleases, Forget, PoolInv, PoolTyped, Tracked, InUse, StartedOnce
<1>6. ASSUME NEW e \in Executions, Remove(e) PROVE Goal
  BY <1>6, PoolAssumption
  DEF Remove, RemoveWhenFree, Removed, PoolInv, PoolTyped, Places, Tracked, InUse,
      StartedOnce, Waiting
<1>7. ASSUME NEW e \in Executions, RemoveFails(e) PROVE Goal
  BY <1>7 DEF RemoveFails, PoolInv, PoolTyped, Tracked, InUse, StartedOnce
<1>8. ASSUME NEW e \in Executions, StrayCreated(e) PROVE Goal
  BY <1>8 DEF StrayCreated, PoolInv, PoolTyped, Tracked, InUse, StartedOnce
<1>9. ASSUME NEW old \in SUBSET active, SweepStarts(old) PROVE Goal
  BY <1>9 DEF SweepStarts, PoolInv, Tracked, InUse, StartedOnce
<1>10. CASE SweepEnds BY <1>0, <1>10 DEF SweepEnds, PoolInv, Tracked, InUse, StartedOnce
<1>11. CASE CoolDown BY <1>0, <1>11 DEF CoolDown, PoolInv, Tracked, InUse, StartedOnce
<1>12. ASSUME NEW left \in SUBSET Containers, PoolRestart(left) PROVE Goal
  BY <1>12, PoolAssumption
  DEF PoolRestart, PoolInv, PoolTyped, Places, Tracked, InUse, StartedOnce, Waiting
<1>13. PoolTyped' /\ Goal => PoolInv' BY DEF PoolInv
<1> QED
  BY <1>0, <1>1, <1>2, <1>3, <1>4, <1>5, <1>6, <1>7, <1>8, <1>9, <1>10, <1>11, <1>12, <1>13
  DEF PoolStep, Quiet

-----------------------------------------------------------------------------
(* The limit: a container counts from the moment it is being made.         *)

Filled == active \cup Making
Extra(S) == IF Cardinality(S) = 0 THEN 0 ELSE Cardinality(S) - 1

Bounded ==
    /\ IsFiniteSet(active) /\ IsFiniteSet(Making) /\ IsFiniteSet(overlapped)
    /\ Cardinality(Filled) <= MaxActive + Extra(overlapped)

\* Only a call that starts to make a container adds one.
LEMMA MakingShrinks ==
  ASSUME payload' = payload, \A c \in Calls : work'[c] = "create" => work[c] = "create"
  PROVE  Making' \subseteq Making
BY DEF Making, ExecutionOf

\* A step that fills no more places keeps the bound.
LEMMA BoundedWhenFewer ==
  ASSUME Bounded, Making' \subseteq Making, active' \cup Making' \subseteq Filled,
         overlapped' = overlapped
  PROVE  Bounded'
<1>1. IsFiniteSet(Filled) BY FS_Union DEF Bounded, Filled
<1>2. IsFiniteSet(active') /\ IsFiniteSet(Making') /\ IsFiniteSet(overlapped')
  <2>1. active' \subseteq Filled OBVIOUS
  <2> QED BY <1>1, <2>1, FS_Subset DEF Bounded
<1>3. Cardinality(Filled') <= Cardinality(Filled) /\ Cardinality(Filled') \in Nat
  BY <1>1, FS_Subset, FS_CardinalityType DEF Filled
<1>4. Extra(overlapped)' = Extra(overlapped) BY DEF Extra
<1>5. Cardinality(Filled) \in Nat /\ Cardinality(overlapped) \in Nat
  BY <1>1, FS_CardinalityType DEF Bounded
<1> QED BY <1>2, <1>3, <1>4, <1>5, PoolAssumption DEF Bounded, Extra

\* A call that saw room and starts a creation keeps the bound, beside others or alone.
LEMMA BoundedWhenMaking ==
  ASSUME Bounded, NEW e, HasRoom, active' = active, Making' \subseteq Making \cup {e},
         overlapped' = overlapped \cup (IF Making = {} THEN {} ELSE Making \cup {e})
  PROVE  Bounded'
<1> DEFINE M == Making \cup {e}
<1>1. IsFiniteSet(M) /\ IsFiniteSet(Making') /\ Cardinality(Making') <= Cardinality(M)
  BY FS_AddElement, FS_Subset DEF Bounded
<1>2. IsFiniteSet(active') /\ IsFiniteSet(overlapped')
  BY <1>1, FS_Union, FS_EmptySet DEF Bounded
<1>3. /\ IsFiniteSet(active' \cup Making')
      /\ Cardinality(active' \cup Making') <= Cardinality(active) + Cardinality(Making')
  <2>1. IsFiniteSet(active' \cap Making') BY <1>2, FS_Subset
  <2>2. Cardinality(active' \cap Making') \in Nat BY <2>1, FS_CardinalityType
  <2>3. Cardinality(active') \in Nat /\ Cardinality(Making') \in Nat
    BY <1>1, <1>2, FS_CardinalityType
  <2>4. /\ IsFiniteSet(active' \cup Making')
        /\ Cardinality(active' \cup Making') =
             Cardinality(active') + Cardinality(Making') - Cardinality(active' \cap Making')
    BY <1>1, <1>2, FS_Union
  <2> QED BY <2>2, <2>3, <2>4
<1>4. /\ Cardinality(active) \in Nat /\ Cardinality(Making') \in Nat
      /\ Cardinality(overlapped') \in Nat /\ Cardinality(M) \in Nat
      /\ Cardinality(active' \cup Making') \in Nat
  BY <1>1, <1>2, <1>3, FS_CardinalityType DEF Bounded
<1>5. Cardinality(active) < MaxActive BY DEF HasRoom
<1>6. CASE Making = {}
  <2>1. Cardinality(M) <= 1 BY <1>6, FS_EmptySet, FS_AddElement
  <2>2. Cardinality(Filled') <= MaxActive
    BY <1>1, <1>3, <1>4, <1>5, <2>1, PoolAssumption DEF Filled
  <2>3. Cardinality(Filled') \in Nat BY <1>4 DEF Filled
  <2> QED BY <1>1, <1>2, <1>4, <2>2, <2>3, PoolAssumption DEF Bounded, Extra
<1>7. CASE Making # {}
  <2>1. M \subseteq overlapped' BY <1>7
  <2>2. Cardinality(M) <= Cardinality(overlapped') BY <1>2, <2>1, FS_Subset
  <2>3. Cardinality(overlapped') # 0 BY <1>2, <2>1, FS_EmptySet
  <2>4. Cardinality(Filled') <= MaxActive + Cardinality(overlapped') - 1
    BY <1>1, <1>3, <1>4, <1>5, <2>2, PoolAssumption DEF Filled
  <2>5. Extra(overlapped)' = Cardinality(overlapped') - 1 BY <2>3 DEF Extra
  <2> QED BY <1>1, <1>2, <1>4, <2>4, <2>5, PoolAssumption DEF Bounded
<1> QED BY <1>6, <1>7

\* A sandbox that is forgotten takes its allowance with it.
LEMMA BoundedWhenForgotten ==
  ASSUME Bounded, NEW e, active' = active \ {e}, Making' = Making,
         overlapped' = IF e \in active \ Making THEN overlapped \ {e} ELSE overlapped
  PROVE  Bounded'
<1>1. CASE e \notin active \ Making BY <1>1, BoundedWhenFewer DEF Filled
<1>2. CASE e \in active \ Making
  <2>1. Filled' = Filled \ {e} BY <1>2 DEF Filled
  <2>2. IsFiniteSet(Filled) BY FS_Union DEF Bounded, Filled
  <2>3. IsFiniteSet(active') /\ IsFiniteSet(Making') /\ IsFiniteSet(overlapped')
    BY <1>2, FS_RemoveElement DEF Bounded
  <2>4. Cardinality(Filled') = Cardinality(Filled) - 1
    BY <1>2, <2>1, <2>2, FS_RemoveElement DEF Filled
  <2>5. /\ Cardinality(Filled) \in Nat /\ Cardinality(overlapped) \in Nat
        /\ Cardinality(overlapped') \in Nat
    BY <2>2, <2>3, FS_CardinalityType DEF Bounded
  <2>6. Cardinality(overlapped') \in {Cardinality(overlapped), Cardinality(overlapped) - 1}
    BY <1>2, FS_RemoveElement DEF Bounded
  <2>7. Extra(overlapped) <= Extra(overlapped)' + 1 BY <2>5, <2>6 DEF Extra
  <2>8. Extra(overlapped) \in Nat /\ Extra(overlapped)' \in Nat BY <2>5 DEF Extra
  <2> QED BY <2>3, <2>4, <2>5, <2>7, <2>8, PoolAssumption DEF Bounded
<1> QED BY <1>1, <1>2

\* Every step keeps the pool within its bound.
LEMMA BoundedHolds == ASSUME PoolInv, Bounded, PoolStep PROVE Bounded'
<1> USE DEF poolVars, jobs
<1>0. /\ work \in [Calls -> Places]
      /\ payload \in [Calls -> [execution : Executions, kind : {"file", "shell", "asking"}]]
  BY DEF PoolInv, PoolTyped
<1> DEFINE NoneMade == \A d \in Calls : work'[d] = "create" => work[d] = "create"
<1>1. ASSUME payload' = payload, NoneMade, active' \subseteq active, overlapped' = overlapped
      PROVE  Bounded'
  BY <1>1, MakingShrinks, BoundedWhenFewer DEF Filled
<1>2. ASSUME NEW c \in Calls, Fallback(c) \/ Found(c) PROVE NoneMade
  BY <1>0, <1>2 DEF Fallback, Found, Direct, GoesTo
<1>3. ASSUME NEW c \in Calls, Command(c) PROVE Bounded'
  <2>1. CASE Locked(c)
    <3>1. CASE Use(c) BY <1>1, <1>2, <2>1, <3>1 DEF Locked, Use
    <3>2. CASE Fallback(c) /\ UNCHANGED <<active, overlapped>>
      BY <1>1, <1>2, <2>1, <3>2 DEF Locked
    <3>3. CASE /\ HasRoom
               /\ GoesTo(c, "create", IF work[c] = "lock" THEN at[c] ELSE 1)
               /\ overlapped' = overlapped \cup
                                  (IF Making = {} THEN {} ELSE Making \cup {ExecutionOf(c)})
               /\ UNCHANGED active
      <4>1. payload' = payload BY <2>1 DEF Locked
      <4>2. Making' \subseteq Making \cup {ExecutionOf(c)}
        BY <1>0, <3>3, <4>1 DEF Making, ExecutionOf, GoesTo
      <4> QED BY <3>3, <4>2, BoundedWhenMaking
    <3>4. CASE Unreachable(c) BY <1>0, <1>1, <2>1, <3>4 DEF Locked, Unreachable, GoesTo
    <3> QED BY <2>1, <3>1, <3>2, <3>3, <3>4 DEF Locked
  <2>2. CASE Created(c)
    <3>1. ExecutionOf(c) \in Making BY <2>2 DEF Created, Making
    <3>2. Making' \subseteq Making BY <1>2, <2>2, MakingShrinks DEF Created
    <3>3. active' = active \cup {ExecutionOf(c)} /\ overlapped' = overlapped
      BY <2>2 DEF Created
    <3> QED BY <3>1, <3>2, <3>3, BoundedWhenFewer DEF Filled
  <2>3. CASE Reuse(c) BY <1>1, <1>2, <2>3 DEF Reuse, Use
  <2>4. CASE NameTaken(c) BY <1>1, <1>2, <2>4 DEF NameTaken
  <2>5. CASE Skip(c) \/ WaitForLock(c) \/ Run(c) \/ Gone(c) \/ Ends(c)
    BY <1>0, <1>1, <2>5 DEF Skip, Direct, WaitForLock, Run, Gone, Ends, GoesTo
  <2> QED BY <1>3, <2>1, <2>2, <2>3, <2>4, <2>5 DEF Command
<1>4. ASSUME NEW c \in Calls, CutOff(c) PROVE Bounded'
  BY <1>0, <1>1, <1>4 DEF CutOff, Abandon, GoesTo
<1>5. ASSUME NEW c \in Calls, CreateTimesOut(c) PROVE Bounded'
  BY <1>1, <1>2, <1>5 DEF CreateTimesOut
<1>6. ASSUME NEW e \in Executions, Forget(e), payload' = payload, work' = work PROVE Bounded'
  <2>1. Making' = Making BY <1>6 DEF Making, ExecutionOf
  <2> QED BY <1>6, <2>1, BoundedWhenForgotten DEF Forget
<1>7. ASSUME NEW e \in Executions, Release(e) \/ SweepReleases(e) PROVE Bounded'
  BY <1>6, <1>7 DEF Release, SweepReleases
<1>8. ASSUME NEW e \in Executions, Remove(e) PROVE Bounded'
  BY <1>0, <1>1, <1>8 DEF Remove, RemoveWhenFree, Removed
<1>9. ASSUME NEW e \in Executions, RemoveFails(e) \/ StrayCreated(e) PROVE Bounded'
  BY <1>1, <1>9 DEF RemoveFails, StrayCreated
<1>10. ASSUME NEW old, SweepStarts(old) \/ SweepEnds \/ CoolDown PROVE Bounded'
  BY <1>1, <1>10 DEF SweepStarts, SweepEnds, CoolDown
<1>11. ASSUME NEW left \in SUBSET Containers, PoolRestart(left) PROVE Bounded'
  <2>1. active' = {} /\ overlapped' = {} /\ Making' = {}
    BY <1>0, <1>11 DEF PoolRestart, Making
  <2>2. Filled' = {} BY <2>1 DEF Filled
  <2> QED BY <2>1, <2>2, FS_EmptySet, PoolAssumption DEF Bounded, Extra
<1> QED BY <1>3, <1>4, <1>5, <1>7, <1>8, <1>9, <1>10, <1>11 DEF PoolStep, Quiet

-----------------------------------------------------------------------------
(* The approvals.                                                          *)

ApprovalTyped ==
    /\ call \in [Calls -> {"idle", "asking", "told", "listening", "recall", "returned"}]
    /\ sent \in [Calls -> {"none", "first", "second"}]
    /\ row \in [Calls -> {"none", "new", "pending", "approved", "rejected", "timeout"}]
    /\ deciding \in [Calls -> Decisions \cup {"none"}]
    /\ heard \in [Calls -> Decisions \cup {"none"}]
    /\ told \in [Calls -> SUBSET Decisions]

\* A row is written once, for the first request of a call, and decided while pending.
AsksOnce(c) ==
    /\ call[c] = "idle" => row[c] = "none" /\ sent[c] = "none"
    /\ sent[c] = "first" => row[c] = "none"
    /\ deciding[c] # "none" => row[c] = "pending"

\* Everything a call does on the strength of a yes comes after one.
YesWasSaid(c) ==
    work[c] # "none" \/ sent[c] = "second" \/ call[c] = "recall" \/ heard[c] = "approved"
        => "approved" \in told[c]

\* Unless a decision was rolled back, what was said is what the row says or will say.
OneAnswer(c) ==
    c \notin undone => told[c] \subseteq {IF deciding[c] = "none" THEN row[c] ELSE deciding[c]}

ApprovalInv ==
    ApprovalTyped /\ \A c \in AskCalls : AsksOnce(c) /\ YesWasSaid(c) /\ OneAnswer(c)

\* A call never changes its execution or its kind.
LEMMA PayloadStays == ASSUME [Next]_vars PROVE payload' = payload /\ AskCalls' = AskCalls
<1>1. PoolStep => payload' = payload
  BY DEF PoolStep, Quiet, Command, Skip, Reuse, WaitForLock, Locked, Created, NameTaken, Run, Gone,
         Ends, CutOff, Abandon, CreateTimesOut, Release, SweepReleases, Remove, RemoveFails,
         StrayCreated, SweepStarts, SweepEnds, CoolDown, PoolRestart
<1>2. payload' = payload BY <1>1, StepsOfThePool DEF poolVars
<1> QED BY <1>2 DEF AskCalls

\* A command moves no call but its own.
LEMMA CommandsOfOthers ==
  ASSUME PoolTyped, NEW c \in Calls, NEW d \in Calls, c # d, Command(d)
  PROVE  work'[c] = work[c]
<1>1. ASSUME Fallback(d) \/ Found(d) PROVE work'[c] = work[c]
  BY <1>1 DEF Fallback, Found, Direct, GoesTo, PoolTyped
<1> QED
  BY <1>1 DEF Command, Skip, Reuse, Use, WaitForLock, Locked, Unreachable, Created, NameTaken, Run,
              Gone, Ends, Direct, GoesTo, PoolTyped

\* A call that has not begun is not begun by a sweep, a release or a restart.
LEMMA QuietSteps ==
  ASSUME PoolTyped, NEW c \in Calls, work[c] = "none", Quiet
  PROVE  work'[c] = "none"
<1> USE DEF PoolTyped, jobs
<1>1. ASSUME NEW d \in Calls, CutOff(d) PROVE work'[c] = "none"
  BY <1>1 DEF CutOff, Abandon, GoesTo
<1>2. ASSUME NEW d \in Calls, CreateTimesOut(d) PROVE work'[c] = "none"
  BY <1>2 DEF CreateTimesOut, Fallback, Direct, GoesTo
<1>3. ASSUME NEW e, Release(e) \/ SweepReleases(e) \/ RemoveFails(e) \/ StrayCreated(e)
      PROVE  work'[c] = "none"
  BY <1>3 DEF Release, SweepReleases, RemoveFails, StrayCreated
<1>4. ASSUME NEW e, Remove(e) PROVE work'[c] = "none"
  BY <1>4 DEF Remove, RemoveWhenFree, Removed
<1>5. ASSUME NEW x, SweepStarts(x) \/ SweepEnds \/ CoolDown PROVE work'[c] = "none"
  BY <1>5 DEF SweepStarts, SweepEnds, CoolDown
<1>6. ASSUME NEW left, PoolRestart(left) PROVE work'[c] = "none"
  BY <1>6 DEF PoolRestart
<1> QED BY <1>1, <1>2, <1>3, <1>4, <1>5, <1>6 DEF Quiet

\* Every step keeps the types of the approval rows and messages.
LEMMA ApprovalTypesHold == ASSUME ApprovalTyped, [Next]_vars PROVE ApprovalTyped'
<1> USE DEF ApprovalTyped, approvalVars, engineVars, Engine, Request
<1>1. ASSUME NEW c \in Calls, Executor(c) PROVE ApprovalTyped'
  BY <1>1 DEF Executor, Ask, Answer, Subscribe, Hear, GiveUp
<1>2. ASSUME NEW c \in Calls, Execute(c) PROVE ApprovalTyped' BY <1>2 DEF Execute
<1>3. ASSUME NEW c \in Calls, Approval(c) PROVE ApprovalTyped'
  BY <1>3
  DEF Approval, RequestApproval, TooManyPending, CommitRequest, Told, CommitDecision, Decisions
<1>4. ASSUME NEW c \in Calls, CallFails(c) \/ RequestBreaks(c) \/ RollBack(c) PROVE ApprovalTyped'
  BY <1>4 DEF CallFails, RequestBreaks, RollBack
<1>5. ASSUME NEW c \in Calls, NEW d \in Decisions, Decide(c, d) PROVE ApprovalTyped'
  BY <1>5 DEF Decide
<1>6. ASSUME NEW e, ExecutionEnds(e) PROVE ApprovalTyped' BY <1>6 DEF ExecutionEnds
<1>7. CASE Mishap BY <1>7 DEF Mishap
<1>8. CASE Docker BY <1>8 DEF Docker, Alone
<1>9. CASE Restart BY <1>9 DEF Restart
<1>10. CASE UNCHANGED vars BY <1>10 DEF vars
<1> QED BY <1>1, <1>2, <1>3, <1>4, <1>5, <1>6, <1>7, <1>8, <1>9, <1>10 DEF Next

\* Every step keeps the answers of the approvals consistent with what was told.
LEMMA ApprovalHolds == ASSUME PoolInv, ApprovalInv, [Next]_vars PROVE ApprovalInv'
<1>1. ApprovalTyped' BY ApprovalTypesHold DEF ApprovalInv
<1>2. ASSUME NEW c \in AskCalls PROVE AsksOnce(c)' /\ YesWasSaid(c)' /\ OneAnswer(c)'
  <2>1. /\ c \in Calls /\ c \notin FileCalls
        /\ ApprovalTyped /\ AsksOnce(c) /\ YesWasSaid(c) /\ OneAnswer(c)
    BY <1>2 DEF ApprovalInv, AskCalls, FileCalls
  <2> USE DEF ApprovalTyped, AsksOnce, YesWasSaid, OneAnswer, approvalVars, engineVars, Engine,
              Request
  <2> DEFINE Goal == AsksOnce(c)' /\ YesWasSaid(c)' /\ OneAnswer(c)'
  <2>2. ASSUME NEW d \in Calls, Executor(d) PROVE Goal
    BY <2>1, <2>2 DEF Executor, Ask, Answer, Subscribe, Hear, GiveUp, poolVars, jobs
  <2>3. ASSUME NEW d \in Calls, Execute(d) PROVE Goal
    <3>1. CASE d = c
      <4>1. sent' \in {sent, [sent EXCEPT ![c] = "none"]} BY <2>3, <3>1 DEF Execute
      <4>2. "approved" \in told[c]
        <5>1. CASE work[c] # "none" BY <2>1, <5>1
        <5>2. CASE work[c] = "none"
          BY <1>2, <2>1, <2>3, <3>1, <5>2 DEF Execute, Allowed
        <5> QED BY <5>1, <5>2
      <4> QED BY <2>1, <2>3, <4>1, <4>2 DEF Execute
    <3>2. CASE d # c
      <4>1. work'[c] = work[c]
        BY <2>1, <2>3, <3>2, CommandsOfOthers DEF Execute, PoolInv
      <4>2. sent'[c] = sent[c] BY <2>1, <2>3, <3>2 DEF Execute
      <4> QED BY <2>1, <2>3, <4>1, <4>2 DEF Execute
    <3> QED BY <3>1, <3>2
  <2>4. ASSUME NEW d \in Calls, Approval(d) PROVE Goal
    <3>1. CASE RequestApproval(d)
      BY <1>2, <2>1, <3>1 DEF RequestApproval, NeedsApproval, poolVars, jobs, Decisions
    <3>2. CASE TooManyPending(d) \/ Told(d)
      BY <2>1, <3>2 DEF TooManyPending, Told, poolVars, jobs
    <3>3. CASE CommitRequest(d) BY <2>1, <3>3 DEF CommitRequest, poolVars, jobs, Decisions
    <3>4. CASE CommitDecision(d) BY <2>1, <3>4 DEF CommitDecision, poolVars, jobs, Decisions
    <3> QED BY <2>4, <3>1, <3>2, <3>3, <3>4 DEF Approval
  <2>5. ASSUME NEW d \in Calls, CallFails(d) PROVE Goal
    BY <2>1, <2>5 DEF CallFails, poolVars, jobs
  <2>6. ASSUME NEW d \in Calls, RequestBreaks(d) PROVE Goal
    BY <2>1, <2>6 DEF RequestBreaks, NeedsApproval, poolVars, jobs, Decisions
  <2>7. ASSUME NEW d \in Calls, RollBack(d) PROVE Goal
    BY <2>1, <2>7 DEF RollBack, poolVars, jobs, Decisions
  <2>8. ASSUME NEW d \in Calls, NEW answer \in Decisions, Decide(d, answer) PROVE Goal
    BY <2>1, <2>8 DEF Decide, Undecided, poolVars, jobs, Decisions
  <2>9. ASSUME Quiet, UNCHANGED <<approvalVars, engineVars>> PROVE Goal
    BY <2>1, <2>9, QuietSteps DEF PoolInv
  <2>10. ASSUME NEW e \in Executions, ExecutionEnds(e) PROVE Goal
    <3>1. work[c] = "none" => work'[c] = "none"
      BY <2>1, <2>10, QuietSteps DEF ExecutionEnds, Quiet, PoolInv, poolVars, jobs
    <3> QED BY <2>1, <2>10, <3>1 DEF ExecutionEnds
  <2>11. CASE Mishap BY <2>9, <2>11 DEF Mishap, Quiet
  <2>12. CASE Docker BY <2>9, <2>12 DEF Docker, Alone, Quiet
  <2>13. CASE Restart
    <3>1. work[c] = "none" => work'[c] = "none"
      BY <2>1, <2>13, QuietSteps DEF Restart, Quiet, PoolInv
    <3> QED BY <2>1, <2>13, <3>1 DEF Restart, Decisions
  <2>14. CASE UNCHANGED vars BY <2>1, <2>14 DEF vars, poolVars, jobs
  <2> QED
    BY <2>2, <2>3, <2>4, <2>5, <2>6, <2>7, <2>8, <2>10, <2>11, <2>12, <2>13, <2>14 DEF Next
<1> QED BY <1>1, <1>2, PayloadStays DEF ApprovalInv

-----------------------------------------------------------------------------
(* The theorems.                                                           *)

GatewayInv == PoolInv /\ Bounded /\ ApprovalInv

\* GatewayInv is inductive.
LEMMA GatewayInductive == Spec => []GatewayInv
<1>1. Init => GatewayInv
  <2> SUFFICES ASSUME Init PROVE GatewayInv OBVIOUS
  <2> USE DEF Init, PoolInit
  <2>1. PoolTyped BY PoolAssumption DEF PoolTyped, Places, Resting, FileCalls
  <2>2. Tracked /\ InUse /\ StartedOnce
    BY PoolAssumption DEF Tracked, InUse, StartedOnce, Waiting
  <2>3. Bounded
    <3>1. Making = {} /\ Filled = {} BY DEF Making, Filled
    <3> QED BY <3>1, FS_EmptySet, PoolAssumption DEF Bounded, Extra
  <2>4. ApprovalInv
    BY DEF ApprovalInv, ApprovalTyped, AsksOnce, YesWasSaid, OneAnswer, AskCalls, Decisions
  <2> QED BY <2>1, <2>2, <2>3, <2>4 DEF GatewayInv, PoolInv
<1>2. GatewayInv /\ [Next]_vars => GatewayInv'
  <2> SUFFICES ASSUME GatewayInv, [Next]_vars PROVE GatewayInv' OBVIOUS
  <2>1. ASSUME UNCHANGED poolVars PROVE PoolInv' /\ Bounded'
    BY <2>1 DEF GatewayInv, PoolInv, PoolTyped, Tracked, InUse, StartedOnce, Bounded, Filled,
                Making, Extra, ExecutionOf, FileCalls, poolVars, jobs
  <2>2. PoolInv' /\ Bounded'
    BY <2>1, StepsOfThePool, PoolInvHolds, BoundedHolds DEF GatewayInv
  <2>3. ApprovalInv' BY ApprovalHolds DEF GatewayInv
  <2> QED BY <2>2, <2>3 DEF GatewayInv
<1> QED BY <1>1, <1>2, PTL DEF Spec

(***************************************************************************)
(* acquire_or_reuse reads the limit before it waits for Docker: however    *)
(* the calls, releases and sweeps interleave, the sandboxes exceed         *)
(* SANDBOX_MAX_ACTIVE only by as many as were being made side by side.     *)
(***************************************************************************)
THEOREM PoolStaysBounded == Spec => []PoolIsBounded
<1>1. GatewayInv => PoolIsBounded
  <2> SUFFICES ASSUME GatewayInv PROVE PoolIsBounded OBVIOUS
  <2>1. IsFiniteSet(Filled) /\ active \subseteq Filled
    BY FS_Union DEF GatewayInv, Bounded, Filled
  <2>2. Cardinality(active) <= Cardinality(Filled) BY <2>1, FS_Subset
  <2>3. /\ Cardinality(active) \in Nat /\ Cardinality(Filled) \in Nat
        /\ Cardinality(overlapped) \in Nat
    BY <2>1, FS_CardinalityType DEF GatewayInv, Bounded
  <2> QED BY <2>2, <2>3, PoolAssumption DEF GatewayInv, Bounded, Extra, PoolIsBounded
<1> QED BY <1>1, GatewayInductive, PTL

(***************************************************************************)
(* exec_in_sandbox and release share _docker_sem, and what waits for it    *)
(* looks again: no container goes away under a command that runs in it.    *)
(***************************************************************************)
THEOREM NoCommandLosesItsSandbox == Spec => []NothingIsKilledInFlight
<1>1. GatewayInv => NothingIsKilledInFlight
  BY DEF GatewayInv, PoolInv, InUse, NothingIsKilledInFlight
<1> QED BY <1>1, GatewayInductive, PTL

(***************************************************************************)
(* exec_hybrid starts a command once, in a sandbox or directly, whatever   *)
(* fails, times out or is released meanwhile.                              *)
(***************************************************************************)
THEOREM CommandsStartOnce == Spec => []CommandsRunOnce
<1>1. GatewayInv => CommandsRunOnce
  BY DEF GatewayInv, PoolInv, StartedOnce, CommandsRunOnce
<1> QED BY <1>1, GatewayInductive, PTL

(***************************************************************************)
(* A container in Docker that is neither in _active nor about to be        *)
(* removed is one whose creation or removal failed.                        *)
(***************************************************************************)
THEOREM EveryLeakHasACause == Spec => []LeaksHaveACause
<1>1. GatewayInv => LeaksHaveACause
  BY DEF GatewayInv, PoolInv, Tracked, LeaksHaveACause
<1> QED BY <1>1, GatewayInductive, PTL

(***************************************************************************)
(* The gateway does not look an approved_id up again, yet a call that has  *)
(* to ask runs only after a yes; and after a no only when approve or       *)
(* reject was rolled back behind its published decision.                   *)
(***************************************************************************)
THEOREM CommandsAreApproved == Spec => []RunsOnApproval
<1>1. GatewayInv => RunsOnApproval
  <2> SUFFICES ASSUME GatewayInv, NEW c \in AskCalls, ran[c] > 0
               PROVE  "approved" \in told[c] /\ ("rejected" \in told[c] => c \in undone)
    BY DEF RunsOnApproval
  <2>1. c \in Calls BY DEF AskCalls
  <2>2. work[c] # "none"
    BY <2>1 DEF GatewayInv, PoolInv, StartedOnce, Waiting
  <2>3. "approved" \in told[c] BY <2>2 DEF GatewayInv, ApprovalInv, YesWasSaid
  <2>4. c \notin undone => "rejected" \notin told[c]
    BY <2>3 DEF GatewayInv, ApprovalInv, OneAnswer
  <2> QED BY <2>3, <2>4
<1> QED BY <1>1, GatewayInductive, PTL

=============================================================================
