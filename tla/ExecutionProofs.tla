-------------------------- MODULE ExecutionProofs --------------------------
(***************************************************************************)
(* Proofs about ExecutionLifecycle for any number of executions, teams and *)
(* faults, and any limits.                                                 *)
(***************************************************************************)
EXTENDS ExecutionLifecycle, SequenceTheorems, TLAPS

\* The executions that have a message.
Queued == {queue[i].exec : i \in 1..Len(queue)}

-----------------------------------------------------------------------------
(* What the steps do to the queue, the slots and the rows.                 *)

\* The bounds, one by one.
LEMMA BoundsAreNatural ==
  /\ MaxRetries \in Nat /\ MaxFaults \in Nat /\ MaxCrashes \in Nat
  /\ MaxTimeouts \in Nat /\ MaxResumes \in Nat /\ MaxPeerBoots \in Nat
BY BoundsAssumption

\* The message in hand is a message about an execution.
LEMMA CurIsExec ==
  ASSUME queue \in Seq(Message), queue # <<>>
  PROVE  Head(queue) \in Message /\ cur \in Execs /\ Tail(queue) \in Seq(Message)
<1>1. Head(queue) \in Message /\ Tail(queue) \in Seq(Message) BY HeadTailProperties
<1> QED BY <1>1 DEF cur, Message

\* A new message goes behind the one in hand.
LEMMA EnqueueKeepsHead ==
  ASSUME NEW e \in Execs, queue \in Seq(Message), Enqueue(e)
  PROVE  /\ queue' \in Seq(Message) /\ queue' # <<>>
         /\ queue # <<>> => cur' = cur
         /\ Queued' = Queued \cup {e}
<1> DEFINE m == [exec |-> e, retry |-> 0]
<1>1. m \in Message BY BoundsAreNatural DEF Message
<1>2. queue' = Append(queue, m) BY DEF Enqueue
<1>3. /\ queue' \in Seq(Message) /\ queue' # <<>> /\ Len(queue') = Len(queue) + 1
      /\ \A i \in 1..Len(queue) : queue'[i] = queue[i]
      /\ queue'[Len(queue) + 1] = m
  BY <1>1, <1>2, AppendProperties
<1>4. Len(queue) \in Nat BY LenProperties
<1>5. queue # <<>> => cur' = cur
  <2> SUFFICES ASSUME queue # <<>> PROVE cur' = cur OBVIOUS
  <2>1. Head(queue) = queue[1] /\ Head(queue') = queue'[1] OBVIOUS
  <2>2. Len(queue) >= 1 BY <1>4, EmptySeq
  <2> QED BY <2>1, <2>2, <1>3, <1>4 DEF cur
<1>6. Queued' = Queued \cup {e}
  <2>1. \A x \in Queued' : x \in Queued \cup {e} BY <1>3, <1>4 DEF Queued
  <2>2. \A x \in Queued : x \in Queued' BY <1>3, <1>4 DEF Queued
  <2>3. e \in Queued'
    <3>1. queue'[Len(queue) + 1].exec = e BY <1>3
    <3>2. Len(queue) + 1 \in 1..Len(queue') BY <1>3, <1>4
    <3> QED BY <3>1, <3>2 DEF Queued
  <2> QED BY <2>1, <2>2, <2>3
<1> QED BY <1>3, <1>5, <1>6

\* A message with one retry more is a message of the same execution.
LEMMA RetriedMessage ==
  ASSUME NEW m \in Message, m.retry < MaxRetries
  PROVE  [m EXCEPT !.retry = @ + 1] \in Message /\ [m EXCEPT !.retry = @ + 1].exec = m.exec
<1>1. m = [exec |-> m.exec, retry |-> m.retry] /\ m.exec \in Execs /\ m.retry \in 0..MaxRetries
  BY DEF Message
<1>2. [m EXCEPT !.retry = @ + 1] = [exec |-> m.exec, retry |-> m.retry + 1] BY <1>1
<1>3. m.retry + 1 \in 0..MaxRetries BY <1>1, BoundsAreNatural
<1> QED BY <1>1, <1>2, <1>3 DEF Message

\* Settling the message in hand brings no other execution into the stream.
LEMMA SettleShrinksQueue ==
  ASSUME queue \in Seq(Message), queue # <<>>, Settle
  PROVE  queue' \in Seq(Message) /\ Queued' \subseteq Queued
<1> DEFINE m == Head(queue)
           again == [m EXCEPT !.retry = @ + 1]
<1>1. /\ m \in Message /\ Tail(queue) \in Seq(Message) /\ Len(Tail(queue)) = Len(queue) - 1
      /\ \A i \in 1..Len(Tail(queue)) : Tail(queue)[i] = queue[i + 1]
  BY HeadTailProperties
<1>2. Len(queue) \in Nat /\ Len(queue) >= 1 BY EmptySeq, LenProperties
<1>3. m = queue[1] OBVIOUS
<1>4. CASE queue' = Tail(queue) BY <1>1, <1>2, <1>4 DEF Queued
<1>5. CASE verdict = "retry" /\ m.retry < MaxRetries /\ queue' = Append(Tail(queue), again)
  <2>1. again \in Message /\ again.exec = m.exec BY <1>1, <1>5, RetriedMessage
  <2>2. /\ queue' \in Seq(Message) /\ Len(queue') = Len(queue)
        /\ \A i \in 1..Len(Tail(queue)) : queue'[i] = Tail(queue)[i]
        /\ queue'[Len(queue)] = again
    BY <1>1, <1>2, <1>5, <2>1, AppendProperties
  <2>3. ASSUME NEW i \in 1..Len(queue') PROVE queue'[i].exec \in Queued
    <3>1. CASE i = Len(queue) BY <3>1, <1>2, <1>3, <2>1, <2>2 DEF Queued
    <3>2. CASE i # Len(queue)
      <4>1. i \in 1..Len(Tail(queue)) /\ i + 1 \in 1..Len(queue) BY <3>2, <1>1, <1>2, <2>2
      <4> QED BY <4>1, <1>1, <2>2 DEF Queued
    <3> QED BY <3>1, <3>2
  <2> QED BY <2>2, <2>3 DEF Queued
<1> QED BY <1>4, <1>5 DEF Settle

\* A release keeps the scheduler's keys typed.
LEMMA GiveBackIsTyped ==
  ASSUME SlotTypeOK, charged \in SUBSET Execs, NEW e \in Execs, GiveSlotBack(e)
  PROVE  SlotTypeOK' /\ charged' \in SUBSET Execs
<1>1. Owner[e] \in Teams BY OwnerAssumption
<1>2. \A n \in Nat : DecrClamped(n) \in Nat BY DEF DecrClamped
<1> QED BY <1>1, <1>2 DEF GiveSlotBack, ReleaseSlot, SlotTypeOK

\* An event that is told stays told.
LEMMA TellAppends ==
  ASSUME stream \in [Execs -> Seq(Event)], NEW e \in Execs, NEW v \in Event, Tell(e, v)
  PROVE  /\ stream' \in [Execs -> Seq(Event)]
         /\ v \in Told(e)' /\ \A x \in Execs : Told(x) \subseteq Told(x)'
<1>1. stream[e] \in Seq(Event) OBVIOUS
<1>2. stream' = [stream EXCEPT ![e] = Append(stream[e], v)] BY DEF Tell
<1>3. /\ stream'[e] \in Seq(Event) /\ Len(stream'[e]) = Len(stream[e]) + 1
      /\ \A i \in 1..Len(stream[e]) : stream'[e][i] = stream[e][i]
      /\ stream'[e][Len(stream[e]) + 1] = v
  BY <1>1, <1>2, AppendProperties
<1>4. Len(stream[e]) \in Nat BY <1>1, LenProperties
<1>5. stream' \in [Execs -> Seq(Event)] BY <1>2, <1>3
<1>6. \A x \in Execs : Told(x) \subseteq Told(x)'
  <2>1. Told(e) \subseteq Told(e)'
    <3>1. 1..Len(stream[e]) \subseteq 1..Len(stream'[e]) BY <1>3, <1>4
    <3>2. ASSUME NEW i \in 1..Len(stream[e])
          PROVE  stream[e][i] \in {stream'[e][j] : j \in 1..Len(stream'[e])}
      BY <3>1, <1>3
    <3> QED BY <3>2 DEF Told
  <2>2. ASSUME NEW x \in Execs, x # e PROVE Told(x)' = Told(x) BY <1>2, <2>2 DEF Told
  <2> QED BY <2>1, <2>2
<1>7. v \in Told(e)'
  <2>1. Len(stream[e]) + 1 \in 1..Len(stream'[e]) BY <1>3, <1>4
  <2> QED BY <1>3, <2>1 DEF Told
<1> QED BY <1>5, <1>6, <1>7

-----------------------------------------------------------------------------
(* Types.                                                                  *)

\* A request keeps the types.
LEMMA RequestIsTyped ==
  ASSUME TypeOK, NEW e \in Execs, Request(e)
  PROVE  TypeOK'
<1> USE DEF requestVars, workerVars, reaperVars, slotState, slotVars
<1>1. CASE Create(e) BY <1>1 DEF Create, TypeOK, SlotTypeOK
<1>2. CASE Acquire(e)
  <2>1. Owner[e] \in Teams BY OwnerAssumption
  <2>2. api' \in [Execs -> {"new", "created", "acquired", "sent", "denied", "lost"}]
    BY <1>2 DEF Acquire, TypeOK
  <2>3. SlotTypeOK' /\ charged' \in SUBSET Execs
    <3>1. CASE AcquireDenied(Owner[e])
      BY <1>2, <3>1 DEF Acquire, AcquireDenied, AcquireSlot, TypeOK, SlotTypeOK
    <3>2. CASE AcquireSlot(Owner[e], e)
      BY <1>2, <2>1, <3>2 DEF Acquire, AcquireDenied, AcquireSlot, TypeOK, SlotTypeOK
    <3> QED BY <1>2, <3>1, <3>2 DEF Acquire
  <2> QED BY <1>2, <2>2, <2>3 DEF Acquire, TypeOK
<1>3. CASE Dispatch(e)
  <2>1. queue' \in Seq(Message) /\ queue' # <<>> BY <1>3, EnqueueKeepsHead DEF Dispatch, TypeOK
  <2> QED BY <1>3, <2>1 DEF Dispatch, TypeOK, SlotTypeOK
<1>4. CASE RequestDies(e) BY <1>4 DEF RequestDies, TypeOK, SlotTypeOK
<1>5. CASE Resume(e)
  <2>1. queue' \in Seq(Message) /\ queue' # <<>> BY <1>5, EnqueueKeepsHead DEF Resume, TypeOK
  <2>2. resumes' \in 0..MaxResumes BY <1>5, BoundsAreNatural DEF Resume, TypeOK
  <2> QED BY <1>5, <2>1, <2>2 DEF Resume, TypeOK, SlotTypeOK
<1>6. CASE StopCheck(e) BY <1>6 DEF StopCheck, TypeOK, SlotTypeOK
<1>7. CASE StopSet(e) BY <1>7 DEF StopSet, TypeOK, SlotTypeOK
<1>8. CASE Disconnect(e) BY <1>8 DEF Disconnect, TypeOK, SlotTypeOK
<1>9. CASE IntentExpires(e) BY <1>9 DEF IntentExpires, TypeOK, SlotTypeOK
<1>10. CASE DeleteConversation(e)
  <2>1. SlotTypeOK' /\ charged' \in SUBSET Execs
    <3>1. CASE GiveSlotBack(e) BY <3>1, GiveBackIsTyped DEF TypeOK
    <3>2. CASE UNCHANGED slotState BY <3>2 DEF TypeOK, SlotTypeOK
    <3> QED BY <1>10, <3>1, <3>2 DEF DeleteConversation
  <2> QED BY <1>10, <2>1 DEF DeleteConversation, TypeOK
<1> QED BY <1>1, <1>2, <1>3, <1>4, <1>5, <1>6, <1>7, <1>8, <1>9, <1>10 DEF Request

\* A step of the handler keeps the types.
LEMMA HandlerIsTyped ==
  ASSUME TypeOK, Handle \/ RunFails \/ TimeOut
  PROVE  TypeOK'
<1> USE DEF requestVars, reaperVars, slotState, slotVars, HandlerFrame, Goto, Leave, NoFault
<1>1. \A kind : Fault(kind) => faults' \in 0..MaxFaults BY BoundsAreNatural DEF TypeOK, Fault
<1>2. faults \in 0..MaxFaults BY DEF TypeOK
<1>3. queue # <<>> => cur \in Execs BY CurIsExec DEF TypeOK
<1>4. \A v \in Event : queue # <<>> /\ Tell(cur, v) => stream' \in [Execs -> Seq(Event)]
  BY <1>3, TellAppends DEF TypeOK
<1>5. ASSUME NEW S, NEW s \in Terminal, SetStatus(S, s)
      PROVE  row' \in [Execs -> {"absent", "pending"} \cup Terminal]
  BY <1>5 DEF SetStatus, TypeOK
<1>6. "completed" \in Terminal /\ "failed" \in Terminal /\ "stopped" \in Terminal
  BY DEF Terminal
<1>7. Terminal \subseteq Event /\ "error" \in Event BY DEF Event
<1>8. CASE Take BY <1>8 DEF Take, TypeOK, SlotTypeOK
<1>9. CASE Begin
  <2>1. cur \in Execs BY <1>9, <1>3 DEF Begin, TypeOK
  <2>2. starts' \in {starts, [starts EXCEPT ![cur] = @ + 1]} BY <1>9 DEF Begin
  <2>3. starts \in [Execs -> Nat] BY DEF TypeOK
  <2>4. [starts EXCEPT ![cur] = @ + 1] \in [Execs -> Nat] BY <2>1, <2>3
  <2>5. starts' \in [Execs -> Nat] BY <2>2, <2>3, <2>4
  <2> QED BY <1>9, <1>1, <2>5 DEF Begin, TypeOK, SlotTypeOK
<1>10. CASE NoticeCancel BY <1>10 DEF NoticeCancel, TypeOK, SlotTypeOK
<1>11. CASE TellMissing
  BY <1>11, <1>1, <1>4, <1>7 DEF TellMissing, IntentOverlooked, TypeOK, SlotTypeOK
<1>12. ASSUME NEW s \in {"completed", "failed"}, Announce(s) PROVE TypeOK'
  BY <1>12, <1>1, <1>4, <1>6, <1>7 DEF Announce, IntentOverlooked, TypeOK, SlotTypeOK
<1>13. CASE Commit
  <2>1. row' \in [Execs -> {"absent", "pending"} \cup Terminal]
    BY <1>13, <1>5, <1>6 DEF Commit, CommitOr, TypeOK
  <2> QED BY <1>13, <1>1, <2>1 DEF Commit, CommitOr, TypeOK, SlotTypeOK
<1>14. CASE ExpireStream BY <1>14, <1>1 DEF ExpireStream, TypeOK, SlotTypeOK
<1>15. CASE CancelTell BY <1>15, <1>4, <1>6, <1>7 DEF CancelTell, TypeOK, SlotTypeOK
<1>16. CASE CancelCommit
  <2>1. row' \in [Execs -> {"absent", "pending"} \cup Terminal]
    BY <1>16, <1>5, <1>6 DEF CancelCommit, CommitOr, TypeOK
  <2> QED BY <1>16, <1>1, <2>1 DEF CancelCommit, CommitOr, TypeOK, SlotTypeOK
<1>17. CASE CancelClear BY <1>17 DEF CancelClear, TypeOK, SlotTypeOK
<1>18. CASE Fail
  <2>1. row' \in [Execs -> {"absent", "pending"} \cup Terminal]
    BY <1>18, <1>5, <1>6 DEF Fail, TypeOK
  <2> QED BY <1>18, <1>1, <2>1 DEF Fail, TypeOK, SlotTypeOK
<1>19. CASE ForceFail
  <2>1. row' \in [Execs -> {"absent", "pending"} \cup Terminal]
    BY <1>19, <1>5, <1>6 DEF ForceFail, TypeOK
  <2> QED BY <1>19, <1>1, <2>1 DEF ForceFail, TypeOK, SlotTypeOK
<1>20. CASE Release
  <2>1. SlotTypeOK' /\ charged' \in SUBSET Execs
    <3>1. CASE GiveSlotBack(cur) BY <1>20, <3>1, <1>3, GiveBackIsTyped DEF Release, TypeOK
    <3>2. CASE UNCHANGED slotState BY <3>2 DEF TypeOK, SlotTypeOK
    <3> QED BY <1>20, <3>1, <3>2 DEF Release
  <2> QED BY <1>20, <1>1, <2>1 DEF Release, TypeOK
<1>21. CASE Settle
  <2>1. queue' \in Seq(Message) BY <1>21, SettleShrinksQueue DEF Settle, TypeOK
  <2> QED BY <1>21, <2>1 DEF Settle, Forget, TypeOK, SlotTypeOK
<1>22. CASE RunFails BY <1>22, <1>1 DEF RunFails, TypeOK, SlotTypeOK
<1>23. CASE TimeOut
  <2>1. timeouts' \in 0..MaxTimeouts BY <1>23, BoundsAreNatural DEF TimeOut, TypeOK
  <2> QED BY <1>23, <2>1 DEF TimeOut, TypeOK, SlotTypeOK
<1> QED BY <1>8, <1>9, <1>10, <1>11, <1>12, <1>13, <1>14, <1>15, <1>16, <1>17, <1>18, <1>19,
           <1>20, <1>21, <1>22, <1>23 DEF Handle

\* A step of a reaper keeps the types.
LEMMA ReaperIsTyped ==
  ASSUME TypeOK, NEW r \in Reapers, Reap(r)
  PROVE  TypeOK'
<1> USE DEF requestVars, slotState, slotVars, ReaperFrame, ReaperGoto, NoFault
<1>1. \A kind : Fault(kind) => faults' \in 0..MaxFaults BY BoundsAreNatural DEF TypeOK, Fault
<1>2. faults \in 0..MaxFaults BY DEF TypeOK
<1>3. CASE ReapSelect(r)
  <2>1. Reaped(r) \in SUBSET Execs BY DEF Reaped, Pending
  <2>2. boots' \in 0..MaxPeerBoots
    <3>1. boots \in 0..MaxPeerBoots BY DEF TypeOK
    <3>2. CASE r = "peer"
      <4>1. boots < MaxPeerBoots BY <1>3, <3>2 DEF ReapSelect, Scheduled
      <4> QED BY <1>3, <3>1, <3>2, <4>1, BoundsAreNatural DEF ReapSelect
    <3>3. CASE r # "peer" BY <1>3, <3>1, <3>3 DEF ReapSelect
    <3> QED BY <3>2, <3>3
  <2> QED BY <1>3, <2>1, <2>2 DEF ReapSelect, TypeOK, SlotTypeOK
<1>4. CASE ReapFail(r)
  <2>1. row' \in [Execs -> {"absent", "pending"} \cup Terminal]
    BY <1>4 DEF ReapFail, SetStatus, Terminal, TypeOK
  <2> QED BY <1>4, <2>1 DEF ReapFail, TypeOK, SlotTypeOK
<1>5. CASE ReapGivesUp(r) BY <1>5, <1>1 DEF ReapGivesUp, TypeOK, SlotTypeOK
<1>6. ASSUME NEW e \in Execs, ReapRelease(r, e) PROVE TypeOK'
  <2>1. SlotTypeOK' /\ charged' \in SUBSET Execs
    <3>1. CASE GiveSlotBack(e) BY <1>6, <3>1, GiveBackIsTyped DEF TypeOK
    <3>2. CASE UNCHANGED slotState BY <3>2 DEF TypeOK, SlotTypeOK
    <3> QED BY <1>6, <3>1, <3>2 DEF ReapRelease
  <2> QED BY <1>6, <1>1, <2>1 DEF ReapRelease, TypeOK
<1> QED BY <1>3, <1>4, <1>5, <1>6 DEF Reap

(***************************************************************************)
(* Every variable stays in its type; a worker that is past the reading of  *)
(* a message has it at the head of the queue.                              *)
(***************************************************************************)
THEOREM TypeCorrect == Spec => []TypeOK
<1>1. Init => TypeOK
  <2>1. <<>> \in Seq(Message) /\ <<>> \in Seq(Event) BY EmptySeq
  <2>2. /\ 0 \in 0..MaxFaults /\ 0 \in 0..MaxCrashes /\ 0 \in 0..MaxTimeouts
        /\ 0 \in 0..MaxResumes /\ 0 \in 0..MaxPeerBoots
    BY BoundsAreNatural
  <2>3. Init => SlotTypeOK BY DEF Init, SlotInit, SlotTypeOK
  <2>4. Init => stream \in [Execs -> Seq(Event)] /\ queue \in Seq(Message)
    BY <2>1 DEF Init
  <2>5. Init => /\ worker = "idle" /\ open = FALSE /\ outcome = "failed" /\ verdict = "ack"
                /\ intent = {} /\ old = {} /\ charged = {}
                /\ faults = 0 /\ crashes = 0 /\ timeouts = 0 /\ resumes = 0 /\ boots = 0
    BY DEF Init
  <2>6. Init => /\ row \in [Execs -> {"absent", "pending"} \cup Terminal]
                /\ api \in [Execs -> {"new", "created", "acquired", "sent", "denied", "lost"}]
                /\ stopReq \in [Execs -> {"none", "checked", "early", "late"}]
                /\ reaper \in [Reapers -> {"idle", "found", "release"}]
                /\ found \in [Reapers -> SUBSET Execs]
                /\ starts \in [Execs -> Nat]
    BY DEF Init
  <2> QED BY <2>2, <2>3, <2>4, <2>5, <2>6 DEF TypeOK
<1>2. TypeOK /\ [Next]_vars => TypeOK'
  <2> SUFFICES ASSUME TypeOK, [Next]_vars PROVE TypeOK' OBVIOUS
  <2> USE DEF requestVars, workerVars, reaperVars, slotState, slotVars
  <2>1. ASSUME NEW e \in Execs, Request(e) \/ Age(e) \/ Outlive(e) \/ CleanupSlot(e)
        PROVE  TypeOK'
    <3>1. CASE Age(e) BY <3>1 DEF Age, TypeOK, SlotTypeOK
    <3>2. CASE CleanupSlot(e)
      <4>1. SlotTypeOK' /\ charged' \in SUBSET Execs
        <5>1. CASE GiveSlotBack(e) BY <5>1, GiveBackIsTyped DEF TypeOK
        <5>2. CASE ForgetSlot(e) /\ UNCHANGED charged
          BY <5>2 DEF ForgetSlot, TypeOK, SlotTypeOK
        <5> QED BY <3>2, <5>1, <5>2 DEF CleanupSlot, Reclaim
      <4> QED BY <3>2, <4>1 DEF CleanupSlot, TypeOK
    <3>3. CASE Outlive(e) BY <3>3 DEF Outlive, ExpireSlot, TypeOK, SlotTypeOK
    <3> QED BY <2>1, <3>1, <3>2, <3>3, RequestIsTyped
  <2>2. CASE Crash
    <3>1. crashes' \in 0..MaxCrashes BY <2>2, BoundsAreNatural DEF Crash, TypeOK
    <3> QED BY <2>2, <3>1 DEF Crash, Goto, Forget, TypeOK, SlotTypeOK
  <2>3. CASE Restart BY <2>3 DEF Restart, Goto, TypeOK, SlotTypeOK
  <2>4. CASE UNCHANGED vars BY <2>4 DEF vars, TypeOK, SlotTypeOK
  <2> QED BY <2>1, <2>2, <2>3, <2>4, HandlerIsTyped, ReaperIsTyped DEF Next
<1> QED BY <1>1, <1>2, PTL DEF Spec

-----------------------------------------------------------------------------
(* The answer before the status.                                           *)

AnnouncedIsTold == worker = "announced" => outcome \in Told(cur)

\* What a step may do to what the invariant speaks of.
KeepsTold == \A x \in Execs : Told(x) \subseteq Told(x)'

CompletesOnlyAnnounced == \A x \in Execs :
    row'[x] = "completed" =>
        row[x] = "completed" \/ (worker = "announced" /\ outcome = "completed" /\ x = cur)

AnnouncesTold ==
    worker' = "announced" =>
        \/ worker = "announced" /\ outcome' = outcome /\ cur' = cur
        \/ outcome' \in Told(cur)'

\* Nothing is forgotten where nothing is told.
LEMMA QuietStream == ASSUME UNCHANGED stream PROVE KeepsTold
BY DEF KeepsTold, Told

\* A step away from the worker announces nothing.
LEMMA QuietWorker ==
  ASSUME TypeOK, UNCHANGED <<worker, outcome>>, \/ UNCHANGED queue
                                               \/ \E e \in Execs : Enqueue(e)
  PROVE  AnnouncesTold
<1> SUFFICES ASSUME worker = "announced" PROVE cur' = cur BY DEF AnnouncesTold
<1>1. queue \in Seq(Message) /\ queue # <<>> BY DEF TypeOK
<1>2. CASE UNCHANGED queue BY <1>2 DEF cur
<1> QED BY <1>1, <1>2, EnqueueKeepsHead

\* Every step keeps the events told before the status they announce.
LEMMA AnnounceStep ==
  ASSUME TypeOK, Next
  PROVE  KeepsTold /\ CompletesOnlyAnnounced /\ AnnouncesTold
<1> USE DEF requestVars, workerVars, reaperVars
<1>1. row \in [Execs -> {"absent", "pending"} \cup Terminal] BY DEF TypeOK
<1>2. ASSUME NEW e \in Execs, Request(e) \/ Age(e) \/ Outlive(e) \/ CleanupSlot(e)
      PROVE  KeepsTold /\ CompletesOnlyAnnounced /\ AnnouncesTold
  <2>1. UNCHANGED stream
    BY <1>2 DEF Request, Create, Acquire, Dispatch, RequestDies, Resume, StopCheck, StopSet,
                Disconnect, IntentExpires, DeleteConversation, Age, Outlive, CleanupSlot
  <2>2. UNCHANGED <<worker, outcome>> /\ (UNCHANGED queue \/ Enqueue(e))
    BY <1>2 DEF Request, Create, Acquire, Dispatch, RequestDies, Resume, StopCheck, StopSet,
                Disconnect, IntentExpires, DeleteConversation, Age, Outlive, CleanupSlot
  <2>3. row' \in {row, [row EXCEPT ![e] = "pending"], [row EXCEPT ![e] = "absent"]}
    BY <1>2 DEF Request, Create, Acquire, Dispatch, RequestDies, Resume, StopCheck, StopSet,
                Disconnect, IntentExpires, DeleteConversation, Age, Outlive, CleanupSlot
  <2>4. CompletesOnlyAnnounced BY <1>1, <2>3 DEF CompletesOnlyAnnounced
  <2> QED BY <2>1, <2>2, <2>4, QuietStream, QuietWorker
<1>3. ASSUME NEW r \in Reapers, Reap(r)
      PROVE  KeepsTold /\ CompletesOnlyAnnounced /\ AnnouncesTold
  <2> USE DEF ReaperGoto, ReaperFrame
  <2>1. UNCHANGED stream
    BY <1>3 DEF Reap, ReapSelect, ReapFail, ReapGivesUp, ReapRelease
  <2>2. UNCHANGED <<outcome, queue>> /\ worker' \in {worker, "idle"}
    BY <1>3 DEF Reap, ReapSelect, ReapFail, ReapGivesUp, ReapRelease
  <2>3. UNCHANGED row \/ SetStatus(found[r], "failed")
    BY <1>3 DEF Reap, ReapSelect, ReapFail, ReapGivesUp, ReapRelease
  <2>4. CompletesOnlyAnnounced BY <1>1, <2>3 DEF CompletesOnlyAnnounced, SetStatus
  <2>5. AnnouncesTold BY <2>2 DEF AnnouncesTold, cur
  <2> QED BY <2>1, <2>4, <2>5, QuietStream
<1>4. CASE Handle \/ RunFails \/ TimeOut
  <2> USE DEF HandlerFrame, Goto, Leave
  <2>1. queue # <<>> => cur \in Execs BY CurIsExec DEF TypeOK
  <2>2. ASSUME NEW c \in Execs, NEW v \in Event, Tell(c, v)
        PROVE  KeepsTold /\ v \in Told(c)'
    <3>1. stream \in [Execs -> Seq(Event)] BY DEF TypeOK
    <3> QED BY <2>2, <3>1, TellAppends DEF KeepsTold
  <2>3. {"completed", "failed", "stopped", "error"} \subseteq Event BY DEF Event, Terminal
  <2>4. ASSUME NEW s \in {"completed", "failed"}, Announce(s)
        PROVE  KeepsTold /\ CompletesOnlyAnnounced /\ AnnouncesTold
    <3>1. queue # <<>> BY <2>4 DEF Announce, TypeOK
    <3>2. PICK c \in Execs : c = cur BY <2>1, <3>1
    <3>3. cur' = c /\ outcome' = s BY <2>4, <3>2 DEF Announce, cur
    <3>4. KeepsTold /\ s \in Told(c)' BY <2>2, <2>3, <2>4, <3>2 DEF Announce
    <3>5. AnnouncesTold BY <3>3, <3>4 DEF AnnouncesTold, Told
    <3> QED BY <2>4, <3>4, <3>5 DEF Announce, CompletesOnlyAnnounced
  <2>5. CASE TellMissing
    <3>1. KeepsTold BY <2>1, <2>2, <2>3, <2>5 DEF TellMissing, TypeOK
    <3> QED BY <2>5, <3>1 DEF TellMissing, CompletesOnlyAnnounced, AnnouncesTold
  <2>6. CASE CancelTell
    <3>1. KeepsTold BY <2>1, <2>2, <2>3, <2>6 DEF CancelTell, TypeOK
    <3> QED BY <2>6, <3>1 DEF CancelTell, CompletesOnlyAnnounced, AnnouncesTold
  <2>7. CASE Commit
    <3>1. KeepsTold BY <2>7, QuietStream DEF Commit
    <3>2. UNCHANGED row \/ SetStatus({cur}, outcome) BY <2>7 DEF Commit, CommitOr
    <3>3. CompletesOnlyAnnounced
      BY <1>1, <2>7, <3>2 DEF Commit, CompletesOnlyAnnounced, SetStatus
    <3>4. AnnouncesTold BY <2>7 DEF Commit, CommitOr, AnnouncesTold
    <3> QED BY <3>1, <3>3, <3>4
  <2>8. CASE CancelCommit \/ Fail \/ ForceFail
    <3>1. KeepsTold BY <2>8, QuietStream DEF CancelCommit, Fail, ForceFail
    <3>2. UNCHANGED row \/ SetStatus({cur}, "stopped") \/ SetStatus({cur}, "failed")
      BY <2>8 DEF CancelCommit, CommitOr, Fail, ForceFail
    <3>3. CompletesOnlyAnnounced BY <1>1, <3>2 DEF CompletesOnlyAnnounced, SetStatus
    <3>4. AnnouncesTold BY <2>8 DEF CancelCommit, CommitOr, Fail, ForceFail, AnnouncesTold
    <3> QED BY <3>1, <3>3, <3>4
  <2>9. CASE CancelClear
    <3>1. KeepsTold BY <2>9, QuietStream DEF CancelClear
    <3>2. CompletesOnlyAnnounced BY <1>1, <2>9 DEF CancelClear, CompletesOnlyAnnounced
    <3> QED BY <2>9, <3>1, <3>2 DEF CancelClear, AnnouncesTold
  <2>10. CASE Take \/ Begin \/ NoticeCancel \/ ExpireStream \/ Release \/ Settle
              \/ RunFails \/ TimeOut
    <3>1. UNCHANGED <<stream, row>> /\ worker' # "announced"
      BY <2>10 DEF Take, Begin, NoticeCancel, ExpireStream, Release, Settle, RunFails, TimeOut
    <3> QED BY <3>1, QuietStream DEF CompletesOnlyAnnounced, AnnouncesTold
  <2> QED BY <1>4, <2>4, <2>5, <2>6, <2>7, <2>8, <2>9, <2>10 DEF Handle
<1>5. CASE Crash \/ Restart
  <2>1. UNCHANGED <<stream, row>> /\ worker' # "announced"
    BY <1>5 DEF Crash, Restart, Goto
  <2> QED BY <2>1, QuietStream DEF CompletesOnlyAnnounced, AnnouncesTold
<1> QED BY <1>2, <1>3, <1>4, <1>5 DEF Next

\* A completed row was announced, and what is announced is in the stream.
LEMMA AnnouncedFirst == Spec => [](CompletedWasAnnounced /\ AnnouncedIsTold)
<1> DEFINE Inv == CompletedWasAnnounced /\ AnnouncedIsTold
<1>1. Init => Inv BY DEF Init, CompletedWasAnnounced, AnnouncedIsTold
<1>2. Inv /\ TypeOK /\ TypeOK' /\ [Next]_vars => Inv'
  <2> SUFFICES ASSUME Inv, TypeOK, TypeOK', [Next]_vars PROVE Inv' OBVIOUS
  <2>1. CASE Next
    <3>1. KeepsTold /\ CompletesOnlyAnnounced /\ AnnouncesTold BY <2>1, AnnounceStep
    <3>2. worker = "announced" => cur \in Execs BY CurIsExec DEF TypeOK
    <3>3. CompletedWasAnnounced'
      BY <3>1, <3>2
      DEF KeepsTold, CompletesOnlyAnnounced, CompletedWasAnnounced, AnnouncedIsTold
    <3>4. AnnouncedIsTold'
      BY <3>1, <3>2 DEF KeepsTold, AnnouncesTold, AnnouncedIsTold
    <3> QED BY <3>3, <3>4
  <2>2. CASE UNCHANGED vars
    <3>1. UNCHANGED <<row, stream, worker, outcome, queue>>
      BY <2>2 DEF vars, workerVars
    <3> QED BY <3>1 DEF CompletedWasAnnounced, AnnouncedIsTold, Told, cur
  <2> QED BY <2>1, <2>2
<1> QED BY <1>1, <1>2, TypeCorrect, PTL DEF Spec

(***************************************************************************)
(* The status COMPLETED is never in the database before the event with the *)
(* answer is in the stream, under every fault, crash, timeout and reaper.  *)
(***************************************************************************)
THEOREM AnswerBeforeStatus == Spec => []CompletedWasAnnounced
BY AnnouncedFirst, PTL

-----------------------------------------------------------------------------
(* The recovery of this worker as the only reaper: what it finds, what the *)
(* worker has locked, and who is charged for.                              *)

\* A request that has not begun has left nothing behind.
NewIsNowhere == \A e \in Execs : api[e] = "new" => row[e] = "absent" /\ e \notin Queued

RecoveryKnows ==
    reaper["boot"] # "idle" =>
        /\ worker = "boot"
        /\ \A e \in found["boot"] :
              /\ api[e] # "new"
              /\ reaper["boot"] = "found" => row[e] \in {"pending", "absent"}
              /\ reaper["boot"] = "release" => row[e] # "pending"

LockIsHeld ==
    open => /\ worker \in {"running", "announced", "cancelling", "stopping", "failing"}
            /\ row[cur] = "pending"

\* What the phase of the worker says of the row of its execution.
PhaseFitsRow ==
    /\ worker = "announced" => open
    /\ worker \in {"running", "cancelling", "stopping"} /\ ~open => row[cur] = "absent"
    /\ worker = "taken" => row[cur] \in {"pending", "absent"}
    /\ worker \in {"clearing", "committed"} => row[cur] # "pending"
    /\ worker = "releasing" /\ faults = 0 => row[cur] # "pending"

\* The executions whose unit nobody has given back, and that the cleanup still sees.
Held == charged \cap active

SentHoldsASlot ==
    faults = 0 /\ resumes = 0 =>
        /\ \A e \in Queued : api[e] = "sent"
        /\ \A e \in Execs :
              row[e] = "pending" /\ api[e] \in {"acquired", "sent"} => e \in Held

RecoveryInv ==
    NewIsNowhere /\ RecoveryKnows /\ LockIsHeld /\ PhaseFitsRow /\ SentHoldsASlot

\* The message in hand is in the stream.
LEMMA CurIsQueued ==
  ASSUME queue \in Seq(Message), queue # <<>>
  PROVE  cur \in Queued
<1>1. Len(queue) \in Nat /\ Len(queue) >= 1 BY EmptySeq, LenProperties
<1>2. Head(queue) = queue[1] OBVIOUS
<1> QED BY <1>1, <1>2 DEF cur, Queued

\* A step that leaves rows, worker, slots and queue alone keeps RecoveryInv.
LEMMA QuietRecovery ==
  ASSUME RecoveryInv,
         UNCHANGED <<row, api, queue, worker, open, reaper, found, Held, faults, resumes>>
  PROVE  RecoveryInv'
BY DEF RecoveryInv, NewIsNowhere, RecoveryKnows, LockIsHeld, PhaseFitsRow, SentHoldsASlot,
       Queued, cur

\* A request, an ageing row and a cleanup keep RecoveryInv.
LEMMA RequestKeepsRecoveryInv ==
  ASSUME TypeOK, RecoveryInv, Reapers = {"boot"},
         NEW e \in Execs, Request(e) \/ Age(e) \/ Outlive(e) \/ CleanupSlot(e)
  PROVE  RecoveryInv'
<1> USE DEF requestVars, workerVars, reaperVars, slotState, slotVars
<1> DEFINE here == worker \notin {"down", "boot", "idle"}
<1>1. queue \in Seq(Message) /\ (here => queue # <<>>) /\ Queued \subseteq Execs
  <2>1. queue \in Seq(Message) /\ (here => queue # <<>>) BY DEF TypeOK
  <2>2. \A i \in 1..Len(queue) : queue[i].exec \in Execs
    <3>1. \A i \in 1..Len(queue) : queue[i] \in Message BY <2>1, ElementOfSeq
    <3> QED BY <3>1 DEF Message
  <2> QED BY <2>1, <2>2 DEF Queued
<1>2. here => cur \in Queued /\ cur \in Execs BY <1>1, CurIsQueued
<1>3. UNCHANGED queue => UNCHANGED <<cur, Queued>> BY DEF cur, Queued
<1>4. /\ row \in [Execs -> {"absent", "pending"} \cup Terminal]
      /\ api \in [Execs -> {"new", "created", "acquired", "sent", "denied", "lost"}]
      /\ found["boot"] \subseteq Execs
      /\ faults \in Nat /\ resumes \in Nat
  BY BoundsAreNatural DEF TypeOK, SlotTypeOK
<1>5. open => here BY DEF RecoveryInv, LockIsHeld
<1> USE DEF RecoveryInv, NewIsNowhere, RecoveryKnows, LockIsHeld, PhaseFitsRow, SentHoldsASlot
<1>6. CASE Create(e) BY <1>6, <1>2, <1>3, <1>4, <1>5 DEF Create, Held
<1>7. CASE Acquire(e)
  <2>2. \/ Held' = Held \cup {e} /\ api' = [api EXCEPT ![e] = "acquired"]
        \/ Held' = Held /\ api' = [api EXCEPT ![e] = "denied"]
    BY <1>7 DEF Acquire, AcquireSlot, AcquireDenied, Held
  <2>3. api[e] = "created"
        /\ UNCHANGED <<row, queue, worker, open, reaper, found, faults, resumes>>
    BY <1>7 DEF Acquire
  <2>4. \A x \in Execs : x # e => api'[x] = api[x] /\ (x \in Held => x \in Held') BY <2>2, <1>4
  <2>5. api'[e] = "denied" \/ (api'[e] = "acquired" /\ e \in Held')
    BY <2>2, <1>4
  <2>6. NewIsNowhere' BY <2>3, <2>4, <2>5, <1>3
  <2>7. RecoveryKnows'
    <3>1. \A x \in Execs : api[x] # "new" => api'[x] # "new" BY <2>4, <2>5
    <3> QED BY <2>3, <3>1, <1>4
  <2>8. LockIsHeld' /\ PhaseFitsRow' BY <2>3, <1>3
  <2>9. SentHoldsASlot'
    <3> SUFFICES ASSUME faults = 0, resumes = 0 PROVE SentHoldsASlot' BY <2>3
    <3>1. e \notin Queued BY <2>3
    <3>2. \A x \in Queued' : api'[x] = "sent" BY <2>3, <2>4, <3>1, <1>1, <1>3
    <3>3. \A x \in Execs : row'[x] = "pending" /\ api'[x] \in {"acquired", "sent"}
                             => x \in Held'
      BY <2>3, <2>4, <2>5
    <3> QED BY <3>2, <3>3
  <2> QED BY <2>6, <2>7, <2>8, <2>9
<1>8. CASE Dispatch(e)
  <2>2. Held' = Held BY <1>8 DEF Dispatch, Held
  <2>1. Queued' = Queued \cup {e} /\ (here => cur' = cur)
    BY <1>8, <1>1, EnqueueKeepsHead DEF Dispatch
  <2> QED BY <1>8, <2>1, <2>2, <1>2, <1>4, <1>5 DEF Dispatch
<1>9. CASE RequestDies(e) BY <1>9, <1>2, <1>3, <1>4, <1>5 DEF RequestDies, Held
<1>10. CASE Resume(e)
  <2>1. Queued' = Queued \cup {e} /\ (here => cur' = cur)
    BY <1>10, <1>1, EnqueueKeepsHead DEF Resume
  <2>2. resumes' # 0 BY <1>10, <1>4 DEF Resume
  <2> QED BY <1>10, <2>1, <2>2, <1>2, <1>4, <1>5 DEF Resume
<1>11. CASE DeleteConversation(e)
  <2>1. Held' \in {Held, Held \ {e}}
    BY <1>11 DEF DeleteConversation, GiveSlotBack, ReleaseSlot, Held
  <2> QED BY <1>11, <2>1, <1>2, <1>3, <1>4, <1>5 DEF DeleteConversation, Locked
<1>12. CASE CleanupSlot(e)
  <2>1. Held' = Held \ {e}
    BY <1>12 DEF CleanupSlot, Reclaim, GiveSlotBack, ReleaseSlot, ForgetSlot, Held
  <2> QED BY <1>12, <2>1, <1>2, <1>3, <1>4, <1>5 DEF CleanupSlot
<1>13. CASE StopCheck(e) \/ StopSet(e) \/ Disconnect(e) \/ IntentExpires(e) \/ Age(e)
             \/ Outlive(e)
  BY <1>13, QuietRecovery
  DEF StopCheck, StopSet, Disconnect, IntentExpires, Age, Outlive, ExpireSlot, Held
<1> QED BY <1>6, <1>7, <1>8, <1>9, <1>10, <1>11, <1>12, <1>13 DEF Request

\* The recovery at boot keeps RecoveryInv.
LEMMA ReaperKeepsRecoveryInv ==
  ASSUME TypeOK, RecoveryInv, Reapers = {"boot"}, Reap("boot")
  PROVE  RecoveryInv'
<1> USE DEF requestVars, slotState, slotVars, ReaperGoto, ReaperFrame, NoFault
<1>1. /\ row \in [Execs -> {"absent", "pending"} \cup Terminal]
      /\ api \in [Execs -> {"new", "created", "acquired", "sent", "denied", "lost"}]
      /\ reaper \in [{"boot"} -> {"idle", "found", "release"}]
      /\ found \in [{"boot"} -> SUBSET Execs]
      /\ faults \in Nat
  BY BoundsAreNatural DEF TypeOK, SlotTypeOK
<1>2. worker = "boot" BY DEF Reap, ReapSelect, Scheduled, ReapFail, ReapGivesUp, ReapRelease,
                             RecoveryInv, RecoveryKnows
<1>3. ~open /\ UNCHANGED <<api, queue, open, resumes>> /\ Queued' = Queued
  BY <1>2 DEF Reap, ReapSelect, ReapFail, ReapGivesUp, ReapRelease, Queued, RecoveryInv,
              LockIsHeld
<1>4. worker' \in {"boot", "idle"} /\ (reaper'["boot"] # "idle" => worker' = "boot")
  BY <1>1, <1>2 DEF Reap, ReapSelect, ReapFail, ReapGivesUp, ReapRelease
<1>5. faults' \in Nat /\ (faults' = 0 => faults = 0)
  BY <1>1 DEF Reap, ReapSelect, ReapFail, ReapGivesUp, ReapRelease, Fault
<1>6. LockIsHeld' /\ PhaseFitsRow' BY <1>3, <1>4 DEF LockIsHeld, PhaseFitsRow
<1> USE DEF RecoveryInv, NewIsNowhere, RecoveryKnows, SentHoldsASlot
<1>7. CASE ReapSelect("boot")
  <2>1. \A e \in Reaped("boot") : row[e] = "pending" /\ api[e] # "new" BY DEF Reaped, Pending
  <2>2. UNCHANGED <<row, Held>> /\ found'["boot"] = Reaped("boot")
        /\ reaper'["boot"] \in {"idle", "found"}
    BY <1>1, <1>7 DEF ReapSelect, Held
  <2> QED BY <1>3, <1>4, <1>5, <1>6, <2>1, <2>2
<1>8. CASE ReapFail("boot")
  <2>1. SetStatus(found["boot"], "failed") /\ UNCHANGED Held
        /\ found'["boot"] = found["boot"] /\ reaper'["boot"] = "release"
        /\ reaper["boot"] = "found"
    BY <1>1, <1>8 DEF ReapFail, Held
  <2>2. \A e \in Execs : row'[e] = IF e \in found["boot"] /\ row[e] # "absent"
                                    THEN "failed" ELSE row[e]
    BY <2>1 DEF SetStatus
  <2>3. \A e \in found["boot"] : e \in Execs /\ row'[e] # "pending" /\ api[e] # "new"
    BY <1>1, <2>1, <2>2
  <2>4. NewIsNowhere' BY <1>3, <2>2
  <2>5. SentHoldsASlot' BY <1>3, <1>5, <2>1, <2>2
  <2> QED BY <1>3, <1>4, <1>6, <2>1, <2>3, <2>4, <2>5
<1>9. CASE ReapGivesUp("boot")
  <2>1. UNCHANGED <<row, Held>> /\ reaper'["boot"] = "idle"
    BY <1>1, <1>9 DEF ReapGivesUp, Held
  <2> QED BY <1>3, <1>5, <1>6, <2>1
<1>10. ASSUME NEW e \in Execs, ReapRelease("boot", e) PROVE RecoveryInv'
  <2>1. Held' \in {Held, Held \ {e}} /\ UNCHANGED row
        /\ found'["boot"] \subseteq found["boot"] /\ reaper["boot"] = "release"
        /\ reaper'["boot"] \in {"idle", "release"} /\ row[e] # "pending"
    BY <1>1, <1>10 DEF ReapRelease, GiveSlotBack, ReleaseSlot, Held
  <2> QED BY <1>1, <1>3, <1>4, <1>5, <1>6, <2>1
<1> QED BY <1>7, <1>8, <1>9, <1>10 DEF Reap

\* The handler keeps RecoveryInv.
LEMMA HandlerKeepsRecoveryInv ==
  ASSUME TypeOK, RecoveryInv, Handle \/ RunFails \/ TimeOut
  PROVE  RecoveryInv'
<1>1. /\ row \in [Execs -> {"absent", "pending"} \cup Terminal]
      /\ queue \in Seq(Message) /\ faults \in Nat
  BY BoundsAreNatural DEF TypeOK, SlotTypeOK
<1>2. queue # <<>>
  BY DEF Handle, Take, Begin, NoticeCancel, TellMissing, Announce, Commit, ExpireStream,
         CancelTell, CancelCommit, CancelClear, Fail, ForceFail, Release, Settle, RunFails,
         TimeOut, TypeOK
<1>3. PICK c \in Execs : c = cur /\ c \in Queued BY <1>1, <1>2, CurIsExec, CurIsQueued
<1>4. worker # "boot" /\ worker' # "boot" /\ UNCHANGED <<api, resumes, reaper, found>>
  <2>1. HandlerFrame
    BY DEF Handle, Take, Begin, NoticeCancel, TellMissing, Announce, Commit, ExpireStream,
           CancelTell, CancelCommit, CancelClear, Fail, ForceFail, Release, Settle, RunFails,
           TimeOut
  <2>2. worker # "boot" /\ worker' # "boot"
    BY DEF Handle, Take, Begin, NoticeCancel, TellMissing, Announce, Commit, ExpireStream,
           CancelTell, CancelCommit, CancelClear, Fail, ForceFail, Release, Settle, RunFails,
           TimeOut,
           Goto, Leave, CommitOr
  <2> QED BY <2>1, <2>2 DEF HandlerFrame, requestVars, reaperVars
<1>5. reaper["boot"] = "idle" /\ RecoveryKnows'
  BY <1>4 DEF RecoveryInv, RecoveryKnows
<1>6. faults' \in Nat /\ (faults' = 0 => faults = 0)
  <2>1. faults' \in {faults, faults + 1}
    BY DEF Handle, Take, Begin, NoticeCancel, TellMissing, Announce, Commit, ExpireStream,
           CancelTell, CancelCommit, CancelClear, Fail, ForceFail, Release, Settle, RunFails,
           TimeOut,
           CommitOr, NoFault, Fault, IntentOverlooked
  <2> QED BY <1>1, <2>1
<1>7. \A kind : Fault(kind) => faults' # 0 BY <1>1 DEF Fault
<1>8. UNCHANGED queue => cur' = c /\ Queued' = Queued BY <1>3 DEF cur, Queued
<1>9. api[c] # "new" BY <1>3 DEF RecoveryInv, NewIsNowhere
<1>10. \A s \in Terminal : s \notin {"pending", "absent"} BY DEF Terminal
<1> USE DEF HandlerFrame, requestVars, reaperVars, Goto, Leave, NoFault
<1> USE DEF RecoveryInv, NewIsNowhere, LockIsHeld, PhaseFitsRow, SentHoldsASlot
<1>11. ASSUME UNCHANGED <<row, queue, Held>>, LockIsHeld', PhaseFitsRow' PROVE RecoveryInv'
  BY <1>4, <1>5, <1>6, <1>8, <1>11
<1>12. ASSUME NEW s \in Terminal, UNCHANGED row \/ SetStatus({cur}, s), UNCHANGED <<queue, Held>>,
              LockIsHeld', PhaseFitsRow'
       PROVE  RecoveryInv'
  <2>1. \A e \in Execs : row'[e] \in {row[e], s} /\ (row[e] = "absent" => row'[e] = "absent")
    BY <1>12 DEF SetStatus
  <2> QED BY <1>4, <1>5, <1>6, <1>8, <1>10, <1>12, <2>1
<1>13. ASSUME NEW s, SetStatus({cur}, s) PROVE row'[c] = IF row[c] = "absent" THEN "absent" ELSE s
  BY <1>3, <1>13 DEF SetStatus
<1>14. "completed" \in Terminal /\ "failed" \in Terminal /\ "stopped" \in Terminal
  BY DEF Terminal
<1>15. CASE Take
  <2>1. row[c] \in {"absent", "pending"} \cup Terminal BY <1>1
  <2>2. LockIsHeld' /\ PhaseFitsRow' BY <1>3, <1>8, <1>10, <1>15, <2>1 DEF Take
  <2> QED BY <1>11, <1>15, <2>2 DEF Take, slotState, slotVars, Held
<1>16. CASE Begin
  <2>1. LockIsHeld' /\ PhaseFitsRow' BY <1>3, <1>7, <1>8, <1>16 DEF Begin
  <2> QED BY <1>11, <1>16, <2>1 DEF Begin, slotState, slotVars, Held
<1>17. CASE NoticeCancel
  <2>1. LockIsHeld' /\ PhaseFitsRow' BY <1>3, <1>8, <1>17 DEF NoticeCancel
  <2> QED BY <1>11, <1>17, <2>1 DEF NoticeCancel, slotState, slotVars, Held
<1>18. CASE TellMissing
  <2>1. LockIsHeld' /\ PhaseFitsRow' BY <1>3, <1>8, <1>18 DEF TellMissing
  <2> QED BY <1>11, <1>18, <2>1 DEF TellMissing, slotState, slotVars, Held
<1>19. ASSUME NEW s \in {"completed", "failed"}, Announce(s) PROVE RecoveryInv'
  <2>1. LockIsHeld' /\ PhaseFitsRow' BY <1>3, <1>8, <1>19 DEF Announce
  <2> QED BY <1>11, <1>19, <2>1 DEF Announce, slotState, slotVars, Held
<1>20. CASE Commit
  <2>1. outcome \in Terminal BY <1>14 DEF TypeOK
  <2>2. LockIsHeld' /\ PhaseFitsRow'
    BY <1>3, <1>7, <1>8, <1>10, <1>13, <1>20, <2>1 DEF Commit, CommitOr
  <2>3. UNCHANGED row \/ SetStatus({cur}, outcome) BY <1>20 DEF Commit, CommitOr
  <2> QED BY <1>12, <1>20, <2>1, <2>2, <2>3 DEF Commit, slotState, slotVars, Held
<1>21. CASE CancelCommit
  <2>1. LockIsHeld' /\ PhaseFitsRow'
    BY <1>3, <1>7, <1>8, <1>13, <1>21 DEF CancelCommit, CommitOr
  <2>2. UNCHANGED row \/ SetStatus({cur}, "stopped") BY <1>21 DEF CancelCommit, CommitOr
  <2> QED BY <1>12, <1>14, <1>21, <2>1, <2>2 DEF CancelCommit, slotState, slotVars, Held
<1>22. CASE ExpireStream
  <2>1. LockIsHeld' /\ PhaseFitsRow' BY <1>3, <1>8, <1>22 DEF ExpireStream
  <2> QED BY <1>11, <1>22, <2>1 DEF ExpireStream, slotState, slotVars, Held
<1>23. CASE CancelTell
  <2>1. LockIsHeld' /\ PhaseFitsRow' BY <1>3, <1>8, <1>23 DEF CancelTell
  <2> QED BY <1>11, <1>23, <2>1 DEF CancelTell, slotState, slotVars, Held
<1>24. CASE CancelClear
  <2>1. row' \in {row, [row EXCEPT ![c] = "absent"]} /\ UNCHANGED <<queue, Held>>
    BY <1>3, <1>24 DEF CancelClear, slotState, slotVars, Held
  <2>2. LockIsHeld' /\ PhaseFitsRow' BY <1>1, <1>3, <1>8, <1>24, <2>1 DEF CancelClear
  <2> QED BY <1>1, <1>4, <1>5, <1>6, <1>8, <2>1, <2>2
<1>25. CASE Fail \/ ForceFail
  <2>1. LockIsHeld' /\ PhaseFitsRow'
    BY <1>3, <1>7, <1>8, <1>13, <1>25 DEF Fail, ForceFail
  <2>2. UNCHANGED row \/ SetStatus({cur}, "failed") BY <1>25 DEF Fail, ForceFail
  <2> QED BY <1>12, <1>14, <1>25, <2>1, <2>2 DEF Fail, ForceFail, slotState, slotVars, Held
<1>26. CASE Release
  <2>1. UNCHANGED <<row, queue>> /\ worker' = "settling" /\ ~open'
        /\ \/ Held' = Held
           \/ faults' # 0
           \/ Held' = Held \ {c} /\ worker = "releasing" /\ faults' = faults
    BY <1>3, <1>7, <1>26 DEF Release, GiveSlotBack, ReleaseSlot, slotState, slotVars, Held
  <2> QED BY <1>1, <1>3, <1>4, <1>5, <1>6, <1>8, <2>1
<1>27. CASE Settle
  <2>1. Queued' \subseteq Queued BY <1>1, <1>2, <1>27, SettleShrinksQueue
  <2>2. UNCHANGED <<row, Held>> /\ worker' = "idle" /\ ~open'
    BY <1>27 DEF Settle, slotState, slotVars, Held
  <2> QED BY <1>4, <1>5, <1>6, <2>1, <2>2
<1>28. CASE RunFails \/ TimeOut
  <2>1. LockIsHeld' /\ PhaseFitsRow' BY <1>3, <1>8, <1>28 DEF RunFails, TimeOut
  <2> QED BY <1>11, <1>28, <2>1 DEF RunFails, TimeOut, slotState, slotVars, Held
<1> QED BY <1>15, <1>16, <1>17, <1>18, <1>19, <1>20, <1>21, <1>22, <1>23, <1>24, <1>25, <1>26,
           <1>27, <1>28 DEF Handle

\* RecoveryInv is inductive where only the recovery at boot writes beside the worker.
LEMMA RecoveryInductive ==
  ASSUME Reapers = {"boot"}
  PROVE  Spec => []RecoveryInv
<1>1. Init => RecoveryInv
  <2> SUFFICES ASSUME Init PROVE RecoveryInv OBVIOUS
  <2>1. Queued = {}
    <3>1. queue = <<>> BY DEF Init
    <3> QED BY <3>1, EmptySeq DEF Queued
  <2>2. /\ \A e \in Execs : row[e] = "absent"
        /\ reaper["boot"] = "idle" /\ ~open /\ worker = "idle"
    BY ReapersAssumption DEF Init
  <2> QED BY <2>1, <2>2 DEF RecoveryInv, NewIsNowhere, RecoveryKnows, LockIsHeld,
                            PhaseFitsRow, SentHoldsASlot
<1>2. TypeOK /\ RecoveryInv /\ [Next]_vars => RecoveryInv'
  <2> SUFFICES ASSUME TypeOK, RecoveryInv, [Next]_vars PROVE RecoveryInv' OBVIOUS
  <2>1. CASE Crash \/ Restart
    <3>1. UNCHANGED <<row, api, queue, Held, faults, resumes>> /\ worker' \in {"down", "boot"}
          /\ ~open'
      BY <2>1 DEF Crash, Restart, Goto, requestVars, slotState, slotVars, Held
    <3>2. reaper'["boot"] = "idle"
      BY <2>1 DEF Crash, Restart, reaperVars, RecoveryInv, RecoveryKnows
    <3>3. Queued' = Queued BY <3>1 DEF Queued
    <3> QED BY <3>1, <3>2, <3>3 DEF RecoveryInv, NewIsNowhere, RecoveryKnows, LockIsHeld,
                                    PhaseFitsRow, SentHoldsASlot
  <2>2. CASE UNCHANGED vars
    <3>1. UNCHANGED <<row, api, queue, worker, open, reaper, found, Held, faults, resumes>>
      BY <2>2 DEF vars, requestVars, workerVars, reaperVars, slotState, slotVars, Held
    <3> QED BY <3>1, QuietRecovery
  <2> QED BY <2>1, <2>2, RequestKeepsRecoveryInv, ReaperKeepsRecoveryInv,
             HandlerKeepsRecoveryInv DEF Next
<1> QED BY <1>1, <1>2, TypeCorrect, PTL DEF Spec

(***************************************************************************)
(* With the worker's own recovery as the only reaper, what runs is charged *)
(* for and tracked, as long as nobody resumes an execution and no call     *)
(* fails: neither the cleanups, nor a deletion, nor the recovery after a   *)
(* crash gives its unit back or forgets it, and slot keys may run out.     *)
(***************************************************************************)
THEOREM RunsOnItsSlot ==
  ASSUME Reapers = {"boot"}
  PROVE  Spec => []RunningHoldsASlot
<1>1. TypeOK /\ RecoveryInv => RunningHoldsASlot
  <2> SUFFICES ASSUME TypeOK, RecoveryInv, open, resumes = 0, faults = 0
               PROVE  cur \in charged \cap active
    BY DEF RunningHoldsASlot
  <2>1. queue \in Seq(Message) /\ queue # <<>> BY DEF RecoveryInv, LockIsHeld, TypeOK
  <2>2. cur \in Queued /\ cur \in Execs BY <2>1, CurIsQueued, CurIsExec
  <2> QED BY <2>2 DEF RecoveryInv, LockIsHeld, SentHoldsASlot, Held
<1> QED BY <1>1, RecoveryInductive, TypeCorrect, PTL

-----------------------------------------------------------------------------
(* An execution runs once, and a stop is honoured.                         *)

\* What both invariants stand on.
Basics ==
    /\ \A e \in Execs : api[e] = "new" =>
          row[e] = "absent" /\ e \notin Queued /\ starts[e] = 0 /\ stopReq[e] = "none"
    /\ open => worker \in {"running", "announced", "cancelling", "stopping", "failing"}
    /\ reaper["boot"] # "idle" => worker = "boot"
    /\ worker \in {"clearing", "committed"} => row[cur] # "pending"
    /\ worker \in {"running", "cancelling", "stopping"} /\ ~open => row[cur] = "absent"

\* Somebody will still give the execution its terminal status, or pay for it with a
\* fault: the worker that has it in hand, or the recovery that the next boot performs.
Unsettled(e) ==
    \/ worker = "down"
    \/ worker = "boot" /\ reaper["boot"] = "idle"
    \/ reaper["boot"] = "found" /\ e \in found["boot"]
    \/ worker \in {"running", "announced", "cancelling", "stopping", "forcing"} /\ e = cur

Paid ==
    /\ RunsOnce
    /\ \A e \in Execs : row[e] = "pending" /\ starts[e] > faults => Unsettled(e)
    /\ worker = "taken" => row[cur] = "absent" \/ starts[cur] <= faults

\* A stop that came in time stands in the intents until the execution cannot complete.
StopStands ==
    /\ \A e \in Execs : "completed" \in Told(e) => starts[e] # 0
    /\ open => starts[cur] # 0
    /\ StopIsHonored
    /\ \A e \in Execs : stopReq[e] = "early" /\ e \notin intent =>
          /\ row[e] # "pending"
          /\ worker = "taken" /\ e = cur => row[e] = "absent"
          /\ worker = "running" /\ e = cur => ~open

OnceInv == Basics /\ Paid

\* The types the two invariants speak of.
LEMMA RunTypes ==
  ASSUME TypeOK
  PROVE  /\ row \in [Execs -> {"absent", "pending"} \cup Terminal]
         /\ api \in [Execs -> {"new", "created", "acquired", "sent", "denied", "lost"}]
         /\ starts \in [Execs -> Nat] /\ faults \in Nat
         /\ stopReq \in [Execs -> {"none", "checked", "early", "late"}]
         /\ intent \subseteq Execs /\ queue \in Seq(Message)
         /\ stream \in [Execs -> Seq(Event)]
         /\ worker \notin {"down", "boot", "idle"} =>
               queue # <<>> /\ cur \in Queued /\ cur \in Execs
BY BoundsAreNatural, CurIsQueued, CurIsExec DEF TypeOK

\* A request, an ageing row and a cleanup leave the run of an execution alone: rows
\* come into being, or go.
LEMMA RequestFrame ==
  ASSUME TypeOK, Basics, NEW e \in Execs, Request(e) \/ Age(e) \/ Outlive(e) \/ CleanupSlot(e)
  PROVE  /\ UNCHANGED <<worker, open, outcome, reaper, found, starts, faults, stream>>
         /\ worker \notin {"down", "boot", "idle"} => cur' = cur
         /\ \A x \in Execs : \/ row'[x] = row[x]
                             \/ row'[x] = "absent" /\ ~(open /\ x = cur)
                             \/ row'[x] = "pending" /\ row[x] = "absent" /\ api[x] = "new"
         /\ \A x \in Execs : api'[x] = "new" => api[x] = "new" /\ row'[x] = row[x]
         /\ Queued' = Queued \/ (Queued' = Queued \cup {e} /\ api[e] # "new")
<1> USE DEF requestVars, workerVars, reaperVars, slotState, slotVars
<1>1. /\ row \in [Execs -> {"absent", "pending"} \cup Terminal]
      /\ api \in [Execs -> {"new", "created", "acquired", "sent", "denied", "lost"}]
      /\ queue \in Seq(Message)
      /\ worker \notin {"down", "boot", "idle"} => queue # <<>>
  BY RunTypes
<1>2. UNCHANGED queue => UNCHANGED <<cur, Queued>> BY DEF cur, Queued
<1>3. CASE Create(e) BY <1>1, <1>2, <1>3 DEF Create, Basics
<1>4. CASE Acquire(e)
  <2>1. \/ api' = [api EXCEPT ![e] = "acquired"]
        \/ api' = [api EXCEPT ![e] = "denied"]
    BY <1>4 DEF Acquire
  <2> QED BY <1>1, <1>2, <1>4, <2>1 DEF Acquire
<1>5. CASE Dispatch(e) \/ Resume(e)
  <2>1. Queued' = Queued \cup {e} /\ (queue # <<>> => cur' = cur)
    BY <1>1, <1>5, EnqueueKeepsHead DEF Dispatch, Resume
  <2>2. api[e] # "new" BY <1>5 DEF Dispatch, Resume, Basics
  <2>3. api' \in {api, [api EXCEPT ![e] = "sent"]} BY <1>5 DEF Dispatch, Resume
  <2> QED BY <1>1, <1>5, <2>1, <2>2, <2>3 DEF Dispatch, Resume
<1>6. CASE RequestDies(e) BY <1>1, <1>2, <1>6 DEF RequestDies
<1>7. CASE DeleteConversation(e)
  <2>1. /\ UNCHANGED <<api, worker, open, outcome, reaper, found, starts, faults, stream, queue>>
        /\ row' = [row EXCEPT ![e] = "absent"] /\ ~(open /\ e = cur)
    BY <1>7 DEF DeleteConversation, Locked
  <2>2. \A x \in Execs : row'[x] = row[x] \/ (row'[x] = "absent" /\ ~(open /\ x = cur))
    BY <1>1, <2>1
  <2>3. row'[e] = "absent" /\ row[e] # "absent" /\ \A x \in Execs : x # e => row'[x] = row[x]
    BY <1>1, <1>7, <2>1 DEF DeleteConversation
  <2>4. api[e] # "new" BY <2>3 DEF Basics
  <2> QED BY <1>2, <2>1, <2>2, <2>3, <2>4
<1>8. CASE StopCheck(e) \/ StopSet(e) \/ Disconnect(e) \/ IntentExpires(e) \/ Age(e)
           \/ Outlive(e) \/ CleanupSlot(e)
  BY <1>2, <1>8 DEF StopCheck, StopSet, Disconnect, IntentExpires, Age, Outlive, CleanupSlot
<1> QED BY <1>3, <1>4, <1>5, <1>6, <1>7, <1>8 DEF Request

\* They keep what both invariants stand on.
LEMMA RequestKeepsBasics ==
  ASSUME TypeOK, Basics, NEW e \in Execs, Request(e) \/ Age(e) \/ Outlive(e) \/ CleanupSlot(e)
  PROVE  Basics'
<1>1. \A x \in Execs : api'[x] = "new" => stopReq'[x] = "none"
  <2>1. UNCHANGED stopReq \/ (stopReq' = [stopReq EXCEPT ![e] = "checked"] /\ row[e] = "pending")
        \/ (stopReq[e] = "checked" /\ \E s : stopReq' = [stopReq EXCEPT ![e] = s])
    BY DEF Request, Create, Acquire, Dispatch, RequestDies, Resume, StopCheck, StopSet, Disconnect,
           IntentExpires, DeleteConversation, Age, Outlive, CleanupSlot, requestVars
  <2>2. \A x \in Execs : api'[x] = "new" => api[x] = "new" BY RequestFrame
  <2> QED BY <2>1, <2>2, RunTypes DEF Basics
<1>2. \A x \in Execs : api'[x] = "new" => row'[x] = "absent" /\ x \notin Queued' /\ starts'[x] = 0
  <2>1. UNCHANGED starts /\ (Queued' = Queued \/ (Queued' = Queued \cup {e} /\ api[e] # "new"))
    BY RequestFrame
  <2>2. \A x \in Execs : api'[x] = "new" => api[x] = "new" /\ row'[x] = row[x] BY RequestFrame
  <2> QED BY <2>1, <2>2 DEF Basics
<1>3. UNCHANGED <<worker, open, reaper>> BY RequestFrame
<1>4. ASSUME worker \in {"clearing", "committed"} PROVE row'[cur'] # "pending"
  <2>1. cur' = cur /\ cur \in Execs /\ cur \in Queued BY <1>4, RequestFrame, RunTypes
  <2>2. api[cur] # "new" /\ row[cur] # "pending" BY <1>4, <2>1 DEF Basics
  <2>3. row'[cur] = row[cur] \/ row'[cur] = "absent" BY <2>1, <2>2, RequestFrame
  <2> QED BY <2>1, <2>2, <2>3
<1>5. ASSUME worker \in {"running", "cancelling", "stopping"}, ~open PROVE row'[cur'] = "absent"
  <2>1. cur' = cur /\ cur \in Execs /\ cur \in Queued BY <1>5, RequestFrame, RunTypes
  <2>2. api[cur] # "new" /\ row[cur] = "absent" BY <1>5, <2>1 DEF Basics
  <2> QED BY <2>1, <2>2, RequestFrame
<1> QED BY <1>1, <1>2, <1>3, <1>4, <1>5 DEF Basics

\* They keep the account of the runs.
LEMMA RequestKeepsPaid ==
  ASSUME TypeOK, Basics, Paid, NEW e \in Execs, Request(e) \/ Age(e) \/ Outlive(e) \/ CleanupSlot(e)
  PROVE  Paid'
<1>1. UNCHANGED <<worker, reaper, found, starts, faults>> BY RequestFrame
<1>2. ASSUME NEW x \in Execs, row'[x] = "pending", starts'[x] > faults' PROVE Unsettled(x)'
  <2>1. row[x] = "pending"
    <3>1. row'[x] = row[x] \/ row'[x] = "absent" \/ api[x] = "new" BY RequestFrame
    <3>2. starts[x] # 0 BY <1>1, <1>2, RunTypes
    <3> QED BY <1>2, <3>1, <3>2 DEF Basics
  <2>2. Unsettled(x) BY <1>1, <1>2, <2>1 DEF Paid
  <2> QED BY <1>1, <2>2, RequestFrame DEF Unsettled
<1>3. ASSUME worker' = "taken" PROVE row'[cur'] = "absent" \/ starts'[cur'] <= faults'
  <2>1. cur' = cur /\ cur \in Execs /\ cur \in Queued BY <1>1, <1>3, RequestFrame, RunTypes
  <2> QED BY <1>1, <1>3, <2>1, RequestFrame DEF Paid, Basics
<1> QED BY <1>1, <1>2, <1>3 DEF Paid, RunsOnce

\* A reaper fails rows, the recovery at boot before the worker goes on.
LEMMA ReaperFrameHolds ==
  ASSUME TypeOK, Basics, NEW r \in Reapers, Reap(r)
  PROVE  /\ UNCHANGED <<api, stopReq, intent, stream, queue, open, outcome, starts>>
         /\ cur' = cur /\ Queued' = Queued
         /\ faults' \in {faults, faults + 1}
         /\ \A x \in Execs : row'[x] = row[x] \/ (row'[x] = "failed" /\ row[x] # "absent")
         /\ r = "boot" => worker = "boot" /\ ~open /\ worker' \in {"boot", "idle"}
         /\ r = "boot" => (worker' = "idle" <=> reaper'["boot"] = "idle")
         /\ r # "boot" => UNCHANGED worker /\ reaper'["boot"] = reaper["boot"]
                          /\ found'["boot"] = found["boot"]
<1> USE DEF ReaperFrame, requestVars
<1>1. ReaperFrame
  BY DEF Reap, ReapSelect, ReapFail, ReapGivesUp, ReapRelease
<1>2. faults' \in {faults, faults + 1}
  BY DEF Reap, ReapSelect, ReapFail, ReapGivesUp, ReapRelease, NoFault, Fault
<1>3. UNCHANGED row \/ SetStatus(found[r], "failed")
  BY DEF Reap, ReapSelect, ReapFail, ReapGivesUp, ReapRelease
<1>4. \A x \in Execs : row'[x] = row[x] \/ (row'[x] = "failed" /\ row[x] # "absent")
  BY <1>3, RunTypes DEF SetStatus
<1>5. \E at, S : ReaperGoto(r, at, S)
  BY DEF Reap, ReapSelect, ReapFail, ReapGivesUp, ReapRelease
<1>6. "boot" \in Reapers /\ reaper \in [Reapers -> {"idle", "found", "release"}]
      /\ found \in [Reapers -> SUBSET Execs]
  BY ReapersAssumption DEF TypeOK
<1>7. r = "boot" => worker = "boot"
  BY DEF Reap, ReapSelect, Scheduled, ReapFail, ReapGivesUp, ReapRelease, Basics
<1>8. r = "boot" => ~open BY <1>7 DEF Basics
<1>9. UNCHANGED <<cur, Queued>> BY <1>1 DEF cur, Queued
<1>10. r # "boot" => UNCHANGED worker /\ reaper'["boot"] = reaper["boot"]
                     /\ found'["boot"] = found["boot"]
  BY <1>5, <1>6 DEF ReaperGoto
<1>11. r = "boot" => worker' \in {"boot", "idle"} /\ (worker' = "idle" <=> reaper'["boot"] = "idle")
  BY <1>5, <1>6, <1>7 DEF ReaperGoto
<1> QED BY <1>1, <1>2, <1>4, <1>7, <1>8, <1>9, <1>10, <1>11

\* A reaper keeps what both invariants stand on.
LEMMA ReaperKeepsBasics ==
  ASSUME TypeOK, Basics, NEW r \in Reapers, Reap(r)
  PROVE  Basics'
<1>1. \A x \in Execs : api'[x] = "new" =>
         row'[x] = "absent" /\ x \notin Queued' /\ starts'[x] = 0 /\ stopReq'[x] = "none"
  BY ReaperFrameHolds DEF Basics
<1>2. open' => worker' \in {"running", "announced", "cancelling", "stopping", "failing"}
  BY ReaperFrameHolds DEF Basics
<1>3. reaper'["boot"] # "idle" => worker' = "boot" BY ReaperFrameHolds DEF Basics
<1>4. ASSUME worker' \in {"clearing", "committed"} PROVE row'[cur'] # "pending"
  <2>1. worker' = worker /\ cur' = cur BY <1>4, ReaperFrameHolds
  <2>2. cur \in Execs BY <1>4, <2>1, RunTypes
  <2> QED BY <1>4, <2>1, <2>2, ReaperFrameHolds DEF Basics
<1>5. ASSUME worker' \in {"running", "cancelling", "stopping"}, ~open' PROVE row'[cur'] = "absent"
  <2>1. worker' = worker /\ cur' = cur /\ open' = open BY <1>5, ReaperFrameHolds
  <2>2. cur \in Execs /\ row[cur] = "absent" BY <1>5, <2>1, RunTypes DEF Basics
  <2> QED BY <2>1, <2>2, ReaperFrameHolds
<1> QED BY <1>1, <1>2, <1>3, <1>4, <1>5 DEF Basics

\* A reaper keeps the account: the recovery has found whatever the crash has left.
LEMMA ReaperKeepsPaid ==
  ASSUME TypeOK, Basics, Paid, NEW r \in Reapers, Reap(r)
  PROVE  Paid'
<1>1. faults \in Nat /\ starts \in [Execs -> Nat] /\ starts' = starts
      /\ faults' \in {faults, faults + 1} /\ cur' = cur
  BY ReaperFrameHolds, RunTypes
<1>2. RunsOnce' BY <1>1 DEF Paid, RunsOnce
<1>3. ASSUME worker' = "taken" PROVE row'[cur'] = "absent" \/ starts'[cur'] <= faults'
  <2>1. worker = "taken" BY <1>3, ReaperFrameHolds
  <2>2. cur \in Execs /\ (row[cur] = "absent" \/ starts[cur] <= faults) BY <2>1, RunTypes DEF Paid
  <2>3. row'[cur] = row[cur] \/ row[cur] # "absent" BY <2>2, ReaperFrameHolds
  <2> QED BY <1>1, <2>2, <2>3
<1>4. ASSUME NEW x \in Execs, row'[x] = "pending", starts'[x] > faults' PROVE Unsettled(x)'
  <2>1. row'[x] = row[x] /\ starts[x] > faults BY <1>1, <1>4, ReaperFrameHolds
  <2>2. Unsettled(x) BY <1>4, <2>1 DEF Paid
  <2>3. CASE r # "boot" BY <1>1, <2>2, <2>3, ReaperFrameHolds DEF Unsettled
  <2>4. CASE r = "boot"
    <3> USE DEF ReaperGoto
    <3>1. worker = "boot" /\ ~open /\ faults' = faults
      <4>1. starts[x] <= 1 + faults BY DEF Paid, RunsOnce
      <4>2. faults' # faults + 1 BY <1>1, <1>4, <4>1
      <4> QED BY <1>1, <2>4, <4>2, ReaperFrameHolds
    <3>2. reaper \in [Reapers -> {"idle", "found", "release"}] /\ "boot" \in Reapers
          /\ found \in [Reapers -> SUBSET Execs]
      BY ReapersAssumption DEF TypeOK
    <3>3. CASE ReapSelect("boot")
      <4>1. x \in Reaped("boot") BY <1>4, <2>1 DEF Reaped, Pending
      <4>2. reaper' = [reaper EXCEPT !["boot"] = "found"]
            /\ found' = [found EXCEPT !["boot"] = Reaped("boot")]
        BY <3>3, <4>1 DEF ReapSelect
      <4> QED BY <3>2, <4>1, <4>2 DEF Unsettled
    <3>4. CASE ReapFail("boot")
      <4>1. x \in found["boot"] BY <3>1, <3>4, <2>2 DEF Unsettled, ReapFail
      <4>2. row'[x] = IF row[x] # "absent" THEN "failed" ELSE row[x]
        BY <3>4, <4>1 DEF ReapFail, SetStatus
      <4> QED BY <1>4, <4>2
    <3>5. CASE ReapGivesUp("boot")
      BY <1>1, <3>1, <3>5 DEF ReapGivesUp, Fault, Locked
    <3>6. ASSUME NEW e, ReapRelease("boot", e) PROVE FALSE
      BY <3>1, <3>6, <2>2 DEF ReapRelease, Unsettled
    <3> QED BY <2>4, <3>3, <3>4, <3>5, <3>6 DEF Reap
  <2> QED BY <2>3, <2>4
<1> QED BY <1>2, <1>3, <1>4 DEF Paid

\* What a step of the handler may do to rows and faults.
LEMMA HandlerFrameHolds ==
  ASSUME TypeOK, Basics, Handle \/ RunFails \/ TimeOut
  PROVE  /\ UNCHANGED <<api, stopReq, reaper, found>> /\ reaper["boot"] = "idle"
         /\ worker \notin {"down", "boot"} /\ worker' \notin {"down", "boot"}
         /\ queue # <<>> /\ cur \in Execs /\ cur \in Queued
         /\ Queued' \subseteq Queued /\ (worker' # "idle" => UNCHANGED queue /\ cur' = cur)
         /\ faults' \in {faults, faults + 1}
         /\ \A x \in Execs : x # cur => row'[x] = row[x]
         /\ row'[cur] \in {row[cur], "absent"} \cup Terminal
         /\ row[cur] = "absent" => row'[cur] = "absent"
<1> USE DEF HandlerFrame, Goto, Leave, NoFault
<1>1. queue \in Seq(Message) /\ row \in [Execs -> {"absent", "pending"} \cup Terminal]
  BY RunTypes
<1>2. queue # <<>>
  BY DEF Handle, Take, Begin, NoticeCancel, TellMissing, Announce, Commit, ExpireStream,
         CancelTell, CancelCommit, CancelClear, Fail, ForceFail, Release, Settle, RunFails,
         TimeOut, TypeOK
<1>3. PICK c \in Execs : c = cur /\ c \in Queued BY <1>1, <1>2, CurIsExec, CurIsQueued
<1>4. HandlerFrame
  BY DEF Handle, Take, Begin, NoticeCancel, TellMissing, Announce, Commit, ExpireStream,
         CancelTell, CancelCommit, CancelClear, Fail, ForceFail, Release, Settle, RunFails,
         TimeOut
<1>5. worker \notin {"down", "boot"} /\ worker' \notin {"down", "boot"}
  BY DEF Handle, Take, Begin, NoticeCancel, TellMissing, Announce, Commit, ExpireStream,
         CancelTell, CancelCommit, CancelClear, Fail, ForceFail, Release, Settle, RunFails,
         TimeOut, CommitOr
<1>6. faults' \in {faults, faults + 1}
  BY DEF Handle, Take, Begin, NoticeCancel, TellMissing, Announce, Commit, ExpireStream,
         CancelTell, CancelCommit, CancelClear, Fail, ForceFail, Release, Settle, RunFails,
         TimeOut, CommitOr, Fault, IntentOverlooked
<1>7. UNCHANGED queue \/ (Settle /\ worker' = "idle")
  BY DEF Handle, Take, Begin, NoticeCancel, TellMissing, Announce, Commit, ExpireStream,
         CancelTell, CancelCommit, CancelClear, Fail, ForceFail, Release, Settle, RunFails,
         TimeOut
<1>8. Queued' \subseteq Queued
  <2>1. CASE UNCHANGED queue BY <2>1 DEF Queued
  <2>2. CASE Settle BY <1>1, <1>2, <2>2, SettleShrinksQueue
  <2> QED BY <1>7, <2>1, <2>2
<1>9. UNCHANGED queue => cur' = cur BY DEF cur
<1>10. /\ {outcome, "failed", "stopped"} \subseteq Terminal
       /\ \/ UNCHANGED row
          \/ \E s \in {outcome, "failed", "stopped"} : SetStatus({c}, s)
          \/ row' = [row EXCEPT ![c] = "absent"]
  <2>1. {outcome, "failed", "stopped"} \subseteq Terminal BY DEF TypeOK, Terminal
  <2> QED
    BY <1>3, <2>1
    DEF Handle, Take, Begin, NoticeCancel, TellMissing, Announce, Commit, ExpireStream,
        CancelTell, CancelCommit, CancelClear, Fail, ForceFail, Release, Settle, RunFails,
        TimeOut, CommitOr
<1>11. /\ \A x \in Execs : x # c => row'[x] = row[x]
       /\ row'[c] \in {row[c], "absent"} \cup Terminal
       /\ row[c] = "absent" => row'[c] = "absent"
  <2>1. CASE UNCHANGED row BY <2>1
  <2>2. ASSUME NEW s \in Terminal, SetStatus({c}, s)
        PROVE  /\ \A x \in Execs : x # c => row'[x] = row[x]
               /\ row'[c] \in {row[c], "absent"} \cup Terminal
               /\ row[c] = "absent" => row'[c] = "absent"
    BY <1>3, <2>2 DEF SetStatus
  <2>3. CASE row' = [row EXCEPT ![c] = "absent"] BY <1>1, <1>3, <2>3
  <2> QED BY <1>10, <2>1, <2>2, <2>3
<1>12. reaper["boot"] = "idle" BY <1>5 DEF Basics
<1> QED BY <1>3, <1>4, <1>5, <1>6, <1>7, <1>8, <1>9, <1>11, <1>2, <1>12
        DEF requestVars, reaperVars

\* The handler keeps what both invariants stand on.
LEMMA HandlerKeepsBasics ==
  ASSUME TypeOK, Basics, Handle \/ RunFails \/ TimeOut
  PROVE  Basics'
<1> USE DEF Goto, Leave
<1>1. PICK c \in Execs : c = cur /\ c \in Queued BY HandlerFrameHolds
<1>2. \A x \in Execs : api'[x] = "new" =>
         row'[x] = "absent" /\ x \notin Queued' /\ starts'[x] = 0 /\ stopReq'[x] = "none"
  <2>1. api' = api /\ stopReq' = stopReq /\ api[c] # "new" /\ Queued' \subseteq Queued
        /\ \A x \in Execs : x # c => row'[x] = row[x]
    BY <1>1, HandlerFrameHolds DEF Basics
  <2>2. starts' \in {starts, [starts EXCEPT ![c] = @ + 1]}
    BY <1>1 DEF Handle, Take, Begin, NoticeCancel, TellMissing, Announce, Commit, ExpireStream,
                CancelTell, CancelCommit, CancelClear, Fail, ForceFail, Release, Settle,
                RunFails, TimeOut
  <2>3. \A x \in Execs : x # c => starts'[x] = starts[x] BY <2>2, RunTypes
  <2> QED BY <2>1, <2>3 DEF Basics
<1>3. open' => worker' \in {"running", "announced", "cancelling", "stopping", "failing"}
  BY DEF Handle, Take, Begin, NoticeCancel, TellMissing, Announce, Commit, ExpireStream,
         CancelTell, CancelCommit, CancelClear, Fail, ForceFail, Release, Settle, RunFails,
         TimeOut, CommitOr, Basics
<1>4. reaper'["boot"] # "idle" => worker' = "boot" BY HandlerFrameHolds
<1>5. ASSUME worker' \in {"clearing", "committed"} PROVE row'[cur'] # "pending"
  <2>1. cur' = c BY <1>1, <1>5, HandlerFrameHolds
  <2>2. outcome # "pending" BY DEF TypeOK
  <2>3. \A s : SetStatus({c}, s) => row'[c] \in {"absent", s} BY <1>1 DEF SetStatus
  <2>4. CASE worker = "clearing"
    <3>1. row[c] # "pending" BY <1>1, <2>4 DEF Basics
    <3>2. row' \in {row, [row EXCEPT ![c] = "absent"]}
      BY <1>1, <1>5, <2>4
      DEF Handle, Take, Begin, NoticeCancel, TellMissing, Announce, Commit, ExpireStream,
          CancelTell, CancelCommit, CancelClear, Fail, ForceFail, Release, Settle, RunFails,
          TimeOut
    <3> QED BY <2>1, <3>1, <3>2, RunTypes
  <2>5. CASE worker # "clearing"
    <3>1. \/ TellMissing \/ (Commit /\ SetStatus({c}, outcome))
          \/ CancelCommit /\ SetStatus({c}, "stopped")
      BY <1>1, <1>5, <2>5
      DEF Handle, Take, Begin, NoticeCancel, Announce, Commit, ExpireStream,
          CancelTell, CancelCommit, CancelClear, Fail, ForceFail, Release, Settle, RunFails,
          TimeOut, CommitOr
    <3>2. CASE TellMissing
      <4>1. worker = "running" /\ ~open /\ row' = row BY <3>2 DEF TellMissing
      <4> QED BY <1>1, <2>1, <4>1 DEF Basics
    <3> QED BY <2>1, <2>2, <2>3, <3>1, <3>2
  <2> QED BY <2>4, <2>5
<1>6. ASSUME worker' \in {"running", "cancelling", "stopping"}, ~open' PROVE row'[cur'] = "absent"
  <2>1. cur' = c /\ (row[c] = "absent" => row'[c] = "absent") BY <1>1, <1>6, HandlerFrameHolds
  <2>2. \/ Begin /\ open' = (row[c] # "absent")
        \/ worker \in {"running", "cancelling", "stopping"} /\ open' = open
    BY <1>1, <1>6
    DEF Handle, Take, Begin, NoticeCancel, TellMissing, Announce, Commit, ExpireStream,
        CancelTell, CancelCommit, CancelClear, Fail, ForceFail, Release, Settle, RunFails,
        TimeOut, CommitOr
  <2> QED BY <1>1, <1>6, <2>1, <2>2 DEF Basics
<1> QED BY <1>2, <1>3, <1>4, <1>5, <1>6 DEF Basics

\* The handler keeps the account: it starts an execution that is paid for, and leaves
\* one with a terminal status or with a fault.
LEMMA HandlerKeepsPaid ==
  ASSUME TypeOK, Basics, Paid, Handle \/ RunFails \/ TimeOut
  PROVE  Paid'
<1> USE DEF Goto, Leave, NoFault
<1> DEFINE busy == {"running", "announced", "cancelling", "stopping", "forcing"}
<1>1. PICK c \in Execs : c = cur BY HandlerFrameHolds
<1>2. /\ faults \in Nat /\ faults' \in {faults, faults + 1} /\ starts \in [Execs -> Nat]
      /\ \A x \in Execs : x # c => row'[x] = row[x]
      /\ row[c] = "absent" => row'[c] = "absent"
      /\ row[c] \in {"absent", "pending"} \cup Terminal
      /\ worker' # "idle" => cur' = c
      /\ worker \notin {"down", "boot"} /\ reaper["boot"] = "idle"
  BY <1>1, HandlerFrameHolds, RunTypes
<1>3. ASSUME NEW x \in Execs, row[x] = "pending", starts[x] > faults PROVE x = c /\ worker \in busy
  <2>1. Unsettled(x) BY <1>3 DEF Paid
  <2> QED BY <1>1, <1>2, <2>1 DEF Unsettled
<1>4. ASSUME UNCHANGED starts, worker' # "taken",
             row'[c] = "pending" /\ starts[c] > faults' => worker' \in busy
      PROVE  Paid'
  <2>1. RunsOnce' BY <1>2, <1>4 DEF Paid, RunsOnce
  <2>2. ASSUME NEW x \in Execs, row'[x] = "pending", starts'[x] > faults' PROVE Unsettled(x)'
    <3>1. starts[x] > faults BY <1>2, <1>4, <2>2
    <3>2. x = c BY <1>2, <1>3, <2>2, <3>1
    <3>3. worker' \in busy /\ cur' = c BY <1>2, <1>4, <2>2, <3>2
    <3> QED BY <3>2, <3>3 DEF Unsettled
  <2> QED BY <1>4, <2>1, <2>2 DEF Paid
<1>5. \A kind : Fault(kind) => starts[c] <= faults' BY <1>2 DEF Paid, RunsOnce, Fault
<1>6. \A s : SetStatus({c}, s) => row'[c] \in {"absent", s} BY <1>1 DEF SetStatus
<1>7. outcome # "pending" BY DEF TypeOK
<1>8. CASE Take
  <2>1. worker = "idle" /\ UNCHANGED <<row, starts, faults>> BY <1>8 DEF Take
  <2>2. row[c] = "pending" => starts[c] <= faults BY <1>2, <1>3, <2>1
  <2>3. CASE worker' = "taken"
    <3>1. row[c] \notin Terminal /\ cur' = c BY <1>1, <1>2, <1>8, <2>3 DEF Take
    <3>2. RunsOnce' BY <2>1 DEF Paid, RunsOnce
    <3>3. \A x \in Execs : ~(row[x] = "pending" /\ starts[x] > faults) BY <1>3, <2>1
    <3> QED BY <1>2, <2>1, <2>2, <2>3, <3>1, <3>2, <3>3 DEF Paid
  <2>4. CASE worker' # "taken"
    <3>1. row[c] \in Terminal BY <1>1, <1>8, <2>4 DEF Take
    <3> QED BY <1>4, <2>1, <2>4, <3>1 DEF Terminal
  <2> QED BY <2>3, <2>4
<1>9. CASE Begin
  <2>1. worker = "taken" /\ row' = row BY <1>9 DEF Begin
  <2>2. row[c] = "absent" \/ starts[c] <= faults BY <1>1, <2>1 DEF Paid
  <2>3. CASE UNCHANGED starts
    <3>1. worker' = "running" \/ starts[c] <= faults' BY <1>5, <1>9 DEF Begin
    <3>2. worker' # "taken" BY <1>9 DEF Begin
    <3> QED BY <1>2, <1>4, <2>3, <3>1, <3>2
  <2>4. CASE starts' = [starts EXCEPT ![c] = @ + 1] /\ row[c] # "absent" /\ worker' = "running"
             /\ faults' = faults
    <3>1. starts[c] <= faults /\ starts'[c] = starts[c] + 1 BY <1>2, <2>2, <2>4
    <3>2. \A x \in Execs : x # c => starts'[x] = starts[x] BY <1>2, <2>4
    <3>3. RunsOnce' BY <1>2, <2>4, <3>1, <3>2 DEF Paid, RunsOnce
    <3>4. ASSUME NEW x \in Execs, row'[x] = "pending", starts'[x] > faults' PROVE Unsettled(x)'
      <4>1. x = c BY <1>3, <2>1, <2>4, <3>2, <3>4
      <4> QED BY <1>2, <2>4, <4>1 DEF Unsettled
    <3> QED BY <2>4, <3>3, <3>4 DEF Paid
  <2> QED BY <1>1, <1>9, <2>3, <2>4 DEF Begin
<1>10. CASE NoticeCancel \/ CancelTell \/ TimeOut
  BY <1>4, <1>10 DEF NoticeCancel, CancelTell, TimeOut
<1>11. CASE TellMissing
  <2>1. worker = "running" /\ ~open /\ UNCHANGED <<row, starts>> /\ worker' = "committed"
    BY <1>11 DEF TellMissing
  <2>2. row[c] = "absent" BY <1>1, <2>1 DEF Basics
  <2> QED BY <1>4, <2>1, <2>2
<1>12. ASSUME NEW s \in {"completed", "failed"}, Announce(s) PROVE Paid'
  BY <1>4, <1>12 DEF Announce
<1>13. CASE Commit \/ CancelCommit
  <2>1. UNCHANGED starts /\ worker' # "taken"
        /\ (row'[c] # "pending" \/ starts[c] <= faults')
    BY <1>1, <1>5, <1>6, <1>7, <1>13 DEF Commit, CancelCommit, CommitOr
  <2> QED BY <1>2, <1>4, <2>1
<1>14. CASE ExpireStream \/ CancelClear \/ Release \/ Settle
  <2>1. UNCHANGED starts /\ worker' # "taken" /\ worker \notin busy
        /\ (row'[c] = row[c] \/ row'[c] = "absent")
    BY <1>1, <1>2, <1>14, RunTypes DEF ExpireStream, CancelClear, Release, Settle
  <2>2. ~(row[c] = "pending" /\ starts[c] > faults) BY <1>3, <2>1
  <2> QED BY <1>2, <1>4, <2>1, <2>2
<1>15. CASE Fail \/ ForceFail \/ RunFails
  <2>1. UNCHANGED starts /\ worker' # "taken"
        /\ (row'[c] # "pending" \/ starts[c] <= faults')
    BY <1>1, <1>5, <1>6, <1>15 DEF Fail, ForceFail, RunFails
  <2> QED BY <1>2, <1>4, <2>1
<1> QED BY <1>8, <1>9, <1>10, <1>11, <1>12, <1>13, <1>14, <1>15 DEF Handle

\* OnceInv is inductive.
LEMMA OnceInductive == Spec => []OnceInv
<1>1. Init => OnceInv
  <2> SUFFICES ASSUME Init PROVE OnceInv OBVIOUS
  <2>1. Queued = {}
    <3>1. queue = <<>> BY DEF Init
    <3> QED BY <3>1, EmptySeq DEF Queued
  <2>2. /\ \A e \in Execs : row[e] = "absent" /\ starts[e] = 0 /\ stopReq[e] = "none"
        /\ reaper["boot"] = "idle" /\ ~open /\ worker = "idle" /\ faults = 0
    BY ReapersAssumption DEF Init
  <2> QED BY <2>1, <2>2 DEF OnceInv, Basics, Paid, RunsOnce
<1>2. TypeOK /\ OnceInv /\ [Next]_vars => OnceInv'
  <2> SUFFICES ASSUME TypeOK, Basics, Paid, [Next]_vars PROVE Basics' /\ Paid' BY DEF OnceInv
  <2>1. CASE Crash \/ Restart
    <3>1. UNCHANGED <<row, api, stopReq, queue, faults, starts>> /\ worker' \in {"down", "boot"}
          /\ ~open' /\ reaper'["boot"] = "idle"
      BY <2>1, ReapersAssumption
      DEF Crash, Restart, Goto, requestVars, reaperVars, Basics
    <3>2. Queued' = Queued BY <3>1 DEF Queued
    <3> QED BY <3>1, <3>2 DEF Basics, Paid, RunsOnce, Unsettled
  <2>2. CASE UNCHANGED vars
    <3>1. UNCHANGED <<row, api, stopReq, queue, worker, open, reaper, found, starts, faults>>
      BY <2>2 DEF vars, requestVars, workerVars, reaperVars
    <3> QED BY <3>1 DEF Basics, Paid, RunsOnce, Unsettled, Queued, cur
  <2> QED BY <2>1, <2>2, RequestKeepsBasics, RequestKeepsPaid, ReaperKeepsBasics, ReaperKeepsPaid,
             HandlerKeepsBasics, HandlerKeepsPaid DEF Next
<1> QED BY <1>1, <1>2, TypeCorrect, PTL DEF Spec

(***************************************************************************)
(* An execution is run once, and once more for each call that failed: with *)
(* any reapers, crashes, timeouts, retries and resumed executions.         *)
(***************************************************************************)
THEOREM PaidForOnce == Spec => []RunsOnce
<1>1. OnceInv => RunsOnce BY DEF OnceInv, Paid
<1> QED BY <1>1, OnceInductive, PTL

\* What is told is added to what was told, and to nothing else.
LEMMA TellAdds ==
  ASSUME stream \in [Execs -> Seq(Event)], NEW e \in Execs, NEW v \in Event, Tell(e, v)
  PROVE  \A x \in Execs : Told(x)' \subseteq Told(x) \cup {v} /\ (x # e => Told(x)' = Told(x))
<1>1. stream[e] \in Seq(Event) OBVIOUS
<1>2. stream' = [stream EXCEPT ![e] = Append(stream[e], v)] BY DEF Tell
<1>3. /\ Len(stream'[e]) = Len(stream[e]) + 1
      /\ \A i \in 1..Len(stream[e]) : stream'[e][i] = stream[e][i]
      /\ stream'[e][Len(stream[e]) + 1] = v
  BY <1>1, <1>2, AppendProperties
<1>4. Len(stream[e]) \in Nat BY <1>1, LenProperties
<1>5. Told(e)' \subseteq Told(e) \cup {v} BY <1>3, <1>4 DEF Told
<1>6. \A x \in Execs : x # e => Told(x)' = Told(x) BY <1>2 DEF Told
<1> QED BY <1>5, <1>6

\* Requests keep a stop that stands: none of them takes an intent back.
LEMMA RequestKeepsStop ==
  ASSUME TypeOK, Basics, StopStands, Expiring = {},
         NEW e \in Execs, Request(e) \/ Age(e) \/ Outlive(e) \/ CleanupSlot(e)
  PROVE  StopStands'
<1>1. UNCHANGED <<worker, open, starts, stream>> BY RequestFrame
<1>2. \A x \in Execs : Told(x)' = Told(x) BY <1>1 DEF Told
<1>3. \/ intent \subseteq intent' /\ UNCHANGED stopReq
      \/ StopCheck(e) \/ StopSet(e)
  BY DEF Request, Create, Acquire, Dispatch, RequestDies, Resume, Disconnect,
         IntentExpires, DeleteConversation, Age, Outlive, CleanupSlot, requestVars
<1>4. /\ \A x \in Execs : stopReq'[x] = "early" => stopReq[x] = "early" \/ starts[x] = 0
      /\ \A x \in Execs : stopReq'[x] = "early" /\ x \notin intent' =>
            stopReq[x] = "early" /\ x \notin intent
  BY <1>3, RunTypes DEF StopCheck, StopSet
<1>5. StopIsHonored' BY <1>2, <1>4 DEF StopStands, StopIsHonored
<1>6. open' => starts'[cur'] # 0
  <2>1. open => cur' = cur BY RequestFrame DEF Basics
  <2> QED BY <1>1, <2>1 DEF StopStands
<1>7. ASSUME NEW x \in Execs, stopReq'[x] = "early", x \notin intent'
      PROVE  /\ row'[x] # "pending"
             /\ worker' = "taken" /\ x = cur' => row'[x] = "absent"
             /\ worker' = "running" /\ x = cur' => ~open'
  <2>1. stopReq[x] = "early" /\ x \notin intent /\ api[x] # "new" BY <1>4, <1>7 DEF Basics
  <2>2. row'[x] = row[x] \/ row'[x] = "absent" BY <2>1, RequestFrame
  <2>3. worker \in {"taken", "running"} => cur' = cur BY RequestFrame
  <2> QED BY <1>1, <2>1, <2>2, <2>3 DEF StopStands
<1> QED BY <1>1, <1>2, <1>5, <1>6, <1>7 DEF StopStands

\* Reapers keep it: what they fail does not become PENDING.
LEMMA ReaperKeepsStop ==
  ASSUME TypeOK, Basics, StopStands, NEW r \in Reapers, Reap(r)
  PROVE  StopStands'
<1>1. /\ UNCHANGED <<stopReq, intent, stream, open, starts>> /\ cur' = cur
      /\ \A x \in Execs : row'[x] = row[x] \/ (row'[x] = "failed" /\ row[x] # "absent")
      /\ worker' \in {worker, "boot", "idle"}
  BY ReaperFrameHolds
<1>2. \A x \in Execs : Told(x)' = Told(x) BY <1>1 DEF Told
<1> QED BY <1>1, <1>2 DEF StopStands, StopIsHonored

\* The handler keeps it: it sees the intent before the final event, and takes it back
\* once the status is committed.
LEMMA HandlerKeepsStop ==
  ASSUME TypeOK, Basics, StopStands, "os" \notin Faults, Handle \/ RunFails \/ TimeOut
  PROVE  StopStands'
<1> USE DEF Goto, Leave, NoFault
<1>1. PICK c \in Execs : c = cur BY HandlerFrameHolds
<1>2. /\ UNCHANGED stopReq
      /\ \A x \in Execs : x # c => row'[x] = row[x]
      /\ row'[c] \in {row[c], "absent"} \cup Terminal
      /\ row[c] = "absent" => row'[c] = "absent"
      /\ worker' # "idle" => cur' = c
      /\ stream \in [Execs -> Seq(Event)] /\ starts \in [Execs -> Nat]
  BY <1>1, HandlerFrameHolds, RunTypes
<1>3. "pending" \notin Terminal BY DEF Terminal
<1>4. \/ UNCHANGED <<stream, starts, intent>>
      \/ Begin \/ TellMissing \/ CancelTell \/ CancelClear
      \/ \E s \in {"completed", "failed"} : Announce(s)
  BY DEF Handle, Take, NoticeCancel, Commit, ExpireStream, CancelCommit, Fail, ForceFail, Release,
         Settle, RunFails, TimeOut
<1>5. starts' = starts \/ (Begin /\ starts' = [starts EXCEPT ![c] = @ + 1])
  BY <1>1, <1>4 DEF Begin, TellMissing, CancelTell, CancelClear, Announce
<1>6. \A x \in Execs : starts[x] # 0 => starts'[x] # 0
  <2>1. starts[c] \in Nat BY <1>2
  <2> QED BY <1>2, <1>5, <2>1
<1>7. \A x \in Execs : "completed" \in Told(x)' =>
         "completed" \in Told(x) \/ (Announce("completed") /\ x = c)
  <2>1. CASE UNCHANGED stream BY <2>1 DEF Told
  <2>2. ASSUME NEW v \in {"error", "stopped", "failed"}, Tell(cur, v)
        PROVE  \A x \in Execs : "completed" \in Told(x)' => "completed" \in Told(x)
    <3>1. v \in Event /\ v # "completed" BY <2>2 DEF Event, Terminal
    <3> QED BY <1>1, <1>2, <2>2, <3>1, TellAdds
  <2>3. CASE Announce("completed")
    <3>1. Tell(c, "completed") /\ "completed" \in Event
      BY <1>1, <2>3 DEF Announce, Event, Terminal
    <3> QED BY <1>2, <2>3, <3>1, TellAdds
  <2>4. \/ UNCHANGED stream \/ Announce("completed")
        \/ \E v \in {"error", "stopped", "failed"} : Tell(cur, v)
    BY <1>4 DEF Begin, TellMissing, CancelTell, CancelClear, Announce
  <2> QED BY <2>1, <2>2, <2>3, <2>4
<1>8. Announce("completed") => open /\ starts[c] # 0 /\ stopReq[c] # "early"
  <2> SUFFICES ASSUME Announce("completed") PROVE starts[c] # 0 /\ stopReq[c] # "early"
    BY DEF Announce
  <2>1. open /\ worker = "running" /\ c \notin intent
    BY <1>1 DEF Announce, IntentOverlooked, Fault
  <2> QED BY <1>1, <2>1 DEF StopStands
<1>9. \A x \in Execs : "completed" \in Told(x)' => starts'[x] # 0
  BY <1>6, <1>7, <1>8 DEF StopStands
<1>10. StopIsHonored' BY <1>2, <1>7, <1>8 DEF StopStands, StopIsHonored
<1>11. open' => starts'[cur'] # 0
  <2> SUFFICES ASSUME open' PROVE starts'[cur'] # 0 OBVIOUS
  <2>1. open \/ (Begin /\ starts' = [starts EXCEPT ![c] = @ + 1])
    BY <1>1 DEF Handle, Take, Begin, NoticeCancel, TellMissing, Announce, Commit, ExpireStream,
                CancelTell, CancelCommit, CancelClear, Fail, ForceFail, Release, Settle,
                RunFails, TimeOut, CommitOr
  <2>2. cur' = c
    <3>1. Basics' BY HandlerKeepsBasics
    <3> QED BY <1>2, <3>1 DEF Basics
  <2>3. CASE open BY <1>1, <1>6, <2>2, <2>3 DEF StopStands
  <2>4. CASE starts' = [starts EXCEPT ![c] = @ + 1] BY <1>2, <2>2, <2>4
  <2> QED BY <2>1, <2>3, <2>4
<1>12. ASSUME NEW x \in Execs, stopReq'[x] = "early", x \notin intent'
       PROVE  /\ row'[x] # "pending"
              /\ worker' = "taken" /\ x = cur' => row'[x] = "absent"
              /\ worker' = "running" /\ x = cur' => ~open'
  <2>1. CASE x \notin intent
    <3>1. /\ row[x] # "pending"
          /\ worker = "taken" /\ x = c => row[x] = "absent"
          /\ worker = "running" /\ x = c => ~open
      BY <1>1, <1>2, <1>12, <2>1 DEF StopStands
    <3>2. row'[x] # "pending" BY <1>2, <1>3, <3>1
    <3>3. ASSUME worker' = "taken", x = cur' PROVE row'[x] = "absent"
      <4>1. x = c BY <1>2, <3>3
      <4>2. Take
        BY <3>3 DEF Handle, Take, Begin, NoticeCancel, TellMissing, Announce, Commit, ExpireStream,
                    CancelTell, CancelCommit, CancelClear, Fail, ForceFail, Release, Settle,
                    RunFails, TimeOut, CommitOr
      <4>3. row[c] \notin Terminal /\ row' = row BY <1>1, <3>3, <4>2 DEF Take
      <4> QED BY <3>1, <4>1, <4>3, RunTypes
    <3>4. ASSUME worker' = "running", x = cur' PROVE ~open'
      <4>1. x = c BY <1>2, <3>4
      <4>2. Begin
        BY <3>4 DEF Handle, Take, Begin, NoticeCancel, TellMissing, Announce, Commit, ExpireStream,
                    CancelTell, CancelCommit, CancelClear, Fail, ForceFail, Release, Settle,
                    RunFails, TimeOut, CommitOr
      <4> QED BY <1>1, <3>1, <3>4, <4>1, <4>2 DEF Begin
    <3> QED BY <3>2, <3>3, <3>4
  <2>2. CASE x \in intent
    <3>1. CancelClear /\ x = c
      BY <1>1, <1>4, <1>12, <2>2 DEF Begin, TellMissing, CancelTell, CancelClear, Announce
    <3>2. worker = "clearing" /\ worker' = "committed" /\ row[c] # "pending"
      BY <1>1, <3>1 DEF CancelClear, Basics
    <3> QED BY <1>2, <1>3, <3>1, <3>2
  <2> QED BY <2>1, <2>2
<1> QED BY <1>9, <1>10, <1>11, <1>12 DEF StopStands

(***************************************************************************)
(* An execution that was stopped before it began does not complete, as     *)
(* long as its intent does not expire and no OSError hides it: whatever    *)
(* crashes, timeouts, retries, reapers and resumes happen meanwhile, and   *)
(* whatever else Redis and the database refuse.                            *)
(***************************************************************************)
THEOREM StoppedInTime ==
  ASSUME Expiring = {}, "os" \notin Faults
  PROVE  Spec => []StopIsHonored
<1>1. Init => StopStands
  <2>1. Init => \A e \in Execs : Told(e) = {}
    <3> SUFFICES ASSUME Init, NEW e \in Execs PROVE Told(e) = {} OBVIOUS
    <3>1. stream[e] = <<>> BY DEF Init
    <3> QED BY <3>1, EmptySeq DEF Told
  <2>2. Init => ~open /\ \A e \in Execs : stopReq[e] = "none" BY DEF Init
  <2> QED BY <2>1, <2>2 DEF StopStands, StopIsHonored
<1>2. TypeOK /\ OnceInv /\ StopStands /\ [Next]_vars => StopStands'
  <2> SUFFICES ASSUME TypeOK, Basics, StopStands, [Next]_vars PROVE StopStands' BY DEF OnceInv
  <2>1. CASE Crash \/ Restart
    <3>1. UNCHANGED <<row, stopReq, intent, stream, starts>> /\ worker' \in {"down", "boot"}
          /\ ~open'
      BY <2>1 DEF Crash, Restart, Goto, requestVars
    <3>2. \A e \in Execs : Told(e)' = Told(e) BY <3>1 DEF Told
    <3> QED BY <3>1, <3>2 DEF StopStands, StopIsHonored
  <2>2. CASE UNCHANGED vars
    <3>1. UNCHANGED <<row, stopReq, intent, stream, starts, queue, worker, open>>
      BY <2>2 DEF vars, requestVars, workerVars
    <3>2. cur' = cur /\ \A e \in Execs : Told(e)' = Told(e) BY <3>1 DEF cur, Told
    <3> QED BY <3>1, <3>2 DEF StopStands, StopIsHonored
  <2> QED BY <2>1, <2>2, RequestKeepsStop, ReaperKeepsStop, HandlerKeepsStop DEF Next
<1>3. StopStands => StopIsHonored BY DEF StopStands
<1> QED BY <1>1, <1>2, <1>3, OnceInductive, TypeCorrect, PTL DEF Spec

-----------------------------------------------------------------------------
(* Refinement.                                                             *)

\* Neither a handler timeout nor a Redis failure, which rewrite what is over.
Calm == Reapers = {"boot"} /\ "redis" \notin Faults /\ MaxTimeouts = 0

NothingRewritten == worker \notin {"failing", "forcing"}

ContractStep == [Contract!Next]_<<row, stream>>

\* Telling an event is a step of the contract.
LEMMA TellImplements ==
  ASSUME NEW e \in Execs, NEW v \in Event, Tell(e, v), UNCHANGED row
  PROVE  ContractStep
<1>1. v \in Contract!Terminal \cup {"error"} BY DEF Event, Terminal, Contract!Terminal
<1>2. Contract!Tell(e, v) BY DEF Contract!Tell, Tell
<1> QED BY <1>1, <1>2 DEF ContractStep, Contract!Next

\* Writing a terminal status that was announced is a step of the contract.
LEMMA StatusImplements ==
  ASSUME row \in [Execs -> {"absent", "pending"} \cup Terminal],
         NEW S \in SUBSET Execs, \A e \in S : row[e] \in {"pending", "absent"},
         NEW status \in Terminal,
         status = "completed" => \A e \in S : "completed" \in Told(e),
         SetStatus(S, status), UNCHANGED stream
  PROVE  ContractStep
<1> DEFINE P == {e \in S : row[e] = "pending"}
<1>1. P \in SUBSET Execs /\ status \in Contract!Terminal BY DEF Terminal, Contract!Terminal
<1>2. \A e \in P : row[e] = "pending" OBVIOUS
<1>3. status = "completed" =>
        \A e \in P : \E i \in 1..Len(stream[e]) : stream[e][i] = status
  BY DEF Told
<1>4. row' = [e \in Execs |-> IF e \in P THEN status ELSE row[e]]
  BY DEF SetStatus
<1>5. Contract!Conclude(P, status) BY <1>2, <1>3, <1>4 DEF Contract!Conclude
<1> QED BY <1>1, <1>5 DEF ContractStep, Contract!Next

\* Every step of the handler is a step of the contract or none.
LEMMA HandlerImplements ==
  ASSUME Calm, TypeOK, RecoveryInv, AnnouncedIsTold, NothingRewritten,
         Handle \/ RunFails \/ TimeOut
  PROVE  ContractStep /\ NothingRewritten'
<1>1. row \in [Execs -> {"absent", "pending"} \cup Terminal]
      /\ queue \in Seq(Message) /\ timeouts \in Nat /\ outcome \in {"completed", "failed"}
  BY DEF TypeOK, Calm
<1>2. queue # <<>>
  BY DEF Handle, Take, Begin, NoticeCancel, TellMissing, Announce, Commit, ExpireStream,
         CancelTell, CancelCommit, CancelClear, Fail, ForceFail, Release, Settle, RunFails,
         TimeOut, TypeOK
<1>3. PICK c \in Execs : c = cur BY <1>1, <1>2, CurIsExec
<1>4. ~Fault("redis") BY DEF Calm, Fault
<1>5. ~RunFails BY <1>4 DEF RunFails
<1>6. ~TimeOut
  <2>1. ~(timeouts < MaxTimeouts) BY <1>1 DEF Calm
  <2> QED BY <2>1 DEF TimeOut
<1>7. ~Fail /\ ~ForceFail BY DEF Fail, ForceFail, NothingRewritten
<1>8. NothingRewritten'
  BY <1>4, <1>5, <1>6
  DEF Handle, Take, Begin, NoticeCancel, TellMissing, Announce, Commit, ExpireStream,
      CancelTell, CancelCommit, CancelClear, Fail, ForceFail, Release, Settle, CommitOr,
      Goto, Leave, NothingRewritten
<1>9. {"completed", "failed", "stopped", "error"} \subseteq Event
      /\ {"completed", "failed", "stopped"} \subseteq Terminal
  BY DEF Event, Terminal
<1>10. ASSUME UNCHANGED <<row, stream>> PROVE ContractStep BY <1>10 DEF ContractStep
<1>11. CASE TellMissing BY <1>3, <1>8, <1>9, <1>11, TellImplements DEF TellMissing
<1>12. ASSUME NEW s \in {"completed", "failed"}, Announce(s) PROVE ContractStep
  BY <1>3, <1>9, <1>12, TellImplements DEF Announce
<1>13. CASE CancelTell BY <1>3, <1>8, <1>9, <1>13, TellImplements DEF CancelTell
<1>14. CASE Commit
  <2>1. row[c] = "pending" /\ outcome \in Told(c)
    BY <1>3, <1>14 DEF Commit, RecoveryInv, LockIsHeld, PhaseFitsRow, AnnouncedIsTold
  <2>2. SetStatus({c}, outcome) => ContractStep
    <3> SUFFICES ASSUME SetStatus({c}, outcome) PROVE ContractStep OBVIOUS
    <3>1. PICK v \in Terminal : v = outcome BY <1>1, <1>9
    <3>2. UNCHANGED stream BY <1>14 DEF Commit
    <3> QED BY <1>1, <2>1, <3>1, <3>2, StatusImplements
  <2> QED BY <1>3, <1>8, <1>10, <1>14, <2>2 DEF Commit, CommitOr
<1>15. CASE CancelCommit
  <2>1. row[c] \in {"pending", "absent"}
    BY <1>3, <1>15 DEF CancelCommit, RecoveryInv, LockIsHeld, PhaseFitsRow
  <2>2. SetStatus({c}, "stopped") => ContractStep
    BY <1>1, <1>9, <1>15, <2>1, StatusImplements DEF CancelCommit
  <2> QED BY <1>3, <1>8, <1>10, <1>15, <2>2 DEF CancelCommit, CommitOr
<1>16. CASE CancelClear
  <2>1. row' \in {row, [row EXCEPT ![c] = "absent"]} /\ UNCHANGED stream
    BY <1>3, <1>16 DEF CancelClear
  <2> QED BY <1>8, <2>1 DEF ContractStep, Contract!Next, Contract!Delete
<1>17. CASE Take \/ Begin \/ NoticeCancel \/ ExpireStream \/ Release \/ Settle
  BY <1>8, <1>10, <1>17 DEF Take, Begin, NoticeCancel, ExpireStream, Release, Settle
<1> QED BY <1>5, <1>6, <1>7, <1>8, <1>11, <1>12, <1>13, <1>14, <1>15, <1>16, <1>17 DEF Handle

\* Every step is a step of the contract or none.
LEMMA StepImplements ==
  ASSUME Calm, TypeOK, RecoveryInv, AnnouncedIsTold, NothingRewritten, [Next]_vars
  PROVE  ContractStep /\ NothingRewritten'
<1> USE DEF requestVars, workerVars, reaperVars
<1>1. row \in [Execs -> {"absent", "pending"} \cup Terminal] BY DEF TypeOK
<1>2. ASSUME UNCHANGED <<row, stream>> PROVE ContractStep BY <1>2 DEF ContractStep
<1>3. ASSUME NEW e \in Execs, Request(e) \/ Age(e) \/ Outlive(e) \/ CleanupSlot(e)
      PROVE  ContractStep /\ NothingRewritten'
  <2>1. UNCHANGED worker
    BY <1>3 DEF Request, Create, Acquire, Dispatch, RequestDies, Resume, StopCheck, StopSet,
                Disconnect, IntentExpires, DeleteConversation, Age, Outlive, CleanupSlot
  <2>2. CASE Create(e)
    <3>1. Contract!Create(e)
      BY <2>2 DEF Create, Contract!Create, RecoveryInv, NewIsNowhere
    <3> QED BY <2>1, <3>1 DEF ContractStep, Contract!Next, NothingRewritten
  <2>3. CASE DeleteConversation(e)
    <3>1. Contract!Delete(e) BY <2>3 DEF DeleteConversation, Contract!Delete
    <3> QED BY <2>1, <3>1 DEF ContractStep, Contract!Next, NothingRewritten
  <2>4. CASE ~Create(e) /\ ~DeleteConversation(e)
    <3>1. UNCHANGED <<row, stream>>
      BY <1>3, <2>4 DEF Request, Acquire, Dispatch, RequestDies, Resume, StopCheck, StopSet,
                        Disconnect, IntentExpires, Age, Outlive, CleanupSlot
    <3> QED BY <1>2, <2>1, <3>1 DEF NothingRewritten
  <2> QED BY <2>2, <2>3, <2>4
<1>4. ASSUME Reap("boot") PROVE ContractStep /\ NothingRewritten'
  <2> USE DEF ReaperGoto, ReaperFrame
  <2>1. UNCHANGED stream /\ worker' \in {worker, "idle"}
    BY <1>4 DEF Reap, ReapSelect, ReapFail, ReapGivesUp, ReapRelease
  <2>2. CASE ReapFail("boot")
    <3>1. found["boot"] \in SUBSET Execs BY ReapersAssumption DEF TypeOK
    <3>2. \A e \in found["boot"] : row[e] \in {"pending", "absent"}
      BY <2>2 DEF ReapFail, RecoveryInv, RecoveryKnows
    <3>3. PICK S \in SUBSET Execs : S = found["boot"] BY <3>1
    <3>4. SetStatus(S, "failed") /\ "failed" \in Terminal
      BY <2>2, <3>3 DEF ReapFail, Terminal
    <3>5. ContractStep BY <1>1, <2>1, <3>2, <3>3, <3>4, StatusImplements
    <3> QED BY <2>1, <3>5 DEF NothingRewritten
  <2>3. CASE UNCHANGED row BY <1>2, <2>1, <2>3 DEF NothingRewritten
  <2> QED BY <1>4, <2>2, <2>3 DEF Reap, ReapSelect, ReapGivesUp, ReapRelease
<1>5. CASE Crash \/ Restart \/ UNCHANGED vars
  <2>1. UNCHANGED <<row, stream>> /\ worker' \in {worker, "down", "boot"}
    BY <1>5 DEF Crash, Restart, Goto, vars
  <2> QED BY <1>2, <2>1 DEF NothingRewritten
<1> QED BY <1>3, <1>4, <1>5, HandlerImplements DEF Next, Calm

(***************************************************************************)
(* With its own recovery as the only reaper, and with neither a handler    *)
(* timeout nor a Redis failure, every execution keeps its contract: it     *)
(* ends once, in one status, and COMPLETED only after its answer.          *)
(***************************************************************************)
THEOREM KeepsContract ==
  ASSUME Calm
  PROVE  Spec => ImplementsContract
<1>1. Init => Contract!Init /\ NothingRewritten
  BY DEF Init, Contract!Init, NothingRewritten
<1>2. TypeOK /\ RecoveryInv /\ AnnouncedIsTold /\ NothingRewritten /\ [Next]_vars
      => [Contract!Next]_<<row, stream>> /\ NothingRewritten'
  BY StepImplements DEF ContractStep
<1>3. Spec => []RecoveryInv BY RecoveryInductive DEF Calm
<1> QED BY <1>1, <1>2, <1>3, TypeCorrect, AnnouncedFirst, PTL
        DEF Spec, ImplementsContract, Contract!Spec
=============================================================================
