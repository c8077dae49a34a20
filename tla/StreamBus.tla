----------------------------- MODULE StreamBus -----------------------------
(***************************************************************************)
(* RedisStreamBus (engine/server/src/infra/redis_streams.py): one stream,  *)
(* its consumer group, and the one consumer every group of the worker has. *)
(* Redis keeps the stream, the group's position and the list of entries    *)
(* delivered but not acknowledged; the consumer keeps the batch it read,   *)
(* and loses it in a crash or when an exception leaves the batch loop.     *)
(***************************************************************************)
EXTENDS Integers, Sequences, FiniteSets

CONSTANTS
    Tasks,        \* what producers publish, each once
    NoData,       \* the payload of a pending entry that was trimmed away
    MaxRetries,   \* max_retries
    BatchSize,    \* count of XREADGROUP ">"
    RecoverSize,  \* count of XREADGROUP "0"
    Maxlen,       \* STREAM_MAXLEN
    Faults,       \* kinds of Redis error that happen: "os" is caught where the
                  \* code catches (ConnectionError, OSError); "redis" stands for
                  \* redis.exceptions.*, which are neither
    MaxFaults,    \* bound: Redis errors in a behaviour
    MaxCrashes    \* bound: crashes in a behaviour

ASSUME NoDataAssumption == NoData \notin [task : Tasks, retry : 0..MaxRetries]
ASSUME SizeAssumption ==
    /\ {MaxRetries, MaxFaults, MaxCrashes} \subseteq Nat
    /\ {BatchSize, RecoverSize, Maxlen} \subseteq Nat \ {0}
    /\ BatchSize <= RecoverSize
ASSUME FaultsAssumption == Faults \subseteq {"os", "redis"}

VARIABLES
    log,        \* every entry ever added to the stream, oldest first
    trimmed,    \* how many of the oldest MAXLEN has removed
    read,       \* the group's last delivered entry
    pel,        \* delivered, not acknowledged
    phase,      \* where the consumer is
    recovering, \* it is inside _recover_pending
    batch,      \* what it has read and not finished
    dlq,        \* tasks in the dead letter queue
    published, runs, failures, dropped,   \* history
    faults, crashes                       \* used up

redisVars == <<log, trimmed, read, pel, dlq>>
consumerVars == <<phase, recovering, batch>>
history == <<published, runs, failures, dropped>>
vars == <<redisVars, consumerVars, history, faults, crashes>>

Entry == [task : Tasks, retry : 0..MaxRetries]

TypeOK ==
    /\ log \in Seq(Entry)
    /\ trimmed \in 0..Len(log) /\ read \in 0..Len(log)
    /\ pel \in SUBSET (1..read)
    /\ phase \in {"down", "boot", "recover", "poll", "next", "settle", "ack", "dead"}
    /\ recovering \in BOOLEAN
    /\ batch \in Seq([id : 1..read, data : Entry \cup {NoData}])
    /\ dlq \in SUBSET Tasks /\ dropped \in SUBSET Tasks /\ published \in SUBSET Tasks
    /\ runs \in [Tasks -> Nat] /\ failures \in [Tasks -> Nat]
    /\ faults \in 0..MaxFaults /\ crashes \in 0..MaxCrashes

Init ==
    /\ log = <<>> /\ trimmed = 0 /\ read = 0 /\ pel = {} /\ dlq = {}
    /\ phase = "down" /\ recovering = FALSE /\ batch = <<>>
    /\ published = {} /\ dropped = {}
    /\ runs = [t \in Tasks |-> 0] /\ failures = [t \in Tasks |-> 0]
    /\ faults = 0 /\ crashes = 0

-----------------------------------------------------------------------------
(* Redis.                                                                  *)

\* XADD ... MAXLEN ~: the stream may keep more than Maxlen entries, never fewer.
XAdd(entry, copies) ==
    /\ log' = log \o [i \in 1..copies |-> entry]
    /\ trimmed' \in {trimmed} \cup
          (IF Len(log') - Maxlen > trimmed THEN {Len(log') - Maxlen} ELSE {})

\* The entries "i" of the stream as XREADGROUP hands them over.
Delivered(ids) == [i \in 1..Len(ids) |->
    [id |-> ids[i], data |-> IF ids[i] <= trimmed THEN NoData ELSE log[ids[i]]]]

\* The n smallest elements of S, in order.
Oldest(S, n) ==
    LET k == IF Cardinality(S) < n THEN Cardinality(S) ELSE n
    IN  [i \in 1..k |-> CHOOSE x \in S : Cardinality({y \in S : y <= x}) = i]

\* What XREADGROUP ">" delivers: it skips what was trimmed before it was read.
Fresh == Oldest({i \in 1..Len(log) : i > read /\ i > trimmed}, BatchSize)

DeliverFresh ==
    /\ read' = Fresh[Len(Fresh)]
    /\ pel' = pel \cup {Fresh[i] : i \in 1..Len(Fresh)}

Fault(kind) ==
    /\ kind \in Faults
    /\ faults < MaxFaults
    /\ faults' = faults + 1
    /\ UNCHANGED crashes

NoFault == UNCHANGED <<faults, crashes>>

-----------------------------------------------------------------------------
(* Producers.                                                              *)

Publish(t) ==
    /\ t \notin published
    /\ published' = published \cup {t}
    /\ XAdd([task |-> t, retry |-> 0], 1)
    /\ UNCHANGED <<read, pel, dlq, consumerVars, runs, failures, dropped>>
    /\ NoFault

-----------------------------------------------------------------------------
(* The consumer: subscribe, _recover_pending and _process_entry.           *)

GoTo(p, isRecovering, b) == phase' = p /\ recovering' = isRecovering /\ batch' = b

\* An exception nothing in _process_entry caught.  The subscribe loop logs it and
\* reads on; _recover_pending lets it end the consumer while the process lives.
Escape == GoTo(IF recovering THEN "dead" ELSE "poll", FALSE, <<>>)

Restart ==
    /\ phase = "down"
    /\ GoTo("boot", FALSE, <<>>)
    /\ UNCHANGED <<redisVars, history>> /\ NoFault

EnsureGroup ==
    /\ phase = "boot"
    /\ \/ GoTo("recover", TRUE, <<>>) /\ NoFault
       \/ GoTo("dead", FALSE, <<>>) /\ \E k \in Faults : Fault(k)
    /\ UNCHANGED <<redisVars, history>>

\* Mistake: the consumer subscribes without taking up what is pending.
ReadNothing ==
    /\ phase = "recover"
    /\ GoTo("poll", FALSE, <<>>)
    /\ UNCHANGED <<redisVars, history>> /\ NoFault

ReadPending ==
    /\ phase = "recover"
    /\ \/ GoTo("next", TRUE, Delivered(Oldest(pel, RecoverSize))) /\ NoFault
       \/ GoTo("poll", FALSE, <<>>) /\ Fault("os")
       \/ GoTo("dead", FALSE, <<>>) /\ Fault("redis")
    /\ UNCHANGED <<redisVars, history>>

Poll ==
    /\ phase = "poll"
    /\ Fresh # <<>>
    /\ GoTo("next", FALSE, Delivered(Fresh))
    /\ DeliverFresh
    /\ UNCHANGED <<log, trimmed, dlq, history>> /\ NoFault

\* XREADGROUP raised; whether Redis had served it by then is not known.
PollFails ==
    /\ phase = "poll"
    /\ \E k \in Faults : Fault(k)
    /\ \/ Fresh # <<>> /\ DeliverFresh
       \/ UNCHANGED <<read, pel>>
    /\ UNCHANGED <<log, trimmed, dlq, consumerVars, history>>

EndOfBatch ==
    /\ phase = "next" /\ batch = <<>>
    /\ GoTo("poll", FALSE, <<>>)
    /\ UNCHANGED <<redisVars, history>> /\ NoFault

Current == Head(batch)

\* A pending entry whose data is gone is acknowledged without a handler.
AckEmpty ==
    /\ phase = "next" /\ batch # <<>> /\ Current.data = NoData
    /\ \/ GoTo("next", TRUE, Tail(batch)) /\ pel' = pel \ {Current.id} /\ NoFault
       \/ GoTo("poll", FALSE, <<>>) /\ UNCHANGED pel /\ Fault("os")
       \/ GoTo("dead", FALSE, <<>>) /\ UNCHANGED pel /\ Fault("redis")
    /\ UNCHANGED <<log, trimmed, read, dlq, history>>

\* Mistake: the path of a successful handler falls through to the retry.
ReturnsAndRetries ==
    /\ phase = "next" /\ batch # <<>> /\ Current.data # NoData
    /\ runs' = [runs EXCEPT ![Current.data.task] = @ + 1]
    /\ GoTo("settle", recovering, batch)
    /\ UNCHANGED <<redisVars, published, failures, dropped>> /\ NoFault

HandlerReturns ==
    /\ phase = "next" /\ batch # <<>> /\ Current.data # NoData
    /\ runs' = [runs EXCEPT ![Current.data.task] = @ + 1]
    /\ GoTo("ack", recovering, batch)
    /\ UNCHANGED <<redisVars, published, failures, dropped>> /\ NoFault

\* Mistake: the message of a handler that raised is acknowledged all the same.
RaisesAndAcks ==
    /\ phase = "next" /\ batch # <<>> /\ Current.data # NoData
    /\ failures' = [failures EXCEPT ![Current.data.task] = @ + 1]
    /\ GoTo("ack", recovering, batch)
    /\ UNCHANGED <<redisVars, published, runs, dropped>> /\ NoFault

HandlerRaises ==
    /\ phase = "next" /\ batch # <<>> /\ Current.data # NoData
    /\ failures' = [failures EXCEPT ![Current.data.task] = @ + 1]
    /\ GoTo("settle", recovering, batch)
    /\ UNCHANGED <<redisVars, published, runs, dropped>> /\ NoFault

\* Mistake: one retry too few, and one too many.
WriteTooEarly(entry, copies) ==
    IF entry.retry + 1 >= MaxRetries
    THEN /\ dlq' = IF copies > 0 THEN dlq \cup {entry.task} ELSE dlq
         /\ UNCHANGED <<log, trimmed>>
    ELSE /\ XAdd([entry EXCEPT !.retry = @ + 1], copies)
         /\ UNCHANGED dlq

WriteTooLate(entry, copies) ==
    IF entry.retry > MaxRetries
    THEN /\ dlq' = IF copies > 0 THEN dlq \cup {entry.task} ELSE dlq
         /\ UNCHANGED <<log, trimmed>>
    ELSE /\ XAdd([entry EXCEPT !.retry = @ + 1], copies)
         /\ UNCHANGED dlq

\* Where a failed entry goes, written "copies" times.
Write(entry, copies) ==
    IF entry.retry >= MaxRetries
    THEN /\ dlq' = IF copies > 0 THEN dlq \cup {entry.task} ELSE dlq
         /\ UNCHANGED <<log, trimmed>>
    ELSE /\ XAdd([entry EXCEPT !.retry = @ + 1], copies)
         /\ UNCHANGED dlq

\* _safe_xadd.  A failed write may have reached Redis; the second attempt repeats it.
Settle ==
    /\ phase = "settle"
    /\ LET e == Current.data IN
       \/ /\ Write(e, 1) /\ NoFault
          /\ GoTo("ack", recovering, batch) /\ UNCHANGED dropped
       \/ /\ \E n \in 1..2 : Write(e, n)
          /\ Fault("os")
          /\ GoTo("ack", recovering, batch) /\ UNCHANGED dropped
       \/ /\ Write(e, 0) /\ Fault("os")
          /\ dropped' = dropped \cup {e.task}
          /\ GoTo("ack", recovering, batch)
       \/ /\ \E n \in 0..1 : Write(e, n)
          /\ Fault("redis") /\ Escape /\ UNCHANGED dropped
    /\ UNCHANGED <<read, pel, published, runs, failures>>

\* _safe_xack: three failed attempts are logged and forgotten.
Ack ==
    /\ phase = "ack"
    /\ \/ /\ pel' = pel \ {Current.id} /\ NoFault
          /\ GoTo("next", recovering, Tail(batch))
       \/ /\ pel' \in {pel, pel \ {Current.id}} /\ Fault("os")
          /\ GoTo("next", recovering, Tail(batch))
       \/ /\ pel' \in {pel, pel \ {Current.id}} /\ Fault("redis")
          /\ Escape
    /\ UNCHANGED <<log, trimmed, read, dlq, history>>

Crash ==
    /\ phase # "down"
    /\ crashes < MaxCrashes
    /\ crashes' = crashes + 1
    /\ GoTo("down", FALSE, <<>>)
    /\ UNCHANGED <<redisVars, history, faults>>

Consume ==
    \/ EnsureGroup \/ ReadPending \/ Poll \/ EndOfBatch \/ AckEmpty
    \/ HandlerReturns \/ HandlerRaises \/ Settle \/ Ack

Next ==
    \/ \E t \in Tasks : Publish(t)
    \/ Restart \/ Consume \/ PollFails \/ Crash

Spec == Init /\ [][Next]_vars

\* The event loop runs the consumer; the container is restarted when it dies.
FairSpec == Spec /\ WF_vars(Consume) /\ WF_vars(Restart)

-----------------------------------------------------------------------------
Settled(t) == runs[t] > 0 \/ t \in dlq \/ t \in dropped

\* Some entry of t will still reach a handler: one Redis keeps, unread or pending,
\* or one the consumer has in memory.
Outstanding(t) ==
    \/ \E i \in (trimmed + 1)..Len(log) : log[i].task = t /\ (i > read \/ i \in pel)
    \/ \E i \in 1..Len(batch) : batch[i].data # NoData /\ batch[i].data.task = t

\* XADD has removed an entry of t to keep the stream at Maxlen.
Trimmed(t) == \E i \in 1..trimmed : log[i].task = t

(***************************************************************************)
(* README.md, line 542: "at-least-once delivery".  A published task was    *)
(* handled, or gave up into the DLQ, or was dropped with an error in the   *)
(* log, or is still on its way to a handler.  The one other way out is the *)
(* trimming of a stream that grew past STREAM_MAXLEN, read or not.         *)
(***************************************************************************)
NothingLost == \A t \in published : Settled(t) \/ Outstanding(t) \/ Trimmed(t)

(***************************************************************************)
(* README.md, line 544: "3 retries per message, then moved to DLQ".  No    *)
(* task reaches the DLQ with a retry left, whatever crashes and errors     *)
(* duplicate its entries on the way.                                       *)
(***************************************************************************)
RetriedBeforeDLQ == \A t \in dlq : failures[t] > MaxRetries

(***************************************************************************)
(* A task whose handler succeeded is handed over again only on account of  *)
(* a crash or of a Redis error: what the handlers must tolerate is bounded *)
(* by what went wrong around them.                                         *)
(***************************************************************************)
DuplicatesNeedAFault == \A t \in Tasks : runs[t] <= 1 + crashes + faults

(***************************************************************************)
(* Every published task is eventually handled, or moved to the DLQ, or     *)
(* trimmed away: a restart takes up what the crash left pending.  Where a  *)
(* Redis error struck, an entry may stay pending until the next restart.   *)
(***************************************************************************)
EveryTaskIsSettled ==
    \A t \in Tasks : t \in published ~> Settled(t) \/ Trimmed(t) \/ faults > 0

\* The entry whose handler has just failed, the one that is done with, and those
\* that can still be handed over.
Failing == IF phase = "settle" THEN {Current.id} ELSE {}
Done == IF phase = "ack" THEN {Current.id} ELSE {}
Good == {i \in 1..Len(log) : i > read \/ i \in pel} \ Done

Queue == INSTANCE TaskQueue WITH
    live <- Good, failed <- Failing, expired <- trimmed, mishaps <- faults + crashes

(***************************************************************************)
(* The bus implements a queue of tickets: an entry that is acknowledged    *)
(* was handled, or written again, or buried, after a failure of its own,   *)
(* and each crash or Redis error repeats no more than one entry.           *)
(***************************************************************************)
ImplementsQueue == Queue!Spec
=============================================================================
