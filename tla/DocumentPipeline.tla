-------------------------- MODULE DocumentPipeline --------------------------
(***************************************************************************)
(* A document of a knowledge collection: the file in the object store, its *)
(* row and its chunks in PostgreSQL, its vectors in Qdrant.  Users upload, *)
(* reprocess and delete; the consumer of tasks:documents extracts, embeds  *)
(* and stores, and is retried by the bus.  No transaction spans the three  *)
(* stores, and chunks get new ids each time a document is processed: the   *)
(* chunks of one pass are a version.                                       *)
(*                                                                         *)
(* Chunks refer to their document by a foreign key without a cascade.  Who *)
(* has inserted some holds a share lock of the row, which a DELETE waits   *)
(* for; who has updated or deleted the row holds it alone.                 *)
(***************************************************************************)
EXTENDS Naturals, Sequences, FiniteSets

CONSTANTS
    Docs,        \* documents, each in a collection of its own
    Requests,    \* requests of users
    NoDoc,       \* no document
    MaxRetries,  \* max_retries of the bus (3 in the code)
    MaxFaults,   \* bound: calls that fail, requests that die
    MaxCrashes   \* bound: crashes of the worker

ASSUME NoDocAssumption == NoDoc \notin Docs
ASSUME DocumentBoundsAssumption == {MaxRetries, MaxFaults, MaxCrashes} \subseteq Nat

VARIABLES
    row,       \* the committed status of the document
    files,     \* documents whose object is in the store
    chunks,    \* the versions with committed rows
    vectors,   \* the versions with points in Qdrant
    last,      \* the last version
    queue,     \* tasks:documents, what is in hand at its head
    worker,    \* where the handler is, and the version it makes
    request,   \* per request: its document, its await, the chunks it deletes
    left,      \* history: documents somebody left half way
    faults, crashes

stores == <<row, files, chunks, vectors, last>>
used == <<faults, crashes>>
vars == <<stores, queue, worker, request, left, used>>

Idle == [pc |-> "idle", version |-> 0]
Unborn == [doc |-> NoDoc, pc |-> "new", doomed |-> {}]

\* Passes over a document: one for each message about it, and its repetitions.
Versions == 0..(Cardinality(Requests) * (MaxRetries + 1) + MaxCrashes)

TypeOK ==
    /\ row \in [Docs -> {"none", "processing", "ready", "failed", "deleted"}]
    /\ files \subseteq Docs
    /\ chunks \in [Docs -> SUBSET Versions] /\ vectors \in [Docs -> SUBSET Versions]
    /\ last \in [Docs -> Versions]
    /\ queue \in Seq([doc : Docs, retry : 0..MaxRetries])
    /\ worker \in [pc : {"idle", "embedded", "flushed", "upserted", "updated", "raised", "done"},
                   version : Versions]
    /\ worker.pc # "idle" => queue # <<>>
    /\ request \in [Requests ->
          [doc : Docs \cup {NoDoc}, doomed : SUBSET Versions,
           pc : {"new", "stored", "cleaned", "swept", "updated", "publish",
                 "loading", "loaded", "removed", "forget", "over"}]]
    /\ left \subseteq Docs
    /\ faults \in 0..MaxFaults /\ crashes \in 0..MaxCrashes

Init ==
    /\ row = [d \in Docs |-> "none"] /\ files = {}
    /\ chunks = [d \in Docs |-> {}] /\ vectors = [d \in Docs |-> {}]
    /\ last = [d \in Docs |-> 0]
    /\ queue = <<>> /\ worker = Idle
    /\ request = [q \in Requests |-> Unborn]
    /\ left = {} /\ faults = 0 /\ crashes = 0

Fault == faults < MaxFaults /\ faults' = faults + 1 /\ UNCHANGED crashes

Exists(d) == row[d] \notin {"none", "deleted"}

Job == Head(queue).doc
InHand(d) == worker.pc # "idle" /\ Job = d

\* Who has updated or deleted the row and not committed yet.
Locked(d) ==
    \/ InHand(d) /\ worker.pc = "updated"
    \/ \E q \in Requests : request[q].doc = d /\ request[q].pc \in {"updated", "removed"}

\* Who has inserted chunks of it and not committed yet.
Shared(d) == InHand(d) /\ worker.pc \in {"flushed", "upserted", "updated"}

-----------------------------------------------------------------------------
(* Requests of users.                                                      *)

\* Requests are named in the order they begin.
Begins(q, d, p) ==
    /\ request[q].pc = "new" /\ q = CHOOSE first \in Requests : request[first].pc = "new"
    /\ request' = [request EXCEPT ![q] = [doc |-> d, pc |-> p, doomed |-> {}]]

\* Nothing is left of a request that is over.
Goto(q, p) ==
    request' = [request EXCEPT ![q] = IF p = "over" THEN [Unborn EXCEPT !.pc = p]
                                                    ELSE [@ EXCEPT !.pc = p]]

\* The object first, then the row, then the message.
Store(q, d) ==
    /\ Begins(q, d, "stored") /\ row[d] = "none" /\ d \notin files
    /\ files' = files \cup {d}
    /\ UNCHANGED <<row, chunks, vectors, last, queue, worker, left, used>>

CommitUpload(q) ==
    /\ request[q].pc = "stored"
    /\ row' = [row EXCEPT ![request[q].doc] = "processing"]
    /\ Goto(q, "publish")
    /\ UNCHANGED <<files, chunks, vectors, last, queue, worker, left, used>>

\* Mistake: the vectors of the old version are deleted after the message is sent.
PublishThenClean(q) ==
    /\ request[q].pc = "publish"
    /\ queue' = Append(queue, [doc |-> request[q].doc, retry |-> 0])
    /\ Goto(q, "forget")
    /\ UNCHANGED <<stores, worker, left, used>>

Publish(q) ==
    /\ request[q].pc = "publish"
    /\ queue' = Append(queue, [doc |-> request[q].doc, retry |-> 0])
    /\ Goto(q, "over")
    /\ UNCHANGED <<stores, worker, left, used>>

\* Reprocess deletes the vectors before its transaction; errors it knows are logged.
Clean(q, d) ==
    /\ Begins(q, d, "cleaned") /\ Exists(d)
    /\ \/ vectors' = [vectors EXCEPT ![d] = {}] /\ UNCHANGED used
       \/ UNCHANGED vectors /\ Fault
    /\ UNCHANGED <<row, files, chunks, last, queue, worker, left>>

\* DELETE takes the chunks that are committed by now, no others.
Sweep(q) ==
    /\ request[q].pc = "cleaned"
    /\ request' = [request EXCEPT ![q].pc = "swept", ![q].doomed = chunks[request[q].doc]]
    /\ UNCHANGED <<stores, queue, worker, left, used>>

\* A row that is gone matches nothing, and the refresh after the commit raises.
Reset(q) ==
    LET d == request[q].doc IN
    /\ request[q].pc = "swept" /\ ~Locked(d)
    /\ Goto(q, IF Exists(d) THEN "updated" ELSE "over")
    /\ UNCHANGED <<stores, queue, worker, left, used>>

CommitReset(q) ==
    LET d == request[q].doc IN
    /\ request[q].pc = "updated"
    /\ chunks' = [chunks EXCEPT ![d] = @ \ request[q].doomed]
    /\ row' = [row EXCEPT ![d] = "processing"]
    /\ Goto(q, "publish")
    /\ UNCHANGED <<files, vectors, last, queue, worker, left, used>>

\* Deleting a document begins with its object; deleting the collection leaves it.
BeginDelete(q, d, objects) ==
    /\ Begins(q, d, "loading") /\ Exists(d)
    /\ files' = files \ objects
    /\ UNCHANGED <<row, chunks, vectors, last, queue, worker, left, used>>

\* The cascade of the session: it loads the chunks it will delete with the document.
Load(q) ==
    /\ request[q].pc = "loading"
    /\ request' = [request EXCEPT ![q].pc = "loaded", ![q].doomed = chunks[request[q].doc]]
    /\ UNCHANGED <<stores, queue, worker, left, used>>

\* DELETE waits for whoever uses the row; chunks it has not loaded make it fail.
RemoveRow(q) ==
    LET d == request[q].doc IN
    /\ request[q].pc = "loaded" /\ ~Locked(d) /\ ~Shared(d)
    /\ Goto(q, IF chunks[d] \subseteq request[q].doomed THEN "removed" ELSE "over")
    /\ UNCHANGED <<stores, queue, worker, left, used>>

CommitRemove(q) ==
    LET d == request[q].doc IN
    /\ request[q].pc = "removed"
    /\ row' = [row EXCEPT ![d] = "deleted"] /\ chunks' = [chunks EXCEPT ![d] = {}]
    /\ Goto(q, "forget")
    /\ UNCHANGED <<files, vectors, last, queue, worker, left, used>>

\* Its vectors go last; an error is logged, and they stay.
Forget(q) ==
    LET d == request[q].doc IN
    /\ request[q].pc = "forget"
    /\ Goto(q, "over")
    /\ \/ vectors' = [vectors EXCEPT ![d] = {}] /\ UNCHANGED <<left, used>>
       \/ left' = left \cup {d} /\ UNCHANGED vectors /\ Fault
    /\ UNCHANGED <<row, files, chunks, last, queue, worker>>

\* The server or an error ends the request between two awaits; what it has not
\* committed is rolled back.
Die(q) ==
    /\ request[q].pc \notin {"new", "over"} /\ Fault
    /\ Goto(q, "over")
    /\ left' = left \cup {request[q].doc}
    /\ UNCHANGED <<stores, queue, worker>>

-----------------------------------------------------------------------------
(* document_process_handler, under the bus.                                *)

At(p) == worker' = [worker EXCEPT !.pc = p]

\* Download, extract, embed.  An object that is missing is an error the handler
\* does not know: the bus retries, and the row stays as it is.
Take ==
    /\ worker.pc = "idle" /\ queue # <<>>
    /\ At(IF Job \in files THEN "embedded" ELSE "raised")
    /\ UNCHANGED <<stores, queue, request, left, used>>

\* Errors the handler knows: FAILED is committed with whatever the session holds.
FailWith(versions) ==
    /\ ~Locked(Job)
    /\ At("raised")
    /\ row' = [row EXCEPT ![Job] = IF Exists(Job) THEN "failed" ELSE @]
    /\ chunks' = [chunks EXCEPT ![Job] = @ \cup versions]
    /\ Fault

\* Errors the handler does not know, some of a parser's among them, change nothing.
FailUnknown == At("raised") /\ Fault /\ UNCHANGED <<row, chunks>>

EmbedFails ==
    /\ worker.pc = "embedded"
    /\ FailWith({}) \/ FailUnknown
    /\ UNCHANGED <<files, vectors, last, queue, request, left>>

Begin(p) ==
    /\ worker' = [pc |-> p, version |-> last[Job] + 1]
    /\ last' = [last EXCEPT ![Job] = @ + 1]

\* Mistake: the vectors are written without a look at the document.
FlushBlindly ==
    /\ worker.pc = "embedded"
    /\ Begin("flushed")
    /\ UNCHANGED <<row, files, chunks, vectors, queue, request, left, used>>

\* The SELECT of the collection flushes the chunks.  The foreign key waits for a
\* DELETE of the document, and refuses chunks of one that is gone.
Flush ==
    /\ worker.pc = "embedded"
    /\ ~\E q \in Requests : request[q].doc = Job /\ request[q].pc = "removed"
    /\ IF Exists(Job) THEN Begin("flushed") ELSE At("raised") /\ UNCHANGED last
    /\ UNCHANGED <<row, files, chunks, vectors, queue, request, left, used>>

Upsert ==
    /\ worker.pc = "flushed"
    /\ At("upserted")
    /\ vectors' = [vectors EXCEPT ![Job] = @ \cup {worker.version}]
    /\ UNCHANGED <<row, files, chunks, last, queue, request, left, used>>

\* Qdrant may have stored the points of a call that failed.  Errors the handler
\* knows commit the chunks with FAILED, others roll them back and change nothing.
UpsertFails ==
    /\ worker.pc = "flushed"
    /\ vectors' \in {vectors, [vectors EXCEPT ![Job] = @ \cup {worker.version}]}
    /\ FailWith({worker.version}) \/ FailUnknown
    /\ UNCHANGED <<files, last, queue, request, left>>

\* chunk_count of the document, the counts of the collection, READY.
Update ==
    /\ worker.pc = "upserted" /\ ~Locked(Job)
    /\ At("updated")
    /\ UNCHANGED <<stores, queue, request, left, used>>

Commit ==
    /\ row' = [row EXCEPT ![Job] = "ready"]
    /\ chunks' = [chunks EXCEPT ![Job] = @ \cup {worker.version}]

\* Whether a commit that failed took place is not known; FAILED cannot be written.
Finish ==
    /\ worker.pc = "updated"
    /\ \/ Commit /\ At("done") /\ UNCHANGED used
       \/ Commit /\ At("raised") /\ Fault
       \/ UNCHANGED <<row, chunks>> /\ At("raised") /\ Fault
    /\ UNCHANGED <<files, vectors, last, queue, request, left>>

\* Mistake: one retry too many, and none at all.
SettleTooLate ==
    /\ worker.pc \in {"done", "raised"}
    /\ worker' = Idle
    /\ queue' = Tail(queue) \o
          (IF worker.pc = "raised" /\ Head(queue).retry <= MaxRetries
           THEN <<[Head(queue) EXCEPT !.retry = @ + 1]>> ELSE <<>>)
    /\ UNCHANGED <<stores, request, left, used>>

SettleAtOnce ==
    /\ worker.pc \in {"done", "raised"}
    /\ worker' = Idle
    /\ queue' = Tail(queue)
    /\ UNCHANGED <<stores, request, left, used>>

\* The bus acknowledges, after it has put what failed at the end of the stream or
\* into the DLQ.
Settle ==
    /\ worker.pc \in {"done", "raised"}
    /\ worker' = Idle
    /\ IF worker.pc = "raised" /\ Head(queue).retry < MaxRetries
       THEN /\ queue' = Append(Tail(queue), [Head(queue) EXCEPT !.retry = @ + 1])
            /\ UNCHANGED left
       ELSE /\ queue' = Tail(queue)
            /\ left' = IF worker.pc = "raised" THEN left \cup {Job} ELSE left
    /\ UNCHANGED <<stores, request, used>>

\* What is uncommitted is rolled back, what is in hand is delivered again.
Crash ==
    /\ worker.pc # "idle" /\ crashes < MaxCrashes
    /\ crashes' = crashes + 1
    /\ worker' = Idle
    /\ UNCHANGED <<stores, queue, request, left, faults>>

Handle == Take \/ EmbedFails \/ Flush \/ Upsert \/ UpsertFails \/ Update \/ Finish \/ Settle

Serve(q) ==
    \/ CommitUpload(q) \/ Publish(q) \/ Sweep(q) \/ Reset(q) \/ CommitReset(q)
    \/ Load(q) \/ RemoveRow(q) \/ CommitRemove(q) \/ Forget(q)

Ask(q, d) ==
    \/ Store(q, d) \/ Clean(q, d) \/ BeginDelete(q, d, {d}) \/ BeginDelete(q, d, {})

Next ==
    \/ \E q \in Requests : Serve(q) \/ Die(q) \/ \E d \in Docs : Ask(q, d)
    \/ Handle \/ Crash

Spec == Init /\ [][Next]_vars

\* Requests end, and the event loop runs the consumer, restarted after a crash.
FairSpec == Spec /\ WF_vars(Handle) /\ \A q \in Requests : WF_vars(Serve(q))

-----------------------------------------------------------------------------
Awaited(d) ==
    \/ \E i \in 1..Len(queue) : queue[i].doc = d
    \/ \E q \in Requests : request[q].doc = d /\ request[q].pc # "over"

(***************************************************************************)
(* A document that is READY, and that nobody is at work on, can be found:  *)
(* some version of it has all its chunks and all its vectors, whatever     *)
(* uploads, repeated reprocessing, retries and crashes of the worker have  *)
(* left of the others (document_router.py, lines 193-226).                 *)
(***************************************************************************)
ReadyIsSearchable ==
    \A d \in Docs \ left :
        row[d] = "ready" /\ ~Awaited(d) => chunks[d] \cap vectors[d] # {}

(***************************************************************************)
(* document_router.py, line 239: "Delete a document, its chunks, Qdrant    *)
(* vectors, and MinIO file."  No search finds a deleted document, although *)
(* the worker may still be about to store it when it is deleted.           *)
(***************************************************************************)
DeletedIsForgotten ==
    \A d \in Docs \ left :
        row[d] = "deleted" /\ (\A q \in Requests : request[q].pc # "forget") => vectors[d] = {}

(***************************************************************************)
(* No document stays "processing", except where its request died or its    *)
(* message went to the DLQ.                                                *)
(***************************************************************************)
EveryDocumentSettles ==
    \A d \in Docs : row[d] = "processing" ~> row[d] # "processing" \/ d \in left
=============================================================================
