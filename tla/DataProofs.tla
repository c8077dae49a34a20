----------------------------- MODULE DataProofs -----------------------------
(***************************************************************************)
(* Proofs about what users leave in the system: DocumentPipeline, for any  *)
(* documents, requests, retries, faults and crashes, and Conversation, for *)
(* any requests, attachments, deletions, patches and compactions.          *)
(***************************************************************************)
EXTENDS DocumentPipeline, History, SequenceTheorems, FiniteSetTheorems, TLAPS

(* The types.                                                              *)

Message == [doc : Docs, retry : Nat]
Places == {"idle", "embedded", "flushed", "upserted", "updated", "raised", "done"}
Awaits == {"new", "stored", "cleaned", "swept", "updated", "publish",
           "loading", "loaded", "removed", "forget", "over"}

Typed ==
    /\ row \in [Docs -> {"none", "processing", "ready", "failed", "deleted"}]
    /\ files \subseteq Docs /\ left \subseteq Docs
    /\ chunks \in [Docs -> SUBSET Nat] /\ vectors \in [Docs -> SUBSET Nat]
    /\ last \in [Docs -> Nat]
    /\ queue \in Seq(Message)
    /\ worker \in [pc : Places, version : Nat]
    /\ worker.pc # "idle" => queue # <<>>
    /\ request \in [Requests ->
          [doc : Docs \cup {NoDoc}, doomed : SUBSET Nat, pc : Awaits]]
    /\ \A q \in Requests : request[q].pc \notin {"new", "over"} => request[q].doc \in Docs

\* Where a request is after a step, the others being where they were.
Others(q) == \A x \in Requests : x # q => request'[x] = request[x]
Moved(q, p) ==
    /\ Others(q)
    /\ request'[q].pc = p
    /\ request'[q].doc = IF p = "over" THEN NoDoc ELSE request[q].doc
Begun(q, d, p) ==
    Others(q) /\ request[q].pc = "new" /\ request'[q].pc = p /\ request'[q].doc = d
RequestsTyped ==
    /\ request \in [Requests ->
          [doc : Docs \cup {NoDoc}, doomed : SUBSET Nat, pc : Awaits]]
    /\ \A q \in Requests : request[q].pc \notin {"new", "over"} => request[q].doc \in Docs

-----------------------------------------------------------------------------
(* Single steps.                                                           *)

\* Goto leaves a request where it says, about the same document.
LEMMA GotoMoves ==
  ASSUME RequestsTyped, NEW q \in Requests, request[q].pc \notin {"new", "over"},
         NEW p \in Awaits \ {"new"}, Goto(q, p)
  PROVE  RequestsTyped' /\ Moved(q, p)
<1>1. CASE p = "over"
  <2>1. request' = [request EXCEPT ![q] = [doc |-> NoDoc, pc |-> "over", doomed |-> {}]]
    <3>1. [Unborn EXCEPT !.pc = p] = [doc |-> NoDoc, pc |-> "over", doomed |-> {}]
      BY <1>1 DEF Unborn
    <3> QED BY <1>1, <3>1 DEF Goto
  <2>2. [doc |-> NoDoc, pc |-> "over", doomed |-> {}]
          \in [doc : Docs \cup {NoDoc}, doomed : SUBSET Nat, pc : Awaits]
    <3>1. NoDoc \in Docs \cup {NoDoc} /\ {} \in SUBSET Nat /\ "over" \in Awaits BY DEF Awaits
    <3> QED BY <3>1
  <2> QED BY <1>1, <2>1, <2>2 DEF RequestsTyped, Moved, Others
<1>2. CASE p # "over"
  <2>1. request' = [request EXCEPT ![q] = [request[q] EXCEPT !.pc = p]] BY <1>2 DEF Goto
  <2>2. [request[q] EXCEPT !.pc = p] \in [doc : Docs \cup {NoDoc}, doomed : SUBSET Nat, pc : Awaits]
    BY DEF RequestsTyped
  <2>3. request[q].doc \in Docs BY DEF RequestsTyped
  <2> QED BY <1>2, <2>1, <2>2, <2>3 DEF RequestsTyped, Moved, Others
<1> QED BY <1>1, <1>2

\* A request begins with a document.
LEMMA BeginsIs ==
  ASSUME RequestsTyped, NEW q \in Requests, NEW d \in Docs, NEW p \in Awaits, Begins(q, d, p)
  PROVE  RequestsTyped' /\ Begun(q, d, p)
BY DEF RequestsTyped, Begins, Begun, Others

\* A request notes the chunks it will delete.
LEMMA NotesChunks ==
  ASSUME RequestsTyped, NEW q \in Requests, request[q].pc \notin {"new", "over"},
         NEW p \in Awaits \ {"new", "over"}, NEW S \in SUBSET Nat,
         request' = [request EXCEPT ![q].pc = p, ![q].doomed = S]
  PROVE  RequestsTyped' /\ Moved(q, p)
<1>1. request'[q] = [doc |-> request[q].doc, doomed |-> S, pc |-> p]
  BY DEF RequestsTyped
<1>2. \A x \in Requests : x # q => request'[x] = request[x] BY DEF RequestsTyped
<1>3. request[q].doc \in Docs BY DEF RequestsTyped
<1>4. request' = [x \in Requests |-> request'[x]] BY DEF RequestsTyped
<1>5. ASSUME NEW x \in Requests
      PROVE  request'[x] \in [doc : Docs \cup {NoDoc}, doomed : SUBSET Nat, pc : Awaits]
  <2>1. CASE x = q
    <3>1. [doc |-> request[q].doc, doomed |-> S, pc |-> p]
            \in [doc : Docs \cup {NoDoc}, doomed : SUBSET Nat, pc : Awaits]
      <4>1. request[q].doc \in Docs \cup {NoDoc} /\ S \in SUBSET Nat /\ p \in Awaits BY <1>3
      <4> QED BY <4>1
    <3> QED BY <1>1, <2>1, <3>1
  <2>2. CASE x # q BY <1>2, <2>2 DEF RequestsTyped
  <2> QED BY <2>1, <2>2
<1>6. request' \in [Requests -> [doc : Docs \cup {NoDoc}, doomed : SUBSET Nat, pc : Awaits]]
  BY <1>4, <1>5
<1> QED BY <1>1, <1>2, <1>3, <1>6 DEF RequestsTyped, Moved, Others

\* The message in hand, and what is behind it.
LEMMA JobIsADoc ==
  ASSUME queue \in Seq(Message), queue # <<>>
  PROVE  /\ Job \in Docs /\ Head(queue) \in Message /\ Tail(queue) \in Seq(Message)
         /\ Job = queue[1].doc /\ 1 \in 1..Len(queue)
<1>1. /\ Head(queue) \in Message /\ Tail(queue) \in Seq(Message) /\ Head(queue) = queue[1]
      /\ Len(queue) \in Nat /\ Len(queue) # 0
  BY HeadTailProperties, EmptySeq, LenProperties
<1> QED BY <1>1 DEF Job, Message

\* A new message goes behind the one in hand.
LEMMA PublishAppends ==
  ASSUME queue \in Seq(Message), NEW m \in Message, queue' = Append(queue, m)
  PROVE  /\ queue' \in Seq(Message) /\ queue' # <<>> /\ Len(queue') = Len(queue) + 1
         /\ \A i \in 1..Len(queue) : queue'[i] = queue[i]
         /\ queue'[Len(queue) + 1] = m
         /\ queue # <<>> => Job' = Job
<1>1. /\ queue' \in Seq(Message) /\ queue' # <<>> /\ Len(queue') = Len(queue) + 1
      /\ \A i \in 1..Len(queue) : queue'[i] = queue[i]
      /\ queue'[Len(queue) + 1] = m
  BY AppendProperties, EmptySeq
<1>2. queue # <<>> => Head(queue') = Head(queue) BY AppendProperties, EmptySeq, LenProperties
<1> QED BY <1>1, <1>2 DEF Job

\* What every step of a request does to it.
LEMMA RequestMoves ==
  ASSUME Typed, NEW q \in Requests
  PROVE  /\ CommitUpload(q) => RequestsTyped' /\ Moved(q, "publish")
         /\ Publish(q) => RequestsTyped' /\ Moved(q, "over")
         /\ Sweep(q) => RequestsTyped' /\ Moved(q, "swept")
         /\ Reset(q) => /\ RequestsTyped'
                        /\ Moved(q, IF Exists(request[q].doc) THEN "updated" ELSE "over")
         /\ CommitReset(q) => RequestsTyped' /\ Moved(q, "publish")
         /\ Load(q) => RequestsTyped' /\ Moved(q, "loaded")
         /\ RemoveRow(q) => RequestsTyped' /\ (Moved(q, "removed") \/ Moved(q, "over"))
         /\ CommitRemove(q) => RequestsTyped' /\ Moved(q, "forget")
         /\ Forget(q) => RequestsTyped' /\ Moved(q, "over")
         /\ Die(q) => RequestsTyped' /\ Moved(q, "over")
<1>0. /\ RequestsTyped
      /\ {"publish", "over", "updated", "removed", "forget"} \subseteq Awaits \ {"new"}
  BY DEF Typed, RequestsTyped, Awaits
<1>1. CommitUpload(q) => RequestsTyped' /\ Moved(q, "publish")
  BY <1>0, GotoMoves DEF CommitUpload
<1>2. Publish(q) => RequestsTyped' /\ Moved(q, "over") BY <1>0, GotoMoves DEF Publish
<1>3. Sweep(q) => RequestsTyped' /\ Moved(q, "swept")
  <2> SUFFICES ASSUME Sweep(q) PROVE RequestsTyped' /\ Moved(q, "swept") OBVIOUS
  <2>1. request[q].doc \in Docs /\ request[q].pc = "cleaned" BY DEF Sweep, Typed
  <2>2. chunks[request[q].doc] \in SUBSET Nat BY <2>1 DEF Typed
  <2>3. "swept" \in Awaits \ {"new", "over"} BY DEF Awaits
  <2>4. request' = [request EXCEPT ![q].pc = "swept", ![q].doomed = chunks[request[q].doc]]
    BY DEF Sweep
  <2> QED BY <1>0, <2>1, <2>2, <2>3, <2>4, NotesChunks
<1>4. Reset(q) => RequestsTyped' /\ Moved(q, IF Exists(request[q].doc) THEN "updated" ELSE "over")
  BY <1>0, GotoMoves DEF Reset
<1>5. CommitReset(q) => RequestsTyped' /\ Moved(q, "publish")
  BY <1>0, GotoMoves DEF CommitReset
<1>6. Load(q) => RequestsTyped' /\ Moved(q, "loaded")
  <2> SUFFICES ASSUME Load(q) PROVE RequestsTyped' /\ Moved(q, "loaded") OBVIOUS
  <2>1. request[q].doc \in Docs /\ request[q].pc = "loading" BY DEF Load, Typed
  <2>2. chunks[request[q].doc] \in SUBSET Nat BY <2>1 DEF Typed
  <2>3. "loaded" \in Awaits \ {"new", "over"} BY DEF Awaits
  <2>4. request' = [request EXCEPT ![q].pc = "loaded", ![q].doomed = chunks[request[q].doc]]
    BY DEF Load
  <2> QED BY <1>0, <2>1, <2>2, <2>3, <2>4, NotesChunks
<1>7. RemoveRow(q) => RequestsTyped' /\ (Moved(q, "removed") \/ Moved(q, "over"))
  <2> SUFFICES ASSUME RemoveRow(q)
               PROVE  RequestsTyped' /\ (Moved(q, "removed") \/ Moved(q, "over"))
    OBVIOUS
  <2>1. request[q].pc = "loaded" /\ (Goto(q, "removed") \/ Goto(q, "over")) BY DEF RemoveRow
  <2> QED BY <1>0, <2>1, GotoMoves
<1>8. CommitRemove(q) => RequestsTyped' /\ Moved(q, "forget")
  BY <1>0, GotoMoves DEF CommitRemove
<1>9. Forget(q) => RequestsTyped' /\ Moved(q, "over") BY <1>0, GotoMoves DEF Forget
<1>10. Die(q) => RequestsTyped' /\ Moved(q, "over") BY <1>0, GotoMoves DEF Die
<1> QED BY <1>1, <1>2, <1>3, <1>4, <1>5, <1>6, <1>7, <1>8, <1>9, <1>10

\* What a request begins with.
LEMMA RequestBegins ==
  ASSUME Typed, NEW q \in Requests, NEW d \in Docs
  PROVE  /\ Store(q, d) => RequestsTyped' /\ Begun(q, d, "stored")
         /\ Clean(q, d) => RequestsTyped' /\ Begun(q, d, "cleaned")
         /\ \A F : BeginDelete(q, d, F) => RequestsTyped' /\ Begun(q, d, "loading")
<1>0. RequestsTyped /\ {"stored", "cleaned", "loading"} \subseteq Awaits
  BY DEF Typed, RequestsTyped, Awaits
<1> QED BY <1>0, BeginsIs DEF Store, Clean, BeginDelete

\* Every step keeps the types.
LEMMA TypesHold == ASSUME Typed, [Next]_vars PROVE Typed'
<1> USE DEF stores, used
<1>1. ASSUME NEW q \in Requests, CommitUpload(q) \/ CommitReset(q) \/ CommitRemove(q) PROVE Typed'
  <2>1. request[q].doc \in Docs BY <1>1 DEF CommitUpload, CommitReset, CommitRemove, Typed
  <2>2. RequestsTyped' BY <1>1, RequestMoves
  <2>3. row' \in [Docs -> {"none", "processing", "ready", "failed", "deleted"}]
    BY <1>1, <2>1 DEF CommitUpload, CommitReset, CommitRemove, Typed
  <2>4. chunks' \in [Docs -> SUBSET Nat]
    <3>1. chunks[request[q].doc] \ request[q].doomed \in SUBSET Nat BY <2>1 DEF Typed
    <3> QED BY <1>1, <2>1, <3>1 DEF CommitUpload, CommitReset, CommitRemove, Typed
  <2>5. UNCHANGED <<files, vectors, last, queue, worker, left>>
    BY <1>1 DEF CommitUpload, CommitReset, CommitRemove
  <2> QED BY <2>2, <2>3, <2>4, <2>5 DEF Typed, RequestsTyped
<1>2. ASSUME NEW q \in Requests, Publish(q) PROVE Typed'
  <2>1. request[q].doc \in Docs BY <1>2 DEF Publish, Typed
  <2>2. [doc |-> request[q].doc, retry |-> 0] \in Message BY <2>1 DEF Message
  <2>3. queue' \in Seq(Message) /\ queue' # <<>> BY <1>2, <2>2, PublishAppends DEF Publish, Typed
  <2>4. RequestsTyped' BY <1>2, RequestMoves
  <2> QED BY <1>2, <2>3, <2>4 DEF Publish, Typed, RequestsTyped
<1>3. ASSUME NEW q \in Requests, Sweep(q) \/ Reset(q) \/ Load(q) \/ RemoveRow(q) PROVE Typed'
  <2>1. RequestsTyped' BY <1>3, RequestMoves
  <2> QED BY <1>3, <2>1 DEF Sweep, Reset, Load, RemoveRow, Typed, RequestsTyped
<1>4. ASSUME NEW q \in Requests, Forget(q) \/ Die(q) PROVE Typed'
  <2>1. request[q].doc \in Docs BY <1>4 DEF Forget, Die, Typed
  <2>2. RequestsTyped' BY <1>4, RequestMoves
  <2> QED BY <1>4, <2>1, <2>2 DEF Forget, Die, Typed, RequestsTyped
<1>5. ASSUME NEW q \in Requests, NEW d \in Docs, Ask(q, d) PROVE Typed'
  <2>1. RequestsTyped' BY <1>5, RequestBegins DEF Ask
  <2> QED BY <1>5, <2>1 DEF Ask, Store, Clean, BeginDelete, Typed, RequestsTyped
<1>6. ASSUME NEW p \in Places, At(p), queue # <<>>
      PROVE  /\ worker' \in [pc : Places, version : Nat] /\ worker'.pc = p
             /\ worker'.version = worker.version /\ Job \in Docs
  BY <1>6, JobIsADoc DEF At, Typed
<1>7. {"embedded", "raised", "flushed", "upserted", "updated", "done"} \subseteq Places
  BY DEF Places
<1>8. worker.pc # "idle" => queue # <<>> BY DEF Typed
<1>9. CASE Take
  <2>1. PICK p \in {"embedded", "raised"} : At(p) BY <1>9 DEF Take
  <2>2. worker' \in [pc : Places, version : Nat] /\ queue' # <<>>
    BY <1>6, <1>7, <1>9, <2>1 DEF Take
  <2> QED BY <1>9, <2>2 DEF Take, Typed
<1>10. CASE EmbedFails
  <2>1. worker' \in [pc : Places, version : Nat] /\ Job \in Docs /\ queue' # <<>>
    BY <1>6, <1>7, <1>8, <1>10 DEF EmbedFails, FailWith, FailUnknown
  <2>2. CASE FailWith({}) BY <1>10, <2>1, <2>2 DEF EmbedFails, FailWith, Typed
  <2>3. CASE FailUnknown BY <1>10, <2>1, <2>3 DEF EmbedFails, FailUnknown, Typed
  <2> QED BY <1>10, <2>2, <2>3 DEF EmbedFails
<1>11. CASE Flush
  <2>1. Job \in Docs /\ queue' # <<>> BY <1>8, <1>11, JobIsADoc DEF Flush, Typed
  <2>2. CASE Begin("flushed")
    <3>1. last[Job] + 1 \in Nat BY <2>1 DEF Typed
    <3>2. worker' \in [pc : Places, version : Nat] BY <1>7, <2>2, <3>1 DEF Begin
    <3> QED BY <1>11, <2>1, <2>2, <3>1, <3>2 DEF Flush, Begin, Typed
  <2>3. CASE At("raised") /\ UNCHANGED last
    <3>1. worker' \in [pc : Places, version : Nat]
      BY <1>6, <1>7, <1>8, <1>11, <2>3 DEF Flush
    <3> QED BY <1>11, <2>1, <2>3, <3>1 DEF Flush, Typed
  <2> QED BY <1>11, <2>2, <2>3 DEF Flush
<1>12. CASE Upsert
  <2>1. worker' \in [pc : Places, version : Nat] /\ Job \in Docs /\ queue' # <<>>
    BY <1>6, <1>7, <1>8, <1>12 DEF Upsert
  <2>2. worker.version \in Nat BY DEF Typed
  <2> QED BY <1>12, <2>1, <2>2 DEF Upsert, Typed
<1>13. CASE UpsertFails
  <2>1. worker' \in [pc : Places, version : Nat] /\ Job \in Docs /\ queue' # <<>>
    BY <1>6, <1>7, <1>8, <1>13 DEF UpsertFails, FailWith, FailUnknown
  <2>2. /\ worker.version \in Nat
        /\ vectors[Job] \cup {worker.version} \in SUBSET Nat
        /\ chunks[Job] \cup {worker.version} \in SUBSET Nat
    BY <2>1 DEF Typed
  <2>3. vectors' \in [Docs -> SUBSET Nat]
    <3>1. vectors' = vectors \/ vectors' = [vectors EXCEPT ![Job] = @ \cup {worker.version}]
      BY <1>13 DEF UpsertFails
    <3> QED BY <2>1, <2>2, <3>1 DEF Typed
  <2>4. row' \in [Docs -> {"none", "processing", "ready", "failed", "deleted"}]
    BY <1>13, <2>1 DEF UpsertFails, FailWith, FailUnknown, Typed
  <2>5. chunks' \in [Docs -> SUBSET Nat]
    <3>1. chunks' = chunks \/ chunks' = [chunks EXCEPT ![Job] = @ \cup {worker.version}]
      BY <1>13 DEF UpsertFails, FailWith, FailUnknown
    <3> QED BY <2>1, <2>2, <3>1 DEF Typed
  <2> QED BY <1>13, <2>1, <2>3, <2>4, <2>5 DEF UpsertFails, Typed
<1>14. CASE Update
  <2>1. worker' \in [pc : Places, version : Nat] /\ queue' # <<>>
    BY <1>6, <1>7, <1>8, <1>14 DEF Update
  <2> QED BY <1>14, <2>1 DEF Update, Typed
<1>15. CASE Finish
  <2>1. PICK p \in {"done", "raised"} : At(p) BY <1>15 DEF Finish
  <2>2. worker' \in [pc : Places, version : Nat] /\ Job \in Docs /\ queue' # <<>>
    BY <1>6, <1>7, <1>8, <1>15, <2>1 DEF Finish
  <2>3. worker.version \in Nat BY DEF Typed
  <2>4. row' \in [Docs -> {"none", "processing", "ready", "failed", "deleted"}]
    BY <1>15, <2>2 DEF Finish, Commit, Typed
  <2>5. chunks' \in [Docs -> SUBSET Nat] BY <1>15, <2>2, <2>3 DEF Finish, Commit, Typed
  <2> QED BY <1>15, <2>2, <2>4, <2>5 DEF Finish, Typed
<1>16. worker' = Idle => worker' \in [pc : Places, version : Nat] /\ worker'.pc = "idle"
  BY DEF Idle, Places
<1>17. CASE Settle
  <2>1. Job \in Docs /\ Head(queue) \in Message /\ Tail(queue) \in Seq(Message)
    BY <1>8, <1>17, JobIsADoc DEF Settle, Typed
  <2>2. [Head(queue) EXCEPT !.retry = @ + 1] \in Message BY <2>1 DEF Message
  <2>3. queue' \in Seq(Message) BY <1>17, <2>1, <2>2, AppendProperties DEF Settle
  <2>4. left' \subseteq Docs BY <1>17, <2>1 DEF Settle, Typed
  <2> QED BY <1>16, <1>17, <2>3, <2>4 DEF Settle, Typed
<1>18. CASE Crash BY <1>16, <1>18 DEF Crash, Typed
<1>19. CASE UNCHANGED vars BY <1>19 DEF vars, Typed
<1> QED
  BY <1>1, <1>2, <1>3, <1>4, <1>5, <1>9, <1>10, <1>11, <1>12, <1>13, <1>14, <1>15, <1>17,
     <1>18, <1>19
  DEF Next, Serve, Handle

-----------------------------------------------------------------------------
(* Who may rely on the row of a document.                                  *)

\* Upload: the row comes after the object, and only this request can write it.
Uploading ==
    \A q \in Requests : request[q].pc = "stored" =>
        /\ row[request[q].doc] = "none" /\ request[q].doc \in files
        /\ \A p \in Requests : p # q /\ request[p].pc = "stored" =>
               request[p].doc # request[q].doc

\* Who has reset or removed the row holds it alone until the commit.
Exclusive ==
    \A q \in Requests : request[q].pc \in {"updated", "removed"} =>
        /\ request[q].pc = "updated" => Exists(request[q].doc)
        /\ \A p \in Requests : p # q /\ request[p].pc \in {"updated", "removed"} =>
               request[p].doc # request[q].doc

\* A deletion starts from a row, and ends with the row gone for good.
Deleting ==
    \A q \in Requests :
        /\ request[q].pc \in {"loading", "loaded", "removed", "forget"} =>
               row[request[q].doc] # "none"
        /\ request[q].pc = "forget" => row[request[q].doc] = "deleted"

\* Chunks that are inserted and not committed keep their document from being deleted.
Anchored ==
    worker.pc \in {"flushed", "upserted", "updated"} =>
        /\ Exists(Job)
        /\ \A q \in Requests : request[q].doc = Job => request[q].pc # "removed"

RowsInv == Uploading /\ Exclusive /\ Deleting /\ Anchored

\* The message in hand stays in hand while the handler is at work.
SameJob == worker' = worker /\ (worker.pc # "idle" => Job' = Job)

\* A request that goes on without touching rows or taking a lock disturbs nothing.
LEMMA QuietMove ==
  ASSUME Typed, RowsInv, NEW q \in Requests, NEW p \in {"over", "swept", "loaded", "publish"},
         Moved(q, p), p = "loaded" => request[q].pc = "loading",
         UNCHANGED <<row, files>>, SameJob
  PROVE  RowsInv'
<1>1. NoDoc \notin Docs BY NoDocAssumption
<1>2. worker.pc # "idle" => Job \in Docs BY JobIsADoc DEF Typed
<1>3. Uploading' BY DEF RowsInv, Uploading, Moved, Others
<1>4. Exclusive' BY DEF RowsInv, Exclusive, Exists, Moved, Others
<1>5. Deleting' BY DEF RowsInv, Deleting, Moved, Others
<1>6. Anchored' BY <1>1, <1>2 DEF RowsInv, Anchored, Exists, Moved, Others, SameJob
<1> QED BY <1>3, <1>4, <1>5, <1>6 DEF RowsInv

\* So does a request that begins with a document that has a row.
LEMMA QuietBeginning ==
  ASSUME Typed, RowsInv, NEW q \in Requests, NEW d \in Docs, NEW p \in {"cleaned", "loading"},
         Begun(q, d, p), Exists(d), UNCHANGED row, files \ {d} \subseteq files', SameJob
  PROVE  RowsInv'
<1>1. Uploading' BY DEF RowsInv, Uploading, Exists, Begun, Others
<1>2. Exclusive' BY DEF RowsInv, Exclusive, Exists, Begun, Others
<1>3. Deleting' BY DEF RowsInv, Deleting, Exists, Begun, Others
<1>4. Anchored' BY DEF RowsInv, Anchored, Exists, Begun, Others, SameJob
<1> QED BY <1>1, <1>2, <1>3, <1>4 DEF RowsInv

\* The worker writes READY or FAILED over the row of a document that exists.
LEMMA WorkerWrites ==
  ASSUME Typed, RowsInv, UNCHANGED <<request, files>>,
         \A d \in Docs : row'[d] = row[d] \/ (Exists(d) /\ row'[d] \in {"ready", "failed"})
  PROVE  Uploading' /\ Exclusive' /\ Deleting'
<1>1. Uploading' BY DEF Typed, RowsInv, Uploading, Exists
<1>2. Exclusive' BY DEF Typed, RowsInv, Exclusive, Exists
<1>3. Deleting' BY DEF Typed, RowsInv, Deleting, Exists
<1> QED BY <1>1, <1>2, <1>3

\* The commits of an upload, of a reset and of a deletion.
Commits(q, v) ==
    \/ request[q].pc \in {"stored", "updated"} /\ v = "processing" /\ Moved(q, "publish")
    \/ request[q].pc = "removed" /\ v = "deleted" /\ Moved(q, "forget")

\* Each writes one row, which nobody else relies on.
LEMMA RowIsWritten ==
  ASSUME Typed, RowsInv, NEW q \in Requests, NEW d \in Docs, d = request[q].doc,
         NEW v, Commits(q, v), row' = [row EXCEPT ![d] = v], files' = files, SameJob
  PROVE  RowsInv'
<1>0. Uploading /\ Exclusive /\ Deleting /\ Anchored BY DEF RowsInv
<1>1. /\ row'[d] = v /\ \A x \in Docs : x # d => row'[x] = row[x]
      /\ v \in {"processing", "deleted"}
  BY DEF Typed, Commits
<1>2. /\ request'[q].pc \in {"publish", "forget"} /\ request'[q].doc = d
      /\ request'[q].pc = "forget" => v = "deleted"
      /\ \A x \in Requests : x # q => request'[x] = request[x]
  BY DEF Commits, Moved, Others
<1>3. /\ request[q].pc = "stored" => row[d] = "none"
      /\ request[q].pc = "updated" => Exists(d)
      /\ request[q].pc = "removed" => row[d] # "none"
  BY <1>0 DEF Uploading, Exclusive, Deleting
<1>4. ASSUME NEW x \in Requests, x # q, request[x].pc = "stored" PROVE request[x].doc # d
  BY <1>0, <1>3, <1>4 DEF Uploading, Commits, Exists
<1>5. ASSUME NEW x \in Requests, x # q, request[x].pc \in {"updated", "removed"}
      PROVE  request[x].doc # d
  <2>1. CASE request[q].pc = "stored" BY <1>0, <1>3, <1>5, <2>1 DEF Exclusive, Deleting, Exists
  <2>2. CASE request[q].pc # "stored" BY <1>0, <1>5, <2>2 DEF Exclusive, Commits
  <2> QED BY <2>1, <2>2
<1>6. ASSUME NEW x \in Requests, x # q, request[x].pc = "forget", v = "processing"
      PROVE  request[x].doc # d
  BY <1>0, <1>3, <1>6 DEF Deleting, Commits, Exists
<1>7. \A x \in Requests : request[x].pc \notin {"new", "over"} => request[x].doc \in Docs
  BY DEF Typed
<1>8. Uploading'
  <2> SUFFICES ASSUME NEW x \in Requests, request'[x].pc = "stored"
               PROVE  /\ row'[request'[x].doc] = "none" /\ request'[x].doc \in files'
                      /\ \A p \in Requests : p # x /\ request'[p].pc = "stored" =>
                             request'[p].doc # request'[x].doc
    BY DEF Uploading
  <2>1. x # q /\ request'[x] = request[x] BY <1>2
  <2>2. request[x].doc \in Docs /\ request[x].doc # d BY <1>4, <1>7, <2>1
  <2> QED BY <1>0, <1>1, <1>2, <2>1, <2>2 DEF Uploading
<1>9. Exclusive'
  <2> SUFFICES ASSUME NEW x \in Requests, request'[x].pc \in {"updated", "removed"}
               PROVE  /\ request'[x].pc = "updated" =>
                           row'[request'[x].doc] \notin {"none", "deleted"}
                      /\ \A p \in Requests :
                            p # x /\ request'[p].pc \in {"updated", "removed"} =>
                               request'[p].doc # request'[x].doc
    BY DEF Exclusive, Exists
  <2>1. x # q /\ request'[x] = request[x] BY <1>2
  <2>2. request[x].doc \in Docs /\ request[x].doc # d BY <1>5, <1>7, <2>1
  <2> QED BY <1>0, <1>1, <1>2, <2>1, <2>2 DEF Exclusive, Exists
<1>10. Deleting'
  <2> SUFFICES ASSUME NEW x \in Requests
               PROVE  /\ request'[x].pc \in {"loading", "loaded", "removed", "forget"} =>
                             row'[request'[x].doc] # "none"
                      /\ request'[x].pc = "forget" => row'[request'[x].doc] = "deleted"
    BY DEF Deleting
  <2>1. CASE x = q BY <1>1, <1>2, <2>1
  <2>2. CASE x # q
    <3>1. request'[x] = request[x] BY <1>2, <2>2
    <3>2. request[x].pc = "forget" /\ request[x].doc = d => v = "deleted" BY <1>1, <1>6, <2>2
    <3>3. request[x].pc \in {"loading", "loaded", "removed", "forget"} => request[x].doc \in Docs
      BY <1>7
    <3> QED BY <1>0, <1>1, <3>1, <3>2, <3>3 DEF Deleting
  <2> QED BY <2>1, <2>2
<1>11. Anchored'
  <2>1. v = "deleted" /\ worker.pc \in {"flushed", "upserted", "updated"} => Job # d
    BY <1>0 DEF Anchored, Commits
  <2>2. worker.pc # "idle" => Job \in Docs BY JobIsADoc DEF Typed
  <2>3. worker' = worker /\ (worker.pc # "idle" => Job' = Job) BY DEF SameJob
  <2>4. ASSUME worker.pc \in {"flushed", "upserted", "updated"} PROVE Exists(Job)'
    BY <1>0, <1>1, <2>1, <2>2, <2>3, <2>4 DEF Anchored, Exists
  <2>5. ASSUME worker.pc \in {"flushed", "upserted", "updated"}, NEW x \in Requests,
               request'[x].doc = Job'
        PROVE  request'[x].pc # "removed"
    BY <1>0, <1>2, <2>3, <2>5 DEF Anchored
  <2> QED BY <2>3, <2>4, <2>5 DEF Anchored
<1> QED BY <1>8, <1>9, <1>10, <1>11 DEF RowsInv

\* Every step keeps RowsInv.
LEMMA RowsHold == ASSUME Typed, RowsInv, [Next]_vars PROVE RowsInv'
<1> USE DEF stores, used
<1>0. worker.pc # "idle" => queue # <<>> /\ Job \in Docs BY JobIsADoc DEF Typed
<1>1. UNCHANGED <<queue, worker>> => SameJob BY DEF SameJob, Job
<1>2. ASSUME NEW q \in Requests, CommitUpload(q) \/ CommitReset(q) \/ CommitRemove(q)
      PROVE  RowsInv'
  <2> DEFINE d == request[q].doc
  <2>1. PICK v \in {"processing", "deleted"} : row' = [row EXCEPT ![d] = v] /\ Commits(q, v)
    BY <1>2, RequestMoves DEF CommitUpload, CommitReset, CommitRemove, Commits
  <2>2. d \in Docs /\ SameJob /\ files' = files
    BY <1>1, <1>2 DEF CommitUpload, CommitReset, CommitRemove, Typed
  <2> QED BY <2>1, <2>2, RowIsWritten
<1>3. ASSUME NEW q \in Requests, Publish(q) PROVE RowsInv'
  <2>1. request[q].doc \in Docs BY <1>3 DEF Publish, Typed
  <2>2. [doc |-> request[q].doc, retry |-> 0] \in Message BY <2>1 DEF Message
  <2>3. SameJob BY <1>0, <1>3, <2>2, PublishAppends DEF Publish, Typed, SameJob
  <2> QED BY <1>3, <2>3, QuietMove, RequestMoves DEF Publish
<1>4. ASSUME NEW q \in Requests, Sweep(q) \/ Forget(q) \/ Die(q) PROVE RowsInv'
  BY <1>1, <1>4, QuietMove, RequestMoves DEF Sweep, Forget, Die
<1>5. ASSUME NEW q \in Requests, Load(q) PROVE RowsInv'
  BY <1>1, <1>5, QuietMove, RequestMoves DEF Load
<1>6. ASSUME NEW q \in Requests, Reset(q) PROVE RowsInv'
  <2> DEFINE d == request[q].doc
  <2>1. CASE ~Exists(d) BY <1>1, <1>6, <2>1, QuietMove, RequestMoves DEF Reset
  <2>2. CASE Exists(d)
    <3>1. Moved(q, "updated") /\ SameJob /\ UNCHANGED <<row, files>> /\ ~Locked(d)
      BY <1>1, <1>6, <2>2, RequestMoves DEF Reset
    <3>2. Uploading' BY <3>1 DEF RowsInv, Uploading, Moved, Others
    <3>3. Exclusive' BY <2>2, <3>1 DEF RowsInv, Exclusive, Exists, Locked, Moved, Others
    <3>4. Deleting' BY <3>1 DEF RowsInv, Deleting, Moved, Others
    <3>5. Anchored' BY <3>1 DEF RowsInv, Anchored, Exists, Moved, Others, SameJob
    <3> QED BY <3>2, <3>3, <3>4, <3>5 DEF RowsInv
  <2> QED BY <2>1, <2>2
<1>8. ASSUME NEW q \in Requests, RemoveRow(q) PROVE RowsInv'
  <2> DEFINE d == request[q].doc
  <2>1. /\ SameJob /\ UNCHANGED <<row, files>> /\ ~Locked(d) /\ ~Shared(d) /\ d \in Docs
        /\ request[q].pc = "loaded"
    BY <1>1, <1>8 DEF RemoveRow, Typed
  <2>2. CASE Moved(q, "over") BY <2>1, <2>2, QuietMove
  <2>3. CASE Moved(q, "removed")
    <3>1. Uploading' BY <2>1, <2>3 DEF RowsInv, Uploading, Moved, Others
    <3>2. Exclusive' BY <2>1, <2>3 DEF RowsInv, Exclusive, Exists, Locked, Moved, Others
    <3>3. Deleting' BY <2>1, <2>3 DEF RowsInv, Deleting, Moved, Others
    <3>4. Anchored'
      BY <2>1, <2>3 DEF RowsInv, Anchored, Exists, Shared, InHand, Moved, Others, SameJob
    <3> QED BY <3>1, <3>2, <3>3, <3>4 DEF RowsInv
  <2> QED BY <1>8, <2>2, <2>3, RequestMoves
<1>10. ASSUME NEW q \in Requests, NEW d \in Docs, Store(q, d) PROVE RowsInv'
  <2>1. /\ Begun(q, d, "stored") /\ SameJob /\ UNCHANGED row /\ files' = files \cup {d}
        /\ row[d] = "none" /\ d \notin files
    BY <1>1, <1>10, RequestBegins DEF Store
  <2>2. Uploading' BY <2>1 DEF RowsInv, Uploading, Begun, Others
  <2>3. Exclusive' BY <2>1 DEF RowsInv, Exclusive, Exists, Begun, Others
  <2>4. Deleting' BY <2>1 DEF RowsInv, Deleting, Begun, Others
  <2>5. Anchored' BY <2>1 DEF RowsInv, Anchored, Exists, Begun, Others, SameJob
  <2> QED BY <2>2, <2>3, <2>4, <2>5 DEF RowsInv
<1>11. ASSUME NEW q \in Requests, NEW d \in Docs, Clean(q, d) PROVE RowsInv'
  BY <1>1, <1>11, QuietBeginning, RequestBegins DEF Clean
<1>12. ASSUME NEW q \in Requests, NEW d \in Docs,
              BeginDelete(q, d, {d}) \/ BeginDelete(q, d, {})
       PROVE  RowsInv'
  BY <1>1, <1>12, QuietBeginning, RequestBegins DEF BeginDelete
<1>13. ASSUME NEW V, FailWith(V), worker.pc # "idle"
       PROVE  \A d \in Docs : row'[d] = row[d] \/ (Exists(d) /\ row'[d] \in {"ready", "failed"})
  BY <1>0, <1>13 DEF FailWith, Typed
<1>14. ASSUME NEW p \in Places, At(p) PROVE worker'.pc = p BY <1>14 DEF At, Typed
<1>15. {"embedded", "raised", "upserted", "updated", "done"} \subseteq Places BY DEF Places
<1>16. CASE Take
  <2>1. Uploading' /\ Exclusive' /\ Deleting' BY <1>16, WorkerWrites DEF Take
  <2>2. worker'.pc \in {"embedded", "raised"} BY <1>14, <1>15, <1>16 DEF Take
  <2> QED BY <2>1, <2>2 DEF RowsInv, Anchored
<1>17. CASE EmbedFails
  <2>1. Uploading' /\ Exclusive' /\ Deleting' BY <1>13, <1>17, WorkerWrites
    DEF EmbedFails, FailUnknown
  <2>2. worker'.pc = "raised" BY <1>14, <1>15, <1>17 DEF EmbedFails, FailWith, FailUnknown
  <2> QED BY <2>1, <2>2 DEF RowsInv, Anchored
<1>18. CASE Flush
  <2>1. Uploading' /\ Exclusive' /\ Deleting' BY <1>18, WorkerWrites DEF Flush
  <2>2. Job' = Job /\ UNCHANGED <<row, request>> BY <1>18 DEF Flush, Job
  <2>3. CASE Exists(Job) BY <1>18, <2>1, <2>2, <2>3 DEF Flush, RowsInv, Anchored, Exists
  <2>4. CASE ~Exists(Job)
    <3>1. worker'.pc = "raised" BY <1>14, <1>15, <1>18, <2>4 DEF Flush
    <3> QED BY <2>1, <3>1 DEF RowsInv, Anchored
  <2> QED BY <2>3, <2>4
<1>19. CASE Upsert \/ Update
  <2>1. Uploading' /\ Exclusive' /\ Deleting' BY <1>19, WorkerWrites DEF Upsert, Update
  <2>2. /\ Job' = Job /\ UNCHANGED <<row, request>> /\ worker.pc \in {"flushed", "upserted"}
    BY <1>19 DEF Upsert, Update, Job
  <2> QED BY <2>1, <2>2 DEF RowsInv, Anchored, Exists
<1>20. CASE UpsertFails
  <2>1. Uploading' /\ Exclusive' /\ Deleting' BY <1>13, <1>20, WorkerWrites
    DEF UpsertFails, FailUnknown
  <2>2. worker'.pc = "raised" BY <1>14, <1>15, <1>20 DEF UpsertFails, FailWith, FailUnknown
  <2> QED BY <2>1, <2>2 DEF RowsInv, Anchored
<1>21. CASE Finish
  <2>1. Exists(Job) /\ Job \in Docs BY <1>0, <1>21 DEF Finish, RowsInv, Anchored
  <2>2. \A d \in Docs : row'[d] = row[d] \/ (Exists(d) /\ row'[d] \in {"ready", "failed"})
    BY <1>21, <2>1 DEF Finish, Commit, Typed
  <2>3. Uploading' /\ Exclusive' /\ Deleting' BY <1>21, <2>2, WorkerWrites DEF Finish
  <2>4. worker'.pc \in {"done", "raised"} BY <1>14, <1>15, <1>21 DEF Finish
  <2> QED BY <2>3, <2>4 DEF RowsInv, Anchored
<1>22. CASE Settle \/ Crash
  <2>1. Uploading' /\ Exclusive' /\ Deleting' BY <1>22, WorkerWrites DEF Settle, Crash
  <2>2. worker'.pc = "idle" BY <1>22 DEF Settle, Crash, Idle
  <2> QED BY <2>1, <2>2 DEF RowsInv, Anchored
<1>23. CASE UNCHANGED vars
  BY <1>23 DEF vars, RowsInv, Uploading, Exclusive, Deleting, Anchored, Exists, Job
<1> QED
  BY <1>2, <1>3, <1>4, <1>5, <1>6, <1>8, <1>10, <1>11, <1>12, <1>16, <1>17,
     <1>18, <1>19, <1>20, <1>21, <1>22, <1>23
  DEF Next, Serve, Ask, Handle

-----------------------------------------------------------------------------
(* What a deleted document, and a READY one, can count on.                 *)

Forgotten ==
    \A d \in Docs \ left : row[d] = "deleted" =>
        vectors[d] = {} \/ \E q \in Requests : request[q].pc = "forget" /\ request[q].doc = d

\* Somebody other than the pass in hand will make a new version.
Reprocessing(d) ==
    \E q \in Requests : /\ request[q].doc = d
                        /\ request[q].pc \in {"cleaned", "swept", "updated", "publish"}
Behind(d) == \E i \in 2..Len(queue) : queue[i].doc = d
Renewed(d) == Reprocessing(d) \/ Behind(d)

\* The pass in hand may still make one, or be repeated.
Unfinished(d) == queue # <<>> /\ Job = d /\ worker.pc # "done"

Searchable ==
    \A d \in Docs \ left : row[d] = "ready" =>
        chunks[d] \cap vectors[d] # {} \/ Renewed(d) \/ Unfinished(d)

\* Vectors that are stored and not yet committed are only deleted by who renews them.
Stored ==
    worker.pc \in {"upserted", "updated"} /\ Job \notin left =>
        worker.version \in vectors[Job] \/ Renewed(Job)

\* Documents nobody writes stay forgotten while their requests stay where they are.
LEMMA ForgottenStays ==
  ASSUME Forgotten, left \subseteq left',
         \A d \in Docs \ left' : row'[d] = "deleted" =>
            \/ row[d] = "deleted" /\ vectors'[d] = vectors[d]
            \/ vectors'[d] = {}
            \/ \E q \in Requests : request'[q].pc = "forget" /\ request'[q].doc = d,
         \A q \in Requests : request[q].pc = "forget" => request'[q] = request[q]
  PROVE  Forgotten'
BY DEF Forgotten

\* Every step keeps what is deleted out of the search.
LEMMA ForgottenHolds == ASSUME Typed, RowsInv, Forgotten, [Next]_vars PROVE Forgotten'
<1> USE DEF stores, used
<1>0. worker.pc # "idle" => queue # <<>> /\ Job \in Docs BY JobIsADoc DEF Typed
<1>1. ASSUME NEW q \in Requests, CommitUpload(q) \/ CommitReset(q) PROVE Forgotten'
  <2>1. /\ Moved(q, "publish") /\ UNCHANGED <<vectors, left>> /\ request[q].pc # "forget"
        /\ \A d \in Docs : row'[d] = "deleted" => row[d] = "deleted"
    BY <1>1, RequestMoves DEF CommitUpload, CommitReset, Typed
  <2> QED BY <2>1, ForgottenStays DEF Moved, Others
<1>2. ASSUME NEW q \in Requests, Publish(q) \/ Sweep(q) \/ Reset(q) \/ Load(q) \/ RemoveRow(q)
      PROVE  Forgotten'
  <2>1. \E p \in Awaits : Moved(q, p) BY <1>2, RequestMoves DEF Awaits
  <2>2. UNCHANGED <<row, vectors, left>> /\ request[q].pc # "forget"
    BY <1>2 DEF Publish, Sweep, Reset, Load, RemoveRow
  <2> QED BY <2>1, <2>2, ForgottenStays DEF Moved, Others
<1>3. ASSUME NEW q \in Requests, CommitRemove(q) PROVE Forgotten'
  <2>1. /\ Moved(q, "forget") /\ UNCHANGED <<vectors, left>> /\ request[q].pc = "removed"
        /\ \A d \in Docs : d # request[q].doc => row'[d] = row[d]
    BY <1>3, RequestMoves DEF CommitRemove, Typed
  <2> QED BY <2>1, ForgottenStays DEF Moved, Others
<1>4. ASSUME NEW q \in Requests, Forget(q) PROVE Forgotten'
  <2>1. /\ Moved(q, "over") /\ row' = row /\ left \subseteq left'
        /\ \A d \in Docs : d # request[q].doc => vectors'[d] = vectors[d]
        /\ request[q].doc \in left' \/ vectors'[request[q].doc] = {}
    BY <1>4, RequestMoves DEF Forget, Typed
  <2> QED BY <2>1 DEF Forgotten, Moved, Others
<1>5. ASSUME NEW q \in Requests, Die(q) PROVE Forgotten'
  <2>1. /\ Moved(q, "over") /\ UNCHANGED <<row, vectors>> /\ left \subseteq left'
        /\ request[q].doc \in left'
    BY <1>5, RequestMoves DEF Die
  <2> QED BY <2>1 DEF Forgotten, Moved, Others
<1>6. ASSUME NEW q \in Requests, NEW d \in Docs, Ask(q, d) PROVE Forgotten'
  <2>1. \E p \in Awaits : Begun(q, d, p) BY <1>6, RequestBegins DEF Ask, Awaits
  <2>2. UNCHANGED <<row, left>> /\ \A x \in Docs : vectors'[x] \in {vectors[x], {}}
    BY <1>6 DEF Ask, Store, Clean, BeginDelete, Typed
  <2> QED BY <2>1, <2>2, ForgottenStays DEF Begun, Others
<1>7. CASE Upsert \/ UpsertFails
  <2>1. /\ worker.pc = "flushed" /\ UNCHANGED <<request, left>> /\ Job \in Docs
        /\ Exists(Job)
    BY <1>0, <1>7 DEF Upsert, UpsertFails, RowsInv, Anchored
  <2>2. \A d \in Docs : d # Job => vectors'[d] = vectors[d] /\ row'[d] = row[d]
    <3>1. vectors' = vectors \/ vectors' = [vectors EXCEPT ![Job] = @ \cup {worker.version}]
      BY <1>7 DEF Upsert, UpsertFails
    <3> QED BY <1>7, <2>1, <3>1 DEF Upsert, UpsertFails, FailWith, FailUnknown, Typed
  <2>3. row'[Job] # "deleted"
    BY <1>7, <2>1 DEF Upsert, UpsertFails, FailWith, FailUnknown, Exists, Typed
  <2> QED BY <2>1, <2>2, <2>3, ForgottenStays
<1>8. CASE Take \/ Flush \/ Update \/ Settle \/ Crash
  <2>1. UNCHANGED <<row, vectors, request>> /\ left \subseteq left'
    BY <1>8 DEF Take, Flush, Update, Settle, Crash
  <2> QED BY <2>1, ForgottenStays
<1>9. CASE EmbedFails \/ Finish
  <2>1. UNCHANGED <<vectors, request, left>> /\ worker.pc # "idle" /\ Job \in Docs
    BY <1>0, <1>9 DEF EmbedFails, Finish
  <2>2. \A d \in Docs : row'[d] = "deleted" => row[d] = "deleted"
    BY <1>9, <2>1 DEF EmbedFails, Finish, FailWith, FailUnknown, Commit, Typed
  <2> QED BY <2>1, <2>2, ForgottenStays
<1>10. CASE UNCHANGED vars BY <1>10 DEF vars, Forgotten
<1> QED
  BY <1>1, <1>2, <1>3, <1>4, <1>5, <1>6, <1>7, <1>8, <1>9, <1>10 DEF Next, Serve, Handle

-----------------------------------------------------------------------------
(* A READY document can be found.                                          *)

\* A step of a request concerns one document.  It leaves the document for the worker
\* to renew, or without a row, or as it was.
LEMMA RequestKeepsSearchable ==
  ASSUME Typed, Searchable, Stored, NEW q \in Requests, NEW d \in Docs, Others(q),
         UNCHANGED <<queue, worker>>, left \subseteq left',
         request[q].pc = "new" \/ request[q].doc = d,
         \A x \in Docs : x # d => /\ row'[x] = row[x]
                                  /\ chunks'[x] = chunks[x] /\ vectors'[x] = vectors[x],
         \/ d \in left'
         \/ Reprocessing(d)'
         \/ /\ row'[d] # "ready"
            /\ worker.pc \in {"upserted", "updated"} => Job # d
         \/ /\ request[q].pc \notin {"cleaned", "swept", "updated", "publish"}
            /\ row'[d] = row[d] /\ chunks'[d] = chunks[d] /\ vectors'[d] = vectors[d]
  PROVE  Searchable' /\ Stored'
<1>1. Job' = Job /\ \A x \in Docs : Behind(x)' = Behind(x) /\ Unfinished(x)' = Unfinished(x)
  BY DEF Job, Behind, Unfinished
<1>2. ASSUME NEW x \in Docs, x # d, Reprocessing(x) PROVE Reprocessing(x)'
  BY <1>2 DEF Reprocessing, Others
<1>3. ASSUME request[q].pc \notin {"cleaned", "swept", "updated", "publish"}, Reprocessing(d)
      PROVE  Reprocessing(d)'
  BY <1>3 DEF Reprocessing, Others
<1>4. Searchable'
  <2> SUFFICES ASSUME NEW x \in Docs \ left', row'[x] = "ready"
               PROVE  chunks'[x] \cap vectors'[x] # {} \/ Renewed(x)' \/ Unfinished(x)'
    BY DEF Searchable
  <2>1. CASE x # d BY <1>1, <1>2, <2>1 DEF Searchable, Renewed
  <2>2. CASE x = d BY <1>1, <1>3, <2>2 DEF Searchable, Renewed
  <2> QED BY <2>1, <2>2
<1>5. Stored'
  <2> SUFFICES ASSUME worker.pc \in {"upserted", "updated"}, Job \notin left'
               PROVE  worker.version \in vectors'[Job] \/ Renewed(Job)'
    BY <1>1 DEF Stored, Renewed, Reprocessing, Behind
  <2>1. Job \in Docs BY JobIsADoc DEF Typed
  <2>2. worker.version \in vectors[Job] \/ Renewed(Job) BY DEF Stored
  <2>3. CASE Job # d BY <1>1, <1>2, <2>1, <2>2, <2>3 DEF Renewed
  <2>4. CASE Job = d BY <1>1, <1>3, <2>1, <2>2, <2>4 DEF Renewed
  <2> QED BY <2>3, <2>4
<1> QED BY <1>4, <1>5

\* A message in the queue is the one in hand or behind it.
LEMMA MessageAwaits ==
  ASSUME NEW d, NEW i \in 1..Len(queue'), queue'[i].doc = d, queue' \in Seq(Message),
         worker'.pc # "done"
  PROVE  Renewed(d)' \/ Unfinished(d)'
<1>1. Len(queue') \in Nat /\ queue' # <<>> BY LenProperties, EmptySeq
<1>2. Job' = queue'[1].doc BY <1>1, HeadTailProperties DEF Job
<1>3. CASE i = 1 BY <1>1, <1>2, <1>3 DEF Unfinished
<1>4. CASE i # 1 BY <1>1, <1>4 DEF Renewed, Behind
<1> QED BY <1>3, <1>4

\* The worker writes rows, chunks and vectors of the document in hand only.
LEMMA OthersAreLeftAlone ==
  ASSUME Typed, Searchable, UNCHANGED <<queue, request, left>>, worker.pc # "idle",
         \A x \in Docs : x # Job => /\ row'[x] = row[x]
                                    /\ chunks'[x] = chunks[x] /\ vectors'[x] = vectors[x],
         \/ worker'.pc # "done"
         \/ worker'.pc = "done" /\ Job \notin left =>
               chunks'[Job] \cap vectors'[Job] # {} \/ Renewed(Job)
  PROVE  Searchable'
<1>1. queue # <<>> /\ Job \in Docs BY JobIsADoc DEF Typed
<1>2. Job' = Job /\ \A x : Renewed(x)' <=> Renewed(x)
  BY DEF Job, Renewed, Reprocessing, Behind
<1> SUFFICES ASSUME NEW x \in Docs \ left', row'[x] = "ready"
             PROVE  chunks'[x] \cap vectors'[x] # {} \/ Renewed(x)' \/ Unfinished(x)'
  BY DEF Searchable
<1>3. CASE x = Job BY <1>1, <1>2, <1>3 DEF Unfinished
<1>4. CASE x # Job BY <1>2, <1>4 DEF Searchable, Unfinished
<1> QED BY <1>3, <1>4

\* Every step keeps what is READY in the search.
LEMMA SearchableHolds ==
  ASSUME Typed, RowsInv, Searchable, Stored, [Next]_vars PROVE Searchable' /\ Stored'
<1> USE DEF stores, used
<1> DEFINE Goal == Searchable' /\ Stored'
<1>0. worker.pc # "idle" => queue # <<>> /\ Job \in Docs BY JobIsADoc DEF Typed
<1>1. ASSUME NEW q \in Requests, CommitUpload(q) \/ CommitReset(q) PROVE Goal
  <2> DEFINE d == request[q].doc
  <2>1. /\ Moved(q, "publish") /\ UNCHANGED <<queue, worker, left>> /\ d \in Docs
        /\ \A x \in Docs : x # d => /\ row'[x] = row[x]
                                    /\ chunks'[x] = chunks[x] /\ vectors'[x] = vectors[x]
    BY <1>1, RequestMoves DEF CommitUpload, CommitReset, Typed
  <2>2. Reprocessing(d)' BY <2>1 DEF Moved, Reprocessing
  <2> QED BY <2>1, <2>2, RequestKeepsSearchable DEF Moved
<1>2. ASSUME NEW q \in Requests, Publish(q) PROVE Goal
  <2>0. PICK d : d = request[q].doc OBVIOUS
  <2> DEFINE m == [doc |-> d, retry |-> 0]
  <2>1. /\ Moved(q, "over") /\ UNCHANGED <<row, chunks, vectors, worker, left>>
        /\ d \in Docs /\ queue' = Append(queue, m)
    BY <1>2, <2>0, RequestMoves DEF Publish, Typed
  <2>2. m \in Message /\ queue \in Seq(Message) /\ Len(queue) \in Nat
    BY <2>1, LenProperties DEF Message, Typed
  <2> HIDE DEF m
  <2>3. /\ queue' \in Seq(Message) /\ queue' # <<>> /\ Len(queue') = Len(queue) + 1
        /\ \A i \in 1..Len(queue) : queue'[i] = queue[i]
        /\ queue'[Len(queue) + 1] = m
        /\ queue # <<>> => Job' = Job
    BY <2>1, <2>2, PublishAppends
  <2>4. m.doc = d BY DEF m
  <2>5. \A x \in Docs : Behind(x) => Behind(x)' BY <2>2, <2>3 DEF Behind
  <2>6. queue # <<>> => Behind(d)'
    <3>1. queue # <<>> => Len(queue) + 1 \in 2..Len(queue') BY <2>2, <2>3, EmptySeq
    <3> QED BY <2>3, <2>4, <3>1 DEF Behind
  <2>7. queue = <<>> => Unfinished(d)'
    <3>1. queue = <<>> => Len(queue) = 0 /\ worker.pc = "idle" BY EmptySeq DEF Typed
    <3>2. Job' = queue'[1].doc BY <2>3, HeadTailProperties DEF Job
    <3> QED BY <2>1, <2>3, <2>4, <3>1, <3>2 DEF Unfinished
  <2>8. \A x \in Docs : x # d /\ Reprocessing(x) => Reprocessing(x)'
    BY <2>0, <2>1 DEF Moved, Others, Reprocessing
  <2>9. \A x \in Docs : Unfinished(x) => Unfinished(x)' BY <2>1, <2>3 DEF Unfinished
  <2>10. Searchable'
    <3> SUFFICES ASSUME NEW x \in Docs \ left', row'[x] = "ready"
                 PROVE  chunks'[x] \cap vectors'[x] # {} \/ Renewed(x)' \/ Unfinished(x)'
      BY DEF Searchable
    <3> QED BY <2>1, <2>5, <2>6, <2>7, <2>8, <2>9 DEF Searchable, Renewed
  <2>11. Stored'
    <3> SUFFICES ASSUME worker.pc \in {"upserted", "updated"}, NEW x, x = Job, x \notin left
                 PROVE  worker.version \in vectors[x] \/ Renewed(x)'
      BY <1>0, <2>1, <2>3 DEF Stored, Renewed, Reprocessing, Behind
    <3>1. queue # <<>> /\ x \in Docs BY <1>0
    <3>2. worker.version \in vectors[x] \/ Renewed(x) BY DEF Stored
    <3> QED BY <2>5, <2>6, <2>8, <3>1, <3>2 DEF Renewed
  <2> QED BY <2>10, <2>11
<1>3. ASSUME NEW q \in Requests, Sweep(q) PROVE Goal
  <2>1. /\ Moved(q, "swept") /\ UNCHANGED <<row, chunks, vectors, queue, worker, left>>
        /\ request[q].doc \in Docs
    BY <1>3, RequestMoves DEF Sweep, Typed
  <2>2. Reprocessing(request[q].doc)' BY <2>1 DEF Moved, Reprocessing
  <2> QED BY <2>1, <2>2, RequestKeepsSearchable DEF Moved
<1>4. ASSUME NEW q \in Requests, Reset(q) PROVE Goal
  <2>0. PICK d : d = request[q].doc OBVIOUS
  <2>1. /\ Moved(q, IF Exists(d) THEN "updated" ELSE "over") /\ d \in Docs
        /\ UNCHANGED <<row, chunks, vectors, queue, worker, left>>
    BY <1>4, <2>0, RequestMoves DEF Reset, Typed
  <2>2. CASE Exists(d)
    <3>1. Reprocessing(d)' BY <2>0, <2>1, <2>2 DEF Moved, Reprocessing
    <3> QED BY <2>0, <2>1, <3>1, RequestKeepsSearchable DEF Moved
  <2>3. CASE ~Exists(d)
    <3>1. row'[d] # "ready" BY <2>1, <2>3 DEF Exists
    <3>2. worker.pc \in {"upserted", "updated"} => Job # d BY <2>3 DEF RowsInv, Anchored
    <3> QED BY <2>0, <2>1, <3>1, <3>2, RequestKeepsSearchable DEF Moved
  <2> QED BY <2>2, <2>3
<1>5. ASSUME NEW q \in Requests, Load(q) \/ RemoveRow(q) PROVE Goal
  <2>1. /\ \E p \in Awaits : Moved(q, p) /\ request[q].pc \in {"loading", "loaded"}
        /\ UNCHANGED <<row, chunks, vectors, queue, worker, left>> /\ request[q].doc \in Docs
    BY <1>5, RequestMoves DEF Load, RemoveRow, Typed, Awaits
  <2> QED BY <2>1, RequestKeepsSearchable DEF Moved
<1>6. ASSUME NEW q \in Requests, CommitRemove(q) PROVE Goal
  <2> DEFINE d == request[q].doc
  <2>1. /\ Moved(q, "forget") /\ UNCHANGED <<vectors, queue, worker, left>> /\ d \in Docs
        /\ \A x \in Docs : x # d => row'[x] = row[x] /\ chunks'[x] = chunks[x]
        /\ row'[d] # "ready"
    BY <1>6, RequestMoves DEF CommitRemove, Typed
  <2>2. worker.pc \in {"upserted", "updated"} => Job # d
    BY <1>6 DEF CommitRemove, RowsInv, Anchored
  <2> QED BY <2>1, <2>2, RequestKeepsSearchable DEF Moved
<1>7. ASSUME NEW q \in Requests, Forget(q) PROVE Goal
  <2> DEFINE d == request[q].doc
  <2>1. /\ Moved(q, "over") /\ UNCHANGED <<row, chunks, queue, worker>> /\ d \in Docs
        /\ left \subseteq left' /\ \A x \in Docs : x # d => vectors'[x] = vectors[x]
    BY <1>7, RequestMoves DEF Forget, Typed
  <2>2. row[d] = "deleted" BY <1>7 DEF Forget, RowsInv, Deleting
  <2>3. worker.pc \in {"upserted", "updated"} => Job # d
    BY <2>2 DEF RowsInv, Anchored, Exists
  <2> QED BY <2>1, <2>2, <2>3, RequestKeepsSearchable DEF Moved
<1>8. ASSUME NEW q \in Requests, Die(q) PROVE Goal
  <2>1. /\ Moved(q, "over") /\ UNCHANGED <<row, chunks, vectors, queue, worker>>
        /\ left \subseteq left' /\ request[q].doc \in left' /\ request[q].doc \in Docs
    BY <1>8, RequestMoves DEF Die, Typed
  <2> QED BY <2>1, RequestKeepsSearchable DEF Moved
<1>9. ASSUME NEW q \in Requests, NEW d \in Docs,
             Store(q, d) \/ BeginDelete(q, d, {d}) \/ BeginDelete(q, d, {})
      PROVE  Goal
  <2>1. /\ \E p \in Awaits : Begun(q, d, p)
        /\ UNCHANGED <<row, chunks, vectors, queue, worker, left>>
    BY <1>9, RequestBegins DEF Store, BeginDelete, Awaits
  <2> QED BY <2>1, RequestKeepsSearchable DEF Begun
<1>10. ASSUME NEW q \in Requests, NEW d \in Docs, Clean(q, d) PROVE Goal
  <2>1. /\ Begun(q, d, "cleaned") /\ UNCHANGED <<row, chunks, queue, worker, left>>
        /\ \A x \in Docs : x # d => vectors'[x] = vectors[x]
    BY <1>10, RequestBegins DEF Clean, Typed
  <2>2. Reprocessing(d)' BY <2>1 DEF Begun, Reprocessing
  <2> QED BY <2>1, <2>2, RequestKeepsSearchable DEF Begun
<1>11. ASSUME NEW p \in Places, At(p)
       PROVE  worker'.pc = p /\ worker'.version = worker.version
  BY <1>11 DEF At, Typed
<1>12. {"embedded", "raised", "upserted", "updated", "done"} \subseteq Places BY DEF Places
<1>13. CASE Take
  <2>1. UNCHANGED <<row, chunks, vectors, request, left, queue>> /\ worker.pc = "idle"
    BY <1>13 DEF Take
  <2>2. worker'.pc \in {"embedded", "raised"} BY <1>11, <1>12, <1>13 DEF Take
  <2>3. \A x : /\ Renewed(x)' <=> Renewed(x)
               /\ Unfinished(x) => Unfinished(x)'
    BY <2>1, <2>2 DEF Renewed, Reprocessing, Behind, Unfinished, Job
  <2> QED BY <2>1, <2>2, <2>3 DEF Searchable, Stored
<1>14. CASE EmbedFails \/ UpsertFails
  <2>1. /\ UNCHANGED <<request, left, queue>> /\ worker.pc # "idle" /\ worker'.pc = "raised"
    BY <1>11, <1>12, <1>14 DEF EmbedFails, UpsertFails, FailWith, FailUnknown
  <2>2. \A x \in Docs : x # Job => row'[x] = row[x] /\ chunks'[x] = chunks[x]
    BY <1>0, <1>14 DEF EmbedFails, UpsertFails, FailWith, FailUnknown, Typed
  <2>3. \A x \in Docs : x # Job => vectors'[x] = vectors[x]
    <3>1. vectors' = vectors \/ vectors' = [vectors EXCEPT ![Job] = @ \cup {worker.version}]
      BY <1>14 DEF EmbedFails, UpsertFails
    <3> QED BY <3>1 DEF Typed
  <2>4. Searchable' BY <2>1, <2>2, <2>3, OthersAreLeftAlone
  <2> QED BY <2>1, <2>4 DEF Stored
<1>15. CASE Flush
  <2>1. /\ UNCHANGED <<row, chunks, vectors, request, left, queue>> /\ worker.pc # "idle"
        /\ worker'.pc \in {"flushed", "raised"}
    BY <1>11, <1>12, <1>15 DEF Flush, Begin
  <2>2. Searchable' BY <2>1, OthersAreLeftAlone
  <2> QED BY <2>1, <2>2 DEF Stored
<1>16. CASE Upsert
  <2>1. /\ UNCHANGED <<row, chunks, request, left, queue>> /\ worker.pc # "idle"
        /\ worker'.pc = "upserted" /\ worker'.version = worker.version
        /\ vectors' = [vectors EXCEPT ![Job] = @ \cup {worker.version}]
    BY <1>11, <1>12, <1>16 DEF Upsert
  <2>2. \A x \in Docs : x # Job => vectors'[x] = vectors[x] BY <2>1 DEF Typed
  <2>3. worker'.version \in vectors'[Job] BY <1>0, <2>1 DEF Typed
  <2>4. Searchable' BY <2>1, <2>2, OthersAreLeftAlone
  <2>5. Job' = Job BY <2>1 DEF Job
  <2> QED BY <2>3, <2>4, <2>5 DEF Stored
<1>17. CASE Update
  <2>1. /\ UNCHANGED <<row, chunks, vectors, request, left, queue>> /\ worker.pc = "upserted"
        /\ worker'.pc = "updated" /\ worker'.version = worker.version
    BY <1>11, <1>12, <1>17 DEF Update
  <2>2. Searchable' BY <2>1, OthersAreLeftAlone
  <2>3. Job' = Job /\ (Renewed(Job)' <=> Renewed(Job))
    BY <2>1 DEF Job, Renewed, Reprocessing, Behind
  <2>4. Stored' BY <2>1, <2>3 DEF Stored
  <2> QED BY <2>2, <2>4
<1>18. CASE Finish
  <2>1. /\ UNCHANGED <<vectors, request, left, queue>> /\ worker.pc = "updated"
        /\ worker'.pc \in {"done", "raised"} /\ (worker'.pc = "done" => Commit)
    BY <1>11, <1>12, <1>18 DEF Finish
  <2>2. \A x \in Docs : x # Job => row'[x] = row[x] /\ chunks'[x] = chunks[x]
    BY <1>0, <1>18 DEF Finish, Commit, Typed
  <2>3. worker'.pc = "done" => worker.version \in chunks'[Job]
    BY <1>0, <2>1 DEF Commit, Typed
  <2>4. Job \notin left => worker.version \in vectors'[Job] \/ Renewed(Job)
    BY <2>1 DEF Stored
  <2>5. worker'.pc = "done" /\ Job \notin left =>
          chunks'[Job] \cap vectors'[Job] # {} \/ Renewed(Job)
    BY <2>3, <2>4
  <2>6. Searchable' BY <2>1, <2>2, <2>5, OthersAreLeftAlone
  <2> QED BY <2>1, <2>6 DEF Stored
<1>19. CASE Settle
  <2> DEFINE again == [Head(queue) EXCEPT !.retry = @ + 1]
  <2>1. /\ Head(queue) \in Message /\ Tail(queue) \in Seq(Message) /\ queue # <<>>
        /\ queue \in Seq(Message) /\ Len(queue) \in Nat
    BY <1>0, <1>19, JobIsADoc, LenProperties DEF Settle, Typed
  <2>2. /\ Len(Tail(queue)) = Len(queue) - 1
        /\ \A i \in 1..Len(Tail(queue)) : Tail(queue)[i] = queue[i + 1]
    BY <2>1, HeadTailProperties
  <2>3. again \in Message /\ again.doc = Job BY <2>1 DEF Message, Job
  <2>4. /\ UNCHANGED <<row, chunks, vectors, request>> /\ left \subseteq left'
        /\ worker'.pc = "idle" /\ worker.pc \in {"done", "raised"}
        /\ \/ queue' = Append(Tail(queue), again)
           \/ /\ queue' = Tail(queue)
              /\ worker.pc = "raised" => Job \in left'
    BY <1>19 DEF Settle, Idle
  <2> HIDE DEF again
  <2>5. /\ queue' \in Seq(Message) /\ Len(queue) - 1 <= Len(queue') /\ Len(queue') \in Nat
        /\ \A i \in 1..(Len(queue) - 1) : queue'[i] = queue[i + 1]
    <3>1. Len(Tail(queue)) \in Nat BY <2>1, LenProperties
    <3>2. CASE queue' = Tail(queue) BY <2>1, <2>2, <3>1, <3>2
    <3>3. CASE queue' = Append(Tail(queue), again)
      <4>1. /\ queue' \in Seq(Message) /\ Len(queue') = Len(Tail(queue)) + 1
            /\ \A i \in 1..Len(Tail(queue)) : queue'[i] = Tail(queue)[i]
        BY <2>1, <2>3, <3>3, AppendProperties
      <4> QED BY <2>1, <2>2, <3>1, <4>1
    <3> QED BY <2>4, <3>2, <3>3
  <2>6. ASSUME NEW x, Behind(x) PROVE Renewed(x)' \/ Unfinished(x)'
    <3>1. PICK i \in 2..Len(queue) : queue[i].doc = x BY <2>6 DEF Behind
    <3>2. i - 1 \in 1..Len(queue') /\ queue'[i - 1].doc = x BY <2>1, <2>5, <3>1
    <3> QED BY <2>4, <2>5, <3>2, MessageAwaits
  <2>7. ASSUME NEW x, x = Job, x \notin left', worker.pc = "raised"
        PROVE  Renewed(x)' \/ Unfinished(x)'
    <3>1. queue' = Append(Tail(queue), again) BY <2>4, <2>7
    <3>2. Len(queue') \in 1..Len(queue') /\ queue'[Len(queue')] = again
      BY <2>1, <2>2, <2>3, <3>1, AppendProperties, LenProperties
    <3>3. queue'[Len(queue')].doc = x BY <2>3, <2>7, <3>2
    <3> QED BY <2>4, <2>5, <3>2, <3>3, MessageAwaits
  <2>8. \A x : Reprocessing(x)' <=> Reprocessing(x) BY <2>4 DEF Reprocessing
  <2>9. Searchable'
    <3> SUFFICES ASSUME NEW x \in Docs \ left', row'[x] = "ready"
                 PROVE  chunks'[x] \cap vectors'[x] # {} \/ Renewed(x)' \/ Unfinished(x)'
      BY DEF Searchable
    <3> QED BY <2>4, <2>6, <2>7, <2>8 DEF Searchable, Renewed, Unfinished
  <2> QED BY <2>4, <2>9 DEF Stored
<1>20. CASE Crash
  <2>1. UNCHANGED <<row, chunks, vectors, request, left, queue>> /\ worker'.pc = "idle"
    BY <1>20 DEF Crash, Idle
  <2>2. \A x : /\ Renewed(x)' <=> Renewed(x)
               /\ Unfinished(x) => Unfinished(x)'
    BY <2>1 DEF Renewed, Reprocessing, Behind, Unfinished, Job
  <2> QED BY <2>1, <2>2 DEF Searchable, Stored
<1>21. CASE UNCHANGED vars
  BY <1>21 DEF vars, Searchable, Stored, Renewed, Reprocessing, Behind, Unfinished, Job
<1> QED
  BY <1>1, <1>2, <1>3, <1>4, <1>5, <1>6, <1>7, <1>8, <1>9, <1>10, <1>13, <1>14, <1>15,
     <1>16, <1>17, <1>18, <1>19, <1>20, <1>21
  DEF Next, Serve, Ask, Handle

-----------------------------------------------------------------------------
(* The inductive invariant, and what follows from it.                      *)

DocInv == Typed /\ RowsInv /\ Forgotten /\ Searchable /\ Stored

\* DocInv is inductive.
LEMMA DocInductive == Spec => []DocInv
<1>1. Init => DocInv
  <2> SUFFICES ASSUME Init PROVE DocInv OBVIOUS
  <2> USE DEF Init, Unborn, Idle
  <2>1. request \in [Requests -> [doc : Docs \cup {NoDoc}, doomed : SUBSET Nat, pc : Awaits]]
    <3>1. NoDoc \in Docs \cup {NoDoc} /\ {} \in SUBSET Nat /\ "new" \in Awaits BY DEF Awaits
    <3>2. Unborn \in [doc : Docs \cup {NoDoc}, doomed : SUBSET Nat, pc : Awaits]
      BY <3>1 DEF Unborn
    <3> QED BY <3>2
  <2>2. Typed BY <2>1, EmptySeq DEF Typed, Places
  <2>3. RowsInv BY DEF RowsInv, Uploading, Exclusive, Deleting, Anchored
  <2>4. Forgotten /\ Searchable /\ Stored BY DEF Forgotten, Searchable, Stored
  <2> QED BY <2>2, <2>3, <2>4 DEF DocInv
<1>2. DocInv /\ [Next]_vars => DocInv'
  BY TypesHold, RowsHold, ForgottenHolds, SearchableHolds DEF DocInv
<1> QED BY <1>1, <1>2, PTL DEF Spec

(***************************************************************************)
(* A READY document that nobody is at work on has a version whose chunks   *)
(* and vectors are both there: reprocess_document deletes vectors only     *)
(* when a message for a new pass will follow, and document_process_handler *)
(* writes READY together with chunks whose vectors it has stored.          *)
(***************************************************************************)
THEOREM ReadyCanBeFound == Spec => []ReadyIsSearchable
<1>1. DocInv => ReadyIsSearchable
  <2> SUFFICES ASSUME DocInv, NEW d \in Docs \ left, row[d] = "ready", ~Awaited(d)
               PROVE  chunks[d] \cap vectors[d] # {}
    BY DEF ReadyIsSearchable
  <2>1. Typed /\ Searchable BY DEF DocInv
  <2>2. ~Renewed(d) BY DEF Awaited, Renewed, Reprocessing, Behind
  <2>3. ~Unfinished(d) BY <2>1, JobIsADoc DEF Awaited, Unfinished, Typed
  <2> QED BY <2>1, <2>2, <2>3 DEF Searchable
<1> QED BY <1>1, DocInductive, PTL

(***************************************************************************)
(* document_router.py, line 239: a deleted document leaves no vectors.     *)
(* Chunks the worker has flushed hold the row against the deletion, so no  *)
(* vectors are stored for a row that is gone.                              *)
(***************************************************************************)
THEOREM DeletedLeavesNothing == Spec => []DeletedIsForgotten
<1>1. DocInv => DeletedIsForgotten BY DEF DocInv, Forgotten, DeletedIsForgotten
<1> QED BY <1>1, DocInductive, PTL

-----------------------------------------------------------------------------
(***************************************************************************)
(* The conversation, under names of its own where the pipeline uses them.  *)
(***************************************************************************)
CONSTANTS Senders, Files, Attached, Nobody, MaxDeletes, MaxPatches, MaxCompactions
VARIABLES exists, clock, lock, send, claimed, message, exec, answerer, job, reply, counted,
          keyed, stored, aged, deletes, patches, compactions

Chat == INSTANCE Conversation WITH Requests <- Senders, worker <- answerer

\* What Conversation assumes of the names of those who hold the lock, and of the cap.
Assumed ==
    /\ Nobody \notin Senders \cup {"worker"} /\ "worker" \notin Senders
    /\ MessageCap \in Nat

Sends == {"idle", "claiming", "inserted", "added", "committed", "sent", "refused"}
Views == [messages : SUBSET Nat, summary : SUBSET Nat, last : Nat]

ChatTyped ==
    /\ send \in [Senders -> Sends] /\ message \in [Senders -> Nat] /\ reply \in Nat

\* Of the messages M, those up to b that were not late are in the summary S, or the cap has
\* left them out for newer ones; if b is still there.
Between(M, m, b) == {n \in M : m < n /\ n <= b}
Covers(M, L, b, S) ==
    b \in M => \A m \in M \ L : m <= b =>
        m \in S \/ Cardinality(Between(M, m, b)) >= MessageCap

\* The summary covers what is behind the boundary b, and so will those being written;
\* no number is above T.
Whole(M, L, b, S, v, T) ==
    /\ T \in Nat /\ M \subseteq 1..T /\ b \in 0..T /\ S \in SUBSET Nat
    /\ v \in [Chat!Compactors -> Views]
    /\ Covers(M, L, b, S)
    /\ \A c \in Chat!Compactors :
         /\ v[c].last \in 0..T
         /\ Covers(M, L, v[c].last, v[c].messages \cup v[c].summary)
Remembered == Whole(msgs, late, boundary, summary, view, clock)

\* The lock is held by who has updated the row and not committed, by a worker that has
\* compacted and not answered, or by nobody.
Held ==
    /\ \A r \in Senders : send[r] = "added" <=> lock = r
    /\ lock = "worker" => answerer \in {"answering", "written"}
    /\ lock \in Senders \cup {"worker", Nobody}

\* The numbers of messages that are inserted and not committed, which nobody has seen.
Unused(n) ==
    /\ n \in 1..clock /\ n \notin msgs /\ n # boundary
    /\ \A c \in Chat!Compactors : view[c].last # n
Writing(r) == send[r] \in {"inserted", "added"}
Waiting ==
    /\ \A r \in Senders : Writing(r) => Unused(message[r])
    /\ answerer = "written" => Unused(reply)
    /\ \A r, x \in Senders : Writing(r) /\ Writing(x) /\ r # x => message[r] # message[x]
    /\ \A r \in Senders : Writing(r) /\ answerer = "written" => message[r] # reply

ChatInv == ChatTyped /\ Remembered /\ Held /\ Waiting

history == <<msgs, late, boundary, summary, view>>

\* More messages are between two of them when there are more.
LEMMA CountsGrow ==
  ASSUME NEW T \in Nat, NEW A \in SUBSET (1..T), NEW B \in SUBSET A,
         Cardinality(B) >= MessageCap, MessageCap \in Nat
  PROVE  Cardinality(A) >= MessageCap
<1>1. IsFiniteSet(1..T) BY FS_Interval
<1>2. IsFiniteSet(A) BY <1>1, FS_Subset
<1>3. Cardinality(B) <= Cardinality(A) /\ Cardinality(A) \in Nat /\ Cardinality(B) \in Nat
  BY <1>2, FS_Subset, FS_CardinalityType
<1> QED BY <1>3

\* What is not among the last has as many after it.
LEMMA RecentOrNot ==
  ASSUME MessageCap \in Nat, NEW S, NEW m \in S, Cardinality(Chat!Later(S, m)) \in Nat
  PROVE  m \in Chat!Recent(S) \/ Cardinality(Chat!Later(S, m)) >= MessageCap
<1>1. Chat!Cardinality(Chat!Later(S, m)) = Cardinality(Chat!Later(S, m))
  BY DEF Chat!Cardinality, Cardinality
<1>2. CASE Cardinality(Chat!Later(S, m)) < MessageCap BY <1>1, <1>2 DEF Chat!Recent
<1> QED BY <1>2

\* A message that comes is the last one, or it is late.
LEMMA CommitCovers ==
  ASSUME Assumed, NEW T \in Nat, NEW M \in SUBSET (1..T), NEW L, NEW b \in 0..T, NEW S,
         NEW m \in 1..T, m \notin M, m # b, Covers(M, L, b, S)
  PROVE  Covers(M \cup {m}, IF Chat!Later(M, m) = {} THEN L ELSE L \cup {m}, b, S)
<1> DEFINE late2 == IF Chat!Later(M, m) = {} THEN L ELSE L \cup {m}
<1> SUFFICES ASSUME b \in M, NEW x \in (M \cup {m}) \ late2, x <= b
             PROVE  x \in S \/ Cardinality(Between(M \cup {m}, x, b)) >= MessageCap
  BY DEF Covers
<1>1. x # m
  <2> SUFFICES ASSUME x = m PROVE FALSE OBVIOUS
  <2>1. Chat!Later(M, m) = {} BY DEF late2
  <2>2. m < b BY DEF late2
  <2> QED BY <2>1, <2>2 DEF Chat!Later
<1>2. x \in M \ L BY <1>1
<1>3. CASE Cardinality(Between(M, x, b)) >= MessageCap
  <2>1. Between(M, x, b) \subseteq Between(M \cup {m}, x, b) BY DEF Between
  <2>2. Between(M \cup {m}, x, b) \subseteq 1..T BY DEF Between
  <2>3. Cardinality(Between(M \cup {m}, x, b)) >= MessageCap
    BY <1>3, <2>1, <2>2, CountsGrow DEF Assumed
  <2> QED BY <2>3
<1> QED BY <1>2, <1>3 DEF Covers

\* Where messages are deleted from one on, those before it are left as they were.
LEMMA CutCovers ==
  ASSUME NEW T \in Nat, NEW M \in SUBSET (1..T), NEW L, NEW b \in 0..T, NEW S, NEW k \in Nat,
         Covers(M, L, b, S)
  PROVE  Covers({n \in M : n < k}, L, b, S)
<1> SUFFICES ASSUME b \in M, b < k, NEW x \in M \ L, x < k, x <= b
             PROVE  x \in S \/ Cardinality(Between({n \in M : n < k}, x, b)) >= MessageCap
  BY DEF Covers
<1>1. Between({n \in M : n < k}, x, b) = Between(M, x, b)
  <2>1. \A n \in M : n \in Nat /\ (n <= b => n < k) OBVIOUS
  <2> QED BY <2>1 DEF Between
<1> QED BY <1>1 DEF Covers

\* Nobody commits or summarises; a number may have been given out.
LEMMA HistoryStays ==
  ASSUME Remembered, UNCHANGED history, clock' \in {clock, clock + 1}
  PROVE  Remembered' /\ \A n \in Nat : Unused(n) => Unused(n)'
<1>1. clock \in Nat /\ clock <= clock' /\ clock' \in Nat BY DEF Remembered, Whole
<1>2. 0..clock \subseteq 0..clock' /\ 1..clock \subseteq 1..clock' BY <1>1
<1>3. /\ msgs' \subseteq 1..clock' /\ boundary' \in 0..clock' /\ summary' \in SUBSET Nat
      /\ view' \in [Chat!Compactors -> Views]
      /\ \A c \in Chat!Compactors : view'[c].last \in 0..clock'
  BY <1>2 DEF Remembered, Whole, history
<1>4. Remembered' BY <1>1, <1>3 DEF Remembered, Whole, history
<1>5. ASSUME NEW n \in Nat, Unused(n) PROVE Unused(n)' BY <1>2, <1>5 DEF Unused, history
<1> QED BY <1>4, <1>5

\* The number that is given out is nobody's.
LEMMA NextIsUnused ==
  ASSUME Remembered, UNCHANGED history, clock' = clock + 1
  PROVE  Unused(clock)' /\ \A n \in Nat : Unused(n) => n # clock + 1
<1>1. /\ clock \in Nat /\ msgs \subseteq 1..clock /\ boundary \in 0..clock
      /\ \A c \in Chat!Compactors : view[c].last \in 0..clock
  BY DEF Remembered, Whole
<1>2. clock + 1 \in 1..(clock + 1) /\ clock + 1 \notin 0..clock /\ clock + 1 \notin 1..clock
  BY <1>1
<1>3. Unused(clock)' BY <1>1, <1>2 DEF Unused, history
<1>4. \A n \in Nat : Unused(n) => n # clock + 1 BY <1>2 DEF Unused
<1> QED BY <1>3, <1>4

\* A compaction is looked up: of the messages up to k, those behind the boundary are in the
\* summary already, or were left out of it, and the last of the others are shown.
LEMMA LookIsComplete ==
  ASSUME Assumed, Remembered, NEW c \in Chat!Compactors, NEW k \in msgs, Chat!Look(c, k),
         UNCHANGED <<msgs, late, boundary, summary, clock>>
  PROVE  Remembered' /\ \A n \in Nat : Unused(n) => Unused(n)'
<1> DEFINE shown == Chat!Recent(Chat!Below(k))
           v == [messages |-> shown, summary |-> summary, last |-> k]
<1>0. /\ clock \in Nat /\ msgs \subseteq 1..clock /\ boundary \in 0..clock
      /\ summary \in SUBSET Nat /\ view \in [Chat!Compactors -> Views]
      /\ Covers(msgs, late, boundary, summary)
  BY DEF Remembered, Whole
<1>1. view' = [view EXCEPT ![c] = v] /\ k \in Chat!Visible BY DEF Chat!Look
<1>2. v \in Views
  <2>1. Chat!Below(k) \subseteq msgs BY DEF Chat!Below, Chat!Visible
  <2>2. \A S : Chat!Recent(S) \subseteq S BY DEF Chat!Recent
  <2>3. shown \subseteq msgs BY <2>1, <2>2
  <2> HIDE DEF shown
  <2>4. shown \in SUBSET Nat /\ k \in Nat BY <1>0, <2>3
  <2> QED BY <1>0, <2>4 DEF Views
<1>3. /\ view' \in [Chat!Compactors -> Views] /\ view'[c] = v
      /\ \A x \in Chat!Compactors : x # c => view'[x] = view[x]
  BY <1>0, <1>1, <1>2
<1>4. Covers(msgs, late, k, shown \cup summary)
  <2> SUFFICES ASSUME NEW m \in msgs \ late, m <= k
               PROVE  m \in shown \cup summary \/ Cardinality(Between(msgs, m, k)) >= MessageCap
    BY DEF Covers
  <2>1. Between(msgs, m, k) \subseteq 1..clock /\ MessageCap \in Nat
    BY <1>0 DEF Between, Assumed
  <2>2. CASE m \in Chat!Visible
    <3>1. m \in Chat!Below(k) BY <2>2 DEF Chat!Below
    <3>2. Chat!Later(Chat!Below(k), m) \subseteq Between(msgs, m, k)
      BY DEF Chat!Later, Chat!Below, Chat!Visible, Between
    <3>3. IsFiniteSet(Between(msgs, m, k))
      <4>1. IsFiniteSet(1..clock) BY <1>0, FS_Interval
      <4> QED BY <2>1, <4>1, FS_Subset
    <3>4. Cardinality(Chat!Later(Chat!Below(k), m)) \in Nat
      BY <3>2, <3>3, FS_Subset, FS_CardinalityType
    <3>5. m \in shown \/ Cardinality(Chat!Later(Chat!Below(k), m)) >= MessageCap
      BY <2>1, <3>1, <3>4, RecentOrNot
    <3> QED BY <1>0, <2>1, <3>2, <3>5, CountsGrow
  <2>3. CASE m \notin Chat!Visible
    <3>1. boundary \in msgs /\ m <= boundary BY <1>0, <2>3 DEF Chat!Visible
    <3>2. boundary < k BY <1>0, <1>1, <3>1 DEF Chat!Visible
    <3>3. Between(msgs, m, boundary) \subseteq Between(msgs, m, k)
      <4>1. \A n \in msgs : n \in Nat BY <1>0
      <4>2. k \in Nat /\ boundary \in Nat BY <1>0, <4>1
      <4>3. \A n \in msgs : n <= boundary => n <= k BY <3>2, <4>1, <4>2
      <4> QED BY <4>3 DEF Between
    <3>4. m \in summary \/ Cardinality(Between(msgs, m, boundary)) >= MessageCap
      BY <1>0, <3>1 DEF Covers
    <3> QED BY <1>0, <2>1, <3>3, <3>4, CountsGrow
  <2> QED BY <2>2, <2>3
<1>5. v.last = k /\ v.messages = shown /\ v.summary = summary OBVIOUS
<1> HIDE DEF v, shown
<1>6. Remembered' BY <1>0, <1>3, <1>4, <1>5 DEF Remembered, Whole
<1>7. ASSUME NEW n \in Nat, Unused(n) PROVE Unused(n)' BY <1>3, <1>5, <1>7 DEF Unused
<1> QED BY <1>6, <1>7

\* Without a view there is nothing to store.
LEMMA NoViewIsOne == Chat!NoView \in Views /\ Chat!NoView.last = 0
BY DEF Chat!NoView, Views

\* A summary is stored with its boundary, or thrown away: what was to be covered is.
LEMMA StoreIsComplete ==
  ASSUME Remembered, NEW c \in Chat!Compactors,
         \/ Chat!Summarize(c)
         \/ view' = [view EXCEPT ![c] = Chat!NoView] /\ UNCHANGED <<boundary, summary>>
  PROVE  /\ Whole(msgs, late, boundary', summary', view', clock)
         /\ \A n \in Nat : Unused(n) =>
              n # boundary' /\ \A x \in Chat!Compactors : view'[x].last # n
<1>0. /\ clock \in Nat /\ msgs \subseteq 1..clock /\ boundary \in 0..clock
      /\ summary \in SUBSET Nat /\ view \in [Chat!Compactors -> Views]
      /\ \A x \in Chat!Compactors :
           /\ view[x].last \in 0..clock
           /\ Covers(msgs, late, view[x].last, view[x].messages \cup view[x].summary)
  BY DEF Remembered, Whole
<1>1. /\ view' \in [Chat!Compactors -> Views] /\ view'[c] = Chat!NoView
      /\ \A x \in Chat!Compactors : x # c => view'[x] = view[x]
  BY <1>0, NoViewIsOne DEF Chat!Summarize
<1>2. \A S : Covers(msgs, late, 0, S) BY <1>0 DEF Covers
<1>3. \A x \in Chat!Compactors :
        /\ view'[x].last \in 0..clock
        /\ Covers(msgs, late, view'[x].last, view'[x].messages \cup view'[x].summary)
  <2> SUFFICES ASSUME NEW x \in Chat!Compactors
      PROVE /\ view'[x].last \in 0..clock
            /\ Covers(msgs, late, view'[x].last, view'[x].messages \cup view'[x].summary)
    OBVIOUS
  <2>1. CASE x = c
    <3>1. view'[x].last = 0 /\ 0 \in 0..clock BY <1>0, <1>1, <2>1, NoViewIsOne
    <3> QED BY <1>2, <3>1
  <2>2. CASE x # c
    <3>1. view'[x] = view[x] BY <1>1, <2>2
    <3> QED BY <1>0, <3>1
  <2> QED BY <2>1, <2>2
<1>4. boundary' \in 0..clock /\ summary' \in SUBSET Nat /\ Covers(msgs, late, boundary', summary')
  <2>1. CASE Chat!Summarize(c)
    <3>1. boundary' = view[c].last /\ summary' = view[c].messages \cup view[c].summary
      BY <2>1 DEF Chat!Summarize
    <3>2. view[c] \in Views BY <1>0
    <3>3. summary' \in SUBSET Nat BY <3>1, <3>2 DEF Views
    <3> QED BY <1>0, <3>1, <3>3
  <2>2. CASE UNCHANGED <<boundary, summary>> BY <2>2 DEF Remembered, Whole
  <2> QED BY <2>1, <2>2
<1>5. Whole(msgs, late, boundary', summary', view', clock) BY <1>0, <1>1, <1>3, <1>4 DEF Whole
<1>6. ASSUME NEW n \in Nat, Unused(n)
      PROVE  n # boundary' /\ \A x \in Chat!Compactors : view'[x].last # n
  <2>1. n # 0 /\ n # boundary /\ \A x \in Chat!Compactors : view[x].last # n
    BY <1>6 DEF Unused
  <2>2. n # boundary' BY <2>1 DEF Chat!Summarize
  <2> QED BY <1>1, <2>1, <2>2, NoViewIsOne
<1> QED BY <1>5, <1>6

\* A summary is stored or thrown away, and nothing else happens.
LEMMA StoreKeeps ==
  ASSUME Remembered, NEW c \in Chat!Compactors, UNCHANGED <<msgs, late, clock>>,
         \/ Chat!Summarize(c)
         \/ view' = [view EXCEPT ![c] = Chat!NoView] /\ UNCHANGED <<boundary, summary>>
  PROVE  Remembered' /\ \A n \in Nat : Unused(n) => Unused(n)'
<1>1. Whole(msgs', late', boundary', summary', view', clock') BY StoreIsComplete
<1>2. Remembered' BY <1>1 DEF Remembered, Whole
<1>3. ASSUME NEW n \in Nat, Unused(n) PROVE Unused(n)' BY <1>3, StoreIsComplete DEF Unused
<1> QED BY <1>2, <1>3

\* A message is committed, with the compaction that was stored before it.
LEMMA CommitIsComplete ==
  ASSUME Assumed, NEW m \in Nat, Unused(m), Chat!CommitMessage(m), clock' = clock,
         Whole(msgs, late, boundary', summary', view', clock),
         \A n \in Nat : Unused(n) =>
           n # boundary' /\ \A x \in Chat!Compactors : view'[x].last # n
  PROVE  Remembered' /\ \A n \in Nat : Unused(n) /\ n # m => Unused(n)'
<1>0. /\ clock \in Nat /\ msgs \subseteq 1..clock /\ boundary' \in 0..clock
      /\ summary' \in SUBSET Nat /\ view' \in [Chat!Compactors -> Views]
      /\ Covers(msgs, late, boundary', summary')
      /\ \A x \in Chat!Compactors :
           /\ view'[x].last \in 0..clock
           /\ Covers(msgs, late, view'[x].last, view'[x].messages \cup view'[x].summary)
  BY DEF Whole
<1>1. /\ m \in 1..clock /\ m \notin msgs /\ m # boundary'
      /\ \A x \in Chat!Compactors : view'[x].last # m
  BY DEF Unused
<1>2. /\ msgs' = msgs \cup {m}
      /\ late' = IF Chat!Later(msgs, m) = {} THEN late ELSE late \cup {m}
  BY DEF Chat!CommitMessage
<1>3. Covers(msgs', late', boundary', summary') BY <1>0, <1>1, <1>2, CommitCovers
<1>4. ASSUME NEW x \in Chat!Compactors
      PROVE  Covers(msgs', late', view'[x].last, view'[x].messages \cup view'[x].summary)
  <2> DEFINE b == view'[x].last
             S == view'[x].messages \cup view'[x].summary
  <2>1. b \in 0..clock /\ b # m /\ Covers(msgs, late, b, S) BY <1>0, <1>1
  <2> HIDE DEF b, S
  <2>2. Covers(msgs', late', b, S) BY <1>0, <1>1, <1>2, <2>1, CommitCovers
  <2> QED BY <2>2 DEF b, S
<1>5. msgs' \subseteq 1..clock BY <1>0, <1>1, <1>2
<1>6. Remembered' BY <1>0, <1>3, <1>4, <1>5 DEF Remembered, Whole
<1>7. ASSUME NEW n \in Nat, Unused(n), n # m PROVE Unused(n)' BY <1>2, <1>7 DEF Unused
<1> QED BY <1>6, <1>7

\* Where messages are deleted, the boundary among them or not, none is forgotten.
LEMMA DeletionKeeps ==
  ASSUME Remembered, msgs' = {} \/ \E k \in Nat : msgs' = {n \in msgs : n < k},
         UNCHANGED <<late, clock, boundary, summary, view>>
  PROVE  Remembered' /\ \A n \in Nat : Unused(n) => Unused(n)'
<1>0. /\ clock \in Nat /\ msgs \subseteq 1..clock /\ boundary \in 0..clock
      /\ summary \in SUBSET Nat /\ view \in [Chat!Compactors -> Views]
      /\ Covers(msgs, late, boundary, summary)
      /\ \A x \in Chat!Compactors :
           /\ view[x].last \in 0..clock
           /\ Covers(msgs, late, view[x].last, view[x].messages \cup view[x].summary)
  BY DEF Remembered, Whole
<1>1. msgs' \subseteq msgs OBVIOUS
<1>2. ASSUME NEW b \in 0..clock, NEW S, Covers(msgs, late, b, S)
      PROVE  Covers(msgs', late, b, S)
  <2>1. CASE msgs' = {} BY <2>1 DEF Covers
  <2>2. ASSUME NEW k \in Nat, msgs' = {n \in msgs : n < k} PROVE Covers(msgs', late, b, S)
    BY <1>0, <1>2, <2>2, CutCovers
  <2> QED BY <2>1, <2>2
<1>3. Remembered' BY <1>0, <1>1, <1>2 DEF Remembered, Whole
<1>4. ASSUME NEW n \in Nat, Unused(n) PROVE Unused(n)' BY <1>1, <1>4 DEF Unused
<1> QED BY <1>3, <1>4

\* The messages that wait for their commit still do, but for the one that was number m.
LEMMA WaitingStays ==
  ASSUME Waiting, NEW m, UNCHANGED message, message \in [Senders -> Nat], reply \in Nat,
         \A n \in Nat : Unused(n) /\ n # m => Unused(n)',
         \A r \in Senders : Writing(r)' => Writing(r) /\ message[r] # m,
         answerer' = "written" => answerer = "written" /\ reply' = reply /\ reply # m
  PROVE  Waiting'
BY DEF Waiting, Writing
-----------------------------------------------------------------------------
\* One request goes on.
LEMMA SendStepKeeps ==
  ASSUME ChatInv, Assumed, NEW r \in Senders, Chat!SendStep(r)
  PROVE  ChatInv'
<1> USE DEF Chat!historyVars, Chat!workVars, Chat!sendVars
<1>0. /\ send \in [Senders -> Sends] /\ message \in [Senders -> Nat] /\ reply \in Nat
      /\ \A x \in Senders : send[x] = "added" <=> lock = x
      /\ Nobody \notin Senders /\ "worker" \notin Senders /\ Nobody # "worker"
      /\ lock \in Senders \cup {"worker", Nobody}
      /\ Remembered /\ Waiting
  BY DEF ChatInv, ChatTyped, Held, Assumed
<1>1. CASE \/ Chat!BeginSend(r) \/ Chat!DispatchSend(r) \/ (\E f \in Files : Chat!Claim(r, f))
           \/ (Chat!Insert(r) /\ ~exists)
  <2>1. /\ UNCHANGED history /\ UNCHANGED <<clock, message, reply, lock, answerer>>
        /\ ~Writing(r)
        /\ \E s \in Sends : s \notin {"inserted", "added"} /\ send' = [send EXCEPT ![r] = s]
    <3>1. CASE Chat!BeginSend(r) BY <3>1 DEF Chat!BeginSend, history, Sends, Writing
    <3>2. CASE Chat!DispatchSend(r) BY <3>2 DEF Chat!DispatchSend, history, Sends, Writing
    <3>3. ASSUME NEW f \in Files, Chat!Claim(r, f)
          PROVE  /\ UNCHANGED history /\ UNCHANGED <<clock, message, reply, lock, answerer>>
                 /\ ~Writing(r)
                 /\ \E s \in Sends : /\ s \notin {"inserted", "added"}
                                     /\ send' = [send EXCEPT ![r] = s]
      <4>1. send = [send EXCEPT ![r] = send[r]] BY <1>0
      <4> QED BY <1>0, <3>3, <4>1 DEF Chat!Claim, history, Sends, Writing
    <3>4. CASE Chat!Insert(r) /\ ~exists
      BY <3>4 DEF Chat!Insert, history, Sends, Writing
    <3> QED BY <1>1, <3>1, <3>2, <3>3, <3>4
  <2>2. /\ send' \in [Senders -> Sends]
        /\ \A x \in Senders : send'[x] = "added" <=> send[x] = "added"
        /\ \A x \in Senders : Writing(x)' => Writing(x)
    BY <1>0, <2>1 DEF Writing
  <2>3. Held' BY <2>1, <2>2 DEF ChatInv, Held
  <2>4. Remembered' /\ \A n \in Nat : Unused(n) => Unused(n)' BY <1>0, <2>1, HistoryStays
  <2>5. Waiting'
    <3>1. \A x \in Senders : Writing(x) => message[x] # 0 BY <1>0 DEF Waiting, Unused
    <3>2. answerer = "written" => reply # 0 BY <1>0 DEF Waiting, Unused
    <3> QED BY <1>0, <2>1, <2>2, <2>4, <3>1, <3>2, WaitingStays
  <2> QED BY <1>0, <2>1, <2>2, <2>3, <2>4, <2>5 DEF ChatInv, ChatTyped
<1>2. CASE Chat!Insert(r) /\ exists
  <2>1. /\ send' = [send EXCEPT ![r] = "inserted"] /\ send[r] = "claiming"
        /\ clock' = clock + 1 /\ message' = [message EXCEPT ![r] = clock + 1]
        /\ UNCHANGED history /\ UNCHANGED <<reply, lock, answerer>>
    BY <1>2 DEF Chat!Insert, history
  <2>2. clock \in Nat BY <1>0 DEF Remembered, Whole
  <2>3. /\ send' \in [Senders -> Sends] /\ message' \in [Senders -> Nat]
        /\ \A x \in Senders : send'[x] = "added" <=> send[x] = "added"
        /\ \A x \in Senders : x # r => (Writing(x)' <=> Writing(x)) /\ message'[x] = message[x]
        /\ message'[r] = clock + 1
    BY <1>0, <2>1, <2>2 DEF Sends, Writing
  <2>4. Held' BY <2>1, <2>3 DEF ChatInv, Held
  <2>5. Remembered' /\ \A n \in Nat : Unused(n) => Unused(n)' BY <1>0, <2>1, HistoryStays
  <2>6. Unused(clock)' /\ \A n \in Nat : Unused(n) => n # clock + 1
    BY <1>0, <2>1, NextIsUnused
  <2>7. /\ \A x \in Senders : Writing(x)' => Unused(message[x])'
        /\ answerer' = "written" => Unused(reply)'
    <3>1. ASSUME NEW x \in Senders, Writing(x)' PROVE Unused(message[x])'
      <4>1. CASE x = r BY <2>1, <2>3, <2>6, <4>1 DEF Unused
      <4>2. CASE x # r BY <1>0, <2>3, <2>5, <3>1, <4>2 DEF Waiting, Unused
      <4> QED BY <4>1, <4>2
    <3>2. answerer' = "written" => Unused(reply)' BY <1>0, <2>1, <2>5 DEF Waiting, Unused
    <3> QED BY <3>1, <3>2
  <2>8. Waiting' BY <1>0, <2>1, <2>3, <2>6, <2>7 DEF Waiting
  <2> QED BY <1>0, <2>1, <2>3, <2>4, <2>5, <2>8 DEF ChatInv, ChatTyped
<1>3. CASE Chat!AddMessage(r) \/ Chat!SendFails(r)
  <2>1. /\ Writing(r) /\ UNCHANGED history /\ UNCHANGED <<clock, message, reply, answerer>>
        /\ \/ /\ send' = [send EXCEPT ![r] = "added"] /\ lock = Nobody /\ lock' = r
           \/ /\ send' = [send EXCEPT ![r] = "refused"]
              /\ lock' = IF lock = r THEN Nobody ELSE lock
    BY <1>3 DEF Chat!AddMessage, Chat!SendFails, history, Writing
  <2>2. /\ send' \in [Senders -> Sends]
        /\ \A x \in Senders : x # r => send'[x] = send[x]
    BY <1>0, <2>1 DEF Sends
  <2>3. send'[r] = "added" <=> send' = [send EXCEPT ![r] = "added"] BY <1>0, <2>1
  <2>4. Held' BY <1>0, <2>1, <2>2, <2>3 DEF ChatInv, Held
  <2>5. Remembered' /\ \A n \in Nat : Unused(n) => Unused(n)' BY <1>0, <2>1, HistoryStays
  <2>6. Waiting'
    <3>1. \A x \in Senders : Writing(x) => message[x] # 0 BY <1>0 DEF Waiting, Unused
    <3>2. answerer = "written" => reply # 0 BY <1>0 DEF Waiting, Unused
    <3>3. \A x \in Senders : Writing(x)' => Writing(x) BY <2>1, <2>2 DEF Writing
    <3> QED BY <1>0, <2>1, <2>5, <3>1, <3>2, <3>3, WaitingStays
  <2> QED BY <1>0, <2>1, <2>2, <2>4, <2>5, <2>6 DEF ChatInv, ChatTyped
<1>4. CASE Chat!CommitSend(r)
  <2>1. /\ send[r] = "added" /\ send' = [send EXCEPT ![r] = "committed"] /\ lock' = Nobody
        /\ Chat!CommitMessage(message[r])
        /\ UNCHANGED <<clock, boundary, summary, view, message, reply, answerer>>
    BY <1>4 DEF Chat!CommitSend
  <2>2. /\ send' \in [Senders -> Sends] /\ \A x \in Senders : send'[x] # "added"
        /\ \A x \in Senders : Writing(x)' => Writing(x) /\ x # r
    BY <1>0, <2>1 DEF Sends, Writing
  <2>3. Writing(r) /\ Unused(message[r]) /\ message[r] \in Nat
    BY <1>0, <2>1 DEF Writing, Waiting
  <2>4. Held' BY <1>0, <2>1, <2>2 DEF Held
  <2>5. /\ Whole(msgs, late, boundary', summary', view', clock)
        /\ \A n \in Nat : Unused(n) =>
             n # boundary' /\ \A x \in Chat!Compactors : view'[x].last # n
    BY <1>0, <2>1 DEF Remembered, Unused
  <2>6. Remembered' /\ \A n \in Nat : Unused(n) /\ n # message[r] => Unused(n)'
    BY <2>1, <2>3, <2>5, CommitIsComplete
  <2>7. /\ \A x \in Senders : Writing(x)' => Writing(x) /\ message[x] # message[r]
        /\ answerer = "written" => reply # message[r]
    BY <1>0, <2>2, <2>3 DEF Waiting
  <2>8. Waiting' BY <1>0, <2>1, <2>6, <2>7, WaitingStays
  <2> QED BY <1>0, <2>1, <2>2, <2>4, <2>6, <2>8 DEF ChatInv, ChatTyped
<1> QED BY <1>1, <1>2, <1>3, <1>4 DEF Chat!SendStep

\* A step of somebody else that commits no message.
LEMMA OthersKeep ==
  ASSUME ChatInv, UNCHANGED <<send, message>>, reply' \in Nat,
         Remembered', \A n \in Nat : Unused(n) => Unused(n)', Held',
         answerer' = "written" => answerer = "written" /\ reply' = reply
  PROVE  ChatInv'
<1>1. \A x \in Senders : Writing(x) => message[x] # 0 BY DEF ChatInv, Waiting, Unused
<1>2. answerer = "written" => reply # 0 BY DEF ChatInv, Waiting, Unused
<1>3. \A x \in Senders : Writing(x)' => Writing(x) BY DEF Writing
<1>4. Waiting' BY <1>1, <1>2, <1>3, WaitingStays DEF ChatInv, ChatTyped
<1> QED BY <1>4 DEF ChatInv, ChatTyped

\* The compaction of an execution, stored with the execution or not there.
LEMMA CommittedCompaction ==
  ASSUME Remembered, Chat!CommitCompaction
  PROVE  /\ Whole(msgs, late, boundary', summary', view', clock)
         /\ \A n \in Nat : Unused(n) =>
              n # boundary' /\ \A x \in Chat!Compactors : view'[x].last # n
<1>1. CASE view["worker"] # Chat!NoView
  <2>1. Chat!Summarize("worker") BY <1>1 DEF Chat!CommitCompaction
  <2> QED BY <2>1, StoreIsComplete DEF Chat!Compactors
<1>2. CASE view["worker"] = Chat!NoView
  <2>1. UNCHANGED <<boundary, summary, view>>
    BY <1>2 DEF Chat!CommitCompaction, Chat!historyVars
  <2> QED BY <2>1 DEF Remembered, Unused
<1> QED BY <1>1, <1>2

\* The worker goes on.
LEMMA WorkerStepKeeps ==
  ASSUME ChatInv, Assumed, Chat!WorkerStep
  PROVE  ChatInv'
<1> USE DEF Chat!historyVars, Chat!sendVars
<1>0. /\ send \in [Senders -> Sends] /\ message \in [Senders -> Nat] /\ reply \in Nat
      /\ \A x \in Senders : send[x] = "added" <=> lock = x
      /\ lock = "worker" => answerer \in {"answering", "written"}
      /\ Nobody \notin Senders /\ "worker" \notin Senders /\ Nobody # "worker"
      /\ lock \in Senders \cup {"worker", Nobody}
      /\ Remembered /\ Waiting
  BY DEF ChatInv, ChatTyped, Held, Assumed
<1>1. CASE (\E r \in Senders : Chat!Begin(r)) \/ Chat!CleanupCount
  <2>1. /\ UNCHANGED history /\ UNCHANGED <<clock, send, message, reply, lock>>
        /\ answerer \notin {"answering", "written"} /\ answerer' # "written"
    BY <1>1 DEF Chat!Begin, Chat!CleanupCount, history
  <2>2. Held' BY <1>0, <2>1 DEF Held
  <2> QED BY <1>0, <2>1, <2>2, HistoryStays, OthersKeep
<1>2. CASE Chat!EndCompaction
  <2>1. /\ UNCHANGED <<msgs, late, clock, boundary, summary, send, message, reply>>
        /\ answerer' = "answering"
        /\ \/ lock = Nobody /\ lock' = "worker" /\ UNCHANGED view
           \/ view' = [view EXCEPT !["worker"] = Chat!NoView] /\ UNCHANGED lock
    BY <1>2 DEF Chat!EndCompaction
  <2>2. Held' BY <1>0, <2>1 DEF Held
  <2>3. Remembered' /\ \A n \in Nat : Unused(n) => Unused(n)'
    <3>1. CASE UNCHANGED view BY <1>0, <2>1, <3>1, HistoryStays DEF history
    <3>2. CASE view' = [view EXCEPT !["worker"] = Chat!NoView]
      BY <1>0, <2>1, <3>2, StoreKeeps DEF Chat!Compactors
    <3> QED BY <2>1, <3>1, <3>2
  <2> QED BY <1>0, <2>1, <2>2, <2>3, OthersKeep
<1>3. CASE Chat!Write
  <2>1. /\ UNCHANGED history /\ UNCHANGED <<send, message, lock>>
        /\ clock' = clock + 1 /\ reply' = clock + 1 /\ answerer' = "written"
        /\ answerer \in {"running", "answering"}
    BY <1>3 DEF Chat!Write, history
  <2>2. clock \in Nat /\ reply' \in Nat
    <3>1. clock \in Nat BY <1>0 DEF Remembered, Whole
    <3> QED BY <2>1, <3>1
  <2>3. Held' BY <1>0, <2>1 DEF Held
  <2>4. Remembered' /\ \A n \in Nat : Unused(n) => Unused(n)' BY <1>0, <2>1, HistoryStays
  <2>5. Unused(clock)' /\ \A n \in Nat : Unused(n) => n # clock + 1
    BY <1>0, <2>1, NextIsUnused
  <2>6. \A x \in Senders : Writing(x)' => Unused(message[x])'
    BY <1>0, <2>1, <2>4 DEF Waiting, Writing, Unused
  <2>7. Unused(reply)' BY <2>1, <2>5 DEF Unused
  <2>8. Waiting' BY <1>0, <2>1, <2>5, <2>6, <2>7 DEF Waiting, Writing
  <2> QED BY <1>0, <2>1, <2>2, <2>3, <2>4, <2>8 DEF ChatInv, ChatTyped
<1>4. CASE Chat!Answer
  <2>1. /\ lock \in {Nobody, "worker"} /\ lock' = Nobody /\ clock' = clock
        /\ Chat!CommitMessage(reply) /\ Chat!CommitCompaction
        /\ answerer = "written" /\ answerer' = "idle" /\ reply' = 0
        /\ UNCHANGED <<send, message>>
    BY <1>4 DEF Chat!Answer
  <2>2. \A x \in Senders : send[x] # "added" BY <1>0, <2>1
  <2>3. Held' BY <1>0, <2>1, <2>2 DEF Held
  <2>4. Unused(reply) BY <1>0, <2>1 DEF Waiting
  <2>5. Remembered' /\ \A n \in Nat : Unused(n) /\ n # reply => Unused(n)'
    BY <1>0, <2>1, <2>4, CommittedCompaction, CommitIsComplete
  <2>6. \A x \in Senders : Writing(x)' => Writing(x) /\ message[x] # reply
    BY <1>0, <2>1 DEF Waiting, Writing
  <2>7. Waiting' BY <1>0, <2>1, <2>5, <2>6, WaitingStays
  <2> QED BY <1>0, <2>1, <2>3, <2>5, <2>7 DEF ChatInv, ChatTyped
<1>5. CASE Chat!Stop
  <2>1. /\ UNCHANGED <<msgs, late, clock, send, message, reply>> /\ Chat!CommitCompaction
        /\ lock' = IF lock = "worker" THEN Nobody ELSE lock
        /\ answerer' = "stopped"
    BY <1>5 DEF Chat!Stop
  <2>2. Held' BY <1>0, <2>1 DEF Held
  <2>3. Remembered' /\ \A n \in Nat : Unused(n) => Unused(n)'
    BY <1>0, <2>1, CommittedCompaction DEF Remembered, Whole, Unused
  <2> QED BY <1>0, <2>1, <2>2, <2>3, OthersKeep
<1>6. CASE Chat!CleanupDelete
  <2>1. /\ UNCHANGED <<late, clock, boundary, summary, view, lock, send, message, reply>>
        /\ msgs' = msgs \/ msgs' = {}
        /\ answerer = "counted" /\ answerer' = "idle"
    BY <1>6 DEF Chat!CleanupDelete
  <2>2. Held' BY <1>0, <2>1 DEF Held
  <2>3. Remembered' /\ \A n \in Nat : Unused(n) => Unused(n)'
    BY <1>0, <2>1, HistoryStays, DeletionKeeps DEF history
  <2> QED BY <1>0, <2>1, <2>2, <2>3, OthersKeep
<1> QED BY <1>1, <1>2, <1>3, <1>4, <1>5, <1>6 DEF Chat!WorkerStep

\* What the user, the clock and the request for a compaction do.
LEMMA OtherStepsKeep ==
  ASSUME ChatInv, Assumed,
         \/ Chat!StoreCompaction \/ Chat!DeleteConversation \/ Chat!PatchConfig
         \/ \E k \in msgs : Chat!AskCompaction(k) \/ Chat!BeginCompaction(k) \/ Chat!DeleteFrom(k)
         \/ \E f \in Files : Chat!Upload(f) \/ Chat!Expire(f) \/ Chat!Age(f) \/ Chat!Scan(f)
         \/ UNCHANGED Chat!vars
  PROVE  ChatInv'
<1> USE DEF Chat!historyVars, Chat!sendVars, Chat!workVars
<1>0. /\ reply \in Nat /\ Remembered
      /\ \A x \in Senders : send[x] = "added" <=> lock = x
      /\ lock = "worker" => answerer \in {"answering", "written"}
      /\ lock \in Senders \cup {"worker", Nobody}
  BY DEF ChatInv, ChatTyped, Held
<1>1. CASE Chat!StoreCompaction
  <2>1. /\ UNCHANGED <<msgs, late, clock, send, message, reply, lock, answerer>>
        /\ \/ Chat!Summarize("asked")
           \/ /\ view' = [view EXCEPT !["asked"] = Chat!NoView]
              /\ UNCHANGED <<boundary, summary>>
    BY <1>1 DEF Chat!StoreCompaction
  <2>2. Held' BY <1>0, <2>1 DEF Held
  <2>3. Remembered' /\ \A n \in Nat : Unused(n) => Unused(n)'
    BY <1>0, <2>1, StoreKeeps DEF Chat!Compactors
  <2> QED BY <1>0, <2>1, <2>2, <2>3, OthersKeep
<1>2. CASE Chat!DeleteConversation
  <2>1. /\ UNCHANGED <<late, clock, boundary, summary, view, send, message, reply, lock, answerer>>
        /\ msgs' = {}
    BY <1>2 DEF Chat!DeleteConversation
  <2>2. Held' BY <1>0, <2>1 DEF Held
  <2> QED BY <1>0, <2>1, <2>2, DeletionKeeps, OthersKeep
<1>3. CASE Chat!PatchConfig
  <2>1. /\ UNCHANGED <<msgs, late, clock, summary, view, send, message, reply, lock, answerer>>
        /\ boundary' \in {0, boundary}
    BY <1>3 DEF Chat!PatchConfig
  <2>2. Held' BY <1>0, <2>1 DEF Held
  <2>3. Covers(msgs, late, 0, summary) /\ 0 \in 0..clock
    BY <1>0 DEF Covers, Remembered, Whole
  <2>4. Remembered' BY <1>0, <2>1, <2>3 DEF Remembered, Whole
  <2>5. \A n \in Nat : Unused(n) => Unused(n)' BY <2>1 DEF Unused
  <2> QED BY <1>0, <2>1, <2>2, <2>4, <2>5, OthersKeep
<1>4. ASSUME NEW k \in msgs, Chat!AskCompaction(k) \/ Chat!BeginCompaction(k) PROVE ChatInv'
  <2>1. /\ UNCHANGED <<msgs, late, clock, boundary, summary, send, message, reply, lock>>
        /\ \E c \in Chat!Compactors : Chat!Look(c, k)
        /\ \/ answerer' = answerer
           \/ answerer = "running" /\ answerer' = "compacting"
    BY <1>4 DEF Chat!AskCompaction, Chat!BeginCompaction, Chat!Compactors
  <2>2. Held' BY <1>0, <2>1 DEF Held
  <2>3. Remembered' /\ \A n \in Nat : Unused(n) => Unused(n)' BY <1>0, <2>1, LookIsComplete
  <2> QED BY <1>0, <2>1, <2>2, <2>3, OthersKeep
<1>5. ASSUME NEW k \in msgs, Chat!DeleteFrom(k) PROVE ChatInv'
  <2>1. /\ UNCHANGED <<late, clock, boundary, summary, view, send, message, reply, lock, answerer>>
        /\ msgs' = {n \in msgs : n < k}
    BY <1>5 DEF Chat!DeleteFrom
  <2>2. k \in Nat BY <1>0 DEF Remembered, Whole
  <2>3. Held' BY <1>0, <2>1 DEF Held
  <2>4. Remembered' /\ \A n \in Nat : Unused(n) => Unused(n)'
    BY <1>0, <2>1, <2>2, DeletionKeeps
  <2> QED BY <1>0, <2>1, <2>3, <2>4, OthersKeep
<1>6. CASE \/ \E f \in Files : Chat!Upload(f) \/ Chat!Expire(f) \/ Chat!Age(f) \/ Chat!Scan(f)
           \/ UNCHANGED Chat!vars
  <2>1. UNCHANGED history /\ UNCHANGED <<clock, send, message, reply, lock, answerer>>
    BY <1>6 DEF Chat!Upload, Chat!Expire, Chat!Age, Chat!Scan, Chat!vars, history
  <2>2. Held' BY <1>0, <2>1 DEF Held
  <2> QED BY <1>0, <2>1, <2>2, HistoryStays, OthersKeep
<1> QED BY <1>1, <1>2, <1>3, <1>4, <1>5, <1>6

\* The invariant holds of a new conversation.
LEMMA ChatBegins == Assumed /\ Chat!Init => ChatInv
<1> SUFFICES ASSUME Assumed, Chat!Init PROVE ChatInv OBVIOUS
<1>1. /\ clock = 0 /\ boundary = 0 /\ msgs = {} /\ summary = {} /\ lock = Nobody
      /\ send = [r \in Senders |-> "idle"] /\ message = [r \in Senders |-> 0]
      /\ view = [c \in Chat!Compactors |-> Chat!NoView]
      /\ answerer = "idle" /\ reply = 0
  BY DEF Chat!Init
<1>2. ChatTyped BY <1>1 DEF ChatTyped, Sends
<1>3. Remembered BY <1>1, NoViewIsOne DEF Remembered, Whole, Covers
<1>4. Waiting BY <1>1 DEF Waiting, Writing
<1>5. Held BY <1>1 DEF Held, Assumed
<1> QED BY <1>2, <1>3, <1>4, <1>5 DEF ChatInv

\* The invariant is inductive.
LEMMA ChatInductive == ASSUME Assumed PROVE Chat!Spec => []ChatInv
<1>1. Chat!Init => ChatInv BY ChatBegins
<1>2. ChatInv /\ [Chat!Next]_Chat!vars => ChatInv'
  <2> SUFFICES ASSUME ChatInv, [Chat!Next]_Chat!vars PROVE ChatInv' OBVIOUS
  <2> QED BY SendStepKeeps, WorkerStepKeeps, OtherStepsKeep DEF Chat!Next
<1> QED BY <1>1, <1>2, PTL DEF Chat!Spec

(***************************************************************************)
(* NothingForgotten: a message behind the boundary is in the summary, or   *)
(* as many newer ones as a compaction shows the model are behind it too,   *)
(* whatever compactions ran beside each other, and whatever was edited,    *)
(* deleted or patched while the model wrote; but for messages that were    *)
(* committed after a later one.                                            *)
(***************************************************************************)
THEOREM MessagesAreRemembered == ASSUME Assumed PROVE Chat!Spec => []NothingForgotten
<1>1. ChatInv => NothingForgotten
  <2> SUFFICES ASSUME ChatInv, NEW m \in msgs \ late, m \notin Visible \cup summary
               PROVE  Cardinality({n \in Later(msgs, m) : n <= boundary}) >= MessageCap
    BY DEF NothingForgotten
  <2>1. /\ boundary \in msgs /\ m <= boundary
        /\ Covers(msgs, late, boundary, summary)
    BY DEF ChatInv, Remembered, Whole, Visible
  <2>2. {n \in Later(msgs, m) : n <= boundary} = Between(msgs, m, boundary)
    BY DEF Later, Between
  <2> QED BY <2>1, <2>2 DEF Covers
<1> QED BY <1>1, ChatInductive, PTL

(***************************************************************************)
(* The lock of the row is with a request that has yet to commit, or with a *)
(* worker that has yet to answer: whoever waits for it waits for somebody  *)
(* who is at work, and not for a holder that has gone.                     *)
(***************************************************************************)
LockHasAHolder ==
    lock # Nobody => \/ lock = "worker" /\ answerer \in {"answering", "written"}
                     \/ lock \in Senders /\ send[lock] = "added"
\* No lock outlives the transaction that took it: Conversation's locks.
THEOREM LockIsHeld == ASSUME Assumed PROVE Chat!Spec => []LockHasAHolder
<1>1. ChatInv => LockHasAHolder
  BY DEF ChatInv, Held, LockHasAHolder
<1> QED BY <1>1, ChatInductive, PTL
=============================================================================
