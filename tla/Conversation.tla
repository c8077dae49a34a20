---------------------------- MODULE Conversation ----------------------------
(***************************************************************************)
(* One conversation: the requests that send messages with attachments, the *)
(* worker that answers them, when its history (History) is compacted, and  *)
(* everything that takes something away: the user who edits or deletes,    *)
(* the cleanup after a cancelled first message, the hourly scan for        *)
(* attachments nobody claimed.                                             *)
(*                                                                         *)
(* A message gets its created_at, here its number, at its INSERT, which    *)
(* keeps the conversation from being deleted and nothing else.  An UPDATE  *)
(* of the conversation's row, which comes after it, holds the lock of the  *)
(* row until the transaction ends.                                         *)
(***************************************************************************)
EXTENDS History

CONSTANTS
    Requests,        \* requests to send a message
    Files,           \* uploaded attachments
    Attached,        \* the files each request sends
    Nobody,          \* no holder of the row lock, no request at the worker
    MaxDeletes, MaxPatches, MaxCompactions  \* bounds

ASSUME AttachedAssumption == Attached \in [Requests -> SUBSET Files]
ASSUME NobodyAssumption == Nobody \notin Requests \cup {"worker"} /\ "worker" \notin Requests
ASSUME ConversationBoundsAssumption ==
    {MinMessages, MinCompacted, MessageCap, MaxDeletes, MaxPatches, MaxCompactions}
        \subseteq Nat

VARIABLES
    exists,      \* the conversation's row
    clock,       \* the number of the last message
    lock,        \* who holds the lock of the row: a request, the worker, nobody
    send,        \* per request: the await it is at
    claimed,     \* per request: the files it has taken from Redis
    message,     \* per request: the number of its message
    exec,        \* per request: its execution
    worker, job, \* what the worker does, and for which request
    reply,       \* the number of its answer
    counted,     \* the messages the cleanup counted
    keyed,       \* files with a key attachment:{id}
    stored,      \* files whose object is in the store
    aged,        \* files older than the threshold of the scan
    deletes, patches, compactions

sendVars == <<send, claimed, message>>
workVars == <<exec, worker, job, reply, counted>>
fileVars == <<keyed, stored, aged>>
used == <<deletes, patches, compactions>>
vars == <<exists, msgs, late, clock, lock, sendVars, workVars, historyVars, fileVars, used>>

Numbers == 0..2 * Cardinality(Requests)

TypeOK ==
    /\ exists \in BOOLEAN /\ msgs \subseteq Numbers \ {0} /\ clock \in Numbers
    /\ boundary \in Numbers /\ summary \subseteq Numbers /\ late \subseteq Numbers
    /\ lock \in Requests \cup {"worker", Nobody}
    /\ lock \in Requests => send[lock] = "added"
    /\ send \in [Requests -> {"idle", "claiming", "inserted", "added", "committed", "sent",
                            "refused"}]
    /\ claimed \in [Requests -> SUBSET Files] /\ message \in [Requests -> Numbers]
    /\ exec \in [Requests -> {"none", "pending", "queued", "running", "completed", "stopped", "gone"}]
    /\ worker \in {"idle", "running", "compacting", "answering", "written", "stopped", "counted"}
    /\ job \in Requests \cup {Nobody} /\ reply \in Numbers /\ counted \in 0..Cardinality(Numbers)
    /\ view \in [Compactors -> [messages : SUBSET Numbers, summary : SUBSET Numbers, last : Numbers]]
    /\ keyed \subseteq Files /\ stored \subseteq Files /\ aged \subseteq Files
    /\ deletes \in 0..MaxDeletes /\ patches \in 0..MaxPatches
    /\ compactions \in 0..MaxCompactions

Init ==
    /\ exists = TRUE /\ msgs = {} /\ clock = 0 /\ boundary = 0 /\ summary = {} /\ late = {}
    /\ lock = Nobody
    /\ send = [r \in Requests |-> "idle"] /\ claimed = [r \in Requests |-> {}]
    /\ message = [r \in Requests |-> 0] /\ exec = [r \in Requests |-> "none"]
    /\ worker = "idle" /\ job = Nobody /\ reply = 0 /\ counted = 0
    /\ view = [c \in Compactors |-> NoView]
    /\ keyed = {} /\ stored = {} /\ aged = {}
    /\ deletes = 0 /\ patches = 0 /\ compactions = 0

-----------------------------------------------------------------------------
(* send_message.                                                           *)

\* The file is in the store before its key is in Redis.
Upload(f) ==
    /\ exists /\ f \notin stored \cup aged
    /\ stored' = stored \cup {f} /\ keyed' = keyed \cup {f}
    /\ UNCHANGED <<exists, msgs, late, clock, lock, sendVars, workVars, historyVars, aged,
                   used>>

BeginSend(r) ==
    /\ send[r] = "idle" /\ exists
    /\ Attached[r] \subseteq stored \cup aged
    /\ send' = [send EXCEPT ![r] = "claiming"]
    /\ UNCHANGED <<exists, msgs, late, clock, lock, claimed, message, workVars, historyVars,
                   fileVars, used>>

\* GET and DELETE of one key after the other; a key that is missing refuses the
\* request, and those taken before it stay taken.
Claim(r, f) ==
    /\ send[r] = "claiming" /\ f \in Attached[r] \ claimed[r]
    /\ IF f \in keyed
       THEN /\ keyed' = keyed \ {f}
            /\ claimed' = [claimed EXCEPT ![r] = @ \cup {f}]
            /\ UNCHANGED send
       ELSE /\ send' = [send EXCEPT ![r] = "refused"]
            /\ UNCHANGED <<keyed, claimed>>
    /\ UNCHANGED <<exists, msgs, late, clock, lock, message, workVars, historyVars, stored,
                   aged, used>>

\* add_message: the INSERT, which fails without a conversation ...
Insert(r) ==
    /\ send[r] = "claiming" /\ claimed[r] = Attached[r]
    /\ IF exists
       THEN /\ send' = [send EXCEPT ![r] = "inserted"]
            /\ clock' = clock + 1
            /\ message' = [message EXCEPT ![r] = clock']
       ELSE /\ send' = [send EXCEPT ![r] = "refused"]
            /\ UNCHANGED <<clock, message>>
    /\ UNCHANGED <<exists, msgs, late, lock, claimed, workVars, historyVars, fileVars, used>>

\* ... and the UPDATE of the conversation, which waits for the lock of its row.
AddMessage(r) ==
    /\ send[r] = "inserted" /\ lock = Nobody
    /\ send' = [send EXCEPT ![r] = "added"]
    /\ lock' = r
    /\ UNCHANGED <<exists, msgs, late, clock, claimed, message, workVars, historyVars,
                   fileVars, used>>

\* Mistake: a request that fails keeps its transaction open.
SendFailsOpen(r) ==
    /\ \/ send[r] = "inserted" /\ lock # Nobody
       \/ send[r] = "added"
    /\ send' = [send EXCEPT ![r] = "refused"]
    /\ UNCHANGED <<exists, msgs, late, clock, lock, claimed, message, workVars, historyVars,
                   fileVars, used>>

\* The UPDATE waits for the lock longer than DB_COMMAND_TIMEOUT, or what comes
\* between the message and the commit fails: everything is rolled back but Redis.
SendFails(r) ==
    /\ \/ send[r] = "inserted" /\ lock # Nobody
       \/ send[r] = "added"
    /\ send' = [send EXCEPT ![r] = "refused"]
    /\ lock' = IF lock = r THEN Nobody ELSE lock
    /\ UNCHANGED <<exists, msgs, late, clock, claimed, message, workVars, historyVars,
                   fileVars, used>>

\* The message and its execution become visible.
CommitSend(r) ==
    /\ send[r] = "added"
    /\ send' = [send EXCEPT ![r] = "committed"]
    /\ CommitMessage(message[r])
    /\ exec' = [exec EXCEPT ![r] = "pending"]
    /\ lock' = Nobody
    /\ UNCHANGED <<exists, clock, claimed, message, worker, job, reply, counted, historyVars,
                   fileVars, used>>

\* Acquire and dispatch, or 429 and an execution nobody runs.
DispatchSend(r) ==
    /\ send[r] = "committed"
    /\ \/ /\ send' = [send EXCEPT ![r] = "sent"]
          /\ exec' = [exec EXCEPT ![r] = IF @ = "pending" THEN "queued" ELSE @]
       \/ send' = [send EXCEPT ![r] = "refused"] /\ UNCHANGED exec
    /\ UNCHANGED <<exists, msgs, late, clock, lock, claimed, message, worker, job, reply,
                   counted, historyVars, fileVars, used>>

-----------------------------------------------------------------------------
(* CompactionService.compact, for the worker and for POST /compact.        *)

AskCompaction(k) ==
    /\ exists /\ view["asked"] = NoView /\ compactions < MaxCompactions
    /\ compactions' = compactions + 1
    /\ Look("asked", k)
    /\ UNCHANGED <<exists, msgs, late, clock, lock, sendVars, workVars, boundary, summary,
                   fileVars, deletes, patches>>

\* The model answers, the row is updated and committed; or nothing comes of it.
StoreCompaction ==
    /\ view["asked"] # NoView
    /\ \/ exists /\ lock = Nobody /\ Summarize("asked")
       \/ view' = [view EXCEPT !["asked"] = NoView] /\ UNCHANGED <<summary, boundary>>
    /\ UNCHANGED <<exists, msgs, late, clock, lock, sendVars, workVars, fileVars, used>>

-----------------------------------------------------------------------------
(* The worker, one execution at a time.                                    *)

Begin(r) ==
    /\ worker = "idle" /\ exec[r] = "queued"
    /\ worker' = "running" /\ job' = r
    /\ exec' = [exec EXCEPT ![r] = "running"]
    /\ UNCHANGED <<exists, msgs, late, clock, lock, sendVars, reply, counted, historyVars,
                   fileVars, used>>

\* The history exceeds its budget: compact first, in the execution's transaction.
BeginCompaction(k) ==
    /\ worker = "running" /\ exists /\ compactions < MaxCompactions
    /\ compactions' = compactions + 1
    /\ worker' = "compacting"
    /\ Look("worker", k)
    /\ UNCHANGED <<exists, msgs, late, clock, lock, sendVars, exec, job, reply, counted,
                   boundary, summary, fileVars, deletes, patches>>

\* flush: from here to the end of the execution the lock is the worker's.  What
\* other sessions read changes at the commit; the worker commits in any case.
EndCompaction ==
    /\ worker = "compacting"
    /\ worker' = "answering"
    /\ \/ exists /\ lock = Nobody /\ lock' = "worker" /\ UNCHANGED view
       \/ view' = [view EXCEPT !["worker"] = NoView] /\ UNCHANGED lock
    /\ UNCHANGED <<exists, msgs, late, clock, sendVars, exec, job, reply, counted, boundary,
                   summary, fileVars, used>>

CommitCompaction ==
    IF view["worker"] # NoView THEN Summarize("worker") ELSE UNCHANGED historyVars

\* The INSERT of the assistant message ...
Write ==
    /\ worker \in {"running", "answering"}
    /\ worker' = "written"
    /\ clock' = clock + 1 /\ reply' = clock'
    /\ UNCHANGED <<exists, msgs, late, lock, sendVars, exec, job, counted, historyVars,
                   fileVars, used>>

\* ... and the UPDATE of the conversation and the commit, with the status.
Answer ==
    /\ worker = "written"
    /\ lock \in {Nobody, "worker"}
    /\ worker' = "idle" /\ job' = Nobody /\ reply' = 0
    /\ exec' = [exec EXCEPT ![job] = "completed"]
    /\ CommitMessage(reply)
    /\ lock' = Nobody
    /\ CommitCompaction
    /\ UNCHANGED <<exists, clock, sendVars, counted, fileVars, used>>

\* Mistake: the cancellation leaves the session of the execution open.
StopOpen ==
    /\ worker \in {"running", "answering"}
    /\ worker' = "stopped"
    /\ exec' = [exec EXCEPT ![job] = "stopped"]
    /\ CommitCompaction
    /\ UNCHANGED <<exists, msgs, late, clock, lock, sendVars, job, reply, counted, fileVars,
                   used>>

\* _handle_cancellation commits STOPPED, with whatever the session holds.
Stop ==
    /\ worker \in {"running", "answering"}
    /\ worker' = "stopped"
    /\ exec' = [exec EXCEPT ![job] = "stopped"]
    /\ lock' = IF lock = "worker" THEN Nobody ELSE lock
    /\ CommitCompaction
    /\ UNCHANGED <<exists, msgs, late, clock, sendVars, job, reply, counted, fileVars, used>>

CleanupCount ==
    /\ worker = "stopped"
    /\ worker' = "counted" /\ counted' = Cardinality(msgs)
    /\ UNCHANGED <<exists, msgs, late, clock, lock, sendVars, exec, job, reply, historyVars,
                   fileVars, used>>

Gone(S) == [r \in Requests |-> IF exec[r] = "none" \/ r \notin S THEN exec[r] ELSE "gone"]

\* Nobody has inserted a message that is not committed.
NoInserts == \A r \in Requests : send[r] \notin {"inserted", "added"}

\* The deletion cascades to messages and executions.
CleanupDelete ==
    /\ worker = "counted"
    /\ worker' = "idle" /\ job' = Nobody /\ counted' = 0
    /\ IF counted <= 1 /\ exists
       THEN /\ lock = Nobody /\ NoInserts
            /\ exists' = FALSE /\ msgs' = {}
            /\ exec' = Gone(Requests)
       ELSE UNCHANGED <<exists, msgs, exec>>
    /\ UNCHANGED <<late, clock, lock, sendVars, reply, historyVars, fileVars, used>>

-----------------------------------------------------------------------------
(* The user, and time.                                                     *)

\* Edit and regenerate delete a message and all after it; executions stay.
DeleteFrom(m) ==
    /\ m \in msgs /\ deletes < MaxDeletes
    /\ deletes' = deletes + 1
    /\ msgs' = {n \in msgs : n < m}
    /\ UNCHANGED <<exists, late, clock, lock, sendVars, workVars, historyVars, fileVars,
                   patches, compactions>>

\* The UPDATE of the executions waits for the one that runs.
DeleteConversation ==
    /\ exists /\ lock = Nobody /\ NoInserts /\ deletes < MaxDeletes
    /\ worker \notin {"running", "compacting", "answering", "written"}
    /\ deletes' = deletes + 1
    /\ exists' = FALSE /\ msgs' = {}
    /\ exec' = Gone(Requests)
    /\ UNCHANGED <<late, clock, lock, sendVars, worker, job, reply, counted, historyVars,
                   fileVars, patches, compactions>>

\* PATCH replaces the whole config, with the boundary that was in it, unless the client
\* sends that back.
PatchConfig ==
    /\ exists /\ lock = Nobody /\ patches < MaxPatches
    /\ patches' = patches + 1
    /\ boundary' \in {0, boundary}
    /\ UNCHANGED <<exists, msgs, late, clock, lock, sendVars, workVars, summary, view,
                   fileVars, deletes, compactions>>

\* ATTACHMENT_REDIS_TTL is one hour, the scan takes what is older than two.
Expire(f) ==
    /\ f \in keyed
    /\ keyed' = keyed \ {f}
    /\ UNCHANGED <<exists, msgs, late, clock, lock, sendVars, workVars, historyVars, stored,
                   aged, used>>

Age(f) ==
    /\ f \in stored \ keyed
    /\ aged' = aged \cup {f}
    /\ UNCHANGED <<exists, msgs, late, clock, lock, sendVars, workVars, historyVars, keyed,
                   stored, used>>

\* cleanup_orphaned_attachments asks for a key that nothing ever sets.
Scan(f) ==
    /\ f \in aged \cap stored
    /\ stored' = stored \ {f}
    /\ UNCHANGED <<exists, msgs, late, clock, lock, sendVars, workVars, historyVars, keyed,
                   aged, used>>

SendStep(r) ==
    \/ BeginSend(r) \/ Insert(r) \/ AddMessage(r) \/ SendFails(r)
    \/ CommitSend(r) \/ DispatchSend(r)
    \/ \E f \in Files : Claim(r, f)

WorkerStep ==
    \/ \E r \in Requests : Begin(r)
    \/ EndCompaction \/ Write \/ Answer \/ Stop \/ CleanupCount \/ CleanupDelete

Next ==
    \/ \E r \in Requests : SendStep(r)
    \/ WorkerStep \/ StoreCompaction
    \/ \E k \in msgs : AskCompaction(k) \/ BeginCompaction(k) \/ DeleteFrom(k)
    \/ DeleteConversation \/ PatchConfig
    \/ \E f \in Files : Upload(f) \/ Expire(f) \/ Age(f) \/ Scan(f)

Spec == Init /\ [][Next]_vars

\* Requests and executions go on; the model answers or fails.
FairSpec ==
    /\ Spec /\ WF_vars(WorkerStep) /\ WF_vars(StoreCompaction)
    /\ \A r \in Requests : WF_vars(send[r] # "idle" /\ SendStep(r))

-----------------------------------------------------------------------------
\* Every request that began is answered and every execution that was dispatched
\* ends, although they wait for each other at the row of the conversation.
NobodyWaitsForEver ==
    \A r \in Requests :
        /\ send[r] # "idle" ~> send[r] \in {"sent", "refused"}
        /\ exec[r] = "queued" ~> exec[r] \in {"completed", "stopped", "gone"}

\* What a user has sent goes away when a user deletes it.  scheduler.py, line 159,
\* has the scan delete attachments "never claimed by a message"; execution_task.py,
\* line 323, a conversation that "only has a single user message".
SentStaysSent ==
    [][\A r \in Requests :
        message[r] \in msgs /\ exec[r] # "stopped" /\ deletes' = deletes =>
            /\ message[r] \in msgs'
            /\ Attached[r] \cap stored \subseteq stored']_vars
=============================================================================
