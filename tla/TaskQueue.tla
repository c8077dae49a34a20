----------------------------- MODULE TaskQueue -----------------------------
(***************************************************************************)
(* What the stream bus promises, without groups, consumers and batches: a  *)
(* task has tickets, each good for one run, and a ticket goes only by a    *)
(* run, by a retry or burial that follows a failure of its own, or because *)
(* the stream grew past its length.  The exceptions are counted: a mishap  *)
(* repeats one ticket, at most, or drops it with an error in the log.      *)
(***************************************************************************)
EXTENDS Integers, Sequences

CONSTANTS Tasks, MaxRetries, Maxlen

VARIABLES
    log,        \* every ticket ever issued, oldest first
    live,       \* those that are still good
    failed,     \* the one whose run has just failed, if any
    expired,    \* how many of the oldest have expired
    published, runs, failures, dlq, dropped,
    mishaps     \* crashes and errors so far

queue == <<log, live, failed, expired>>
fate == <<published, runs, failures, dlq, dropped>>
vars == <<queue, fate, mishaps>>

Init ==
    /\ log = <<>> /\ live = {} /\ failed = {} /\ expired = 0
    /\ published = {} /\ dlq = {} /\ dropped = {}
    /\ runs = [t \in Tasks |-> 0] /\ failures = [t \in Tasks |-> 0]
    /\ mishaps = 0

NoMishap == UNCHANGED mishaps

\* The youngest Maxlen tickets never expire.
Issue(ticket, copies, kept) ==
    /\ log' = log \o [i \in 1..copies |-> ticket]
    /\ live' = kept \cup (Len(log) + 1)..Len(log')
    /\ expired' # expired => expired < expired' /\ expired' + Maxlen <= Len(log')

Publish(t) ==
    /\ t \notin published
    /\ published' = published \cup {t}
    /\ Issue([task |-> t, retry |-> 0], 1, live)
    /\ UNCHANGED <<failed, runs, failures, dlq, dropped>> /\ NoMishap

Run(k) ==
    /\ k \in live /\ failed = {}
    /\ live' = live \ {k}
    /\ runs' = [runs EXCEPT ![log[k].task] = @ + 1]
    /\ UNCHANGED <<log, failed, expired, published, failures, dlq, dropped>> /\ NoMishap

Fail(k) ==
    /\ k \in live /\ failed = {}
    /\ failed' = {k}
    /\ failures' = [failures EXCEPT ![log[k].task] = @ + 1]
    /\ UNCHANGED <<log, live, expired, published, runs, dlq, dropped>> /\ NoMishap

\* What a failure costs: the ticket is exchanged for one with a retry more, or the
\* task is buried, "copies" times.
Settle(k, copies, kept) ==
    /\ failed = {k} /\ failed' = {}
    /\ IF log[k].retry < MaxRetries
       THEN Issue([log[k] EXCEPT !.retry = @ + 1], copies, kept) /\ UNCHANGED dlq
       ELSE /\ live' = kept
            /\ dlq' = IF copies > 0 THEN dlq \cup {log[k].task} ELSE dlq
            /\ UNCHANGED <<log, expired>>
    /\ UNCHANGED <<published, runs, failures>>

Retry(k) == Settle(k, 1, live \ {k}) /\ UNCHANGED dropped /\ NoMishap

Expire ==
    /\ live' \subseteq live /\ live \ live' \subseteq 1..expired
    /\ UNCHANGED <<log, failed, expired, fate>>

\* The ticket is exchanged for two, or kept beside the new one, or dropped.
SettleBadly(k) ==
    \/ \E n \in 1..2 : Settle(k, n, live \ {k}) /\ UNCHANGED dropped
    \/ \E n \in 0..1 : Settle(k, n, live) /\ UNCHANGED dropped
    \/ Settle(k, 0, live \ {k}) /\ dropped' = dropped \cup {log[k].task}

\* A failure is forgotten, or a ticket that is gone comes back.
Forget ==
    /\ failed' \subseteq failed
    /\ live' = live \/ \E k \in 1..Len(log) : live' = live \cup {k}
    /\ UNCHANGED <<log, expired, fate>>

Mishap ==
    /\ mishaps' = mishaps + 1
    /\ Forget \/ Expire \/ \E k \in live : SettleBadly(k)

Next ==
    \/ \E t \in Tasks : Publish(t)
    \/ \E k \in live : Run(k) \/ Fail(k) \/ Retry(k)
    \/ Expire /\ NoMishap
    \/ Mishap

Spec == Init /\ [][Next]_vars
=============================================================================
