------------------------------ MODULE History ------------------------------
(***************************************************************************)
(* The history of a conversation as the LLM sees it: the messages past the *)
(* boundary of the last compaction, and the summary that stands for those  *)
(* before it.  A compaction reads both, has the LLM write a summary, and   *)
(* stores it with its boundary; what happened meanwhile it does not know.  *)
(* Messages are numbered in the order of their created_at, which need not  *)
(* be the order in which their transactions commit.                        *)
(***************************************************************************)
EXTENDS Naturals, FiniteSets

CONSTANTS
    MinMessages,     \* a compaction wants at least so many messages (4 in the code)
    MinCompacted,    \* ... and at least so many to compact (2 in the code)
    MessageCap       \* COMPACTION_MESSAGE_CAP: the model is shown the last so many of them

VARIABLES
    msgs,        \* the numbers of the committed messages
    boundary,    \* config["compacted_before_message_id"], 0 if there is none
    summary,     \* the messages the compaction summary was made from
    view,        \* per compaction: what it read before it called the model
    late         \* history: messages committed when a later one already was

historyVars == <<boundary, summary, view>>

\* The worker compacts before it answers, the user with a request of its own.
Compactors == {"worker", "asked"}
NoView == [messages |-> {}, summary |-> {}, last |-> 0]

\* Past the boundary, if the message it names is still there.
Visible == {m \in msgs : boundary \notin msgs \/ m > boundary}

Below(k) == {m \in Visible : m <= k}

Later(S, m) == {n \in S : m < n}
Recent(S) == {m \in S : Cardinality(Later(S, m)) < MessageCap}

\* The boundary will be k, whatever the cap leaves out.
Look(c, k) ==
    /\ k \in Visible
    /\ Cardinality(Visible) >= MinMessages /\ Cardinality(Below(k)) >= MinCompacted
    /\ view' = [view EXCEPT ![c] =
                   [messages |-> Recent(Below(k)), summary |-> summary, last |-> k]]

CommitMessage(m) ==
    /\ msgs' = msgs \cup {m}
    /\ late' = IF Later(msgs, m) = {} THEN late ELSE late \cup {m}

\* Mistake: the boundary never moves back, the summary does.
SummarizeForward(c) ==
    /\ summary' = view[c].summary \cup view[c].messages
    /\ boundary' = IF boundary > view[c].last THEN boundary ELSE view[c].last
    /\ view' = [view EXCEPT ![c] = NoView]

\* Summary and boundary are columns of the same UPDATE.
Summarize(c) ==
    /\ summary' = view[c].summary \cup view[c].messages
    /\ boundary' = view[c].last
    /\ view' = [view EXCEPT ![c] = NoView]

-----------------------------------------------------------------------------
\* compaction_router.py, line 29: "The summary replaces old messages in the LLM
\* context window."  Every message is behind the boundary or in the summary, or the cap
\* left it out for newer ones, whatever compactions, edits and changes of the config run
\* beside each other.  (One that is committed after a later one may find the boundary of
\* a compaction that never saw it already past its number.)
NothingForgotten ==
    \A m \in msgs \ late :
        \/ m \in Visible \cup summary
        \/ Cardinality({n \in Later(msgs, m) : n <= boundary}) >= MessageCap
=============================================================================
