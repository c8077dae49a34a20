------------------------- MODULE ExecutionContract -------------------------
(***************************************************************************)
(* What a caller may rely on of one execution, whoever writes its row: it  *)
(* ends once, in one status, and COMPLETED only after the event that       *)
(* carries the answer is in its stream.                                    *)
(***************************************************************************)
EXTENDS Sequences, Naturals

CONSTANT Execs

VARIABLES
    row,     \* the status other sessions read
    stream   \* the final events a reader of the execution gets

Terminal == {"completed", "failed", "stopped"}

Init ==
    /\ row = [e \in Execs |-> "absent"]
    /\ stream = [e \in Execs |-> <<>>]

Create(e) ==
    /\ row[e] = "absent"
    /\ row' = [row EXCEPT ![e] = "pending"]
    /\ UNCHANGED stream

Tell(e, event) ==
    /\ stream' = [stream EXCEPT ![e] = Append(@, event)]
    /\ UNCHANGED row

\* A recovery ends several executions at once.
Conclude(S, status) ==
    /\ \A e \in S : row[e] = "pending"
    /\ status = "completed" => \A e \in S : \E i \in 1..Len(stream[e]) : stream[e][i] = status
    /\ row' = [e \in Execs |-> IF e \in S THEN status ELSE row[e]]
    /\ UNCHANGED stream

Delete(e) ==
    /\ row' = [row EXCEPT ![e] = "absent"]
    /\ UNCHANGED stream

Next ==
    \/ \E e \in Execs : Create(e) \/ Delete(e) \/ \E v \in Terminal \cup {"error"} : Tell(e, v)
    \/ \E S \in SUBSET Execs, status \in Terminal : Conclude(S, status)

Spec == Init /\ [][Next]_<<row, stream>>
=============================================================================
