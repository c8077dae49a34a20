----------------------------- MODULE MCTaskRuns -----------------------------
(* Two runs, and an execution of each of two users, who compete for one    *)
(* slot: what a firing gives back lets the second user in beside the first.*)
EXTENDS TaskRuns

CONSTANTS r1, r2, u, v, ann, ben

MCExecs == Runs \cup Others
MCTeams == {Platform, ann, ben}
MCOwner == [e \in Others |-> IF e = u THEN ann ELSE ben]
=============================================================================
