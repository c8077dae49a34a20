----------------------------- MODULE MCGraphRun -----------------------------
(* A planner, a gate, two branches beside each other, and a last gate.     *)
EXTENDS GraphRun

CONSTANTS planner, plan, coder, critic, release

MCKind == [n \in Nodes |-> CASE n = coder -> "agent"
                             [] n \in {plan, release} -> "gate"
                             [] n \in {planner, critic} -> "plain"]
MCStages == <<{planner}, {plan}, {coder, critic}, {release}>>
=============================================================================
