------------------------------ MODULE MCGateway ------------------------------
(* Two calls: of one execution or of two, with and without an approval.    *)
EXTENDS Gateway

CONSTANTS first, second, one, two

Of(e, k) == [execution |-> e, kind |-> k]
Pair(p, q) == [c \in Calls |-> IF c = first THEN p ELSE q]
MCPayloads == {
    Pair(Of(one, "asking"), Of(one, "file")),
    Pair(Of(one, "shell"), Of(two, "file"))}
=============================================================================
