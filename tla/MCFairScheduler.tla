-------------------------- MODULE MCFairScheduler --------------------------
(* Small instances of FairScheduler for TLC.                               *)
EXTENDS FairScheduler

CONSTANTS e1, e2, e3, alice, bob, job, admin

MCOwner == [e \in Execs |-> IF e = e1 THEN alice ELSE bob]
OneOwner == [e \in Execs |-> alice]
=============================================================================
