----------------------------- MODULE MCTaskJobs -----------------------------
(* A task of any kind, and one that is created or copied on the way.       *)
EXTENDS TaskJobs, TLC

CONSTANTS task, copy, p, q

Symmetry == Permutations(Editors)
=============================================================================
