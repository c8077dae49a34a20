------------------------- MODULE MCDocumentPipeline -------------------------
(* One document, three requests, a failure and a crash.                    *)
EXTENDS DocumentPipeline

CONSTANTS report, q1, q2, q3
=============================================================================
