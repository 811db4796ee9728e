---------------------------- MODULE MCDocuments -----------------------------
(* Two uploads of one document, processed by two workers.                   *)
EXTENDS Documents

CONSTANTS v1, v2, w1, w2
=============================================================================
