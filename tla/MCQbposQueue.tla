---------------------------- MODULE MCQbposQueue ---------------------------
(* Small instances of QbposQueue. *)
EXTENDS QbposQueue, TLC

CONSTANTS w1, w2, a, b
MCMaxRev == <<3, 1>>
============================================================================
