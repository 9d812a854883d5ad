----------------------------- MODULE MCTinyGrid ----------------------------
(* A small instance of TinyGrid.                                           *)
EXTENDS TinyGrid
============================================================================
