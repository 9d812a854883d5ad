----------------------------- MODULE MCTinyList ----------------------------
(* A small instance of TinyList.                                           *)
EXTENDS TinyList
============================================================================
