------------------------------ MODULE MCMemory ------------------------------
(* An instance of Memory: a contact with two conversations. *)
EXTENDS Memory, TLC
=============================================================================
