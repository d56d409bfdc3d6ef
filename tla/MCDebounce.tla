---------------------------- MODULE MCDebounce ----------------------------
(* Instances of Debounce; clicks are interchangeable. *)
EXTENDS Debounce, TLC

Interchangeable == Permutations(Clicks)
=============================================================================
