----------------------------- MODULE MCThreads ------------------------------
(***************************************************************************)
(* ThreadClaim, a flush turn, a direct turn, an append and a /reset on two *)
(* processes, cut into scenarios that are checked in one run:              *)
(*                                                                         *)
(*   trio     all of them, with one fault                                  *)
(*   clear    the flush turn, the append and the /reset, with two faults   *)
(***************************************************************************)
EXTENDS ThreadClaim, TLC

VARIABLE scenario

\* What a scenario leaves out stays where it began.
Within ==
    CASE scenario = "trio"  -> faults <= 1
      [] scenario = "clear" -> \A t \in Turns \ FlushTurns : turn[t].pc = "idle"

ScenarioInit == Init /\ scenario \in {"trio", "clear"}
ScenarioNext == UNCHANGED scenario /\ Next /\ Within'
ScenarioSpec == ScenarioInit /\ [][ScenarioNext]_<<vars, scenario>>

\* The processes, either way round.
Interchangeable == Permutations(Procs)

=============================================================================
