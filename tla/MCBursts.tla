------------------------------ MODULE MCBursts ------------------------------
(***************************************************************************)
(* Debounce, extended with instances of DeliveryLedger and ThreadClaim     *)
(* that are checked in the same run, `instance' saying which one moves     *)
(* while the variables of the others keep their initial values:            *)
(*                                                                         *)
(*   burst    two messages, a flush and a click on the leader and a        *)
(*            replica                                                      *)
(*   alone    the same in one process, every message debounced             *)
(*   dying    two messages of a debounced burst whose deliveries die       *)
(*   repeat   one message whose delivery is repeated, stalls and is spread *)
(*            over two replicas                                            *)
(*   overlap  two turns and an append in one process, one of them slower   *)
(*            than its lease                                               *)
(***************************************************************************)
EXTENDS Debounce, TLC

CONSTANTS Nobody, Divider, web, worker, r1, r2, t1, t2, m1, a1

VARIABLES instance,
          \* of DeliveryLedger
          written, posts, ledger, attempt, flush, holds, sweep, job, handler, binding, mark,
          memory, unread, fate, losses, closings, cut, crashes, ledgerFaults, ledgerSlow,
          \* of ThreadClaim
          threadRow, channel, turn, append, reset, owed, current, arrived, calledOff,
          inFlight, queue, occupancies, cleared, torn, threadFaults, threadSlow

Dying == INSTANCE DeliveryLedgerProofs WITH
    Responder <- {r1, r2}, Observer <- {}, MsgOf <- (r1 :> 1 @@ r2 :> 2), MaxMsgs <- 2,
    Procs <- {worker}, Leader <- worker, Debounced <- TRUE, Colleague <- FALSE, Movable <- {},
    MaxRecoveries <- 1, MaxReposts <- 0, MaxCrashes <- 1, MaxFaults <- 1, MaxSlow <- 0,
    MaxMoves <- 0,
    sent <- written, row <- ledger, run <- attempt, owner <- handler, handled <- mark,
    faults <- ledgerFaults, slow <- ledgerSlow

Repeat == INSTANCE DeliveryLedgerProofs WITH
    Responder <- {r1}, Observer <- {}, MsgOf <- (r1 :> 1), MaxMsgs <- 1,
    Procs <- {web, worker}, Leader <- worker, Debounced <- TRUE, Colleague <- TRUE, Movable <- {},
    MaxRecoveries <- 1, MaxReposts <- 1, MaxCrashes <- 1, MaxFaults <- 0, MaxSlow <- 1,
    MaxMoves <- 0,
    sent <- written, row <- ledger, run <- attempt, owner <- handler, handled <- mark,
    faults <- ledgerFaults, slow <- ledgerSlow

Overlap == INSTANCE ThreadClaimProofs WITH
    Procs <- {worker}, Turns <- {t1, t2}, FlushTurns <- {t1, t2}, Msgs <- {m1}, Appends <- {a1},
    Resets <- {}, MaxFaults <- 0, MaxSlow <- 1,
    faults <- threadFaults, slow <- threadSlow

ASSUME InstancesAssumption ==
    Dying!ConstantsAssumption /\ Repeat!ConstantsAssumption /\ Overlap!ConstantsAssumption

ledgerVars == <<written, posts, ledger, attempt, flush, holds, sweep, job, handler, binding, mark,
                memory, unread, fate, losses, closings, cut, crashes, ledgerFaults, ledgerSlow>>
threadVars == <<threadRow, channel, turn, append, reset, owed, current, arrived, calledOff,
                inFlight, queue, occupancies, cleared, torn, threadFaults, threadSlow>>
allVars    == <<instance, ledgerVars, threadVars, vars>>

\* A bound: at most one of a failed arm, a fault, a stall and a change of owner.
OneUpset == armFails + faults + slow + switches <= 1

\* A bound: a crash or a failed call, not both.
OneDeath == crashes + ledgerFaults <= 1

\* One process, no failed arm, and nothing that outlasts its deadline.
InOneProcess == armFails = 0 /\ slow = 0 /\ \A r \in Runs : run[r].proc = Leader

UnionInit ==
    /\ Init
    /\ \/ instance \in {"burst", "alone"} /\ Dying!Init /\ Overlap!Init /\ ~threadRow.exists
       \/ instance = "dying" /\ Dying!Init /\ Overlap!Init /\ ~threadRow.exists
       \/ instance = "repeat" /\ Repeat!Init /\ Overlap!Init /\ ~threadRow.exists
       \/ instance = "overlap" /\ Dying!Init /\ Overlap!Init

UnionNext ==
    /\ UNCHANGED instance
    /\ \/ instance = "burst" /\ Next /\ OneUpset' /\ UNCHANGED <<ledgerVars, threadVars>>
       \/ instance = "alone" /\ Next /\ InOneProcess' /\ UNCHANGED <<ledgerVars, threadVars>>
       \/ instance = "dying" /\ Dying!Next /\ OneDeath' /\ UNCHANGED <<vars, threadVars>>
       \/ instance = "repeat" /\ Repeat!Next /\ UNCHANGED <<vars, threadVars>>
       \/ instance = "overlap" /\ Overlap!Next /\ UNCHANGED <<vars, ledgerVars>>

UnionSpec == UnionInit /\ [][UnionNext]_allVars

\* In one process no message is part of two replies (Debounce.AnsweredOnce).
OnceInOneProcess == instance = "alone" => AnsweredOnce

\* A row that reads PROCESSED tells the truth (DeliveryLedger.NoQuietLoss).
NoQuietLoss == IF instance = "repeat" THEN Repeat!NoQuietLoss ELSE Dying!NoQuietLoss

\* A late release ends only its own occupancy (ThreadClaim.ReleaseEndsItsOwnOccupancy).
ReleaseEndsItsOwnOccupancy == [][instance = "overlap" => Overlap!OnlyItsOwnHold]_allVars

=============================================================================
