----------------------------- MODULE MCSettles ------------------------------
(***************************************************************************)
(* Every message settles, and what queues in the process is served in the  *)
(* order it came: KeyedQueue, extended with instances of Debounce, Outbox  *)
(* and Semaphore that are checked in the same run, `instance' saying which *)
(* one moves while the variables of the others keep their initial values.  *)
(*                                                                         *)
(*   keys      four calls of withKeyedLock on two keys                     *)
(*   permits   four model calls for two permits (Callers, Permits)         *)
(*   burst     two messages, a flush and a click in one process            *)
(*   outbox    a webhook and an alert, and a crash                         *)
(***************************************************************************)
EXTENDS KeyedQueue, TLC

CONSTANTS p1, c1, flush, h1, a1,
          Permits

VARIABLES instance,
          available, waiters, phase, number, handed,
          sent, lastOut, owner, delivery, stranded, row, handled, replied, lapsed,
          run, answers, armFails, faults, slow, switches,
          item, flight, enabled, lines, alerted, events, requeues, deletes, toggles, crashes

permitVars == <<available, waiters, phase, number, handed>>
burstVars  == <<sent, lastOut, owner, delivery, stranded, row, handled, replied, lapsed, run,
                answers, armFails, faults, slow, switches>>
outboxVars == <<item, flight, enabled, lines, alerted, events, requeues, deletes, toggles,
                crashes>>
allVars    == <<instance, permitVars, burstVars, outboxVars, vars>>

\* The calls of the semaphore are those of the keyed queue, Callers.
Permitted == INSTANCE Semaphore

Burst == INSTANCE Debounce WITH
    Leader <- p1, Procs <- {p1}, Flush <- flush, Clicks <- {c1}, MaxMsgs <- 2, Ordered <- TRUE,
    MaxAttempts <- 2, MaxArmFails <- 0, MaxFaults <- 1, MaxSlow <- 0, MaxSwitches <- 2

Buses == INSTANCE Outbox WITH
    Hooks <- {h1}, Alerts <- {a1}, MaxAttempts <- 2, MaxEvents <- 1, MaxRequeues <- 1,
    MaxDeletes <- 0, MaxToggles <- 1, MaxCrashes <- 1, told <- alerted

ASSUME InstancesAssumption == Permitted!ConstantsAssumption /\ Burst!ConstantsAssumption

\* A bound: two of a fault and the changes of owner, of the agent and by /reset.
TwoUpsets == faults + switches <= 2

UnionInit ==
    /\ instance \in {"keys", "permits", "burst", "outbox"}
    /\ Init /\ Permitted!Init /\ Burst!Init /\ Buses!Init
    /\ instance # "keys" => key = [c \in Callers |-> CHOOSE k \in Keys : TRUE]

UnionNext ==
    /\ UNCHANGED instance
    /\ \/ instance = "keys" /\ Next /\ UNCHANGED <<permitVars, burstVars, outboxVars>>
       \/ instance = "permits" /\ Permitted!Next /\ UNCHANGED <<burstVars, outboxVars, vars>>
       \/ instance = "burst" /\ Burst!Next /\ TwoUpsets' /\ UNCHANGED <<permitVars, outboxVars, vars>>
       \/ instance = "outbox" /\ Buses!Next /\ UNCHANGED <<permitVars, burstVars, vars>>

\* The fairness of Debounce and of Outbox while its instance moves; the others need none.
BurstFairness == LET On == instance = "burst" IN
    /\ WF_burstVars(On /\ Burst!FlushSteps) /\ WF_burstVars(On /\ Burst!Reaps /\ ~row.held)
    /\ \A m \in 1..2 : WF_burstVars(On /\ Burst!DeliverySteps(m))
    /\ WF_burstVars(On /\ Burst!ClickSteps(c1))
    /\ \A r \in {flush, c1, 1, 2} : WF_burstVars(On /\ Burst!TurnSteps(r))

OutboxFairness == LET On == instance = "outbox" IN
    /\ WF_outboxVars(On /\ Buses!Dispatches)
    /\ \A b \in {"webhook", "alert"} : WF_outboxVars(On /\ Buses!Ticks(b))
    /\ \A r \in {h1, a1} : /\ WF_outboxVars(On /\ Buses!BecomesDue(r))
                           /\ WF_outboxVars(On /\ Buses!Ages(r))
    /\ \A c \in {h1, a1} \X {1, 2} : /\ WF_outboxVars(On /\ Buses!Posts(c))
                                     /\ WF_outboxVars(On /\ Buses!Records(c))

FairSpec == UnionInit /\ [][UnionNext]_allVars /\ BurstFairness /\ OutboxFairness

\* Every message is in the end answered or left to be seen (Debounce.EverySettles).
EverySettles == instance = "burst" => Burst!EverySettles

\* What was queued is in the end delivered or given up (Outbox.EveryRowEnds).
EveryRowEnds == instance = "outbox" => Buses!EveryRowEnds

\* Permits go to the calls in the order they came (Semaphore.AdmitsInOrder).
PermitsInOrder == Permitted!AdmitsInOrder

=============================================================================
