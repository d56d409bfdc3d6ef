------------------------------- MODULE MCEnds -------------------------------
(***************************************************************************)
(* What is remembered and what is owed: Memory, extended with instances of *)
(* Memory, Scheduler and ThreadClaim whose liveness is checked in the same *)
(* run, `instance' saying which one moves while the variables of the       *)
(* others keep their initial values; faults are shared.                    *)
(*                                                                         *)
(*   reset     Memory itself: one conversation resolved twice, turns on    *)
(*             two processes, a fault and a /reset; it only has to be      *)
(*             safe, and no fairness is asked of it                        *)
(*   pair      two conversations of one contact and a /reset, no fault     *)
(*   ladder    one conversation resolved twice through two faults          *)
(*   compact   one conversation, resolved twice, in one process, a fault   *)
(*   flush     a DEBOUNCE job, reaped by another worker's tick             *)
(*   reminder  an appointment reminder a booking calls off while claimed   *)
(*   thread    a turn and an append on two processes                       *)
(***************************************************************************)
EXTENDS Memory, TLC

CONSTANTS Nobody, Divider, job, p1, p2, t1, m1, a1

VARIABLES instance,
          rows, runs, tick, dying, booking, arms, passes, calls, served, withdrawn, reported,
          owedNotice,
          threadRow, channel, turn, append, reset, owed, current, arrived, calledOff, inFlight,
          queue, occupancies, cleared, slow

memoryVars == <<stampOf, closed, queued, body, head, gen, marker, summaries, compaction, pass,
                turning, clearing, gone, blank, torn, resolves, resets, gens>>
jobVars    == <<rows, runs, tick, dying, booking, arms, passes, calls, served, withdrawn,
                reported, owedNotice>>
threadVars == <<threadRow, channel, turn, append, reset, owed, current, arrived, calledOff,
                inFlight, queue, occupancies, cleared, slow>>
allVars    == <<instance, faults, memoryVars, jobVars, threadVars>>

Pair == INSTANCE Memory WITH Convs <- {1, 2}, MaxMsgs <- 2, MaxResolves <- 1, MaxFaults <- 0

Ladder == INSTANCE Memory WITH MaxResets <- 0, MaxFaults <- 2

Compact == INSTANCE Memory WITH
    TurnsAt <- {"leader"}, LongWaits <- FALSE, MaxResets <- 0

FlushJob == INSTANCE SchedulerProofs WITH
    Keys <- {job}, Lane <- (job :> "debounce"), DeleteKeys <- {}, TrafficKeys <- {},
    IngestKeys <- {}, ReminderKeys <- {}, SameWorkKeys <- {}, Enabled <- {"shared", "debounce"},
    MaxAttempts <- 2, BatchSize <- 2, MaxArms <- 2, MaxPasses <- 1, MaxCalls <- 0, MaxFaults <- 1

Reminder == INSTANCE SchedulerProofs WITH
    Keys <- {job}, Lane <- (job :> "shared"), DeleteKeys <- {}, TrafficKeys <- {},
    IngestKeys <- {}, ReminderKeys <- {job}, SameWorkKeys <- {}, Enabled <- {"shared"},
    MaxAttempts <- 2, BatchSize <- 2, MaxArms <- 2, MaxPasses <- 1, MaxCalls <- 2, MaxFaults <- 1

Thread == INSTANCE ThreadClaim WITH
    Procs <- {p1, p2}, Turns <- {t1}, FlushTurns <- {t1}, Msgs <- {m1}, Appends <- {a1},
    Resets <- {}, MaxFaults <- 1, MaxSlow <- 0

ASSUME InstancesAssumption ==
    /\ FlushJob!LaneAssumption /\ FlushJob!BoundAssumption
    /\ Reminder!LaneAssumption /\ Reminder!BoundAssumption /\ Thread!ConstantsAssumption

UnionInit ==
    /\ instance \in {"reset", "pair", "ladder", "compact", "flush", "reminder", "thread"}
    /\ Init /\ FlushJob!Init /\ Thread!Init
    /\ instance # "thread" => ~threadRow.exists

UnionNext ==
    /\ UNCHANGED instance
    /\ \/ /\ \/ instance = "reset" /\ Next
             \/ instance = "pair" /\ Pair!Next
             \/ instance = "ladder" /\ Ladder!Next
             \/ instance = "compact" /\ Compact!Next
          /\ UNCHANGED <<jobVars, threadVars>>
       \/ /\ \/ instance = "flush" /\ FlushJob!Next
             \/ instance = "reminder" /\ Reminder!Next
          /\ UNCHANGED <<memoryVars, threadVars>>
       \/ instance = "thread" /\ Thread!Next /\ UNCHANGED <<memoryVars, jobVars>>

\* The fairness of each module while its instance moves.
TheMemory == <<faults, memoryVars>>
TheQueue  == <<faults, jobVars>>
TheThread == <<faults, threadVars>>

CompactFairness == LET On == instance = "compact" IN
    /\ WF_TheMemory(On /\ Compact!TurnStep) /\ WF_TheMemory(On /\ Compact!Ingests)
    /\ WF_TheMemory(On /\ Compact!Compacts) /\ WF_TheMemory(On /\ Compact!ResetStep)

QueueFairness == LET On == instance = "flush" IN
    /\ \A w \in {"shared", "debounce"} :
         /\ WF_TheQueue(On /\ FlushJob!StartTick(w)) /\ WF_TheQueue(On /\ FlushJob!AnnounceReaped(w))
         /\ WF_TheQueue(On /\ FlushJob!ClaimBatch(w)) /\ WF_TheQueue(On /\ FlushJob!EndTick(w))
    /\ WF_TheQueue(On /\ FlushJob!ClaimTraffic)
    /\ WF_TheQueue(On /\ FlushJob!BecomesDue(job)) /\ WF_TheQueue(On /\ FlushJob!GoesStale(job))
    /\ WF_TheQueue(On /\ \E r \in FlushJob!RunsOf(job) : FlushJob!Outcome(r))

ThreadFairness == LET On == instance = "thread" IN
    /\ WF_TheThread(On /\ Thread!TurnStep(t1)) /\ WF_TheThread(On /\ Thread!TurnRenews(t1))
    /\ WF_TheThread(On /\ Thread!AppendStep(a1))
    /\ SF_TheThread(On /\ \E p \in {p1, p2} : Thread!AppendStarts(a1, p, m1))
    /\ WF_TheThread(On /\ Thread!LeaseExpires) /\ WF_TheThread(On /\ Thread!WriteExpires)

UnionSpec == UnionInit /\ [][UnionNext]_allVars
                 /\ CompactFairness /\ QueueFairness /\ ThreadFairness

\* A conversation that stays closed is in the end compacted (Memory.ClosedIsCompacted).
ClosedEnds == instance = "compact" => Compact!ClosedIsCompacted

\* A tombstone leaves a row only with other work (Scheduler.TombstoneLeavesWithNewWork).
TombstoneLeavesWithNewWork == Reminder!TombstoneLeavesWithNewWork

\* What is owed stops being owed: the flush's work (Scheduler.OwedSettles), the announcement of
\* a death that stands (Scheduler.EveryStandingDeathIsAnnounced) and the message an append or a
\* turn owes the thread (ThreadClaim.OwedIsSettled).
OwedSettles ==
    /\ instance = "flush" => FlushJob!OwedSettles /\ FlushJob!EveryStandingDeathIsAnnounced
    /\ instance = "thread" => Thread!OwedIsSettled

=============================================================================
