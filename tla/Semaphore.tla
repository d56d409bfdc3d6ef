------------------------------ MODULE Semaphore -----------------------------
(***************************************************************************)
(* The counting semaphore of src/src/lib/semaphore.ts, which bounds the    *)
(* model calls of a process: a released permit is handed to the oldest     *)
(* waiter, or counted as available when nobody waits.                      *)
(***************************************************************************)
EXTENDS Integers, Sequences, FiniteSets

CONSTANTS Callers, Permits

ConstantsAssumption == Permits \in Nat \ {0} /\ IsFiniteSet(Callers)

VARIABLES available, waiters,
          phase,            \* of each call of run
          number, handed    \* ghost: the order of the calls

vars == <<available, waiters, phase, number, handed>>

TypeOK ==
    /\ available \in 0..Permits
    /\ waiters \in Seq(Callers)
    /\ phase \in [Callers -> {"idle", "waiting", "running", "done"}]
    /\ number \in [Callers -> Nat] /\ handed \in Nat

Init ==
    /\ available = Permits /\ waiters = <<>>
    /\ phase = [c \in Callers |-> "idle"]
    /\ number = [c \in Callers |-> 0] /\ handed = 0

Counted(c) ==
    /\ phase[c] = "idle"
    /\ number' = [number EXCEPT ![c] = handed] /\ handed' = handed + 1

\* A permit is free.
Acquires(c) ==
    /\ Counted(c) /\ available > 0
    /\ available' = available - 1
    /\ phase' = [phase EXCEPT ![c] = "running"]
    /\ UNCHANGED waiters

Queues(c) ==
    /\ Counted(c) /\ available = 0
    /\ waiters' = Append(waiters, c)
    /\ phase' = [phase EXCEPT ![c] = "waiting"]
    /\ UNCHANGED available

\* The permit goes to the oldest waiter and is not counted as available.
HandsOver(c) ==
    /\ phase[c] = "running" /\ waiters # <<>>
    /\ phase' = [phase EXCEPT ![c] = "done", ![Head(waiters)] = "running"]
    /\ waiters' = Tail(waiters)
    /\ UNCHANGED <<available, number, handed>>

\* Mutant: the handed permit is counted as available as well.
ReleasesAndCounts(c) ==
    /\ phase[c] = "running"
    /\ phase' = [phase EXCEPT ![c] = "done"]
    /\ available' = available + 1
    /\ UNCHANGED <<waiters, number, handed>>

Releases(c) ==
    /\ phase[c] = "running" /\ waiters = <<>>
    /\ phase' = [phase EXCEPT ![c] = "done"]
    /\ available' = available + 1
    /\ UNCHANGED <<waiters, number, handed>>

Next == \E c \in Callers : Acquires(c) \/ Queues(c) \/ HandsOver(c) \/ Releases(c)

Spec == Init /\ [][Next]_vars

-----------------------------------------------------------------------------
(* Properties *)

InOrder == INSTANCE Admission WITH
    Keys <- {"model"}, stage <- phase, asked <- [c \in Callers |-> "model"],
    ticket <- number, issued <- [k \in {"model"} |-> handed]

\* At most Permits calls run, and those that wait are let in in the order they came
\* (semaphore.ts: "FIFO: a released permit is handed straight to the next waiter").
AdmitsInOrder == InOrder!Spec

\* No permit is lost or made up: what is available and what runs add up.
PermitsConserved == available + Cardinality({c \in Callers : phase[c] = "running"}) = Permits
=============================================================================
