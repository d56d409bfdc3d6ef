------------------------------ MODULE Admission -----------------------------
(***************************************************************************)
(* What the in-process primitives of src/src/lib promise a caller: work on *)
(* one key is admitted in the order it was asked for, never more than      *)
(* Permits of it at once.  Tickets are issued per key; a caller may be     *)
(* admitted as it arrives or as another leaves.                            *)
(***************************************************************************)
EXTENDS Integers, FiniteSets

CONSTANTS Callers, Keys, Permits

VARIABLES stage, asked, ticket, issued

vars == <<stage, asked, ticket, issued>>

Waiting(k) == {c \in Callers : stage[c] = "waiting" /\ asked[c] = k}
Running(k) == {c \in Callers : stage[c] = "running" /\ asked[c] = k}

\* The next to be admitted: nobody waits with an older ticket.
IsNext(c, k) == c \in Waiting(k) /\ \A d \in Waiting(k) : ticket[c] <= ticket[d]

Init ==
    /\ stage = [c \in Callers |-> "idle"]
    /\ asked \in [Callers -> Keys]
    /\ ticket = [c \in Callers |-> 0]
    /\ issued = [k \in Keys |-> 0]

Takes(c) ==
    /\ stage[c] = "idle"
    /\ ticket' = [ticket EXCEPT ![c] = issued[asked[c]]]
    /\ issued' = [issued EXCEPT ![asked[c]] = @ + 1]
    /\ UNCHANGED asked

\* The caller queues.
Arrives(c) == Takes(c) /\ stage' = [stage EXCEPT ![c] = "waiting"]

\* There is room and nobody before it: the caller goes straight in.
Enters(c) ==
    /\ Takes(c)
    /\ Waiting(asked[c]) = {} /\ Cardinality(Running(asked[c])) < Permits
    /\ stage' = [stage EXCEPT ![c] = "running"]

Admits(c) ==
    /\ IsNext(c, asked[c])
    /\ Cardinality(Running(asked[c])) < Permits
    /\ stage' = [stage EXCEPT ![c] = "running"]
    /\ UNCHANGED <<asked, ticket, issued>>

Leaves(c) ==
    /\ stage[c] = "running"
    /\ stage' = [stage EXCEPT ![c] = "done"]
    /\ UNCHANGED <<asked, ticket, issued>>

\* A caller leaves and its place goes to the next.
HandsOver(c, d) ==
    /\ stage[c] = "running" /\ asked[d] = asked[c] /\ IsNext(d, asked[d])
    /\ stage' = [stage EXCEPT ![c] = "done", ![d] = "running"]
    /\ UNCHANGED <<asked, ticket, issued>>

Next == \E c \in Callers :
    Arrives(c) \/ Enters(c) \/ Admits(c) \/ Leaves(c) \/ \E d \in Callers : HandsOver(c, d)

Spec == Init /\ [][Next]_vars
=============================================================================
