----------------------------- MODULE KeyedQueue -----------------------------
(***************************************************************************)
(* withKeyedQueue of src/src/lib/locks.ts: asynchronous work on one key    *)
(* runs one piece after another in one process.  A call chains itself      *)
(* behind the link it finds in the map and leaves its own link there; when *)
(* its work settles, so does its link, which clears the map entry only if  *)
(* the entry is still it.  A link is named by its caller.                  *)
(*                                                                         *)
(* The ingest, compaction, clear, contact-authorization and spend-notice   *)
(* sections of the other modules rest on it.                               *)
(***************************************************************************)
EXTENDS Integers, FiniteSets

CONSTANTS Callers, Keys,
          Nobody            \* no link

ASSUME NobodyAssumption == Nobody \notin Callers

VARIABLES step,             \* what the work of a call is doing
          key,              \* the key it asks for
          prev,             \* the link it is chained behind
          tail,             \* keyedChains
          ticket, issued,   \* ghost: the order of arrival on each key
          served            \* ghost: how many links of the key have settled

vars == <<step, key, prev, tail, ticket, issued, served>>

Steps == {"idle", "chained", "running", "ended", "settled"}

TypeOK ==
    /\ step \in [Callers -> Steps] /\ key \in [Callers -> Keys]
    /\ prev \in [Callers -> Callers \cup {Nobody}] /\ tail \in [Keys -> Callers \cup {Nobody}]
    /\ ticket \in [Callers -> Nat] /\ issued \in [Keys -> Nat] /\ served \in [Keys -> Nat]

Init ==
    /\ step = [c \in Callers |-> "idle"]
    /\ key \in [Callers -> Keys]
    /\ prev = [c \in Callers |-> Nobody]
    /\ tail = [k \in Keys |-> Nobody]
    /\ ticket = [c \in Callers |-> 0]
    /\ issued = [k \in Keys |-> 0] /\ served = [k \in Keys |-> 0]

\* Its link replaces the one it found, in one synchronous step.
Chains(c) ==
    /\ step[c] = "idle"
    /\ step' = [step EXCEPT ![c] = "chained"]
    /\ prev' = [prev EXCEPT ![c] = tail[key[c]]]
    /\ tail' = [tail EXCEPT ![key[c]] = c]
    /\ ticket' = [ticket EXCEPT ![c] = issued[key[c]]]
    /\ issued' = [issued EXCEPT ![key[c]] = @ + 1]
    /\ UNCHANGED <<key, served>>

\* prev.then(fn).
Starts(c) ==
    /\ step[c] = "chained"
    /\ prev[c] # Nobody => step[prev[c]] = "settled"
    /\ step' = [step EXCEPT ![c] = "running"]
    /\ UNCHANGED <<key, prev, tail, ticket, issued, served>>

\* The work resolves or rejects: the link behaves the same.
Ends(c) ==
    /\ step[c] = "running"
    /\ step' = [step EXCEPT ![c] = "ended"]
    /\ UNCHANGED <<key, prev, tail, ticket, issued, served>>

SettlesLink(c) ==
    /\ step[c] = "ended"
    /\ step' = [step EXCEPT ![c] = "settled"]
    /\ served' = [served EXCEPT ![key[c]] = @ + 1]
    /\ UNCHANGED <<key, prev, ticket, issued>>

\* Mutant: the entry is deleted whoever's link it is.
SettlesAndDeletes(c) == SettlesLink(c) /\ tail' = [tail EXCEPT ![key[c]] = Nobody]

\* The cleanup is the first reaction of the link, before the next call's start.
Settles(c) ==
    /\ SettlesLink(c)
    /\ tail' = [tail EXCEPT ![key[c]] = IF @ = c THEN Nobody ELSE @]

Next == \E c \in Callers : Chains(c) \/ Starts(c) \/ Ends(c) \/ Settles(c)

Spec == Init /\ [][Next]_vars

-----------------------------------------------------------------------------
(* Properties *)

StageOf(c) ==
    IF step[c] = "chained" THEN "waiting" ELSE IF step[c] \in {"ended", "settled"} THEN "done"
    ELSE step[c]

InOrder == INSTANCE Admission WITH
    Permits <- 1, stage <- [c \in Callers |-> StageOf(c)], asked <- key

\* Work on one key never overlaps and starts in the order it was asked for, whatever came and
\* went on the key meanwhile (locks.ts: "run one after another in arrival order").
AdmitsInOrder == InOrder!Spec

\* The map has an entry exactly while work on the key has not settled, so it holds no entry of a
\* key that has gone quiet (locks.ts: "the map does not accumulate one promise per entity").
Live(k) == {c \in Callers : key[c] = k /\ step[c] \in {"chained", "running", "ended"}}
EntryIffWork == \A k \in Keys : tail[k] = Nobody <=> Live(k) = {}
=============================================================================
