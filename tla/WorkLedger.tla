----------------------------- MODULE WorkLedger -----------------------------
(***************************************************************************)
(* What the job queue promises its producers, without rows, claims or      *)
(* workers: work that is owed under a key stops being owed only because    *)
(* that very work was served, newer work replaced it, somebody withdrew    *)
(* it, or MaxAttempts attempts failed with no success in between.          *)
(***************************************************************************)
EXTENDS Naturals

CONSTANTS Keys, MaxAttempts

VARIABLES
    arms,       \* how much work was ever asked for; work is named by its number
    owed,       \* the work owed under each key, 0 for none
    tries,      \* consecutive failures under each key
    served,     \* work that was carried out
    withdrawn   \* work that was called off

vars == <<arms, owed, tries, served, withdrawn>>

Init ==
    /\ arms = 0
    /\ owed = [k \in Keys |-> 0]
    /\ tries = [k \in Keys |-> 0]
    /\ served = {} /\ withdrawn = {}

\* New work replaces what was owed; whether it starts a fresh failure budget is the caller's choice.
Arm(k) ==
    /\ arms' = arms + 1
    /\ owed' = [owed EXCEPT ![k] = arms + 1]
    /\ \E n \in {0, tries[k]} : tries' = [tries EXCEPT ![k] = n]
    /\ UNCHANGED <<served, withdrawn>>

\* Work may be carried out again, or after it was replaced: then nothing else changes.
Serve(k, w) ==
    /\ served' = served \cup {w}
    /\ \/ owed[k] = w /\ owed' = [owed EXCEPT ![k] = 0] /\ tries' = [tries EXCEPT ![k] = 0]
       \/ owed[k] = 0 /\ owed' = owed /\ tries' = [tries EXCEPT ![k] = 0]
       \/ UNCHANGED <<owed, tries>>
    /\ UNCHANGED <<arms, withdrawn>>

Withdraw(k) ==
    /\ withdrawn' = withdrawn \cup ({owed[k]} \ {0})
    /\ owed' = [owed EXCEPT ![k] = 0]
    /\ \E n \in {0, tries[k]} : tries' = [tries EXCEPT ![k] = n]
    /\ UNCHANGED <<arms, served>>

\* An attempt that went well but has more to do.
Pass(k) ==
    /\ tries' = [tries EXCEPT ![k] = 0]
    /\ UNCHANGED <<arms, owed, served, withdrawn>>

Fail(K) ==
    /\ tries' = [k \in Keys |-> IF k \in K THEN tries[k] + 1 ELSE tries[k]]
    /\ owed' = [k \in Keys |-> IF k \in K /\ tries[k] + 1 >= MaxAttempts THEN 0 ELSE owed[k]]
    /\ UNCHANGED <<arms, served, withdrawn>>

Next ==
    \/ \E k \in Keys : Pass(k) \/ Arm(k) \/ Withdraw(k) \/ \E w \in 1 .. arms : Serve(k, w)
    \/ \E K \in SUBSET Keys : Fail(K)

Spec == Init /\ [][Next]_vars
=============================================================================
