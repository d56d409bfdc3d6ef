------------------------------- MODULE Grants -------------------------------
(***************************************************************************)
(* The stored verdict of contact authorization (src/src/modules/           *)
(* contact-auth): checks of one contact in one process, over the grant row *)
(* of that contact.  An allow may be stored and reused under the mode      *)
(* `once'; a refusal removes it under every mode.  Mutations of the row    *)
(* run one at a time (withKeyedQueue); what the process knows of refusals  *)
(* and of unconfirmed writes is in memory.                                 *)
(*                                                                         *)
(* Abstracted: the identity and policy fingerprints are the credential's   *)
(* revision; the grant's expiry, the eviction of `known' (past 10,000      *)
(* contacts, never a recent refusal) and restarts, which forget `known',   *)
(* are left out.                                                           *)
(***************************************************************************)
EXTENDS Integers, Sequences

CONSTANTS Checks, MaxRotations, MaxFaults

VARIABLES row,              \* contactAuthGrant: who the stored verdict is from
          known,            \* the process's memory of the contact
          mutations,        \* the contact's queue, its head under way
          check, clock,
          revision,         \* of the credential in the vault
          refused,          \* ghost: when the newest refusal was asked
          faults

vars == <<row, known, mutations, check, clock, revision, refused, faults>>

Unreadable == -1
NoRow == [kept |-> FALSE, asked |-> 0, stamp |-> 0, used |-> 0]
Idle == [at |-> "idle", mode |-> "once", asked |-> 0, stamp |-> 0, used |-> 0, reused |-> FALSE,
         floor |-> 0, served |-> 0]
Over == [Idle EXCEPT !.at = "done"]

Stamp == Nat \cup {Unreadable}
Mutation == [by : Checks, does : {"delete", "store"},
             under : {"queued", "delete", "clear", "store"},
             asked : Nat, stamp : Stamp, used : Nat]
CheckRecord ==
    [at : {"idle", "retrying", "stamping", "reading", "resolving", "asking", "booking", "done"},
     mode : {"once", "perMessage"}, asked : Nat, stamp : Stamp, used : Nat,
     reused : BOOLEAN, floor : Nat, served : Nat]

TypeOK ==
    /\ row \in [kept : BOOLEAN, asked : Nat, stamp : Stamp, used : Nat]
    /\ known \in [refusedAt : Nat, unconfirmed : BOOLEAN]
    /\ mutations \in Seq(Mutation)
    /\ check \in [Checks -> CheckRecord]
    /\ clock \in Nat /\ revision \in Nat /\ refused \in Nat /\ faults \in Nat

\* refusedAt 0 is no refusal: the clock starts at 1.
Init ==
    /\ row = NoRow
    /\ known = [refusedAt |-> 0, unconfirmed |-> FALSE]
    /\ mutations = <<>>
    /\ check = [c \in Checks |-> Idle]
    /\ clock = 1 /\ revision = 0 /\ refused = 0 /\ faults = 0

Fault == faults < MaxFaults /\ faults' = faults + 1

Newest(a, b) == IF a > b THEN a ELSE b

\* remember: the newest refusal stays.
Remembers(refusedAt, unconfirmed) ==
    known' = [refusedAt |-> Newest(refusedAt, known.refusedAt), unconfirmed |-> unconfirmed]

\* refusedSince: two events of one instant are read as the refusal coming last.
RefusedSince(asked) == known.refusedAt >= asked

\* What the queued closure holds.
Enqueued(c, does) == Append(mutations,
    [by |-> c, does |-> does, under |-> "queued",
     asked |-> check[c].asked, stamp |-> check[c].stamp, used |-> check[c].used])

Uses(c) == check[c].mode = "once" /\ check[c].stamp # Unreadable

-----------------------------------------------------------------------------
(* The world *)

Rotates ==
    /\ revision < MaxRotations /\ revision' = revision + 1
    /\ UNCHANGED <<row, known, mutations, check, clock, refused, faults>>

-----------------------------------------------------------------------------
(* A check (authorizeContact) *)

\* askedAt, and the retry of an unconfirmed write under either mode.
Starts(c) ==
    /\ check[c].at = "idle"
    /\ clock' \in {clock, clock + 1}
    /\ \E mode \in {"once", "perMessage"} :
         check' = [check EXCEPT ![c] = [@ EXCEPT
             !.at = IF known.unconfirmed THEN "retrying" ELSE "stamping",
             !.mode = mode, !.asked = clock']]
    /\ mutations' = IF known.unconfirmed THEN Enqueued(c, "delete") ELSE mutations
    /\ UNCHANGED <<row, known, revision, refused, faults>>

\* The credential's revision, then the stored verdict's query: hasUnconfirmedWrite is asked before it.
Stamps(c) ==
    /\ check[c].at = "stamping"
    /\ \/ /\ check[c].mode = "once"
          /\ check' = [check EXCEPT ![c] = [@ EXCEPT
               !.at = IF known.unconfirmed THEN "resolving" ELSE "reading",
               !.stamp = revision, !.floor = refused]]
          /\ UNCHANGED faults
       \/ /\ check[c].mode = "once" /\ Fault
          /\ check' = [check EXCEPT ![c].at = "resolving", ![c].stamp = Unreadable]
       \/ /\ check[c].mode = "perMessage"
          /\ check' = [check EXCEPT ![c].at = "resolving"]
          /\ UNCHANGED faults
    /\ UNCHANGED <<row, known, mutations, clock, revision, refused>>

\* A row that matches is served; a read that fails is a miss.
Reads(c) ==
    /\ check[c].at = "reading"
    /\ \/ /\ row.kept /\ row.stamp = check[c].stamp
          /\ check' = [check EXCEPT ![c] = [@ EXCEPT
               !.at = "done", !.reused = TRUE, !.served = row.asked, !.used = row.used]]
          /\ UNCHANGED faults
       \/ /\ ~(row.kept /\ row.stamp = check[c].stamp) /\ UNCHANGED faults
          /\ check' = [check EXCEPT ![c].at = "resolving"]
       \/ /\ Fault
          /\ check' = [check EXCEPT ![c].at = "resolving"]
    /\ UNCHANGED <<row, known, mutations, clock, revision, refused>>

Resolves(c) ==
    /\ check[c].at = "resolving"
    /\ check' = [check EXCEPT ![c].at = "asking", ![c].used = revision]
    /\ UNCHANGED <<row, known, mutations, clock, revision, refused, faults>>

\* The deadline runs out in any wait before the answer; the queue keeps the slot of a retry.
GivesUp(c) ==
    /\ check[c].at \in {"retrying", "resolving", "asking"}
    /\ check' = [check EXCEPT ![c] = Over]
    /\ UNCHANGED <<row, known, mutations, clock, revision, refused, faults>>

\* A refusal is remembered before its delete is queued.
Refuses(c) == Remembers(check[c].asked, TRUE) /\ mutations' = Enqueued(c, "delete")

\* The endpoint answers as it sees fit at that moment, and the bookkeeping behind it is queued.
Answers(c) ==
    /\ check[c].at = "asking"
    /\ \/ /\ Refuses(c) /\ check' = [check EXCEPT ![c].at = "booking"]
          /\ refused' = Newest(refused, check[c].asked)
       \/ /\ Uses(c)
          /\ mutations' = Enqueued(c, "store")
          /\ check' = [check EXCEPT ![c].at = "booking"] /\ UNCHANGED <<known, refused>>
       \/ /\ ~Uses(c)
          /\ check' = [check EXCEPT ![c] = Over] /\ UNCHANGED <<known, mutations, refused>>
    /\ UNCHANGED <<row, clock, revision, faults>>

-----------------------------------------------------------------------------
(* The queue of the contact *)

Working == Head(mutations)
HasWork == mutations # <<>>

\* Mutant: a store does not ask who was refused meanwhile.
BeginsBlindly == IF Working.does = "delete" THEN "delete" ELSE "store"

\* writeContactAuthGrant: an allow asked before a refusal clears the row instead.
Begins ==
    IF Working.does = "delete" THEN "delete" ELSE IF RefusedSince(Working.asked) THEN "clear" ELSE "store"

\* The body of the next mutation runs to its statement.
MutationBegins ==
    /\ HasWork /\ Working.under = "queued"
    /\ mutations' = [mutations EXCEPT ![1].under = Begins]
    /\ UNCHANGED <<row, known, check, clock, revision, refused, faults>>

\* The caller, unless it has given up.
CallerGoesOn ==
    check' = [check EXCEPT ![Working.by] =
                 CASE @.at = "retrying" -> [@ EXCEPT !.at = "stamping"]
                   [] @.at = "booking" -> Over
                   [] OTHER -> @]

Stored == [kept |-> TRUE, asked |-> Working.asked, stamp |-> Working.stamp, used |-> Working.used]

Settled == mutations' = Tail(mutations) /\ CallerGoesOn /\ UNCHANGED <<clock, revision, refused>>

\* The statement commits.  Only the delete of a refusal, or of its retry, is a confirmation.
MutationLands ==
    /\ HasWork /\ Working.under # "queued"
    /\ row' = IF Working.under = "store" THEN Stored ELSE NoRow
    /\ known' = IF Working.under = "delete" THEN [known EXCEPT !.unconfirmed = FALSE] ELSE known
    /\ Settled /\ UNCHANGED faults

\* What is known after a statement that threw: a store may have committed.
FailureKnown ==
    [known EXCEPT !.unconfirmed = IF Working.under = "delete" THEN @ ELSE TRUE]

\* The statement throws: a store may have committed all the same.
MutationFails ==
    /\ HasWork /\ Working.under # "queued" /\ Fault
    /\ row' \in IF Working.under = "store" THEN {row, Stored} ELSE {row}
    /\ known' = FailureKnown
    /\ Settled

Next ==
    \/ Rotates \/ MutationBegins \/ MutationLands \/ MutationFails
    \/ \E c \in Checks : \/ Starts(c) \/ Stamps(c) \/ Reads(c) \/ Resolves(c)
                         \/ Answers(c) \/ GivesUp(c)

Spec == Init /\ [][Next]_vars

-----------------------------------------------------------------------------
(* Properties *)

\* A stored verdict that is reused was asked after every refusal the process had been given when the
\* read began, and with a credential no older than the one in force when the check read its revision:
\* an overlap, a late answer, a failed delete or a mode switched twice never serves a contact the
\* endpoint has refused since (grants.ts: "An allow never survives a refusal").
ServedIsCurrent ==
    \A c \in Checks : check[c].reused =>
        check[c].served > check[c].floor /\ check[c].used >= check[c].stamp
=============================================================================
