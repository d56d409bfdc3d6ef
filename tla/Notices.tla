------------------------------ MODULE Notices -------------------------------
(***************************************************************************)
(* What one conversation is told when its messages are refused: the copy   *)
(* for the customer, the handoff to a person, the note for the operator,   *)
(* in that order, the copy and the note once per cooldown window           *)
(* (src/src/modules/spend-ceiling/notice.ts and contact-auth/state.ts).    *)
(* Refusals overlap: one message is delivered on two routes, and two       *)
(* messages are refused at once.  The spend ceiling coalesces deliveries   *)
(* of one refusal and runs the sequences one after another; the contact    *)
(* authorization gate of webhook.ts runs them as they come.                *)
(*                                                                         *)
(* Abstracted: the operator's own switch is a fence that fails, and the    *)
(* windows are never evicted (10,000 of them) nor lost to a restart.       *)
(***************************************************************************)
EXTENDS Integers, Sequences, FiniteSets

CONSTANTS Deliveries,
          RefusalOf,        \* the message a delivery refuses
          Queued,           \* the spend ceiling's gate, or contact authorization's
          MaxTakes, MaxFaults

VARIABLES refusal,          \* what each delivery's gate is at
          line,             \* the conversation's queue, its head running
          window,           \* notices: the claim that holds each window
          mine,             \* the claim a delivery made
          claims,           \* the claims made so far name the next one
          cooldown,         \* whether the operator set one
          holder,           \* whose the conversation is
          told,             \* ghost: a copy was sent
          excused,          \* ghost: a send failed, or a person gave the conversation back between
                            \* the fence that withheld a copy and the handoff
          open,             \* ghost: windows of notices sent or under way, not lapsed
          takes, misses

vars == <<refusal, line, window, mine, claims, cooldown, holder, told, excused, open, takes, misses>>

Notice == {"copy", "note"}
None == 0                   \* no claim

TypeOK ==
    /\ refusal \in [Deliveries -> {"idle", "queued", "joined", "asking", "sending", "opening",
                                   "explaining", "posting", "done"}]
    /\ line \in Seq(Deliveries) /\ window \in [Notice -> Nat] /\ mine \in [Deliveries -> Nat]
    /\ holder \in {"bot", "gate", "person"} /\ cooldown \in BOOLEAN
    /\ told \in BOOLEAN /\ excused \in BOOLEAN /\ open \subseteq Notice \X (1..claims)

Init ==
    /\ refusal = [d \in Deliveries |-> "idle"] /\ line = <<>>
    /\ window = [n \in Notice |-> None] /\ mine = [d \in Deliveries |-> None] /\ claims = 0
    /\ cooldown \in BOOLEAN /\ holder = "bot"
    /\ told = FALSE /\ excused = FALSE /\ open = {} /\ takes = 0 /\ misses = 0

Miss == misses < MaxFaults /\ misses' = misses + 1

GoesTo(d, pc) == refusal' = [refusal EXCEPT ![d] = pc]

\* Mutant: the claim that stands is dropped, whoever made it.
ReleasesAny(d, n) == window' = [window EXCEPT ![n] = None]

\* releaseContactAuthNotice: only the claim that is still standing.
Releases(d, n) == window' = [window EXCEPT ![n] = IF @ = mine[d] THEN None ELSE @]

\* A notice that did not go out gives its window back.
GivesBack(d, n) == Releases(d, n) /\ open' = open \ {<<n, mine[d]>>}

\* claimContactAuthNotice: check and claim in one synchronous step; no cooldown claims nothing.
Voices(n) == ~cooldown \/ window[n] = None
Claims(d, n) ==
    IF cooldown
    THEN /\ claims' = claims + 1 /\ mine' = [mine EXCEPT ![d] = claims + 1]
         /\ window' = [window EXCEPT ![n] = claims + 1]
         /\ open' = open \cup {<<n, claims + 1>>}
    ELSE mine' = [mine EXCEPT ![d] = None] /\ UNCHANGED <<claims, window, open>>

-----------------------------------------------------------------------------
(* The world *)

Lapses(n) ==
    /\ window[n] # None
    /\ window' = [window EXCEPT ![n] = None] /\ open' = open \ {<<n, window[n]>>}
    /\ UNCHANGED <<refusal, line, mine, claims, cooldown, holder, told, excused, takes, misses>>

\* A person takes the conversation, or gives it back to the bot.
ChangesHands ==
    /\ takes < MaxTakes /\ takes' = takes + 1
    /\ holder' = IF holder = "person" THEN "bot" ELSE "person"
    /\ excused' = (excused \/ (holder = "person" /\ \E d \in Deliveries : refusal[d] = "opening"))
    /\ UNCHANGED <<refusal, line, window, mine, claims, cooldown, told, open, misses>>

-----------------------------------------------------------------------------
(* A refused delivery *)

\* Mutant: a delivery runs its sequence at once.
ArrivesUnqueued(d) == refusal[d] = "idle" /\ GoesTo(d, "queued") /\ UNCHANGED line

\* A delivery of a refusal in flight shares its answer.
Arrives(d) ==
    /\ refusal[d] = "idle"
    /\ IF Queued
       THEN IF \E e \in Deliveries : RefusalOf[e] = RefusalOf[d] /\ refusal[e] \notin {"idle", "joined", "done"}
            THEN GoesTo(d, "joined") /\ UNCHANGED line
            ELSE GoesTo(d, "queued") /\ line' = Append(line, d)
       ELSE GoesTo(d, "queued") /\ UNCHANGED line

Comes(d) ==
    /\ Arrives(d)
    /\ UNCHANGED <<window, mine, claims, cooldown, holder, told, excused, open, takes, misses>>

Begins(d) ==
    /\ refusal[d] = "queued"
    /\ line # <<>> => d = Head(line)
    /\ IF Voices("copy")
       THEN Claims(d, "copy") /\ GoesTo(d, "asking")
       ELSE GoesTo(d, "opening") /\ UNCHANGED <<claims, mine, window, open>>
    /\ UNCHANGED <<line, cooldown, holder, told, excused, takes, misses>>

Withheld(d) == GivesBack(d, "copy") /\ GoesTo(d, "opening")

\* The client is built, then the ownership fence asked: withheld once the conversation is not the bot's.
Asks(d) ==
    /\ refusal[d] = "asking"
    /\ \/ holder = "bot" /\ GoesTo(d, "sending") /\ UNCHANGED <<window, open, excused, misses>>
       \/ holder # "bot" /\ Withheld(d) /\ UNCHANGED <<excused, misses>>
       \/ Miss /\ Withheld(d) /\ excused' = TRUE
    /\ UNCHANGED <<line, mine, claims, cooldown, holder, told, takes>>

Sends(d) ==
    /\ refusal[d] = "sending"
    /\ \/ /\ told' = TRUE /\ GoesTo(d, "opening") /\ UNCHANGED <<window, open, excused, misses>>
       \/ Miss /\ Withheld(d) /\ excused' = TRUE /\ UNCHANGED told
    /\ UNCHANGED <<line, mine, claims, cooldown, holder, takes>>

\* The handoff is outside the cooldown, behind the same fence.
Opens(d) ==
    /\ refusal[d] = "opening" /\ GoesTo(d, "explaining")
    /\ \/ holder' = (IF holder = "bot" THEN "gate" ELSE holder) /\ UNCHANGED misses
       \/ Miss /\ UNCHANGED holder
    /\ UNCHANGED <<line, window, mine, claims, cooldown, told, excused, open, takes>>

\* The delivery is over, and with it those that joined it; the next in line runs.
Finishes(d) ==
    /\ refusal' = [e \in Deliveries |->
           IF e = d \/ (Queued /\ refusal[e] = "joined" /\ RefusalOf[e] = RefusalOf[d])
           THEN "done" ELSE refusal[e]]
    /\ line' = IF line = <<>> THEN line ELSE Tail(line)

Explains(d) ==
    /\ refusal[d] = "explaining"
    /\ IF Voices("note")
       THEN Claims(d, "note") /\ GoesTo(d, "posting") /\ UNCHANGED line
       ELSE Finishes(d) /\ UNCHANGED <<claims, mine, window, open>>
    /\ UNCHANGED <<cooldown, holder, told, excused, takes, misses>>

\* The note has no ownership fence.
Posts(d) ==
    /\ refusal[d] = "posting" /\ Finishes(d)
    /\ \/ UNCHANGED <<window, open, misses>>
       \/ Miss /\ GivesBack(d, "note")
    /\ UNCHANGED <<mine, claims, cooldown, holder, told, excused, takes>>

Next ==
    \/ ChangesHands \/ \E n \in Notice : Lapses(n)
    \/ \E d \in Deliveries : \/ Comes(d) \/ Begins(d) \/ Asks(d) \/ Sends(d) \/ Opens(d)
                             \/ Explains(d) \/ Posts(d)

Spec == Init /\ [][Next]_vars

-----------------------------------------------------------------------------
(* Properties *)

\* The spend ceiling never hands a conversation to a person before the customer was told, however
\* refusals overlap: no sequence finds the copy's window held by a send that its own handoff then
\* withholds, and a copy withheld gives its window back (notice.ts: "COPY, THEN HANDOFF").
ToldBeforeHandedOff == Queued /\ holder = "gate" => told \/ excused

\* Of each notice one window is open at a time, however slow a send that fails: a release never
\* takes another delivery's window away (state.ts: "`until' identifies THIS claim").
OneOpenWindow == \A n \in Notice : Cardinality({w \in open : w[1] = n}) <= 1
=============================================================================
