--------------------------- MODULE DeliveryLedger ---------------------------
(***************************************************************************)
(* The webhook delivery ledger of one conversation                         *)
(* (src/src/modules/chatwoot/{webhook,delivery-sweep,stranded-delivery,    *)
(* recover-delivery}.ts): what happens to a customer's message when the    *)
(* process that took its webhook dies, stalls or fails half way.           *)
(*                                                                         *)
(* Chatwoot is answered 200 before anything runs, so a row of the ledger   *)
(* is the only thing that still knows a message came.  A row goes PENDING  *)
(* -> PROCESSING -> PROCESSED; the sweep takes the rows nothing moved for  *)
(* half an hour to DEAD and reports them lost; a recovery job replays a    *)
(* DEAD row through the same code; a turn that covered the message closes  *)
(* its row wherever it finds it.                                           *)
(*                                                                         *)
(* A message has a delivery on the responder's route, and may have one on  *)
(* an observer's, which only folds it into a memory thread.  The responder *)
(* modelled does not ingest, so the two routes own their rows apart.       *)
(* An attempt is one call of processChatwootDelivery: the webhook's        *)
(* ("post", which a repost repeats) or the recovery's ("replay").  Which   *)
(* turn may post is Debounce's subject; here a turn ends one way or        *)
(* another.  Time is one bit per row: the sweep's cutoff has passed.       *)
(***************************************************************************)
EXTENDS Integers, FiniteSets

CONSTANTS Responder, Observer,  \* the deliveries, by route
          MsgOf, MaxMsgs,       \* the message of each, numbered in Chatwoot's order
          Procs, Leader,        \* the processes; Leader also runs the scheduler
          Debounced,            \* a burst waits for the flush; else each turn is direct
          Colleague,            \* a colleague may take the conversation
          Movable,              \* what an operator may bind and unbind
          MaxRecoveries,        \* MAX_RECOVERY_ATTEMPTS
          MaxReposts, MaxCrashes, MaxFaults, MaxSlow, MaxMoves

Deliveries == Responder \cup Observer
Msgs == 1..MaxMsgs
Kinds == {"post", "repost", "replay"}
Attempts == Deliveries \X Kinds
Burst == <<"burst", "flush">>  \* the flush, as a holder of the thread

\* The responder of the inbox, the observer's row, the observer's own bot.
Bindings == {"responder", "observer", "persona"}

ASSUME ConstantsAssumption ==
    /\ Responder \cap Observer = {} /\ Deliveries # {}
    /\ MaxMsgs \in Nat /\ MsgOf \in [Deliveries -> Msgs]
    /\ Leader \in Procs /\ Debounced \in BOOLEAN /\ Colleague \in BOOLEAN
    /\ Movable \subseteq Bindings
    /\ MaxRecoveries \in Nat /\ MaxReposts \in Nat /\ MaxCrashes \in Nat
    /\ MaxFaults \in Nat /\ MaxSlow \in Nat /\ MaxMoves \in Nat

VARIABLES sent,     \* messages the customer has written
          posts,    \* webhooks of a delivery still to come
          row,      \* ChatwootWebhookDelivery
          run,      \* the attempts
          flush,    \* the debounced job and its turn
          holds,    \* turns holding the thread, with those a crash left behind
          sweep,    \* the pass of the sweep
          job,      \* DELIVERY_RECOVERY, by row
          owner,    \* who has the conversation
          binding,  \* the routes that resolve an agent, and the generation
          handled,  \* lastHandledMessageId
          memory,   \* messages folded into the observer's thread
          unread,   \* ghost: deliveries whose attempt had nobody, or nowhere, to remember it
          fate,     \* ghost: what became of each message
          losses, closings,  \* lines written about each row
          cut,      \* ghost: rows reported under a live attempt, or whose replay
                    \* died or threw before its line
          crashes, faults, slow

data   == <<row, handled, memory, unread>>
world  == <<sent, posts, owner, binding>>
turns  == <<flush, holds>>
jobs   == <<sweep, job>>
lines  == <<losses, closings, cut>>
bounds == <<crashes, slow>>
vars   == <<world, data, run, turns, jobs, fate, lines, bounds, faults>>

\* The places an attempt can be: before the claim, holding it, and, for a
\* replay, around it.
Unclaimed == {"resolving", "claiming"}
Claimed == {"deciding", "arming", "turning", "failing", "ingesting", "marking", "settling",
            "correcting", "closing"}
Around == {"reading", "fencing", "restoring", "judging"}
Attending == Claimed \cup {"restoring", "judging"}
Stages == {"idle"} \cup Unclaimed \cup Claimed \cup Around

Outcomes == {"none", "posted", "silent", "unavailable", "threw", "consumed", "ingested", "off",
             "threadless"}

RowType == [status : {"ABSENT", "PENDING", "PROCESSING", "PROCESSED", "DEAD"},
            observed : {"unsaid", "yes", "no"}, attempts : 0..MaxRecoveries,
            generation : 0..MaxMoves, stale : BOOLEAN]
RunType == [at : Stages, proc : Procs, observer : BOOLEAN, responder : BOOLEAN,
            generation : 0..MaxMoves, outcome : Outcomes]

TypeOK ==
    /\ sent \in 0..MaxMsgs /\ posts \in [Deliveries -> 0..1 + MaxReposts]
    /\ row \in [Deliveries -> RowType]
    /\ run \in [Attempts -> RunType]
    /\ flush \in [armed : BOOLEAN, at : {"idle", "turning", "settling", "correcting"},
                  from : 0..MaxMsgs, upTo : 0..MaxMsgs]
    /\ holds \subseteq Attempts \cup {Burst}
    /\ sweep \in [at : {"idle", "arming", "reporting"}, row : Deliveries]
    /\ job \in [Deliveries -> {"none", "armed", "running", "again"}]
    /\ owner \in {"bot", "human"}
    /\ binding \in [routes : SUBSET Bindings, generation : 0..MaxMoves]
    /\ handled \in 0..MaxMsgs
    /\ fate \in [Msgs -> SUBSET {"answered", "decided", "announced", "passed"}]
    /\ memory \subseteq Msgs /\ unread \subseteq Deliveries
    /\ losses \in [Deliveries -> Nat] /\ closings \in [Deliveries -> Nat] /\ cut \subseteq Deliveries
    /\ crashes \in 0..MaxCrashes /\ faults \in 0..MaxFaults /\ slow \in 0..MaxSlow

NoRow == [status |-> "ABSENT", observed |-> "unsaid", attempts |-> 0, generation |-> 0,
          stale |-> FALSE]
NoRun == [at |-> "idle", proc |-> Leader, observer |-> FALSE, responder |-> FALSE,
          generation |-> 0, outcome |-> "none"]

Init ==
    /\ sent = 0 /\ posts = [d \in Deliveries |-> 0]
    /\ row = [d \in Deliveries |-> NoRow]
    /\ run = [a \in Attempts |-> NoRun]
    /\ flush = [armed |-> FALSE, at |-> "idle", from |-> 0, upTo |-> 0] /\ holds = {}
    /\ sweep = [at |-> "idle", row |-> CHOOSE d \in Deliveries : TRUE]
    /\ job = [d \in Deliveries |-> "none"]
    /\ owner = "bot"
    /\ binding = [routes |-> Bindings, generation |-> 0]
    /\ handled = 0 /\ memory = {} /\ unread = {} /\ fate = [m \in Msgs |-> {}]
    /\ losses = [d \in Deliveries |-> 0] /\ closings = [d \in Deliveries |-> 0] /\ cut = {}
    /\ crashes = 0 /\ faults = 0 /\ slow = 0

Fault == faults < MaxFaults /\ faults' = faults + 1
Larger(x, y) == IF x >= y THEN x ELSE y
Attended(d) == \E k \in Kinds : run[<<d, k>>].at \in Attending
Goes(a, at) == run' = [run EXCEPT ![a].at = at]
Stops(a) == run' = [run EXCEPT ![a] = NoRun]

Replays(a) == a[2] = "replay"
Row(a) == row[a[1]]
Msg(a) == MsgOf[a[1]]

\* An attempt without a runtime: the route resolved nobody.
Unrouted(a) == ~run[a].observer /\ ~run[a].responder

\* What a turn, a gate or an ingestion makes of its messages.  A turn that
\* threw is visible on the conversation (recordConversationError,
\* announceFailedTurn).
Meaning == [posted |-> {"answered"}, threw |-> {"announced"}, silent |-> {"decided"},
            unavailable |-> {"decided"}, consumed |-> {"decided"}, ingested |-> {}, off |-> {},
            threadless |-> {}, none |-> {}]
Becomes(ms, outcome) ==
    fate' = [m \in Msgs |-> IF m \in ms THEN fate[m] \cup Meaning[outcome] ELSE fate[m]]

---------------------------------------------------------------------------
(* The world: the customer writes, a colleague takes the conversation, an  *)
(* operator moves a binding, half an hour passes.                          *)

CustomerWrites ==
    /\ sent < MaxMsgs
    /\ sent' = sent + 1
    /\ \E n \in 1..1 + MaxReposts :
         posts' = [d \in Deliveries |-> IF MsgOf[d] = sent + 1 THEN n ELSE posts[d]]
    /\ UNCHANGED <<owner, binding, data, run, turns, jobs, fate, lines, bounds, faults>>

HumanTakes ==
    /\ Colleague /\ owner = "bot" /\ owner' = "human"
    /\ UNCHANGED <<sent, posts, binding, data, run, turns, jobs, fate, lines, bounds, faults>>

BindingMoves(route) ==
    /\ route \in Movable /\ binding.generation < MaxMoves
    /\ binding' = [generation |-> binding.generation + 1,
                   routes |-> IF route \in binding.routes THEN binding.routes \ {route}
                              ELSE binding.routes \cup {route}]
    /\ UNCHANGED <<sent, posts, owner, data, run, turns, jobs, fate, lines, bounds, faults>>

\* The row's clock passes the sweep's cutoff.  A live attempt takes that
\* long only when it stalls.
Ages(d) ==
    /\ row[d].status \in {"PENDING", "PROCESSING"} /\ ~row[d].stale
    /\ IF \E k \in Kinds : run[<<d, k>>].at # "idle" THEN slow < MaxSlow /\ slow' = slow + 1
       ELSE UNCHANGED slow
    /\ row' = [row EXCEPT ![d].stale = TRUE]
    /\ UNCHANGED <<world, handled, memory, unread, run, turns, jobs, fate, lines, crashes, faults>>

---------------------------------------------------------------------------
(* recordAndProcessChatwootDelivery: the row, the route, the claim.        *)

\* A repost finds the row and goes on: the claim is the real gate.
Receives(d, k, p) ==
    /\ posts[d] > 0 /\ k # "replay" /\ run[<<d, k>>].at = "idle"
    /\ posts' = [posts EXCEPT ![d] = @ - 1]
    /\ row' = [row EXCEPT ![d] = IF @.status # "ABSENT" THEN @
                                 ELSE [NoRow EXCEPT !.status = "PENDING",
                                                    !.generation = binding.generation]]
    /\ run' = [run EXCEPT ![<<d, k>>] = [NoRun EXCEPT !.at = "resolving", !.proc = p]]
    /\ UNCHANGED <<sent, owner, binding, handled, memory, unread, turns, jobs, fate, lines, bounds, faults>>

\* Every attempt of claimDelivery failed, and Chatwoot has its 200.
ReceiptFails(d) ==
    /\ posts[d] > 0 /\ Fault
    /\ posts' = [posts EXCEPT ![d] = @ - 1]
    /\ UNCHANGED <<sent, owner, binding, data, run, turns, jobs, fate, lines, bounds>>

\* A replay goes by the role its row states and needs only the bot, a webhook
\* by the observer's row.  Each reading is the binding as it is now.
Watches(a) ==
    /\ "persona" \in binding.routes
    /\ IF Replays(a) THEN Row(a).observed = "yes"
       ELSE a[1] \in Observer /\ "observer" \in binding.routes

Resolve(a) ==
    /\ run[a].at = "resolving"
    /\ run' = [run EXCEPT ![a] = [@ EXCEPT !.at = "claiming", !.observer = Watches(a),
                                           !.responder = "responder" \in binding.routes,
                                           !.generation = binding.generation]]
    /\ UNCHANGED <<world, data, turns, jobs, fate, lines, bounds, faults>>

\* An attempt throws: a webhook's is over, a replay's puts its row back.
Throws(a) ==
    IF Replays(a) THEN run' = [run EXCEPT ![a].at = "restoring", ![a].outcome = "threw"]
    ELSE Stops(a)

ResolutionFails(a) ==
    /\ run[a].at = "resolving" /\ Fault /\ Throws(a)
    /\ UNCHANGED <<world, data, turns, jobs, fate, lines, bounds>>

\* The binding moved since the receipt and nobody is left to ask: the row is
\* left PENDING for the sweep.
Refuses(a) ==
    /\ ~Replays(a) /\ Unrouted(a)
    /\ run[a].generation # Row(a).generation
    /\ Row(a).status = "PENDING"

\* A replay never restates an observer's row as the responder's.
Claims(a) ==
    /\ Row(a).status = IF Replays(a) THEN "DEAD" ELSE "PENDING"
    /\ Replays(a) /\ Row(a).observed = "yes" => run[a].observer

\* The job of a row ends; one armed meanwhile runs again.
JobEnds(d, next) == job' = [job EXCEPT ![d] = IF @ = "again" THEN "armed" ELSE next]

AttemptsAfter(a) == IF Replays(a) THEN Row(a).attempts + 1 ELSE Row(a).attempts

Claim(a) ==
    /\ run[a].at = "claiming" /\ ~Refuses(a) /\ Claims(a)
    /\ row' = [row EXCEPT ![a[1]] =
                 [@ EXCEPT !.status = "PROCESSING", !.stale = FALSE,
                           !.observed = IF run[a].observer THEN "yes" ELSE "no",
                           !.attempts = AttemptsAfter(a)]]
    /\ run' = [run EXCEPT ![a].at = "deciding", ![a].generation = 0]
    /\ UNCHANGED <<world, handled, memory, unread, turns, jobs, fate, lines, bounds, faults>>

Skip(a) ==
    /\ run[a].at = "claiming" /\ (Refuses(a) \/ ~Claims(a))
    /\ Stops(a)
    /\ IF Replays(a) THEN JobEnds(a[1], "none") ELSE UNCHANGED job
    /\ UNCHANGED <<world, data, turns, sweep, fate, lines, bounds, faults>>

---------------------------------------------------------------------------
(* The claimed half of processChatwootDelivery.                            *)

\* shouldBotHandle: an observer's bot is not the one the conversation is
\* assigned to, whatever the binding says by now.
Acts(a) == owner = "bot" /\ ~run[a].observer /\ (Replays(a) \/ a[1] \in Responder)

\* A command, an answer of the access gate, or a conversation that is not
\* the bot's: no turn runs for this message.
Decide(a) ==
    /\ run[a].at = "deciding"
    /\ \/ run[a].observer /\ Goes(a, "ingesting")
       \/ Acts(a) /\ Goes(a, "arming")
       \/ /\ ~run[a].observer
          /\ run' = [run EXCEPT ![a].at = "marking", ![a].outcome = "consumed"]
    /\ UNCHANGED <<world, data, turns, jobs, fate, lines, bounds, faults>>

ArmedUnderAFlush == flush.at = "idle" \/ flush.armed
ArmedAfter == TRUE

Arm(a) ==
    /\ run[a].at = "arming"
    /\ IF Debounced /\ ~Unrouted(a)
       THEN flush' = [flush EXCEPT !.armed = ArmedAfter] /\ Goes(a, "closing")
       ELSE UNCHANGED flush /\ Goes(a, "turning")
    /\ UNCHANGED <<world, data, holds, jobs, fate, lines, bounds, faults>>

\* "falling back to a direct turn"
ArmFails(a) ==
    /\ run[a].at = "arming" /\ Debounced /\ Fault
    /\ Goes(a, "turning")
    /\ UNCHANGED <<world, data, turns, jobs, fate, lines, bounds>>

TurnStarts(a) ==
    /\ run[a].at = "turning" /\ a \notin holds
    /\ holds' = holds \cup {a}
    /\ UNCHANGED <<world, data, run, flush, jobs, fate, lines, bounds, faults>>

\* The outcomes of a turn: no agent or one that is off, a reply, a decision
\* (blocked, taken over), an error.
TurnOutcomes(a) == IF Unrouted(a) THEN {"unavailable"}
                   ELSE {"posted", "silent", "unavailable", "threw"}

TurnEnds(a) ==
    /\ run[a].at = "turning" /\ a \in holds
    /\ holds' = holds \ {a}
    /\ \E o \in TurnOutcomes(a) :
         /\ run' = [run EXCEPT ![a].outcome = o,
                               ![a].at = IF o = "threw" THEN "failing" ELSE "settling"]
         /\ IF o = "threw" THEN UNCHANGED fate ELSE Becomes({Msg(a)}, o)
    /\ UNCHANGED <<world, data, flush, jobs, lines, bounds, faults>>

Announce(a) ==
    /\ run[a].at = "failing"
    /\ Becomes({Msg(a)}, "threw") /\ Goes(a, "closing")
    /\ UNCHANGED <<world, data, turns, jobs, lines, bounds, faults>>

\* Keyed by thread and message: a second ingestion finds the first.  An
\* observer that is switched off remembers nothing, and a conversation that
\* names no contact-inbox has nowhere to keep the message: both leave it
\* unmarked, and the row is closed all the same.
Ingest(a) ==
    /\ run[a].at = "ingesting"
    /\ \E o \in {"ingested", "off", "threadless"} :
         LET kept == o = "ingested" IN
         /\ memory' = IF kept THEN memory \cup {Msg(a)} ELSE memory
         /\ unread' = IF kept THEN unread ELSE unread \cup {a[1]}
         /\ run' = [run EXCEPT ![a].at = IF kept THEN "marking" ELSE "closing", ![a].outcome = o]
    /\ UNCHANGED <<world, row, handled, turns, jobs, fate, lines, bounds, faults>>

IngestFails(a) ==
    /\ run[a].at = "ingesting" /\ Fault /\ Throws(a)
    /\ UNCHANGED <<world, data, turns, jobs, fate, lines, bounds>>

\* An observer leaves the mark alone while a responder may still answer.
MayAnswer(a) == run[a].observer /\ run[a].responder

\* The message is decided by whoever may decide: its gate, a colleague who
\* has the conversation, an observer on an inbox nobody answers.  The mark
\* also passes over what is still waiting below it.
Decides(a) == run[a].observer \/ Acts(a) \/ owner = "human"
MarkMeans(a) ==
    fate' = [m \in Msgs |->
               IF MayAnswer(a) \/ ~Decides(a) THEN fate[m]
               ELSE IF m = Msg(a) THEN fate[m] \cup {"decided"}
               ELSE IF m < Msg(a) /\ fate[m] = {} THEN {"passed"} ELSE fate[m]]

Mark(a) ==
    /\ run[a].at = "marking"
    /\ handled' = IF MayAnswer(a) THEN handled ELSE Larger(handled, Msg(a))
    /\ MarkMeans(a)
    /\ Goes(a, "settling")
    /\ UNCHANGED <<world, row, memory, unread, turns, jobs, lines, bounds, faults>>

MarkFails(a) ==
    /\ run[a].at = "marking" /\ ~MayAnswer(a) /\ Fault
    /\ IF run[a].observer THEN Throws(a) /\ UNCHANGED fate
       ELSE Goes(a, "settling") /\ MarkMeans(a)
    /\ UNCHANGED <<world, data, turns, jobs, lines, bounds>>

---------------------------------------------------------------------------
(* retireCoveredDeliveries: the rows of the messages a turn or a gate      *)
(* covered, first the live ones, then those reported lost, which get a     *)
(* closing line.  Its failure is logged and the attempt goes on.           *)

NarrowByRole(a) == run[a].observer

\* An observer, and a bot that does not hold the conversation, closes its
\* own row only.  A wide scope leaves the observers' rows alone.
Narrow(a) == run[a].observer \/ (a[1] \in Observer /\ ~Replays(a))
CoveredOnAnyRoute(ms) == {d \in Deliveries : MsgOf[d] \in ms}
Covered(ms) == {d \in Deliveries : MsgOf[d] \in ms /\ row[d].observed # "yes"}
Scope(a) == IF Narrow(a) THEN {a[1]} ELSE Covered({Msg(a)})
Live(ds, narrow) ==
    {d \in ds : row[d].status = "PROCESSING" /\ (narrow \/ row[d].observed = "no")}

Retires(ds, narrow) ==
    row' = [d \in Deliveries |-> IF d \in Live(ds, narrow)
                                 THEN [row[d] EXCEPT !.status = "PROCESSED"] ELSE row[d]]
CorrectsInSilence(ds) ==
    /\ row' = [d \in Deliveries |-> IF d \in ds /\ row[d].status = "DEAD"
                                    THEN [row[d] EXCEPT !.status = "PROCESSED"] ELSE row[d]]
    /\ UNCHANGED closings
Corrects(ds) ==
    LET dead == {d \in ds : row[d].status = "DEAD"} IN
    /\ row' = [d \in Deliveries |-> IF d \in dead
                                    THEN [row[d] EXCEPT !.status = "PROCESSED"] ELSE row[d]]
    /\ closings' = [d \in Deliveries |-> IF d \in dead THEN closings[d] + 1 ELSE closings[d]]

Settle(a) ==
    /\ run[a].at = "settling"
    /\ Retires(Scope(a), Narrow(a)) /\ Goes(a, "correcting")
    /\ UNCHANGED <<world, handled, memory, unread, turns, jobs, fate, lines, bounds, faults>>

Correct(a) ==
    /\ run[a].at = "correcting"
    /\ Corrects(Scope(a)) /\ Goes(a, "closing")
    /\ UNCHANGED <<world, handled, memory, unread, turns, jobs, fate, losses, cut, bounds, faults>>

SettleFails(a) ==
    /\ run[a].at \in {"settling", "correcting"} /\ Fault
    /\ Goes(a, "closing")
    /\ UNCHANGED <<world, data, turns, jobs, fate, lines, bounds>>

\* tx2 names the row and no status.
Close(a) ==
    /\ run[a].at = "closing"
    /\ row' = [row EXCEPT ![a[1]].status = "PROCESSED"]
    /\ IF Replays(a) THEN Goes(a, "judging") ELSE Stops(a)
    /\ UNCHANGED <<world, handled, memory, unread, turns, jobs, fate, lines, bounds, faults>>

CloseFails(a) ==
    /\ run[a].at = "closing" /\ Fault /\ Throws(a)
    /\ UNCHANGED <<world, data, turns, jobs, fate, lines, bounds>>

Step(a) ==
    \/ Resolve(a) \/ ResolutionFails(a) \/ Claim(a) \/ Skip(a) \/ Decide(a) \/ Arm(a) \/ ArmFails(a)
    \/ TurnStarts(a) \/ TurnEnds(a) \/ Announce(a) \/ Ingest(a) \/ IngestFails(a)
    \/ Mark(a) \/ MarkFails(a) \/ Settle(a) \/ Correct(a) \/ SettleFails(a)
    \/ Close(a) \/ CloseFails(a)

---------------------------------------------------------------------------
(* The flush: one turn for every message nobody has handled.               *)

\* isTurnInFlight, and the mark a replay reserves across its handoff.
InFlight(p) ==
    \/ flush.at = "turning" /\ p = Leader
    \/ \E a \in Attempts : /\ run[a].proc = p
                           /\ \/ run[a].at = "turning"
                              \/ Replays(a) /\ run[a].at \in Unclaimed \cup Claimed

InBurst == flush.from + 1..flush.upTo

FlushStarts ==
    /\ flush.armed /\ flush.at = "idle" /\ ~InFlight(Leader)
    /\ IF handled < sent
       THEN /\ flush' = [armed |-> FALSE, at |-> "turning", from |-> handled, upTo |-> sent]
            /\ holds' = holds \cup {Burst}
       ELSE flush' = [flush EXCEPT !.armed = FALSE] /\ UNCHANGED holds
    /\ UNCHANGED <<world, data, run, jobs, fate, lines, bounds, faults>>

\* The gate is closed: the burst is settled in silence.  Nobody is there to
\* answer (the inbox is unbound, its agent off): the flush is done and nothing
\* is marked, so the burst waits above the mark for a later binding.
FlushEnds ==
    /\ flush.at = "turning"
    /\ holds' = holds \ {Burst}
    /\ \/ /\ owner = "bot" => "responder" \in binding.routes
          /\ \E o \in {"posted", "silent"} :
               (owner = "human" => o = "silent") /\ Becomes(InBurst, o)
          /\ flush' = [flush EXCEPT !.at = "settling"]
       \/ /\ owner = "bot"
          /\ Becomes(InBurst, "unavailable")
          /\ flush' = [flush EXCEPT !.at = "idle"]
    /\ UNCHANGED <<world, data, run, jobs, lines, bounds, faults>>

\* The turn failed: the scheduler runs the flush again, or its last failure
\* is announced on the conversation.
FlushFails ==
    /\ flush.at = "turning" /\ Fault
    /\ holds' = holds \ {Burst}
    /\ \/ flush' = [flush EXCEPT !.at = "idle", !.armed = TRUE] /\ UNCHANGED fate
       \/ flush' = [flush EXCEPT !.at = "idle"] /\ Becomes(InBurst, "threw")
    /\ UNCHANGED <<world, data, run, jobs, lines, bounds>>

FlushSettles ==
    /\ flush.at = "settling"
    /\ handled' = Larger(handled, flush.upTo)
    /\ Retires(Covered(InBurst), FALSE)
    /\ flush' = [flush EXCEPT !.at = "correcting"]
    /\ UNCHANGED <<world, memory, unread, run, holds, jobs, fate, lines, bounds, faults>>

FlushCorrects ==
    /\ flush.at = "correcting"
    /\ Corrects(Covered(InBurst))
    /\ flush' = [flush EXCEPT !.at = "idle"]
    /\ UNCHANGED <<world, handled, memory, unread, run, holds, jobs, fate, losses, cut, bounds, faults>>

---------------------------------------------------------------------------
(* sweepStrandedDeliveries.  Its scan and its write name the same status,  *)
(* and a row it scanned cannot come back to that status: one step.         *)

StrandedInWork(d) == row[d].status = "PROCESSING" /\ row[d].stale
Stranded(d) == row[d].status \in {"PENDING", "PROCESSING"} /\ row[d].stale

SweepTakes(d) ==
    /\ sweep.at = "idle" /\ Stranded(d)
    /\ row' = [row EXCEPT ![d].status = "DEAD"]
    /\ sweep' = [at |-> "arming", row |-> d]
    /\ cut' = IF Attended(d) THEN cut \cup {d} ELSE cut
    /\ UNCHANGED <<world, handled, memory, unread, run, turns, job, fate, losses, closings, bounds, faults>>

SweepArms ==
    /\ sweep.at = "arming"
    /\ \/ /\ job' = [job EXCEPT ![sweep.row] = IF @ \in {"running", "again"} THEN "again"
                                               ELSE "armed"]
          /\ UNCHANGED faults
       \/ UNCHANGED job /\ Fault
    /\ sweep' = [sweep EXCEPT !.at = "reporting"]
    /\ UNCHANGED <<world, data, run, turns, fate, lines, bounds>>

SweepReports ==
    /\ sweep.at = "reporting"
    /\ losses' = [losses EXCEPT ![sweep.row] = @ + 1]
    /\ sweep' = [sweep EXCEPT !.at = "idle"]
    /\ UNCHANGED <<world, data, run, turns, job, fate, closings, cut, bounds, faults>>

---------------------------------------------------------------------------
(* recoverStrandedDelivery, run by the DELIVERY_RECOVERY job.              *)

Replay(d) == <<d, "replay">>

\* A job that failed runs again, or has spent its attempts.
JobFails(d) == JobEnds(d, "armed") \/ JobEnds(d, "none")

Spent(d) == row[d].attempts >= MaxRecoveries

\* Another recovery of the conversation, or a turn in this process: later.
RecoveryStarts(d) ==
    /\ job[d] = "armed" /\ run[Replay(d)].at = "idle"
    /\ IF row[d].status # "DEAD" \/ Spent(d)
       THEN job' = [job EXCEPT ![d] = "none"] /\ UNCHANGED run
       ELSE /\ ~InFlight(Leader) /\ \A e \in Deliveries : run[Replay(e)].at = "idle"
            /\ job' = [job EXCEPT ![d] = "running"]
            /\ run' = [run EXCEPT ![Replay(d)] = [NoRun EXCEPT !.at = "reading"]]
    /\ UNCHANGED <<world, data, turns, sweep, fate, lines, bounds, faults>>

\* The row names no role, and the binding it would be read against is not
\* the responder's or is not the one it was received under.
RoleUnknown(d) ==
    /\ row[d].observed = "unsaid"
    /\ \/ d \in Observer
       \/ "responder" \notin binding.routes
       \/ row[d].generation # binding.generation

\* A newer message's own delivery answers this one with it.
Behind(d) == row[d].observed # "yes" /\ sent > MsgOf[d]

\* No persona carries the observer's bot any more.
Orphaned(d) == row[d].observed = "yes" /\ "persona" \notin binding.routes

\* Too old, or gone from Chatwoot, may be said of any row.
RecoveryReads(d) ==
    /\ run[Replay(d)].at = "reading"
    /\ \/ ~Behind(d) /\ ~RoleUnknown(d) /\ ~Orphaned(d) /\ Goes(Replay(d), "fencing") /\ UNCHANGED <<job, faults>>
       \/ Stops(Replay(d)) /\ JobEnds(d, "none") /\ UNCHANGED faults
       \/ Stops(Replay(d)) /\ JobFails(d) /\ Fault
    /\ UNCHANGED <<world, data, turns, sweep, fate, lines, bounds>>

\* A turn is running here, or holds the thread durably: deferred.
RecoveryFences(d) ==
    /\ run[Replay(d)].at = "fencing"
    /\ IF InFlight(Leader) \/ holds # {}
       THEN Stops(Replay(d)) /\ JobEnds(d, "armed")
       ELSE Goes(Replay(d), "resolving") /\ UNCHANGED job
    /\ UNCHANGED <<world, data, turns, sweep, fate, lines, bounds, faults>>

\* putRowBack writes only over the status the replay left.
PutBack(d, from) ==
    row' = [row EXCEPT ![d].status = IF @ = from THEN "DEAD" ELSE @]

RecoveryRestores(d) ==
    /\ run[Replay(d)].at = "restoring"
    /\ PutBack(d, "PROCESSING") /\ Stops(Replay(d)) /\ JobFails(d)
    /\ cut' = IF row[d].status = "PROCESSED" THEN cut \cup {d} ELSE cut
    /\ UNCHANGED <<world, handled, memory, unread, turns, sweep, fate, losses, closings, bounds, faults>>

\* The message is still owed: its turn threw or found no agent, or no route
\* looked at it.
Unsettled(a) == run[a].outcome \in {"threw", "unavailable", "off"}

RecoveryJudges(d) ==
    /\ run[Replay(d)].at = "judging"
    /\ IF Unsettled(Replay(d))
       THEN /\ PutBack(d, "PROCESSED") /\ UNCHANGED closings
            /\ IF run[Replay(d)].outcome = "unavailable" THEN JobEnds(d, "none") ELSE JobFails(d)
       ELSE /\ closings' = [closings EXCEPT ![d] = @ + 1] /\ UNCHANGED row
            /\ JobEnds(d, "none")
    /\ Stops(Replay(d))
    /\ UNCHANGED <<world, handled, memory, unread, turns, sweep, fate, losses, cut, bounds, faults>>

\* Three failed writes: the row stays where the replay left it.
PutBackFails(d) ==
    /\ \/ run[Replay(d)].at = "restoring"
       \/ run[Replay(d)].at = "judging" /\ Unsettled(Replay(d))
    /\ Fault /\ Stops(Replay(d)) /\ JobFails(d)
    /\ cut' = cut \cup {d}
    /\ UNCHANGED <<world, data, turns, sweep, fate, losses, closings, bounds>>

Recovers(d) ==
    \/ RecoveryStarts(d) \/ RecoveryReads(d) \/ RecoveryFences(d) \/ RecoveryRestores(d)
    \/ RecoveryJudges(d) \/ PutBackFails(d)

---------------------------------------------------------------------------
(* A process dies with everything it was running.  The holds of its turns  *)
(* stay until they expire; the scheduler runs the Leader's jobs again.     *)

Crash(p) ==
    /\ crashes < MaxCrashes /\ crashes' = crashes + 1
    /\ run' = [a \in Attempts |-> IF run[a].proc = p THEN NoRun ELSE run[a]]
    /\ cut' = cut \cup {d \in Deliveries : run[Replay(d)].proc = p
                                         /\ run[Replay(d)].at \in Attending}
    /\ IF p # Leader THEN UNCHANGED <<flush, jobs>>
       ELSE /\ flush' = [flush EXCEPT !.at = "idle", !.armed = @ \/ flush.at # "idle"]
            /\ sweep' = [sweep EXCEPT !.at = "idle"]
            /\ job' = [d \in Deliveries |-> IF job[d] = "none" THEN "none" ELSE "armed"]
    /\ UNCHANGED <<world, data, holds, fate, losses, closings, slow, faults>>

HoldExpires(h) ==
    /\ h \in holds
    /\ IF h = Burst THEN flush.at # "turning" ELSE run[h].at # "turning"
    /\ holds' = holds \ {h}
    /\ UNCHANGED <<world, data, run, flush, jobs, fate, lines, bounds, faults>>

Next ==
    \/ CustomerWrites \/ HumanTakes \/ \E r \in Bindings : BindingMoves(r)
    \/ \E d \in Deliveries :
         \/ Ages(d) \/ ReceiptFails(d) \/ SweepTakes(d) \/ Recovers(d)
         \/ \E k \in Kinds, p \in Procs : Receives(d, k, p)
    \/ \E a \in Attempts : Step(a)
    \/ FlushStarts \/ FlushEnds \/ FlushFails \/ FlushSettles \/ FlushCorrects
    \/ SweepArms \/ SweepReports
    \/ \E p \in Procs : Crash(p)
    \/ \E h \in Attempts \cup {Burst} : HoldExpires(h)

\* Processes run, the job lanes claim what is due, clocks advance.
Fairness ==
    /\ \A a \in Attempts : WF_vars(Step(a))
    /\ \A d \in Deliveries : WF_vars(Ages(d)) /\ SF_vars(SweepTakes(d)) /\ SF_vars(Recovers(d))
    /\ \A d \in Deliveries : WF_vars(\E k \in Kinds, p \in Procs : Receives(d, k, p))
    /\ WF_vars(FlushStarts) /\ WF_vars(FlushEnds) /\ WF_vars(FlushSettles) /\ WF_vars(FlushCorrects)
    /\ WF_vars(SweepArms) /\ WF_vars(SweepReports)
    /\ \A h \in Attempts \cup {Burst} : WF_vars(HoldExpires(h))

Spec == Init /\ [][Next]_vars
FairSpec == Spec /\ Fairness

---------------------------------------------------------------------------
Owed(m) == m > handled /\ (flush.armed \/ flush.at # "idle")

\* A row of the responder's that reads PROCESSED, with no attempt still on
\* it, tells the truth: the customer's message was answered, somebody decided
\* not to, the failure was announced, or the armed flush still reaches it.
\* An operator who unbinds the inbox or switches its agent off has decided:
\* what a turn or a flush then finds stays unanswered, above the mark.
NoQuietLoss ==
    \A d \in Responder :
      row[d].status = "PROCESSED" /\ ~Attended(d) => fate[MsgOf[d]] # {} \/ Owed(MsgOf[d])

\* An observer's row closes only when the message is in its memory, or when
\* the attempt at it found the observer off or no thread to keep it in:
\* neither the responder's turn nor its gate closes it.
ObserverRemembers ==
    \A d \in Deliveries :
      row[d].observed = "yes" /\ row[d].status = "PROCESSED" => MsgOf[d] \in memory \/ d \in unread

\* A loss that was reported has a closing line once its row has left DEAD,
\* with nothing running that would still write one: the exceptions the code
\* has are the rows in cut.
ReportsEnd ==
    \A d \in Deliveries :
      row[d].status = "PROCESSED" /\ losses[d] > 0 /\ ~Attended(d) /\ d \notin cut
        => closings[d] > 0

\* Nothing stays claimed: a row an attempt abandoned is settled or reported.
EveryRowEnds ==
    \A d \in Deliveries :
      row[d].status \in {"PENDING", "PROCESSING"} ~> row[d].status \in {"PROCESSED", "DEAD"}

=============================================================================
