------------------------------- MODULE FollowUp -------------------------------
(* The inactivity ladder of one conversation (src/src/modules/followups, the nudge *)
(* it runs in src/src/graph/nudge.ts, and the parts of webhook.ts that stop it): a *)
(* sweep arms step 1 for a silent customer, the job's own row then carries the *)
(* ladder from step to step, and /reset retires the row and wipes the          *)
(* conversation while a step may be in the middle of its model call.           *)
(*                                                                             *)
(* The sweep and the FOLLOWUP job share one scheduler lane, which runs the     *)
(* jobs of a batch side by side and claims the next batch when all have ended: *)
(* the sweep may look and arm at any point of a nudge, and a nudge is claimed  *)
(* only between two sweeps.                                                    *)
(* Who holds the conversation is whatever the live probe answers; delays,      *)
(* business hours and appointments are a free choice to put the step off.      *)
EXTENDS Naturals

CONSTANTS Steps,        \* how many steps the agent's ladder has
          RetryLimit,   \* NUDGE_RETRY_LIMIT
          MaxSaid,      \* bound: messages the customer writes
          MaxDeaths,    \* bound: handlers that throw or die half way
          MaxRetires    \* bound: /reset commands

ConstantsAssumption ==
    /\ Steps \in Nat \ {0} /\ RetryLimit \in Nat \ {0}
    /\ MaxSaid \in Nat /\ MaxDeaths \in Nat /\ MaxRetires \in Nat

VARIABLES conv,     \* the conversation: its watermarks, its labels, whether it is resolved
          said,     \* how many messages the customer has written
          cancels,  \* messages whose webhook has yet to cancel the pending follow-up
          job,      \* the FOLLOWUP row
          run,      \* the handler at work on it
          sweep,    \* "idle", or "found" between the sweep's query and its enqueue
          reset,    \* how far the last /reset is
          sends,    \* history: how many messages left, by ladder and step,
          spoken,   \* history: ... and what the step had read
          deaths,   \* handlers that died
          resets,   \* /reset commands given
          escaped   \* history: what the last /reset did not reach, see ClearedStaysClear

vars == <<conv, said, cancels, job, run, sweep, reset, sends, spoken, deaths, resets, escaped>>

Messages == 0..MaxSaid       \* an ordinal stands for an instant; 0 is a null column

Payload == [step : 1..Steps, retries : 0..RetryLimit]
Sendings == [ladder : Messages, step : 1..Steps, seen : Messages]
Outcomes == {"none", "done", "again"}
Pcs == {"idle", "claimed", "probing", "asking", "thinking", "answered", "sending", "acting",
        "queued", "merging", "setting", "closing", "stamping", "abandoning", "finishing"}

TypeOK ==
    /\ conv \in [inbound : Messages, stamp : Messages, labels : BOOLEAN, resolved : BOOLEAN,
                 ladder : Messages]
    /\ said \in Messages /\ cancels \in 0..MaxSaid
    /\ job \in [status : {"none", "pending", "claimed", "done"}, cancelled : BOOLEAN,
                step : 1..Steps, retries : 0..RetryLimit]
    /\ run \in [pc : Pcs, current : BOOLEAN, step : 1..Steps, retries : 0..RetryLimit, seen : Messages,
                noted : BOOLEAN, outcome : Outcomes, next : Payload]
    /\ sweep \in {"idle", "found"} /\ reset \in {"idle", "retired", "cleared", "done"}
    /\ sends \in [Messages \X (1..Steps) -> Nat] /\ spoken \subseteq Sendings
    /\ deaths \in 0..MaxDeaths /\ resets \in 0..MaxRetires /\ escaped \subseteq {"row", "labels"}

First == [step |-> 1, retries |-> 0]
Resting == [pc |-> "idle", current |-> TRUE, step |-> 1, retries |-> 0, seen |-> 0,
            noted |-> FALSE, outcome |-> "none", next |-> First]

Init ==
    /\ conv = [inbound |-> 0, stamp |-> 0, labels |-> FALSE, resolved |-> FALSE, ladder |-> 0]
    /\ said = 0 /\ cancels = 0
    /\ job = [status |-> "none", cancelled |-> FALSE, step |-> 1, retries |-> 0]
    /\ run = Resting
    /\ sweep = "idle" /\ reset = "idle"
    /\ sends = [s \in Messages \X (1..Steps) |-> 0] /\ spoken = {}
    /\ deaths = 0 /\ resets = 0 /\ escaped = {}

-------------------------------------------------------------------------------
\* The customer and the sweep.

\* isNewFollowUpEpisode: a customer message no follow-up has answered.
NewEpisode == conv.inbound > conv.stamp

\* The mirror takes a customer message; the rest of its webhook comes later.
Says ==
    /\ said < MaxSaid
    /\ said' = said + 1
    /\ conv' = [conv EXCEPT !.inbound = said + 1, !.resolved = FALSE]
    /\ cancels' = cancels + 1
    /\ UNCHANGED <<job, run, sweep, reset, sends, spoken, deaths, resets, escaped>>

\* The on-reply cancellation: a PENDING row only, and best effort.
CancelsPending ==
    /\ cancels > 0
    /\ cancels' = cancels - 1
    /\ \/ job' = [job EXCEPT !.status = IF @ = "pending" THEN "done" ELSE @]
       \/ UNCHANGED job
    /\ UNCHANGED <<conv, said, run, sweep, reset, sends, spoken, deaths, resets, escaped>>

\* The sweep's query finds the conversation silent and unanswered.
SweepFinds ==
    /\ sweep = "idle"
    /\ NewEpisode /\ ~conv.resolved
    /\ sweep' = "found"
    /\ UNCHANGED <<conv, said, cancels, job, run, reset, sends, spoken, deaths, resets, escaped>>

\* ... and enqueues step 1 over whatever the row holds: status and payload are
\* the new ones, the claim number stays what it was.
SweepEnqueues ==
    /\ sweep = "found"
    /\ sweep' = "idle"
    /\ job' = [job EXCEPT !.status = "pending", !.cancelled = FALSE, !.step = 1, !.retries = 0]
    /\ escaped' = IF reset = "retired" THEN escaped \cup {"row"} ELSE escaped
    /\ UNCHANGED <<conv, said, cancels, run, reset, sends, spoken, deaths, resets>>

-------------------------------------------------------------------------------
\* The handler, up to the model call.

\* isRetired: the claim number is no longer the one this run holds (current), or
\* the payload bears the cancellation. stillWanted asks it of the row at each of
\* the places below. It says no of a retired run, or under an agent that was
\* silenced meanwhile; a row it cannot read counts as wanted (jobRetired), so that
\* any answer but the strict one may be yes.
Retired == ~run.current \/ job.cancelled

Ends == run' = [run EXCEPT !.pc = "finishing", !.outcome = "done"]

GoesAgainAs(step, retries) ==
    run' = [run EXCEPT !.pc = "finishing", !.outcome = "again",
                       !.next = [step |-> step, retries |-> retries]]

\* nextNudgeRetry: one more try of the same step, or give the episode up.
Refused ==
    IF run.retries + 1 >= RetryLimit
    THEN run' = [run EXCEPT !.pc = "abandoning"]
    ELSE GoesAgainAs(run.step, run.retries + 1)

Elsewhere == <<said, cancels, sweep, reset, deaths, resets, escaped>>

\* The lane claims the row for the handler, in a batch that begins with no sweep at work.
Claims ==
    /\ run.pc = "idle" /\ sweep = "idle" /\ job.status = "pending"
    /\ job' = [job EXCEPT !.status = "claimed"]
    /\ run' = [Resting EXCEPT !.pc = "claimed", !.step = job.step, !.retries = job.retries]
    /\ UNCHANGED <<conv, sends, spoken, Elsewhere>>

\* The conversation is read once and every gate judges that reading. The first
\* step opens the ladder on the episode it saw; a later one wants no new episode.
\* A schedule that never opens abandons the episode; the appointment, the
\* cadence, the hours and a turn in flight put the same step off.
Reads ==
    /\ run.pc = "claimed"
    /\ LET due == IF run.step = 1 THEN NewEpisode ELSE ~NewEpisode
       IN  \/ ~due /\ Ends /\ UNCHANGED conv
           \/ Ends /\ UNCHANGED conv          \* the agent, the mode or the mirror says no
           \/ due /\ GoesAgainAs(run.step, run.retries) /\ UNCHANGED conv
           \/ due /\ run' = [run EXCEPT !.pc = "abandoning"] /\ UNCHANGED conv
           \/ /\ due
              /\ run' = [run EXCEPT !.pc = "probing", !.seen = conv.inbound]
              /\ conv' = [conv EXCEPT !.ladder = IF run.step = 1 THEN conv.inbound ELSE @]
    /\ UNCHANGED <<job, sends, spoken, Elsewhere>>

\* The live probe: not ours any more ends the episode, no answer is retried.
Probes ==
    /\ run.pc = "probing"
    /\ \/ Ends
       \/ Refused
       \/ ~conv.resolved /\ run' = [run EXCEPT !.pc = "asking"]
    /\ UNCHANGED <<conv, job, sends, spoken, Elsewhere>>

\* Before the model: a retired run stands down; a silenced agent, a spent ceiling
\* or a thread somebody else holds is retried. The last question, in the thread's
\* section, is the strict one (jobRetiredStrict): a row it cannot read is a throw.
Asks ==
    /\ run.pc = "asking"
    /\ \/ Retired /\ Ends
       \/ Refused
       \/ ~Retired /\ run' = [run EXCEPT !.pc = "thinking"]
    /\ UNCHANGED <<conv, job, sends, spoken, Elsewhere>>

Thinks ==
    /\ run.pc = "thinking"
    /\ run' = [run EXCEPT !.pc = "answered"]
    /\ UNCHANGED <<conv, job, sends, spoken, Elsewhere>>

-------------------------------------------------------------------------------
\* The handler, from the model's answer to the row.

\* The model has answered: wanted is asked, ownership is probed, wanted is asked
\* again. The probe itself is the gap between the two.
Rechecks ==
    /\ run.pc = "answered"
    /\ \/ Ends                                            \* retired, or a person has it
       \/ Refused                                         \* silenced, or the probe cannot read
       \/ ~conv.resolved /\ run' = [run EXCEPT !.pc = "sending"]
    /\ UNCHANGED <<conv, job, sends, spoken, Elsewhere>>

\* (For the mutant: what left is tried again, as if the answer had been an error.)
SentAgain == Refused

\* The message is out: the run goes on to the labels, and what it reports is not retried.
Sent == run' = [run EXCEPT !.pc = "acting"]

\* Asked once more after the moderation: the message leaves, or the agent stays
\* silent, or the service window is closed and a note is left instead.
Sends ==
    /\ run.pc = "sending"
    /\ \/ Retired /\ Ends /\ UNCHANGED <<sends, spoken>>
       \/ Refused /\ UNCHANGED <<sends, spoken>>
       \/ /\ Sent
          /\ sends' = [sends EXCEPT ![<<conv.ladder, run.step>>] = @ + 1]
          /\ spoken' = spoken \cup {[ladder |-> conv.ladder, step |-> run.step, seen |-> run.seen]}
       \/ run' = [run EXCEPT !.pc = "acting"] /\ UNCHANGED <<sends, spoken>>
       \/ run' = [run EXCEPT !.pc = "acting", !.noted = TRUE] /\ UNCHANGED <<sends, spoken>>
    /\ UNCHANGED <<conv, job, Elsewhere>>

\* applyPostActions asks before it touches anything, then waits for the
\* conversation's label queue.
Acts ==
    /\ run.pc = "acting"
    /\ \E pc \in {"stamping", "queued"} : run' = [run EXCEPT !.pc = pc]
    /\ UNCHANGED <<conv, job, sends, spoken, Elsewhere>>

\* Inside the queue the current labels are read ...
Fetches ==
    /\ run.pc = "queued"
    /\ run' = [run EXCEPT !.pc = "merging"]
    /\ UNCHANGED <<conv, job, sends, spoken, Elsewhere>>

\* (For the mutant: without the question after the read.)
MergesBlindly ==
    /\ run.pc = "merging"
    /\ run' = [run EXCEPT !.pc = "setting"]
    /\ UNCHANGED <<conv, job, sends, spoken, Elsewhere>>

\* ... wanted is asked about the time the read took ...
Merges ==
    /\ run.pc = "merging"
    /\ \/ /\ run' = [run EXCEPT !.pc = "stamping"]
          /\ UNCHANGED escaped
       \/ /\ run' = [run EXCEPT !.pc = "setting"]
          /\ escaped' = IF Retired THEN escaped \cup {"labels"} ELSE escaped
    /\ UNCHANGED <<conv, said, cancels, job, sweep, reset, sends, spoken, deaths, resets>>

\* ... and the merged set replaces them, which ends the queue's turn.
SetsLabels ==
    /\ run.pc = "setting"
    /\ run' = [run EXCEPT !.pc = "closing"]
    /\ conv' = [conv EXCEPT !.labels = TRUE]
    /\ UNCHANGED <<job, sends, spoken, Elsewhere>>

\* The queue is one process's: the labels of the leader's nudge wait for nobody else.
InLabelQueue == run.pc \in {"merging", "setting"}

\* The last step may resolve the conversation, an abandonment by the customer;
\* never after a note the window forced.
Closes ==
    /\ run.pc = "closing"
    /\ run' = [run EXCEPT !.pc = "stamping"]
    /\ \/ /\ run.step = Steps /\ ~run.noted
          /\ conv' = [conv EXCEPT !.resolved = TRUE]
       \/ UNCHANGED conv
    /\ UNCHANGED <<job, sends, spoken, Elsewhere>>

\* stampUnlessRetired: now(), in the statement that judges the retirement.
StampUnlessRetired ==
    conv' = IF Retired THEN conv ELSE [conv EXCEPT !.stamp = said]

\* The watermark, then the next step of the same row. A retirement, a note and
\* the last step end the ladder.
Stamps ==
    /\ run.pc = "stamping"
    /\ StampUnlessRetired
    /\ IF Retired \/ run.noted \/ run.step = Steps THEN Ends ELSE GoesAgainAs(run.step + 1, 0)
    /\ UNCHANGED <<job, sends, spoken, Elsewhere>>

\* The episode is given up with a watermark, so that the sweep leaves it alone.
Abandons ==
    /\ run.pc = "abandoning"
    /\ StampUnlessRetired
    /\ Ends
    /\ UNCHANGED <<job, sends, spoken, Elsewhere>>

\* The runner settles the row under its own claim, or not at all.
Finishes ==
    /\ run.pc = "finishing"
    /\ job' = IF ~run.current \/ job.status # "claimed" THEN job
              ELSE IF run.outcome = "done" THEN [job EXCEPT !.status = "done"]
              ELSE [job EXCEPT !.status = "pending", !.step = run.next.step,
                               !.retries = run.next.retries]
    /\ run' = Resting
    /\ UNCHANGED <<conv, sends, spoken, Elsewhere>>

\* The handler throws, or its process goes: the row stays claimed ...
Dies ==
    /\ deaths < MaxDeaths /\ run.pc # "idle"
    /\ deaths' = deaths + 1
    /\ run' = Resting
    /\ UNCHANGED <<conv, said, cancels, job, sweep, reset, sends, spoken, resets, escaped>>

\* ... until the failure's backoff or the reaper gives it back as it was.
Returns ==
    /\ run.pc = "idle" /\ job.status = "claimed"
    /\ job' = [job EXCEPT !.status = "pending"]
    /\ UNCHANGED <<conv, run, sends, spoken, Elsewhere>>

-------------------------------------------------------------------------------
\* The /reset command: the row first, the watermarks after, the labels last.

\* retireJobsByDedupeKeyOn: PENDING and CLAIMED, with the tombstone and a new number.
ResetRetires ==
    /\ reset \in {"idle", "done"} /\ resets < MaxRetires
    /\ reset' = "retired" /\ resets' = resets + 1
    /\ IF job.status \in {"pending", "claimed"}
       THEN /\ job' = [job EXCEPT !.status = "done", !.cancelled = TRUE]
            /\ run' = [run EXCEPT !.current = run.pc = "idle"]
            /\ escaped' = {}
       ELSE /\ UNCHANGED <<job, run>>
            /\ escaped' = IF run.pc # "idle" /\ ~Retired THEN {"row"} ELSE {}
    /\ UNCHANGED <<conv, said, cancels, sweep, sends, spoken, deaths>>

ResetClears ==
    /\ reset = "retired"
    /\ reset' = "cleared"
    /\ conv' = [conv EXCEPT !.inbound = 0, !.stamp = 0]
    /\ UNCHANGED <<said, cancels, job, run, sweep, sends, spoken, deaths, resets, escaped>>

\* The labels are peeled in the conversation's queue when the command runs in the
\* nudge's own process. On a web replica nothing holds the peel back, and a set the
\* nudge has already asked about lands after it.
ResetPeels ==
    /\ reset = "cleared"
    /\ reset' = "done"
    /\ conv' = [conv EXCEPT !.labels = FALSE]
    /\ \/ ~InLabelQueue /\ UNCHANGED escaped
       \/ escaped' = IF run.pc = "setting" THEN escaped \cup {"labels"} ELSE escaped
    /\ UNCHANGED <<said, cancels, job, run, sweep, sends, spoken, deaths, resets>>

-------------------------------------------------------------------------------
Works ==
    \/ Claims \/ Reads \/ Probes \/ Asks \/ Thinks \/ Rechecks \/ Sends
    \/ Acts \/ Fetches \/ Merges \/ SetsLabels \/ Closes
    \/ Stamps \/ Abandons \/ Finishes \/ Dies \/ Returns

Next ==
    \/ Says \/ CancelsPending \/ SweepFinds \/ SweepEnqueues
    \/ Works
    \/ ResetRetires \/ ResetClears \/ ResetPeels

Spec == Init /\ [][Next]_vars

-------------------------------------------------------------------------------
\* What a /reset wiped stays wiped until the customer writes again: no run it
\* caught in the middle of a model call brings back the watermark or the labels
\* of the episode that was erased, although the sweep may arm the row anew from a
\* list it read before. Excepted is what the command did not reach. "row": a run
\* the sweep arms between the retirement and the clearing is a new one, as
\* webhook.ts says, and one under a row the sweep made PENDING again and the
\* customer's reply then cancelled, DONE without a tombstone, is not retired.
\* "labels", which excuses the labels only: the nudge's last question could not
\* read the row, or was answered before a command on another process peeled.
ClearedStaysClear ==
    reset = "done" /\ conv.inbound = 0 /\ "row" \notin escaped
        => conv.stamp = 0 /\ (conv.labels => "labels" \in escaped)

\* One step of one episode is one message, however often the sweep, the retries
\* and the lane bring the row back, the sweep beside the nudge included; only a
\* handler that died after it, or a /reset that retired its row before the
\* watermark, may repeat it.
StepOnce ==
    \A l \in Messages, k \in 1..Steps : sends[<<l, k>>] <= 1 + deaths + resets

\* What nudge.ts says of the ladder: it only advances while the customer stays
\* silent, so a later step is about the very message the first one was about.
LadderMeansSilence ==
    \A s \in spoken : s.step > 1 => s.seen = s.ladder

===============================================================================
