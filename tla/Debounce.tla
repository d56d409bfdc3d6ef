------------------------------ MODULE Debounce ------------------------------
(***************************************************************************)
(* Who answers the messages of one conversation                            *)
(* (src/src/modules/debounce, conversations/reengage.ts and the post gate  *)
(* of src/src/graph/runtime.ts).                                           *)
(*                                                                         *)
(* Three kinds of run may post: the flush of the conversation's DEBOUNCE   *)
(* job, a direct turn (debounce off, or the arm failed) and an operator's  *)
(* re-engage click.  What keeps them apart: the flush hold and the count   *)
(* of running turns in each process, the re-fetch before a post, and two   *)
(* marks on the conversation row, lastHandledMessageId (nothing will       *)
(* answer this again) and lastRepliedMessageId (something committed to).   *)
(*                                                                         *)
(* Incoming messages are numbered in Chatwoot's order; the place of the    *)
(* newest outgoing one is the number of the message before it.  0 is an    *)
(* absent mark: every statement reads NULL as below the first message.     *)
(* The job's row is what Scheduler proves of it: a run writes its outcome  *)
(* only while the claim is still its own (row.held).  Time is not kept: a  *)
(* PENDING row may be claimed any time later, and MaxSlow bounds how often *)
(* something outlasts its deadline.                                        *)
(***************************************************************************)
EXTENDS Integers, Sequences, FiniteSets

CONSTANTS Procs, Leader,  \* the processes, and the one with the debounce worker
          Flush,          \* the flush of that worker's tick
          Clicks,         \* re-engage clicks
          MaxMsgs,
          Ordered,        \* each message is delivered before the next one is
          MaxAttempts, MaxArmFails, MaxFaults, MaxSlow, MaxSwitches

Msgs == 1..MaxMsgs
Runs == {Flush} \cup Clicks \cup Msgs  \* a direct turn is named by its message

ASSUME ConstantsAssumption ==
    /\ MaxMsgs \in Nat /\ MaxAttempts \in Nat \ {0}
    /\ MaxArmFails \in Nat /\ MaxFaults \in Nat /\ MaxSlow \in Nat /\ MaxSwitches \in Nat
    /\ Leader \in Procs
    /\ Flush \notin Clicks \cup Msgs /\ Clicks \cap Msgs = {}
    /\ Ordered \in BOOLEAN

VARIABLES sent,      \* incoming messages Chatwoot has
          lastOut,   \* the newest outgoing one comes after this incoming one
          owner,     \* who has the conversation
          delivery,  \* the webhook of each message
          stranded,  \* messages whose delivery died: the sweep's
          row,       \* the conversation's DEBOUNCE job
          handled, replied,
          lapsed,    \* ghost: up to where bursts ended unanswered and unmarked
          run,
          answers,   \* ghost: the replies posted, in order
          armFails, faults, slow, switches

chatwoot == <<sent, lastOut, owner>>
intake   == <<delivery, stranded>>
marks    == <<handled, replied, lapsed>>
bounds   == <<armFails, faults, slow, switches>>
vars     == <<chatwoot, intake, marks, bounds, row, run, answers>>

Larger(a, b) == IF a >= b THEN a ELSE b

FlushPcs == {"reading", "dropping", "checking", "settling"}
ClickPcs == {"asking", "entering"}
TurnPcs  == {"fetching", "selecting", "thinking", "gating", "claiming", "sending", "marking"}

Pcs      == {"idle", "done"} \cup FlushPcs \cup ClickPcs \cup TurnPcs

RunType == [pc : Pcs, proc : Procs,
            armed : 0..MaxMsgs, mark : 0..MaxMsgs, out : 0..MaxMsgs,
            above : 0..MaxMsgs, target : 0..MaxMsgs, outcome : {"done", "fail", "later"}]
RowType == [status : {"ABSENT", "PENDING", "CLAIMED", "DONE", "DEAD"}, held : BOOLEAN,
            attempts : 0..MaxAttempts, last : 0..MaxMsgs]
AnswerType == [above : 0..MaxMsgs, target : 0..MaxMsgs]

TypeOK ==
    /\ sent \in 0..MaxMsgs /\ lastOut \in 0..sent
    /\ owner \in {"bot", "human"}
    /\ delivery \in [Msgs -> {"absent", "coming", "passed", "skipping", "done"}]
    /\ stranded \subseteq Msgs
    /\ row \in RowType
    /\ handled \in 0..MaxMsgs /\ replied \in 0..MaxMsgs /\ lapsed \in 0..MaxMsgs
    /\ run \in [Runs -> RunType]
    /\ answers \in Seq(AnswerType)
    /\ armFails \in 0..MaxArmFails /\ faults \in 0..MaxFaults
    /\ slow \in 0..MaxSlow /\ switches \in 0..MaxSwitches

NoRun == [pc |-> "idle", proc |-> Leader, armed |-> 0, mark |-> 0, out |-> 0,
          above |-> 0, target |-> 0, outcome |-> "done"]

Init ==
    /\ sent = 0 /\ lastOut = 0 /\ owner = "bot"
    /\ delivery = [m \in Msgs |-> "absent"] /\ stranded = {}
    /\ row = [status |-> "ABSENT", held |-> FALSE, attempts |-> 0, last |-> 0]
    /\ handled = 0 /\ replied = 0 /\ lapsed = 0
    /\ run = [r \in Runs |-> NoRun]
    /\ answers = <<>>
    /\ armFails = 0 /\ faults = 0 /\ slow = 0 /\ switches = 0

\* Where a run goes when it leaves the turn: the flush settles its job.
Ended(r, outcome) ==
    IF r = Flush THEN [NoRun EXCEPT !.pc = "settling", !.outcome = outcome]
    ELSE [NoRun EXCEPT !.pc = "done"]
Leaves(r, outcome) == run' = [run EXCEPT ![r] = Ended(r, outcome)]
Goes(r, pc) == run' = [run EXCEPT ![r].pc = pc]

Fault == faults < MaxFaults /\ faults' = faults + 1
Slow  == slow < MaxSlow /\ slow' = slow + 1
\* What people do: take a conversation or give it back, unbind an agent or switch it off
\* (one change for each run that finds it so), and /reset.
Changes == switches < MaxSwitches /\ switches' = switches + 1

---------------------------------------------------------------------------
(* Chatwoot: the customer writes, a human takes the conversation, answers  *)
(* in it and gives it back.                                                *)

CustomerWrites ==
    /\ sent < MaxMsgs
    /\ sent' = sent + 1
    /\ delivery' = [delivery EXCEPT ![sent + 1] = "coming"]
    /\ UNCHANGED <<lastOut, owner, stranded, marks, bounds, row, run, answers>>

OwnerChanges ==
    /\ Changes
    /\ owner' = IF owner = "bot" THEN "human" ELSE "bot"
    /\ UNCHANGED <<sent, lastOut, intake, marks, armFails, faults, slow, row, run, answers>>

HumanAnswers ==
    /\ owner = "human" /\ lastOut < sent
    /\ lastOut' = sent
    /\ UNCHANGED <<sent, owner, intake, marks, bounds, row, run, answers>>

---------------------------------------------------------------------------
(* The delivery of a message: the gate, then the arm, a direct turn, or    *)
(* the mark that says it was skipped on purpose.                           *)

DeliveryGates(m) ==
    /\ delivery[m] = "coming"
    /\ Ordered => \A n \in 1..(m - 1) : delivery[n] = "done"
    /\ delivery' = [delivery EXCEPT ![m] = IF owner = "bot" THEN "passed" ELSE "skipping"]
    /\ UNCHANGED <<chatwoot, stranded, marks, bounds, row, run, answers>>

DeliverySkips(m) ==
    /\ delivery[m] = "skipping"
    /\ delivery' = [delivery EXCEPT ![m] = "done"]
    /\ handled' = Larger(handled, m)
    /\ UNCHANGED <<chatwoot, stranded, replied, lapsed, bounds, row, run, answers>>

\* A PENDING row is the burst this message joins; any other is a new burst, with a
\* fresh budget and a high-water mark that starts over.
ArmedFor(m) ==
    [status |-> "PENDING", held |-> FALSE,
     attempts |-> IF row.status = "PENDING" THEN row.attempts ELSE 0,
     last |-> IF row.status = "PENDING" THEN Larger(row.last, m) ELSE m]

DeliveryArms(m) ==
    /\ delivery[m] = "passed"
    /\ delivery' = [delivery EXCEPT ![m] = "done"]
    /\ row' = ArmedFor(m)
    /\ UNCHANGED <<chatwoot, stranded, marks, bounds, run, answers>>

\* Debounce is off for the inbox, or the arm threw: the delivery runs the turn itself.
TurnsDirect(m, p) ==
    /\ delivery[m] = "passed"
    /\ armFails < MaxArmFails /\ armFails' = armFails + 1
    /\ delivery' = [delivery EXCEPT ![m] = "done"]
    /\ run' = [run EXCEPT ![m] = [NoRun EXCEPT !.pc = "thinking", !.proc = p,
                                               !.above = m - 1, !.target = m]]
    /\ UNCHANGED <<chatwoot, stranded, marks, faults, slow, switches, row, answers>>

DeliveryDies(m) ==
    /\ Fault
    /\ delivery[m] \in {"coming", "passed", "skipping"}
    /\ delivery' = [delivery EXCEPT ![m] = "done"]
    /\ stranded' = stranded \cup {m}
    /\ UNCHANGED <<chatwoot, marks, armFails, slow, switches, row, run, answers>>

---------------------------------------------------------------------------
(* The flush, up to its turn.                                              *)

FlushClaims ==
    /\ row.status = "PENDING" /\ run[Flush].pc = "idle"
    /\ row' = [row EXCEPT !.status = "CLAIMED", !.held = TRUE]
    /\ run' = [run EXCEPT ![Flush] = [NoRun EXCEPT !.pc = "reading", !.armed = row.last]]
    /\ UNCHANGED <<chatwoot, intake, marks, bounds, answers>>

\* The gate and the watermark in one read; then the ceiling and the authorization,
\* which may refuse the burst, and ask for the owner again.
FlushReads ==
    /\ run[Flush].pc = "reading"
    /\ \E next \in IF owner = "bot" THEN {"checking", "dropping"} ELSE {"dropping"} :
          run' = [run EXCEPT ![Flush].pc = next, ![Flush].mark = handled]
    /\ UNCHANGED <<chatwoot, intake, marks, bounds, row, answers>>

\* The inbox has lost its agent, or the agent is off: the job is done, and the burst stays
\* unmarked for a flush that finds one.  The gate is asked first.
FlushFindsNobody ==
    /\ run[Flush].pc = "reading" /\ owner = "bot"
    /\ Changes
    /\ lapsed' = Larger(lapsed, run[Flush].armed)
    /\ Leaves(Flush, "done")
    /\ UNCHANGED <<chatwoot, intake, handled, replied, armFails, faults, slow, row, answers>>

\* A burst consumed without a turn: handled, off the payload's own last id.
FlushDrops ==
    /\ run[Flush].pc = "dropping"
    /\ handled' = Larger(handled, run[Flush].armed)
    /\ Leaves(Flush, "done")
    /\ UNCHANGED <<chatwoot, intake, replied, lapsed, bounds, row, answers>>

InFlight(r) == run[r].pc \in {"thinking", "gating", "claiming", "sending"}
\* A flush and a click hold the thread around their turn as well, for one another only.
HoldsFlush(r) == r \notin Msgs /\ run[r].pc \in TurnPcs
BusyIn(p) == \E r \in Runs : run[r].proc = p /\ (InFlight(r) \/ HoldsFlush(r))

FlushEnters ==
    /\ run[Flush].pc = "checking"
    /\ ~BusyIn(Leader)
    /\ Goes(Flush, "fetching")
    /\ UNCHANGED <<chatwoot, intake, marks, bounds, row, answers>>

FlushDefers ==
    /\ run[Flush].pc = "checking"
    /\ BusyIn(Leader)
    /\ Leaves(Flush, "later")
    /\ UNCHANGED <<chatwoot, intake, marks, bounds, row, answers>>

\* Past the deferral ceiling it runs anyway.
FlushOverrides ==
    /\ run[Flush].pc = "checking"
    /\ BusyIn(Leader) /\ Slow
    /\ Goes(Flush, "fetching")
    /\ UNCHANGED <<chatwoot, intake, marks, armFails, faults, switches, row, answers>>

---------------------------------------------------------------------------
(* The click, up to its turn: the durable claim of any process, then the   *)
(* registries of its own.                                                  *)

ClickStarts(c, p) ==
    /\ run[c].pc = "idle" /\ owner = "bot"
    /\ run' = [run EXCEPT ![c] = [NoRun EXCEPT !.pc = "asking", !.proc = p, !.mark = handled]]
    /\ UNCHANGED <<chatwoot, intake, marks, bounds, row, answers>>

\* Nothing to answer, over the ceiling, not authorized, no longer ours, or busy.
ClickRefused(c) ==
    /\ run[c].pc \in ClickPcs
    /\ Leaves(c, "done")
    /\ UNCHANGED <<chatwoot, intake, marks, bounds, row, answers>>

ClickAsks(c) ==
    /\ run[c].pc = "asking"
    /\ \A r \in Runs : ~InFlight(r)
    /\ Goes(c, "entering")
    /\ UNCHANGED <<chatwoot, intake, marks, bounds, row, answers>>

ClickEnters(c) ==
    /\ run[c].pc = "entering"
    /\ ~BusyIn(run[c].proc)
    /\ Goes(c, "fetching")
    /\ UNCHANGED <<chatwoot, intake, marks, bounds, row, answers>>

---------------------------------------------------------------------------
(* The turn all three share.                                               *)

Fetches(r) ==
    /\ run[r].pc = "fetching"
    /\ run' = [run EXCEPT ![r].pc = "selecting", ![r].target = sent, ![r].out = lastOut]
    /\ UNCHANGED <<chatwoot, intake, marks, bounds, row, answers>>

\* What the burst starts after: the marks as they stand now for a flush, the last reply
\* of the fetched page for a click.
FloorByWatermark(r) == IF r = Flush THEN Larger(run[r].mark, handled) ELSE run[r].out
Floor(r) == IF r = Flush THEN Larger(run[r].mark, Larger(handled, replied)) ELSE run[r].out

Selects(r) ==
    /\ run[r].pc = "selecting"
    /\ IF Floor(r) < run[r].target
       THEN run' = [run EXCEPT ![r].pc = "thinking", ![r].above = Floor(r), ![r].out = 0]
       ELSE Leaves(r, "done")
    /\ UNCHANGED <<chatwoot, intake, marks, bounds, row, answers>>

\* The model answers, and the owner is asked again.
Thinks(r) ==
    /\ run[r].pc = "thinking"
    /\ Goes(r, IF owner = "bot" THEN "gating" ELSE "marking")
    /\ UNCHANGED <<chatwoot, intake, marks, bounds, row, answers>>

\* The re-fetch: a newer message supersedes the reply.
Gates(r) ==
    /\ run[r].pc = "gating"
    /\ IF sent > run[r].target THEN Leaves(r, "done") ELSE Goes(r, "claiming")
    /\ UNCHANGED <<chatwoot, intake, marks, bounds, row, answers>>

\* A re-fetch that fails supersedes nothing.
GateFails(r) ==
    /\ run[r].pc = "gating"
    /\ Fault
    /\ Goes(r, "claiming")
    /\ UNCHANGED <<chatwoot, intake, marks, armFails, slow, switches, row, answers>>

\* How far the handled mark may stand for the claim to be taken.
Ceiling(r) == IF r \in Clicks THEN run[r].mark ELSE run[r].target - 1

ClaimsByWatermark(r) ==
    /\ run[r].pc = "claiming"
    /\ IF handled <= Ceiling(r)
       THEN replied' = run[r].target /\ Goes(r, "sending")
       ELSE Leaves(r, "done") /\ UNCHANGED replied
    /\ UNCHANGED <<chatwoot, intake, handled, lapsed, bounds, row, answers>>

Claims(r) ==
    /\ run[r].pc = "claiming"
    /\ IF replied < run[r].target /\ handled <= Ceiling(r)
       THEN replied' = run[r].target /\ Goes(r, "sending")
       ELSE Leaves(r, "done") /\ UNCHANGED replied
    /\ UNCHANGED <<chatwoot, intake, handled, lapsed, bounds, row, answers>>

Posts(r) ==
    /\ run[r].pc = "sending"
    /\ answers' = Append(answers, [above |-> run[r].above, target |-> run[r].target])
    /\ lastOut' = sent
    /\ Goes(r, "marking")
    /\ UNCHANGED <<sent, owner, intake, marks, bounds, row>>

\* Out of the turn in every way but superseded: the burst is consumed.
Marks(r) ==
    /\ run[r].pc = "marking"
    /\ handled' = Larger(handled, run[r].target)
    /\ Leaves(r, "done")
    /\ UNCHANGED <<chatwoot, intake, replied, lapsed, bounds, row, answers>>

\* The agent is switched off or unbound under the turn, or /reset withdrew what it answers:
\* it stands down at the next thing it would write, unmarked.  The claim, if it was taken,
\* stays taken.  A click answers for no message.
CalledOff(r) ==
    /\ InFlight(r)
    /\ IF r = Flush /\ row.status = "DONE" THEN UNCHANGED switches ELSE Changes
    /\ lapsed' = IF r \in Clicks THEN lapsed ELSE Larger(lapsed, run[r].target)
    /\ Leaves(r, "done")
    /\ UNCHANGED <<chatwoot, intake, handled, replied, armFails, faults, slow, row, answers>>

\* A fetch, the model, a send or a write throws: the flush fails its job, a direct turn
\* leaves its delivery in error (and only logs a mark it could not write, which is left
\* out), a click reports it.
Throws(r) ==
    /\ run[r].pc \in {"reading", "fetching", "thinking", "sending"}
                      \cup IF r \in Msgs THEN {} ELSE {"marking"}
    /\ Fault
    /\ Leaves(r, "fail")
    /\ stranded' = stranded \cup ({r} \cap Msgs)
    /\ UNCHANGED <<chatwoot, delivery, marks, armFails, slow, switches, row, answers>>

---------------------------------------------------------------------------
(* The job's row: the outcome of a run, the reaper, a process that dies.   *)

Failed ==
    [row EXCEPT !.status = IF row.attempts + 1 >= MaxAttempts THEN "DEAD" ELSE "PENDING",
                !.attempts = @ + 1, !.held = FALSE]

OutcomeDropsDeferred(outcome) ==
    CASE outcome = "done"  -> [row EXCEPT !.status = "DONE", !.held = FALSE]
      [] outcome = "later" -> [row EXCEPT !.status = "DONE", !.held = FALSE]
      [] outcome = "fail"  -> Failed
Outcome(outcome) ==
    CASE outcome = "done"  -> [row EXCEPT !.status = "DONE", !.held = FALSE]
      [] outcome = "later" -> [row EXCEPT !.status = "PENDING", !.attempts = 0, !.held = FALSE]
      [] outcome = "fail"  -> Failed

FlushSettlesUnfenced ==
    /\ run[Flush].pc = "settling"
    /\ row' = Outcome(run[Flush].outcome)
    /\ run' = [run EXCEPT ![Flush] = NoRun]
    /\ UNCHANGED <<chatwoot, intake, marks, bounds, answers>>

FlushSettles ==
    /\ run[Flush].pc = "settling"
    /\ row' = IF row.held THEN Outcome(run[Flush].outcome) ELSE row
    /\ run' = [run EXCEPT ![Flush] = NoRun]
    /\ UNCHANGED <<chatwoot, intake, marks, bounds, answers>>

\* A claim whose run is gone, or has taken longer than the reaper waits.
Reaps ==
    /\ row.status = "CLAIMED"
    /\ IF row.held THEN Slow ELSE UNCHANGED slow
    /\ row' = Failed
    /\ UNCHANGED <<chatwoot, intake, marks, armFails, faults, switches, run, answers>>

\* /reset retires the job; a flush in its turn finds out there (CalledOff).
Resets ==
    /\ row.status \in {"PENDING", "CLAIMED"}
    /\ Changes
    /\ row' = [row EXCEPT !.status = "DONE", !.held = FALSE]
    /\ lapsed' = Larger(lapsed, row.last)
    /\ UNCHANGED <<chatwoot, intake, handled, replied, armFails, faults, slow, run, answers>>

Crashes(p) ==
    LET dying == {r \in Runs : run[r].proc = p /\ run[r].pc \notin {"idle", "done"}} IN
    /\ dying # {} /\ Fault
    /\ run' = [r \in Runs |-> IF r \notin dying THEN run[r]
                              ELSE [NoRun EXCEPT !.pc = IF r = Flush THEN "idle" ELSE "done"]]
    /\ row' = [row EXCEPT !.held = @ /\ Flush \notin dying]
    /\ stranded' = stranded \cup (dying \cap Msgs)
    /\ UNCHANGED <<chatwoot, delivery, marks, armFails, slow, switches, answers>>

---------------------------------------------------------------------------
FlushSteps == FlushClaims \/ FlushReads \/ FlushFindsNobody \/ FlushDrops \/ FlushEnters
              \/ FlushDefers \/ FlushOverrides \/ FlushSettles
DeliverySteps(m) == DeliveryGates(m) \/ DeliverySkips(m) \/ DeliveryArms(m) \/ DeliveryDies(m)
ClickSteps(c) == ClickRefused(c) \/ ClickAsks(c) \/ ClickEnters(c)
TurnSteps(r) == Fetches(r) \/ Selects(r) \/ Thinks(r) \/ Gates(r) \/ Claims(r) \/ Posts(r)
                \/ Marks(r)

Next ==
    \/ CustomerWrites \/ OwnerChanges \/ HumanAnswers
    \/ \E m \in Msgs : DeliverySteps(m) \/ \E p \in Procs : TurnsDirect(m, p)
    \/ FlushSteps
    \/ \E c \in Clicks : ClickSteps(c) \/ \E p \in Procs : ClickStarts(c, p)
    \/ \E r \in Runs : TurnSteps(r) \/ GateFails(r) \/ CalledOff(r) \/ Throws(r)
    \/ Reaps \/ Resets
    \/ \E p \in Procs : Crashes(p)

Spec == Init /\ [][Next]_vars

\* The worker ticks, a claim nobody holds is reaped, a delivery and a run go on while
\* their process lives; nobody has to write, click, /reset, take the conversation, switch
\* the agent off or fail.
Fairness ==
    /\ WF_vars(FlushSteps) /\ WF_vars(Reaps /\ ~row.held)
    /\ \A m \in Msgs : WF_vars(DeliverySteps(m))
    /\ \A c \in Clicks : WF_vars(ClickSteps(c))
    /\ \A r \in Runs : WF_vars(TurnSteps(r))
FairSpec == Spec /\ Fairness

---------------------------------------------------------------------------
(* Properties.                                                             *)

Covers(a) == (a.above + 1)..a.target

\* No message is part of two replies: with one process and every message debounced, the
\* hold, the floor a burst is selected above and the claim keep a flush, its retry after a
\* crash or a lost send, and a click from each answering it.
AnsweredOnce ==
    \A i, j \in DOMAIN answers : i # j => Covers(answers[i]) \cap Covers(answers[j]) = {}

\* One column, one winner: whatever processes, late deliveries and failures do, two replies
\* never answer bursts that end at the same message.
TargetsOnce ==
    \A i, j \in DOMAIN answers : answers[i].target = answers[j].target => i = j

\* A mark stands at the message or past it: a run handled it, or committed to answering it.
\* It says no more than that.  A claim is never given back (runtime.ts:562-577), so a reply
\* whose send fails, or that is called off after the claim, leaves its burst marked and
\* unanswered, for the error badge and the re-engage button: where handler.ts:422-424,
\* watermark.ts:73 and schema.prisma:826 have it given back, they describe a release the
\* code does not make.
Marked(m) == m <= Larger(handled, replied)
\* A run ended with nothing said and no mark, because nobody was there to answer or a /reset
\* had withdrawn the burst.  The message waits for the next flush, and no job is owed for it.
Lapsed(m) == m <= lapsed
\* The delivery of m, or of a newer message that superseded it, is the sweep's.
LeftToSweep(m) == \E n \in stranded : n >= m

\* A message whose delivery is over is never quietly dropped by what the program does on its
\* own: while nobody was missing to answer it and no /reset withdrew it, it stands below a
\* mark, its job is queued, running or reported dead, a newer message has yet to be processed,
\* or the delivery ledger has it.
AccountedFor ==
    \A m \in 1..sent :
        delivery[m] = "done" =>
            \/ Marked(m) \/ Lapsed(m) \/ LeftToSweep(m)
            \/ row.status \in {"PENDING", "CLAIMED", "DEAD"}
            \/ \E n \in m..sent : delivery[n] # "done" \/ run[n].pc \in TurnPcs

\* Every message the customer writes is in the end handled or committed to by a reply, or its
\* flush is dead-lettered, its delivery is left to the sweep, or somebody took the agent away
\* or reset the conversation: no deferral, supersede, crash or change of owner leaves it
\* above both marks for good.
EverySettles ==
    \A m \in Msgs :
        (m <= sent) ~> (Marked(m) \/ Lapsed(m) \/ LeftToSweep(m) \/ row.status = "DEAD")
=============================================================================
