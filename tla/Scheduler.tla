------------------------------ MODULE Scheduler ------------------------------
(***************************************************************************)
(* The durable job queue (src/src/modules/scheduler): the scheduler_jobs   *)
(* table with its claim token, the ticks of the three lanes and the turn   *)
(* barrier that drain it, the reaper, and the commands that arm, cancel,   *)
(* retire and revoke rows while runs are in flight.                        *)
(*                                                                         *)
(* Every action is one SQL statement (they commit on their own) together   *)
(* with the in-memory step around it.  Time is abstracted to two facts     *)
(* about a row: its run_at has come (due) and its claim is older than      *)
(* staleMs (stale).  A unit of work is the number of the arming that asked *)
(* for it; the payload itself is not modelled, only its cancelledAt mark.  *)
(***************************************************************************)
EXTENDS Naturals, FiniteSets, FiniteSetsExt

CONSTANTS
    Keys,          \* dedupe keys; one row may live under each
    Lane,          \* [Keys -> {"shared", "debounce", "compaction"}], JOB_LANE
    DeleteKeys,    \* JOB_DELETE_ON_DONE
    TrafficKeys,   \* JOB_TRAFFIC_PROPORTIONAL
    IngestKeys,    \* kind INGEST_MESSAGE
    ReminderKeys,  \* kind APPOINTMENT_REMINDER
    SameWorkKeys,  \* kinds whose callers re-arm with rearm = "same-work"
    Enabled,       \* workers switched on: the lanes' flags are independent of one another
    MaxAttempts,   \* MAX_ATTEMPTS, 5 in the code
    BatchSize,     \* rows a tick claims
    MaxArms,       \* bound: armings in a behaviour
    MaxPasses,     \* bound: reschedules in a behaviour
    MaxCalls,      \* bound: booking and /reset calls that move a claim token
    MaxFaults      \* bound: crashes and writes that never reach the database

Lanes   == {"shared", "debounce", "compaction"}
Workers == Lanes \cup {"barrier"}

ASSUME LaneAssumption ==
    /\ Lane \in [Keys -> Lanes]
    /\ DeleteKeys \subseteq Keys /\ TrafficKeys \subseteq Keys
    /\ IngestKeys \subseteq DeleteKeys \cap TrafficKeys
    /\ ReminderKeys \subseteq Keys \ DeleteKeys
    /\ SameWorkKeys \subseteq Keys
    /\ \A k \in DeleteKeys \cup TrafficKeys \cup ReminderKeys : Lane[k] = "shared"

ASSUME BoundAssumption ==
    /\ Enabled \subseteq Workers
    /\ MaxAttempts \in Nat \ {0} /\ BatchSize \in Nat \ {0}
    /\ MaxArms \in Nat /\ MaxPasses \in Nat /\ MaxCalls \in Nat /\ MaxFaults \in Nat

VARIABLES
    rows,        \* scheduler_jobs, by dedupe key
    runs,        \* ClaimedJob snapshots some handler of this process is running
    tick,        \* where each worker's tick stands
    dying,       \* reaped DEAD jobs a worker still has to announce
    booking,     \* appointmentBooked / cancelAppointment, between their statements
    arms, passes, calls, faults,      \* counters behind the bounds
    served,      \* history: work some handler ran to success
    withdrawn,   \* history: work a cancel, a retirement, a revocation or a tombstone called off
    reported,    \* history: the death the last dead-letter line was about
    owedNotice   \* history: deaths that still stand and are not reported yet

queueVars   == <<rows, runs, tick, dying, booking>>
boundVars   == <<arms, passes, calls, faults>>
historyVars == <<served, withdrawn, reported, owedNotice>>
vars        == <<queueVars, boundVars, historyVars>>

----------------------------------------------------------------------------
(* Types *)

Statuses == {"ABSENT", "PENDING", "CLAIMED", "DONE", "DEAD"}

\* id counts the rows created under the key: a deleted row's successor is another row.
Row == [id : Nat, status : Statuses, attempts : Nat, seq : Nat, work : Nat,
        due : BOOLEAN, erred : BOOLEAN, cancelled : BOOLEAN, stale : BOOLEAN]

Run == [key : Keys, id : Nat, seq : Nat, attempts : Nat, work : Nat,
        cancelled : BOOLEAN, worker : Workers, stage : {"handler", "notice"},
        calledOff : BOOLEAN]

Death == [key : Keys, id : Nat, seq : Nat]

NoRow(id) == [id |-> id, status |-> "ABSENT", attempts |-> 0, seq |-> 0, work |-> 0,
              due |-> FALSE, erred |-> FALSE, cancelled |-> FALSE, stale |-> FALSE]

TypeOK ==
    /\ rows \in [Keys -> Row]
    /\ runs \subseteq Run
    /\ tick \in [Workers -> {"idle", "announce", "claim", "traffic", "drain"}]
    /\ dying \in [Workers -> SUBSET Death]
    /\ booking \in [Keys -> {"idle", "tombstone", "tombstoneAndMove", "rearm"}]
    /\ arms \in Nat /\ passes \in Nat /\ calls \in Nat /\ faults \in Nat
    /\ served \subseteq Nat /\ withdrawn \subseteq Nat
    /\ reported \subseteq Death
    /\ owedNotice \subseteq Death

----------------------------------------------------------------------------
(* State formulae *)

Owed(k)    == rows[k].status \in {"PENDING", "CLAIMED"}
\* The row is still there; an id is never used again.
SameRow(r) == rows[r.key].status # "ABSENT" /\ rows[r.key].id = r.id

\* The compare-and-set of completeJob, rescheduleJob and failJob.
HoldsByStatus(r) == SameRow(r) /\ rows[r.key].status = "CLAIMED"
Holds(r) ==
    SameRow(r) /\ rows[r.key].status = "CLAIMED" /\ rows[r.key].seq = r.seq

\* isRetired: what a handler learns when it re-reads its row.
IsRetired(r) ==
    SameRow(r) /\ (rows[r.key].cancelled \/ rows[r.key].seq # r.seq)

DeathOf(k, row) == [key |-> k, id |-> row.id, seq |-> row.seq]
RunDeath(r)     == [key |-> r.key, id |-> r.id, seq |-> r.seq]
HookKeys == {k \in Keys : Lane[k] # "shared"}

\* What dispatchDeadLetter re-reads before it writes the line; the two registered hooks ask for
\* the status alone.
StillDeadByStatus(d) == SameRow(d) /\ rows[d.key].status = "DEAD"
StillDead(d) ==
    /\ SameRow(d)
    /\ rows[d.key].status = "DEAD"
    /\ d.key \in HookKeys \/ rows[d.key].seq = d.seq

\* The work the key still promises to do.
Live(k) == Owed(k) /\ ~rows[k].cancelled
CalledOffWork(k) == withdrawn \cup (IF Live(k) THEN {rows[k].work} ELSE {})

WithoutKey(deaths, k) == {d \in deaths : d.key # k}

----------------------------------------------------------------------------
(* The statements, as functions from a row to the row they leave *)

NextSeqKept(row) == row.seq
NextSeq(row)     == row.seq + 1

Claimed(row) == [row EXCEPT !.status = "CLAIMED", !.seq = NextSeq(row), !.stale = FALSE]

\* rearm = "same-work" keeps the failure budget.  armDebounce joins a burst only while it is
\* still queued.
KeepsBudget(k, row) ==
    IF Lane[k] = "debounce" THEN row.status = "PENDING" ELSE k \in SameWorkKeys

ArmedUnderClaim(k, row, work, due) ==
    IF row.status = "ABSENT"
    THEN [NoRow(row.id + 1) EXCEPT !.status = "PENDING", !.due = due, !.work = work]
    ELSE [row EXCEPT !.status = IF @ = "CLAIMED" THEN @ ELSE "PENDING", !.due = due,
                     !.erred = FALSE, !.cancelled = FALSE, !.work = work,
                     !.attempts = IF KeepsBudget(k, row) THEN @ ELSE 0]
Armed(k, row, work, due) ==
    IF row.status = "ABSENT"
    THEN [NoRow(row.id + 1) EXCEPT !.status = "PENDING", !.due = due, !.work = work]
    ELSE [row EXCEPT !.status = "PENDING", !.due = due, !.erred = FALSE,
                     !.cancelled = FALSE, !.work = work,
                     !.attempts = IF KeepsBudget(k, row) THEN @ ELSE 0]

Completed(k, row) ==
    IF k \in DeleteKeys THEN NoRow(row.id)
    ELSE [row EXCEPT !.status = "DONE", !.attempts = 0]

\* Only the reminder handler carries its counter forward as a patch; the others replace the payload
\* from the snapshot they were claimed with.
MarkFromSnapshot(r, row)      == r.cancelled
MarkAfterReschedule(r, row)   == IF r.key \in ReminderKeys THEN row.cancelled ELSE r.cancelled
Rescheduled(r, row) ==
    [row EXCEPT !.status = "PENDING", !.due = FALSE, !.erred = FALSE, !.attempts = 0,
                !.cancelled = MarkAfterReschedule(r, row)]

NextStatusFailed(attempts) == IF attempts + 1 >= MaxAttempts THEN "FAILED" ELSE "PENDING"
NextStatus(attempts)       == IF attempts + 1 >= MaxAttempts THEN "DEAD" ELSE "PENDING"

Failed(r, row) ==
    [row EXCEPT !.status = NextStatus(r.attempts), !.attempts = r.attempts + 1,
                !.due = FALSE, !.erred = TRUE]

Reaped(row) ==
    [row EXCEPT !.status = NextStatus(row.attempts), !.attempts = row.attempts + 1,
                !.stale = FALSE]

CancelledPending(row) ==
    IF row.status = "PENDING" THEN [row EXCEPT !.status = "DONE"] ELSE row

RetiredByMark(row) ==
    IF row.status \in {"PENDING", "CLAIMED"}
    THEN [row EXCEPT !.status = "DONE", !.cancelled = TRUE] ELSE row
Retired(row) ==
    IF row.status \in {"PENDING", "CLAIMED"}
    THEN [row EXCEPT !.status = "DONE", !.cancelled = TRUE, !.seq = NextSeq(row)]
    ELSE row

\* retireReminderJobs' second statement: every row of the event, whatever its status; the token
\* moves only when an arm follows.
Tombstoned(row, moves) ==
    IF row.status = "ABSENT" THEN row
    ELSE [row EXCEPT !.cancelled = TRUE, !.seq = IF moves THEN @ + 1 ELSE @]

\* cancelThreadAppointments, one statement.
ThreadCancelled(row) ==
    IF row.status = "ABSENT" THEN row
    ELSE [row EXCEPT !.status = IF @ \in {"PENDING", "CLAIMED"} THEN "DONE" ELSE @,
                     !.cancelled = TRUE, !.seq = @ + 1]

----------------------------------------------------------------------------
Init ==
    /\ rows = [k \in Keys |-> NoRow(0)]
    /\ runs = {}
    /\ tick = [w \in Workers |-> "idle"]
    /\ dying = [w \in Workers |-> {}]
    /\ booking = [k \in Keys |-> "idle"]
    /\ arms = 0 /\ passes = 0 /\ calls = 0 /\ faults = 0
    /\ served = {} /\ withdrawn = {} /\ reported = {} /\ owedNotice = {}

----------------------------------------------------------------------------
(* Producers: arming and calling off *)

ArmRow(k, due) ==
    /\ arms < MaxArms
    /\ arms' = arms + 1
    /\ rows' = [rows EXCEPT ![k] = Armed(k, @, arms + 1, due)]
    /\ owedNotice' = WithoutKey(owedNotice, k)

\* enqueueJob / upsertJobRow, from any caller but the reminder one.
Arm(k, due) ==
    /\ k \notin ReminderKeys
    /\ ArmRow(k, due)
    /\ UNCHANGED <<runs, tick, dying, booking, passes, calls, faults, served, withdrawn, reported>>

\* cancelPendingJob: a claimed row is left to its own gate.
CancelPending(k) ==
    /\ k \notin DeleteKeys \cup ReminderKeys
    /\ rows[k].status = "PENDING"
    /\ rows' = [rows EXCEPT ![k] = CancelledPending(@)]
    /\ withdrawn' = CalledOffWork(k)
    /\ UNCHANGED <<runs, tick, dying, booking, boundVars, served, reported, owedNotice>>

\* The runs whose work a command calls off, marked so a property can follow them.
CallOff(k) ==
    /\ withdrawn' = CalledOffWork(k)
    /\ runs' = {IF r.key = k /\ SameRow(r) /\ r.stage = "handler"
                THEN [r EXCEPT !.calledOff = TRUE] ELSE r : r \in runs}

\* retireJobsByDedupeKey: /reset reaches the claimed row too.
Retire(k) ==
    /\ k \notin DeleteKeys \cup ReminderKeys
    /\ Lane[k] # "compaction"
    /\ Owed(k)
    /\ rows' = [rows EXCEPT ![k] = Retired(@)]
    /\ CallOff(k)
    /\ UNCHANGED <<tick, dying, booking, boundVars, served, reported, owedNotice>>

\* revokeJobsByKeyPrefixOn: /reset deletes the thread's queued ingestion, dead letters included.
Revoke(k) ==
    /\ k \in IngestKeys
    /\ Owed(k) \/ rows[k].status = "DEAD"
    /\ rows' = [rows EXCEPT ![k] = NoRow(@.id)]
    /\ owedNotice' = WithoutKey(owedNotice, k)
    /\ withdrawn' = CalledOffWork(k)
    /\ UNCHANGED <<runs, tick, dying, booking, boundVars, served, reported>>

\* retireReminderJobs' first statement.  "rearm" bookings go on to arm, cancels do not.
BookingCancelsPending(k, next) ==
    /\ k \in ReminderKeys /\ booking[k] = "idle" /\ calls < MaxCalls
    /\ rows' = [rows EXCEPT ![k] = CancelledPending(@)]
    /\ booking' = [booking EXCEPT ![k] = next]
    /\ calls' = calls + 1
    /\ withdrawn' = IF rows[k].status = "PENDING" THEN CalledOffWork(k) ELSE withdrawn
    /\ UNCHANGED <<runs, tick, dying, arms, passes, faults, served, reported, owedNotice>>

BookingTombstones(k) ==
    /\ booking[k] \in {"tombstone", "tombstoneAndMove"}
    /\ LET moves == booking[k] = "tombstoneAndMove" IN
       /\ rows' = [rows EXCEPT ![k] = Tombstoned(@, moves)]
       /\ booking' = [booking EXCEPT ![k] = IF moves THEN "rearm" ELSE "idle"]
       /\ owedNotice' = IF moves THEN WithoutKey(owedNotice, k) ELSE owedNotice
    /\ CallOff(k)
    /\ UNCHANGED <<tick, dying, boundVars, served, reported>>

\* enqueueAppointmentReminders arms the offsets still ahead and skips the ones outrun.
BookingRearms(k) ==
    /\ booking[k] = "rearm"
    /\ booking' = [booking EXCEPT ![k] = "idle"]
    /\ \/ ArmRow(k, FALSE)
       \/ UNCHANGED <<rows, arms, owedNotice>>
    /\ UNCHANGED <<runs, tick, dying, passes, calls, faults, served, withdrawn, reported>>

CancelThreadAppointments(k) ==
    /\ k \in ReminderKeys /\ rows[k].status # "ABSENT" /\ calls < MaxCalls
    /\ rows' = [rows EXCEPT ![k] = ThreadCancelled(@)]
    /\ CallOff(k)
    /\ owedNotice' = WithoutKey(owedNotice, k)
    /\ calls' = calls + 1
    /\ UNCHANGED <<tick, dying, booking, arms, passes, faults, served, reported>>

----------------------------------------------------------------------------
(* Workers: reap, announce, claim, drain.  The lanes' ticks never overlap themselves. *)

\* The kinds a worker's reaper is restricted to.
ReapScopeSharedOnly(w) == IF w = "shared" THEN {k \in Keys : Lane[k] = w} ELSE {}
ReapScope(w) ==
    CASE w = "shared"     -> Keys
      [] w = "debounce"   -> {}
      [] w = "compaction" -> {k \in Keys : Lane[k] = "compaction"}
      [] w = "barrier"    -> IngestKeys

ToReap(w) == {k \in ReapScope(w) : rows[k].status = "CLAIMED" /\ rows[k].stale}

\* announceReaped walks the rows the reap left DEAD; every reaper owes it this call.
ToAnnounce(w, deaths) == deaths

StartTick(w) ==
    /\ w \in Enabled /\ tick[w] = "idle"
    /\ LET reaped == [k \in Keys |-> IF k \in ToReap(w) THEN Reaped(rows[k]) ELSE rows[k]]
           deaths == {DeathOf(k, rows[k]) : k \in {x \in ToReap(w) : reaped[x].status = "DEAD"}}
           queue  == ToAnnounce(w, deaths)
       IN /\ rows' = reaped
          /\ dying' = [dying EXCEPT ![w] = queue]
          /\ owedNotice' = owedNotice \cup deaths
          /\ tick' = [tick EXCEPT ![w] = IF queue = {} THEN "claim" ELSE "announce"]
    /\ UNCHANGED <<runs, booking, boundVars, served, withdrawn, reported>>

\* dispatchDeadLetter, for a death recorded by the reaper or by failJob.
Announce(d) ==
    IF StillDead(d)
    THEN reported' = {d} /\ owedNotice' = owedNotice \ {d}
    ELSE UNCHANGED <<reported, owedNotice>>

AnnounceReaped(w) ==
    /\ tick[w] = "announce"
    /\ \E d \in dying[w] :
        /\ Announce(d)
        /\ dying' = [dying EXCEPT ![w] = @ \ {d}]
        /\ tick' = [tick EXCEPT ![w] = IF dying[w] = {d} THEN "claim" ELSE @]
    /\ UNCHANGED <<rows, runs, booking, boundVars, served, withdrawn>>

\* dispatchDeadLetter never throws: a re-read that fails costs this one line.
NoticeLost(w) ==
    /\ tick[w] = "announce" /\ faults < MaxFaults
    /\ faults' = faults + 1
    /\ \E d \in dying[w] :
        /\ owedNotice' = owedNotice \ {d}
        /\ dying' = [dying EXCEPT ![w] = @ \ {d}]
        /\ tick' = [tick EXCEPT ![w] = IF dying[w] = {d} THEN "claim" ELSE @]
    /\ UNCHANGED <<rows, runs, booking, arms, passes, calls, served, withdrawn, reported>>

\* claimWhere: due rows of the lane; the barrier also takes one stood down into the future, but
\* not one that is backing off from a failure.
Claimable(w, traffic) ==
    {k \in Keys :
        /\ rows[k].status = "PENDING"
        /\ IF w = "barrier" THEN k \in IngestKeys /\ (~rows[k].erred \/ rows[k].due)
           ELSE /\ rows[k].due
                /\ Lane[k] = w
                /\ w = "shared" => (k \in TrafficKeys <=> traffic)}

RunOf(k, row, w) ==
    [key |-> k, id |-> row.id, seq |-> row.seq, attempts |-> row.attempts, work |-> row.work,
     cancelled |-> row.cancelled, worker |-> w, stage |-> "handler", calledOff |-> FALSE]

\* At most limit rows; which of the due ones are oldest is left open.
ClaimRows(w, traffic, limit) ==
    \E S \in SUBSET Claimable(w, traffic) :
        /\ Cardinality(S) = Min({limit, Cardinality(Claimable(w, traffic))})
        /\ rows' = [k \in Keys |-> IF k \in S THEN Claimed(rows[k]) ELSE rows[k]]
        /\ runs' = runs \cup {RunOf(k, Claimed(rows[k]), w) : k \in S}

\* A tick that claimed nothing has nothing to wait for.
AfterClaim(w) == IF \E r \in runs' : r.worker = w THEN "drain" ELSE "idle"

ClaimBatch(w) ==
    /\ tick[w] = "claim"
    /\ ClaimRows(w, FALSE, BatchSize)
    /\ tick' = [tick EXCEPT ![w] = IF w = "shared" THEN "traffic" ELSE AfterClaim(w)]
    /\ UNCHANGED <<dying, booking, boundVars, historyVars>>

\* The traffic-proportional half of the shared lane, with a quarter of the batch and at least one.
ClaimTraffic ==
    /\ tick["shared"] = "traffic"
    /\ ClaimRows("shared", TRUE, Max({1, BatchSize \div 4}))
    /\ tick' = [tick EXCEPT !["shared"] = AfterClaim("shared")]
    /\ UNCHANGED <<dying, booking, boundVars, historyVars>>

\* Promise.allSettled over the batch, then the running flag is cleared.
EndTick(w) ==
    /\ tick[w] = "drain"
    /\ \A r \in runs : r.worker # w
    /\ tick' = [tick EXCEPT ![w] = "idle"]
    /\ UNCHANGED <<rows, runs, dying, booking, boundVars, historyVars>>

----------------------------------------------------------------------------
(* runClaimed: the outcomes of one handler *)

Settled(r) == runs' = runs \ {r}

HandlerDone(r) ==
    /\ r.stage = "handler"
    /\ served' = served \cup {r.work}
    /\ rows' = IF Holds(r) THEN [rows EXCEPT ![r.key] = Completed(r.key, @)] ELSE rows
    /\ Settled(r)
    /\ UNCHANGED <<tick, dying, booking, boundVars, withdrawn, reported, owedNotice>>

\* A handler whose re-read says it was retired stands down with outcome "done": nothing was served.
\* Ingestion asks the stricter question, whether the row is still claimed by it.
HandlerStandsDown(r) ==
    /\ r.stage = "handler"
    /\ IF r.key \in IngestKeys THEN ~Holds(r) ELSE IsRetired(r)
    /\ rows' = IF Holds(r) THEN [rows EXCEPT ![r.key] = Completed(r.key, @)] ELSE rows
    /\ Settled(r)
    /\ UNCHANGED <<tick, dying, booking, boundVars, historyVars>>

HandlerReschedules(r) ==
    /\ r.stage = "handler" /\ passes < MaxPasses
    /\ passes' = passes + 1
    /\ rows' = IF Holds(r) THEN [rows EXCEPT ![r.key] = Rescheduled(r, @)] ELSE rows
    /\ Settled(r)
    /\ UNCHANGED <<tick, dying, booking, arms, calls, faults, historyVars>>

HandlerFails(r) ==
    /\ r.stage = "handler"
    /\ LET applied == Holds(r)
           dead    == applied /\ NextStatus(r.attempts) = "DEAD"
       IN /\ rows' = IF applied THEN [rows EXCEPT ![r.key] = Failed(r, @)] ELSE rows
          /\ runs' = (runs \ {r}) \cup (IF dead THEN {[r EXCEPT !.stage = "notice"]} ELSE {})
          /\ owedNotice' = owedNotice \cup (IF dead THEN {DeathOf(r.key, rows[r.key])} ELSE {})
    /\ UNCHANGED <<tick, dying, booking, boundVars, served, withdrawn, reported>>

RunAnnounces(r) ==
    /\ r.stage = "notice"
    /\ Announce(RunDeath(r))
    /\ Settled(r)
    /\ UNCHANGED <<rows, tick, dying, booking, boundVars, served, withdrawn>>

Outcome(r) ==
    HandlerDone(r) \/ HandlerStandsDown(r) \/ HandlerReschedules(r) \/ HandlerFails(r)
        \/ RunAnnounces(r)

----------------------------------------------------------------------------
(* Faults and time *)

\* The outcome's own write never reached the database: the row stays CLAIMED for the reaper, or
\* the announcement is lost.
WriteLost(r) ==
    /\ faults < MaxFaults
    /\ faults' = faults + 1
    /\ Settled(r)
    /\ owedNotice' = owedNotice \ (IF r.stage = "notice" THEN {RunDeath(r)} ELSE {})
    /\ UNCHANGED <<rows, tick, dying, booking, arms, passes, calls, served, withdrawn, reported>>

\* The process dies and comes back: everything in memory goes, the table stays.
Crash ==
    /\ faults < MaxFaults
    /\ faults' = faults + 1
    /\ runs' = {}
    /\ tick' = [w \in Workers |-> "idle"]
    /\ dying' = [w \in Workers |-> {}]
    /\ booking' = [k \in Keys |-> "idle"]
    /\ owedNotice' = {}
    /\ UNCHANGED <<rows, arms, passes, calls, served, withdrawn, reported>>

BecomesDue(k) ==
    /\ rows[k].status = "PENDING" /\ ~rows[k].due
    /\ rows' = [rows EXCEPT ![k].due = TRUE]
    /\ UNCHANGED <<runs, tick, dying, booking, boundVars, historyVars>>

GoesStale(k) ==
    /\ rows[k].status = "CLAIMED" /\ ~rows[k].stale
    /\ rows' = [rows EXCEPT ![k].stale = TRUE]
    /\ UNCHANGED <<runs, tick, dying, booking, boundVars, historyVars>>

----------------------------------------------------------------------------
Producer(k) ==
    \/ \E due \in BOOLEAN : Arm(k, due)
    \/ CancelPending(k) \/ Retire(k) \/ Revoke(k)
    \/ \E next \in {"tombstone", "tombstoneAndMove"} : BookingCancelsPending(k, next)
    \/ BookingTombstones(k) \/ BookingRearms(k) \/ CancelThreadAppointments(k)

Worker(w) == StartTick(w) \/ AnnounceReaped(w) \/ NoticeLost(w) \/ ClaimBatch(w) \/ EndTick(w)

Next ==
    \/ \E k \in Keys : Producer(k) \/ BecomesDue(k) \/ GoesStale(k)
    \/ \E w \in Enabled : Worker(w)
    \/ ClaimTraffic
    \/ \E r \in runs : Outcome(r) \/ WriteLost(r)
    \/ Crash

Spec == Init /\ [][Next]_vars
----------------------------------------------------------------------------
(* Fairness: setInterval starts a tick that is not running, every started statement returns, and
   time passes.  Handlers are fair apart, because nothing in runClaimed bounds how long one takes. *)

TickFairness ==
    /\ \A w \in Lanes : WF_vars(StartTick(w)) /\ WF_vars(AnnounceReaped(w))
                            /\ WF_vars(ClaimBatch(w)) /\ WF_vars(EndTick(w))
    /\ WF_vars(AnnounceReaped("barrier")) /\ WF_vars(ClaimBatch("barrier"))
    /\ WF_vars(EndTick("barrier"))
    /\ WF_vars(ClaimTraffic)
    /\ \A k \in Keys : WF_vars(BecomesDue(k)) /\ WF_vars(GoesStale(k))

RunsOf(k)       == {r \in runs : r.key = k}
HandlerFairness == \A k \in Keys : WF_vars(\E r \in RunsOf(k) : Outcome(r))

FairSpec == Spec /\ TickFairness /\ HandlerFairness

----------------------------------------------------------------------------
(* Properties *)

\* At most one run in memory can still write its outcome on a row, whatever reaped, re-armed,
\* retired or deleted and re-created the row meanwhile (the claim token of issue #164).
AtMostOneHolder ==
    \A r1, r2 \in runs : r1.key = r2.key /\ Holds(r1) /\ Holds(r2) => r1 = r2

\* The run that can still write carries the row's current work and its current failure count, so
\* failJob may count from the snapshot it was claimed with.
HolderIsCurrent ==
    \A r \in runs : Holds(r) => r.work = rows[r.key].work /\ r.attempts = rows[r.key].attempts

\* A run called off by /reset or by a re-stated booking keeps reading itself as retired for as long
\* as it runs, even after a re-arm has wiped the tombstone of its row.
CalledOffStaysCalledOff == \A r \in runs : r.calledOff => IsRetired(r)

\* A tombstone leaves a row only with the arming of other work: no run erases it by rescheduling
\* itself from the snapshot it was claimed with (issue #281).
TombstoneLeavesWithNewWork ==
    [][\A k \in Keys :
        /\ rows[k].cancelled /\ ~rows'[k].cancelled
        /\ rows'[k].id = rows[k].id /\ rows'[k].status # "ABSENT"
        => rows'[k].work # rows[k].work]_vars

\* What is reported as lost was lost: a death is announced only while no later arming, reset or
\* revocation took its row back.  The hooks of the debounce and compaction kinds compare the status
\* alone and are left out.
OnlyStandingDeathsAnnounced ==
    [][\A d \in reported' \ reported : d.key \in HookKeys \/ d \in owedNotice]_vars

\* Every death that stands is announced, whichever reaper or run recorded it (issue #356); the only
\* losses are the faults the code accepts, a crash or a failed read in between.
EveryStandingDeathIsAnnounced ==
    \A k \in Keys : (\E d \in owedNotice : d.key = k) ~> (\A d \in owedNotice : d.key # k)

\* Whatever is owed stops being owed: served, withdrawn or dead, through any crash, lost write,
\* overlap of runs and exhausted retry, as long as handlers return.
OwedSettles == \A k \in Keys : Owed(k) ~> ~Owed(k)

\* The queue keeps the ledger's promise: see WorkLedger.
Ledger == INSTANCE WorkLedger WITH
    owed  <- [k \in Keys |-> IF Live(k) THEN rows[k].work ELSE 0],
    tries <- [k \in Keys |-> rows[k].attempts]
LedgerSpec == Ledger!Spec
=============================================================================
