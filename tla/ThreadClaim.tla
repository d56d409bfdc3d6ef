---------------------------- MODULE ThreadClaim ----------------------------
(***************************************************************************)
(* One memory thread of a contact, shared by the processes of a deployment *)
(* (src/src/graph/thread-claim.ts, inflight.ts, ingest.ts and the claim    *)
(* section of runtime.ts).                                                 *)
(*                                                                         *)
(* A turn reads the whole message channel, works, and saves what it read   *)
(* plus its own message: anything appended meanwhile is erased.  Two       *)
(* things keep the writers apart: a count of running turns in each process *)
(* (inFlight) behind a per-process queue, and two leases on the thread's   *)
(* agent_threads row, one for turns (counted, with an epoch) and one for   *)
(* appends (with a token).  /reset deletes the row and the channel.        *)
(*                                                                         *)
(* A lease is live or not: an absent one and an expired one are read alike *)
(* by every statement.  It runs out when nobody renews it any more (the    *)
(* holder released, died or lost its release); LeaseLapses and WriteLapses *)
(* are the stalls, at most MaxSlow, that let it run out under a holder     *)
(* that is still working.  MaxFaults bounds crashes, throws, lost releases *)
(* and stolen jobs, MaxResets the /reset commands.  All messages and turns *)
(* belong to one new conversation of the contact and arrive in id order    *)
(* (movesAttendanceFrontier holds for each).                               *)
(***************************************************************************)
EXTENDS Integers, Sequences

CONSTANTS Procs,        \* the processes: web replicas and the leader
          Turns,        \* turns that may run on the thread
          FlushTurns,   \* those with a stillWanted: turns of a debounce flush
          Msgs,         \* messages owed to the thread by continuous ingestion
          Appends,      \* runs of the ingestion job
          Resets,       \* /reset commands
          Nobody, Divider,
          MaxFaults, MaxSlow

\* Turns, messages and the divider are different entries of a channel.
ASSUME ConstantsAssumption ==
    /\ FlushTurns \subseteq Turns
    /\ Turns \cap Msgs = {} /\ Divider \notin Turns \cup Msgs
    /\ MaxFaults \in Nat /\ MaxSlow \in Nat

VARIABLES threadRow, \* the agent_threads row, or NoRow
          channel,  \* the messages of the checkpoint
          turn, append, reset,
          owed,     \* messages whose INGEST_MESSAGE job is PENDING or CLAIMED
          current,  \* the run a message's job is CLAIMED by
          arrived,
          calledOff, \* turns whose job a /reset retired
          inFlight, \* per process: the Map of ./inflight.ts
          queue,    \* per process: the keyed queue ingest:<thread>
          faults, slow,
          occupancies, \* ghost: how many times the thread was taken afresh
          cleared,  \* ghost: what the operator was told is gone
          torn      \* ghost: what a /reset took from the checkpoint without committing

thread == <<threadRow, channel>>
jobs   == <<append, owed, current, arrived>>
resets == <<reset, calledOff, cleared, torn>>
local  == <<inFlight, queue>>
bounds == <<faults, slow>>
vars   == <<thread, jobs, resets, local, bounds, turn, occupancies>>

Stamps == {"none", "old", "new"}
TurnPcs == {"idle", "queued", "claiming", "claimed", "marking", "stamping",
            "loading", "invoking", "releasing", "decrementing", "done"}
AppendPcs == {"idle", "queued", "claiming", "checking", "writing", "recording",
              "releasing", "settling"}
ResetPcs == {"idle", "queued", "commit", "done"}

RowType == [exists : BOOLEAN, holders : Nat, epoch : Nat, lease : BOOLEAN,
            write : BOOLEAN, token : Appends \cup {Nobody}, conv : Stamps,
            marked : BOOLEAN, recorded : SUBSET Msgs, occ : Nat]

Entries == Turns \cup Msgs \cup {Divider}

TypeOK ==
    /\ threadRow \in RowType
    /\ channel \subseteq Entries
    /\ turn \in [Turns -> [pc : TurnPcs, proc : Procs \cup {Nobody}, epoch : Nat, occ : Nat,
                           here : BOOLEAN, before : BOOLEAN, advance : BOOLEAN,
                           timer : BOOLEAN, snap : SUBSET Entries]]
    /\ append \in [Appends -> [pc : AppendPcs, proc : Procs \cup {Nobody}, msg : Msgs \cup {Nobody},
                               created : BOOLEAN, divider : BOOLEAN, advance : BOOLEAN,
                               prev : Stamps, outcome : {"done", "later"}]]
    /\ reset \in [Resets -> [pc : ResetPcs, proc : Procs \cup {Nobody}, revoked : SUBSET Msgs]]
    /\ owed \subseteq arrived /\ arrived \subseteq Msgs
    /\ current \in [Msgs -> Appends \cup {Nobody}]
    /\ calledOff \subseteq FlushTurns
    /\ inFlight \in [Procs -> Nat]
    /\ queue \in [Procs -> Seq(Turns \cup Appends \cup Resets)]
    /\ faults \in 0..MaxFaults /\ slow \in 0..MaxSlow
    /\ occupancies \in Nat /\ cleared \subseteq Entries /\ torn \subseteq Entries

NoRow == [exists |-> FALSE, holders |-> 0, epoch |-> 0, lease |-> FALSE,
          write |-> FALSE, token |-> Nobody, conv |-> "none", marked |-> FALSE,
          recorded |-> {}, occ |-> 0]

\* A thread left behind by the previous conversation, or none at all.
OldRow == [NoRow EXCEPT !.exists = TRUE, !.conv = "old", !.marked = TRUE]

IdleTurn == [pc |-> "idle", proc |-> Nobody, epoch |-> 0, occ |-> 0, here |-> FALSE,
             before |-> FALSE, advance |-> FALSE, timer |-> FALSE, snap |-> {}]
EndedTurn == [IdleTurn EXCEPT !.pc = "done"]
IdleAppend == [pc |-> "idle", proc |-> Nobody, msg |-> Nobody, created |-> FALSE,
               divider |-> FALSE, advance |-> FALSE, prev |-> "none", outcome |-> "done"]
IdleReset == [pc |-> "idle", proc |-> Nobody, revoked |-> {}]

Init ==
    /\ threadRow \in {NoRow, OldRow}
    /\ channel = {}
    /\ turn = [t \in Turns |-> IdleTurn]
    /\ append = [a \in Appends |-> IdleAppend]
    /\ reset = [r \in Resets |-> IdleReset]
    /\ owed = {} /\ arrived = {} /\ calledOff = {} /\ cleared = {} /\ torn = {}
    /\ current = [m \in Msgs |-> Nobody]
    /\ inFlight = [p \in Procs |-> 0]
    /\ queue = [p \in Procs |-> <<>>]
    /\ faults = 0 /\ slow = 0 /\ occupancies = 0

---------------------------------------------------------------------------
(* The queue withKeyedQueue(`ingest:<thread>`) of one process: first come, *)
(* first served, and the head is inside the section.                       *)

Waits(x, p) == queue' = [queue EXCEPT ![p] = Append(@, x)]
Inside(x, p) == queue[p] # <<>> /\ Head(queue[p]) = x
Leaves(x, p) == queue' = IF Inside(x, p) THEN [queue EXCEPT ![p] = Tail(@)] ELSE queue

Fault == faults < MaxFaults /\ faults' = faults + 1
Marks(p) == inFlight' = [inFlight EXCEPT ![p] = @ + 1]
Unmarks(p) == inFlight' = [inFlight EXCEPT ![p] = IF @ > 0 THEN @ - 1 ELSE 0]

Goes(t, pc) == turn' = [turn EXCEPT ![t].pc = pc]
Finishes(t) == turn' = [turn EXCEPT ![t] = EndedTurn]

\* turnOwnsThread: does any process have an invoke reading the channel?
TurnOwns(p) == inFlight[p] > 0 \/ (threadRow.holders > 0 /\ threadRow.lease)

\* attendanceHasStarted: something of the new conversation is in the channel.
Started == channel # {}

\* claimAttendanceBoundary for the new conversation, by a writer that read
\* `prev` off the row and `reading` off its claim.
WritesDivider(prev, reading) == prev = "old" /\ ~reading /\ ~Started
AdvancesMarker(prev, reading) == prev = "none" \/ (prev = "old" /\ ~reading)

\* The transaction of a /reset has the row, FOR UPDATE or inserted, until it ends: whoever
\* writes the row waits.  It has the job rows it revoked as well.
RowLocked == \E r \in Resets : reset[r].pc = "commit"
Revoking == UNION {reset[r].revoked : r \in Resets}

---------------------------------------------------------------------------
(* A turn: runAgentTurn from the ingest barrier to its finally.            *)

TurnStarts(t, p) ==
    /\ turn[t].pc = "idle"
    /\ turn' = [turn EXCEPT ![t].pc = "queued", ![t].proc = p]
    /\ Waits(t, p)
    /\ UNCHANGED <<thread, jobs, resets, bounds, inFlight, occupancies>>

\* The first stillWanted, then markTurnOwning reads the Map and marks it.
TurnEnters(t) == LET p == turn[t].proc IN
    /\ turn[t].pc = "queued" /\ Inside(t, p)
    /\ IF t \in calledOff
       THEN Finishes(t) /\ Leaves(t, p) /\ UNCHANGED inFlight
       ELSE /\ turn' = [turn EXCEPT ![t].pc = "claiming", ![t].here = inFlight[p] > 0]
            /\ Marks(p) /\ UNCHANGED queue
    /\ UNCHANGED <<thread, jobs, resets, bounds, occupancies>>

\* What bumpTurnHolders leaves when the update matches, what insertHeldByTurn
\* leaves when there is no row.
Fresh == ~threadRow.exists \/ ~threadRow.lease
RowHeld == [threadRow EXCEPT !.exists = TRUE, !.lease = TRUE,
                       !.holders = IF Fresh THEN 1 ELSE @ + 1,
                       !.epoch = IF Fresh THEN @ + 1 ELSE @,
                       !.occ = IF Fresh THEN occupancies + 1 ELSE @]

\* Mutant: started beside an append.
TurnClaimsUnderAppend(t) ==
    /\ turn[t].pc = "claiming" /\ ~RowLocked
    /\ threadRow' = RowHeld
    /\ occupancies' = IF Fresh THEN occupancies + 1 ELSE occupancies
    /\ turn' = [turn EXCEPT ![t].pc = "claimed", ![t].timer = TRUE,
                            ![t].epoch = threadRow'.epoch, ![t].occ = threadRow'.occ,
                            ![t].before = turn[t].here \/ threadRow'.holders > 1]
    /\ UNCHANGED <<jobs, resets, local, bounds, channel>>

\* markTurnOwning: polls until no append is in flight.
TurnClaims(t) ==
    /\ turn[t].pc = "claiming" /\ ~threadRow.write /\ ~RowLocked
    /\ threadRow' = RowHeld
    /\ occupancies' = IF Fresh THEN occupancies + 1 ELSE occupancies
    /\ turn' = [turn EXCEPT ![t].pc = "claimed", ![t].timer = TRUE,
                            ![t].epoch = threadRow'.epoch, ![t].occ = threadRow'.occ,
                            ![t].before = turn[t].here \/ threadRow'.holders > 1]
    /\ UNCHANGED <<jobs, resets, local, bounds, channel>>

\* A statement of markTurnOwning throws: the local mark goes, and so does the
\* turn.
TurnClaimThrows(t) == LET p == turn[t].proc IN
    /\ turn[t].pc = "claiming" /\ Fault
    /\ Finishes(t) /\ Leaves(t, p) /\ Unmarks(p)
    /\ UNCHANGED <<thread, jobs, resets, slow, occupancies>>

\* Mutant: asked only before the claim.
TurnAskedOnce(t) ==
    /\ turn[t].pc = "claimed"
    /\ Goes(t, "marking")
    /\ UNCHANGED <<thread, jobs, resets, bounds, local, occupancies>>

\* The second stillWanted, behind a claim that can have waited.
TurnAsksAgain(t) == LET p == turn[t].proc IN
    /\ turn[t].pc = "claimed"
    /\ IF t \in calledOff THEN Goes(t, "releasing") /\ Leaves(t, p)
                          ELSE Goes(t, "marking") /\ UNCHANGED queue
    /\ UNCHANGED <<thread, jobs, resets, bounds, inFlight, occupancies>>

\* The row read after the claim decides the boundary; the divider is written.
TurnWritesDivider(t) ==
    /\ turn[t].pc = "marking"
    /\ channel' = IF WritesDivider(threadRow.conv, turn[t].before)
                  THEN channel \cup {Divider} ELSE channel
    /\ turn' = [turn EXCEPT ![t].pc = "stamping",
                            ![t].advance = AdvancesMarker(threadRow.conv, turn[t].before)]
    /\ UNCHANGED <<jobs, resets, local, bounds, threadRow, occupancies>>

\* The upsert of lastConversationId and of the inbound id it answers.
TurnStampsRow(t) ==
    /\ turn[t].pc = "stamping" /\ ~RowLocked
    /\ threadRow' = [threadRow EXCEPT !.exists = TRUE, !.marked = TRUE,
                          !.conv = IF turn[t].advance \/ ~threadRow.exists THEN "new" ELSE @]
    /\ Goes(t, "loading") /\ Leaves(t, turn[t].proc)
    /\ UNCHANGED <<jobs, resets, bounds, channel, inFlight, occupancies>>

\* graph.invoke loads the channel once; every superstep saves what it loaded
\* with its own messages, whole.
TurnLoads(t) ==
    /\ turn[t].pc = "loading"
    /\ turn' = [turn EXCEPT ![t].pc = "invoking", ![t].snap = channel]
    /\ UNCHANGED <<thread, jobs, resets, local, bounds, occupancies>>

TurnSaves(t) ==
    /\ turn[t].pc = "invoking"
    /\ channel' = turn[t].snap \cup {t}
    /\ \E pc \in {"invoking", "releasing"} : Goes(t, pc)
    /\ UNCHANGED <<jobs, resets, local, bounds, threadRow, occupancies>>

\* A write of the section or the model call throws; the finally still runs.
TurnThrows(t) ==
    /\ turn[t].pc \in {"claimed", "marking", "stamping", "loading", "invoking"}
    /\ Goes(t, "releasing")
    /\ IF turn[t].pc \in {"loading", "invoking"} THEN UNCHANGED queue
                                               ELSE Leaves(t, turn[t].proc)
    /\ UNCHANGED <<thread, jobs, resets, bounds, inFlight, occupancies>>

\* clearTurnOwning: the timer stops and the Map is unmarked first.
TurnUnmarks(t) ==
    /\ turn[t].pc = "releasing"
    /\ turn' = [turn EXCEPT ![t].pc = "decrementing", ![t].timer = FALSE]
    /\ Unmarks(turn[t].proc)
    /\ UNCHANGED <<thread, jobs, resets, bounds, queue, occupancies>>

\* One hold given back, on the occupancy this turn joined.
RowGivenBack == [threadRow EXCEPT !.holders = IF @ > 0 THEN @ - 1 ELSE 0,
                            !.lease = @ /\ threadRow.holders > 1]

\* Mutant: released without the epoch.
TurnReleasesAny(t) ==
    /\ turn[t].pc = "decrementing" /\ ~RowLocked
    /\ threadRow' = IF threadRow.exists THEN RowGivenBack ELSE threadRow
    /\ Finishes(t)
    /\ UNCHANGED <<jobs, resets, local, bounds, channel, occupancies>>

TurnReleases(t) ==
    /\ turn[t].pc = "decrementing" /\ ~RowLocked
    /\ threadRow' = IF threadRow.exists /\ threadRow.epoch = turn[t].epoch THEN RowGivenBack
                    ELSE threadRow
    /\ Finishes(t)
    /\ UNCHANGED <<jobs, resets, local, bounds, channel, occupancies>>

\* The release throws: logged, and the lease is left to expire.
TurnReleaseLost(t) ==
    /\ turn[t].pc = "decrementing" /\ Fault
    /\ Finishes(t)
    /\ UNCHANGED <<thread, jobs, resets, local, slow, occupancies>>

\* The interval of `renewing`: it renews its own occupancy, or stops itself.
Renews(t) == threadRow.exists /\ threadRow.epoch = turn[t].epoch /\ threadRow.holders > 0

TurnRenews(t) ==
    /\ turn[t].timer /\ ~RowLocked
    /\ IF Renews(t)
       THEN /\ ~threadRow.lease /\ threadRow' = [threadRow EXCEPT !.lease = TRUE]
            /\ UNCHANGED turn
       ELSE turn' = [turn EXCEPT ![t].timer = FALSE] /\ UNCHANGED threadRow
    /\ UNCHANGED <<jobs, resets, local, bounds, channel, occupancies>>

---------------------------------------------------------------------------
(* An append: the INGEST_MESSAGE job and ingestMessageIntoThread.          *)

\* armIngest: one job per message.
Arrives(m) ==
    /\ m \notin arrived
    /\ arrived' = arrived \cup {m} /\ owed' = owed \cup {m}
    /\ UNCHANGED <<thread, resets, local, bounds, turn, append, current, occupancies>>

\* The job is claimed: by a tick of the worker or by the drain of a turn, in
\* any process.  A claim held too long is reaped and claimed again under the
\* run that still works.
AppendStarts(a, p, m) ==
    /\ append[a].pc = "idle" /\ m \in owed \ Revoking
    /\ IF current[m] = Nobody THEN UNCHANGED faults ELSE Fault
    /\ current' = [current EXCEPT ![m] = a]
    /\ append' = [append EXCEPT ![a].pc = "queued", ![a].proc = p, ![a].msg = m,
                                ![a].created = FALSE]
    /\ Waits(a, p)
    /\ UNCHANGED <<thread, resets, turn, owed, arrived, inFlight, slow, occupancies>>

\* Leaves the section with the outcome the handler reports.
Ends(a, outcome) ==
    /\ append' = [append EXCEPT ![a].pc = "settling", ![a].outcome = outcome]
    /\ Leaves(a, append[a].proc)

\* The cheap look: a message already remembered is not new.
AppendEnters(a) ==
    /\ append[a].pc = "queued" /\ Inside(a, append[a].proc)
    /\ IF append[a].msg \in threadRow.recorded
       THEN Ends(a, "done")
       ELSE append' = [append EXCEPT ![a].pc = "claiming"] /\ UNCHANGED queue
    /\ UNCHANGED <<thread, resets, bounds, turn, owed, arrived, current, inFlight, occupancies>>

\* claimIngestWrite: the Map, then the row, then a row of its own.
WriteFreeOfAppends == ~threadRow.write    \* mutant: asks about appends only
WriteFree == (threadRow.holders = 0 \/ ~threadRow.lease) /\ ~threadRow.write

AppendClaims(a) ==
    /\ append[a].pc = "claiming" /\ ~RowLocked
    /\ IF inFlight[append[a].proc] = 0 /\ (~threadRow.exists \/ WriteFree)
       THEN /\ threadRow' = [threadRow EXCEPT !.exists = TRUE, !.write = TRUE, !.token = a]
            /\ append' = [append EXCEPT ![a].pc = "checking", ![a].created = ~threadRow.exists]
            /\ UNCHANGED queue
       ELSE Ends(a, "later") /\ UNCHANGED threadRow
    /\ UNCHANGED <<channel, resets, bounds, turn, owed, arrived, current, inFlight, occupancies>>

\* stillWanted of the ingestion job: its row is still claimed by this run.
StillWanted(a) == append[a].msg \in owed /\ current[append[a].msg] = a

\* The row read under the claim: seen already, called off, or which boundary.
AppendChecks(a) == LET reading == TurnOwns(append[a].proc) IN
    /\ append[a].pc = "checking"
    /\ append' = IF append[a].msg \in threadRow.recorded \/ ~StillWanted(a)
                 THEN [append EXCEPT ![a].pc = "releasing", ![a].outcome = "done"]
                 ELSE [append EXCEPT ![a].pc = "writing", ![a].prev = threadRow.conv,
                                     ![a].divider = WritesDivider(threadRow.conv, reading),
                                     ![a].advance = AdvancesMarker(threadRow.conv, reading)]
    /\ UNCHANGED <<thread, resets, local, bounds, turn, owed, arrived, current, occupancies>>

\* The append, skipped when an earlier attempt already made it.
AppendWrites(a) ==
    /\ append[a].pc = "writing"
    /\ channel' = IF append[a].msg \in channel THEN channel
                  ELSE channel \cup {append[a].msg}
                               \cup (IF append[a].divider THEN {Divider} ELSE {})
    /\ append' = [append EXCEPT ![a].pc = "recording"]
    /\ UNCHANGED <<threadRow, resets, local, bounds, turn, owed, arrived, current, occupancies>>

\* The message is remembered on the row, re-read under its lock.
AppendRecords(a) ==
    /\ append[a].pc = "recording" /\ ~RowLocked
    /\ threadRow' = [threadRow EXCEPT !.exists = TRUE, !.marked = TRUE,
                          !.recorded = @ \cup {append[a].msg},
                          !.conv = IF ~threadRow.exists \/ append[a].advance THEN "new"
                                   ELSE append[a].prev]
    /\ append' = [append EXCEPT ![a].pc = "releasing", ![a].outcome = "done"]
    /\ UNCHANGED <<channel, resets, local, bounds, turn, owed, arrived, current, occupancies>>

\* The checkpointer or the row write throws; the job is retried.
AppendThrows(a) ==
    /\ append[a].pc \in {"checking", "writing", "recording"} /\ Fault
    /\ append' = [append EXCEPT ![a].pc = "releasing", ![a].outcome = "later"]
    /\ UNCHANGED <<thread, resets, local, slow, turn, owed, arrived, current, occupancies>>

\* releaseIngestWrite: a row that holds nothing but this claim is deleted.
HoldsNothing ==
    /\ threadRow.holders = 0 /\ threadRow.conv = "none"
    /\ ~threadRow.marked /\ threadRow.recorded = {}

RowAfterRelease(a) ==
    IF ~threadRow.exists \/ threadRow.token # a THEN threadRow
    ELSE IF append[a].created /\ HoldsNothing THEN NoRow
    ELSE [threadRow EXCEPT !.write = FALSE, !.token = Nobody]

AppendReleases(a) ==
    /\ append[a].pc = "releasing" /\ ~RowLocked
    /\ threadRow' = RowAfterRelease(a)
    /\ Ends(a, append[a].outcome)
    /\ UNCHANGED <<channel, resets, bounds, turn, owed, arrived, current, inFlight, occupancies>>

\* The release throws: logged, and the write lease is left to expire.
AppendReleaseLost(a) ==
    /\ append[a].pc = "releasing" /\ Fault
    /\ Ends(a, append[a].outcome)
    /\ UNCHANGED <<thread, resets, slow, turn, owed, arrived, current, inFlight, occupancies>>

\* completeJob deletes the row, rescheduleJob and failJob hand it back; each
\* only while this run holds it.
AppendSettles(a) == LET m == append[a].msg IN
    /\ append[a].pc = "settling" /\ m \notin Revoking
    /\ append' = [append EXCEPT ![a] = IdleAppend]
    /\ IF StillWanted(a)
       THEN /\ owed' = IF append[a].outcome = "done" THEN owed \ {m} ELSE owed
            /\ current' = [current EXCEPT ![m] = Nobody]
       ELSE UNCHANGED <<owed, current>>
    /\ UNCHANGED <<thread, resets, local, bounds, turn, arrived, occupancies>>

\* The claim of an append at work is renewed by its token.
Working(a) == append[a].pc \in {"checking", "writing", "recording", "releasing"}

AppendRenews(a) ==
    /\ Working(a) /\ threadRow.exists /\ threadRow.token = a /\ ~threadRow.write /\ ~RowLocked
    /\ threadRow' = [threadRow EXCEPT !.write = TRUE]
    /\ UNCHANGED <<jobs, resets, local, bounds, turn, channel, occupancies>>

---------------------------------------------------------------------------
(* /reset (handleResetCommand): the flush job of the conversation is       *)
(* retired, and later the memory is cleared inside the queue and one       *)
(* transaction, but for the checkpoint, which is on another connection and *)
(* goes before the commit (../memory/reset.ts).                            *)

Underway(t) == turn[t].pc \notin {"idle", "done"}

ResetRetires(r, p) ==
    /\ reset[r].pc = "idle"
    /\ calledOff' = calledOff \cup {t \in FlushTurns : Underway(t)}
    /\ reset' = [reset EXCEPT ![r].pc = "queued", ![r].proc = p]
    /\ Waits(r, p)
    /\ UNCHANGED <<thread, jobs, bounds, turn, inFlight, occupancies, cleared, torn>>

\* threadBusyForResetOn
BusyForReset(p) == inFlight[p] > 0 \/ (threadRow.holders > 0 /\ threadRow.lease) \/ threadRow.write

ResetEnds(r) == /\ reset' = [reset EXCEPT ![r].pc = "done", ![r].revoked = {}]
                /\ Leaves(r, reset[r].proc)

\* Refused, or: the ingestion jobs of the thread are revoked and its rows deleted in a
\* transaction that stays open, and the checkpoint is deleted beside it.
ResetErases(r) == LET p == reset[r].proc IN
    /\ reset[r].pc = "queued" /\ Inside(r, p) /\ ~RowLocked
    /\ IF BusyForReset(p)
       THEN ResetEnds(r) /\ UNCHANGED <<channel, torn>>
       ELSE /\ reset' = [reset EXCEPT ![r].pc = "commit", ![r].revoked = owed]
            /\ channel' = {} /\ torn' = torn \cup channel
            /\ UNCHANGED queue
    /\ UNCHANGED <<threadRow, bounds, jobs, turn, calledOff, cleared, inFlight, occupancies>>

\* The commit takes the rows and the jobs, and the command reports what is gone.
ResetCommits(r) == LET gone == reset[r].revoked IN
    /\ reset[r].pc = "commit"
    /\ ResetEnds(r)
    /\ threadRow' = NoRow
    /\ owed' = owed \ gone /\ current' = [m \in Msgs |-> IF m \in gone THEN Nobody ELSE current[m]]
    /\ cleared' = cleared \cup torn \cup gone \cup calledOff
    /\ torn' = {}
    /\ UNCHANGED <<channel, bounds, turn, append, arrived, calledOff, inFlight, occupancies>>

\* The transaction fails, at the checkpoint's delete or at the commit: the rows and the jobs are
\* still there, a checkpoint that was deleted is not, and the step is reported as failed.
ResetThrows(r) ==
    /\ reset[r].pc \in {"queued", "commit"} /\ Inside(r, reset[r].proc) /\ Fault
    /\ ResetEnds(r)
    /\ UNCHANGED <<thread, jobs, slow, turn, calledOff, cleared, torn, inFlight, occupancies>>

---------------------------------------------------------------------------
(* Time and death.                                                         *)

\* A holder at work keeps its lease alive: it renews it, or its release is the
\* statement under way.
RenewedByTurn == \E t \in Turns : (turn[t].timer \/ turn[t].pc = "decrementing") /\ Renews(t)
RenewedByAppend == \E a \in Appends : Working(a) /\ threadRow.token = a

LeaseExpires ==
    /\ threadRow.lease /\ ~RenewedByTurn
    /\ threadRow' = [threadRow EXCEPT !.lease = FALSE]
    /\ UNCHANGED <<jobs, resets, local, bounds, turn, channel, occupancies>>

WriteExpires ==
    /\ threadRow.write /\ ~RenewedByAppend
    /\ threadRow' = [threadRow EXCEPT !.write = FALSE]
    /\ UNCHANGED <<jobs, resets, local, bounds, turn, channel, occupancies>>

Stall == slow < MaxSlow /\ slow' = slow + 1

LeaseLapses ==
    /\ threadRow.lease /\ RenewedByTurn /\ Stall
    /\ threadRow' = [threadRow EXCEPT !.lease = FALSE]
    /\ UNCHANGED <<jobs, resets, local, faults, turn, channel, occupancies>>

WriteLapses ==
    /\ threadRow.write /\ RenewedByAppend /\ Stall
    /\ threadRow' = [threadRow EXCEPT !.write = FALSE]
    /\ UNCHANGED <<jobs, resets, local, faults, turn, channel, occupancies>>

\* The process stops: its Map and its queue go with it, its rows do not.  The
\* jobs its appends held are handed back by the reaper.
Crash(p) ==
    /\ Fault
    /\ turn' = [t \in Turns |-> IF turn[t].proc = p /\ Underway(t)
                  THEN EndedTurn ELSE turn[t]]
    /\ append' = [a \in Appends |-> IF append[a].proc = p
                  THEN IdleAppend ELSE append[a]]
    /\ reset' = [r \in Resets |-> IF reset[r].proc = p
                  THEN [reset[r] EXCEPT !.pc = "done", !.revoked = {}] ELSE reset[r]]
    /\ current' = [m \in Msgs |->
                  IF \E a \in Appends : append[a].proc = p /\ current[m] = a
                  THEN Nobody ELSE current[m]]
    /\ inFlight' = [inFlight EXCEPT ![p] = 0]
    /\ queue' = [queue EXCEPT ![p] = <<>>]
    /\ UNCHANGED <<thread, owed, arrived, calledOff, cleared, torn, slow, occupancies>>

TurnStep(t) ==
    \/ TurnEnters(t) \/ TurnClaims(t) \/ TurnAsksAgain(t) \/ TurnWritesDivider(t)
    \/ TurnStampsRow(t) \/ TurnLoads(t) \/ TurnSaves(t) \/ TurnUnmarks(t)
    \/ TurnReleases(t)

AppendStep(a) ==
    \/ AppendEnters(a) \/ AppendClaims(a) \/ AppendChecks(a) \/ AppendWrites(a)
    \/ AppendRecords(a) \/ AppendReleases(a) \/ AppendSettles(a)

Next ==
    \/ \E t \in Turns : \/ \E p \in Procs : TurnStarts(t, p)
                        \/ TurnStep(t) \/ TurnThrows(t) \/ TurnClaimThrows(t)
                        \/ TurnReleaseLost(t) \/ TurnRenews(t)
    \/ \E m \in Msgs : Arrives(m)
    \/ \E a \in Appends : \/ \E p \in Procs, m \in Msgs : AppendStarts(a, p, m)
                          \/ AppendStep(a) \/ AppendThrows(a) \/ AppendReleaseLost(a)
                          \/ AppendRenews(a)
    \/ \E r \in Resets : \/ \E p \in Procs : ResetRetires(r, p)
                         \/ ResetErases(r) \/ ResetCommits(r) \/ ResetThrows(r)
    \/ LeaseExpires \/ WriteExpires \/ LeaseLapses \/ WriteLapses
    \/ \E p \in Procs : Crash(p)

Spec == Init /\ [][Next]_vars

\* Statements return, leases run out, and the scheduler claims due jobs.
Fairness ==
    /\ \A t \in Turns : WF_vars(TurnStep(t)) /\ WF_vars(TurnRenews(t))
    /\ \A a \in Appends : WF_vars(AppendStep(a))
    /\ \A m \in Msgs : SF_vars(\E a \in Appends, p \in Procs : AppendStarts(a, p, m))
    /\ \A r \in Resets : WF_vars(ResetErases(r) \/ ResetCommits(r))
    /\ WF_vars(LeaseExpires) /\ WF_vars(WriteExpires)

LiveSpec == Spec /\ Fairness

---------------------------------------------------------------------------
(* Properties.                                                             *)

\* While a turn holds the thread, from its claim to its release, no append of
\* any process is between its own claim and its own release
\* (thread-claim.ts, WHY THE WRITE CLAIM: the check and the write of an append
\* are not one step, so each side refuses while the other is in).
Holding(t) == turn[t].pc \in {"claimed", "marking", "stamping", "loading",
                              "invoking", "releasing"}
AppendExcludesInvoke ==
    \A t \in Turns, a \in Appends : ~(Holding(t) /\ Working(a))

\* A message the row remembers as ingested is in the thread: no turn's save erased it, no
\* release forgot it (the loss this module exists to stop: undone AND recorded as handled).
\* The one exception is a /reset that deleted the checkpoint and whose transaction has not
\* committed, or never did: the rows outlive what they remember until a /reset goes through
\* (../memory/reset.ts, "What remains is the commit itself").
RememberedIsInThread == threadRow.recorded \subseteq channel \cup torn

\* What the operator was told is cleared never comes back: no message owed
\* before the clear is appended after it, and no turn the command called off
\* saves what it loaded before (webhook.ts, the clear of the agent memory).
ClearedStaysCleared == cleared \cap channel = {}

\* A release ends a hold only of the occupancy its turn joined, however late
\* it comes (clearTurnOwning: a stale release matches nothing).
OnlyItsOwnHold ==
    \A t \in Turns : turn[t].pc = "decrementing" /\ threadRow'.holders < threadRow.holders
                    /\ turn'[t].pc = "done" => turn[t].occ = threadRow.occ
ReleaseEndsItsOwnOccupancy == [][OnlyItsOwnHold]_vars

\* Every message owed to the thread is dealt with: appended, or called off.
OwedIsSettled == \A m \in Msgs : m \in owed ~> m \notin owed

============================================================================
