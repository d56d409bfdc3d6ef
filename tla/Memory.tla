------------------------------- MODULE Memory -------------------------------
(***************************************************************************)
(* The memory of one contact inbox: the raw messages of its thread, the    *)
(* summaries that replace the attendances that ended, the job that writes  *)
(* them (src/src/modules/memory/compact.ts, cut.ts) and the /reset that    *)
(* clears all of it (reset.ts, the memory step of handleResetCommand).     *)
(*                                                                         *)
(* A message is a number, in the order the messages were said; stampOf is  *)
(* the conversation stamped on it (a reply rides with the message it       *)
(* answers, threads older than the stamps are left out).  It enters the    *)
(* thread by an ingestion job, or by a turn that saves what it loaded plus *)
(* its own message.  ThreadClaim has the leases that keep turns and        *)
(* appends apart: here one turn runs at a time and no append lands inside  *)
(* one.  The leader runs the jobs and some turns, replicas other turns;    *)
(* only the leader's share the queue ingest:<thread> with the compaction.  *)
(* Bounds: MaxMsgs messages, MaxResolves resolves, MaxResets commands,     *)
(* MaxFaults crashes, failed or blank summaries, lost transactions.        *)
(***************************************************************************)
EXTENDS Integers, Sequences, FiniteSets, SequencesExt

CONSTANTS Convs,       \* the contact's conversations on this inbox
          TurnsAt,     \* where turns run: "leader", "replica"
          ResetAt,     \* where /reset runs
          LongWaits,   \* whether a turn may wait longer than the grace window of a resolve
          MaxMsgs, MaxResolves, MaxResets, MaxFaults

ASSUME ConstantsAssumption ==
    /\ Convs \subseteq Nat \ {0}
    /\ TurnsAt \subseteq {"leader", "replica"} /\ ResetAt \in {"leader", "replica"}
    /\ MaxMsgs \in Nat /\ MaxResolves \in Nat /\ MaxResets \in Nat /\ MaxFaults \in Nat

VARIABLES stampOf,     \* the messages said so far
          closed,      \* conversations.status = resolved
          queued,      \* messages owed by INGEST_MESSAGE jobs
          body,        \* the raw messages of the checkpoint
          head,        \* the id of its memory head, 0 without one
          gen,         \* the id of the agent_threads row, 0 without one
          marker,      \* AgentThread.lastConversationId, 0 unset
          summaries,   \* attendance_summaries in id order
          compaction,  \* the MEMORY_COMPACT row of the thread
          pass,        \* the run of that job on the leader
          turning,     \* the turn that has or wants the thread
          clearing,    \* a /reset in its memory step
          gone,        \* ghost: what operators were told is cleared
          blank,       \* ghost: messages whose summary came back empty
          torn,        \* ghost: what a reset erased whose commit failed
          resolves, resets, faults, gens

memory == <<body, head, gen, marker, summaries>>
told   == <<gone, blank, torn>>
caps   == <<resolves, resets, faults, gens>>
vars   == <<stampOf, closed, queued, memory, compaction, pass, turning, clearing, told, caps>>

Msgs == 1..MaxMsgs
SummaryType == [conv : {0} \cup Convs, last : Msgs, covers : SUBSET Msgs]

IdlePass == [pc |-> "idle", conv |-> 0, reason |-> "resolved", reopened |-> FALSE, gen |-> 0,
             last |-> 0, head |-> 0, fold |-> <<>>, seg |-> 0, more |-> FALSE, text |-> FALSE]
IdleTurn == [pc |-> "idle", msg |-> 0, at |-> "leader", head |-> 0, snap |-> <<>>]
IdleReset == [pc |-> "idle", revoked |-> {}, taken |-> {}, upto |-> 0]

PassPcs == {"idle", "loading", "draining", "reading", "summarizing", "committing", "entering",
            "rewriting"}
Reasons == {"resolved", "new_attendance"}
JobType == [status : {"none", "pending", "claimed", "done", "dead"}, conv : {0} \cup Convs,
            reason : Reasons]
PassType == [pc : PassPcs, conv : {0} \cup Convs, reason : Reasons, reopened : BOOLEAN, gen : Nat,
             last : {0} \cup Convs, head : {0} \cup Msgs, fold : Seq(Msgs), seg : {0} \cup Convs,
             more : BOOLEAN, text : BOOLEAN]
TurnType == [pc : {"idle", "wanted", "held", "loaded"}, msg : {0} \cup Msgs,
             at : {"leader", "replica"}, head : {0} \cup Msgs, snap : Seq(Msgs)]
ResetType == [pc : {"idle", "checkpoint", "commit", "cancel"}, revoked : SUBSET Msgs,
              taken : SUBSET Msgs, upto : Nat]

TypeOK ==
    /\ stampOf \in Seq(Convs) /\ Len(stampOf) <= MaxMsgs
    /\ closed \subseteq Convs /\ queued \subseteq Msgs
    /\ body \in Seq(Msgs) /\ summaries \in Seq(SummaryType)
    /\ head \in {0} \cup Msgs /\ marker \in {0} \cup Convs /\ gen \in Nat /\ gens \in Nat
    /\ compaction \in JobType /\ pass \in PassType /\ turning \in TurnType /\ clearing \in ResetType
    /\ pass.pc # "idle" => compaction.status \notin {"none", "dead"}
    /\ turning.pc # "idle" => turning.msg \in Msgs
    /\ gone \subseteq Msgs /\ blank \subseteq Msgs /\ torn \subseteq Msgs
    /\ faults \in 0..MaxFaults /\ resets \in 0..MaxResets /\ resolves \in 0..MaxResolves

Init ==
    /\ stampOf = <<>> /\ closed = {} /\ queued = {}
    /\ body = <<>> /\ head = 0 /\ gen = 0 /\ marker = 0 /\ summaries = <<>>
    /\ compaction = [status |-> "none", conv |-> 0, reason |-> "resolved"]
    /\ pass = IdlePass /\ turning = IdleTurn /\ clearing = IdleReset
    /\ gone = {} /\ blank = {} /\ torn = {}
    /\ resolves = 0 /\ resets = 0 /\ faults = 0 /\ gens = 0

Goes(f) == /\ faults < MaxFaults /\ faults' = faults + 1

---------------------------------------------------------------------------
(* Who waits for whom.                                                     *)

\* A /reset holds the FOR UPDATE lock on the row from its check to its commit.
RowLocked == clearing.pc \in {"checkpoint", "commit"}
\* The section ingest:<thread> of the leader: the rewrite, and a /reset that runs there.
SectionFree == pass.pc # "rewriting" /\ ~(RowLocked /\ ResetAt = "leader")
\* turnOwnsThread: the mark of this process and the lease on the row.
TurnOwns == turning.pc \in {"held", "loaded"}

\* armCompaction: the key is the thread, so every arm lands on one row and re-pends it, claimed
\* or not.
Armed(c, why) == [status |-> "pending", conv |-> c, reason |-> why]

\* Taking or making the row for a message of c: a boundary moves the marker and arms the
\* attendance that closed.
EntersThread(c) ==
    /\ gen' = (IF gen = 0 THEN gens + 1 ELSE gen)
    /\ gens' = (IF gen = 0 THEN gens + 1 ELSE gens)
    /\ marker' = c
    /\ compaction' = (IF marker \in Convs \ {c} THEN Armed(marker, "new_attendance")
                                                ELSE compaction)

---------------------------------------------------------------------------
(* What the customer and the operators do.                                 *)

\* A message of c that no turn answers: an INGEST_MESSAGE row.
SaysToIngest(c) ==
    /\ Len(stampOf) < MaxMsgs
    /\ stampOf' = Append(stampOf, c) /\ closed' = closed \ {c}
    /\ queued' = queued \cup {Len(stampOf) + 1}
    /\ UNCHANGED <<memory, compaction, pass, turning, clearing, told, caps>>

\* A message of c that a turn answers.
SaysToTurn(c, at) ==
    /\ Len(stampOf) < MaxMsgs /\ turning.pc = "idle"
    /\ stampOf' = Append(stampOf, c) /\ closed' = closed \ {c}
    /\ turning' = [IdleTurn EXCEPT !.pc = "wanted", !.msg = Len(stampOf) + 1, !.at = at]
    /\ UNCHANGED <<queued, memory, compaction, pass, clearing, told, caps>>

\* The conversation resolves, and the attendance that ended is armed behind its grace window.
Resolves(c) ==
    /\ resolves < MaxResolves /\ resolves' = resolves + 1
    /\ c \in ToSet(stampOf) \ closed
    /\ closed' = closed \cup {c}
    /\ compaction' = Armed(c, "resolved")
    /\ UNCHANGED <<stampOf, queued, memory, pass, turning, clearing, told, resets, faults, gens>>

---------------------------------------------------------------------------
(* The two writers of the thread.                                          *)

\* The turn marks itself inside its process's section and takes the row's lease.
TurnClaims ==
    /\ turning.pc = "wanted" /\ ~RowLocked
    /\ turning.at = "leader" => SectionFree
    /\ turning' = [turning EXCEPT !.pc = "held"]
    /\ EntersThread(stampOf[turning.msg])
    /\ UNCHANGED <<stampOf, closed, queued, body, head, summaries, pass, clearing, told,
                   resolves, resets, faults>>

TurnLoads ==
    /\ turning.pc = "held"
    /\ turning' = [turning EXCEPT !.pc = "loaded", !.head = head, !.snap = body]
    /\ UNCHANGED <<stampOf, closed, queued, memory, compaction, pass, clearing, told, caps>>

\* The invoke saves the channel it loaded plus its own message.
TurnSaves ==
    /\ turning.pc = "loaded"
    /\ body' = Append(turning.snap, turning.msg) /\ head' = turning.head
    /\ turning' = IdleTurn
    /\ UNCHANGED <<stampOf, closed, queued, gen, marker, summaries, compaction, pass, clearing,
                   told, caps>>

\* An ingestion job appends, alone in the section and outside every turn.
Ingests ==
    \E m \in queued :
        /\ \A n \in queued : m <= n
        /\ SectionFree /\ ~RowLocked /\ ~TurnOwns
        /\ queued' = queued \ {m} /\ body' = Append(body, m)
        /\ EntersThread(stampOf[m])
        /\ UNCHANGED <<stampOf, closed, head, summaries, pass, turning, clearing, told,
                       resolves, resets, faults>>

---------------------------------------------------------------------------
(* selectClosedPrefix: where the attendances that are over end.            *)

\* Where the last run of the last conversation starts: one after the last message of another.
LastRunFrom(s) ==
    LET others == {i \in DOMAIN s : stampOf[s[i]] # stampOf[Last(s)]}
    IN  1 + (IF others = {} THEN 0 ELSE CHOOSE i \in others : \A j \in others : j <= i)

\* How much of the body is closed.
NaturalCut(whole) == IF whole \/ body = <<>> THEN Len(body) ELSE LastRunFrom(body) - 1

\* Whether the thread is still on the conversation the job names, asked of the stamps and, in
\* an empty thread, of the marker.
AttendanceIsCurrent ==
    IF body # <<>> THEN stampOf[Last(body)] = pass.conv ELSE pass.last \in {0, pass.conv}

\* The newest summary stands for nothing that is still raw.
NothingOwed == 0

\* How much of the body the newest summary covers while its messages are still there: a run
\* stopped between the row and the rewrite, or a turn undid the rewrite.
OwedUpTo ==
    IF summaries = <<>> \/ Last(summaries).last \notin ToSet(body)
    THEN 0 ELSE CHOOSE i \in DOMAIN body : body[i] = Last(summaries).last

---------------------------------------------------------------------------
(* runCompaction.                                                          *)

\* The outcome written by id alone.
RowEndsAnyway(status) == compaction' = [compaction EXCEPT !.status = status]

\* How a run leaves its row: a row armed again meanwhile keeps its new arm.
RowEnds(status) ==
    compaction' = [compaction EXCEPT !.status = IF @ = "claimed" THEN status ELSE @]
Returns(status) == pass' = IdlePass /\ RowEnds(status)

\* No second run of a row this process still has in flight; a resolve waits out its grace.
CompactionClaims ==
    /\ compaction.status = "pending" /\ pass.pc = "idle"
    /\ compaction.reason = "resolved" /\ turning.pc = "wanted" => LongWaits
    /\ compaction' = [compaction EXCEPT !.status = "claimed"]
    /\ pass' = [IdlePass EXCEPT !.pc = "loading", !.conv = compaction.conv,
                                !.reason = compaction.reason]
    /\ UNCHANGED <<stampOf, closed, queued, memory, turning, clearing, told, caps>>

\* One read: the conversation reopened inside the grace window, and the row that is the
\* thread's generation.
Loads ==
    /\ pass.pc = "loading"
    /\ pass' = [pass EXCEPT !.pc = "draining", !.gen = gen, !.last = marker,
                            !.reopened = pass.reason = "resolved" /\ pass.conv \notin closed]
    /\ UNCHANGED <<stampOf, closed, queued, memory, compaction, turning, clearing, told, caps>>

\* drainPendingIngest ran what it could (Ingests): a thread that still owes something sends
\* the job back, and a thread without a row has nothing of its own.
Drains ==
    /\ pass.pc = "draining"
    /\ \/ queued # {} /\ Returns("pending")
       \/ /\ queued = {}
          /\ LET g == IF pass.gen # 0 THEN pass.gen ELSE gen
             IN  IF g = 0 THEN Returns("done")
                 ELSE /\ pass' = [pass EXCEPT !.pc = "reading", !.gen = g]
                      /\ UNCHANGED compaction
    /\ UNCHANGED <<stampOf, closed, queued, memory, turning, clearing, told, caps>>

\* The cut: what a summary already stands for goes first, and only up to where it ends.
Cuts ==
    /\ pass.pc = "reading"
    /\ LET natural == NaturalCut(~pass.reopened /\ pass.reason = "resolved" /\ AttendanceIsCurrent)
           owed == OwedUpTo
           pending == owed > 0 /\ (pass.reopened \/ owed <= natural)
           upto == IF pending THEN owed ELSE IF pass.reopened THEN 0 ELSE natural
       IN  IF TurnOwns THEN Returns("pending")
           ELSE IF upto = 0 THEN Returns("done")
           ELSE /\ pass' = [pass EXCEPT !.pc = "summarizing", !.head = head,
                              !.fold = SubSeq(body, 1, upto), !.more = pending /\ natural > owed,
                              !.seg = IF pending THEN Last(summaries).conv
                                                 ELSE stampOf[body[upto]]]
                /\ UNCHANGED compaction
    /\ UNCHANGED <<stampOf, closed, queued, memory, turning, clearing, told, caps>>

Described == \E i \in DOMAIN summaries :
    summaries[i].conv = pass.seg /\ summaries[i].last = Last(pass.fold)

\* An existing row is used again; otherwise the model writes one, outside every lock, and may
\* fail (a retry, or the end of the budget) or come back with nothing to keep.
Summarizes ==
    /\ pass.pc = "summarizing"
    /\ \/ pass' = [pass EXCEPT !.pc = "committing", !.text = TRUE] /\ UNCHANGED <<compaction, faults>>
       \/ /\ ~Described /\ Goes("blank")
          /\ pass' = [pass EXCEPT !.pc = "entering", !.text = FALSE] /\ UNCHANGED compaction
       \/ ~Described /\ Goes("fails") /\ Returns("pending")
       \/ ~Described /\ Goes("dies") /\ Returns("dead")
    /\ UNCHANGED <<stampOf, closed, queued, memory, turning, clearing, told, resolves, resets, gens>>

\* The generation fence and the row, in one transaction inside the leader's section.
AnyGeneration == gen # 0
SameGeneration == gen = pass.gen
Commits ==
    /\ pass.pc = "committing" /\ SectionFree
    /\ IF ~SameGeneration THEN Returns("done") /\ UNCHANGED summaries
       ELSE /\ pass' = [pass EXCEPT !.pc = "entering"]
            /\ summaries' = IF Described THEN summaries
                            ELSE Append(summaries, [conv |-> pass.seg, last |-> Last(pass.fold),
                                                    covers |-> ToSet(pass.fold)])
            /\ UNCHANGED compaction
    /\ UNCHANGED <<stampOf, closed, queued, body, head, gen, marker, turning, clearing, told, caps>>

EntersRewrite ==
    /\ pass.pc = "entering" /\ SectionFree
    /\ IF TurnOwns THEN Returns("pending")
       ELSE pass' = [pass EXCEPT !.pc = "rewriting"] /\ UNCHANGED compaction
    /\ UNCHANGED <<stampOf, closed, queued, memory, turning, clearing, told, caps>>

\* What was summarized must still be the front of the channel, the head's id first.
Channel(h, s) == IF h = 0 THEN s ELSE <<h>> \o s
Consumed == Channel(pass.head, pass.fold)
Current  == Channel(head, body)
Unchanged == Len(Consumed) <= Len(Current) /\ SubSeq(Current, 1, Len(Consumed)) = Consumed
\* What stays: the messages that were consumed are removed by id, and ids do not repeat; whatever
\* stands behind them is not named, whenever it arrived.
Kept == SubSeq(Current, Len(Consumed) + 1, Len(Current))

\* The head is rendered from the rows and takes the id of the first message it replaces; with
\* no row at all nothing is left in their place.
Rewrites ==
    /\ pass.pc = "rewriting"
    /\ IF ~Unchanged
       THEN /\ Returns("pending") /\ UNCHANGED <<body, head, blank>>
       ELSE /\ body' = Kept
            /\ head' = (IF summaries = <<>> THEN 0
                        ELSE IF pass.head # 0 THEN pass.head ELSE Head(pass.fold))
            /\ blank' = (IF pass.text THEN blank ELSE blank \cup ToSet(pass.fold))
            /\ Returns(IF pass.more THEN "pending" ELSE "done")
    /\ UNCHANGED <<stampOf, closed, queued, gen, marker, summaries, turning, clearing, gone, torn,
                   caps>>

\* The leader dies: its runs and its turns start again from their rows.
Crash ==
    /\ Goes("crash")
    /\ pass.pc # "idle" \/ (TurnOwns /\ turning.at = "leader")
    /\ Returns("pending")
    /\ turning' = IF turning.at = "leader" /\ TurnOwns THEN [turning EXCEPT !.pc = "wanted"]
                                                       ELSE turning
    /\ UNCHANGED <<stampOf, closed, queued, memory, clearing, told, resolves, resets, gens>>

---------------------------------------------------------------------------
(* The memory step of /reset.                                              *)

\* Inside its own process's section: refused while a turn has the thread.  Queued ingestion is
\* revoked and the rows are deleted, in a transaction that stays open.
ResetStarts ==
    /\ clearing.pc = "idle" /\ resets < MaxResets /\ resets' = resets + 1
    /\ ResetAt = "leader" => pass.pc # "rewriting"
    /\ ~TurnOwns
    /\ clearing' = [pc |-> "checkpoint", revoked |-> queued, taken |-> {}, upto |-> Len(summaries)]
    /\ turning' = IF turning.pc = "wanted" THEN IdleTurn ELSE turning
    /\ gone' = IF turning.pc = "wanted" THEN gone \cup {turning.msg} ELSE gone
    /\ UNCHANGED <<stampOf, closed, queued, memory, compaction, pass, blank, torn, resolves,
                   faults, gens>>

\* The checkpoint first: a failure now loses it under rows that come back.
ResetClearsFirst ==
    /\ clearing.pc = "checkpoint"
    /\ body' = <<>> /\ head' = 0
    /\ \/ clearing' = [clearing EXCEPT !.pc = "commit", !.taken = ToSet(body)] /\ UNCHANGED faults
       \/ Goes("pool") /\ clearing' = IdleReset
    /\ UNCHANGED <<stampOf, closed, queued, gen, marker, summaries, compaction, pass, turning, told,
                   resolves, resets, gens>>

\* The checkpoint goes on another connection; when that fails the rows are still there.
ResetClears ==
    /\ clearing.pc = "checkpoint"
    /\ \/ /\ body' = <<>> /\ head' = 0
          /\ clearing' = [clearing EXCEPT !.pc = "commit", !.taken = ToSet(body)]
          /\ UNCHANGED faults
       \/ Goes("pool") /\ clearing' = IdleReset /\ UNCHANGED <<body, head>>
    /\ UNCHANGED <<stampOf, closed, queued, gen, marker, summaries, compaction, pass, turning, told,
                   resolves, resets, gens>>

\* The commit tells the operator it is done; one that fails brings the rows back without the
\* checkpoint, and says so.
ResetCommits ==
    /\ clearing.pc = "commit"
    /\ \/ /\ queued' = queued \ clearing.revoked
          /\ gen' = 0 /\ marker' = 0
          /\ summaries' = SubSeq(summaries, clearing.upto + 1, Len(summaries))
          /\ gone' = gone \cup clearing.revoked \cup clearing.taken
                \cup UNION {summaries[i].covers : i \in 1..clearing.upto}
          /\ clearing' = [IdleReset EXCEPT !.pc = "cancel"]
          /\ UNCHANGED <<torn, faults>>
       \/ /\ Goes("commit")
          /\ torn' = torn \cup clearing.taken /\ clearing' = IdleReset
          /\ UNCHANGED <<queued, gen, marker, summaries, gone>>
    /\ UNCHANGED <<stampOf, closed, body, head, compaction, pass, turning, blank, resolves, resets,
                   gens>>

\* cancelPendingJob reaches a row that nobody has claimed.
ResetCancels ==
    /\ clearing.pc = "cancel" /\ clearing' = IdleReset
    /\ compaction' = [compaction EXCEPT !.status = IF @ = "pending" THEN "done" ELSE @]
    /\ UNCHANGED <<stampOf, closed, queued, memory, pass, turning, told, caps>>

---------------------------------------------------------------------------

Compacts == CompactionClaims \/ Loads \/ Drains \/ Cuts \/ Summarizes \/ Commits
                \/ EntersRewrite \/ Rewrites
TurnStep == TurnClaims \/ TurnLoads \/ TurnSaves
ResetStep == ResetClears \/ ResetCommits \/ ResetCancels

Next ==
    \/ \E c \in Convs : SaysToIngest(c) \/ Resolves(c) \/ \E at \in TurnsAt : SaysToTurn(c, at)
    \/ TurnStep \/ Ingests \/ Compacts \/ Crash
    \/ ResetStarts \/ ResetStep

Spec == Init /\ [][Next]_vars

\* The scheduler's workers tick while the leader lives, turns end by their timeouts, and a
\* /reset runs through its steps.
Fairness ==
    WF_vars(TurnStep) /\ WF_vars(Ingests) /\ WF_vars(Compacts) /\ WF_vars(ResetStep)
FairSpec == Spec /\ Fairness

---------------------------------------------------------------------------

Covered == UNION {summaries[i].covers : i \in DOMAIN summaries}

\* Whatever defers, crashes, fails or undoes a rewrite, a message that was said is still
\* owed to the thread, in it, or inside a summary, unless a /reset cleared it, its summary came
\* back empty, or a reset's own commit failed after the checkpoint was gone.
Remembered ==
    \A m \in DOMAIN stampOf :
        \/ m \in queued \/ (turning.pc # "idle" /\ turning.msg = m)
        \/ m \in ToSet(body) \/ m \in Covered
        \/ m \in gone \cup blank \cup torn \cup clearing.taken

\* Each attendance is summarized once, from its raw turns (cut.ts): no two summaries cover the
\* same message, although the row is committed before the rewrite, and the rewrite may be put
\* off, fail or be undone while the attendance goes on.
SummarizedOnce ==
    \A i, j \in DOMAIN summaries : i # j => summaries[i].covers \cap summaries[j].covers = {}

\* What a /reset reported as cleared never comes back, in the thread or in a summary: not
\* from a queued append, a turn, or a compaction whose model call it overtook.
ClearedStaysForgotten == gone \cap (queued \cup ToSet(body) \cup Covered) = {}

\* An attendance that ends and stays ended is in the end compacted, unless the job's retries
\* are spent: a deferral, a reopening or an arm that lands under a running job never leaves its
\* raw messages for good.
ClosedIsCompacted ==
    \A c \in Convs :
        <>[](c \in closed) =>
            <>[](compaction.status = "dead" \/ \A i \in DOMAIN body : stampOf[body[i]] # c)
=============================================================================
