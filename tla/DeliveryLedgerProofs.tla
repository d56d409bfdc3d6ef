------------------------ MODULE DeliveryLedgerProofs ------------------------
(***************************************************************************)
(* Proofs about DeliveryLedger, for any deliveries on any routes, any      *)
(* processes and every bound.                                              *)
(*                                                                         *)
(* ObserverRemembers rests on a row saying its role once and for all.  The *)
(* role is written by the claim; a webhook claims a row that says none     *)
(* (PendingUnsaid), a replay one whose role it has read (ReplaysWatch), so *)
(* no claim changes a role that was said, and an attempt at work has the   *)
(* role of its row (ClaimedSay).  An attempt that is an observer comes to  *)
(* the settlement and to the closing of its row through the ingestion only *)
(* (NeverAnswers, Ingested), which remembers the message or finds the      *)
(* observer off or no thread (Seen), and what settles the rows of other    *)
(* deliveries leaves the observers' alone.                                 *)
(*                                                                         *)
(* ReportsEnd rests on who may still write a reported row.  Unless the     *)
(* loss was reported under a live attempt or cut short, no webhook is at   *)
(* work on the row (a row that was reported is never PENDING again), so    *)
(* only its replay may take it out of DEAD without a line, and that one    *)
(* still has to judge what it did.                                         *)
(*                                                                         *)
(* NoQuietLoss rests on who may close a row: a turn or a gate that settled *)
(* with its message fated, an attempt that armed a flush which still       *)
(* reaches it, and nobody else, since the mark a flush starts from has     *)
(* passed over nothing that was not fated (TruthInv).                      *)
(***************************************************************************)
EXTENDS DeliveryLedger, TLAPS

WorldType == /\ sent \in 0..MaxMsgs /\ posts \in [Deliveries -> 0..1 + MaxReposts]
             /\ owner \in {"bot", "human"}
             /\ binding \in [routes : SUBSET Bindings, generation : 0..MaxMoves]
RowsType  == row \in [Deliveries -> RowType]
RunsType  == run \in [Attempts -> RunType]
FlushType == /\ flush \in [armed : BOOLEAN, at : {"idle", "turning", "settling", "correcting"},
                           from : 0..MaxMsgs, upTo : 0..MaxMsgs]
             /\ holds \subseteq Attempts \cup {Burst}
JobsType  == /\ sweep \in [at : {"idle", "arming", "reporting"}, row : Deliveries]
             /\ job \in [Deliveries -> {"none", "armed", "running", "again"}]
MarksType == /\ handled \in 0..MaxMsgs /\ memory \subseteq Msgs /\ unread \subseteq Deliveries
             /\ fate \in [Msgs -> SUBSET {"answered", "decided", "announced", "passed"}]
LinesType == /\ losses \in [Deliveries -> Nat] /\ closings \in [Deliveries -> Nat]
             /\ cut \subseteq Deliveries
UpsetsType == crashes \in 0..MaxCrashes /\ faults \in 0..MaxFaults /\ slow \in 0..MaxSlow

\* A replay that has not claimed its row has an attempt of the row's budget left.
Coming == {"reading", "fencing", "resolving", "claiming"}
Budget == \A d \in Deliveries :
            run[Replay(d)].at \in Coming => row[d].attempts < MaxRecoveries

TypeInv == /\ WorldType /\ RowsType /\ RunsType /\ FlushType /\ JobsType /\ MarksType
           /\ LinesType /\ UpsetsType /\ Budget

\* What an observer's attempt came to: its message is in the memory, or could not be.
Seen == {d \in Deliveries : MsgOf[d] \in memory \/ d \in unread}

PendingUnsaid == \A d \in Deliveries :
    row[d].status \in {"ABSENT", "PENDING"} => row[d].observed = "unsaid"
ReplaysWatch == \A a \in Attempts :
    Replays(a) /\ run[a].at = "claiming" /\ run[a].observer => Row(a).observed = "yes"
ClaimedSay == \A a \in Attempts :
    run[a].at \in Claimed => Row(a).observed = IF run[a].observer THEN "yes" ELSE "no"
NeverAnswers == \A a \in Attempts :
    run[a].at \in {"arming", "turning", "failing"} => ~run[a].observer
Ingested == \A a \in Attempts :
    run[a].at \in {"marking", "settling", "correcting", "closing"} /\ run[a].observer
      => a[1] \in Seen

RolesInv == /\ PendingUnsaid /\ ReplaysWatch /\ ClaimedSay /\ NeverAnswers /\ Ingested
            /\ ObserverRemembers

\* A loss of the row is written, or about to be.
Reported(d) == losses[d] > 0 \/ (sweep.at # "idle" /\ sweep.row = d)
RowReported(d) ==
    /\ Reported(d) => row[d].status \notin {"ABSENT", "PENDING"}
    /\ run[Replay(d)].at = "judging" => row[d].status = "PROCESSED"
    /\ Reported(d) /\ d \notin cut /\ closings[d] = 0 =>
         /\ \A a \in Attempts : a[1] = d /\ ~Replays(a) => run[a].at \notin Attending
         /\ row[d].status = "DEAD" \/ run[Replay(d)].at \in Attending

ReportsInv == \A d \in Deliveries : RowReported(d)

IInv == TypeInv /\ RolesInv /\ ReportsInv

---------------------------------------------------------------------------
(* Operators. *)

LEMMA AttemptParts ==
    \A a \in Attempts : /\ a[1] \in Deliveries /\ a[2] \in Kinds /\ Msg(a) \in Msgs
                        /\ Replays(a) => a = Replay(a[1])
  BY ConstantsAssumption DEF Attempts, Kinds, Replays, Replay, Msg, ConstantsAssumption

LEMMA ReplayParts ==
    \A d \in Deliveries : /\ Replay(d) \in Attempts /\ Replay(d)[1] = d /\ Replays(Replay(d))
  BY DEF Attempts, Kinds, Replays, Replay

LEMMA TypeInvIsTypeOK == TypeInv => TypeOK
  BY DEF TypeInv, TypeOK, WorldType, RowsType, RunsType, FlushType, JobsType, MarksType, LinesType,
         UpsetsType

LEMMA NoRunType ==
    /\ NoRun \in RunType /\ NoRun.at = "idle" /\ ~NoRun.observer
    /\ NoRow \in RowType
<1>1. NoRun \in RunType /\ NoRun.at = "idle" /\ ~NoRun.observer
  BY ConstantsAssumption DEF NoRun, RunType, Stages, Outcomes, ConstantsAssumption
<1>2. NoRow \in RowType
  BY ConstantsAssumption DEF NoRow, RowType, ConstantsAssumption
<1>. QED BY <1>1, <1>2

LEMMA MeaningType ==
    \A o \in Outcomes : Meaning[o] \subseteq {"answered", "decided", "announced", "passed"}
  BY DEF Outcomes, Meaning

---------------------------------------------------------------------------
(* Frames: what a step leaves alone.  Most steps move one attempt.         *)

\* The attempt a goes on as x, by no claim, closing or judgement.
Moves(a, x) ==
    /\ run' = [run EXCEPT ![a] = x]
    /\ row' = row /\ Seen \subseteq Seen'
    /\ UNCHANGED <<sweep, losses, closings, cut>>
    /\ x.at # "judging"
    /\ x.at \in Coming /\ Replays(a) => Row(a).attempts < MaxRecoveries
    /\ x.at = "claiming" /\ x.observer /\ Replays(a) => Row(a).observed = "yes"
    /\ x.at \in Claimed => run[a].at \in Claimed /\ x.observer = run[a].observer
    /\ x.at \in {"arming", "turning", "failing"} => ~x.observer
    /\ x.at \in {"marking", "settling", "correcting", "closing"} /\ x.observer => a[1] \in Seen'
    /\ IF Replays(a) THEN run[a].at \in Attending => x.at \in Attending
                     ELSE x.at \in Attending => run[a].at \in Attending

Calm == row' = row /\ run' = run /\ Seen' = Seen /\ UNCHANGED <<sweep, losses, closings, cut>>

\* What the frames keep.
Core == RowsType /\ RunsType /\ Budget /\ RolesInv /\ ReportsInv

LEMMA CalmKeeps ==
    ASSUME Core, Calm
    PROVE Core'
<1>1. RowsType' /\ RunsType' /\ Budget'
  BY DEF Core, Calm, RowsType, RunsType, Budget
<1>2. RolesInv'
  BY DEF Core, Calm, RolesInv, PendingUnsaid, ReplaysWatch, ClaimedSay, NeverAnswers, Ingested,
         ObserverRemembers, Row, Seen
<1>3. ReportsInv'
  BY DEF Core, Calm, ReportsInv, RowReported, Reported
<1>. QED BY <1>1, <1>2, <1>3 DEF Core

LEMMA MoveKeeps ==
    ASSUME Core, NEW a \in Attempts, NEW x \in RunType, Moves(a, x)
    PROVE Core'
<1>1. /\ run' \in [Attempts -> RunType]
      /\ run'[a] = x /\ \A b \in Attempts : b # a => run'[b] = run[b]
  BY DEF Core, RunsType, Moves
<1>2. row' = row /\ Seen \subseteq Seen' /\ UNCHANGED <<sweep, losses, closings, cut>>
  BY DEF Moves
<1>3. Budget'
  <2>. SUFFICES ASSUME NEW d \in Deliveries, run'[Replay(d)].at \in Coming
                PROVE row[d].attempts < MaxRecoveries
    BY <1>2 DEF Budget
  <2>1. CASE Replay(d) = a
    BY <1>1, <2>1, ReplayParts DEF Moves, Row
  <2>2. CASE Replay(d) # a
    BY <1>1, <2>2, ReplayParts DEF Core, Budget
  <2>. QED BY <2>1, <2>2
<1>4. ASSUME NEW b \in Attempts
      PROVE /\ Replays(b) /\ run'[b].at = "claiming" /\ run'[b].observer => Row(b).observed = "yes"
            /\ run'[b].at \in Claimed
                 => Row(b).observed = IF run'[b].observer THEN "yes" ELSE "no"
            /\ run'[b].at \in {"arming", "turning", "failing"} => ~run'[b].observer
            /\ run'[b].at \in {"marking", "settling", "correcting", "closing"} /\ run'[b].observer
                 => b[1] \in Seen'
  <2>1. CASE b = a
    BY <1>1, <2>1 DEF Core, RolesInv, ClaimedSay, Moves
  <2>2. CASE b # a
    BY <1>1, <1>2, <2>2 DEF Core, RolesInv, ReplaysWatch, ClaimedSay, NeverAnswers, Ingested
  <2>. QED BY <2>1, <2>2
<1>5. RolesInv'
  BY <1>2, <1>4 DEF Core, RolesInv, PendingUnsaid, ReplaysWatch, ClaimedSay, NeverAnswers, Ingested,
                    ObserverRemembers, Row, Msg, Seen
<1>6. ReportsInv'
  <2>. SUFFICES ASSUME NEW d \in Deliveries
                PROVE RowReported(d)'
    BY DEF ReportsInv
  <2>1. RowReported(d)
    BY DEF Core, ReportsInv
  <2>2. run'[Replay(d)].at = "judging" => run[Replay(d)].at = "judging"
    BY <1>1, ReplayParts DEF Moves
  <2>3. run[Replay(d)].at \in Attending => run'[Replay(d)].at \in Attending
    BY <1>1, ReplayParts DEF Moves
  <2>4. \A b \in Attempts : ~Replays(b) /\ run'[b].at \in Attending => run[b].at \in Attending
    BY <1>1 DEF Moves
  <2>. QED BY <1>2, <2>1, <2>2, <2>3, <2>4 DEF RowReported, Reported
<1>. QED BY <1>1, <1>2, <1>3, <1>5, <1>6 DEF Core, RowsType, RunsType

---------------------------------------------------------------------------
(* The steps of an attempt that move it and nothing else.                  *)

LEMMA GoesOn ==
    ASSUME RunsType, NEW a \in Attempts, NEW at \in Stages, Goes(a, at)
    PROVE \E x \in RunType : /\ run' = [run EXCEPT ![a] = x]
                             /\ x.at = at /\ x.observer = run[a].observer
<1>. DEFINE x == [run[a] EXCEPT !.at = at]
<1>1. x \in RunType /\ x.at = at /\ x.observer = run[a].observer
  BY DEF RunsType, RunType
<1>2. run' = [run EXCEPT ![a] = x]
  BY DEF Goes
<1>. QED BY <1>1, <1>2

LEMMA GoesOnWith ==
    ASSUME RunsType, NEW a \in Attempts, NEW at \in Stages, NEW o \in Outcomes,
           run' = [run EXCEPT ![a].at = at, ![a].outcome = o]
    PROVE \E x \in RunType : /\ run' = [run EXCEPT ![a] = x]
                             /\ x.at = at /\ x.observer = run[a].observer
<1>. DEFINE x == [run[a] EXCEPT !.at = at, !.outcome = o]
<1>1. x \in RunType /\ x.at = at /\ x.observer = run[a].observer
  BY DEF RunsType, RunType
<1>2. run' = [run EXCEPT ![a] = x]
  BY DEF RunsType
<1>. QED BY <1>1, <1>2

LEMMA StopsMoves ==
    ASSUME Core, NEW a \in Attempts, Stops(a), Replays(a) => run[a].at \notin Attending,
           UNCHANGED <<row, Seen, sweep, losses, closings, cut>>
    PROVE Moves(a, NoRun)
  BY NoRunType DEF Moves, Stops, Coming, Claimed, Attending

\* The rows and lines stay, the memory may grow.
Still == /\ row' = row /\ Seen \subseteq Seen'
         /\ UNCHANGED <<sweep, losses, closings, cut>>

LEMMA ThrowsKeeps ==
    ASSUME Core, NEW a \in Attempts, Throws(a), Still
    PROVE Core'
<1>1. CASE Replays(a)
  <2>1. run' = [run EXCEPT ![a].at = "restoring", ![a].outcome = "threw"]
    BY <1>1 DEF Throws
  <2>2. PICK x \in RunType : /\ run' = [run EXCEPT ![a] = x]
                             /\ x.at = "restoring" /\ x.observer = run[a].observer
    BY <2>1, GoesOnWith DEF Core, Stages, Around, Outcomes
  <2>3. Moves(a, x)
    BY <1>1, <2>2 DEF Moves, Still, Coming, Claimed, Attending
  <2>. QED BY <2>3, MoveKeeps
<1>2. CASE ~Replays(a)
  <2>1. run' = [run EXCEPT ![a] = NoRun]
    BY <1>2 DEF Throws, Stops
  <2>2. Moves(a, NoRun)
    BY <1>2, <2>1, NoRunType DEF Moves, Still, Coming, Claimed, Attending
  <2>. QED BY <2>2, NoRunType, MoveKeeps
<1>. QED BY <1>1, <1>2

LEMMA ResolveKeeps ==
    ASSUME Core, binding.generation \in 0..MaxMoves, NEW a \in Attempts, Resolve(a)
    PROVE Core'
<1>. DEFINE x == [run[a] EXCEPT !.at = "claiming", !.observer = Watches(a),
                                !.responder = "responder" \in binding.routes,
                                !.generation = binding.generation]
<1>1. Watches(a) \in BOOLEAN /\ ("responder" \in binding.routes) \in BOOLEAN
  BY DEF Watches
<1>2. /\ x \in RunType /\ x.at = "claiming"
      /\ x.observer = Watches(a)
  BY <1>1 DEF Core, RunsType, RunType, Stages, Unclaimed
<1>3. run' = [run EXCEPT ![a] = x] /\ run[a].at = "resolving" /\ Still
  BY DEF Resolve, Still, data, lines, jobs, Seen
<1>4. Replays(a) /\ x.observer => Row(a).observed = "yes"
  BY <1>2 DEF Watches
<1>5. Replays(a) => Row(a).attempts < MaxRecoveries
  BY <1>3, AttemptParts DEF Core, Budget, Coming, Row
<1>6. Moves(a, x)
  <2>. HIDE DEF x
  <2>. QED BY <1>2, <1>3, <1>4, <1>5 DEF Moves, Still, Coming, Claimed, Attending
<1>. QED BY <1>2, <1>6, MoveKeeps

LEMMA SkipKeeps ==
    ASSUME Core, NEW a \in Attempts, Skip(a)
    PROVE Core'
<1>1. Stops(a) /\ run[a].at \notin Attending
  BY DEF Skip, Attending, Claimed
<1>2. UNCHANGED <<row, Seen, sweep, losses, closings, cut>>
  BY DEF Skip, data, lines, Seen
<1>. QED BY <1>1, <1>2, StopsMoves, NoRunType, MoveKeeps

LEMMA DecideKeeps ==
    ASSUME Core, NEW a \in Attempts, Decide(a)
    PROVE Core'
<1>1. run[a].at = "deciding" /\ Still
  BY DEF Decide, Still, data, lines, jobs, Seen
<1>2. CASE run[a].observer /\ Goes(a, "ingesting")
  <2>1. PICK x \in RunType : /\ run' = [run EXCEPT ![a] = x]
                             /\ x.at = "ingesting" /\ x.observer = run[a].observer
    BY <1>2, GoesOn DEF Core, Stages, Claimed
  <2>2. Moves(a, x)
    BY <1>1, <2>1 DEF Moves, Still, Coming, Claimed, Attending
  <2>. QED BY <2>2, MoveKeeps
<1>3. CASE Acts(a) /\ Goes(a, "arming")
  <2>1. PICK x \in RunType : /\ run' = [run EXCEPT ![a] = x]
                             /\ x.at = "arming" /\ x.observer = run[a].observer
    BY <1>3, GoesOn DEF Core, Stages, Claimed
  <2>2. Moves(a, x)
    BY <1>1, <1>3, <2>1 DEF Moves, Still, Coming, Claimed, Attending, Acts
  <2>. QED BY <2>2, MoveKeeps
<1>4. CASE /\ ~run[a].observer
           /\ run' = [run EXCEPT ![a].at = "marking", ![a].outcome = "consumed"]
  <2>1. PICK x \in RunType : /\ run' = [run EXCEPT ![a] = x]
                             /\ x.at = "marking" /\ x.observer = run[a].observer
    BY <1>4, GoesOnWith DEF Core, Stages, Claimed, Outcomes
  <2>2. Moves(a, x)
    BY <1>1, <1>4, <2>1 DEF Moves, Still, Coming, Claimed, Attending
  <2>. QED BY <2>2, MoveKeeps
<1>. QED BY <1>2, <1>3, <1>4 DEF Decide

\* From one place of the claimed half to another.
LEMMA ClaimedOn ==
    ASSUME Core, NEW a \in Attempts, NEW x \in RunType, run' = [run EXCEPT ![a] = x], Still,
           run[a].at \in Claimed, x.at \in Claimed, x.observer = run[a].observer,
           x.at \in {"arming", "turning", "failing"} => ~x.observer,
           x.at \in {"marking", "settling", "correcting", "closing"} /\ x.observer => a[1] \in Seen'
    PROVE Core'
<1>1. Moves(a, x)
  BY DEF Moves, Still, Coming, Claimed, Attending
<1>. QED BY <1>1, MoveKeeps

LEMMA GoesClaimed ==
    ASSUME Core, NEW a \in Attempts, NEW at \in Claimed, Goes(a, at), Still, run[a].at \in Claimed,
           at \in {"arming", "turning", "failing"} => ~run[a].observer,
           at \in {"marking", "settling", "correcting", "closing"} /\ run[a].observer
             => a[1] \in Seen'
    PROVE Core'
<1>1. PICK x \in RunType : /\ run' = [run EXCEPT ![a] = x]
                           /\ x.at = at /\ x.observer = run[a].observer
  BY GoesOn DEF Core, Stages
<1>. QED BY <1>1, ClaimedOn

LEMMA ArmKeeps ==
    ASSUME Core, NEW a \in Attempts, Arm(a) \/ ArmFails(a)
    PROVE Core'
<1>1. run[a].at = "arming" /\ Still
  BY DEF Arm, ArmFails, Still, data, lines, jobs, Seen
<1>2. ~run[a].observer
  BY <1>1 DEF Core, RolesInv, NeverAnswers
<1>3. Goes(a, "closing") \/ Goes(a, "turning")
  BY DEF Arm, ArmFails
<1>. QED BY <1>1, <1>2, <1>3, GoesClaimed DEF Claimed

LEMMA TurnEndsKeeps ==
    ASSUME Core, NEW a \in Attempts, TurnEnds(a)
    PROVE Core'
<1>1. run[a].at = "turning" /\ Still
  BY DEF TurnEnds, Still, data, lines, jobs, Seen
<1>2. ~run[a].observer
  BY <1>1 DEF Core, RolesInv, NeverAnswers
<1>3. PICK o \in TurnOutcomes(a) :
        run' = [run EXCEPT ![a].outcome = o,
                           ![a].at = IF o = "threw" THEN "failing" ELSE "settling"]
  BY DEF TurnEnds
<1>. DEFINE at == IF o = "threw" THEN "failing" ELSE "settling"
<1>4. o \in Outcomes /\ at \in Claimed /\ at \in Stages
  BY DEF TurnOutcomes, Outcomes, Claimed, Stages
<1>5. run' = [run EXCEPT ![a].at = at, ![a].outcome = o]
  BY <1>3 DEF Core, RunsType
<1>. HIDE DEF at
<1>6. PICK x \in RunType : /\ run' = [run EXCEPT ![a] = x]
                           /\ x.at = at /\ x.observer = run[a].observer
  BY <1>4, <1>5, GoesOnWith DEF Core
<1>7. run[a].at \in Claimed
  BY <1>1 DEF Claimed
<1>. QED BY <1>1, <1>2, <1>4, <1>6, <1>7, ClaimedOn

LEMMA AnnounceKeeps ==
    ASSUME Core, NEW a \in Attempts, Announce(a)
    PROVE Core'
<1>1. run[a].at = "failing" /\ Still /\ Goes(a, "closing")
  BY DEF Announce, Still, data, lines, jobs, Seen
<1>2. ~run[a].observer
  BY <1>1 DEF Core, RolesInv, NeverAnswers
<1>. QED BY <1>1, <1>2, GoesClaimed DEF Claimed

LEMMA IngestKeeps ==
    ASSUME Core, NEW a \in Attempts, Ingest(a)
    PROVE Core'
<1>1. PICK o \in {"ingested", "off", "threadless"} :
        LET kept == o = "ingested" IN
        /\ memory' = IF kept THEN memory \cup {Msg(a)} ELSE memory
        /\ unread' = IF kept THEN unread ELSE unread \cup {a[1]}
        /\ run' = [run EXCEPT ![a].at = IF kept THEN "marking" ELSE "closing", ![a].outcome = o]
  BY DEF Ingest
<1>2. run[a].at = "ingesting" /\ row' = row /\ UNCHANGED <<sweep, losses, closings, cut>>
  BY DEF Ingest, lines, jobs
<1>3. Seen \subseteq Seen' /\ a[1] \in Seen'
  BY <1>1, AttemptParts DEF Seen, Msg
<1>. DEFINE at == IF o = "ingested" THEN "marking" ELSE "closing"
<1>4. o \in Outcomes /\ at \in {"marking", "closing"} /\ at \in Stages
  BY <1>1 DEF Outcomes, Stages, Claimed
<1>5. run' = [run EXCEPT ![a].at = at, ![a].outcome = o]
  BY <1>1
<1>. HIDE DEF at
<1>6. PICK x \in RunType : /\ run' = [run EXCEPT ![a] = x]
                           /\ x.at = at /\ x.observer = run[a].observer
  BY <1>4, <1>5, GoesOnWith DEF Core
<1>. QED BY <1>2, <1>3, <1>4, <1>6, ClaimedOn DEF Claimed, Still

LEMMA FailsKeeps ==
    ASSUME Core, NEW a \in Attempts, ResolutionFails(a) \/ IngestFails(a) \/ CloseFails(a)
    PROVE Core'
<1>1. Throws(a) /\ Still
  BY DEF ResolutionFails, IngestFails, CloseFails, Still, data, lines, jobs, Seen
<1>. QED BY <1>1, ThrowsKeeps

LEMMA MarkKeeps ==
    ASSUME Core, NEW a \in Attempts, Mark(a) \/ MarkFails(a)
    PROVE Core'
<1>1. run[a].at = "marking" /\ Still
  BY DEF Mark, MarkFails, Still, data, lines, jobs, Seen
<1>2. run[a].observer => a[1] \in Seen'
  BY <1>1 DEF Core, RolesInv, Ingested, Still
<1>3. Goes(a, "settling") \/ Throws(a)
  BY DEF Mark, MarkFails
<1>. QED BY <1>1, <1>2, <1>3, GoesClaimed, ThrowsKeeps DEF Claimed

LEMMA SettleFailsKeeps ==
    ASSUME Core, NEW a \in Attempts, SettleFails(a)
    PROVE Core'
<1>1. run[a].at \in {"settling", "correcting"} /\ Still /\ Goes(a, "closing")
  BY DEF SettleFails, Still, data, lines, jobs, Seen
<1>2. run[a].observer => a[1] \in Seen'
  BY <1>1 DEF Core, RolesInv, Ingested, Still
<1>. QED BY <1>1, <1>2, GoesClaimed DEF Claimed

---------------------------------------------------------------------------
(* The steps of a recovery before its claim.                               *)

LEMMA RecoveryStartsKeeps ==
    ASSUME Core, NEW d \in Deliveries, RecoveryStarts(d)
    PROVE Core'
<1>1. /\ run[Replay(d)].at = "idle" /\ row' = row /\ Seen' = Seen
      /\ UNCHANGED <<sweep, losses, closings, cut>>
  BY DEF RecoveryStarts, data, lines, Seen
<1>2. CASE run' = run
  BY <1>1, <1>2, CalmKeeps DEF Calm
<1>3. CASE /\ run' = [run EXCEPT ![Replay(d)] = [NoRun EXCEPT !.at = "reading"]] /\ ~Spent(d)
  <2>. DEFINE x == [NoRun EXCEPT !.at = "reading"]
  <2>1. x \in RunType /\ x.at = "reading"
    BY NoRunType DEF RunType, Stages, Around
  <2>2. row[d].attempts < MaxRecoveries
    BY <1>3, ConstantsAssumption DEF Core, RowsType, RowType, Spent, ConstantsAssumption
  <2>3. run' = [run EXCEPT ![Replay(d)] = x]
    BY <1>3
  <2>4. Moves(Replay(d), x)
    <3>. HIDE DEF x
    <3>. QED BY <1>1, <2>1, <2>2, <2>3, ReplayParts DEF Moves, Row, Coming, Claimed, Attending
  <2>. QED BY <2>1, <2>4, ReplayParts, MoveKeeps
<1>. QED BY <1>2, <1>3 DEF RecoveryStarts

\* A replay that gives up before it claims.
LEMMA GivesUpKeeps ==
    ASSUME Core, NEW d \in Deliveries, Stops(Replay(d)), run[Replay(d)].at \in Coming,
           UNCHANGED <<row, Seen, sweep, losses, closings, cut>>
    PROVE Core'
<1>1. run[Replay(d)].at \notin Attending
  BY DEF Coming, Attending, Claimed
<1>. QED BY <1>1, StopsMoves, NoRunType, MoveKeeps, ReplayParts

\* A replay that goes on before it claims.
LEMMA ComesKeeps ==
    ASSUME Core, NEW d \in Deliveries, NEW at \in {"fencing", "resolving"}, Goes(Replay(d), at),
           run[Replay(d)].at \in Coming, Still
    PROVE Core'
<1>1. PICK x \in RunType : /\ run' = [run EXCEPT ![Replay(d)] = x]
                           /\ x.at = at /\ x.observer = run[Replay(d)].observer
  BY GoesOn, ReplayParts DEF Core, Stages, Unclaimed, Around
<1>2. row[d].attempts < MaxRecoveries
  BY DEF Core, Budget
<1>3. Moves(Replay(d), x)
  BY <1>1, <1>2, ReplayParts DEF Moves, Still, Row, Coming, Claimed, Attending
<1>. QED BY <1>1, <1>3, ReplayParts, MoveKeeps

LEMMA RecoveryReadsKeeps ==
    ASSUME Core, NEW d \in Deliveries, RecoveryReads(d) \/ RecoveryFences(d)
    PROVE Core'
<1>1. /\ run[Replay(d)].at \in Coming
      /\ UNCHANGED <<row, Seen, sweep, losses, closings, cut>>
  BY DEF RecoveryReads, RecoveryFences, Coming, data, lines, Seen
<1>2. Goes(Replay(d), "fencing") \/ Goes(Replay(d), "resolving") \/ Stops(Replay(d))
  BY DEF RecoveryReads, RecoveryFences
<1>. QED BY <1>1, <1>2, GivesUpKeeps, ComesKeeps DEF Still

---------------------------------------------------------------------------
(* The steps that write the rows.                                          *)

\* What RolesInv says of one attempt.
Fits(a) ==
    /\ Replays(a) /\ run[a].at = "claiming" /\ run[a].observer => Row(a).observed = "yes"
    /\ run[a].at \in Claimed => Row(a).observed = IF run[a].observer THEN "yes" ELSE "no"
    /\ run[a].at \in {"arming", "turning", "failing"} => ~run[a].observer
    /\ run[a].at \in {"marking", "settling", "correcting", "closing"} /\ run[a].observer
         => a[1] \in Seen

\* A role is said once; a row that becomes PROCESSED is no observer's or is
\* remembered.
LEMMA RolesFrame ==
    ASSUME RolesInv, Seen \subseteq Seen',
           \A d \in Deliveries :
             /\ \/ row'[d].observed = row[d].observed
                \/ /\ row[d].observed = "unsaid"
                   /\ row'[d].status \notin {"ABSENT", "PENDING", "PROCESSED"}
             /\ row'[d].status \in {"ABSENT", "PENDING"} => row[d].status \in {"ABSENT", "PENDING"}
             /\ row'[d].status = "PROCESSED" =>
                  row[d].status = "PROCESSED" \/ row[d].observed # "yes" \/ d \in Seen,
           \A a \in Attempts : run'[a] = run[a] \/ Fits(a)'
    PROVE RolesInv'
<1>1. \A a \in Attempts : Fits(a)'
  <2>. SUFFICES ASSUME NEW a \in Attempts, run'[a] = run[a] PROVE Fits(a)'
    OBVIOUS
  <2>1. /\ run[a].at \in Claimed => Row(a).observed # "unsaid"
        /\ Row(a)'.observed = Row(a).observed \/ Row(a).observed = "unsaid"
    BY AttemptParts DEF RolesInv, ClaimedSay, Row
  <2>2. Fits(a)
    BY DEF Fits, RolesInv, ReplaysWatch, ClaimedSay, NeverAnswers, Ingested
  <2>3. Replays(a) /\ run[a].at = "claiming" /\ run[a].observer => Row(a)'.observed = "yes"
    BY <2>1, <2>2 DEF Fits
  <2>. QED BY <2>1, <2>2, <2>3 DEF Fits, Msg
<1>2. PendingUnsaid' /\ ObserverRemembers'
  BY DEF RolesInv, PendingUnsaid, ObserverRemembers, Seen
<1>3. ReplaysWatch' /\ ClaimedSay' /\ NeverAnswers' /\ Ingested'
  BY <1>1 DEF Fits, ReplaysWatch, ClaimedSay, NeverAnswers, Ingested
<1>. QED BY <1>2, <1>3 DEF RolesInv

LEMMA ReportsFrame ==
    ASSUME NEW d \in Deliveries, RowReported(d),
           Reported(d)' => Reported(d), d \in cut => d \in cut',
           closings'[d] = 0 => closings[d] = 0,
           \/ row'[d].status = row[d].status
           \/ row[d].status # "DEAD" /\ row'[d].status = "PROCESSED"
           \/ closings'[d] # 0 /\ row'[d].status = "PROCESSED",
           run'[Replay(d)].at = "judging" =>
             run[Replay(d)].at = "judging" \/ row'[d].status = "PROCESSED",
           run[Replay(d)].at \in Attending => run'[Replay(d)].at \in Attending,
           \A a \in Attempts : a[1] = d /\ ~Replays(a) /\ run'[a].at \in Attending
                                 => run[a].at \in Attending
    PROVE RowReported(d)'
  BY DEF RowReported

\* A step that moves no attempt and no line, and spares no row its budget.
LEMMA RowsKeep ==
    ASSUME Core, row' \in [Deliveries -> RowType], run' = run, Seen \subseteq Seen',
           \A d \in Deliveries : row'[d].attempts = row[d].attempts
    PROVE RowsType' /\ RunsType' /\ Budget' /\ \A a \in Attempts : run'[a] = run[a]
  BY DEF Core, RowsType, RunsType, Budget

LEMMA AgesKeeps ==
    ASSUME Core, NEW d \in Deliveries, Ages(d)
    PROVE Core'
<1>1. /\ row' = [row EXCEPT ![d].stale = TRUE] /\ run' = run /\ Seen' = Seen
      /\ UNCHANGED <<sweep, losses, closings, cut>>
  BY DEF Ages, jobs, lines, Seen
<1>2. /\ row' \in [Deliveries -> RowType]
      /\ \A e \in Deliveries : /\ row'[e].attempts = row[e].attempts
                               /\ row'[e].observed = row[e].observed
                               /\ row'[e].status = row[e].status
  BY <1>1 DEF Core, RowsType, RowType
<1>3. RolesInv'
  BY <1>1, <1>2, RolesFrame DEF Core
<1>4. ReportsInv'
  BY <1>1, <1>2 DEF Core, ReportsInv, RowReported, Reported
<1>. QED BY <1>1, <1>2, <1>3, <1>4, RowsKeep DEF Core

LEMMA ReceivesKeeps ==
    ASSUME Core, binding.generation \in 0..MaxMoves,
           NEW d \in Deliveries, NEW k \in Kinds, NEW p \in Procs, Receives(d, k, p)
    PROVE Core'
<1>. DEFINE x == [NoRun EXCEPT !.at = "resolving", !.proc = p]
            n == IF row[d].status # "ABSENT" THEN row[d]
                 ELSE [NoRow EXCEPT !.status = "PENDING", !.generation = binding.generation]
            a == <<d, k>>
<1>1. /\ a \in Attempts /\ ~Replays(a) /\ run[a].at = "idle" /\ a[1] = d
      /\ Seen' = Seen /\ UNCHANGED <<sweep, losses, closings, cut>>
  BY DEF Receives, Replays, Attempts, jobs, lines, Seen
<1>2. /\ x \in RunType /\ x.at = "resolving"
  BY NoRunType DEF RunType, Stages, Unclaimed
<1>3. /\ n \in RowType
      /\ row[d].status # "ABSENT" => n = row[d]
      /\ row[d].status = "ABSENT" => n.status = "PENDING" /\ n.observed = "unsaid" /\ n.attempts = 0
  BY NoRunType DEF Core, RowsType, RowType, NoRow
<1>4. row' = [row EXCEPT ![d] = n] /\ run' = [run EXCEPT ![a] = x]
  BY DEF Receives, Core, RowsType
<1>. HIDE DEF x, n, a
<1>5. /\ row' \in [Deliveries -> RowType] /\ row'[d] = n
      /\ \A e \in Deliveries : e # d => row'[e] = row[e]
      /\ run' \in [Attempts -> RunType] /\ run'[a] = x
      /\ \A b \in Attempts : b # a => run'[b] = run[b]
  BY <1>1, <1>2, <1>3, <1>4 DEF Core, RowsType, RunsType
<1>6. Fits(a)'
  BY <1>2, <1>5 DEF Fits, Claimed
<1>7. \A e \in Deliveries :
        /\ row'[e].observed = row[e].observed
        /\ row'[e].status \in {"ABSENT", "PENDING"} => row[e].status \in {"ABSENT", "PENDING"}
        /\ row'[e].status = "PROCESSED" => row[e].status = "PROCESSED"
        /\ row[e].status # "ABSENT" => row'[e] = row[e]
        /\ row[e].status = "ABSENT" => row'[e] = row[e] \/ row'[e].attempts = 0
  BY <1>3, <1>5 DEF Core, RolesInv, PendingUnsaid
<1>8. RolesInv'
  BY <1>1, <1>5, <1>6, <1>7, RolesFrame DEF Core
<1>9. \A e \in Deliveries : run'[Replay(e)] = run[Replay(e)]
  BY <1>1, <1>5, ReplayParts
<1>10. Budget'
  <2>. SUFFICES ASSUME NEW e \in Deliveries, run[Replay(e)].at \in Coming
                PROVE row'[e].attempts < MaxRecoveries
    BY <1>9 DEF Budget
  <2>1. row[e].attempts < MaxRecoveries /\ row[e].attempts \in 0..MaxRecoveries
    BY DEF Core, Budget, RowsType, RowType
  <2>. QED BY <1>7, <2>1, ConstantsAssumption DEF ConstantsAssumption
<1>11. ReportsInv'
  <2>. SUFFICES ASSUME NEW e \in Deliveries PROVE RowReported(e)'
    BY DEF ReportsInv
  <2>1. RowReported(e) /\ (Reported(e)' <=> Reported(e))
    BY <1>1 DEF Core, ReportsInv, Reported
  <2>2. CASE row[e].status = "ABSENT"
    <3>1. ~Reported(e)' /\ run'[Replay(e)].at # "judging"
      BY <1>9, <2>1, <2>2 DEF RowReported
    <3>. QED BY <3>1 DEF RowReported
  <2>3. CASE row[e].status # "ABSENT"
    <3>1. row'[e] = row[e]
      BY <1>7, <2>3
    <3>2. \A b \in Attempts : ~Replays(b) /\ run'[b].at \in Attending => run[b].at \in Attending
      BY <1>2, <1>5 DEF Attending, Claimed
    <3>. QED BY <1>1, <1>9, <2>1, <3>1, <3>2, ReportsFrame
  <2>. QED BY <2>2, <2>3
<1>. QED BY <1>5, <1>8, <1>10, <1>11 DEF Core, RowsType, RunsType

LEMMA ClaimKeeps ==
    ASSUME Core, NEW a \in Attempts, Claim(a)
    PROVE Core'
<1>. DEFINE d == a[1]
            n == [row[d] EXCEPT !.status = "PROCESSING", !.stale = FALSE,
                                !.observed = IF run[a].observer THEN "yes" ELSE "no",
                                !.attempts = AttemptsAfter(a)]
            x == [run[a] EXCEPT !.at = "deciding", !.generation = 0]
<1>1. /\ run[a].at = "claiming" /\ Claims(a) /\ Seen' = Seen
      /\ row' = [row EXCEPT ![d] = n] /\ run' = [run EXCEPT ![a] = x]
      /\ UNCHANGED <<sweep, losses, closings, cut>>
  BY DEF Claim, Core, RowsType, RunsType, jobs, lines, Seen
<1>2. d \in Deliveries /\ row[d] \in RowType /\ run[a] \in RunType
  BY AttemptParts DEF Core, RowsType, RunsType
<1>3. ~Replays(a) => AttemptsAfter(a) = row[d].attempts
  BY DEF AttemptsAfter, Row
<1>4. AttemptsAfter(a) \in 0..MaxRecoveries
  <2>1. CASE Replays(a)
    <3>1. row[d].attempts < MaxRecoveries
      BY <1>1, <1>2, <2>1, AttemptParts DEF Core, Budget, Coming
    <3>2. AttemptsAfter(a) = row[d].attempts + 1 /\ row[d].attempts \in 0..MaxRecoveries
      BY <1>2, <2>1 DEF AttemptsAfter, Row, RowType
    <3>. QED BY <3>1, <3>2, ConstantsAssumption DEF ConstantsAssumption
  <2>2. CASE ~Replays(a)
    BY <1>2, <2>2 DEF AttemptsAfter, Row, RowType
  <2>. QED BY <2>1, <2>2
<1>5. /\ n \in RowType /\ n.status = "PROCESSING"
      /\ n.observed = IF run[a].observer THEN "yes" ELSE "no"
      /\ ~Replays(a) => n.attempts = row[d].attempts
  BY <1>2, <1>3, <1>4 DEF RowType
<1>6. /\ x \in RunType /\ x.at = "deciding" /\ x.observer = run[a].observer
  <2>1. 0 \in 0..MaxMoves /\ "deciding" \in Stages
    BY ConstantsAssumption DEF Stages, Claimed, ConstantsAssumption
  <2>. QED BY <1>2, <2>1 DEF RunType
<1>. HIDE DEF n, x, d
<1>7. /\ row' \in [Deliveries -> RowType] /\ row'[d] = n
      /\ \A e \in Deliveries : e # d => row'[e] = row[e]
      /\ run' \in [Attempts -> RunType] /\ run'[a] = x
      /\ \A b \in Attempts : b # a => run'[b] = run[b]
  BY <1>1, <1>2, <1>5, <1>6 DEF Core, RowsType, RunsType
\* A role that was said is said again.
<1>8. n.observed = row[d].observed \/ row[d].observed = "unsaid"
  <2>1. CASE Replays(a)
    <3>1. row[d].observed = "yes" => run[a].observer
      BY <1>1, <2>1 DEF Claims, Row, d
    <3>2. run[a].observer => row[d].observed = "yes"
      BY <1>1, <2>1 DEF Core, RolesInv, ReplaysWatch, Row, d
    <3>3. row[d].observed \in {"unsaid", "yes", "no"}
      BY <1>2 DEF RowType
    <3>. QED BY <1>5, <3>1, <3>2, <3>3
  <2>2. CASE ~Replays(a)
    BY <1>1, <1>2, <2>2 DEF Core, RolesInv, PendingUnsaid, Claims, Row, d
  <2>. QED BY <2>1, <2>2
<1>9. Fits(a)'
  BY <1>5, <1>6, <1>7 DEF Fits, Row, d
<1>10. RolesInv'
  <2>1. \A e \in Deliveries :
          /\ \/ row'[e].observed = row[e].observed
             \/ /\ row[e].observed = "unsaid"
                /\ row'[e].status \notin {"ABSENT", "PENDING", "PROCESSED"}
          /\ row'[e].status \in {"ABSENT", "PENDING"} => row[e].status \in {"ABSENT", "PENDING"}
          /\ row'[e].status = "PROCESSED" => row[e].status = "PROCESSED"
    BY <1>5, <1>7, <1>8
  <2>. QED BY <1>1, <1>7, <1>9, <2>1, RolesFrame DEF Core
<1>11. Budget'
  <2>. SUFFICES ASSUME NEW e \in Deliveries, run'[Replay(e)].at \in Coming
                PROVE row'[e].attempts < MaxRecoveries
    BY DEF Budget
  <2>1. Replay(e) # a
    BY <1>6, <1>7 DEF Coming
  <2>2. row[e].attempts < MaxRecoveries
    BY <1>7, <2>1, ReplayParts DEF Core, Budget
  <2>3. CASE e = d
    <3>1. ~Replays(a)
      BY <2>1, <2>3, AttemptParts DEF d
    <3>. QED BY <1>5, <1>7, <2>2, <2>3, <3>1
  <2>4. CASE e # d
    BY <1>7, <2>2, <2>4
  <2>. QED BY <2>3, <2>4
<1>12. ReportsInv'
  <2>. SUFFICES ASSUME NEW e \in Deliveries PROVE RowReported(e)'
    BY DEF ReportsInv
  <2>1. RowReported(e) /\ (Reported(e)' <=> Reported(e))
    BY <1>1 DEF Core, ReportsInv, Reported
  <2>2. CASE e # d
    <3>1. row'[e] = row[e] /\ run'[Replay(e)] = run[Replay(e)]
      BY <1>7, <2>2, ReplayParts DEF d
    <3>2. \A b \in Attempts : b[1] = e => run'[b] = run[b]
      BY <1>7, <2>2 DEF d
    <3>. QED BY <1>1, <2>1, <3>1, <3>2, ReportsFrame
  <2>3. CASE e = d /\ Replays(a)
    <3>1. Replay(e) = a /\ row'[e] = n
      BY <1>7, <2>3, AttemptParts DEF d
    <3>2. run'[a].at \in Attending /\ run'[a].at # "judging"
      BY <1>6, <1>7 DEF Attending, Claimed
    <3>3. \A b \in Attempts : ~Replays(b) => run'[b] = run[b]
      BY <1>7, <2>3
    <3>. QED BY <1>1, <1>5, <2>1, <3>1, <3>2, <3>3 DEF RowReported
  \* A webhook claims a row that was never reported.
  <2>4. CASE e = d /\ ~Replays(a)
    <3>1. row[e].status = "PENDING"
      BY <1>1, <2>4 DEF Claims, Row, d
    <3>2. ~Reported(e)' /\ run'[Replay(e)] = run[Replay(e)]
      BY <1>7, <2>1, <2>4, <3>1, ReplayParts DEF RowReported
    <3>3. run'[Replay(e)].at # "judging"
      BY <2>1, <3>1, <3>2 DEF RowReported
    <3>. QED BY <3>2, <3>3 DEF RowReported
  <2>. QED BY <2>2, <2>3, <2>4
<1>. QED BY <1>7, <1>10, <1>11, <1>12 DEF Core, RowsType, RunsType

LEMMA SweepTakesKeeps ==
    ASSUME Core, JobsType, NEW d \in Deliveries, SweepTakes(d)
    PROVE Core'
<1>1. /\ row' = [row EXCEPT ![d].status = "DEAD"] /\ run' = run /\ Seen' = Seen
      /\ sweep.at = "idle" /\ sweep' = [at |-> "arming", row |-> d]
      /\ row[d].status \in {"PENDING", "PROCESSING"}
      /\ UNCHANGED <<losses, closings>> /\ cut' = IF Attended(d) THEN cut \cup {d} ELSE cut
  BY DEF SweepTakes, Stranded, Seen
<1>2. /\ row' \in [Deliveries -> RowType]
      /\ \A e \in Deliveries : /\ row'[e].attempts = row[e].attempts
                               /\ row'[e].observed = row[e].observed
                               /\ e # d => row'[e].status = row[e].status
      /\ row'[d].status = "DEAD"
  BY <1>1 DEF Core, RowsType, RowType
<1>3. RolesInv'
  BY <1>1, <1>2, RolesFrame DEF Core
<1>4. ReportsInv'
  <2>. SUFFICES ASSUME NEW e \in Deliveries PROVE RowReported(e)'
    BY DEF ReportsInv
  <2>1. RowReported(e)
    BY DEF Core, ReportsInv
  <2>2. CASE e # d
    <3>1. row'[e].status = row[e].status
      BY <1>2, <2>2
    <3>2. e \in cut => e \in cut'
      BY <1>1
    <3>3. Reported(e)' => Reported(e)
      BY <1>1, <2>2 DEF Reported
    <3>. QED BY <1>1, <2>1, <3>1, <3>2, <3>3, ReportsFrame
  <2>3. CASE e = d
    <3>1. run[Replay(d)].at # "judging"
      BY <1>1, <2>1, <2>3 DEF RowReported
    <3>2. d \notin cut' => \A a \in Attempts : a[1] = d => run[a].at \notin Attending
      BY <1>1 DEF Attended, Attempts
    <3>. QED BY <1>1, <1>2, <2>3, <3>1, <3>2 DEF RowReported
  <2>. QED BY <2>2, <2>3
<1>. QED BY <1>1, <1>2, <1>3, <1>4, RowsKeep DEF Core

LEMMA SweepGoesOnKeeps ==
    ASSUME Core, LinesType, JobsType, SweepArms \/ SweepReports
    PROVE Core'
<1>1. /\ row' = row /\ run' = run /\ Seen' = Seen /\ UNCHANGED <<closings, cut>>
      /\ sweep.at \in {"arming", "reporting"} /\ sweep.row \in Deliveries
  BY DEF SweepArms, SweepReports, JobsType, data, lines, Seen
<1>2. RowsType' /\ RunsType' /\ Budget'
  BY <1>1 DEF Core, RowsType, RunsType, Budget
<1>3. RolesInv'
  BY <1>1 DEF Core, RolesInv, PendingUnsaid, ReplaysWatch, ClaimedSay, NeverAnswers, Ingested,
              ObserverRemembers, Row, Seen
<1>4. \A d \in Deliveries : Reported(d)' => Reported(d)
  <2>1. CASE SweepArms
    BY <1>1, <2>1 DEF SweepArms, Reported, lines, JobsType
  <2>2. CASE SweepReports
    BY <1>1, <2>2 DEF SweepReports, Reported, LinesType, JobsType
  <2>. QED BY <2>1, <2>2
<1>5. ReportsInv'
  BY <1>1, <1>4, ReportsFrame DEF Core, ReportsInv
<1>. QED BY <1>2, <1>3, <1>5 DEF Core

---------------------------------------------------------------------------
(* The settlement, the correction and the closing.                         *)

\* Rows become PROCESSED that are no observer's or are remembered, a DEAD one
\* with its line, and an attempt may go on in its claimed half.
LEMMA WritesKeep ==
    ASSUME Core, row' \in [Deliveries -> RowType], run' \in [Attempts -> RunType],
           Seen' = Seen, UNCHANGED <<sweep, losses, cut>>,
           \A d \in Deliveries :
             /\ row'[d].attempts = row[d].attempts /\ row'[d].observed = row[d].observed
             /\ closings'[d] = 0 => closings[d] = 0
             /\ \/ row'[d].status = row[d].status
                \/ /\ row'[d].status = "PROCESSED"
                   /\ row[d].observed # "yes" \/ d \in Seen
                   /\ row[d].status # "DEAD" \/ closings'[d] # 0,
           \A a \in Attempts :
             \/ run'[a] = run[a]
             \/ /\ run[a].at \in Claimed /\ run'[a].at \in {"correcting", "closing"}
                /\ run'[a].observer = run[a].observer
                /\ run[a].observer => a[1] \in Seen
    PROVE Core'
<1>1. \A a \in Attempts : run'[a] = run[a] \/ Fits(a)'
  <2>. SUFFICES ASSUME NEW a \in Attempts, run'[a] # run[a] PROVE Fits(a)'
    OBVIOUS
  <2>1. Row(a).observed = IF run[a].observer THEN "yes" ELSE "no"
    BY DEF Core, RolesInv, ClaimedSay
  <2>2. Row(a)'.observed = Row(a).observed
    BY AttemptParts DEF Row
  <2>. QED BY <2>1, <2>2 DEF Fits, Msg
<1>2. RolesInv'
  BY <1>1, RolesFrame DEF Core
<1>3. Budget'
  <2>1. \A d \in Deliveries :
          run'[Replay(d)].at \in Coming => run'[Replay(d)] = run[Replay(d)]
    BY ReplayParts DEF Coming
  <2>. QED BY <2>1 DEF Core, Budget
<1>4. ReportsInv'
  <2>. SUFFICES ASSUME NEW d \in Deliveries PROVE RowReported(d)'
    BY DEF ReportsInv
  <2>1. RowReported(d) /\ (Reported(d)' <=> Reported(d))
    BY DEF Core, ReportsInv, Reported
  <2>2. \A a \in Attempts : /\ run'[a].at \in Attending <=> run[a].at \in Attending
                            /\ run'[a].at = "judging" => run[a].at = "judging"
    BY DEF Attending, Claimed
  <2>. QED BY <2>1, <2>2, ReplayParts, ReportsFrame
<1>. QED BY <1>2, <1>3, <1>4 DEF Core, RowsType, RunsType

LEMMA RetiresRows ==
    ASSUME RowsType, NEW ds \in SUBSET Deliveries, NEW narrow \in BOOLEAN, Retires(ds, narrow)
    PROVE /\ row' \in [Deliveries -> RowType]
          /\ \A d \in Deliveries :
               /\ row'[d].attempts = row[d].attempts /\ row'[d].observed = row[d].observed
               /\ \/ row'[d].status = row[d].status
                  \/ /\ row'[d].status = "PROCESSED" /\ d \in ds
                     /\ row[d].status = "PROCESSING"
<1>1. ASSUME NEW d \in Deliveries, d \in Live(ds, narrow)
      PROVE /\ [row[d] EXCEPT !.status = "PROCESSED"] \in RowType
            /\ [row[d] EXCEPT !.status = "PROCESSED"].attempts = row[d].attempts
            /\ [row[d] EXCEPT !.status = "PROCESSED"].observed = row[d].observed
            /\ [row[d] EXCEPT !.status = "PROCESSED"].status = "PROCESSED"
            /\ d \in ds /\ row[d].status = "PROCESSING"
  <2>1. d \in ds /\ row[d].status = "PROCESSING"
    BY <1>1, Zenon DEF Live
  <2>2. row[d] \in RowType
    BY DEF RowsType
  <2>. QED BY <2>1, <2>2 DEF RowType
<1>. QED BY <1>1 DEF Retires, RowsType

LEMMA CorrectsRows ==
    ASSUME RowsType, LinesType, NEW ds \in SUBSET Deliveries, Corrects(ds)
    PROVE /\ row' \in [Deliveries -> RowType] /\ closings' \in [Deliveries -> Nat]
          /\ \A d \in Deliveries :
               /\ row'[d].attempts = row[d].attempts /\ row'[d].observed = row[d].observed
               /\ closings'[d] = 0 => closings[d] = 0
               /\ \/ row'[d].status = row[d].status
                  \/ /\ row'[d].status = "PROCESSED" /\ d \in ds
                     /\ closings'[d] # 0
<1>. DEFINE dead == {d \in ds : row[d].status = "DEAD"}
<1>1. /\ row' = [d \in Deliveries |-> IF d \in dead
                                THEN [row[d] EXCEPT !.status = "PROCESSED"] ELSE row[d]]
      /\ closings' = [d \in Deliveries |-> IF d \in dead THEN closings[d] + 1 ELSE closings[d]]
  BY DEF Corrects
<1>2. ASSUME NEW d \in Deliveries
      PROVE /\ [row[d] EXCEPT !.status = "PROCESSED"] \in RowType
            /\ [row[d] EXCEPT !.status = "PROCESSED"].attempts = row[d].attempts
            /\ [row[d] EXCEPT !.status = "PROCESSED"].observed = row[d].observed
            /\ [row[d] EXCEPT !.status = "PROCESSED"].status = "PROCESSED"
  BY DEF RowsType, RowType
<1>3. \A d \in Deliveries : closings[d] \in Nat
  BY DEF LinesType
<1>4. \A d \in Deliveries : /\ d \in dead => d \in ds
                            /\ closings[d] + 1 \in Nat /\ closings[d] + 1 # 0
  BY <1>3
<1>. HIDE DEF dead
<1>. QED BY <1>1, <1>2, <1>3, <1>4 DEF RowsType

LEMMA ScopeTells ==
    ASSUME Core, NEW a \in Attempts, run[a].at \in {"settling", "correcting"}
    PROVE /\ Scope(a) \subseteq Deliveries
          /\ \A d \in Scope(a) : row[d].observed # "yes" \/ d \in Seen
          /\ run[a].observer => a[1] \in Seen
<1>1. /\ Row(a).observed = IF run[a].observer THEN "yes" ELSE "no"
      /\ run[a].observer => a[1] \in Seen
  BY DEF Core, RolesInv, ClaimedSay, Ingested, Claimed
<1>2. CASE Narrow(a)
  <2>1. Scope(a) = {a[1]} /\ a[1] \in Deliveries
    BY <1>2, AttemptParts DEF Scope
  <2>. QED BY <1>1, <2>1 DEF Row, Msg
<1>3. CASE ~Narrow(a)
  BY <1>1, <1>3 DEF Scope, Covered
<1>. QED BY <1>2, <1>3

LEMMA SettleKeeps ==
    ASSUME Core, NEW a \in Attempts, Settle(a)
    PROVE Core'
<1>1. /\ run[a].at = "settling" /\ Retires(Scope(a), Narrow(a)) /\ Goes(a, "correcting")
      /\ Seen' = Seen /\ UNCHANGED <<sweep, losses, closings, cut>>
  BY DEF Settle, jobs, lines, Seen
<1>2. /\ Scope(a) \subseteq Deliveries
      /\ \A d \in Scope(a) : row[d].observed # "yes" \/ d \in Seen
      /\ run[a].observer => a[1] \in Seen
  BY <1>1, ScopeTells
<1>3. PICK x \in RunType : /\ run' = [run EXCEPT ![a] = x]
                           /\ x.at = "correcting" /\ x.observer = run[a].observer
  BY <1>1, GoesOn DEF Core, Stages, Claimed
<1>4. /\ run' \in [Attempts -> RunType] /\ run'[a] = x
      /\ \A b \in Attempts : b # a => run'[b] = run[b]
  BY <1>3 DEF Core, RunsType
<1>5. Narrow(a) \in BOOLEAN
  BY DEF Narrow, Core, RunsType, RunType
<1>6. /\ row' \in [Deliveries -> RowType]
      /\ \A d \in Deliveries :
           /\ row'[d].attempts = row[d].attempts /\ row'[d].observed = row[d].observed
           /\ \/ row'[d].status = row[d].status
              \/ /\ row'[d].status = "PROCESSED" /\ d \in Scope(a)
                 /\ row[d].status = "PROCESSING"
  BY <1>1, <1>2, <1>5, RetiresRows DEF Core
<1>. QED BY <1>1, <1>2, <1>3, <1>4, <1>6, WritesKeep DEF Claimed

LEMMA CorrectKeeps ==
    ASSUME Core, LinesType, NEW a \in Attempts, Correct(a)
    PROVE Core'
<1>1. /\ run[a].at = "correcting" /\ Corrects(Scope(a)) /\ Goes(a, "closing")
      /\ Seen' = Seen /\ UNCHANGED <<sweep, losses, cut>>
  BY DEF Correct, jobs, Seen
<1>2. /\ Scope(a) \subseteq Deliveries
      /\ \A d \in Scope(a) : row[d].observed # "yes" \/ d \in Seen
      /\ run[a].observer => a[1] \in Seen
  BY <1>1, ScopeTells
<1>3. PICK x \in RunType : /\ run' = [run EXCEPT ![a] = x]
                           /\ x.at = "closing" /\ x.observer = run[a].observer
  BY <1>1, GoesOn DEF Core, Stages, Claimed
<1>4. /\ run' \in [Attempts -> RunType] /\ run'[a] = x
      /\ \A b \in Attempts : b # a => run'[b] = run[b]
  BY <1>3 DEF Core, RunsType
<1>5. /\ row' \in [Deliveries -> RowType]
      /\ \A d \in Deliveries :
           /\ row'[d].attempts = row[d].attempts /\ row'[d].observed = row[d].observed
           /\ closings'[d] = 0 => closings[d] = 0
           /\ \/ row'[d].status = row[d].status
              \/ /\ row'[d].status = "PROCESSED" /\ d \in Scope(a)
                 /\ closings'[d] # 0
  BY <1>1, <1>2, CorrectsRows DEF Core
<1>. QED BY <1>1, <1>2, <1>3, <1>4, <1>5, WritesKeep DEF Claimed

LEMMA FlushSettlesKeeps ==
    ASSUME Core, FlushSettles
    PROVE Core'
<1>. DEFINE ds == Covered(InBurst)
<1>1. /\ Retires(ds, FALSE) /\ Seen' = Seen /\ run' = run
      /\ UNCHANGED <<sweep, losses, closings, cut>>
  BY DEF FlushSettles, jobs, lines, Seen
<1>2. ds \in SUBSET Deliveries /\ \A d \in ds : row[d].observed # "yes"
  BY DEF Covered
<1>. HIDE DEF ds
<1>3. /\ row' \in [Deliveries -> RowType]
      /\ \A d \in Deliveries :
           /\ row'[d].attempts = row[d].attempts /\ row'[d].observed = row[d].observed
           /\ \/ row'[d].status = row[d].status
              \/ /\ row'[d].status = "PROCESSED" /\ d \in ds
                 /\ row[d].status = "PROCESSING"
  BY <1>1, <1>2, RetiresRows DEF Core
<1>. QED BY <1>1, <1>2, <1>3, WritesKeep DEF Core, RunsType

LEMMA FlushCorrectsKeeps ==
    ASSUME Core, LinesType, FlushCorrects
    PROVE Core'
<1>. DEFINE ds == Covered(InBurst)
<1>1. /\ Corrects(ds) /\ Seen' = Seen /\ run' = run
      /\ UNCHANGED <<sweep, losses, cut>>
  BY DEF FlushCorrects, jobs, Seen
<1>2. ds \in SUBSET Deliveries /\ \A d \in ds : row[d].observed # "yes"
  BY DEF Covered
<1>. HIDE DEF ds
<1>3. /\ row' \in [Deliveries -> RowType]
      /\ \A d \in Deliveries :
           /\ row'[d].attempts = row[d].attempts /\ row'[d].observed = row[d].observed
           /\ closings'[d] = 0 => closings[d] = 0
           /\ \/ row'[d].status = row[d].status
              \/ /\ row'[d].status = "PROCESSED" /\ d \in ds
                 /\ closings'[d] # 0
  BY <1>1, <1>2, CorrectsRows DEF Core
<1>. QED BY <1>1, <1>2, <1>3, WritesKeep DEF Core, RunsType

LEMMA CloseKeeps ==
    ASSUME Core, NEW a \in Attempts, Close(a)
    PROVE Core'
<1>. DEFINE d == a[1]
            y == IF Replays(a) THEN [run[a] EXCEPT !.at = "judging"] ELSE NoRun
<1>1. /\ run[a].at = "closing" /\ Seen' = Seen
      /\ row' = [row EXCEPT ![d].status = "PROCESSED"]
      /\ UNCHANGED <<sweep, losses, closings, cut>>
  BY DEF Close, jobs, lines, Seen
<1>2. d \in Deliveries /\ row[d] \in RowType /\ run[a] \in RunType
  BY AttemptParts DEF Core, RowsType, RunsType
<1>3. /\ y \in RunType
      /\ Replays(a) => y.at = "judging"
      /\ ~Replays(a) => y.at = "idle"
  BY <1>2, NoRunType DEF RunType, Stages, Around
<1>4. run' = [run EXCEPT ![a] = y]
  BY DEF Close, Goes, Stops
<1>. HIDE DEF y
<1>5. /\ run' \in [Attempts -> RunType] /\ run'[a] = y
      /\ \A b \in Attempts : b # a => run'[b] = run[b]
  BY <1>3, <1>4 DEF Core, RunsType
<1>6. /\ row' \in [Deliveries -> RowType]
      /\ \A e \in Deliveries : /\ row'[e].attempts = row[e].attempts
                               /\ row'[e].observed = row[e].observed
                               /\ e # d => row'[e].status = row[e].status
      /\ row'[d].status = "PROCESSED"
  BY <1>1, <1>2 DEF Core, RowsType, RowType
\* An observer's attempt has remembered its message.
<1>7. row[d].observed # "yes" \/ d \in Seen
  <2>1. /\ row[d].observed = IF run[a].observer THEN "yes" ELSE "no"
        /\ run[a].observer => d \in Seen
    BY <1>1 DEF Core, RolesInv, ClaimedSay, Ingested, Claimed, Row, Msg
  <2>. QED BY <2>1
<1>8. Fits(a)'
  BY <1>3, <1>5 DEF Fits, Claimed
<1>9. RolesInv'
  BY <1>1, <1>5, <1>6, <1>7, <1>8, RolesFrame DEF Core
<1>10. Budget'
  BY <1>3, <1>5, <1>6, ReplayParts DEF Core, Budget, Coming
<1>11. ReportsInv'
  <2>. SUFFICES ASSUME NEW e \in Deliveries PROVE RowReported(e)'
    BY DEF ReportsInv
  <2>1. RowReported(e) /\ (Reported(e)' <=> Reported(e))
    BY <1>1 DEF Core, ReportsInv, Reported
  <2>2. CASE e # d
    <3>1. row'[e].status = row[e].status /\ run'[Replay(e)] = run[Replay(e)]
      BY <1>5, <1>6, <2>2, ReplayParts DEF d
    <3>2. \A b \in Attempts : b[1] = e => run'[b] = run[b]
      BY <1>5, <2>2 DEF d
    <3>. QED BY <1>1, <2>1, <3>1, <3>2, ReportsFrame
  <2>3. CASE e = d /\ Replays(a)
    <3>1. Replay(e) = a
      BY <2>3, AttemptParts DEF d
    <3>2. run[a].at \in Attending /\ run'[a].at \in Attending
      BY <1>1, <1>3, <1>5, <2>3 DEF Attending, Claimed
    <3>3. \A b \in Attempts : ~Replays(b) => run'[b] = run[b]
      BY <1>5, <2>3
    <3>. QED BY <1>1, <1>6, <2>1, <2>3, <3>1, <3>2, <3>3 DEF RowReported
  \* A webhook at work on the row: a loss it overwrites is one of the cut.
  <2>4. CASE e = d /\ ~Replays(a)
    <3>1. run[a].at \in Attending
      BY <1>1 DEF Attending, Claimed
    <3>2. ~(Reported(e) /\ e \notin cut /\ closings[e] = 0)
      BY <2>1, <2>4, <3>1 DEF RowReported, d
    <3>. QED BY <1>1, <1>6, <2>1, <2>4, <3>2 DEF RowReported
  <2>. QED BY <2>2, <2>3, <2>4
<1>. QED BY <1>5, <1>6, <1>9, <1>10, <1>11 DEF Core, RowsType, RunsType

---------------------------------------------------------------------------
(* The end of a recovery, and a crash.                                     *)

LEMMA RecoveryEnds ==
    ASSUME Core, LinesType, NEW d \in Deliveries,
           RecoveryRestores(d) \/ RecoveryJudges(d) \/ PutBackFails(d)
    PROVE Core'
<1>. DEFINE a == Replay(d)
<1>1. /\ a \in Attempts /\ Replays(a) /\ a[1] = d
      /\ \A e \in Deliveries : Replay(e) \in Attempts /\ Replay(e)[1] = e /\ Replays(Replay(e))
  BY ReplayParts
<1>2. /\ run[a].at \in {"restoring", "judging"} /\ run' = [run EXCEPT ![a] = NoRun]
      /\ Seen' = Seen /\ UNCHANGED <<sweep, losses>>
      /\ cut \subseteq cut' /\ \A e \in Deliveries : e # d => closings'[e] = closings[e]
      /\ closings'[d] = 0 => closings[d] = 0
  <2>1. CASE RecoveryRestores(d)
    BY <2>1 DEF RecoveryRestores, Stops, Seen
  <2>2. CASE RecoveryJudges(d)
    <3>1. closings' = closings \/ closings' = [closings EXCEPT ![d] = @ + 1]
      BY <2>2 DEF RecoveryJudges
    <3>2. /\ \A e \in Deliveries : e # d => closings'[e] = closings[e]
          /\ closings'[d] = 0 => closings[d] = 0
      BY <3>1 DEF LinesType
    <3>. QED BY <2>2, <3>2 DEF RecoveryJudges, Stops, Seen
  <2>3. CASE PutBackFails(d)
    BY <2>3 DEF PutBackFails, Stops, data, Seen
  <2>. QED BY <2>1, <2>2, <2>3
<1>3. /\ run' \in [Attempts -> RunType] /\ run'[a] = NoRun
      /\ \A b \in Attempts : b # a => run'[b] = run[b]
  BY <1>1, <1>2, NoRunType DEF Core, RunsType
\* What the end makes of the row.
<1>4. /\ row' \in [Deliveries -> RowType]
      /\ \A e \in Deliveries : /\ row'[e].attempts = row[e].attempts
                               /\ row'[e].observed = row[e].observed
                               /\ e # d => row'[e].status = row[e].status
                               /\ row'[e].status = row[e].status \/ row'[e].status = "DEAD"
      /\ d \in cut' \/ closings'[d] # 0 \/ row'[d].status = "DEAD" \/ row[d].status \in {"ABSENT", "PENDING"}
  <2>0. row[d].status \in {"ABSENT", "PENDING", "PROCESSING", "PROCESSED", "DEAD"}
    BY DEF Core, RowsType, RowType
  <2>1. ASSUME NEW from \in {"PROCESSING", "PROCESSED"}, PutBack(d, from)
        PROVE /\ row' \in [Deliveries -> RowType]
              /\ \A e \in Deliveries : /\ row'[e].attempts = row[e].attempts
                                       /\ row'[e].observed = row[e].observed
                                       /\ e # d => row'[e].status = row[e].status
              /\ row'[d].status = IF row[d].status = from THEN "DEAD" ELSE row[d].status
    <3>. DEFINE n == IF row[d].status = from THEN "DEAD" ELSE row[d].status
    <3>1. row' = [row EXCEPT ![d].status = n]
      BY <2>1 DEF PutBack, Core, RowsType
    <3>2. n \in {"ABSENT", "PENDING", "PROCESSING", "PROCESSED", "DEAD"}
      BY <2>0
    <3>. HIDE DEF n
    <3>3. /\ row' \in [Deliveries -> RowType]
          /\ \A e \in Deliveries : /\ row'[e].attempts = row[e].attempts
                                   /\ row'[e].observed = row[e].observed
                                   /\ e # d => row'[e].status = row[e].status
          /\ row'[d].status = n
      BY <3>1, <3>2 DEF Core, RowsType, RowType
    <3>. QED BY <3>3 DEF n
  <2>2. CASE RecoveryRestores(d)
    <3>1. PutBack(d, "PROCESSING") /\ (row[d].status = "PROCESSED" => d \in cut')
      BY <2>2 DEF RecoveryRestores
    <3>. QED BY <2>0, <2>1, <3>1
  <2>3. CASE RecoveryJudges(d) /\ Unsettled(a)
    <3>1. PutBack(d, "PROCESSED") /\ run[a].at = "judging"
      BY <2>3 DEF RecoveryJudges
    <3>2. row[d].status = "PROCESSED"
      BY <3>1 DEF Core, ReportsInv, RowReported
    <3>. QED BY <2>1, <3>1, <3>2
  <2>4. CASE RecoveryJudges(d) /\ ~Unsettled(a)
    <3>1. row' = row /\ closings' = [closings EXCEPT ![d] = @ + 1]
      BY <2>4 DEF RecoveryJudges
    <3>2. closings'[d] # 0
      BY <3>1 DEF LinesType
    <3>. QED BY <3>1, <3>2 DEF Core, RowsType
  <2>5. CASE PutBackFails(d)
    <3>1. row' = row /\ d \in cut'
      BY <2>5 DEF PutBackFails, data
    <3>. QED BY <3>1 DEF Core, RowsType
  <2>. QED BY <2>2, <2>3, <2>4, <2>5
<1>. HIDE DEF a
<1>5. Fits(a)'
  BY <1>3, NoRunType DEF Fits, Claimed
<1>6. RolesInv'
  BY <1>2, <1>3, <1>4, <1>5, RolesFrame DEF Core
<1>7. Budget'
  BY <1>1, <1>3, <1>4, NoRunType DEF Core, Budget, Coming
<1>8. ReportsInv'
  <2>. SUFFICES ASSUME NEW e \in Deliveries PROVE RowReported(e)'
    BY DEF ReportsInv
  <2>1. RowReported(e) /\ (Reported(e)' <=> Reported(e))
    BY <1>2 DEF Core, ReportsInv, Reported
  <2>2. CASE e # d
    <3>1. run'[Replay(e)] = run[Replay(e)]
      BY <1>1, <1>3, <2>2
    <3>2. \A b \in Attempts : b[1] = e => run'[b] = run[b]
      BY <1>1, <1>3, <2>2
    <3>. QED BY <1>2, <1>4, <2>1, <2>2, <3>1, <3>2, ReportsFrame
  <2>3. CASE e = d
    <3>1. run'[Replay(e)].at # "judging"
      BY <1>3, <2>3, NoRunType DEF a
    <3>2. \A b \in Attempts : ~Replays(b) => run'[b] = run[b]
      BY <1>1, <1>3
    <3>3. Reported(e) => row[e].status \notin {"ABSENT", "PENDING"}
      BY <2>1 DEF RowReported
    <3>4. Reported(e)' => row'[e].status \notin {"ABSENT", "PENDING"}
      BY <1>4, <2>1, <3>3
    <3>5. Reported(e)' /\ e \notin cut' /\ closings'[e] = 0 =>
            /\ Reported(e) /\ e \notin cut /\ closings[e] = 0
            /\ row'[e].status = "DEAD"
      BY <1>2, <1>4, <2>1, <2>3, <3>3
    <3>. QED BY <2>1, <3>1, <3>2, <3>4, <3>5 DEF RowReported
  <2>. QED BY <2>2, <2>3
<1>. QED BY <1>3, <1>4, <1>6, <1>7, <1>8 DEF Core, RowsType, RunsType

LEMMA CrashKeeps ==
    ASSUME Core, JobsType, NEW p \in Procs, Crash(p)
    PROVE Core'
<1>1. /\ row' = row /\ Seen' = Seen /\ UNCHANGED <<losses, closings>>
      /\ run' = [a \in Attempts |-> IF run[a].proc = p THEN NoRun ELSE run[a]]
      /\ cut' = cut \cup {d \in Deliveries : run[Replay(d)].proc = p
                                           /\ run[Replay(d)].at \in Attending}
  BY DEF Crash, data, Seen
<1>2. /\ run' \in [Attempts -> RunType]
      /\ \A a \in Attempts : run'[a] = run[a] \/ (run'[a] = NoRun /\ run[a].proc = p)
  BY <1>1, NoRunType DEF Core, RunsType
<1>3. \A a \in Attempts : run'[a] = NoRun => Fits(a)'
  BY NoRunType DEF Fits, Claimed
<1>4. RolesInv'
  BY <1>1, <1>2, <1>3, RolesFrame DEF Core
<1>5. Budget'
  BY <1>1, <1>2, NoRunType, ReplayParts DEF Core, Budget, Coming
<1>6. ReportsInv'
  <2>. SUFFICES ASSUME NEW d \in Deliveries PROVE RowReported(d)'
    BY DEF ReportsInv
  <2>1. RowReported(d)
    BY DEF Core, ReportsInv
  <2>2. Reported(d)' => Reported(d)
    BY <1>1 DEF Crash, Reported, jobs, JobsType
  <2>3. /\ \A a \in Attempts : run'[a].at \in Attending \cup {"judging"} => run'[a] = run[a]
        /\ d \notin cut' => d \notin cut
        /\ d \notin cut' /\ run[Replay(d)].at \in Attending => run'[Replay(d)] = run[Replay(d)]
    BY <1>1, <1>2, NoRunType, ReplayParts DEF Attending, Claimed
  <2>. QED BY <1>1, <2>1, <2>2, <2>3, ReplayParts DEF RowReported
<1>. QED BY <1>1, <1>2, <1>4, <1>5, <1>6 DEF Core, RowsType, RunsType

---------------------------------------------------------------------------
(* The types of what the frames do not name.                               *)

Rest == /\ WorldType /\ FlushType /\ JobsType /\ MarksType /\ LinesType /\ UpsetsType

LEMMA JobEndsType ==
    ASSUME JobsType, NEW d \in Deliveries, NEW next \in {"none", "armed", "running", "again"},
           JobEnds(d, next)
    PROVE job' \in [Deliveries -> {"none", "armed", "running", "again"}]
  BY DEF JobsType, JobEnds

LEMMA JobFailsType ==
    ASSUME JobsType, NEW d \in Deliveries, JobFails(d)
    PROVE job' \in [Deliveries -> {"none", "armed", "running", "again"}]
  BY JobEndsType DEF JobFails

LEMMA BecomesType ==
    ASSUME MarksType, NEW ms, NEW o \in Outcomes, Becomes(ms, o)
    PROVE fate' \in [Msgs -> SUBSET {"answered", "decided", "announced", "passed"}]
  BY MeaningType DEF MarksType, Becomes

LEMMA MarkMeansType ==
    ASSUME MarksType, NEW a \in Attempts, MarkMeans(a)
    PROVE fate' \in [Msgs -> SUBSET {"answered", "decided", "announced", "passed"}]
  BY DEF MarksType, MarkMeans

LEMMA FaultType ==
    ASSUME UpsetsType, Fault
    PROVE faults' \in 0..MaxFaults
  BY ConstantsAssumption DEF UpsetsType, Fault, ConstantsAssumption

LEMMA WorldSteps ==
    ASSUME Rest, \/ CustomerWrites \/ HumanTakes \/ \E r \in Bindings : BindingMoves(r)
                 \/ \E d \in Deliveries :
                      \/ Ages(d) \/ ReceiptFails(d)
                      \/ \E k \in Kinds, p \in Procs : Receives(d, k, p)
    PROVE Rest'
<1>1. CASE CustomerWrites
  <2>1. PICK n \in 1..1 + MaxReposts :
          posts' = [d \in Deliveries |-> IF MsgOf[d] = sent + 1 THEN n ELSE posts[d]]
    BY <1>1 DEF CustomerWrites
  <2>2. sent' \in 0..MaxMsgs
    BY <1>1, ConstantsAssumption DEF CustomerWrites, Rest, WorldType, ConstantsAssumption
  <2>3. n \in 0..1 + MaxReposts
    BY ConstantsAssumption DEF ConstantsAssumption
  <2>4. posts' \in [Deliveries -> 0..1 + MaxReposts]
    BY <2>1, <2>3 DEF Rest, WorldType
  <2>. QED BY <1>1, <2>2, <2>4 DEF CustomerWrites, Rest, WorldType, FlushType, JobsType, MarksType,
                                LinesType, UpsetsType, data, turns, jobs, lines, bounds
<1>2. CASE HumanTakes
  BY <1>2 DEF HumanTakes, Rest, WorldType, FlushType, JobsType, MarksType, LinesType, UpsetsType,
              data, turns, jobs, lines, bounds
<1>3. ASSUME NEW r \in Bindings, BindingMoves(r) PROVE Rest'
  <2>1. binding' \in [routes : SUBSET Bindings, generation : 0..MaxMoves]
    BY <1>3, ConstantsAssumption DEF BindingMoves, Rest, WorldType, ConstantsAssumption
  <2>. QED BY <1>3, <2>1 DEF BindingMoves, Rest, WorldType, FlushType, JobsType, MarksType, LinesType,
                          UpsetsType, data, turns, jobs, lines, bounds
<1>4. ASSUME NEW d \in Deliveries, Ages(d) PROVE Rest'
  <2>1. slow' \in 0..MaxSlow
    BY <1>4, ConstantsAssumption DEF Ages, Rest, UpsetsType, ConstantsAssumption
  <2>. QED BY <1>4, <2>1 DEF Ages, Rest, WorldType, FlushType, JobsType, MarksType, LinesType,
                          UpsetsType, world, turns, jobs, lines
<1>5. ASSUME NEW d \in Deliveries, posts[d] > 0, posts' = [posts EXCEPT ![d] = @ - 1]
      PROVE posts' \in [Deliveries -> 0..1 + MaxReposts]
  BY <1>5, ConstantsAssumption DEF Rest, WorldType, ConstantsAssumption
<1>6. ASSUME NEW d \in Deliveries, ReceiptFails(d) PROVE Rest'
  <2>1. faults' \in 0..MaxFaults
    BY <1>6, FaultType DEF ReceiptFails, Rest
  <2>2. posts' \in [Deliveries -> 0..1 + MaxReposts]
    BY <1>5, <1>6 DEF ReceiptFails
  <2>. QED BY <1>6, <2>1, <2>2 DEF ReceiptFails, Rest, WorldType, FlushType, JobsType, MarksType,
                                LinesType, UpsetsType, data, turns, jobs, lines, bounds
<1>7. ASSUME NEW d \in Deliveries, NEW k \in Kinds, NEW p \in Procs, Receives(d, k, p) PROVE Rest'
  <2>1. posts' \in [Deliveries -> 0..1 + MaxReposts]
    BY <1>5, <1>7 DEF Receives
  <2>. QED BY <1>7, <2>1 DEF Receives, Rest, WorldType, FlushType, JobsType, MarksType, LinesType,
                          UpsetsType, turns, jobs, lines, bounds
<1>. QED BY <1>1, <1>2, <1>3, <1>4, <1>6, <1>7

LEMMA QuietSteps ==
    ASSUME Rest, NEW a \in Attempts,
           Resolve(a) \/ Claim(a) \/ Decide(a) \/ Settle(a) \/ Close(a)
    PROVE Rest'
  BY DEF Resolve, Claim, Decide, Settle, Close, Rest, WorldType, FlushType, JobsType, MarksType,
         LinesType, UpsetsType, world, data, turns, jobs, lines, bounds

LEMMA FailedSteps ==
    ASSUME Rest, NEW a \in Attempts,
           \/ ResolutionFails(a) \/ ArmFails(a) \/ IngestFails(a) \/ MarkFails(a) \/ SettleFails(a)
           \/ CloseFails(a)
    PROVE Rest'
<1>1. Fault /\ UNCHANGED <<world, data, turns, jobs, lines, bounds>>
  BY DEF ResolutionFails, ArmFails, IngestFails, MarkFails, SettleFails, CloseFails
<1>2. faults' \in 0..MaxFaults
  BY <1>1, FaultType DEF Rest
<1>3. fate' \in [Msgs -> SUBSET {"answered", "decided", "announced", "passed"}]
  BY MarkMeansType DEF ResolutionFails, ArmFails, IngestFails, MarkFails, SettleFails, CloseFails, Rest,
                       MarksType
<1>. QED BY <1>1, <1>2, <1>3 DEF Rest, WorldType, FlushType, JobsType, MarksType, LinesType, UpsetsType,
                               world, data, turns, jobs, lines, bounds

LEMMA LoudSteps ==
    ASSUME Rest, RowsType, NEW a \in Attempts,
           \/ Skip(a) \/ Arm(a) \/ TurnStarts(a) \/ TurnEnds(a) \/ Announce(a) \/ Ingest(a)
           \/ Mark(a) \/ Correct(a)
    PROVE Rest'
<1>0. Msg(a) \in Msgs /\ a[1] \in Deliveries
  BY AttemptParts
<1>1. CASE Skip(a)
  <2>1. job' \in [Deliveries -> {"none", "armed", "running", "again"}]
    BY <1>0, <1>1, JobEndsType DEF Skip, Rest, JobsType
  <2>. QED BY <1>1, <2>1 DEF Skip, Rest, WorldType, FlushType, JobsType, MarksType, LinesType, UpsetsType,
                          world, data, turns, lines, bounds
<1>2. CASE Arm(a)
  <2>1. flush' \in [armed : BOOLEAN, at : {"idle", "turning", "settling", "correcting"},
                    from : 0..MaxMsgs, upTo : 0..MaxMsgs]
    BY <1>2 DEF Arm, ArmedAfter, Rest, FlushType
  <2>. QED BY <1>2, <2>1 DEF Arm, Rest, WorldType, FlushType, JobsType, MarksType, LinesType, UpsetsType,
                          world, data, jobs, lines, bounds
<1>3. CASE TurnStarts(a)
  BY <1>3 DEF TurnStarts, Rest, WorldType, FlushType, JobsType, MarksType, LinesType, UpsetsType,
              world, data, jobs, lines, bounds
<1>4. CASE TurnEnds(a)
  <2>1. PICK o \in TurnOutcomes(a) : IF o = "threw" THEN UNCHANGED fate ELSE Becomes({Msg(a)}, o)
    BY <1>4 DEF TurnEnds
  <2>2. o \in Outcomes
    BY DEF TurnOutcomes, Outcomes
  <2>3. fate' \in [Msgs -> SUBSET {"answered", "decided", "announced", "passed"}]
    BY <2>1, <2>2, BecomesType DEF Rest, MarksType
  <2>. QED BY <1>4, <2>3 DEF TurnEnds, Rest, WorldType, FlushType, JobsType, MarksType, LinesType,
                          UpsetsType, world, data, jobs, lines, bounds
<1>5. CASE Announce(a)
  <2>1. fate' \in [Msgs -> SUBSET {"answered", "decided", "announced", "passed"}]
    BY <1>5, BecomesType DEF Announce, Rest, Outcomes
  <2>. QED BY <1>5, <2>1 DEF Announce, Rest, WorldType, FlushType, JobsType, MarksType, LinesType,
                          UpsetsType, world, data, turns, jobs, lines, bounds
<1>6. CASE Ingest(a)
  BY <1>0, <1>6 DEF Ingest, Rest, WorldType, FlushType, JobsType, MarksType, LinesType, UpsetsType,
                    world, turns, jobs, lines, bounds
<1>7. CASE Mark(a)
  <2>1. fate' \in [Msgs -> SUBSET {"answered", "decided", "announced", "passed"}]
    BY <1>7, MarkMeansType DEF Mark, Rest
  <2>2. handled' \in 0..MaxMsgs
    BY <1>0, <1>7 DEF Mark, Larger, Rest, MarksType, Msgs
  <2>. QED BY <1>7, <2>1, <2>2 DEF Mark, Rest, WorldType, FlushType, JobsType, MarksType, LinesType,
                                UpsetsType, world, turns, jobs, lines, bounds
<1>8. CASE Correct(a)
  <2>1. Scope(a) \in SUBSET Deliveries
    BY <1>0 DEF Scope, Covered
  <2>2. closings' \in [Deliveries -> Nat]
    BY <1>8, <2>1, CorrectsRows DEF Correct, Rest
  <2>. QED BY <1>8, <2>2 DEF Correct, Rest, WorldType, FlushType, JobsType, MarksType, LinesType,
                          UpsetsType, world, turns, jobs, bounds
<1>. QED BY <1>1, <1>2, <1>3, <1>4, <1>5, <1>6, <1>7, <1>8

LEMMA FlushSteps ==
    ASSUME Rest, RowsType, FlushStarts \/ FlushEnds \/ FlushFails \/ FlushSettles \/ FlushCorrects
    PROVE Rest'
<1>. DEFINE FlushT == [armed : BOOLEAN, at : {"idle", "turning", "settling", "correcting"},
                       from : 0..MaxMsgs, upTo : 0..MaxMsgs]
            FateT == [Msgs -> SUBSET {"answered", "decided", "announced", "passed"}]
<1>1. CASE FlushStarts
  <2>1. flush' \in FlushT
    <3>1. \/ flush' = [armed |-> FALSE, at |-> "turning", from |-> handled, upTo |-> sent]
          \/ flush' = [flush EXCEPT !.armed = FALSE]
      BY <1>1 DEF FlushStarts
    <3>2. flush \in FlushT /\ handled \in 0..MaxMsgs /\ sent \in 0..MaxMsgs
      BY DEF Rest, WorldType, FlushType, MarksType
    <3>3. [armed |-> FALSE, at |-> "turning", from |-> handled, upTo |-> sent] \in FlushT
      BY <3>2
    <3>4. [flush EXCEPT !.armed = FALSE] \in FlushT
      BY <3>2
    <3>. HIDE DEF FlushT
    <3>. QED BY <3>1, <3>3, <3>4
  <2>. QED BY <1>1, <2>1 DEF FlushStarts, Rest, WorldType, FlushType, JobsType, MarksType, LinesType,
                          UpsetsType, world, data, jobs, lines, bounds
<1>2. CASE FlushEnds
  <2>1. flush' \in FlushT
    BY <1>2 DEF FlushEnds, Rest, FlushType
  <2>2. PICK o \in {"posted", "silent", "unavailable"} : Becomes(InBurst, o)
    BY <1>2 DEF FlushEnds
  <2>3. fate' \in FateT
    BY <2>2, BecomesType DEF Rest, Outcomes
  <2>. QED BY <1>2, <2>1, <2>3 DEF FlushEnds, Rest, WorldType, FlushType, JobsType, MarksType, LinesType,
                                UpsetsType, world, data, jobs, lines, bounds
<1>3. CASE FlushFails
  <2>1. flush' \in FlushT
    BY <1>3 DEF FlushFails, Rest, FlushType
  <2>2. fate' \in FateT
    BY <1>3, BecomesType DEF FlushFails, Rest, Outcomes, MarksType
  <2>3. faults' \in 0..MaxFaults
    BY <1>3, FaultType DEF FlushFails, Rest
  <2>. QED BY <1>3, <2>1, <2>2, <2>3 DEF FlushFails, Rest, WorldType, FlushType, JobsType, MarksType,
                                      LinesType, UpsetsType, world, data, jobs, lines, bounds
<1>4. CASE FlushSettles
  <2>1. flush' \in FlushT /\ handled' \in 0..MaxMsgs
    BY <1>4 DEF FlushSettles, Larger, Rest, FlushType, MarksType
  <2>. QED BY <1>4, <2>1 DEF FlushSettles, Rest, WorldType, FlushType, JobsType, MarksType, LinesType,
                          UpsetsType, world, jobs, lines, bounds
<1>5. CASE FlushCorrects
  <2>1. flush' \in FlushT
    BY <1>5 DEF FlushCorrects, Rest, FlushType
  <2>2. Covered(InBurst) \in SUBSET Deliveries
    BY DEF Covered
  <2>3. closings' \in [Deliveries -> Nat]
    BY <1>5, <2>2, CorrectsRows DEF FlushCorrects, Rest
  <2>. QED BY <1>5, <2>1, <2>3 DEF FlushCorrects, Rest, WorldType, FlushType, JobsType, MarksType,
                                LinesType, UpsetsType, world, jobs, bounds
<1>. QED BY <1>1, <1>2, <1>3, <1>4, <1>5

LEMMA SweepSteps ==
    ASSUME Rest, SweepArms \/ SweepReports \/ \E d \in Deliveries : SweepTakes(d)
    PROVE Rest'
<1>1. CASE SweepArms
  <2>1. sweep' \in [at : {"idle", "arming", "reporting"}, row : Deliveries]
    BY <1>1 DEF SweepArms, Rest, JobsType
  <2>2. job' \in [Deliveries -> {"none", "armed", "running", "again"}]
    BY <1>1 DEF SweepArms, Rest, JobsType
  <2>3. faults' \in 0..MaxFaults
    BY <1>1, FaultType DEF SweepArms, Rest, UpsetsType
  <2>. QED BY <1>1, <2>1, <2>2, <2>3 DEF SweepArms, Rest, WorldType, FlushType, JobsType, MarksType,
                                      LinesType, UpsetsType, world, data, turns, lines, bounds
<1>2. CASE SweepReports
  <2>1. sweep' \in [at : {"idle", "arming", "reporting"}, row : Deliveries]
    BY <1>2 DEF SweepReports, Rest, JobsType
  <2>2. losses' \in [Deliveries -> Nat]
    BY <1>2 DEF SweepReports, Rest, LinesType, JobsType
  <2>. QED BY <1>2, <2>1, <2>2 DEF SweepReports, Rest, WorldType, FlushType, JobsType, MarksType,
                                LinesType, UpsetsType, world, data, turns, bounds
<1>3. ASSUME NEW d \in Deliveries, SweepTakes(d) PROVE Rest'
  BY <1>3 DEF SweepTakes, Rest, WorldType, FlushType, JobsType, MarksType, LinesType, UpsetsType,
              world, turns, bounds
<1>. QED BY <1>1, <1>2, <1>3

LEMMA RecoverySteps ==
    ASSUME Rest, NEW d \in Deliveries, Recovers(d)
    PROVE Rest'
<1>. DEFINE Jobs == [Deliveries -> {"none", "armed", "running", "again"}]
<1>1. CASE RecoveryStarts(d)
  <2>1. job' \in Jobs
    BY <1>1 DEF RecoveryStarts, Rest, JobsType
  <2>. QED BY <1>1, <2>1 DEF RecoveryStarts, Rest, WorldType, FlushType, JobsType, MarksType, LinesType,
                          UpsetsType, world, data, turns, lines, bounds
<1>2. CASE RecoveryReads(d)
  <2>1. job' \in Jobs
    BY <1>2, JobEndsType, JobFailsType DEF RecoveryReads, Rest, JobsType
  <2>2. faults' \in 0..MaxFaults
    BY <1>2, FaultType DEF RecoveryReads, Rest, UpsetsType
  <2>. QED BY <1>2, <2>1, <2>2 DEF RecoveryReads, Rest, WorldType, FlushType, JobsType, MarksType,
                                LinesType, UpsetsType, world, data, turns, lines, bounds
<1>3. CASE RecoveryFences(d)
  <2>1. job' \in Jobs
    BY <1>3, JobEndsType DEF RecoveryFences, Rest, JobsType
  <2>. QED BY <1>3, <2>1 DEF RecoveryFences, Rest, WorldType, FlushType, JobsType, MarksType, LinesType,
                          UpsetsType, world, data, turns, lines, bounds
<1>4. CASE RecoveryRestores(d)
  <2>1. job' \in Jobs
    BY <1>4, JobFailsType DEF RecoveryRestores, Rest
  <2>. QED BY <1>4, <2>1 DEF RecoveryRestores, Rest, WorldType, FlushType, JobsType, MarksType, LinesType,
                          UpsetsType, world, turns, bounds
<1>5. CASE RecoveryJudges(d)
  <2>1. job' \in Jobs
    BY <1>5, JobEndsType, JobFailsType DEF RecoveryJudges, Rest
  <2>2. closings' \in [Deliveries -> Nat]
    BY <1>5 DEF RecoveryJudges, Rest, LinesType
  <2>. QED BY <1>5, <2>1, <2>2 DEF RecoveryJudges, Rest, WorldType, FlushType, JobsType, MarksType,
                                LinesType, UpsetsType, world, turns, bounds
<1>6. CASE PutBackFails(d)
  <2>1. job' \in Jobs
    BY <1>6, JobFailsType DEF PutBackFails, Rest
  <2>2. faults' \in 0..MaxFaults
    BY <1>6, FaultType DEF PutBackFails, Rest
  <2>. QED BY <1>6, <2>1, <2>2 DEF PutBackFails, Rest, WorldType, FlushType, JobsType, MarksType,
                                LinesType, UpsetsType, world, data, turns, bounds
<1>. QED BY <1>1, <1>2, <1>3, <1>4, <1>5, <1>6 DEF Recovers

LEMMA LossSteps ==
    ASSUME Rest, \/ \E p \in Procs : Crash(p)
                 \/ \E h \in Attempts \cup {Burst} : HoldExpires(h)
    PROVE Rest'
<1>1. ASSUME NEW p \in Procs, Crash(p) PROVE Rest'
  <2>1. crashes' \in 0..MaxCrashes
    BY <1>1, ConstantsAssumption DEF Crash, Rest, UpsetsType, ConstantsAssumption
  <2>2. flush' \in [armed : BOOLEAN, at : {"idle", "turning", "settling", "correcting"},
                    from : 0..MaxMsgs, upTo : 0..MaxMsgs]
    <3>1. CASE p # Leader
      BY <1>1, <3>1 DEF Crash, Rest, FlushType
    <3>2. CASE p = Leader
      <4>1. flush' = [flush EXCEPT !.at = "idle", !.armed = @ \/ flush.at # "idle"]
        BY <1>1, <3>2 DEF Crash
      <4>2. (flush.armed \/ flush.at # "idle") \in BOOLEAN
        OBVIOUS
      <4>. QED BY <4>1, <4>2 DEF Rest, FlushType
    <3>. QED BY <3>1, <3>2
  <2>3. /\ sweep' \in [at : {"idle", "arming", "reporting"}, row : Deliveries]
        /\ job' \in [Deliveries -> {"none", "armed", "running", "again"}]
    BY <1>1 DEF Crash, Rest, JobsType, jobs
  <2>4. cut' \subseteq Deliveries
    BY <1>1 DEF Crash, Rest, LinesType
  <2>. QED BY <1>1, <2>1, <2>2, <2>3, <2>4 DEF Crash, Rest, WorldType, FlushType, JobsType, MarksType,
                                            LinesType, UpsetsType, world, data
<1>2. ASSUME NEW h \in Attempts \cup {Burst}, HoldExpires(h) PROVE Rest'
  BY <1>2 DEF HoldExpires, Rest, WorldType, FlushType, JobsType, MarksType, LinesType, UpsetsType,
              world, data, jobs, lines, bounds
<1>. QED BY <1>1, <1>2

---------------------------------------------------------------------------
(* The theorems.                                                           *)

Inv == Core /\ Rest

LEMMA Initially == Init => Inv
<1>. SUFFICES ASSUME Init PROVE Inv
  OBVIOUS
<1>1. \A a \in Attempts : run[a] = NoRun
  BY DEF Init
<1>2. \A d \in Deliveries : row[d] = NoRow
  BY DEF Init
<1>3. NoRow.status = "ABSENT" /\ NoRow.observed = "unsaid" /\ NoRun.at = "idle"
  BY DEF NoRow, NoRun
<1>4. RowsType /\ RunsType /\ Budget
  BY <1>1, <1>3, NoRunType, ReplayParts DEF Init, RowsType, RunsType, Budget, Coming
<1>5. RolesInv
  BY <1>1, <1>2, <1>3 DEF RolesInv, PendingUnsaid, ReplaysWatch, ClaimedSay, NeverAnswers, Ingested,
                          ObserverRemembers, Claimed
<1>6. ReportsInv
  <2>1. \A d \in Deliveries : ~Reported(d)
    BY DEF Init, Reported
  <2>. QED BY <1>1, <1>3, <2>1, ReplayParts DEF ReportsInv, RowReported
<1>7. Rest
  <2>1. (CHOOSE d \in Deliveries : TRUE) \in Deliveries
    BY ConstantsAssumption DEF ConstantsAssumption
  <2>2. WorldType /\ UpsetsType
    BY ConstantsAssumption DEF Init, WorldType, UpsetsType, ConstantsAssumption
  <2>3. FlushType /\ MarksType
    BY ConstantsAssumption DEF Init, FlushType, MarksType, ConstantsAssumption
  <2>4. JobsType /\ LinesType
    BY <2>1 DEF Init, JobsType, LinesType
  <2>. QED BY <2>2, <2>3, <2>4 DEF Rest
<1>. QED BY <1>4, <1>5, <1>6, <1>7 DEF Inv, Core

LEMMA CalmSteps ==
    ASSUME Core,
           \/ CustomerWrites \/ HumanTakes \/ \E r \in Bindings : BindingMoves(r)
           \/ \E d \in Deliveries : ReceiptFails(d)
           \/ \E a \in Attempts : TurnStarts(a)
           \/ FlushStarts \/ FlushEnds \/ FlushFails
           \/ \E h \in Attempts \cup {Burst} : HoldExpires(h)
    PROVE Core'
<1>1. Calm
  BY DEF Calm, CustomerWrites, HumanTakes, BindingMoves, ReceiptFails, TurnStarts, FlushStarts,
         FlushEnds, FlushFails, HoldExpires, data, jobs, lines, Seen
<1>. QED BY <1>1, CalmKeeps

LEMMA AttemptSteps ==
    ASSUME Inv, NEW a \in Attempts, Step(a)
    PROVE Inv'
<1>0. Core /\ Rest /\ LinesType /\ RowsType /\ binding.generation \in 0..MaxMoves
  BY DEF Inv, Core, Rest, WorldType
<1>1. CASE Resolve(a) \/ Claim(a) \/ Decide(a) \/ Settle(a) \/ Close(a)
  BY <1>0, <1>1, QuietSteps, ResolveKeeps, ClaimKeeps, DecideKeeps, SettleKeeps, CloseKeeps DEF Inv
<1>2. CASE \/ ResolutionFails(a) \/ ArmFails(a) \/ IngestFails(a) \/ MarkFails(a) \/ SettleFails(a)
           \/ CloseFails(a)
  BY <1>0, <1>2, FailedSteps, FailsKeeps, ArmKeeps, MarkKeeps, SettleFailsKeeps DEF Inv
<1>3. CASE \/ Skip(a) \/ Arm(a) \/ TurnStarts(a) \/ TurnEnds(a) \/ Announce(a) \/ Ingest(a)
           \/ Mark(a) \/ Correct(a)
  <2>1. Rest'
    BY <1>0, <1>3, LoudSteps
  <2>2. Core'
    BY <1>0, <1>3, SkipKeeps, ArmKeeps, CalmSteps, TurnEndsKeeps, AnnounceKeeps, IngestKeeps, MarkKeeps,
       CorrectKeeps
  <2>. QED BY <2>1, <2>2 DEF Inv
<1>. QED BY <1>1, <1>2, <1>3 DEF Step

LEMMA Inductive == Inv /\ [Next]_vars => Inv'
<1>. SUFFICES ASSUME Inv, [Next]_vars PROVE Inv'
  OBVIOUS
<1>0. Core /\ Rest /\ LinesType /\ JobsType /\ RowsType /\ binding.generation \in 0..MaxMoves
  BY DEF Inv, Core, Rest, WorldType
<1>1. CASE \/ CustomerWrites \/ HumanTakes \/ \E r \in Bindings : BindingMoves(r)
           \/ \E d \in Deliveries : ReceiptFails(d)
  <2>1. Rest'
    BY <1>0, <1>1, WorldSteps
  <2>. QED BY <1>0, <1>1, <2>1, CalmSteps DEF Inv
<1>2. ASSUME NEW d \in Deliveries, Ages(d) PROVE Inv'
  BY <1>0, <1>2, WorldSteps, AgesKeeps DEF Inv
<1>3. ASSUME NEW d \in Deliveries, NEW k \in Kinds, NEW p \in Procs, Receives(d, k, p) PROVE Inv'
  BY <1>0, <1>3, WorldSteps, ReceivesKeeps DEF Inv
<1>4. ASSUME NEW d \in Deliveries, SweepTakes(d) PROVE Inv'
  BY <1>0, <1>4, SweepSteps, SweepTakesKeeps DEF Inv
<1>5. ASSUME NEW d \in Deliveries, Recovers(d) PROVE Inv'
  <2>1. Rest'
    BY <1>0, <1>5, RecoverySteps
  <2>2. Core'
    BY <1>0, <1>5, RecoveryStartsKeeps, RecoveryReadsKeeps, RecoveryEnds DEF Recovers
  <2>. QED BY <2>1, <2>2 DEF Inv
<1>6. ASSUME NEW a \in Attempts, Step(a) PROVE Inv'
  BY <1>6, AttemptSteps
<1>7. CASE FlushStarts \/ FlushEnds \/ FlushFails \/ FlushSettles \/ FlushCorrects
  BY <1>0, <1>7, FlushSteps, CalmSteps, FlushSettlesKeeps, FlushCorrectsKeeps DEF Inv
<1>8. CASE SweepArms \/ SweepReports
  BY <1>0, <1>8, SweepSteps, SweepGoesOnKeeps DEF Inv
<1>9. ASSUME NEW p \in Procs, Crash(p) PROVE Inv'
  BY <1>0, <1>9, LossSteps, CrashKeeps DEF Inv
<1>10. ASSUME NEW h \in Attempts \cup {Burst}, HoldExpires(h) PROVE Inv'
  BY <1>0, <1>10, LossSteps, CalmSteps DEF Inv
<1>11. CASE UNCHANGED vars
  <2>1. Rest'
    BY <1>0, <1>11 DEF vars, world, data, turns, jobs, lines, bounds, Rest, WorldType, FlushType,
                       JobsType, MarksType, LinesType, UpsetsType
  <2>2. Calm
    BY <1>11 DEF vars, data, jobs, lines, Calm, Seen
  <2>. QED BY <1>0, <2>1, <2>2, CalmKeeps DEF Inv
<1>. QED BY <1>1, <1>2, <1>3, <1>4, <1>5, <1>6, <1>7, <1>8, <1>9, <1>10, <1>11 DEF Next

LEMMA InvHolds == Spec => []Inv
  BY Initially, Inductive, PTL DEF Spec

\* Every variable of the model keeps its type.
THEOREM TypeCorrect == Spec => []TypeOK
<1>1. Inv => TypeOK
  BY TypeInvIsTypeOK DEF Inv, Core, Rest, TypeInv
<1>. QED BY <1>1, InvHolds, PTL

\* The inductive invariant: a role is said once and kept, an observer settles
\* by way of its ingestion, and a reported row that no cut excuses is in
\* nobody's hands but its replay's.
THEOREM IInvHolds == Spec => []IInv
<1>1. Inv => IInv
  BY DEF Inv, IInv, Core, Rest, TypeInv
<1>. QED BY <1>1, InvHolds, PTL

\* An observer's row closes only when its memory has the message, or after an
\* attempt at it that found the observer off or no thread: on whatever route,
\* whoever stalls, crashes, moves a binding or recovers the row.
THEOREM ObserversRemember == Spec => []ObserverRemembers
<1>1. Inv => ObserverRemembers
  BY DEF Inv, Core, RolesInv
<1>. QED BY <1>1, InvHolds, PTL

\* A reported loss whose row was settled has its closing line.
THEOREM ReportsAnswered == Spec => []ReportsEnd
<1>1. Inv => ReportsEnd
  <2>. SUFFICES ASSUME Inv, NEW d \in Deliveries, row[d].status = "PROCESSED", losses[d] > 0,
                       ~Attended(d), d \notin cut, closings[d] = 0
                PROVE FALSE
    BY DEF Inv, Rest, LinesType, ReportsEnd
  <2>1. RowReported(d) /\ Reported(d)
    BY DEF Inv, Core, ReportsInv, Reported
  <2>2. run[Replay(d)].at \in Attending
    BY <2>1 DEF RowReported
  <2>. QED BY <2>2 DEF Attended, Replay, Kinds
<1>. QED BY <1>1, InvHolds, PTL

---------------------------------------------------------------------------
(* A row that reads PROCESSED tells the truth.  The row says that much of  *)
(* its own message only if everything that may still close it does: the    *)
(* turn and the gate before they settle, the flush that was armed instead, *)
(* and the mark, which a flush takes for handled.                          *)

\* Somebody said what became of m.
Fated(m) == fate[m] # {}

\* So it is, or the flush that is armed or under way reaches it.
Safe(m) ==
    \/ Fated(m)
    \/ /\ handled < m /\ m <= sent
       /\ flush.armed \/ (flush.at = "turning" /\ m \in InBurst)

\* A webhook of the observer's bot that resolved no observer.
Detached(a) == a[1] \in Observer /\ ~Replays(a) /\ ~run[a].observer

\* Where messages wait for a flush no observer's bot is ever without its observer: ledger_detached
\* is what happens otherwise.
RoutesStay == Debounced => Observer = {} \/ Movable \cap {"observer", "persona"} = {}

RoutesInv  == Debounced => Observer = {} \/ {"observer", "persona"} \subseteq binding.routes
HandledInv == Debounced => \A m \in Msgs : m <= handled => Fated(m)
FlushInv ==
    /\ ~Debounced => ~flush.armed /\ flush.at = "idle"
    /\ flush.at # "idle" => flush.from <= handled
    /\ flush.at \in {"settling", "correcting"} => \A m \in Msgs : m \in InBurst => Fated(m)
MarkInv == RoutesInv /\ HandledInv /\ FlushInv

AttemptTrue(a) ==
    /\ run[a].at # "idle" => Msg(a) <= sent
    /\ a[1] \in Responder => ~run[a].observer
    /\ Debounced /\ run[a].at \in {"claiming"} \cup Claimed => ~Detached(a)
    /\ run[a].at \in {"settling", "correcting"} /\ ~Narrow(a) => Fated(Msg(a))
    /\ run[a].at = "closing" /\ a[1] \in Responder => Safe(Msg(a))
    /\ run[a].at = "ingesting" => run[a].observer

RowTrue(d) ==
    /\ posts[d] > 0 \/ row[d].status # "ABSENT" => MsgOf[d] <= sent
    /\ d \in Responder => row[d].observed # "yes"
    /\ d \in Responder /\ row[d].status = "PROCESSED" => Safe(MsgOf[d])

TruthInv ==
    /\ MarkInv
    /\ \A a \in Attempts : AttemptTrue(a)
    /\ \A d \in Deliveries : RowTrue(d)

\* What every step leaves true of a message.
Persists ==
    /\ sent <= sent'
    /\ \A m \in Msgs : (Fated(m) => Fated(m)') /\ (Safe(m) => Safe(m)')

LEMMA RouteParts ==
    \A d \in Deliveries : /\ MsgOf[d] \in Msgs /\ MsgOf[d] \in Nat
                          /\ ~(d \in Responder /\ d \in Observer)
                          /\ d \in Responder \/ d \in Observer
  BY ConstantsAssumption DEF ConstantsAssumption, Deliveries, Msgs

LEMMA Numbers ==
    ASSUME Inv
    PROVE  /\ sent \in Nat /\ handled \in Nat /\ flush.from \in Nat /\ flush.upTo \in Nat
           /\ Msgs \subseteq Nat /\ flush.armed \in BOOLEAN
           /\ handled \in 0..MaxMsgs
           /\ fate \in [Msgs -> SUBSET {"answered", "decided", "announced", "passed"}]
  BY ConstantsAssumption DEF Inv, Rest, WorldType, MarksType, FlushType, Msgs, ConstantsAssumption

\* The flush, the marks and the routes stay, fates only grow.
LEMMA SteadyMarks ==
    ASSUME MarkInv, UNCHANGED <<handled, flush>>, binding.routes' = binding.routes,
           Inv, sent' \in Nat, sent <= sent', \A m \in Msgs : Fated(m) => Fated(m)'
    PROVE  MarkInv' /\ Persists
<1>1. MarkInv'
  BY DEF MarkInv, RoutesInv, HandledInv, FlushInv, InBurst
<1>2. \A m \in Msgs : Safe(m) => Safe(m)'
  BY Numbers DEF Safe, InBurst
<1>. QED BY <1>1, <1>2 DEF Persists

LEMMA AttemptStays ==
    ASSUME Persists, NEW a \in Attempts, AttemptTrue(a), run'[a] = run[a], Inv, sent' \in Nat
    PROVE  AttemptTrue(a)'
  BY AttemptParts, Numbers DEF AttemptTrue, Persists, Detached, Narrow, Msg, Msgs

\* An attempt that is over, or far from settling.
LEMMA AttemptApart ==
    ASSUME Inv, Persists, sent' \in Nat, NEW a \in Attempts, AttemptTrue(a),
           run'[a].at \notin {"claiming"} \cup Claimed,
           run'[a].at # "idle" => Msg(a) <= sent,
           run'[a].observer => run[a].observer
    PROVE  AttemptTrue(a)'
  BY AttemptParts, Numbers DEF AttemptTrue, Persists, Detached, Msg, Msgs, Claimed

LEMMA RowStays ==
    ASSUME Inv, Persists, sent' \in Nat, NEW d \in Deliveries, RowTrue(d),
           posts'[d] > 0 => posts[d] > 0 \/ MsgOf[d] <= sent',
           row'[d].status # "ABSENT" => row[d].status # "ABSENT" \/ MsgOf[d] <= sent',
           d \in Responder /\ row'[d].observed = "yes" => row[d].observed = "yes",
           d \in Responder /\ row'[d].status = "PROCESSED" =>
             row[d].status = "PROCESSED" \/ Safe(MsgOf[d]) \/ Safe(MsgOf[d])'
    PROVE  RowTrue(d)'
  BY RouteParts, Numbers DEF RowTrue, Persists

---------------------------------------------------------------------------
(* The steps of the world, the sweep and the flush.                         *)

\* One step's worth of assumptions: what holds before it, and its types after it.
Before == Inv /\ TruthInv /\ Inv'

LEMMA BeforeParts ==
    ASSUME Before
    PROVE  /\ Inv /\ Inv' /\ MarkInv /\ sent' \in Nat
           /\ \A a \in Attempts : AttemptTrue(a)
           /\ \A d \in Deliveries : RowTrue(d)
           /\ row \in [Deliveries -> RowType] /\ row' \in [Deliveries -> RowType]
           /\ run \in [Attempts -> RunType] /\ run' \in [Attempts -> RunType]
           /\ posts \in [Deliveries -> Nat] /\ posts' \in [Deliveries -> Nat]
           /\ sent \in Nat /\ owner \in {"bot", "human"}
<1>1. MaxReposts \in Nat /\ MaxMsgs \in Nat
  BY ConstantsAssumption DEF ConstantsAssumption
<1>2. WorldType /\ WorldType' /\ RowsType /\ RowsType' /\ RunsType /\ RunsType'
  BY DEF Before, Inv, Core, Rest
<1>3. posts \in [Deliveries -> Nat] /\ posts' \in [Deliveries -> Nat]
  BY <1>1, <1>2 DEF WorldType
<1>. QED BY <1>1, <1>2, <1>3 DEF Before, TruthInv, WorldType, RowsType, RunsType

\* A step under which the marks stay moves only what it says of attempts and rows.
LEMMA TruthWorld ==
    ASSUME Before, \/ CustomerWrites \/ HumanTakes
                   \/ \E d \in Deliveries : ReceiptFails(d) \/ Ages(d) \/ SweepTakes(d)
                   \/ \E d \in Deliveries, k \in Kinds, p \in Procs : Receives(d, k, p)
                   \/ SweepArms \/ SweepReports
                   \/ \E h \in Attempts \cup {Burst} : HoldExpires(h)
    PROVE  TruthInv'
<1>0. /\ Inv /\ Inv' /\ MarkInv /\ sent' \in Nat /\ sent \in Nat
      /\ \A a \in Attempts : AttemptTrue(a)
      /\ \A d \in Deliveries : RowTrue(d)
      /\ row \in [Deliveries -> RowType] /\ run \in [Attempts -> RunType]
      /\ posts \in [Deliveries -> Nat]
  BY BeforeParts
<1>1. UNCHANGED <<handled, flush, fate, binding>>
  BY DEF CustomerWrites, HumanTakes, ReceiptFails, Ages, SweepTakes, Receives, SweepArms,
         SweepReports, HoldExpires, data, turns, lines, world
<1>a. run' = run \/ \E d \in Deliveries, k \in Kinds, p \in Procs : Receives(d, k, p)
  BY DEF CustomerWrites, HumanTakes, ReceiptFails, Ages, SweepTakes, SweepArms, SweepReports,
         HoldExpires
<1>b. sent' = sent \/ (CustomerWrites /\ sent' = sent + 1)
  BY DEF CustomerWrites, HumanTakes, ReceiptFails, Ages, SweepTakes, Receives, SweepArms,
         SweepReports, HoldExpires, world
<1>2. sent <= sent'
  BY <1>0, <1>b
<1>c. \/ UNCHANGED posts
      \/ CustomerWrites
      \/ \E d \in Deliveries : posts[d] > 0 /\ posts' = [posts EXCEPT ![d] = @ - 1]
  BY DEF HumanTakes, ReceiptFails, Ages, SweepTakes, Receives, SweepArms, SweepReports,
         HoldExpires, world
<1>3. MarkInv' /\ Persists
  BY <1>0, <1>1, <1>2, SteadyMarks DEF Fated
<1>4. ASSUME NEW a \in Attempts PROVE AttemptTrue(a)'
  <2>1. CASE run'[a] = run[a]
    BY <1>0, <1>3, <2>1, AttemptStays
  <2>2. CASE run'[a] # run[a]
    <3>1. PICK d \in Deliveries, k \in Kinds, p \in Procs : Receives(d, k, p)
      BY <1>a, <2>2
    <3>2. /\ posts[d] > 0 /\ a = <<d, k>>
          /\ run'[a] = [NoRun EXCEPT !.at = "resolving", !.proc = p]
      BY <1>0, <2>2, <3>1 DEF Receives
    <3>3. run'[a].at = "resolving" /\ ~run'[a].observer
      BY <3>2 DEF NoRun
    <3>4. Msg(a) <= sent
      BY <1>0, <3>2 DEF RowTrue, Msg
    <3>. QED BY <1>0, <1>3, <3>3, <3>4, AttemptApart DEF Claimed
  <2>. QED BY <2>1, <2>2
<1>5. ASSUME NEW d \in Deliveries PROVE RowTrue(d)'
  <2>1. posts'[d] > 0 => posts[d] > 0 \/ MsgOf[d] <= sent'
    <3>1. CASE CustomerWrites
      <4>1. PICK n \in 1..1 + MaxReposts :
              posts' = [e \in Deliveries |-> IF MsgOf[e] = sent + 1 THEN n ELSE posts[e]]
        BY <3>1 DEF CustomerWrites
      <4>2. sent' = sent + 1
        BY <3>1 DEF CustomerWrites
      <4>. QED BY <1>0, <4>1, <4>2, RouteParts
    <3>2. CASE \E e \in Deliveries : posts[e] > 0 /\ posts' = [posts EXCEPT ![e] = @ - 1]
      BY <1>0, <3>2
    <3>. QED BY <1>c, <3>1, <3>2
  <2>2. CASE row'[d] = row[d]
    BY <1>0, <1>3, <2>1, <2>2, RowStays
  <2>3. CASE \E e \in Deliveries : Ages(e) \/ SweepTakes(e)
    <3>1. /\ row'[d].observed = row[d].observed
          /\ row'[d].status = row[d].status \/ (row'[d].status = "DEAD" /\ row[d].status # "ABSENT")
      BY <1>0, <2>3 DEF Ages, SweepTakes, Stranded, RowType
    <3>. QED BY <1>0, <1>3, <2>1, <3>1, RowStays
  <2>4. CASE row'[d] # row[d] /\ \E e \in Deliveries, k \in Kinds, p \in Procs : Receives(e, k, p)
    <3>1. /\ posts[d] > 0
          /\ row'[d] = [NoRow EXCEPT !.status = "PENDING", !.generation = binding.generation]
      BY <1>0, <2>4 DEF Receives
    <3>2. row'[d].status = "PENDING" /\ row'[d].observed = "unsaid"
      BY <3>1 DEF NoRow
    <3>3. MsgOf[d] <= sent /\ MsgOf[d] \in Nat
      BY <1>0, <3>1, RouteParts DEF RowTrue
    <3>. QED BY <1>0, <1>2, <1>3, <2>1, <3>2, <3>3, RowStays
  <2>5. row' = row \/ (\E e \in Deliveries : Ages(e) \/ SweepTakes(e))
                   \/ \E e \in Deliveries, k \in Kinds, p \in Procs : Receives(e, k, p)
    BY DEF CustomerWrites, HumanTakes, ReceiptFails, SweepArms, SweepReports, HoldExpires, data
  <2>. QED BY <2>2, <2>3, <2>4, <2>5
<1>. QED BY <1>3, <1>4, <1>5 DEF TruthInv

LEMMA TruthMoves ==
    ASSUME Before, RoutesStay, NEW r \in Bindings, BindingMoves(r)
    PROVE  TruthInv'
<1>0. /\ Inv /\ MarkInv /\ sent' \in Nat /\ sent \in Nat
      /\ \A a \in Attempts : AttemptTrue(a)
      /\ \A d \in Deliveries : RowTrue(d)
  BY BeforeParts
<1>1. UNCHANGED <<sent, posts, handled, flush, fate, row, run>>
  BY DEF BindingMoves, data, turns
<1>2. RoutesInv'
  BY <1>0 DEF BindingMoves, RoutesStay, MarkInv, RoutesInv
<1>3. MarkInv'
  BY <1>0, <1>1, <1>2 DEF MarkInv, HandledInv, FlushInv, InBurst, Fated
<1>4. Persists
  BY <1>0, <1>1 DEF Persists, Safe, Fated, InBurst
<1>5. \A a \in Attempts : AttemptTrue(a)'
  BY <1>0, <1>1, <1>4, AttemptStays
<1>6. \A d \in Deliveries : RowTrue(d)'
  BY <1>0, <1>1, <1>4, RowStays
<1>. QED BY <1>3, <1>5, <1>6 DEF TruthInv

LEMMA FlushPersists ==
    ASSUME Before, FlushStarts \/ FlushEnds \/ FlushFails \/ FlushSettles \/ FlushCorrects
    PROVE  MarkInv' /\ Persists
<1>0. /\ Inv /\ MarkInv /\ sent' \in Nat /\ sent \in Nat
      /\ handled \in Nat /\ handled' \in Nat /\ flush.upTo \in Nat /\ flush.from \in Nat
      /\ Msgs \subseteq Nat
      /\ fate \in [Msgs -> SUBSET {"answered", "decided", "announced", "passed"}]
  BY BeforeParts, Numbers DEF Inv, Rest, MarksType
<1>t. flush \in [armed : BOOLEAN, at : {"idle", "turning", "settling", "correcting"},
                 from : 0..MaxMsgs, upTo : 0..MaxMsgs]
  BY <1>0 DEF Inv, Rest, FlushType
<1>1. sent' = sent /\ binding' = binding
  BY DEF FlushStarts, FlushEnds, FlushFails, FlushSettles, FlushCorrects, world
<1>2. CASE FlushStarts
  <2>1. UNCHANGED <<handled, fate>> /\ flush.armed /\ flush.at = "idle" /\ Debounced
    BY <1>0, <1>2 DEF FlushStarts, data, MarkInv, FlushInv
  <2>2. CASE handled < sent
    <3>1. flush' = [armed |-> FALSE, at |-> "turning", from |-> handled, upTo |-> sent]
      BY <1>2, <2>2 DEF FlushStarts
    <3>. QED BY <1>0, <1>1, <2>1, <3>1
          DEF MarkInv, RoutesInv, HandledInv, FlushInv, Persists, Safe, Fated, InBurst
  <2>3. CASE ~(handled < sent)
    <3>1. flush'.at = "idle"
      BY <1>2, <2>1, <2>3, <1>t DEF FlushStarts
    <3>. QED BY <1>0, <1>1, <2>1, <2>3, <3>1
          DEF MarkInv, RoutesInv, HandledInv, FlushInv, Persists, Safe, Fated, InBurst
  <2>. QED BY <2>2, <2>3
<1>3. CASE FlushEnds
  <2>1. PICK o \in {"posted", "silent", "unavailable"} : Becomes(InBurst, o)
    BY <1>3 DEF FlushEnds
  <2>2. Meaning[o] # {}
    BY DEF Meaning
  <2>3. \A m \in Msgs : (m \in InBurst => Fated(m)') /\ (Fated(m) => Fated(m)')
    BY <1>0, <2>1, <2>2 DEF Becomes, Fated
  <2>4. /\ flush.at = "turning" /\ flush'.at \in {"settling", "idle"} /\ handled' = handled
        /\ flush'.armed = flush.armed /\ flush'.from = flush.from /\ flush'.upTo = flush.upTo
    BY <1>3, <1>t DEF FlushEnds, data
  <2>. QED BY <1>0, <1>1, <2>3, <2>4 DEF MarkInv, RoutesInv, HandledInv, FlushInv, Persists, Safe, InBurst
<1>4. CASE FlushFails
  <2>1. flush.at = "turning" /\ handled' = handled /\ Debounced
    BY <1>0, <1>4 DEF FlushFails, data, MarkInv, FlushInv
  <2>2. CASE flush' = [flush EXCEPT !.at = "idle", !.armed = TRUE] /\ UNCHANGED fate
    BY <1>0, <1>1, <1>t, <2>1, <2>2
    DEF MarkInv, RoutesInv, HandledInv, FlushInv, Persists, Safe, Fated, InBurst
  <2>3. CASE flush' = [flush EXCEPT !.at = "idle"] /\ Becomes(InBurst, "threw")
    <3>1. \A m \in Msgs : (m \in InBurst => Fated(m)') /\ (Fated(m) => Fated(m)')
      BY <1>0, <2>3 DEF Becomes, Fated, Meaning
    <3>. QED BY <1>0, <1>1, <1>t, <2>1, <2>3, <3>1
          DEF MarkInv, RoutesInv, HandledInv, FlushInv, Persists, Safe
  <2>. QED BY <1>4, <2>2, <2>3 DEF FlushFails
<1>5. CASE FlushSettles
  <2>1. /\ flush.at = "settling" /\ flush'.at = "correcting" /\ fate' = fate /\ Debounced
        /\ flush'.armed = flush.armed /\ flush'.from = flush.from /\ flush'.upTo = flush.upTo
    BY <1>0, <1>5, <1>t DEF FlushSettles, MarkInv, FlushInv
  <2>2. handled' = IF handled >= flush.upTo THEN handled ELSE flush.upTo
    BY <1>5 DEF FlushSettles, Larger
  <2>3. \A m \in Msgs : m <= handled' => Fated(m)
    BY <1>0, <2>1, <2>2 DEF MarkInv, HandledInv, FlushInv, InBurst
  <2>. QED BY <1>0, <1>1, <2>1, <2>2, <2>3
        DEF MarkInv, RoutesInv, HandledInv, FlushInv, Persists, Safe, Fated, InBurst
<1>6. CASE FlushCorrects
  <2>1. /\ flush.at = "correcting" /\ flush'.at = "idle" /\ UNCHANGED <<fate, handled>>
        /\ flush'.armed = flush.armed
    BY <1>6, <1>t DEF FlushCorrects
  <2>. QED BY <1>0, <1>1, <2>1
        DEF MarkInv, RoutesInv, HandledInv, FlushInv, Persists, Safe, Fated, InBurst
<1>. QED BY <1>2, <1>3, <1>4, <1>5, <1>6

LEMMA TruthFlush ==
    ASSUME Before, FlushStarts \/ FlushEnds \/ FlushFails \/ FlushSettles \/ FlushCorrects
    PROVE  TruthInv'
<1>0. /\ Inv /\ MarkInv /\ sent' \in Nat
      /\ \A a \in Attempts : AttemptTrue(a)
      /\ \A d \in Deliveries : RowTrue(d)
      /\ RowsType /\ LinesType
  BY BeforeParts DEF Inv, Core, Rest
<1>1. MarkInv' /\ Persists
  BY FlushPersists
<1>2. run' = run /\ posts' = posts
  BY DEF FlushStarts, FlushEnds, FlushFails, FlushSettles, FlushCorrects, world
<1>3. \A a \in Attempts : AttemptTrue(a)'
  BY <1>0, <1>1, <1>2, AttemptStays
<1>4. ASSUME NEW d \in Deliveries PROVE RowTrue(d)'
  <2>. DEFINE ds == Covered(InBurst)
  <2>1. ds \in SUBSET Deliveries /\ \A e \in ds : MsgOf[e] \in InBurst
    BY DEF Covered
  <2>2. CASE row' = row
    BY <1>0, <1>1, <1>2, <2>2, RowStays
  <2>3. CASE FlushSettles \/ FlushCorrects
    <3>1. Retires(ds, FALSE) \/ Corrects(ds)
      BY <2>3 DEF FlushSettles, FlushCorrects
    <3>2. \A m \in Msgs : m \in InBurst => Fated(m)
      BY <1>0, <2>3 DEF FlushSettles, FlushCorrects, MarkInv, FlushInv
    <3>. HIDE DEF ds
    <3>3. /\ row'[d].observed = row[d].observed
          /\ row'[d].status = row[d].status
             \/ (row'[d].status = "PROCESSED" /\ d \in ds /\ (row[d].status = "PROCESSING" \/ closings'[d] # 0))
      BY <1>0, <2>1, <3>1, RetiresRows, CorrectsRows
    <3>4. CASE row'[d].status = row[d].status
      BY <1>0, <1>1, <1>2, <3>3, <3>4, RowStays
    <3>5. CASE row'[d].status = "PROCESSED" /\ d \in ds
      <4>1. Safe(MsgOf[d])'
        BY <1>1, <2>1, <3>2, <3>5, RouteParts DEF Safe, Persists
      <4>2. row[d].status = "ABSENT" => row'[d].status # "PROCESSED"
        BY <1>0, <3>1, <2>1 DEF Retires, Live, Corrects, RowsType, RowType
      <4>. QED BY <1>0, <1>1, <1>2, <3>3, <3>5, <4>1, <4>2, RowStays
    <3>. QED BY <3>3, <3>4, <3>5
  <2>4. row' = row \/ FlushSettles \/ FlushCorrects
    BY DEF FlushStarts, FlushEnds, FlushFails, data
  <2>. QED BY <2>2, <2>3, <2>4
<1>. QED BY <1>1, <1>3, <1>4 DEF TruthInv

---------------------------------------------------------------------------
(* The steps of an attempt.                                                 *)

LEMMA NoRunIdle == NoRun.at = "idle" /\ ~NoRun.observer
  BY NoRunType

\* The rows stay, and of the attempts one goes on.
LEMMA TruthGoes ==
    ASSUME Before, NEW a \in Attempts, MarkInv', Persists, row' = row, posts' = posts,
           \A b \in Attempts : b # a => run'[b] = run[b],
           AttemptTrue(a)'
    PROVE  TruthInv'
<1>0. /\ Inv /\ sent' \in Nat
      /\ \A b \in Attempts : AttemptTrue(b)
      /\ \A d \in Deliveries : RowTrue(d)
  BY BeforeParts
<1>1. \A b \in Attempts : AttemptTrue(b)'
  BY <1>0, AttemptStays
<1>2. \A d \in Deliveries : RowTrue(d)'
  BY <1>0, RowStays
<1>. QED BY <1>1, <1>2 DEF TruthInv

\* Nothing the marks speak of moves.
Marked == UNCHANGED <<sent, handled, flush, fate, binding>>

LEMMA MarkedStays ==
    ASSUME Before, Marked
    PROVE  MarkInv' /\ Persists
<1>1. Inv /\ MarkInv /\ sent' \in Nat /\ sent <= sent'
  BY BeforeParts DEF Marked
<1>2. \A m \in Msgs : Fated(m) => Fated(m)'
  BY DEF Marked, Fated
<1>. QED BY <1>1, <1>2, SteadyMarks DEF Marked

LEMMA TruthResolve ==
    ASSUME Before, NEW a \in Attempts, Resolve(a)
    PROVE  TruthInv'
<1>0. /\ MarkInv /\ AttemptTrue(a) /\ \A d \in Deliveries : RowTrue(d)
      /\ run \in [Attempts -> RunType]
  BY BeforeParts
<1>1. /\ Marked /\ row' = row /\ posts' = posts /\ run[a].at = "resolving"
      /\ run'[a].at = "claiming" /\ run'[a].observer = Watches(a)
      /\ \A b \in Attempts : b # a => run'[b] = run[b]
  BY <1>0 DEF Resolve, Marked, world, data, turns, RunType
<1>2. MarkInv' /\ Persists
  BY <1>1, MarkedStays
<1>3. a[1] \in Responder => ~Watches(a)
  BY <1>0, AttemptParts, RouteParts DEF Watches, RowTrue, Row
<1>4. Debounced /\ a[1] \in Observer /\ ~Replays(a) => Watches(a)
  BY <1>0 DEF MarkInv, RoutesInv, Watches
<1>5. Msg(a) <= sent'
  BY <1>0, <1>1 DEF AttemptTrue, Marked
<1>6. AttemptTrue(a)'
  BY <1>1, <1>3, <1>4, <1>5 DEF AttemptTrue, Detached, Msg, Replays
<1>. QED BY <1>1, <1>2, <1>6, TruthGoes

LEMMA ThrowsApart ==
    ASSUME Before, NEW a \in Attempts, Throws(a), Persists, run[a].at # "idle"
    PROVE  /\ AttemptTrue(a)'
           /\ \A b \in Attempts : b # a => run'[b] = run[b]
<1>0. Inv /\ AttemptTrue(a) /\ run \in [Attempts -> RunType] /\ sent' \in Nat
  BY BeforeParts
<1>1. /\ run'[a].at \in {"restoring", "idle"}
      /\ (run'[a].observer => run[a].observer)
      /\ \A b \in Attempts : b # a => run'[b] = run[b]
  BY <1>0, NoRunIdle DEF Throws, Stops, RunType
<1>2. Msg(a) <= sent
  BY <1>0 DEF AttemptTrue
<1>3. run'[a].at \notin {"claiming"} \cup Claimed
  BY <1>1 DEF Claimed
<1>4. AttemptTrue(a)'
  BY <1>0, <1>1, <1>2, <1>3, AttemptApart
<1>. QED BY <1>1, <1>4

LEMMA TruthThrows ==
    ASSUME Before, NEW a \in Attempts, ResolutionFails(a) \/ IngestFails(a) \/ CloseFails(a)
    PROVE  TruthInv'
<1>1. Throws(a) /\ Marked /\ row' = row /\ posts' = posts /\ run[a].at # "idle"
  BY DEF ResolutionFails, IngestFails, CloseFails, Marked, world, data, turns
<1>2. MarkInv' /\ Persists
  BY <1>1, MarkedStays
<1>. QED BY <1>1, <1>2, ThrowsApart, TruthGoes

\* An attempt goes on in the claimed half, short of the settlement.
LEMMA GoesShort ==
    ASSUME Before, NEW a \in Attempts, run[a].at \in {"claiming"} \cup Claimed, Persists,
           run'[a].at \in Claimed \ {"settling", "correcting"},
           run'[a].at = "closing" => a[1] \notin Responder,
           run'[a].at = "ingesting" => run[a].observer,
           run'[a].observer = run[a].observer
    PROVE  AttemptTrue(a)'
<1>0. Inv /\ AttemptTrue(a) /\ sent' \in Nat /\ sent \in Nat /\ Msg(a) \in Nat
  BY BeforeParts, AttemptParts, Numbers
<1>1. Msg(a) <= sent'
  BY <1>0 DEF AttemptTrue, Persists, Claimed
<1>2. Debounced => ~Detached(a)
  BY <1>0 DEF AttemptTrue
<1>. QED BY <1>0, <1>1, <1>2 DEF AttemptTrue, Detached, Msg, Replays

LEMMA TruthGoesShort ==
    ASSUME Before, NEW a \in Attempts,
           \/ Decide(a) \/ ArmFails(a) \/ TurnStarts(a) \/ Ingest(a)
           \/ Arm(a) /\ UNCHANGED flush /\ Goes(a, "turning")
    PROVE  TruthInv'
<1>0. run \in [Attempts -> RunType] /\ \A b \in Attempts : AttemptTrue(b)
  BY BeforeParts
<1>1. Marked /\ row' = row /\ posts' = posts
  BY DEF Decide, ArmFails, TurnStarts, Ingest, Arm, Marked, world, data, turns
<1>2. MarkInv' /\ Persists
  BY <1>1, MarkedStays
<1>3. CASE TurnStarts(a)
  <2>1. run' = run
    BY <1>3 DEF TurnStarts
  <2>2. AttemptTrue(a)'
    BY <1>0, <1>2, <2>1, AttemptStays, BeforeParts
  <2>. QED BY <1>1, <1>2, <2>1, <2>2, TruthGoes
<1>4. CASE ~TurnStarts(a)
  <2>1. /\ run[a].at \in {"claiming"} \cup Claimed
        /\ run'[a].at \in Claimed \ {"settling", "correcting"}
        /\ run'[a].at = "closing" => run[a].at = "ingesting"
        /\ run'[a].at = "ingesting" => run[a].observer
        /\ run'[a].observer = run[a].observer
        /\ \A b \in Attempts : b # a => run'[b] = run[b]
    <3>1. CASE Ingest(a)
      <4>1. PICK o \in {"ingested", "off", "threadless"} :
              run' = [run EXCEPT ![a].at = IF o = "ingested" THEN "marking" ELSE "closing",
                                 ![a].outcome = o]
        BY <3>1 DEF Ingest
      <4>2. run[a].at = "ingesting"
        BY <3>1 DEF Ingest
      <4>. QED BY <1>0, <4>1, <4>2 DEF Claimed, RunType
    <3>2. CASE ~Ingest(a)
      BY <1>0, <1>4, <3>2 DEF Decide, ArmFails, Arm, Goes, Claimed, RunType
    <3>. QED BY <3>1, <3>2
  <2>2. run'[a].at = "closing" => a[1] \notin Responder
    BY <1>0, <2>1 DEF AttemptTrue
  <2>3. AttemptTrue(a)'
    BY <1>2, <2>1, <2>2, GoesShort
  <2>. QED BY <1>1, <1>2, <2>1, <2>3, TruthGoes
<1>. QED BY <1>3, <1>4

\* A flush is armed for the message: it is the flush's now, unless the mark has passed it.
LEMMA TruthArm ==
    ASSUME Before, NEW a \in Attempts, Arm(a)
    PROVE  TruthInv'
<1>1. CASE UNCHANGED flush /\ Goes(a, "turning")
  BY <1>1, TruthGoesShort
<1>2. CASE Debounced /\ flush' = [flush EXCEPT !.armed = ArmedAfter] /\ Goes(a, "closing")
  <2>0. /\ Inv /\ MarkInv /\ AttemptTrue(a) /\ sent' \in Nat /\ sent \in Nat
        /\ run \in [Attempts -> RunType] /\ handled \in Nat /\ Msg(a) \in Nat /\ Msg(a) \in Msgs
    BY BeforeParts, Numbers, AttemptParts
  <2>1. /\ UNCHANGED <<sent, posts, row, handled, fate, binding>> /\ run[a].at = "arming"
    BY DEF Arm, world, data
  <2>2. /\ flush'.armed /\ flush'.at = flush.at /\ flush'.from = flush.from
        /\ flush'.upTo = flush.upTo
    BY <1>2, <2>0 DEF ArmedAfter, Inv, Rest, FlushType
  <2>3. MarkInv' /\ Persists
    BY <1>2, <2>0, <2>1, <2>2
    DEF MarkInv, RoutesInv, HandledInv, FlushInv, Persists, Safe, Fated, InBurst
  <2>4. /\ run'[a].at = "closing" /\ run'[a].observer = run[a].observer
        /\ \A b \in Attempts : b # a => run'[b] = run[b]
    BY <1>2, <2>0 DEF Goes, RunType
  <2>5. Msg(a) <= sent /\ ~Detached(a)
    BY <1>2, <2>0, <2>1 DEF AttemptTrue, Claimed
  <2>6. Safe(Msg(a))'
    BY <1>2, <2>0, <2>1, <2>2, <2>5 DEF Safe, Fated, MarkInv, HandledInv, Msg
  <2>7. AttemptTrue(a)'
    BY <2>0, <2>1, <2>4, <2>5, <2>6 DEF AttemptTrue, Detached, Msg, Replays
  <2>. QED BY <2>1, <2>3, <2>4, <2>7, TruthGoes
<1>. QED BY <1>1, <1>2 DEF Arm

\* An attempt settles, corrects or closes with its message fated.
LEMMA GoesFated ==
    ASSUME Before, NEW a \in Attempts, run[a].at \in Claimed, Persists,
           run'[a].at \in {"settling", "correcting", "closing"},
           run'[a].observer = run[a].observer,
           ~Narrow(a) => Fated(Msg(a))'
    PROVE  AttemptTrue(a)'
<1>0. Inv /\ AttemptTrue(a) /\ sent' \in Nat /\ sent \in Nat /\ Msg(a) \in Nat
  BY BeforeParts, AttemptParts, Numbers
<1>1. Msg(a) <= sent'
  BY <1>0 DEF AttemptTrue, Persists, Claimed
<1>2. Debounced => ~Detached(a)
  BY <1>0 DEF AttemptTrue
<1>3. a[1] \in Responder => ~Narrow(a)
  BY <1>0, AttemptParts, RouteParts DEF AttemptTrue, Narrow
<1>. QED BY <1>0, <1>1, <1>2, <1>3 DEF AttemptTrue, Detached, Narrow, Msg, Replays, Safe

LEMMA TruthTurnEnds ==
    ASSUME Before, NEW a \in Attempts, TurnEnds(a)
    PROVE  TruthInv'
<1>0. /\ Inv /\ MarkInv /\ run \in [Attempts -> RunType] /\ Msg(a) \in Msgs
      /\ fate \in [Msgs -> SUBSET {"answered", "decided", "announced", "passed"}]
      /\ sent' \in Nat /\ sent \in Nat
  BY BeforeParts, Numbers, AttemptParts
<1>1. UNCHANGED <<sent, posts, row, handled, flush, binding>> /\ run[a].at = "turning"
  BY DEF TurnEnds, world, data
<1>2. PICK o \in TurnOutcomes(a) :
         /\ run' = [run EXCEPT ![a].outcome = o,
                               ![a].at = IF o = "threw" THEN "failing" ELSE "settling"]
         /\ IF o = "threw" THEN UNCHANGED fate ELSE Becomes({Msg(a)}, o)
  BY DEF TurnEnds
<1>3. /\ run'[a].at = IF o = "threw" THEN "failing" ELSE "settling"
      /\ run'[a].observer = run[a].observer
      /\ \A b \in Attempts : b # a => run'[b] = run[b]
  BY <1>0, <1>2 DEF RunType
<1>4. \A m \in Msgs : Fated(m) => Fated(m)'
  BY <1>0, <1>2 DEF Becomes, Fated
<1>5. MarkInv' /\ Persists
  BY <1>0, <1>1, <1>4, SteadyMarks
<1>6. CASE o = "threw"
  <2>1. AttemptTrue(a)'
    BY <1>1, <1>3, <1>5, <1>6, GoesShort DEF Claimed
  <2>. QED BY <1>1, <1>3, <1>5, <2>1, TruthGoes
<1>7. CASE o # "threw"
  <2>1. Meaning[o] # {}
    BY <1>7 DEF TurnOutcomes, Meaning
  <2>2. fate'[Msg(a)] # {}
    BY <1>0, <1>2, <1>7, <2>1 DEF Becomes
  <2>3. Fated(Msg(a))'
    BY <2>2 DEF Fated, Msg
  <2>4. AttemptTrue(a)'
    BY <1>1, <1>3, <1>5, <1>7, <2>3, GoesFated DEF Claimed
  <2>. QED BY <1>1, <1>3, <1>5, <2>4, TruthGoes
<1>. QED BY <1>6, <1>7

LEMMA TruthAnnounce ==
    ASSUME Before, NEW a \in Attempts, Announce(a)
    PROVE  TruthInv'
<1>0. /\ Inv /\ MarkInv /\ run \in [Attempts -> RunType] /\ Msg(a) \in Msgs
      /\ fate \in [Msgs -> SUBSET {"answered", "decided", "announced", "passed"}]
      /\ sent' \in Nat /\ sent \in Nat
  BY BeforeParts, Numbers, AttemptParts
<1>1. /\ UNCHANGED <<sent, posts, row, handled, flush, binding>> /\ run[a].at = "failing"
      /\ Becomes({Msg(a)}, "threw") /\ Goes(a, "closing")
  BY DEF Announce, world, data, turns
<1>2. /\ run'[a].at = "closing" /\ run'[a].observer = run[a].observer
      /\ \A b \in Attempts : b # a => run'[b] = run[b]
  BY <1>0, <1>1 DEF Goes, RunType
<1>3. \A m \in Msgs : Fated(m) => Fated(m)'
  BY <1>0, <1>1 DEF Becomes, Fated
<1>4. MarkInv' /\ Persists
  BY <1>0, <1>1, <1>3, SteadyMarks
<1>5. fate'[Msg(a)] # {}
  BY <1>0, <1>1 DEF Becomes, Meaning
<1>6. Fated(Msg(a))'
  BY <1>5 DEF Fated, Msg
<1>7. AttemptTrue(a)'
  BY <1>1, <1>2, <1>4, <1>6, GoesFated DEF Claimed
<1>. QED BY <1>1, <1>2, <1>4, <1>7, TruthGoes

LEMMA TruthMark ==
    ASSUME Before, NEW a \in Attempts, Mark(a) \/ MarkFails(a)
    PROVE  TruthInv'
<1>0. /\ Inv /\ MarkInv /\ AttemptTrue(a) /\ run \in [Attempts -> RunType]
      /\ Msg(a) \in Msgs /\ Msg(a) \in Nat /\ Msgs \subseteq Nat
      /\ sent' \in Nat /\ sent \in Nat /\ handled \in Nat /\ flush.from \in Nat
      /\ fate \in [Msgs -> SUBSET {"answered", "decided", "announced", "passed"}]
      /\ owner \in {"bot", "human"} /\ run[a].observer \in BOOLEAN
  BY BeforeParts, Numbers, AttemptParts DEF RunType
<1>1. UNCHANGED <<sent, posts, row, flush, binding>> /\ run[a].at = "marking"
  BY DEF Mark, MarkFails, world, data, turns
<1>2. /\ Msg(a) <= sent /\ (Debounced => ~Detached(a)) /\ (a[1] \in Responder => ~run[a].observer)
  BY <1>0, <1>1 DEF AttemptTrue, Claimed
\* Who marks has decided, but for an observer's bot with no observer and one that may yet answer.
<1>3. ~Detached(a) => Decides(a)
  BY <1>0, AttemptParts, RouteParts DEF Detached, Decides, Acts
<1>4. ~Narrow(a) => Decides(a) /\ ~MayAnswer(a)
  BY <1>0, AttemptParts, RouteParts DEF Narrow, Decides, Acts, MayAnswer
<1>5. CASE MarkFails(a) /\ run[a].observer
  <2>1. Throws(a) /\ Marked
    BY <1>1, <1>5 DEF MarkFails, Marked, data
  <2>2. MarkInv' /\ Persists
    BY <2>1, MarkedStays
  <2>. QED BY <1>1, <2>1, <2>2, ThrowsApart, TruthGoes
<1>6. CASE MarkMeans(a) /\ Goes(a, "settling")
           /\ (handled' = handled
               \/ (~MayAnswer(a) /\ handled' = IF handled >= Msg(a) THEN handled ELSE Msg(a)))
  <2>1. \A m \in Msgs : Fated(m) => Fated(m)'
    BY <1>0, <1>6 DEF MarkMeans, Fated
  <2>2. handled' \in Nat /\ handled <= handled'
    BY <1>0, <1>6
  <2>3. Debounced => \A m \in Msgs : m <= handled' => Fated(m)'
    <3>. SUFFICES ASSUME Debounced, NEW m \in Msgs, m <= handled' PROVE Fated(m)'
      OBVIOUS
    <3>1. CASE m <= handled
      BY <1>0, <2>1, <3>1 DEF MarkInv, HandledInv
    <3>2. CASE ~(m <= handled)
      <4>1. ~MayAnswer(a) /\ m <= Msg(a) /\ Decides(a)
        BY <1>0, <1>2, <1>3, <1>6, <3>2
      <4>2. fate'[m] # {}
        BY <1>0, <1>6, <4>1 DEF MarkMeans
      <4>. QED BY <4>2 DEF Fated
    <3>. QED BY <3>1, <3>2
  <2>4. MarkInv'
    <3>1. RoutesInv'
      BY <1>0, <1>1 DEF MarkInv, RoutesInv
    <3>2. HandledInv'
      BY <2>3 DEF HandledInv
    <3>3. FlushInv'
      BY <1>0, <1>1, <2>1, <2>2 DEF MarkInv, FlushInv, InBurst
    <3>. QED BY <3>1, <3>2, <3>3 DEF MarkInv
  <2>5. Persists
    <3>1. ASSUME NEW m \in Msgs, Safe(m) PROVE Safe(m)'
      <4>1. CASE Fated(m)
        BY <2>1, <4>1 DEF Safe
      <4>2. CASE ~Fated(m)
        <5>1. Debounced
          BY <1>0, <3>1, <4>2 DEF Safe, MarkInv, FlushInv
        <5>. QED BY <1>0, <1>1, <2>2, <2>3, <3>1, <4>2, <5>1 DEF Safe, InBurst
      <4>. QED BY <4>1, <4>2
    <3>. QED BY <1>0, <1>1, <2>1, <3>1 DEF Persists
  <2>6. /\ run'[a].at = "settling" /\ run'[a].observer = run[a].observer
        /\ \A b \in Attempts : b # a => run'[b] = run[b]
    BY <1>0, <1>6 DEF Goes, RunType
  <2>7. ~Narrow(a) => Fated(Msg(a))'
    <3>1. ~Narrow(a) => fate'[Msg(a)] # {}
      BY <1>0, <1>4, <1>6 DEF MarkMeans
    <3>. QED BY <3>1 DEF Fated, Msg
  <2>8. AttemptTrue(a)'
    BY <1>1, <2>5, <2>6, <2>7, GoesFated DEF Claimed
  <2>. QED BY <1>1, <2>4, <2>5, <2>6, <2>8, TruthGoes
<1>. QED BY <1>5, <1>6 DEF Mark, MarkFails, Larger, data

\* A write to the rows of one message, or to one row.
LEMMA TruthWrites ==
    ASSUME Before, NEW a \in Attempts, Marked, posts' = posts,
           \A b \in Attempts : b # a => run'[b] = run[b],
           AttemptTrue(a)',
           \A d \in Deliveries :
             /\ d \in Responder /\ row'[d].observed = "yes" => row[d].observed = "yes"
             /\ row'[d].status # "ABSENT" => MsgOf[d] <= sent
             /\ d \in Responder /\ row'[d].status = "PROCESSED"
                  => row[d].status = "PROCESSED" \/ Safe(MsgOf[d])
    PROVE  TruthInv'
<1>0. /\ Inv /\ sent' \in Nat
      /\ \A b \in Attempts : AttemptTrue(b)
      /\ \A d \in Deliveries : RowTrue(d)
  BY BeforeParts
<1>1. MarkInv' /\ Persists
  BY MarkedStays
<1>2. \A b \in Attempts : AttemptTrue(b)'
  BY <1>0, <1>1, AttemptStays
<1>3. ASSUME NEW d \in Deliveries PROVE RowTrue(d)'
  BY <1>0, <1>1, RowStays DEF Marked
<1>. QED BY <1>1, <1>2, <1>3 DEF TruthInv

LEMMA TruthSettles ==
    ASSUME Before, NEW a \in Attempts, Settle(a) \/ Correct(a) \/ SettleFails(a)
    PROVE  TruthInv'
<1>0. /\ Inv /\ AttemptTrue(a) /\ run \in [Attempts -> RunType] /\ RowsType /\ LinesType
      /\ \A d \in Deliveries : RowTrue(d)
      /\ Narrow(a) \in BOOLEAN
  BY BeforeParts DEF Narrow, Inv, Core, Rest, RunType
<1>1. Marked /\ posts' = posts /\ run[a].at \in {"settling", "correcting"}
  BY DEF Settle, Correct, SettleFails, Marked, world, data, turns
<1>2. MarkInv' /\ Persists
  BY <1>1, MarkedStays
<1>3. /\ run'[a].at \in {"correcting", "closing"} /\ run'[a].observer = run[a].observer
      /\ \A b \in Attempts : b # a => run'[b] = run[b]
  BY <1>0 DEF Settle, Correct, SettleFails, Goes, RunType
<1>4. ~Narrow(a) => Fated(Msg(a))
  BY <1>0, <1>1 DEF AttemptTrue
<1>5. AttemptTrue(a)'
  <2>1. ~Narrow(a) => Fated(Msg(a))'
    BY <1>1, <1>4 DEF Fated, Marked, Msg
  <2>. QED BY <1>1, <1>2, <1>3, <2>1, GoesFated DEF Claimed
<1>6. CASE SettleFails(a)
  <2>1. row' = row
    BY <1>6 DEF SettleFails, data
  <2>. QED BY <1>1, <1>2, <1>3, <1>5, <2>1, TruthGoes
<1>7. CASE Settle(a) \/ Correct(a)
  <2>1. Scope(a) \in SUBSET Deliveries
    BY AttemptParts DEF Scope, Covered
  <2>2. Retires(Scope(a), Narrow(a)) \/ Corrects(Scope(a))
    BY <1>7 DEF Settle, Correct
  <2>3. ASSUME NEW d \in Scope(a), d \in Responder PROVE Safe(MsgOf[d])
    <3>1. CASE Narrow(a)
      <4>1. d = a[1] /\ ~run[a].observer
        BY <1>0, <2>3, <3>1 DEF Scope, AttemptTrue
      <4>. QED BY <2>1, <2>3, <3>1, <4>1, RouteParts DEF Narrow
    <3>2. CASE ~Narrow(a)
      <4>1. MsgOf[d] = Msg(a)
        BY <2>3, <3>2 DEF Scope, Covered
      <4>. QED BY <1>4, <3>2, <4>1 DEF Safe
    <3>. QED BY <3>1, <3>2
  <2>4. ASSUME NEW d \in Deliveries
        PROVE  /\ row'[d].observed = row[d].observed
               /\ row'[d].status # "ABSENT" => row[d].status # "ABSENT"
               /\ row'[d].status = "PROCESSED" => row[d].status = "PROCESSED" \/ d \in Scope(a)
    <3>. DEFINE ds == Scope(a)
                narrow == Narrow(a)
    <3>1. ds \in SUBSET Deliveries /\ narrow \in BOOLEAN /\ (Retires(ds, narrow) \/ Corrects(ds))
      BY <1>0, <2>1, <2>2
    <3>. HIDE DEF ds, narrow
    <3>2. /\ row'[d].observed = row[d].observed
          /\ row'[d].status = row[d].status
             \/ (row'[d].status = "PROCESSED" /\ d \in ds)
      BY <1>0, <3>1, RetiresRows, CorrectsRows
    <3>3. row[d].status = "ABSENT" => row'[d].status # "PROCESSED"
      BY <1>0, <3>1 DEF Retires, Live, Corrects, RowsType, RowType
    <3>. QED BY <3>2, <3>3 DEF ds
  <2>5. \A d \in Deliveries :
          /\ d \in Responder /\ row'[d].observed = "yes" => row[d].observed = "yes"
          /\ row'[d].status # "ABSENT" => MsgOf[d] <= sent
          /\ d \in Responder /\ row'[d].status = "PROCESSED"
                  => row[d].status = "PROCESSED" \/ Safe(MsgOf[d])
    BY <1>0, <2>3, <2>4 DEF RowTrue
  <2>. QED BY <1>1, <1>3, <1>5, <2>5, TruthWrites
<1>. QED BY <1>6, <1>7

LEMMA StopsApart ==
    ASSUME Before, NEW a \in Attempts, Stops(a), Persists
    PROVE  /\ AttemptTrue(a)'
           /\ \A b \in Attempts : b # a => run'[b] = run[b]
<1>0. Inv /\ AttemptTrue(a) /\ run \in [Attempts -> RunType] /\ sent' \in Nat
  BY BeforeParts
<1>1. /\ run'[a].at = "idle" /\ ~run'[a].observer
      /\ \A b \in Attempts : b # a => run'[b] = run[b]
  BY <1>0, NoRunIdle DEF Stops
<1>2. run'[a].at \notin {"claiming"} \cup Claimed
  BY <1>1 DEF Claimed
<1>3. AttemptTrue(a)'
  BY <1>0, <1>1, <1>2, AttemptApart
<1>. QED BY <1>1, <1>3

LEMMA TruthSkip ==
    ASSUME Before, NEW a \in Attempts, Skip(a)
    PROVE  TruthInv'
<1>1. Stops(a) /\ Marked /\ row' = row /\ posts' = posts
  BY DEF Skip, Marked, world, data, turns
<1>2. MarkInv' /\ Persists
  BY <1>1, MarkedStays
<1>. QED BY <1>1, <1>2, StopsApart, TruthGoes

LEMMA TruthClaim ==
    ASSUME Before, NEW a \in Attempts, Claim(a)
    PROVE  TruthInv'
<1>0. /\ AttemptTrue(a) /\ \A d \in Deliveries : RowTrue(d)
      /\ row \in [Deliveries -> RowType] /\ run \in [Attempts -> RunType] /\ a[1] \in Deliveries
  BY BeforeParts, AttemptParts
<1>1. /\ Marked /\ posts' = posts /\ run[a].at = "claiming"
      /\ run' = [run EXCEPT ![a].at = "deciding", ![a].generation = 0]
      /\ row' = [row EXCEPT ![a[1]] =
                   [@ EXCEPT !.status = "PROCESSING", !.stale = FALSE,
                             !.observed = IF run[a].observer THEN "yes" ELSE "no",
                             !.attempts = AttemptsAfter(a)]]
  BY DEF Claim, Marked, world, turns
<1>2. MarkInv' /\ Persists
  BY <1>1, MarkedStays
<1>3. /\ run'[a].at = "deciding" /\ run'[a].observer = run[a].observer
      /\ \A b \in Attempts : b # a => run'[b] = run[b]
  BY <1>0, <1>1 DEF RunType
<1>4. AttemptTrue(a)'
  BY <1>1, <1>2, <1>3, GoesShort DEF Claimed
<1>5. Msg(a) <= sent /\ (a[1] \in Responder => ~run[a].observer)
  BY <1>0, <1>1 DEF AttemptTrue
<1>6. ASSUME NEW d \in Deliveries
      PROVE  /\ d \in Responder /\ row'[d].observed = "yes" => row[d].observed = "yes"
             /\ row'[d].status # "ABSENT" => MsgOf[d] <= sent
             /\ d \in Responder /\ row'[d].status = "PROCESSED"
                  => row[d].status = "PROCESSED" \/ Safe(MsgOf[d])
  <2>1. CASE d = a[1]
    <3>1. /\ row'[d].status = "PROCESSING"
          /\ row'[d].observed = IF run[a].observer THEN "yes" ELSE "no"
      BY <1>0, <1>1, <2>1 DEF RowType
    <3>. QED BY <1>5, <2>1, <3>1 DEF Msg
  <2>2. CASE d # a[1]
    <3>1. row'[d] = row[d]
      BY <1>0, <1>1, <2>2
    <3>. QED BY <1>0, <3>1 DEF RowTrue
  <2>. QED BY <2>1, <2>2
<1>. QED BY <1>1, <1>3, <1>4, <1>6, TruthWrites

LEMMA TruthClose ==
    ASSUME Before, NEW a \in Attempts, Close(a)
    PROVE  TruthInv'
<1>0. /\ Inv /\ AttemptTrue(a) /\ \A d \in Deliveries : RowTrue(d)
      /\ row \in [Deliveries -> RowType] /\ run \in [Attempts -> RunType] /\ a[1] \in Deliveries
      /\ sent' \in Nat
  BY BeforeParts, AttemptParts
<1>1. /\ Marked /\ posts' = posts /\ run[a].at = "closing"
      /\ row' = [row EXCEPT ![a[1]].status = "PROCESSED"]
      /\ Goes(a, "judging") \/ Stops(a)
  BY DEF Close, Marked, world, turns
<1>2. MarkInv' /\ Persists
  BY <1>1, MarkedStays
<1>3. /\ AttemptTrue(a)'
      /\ \A b \in Attempts : b # a => run'[b] = run[b]
  <2>1. CASE Stops(a)
    BY <1>2, <2>1, StopsApart
  <2>2. CASE Goes(a, "judging")
    <3>1. /\ run'[a].at = "judging" /\ run'[a].observer = run[a].observer
          /\ \A b \in Attempts : b # a => run'[b] = run[b]
      BY <1>0, <2>2 DEF Goes, RunType
    <3>2. Msg(a) <= sent /\ run'[a].at \notin {"claiming"} \cup Claimed
      BY <1>0, <1>1, <3>1 DEF AttemptTrue, Claimed
    <3>3. AttemptTrue(a)'
      BY <1>0, <1>2, <3>1, <3>2, AttemptApart
    <3>. QED BY <3>1, <3>3
  <2>. QED BY <1>1, <2>1, <2>2
<1>5. Msg(a) <= sent /\ (a[1] \in Responder => Safe(Msg(a)))
  BY <1>0, <1>1 DEF AttemptTrue
<1>6. ASSUME NEW d \in Deliveries
      PROVE  /\ d \in Responder /\ row'[d].observed = "yes" => row[d].observed = "yes"
             /\ row'[d].status # "ABSENT" => MsgOf[d] <= sent
             /\ d \in Responder /\ row'[d].status = "PROCESSED"
                  => row[d].status = "PROCESSED" \/ Safe(MsgOf[d])
  <2>1. CASE d = a[1]
    <3>1. row'[d].observed = row[d].observed /\ Msg(a) = MsgOf[d]
      BY <1>0, <1>1, <2>1 DEF RowType, Msg
    <3>. QED BY <1>5, <2>1, <3>1
  <2>2. CASE d # a[1]
    <3>1. row'[d] = row[d]
      BY <1>0, <1>1, <2>2
    <3>. QED BY <1>0, <3>1 DEF RowTrue
  <2>. QED BY <2>1, <2>2
<1>. QED BY <1>1, <1>3, <1>6, TruthWrites

LEMMA TruthStep ==
    ASSUME Before, NEW a \in Attempts, Step(a)
    PROVE  TruthInv'
BY TruthResolve, TruthThrows, TruthClaim, TruthSkip, TruthGoesShort, TruthArm, TruthTurnEnds,
   TruthAnnounce, TruthMark, TruthSettles, TruthClose DEF Step

---------------------------------------------------------------------------
(* A recovery, a crash, and the theorem.                                    *)

LEMMA RecoveryRuns ==
    ASSUME Before, NEW d \in Deliveries, Recovers(d), Persists
    PROVE  /\ AttemptTrue(Replay(d))'
           /\ \A b \in Attempts : b # Replay(d) => run'[b] = run[b]
<1>. DEFINE a == Replay(d)
<1>0. /\ Inv /\ RowTrue(d) /\ run \in [Attempts -> RunType] /\ sent' \in Nat
      /\ a \in Attempts /\ a[1] = d /\ AttemptTrue(a)
  BY BeforeParts, ReplayParts
<1>. HIDE DEF a
<1>1. \/ run' = run
      \/ Stops(a)
      \/ row[d].status = "DEAD" /\ run' = [run EXCEPT ![a] = [NoRun EXCEPT !.at = "reading"]]
      \/ run[a].at \in {"reading", "fencing"} /\ (Goes(a, "fencing") \/ Goes(a, "resolving"))
  BY DEF Recovers, RecoveryStarts, RecoveryReads, RecoveryFences, RecoveryRestores, RecoveryJudges,
         PutBackFails, a
<1>2. CASE run' = run
  BY <1>0, <1>2, AttemptStays DEF a
<1>3. CASE Stops(a)
  BY <1>0, <1>3, StopsApart DEF a
<1>4. CASE row[d].status = "DEAD" /\ run' = [run EXCEPT ![a] = [NoRun EXCEPT !.at = "reading"]]
  <2>1. run'[a].at = "reading" /\ ~run'[a].observer
    BY <1>0, <1>4 DEF NoRun
  <2>2. Msg(a) <= sent /\ run'[a].at \notin {"claiming"} \cup Claimed
    BY <1>0, <1>4, <2>1 DEF RowTrue, Msg, Claimed
  <2>3. AttemptTrue(a)'
    BY <1>0, <2>1, <2>2, AttemptApart
  <2>. QED BY <1>4, <2>3 DEF a
<1>5. CASE run[a].at \in {"reading", "fencing"} /\ (Goes(a, "fencing") \/ Goes(a, "resolving"))
  <2>1. /\ run'[a].at \in {"fencing", "resolving"} /\ run'[a].observer = run[a].observer
        /\ \A b \in Attempts : b # a => run'[b] = run[b]
    BY <1>0, <1>5 DEF Goes, RunType
  <2>2. Msg(a) <= sent /\ run'[a].at \notin {"claiming"} \cup Claimed
    BY <1>0, <1>5, <2>1 DEF AttemptTrue, Claimed
  <2>3. AttemptTrue(a)'
    BY <1>0, <2>1, <2>2, AttemptApart
  <2>. QED BY <2>1, <2>3 DEF a
<1>. QED BY <1>1, <1>2, <1>3, <1>4, <1>5

LEMMA TruthRecovers ==
    ASSUME Before, NEW d \in Deliveries, Recovers(d)
    PROVE  TruthInv'
<1>0. /\ \A e \in Deliveries : RowTrue(e)
      /\ row \in [Deliveries -> RowType] /\ Replay(d) \in Attempts
  BY BeforeParts, ReplayParts
<1>1. /\ Marked /\ posts' = posts
      /\ row' = row \/ PutBack(d, "PROCESSING") \/ PutBack(d, "PROCESSED")
  BY DEF Recovers, RecoveryStarts, RecoveryReads, RecoveryFences, RecoveryRestores, RecoveryJudges,
         PutBackFails, Marked, world, data, turns
<1>2. MarkInv' /\ Persists
  BY <1>1, MarkedStays
<1>3. /\ AttemptTrue(Replay(d))'
      /\ \A b \in Attempts : b # Replay(d) => run'[b] = run[b]
  BY <1>2, RecoveryRuns
<1>4. ASSUME NEW e \in Deliveries
      PROVE  /\ e \in Responder /\ row'[e].observed = "yes" => row[e].observed = "yes"
             /\ row'[e].status # "ABSENT" => MsgOf[e] <= sent
             /\ e \in Responder /\ row'[e].status = "PROCESSED"
                  => row[e].status = "PROCESSED" \/ Safe(MsgOf[e])
  <2>1. /\ row'[e].observed = row[e].observed
        /\ \/ row'[e].status = row[e].status
           \/ row'[e].status = "DEAD" /\ row[e].status \in {"PROCESSING", "PROCESSED"}
    <3>1. CASE row' = row
      BY <3>1
    <3>2. ASSUME NEW from \in {"PROCESSING", "PROCESSED"}, PutBack(d, from)
          PROVE  /\ row'[e].observed = row[e].observed
                 /\ \/ row'[e].status = row[e].status
                    \/ row'[e].status = "DEAD" /\ row[e].status = from
      BY <1>0, <3>2 DEF PutBack, RowType
    <3>. QED BY <1>1, <3>1, <3>2
  <2>. QED BY <1>0, <2>1 DEF RowTrue
<1>. QED BY <1>0, <1>1, <1>3, <1>4, TruthWrites

LEMMA TruthCrash ==
    ASSUME Before, NEW p \in Procs, Crash(p)
    PROVE  TruthInv'
<1>0. /\ Inv /\ MarkInv /\ run \in [Attempts -> RunType] /\ sent' \in Nat /\ sent \in Nat
      /\ \A a \in Attempts : AttemptTrue(a)
      /\ \A d \in Deliveries : RowTrue(d)
      /\ FlushType
  BY BeforeParts DEF Inv, Rest
<1>1. UNCHANGED <<sent, posts, row, handled, fate, binding>>
  BY DEF Crash, world, data
<1>2. MarkInv' /\ Persists
  <2>1. CASE flush' = flush
    BY <1>1, <2>1, MarkedStays DEF Marked
  <2>2. CASE flush' = [flush EXCEPT !.at = "idle", !.armed = @ \/ flush.at # "idle"]
    <3>. DEFINE late == flush.armed \/ flush.at # "idle"
    <3>1. late \in BOOLEAN /\ flush' = [flush EXCEPT !.at = "idle", !.armed = late]
      BY <2>2
    <3>. HIDE DEF late
    <3>2. flush'.at = "idle" /\ flush'.armed = late
      BY <1>0, <3>1 DEF FlushType
    <3>3. flush'.armed <=> flush.armed \/ flush.at # "idle"
      BY <3>2 DEF late
    <3>. QED BY <1>0, <1>1, <3>2, <3>3
          DEF MarkInv, RoutesInv, HandledInv, FlushInv, Persists, Safe, Fated, InBurst
  <2>. QED BY <2>1, <2>2 DEF Crash
<1>3. ASSUME NEW a \in Attempts PROVE AttemptTrue(a)'
  <2>1. run'[a] = run[a] \/ run'[a] = NoRun
    BY DEF Crash
  <2>2. CASE run'[a] = run[a]
    BY <1>0, <1>2, <2>2, AttemptStays
  <2>3. CASE run'[a] = NoRun
    <3>1. run'[a].at = "idle" /\ ~run'[a].observer
      BY <2>3, NoRunIdle
    <3>2. run'[a].at \notin {"claiming"} \cup Claimed
      BY <3>1 DEF Claimed
    <3>. QED BY <1>0, <1>2, <3>1, <3>2, AttemptApart
  <2>. QED BY <2>1, <2>2, <2>3
<1>4. \A d \in Deliveries : RowTrue(d)'
  BY <1>0, <1>1, <1>2, RowStays
<1>. QED BY <1>2, <1>3, <1>4 DEF TruthInv

LEMMA TruthInitially == Init => TruthInv
<1>. SUFFICES ASSUME Init PROVE TruthInv
  OBVIOUS
<1>1. MarkInv
  BY ConstantsAssumption
  DEF Init, MarkInv, RoutesInv, HandledInv, FlushInv, Bindings, Msgs, ConstantsAssumption
<1>2. ASSUME NEW a \in Attempts PROVE AttemptTrue(a)
  <2>1. run[a].at = "idle" /\ ~run[a].observer
    BY NoRunIdle DEF Init
  <2>. QED BY <2>1 DEF AttemptTrue, Claimed
<1>3. ASSUME NEW d \in Deliveries PROVE RowTrue(d)
  BY DEF Init, RowTrue, NoRow
<1>. QED BY <1>1, <1>2, <1>3 DEF TruthInv

LEMMA TruthInductive ==
    ASSUME RoutesStay, Before, [Next]_vars
    PROVE  TruthInv'
<1>1. ASSUME NEW a \in Attempts, Step(a) PROVE TruthInv'
  BY <1>1, TruthStep
<1>2. ASSUME NEW d \in Deliveries, Recovers(d) PROVE TruthInv'
  BY <1>2, TruthRecovers
<1>3. ASSUME NEW r \in Bindings, BindingMoves(r) PROVE TruthInv'
  BY <1>3, TruthMoves
<1>4. ASSUME NEW p \in Procs, Crash(p) PROVE TruthInv'
  BY <1>4, TruthCrash
<1>5. CASE FlushStarts \/ FlushEnds \/ FlushFails \/ FlushSettles \/ FlushCorrects
  BY <1>5, TruthFlush
<1>6. CASE \/ CustomerWrites \/ HumanTakes
           \/ \E d \in Deliveries : ReceiptFails(d) \/ Ages(d) \/ SweepTakes(d)
           \/ \E d \in Deliveries, k \in Kinds, p \in Procs : Receives(d, k, p)
           \/ SweepArms \/ SweepReports
           \/ \E h \in Attempts \cup {Burst} : HoldExpires(h)
  BY <1>6, TruthWorld
<1>7. CASE UNCHANGED vars
  <2>1. Marked /\ row' = row /\ posts' = posts /\ run' = run
    BY <1>7 DEF vars, world, data, turns, Marked
  <2>2. MarkInv' /\ Persists
    BY <2>1, MarkedStays
  <2>3. \A a \in Attempts : AttemptTrue(a)'
    BY <2>1, <2>2, AttemptStays, BeforeParts
  <2>4. \A d \in Deliveries : RowTrue(d)'
    BY <2>1, <2>2, RowStays, BeforeParts
  <2>. QED BY <2>2, <2>3, <2>4 DEF TruthInv
<1>. QED BY <1>1, <1>2, <1>3, <1>4, <1>5, <1>6, <1>7 DEF Next

\* Where the rows tell the truth no loss is quiet.
LEMMA TruthTells == Inv /\ TruthInv => NoQuietLoss
  BY RouteParts DEF TruthInv, RowTrue, Safe, Fated, NoQuietLoss, Owed, Deliveries

\* A row of the responder's that closed and that nobody is at work on tells the
\* truth, whatever fails, crashes or stalls: the message was answered, decided or
\* announced, or the flush still reaches it.  The hypothesis keeps the observer's
\* bot its observer where messages wait for a flush; ledger_detached shows the
\* loss without it.
THEOREM ClosedRowsTell ==
    ASSUME RoutesStay PROVE Spec => []NoQuietLoss
<1>1. Init => Inv /\ TruthInv
  BY Initially, TruthInitially
<1>2. Inv /\ TruthInv /\ [Next]_vars => Inv' /\ TruthInv'
  BY Inductive, TruthInductive DEF Before
<1>. QED BY <1>1, <1>2, TruthTells, PTL DEF Spec

=============================================================================
