--------------------------- MODULE SchedulerProofs ---------------------------
(***************************************************************************)
(* Proofs about Scheduler, for every set of keys, every assignment of      *)
(* lanes and every bound: the type invariant; one run at most that may     *)
(* still write on a row, from a fresh snapshot; a run called off that      *)
(* stays called off; a tombstone that only new work removes; the queue as  *)
(* an implementation of WorkLedger; and deaths announced only while they   *)
(* stand.                                                                  *)
(*                                                                         *)
(* The argument: every statement lets a row evolve in one direction only   *)
(* (Evolves), every claim hands out a token no earlier run has seen        *)
(* (TokensPast), so two runs never share one (TokensUnique) and a row that *)
(* is still CLAIMED under a run's token was not touched since that claim   *)
(* (IInv).  A run follows the run it was (Continues), which gives what it  *)
(* and its row know of each other (WInv); a pending announcement follows   *)
(* its death (DeathsFollow), which gives that the death stands (DInv).     *)
(***************************************************************************)
EXTENDS Scheduler, TLAPS

\* No two runs were handed the same claim.
TokensUnique ==
    \A r1, r2 \in runs : r1.key = r2.key /\ r1.id = r2.id /\ r1.seq = r2.seq => r1 = r2

\* A run's claim is not in its row's future.
TokensPast ==
    \A r \in runs : r.id <= rows[r.key].id /\ (SameRow(r) => r.seq <= rows[r.key].seq)

IInv == TypeOK /\ TokensUnique /\ TokensPast /\ HolderIsCurrent

\* What any statement does to a row, seen from a run that holds an older snapshot of it.
Evolves(old, new) ==
    /\ new.id >= old.id
    /\ new.id = old.id /\ new.status # "ABSENT" => old.status # "ABSENT" /\ new.seq >= old.seq
    /\ new.id = old.id /\ new.status = "CLAIMED" =>
        \/ new.seq > old.seq
        \/ /\ old.status = "CLAIMED" /\ new.seq = old.seq
           /\ new.work = old.work /\ new.attempts = old.attempts
    /\ new.status = "DEAD" => /\ new.id = old.id
                              /\ \/ old.status = "DEAD"
                                 \/ old.status = "CLAIMED" /\ new.seq = old.seq

\* The commands that also mark the runs whose work they call off.
CallsOff(k) == Retire(k) \/ BookingTombstones(k) \/ CancelThreadAppointments(k)

\* A run of the next state that some earlier run became.
Continues(r, q) ==
    /\ q.key = r.key /\ q.id = r.id /\ q.seq = r.seq
    /\ q.work = r.work /\ q.attempts = r.attempts /\ q.cancelled = r.cancelled
    /\ q.calledOff => r.calledOff \/ (CallsOff(r.key) /\ SameRow(r))
    /\ q.stage = "notice" => r.stage = "notice" \/ (HandlerFails(r) /\ Holds(r))

----------------------------------------------------------------------------
(* The statements keep a row a row and let it evolve. *)

LEMMA EvolvesSelf == \A row \in Row : Evolves(row, row)
  BY DEF Row, Evolves

LEMMA RowFields ==
    ASSUME NEW row \in Row
    PROVE  /\ row.id \in Nat /\ row.status \in Statuses /\ row.attempts \in Nat
           /\ row.seq \in Nat /\ row.work \in Nat /\ row.due \in BOOLEAN
           /\ row.erred \in BOOLEAN /\ row.cancelled \in BOOLEAN /\ row.stale \in BOOLEAN
  BY DEF Row

LEMMA StatusValues ==
    /\ "ABSENT" \in Statuses /\ "PENDING" \in Statuses /\ "CLAIMED" \in Statuses
    /\ "DONE" \in Statuses /\ "DEAD" \in Statuses
  BY DEF Statuses

LEMMA NoRowStep ==
    ASSUME NEW row \in Row
    PROVE  NoRow(row.id) \in Row /\ Evolves(row, NoRow(row.id))
  BY DEF Row, NoRow, Evolves, Statuses

LEMMA ClaimedStep ==
    ASSUME NEW row \in Row, row.status = "PENDING"
    PROVE  /\ Claimed(row) \in Row
           /\ Evolves(row, Claimed(row))
           /\ Claimed(row).seq > row.seq /\ Claimed(row).id = row.id
           /\ Claimed(row).status = "CLAIMED"
<1>1. Claimed(row) \in Row
  <2>1. NextSeq(row) \in Nat
    BY RowFields DEF NextSeq
  <2>. QED BY <2>1, StatusValues, Zenon DEF Row, Claimed
<1>2. /\ Claimed(row).seq = row.seq + 1 /\ Claimed(row).id = row.id
      /\ Claimed(row).status = "CLAIMED"
  BY DEF Row, Claimed, NextSeq
<1>. QED BY <1>1, <1>2, RowFields DEF Evolves

LEMMA ArmedStep ==
    ASSUME NEW k \in Keys, NEW row \in Row, NEW work \in Nat, NEW due \in BOOLEAN
    PROVE  Armed(k, row, work, due) \in Row /\ Evolves(row, Armed(k, row, work, due))
<1>. DEFINE new == Armed(k, row, work, due)
<1>1. CASE row.status = "ABSENT"
  <2>1. NoRow(row.id + 1) \in Row
    BY RowFields DEF Row, NoRow, Statuses
  <2>2. new \in Row
    BY <1>1, <2>1, StatusValues, Zenon DEF Armed, Row
  <2>3. new.id = row.id + 1 /\ new.status = "PENDING"
    BY <1>1, RowFields DEF Armed, NoRow
  <2>. QED BY <2>2, <2>3, RowFields DEF Evolves
<1>2. CASE row.status # "ABSENT"
  <2>1. (IF KeepsBudget(k, row) THEN row.attempts ELSE 0) \in Nat
    BY RowFields
  <2>2. new \in Row
    BY <1>2, <2>1, StatusValues, Zenon DEF Armed, Row
  <2>3. new.id = row.id /\ new.seq = row.seq /\ new.status = "PENDING"
    BY <1>2 DEF Armed, Row
  <2>. QED BY <1>2, <2>2, <2>3, RowFields DEF Evolves
<1>. QED BY <1>1, <1>2

LEMMA CompletedStep ==
    ASSUME NEW k \in Keys, NEW row \in Row, row.status # "ABSENT"
    PROVE  Completed(k, row) \in Row /\ Evolves(row, Completed(k, row))
<1>1. CASE k \in DeleteKeys
  BY <1>1, NoRowStep DEF Completed
<1>2. CASE k \notin DeleteKeys
  <2>1. Completed(k, row) \in Row
    BY <1>2, StatusValues, Zenon DEF Completed, Row
  <2>2. /\ Completed(k, row).id = row.id /\ Completed(k, row).seq = row.seq
        /\ Completed(k, row).status = "DONE"
    BY <1>2 DEF Completed, Row
  <2>. QED BY <2>1, <2>2, RowFields DEF Evolves
<1>. QED BY <1>1, <1>2

LEMMA RescheduledStep ==
    ASSUME NEW r \in Run, NEW row \in Row, row.status # "ABSENT"
    PROVE  Rescheduled(r, row) \in Row /\ Evolves(row, Rescheduled(r, row))
<1>1. MarkAfterReschedule(r, row) \in BOOLEAN
  BY RowFields DEF MarkAfterReschedule, Run
<1>2. Rescheduled(r, row) \in Row
  BY <1>1, StatusValues, Zenon DEF Rescheduled, Row
<1>3. /\ Rescheduled(r, row).id = row.id /\ Rescheduled(r, row).seq = row.seq
      /\ Rescheduled(r, row).status = "PENDING"
  BY DEF Rescheduled, Row
<1>. QED BY <1>2, <1>3, RowFields DEF Evolves

LEMMA NextStatusType ==
    ASSUME NEW n \in Nat
    PROVE  NextStatus(n) \in Statuses /\ NextStatus(n) \in {"PENDING", "DEAD"}
  BY DEF NextStatus, Statuses

LEMMA FailedStep ==
    ASSUME NEW r \in Run, NEW row \in Row, row.status = "CLAIMED"
    PROVE  Failed(r, row) \in Row /\ Evolves(row, Failed(r, row))
<1>1. r.attempts \in Nat /\ r.attempts + 1 \in Nat
  BY DEF Run
<1>2. Failed(r, row) \in Row
  BY <1>1, NextStatusType, Zenon DEF Failed, Row
<1>3. /\ Failed(r, row).id = row.id /\ Failed(r, row).seq = row.seq
      /\ Failed(r, row).status = NextStatus(r.attempts)
  BY DEF Failed, Row
<1>. QED BY <1>1, <1>2, <1>3, NextStatusType, RowFields DEF Evolves

LEMMA ReapedStep ==
    ASSUME NEW row \in Row, row.status = "CLAIMED"
    PROVE  /\ Reaped(row) \in Row /\ Evolves(row, Reaped(row))
           /\ Reaped(row).id = row.id /\ Reaped(row).seq = row.seq
<1>1. row.attempts \in Nat /\ row.attempts + 1 \in Nat
  BY RowFields
<1>2. Reaped(row) \in Row
  BY <1>1, NextStatusType, Zenon DEF Reaped, Row
<1>3. /\ Reaped(row).id = row.id /\ Reaped(row).seq = row.seq
      /\ Reaped(row).status = NextStatus(row.attempts)
  BY DEF Reaped, Row
<1>. QED BY <1>1, <1>2, <1>3, NextStatusType, RowFields DEF Evolves

LEMMA CancelledPendingStep ==
    ASSUME NEW row \in Row
    PROVE  CancelledPending(row) \in Row /\ Evolves(row, CancelledPending(row))
<1>1. CASE row.status = "PENDING"
  <2>1. CancelledPending(row) \in Row
    BY <1>1, StatusValues, Zenon DEF CancelledPending, Row
  <2>2. /\ CancelledPending(row).id = row.id /\ CancelledPending(row).seq = row.seq
        /\ CancelledPending(row).status = "DONE"
    BY <1>1 DEF CancelledPending, Row
  <2>. QED BY <1>1, <2>1, <2>2, RowFields DEF Evolves
<1>2. CASE row.status # "PENDING"
  BY <1>2, EvolvesSelf DEF CancelledPending
<1>. QED BY <1>1, <1>2

LEMMA RetiredStep ==
    ASSUME NEW row \in Row
    PROVE  Retired(row) \in Row /\ Evolves(row, Retired(row))
<1>1. CASE row.status \in {"PENDING", "CLAIMED"}
  <2>1. NextSeq(row) \in Nat
    BY RowFields DEF NextSeq
  <2>2. Retired(row) \in Row
    BY <1>1, <2>1, StatusValues, Zenon DEF Retired, Row
  <2>3. Retired(row).id = row.id /\ Retired(row).seq = row.seq + 1 /\ Retired(row).status = "DONE"
    BY <1>1 DEF Retired, Row, NextSeq
  <2>. QED BY <1>1, <2>2, <2>3, RowFields DEF Evolves
<1>2. CASE row.status \notin {"PENDING", "CLAIMED"}
  BY <1>2, EvolvesSelf DEF Retired
<1>. QED BY <1>1, <1>2

LEMMA TombstonedStep ==
    ASSUME NEW row \in Row, NEW moves \in BOOLEAN
    PROVE  Tombstoned(row, moves) \in Row /\ Evolves(row, Tombstoned(row, moves))
<1>1. CASE row.status = "ABSENT"
  BY <1>1, EvolvesSelf DEF Tombstoned
<1>2. CASE row.status # "ABSENT"
  <2>. DEFINE n == IF moves THEN row.seq + 1 ELSE row.seq
  <2>1. n \in Nat /\ n >= row.seq
    BY RowFields
  <2>2. Tombstoned(row, moves) = [row EXCEPT !.cancelled = TRUE, !.seq = n]
    BY <1>2 DEF Tombstoned
  <2>. HIDE DEF n
  <2>3. Tombstoned(row, moves) \in Row
    BY <2>1, <2>2, Zenon DEF Row
  <2>4. /\ Tombstoned(row, moves).id = row.id /\ Tombstoned(row, moves).seq = n
        /\ Tombstoned(row, moves).status = row.status /\ Tombstoned(row, moves).work = row.work
        /\ Tombstoned(row, moves).attempts = row.attempts
    BY <2>2 DEF Row
  <2>. QED BY <1>2, <2>1, <2>3, <2>4, RowFields DEF Evolves
<1>. QED BY <1>1, <1>2

LEMMA ThreadCancelledStep ==
    ASSUME NEW row \in Row
    PROVE  ThreadCancelled(row) \in Row /\ Evolves(row, ThreadCancelled(row))
<1>1. CASE row.status = "ABSENT"
  BY <1>1, EvolvesSelf DEF ThreadCancelled
<1>2. CASE row.status # "ABSENT"
  <2>1. row.seq + 1 \in Nat
    BY RowFields
  <2>2. (IF row.status \in {"PENDING", "CLAIMED"} THEN "DONE" ELSE row.status) \in Statuses
    BY RowFields, StatusValues
  <2>3. ThreadCancelled(row) \in Row
    BY <1>2, <2>1, <2>2, Zenon DEF ThreadCancelled, Row
  <2>4. /\ ThreadCancelled(row).id = row.id /\ ThreadCancelled(row).seq = row.seq + 1
        /\ ThreadCancelled(row).status = "CLAIMED" => FALSE
        /\ ThreadCancelled(row).status = "DEAD" => row.status = "DEAD"
    BY <1>2 DEF ThreadCancelled, Row
  <2>. QED BY <1>2, <2>3, <2>4, RowFields DEF Evolves
<1>. QED BY <1>1, <1>2

----------------------------------------------------------------------------
(* Type correctness *)

LEMMA RowUpdateType ==
    ASSUME rows \in [Keys -> Row], NEW k \in Keys, NEW new \in Row
    PROVE  [rows EXCEPT ![k] = new] \in [Keys -> Row]
  OBVIOUS

LEMMA CalledOffWorkType ==
    ASSUME TypeOK, NEW k \in Keys
    PROVE  CalledOffWork(k) \subseteq Nat
  BY RowFields DEF CalledOffWork, TypeOK

LEMMA CallOffType ==
    ASSUME TypeOK, NEW k \in Keys, CallOff(k)
    PROVE  withdrawn' \subseteq Nat /\ runs' \subseteq Run
<1>2. withdrawn' \subseteq Nat
  BY CalledOffWorkType DEF CallOff
<1>3. \A r \in runs : [r EXCEPT !.calledOff = TRUE] \in Run
  <2>. SUFFICES ASSUME NEW r \in Run PROVE [r EXCEPT !.calledOff = TRUE] \in Run
    BY DEF TypeOK
  <2>. QED BY Zenon DEF Run
<1>. QED BY <1>2, <1>3 DEF CallOff, TypeOK

LEMMA ArmRowType ==
    ASSUME TypeOK, NEW k \in Keys, NEW due \in BOOLEAN, ArmRow(k, due)
    PROVE  rows' \in [Keys -> Row] /\ arms' \in Nat /\ owedNotice' \subseteq Death
<1>1. arms + 1 \in Nat /\ rows[k] \in Row
  BY DEF TypeOK
<1>2. Armed(k, rows[k], arms + 1, due) \in Row
  BY <1>1, ArmedStep
<1>. QED BY <1>1, <1>2 DEF ArmRow, TypeOK, WithoutKey

LEMMA ProducerType == \A k \in Keys : TypeOK /\ Producer(k) => TypeOK'
<1>. SUFFICES ASSUME NEW k \in Keys, TypeOK, Producer(k) PROVE TypeOK'
  OBVIOUS
<1>. USE DEF boundVars
<1>0. rows[k] \in Row
  BY DEF TypeOK
<1>1. CASE \E due \in BOOLEAN : Arm(k, due)
  BY <1>1, ArmRowType DEF TypeOK, Arm
<1>2. CASE CancelPending(k)
  BY <1>0, <1>2, CancelledPendingStep, CalledOffWorkType DEF TypeOK, CancelPending
<1>3. CASE Retire(k)
  BY <1>0, <1>3, RetiredStep, CallOffType DEF TypeOK, Retire
<1>4. CASE Revoke(k)
  BY <1>0, <1>4, NoRowStep, CalledOffWorkType DEF TypeOK, Revoke, WithoutKey
<1>5. CASE \E next \in {"tombstone", "tombstoneAndMove"} : BookingCancelsPending(k, next)
  <2>1. PICK next \in {"tombstone", "tombstoneAndMove"} : BookingCancelsPending(k, next)
    BY <1>5
  <2>2. rows' \in [Keys -> Row]
    BY <1>0, <2>1, CancelledPendingStep DEF BookingCancelsPending, TypeOK
  <2>3. booking' \in [Keys -> {"idle", "tombstone", "tombstoneAndMove", "rearm"}]
    BY <2>1 DEF BookingCancelsPending, TypeOK
  <2>4. withdrawn' \subseteq Nat
    <3>1. CalledOffWork(k) \subseteq Nat /\ withdrawn \subseteq Nat
      BY CalledOffWorkType DEF TypeOK
    <3>2. withdrawn' = CalledOffWork(k) \/ withdrawn' = withdrawn
      BY <2>1 DEF BookingCancelsPending
    <3>. QED BY <3>1, <3>2
  <2>5. calls' \in Nat
    BY <2>1 DEF BookingCancelsPending, TypeOK
  <2>. QED BY <2>1, <2>2, <2>3, <2>4, <2>5 DEF TypeOK, BookingCancelsPending
<1>6. CASE BookingTombstones(k)
  <2>. DEFINE moves == booking[k] = "tombstoneAndMove"
  <2>1. Tombstoned(rows[k], moves) \in Row
    BY <1>0, TombstonedStep
  <2>2. rows' \in [Keys -> Row]
    BY <1>6, <2>1 DEF BookingTombstones, TypeOK
  <2>3. booking' \in [Keys -> {"idle", "tombstone", "tombstoneAndMove", "rearm"}]
    BY <1>6 DEF BookingTombstones, TypeOK
  <2>4. owedNotice' \subseteq Death
    BY <1>6 DEF BookingTombstones, TypeOK, WithoutKey
  <2>. QED BY <1>6, <2>2, <2>3, <2>4, CallOffType DEF TypeOK, BookingTombstones
<1>7. CASE BookingRearms(k)
  <2>1. rows' \in [Keys -> Row] /\ arms' \in Nat /\ owedNotice' \subseteq Death
    BY <1>7, ArmRowType DEF BookingRearms, TypeOK
  <2>. QED BY <1>7, <2>1 DEF TypeOK, BookingRearms
<1>8. CASE CancelThreadAppointments(k)
  BY <1>0, <1>8, ThreadCancelledStep, CallOffType
     DEF TypeOK, CancelThreadAppointments, WithoutKey
<1>. QED BY <1>1, <1>2, <1>3, <1>4, <1>5, <1>6, <1>7, <1>8 DEF Producer

LEMMA WorkersAreWorkers == Lanes \subseteq Workers /\ "shared" \in Workers
  BY DEF Workers, Lanes

LEMMA RunOfType ==
    ASSUME NEW k \in Keys, NEW row \in Row, NEW w \in Workers
    PROVE  RunOf(k, row, w) \in Run
  BY RowFields DEF RunOf, Run

LEMMA ClaimRowsType ==
    ASSUME TypeOK, NEW w \in Workers, NEW traffic, NEW limit, ClaimRows(w, traffic, limit)
    PROVE  rows' \in [Keys -> Row] /\ runs' \subseteq Run
<1>1. PICK S \in SUBSET Claimable(w, traffic) :
          /\ rows' = [k \in Keys |-> IF k \in S THEN Claimed(rows[k]) ELSE rows[k]]
          /\ runs' = runs \cup {RunOf(k, Claimed(rows[k]), w) : k \in S}
  BY DEF ClaimRows
<1>2. \A k \in S : k \in Keys /\ Claimed(rows[k]) \in Row
  BY ClaimedStep DEF Claimable, TypeOK
<1>3. rows' \in [Keys -> Row]
  BY <1>1, <1>2 DEF TypeOK
<1>4. \A k \in S : RunOf(k, Claimed(rows[k]), w) \in Run
  BY <1>2, RunOfType
<1>. QED BY <1>1, <1>3, <1>4 DEF TypeOK

LEMMA AnnounceType ==
    ASSUME TypeOK, NEW d \in Death, Announce(d)
    PROVE  reported' \subseteq Death /\ owedNotice' \subseteq Death
<1>1. CASE StillDead(d)
  BY <1>1 DEF TypeOK, Announce
<1>2. CASE ~StillDead(d)
  BY <1>2 DEF TypeOK, Announce
<1>. QED BY <1>1, <1>2

LEMMA WorkerType == \A w \in Workers : TypeOK /\ (Worker(w) \/ ClaimTraffic) => TypeOK'
<1>. SUFFICES ASSUME NEW w \in Workers, TypeOK, Worker(w) \/ ClaimTraffic PROVE TypeOK'
  OBVIOUS
<1>. USE DEF boundVars, historyVars
<1>1. CASE StartTick(w)
  <2>. DEFINE reaped == [k \in Keys |-> IF k \in ToReap(w) THEN Reaped(rows[k]) ELSE rows[k]]
              deaths == {DeathOf(k, rows[k]) : k \in {x \in ToReap(w) : reaped[x].status = "DEAD"}}
  <2>1. ToReap(w) \subseteq Keys
    BY LaneAssumption DEF ToReap, ReapScope, Workers, Lanes
  <2>2. \A k \in ToReap(w) : Reaped(rows[k]) \in Row
    BY <2>1, ReapedStep DEF ToReap, TypeOK
  <2>3. reaped \in [Keys -> Row]
    BY <2>2 DEF TypeOK
  <2>4. deaths \subseteq Death
    <3>1. \A k \in ToReap(w) : DeathOf(k, rows[k]) \in Death
      BY <2>1, RowFields DEF DeathOf, Death, TypeOK
    <3>. QED BY <3>1
  <2>5. /\ rows' = reaped /\ dying' = [dying EXCEPT ![w] = deaths]
        /\ owedNotice' = owedNotice \cup deaths
        /\ tick' = [tick EXCEPT ![w] = IF deaths = {} THEN "claim" ELSE "announce"]
    BY <1>1 DEF StartTick, ToAnnounce
  <2>. HIDE DEF reaped, deaths
  <2>6. dying' \in [Workers -> SUBSET Death] /\ owedNotice' \subseteq Death
    BY <2>4, <2>5 DEF TypeOK
  <2>7. tick' \in [Workers -> {"idle", "announce", "claim", "traffic", "drain"}]
    BY <2>5 DEF TypeOK
  <2>. QED BY <1>1, <2>3, <2>5, <2>6, <2>7 DEF TypeOK, StartTick
<1>2. CASE AnnounceReaped(w)
  <2>1. PICK d \in dying[w] :
            /\ Announce(d)
            /\ dying' = [dying EXCEPT ![w] = @ \ {d}]
            /\ tick' = [tick EXCEPT ![w] = IF dying[w] = {d} THEN "claim" ELSE @]
    BY <1>2 DEF AnnounceReaped
  <2>2. d \in Death
    BY <2>1 DEF TypeOK
  <2>3. reported' \subseteq Death /\ owedNotice' \subseteq Death
    BY <2>1, <2>2, AnnounceType
  <2>4. dying' \in [Workers -> SUBSET Death]
    BY <2>1 DEF TypeOK
  <2>5. tick' \in [Workers -> {"idle", "announce", "claim", "traffic", "drain"}]
    BY <2>1 DEF TypeOK
  <2>. QED BY <1>2, <2>3, <2>4, <2>5 DEF TypeOK, AnnounceReaped
<1>3. CASE NoticeLost(w)
  <2>1. PICK d \in dying[w] :
            /\ owedNotice' = owedNotice \ {d}
            /\ dying' = [dying EXCEPT ![w] = @ \ {d}]
            /\ tick' = [tick EXCEPT ![w] = IF dying[w] = {d} THEN "claim" ELSE @]
    BY <1>3 DEF NoticeLost
  <2>2. dying' \in [Workers -> SUBSET Death] /\ owedNotice' \subseteq Death
    BY <2>1 DEF TypeOK
  <2>3. tick' \in [Workers -> {"idle", "announce", "claim", "traffic", "drain"}]
    BY <2>1 DEF TypeOK
  <2>. QED BY <1>3, <2>2, <2>3 DEF TypeOK, NoticeLost
<1>4. CASE ClaimBatch(w)
  <2>1. rows' \in [Keys -> Row] /\ runs' \subseteq Run
    BY <1>4, ClaimRowsType DEF ClaimBatch
  <2>2. tick' \in [Workers -> {"idle", "announce", "claim", "traffic", "drain"}]
    BY <1>4 DEF TypeOK, ClaimBatch, AfterClaim
  <2>. QED BY <1>4, <2>1, <2>2 DEF TypeOK, ClaimBatch
<1>5. CASE ClaimTraffic
  <2>1. rows' \in [Keys -> Row] /\ runs' \subseteq Run
    BY <1>5, ClaimRowsType, WorkersAreWorkers DEF ClaimTraffic
  <2>2. tick' \in [Workers -> {"idle", "announce", "claim", "traffic", "drain"}]
    BY <1>5 DEF TypeOK, ClaimTraffic, AfterClaim
  <2>. QED BY <1>5, <2>1, <2>2 DEF TypeOK, ClaimTraffic
<1>6. CASE EndTick(w)
  <2>1. tick' \in [Workers -> {"idle", "announce", "claim", "traffic", "drain"}]
    BY <1>6 DEF TypeOK, EndTick
  <2>. QED BY <1>6, <2>1 DEF TypeOK, EndTick
<1>. QED BY <1>1, <1>2, <1>3, <1>4, <1>5, <1>6 DEF Worker

LEMMA WithRunRow ==
    ASSUME TypeOK, NEW r \in runs
    PROVE  r \in Run /\ r.key \in Keys /\ rows[r.key] \in Row /\ r.work \in Nat
  BY DEF TypeOK, Run

LEMMA HoldsPresent == \A r \in runs : Holds(r) => rows[r.key].status = "CLAIMED"
  BY DEF Holds

LEMMA OutcomeType == \A r \in runs : TypeOK /\ (Outcome(r) \/ WriteLost(r)) => TypeOK'
<1>. SUFFICES ASSUME NEW r \in runs, TypeOK, Outcome(r) \/ WriteLost(r) PROVE TypeOK'
  OBVIOUS
<1>. USE DEF boundVars, historyVars
<1>0. r \in Run /\ r.key \in Keys /\ rows[r.key] \in Row /\ r.work \in Nat
  BY WithRunRow
<1>a. ASSUME Holds(r) PROVE rows[r.key].status = "CLAIMED"
  BY <1>a, HoldsPresent
<1>1. CASE HandlerDone(r)
  <2>1. rows' \in [Keys -> Row]
    BY <1>0, <1>a, <1>1, CompletedStep DEF HandlerDone, TypeOK
  <2>. QED BY <1>0, <1>1, <2>1 DEF TypeOK, HandlerDone, Settled
<1>2. CASE HandlerStandsDown(r)
  <2>1. rows' \in [Keys -> Row]
    BY <1>0, <1>a, <1>2, CompletedStep DEF HandlerStandsDown, TypeOK
  <2>. QED BY <1>2, <2>1 DEF TypeOK, HandlerStandsDown, Settled
<1>3. CASE HandlerReschedules(r)
  <2>1. rows' \in [Keys -> Row]
    BY <1>0, <1>a, <1>3, RescheduledStep DEF HandlerReschedules, TypeOK
  <2>. QED BY <1>3, <2>1 DEF TypeOK, HandlerReschedules, Settled
<1>4. CASE HandlerFails(r)
  <2>1. rows' \in [Keys -> Row]
    BY <1>0, <1>a, <1>4, FailedStep DEF HandlerFails, TypeOK
  <2>2. [r EXCEPT !.stage = "notice"] \in Run
    BY <1>0, Zenon DEF Run
  <2>3. runs' \subseteq Run
    BY <1>4, <2>2 DEF HandlerFails, TypeOK
  <2>4. DeathOf(r.key, rows[r.key]) \in Death
    BY <1>0, RowFields DEF DeathOf, Death
  <2>5. owedNotice' \subseteq Death
    BY <1>4, <2>4 DEF HandlerFails, TypeOK
  <2>. QED BY <1>4, <2>1, <2>3, <2>5 DEF TypeOK, HandlerFails
<1>5. CASE RunAnnounces(r)
  <2>1. RunDeath(r) \in Death
    BY <1>0 DEF RunDeath, Death, Run
  <2>2. reported' \subseteq Death /\ owedNotice' \subseteq Death
    BY <1>5, <2>1, AnnounceType DEF RunAnnounces
  <2>. QED BY <1>5, <2>2 DEF TypeOK, RunAnnounces, Settled
<1>6. CASE WriteLost(r)
  BY <1>6 DEF TypeOK, WriteLost, Settled
<1>. QED BY <1>1, <1>2, <1>3, <1>4, <1>5, <1>6 DEF Outcome

LEMMA TimeType == \A k \in Keys : TypeOK /\ (BecomesDue(k) \/ GoesStale(k)) => TypeOK'
<1>. SUFFICES ASSUME NEW k \in Keys, TypeOK, BecomesDue(k) \/ GoesStale(k) PROVE TypeOK'
  OBVIOUS
<1>1. [rows[k] EXCEPT !.due = TRUE] \in Row /\ [rows[k] EXCEPT !.stale = TRUE] \in Row
  <2>. SUFFICES ASSUME NEW row \in Row
                PROVE  [row EXCEPT !.due = TRUE] \in Row /\ [row EXCEPT !.stale = TRUE] \in Row
    BY DEF TypeOK
  <2>. QED BY Zenon DEF Row
<1>2. rows' \in [Keys -> Row]
  BY <1>1 DEF BecomesDue, GoesStale, TypeOK
<1>. QED BY <1>2 DEF TypeOK, BecomesDue, GoesStale, boundVars, historyVars

LEMMA CrashType == TypeOK /\ Crash => TypeOK'
  BY DEF TypeOK, Crash

LEMMA TypeInit == Init => TypeOK
<1>. SUFFICES ASSUME Init PROVE TypeOK
  OBVIOUS
<1>1. NoRow(0) \in Row
  BY DEF NoRow, Row, Statuses
<1>. QED BY <1>1 DEF Init, TypeOK

LEMMA TypeStep == TypeOK /\ [Next]_vars => TypeOK'
<1>. SUFFICES ASSUME TypeOK, [Next]_vars PROVE TypeOK'
  OBVIOUS
<1>1. CASE \E k \in Keys : Producer(k) \/ BecomesDue(k) \/ GoesStale(k)
  BY <1>1, ProducerType, TimeType
<1>2. CASE \E w \in Enabled : Worker(w)
  BY <1>2, WorkerType, BoundAssumption
<1>3. CASE ClaimTraffic
  BY <1>3, WorkerType, WorkersAreWorkers
<1>4. CASE \E r \in runs : Outcome(r) \/ WriteLost(r)
  BY <1>4, OutcomeType
<1>5. CASE Crash
  BY <1>5, CrashType
<1>6. CASE UNCHANGED vars
  BY <1>6 DEF TypeOK, vars, queueVars, boundVars, historyVars
<1>. QED BY <1>1, <1>2, <1>3, <1>4, <1>5, <1>6 DEF Next

\* Every variable of the queue keeps its type.
THEOREM TypeCorrect == Spec => []TypeOK
  BY TypeInit, TypeStep, PTL DEF Spec

----------------------------------------------------------------------------
(* Every step lets every row evolve. *)

RowsEvolve == \A k \in Keys : Evolves(rows[k], rows'[k])

LEMMA OneRowEvolves ==
    ASSUME TypeOK, NEW k \in Keys, NEW new \in Row, Evolves(rows[k], new),
           rows' = [rows EXCEPT ![k] = new]
    PROVE  RowsEvolve
<1>. SUFFICES ASSUME NEW j \in Keys PROVE Evolves(rows[j], rows'[j])
  BY DEF RowsEvolve
<1>1. CASE j = k
  BY <1>1 DEF TypeOK
<1>2. CASE j # k
  <2>1. rows'[j] = rows[j] /\ rows[j] \in Row
    BY <1>2 DEF TypeOK
  <2>. QED BY <2>1, EvolvesSelf
<1>. QED BY <1>1, <1>2

LEMMA NoRowMoves == ASSUME TypeOK, UNCHANGED rows PROVE RowsEvolve
  BY EvolvesSelf DEF TypeOK, RowsEvolve

LEMMA ArmRowEvolves ==
    ASSUME TypeOK, NEW k \in Keys, NEW due \in BOOLEAN, ArmRow(k, due)
    PROVE  RowsEvolve
<1>1. arms + 1 \in Nat /\ rows[k] \in Row
  BY DEF TypeOK
<1>. QED BY <1>1, ArmedStep, OneRowEvolves DEF ArmRow

LEMMA ProducerEvolves == \A k \in Keys : TypeOK /\ Producer(k) => RowsEvolve
<1>. SUFFICES ASSUME NEW k \in Keys, TypeOK, Producer(k) PROVE RowsEvolve
  OBVIOUS
<1>0. rows[k] \in Row
  BY DEF TypeOK
<1>1. CASE \E due \in BOOLEAN : Arm(k, due)
  BY <1>1, ArmRowEvolves DEF Arm
<1>2. CASE CancelPending(k) \/ \E next \in {"tombstone", "tombstoneAndMove"} :
                                   BookingCancelsPending(k, next)
  BY <1>0, <1>2, CancelledPendingStep, OneRowEvolves DEF CancelPending, BookingCancelsPending
<1>3. CASE Retire(k)
  BY <1>0, <1>3, RetiredStep, OneRowEvolves DEF Retire
<1>4. CASE Revoke(k)
  BY <1>0, <1>4, NoRowStep, OneRowEvolves DEF Revoke
<1>5. CASE BookingTombstones(k)
  <2>. DEFINE moves == booking[k] = "tombstoneAndMove"
  <2>1. Tombstoned(rows[k], moves) \in Row /\ Evolves(rows[k], Tombstoned(rows[k], moves))
    BY <1>0, TombstonedStep
  <2>2. rows' = [rows EXCEPT ![k] = Tombstoned(rows[k], moves)]
    BY <1>5 DEF BookingTombstones
  <2>. QED BY <2>1, <2>2, OneRowEvolves
<1>6. CASE BookingRearms(k)
  BY <1>6, ArmRowEvolves, NoRowMoves DEF BookingRearms
<1>7. CASE CancelThreadAppointments(k)
  BY <1>0, <1>7, ThreadCancelledStep, OneRowEvolves DEF CancelThreadAppointments
<1>. QED BY <1>1, <1>2, <1>3, <1>4, <1>5, <1>6, <1>7 DEF Producer

LEMMA ClaimRowsEvolves ==
    ASSUME TypeOK, NEW w, NEW traffic, NEW limit, ClaimRows(w, traffic, limit)
    PROVE  RowsEvolve
<1>1. PICK S \in SUBSET Claimable(w, traffic) :
          rows' = [k \in Keys |-> IF k \in S THEN Claimed(rows[k]) ELSE rows[k]]
  BY DEF ClaimRows
<1>2. \A k \in S : Evolves(rows[k], Claimed(rows[k]))
  BY ClaimedStep DEF Claimable, TypeOK
<1>. QED BY <1>1, <1>2, EvolvesSelf DEF RowsEvolve, TypeOK

LEMMA WorkerEvolves == \A w \in Workers : TypeOK /\ (Worker(w) \/ ClaimTraffic) => RowsEvolve
<1>. SUFFICES ASSUME NEW w \in Workers, TypeOK, Worker(w) \/ ClaimTraffic PROVE RowsEvolve
  OBVIOUS
<1>1. CASE StartTick(w)
  <2>1. rows' = [k \in Keys |-> IF k \in ToReap(w) THEN Reaped(rows[k]) ELSE rows[k]]
    BY <1>1 DEF StartTick
  <2>2. \A k \in Keys : k \in ToReap(w) => Evolves(rows[k], Reaped(rows[k]))
    BY ReapedStep DEF ToReap, TypeOK
  <2>. QED BY <2>1, <2>2, EvolvesSelf DEF RowsEvolve, TypeOK
<1>2. CASE AnnounceReaped(w) \/ NoticeLost(w) \/ EndTick(w)
  BY <1>2, NoRowMoves DEF AnnounceReaped, NoticeLost, EndTick
<1>3. CASE ClaimBatch(w) \/ ClaimTraffic
  BY <1>3, ClaimRowsEvolves DEF ClaimBatch, ClaimTraffic
<1>. QED BY <1>1, <1>2, <1>3 DEF Worker

LEMMA OutcomeEvolves == \A r \in runs : TypeOK /\ (Outcome(r) \/ WriteLost(r)) => RowsEvolve
<1>. SUFFICES ASSUME NEW r \in runs, TypeOK, Outcome(r) \/ WriteLost(r) PROVE RowsEvolve
  OBVIOUS
<1>0. r \in Run /\ r.key \in Keys /\ rows[r.key] \in Row
  BY WithRunRow
<1>1. CASE UNCHANGED rows
  BY <1>1, NoRowMoves
<1>2. CASE /\ Holds(r)
           /\ \/ rows' = [rows EXCEPT ![r.key] = Completed(r.key, rows[r.key])]
              \/ rows' = [rows EXCEPT ![r.key] = Rescheduled(r, rows[r.key])]
              \/ rows' = [rows EXCEPT ![r.key] = Failed(r, rows[r.key])]
  <2>1. rows[r.key].status = "CLAIMED"
    BY <1>2, HoldsPresent
  <2>. QED BY <1>0, <1>2, <2>1, CompletedStep, RescheduledStep, FailedStep, OneRowEvolves
<1>3. UNCHANGED rows
      \/ /\ Holds(r)
         /\ \/ rows' = [rows EXCEPT ![r.key] = Completed(r.key, rows[r.key])]
            \/ rows' = [rows EXCEPT ![r.key] = Rescheduled(r, rows[r.key])]
            \/ rows' = [rows EXCEPT ![r.key] = Failed(r, rows[r.key])]
  BY DEF Outcome, HandlerDone, HandlerStandsDown, HandlerReschedules, HandlerFails,
         RunAnnounces, WriteLost
<1>. QED BY <1>1, <1>2, <1>3

LEMMA TimeEvolves == \A k \in Keys : TypeOK /\ (BecomesDue(k) \/ GoesStale(k)) => RowsEvolve
<1>. SUFFICES ASSUME NEW k \in Keys, TypeOK, BecomesDue(k) \/ GoesStale(k) PROVE RowsEvolve
  OBVIOUS
<1>1. \A row \in Row :
        /\ [row EXCEPT !.due = TRUE] \in Row /\ [row EXCEPT !.stale = TRUE] \in Row
        /\ Evolves(row, [row EXCEPT !.due = TRUE]) /\ Evolves(row, [row EXCEPT !.stale = TRUE])
  <2>. SUFFICES ASSUME NEW row \in Row
                PROVE  /\ [row EXCEPT !.due = TRUE] \in Row
                       /\ [row EXCEPT !.stale = TRUE] \in Row
                       /\ Evolves(row, [row EXCEPT !.due = TRUE])
                       /\ Evolves(row, [row EXCEPT !.stale = TRUE])
    OBVIOUS
  <2>1. [row EXCEPT !.due = TRUE] \in Row /\ [row EXCEPT !.stale = TRUE] \in Row
    BY Zenon DEF Row
  <2>2. Evolves(row, [row EXCEPT !.due = TRUE]) /\ Evolves(row, [row EXCEPT !.stale = TRUE])
    BY DEF Row, Evolves
  <2>. QED BY <2>1, <2>2
<1>. QED BY <1>1, OneRowEvolves DEF BecomesDue, GoesStale, TypeOK

LEMMA StepEvolves == TypeOK /\ [Next]_vars => RowsEvolve
<1>. SUFFICES ASSUME TypeOK, [Next]_vars PROVE RowsEvolve
  OBVIOUS
<1>1. CASE \E k \in Keys : Producer(k) \/ BecomesDue(k) \/ GoesStale(k)
  BY <1>1, ProducerEvolves, TimeEvolves
<1>2. CASE (\E w \in Enabled : Worker(w)) \/ ClaimTraffic
  BY <1>2, WorkerEvolves, BoundAssumption, WorkersAreWorkers
<1>3. CASE \E r \in runs : Outcome(r) \/ WriteLost(r)
  BY <1>3, OutcomeEvolves
<1>4. CASE Crash \/ UNCHANGED vars
  BY <1>4, NoRowMoves DEF Crash, vars, queueVars
<1>. QED BY <1>1, <1>2, <1>3, <1>4 DEF Next

----------------------------------------------------------------------------
(* Where the runs of the next state come from. *)

\* A run a claim has just produced: its token is new, its snapshot is the row.
Fresh(q) ==
    /\ rows'[q.key].status = "CLAIMED" /\ q.stage = "handler" /\ ~q.calledOff
    /\ q.id = rows'[q.key].id /\ q.id = rows[q.key].id /\ rows[q.key].status = "PENDING"
    /\ q.seq = rows'[q.key].seq /\ q.seq > rows[q.key].seq
    /\ q.work = rows'[q.key].work /\ q.attempts = rows'[q.key].attempts
    /\ q.cancelled = rows'[q.key].cancelled

RunsFollow == \A q \in runs' : Fresh(q) \/ \E r \in runs : Continues(r, q)

LEMMA ContinuesSelf == \A r : Continues(r, r)
  BY DEF Continues

LEMMA FewerRuns ==
    ASSUME TokensUnique, runs' \subseteq runs
    PROVE  RunsFollow /\ TokensUnique'
  BY ContinuesSelf DEF RunsFollow, TokensUnique

LEMMA CallOffFollows ==
    ASSUME TypeOK, TokensUnique, NEW k \in Keys, CallsOff(k)
    PROVE  RunsFollow /\ TokensUnique'
<1>. DEFINE mark(r) == IF r.key = k /\ SameRow(r) /\ r.stage = "handler"
                       THEN [r EXCEPT !.calledOff = TRUE] ELSE r
<1>1. runs' = {mark(r) : r \in runs}
  BY DEF CallsOff, Retire, BookingTombstones, CancelThreadAppointments, CallOff
<1>2. \A r \in runs : Continues(r, mark(r))
  <2>. SUFFICES ASSUME NEW r \in runs PROVE Continues(r, mark(r))
    OBVIOUS
  <2>1. CASE r.key = k /\ SameRow(r) /\ r.stage = "handler"
    BY <2>1 DEF TypeOK, Run, Continues
  <2>2. CASE ~(r.key = k /\ SameRow(r) /\ r.stage = "handler")
    BY <2>2, ContinuesSelf
  <2>. QED BY <2>1, <2>2
<1>. HIDE DEF mark
<1>3. RunsFollow
  BY <1>1, <1>2 DEF RunsFollow
<1>4. TokensUnique'
  <2>. SUFFICES ASSUME NEW q1 \in runs', NEW q2 \in runs',
                       q1.key = q2.key, q1.id = q2.id, q1.seq = q2.seq
                PROVE  q1 = q2
    BY DEF TokensUnique
  <2>1. PICK r1 \in runs, r2 \in runs : q1 = mark(r1) /\ q2 = mark(r2)
    BY <1>1
  <2>2. r1.key = r2.key /\ r1.id = r2.id /\ r1.seq = r2.seq
    BY <1>2, <2>1 DEF Continues
  <2>. QED BY <2>1, <2>2 DEF TokensUnique
<1>. QED BY <1>3, <1>4

LEMMA ClaimRowsFollows ==
    ASSUME TypeOK, TokensUnique, TokensPast, NEW w, NEW traffic, NEW limit,
           ClaimRows(w, traffic, limit)
    PROVE  RunsFollow /\ TokensUnique'
<1>1. PICK S \in SUBSET Claimable(w, traffic) :
          /\ rows' = [k \in Keys |-> IF k \in S THEN Claimed(rows[k]) ELSE rows[k]]
          /\ runs' = runs \cup {RunOf(k, Claimed(rows[k]), w) : k \in S}
  BY DEF ClaimRows
<1>. DEFINE new(k) == RunOf(k, Claimed(rows[k]), w)
<1>2. \A k \in S :
        /\ k \in Keys /\ rows[k] \in Row /\ rows[k].status = "PENDING"
        /\ Claimed(rows[k]).seq > rows[k].seq /\ Claimed(rows[k]).id = rows[k].id
        /\ Claimed(rows[k]).status = "CLAIMED"
  BY ClaimedStep DEF Claimable, TypeOK
<1>3. \A k \in S : /\ new(k).key = k /\ new(k).id = rows[k].id /\ new(k).seq = Claimed(rows[k]).seq
                   /\ new(k).work = Claimed(rows[k]).work
                   /\ new(k).attempts = Claimed(rows[k]).attempts
                   /\ new(k).cancelled = Claimed(rows[k]).cancelled
                   /\ new(k).stage = "handler" /\ ~new(k).calledOff
  BY <1>2 DEF RunOf
<1>4. \A k \in S : rows'[k] = Claimed(rows[k])
  BY <1>1, <1>2
<1>5. runs' = runs \cup {new(k) : k \in S}
  BY <1>1
<1>. HIDE DEF new
<1>6. \A k \in S : Fresh(new(k))
  BY <1>2, <1>3, <1>4 DEF Fresh
<1>7. RunsFollow
  BY <1>5, <1>6, ContinuesSelf DEF RunsFollow
<1>8. \A r \in runs, k \in S :
        ~(r.key = new(k).key /\ r.id = new(k).id /\ r.seq = new(k).seq)
  <2>. SUFFICES ASSUME NEW r \in runs, NEW k \in S, r.key = k, r.id = rows[k].id,
                       r.seq = Claimed(rows[k]).seq
                PROVE  FALSE
    BY <1>3
  <2>1. SameRow(r)
    BY <1>2 DEF SameRow
  <2>2. r.seq <= rows[k].seq
    BY <2>1 DEF TokensPast
  <2>3. rows[k].seq \in Nat /\ r.seq \in Nat
    BY <1>2, RowFields, WithRunRow DEF Run
  <2>. QED BY <1>2, <2>2, <2>3
<1>9. TokensUnique'
  <2>. SUFFICES ASSUME NEW q1 \in runs', NEW q2 \in runs',
                       q1.key = q2.key, q1.id = q2.id, q1.seq = q2.seq
                PROVE  q1 = q2
    BY DEF TokensUnique
  <2>1. CASE q1 \in runs /\ q2 \in runs
    BY <2>1 DEF TokensUnique
  <2>2. CASE q1 \notin runs \/ q2 \notin runs
    BY <1>3, <1>5, <1>8, <2>2
  <2>. QED BY <2>1, <2>2
<1>. QED BY <1>7, <1>9

LEMMA FailsFollows ==
    ASSUME TypeOK, TokensUnique, NEW r \in runs, HandlerFails(r)
    PROVE  RunsFollow /\ TokensUnique'
<1>. DEFINE q == [r EXCEPT !.stage = "notice"]
<1>1. r \in Run
  BY WithRunRow
<1>3. runs' \subseteq runs \ {r} \/ (Holds(r) /\ runs' = (runs \ {r}) \cup {q})
  BY DEF HandlerFails
<1>2. Holds(r) => Continues(r, q)
  BY <1>1 DEF Run, Continues
<1>. HIDE DEF q
<1>4. RunsFollow
  BY <1>2, <1>3, ContinuesSelf DEF RunsFollow
<1>5. Holds(r) => \A p \in runs \ {r} : ~(p.key = q.key /\ p.id = q.id /\ p.seq = q.seq)
  BY <1>2 DEF TokensUnique, Continues
<1>6. TokensUnique'
  BY <1>3, <1>5 DEF TokensUnique
<1>. QED BY <1>4, <1>6

LEMMA StepFollows ==
    TypeOK /\ TokensUnique /\ TokensPast /\ [Next]_vars => RunsFollow /\ TokensUnique'
<1>. SUFFICES ASSUME TypeOK, TokensUnique, TokensPast, [Next]_vars
              PROVE  RunsFollow /\ TokensUnique'
  OBVIOUS
<1>1. ASSUME NEW k \in Keys, Producer(k) \/ BecomesDue(k) \/ GoesStale(k)
      PROVE  runs' = runs \/ CallsOff(k)
  BY <1>1 DEF Producer, BecomesDue, GoesStale, Arm, CancelPending, Revoke,
              BookingCancelsPending, BookingRearms, CallsOff
<1>2. ASSUME NEW w, Worker(w) \/ ClaimTraffic
      PROVE  runs' = runs \/ \E x, traffic, limit : ClaimRows(x, traffic, limit)
  <2>1. CASE StartTick(w) \/ AnnounceReaped(w) \/ NoticeLost(w) \/ EndTick(w)
    BY <2>1 DEF StartTick, AnnounceReaped, NoticeLost, EndTick
  <2>2. CASE ClaimBatch(w) \/ ClaimTraffic
    BY <2>2 DEF ClaimBatch, ClaimTraffic
  <2>. QED BY <1>2, <2>1, <2>2 DEF Worker
<1>3. ASSUME NEW r \in runs, Outcome(r) \/ WriteLost(r)
      PROVE  runs' \subseteq runs \/ HandlerFails(r)
  BY <1>3 DEF Outcome, WriteLost, HandlerDone, HandlerStandsDown, HandlerReschedules,
              RunAnnounces, Settled
<1>4. CASE \E k \in Keys : Producer(k) \/ BecomesDue(k) \/ GoesStale(k)
  BY <1>1, <1>4, CallOffFollows, FewerRuns
<1>5. CASE (\E w \in Enabled : Worker(w)) \/ ClaimTraffic
  BY <1>2, <1>5, ClaimRowsFollows, FewerRuns
<1>6. CASE \E r \in runs : Outcome(r) \/ WriteLost(r)
  BY <1>3, <1>6, FailsFollows, FewerRuns
<1>7. CASE Crash \/ UNCHANGED vars
  BY <1>7, FewerRuns DEF Crash, vars, queueVars
<1>. QED BY <1>4, <1>5, <1>6, <1>7 DEF Next

----------------------------------------------------------------------------
(* The invariant *)

LEMMA IInvInit == Init => IInv
  BY TypeInit DEF Init, IInv, TokensUnique, TokensPast, HolderIsCurrent

\* What a run keeps when its row evolves.
LEMMA FollowedRun ==
    ASSUME NEW old \in Row, NEW new \in Row, Evolves(old, new),
           NEW r \in Run, r.id <= old.id,
           old.status # "ABSENT" /\ old.id = r.id => r.seq <= old.seq,
           old.status = "CLAIMED" /\ old.id = r.id /\ old.seq = r.seq
               => r.work = old.work /\ r.attempts = old.attempts
    PROVE  /\ r.id <= new.id
           /\ new.status # "ABSENT" /\ new.id = r.id => r.seq <= new.seq
           /\ new.status = "CLAIMED" /\ new.id = r.id /\ new.seq = r.seq
                  => r.work = new.work /\ r.attempts = new.attempts
<1>1. old.id \in Nat /\ new.id \in Nat /\ old.seq \in Nat /\ new.seq \in Nat
  BY RowFields
<1>2. r.id \in Nat /\ r.seq \in Nat
  BY DEF Run
<1>. QED BY <1>1, <1>2 DEF Evolves

LEMMA IInvStep == IInv /\ [Next]_vars => IInv'
<1>. SUFFICES ASSUME IInv, [Next]_vars PROVE IInv'
  OBVIOUS
<1>1. TypeOK /\ TypeOK' /\ RowsEvolve /\ RunsFollow /\ TokensUnique'
  BY TypeStep, StepEvolves, StepFollows DEF IInv
<1>2. ASSUME NEW q \in runs'
      PROVE  /\ q.id <= rows'[q.key].id
             /\ rows'[q.key].status # "ABSENT" /\ rows'[q.key].id = q.id
                    => q.seq <= rows'[q.key].seq
             /\ rows'[q.key].status = "CLAIMED" /\ rows'[q.key].id = q.id
                    /\ rows'[q.key].seq = q.seq
                    => q.work = rows'[q.key].work /\ q.attempts = rows'[q.key].attempts
  <2>0. q \in Run /\ q.key \in Keys /\ rows[q.key] \in Row /\ rows'[q.key] \in Row
    BY <1>1 DEF TypeOK, Run
  <2>1. CASE Fresh(q)
    BY <2>0, <2>1, RowFields DEF Fresh
  <2>2. CASE \E r \in runs : Continues(r, q)
    <3>1. PICK r \in runs : Continues(r, q)
      BY <2>2
    <3>2. r \in Run /\ r.key = q.key
      BY <1>1, <3>1 DEF TypeOK, Continues
    <3>3. /\ r.id <= rows[r.key].id
          /\ rows[r.key].status # "ABSENT" /\ rows[r.key].id = r.id => r.seq <= rows[r.key].seq
          /\ rows[r.key].status = "CLAIMED" /\ rows[r.key].id = r.id /\ rows[r.key].seq = r.seq
                 => r.work = rows[r.key].work /\ r.attempts = rows[r.key].attempts
      BY DEF IInv, TokensPast, HolderIsCurrent, SameRow, Holds
    <3>4. Evolves(rows[r.key], rows'[r.key])
      BY <1>1, <2>0, <3>2 DEF RowsEvolve
    <3>5. /\ r.id <= rows'[r.key].id
          /\ rows'[r.key].status # "ABSENT" /\ rows'[r.key].id = r.id
                 => r.seq <= rows'[r.key].seq
          /\ rows'[r.key].status = "CLAIMED" /\ rows'[r.key].id = r.id
                 /\ rows'[r.key].seq = r.seq
                 => r.work = rows'[r.key].work /\ r.attempts = rows'[r.key].attempts
      BY <2>0, <3>2, <3>3, <3>4, FollowedRun
    <3>. QED BY <3>1, <3>5 DEF Continues
  <2>. QED BY <1>1, <2>1, <2>2 DEF RunsFollow
<1>3. TokensPast'
  BY <1>2 DEF TokensPast, SameRow
<1>4. HolderIsCurrent'
  BY <1>2 DEF HolderIsCurrent, Holds, SameRow
<1>. QED BY <1>1, <1>3, <1>4 DEF IInv

\* Tokens are handed out once and a row under a run's token is as that run was handed it, in every
\* reachable state of the queue.
THEOREM IInvHolds == Spec => []IInv
  BY IInvInit, IInvStep, PTL DEF Spec

\* At most one run in memory can still write its outcome on a row.
THEOREM OneHolder == Spec => []AtMostOneHolder
<1>1. IInv => AtMostOneHolder
  BY DEF IInv, TokensUnique, AtMostOneHolder, Holds, SameRow
<1>. QED BY <1>1, IInvHolds, PTL

\* The run that can still write carries the row's current work and failure count.
THEOREM HolderCurrent == Spec => []HolderIsCurrent
<1>1. IInv => HolderIsCurrent
  BY DEF IInv
<1>. QED BY <1>1, IInvHolds, PTL

----------------------------------------------------------------------------
(* What a run and its row know of each other besides the token *)

\* Work is named by the arming that asked for it.
WorkKnown ==
    /\ \A k \in Keys : rows[k].status # "ABSENT" => rows[k].work \in 1 .. arms
    /\ \A r \in runs : r.work \in 1 .. arms

\* Only a reminder is booked, queued or run under a tombstone: the other rows lose theirs when they
\* are armed.
OnlyRemindersMarked ==
    /\ \A k \in Keys \ ReminderKeys : booking[k] = "idle" /\ (Owed(k) => ~rows[k].cancelled)
    /\ \A r \in runs : r.key \notin ReminderKeys => ~r.cancelled

\* The row of a run that was called off has moved past it, or carries the tombstone and no booking
\* is about to arm it.
CalledOffApart ==
    \A r \in runs : r.calledOff =>
        /\ r.key \notin DeleteKeys /\ SameRow(r)
        /\ \/ rows[r.key].seq > r.seq
           \/ r.key \in ReminderKeys /\ rows[r.key].cancelled /\ booking[r.key] # "rearm"

WInv == IInv /\ WorkKnown /\ OnlyRemindersMarked /\ CalledOffApart

\* A statement that asks for nothing new leaves the row its work and its tombstone.
Keeps(k, old, new) ==
    /\ new.status = "ABSENT" => old.status = "ABSENT" \/ k \in DeleteKeys
    /\ new.status # "ABSENT" =>
        /\ old.status # "ABSENT" /\ new.id = old.id /\ new.work = old.work
        /\ old.cancelled => new.cancelled
        /\ k \notin ReminderKeys /\ new.status \in {"PENDING", "CLAIMED"} =>
               /\ old.status \in {"PENDING", "CLAIMED"}
               /\ new.cancelled => old.cancelled

\* An arming names its own work and clears the tombstone; a reminder is armed by a booking alone.
Asks(k, old, new) ==
    /\ new.status = "PENDING" /\ ~new.cancelled
    /\ new.work = arms + 1 /\ arms' = arms + 1
    /\ old.status # "ABSENT" => new.id = old.id
    /\ k \in ReminderKeys => booking[k] = "rearm"

RowsKept ==
    /\ arms' = arms \/ arms' = arms + 1
    /\ \A k \in Keys : Keeps(k, rows[k], rows'[k]) \/ Asks(k, rows[k], rows'[k])

LEMMA KeepsSelf == \A k, row : Keeps(k, row, row)
  BY DEF Keeps

LEMMA StatementsKeep ==
    ASSUME NEW k \in Keys, NEW row \in Row
    PROVE  /\ Keeps(k, row, CancelledPending(row))
           /\ Keeps(k, row, ThreadCancelled(row))
           /\ k \in ReminderKeys => \A moves \in BOOLEAN : Keeps(k, row, Tombstoned(row, moves))
           /\ Keeps(k, row, Retired(row))
           /\ k \in DeleteKeys => Keeps(k, row, NoRow(row.id))
           /\ row.status = "PENDING" => Keeps(k, row, Claimed(row))
           /\ row.status = "CLAIMED" => Keeps(k, row, Reaped(row))
           /\ row.status # "ABSENT" => Keeps(k, row, Completed(k, row))
           /\ Keeps(k, row, [row EXCEPT !.due = TRUE])
           /\ Keeps(k, row, [row EXCEPT !.stale = TRUE])
<1>1. Keeps(k, row, CancelledPending(row))
  BY DEF Row, CancelledPending, Keeps
<1>2. Keeps(k, row, ThreadCancelled(row))
  BY DEF Row, ThreadCancelled, Keeps
<1>3. ASSUME k \in ReminderKeys, NEW moves \in BOOLEAN
      PROVE  Keeps(k, row, Tombstoned(row, moves))
  <2>. DEFINE n == IF moves THEN row.seq + 1 ELSE row.seq
  <2>1. CASE row.status = "ABSENT"
    BY <2>1, KeepsSelf DEF Tombstoned
  <2>2. CASE row.status # "ABSENT"
    <3>1. Tombstoned(row, moves) = [row EXCEPT !.cancelled = TRUE, !.seq = n]
      BY <2>2 DEF Tombstoned
    <3>. HIDE DEF n
    <3>2. /\ Tombstoned(row, moves).id = row.id /\ Tombstoned(row, moves).status = row.status
          /\ Tombstoned(row, moves).work = row.work /\ Tombstoned(row, moves).cancelled
      BY <3>1 DEF Row
    <3>. QED BY <1>3, <2>2, <3>2 DEF Keeps
  <2>. QED BY <2>1, <2>2
<1>4. Keeps(k, row, Retired(row))
  BY DEF Row, Retired, Keeps
<1>5. k \in DeleteKeys => Keeps(k, row, NoRow(row.id))
  BY DEF NoRow, Keeps
<1>6. row.status = "PENDING" => Keeps(k, row, Claimed(row))
  BY DEF Row, Claimed, Keeps
<1>7. row.status = "CLAIMED" => Keeps(k, row, Reaped(row))
  BY NextStatusType DEF Row, Reaped, Keeps
<1>8. row.status # "ABSENT" => Keeps(k, row, Completed(k, row))
  BY DEF Row, Completed, NoRow, Keeps
<1>9. /\ Keeps(k, row, [row EXCEPT !.due = TRUE])
      /\ Keeps(k, row, [row EXCEPT !.stale = TRUE])
  BY DEF Row, Keeps
<1>. QED BY <1>1, <1>2, <1>3, <1>4, <1>5, <1>6, <1>7, <1>8, <1>9

LEMMA OutcomesKeep ==
    ASSUME NEW r \in Run, NEW row \in Row, row.status = "CLAIMED",
           r.key \notin ReminderKeys => ~r.cancelled /\ ~row.cancelled
    PROVE  Keeps(r.key, row, Failed(r, row)) /\ Keeps(r.key, row, Rescheduled(r, row))
<1>1. Keeps(r.key, row, Failed(r, row))
  <2>1. NextStatus(r.attempts) # "ABSENT"
    BY NextStatusType DEF Run
  <2>. QED BY <2>1 DEF Row, Failed, Keeps
<1>2. Keeps(r.key, row, Rescheduled(r, row))
  BY DEF Row, Rescheduled, MarkAfterReschedule, Keeps
<1>. QED BY <1>1, <1>2

LEMMA OneRowKept ==
    ASSUME TypeOK, NEW k \in Keys, NEW new, rows' = [rows EXCEPT ![k] = new],
           \/ Keeps(k, rows[k], new) /\ arms' = arms
           \/ Asks(k, rows[k], new)
    PROVE  RowsKept
<1>1. rows'[k] = new /\ \A j \in Keys \ {k} : rows'[j] = rows[j]
  BY DEF TypeOK
<1>2. arms' = arms \/ arms' = arms + 1
  BY DEF Asks
<1>. QED BY <1>1, <1>2, KeepsSelf DEF RowsKept

LEMMA NoRowAsked == ASSUME UNCHANGED <<rows, arms>> PROVE RowsKept
  BY KeepsSelf DEF RowsKept

LEMMA ArmRowKept ==
    ASSUME TypeOK, NEW k \in Keys, NEW due \in BOOLEAN, ArmRow(k, due),
           k \in ReminderKeys => booking[k] = "rearm"
    PROVE  RowsKept
<1>1. arms + 1 \in Nat /\ rows[k] \in Row
  BY DEF TypeOK
<1>. DEFINE new == Armed(k, rows[k], arms + 1, due)
<1>2. /\ new.status = "PENDING" /\ ~new.cancelled /\ new.work = arms + 1
      /\ rows[k].status # "ABSENT" => new.id = rows[k].id
  BY <1>1 DEF Armed, Row, NoRow
<1>3. rows' = [rows EXCEPT ![k] = new] /\ arms' = arms + 1
  BY DEF ArmRow
<1>. HIDE DEF new
<1>. QED BY <1>2, <1>3, OneRowKept DEF Asks

LEMMA ProducerKeeps ==
    \A k \in Keys : TypeOK /\ OnlyRemindersMarked /\ Producer(k) => RowsKept
<1>. SUFFICES ASSUME NEW k \in Keys, TypeOK, OnlyRemindersMarked, Producer(k) PROVE RowsKept
  OBVIOUS
<1>. USE DEF boundVars
<1>0. rows[k] \in Row
  BY DEF TypeOK
<1>1. CASE \E due \in BOOLEAN : Arm(k, due)
  BY <1>1, ArmRowKept DEF Arm
<1>2. CASE CancelPending(k) \/ \E next \in {"tombstone", "tombstoneAndMove"} :
                                   BookingCancelsPending(k, next)
  BY <1>0, <1>2, StatementsKeep, OneRowKept DEF CancelPending, BookingCancelsPending
<1>3. CASE Retire(k)
  BY <1>0, <1>3, StatementsKeep, OneRowKept DEF Retire
<1>4. CASE Revoke(k)
  <2>1. k \in DeleteKeys
    BY <1>4, LaneAssumption DEF Revoke
  <2>. QED BY <1>0, <1>4, <2>1, StatementsKeep, OneRowKept DEF Revoke
<1>5. CASE BookingTombstones(k)
  <2>. DEFINE moves == booking[k] = "tombstoneAndMove"
  <2>1. rows' = [rows EXCEPT ![k] = Tombstoned(rows[k], moves)] /\ arms' = arms
    BY <1>5 DEF BookingTombstones
  <2>2. moves \in BOOLEAN /\ k \in ReminderKeys
    BY <1>5 DEF BookingTombstones, OnlyRemindersMarked
  <2>. HIDE DEF moves
  <2>. QED BY <1>0, <2>1, <2>2, StatementsKeep, OneRowKept
<1>6. CASE BookingRearms(k)
  BY <1>6, ArmRowKept, NoRowAsked DEF BookingRearms
<1>7. CASE CancelThreadAppointments(k)
  BY <1>0, <1>7, StatementsKeep, OneRowKept DEF CancelThreadAppointments
<1>. QED BY <1>1, <1>2, <1>3, <1>4, <1>5, <1>6, <1>7 DEF Producer

LEMMA WorkerKeeps == \A w \in Workers : TypeOK /\ (Worker(w) \/ ClaimTraffic) => RowsKept
<1>. SUFFICES ASSUME NEW w \in Workers, TypeOK, Worker(w) \/ ClaimTraffic PROVE RowsKept
  OBVIOUS
<1>. USE DEF boundVars
<1>0. arms' = arms
  BY DEF Worker, StartTick, AnnounceReaped, NoticeLost, EndTick, ClaimBatch, ClaimTraffic
<1>1. CASE StartTick(w)
  <2>1. rows' = [k \in Keys |-> IF k \in ToReap(w) THEN Reaped(rows[k]) ELSE rows[k]]
    BY <1>1 DEF StartTick
  <2>2. \A k \in Keys : k \in ToReap(w) => Keeps(k, rows[k], Reaped(rows[k]))
    BY StatementsKeep DEF ToReap, TypeOK
  <2>. QED BY <1>0, <2>1, <2>2, KeepsSelf DEF RowsKept
<1>2. CASE AnnounceReaped(w) \/ NoticeLost(w) \/ EndTick(w)
  BY <1>2, NoRowAsked DEF AnnounceReaped, NoticeLost, EndTick
<1>3. ASSUME NEW x, NEW traffic, NEW limit, ClaimRows(x, traffic, limit)
      PROVE  RowsKept
  <2>1. PICK S \in SUBSET Claimable(x, traffic) :
            rows' = [k \in Keys |-> IF k \in S THEN Claimed(rows[k]) ELSE rows[k]]
    BY <1>3 DEF ClaimRows
  <2>2. \A k \in S : k \in Keys /\ Keeps(k, rows[k], Claimed(rows[k]))
    BY StatementsKeep DEF Claimable, TypeOK
  <2>. QED BY <1>0, <2>1, <2>2, KeepsSelf DEF RowsKept
<1>4. CASE ClaimBatch(w) \/ ClaimTraffic
  BY <1>3, <1>4 DEF ClaimBatch, ClaimTraffic
<1>. QED BY <1>1, <1>2, <1>4 DEF Worker

LEMMA OutcomeKeeps ==
    \A r \in runs : TypeOK /\ OnlyRemindersMarked /\ (Outcome(r) \/ WriteLost(r)) => RowsKept
<1>. SUFFICES ASSUME NEW r \in runs, TypeOK, OnlyRemindersMarked, Outcome(r) \/ WriteLost(r)
              PROVE  RowsKept
  OBVIOUS
<1>. USE DEF boundVars
<1>0. r \in Run /\ r.key \in Keys /\ rows[r.key] \in Row
  BY WithRunRow
<1>1. arms' = arms
  BY DEF Outcome, HandlerDone, HandlerStandsDown, HandlerReschedules, HandlerFails,
         RunAnnounces, WriteLost
<1>2. \/ UNCHANGED rows
      \/ /\ Holds(r)
         /\ \/ rows' = [rows EXCEPT ![r.key] = Completed(r.key, rows[r.key])]
            \/ rows' = [rows EXCEPT ![r.key] = Rescheduled(r, rows[r.key])]
            \/ rows' = [rows EXCEPT ![r.key] = Failed(r, rows[r.key])]
  BY DEF Outcome, HandlerDone, HandlerStandsDown, HandlerReschedules, HandlerFails,
         RunAnnounces, WriteLost
<1>3. CASE UNCHANGED rows
  BY <1>1, <1>3, NoRowAsked
<1>4. CASE Holds(r)
  <2>1. rows[r.key].status = "CLAIMED"
    BY <1>4, HoldsPresent
  <2>2. r.key \notin ReminderKeys => ~r.cancelled /\ ~rows[r.key].cancelled
    BY <1>0, <2>1 DEF OnlyRemindersMarked, Owed
  <2>3. /\ Keeps(r.key, rows[r.key], Completed(r.key, rows[r.key]))
        /\ Keeps(r.key, rows[r.key], Rescheduled(r, rows[r.key]))
        /\ Keeps(r.key, rows[r.key], Failed(r, rows[r.key]))
    BY <1>0, <2>1, <2>2, StatementsKeep, OutcomesKeep
  <2>. QED BY <1>0, <1>1, <1>2, <1>3, <2>3, OneRowKept
<1>. QED BY <1>2, <1>3, <1>4

LEMMA StepKeeps == TypeOK /\ OnlyRemindersMarked /\ [Next]_vars => RowsKept
<1>. SUFFICES ASSUME TypeOK, OnlyRemindersMarked, [Next]_vars PROVE RowsKept
  OBVIOUS
<1>1. ASSUME NEW k \in Keys, BecomesDue(k) \/ GoesStale(k) PROVE RowsKept
  BY <1>1, StatementsKeep, OneRowKept DEF BecomesDue, GoesStale, TypeOK, boundVars
<1>2. CASE \E k \in Keys : Producer(k) \/ BecomesDue(k) \/ GoesStale(k)
  BY <1>1, <1>2, ProducerKeeps
<1>3. CASE (\E w \in Enabled : Worker(w)) \/ ClaimTraffic
  BY <1>3, WorkerKeeps, BoundAssumption, WorkersAreWorkers
<1>4. CASE \E r \in runs : Outcome(r) \/ WriteLost(r)
  BY <1>4, OutcomeKeeps
<1>5. CASE Crash \/ UNCHANGED vars
  BY <1>5, NoRowAsked DEF Crash, vars, queueVars, boundVars
<1>. QED BY <1>2, <1>3, <1>4, <1>5 DEF Next

----------------------------------------------------------------------------
(* The invariant of the work *)

\* Whose booking moves, and how.
BookingsFollow ==
    \A k \in Keys :
        \/ booking'[k] = booking[k]
        \/ booking'[k] = "idle"
        \/ k \in ReminderKeys /\ booking'[k] # "rearm"
        \/ /\ booking[k] = "tombstoneAndMove" /\ booking'[k] = "rearm"
           /\ rows[k].status # "ABSENT" => rows'[k].seq > rows[k].seq

LEMMA TombstonedSeq ==
    ASSUME NEW row \in Row, row.status # "ABSENT"
    PROVE  /\ LET new == Tombstoned(row, FALSE)
              IN  new.status = row.status /\ new.id = row.id /\ new.cancelled
           /\ LET new == Tombstoned(row, TRUE)
              IN  new.status = row.status /\ new.id = row.id /\ new.seq > row.seq
<1>1. row.seq + 1 > row.seq
  BY RowFields
<1>. QED BY <1>1 DEF Row, Tombstoned

LEMMA BookingTombstonesFollows ==
    ASSUME TypeOK, NEW k \in Keys, BookingTombstones(k)
    PROVE  BookingsFollow
<1>1. rows[k] \in Row /\ rows[k].seq \in Nat
  BY RowFields DEF TypeOK
<1>2. CASE booking[k] = "tombstone"
  BY <1>2 DEF BookingTombstones, TypeOK, BookingsFollow
<1>3. CASE booking[k] = "tombstoneAndMove"
  <2>1. rows'[k] = Tombstoned(rows[k], TRUE) /\ booking' = [booking EXCEPT ![k] = "rearm"]
    BY <1>3 DEF BookingTombstones, TypeOK
  <2>2. rows[k].status # "ABSENT" => rows'[k].seq > rows[k].seq
    BY <1>1, <2>1, TombstonedSeq
  <2>. QED BY <1>3, <2>1, <2>2 DEF TypeOK, BookingsFollow
<1>. QED BY <1>2, <1>3 DEF BookingTombstones

LEMMA StepBooks == TypeOK /\ [Next]_vars => BookingsFollow
<1>. SUFFICES ASSUME TypeOK, [Next]_vars PROVE BookingsFollow
  OBVIOUS
<1>1. CASE UNCHANGED booking
  BY <1>1 DEF BookingsFollow
<1>2. ASSUME NEW k \in Keys, NEW next \in {"tombstone", "tombstoneAndMove"},
             BookingCancelsPending(k, next)
      PROVE  BookingsFollow
  BY <1>2 DEF BookingCancelsPending, TypeOK, BookingsFollow
<1>3. ASSUME NEW k \in Keys, BookingRearms(k) PROVE BookingsFollow
  BY <1>3 DEF BookingRearms, TypeOK, BookingsFollow
<1>4. CASE \E k \in Keys : Producer(k) \/ BecomesDue(k) \/ GoesStale(k)
  BY <1>1, <1>2, <1>3, <1>4, BookingTombstonesFollows
     DEF Producer, BecomesDue, GoesStale, Arm, CancelPending, Retire, Revoke,
         CancelThreadAppointments
<1>5. CASE (\E w \in Enabled : Worker(w)) \/ ClaimTraffic
  BY <1>1, <1>5 DEF Worker, StartTick, AnnounceReaped, NoticeLost, EndTick, ClaimBatch,
                    ClaimTraffic
<1>6. CASE \E r \in runs : Outcome(r) \/ WriteLost(r)
  BY <1>1, <1>6 DEF Outcome, HandlerDone, HandlerStandsDown, HandlerReschedules, HandlerFails,
                    RunAnnounces, WriteLost
<1>7. CASE Crash
  BY <1>7 DEF Crash, BookingsFollow
<1>8. CASE UNCHANGED vars
  BY <1>1, <1>8 DEF vars, queueVars
<1>. QED BY <1>4, <1>5, <1>6, <1>7, <1>8 DEF Next

\* The row a command has called off: it moved, or it is a reminder's with its tombstone.
LEMMA CalledOffRow ==
    ASSUME TypeOK, OnlyRemindersMarked, NEW k \in Keys, CallsOff(k), rows[k].status # "ABSENT"
    PROVE  /\ k \notin DeleteKeys
           /\ rows'[k].status # "ABSENT" /\ rows'[k].id = rows[k].id
           /\ \/ rows'[k].seq > rows[k].seq
              \/ k \in ReminderKeys /\ rows'[k].cancelled /\ booking'[k] # "rearm"
<1>0. rows[k] \in Row /\ rows[k].seq \in Nat
  BY RowFields DEF TypeOK
<1>1. CASE Retire(k)
  <2>1. rows'[k] = Retired(rows[k]) /\ k \notin DeleteKeys /\ Owed(k)
    BY <1>1 DEF Retire, TypeOK
  <2>2. rows'[k].status = "DONE" /\ rows'[k].id = rows[k].id /\ rows'[k].seq = rows[k].seq + 1
    BY <1>0, <2>1 DEF Retired, Owed, NextSeq, Row
  <2>. QED BY <1>0, <2>1, <2>2
<1>2. CASE BookingTombstones(k)
  <2>1. k \in ReminderKeys
    BY <1>2 DEF BookingTombstones, OnlyRemindersMarked
  <2>2. k \notin DeleteKeys
    BY <2>1, LaneAssumption
  <2>3. CASE booking[k] = "tombstone"
    <3>1. rows'[k] = Tombstoned(rows[k], FALSE) /\ booking'[k] = "idle"
      BY <1>2, <2>3 DEF BookingTombstones, TypeOK
    <3>2. rows'[k].status = rows[k].status /\ rows'[k].id = rows[k].id /\ rows'[k].cancelled
      BY <1>0, <3>1, TombstonedSeq, Zenon
    <3>. QED BY <2>1, <2>2, <3>1, <3>2
  <2>4. CASE booking[k] = "tombstoneAndMove"
    <3>1. rows'[k] = Tombstoned(rows[k], TRUE)
      BY <1>2, <2>4 DEF BookingTombstones, TypeOK
    <3>2. /\ rows'[k].status = rows[k].status /\ rows'[k].id = rows[k].id
          /\ rows'[k].seq > rows[k].seq
      BY <1>0, <3>1, TombstonedSeq, Zenon
    <3>. QED BY <2>2, <3>2
  <2>. QED BY <1>2, <2>3, <2>4 DEF BookingTombstones
<1>3. CASE CancelThreadAppointments(k)
  <2>1. k \in ReminderKeys /\ rows'[k] = ThreadCancelled(rows[k])
    BY <1>3 DEF CancelThreadAppointments, TypeOK
  <2>2. /\ rows'[k].id = rows[k].id /\ rows'[k].seq = rows[k].seq + 1
        /\ rows'[k].status # "ABSENT"
    BY <1>0, <2>1 DEF ThreadCancelled, Row
  <2>. QED BY <1>0, <2>1, <2>2, LaneAssumption
<1>. QED BY <1>1, <1>2, <1>3 DEF CallsOff

LEMMA WInvInit == Init => WInv
  BY IInvInit DEF Init, NoRow, WInv, WorkKnown, OnlyRemindersMarked, CalledOffApart, Owed

LEMMA WInvStep == WInv /\ [Next]_vars => WInv'
<1>. SUFFICES ASSUME WInv, [Next]_vars PROVE WInv'
  OBVIOUS
<1>0. /\ TypeOK /\ TokensPast /\ WorkKnown /\ OnlyRemindersMarked /\ CalledOffApart
      /\ TypeOK' /\ RowsEvolve /\ RunsFollow /\ RowsKept /\ BookingsFollow
  BY TypeStep, StepEvolves, StepFollows, StepKeeps, StepBooks DEF WInv, IInv
<1>a. arms \in Nat /\ arms' \in Nat /\ 1 .. arms \subseteq 1 .. arms'
  BY <1>0 DEF TypeOK, RowsKept
<1>1. ASSUME NEW k \in Keys, rows'[k].status # "ABSENT" PROVE rows'[k].work \in 1 .. arms'
  <2>1. CASE Keeps(k, rows[k], rows'[k])
    BY <1>0, <1>1, <1>a, <2>1 DEF Keeps, WorkKnown
  <2>2. CASE Asks(k, rows[k], rows'[k])
    BY <1>a, <2>2 DEF Asks
  <2>. QED BY <1>0, <2>1, <2>2 DEF RowsKept
<1>2. ASSUME NEW k \in Keys \ ReminderKeys, Owed(k)' PROVE ~rows'[k].cancelled
  BY <1>0, <1>2 DEF RowsKept, Keeps, Asks, OnlyRemindersMarked, Owed
<1>3. ASSUME NEW q \in runs'
      PROVE  /\ q.work \in 1 .. arms'
             /\ q.key \notin ReminderKeys => ~q.cancelled
             /\ q.calledOff => \E r \in runs : Continues(r, q)
  <2>0. q.key \in Keys
    BY <1>0 DEF TypeOK, Run
  <2>1. CASE Fresh(q)
    BY <1>1, <1>2, <2>0, <2>1 DEF Fresh, Owed
  <2>2. CASE \E r \in runs : Continues(r, q)
    BY <1>0, <1>a, <2>2 DEF Continues, WorkKnown, OnlyRemindersMarked
  <2>. QED BY <1>0, <2>1, <2>2 DEF RunsFollow
<1>4. WorkKnown'
  BY <1>1, <1>3 DEF WorkKnown
<1>5. OnlyRemindersMarked'
  <2>1. \A k \in Keys \ ReminderKeys : booking'[k] = "idle"
    BY <1>0 DEF BookingsFollow, OnlyRemindersMarked
  <2>. QED BY <1>2, <1>3, <2>1 DEF OnlyRemindersMarked
<1>6. CalledOffApart'
  <2>. SUFFICES ASSUME NEW q \in runs', q.calledOff
                PROVE  /\ q.key \notin DeleteKeys
                       /\ rows'[q.key].status # "ABSENT" /\ rows'[q.key].id = q.id
                       /\ \/ rows'[q.key].seq > q.seq
                          \/ /\ q.key \in ReminderKeys /\ rows'[q.key].cancelled
                             /\ booking'[q.key] # "rearm"
    BY DEF CalledOffApart, SameRow
  <2>1. PICK r \in runs : Continues(r, q)
    BY <1>3
  <2>. DEFINE k == q.key
  <2>2. /\ r \in Run /\ k \in Keys /\ r.key = k /\ r.id = q.id /\ r.seq = q.seq
        /\ rows[k] \in Row /\ rows'[k] \in Row
    BY <1>0, <2>1 DEF TypeOK, Run, Continues
  <2>3. q.seq \in Nat /\ rows[k].seq \in Nat /\ rows'[k].seq \in Nat
    BY <2>2, RowFields DEF Run
  <2>4. CASE r.calledOff
    <3>1. k \notin DeleteKeys /\ rows[k].status # "ABSENT" /\ rows[k].id = q.id
      BY <1>0, <2>2, <2>4 DEF CalledOffApart, SameRow
    <3>2. rows'[k].status # "ABSENT" /\ rows'[k].id = q.id
      BY <1>0, <2>2, <3>1 DEF RowsKept, Keeps, Asks
    <3>3. rows'[k].seq >= rows[k].seq
      BY <1>0, <2>2, <3>1, <3>2 DEF RowsEvolve, Evolves
    <3>4. CASE rows[k].seq > q.seq
      BY <2>3, <3>1, <3>2, <3>3, <3>4
    <3>5. CASE k \in ReminderKeys /\ rows[k].cancelled /\ booking[k] # "rearm"
      <4>1. rows'[k].cancelled
        BY <1>0, <2>2, <3>2, <3>5 DEF RowsKept, Keeps, Asks
      <4>2. q.seq <= rows[k].seq
        BY <1>0, <2>2, <3>1 DEF TokensPast, SameRow
      <4>3. booking'[k] # "rearm" \/ rows'[k].seq > rows[k].seq
        BY <1>0, <2>2, <3>1, <3>5 DEF BookingsFollow
      <4>. QED BY <2>3, <3>1, <3>2, <3>5, <4>1, <4>2, <4>3
    <3>. QED BY <1>0, <2>2, <2>4, <3>4, <3>5 DEF CalledOffApart
  <2>5. CASE CallsOff(k) /\ rows[k].status # "ABSENT" /\ rows[k].id = q.id
    <3>1. q.seq <= rows[k].seq
      BY <1>0, <2>2, <2>5 DEF TokensPast, SameRow
    <3>. QED BY <1>0, <2>2, <2>3, <2>5, <3>1, CalledOffRow
  <2>. QED BY <2>1, <2>2, <2>4, <2>5 DEF Continues, SameRow
<1>. QED BY <1>4, <1>5, <1>6, IInvStep DEF WInv

\* What a run and its row know of each other, in every reachable state of the queue.
THEOREM WInvHolds == Spec => []WInv
  BY WInvInit, WInvStep, PTL DEF Spec

\* A run called off by /reset or by a re-stated booking reads itself as retired for as long as it
\* runs (isRetired), whatever is armed, rescheduled or completed over its row meanwhile.
THEOREM CalledOffStays == Spec => []CalledOffStaysCalledOff
<1>1. WInv => CalledOffStaysCalledOff
  <2>. SUFFICES ASSUME WInv, NEW r \in runs, r.calledOff PROVE IsRetired(r)
    BY DEF CalledOffStaysCalledOff
  <2>1. r.seq \in Nat
    BY DEF WInv, IInv, TypeOK, Run
  <2>. QED BY <2>1 DEF WInv, CalledOffApart, IsRetired
<1>. QED BY <1>1, WInvHolds, PTL

\* A row whose tombstone a step takes off is given other work by it.
LEMMA TombstoneStep ==
    ASSUME WInv, [Next]_vars, NEW k \in Keys,
           rows[k].cancelled, ~rows'[k].cancelled, rows'[k].id = rows[k].id,
           rows'[k].status # "ABSENT"
    PROVE  rows'[k].work # rows[k].work
<1>1. TypeOK /\ WorkKnown /\ RowsKept /\ RowsEvolve
  BY StepKeeps, StepEvolves DEF WInv, IInv
<1>2. Asks(k, rows[k], rows'[k])
  BY <1>1 DEF RowsKept, Keeps
<1>3. rows[k].status # "ABSENT"
  BY <1>1 DEF RowsEvolve, Evolves
<1>. QED BY <1>1, <1>2, <1>3 DEF WorkKnown, Asks, TypeOK

\* A tombstone leaves a row only with the arming of other work: no run erases it by rescheduling
\* itself from its snapshot.
THEOREM TombstoneLeaves == Spec => TombstoneLeavesWithNewWork
<1>. DEFINE Leaves ==
        \A k \in Keys :
            /\ rows[k].cancelled /\ ~rows'[k].cancelled
            /\ rows'[k].id = rows[k].id /\ rows'[k].status # "ABSENT"
            => rows'[k].work # rows[k].work
<1>1. WInv /\ [Next]_vars => [Leaves]_vars
  BY TombstoneStep
<1>. QED BY <1>1, WInvHolds, PTL DEF Spec, TombstoneLeavesWithNewWork

----------------------------------------------------------------------------
(* The queue implements WorkLedger. *)

OwedBy(row) == IF row.status \in {"PENDING", "CLAIMED"} /\ ~row.cancelled THEN row.work ELSE 0

\* The ledger's view of the table.
OwedRows  == [k \in Keys |-> OwedBy(rows[k])]
TriesRows == [k \in Keys |-> rows[k].attempts]

LEMMA LedgerView ==
    /\ [k \in Keys |-> IF Live(k) THEN rows[k].work ELSE 0] = OwedRows
    /\ [k \in Keys |-> rows[k].attempts] = TriesRows
  BY DEF OwedRows, TriesRows, OwedBy, Live, Owed

LEMMA LedgerView2 ==
    /\ ([k \in Keys |-> IF Live(k) THEN rows[k].work ELSE 0])' = OwedRows'
    /\ ([k \in Keys |-> rows[k].attempts])' = TriesRows'
  BY DEF OwedRows, TriesRows, OwedBy, Live, Owed

\* The table seen by the ledger after a statement on one row.
LEMMA OneRowSeen ==
    ASSUME TypeOK, NEW k \in Keys, NEW new, rows' = [rows EXCEPT ![k] = new]
    PROVE  /\ OwedRows' = [OwedRows EXCEPT ![k] = OwedBy(new)]
           /\ TriesRows' = [TriesRows EXCEPT ![k] = new.attempts]
<1>1. rows'[k] = new /\ \A j \in Keys \ {k} : rows'[j] = rows[j]
  BY DEF TypeOK
<1>2. OwedRows' = [j \in Keys |-> OwedBy(rows'[j])] /\ TriesRows' = [j \in Keys |-> rows'[j].attempts]
  BY Zenon DEF OwedRows, TriesRows, OwedBy
<1>3. \A j \in Keys : OwedRows[j] = OwedBy(rows[j]) /\ TriesRows[j] = rows[j].attempts
  BY Zenon DEF OwedRows, TriesRows
<1>4. /\ [OwedRows EXCEPT ![k] = OwedBy(new)]
            = [j \in Keys |-> IF j = k THEN OwedBy(new) ELSE OwedRows[j]]
      /\ [TriesRows EXCEPT ![k] = new.attempts]
            = [j \in Keys |-> IF j = k THEN new.attempts ELSE TriesRows[j]]
  BY Zenon DEF OwedRows, TriesRows
<1>5. ASSUME NEW j \in Keys
      PROVE  /\ OwedBy(rows'[j]) = IF j = k THEN OwedBy(new) ELSE OwedRows[j]
             /\ rows'[j].attempts = IF j = k THEN new.attempts ELSE TriesRows[j]
  <2>1. CASE j = k
    BY <1>1, <2>1
  <2>2. CASE j # k
    BY <1>1, <1>3, <2>2
  <2>. QED BY <2>1, <2>2
<1>. QED BY <1>2, <1>4, <1>5, Zenon

LEMMA SameRowsSeen == UNCHANGED rows => UNCHANGED <<OwedRows, TriesRows>>
  BY DEF OwedRows, TriesRows

LEMMA SeenAt ==
    ASSUME NEW k \in Keys
    PROVE  OwedRows[k] = OwedBy(rows[k]) /\ TriesRows[k] = rows[k].attempts
  BY DEF OwedRows, TriesRows

\* The ledger's steps, on the view.
LEMMA LedgerArm ==
    ASSUME NEW k \in Keys, NEW n, n \in {0, TriesRows[k]},
           arms' = arms + 1, OwedRows' = [OwedRows EXCEPT ![k] = arms + 1],
           TriesRows' = [TriesRows EXCEPT ![k] = n], UNCHANGED <<served, withdrawn>>
    PROVE  Ledger!Next
  BY LedgerView, LedgerView2 DEF Ledger!Next, Ledger!Arm

LEMMA LedgerWithdraw ==
    ASSUME NEW k \in Keys, NEW n, n \in {0, TriesRows[k]},
           OwedRows' = [OwedRows EXCEPT ![k] = 0],
           withdrawn' = withdrawn \cup ({OwedRows[k]} \ {0}),
           TriesRows' = [TriesRows EXCEPT ![k] = n], UNCHANGED <<arms, served>>
    PROVE  Ledger!Next
  BY LedgerView, LedgerView2 DEF Ledger!Next, Ledger!Withdraw

LEMMA LedgerPass ==
    ASSUME NEW k \in Keys, TriesRows' = [TriesRows EXCEPT ![k] = 0],
           UNCHANGED <<OwedRows, arms, served, withdrawn>>
    PROVE  Ledger!Next
  BY LedgerView, LedgerView2 DEF Ledger!Next, Ledger!Pass

LEMMA LedgerServe ==
    ASSUME NEW k \in Keys, NEW w \in 1 .. arms, served' = served \cup {w},
           \/ /\ OwedRows[k] \in {0, w}
              /\ OwedRows' = [OwedRows EXCEPT ![k] = 0]
              /\ TriesRows' = [TriesRows EXCEPT ![k] = 0]
           \/ UNCHANGED <<OwedRows, TriesRows>>,
           UNCHANGED <<arms, withdrawn>>
    PROVE  Ledger!Next
<1>1. Ledger!Serve(k, w)
  <2>1. OwedRows[k] = 0 => [OwedRows EXCEPT ![k] = 0] = OwedRows
    BY DEF OwedRows
  <2>. QED BY <2>1, LedgerView, LedgerView2 DEF Ledger!Serve
<1>. QED BY <1>1 DEF Ledger!Next

LEMMA LedgerFail ==
    ASSUME NEW K \in SUBSET Keys,
           TriesRows' = [k \in Keys |-> IF k \in K THEN TriesRows[k] + 1 ELSE TriesRows[k]],
           OwedRows' = [k \in Keys |->
                          IF k \in K /\ TriesRows[k] + 1 >= MaxAttempts THEN 0 ELSE OwedRows[k]],
           UNCHANGED <<arms, served, withdrawn>>
    PROVE  Ledger!Next
  BY LedgerView, LedgerView2 DEF Ledger!Next, Ledger!Fail

LEMMA LedgerStutter ==
    ASSUME UNCHANGED <<OwedRows, TriesRows, arms, served, withdrawn>>
    PROVE  UNCHANGED Ledger!vars
  BY LedgerView, LedgerView2 DEF Ledger!vars

LEMMA LedgerInit == Init => Ledger!Init
  BY DEF Init, NoRow, Ledger!Init, Live, Owed

\* A statement that changes neither the work a row owes nor its failures is no step of the ledger.
LEMMA SeenUnchanged ==
    ASSUME \A k \in Keys : /\ OwedBy(rows'[k]) = OwedBy(rows[k])
                           /\ rows'[k].attempts = rows[k].attempts
    PROVE  UNCHANGED <<OwedRows, TriesRows>>
<1>1. /\ OwedRows' = [k \in Keys |-> OwedBy(rows'[k])]
      /\ TriesRows' = [k \in Keys |-> rows'[k].attempts]
  BY Zenon DEF OwedRows, TriesRows, OwedBy
<1>. QED BY <1>1, Zenon DEF OwedRows, TriesRows

LEMMA ArmRowMaps ==
    ASSUME TypeOK, NEW k \in Keys, NEW due \in BOOLEAN, ArmRow(k, due),
           UNCHANGED <<served, withdrawn>>
    PROVE  Ledger!Next
<1>0. arms + 1 \in Nat /\ rows[k] \in Row
  BY DEF TypeOK
<1>. DEFINE new == Armed(k, rows[k], arms + 1, due)
<1>1. /\ new.status = "PENDING" /\ ~new.cancelled /\ new.work = arms + 1
      /\ new.attempts \in {0, rows[k].attempts}
  BY <1>0 DEF Armed, Row, NoRow
<1>2. rows' = [rows EXCEPT ![k] = new] /\ arms' = arms + 1
  BY DEF ArmRow
<1>. HIDE DEF new
<1>3. OwedBy(new) = arms + 1
  BY <1>1 DEF OwedBy
<1>4. /\ OwedRows' = [OwedRows EXCEPT ![k] = arms + 1]
      /\ TriesRows' = [TriesRows EXCEPT ![k] = new.attempts]
  BY <1>2, <1>3, OneRowSeen
<1>. QED BY <1>1, <1>2, <1>4, SeenAt, LedgerArm

LEMMA WithdrawMaps ==
    ASSUME TypeOK, WorkKnown, NEW k \in Keys, NEW new, rows' = [rows EXCEPT ![k] = new],
           OwedBy(new) = 0, new.attempts \in {0, rows[k].attempts},
           withdrawn' = CalledOffWork(k), UNCHANGED <<arms, served>>
    PROVE  Ledger!Next
<1>1. /\ OwedRows' = [OwedRows EXCEPT ![k] = 0]
      /\ TriesRows' = [TriesRows EXCEPT ![k] = new.attempts]
  BY OneRowSeen
<1>2. CalledOffWork(k) = withdrawn \cup ({OwedRows[k]} \ {0})
  <2>1. CASE Live(k)
    <3>1. rows[k].work # 0
      BY <2>1 DEF Live, Owed, WorkKnown, TypeOK
    <3>2. OwedRows[k] = rows[k].work
      BY <2>1, SeenAt DEF OwedBy, Live, Owed
    <3>. QED BY <2>1, <3>1, <3>2 DEF CalledOffWork
  <2>2. CASE ~Live(k)
    <3>1. OwedRows[k] = 0
      BY <2>2, SeenAt DEF OwedBy, Live, Owed
    <3>. QED BY <2>2, <3>1 DEF CalledOffWork
  <2>. QED BY <2>1, <2>2
<1>. QED BY <1>1, <1>2, SeenAt, LedgerWithdraw

LEMMA StatementsWithdraw ==
    ASSUME NEW row \in Row
    PROVE  /\ row.status = "PENDING" =>
                  /\ OwedBy(CancelledPending(row)) = 0
                  /\ CancelledPending(row).attempts = row.attempts
           /\ OwedBy(Retired(row)) = 0 /\ Retired(row).attempts = row.attempts
           /\ OwedBy(ThreadCancelled(row)) = 0 /\ ThreadCancelled(row).attempts = row.attempts
           /\ OwedBy(NoRow(row.id)) = 0 /\ NoRow(row.id).attempts = 0
           /\ \A moves \in BOOLEAN : /\ OwedBy(Tombstoned(row, moves)) = 0
                                     /\ Tombstoned(row, moves).attempts = row.attempts
<1>1. row.status = "PENDING" => /\ OwedBy(CancelledPending(row)) = 0
                                /\ CancelledPending(row).attempts = row.attempts
  BY DEF Row, OwedBy, CancelledPending
<1>2. OwedBy(Retired(row)) = 0 /\ Retired(row).attempts = row.attempts
  BY DEF Row, OwedBy, Retired
<1>3. OwedBy(ThreadCancelled(row)) = 0 /\ ThreadCancelled(row).attempts = row.attempts
  BY DEF Row, OwedBy, ThreadCancelled
<1>4. OwedBy(NoRow(row.id)) = 0 /\ NoRow(row.id).attempts = 0
  BY DEF OwedBy, NoRow
<1>5. ASSUME NEW moves \in BOOLEAN
      PROVE  OwedBy(Tombstoned(row, moves)) = 0 /\ Tombstoned(row, moves).attempts = row.attempts
  <2>1. CASE row.status = "ABSENT"
    BY <2>1 DEF OwedBy, Tombstoned
  <2>2. CASE row.status # "ABSENT"
    <3>. DEFINE n == IF moves THEN row.seq + 1 ELSE row.seq
    <3>1. Tombstoned(row, moves) = [row EXCEPT !.cancelled = TRUE, !.seq = n]
      BY <2>2 DEF Tombstoned
    <3>. HIDE DEF n
    <3>2. Tombstoned(row, moves).cancelled /\ Tombstoned(row, moves).attempts = row.attempts
      BY <3>1 DEF Row
    <3>. QED BY <3>2 DEF OwedBy
  <2>. QED BY <2>1, <2>2
<1>. QED BY <1>1, <1>2, <1>3, <1>4, <1>5

LEMMA ProducerMaps ==
    ASSUME WInv, NEW k \in Keys, Producer(k)
    PROVE  Ledger!Next \/ UNCHANGED Ledger!vars
<1>0. TypeOK /\ WorkKnown /\ rows[k] \in Row
  BY DEF WInv, IInv, TypeOK
<1>. USE DEF boundVars
<1>1. CASE \E due \in BOOLEAN : Arm(k, due)
  BY <1>0, <1>1, ArmRowMaps DEF Arm
<1>2. CASE CancelPending(k)
  BY <1>0, <1>2, StatementsWithdraw, WithdrawMaps DEF CancelPending
<1>3. CASE Retire(k)
  BY <1>0, <1>3, StatementsWithdraw, WithdrawMaps DEF Retire, CallOff
<1>4. CASE Revoke(k)
  BY <1>0, <1>4, StatementsWithdraw, WithdrawMaps DEF Revoke
<1>5. ASSUME NEW next \in {"tombstone", "tombstoneAndMove"}, BookingCancelsPending(k, next)
      PROVE  Ledger!Next \/ UNCHANGED Ledger!vars
  <2>1. CASE rows[k].status = "PENDING"
    BY <1>0, <1>5, <2>1, StatementsWithdraw, WithdrawMaps DEF BookingCancelsPending
  <2>2. CASE rows[k].status # "PENDING"
    <3>1. UNCHANGED <<rows, arms, served, withdrawn>>
      BY <1>0, <1>5, <2>2 DEF BookingCancelsPending, CancelledPending, TypeOK
    <3>. QED BY <3>1, SameRowsSeen, LedgerStutter
  <2>. QED BY <2>1, <2>2
<1>6. CASE BookingTombstones(k)
  <2>. DEFINE moves == booking[k] = "tombstoneAndMove"
  <2>1. /\ rows' = [rows EXCEPT ![k] = Tombstoned(rows[k], moves)]
        /\ withdrawn' = CalledOffWork(k) /\ UNCHANGED <<arms, served>>
    BY <1>6 DEF BookingTombstones, CallOff
  <2>2. moves \in BOOLEAN
    OBVIOUS
  <2>. HIDE DEF moves
  <2>. QED BY <1>0, <2>1, <2>2, StatementsWithdraw, WithdrawMaps
<1>7. CASE BookingRearms(k)
  <2>1. CASE ArmRow(k, FALSE)
    BY <1>0, <1>7, <2>1, ArmRowMaps DEF BookingRearms
  <2>2. CASE UNCHANGED <<rows, arms, owedNotice>>
    BY <1>7, <2>2, SameRowsSeen, LedgerStutter DEF BookingRearms
  <2>. QED BY <1>7, <2>1, <2>2 DEF BookingRearms
<1>8. CASE CancelThreadAppointments(k)
  BY <1>0, <1>8, StatementsWithdraw, WithdrawMaps DEF CancelThreadAppointments, CallOff
<1>. QED BY <1>1, <1>2, <1>3, <1>4, <1>5, <1>6, <1>7, <1>8 DEF Producer

\* A failure is counted and, at the last attempt, ends what the row owes.
LEMMA StatementsFail ==
    ASSUME NEW row \in Row, row.status = "CLAIMED"
    PROVE  /\ Reaped(row).attempts = row.attempts + 1
           /\ OwedBy(Reaped(row)) = IF row.attempts + 1 >= MaxAttempts THEN 0 ELSE OwedBy(row)
           /\ \A r \in Run : r.attempts = row.attempts =>
                /\ Failed(r, row).attempts = row.attempts + 1
                /\ OwedBy(Failed(r, row))
                       = IF row.attempts + 1 >= MaxAttempts THEN 0 ELSE OwedBy(row)
<1>1. NextStatus(row.attempts)
          = IF row.attempts + 1 >= MaxAttempts THEN "DEAD" ELSE "PENDING"
  BY DEF NextStatus
<1>2. /\ Reaped(row).attempts = row.attempts + 1 /\ Reaped(row).status = NextStatus(row.attempts)
      /\ Reaped(row).cancelled = row.cancelled /\ Reaped(row).work = row.work
  BY DEF Reaped, Row
<1>3. ASSUME NEW r \in Run, r.attempts = row.attempts
      PROVE  /\ Failed(r, row).attempts = row.attempts + 1
             /\ Failed(r, row).status = NextStatus(row.attempts)
             /\ Failed(r, row).cancelled = row.cancelled /\ Failed(r, row).work = row.work
  BY <1>3 DEF Failed, Row
<1>. QED BY <1>1, <1>2, <1>3 DEF OwedBy

LEMMA ReapMaps ==
    ASSUME WInv, NEW w \in Workers, StartTick(w)
    PROVE  Ledger!Next
<1>0. TypeOK
  BY DEF WInv, IInv
<1>. DEFINE K == ToReap(w)
<1>1. K \in SUBSET Keys
  BY LaneAssumption DEF ToReap, ReapScope, Workers, Lanes
<1>2. /\ rows' = [k \in Keys |-> IF k \in K THEN Reaped(rows[k]) ELSE rows[k]]
      /\ UNCHANGED <<arms, served, withdrawn>>
  BY DEF StartTick, boundVars
<1>3. \A k \in K : rows[k] \in Row /\ rows[k].status = "CLAIMED"
  BY <1>0, <1>1 DEF ToReap, TypeOK
<1>. HIDE DEF K
<1>4. ASSUME NEW k \in Keys
      PROVE  /\ rows'[k].attempts = IF k \in K THEN TriesRows[k] + 1 ELSE TriesRows[k]
             /\ OwedBy(rows'[k]) = IF k \in K /\ TriesRows[k] + 1 >= MaxAttempts THEN 0
                                   ELSE OwedRows[k]
  <2>1. CASE k \in K
    BY <1>2, <1>3, <2>1, SeenAt, StatementsFail
  <2>2. CASE k \notin K
    BY <1>2, <2>2, SeenAt
  <2>. QED BY <2>1, <2>2
<1>5. /\ OwedRows' = [k \in Keys |-> OwedBy(rows'[k])]
      /\ TriesRows' = [k \in Keys |-> rows'[k].attempts]
  BY Zenon DEF OwedRows, TriesRows, OwedBy
<1>6. /\ TriesRows' = [k \in Keys |-> IF k \in K THEN TriesRows[k] + 1 ELSE TriesRows[k]]
      /\ OwedRows' = [k \in Keys |->
                        IF k \in K /\ TriesRows[k] + 1 >= MaxAttempts THEN 0 ELSE OwedRows[k]]
  BY <1>4, <1>5, Zenon
<1>. QED BY <1>1, <1>2, <1>6, LedgerFail

LEMMA WorkerMaps ==
    ASSUME WInv, NEW w \in Workers, Worker(w) \/ ClaimTraffic
    PROVE  Ledger!Next \/ UNCHANGED Ledger!vars
<1>0. TypeOK
  BY DEF WInv, IInv
<1>. USE DEF boundVars, historyVars
<1>1. CASE StartTick(w)
  BY <1>1, ReapMaps
<1>2. CASE AnnounceReaped(w) \/ NoticeLost(w) \/ EndTick(w)
  BY <1>2, SameRowsSeen, LedgerStutter DEF AnnounceReaped, NoticeLost, EndTick
<1>3. ASSUME NEW x, NEW traffic, NEW limit, ClaimRows(x, traffic, limit)
      PROVE  UNCHANGED <<OwedRows, TriesRows>>
  <2>1. PICK S \in SUBSET Claimable(x, traffic) :
            rows' = [k \in Keys |-> IF k \in S THEN Claimed(rows[k]) ELSE rows[k]]
    BY <1>3 DEF ClaimRows
  <2>2. \A k \in S : k \in Keys /\ rows[k] \in Row /\ rows[k].status = "PENDING"
    BY <1>0 DEF Claimable, TypeOK
  <2>3. \A row \in Row : row.status = "PENDING" =>
            OwedBy(Claimed(row)) = OwedBy(row) /\ Claimed(row).attempts = row.attempts
    BY DEF Row, Claimed, OwedBy
  <2>4. \A k \in Keys : /\ OwedBy(rows'[k]) = OwedBy(rows[k])
                        /\ rows'[k].attempts = rows[k].attempts
    BY <2>1, <2>2, <2>3
  <2>. QED BY <2>4, SeenUnchanged
<1>4. CASE ClaimBatch(w) \/ ClaimTraffic
  BY <1>3, <1>4, LedgerStutter DEF ClaimBatch, ClaimTraffic
<1>. QED BY <1>1, <1>2, <1>4 DEF Worker

\* A handler that held its row leaves it served: nothing owed, no failure counted.
LEMMA CompletedSeen ==
    ASSUME NEW k \in Keys, NEW row \in Row
    PROVE  OwedBy(Completed(k, row)) = 0 /\ Completed(k, row).attempts = 0
  BY DEF Row, Completed, NoRow, OwedBy

\* Rescheduling keeps the work owed: a reminder's tombstone stays, the other rows have none.
LEMMA RescheduledSeen ==
    ASSUME NEW r \in Run, NEW row \in Row, row.status = "CLAIMED",
           r.key \notin ReminderKeys => ~r.cancelled /\ ~row.cancelled
    PROVE  OwedBy(Rescheduled(r, row)) = OwedBy(row) /\ Rescheduled(r, row).attempts = 0
  BY DEF Row, Rescheduled, MarkAfterReschedule, OwedBy

LEMMA OutcomeMaps ==
    ASSUME WInv, NEW r \in runs, Outcome(r) \/ WriteLost(r)
    PROVE  Ledger!Next \/ UNCHANGED Ledger!vars
<1>. USE DEF boundVars, historyVars
<1>. DEFINE k == r.key
<1>0. /\ TypeOK /\ r \in Run /\ k \in Keys /\ rows[k] \in Row /\ r.work \in 1 .. arms
      /\ OnlyRemindersMarked
  BY WithRunRow DEF WInv, IInv, WorkKnown
<1>h. ASSUME Holds(r)
      PROVE  /\ rows[k].status = "CLAIMED"
             /\ r.work = rows[k].work /\ r.attempts = rows[k].attempts
             /\ k \notin ReminderKeys => ~r.cancelled /\ ~rows[k].cancelled
  BY <1>0, <1>h, HoldsPresent DEF WInv, IInv, HolderIsCurrent, OnlyRemindersMarked, Owed
<1>1. CASE HandlerDone(r)
  <2>1. CASE Holds(r)
    <3>1. rows' = [rows EXCEPT ![k] = Completed(k, rows[k])]
      BY <1>1, <2>1 DEF HandlerDone
    <3>2. /\ OwedRows' = [OwedRows EXCEPT ![k] = 0]
          /\ TriesRows' = [TriesRows EXCEPT ![k] = 0]
      <4>1. /\ OwedRows' = [OwedRows EXCEPT ![k] = OwedBy(Completed(k, rows[k]))]
            /\ TriesRows' = [TriesRows EXCEPT ![k] = Completed(k, rows[k]).attempts]
        BY <1>0, <3>1, OneRowSeen
      <4>. QED BY <1>0, <4>1, CompletedSeen
    <3>3. OwedRows[k] \in {0, r.work}
      BY <1>0, <1>h, <2>1, SeenAt DEF OwedBy
    <3>. QED BY <1>0, <1>1, <3>2, <3>3, LedgerServe DEF HandlerDone
  <2>2. CASE ~Holds(r)
    <3>1. UNCHANGED <<OwedRows, TriesRows>>
      BY <1>1, <2>2, SameRowsSeen DEF HandlerDone
    <3>. QED BY <1>0, <1>1, <3>1, LedgerServe DEF HandlerDone
  <2>. QED BY <2>1, <2>2
<1>2. CASE HandlerStandsDown(r)
  <2>1. CASE Holds(r)
    <3>1. rows' = [rows EXCEPT ![k] = Completed(k, rows[k])]
      BY <1>2, <2>1 DEF HandlerStandsDown
    <3>2. OwedRows[k] = 0
      BY <1>0, <1>2, <2>1, SeenAt DEF HandlerStandsDown, IsRetired, Holds, OwedBy
    <3>3. /\ OwedRows' = [OwedRows EXCEPT ![k] = 0]
          /\ TriesRows' = [TriesRows EXCEPT ![k] = 0]
      <4>1. /\ OwedRows' = [OwedRows EXCEPT ![k] = OwedBy(Completed(k, rows[k]))]
            /\ TriesRows' = [TriesRows EXCEPT ![k] = Completed(k, rows[k]).attempts]
        BY <1>0, <3>1, OneRowSeen
      <4>. QED BY <1>0, <4>1, CompletedSeen
    <3>4. OwedRows' = OwedRows
      BY <1>0, <3>2, <3>3 DEF OwedRows
    <3>. QED BY <1>0, <1>2, <3>3, <3>4, LedgerPass DEF HandlerStandsDown
  <2>2. CASE ~Holds(r)
    BY <1>2, <2>2, SameRowsSeen, LedgerStutter DEF HandlerStandsDown
  <2>. QED BY <2>1, <2>2
<1>3. CASE HandlerReschedules(r)
  <2>1. CASE Holds(r)
    <3>1. rows' = [rows EXCEPT ![k] = Rescheduled(r, rows[k])]
      BY <1>3, <2>1 DEF HandlerReschedules
    <3>2. /\ OwedRows' = [OwedRows EXCEPT ![k] = OwedBy(rows[k])]
          /\ TriesRows' = [TriesRows EXCEPT ![k] = 0]
      <4>1. /\ OwedRows' = [OwedRows EXCEPT ![k] = OwedBy(Rescheduled(r, rows[k]))]
            /\ TriesRows' = [TriesRows EXCEPT ![k] = Rescheduled(r, rows[k]).attempts]
        BY <1>0, <3>1, OneRowSeen
      <4>. QED BY <1>0, <1>h, <2>1, <4>1, RescheduledSeen
    <3>3. OwedRows' = OwedRows
      BY <1>0, <3>2, SeenAt DEF OwedRows
    <3>. QED BY <1>0, <1>3, <3>2, <3>3, LedgerPass DEF HandlerReschedules
  <2>2. CASE ~Holds(r)
    BY <1>3, <2>2, SameRowsSeen, LedgerStutter DEF HandlerReschedules
  <2>. QED BY <2>1, <2>2
<1>4. CASE HandlerFails(r)
  <2>1. CASE Holds(r)
    <3>1. rows' = [rows EXCEPT ![k] = Failed(r, rows[k])]
      BY <1>4, <2>1 DEF HandlerFails
    <3>. DEFINE ends == TriesRows[k] + 1 >= MaxAttempts
    <3>2. /\ Failed(r, rows[k]).attempts = TriesRows[k] + 1
          /\ OwedBy(Failed(r, rows[k])) = IF ends THEN 0 ELSE OwedRows[k]
      BY <1>0, <1>h, <2>1, SeenAt, StatementsFail
    <3>3. /\ TriesRows' = [TriesRows EXCEPT ![k] = TriesRows[k] + 1]
          /\ OwedRows' = [OwedRows EXCEPT ![k] = IF ends THEN 0 ELSE OwedRows[k]]
      <4>1. /\ TriesRows' = [TriesRows EXCEPT ![k] = Failed(r, rows[k]).attempts]
            /\ OwedRows' = [OwedRows EXCEPT ![k] = OwedBy(Failed(r, rows[k]))]
        BY <1>0, <3>1, OneRowSeen
      <4>. QED BY <3>2, <4>1
    <3>4. /\ TriesRows' = [j \in Keys |-> IF j \in {k} THEN TriesRows[j] + 1 ELSE TriesRows[j]]
          /\ OwedRows' = [j \in Keys |->
                 IF j \in {k} /\ TriesRows[j] + 1 >= MaxAttempts THEN 0 ELSE OwedRows[j]]
      BY <1>0, <3>3 DEF OwedRows, TriesRows
    <3>5. {k} \in SUBSET Keys /\ UNCHANGED <<arms, served, withdrawn>>
      BY <1>0, <1>4 DEF HandlerFails
    <3>. QED BY <3>4, <3>5, LedgerFail
  <2>2. CASE ~Holds(r)
    BY <1>4, <2>2, SameRowsSeen, LedgerStutter DEF HandlerFails
  <2>. QED BY <2>1, <2>2
<1>5. CASE RunAnnounces(r) \/ WriteLost(r)
  BY <1>5, SameRowsSeen, LedgerStutter DEF RunAnnounces, WriteLost
<1>. QED BY <1>1, <1>2, <1>3, <1>4, <1>5 DEF Outcome

LEMMA TimeMaps ==
    ASSUME WInv, NEW k \in Keys, BecomesDue(k) \/ GoesStale(k)
    PROVE  UNCHANGED Ledger!vars
<1>1. \A row \in Row :
        /\ OwedBy([row EXCEPT !.due = TRUE]) = OwedBy(row)
        /\ OwedBy([row EXCEPT !.stale = TRUE]) = OwedBy(row)
        /\ [row EXCEPT !.due = TRUE].attempts = row.attempts
        /\ [row EXCEPT !.stale = TRUE].attempts = row.attempts
  BY DEF Row, OwedBy
<1>2. ASSUME NEW j \in Keys
      PROVE  OwedBy(rows'[j]) = OwedBy(rows[j]) /\ rows'[j].attempts = rows[j].attempts
  <2>1. rows[j] \in Row /\ rows \in [Keys -> Row]
    BY DEF WInv, IInv, TypeOK
  <2>2. \/ rows'[j] = rows[j]
        \/ rows'[j] = [rows[j] EXCEPT !.due = TRUE]
        \/ rows'[j] = [rows[j] EXCEPT !.stale = TRUE]
    BY <2>1 DEF BecomesDue, GoesStale
  <2>. QED BY <1>1, <2>1, <2>2
<1>3. UNCHANGED <<arms, served, withdrawn>>
  BY DEF BecomesDue, GoesStale, boundVars, historyVars
<1>. QED BY <1>2, <1>3, SeenUnchanged, LedgerStutter

LEMMA NextMaps == WInv /\ [Next]_vars => [Ledger!Next]_(Ledger!vars)
<1>. SUFFICES ASSUME WInv, [Next]_vars PROVE Ledger!Next \/ UNCHANGED Ledger!vars
  OBVIOUS
<1>1. CASE \E k \in Keys : Producer(k) \/ BecomesDue(k) \/ GoesStale(k)
  BY <1>1, ProducerMaps, TimeMaps
<1>2. CASE (\E w \in Enabled : Worker(w)) \/ ClaimTraffic
  BY <1>2, WorkerMaps, BoundAssumption, WorkersAreWorkers
<1>3. CASE \E r \in runs : Outcome(r) \/ WriteLost(r)
  BY <1>3, OutcomeMaps
<1>4. CASE Crash \/ UNCHANGED vars
  BY <1>4, SameRowsSeen, LedgerStutter DEF Crash, vars, queueVars, boundVars, historyVars
<1>. QED BY <1>1, <1>2, <1>3, <1>4 DEF Next

\* The queue keeps the ledger's promise: owed work stops being owed only because it was served,
\* replaced, withdrawn or exhausted its attempts, whatever is claimed, reaped, re-armed or lost.
THEOREM QueueImplementsLedger == Spec => LedgerSpec
  BY LedgerInit, NextMaps, WInvHolds, PTL DEF Spec, LedgerSpec, Ledger!Spec

----------------------------------------------------------------------------
(* Deaths waiting in memory to be announced *)

Noticing(r) == r.stage = "notice"

InMemory(d) ==
    (\E w \in Workers : d \in dying[w]) \/ (\E r \in runs : Noticing(r) /\ RunDeath(r) = d)

\* A death is not in its row's future, and the row was not claimed again under its token.
DeathsPast ==
    \A d \in Death : InMemory(d) =>
        /\ d.id <= rows[d.key].id
        /\ SameRow(d) => /\ d.seq <= rows[d.key].seq
                         /\ rows[d.key].status = "CLAIMED" => d.seq < rows[d.key].seq

\* One worker, or one run, announces a death.
DeathsOnce ==
    \A w \in Workers : \A d \in dying[w] :
        /\ \A v \in Workers : d \in dying[v] => v = w
        /\ \A r \in runs : Noticing(r) => RunDeath(r) # d

\* A death that stands and waits in memory is still owed its line.
DeathsOwed ==
    \A d \in Death : InMemory(d) /\ StillDead(d) /\ d.key \notin HookKeys => d \in owedNotice

DInv == IInv /\ DeathsPast /\ DeathsOnce /\ DeathsOwed

\* A death this step recorded: its row was claimed under that very token.
FreshDeath(d) ==
    /\ d \in owedNotice'
    /\ rows[d.key].status = "CLAIMED" /\ d.id = rows[d.key].id /\ d.seq = rows[d.key].seq
    /\ rows'[d.key].status # "CLAIMED" /\ d.id = rows'[d.key].id /\ d.seq = rows'[d.key].seq

DyingShrinks(w) == dying'[w] \subseteq dying[w]
NoticesOld      == \A q \in runs' : Noticing(q) =>
                       \E r \in runs : Noticing(r) /\ RunDeath(r) = RunDeath(q)

\* What a step does to the deaths in memory, and which ones it stops owing.
DeathsFollow ==
    /\ \A w \in Workers : \A d \in dying'[w] : d \in dying[w] \/ FreshDeath(d)
    /\ \A q \in runs' : Noticing(q) =>
           \/ \E r \in runs : Noticing(r) /\ RunDeath(r) = RunDeath(q)
           \/ FreshDeath(RunDeath(q))
    /\ \/ \A w \in Workers : DyingShrinks(w)
       \/ NoticesOld /\ \E w \in Workers : \A v \in Workers \ {w} : DyingShrinks(v)
    /\ \A d \in owedNotice \ owedNotice' :
           d.key \in HookKeys \/ ~InMemory(d)' \/ ~StillDead(d)'

LEMMA DeathTypes ==
    ASSUME TypeOK
    PROVE  /\ \A w \in Workers : dying[w] \subseteq Death
           /\ \A r \in runs : RunDeath(r) \in Death
           /\ \A d \in Death : d.key \in Keys /\ d.id \in Nat /\ d.seq \in Nat
           /\ \A d \in Death : InMemory(d) => d.key \in Keys
  BY DEF TypeOK, Run, RunDeath, Death

LEMMA FreshNotInMemory ==
    ASSUME TypeOK, DeathsPast, NEW d \in Death, FreshDeath(d)
    PROVE  ~InMemory(d)
<1>1. d.seq \in Nat
  BY DeathTypes
<1>2. SameRow(d) /\ rows[d.key].status = "CLAIMED" /\ d.seq = rows[d.key].seq
  BY DEF FreshDeath, SameRow
<1>3. InMemory(d) => d.seq < rows[d.key].seq
  BY <1>2 DEF DeathsPast
<1>. QED BY <1>1, <1>2, <1>3

LEMMA MemoryFollows ==
    ASSUME DeathsFollow, NEW d, InMemory(d)'
    PROVE  InMemory(d) \/ FreshDeath(d)
  BY DEF DeathsFollow, InMemory, RunDeath, Noticing

\* A death that stands after the step stood before it, or is the step's.
LEMMA StoodBefore ==
    ASSUME TypeOK, TypeOK', RowsEvolve, DeathsPast, NEW d \in Death, InMemory(d),
           d.key \notin HookKeys, StillDead(d)'
    PROVE  StillDead(d)
<1>. DEFINE old == rows[d.key]
            new == rows'[d.key]
<1>1. d.key \in Keys /\ old \in Row /\ new \in Row /\ d.seq \in Nat
  BY DeathTypes DEF TypeOK
<1>2. old.seq \in Nat /\ new.seq \in Nat
  BY <1>1, RowFields
<1>3. Evolves(old, new)
  BY <1>1 DEF RowsEvolve
<1>4. new.status = "DEAD" /\ new.id = d.id /\ new.seq = d.seq
  BY DEF StillDead, SameRow
<1>5. old.id = d.id /\ (old.status = "DEAD" \/ (old.status = "CLAIMED" /\ old.seq = d.seq))
      /\ new.seq >= old.seq
  BY <1>3, <1>4 DEF Evolves
<1>6. SameRow(d)
  BY <1>5 DEF SameRow
<1>7. d.seq <= old.seq /\ (old.status = "CLAIMED" => d.seq < old.seq)
  BY <1>6 DEF DeathsPast
<1>. HIDE DEF old, new
<1>8. old.status = "DEAD" /\ old.seq = d.seq
  BY <1>1, <1>2, <1>4, <1>5, <1>7
<1>. QED BY <1>6, <1>8 DEF StillDead, old

LEMMA DInvFollows ==
    ASSUME DInv, TypeOK', RowsEvolve, DeathsFollow
    PROVE  DeathsPast' /\ DeathsOnce' /\ DeathsOwed'
<1>0. TypeOK /\ DeathsPast /\ DeathsOnce /\ DeathsOwed
  BY DEF DInv, IInv
<1>1. DeathsPast'
  <2>. SUFFICES ASSUME NEW d \in Death, InMemory(d)'
                PROVE  /\ d.id <= rows'[d.key].id
                       /\ rows'[d.key].status # "ABSENT" /\ rows'[d.key].id = d.id =>
                            /\ d.seq <= rows'[d.key].seq
                            /\ rows'[d.key].status = "CLAIMED" => d.seq < rows'[d.key].seq
    BY DEF DeathsPast, SameRow
  <2>1. /\ d.key \in Keys /\ rows[d.key] \in Row /\ rows'[d.key] \in Row
        /\ d.id \in Nat /\ d.seq \in Nat
    BY <1>0, DeathTypes DEF TypeOK
  <2>2. /\ rows[d.key].id \in Nat /\ rows'[d.key].id \in Nat
        /\ rows[d.key].seq \in Nat /\ rows'[d.key].seq \in Nat
    BY <2>1, RowFields
  <2>3. CASE FreshDeath(d)
    BY <2>1, <2>2, <2>3 DEF FreshDeath
  <2>4. CASE InMemory(d)
    <3>1. /\ d.id <= rows[d.key].id
          /\ rows[d.key].status # "ABSENT" /\ rows[d.key].id = d.id =>
                /\ d.seq <= rows[d.key].seq
                /\ rows[d.key].status = "CLAIMED" => d.seq < rows[d.key].seq
      BY <1>0, <2>4 DEF DeathsPast, SameRow
    <3>2. Evolves(rows[d.key], rows'[d.key])
      BY <2>1 DEF RowsEvolve
    <3>. QED BY <2>1, <2>2, <3>1, <3>2 DEF Evolves
  <2>. QED BY <2>3, <2>4, MemoryFollows
<1>2. DeathsOnce'
  <2>. SUFFICES ASSUME NEW w \in Workers, NEW d \in dying'[w]
                PROVE  /\ \A v \in Workers : d \in dying'[v] => v = w
                       /\ \A q \in runs' : Noticing(q) => RunDeath(q) # d
    BY DEF DeathsOnce, Noticing, RunDeath
  <2>1. d \in Death
    BY DEF TypeOK
  <2>2. FreshDeath(d) => ~InMemory(d)
    BY <1>0, <2>1, FreshNotInMemory
  <2>3. \A v \in Workers : d \in dying[v] => InMemory(d)
    BY DEF InMemory
  <2>4. \A r \in runs : Noticing(r) /\ RunDeath(r) = d => InMemory(d)
    BY DEF InMemory
  <2>5. \A v \in Workers : d \in dying'[v] => d \in dying[v] \/ FreshDeath(d)
    BY DEF DeathsFollow
  <2>6. \A q \in runs' : Noticing(q) /\ RunDeath(q) = d =>
            (\E r \in runs : Noticing(r) /\ RunDeath(r) = d) \/ FreshDeath(d)
    BY DEF DeathsFollow
  <2>7. CASE \A v \in Workers : DyingShrinks(v)
    BY <1>0, <2>2, <2>3, <2>6, <2>7 DEF DyingShrinks, DeathsOnce
  <2>8. CASE NoticesOld /\ \E u \in Workers : \A v \in Workers \ {u} : DyingShrinks(v)
    <3>1. PICK u \in Workers : \A v \in Workers \ {u} : DyingShrinks(v)
      BY <2>8
    <3>2. \A q \in runs' : Noticing(q) /\ RunDeath(q) = d =>
              \E r \in runs : Noticing(r) /\ RunDeath(r) = d
      BY <2>8 DEF NoticesOld
    <3>. QED BY <1>0, <2>2, <2>3, <2>4, <2>5, <3>1, <3>2 DEF DyingShrinks, DeathsOnce
  <2>. QED BY <2>7, <2>8 DEF DeathsFollow
<1>3. DeathsOwed'
  <2>. SUFFICES ASSUME NEW d \in Death, InMemory(d)', StillDead(d)', d.key \notin HookKeys
                PROVE  d \in owedNotice'
    BY DEF DeathsOwed
  <2>1. CASE FreshDeath(d)
    BY <2>1 DEF FreshDeath
  <2>2. CASE InMemory(d)
    <3>1. d \in owedNotice
      BY <1>0, <2>2, StoodBefore DEF DeathsOwed
    <3>. QED BY <3>1 DEF DeathsFollow
  <2>. QED BY <2>1, <2>2, MemoryFollows
<1>. QED BY <1>1, <1>2, <1>3

LEMMA SameMemory ==
    ASSUME UNCHANGED dying, NoticesOld, owedNotice \subseteq owedNotice'
    PROVE  DeathsFollow
  BY DEF DeathsFollow, NoticesOld, DyingShrinks

LEMMA SameRunsNotices == UNCHANGED runs => NoticesOld
  BY DEF NoticesOld, Noticing, RunDeath

LEMMA CallOffNotices ==
    ASSUME TypeOK, NEW k \in Keys, CallOff(k)
    PROVE  NoticesOld
<1>. DEFINE mark(r) == IF r.key = k /\ SameRow(r) /\ r.stage = "handler"
                       THEN [r EXCEPT !.calledOff = TRUE] ELSE r
<1>1. runs' = {mark(r) : r \in runs}
  BY DEF CallOff
<1>2. ASSUME NEW r \in runs PROVE RunDeath(mark(r)) = RunDeath(r) /\ mark(r).stage = r.stage
  <2>1. r \in Run
    BY DEF TypeOK
  <2>2. CASE r.key = k /\ SameRow(r) /\ r.stage = "handler"
    BY <2>1, <2>2 DEF Run, RunDeath
  <2>3. CASE ~(r.key = k /\ SameRow(r) /\ r.stage = "handler")
    BY <2>3
  <2>. QED BY <2>2, <2>3
<1>. HIDE DEF mark
<1>. QED BY <1>1, <1>2 DEF NoticesOld, Noticing

\* A statement that takes a key's row back settles what was owed about its deaths.
LEMMA TakenBack ==
    ASSUME DInv, NEW k \in Keys, UNCHANGED dying, NoticesOld,
           owedNotice' = WithoutKey(owedNotice, k),
           \/ rows'[k].status # "DEAD"
           \/ /\ k \notin HookKeys
              /\ rows[k].status # "ABSENT" /\ rows'[k].id = rows[k].id
              /\ rows'[k].seq > rows[k].seq,
           rows'[k] \in Row
    PROVE  DeathsFollow
<1>0. TypeOK /\ DeathsPast
  BY DEF DInv, IInv
<1>1. ASSUME NEW d \in owedNotice \ owedNotice', d.key \notin HookKeys, InMemory(d)', StillDead(d)'
      PROVE  FALSE
  <2>1. d \in Death /\ d.key = k
    BY <1>0, <1>1 DEF TypeOK, WithoutKey
  <2>2. InMemory(d)
    <3>1. \A q \in runs' : Noticing(q) =>
              \E r \in runs : Noticing(r) /\ RunDeath(r) = RunDeath(q)
      BY DEF NoticesOld
    <3>2. (\E w \in Workers : d \in dying[w]) \/ \E q \in runs' : Noticing(q) /\ RunDeath(q) = d
      BY <1>1 DEF InMemory, RunDeath, Noticing
    <3>. QED BY <3>1, <3>2 DEF InMemory
  <2>3. rows'[k].status = "DEAD" /\ rows'[k].id = d.id /\ rows'[k].seq = d.seq
    BY <1>1, <2>1 DEF StillDead, SameRow
  <2>4. rows[k].status # "ABSENT" /\ rows[k].id = d.id /\ rows'[k].seq > rows[k].seq
    BY <2>3
  <2>5. d.seq <= rows[k].seq
    BY <2>1, <2>2, <2>4, <1>0 DEF DeathsPast, SameRow
  <2>6. rows[k].seq \in Nat /\ d.seq \in Nat
    BY <1>0, <2>1, RowFields DEF TypeOK, Death
  <2>. QED BY <2>3, <2>4, <2>5, <2>6
<1>. QED BY <1>1 DEF DeathsFollow, NoticesOld, DyingShrinks

LEMMA ArmRowDeaths ==
    ASSUME DInv, NEW k \in Keys, NEW due \in BOOLEAN, ArmRow(k, due), UNCHANGED <<runs, dying>>
    PROVE  DeathsFollow
<1>0. TypeOK /\ arms + 1 \in Nat /\ rows[k] \in Row
  BY DEF DInv, IInv, TypeOK
<1>1. rows'[k] = Armed(k, rows[k], arms + 1, due) /\ owedNotice' = WithoutKey(owedNotice, k)
  BY <1>0 DEF ArmRow, TypeOK
<1>2. rows'[k].status = "PENDING" /\ rows'[k] \in Row
  <2>1. rows'[k] \in Row
    BY <1>0, <1>1, ArmedStep
  <2>2. Armed(k, rows[k], arms + 1, due).status = "PENDING"
    BY <1>0 DEF Armed, Row, NoRow
  <2>. QED BY <1>1, <2>1, <2>2
<1>. QED BY <1>1, <1>2, SameRunsNotices, TakenBack

LEMMA ProducerDeaths ==
    ASSUME DInv, OnlyRemindersMarked, NEW k \in Keys, Producer(k)
    PROVE  DeathsFollow
<1>0. TypeOK /\ rows[k] \in Row /\ rows[k].seq \in Nat
  BY RowFields DEF DInv, IInv, TypeOK
<1>r. k \in ReminderKeys => k \notin HookKeys
  BY LaneAssumption DEF HookKeys
<1>1. CASE \E due \in BOOLEAN : Arm(k, due)
  BY <1>1, ArmRowDeaths DEF Arm
<1>2. CASE CancelPending(k) \/ \E next \in {"tombstone", "tombstoneAndMove"} :
                                   BookingCancelsPending(k, next)
  BY <1>2, SameMemory, SameRunsNotices DEF CancelPending, BookingCancelsPending
<1>3. CASE Retire(k)
  BY <1>0, <1>3, SameMemory, CallOffNotices DEF Retire
<1>4. CASE Revoke(k)
  <2>1. rows'[k] = NoRow(rows[k].id)
    BY <1>0, <1>4 DEF Revoke, TypeOK
  <2>2. rows'[k] \in Row /\ rows'[k].status # "DEAD"
    BY <1>0, <2>1, NoRowStep DEF NoRow
  <2>. QED BY <1>4, <2>2, SameRunsNotices, TakenBack DEF Revoke
<1>5. CASE BookingTombstones(k)
  <2>1. NoticesOld /\ UNCHANGED dying
    BY <1>0, <1>5, CallOffNotices DEF BookingTombstones
  <2>2. CASE booking[k] = "tombstone"
    BY <1>5, <2>1, <2>2, SameMemory DEF BookingTombstones
  <2>3. CASE booking[k] = "tombstoneAndMove"
    <3>1. /\ rows'[k] = Tombstoned(rows[k], TRUE)
          /\ owedNotice' = WithoutKey(owedNotice, k)
      BY <1>0, <1>5, <2>3 DEF BookingTombstones, TypeOK
    <3>2. rows'[k] \in Row
      BY <1>0, <3>1, TombstonedStep
    <3>3. k \notin HookKeys
      BY <1>5, <1>r DEF BookingTombstones, OnlyRemindersMarked
    <3>4. CASE rows[k].status = "ABSENT"
      <4>1. rows'[k].status # "DEAD"
        BY <3>1, <3>4 DEF Tombstoned
      <4>. QED BY <2>1, <3>1, <3>2, <4>1, TakenBack
    <3>5. CASE rows[k].status # "ABSENT"
      <4>1. rows'[k].id = rows[k].id /\ rows'[k].seq > rows[k].seq
        BY <1>0, <3>1, <3>5, TombstonedSeq, Zenon
      <4>. QED BY <2>1, <3>1, <3>2, <3>3, <3>5, <4>1, TakenBack
    <3>. QED BY <3>4, <3>5
  <2>. QED BY <1>5, <2>2, <2>3 DEF BookingTombstones
<1>6. CASE BookingRearms(k)
  BY <1>6, ArmRowDeaths, SameMemory, SameRunsNotices DEF BookingRearms
<1>7. CASE CancelThreadAppointments(k)
  <2>1. NoticesOld /\ UNCHANGED dying /\ owedNotice' = WithoutKey(owedNotice, k)
    BY <1>0, <1>7, CallOffNotices DEF CancelThreadAppointments
  <2>2. /\ k \in ReminderKeys /\ rows[k].status # "ABSENT"
        /\ rows'[k] = ThreadCancelled(rows[k])
    BY <1>0, <1>7 DEF CancelThreadAppointments, TypeOK
  <2>3. rows'[k] \in Row
    BY <1>0, <2>2, ThreadCancelledStep
  <2>4. rows'[k].id = rows[k].id /\ rows'[k].seq = rows[k].seq + 1
    BY <1>0, <2>2 DEF ThreadCancelled, Row
  <2>5. rows'[k].seq > rows[k].seq
    BY <1>0, <2>4
  <2>. QED BY <1>r, <2>1, <2>2, <2>3, <2>4, <2>5, TakenBack
<1>. QED BY <1>1, <1>2, <1>3, <1>4, <1>5, <1>6, <1>7 DEF Producer

\* A death leaves the memory with its line, or with the fault that costs it.
LEMMA DeathLeaves ==
    ASSUME DInv, NEW w \in Workers, NEW d \in dying[w],
           dying' = [dying EXCEPT ![w] = @ \ {d}], UNCHANGED runs,
           owedNotice' = owedNotice \/ owedNotice' = owedNotice \ {d}
    PROVE  DeathsFollow
<1>0. TypeOK /\ DeathsOnce
  BY DEF DInv, IInv
<1>1. dying'[w] = dying[w] \ {d} /\ \A v \in Workers \ {w} : dying'[v] = dying[v]
  BY <1>0 DEF TypeOK
<1>2. ~InMemory(d)'
  <2>1. \A v \in Workers : d \notin dying'[v]
    BY <1>0, <1>1 DEF DeathsOnce
  <2>2. \A q \in runs' : Noticing(q) => RunDeath(q) # d
    BY <1>0 DEF DeathsOnce
  <2>. QED BY <2>1, <2>2 DEF InMemory, Noticing, RunDeath
<1>3. \A c \in owedNotice \ owedNotice' : c = d
  OBVIOUS
<1>4. \A v \in Workers : dying'[v] \subseteq dying[v]
  BY <1>1
<1>. QED BY <1>2, <1>3, <1>4, SameRunsNotices DEF DeathsFollow, NoticesOld, DyingShrinks

LEMMA AnnounceOwes ==
    ASSUME NEW d, Announce(d)
    PROVE  owedNotice' = owedNotice \/ owedNotice' = owedNotice \ {d}
  BY DEF Announce

LEMMA StartTickDeaths ==
    ASSUME DInv, NEW w \in Workers, StartTick(w)
    PROVE  DeathsFollow
<1>0. TypeOK
  BY DEF DInv, IInv
<1>. DEFINE reaped == [k \in Keys |-> IF k \in ToReap(w) THEN Reaped(rows[k]) ELSE rows[k]]
            deaths == {DeathOf(k, rows[k]) : k \in {x \in ToReap(w) : reaped[x].status = "DEAD"}}
<1>1. ToReap(w) \subseteq Keys
  BY LaneAssumption DEF ToReap, ReapScope, Workers, Lanes
<1>2. /\ rows' = reaped /\ dying' = [dying EXCEPT ![w] = deaths]
      /\ owedNotice' = owedNotice \cup deaths /\ UNCHANGED runs
  BY DEF StartTick, ToAnnounce
<1>3. ASSUME NEW d \in deaths PROVE FreshDeath(d)
  <2>1. PICK k \in ToReap(w) : d = DeathOf(k, rows[k]) /\ reaped[k].status = "DEAD"
    OBVIOUS
  <2>2. k \in Keys /\ rows[k] \in Row /\ rows[k].status = "CLAIMED"
    BY <1>0, <1>1, <2>1 DEF ToReap, TypeOK
  <2>3. rows'[k] = Reaped(rows[k]) /\ rows'[k].status = "DEAD"
    BY <1>2, <2>1, <2>2
  <2>4. rows'[k].id = rows[k].id /\ rows'[k].seq = rows[k].seq
    BY <2>2, <2>3, ReapedStep
  <2>5. d.key = k /\ d.id = rows[k].id /\ d.seq = rows[k].seq
    BY <2>1 DEF DeathOf
  <2>. QED BY <1>2, <2>2, <2>3, <2>4, <2>5 DEF FreshDeath
<1>. HIDE DEF reaped, deaths
<1>4. dying'[w] = deaths /\ \A v \in Workers \ {w} : dying'[v] = dying[v]
  BY <1>0, <1>2 DEF TypeOK
<1>. QED BY <1>2, <1>3, <1>4, SameRunsNotices DEF DeathsFollow, NoticesOld, DyingShrinks

LEMMA ClaimNotices ==
    ASSUME NEW w, NEW traffic, NEW limit, ClaimRows(w, traffic, limit)
    PROVE  NoticesOld
<1>1. PICK S \in SUBSET Claimable(w, traffic) :
          runs' = runs \cup {RunOf(k, Claimed(rows[k]), w) : k \in S}
  BY DEF ClaimRows
<1>2. \A k, row : RunOf(k, row, w).stage = "handler"
  BY DEF RunOf
<1>. QED BY <1>1, <1>2 DEF NoticesOld, Noticing

LEMMA WorkerDeaths ==
    ASSUME DInv, NEW w \in Workers, Worker(w) \/ ClaimTraffic
    PROVE  DeathsFollow
<1>. USE DEF historyVars
<1>1. CASE StartTick(w)
  BY <1>1, StartTickDeaths
<1>2. CASE AnnounceReaped(w)
  BY <1>2, DeathLeaves, AnnounceOwes DEF AnnounceReaped
<1>3. CASE NoticeLost(w)
  BY <1>3, DeathLeaves DEF NoticeLost
<1>4. CASE EndTick(w)
  BY <1>4, SameMemory, SameRunsNotices DEF EndTick
<1>5. CASE ClaimBatch(w) \/ ClaimTraffic
  BY <1>5, SameMemory, ClaimNotices DEF ClaimBatch, ClaimTraffic
<1>. QED BY <1>1, <1>2, <1>3, <1>4, <1>5 DEF Worker

LEMMA NoticeLeaves ==
    ASSUME DInv, NEW r \in runs, Noticing(r), runs' = runs \ {r}, UNCHANGED dying,
           owedNotice' = owedNotice \/ owedNotice' = owedNotice \ {RunDeath(r)}
    PROVE  DeathsFollow
<1>0. TypeOK /\ DeathsOnce /\ TokensUnique
  BY DEF DInv, IInv
<1>1. \A w \in Workers : RunDeath(r) \notin dying[w]
  BY <1>0 DEF DeathsOnce
<1>2. \A q \in runs \ {r} : RunDeath(q) # RunDeath(r)
  BY <1>0 DEF TokensUnique, RunDeath
<1>3. ~InMemory(RunDeath(r))'
  <2>. DEFINE d == RunDeath(r)
  <2>1. \A w \in Workers : d \notin dying'[w]
    BY <1>1
  <2>2. \A q \in runs' : RunDeath(q) # d
    BY <1>2
  <2>. HIDE DEF d
  <2>3. ~((\E w \in Workers : d \in dying'[w]) \/ (\E q \in runs' : Noticing(q) /\ RunDeath(q) = d))
    BY <2>1, <2>2
  <2>. QED BY <2>3 DEF InMemory, Noticing, RunDeath, d
<1>. DEFINE d == RunDeath(r)
<1>4. \A c \in owedNotice \ owedNotice' : c = d
  OBVIOUS
<1>5. ~InMemory(d)'
  BY <1>3
<1>. HIDE DEF d
<1>6. \A c \in owedNotice \ owedNotice' : ~InMemory(c)'
  BY <1>4, <1>5
<1>. QED BY <1>6 DEF DeathsFollow, NoticesOld, DyingShrinks

LEMMA FailsDeaths ==
    ASSUME DInv, NEW r \in runs, HandlerFails(r)
    PROVE  DeathsFollow
<1>0. TypeOK /\ r \in Run /\ r.key \in Keys /\ rows[r.key] \in Row /\ rows \in [Keys -> Row]
  BY WithRunRow DEF DInv, IInv, TypeOK
<1>. DEFINE q == [r EXCEPT !.stage = "notice"]
            dead == Holds(r) /\ NextStatus(r.attempts) = "DEAD"
            death == DeathOf(r.key, rows[r.key])
<1>1. CASE ~dead
  <2>1. runs' \subseteq runs /\ owedNotice \subseteq owedNotice' /\ UNCHANGED dying
    BY <1>1 DEF HandlerFails
  <2>2. NoticesOld
    BY <2>1 DEF NoticesOld
  <2>. QED BY <2>1, <2>2, SameMemory
<1>2. CASE dead
  <2>1. /\ runs' = (runs \ {r}) \cup {q} /\ owedNotice' = owedNotice \cup {death}
        /\ UNCHANGED dying /\ rows' = [rows EXCEPT ![r.key] = Failed(r, rows[r.key])]
    BY <1>2 DEF HandlerFails
  <2>2. rows[r.key].status = "CLAIMED" /\ rows[r.key].id = r.id /\ rows[r.key].seq = r.seq
    BY <1>2 DEF Holds, SameRow
  <2>3. /\ rows'[r.key].status = "DEAD" /\ rows'[r.key].id = r.id /\ rows'[r.key].seq = r.seq
    BY <1>0, <1>2, <2>1, <2>2 DEF Failed, Row
  <2>4. /\ RunDeath(q) = death /\ death.key = r.key /\ death.id = r.id /\ death.seq = r.seq
    BY <1>0, <2>2 DEF RunDeath, DeathOf, Run
  <2>. HIDE DEF q, death
  <2>5. FreshDeath(RunDeath(q))
    BY <2>1, <2>2, <2>3, <2>4 DEF FreshDeath
  <2>6. \A p \in runs' : p \in runs \/ p = q
    BY <2>1
  <2>. QED BY <2>1, <2>5, <2>6 DEF DeathsFollow, DyingShrinks
<1>. QED BY <1>1, <1>2

LEMMA OutcomeDeaths ==
    ASSUME DInv, NEW r \in runs, Outcome(r) \/ WriteLost(r)
    PROVE  DeathsFollow
<1>. USE DEF historyVars
<1>1. ASSUME runs' = runs \ {r}, UNCHANGED <<dying, owedNotice>> PROVE DeathsFollow
  BY <1>1, SameMemory DEF NoticesOld
<1>2. CASE HandlerDone(r) \/ HandlerStandsDown(r) \/ HandlerReschedules(r)
  BY <1>1, <1>2 DEF HandlerDone, HandlerStandsDown, HandlerReschedules, Settled
<1>3. CASE HandlerFails(r)
  BY <1>3, FailsDeaths
<1>4. CASE RunAnnounces(r)
  BY <1>4, NoticeLeaves, AnnounceOwes DEF RunAnnounces, Settled, Noticing
<1>5. CASE WriteLost(r)
  <2>1. CASE Noticing(r)
    BY <1>5, <2>1, NoticeLeaves DEF WriteLost, Settled, Noticing
  <2>2. CASE ~Noticing(r)
    BY <1>1, <1>5, <2>2 DEF WriteLost, Settled, Noticing
  <2>. QED BY <2>1, <2>2
<1>. QED BY <1>2, <1>3, <1>4, <1>5 DEF Outcome

LEMMA StepDeaths == DInv /\ OnlyRemindersMarked /\ [Next]_vars => DeathsFollow
<1>. SUFFICES ASSUME DInv, OnlyRemindersMarked, [Next]_vars PROVE DeathsFollow
  OBVIOUS
<1>1. CASE \E k \in Keys : Producer(k) \/ BecomesDue(k) \/ GoesStale(k)
  BY <1>1, ProducerDeaths, SameMemory, SameRunsNotices DEF BecomesDue, GoesStale, historyVars
<1>2. CASE (\E w \in Enabled : Worker(w)) \/ ClaimTraffic
  BY <1>2, WorkerDeaths, BoundAssumption, WorkersAreWorkers
<1>3. CASE \E r \in runs : Outcome(r) \/ WriteLost(r)
  BY <1>3, OutcomeDeaths
<1>4. CASE Crash
  <2>1. \A d : ~InMemory(d)'
    BY <1>4 DEF Crash, InMemory
  <2>2. \A w \in Workers : dying'[w] = {}
    BY <1>4 DEF Crash
  <2>. QED BY <1>4, <2>1, <2>2 DEF Crash, DeathsFollow, DyingShrinks
<1>5. CASE UNCHANGED vars
  BY <1>5, SameMemory, SameRunsNotices DEF vars, queueVars, historyVars
<1>. QED BY <1>1, <1>2, <1>3, <1>4, <1>5 DEF Next

LEMMA DInvInit == Init => DInv
  BY IInvInit DEF Init, DInv, DeathsPast, DeathsOnce, DeathsOwed, InMemory

LEMMA DInvStep == WInv /\ DInv /\ [Next]_vars => DInv'
<1>. SUFFICES ASSUME WInv, DInv, [Next]_vars PROVE DInv'
  OBVIOUS
<1>1. IInv' /\ TypeOK' /\ RowsEvolve /\ DeathsFollow
  BY IInvStep, StepEvolves, StepDeaths DEF WInv, DInv, IInv
<1>. QED BY <1>1, DInvFollows DEF DInv

\* A death about to be announced is one run's or one reaper's, lies not in its row's future, and is
\* still owed its line, in every reachable state of the queue.
THEOREM DInvHolds == Spec => []DInv
  BY DInvInit, DInvStep, WInvHolds, PTL DEF Spec

\* What a run or a reaper is about to report as lost is still owed its line: no arming, reset or
\* revocation took the row back in between.
THEOREM OnlyStanding == Spec => OnlyStandingDeathsAnnounced
<1>. DEFINE Standing == \A d \in reported' \ reported : d.key \in HookKeys \/ d \in owedNotice
<1>1. ASSUME DInv, NEW d \in Death, InMemory(d), Announce(d)
      PROVE  \A c \in reported' \ reported : c.key \in HookKeys \/ c \in owedNotice
  BY <1>1 DEF Announce, DInv, DeathsOwed
<1>2. ASSUME DInv, [Next]_vars PROVE Standing
  <2>0. TypeOK
    BY <1>2 DEF DInv, IInv
  <2>1. CASE UNCHANGED reported
    BY <2>1
  <2>2. ASSUME NEW w \in Workers, AnnounceReaped(w) PROVE Standing
    <3>1. PICK d \in dying[w] : Announce(d)
      BY <2>2 DEF AnnounceReaped
    <3>2. d \in Death /\ InMemory(d)
      BY <2>0, <3>1 DEF TypeOK, InMemory
    <3>. QED BY <1>1, <1>2, <3>1, <3>2
  <2>3. ASSUME NEW r \in runs, RunAnnounces(r) PROVE Standing
    <3>1. Announce(RunDeath(r)) /\ InMemory(RunDeath(r)) /\ RunDeath(r) \in Death
      BY <2>0, <2>3, DeathTypes DEF RunAnnounces, InMemory, Noticing
    <3>. QED BY <1>1, <1>2, <3>1
  <2>4. CASE \E k \in Keys : Producer(k) \/ BecomesDue(k) \/ GoesStale(k)
    BY <2>1, <2>4 DEF Producer, Arm, CancelPending, Retire, Revoke, BookingCancelsPending,
         BookingTombstones, BookingRearms, CancelThreadAppointments, BecomesDue, GoesStale,
         historyVars
  <2>5. CASE (\E w \in Enabled : Worker(w)) \/ ClaimTraffic
    BY <2>1, <2>2, <2>5, BoundAssumption
       DEF Worker, StartTick, NoticeLost, ClaimBatch, ClaimTraffic, EndTick, historyVars
  <2>6. CASE \E r \in runs : Outcome(r) \/ WriteLost(r)
    BY <2>1, <2>3, <2>6 DEF Outcome, HandlerDone, HandlerStandsDown, HandlerReschedules,
         HandlerFails, WriteLost, historyVars
  <2>7. CASE Crash \/ UNCHANGED vars
    BY <2>1, <2>7 DEF Crash, vars, historyVars
  <2>. QED BY <1>2, <2>4, <2>5, <2>6, <2>7 DEF Next
<1>3. DInv /\ [Next]_vars => [Standing]_vars
  BY <1>2
<1>. QED BY <1>3, DInvHolds, PTL DEF Spec, OnlyStandingDeathsAnnounced
=============================================================================
