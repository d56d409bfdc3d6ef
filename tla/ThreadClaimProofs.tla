------------------------- MODULE ThreadClaimProofs -------------------------
(***************************************************************************)
(* Proofs about ThreadClaim, for any processes, turns, messages, appends   *)
(* and /reset commands and every bound.                                    *)
(*                                                                         *)
(* Until a holder stalls past its own lease (slow = 0), the two claims keep *)
(* their writers apart, what the row remembers is in the thread and what a *)
(* /reset cleared stays cleared.  The argument:                            *)
(*                                                                         *)
(*   HoldersInv  a turn that holds the thread is of the occupancy the row  *)
(*               is in, the lease is live, and the row counts at least as  *)
(*               many holders as there are: so a release by one of them    *)
(*               leaves the lease to the others, and none of them can be   *)
(*               taken for a stale one;                                    *)
(*   WriterInv   an append at work holds the write claim under its token,  *)
(*               and no turn holds the thread beside it;                   *)
(*   ContentInv  what the row remembers is in the channel, and in what     *)
(*               each invoke read of it, but for what a /reset tore out;   *)
(*   LockInv     from its check to its commit a /reset has the row: nobody *)
(*               takes the thread, and the checkpoint stays empty;         *)
(*   ClearInv    nothing that was cleared is on its way back: no message   *)
(*               of it is owed, no turn of it is past its second look, no  *)
(*               invoke read it, and the old conversation's marker, which  *)
(*               a divider needs, is gone.                                 *)
(*                                                                         *)
(* The queues and the Maps of the processes keep their types and are not   *)
(* used otherwise: the two leases alone carry the safety.                  *)
(***************************************************************************)
EXTENDS ThreadClaim, FiniteSetTheorems, TLAPS

TurnType == [pc : TurnPcs, proc : Procs \cup {Nobody}, epoch : Nat, occ : Nat,
             here : BOOLEAN, before : BOOLEAN, advance : BOOLEAN,
             timer : BOOLEAN, snap : SUBSET Entries]
AppendType == [pc : AppendPcs, proc : Procs \cup {Nobody}, msg : Msgs \cup {Nobody},
               created : BOOLEAN, divider : BOOLEAN, advance : BOOLEAN,
               prev : Stamps, outcome : {"done", "later"}]
ResetType == [pc : ResetPcs, proc : Procs \cup {Nobody}, revoked : SUBSET Msgs]
Queued == Turns \cup Appends \cup Resets

\* The variables in groups: a step has to be looked at only where it writes.
ThreadInv == threadRow \in RowType /\ channel \subseteq Entries
TurnsInv == turn \in [Turns -> TurnType]
AppendsInv == append \in [Appends -> AppendType]
ResetsInv == /\ reset \in [Resets -> ResetType] /\ calledOff \subseteq FlushTurns
             /\ cleared \subseteq Entries /\ torn \subseteq Entries
JobsInv == /\ owed \subseteq arrived /\ arrived \subseteq Msgs
           /\ current \in [Msgs -> Appends \cup {Nobody}]
LocalInv == inFlight \in [Procs -> Nat] /\ queue \in [Procs -> Seq(Queued)]
BoundsInv == faults \in 0..MaxFaults /\ slow \in 0..MaxSlow /\ occupancies \in Nat
\* An append has a message, and one that has come.
MsgInv == \A a \in Appends : append[a].pc # "idle" => append[a].msg \in arrived

TypeInv == /\ ThreadInv /\ TurnsInv /\ AppendsInv /\ ResetsInv /\ JobsInv /\ LocalInv
           /\ BoundsInv /\ MsgInv

Held(t) == Holding(t) \/ turn[t].pc = "decrementing"
HeldTurns == {t \in Turns : Held(t)}
Saved == {"invoking", "releasing", "decrementing", "done"}

HoldersInv ==
    /\ \A t \in Turns : Held(t) =>
          /\ threadRow.exists /\ threadRow.lease
          /\ threadRow.epoch = turn[t].epoch /\ threadRow.occ = turn[t].occ
          /\ Holding(t) => turn[t].timer
    /\ IsFiniteSet(HeldTurns) /\ Cardinality(HeldTurns) <= threadRow.holders

WriterInv ==
    \A a \in Appends : Working(a) =>
        /\ threadRow.exists /\ threadRow.write /\ threadRow.token = a
        /\ \A t \in Turns : ~Held(t)

ContentInv ==
    /\ RememberedIsInThread
    /\ \A t \in Turns : turn[t].pc = "invoking" => threadRow.recorded \subseteq turn[t].snap \cup torn
    /\ \A a \in Appends : append[a].pc = "recording" => append[a].msg \in channel

\* What may be in a channel: messages that came, turns that saved.
Written(S) == /\ \A m \in S \cap Msgs : m \in arrived
              /\ \A t \in S \cap Turns : turn[t].pc \in Saved

\* A turn that was cleared has ended, or is called off and short of its second look.
Barred(t) == \/ turn[t].pc \in {"releasing", "decrementing", "done"}
             \/ t \in calledOff /\ turn[t].pc \in {"queued", "claiming", "claimed"}

NoneBack ==
    /\ \A m \in cleared \cap Msgs : m \in arrived /\ m \notin owed
    /\ \A t \in cleared \cap Turns : Barred(t)
    /\ \A t \in calledOff : turn[t].pc # "idle"
InvokesClear ==
    \A t \in Turns : turn[t].pc = "invoking" =>
        Written(turn[t].snap) /\ turn[t].snap \cap cleared = {}
WritesClear ==
    /\ \A a \in Appends : append[a].pc = "writing" =>
          append[a].msg \notin cleared /\ (append[a].divider => append[a].prev = "old")
    /\ Divider \in cleared =>
          /\ threadRow.conv # "old"
          /\ \A a \in Appends : append[a].pc \in {"writing", "recording"} => append[a].prev # "old"

ClearInv == /\ ClearedStaysCleared /\ Written(channel) /\ Written(torn)
            /\ NoneBack /\ InvokesClear /\ WritesClear

LockInv ==
    \A r \in Resets : reset[r].pc = "commit" =>
        /\ \A t \in Turns : ~Held(t)
        /\ \A a \in Appends : ~Working(a)
        /\ channel = {}
        /\ reset[r].revoked \subseteq arrived
        /\ (owed \ reset[r].revoked) \cap torn = {}

Excl == HoldersInv /\ WriterInv /\ ContentInv /\ ClearInv

----------------------------------------------------------------------------
(* Types. *)

LEMMA TypeInvIsTypeOK == TypeInv => TypeOK
  BY DEF TypeInv, TypeOK, ThreadInv, TurnsInv, AppendsInv, ResetsInv, JobsInv, LocalInv, BoundsInv,
         TurnType, AppendType, ResetType, Queued

LEMMA NoRowType == NoRow \in RowType /\ OldRow \in RowType
<1>1. NoRow \in RowType
  BY DEF NoRow, RowType, Stamps
<1>. QED BY <1>1 DEF OldRow, RowType, Stamps

LEMMA IdleType ==
    /\ IdleTurn \in TurnType /\ EndedTurn \in TurnType /\ EndedTurn.pc = "done"
    /\ IdleAppend \in AppendType /\ IdleAppend.pc = "idle"
<1>1. IdleTurn \in TurnType
  BY DEF IdleTurn, TurnType, TurnPcs
<1>2. EndedTurn \in TurnType /\ EndedTurn.pc = "done"
  BY <1>1 DEF EndedTurn, TurnType, TurnPcs
<1>3. IdleAppend \in AppendType /\ IdleAppend.pc = "idle"
  BY DEF IdleAppend, AppendType, AppendPcs, Stamps
<1>. QED BY <1>1, <1>2, <1>3

LEMMA InitType == Init => TypeInv
<1>. SUFFICES ASSUME Init PROVE TypeInv
  OBVIOUS
<1>1. ThreadInv /\ TurnsInv /\ AppendsInv
  BY NoRowType, IdleType DEF Init, ThreadInv, TurnsInv, AppendsInv
<1>2. ResetsInv /\ JobsInv /\ LocalInv
  BY DEF Init, ResetsInv, JobsInv, LocalInv, ResetType, ResetPcs, IdleReset
<1>3. BoundsInv /\ MsgInv
  BY ConstantsAssumption, IdleType DEF Init, BoundsInv, MsgInv
<1>. QED BY <1>1, <1>2, <1>3 DEF TypeInv

LEMMA QueueKept ==
    ASSUME LocalInv, NEW x \in Queued, NEW p,
           Waits(x, p) \/ Leaves(x, p) \/ UNCHANGED queue
    PROVE  queue' \in [Procs -> Seq(Queued)]
<1>1. CASE p \in Procs
  <2>1. Append(queue[p], x) \in Seq(Queued)
    BY <1>1 DEF LocalInv
  <2>2. queue[p] # <<>> => Tail(queue[p]) \in Seq(Queued)
    BY <1>1 DEF LocalInv
  <2>3. CASE Waits(x, p)
    BY <2>1, <2>3, Zenon DEF Waits, LocalInv
  <2>4. CASE Leaves(x, p)
    BY <2>2, <2>4, Zenon DEF Leaves, Inside, LocalInv
  <2>. QED BY <2>3, <2>4 DEF LocalInv
<1>2. CASE p \notin Procs
  <2>1. queue' = queue
    BY <1>2 DEF Waits, Leaves, LocalInv
  <2>. QED BY <2>1 DEF LocalInv
<1>. QED BY <1>1, <1>2

LEMMA InFlightKept ==
    ASSUME LocalInv, NEW p, Marks(p) \/ Unmarks(p) \/ UNCHANGED inFlight
    PROVE  inFlight' \in [Procs -> Nat]
  BY DEF LocalInv, Marks, Unmarks

LEMMA LocalKept ==
    ASSUME LocalInv, NEW x \in Queued, NEW p,
           Waits(x, p) \/ Leaves(x, p) \/ UNCHANGED queue,
           Marks(p) \/ Unmarks(p) \/ UNCHANGED inFlight
    PROVE  LocalInv'
  BY QueueKept, InFlightKept DEF LocalInv

LEMMA FaultKept == ASSUME BoundsInv, Fault PROVE faults' \in 0..MaxFaults
  BY ConstantsAssumption DEF BoundsInv, Fault

\* One turn is replaced.
LEMMA TurnReplaced ==
    ASSUME TurnsInv, NEW t \in Turns, NEW new \in TurnType, turn' = [turn EXCEPT ![t] = new]
    PROVE  TurnsInv' /\ turn'[t] = new /\ \A u \in Turns : u # t => turn'[u] = turn[u]
  BY DEF TurnsInv

LEMMA TurnGoes ==
    ASSUME TurnsInv, NEW t \in Turns, NEW pc \in TurnPcs, Goes(t, pc)
    PROVE  /\ TurnsInv' /\ turn'[t] = [turn[t] EXCEPT !.pc = pc]
           /\ turn'[t].pc = pc /\ turn'[t].epoch = turn[t].epoch /\ turn'[t].occ = turn[t].occ
           /\ turn'[t].timer = turn[t].timer /\ turn'[t].snap = turn[t].snap
           /\ \A u \in Turns : u # t => turn'[u] = turn[u]
<1>. DEFINE new == [turn[t] EXCEPT !.pc = pc]
<1>1. turn[t] \in TurnType
  BY DEF TurnsInv
<1>2. new \in TurnType
  BY <1>1 DEF TurnType
<1>3. /\ new.pc = pc /\ new.epoch = turn[t].epoch /\ new.occ = turn[t].occ
      /\ new.timer = turn[t].timer /\ new.snap = turn[t].snap
  BY <1>1 DEF TurnType
<1>4. turn' = [turn EXCEPT ![t] = new]
  BY DEF Goes
<1>. HIDE DEF new
<1>5. TurnsInv' /\ turn'[t] = new /\ \A u \in Turns : u # t => turn'[u] = turn[u]
  BY <1>2, <1>4, TurnReplaced
<1>. QED BY <1>3, <1>5 DEF new

LEMMA TurnFinishes ==
    ASSUME TurnsInv, NEW t \in Turns, Finishes(t)
    PROVE  /\ TurnsInv' /\ turn'[t].pc = "done"
           /\ \A u \in Turns : u # t => turn'[u] = turn[u]
<1>1. TurnsInv' /\ turn'[t] = EndedTurn /\ \A u \in Turns : u # t => turn'[u] = turn[u]
  BY IdleType, TurnReplaced DEF Finishes
<1>. QED BY <1>1, IdleType

\* What the steps of a turn that change several of its fields leave of it.
LEMMA TurnStartsDoes ==
    ASSUME TurnsInv, NEW t \in Turns, NEW p \in Procs, TurnStarts(t, p)
    PROVE  /\ TurnsInv' /\ turn'[t].pc = "queued"
           /\ \A u \in Turns : u # t => turn'[u] = turn[u]
<1>. DEFINE new == [turn[t] EXCEPT !.pc = "queued", !.proc = p]
<1>1. new \in TurnType /\ new.pc = "queued"
  BY DEF TurnsInv, TurnType, TurnPcs
<1>2. turn' = [turn EXCEPT ![t] = new]
  BY DEF TurnStarts
<1>. HIDE DEF new
<1>. QED BY <1>1, <1>2, TurnReplaced

LEMMA TurnEntersDoes ==
    ASSUME TurnsInv, NEW t \in Turns, TurnEnters(t)
    PROVE  /\ TurnsInv' /\ turn[t].pc = "queued"
           /\ IF t \in calledOff THEN turn'[t].pc = "done" ELSE turn'[t].pc = "claiming"
           /\ \A u \in Turns : u # t => turn'[u] = turn[u]
<1>. DEFINE here == inFlight[turn[t].proc] > 0
            new == [turn[t] EXCEPT !.pc = "claiming", !.here = here]
<1>1. turn[t] \in TurnType /\ here \in BOOLEAN
  BY DEF TurnsInv
<1>2. t \notin calledOff => turn' = [turn EXCEPT ![t] = new]
  BY DEF TurnEnters
<1>3. turn[t].pc = "queued" /\ (t \in calledOff => Finishes(t))
  BY Zenon DEF TurnEnters
<1>. HIDE DEF here
<1>4. new \in TurnType /\ new.pc = "claiming"
  BY <1>1 DEF TurnType, TurnPcs
<1>. HIDE DEF new
<1>. QED BY <1>2, <1>3, <1>4, TurnReplaced, TurnFinishes

LEMMA RowHeldDoes ==
    ASSUME ThreadInv, BoundsInv
    PROVE  /\ RowHeld \in RowType /\ RowHeld.exists /\ RowHeld.lease
           /\ RowHeld.holders = (IF Fresh THEN 1 ELSE threadRow.holders + 1)
           /\ RowHeld.epoch = (IF Fresh THEN threadRow.epoch + 1 ELSE threadRow.epoch)
           /\ RowHeld.occ = (IF Fresh THEN occupancies + 1 ELSE threadRow.occ)
           /\ RowHeld.write = threadRow.write /\ RowHeld.token = threadRow.token
           /\ RowHeld.recorded = threadRow.recorded /\ RowHeld.conv = threadRow.conv
<1>. DEFINE holders == IF Fresh THEN 1 ELSE threadRow.holders + 1
            epoch == IF Fresh THEN threadRow.epoch + 1 ELSE threadRow.epoch
            occ == IF Fresh THEN occupancies + 1 ELSE threadRow.occ
<1>1. holders \in Nat /\ epoch \in Nat /\ occ \in Nat
  BY DEF ThreadInv, BoundsInv, RowType
<1>2. RowHeld = [threadRow EXCEPT !.exists = TRUE, !.lease = TRUE, !.holders = holders,
                                  !.epoch = epoch, !.occ = occ]
  BY Zenon DEF RowHeld
<1>3. threadRow \in RowType
  BY DEF ThreadInv
<1>. HIDE DEF holders, epoch, occ
<1>4. /\ RowHeld \in RowType /\ RowHeld.exists /\ RowHeld.lease
      /\ RowHeld.holders = holders /\ RowHeld.epoch = epoch /\ RowHeld.occ = occ
      /\ RowHeld.write = threadRow.write /\ RowHeld.token = threadRow.token
      /\ RowHeld.recorded = threadRow.recorded /\ RowHeld.conv = threadRow.conv
  BY <1>1, <1>2, <1>3 DEF RowType
<1>. QED BY <1>4 DEF holders, epoch, occ

LEMMA RowGivenBackDoes ==
    ASSUME ThreadInv
    PROVE  /\ RowGivenBack \in RowType /\ RowGivenBack.exists = threadRow.exists
           /\ RowGivenBack.holders = (IF threadRow.holders > 0 THEN threadRow.holders - 1 ELSE 0)
           /\ RowGivenBack.lease = (threadRow.lease /\ threadRow.holders > 1)
           /\ RowGivenBack.epoch = threadRow.epoch /\ RowGivenBack.occ = threadRow.occ
           /\ RowGivenBack.write = threadRow.write /\ RowGivenBack.token = threadRow.token
           /\ RowGivenBack.recorded = threadRow.recorded /\ RowGivenBack.conv = threadRow.conv
<1>. DEFINE holders == IF threadRow.holders > 0 THEN threadRow.holders - 1 ELSE 0
            lease == threadRow.lease /\ threadRow.holders > 1
<1>1. threadRow \in RowType
  BY DEF ThreadInv
<1>2. holders \in Nat /\ lease \in BOOLEAN
  BY <1>1 DEF RowType
<1>3. RowGivenBack = [threadRow EXCEPT !.holders = holders, !.lease = lease]
  BY <1>1, Zenon DEF RowGivenBack, RowType
<1>. HIDE DEF holders, lease
<1>4. /\ RowGivenBack \in RowType /\ RowGivenBack.exists = threadRow.exists
      /\ RowGivenBack.holders = holders /\ RowGivenBack.lease = lease
      /\ RowGivenBack.epoch = threadRow.epoch /\ RowGivenBack.occ = threadRow.occ
      /\ RowGivenBack.write = threadRow.write /\ RowGivenBack.token = threadRow.token
      /\ RowGivenBack.recorded = threadRow.recorded /\ RowGivenBack.conv = threadRow.conv
  BY <1>1, <1>2, <1>3 DEF RowType
<1>. QED BY <1>4 DEF holders, lease

LEMMA TurnClaimsDoes ==
    ASSUME ThreadInv, BoundsInv, TurnsInv, NEW t \in Turns, TurnClaims(t)
    PROVE  /\ TurnsInv' /\ turn[t].pc = "claiming" /\ turn'[t].pc = "claimed" /\ turn'[t].timer
           /\ turn'[t].epoch = threadRow'.epoch /\ turn'[t].occ = threadRow'.occ
           /\ \A u \in Turns : u # t => turn'[u] = turn[u]
<1>. DEFINE before == turn[t].here \/ threadRow'.holders > 1
            new == [turn[t] EXCEPT !.pc = "claimed", !.timer = TRUE, !.epoch = threadRow'.epoch,
                                   !.occ = threadRow'.occ, !.before = before]
<1>1. threadRow'.epoch \in Nat /\ threadRow'.occ \in Nat /\ threadRow'.holders \in Nat
  BY RowHeldDoes DEF TurnClaims, RowType
<1>2. turn[t] \in TurnType
  BY DEF TurnsInv
<1>3. before \in BOOLEAN
  BY <1>1, <1>2 DEF TurnType
<1>4. turn' = [turn EXCEPT ![t] = new] /\ turn[t].pc = "claiming"
  BY DEF TurnClaims
<1>. HIDE DEF before
<1>5. /\ new \in TurnType /\ new.pc = "claimed" /\ new.timer
      /\ new.epoch = threadRow'.epoch /\ new.occ = threadRow'.occ
  BY <1>1, <1>2, <1>3 DEF TurnType, TurnPcs
<1>. HIDE DEF new
<1>6. TurnsInv' /\ turn'[t] = new /\ \A u \in Turns : u # t => turn'[u] = turn[u]
  BY <1>4, <1>5, TurnReplaced
<1>. QED BY <1>4, <1>5, <1>6

LEMMA TurnWritesDividerDoes ==
    ASSUME ThreadInv, TurnsInv, NEW t \in Turns, TurnWritesDivider(t)
    PROVE  /\ TurnsInv' /\ turn[t].pc = "marking" /\ turn'[t].pc = "stamping"
           /\ turn'[t].timer = turn[t].timer
           /\ turn'[t].epoch = turn[t].epoch /\ turn'[t].occ = turn[t].occ
           /\ \A u \in Turns : u # t => turn'[u] = turn[u]
           /\ \/ channel' = channel
              \/ channel' = channel \cup {Divider} /\ threadRow.conv = "old"
<1>. DEFINE advance == AdvancesMarker(threadRow.conv, turn[t].before)
            new == [turn[t] EXCEPT !.pc = "stamping", !.advance = advance]
<1>1. turn[t] \in TurnType
  BY DEF TurnsInv
<1>2. advance \in BOOLEAN
  BY DEF AdvancesMarker
<1>3. turn' = [turn EXCEPT ![t] = new] /\ turn[t].pc = "marking"
  BY Zenon DEF TurnWritesDivider
<1>4. \/ channel' = channel
      \/ channel' = channel \cup {Divider} /\ threadRow.conv = "old"
  BY DEF TurnWritesDivider, WritesDivider
<1>. HIDE DEF advance
<1>5. /\ new \in TurnType /\ new.pc = "stamping" /\ new.timer = turn[t].timer
      /\ new.epoch = turn[t].epoch /\ new.occ = turn[t].occ
  BY <1>1, <1>2 DEF TurnType, TurnPcs
<1>. HIDE DEF new
<1>6. TurnsInv' /\ turn'[t] = new /\ \A u \in Turns : u # t => turn'[u] = turn[u]
  BY <1>3, <1>5, TurnReplaced
<1>. QED BY <1>3, <1>4, <1>5, <1>6

LEMMA TurnLoadsDoes ==
    ASSUME ThreadInv, TurnsInv, NEW t \in Turns, TurnLoads(t)
    PROVE  /\ TurnsInv' /\ turn[t].pc = "loading" /\ turn'[t].pc = "invoking"
           /\ turn'[t].snap = channel /\ turn'[t].timer = turn[t].timer
           /\ turn'[t].epoch = turn[t].epoch /\ turn'[t].occ = turn[t].occ
           /\ \A u \in Turns : u # t => turn'[u] = turn[u]
<1>. DEFINE new == [turn[t] EXCEPT !.pc = "invoking", !.snap = channel]
<1>1. turn[t] \in TurnType
  BY DEF TurnsInv
<1>2. /\ new \in TurnType /\ new.pc = "invoking" /\ new.timer = turn[t].timer
      /\ new.snap = channel /\ new.epoch = turn[t].epoch /\ new.occ = turn[t].occ
  BY <1>1 DEF TurnType, TurnPcs, ThreadInv
<1>3. turn' = [turn EXCEPT ![t] = new] /\ turn[t].pc = "loading"
  BY DEF TurnLoads
<1>. HIDE DEF new
<1>4. TurnsInv' /\ turn'[t] = new /\ \A u \in Turns : u # t => turn'[u] = turn[u]
  BY <1>2, <1>3, TurnReplaced
<1>. QED BY <1>2, <1>3, <1>4

\* The timer stops; what else the step may change is the program counter.
LEMMA TimerStops ==
    ASSUME TurnsInv, NEW t \in Turns, NEW pc \in TurnPcs,
           turn' = [turn EXCEPT ![t].pc = pc, ![t].timer = FALSE]
    PROVE  /\ TurnsInv' /\ turn'[t].pc = pc /\ ~turn'[t].timer
           /\ turn'[t].epoch = turn[t].epoch /\ turn'[t].occ = turn[t].occ
           /\ turn'[t].snap = turn[t].snap
           /\ \A u \in Turns : u # t => turn'[u] = turn[u]
<1>. DEFINE new == [turn[t] EXCEPT !.pc = pc, !.timer = FALSE]
<1>1. turn[t] \in TurnType
  BY DEF TurnsInv
<1>2. /\ new \in TurnType /\ new.pc = pc /\ ~new.timer
      /\ new.snap = turn[t].snap /\ new.epoch = turn[t].epoch /\ new.occ = turn[t].occ
  BY <1>1 DEF TurnType
<1>3. turn' = [turn EXCEPT ![t] = new]
  OBVIOUS
<1>. HIDE DEF new
<1>4. TurnsInv' /\ turn'[t] = new /\ \A u \in Turns : u # t => turn'[u] = turn[u]
  BY <1>2, <1>3, TurnReplaced
<1>. QED BY <1>2, <1>4

LEMMA TurnRenewsDoes ==
    ASSUME TurnsInv, NEW t \in Turns, TurnRenews(t)
    PROVE  \/ /\ Renews(t) /\ ~threadRow.lease /\ threadRow' = [threadRow EXCEPT !.lease = TRUE]
              /\ UNCHANGED turn
           \/ /\ ~Renews(t) /\ TurnsInv' /\ UNCHANGED threadRow
              /\ turn'[t].pc = turn[t].pc /\ turn'[t].snap = turn[t].snap
              /\ turn'[t].epoch = turn[t].epoch /\ turn'[t].occ = turn[t].occ
              /\ \A u \in Turns : u # t => turn'[u] = turn[u]
<1>1. CASE Renews(t)
  BY <1>1, Zenon DEF TurnRenews
<1>2. CASE ~Renews(t)
  <2>. DEFINE new == [turn[t] EXCEPT !.timer = FALSE]
  <2>1. turn[t] \in TurnType
    BY DEF TurnsInv
  <2>2. /\ new \in TurnType /\ new.pc = turn[t].pc
        /\ new.snap = turn[t].snap /\ new.epoch = turn[t].epoch /\ new.occ = turn[t].occ
    BY <2>1 DEF TurnType
  <2>3. turn' = [turn EXCEPT ![t] = new] /\ UNCHANGED threadRow
    BY <1>2 DEF TurnRenews
  <2>. HIDE DEF new
  <2>4. TurnsInv' /\ turn'[t] = new /\ \A u \in Turns : u # t => turn'[u] = turn[u]
    BY <2>2, <2>3, TurnReplaced
  <2>. QED BY <1>2, <2>2, <2>3, <2>4
<1>. QED BY <1>1, <1>2

LEMMA TurnFrame ==
    ASSUME TypeInv, UNCHANGED <<jobs, resets>>, ThreadInv', TurnsInv', LocalInv', BoundsInv'
    PROVE  TypeInv'
<1>1. AppendsInv' /\ ResetsInv' /\ JobsInv' /\ MsgInv'
  BY DEF TypeInv, jobs, resets, AppendsInv, ResetsInv, JobsInv, MsgInv
<1>. QED BY <1>1 DEF TypeInv

LEMMA TurnTypes ==
    ASSUME TypeInv, NEW t \in Turns,
           \/ \E p \in Procs : TurnStarts(t, p)
           \/ TurnStep(t) \/ TurnThrows(t) \/ TurnClaimThrows(t)
           \/ TurnReleaseLost(t) \/ TurnRenews(t)
    PROVE  TypeInv'
<1>. USE DEF TypeInv
<1>a. t \in Queued
  BY DEF Queued
<1>b. "queued" \in TurnPcs /\ "releasing" \in TurnPcs /\ "marking" \in TurnPcs
      /\ "loading" \in TurnPcs /\ "invoking" \in TurnPcs /\ "decrementing" \in TurnPcs
  BY DEF TurnPcs
<1>1. ASSUME NEW p \in Procs, TurnStarts(t, p) PROVE TypeInv'
  <2>1. TurnsInv'
    BY <1>1, TurnStartsDoes
  <2>2. LocalInv'
    BY <1>1, <1>a, LocalKept DEF TurnStarts
  <2>3. ThreadInv' /\ BoundsInv' /\ UNCHANGED <<jobs, resets>>
    BY <1>1 DEF TurnStarts, thread, bounds, ThreadInv, BoundsInv
  <2>. QED BY <2>1, <2>2, <2>3, TurnFrame
<1>2. CASE TurnEnters(t)
  <2>1. TurnsInv'
    BY <1>2, TurnEntersDoes
  <2>2. \/ Leaves(t, turn[t].proc) /\ UNCHANGED inFlight
        \/ Marks(turn[t].proc) /\ UNCHANGED queue
    BY <1>2, Zenon DEF TurnEnters
  <2>3. LocalInv'
    BY <2>2, <1>a, LocalKept
  <2>4. ThreadInv' /\ BoundsInv' /\ UNCHANGED <<jobs, resets>>
    BY <1>2 DEF TurnEnters, thread, bounds, ThreadInv, BoundsInv
  <2>. QED BY <2>1, <2>3, <2>4, TurnFrame
<1>3. CASE TurnClaims(t)
  <2>1. TurnsInv'
    BY <1>3, TurnClaimsDoes
  <2>2. ThreadInv'
    BY <1>3, RowHeldDoes DEF TurnClaims, ThreadInv
  <2>3. LocalInv' /\ BoundsInv' /\ UNCHANGED <<jobs, resets>>
    BY <1>3 DEF TurnClaims, local, bounds, LocalInv, BoundsInv
  <2>. QED BY <2>1, <2>2, <2>3, TurnFrame
<1>4. CASE TurnAsksAgain(t)
  <2>1. \/ Goes(t, "releasing") /\ Leaves(t, turn[t].proc) /\ UNCHANGED inFlight
        \/ Goes(t, "marking") /\ UNCHANGED <<queue, inFlight>>
    BY <1>4, Zenon DEF TurnAsksAgain
  <2>2. TurnsInv'
    BY <2>1, <1>b, TurnGoes
  <2>3. LocalInv'
    BY <2>1, <1>a, LocalKept
  <2>4. ThreadInv' /\ BoundsInv' /\ UNCHANGED <<jobs, resets>>
    BY <1>4 DEF TurnAsksAgain, thread, bounds, ThreadInv, BoundsInv
  <2>. QED BY <2>2, <2>3, <2>4, TurnFrame
<1>5. CASE TurnWritesDivider(t)
  <2>1. TurnsInv' /\ (channel' = channel \/ channel' = channel \cup {Divider})
    BY <1>5, TurnWritesDividerDoes
  <2>2. ThreadInv'
    BY <1>5, <2>1 DEF TurnWritesDivider, ThreadInv, Entries
  <2>3. LocalInv' /\ BoundsInv' /\ UNCHANGED <<jobs, resets>>
    BY <1>5 DEF TurnWritesDivider, local, bounds, LocalInv, BoundsInv
  <2>. QED BY <2>1, <2>2, <2>3, TurnFrame
<1>6. CASE TurnStampsRow(t)
  <2>1. TurnsInv'
    BY <1>6, <1>b, TurnGoes DEF TurnStampsRow
  <2>2. LocalInv'
    BY <1>6, <1>a, LocalKept DEF TurnStampsRow
  <2>3. ThreadInv'
    BY <1>6 DEF TurnStampsRow, ThreadInv, RowType, Stamps
  <2>4. BoundsInv' /\ UNCHANGED <<jobs, resets>>
    BY <1>6 DEF TurnStampsRow, bounds, BoundsInv
  <2>. QED BY <2>1, <2>2, <2>3, <2>4, TurnFrame
<1>7. CASE TurnLoads(t)
  <2>1. TurnsInv'
    BY <1>7, TurnLoadsDoes
  <2>2. ThreadInv' /\ LocalInv' /\ BoundsInv' /\ UNCHANGED <<jobs, resets>>
    BY <1>7 DEF TurnLoads, thread, local, bounds, ThreadInv, LocalInv, BoundsInv
  <2>. QED BY <2>1, <2>2, TurnFrame
<1>8. CASE TurnSaves(t)
  <2>1. TurnsInv'
    BY <1>8, <1>b, TurnGoes DEF TurnSaves
  <2>2. channel' \subseteq Entries
    BY <1>8 DEF TurnSaves, TurnsInv, TurnType, Entries
  <2>3. ThreadInv' /\ LocalInv' /\ BoundsInv' /\ UNCHANGED <<jobs, resets>>
    BY <1>8, <2>2 DEF TurnSaves, local, bounds, ThreadInv, LocalInv, BoundsInv
  <2>. QED BY <2>1, <2>3, TurnFrame
<1>9. CASE TurnThrows(t)
  <2>1. /\ Goes(t, "releasing") /\ UNCHANGED <<inFlight, thread, jobs, resets, bounds, occupancies>>
        /\ UNCHANGED queue \/ Leaves(t, turn[t].proc)
    BY <1>9 DEF TurnThrows
  <2>2. TurnsInv' /\ LocalInv'
    BY <2>1, <1>a, <1>b, TurnGoes, LocalKept
  <2>3. ThreadInv' /\ BoundsInv' /\ UNCHANGED <<jobs, resets>>
    BY <2>1 DEF thread, bounds, ThreadInv, BoundsInv
  <2>. QED BY <2>2, <2>3, TurnFrame
<1>10. CASE TurnUnmarks(t)
  <2>1. turn' = [turn EXCEPT ![t].pc = "decrementing", ![t].timer = FALSE]
    BY <1>10 DEF TurnUnmarks
  <2>2. TurnsInv'
    BY <2>1, <1>b, TimerStops
  <2>3. LocalInv'
    BY <1>10, <1>a, LocalKept DEF TurnUnmarks
  <2>4. ThreadInv' /\ BoundsInv' /\ UNCHANGED <<jobs, resets>>
    BY <1>10 DEF TurnUnmarks, thread, bounds, ThreadInv, BoundsInv
  <2>. QED BY <2>2, <2>3, <2>4, TurnFrame
<1>11. CASE TurnReleases(t)
  <2>1. TurnsInv'
    BY <1>11, TurnFinishes DEF TurnReleases
  <2>2. RowGivenBack \in RowType
    BY RowGivenBackDoes
  <2>3. ThreadInv'
    BY <1>11, <2>2 DEF TurnReleases, ThreadInv
  <2>4. LocalInv' /\ BoundsInv' /\ UNCHANGED <<jobs, resets>>
    BY <1>11 DEF TurnReleases, local, bounds, LocalInv, BoundsInv
  <2>. QED BY <2>1, <2>3, <2>4, TurnFrame
<1>12. CASE TurnClaimThrows(t)
  <2>1. TurnsInv' /\ LocalInv'
    BY <1>12, <1>a, TurnFinishes, LocalKept DEF TurnClaimThrows
  <2>2. faults' \in 0..MaxFaults
    BY <1>12, FaultKept DEF TurnClaimThrows
  <2>3. ThreadInv' /\ BoundsInv' /\ UNCHANGED <<jobs, resets>>
    BY <1>12, <2>2 DEF TurnClaimThrows, thread, ThreadInv, BoundsInv
  <2>. QED BY <2>1, <2>3, TurnFrame
<1>13. CASE TurnReleaseLost(t)
  <2>1. TurnsInv'
    BY <1>13, TurnFinishes DEF TurnReleaseLost
  <2>2. ThreadInv' /\ LocalInv' /\ BoundsInv' /\ UNCHANGED <<jobs, resets>>
    BY <1>13, FaultKept DEF TurnReleaseLost, thread, local, ThreadInv, LocalInv, BoundsInv
  <2>. QED BY <2>1, <2>2, TurnFrame
<1>14. CASE TurnRenews(t)
  <2>1. TurnsInv' /\ (threadRow' = [threadRow EXCEPT !.lease = TRUE] \/ UNCHANGED threadRow)
    BY <1>14, TurnRenewsDoes DEF TurnsInv
  <2>2. ThreadInv'
    BY <1>14, <2>1 DEF TurnRenews, ThreadInv, RowType
  <2>3. LocalInv' /\ BoundsInv' /\ UNCHANGED <<jobs, resets>>
    BY <1>14 DEF TurnRenews, local, bounds, LocalInv, BoundsInv
  <2>. QED BY <2>1, <2>2, <2>3, TurnFrame
<1>. QED
  BY <1>1, <1>2, <1>3, <1>4, <1>5, <1>6, <1>7, <1>8, <1>9, <1>10, <1>11, <1>12, <1>13, <1>14,
     Zenon DEF TurnStep

\* One append is replaced.
LEMMA AppendReplaced ==
    ASSUME AppendsInv, NEW a \in Appends, NEW new \in AppendType,
           append' = [append EXCEPT ![a] = new]
    PROVE  AppendsInv' /\ append'[a] = new /\ \A b \in Appends : b # a => append'[b] = append[b]
  BY DEF AppendsInv

\* What a step that only moves an append and sets its outcome leaves of it.
Same(a) == /\ append'[a].msg = append[a].msg /\ append'[a].prev = append[a].prev
           /\ append'[a].divider = append[a].divider
Others(a) == \A b \in Appends : b # a => append'[b] = append[b]

LEMMA AppendGoes ==
    ASSUME AppendsInv, NEW a \in Appends, NEW pc \in AppendPcs, NEW outcome \in {"done", "later"},
           \/ append' = [append EXCEPT ![a].pc = pc]
           \/ append' = [append EXCEPT ![a].pc = pc, ![a].outcome = outcome]
    PROVE  /\ AppendsInv' /\ append'[a].pc = pc /\ Same(a) /\ Others(a)
           /\ append'[a].created = append[a].created
<1>1. append[a] \in AppendType
  BY DEF AppendsInv
<1>2. ASSUME NEW new, \/ new = [append[a] EXCEPT !.pc = pc]
                      \/ new = [append[a] EXCEPT !.pc = pc, !.outcome = outcome]
      PROVE  /\ new \in AppendType /\ new.pc = pc /\ new.msg = append[a].msg
             /\ new.prev = append[a].prev /\ new.divider = append[a].divider
             /\ new.created = append[a].created
  BY <1>1, <1>2 DEF AppendType
<1>3. PICK new : /\ append' = [append EXCEPT ![a] = new]
                 /\ \/ new = [append[a] EXCEPT !.pc = pc]
                    \/ new = [append[a] EXCEPT !.pc = pc, !.outcome = outcome]
  OBVIOUS
<1>4. AppendsInv' /\ append'[a] = new /\ Others(a)
  BY <1>2, <1>3, AppendReplaced DEF Others
<1>. QED BY <1>2, <1>3, <1>4 DEF Same

LEMMA AppendStartsDoes ==
    ASSUME AppendsInv, NEW a \in Appends, NEW p \in Procs, NEW m \in Msgs, AppendStarts(a, p, m)
    PROVE  AppendsInv' /\ append'[a].pc = "queued" /\ append'[a].msg = m /\ Others(a)
<1>. DEFINE new == [append[a] EXCEPT !.pc = "queued", !.proc = p, !.msg = m, !.created = FALSE]
<1>1. new \in AppendType /\ new.pc = "queued" /\ new.msg = m
  BY DEF AppendsInv, AppendType, AppendPcs
<1>2. append' = [append EXCEPT ![a] = new]
  BY DEF AppendStarts
<1>. HIDE DEF new
<1>. QED BY <1>1, <1>2, AppendReplaced DEF Others

LEMMA AppendClaimsDoes ==
    ASSUME TypeInv, NEW a \in Appends, AppendClaims(a)
    PROVE  /\ AppendsInv' /\ append[a].pc = "claiming" /\ Same(a) /\ Others(a)
           /\ \/ /\ ~threadRow.exists \/ WriteFree
                 /\ threadRow' = [threadRow EXCEPT !.exists = TRUE, !.write = TRUE, !.token = a]
                 /\ append'[a].pc = "checking" /\ UNCHANGED queue
                 /\ append'[a].created = ~threadRow.exists
              \/ /\ append'[a].pc = "settling" /\ UNCHANGED threadRow
                 /\ Leaves(a, append[a].proc)
<1>1. append[a].pc = "claiming" /\ append[a] \in AppendType
  BY DEF AppendClaims, TypeInv, AppendsInv
<1>2. CASE inFlight[append[a].proc] = 0 /\ (~threadRow.exists \/ WriteFree)
  <2>. DEFINE created == ~threadRow.exists
              new == [append[a] EXCEPT !.pc = "checking", !.created = created]
  <2>1. append' = [append EXCEPT ![a] = new] /\ UNCHANGED queue
        /\ threadRow' = [threadRow EXCEPT !.exists = TRUE, !.write = TRUE, !.token = a]
    BY <1>2 DEF AppendClaims
  <2>2. created \in BOOLEAN
    OBVIOUS
  <2>. HIDE DEF created
  <2>3. /\ new \in AppendType /\ new.pc = "checking" /\ new.msg = append[a].msg
        /\ new.prev = append[a].prev /\ new.divider = append[a].divider /\ new.created = created
    BY <1>1, <2>2 DEF AppendType, AppendPcs
  <2>. HIDE DEF new
  <2>4. AppendsInv' /\ append'[a] = new /\ Others(a)
    BY <2>1, <2>3, AppendReplaced DEF Others, TypeInv
  <2>. QED BY <1>1, <1>2, <2>1, <2>3, <2>4 DEF Same, created
<1>3. CASE ~(inFlight[append[a].proc] = 0 /\ (~threadRow.exists \/ WriteFree))
  <2>1. Ends(a, "later") /\ UNCHANGED threadRow
    BY <1>3, Zenon DEF AppendClaims
  <2>2. "settling" \in AppendPcs
    BY DEF AppendPcs
  <2>. QED BY <1>1, <2>1, <2>2, AppendGoes DEF Ends, TypeInv
<1>. QED BY <1>2, <1>3

LEMMA AppendChecksDoes ==
    ASSUME TypeInv, NEW a \in Appends, AppendChecks(a)
    PROVE  /\ AppendsInv' /\ append[a].pc = "checking" /\ Others(a)
           /\ append'[a].msg = append[a].msg /\ append'[a].created = append[a].created
           /\ \/ append'[a].pc = "releasing"
              \/ /\ append'[a].pc = "writing" /\ append'[a].prev = threadRow.conv
                 /\ append[a].msg \in owed
                 /\ append'[a].divider => threadRow.conv = "old"
<1>1. append[a].pc = "checking" /\ append[a] \in AppendType /\ threadRow.conv \in Stamps
  BY DEF AppendChecks, TypeInv, AppendsInv, ThreadInv, RowType
<1>2. CASE append[a].msg \in threadRow.recorded \/ ~StillWanted(a)
  <2>1. append' = [append EXCEPT ![a].pc = "releasing", ![a].outcome = "done"]
    BY <1>2 DEF AppendChecks
  <2>2. "releasing" \in AppendPcs
    BY DEF AppendPcs
  <2>. QED BY <1>1, <2>1, <2>2, AppendGoes DEF TypeInv, Same
<1>3. CASE ~(append[a].msg \in threadRow.recorded \/ ~StillWanted(a))
  <2>. DEFINE reading == TurnOwns(append[a].proc)
              divider == WritesDivider(threadRow.conv, reading)
              advance == AdvancesMarker(threadRow.conv, reading)
              new == [append[a] EXCEPT !.pc = "writing", !.prev = threadRow.conv,
                                       !.divider = divider, !.advance = advance]
  <2>1. append' = [append EXCEPT ![a] = new]
    BY <1>3 DEF AppendChecks
  <2>2. divider \in BOOLEAN /\ advance \in BOOLEAN /\ (divider => threadRow.conv = "old")
    BY DEF WritesDivider, AdvancesMarker
  <2>3. append[a].msg \in owed
    BY <1>3 DEF StillWanted
  <2>. HIDE DEF divider, advance
  <2>4. /\ new \in AppendType /\ new.pc = "writing" /\ new.msg = append[a].msg
        /\ new.prev = threadRow.conv /\ new.divider = divider
        /\ new.created = append[a].created
    BY <1>1, <2>2 DEF AppendType, AppendPcs
  <2>. HIDE DEF new
  <2>5. AppendsInv' /\ append'[a] = new /\ Others(a)
    BY <2>1, <2>4, AppendReplaced DEF Others, TypeInv
  <2>. QED BY <1>1, <2>2, <2>3, <2>4, <2>5
<1>. QED BY <1>2, <1>3

LEMMA AppendRecordsDoes ==
    ASSUME TypeInv, NEW a \in Appends, AppendRecords(a)
    PROVE  /\ AppendsInv' /\ append[a].pc = "recording" /\ append'[a].pc = "releasing"
           /\ Same(a) /\ Others(a) /\ ThreadInv' /\ threadRow'.exists
           /\ append'[a].created = append[a].created
           /\ threadRow'.recorded = threadRow.recorded \cup {append[a].msg}
           /\ threadRow'.conv = "old" => append[a].prev = "old"
           /\ threadRow'.holders = threadRow.holders /\ threadRow'.lease = threadRow.lease
           /\ threadRow'.epoch = threadRow.epoch /\ threadRow'.occ = threadRow.occ
           /\ threadRow'.write = threadRow.write /\ threadRow'.token = threadRow.token
<1>1. /\ append[a].pc = "recording" /\ append[a] \in AppendType /\ append[a].msg \in Msgs
      /\ threadRow \in RowType
  BY DEF AppendRecords, TypeInv, AppendsInv, ThreadInv, MsgInv, JobsInv
<1>2. append' = [append EXCEPT ![a].pc = "releasing", ![a].outcome = "done"] /\ UNCHANGED channel
  BY DEF AppendRecords
<1>3. /\ AppendsInv' /\ append'[a].pc = "releasing" /\ Same(a) /\ Others(a)
      /\ append'[a].created = append[a].created
  <2>1. "releasing" \in AppendPcs
    BY DEF AppendPcs
  <2>. QED BY <1>2, <2>1, AppendGoes DEF TypeInv
<1>. DEFINE conv == IF ~threadRow.exists \/ append[a].advance THEN "new" ELSE append[a].prev
            recorded == threadRow.recorded \cup {append[a].msg}
<1>4. threadRow' = [threadRow EXCEPT !.exists = TRUE, !.marked = TRUE,
                                     !.recorded = recorded, !.conv = conv]
  BY DEF AppendRecords
<1>5. conv \in Stamps /\ recorded \subseteq Msgs /\ (conv = "old" => append[a].prev = "old")
  BY <1>1 DEF AppendType, RowType, Stamps
<1>. HIDE DEF conv, recorded
<1>6. /\ threadRow' \in RowType /\ threadRow'.exists
      /\ threadRow'.recorded = recorded /\ threadRow'.conv = conv
      /\ threadRow'.holders = threadRow.holders /\ threadRow'.lease = threadRow.lease
      /\ threadRow'.epoch = threadRow.epoch /\ threadRow'.occ = threadRow.occ
      /\ threadRow'.write = threadRow.write /\ threadRow'.token = threadRow.token
  BY <1>1, <1>4, <1>5 DEF RowType
<1>7. ThreadInv'
  BY <1>2, <1>6 DEF TypeInv, ThreadInv
<1>. QED BY <1>1, <1>3, <1>5, <1>6, <1>7 DEF recorded

LEMMA RowAfterReleaseDoes ==
    ASSUME ThreadInv, NEW a \in Appends, threadRow.exists, threadRow.token = a
    PROVE  /\ RowAfterRelease(a) \in RowType
           /\ \/ RowAfterRelease(a) = NoRow /\ threadRow.holders = 0
              \/ RowAfterRelease(a) = [threadRow EXCEPT !.write = FALSE, !.token = Nobody]
  BY NoRowType DEF RowAfterRelease, HoldsNothing, ThreadInv, RowType

\* Types are kept by a step of an append that leaves turns, resets and messages alone.
LEMMA AppendFrame ==
    ASSUME TypeInv, NEW a \in Appends, UNCHANGED <<resets, turn, owed, arrived, current>>,
           ThreadInv', AppendsInv', Others(a), LocalInv', BoundsInv',
           append[a].pc # "idle" /\ append'[a].msg = append[a].msg
    PROVE  TypeInv'
<1>1. TurnsInv' /\ ResetsInv' /\ JobsInv'
  BY DEF TypeInv, resets, TurnsInv, ResetsInv, JobsInv
<1>2. MsgInv'
  BY DEF TypeInv, MsgInv, Others
<1>. QED BY <1>1, <1>2 DEF TypeInv

LEMMA AppendTypes ==
    ASSUME TypeInv, NEW a \in Appends,
           \/ \E p \in Procs, m \in Msgs : AppendStarts(a, p, m)
           \/ AppendStep(a) \/ AppendThrows(a) \/ AppendReleaseLost(a) \/ AppendRenews(a)
    PROVE  TypeInv'
<1>. USE DEF TypeInv
<1>a. a \in Queued
  BY DEF Queued
<1>b. "settling" \in AppendPcs /\ "releasing" \in AppendPcs /\ "claiming" \in AppendPcs
      /\ "recording" \in AppendPcs
  BY DEF AppendPcs
<1>c. ASSUME NEW outcome \in {"done", "later"}, Ends(a, outcome)
      PROVE  /\ AppendsInv' /\ append'[a].msg = append[a].msg /\ Others(a)
             /\ Leaves(a, append[a].proc)
  BY <1>b, <1>c, AppendGoes DEF Ends, Same
<1>d. append[a].outcome \in {"done", "later"}
  BY DEF AppendsInv, AppendType
<1>1. ASSUME NEW p \in Procs, NEW m \in Msgs, AppendStarts(a, p, m) PROVE TypeInv'
  <2>1. AppendsInv' /\ append'[a].msg = m /\ Others(a)
    BY <1>1, AppendStartsDoes
  <2>2. m \in owed /\ UNCHANGED <<thread, resets, turn, owed, arrived, inFlight, slow, occupancies>>
    BY <1>1 DEF AppendStarts
  <2>3. JobsInv' /\ MsgInv'
    BY <1>1, <2>1, <2>2 DEF AppendStarts, JobsInv, MsgInv, Others
  <2>4. LocalInv'
    BY <1>1, <1>a, LocalKept DEF AppendStarts
  <2>5. faults' \in 0..MaxFaults
    BY <1>1, FaultKept DEF AppendStarts, BoundsInv
  <2>6. ThreadInv' /\ TurnsInv' /\ ResetsInv' /\ BoundsInv'
    BY <2>2, <2>5 DEF thread, resets, ThreadInv, TurnsInv, ResetsInv, BoundsInv
  <2>. QED BY <2>1, <2>3, <2>4, <2>6
<1>2. CASE AppendEnters(a)
  <2>1. \/ Ends(a, "done")
        \/ append' = [append EXCEPT ![a].pc = "claiming"] /\ UNCHANGED queue
    BY <1>2, Zenon DEF AppendEnters
  <2>2. /\ append[a].pc = "queued"
        /\ UNCHANGED <<thread, resets, bounds, turn, owed, arrived, current, inFlight, occupancies>>
    BY <1>2 DEF AppendEnters
  <2>3. /\ AppendsInv' /\ append'[a].msg = append[a].msg /\ Others(a)
        /\ Leaves(a, append[a].proc) \/ UNCHANGED queue
    BY <2>1, <1>b, <1>c, AppendGoes DEF Same
  <2>4. LocalInv'
    BY <1>a, <2>2, <2>3, LocalKept
  <2>5. ThreadInv' /\ BoundsInv'
    BY <2>2 DEF thread, bounds, ThreadInv, BoundsInv
  <2>. QED BY <2>2, <2>3, <2>4, <2>5, AppendFrame
<1>3. CASE AppendClaims(a)
  <2>1. /\ AppendsInv' /\ append[a].pc = "claiming" /\ append'[a].msg = append[a].msg /\ Others(a)
        /\ threadRow' = threadRow
           \/ threadRow' = [threadRow EXCEPT !.exists = TRUE, !.write = TRUE, !.token = a]
        /\ UNCHANGED queue \/ Leaves(a, append[a].proc)
    BY <1>3, AppendClaimsDoes DEF Same
  <2>2. UNCHANGED <<channel, resets, bounds, turn, owed, arrived, current, inFlight, occupancies>>
    BY <1>3 DEF AppendClaims
  <2>3. LocalInv'
    BY <1>a, <2>1, <2>2, LocalKept
  <2>4. ThreadInv' /\ BoundsInv'
    BY <2>1, <2>2 DEF bounds, ThreadInv, BoundsInv, RowType
  <2>. QED BY <2>1, <2>2, <2>3, <2>4, AppendFrame
<1>4. CASE AppendChecks(a)
  <2>1. AppendsInv' /\ append[a].pc = "checking" /\ append'[a].msg = append[a].msg /\ Others(a)
    BY <1>4, AppendChecksDoes
  <2>2. UNCHANGED <<thread, resets, local, bounds, turn, owed, arrived, current, occupancies>>
    BY <1>4 DEF AppendChecks
  <2>3. ThreadInv' /\ LocalInv' /\ BoundsInv'
    BY <2>2 DEF thread, local, bounds, ThreadInv, LocalInv, BoundsInv
  <2>. QED BY <2>1, <2>2, <2>3, AppendFrame
<1>5. CASE AppendWrites(a)
  <2>1. append[a].pc = "writing" /\ append' = [append EXCEPT ![a].pc = "recording"]
        /\ UNCHANGED <<threadRow, resets, local, bounds, turn, owed, arrived, current, occupancies>>
    BY <1>5 DEF AppendWrites
  <2>2. AppendsInv' /\ append'[a].msg = append[a].msg /\ Others(a)
    BY <2>1, <1>b, AppendGoes DEF Same
  <2>3. append[a].msg \in Msgs
    BY <2>1 DEF MsgInv, JobsInv
  <2>4. channel' \subseteq Entries
    BY <1>5, <2>3 DEF AppendWrites, ThreadInv, Entries
  <2>5. ThreadInv' /\ LocalInv' /\ BoundsInv'
    BY <2>1, <2>4 DEF local, bounds, ThreadInv, LocalInv, BoundsInv
  <2>. QED BY <2>1, <2>2, <2>5, AppendFrame
<1>6. CASE AppendRecords(a)
  <2>1. AppendsInv' /\ append[a].pc = "recording" /\ append'[a].msg = append[a].msg /\ Others(a)
        /\ ThreadInv'
    BY <1>6, AppendRecordsDoes DEF Same
  <2>2. UNCHANGED <<channel, resets, local, bounds, turn, owed, arrived, current, occupancies>>
    BY <1>6 DEF AppendRecords
  <2>3. LocalInv' /\ BoundsInv'
    BY <2>2 DEF local, bounds, LocalInv, BoundsInv
  <2>. QED BY <2>1, <2>2, <2>3, AppendFrame
<1>7. CASE AppendThrows(a)
  <2>1. append[a].pc # "idle" /\ Fault
        /\ append' = [append EXCEPT ![a].pc = "releasing", ![a].outcome = "later"]
        /\ UNCHANGED <<thread, resets, local, slow, turn, owed, arrived, current, occupancies>>
    BY <1>7 DEF AppendThrows
  <2>2. AppendsInv' /\ append'[a].msg = append[a].msg /\ Others(a)
    BY <2>1, <1>b, AppendGoes DEF Same
  <2>3. faults' \in 0..MaxFaults
    BY <2>1, FaultKept
  <2>4. ThreadInv' /\ LocalInv' /\ BoundsInv'
    BY <2>1, <2>3 DEF thread, local, ThreadInv, LocalInv, BoundsInv
  <2>. QED BY <2>1, <2>2, <2>4, AppendFrame
<1>8. CASE AppendReleases(a)
  <2>1. append[a].pc = "releasing" /\ Ends(a, append[a].outcome)
        /\ UNCHANGED <<channel, resets, bounds, turn, owed, arrived, current, inFlight, occupancies>>
        /\ threadRow' = RowAfterRelease(a)
    BY <1>8 DEF AppendReleases
  <2>2. AppendsInv' /\ append'[a].msg = append[a].msg /\ Others(a) /\ Leaves(a, append[a].proc)
    BY <2>1, <1>c, <1>d
  <2>3. LocalInv'
    BY <1>a, <2>1, <2>2, LocalKept
  <2>4. RowAfterRelease(a) \in RowType
    BY NoRowType DEF RowAfterRelease, ThreadInv, RowType
  <2>5. ThreadInv' /\ BoundsInv'
    BY <2>1, <2>4 DEF bounds, ThreadInv, BoundsInv
  <2>. QED BY <2>1, <2>2, <2>3, <2>5, AppendFrame
<1>9. CASE AppendReleaseLost(a)
  <2>1. append[a].pc = "releasing" /\ Ends(a, append[a].outcome) /\ Fault
        /\ UNCHANGED <<thread, resets, slow, turn, owed, arrived, current, inFlight, occupancies>>
    BY <1>9 DEF AppendReleaseLost
  <2>2. AppendsInv' /\ append'[a].msg = append[a].msg /\ Others(a) /\ Leaves(a, append[a].proc)
    BY <2>1, <1>c, <1>d
  <2>3. LocalInv' /\ faults' \in 0..MaxFaults
    BY <1>a, <2>1, <2>2, LocalKept, FaultKept
  <2>4. ThreadInv' /\ BoundsInv'
    BY <2>1, <2>3 DEF thread, ThreadInv, BoundsInv
  <2>. QED BY <2>1, <2>2, <2>3, <2>4, AppendFrame
<1>10. CASE AppendSettles(a)
  <2>1. /\ append' = [append EXCEPT ![a] = IdleAppend]
        /\ UNCHANGED <<thread, resets, local, bounds, turn, arrived, occupancies>>
        /\ owed' \subseteq owed
        /\ current' = current \/ current' = [current EXCEPT ![append[a].msg] = Nobody]
    BY <1>10 DEF AppendSettles
  <2>2. AppendsInv' /\ append'[a] = IdleAppend /\ Others(a)
    BY <2>1, IdleType, AppendReplaced DEF Others
  <2>3. JobsInv' /\ MsgInv'
    BY <2>1, <2>2, IdleType DEF JobsInv, MsgInv, Others
  <2>4. ThreadInv' /\ LocalInv' /\ BoundsInv' /\ TurnsInv' /\ ResetsInv'
    BY <2>1 DEF thread, local, bounds, resets, ThreadInv, LocalInv, BoundsInv, TurnsInv, ResetsInv
  <2>. QED BY <2>2, <2>3, <2>4
<1>11. CASE AppendRenews(a)
  <2>1. threadRow' = [threadRow EXCEPT !.write = TRUE]
        /\ UNCHANGED <<jobs, resets, local, bounds, turn, channel, occupancies>>
    BY <1>11 DEF AppendRenews
  <2>2. ThreadInv'
    BY <2>1 DEF ThreadInv, RowType
  <2>. QED BY <2>1, <2>2 DEF jobs, resets, local, bounds, AppendsInv, JobsInv, MsgInv, LocalInv, BoundsInv, TurnsInv, ResetsInv
<1>. QED
  BY <1>1, <1>2, <1>3, <1>4, <1>5, <1>6, <1>7, <1>8, <1>9, <1>10, <1>11, Zenon DEF AppendStep

\* A message arrives, or a /reset moves.
LEMMA OutsideTypes ==
    ASSUME TypeInv,
           \/ \E m \in Msgs : Arrives(m)
           \/ \E r \in Resets : \/ \E p \in Procs : ResetRetires(r, p)
                                \/ ResetErases(r) \/ ResetCommits(r) \/ ResetThrows(r)
    PROVE  TypeInv'
<1>. USE DEF TypeInv
<1>1. ASSUME NEW m \in Msgs, Arrives(m) PROVE TypeInv'
  BY <1>1 DEF Arrives, thread, resets, local, bounds, ThreadInv, TurnsInv, AppendsInv, ResetsInv,
              JobsInv, LocalInv, BoundsInv, MsgInv
<1>2. ASSUME NEW r \in Resets, ResetErases(r) PROVE TypeInv'
  <2>1. /\ UNCHANGED <<threadRow, bounds, jobs, turn, calledOff, cleared, inFlight, occupancies>>
        /\ \/ ResetEnds(r) /\ UNCHANGED <<channel, torn>>
           \/ /\ reset' = [reset EXCEPT ![r].pc = "commit", ![r].revoked = owed]
              /\ channel' = {} /\ torn' = torn \cup channel /\ UNCHANGED queue
    BY <1>2, Zenon DEF ResetErases
  <2>2. LocalInv'
    BY <2>1, LocalKept DEF ResetEnds, LocalInv, Queued
  <2>3. ResetsInv' /\ ThreadInv'
    BY <2>1 DEF ResetEnds, ResetsInv, ResetType, ResetPcs, ThreadInv, JobsInv
  <2>. QED BY <2>1, <2>2, <2>3 DEF bounds, jobs, TurnsInv, AppendsInv, JobsInv, MsgInv, BoundsInv
<1>4. ASSUME NEW r \in Resets, ResetCommits(r) PROVE TypeInv'
  <2>1. /\ ResetEnds(r) /\ threadRow' = NoRow /\ owed' = owed \ reset[r].revoked
        /\ current' = [m \in Msgs |-> IF m \in reset[r].revoked THEN Nobody ELSE current[m]]
        /\ cleared' = cleared \cup torn \cup reset[r].revoked \cup calledOff /\ torn' = {}
        /\ UNCHANGED <<channel, bounds, turn, append, arrived, calledOff, inFlight, occupancies>>
    BY <1>4, Zenon DEF ResetCommits
  <2>2. LocalInv'
    BY <2>1, LocalKept DEF ResetEnds, Queued
  <2>3. ThreadInv' /\ JobsInv' /\ MsgInv'
    BY <2>1, NoRowType DEF ThreadInv, JobsInv, MsgInv
  <2>4. reset[r].revoked \subseteq Msgs
    BY DEF ResetsInv, ResetType
  <2>5. cleared' \subseteq Entries
    BY <2>1, <2>4, ConstantsAssumption DEF ResetsInv, Entries
  <2>6. ResetsInv'
    BY <2>1, <2>5 DEF ResetEnds, ResetsInv, ResetType, ResetPcs
  <2>. QED BY <2>1, <2>2, <2>3, <2>6 DEF bounds, TurnsInv, AppendsInv, BoundsInv
<1>5. ASSUME NEW r \in Resets, ResetThrows(r) PROVE TypeInv'
  <2>1. /\ ResetEnds(r) /\ Fault
        /\ UNCHANGED <<thread, jobs, slow, turn, calledOff, cleared, torn, inFlight, occupancies>>
    BY <1>5 DEF ResetThrows
  <2>2. LocalInv'
    BY <2>1, LocalKept DEF ResetEnds, Queued
  <2>3. ResetsInv'
    BY <2>1 DEF ResetEnds, ResetsInv, ResetType, ResetPcs
  <2>4. BoundsInv'
    BY <2>1, FaultKept DEF BoundsInv
  <2>. QED BY <2>1, <2>2, <2>3, <2>4 DEF thread, jobs, ThreadInv, TurnsInv, AppendsInv, JobsInv, MsgInv
<1>3. ASSUME NEW r \in Resets, NEW p \in Procs, ResetRetires(r, p) PROVE TypeInv'
  <2>1. /\ calledOff' \subseteq FlushTurns /\ Waits(r, p)
        /\ reset' = [reset EXCEPT ![r].pc = "queued", ![r].proc = p]
        /\ UNCHANGED <<thread, jobs, bounds, turn, inFlight, occupancies, cleared, torn>>
    BY <1>3 DEF ResetRetires, ResetsInv
  <2>2. LocalInv'
    BY <2>1, LocalKept DEF Queued
  <2>3. ResetsInv'
    BY <2>1 DEF ResetsInv, ResetType, ResetPcs
  <2>4. ThreadInv' /\ TurnsInv' /\ AppendsInv' /\ JobsInv' /\ BoundsInv' /\ MsgInv'
    BY <2>1 DEF thread, jobs, bounds, ThreadInv, TurnsInv, AppendsInv, JobsInv, BoundsInv, MsgInv
  <2>. QED BY <2>2, <2>3, <2>4
<1>. QED BY <1>1, <1>2, <1>3, <1>4, <1>5, Zenon

LEMMA TimeTypes ==
    ASSUME TypeInv, LeaseExpires \/ WriteExpires \/ LeaseLapses \/ WriteLapses
    PROVE  TypeInv'
<1>. USE DEF TypeInv
<1>1. /\ \/ threadRow' = [threadRow EXCEPT !.lease = FALSE]
         \/ threadRow' = [threadRow EXCEPT !.write = FALSE]
      /\ UNCHANGED <<jobs, resets, local, turn, channel, occupancies, faults>>
      /\ slow' = slow \/ Stall
  BY DEF LeaseExpires, WriteExpires, LeaseLapses, WriteLapses, bounds
<1>2. ThreadInv'
  BY <1>1 DEF ThreadInv, RowType
<1>3. BoundsInv'
  BY <1>1, ConstantsAssumption DEF BoundsInv, Stall
<1>. QED BY <1>1, <1>2, <1>3 DEF jobs, resets, local, AppendsInv, JobsInv, MsgInv, LocalInv, TurnsInv, ResetsInv

LEMMA CrashDoes ==
    ASSUME TypeInv, NEW p \in Procs, Crash(p)
    PROVE  /\ TurnsInv' /\ AppendsInv'
           /\ \A t \in Turns : turn'[t] = turn[t] \/ (turn'[t].pc = "done" /\ turn[t].pc # "idle")
           /\ \A a \in Appends : append'[a] = append[a] \/ append'[a].pc = "idle"
  BY IdleType DEF TypeInv, TurnsInv, AppendsInv, Crash, Underway

LEMMA CrashTypes ==
    ASSUME TypeInv, NEW p \in Procs, Crash(p)
    PROVE  TypeInv'
<1>. USE DEF TypeInv
<1>1. TurnsInv' /\ AppendsInv'
  BY CrashDoes
<1>2. MsgInv'
  BY CrashDoes DEF MsgInv, Crash
<1>3. reset' \in [Resets -> ResetType]
  BY DEF Crash, ResetsInv, ResetType, ResetPcs
<1>4. current' \in [Msgs -> Appends \cup {Nobody}]
  BY DEF Crash, JobsInv
<1>5. inFlight' \in [Procs -> Nat] /\ queue' \in [Procs -> Seq(Queued)]
  <2>1. inFlight' = [inFlight EXCEPT ![p] = 0] /\ queue' = [queue EXCEPT ![p] = <<>>]
    BY DEF Crash
  <2>. QED BY <2>1 DEF LocalInv
<1>6. faults' \in 0..MaxFaults
  BY FaultKept DEF Crash
<1>7. UNCHANGED <<thread, owed, arrived, calledOff, cleared, torn, slow, occupancies>>
  BY DEF Crash
<1>. QED
  BY <1>1, <1>2, <1>3, <1>4, <1>5, <1>6, <1>7 DEF thread, ThreadInv, ResetsInv, JobsInv, LocalInv, BoundsInv

LEMMA NextTypes == TypeInv /\ [Next]_vars => TypeInv'
<1>. SUFFICES ASSUME TypeInv, [Next]_vars PROVE TypeInv'
  OBVIOUS
<1>1. CASE Next
  <2>1. ASSUME NEW t \in Turns,
               \/ \E p \in Procs : TurnStarts(t, p)
               \/ TurnStep(t) \/ TurnThrows(t) \/ TurnClaimThrows(t)
               \/ TurnReleaseLost(t) \/ TurnRenews(t)
        PROVE TypeInv'
    BY <2>1, TurnTypes, Zenon
  <2>2. ASSUME NEW a \in Appends,
               \/ \E p \in Procs, m \in Msgs : AppendStarts(a, p, m)
               \/ AppendStep(a) \/ AppendThrows(a) \/ AppendReleaseLost(a) \/ AppendRenews(a)
        PROVE TypeInv'
    BY <2>2, AppendTypes, Zenon
  <2>3. ASSUME NEW p \in Procs, Crash(p) PROVE TypeInv'
    BY <2>3, CrashTypes
  <2>. QED BY <1>1, <2>1, <2>2, <2>3, OutsideTypes, TimeTypes, Zenon DEF Next
<1>2. CASE UNCHANGED vars
  BY <1>2 DEF vars, thread, jobs, resets, local, bounds, TypeInv, ThreadInv, TurnsInv, AppendsInv,
              ResetsInv, JobsInv, LocalInv, BoundsInv, MsgInv
<1>. QED BY <1>1, <1>2

\* Every variable keeps its type, for any turns, appends and bounds (the AgentThread
\* row of thread-claim.ts, the Map of inflight.ts and the jobs of ingest-job.ts).
THEOREM TypeCorrect == Spec => []TypeOK
<1>1. Spec => []TypeInv
  BY InitType, NextTypes, PTL DEF Spec
<1>. QED BY <1>1, TypeInvIsTypeOK, PTL

----------------------------------------------------------------------------
(* The two claims and the contents, until a holder stalls.  Most steps only *)
(* take a turn or an append onward and leave the row and the channel calm.  *)

HoldOn(t) ==
    /\ Held(t)' => Held(t) /\ turn'[t].epoch = turn[t].epoch /\ turn'[t].occ = turn[t].occ
    /\ Holding(t)' => turn'[t].timer
ClearOn(t) ==
    /\ turn'[t].pc = "invoking" => \/ turn[t].pc = "invoking" /\ turn'[t].snap = turn[t].snap
                                   \/ turn'[t].snap = channel
    /\ turn[t].pc \in Saved => turn'[t].pc \in Saved
    /\ t \in cleared => Barred(t)'
    /\ t \in calledOff' => turn'[t].pc # "idle"
Onward(t) == HoldOn(t) /\ ClearOn(t)

AppendOnward(a) ==
    /\ Working(a)' => Working(a)
    /\ append'[a].pc = "writing" =>
          \/ append[a].pc = "writing" /\ Same(a)
          \/ /\ append'[a].msg \notin cleared /\ append'[a].prev = threadRow.conv
             /\ append'[a].divider => append'[a].prev = "old"
    /\ append'[a].pc = "recording" =>
          /\ append[a].pc \in {"writing", "recording"} /\ Same(a)
          /\ append[a].pc = "writing" => append[a].msg \in channel'

RowCalm ==
    /\ threadRow.exists => threadRow'.exists
    /\ threadRow.lease => threadRow'.lease
    /\ threadRow.write => threadRow'.write
    /\ threadRow'.epoch = threadRow.epoch /\ threadRow'.occ = threadRow.occ
    /\ threadRow'.holders = threadRow.holders /\ threadRow'.token = threadRow.token
    /\ threadRow'.recorded = threadRow.recorded
    /\ threadRow'.conv = "old" => threadRow.conv = "old"

\* The channel grows by what is not cleared, has come or has saved.
ChannelCalm ==
    /\ channel \subseteq channel'
    /\ \A e \in channel' : \/ e \in channel
                            \/ /\ e \notin cleared
                               /\ e \in Msgs => e \in arrived
                               /\ e \in Turns => turn[e].pc \in Saved

JobsCalm ==
    /\ UNCHANGED <<cleared, torn>>
    /\ \A m \in Msgs : m \in arrived => m \in arrived' /\ (m \in owed' => m \in owed)

LEMMA HoldersKept ==
    ASSUME TypeInv, TypeInv', HoldersInv,
           \A t \in Turns : Held(t)' => Held(t) /\ turn'[t].epoch = turn[t].epoch
                                       /\ turn'[t].occ = turn[t].occ,
           \A t \in Turns : Holding(t)' => turn'[t].timer,
           threadRow.exists => threadRow'.exists, threadRow.lease => threadRow'.lease,
           threadRow'.epoch = threadRow.epoch, threadRow'.occ = threadRow.occ,
           threadRow'.holders = threadRow.holders
    PROVE  HoldersInv'
<1>1. HeldTurns' \in SUBSET HeldTurns
  BY DEF HeldTurns
<1>2. IsFiniteSet(HeldTurns') /\ Cardinality(HeldTurns') <= Cardinality(HeldTurns)
  BY <1>1, FS_Subset DEF HoldersInv
<1>3. Cardinality(HeldTurns') \in Nat /\ Cardinality(HeldTurns) \in Nat
  BY <1>2, FS_CardinalityType DEF HoldersInv
<1>4. threadRow.holders \in Nat
  BY DEF TypeInv, ThreadInv, RowType
<1>5. Cardinality(HeldTurns') <= threadRow'.holders
  BY <1>2, <1>3, <1>4 DEF HoldersInv
<1>6. ASSUME NEW t \in Turns, Held(t)'
      PROVE  /\ threadRow'.exists /\ threadRow'.lease
             /\ threadRow'.epoch = turn'[t].epoch /\ threadRow'.occ = turn'[t].occ
             /\ Holding(t)' => turn'[t].timer
  BY <1>6 DEF HoldersInv
<1>. QED BY <1>2, <1>5, <1>6 DEF HoldersInv

\* A turn that holds the thread is one of the row's holders.
LEMMA HeldRenews ==
    ASSUME TypeInv, HoldersInv, NEW t \in Turns, Held(t)
    PROVE  /\ threadRow.lease /\ threadRow.holders > 0 /\ Renews(t)
           /\ turn[t].timer \/ turn[t].pc = "decrementing"
<1>1. /\ threadRow.exists /\ threadRow.lease /\ threadRow.epoch = turn[t].epoch
      /\ t \in HeldTurns
      /\ turn[t].timer \/ turn[t].pc = "decrementing"
  BY DEF HoldersInv, HeldTurns, Held
<1>2. IsFiniteSet(HeldTurns) /\ Cardinality(HeldTurns) <= threadRow.holders
  BY DEF HoldersInv
<1>3. Cardinality(HeldTurns) \in Nat /\ Cardinality(HeldTurns) # 0
  BY <1>1, <1>2, FS_EmptySet, FS_CardinalityType
<1>4. threadRow.holders \in Nat
  BY DEF TypeInv, ThreadInv, RowType
<1>. QED BY <1>1, <1>2, <1>3, <1>4 DEF Renews

\* With nobody holding it, a row need only count.
LEMMA NobodyHolds ==
    ASSUME TypeInv', \A t \in Turns : ~Held(t)'
    PROVE  HoldersInv'
<1>1. HeldTurns' = {}
  BY DEF HeldTurns
<1>2. IsFiniteSet(HeldTurns') /\ Cardinality(HeldTurns') = 0
  BY <1>1, FS_EmptySet
<1>3. threadRow'.holders \in Nat
  BY DEF TypeInv, ThreadInv, RowType
<1>. QED BY <1>2, <1>3 DEF HoldersInv

LEMMA WriterKept ==
    ASSUME WriterInv,
           \A t \in Turns : Held(t)' => Held(t),
           \A a \in Appends : Working(a)' => Working(a),
           threadRow.exists => threadRow'.exists, threadRow.write => threadRow'.write,
           threadRow'.token = threadRow.token
    PROVE  WriterInv'
  BY DEF WriterInv

LEMMA ContentKept ==
    ASSUME ContentInv,
           \A t \in Turns : turn'[t].pc = "invoking" =>
               \/ turn[t].pc = "invoking" /\ turn'[t].snap = turn[t].snap
               \/ turn'[t].snap = channel,
           \A a \in Appends : append'[a].pc = "recording" =>
               \/ append[a].pc = "recording" /\ append'[a].msg = append[a].msg
               \/ append'[a].msg \in channel',
           threadRow'.recorded = threadRow.recorded, channel \subseteq channel', torn' = torn
    PROVE  ContentInv'
<1>1. RememberedIsInThread'
  BY DEF ContentInv, RememberedIsInThread
<1>2. ASSUME NEW t \in Turns, turn'[t].pc = "invoking"
      PROVE  threadRow'.recorded \subseteq turn'[t].snap \cup torn'
  BY <1>2 DEF ContentInv, RememberedIsInThread
<1>3. ASSUME NEW a \in Appends, append'[a].pc = "recording" PROVE append'[a].msg \in channel'
  BY <1>3 DEF ContentInv
<1>. QED BY <1>1, <1>2, <1>3 DEF ContentInv

LEMMA ClearKept ==
    ASSUME TypeInv, TypeInv', ClearInv, JobsCalm, \A t \in Turns : ClearOn(t),
           \A e \in channel' : \/ e \in channel
                               \/ /\ e \notin cleared
                                  /\ e \in Msgs => e \in arrived
                                  /\ e \in Turns => turn[e].pc \in Saved,
           \A a \in Appends : append'[a].pc = "writing" =>
               \/ append[a].pc = "writing" /\ Same(a)
               \/ /\ append'[a].msg \notin cleared /\ append'[a].prev = threadRow.conv
                  /\ append'[a].divider => append'[a].prev = "old",
           \A a \in Appends : append'[a].pc = "recording" =>
               append[a].pc \in {"writing", "recording"} /\ Same(a),
           Divider \in cleared => threadRow'.conv # "old"
    PROVE  ClearInv'
<1>a. cleared' = cleared /\ torn' = torn
  BY DEF JobsCalm
<1>1. ClearedStaysCleared'
  BY <1>a DEF ClearInv, ClearedStaysCleared
<1>2. ASSUME NEW S, Written(S) PROVE Written(S)'
  BY <1>2 DEF Written, JobsCalm, ClearOn
<1>3. Written(channel)' /\ Written(torn)'
  BY <1>a DEF ClearInv, Written, JobsCalm, ClearOn
<1>4. NoneBack'
  <2>1. ASSUME NEW m \in cleared' \cap Msgs PROVE m \in arrived' /\ m \notin owed'
    BY <2>1, <1>a DEF ClearInv, NoneBack, JobsCalm
  <2>2. ASSUME NEW t \in cleared' \cap Turns PROVE Barred(t)'
    BY <2>2, <1>a DEF ClearOn
  <2>3. ASSUME NEW t \in calledOff' PROVE turn'[t].pc # "idle"
    BY <2>3, ConstantsAssumption DEF ClearOn, TypeInv, ResetsInv
  <2>. QED BY <2>1, <2>2, <2>3 DEF NoneBack
<1>5. InvokesClear'
  <2>. SUFFICES ASSUME NEW t \in Turns, turn'[t].pc = "invoking"
                PROVE  Written(turn[t].snap)' /\ turn'[t].snap \cap cleared = {}
    BY <1>a DEF InvokesClear, Written
  <2>1. CASE turn[t].pc = "invoking" /\ turn'[t].snap = turn[t].snap
    BY <2>1, <1>2 DEF ClearInv, InvokesClear, Written, JobsCalm, ClearOn
  <2>2. CASE turn'[t].snap = channel
    BY <2>2 DEF ClearInv, ClearedStaysCleared, Written, JobsCalm, ClearOn
  <2>. QED BY <2>1, <2>2 DEF ClearOn
<1>6. WritesClear'
  <2>1. ASSUME NEW a \in Appends, append'[a].pc = "writing"
        PROVE  /\ append'[a].msg \notin cleared'
               /\ append'[a].divider => append'[a].prev = "old"
    BY <2>1, <1>a DEF ClearInv, WritesClear, Same
  <2>2. ASSUME Divider \in cleared', NEW a \in Appends, append'[a].pc \in {"writing", "recording"}
        PROVE  append'[a].prev # "old"
    BY <2>2, <1>a DEF ClearInv, WritesClear, Same
  <2>. QED BY <2>1, <2>2, <1>a DEF WritesClear
<1>. QED BY <1>1, <1>3, <1>4, <1>5, <1>6 DEF ClearInv

LEMMA CalmKeeps ==
    ASSUME TypeInv, TypeInv', Excl, RowCalm, ChannelCalm, JobsCalm,
           \A t \in Turns : Onward(t), \A a \in Appends : AppendOnward(a)
    PROVE  Excl'
<1>1. HoldersInv'
  BY HoldersKept DEF Excl, Onward, HoldOn, RowCalm
<1>2. WriterInv'
  BY WriterKept DEF Excl, Onward, HoldOn, AppendOnward, RowCalm
<1>3. ContentInv'
  BY ContentKept DEF Excl, Onward, ClearOn, AppendOnward, RowCalm, ChannelCalm, JobsCalm, Same
<1>4. ClearInv'
  <2>1. Divider \in cleared => threadRow'.conv # "old"
    BY DEF Excl, ClearInv, WritesClear, RowCalm
  <2>. QED BY <2>1, ClearKept DEF Excl, ChannelCalm, Onward, AppendOnward
<1>. QED BY <1>1, <1>2, <1>3, <1>4 DEF Excl

LEMMA TurnUnmoved ==
    ASSUME Excl, NEW t \in Turns, turn'[t] = turn[t], calledOff \subseteq calledOff',
           t \in calledOff' => t \in calledOff \/ turn[t].pc # "idle"
    PROVE  Onward(t)
<1>1. t \in cleared => Barred(t)'
  BY DEF Excl, ClearInv, NoneBack, Barred
<1>2. t \in calledOff' => turn'[t].pc # "idle"
  BY DEF Excl, ClearInv, NoneBack
<1>3. Held(t)' = Held(t) /\ Holding(t)' = Holding(t)
  BY DEF Held, Holding
<1>4. Holding(t)' => turn'[t].timer
  BY <1>3 DEF Excl, HoldersInv, Held
<1>. QED BY <1>1, <1>2, <1>3, <1>4 DEF Onward, HoldOn, ClearOn

LEMMA AppendUnmoved ==
    ASSUME NEW a \in Appends, append'[a] = append[a], channel \subseteq channel', ContentInv
    PROVE  AppendOnward(a)
  BY DEF AppendOnward, Working, Same, ContentInv

LEMMA RowUnmoved == UNCHANGED threadRow => RowCalm
  BY DEF RowCalm

LEMMA ChannelUnmoved == UNCHANGED channel => ChannelCalm
  BY DEF ChannelCalm

\* A turn goes onward and nothing else moves but, calmly, the row and the channel.
LEMMA TurnCalm ==
    ASSUME TypeInv, TypeInv', Excl, NEW t \in Turns, \A u \in Turns : u # t => turn'[u] = turn[u],
           Onward(t), RowCalm, ChannelCalm, UNCHANGED <<jobs, resets>>
    PROVE  Excl'
<1>1. UNCHANGED <<append, owed, arrived, calledOff, cleared, torn>>
  BY DEF jobs, resets
<1>2. \A u \in Turns : Onward(u)
  BY <1>1, TurnUnmoved
<1>3. \A a \in Appends : AppendOnward(a)
  BY <1>1, AppendUnmoved DEF ChannelCalm, Excl
<1>4. JobsCalm
  BY <1>1 DEF JobsCalm
<1>. QED BY <1>2, <1>3, <1>4, CalmKeeps

\* The steps of a turn that take it onward.
LEMMA TurnStepsOnward ==
    ASSUME TypeInv, TypeInv', Excl, NEW t \in Turns,
           \/ \E p \in Procs : TurnStarts(t, p)
           \/ TurnEnters(t) \/ TurnAsksAgain(t) \/ TurnWritesDivider(t) \/ TurnStampsRow(t)
           \/ TurnLoads(t) \/ TurnThrows(t) \/ TurnUnmarks(t) \/ TurnClaimThrows(t)
           \/ TurnReleaseLost(t) \/ TurnRenews(t)
    PROVE  Excl'
<1>. DEFINE Alone == \A u \in Turns : u # t => turn'[u] = turn[u]
<1>a. TurnsInv /\ ThreadInv
  BY DEF TypeInv
<1>b. /\ t \in cleared => Barred(t)
      /\ t \in calledOff => turn[t].pc # "idle"
      /\ Holding(t) => turn[t].timer
  BY DEF Excl, ClearInv, NoneBack, HoldersInv, Held
<1>1. ASSUME NEW p \in Procs, TurnStarts(t, p) PROVE Excl'
  <2>1. turn[t].pc = "idle" /\ turn'[t].pc = "queued" /\ Alone
    BY <1>1, <1>a, TurnStartsDoes DEF TurnStarts
  <2>2. UNCHANGED <<thread, jobs, resets>>
    BY <1>1 DEF TurnStarts
  <2>3. Onward(t)
    BY <2>1, <1>b DEF Onward, HoldOn, ClearOn, Held, Holding, Saved, Barred
  <2>. QED BY <2>1, <2>2, <2>3, TurnCalm, RowUnmoved, ChannelUnmoved DEF thread
<1>2. CASE TurnEnters(t)
  <2>1. /\ turn[t].pc = "queued" /\ Alone
        /\ IF t \in calledOff THEN turn'[t].pc = "done" ELSE turn'[t].pc = "claiming"
    BY <1>2, <1>a, TurnEntersDoes
  <2>2. UNCHANGED <<thread, jobs, resets>>
    BY <1>2 DEF TurnEnters
  <2>3. Onward(t)
    BY <2>1, <1>b DEF Onward, HoldOn, ClearOn, Held, Holding, Saved, Barred
  <2>. QED BY <2>1, <2>2, <2>3, TurnCalm, RowUnmoved, ChannelUnmoved DEF thread
<1>3. CASE TurnAsksAgain(t)
  <2>1. /\ turn[t].pc = "claimed" /\ UNCHANGED <<thread, jobs, resets>>
        /\ IF t \in calledOff THEN Goes(t, "releasing") ELSE Goes(t, "marking")
    BY <1>3, Zenon DEF TurnAsksAgain
  <2>2. "releasing" \in TurnPcs /\ "marking" \in TurnPcs
    BY DEF TurnPcs
  <2>3. /\ IF t \in calledOff THEN turn'[t].pc = "releasing" ELSE turn'[t].pc = "marking"
        /\ turn'[t].epoch = turn[t].epoch /\ turn'[t].occ = turn[t].occ
        /\ turn'[t].timer = turn[t].timer /\ Alone
    BY <2>1, <2>2, <1>a, TurnGoes
  <2>4. Onward(t)
    BY <2>1, <2>3, <1>b DEF Onward, HoldOn, ClearOn, Held, Holding, Saved, Barred, resets
  <2>. QED BY <2>1, <2>3, <2>4, TurnCalm, RowUnmoved, ChannelUnmoved DEF thread
<1>4. CASE TurnWritesDivider(t)
  <2>1. /\ turn[t].pc = "marking" /\ turn'[t].pc = "stamping" /\ Alone
        /\ turn'[t].timer = turn[t].timer
        /\ turn'[t].epoch = turn[t].epoch /\ turn'[t].occ = turn[t].occ
        /\ \/ channel' = channel
           \/ channel' = channel \cup {Divider} /\ threadRow.conv = "old"
    BY <1>4, <1>a, TurnWritesDividerDoes
  <2>2. UNCHANGED <<threadRow, jobs, resets>>
    BY <1>4 DEF TurnWritesDivider
  <2>3. Onward(t)
    BY <2>1, <1>b DEF Onward, HoldOn, ClearOn, Held, Holding, Saved, Barred
  <2>4. ChannelCalm
    BY <2>1, ConstantsAssumption DEF ChannelCalm, Excl, ClearInv, WritesClear
  <2>. QED BY <2>1, <2>2, <2>3, <2>4, TurnCalm, RowUnmoved
<1>5. CASE TurnStampsRow(t)
  <2>1. turn[t].pc = "stamping" /\ Goes(t, "loading") /\ UNCHANGED <<channel, jobs, resets>>
    BY <1>5 DEF TurnStampsRow
  <2>2. "loading" \in TurnPcs
    BY DEF TurnPcs
  <2>3. /\ turn'[t].pc = "loading" /\ turn'[t].timer = turn[t].timer
        /\ turn'[t].epoch = turn[t].epoch /\ turn'[t].occ = turn[t].occ /\ Alone
    BY <2>1, <2>2, <1>a, TurnGoes
  <2>4. Onward(t)
    BY <2>1, <2>3, <1>b DEF Onward, HoldOn, ClearOn, Held, Holding, Saved, Barred
  <2>5. RowCalm
    BY <1>5, <1>a DEF TurnStampsRow, RowCalm, ThreadInv, RowType
  <2>. QED BY <2>1, <2>3, <2>4, <2>5, TurnCalm, ChannelUnmoved
<1>6. CASE TurnLoads(t)
  <2>1. /\ turn[t].pc = "loading" /\ turn'[t].pc = "invoking" /\ turn'[t].snap = channel
        /\ turn'[t].timer = turn[t].timer
        /\ turn'[t].epoch = turn[t].epoch /\ turn'[t].occ = turn[t].occ /\ Alone
    BY <1>6, <1>a, TurnLoadsDoes
  <2>2. UNCHANGED <<thread, jobs, resets>>
    BY <1>6 DEF TurnLoads
  <2>3. Onward(t)
    BY <2>1, <1>b DEF Onward, HoldOn, ClearOn, Held, Holding, Saved, Barred
  <2>. QED BY <2>1, <2>2, <2>3, TurnCalm, RowUnmoved, ChannelUnmoved DEF thread
<1>7. CASE TurnThrows(t)
  <2>1. /\ turn[t].pc \in {"claimed", "marking", "stamping", "loading", "invoking"}
        /\ Goes(t, "releasing") /\ UNCHANGED <<thread, jobs, resets>>
    BY <1>7 DEF TurnThrows
  <2>2. "releasing" \in TurnPcs
    BY DEF TurnPcs
  <2>3. /\ turn'[t].pc = "releasing" /\ turn'[t].timer = turn[t].timer
        /\ turn'[t].epoch = turn[t].epoch /\ turn'[t].occ = turn[t].occ /\ Alone
    BY <2>1, <2>2, <1>a, TurnGoes
  <2>4. Onward(t)
    BY <2>1, <2>3, <1>b DEF Onward, HoldOn, ClearOn, Held, Holding, Saved, Barred
  <2>. QED BY <2>1, <2>3, <2>4, TurnCalm, RowUnmoved, ChannelUnmoved DEF thread
<1>8. CASE TurnUnmarks(t)
  <2>1. /\ turn[t].pc = "releasing" /\ UNCHANGED <<thread, jobs, resets>>
        /\ turn' = [turn EXCEPT ![t].pc = "decrementing", ![t].timer = FALSE]
    BY <1>8 DEF TurnUnmarks
  <2>2. "decrementing" \in TurnPcs
    BY DEF TurnPcs
  <2>3. /\ turn'[t].pc = "decrementing" /\ turn'[t].epoch = turn[t].epoch
        /\ turn'[t].occ = turn[t].occ /\ Alone
    BY <2>1, <2>2, <1>a, TimerStops
  <2>4. Onward(t)
    BY <2>1, <2>3, <1>b DEF Onward, HoldOn, ClearOn, Held, Holding, Saved, Barred
  <2>. QED BY <2>1, <2>3, <2>4, TurnCalm, RowUnmoved, ChannelUnmoved DEF thread
<1>9. ASSUME turn[t].pc \in {"claiming", "decrementing"}, Finishes(t),
             UNCHANGED <<thread, jobs, resets>>
      PROVE  Excl'
  <2>1. turn'[t].pc = "done" /\ Alone
    BY <1>9, <1>a, TurnFinishes
  <2>2. Onward(t)
    BY <2>1, <1>9 DEF Onward, HoldOn, ClearOn, Held, Holding, Saved, Barred
  <2>. QED BY <2>1, <2>2, <1>9, TurnCalm, RowUnmoved, ChannelUnmoved DEF thread
<1>10. CASE TurnClaimThrows(t)
  BY <1>9, <1>10 DEF TurnClaimThrows
<1>11. CASE TurnReleaseLost(t)
  BY <1>9, <1>11 DEF TurnReleaseLost
<1>12. CASE TurnRenews(t)
  <2>1. UNCHANGED <<channel, jobs, resets>>
    BY <1>12 DEF TurnRenews
  <2>2. CASE UNCHANGED turn /\ threadRow' = [threadRow EXCEPT !.lease = TRUE]
    <3>1. Onward(t)
      BY <2>1, <2>2, TurnUnmoved DEF resets
    <3>2. RowCalm
      BY <2>2, <1>a DEF RowCalm, ThreadInv, RowType
    <3>. QED BY <2>1, <2>2, <3>1, <3>2, TurnCalm, ChannelUnmoved
  <2>3. CASE ~Renews(t) /\ turn'[t].pc = turn[t].pc /\ turn'[t].snap = turn[t].snap
             /\ turn'[t].epoch = turn[t].epoch /\ turn'[t].occ = turn[t].occ
             /\ Alone /\ UNCHANGED threadRow
    <3>1. ~Held(t)
      BY <2>3, HeldRenews DEF Excl
    <3>2. Onward(t)
      BY <2>1, <2>3, <3>1, <1>b DEF Onward, HoldOn, ClearOn, Held, Holding, Barred, resets
    <3>. QED BY <2>1, <2>3, <3>2, TurnCalm, RowUnmoved, ChannelUnmoved
  <2>. QED BY <1>12, <2>2, <2>3, <1>a, TurnRenewsDoes
<1>. QED
  BY <1>1, <1>2, <1>3, <1>4, <1>5, <1>6, <1>7, <1>8, <1>10, <1>11, <1>12, Zenon

\* A turn takes the thread: a hold is added to those of a live occupancy, or a new one
\* begins with none of the old one left.
LEMMA TurnClaimsHolds ==
    ASSUME TypeInv, TypeInv', HoldersInv, NEW t \in Turns, TurnClaims(t)
    PROVE  HoldersInv'
<1>1. /\ turn[t].pc = "claiming" /\ turn'[t].pc = "claimed" /\ turn'[t].timer
      /\ turn'[t].epoch = threadRow'.epoch /\ turn'[t].occ = threadRow'.occ
      /\ \A u \in Turns : u # t => turn'[u] = turn[u]
  BY TurnClaimsDoes DEF TypeInv
<1>2. ~threadRow.write /\ threadRow' = RowHeld
  BY DEF TurnClaims
<1>3. /\ threadRow'.exists /\ threadRow'.lease
      /\ Fresh => threadRow'.holders = 1
      /\ ~Fresh => /\ threadRow'.holders = threadRow.holders + 1
                   /\ threadRow'.epoch = threadRow.epoch /\ threadRow'.occ = threadRow.occ
      /\ threadRow'.recorded = threadRow.recorded /\ threadRow'.conv = threadRow.conv
  BY <1>2, RowHeldDoes DEF TypeInv
<1>4. ~Held(t) /\ Held(t)' /\ \A u \in Turns : u # t => Held(u)' = Held(u) /\ Holding(u)' = Holding(u)
  BY <1>1 DEF Held, Holding
<1>5. ASSUME NEW u \in Turns, Held(u)'
      PROVE  /\ threadRow'.exists /\ threadRow'.lease
             /\ threadRow'.epoch = turn'[u].epoch /\ threadRow'.occ = turn'[u].occ
             /\ Holding(u)' => turn'[u].timer
  <2>1. CASE u = t
    BY <1>1, <1>3, <2>1
  <2>2. CASE u # t
    <3>1. /\ Held(u) /\ threadRow.exists /\ threadRow.lease
          /\ threadRow.epoch = turn[u].epoch /\ threadRow.occ = turn[u].occ
          /\ Holding(u) => turn[u].timer
      BY <1>5, <2>2, <1>4 DEF HoldersInv
    <3>2. ~Fresh
      BY <3>1 DEF Fresh
    <3>. QED BY <1>1, <1>3, <1>4, <2>2, <3>1, <3>2
  <2>. QED BY <2>1, <2>2
<1>6. HeldTurns' = HeldTurns \cup {t} /\ t \notin HeldTurns
  BY <1>4 DEF HeldTurns
<1>7. IsFiniteSet(HeldTurns) /\ Cardinality(HeldTurns) <= threadRow.holders
  BY DEF HoldersInv
<1>8. IsFiniteSet(HeldTurns') /\ Cardinality(HeldTurns') = Cardinality(HeldTurns) + 1
  BY <1>6, <1>7, FS_AddElement
<1>9. Cardinality(HeldTurns) \in Nat /\ threadRow.holders \in Nat
  BY <1>7, FS_CardinalityType DEF TypeInv, ThreadInv, RowType
<1>10. Fresh => Cardinality(HeldTurns) = 0
  <2>1. Fresh => HeldTurns = {}
    BY DEF Fresh, HeldTurns, HoldersInv
  <2>. QED BY <2>1, FS_EmptySet
<1>11. Cardinality(HeldTurns') <= threadRow'.holders
  BY <1>3, <1>7, <1>8, <1>9, <1>10
<1>. QED BY <1>5, <1>8, <1>11 DEF HoldersInv

\* The thread a turn takes was not being written.
LEMMA TurnClaimsKeeps ==
    ASSUME TypeInv, TypeInv', Excl, NEW t \in Turns, TurnClaims(t)
    PROVE  Excl'
<1>1. /\ turn[t].pc = "claiming" /\ turn'[t].pc = "claimed" /\ turn'[t].timer
      /\ turn'[t].epoch = threadRow'.epoch /\ turn'[t].occ = threadRow'.occ
      /\ \A u \in Turns : u # t => turn'[u] = turn[u]
  BY TurnClaimsDoes DEF TypeInv
<1>2. ~threadRow.write /\ threadRow' = RowHeld /\ UNCHANGED <<jobs, resets, channel>>
  BY DEF TurnClaims
<1>3. threadRow'.recorded = threadRow.recorded /\ threadRow'.conv = threadRow.conv
  BY <1>2, RowHeldDoes DEF TypeInv
<1>5. HoldersInv'
  BY TurnClaimsHolds DEF Excl
<1>6. WriterInv'
  BY <1>2 DEF Excl, WriterInv, Working, jobs
<1>7. ContentInv'
  BY <1>1, <1>2, <1>3, ContentKept DEF Excl, jobs, resets
<1>8. ClearInv'
  <2>1. \A u \in Turns : ClearOn(u)
    BY <1>1, <1>2, TurnUnmoved DEF ClearOn, Onward, Saved, Barred, Excl, ClearInv, NoneBack, resets
  <2>2. JobsCalm /\ UNCHANGED append
    BY <1>2 DEF JobsCalm, jobs, resets
  <2>3. Divider \in cleared => threadRow'.conv # "old"
    BY <1>3 DEF Excl, ClearInv, WritesClear
  <2>. QED BY <1>2, <2>1, <2>2, <2>3, ClearKept DEF Excl, Same
<1>. QED BY <1>5, <1>6, <1>7, <1>8 DEF Excl

\* A save puts back what the invoke read: all that was remembered, nothing cleared.
LEMMA TurnSavesKeeps ==
    ASSUME TypeInv, TypeInv', Excl, NEW t \in Turns, TurnSaves(t)
    PROVE  Excl'
<1>1. /\ turn[t].pc = "invoking" /\ channel' = turn[t].snap \cup {t}
      /\ UNCHANGED <<jobs, resets, threadRow>>
      /\ \E pc \in {"invoking", "releasing"} : Goes(t, pc)
  BY DEF TurnSaves
<1>2. "invoking" \in TurnPcs /\ "releasing" \in TurnPcs
  BY DEF TurnPcs
<1>3. /\ turn'[t].pc \in {"invoking", "releasing"} /\ turn'[t].timer = turn[t].timer
      /\ turn'[t].epoch = turn[t].epoch /\ turn'[t].occ = turn[t].occ
      /\ turn'[t].snap = turn[t].snap /\ \A u \in Turns : u # t => turn'[u] = turn[u]
  BY <1>1, <1>2, TurnGoes DEF TypeInv
<1>4. Held(t) /\ Holding(t) /\ turn[t].timer
  BY <1>1 DEF Held, Holding, Excl, HoldersInv
<1>5. t \notin cleared /\ t \notin Msgs /\ (t \in calledOff => turn[t].pc # "idle")
  BY <1>1, ConstantsAssumption DEF Excl, ClearInv, NoneBack, Barred
<1>6. \A u \in Turns : Onward(u)
  <2>1. Onward(t)
    BY <1>1, <1>3, <1>4, <1>5 DEF Onward, HoldOn, ClearOn, Held, Holding, Saved, resets
  <2>. QED BY <1>1, <1>3, <2>1, TurnUnmoved DEF resets
<1>7. HoldersInv' /\ WriterInv'
  BY <1>1, <1>6, HoldersKept, WriterKept DEF Excl, Onward, HoldOn, jobs, Working
<1>8. ContentInv'
  <2>1. RememberedIsInThread'
    BY <1>1 DEF Excl, ContentInv, RememberedIsInThread, resets
  <2>2. ASSUME NEW u \in Turns, turn'[u].pc = "invoking"
        PROVE  threadRow'.recorded \subseteq turn'[u].snap \cup torn'
    BY <1>1, <1>3, <2>2 DEF Excl, ContentInv, resets
  <2>3. ASSUME NEW a \in Appends PROVE append'[a].pc # "recording"
    BY <1>1, <1>4 DEF Excl, WriterInv, Working, jobs
  <2>. QED BY <2>1, <2>2, <2>3 DEF ContentInv
<1>9. ClearInv'
  <2>1. JobsCalm /\ UNCHANGED append
    BY <1>1 DEF JobsCalm, jobs, resets
  <2>2. Written(turn[t].snap) /\ turn[t].snap \cap cleared = {}
    BY <1>1 DEF Excl, ClearInv, InvokesClear
  <2>3. ASSUME NEW e \in channel'
        PROVE  /\ e \notin cleared
               /\ e \in Msgs => e \in arrived
               /\ e \in Turns => turn[e].pc \in Saved
    BY <1>1, <1>5, <2>2, <2>3 DEF Written, Saved
  <2>4. Divider \in cleared => threadRow'.conv # "old"
    BY <1>1 DEF Excl, ClearInv, WritesClear
  <2>. QED BY <1>6, <2>1, <2>3, <2>4, ClearKept DEF Excl, Onward, Same
<1>. QED BY <1>7, <1>8, <1>9 DEF Excl

\* A release gives back one hold, of this occupancy, and leaves the lease to the others.
LEMMA TurnReleasesHolds ==
    ASSUME TypeInv, TypeInv', HoldersInv, NEW t \in Turns, TurnReleases(t)
    PROVE  HoldersInv'
<1>1. /\ turn[t].pc = "decrementing" /\ Finishes(t) /\ UNCHANGED <<jobs, resets, channel>>
      /\ threadRow' = IF threadRow.exists /\ threadRow.epoch = turn[t].epoch THEN RowGivenBack
                      ELSE threadRow
  BY DEF TurnReleases
<1>2. turn'[t].pc = "done" /\ \A u \in Turns : u # t => turn'[u] = turn[u]
  BY <1>1, TurnFinishes DEF TypeInv
<1>3. Held(t) /\ threadRow.exists /\ threadRow.epoch = turn[t].epoch
  BY <1>1 DEF Held, HoldersInv
<1>4. threadRow' = RowGivenBack
  BY <1>1, <1>3
<1>5. /\ threadRow'.exists = threadRow.exists
      /\ threadRow'.holders = (IF threadRow.holders > 0 THEN threadRow.holders - 1 ELSE 0)
      /\ threadRow'.lease = (threadRow.lease /\ threadRow.holders > 1)
      /\ threadRow'.epoch = threadRow.epoch /\ threadRow'.occ = threadRow.occ
      /\ threadRow'.recorded = threadRow.recorded /\ threadRow'.conv = threadRow.conv
  BY <1>4, RowGivenBackDoes DEF TypeInv
<1>6. /\ ~Held(t)'
      /\ \A u \in Turns : u # t => Held(u)' = Held(u) /\ Holding(u)' = Holding(u)
  BY <1>2 DEF Held, Holding
<1>7. HeldTurns' = HeldTurns \ {t} /\ t \in HeldTurns
  BY <1>3, <1>6 DEF HeldTurns
<1>8. IsFiniteSet(HeldTurns) /\ Cardinality(HeldTurns) <= threadRow.holders
  BY DEF HoldersInv
<1>9. IsFiniteSet(HeldTurns') /\ Cardinality(HeldTurns') = Cardinality(HeldTurns) - 1
  BY <1>7, <1>8, FS_RemoveElement
<1>10. /\ Cardinality(HeldTurns) \in Nat /\ Cardinality(HeldTurns') \in Nat
       /\ threadRow.holders \in Nat
  BY <1>8, <1>9, FS_CardinalityType DEF TypeInv, ThreadInv, RowType
<1>11. Cardinality(HeldTurns') <= threadRow'.holders
  BY <1>5, <1>8, <1>9, <1>10
<1>12. ASSUME NEW u \in Turns, Held(u)'
      PROVE  /\ threadRow'.exists /\ threadRow'.lease
             /\ threadRow'.epoch = turn'[u].epoch /\ threadRow'.occ = turn'[u].occ
             /\ Holding(u)' => turn'[u].timer
  <2>1. u # t /\ Held(u) /\ turn'[u] = turn[u] /\ Holding(u)' = Holding(u)
    BY <1>2, <1>6, <1>12
  <2>2. /\ threadRow.exists /\ threadRow.lease
        /\ threadRow.epoch = turn[u].epoch /\ threadRow.occ = turn[u].occ
        /\ Holding(u) => turn[u].timer
    BY <2>1 DEF HoldersInv
  <2>3. u \in HeldTurns'
    BY <1>12 DEF HeldTurns
  <2>4. Cardinality(HeldTurns') # 0
    BY <1>9, <2>3, FS_EmptySet
  <2>5. threadRow.holders > 1
    BY <1>8, <1>9, <1>10, <2>4
  <2>. QED BY <1>5, <2>1, <2>2, <2>5
<1>. QED BY <1>9, <1>11, <1>12 DEF HoldersInv

\* A release disturbs neither the writer nor the contents.
LEMMA TurnReleasesKeeps ==
    ASSUME TypeInv, TypeInv', Excl, NEW t \in Turns, TurnReleases(t)
    PROVE  Excl'
<1>1. /\ turn[t].pc = "decrementing" /\ Finishes(t) /\ UNCHANGED <<jobs, resets, channel>>
      /\ threadRow' = IF threadRow.exists /\ threadRow.epoch = turn[t].epoch THEN RowGivenBack
                      ELSE threadRow
  BY DEF TurnReleases
<1>2. turn'[t].pc = "done" /\ \A u \in Turns : u # t => turn'[u] = turn[u]
  BY <1>1, TurnFinishes DEF TypeInv
<1>3. Held(t) /\ threadRow.exists /\ threadRow.epoch = turn[t].epoch
  BY <1>1 DEF Held, Excl, HoldersInv
<1>4. threadRow' = RowGivenBack
  BY <1>1, <1>3
<1>5. threadRow'.recorded = threadRow.recorded /\ threadRow'.conv = threadRow.conv
  BY <1>4, RowGivenBackDoes DEF TypeInv
<1>7. HoldersInv'
  BY <1>3, TurnReleasesHolds DEF Excl
<1>8. WriterInv'
  BY <1>1, <1>3 DEF Excl, WriterInv, Working, jobs
<1>9. ContentInv'
  BY <1>1, <1>2, <1>5, ContentKept DEF Excl, jobs, resets
<1>10. ClearInv'
  <2>1. \A u \in Turns : ClearOn(u)
    BY <1>1, <1>2, TurnUnmoved DEF ClearOn, Onward, Saved, Barred, resets
  <2>2. JobsCalm /\ UNCHANGED append
    BY <1>1 DEF JobsCalm, jobs, resets
  <2>3. Divider \in cleared => threadRow'.conv # "old"
    BY <1>5 DEF Excl, ClearInv, WritesClear
  <2>. QED BY <1>1, <2>1, <2>2, <2>3, ClearKept DEF Excl, Same
<1>. QED BY <1>7, <1>8, <1>9, <1>10 DEF Excl

\* An append goes onward and nothing else moves but, calmly, the row, the channel and
\* the jobs.
LEMMA AppendCalm ==
    ASSUME TypeInv, TypeInv', Excl, NEW a \in Appends, Others(a), AppendOnward(a),
           RowCalm, ChannelCalm, JobsCalm, UNCHANGED <<turn, calledOff>>
    PROVE  Excl'
<1>1. \A t \in Turns : Onward(t)
  BY TurnUnmoved
<1>2. \A b \in Appends : AppendOnward(b)
  BY AppendUnmoved DEF Others, ChannelCalm, Excl
<1>. QED BY <1>1, <1>2, CalmKeeps

LEMMA JobsUnmoved ==
    ASSUME UNCHANGED <<cleared, torn, arrived>>, owed' \subseteq owed
    PROVE  JobsCalm
  BY DEF JobsCalm

LEMMA AppendStepsOnward ==
    ASSUME TypeInv, TypeInv', Excl, NEW a \in Appends,
           \/ \E p \in Procs, m \in Msgs : AppendStarts(a, p, m)
           \/ AppendEnters(a) \/ AppendChecks(a) \/ AppendWrites(a) \/ AppendThrows(a)
           \/ AppendReleaseLost(a) \/ AppendSettles(a) \/ AppendRenews(a)
    PROVE  Excl'
<1>a. AppendsInv /\ ThreadInv
  BY DEF TypeInv
<1>b. "settling" \in AppendPcs /\ "releasing" \in AppendPcs /\ "claiming" \in AppendPcs
      /\ "recording" \in AppendPcs
  BY DEF AppendPcs
<1>c. append[a].outcome \in {"done", "later"}
  BY <1>a DEF AppendsInv, AppendType
<1>d. ASSUME NEW outcome \in {"done", "later"}, Ends(a, outcome)
      PROVE  append'[a].pc = "settling" /\ Others(a)
  BY <1>a, <1>b, <1>d, AppendGoes DEF Ends
<1>1. ASSUME append'[a].pc \notin {"checking", "writing", "recording", "releasing"}, Others(a),
             UNCHANGED <<thread, resets, turn, arrived>>, owed' \subseteq owed
      PROVE  Excl'
  <2>1. AppendOnward(a)
    BY <1>1 DEF AppendOnward, Working
  <2>2. RowCalm /\ ChannelCalm /\ JobsCalm
    BY <1>1, RowUnmoved, ChannelUnmoved, JobsUnmoved DEF thread, resets
  <2>. QED BY <1>1, <2>1, <2>2, AppendCalm DEF resets
<1>2. ASSUME NEW p \in Procs, NEW m \in Msgs, AppendStarts(a, p, m) PROVE Excl'
  <2>1. append'[a].pc = "queued" /\ Others(a)
    BY <1>2, <1>a, AppendStartsDoes
  <2>. QED BY <1>1, <1>2, <2>1 DEF AppendStarts
<1>3. CASE AppendEnters(a)
  <2>1. /\ UNCHANGED <<thread, resets, turn, arrived, owed>>
        /\ Ends(a, "done") \/ append' = [append EXCEPT ![a].pc = "claiming"]
    BY <1>3 DEF AppendEnters
  <2>2. append'[a].pc \in {"settling", "claiming"} /\ Others(a)
    BY <2>1, <1>a, <1>b, <1>d, AppendGoes
  <2>. QED BY <1>1, <2>1, <2>2
<1>4. CASE AppendReleaseLost(a)
  <2>1. Ends(a, append[a].outcome) /\ UNCHANGED <<thread, resets, turn, arrived, owed>>
    BY <1>4 DEF AppendReleaseLost
  <2>. QED BY <1>1, <2>1, <1>c, <1>d
<1>5. CASE AppendSettles(a)
  <2>1. /\ append' = [append EXCEPT ![a] = IdleAppend] /\ owed' \subseteq owed
        /\ UNCHANGED <<thread, resets, turn, arrived>>
    BY <1>5 DEF AppendSettles
  <2>2. append'[a].pc = "idle" /\ Others(a)
    BY <2>1, <1>a, IdleType, AppendReplaced DEF Others
  <2>. QED BY <1>1, <2>1, <2>2
<1>6. CASE AppendChecks(a)
  <2>1. /\ append[a].pc = "checking" /\ Others(a) /\ append'[a].msg = append[a].msg
        /\ \/ append'[a].pc = "releasing"
           \/ /\ append'[a].pc = "writing" /\ append'[a].prev = threadRow.conv
              /\ append[a].msg \in owed
              /\ append'[a].divider => threadRow.conv = "old"
    BY <1>6, AppendChecksDoes
  <2>2. UNCHANGED <<thread, resets, turn, owed, arrived>>
    BY <1>6 DEF AppendChecks
  <2>3. append[a].msg \in owed => append[a].msg \notin cleared
    BY DEF Excl, ClearInv, NoneBack, TypeInv, JobsInv
  <2>4. AppendOnward(a)
    BY <2>1, <2>3 DEF AppendOnward, Working
  <2>5. RowCalm /\ ChannelCalm /\ JobsCalm
    BY <2>2, RowUnmoved, ChannelUnmoved, JobsUnmoved DEF thread, resets
  <2>. QED BY <2>1, <2>2, <2>4, <2>5, AppendCalm DEF resets
<1>7. CASE AppendWrites(a)
  <2>1. /\ append[a].pc = "writing" /\ append' = [append EXCEPT ![a].pc = "recording"]
        /\ UNCHANGED <<threadRow, resets, turn, owed, arrived>>
        /\ channel' = IF append[a].msg \in channel THEN channel
                      ELSE channel \cup {append[a].msg}
                                   \cup (IF append[a].divider THEN {Divider} ELSE {})
    BY <1>7 DEF AppendWrites
  <2>2. append'[a].pc = "recording" /\ Same(a) /\ Others(a)
    BY <2>1, <1>a, <1>b, AppendGoes
  <2>3. /\ append[a].msg \notin cleared /\ append[a].msg \in arrived /\ append[a].msg \in Msgs
        /\ append[a].divider => Divider \notin cleared
    BY <2>1 DEF Excl, ClearInv, WritesClear, TypeInv, MsgInv, JobsInv
  <2>4. ChannelCalm
    BY <2>1, <2>3, ConstantsAssumption DEF ChannelCalm
  <2>5. AppendOnward(a)
    BY <2>1, <2>2 DEF AppendOnward, Working
  <2>6. RowCalm /\ JobsCalm
    BY <2>1, RowUnmoved, JobsUnmoved DEF resets
  <2>. QED BY <2>1, <2>2, <2>4, <2>5, <2>6, AppendCalm DEF resets
<1>8. CASE AppendThrows(a)
  <2>1. /\ append[a].pc \in {"checking", "writing", "recording"}
        /\ append' = [append EXCEPT ![a].pc = "releasing", ![a].outcome = "later"]
        /\ UNCHANGED <<thread, resets, turn, owed, arrived>>
    BY <1>8 DEF AppendThrows
  <2>2. append'[a].pc = "releasing" /\ Others(a)
    BY <2>1, <1>a, <1>b, AppendGoes
  <2>3. AppendOnward(a)
    BY <2>1, <2>2 DEF AppendOnward, Working
  <2>4. RowCalm /\ ChannelCalm /\ JobsCalm
    BY <2>1, RowUnmoved, ChannelUnmoved, JobsUnmoved DEF thread, resets
  <2>. QED BY <2>1, <2>2, <2>3, <2>4, AppendCalm DEF resets
<1>9. CASE AppendRenews(a)
  <2>1. /\ threadRow' = [threadRow EXCEPT !.write = TRUE]
        /\ UNCHANGED <<append, owed, arrived, resets, turn, channel>>
    BY <1>9 DEF AppendRenews, jobs
  <2>2. RowCalm
    BY <2>1, <1>a DEF RowCalm, ThreadInv, RowType
  <2>3. AppendOnward(a) /\ Others(a) /\ ChannelCalm /\ JobsCalm
    BY <2>1, AppendUnmoved, ChannelUnmoved, JobsUnmoved DEF Others, Excl, resets
  <2>. QED BY <2>1, <2>2, <2>3, AppendCalm DEF resets
<1>. QED BY <1>2, <1>3, <1>4, <1>5, <1>6, <1>7, <1>8, <1>9, Zenon

\* An append takes the write claim: nobody holds the thread, nobody writes it.
LEMMA AppendClaimsKeeps ==
    ASSUME TypeInv, TypeInv', Excl, NEW a \in Appends, AppendClaims(a)
    PROVE  Excl'
<1>1. /\ append[a].pc = "claiming" /\ Same(a) /\ Others(a)
      /\ \/ /\ ~threadRow.exists \/ WriteFree
            /\ threadRow' = [threadRow EXCEPT !.exists = TRUE, !.write = TRUE, !.token = a]
            /\ append'[a].pc = "checking"
         \/ append'[a].pc = "settling" /\ UNCHANGED threadRow
  BY AppendClaimsDoes
<1>2. UNCHANGED <<channel, resets, turn, owed, arrived>>
  BY DEF AppendClaims
<1>3. CASE append'[a].pc = "settling" /\ UNCHANGED threadRow
  <2>1. AppendOnward(a)
    BY <1>3 DEF AppendOnward, Working
  <2>2. RowCalm /\ ChannelCalm /\ JobsCalm
    BY <1>2, <1>3, RowUnmoved, ChannelUnmoved, JobsUnmoved DEF resets
  <2>. QED BY <1>1, <1>2, <2>1, <2>2, AppendCalm DEF resets
<1>4. CASE /\ ~threadRow.exists \/ WriteFree
           /\ threadRow' = [threadRow EXCEPT !.exists = TRUE, !.write = TRUE, !.token = a]
           /\ append'[a].pc = "checking"
  <2>1. /\ threadRow'.exists /\ threadRow'.write /\ threadRow'.token = a
        /\ threadRow'.lease = threadRow.lease /\ threadRow'.holders = threadRow.holders
        /\ threadRow'.epoch = threadRow.epoch /\ threadRow'.occ = threadRow.occ
        /\ threadRow'.recorded = threadRow.recorded /\ threadRow'.conv = threadRow.conv
    BY <1>4 DEF TypeInv, ThreadInv, RowType
  <2>2. \A t \in Turns : Onward(t)
    BY <1>2, TurnUnmoved DEF resets
  <2>3. HoldersInv'
    BY <2>1, <2>2, HoldersKept DEF Excl, Onward, HoldOn
  <2>4. \A t \in Turns : ~Held(t)
    BY <1>4, HeldRenews DEF Excl, WriteFree, Renews
  <2>5. \A b \in Appends : ~Working(b)
    BY <1>4 DEF Excl, WriterInv, WriteFree
  <2>6. \A b \in Appends : Working(b)' => b = a
    BY <1>1, <2>5 DEF Working, Others
  <2>7. \A t \in Turns : ~Held(t)'
    BY <1>2, <2>4 DEF Held, Holding
  <2>8. WriterInv'
    BY <2>1, <2>6, <2>7 DEF WriterInv
  <2>9. ContentInv'
    BY <1>1, <1>2, <1>4, <2>1, ContentKept DEF Excl, Others, resets
  <2>10. ClearInv'
    <3>1. \A b \in Appends : append'[b].pc \notin {"writing", "recording"}
      BY <1>4, <2>6 DEF Working
    <3>2. JobsCalm
      BY <1>2, JobsUnmoved DEF resets
    <3>3. Divider \in cleared => threadRow'.conv # "old"
      BY <2>1 DEF Excl, ClearInv, WritesClear
    <3>. QED BY <1>2, <2>2, <3>1, <3>2, <3>3, ClearKept DEF Excl, Onward
  <2>. QED BY <2>3, <2>8, <2>9, <2>10 DEF Excl
<1>. QED BY <1>1, <1>3, <1>4

\* What is remembered was written first, and no save has come between.
LEMMA AppendRecordsKeeps ==
    ASSUME TypeInv, TypeInv', Excl, NEW a \in Appends, AppendRecords(a)
    PROVE  Excl'
<1>1. /\ append[a].pc = "recording" /\ append'[a].pc = "releasing"
      /\ Same(a) /\ Others(a) /\ threadRow'.exists
      /\ threadRow'.recorded = threadRow.recorded \cup {append[a].msg}
      /\ threadRow'.conv = "old" => append[a].prev = "old"
      /\ threadRow'.holders = threadRow.holders /\ threadRow'.lease = threadRow.lease
      /\ threadRow'.epoch = threadRow.epoch /\ threadRow'.occ = threadRow.occ
      /\ threadRow'.write = threadRow.write /\ threadRow'.token = threadRow.token
  BY AppendRecordsDoes
<1>2. UNCHANGED <<channel, resets, turn, owed, arrived>>
  BY DEF AppendRecords
<1>3. \A t \in Turns : Onward(t)
  BY <1>2, TurnUnmoved DEF resets
<1>4. Working(a) /\ \A b \in Appends : Working(b)' => Working(b)
  BY <1>1 DEF Working, Others
<1>5. HoldersInv' /\ WriterInv'
  BY <1>1, <1>3, <1>4, HoldersKept, WriterKept DEF Excl, Onward, HoldOn
<1>6. ContentInv'
  <2>1. RememberedIsInThread'
    BY <1>1, <1>2 DEF Excl, ContentInv, RememberedIsInThread, resets
  <2>2. \A t \in Turns : turn'[t].pc # "invoking"
    BY <1>2, <1>4 DEF Excl, WriterInv, Held, Holding
  <2>3. ASSUME NEW b \in Appends, append'[b].pc = "recording" PROVE append'[b].msg \in channel'
    BY <1>1, <1>2, <2>3 DEF Excl, ContentInv, Others
  <2>. QED BY <2>1, <2>2, <2>3 DEF ContentInv
<1>7. ClearInv'
  <2>1. JobsCalm
    BY <1>2, JobsUnmoved DEF resets
  <2>2. Divider \in cleared => threadRow'.conv # "old"
    BY <1>1 DEF Excl, ClearInv, WritesClear
  <2>3. \A b \in Appends : append'[b].pc \in {"writing", "recording"} =>
            append'[b].pc = append[b].pc /\ Same(b)
    BY <1>1 DEF Others, Same
  <2>. QED BY <1>2, <1>3, <2>1, <2>2, <2>3, ClearKept DEF Excl, Onward
<1>. QED BY <1>5, <1>6, <1>7 DEF Excl

\* The write claim is given back; the row goes with it only when nobody holds it and
\* it remembers nothing.
LEMMA AppendReleasesKeeps ==
    ASSUME TypeInv, TypeInv', Excl, NEW a \in Appends, AppendReleases(a)
    PROVE  Excl'
<1>1. /\ append[a].pc = "releasing" /\ threadRow' = RowAfterRelease(a)
      /\ Ends(a, append[a].outcome)
      /\ UNCHANGED <<channel, resets, turn, owed, arrived>>
  BY DEF AppendReleases
<1>2. append'[a].pc = "settling" /\ Same(a) /\ Others(a)
  <2>1. "settling" \in AppendPcs /\ append[a].outcome \in {"done", "later"}
    BY DEF AppendPcs, TypeInv, AppendsInv, AppendType
  <2>. QED BY <1>1, <2>1, AppendGoes DEF Ends, TypeInv
<1>3. Working(a) /\ threadRow.exists /\ threadRow.token = a /\ \A t \in Turns : ~Held(t)
  BY <1>1 DEF Working, Excl, WriterInv
<1>4. \A b \in Appends : ~Working(b)'
  BY <1>2, <1>3 DEF Working, Others, Excl, WriterInv
<1>5. /\ threadRow'.recorded \subseteq threadRow.recorded /\ threadRow'.holders \in Nat
      /\ threadRow'.conv = "old" => threadRow.conv = "old"
  <2>1. \/ RowAfterRelease(a) = NoRow
        \/ RowAfterRelease(a) = [threadRow EXCEPT !.write = FALSE, !.token = Nobody]
    BY <1>3, RowAfterReleaseDoes DEF TypeInv
  <2>2. NoRow.recorded = {} /\ NoRow.holders = 0 /\ NoRow.conv = "none"
    BY DEF NoRow
  <2>. QED BY <1>1, <2>1, <2>2 DEF TypeInv, ThreadInv, RowType
<1>6. \A t \in Turns : Onward(t)
  BY <1>1, TurnUnmoved DEF resets
<1>7. \A t \in Turns : ~Held(t)' /\ turn'[t].pc # "invoking"
  BY <1>1, <1>3 DEF Held, Holding
<1>8. HoldersInv'
  BY <1>7, NobodyHolds
<1>9. WriterInv'
  BY <1>4 DEF WriterInv
<1>10. ContentInv'
  BY <1>1, <1>4, <1>5, <1>7 DEF Excl, ContentInv, RememberedIsInThread, Working, resets
<1>11. ClearInv'
  <2>1. JobsCalm
    BY <1>1, JobsUnmoved DEF resets
  <2>2. Divider \in cleared => threadRow'.conv # "old"
    BY <1>5 DEF Excl, ClearInv, WritesClear
  <2>3. \A b \in Appends : append'[b].pc \notin {"writing", "recording"}
    BY <1>4 DEF Working
  <2>. QED BY <1>1, <1>6, <2>1, <2>2, <2>3, ClearKept DEF Excl, Onward
<1>. QED BY <1>8, <1>9, <1>10, <1>11 DEF Excl

\* A message arrives, a flush is called off, a process dies: nothing takes the thread.
LEMMA OutsideCalm ==
    ASSUME TypeInv, TypeInv', Excl,
           \/ \E m \in Msgs : Arrives(m)
           \/ \E r \in Resets : ResetThrows(r) \/ \E p \in Procs : ResetRetires(r, p)
           \/ \E p \in Procs : Crash(p)
           \/ UNCHANGED vars
    PROVE  Excl'
<1>1. ASSUME NEW m \in Msgs, Arrives(m) PROVE Excl'
  <2>1. /\ m \notin arrived /\ arrived' = arrived \cup {m} /\ owed' = owed \cup {m}
        /\ UNCHANGED <<thread, resets, turn, append>>
    BY <1>1 DEF Arrives
  <2>2. JobsCalm
    BY <2>1 DEF JobsCalm, resets
  <2>3. RowCalm /\ ChannelCalm
    BY <2>1, RowUnmoved, ChannelUnmoved DEF thread
  <2>4. \A t \in Turns : Onward(t)
    BY <2>1, TurnUnmoved DEF resets
  <2>5. \A a \in Appends : AppendOnward(a)
    BY <2>1, AppendUnmoved DEF Excl, thread
  <2>. QED BY <2>2, <2>3, <2>4, <2>5, CalmKeeps
<1>2. ASSUME NEW r \in Resets, NEW p \in Procs, ResetRetires(r, p) PROVE Excl'
  <2>1. /\ calledOff' = calledOff \cup {t \in FlushTurns : Underway(t)}
        /\ UNCHANGED <<thread, append, owed, arrived, turn, cleared, torn>>
    BY <1>2 DEF ResetRetires, jobs
  <2>2. RowCalm /\ ChannelCalm /\ JobsCalm
    BY <2>1, RowUnmoved, ChannelUnmoved, JobsUnmoved DEF thread
  <2>3. \A t \in Turns : Onward(t)
    BY <2>1, TurnUnmoved DEF Underway
  <2>4. \A a \in Appends : AppendOnward(a)
    BY <2>1, AppendUnmoved DEF Excl, thread
  <2>. QED BY <2>2, <2>3, <2>4, CalmKeeps
<1>3. ASSUME NEW p \in Procs, Crash(p) PROVE Excl'
  <2>1. /\ \A t \in Turns : turn'[t] = turn[t] \/ (turn'[t].pc = "done" /\ turn[t].pc # "idle")
        /\ \A a \in Appends : append'[a] = append[a] \/ append'[a].pc = "idle"
    BY <1>3, CrashDoes
  <2>2. UNCHANGED <<thread, owed, arrived, calledOff, cleared, torn>>
    BY <1>3 DEF Crash
  <2>3. RowCalm /\ ChannelCalm /\ JobsCalm
    BY <2>2, RowUnmoved, ChannelUnmoved, JobsUnmoved DEF thread
  <2>4. ASSUME NEW t \in Turns PROVE Onward(t)
    <3>1. CASE turn'[t] = turn[t]
      BY <2>2, <3>1, TurnUnmoved
    <3>2. CASE turn'[t].pc = "done"
      BY <3>2 DEF Onward, HoldOn, ClearOn, Held, Holding, Saved, Barred
    <3>. QED BY <2>1, <3>1, <3>2
  <2>5. ASSUME NEW a \in Appends PROVE AppendOnward(a)
    <3>1. CASE append'[a] = append[a]
      BY <2>2, <3>1, AppendUnmoved DEF Excl, thread
    <3>2. CASE append'[a].pc = "idle"
      BY <3>2 DEF AppendOnward, Working
    <3>. QED BY <2>1, <3>1, <3>2
  <2>. QED BY <2>3, <2>4, <2>5, CalmKeeps
<1>4. CASE UNCHANGED vars \/ \E r \in Resets : ResetThrows(r)
  <2>1. UNCHANGED <<thread, turn, append, owed, arrived, calledOff, cleared, torn>>
    BY <1>4 DEF vars, jobs, resets, ResetThrows
  <2>2. RowCalm /\ ChannelCalm /\ JobsCalm
    BY <2>1, RowUnmoved, ChannelUnmoved, JobsUnmoved DEF thread
  <2>3. \A t \in Turns : Onward(t)
    BY <2>1, TurnUnmoved
  <2>4. \A a \in Appends : AppendOnward(a)
    BY <2>1, AppendUnmoved DEF Excl, thread
  <2>. QED BY <2>2, <2>3, <2>4, CalmKeeps
<1>. QED BY <1>1, <1>2, <1>3, <1>4

\* The checkpoint goes while nobody is at work, and what it held is torn.
LEMMA ResetErasesKeeps ==
    ASSUME TypeInv, TypeInv', Excl, NEW r \in Resets, ResetErases(r)
    PROVE  Excl'
<1>1. /\ UNCHANGED <<threadRow, jobs, turn, calledOff, cleared>>
      /\ \/ UNCHANGED <<channel, torn>>
         \/ ~BusyForReset(reset[r].proc) /\ channel' = {} /\ torn' = torn \cup channel
  BY Zenon DEF ResetErases
<1>2. UNCHANGED <<append, owed, arrived>>
  BY <1>1 DEF jobs
<1>3. CASE UNCHANGED <<channel, torn>>
  <2>1. RowCalm /\ ChannelCalm /\ JobsCalm
    BY <1>1, <1>2, <1>3, RowUnmoved, ChannelUnmoved, JobsUnmoved
  <2>2. \A t \in Turns : Onward(t)
    BY <1>1, TurnUnmoved
  <2>3. \A a \in Appends : AppendOnward(a)
    BY <1>2, <1>3, AppendUnmoved DEF Excl
  <2>. QED BY <2>1, <2>2, <2>3, CalmKeeps
<1>4. CASE ~BusyForReset(reset[r].proc) /\ channel' = {} /\ torn' = torn \cup channel
  <2>1. \A t \in Turns : ~Held(t)
    BY <1>4, HeldRenews DEF Excl, BusyForReset
  <2>2. \A a \in Appends : ~Working(a)
    BY <1>4 DEF BusyForReset, Excl, WriterInv
  <2>3. /\ \A t \in Turns : ~Held(t)' /\ turn'[t].pc # "invoking"
        /\ \A a \in Appends : ~Working(a)' /\ append'[a].pc \notin {"writing", "recording"}
    BY <1>1, <1>2, <2>1, <2>2 DEF Held, Holding, Working
  <2>4. HoldersInv'
    BY <2>3, NobodyHolds
  <2>5. WriterInv'
    BY <2>3 DEF WriterInv
  <2>6. ContentInv'
    BY <1>1, <1>4, <2>3 DEF Excl, ContentInv, RememberedIsInThread
  <2>7. NoneBack' /\ InvokesClear' /\ WritesClear'
    BY <1>1, <1>2, <2>3 DEF Excl, ClearInv, NoneBack, Barred, InvokesClear, WritesClear
  <2>8. ClearedStaysCleared' /\ Written(channel)' /\ Written(torn)'
    BY <1>1, <1>2, <1>4 DEF Excl, ClearInv, ClearedStaysCleared, Written
  <2>. QED BY <2>4, <2>5, <2>6, <2>7, <2>8 DEF Excl, ClearInv
<1>. QED BY <1>1, <1>3, <1>4

\* At the commit there is still nobody at work: no turn and no append brings back what
\* was torn, and no job of it is left.
LEMMA ResetCommitsKeeps ==
    ASSUME TypeInv, TypeInv', Excl, LockInv, NEW r \in Resets, ResetCommits(r)
    PROVE  Excl'
<1>1. /\ UNCHANGED <<channel, turn, append, arrived, calledOff>>
      /\ threadRow' = NoRow /\ owed' = owed \ reset[r].revoked
      /\ cleared' = cleared \cup torn \cup reset[r].revoked \cup calledOff /\ torn' = {}
  BY Zenon DEF ResetCommits
<1>2. /\ \A t \in Turns : ~Held(t)
      /\ \A a \in Appends : ~Working(a)
      /\ channel = {} /\ reset[r].revoked \subseteq arrived
      /\ (owed \ reset[r].revoked) \cap torn = {}
  BY DEF LockInv, ResetCommits
<1>3. /\ \A t \in Turns : ~Held(t)' /\ turn'[t].pc # "invoking"
      /\ \A a \in Appends : ~Working(a)' /\ append'[a].pc \notin {"writing", "recording"}
  BY <1>1, <1>2 DEF Held, Holding, Working
<1>4. HoldersInv'
  BY <1>3, NobodyHolds
<1>5. WriterInv'
  BY <1>3 DEF WriterInv
<1>6. ContentInv'
  BY <1>1, <1>3 DEF ContentInv, RememberedIsInThread, NoRow
<1>7. NoneBack'
  <2>1. ASSUME NEW m \in cleared' \cap Msgs PROVE m \in arrived' /\ m \notin owed'
    BY <1>1, <1>2, ConstantsAssumption
       DEF Excl, ClearInv, NoneBack, Written, TypeInv, JobsInv, ResetsInv
  <2>2. ASSUME NEW t \in cleared' \cap Turns PROVE Barred(t)'
    <3>1. /\ turn[t].pc \in TurnPcs
          /\ turn[t].pc \notin {"claimed", "marking", "stamping", "loading", "invoking",
                               "releasing", "decrementing"}
      BY <1>2 DEF TypeInv, TurnsInv, TurnType, Held, Holding
    <3>2. CASE t \in cleared
      BY <1>1, <3>2 DEF Excl, ClearInv, NoneBack, Barred
    <3>3. CASE t \in torn
      BY <1>1, <3>1, <3>3 DEF Excl, ClearInv, Written, Saved, Barred
    <3>4. CASE t \in calledOff
      BY <1>1, <3>1, <3>4 DEF Excl, ClearInv, NoneBack, Barred, TurnPcs
    <3>5. t \notin reset[r].revoked
      BY ConstantsAssumption DEF TypeInv, ResetsInv, ResetType
    <3>. QED BY <1>1, <2>2, <3>2, <3>3, <3>4, <3>5
  <2>3. ASSUME NEW t \in calledOff' PROVE turn'[t].pc # "idle"
    BY <1>1, <2>3 DEF Excl, ClearInv, NoneBack
  <2>. QED BY <2>1, <2>2, <2>3 DEF NoneBack
<1>8. InvokesClear'
  BY <1>3 DEF InvokesClear
<1>9. WritesClear'
  BY <1>1, <1>3 DEF WritesClear, NoRow
<1>10. ClearedStaysCleared' /\ Written(channel)' /\ Written(torn)'
  BY <1>1, <1>2 DEF ClearedStaysCleared, Written
<1>. QED BY <1>4, <1>5, <1>6, <1>7, <1>8, <1>9, <1>10 DEF Excl, ClearInv

\* Under the lock of a /reset no turn takes the thread, and none writes the channel.
LEMMA LockedTurns ==
    ASSUME TypeInv, RowLocked, \A u \in Turns : ~Held(u), NEW t \in Turns,
           \/ \E p \in Procs : TurnStarts(t, p)
           \/ TurnStep(t) \/ TurnThrows(t) \/ TurnClaimThrows(t)
           \/ TurnReleaseLost(t) \/ TurnRenews(t)
    PROVE  channel' = channel /\ (\A u \in Turns : ~Held(u)') /\ UNCHANGED <<append, owed, arrived, resets>>
<1>a. TurnsInv /\ ThreadInv
  BY DEF TypeInv
<1>b. turn[t].pc \notin {"claimed", "marking", "stamping", "loading", "invoking", "releasing",
                       "decrementing"}
  BY DEF Held, Holding
<1>1. ASSUME \A u \in Turns : u # t => turn'[u] = turn[u],
             turn'[t].pc \in {"queued", "claiming", "done"}
      PROVE  \A u \in Turns : ~Held(u)'
  BY <1>1 DEF Held, Holding
<1>2. ASSUME NEW p \in Procs, TurnStarts(t, p)
      PROVE  channel' = channel /\ (\A u \in Turns : ~Held(u)') /\ UNCHANGED <<append, owed, arrived, resets>>
  <2>1. turn'[t].pc = "queued" /\ \A u \in Turns : u # t => turn'[u] = turn[u]
    BY <1>2, <1>a, TurnStartsDoes DEF TurnStarts
  <2>. QED BY <1>1, <1>2, <2>1 DEF TurnStarts, thread, jobs
<1>3. CASE TurnEnters(t)
  <2>1. turn'[t].pc \in {"done", "claiming"} /\ \A u \in Turns : u # t => turn'[u] = turn[u]
    BY <1>3, <1>a, TurnEntersDoes
  <2>. QED BY <1>1, <1>3, <2>1 DEF TurnEnters, thread, jobs
<1>4. CASE TurnClaimThrows(t)
  <2>1. turn'[t].pc = "done" /\ \A u \in Turns : u # t => turn'[u] = turn[u]
    BY <1>4, <1>a, TurnFinishes DEF TurnClaimThrows
  <2>. QED BY <1>1, <1>4, <2>1 DEF TurnClaimThrows, thread, jobs
<1>5. TurnStep(t) => TurnEnters(t)
  BY <1>b DEF TurnStep, TurnClaims, TurnAsksAgain, TurnWritesDivider, TurnStampsRow, TurnLoads,
              TurnSaves, TurnUnmarks, TurnReleases
<1>6. ~TurnThrows(t) /\ ~TurnReleaseLost(t) /\ ~TurnRenews(t)
  BY <1>b DEF TurnThrows, TurnReleaseLost, TurnRenews
<1>. QED BY <1>2, <1>3, <1>4, <1>5, <1>6, Zenon

\* Nor does an append.
LEMMA LockedAppends ==
    ASSUME TypeInv, RowLocked, \A b \in Appends : ~Working(b), NEW a \in Appends,
           \/ \E p \in Procs, m \in Msgs : AppendStarts(a, p, m)
           \/ AppendStep(a) \/ AppendThrows(a) \/ AppendReleaseLost(a) \/ AppendRenews(a)
    PROVE  /\ UNCHANGED <<channel, turn, arrived, resets>> /\ owed' \subseteq owed
           /\ \A b \in Appends : ~Working(b)'
<1>a. AppendsInv
  BY DEF TypeInv
<1>b. append[a].pc \notin {"checking", "writing", "recording", "releasing"}
  BY DEF Working
<1>c. "settling" \in AppendPcs /\ "claiming" \in AppendPcs
  BY DEF AppendPcs
<1>1. ASSUME Others(a), append'[a].pc \notin {"checking", "writing", "recording", "releasing"}
      PROVE  \A b \in Appends : ~Working(b)'
  BY <1>1 DEF Working, Others
<1>2. ASSUME NEW p \in Procs, NEW m \in Msgs, AppendStarts(a, p, m)
      PROVE  /\ UNCHANGED <<channel, turn, arrived, resets>> /\ owed' \subseteq owed
             /\ \A b \in Appends : ~Working(b)'
  <2>1. append'[a].pc = "queued" /\ Others(a)
    BY <1>2, <1>a, AppendStartsDoes
  <2>. QED BY <1>1, <1>2, <2>1 DEF AppendStarts, thread
<1>3. CASE AppendEnters(a)
  <2>1. append'[a].pc \in {"settling", "claiming"} /\ Others(a)
    BY <1>3, <1>a, <1>c, AppendGoes DEF AppendEnters, Ends
  <2>. QED BY <1>1, <1>3, <2>1 DEF AppendEnters, thread
<1>4. CASE AppendSettles(a)
  <2>1. append'[a].pc = "idle" /\ Others(a)
    BY <1>4, <1>a, IdleType, AppendReplaced DEF AppendSettles, Others
  <2>. QED BY <1>1, <1>4, <2>1 DEF AppendSettles, thread
<1>5. AppendStep(a) => AppendEnters(a) \/ AppendSettles(a)
  BY <1>b DEF AppendStep, AppendClaims, AppendChecks, AppendWrites, AppendRecords, AppendReleases
<1>6. ~AppendThrows(a) /\ ~AppendReleaseLost(a) /\ ~AppendRenews(a)
  BY <1>b DEF AppendThrows, AppendReleaseLost, AppendRenews
<1>. QED BY <1>2, <1>3, <1>4, <1>5, <1>6, Zenon

\* A claim runs out when nobody renews it: then nobody has it.
LEMMA ExpiriesKeep ==
    ASSUME TypeInv, TypeInv', Excl, LeaseExpires \/ WriteExpires
    PROVE  Excl'
<1>a. UNCHANGED <<turn, append, owed, arrived, calledOff, cleared, torn, channel>>
  BY DEF LeaseExpires, WriteExpires, jobs, resets
<1>b. \A t \in Turns : Onward(t)
  BY <1>a, TurnUnmoved
<1>c. \A a \in Appends : AppendOnward(a)
  BY <1>a, AppendUnmoved DEF Excl
<1>d. JobsCalm
  BY <1>a, JobsUnmoved
<1>e. \/ threadRow' = [threadRow EXCEPT !.lease = FALSE]
      \/ threadRow' = [threadRow EXCEPT !.write = FALSE]
  BY DEF LeaseExpires, WriteExpires
<1>f. /\ threadRow'.exists = threadRow.exists /\ threadRow'.holders = threadRow.holders
      /\ threadRow'.epoch = threadRow.epoch /\ threadRow'.occ = threadRow.occ
      /\ threadRow'.recorded = threadRow.recorded /\ threadRow'.conv = threadRow.conv
      /\ threadRow'.token = threadRow.token
  BY <1>e DEF TypeInv, ThreadInv, RowType
<1>1. ContentInv' /\ ClearInv'
  <2>1. ContentInv'
    BY <1>a, <1>f, ContentKept DEF Excl
  <2>2. Divider \in cleared => threadRow'.conv # "old"
    BY <1>f DEF Excl, ClearInv, WritesClear
  <2>3. ClearInv'
    BY <1>a, <1>b, <1>d, <2>2, ClearKept DEF Excl, Onward, Same
  <2>. QED BY <2>1, <2>3
<1>2. CASE LeaseExpires
  <2>1. \A t \in Turns : ~Held(t)
    BY <1>2, HeldRenews DEF Excl, LeaseExpires, RenewedByTurn
  <2>2. \A t \in Turns : ~Held(t)'
    BY <1>a, <2>1 DEF Held, Holding
  <2>3. HoldersInv'
    BY <2>2, NobodyHolds
  <2>4. threadRow'.write = threadRow.write
    BY <1>2 DEF LeaseExpires, TypeInv, ThreadInv, RowType
  <2>5. WriterInv'
    BY <1>a, <1>f, <2>2, <2>4 DEF Excl, WriterInv, Working
  <2>. QED BY <1>1, <2>3, <2>5 DEF Excl
<1>3. CASE WriteExpires
  <2>1. \A a \in Appends : ~Working(a)
    BY <1>3 DEF WriteExpires, RenewedByAppend, Excl, WriterInv
  <2>2. WriterInv'
    BY <1>a, <2>1 DEF WriterInv, Working
  <2>3. threadRow'.lease = threadRow.lease
    BY <1>3 DEF WriteExpires, TypeInv, ThreadInv, RowType
  <2>4. HoldersInv'
    BY <1>b, <1>f, <2>3, HoldersKept DEF Excl, Onward, HoldOn
  <2>. QED BY <1>1, <2>2, <2>4 DEF Excl
<1>. QED BY <1>2, <1>3

\* From its check to its commit a /reset keeps everybody out of the thread.
LEMMA NextLock ==
    ASSUME TypeInv, Excl, LockInv, [Next]_vars, slow' = 0
    PROVE  LockInv'
<1>. SUFFICES ASSUME NEW r \in Resets, reset'[r].pc = "commit"
              PROVE  /\ \A t \in Turns : ~Held(t)'
                     /\ \A a \in Appends : ~Working(a)'
                     /\ channel' = {}
                     /\ reset'[r].revoked \subseteq arrived'
                     /\ (owed' \ reset'[r].revoked) \cap torn' = {}
  BY DEF LockInv
<1>a. reset \in [Resets -> ResetType] /\ JobsInv
  BY DEF TypeInv, ResetsInv
<1>b. Written(torn)
  BY DEF Excl, ClearInv
<1>. DEFINE Kept == /\ \A t \in Turns : ~Held(t)'
                    /\ \A a \in Appends : ~Working(a)'
                    /\ channel' = {}
                    /\ reset'[r].revoked \subseteq arrived'
                    /\ (owed' \ reset'[r].revoked) \cap torn' = {}
<1>1. ASSUME reset'[r] = reset[r],
             RowLocked => /\ channel' = channel /\ torn' \subseteq torn /\ arrived \subseteq arrived'
                          /\ \A m \in owed' : m \in owed \/ m \in Msgs \ arrived
                          /\ (\A t \in Turns : ~Held(t)) => (\A t \in Turns : ~Held(t)')
                          /\ (\A a \in Appends : ~Working(a)) => (\A a \in Appends : ~Working(a)')
      PROVE  Kept
  <2>1. /\ RowLocked /\ \A t \in Turns : ~Held(t)
        /\ \A a \in Appends : ~Working(a)
        /\ channel = {} /\ reset[r].revoked \subseteq arrived
        /\ (owed \ reset[r].revoked) \cap torn = {}
    BY <1>1 DEF LockInv, RowLocked
  <2>2. (owed' \ reset[r].revoked) \cap torn' = {}
    BY <1>1, <1>b, <2>1 DEF Written
  <2>. QED BY <1>1, <2>1, <2>2
<1>2. ASSUME NEW t \in Turns,
             \/ \E p \in Procs : TurnStarts(t, p)
             \/ TurnStep(t) \/ TurnThrows(t) \/ TurnClaimThrows(t)
             \/ TurnReleaseLost(t) \/ TurnRenews(t)
      PROVE Kept
  <2>1. UNCHANGED resets
    BY <1>2 DEF TurnStep, TurnStarts, TurnEnters, TurnClaims, TurnAsksAgain, TurnWritesDivider,
              TurnStampsRow, TurnLoads, TurnSaves, TurnUnmarks, TurnReleases, TurnThrows,
              TurnClaimThrows, TurnReleaseLost, TurnRenews
  <2>2. RowLocked /\ (\A u \in Turns : ~Held(u))
    BY <2>1 DEF resets, LockInv, RowLocked
  <2>3. channel' = channel /\ (\A u \in Turns : ~Held(u)') /\ UNCHANGED <<append, owed, arrived, resets>>
    BY <1>2, <2>2, LockedTurns
  <2>. QED BY <1>1, <2>3 DEF resets, Working
<1>3. ASSUME NEW a \in Appends,
             \/ \E p \in Procs, m \in Msgs : AppendStarts(a, p, m)
             \/ AppendStep(a) \/ AppendThrows(a) \/ AppendReleaseLost(a) \/ AppendRenews(a)
      PROVE Kept
  <2>1. UNCHANGED resets
    BY <1>3 DEF AppendStep, AppendStarts, AppendEnters, AppendClaims, AppendChecks, AppendWrites,
              AppendRecords, AppendReleases, AppendSettles, AppendThrows, AppendReleaseLost,
              AppendRenews
  <2>2. RowLocked /\ (\A b \in Appends : ~Working(b))
    BY <2>1 DEF resets, LockInv, RowLocked
  <2>3. /\ UNCHANGED <<channel, turn, arrived, resets>> /\ owed' \subseteq owed
        /\ \A b \in Appends : ~Working(b)'
    BY <1>3, <2>2, LockedAppends
  <2>. QED BY <1>1, <2>3 DEF resets, Held, Holding
<1>4. ASSUME NEW m \in Msgs, Arrives(m) PROVE Kept
  <2>1. /\ m \notin arrived /\ arrived' = arrived \cup {m} /\ owed' = owed \cup {m}
        /\ UNCHANGED <<channel, reset, torn, turn, append>>
    BY <1>4 DEF Arrives, thread, resets
  <2>. QED BY <1>1, <2>1 DEF Held, Holding, Working
<1>5. ASSUME NEW q \in Resets, NEW p \in Procs, ResetRetires(q, p) PROVE Kept
  <2>1. /\ reset' = [reset EXCEPT ![q].pc = "queued", ![q].proc = p]
        /\ UNCHANGED <<channel, owed, arrived, torn, turn, append>>
    BY <1>5 DEF ResetRetires, thread, jobs
  <2>2. r # q
    BY <1>a, <2>1 DEF ResetType
  <2>. QED BY <1>1, <1>a, <2>1, <2>2 DEF Held, Holding, Working, JobsInv
<1>6. ASSUME NEW q \in Resets, ResetErases(q) PROVE Kept
  <2>1. /\ UNCHANGED <<owed, arrived, append, turn>> /\ reset[q].pc = "queued" /\ ~RowLocked
        /\ \/ reset' = [reset EXCEPT ![q].pc = "done", ![q].revoked = {}]
           \/ /\ ~BusyForReset(reset[q].proc)
              /\ reset' = [reset EXCEPT ![q].pc = "commit", ![q].revoked = owed]
              /\ channel' = {} /\ torn' = torn \cup channel
    BY <1>6, Zenon DEF ResetErases, ResetEnds, jobs
  <2>2. reset[r].pc # "commit"
    BY <2>1 DEF RowLocked
  <2>3. r = q /\ ~BusyForReset(reset[q].proc) /\ reset'[r].revoked = owed /\ channel' = {}
    BY <1>a, <2>1, <2>2 DEF ResetType
  <2>4. \A t \in Turns : ~Held(t)
    BY <2>3, HeldRenews DEF Excl, BusyForReset
  <2>5. \A a \in Appends : ~Working(a)
    BY <2>3 DEF BusyForReset, Excl, WriterInv
  <2>. QED BY <1>a, <2>1, <2>3, <2>4, <2>5 DEF Held, Holding, Working, JobsInv
<1>7. ASSUME NEW q \in Resets, ResetCommits(q) PROVE Kept
  <2>1. /\ reset' = [reset EXCEPT ![q].pc = "done", ![q].revoked = {}]
        /\ owed' = owed \ reset[q].revoked /\ torn' = {}
        /\ UNCHANGED <<channel, turn, append, arrived>>
    BY <1>7, Zenon DEF ResetCommits, ResetEnds
  <2>2. r # q
    BY <1>a, <2>1 DEF ResetType
  <2>. QED BY <1>1, <1>a, <2>1, <2>2 DEF Held, Holding, Working
<1>8. ASSUME NEW q \in Resets, ResetThrows(q) PROVE Kept
  <2>1. /\ reset' = [reset EXCEPT ![q].pc = "done", ![q].revoked = {}]
        /\ UNCHANGED <<channel, turn, append, arrived, owed, torn>>
    BY <1>8 DEF ResetThrows, ResetEnds, thread, jobs
  <2>2. r # q
    BY <1>a, <2>1 DEF ResetType
  <2>. QED BY <1>1, <1>a, <2>1, <2>2 DEF Held, Holding, Working, JobsInv
<1>9. ASSUME NEW p \in Procs, Crash(p) PROVE Kept
  <2>1. /\ \A t \in Turns : turn'[t] = turn[t] \/ (turn'[t].pc = "done" /\ turn[t].pc # "idle")
        /\ \A a \in Appends : append'[a] = append[a] \/ append'[a].pc = "idle"
    BY <1>9, CrashDoes
  <2>2. /\ UNCHANGED <<channel, owed, arrived, torn>>
        /\ reset' = [q \in Resets |-> IF reset[q].proc = p
                      THEN [reset[q] EXCEPT !.pc = "done", !.revoked = {}] ELSE reset[q]]
    BY <1>9 DEF Crash, thread
  <2>3. reset'[r] = reset[r]
    BY <1>a, <2>2 DEF ResetType
  <2>4. (\A t \in Turns : ~Held(t)) => (\A t \in Turns : ~Held(t)')
    BY <2>1 DEF Held, Holding
  <2>5. (\A a \in Appends : ~Working(a)) => (\A a \in Appends : ~Working(a)')
    BY <2>1 DEF Working
  <2>. QED BY <1>1, <1>a, <2>2, <2>3, <2>4, <2>5 DEF JobsInv
<1>10. ASSUME \/ UNCHANGED vars \/ LeaseExpires \/ WriteExpires \/ LeaseLapses \/ WriteLapses
       PROVE Kept
  <2>1. UNCHANGED <<channel, turn, append, arrived, owed, torn, reset>>
    BY <1>10 DEF vars, thread, jobs, resets, LeaseExpires, WriteExpires, LeaseLapses, WriteLapses
  <2>. QED BY <1>1, <1>a, <2>1 DEF Held, Holding, Working, JobsInv
<1>. HIDE DEF Kept
<1>11. ASSUME NEW q \in Resets, \/ \E p \in Procs : ResetRetires(q, p)
                                \/ ResetErases(q) \/ ResetCommits(q) \/ ResetThrows(q)
       PROVE Kept
  BY <1>5, <1>6, <1>7, <1>8, <1>11
<1>12. ASSUME Next PROVE Kept
  BY <1>2, <1>3, <1>4, <1>9, <1>10, <1>11, <1>12, Zenon DEF Next
<1>13. Kept
  BY <1>10, <1>12
<1>. QED BY <1>13 DEF Kept

\* The inductive invariant: while no holder has stalled, Excl and the lock of /reset.
IInv == TypeInv /\ (slow = 0 => Excl /\ LockInv)

LEMMA InitExcl == Init => Excl /\ LockInv
<1>. SUFFICES ASSUME Init PROVE Excl /\ LockInv
  OBVIOUS
<1>0. LockInv
  BY DEF Init, LockInv, IdleReset
<1>1. /\ \A t \in Turns : turn[t].pc = "idle"
      /\ \A a \in Appends : append[a].pc = "idle"
  BY IdleType DEF Init, IdleTurn
<1>2. threadRow.holders = 0 /\ threadRow.recorded = {}
  <2>1. NoRow.holders = 0 /\ NoRow.recorded = {}
    BY DEF NoRow
  <2>2. OldRow.holders = 0 /\ OldRow.recorded = {}
    BY <2>1, NoRowType DEF OldRow, RowType
  <2>. QED BY <2>1, <2>2 DEF Init
<1>3. HeldTurns = {}
  BY <1>1 DEF HeldTurns, Held, Holding
<1>4. HoldersInv
  <2>1. IsFiniteSet(HeldTurns) /\ Cardinality(HeldTurns) = 0
    BY <1>3, FS_EmptySet
  <2>. QED BY <1>2, <1>3, <2>1 DEF HoldersInv, HeldTurns
<1>5. WriterInv /\ ContentInv
  BY <1>1, <1>2 DEF WriterInv, ContentInv, Working, RememberedIsInThread
<1>6. ClearInv
  BY <1>1 DEF Init, ClearInv, ClearedStaysCleared, Written, NoneBack, InvokesClear, WritesClear
<1>. QED BY <1>0, <1>4, <1>5, <1>6 DEF Excl

LEMMA NextExcl ==
    ASSUME TypeInv, TypeInv', Excl, LockInv, [Next]_vars, slow' = 0
    PROVE  Excl'
<1>1. CASE Next
  <2>1. ASSUME NEW t \in Turns,
               \/ \E p \in Procs : TurnStarts(t, p)
               \/ TurnStep(t) \/ TurnThrows(t) \/ TurnClaimThrows(t)
               \/ TurnReleaseLost(t) \/ TurnRenews(t)
        PROVE Excl'
    BY <2>1, TurnStepsOnward, TurnClaimsKeeps, TurnSavesKeeps, TurnReleasesKeeps, Zenon DEF TurnStep
  <2>2. ASSUME NEW a \in Appends,
               \/ \E p \in Procs, m \in Msgs : AppendStarts(a, p, m)
               \/ AppendStep(a) \/ AppendThrows(a) \/ AppendReleaseLost(a) \/ AppendRenews(a)
        PROVE Excl'
    BY <2>2, AppendStepsOnward, AppendClaimsKeeps, AppendRecordsKeeps, AppendReleasesKeeps,
       Zenon DEF AppendStep
  <2>3. ASSUME NEW r \in Resets, ResetErases(r) \/ ResetCommits(r) PROVE Excl'
    BY <2>3, ResetErasesKeeps, ResetCommitsKeeps
  <2>4. CASE LeaseLapses \/ WriteLapses
    <3>1. slow' = slow + 1 /\ slow \in Nat
      BY <2>4, ConstantsAssumption DEF LeaseLapses, WriteLapses, Stall, TypeInv, BoundsInv
    <3>. QED BY <3>1
  <2>5. \/ \E t \in Turns : \/ \E p \in Procs : TurnStarts(t, p)
                            \/ TurnStep(t) \/ TurnThrows(t) \/ TurnClaimThrows(t)
                            \/ TurnReleaseLost(t) \/ TurnRenews(t)
        \/ \E m \in Msgs : Arrives(m)
        \/ \E a \in Appends : \/ \E p \in Procs, m \in Msgs : AppendStarts(a, p, m)
                              \/ AppendStep(a) \/ AppendThrows(a) \/ AppendReleaseLost(a)
                              \/ AppendRenews(a)
        \/ \E r \in Resets : ResetErases(r) \/ ResetCommits(r)
        \/ \E r \in Resets : ResetThrows(r) \/ \E p \in Procs : ResetRetires(r, p)
        \/ LeaseExpires \/ WriteExpires \/ LeaseLapses \/ WriteLapses
        \/ \E p \in Procs : Crash(p)
    BY <1>1, Zenon DEF Next
  <2>6. CASE \/ \E m \in Msgs : Arrives(m)
             \/ \E r \in Resets : ResetThrows(r) \/ \E p \in Procs : ResetRetires(r, p)
             \/ \E p \in Procs : Crash(p)
    BY <2>6, OutsideCalm, Zenon
  <2>7. CASE LeaseExpires \/ WriteExpires
    BY <2>7, ExpiriesKeep
  <2>. QED BY <2>1, <2>2, <2>3, <2>4, <2>5, <2>6, <2>7, Zenon
<1>2. CASE UNCHANGED vars
  BY <1>2, OutsideCalm
<1>. QED BY <1>1, <1>2

LEMMA SlowOnlyGrows == TypeInv /\ [Next]_vars /\ slow' = 0 => slow = 0
<1>. SUFFICES ASSUME TypeInv, [Next]_vars PROVE slow' = slow \/ slow' = slow + 1
  BY ConstantsAssumption DEF TypeInv, BoundsInv
<1>. USE DEF bounds, vars
<1>1. ASSUME NEW t \in Turns,
             \/ \E p \in Procs : TurnStarts(t, p)
             \/ TurnStep(t) \/ TurnThrows(t) \/ TurnClaimThrows(t)
             \/ TurnReleaseLost(t) \/ TurnRenews(t)
      PROVE slow' = slow
  BY <1>1 DEF TurnStep, TurnStarts, TurnEnters, TurnClaims, TurnAsksAgain, TurnWritesDivider,
              TurnStampsRow, TurnLoads, TurnSaves, TurnUnmarks, TurnReleases, TurnThrows,
              TurnClaimThrows, TurnReleaseLost, TurnRenews
<1>2. ASSUME NEW a \in Appends,
             \/ \E p \in Procs, m \in Msgs : AppendStarts(a, p, m)
             \/ AppendStep(a) \/ AppendThrows(a) \/ AppendReleaseLost(a) \/ AppendRenews(a)
      PROVE slow' = slow
  BY <1>2 DEF AppendStep, AppendStarts, AppendEnters, AppendClaims, AppendChecks, AppendWrites,
              AppendRecords, AppendReleases, AppendSettles, AppendThrows, AppendReleaseLost,
              AppendRenews
<1>3. ASSUME NEW r \in Resets, \/ \E p \in Procs : ResetRetires(r, p)
                               \/ ResetErases(r) \/ ResetCommits(r) \/ ResetThrows(r)
      PROVE slow' = slow
  BY <1>3 DEF ResetErases, ResetCommits, ResetThrows, ResetRetires
<1>4. CASE LeaseExpires \/ WriteExpires \/ LeaseLapses \/ WriteLapses
  BY <1>4 DEF LeaseExpires, WriteExpires, LeaseLapses, WriteLapses, Stall
<1>5. ASSUME NEW p \in Procs, Crash(p) PROVE slow' = slow
  BY <1>5 DEF Crash
<1>6. ASSUME NEW m \in Msgs, Arrives(m) PROVE slow' = slow
  BY <1>6 DEF Arrives
<1>7. CASE UNCHANGED vars
  BY <1>7
<1>. HIDE DEF bounds, vars
<1>. QED BY <1>1, <1>2, <1>3, <1>4, <1>5, <1>6, <1>7, Zenon DEF Next

\* The inductive invariant of the two claims (thread-claim.ts, the two leases): it holds
\* for as long as no holder has stalled past its own lease.
THEOREM ExclusionInvariant == Spec => []IInv
<1>1. Init => IInv
  BY InitType, InitExcl DEF IInv
<1>2. IInv /\ [Next]_vars => IInv'
  BY NextTypes, NextExcl, NextLock, SlowOnlyGrows DEF IInv
<1>. QED BY <1>1, <1>2, PTL DEF Spec

\* Until a holder stalls past its lease, no append of any process is at work while a
\* turn of any process holds the thread (thread-claim.ts, WHY THE WRITE CLAIM).
THEOREM AppendsExcluded == Spec => [](slow = 0 => AppendExcludesInvoke)
<1>1. IInv => (slow = 0 => AppendExcludesInvoke)
  BY DEF IInv, Excl, WriterInv, Held, AppendExcludesInvoke
<1>. QED BY <1>1, ExclusionInvariant, PTL

\* Until a holder stalls past its lease, what the row remembers as ingested is in the
\* thread (ingest.ts: recorded only after the append; no save erases it).
THEOREM RememberedStays == Spec => [](slow = 0 => RememberedIsInThread)
<1>1. IInv => (slow = 0 => RememberedIsInThread)
  BY DEF IInv, Excl, ContentInv
<1>. QED BY <1>1, ExclusionInvariant, PTL

\* Until a holder stalls past its lease, what a /reset reported as cleared stays cleared
\* (webhook.ts, handleResetCommand: nothing owed or called off before it writes after).
THEOREM ClearedStays == Spec => [](slow = 0 => ClearedStaysCleared)
<1>1. IInv => (slow = 0 => ClearedStaysCleared)
  BY DEF IInv, Excl, ClearInv
<1>. QED BY <1>1, ExclusionInvariant, PTL

\* Where no holder stalls, a late release ends a hold only of the occupancy its turn
\* joined, in any number of processes (clearTurnOwning matches the epoch it was given).
THEOREM ReleasesTheirOwn == ASSUME MaxSlow = 0 PROVE Spec => ReleaseEndsItsOwnOccupancy
<1>1. IInv /\ [Next]_vars => [OnlyItsOwnHold]_vars
  <2>. SUFFICES ASSUME IInv, NEW t \in Turns, turn[t].pc = "decrementing"
                PROVE  turn[t].occ = threadRow.occ
    BY DEF OnlyItsOwnHold
  <2>1. slow = 0
    BY DEF IInv, TypeInv, BoundsInv
  <2>. QED BY <2>1 DEF IInv, Excl, HoldersInv, Held
<1>. QED BY <1>1, ExclusionInvariant, PTL DEF Spec, ReleaseEndsItsOwnOccupancy

----------------------------------------------------------------------------
(* One stall, and no /reset.  Whoever stalls, the turn that returns late is *)
(* told apart: a lapsed write claim lets a turn in beside the append, but   *)
(* the row is then held and its late release keeps it (HoldersInv); a       *)
(* lapsed turn lease lets a new occupancy begin under the turn, one epoch   *)
(* on, and no append that made the row works beside a turn, so none deletes *)
(* it and starts the epochs again (Epochs).                                 *)

EpochInv ==
    \A t \in Turns : Held(t) =>
        /\ threadRow.exists /\ turn[t].epoch <= threadRow.epoch
        /\ turn[t].epoch = threadRow.epoch => turn[t].occ = threadRow.occ
CreatorInv ==
    \A a \in Appends : Working(a) =>
        /\ threadRow.exists /\ threadRow.write /\ threadRow.token = a
        /\ append[a].created => \A t \in Turns : ~Held(t)
Epochs == EpochInv /\ CreatorInv

OwnInv == IInv /\ (HoldersInv \/ Epochs)

\* What most steps leave of the holds, the row and the appends at work.
HoldKept(t) ==
    /\ Held(t)' => Held(t) /\ turn'[t].epoch = turn[t].epoch /\ turn'[t].occ = turn[t].occ
    /\ Holding(t)' => Holding(t) /\ (turn[t].timer /\ Renews(t) => turn'[t].timer)
RowKept ==
    /\ threadRow.exists => threadRow'.exists
    /\ threadRow.lease => threadRow'.lease
    /\ threadRow.write => threadRow'.write
    /\ threadRow'.epoch = threadRow.epoch /\ threadRow'.occ = threadRow.occ
    /\ threadRow'.holders = threadRow.holders /\ threadRow'.token = threadRow.token
WorkKept(a) == Working(a)' => Working(a) /\ append'[a].created = append[a].created
Kept == /\ \A t \in Turns : HoldKept(t)
        /\ RowKept
        /\ \A a \in Appends : WorkKept(a)

LEMMA KeptHolders == TypeInv /\ TypeInv' /\ HoldersInv /\ Kept => HoldersInv'
<1>. SUFFICES ASSUME TypeInv, TypeInv', HoldersInv, Kept PROVE HoldersInv'
  OBVIOUS
<1>1. ASSUME NEW t \in Turns, Holding(t)' PROVE turn'[t].timer
  <2>1. Holding(t) /\ Held(t)
    BY <1>1 DEF Kept, HoldKept, Held
  <2>. QED BY <1>1, <2>1, HeldRenews DEF Kept, HoldKept, HoldersInv
<1>. QED BY <1>1, HoldersKept DEF Kept, HoldKept, RowKept

\* Epochs needs less: the lease and the count may change.
LEMMA EpochsKept ==
    ASSUME Epochs,
           \A t \in Turns : Held(t)' => Held(t) /\ turn'[t].epoch = turn[t].epoch
                                       /\ turn'[t].occ = turn[t].occ,
           \A a \in Appends : WorkKept(a),
           threadRow.exists => threadRow'.exists, threadRow.write => threadRow'.write,
           threadRow'.epoch = threadRow.epoch, threadRow'.occ = threadRow.occ,
           threadRow'.token = threadRow.token
    PROVE  Epochs'
<1>1. EpochInv'
  BY DEF Epochs, EpochInv
<1>2. CreatorInv'
  BY DEF Epochs, CreatorInv, WorkKept
<1>. QED BY <1>1, <1>2 DEF Epochs

LEMMA KeptEpochs == Epochs /\ Kept => Epochs'
  BY EpochsKept DEF Kept, HoldKept, RowKept

\* A turn moves alone and leaves the row be, or an append does.
LEMMA TurnAlone ==
    ASSUME NEW t \in Turns, \A u \in Turns : u # t => turn'[u] = turn[u],
           HoldKept(t), RowKept, UNCHANGED append
    PROVE  Kept
<1>1. ASSUME NEW u \in Turns, u # t PROVE HoldKept(u)
  BY <1>1 DEF HoldKept, Held, Holding
<1>2. \A a \in Appends : WorkKept(a)
  BY DEF WorkKept, Working
<1>. QED BY <1>1, <1>2 DEF Kept

LEMMA AppendAlone ==
    ASSUME NEW a \in Appends, Others(a), WorkKept(a), RowKept, UNCHANGED turn
    PROVE  Kept
<1>1. \A t \in Turns : HoldKept(t)
  BY DEF HoldKept, Held, Holding
<1>2. ASSUME NEW b \in Appends, b # a PROVE WorkKept(b)
  BY <1>2 DEF Others, WorkKept, Working
<1>. QED BY <1>1, <1>2 DEF Kept

LEMMA RowStays == UNCHANGED threadRow => RowKept
  BY DEF RowKept

LEMMA TurnStepsKept ==
    ASSUME TypeInv, NEW t \in Turns,
           \/ \E p \in Procs : TurnStarts(t, p)
           \/ TurnEnters(t) \/ TurnAsksAgain(t) \/ TurnWritesDivider(t) \/ TurnStampsRow(t)
           \/ TurnLoads(t) \/ TurnSaves(t) \/ TurnThrows(t) \/ TurnUnmarks(t)
           \/ TurnClaimThrows(t) \/ TurnReleaseLost(t) \/ TurnRenews(t)
    PROVE  Kept
<1>. DEFINE Alone == \A u \in Turns : u # t => turn'[u] = turn[u]
<1>a. TurnsInv /\ ThreadInv
  BY DEF TypeInv
<1>b. {"releasing", "marking", "loading", "invoking", "decrementing"} \subseteq TurnPcs
  BY DEF TurnPcs
<1>1. ASSUME NEW p \in Procs, TurnStarts(t, p) PROVE Kept
  <2>1. turn'[t].pc = "queued" /\ Alone /\ UNCHANGED <<threadRow, append>>
    BY <1>1, <1>a, TurnStartsDoes DEF TurnStarts, thread, jobs
  <2>2. HoldKept(t)
    BY <2>1 DEF HoldKept, Held, Holding
  <2>. QED BY <2>1, <2>2, TurnAlone, RowStays
<1>2. CASE TurnEnters(t)
  <2>1. turn'[t].pc \in {"done", "claiming"} /\ Alone /\ UNCHANGED <<threadRow, append>>
    BY <1>2, <1>a, TurnEntersDoes DEF TurnEnters, thread, jobs
  <2>2. HoldKept(t)
    BY <2>1 DEF HoldKept, Held, Holding
  <2>. QED BY <2>1, <2>2, TurnAlone, RowStays
<1>3. ASSUME Holding(t), NEW pc \in TurnPcs, Goes(t, pc), UNCHANGED append, RowKept PROVE Kept
  <2>1. /\ turn'[t].epoch = turn[t].epoch /\ turn'[t].occ = turn[t].occ
        /\ turn'[t].timer = turn[t].timer /\ Alone
    BY <1>3, <1>a, TurnGoes
  <2>2. HoldKept(t)
    BY <1>3, <2>1 DEF HoldKept, Held
  <2>. QED BY <1>3, <2>1, <2>2, TurnAlone
<1>4. CASE TurnAsksAgain(t)
  <2>1. /\ turn[t].pc = "claimed" /\ UNCHANGED <<thread, jobs>>
        /\ Goes(t, "releasing") \/ Goes(t, "marking")
    BY <1>4, Zenon DEF TurnAsksAgain
  <2>2. UNCHANGED <<threadRow, append>>
    BY <2>1 DEF thread, jobs
  <2>. QED BY <1>b, <1>3, <2>1, <2>2, RowStays DEF Holding
<1>5. CASE TurnWritesDivider(t)
  <2>1. /\ turn[t].pc = "marking" /\ Alone
        /\ turn'[t].timer = turn[t].timer
        /\ turn'[t].epoch = turn[t].epoch /\ turn'[t].occ = turn[t].occ
    BY <1>5, <1>a, TurnWritesDividerDoes
  <2>2. UNCHANGED <<threadRow, append>>
    BY <1>5 DEF TurnWritesDivider, jobs
  <2>3. HoldKept(t)
    BY <2>1 DEF HoldKept, Held, Holding
  <2>. QED BY <2>1, <2>2, <2>3, TurnAlone, RowStays
<1>6. CASE TurnStampsRow(t)
  <2>1. turn[t].pc = "stamping" /\ Goes(t, "loading") /\ UNCHANGED append
    BY <1>6 DEF TurnStampsRow, jobs
  <2>2. RowKept
    BY <1>6, <1>a DEF TurnStampsRow, RowKept, ThreadInv, RowType
  <2>. QED BY <1>b, <1>3, <2>1, <2>2 DEF Holding
<1>7. CASE TurnLoads(t)
  <2>1. /\ turn[t].pc = "loading" /\ turn'[t].timer = turn[t].timer
        /\ turn'[t].epoch = turn[t].epoch /\ turn'[t].occ = turn[t].occ /\ Alone
    BY <1>7, <1>a, TurnLoadsDoes
  <2>2. UNCHANGED <<threadRow, append>>
    BY <1>7 DEF TurnLoads, thread, jobs
  <2>3. HoldKept(t)
    BY <2>1 DEF HoldKept, Held, Holding
  <2>. QED BY <2>1, <2>2, <2>3, TurnAlone, RowStays
<1>8. CASE TurnSaves(t)
  <2>1. /\ turn[t].pc = "invoking" /\ UNCHANGED <<threadRow, append>>
        /\ \E pc \in {"invoking", "releasing"} : Goes(t, pc)
    BY <1>8 DEF TurnSaves, jobs
  <2>. QED BY <1>b, <1>3, <2>1, RowStays DEF Holding
<1>9. CASE TurnThrows(t)
  <2>1. Holding(t) /\ Goes(t, "releasing") /\ UNCHANGED <<threadRow, append>>
    BY <1>9 DEF TurnThrows, Holding, thread, jobs
  <2>. QED BY <1>b, <1>3, <2>1, RowStays
<1>10. CASE TurnUnmarks(t)
  <2>1. /\ turn[t].pc = "releasing" /\ UNCHANGED <<threadRow, append>>
        /\ turn' = [turn EXCEPT ![t].pc = "decrementing", ![t].timer = FALSE]
    BY <1>10 DEF TurnUnmarks, thread, jobs
  <2>2. /\ turn'[t].pc = "decrementing" /\ turn'[t].epoch = turn[t].epoch
        /\ turn'[t].occ = turn[t].occ /\ Alone
    BY <2>1, <1>a, <1>b, TimerStops
  <2>3. HoldKept(t)
    BY <2>1, <2>2 DEF HoldKept, Held, Holding
  <2>. QED BY <2>1, <2>2, <2>3, TurnAlone, RowStays
<1>11. CASE TurnClaimThrows(t) \/ TurnReleaseLost(t)
  <2>1. Finishes(t) /\ UNCHANGED <<threadRow, append>>
    BY <1>11 DEF TurnClaimThrows, TurnReleaseLost, thread, jobs
  <2>2. turn'[t].pc = "done" /\ Alone
    BY <2>1, <1>a, TurnFinishes
  <2>3. HoldKept(t)
    BY <2>2 DEF HoldKept, Held, Holding
  <2>. QED BY <2>1, <2>2, <2>3, TurnAlone, RowStays
<1>12. CASE TurnRenews(t)
  <2>a. UNCHANGED append
    BY <1>12 DEF TurnRenews, jobs
  <2>1. CASE UNCHANGED turn /\ threadRow' = [threadRow EXCEPT !.lease = TRUE]
    <3>1. RowKept
      BY <2>1, <1>a DEF RowKept, ThreadInv, RowType
    <3>2. HoldKept(t)
      BY <2>1 DEF HoldKept, Held, Holding
    <3>. QED BY <2>a, <2>1, <3>1, <3>2, TurnAlone
  <2>2. CASE ~Renews(t) /\ turn'[t].pc = turn[t].pc /\ turn'[t].snap = turn[t].snap
             /\ turn'[t].epoch = turn[t].epoch /\ turn'[t].occ = turn[t].occ
             /\ Alone /\ UNCHANGED threadRow
    <3>1. HoldKept(t)
      BY <2>2 DEF HoldKept, Held, Holding
    <3>. QED BY <2>a, <2>2, <3>1, TurnAlone, RowStays
  <2>. QED BY <1>12, <2>1, <2>2, <1>a, TurnRenewsDoes
<1>. QED
  BY <1>1, <1>2, <1>4, <1>5, <1>6, <1>7, <1>8, <1>9, <1>10, <1>11, <1>12, Zenon

LEMMA AppendStepsKept ==
    ASSUME TypeInv, NEW a \in Appends,
           \/ \E p \in Procs, m \in Msgs : AppendStarts(a, p, m)
           \/ AppendEnters(a) \/ AppendChecks(a) \/ AppendWrites(a) \/ AppendRecords(a)
           \/ AppendThrows(a) \/ AppendReleaseLost(a) \/ AppendSettles(a) \/ AppendRenews(a)
    PROVE  Kept
<1>a. AppendsInv /\ ThreadInv
  BY DEF TypeInv
<1>b. {"settling", "releasing", "claiming", "recording"} \subseteq AppendPcs
  BY DEF AppendPcs
<1>c. append[a].outcome \in {"done", "later"}
  BY <1>a DEF AppendsInv, AppendType
<1>1. ASSUME append'[a].pc \in {"idle", "queued", "claiming", "settling"}, Others(a),
             UNCHANGED <<thread, turn>>
      PROVE  Kept
  <2>1. WorkKept(a)
    BY <1>1 DEF WorkKept, Working
  <2>. QED BY <1>1, <2>1, AppendAlone, RowStays DEF thread
<1>2. ASSUME NEW p \in Procs, NEW m \in Msgs, AppendStarts(a, p, m) PROVE Kept
  <2>1. append'[a].pc = "queued" /\ Others(a)
    BY <1>2, <1>a, AppendStartsDoes
  <2>. QED BY <1>1, <1>2, <2>1 DEF AppendStarts
<1>3. CASE AppendEnters(a)
  <2>1. /\ UNCHANGED <<thread, turn>>
        /\ Ends(a, "done") \/ append' = [append EXCEPT ![a].pc = "claiming"]
    BY <1>3 DEF AppendEnters
  <2>2. append'[a].pc \in {"settling", "claiming"} /\ Others(a)
    BY <2>1, <1>a, <1>b, AppendGoes DEF Ends
  <2>. QED BY <1>1, <2>1, <2>2
<1>4. CASE AppendReleaseLost(a)
  <2>1. Ends(a, append[a].outcome) /\ UNCHANGED <<thread, turn>>
    BY <1>4 DEF AppendReleaseLost
  <2>2. append'[a].pc = "settling" /\ Others(a)
    BY <2>1, <1>a, <1>b, <1>c, AppendGoes DEF Ends
  <2>. QED BY <1>1, <2>1, <2>2
<1>5. CASE AppendSettles(a)
  <2>1. append' = [append EXCEPT ![a] = IdleAppend] /\ UNCHANGED <<thread, turn>>
    BY <1>5 DEF AppendSettles
  <2>2. append'[a].pc = "idle" /\ Others(a)
    BY <2>1, <1>a, IdleType, AppendReplaced DEF Others
  <2>. QED BY <1>1, <2>1, <2>2
<1>6. ASSUME Working(a), append'[a].created = append[a].created, Others(a), RowKept, UNCHANGED turn
      PROVE  Kept
  BY <1>6, AppendAlone DEF WorkKept
<1>7. CASE AppendChecks(a)
  <2>1. append[a].pc = "checking" /\ Others(a) /\ append'[a].created = append[a].created
    BY <1>7, AppendChecksDoes
  <2>2. UNCHANGED <<thread, turn>>
    BY <1>7 DEF AppendChecks
  <2>. QED BY <1>6, <2>1, <2>2, RowStays DEF Working, thread
<1>8. CASE AppendWrites(a)
  <2>1. /\ append[a].pc = "writing" /\ append' = [append EXCEPT ![a].pc = "recording"]
        /\ UNCHANGED <<threadRow, turn>>
    BY <1>8 DEF AppendWrites
  <2>2. Others(a) /\ append'[a].created = append[a].created
    BY <2>1, <1>a, <1>b, AppendGoes
  <2>. QED BY <1>6, <2>1, <2>2, RowStays DEF Working
<1>9. CASE AppendRecords(a)
  <2>1. /\ append[a].pc = "recording" /\ Others(a) /\ append'[a].created = append[a].created
        /\ RowKept
    BY <1>9, AppendRecordsDoes DEF RowKept
  <2>2. UNCHANGED turn
    BY <1>9 DEF AppendRecords
  <2>. QED BY <1>6, <2>1, <2>2 DEF Working
<1>10. CASE AppendThrows(a)
  <2>1. /\ append[a].pc \in {"checking", "writing", "recording"}
        /\ append' = [append EXCEPT ![a].pc = "releasing", ![a].outcome = "later"]
        /\ UNCHANGED <<thread, turn>>
    BY <1>10 DEF AppendThrows
  <2>2. Others(a) /\ append'[a].created = append[a].created
    BY <2>1, <1>a, <1>b, AppendGoes
  <2>. QED BY <1>6, <2>1, <2>2, RowStays DEF Working, thread
<1>11. CASE AppendRenews(a)
  <2>1. /\ Working(a) /\ threadRow' = [threadRow EXCEPT !.write = TRUE]
        /\ UNCHANGED <<append, turn>>
    BY <1>11 DEF AppendRenews, jobs
  <2>2. RowKept /\ Others(a)
    BY <2>1, <1>a DEF RowKept, ThreadInv, RowType, Others
  <2>. QED BY <1>6, <2>1, <2>2
<1>. QED BY <1>2, <1>3, <1>4, <1>5, <1>7, <1>8, <1>9, <1>10, <1>11, Zenon

LEMMA OutsideKept ==
    ASSUME TypeInv,
           \/ \E m \in Msgs : Arrives(m)
           \/ \E r \in Resets, p \in Procs : ResetRetires(r, p)
           \/ \E p \in Procs : Crash(p)
           \/ UNCHANGED vars
    PROVE  Kept
<1>1. ASSUME UNCHANGED <<threadRow, turn, append>> PROVE Kept
  BY <1>1, RowStays DEF Kept, HoldKept, WorkKept, Held, Holding, Working
<1>2. ASSUME NEW p \in Procs, Crash(p) PROVE Kept
  <2>1. UNCHANGED threadRow
    BY <1>2 DEF Crash, thread
  <2>2. ASSUME NEW t \in Turns PROVE HoldKept(t)
    <3>1. turn'[t] = turn[t] \/ turn'[t].pc = "done"
      BY <1>2, CrashDoes
    <3>. QED BY <3>1 DEF HoldKept, Held, Holding
  <2>3. ASSUME NEW a \in Appends PROVE WorkKept(a)
    <3>1. append'[a] = append[a] \/ append'[a].pc = "idle"
      BY <1>2, CrashDoes
    <3>. QED BY <3>1 DEF WorkKept, Working
  <2>. QED BY <2>1, <2>2, <2>3, RowStays DEF Kept
<1>3. ASSUME NEW m \in Msgs, Arrives(m) PROVE Kept
  BY <1>1, <1>3 DEF Arrives, thread
<1>4. ASSUME NEW r \in Resets, NEW p \in Procs, ResetRetires(r, p) PROVE Kept
  BY <1>1, <1>4 DEF ResetRetires, thread, jobs
<1>5. CASE UNCHANGED vars
  BY <1>1, <1>5 DEF vars, thread, jobs
<1>. QED BY <1>2, <1>3, <1>4, <1>5

\* A new occupancy is one epoch on; nobody writes a thread that a turn takes.
LEMMA TurnClaimsEpochs ==
    ASSUME TypeInv, Epochs, NEW t \in Turns, TurnClaims(t)
    PROVE  Epochs'
<1>1. /\ turn[t].pc = "claiming" /\ turn'[t].epoch = threadRow'.epoch
      /\ turn'[t].occ = threadRow'.occ /\ \A u \in Turns : u # t => turn'[u] = turn[u]
  BY TurnClaimsDoes DEF TypeInv
<1>2. ~threadRow.write /\ threadRow' = RowHeld /\ UNCHANGED append
  BY DEF TurnClaims, jobs
<1>3. /\ threadRow'.exists /\ threadRow'.epoch \in Nat
      /\ threadRow'.epoch = (IF Fresh THEN threadRow.epoch + 1 ELSE threadRow.epoch)
      /\ ~Fresh => threadRow'.occ = threadRow.occ
  BY <1>2, RowHeldDoes DEF TypeInv, RowType
<1>4. ASSUME NEW u \in Turns, Held(u)'
      PROVE  /\ turn'[u].epoch <= threadRow'.epoch
             /\ turn'[u].epoch = threadRow'.epoch => turn'[u].occ = threadRow'.occ
  <2>1. CASE u = t
    BY <1>1, <1>3, <2>1
  <2>2. CASE u # t
    <3>1. Held(u) /\ turn'[u] = turn[u]
      BY <1>1, <1>4, <2>2 DEF Held, Holding
    <3>2. /\ turn[u].epoch <= threadRow.epoch
          /\ turn[u].epoch = threadRow.epoch => turn[u].occ = threadRow.occ
      BY <3>1 DEF Epochs, EpochInv
    <3>3. turn[u].epoch \in Nat /\ threadRow.epoch \in Nat
      BY DEF TypeInv, TurnsInv, TurnType, ThreadInv, RowType
    <3>. QED BY <1>3, <3>1, <3>2, <3>3
  <2>. QED BY <2>1, <2>2
<1>5. EpochInv'
  BY <1>3, <1>4 DEF EpochInv
<1>6. \A a \in Appends : ~Working(a)'
  BY <1>2 DEF Working, Epochs, CreatorInv
<1>7. CreatorInv'
  BY <1>6 DEF CreatorInv
<1>. QED BY <1>5, <1>7 DEF Epochs

LEMMA TurnReleasesEpochs ==
    ASSUME TypeInv, Epochs, NEW t \in Turns, TurnReleases(t)
    PROVE  Epochs'
<1>1. turn'[t].pc = "done" /\ \A u \in Turns : u # t => turn'[u] = turn[u]
  BY TurnFinishes DEF TurnReleases, TypeInv
<1>2. /\ threadRow' = RowGivenBack \/ threadRow' = threadRow
      /\ UNCHANGED append
  BY DEF TurnReleases, jobs
<1>3. /\ threadRow'.exists = threadRow.exists /\ threadRow'.write = threadRow.write
      /\ threadRow'.epoch = threadRow.epoch /\ threadRow'.occ = threadRow.occ
      /\ threadRow'.token = threadRow.token
  BY <1>2, RowGivenBackDoes DEF TypeInv
<1>4. ASSUME NEW u \in Turns, Held(u)'
      PROVE  Held(u) /\ turn'[u].epoch = turn[u].epoch /\ turn'[u].occ = turn[u].occ
  BY <1>1, <1>4 DEF Held, Holding
<1>5. \A a \in Appends : WorkKept(a)
  BY <1>2 DEF WorkKept, Working
<1>. QED BY <1>3, <1>4, <1>5, EpochsKept

\* The append that makes the row finds nobody in it.
LEMMA AppendClaimsOwn ==
    ASSUME TypeInv, TypeInv', NEW a \in Appends, AppendClaims(a)
    PROVE  (HoldersInv => HoldersInv') /\ (Epochs => Epochs')
<1>1. /\ append[a].pc = "claiming" /\ Others(a)
      /\ \/ /\ ~threadRow.exists \/ WriteFree
            /\ threadRow' = [threadRow EXCEPT !.exists = TRUE, !.write = TRUE, !.token = a]
            /\ append'[a].created = ~threadRow.exists
         \/ append'[a].pc = "settling" /\ UNCHANGED threadRow
  BY AppendClaimsDoes
<1>2. UNCHANGED turn
  BY DEF AppendClaims
<1>3. CASE append'[a].pc = "settling" /\ UNCHANGED threadRow
  <2>1. WorkKept(a)
    BY <1>3 DEF WorkKept, Working
  <2>2. Kept
    BY <1>1, <1>2, <1>3, <2>1, AppendAlone, RowStays
  <2>. QED BY <2>2, KeptHolders, KeptEpochs
<1>4. CASE /\ ~threadRow.exists \/ WriteFree
           /\ threadRow' = [threadRow EXCEPT !.exists = TRUE, !.write = TRUE, !.token = a]
           /\ append'[a].created = ~threadRow.exists
  <2>1. /\ threadRow'.exists /\ threadRow'.write /\ threadRow'.token = a
        /\ threadRow'.lease = threadRow.lease /\ threadRow'.holders = threadRow.holders
        /\ threadRow'.epoch = threadRow.epoch /\ threadRow'.occ = threadRow.occ
    BY <1>4 DEF TypeInv, ThreadInv, RowType
  <2>2. \A t \in Turns : /\ Held(t)' = Held(t) /\ Holding(t)' = Holding(t)
                         /\ turn'[t].epoch = turn[t].epoch /\ turn'[t].occ = turn[t].occ
    BY <1>2 DEF Held, Holding
  <2>3. HoldersInv => HoldersInv'
    <3>. SUFFICES ASSUME HoldersInv PROVE HoldersInv'
      OBVIOUS
    <3>1. \A t \in Turns : Holding(t)' => turn'[t].timer
      BY <1>2, <2>2 DEF HoldersInv, Held
    <3>. QED BY <2>1, <2>2, <3>1, HoldersKept
  <2>4. Epochs => Epochs'
    <3>. SUFFICES ASSUME Epochs PROVE Epochs'
      OBVIOUS
    <3>1. EpochInv'
      BY <2>1, <2>2 DEF Epochs, EpochInv
    <3>2. ASSUME NEW b \in Appends, Working(b)' PROVE b = a
      <4>1. \A c \in Appends : ~Working(c)
        BY <1>4 DEF Epochs, CreatorInv, WriteFree
      <4>. QED BY <1>1, <3>2, <4>1 DEF Others, Working
    <3>3. append'[a].created => \A t \in Turns : ~Held(t)'
      BY <1>4, <2>2 DEF Epochs, EpochInv
    <3>4. CreatorInv'
      BY <2>1, <3>2, <3>3 DEF CreatorInv
    <3>. QED BY <3>1, <3>4 DEF Epochs
  <2>. QED BY <2>3, <2>4
<1>. QED BY <1>1, <1>3, <1>4

\* A row is deleted only with nobody in it: none is counted, or its maker is alone.
LEMMA AppendReleasesOwn ==
    ASSUME TypeInv, TypeInv', NEW a \in Appends, AppendReleases(a)
    PROVE  (HoldersInv => HoldersInv') /\ (Epochs => Epochs')
<1>1. /\ append[a].pc = "releasing" /\ threadRow' = RowAfterRelease(a)
      /\ Ends(a, append[a].outcome) /\ UNCHANGED turn
  BY DEF AppendReleases
<1>2. append'[a].pc = "settling" /\ Others(a)
  <2>1. "settling" \in AppendPcs /\ append[a].outcome \in {"done", "later"}
    BY DEF AppendPcs, TypeInv, AppendsInv, AppendType
  <2>. QED BY <1>1, <2>1, AppendGoes DEF Ends, TypeInv
<1>3. /\ \A t \in Turns : /\ Held(t)' = Held(t) /\ Holding(t)' = Holding(t)
                          /\ turn'[t].epoch = turn[t].epoch /\ turn'[t].occ = turn[t].occ
      /\ \A b \in Appends : Working(b)' => b # a /\ Working(b)
  BY <1>1, <1>2 DEF Held, Holding, Others, Working
<1>4. \/ UNCHANGED threadRow
      \/ append[a].created /\ threadRow.holders = 0
      \/ threadRow' = [threadRow EXCEPT !.write = FALSE, !.token = Nobody]
  BY <1>1 DEF RowAfterRelease, HoldsNothing
<1>5. ASSUME UNCHANGED threadRow
             \/ threadRow' = [threadRow EXCEPT !.write = FALSE, !.token = Nobody]
      PROVE  /\ threadRow'.exists = threadRow.exists /\ threadRow'.lease = threadRow.lease
             /\ threadRow'.holders = threadRow.holders
             /\ threadRow'.epoch = threadRow.epoch /\ threadRow'.occ = threadRow.occ
  BY <1>5 DEF TypeInv, ThreadInv, RowType
<1>6. HoldersInv => HoldersInv'
  <2>. SUFFICES ASSUME HoldersInv PROVE HoldersInv'
    OBVIOUS
  <2>1. \A t \in Turns : Holding(t)' => turn'[t].timer
    BY <1>1, <1>3 DEF HoldersInv, Held
  <2>2. CASE threadRow.holders = 0
    <3>1. \A t \in Turns : ~Held(t)'
      BY <1>3, <2>2, HeldRenews
    <3>. QED BY <3>1, NobodyHolds
  <2>3. CASE UNCHANGED threadRow
             \/ threadRow' = [threadRow EXCEPT !.write = FALSE, !.token = Nobody]
    BY <1>3, <1>5, <2>1, <2>3, HoldersKept
  <2>. QED BY <1>4, <2>2, <2>3
<1>7. Epochs => Epochs'
  <2>. SUFFICES ASSUME Epochs PROVE Epochs'
    OBVIOUS
  <2>1. threadRow.token = a /\ (append[a].created => \A t \in Turns : ~Held(t))
    BY <1>1 DEF Working, Epochs, CreatorInv
  <2>2. \A b \in Appends : ~Working(b)'
    BY <1>3, <2>1 DEF Epochs, CreatorInv
  <2>3. EpochInv'
    BY <1>3, <1>4, <1>5, <2>1 DEF Epochs, EpochInv
  <2>. QED BY <2>2, <2>3 DEF Epochs, CreatorInv
<1>. QED BY <1>6, <1>7

\* A claim nobody renews is nobody's.
LEMMA ExpiriesOwn ==
    ASSUME TypeInv, TypeInv', LeaseExpires \/ WriteExpires
    PROVE  (HoldersInv => HoldersInv') /\ (Epochs => Epochs')
<1>1. UNCHANGED <<turn, append>>
  BY DEF LeaseExpires, WriteExpires, jobs
<1>2. /\ \A t \in Turns : /\ Held(t)' = Held(t) /\ Holding(t)' = Holding(t)
                          /\ turn'[t] = turn[t]
      /\ \A a \in Appends : WorkKept(a) /\ Working(a)' = Working(a)
  BY <1>1 DEF Held, Holding, WorkKept, Working
<1>3. /\ threadRow'.exists = threadRow.exists /\ threadRow'.holders = threadRow.holders
      /\ threadRow'.epoch = threadRow.epoch /\ threadRow'.occ = threadRow.occ
      /\ threadRow'.token = threadRow.token
      /\ LeaseExpires => threadRow'.write = threadRow.write
      /\ WriteExpires => threadRow'.lease = threadRow.lease
  BY DEF LeaseExpires, WriteExpires, TypeInv, ThreadInv, RowType
<1>4. CASE LeaseExpires
  <2>1. HoldersInv => \A t \in Turns : ~Held(t)'
    BY <1>2, <1>4, HeldRenews DEF LeaseExpires, RenewedByTurn
  <2>2. HoldersInv => HoldersInv'
    BY <2>1, NobodyHolds
  <2>3. Epochs => Epochs'
    BY <1>2, <1>3, <1>4, EpochsKept
  <2>. QED BY <2>2, <2>3
<1>5. CASE WriteExpires
  <2>1. HoldersInv => HoldersInv'
    <3>. SUFFICES ASSUME HoldersInv PROVE HoldersInv'
      OBVIOUS
    <3>1. \A t \in Turns : Holding(t)' => turn'[t].timer
      BY <1>2 DEF HoldersInv, Held
    <3>. QED BY <1>2, <1>3, <1>5, <3>1, HoldersKept
  <2>2. Epochs => Epochs'
    <3>. SUFFICES ASSUME Epochs PROVE Epochs'
      OBVIOUS
    <3>1. \A a \in Appends : ~Working(a)'
      BY <1>2, <1>5 DEF WriteExpires, RenewedByAppend, Epochs, CreatorInv
    <3>2. EpochInv'
      BY <1>2, <1>3 DEF Epochs, EpochInv
    <3>. QED BY <3>1, <3>2 DEF Epochs, CreatorInv
  <2>. QED BY <2>1, <2>2
<1>. QED BY <1>4, <1>5

\* The stall: what it breaks of one half it leaves of the other.
LEMMA LapsesOwn ==
    ASSUME TypeInv, TypeInv', Excl, LeaseLapses \/ WriteLapses
    PROVE  HoldersInv' \/ Epochs'
<1>1. UNCHANGED <<turn, append>>
  BY DEF LeaseLapses, WriteLapses, jobs
<1>2. /\ \A t \in Turns : /\ Held(t)' = Held(t) /\ Holding(t)' = Holding(t)
                          /\ turn'[t] = turn[t]
      /\ \A a \in Appends : WorkKept(a)
  BY <1>1 DEF Held, Holding, WorkKept, Working
<1>3. /\ threadRow'.exists = threadRow.exists /\ threadRow'.holders = threadRow.holders
      /\ threadRow'.epoch = threadRow.epoch /\ threadRow'.occ = threadRow.occ
      /\ threadRow'.token = threadRow.token
      /\ LeaseLapses => threadRow'.write = threadRow.write
      /\ WriteLapses => threadRow'.lease = threadRow.lease
  BY DEF LeaseLapses, WriteLapses, TypeInv, ThreadInv, RowType
<1>4. CASE LeaseLapses
  <2>1. EpochInv
    <3>1. ASSUME NEW t \in Turns, Held(t)
          PROVE  /\ threadRow.exists /\ turn[t].epoch <= threadRow.epoch
                 /\ turn[t].occ = threadRow.occ
      BY <3>1 DEF Excl, HoldersInv, TypeInv, ThreadInv, RowType
    <3>. QED BY <3>1 DEF EpochInv
  <2>2. CreatorInv
    BY DEF Excl, WriterInv, CreatorInv
  <2>. QED BY <1>2, <1>3, <1>4, <2>1, <2>2, EpochsKept DEF Epochs
<1>5. CASE WriteLapses
  <2>1. \A t \in Turns : Holding(t)' => turn'[t].timer
    BY <1>2 DEF Excl, HoldersInv, Held
  <2>. QED BY <1>2, <1>3, <1>5, <2>1, HoldersKept DEF Excl
<1>. QED BY <1>4, <1>5

LEMMA NextOwn ==
    ASSUME MaxSlow <= 1, Resets = {}, OwnInv, IInv', [Next]_vars
    PROVE  HoldersInv' \/ Epochs'
<1>a. TypeInv /\ TypeInv' /\ (HoldersInv \/ Epochs)
  BY DEF OwnInv, IInv
<1>1. ASSUME Kept PROVE HoldersInv' \/ Epochs'
  BY <1>a, <1>1, KeptHolders, KeptEpochs
<1>2. ASSUME NEW t \in Turns,
             \/ \E p \in Procs : TurnStarts(t, p)
             \/ TurnStep(t) \/ TurnThrows(t) \/ TurnClaimThrows(t)
             \/ TurnReleaseLost(t) \/ TurnRenews(t)
      PROVE HoldersInv' \/ Epochs'
  <2>1. CASE TurnClaims(t)
    BY <1>a, <2>1, TurnClaimsHolds, TurnClaimsEpochs
  <2>2. CASE TurnReleases(t)
    BY <1>a, <2>2, TurnReleasesHolds, TurnReleasesEpochs
  <2>3. TurnClaims(t) \/ TurnReleases(t) \/ Kept
    BY <1>a, <1>2, TurnStepsKept, Zenon DEF TurnStep
  <2>. QED BY <1>1, <2>1, <2>2, <2>3
<1>3. ASSUME NEW a \in Appends,
             \/ \E p \in Procs, m \in Msgs : AppendStarts(a, p, m)
             \/ AppendStep(a) \/ AppendThrows(a) \/ AppendReleaseLost(a) \/ AppendRenews(a)
      PROVE HoldersInv' \/ Epochs'
  <2>1. CASE AppendClaims(a)
    BY <1>a, <2>1, AppendClaimsOwn
  <2>2. CASE AppendReleases(a)
    BY <1>a, <2>2, AppendReleasesOwn
  <2>3. AppendClaims(a) \/ AppendReleases(a) \/ Kept
    BY <1>a, <1>3, AppendStepsKept, Zenon DEF AppendStep
  <2>. QED BY <1>1, <2>1, <2>2, <2>3
<1>4. CASE LeaseExpires \/ WriteExpires
  BY <1>a, <1>4, ExpiriesOwn
<1>5. CASE LeaseLapses \/ WriteLapses
  <2>1. slow = 0
    BY <1>5, <1>a, ConstantsAssumption DEF LeaseLapses, WriteLapses, Stall, TypeInv, BoundsInv
  <2>. QED BY <1>5, <1>a, <2>1, LapsesOwn DEF OwnInv, IInv
<1>6. CASE \/ \E m \in Msgs : Arrives(m)
           \/ \E p \in Procs : Crash(p)
           \/ UNCHANGED vars
  BY <1>a, <1>1, <1>6, OutsideKept
<1>7. \/ \E t \in Turns : \/ \E p \in Procs : TurnStarts(t, p)
                          \/ TurnStep(t) \/ TurnThrows(t) \/ TurnClaimThrows(t)
                          \/ TurnReleaseLost(t) \/ TurnRenews(t)
      \/ \E m \in Msgs : Arrives(m)
      \/ \E a \in Appends : \/ \E p \in Procs, m \in Msgs : AppendStarts(a, p, m)
                            \/ AppendStep(a) \/ AppendThrows(a) \/ AppendReleaseLost(a)
                            \/ AppendRenews(a)
      \/ \E r \in Resets : TRUE
      \/ LeaseExpires \/ WriteExpires \/ LeaseLapses \/ WriteLapses
      \/ \E p \in Procs : Crash(p)
      \/ UNCHANGED vars
  BY Zenon DEF Next
<1>8. ~ \E r \in Resets : TRUE
  OBVIOUS
<1>. QED BY <1>2, <1>3, <1>4, <1>5, <1>6, <1>7, <1>8, Zenon

\* The only step that ends a hold it does not take along is the release of that turn, and
\* it leaves the row of another epoch alone.
LEMMA EndsByRelease ==
    ASSUME TypeInv, [Next]_vars, NEW t \in Turns, turn[t].pc = "decrementing",
           turn'[t].pc = "done", threadRow' # threadRow
    PROVE  threadRow.epoch = turn[t].epoch
<1>. SUFFICES ASSUME ~TurnReleases(t) PROVE FALSE
  BY DEF TurnReleases
<1>a. TurnsInv /\ ThreadInv /\ BoundsInv
  BY DEF TypeInv
<1>1. ASSUME NEW u \in Turns,
             \/ \E p \in Procs : TurnStarts(u, p)
             \/ TurnStep(u) \/ TurnThrows(u) \/ TurnClaimThrows(u)
             \/ TurnReleaseLost(u) \/ TurnRenews(u)
      PROVE FALSE
  <2>1. CASE TurnClaims(u)
    BY <1>a, <2>1, TurnClaimsDoes
  <2>2. CASE TurnReleases(u)
    BY <1>a, <2>2, TurnFinishes DEF TurnReleases
  <2>3. CASE TurnStampsRow(u)
    <3>1. turn[u].pc = "stamping" /\ Goes(u, "loading") /\ "loading" \in TurnPcs
      BY <2>3 DEF TurnStampsRow, TurnPcs
    <3>. QED BY <1>a, <3>1, TurnGoes
  <2>4. CASE TurnRenews(u)
    <3>1. turn'[t].pc = turn[t].pc
      BY <1>a, <2>4, TurnRenewsDoes
    <3>. QED BY <3>1
  <2>5. TurnClaims(u) \/ TurnReleases(u) \/ TurnStampsRow(u) \/ TurnRenews(u) \/ UNCHANGED threadRow
    BY <1>1 DEF TurnStep, TurnStarts, TurnEnters, TurnAsksAgain, TurnWritesDivider, TurnLoads,
                TurnSaves, TurnUnmarks, TurnThrows, TurnClaimThrows, TurnReleaseLost, thread
  <2>. QED BY <2>1, <2>2, <2>3, <2>4, <2>5
<1>2. ASSUME NEW a \in Appends,
             \/ \E p \in Procs, m \in Msgs : AppendStarts(a, p, m)
             \/ AppendStep(a) \/ AppendThrows(a) \/ AppendReleaseLost(a) \/ AppendRenews(a)
      PROVE UNCHANGED turn
  BY <1>2 DEF AppendStep, AppendStarts, AppendEnters, AppendClaims, AppendChecks, AppendWrites,
              AppendRecords, AppendReleases, AppendSettles, AppendThrows, AppendReleaseLost,
              AppendRenews
<1>3. ASSUME NEW r \in Resets, \/ \E p \in Procs : ResetRetires(r, p)
                               \/ ResetErases(r) \/ ResetCommits(r) \/ ResetThrows(r)
      PROVE UNCHANGED turn
  BY <1>3 DEF ResetErases, ResetCommits, ResetThrows, ResetRetires
<1>4. CASE LeaseExpires \/ WriteExpires \/ LeaseLapses \/ WriteLapses
  BY <1>4 DEF LeaseExpires, WriteExpires, LeaseLapses, WriteLapses
<1>5. ASSUME NEW p \in Procs, Crash(p) PROVE UNCHANGED threadRow
  BY <1>5 DEF Crash, thread
<1>6. ASSUME NEW m \in Msgs, Arrives(m) PROVE UNCHANGED turn
  BY <1>6 DEF Arrives
<1>7. CASE UNCHANGED vars
  BY <1>7 DEF vars
<1>8. turn' # turn
  OBVIOUS
<1>. QED BY <1>1, <1>2, <1>3, <1>4, <1>5, <1>6, <1>7, <1>8, Zenon DEF Next

\* A release that lowers the count is of the occupancy its turn joined.
LEMMA OwnReleases == OwnInv /\ [Next]_vars => OnlyItsOwnHold
<1>. SUFFICES ASSUME OwnInv, [Next]_vars, NEW t \in Turns, turn[t].pc = "decrementing",
                     threadRow'.holders < threadRow.holders, turn'[t].pc = "done"
              PROVE  turn[t].occ = threadRow.occ
  BY DEF OnlyItsOwnHold
<1>1. TypeInv /\ Held(t)
  BY DEF OwnInv, IInv, Held
<1>2. CASE HoldersInv
  BY <1>1, <1>2 DEF HoldersInv
<1>3. CASE Epochs
  <2>1. threadRow' # threadRow
    BY <1>1 DEF TypeInv, ThreadInv, RowType
  <2>. QED BY <1>1, <1>3, <2>1, EndsByRelease DEF Epochs, EpochInv
<1>. QED BY <1>2, <1>3 DEF OwnInv

LEMMA OwnInitially == Init => OwnInv
  BY InitType, InitExcl DEF OwnInv, IInv, Excl

LEMMA OwnInductive ==
    ASSUME MaxSlow <= 1, Resets = {}, OwnInv, [Next]_vars
    PROVE  OwnInv'
<1>1. IInv'
  BY NextTypes, NextExcl, NextLock, SlowOnlyGrows DEF OwnInv, IInv
<1>. QED BY <1>1, NextOwn DEF OwnInv

\* Where at most one holder stalls and nobody resets the memory, a late release ends a hold
\* only of the occupancy its turn joined, in any number of processes (clearTurnOwning
\* matches the epoch it was given).
THEOREM ReleasesTheirOwnThroughAStall ==
    ASSUME MaxSlow <= 1, Resets = {}
    PROVE  Spec => ReleaseEndsItsOwnOccupancy
<1>1. OwnInv /\ [Next]_vars => OwnInv'
  BY OwnInductive
<1>2. OwnInv /\ [Next]_vars => [OnlyItsOwnHold]_vars
  BY OwnReleases
<1>. QED BY <1>1, <1>2, OwnInitially, PTL DEF Spec, ReleaseEndsItsOwnOccupancy

============================================================================
