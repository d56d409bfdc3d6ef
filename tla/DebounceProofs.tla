---------------------------- MODULE DebounceProofs ----------------------------
(***************************************************************************)
(* Proofs about Debounce, for any processes, clicks and messages and every *)
(* bound: the type invariant; that no two replies answer bursts that end   *)
(* at the same message; that no message is quietly dropped, when each is   *)
(* delivered before the next one is; and that none is part of two replies, *)
(* in one process.                                                         *)
(*                                                                         *)
(* The argument for the second: what a run is about to send, and what was  *)
(* sent, lies at or below lastRepliedMessageId (SendersPast, AnswersPast), *)
(* and a claim is only taken strictly above it; so a new claim differs     *)
(* from every claim before it.                                             *)
(*                                                                         *)
(* For the third: deliveries end in order unless they die                  *)
(* (DeliveriesInOrder), so an arm's burst reaches every message delivered  *)
(* before it; the flush that holds the row knows how far the burst reaches *)
(* (FlushKnowsBurst), and consumes it only by marking, or by leaving to a  *)
(* newer message, all of it (Covered).                                     *)
(*                                                                         *)
(* For a message being part of one reply, in one process: the hold lets    *)
(* one turn in at a time (OneTurn), so what a turn starts after, read once *)
(* it is in, is still past every reply when it posts (StartsInOrder).      *)
(*                                                                         *)
(* At the end, what the other instances of the run bursts owe to the       *)
(* proofs of their own modules.                                            *)
(***************************************************************************)
EXTENDS MCBursts, TLAPS

\* A row still to be served has attempts left, and a run holds a row only while it is
\* claimed.
Live(aJob) ==
    /\ aJob.status \in {"PENDING", "CLAIMED"} => aJob.attempts < MaxAttempts
    /\ aJob.held => aJob.status = "CLAIMED"

\* The variables in groups: a step has to be looked at only where it writes.
IntakeType == /\ delivery \in [Msgs -> {"absent", "coming", "passed", "skipping", "done"}]
              /\ stranded \subseteq Msgs
ChatwootType == /\ sent \in 0..MaxMsgs /\ lastOut \in 0..sent /\ owner \in {"bot", "human"}
MarksType == handled \in 0..MaxMsgs /\ replied \in 0..MaxMsgs /\ lapsed \in 0..MaxMsgs
BoundsType == /\ armFails \in 0..MaxArmFails /\ faults \in 0..MaxFaults
              /\ slow \in 0..MaxSlow /\ switches \in 0..MaxSwitches
RowInv == row \in RowType /\ Live(row)
RunsType == run \in [Runs -> RunType]
AnswersType == answers \in Seq(AnswerType)

TypeInv == /\ IntakeType /\ ChatwootType /\ MarksType /\ BoundsType
           /\ RowInv /\ RunsType /\ AnswersType

Sends(r) == run[r].pc = "sending"

SendersPast == \A r \in Runs : Sends(r) => run[r].target <= replied
AnswersPast == \A i \in DOMAIN answers : answers[i].target <= replied
SendersApart ==
    \A r, q \in Runs : Sends(r) /\ Sends(q) /\ run[r].target = run[q].target => r = q
SendsAreNew ==
    \A r \in Runs, i \in DOMAIN answers : Sends(r) => answers[i].target # run[r].target

ClaimInv == SendersPast /\ AnswersPast /\ SendersApart /\ SendsAreNew /\ TargetsOnce

IInv == TypeInv /\ ClaimInv

----------------------------------------------------------------------------
(* The type invariant. *)

LEMMA LargerType == \A a, b \in 0..MaxMsgs : Larger(a, b) \in 0..MaxMsgs
  BY DEF Larger

LEMMA MsgsInRange == \A m \in Msgs : m \in 0..MaxMsgs /\ m - 1 \in 0..MaxMsgs
  BY ConstantsAssumption DEF Msgs

LEMMA FlushIsRun == Flush \in Runs
  BY DEF Runs

LEMMA PcsMembers ==
    /\ "idle" \in Pcs /\ "done" \in Pcs /\ "reading" \in Pcs /\ "dropping" \in Pcs
    /\ "checking" \in Pcs /\ "settling" \in Pcs /\ "asking" \in Pcs /\ "entering" \in Pcs
    /\ "fetching" \in Pcs /\ "selecting" \in Pcs /\ "thinking" \in Pcs /\ "gating" \in Pcs
    /\ "claiming" \in Pcs /\ "sending" \in Pcs /\ "marking" \in Pcs
  BY DEF Pcs, FlushPcs, ClickPcs, TurnPcs

LEMMA NoRunType == NoRun \in RunType
<1>1. 0 \in 0..MaxMsgs
  BY ConstantsAssumption
<1>. QED BY <1>1, PcsMembers, ConstantsAssumption, Zenon DEF NoRun, RunType

LEMMA EndedType ==
    ASSUME NEW r, NEW outcome \in {"done", "fail", "later"}
    PROVE  /\ Ended(r, outcome) \in RunType
           /\ Ended(r, outcome).pc \in {"settling", "done"}
  BY NoRunType, PcsMembers DEF Ended, RunType

\* Changing one field of one run, or replacing it, leaves the runs well typed.
LEMMA RunReplaced ==
    ASSUME run \in [Runs -> RunType], NEW r, NEW new \in RunType
    PROVE  [run EXCEPT ![r] = new] \in [Runs -> RunType]
  BY Zenon

LEMMA PcReplaced ==
    ASSUME run \in [Runs -> RunType], NEW r \in Runs, NEW pc \in Pcs
    PROVE  [run EXCEPT ![r].pc = pc] \in [Runs -> RunType]
<1>1. [run[r] EXCEPT !.pc = pc] \in RunType
  BY DEF RunType
<1>. QED BY <1>1, RunReplaced, Zenon

LEMMA FailedType ==
    ASSUME row \in RowType, Live(row), row.status = "CLAIMED"
    PROVE  Failed \in RowType /\ Live(Failed)
<1>. DEFINE count == row.attempts + 1
            status == IF count >= MaxAttempts THEN "DEAD" ELSE "PENDING"
<1>1. count \in 0..MaxAttempts
  BY ConstantsAssumption DEF Live, RowType
<1>2. Failed = [row EXCEPT !.status = status, !.attempts = count, !.held = FALSE]
  BY Zenon DEF Failed
<1>3. status \in {"DEAD", "PENDING"} /\ (status = "PENDING" => count < MaxAttempts)
  BY <1>1, ConstantsAssumption
<1>. HIDE DEF count, status
<1>4. Failed \in RowType
  BY <1>1, <1>2, <1>3 DEF RowType
<1>5. Failed.status = status /\ Failed.attempts = count /\ Failed.held = FALSE
  BY <1>2 DEF RowType
<1>. QED BY <1>3, <1>4, <1>5 DEF Live

LEMMA ArmedForType ==
    ASSUME row \in RowType, Live(row), NEW m \in Msgs
    PROVE  ArmedFor(m) \in RowType /\ Live(ArmedFor(m))
<1>. DEFINE count == IF row.status = "PENDING" THEN row.attempts ELSE 0
            last == IF row.status = "PENDING" THEN Larger(row.last, m) ELSE m
<1>1. count \in 0..MaxAttempts /\ count < MaxAttempts
  BY ConstantsAssumption DEF Live, RowType
<1>2. last \in 0..MaxMsgs
  BY LargerType, MsgsInRange DEF RowType
<1>3. ArmedFor(m) = [status |-> "PENDING", held |-> FALSE, attempts |-> count, last |-> last]
  BY Zenon DEF ArmedFor
<1>. HIDE DEF count, last
<1>. QED BY <1>1, <1>2, <1>3 DEF Live, RowType

LEMMA OutcomeType ==
    ASSUME row \in RowType, Live(row), row.held, NEW outcome \in {"done", "fail", "later"}
    PROVE  Outcome(outcome) \in RowType /\ Live(Outcome(outcome))
<1>1. CASE outcome = "fail"
  <2>1. row.status = "CLAIMED"
    BY DEF Live
  <2>2. Outcome(outcome) = Failed
    BY <1>1 DEF Outcome
  <2>. QED BY <2>1, <2>2, FailedType
<1>2. CASE outcome = "done"
  <2>1. Outcome(outcome) = [row EXCEPT !.status = "DONE", !.held = FALSE]
    BY <1>2 DEF Outcome
  <2>. QED BY <2>1 DEF RowType, Live
<1>3. CASE outcome = "later"
  <2>. DEFINE later == [row EXCEPT !.status = "PENDING", !.attempts = 0, !.held = FALSE]
  <2>1. Outcome("later") = later
    BY DEF Outcome, RowType
  <2>2. later \in RowType
    <3>1. 0 \in 0..MaxAttempts
      BY ConstantsAssumption
    <3>. QED BY <3>1, Zenon DEF RowType
  <2>3. later.status = "PENDING" /\ later.attempts = 0 /\ later.held = FALSE
    BY DEF RowType
  <2>4. Live(later)
    BY <2>3, ConstantsAssumption DEF Live
  <2>. QED BY <1>3, <2>1, <2>2, <2>4
<1>. QED BY <1>1, <1>2, <1>3

LEMMA TypeInvInit == Init => TypeInv
<1>. SUFFICES ASSUME Init PROVE TypeInv
  OBVIOUS
<1>1. [r \in Runs |-> NoRun] \in [Runs -> RunType]
  BY NoRunType
<1>2. row \in RowType /\ Live(row)
  BY ConstantsAssumption DEF Init, RowType, Live
<1>3. answers \in Seq(AnswerType)
  BY DEF Init
<1>4. RowInv /\ RunsType /\ AnswersType
  BY <1>1, <1>2, <1>3 DEF Init, RowInv, RunsType, AnswersType
<1>5. IntakeType /\ ChatwootType /\ MarksType /\ BoundsType
  BY ConstantsAssumption DEF Init, IntakeType, ChatwootType, MarksType, BoundsType
<1>. QED BY <1>4, <1>5 DEF TypeInv

LEMMA TypeInvMeans == TypeInv => TypeOK
  BY DEF TypeInv, TypeOK, IntakeType, ChatwootType, MarksType, BoundsType, RowInv, RunsType,
         AnswersType

LEMMA PartsKept ==
    /\ IntakeType /\ UNCHANGED intake => IntakeType'
    /\ ChatwootType /\ UNCHANGED chatwoot => ChatwootType'
    /\ MarksType /\ UNCHANGED marks => MarksType'
    /\ BoundsType /\ UNCHANGED bounds => BoundsType'
    /\ RowInv /\ UNCHANGED row => RowInv'
    /\ RunsType /\ UNCHANGED run => RunsType'
    /\ AnswersType /\ UNCHANGED answers => AnswersType'
  BY DEF IntakeType, ChatwootType, MarksType, BoundsType, RowInv, RunsType, AnswersType, Live,
         intake, chatwoot, marks, bounds

LEMMA MarksMoved ==
    ASSUME MarksType, NEW a \in 0..MaxMsgs
    PROVE  /\ handled' = Larger(handled, a) /\ UNCHANGED <<replied, lapsed>> => MarksType'
           /\ replied' = a /\ UNCHANGED <<handled, lapsed>> => MarksType'
           /\ lapsed' = Larger(lapsed, a) /\ UNCHANGED <<handled, replied>> => MarksType'
  BY LargerType DEF MarksType

LEMMA BoundsMoved ==
    ASSUME BoundsType
    PROVE  /\ Fault /\ UNCHANGED <<armFails, slow, switches>> => BoundsType'
           /\ Slow /\ UNCHANGED <<armFails, faults, switches>> => BoundsType'
           /\ Changes /\ UNCHANGED <<armFails, faults, slow>> => BoundsType'
  BY ConstantsAssumption DEF BoundsType, Fault, Slow, Changes

LEMMA RunsMoved ==
    ASSUME RunsType, NEW r \in Runs
    PROVE  /\ \A pc \in Pcs : Goes(r, pc) => RunsType'
           /\ \A outcome \in {"done", "fail", "later"} : Leaves(r, outcome) => RunsType'
<1>1. ASSUME NEW pc \in Pcs, Goes(r, pc) PROVE RunsType'
  BY <1>1, PcReplaced DEF RunsType, Goes
<1>2. ASSUME NEW outcome \in {"done", "fail", "later"}, Leaves(r, outcome) PROVE RunsType'
  BY <1>2, EndedType, RunReplaced DEF RunsType, Leaves
<1>. QED BY <1>1, <1>2

LEMMA RunFields ==
    ASSUME RunsType, NEW r \in Runs
    PROVE  /\ run[r] \in RunType
           /\ run[r].armed \in 0..MaxMsgs /\ run[r].mark \in 0..MaxMsgs
           /\ run[r].out \in 0..MaxMsgs /\ run[r].above \in 0..MaxMsgs
           /\ run[r].target \in 0..MaxMsgs /\ run[r].outcome \in {"done", "fail", "later"}
  BY DEF RunsType, RunType

LEMMA FloorType ==
    ASSUME RunsType, MarksType, NEW r \in Runs
    PROVE  Floor(r) \in 0..MaxMsgs
  BY RunFields, LargerType DEF Floor, MarksType

----------------------------------------------------------------------------
(* Each group of steps keeps the type invariant. *)

LEMMA ChatwootStepsType ==
    ASSUME TypeInv, CustomerWrites \/ OwnerChanges \/ HumanAnswers
    PROVE  TypeInv'
<1>. USE PartsKept DEF TypeInv
<1>1. CASE CustomerWrites
  <2>1. ChatwootType' /\ IntakeType'
    BY <1>1, ConstantsAssumption DEF CustomerWrites, ChatwootType, IntakeType, Msgs
  <2>. QED BY <1>1, <2>1 DEF CustomerWrites
<1>2. CASE OwnerChanges
  <2>1. ChatwootType' /\ BoundsType'
    BY <1>2, BoundsMoved DEF OwnerChanges, ChatwootType
  <2>. QED BY <1>2, <2>1 DEF OwnerChanges
<1>3. CASE HumanAnswers
  <2>1. ChatwootType'
    BY <1>3, ConstantsAssumption DEF HumanAnswers, ChatwootType
  <2>. QED BY <1>3, <2>1 DEF HumanAnswers
<1>. QED BY <1>1, <1>2, <1>3

LEMMA DeliveryStepsType ==
    ASSUME TypeInv, NEW m \in Msgs, DeliverySteps(m) \/ \E p \in Procs : TurnsDirect(m, p)
    PROVE  TypeInv'
<1>. USE PartsKept DEF TypeInv
<1>1. CASE DeliveryGates(m)
  <2>1. IntakeType'
    BY <1>1 DEF DeliveryGates, IntakeType
  <2>. QED BY <1>1, <2>1 DEF DeliveryGates
<1>2. CASE DeliverySkips(m)
  <2>1. IntakeType'
    BY <1>2 DEF DeliverySkips, IntakeType
  <2>2. MarksType'
    BY <1>2, MarksMoved, MsgsInRange DEF DeliverySkips
  <2>. QED BY <1>2, <2>1, <2>2 DEF DeliverySkips
<1>3. CASE DeliveryArms(m)
  <2>1. IntakeType'
    BY <1>3 DEF DeliveryArms, IntakeType
  <2>2. RowInv'
    BY <1>3, ArmedForType DEF DeliveryArms, RowInv, Live
  <2>. QED BY <1>3, <2>1, <2>2 DEF DeliveryArms
<1>4. CASE DeliveryDies(m)
  <2>1. IntakeType'
    BY <1>4 DEF DeliveryDies, IntakeType
  <2>2. BoundsType'
    BY <1>4, BoundsMoved DEF DeliveryDies
  <2>. QED BY <1>4, <2>1, <2>2 DEF DeliveryDies
<1>5. ASSUME NEW p \in Procs, TurnsDirect(m, p)
      PROVE  TypeInv'
  <2>. DEFINE new == [NoRun EXCEPT !.pc = "thinking", !.proc = p, !.above = m - 1, !.target = m]
  <2>1. IntakeType'
    BY <1>5 DEF TurnsDirect, IntakeType
  <2>2. BoundsType'
    <3>1. /\ armFails < MaxArmFails /\ armFails' = armFails + 1
          /\ UNCHANGED <<faults, slow, switches>>
      BY <1>5, Zenon DEF TurnsDirect
    <3>2. armFails' \in 0..MaxArmFails
      BY <3>1, ConstantsAssumption DEF BoundsType
    <3>. QED BY <3>1, <3>2 DEF BoundsType
  <2>3. new \in RunType
    BY NoRunType, MsgsInRange, PcsMembers, Zenon DEF RunType
  <2>4. RunsType'
    BY <1>5, <2>3, RunReplaced DEF TurnsDirect, RunsType
  <2>. QED BY <1>5, <2>1, <2>2, <2>4 DEF TurnsDirect
<1>. QED BY <1>1, <1>2, <1>3, <1>4, <1>5 DEF DeliverySteps

LEMMA FlushStepsType ==
    ASSUME TypeInv, FlushSteps
    PROVE  TypeInv'
<1>. USE PartsKept, FlushIsRun, PcsMembers DEF TypeInv
<1>1. CASE FlushClaims
  <2>. DEFINE new == [NoRun EXCEPT !.pc = "reading", !.armed = row.last]
  <2>1. RowInv'
    <3>. DEFINE claimed == [row EXCEPT !.status = "CLAIMED", !.held = TRUE]
    <3>1. claimed \in RowType /\ Live(claimed)
      BY <1>1 DEF FlushClaims, RowInv, RowType, Live
    <3>. QED BY <1>1, <3>1 DEF FlushClaims, RowInv, Live
  <2>2. new \in RunType
    BY NoRunType DEF RunType, RowInv, RowType
  <2>3. RunsType'
    BY <1>1, <2>2, RunReplaced DEF FlushClaims, RunsType
  <2>. QED BY <1>1, <2>1, <2>3 DEF FlushClaims
<1>2. CASE FlushReads
  <2>1. PICK next \in {"checking", "dropping"} :
           run' = [run EXCEPT ![Flush].pc = next, ![Flush].mark = handled]
    BY <1>2 DEF FlushReads
  <2>2. [run[Flush] EXCEPT !.pc = next, !.mark = handled] \in RunType
    BY RunFields DEF MarksType, RunType
  <2>3. RunsType'
    BY <2>1, <2>2, RunReplaced DEF RunsType
  <2>. QED BY <1>2, <2>3 DEF FlushReads
<1>3. CASE FlushDrops
  <2>1. MarksType'
    BY <1>3, MarksMoved, RunFields DEF FlushDrops
  <2>2. RunsType'
    BY <1>3, RunsMoved DEF FlushDrops
  <2>. QED BY <1>3, <2>1, <2>2 DEF FlushDrops
<1>4. CASE FlushEnters
  BY <1>4, RunsMoved DEF FlushEnters
<1>5. CASE FlushDefers
  BY <1>5, RunsMoved DEF FlushDefers
<1>6. CASE FlushOverrides
  <2>1. BoundsType'
    BY <1>6, BoundsMoved DEF FlushOverrides
  <2>2. RunsType'
    BY <1>6, RunsMoved DEF FlushOverrides
  <2>. QED BY <1>6, <2>1, <2>2 DEF FlushOverrides
<1>7. CASE FlushSettles
  <2>1. RowInv'
    <3>1. CASE row.held
      BY <1>7, <3>1, OutcomeType, RunFields DEF FlushSettles, RowInv, Live
    <3>2. CASE ~row.held
      BY <1>7, <3>2 DEF FlushSettles
    <3>. QED BY <3>1, <3>2
  <2>2. RunsType'
    BY <1>7, NoRunType, RunReplaced DEF FlushSettles, RunsType
  <2>. QED BY <1>7, <2>1, <2>2 DEF FlushSettles
<1>8. CASE FlushFindsNobody
  <2>1. MarksType'
    BY <1>8, MarksMoved, RunFields DEF FlushFindsNobody
  <2>2. RunsType'
    BY <1>8, RunsMoved DEF FlushFindsNobody
  <2>3. BoundsType'
    BY <1>8, BoundsMoved DEF FlushFindsNobody
  <2>. QED BY <1>8, <2>1, <2>2, <2>3 DEF FlushFindsNobody
<1>. QED BY <1>1, <1>2, <1>3, <1>4, <1>5, <1>6, <1>7, <1>8 DEF FlushSteps

LEMMA ClickStepsType ==
    ASSUME TypeInv, NEW c \in Clicks, ClickSteps(c) \/ \E p \in Procs : ClickStarts(c, p)
    PROVE  TypeInv'
<1>. USE PartsKept, PcsMembers DEF TypeInv
<1>. c \in Runs
  BY DEF Runs
<1>1. CASE ClickRefused(c)
  BY <1>1, RunsMoved DEF ClickRefused
<1>2. CASE ClickAsks(c)
  BY <1>2, RunsMoved DEF ClickAsks
<1>3. CASE ClickEnters(c)
  BY <1>3, RunsMoved DEF ClickEnters
<1>4. ASSUME NEW p \in Procs, ClickStarts(c, p)
      PROVE  TypeInv'
  <2>1. [NoRun EXCEPT !.pc = "asking", !.proc = p, !.mark = handled] \in RunType
    BY NoRunType DEF RunType, MarksType
  <2>2. RunsType'
    BY <1>4, <2>1, RunReplaced DEF ClickStarts, RunsType
  <2>. QED BY <1>4, <2>2 DEF ClickStarts
<1>. QED BY <1>1, <1>2, <1>3, <1>4 DEF ClickSteps

LEMMA TurnStepsType ==
    ASSUME TypeInv, NEW r \in Runs, TurnSteps(r) \/ GateFails(r) \/ CalledOff(r) \/ Throws(r)
    PROVE  TypeInv'
<1>. USE PartsKept, PcsMembers DEF TypeInv
<1>1. CASE Fetches(r)
  <2>1. sent \in 0..MaxMsgs /\ lastOut \in 0..MaxMsgs
    BY ConstantsAssumption DEF ChatwootType
  <2>2. [run[r] EXCEPT !.pc = "selecting", !.target = sent, !.out = lastOut] \in RunType
    BY <2>1, RunFields DEF RunType
  <2>3. RunsType'
    BY <1>1, <2>2, RunReplaced DEF Fetches, RunsType
  <2>. QED BY <1>1, <2>3 DEF Fetches
<1>2. CASE Selects(r)
  <2>1. Floor(r) \in 0..MaxMsgs
    BY FloorType
  <2>2. [run[r] EXCEPT !.pc = "thinking", !.above = Floor(r), !.out = 0] \in RunType
    <3>1. 0 \in 0..MaxMsgs
      BY ConstantsAssumption
    <3>. QED BY <2>1, <3>1, RunFields, Zenon DEF RunType
  <2>3. RunsType'
    <3>1. CASE Floor(r) < run[r].target
      BY <1>2, <2>2, <3>1, RunReplaced DEF Selects, RunsType
    <3>2. CASE ~(Floor(r) < run[r].target)
      BY <1>2, <3>2, RunsMoved DEF Selects
    <3>. QED BY <3>1, <3>2
  <2>. QED BY <1>2, <2>3 DEF Selects
<1>3. CASE Thinks(r)
  <2>1. (IF owner = "bot" THEN "gating" ELSE "marking") \in Pcs
    OBVIOUS
  <2>. QED BY <1>3, <2>1, RunsMoved DEF Thinks
<1>4. CASE Gates(r)
  BY <1>4, RunsMoved DEF Gates
<1>5. CASE Claims(r)
  <2>1. RunsType'
    BY <1>5, RunsMoved DEF Claims
  <2>2. MarksType'
    BY <1>5, MarksMoved, RunFields DEF Claims, marks
  <2>. QED BY <1>5, <2>1, <2>2 DEF Claims
<1>6. CASE Posts(r)
  <2>1. ChatwootType'
    BY <1>6 DEF Posts, ChatwootType
  <2>2. [above |-> run[r].above, target |-> run[r].target] \in AnswerType
    BY RunFields DEF AnswerType
  <2>3. AnswersType'
    <3>. HIDE DEF TypeInv
    <3>. DEFINE answer == [above |-> run[r].above, target |-> run[r].target]
    <3>1. answers \in Seq(AnswerType)
      BY DEF TypeInv, AnswersType
    <3>2. answers' = Append(answers, answer)
      BY <1>6 DEF Posts
    <3>. HIDE DEF answer
    <3>3. answer \in AnswerType
      BY <2>2 DEF answer
    <3>. QED BY <3>1, <3>2, <3>3 DEF AnswersType
  <2>4. RunsType'
    BY <1>6, RunsMoved DEF Posts
  <2>. QED BY <1>6, <2>1, <2>3, <2>4 DEF Posts
<1>7. CASE Marks(r)
  <2>1. MarksType'
    BY <1>7, MarksMoved, RunFields DEF Marks
  <2>2. RunsType'
    BY <1>7, RunsMoved DEF Marks
  <2>. QED BY <1>7, <2>1, <2>2 DEF Marks
<1>8. CASE GateFails(r)
  <2>1. BoundsType'
    BY <1>8, BoundsMoved DEF GateFails
  <2>2. RunsType'
    BY <1>8, RunsMoved DEF GateFails
  <2>. QED BY <1>8, <2>1, <2>2 DEF GateFails
<1>9. CASE Throws(r)
  <2>1. BoundsType'
    BY <1>9, BoundsMoved DEF Throws
  <2>2. RunsType'
    BY <1>9, RunsMoved DEF Throws
  <2>3. IntakeType'
    BY <1>9 DEF Throws, IntakeType
  <2>. QED BY <1>9, <2>1, <2>2, <2>3 DEF Throws
<1>10. CASE CalledOff(r)
  <2>1. MarksType'
    BY <1>10, MarksMoved, RunFields DEF CalledOff, MarksType
  <2>2. RunsType'
    BY <1>10, RunsMoved DEF CalledOff
  <2>3. BoundsType'
    BY <1>10, BoundsMoved, PartsKept DEF CalledOff, bounds
  <2>. QED BY <1>10, <2>1, <2>2, <2>3 DEF CalledOff
<1>. QED BY <1>1, <1>2, <1>3, <1>4, <1>5, <1>6, <1>7, <1>8, <1>9, <1>10 DEF TurnSteps

LEMMA ReapsType ==
    ASSUME TypeInv, Reaps
    PROVE  TypeInv'
<1>. USE PartsKept DEF TypeInv
<1>1. RowInv'
  BY FailedType DEF Reaps, RowInv, Live
<1>2. BoundsType'
  BY BoundsMoved DEF Reaps, bounds
<1>. QED BY <1>1, <1>2 DEF Reaps

LEMMA ResetsType ==
    ASSUME TypeInv, Resets
    PROVE  TypeInv'
<1>. USE PartsKept DEF TypeInv
<1>1. RowInv'
  <2>. DEFINE retired == [row EXCEPT !.status = "DONE", !.held = FALSE]
  <2>1. retired \in RowType /\ Live(retired)
    BY DEF RowInv, RowType, Live
  <2>. QED BY <2>1 DEF Resets, RowInv, Live
<1>2. MarksType'
  BY MarksMoved DEF Resets, RowInv, RowType
<1>3. BoundsType'
  BY BoundsMoved DEF Resets
<1>. QED BY <1>1, <1>2, <1>3 DEF Resets

LEMMA CrashesType ==
    ASSUME TypeInv, NEW p \in Procs, Crashes(p)
    PROVE  TypeInv'
<1>. USE PartsKept DEF TypeInv
<1>. DEFINE dying == {r \in Runs : run[r].proc = p /\ run[r].pc \notin {"idle", "done"}}
<1>1. \A r \in Runs : [NoRun EXCEPT !.pc = IF r = Flush THEN "idle" ELSE "done"] \in RunType
  BY NoRunType, PcsMembers DEF RunType
<1>2. RunsType'
  BY <1>1 DEF Crashes, RunsType
<1>3. RowInv'
  BY DEF Crashes, RowInv, RowType, Live
<1>4. BoundsType' /\ IntakeType'
  BY BoundsMoved DEF Crashes, IntakeType
<1>. QED BY <1>2, <1>3, <1>4 DEF Crashes

LEMMA TypeInvStep == TypeInv /\ [Next]_vars => TypeInv'
<1>. SUFFICES ASSUME TypeInv, [Next]_vars PROVE TypeInv'
  OBVIOUS
<1>1. CASE UNCHANGED vars
  BY <1>1, PartsKept DEF TypeInv, vars
<1>2. CASE Next
  <2>1. ASSUME NEW m \in Msgs, DeliverySteps(m) \/ \E p \in Procs : TurnsDirect(m, p)
        PROVE  TypeInv'
    BY <2>1, DeliveryStepsType
  <2>2. ASSUME NEW c \in Clicks, ClickSteps(c) \/ \E p \in Procs : ClickStarts(c, p)
        PROVE  TypeInv'
    BY <2>2, ClickStepsType
  <2>3. ASSUME NEW r \in Runs, TurnSteps(r) \/ GateFails(r) \/ CalledOff(r) \/ Throws(r)
        PROVE  TypeInv'
    BY <2>3, TurnStepsType
  <2>4. ASSUME NEW p \in Procs, Crashes(p) PROVE TypeInv'
    BY <2>4, CrashesType
  <2>. QED BY <1>2, <2>1, <2>2, <2>3, <2>4, ChatwootStepsType, FlushStepsType, ReapsType,
           ResetsType DEF Next
<1>. QED BY <1>1, <1>2

\* Every variable of the model keeps its type, and a queued or claimed flush has attempts
\* left, whatever the number of processes, clicks and messages.
THEOREM TypeCorrect == Spec => []TypeOK
<1>1. Spec => []TypeInv
  BY TypeInvInit, TypeInvStep, PTL DEF Spec
<1>. QED BY <1>1, TypeInvMeans, PTL

----------------------------------------------------------------------------
(* The claim.  A step is quiet when it leaves lastRepliedMessageId and the  *)
(* posted replies alone and lets no run begin to send.                      *)

Quiet ==
    /\ UNCHANGED <<replied, answers>>
    /\ \A r \in Runs : Sends(r)' => Sends(r) /\ run'[r].target = run[r].target

LEMMA QuietKeeps == ClaimInv /\ Quiet => ClaimInv'
  BY DEF ClaimInv, Quiet, SendersPast, AnswersPast, SendersApart, SendsAreNew, TargetsOnce

\* A run that goes anywhere but to "sending", or is replaced by one that does not send.
LEMMA QuietChange ==
    ASSUME RunsType, UNCHANGED <<replied, answers>>, NEW r \in Runs,
           run' = run \/ (\E new \in RunType : new.pc # "sending" /\ run' = [run EXCEPT ![r] = new])
    PROVE  Quiet
  BY DEF RunsType, Quiet, Sends

LEMMA QuietMoves ==
    ASSUME RunsType, UNCHANGED <<replied, answers>>, NEW r \in Runs
    PROVE  /\ \A pc \in Pcs \ {"sending"} : Goes(r, pc) => Quiet
           /\ \A outcome \in {"done", "fail", "later"} : Leaves(r, outcome) => Quiet
<1>1. ASSUME NEW pc \in Pcs \ {"sending"}, Goes(r, pc) PROVE Quiet
  <2>1. /\ [run[r] EXCEPT !.pc = pc] \in RunType
        /\ [run[r] EXCEPT !.pc = pc].pc # "sending"
    BY RunFields DEF RunType
  <2>2. run' = [run EXCEPT ![r] = [run[r] EXCEPT !.pc = pc]]
    BY <1>1 DEF Goes
  <2>. QED BY <2>1, <2>2, QuietChange
<1>2. ASSUME NEW outcome \in {"done", "fail", "later"}, Leaves(r, outcome) PROVE Quiet
  BY <1>2, EndedType, QuietChange DEF Leaves
<1>. QED BY <1>1, <1>2

LEMMA ClaimsKeep ==
    ASSUME TypeInv, ClaimInv, NEW r \in Runs, Claims(r)
    PROVE  ClaimInv'
<1>1. CASE replied < run[r].target /\ handled <= Ceiling(r)
  <2>1. /\ replied' = run[r].target /\ answers' = answers
        /\ run' = [run EXCEPT ![r].pc = "sending"]
    BY <1>1 DEF Claims, Goes
  <2>2. /\ run[r].target \in Int /\ replied \in Int /\ replied < replied'
        /\ \A q \in Runs : run'[q].target = run[q].target /\ run[q].target \in Int
        /\ \A q \in Runs : Sends(q)' => Sends(q) \/ q = r
        /\ \A i \in DOMAIN answers : answers[i].target \in Int
    <3>1. \A q \in Runs : run[q].target \in Int
      BY RunFields DEF TypeInv
    <3>2. replied \in Int
      BY DEF TypeInv, MarksType
    <3>3. \A q \in Runs : run'[q].target = run[q].target /\ (Sends(q)' => Sends(q) \/ q = r)
      BY <2>1, RunFields DEF TypeInv, RunsType, RunType, Sends
    <3>4. \A i \in DOMAIN answers : answers[i].target \in Int
      <4>1. answers \in Seq(AnswerType)
        BY DEF TypeInv, AnswersType
      <4>2. \A i \in DOMAIN answers : answers[i] \in AnswerType
        BY <4>1
      <4>. QED BY <4>2 DEF AnswerType
    <3>. QED BY <1>1, <2>1, <3>1, <3>2, <3>3, <3>4
  <2>3. \A q \in Runs : Sends(q) => run[q].target <= replied
    BY DEF ClaimInv, SendersPast
  <2>4. \A i \in DOMAIN answers : answers[i].target <= replied
    BY DEF ClaimInv, AnswersPast
  <2>5. SendersPast' /\ AnswersPast'
    BY <2>1, <2>2, <2>3, <2>4 DEF SendersPast, AnswersPast
  <2>6. SendersApart'
    <3>. SUFFICES ASSUME NEW p \in Runs, NEW q \in Runs, Sends(p)', Sends(q)',
                         run[p].target = run[q].target
                  PROVE  p = q
      BY <2>2 DEF SendersApart
    <3>1. CASE Sends(p) /\ Sends(q)
      BY <3>1 DEF ClaimInv, SendersApart
    <3>2. CASE ~Sends(p) /\ Sends(q)
      BY <2>1, <2>2, <2>3, <3>2
    <3>3. CASE Sends(p) /\ ~Sends(q)
      BY <2>1, <2>2, <2>3, <3>3
    <3>4. CASE ~Sends(p) /\ ~Sends(q)
      BY <2>2, <3>4
    <3>. QED BY <3>1, <3>2, <3>3, <3>4
  <2>7. SendsAreNew'
    <3>. SUFFICES ASSUME NEW q \in Runs, NEW i \in DOMAIN answers, Sends(q)'
                  PROVE  answers[i].target # run[q].target
      BY <2>1, <2>2 DEF SendsAreNew
    <3>1. CASE Sends(q)
      BY <3>1 DEF ClaimInv, SendsAreNew
    <3>2. CASE ~Sends(q)
      BY <2>1, <2>2, <2>4, <3>2
    <3>. QED BY <3>1, <3>2
  <2>8. TargetsOnce'
    BY <2>1 DEF ClaimInv, TargetsOnce
  <2>. QED BY <2>5, <2>6, <2>7, <2>8 DEF ClaimInv
<1>2. CASE ~(replied < run[r].target /\ handled <= Ceiling(r))
  BY <1>2, QuietMoves, QuietKeeps DEF Claims, TypeInv
<1>. QED BY <1>1, <1>2

LEMMA PostsKeep ==
    ASSUME TypeInv, ClaimInv, NEW r \in Runs, Posts(r)
    PROVE  ClaimInv'
<1>. DEFINE answer == [above |-> run[r].above, target |-> run[r].target]
            last == Len(answers) + 1
<1>1. Sends(r) /\ replied' = replied /\ answers' = Append(answers, answer)
  BY DEF Posts, Sends, marks
<1>2. \A q \in Runs : /\ run'[q].target = run[q].target
                      /\ Sends(q)' => Sends(q) /\ q # r
  <2>1. run' = [run EXCEPT ![r].pc = "marking"]
    BY DEF Posts, Goes
  <2>. QED BY <2>1, RunFields DEF TypeInv, RunsType, RunType, Sends
<1>3. answers \in Seq(AnswerType)
  BY DEF TypeInv, AnswersType
<1>4. answer.target = run[r].target
  OBVIOUS
<1>. HIDE DEF answer
<1>5. /\ DOMAIN answers' = DOMAIN answers \cup {last}
      /\ last \notin DOMAIN answers
      /\ \A i \in DOMAIN answers : answers'[i] = answers[i]
      /\ answers'[last].target = run[r].target
  <2>1. /\ DOMAIN answers = 1..Len(answers) /\ Len(answers) \in Nat
        /\ DOMAIN answers' = 1..last
        /\ \A i \in 1..Len(answers) : answers'[i] = answers[i]
        /\ answers'[last] = answer
    BY <1>1, <1>3
  <2>. QED BY <1>4, <2>1
<1>. HIDE DEF last
<1>6. SendersPast' /\ AnswersPast'
  BY <1>1, <1>2, <1>5 DEF ClaimInv, SendersPast, AnswersPast
<1>7. SendersApart'
  BY <1>2 DEF ClaimInv, SendersApart
<1>8. SendsAreNew'
  BY <1>1, <1>2, <1>5 DEF ClaimInv, SendsAreNew, SendersApart
<1>9. TargetsOnce'
  BY <1>1, <1>5 DEF ClaimInv, TargetsOnce, SendsAreNew
<1>. QED BY <1>6, <1>7, <1>8, <1>9 DEF ClaimInv

LEMMA OthersAreQuiet ==
    ASSUME TypeInv, Next,
           \A r \in Runs : ~Claims(r) /\ ~Posts(r)
    PROVE  Quiet
<1>. USE PcsMembers
<1>. RunsType
  BY DEF TypeInv
<1>1. ASSUME UNCHANGED <<run, replied, answers>> PROVE Quiet
  BY <1>1, FlushIsRun, QuietChange
<1>2. CASE CustomerWrites \/ OwnerChanges \/ HumanAnswers \/ Reaps \/ Resets
  BY <1>1, <1>2 DEF CustomerWrites, OwnerChanges, HumanAnswers, Reaps, Resets, marks
<1>3. ASSUME NEW m \in Msgs, DeliverySteps(m) \/ \E p \in Procs : TurnsDirect(m, p)
      PROVE  Quiet
  <2>1. CASE DeliverySteps(m)
    BY <1>1, <2>1 DEF DeliverySteps, DeliveryGates, DeliverySkips, DeliveryArms, DeliveryDies,
                     marks
  <2>2. ASSUME NEW p \in Procs, TurnsDirect(m, p) PROVE Quiet
    <3>. DEFINE new == [NoRun EXCEPT !.pc = "thinking", !.proc = p, !.above = m - 1, !.target = m]
    <3>1. new \in RunType
      BY NoRunType, MsgsInRange, Zenon DEF RunType
    <3>2. new.pc # "sending"
      BY NoRunType DEF RunType
    <3>3. m \in Runs /\ run' = [run EXCEPT ![m] = new] /\ UNCHANGED <<replied, answers>>
      BY <2>2 DEF TurnsDirect, Runs, marks
    <3>. QED BY <3>1, <3>2, <3>3, QuietChange
  <2>. QED BY <1>3, <2>1, <2>2
<1>4. CASE FlushSteps
  <2>. USE FlushIsRun
  <2>1. CASE FlushClaims
    <3>. DEFINE new == [NoRun EXCEPT !.pc = "reading", !.armed = row.last]
    <3>1. new \in RunType /\ new.pc # "sending"
      BY NoRunType DEF RunType, TypeInv, RowInv, RowType
    <3>2. run' = [run EXCEPT ![Flush] = new] /\ UNCHANGED <<replied, answers>>
      BY <2>1 DEF FlushClaims, marks
    <3>. QED BY <3>1, <3>2, QuietChange
  <2>2. CASE FlushReads
    <3>1. PICK next \in {"checking", "dropping"} :
             run' = [run EXCEPT ![Flush].pc = next, ![Flush].mark = handled]
      BY <2>2 DEF FlushReads
    <3>. DEFINE new == [run[Flush] EXCEPT !.pc = next, !.mark = handled]
    <3>2. new \in RunType /\ new.pc # "sending"
      BY RunFields DEF TypeInv, MarksType, RunType
    <3>3. run' = [run EXCEPT ![Flush] = new] /\ UNCHANGED <<replied, answers>>
      BY <2>2, <3>1 DEF FlushReads, marks
    <3>. QED BY <3>2, <3>3, QuietChange
  <2>3. CASE FlushFindsNobody \/ FlushDrops \/ FlushEnters \/ FlushDefers \/ FlushOverrides
    BY <2>3, QuietMoves DEF FlushFindsNobody, FlushDrops, FlushEnters, FlushDefers, FlushOverrides, marks
  <2>4. CASE FlushSettles
    <3>1. NoRun.pc # "sending"
      BY DEF NoRun
    <3>2. run' = [run EXCEPT ![Flush] = NoRun] /\ UNCHANGED <<replied, answers>>
      BY <2>4 DEF FlushSettles, marks
    <3>. QED BY <3>1, <3>2, NoRunType, QuietChange
  <2>. QED BY <1>4, <2>1, <2>2, <2>3, <2>4 DEF FlushSteps
<1>5. ASSUME NEW c \in Clicks, ClickSteps(c) \/ \E p \in Procs : ClickStarts(c, p)
      PROVE  Quiet
  <2>. c \in Runs
    BY DEF Runs
  <2>1. CASE ClickSteps(c)
    BY <2>1, QuietMoves DEF ClickSteps, ClickRefused, ClickAsks, ClickEnters, marks
  <2>2. ASSUME NEW p \in Procs, ClickStarts(c, p) PROVE Quiet
    <3>. DEFINE new == [NoRun EXCEPT !.pc = "asking", !.proc = p, !.mark = handled]
    <3>1. new \in RunType /\ new.pc # "sending"
      BY NoRunType DEF RunType, TypeInv, MarksType
    <3>2. run' = [run EXCEPT ![c] = new] /\ UNCHANGED <<replied, answers>>
      BY <2>2 DEF ClickStarts, marks
    <3>. QED BY <3>1, <3>2, QuietChange
  <2>. QED BY <1>5, <2>1, <2>2
<1>6. ASSUME NEW r \in Runs, TurnSteps(r) \/ GateFails(r) \/ CalledOff(r) \/ Throws(r)
      PROVE  Quiet
  <2>1. CASE Fetches(r)
    <3>. DEFINE new == [run[r] EXCEPT !.pc = "selecting", !.target = sent, !.out = lastOut]
    <3>1. sent \in 0..MaxMsgs /\ lastOut \in 0..MaxMsgs
      BY ConstantsAssumption DEF TypeInv, ChatwootType
    <3>2. new \in RunType /\ new.pc # "sending"
      BY <3>1, RunFields DEF RunType
    <3>3. run' = [run EXCEPT ![r] = new] /\ UNCHANGED <<replied, answers>>
      BY <2>1 DEF Fetches, marks
    <3>. QED BY <3>2, <3>3, QuietChange
  <2>2. CASE Selects(r)
    <3>. DEFINE new == [run[r] EXCEPT !.pc = "thinking", !.above = Floor(r), !.out = 0]
    <3>1. UNCHANGED <<replied, answers>>
      BY <2>2 DEF Selects, marks
    <3>2. CASE Floor(r) < run[r].target
      <4>1. Floor(r) \in 0..MaxMsgs /\ 0 \in 0..MaxMsgs
        BY FloorType, ConstantsAssumption DEF TypeInv
      <4>2. new \in RunType
        BY <4>1, RunFields, Zenon DEF RunType
      <4>3. new.pc # "sending"
        BY RunFields DEF RunType
      <4>4. run' = [run EXCEPT ![r] = new]
        BY <2>2, <3>2 DEF Selects
      <4>. QED BY <3>1, <4>2, <4>3, <4>4, QuietChange
    <3>3. CASE ~(Floor(r) < run[r].target)
      BY <2>2, <3>1, <3>3, QuietMoves DEF Selects
    <3>. QED BY <3>2, <3>3
  <2>3. CASE Thinks(r)
    <3>1. (IF owner = "bot" THEN "gating" ELSE "marking") \in Pcs \ {"sending"}
      OBVIOUS
    <3>. QED BY <2>3, <3>1, QuietMoves DEF Thinks, marks
  <2>4. CASE Gates(r) \/ GateFails(r) \/ CalledOff(r) \/ Marks(r) \/ Throws(r)
    BY <2>4, QuietMoves DEF Gates, GateFails, CalledOff, Marks, Throws, marks
  <2>. QED BY <1>6, <2>1, <2>2, <2>3, <2>4 DEF TurnSteps
<1>7. ASSUME NEW p \in Procs, Crashes(p)
      PROVE  Quiet
  <2>1. UNCHANGED <<replied, answers>>
    BY <1>7 DEF Crashes, marks
  <2>2. \A r \in Runs : run'[r] = run[r] \/ run'[r].pc # "sending"
    BY <1>7, NoRunType DEF Crashes, RunType
  <2>. QED BY <2>1, <2>2 DEF Quiet, Sends
<1>. QED BY <1>2, <1>3, <1>4, <1>5, <1>6, <1>7 DEF Next

LEMMA ClaimInvInit == Init => ClaimInv
<1>. SUFFICES ASSUME Init PROVE ClaimInv
  OBVIOUS
<1>1. DOMAIN answers = {}
  BY DEF Init
<1>2. \A r \in Runs : ~Sends(r)
  BY DEF Init, Sends, NoRun
<1>. QED BY <1>1, <1>2 DEF ClaimInv, SendersPast, AnswersPast, SendersApart, SendsAreNew,
                          TargetsOnce

LEMMA IInvStep == IInv /\ [Next]_vars => IInv'
<1>. SUFFICES ASSUME IInv, [Next]_vars PROVE ClaimInv'
  BY TypeInvStep DEF IInv
<1>1. CASE UNCHANGED vars
  BY <1>1, QuietKeeps DEF IInv, Quiet, Sends, vars, marks
<1>2. CASE \E r \in Runs : Claims(r)
  BY <1>2, ClaimsKeep DEF IInv
<1>3. CASE \E r \in Runs : Posts(r)
  BY <1>3, PostsKeep DEF IInv
<1>4. CASE Next /\ \A r \in Runs : ~Claims(r) /\ ~Posts(r)
  BY <1>4, OthersAreQuiet, QuietKeeps DEF IInv
<1>. QED BY <1>1, <1>2, <1>3, <1>4

\* The inductive invariant: what is being sent and what was sent lies at or below the claim
\* column, and no two of them end at the same message.
THEOREM IInvHolds == Spec => []IInv
  BY TypeInvInit, ClaimInvInit, IInvStep, PTL DEF Spec, IInv

\* At most one reply is ever posted for a given last message: the claim of watermark.ts has
\* one winner, for any number of processes, clicks, late deliveries, crashes and retries.
THEOREM OneReplyPerTarget == Spec => []TargetsOnce
<1>1. IInv => TargetsOnce
  BY DEF IInv, ClaimInv
<1>. QED BY <1>1, IInvHolds, PTL

----------------------------------------------------------------------------
(* Where a message is.  When messages are delivered one after another, a    *)
(* message whose delivery is over waits (for a mark, the sweep or a newer   *)
(* message), or the row's burst, which is not consumed yet, reaches to it.  *)

DirectPcs == {"thinking", "gating", "claiming", "sending", "marking"}

\* A delivery that is over without having died let every earlier one end first.
DeliveriesInOrder ==
    \A m \in Msgs :
        /\ delivery[m] = "absent" <=> m > sent
        /\ delivery[m] \in {"passed", "skipping"} => \A k \in 1..(m - 1) : delivery[k] = "done"
        /\ delivery[m] = "done" /\ m \notin stranded => \A k \in 1..(m - 1) : delivery[k] = "done"

\* A direct turn answers its own message, once the delivery has ended in it.
DirectTurns ==
    \A m \in Msgs :
        /\ run[m].pc \in {"idle", "done"} \cup DirectPcs
        /\ run[m].pc # "idle" => delivery[m] = "done"
        /\ run[m].pc \in DirectPcs => run[m].target = m

\* The flush that holds the row knows its burst: exactly, off the payload, until it fetches,
\* and within what it fetched from then on.
FlushKnowsBurst ==
    /\ row.last <= sent /\ run[Flush].mark <= handled
    /\ row.held =>
        /\ run[Flush].pc \in {"reading", "dropping"} => run[Flush].armed = row.last
        /\ run[Flush].pc \in DirectPcs \cup {"selecting"} => row.last <= run[Flush].target

Unfinished(m) == delivery[m] # "done" \/ run[m].pc \in TurnPcs
Waits(m) == Marked(m) \/ Lapsed(m) \/ LeftToSweep(m) \/ \E n \in m..sent : Unfinished(n)

\* The burst has been consumed, but for the write that says so.
Consumed == row.held /\ run[Flush].pc = "settling" /\ run[Flush].outcome = "done"
BurstEnd == IF row.status \in {"ABSENT", "DONE"} \/ Consumed THEN 0 ELSE row.last

Covered ==
    row.status = "DEAD" \/
    \A m \in 1..sent : delivery[m] = "done" => Waits(m) \/ m <= BurstEnd

PlaceInv == DeliveriesInOrder /\ DirectTurns /\ FlushKnowsBurst /\ Covered

LEMMA GoesTo ==
    ASSUME RunsType, NEW r \in Runs, NEW pc \in Pcs, Goes(r, pc)
    PROVE  /\ run'[r].pc = pc /\ run'[r].armed = run[r].armed /\ run'[r].mark = run[r].mark
           /\ run'[r].target = run[r].target /\ run'[r].outcome = run[r].outcome
           /\ \A q \in Runs \ {r} : run'[q] = run[q]
<1>. DEFINE new == [run[r] EXCEPT !.pc = pc]
<1>1. run' = [run EXCEPT ![r] = new]
  BY DEF Goes
<1>2. /\ new.pc = pc /\ new.armed = run[r].armed /\ new.mark = run[r].mark
      /\ new.target = run[r].target /\ new.outcome = run[r].outcome
  BY RunFields DEF RunType
<1>. HIDE DEF new
<1>. QED BY <1>1, <1>2 DEF RunsType

LEMMA LeavesTo ==
    ASSUME RunsType, NEW r \in Runs, NEW outcome \in {"done", "fail", "later"}, Leaves(r, outcome)
    PROVE  /\ run'[r].pc = IF r = Flush THEN "settling" ELSE "done"
           /\ r = Flush => run'[r].outcome = outcome
           /\ run'[r].mark = 0
           /\ \A q \in Runs \ {r} : run'[q] = run[q]
<1>. DEFINE new == Ended(r, outcome)
<1>1. run' = [run EXCEPT ![r] = new]
  BY DEF Leaves
<1>2. /\ new.pc = IF r = Flush THEN "settling" ELSE "done"
      /\ r = Flush => new.outcome = outcome
      /\ new.mark = 0
  BY DEF Ended, NoRun
<1>. HIDE DEF new
<1>. QED BY <1>1, <1>2 DEF RunsType

\* Neither a mark, nor Chatwoot's history, nor what is left to the sweep ever goes back.
Grows == /\ sent <= sent' /\ handled <= handled' /\ replied <= replied' /\ lapsed <= lapsed'
         /\ stranded \subseteq stranded'

LEMMA LargerGrows == \A a, b \in 0..MaxMsgs : a <= Larger(a, b) /\ b <= Larger(a, b)
  BY DEF Larger

\* All but the customer and the deliveries.
OtherSteps ==
    \/ OwnerChanges \/ HumanAnswers \/ FlushSteps \/ Reaps \/ Resets
    \/ \E c \in Clicks : ClickSteps(c) \/ \E p \in Procs : ClickStarts(c, p)
    \/ \E r \in Runs : TurnSteps(r) \/ GateFails(r) \/ CalledOff(r) \/ Throws(r)
    \/ \E p \in Procs : Crashes(p)

LEMMA OthersLeaveDeliveries ==
    ASSUME TypeInv, OtherSteps
    PROVE  UNCHANGED <<sent, delivery>> /\ Grows
<1>. /\ sent \in Nat /\ handled \in 0..MaxMsgs /\ replied \in 0..MaxMsgs
     /\ lapsed \in 0..MaxMsgs
  BY ConstantsAssumption DEF TypeInv, ChatwootType, MarksType
<1>1. CASE OwnerChanges \/ HumanAnswers \/ Reaps
  BY <1>1 DEF OwnerChanges, HumanAnswers, Reaps, Grows, intake, marks, chatwoot
<1>2. CASE FlushSteps
  <2>1. CASE FlushDrops
    BY <2>1, LargerGrows, RunFields, FlushIsRun DEF FlushDrops, Grows, intake, chatwoot, TypeInv
  <2>2. CASE FlushFindsNobody
    BY <2>2, LargerGrows, RunFields, FlushIsRun DEF FlushFindsNobody, Grows, intake, chatwoot,
                                                    TypeInv
  <2>3. CASE ~FlushDrops /\ ~FlushFindsNobody
    BY <1>2, <2>3 DEF FlushSteps, FlushClaims, FlushReads, FlushEnters, FlushDefers,
                     FlushOverrides, FlushSettles, Grows, intake, marks, chatwoot
  <2>. QED BY <2>1, <2>2, <2>3
<1>3. ASSUME NEW c \in Clicks, ClickSteps(c) \/ \E p \in Procs : ClickStarts(c, p)
      PROVE  UNCHANGED <<sent, delivery>> /\ Grows
  <2>1. UNCHANGED <<chatwoot, intake, marks>>
    BY <1>3, Zenon DEF ClickSteps, ClickRefused, ClickAsks, ClickEnters, ClickStarts
  <2>. QED BY <2>1 DEF Grows, intake, marks, chatwoot
<1>4. ASSUME NEW r \in Runs, TurnSteps(r) \/ GateFails(r) \/ CalledOff(r) \/ Throws(r)
      PROVE  UNCHANGED <<sent, delivery>> /\ Grows
  <2>1. CASE Fetches(r) \/ Selects(r) \/ Thinks(r) \/ Gates(r) \/ GateFails(r) \/ Posts(r)
    BY <2>1 DEF Fetches, Selects, Thinks, Gates, GateFails, Posts, Grows, intake, marks, chatwoot
  <2>2. CASE Claims(r)
    BY <2>2, RunFields DEF Claims, Grows, intake, chatwoot, TypeInv
  <2>3. CASE Marks(r)
    BY <2>3, LargerGrows, RunFields DEF Marks, Grows, intake, chatwoot, TypeInv
  <2>4. CASE Throws(r)
    BY <2>4 DEF Throws, Grows, marks, chatwoot
  <2>5. CASE CalledOff(r)
    BY <2>5, LargerGrows, RunFields DEF CalledOff, Grows, intake, chatwoot, TypeInv
  <2>. QED BY <1>4, <2>1, <2>2, <2>3, <2>4, <2>5 DEF TurnSteps
<1>5. ASSUME NEW p \in Procs, Crashes(p)
      PROVE  UNCHANGED <<sent, delivery>> /\ Grows
  BY <1>5 DEF Crashes, Grows, marks, chatwoot
<1>6. CASE Resets
  BY <1>6, LargerGrows DEF Resets, Grows, intake, chatwoot, TypeInv, RowInv, RowType
<1>. QED BY <1>1, <1>2, <1>3, <1>4, <1>5, <1>6 DEF OtherSteps

LEMMA IntakeGrows ==
    ASSUME TypeInv,
           CustomerWrites \/ \E m \in Msgs : DeliverySteps(m) \/ \E p \in Procs : TurnsDirect(m, p)
    PROVE  Grows
<1>. /\ sent \in Nat /\ handled \in 0..MaxMsgs /\ replied \in 0..MaxMsgs
     /\ lapsed \in 0..MaxMsgs
  BY ConstantsAssumption DEF TypeInv, ChatwootType, MarksType
<1>1. CASE CustomerWrites
  BY <1>1 DEF CustomerWrites, Grows, marks
<1>2. ASSUME NEW m \in Msgs, DeliverySteps(m) \/ \E p \in Procs : TurnsDirect(m, p)
      PROVE  Grows
  <2>1. CASE DeliverySkips(m)
    BY <2>1, LargerGrows, MsgsInRange DEF DeliverySkips, Grows, chatwoot
  <2>2. CASE ~DeliverySkips(m)
    <3>1. UNCHANGED <<chatwoot, marks>> /\ (stranded' = stranded \/ stranded' = stranded \cup {m})
      BY <1>2, <2>2, Zenon DEF DeliverySteps, DeliveryGates, DeliveryArms, DeliveryDies, TurnsDirect
    <3>. QED BY <3>1 DEF Grows, chatwoot, marks
  <2>. QED BY <2>1, <2>2
<1>. QED BY <1>1, <1>2

----------------------------------------------------------------------------
(* Deliveries stay in order. *)

LEMMA MsgsAre == Msgs = 1..MaxMsgs /\ Msgs \subseteq Nat /\ MaxMsgs \in Nat
  BY ConstantsAssumption DEF Msgs

LEMMA OrderStep ==
    ASSUME TypeInv, Ordered, DeliveriesInOrder, Next
    PROVE  DeliveriesInOrder'
<1>. USE MsgsAre
<1>. delivery \in [Msgs -> {"absent", "coming", "passed", "skipping", "done"}] /\ sent \in Nat
  BY DEF TypeInv, IntakeType, ChatwootType
<1>1. CASE CustomerWrites
  <2>1. /\ sent' = sent + 1 /\ sent + 1 \in Msgs /\ stranded' = stranded
        /\ delivery' = [delivery EXCEPT ![sent + 1] = "coming"]
    BY <1>1 DEF CustomerWrites
  <2>2. delivery[sent + 1] = "absent"
    BY <2>1 DEF DeliveriesInOrder
  <2>3. \A m \in Msgs : m # sent + 1 => delivery'[m] = delivery[m]
    BY <2>1
  <2>4. delivery'[sent + 1] = "coming"
    BY <2>1
  <2>5. ASSUME NEW m \in Msgs PROVE delivery'[m] = "absent" <=> m > sent'
    BY <2>1, <2>3, <2>4 DEF DeliveriesInOrder
  <2>6. ASSUME NEW m \in Msgs, delivery'[m] \in {"passed", "skipping", "done"},
               delivery'[m] = "done" => m \notin stranded,
               NEW k \in 1..(m - 1)
        PROVE  delivery'[k] = "done"
    <3>1. m # sent + 1 /\ delivery[m] = delivery'[m] /\ k \in Msgs
      BY <2>3, <2>4, <2>6
    <3>2. delivery[k] = "done"
      BY <2>6, <3>1 DEF DeliveriesInOrder
    <3>. QED BY <2>2, <2>3, <3>1, <3>2
  <2>. QED BY <2>1, <2>5, <2>6 DEF DeliveriesInOrder
<1>2. ASSUME NEW m \in Msgs, DeliverySteps(m) \/ \E p \in Procs : TurnsDirect(m, p)
      PROVE  DeliveriesInOrder'
  <2>1. PICK new \in {"passed", "skipping", "done"} :
           /\ delivery' = [delivery EXCEPT ![m] = new] /\ sent' = sent
           /\ delivery[m] \in {"coming", "passed", "skipping"}
           /\ stranded \subseteq stranded'
           /\ new = "done" /\ m \notin stranded' => delivery[m] \in {"passed", "skipping"}
           /\ new \in {"passed", "skipping"} => \A k \in 1..(m - 1) : delivery[k] = "done"
    <3>1. CASE DeliveryGates(m)
      BY <1>2, <3>1 DEF DeliveryGates, chatwoot
    <3>2. CASE ~DeliveryGates(m)
      BY <1>2, <3>2 DEF DeliverySteps, DeliverySkips, DeliveryArms, DeliveryDies, TurnsDirect,
                       chatwoot, intake
    <3>. QED BY <3>1, <3>2
  <2>2. delivery'[m] = new /\ \A n \in Msgs : n # m => delivery'[n] = delivery[n]
    BY <2>1
  <2>3. \A n \in Msgs : delivery[n] = "done" => delivery'[n] = "done"
    BY <2>1, <2>2
  <2>4. ASSUME NEW n \in Msgs PROVE delivery'[n] = "absent" <=> n > sent'
    BY <2>1, <2>2 DEF DeliveriesInOrder
  <2>5. ASSUME NEW n \in Msgs, delivery'[n] \in {"passed", "skipping", "done"},
               delivery'[n] = "done" => n \notin stranded',
               NEW k \in 1..(n - 1)
        PROVE  delivery'[k] = "done"
    <3>1. k \in Msgs
      OBVIOUS
    <3>2. delivery[k] = "done"
      <4>1. CASE n = m /\ new = "done"
        BY <2>1, <2>2, <2>5, <4>1 DEF DeliveriesInOrder
      <4>2. CASE n = m /\ new # "done"
        BY <2>1, <4>2
      <4>3. CASE n # m
        BY <2>1, <2>2, <2>5, <4>3 DEF DeliveriesInOrder
      <4>. QED BY <4>1, <4>2, <4>3
    <3>. QED BY <2>3, <3>1, <3>2
  <2>. QED BY <2>4, <2>5 DEF DeliveriesInOrder
<1>3. CASE OtherSteps
  <2>1. sent' = sent /\ delivery' = delivery /\ stranded \subseteq stranded'
    BY <1>3, OthersLeaveDeliveries DEF Grows
  <2>. QED BY <2>1 DEF DeliveriesInOrder
<1>. QED BY <1>1, <1>2, <1>3 DEF Next, OtherSteps

----------------------------------------------------------------------------
(* Direct turns stay with their messages. *)

OnlyMoves(r) == \A q \in Runs \ {r} : run'[q] = run[q]

LEMMA OneMoves ==
    ASSUME TypeInv
    PROVE  /\ FlushSteps => OnlyMoves(Flush)
           /\ \A c \in Clicks : ClickSteps(c) \/ (\E p \in Procs : ClickStarts(c, p)) => OnlyMoves(c)
           /\ \A r \in Runs : TurnSteps(r) \/ GateFails(r) \/ CalledOff(r) \/ Throws(r) => OnlyMoves(r)
<1>. DEFINE Set(r) == \E new : run' = [run EXCEPT ![r] = new]
<1>. RunsType
  BY DEF TypeInv
<1>1. ASSUME NEW r \in Runs, Set(r) PROVE OnlyMoves(r)
  BY <1>1 DEF RunsType, OnlyMoves
<1>2. ASSUME FlushSteps PROVE Set(Flush)
  BY <1>2, Zenon DEF FlushSteps, FlushClaims, FlushReads, FlushFindsNobody, FlushDrops, FlushEnters,
                     FlushDefers, FlushOverrides, FlushSettles, Goes, Leaves
<1>3. ASSUME NEW c \in Clicks, ClickSteps(c) \/ \E p \in Procs : ClickStarts(c, p)
      PROVE  Set(c)
  BY <1>3, Zenon DEF ClickSteps, ClickRefused, ClickAsks, ClickEnters, ClickStarts, Goes, Leaves
<1>4. ASSUME NEW r \in Runs, TurnSteps(r) \/ GateFails(r) \/ CalledOff(r) \/ Throws(r) PROVE Set(r)
  <2>1. CASE \/ Fetches(r) \/ Thinks(r) \/ GateFails(r) \/ Posts(r) \/ Marks(r)
             \/ CalledOff(r) \/ Throws(r)
    BY <2>1, Zenon DEF Fetches, Thinks, GateFails, Posts, Marks, CalledOff, Throws, Goes, Leaves
  <2>2. CASE Selects(r) \/ Gates(r) \/ Claims(r)
    BY <2>2, Zenon DEF Selects, Gates, Claims, Goes, Leaves
  <2>. QED BY <1>4, <2>1, <2>2 DEF TurnSteps
<1>. HIDE DEF Set
<1>. QED BY <1>1, <1>2, <1>3, <1>4, FlushIsRun DEF Runs

LEMMA DoneStays ==
    ASSUME TypeInv, DeliveriesInOrder, Next, NEW m \in Msgs, delivery[m] = "done"
    PROVE  delivery'[m] = "done"
<1>. USE MsgsAre
<1>. delivery \in [Msgs -> {"absent", "coming", "passed", "skipping", "done"}] /\ sent \in Nat
  BY DEF TypeInv, IntakeType, ChatwootType
<1>1. CASE CustomerWrites
  <2>1. m # sent + 1
    BY DEF DeliveriesInOrder
  <2>. QED BY <1>1, <2>1 DEF CustomerWrites
<1>2. ASSUME NEW n \in Msgs, DeliverySteps(n) \/ \E p \in Procs : TurnsDirect(n, p)
      PROVE  delivery'[m] = "done"
  BY <1>2 DEF DeliverySteps, DeliveryGates, DeliverySkips, DeliveryArms, DeliveryDies, TurnsDirect
<1>3. CASE OtherSteps
  BY <1>3, OthersLeaveDeliveries
<1>. QED BY <1>1, <1>2, <1>3 DEF Next, OtherSteps

\* What a step of a direct turn's own leads to.
LEMMA DirectMoves ==
    ASSUME TypeInv, DirectTurns, NEW r \in Msgs, TurnSteps(r) \/ GateFails(r) \/ CalledOff(r) \/ Throws(r)
    PROVE  /\ run[r].pc \in DirectPcs
           /\ \/ run'[r].pc \in DirectPcs /\ run'[r].target = run[r].target
              \/ run'[r].pc = "done"
<1>. USE PcsMembers
<1>. r \in Runs /\ r # Flush /\ RunsType
  BY ConstantsAssumption DEF Runs, TypeInv
<1>1. run[r].pc \notin {"fetching", "selecting", "reading"}
  BY DEF DirectTurns, DirectPcs
<1>2. CASE Thinks(r)
  <2>1. (IF owner = "bot" THEN "gating" ELSE "marking") \in Pcs \cap DirectPcs
    BY DEF DirectPcs
  <2>. QED BY <1>2, <2>1, GoesTo DEF Thinks, DirectPcs
<1>3. CASE Gates(r)
  BY <1>3, GoesTo, LeavesTo DEF Gates, DirectPcs
<1>4. CASE GateFails(r)
  BY <1>4, GoesTo DEF GateFails, DirectPcs
<1>5. CASE Claims(r)
  BY <1>5, GoesTo, LeavesTo DEF Claims, DirectPcs
<1>6. CASE Posts(r)
  BY <1>6, GoesTo DEF Posts, DirectPcs
<1>7. CASE Marks(r)
  BY <1>7, LeavesTo DEF Marks, DirectPcs
<1>8. CASE Throws(r)
  BY <1>1, <1>8, LeavesTo DEF Throws, DirectPcs
<1>9. CASE CalledOff(r)
  BY <1>9, LeavesTo DEF CalledOff, InFlight, DirectPcs
<1>. QED BY <1>1, <1>2, <1>3, <1>4, <1>5, <1>6, <1>7, <1>8, <1>9 DEF TurnSteps, Fetches, Selects

LEMMA DirectStep ==
    ASSUME TypeInv, DeliveriesInOrder, DirectTurns, Next
    PROVE  DirectTurns'
<1>. USE PcsMembers
<1>. RunsType /\ Msgs \subseteq Runs /\ Flush \notin Msgs /\ Clicks \cap Msgs = {}
  BY ConstantsAssumption DEF Runs, TypeInv
<1>1. \A m \in Msgs : delivery[m] = "done" => delivery'[m] = "done"
  BY DoneStays
<1>2. ASSUME \A m \in Msgs : run'[m] = run[m] PROVE DirectTurns'
  BY <1>1, <1>2 DEF DirectTurns
<1>3. CASE CustomerWrites \/ OwnerChanges \/ HumanAnswers \/ Reaps \/ Resets
  BY <1>2, <1>3 DEF CustomerWrites, OwnerChanges, HumanAnswers, Reaps, Resets
<1>4. ASSUME NEW m \in Msgs, DeliverySteps(m) PROVE DirectTurns'
  BY <1>2, <1>4 DEF DeliverySteps, DeliveryGates, DeliverySkips, DeliveryArms, DeliveryDies
<1>5. ASSUME NEW m \in Msgs, NEW p \in Procs, TurnsDirect(m, p) PROVE DirectTurns'
  <2>. DEFINE new == [NoRun EXCEPT !.pc = "thinking", !.proc = p, !.above = m - 1, !.target = m]
  <2>1. run' = [run EXCEPT ![m] = new] /\ delivery' = [delivery EXCEPT ![m] = "done"]
    BY <1>5 DEF TurnsDirect
  <2>2. new.pc = "thinking" /\ new.target = m
    BY NoRunType DEF RunType
  <2>. HIDE DEF new
  <2>3. run'[m] = new /\ \A n \in Msgs \ {m} : run'[n] = run[n]
    BY <2>1 DEF RunsType
  <2>4. delivery'[m] = "done"
    BY <2>1 DEF TypeInv, IntakeType
  <2>. QED BY <1>1, <2>2, <2>3, <2>4 DEF DirectTurns, DirectPcs
<1>6. CASE FlushSteps
  BY <1>2, <1>6, OneMoves DEF OnlyMoves
<1>7. ASSUME NEW c \in Clicks, ClickSteps(c) \/ \E p \in Procs : ClickStarts(c, p)
      PROVE  DirectTurns'
  BY <1>2, <1>7, OneMoves DEF OnlyMoves
<1>8. ASSUME NEW r \in Runs, TurnSteps(r) \/ GateFails(r) \/ CalledOff(r) \/ Throws(r) PROVE DirectTurns'
  <2>1. CASE r \notin Msgs
    BY <1>2, <1>8, <2>1, OneMoves DEF OnlyMoves
  <2>2. CASE r \in Msgs
    <3>1. \A m \in Msgs \ {r} : run'[m] = run[m]
      BY <1>8, OneMoves DEF OnlyMoves
    <3>2. /\ run[r].pc \in DirectPcs
          /\ \/ run'[r].pc \in DirectPcs /\ run'[r].target = run[r].target
             \/ run'[r].pc = "done"
      BY <1>8, <2>2, DirectMoves
    <3>. QED BY <1>1, <3>1, <3>2 DEF DirectTurns, DirectPcs
  <2>. QED BY <2>1, <2>2
<1>9. ASSUME NEW p \in Procs, Crashes(p) PROVE DirectTurns'
  <2>1. \A m \in Msgs : run'[m] = run[m] \/ (run'[m].pc = "done" /\ run[m].pc # "idle")
    BY <1>9, NoRunType DEF Crashes, RunType
  <2>. QED BY <1>1, <2>1 DEF DirectTurns, DirectPcs
<1>. QED BY <1>3, <1>4, <1>5, <1>6, <1>7, <1>8, <1>9 DEF Next

----------------------------------------------------------------------------
(* The flush that holds the row keeps knowing its burst. *)

LEMMA RowFields ==
    ASSUME row \in RowType
    PROVE  /\ row.status \in {"ABSENT", "PENDING", "CLAIMED", "DONE", "DEAD"} /\ row.held \in BOOLEAN
           /\ row.last \in 0..MaxMsgs
  BY DEF RowType

LEMMA FailedRow ==
    ASSUME row \in RowType
    PROVE  Failed.last = row.last /\ Failed.held = FALSE /\ Failed.status \in {"DEAD", "PENDING"}
<1>. DEFINE status == IF row.attempts + 1 >= MaxAttempts THEN "DEAD" ELSE "PENDING"
            count == row.attempts + 1
<1>1. Failed = [row EXCEPT !.status = status, !.attempts = count, !.held = FALSE]
  BY Zenon DEF Failed
<1>2. status \in {"DEAD", "PENDING"}
  OBVIOUS
<1>. HIDE DEF status, count
<1>. QED BY <1>1, <1>2 DEF RowType

LEMMA OutcomeRow ==
    ASSUME row \in RowType, NEW outcome \in {"done", "fail", "later"}
    PROVE  /\ Outcome(outcome).last = row.last /\ Outcome(outcome).held = FALSE
           /\ Outcome(outcome).status = "DONE" => outcome = "done"
           /\ Outcome(outcome).status # "ABSENT"
<1>1. CASE outcome = "fail"
  <2>1. Outcome(outcome) = Failed
    BY <1>1 DEF Outcome
  <2>. QED BY <1>1, <2>1, FailedRow
<1>2. CASE outcome = "done"
  <2>1. Outcome(outcome) = [row EXCEPT !.status = "DONE", !.held = FALSE]
    BY <1>2 DEF Outcome
  <2>. QED BY <1>2, <2>1 DEF RowType
<1>3. CASE outcome = "later"
  <2>1. Outcome(outcome) = [row EXCEPT !.status = "PENDING", !.attempts = 0, !.held = FALSE]
    BY <1>3 DEF Outcome
  <2>. QED BY <1>3, <2>1 DEF RowType
<1>. QED BY <1>1, <1>2, <1>3

LEMMA ArmedRow ==
    ASSUME row \in RowType, NEW m \in Msgs
    PROVE  /\ ArmedFor(m).held = FALSE /\ ArmedFor(m).status = "PENDING"
           /\ m <= ArmedFor(m).last
           /\ \A n \in Nat : m <= n /\ row.last <= n => ArmedFor(m).last <= n
<1>. DEFINE last == IF row.status = "PENDING" THEN Larger(row.last, m) ELSE m
            count == IF row.status = "PENDING" THEN row.attempts ELSE 0
<1>1. ArmedFor(m) = [status |-> "PENDING", held |-> FALSE, attempts |-> count, last |-> last]
  BY Zenon DEF ArmedFor
<1>2. row.last \in 0..MaxMsgs /\ m \in Nat
  BY RowFields, MsgsAre
<1>3. m <= last /\ \A n \in Nat : m <= n /\ row.last <= n => last <= n
  BY <1>2 DEF Larger
<1>. HIDE DEF last, count
<1>. QED BY <1>1, <1>3

\* What FlushKnowsBurst compares, before and after a step.
LEMMA BurstNumbers ==
    ASSUME TypeInv, TypeInv'
    PROVE  /\ row.last \in Nat /\ sent \in Nat /\ handled \in Nat /\ row'.last \in Nat
           /\ sent' \in Nat /\ handled' \in Nat
           /\ run[Flush].mark \in Nat /\ run'[Flush].mark \in Nat /\ run[Flush].target \in Nat
<1>1. sent \in Nat /\ handled \in Nat /\ sent' \in Nat /\ handled' \in Nat
  BY MsgsAre DEF TypeInv, ChatwootType, MarksType
<1>2. row \in RowType /\ row' \in RowType
  BY DEF TypeInv, RowInv
<1>3. row.last \in Nat /\ row'.last \in Nat
  BY <1>2, MsgsAre DEF RowType
<1>4. run[Flush] \in RunType /\ run'[Flush] \in RunType
  BY FlushIsRun DEF TypeInv, RunsType
<1>5. run[Flush].mark \in Nat /\ run'[Flush].mark \in Nat /\ run[Flush].target \in Nat
  BY <1>4, MsgsAre DEF RunType
<1>. QED BY <1>1, <1>3, <1>5

\* The row is left alone and the flush stays where it is, or goes on with its burst.
LEMMA BurstKept ==
    ASSUME TypeInv, TypeInv', FlushKnowsBurst, Grows, UNCHANGED row,
           run'[Flush].mark = run[Flush].mark \/ run'[Flush].mark <= handled,
           run'[Flush].pc \in {"reading", "dropping"} =>
               run[Flush].pc \in {"reading", "dropping"} /\ run'[Flush].armed = run[Flush].armed,
           run'[Flush].pc \in DirectPcs \cup {"selecting"} =>
               \/ /\ run[Flush].pc \in DirectPcs \cup {"selecting"}
                  /\ run'[Flush].target = run[Flush].target
               \/ run'[Flush].target = sent
    PROVE  FlushKnowsBurst'
<1>1. /\ row.last \in Nat /\ sent \in Nat /\ handled \in Nat
      /\ sent' \in Nat /\ handled' \in Nat /\ run[Flush].mark \in Nat /\ run'[Flush].mark \in Nat
      /\ run[Flush].target \in Nat
  BY BurstNumbers
<1>. QED BY <1>1 DEF FlushKnowsBurst, Grows

\* The row changes hands, or is let go, and the flush stays where it is or ends.
LEMMA BurstLetGo ==
    ASSUME TypeInv, TypeInv', FlushKnowsBurst, Grows, ~row'.held,
           row'.last = row.last \/ row'.last <= sent,
           run'[Flush].mark = run[Flush].mark \/ run'[Flush].mark = 0
    PROVE  FlushKnowsBurst'
<1>1. /\ row.last \in Nat /\ sent \in Nat /\ handled \in Nat /\ row'.last \in Nat
      /\ sent' \in Nat /\ handled' \in Nat /\ run[Flush].mark \in Nat /\ run'[Flush].mark \in Nat
  BY BurstNumbers
<1>. QED BY <1>1 DEF FlushKnowsBurst, Grows

LEMMA StepGrows == ASSUME TypeInv, Next PROVE Grows
  BY OthersLeaveDeliveries, IntakeGrows DEF Next, OtherSteps

LEMMA BurstStep ==
    ASSUME TypeInv, DeliveriesInOrder, DirectTurns, FlushKnowsBurst, Next
    PROVE  FlushKnowsBurst'
<1>. USE PcsMembers, FlushIsRun
<1>0. /\ TypeInv' /\ Grows /\ RunsType /\ row \in RowType /\ MarksType /\ handled \in Nat
      /\ Flush \notin Msgs /\ Flush \notin Clicks
  BY TypeInvStep, StepGrows, ConstantsAssumption, MsgsAre DEF TypeInv, RowInv, MarksType
<1>1. ASSUME UNCHANGED row, run'[Flush] = run[Flush] PROVE FlushKnowsBurst'
  BY <1>0, <1>1, BurstKept
<1>2. CASE CustomerWrites \/ OwnerChanges \/ HumanAnswers
  BY <1>1, <1>2 DEF CustomerWrites, OwnerChanges, HumanAnswers
<1>3. ASSUME NEW m \in Msgs, DeliverySteps(m) \/ \E p \in Procs : TurnsDirect(m, p)
      PROVE  FlushKnowsBurst'
  <2>1. CASE DeliveryArms(m)
    <3>1. row' = ArmedFor(m) /\ run' = run /\ m <= sent
      BY <2>1, MsgsAre DEF DeliveryArms, DeliveriesInOrder, TypeInv, ChatwootType
    <3>2. row'.last <= sent
      <4>1. row.last <= sent /\ sent \in Nat
        BY MsgsAre DEF FlushKnowsBurst, TypeInv, ChatwootType
      <4>2. ArmedFor(m).last <= sent
        BY <1>0, <3>1, <4>1, ArmedRow
      <4>. QED BY <3>1, <4>2
    <3>. QED BY <1>0, <3>1, <3>2, ArmedRow, BurstLetGo
  <2>2. CASE DeliveryGates(m) \/ DeliverySkips(m) \/ DeliveryDies(m)
    BY <1>1, <2>2 DEF DeliveryGates, DeliverySkips, DeliveryDies
  <2>3. ASSUME NEW p \in Procs, TurnsDirect(m, p) PROVE FlushKnowsBurst'
    BY <1>0, <1>1, <2>3 DEF TurnsDirect, RunsType
  <2>. QED BY <1>3, <2>1, <2>2, <2>3 DEF DeliverySteps
<1>4. CASE FlushClaims
  <2>. DEFINE new == [NoRun EXCEPT !.pc = "reading", !.armed = row.last]
              claimed == [row EXCEPT !.status = "CLAIMED", !.held = TRUE]
  <2>1. run' = [run EXCEPT ![Flush] = new] /\ row' = claimed
    BY <1>4 DEF FlushClaims
  <2>2. new.pc = "reading" /\ new.armed = row.last /\ new.mark = 0
    BY NoRunType DEF RunType, NoRun
  <2>3. claimed.last = row.last
    BY <1>0 DEF RowType
  <2>. HIDE DEF new, claimed
  <2>4. run'[Flush] = new /\ sent' = sent /\ handled' = handled
    BY <1>0, <1>4, <2>1 DEF RunsType, FlushClaims, chatwoot, marks
  <2>. QED BY <1>0, <2>1, <2>2, <2>3, <2>4 DEF FlushKnowsBurst, DirectPcs
<1>5. CASE FlushReads
  <2>1. PICK next \in {"checking", "dropping"} :
           run' = [run EXCEPT ![Flush].pc = next, ![Flush].mark = handled]
    BY <1>5 DEF FlushReads
  <2>. DEFINE new == [run[Flush] EXCEPT !.pc = next, !.mark = handled]
  <2>2. run' = [run EXCEPT ![Flush] = new]
    BY <2>1
  <2>3. new.pc = next /\ new.mark = handled /\ new.armed = run[Flush].armed
    BY <1>0, RunFields DEF RunType
  <2>. HIDE DEF new
  <2>4. run'[Flush] = new
    BY <1>0, <2>2 DEF RunsType
  <2>. QED BY <1>0, <1>5, <2>3, <2>4, BurstKept DEF FlushReads, DirectPcs
<1>6. CASE FlushFindsNobody \/ FlushDrops \/ FlushDefers
  BY <1>0, <1>6, LeavesTo, BurstKept DEF FlushFindsNobody, FlushDrops, FlushDefers, DirectPcs
<1>7. CASE FlushEnters \/ FlushOverrides
  BY <1>0, <1>7, GoesTo, BurstKept DEF FlushEnters, FlushOverrides, DirectPcs
<1>8. CASE FlushSettles
  <2>1. run' = [run EXCEPT ![Flush] = NoRun] /\ NoRun.pc = "idle" /\ NoRun.mark = 0
    BY <1>8 DEF FlushSettles, NoRun
  <2>2. run'[Flush] = NoRun
    BY <1>0, <2>1 DEF RunsType
  <2>3. CASE row.held
    <3>1. row' = Outcome(run[Flush].outcome) /\ run[Flush].outcome \in {"done", "fail", "later"}
      BY <1>0, <1>8, <2>3, RunFields DEF FlushSettles
    <3>. QED BY <1>0, <2>1, <2>2, <3>1, OutcomeRow, BurstLetGo
  <2>4. CASE ~row.held
    BY <1>0, <1>8, <2>1, <2>2, <2>4, BurstKept DEF FlushSettles, DirectPcs
  <2>. QED BY <2>3, <2>4
<1>9. ASSUME NEW c \in Clicks, ClickSteps(c) \/ \E p \in Procs : ClickStarts(c, p)
      PROVE  FlushKnowsBurst'
  <2>1. run'[Flush] = run[Flush]
    BY <1>0, <1>9, OneMoves DEF OnlyMoves
  <2>2. UNCHANGED row
    BY <1>9 DEF ClickSteps, ClickRefused, ClickAsks, ClickEnters, ClickStarts
  <2>. QED BY <1>1, <2>1, <2>2
<1>10. ASSUME NEW r \in Runs, TurnSteps(r) \/ GateFails(r) \/ CalledOff(r) \/ Throws(r) PROVE FlushKnowsBurst'
  <2>1. UNCHANGED row
    BY <1>10 DEF TurnSteps, Fetches, Selects, Thinks, Gates, GateFails, Claims, Posts, Marks, CalledOff,
           Throws
  <2>2. CASE r # Flush
    <3>1. run'[Flush] = run[Flush]
      BY <1>10, <2>2, OneMoves DEF OnlyMoves
    <3>. QED BY <1>1, <2>1, <3>1
  <2>3. CASE r = Flush
    <3>1. CASE Fetches(r)
      <4>. DEFINE new == [run[Flush] EXCEPT !.pc = "selecting", !.target = sent, !.out = lastOut]
      <4>1. run' = [run EXCEPT ![Flush] = new]
        BY <2>3, <3>1 DEF Fetches
      <4>2. new.pc = "selecting" /\ new.target = sent /\ new.mark = run[Flush].mark
        BY <1>0, RunFields DEF RunType
      <4>. HIDE DEF new
      <4>3. run'[Flush] = new
        BY <1>0, <4>1 DEF RunsType
      <4>. QED BY <1>0, <2>1, <4>2, <4>3, BurstKept
    <3>2. CASE Selects(r) /\ Floor(r) < run[r].target
      <4>. DEFINE new == [run[Flush] EXCEPT !.pc = "thinking", !.above = Floor(r), !.out = 0]
      <4>1. run' = [run EXCEPT ![Flush] = new] /\ run[Flush].pc = "selecting"
        BY <2>3, <3>2 DEF Selects
      <4>2. new.pc = "thinking" /\ new.target = run[Flush].target /\ new.mark = run[Flush].mark
        BY <1>0, RunFields DEF RunType
      <4>. HIDE DEF new
      <4>3. run'[Flush] = new
        BY <1>0, <4>1 DEF RunsType
      <4>. QED BY <1>0, <2>1, <4>1, <4>2, <4>3, BurstKept DEF DirectPcs
    <3>3. CASE Selects(r) /\ ~(Floor(r) < run[r].target)
      BY <1>0, <2>1, <2>3, <3>3, LeavesTo, BurstKept DEF Selects, DirectPcs
    <3>4. CASE Thinks(r)
      <4>. DEFINE next == IF owner = "bot" THEN "gating" ELSE "marking"
      <4>1. Goes(Flush, next) /\ run[Flush].pc = "thinking"
        BY <2>3, <3>4 DEF Thinks
      <4>2. next \in {"gating", "marking"}
        OBVIOUS
      <4>. HIDE DEF next
      <4>3. next \in Pcs
        BY <4>2
      <4>4. run'[Flush].pc = next /\ run'[Flush].target = run[Flush].target
            /\ run'[Flush].mark = run[Flush].mark
        BY <1>0, <4>1, <4>3, GoesTo
      <4>. QED BY <1>0, <2>1, <4>1, <4>2, <4>4, BurstKept DEF DirectPcs
    <3>5. CASE Gates(r) \/ GateFails(r) \/ Claims(r)
      BY <1>0, <2>1, <2>3, <3>5, GoesTo, LeavesTo, BurstKept
         DEF Gates, GateFails, Claims, DirectPcs
    <3>6. CASE Posts(r)
      BY <1>0, <2>1, <2>3, <3>6, GoesTo, BurstKept DEF Posts, DirectPcs
    <3>7. CASE Marks(r) \/ CalledOff(r) \/ Throws(r)
      BY <1>0, <2>1, <2>3, <3>7, LeavesTo, BurstKept DEF Marks, CalledOff, Throws, DirectPcs
    <3>. QED BY <1>10, <3>1, <3>2, <3>3, <3>4, <3>5, <3>6, <3>7 DEF TurnSteps
  <2>. QED BY <2>2, <2>3
<1>11. CASE Reaps
  <2>1. row' = Failed /\ run' = run
    BY <1>11 DEF Reaps
  <2>. QED BY <1>0, <2>1, FailedRow, BurstLetGo
<1>12. ASSUME NEW p \in Procs, Crashes(p) PROVE FlushKnowsBurst'
  <2>. DEFINE dying == {r \in Runs : run[r].proc = p /\ run[r].pc \notin {"idle", "done"}}
  <2>1. row' = [row EXCEPT !.held = @ /\ Flush \notin dying]
    BY <1>12 DEF Crashes
  <2>2. row'.last = row.last /\ (row'.held => row.held /\ Flush \notin dying)
    BY <1>0, <2>1 DEF RowType
  <2>3. CASE Flush \in dying
    <3>1. run'[Flush].mark = 0
      BY <1>12, <2>3, NoRunType DEF Crashes, RunType, NoRun
    <3>. QED BY <1>0, <2>2, <2>3, <3>1, BurstLetGo
  <2>4. CASE Flush \notin dying
    <3>1. run'[Flush] = run[Flush]
      BY <1>12, <2>4 DEF Crashes
    <3>2. row' = row
      BY <1>0, <2>1, <2>4 DEF RowType
    <3>. QED BY <1>1, <3>1, <3>2
  <2>. QED BY <2>3, <2>4
<1>13. CASE Resets
  <2>. DEFINE retired == [row EXCEPT !.status = "DONE", !.held = FALSE]
  <2>1. row' = retired /\ run' = run
    BY <1>13 DEF Resets
  <2>2. retired.last = row.last /\ ~retired.held
    BY <1>0 DEF RowType
  <2>. HIDE DEF retired
  <2>. QED BY <1>0, <2>1, <2>2, BurstLetGo
<1>. QED BY <1>2, <1>3, <1>4, <1>5, <1>6, <1>7, <1>8, <1>9, <1>10, <1>11, <1>12, <1>13
         DEF Next, FlushSteps

----------------------------------------------------------------------------
(* Nothing that is neither waiting nor in the burst is left behind. *)

LEMMA Numbers ==
    TypeInv => /\ sent \in 0..MaxMsgs /\ handled \in 0..MaxMsgs /\ replied \in 0..MaxMsgs
               /\ lapsed \in 0..MaxMsgs /\ stranded \subseteq Nat /\ row.last \in 0..MaxMsgs /\ BurstEnd \in 0..MaxMsgs
  BY MsgsAre, RowFields DEF TypeInv, ChatwootType, MarksType, IntakeType, RowInv, BurstEnd

LEMMA NumbersNext ==
    TypeInv' => /\ sent' \in 0..MaxMsgs /\ handled' \in 0..MaxMsgs /\ replied' \in 0..MaxMsgs
                /\ lapsed' \in 0..MaxMsgs /\ stranded' \subseteq Nat /\ row'.last \in 0..MaxMsgs /\ BurstEnd' \in 0..MaxMsgs
<1>. SUFFICES ASSUME TypeInv'
              PROVE  /\ sent' \in 0..MaxMsgs /\ handled' \in 0..MaxMsgs /\ replied' \in 0..MaxMsgs
                     /\ lapsed' \in 0..MaxMsgs /\ stranded' \subseteq Nat /\ row'.last \in 0..MaxMsgs
                     /\ BurstEnd' \in 0..MaxMsgs
  OBVIOUS
<1>1. row' \in RowType /\ stranded' \subseteq Msgs
  BY DEF TypeInv, RowInv, IntakeType
<1>. QED BY <1>1, MsgsAre DEF TypeInv, ChatwootType, MarksType, RowType, BurstEnd

LEMMA WaitsDown ==
    ASSUME TypeInv, NEW n \in 1..sent, Waits(n), NEW m \in 1..n
    PROVE  Waits(m)
  BY Numbers DEF Waits, Marked, Lapsed, LeftToSweep, Larger

LEMMA SettledTo ==
    ASSUME TypeInv', NEW n \in Nat, n <= handled' \/ n <= replied' \/ n <= lapsed', NEW m \in 1..n
    PROVE  Waits(m)'
  BY NumbersNext DEF Waits, Marked, Lapsed, Larger

\* What waits goes on waiting when all that stops being unfinished is settled or stranded.
LEMMA WaitsKept ==
    ASSUME TypeInv, TypeInv', Grows,
           \A n \in 1..sent : Unfinished(n) => \/ Unfinished(n)'
                                              \/ n <= handled' \/ n <= replied' \/ n <= lapsed'
                                              \/ n \in stranded',
           NEW m \in 1..sent, Waits(m)
    PROVE  Waits(m)'
<1>. USE Numbers, NumbersNext, MsgsAre
<1>1. CASE Marked(m) \/ Lapsed(m)
  BY <1>1 DEF Marked, Lapsed, Larger, Grows, Waits
<1>2. CASE LeftToSweep(m)
  BY <1>2 DEF LeftToSweep, Grows, Waits
<1>3. ASSUME NEW n \in m..sent, Unfinished(n) PROVE Waits(m)'
  <2>1. n \in 1..sent
    OBVIOUS
  <2>2. CASE Unfinished(n)'
    <3>1. n \in m..sent'
      BY DEF Grows
    <3>. QED BY <2>2, <3>1 DEF Waits
  <2>3. CASE n <= handled' \/ n <= replied' \/ n <= lapsed'
    BY <2>3, SettledTo
  <2>4. CASE n \in stranded'
    BY <2>4 DEF LeftToSweep, Waits
  <2>. QED BY <1>3, <2>1, <2>2, <2>3, <2>4
<1>. QED BY <1>1, <1>2, <1>3 DEF Waits

LEMMA CoveredKept ==
    ASSUME TypeInv, TypeInv', Covered,
           row.status = "DEAD" => row'.status = "DEAD",
           \A m \in 1..sent' : delivery'[m] = "done" => m <= sent,
           \A m \in 1..sent : Waits(m) => Waits(m)' \/ m <= BurstEnd',
           BurstEnd <= BurstEnd' \/ \A m \in 1..sent : m <= BurstEnd => Waits(m)'
    PROVE  Covered'
<1>. SUFFICES ASSUME row'.status # "DEAD", NEW m \in 1..sent', delivery'[m] = "done"
              PROVE  Waits(m)' \/ m <= BurstEnd'
  BY DEF Covered
<1>1. m \in 1..sent /\ BurstEnd \in Nat /\ BurstEnd' \in Nat
  BY Numbers, NumbersNext
<1>2. Waits(m) \/ m <= BurstEnd
  <2>1. CASE delivery[m] = "done"
    BY <1>1, <2>1 DEF Covered
  <2>2. CASE delivery[m] # "done"
    <3>1. m \in m..sent /\ Unfinished(m)
      BY <1>1, <2>2, Numbers DEF Unfinished
    <3>. QED BY <3>1 DEF Waits
  <2>. QED BY <2>1, <2>2
<1>. QED BY <1>1, <1>2

\* The burst's end stays where it is while the row is not finished and the flush has not
\* consumed it.
LEMMA BurstEndKept ==
    ASSUME TypeInv, TypeInv', row'.last = row.last,
           row'.status \in {"ABSENT", "DONE"} => row.status \in {"ABSENT", "DONE"} \/ Consumed,
           Consumed' => Consumed \/ row.status \in {"ABSENT", "DONE"}
    PROVE  BurstEnd <= BurstEnd'
  BY Numbers, NumbersNext, MsgsAre DEF BurstEnd

\* The deliveries and the direct turns are left alone, and so is the row; if the flush has
\* consumed the burst, all of it waits for something else.
LEMMA CoveredByFlush ==
    ASSUME TypeInv, TypeInv', Covered, Grows, UNCHANGED <<sent, delivery, row>>,
           \A n \in Msgs : run'[n] = run[n],
           Consumed' => Consumed \/ \A m \in 1..sent : m <= row.last => Waits(m)'
    PROVE  Covered'
<1>1. \A n \in 1..sent : Unfinished(n) => Unfinished(n)'
  BY Numbers, MsgsAre DEF Unfinished
<1>2. \A m \in 1..sent : Waits(m) => Waits(m)'
  BY <1>1, WaitsKept
<1>3. CASE Consumed' => Consumed
  <2>1. BurstEnd <= BurstEnd'
    BY <1>3, BurstEndKept
  <2>. QED BY <1>2, <2>1, CoveredKept
<1>4. CASE \A m \in 1..sent : m <= row.last => Waits(m)'
  <2>1. \A m \in 1..sent : m <= BurstEnd => Waits(m)'
    BY <1>4, Numbers, MsgsAre DEF BurstEnd
  <2>. QED BY <1>2, <2>1, CoveredKept
<1>. QED BY <1>3, <1>4

LEMMA DeliveriesCover ==
    ASSUME TypeInv, TypeInv', DeliveriesInOrder, Covered, Grows,
           NEW m \in Msgs, DeliverySteps(m) \/ \E p \in Procs : TurnsDirect(m, p)
    PROVE  Covered'
<1>. USE MsgsAre
<1>0. /\ delivery \in [Msgs -> {"absent", "coming", "passed", "skipping", "done"}]
      /\ Flush \notin Msgs /\ Msgs \subseteq Runs /\ Flush \in Runs /\ RunsType
  BY ConstantsAssumption DEF TypeInv, IntakeType, Runs
<1>1. /\ sent' = sent /\ m <= sent
      /\ \A n \in Msgs : n # m => delivery'[n] = delivery[n]
  <2>1. /\ UNCHANGED chatwoot /\ delivery[m] \in {"coming", "passed", "skipping"}
        /\ \E new : delivery' = [delivery EXCEPT ![m] = new]
    BY Zenon DEF DeliverySteps, DeliveryGates, DeliverySkips, DeliveryArms, DeliveryDies,
                 TurnsDirect
  <2>2. m <= sent
    BY <2>1, Numbers DEF DeliveriesInOrder
  <2>. QED BY <1>0, <2>1, <2>2 DEF chatwoot
<1>2. ASSUME row' = row, run'[Flush] = run[Flush],
             \A n \in Msgs : n # m => run'[n] = run[n],
             \/ Unfinished(m)'
             \/ m <= handled'
             \/ m \in stranded'
      PROVE  Covered'
  <2>1. \A n \in 1..sent : Unfinished(n) => \/ Unfinished(n)'
                                            \/ n <= handled' \/ n <= replied' \/ n <= lapsed'
                                            \/ n \in stranded'
    BY <1>1, <1>2, Numbers DEF Unfinished
  <2>2. \A n \in 1..sent : Waits(n) => Waits(n)'
    BY <2>1, WaitsKept
  <2>3. BurstEnd <= BurstEnd'
    BY <1>2, BurstEndKept DEF Consumed
  <2>. QED BY <1>1, <1>2, <2>2, <2>3, CoveredKept
<1>3. CASE DeliveryGates(m)
  BY <1>0, <1>2, <1>3 DEF DeliveryGates, Unfinished
<1>4. CASE DeliverySkips(m)
  <2>1. m <= handled'
    BY <1>4, LargerGrows, MsgsInRange, Numbers DEF DeliverySkips
  <2>. QED BY <1>2, <1>4, <2>1 DEF DeliverySkips
<1>5. CASE DeliveryDies(m)
  BY <1>2, <1>5 DEF DeliveryDies
<1>6. ASSUME NEW p \in Procs, TurnsDirect(m, p) PROVE Covered'
  <2>. DEFINE new == [NoRun EXCEPT !.pc = "thinking", !.proc = p, !.above = m - 1, !.target = m]
  <2>1. run' = [run EXCEPT ![m] = new] /\ row' = row
    BY <1>6 DEF TurnsDirect
  <2>2. new.pc = "thinking"
    BY NoRunType DEF RunType
  <2>. HIDE DEF new
  <2>3. /\ run'[m].pc = "thinking" /\ run'[Flush] = run[Flush]
        /\ \A n \in Msgs : n # m => run'[n] = run[n]
    BY <1>0, <2>1, <2>2 DEF RunsType
  <2>4. Unfinished(m)'
    BY <2>3 DEF Unfinished, TurnPcs
  <2>. QED BY <1>2, <2>1, <2>3, <2>4
<1>7. CASE DeliveryArms(m)
  <2>1. /\ delivery[m] = "passed" /\ row' = ArmedFor(m) /\ stranded' = stranded
        /\ handled' = handled /\ replied' = replied /\ sent' = sent
    BY <1>7 DEF DeliveryArms, marks, chatwoot
  <2>2. BurstEnd' = row'.last /\ m <= row'.last /\ row'.last \in Nat
    <3>1. row'.status = "PENDING" /\ ~row'.held /\ m <= row'.last
      BY <2>1, ArmedRow DEF TypeInv, RowInv
    <3>2. row'.last \in Nat
      BY NumbersNext
    <3>. QED BY <3>1, <3>2 DEF BurstEnd, Consumed
  <2>. SUFFICES ASSUME NEW k \in 1..sent', delivery'[k] = "done", ~(k <= BurstEnd')
                PROVE  Waits(k)'
    BY DEF Covered
  <2>3. k \in Msgs /\ k > m
    BY <2>2, NumbersNext
  <2>4. delivery[k] = "done"
    BY <1>1, <2>3
  <2>5. k \in stranded
    <3>1. k \notin stranded => delivery[m] = "done"
      BY <2>3, <2>4 DEF DeliveriesInOrder
    <3>. QED BY <2>1, <3>1
  <2>. QED BY <2>1, <2>3, <2>5 DEF Waits, LeftToSweep
<1>. QED BY <1>3, <1>4, <1>5, <1>6, <1>7 DEF DeliverySteps

\* A flush step up to the turn, or the settling of the job.
LEMMA FlushCovers ==
    ASSUME TypeInv, TypeInv', DirectTurns, FlushKnowsBurst, Covered, Grows, FlushSteps
    PROVE  Covered'
<1>. USE PcsMembers, FlushIsRun
<1>0. /\ UNCHANGED <<sent, delivery>> /\ RunsType /\ row \in RowType /\ Live(row)
      /\ \A n \in Msgs : run'[n] = run[n]
  <2>1. UNCHANGED <<sent, delivery>>
    BY OthersLeaveDeliveries DEF OtherSteps
  <2>2. \A n \in Msgs : run'[n] = run[n]
    BY OneMoves, ConstantsAssumption DEF OnlyMoves, Runs
  <2>. QED BY <2>1, <2>2 DEF TypeInv, RowInv
<1>1. ASSUME UNCHANGED row, Consumed' => Consumed PROVE Covered'
  BY <1>0, <1>1, CoveredByFlush
<1>2. ASSUME row'.last = row.last,
             row.status = "DEAD" => row'.status = "DEAD",
             row'.status \in {"ABSENT", "DONE"} => row.status \in {"ABSENT", "DONE"} \/ Consumed,
             ~Consumed'
      PROVE  Covered'
  <2>1. \A n \in 1..sent : Unfinished(n) => Unfinished(n)'
    BY <1>0, Numbers, MsgsAre DEF Unfinished
  <2>2. \A m \in 1..sent : Waits(m) => Waits(m)'
    BY <2>1, WaitsKept
  <2>3. BurstEnd <= BurstEnd'
    BY <1>2, BurstEndKept
  <2>. QED BY <1>0, <1>2, <2>2, <2>3, Numbers, CoveredKept
<1>3. CASE FlushClaims
  <2>. DEFINE new == [NoRun EXCEPT !.pc = "reading", !.armed = row.last]
              claimed == [row EXCEPT !.status = "CLAIMED", !.held = TRUE]
  <2>1. run' = [run EXCEPT ![Flush] = new] /\ row' = claimed /\ row.status = "PENDING"
    BY <1>3 DEF FlushClaims
  <2>2. new.pc = "reading"
    BY NoRunType DEF RunType
  <2>3. claimed.last = row.last /\ claimed.status = "CLAIMED"
    BY <1>0 DEF RowType
  <2>. HIDE DEF new, claimed
  <2>4. run'[Flush].pc = "reading"
    BY <1>0, <2>1, <2>2 DEF RunsType
  <2>. QED BY <1>2, <2>1, <2>3, <2>4 DEF Consumed
<1>4. CASE FlushReads
  <2>1. PICK next \in {"checking", "dropping"} :
           run' = [run EXCEPT ![Flush].pc = next, ![Flush].mark = handled]
    BY <1>4 DEF FlushReads
  <2>2. run'[Flush].pc = next
    BY <1>0, <2>1 DEF RunsType, RunType
  <2>. QED BY <1>1, <1>4, <2>2 DEF FlushReads, Consumed
<1>5. CASE FlushDrops
  <2>1. /\ UNCHANGED row /\ run[Flush].pc = "dropping"
        /\ handled' = Larger(handled, run[Flush].armed)
    BY <1>5 DEF FlushDrops
  <2>2. ASSUME row.held, NEW m \in 1..sent, m <= row.last PROVE Waits(m)'
    <3>1. row.last <= handled' /\ m \in 1..row.last /\ row.last \in Nat
      BY <2>1, <2>2, LargerGrows, RunFields, Numbers, <1>0 DEF FlushKnowsBurst
    <3>. QED BY <3>1, SettledTo
  <2>. QED BY <1>0, <2>1, <2>2, CoveredByFlush DEF Consumed
<1>6. CASE FlushDefers
  BY <1>0, <1>1, <1>6, LeavesTo DEF FlushDefers, Consumed
<1>9. CASE FlushFindsNobody
  <2>1. /\ UNCHANGED row /\ run[Flush].pc = "reading"
        /\ lapsed' = Larger(lapsed, run[Flush].armed)
    BY <1>9 DEF FlushFindsNobody
  <2>2. ASSUME row.held, NEW m \in 1..sent, m <= row.last PROVE Waits(m)'
    <3>1. row.last <= lapsed' /\ m \in 1..row.last /\ row.last \in Nat
      BY <2>1, <2>2, LargerGrows, RunFields, Numbers, <1>0 DEF FlushKnowsBurst
    <3>. QED BY <3>1, SettledTo
  <2>. QED BY <1>0, <2>1, <2>2, CoveredByFlush DEF Consumed
<1>7. CASE FlushEnters \/ FlushOverrides
  BY <1>0, <1>1, <1>7, GoesTo DEF FlushEnters, FlushOverrides, Consumed
<1>8. CASE FlushSettles
  <2>1. ~Consumed'
    <3>1. run'[Flush].pc = "idle"
      BY <1>0, <1>8 DEF FlushSettles, RunsType, NoRun
    <3>. QED BY <3>1 DEF Consumed
  <2>2. CASE row.held
    <3>1. /\ row' = Outcome(run[Flush].outcome) /\ run[Flush].outcome \in {"done", "fail", "later"}
          /\ run[Flush].pc = "settling" /\ row.status = "CLAIMED"
      BY <1>0, <1>8, <2>2, RunFields DEF FlushSettles, Live
    <3>2. row'.status = "DONE" => Consumed
      BY <1>0, <2>2, <3>1, OutcomeRow DEF Consumed
    <3>. QED BY <1>0, <1>2, <2>1, <3>1, <3>2, OutcomeRow
  <2>3. CASE ~row.held
    BY <1>1, <1>8, <2>1, <2>3 DEF FlushSettles
  <2>. QED BY <2>2, <2>3
<1>. QED BY <1>3, <1>4, <1>5, <1>6, <1>7, <1>8, <1>9 DEF FlushSteps

\* A step of the flush's turn.
LEMMA FlushTurnCovers ==
    ASSUME TypeInv, TypeInv', FlushKnowsBurst, Covered, Grows,
           TurnSteps(Flush) \/ GateFails(Flush) \/ CalledOff(Flush) \/ Throws(Flush)
    PROVE  Covered'
<1>. USE PcsMembers, FlushIsRun
<1>0. /\ UNCHANGED <<sent, delivery, row>> /\ RunsType /\ Live(row)
      /\ \A n \in Msgs : run'[n] = run[n]
  <2>1. UNCHANGED <<sent, delivery>>
    BY OthersLeaveDeliveries DEF OtherSteps
  <2>2. \A n \in Msgs : run'[n] = run[n]
    BY OneMoves, ConstantsAssumption DEF OnlyMoves, Runs
  <2>3. UNCHANGED row
    BY DEF TurnSteps, Fetches, Selects, Thinks, Gates, GateFails, Claims, Posts, Marks, CalledOff,
           Throws
  <2>. QED BY <2>1, <2>2, <2>3 DEF TypeInv, RowInv
<1>1. ASSUME row.held =>
                \/ run'[Flush].pc # "settling" \/ run'[Flush].outcome # "done"
                \/ \A m \in 1..sent : m <= row.last => Waits(m)'
      PROVE  Covered'
  BY <1>0, <1>1, CoveredByFlush DEF Consumed
<1>2. ASSUME \/ run[Flush].target <= handled' \/ run[Flush].target <= replied'
             \/ run[Flush].target <= lapsed',
             run[Flush].pc \in DirectPcs \cup {"selecting"}
      PROVE  Covered'
  <2>1. ASSUME row.held, NEW m \in 1..sent, m <= row.last PROVE Waits(m)'
    <3>1. run[Flush].target \in Nat /\ m \in 1..run[Flush].target
      BY <1>0, <1>2, <2>1, RunFields, Numbers DEF FlushKnowsBurst
    <3>. QED BY <1>2, <3>1, SettledTo
  <2>. QED BY <1>1, <2>1
<1>3. CASE Fetches(Flush)
  BY <1>0, <1>1, <1>3 DEF Fetches, RunsType, RunType
<1>4. CASE Selects(Flush)
  <2>1. CASE Floor(Flush) < run[Flush].target
    <3>1. run'[Flush].pc = "thinking"
      BY <1>0, <1>4, <2>1 DEF Selects, RunsType, RunType
    <3>. QED BY <1>1, <3>1
  <2>2. CASE ~(Floor(Flush) < run[Flush].target)
    <3>1. run[Flush].target <= handled \/ run[Flush].target <= replied
      BY <1>0, <2>2, RunFields, Numbers DEF Floor, Larger, FlushKnowsBurst
    <3>2. handled' = handled /\ replied' = replied /\ run[Flush].pc = "selecting"
      BY <1>4 DEF Selects, marks
    <3>. QED BY <1>2, <3>1, <3>2
  <2>. QED BY <2>1, <2>2
<1>5. CASE Thinks(Flush)
  <2>. DEFINE next == IF owner = "bot" THEN "gating" ELSE "marking"
  <2>1. Goes(Flush, next)
    BY <1>5 DEF Thinks
  <2>2. next \in Pcs /\ next # "settling"
    OBVIOUS
  <2>. HIDE DEF next
  <2>. QED BY <1>0, <1>1, <2>1, <2>2, GoesTo
<1>6. CASE Gates(Flush)
  <2>1. CASE ~(sent > run[Flush].target)
    BY <1>0, <1>1, <1>6, <2>1, GoesTo DEF Gates
  <2>2. CASE sent > run[Flush].target
    <3>1. ASSUME row.held, NEW m \in 1..sent, m <= row.last PROVE Waits(m)'
      <4>1. row.status = "CLAIMED" /\ row.last < sent
        BY <1>0, <1>6, <2>2, <3>1, RunFields, Numbers DEF FlushKnowsBurst, Live, Gates, DirectPcs
      <4>2. sent \in 1..sent /\ sent \in Nat
        BY Numbers
      <4>3. Waits(sent)
        <5>1. CASE delivery[sent] = "done"
          <6>1. ~(sent <= BurstEnd)
            BY <4>1, Numbers, MsgsAre DEF BurstEnd
          <6>. QED BY <4>1, <4>2, <5>1, <6>1 DEF Covered
        <5>2. CASE delivery[sent] # "done"
          BY <4>2, <5>2 DEF Waits, Unfinished
        <5>. QED BY <5>1, <5>2
      <4>4. Waits(m)
        BY <4>2, <4>3, WaitsDown
      <4>5. \A n \in 1..sent : Unfinished(n) => Unfinished(n)'
        BY <1>0, Numbers, MsgsAre DEF Unfinished
      <4>. QED BY <4>4, <4>5, WaitsKept
    <3>. QED BY <1>1, <3>1
  <2>. QED BY <2>1, <2>2
<1>7. CASE GateFails(Flush)
  BY <1>0, <1>1, <1>7, GoesTo DEF GateFails
<1>8. CASE Claims(Flush)
  <2>1. CASE replied < run[Flush].target /\ handled <= Ceiling(Flush)
    BY <1>0, <1>1, <1>8, <2>1, GoesTo DEF Claims
  <2>2. CASE ~(replied < run[Flush].target /\ handled <= Ceiling(Flush))
    <3>1. run[Flush].target <= handled \/ run[Flush].target <= replied
      BY <1>0, <2>2, RunFields, Numbers, ConstantsAssumption DEF Ceiling
    <3>2. handled' = handled /\ replied' = replied /\ run[Flush].pc = "claiming"
      BY <1>8, <2>2 DEF Claims
    <3>. QED BY <1>2, <3>1, <3>2 DEF DirectPcs
  <2>. QED BY <2>1, <2>2
<1>9. CASE Posts(Flush)
  BY <1>0, <1>1, <1>9, GoesTo DEF Posts
<1>10. CASE Marks(Flush)
  <2>1. run[Flush].target <= handled' /\ run[Flush].pc = "marking"
    BY <1>0, <1>10, LargerGrows, RunFields, Numbers DEF Marks
  <2>. QED BY <1>2, <2>1 DEF DirectPcs
<1>11. CASE Throws(Flush)
  BY <1>0, <1>1, <1>11, LeavesTo DEF Throws
<1>12. CASE CalledOff(Flush)
  <2>1. Flush \notin Clicks /\ lapsed \in 0..MaxMsgs
    BY Numbers, ConstantsAssumption
  <2>2. run[Flush].target <= lapsed' /\ run[Flush].pc \in DirectPcs
    BY <1>0, <1>12, <2>1, LargerGrows, RunFields DEF CalledOff, InFlight, DirectPcs
  <2>. QED BY <1>2, <2>2
<1>. QED BY <1>3, <1>4, <1>5, <1>6, <1>7, <1>8, <1>9, <1>10, <1>11, <1>12 DEF TurnSteps

\* A step of a direct turn: it leaves its message settled, stranded or superseded.
LEMMA DirectCovers ==
    ASSUME TypeInv, TypeInv', DirectTurns, Covered, Grows,
           NEW r \in Msgs, TurnSteps(r) \/ GateFails(r) \/ CalledOff(r) \/ Throws(r)
    PROVE  Covered'
<1>. USE PcsMembers, MsgsAre
<1>0. /\ UNCHANGED <<sent, delivery, row>> /\ RunsType /\ r \in Runs /\ r # Flush
      /\ run'[Flush] = run[Flush] /\ \A n \in Msgs : n # r => run'[n] = run[n]
  <2>1. r \in Runs /\ r # Flush /\ Flush \in Runs /\ Msgs \subseteq Runs
    BY ConstantsAssumption DEF Runs
  <2>2. UNCHANGED <<sent, delivery>>
    BY <2>1, OthersLeaveDeliveries DEF OtherSteps
  <2>3. OnlyMoves(r)
    BY <2>1, OneMoves
  <2>4. UNCHANGED row
    BY DEF TurnSteps, Fetches, Selects, Thinks, Gates, GateFails, Claims, Posts, Marks, CalledOff,
           Throws
  <2>. QED BY <2>1, <2>2, <2>3, <2>4 DEF TypeInv, OnlyMoves
<1>1. run[r].pc \in DirectPcs /\ run[r].target = r
  BY DirectMoves DEF DirectTurns
<1>2. BurstEnd' = BurstEnd
  BY <1>0 DEF BurstEnd, Consumed
<1>3. ASSUME r <= sent => \/ Unfinished(r)' \/ r \in stranded'
                          \/ r <= handled' \/ r <= replied' \/ r <= lapsed'
      PROVE  Covered'
  <2>1. \A n \in 1..sent : Unfinished(n) => \/ Unfinished(n)'
                                            \/ n <= handled' \/ n <= replied' \/ n <= lapsed'
                                            \/ n \in stranded'
    BY <1>0, <1>3, Numbers DEF Unfinished
  <2>2. \A n \in 1..sent : Waits(n) => Waits(n)'
    BY <2>1, WaitsKept
  <2>. QED BY <1>0, <1>2, <2>2, Numbers, CoveredKept
<1>4. ASSUME run'[r].pc \in DirectPcs PROVE Covered'
  BY <1>3, <1>4 DEF Unfinished, DirectPcs, TurnPcs
<1>5. CASE Thinks(r)
  <2>. DEFINE next == IF owner = "bot" THEN "gating" ELSE "marking"
  <2>1. Goes(r, next)
    BY <1>5 DEF Thinks
  <2>2. next \in Pcs /\ next \in DirectPcs
    BY DEF DirectPcs
  <2>. HIDE DEF next
  <2>. QED BY <1>0, <1>4, <2>1, <2>2, GoesTo
<1>6. CASE Gates(r) /\ sent > r
  <2>. SUFFICES ASSUME row'.status # "DEAD", NEW m \in 1..sent, delivery[m] = "done"
                PROVE  Waits(m)' \/ m <= BurstEnd'
    BY <1>0 DEF Covered
  <2>1. sent \in Msgs /\ sent # r /\ BurstEnd \in Nat
    BY <1>6, Numbers
  <2>2. ASSUME NEW n \in 1..sent, n # r, Unfinished(n) PROVE Unfinished(n)'
    BY <1>0, <2>2, Numbers DEF Unfinished
  <2>3. CASE Waits(sent)
    <3>1. CASE Marked(sent) \/ Lapsed(sent) \/ LeftToSweep(sent)
      <4>1. Marked(sent)' \/ Lapsed(sent)' \/ LeftToSweep(sent)'
        BY <1>0, <3>1, Numbers, NumbersNext DEF Marked, Lapsed, LeftToSweep, Grows, Larger
      <4>2. sent' = sent
        BY <1>0
      <4>. QED BY <4>1, <4>2, Numbers, NumbersNext
               DEF Waits, Marked, Lapsed, LeftToSweep, Larger
    <3>2. CASE \E n \in sent..sent : Unfinished(n)
      <4>1. Unfinished(sent)
        BY <3>2, Numbers
      <4>2. Unfinished(sent)'
        BY <1>0, <2>1, <4>1 DEF Unfinished
      <4>. QED BY <1>0, <4>2, Numbers DEF Waits
    <3>. QED BY <2>3, <3>1, <3>2 DEF Waits
  <2>4. CASE ~Waits(sent)
    <3>1. delivery[sent] = "done"
      BY <2>1, <2>4 DEF Waits, Unfinished
    <3>2. sent <= BurstEnd
      BY <1>0, <2>1, <2>4, <3>1 DEF Covered
    <3>. QED BY <1>2, <2>1, <3>2
  <2>. QED BY <2>3, <2>4
<1>7. CASE Gates(r) /\ ~(sent > r)
  BY <1>0, <1>1, <1>4, <1>7, GoesTo DEF Gates, DirectPcs
<1>8. CASE GateFails(r)
  BY <1>0, <1>4, <1>8, GoesTo DEF GateFails, DirectPcs
<1>9. CASE Claims(r)
  <2>1. CASE replied < run[r].target /\ handled <= Ceiling(r)
    BY <1>0, <1>4, <1>9, <2>1, GoesTo DEF Claims, DirectPcs
  <2>2. CASE ~(replied < run[r].target /\ handled <= Ceiling(r))
    <3>1. r <= handled \/ r <= replied
      BY <1>1, <2>2, Numbers, ConstantsAssumption DEF Ceiling
    <3>2. handled' = handled /\ replied' = replied
      BY <1>9, <2>2 DEF Claims
    <3>. QED BY <1>3, <3>1, <3>2
  <2>. QED BY <2>1, <2>2
<1>10. CASE Posts(r)
  BY <1>0, <1>4, <1>10, GoesTo DEF Posts, DirectPcs
<1>11. CASE Marks(r)
  <2>1. r <= handled'
    BY <1>1, <1>11, LargerGrows, MsgsInRange, Numbers DEF Marks
  <2>. QED BY <1>3, <2>1
<1>12. CASE Throws(r)
  BY <1>0, <1>3, <1>12 DEF Throws
<1>13. CASE CalledOff(r)
  <2>1. r \notin Clicks
    BY ConstantsAssumption
  <2>2. r <= lapsed'
    BY <1>1, <1>13, <2>1, LargerGrows, MsgsInRange, Numbers DEF CalledOff
  <2>. QED BY <1>3, <2>2
<1>. QED BY <1>1, <1>5, <1>6, <1>7, <1>8, <1>9, <1>10, <1>11, <1>12, <1>13
         DEF TurnSteps, Fetches, Selects, DirectPcs

LEMMA CoveredStep ==
    ASSUME TypeInv, Ordered, PlaceInv, Next
    PROVE  Covered'
<1>. USE PcsMembers, MsgsAre
<1>0. /\ TypeInv' /\ Grows /\ RunsType /\ row \in RowType /\ Live(row)
      /\ Flush \in Runs /\ Flush \notin Msgs /\ Flush \notin Clicks
      /\ Msgs \subseteq Runs /\ Clicks \subseteq Runs /\ Clicks \cap Msgs = {}
  BY TypeInvStep, StepGrows, ConstantsAssumption DEF TypeInv, RowInv, Runs
<1>. USE DEF PlaceInv
<1>1. ASSUME UNCHANGED <<sent, delivery, row>>, run'[Flush] = run[Flush],
             \A n \in Msgs : run'[n] = run[n]
      PROVE  Covered'
  BY <1>0, <1>1, CoveredByFlush DEF Consumed
<1>2. CASE CustomerWrites
  <2>1. /\ sent' = sent + 1 /\ run' = run /\ row' = row
        /\ delivery' = [delivery EXCEPT ![sent + 1] = "coming"]
        /\ sent + 1 \in Msgs
    BY <1>2, Numbers DEF CustomerWrites
  <2>2. delivery'[sent + 1] = "coming" /\ \A n \in 1..sent : delivery'[n] = delivery[n]
    BY <2>1, Numbers DEF TypeInv, IntakeType
  <2>3. \A n \in 1..sent : Unfinished(n) => Unfinished(n)'
    BY <2>1, <2>2 DEF Unfinished
  <2>4. \A n \in 1..sent : Waits(n) => Waits(n)'
    BY <1>0, <2>3, WaitsKept
  <2>5. BurstEnd <= BurstEnd'
    BY <1>0, <2>1, BurstEndKept DEF Consumed
  <2>6. \A m \in 1..sent' : delivery'[m] = "done" => m <= sent
    BY <2>1, <2>2, Numbers
  <2>. QED BY <1>0, <2>1, <2>4, <2>5, <2>6, CoveredKept
<1>3. CASE OwnerChanges \/ HumanAnswers
  BY <1>1, <1>3 DEF OwnerChanges, HumanAnswers, intake
<1>4. ASSUME NEW m \in Msgs, DeliverySteps(m) \/ \E p \in Procs : TurnsDirect(m, p)
      PROVE  Covered'
  BY <1>0, <1>4, DeliveriesCover
<1>5. CASE FlushSteps
  BY <1>0, <1>5, FlushCovers
<1>6. ASSUME NEW c \in Clicks, ClickSteps(c) \/ \E p \in Procs : ClickStarts(c, p)
      PROVE  Covered'
  <2>1. OnlyMoves(c)
    BY <1>6, OneMoves
  <2>2. UNCHANGED <<sent, delivery, row>>
    BY <1>6 DEF ClickSteps, ClickRefused, ClickAsks, ClickEnters, ClickStarts, chatwoot, intake
  <2>. QED BY <1>0, <1>1, <2>1, <2>2 DEF OnlyMoves
<1>7. ASSUME NEW r \in Runs, TurnSteps(r) \/ GateFails(r) \/ CalledOff(r) \/ Throws(r) PROVE Covered'
  <2>1. CASE r = Flush
    BY <1>0, <1>7, <2>1, FlushTurnCovers
  <2>2. CASE r \in Msgs
    BY <1>0, <1>7, <2>2, DirectCovers
  <2>3. CASE r \in Clicks
    <3>1. OnlyMoves(r)
      BY <1>7, OneMoves
    <3>2. UNCHANGED <<sent, delivery>>
      BY <1>7, OthersLeaveDeliveries DEF OtherSteps
    <3>3. UNCHANGED row
      BY <1>7 DEF TurnSteps, Fetches, Selects, Thinks, Gates, GateFails, Claims, Posts, Marks, CalledOff,
           Throws
    <3>. QED BY <1>0, <1>1, <2>3, <3>1, <3>2, <3>3 DEF OnlyMoves
  <2>. QED BY <2>1, <2>2, <2>3 DEF Runs
<1>8. CASE Reaps
  <2>1. /\ row' = Failed /\ run' = run /\ row.status = "CLAIMED"
        /\ UNCHANGED <<sent, delivery>>
    BY <1>8 DEF Reaps, chatwoot, intake
  <2>2. \A n \in 1..sent : Unfinished(n) => Unfinished(n)'
    BY <2>1 DEF Unfinished
  <2>3. \A n \in 1..sent : Waits(n) => Waits(n)'
    BY <1>0, <2>2, WaitsKept
  <2>4. BurstEnd <= BurstEnd'
    BY <1>0, <2>1, FailedRow, BurstEndKept DEF Consumed
  <2>. QED BY <1>0, <2>1, <2>3, <2>4, Numbers, CoveredKept
<1>9. ASSUME NEW p \in Procs, Crashes(p) PROVE Covered'
  <2>. DEFINE dying == {r \in Runs : run[r].proc = p /\ run[r].pc \notin {"idle", "done"}}
  <2>1. /\ row' = [row EXCEPT !.held = @ /\ Flush \notin dying]
        /\ stranded' = stranded \cup (dying \cap Msgs)
        /\ UNCHANGED <<sent, delivery>>
        /\ \A r \in Runs : r \notin dying => run'[r] = run[r]
    BY <1>9 DEF Crashes, chatwoot
  <2>2. /\ row'.last = row.last /\ row'.status = row.status
        /\ row'.held => row.held /\ Flush \notin dying
    BY <1>0, <2>1 DEF RowType
  <2>3. \A n \in 1..sent : Unfinished(n) => Unfinished(n)' \/ n \in stranded'
    BY <1>0, <2>1, Numbers DEF Unfinished
  <2>4. \A n \in 1..sent : Waits(n) => Waits(n)'
    BY <1>0, <2>3, WaitsKept
  <2>5. Consumed' => Consumed
    BY <1>0, <2>1, <2>2 DEF Consumed
  <2>6. BurstEnd <= BurstEnd'
    BY <1>0, <2>2, <2>5, BurstEndKept
  <2>. QED BY <1>0, <2>1, <2>2, <2>4, <2>6, Numbers, CoveredKept
<1>10. CASE Resets
  <2>1. /\ run' = run /\ UNCHANGED <<sent, delivery>> /\ row.status # "DEAD"
        /\ lapsed' = Larger(lapsed, row.last)
    BY <1>10 DEF Resets, chatwoot, intake
  <2>2. \A n \in 1..sent : Unfinished(n) => Unfinished(n)'
    BY <2>1 DEF Unfinished
  <2>3. \A n \in 1..sent : Waits(n) => Waits(n)'
    BY <1>0, <2>2, WaitsKept
  <2>4. row.last <= lapsed' /\ row.last \in Nat /\ BurstEnd <= row.last
    BY <2>1, LargerGrows, Numbers DEF BurstEnd
  <2>5. ASSUME NEW m \in 1..sent, m <= BurstEnd PROVE Waits(m)'
    <3>1. m \in 1..row.last
      BY <2>4, <2>5, Numbers
    <3>. QED BY <1>0, <2>4, <3>1, SettledTo
  <2>. QED BY <1>0, <2>1, <2>3, <2>5, Numbers, CoveredKept
<1>. QED BY <1>2, <1>3, <1>4, <1>5, <1>6, <1>7, <1>8, <1>9, <1>10 DEF Next

LEMMA PlaceInvInit == Init => PlaceInv
<1>. SUFFICES ASSUME Init PROVE PlaceInv
  OBVIOUS
<1>1. /\ sent = 0 /\ delivery = [m \in Msgs |-> "absent"] /\ stranded = {} /\ handled = 0
      /\ run = [r \in Runs |-> NoRun] /\ row.last = 0 /\ row.held = FALSE /\ row.status = "ABSENT"
  BY DEF Init
<1>2. NoRun.pc = "idle" /\ NoRun.mark = 0
  BY DEF NoRun
<1>3. Msgs \subseteq Runs /\ Flush \in Runs
  BY DEF Runs
<1>4. DeliveriesInOrder
  BY <1>1, MsgsAre DEF DeliveriesInOrder
<1>5. DirectTurns /\ FlushKnowsBurst
  BY <1>1, <1>2, <1>3 DEF DirectTurns, FlushKnowsBurst, DirectPcs
<1>6. Covered
  BY <1>1 DEF Covered
<1>. QED BY <1>4, <1>5, <1>6 DEF PlaceInv

\* Where a message is, in every reachable state, when messages are delivered one after another.
THEOREM PlaceInvHolds == ASSUME Ordered PROVE Spec => [](TypeInv /\ PlaceInv)
<1>1. Init => TypeInv /\ PlaceInv
  BY TypeInvInit, PlaceInvInit
<1>2. TypeInv /\ PlaceInv /\ [Next]_vars => (TypeInv /\ PlaceInv)'
  <2>. SUFFICES ASSUME TypeInv, PlaceInv, [Next]_vars PROVE PlaceInv'
    BY TypeInvStep
  <2>1. CASE Next
    <3>. USE DEF PlaceInv
    <3>1. DeliveriesInOrder'
      BY <2>1, OrderStep
    <3>2. DirectTurns'
      BY <2>1, DirectStep
    <3>3. FlushKnowsBurst'
      BY <2>1, BurstStep
    <3>4. Covered'
      BY <2>1, CoveredStep
    <3>. QED BY <3>1, <3>2, <3>3, <3>4
  <2>2. CASE UNCHANGED vars
    BY <2>2 DEF PlaceInv, DeliveriesInOrder, DirectTurns, FlushKnowsBurst, Covered, Waits, Marked,
                Lapsed, LeftToSweep, Unfinished, BurstEnd, Consumed, vars, chatwoot, intake, marks
  <2>. QED BY <2>1, <2>2
<1>. QED BY <1>1, <1>2, PTL DEF Spec

\* No message is quietly dropped: however flushes are reaped, superseded, overridden or crash, a
\* message whose delivery is over stands below a mark, has its job queued, running or reported
\* dead, is left to the sweep, or waits for a newer message that has yet to be processed.
THEOREM NoneDropped == ASSUME Ordered PROVE Spec => []AccountedFor
<1>1. TypeInv /\ PlaceInv => AccountedFor
  <2>. SUFFICES ASSUME TypeInv, PlaceInv, NEW m \in 1..sent, delivery[m] = "done",
                       row.status \notin {"PENDING", "CLAIMED", "DEAD"}
                PROVE  Waits(m)
    BY DEF AccountedFor, Waits, Unfinished
  <2>1. row.status \in {"ABSENT", "DONE"}
    BY RowFields DEF TypeInv, RowInv
  <2>2. BurstEnd = 0
    BY <2>1 DEF BurstEnd
  <2>. QED BY <2>1, <2>2 DEF PlaceInv, Covered
<1>. QED BY <1>1, PlaceInvHolds, PTL

----------------------------------------------------------------------------
(* One process and every message debounced.  The hold lets one turn in at a *)
(* time, so what it starts after (the floor of a flush, the last reply on   *)
(* the page of a click) is read with no reply posted in between.            *)

InTurn(r) == run[r].pc \in TurnPcs
OneTurn == \A r, q \in Runs : InTurn(r) /\ InTurn(q) => r = q
NoDirectTurn == \A m \in Msgs : run[m].pc = "idle"

\* Every reply so far ends at or before n.
RepliesUpTo(n) == \A i \in DOMAIN answers : answers[i].target <= n

\* A turn answers what comes after every reply so far, and what Chatwoot has.
StartsAfter(r) ==
    /\ run[r].pc = "selecting" /\ r # Flush => RepliesUpTo(run[r].out)
    /\ InFlight(r) => RepliesUpTo(run[r].above)
    /\ run[r].target <= sent

RepliesInOrder == \A i, j \in DOMAIN answers : i < j => answers[i].target <= answers[j].above
StartsInOrder == RepliesUpTo(lastOut) /\ RepliesInOrder /\ \A r \in Runs : StartsAfter(r)

AloneInv == OneTurn /\ NoDirectTurn /\ StartsInOrder

LEMMA AnswersTyped ==
    ASSUME TypeInv, NEW i \in DOMAIN answers
    PROVE  i \in Nat /\ answers[i].target \in Nat /\ answers[i].above \in Nat
<1>1. answers \in Seq(AnswerType)
  BY DEF TypeInv, AnswersType
<1>2. i \in Nat /\ answers[i] \in AnswerType
  BY <1>1
<1>. QED BY <1>2, ConstantsAssumption DEF AnswerType

LEMMA ChatwootKept ==
    ASSUME TypeInv, Next
    PROVE  /\ sent <= sent' /\ lastOut <= lastOut'
           /\ sent \in Nat /\ sent' \in Nat /\ lastOut \in Nat /\ lastOut' \in Nat
<1>. ChatwootType /\ ChatwootType'
  BY TypeInvStep DEF TypeInv
<1>1. /\ sent \in 0..MaxMsgs /\ lastOut \in 0..sent /\ sent' \in 0..MaxMsgs /\ lastOut' \in 0..sent'
      /\ MaxMsgs \in Nat
  BY ConstantsAssumption DEF ChatwootType
<1>2. CASE CustomerWrites \/ OwnerChanges \/ HumanAnswers
  BY <1>1, <1>2 DEF CustomerWrites, OwnerChanges, HumanAnswers
<1>. DEFINE Kept == sent' = sent /\ lastOut' = lastOut
<1>3. ASSUME NEW m \in Msgs, DeliverySteps(m) \/ \E p \in Procs : TurnsDirect(m, p) PROVE Kept
  BY <1>3, Zenon DEF DeliverySteps, DeliveryGates, DeliverySkips, DeliveryArms, DeliveryDies,
                    TurnsDirect, chatwoot
<1>4. ASSUME FlushSteps \/ Reaps \/ Resets \/ \E p \in Procs : Crashes(p) PROVE Kept
  BY <1>4, Zenon DEF FlushSteps, FlushClaims, FlushReads, FlushFindsNobody, FlushDrops, FlushEnters,
                    FlushDefers, FlushOverrides, FlushSettles, Reaps, Resets, Crashes, chatwoot
<1>5. ASSUME NEW c \in Clicks, ClickSteps(c) \/ \E p \in Procs : ClickStarts(c, p) PROVE Kept
  BY <1>5, Zenon DEF ClickSteps, ClickRefused, ClickAsks, ClickEnters, ClickStarts, chatwoot
<1>6. CASE \E r \in Runs : TurnSteps(r) \/ GateFails(r) \/ CalledOff(r) \/ Throws(r)
  BY <1>1, <1>6 DEF TurnSteps, Fetches, Selects, Thinks, Gates, Claims, Posts, Marks, GateFails,
                    CalledOff, Throws, chatwoot
<1>. QED BY <1>1, <1>2, <1>3, <1>4, <1>5, <1>6 DEF Next

\* One run moves, and nothing is posted.
LEMMA StartKept ==
    ASSUME TypeInv, Next, StartsInOrder, UNCHANGED answers, NEW r \in Runs, OnlyMoves(r),
           StartsAfter(r)'
    PROVE  StartsInOrder'
<1>1. /\ sent <= sent' /\ lastOut <= lastOut'
      /\ sent \in Nat /\ sent' \in Nat /\ lastOut \in Nat /\ lastOut' \in Nat
  BY ChatwootKept
<1>2. \A i \in DOMAIN answers : answers[i].target \in Nat
  BY AnswersTyped
<1>3. RepliesUpTo(lastOut)' /\ RepliesInOrder'
  BY <1>1, <1>2 DEF StartsInOrder, RepliesUpTo, RepliesInOrder
<1>4. ASSUME NEW q \in Runs \ {r} PROVE StartsAfter(q)'
  <2>1. StartsAfter(q) /\ run'[q] = run[q] /\ run[q].target \in Nat
    BY RunFields, ConstantsAssumption DEF StartsInOrder, OnlyMoves, TypeInv
  <2>. QED BY <1>1, <2>1 DEF StartsAfter, RepliesUpTo, InFlight
<1>. QED BY <1>3, <1>4 DEF StartsInOrder

\* A run that leaves the turn, or moves where nothing is asked of it.
LEMMA StartsNothing ==
    ASSUME TypeInv, Next, StartsInOrder, UNCHANGED answers, NEW r \in Runs, OnlyMoves(r),
           run'[r].target = run[r].target \/ run'[r].target = 0,
           run'[r].pc \notin {"selecting", "thinking", "gating", "claiming", "sending"}
    PROVE  StartsInOrder'
<1>1. StartsAfter(r) /\ run[r].target \in Nat /\ sent <= sent' /\ sent \in Nat /\ sent' \in Nat
  BY RunFields, ChatwootKept, ConstantsAssumption DEF StartsInOrder, TypeInv
<1>2. StartsAfter(r)'
  BY <1>1 DEF StartsAfter, InFlight
<1>. QED BY <1>2, StartKept

\* What Goes and Leaves set, and what they leave.
LEMMA MovesOn ==
    ASSUME RunsType, NEW r \in Runs
    PROVE  /\ \A pc \in Pcs : Goes(r, pc) =>
                 /\ run'[r].pc = pc /\ run'[r].target = run[r].target
                 /\ run'[r].above = run[r].above
           /\ \A outcome \in {"done", "fail", "later"} : Leaves(r, outcome) =>
                 run'[r].pc \in {"settling", "done"} /\ run'[r].target = 0
<1>1. ASSUME NEW pc \in Pcs, Goes(r, pc)
      PROVE  run'[r].pc = pc /\ run'[r].target = run[r].target /\ run'[r].above = run[r].above
  <2>1. run'[r] = [run[r] EXCEPT !.pc = pc] /\ run[r] \in RunType
    BY <1>1, RunFields DEF Goes, RunsType
  <2>. QED BY <2>1 DEF RunType
<1>2. ASSUME NEW outcome \in {"done", "fail", "later"}, Leaves(r, outcome)
      PROVE  run'[r].pc \in {"settling", "done"} /\ run'[r].target = 0
  <2>1. run'[r] = Ended(r, outcome)
    BY <1>2 DEF Leaves, RunsType
  <2>. QED BY <2>1 DEF Ended, NoRun
<1>. QED BY <1>1, <1>2

\* Neither flush nor click asks anything of a turn before it fetched.
LEMMA FlushStartsKept ==
    ASSUME TypeInv, Next, StartsInOrder, FlushSteps
    PROVE  StartsInOrder'
<1>. RunsType /\ Flush \in Runs /\ OnlyMoves(Flush)
  BY FlushIsRun, OneMoves DEF TypeInv
<1>. USE PcsMembers
<1>0. UNCHANGED answers
  BY DEF FlushSteps, FlushClaims, FlushReads, FlushFindsNobody, FlushDrops, FlushEnters,
         FlushDefers, FlushOverrides, FlushSettles
<1>1. CASE FlushClaims
  <2>1. run'[Flush] = [NoRun EXCEPT !.pc = "reading", !.armed = row.last]
    BY <1>1 DEF FlushClaims, RunsType
  <2>2. run'[Flush].pc = "reading" /\ run'[Flush].target = 0
    BY <2>1 DEF NoRun
  <2>. QED BY <1>0, <2>2, StartsNothing
<1>2. CASE FlushReads
  <2>1. PICK next \in {"checking", "dropping"} :
           run' = [run EXCEPT ![Flush].pc = next, ![Flush].mark = handled]
    BY <1>2 DEF FlushReads
  <2>2. run'[Flush] = [run[Flush] EXCEPT !.pc = next, !.mark = handled] /\ run[Flush] \in RunType
    BY <2>1, RunFields DEF RunsType
  <2>3. run'[Flush].pc = next /\ run'[Flush].target = run[Flush].target
    BY <2>2 DEF RunType
  <2>. QED BY <1>0, <2>3, StartsNothing
<1>3. CASE FlushFindsNobody \/ FlushDrops \/ FlushDefers
  <2>1. run'[Flush].pc \in {"settling", "done"} /\ run'[Flush].target = 0
    BY <1>3, MovesOn DEF FlushFindsNobody, FlushDrops, FlushDefers
  <2>. QED BY <1>0, <2>1, StartsNothing
<1>4. CASE FlushEnters \/ FlushOverrides
  <2>1. run'[Flush].pc = "fetching" /\ run'[Flush].target = run[Flush].target
    BY <1>4, MovesOn DEF FlushEnters, FlushOverrides
  <2>. QED BY <1>0, <2>1, StartsNothing
<1>5. CASE FlushSettles
  <2>1. run'[Flush] = NoRun
    BY <1>5 DEF FlushSettles, RunsType
  <2>. QED BY <1>0, <2>1, StartsNothing DEF NoRun
<1>. QED BY <1>1, <1>2, <1>3, <1>4, <1>5 DEF FlushSteps

LEMMA ClickStartsKept ==
    ASSUME TypeInv, Next, StartsInOrder, NEW c \in Clicks,
           ClickSteps(c) \/ \E p \in Procs : ClickStarts(c, p)
    PROVE  StartsInOrder'
<1>. RunsType /\ c \in Runs /\ OnlyMoves(c)
  BY OneMoves DEF TypeInv, Runs
<1>. USE PcsMembers
<1>0. UNCHANGED answers
  BY DEF ClickSteps, ClickRefused, ClickAsks, ClickEnters, ClickStarts
<1>1. CASE ClickRefused(c)
  <2>1. run'[c].pc \in {"settling", "done"} /\ run'[c].target = 0
    BY <1>1, MovesOn DEF ClickRefused
  <2>. QED BY <1>0, <2>1, StartsNothing
<1>2. CASE ClickAsks(c) \/ ClickEnters(c)
  <2>1. run'[c].pc \in {"entering", "fetching"} /\ run'[c].target = run[c].target
    BY <1>2, MovesOn DEF ClickAsks, ClickEnters
  <2>. QED BY <1>0, <2>1, StartsNothing
<1>3. ASSUME NEW p \in Procs, ClickStarts(c, p) PROVE StartsInOrder'
  <2>1. run'[c] = [NoRun EXCEPT !.pc = "asking", !.proc = p, !.mark = handled]
    BY <1>3 DEF ClickStarts, RunsType
  <2>2. run'[c].pc = "asking" /\ run'[c].target = 0
    BY <2>1 DEF NoRun
  <2>. QED BY <1>0, <2>2, StartsNothing
<1>. QED BY <1>1, <1>2, <1>3 DEF ClickSteps

\* A flush starts after lastRepliedMessageId, a click after the newest reply on its page.
LEMMA TurnStartsKept ==
    ASSUME TypeInv, ClaimInv, Next, NoDirectTurn, StartsInOrder, NEW r \in Runs,
           TurnSteps(r) \/ GateFails(r) \/ CalledOff(r) \/ Throws(r), ~Posts(r)
    PROVE  StartsInOrder'
<1>. RunsType /\ OnlyMoves(r)
  BY OneMoves DEF TypeInv
<1>. USE PcsMembers
<1>0. UNCHANGED answers
  BY DEF TurnSteps, Fetches, Selects, Thinks, Gates, Claims, Marks, GateFails, CalledOff, Throws
<1>n. /\ run[r].target \in Nat /\ run[r].above \in Nat /\ run[r].out \in Nat
      /\ sent <= sent' /\ sent \in Nat /\ sent' \in Nat
  BY RunFields, ChatwootKept, ConstantsAssumption
<1>s. StartsAfter(r)
  BY DEF StartsInOrder
<1>1. CASE Fetches(r)
  <2>1. /\ run'[r] = [run[r] EXCEPT !.pc = "selecting", !.target = sent, !.out = lastOut]
        /\ run[r] \in RunType
    BY <1>1, RunFields DEF Fetches, RunsType
  <2>2. run'[r].pc = "selecting" /\ run'[r].target = sent /\ run'[r].out = lastOut
    BY <2>1 DEF RunType
  <2>3. StartsAfter(r)'
    BY <1>0, <1>n, <2>2 DEF StartsInOrder, StartsAfter, RepliesUpTo, InFlight
  <2>. QED BY <1>0, <2>3, StartKept
<1>2. CASE Selects(r)
  <2>1. CASE Floor(r) < run[r].target
    <3>1. /\ run'[r] = [run[r] EXCEPT !.pc = "thinking", !.above = Floor(r), !.out = 0]
          /\ run[r] \in RunType
      BY <1>2, <2>1, RunFields DEF Selects, RunsType
    <3>2. run'[r].pc = "thinking" /\ run'[r].target = run[r].target /\ run'[r].above = Floor(r)
      BY <3>1 DEF RunType
    <3>3. RepliesUpTo(Floor(r))
      <4>1. CASE r = Flush
        <5>1. replied <= Floor(r) /\ Floor(r) \in Nat /\ replied \in Nat
          <6>1. /\ handled \in 0..MaxMsgs /\ replied \in 0..MaxMsgs /\ run[r].mark \in 0..MaxMsgs
                /\ MaxMsgs \in Nat
            BY RunFields, ConstantsAssumption DEF TypeInv, MarksType
          <6>2. Floor(r) = Larger(run[r].mark, Larger(handled, replied))
            BY <4>1 DEF Floor
          <6>. QED BY <6>1, <6>2 DEF Larger
        <5>2. \A i \in DOMAIN answers : answers[i].target <= replied /\ answers[i].target \in Nat
          BY AnswersTyped DEF ClaimInv, AnswersPast
        <5>. QED BY <5>1, <5>2 DEF RepliesUpTo
      <4>2. CASE r # Flush
        BY <1>2, <1>s, <4>2 DEF Selects, StartsAfter, Floor
      <4>. QED BY <4>1, <4>2
    <3>4. StartsAfter(r)'
      BY <1>0, <1>n, <1>s, <3>2, <3>3 DEF StartsAfter, RepliesUpTo, InFlight
    <3>. QED BY <1>0, <3>4, StartKept
  <2>2. CASE ~(Floor(r) < run[r].target)
    <3>1. run'[r].pc \in {"settling", "done"} /\ run'[r].target = 0
      BY <1>2, <2>2, MovesOn DEF Selects
    <3>. QED BY <1>0, <3>1, StartsNothing
  <2>. QED BY <2>1, <2>2
<1>3. ASSUME InFlight(r), NEW pc \in {"gating", "claiming", "sending", "marking"}, Goes(r, pc)
      PROVE  StartsInOrder'
  <2>1. run'[r].pc = pc /\ run'[r].target = run[r].target /\ run'[r].above = run[r].above
    BY <1>3, MovesOn
  <2>2. StartsAfter(r)'
    BY <1>0, <1>n, <1>s, <1>3, <2>1 DEF StartsAfter, RepliesUpTo, InFlight
  <2>. QED BY <1>0, <2>2, StartKept
<1>4. ASSUME NEW outcome \in {"done", "fail", "later"}, Leaves(r, outcome) PROVE StartsInOrder'
  <2>1. run'[r].pc \in {"settling", "done"} /\ run'[r].target = 0
    BY <1>4, MovesOn
  <2>. QED BY <1>0, <2>1, StartsNothing
<1>5. CASE Thinks(r)
  <2>1. InFlight(r) /\ Goes(r, IF owner = "bot" THEN "gating" ELSE "marking")
    BY <1>5 DEF Thinks, InFlight
  <2>. QED BY <1>3, <2>1
<1>6. CASE Gates(r) \/ GateFails(r)
  BY <1>3, <1>4, <1>6 DEF Gates, GateFails, InFlight
<1>7. CASE Claims(r)
  BY <1>3, <1>4, <1>7 DEF Claims, InFlight
<1>8. CASE Marks(r) \/ CalledOff(r) \/ Throws(r)
  BY <1>4, <1>8 DEF Marks, CalledOff, Throws
<1>. QED BY <1>1, <1>2, <1>5, <1>6, <1>7, <1>8 DEF TurnSteps

\* A reply that is posted comes after all there are, and is the newest outgoing message.
LEMMA PostStartsKept ==
    ASSUME TypeInv, Next, OneTurn, StartsInOrder, NEW r \in Runs, Posts(r)
    PROVE  StartsInOrder'
<1>. DEFINE answer == [above |-> run[r].above, target |-> run[r].target]
            last == Len(answers) + 1
<1>. RunsType /\ OnlyMoves(r)
  BY OneMoves DEF TypeInv, TurnSteps
<1>1. answers' = Append(answers, answer) /\ lastOut' = sent /\ sent' = sent /\ InFlight(r) /\ InTurn(r)
  BY DEF Posts, InFlight, InTurn, TurnPcs
<1>2. answers \in Seq(AnswerType)
  BY DEF TypeInv, AnswersType
<1>3. answer.target = run[r].target /\ answer.above = run[r].above
  OBVIOUS
<1>. HIDE DEF answer
<1>4. /\ DOMAIN answers' = DOMAIN answers \cup {last}
      /\ \A i \in DOMAIN answers : i < last /\ ~(last < i) /\ answers'[i] = answers[i]
      /\ ~(last < last)
      /\ answers'[last].target = run[r].target /\ answers'[last].above = run[r].above
  <2>1. /\ DOMAIN answers = 1..Len(answers) /\ Len(answers) \in Nat
        /\ DOMAIN answers' = 1..last
        /\ \A i \in 1..Len(answers) : answers'[i] = answers[i]
        /\ answers'[last] = answer
    BY <1>1, <1>2
  <2>. QED BY <1>3, <2>1
<1>. HIDE DEF last
<1>5. StartsAfter(r) /\ RepliesUpTo(run[r].above)
  BY <1>1 DEF StartsInOrder, StartsAfter
<1>6. /\ sent \in Nat /\ lastOut \in 0..sent
      /\ \A i \in DOMAIN answers : answers[i].target \in Nat
  BY AnswersTyped, ConstantsAssumption DEF TypeInv, ChatwootType
<1>7. RepliesUpTo(lastOut)'
  BY <1>1, <1>4, <1>5, <1>6 DEF StartsInOrder, StartsAfter, RepliesUpTo
<1>8. RepliesInOrder'
  BY <1>4, <1>5 DEF StartsInOrder, RepliesInOrder, RepliesUpTo
<1>9. ASSUME NEW q \in Runs PROVE StartsAfter(q)'
  <2>1. CASE q = r
    <3>1. run'[r].pc = "marking" /\ run'[r].target = run[r].target
      BY PcsMembers, MovesOn DEF Posts
    <3>. QED BY <1>1, <1>5, <2>1, <3>1 DEF StartsAfter, InFlight
  <2>2. CASE q # r
    <3>1. run'[q] = run[q] /\ ~InTurn(q) /\ StartsAfter(q)
      BY <1>1, <2>2 DEF OnlyMoves, OneTurn, StartsInOrder
    <3>. QED BY <1>1, <3>1 DEF StartsAfter, InFlight, InTurn, TurnPcs
  <2>. QED BY <2>1, <2>2
<1>. QED BY <1>7, <1>8, <1>9 DEF StartsInOrder

LEMMA StartsStep ==
    ASSUME TypeInv, ClaimInv, Next, InOneProcess', OneTurn, NoDirectTurn, StartsInOrder
    PROVE  StartsInOrder'
<1>. RunsType /\ BoundsType
  BY DEF TypeInv
<1>0. ASSUME UNCHANGED <<run, answers>> PROVE StartsInOrder'
  <2>1. OnlyMoves(Flush) /\ StartsAfter(Flush) /\ sent <= sent' /\ sent \in Nat /\ sent' \in Nat
    BY <1>0, FlushIsRun, ChatwootKept DEF OnlyMoves, StartsInOrder
  <2>2. run[Flush].target \in Nat
    BY FlushIsRun, RunFields, ConstantsAssumption
  <2>3. StartsAfter(Flush)'
    BY <1>0, <2>1, <2>2 DEF StartsAfter, RepliesUpTo, InFlight
  <2>. QED BY <1>0, <2>1, <2>3, FlushIsRun, StartKept
<1>1. CASE CustomerWrites \/ OwnerChanges \/ HumanAnswers \/ Reaps \/ Resets
  BY <1>0, <1>1 DEF CustomerWrites, OwnerChanges, HumanAnswers, Reaps, Resets
<1>2. ASSUME NEW m \in Msgs, DeliverySteps(m) PROVE StartsInOrder'
  BY <1>0, <1>2 DEF DeliverySteps, DeliveryGates, DeliverySkips, DeliveryArms, DeliveryDies
<1>3. ASSUME NEW m \in Msgs, NEW p \in Procs, TurnsDirect(m, p) PROVE FALSE
  BY <1>3 DEF TurnsDirect, InOneProcess, BoundsType
<1>4. ASSUME NEW p \in Procs, Crashes(p) PROVE StartsInOrder'
  <2>1. UNCHANGED <<sent, lastOut, answers>> /\ sent \in Nat
    BY <1>4, ChatwootKept DEF Crashes, chatwoot
  <2>2. ASSUME NEW q \in Runs PROVE StartsAfter(q)'
    <3>1. StartsAfter(q)
      BY DEF StartsInOrder
    <3>2. run'[q] = run[q] \/ (run'[q].pc \in {"idle", "done"} /\ run'[q].target = 0)
      BY <1>4 DEF Crashes, NoRun
    <3>. QED BY <2>1, <3>1, <3>2 DEF StartsAfter, RepliesUpTo, InFlight
  <2>. QED BY <2>1, <2>2 DEF StartsInOrder, RepliesUpTo, RepliesInOrder
<1>. QED BY <1>1, <1>2, <1>3, <1>4, FlushStartsKept, ClickStartsKept, TurnStartsKept,
            PostStartsKept DEF Next

\* Whoever enters a turn found the process free of one.
LEMMA OneTurnStep ==
    ASSUME TypeInv, Next, InOneProcess, InOneProcess', OneTurn, NoDirectTurn
    PROVE  OneTurn' /\ NoDirectTurn'
<1>. RunsType /\ BoundsType
  BY DEF TypeInv
<1>. USE PcsMembers
<1>f. ASSUME ~BusyIn(Leader), NEW q \in Runs PROVE ~InTurn(q)
  <2>1. CASE q \in Msgs
    BY <2>1 DEF NoDirectTurn, InTurn, TurnPcs
  <2>2. CASE q \notin Msgs
    BY <1>f, <2>2 DEF BusyIn, HoldsFlush, InOneProcess, InTurn
  <2>. QED BY <2>1, <2>2
<1>m. Msgs \subseteq Runs /\ Flush \notin Msgs /\ Clicks \cap Msgs = {} /\ Clicks \subseteq Runs
  BY ConstantsAssumption DEF Runs
<1>0. ASSUME UNCHANGED run PROVE OneTurn' /\ NoDirectTurn'
  BY <1>0 DEF OneTurn, NoDirectTurn, InTurn
<1>a. ASSUME NEW r \in Runs \ Msgs, OnlyMoves(r), InTurn(r) \/ ~InTurn(r)' \/ ~BusyIn(Leader)
      PROVE  OneTurn' /\ NoDirectTurn'
  <2>1. \A q \in Runs \ {r} : InTurn(q)' <=> InTurn(q)
    BY <1>a DEF OnlyMoves, InTurn
  <2>2. OneTurn'
    BY <1>a, <1>f, <2>1 DEF OneTurn
  <2>. QED BY <1>a, <1>m, <2>2 DEF NoDirectTurn, OnlyMoves
<1>1. CASE CustomerWrites \/ OwnerChanges \/ HumanAnswers \/ Reaps \/ Resets
  BY <1>0, <1>1 DEF CustomerWrites, OwnerChanges, HumanAnswers, Reaps, Resets
<1>2. ASSUME NEW m \in Msgs, DeliverySteps(m) PROVE OneTurn' /\ NoDirectTurn'
  BY <1>0, <1>2 DEF DeliverySteps, DeliveryGates, DeliverySkips, DeliveryArms, DeliveryDies
<1>3. ASSUME NEW m \in Msgs, NEW p \in Procs, TurnsDirect(m, p) PROVE FALSE
  BY <1>3 DEF TurnsDirect, InOneProcess, BoundsType
<1>4. ASSUME FlushSteps PROVE OneTurn' /\ NoDirectTurn'
  <2>1. OnlyMoves(Flush) /\ Flush \in Runs \ Msgs
    BY <1>4, <1>m, FlushIsRun, OneMoves
  <2>2. CASE FlushClaims
    <3>1. run'[Flush].pc = "reading"
      BY <2>2, FlushIsRun DEF FlushClaims, NoRun, RunsType
    <3>. QED BY <1>a, <2>1, <3>1 DEF InTurn, TurnPcs
  <2>3. CASE FlushReads
    <3>1. run'[Flush].pc \in {"checking", "dropping"}
      <4>1. PICK next \in {"checking", "dropping"} :
               run' = [run EXCEPT ![Flush].pc = next, ![Flush].mark = handled]
        BY <2>3 DEF FlushReads
      <4>2. /\ run'[Flush] = [run[Flush] EXCEPT !.pc = next, !.mark = handled]
            /\ run[Flush] \in RunType
        BY <4>1, FlushIsRun, RunFields DEF RunsType
      <4>. QED BY <4>2 DEF RunType
    <3>. QED BY <1>a, <2>1, <3>1 DEF InTurn, TurnPcs
  <2>4. CASE FlushFindsNobody \/ FlushDrops \/ FlushDefers
    <3>1. run'[Flush].pc \in {"settling", "done"}
      BY <2>4, FlushIsRun, MovesOn DEF FlushFindsNobody, FlushDrops, FlushDefers
    <3>. QED BY <1>a, <2>1, <3>1 DEF InTurn, TurnPcs
  <2>5. CASE FlushEnters
    BY <1>a, <2>1, <2>5 DEF FlushEnters
  <2>6. CASE FlushOverrides
    BY <2>6 DEF FlushOverrides, Slow, InOneProcess, BoundsType
  <2>7. CASE FlushSettles
    <3>1. run'[Flush].pc = "idle"
      BY <2>7, FlushIsRun DEF FlushSettles, NoRun, RunsType
    <3>. QED BY <1>a, <2>1, <3>1 DEF InTurn, TurnPcs
  <2>. QED BY <1>4, <2>2, <2>3, <2>4, <2>5, <2>6, <2>7 DEF FlushSteps
<1>5. ASSUME NEW c \in Clicks, ClickSteps(c) \/ \E p \in Procs : ClickStarts(c, p)
      PROVE  OneTurn' /\ NoDirectTurn'
  <2>1. OnlyMoves(c) /\ c \in Runs \ Msgs
    BY <1>5, <1>m, OneMoves
  <2>2. CASE ClickRefused(c)
    <3>1. run'[c].pc \in {"settling", "done"}
      BY <2>1, <2>2, MovesOn DEF ClickRefused
    <3>. QED BY <1>a, <2>1, <3>1 DEF InTurn, TurnPcs
  <2>3. CASE ClickAsks(c)
    <3>1. run'[c].pc = "entering"
      BY <2>1, <2>3, MovesOn DEF ClickAsks
    <3>. QED BY <1>a, <2>1, <3>1 DEF InTurn, TurnPcs
  <2>4. CASE ClickEnters(c)
    BY <1>a, <2>1, <2>4 DEF ClickEnters, InOneProcess
  <2>5. ASSUME NEW p \in Procs, ClickStarts(c, p) PROVE OneTurn' /\ NoDirectTurn'
    <3>1. run'[c].pc = "asking"
      BY <2>1, <2>5 DEF ClickStarts, NoRun, RunsType
    <3>. QED BY <1>a, <2>1, <3>1 DEF InTurn, TurnPcs
  <2>. QED BY <1>5, <2>2, <2>3, <2>4, <2>5 DEF ClickSteps
<1>6. ASSUME NEW r \in Runs, TurnSteps(r) \/ GateFails(r) \/ CalledOff(r) \/ Throws(r)
      PROVE  OneTurn' /\ NoDirectTurn'
  <2>1. OnlyMoves(r) /\ run[r].pc # "idle"
    BY <1>6, OneMoves DEF TurnSteps, Fetches, Selects, Thinks, Gates, Claims, Posts, Marks,
                          GateFails, CalledOff, InFlight, Throws
  <2>2. r \in Runs \ Msgs
    BY <2>1 DEF NoDirectTurn
  <2>3. CASE CalledOff(r) \/ Throws(r)
    <3>1. run'[r].pc \in {"settling", "done"}
      BY <2>3, MovesOn DEF CalledOff, Throws
    <3>. QED BY <1>a, <2>1, <2>2, <3>1 DEF InTurn, TurnPcs
  <2>4. CASE TurnSteps(r) \/ GateFails(r)
    <3>1. InTurn(r)
      BY <2>4 DEF TurnSteps, Fetches, Selects, Thinks, Gates, Claims, Posts, Marks, GateFails,
                  InTurn, TurnPcs
    <3>. QED BY <1>a, <2>1, <2>2, <3>1
  <2>. QED BY <1>6, <2>3, <2>4
<1>7. ASSUME NEW p \in Procs, Crashes(p) PROVE OneTurn' /\ NoDirectTurn'
  <2>1. \A q \in Runs : run'[q] = run[q] \/ (run[q].pc # "idle" /\ run'[q].pc \in {"idle", "done"})
    BY <1>7 DEF Crashes, NoRun
  <2>. QED BY <1>m, <2>1 DEF OneTurn, NoDirectTurn, InTurn, TurnPcs
<1>. QED BY <1>1, <1>2, <1>3, <1>4, <1>5, <1>6, <1>7 DEF Next

LEMMA AloneInvInit == Init => AloneInv /\ InOneProcess
<1>. SUFFICES ASSUME Init PROVE AloneInv /\ InOneProcess
  OBVIOUS
<1>1. DOMAIN answers = {} /\ sent = 0 /\ armFails = 0 /\ slow = 0
  BY DEF Init
<1>2. \A r \in Runs : run[r].pc = "idle" /\ run[r].target = 0 /\ run[r].proc = Leader
  BY DEF Init, NoRun
<1>3. Msgs \subseteq Runs
  BY DEF Runs
<1>. QED BY <1>1, <1>2, <1>3 DEF AloneInv, OneTurn, NoDirectTurn, StartsInOrder, StartsAfter,
                                 RepliesUpTo, RepliesInOrder, InTurn, TurnPcs, InFlight,
                                 InOneProcess

LEMMA AloneInvStep ==
    ASSUME IInv, AloneInv, InOneProcess, InOneProcess', [Next]_vars
    PROVE  AloneInv'
<1>1. CASE Next
  BY <1>1, OneTurnStep, StartsStep DEF IInv, AloneInv
<1>2. CASE UNCHANGED vars
  BY <1>2 DEF AloneInv, OneTurn, NoDirectTurn, StartsInOrder, StartsAfter, RepliesUpTo,
              RepliesInOrder, InTurn, InFlight, vars, chatwoot
<1>. QED BY <1>1, <1>2

LEMMA InOrderIsOnce == TypeInv /\ AloneInv => AnsweredOnce
<1>. SUFFICES ASSUME TypeInv, AloneInv, NEW i \in DOMAIN answers, NEW j \in DOMAIN answers, i # j
              PROVE  Covers(answers[i]) \cap Covers(answers[j]) = {}
  BY DEF AnsweredOnce
<1>1. /\ i \in Nat /\ j \in Nat
      /\ answers[i].target \in Nat /\ answers[i].above \in Nat
      /\ answers[j].target \in Nat /\ answers[j].above \in Nat
  BY AnswersTyped
<1>2. i < j => answers[i].target <= answers[j].above
  BY DEF AloneInv, StartsInOrder, RepliesInOrder
<1>3. j < i => answers[j].target <= answers[i].above
  BY DEF AloneInv, StartsInOrder, RepliesInOrder
<1>. QED BY <1>1, <1>2, <1>3 DEF Covers

\* In one process, with every message debounced and no deadline outlasted, no message is part of
\* two replies: neither a flush and its retry after a crash or a lost send, nor a flush and a
\* click, answer it both (handler.ts, reengage.ts, watermark.ts).
THEOREM OneReplyAlone ==
    ASSUME Procs = {Leader}, MaxArmFails = 0, MaxSlow = 0
    PROVE  Spec => []AnsweredOnce
<1>1. TypeInv => InOneProcess
  <2>. SUFFICES ASSUME TypeInv PROVE InOneProcess
    OBVIOUS
  <2>1. \A r \in Runs : run[r].proc \in Procs
    BY DEF TypeInv, RunsType, RunType
  <2>2. armFails = 0 /\ slow = 0
    BY DEF TypeInv, BoundsType
  <2>. QED BY <2>1, <2>2 DEF InOneProcess
<1>2. IInv => InOneProcess
  BY <1>1 DEF IInv
<1>3. IInv /\ AloneInv /\ InOneProcess /\ InOneProcess' /\ [Next]_vars => AloneInv'
  BY AloneInvStep
<1>4. IInv /\ AloneInv => AnsweredOnce
  BY InOrderIsOnce DEF IInv
<1>5. Init => AloneInv
  BY AloneInvInit
<1>. QED BY <1>2, <1>3, <1>4, <1>5, IInvHolds, PTL DEF Spec

\* The instance of the run that has a replica beside the leader but moves in the leader only.
THEOREM OneReplyInOneProcess == UnionSpec => []OnceInOneProcess
<1>. DEFINE Inv == IInv /\ (instance = "alone" => AloneInv /\ InOneProcess)
<1>1. UnionInit => Inv
  BY TypeInvInit, ClaimInvInit, AloneInvInit DEF UnionInit, IInv
<1>2. Inv /\ [UnionNext]_allVars => Inv'
  <2>. SUFFICES ASSUME Inv, [UnionNext]_allVars PROVE Inv'
    OBVIOUS
  <2>1. [Next]_vars /\ instance' = instance
    BY DEF UnionNext, allVars
  <2>2. IInv'
    BY <2>1, IInvStep
  <2>3. instance = "alone" => InOneProcess'
    <3>1. UNCHANGED vars => (InOneProcess => InOneProcess')
      BY DEF InOneProcess, vars, bounds
    <3>. QED BY <3>1 DEF UnionNext, allVars
  <2>. QED BY <2>1, <2>2, <2>3, AloneInvStep
<1>3. Inv => OnceInOneProcess
  BY InOrderIsOnce DEF IInv, OnceInOneProcess
<1>. QED BY <1>1, <1>2, <1>3, PTL DEF UnionSpec

----------------------------------------------------------------------------
(* The deliveries of the same run: no row that closed is a quiet loss. *)

\* The invariant of the instance whose deliveries move.
LedgerInv == IF instance = "repeat" THEN Repeat!Inv /\ Repeat!TruthInv
                                    ELSE Dying!Inv /\ Dying!TruthInv

\* All are instances of their modules.
LEMMA AreInstances ==
    Dying!ConstantsAssumption /\ Repeat!ConstantsAssumption /\ Overlap!ConstantsAssumption
  BY InstancesAssumption

\* Nothing of either instance moves what it does not bind.
LEMMA InstancesStay == Dying!RoutesStay /\ Repeat!RoutesStay
  BY DEF Dying!RoutesStay, Repeat!RoutesStay

\* The deliveries that die, whichever instance of the run moves.
LEMMA DyingHolds ==
    ASSUME instance # "repeat", LedgerInv, [UnionNext]_allVars
    PROVE  LedgerInv'
<1>1. [Dying!Next]_(Dying!vars)
  BY Zenon DEF UnionNext, allVars, ledgerVars, Dying!vars, Dying!world, Dying!data, Dying!turns, Dying!jobs,
               Dying!lines, Dying!bounds
<1>2. Dying!Inv /\ Dying!TruthInv
  BY DEF LedgerInv
<1>3. Dying!Inv'
  BY <1>1, <1>2, AreInstances, Dying!Inductive DEF Dying!ConstantsAssumption
<1>4. Dying!TruthInv'
  BY <1>1, <1>2, <1>3, InstancesStay, AreInstances, Dying!TruthInductive
  DEF Dying!Before, Dying!ConstantsAssumption
<1>5. instance' = instance
  BY DEF UnionNext, allVars
<1>. QED BY <1>3, <1>4, <1>5 DEF LedgerInv

\* The delivery that is repeated, likewise.
LEMMA RepeatHolds ==
    ASSUME instance = "repeat", LedgerInv, [UnionNext]_allVars
    PROVE  LedgerInv'
<1>1. [Repeat!Next]_(Repeat!vars)
  BY Zenon DEF UnionNext, allVars, ledgerVars, Repeat!vars, Repeat!world, Repeat!data, Repeat!turns, Repeat!jobs,
               Repeat!lines, Repeat!bounds
<1>2. Repeat!Inv /\ Repeat!TruthInv
  BY DEF LedgerInv
<1>3. Repeat!Inv'
  BY <1>1, <1>2, AreInstances, Repeat!Inductive DEF Repeat!ConstantsAssumption
<1>4. Repeat!TruthInv'
  BY <1>1, <1>2, <1>3, InstancesStay, AreInstances, Repeat!TruthInductive
  DEF Repeat!Before, Repeat!ConstantsAssumption
<1>5. instance' = instance
  BY DEF UnionNext, allVars
<1>. QED BY <1>3, <1>4, <1>5 DEF LedgerInv

LEMMA LedgerInitially == UnionInit => LedgerInv
<1>1. ASSUME UnionInit
      PROVE  (instance # "repeat" /\ Dying!Init) \/ (instance = "repeat" /\ Repeat!Init)
  BY <1>1 DEF UnionInit
<1>2. Dying!Init => Dying!Inv /\ Dying!TruthInv
  BY AreInstances, Dying!Initially, Dying!TruthInitially DEF Dying!ConstantsAssumption
<1>3. Repeat!Init => Repeat!Inv /\ Repeat!TruthInv
  BY AreInstances, Repeat!Initially, Repeat!TruthInitially DEF Repeat!ConstantsAssumption
<1>. QED BY <1>1, <1>2, <1>3 DEF LedgerInv

\* No row of a message that a flush answers closes over a message nobody answered,
\* decided or announced, when the attempts of its deliveries die, and when one is
\* repeated on two replicas (webhook.ts, recover-delivery.ts).
THEOREM BurstRowsTell == UnionSpec => []NoQuietLoss
<1>1. LedgerInv /\ [UnionNext]_allVars => LedgerInv'
  BY DyingHolds, RepeatHolds
<1>2. LedgerInv => NoQuietLoss
  BY AreInstances, Dying!TruthTells, Repeat!TruthTells
  DEF LedgerInv, NoQuietLoss, Dying!ConstantsAssumption, Repeat!ConstantsAssumption
<1>. QED BY <1>1, <1>2, LedgerInitially, PTL DEF UnionSpec

----------------------------------------------------------------------------
(* The turns and the append of the same run: a late release is told apart. *)

\* The invariant of the instance whose turns move.
TurnsOwn == instance = "overlap" => Overlap!OwnInv

LEMMA TurnsOwnStep ==
    ASSUME TurnsOwn, [UnionNext]_allVars
    PROVE  TurnsOwn' /\ (instance = "overlap" => Overlap!OnlyItsOwnHold)
<1>1. instance' = instance
  BY DEF UnionNext, allVars
<1>2. CASE instance = "overlap"
  <2>1. [Overlap!Next]_(Overlap!vars) /\ Overlap!OwnInv
    BY <1>2, Zenon DEF TurnsOwn, UnionNext, allVars, threadVars, Overlap!vars, Overlap!thread,
                       Overlap!jobs, Overlap!resets, Overlap!local, Overlap!bounds
  <2>2. Overlap!OwnInv'
    BY <2>1, AreInstances, Overlap!OwnInductive DEF Overlap!ConstantsAssumption
  <2>3. Overlap!OnlyItsOwnHold
    BY <2>1, AreInstances, Overlap!OwnReleases DEF Overlap!ConstantsAssumption
  <2>. QED BY <2>2, <2>3 DEF TurnsOwn
<1>. QED BY <1>1, <1>2 DEF TurnsOwn

\* Of two turns and an append in one process, one of them slower than its lease, a late
\* release ends a hold only of the occupancy its turn joined (clearTurnOwning).
THEOREM LateReleasesTellApart == UnionSpec => ReleaseEndsItsOwnOccupancy
<1>1. UnionInit => TurnsOwn
  <2>1. UnionInit => (instance = "overlap" => Overlap!Init)
    BY DEF UnionInit
  <2>. QED BY <2>1, AreInstances, Overlap!OwnInitially
           DEF TurnsOwn, Overlap!ConstantsAssumption
<1>2. TurnsOwn /\ [UnionNext]_allVars => TurnsOwn'
  BY TurnsOwnStep
<1>3. TurnsOwn /\ [UnionNext]_allVars => [instance = "overlap" => Overlap!OnlyItsOwnHold]_allVars
  BY TurnsOwnStep
<1>. QED BY <1>1, <1>2, <1>3, PTL DEF UnionSpec, ReleaseEndsItsOwnOccupancy

=============================================================================
