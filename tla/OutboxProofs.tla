---------------------------- MODULE OutboxProofs ----------------------------
(***************************************************************************)
(* What the buses promise while no row of theirs was deleted, for any      *)
(* webhooks, alerts and bounds.                                            *)
(*                                                                         *)
(* A delivery that ends writes its outcome by row id, whatever the row has *)
(* become.  Nothing goes wrong because a tick waits for its batch: what is *)
(* in flight is the one claim of a row that is SENDING still, with the     *)
(* count that was claimed (InStep, Alone).  Only a row deleted under its   *)
(* claim breaks that: the write throws, the batch goes on unawaited and    *)
(* the next tick reaps and claims over it.  So the invariant is kept for   *)
(* each bus of which nothing was deleted (Calm).                           *)
(***************************************************************************)
EXTENDS Outbox, TLAPS

Flying(c) == flight[c].at # "none"

\* Nothing of the bus was deleted.
Calm(b) == \A r \in Rows : Bus(r) = b => item[r].status # "DELETED"

\* A claim in flight is awaited, and its row is as it was claimed.
InStep(c) == Flying(c) =>
    /\ ~flight[c].orphan /\ item[c[1]].status = "SENDING"
    /\ flight[c].count = item[c[1]].count
    /\ flight[c].at = "accepted" => told[c[1]] = flight[c].count

\* No other claim of its row is in flight with it.
Alone(c) == \A d \in Claims : d[1] = c[1] /\ Flying(c) /\ Flying(d) => d = c

IsTold(r) == item[r].status = "DELIVERED" => told[r] = item[r].count

BusInv(b) ==
    /\ \A c \in Claims : Bus(c[1]) = b => InStep(c) /\ Alone(c)
    /\ \A r \in Rows : Bus(r) = b => IsTold(r)

\* What may still be tried has attempts left.
TriesLeft ==
    /\ \A r \in Rows : item[r].status \in {"PENDING", "SENDING"} => item[r].attempts < MaxAttempts
    /\ \A c \in Claims : Flying(c) => flight[c].attempts < MaxAttempts

\* Nothing is deleted but by the operator.
DeletesCount == deletes = 0 => \A r \in Rows : item[r].status # "DELETED"

IInv ==
    /\ TypeOK /\ TriesLeft /\ DeletesCount
    /\ \A b \in Buses : Calm(b) => BusInv(b)

---------------------------------------------------------------------------
(* The types. *)

LEMMA ClaimParts == \A c \in Claims : c[1] \in Rows
  BY DEF Claims

\* The fields of what is typed.
LEMMA Fields ==
    ASSUME TypeOK
    PROVE  /\ \A r \in Rows : item[r] \in RowType
           /\ \A c \in Claims : flight[c] \in FlightType
  BY DEF TypeOK

LEMMA TypesInit == ASSUME ConstantsAssumption, Init PROVE TypeOK /\ TriesLeft /\ DeletesCount
<1>1. NoRow \in RowType /\ NoFlight \in FlightType
  BY DEF NoRow, NoFlight, RowType, FlightType, ConstantsAssumption
<1>. QED BY <1>1 DEF Init, TypeOK, TriesLeft, DeletesCount, Flying, NoRow, NoFlight, ConstantsAssumption

\* What a row begins as, and what it ends as when it is deleted.
LEMMA RowForms ==
    ASSUME ConstantsAssumption
    PROVE  /\ LET n == [NoRow EXCEPT !.status = "PENDING", !.due = TRUE]
              IN  n \in RowType /\ n.status = "PENDING" /\ n.attempts = 0 /\ n.count = 0
           /\ LET n == [NoRow EXCEPT !.status = "PENDING", !.count = 1]
              IN  n \in RowType /\ n.status = "PENDING" /\ n.attempts = 0 /\ n.count = 1
           /\ LET n == [NoRow EXCEPT !.status = "DELETED"]
              IN  n \in RowType /\ n.status = "DELETED"
<1>1. NoRow \in RowType /\ NoRow.attempts = 0 /\ NoRow.count = 0
  BY DEF NoRow, RowType, ConstantsAssumption
<1>2. ASSUME NEW o \in RowType
      PROVE  /\ LET n == [o EXCEPT !.status = "PENDING", !.due = TRUE]
                IN  n \in RowType /\ n.status = "PENDING" /\ n.attempts = o.attempts /\ n.count = o.count
             /\ LET n == [o EXCEPT !.status = "PENDING", !.count = 1]
                IN  n \in RowType /\ n.status = "PENDING" /\ n.attempts = o.attempts /\ n.count = 1
             /\ LET n == [o EXCEPT !.status = "DELETED"]
                IN  n \in RowType /\ n.status = "DELETED"
  <2>1. LET n == [o EXCEPT !.status = "PENDING", !.due = TRUE]
        IN  n \in RowType /\ n.status = "PENDING" /\ n.attempts = o.attempts /\ n.count = o.count
    BY DEF RowType
  <2>2. LET n == [o EXCEPT !.status = "PENDING", !.count = 1]
        IN  n \in RowType /\ n.status = "PENDING" /\ n.attempts = o.attempts /\ n.count = 1
    BY DEF RowType
  <2>3. LET n == [o EXCEPT !.status = "DELETED"]
        IN  n \in RowType /\ n.status = "DELETED"
    BY DEF RowType
  <2>. QED BY <2>1, <2>2, <2>3
<1>. QED BY <1>1, <1>2

\* A field set.
LEMMA FieldForms ==
    ASSUME ConstantsAssumption, NEW o \in RowType
    PROVE  /\ LET n == [o EXCEPT !.count = @ + 1]
              IN  n \in RowType /\ n.status = o.status /\ n.attempts = o.attempts
           /\ LET n == [o EXCEPT !.due = TRUE]
              IN  n \in RowType /\ n.status = o.status /\ n.attempts = o.attempts /\ n.count = o.count
           /\ LET n == [o EXCEPT !.stale = TRUE]
              IN  n \in RowType /\ n.status = o.status /\ n.attempts = o.attempts /\ n.count = o.count
           /\ LET n == [o EXCEPT !.status = "SENDING"]
              IN  n \in RowType /\ n.status = "SENDING" /\ n.attempts = o.attempts /\ n.count = o.count
           /\ LET n == [o EXCEPT !.status = "PENDING", !.stale = FALSE]
              IN  n \in RowType /\ n.status = "PENDING" /\ n.attempts = o.attempts /\ n.count = o.count
           /\ LET n == [o EXCEPT !.status = "PENDING", !.due = TRUE, !.attempts = 0]
              IN  n \in RowType /\ n.status = "PENDING" /\ n.attempts = 0 /\ n.count = o.count
<1>1. LET n == [o EXCEPT !.count = @ + 1]
      IN  n \in RowType /\ n.status = o.status /\ n.attempts = o.attempts
  BY DEF RowType
<1>2. LET n == [o EXCEPT !.due = TRUE]
      IN  n \in RowType /\ n.status = o.status /\ n.attempts = o.attempts /\ n.count = o.count
  BY DEF RowType
<1>3. LET n == [o EXCEPT !.stale = TRUE]
      IN  n \in RowType /\ n.status = o.status /\ n.attempts = o.attempts /\ n.count = o.count
  BY DEF RowType
<1>4. LET n == [o EXCEPT !.status = "SENDING"]
      IN  n \in RowType /\ n.status = "SENDING" /\ n.attempts = o.attempts /\ n.count = o.count
  BY DEF RowType
<1>5. LET n == [o EXCEPT !.status = "PENDING", !.stale = FALSE]
      IN  n \in RowType /\ n.status = "PENDING" /\ n.attempts = o.attempts /\ n.count = o.count
  BY DEF RowType
<1>6. LET n == [o EXCEPT !.status = "PENDING", !.due = TRUE, !.attempts = 0]
      IN  n \in RowType /\ n.status = "PENDING" /\ n.attempts = 0 /\ n.count = o.count
  <2>1. 0 \in 0..MaxAttempts
    BY DEF ConstantsAssumption
  <2>. QED BY <2>1 DEF RowType
<1>. QED BY <1>1, <1>2, <1>3, <1>4, <1>5, <1>6

\* The outcome written.
Written(o, a, status) == [o EXCEPT !.status = status, !.due = FALSE, !.stale = FALSE, !.attempts = a]

LEMMA WrittenForm ==
    ASSUME NEW o \in RowType, NEW a \in 0..MaxAttempts, NEW status \in {"PENDING", "DELIVERED", "DEAD"}
    PROVE  /\ Written(o, a, status) \in RowType /\ Written(o, a, status).status = status
           /\ Written(o, a, status).attempts = a /\ Written(o, a, status).count = o.count
  BY DEF RowType, Written

\* What a step leaves of the rows that stand by the types.
Kept(o, n) ==
    /\ n \in RowType
    /\ n.status \in {"PENDING", "SENDING"} => n.attempts < MaxAttempts
    /\ o.status = "DELETED" => n.status = "DELETED"

\* What a step that is neither a claim nor an outcome makes of a row: it queues what is not
\* under way nor delivered, and adds to the count of what waits.
Quiet(o, n) ==
    \/ n.status = o.status /\ (o.status # "PENDING" => n.count = o.count)
    \/ o.status \notin {"SENDING", "DELIVERED"} /\ n.status \notin {"DELIVERED", "DELETED"}

RowsKept == item' \in [Rows -> RowType] /\ \A r \in Rows : Kept(item[r], item'[r])
RowsQuiet == \A r \in Rows : Quiet(item[r], item'[r])

Typed == ConstantsAssumption /\ TypeOK /\ TriesLeft /\ DeletesCount

\* One row written.
LEMMA OneRow ==
    ASSUME Typed, NEW r \in Rows, NEW n, item' = [item EXCEPT ![r] = n], Kept(item[r], n)
    PROVE  /\ RowsKept /\ item'[r] = n
           /\ Quiet(item[r], n) => RowsQuiet
           /\ \A q \in Rows : q # r => item'[q] = item[q]
<1>1. item \in [Rows -> RowType]
  BY DEF Typed, TypeOK
<1>2. \A q \in Rows : Kept(item[q], item[q]) /\ Quiet(item[q], item[q])
  BY <1>1 DEF Typed, TriesLeft, Kept, Quiet
<1>. QED BY <1>1, <1>2 DEF RowsKept, RowsQuiet, Kept

\* A row is queued: a webhook's event, or a requeue.
LEMMA HookRows ==
    ASSUME Typed, NEW h \in Hooks, Emits(h) \/ Requeues(h)
    PROVE  RowsKept /\ RowsQuiet
<1>1. h \in Rows /\ item[h] \in RowType
  BY Fields DEF Rows, Typed
<1>2. CASE Emits(h)
  <2>. DEFINE n == [NoRow EXCEPT !.status = "PENDING", !.due = TRUE]
  <2>1. n \in RowType /\ n.status = "PENDING" /\ n.attempts = 0
    BY RowForms DEF Typed
  <2>2. item' = [item EXCEPT ![h] = n] /\ item[h].status = "ABSENT"
    BY <1>2 DEF Emits
  <2>. HIDE DEF n
  <2>3. Kept(item[h], n) /\ Quiet(item[h], n)
    BY <2>1, <2>2 DEF Kept, Quiet, Typed, ConstantsAssumption
  <2>. QED BY <1>1, <2>2, <2>3, OneRow
<1>3. CASE Requeues(h)
  <2>. DEFINE n == [item[h] EXCEPT !.status = "PENDING", !.due = TRUE, !.attempts = 0]
  <2>1. n \in RowType /\ n.status = "PENDING" /\ n.attempts = 0
    BY <1>1, FieldForms DEF Typed
  <2>2. item' = [item EXCEPT ![h] = n] /\ item[h].status = "DEAD"
    BY <1>3 DEF Requeues
  <2>. HIDE DEF n
  <2>3. Kept(item[h], n) /\ Quiet(item[h], n)
    BY <2>1, <2>2 DEF Kept, Quiet, Typed, ConstantsAssumption
  <2>. QED BY <1>1, <2>2, <2>3, OneRow
<1>. QED BY <1>2, <1>3

\* Time passes on a row.
LEMMA TimedRows ==
    ASSUME Typed, NEW r \in Rows, BecomesDue(r) \/ Ages(r)
    PROVE  RowsKept /\ RowsQuiet
<1>1. item[r] \in RowType
  BY Fields DEF Typed
<1>2. CASE BecomesDue(r)
  <2>. DEFINE n == [item[r] EXCEPT !.due = TRUE]
  <2>1. n \in RowType /\ n.status = item[r].status /\ n.attempts = item[r].attempts /\ n.count = item[r].count
    BY <1>1, FieldForms DEF Typed
  <2>2. item' = [item EXCEPT ![r] = n]
    BY <1>2 DEF BecomesDue
  <2>. HIDE DEF n
  <2>3. Kept(item[r], n) /\ Quiet(item[r], n)
    BY <2>1 DEF Kept, Quiet, Typed, TriesLeft
  <2>. QED BY <2>2, <2>3, OneRow
<1>3. CASE Ages(r)
  <2>. DEFINE n == [item[r] EXCEPT !.stale = TRUE]
  <2>1. n \in RowType /\ n.status = item[r].status /\ n.attempts = item[r].attempts /\ n.count = item[r].count
    BY <1>1, FieldForms DEF Typed
  <2>2. item' = [item EXCEPT ![r] = n]
    BY <1>3 DEF Ages
  <2>. HIDE DEF n
  <2>3. Kept(item[r], n) /\ Quiet(item[r], n)
    BY <2>1 DEF Kept, Quiet, Typed, TriesLeft
  <2>. QED BY <2>2, <2>3, OneRow
<1>. QED BY <1>2, <1>3

\* An error line counts on the rows that wait, or queues an alert.
LEMMA DispatchRows ==
    ASSUME Typed, Dispatches
    PROVE  RowsKept /\ RowsQuiet
<1>1. item \in [Rows -> RowType] /\ \A r \in Rows : Kept(item[r], item[r]) /\ Quiet(item[r], item[r])
  BY DEF Typed, TypeOK, TriesLeft, Kept, Quiet
<1>2. CASE UNCHANGED item
  BY <1>1, <1>2 DEF RowsKept, RowsQuiet
<1>3. CASE item' = [r \in Rows |-> IF r \in Coalesces THEN [item[r] EXCEPT !.count = @ + 1] ELSE item[r]]
  <2>1. ASSUME NEW r \in Rows
        PROVE  item'[r] \in RowType /\ Kept(item[r], item'[r]) /\ Quiet(item[r], item'[r])
    <3>. DEFINE n == [item[r] EXCEPT !.count = @ + 1]
    <3>1. n \in RowType /\ n.status = item[r].status /\ n.attempts = item[r].attempts
      BY <1>1, FieldForms DEF Typed
    <3>2. item'[r] = IF r \in Coalesces THEN n ELSE item[r]
      BY <1>3
    <3>3. r \in Coalesces => item[r].status = "PENDING"
      BY DEF Coalesces
    <3>. HIDE DEF n
    <3>. QED BY <1>1, <3>1, <3>2, <3>3 DEF Kept, Quiet, Typed, TriesLeft
  <2>. QED BY <1>3, <2>1 DEF RowsKept, RowsQuiet
<1>4. ASSUME NEW a \in Alerts, item[a].status = "ABSENT",
             item' = [item EXCEPT ![a] = [NoRow EXCEPT !.status = "PENDING", !.count = 1]]
      PROVE  RowsKept /\ RowsQuiet
  <2>. DEFINE n == [NoRow EXCEPT !.status = "PENDING", !.count = 1]
  <2>1. n \in RowType /\ n.status = "PENDING" /\ n.attempts = 0
    BY RowForms DEF Typed
  <2>2. item' = [item EXCEPT ![a] = n] /\ a \in Rows
    BY <1>4 DEF Rows
  <2>. HIDE DEF n
  <2>3. Kept(item[a], n) /\ Quiet(item[a], n)
    BY <1>4, <2>1 DEF Kept, Quiet, Typed, ConstantsAssumption
  <2>. QED BY <2>2, <2>3, OneRow
<1>5. \/ UNCHANGED item
      \/ item' = [r \in Rows |-> IF r \in Coalesces THEN [item[r] EXCEPT !.count = @ + 1] ELSE item[r]]
      \/ \E a \in Alerts : /\ item[a].status = "ABSENT"
                           /\ item' = [item EXCEPT ![a] = [NoRow EXCEPT !.status = "PENDING", !.count = 1]]
  BY Zenon DEF Dispatches
<1>. QED BY <1>2, <1>3, <1>4, <1>5

---------------------------------------------------------------------------
(* The steps that move claims. *)

\* What a tick makes of a row: reaped, claimed, or left.
LEMMA TickRows ==
    ASSUME Typed, NEW b \in Buses, Ticks(b)
    PROVE  /\ RowsKept
           /\ \A r \in Rows :
                /\ item'[r].count = item[r].count
                /\ Bus(r) # b \/ item[r].status \notin {"PENDING", "SENDING"} => item'[r] = item[r]
                /\ item'[r].status = "DELIVERED" => item'[r] = item[r]
                /\ item'[r].status = "DELETED" => item[r].status = "DELETED"
           /\ flight' \in [Claims -> FlightType]
           /\ \A c \in Claims :
                \/ flight'[c] = flight[c]
                \/ /\ Bus(c[1]) = b /\ flight'[c].at = "claimed" /\ ~flight'[c].orphan
                   /\ flight'[c].count = item'[c[1]].count /\ item'[c[1]].status = "SENDING"
                   /\ flight'[c].attempts < MaxAttempts
                   /\ c = CHOOSE f \in FreeClaims(c[1]) : TRUE
<1>. DEFINE reaped == Reaps(b)
            picked == {r \in Rows : /\ Bus(r) = b /\ enabled[b]
                                    /\ reaped[r].status = "PENDING" /\ reaped[r].due}
<1>1. item \in [Rows -> RowType] /\ flight \in [Claims -> FlightType]
  BY DEF Typed, TypeOK
<1>2. /\ item' = [r \in Rows |-> IF r \in picked THEN [reaped[r] EXCEPT !.status = "SENDING"]
                                 ELSE reaped[r]]
      /\ flight' = [c \in Claims |->
                      IF c[1] \in picked /\ c = CHOOSE f \in FreeClaims(c[1]) : TRUE
                      THEN [at |-> "claimed", attempts |-> reaped[c[1]].attempts,
                            count |-> reaped[c[1]].count, orphan |-> FALSE]
                      ELSE flight[c]]
  BY Zenon DEF Ticks
<1>3. ASSUME NEW r \in Rows
      PROVE  /\ reaped[r] \in RowType
             /\ reaped[r].attempts = item[r].attempts /\ reaped[r].count = item[r].count
             /\ reaped[r] = item[r]
                  \/ (Bus(r) = b /\ item[r].status = "SENDING" /\ reaped[r].status = "PENDING")
  <2>. DEFINE n == [item[r] EXCEPT !.status = "PENDING", !.stale = FALSE]
  <2>1. item[r] \in RowType
    BY <1>1
  <2>2. n \in RowType /\ n.status = "PENDING" /\ n.attempts = item[r].attempts /\ n.count = item[r].count
    BY <2>1, FieldForms DEF Typed
  <2>3. reaped[r] = IF Bus(r) = b /\ item[r].status = "SENDING" /\ item[r].stale THEN n ELSE item[r]
    BY DEF Reaps
  <2>. HIDE DEF n, reaped
  <2>. QED BY <2>1, <2>2, <2>3
<1>. HIDE DEF reaped
<1>4. ASSUME NEW r \in Rows
      PROVE  /\ r \in picked => /\ Bus(r) = b /\ reaped[r].status = "PENDING"
                                /\ item'[r] \in RowType /\ item'[r].status = "SENDING"
                                /\ item'[r].attempts = item[r].attempts
                                /\ item'[r].count = item[r].count
             /\ r \notin picked => item'[r] = reaped[r]
  <2>. DEFINE n == [reaped[r] EXCEPT !.status = "SENDING"]
  <2>1. n \in RowType /\ n.status = "SENDING" /\ n.attempts = reaped[r].attempts /\ n.count = reaped[r].count
    BY <1>3, FieldForms DEF Typed
  <2>2. item'[r] = IF r \in picked THEN n ELSE reaped[r]
    BY <1>2
  <2>. HIDE DEF n
  <2>. QED BY <1>3, <2>1, <2>2
<1>5. item' = [r \in Rows |-> item'[r]]
  BY <1>2
<1>. HIDE DEF picked
<1>6. ASSUME NEW r \in Rows
      PROVE  /\ item'[r] \in RowType /\ Kept(item[r], item'[r])
             /\ item'[r].count = item[r].count
             /\ Bus(r) # b \/ item[r].status \notin {"PENDING", "SENDING"} => item'[r] = item[r]
             /\ item'[r].status = "DELIVERED" => item'[r] = item[r]
             /\ item'[r].status = "DELETED" => item[r].status = "DELETED"
  BY <1>3, <1>4 DEF Kept, Typed, TriesLeft
<1>7. RowsKept
  BY <1>5, <1>6 DEF RowsKept
<1>8. ASSUME NEW c \in Claims
      PROVE  /\ flight'[c] \in FlightType
             /\ \/ flight'[c] = flight[c]
                \/ /\ Bus(c[1]) = b /\ flight'[c].at = "claimed" /\ ~flight'[c].orphan
                   /\ flight'[c].count = item'[c[1]].count /\ item'[c[1]].status = "SENDING"
                   /\ flight'[c].attempts < MaxAttempts
                   /\ c = CHOOSE f \in FreeClaims(c[1]) : TRUE
  <2>. DEFINE m == [at |-> "claimed", attempts |-> reaped[c[1]].attempts,
                    count |-> reaped[c[1]].count, orphan |-> FALSE]
              chosen == c = CHOOSE f \in FreeClaims(c[1]) : TRUE
  <2>1. c[1] \in Rows
    BY ClaimParts
  <2>2. /\ m \in FlightType /\ m.at = "claimed" /\ m.attempts = reaped[c[1]].attempts
        /\ m.count = reaped[c[1]].count /\ ~m.orphan
    BY <1>3, <2>1 DEF RowType, FlightType
  <2>3. flight'[c] = IF c[1] \in picked /\ chosen THEN m ELSE flight[c]
    BY <1>2
  <2>. HIDE DEF m
  <2>4. CASE c[1] \in picked /\ chosen
    <3>1. item[c[1]].attempts < MaxAttempts
      BY <1>3, <1>4, <2>1, <2>4 DEF Typed, TriesLeft
    <3>. QED BY <1>3, <1>4, <2>1, <2>2, <2>3, <2>4, <3>1
  <2>5. CASE ~(c[1] \in picked /\ chosen)
    BY <1>1, <2>3, <2>5
  <2>. QED BY <2>4, <2>5
<1>9. flight' \in [Claims -> FlightType]
  BY <1>2, <1>8
<1>. QED BY <1>6, <1>7, <1>8, <1>9

\* A POST's answer.
LEMMA PostFlights ==
    ASSUME Typed, NEW c \in Claims, Posts(c)
    PROVE  /\ flight' \in [Claims -> FlightType] /\ told' \in [Rows -> Nat]
           /\ UNCHANGED item /\ Flying(c)
           /\ flight'[c].attempts = flight[c].attempts /\ flight'[c].count = flight[c].count
           /\ flight'[c].orphan = flight[c].orphan /\ flight'[c].at # "none"
           /\ flight'[c].at = "accepted" => told'[c[1]] = flight[c].count
           /\ \A d \in Claims : d # c => flight'[d] = flight[d]
           /\ \A r \in Rows : r # c[1] => told'[r] = told[r]
<1>1. flight \in [Claims -> FlightType] /\ told \in [Rows -> Nat] /\ flight[c] \in FlightType /\ c[1] \in Rows
  BY ClaimParts DEF Typed, TypeOK
<1>2. PICK o \in {"accepted", "failed", "refused"} :
         /\ flight' = [flight EXCEPT ![c].at = o]
         /\ told' = IF o = "accepted" THEN [told EXCEPT ![c[1]] = flight[c].count] ELSE told
  BY Zenon DEF Posts
<1>. DEFINE n == [flight[c] EXCEPT !.at = o]
<1>3. /\ n \in FlightType /\ n.at = o /\ n.attempts = flight[c].attempts /\ n.count = flight[c].count
      /\ n.orphan = flight[c].orphan
  BY <1>1 DEF FlightType
<1>4. flight' = [flight EXCEPT ![c] = n]
  BY <1>2
<1>5. flight[c].at = "claimed" /\ UNCHANGED item
  BY DEF Posts
<1>6. flight[c].count \in Nat
  BY <1>1 DEF FlightType
<1>. HIDE DEF n
<1>. QED BY <1>1, <1>2, <1>3, <1>4, <1>5, <1>6 DEF Flying

\* An outcome is written on the row as it was claimed.
LEMMA OutcomeRows ==
    ASSUME Typed, NEW c \in Claims, RecordsDelivered(c) \/ RecordsFailure(c) \/ RecordsDead(c)
    PROVE  /\ RowsKept /\ Flying(c)
           /\ flight' \in [Claims -> FlightType] /\ UNCHANGED told /\ lines' \in Nat
           /\ flight'[c].at = "none" /\ \A d \in Claims : d # c => flight'[d] = flight[d]
           /\ \A r \in Rows : r # c[1] => item'[r] = item[r]
           /\ item'[c[1]].count = item[c[1]].count
           /\ item'[c[1]].status = "DELIVERED" => flight[c].at = "accepted"
           /\ item'[c[1]].status # "DELETED"
<1>1. /\ item \in [Rows -> RowType] /\ flight \in [Claims -> FlightType] /\ lines \in Nat
      /\ item[c[1]] \in RowType /\ flight[c] \in FlightType /\ c[1] \in Rows
  BY ClaimParts DEF Typed, TypeOK
<1>2. Flying(c) /\ item[c[1]].status # "DELETED" /\ flight' = [flight EXCEPT ![c] = NoFlight] /\ UNCHANGED told
  BY DEF RecordsDelivered, RecordsFailure, RecordsDead, Flying, Gone, Ends
<1>3. lines' \in Nat
  BY <1>1 DEF RecordsDelivered, RecordsFailure, RecordsDead, Announces
<1>4. NoFlight \in FlightType /\ NoFlight.at = "none"
  BY DEF NoFlight, FlightType, Typed, ConstantsAssumption
<1>5. flight[c].attempts + 1 \in 0..MaxAttempts
  BY <1>1, <1>2 DEF Typed, TriesLeft, FlightType, ConstantsAssumption
<1>. DEFINE Outcome(status) == Written(item[c[1]], flight[c].attempts + 1, status)
<1>6. PICK status \in {"PENDING", "DELIVERED", "DEAD"} :
        /\ item' = [item EXCEPT ![c[1]] = Outcome(status)]
        /\ status = "DELIVERED" => flight[c].at = "accepted"
        /\ status = "PENDING" => ~Spent(flight[c].attempts + 1)
  BY Zenon DEF RecordsDelivered, RecordsFailure, RecordsDead, Writes, Written
<1>7. /\ Outcome(status) \in RowType /\ Outcome(status).status = status
      /\ Outcome(status).attempts = flight[c].attempts + 1 /\ Outcome(status).count = item[c[1]].count
  BY <1>1, <1>5, WrittenForm
<1>. HIDE DEF Outcome
<1>8. Kept(item[c[1]], Outcome(status))
  BY <1>2, <1>5, <1>6, <1>7 DEF Kept, Spent, Typed, ConstantsAssumption
<1>9. RowsKept /\ item'[c[1]] = Outcome(status) /\ \A r \in Rows : r # c[1] => item'[r] = item[r]
  BY <1>1, <1>6, <1>8, OneRow
<1>. QED BY <1>1, <1>2, <1>3, <1>4, <1>6, <1>7, <1>9

---------------------------------------------------------------------------
(* The invariant. *)

\* What a step leaves as the types want it: the rows, what is left to try, what is deleted.
RowsStand == item' \in [Rows -> RowType] /\ TriesLeft' /\ DeletesCount'

LEMMA RowsLeft ==
    ASSUME Typed, RowsKept, deletes' = deletes,
           \A c \in Claims : flight'[c].at # "none" => flight'[c].attempts < MaxAttempts,
           \A r \in Rows : item'[r].status = "DELETED" => item[r].status = "DELETED"
    PROVE  RowsStand
  BY DEF RowsKept, Kept, TriesLeft, DeletesCount, Flying, RowsStand, Typed

\* A quiet step deletes nothing.
LEMMA QuietKeeps ==
    ASSUME RowsQuiet
    PROVE  \A r \in Rows : item'[r].status = "DELETED" => item[r].status = "DELETED"
  BY DEF RowsQuiet, Quiet

\* The steps by what they write.
LEMMA QuietSteps ==
    ASSUME Typed,
           \/ ErrorHappens \/ Dispatches
           \/ \E h \in Hooks : Emits(h) \/ Requeues(h)
           \/ \E r \in Rows : BecomesDue(r) \/ Ages(r)
           \/ \E b \in Buses : Toggles(b)
    PROVE  RowsKept /\ RowsQuiet /\ UNCHANGED <<flight, told, deletes>>
<1>1. \A r \in Rows : Kept(item[r], item[r]) /\ Quiet(item[r], item[r])
  BY DEF Typed, TypeOK, TriesLeft, Kept, Quiet
<1>2. CASE ErrorHappens \/ \E b \in Buses : Toggles(b)
  <2>1. UNCHANGED <<item, flight, told, deletes>>
    BY <1>2 DEF ErrorHappens, Toggles
  <2>. QED BY <1>1, <2>1 DEF RowsKept, RowsQuiet, Typed, TypeOK
<1>3. CASE Dispatches
  BY <1>3, DispatchRows DEF Dispatches, bounds
<1>4. ASSUME NEW h \in Hooks, Emits(h) \/ Requeues(h)
      PROVE  RowsKept /\ RowsQuiet /\ UNCHANGED <<flight, told, deletes>>
  BY <1>4, HookRows DEF Emits, Requeues, bounds
<1>5. ASSUME NEW r \in Rows, BecomesDue(r) \/ Ages(r)
      PROVE  RowsKept /\ RowsQuiet /\ UNCHANGED <<flight, told, deletes>>
  BY <1>5, TimedRows DEF BecomesDue, Ages, bounds
<1>. QED BY <1>2, <1>3, <1>4, <1>5

\* A row is deleted.
LEMMA DeletedRow ==
    ASSUME Typed, NEW r \in Rows, Deletes(r)
    PROVE  /\ RowsKept /\ item'[r].status = "DELETED" /\ deletes' = deletes + 1
           /\ \A q \in Rows : q # r => item'[q] = item[q]
           /\ UNCHANGED <<flight, told>>
<1>. DEFINE n == [NoRow EXCEPT !.status = "DELETED"]
<1>1. n \in RowType /\ n.status = "DELETED"
  BY RowForms DEF Typed
<1>2. item' = [item EXCEPT ![r] = n] /\ deletes' = deletes + 1 /\ UNCHANGED <<flight, told>>
  BY DEF Deletes
<1>. HIDE DEF n
<1>3. Kept(item[r], n)
  BY <1>1 DEF Kept
<1>. QED BY <1>1, <1>2, <1>3, OneRow

\* A write that found its row gone leaves its batch unawaited.
LEMMA ThrownFlights ==
    ASSUME Typed, NEW c \in Claims, RecordThrows(c)
    PROVE  /\ flight' \in [Claims -> FlightType]
           /\ \A d \in Claims : /\ flight'[d].at # "none" => flight'[d].attempts < MaxAttempts
                                /\ Bus(d[1]) # Bus(c[1]) => flight'[d] = flight[d]
           /\ item[c[1]].status = "DELETED" /\ UNCHANGED <<item, told, deletes>>
<1>1. flight \in [Claims -> FlightType]
  BY DEF Typed, TypeOK
<1>2. NoFlight \in FlightType /\ NoFlight.at = "none"
  BY DEF NoFlight, FlightType, Typed, ConstantsAssumption
<1>3. flight' = [f \in Claims |-> IF f = c THEN NoFlight
                                  ELSE IF Bus(f[1]) = Bus(c[1]) /\ flight[f].at # "none"
                                  THEN [flight[f] EXCEPT !.orphan = @ \/ ~flight[c].orphan]
                                  ELSE flight[f]]
  BY DEF RecordThrows
<1>4. ASSUME NEW d \in Claims
      PROVE  /\ flight'[d] \in FlightType
             /\ flight'[d].at # "none" => flight'[d].attempts < MaxAttempts
             /\ Bus(d[1]) # Bus(c[1]) => flight'[d] = flight[d]
  <2>. DEFINE orphan == flight[d].orphan \/ ~flight[c].orphan
              n == [flight[d] EXCEPT !.orphan = orphan]
  <2>1. orphan \in BOOLEAN
    BY Zenon
  <2>. HIDE DEF orphan
  <2>2. n \in FlightType /\ n.at = flight[d].at /\ n.attempts = flight[d].attempts
    BY <1>1, <2>1 DEF FlightType
  <2>3. flight'[d] = IF d = c THEN NoFlight
                     ELSE IF Bus(d[1]) = Bus(c[1]) /\ flight[d].at # "none" THEN n ELSE flight[d]
    BY <1>3 DEF orphan
  <2>. HIDE DEF n
  <2>. QED BY <1>1, <1>2, <2>2, <2>3 DEF Typed, TriesLeft, Flying
<1>5. item[c[1]].status = "DELETED" /\ UNCHANGED <<item, told, deletes>>
  BY DEF RecordThrows, Gone, bounds
<1>. QED BY <1>3, <1>4, <1>5

\* The process died.
LEMMA CrashFlights ==
    ASSUME Typed, Crash
    PROVE  /\ flight' \in [Claims -> FlightType] /\ \A c \in Claims : flight'[c].at = "none"
           /\ UNCHANGED <<item, told, deletes>>
<1>1. NoFlight \in FlightType /\ NoFlight.at = "none"
  BY DEF NoFlight, FlightType, Typed, ConstantsAssumption
<1>. QED BY <1>1 DEF Crash

\* The rest of the state keeps its types.
RestTyped ==
    /\ enabled \in [Buses -> BOOLEAN] /\ lines \in Nat
    /\ events \in 0..MaxEvents /\ requeues \in 0..MaxRequeues /\ deletes \in 0..MaxDeletes
    /\ toggles \in 0..MaxToggles /\ crashes \in 0..MaxCrashes

LEMMA RestStep == ASSUME Typed, [Next]_vars PROVE RestTyped'
<1>0. RestTyped /\ MaxEvents \in Nat /\ MaxRequeues \in Nat /\ MaxDeletes \in Nat /\ MaxToggles \in Nat
      /\ MaxCrashes \in Nat
  BY DEF Typed, TypeOK, RestTyped, ConstantsAssumption
<1>. USE DEF RestTyped, bounds
<1>1. CASE ErrorHappens \/ Dispatches \/ Crash
  BY <1>0, <1>1 DEF ErrorHappens, Dispatches, Crash
<1>2. ASSUME NEW h \in Hooks, Emits(h) \/ Requeues(h) PROVE RestTyped'
  BY <1>0, <1>2 DEF Emits, Requeues
<1>3. ASSUME NEW r \in Rows, BecomesDue(r) \/ Ages(r) \/ Deletes(r) PROVE RestTyped'
  BY <1>0, <1>3 DEF BecomesDue, Ages, Deletes
<1>4. ASSUME NEW b \in Buses, Ticks(b) PROVE RestTyped'
  <2>1. UNCHANGED <<enabled, lines, bounds>>
    BY <1>4 DEF Ticks
  <2>. QED BY <1>0, <2>1
<1>5. ASSUME NEW b \in Buses, Toggles(b) PROVE RestTyped'
  <2>1. enabled' \in [Buses -> BOOLEAN]
    BY <1>0, <1>5, Zenon DEF Toggles
  <2>. QED BY <1>0, <1>5, <2>1 DEF Toggles
<1>6. ASSUME NEW c \in Claims, Posts(c) \/ Records(c) PROVE RestTyped'
  BY <1>0, <1>6 DEF Posts, Records, RecordsDelivered, RecordsFailure, RecordsDead, RecordThrows, Announces
<1>7. CASE UNCHANGED vars
  BY <1>0, <1>7 DEF vars
<1>. QED BY <1>1, <1>2, <1>3, <1>4, <1>5, <1>6, <1>7 DEF Next

\* Every step keeps the types, what is left to try and the account of the deletes.
LEMMA TypesStep ==
    ASSUME Typed, [Next]_vars
    PROVE  TypeOK' /\ TriesLeft' /\ DeletesCount'
<1>0. /\ item \in [Rows -> RowType] /\ flight \in [Claims -> FlightType] /\ told \in [Rows -> Nat]
      /\ deletes \in Nat /\ \A r \in Rows : Kept(item[r], item[r])
      /\ \A c \in Claims : flight[c].at # "none" => flight[c].attempts < MaxAttempts
  BY DEF Typed, TypeOK, TriesLeft, Kept, Flying, ConstantsAssumption
<1>. DEFINE Goal == RowsStand /\ flight' \in [Claims -> FlightType] /\ told' \in [Rows -> Nat]
<1>. SUFFICES Goal
  BY RestStep DEF RowsStand, RestTyped, TypeOK
<1>1. CASE \/ ErrorHappens \/ Dispatches
           \/ \E h \in Hooks : Emits(h) \/ Requeues(h)
           \/ \E r \in Rows : BecomesDue(r) \/ Ages(r)
           \/ \E b \in Buses : Toggles(b)
  <2>1. RowsKept /\ RowsQuiet /\ UNCHANGED <<flight, told, deletes>>
    BY <1>1, QuietSteps
  <2>. QED BY <1>0, <2>1, QuietKeeps, RowsLeft
<1>2. ASSUME NEW r \in Rows, Deletes(r) PROVE Goal
  <2>1. RowsKept /\ deletes' = deletes + 1 /\ UNCHANGED <<flight, told>>
    BY <1>2, DeletedRow
  <2>. QED BY <1>0, <2>1 DEF RowsStand, RowsKept, Kept, TriesLeft, DeletesCount, Flying
<1>3. ASSUME NEW b \in Buses, Ticks(b) PROVE Goal
  <2>1. deletes' = deletes /\ told' = told
    BY <1>3 DEF Ticks, bounds
  <2>2. RowsKept /\ flight' \in [Claims -> FlightType]
        /\ \A r \in Rows : item'[r].status = "DELETED" => item[r].status = "DELETED"
    BY <1>3, TickRows
  <2>3. \A c \in Claims : flight'[c].at # "none" => flight'[c].attempts < MaxAttempts
    BY <1>0, <1>3, TickRows
  <2>. QED BY <1>0, <2>1, <2>2, <2>3, RowsLeft
<1>4. ASSUME NEW c \in Claims, Posts(c) PROVE Goal
  <2>1. deletes' = deletes /\ UNCHANGED item /\ flight' \in [Claims -> FlightType] /\ told' \in [Rows -> Nat]
    BY <1>4, PostFlights DEF Posts, bounds
  <2>2. \A d \in Claims : flight'[d].at # "none" => flight'[d].attempts < MaxAttempts
    BY <1>0, <1>4, PostFlights DEF Flying
  <2>3. RowsKept
    BY <1>0, <2>1 DEF RowsKept
  <2>. QED BY <1>0, <2>1, <2>2, <2>3, RowsLeft
<1>5. ASSUME NEW c \in Claims, RecordsDelivered(c) \/ RecordsFailure(c) \/ RecordsDead(c) PROVE Goal
  <2>1. deletes' = deletes
    BY <1>5 DEF RecordsDelivered, RecordsFailure, RecordsDead, bounds
  <2>2. RowsKept /\ flight' \in [Claims -> FlightType] /\ told' = told
    BY <1>5, OutcomeRows
  <2>3. \A d \in Claims : flight'[d].at # "none" => flight'[d].attempts < MaxAttempts
    BY <1>0, <1>5, OutcomeRows
  <2>4. \A r \in Rows : item'[r].status = "DELETED" => item[r].status = "DELETED"
    BY <1>5, OutcomeRows
  <2>. QED BY <1>0, <2>1, <2>2, <2>3, <2>4, RowsLeft
<1>6. ASSUME NEW c \in Claims, RecordThrows(c) PROVE Goal
  <2>1. UNCHANGED <<item, told, deletes>> /\ flight' \in [Claims -> FlightType]
        /\ \A d \in Claims : flight'[d].at # "none" => flight'[d].attempts < MaxAttempts
    BY <1>6, ThrownFlights
  <2>2. RowsKept
    BY <1>0, <2>1 DEF RowsKept
  <2>. QED BY <1>0, <2>1, <2>2, RowsLeft
<1>7. CASE Crash
  <2>1. UNCHANGED <<item, told, deletes>> /\ flight' \in [Claims -> FlightType]
        /\ \A d \in Claims : flight'[d].at = "none"
    BY <1>7, CrashFlights
  <2>2. RowsKept
    BY <1>0, <2>1 DEF RowsKept
  <2>. QED BY <1>0, <2>1, <2>2, RowsLeft
<1>8. CASE UNCHANGED vars
  <2>1. UNCHANGED <<item, told, deletes, flight>>
    BY <1>8 DEF vars, bounds
  <2>2. RowsKept
    BY <1>0, <2>1 DEF RowsKept
  <2>. QED BY <1>0, <2>1, <2>2, RowsLeft
<1>. QED BY <1>1, <1>2, <1>3, <1>4, <1>5, <1>6, <1>7, <1>8 DEF Next, Records

---------------------------------------------------------------------------
(* While nothing of a bus was deleted. *)

\* What was deleted stays deleted.
LEMMA CalmBefore ==
    ASSUME Typed, [Next]_vars, NEW b \in Buses, Calm(b)'
    PROVE  Calm(b)
<1>. SUFFICES ASSUME NEW r \in Rows, Bus(r) = b, item[r].status = "DELETED"
              PROVE  item'[r].status = "DELETED"
  BY DEF Calm, Bus
<1>0. item \in [Rows -> RowType] /\ \A q \in Rows : Kept(item[q], item[q])
  BY DEF Typed, TypeOK, TriesLeft, Kept
<1>. SUFFICES RowsKept \/ UNCHANGED item
  BY DEF RowsKept, Kept
<1>1. CASE \/ ErrorHappens \/ Dispatches
           \/ \E h \in Hooks : Emits(h) \/ Requeues(h)
           \/ \E q \in Rows : BecomesDue(q) \/ Ages(q)
           \/ \E a \in Buses : Toggles(a)
  BY <1>1, QuietSteps
<1>2. CASE \/ \E q \in Rows : Deletes(q)
           \/ \E a \in Buses : Ticks(a)
           \/ \E c \in Claims : RecordsDelivered(c) \/ RecordsFailure(c) \/ RecordsDead(c)
  BY <1>2, DeletedRow, TickRows, OutcomeRows
<1>3. CASE Crash \/ UNCHANGED vars \/ \E c \in Claims : Posts(c) \/ RecordThrows(c)
  BY <1>3, PostFlights DEF Crash, RecordThrows, vars
<1>. QED BY <1>1, <1>2, <1>3 DEF Next, Records

\* A quiet step touches neither a claim nor what was told.
LEMMA QuietBus ==
    ASSUME RowsQuiet, UNCHANGED <<flight, told>>, NEW b \in Buses, BusInv(b)
    PROVE  BusInv(b)'
<1>1. ASSUME NEW c \in Claims, Bus(c[1]) = b PROVE InStep(c)' /\ Alone(c)'
  <2>1. InStep(c) /\ Alone(c) /\ c[1] \in Rows
    BY <1>1, ClaimParts DEF BusInv
  <2>2. Alone(c)'
    BY <2>1 DEF Alone, Flying
  <2>3. item[c[1]].status = "SENDING"
          => item'[c[1]].status = "SENDING" /\ item'[c[1]].count = item[c[1]].count
    BY <2>1 DEF RowsQuiet, Quiet
  <2>. QED BY <2>1, <2>2, <2>3 DEF InStep, Flying
<1>2. ASSUME NEW r \in Rows, Bus(r) = b PROVE IsTold(r)'
  BY <1>2 DEF BusInv, IsTold, RowsQuiet, Quiet
<1>3. \A c \in Claims : Bus(c[1])' = b => InStep(c)' /\ Alone(c)'
  BY <1>1 DEF Bus
<1>4. \A r \in Rows : Bus(r)' = b => IsTold(r)'
  BY <1>2 DEF Bus
<1>. QED BY <1>3, <1>4 DEF BusInv

\* A step that leaves the rows, the claims and what was told of a bus.
BusLeft(b) ==
    /\ \A r \in Rows : Bus(r) = b => item'[r] = item[r] /\ told'[r] = told[r]
    /\ \A c \in Claims : Bus(c[1]) = b => flight'[c] = flight[c]

LEMMA LeftBus ==
    ASSUME NEW b \in Buses, BusInv(b), BusLeft(b)
    PROVE  BusInv(b)'
<1>1. ASSUME NEW c \in Claims, Bus(c[1]) = b PROVE InStep(c)' /\ Alone(c)'
  <2>1. InStep(c) /\ Alone(c) /\ c[1] \in Rows
    BY <1>1, ClaimParts DEF BusInv
  <2>2. flight'[c] = flight[c] /\ item'[c[1]] = item[c[1]] /\ told'[c[1]] = told[c[1]]
    BY <1>1, <2>1 DEF BusLeft
  <2>3. \A d \in Claims : d[1] = c[1] => flight'[d] = flight[d]
    BY <1>1 DEF BusLeft
  <2>. QED BY <2>1, <2>2, <2>3 DEF InStep, Alone, Flying
<1>2. ASSUME NEW r \in Rows, Bus(r) = b PROVE IsTold(r)'
  BY <1>2 DEF BusInv, BusLeft, IsTold
<1>3. \A c \in Claims : Bus(c[1])' = b => InStep(c)' /\ Alone(c)'
  BY <1>1 DEF Bus
<1>4. \A r \in Rows : Bus(r)' = b => IsTold(r)'
  BY <1>2 DEF Bus
<1>. QED BY <1>3, <1>4 DEF BusInv

\* A bus in order goes on to be: what each claim and each row must then satisfy.
LEMMA BusHolds ==
    ASSUME NEW b \in Buses,
           \A c \in Claims : Bus(c[1]) = b => InStep(c)' /\ Alone(c)',
           \A r \in Rows : Bus(r) = b => IsTold(r)'
    PROVE  BusInv(b)'
<1>1. \A c \in Claims : Bus(c[1])' = b => InStep(c)' /\ Alone(c)'
  BY DEF Bus
<1>2. \A r \in Rows : Bus(r)' = b => IsTold(r)'
  BY DEF Bus
<1>. QED BY <1>1, <1>2 DEF BusInv

\* A tick finds nothing of its bus in flight, and claims each row once.
LEMMA TickBus ==
    ASSUME Typed, NEW b \in Buses, BusInv(b), Ticks(b)
    PROVE  BusInv(b)'
<1>1. \A c \in Claims : Bus(c[1]) = b => ~Flying(c)
  BY DEF Ticks, Running, BusInv, InStep, Flying
<1>2. told' = told
  BY DEF Ticks
<1>3. ASSUME NEW c \in Claims, Bus(c[1]) = b, flight'[c].at # "none"
      PROVE  /\ flight'[c].at = "claimed" /\ ~flight'[c].orphan
             /\ flight'[c].count = item'[c[1]].count /\ item'[c[1]].status = "SENDING"
             /\ c = CHOOSE f \in FreeClaims(c[1]) : TRUE
  BY <1>1, <1>3, TickRows DEF Flying
<1>4. ASSUME NEW c \in Claims, Bus(c[1]) = b PROVE InStep(c)' /\ Alone(c)'
  <2>1. InStep(c)'
    BY <1>3, <1>4 DEF InStep, Flying
  <2>2. ASSUME NEW d \in Claims, d[1] = c[1], flight'[c].at # "none", flight'[d].at # "none" PROVE d = c
    BY <1>3, <1>4, <2>2
  <2>. QED BY <2>1, <2>2 DEF Alone, Flying
<1>5. ASSUME NEW r \in Rows, Bus(r) = b PROVE IsTold(r)'
  BY <1>2, <1>5, TickRows DEF BusInv, IsTold
<1>. QED BY <1>4, <1>5, BusHolds

\* The answer of the one claim of a row.
LEMMA PostBus ==
    ASSUME Typed, NEW b \in Buses, BusInv(b), NEW c \in Claims, Posts(c), Bus(c[1]) = b
    PROVE  BusInv(b)'
<1>0. InStep(c) /\ Alone(c) /\ c[1] \in Rows /\ item' = item /\ Flying(c)
  BY ClaimParts, PostFlights DEF BusInv
<1>1. ASSUME NEW d \in Claims, Bus(d[1]) = b PROVE InStep(d)' /\ Alone(d)'
  <2>1. InStep(d) /\ Alone(d) /\ d[1] \in Rows
    BY <1>1, ClaimParts DEF BusInv
  <2>2. \A e \in Claims : flight'[e].at # "none" => flight[e].at # "none"
    BY <1>0, PostFlights DEF Flying
  <2>3. Alone(d)'
    BY <2>1, <2>2 DEF Alone, Flying
  <2>. SUFFICES InStep(d)'
    BY <2>3
  <2>4. CASE d = c
    BY <1>0, <2>4, PostFlights DEF InStep, Flying
  <2>5. CASE d # c
    <3>1. flight'[d] = flight[d]
      BY <2>5, PostFlights
    <3>2. d[1] # c[1] \/ ~Flying(d)
      BY <1>0, <2>5 DEF Alone
    <3>3. ~Flying(d) \/ told'[d[1]] = told[d[1]]
      BY <2>1, <3>2, PostFlights
    <3>. QED BY <1>0, <2>1, <3>1, <3>3 DEF InStep, Flying
  <2>. QED BY <2>4, <2>5
<1>2. ASSUME NEW r \in Rows, Bus(r) = b PROVE IsTold(r)'
  <2>1. IsTold(r)
    BY <1>2 DEF BusInv
  <2>2. r = c[1] => item[r].status = "SENDING"
    BY <1>0 DEF InStep
  <2>. QED BY <1>0, <2>1, <2>2, PostFlights DEF IsTold
<1>. QED BY <1>1, <1>2, BusHolds

\* The outcome of the one claim of a row.
LEMMA OutcomeBus ==
    ASSUME Typed, NEW b \in Buses, BusInv(b), NEW c \in Claims, Bus(c[1]) = b,
           RecordsDelivered(c) \/ RecordsFailure(c) \/ RecordsDead(c)
    PROVE  BusInv(b)'
<1>0. InStep(c) /\ Alone(c) /\ c[1] \in Rows /\ told' = told /\ Flying(c)
  BY ClaimParts, OutcomeRows DEF BusInv
<1>1. ASSUME NEW d \in Claims, Bus(d[1]) = b PROVE InStep(d)' /\ Alone(d)'
  <2>1. InStep(d) /\ Alone(d) /\ d[1] \in Rows
    BY <1>1, ClaimParts DEF BusInv
  <2>2. \A e \in Claims : flight'[e].at # "none" => flight[e].at # "none"
    BY OutcomeRows
  <2>3. Alone(d)'
    BY <2>1, <2>2 DEF Alone, Flying
  <2>. SUFFICES InStep(d)'
    BY <2>3
  <2>4. CASE d = c
    BY <2>4, OutcomeRows DEF InStep, Flying
  <2>5. CASE d # c
    <3>1. flight'[d] = flight[d]
      BY <2>5, OutcomeRows
    <3>2. d[1] # c[1] \/ ~Flying(d)
      BY <1>0, <2>5 DEF Alone
    <3>3. ~Flying(d) \/ item'[d[1]] = item[d[1]]
      BY <2>1, <3>2, OutcomeRows
    <3>. QED BY <1>0, <2>1, <3>1, <3>3 DEF InStep, Flying
  <2>. QED BY <2>4, <2>5
<1>2. ASSUME NEW r \in Rows, Bus(r) = b PROVE IsTold(r)'
  <2>1. IsTold(r)
    BY <1>2 DEF BusInv
  <2>2. CASE r = c[1]
    BY <1>0, <2>2, OutcomeRows DEF IsTold, InStep
  <2>3. CASE r # c[1]
    BY <1>0, <2>1, <2>3, OutcomeRows DEF IsTold
  <2>. QED BY <2>2, <2>3
<1>. QED BY <1>1, <1>2, BusHolds

\* Nothing is in flight after a crash.
LEMMA CrashBus ==
    ASSUME Typed, NEW b \in Buses, BusInv(b), Crash
    PROVE  BusInv(b)'
<1>1. \A c \in Claims : InStep(c)' /\ Alone(c)'
  BY CrashFlights DEF InStep, Alone, Flying
<1>2. ASSUME NEW r \in Rows, Bus(r) = b PROVE IsTold(r)'
  BY <1>2, CrashFlights DEF BusInv, IsTold
<1>. QED BY <1>1, <1>2, BusHolds

\* Every step leaves a bus of which nothing was deleted in order.
LEMMA BusStep ==
    ASSUME Typed, [Next]_vars, NEW b \in Buses, Calm(b) => BusInv(b), Calm(b)'
    PROVE  BusInv(b)'
<1>0. Calm(b) /\ BusInv(b) /\ \A r \in Rows : Bus(r)' = Bus(r)
  BY CalmBefore DEF Bus
<1>1. CASE \/ ErrorHappens \/ Dispatches
           \/ \E h \in Hooks : Emits(h) \/ Requeues(h)
           \/ \E r \in Rows : BecomesDue(r) \/ Ages(r)
           \/ \E a \in Buses : Toggles(a)
  BY <1>0, <1>1, QuietSteps, QuietBus
<1>2. ASSUME NEW r \in Rows, Deletes(r) PROVE BusInv(b)'
  <2>1. Bus(r) # b
    BY <1>0, <1>2, DeletedRow DEF Calm
  <2>2. BusLeft(b)
    BY <1>2, <2>1, DeletedRow DEF BusLeft
  <2>. QED BY <1>0, <2>2, LeftBus
<1>3. ASSUME NEW a \in Buses, Ticks(a) PROVE BusInv(b)'
  <2>1. CASE a = b
    BY <1>0, <1>3, <2>1, TickBus
  <2>2. CASE a # b
    <3>1. \A r \in Rows : Bus(r) = b => item'[r] = item[r]
      BY <1>3, <2>2, TickRows
    <3>2. \A c \in Claims : Bus(c[1]) = b => flight'[c] = flight[c]
      BY <1>3, <2>2, TickRows
    <3>3. told' = told
      BY <1>3 DEF Ticks
    <3>4. BusLeft(b)
      BY <3>1, <3>2, <3>3 DEF BusLeft
    <3>. QED BY <1>0, <3>4, LeftBus
  <2>. QED BY <2>1, <2>2
<1>4. ASSUME NEW c \in Claims, Posts(c) PROVE BusInv(b)'
  <2>1. CASE Bus(c[1]) = b
    BY <1>0, <1>4, <2>1, PostBus
  <2>2. CASE Bus(c[1]) # b
    <3>1. BusLeft(b)
      BY <1>4, <2>2, PostFlights DEF BusLeft
    <3>. QED BY <1>0, <3>1, LeftBus
  <2>. QED BY <2>1, <2>2
<1>5. ASSUME NEW c \in Claims, RecordsDelivered(c) \/ RecordsFailure(c) \/ RecordsDead(c) PROVE BusInv(b)'
  <2>1. CASE Bus(c[1]) = b
    BY <1>0, <1>5, <2>1, OutcomeBus
  <2>2. CASE Bus(c[1]) # b
    <3>1. BusLeft(b)
      BY <1>5, <2>2, OutcomeRows DEF BusLeft
    <3>. QED BY <1>0, <3>1, LeftBus
  <2>. QED BY <2>1, <2>2
<1>6. ASSUME NEW c \in Claims, RecordThrows(c) PROVE BusInv(b)'
  <2>1. item[c[1]].status = "DELETED" /\ c[1] \in Rows
    BY <1>6, ThrownFlights, ClaimParts
  <2>2. Bus(c[1]) # b
    BY <1>0, <2>1 DEF Calm
  <2>3. BusLeft(b)
    BY <1>6, <2>2, ThrownFlights DEF BusLeft
  <2>. QED BY <1>0, <2>3, LeftBus
<1>7. CASE Crash
  BY <1>0, <1>7, CrashBus
<1>8. CASE UNCHANGED vars
  <2>1. BusLeft(b)
    BY <1>8 DEF vars, BusLeft
  <2>. QED BY <1>0, <2>1, LeftBus
<1>. QED BY <1>1, <1>2, <1>3, <1>4, <1>5, <1>6, <1>7, <1>8 DEF Next, Records

LEMMA Initially == ConstantsAssumption /\ Init => IInv
<1>. SUFFICES ASSUME ConstantsAssumption, Init PROVE IInv
  OBVIOUS
<1>1. \A b \in Buses : BusInv(b)
  BY ClaimParts DEF Init, BusInv, InStep, Alone, IsTold, Flying, NoFlight, NoRow
<1>. QED BY <1>1, TypesInit DEF IInv

LEMMA Inductive == ConstantsAssumption /\ IInv /\ [Next]_vars => IInv'
<1>. SUFFICES ASSUME ConstantsAssumption, IInv, [Next]_vars PROVE IInv'
  OBVIOUS
<1>1. Typed /\ \A b \in Buses : Calm(b) => BusInv(b)
  BY DEF Typed, IInv
<1>2. TypeOK' /\ TriesLeft' /\ DeletesCount'
  BY <1>1, TypesStep
<1>3. \A b \in Buses : Calm(b)' => BusInv(b)'
  BY <1>1, BusStep
<1>. QED BY <1>2, <1>3 DEF IInv, Buses

\* Every reachable state of the buses is of its types: a row never has more attempts than there are.
THEOREM TypeCorrect == ASSUME ConstantsAssumption PROVE Spec => []TypeOK
<1>1. IInv => TypeOK
  BY DEF IInv
<1>. QED BY <1>1, Initially, Inductive, PTL DEF Spec

\* What is in flight and its row agree, on each bus of which nothing was deleted.
THEOREM IInvHolds == ASSUME ConstantsAssumption PROVE Spec => []IInv
  BY Initially, Inductive, PTL DEF Spec

LEMMA CalmIsTold == ConstantsAssumption /\ IInv => (Calm("alert") => CountIsTold)
  BY DEF IInv, BusInv, IsTold, CountIsTold, Buses, Bus, Rows, ConstantsAssumption

\* An alert that was delivered said how many there were, while no alert is deleted under its POST.
THEOREM AlertsSayHowMany == ASSUME ConstantsAssumption PROVE Spec => [](Calm("alert") => CountIsTold)
  BY CalmIsTold, IInvHolds, PTL

\* A delivered row has no claim in flight that could write over it.
LEMMA DeliveredStep ==
    ASSUME ConstantsAssumption, IInv, [Next]_vars, NEW r \in Rows, Calm(Bus(r)),
           item[r].status = "DELIVERED"
    PROVE  item'[r].status \in {"DELIVERED", "DELETED"}
<1>0. Typed /\ Bus(r) \in Buses /\ BusInv(Bus(r)) /\ item \in [Rows -> RowType]
  BY DEF IInv, Typed, TypeOK, Bus, Buses
<1>1. \A c \in Claims : Flying(c) => c[1] # r
  BY <1>0 DEF BusInv, InStep
<1>2. CASE \/ ErrorHappens \/ Dispatches
           \/ \E h \in Hooks : Emits(h) \/ Requeues(h)
           \/ \E q \in Rows : BecomesDue(q) \/ Ages(q)
           \/ \E b \in Buses : Toggles(b)
  <2>1. Quiet(item[r], item'[r])
    BY <1>0, <1>2, QuietSteps DEF RowsQuiet
  <2>. QED BY <2>1 DEF Quiet
<1>3. ASSUME NEW q \in Rows, Deletes(q) PROVE item'[r].status \in {"DELIVERED", "DELETED"}
  BY <1>0, <1>3, DeletedRow
<1>4. ASSUME NEW b \in Buses, Ticks(b) PROVE item'[r].status \in {"DELIVERED", "DELETED"}
  BY <1>0, <1>4, TickRows
<1>5. ASSUME NEW c \in Claims, Posts(c) \/ RecordThrows(c) PROVE item'[r].status \in {"DELIVERED", "DELETED"}
  BY <1>5 DEF Posts, RecordThrows
<1>6. ASSUME NEW c \in Claims, RecordsDelivered(c) \/ RecordsFailure(c) \/ RecordsDead(c)
      PROVE  item'[r].status \in {"DELIVERED", "DELETED"}
  BY <1>0, <1>1, <1>6, OutcomeRows
<1>7. CASE Crash \/ UNCHANGED vars
  BY <1>7 DEF Crash, vars
<1>. QED BY <1>2, <1>3, <1>4, <1>5, <1>6, <1>7 DEF Next, Records

\* What was accepted and recorded is over, on a bus of which nothing was deleted.
DeliveredWhileCalm ==
    \A r \in Rows : Calm(Bus(r)) /\ item[r].status = "DELIVERED"
                      => item'[r].status \in {"DELIVERED", "DELETED"}

LEMMA DeliveredSteps == ConstantsAssumption /\ IInv /\ [Next]_vars => DeliveredWhileCalm
  BY DeliveredStep DEF DeliveredWhileCalm

\* No late outcome of a claim puts back on the queue or reports dead what was delivered: a reaped
\* claim's POST is never still in flight on a bus of which nothing was deleted.
THEOREM NothingUndoesADelivery == ASSUME ConstantsAssumption PROVE Spec => [][DeliveredWhileCalm]_vars
  BY DeliveredSteps, IInvHolds, PTL DEF Spec

\* Without a delete every bus stays calm.
LEMMA AllCalm == ConstantsAssumption /\ IInv /\ MaxDeletes = 0 => \A r \in Rows : Calm(Bus(r))
  BY DEF IInv, TypeOK, DeletesCount, Calm

LEMMA CountOfEach == ConstantsAssumption /\ IInv /\ MaxDeletes = 0 => CountIsTold
<1>. SUFFICES ASSUME ConstantsAssumption, IInv, MaxDeletes = 0 PROVE Calm("alert")
  BY CalmIsTold
<1>. QED BY DEF IInv, TypeOK, DeletesCount, Calm

\* A channel with one alert: delivered, it was not deleted.
LEMMA CountOfOne == ConstantsAssumption /\ IInv /\ (\E a : Alerts = {a}) => CountIsTold
<1>. SUFFICES ASSUME ConstantsAssumption, IInv, NEW a, Alerts = {a}, item[a].status = "DELIVERED"
              PROVE  CountIsTold
  BY DEF CountIsTold
<1>1. \A r \in Rows : Bus(r) = "alert" => r = a
  BY DEF Rows, Bus
<1>2. Calm("alert")
  BY <1>1 DEF Calm
<1>. QED BY <1>2, CalmIsTold

LEMMA DeliveredOver ==
    ConstantsAssumption /\ IInv /\ MaxDeletes = 0 /\ [Next]_vars => DeliveredIsOver
  BY DeliveredSteps, AllCalm DEF DeliveredWhileCalm, DeliveredIsOver

=============================================================================
