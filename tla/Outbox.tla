------------------------------- MODULE Outbox -------------------------------
(***************************************************************************)
(* The two outgoing buses of a tenant: the outbound webhooks               *)
(* (src/src/modules/webhooks/outbound/{service,worker,deliveries,          *)
(* subscriptions}.ts) and the operator's alerts                            *)
(* (src/src/modules/flowlog/{alerts,alert-worker,webhook,dead-letter}.ts). *)
(*                                                                         *)
(* Domain code writes a PENDING row inside its own transaction; a worker   *)
(* claims what is due, POSTs it outside any transaction and records the    *)
(* outcome: DELIVERED, PENDING with a backoff, or DEAD.  The death of a    *)
(* webhook writes an error line, and an error line becomes an alert: a row *)
(* of the other bus, or one more in the count of a row still PENDING.      *)
(*                                                                         *)
(* Each bus has one worker, whose tick claims a batch and awaits all of it *)
(* under a reentrancy flag.  The outcomes are written by row id alone.  A  *)
(* write that throws, as it does when the row was deleted meanwhile, ends  *)
(* the tick and drops the flag, with the rest of the batch still running.  *)
(***************************************************************************)
EXTENDS Naturals, FiniteSets

CONSTANTS Hooks, Alerts,      \* the rows of each bus
          MaxAttempts,        \* MAX_ATTEMPTS
          MaxEvents,          \* error lines written elsewhere
          MaxRequeues, MaxDeletes, MaxToggles, MaxCrashes

ConstantsAssumption ==
    /\ Hooks \cap Alerts = {} /\ MaxAttempts \in Nat \ {0} /\ MaxEvents \in Nat
    /\ MaxRequeues \in Nat /\ MaxDeletes \in Nat /\ MaxToggles \in Nat /\ MaxCrashes \in Nat

Rows == Hooks \cup Alerts
Buses == {"webhook", "alert"}
Bus(r) == IF r \in Hooks THEN "webhook" ELSE "alert"
Claims == Rows \X {1, 2}     \* a row, and which of its claims in flight

VARIABLES item,     \* OutboundWebhookDelivery, AlertDelivery
          flight,   \* the claimed copies being delivered
          enabled,  \* the subscription, the channel
          lines,    \* error lines written and not yet dispatched
          told,     \* ghost: the count in the last accepted POST of a row
          events, requeues, deletes, toggles, crashes

bounds == <<events, requeues, deletes, toggles, crashes>>
vars == <<item, flight, enabled, lines, told, bounds>>

RowType == [status : {"ABSENT", "PENDING", "SENDING", "DELIVERED", "DEAD", "DELETED"},
            attempts : 0..MaxAttempts, due : BOOLEAN, stale : BOOLEAN, count : Nat]
\* A claim of a tick that threw is an orphan: nobody awaits it.
FlightType == [at : {"none", "claimed", "accepted", "failed", "refused"}, attempts : 0..MaxAttempts,
               count : Nat, orphan : BOOLEAN]

TypeOK ==
    /\ item \in [Rows -> RowType]
    /\ flight \in [Claims -> FlightType]
    /\ enabled \in [Buses -> BOOLEAN] /\ lines \in Nat
    /\ told \in [Rows -> Nat]
    /\ events \in 0..MaxEvents /\ requeues \in 0..MaxRequeues /\ deletes \in 0..MaxDeletes
    /\ toggles \in 0..MaxToggles /\ crashes \in 0..MaxCrashes

NoRow == [status |-> "ABSENT", attempts |-> 0, due |-> FALSE, stale |-> FALSE, count |-> 0]
NoFlight == [at |-> "none", attempts |-> 0, count |-> 0, orphan |-> FALSE]

Init ==
    /\ item = [r \in Rows |-> NoRow]
    /\ flight = [c \in Claims |-> NoFlight]
    /\ enabled = [b \in Buses |-> TRUE] /\ lines = 0
    /\ told = [r \in Rows |-> 0]
    /\ events = 0 /\ requeues = 0 /\ deletes = 0 /\ toggles = 0 /\ crashes = 0

---------------------------------------------------------------------------
(* The producers.                                                          *)

\* emitOutbound: one row for the enabled subscription, due at once.
Emits(h) ==
    /\ item[h].status = "ABSENT" /\ enabled["webhook"]
    /\ item' = [item EXCEPT ![h] = [NoRow EXCEPT !.status = "PENDING", !.due = TRUE]]
    /\ UNCHANGED <<flight, enabled, lines, told, bounds>>

\* An error on real traffic: emitFlowEvent, fire and forget.
ErrorHappens ==
    /\ events < MaxEvents /\ events' = events + 1
    /\ lines' = lines + 1
    /\ UNCHANGED <<item, flight, enabled, told, requeues, deletes, toggles, crashes>>

CoalescesUnderASend == {a \in Alerts : item[a].status \in {"PENDING", "SENDING"}}
Coalesces == {a \in Alerts : item[a].status = "PENDING"}

\* dispatchAlertsForEvent: a PENDING row of the channel counts one more;
\* without one a row is inserted, which waits out the coalescing window.
Dispatches ==
    /\ lines > 0 /\ lines' = lines - 1
    /\ IF ~enabled["alert"] THEN UNCHANGED item
       ELSE IF Coalesces # {}
       THEN item' = [r \in Rows |-> IF r \in Coalesces THEN [item[r] EXCEPT !.count = @ + 1]
                                                    ELSE item[r]]
       ELSE \E a \in Alerts :
              /\ item[a].status = "ABSENT"
              /\ item' = [item EXCEPT ![a] = [NoRow EXCEPT !.status = "PENDING", !.count = 1]]
    /\ UNCHANGED <<flight, enabled, told, bounds>>

---------------------------------------------------------------------------
(* The worker: processOutboundBatch, processAlertBatch.                    *)

\* The coalescing window or a backoff ends.
BecomesDue(r) ==
    /\ item[r].status = "PENDING" /\ ~item[r].due
    /\ item' = [item EXCEPT ![r].due = TRUE]
    /\ UNCHANGED <<flight, enabled, lines, told, bounds>>

\* A claim is a minute old.
Ages(r) ==
    /\ item[r].status = "SENDING" /\ ~item[r].stale
    /\ item' = [item EXCEPT ![r].stale = TRUE]
    /\ UNCHANGED <<flight, enabled, lines, told, bounds>>

RunningNever(b) == FALSE
\* WorkerState.running: a tick is awaiting its batch.
Running(b) == \E c \in Claims : Bus(c[1]) = b /\ flight[c].at # "none" /\ ~flight[c].orphan

FreeClaims(r) == {c \in Claims : c[1] = r /\ flight[c].at = "none"}

ReapsNothing(b) == item
\* The stale rows go back to PENDING, their attempts untouched.
Reaps(b) ==
    [r \in Rows |-> IF Bus(r) = b /\ item[r].status = "SENDING" /\ item[r].stale
                    THEN [item[r] EXCEPT !.status = "PENDING", !.stale = FALSE] ELSE item[r]]

\* One tick: the reap, then the claim of what is due on what is enabled.
Ticks(b) ==
    LET reaped == Reaps(b)
        picked == {r \in Rows : /\ Bus(r) = b /\ enabled[b]
                                /\ reaped[r].status = "PENDING" /\ reaped[r].due}
    IN /\ ~Running(b) /\ (picked # {} \/ reaped # item)
       /\ \A r \in picked : FreeClaims(r) # {}
       /\ item' = [r \in Rows |-> IF r \in picked THEN [reaped[r] EXCEPT !.status = "SENDING"]
                                 ELSE reaped[r]]
       /\ flight' = [c \in Claims |->
                       IF c[1] \in picked /\ c = CHOOSE f \in FreeClaims(c[1]) : TRUE
                       THEN [at |-> "claimed", attempts |-> reaped[c[1]].attempts,
                             count |-> reaped[c[1]].count, orphan |-> FALSE]
                       ELSE flight[c]]
       /\ UNCHANGED <<enabled, lines, told, bounds>>

\* assertSafe refuses, or the endpoint accepts or fails.
Posts(c) ==
    /\ flight[c].at = "claimed"
    /\ \E o \in {"accepted", "failed", "refused"} :
         /\ flight' = [flight EXCEPT ![c].at = o]
         /\ told' = IF o = "accepted" THEN [told EXCEPT ![c[1]] = flight[c].count] ELSE told
    /\ UNCHANGED <<item, enabled, lines, bounds>>

\* The death of an alert writes its line and is no alert itself.
Announces(r) == lines' = IF r \in Hooks THEN lines + 1 ELSE lines

Spent(attempts) == attempts >= MaxAttempts
Gone(c) == item[c[1]].status = "DELETED"
Ends(c) == flight' = [flight EXCEPT ![c] = NoFlight]

\* The outcome is written by row id, whatever the row has become.
Writes(c, status) ==
    item' = [item EXCEPT ![c[1]] = [@ EXCEPT !.status = status, !.due = FALSE, !.stale = FALSE,
                                           !.attempts = flight[c].attempts + 1]]

RecordsDelivered(c) ==
    /\ flight[c].at = "accepted" /\ ~Gone(c)
    /\ Writes(c, "DELIVERED") /\ Ends(c)
    /\ UNCHANGED <<enabled, lines, told, bounds>>

RecordsFailure(c) ==
    /\ flight[c].at = "failed" /\ ~Gone(c) /\ ~Spent(flight[c].attempts + 1)
    /\ Writes(c, "PENDING") /\ Ends(c)
    /\ UNCHANGED <<enabled, lines, told, bounds>>

\* finalizeDead, on either road: the row, then its line.
RecordsDead(c) ==
    /\ ~Gone(c)
    /\ \/ flight[c].at = "refused"
       \/ flight[c].at = "failed" /\ Spent(flight[c].attempts + 1)
    /\ Writes(c, "DEAD") /\ Ends(c) /\ Announces(c[1])
    /\ UNCHANGED <<enabled, told, bounds>>

\* The row is gone: the write throws, and the tick with it.  Its batch goes
\* on unawaited.
RecordThrows(c) ==
    /\ flight[c].at \in {"accepted", "failed", "refused"} /\ Gone(c)
    /\ flight' = [f \in Claims |-> IF f = c THEN NoFlight
                                   ELSE IF Bus(f[1]) = Bus(c[1]) /\ flight[f].at # "none"
                                   THEN [flight[f] EXCEPT !.orphan = @ \/ ~flight[c].orphan]
                                   ELSE flight[f]]
    /\ UNCHANGED <<item, enabled, lines, told, bounds>>

\* The process dies: its batches and the lines on their way.
Crash ==
    /\ crashes < MaxCrashes /\ crashes' = crashes + 1
    /\ flight' = [c \in Claims |-> NoFlight] /\ lines' = 0
    /\ UNCHANGED <<item, enabled, told, events, requeues, deletes, toggles>>

---------------------------------------------------------------------------
(* The operator.                                                           *)

Toggles(b) ==
    /\ toggles < MaxToggles /\ toggles' = toggles + 1
    /\ enabled' = [enabled EXCEPT ![b] = ~@]
    /\ UNCHANGED <<item, flight, lines, told, events, requeues, deletes, crashes>>

\* requeueWebhookDelivery: only a DEAD row, and its ladder starts over.
Requeues(h) ==
    /\ requeues < MaxRequeues /\ requeues' = requeues + 1
    /\ item[h].status = "DEAD"
    /\ item' = [item EXCEPT ![h] = [@ EXCEPT !.status = "PENDING", !.due = TRUE,
                                           !.attempts = 0]]
    /\ UNCHANGED <<flight, enabled, lines, told, events, deletes, toggles, crashes>>

\* The subscription or the channel of a row is deleted, and the row with it.
Deletes(r) ==
    /\ deletes < MaxDeletes /\ deletes' = deletes + 1
    /\ item[r].status \notin {"ABSENT", "DELETED"}
    /\ item' = [item EXCEPT ![r] = [NoRow EXCEPT !.status = "DELETED"]]
    /\ UNCHANGED <<flight, enabled, lines, told, events, requeues, toggles, crashes>>

Records(c) == RecordsDelivered(c) \/ RecordsFailure(c) \/ RecordsDead(c) \/ RecordThrows(c)

Next ==
    \/ ErrorHappens \/ Dispatches \/ Crash
    \/ \E h \in Hooks : Emits(h) \/ Requeues(h)
    \/ \E r \in Rows : BecomesDue(r) \/ Ages(r) \/ Deletes(r)
    \/ \E b \in Buses : Ticks(b) \/ Toggles(b)
    \/ \E c \in Claims : Posts(c) \/ Records(c)

Spec == Init /\ [][Next]_vars

\* The interval ticks, time passes, a POST times out if nothing answers it,
\* and statements return.
FairSpec ==
    /\ Spec
    /\ WF_vars(Dispatches) /\ \A b \in Buses : WF_vars(Ticks(b))
    /\ \A r \in Rows : WF_vars(BecomesDue(r)) /\ WF_vars(Ages(r))
    /\ \A c \in Claims : WF_vars(Posts(c)) /\ WF_vars(Records(c))

---------------------------------------------------------------------------

\* An alert that was delivered said how many there were: nothing is added to
\* the count of a row after the POST that carries it.
CountIsTold == \A a \in Alerts : item[a].status = "DELIVERED" => told[a] = item[a].count

\* What the receiver accepted and the row recorded is over: nothing puts it
\* back on the queue and nothing reports it dead.
DeliveredIsOver ==
    \A r \in Rows : item[r].status = "DELIVERED" => item'[r].status \in {"DELIVERED", "DELETED"}
DeliveredStays == [][DeliveredIsOver]_vars

\* What was queued is in the end delivered or given up, through crashes of the
\* process that claimed it, unless its subscription or channel is switched off.
EveryRowEnds ==
    \A r \in Rows : item[r].status \in {"PENDING", "SENDING"}
                      ~> item[r].status \in {"DELIVERED", "DEAD", "DELETED"} \/ ~enabled[Bus(r)]

=============================================================================
