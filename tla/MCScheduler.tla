---------------------------- MODULE MCScheduler ----------------------------
(* An instance of Scheduler.  A key stands for a kind: a follow-up (shared lane, reusable row), an
   ingestion (shared lane, traffic-proportional, row deleted when done), a debounce flush, a
   compaction, an appointment reminder. *)
EXTENDS Scheduler

CONSTANTS followup, ingest, flush, compact, reminder

LaneOf(k) == CASE k = flush -> "debounce" [] k = compact -> "compaction" [] OTHER -> "shared"
MCLane     == [k \in Keys |-> LaneOf(k)]
MCIngest   == Keys \cap {ingest}
MCReminder == Keys \cap {reminder}

\* A bound: a second booking or cancel only where nothing fails.
OneUpset == calls <= 1 \/ faults = 0

\* Spec within that bound.
LedgerRunSpec == Init /\ [][Next /\ OneUpset']_vars

=============================================================================
