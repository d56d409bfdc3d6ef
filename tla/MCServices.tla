----------------------------- MODULE MCServices -----------------------------
(***************************************************************************)
(* The safety of the services around a turn: Grants, extended with         *)
(* instances of the others that are checked in the same run, `instance'    *)
(* saying which one moves while the variables of the others keep their     *)
(* initial values.                                                         *)
(*                                                                         *)
(*   outbox    a webhook and an alert through a crash, two errors, a       *)
(*             requeue and a switched-off channel                          *)
(*   deleted   two webhooks of which one loses its subscription            *)
(*   nudges    two follow-up steps, two messages, a /reset or a handler    *)
(*             that dies                                                   *)
(*   grants    two checks of a contact, a rotated credential and a fault   *)
(*   crowd     three overlapping checks                                    *)
(*   spend     two polls, two projects and three credentials, a fault      *)
(*   ceiling   three refusals by the spend ceiling, on a queue             *)
(*   gate      the same by contact authorization, without the queue        *)
(*   buttons   a conversation at Chatwoot, a takeover, one click and a     *)
(*             call that fails or a process that dies                      *)
(*   stranded  a longer history without the click                          *)
(***************************************************************************)
EXTENDS Grants, TLC

CONSTANTS h1, h2, a1, c1, c2, c3,
          Steps, RetryLimit, MaxSaid, MaxDeaths, MaxRetires,
          Polls, Creds, Projects, ProjectOf, Nothing, MaxSpend, MaxChanges,
          Deliveries, RefusalOf, MaxTakes,
          Buttons, MaxWrites, MaxClicks, MaxUpsets

MCProjectOf == "k1" :> "A" @@ "k2" :> "A" @@ "k3" :> "B"
MCRefusalOf == <<1, 1, 2>>

VARIABLES instance,
          item, flight, enabled, lines, alerted, events, requeues, deletes,
          toggles, crashes,
          silence, said, cancels, nudge, nudgeRun, sweep, command, sends, spoken, nudgeDeaths, commands,
          escaped,
          credential, left, real, poll, now, month, top, total, changes, lapses,
          refusal, line, window, mine, claims, cooldown, holder, told, excused, open, takes, misses,
          source, transit, mirror, takeover, click, taken, unplaced, clicks, upsets

outboxVars == <<item, flight, enabled, lines, alerted, events, requeues,
                deletes, toggles, crashes>>
ladderVars == <<silence, said, cancels, nudge, nudgeRun, sweep, command, sends, spoken, nudgeDeaths,
                commands, escaped>>
spendVars  == <<credential, left, real, poll, now, month, top, total, changes, lapses>>
noticeVars == <<refusal, line, window, mine, claims, cooldown, holder, told, excused, open, takes,
                misses>>
mirrorVars == <<source, transit, mirror, takeover, click, taken, unplaced, clicks, upsets>>
allVars    == <<instance, outboxVars, ladderVars, spendVars, noticeVars, mirrorVars, vars>>

Buses == INSTANCE OutboxProofs WITH
    Hooks <- {h1}, Alerts <- {a1}, MaxAttempts <- 2, MaxEvents <- 2, MaxRequeues <- 1,
    MaxDeletes <- 0, MaxToggles <- 1, MaxCrashes <- 1,
    told <- alerted

Deleted == INSTANCE OutboxProofs WITH
    Hooks <- {h1, h2}, Alerts <- {a1}, MaxAttempts <- 2, MaxEvents <- 0, MaxRequeues <- 0,
    MaxDeletes <- 1, MaxToggles <- 0, MaxCrashes <- 1,
    told <- alerted

Crowd == INSTANCE Grants WITH Checks <- {c1, c2, c3}, MaxRotations <- 0, MaxFaults <- 0

Nudges == INSTANCE FollowUp WITH
    conv <- silence, job <- nudge, run <- nudgeRun, reset <- command, deaths <- nudgeDeaths,
    resets <- commands

Polled == INSTANCE Spend WITH row <- month

Ceiling == INSTANCE Notices WITH
    Queued <- TRUE

Gate == INSTANCE Notices WITH
    Queued <- FALSE, MaxTakes <- 0

Row == INSTANCE Mirror WITH Stragglers <- FALSE

ASSUME ConstantsAssumption ==
    /\ Nudges!ConstantsAssumption /\ Polled!ConstantsAssumption
    /\ Buses!ConstantsAssumption /\ Deleted!ConstantsAssumption
    /\ Row!ConstantsAssumption

UnionInit ==
    /\ Nudges!Init /\ Polled!Init /\ Ceiling!Init /\ Row!Init
    /\ \/ instance \in {"outbox", "nudges", "grants", "crowd", "spend", "ceiling", "gate",
                         "buttons", "stranded"}
          /\ Buses!Init
       \/ instance = "deleted" /\ Deleted!Init
    /\ IF instance = "crowd" THEN Crowd!Init ELSE Init
    /\ instance # "spend" => credential = CHOOSE k \in Creds : TRUE
    /\ instance \notin {"ceiling", "gate"} => cooldown

UnionNext ==
    /\ UNCHANGED instance
    /\ \/ /\ \/ instance = "outbox" /\ Buses!Next
             \/ instance = "deleted" /\ Deleted!Next
          /\ UNCHANGED <<ladderVars, spendVars, noticeVars, mirrorVars, vars>>
       \/ /\ \/ instance = "grants" /\ Next
             \/ instance = "crowd" /\ Crowd!Next
          /\ UNCHANGED <<outboxVars, ladderVars, spendVars, noticeVars, mirrorVars>>
       \/ instance = "nudges" /\ Nudges!Next /\ nudgeDeaths' + commands' <= 1
          /\ UNCHANGED <<outboxVars, spendVars, noticeVars, mirrorVars, vars>>
       \/ instance = "spend" /\ Polled!Next
          /\ UNCHANGED <<outboxVars, ladderVars, noticeVars, mirrorVars, vars>>
       \/ /\ \/ instance = "ceiling" /\ Ceiling!Next
             \/ instance = "gate" /\ Gate!Next
          /\ UNCHANGED <<outboxVars, ladderVars, spendVars, mirrorVars, vars>>
       \/ /\ Row!Next
          /\ \/ instance = "buttons" /\ Len(source') <= 3
             \/ instance = "stranded" /\ clicks' = 0
          /\ UNCHANGED <<outboxVars, ladderVars, spendVars, noticeVars, vars>>

UnionSpec == UnionInit /\ [][UnionNext]_allVars

\* A delivered alert said how many there were (Outbox.CountIsTold).
CountIsTold ==
    /\ instance = "outbox" => Buses!CountIsTold
    /\ instance = "deleted" => Deleted!CountIsTold

\* What was accepted and recorded is over (Outbox.DeliveredStays), while no row is deleted.
DeliveredStays == [][instance = "outbox" => Buses!DeliveredIsOver]_allVars

\* What a /reset wiped stays wiped (FollowUp.ClearedStaysClear).
ClearedStaysClear == Nudges!ClearedStaysClear

\* One step of one episode is one message (FollowUp.StepOnce).
StepOnce == instance = "nudges" => Nudges!StepOnce

\* The figure is the month's (Spend.FigureIsTheMonth).
FigureIsTheMonth == instance = "spend" => Polled!FigureIsTheMonth

\* The row's health is what the newest poll found (Spend.HealthIsPresent).
HealthIsPresent == instance = "spend" => Polled!HealthIsPresent

\* Told, then handed off (Notices.ToldBeforeHandedOff), by the gate that has a queue.
ToldBeforeHandedOff == instance = "ceiling" => Ceiling!ToldBeforeHandedOff

\* One window of a notice at a time (Notices.OneOpenWindow), with a queue and without.
OneOpenWindow ==
    /\ instance = "ceiling" => Ceiling!OneOpenWindow
    /\ instance = "gate" => Gate!OneOpenWindow

\* Once everything has landed the row says what Chatwoot says (Mirror.AgreesWhenQuiet).
AgreesWhenQuiet == Row!AgreesWhenQuiet

\* Under a live claim only Chatwoot gives the conversation back (Mirror.TakenOverStaysQuiet).
TakenOverStaysQuiet == Row!TakenOverStaysQuiet

\* No takeover claims the row over a later click (Mirror.ClaimsUnderNoClick).
ClaimsUnderNoClick == [][Row!ClaimsUnderNoClick]_allVars

=============================================================================
