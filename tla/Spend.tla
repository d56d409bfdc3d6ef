-------------------------------- MODULE Spend -------------------------------
(***************************************************************************)
(* The poll of the spend ceiling (src/src/modules/spend-ceiling): what a   *)
(* tenant has spent this month, as its observability project reports it,   *)
(* kept on one snapshot row.  Polls of one tenant may overlap (a save      *)
(* re-arms the job while it runs), their answers land in any order, the    *)
(* operator changes or removes the credential meanwhile, and every write   *)
(* is under the month's lock with the credential read again.               *)
(*                                                                         *)
(* One month and one of the two sources, whose rows are written together;  *)
(* the call counters and the unpriced models follow the figure.            *)
(***************************************************************************)
EXTENDS Integers, FiniteSets, FiniteSetsExt

CONSTANTS Polls, Creds, Projects,
          ProjectOf,        \* the project a credential belongs to
          Nothing,          \* no credential, no project
          MaxSpend, MaxChanges, MaxFaults

ConstantsAssumption ==
    /\ ProjectOf \in [Creds -> Projects] /\ Nothing \notin Creds \cup Projects
    /\ "unread" \notin Creds \cup {Nothing} /\ MaxSpend \in Nat

VARIABLES credential,
          left,             \* ghost: the projects the tenant has moved away from
          real,             \* what each project's month costs
          poll, now, row,
          top,              \* ghost: the most a landed answer read of each project,
          total,            \* ghost: ... and of all of them
          changes, lapses

vars == <<credential, left, real, poll, now, row, top, total, changes, lapses>>

Unread == "unread"          \* the credential could not be read

TypeOK ==
    /\ credential \in Creds \cup {Nothing} /\ left \subseteq Projects
    /\ real \in [Projects -> 0..MaxSpend] /\ top \in [Projects -> 0..MaxSpend]
    /\ total \in Nat
    /\ row \in [figure : Nat, carried : Nat, project : Projects \cup {Nothing}, polledAt : Nat,
                error : {"none", "unset", "failed"}, lastFailedAt : Nat]
    /\ \A p \in Polls :
         /\ poll[p].pc \in {"idle", "asking", "answered", "unset", "failing", "done"}
         /\ poll[p].at \in 0..now /\ poll[p].seen \in 0..MaxSpend
         /\ poll[p].outcome \in {"none", "polled", "failed", "unset", "superseded", "unrecorded"}

Idle == [pc |-> "idle", at |-> 0, with |-> Nothing, seen |-> 0, outcome |-> "none", fresh |-> FALSE]

Init ==
    /\ credential \in Creds /\ left = {}
    /\ real = [j \in Projects |-> 0] /\ top = [j \in Projects |-> 0] /\ total = 0
    /\ poll = [p \in Polls |-> Idle] /\ now = 0
    /\ row = [figure |-> 0, carried |-> 0, project |-> Nothing, polledAt |-> 0, error |-> "none",
              lastFailedAt |-> 0]
    /\ changes = 0 /\ lapses = 0

Lapse == lapses < MaxFaults /\ lapses' = lapses + 1

-----------------------------------------------------------------------------
(* The tenant *)

Spends ==
    /\ credential # Nothing
    /\ LET j == ProjectOf[credential] IN
         real[j] < MaxSpend /\ real' = [real EXCEPT ![j] = @ + 1]
    /\ UNCHANGED <<credential, left, poll, now, row, top, total, changes, lapses>>

\* A key rotated or removed, or another project: never back to one the month has left, which counts
\* its spend twice (docs/spend-ceiling.md).
ChangesCredential ==
    /\ changes < MaxChanges /\ changes' = changes + 1
    /\ \E k \in (Creds \cup {Nothing}) \ {credential} :
         /\ k # Nothing => ProjectOf[k] \notin left
         /\ credential' = k
         /\ left' = IF k = Nothing THEN left
                    ELSE left \cup {ProjectOf[x] : x \in {y \in Creds :
                             (y = credential \/ ProjectOf[y] = row.project)
                             /\ ProjectOf[y] # ProjectOf[k]}}
    /\ poll' = [p \in Polls |-> [poll[p] EXCEPT !.fresh = FALSE]]
    /\ UNCHANGED <<real, now, row, top, total, lapses>>

-----------------------------------------------------------------------------
(* A poll (pollTenantSpend) *)

Starts(p) ==
    /\ poll[p].pc = "idle"
    /\ now' \in {now, now + 1} \ {0}
    /\ \/ /\ poll' = [poll EXCEPT ![p] = [@ EXCEPT
               !.pc = IF credential = Nothing THEN "unset" ELSE "asking",
               !.at = now', !.with = credential, !.fresh = TRUE]]
          /\ UNCHANGED lapses
       \/ /\ Lapse
          /\ poll' = [poll EXCEPT ![p] = [@ EXCEPT
               !.pc = "failing", !.at = now', !.with = Unread, !.fresh = TRUE]]
    /\ UNCHANGED <<credential, left, real, row, top, total, changes>>

\* The project's id and its month, which may read lower than it is, or not at all.
Asks(p) ==
    /\ poll[p].pc = "asking"
    /\ \/ /\ \E seen \in 0..real[ProjectOf[poll[p].with]] :
               poll' = [poll EXCEPT ![p].pc = "answered", ![p].seen = seen]
          /\ UNCHANGED lapses
       \/ Lapse /\ poll' = [poll EXCEPT ![p].pc = "failing"]
    /\ UNCHANGED <<credential, left, real, now, row, top, total, changes>>

Ends(p, outcome) == poll' = [poll EXCEPT ![p].pc = "done", ![p].outcome = outcome]

\* Mutant: an older failure overwrites what a newer poll wrote.
FailureWrites(p, error) == row' = [row EXCEPT !.error = error, !.lastFailedAt = poll[p].at]

\* writeFailure: nothing is written over a newer success or a newer failure.
WritesFailure(p, error) ==
    row' = IF row.polledAt > poll[p].at \/ row.lastFailedAt > poll[p].at THEN row
           ELSE [row EXCEPT !.error = error, !.lastFailedAt = poll[p].at]

\* Mutant: the floor is taken against what the project itself read.
FigureOfProject(carried, seen) == carried + seen

FigureOf(carried, seen) == Max({row.figure, carried + seen})

\* writeSuccess.
WritesSuccess(p) ==
    LET project  == ProjectOf[poll[p].with]
        switched == row.project \notin {Nothing, project}
        carried  == IF switched THEN row.figure ELSE row.carried
    IN /\ row' = [figure |-> FigureOf(carried, poll[p].seen), carried |-> carried,
                  project |-> project, polledAt |-> Max({row.polledAt, poll[p].at}),
                  error |-> IF row.lastFailedAt > poll[p].at THEN row.error ELSE "none",
                  lastFailedAt |-> IF row.lastFailedAt > poll[p].at THEN row.lastFailedAt ELSE 0]
       /\ top' = [top EXCEPT ![project] = Max({@, poll[p].seen})]
       /\ total' = total + top'[project] - top[project]

\* sameCredential, under the month's lock.
AskedUnderThis(p) == credential = poll[p].with

Lands(p) ==
    /\ poll[p].pc = "answered"
    /\ \/ /\ AskedUnderThis(p) /\ WritesSuccess(p) /\ Ends(p, "polled") /\ UNCHANGED lapses
       \/ /\ ~AskedUnderThis(p) /\ Ends(p, "superseded") /\ UNCHANGED <<row, top, total, lapses>>
       \/ /\ Lapse /\ poll' = [poll EXCEPT ![p].pc = "failing"]
          /\ UNCHANGED <<row, top, total>>
    /\ UNCHANGED <<credential, left, real, now, changes>>

\* Nothing was configured: the row says so, unless something is by now.
SaysUnset(p) ==
    /\ poll[p].pc = "unset"
    /\ \/ /\ credential = Nothing /\ WritesFailure(p, "unset") /\ Ends(p, "unset")
          /\ UNCHANGED lapses
       \/ /\ credential # Nothing /\ Ends(p, "superseded") /\ UNCHANGED <<row, lapses>>
       \/ /\ Lapse /\ poll' = [poll EXCEPT ![p].pc = "failing"] /\ UNCHANGED row
    /\ UNCHANGED <<credential, left, real, now, top, total, changes>>

\* The catch: the credential, where it was read at all, is read again.
Fails(p) ==
    /\ poll[p].pc = "failing"
    /\ LET asked == poll[p].with IN
       \/ /\ asked # Unread /\ credential = Nothing
          /\ WritesFailure(p, "unset") /\ Ends(p, "unset") /\ UNCHANGED lapses
       \/ /\ asked \notin {Unread, Nothing} /\ credential \notin {Nothing, asked}
          /\ Ends(p, "superseded") /\ UNCHANGED <<row, lapses>>
       \/ /\ asked = Unread \/ (credential # Nothing /\ asked \in {Nothing, credential})
          /\ WritesFailure(p, "failed") /\ Ends(p, "failed") /\ UNCHANGED lapses
       \/ /\ Lapse /\ Ends(p, "unrecorded") /\ UNCHANGED row
    /\ UNCHANGED <<credential, left, real, now, top, total, changes>>

Next ==
    \/ Spends \/ ChangesCredential
    \/ \E p \in Polls : Starts(p) \/ Asks(p) \/ Lands(p) \/ SaysUnset(p) \/ Fails(p)

Spec == Init /\ [][Next]_vars

-----------------------------------------------------------------------------
(* Properties *)

\* The figure the ceiling is held against is the month's, whatever order the answers land in: the
\* most any landed answer read of each project, each project counted once, so it neither forgets a
\* burst nor runs ahead of what was spent (poll.ts: "the figure follows the month").
FigureIsTheMonth == row.figure = total

\* Once nothing is out, the row's health is what the poll that started last found, if it started
\* after the last change of the credential and could be written down: "unset", on which the ceiling
\* is not enforced, stands only while there is no credential (service.ts: snapshotUnenforceable).
Newest(p) == \A q \in Polls \ {p} : poll[q].at < poll[p].at
HealthIsPresent ==
    (\A p \in Polls : poll[p].pc \in {"idle", "done"}) =>
        \A p \in Polls : poll[p].fresh /\ Newest(p) /\ poll[p].outcome # "unrecorded" =>
            /\ row.error = [polled |-> "none", failed |-> "failed", unset |-> "unset"][poll[p].outcome]
            /\ row.error = "unset" => credential = Nothing
=============================================================================
