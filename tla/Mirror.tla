------------------------------- MODULE Mirror -------------------------------
(***************************************************************************)
(* The mirrored row of one conversation and the three that write it: the   *)
(* deliveries of Chatwoot's events (src/src/modules/chatwoot/mirror.ts,    *)
(* state-order.ts), the takeover after a colleague's own reply             *)
(* (human-takeover.ts, status-claim.ts, reconcile.ts, recover-takeover.ts) *)
(* and the console's buttons (src/src/modules/conversations/service.ts).   *)
(*                                                                         *)
(* The source is Chatwoot: `source' is the sequence of the states it       *)
(* committed, a version being a position in it.  A payload is a version    *)
(* and a kind: it says what the source was when it was serialized, and     *)
(* arrives whenever it does.  The row is what decides whether the agent    *)
(* may speak (shouldBotHandle).                                            *)
(*                                                                         *)
(* The instance sends versions (Chatwoot 4.0.2 on).  Bounds: MaxWrites     *)
(* states of the source, MaxClicks console actions, one takeover at a      *)
(* time, MaxUpsets calls that fail or processes that die.                  *)
(***************************************************************************)
EXTENDS Naturals, Sequences

CONSTANTS Buttons,     \* the console's: "return", "resolve", "handoff"
          Stragglers,  \* whether a resolve read before the reply may land under the claim
          MaxWrites, MaxClicks, MaxUpsets

ConstantsAssumption == Buttons \subseteq {"return", "resolve", "handoff"}

VARIABLES source,      \* the states Chatwoot committed
          transit,     \* payloads on their way
          mirror,      \* the conversations row
          takeover,    \* runHumanReplyTakeover, and the delivery that owes it
          click,       \* a console action
          taken,       \* ghost: the reply the row was claimed for, and the takeover's own transition
          unplaced,    \* ghost: a write that no version will ever place
          clicks, upsets

vars == <<source, transit, mirror, takeover, click, taken, unplaced, clicks, upsets>>

Statuses == {"pending", "open", "resolved"}
Holders == {"none", "person"}
Versions == 0..MaxWrites     \* 0: none

StateType == [status : Statuses, holder : Holders, sec : 1..MaxWrites, act : 1..MaxWrites,
              msg : 0..MaxWrites]
PayloadType == [v : 1..MaxWrites, kind : {"event", "degraded", "incoming", "reply"}]
ClaimType == [live : BOOLEAN, from : {"none", "pending"}, stamped : Versions, refused : Versions]
RowType == [exists : BOOLEAN, status : Statuses, holder : Holders, statusAt : Versions,
            assigneeAt : Versions, act : 0..MaxWrites, console : 0..MaxWrites, claim : ClaimType]

NoClaim == [live |-> FALSE, from |-> "none", stamped |-> 0, refused |-> 0]
NoRow == [exists |-> FALSE, status |-> "open", holder |-> "none", statusAt |-> 0, assigneeAt |-> 0,
          act |-> 0, console |-> 0, claim |-> NoClaim]
\* For the mutant: the mark left out of the swap.
SeenUnmarked(r) == <<r.statusAt, r.holder, 0>>

\* What a takeover compares and swaps.
Seen(r) == <<r.statusAt, r.holder, r.console>>
NoTakeover == [pc |-> "idle", msg |-> 0, reply |-> 0, decided |-> 0, finishing |-> FALSE,
               seen |-> Seen(NoRow), live |-> 0]
NoClick == [pc |-> "idle", button |-> "return", mark |-> 0, base |-> "none", holder |-> "none",
            live |-> 0]

TypeOK ==
    /\ \A v \in DOMAIN source : source[v] \in StateType
    /\ Len(source) \in 1..MaxWrites
    /\ transit \subseteq PayloadType /\ mirror \in RowType
    /\ takeover.pc \in {"idle", "gate", "fence", "claim", "toggle", "readback", "reconcile", "stranded"}
    /\ takeover.pc \in {"toggle", "readback", "reconcile"} => mirror.claim.from = "pending"
    /\ click.pc \in {"idle", "assign", "toggle", "holder", "unassign", "mark", "readback", "mirror"}
    /\ taken \in [reply : Versions, own : Versions] /\ unplaced \in BOOLEAN
    /\ clicks \in 0..MaxClicks /\ upsets \in 0..MaxUpsets

Init ==
    /\ source = <<[status |-> "pending", holder |-> "none", sec |-> 1, act |-> 1, msg |-> 0]>>
    /\ transit = {[v |-> 1, kind |-> "event"]}
    /\ mirror = NoRow /\ takeover = NoTakeover /\ click = NoClick
    /\ taken = [reply |-> 0, own |-> 0] /\ unplaced = FALSE /\ clicks = 0 /\ upsets = 0

Larger(a, b) == IF a >= b THEN a ELSE b
Goes(wrong) == upsets < MaxUpsets /\ upsets' = upsets + 1

\* A resolve from before the reply, frozen in a payload or in a console's read, and the claim live.
Straggles(v) == mirror.claim.live /\ v < taken.reply /\ source[v].status = "resolved"

---------------------------------------------------------------------------
(* The source.                                                             *)

Version == Len(source)
Now == source[Version]

\* A write commits a version, in this second or the next, and dispatches its payloads.  A
\* person's own write is never in the second of a message: there a frozen message would reopen
\* over it, whole seconds being all a message can be compared by.
This == Now.sec
Later == Now.sec + 1
Commits(state, kinds, s) ==
    /\ Version < MaxWrites
    /\ source' = Append(source, [state EXCEPT !.sec = s, !.act = IF state.msg = Now.msg THEN @ ELSE s])
    /\ transit' = transit \cup {[v |-> Version + 1, kind |-> k] : k \in kinds}

\* A request to set what is already set commits nothing.
Sets(state, s) ==
    IF state = Now THEN UNCHANGED <<source, transit>> ELSE Commits(state, {"event"}, s)

Spoken == [Now EXCEPT !.msg = @ + 1]

\* A message of the customer reopens a resolved conversation.
CustomerWrites ==
    /\ \E s \in {This, Later} :
         IF Now.status = "resolved"
         THEN Commits([Spoken EXCEPT !.status = "pending"], {"incoming", "event"}, s)
         ELSE Commits(Spoken, {"incoming"}, s)
    /\ UNCHANGED <<mirror, takeover, click, taken, unplaced, clicks, upsets>>

\* A colleague answers from the device or the panel; nothing else moves.
ColleagueReplies ==
    /\ Commits(Spoken, {"reply"}, Later)
    /\ UNCHANGED <<mirror, takeover, click, taken, unplaced, clicks, upsets>>

\* An attendant works in Chatwoot itself.  One of the companions of an assignment may not know it.
AttendantMoves ==
    /\ \E s \in Statuses, h \in Holders :
         /\ <<s, h>> # <<Now.status, Now.holder>>
         /\ Commits([Now EXCEPT !.status = s, !.holder = h],
                    IF h = "person" THEN {"event", "degraded"} ELSE {"event"}, Later)
    /\ UNCHANGED <<mirror, takeover, click, taken, unplaced, clicks, upsets>>

---------------------------------------------------------------------------
(* decideConversationWrites.                                               *)

OursToAnswer(r) == r.status = "pending" /\ r.holder = "none"

AppliesAnyway(stated, reopens, v) == "apply"

\* What a live claim does with a payload that restates the status it replaced.
StatusClaimVerdict(stated, reopens, v) ==
    LET claim == mirror.claim
        news  == \/ ~claim.live \/ stated # claim.from
                 \/ claim.stamped # 0 /\ v > claim.stamped
                 \/ reopens /\ mirror.status = "resolved"
    IN  IF news THEN "apply" ELSE "defer"

IsEvent(d) == d.kind \in {"event", "degraded"}
StatedHolder(d) == IF d.kind = "degraded" THEN "none" ELSE source[d.v].holder

\* A conversation event is judged by its version alone, a message by its activity.
Stale(d) ==
    IF IsEvent(d) THEN d.v < mirror.statusAt /\ d.v < mirror.assigneeAt
                  ELSE mirror.act > source[d.v].act

\* A message reopens only from its own second on.
Reopens(d) ==
    /\ d.kind = "incoming"
    /\ mirror.statusAt = 0 \/ source[d.v].act >= source[mirror.statusAt].sec
Verdict(d) == StatusClaimVerdict(source[d.v].status, d.kind = "incoming", d.v)
WritesStatus(d) ==
    /\ Verdict(d) = "apply"
    /\ (IsEvent(d) /\ d.v >= mirror.statusAt) \/ Reopens(d)

\* At an equal version the holder is set and never cleared.
WritesHolder(d) ==
    /\ IsEvent(d) /\ d.v >= mirror.assigneeAt
    /\ ~(d.v = mirror.assigneeAt /\ StatedHolder(d) = "none" /\ mirror.holder # "none")

Created(d) ==
    [NoRow EXCEPT !.exists = TRUE, !.status = source[d.v].status, !.holder = StatedHolder(d),
                  !.statusAt = d.v, !.assigneeAt = d.v, !.act = source[d.v].act]

Updated(d) ==
    IF Stale(d) THEN mirror
    ELSE [mirror EXCEPT
            !.status     = IF WritesStatus(d) THEN source[d.v].status ELSE @,
            !.statusAt   = IF WritesStatus(d) THEN Larger(@, d.v) ELSE @,
            !.holder     = IF WritesHolder(d) THEN StatedHolder(d) ELSE @,
            !.assigneeAt = IF WritesHolder(d) THEN Larger(@, d.v) ELSE @,
            !.claim.refused = IF Verdict(d) = "defer" THEN Larger(@, d.v) ELSE @,
            !.act        = Larger(@, source[d.v].act)]

\* A delivery mirrors its payload under the conversation's lock, and a colleague's reply to a
\* conversation the row still gives the agent owes a takeover.
Mirrors(d) ==
    /\ d \in transit /\ transit' = transit \ {d}
    /\ Stragglers \/ ~Straggles(d.v)
    /\ mirror' = IF mirror.exists THEN Updated(d) ELSE Created(d)
    /\ IF d.kind = "reply" /\ OursToAnswer(mirror')
       THEN /\ takeover.pc = "idle"
            /\ takeover' = [NoTakeover EXCEPT !.pc = "gate", !.msg = source[d.v].msg, !.reply = d.v,
                                           !.decided = d.v]
       ELSE UNCHANGED takeover
    /\ UNCHANGED <<source, click, taken, unplaced, clicks, upsets>>

---------------------------------------------------------------------------
(* reconcileMirrorFromLive: a live read of version v, by the claim's owner *)
(* or by somebody else.                                                    *)

Ranks(v, mark) == IF mark # 0 THEN v >= mark ELSE mirror.act <= source[v].act

DropsDeferred(v, owner) == FALSE
\* A refusal ahead of our own version was committed after it and stands.
DeferredWins(v, owner) ==
    /\ owner /\ mirror.claim.from # "none"
    /\ mirror.claim.refused > v /\ mirror.claim.refused > mirror.statusAt

LiveVerdict(v, owner) == IF owner THEN "apply" ELSE StatusClaimVerdict(source[v].status, FALSE, v)
LiveStatusOrdered(v, owner) ==
    LiveVerdict(v, owner) = "apply" /\ ~DeferredWins(v, owner) /\ Ranks(v, mirror.statusAt)

Applied(v) == LiveStatusOrdered(v, FALSE) /\ Ranks(v, mirror.assigneeAt)
Outranked(v) ==
    \/ mirror.statusAt # 0 /\ ~Ranks(v, mirror.statusAt)
    \/ mirror.assigneeAt # 0 /\ ~Ranks(v, mirror.assigneeAt)

Reconciled(v, owner) ==
    LET deferred == DeferredWins(v, owner)
        ordered  == LiveStatusOrdered(v, owner)
        holds    == Ranks(v, mirror.assigneeAt)
    IN [mirror EXCEPT
         !.status   = IF deferred THEN mirror.claim.from
                      ELSE IF ordered THEN source[v].status ELSE @,
         !.statusAt = IF deferred THEN mirror.claim.refused
                      ELSE IF ordered THEN Larger(@, v) ELSE @,
         !.holder   = IF holds THEN source[v].holder ELSE @,
         !.assigneeAt = IF holds THEN Larger(@, v) ELSE @,
         !.act      = Larger(@, source[v].act),
         !.claim.stamped = IF owner THEN v ELSE @,
         !.claim.refused = IF owner THEN 0
                           ELSE IF LiveVerdict(v, owner) = "defer" THEN Larger(@, v) ELSE @]

---------------------------------------------------------------------------
(* runHumanReplyTakeover.                                                  *)

TakeoverEnds == takeover' = NoTakeover
TakeoverGoesTo(pc) == takeover' = [takeover EXCEPT !.pc = pc]

\* Chatwoot is asked first.  Deciding goes on without an answer; finishing does not.
TakeoverGates ==
    /\ takeover.pc = "gate"
    /\ \/ /\ \/ OursToAnswer(Now)
             \/ takeover.finishing /\ Now.status \in {"pending", "open"} /\ Now.holder = "none"
          /\ TakeoverGoesTo(IF takeover.finishing THEN "toggle" ELSE "fence") /\ UNCHANGED upsets
       \/ /\ ~OursToAnswer(Now)
          /\ takeover.finishing => ~(Now.status \in {"pending", "open"} /\ Now.holder = "none")
          /\ TakeoverEnds /\ UNCHANGED upsets
       \/ Goes("unread") /\ TakeoverGoesTo(IF takeover.finishing THEN "stranded" ELSE "fence")
    /\ UNCHANGED <<source, transit, mirror, click, taken, unplaced, clicks>>

\* A later answer about the conversation: a version ahead of the reply, or a click after it.
Overruled ==
    \/ takeover.decided # 0 /\ takeover.decided < mirror.statusAt
    \/ mirror.console # 0 /\ takeover.msg <= mirror.console

\* conversationOwnershipNow, and whether this is still the latest decision.
TakeoverFences ==
    /\ takeover.pc = "fence"
    /\ IF ~OursToAnswer(mirror) \/ Overruled THEN TakeoverEnds
       ELSE takeover' = [takeover EXCEPT !.pc = "claim", !.seen = Seen(mirror)]
    /\ UNCHANGED <<source, transit, mirror, click, taken, unplaced, clicks, upsets>>

\* claimOpenForHumanQueue: the row moves first, and says what it replaced.
TakeoverClaims ==
    /\ takeover.pc = "claim"
    /\ IF mirror.status = "pending" /\ Seen(mirror) = takeover.seen
       THEN /\ mirror' = [mirror EXCEPT !.status = "open",
                            !.claim = [NoClaim EXCEPT !.live = TRUE, !.from = "pending"]]
            /\ takeover' = [takeover EXCEPT !.pc = "toggle", !.seen = NoTakeover.seen]
            /\ taken' = [reply |-> takeover.reply, own |-> Version]
       ELSE TakeoverEnds /\ UNCHANGED <<mirror, taken>>
    /\ UNCHANGED <<source, transit, click, unplaced, clicks, upsets>>

\* The toggle.  One that throws may have been applied; the claim stays.
TakeoverToggles ==
    /\ takeover.pc = "toggle"
    /\ \/ /\ Sets([Now EXCEPT !.status = "open"], This) /\ taken' = [taken EXCEPT !.own = Len(source')]
          /\ \/ TakeoverGoesTo("readback") /\ UNCHANGED <<unplaced, upsets>>
             \/ Goes("lost answer") /\ TakeoverEnds /\ unplaced' = TRUE
       \/ Goes("refused") /\ TakeoverEnds /\ unplaced' = TRUE /\ UNCHANGED <<source, transit, taken>>
    /\ UNCHANGED <<mirror, click, clicks>>

TakeoverReadsBack ==
    /\ takeover.pc = "readback"
    /\ \/ takeover' = [takeover EXCEPT !.pc = "reconcile", !.live = Version]
          /\ UNCHANGED <<unplaced, upsets>>
       \/ Goes("unread") /\ TakeoverEnds /\ unplaced' = TRUE
    /\ UNCHANGED <<source, transit, mirror, click, taken, clicks>>

TakeoverReconciles ==
    /\ takeover.pc = "reconcile"
    /\ mirror' = Reconciled(takeover.live, TRUE)
    /\ TakeoverEnds
    /\ UNCHANGED <<source, transit, click, taken, unplaced, clicks, upsets>>

\* The process dies under the delivery that owes the takeover.
TakeoverStrands ==
    /\ takeover.pc \notin {"idle", "stranded"} /\ Goes("dies")
    /\ TakeoverGoesTo("stranded")
    /\ unplaced' = (unplaced \/ takeover.pc \in {"toggle", "readback", "reconcile"})
    /\ UNCHANGED <<source, transit, mirror, click, taken, clicks>>

\* recoverStrandedTakeover, half an hour later and past the claim.  It holds no version, and what
\* it finishes is written without a claim.
TakeoverRecovers ==
    /\ takeover.pc = "stranded" /\ ~mirror.claim.live
    /\ LET again == [takeover EXCEPT !.pc = "gate", !.decided = 0, !.live = 0]
       IN  IF mirror.status = "open" /\ mirror.claim.from = "pending"
           THEN takeover' = [again EXCEPT !.finishing = TRUE]
           ELSE IF OursToAnswer(mirror) THEN takeover' = [again EXCEPT !.finishing = FALSE]
           ELSE TakeoverEnds
    /\ unplaced' = (unplaced \/ takeover'.finishing)
    /\ UNCHANGED <<source, transit, mirror, click, taken, clicks, upsets>>

\* STATUS_CLAIM_TTL_MS: longer than the round trips of its own takeover, and than what was
\* serialized before them stays on its way.
ClaimExpires ==
    /\ mirror.claim.live
    /\ takeover.pc \notin {"toggle", "readback", "reconcile"}
    /\ \A d \in transit : d.v > taken.own
    /\ mirror' = [mirror EXCEPT !.claim.live = FALSE] /\ taken' = [reply |-> 0, own |-> 0]
    /\ UNCHANGED <<source, transit, takeover, click, unplaced, clicks, upsets>>

---------------------------------------------------------------------------
(* The console's buttons: returnConversationToAgent, setConversationStatus *)
(* (to resolved) and handoffConversation (to a person).                    *)

Target(button) == CASE button = "return" -> "pending"
                    [] button = "resolve" -> "resolved"
                    [] button = "handoff" -> "open"

ClickGoesTo(pc) == click' = [click EXCEPT !.pc = pc]

\* The reading before the action: the newest message, and the holder a return may take off.
ConsoleReads(button) ==
    /\ click.pc = "idle" /\ mirror.exists
    /\ clicks < MaxClicks /\ clicks' = clicks + 1
    /\ LET Base(holder) == IF button = "return" THEN holder ELSE "none"
       IN  \/ click' = [NoClick EXCEPT !.pc = IF button = "handoff" THEN "assign" ELSE "toggle",
                          !.button = button, !.base = Base(Now.holder),
                          !.mark = IF button = "handoff" THEN 0 ELSE Now.msg]
              /\ UNCHANGED upsets
           \/ Goes("unread") /\ button # "handoff"
              /\ click' = [NoClick EXCEPT !.pc = "toggle", !.button = button,
                                          !.base = Base(mirror.holder)]
    /\ UNCHANGED <<source, transit, mirror, takeover, taken, unplaced>>

ConsoleAssigns ==
    /\ click.pc = "assign" /\ ClickGoesTo("toggle")
    /\ Sets([Now EXCEPT !.holder = "person"], Later)
    /\ UNCHANGED <<mirror, takeover, taken, unplaced, clicks, upsets>>

\* The status first.  An error is the operator's to read.
ConsoleToggles ==
    /\ click.pc = "toggle"
    /\ \/ /\ Sets([Now EXCEPT !.status = Target(click.button)], Later)
          /\ \/ ClickGoesTo(IF click.button = "return" THEN "holder" ELSE "mark") /\ UNCHANGED upsets
             \/ Goes("lost answer") /\ click' = NoClick
       \/ Goes("refused") /\ click' = NoClick /\ UNCHANGED <<source, transit>>
    /\ UNCHANGED <<mirror, takeover, taken, unplaced, clicks>>

\* Whoever came since is left alone, and nobody to remove means no request.
ConsoleReadsHolder ==
    /\ click.pc = "holder"
    /\ \/ /\ click' = [click EXCEPT
                !.pc = IF Now.holder = "none" \/ click.base = "none" THEN "mark" ELSE "unassign",
                !.holder = IF click.base = "none" THEN Now.holder ELSE "none"]
          /\ UNCHANGED upsets
       \/ Goes("unread") /\ ClickGoesTo("unassign")
    /\ UNCHANGED <<source, transit, mirror, takeover, taken, unplaced, clicks>>

ConsoleUnassigns ==
    /\ click.pc = "unassign" /\ ClickGoesTo("mark")
    /\ Sets([Now EXCEPT !.holder = "none"], Later)
    /\ UNCHANGED <<mirror, takeover, taken, unplaced, clicks, upsets>>

\* The mark only ever rises.
ConsoleMarks ==
    /\ click.pc = "mark" /\ click' = [click EXCEPT !.pc = "readback", !.mark = 0, !.base = "none"]
    /\ mirror' = [mirror EXCEPT !.console = Larger(@, click.mark)]
    /\ UNCHANGED <<source, transit, takeover, taken, unplaced, clicks, upsets>>

\* What the click asked for, without a version.
FallbackHolder ==
    CASE click.button = "return" -> click.holder
      [] click.button = "handoff" -> "person"
      [] click.button = "resolve" -> mirror.holder
Blindly == [mirror EXCEPT !.status = Target(click.button), !.holder = FallbackHolder]

ConsoleReadsBack ==
    /\ click.pc = "readback"
    /\ \/ click' = [click EXCEPT !.pc = "mirror", !.live = Version]
          /\ UNCHANGED <<mirror, unplaced, upsets>>
       \/ Goes("unread") /\ click' = NoClick /\ mirror' = Blindly /\ unplaced' = TRUE
    /\ UNCHANGED <<source, transit, takeover, taken, clicks>>

\* Applied or beaten by a version, the reconcile is the answer; a claim or the activity alone
\* leaves the fallback to write.
ConsoleMirrors ==
    /\ click.pc = "mirror" /\ click' = NoClick
    /\ Stragglers \/ ~Straggles(click.live)
    /\ IF Applied(click.live) \/ Outranked(click.live)
       THEN mirror' = Reconciled(click.live, FALSE) /\ UNCHANGED unplaced
       ELSE /\ mirror' = [Reconciled(click.live, FALSE) EXCEPT !.status = Target(click.button),
                                                               !.holder = FallbackHolder]
            /\ unplaced' = TRUE
    /\ UNCHANGED <<source, transit, takeover, taken, clicks, upsets>>

---------------------------------------------------------------------------

Takeover == \/ TakeoverGates \/ TakeoverFences \/ TakeoverClaims \/ TakeoverToggles
            \/ TakeoverReadsBack \/ TakeoverReconciles
Console  == \/ ConsoleAssigns \/ ConsoleToggles \/ ConsoleReadsHolder \/ ConsoleUnassigns
            \/ ConsoleMarks \/ ConsoleReadsBack \/ ConsoleMirrors

Next ==
    \/ CustomerWrites \/ ColleagueReplies \/ AttendantMoves
    \/ \E d \in transit : Mirrors(d)
    \/ Takeover \/ TakeoverStrands \/ TakeoverRecovers \/ ClaimExpires
    \/ \E b \in Buttons : ConsoleReads(b)
    \/ Console

Spec == Init /\ [][Next]_vars

---------------------------------------------------------------------------

Quiet == transit = {} /\ takeover.pc = "idle" /\ click.pc = "idle"

\* When every payload has landed, in whatever order, and no takeover and no click is under way,
\* the row says what Chatwoot says: nothing frozen walked it back, no companion of an assignment
\* erased the holder and no transition the claim refused is lost.  Writes that could not be
\* placed, because their own call or their read failed, are not promised that.
AgreesWhenQuiet ==
    Quiet /\ ~unplaced =>
        mirror.status = Now.status /\ mirror.holder = Now.holder

\* The conversation went back to the agent at Chatwoot after version after.
Returned(after) ==
    \E v \in after + 1 .. Version : source[v].status = "pending" /\ source[v - 1].status # "pending"

\* A person has answered, and while the claim stands the row gives the conversation back to the
\* agent only when Chatwoot did after the reply (issue #436): never on a payload frozen before
\* the takeover's transition, on whichever road it comes.
TakenOverStaysQuiet ==
    mirror.claim.live /\ OursToAnswer(mirror) /\ ~unplaced => Returned(taken.reply)

\* No takeover claims the row over a click marked after the reply it answers (issue #469), whether it
\* is decided at first or by a recovery, and whenever the mark falls between the fence and the claim.
\* What a recovery finishes takes no claim and is not bound by this: it passes neither fence, and
\* opens the conversation over a return that is marked and has yet to reach the row.
ClaimsUnderNoClick ==
    takeover.pc = "claim" /\ takeover'.pc = "toggle" => mirror.console = 0 \/ mirror.console < takeover.msg

=============================================================================
