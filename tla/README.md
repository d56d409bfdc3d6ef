# A formal model of the agent platform's coordination code

The repository is a self-hosted server for AI customer-service agents. It takes
webhooks from a chat provider (Chatwoot, Z-PRO), decides whether the agent owns
a conversation, gathers a burst of messages, runs a language-model turn over the
contact's memory thread and posts the answer, while timers nudge, remind,
compact, retry and sweep. It runs on Bun with one Postgres; one process is the
leader with the workers on, more web replicas may run with the workers off
(`src/docs/deploy.md`, section 4).

Most of its logic is sequential request handling. What is hard is the
coordination: who holds a job row, who may write a memory thread, who may answer
a burst, whose word about a conversation is the latest, with several processes,
handlers of unbounded length, crashes, retries, reordered webhooks and an
operator's `/reset` in between. That is what these modules model.

Contents: [components](#components) · [layout](#layout) ·
[Scheduler](#scheduler) · [ThreadClaim](#threadclaim) · [Debounce](#debounce) ·
[DeliveryLedger](#deliveryledger) · [Mirror](#mirror) · [Memory](#memory) ·
[FollowUp](#followup) · [Outbox](#outbox) · [Grants](#grants) · [Spend](#spend) ·
[Notices](#notices) · [Primitives](#primitives) ·
[runs](#runs) · [proofs](#proofs) · [limits](#limits)

## Components

Paths are under `src/src/`. "Hard" is what a test would hardly reach; "module" is
where it is modelled, `-` when it is not. How much of each is modelled is in
`PROJECT.json`, with the reasons, and its hazards at their lines.

| component | state | operations | hard | correct when | module |
|---|---|---|---|---|---|
| **Scheduler** `modules/scheduler` | `scheduler_jobs` rows: status, attempts, `claim_seq`, tombstone; the ticks' running flags | arm, cancel, retire, revoke, claim, complete, reschedule, fail, reap, announce a death | a run outliving its claim; re-arms under a claim; four reapers; crashes | one run can write a row; owed work is served, replaced, withdrawn or dead; no false death | Scheduler |
| **Thread claim** `graph/thread-claim.ts`, `inflight.ts` | holders, epoch, two leases and a token on `agent_threads`; a `Map` and a keyed queue per process | take and release a turn hold, take and release an append claim, renew, ask | two processes with separate Maps; leases under slow holders; row deleted by `/reset` | no append inside an invoke; waits are finite; a release ends its own hold | ThreadClaim |
| **Continuous ingestion** `graph/ingest*.ts` | remembered ids and marks on `agent_threads`; one job per message | arm, append, defer, drain at a turn's barrier | append and its record are not atomic; revoked while waiting | a remembered message is in the thread; nothing cleared returns | ThreadClaim, Scheduler |
| **Debounce** `modules/debounce` | job payload (burst start, last id, deferral); two watermarks on the conversation | arm, flush, defer behind a turn, claim the reply, settle | flush, direct turn and click racing; crash between claim and send; late deliveries | a message is part of one reply; an unanswered one stays owed | Debounce |
| **Agent turn** `graph/runtime.ts` | in-memory turn; checkpointer channel | barrier, claim, invoke, gate, post, undo, release | ownership and `/reset` changing mid-turn | no answer after the bot lost the conversation | ThreadClaim, Debounce |
| **Re-engage** `modules/conversations/reengage.ts` | - | an operator's click answers the tail | a process without the flush's hold | one reply per message | Debounce |
| **Webhook intake, sweep, recovery** `modules/chatwoot/webhook.ts`, `delivery-sweep.ts`, `recover-delivery.ts` | delivery ledger rows | claim, decide, arm or turn, ingest, mark, settle; sweep, recover, correct | crash between acknowledgement and settle; a stalled attempt under the sweep; binding moving | a row that reads PROCESSED tells the truth; every row ends | DeliveryLedger |
| **Mirror and write order** `modules/chatwoot/mirror.ts`, `state-order.ts`, `reconcile.ts` | the conversation's row with the versions of its fields | apply a payload, apply a live read | reordered payloads | the row agrees with Chatwoot once all has landed | Mirror |
| **Status claim, takeover** `status-claim.ts`, `human-takeover.ts`, `recover-takeover.ts` | the claim columns of the row | claim an open, toggle, read back, reconcile, recover | its own echo; an attendant meanwhile; a death half way | no self-inflicted hand-back; a click survives | Mirror |
| **Console writes** `modules/conversations/service.ts` | - | return, hand off, resolve | a takeover under a click | the later answer wins | Mirror |
| **Compaction and reset** `modules/memory` | summaries, generation, the channel | arm, cut, summarise, commit, rewrite; clear | clear overtaking a model call; a rewrite that is owed | nothing forgotten, nothing summarised twice, what is cleared stays so | Memory |
| **Follow-ups** `modules/followups`, `graph/nudge.ts` | the ladder's stamps, one FOLLOWUP row | sweep, re-arm, nudge, retry, close, retire | reply or `/reset` under a nudge | a step once; nothing after a reset | FollowUp |
| **Outbound webhooks, alerts** `modules/webhooks/outbound`, `modules/flowlog` | delivery rows, coalesced alerts | emit, claim, post, back off, die, requeue | crash after post; coalescing under a send | delivered stays delivered; every row ends | Outbox |
| **Contact authorization** `modules/contact-auth` | grant row, refusals in memory, notice windows | ask, store, drop; tell, hand off, note | late answers, failed deletes, rotated credentials | no verdict outlives a refusal | Grants, Notices |
| **Spend ceiling** `modules/spend-ceiling` | snapshot row; in-memory queue of notices | poll, write, fail; tell, hand off, note | overlapping polls; two refusals at once | the figure is the month's; told before handed off | Spend, Notices |
| **In-process primitives** `lib/locks.ts`, `lib/semaphore.ts` | promise chains, permits | acquire, release, queue | entry dropped under a waiter | exclusion and order | KeyedQueue, Semaphore |
| **Appointment reminders** `modules/appointments` | reminder jobs, tombstones | book, re-state, cancel | cancel overtaking a claimed reminder | no reminder for a cancelled booking | Scheduler |
| **Observe** `modules/observe` | its debounced job | verdict per burst | as debounce | as debounce | its route in DeliveryLedger |
| Agents, inbound webhooks, tools, MCP, media, vault, prompts, console, API, tenancy | rows and I/O | CRUD, adapters | - | no protocol of their own | - |

## Layout

One module per component, its parameters as CONSTANTS with a named
`ConstantsAssumption`, one action per statement or handler step, properties at
the end. `WorkLedger` and `Admission` are the abstract promises that `Scheduler`,
and `KeyedQueue` and `Semaphore`, are shown to implement. The `MC...` modules hold what
a `.cfg` cannot say; several of them put instances of more than one module side
by side (`instance` says which one moves, the variables of the others keep their
initial values), so that one run asks one kind of question of several parts.
The `...Proofs` modules hold the theorems; no module uses `RECURSIVE`.

A theorem about a component is also a theorem about the run that checks it. For the
properties a run states over several instances the proof goes through the MC module:
`DebounceProofs`, `MemoryProofs`, `KeyedQueueProofs` and `ServicesProofs` extend
`MCBursts`, `MCEnds`, `MCSettles` and `MCServices`, and those instantiate the proof modules
whose theorems they carry over (`MCBursts`: `ThreadClaimProofs` and `DeliveryLedgerProofs`,
`MCEnds`: `SchedulerProofs`, `MCServices`: `OutboxProofs`). What the instances give to the
constants is assumed by name (`InstancesAssumption`) and evaluated by the run.

Each mutated definition (a plausible bug, listed under `mutants` in
`PROJECT.json`) sits next to the definition it mutates; with the one put for the
other, TLC finds the property violated.

What composes in the code is cut here at interfaces that another module checks.
`Debounce`, `FollowUp`, `Memory` and `DeliveryLedger` use the job row as `Scheduler`
shows it behaves; `DeliveryLedger` uses a turn as `Debounce` shows it ends;
`Debounce` uses the mirror as `Mirror` shows it settles; the sections of
`ThreadClaim` and `Memory` are `KeyedQueue`'s.

## Scheduler

`Scheduler.tla` is `modules/scheduler/service.ts` and `worker.ts`: the table, the
ticks of the three lanes, the barrier a turn drains ingestion through, the reaper
and the producers.

| model | code |
|---|---|
| `rows[k]` | the row under a dedupe key; `id` tells a re-created row from its predecessor, `seq` is `claim_seq`, `work` numbers the arming that asked for the work |
| `due`, `stale` | `run_at` has passed; the claim is older than `staleMs` |
| `runs` | `ClaimedJob` snapshots handlers of this process hold |
| `tick`, `dying` | where a tick stands, and the deaths its reaper returned |
| `booking` | the statements of a booking or cancellation still to run |
| `Armed`, `Claimed`, `Completed`, `Failed`, `Reaped`, `Retired`, ... | one SQL statement each, as a function from a row to a row |
| `StartTick`, `ClaimBatch`, `ClaimTraffic`, `EndTick` | a tick: reap, claim general work, claim traffic-proportional kinds, wait for all |
| `HandlerDone/Reschedules/Fails/StandsDown` | `runClaimed` and what it writes |
| `Crash`, `WriteLost`, `NoticeLost` | a process death; an outcome write or an announcement that never lands |

`WorkLedger.tla` is the promise to producers: work owed under a key stops being
owed only because that work was served, newer work replaced it, it was withdrawn,
or it failed `MaxAttempts` times with no success in between. `LedgerSpec`
instantiates it with the rows' live work and attempts.

## ThreadClaim

`ThreadClaim.tla` is one memory thread. A turn loads the whole channel and every
superstep saves what it loaded plus its own messages, so anything appended in
between is erased.

| model | code |
|---|---|
| `threadRow` | the `agent_threads` row: `holders`, `epoch`, `lease` (is `turn_held_until` in the future), `write` and `token`, `conv` (`last_conversation_id`: none, the previous, the current conversation), `recorded` (the remembered ids), `marked` (some inbound id recorded); `occ` is a history variable naming the occupancy |
| `channel` | the checkpoint's messages: ingested messages, turns' own, the divider |
| `inFlight[p]`, `queue[p]` | the Map of `inflight.ts` and the keyed queue of process `p` |
| `turn[t]` | `runAgentTurn` from the ingest barrier to its `finally`: asks, claims, asks again, writes the divider, stamps the row, loads, saves, unmarks, releases |
| `append[a]` | a run of the ingestion job: looks, claims, re-reads the row, writes, records, releases, settles |
| `reset[r]` | `/reset`: retires the flush job; later, inside the queue, revokes the jobs and deletes the rows in a transaction that stays open (`ResetErases`, which deletes the checkpoint beside it), and commits (`ResetCommits`) or fails (`ResetThrows`); `RowLocked` is the row it holds meanwhile |
| `LeaseExpires`, `WriteExpires` | nobody renews the lease any more |
| `LeaseLapses`, `WriteLapses` | a stall: it runs out under a holder still at work |

Abstractions: a lease that is absent and one that expired are the same to every
statement; a claim's random token is the run that holds it; the update and the
insert of a claim are one step; all messages and turns belong to one new conversation and arrive in id order
(late arrivals claim no boundary, `movesAttendanceFrontier`); attempts of the
ingestion job are not counted, `Scheduler` does that.

`RememberedIsInThread` has one exception, `torn`: what a `/reset` deleted with the
checkpoint and has not committed, or never did. The rows then remember ids whose
messages are gone until a `/reset` goes through; `memory/reset.ts:18-22` accepts it
("what remains is the commit itself").

## Debounce

`Debounce.tla` is one conversation with everyone who may answer in it: the flush
of its DEBOUNCE job, the direct turn of a delivery (debounce off, or the arm threw)
and an operator's re-engage click, in any process.

| model | code |
|---|---|
| `sent`, `lastOut`, `owner` | what Chatwoot has: incoming messages numbered in its order, the place of the newest outgoing one, bot or human |
| `delivery[m]`, `stranded` | the webhook of message `m` between its gate and the arm, direct turn or skip; what died on the way |
| `row` | the DEBOUNCE job: status, attempts, the high-water mark of its payload, and whether a run still holds the claim |
| `handled`, `replied` | `lastHandledMessageId`, `lastRepliedMessageId` |
| `lapsed` | history: up to where bursts ended with nothing said and nothing marked |
| `run[r]` | a flush, click or direct turn at one of its awaits: its mark, its fetched page, its burst (`above`, `target`) |
| `BusyIn`, `InFlight` | `isTurnInFlight`, `isFlushHeld` of one process; the durable claim of any |
| `Fetches`, `Selects`, `Thinks`, `Gates`, `Claims`, `Posts`, `Marks` | `selectAnswerableBurst`, the model, the owner asked again, the re-fetch, `claimReplyBurst`, the send, the watermark tail |
| `FlushReads`, `FlushDrops`, `FlushDefers`, `FlushOverrides` | the flush's gates, its exits without a turn, the wait behind a busy thread |
| `FlushFindsNobody`, `CalledOff` | the inbox unbound, the agent off or its config refused, before the turn and under it; a `/reset` found by the turn |
| `Resets` | `/reset` retiring the job |
| `FlushSettles`, `Reaps`, `Crashes`, `Throws` | the outcome under its claim, the reaper, a dead process, a failure before, in or after the send |

Abstractions: the job row behaves as `Scheduler` proves it does, so "the claim is
still mine" is one bit; time is not kept, a PENDING row may be claimed at any later
moment, and `MaxSlow` bounds how often something outlasts its deadline; what a
ceiling or an authorization answers is a free choice; an outgoing message is placed
after the incoming ones it follows; the two marks of a row that does not exist yet
are 0. The model's mirror of the conversation is current.

The two marks cover different halves. `handled` stops what nobody should answer;
`replied` stops two posts of one burst. `AnsweredOnce` needs more than either: two
bursts that overlap and end at different messages pass the claim both, so it rests
on the hold, and on the floor a burst is selected above being read again after the
fetch. `AccountedFor` is the other side: no message falls between the marks, the
job and the delivery ledger.

What `AccountedFor` and `EverySettles` say and do not say:

- A mark stands for a run that handled the message or committed to answering it, no more.
  The claim is never given back (`runtime.ts:562-577`): a reply whose send fails after the
  claim leaves its burst marked and unanswered, with an error badge and the re-engage
  button. `handler.ts:422-424`, `watermark.ts:73` and `schema.prisma:826` describe a release
  that the code does not make.
- A run that finds nobody to answer (no agent bound, the agent off, its config refused) or
  that a `/reset` called off completes its job and marks nothing. The burst then waits for
  the next flush, and no job is owed for it (`lapsed`). Each such exit costs one of the
  changes people make (`Changes`), so with an agent in place and no `/reset` the properties
  are unconditional.
- `Ordered` is TRUE in the instances of both: deliveries arm in the order of their messages
  (see the late arm under [Runs](#runs)).

## DeliveryLedger

`DeliveryLedger.tla` is what happens to a customer's message when the process that
took its webhook dies, stalls or fails half way. Chatwoot is answered 200 before
anything runs, so a row of the ledger is the only thing that still knows.

| model | code |
|---|---|
| `row[d]` | `ChatwootWebhookDelivery`: status, the observed mark, recovery attempts, generation; `stale` is the sweep's cutoff |
| `run[a]` | a call of `processChatwootDelivery`, from the webhook (`post`, `repost`) or from a recovery (`replay`): resolving the route, claiming the row, the gate, the arm or the direct turn, the ingestion, the mark, the settlement, the correction |
| `flush`, `holds` | the debounced job, and the turns holding the thread |
| `sweep`, `job` | the sweep's pass (arm the recovery, report the loss) and the recovery jobs |
| `binding`, `owner` | which routes resolve an agent, and who has the conversation |
| `fate` | history: answered, decided by somebody, announced to the operator, or passed by a later message's gate |
| `unread` | history: deliveries whose observer was off, or whose conversation had no thread, when an attempt came to remember them |

`ObserverRemembers` excepts the rows in `unread`: an observer that is switched off
(`webhook.ts:6334`) and a conversation without a contact-inbox (`:6339`) leave the message
unremembered, and the row is closed PROCESSED all the same (`:6473`); a recovery puts the
first back and takes the second for settled (`recover-delivery.ts:1468-1486`). What it rules
out is a row closed by somebody else's work. A flush that finds the inbox unbound or its
agent off marks nothing and is done; to `NoQuietLoss` the operator who did that has decided.

`NoQuietLoss` is the promise of the subsystem: a row that reads PROCESSED is a
message that was answered, decided, announced or still owed. Where the code gives
it up, the model says so:

- **A detached observer** (`ledger_detached`, a finding): a delivery on the
  observer's route that resolves no observer moves the shared mark, and the flush
  the responder armed finds nothing to answer.
- A gate on a later message moves the mark over an earlier one whose flush is armed
  (fate `passed`).
- A stalled attempt writes PROCESSED over a DEAD the sweep has reported
  (`webhook.ts:6459-6479`, by id), a replay that dies between its settlement and its
  line (`recover-delivery.ts:1543-1578`), and a put-back that fails three times (`:1493`)
  end without a closing line; their rows are in `cut`, the exception of `ReportsEnd`.
- A put-back that fails after a turn that threw leaves the row PROCESSED. The failure is on
  the conversation (`announced`) and nothing replays the message: the code logs it as "the
  state nothing revisits".

The first of these is the only way to a quiet loss: `ClosedRowsTell` proves
`NoQuietLoss` for every instance in which the observer's binding stays while messages
wait for a flush.

## Mirror

`Mirror.tla` is the row of one conversation that decides whether the agent may speak,
and everyone who writes it: payloads in any order, live reads, the takeover after a
colleague's reply, the console's buttons. `source` is the sequence of states Chatwoot
committed; a payload or a read is a position in it, and when it arrives is free.

| model | code |
|---|---|
| `mirror` | the row: status and holder with the version each came from, activity, the console's mark, the claim columns |
| `StatusClaimVerdict`, `WritesStatus`, `WritesHolder`, `Updated` | `decideConversationWrites` |
| `Ranks`, `DeferredWins`, `Reconciled` | `reconcileMirrorFromLive` |
| `TakeoverGates ... TakeoverReconciles` | `runHumanReplyTakeover`: ask Chatwoot, ask the row, claim it, toggle, read back, reconcile |
| `TakeoverStrands`, `TakeoverRecovers` | a death half way, and `recoverStrandedTakeover` |
| `Clicks...` | the console: read, write, read after, mirror |

`AgreesWhenQuiet`: once nothing is in transit and nobody is at work, the row says what
Chatwoot says. It excludes what no version places (`unplaced`: the console's blind
writes, a toggle whose answer was lost, a recovery that finishes a takeover without a
claim). Assumptions, each named in the code:

- the instance sends versions (Chatwoot 4.0.2 on);
- a person's own write is not in the very second of a customer's message (a message
  carries whole seconds only: the limit `state-order.ts` documents);
- a payload serialized before the toggle lands within the claim's 45 seconds
  (`ClaimExpires` waits for it); `status-claim.ts:174` argues for it, and
  `status-claim.ts:214` is what a later one would meet: the claim has lapsed and the
  payload reopens the conversation;
- under the live claim no resolve lands that was frozen before the colleague's reply,
  in a payload or in a read the console holds (`Stragglers = FALSE`, `Straggles`);
- a recovery (`recover-takeover.ts:281-288`) that finishes a takeover whose process died
  before the reconcile cannot see that an attendant handed the conversation back
  inside the claim's window, and opens it again; and with no claim over it, nothing
  refuses the message that shares its second. Such a history is excluded from
  `TakenOverStaysQuiet` and from `AgreesWhenQuiet` (`unplaced` in `TakeoverRecovers`).

`ClaimsUnderNoClick` is about the claim: between the fence and the claim, or while the
takeover lay stranded, a person may have clicked, and the claim compares the mark with what
the fence saw. It does not speak of the recovery that finishes, which asks neither: a return
that is marked (`mirrorConsoleWrite`) and has not reached the row yet leaves the row open
under the pending claim, the shape that branch is selected by, and the branch toggles the
conversation open over it. The comment at `recover-takeover.ts:310` holds that a mark met
there can only be an operator who opened the conversation. The model has the window; no
property is stated over it.

## Memory

`Memory.tla` is one contact's thread, its summaries and its generation: the compaction
job, the turns and appends beside it, and the memory step of `/reset`.

| model | code |
|---|---|
| `body`, `head`, `stampOf` | the channel: raw messages with their attendance, the rendered head |
| `gen`, `marker` | the `agent_threads` row by identity, and its last conversation |
| `summaries` | `attendance_summaries`, each with what it covers |
| `compaction`, `pass` | the COMPACTION row and the run: load, drain, cut, summarise, commit, enter, rewrite |
| `clearing` | `/reset`: rows deleted in an open transaction, checkpoint deleted on another connection, commit, cancel |

A summary is committed before the rewrite that takes the raw messages out, and
between the two anything may happen: the rewrite is deferred behind a turn, its
process dies, a turn saves the old channel back. The row then stands for messages
that are still there, and `OwedUpTo` is how the next run notices. `SummarizedOnce`
asks that it always does.

- **It does not with two conversations** (`memory_twice`, a finding): when the next
  natural cut is shorter than the owed prefix, the debt is not recognised and the same
  messages are summarised again. With one conversation the property holds (`ends`, and
  `SummarizedOnceAlone` for every instance).
- `ClosedIsCompacted` is stated for one conversation: the job keeps one payload per
  thread, so of two the earlier may stay raw until the next boundary.
- The `ingest:` queue the commit and `/reset` share is of one process
  (`compact.ts:590` speaks of "the SAME lock /reset takes"). With `/reset` on a replica a
  commit between its delete and its commit would survive; the instances keep both on
  one process. A turn on a replica that joins between the rewrite's question and its
  write undoes the rewrite; that one is in the runs and the owed logic repairs it.

## FollowUp

`FollowUp.tla` is one conversation's inactivity ladder: the sweep that arms step 1, the
FOLLOWUP row that carries the ladder from step to step, the nudge with its model call,
probes and retries, and `/reset`, which retires the row and wipes the conversation
while a step may be anywhere. The lane runs a batch side by side (`worker.ts:338-369`), so
the sweep looks and arms at any point of a nudge. `run.current` is "the claim number is still mine";
`sends` counts messages by ladder, step and by what the step had read.

- **A reply under a model call** (`followups`, a finding): the webhook cancels PENDING
  rows only, nothing in the nudge reads the inbound stamp again, and the stamp written
  at the end is later than the reply: the ladder goes on under a customer who has
  spoken.
- Whether a run is still wanted is asked at every step, and a row that cannot be read
  counts as wanted (`scheduler/service.ts:473-499`): only the question in the thread's
  section is strict. A retired run may therefore get to the send, and past it.
- `ClearedStaysClear` excepts what the command did not reach (`escaped`). `"row"`: a run the
  sweep arms between the retirement and the clearing (`webhook.ts` says so), and one whose
  claimed row the sweep made PENDING again and a reply then cancelled, DONE without a
  tombstone, so that the retirement does not reach it. `"labels"`, which excuses the labels
  only: the nudge's last question could not read the row, or it was answered before a
  command on a web replica peeled. The label queue is one process's (`labels.ts:30`,
  `locks.ts:20-27`), so nothing holds such a peel back until the nudge has set.
- `StepOnce` allows one repetition per handler that died after sending and per `/reset`. A
  claim is not reaped under a nudge that is only slow: the reaper of FOLLOWUP rows is
  `runSchedulerTick` itself, whose next tick does not start while the nudge runs
  (`worker.ts:408-423`); the other reapers take their own kinds only (`memory/worker.ts:95`,
  `ingest-drain.ts:72`), and a second process with the scheduler on is excluded by
  `docs/deploy.md`. `Returns` therefore needs the handler to be gone.
- That a nudge caught by a `/reset` is neither sent nor kept in the thread is not stated.
- Two losses no property states, because nothing promises otherwise: the sweep
  re-arms a pending retry with a fresh payload, so a first step that keeps failing is
  tried without limit (`handlers.ts:299-310`); and it re-arms a claimed row, so the
  reschedule to the next step is dropped and the ladder waits for the next sweep (`:672`).

## Outbox

`Outbox.tla` is a tenant's two outgoing buses. Domain code writes a PENDING row in its
own transaction; a worker's tick reaps stale claims, claims what is due, posts outside
any transaction and records the outcome by row id; a webhook's death raises an error
line, and a line becomes an alert or one more in the count of a pending one.

- `DeliveredStays` is stated without deletions. With one, a finalize that throws rejects
  the batch and drops the running flag (`worker.ts:81-98`) while the other posts are in
  flight; the next tick reaps and claims rows a handler still holds, the receiver is
  called twice, and the late outcome turns a DELIVERED row back. `worker.ts:22-25`
  relies on the flag. The instance `deleted` keeps those steps for `CountIsTold`.
- `EveryRowEnds` is until the subscription is switched off: its rows then wait.

## Grants

`Grants.tla` is the stored verdict of contact authorization: checks of one contact that
overlap, the contact's queue of mutations, the row, and what the process remembers of
refusals and of writes it could not confirm. `ServedIsCurrent`: a verdict that is reused
was asked after every refusal known when the read began, and under a credential no older
than the one the check read. `known` is of one process and lost on restart (the grant's
expiry bounds what that costs); expiry, eviction and the sibling table of Z-PRO are left out.

## Spend

`Spend.tla` is the poll that keeps a month's spend on one row: overlapping polls, answers
in any order, failures, credentials rotated or moved to another project, every write
under the month's lock with the credential read again. `FigureIsTheMonth`: the row is the
sum over projects of the most any landed answer read. Returning to a project the month has
left counts it twice by design (`docs/spend-ceiling.md`) and is excluded. Arming and
disarming of the poll's job is not modelled: two people who save the ceiling at once may
leave it enabled with no job (`arm.ts:67` reads before the other commits).

## Notices

`Notices.tla` is the sequence a refused conversation goes through: tell the customer, hand
off, note for the operator, each notice once per window. `ToldBeforeHandedOff` is stated
for the spend ceiling, whose deliveries are coalesced and queued (`notice.ts:87`); the
contact-authorization gate (`webhook.ts:3990-4042`) has no queue, so a second denied
delivery may hand off while the first one's copy is being sent. The windows' cap and
their loss at a restart, after which a notice repeats, are left out.

## Primitives

`KeyedQueue.tla` is `withKeyedLock`/`withKeyedQueue` of `lib/locks.ts`: a promise chain per
key whose entry is dropped by the last link only. `Semaphore.tla` is `lib/semaphore.ts`.
Both are shown to implement `Admission`: work on a key is admitted in the order it was
asked for, never more of it at once than there are permits.

## Runs

Bounds are CONSTANTS named `Max...`; a run gives the smallest instance in which
the question it asks can go wrong, found by breaking the code's guard and
checking that the run notices. Deadlock is not checked: the bounded instances
come to rest once their armings, turns and faults are spent.

| run | instances | shows |
|---|---|---|
| `scheduler_ledger` | an ingestion, a reminder and a follow-up on the shared lane and the barrier (2 armings; 1 booking or cancel and 1 fault, or 2 without) | one run holds a row and carries its work; `Scheduler` implements `WorkLedger`; called off stays called off; no death is reported after its row was taken back |
| `settles` | `Debounce` (1 process, 2 messages, a click, 2 of a fault and the changes people make: of owner, of the agent, a `/reset`) and `Outbox`, both fair; 4 callers on 2 keys; 4 callers for 2 permits | every message is in the end below a mark, dead-lettered, left to the sweep or lapsed; every outgoing row ends; both primitives implement `Admission` |
| `threads` | `ThreadClaim` on 2 processes: a flush turn, a direct turn, an append and a `/reset` with 1 fault; without the direct turn with 2 | appends and invokes exclude each other; remembered messages stay but for a `/reset` that failed half way, cleared ones do not return |
| `bursts` | `Debounce` with leader and replica, 2 messages, a click, and one of a fault, an arm that throws, a stall, a change people make; the same in one process with a fault and 2 changes; `DeliveryLedger` with 2 messages and a crash or a failed call (`OneDeath`), and with 1 message repeated over 2 processes; `ThreadClaim` with 2 turns in a process and a stall | one reply per last message; in one process a message is part of one reply; no message is dropped quietly, by the flush or by the ledger; a late release ends no other hold |
| `ledger_routes` | `DeliveryLedger`, 1 message on both routes, bindings moving, 1 fault, fair | a closed row of the responder's was answered, decided or announced; an observer's row closes only with its memory, or with an attempt that found the observer off or no thread; a reported loss gets its closing line; every row ends |
| `services` | `Outbox` (a webhook and an alert of 2 errors; 2 webhooks and a deletion), `FollowUp` (2 steps, 2 messages, a death or a `/reset`), `Grants` (2 checks, 1 rotation, 1 fault; 3 checks), `Spend` (2 polls, 3 credentials, 2 projects), `Notices` (3 deliveries of 2 refusals, with and without a queue), `Mirror` (3 states, a click and a failure or death; 4 states, no click) | the safety properties of these modules |
| `ends` | `Memory` (1 conversation, 3 messages, resolved twice, with a `/reset` and 1 fault, and with 2 faults; 2 conversations, 2 messages, a resolve and a `/reset`; 1 process, fair); a debounce job with fair ticks; a reminder with bookings and cancels; a turn and an append on 2 processes, fair | no message is lost to a rewrite, nothing cleared comes back, an attendance is summarised once; a closed conversation is compacted; owed jobs, announcements and messages settle; a tombstone leaves with new work only |
| `claim_epoch` | 2 processes, 2 turns, 1 stall, a `/reset` | *violated*: the epoch starts over after `/reset` |
| `debounce_overlap` | leader and web replica, no fault | *violated*: overlapping bursts are both answered |
| `ledger_detached` | both routes, the observer detached in transit | *violated*: a message is dropped quietly |
| `memory_twice` | 2 conversations, a deferred rewrite | *violated*: an attendance is summarised twice |
| `followups` | 2 steps, a reply under the model call | *violated*: the ladder goes on after a reply |

Why the bounds are enough. Two processes: the code distinguishes "this process" from
"another" and nothing else. Two turns make one hold joined or superseded by another. One
fault puts a crash, throw or lost write at every point of every other behaviour. For the
scheduler, two attempts separate a retry from a death, two armings a re-arm under a claim,
three a death taken back and lost again. Two messages give `Debounce` a burst that grows,
a supersede and two bursts that overlap. Three or four states of the source give `Mirror`
a reply, the takeover's own transition and somebody's answer to it, in every order of
arrival; a longer history, and a click in it, are the proof's. Where a bound keeps two
mishaps apart (a death and a `/reset` of `FollowUp`, a crash and a failed call of
`DeliveryLedger`, a second booking and a fault of `Scheduler`), the proofs have them
together. Three messages give `Memory` a prefix that is folded, one that arrives under the
model call and one after. Two checks of one contact are an allow overtaken by a refusal;
the third, a delete queued behind both. Two polls and three credentials are a rotation
within a project and a move to another.

Symmetry is used where processes are interchangeable (`threads`; its properties are
invariants).

Fairness. Ticks are intervals, so a tick that is not running starts; statements return;
time passes; a handler or turn takes its next step while its process lives; leases run
out; a due job is claimed (strongly fair where a deferral puts it off each time). In
`Scheduler` the return of handlers is an assumption of its own (`HandlerFairness`), because
without it nothing holds: a handler that never returns keeps its tick from ending, and the
reaper of its lane runs at the start of a tick (`worker.ts:363`), so a hung claim is not
reaped although comments say it is. Crashes, throws, stalls, messages, clicks, resets and
operators' changes are never fair.

Disagreements between the code and what it says, each a run that TLC finds violated:

- **The epoch starts over after `/reset`** (`claim_epoch`). It lives in the row
  the command deletes. A turn stalled past its lease, with a clear accepted by
  another process in between, then releases the hold of the turn that followed.
- **Overlapping bursts are both answered** (`debounce_overlap`). The claim compares
  the last message of two bursts and nothing else. A flush on the leader and a click
  on a web replica do not see each other's hold: the flush claims message 1, the
  click fetches 1 and 2 before the reply is in the page, and both post.
- **A detached observer marks a message nobody answers** (`ledger_detached`).
- **An owed rewrite is not recognised** (`memory_twice`).
- **A ladder outlives the customer's silence** (`followups`).

Met and without a run of their own: a late arm forgets the newer message (the payload
keeps the newest id across a PENDING row only; when message 1 arms after message 2's
flush was claimed and that flush ends without an answer, an exit that consumes the burst
leaves 2 above every mark; `Debounce` is run with `Ordered = TRUE`, deliveries arming in
order). The divider of a new conversation may be overwritten by a turn of another replica
(the code's own estimate of the cost is one hint in one prompt). A lease leaked by a lost
release is kept alive by every turn that joins it (`thread-claim.ts:143`).
With a resolve, a customer's message, the colleague's reply and a customer's message again, a
resolve frozen before the reply that lands under the live claim is taken for the takeover's
own echo, and the row is handed back (`status-claim.ts:214`; `Stragglers = TRUE`, or a
console read held that long).
`prisma/schema.prisma` (826), `debounce/handler.ts` (423) and `watermark.ts` (73) say the reply
claim is released when a turn throws; `graph/runtime.ts` (567) says it is never given back,
and that is what the code does and `Throws` models. A recovery that finishes a takeover
toggles over a return that is marked and not yet mirrored (under [Mirror](#mirror)).

## Proofs

Every theorem is for all values of the constants that the module's
`ConstantsAssumption` admits: any number of processes, messages, turns, faults and
stalls. Where a theorem has a hypothesis of its own it is named here with the reason.
The invariants were checked by TLC on the instances of the runs before they were proved.

`SchedulerProofs` (`IInvHolds`, `WInvHolds`, `DInvHolds`):

- `OneHolder`, `HolderCurrent`: at most one run can still write a row, and it carries the
  row's work. `AtMostOneHolder` is not inductive: nothing in it stops a new claim from
  reusing a token. `IInv` adds that two runs of one row never carry the same token and no
  run's token lies in its row's future. `StepEvolves` shows once for all statements how a
  row may change (an id never goes back, a token never goes back within an id, a row still
  claimed under the same token keeps its work), `StepFollows` that a run after a step was
  there before or comes from a claim of that step.
- `CalledOffStays`: `WInv` adds that the row of a run that was called off has been claimed
  since or is a tombstone that no booking is about to take away.
- `TombstoneLeaves`: an action property, from the same invariant.
- `QueueImplementsLedger`: the refinement of `WorkLedger`, one lemma per statement.
- `OnlyStanding`: `DInv` follows a death from the reaper or run that recorded it to its
  line; what takes the row back in between takes the debt with it.

`DebounceProofs` (`IInvHolds`, `PlaceInvHolds`):

- `OneReplyPerTarget`. `TargetsOnce` speaks of what was posted and knows nothing of a run
  between its claim and its send. `IInv` adds that what is being sent and what was sent lies
  at or below `replied`, and that two runs about to send have different targets. Every step
  but a claim and a post is quiet (`OthersAreQuiet`); a claim is taken strictly above
  `replied`.
- `NoneDropped`, for deliveries that arm in order (`Ordered`): `AccountedFor`. Without the
  hypothesis it is false (the late arm under "Met" above). A burst that lapsed because nobody
  was there, or by a `/reset`, is in the statement, and only a change people make puts one
  there. `PlaceInv` says where a message is: deliveries end in order unless they die, so an arm's burst reaches every message
  before it; the flush that holds the row knows how far the burst reaches.
- `OneReplyAlone`: `AnsweredOnce`, for one process, every message debounced and no deadline
  outlasted; with a replica it is false (`debounce_overlap`). The hold lets one turn in at a
  time, and what a turn starts after (the floor of a flush, the newest reply on a click's
  page) is read once it is in: no reply is posted between that and its own, so `AloneInv`
  keeps every turn, and every reply, past the replies before it. `OneReplyInOneProcess` says
  it of the run, `OnceInOneProcess`.
- `BurstRowsTell` and `LateReleasesTellApart` say of the run `bursts` what `ClosedRowsTell` and
  `ReleasesTheirOwnThroughAStall` say of a component: `NoQuietLoss` and
  `ReleaseEndsItsOwnOccupancy`.

`ThreadClaimProofs` (`ExclusionInvariant`):

- `AppendsExcluded`, `RememberedStays`, `ClearedStays`, each while `slow = 0`, that is until a
  holder stalls past its own lease: an invoke whose renewals fail is not stopped before it
  saves (`thread-claim.ts:81-86` renews for that reason), so this is where the promise ends.
  A `/reset` between its delete and its commit holds the row, so nobody claims, stamps,
  records or releases meanwhile; what it took from the channel is `torn` until one commits.
- `ReleasesTheirOwn`, for `MaxSlow = 0`, and `ReleasesTheirOwnThroughAStall`, for one stall
  and no `/reset`. A stall lets a lease lapse under its holders, so `OwnInv` has two halves:
  either every holder is still counted by the row's occupancy, or (`Epochs`) the row has
  seen a second epoch and everybody at work remembers which of the two is theirs. Beyond,
  it is false: after a `/reset` the epoch starts over (`claim_epoch`), and with two stalls it
  does so without one. An append creates the row and throws, its write lease lapses; a turn
  claims epoch 1 and throws, its lease lapses; a turn claims epoch 2 and releases; the
  append's late release finds a row that holds nothing and deletes it; the next turn claims
  epoch 1 again, and the first turn's late release takes that hold.

The argument: turns that hold the thread are all of the row's occupancy and are counted
by it, an append at work holds the write claim alone, what is remembered is also in what
each invoke read, and nothing cleared is on its way back. The queues and Maps of the
processes appear in the types only: the leases carry the safety.

`DeliveryLedgerProofs` (`IInvHolds`, `TruthInv`):

- `ObserversRemember`: a role is said once; a webhook claims a row that says none and a
  replay one whose role it has read, so an attempt at work has the role of its row, and an
  observer's attempt closes only by way of its ingestion, which remembers or is in `unread`.
- `ReportsAnswered`: a reported row that no cut excuses is DEAD, has its closing line, or is
  in the hands of its replay, which still has to judge what it did.
- `ClosedRowsTell`, under `RoutesStay` (`ledger_detached` is the counterexample beyond it). A
  row says what it says only if everything that may still close it does, so `TruthInv` says it
  of a turn or gate that settles (its message has a fate), of an attempt that closes after
  arming (the flush still reaches the message), and of the mark, which a flush takes for
  handled: below it every message has a fate. Where nothing waits for a flush the mark owes
  nobody anything, and the routes may move. `Persists` is what each step leaves true of
  every message; all but the mark, the flush and the moves of a binding follow from it alone.

`MemoryProofs` (`IInvHolds`):

- `RememberedHolds`. What could lose a message is a rewrite, and a run folds what an earlier
  summary may already stand for. The invariant says that wherever the end of a summary
  stands raw (in the thread, in a channel a turn loaded, in a fold), all that stands before
  it is safe; with it, that no message stands twice, that an open `/reset` keeps turns and
  appends out, and that a head carries the id of a safe message.
- `SummarizedOnceAlone`, for a contact with one conversation (beyond it `memory_twice` is
  the counterexample): what an older summary covers is nowhere raw, what the newest covers
  is raw only together with its end, which is what the next cut compares, and what a run
  set out to describe no summary covers.
- `ClearedStaysOut`, for `ResetAt = "leader"`: a `/reset` on a replica has no part in the
  section the commit runs in, so a summary written between its delete and its commit
  would survive (the limit stated under `Memory`).
- `RemindersStayCalledOff`: `CalledOffStays` of the run `ends`.

`KeyedQueueProofs` (`IInvHolds`): `KeyedQueueImplementsAdmission`, the whole refinement, and
`NoEntryLeaks`. The chain of a key is a linked list that exists only in what each caller
awaits; the invariant says that it is one chain by ticket, the entry is the newest, and
nobody but the oldest runs. An entry is there exactly while somebody runs or waits.

For the semaphore (`PermitInv`): `PermitsStay`, and `SemaphoreImplementsAdmission` for any
finite set of callers; `PermitsGoInOrder` says it of the run, `PermitsInOrder`. Nobody waits
while a permit is available, and the queue is what waits, each call once and oldest ticket
first, so the call a permit is handed to is the next.

`OutboxProofs` (`IInvHolds`): `AlertsSayHowMany` and `NothingUndoesADelivery`, per bus of which
nothing was deleted (`Calm`). The invariant is that what is in flight is the one claim its
tick awaits, of a row still SENDING, with the count the post carries; a row is therefore
settled by whoever posted it. The hypothesis is where that ends: a write that finds its row
gone ends the tick with the rest of the batch still in flight (under `Outbox` above).
`AlertsSayHowMany` needs it for the alerts alone, which no subscription's deletion reaches.

`ServicesProofs`, the properties of the run `services`, one invariant per module:

- `AlertsSaidHowMany`, `DeliveriesAreOver`: from `OutboxProofs`.
- `ReusedVerdictsAreCurrent` (`Grants`): while nothing is unconfirmed the row, and the store
  under way, are newer than every refusal; a refusal breaks that only by marking the contact
  unconfirmed in the same step, and the mark goes only with a delete that landed.
- `OneWindowOfEachNotice`, `CopyThenHandoff` (`Notices`): a delivery that says a notice holds
  the window it opened and has not given back, and two of them would hold the same one; the
  line keeps the order of the tickets, so the copy of a refusal is said or given up before
  a later delivery hands off.
- `FigureFollowsTheMonth`, `HealthFollowsTheNewestPoll` (`Spend`): the row under the lock is
  what the landed answers make it, and a write still to come was computed from a read of
  credentials that it reads again.
- `ResetStaysWiped`, `LadderStepOnce` (`FollowUp`): a run that a `/reset` has not reached is
  pending in the row the retirement takes or is in `escaped`; a label set that a retired run
  still makes was asked about too early or in vain, and is in `escaped` as well. A step's
  sends are within what the deaths and resets so far have paid for, counting the run that
  is about to send: one behind the strict question may be retired and still send, and the
  `/reset` that retired it has paid (`Late`).
- `MirrorAgrees`, `MirrorStaysTaken`, `ClicksOutrankClaims` (`Mirror`, from `MInvHolds`), for any
  history of the source, any number of clicks and mishaps, with `Stragglers = FALSE`. None of
  the three is inductive. `StatusIsComing` and `HolderIsComing` say where the last change can
  still be: applied, on its way as an event, or (a status) refused by the live claim, which
  keeps the highest version it refused and settles with it in `DeferredWins`.
  `StatusIsPlaced` and `HolderIsPlaced` say that the row is what the source was at the
  version it is stamped with, but for a claim that runs ahead. `ReopeningsHeld` is what a
  message needs, whole seconds being all it is compared by: one in whose second the takeover
  opened the conversation lands under the claim only. Under a live claim the row turns
  pending by a version past the takeover's own transition, which was open, so the source
  itself went back in between (`ReturnsAreSteps`). The third rests on what a takeover about to claim
  saw: a mark the fence had judged. Once `unplaced`, only the types, the bounds and that
  are kept.

Only model-checked, and why: liveness (`OwedSettles`, `EverySettles`, `ClosedEnds`,
`EveryRowEnds`), since fairness and ENABLED are out of the prover's reach.

## Limits

Not modelled in what is modelled: batch shares and ordering of claims (a tick claims
any subset of due rows up to its size), payload contents, the filters that narrow which
rows a retirement reaches; in the thread, the rollback of a refused turn, the
reservations of a delivery recovery, and the conversation-keyed thread that has no row;
in `Debounce`, the cap of a burst, the clock of a deferral (`MaxSlow` bounds how often a
flush waits out a busy thread), the observer hand-over, and the click's extra filter
when authorization is on; in `DeliveryLedger`, events that are not customer messages,
the commands and the media pipeline; in `Mirror`, instances without versions, the
contact's fields, SLA fields and the pairing of a redirect; in `FollowUp`, the Z-PRO
step (which has no retire fence), the authorization gate and the cadence's clock.

Not modelled at all:

- the observer's verdict job, a debounced job with a prompt behind it, whose route is in
  `DeliveryLedger`;
- components with no protocol of their own (agents and console services, tools, documents,
  MCP, media, speech, vault, prompts, inbound webhooks, the HTTP API and the client, which
  is more than half of the repository's lines), and tenancy, which Postgres policies
  enforce.
