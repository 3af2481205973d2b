# Responder in TLA+

Responder is a single Go process that investigates alerts and answers people in
Slack, with all its durable state in one SQLite database. What makes it correct
is the order in which short transactions, Slack calls, model turns and restarts
may follow each other. This directory holds a model of that order: modules for
its core components, TLC configurations that check them on small instances, and
proofs, checked by TLAPS, that the safety of eight of them holds for every
instance. `PROJECT.json` maps every definition to the lines it was translated
from; source paths below are relative to `internal/`.

To check a run, or the proofs:

    tlc -config MCSlackOutboxAnswers.cfg MCSlackOutbox.tla
    tlapm SchedulesProofs.tla

## The system

Everything durable is a table; everything that happens is a handler run by the
**scheduler**, or a call that arrives from Slack, a webhook, or the console and
inserts rows. A store method is one SQLite transaction, so one atomic step.
Between two of them a worker may call Slack or Coop, be overtaken by another
worker, or die.

    webhooks, Slack events, console          Coop (model sessions)
                 |                                   ^  |
                 v                                   |  v
      slack_inputs, webhook_events  -->  episodes, agent_runs  -->  slack_deliveries --> Slack
                 \_____________________ all driven by work_items ____________________/

| Component | State | Operations | What is hard | What makes it correct |
| --- | --- | --- | --- | --- |
| Durable scheduler (`store/work.go`, `service/scheduler.go`) | `work_items`, one row per (kind, subject); the worker goroutines | enqueue, ensure, lease (and reclaim), complete, defer, retry, recover, seed | leases that expire under a running handler, store calls that come late, requests made while their handler runs, restarts | one handler per item and conversation; no request lost; drains for ever; stale workers change nothing |
| Slack outbox (`store/delivery.go`, `store/deliveryretrystore`, `service/workers.go`) | `slack_deliveries`; two drains, one that sends and one that looks lost writes up | enqueue with coalescing, lease, call, record, search, settle, cancel, retry by hand | a call Slack carried out but did not confirm; a restart in the middle; retries overtaking newer writes; parts of an answer | no post sent twice, and no chart but for four named writes; parts in order, the ledger true, the newest intent shown, everything settled in the end |
| Preparation notices (`preparationnotice`, `store/preparationstore`, `slackdismiss`) | the rows of one coalesce key | plan, enqueue, retire, dismiss, and the outbox's own steps | a notice is posted, changed and removed while earlier steps are uncertain | one notice; what is retired goes away and stays away |
| Agent runs (`store/agent_run.go`, `service/agent_run.go`, `store/attemptstore`) | `agent_runs`, episode attempts | queue, lease, begin, bind, submit, poll, stage, finalize, finish, defer, retry, requeue, supersede, cancel, nudge | a turn that Coop has accepted and the process forgot; finishing against cancelling; a newer attempt of the episode | one live turn per conversation; a finished turn applied once; run, attempt and episode agree |
| Episodes and wakeups (`episode`, `store/episode_kernel.go`, `store/work_episode.go`) | the event log of each episode and its projection | append an event and reduce it, reopen, wait, wake up, recheck | revision conflicts, terminal states, a wakeup against an answer | a closed episode changes only by reopening; no run executes under a closed one |
| Incidents and webhooks (`store/store.go`, `incidentprovision`, `webhook`) | `webhook_events`, `signals`, `incidents` | admit, apply, correlate, provision, resolve, close | duplicates, a capacity reached half way, signals that move between incidents | each event applied once; an incident's status follows its signals |
| Slack inputs (`service/input.go`, `service/socket.go`, `store/slackinputstore`) | `slack_inputs` | admit, lease, freeze, finish, retry, recover, catch up after a start | redelivery, reconnects, stale workers, order within a channel | each input handled once, with the first decision |
| Coop sessions (`sessioncreate`, `sessionretirement`, `coop`) | session ids, create generations | create by key, reject, retire | a create whose answer was lost | no two sessions for one lane |
| Publications (`service/publication.go`, `store/publication*store`, `publisher`) | `publications`, follow-ups | review, push, open, follow, recover | a push that happened and was not recorded | one pull request per publication |
| Emisar approvals (`store/approvalstore`, `service/emisar_approval.go`) | `emisar_approvals` | record, bind, advance, continue | a decision against expiry, repeated continuations | one continuation, after a terminal status |
| Schedules (`store/schedulestore`, `service/schedule.go`) | `scheduled_tasks`, their runs | claim, link, complete | overlap, missed times, restarts | an occurrence runs at most once and never beside another |
| Replay control (`store/replaycancelstore`, `service/replay_control.go`) | tombstones over the tables above | cancel | deliveries in flight | nothing of a cancelled replay is sent |
| Grants and remediation (`store/grantstore`, `remediation`, `service/remediation_grant.go`) | `remediation_grants` | offer, confirm, demote | evidence recounted while an operator presses and a run fails | a rung is climbed only by a press on evidence, one at a time, unless two writes of the grant overlap |
| Capacity, fan-out, standing rules, memory, alert streams, task cards, retention | a table each | read and update single rows | little beyond what the scheduler serialises, but for the fan-out's last step | - |
| Slack client, Coop client, repository mirrors, console, schema, evaluation, prompts | external I/O, text, start-up | - | - | - |

They interact in four ways: a transaction of one component inserts rows of
another (a finished run enqueues deliveries, an accepted turn retires a
notice); the scheduler runs their handlers and decides which may overlap; a
restart runs `RecoverInterrupted` over all tables before any worker starts; and
Slack and Coop answer, late or never. `PROJECT.json` lists the hazards line by
line with the properties that cover them, or the reason none does yet.

## The modules

| Module | What it is |
| --- | --- |
| `WorkQueue` | the durable scheduler |
| `ConversationJobs` | what the scheduler promises: an abstract specification without rows, leases, tokens or clocks |
| `SlackOutbox` | the delivery ledger, the sender, the finder and Slack |
| `PreparationNotices` | one episode's notices on top of the same ledger rules |
| `AgentRuns` | agent runs, their attempts and episodes, the incident's active turn, and Coop's turns |
| `Publications` | a task's publications: review, push, pull request, follow-up |
| `SlackInputs`, `Schedules` | the inputs of one channel, and the scheduled tasks that admit inputs of their own |
| `Incidents` | webhooks, signals, incidents, their rooms and sessions |
| `Approvals` | Emisar approvals from a finalizer's record to the verifying turn, and the grant they earn |
| `MC*` | their small instances |
| `*Proofs` | the theorems, one module for each proved component |

### WorkQueue

`row[i]` is the `work_items` row of an item, `worker[w]` what a goroutine is
doing, and `owed[i]` a history variable: somebody asked for the item, and no
handler that began later has ended well. Actions and code:

| Action | Code |
| --- | --- |
| `Enqueue`, `Ensure` | `EnqueueWork`, `EnsureWork` |
| `Start` | `LeaseWork`, with its reclaim of expired leases, and the start of the handler. Both are one transaction: when nothing can be leased, the reclaim is rolled back too |
| `Return` | the handler returns: nil, `ErrNotFound`, a deferral or an error |
| `Finish` | `CompleteWork`, `DeferWork` or `RetryWork` as `handleScheduledWork` chooses, each guarded by the lease token |
| `Restart` | `RecoverWorkLeases`, then `seedScheduledWork`, before `startScheduler` |
| `Tick` | a unit of time |

Times are countdowns (0 is due or expired), so the state space is finite and
nothing is lost but how long ago something was due; the code leases equally
urgent rows oldest first, the model any of them. A handler honours its
context's deadline, `worker_stall_after`, and `config.go` rejects a lease that
does not outlive it; the *store call after* the handler may come arbitrarily
late. A token is drawn for one lease from 128 random bits and is named here by
the worker that holds it, which has at most one.

### SlackOutbox

`ledger[d]` is a row of `slack_deliveries` (`"absent"` before it is enqueued),
`sender` and `finder` the two drains, `slack.copies[d]` how often Slack took a
post or file, `slack.shows[k]` which delivery a card, status line or reaction
shows. `overtaken` are inputs a newer human turn has overtaken, `cancelled` the
rows a cancelled replay found, `blind` and `hushed` the charts that the writes named below put back or
gave up.

| Action | Code |
| --- | --- |
| `Enqueue` | `EnqueueSlackDelivery`: card versions, coalescing, status generations |
| `Lease`, `Check`, `Call`, `Record` | `processSlackDelivery`: `LeaseSlackDelivery` with its fences; the checks before the call, which may give a row up; the call, which Slack may carry out or not whatever the answer; `FinishSlackDelivery` or `RetrySlackDelivery` |
| `Announce` | `enqueueGeneratedVisualFailure` |
| `Search`, `Settle` | `reconcileSlackDelivery` |
| `Elapse` | a retry's backoff ends |
| `Overtake`, `CancelReplay`, `RetryVisual` | a newer human turn, `CancelSlackReplay`, `RetryLatestGeneratedVisual` |
| `Restart` | `RecoverInterrupted`, and `RetryFailedWork` by an operator while the service is down |

That the sender and the finder are one worker each is `ExclusiveConversation`
of the scheduler: each is one item. Slack decides on a call before its history
is searched for it, file names are unique, and the channels that cool are any.
Copies saturate at two, failures at `MaxAttempts`.

Charts go through the code's own branches. A chart may be illegible (its body
cannot be decoded); a refusal (a missing scope, a revoked token) that a search
met stays in the row (`barred`, the code's `last_error`), so that the next look
gives the chart up without searching. Four writes put a chart back or give it up
without looking whether Slack has it (`blind`): the recovery of an interrupted
upload, a refused upload, that refused search and an unwritable conversation.
What they touch may be uploaded twice once it is asked for again; `PostedOnce`
says that nothing else is. Some ways of giving a chart up announce nothing
(`hushed`): an unwritable conversation, an undecodable file found by the finder,
and a notice that is lost with the process or cannot be stored. A notice has one
id for its chart, so a chart that was announced and fails once more is not
announced again; `ChartFailureAnnounced` says that it was announced.

### PreparationNotices

The rows of one coalesce key in rowid order. A blocker is written in two steps,
as in the code: `Plan` reads the ledger and builds a post or an update, `Admit`
enqueues it; a person may dismiss in between. `Accept` is the retirement written
with an accepted turn (by then the worker is done with its notice), `Dismiss` a
person's, `Lease`, `Resolve`, `Call`, `Record`, `Search`, `Settle` and `Restart`
are the outbox's, with the barriers of `LeaseBarrierSQL`.

### AgentRuns

`db` is one incident's `agent_runs`, the attempts and `work_episodes` behind
them and the incident's active turn; the actors are the preparers, the poller
and the finalizers, which finish a run in three transactions (`Tell`,
`SettleEpisode`, `Close`). A run is queued, coalesced or leased (`Queue`,
`Coalesce`, `Lease`, `Recover`), prepared (`Admit`, `Submit`, `Wait`, `Mark`,
`PrepareWaits`, `PrepareFails`, `Expire`), polled, finalized, or ended by a person or the
lifecycle sweep (`RetryFailed`, `CancelReplay`, `Age`, `Sweep`); `ReadSession`
and `UpdateCoopState` are the session poll's read and its late write. `shut` says
that the incident leases no run: it has no session yet, or its workflow is
closed or blocked; `SetWorkflow` is what the rest of the incident's life makes of
it, at any moment. Approximated: every replay that `runreplay.Decide` allows
counts as an attempt; a preparer's job context ends before its lease is
recovered; a card *may* be folded into an answer of its episode, while the code
also compares marker, counts and the time of posting (`alert_stream_reply.go`
352-382); an old poll may write any workflow and either way.

### Publications

Two requests of one task's publication run side by side: hand-offs of finished
turns, presses of the Slack button, the console. A request claims, reviews,
pushes, opens the pull request, and records each answer; a call may be carried
out and its answer lost, and a restart interrupts any of them. The follow-up
reads the pull request until it is closed (merged and closed are one state).

A close is `BeginClose`, which marks the row, Coop's answer, and `CloseIncident`
or `RestoreClose`, one close at a time. Between them `PollIncident` may overwrite
the mark, as `UpdateCoopState` looks at neither workflow nor status; an attempt
may then begin, and `CloseIncident` looks at the publication again and refuses.

### SlackInputs and Schedules

`SlackInputs` is one channel's `slack_inputs`; `Schedules` extends it with the
scheduled task, its occurrences `<<task, scheduled_for, n>>` and their runs. The
two drains are singletons, the run-now button is concurrent with both. A pass of
the schedule drain reads the time once, when it begins.

### Incidents

The webhook drain applies a delivery signal by signal (`Deliver`, `Lease`,
`Apply`, `GoOn`, `Settle`); provisioning is the chain room, root message,
session, binding, each a call and a later write; `ReadSession`/`WriteState` are the
poll, `OrderClose`/`BeginClose`/`EndClose` the close, with `RestoreClose` when it
fails. `recent` says which incidents the correlation window still reaches.

### Approvals

A finalizer records the approval, posts it, binds the delivery, schedules the
monitor and moves the episode, a transaction each; the monitor polls, tells the
thread, resolves, queues the continuation and updates the card; the verifying
turn then feeds the grant's ladder through `Offer`, `Press`, `Confirm` and the
demotion's read and write. `stale` names the writers of the grant whose reading
another write has overtaken. Emisar's decision is external.

## What is checked

Every run is exhaustive for its instance.

| Run | Instance | What it shows |
| --- | --- | --- |
| `queue_conversation` | a drain and two items of one conversation; three workers (two background, one control); lease 2, stall 1 | nobody shares a conversation, no request or drain is lost, a stale worker changes nothing, and all this implements `ConversationJobs` |
| `queue_served` | two items of one conversation and one with a deadline; two workers | unrivalled items are served, and the backlog drains |
| `outbox_answers` | answers to two alerts; three revisions of a card; a card and two markers | a true ledger, over replays and retries by hand; the newest card shown |
| `outbox_visuals` | text and two charts with their failure notices | nothing sent twice and no chart given up in silence but by the writes that do not look or announce; parts in order; everything settles, but what follows a part that was given up |
| `notices` | two blockers, four rows | a retired notice is taken away and not posted again, though its post was uncertain; a notice planned later waits for that |
| `runs_cards`, `runs_messages`, `runs_incident` | two runs, two workers; with card replays and two attempts; with corrections, refusals and a revival; with one requeue of each turn, an incident shut and opened at any time, a late poll and a crash | one live turn, run and episode in step, results kept; the right outcome; runs end and the incident is freed, except what waits on a shut incident or behind a turn whose incident no longer names it |
| `publications` | two attempts, each pair of requesters | no two attempts at work on a branch, none once the task is closed or while its mark stands; a press is owned, terminal states and receipts are kept, no second pull request |
| `schedules` | one hourly task over two hours, a run-now, two failures and a restart | occurrences never overlap, what is due is recorded, work settles |
| `incidents` | three incidents' worth of alerts, room for one | applied alerts stay in an incident whose status follows them, and the limit holds but for the race named below |
| `approvals` | two approvals at different stages, up to two presses | a card says what happened; a rung is earned, or regained by a write that was overtaken; a decision is heard |

Runs have one or two of whatever interferes: two handlers, two workers of each
kind and a restart are enough for every overtaking the code allows, because each
store call names the row it changes and guards it by one token, status or
revision. Attempt limits are 1 or 2, so that the last attempt and the one before
it both occur; counters saturate one beyond the value that matters.

### Fairness

A timer fires and a goroutine runs: `Tick`, `Elapse`, returns, store calls,
Slack's answers and `Settle` are weakly fair. Leasing is strongly fair, because a
worker polls again and again while rows come and go (`Start(i)` for each item,
`Lease({})` in the outbox). Slack's history is assumed to answer conclusively if
it is searched again and again, and an accepted call to be recorded if that is
tried again and again. In `AgentRuns` a turn ends because the code cancels a
silent one (`silentTurnDeadline`); in `Incidents` the drain, the backoff and
each incident's provisioning are weakly fair; in `Approvals` each finalizer, each
monitor and the end of the grace period. Callers, failures, crashes and people
are never fair.

The lease order has no aging, so `UrgentRequestsServed` speaks of unrivalled
items only and `BacklogDrains` of the time after disturbances end. `Settles`
(incidents) leaves out the states that wait for a person: archived, blocked,
interrupted closes, full session slots. `Heard` leaves out a thread whose
episode is closed, `DeliveriesSettle` the parts behind a part that was given up,
`DueRecorded` and `WorkSettles` what follows an occurrence that cannot be
announced, and `RunsEnd` a pending run of a shut incident (`Barred`) and
whatever waits behind a turn that its incident no longer names (`Behind`). The
code leaves every one of these as it is; `RunsEnd` fails without either excuse.
In `runs_incident` preparation never fails and nothing is corrected, which the
other two instances have.

## What is proved

Each `*Proofs` module states the properties of its component as theorems of the
specification, for every value of the constants. Each proof has an inductive
invariant, `IInv`, with a lemma for each action; the properties are read off it.
None of them is inductive alone, and what has to be added says why the code is
right. The invariants were found with TLC on the runs' instances.

| Module | Assumes | Theorems (property) |
| --- | --- | --- |
| `WorkQueueProofs` | `ConfigAssumption`: the lease outlives the stall limit, which `config.go` enforces | `TypeCorrect`, `Exclusion` (`ExclusiveConversation`), `RequestsKept` (`NoLostRequest`), `DrainsKept` (`DrainsPersist`), `StaleRejection` (`StaleWorkerRejected`), `Refinement` (`ImplementsJobs`) |
| `SlackOutboxProofs` | `ConfigAssumption`, `PartsAssumption`, `KeysAssumption`: what a draft may be; for `NewestStays` also `CardsAnswered` | `Typing` (`TypeOK`), `NoDoublePost` (`PostedOnce`), `TruthfulLedger` (`LedgerTruthful`), `FailedChartAnnounced` (`ChartFailureAnnounced`), `AnswersInOrder` (`PartsInOrder`), `NewestStays` (`NewestShown`) |
| `PublicationsProofs` | the ranges of the bounds | `BranchIsExclusive`, `PressesOwned`, `EndIsFinal` (`TerminalKept`), `ReceiptsKept`, `OnePullRequest` (`NoSecondPullRequest`) |
| `ApprovalsProofs` | `ApprovalAssumption`: the ranges of plans and bounds | `CardsTell` (`CardTold`), `RungByRung` (`RungsEarned`) |
| `AgentRunsProofs` | `ConfigAssumption`: the ranges of the bounds; `None` is no request | `Typing` (`TypeOK`), `OneRunAtWork` (`OneAtATime`), `InStep` (`EpisodeInStep`), `ResultsKept` (`ResultKept`), `OutcomesRight` (`OutcomeRight`) |
| `PreparationNoticesProofs` | `ConfigAssumption`: the ranges of the bounds | `Typing` (`TypeOK`), `NothingLeft` (`NothingLeftBehind`), `RecurrencesWait` (`RecurrenceWaits`), `RetiredStays` (`RetiredNotReposted`) |
| `IncidentsProofs` | `IncidentAssumption`: the ranges of deliveries, plans and bounds | `NothingDropped` (`AlertsKept`), `StatusFollowsSignals` (`IncidentsSound`) |
| `SchedulesProofs` | `InputAssumption`, `ScheduleAssumption`: at least one attempt (`config.go` 1266); a definition begins before it expires, or `acceptOne` refuses it | `NoOverlap` (`NeverOverlaps`) |

**Scheduler.** That two handlers do not share a conversation rests on their
*rows* not both running, which rests on no lease expiring under a handler, which
rests on the token naming the worker that has the row in hand. Hence
`LeaseOutlivesHandler` (an executing worker holds its row by token, and less of
its stall limit is left than of the lease), `TokenNamesHolder`,
`OneRunningPerConversation`, `DeadlineOnlyWhereSet`, and `NoLostRequest` and
`DrainsPersist` themselves. The refinement is a lemma for each action that says
which step of `ConversationJobs`, or none, it is.

**Outbox.** The ledger can be true only because each worker's hand is: what the
sender and the finder hold says in which phase a row is, what Slack has of it,
and what the answer on its way will say. A row that may be sent again was either
never taken by Slack, or is of a kind whose repetition shows nothing new.

That answers appear in order (`OrderInv`) rests on the callers: they enqueue a
text before what follows it (`EnqueuedInOrder`), and bind the text before an
answer's last part to the input of what follows it or to none, without a
coalescing key or a response root (`PartsAssumption`). So a text is withdrawn
only for a newer human turn (`WithdrawnRightly`), which withdraws what follows
too; `InTurn` says that what the sender holds has its earlier texts sent.

That the newest card or reaction stays (`NewestInv`) rests on the one sender: a
card on its way is in its hands (`CardInHand`) and not older than what was sent
(`HandNotOld`), a newer revision ended the older ones when it was enqueued
(`OldCardsOver`), and what Slack has just accepted is shown (`AnswerShown`). `CardsAnswered`, the theorem's hypothesis, says that the drain
records what Slack answers for a card and that no person revives a card that
failed. Both are needed: a card sent again after a restart that lost the answer,
or after `RetryFailedWork`, is compared with no newer one (`NewestShown` fails
then). Updates without a version (approval states, operator choices) are not
ordered by the ledger at all and not among the cards of `NewestShown`.

**Publications.** `JobRight`: from its review to its receipt a worker holds the
publication, unless the pull request ended under it; it knows whether a pull
request was recorded, and what it pushed is its own commit. `InputRight`: a
button's row is being processed while its worker lives, and a press that claimed
is named by it and leaves nothing in progress when it is done or given up.
`RowRight` and `PressHeld` say which of the two a row of the publication belongs
to. The receipt's truth, the single pull request and the exclusive branch follow.
The mark of a close excludes an attempt only while it stands; what closes the
task excludes one because `CloseIncident` reads the publication itself.

**Approvals.** `RowRight`, `MonitorRight`: what a finalizer or a monitor has
still to do, and that the card is told last. `DemotionRight`, `PressRight`: what
was read from the grant before it is written still holds, unless another writer
wrote in between, which `stale` then says: nothing in the code refuses the
second write. Where `stale` is empty each write is one rung from what it found.

**Schedules.** That the ledger admits one active occurrence of a task at a time
(`OneActive`) does not suffice: a deletion removes the ledger's rows and not the
runs. `IInv` follows an occurrence from its first job to the end of its run
(`UnderWay`): one that is under way has an active row or its task is gone
(`OccurrenceRight`), no two of a task are (`OneUnderWay`), and what the drain
read before is still active, or its task is gone (`PassRight`). The proof
corrected the model's type invariant: a pass that began before a replacement
advances the task by the definition that was replaced, so that its next
occurrence may lie behind the expiry of the new one.

**Agent runs.** `Sound` is about the database alone: an episode holds the end of a
run only if the run ended so, the newest attempt of a closed episode is not at
work, and a run that waits to be applied has a result. Each store method is shown
`Legal` once: it keeps `Sound`, moves one run only, and moves the episode when that
run is its newest attempt; what several callers compose from it then needs no
second argument. `JobsHold` says that what a preparer or a finalizer has in hand
is leased to it or was cancelled, so that no late result revives a run that is
over, and `QueuedOnce` that a request about to be queued is not queued yet. The
proof found what the episode's property may say: "an episode that is worked has a
run" is false once a failed run was revived (last section), so `EpisodeInStep`
speaks of the step that ends the newest attempt.

`OutcomeRight` has an invariant of its own, `OInv`. `ToldRow`: a run that told the
answer of the execution it is in still has that answer, and is being applied or
over without failing; a new execution has a new key, so that what was told before
is not taken for its answer. `Lineage`: requests come in order, the newest attempt
of an episode is the last that came, and no request of the conversation lies
between two of an episode without being of it; `NextAdmitted` says why the request
being queued cannot break that. Each store method `Tells`: it keeps the run's word,
and gives up only a run that is not its episode's newest attempt, but for
`SupersedeAgentRun`, whose callers name a newer request or an answer. What excuses
a newer run excuses the older ones it was preferred to (`PassedOn`), so a chain of
requests given up for one another ends in an answer or in one that still stands.
The proof corrected the property: it said that a run is given up for an answer in
its episode or for a newer request that is not itself given up. Three cards refute
that: the first makes way for the second, which tells its answer in another episode,
is sent back and makes way for the third, which is folded into that answer. The instance of two runs
could not show it. What holds of any number is that the answer may also have been
told to the newer request.

**Notices.** Nothing says at once that a retired notice is not seen again: a post
may be queued, on its way to Slack, or there with its answer lost. `OrderRight`:
retirements are carried out in the order of the ledger and no row passes one.
`ClosedRight`: when one is carried out, the notices before it are over, so none
can still be posted. `QueueRight`: no queued post is one that a retirement covers.
`ShownRight`: what is to be seen in Slack was posted by a row whose fate is open
or that is known to be there. `SenderHolds` and `FinderHolds` tie the delivery
that is under way to its row. The newest post and the first open retirement are
chosen by number; that they exist is proved once (`Least`) from the
well-foundedness of `<` as a minimal counterexample.

**Incidents.** `Sound` is about the tables: incidents are numbered in the order
they are made, what is not made yet was never written, a signal names a known
incident, a status follows its signals, no more are open than the limit admits.
The transaction of a delivery is a recursive function over its alerts;
each alert `Continues` what the last one left, and that the function exists, and
keeps `Sound` to its end, is a least counterexample (`Least`). `DeliveryRight`
says a delivery is applied only with all its alerts kept. A close may free
room for another incident, so `Paid` (each incident that ended, or is about to,
was paid for) shows that a new one always finds a number within the instance's
bound. `CloserRight`: one incident at a time is being closed, by the closer, so a
restart frees one at most. `SessionRight`: a session is made only for an incident
that has none, and an end that was read is not undone.

Only model-checked: the liveness properties (fairness and `ENABLED` are outside
the prover's reach): `UrgentRequestsServed`, `BacklogDrains`,
`DeliveriesSettle`, `RetirementsSettle`, `Heard`, `DueRecorded`, `WorkSettles`,
`Settles`, `RunsEnd` and `IncidentFreed`. Every invariant and every action
property of the runs is a theorem.

## What is not modelled

- *Work queue*: the deadline of the drain itself; nothing else of `work.go`.
- *Outbox*: message text and blocks; the cooling of channels by name; the fence of
  an episode's destination.
- *Agent runs*: escalation, nudging, shadow capacity, branches.
- *Publications*: existing-pull-request tasks, rebinding a repository, the manual
  check, failing database writes, permissions revoked between attempts.
- *Inputs and schedules*: start-up catch-up, edits and duplicates by text, slash
  commands, calendar recurrences, proposals, external polls, the reconciliation of
  external messages (it admits an edited input by digest and reschedules itself
  until a deadline), and an operator's revival of a failed run, which would let
  two occurrences overlap as `README.md` says.
- *Incidents*: signatures and normalisation, thread-scoped work, session turns and
  generations, cards, new text under the same status, more than one close at once.
- *Approvals*: client failures, Emisar's expiry, the identity check, the change
  ledger, the card's age, the grant's expiry, several trigger classes.
- *Fan-out*: a synthesis is queued by the last branch that finishes, after its
  run is finished and in a transaction of its own; a stop between the two, a
  conflict with another run that is finalizing, or a last branch that fails while
  it is prepared leaves the lead without one.
- External I/O, text, start-up, console, evaluation, standing rules, memory.

### Where code and documents part

Met while modelling, with no run of their own; the models follow the code.

- An `UpdateCoopState` from an old read clears the incident's active turn; the
  requeue of its interrupted or refused turn then conflicts for ever, and what
  queues behind it waits with it: `RunsEnd` excuses both (`Behind`) (`store/agent_run.go` 1762-1785, 1951).
- A push carried out but not recorded makes later attempts refuse the unknown
  commit for ever; a hand-off interrupted by a restart, overtaken by a later turn,
  stays `retrying` with no owner (`taskpublication` 139-141, 187-189).
- `closeIncident` marks the row and waits for Coop (`input.go` 1655-1699) while
  the poller, another lane, rewrites the workflow (`workers.go` 865, `store.go`
  2193-2204), so a publication may begin in the middle. `validation.go` 259 says
  that "both directions of the close/publication exclusion share one owner", and
  `store/lifecycle_test.go` 369 tests them as mutually exclusive. The close is then
  refused when it is recorded, with the session already ended in Coop.
- A chart may be uploaded twice, after a restart or after a search that was
  refused (`workers.go` 496-505) or not made, though
  `docs/how-responder-works.md` 333 says "uncertain Slack uploads reconcile
  exactly once"; and one may be given up without a notice (`workers.go` 389-394
  with 426, 485-494).
- A card written but not recorded is sent again after a restart, over the newer
  revision; a progress line may be retried after its clear.
- A webhook deferred for capacity applies all its signals again; the poll and
  provisioning write the workflow of an incident closed meanwhile, which then
  counts as active; the limit of active incidents is read before the insert.
- A decision that comes between `SetWorkEpisodePhase` and `FinishAgentRun` lets the
  latter close the episode, so that no verifying turn runs; one that comes before
  the phase is set leaves the episode waiting; a stop after the continuation is
  queued and before it is marked makes the monitor refuse it for ever; a stop
  after the mark loses the demotion; confirming and demoting read and write
  without a transaction (`remediation_grant.go` 193).
- `remediation/ladder.go` 474-476 says "The earned count goes with the rung: leaving
  it would let one verified run re-promote a grant that had just failed one", and
  `ladder_test.go` 390-394 checks the column. But the press counts again every
  success there ever was (`grantstore.go` 265-289), of which `Demote` takes none
  away, so that a card from before a demotion gives the lost rung back.
- In the channel of an open incident a restored scheduled input is queued as
  source `slack` (`input.go` 659); the schedule looks for source `watch` only
  (`schedule.go` 664) and may queue a second run for the occurrence. The task's
  channel in `Schedules` has no open incident.
- An item that reaches its deadline while a newer request is recorded in
  `rerun_at` fails with it (`work.go` 361); parts behind a part that was given up
  wait for ever (`delivery.go` 631); an occurrence that cannot be announced stops
  the schedule's drain (`schedule.go` 712).
- A failed run that is revived (`RequeueFailedAgentRun`, `store/agent_run.go` 1819)
  and fails again finishes under the event key it failed under before (2432), so
  the episode takes no event and stays `executing` with no run: what
  `lifecyclecheck.go` (178, "This is a stalled episode") reports, and what
  `NewestEnds` excepts. With three cards, an older deferred attempt may take the
  episode of a newer one that ended `waiting` back to `executing`, fail, and be
  superseded without moving it.
- Claiming an occurrence writes `enabled` and `next_run_at` from the row read
  before, and an occurrence already recorded never advances `next_run_at`.

