# A TLA+ model of runs, turns, signals, deliveries, crons, swarms and their owners

The repository is a multi-tenant agent server. Messages become *runs* in a
PostgreSQL queue; worker processes claim runs and drive each one's *turn* (the
exchange with the model) under a per-session write lease, appending to the
session's transcript; a reaper takes over the runs of dead workers. A running
turn is steered and stopped through durable *signals*; results leave through a
*delivery outbox* that relays drain; *crons* start runs by the clock; *swarms*
provision workers and send them runs; deployments hand all this background work
over to each other through a shared ownership record. This directory models
those parts at the granularity of SQL statements and awaits, checks them with
TLC, and proves nearly all of their safety with TLAPS for instances of any size.
Paths below are relative to the repository root (`src/` here).

## Inventory

| Component | State | Operations | What is hard |
| --- | --- | --- | --- |
| Run queue, `src/runs/run-store.ts`, `postgres-run-store.ts` | one row per run: status, lease token and expiry, attempts, error_attempts, idempotency key, retry_after, turn_user_seq | enqueue, claim, heartbeat, releaseLease, complete, fail, withdraw, steerQueued, reapExpired | several statements per operation, decisions from a snapshot or a remembered row, stale tokens, crashes between statements |
| Worker, `src/runs/worker.ts` | the run in flight, stop flags, lost beats | loop, processRun, stopClaims, releaseInFlight | claim racing stop, drain racing the turn it drains, a lost lease noticed late |
| Reaper, `src/runs/reaper.ts` | none | sweep: fence, free the session, retire | the attempt presumed dead is alive; the reaper dies half-way |
| Turn, `src/core/orchestrator.ts`, `turn-resume.ts` | local | replay or resume, acquire, append, note the boundary, record a failure, release | reads before the lease, crash between append and boundary |
| Session store, `src/sessions/postgres-session-store.ts` | session_leases, session_entries | acquireLease, renewLease, releaseLease, forceReleaseLease, append | expiry or theft in mid-turn |
| Ownership record, `src/runs/background-ownership.ts` | generation, desired deployment, members | register, transition, admit, markReady, acknowledge, retire | stale, repeated and crossed requests |
| Background controller, `src/runs/background-controller.ts`, `src/index.ts` | admission, epoch, activation, validity | reconcile, stop, watchdog, drained continuation | failed calls, lost responses, claims in flight while fencing |
| Run signals, `src/runs/run-signal-store.ts`, `postgres-run-signal-store.ts`, `src/api/app-turn.ts`, `app-helpers.ts`, `src/harness/pi-harness.ts` | signals pending or consumed; per attempt the poll and what the agent accepted | send, poll, steer, abort, acknowledge, replay of orphans by sender and sweeper | the run ends while a signal is sent or read; retries; several replays of one signal |
| Leader lease, `src/persistence/leader-lease.ts` | an advisory lock and the session that has it | hold, loss, release | the session is cut while the callback goes on |
| Delivery outbox and Slack relay, `src/delivery/postgres-delivery-store.ts`, `src/slack/deliveries.ts`, `delivery.ts` | rows with claim and age; per relay its queue and the tracker's maps | enqueue, expire, claim, renew, verify, post, upload, ack | crash between post and ack, lost answers, claims lapsing in mid-batch, two relays after a cut |
| Cron, `src/cron/scheduler.ts`, `cron-store.ts`, `job-queue.ts`, `src/triggers/run-trigger.ts`, `src/idempotency/` | the cursor, queued jobs, fires in progress, idempotency entries | tick, enqueueNext, fireJob, claimSlot, unclaimSlot, markFired, defer, stopClaims | tick and queue firing one slot, outages, deferrals, pauses |
| Swarms, `src/swarms/` | members, budgets, notifications, request keys | spawn, send, resource pass, cleanup, delivery pass | concurrent and repeated requests, provider calls that outlive their timeout, crashes between effect and mark |
| Memory run store, drain controller, sweepers, admitted work | | | planned, see below |
| Loops, monitors, triggers, tasks, rate limit, credentials, policy, sandbox, surfaces, usage | | | not modelled, `PROJECT.json` says why |

Interactions: the worker and the reaper call the queue and the session store;
the turn calls the session store and writes `turn_user_seq` into the queue; the
reaper's callback frees the session between fence and retire; the controller's
`canClaim` gates the worker's loop, and its `relinquish` joins that loop. A
signal is polled by the attempt that executes the run and replayed as a run of
its own by the sender or a sweeper; the Slack relay and the cron tick run under a
leader lease; a cron fire and a swarm notification enqueue runs under a key that
makes the enqueue repeatable, and a cron fire ends in the outbox.

Correctness, per component. *Queue*: one running turn per session, in order; a
token that is not current changes nothing; a finished run is final; the error
budget; one effective run per idempotency key; the whole store behaves like a
queue whose operations are atomic. *Execution*: one writer at a time; an
answered run has its own answer, once; nothing is written for a finished run;
every run finishes. *Ownership*: one deployment owns and claims; readiness and
retirement mean what they say; a handover completes. *Signals*: a steer reaches
the agent or becomes a run, once; a stop ends the run; what the sender is told
is true. *Deliveries*: a message is posted once and acknowledged only if posted;
every row is settled. *Cron*: one run per slot, no slot passed over, a due slot
fires. *Swarms*: one effect per request, budgets hold, workers are equipped
before they work and leave nothing behind.

## Modules

    RunRow                 a row and the decisions made from one row
      RunQueue             abstract: every operation one atomic step
        RunExecution       workers, turns, session leases, transcript, reaper, drain
          RunExecutionProofs theorems
      RunStore             detailed: one step per SQL statement; implements RunQueue
        RunStoreProofs     theorems
    BackgroundOwnership    the shared record under any client
      BackgroundOwnershipProofs
      BackgroundController controllers, claims, operator
        BackgroundControllerProofs
    LeaderLease            one key of the advisory-lock lease
      DeliveryDispatch     outbox and relays; implements DeliveryPromise
        DeliveryDispatchProofs
      CronFiring           the fires of one cron
        CronFiringProofs
    DeliveryPromise        abstract: what the outbox promises of each delivery
    RunSignals             steering and stopping one run
      RunSignalsProofs
    Swarms                 one swarm: calls, resource pass, delivery pass
      SwarmsProofs
    MC*                    instances for TLC

**RunRow / RunQueue / RunStore.** A step of `RunStore` is one SQL statement.
What an operation remembers between statements is state: `claims` (the candidate
a claim's subquery chose in its snapshot, and the siblings it saw), `scans` (rows
`reapExpired` selected), `retires` (arguments of `retire()`). Any process may
call anything with any token ever issued. `claim` splits into `ClaimSelect` (the
subquery) and `ClaimCommit` (row lock, re-check of the candidate's own columns,
unique index); `reapExpired` into `ReapScan`, `ReapFence`, `RetireRequeue` or
`RetirePark`; `fail` into `FailRead` and the same retire. Time is abstract: a
lease is live or lapsed, a run is or is not in back-off, is or is not older than
`maxAgeMs`, and the clock may move each at any moment. A heartbeat moves the
expiry beyond the `now` of every earlier scan, so it drops remembered scans of
its run. Tokens are numbered in the order of issue (the code draws UUIDs).
`RunQueue` is the same table with atomic operations; `RunStore!ImplementsQueue`
says the store refines it with the identity mapping.

**RunExecution** runs workers and reapers on `RunQueue`, which
`StoreImplementsQueue` and `ExecUsesQueue` justify. An attempt's `pc` is the
next shared step: claimed, start (look for a recorded turn), acquire, ask, note,
answer, unlock, complete; or backfill, erred, abandon, fail after an error. The
transcript holds ask, resume note, answer and failure entries; tool calls and
results between them do not change which branch is taken and are left out, as
are steer and overheard entries. Runs of a session have different texts (a retry
recognises its partial turn by text when no boundary was noted). `Faults`
selects stalls, drains, lost boundary writes and inserts out of order; crashes
are always on.

**BackgroundOwnership** has one action per request; each is one transaction.
**BackgroundController** adds each process's `reconcile` (one store call per
step, followed by the synchronous code after it), `stop`, the watchdog, one
claim loop, the drained continuations, and an operator. The epoch comparison is
modelled by dropping the continuations that still wait when an admission
succeeds: they could only fail it.

**LeaderLease** keeps the holder of the lock in the database and, apart from it,
what each process believes (`held`, `cut`, `lost`): the lock goes with the
session, the callback does not. `LeaseSpec` is a lease under any use.
`DeliveryDispatch` and `CronFiring` extend the module, and their `cut` fault
separates lock and callback.

**DeliveryDispatch.** A relay's `pc` is the call it awaits: claim, next,
reclaim, verify, post, reverify, limited, files, ack. Rows have an age and what
is left of their claim, relays what they believe is left of it; `Tick` takes one
unit from all, so no absolute clock is needed. A claim and its answer are two
steps: the row's claim runs from the UPDATE (`postgres-delivery-store.ts:179`),
while `expiresAt`, here `exp`, counts from the answer (`deliveries.ts:82-84`),
so a relay's belief outlives the claim by the time the answer took, and another
relay may claim the row meanwhile. What is left of the claim since the UPDATE is
kept beside it in `real`, which the code does not have: it tells a late answer
from one that came within the margin. `ClaimsExclusive` speaks of the latter,
and says that `claimMargin` makes up for them. After a late answer two relays
may both trust a claim of one row, and a row they both send is excused.

The delivery tracker's three maps (posted, failures, given up) are state of the
process and die with it. Slack is external: a post may take effect with or
without an answer; an upload that fails is reported in the channel and not tried
again.

Rows in `Unkeyed` do not pass through `postWithVerify()`: attachments without a
text, reactions, pins, deletions (`deliveries.ts:261-291`, `374-390`). No key
finds them in the channel, so after a crash or a lost acknowledgement they are
sent again; the model does so too, and `SentOnce`, `AckedMeansPosted` and
`KeepsPromise` speak of the other rows, called messages here.

`SentOnce` and the promise excuse a message that two relays began to send before
it was delivered, or that was enqueued again after it expired while it was
posted, or while a relay was at it or knew a claim of it (`Revived`); the code
accepts all of these. A relay that begins with a delivered row is no excuse,
because it looks for the post first: after three relays and two cuts one may
still hold such a row.

**DeliveryPromise** is the abstract specification: a delivery asked for is
posted once and then delivered, which is final, or expires. `KeepsPromise` maps
each message, its posts in the channel and the excuse to one `letter`; every
action of the relays and the store is one step of a letter or none, except that
a claim expires several rows at once.

**CronFiring** has one cron of any kind (calendar, interval, one-shot) and
processes that fire by job queue or, where pg-boss did not start, by tick under
the lease. A fire's `pc` is its next call: claim, trigger, run, await, reply,
commit, then defer, disable, unclaim or advance. The run itself is external. It
ends with a reply, is turned away by a busy session, or ends without a reply
(`mute`: silent, failed, refused for another reason, waiting for an approval
that nobody is there to give, or nothing to say). A fire may have nowhere to
deliver to (`withheld`: no destination, no consent of the recipient, a
destination the actor may no longer see, found out after the run, or a home
scope it may no longer read, found out before). All of these but a deferral
commit the fire key, as in `run-trigger.ts:308-369`, and `CommittedMeansReplied`
says that there are no other commits without a reply. `refused` records the
slots given up because a busy session turned them away too late to defer.

Two variables record slots that the cursor leaves behind unfired. `dropped` are
those whose fire died with its process after the slot was claimed, or whose
claim could not be undone, also where two claims of one instant are told apart
only by `lastFiredAt` (`cron-store.ts:255`), so that undoing one moves the
cursor past the other's slot; this takes a process that fires by queue.
`overtaken` are those that the queue gave back after an error and that a tick's
`markFired()` then passes over, since it sets the cursor without comparing it
(`cron-store.ts:219`); this takes a fleet in which one process ticks and another
does not, and `NoSlotSkipped` says so.

**RunSignals** follows one run through its attempts. Each attempt has its poll
(read the pending signals, hand over one, acknowledge it), each signal its
sender (`signalRun`: read the run, send, read again, replay or answer), and the
sweeper replays what a finished run left. `folded` is what the agent session
accepted, `heard` what a later attempt finds in the transcript; `turns` counts
the runs enqueued for a steer. A replay goes through its list one signal per
step, in every way the code has (`app-helpers.ts:595-700`): an abort is discarded;
a steer becomes a run; on a plain thread, where the signals were taken before, an
enqueue that throws drops the steer and tells its sender so, whether it took
effect or not; on a subagent's thread, where each signal is acknowledged after its
enqueue under a key, an error ends the replay, a refused turn acknowledges and
drops the steer, a turn that is neither refused nor a run leaves it pending, and a
steer of attachments without text is acknowledged and dropped.
`lost` records what the code gives up: a plain replay that dies after it took the
signals, an enqueue that failed there, the refused or wordless steer of a
subagent, a steer taken by an attempt that had already lost its lease. `unsure`
records the steers whose caller is told "terminal" although there is, or may be, a
run: a plain enqueue whose answer was lost, or a subagent's replay that was
refused while another was not. A turn that the replay of a plain thread routes
into a live run of that thread counts as its run.

**Swarms** has the calls of one swarm (read, then one fenced write), the resource
pass with its operation in flight and one that timed out (`op["stray"]`, which
keeps the lock until it settles), cleanup, the delivery pass, and the admission
of the runs it enqueued. Computers and sessions are `box` and `session`: what
exists, whatever the record says. An operation takes effect (`Landed`) before or
after the pass stops waiting for it.

## Runs

| Run | Configuration | Shows |
| --- | --- | --- |
| store_siblings | 2 runs of one session, 2 claims, 1 scan, 1 retire in flight, 3 tokens | one running turn, order, finality |
| store_retire | 1 request and its resend under one idempotency key, 3 tokens and 3 claims each, `MaxAttempts` 2, a claim, a scan and a retire in flight | remembered rows, budget, one effective run per key, refinement of RunQueue |
| execution_crash | 2 turns, 1 worker, 1 reaper that may die once, inserts out of order, fairness | answered at most once (unless a sibling's turn cut its own in two) and with its own answer, no busy refusal, every run finishes |
| execution_fencing | 1 run, 2 workers, stalls, drains and lost boundaries, 3 claims | entries of attempts never interleave |
| ownership_record | 3 processes, 2 deployments, 3 generations, any request | one owner, readiness, retirement |
| background_controller | 2 processes, bootstrap and one handover, 1 fault of any kind, fairness | no claim after relinquishing, no two deployments claiming, a handover completes |
| delivery_dispatch | 2 relays, a message and a row without a key, 2 enqueues, claims of 2 units, rows live 4, 2 attempts, 1 tracked row, 1 fault, fairness | a message is posted once, claims answered in time are exclusive, every row settles, refinement of DeliveryPromise (hence acknowledged only if posted, and delivered for good) |
| cron_firing | 2 processes in any combination of modes, 3 kinds of schedule, 2 slots, 1 fault of 9 kinds, fairness | one run per slot, no commit without a reply or a reason, no slot skipped unrecorded, a due slot fires |
| run_signals | 1 steer and 1 abort, a steer with or without text, 2 attempts, 2 kinds of thread, 1 fault of 7 kinds, fairness | a steer is not lost unrecorded and not handled twice, a stop ends the run through retries, refusals are true |
| swarms | 2 spawn requests, a human's and an agent's whose run may be replaced, for the one worker the budget allows, 1 message sent twice, 1 fault of 3 kinds, fairness | requests once, budgets, equipped before work, clean after failure, one run per notification, all work settles |
| replay_of_another_run | 2 turns, 2 workers, stalls | violated, see below |
| delivery_same_instant | delivery_dispatch with crashes only and no time between enqueue and claim | violated, see below |

Bounds. Two siblings are enough for exclusion and order, which relate two rows;
three tokens per run give a claim, a fence and a second claim. Without stalls or
drains an attempt's process is dead before the next attempt of its session
starts, so one worker slot reaches every state that matters in execution_crash
(two slots give the same number of states up to symmetry). store_retire has one
claim more than errors, so that the error budget, and not the claim bound, is what
parks a run. `MaxTokens`, the `...InFlight` constants, `MaxReaperDeaths`,
`MaxGeneration` and `MaxFaults` bound the state space only; the theorems hold for
every value. `MaxAttempts` and `MaxClaims` are parameters of the code. Worker
slots are symmetric. Deadlock is not checked where the system may rest (all runs
finished, all processes stopped).

`MaxFaults` is 1 wherever it occurs: one fault at any step, with everything that
follows from it, under two concurrent actors. Two relays and two deliveries give
a batch whose claim lapses between its rows; one tracked row makes the second
evict the first. `ClaimLag` 1 says that some time passes between the enqueue of
a row and its first claim; 0 is the boundary of the second disagreement.
`Margin` 1 of `ClaimMs` 2 leaves room for answers on time and late ones (the
code takes a third of the claim at most; one unit is the least there is). A
period of 2 in a clock of 4 gives a cron two slots and a deferral between them;
two queues compete for an interval's slot as for a calendar's, and that
combination is left out. Two attempts give a signal a retry to survive into. The
budget of one worker and two requests for it make the calls of a swarm compete.

Fairness. `FairExecSpec`: a live worker claims and advances, a reaper sweeps,
and leases and back-offs run out, which are the worker's loop, the sweeper's
interval and the clock. Crashes, stalls, errors and withdrawals get none. Claims
are bounded by `maxClaims`, so crashing workers cannot starve a run: with no
`maxClaims` the code requeues a reaped run forever, by design (see
`test/worker-reaper.test.ts:62`). `FairBgSpec`: the poll timer fires and store
calls return, claims and work end, a stopped process exits (`stopWithBackstop`),
and the operator retires processes proved dead. Faults are finitely many.
`FairDispatchSpec`: the clock, and the steps of some relay, whose timers fire in
every process and whose calls return or fail; one relay that goes on is enough,
and what a tracker gave up need not be tried again, for the row expires.
Enqueues are bounded, and `EveryDeliverySettles` says that the outbox runs
empty. `FairCronSpec`: the clock, the steps of a fire, the queue's and the
tick's timers, the reconciler and the guard of every process, and a run that
ends; disabling, pausing and errors get none. `FairSignalSpec`: polls, senders,
replays, the sweeper, and claims of a pending run go on; an attempt need not end
by itself (an abort has to end it), but one that is finishing completes, with
strong fairness because its poll may take its turn in between. `FairSwarmSpec`:
the sweeper's two passes; calls, expiry and lateness get none.

The type invariants of the modules give the shapes of their state. `TypeOK` of
the store is checked by a run and proved; those of the other modules are proved.
So are `AckedMeansPosted`, `DrainsUnderLease` and
`AbortSurvives`, which no run lists, and `LeaseTakenOnlyWhenLapsed`, a takeover
only of a lapsed lease, also a consequence of the refinement of RunQueue that
store_retire checks.

### Disagreements found

Two runs check what a test says and find it violated.

1. `replay_of_another_run`. An attempt of run 1 stalls before taking the session
   lease, is reaped, and run 1 is parked. Run 2 asks, and its attempt fails. The
   stalled attempt now takes the lease, resumes with a note and answers: the
   note does not end run 2's segment in `turnAtSeq`, so run 2's retry replays
   run 1's answer.
2. `delivery_same_instant`. `recoveredRow` (`src/slack/deliveries.ts:65`)
   decides with `>` whether a row may have been posted before, while a claim
   lapses with `<=`. A row created and claimed in the same millisecond, posted,
   and reclaimed after a crash in the millisecond its claim lapses is not looked
   up in the channel, and is posted a second time.

Others are in the models without a run of their own.

- A retry looks for a recorded answer (`orchestrator.ts:1362`) before it has the
  session lease and does not look again after; an attempt drained before it took
  the lease may record its answer in between, and the model is asked twice.
- `releaseInFlight` (`worker.ts:252`) frees the session lease before the drained
  turn took it; the turn takes it, and the fresh attempt is refused as busy,
  which completes the run. `execution_crash` shows that without stalls and
  drains neither happens.
- A run inserted late with an earlier `created_at` is claimed before a sibling
  that crashed after noting its boundary. The sibling resumes with a note,
  answers, and crashes again: `turnAtSeq` stops at the other run's message, its
  third attempt does not find the answer, and the run is answered twice. This
  takes three claims of one run. `AnsweredAtMostOnce` names the case,
  `Interrupted`, and the proof shows that without stalls, drains and lost
  boundaries it is the only one.
- `admit` commits and its response is lost (`background-controller.ts:76`); the
  controller has no local admission to relinquish, and the stale admission in
  the record blocks every later generation until the process is terminated and
  retired. `HandoverCompletes` names this case, `Orphaned`, and shows it is the
  only one.
- A drained report delayed across a re-admission in the same generation, a claim
  and a second release marks the process drained while that work is in progress,
  because the record compares the generation and not the epoch.
- A cron slot is claimed before its fire (`scheduler.ts:440`); a process that
  dies in between drops that fire.
- A steer of attachments without text that reaches a subagent's run as it ends
  is acknowledged and dropped (`app-helpers.ts:601`), and its sender is told
  `replayed: true`.
- On a plain thread a replay whose enqueue took effect and threw all the same
  tells the sender "terminal" (`app-helpers.ts:672`), although there is a run; a
  sender that repeats its message has it twice.
- With one process on pg-boss and another ticking, a slot that the queue gives
  back after an error is passed over when the tick's `markFired()` of a later
  slot lands (`cron-store.ts:219`).
- A row with attachments and no text is sent again after a crash between its
  upload and its acknowledgement (`deliveries.ts:261-291`).
- A steer folded in and acknowledged just before the run ended is answered
  `replayed: true` (`app-turn.ts:838`) although nothing was replayed; the
  message did reach the agent.
- A swarm notification enqueued before a crash and expired before the next pass
  is marked failed, and its run exists.

## Proofs

`RunStoreProofs` proves every property of the store's runs for all constants.
The inductive invariant is the conjunction of the type invariant with
`OneRunningPerSession`, `LeaseIffRunning`, `RememberedRowIsCurrent`,
`ErrorBudgetRespected`, `OneEffectiveRunPerKey` and four auxiliary facts: tokens
in the table and in remembered calls were issued and are fresh when drawn
(without it a stale call could match a new lease), remembered calls of a live
token respect the claim bound, a live row still holds its key, and what a claim
saw ahead of its candidate has finished (without it order is not inductive,
because the commit does not look at siblings again). `StoreImplementsQueue` then
maps each statement: commits, fences and retires to the queue's operation, since
the remembered row is the current one, selects, scans, no-ops and crashes to
stuttering.

`RunExecutionProofs` has four invariants, each under the faults it can stand; the
others rest on the first.

- `WriterInv`, under all faults: session leases are numbered in order of issue,
  a transcript's leases never decrease, and the live lease is at least as late
  as any that wrote. Entries of two attempts then cannot alternate
  (`TurnsDoNotInterleave`), whatever zombies try.
- `UseInv`, under all faults: a running row carries a token issued for its run,
  tokens stay within the bound, only a running row is leased, an attempt about
  to report has a result, and at most one run of a session is running. Hence
  `ExecUsesQueue`: an execution, seen at the runs table, is a behaviour of
  `QueueSpec`, the specification that `StoreImplementsQueue` shows the
  PostgreSQL store to implement. The two theorems meet there: workers and
  reapers need no more of the table than the store provides. It also gives
  `FinishedStaysFinished`: a zombie cannot touch a run that finished without it.
- `CalmInv`, without stalls and drains: at most one run of a session is running;
  a worker that is not idle, and a reaper in a sweep, owns its run under a live
  lease and is alone at it; a held session lease belongs to the attempt that is
  writing or to a dead attempt of the session's running run. Hence the acquire
  of a retry never meets another owner (`NeverRefusedBusy`).
- `AnswerInv`, on top of `CalmInv` and without lost boundaries too, inserts out
  of order allowed: a noted boundary is an ask or a note of its run after which
  the run does not ask again, and answers come behind it (`BoundaryFits`); a
  turn only starts ahead of later siblings that wait for a retry, so turns nest
  (`WaitingLater`, `Nested`); and an attempt on its way to an answer is at a run
  that has none, or that was interrupted (`AttemptFits`). The last is what makes
  a search for a recorded turn, done before the session lease is held, still
  true after it is.

Steps are first reduced to what they do to the rows (`QueueMoves`) and to the
transcript (`TurnSteps`), and the invariants are proved for these kinds.

`BackgroundOwnershipProofs` proves the record's properties. `OneOwner` is not
inductive: an admission checks the others' generation against the current one, so
one also needs that no member is ahead of the record, that an admission of the
current generation is one of the desired deployment, and that ownership is
enabled exactly beyond generation 0; `RetiredIsFinal` needs that a retired member
is drained and not ready.

`BackgroundControllerProofs` first proves that `BgSpec` implements
`OwnershipSpec`: whatever the controllers, the watchdogs and the operator do, the
record sees requests of its own specification or nothing, so `OwnershipInv` and
`RetiredIsFinal` carry over. `BgInv` adds what a controller's `pc` says of its
fields and the fact that carries the two claim properties: a process that claims,
or that `canClaim` would let claim, holds the admission the record shows. It
survives the fence, because a claim in flight outlives the fence but not the
release, which joins the loop. Two processes that claim then have two admissions
of the record, and `OneOwner` makes them one deployment's.

`SwarmsProofs`. `SwarmInv` says where the operation in flight is, what it found
and what it has already done (`OperationsFit`): a provision that outlived its
timeout works on a worker that is marked for cleaning, and a step of cleaning on
one whose earlier effects are gone. Without it `ReadyIsEquipped` and
`CleanedLeavesNothing` are not inductive, because the commit and the mark trust
what was done before them. `BudgetHeld` is proved separately, by counting.

`RunSignalsProofs`. `SignalInv` follows one steer through its life
(`SteerKept`): it is pending, in the hands of a replay, replayed as a run,
recorded as lost, or in the transcript and, while an attempt runs, in what that
attempt folded in or found there. `VainFits` says that what a sender's own
replay gave up is consumed and has and gets no run, or is recorded as unsure.
`FoldedFits` says that what a finished attempt took is acknowledged, `TakenOnce`
and `NothingTaken` what a replay owns on the two kinds of thread, and
`ReplayAfterEnd` that nobody replays a live run.

`CronFiringProofs`. `CronInv` adds to the properties that a fire in progress is
of a slot that came due and is on the schedule, that a commit has its reply or a
reason for having none, and that the cursor is on the schedule; where all
processes tick, also that the slots before the one being fired are done
(`InOrder`), for which reason nothing is overtaken there. `NoSlotSkipped` needs
the arithmetic of the schedule: two multiples of the period less than a period
apart are equal.

`DeliveryDispatchProofs` has two invariants. `DispatchInv` relates lease,
queues, what the relays know and the table: a queue has no duplicates, what a
relay takes for posted is in the channel, and no more is left of a claim
(`real`) than the table has of it. The UPDATE takes only rows without a claim,
so what is left of two claims of one row is left of one of them
(`RealExclusive`); a relay that trusts a claim answered within the margin has
some of it left, hence `ClaimsExclusive`. `SendInv` carries `SentOnce`, late
answers included: a claim and the row's age add up to more than one claim's
length (`ClaimsAge`), so a row whose first claim has lapsed is old enough to be
looked up in the channel; a young row without a claim is in nobody's hands
(`NewIsUntouched`), and a young row is known to one relay at most; whoever is
about to post a row that is not excused finds no post (`SenderFits`), and of two
at such a row it is delivered and one has yet to look (`PairFits`). Every step
is reduced to one of five kinds (`StepKinds`: a move of one relay, a claim, an
enqueue, the clock, or nothing of the outbox), and the invariants and
`KeepsPromiseAlways`, the refinement of `DeliveryPromise`, are proved for the
kinds. Nothing but types, claims and the lease is proved of the rows in
`Unkeyed`.

The lease is proved about once, in `CronFiringProofs`: `OneLeaderAlways` is a
theorem of `LeaseSpec`, which knows only the operations of `hold()`.
`CronUsesLease` and `DispatchUsesLease` show that the crons and the relays, with
their crashes, pauses and cut sessions, are clients of that specification.

Assumptions are those of the modules (`RunRowAssumption` and so on): shapes of
the constants; `max_attempts` and `maxClaims` are positive; a swarm's limit is at
least the root and one worker, as `resolveSwarmSettings` enforces; no signal has
the name of a marker of the model; the deliveries are finitely many. Two theorems
and the invariant behind them, `SentOnceAlways` and `KeepsPromiseAlways`, have
the hypothesis `ClaimLag > 0`, that some time passes between a row's creation and
its first claim; for 0 the statement is false, which is the second disagreement
above. The other theorems about the outbox need no such thing. The theorems on
`CalmInv` and `AnswerInv` have hypotheses on `Faults`, a constant that selects the
environment; with stalls or drains the statements are false (see above). Two
faults that remain possible under them are crashes and inserts out of order.

What proving changed in the models. A resumed turn can be interrupted by a run
inserted late and is then answered twice (`Interrupted`). Two claims of one cron
instant could undo each other's slot (`PassedOver`), a fire refused by the run
queue commits without a reply (`refused`), and a delivery that is already
delivered cannot become excused, which only three relays show. All four were
confirmed by TLC on larger instances before the models were corrected.

Only model-checked: the liveness properties (`EveryRunFinishes`,
`HandoverCompletes` and the others that the runs state under fairness), which are
beyond the prover, as is anything with ENABLED. Every invariant and every action
property that a run checks is also a theorem.

## Not modelled

The repository has some 240 000 lines of implementation, most of which has no
state shared between processes that a model could say more about than a test: the
web interface and the chat client, the command line with its cloud back ends,
provider adapters (models, sandboxes, directories, MCP), tool implementations,
formatting, prompts, parsing, wiring and read models. What is modelled is the
control that decides who may do what and when. `PROJECT.json` lists every
component with its status.

Left out of the modelled components: in the run queue `steerQueued`,
`editPendingText`, `setDeliveryState`, notifications and queries; in a turn the
model, tools, approvals, the background tail, and other holders of the session
lease, for which a turn would wait `turnLeaseWaitMs`; in the outbox the live
path of run results (`run:` keys), replies that edit a message in place
(`editRef`: the text is updated as often as one likes, but their files are
uploaded again after a crash), `releaseClaim`, shadow rows, the memory store and
the relays other than Slack (the drains of conversations and of principals are
one); in cron `runNow`, the fire journal with `sweepStranded`, loops, crons that
send a fixed message without a run, the owner's notice of a withheld reply,
schedule edits and the rotation of `maxFiresPerTick`; for signals `steerQueued`,
dedupe keys, two steers with one `ts`, the other harnesses and the memory store;
in swarms the budgets of spawn requests and of depth (`BudgetHeld` is about
agents, messages and notifications), nested spawns, `context`, `read`, rosters
and authorization, the release of a busy session's key, several swarms and the
paging of the sweep, and a database session cut under a pass (then two passes
overlap, and the commit does not check the lock).

## Plan

1. Done: RunRow, RunQueue, RunStore; RunExecution; BackgroundOwnership and
   BackgroundController; LeaderLease, DeliveryDispatch and DeliveryPromise,
   CronFiring, RunSignals, Swarms; the proofs of all of them.
2. Next: admitted work, sweeper and drain controller, that is the shutdown
   sequence of `wiring.ts` as a whole; memory run store as a second implementation
   of RunQueue; rate limit; once-grants of the keychain; loops ledger.
