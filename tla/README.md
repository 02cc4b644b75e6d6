# Cretli: a TLA+ model of its durable storage, jobs, recovery and delegation mail

Cretli is a self-hosted Node.js server (Express and WebSocket) that runs and
supervises coding agents. Most of it is orchestration of external programs and a
large user interface; what has to be right under crashes, several server
processes and half-failed I/O is a layer below: who may write the store, how
commands become durable exactly once, how queued work survives a restart, and how
a turn of an agent is started once and no more, whoever asks for it again. This
directory models that layer, checks it with TLC, and proves its safety with TLAPS: the
ownership and lock protocols, the worker host, group commit, the job queue, the recovery
of turns and the delegation mail.

* [Inventory](#inventory)
* [Modules and how they correspond to the code](#modules-and-how-they-correspond-to-the-code)
* [Runs](#runs)
* [Bounds](#bounds)
* [Fairness](#fairness)
* [What is proved](#what-is-proved)
* [What only TLC checks](#what-only-tlc-checks)
* [Disagreements between code and documentation](#disagreements-between-code-and-documentation)
* [Observations without a run](#observations-without-a-run)
* [Not modelled](#not-modelled)
* [Plan](#plan)

## Inventory

| Component | State | Operations | Interacts with |
|---|---|---|---|
| `lib/storage/coordinator.js` | per process: `state`, `epoch`, `expiresAt`, `activatedEpoch`, pause cache, in-flight writes. On disk: `owner-lease.json`, `fencing-hwm.json`, `restore-pause.json`, `control.lock` | `acquire`, `renew` (and its timer), `release`, `withOwnedLease`, `activate`, `guardHost`, `assertWritable`, `pauseForRestore`, `resumeAfterRestore` | other processes through the files; the store through `control('fence')` and `fenceEpoch` |
| `lib/storage/worker-host.js` | request queue, the one request in flight, worker state, loss counters, timers, orphaned threads | `command`, `commandBatch`, `query`, `control`, pump, watchdog, restart with backoff, `close` | a worker thread by messages; coordinator and committer as callers |
| `lib/storage/fair-queue.js` | one list per class, byte count, pass-over counter | `push`, `expireDue`, `shift`, `remove`, `drainAll` | worker host and job queue |
| `lib/storage/sqlite-worker.js` | the SQLite connection, fence mark in the store | one transaction per command or batch, a savepoint per member, fence check inside the transaction | worker host by messages |
| `lib/storage/group-commit.js` | buffer, two lanes, backpressure counters, attempts, timers | `submit`, `flush`, `close`, window and retry timers, settling of a batch | guarded host |
| `lib/storage/command-receipts.js` | `command_receipts` table, per-host memory of unreconcilable commands | `withReceipt`, `executeCommand`, `resolveUnknown` | worker (handler side), host (caller side) |
| `lib/job-queue/job-queue.js` | `job_queue_jobs` table, fair queue, running handlers, waiters | constructor recovery, `start`, `enqueue`, pump, handler completion, `onIdle`, `close` | coordinator lease, SQLite, handlers |
| `lib/recovery/*`, `lib/chat-run/*` | `recovery_runs` table: one row per turn or attempt; resume claims and the chat's start lock in memory; the chat's room | start, acceptance, end, Stop; manual and automatic resume, keep-stopped; boot classification, re-probes | harness adapters, clients over HTTP, the scheduler |
| `lib/delegation-mailbox.js`, `-runtime-worker.js`, `-runtime-boot.js`, `-takeover.js` | message rows with status, recipient, request id and lease; a lock per chat; the takeover journal | send, drain, deliver, retry, timeout, acknowledgement; flush at shutdown, reconcile at boot; takeover of a job by another chat | `startChatRun` and through it the recovery registry |
| `lib/storage/maintenance-coordinator.js`, `migration-runner.js`, `db-lifecycle.js` | gates, journal of steps, files swapped | barrier, backup, chunked steps, switch | every writer |
| `chat-history-store.js`, `cutover-*.js`, `history-*.js`, `persist/chat-history-runtime.js` | chat rows, import and cutover state | import, cutover, rollback | group committer, coordinator |

What is hard here, and what makes each part correct:

* **Ownership.** Two server processes may both believe they own the store: one
  is suspended past its lease, the other has taken over. Safety must not rest on
  clocks. A write of an earlier owner must never commit once its successor has
  activated; an epoch must never name two writers, through crashes between two
  file writes, writes reported as failed that are visible, a control directory
  that is lost, an older store put in place; `activate()` awaits twice and the
  world moves in between.
* **The lock file.** Other processes run between any two file-system calls;
  breaking the lock of a dead process must not break that of a live one.
* **Restore.** A pause that resolved must be quiet, although promises settle
  before threads do.
* **The worker host.** A request expires, gets another window, is dispatched,
  lost with its worker, failed with the host or drained: it must be answered
  once, and what it was told must stay true although a thread that was given up
  may still be inside a COMMIT. Never two threads on one database.
* **Group commit.** One member of a batch may fail, be deferred by the reply
  budget, or end the transaction behind the worker's back; the COMMIT may be
  unknown; the worker may be lost while its thread goes on. Each caller needs a
  truthful answer, every command must take effect at most once.
* **Fairness of queues.** Strict priority with a bounded bypass: the counter
  has to fire at the right dispatch, and byte counts must follow each way out.
* **Jobs.** The table and the queue in memory must agree through failed
  statements and restarts; finished jobs stay finished; idle waiters wake up.
* **Recovery.** A prompt costs money and changes files: a request that is sent
  again, a resume that is repeated or retried by the scheduler, must not start a
  second turn, through a death between any two transactions, and again at boot.
  What the user stopped must stay stopped.
* **Delegation mail.** A report is a turn in the parent chat. The delivery awaits
  in the middle while rows are timed out, flushed, retried, acknowledged, and
  while another chat takes the job over. One turn per report, in the right chat.

The rest of the server: the integration lock and batch integration of worktrees
(`integration-lock.js`, `integrate-batch.js`), the delegation service itself with
its owner lock and workflow, the workspace watcher and its scout and review
cycles, to-dos and reviews, agent runs and eight vendor harnesses
(`chat-run-service.js`, `sdk/`, `harnesses/`), approvals, WebSocket, terminals and
HTTP routes, child-process registry, memory monitor and timers, usage and credit
ledger, self-update and build locks, MCP bridge, notifications, backup, voice,
widget, browser, and the single-page front end. `PROJECT.json` lists each with its
status and the reason.

## Modules and how they correspond to the code

**`StorageCoordinator`** models `coordinator.js` together with the store side of
fencing (`enforceFence`, `runFenceControl` in `sqlite-worker.js`). One element
of `Proc` is one `createStorageCoordinator()` closure, i.e. one incarnation: its
random owner token is the element itself, and a crashed one never comes back.
Variables carry the source's names: `hwm`, `lease`, `marker` are the three
control files, `mark` is `storage_fencing.hwm` in the store, and `state`,
`epoch`, `expiresAt`, `activatedEpoch`, `paused`, `pauseCheckedAt` the closure's
variables. A function that runs under the control lock without an `await` is one
action. `activate()` is five kinds of step, because it awaits the worker twice
(`Activate`, `StoreReadsMark`, `ActivateReconciles` / `ActivateBumps` /
`ActivateFindsLoss`, `StoreRaisesMark`, `ActivateDone`), with `ActivateFails`
for each rejection. A guarded write is `Dispatch` (the guard, with the renewal
and marker refresh it causes), then `WriteCommits` or `WriteRejected`, or
`LoseWorker` and later `OrphanEnds`: the host rejects at once, the thread goes
on. An atomic file write ends `ok`, `failed` or `visible` (reported as failed
although the new content is there); `failed` remembers, as history, whose last write did
not end `ok`. In-flight writes are kept as the set of
epochs they carry, one per epoch: two writes of the same epoch meet the same
fence and the same drain. `grants`, `log`, `spent` are history.

**`EpochFencing`** is the abstract specification: a source of ever larger epochs,
a floor that only rises, and a log in which every write carries an epoch granted
to its writer and not yet fenced. `StorageCoordinator!ImplementsEpochFencing` is the
refinement, with `grants` for `granted` and `mark` for `floor`.

**`ControlLock`** is the level below: `withLock`, `unlockIfOwned`, `breakStaleLock`
with one action per file-system call (open, write, read, unlink, stat, rename,
link). A lock file is identified by its creator and a try number; its content is
its token once written, and nothing while torn. `torn` and `aged` say which files
are unwritten and which are older than `lockStaleMs`. `StorageCoordinator` may make a section
one action because of `ExclusionUntilCrash`. Its names differ from those of `StorageCoordinator`
(`Process`, `LockInit`, `LockNext`, ...), so that one module can prove theorems about both
levels. After a crash inside the section
the documentation itself admits a window (see observations).

**`WorkerHost`** models `worker-host.js`. Every handler of the host is synchronous
and calls others (`pump`, `failPermanently`, `afterLoss`, ...), so the handlers are
functions from the host's state, a record, to its next state, and an action is one
event: a submit, an abort, a timer, a message of the thread, its exit, `start`,
`close`. A lost worker (`WorkerLost`, `CommitFailed`) keeps its thread, `"stopping"`,
with its job until `Exit`; only then is it replaced, and a write it was given
may have become durable in between (`Commit`). `runClose()` is three steps, since it
waits for the queue (`CloseDrains`), for the exit of the worker (`CloseStops`) and for
all threads (`CloseEnds`), each of which may run into its deadline and leave
threads to `orphanWorkers`; `NextHost` is the following host on the same database.
Which queued request `shift()` returns is `FairQueue`'s subject.

**`FairQueue`** models `fair-queue.js`. The class lists are subsequences of one
sequence in arrival order; time is the age of an entry and the time it has left.
`Pick` and `PassedOver` are `shift()`'s selection, `BytesOf` is `unlink()`'s
accounting. `waited`, `limit`, `outrun` and `bypassed` in an entry are history for the
properties: `waited` counts from the moment the entry has aged and is never reset.

**`GroupCommit`** models `group-commit.js` on top of `runBatch`, `runMember` and `commitBatch`
of the worker and of `withReceipt` and `resolveUnknown`. A member is one
`submit()` call and several members may carry the same command. `schedule()`
ends every handler of the committer and is therefore part of every action
(`Schedule`), with the elapsed time as input. `RunBatch(l, stop, ok)` is one transaction: any
member may fail in its savepoint, the reply budget may stop the batch, SQLite
may roll back, a handler may end the transaction, COMMIT may fail or be unknown.
`WorkerLost` answers `unknown` at once and leaves a `zombie` batch that commits
or not later; a new worker starts only after it has exited. `Settle` is
`complete`/`finishBatch` with `Verdict` for `settleMember` and `failBatch`. `order`, the
order of submission, is kept for normal members, the only ones it binds.

**`Filtering`** has one operator, `Filter(s, S)`, the subsequence of the members of `S` (`filter` on
an array with a test of membership). It is a recursive function, whose definition the proofs can
expand; `FairQueue`, `GroupCommit`, `JobQueue` and `DelegationMailbox` use it.

**`JobQueue`** models `job-queue.js`: the constructor (`Open`), `start`
(`Start`, and `StartThrows` when marking an interrupted row fails), `enqueue`
(`Enqueue`, `EnqueueFails`), `pump` (`Pump`, part of every action that calls it),
completion of a handler (`HandlerEnds`), `onIdle`, `close`, and process death.
The lease is reduced to what the queue sees of it.

**`RunRecovery`** models the registry of agent turns of one chat: `chat-run-recovery.ts`
(the row of a launch, its end, Stop), `recovery-lifecycle.ts` (acceptance, `finishRun`),
`recovery-resume.ts` (claim, launch, bind, give back), the automatic resume of
`recovery-scheduler.ts`, keep-stopped of `recovery-ui.ts`, and the boot classification and
re-probes of `recovery-boot.ts`. A row is one launch; a turn carries the name of
the row it was launched for, and a continuation also works for the row it
resumes. The code interleaves where it awaits: for the start lock (`launch`), for
the room (`RoomReady`). A stretch without an await is still several SQLite
transactions, and the process can die between two of them: `sync` is such a stretch,
which only its own next step or a crash may interrupt. The server listens before its boot
opens the registry (`server.js:934-941`, `delegation-runtime-boot.js:394`): in phase `"listening"` nothing is
looked up and nothing recorded, so a request starts without a row, whatever became of it before
(`StartBlind`, `BlindStarts`); if the registry opens while it waits for the room, the adapter
asks it after all (`BlindRecorded`). A row stores `MaxKeys` resume keys (20 in the code) and drops
the oldest (`WithStored`). `Crash`, `DiesFinishing`,
`DiesStopping` and `DiesBooting` are deaths between transactions, `Listen` and
`Boot` the next process. `served`, `cont`, `later` and `closed` are history: what was
launched, what it continued, how many claims of that row came later, and which rows were over.

**`DelegationMailbox`** models the reports of child chats: `delegation-mailbox.js` with
the tick (`TimesOut`, `Drain`), shutdown (`Shutdown`, `Flush`, `Exit`), boot (`BootTakeovers`, `BootMail`,
`BootOpens`) and `delegation-takeover.js` (`TakeoverAsks` to `TakeoverEnds`, one action
per checkpoint of its journal). A delivery is a call with a program counter; one
action is one stretch between two awaits: `Enter` (redirect, queue for the chat's lock),
`TakeLock` (up to the await of the history card), `Published` (up to `startChatRun`),
`Asked` (under the start lock, up to `adapter.start`), `Launches` (the turn runs, the
answer is on its way), `Accepts`, `Refused` or `Breaks`. `lock[c]` is the line of calls
for a chat with its holder first, and a takeover (`Taker`) stands in two lines.
`registry[m]` is what `RunRecovery`'s rows say of the request of message `m`: none,
pending, accepted or refused. Two readings of it differ, as in the code: whether a request is known
at all (`Known`) does not ask for which chat, looking it up (`Lookup`) does.

A process serves requests from the moment it listens, and only then boots: it carries open
takeovers through, without the chats' locks, reconciles the mailbox, and opens the registry, in this
order (`delegation-runtime-boot.js:359-394`). `boot` says how far it has come. Until it is `"up"` the registry answers
nothing and records nothing, while retries, replays, posts and the flush of the outbox
deliver (`delegations-routes.js:981-1055` has no guard). So `BootMail` finds no proof and every dispatching
row becomes uncertain: the branches of `reconcileMailboxOnBoot` that confirm or queue a row from the registry
(`delegation-mailbox.js:532-551`) are not taken. A call without a record is `blind`; what the registry says is asked
again when its turn starts (`Launches`, `Blocked`). `BootTakeovers` is one step: between its
checkpoints only the store is waited for, and a delivery reads who controls the job for a
queued row only. The model starts with `boot = "up"` and no mail, as a first installation that has
come up; every later process begins at `"listening"`. `failed` and `passed` in a row, and `launched`, are history:
that a delivery failed, that boot passed a delivery of the former controller by (it had `"sent"` the row, or
`"held"` it), and the turns started with and without a record.

Comments marked "Mutant" stand above variants of a definition that a plausible
bug would produce; each property is checked to fail when the variant is put in
place of the original.

How they compose: `ControlLock` justifies the atomic sections of
`StorageCoordinator`; `StorageCoordinator` is what `JobQueue`'s `Open`,
`LeaseRunsOut`, `RenewTimer` summarise; `WorkerHost` is what `StorageCoordinator`'s
`LoseWorker`/`OrphanEnds` and `GroupCommit`'s `WorkerLost` rest on (rejected at once,
thread exits later, restart only then: `OneThread`, `Truthful`); `FairQueue` is the
queue of the worker host and of the job queue; `RunRecovery`'s `LaunchedOnce` is
what makes `DelegationMailbox`'s delivery repeatable under one request id.

## Runs

| Run | Question | States |
|---|---|---|
| `coord_fencing` | Lease expiry, takeover, activation, a crash, a lost worker, a lost control directory or older store: does an epoch name one writer, is an activated owner fenced off from every zombie? | 1.07 M |
| `coord_pause` | Is a drained restore pause quiet until the marker goes, and a foreign marker noticed within `pauseCheckMs`; with a failing or half-failing file write and a crash, are live-looking leases ours, do epochs grow strictly, and is `EpochFencing` implemented? | 1.10 M |
| `coord_lost` | Violation: a lost worker's thread commits inside a drained pause. | |
| `lock` | Contention for the lock file with a death at any file operation: exclusion until the crash, a written lock is deleted only if its creator is dead, somebody always gets in again. | 0.59 M |
| `queue` | Three classes, arrivals, ageing, expiry, removal: exact accounting, the service bound (documented, but for bypasses to younger requests), one bypass per stop request. | 0.20 M |
| `worker_host` | Three requests, lost and failing workers, expiry, abort, close and a second host: is each request answered once and truthfully, and every promise settled? | 0.08 M |
| `group` | Three submits, two of one command: are answers true, commands applied once, normal members in order, backpressure exact; does every submit settle? | 0.52 M |
| `job_queue` | Two processes in succession, an ordinary and a non-recoverable job, one SQLite failure, one overslept lease: agreement, finality, no forbidden re-run, wake-ups, progress. | 0.11 M |
| `job_stranded` | Violation: a job that could not be claimed waits for ever. | |
| `recovery` | Requests sent again, also before the registry is open, manual and automatic resumes, Stop, a death between any two transactions and one more while booting: one recorded turn per request, one per stored key, rows and turns agree, claims end, what ended stays ended. | 2.67 M |
| `recovery_stop` | Violation: a Stop during the launch of a continuation misses the row under the claim. | |
| `mailbox` | Two reports, two deliveries at a time, one takeover, boot in its phases, and sets of rare events: one recorded turn per report, truthful delivery, the right chat, no report stays queued. | 0.39 M |

### The properties

*Coordinator.* `EpochIdentifiesWriter` and `GrantExceedsAll` are what fencing
rests on; `NoZombieCommit` is the promise of `activate()`; `ActivatedIsFenced`
is the guard's; `LiveLeaseIsOurs` says the in-memory expiry may be believed, unless the
owner's own last control-file write failed;
`QuietAfterDrain` and `PauseNoticedInTime` are the two halves of the restore
pause. *Lock.* `ExclusionUntilCrash`, `WrittenLockBrokenOnlyIfDead`, `NeverBlocked`.
*Queue.* `Accounted`, `AgedServedInBound` (the `(n+1)(K+1)` bound of
the module comment, and `K+1` more for each bypass that served a younger request while nothing higher
waited), `StopDelayedOnce`. *Worker host.* `NothingLost` (a request is
pending exactly while queued or in flight), `Truthful` (what a caller or a later read
was told stays true although a thread was given up), `OneThread`, `ClosedIsQuiet`,
`EverySettles`, `ComesBack`. *Group commit.* `HeldIsExact`, `AnswersAreTrue` (also of a
zombie batch), `AppliedOnce`, `NormalOrder`, `EverySubmitSettles`. *Jobs.*
`QueuedIsScheduled` (also: a resolved job is recorded as done), `FinishedIsFinal`,
`NotRunAgain`, `IdleWakes`, `JobEnds`, `NotStranded`. *Recovery.* `LaunchedOnce`,
`KeyLaunchesOnce`, `AcceptedIsTrue`, `RowsMatchTurn`, `ClaimIsHeld`, `ClosedStaysClosed`,
`StopTakesTheClaim`. *Mailbox.* `OneTurnPerMessage`, `DeliveredIsTrue`, `WakesController`,
`EveryMessageSettles`.

The type invariants of `FairQueue`, `WorkerHost`, `GroupCommit`, `JobQueue` and
`DelegationMailbox` are the first conjunct of `Accounted`, `NothingLost`, `HeldIsExact`,
`QueuedIsScheduled` and `DeliveredIsTrue`. Those of `StorageCoordinator`, `ControlLock` and
`RunRecovery` are proved for all values of the constants (`TypeCorrect`) and no run repeats them;
the inductive invariants of the other proofs contain the types of their modules.

## Bounds

* **Coordinator.** Two incarnations are enough for every two-party race
  (owner/zombie, owner/successor); `EpochIdentifiesWriter` after a disaster needs two as
  well, one before and one after. `TTL` 1 and time up to 1: a lease lives, expires
  and is taken over. `coord_fencing`: `MaxEpoch` 3 (first grant, takeover or bump,
  and one more), `MaxCommits` 2, one crash, one disaster, one lost worker.
  `coord_pause`: `MaxEpoch` 2, `MaxCommits` 1, one pause, one foreign pause, one
  crash, one failed write. All rare events at once do not finish in five minutes,
  and the theorems cover every combination for any number.
* **Lock.** Two places for processes, one death, after which the place is taken by a new
  process; so three processes meet, one of them dead. `Stalls = FALSE`: no live process stops for `lockStaleMs`
  between `open` and `write`. Try numbers 0..2 are reused once nobody refers to the old
  file. Any number of processes and deaths is covered by the theorems about exclusion and breaking.
* **Queue.** Three classes, depth 3, `Aging` 1 < `MaxAge` 2, `BypassEvery` 1: a
  lower request ages while others pass, expires, and has others ahead of it. A
  dispatch saturates no counter.
* **Worker host.** A protected write, an ordinary write and a read (which plays the
  caller's later check of an unknown write); two thread names, so that a replacement
  could meet the lost thread; a queue of two, which a third request finds full; one
  more window for a protected request; permanent failure after two failed starts or
  two losses; two hosts.
* **Group commit.** Three members (two classes, a repeated command, two lanes),
  batches of two, two attempts. `MaxBufferedCount` 3 is not reached by a rejection in
  this instance, and a command that is submitted again with another digest does not occur.
* **Jobs.** Two processes, one slot, two jobs, one failing statement, one overslept lease.
* **Recovery.** Three rows: a launch, its continuation and one more. One request id that is
  sent again and again, one manual key and the automatic one, of which a row stores one
(`MaxKeys` 1, so that keys are dropped), one re-probe before
  escalation, one death and one more during the boot that follows. `recovery_stop` needs two
  rows. The theorems hold for any number of each.
* **Mailbox.** Two reports (a drain has a next one), two deliveries at a time (a third would
  wait behind them), one takeover. Rare events (crash, a step that runs into its time,
  error, retry, replay, acknowledgement, shutdown, a turn of the user, a refused start, a chat
  closed or deleted) happen once each and only in the sets `Events` lists: a takeover with a crash, a
  shutdown, a closed chat, or two of the others that bear on one row; and a crash or a shutdown with a retry, whose
  boot meets it. A crash here is one; the process after it is checked in all its phases. All at once
  do not finish; the theorems hold for every set of them, and for any number of reports and deliveries.

`CHECK_DEADLOCK FALSE` is set where the system may stop: every process crashed
or released, every member or request settled, a bound used up. The lock and queue runs
check deadlock.

## Fairness

* `ControlLock!FairLockSpec`: a live process runs its synchronous section to the end
  (nothing in `withLock` waits), callers keep retrying (renew timer, every
  write), a torn file gets old (`Age`), and a write of the token does not fail
  for ever. No fairness for `ProcessDies` or `ProcessStarts`.
* `WorkerHost!FairSpec`: Node's timers fire, deadlines pass, a terminated thread
  exits, a starting worker answers (opening SQLite is bounded by its busy timeout), a
  worker with a request answers or is given up by the watchdog. No fairness for callers,
  for `start`, `close`, an unprovoked loss, or a next host.
* `GroupCommit!FairSpec`: one weak fairness of the committer's side as a whole. Timers
  fire, promises run, the worker answers or is given up (`Serve` includes
  `WorkerLost`), terminated threads exit, and each such step makes progress. No fairness
  for callers: `submit`, `flush`, `close`, `resolveUnknown`.
* `JobQueue!FairSpec`: the server calls `start()` once handlers are wired, and
  handlers settle (the code has no timeout of its own, the handlers do). No
  fairness for `enqueue`, `onIdle`, `close`, process exit, or a second `start()`.
* `DelegationMailbox!FairSpec`: the store and the adapters answer, turns end, the tick
  comes round once boot is through (`Drain`), a takeover that has started goes on, a process that shuts
  down exits and is started again by its service manager, and boot comes to its end (`BootStep`: it waits for the
  store only; if the registry cannot be opened, the code stays degraded and starts no worker, and nothing is
  claimed). That an adapter answers is an
  assumption the code does not enforce: see observations. No fairness for crashes, users,
  senders, timeouts or retries.
* `RunRecovery` has no liveness property: an unknown row may wait for a user for ever by design.

## What is proved

All theorems hold for every value of the constants; the named assumptions only give the
constants their types and keep `None` and its like apart. TLAPS checks every leaf.

`StorageCoordinatorProofs`

* `TypeCorrect`: `Spec => []TypeOK`; `TypeOK` is inductive.
* `OwnersAreFenced`: `Overlap = FALSE => (Spec => []ActivatedIsFenced)`. The
  property is not inductive: it says nothing of an `activate()` call under way. `FenceInv`
  adds `ActivateKeepsEpoch` (the epoch a call sends to the store, or has raised
  there, is the current one) and `EpochsKnown` (no epoch in memory exceeds the
  high-water mark; a coordinator that is idle or dead holds none, which is what makes a
  lost control directory harmless: it can only happen while all are down).
* `ZombiesAreFenced`: `Overlap = FALSE => (Spec => NoZombieCommit)`, from
  `FenceInv`: an activated owner's epoch is at most `mark`, and a commit needs
  its epoch to be at least `mark`.

* `EpochsGrow`, `EpochsIdentify`, `Implements`, under `NoDisaster` (control directory not lost,
  store not rolled back). `GrantInv` adds: every granted
  epoch is at most `hwm` and granted once (`GrantsKnown`); every epoch held, sent,
  in flight or orphaned was granted to its holder (`EpochsGranted`); every
  logged write carries a grant (`LogGranted`). Each step is a new grant above
  `hwm` or leaves `grants` alone, whatever a file write reports, because the
  high-water mark is raised before the lease is written. `Implements` maps each
  step to `Grant`, `Raise`, `Write` or a stutter. Without `NoDisaster`, `GrantExceedsAll`
  is false by design.
* `LiveLeasesAreOurs`: `Spec => []LiveLeaseIsOurs`, with no assumption. `LeaseInv` says that a live-looking
  owner whose last write did not fail is named by the file with the same epoch and the same expiry, and that nothing
  above its epoch was granted. The exception is needed: see the disagreements.

The other results look at a step through what it does to each coordinator (`Kinds`: a grant, a move,
a send, a settled write, a pause, a death, the world, a disaster), proved once from the actions. They
share `OwnInv`: `FenceInv`, no two coordinators hold an epoch in common, also not one in flight
(`OwnEpochs`), and a mark that was reached stays while the coordinator lives (`MarkReached`).

* `PausesAreNoticed`: `Spec => PauseNoticedInTime`, with no assumption. `ViewsFresh`: a cached view that
  says "no pause" was taken before the marker was written.
* `DrainedIsQuiet`: `QuietAfterDrain`, if `activate()` is awaited and no worker is lost (`coord_lost` shows why).
  `DrainOf` says of a coordinator with a pause that its view is "paused", that what it sent is waited for, that
  nobody else has in flight an epoch above its own, and that whoever was granted a later one has seen the
  marker. So what could still commit is below the mark.
* `EpochsIdentifyThroughDisaster`: `EpochIdentifiesWriter` through one disaster of either kind. After a lost
  control directory the store still bounds the log (`StoreKnowsLog`), and `activate()` raises the owner above that;
  after a rollback of the store the control directory does (`FilesKnowLog`). After both, nothing does, and an
  epoch may be handed out again: TLC finds that with two disasters. The writes it was used for are then
  gone with the store.

`StorageCoordinatorProofs`, about `ControlLock`

* `LockTypeCorrect`: `LockTypeOK` is inductive, for any number of processes and deaths.
* `ExclusionHolds`: `~Stalls => (LockSpec => []ExclusionUntilCrash)`. `ExclusionInv` adds that, as long as
  nobody has died (`Undisturbed`), a process past `open()` has its own file at the path, torn exactly
  while it writes the token, the file at the path is held by its creator, and nobody breaks
  anything: a breaker finds neither a dead creator nor an old torn file.
* `OnlyDeadLocksBroken`: `LockSpec => WrittenLockBrokenOnlyIfDead`, stalls or not. `BreakInv` adds that what a
  breaker read and found written is the lock of a dead process, and that it verifies a file it has
  moved aside.

`FairQueueProofs`

* `BytesAreExact` (`Accounted`), `AgedAreServed` (`AgedServedInBound`), `StopIsDelayedOnce` (`StopDelayedOnce`), for
  any number of classes, any limits, any `K` (`BypassEvery`) and sizes, whatever is pushed, aborted, expired or
  drained in between.
* The bound `(n+1)(K+1)` of the module comment, with `K+1` more for each bypass that outran the entry, is proved
  from `FairInv`, which adds three things.
  `Ordered`: who stands further back is not older, and an entry that has not aged has waited for nobody; so the
  oldest aged head is in front of every other aged entry, which makes each bypass a step forward
  for all of them. `Waits`, the measure: the dispatches an aged entry has waited, plus `K + 1` for each entry
  of a lower class ahead of it, plus those still missing until the next bypass, do not exceed its limit and what it is given for outrunning bypasses. A
  strict dispatch moves one from the third part to the first, a bypass takes away one of the second,
  or the entry itself, or raises what it is given, and entries that leave otherwise only make it smaller. `Bypasses`: a stop request that was
  passed over once is at the head and the pass-over counter is zero, so the next dispatch is its own.
* The byte count needs that what leaves is subtracted once: sums over a filtered sequence and over one
  without its i-th entry (`SizeRemove`, `SizeFilter` and their like), by least counterexample.

`RunRecoveryProofs`

* `TypeCorrect`, and from one inductive invariant `Inv` the six properties of the run:
  `RequestStartsOnce`, `KeyResumesOnce`, `AcceptedTurnRan`, `RowsAndTurnsMatch`, `ClaimsEnd`,
  `NoTurnAfterEnd`.
* `RequestStartsOnce` counts recorded turns: what a process with a closed registry starts is in no row.
  `KeyResumesOnce` holds for every `MaxKeys`, with its exception for keys that were dropped.
* The properties are not inductive: they say nothing of the middle of a stretch, nor of what a
  dead process leaves. `Inv` is `TypeOK /\ OfRows /\ OfProcess /\ Final`. `OfRows` holds of the table at
  any moment, also while no process runs: a row not yet written has no key and no turn
  (`Unwritten`), a refused row is final and only such a row frees its request (`Refusals`), the key of a
  continuation stands in its row behind those that claimed the row later, until `MaxKeys` did, and no other
  turn younger than that has it (`Stored`, `Single`). `OfProcess` ties the
  table to the process: nothing is in memory while it is down (`Down`), a claim's row is
  recovering and has stored its key (`Pending`), the row of a launch is new (`Launching`), each stage of a
  stretch says what is written and what is still missing (`Stretch`), the key of a claim has
  launched nothing (`Unspent`), and the three properties about rows and turns are said at the
  points where they hold inside a stretch (`LeftBehind`, `KnownToRows`, `ClaimsHeld`). `Final` says that a
  closed row is completed or cancelled, states no path leads out of.

`WorkerHostProofs`

* `RequestsAccounted` (`NothingLost`), `OneThreadAtATime` (`OneThread`), `ClosedStaysQuiet` (`ClosedIsQuiet`),
  `AnswersStayTrue` (`Truthful`), for any requests, threads, limits and number of hosts, from one inductive
  invariant, `HostInv`. It is stated of any values of the variables (`Sound`), because a
  handler calls several state functions and each keeps it: `Books` (who waits is queued or with the
  worker, and not both), `Around` (types), `Threads` (one live thread: the worker, one whose exit is awaited, or an
  orphan; a restart timer means none), `Jobs` (a thread works on what its host waits for or has given
  up), `Life` (what holds between `start()` and the end of `close()`), `Truth` (whose write may still
  become durable). `OneThread` alone is not inductive: that a restart finds no live thread is in `Threads` and `Life`.

`FilteringProofs`

* `FilterFacts`: `Filter` returns exactly the members of the set, in their order and as often. The induction
  over the length goes through the least counterexample (`LeastNumber`), as the library's induction
  theorems take an operator. Lemmas about filters of appended and concatenated sequences, and about heads, tails
  and repetition-free sequences follow.

`GroupCommitProofs`

* `BackpressureIsExact` (`HeldIsExact`), `AcknowledgedIsTrue` (`AnswersAreTrue`), `TakesEffectOnce` (`AppliedOnce`),
  `NormalOrderKept` (`NormalOrder`), for any number of members, lanes of any batch size and any number of
  attempts. `GroupInv` is the conjunction of `Rest` (types), `Placed` (a held member is in the
  buffer or in one batch, once, and counted), `Batches` (an answer speaks of every member of its batch),
  `PutOff` (members put off fit one batch and wait only for a pause), `Effects`, `Truths` (receipts
  account for effects and answers for both; what is in the buffer has no effect and no thread that could
  produce one) and `Ordered` (every place a normal member passes keeps the order, and what has taken effect
  is ahead of what a zombie may commit, of the batch in flight and of the buffer).
  `schedule()` ends every handler, so the parts are said of the moment before it as well, and
  `ScheduleKeeps` is proved once.

`JobQueueProofs`

* `QueueMatchesTable` (`QueuedIsScheduled`), `NeverRunAgain` (`NotRunAgain`), `IdleIsNoticed` (`IdleWakes`) and
  `FinishedStays` (`FinishedIsFinal`), for any number of processes, jobs, failing statements and overslept leases.
  `JobInv` adds to the properties that a row exists from the moment a process took the job (`Table`),
  that a process has one entry for a job at most (`Entries`), that a job which is not recovered waits only where it
  was taken and has not run (`Attempts`), that only an open process can still answer (`Promises`), and that the open
  process is the lease's owner unless it overslept (`Ownership`).

`DelegationMailboxProofs`

* `OneTurn` (`OneTurnPerMessage`), `WakesTheController` (`WakesController`), `DeliveredTruly` (`DeliveredIsTrue`) and
  `TakeoverIsAlone`, for any number of reports and of deliveries at a time, for every `Together`, all rare
  events at once included, and wherever boot stands. None has a hypothesis; what the code does not keep is an
  exception in the property itself.
* `MailInv`: the registry holds the request its row has kept, and one recorded turn at most (`OneRequest`, `RowOK`); a
  row left with the former controller has failed, or boot passed it by (`Left`); a delivery that holds its chat's lock
  carries the row's request (`OwnRequest`, `CallOK`); each call stands once in the line of its own chat and a holder
  is in front (`Lines`); once boot has reconciled, a dispatching row is leased to a delivery under way (`Leased`); one
  recorded delivery of a report at a time is past its intent (`Alone`); an open takeover is this process's or boot
  is still to carry it through (`Journal`), and where one was cut off after its rows no delivery waits for
  the former controller with a row that boot is to move (`Early`). Without the first three a second delivery could
  start the report under another request id, and without `Leased` a retry could.

## What only TLC checks

* All liveness (`NeverBlocked`, `EverySettles`, `ComesBack`, `EverySubmitSettles`, `JobEnds`,
  `EveryMessageSettles`): fairness and `ENABLED` are out of the prover's reach.

## Disagreements between code and documentation

1. `coord_lost`: `pauseForRestore` promises to "wait for the writes already in
   flight" (`coordinator.js:734-735`, `coordinator.md:90-92`). A worker given up by the
   watchdog has its write rejected at once while its thread may be inside
   COMMIT; the pause counts as drained and the write commits during the restore.
2. `job_stranded`: a job that cannot be claimed is kept queued "instead of
   stranding it until restart" (`job-queue.js:200-201`). Nothing pumps again until
   another job is enqueued or another handler ends.
3. `recovery_stop`: "If Stop lands while the continuation is starting, the claim CAS
   fails" (`docs/recovery-contract.md:768-769`, also 776-777). `noteChatRunStopped` lists only
   starting and running rows (`chat-run-recovery.ts:284`), so it cancels the continuation's own
   row and not the one under the claim, which becomes running with a turn nobody stopped.

Without a run of their own; the properties above state them as their exceptions:

4. The registry says "the same caller `requestId` never launches twice unless the earlier row is PROVEN not
   to have reached the executor" (`chat-run-recovery.ts:11-13`). The server listens before its boot opens the
   registry; in between `lookupRequest` and `beginChatRunRecord` return null (`kernel-adapter.ts:249-254`,
   `chat-run-recovery.ts:121`), and a request that was accepted before is started again, unrecorded.
   `LaunchedOnce` and `OneTurnPerMessage` count recorded turns. The last of the rules in the same comment says that a
   closed store skips recording, and gives unit tests as its case.
5. "Dispatching replies never start a second delivery" (`docs/ARCHITECTURE.md:133-134`). A retry or a
   replay in the same window starts a report's second turn, unrecorded. And `reconcileTakeoversOnBoot`
   (`delegation-service.js:6521`) takes no chat lock: while a delivery to the former controller awaits its history card
   with a row still queued, boot moves the row, a second delivery to the new controller chooses a request id of its
   own, and both may be recorded (`passed = "held"`). `BootMail` takes a row that a delivery of its own process is
   sending for one of the process before and makes it uncertain.
6. `assertWritable` says that "a past-expiry lease is renewed first, which fences us if it was taken over"
   (`coordinator.js:615-617`). `writeLease` moves `expiresAt` before it writes the file (l. 432): after a failed write
   the owner believes in a lease the file does not show, and goes on without renewing after a takeover, until the
   successor's activation fences it (`NoZombieCommit`). `LiveLeaseIsOurs` leaves out exactly that owner.
7. "A lower request that has n aged lower requests ahead of it waits at most `agingMs + (n + 1) * (K + 1) * S`"
   (`fair-queue.js:27-29`), and "an aged lower head is served within K + 1 dispatches". When nothing of a higher class waits, the
   class of the waiting request is the strict one, and a bypass may serve a younger aged head of a still lower class:
   each costs K + 1 dispatches more (`outrun` in `AgedServedInBound`), and with K = 1 one such bypass is
   enough to exceed the bound, also for a head (n = 0).

The control lock is "held only for a synchronous critical
section of a few small file operations" (`coordinator.md:53`). After a crash inside the lock, one
process judges the dead lock; a second one breaks it meanwhile and creates its own; the
first one's `rename` (`coordinator.js:353`) takes that lock aside; the second leaves its section
and `unlockIfOwned` (l. 310-318) finds no file; the first sees that it took the wrong file and
`link()`s it back (l. 367). The lock now names a live process that is in no section and is
never broken: every operation of every process fails with `control_locked` until that process
exits. `NeverBlocked` holds only with this exception (`NoOrphanLock` in its statement), and without it
TLC finds the block.

## Observations without a run

Storage and jobs:

* `Overlap = TRUE` (an `acquire()` during an awaited `activate()`) breaks
  `ActivatedIsFenced`: the epoch marked as activated is the new one, the one
  raised in the store the old one. The runtime awaits `activate()`.
* `Stalls = TRUE`: a live creator stalled between `open` and `write` for
  longer than `lockStaleMs` is broken as torn, and both processes enter.
* Two breakers of the same torn lock: the second may delete the empty lock the
  first has just created, as both contents are empty. The documentation names a
  window of this kind under "Known limits".
* The fair queue's comment says nothing of a lower class can delay a higher one
  by more than one bypass. That holds for `stop` (`StopDelayedOnce`), not for
  the classes between, and the `(n+1)(K+1)` bound is for one class of higher load.
* A duplicate of a buffered command whose twin's handler ended the transaction
  itself still runs; `AppliedOnce` excludes such commands (`rogue`).
* Priority members can hold normal ones back longer than the anti-starvation
  rule says when deferred members fill a batch.
* Job queue: `close()` releases the lease while handlers still run, and an owner that
  overslept its lease runs on and records its results unfenced. A successor may
  run the same job at the same time, against the header's "can never both own -
  and double-run - the same queue" (`job-queue.js:10-12`). Properties that this
  would disturb say `stalls = 0`.
* `start()` that throws while marking an interrupted row leaves the rows after it
  unscheduled until the next restart, as `started` is already set.
* A queue whose lease is lost keeps its waiters pending until `close()`.

Recovery:

* `docs/recovery-contract.md:736-741` says that after a release a new key can resume an
  `unknown` row with `confirmUnknown`. `selectPath` refuses it as `reprobe_pending` while
  re-probes list only starting, running and waiting rows, so it is refused for ever
  (`tests/recovery-chat-run-crash.test.js:325` only asserts another code than `already_recovering`).
* A Stop without a run id while a launch waits for the room marks the row cancelled; the turn
  is launched all the same. A Stop while a row is `recovering` is not recorded on it; if the launch is
  then refused, the row is interrupted again and may be resumed automatically.
* A death between the two transactions of one finished turn leaves the resumed row running; it
  may be resumed although its turn completed. `ClosedStaysClosed` counts a turn as over when all
  its rows are written.
* An unknown row that was escalated stays running; an automatic one holds the
  scheduler's only place (`maxConcurrent` 1) from then on.
* A recovering row without acceptance whose probe at boot says busy stays recovering until
  the next boot; `ClaimIsHeld` speaks of accepted rows.
* After `RESUME_MAX_STORED_KEYS` (20) later claims of a row its oldest key is forgotten and may resume the row
  again, the automatic key too (`KeyLaunchesOnce` names this); a repeated manual call then still fails the
  gate on its old `expectedRevision`. A continuation's own row may be
  resumed automatically after a crash, like any other.

Delegation mail:

* **Two deliveries of one report at a time.** `docs/ARCHITECTURE.md:133-134` says "dispatching replies never
  start a second delivery". A failed row keeps the former controller as its recipient; after a takeover a
  replay delivers it there while a retry delivers it to the new one, under different chat
  locks, and both write `dispatching` after the await of the history card, without an
  `expectedRevision`. The start is still made once, as both use one request id
  (`OneTurnPerMessage`), but the call that lost its lease may cancel it and the row end failed.
  `WakesController` has its exception for the same reason.
* A start that takes longer than 60 s is timed out to `uncertain`, accepted late and then
  cancelled (`cancelChatRun`); a Retry finds the request accepted and marks the report as
  delivered, though its only turn was cancelled ("Late accept must not confirm a stolen or timed-out
  lease", `delegation-mailbox.js:447`). `DeliveredIsTrue` says that the turn was started, not that it ended well.
* At shutdown a turn ends and drains its mailbox; `startChatRun` throws
  `server_shutting_down` and the report becomes `failed`, which nothing delivers again by itself, while the
  comment at `delegation-run-bridge.js:233-236` says the rows stay queued. The same holds for
  `update_in_progress`.
* A crash inside `adapter.start` leaves a row of unproven acceptance: boot makes the report uncertain, and every
  retry fails with `acceptance_unconfirmed` once the registry is open.
* A report can be skipped for the wrong chat's closed cycle: its delivery fails while a second one waits
  for the old chat, a takeover leaves the failed row there, the old chat's cycle is closed, and while the second
  delivery awaits its history card a Retry redirects the row to the new chat. The delivery then marks it
  as skipped although its recipient is open. The last line of `DeliveredIsTrue` names this.
* An adapter that never answers holds the chat's mailbox lock without a timeout.
* `enqueueMailboxMessage` (l. 939-944) says the automatic placeholder "must not block the child's
  real final report", but `createMailboxMessage` returns the placeholder's row.
* The acknowledgement is looked at before the await of the history card only, and a busy chat
  writes `queued` unconditionally after it.
* The tick drains chats that exist: mail queued for a deleted chat stays queued.

Read, not modelled:

* `delegation-owner-lock.js`: after a death in the middle of an acquire, two processes judge the dead claim; the
  slower one's `rmSync` (l. 339) removes the claim the faster one has created since, and, having reclaimed a dead
  claim, it may then steal the faster one's directory in its metadata gap (l. 370): both hold the lock, against
  the header (l. 2-3: a claim "is taken before mkdir so a metadata gap cannot be stolen"). A crash inside the
  release, or a torn claim file, blocks the directory for good.
* `recovery-owner-lease.ts`: `release` deletes the row, so generations start again at 1. Only the
  boot recovery of other families uses it.

## Not modelled

* *Storage.* Damaged (unparsable) control files: every operation fails closed. Buffered and batch
  bytes of the committer, result caps, wire formats, statement caches, metrics and logging.
  Payload validation, a `postMessage` that throws and the lengths of backoffs in the worker host.
  Single commands outside a batch (`executeCommand`), the durability barrier.
* *Jobs.* Retention and the test-result cache; priority classes there.
* *Recovery.* Rows that wait for an answer, families other than chat, the shutdown intent, queue
  entries, the owner lease, reattach (`claimHolderAlive`: nobody passes it), branches of superseded rows,
  revisions (within one synchronous stretch a CAS cannot fail), a failed write of the acceptance of the
  resumed row, and the microtask before `finishClaim` in which a finished turn could be overtaken.
* *Mailbox.* Contents, fingerprints and fences of replies, retention of bodies, accepted prompts
  without a run id, an unreadable registry, transports without `lookupRequest`, the bound on refused
  ordinals, `reportDeliveredAt` of other messages (folded into `seen`), the bound of three moves of a
  recipient (there is one takeover), the phases of boot that touch neither mail nor registry, chat ids in an order other than
  `Old` before `New`.
* *Other parts.* Migrations, maintenance and cutover of the chat store, the integration lock, the
  delegation service and its owner lock, reservations of plan windows and approvals have protocols worth
  a model (see the plan). The watcher, the browser session manager, the vendor sockets and the front end,
  which make up most of the lines, are policy, text, transport and display: their state changes
  depend on external programs and on prose, and a model of them would be of our making, not of the code.
* Clock steps: processes share one clock, as the documentation assumes.

## Plan

Done: ownership, fencing and restore pause (`StorageCoordinator`, `EpochFencing`), the lock below
(`ControlLock`), the worker host, group commit, the fair queue, the job queue, recovery of interrupted
turns, the delegation mailbox with takeover; theorems about the safety properties of all of them.

Next, in order of importance:

1. `MigrationRunner` and `MaintenanceBarrier`: chunked steps with a journal, the
   switch of a directory, gates reopened and lease released on every path, with a
   crash between any two steps.
2. `DelegationOwnerLock` and `IntegrationLock`: lock directories and files broken by
   several processes, at the granularity of `ControlLock`.
3. The owner lease of the recovery registry, for families other than chat; reservations of
   plan windows.
4. Theorems: a refinement of the mailbox's `registry` by `RunRecovery`'s rows.

Runs are kept few: a new module shares a run with the one it subsumes.
