------------------------- MODULE StorageCoordinator -------------------------
(***************************************************************************)
(* Ownership of the chat-history store: lib/storage/coordinator.js with    *)
(* the store side of fencing, lib/storage/sqlite-worker.js.                *)
(*                                                                         *)
(* A coordinator is one createStorageCoordinator() closure, so one element *)
(* of Proc is one incarnation: its owner token is the element itself and a *)
(* crashed one never returns (a restarted server is another element).      *)
(* Sections run under the control lock are single actions; ControlLock     *)
(* says when that is justified.                                            *)
(***************************************************************************)
EXTENDS Integers, Sequences

CONSTANTS
  Proc,        \* coordinator incarnations
  None,        \* no lease file, no pause marker
  TTL,         \* ttlMs
  PauseCheck,  \* pauseCheckMs
  Overlap,     \* may acquire()/activate() be called while an activate() awaits?
  MaxTime, MaxEpoch, MaxCommits,                    \* bounds on counters
  Max          \* how often each rare event may happen: a record over Rare

\* Rare events: failed file writes, lost workers, crashes, restore pauses (own
\* and by a foreign tool), and a control directory lost or a store rolled back.
Rare == {"io", "lost", "crash", "pause", "foreign", "disaster"}

Lease == [owner : Proc, epoch : Nat, expiresAt : Nat]

ASSUME CoordinatorAssumption ==
  /\ None \notin Lease /\ None \notin Nat
  /\ TTL \in Nat \ {0}
  /\ PauseCheck \in Nat
  /\ Overlap \in BOOLEAN
  /\ {MaxTime, MaxEpoch, MaxCommits} \subseteq Nat
  /\ Max \in [Rare -> Nat]

VARIABLES
  now,         \* wall clock shared by the processes
  hwm,         \* fencing-hwm.json
  lease,       \* owner-lease.json
  marker,      \* restore-pause.json: the time it was written
  mark,        \* storage_fencing.hwm inside the store
  state, epoch, expiresAt, activatedEpoch, paused, pauseCheckedAt,
  act,         \* the activate() call under way
  drain,       \* the pauseForRestore() call under way
  inFlight,    \* epochs of the tracked writes, at most one write per epoch
  orphaned,    \* epochs of writes already rejected whose worker thread still runs
  \* history
  failed,      \* whose last write of a control file was reported as failed
  grants,      \* every <<coordinator, epoch>> ever handed out
  log,         \* the committed writes <<coordinator, epoch>>, in commit order
  spent        \* how many rare events of each kind have happened

files  == <<hwm, lease, marker>>
memory == <<state, epoch, expiresAt, activatedEpoch, paused, pauseCheckedAt, failed>>
calls  == <<act, drain, inFlight, orphaned>>
vars   == <<now, files, mark, memory, calls, grants, log, spent>>

Epoch == 1..MaxEpoch
States == {"idle", "owner", "fenced", "released", "dead"}
NoCall == [at |-> "none", n |-> 0]
NoDrain == [at |-> "none", waiting |-> {}]
Larger(a, b) == IF a >= b THEN a ELSE b

TypeOK ==
  /\ now \in Nat /\ hwm \in Nat /\ mark \in Nat
  /\ lease \in Lease \cup {None}
  /\ marker \in Nat \cup {None}
  /\ state \in [Proc -> States]
  /\ epoch \in [Proc -> Nat]
  /\ expiresAt \in [Proc -> Nat]
  /\ activatedEpoch \in [Proc -> Nat \cup {-1}]
  /\ paused \in [Proc -> BOOLEAN]
  /\ pauseCheckedAt \in [Proc -> Nat]
  /\ act \in [Proc -> [at : {"none", "reading", "read", "fencing", "raised"}, n : Nat]]
  /\ drain \in [Proc -> [at : {"none", "draining", "drained"}, waiting : SUBSET Nat]]
  /\ inFlight \in [Proc -> SUBSET Nat]
  /\ orphaned \in [Proc -> SUBSET Nat]
  /\ failed \in [Proc -> BOOLEAN]
  /\ grants \in SUBSET (Proc \X Nat)
  /\ log \in Seq(Proc \X Nat)
  /\ spent \in [Rare -> Nat]

Init ==
  /\ now = 0 /\ hwm = 0 /\ mark = 0
  /\ lease = None /\ marker = None
  /\ state = [p \in Proc |-> "idle"]
  /\ epoch = [p \in Proc |-> 0]
  /\ expiresAt = [p \in Proc |-> 0]
  /\ activatedEpoch = [p \in Proc |-> -1]
  /\ paused = [p \in Proc |-> FALSE]
  /\ pauseCheckedAt = [p \in Proc |-> 0]
  /\ act = [p \in Proc |-> NoCall]
  /\ drain = [p \in Proc |-> NoDrain]
  /\ inFlight = [p \in Proc |-> {}]
  /\ orphaned = [p \in Proc |-> {}]
  /\ failed = [p \in Proc |-> FALSE]
  /\ grants = {} /\ log = <<>>
  /\ spent = [r \in Rare |-> 0]

-----------------------------------------------------------------------------
(* Control files *)

\* How one atomic file write can end: durable; refused with the old file
\* intact; reported as failed although the new content is already visible.
Outcome == {"ok", "failed", "visible"}

Spend(rare) ==
  /\ spent[rare] < Max[rare]
  /\ spent' = [spent EXCEPT ![rare] = @ + 1]

Ends(outcome) ==
  IF outcome = "ok" THEN UNCHANGED spent ELSE Spend("io")

\* writeLease: the in-memory expiry moves before the file is written.
WriteLease(p, granted, outcome) ==
  /\ expiresAt' = [expiresAt EXCEPT ![p] = now + TTL]
  /\ lease' = IF outcome = "failed" THEN lease
              ELSE [owner |-> p, epoch |-> granted, expiresAt |-> now + TTL]
  /\ failed' = [failed EXCEPT ![p] = outcome # "ok"]

\* verifyOwnLease succeeds: our lease is on disk and no higher mark exists.
OwnLease(p) ==
  /\ lease # None
  /\ lease.owner = p
  /\ lease.epoch = epoch[p]
  /\ hwm <= epoch[p]

\* markLost: the coordinator is fenced and says so to nobody but itself.
MarkLost(p) == state' = [state EXCEPT ![p] = "fenced"]

\* Mutant: a lease about to expire is free already.
HeldOffByOne(p) ==
  /\ lease # None
  /\ lease.owner # p
  /\ now + 1 < lease.expiresAt
  /\ state[lease.owner] # "dead"

\* acquire() refuses a live foreign owner whose lease has not expired.
Held(p) ==
  /\ lease # None
  /\ lease.owner # p
  /\ now < lease.expiresAt
  /\ state[lease.owner] # "dead"

\* Mutant: the marker is read for its time only.
ReadPauseUnread(p) ==
  /\ pauseCheckedAt' = [pauseCheckedAt EXCEPT ![p] = now]
  /\ UNCHANGED paused

\* The pause marker as read from disk right now, cached with the time.
ReadPause(p) ==
  /\ paused' = [paused EXCEPT ![p] = marker # None]
  /\ pauseCheckedAt' = [pauseCheckedAt EXCEPT ![p] = now]

-----------------------------------------------------------------------------
(* Lease life cycle *)

\* Mutant: the caller of activate() does not await it.
OverlapsAnyway(p) == p \in Proc

\* The runtime awaits activate() before it lets anybody acquire again.
NoOverlap(p) == Overlap \/ act[p].at = "none"

\* What acquire() knows to be used up: both control files and, when the caller
\* has read it, the mark of the store.
Known(dbHwm) == Larger(hwm, dbHwm)

\* Mutant: the high-water mark is forgotten with the lease.
GrantedFromLease(dbHwm) == (IF lease = None THEN dbHwm ELSE Larger(dbHwm, lease.epoch)) + 1

Granted(dbHwm) ==
  (IF lease = None THEN Known(dbHwm) ELSE Larger(Known(dbHwm), lease.epoch)) + 1

\* The lease is ours and current.
Current(p, dbHwm) ==
  /\ state[p] = "owner"
  /\ lease # None /\ lease.owner = p /\ lease.epoch = epoch[p]
  /\ epoch[p] >= Known(dbHwm)

\* acquire() on such a lease: an extension, same epoch.
AcquireRenews(p, dbHwm, outcome) ==
  /\ NoOverlap(p)
  /\ Current(p, dbHwm)
  /\ WriteLease(p, epoch[p], outcome)
  /\ IF outcome = "ok" THEN ReadPause(p) ELSE UNCHANGED <<paused, pauseCheckedAt>>
  /\ Ends(outcome)
  /\ UNCHANGED <<now, hwm, marker, mark, state, epoch, activatedEpoch, calls, grants, log>>

\* acquire() that grants a new epoch: created, or taken over from a dead,
\* expired or earlier-self owner. The HWM is raised before the lease is
\* written, so a failure (or a crash) in between only skips an epoch.
AcquireGrants(p, dbHwm, outcome) ==
  LET granted == Granted(dbHwm)
  IN /\ state[p] \notin {"released", "dead"}
     /\ NoOverlap(p)
     /\ ~ Held(p)
     /\ ~ Current(p, dbHwm)
     /\ granted <= MaxEpoch
     /\ hwm' = Larger(hwm, granted)
     /\ WriteLease(p, granted, outcome)
     /\ IF outcome = "ok"
        THEN /\ epoch' = [epoch EXCEPT ![p] = granted]
             /\ state' = [state EXCEPT ![p] = "owner"]
             /\ ReadPause(p)
             /\ grants' = grants \cup {<<p, granted>>}
        ELSE UNCHANGED <<epoch, state, paused, pauseCheckedAt, grants>>
     /\ Ends(outcome)
     /\ UNCHANGED <<now, marker, mark, activatedEpoch, calls, log>>

\* The HWM write is reported as failed, or the process dies, after the new mark
\* became visible: an epoch is skipped, nothing else happens.
AcquireSkips(p, dbHwm) ==
  /\ state[p] \notin {"released", "dead"}
  /\ NoOverlap(p)
  /\ ~ Held(p) /\ ~ Current(p, dbHwm)
  /\ Granted(dbHwm) \in (hwm + 1)..MaxEpoch
  /\ hwm' = Granted(dbHwm)
  /\ failed' = [failed EXCEPT ![p] = TRUE]
  /\ Spend("io")
  /\ UNCHANGED <<now, lease, marker, mark, state, epoch, expiresAt, activatedEpoch, paused,
                 pauseCheckedAt, calls, grants, log>>

\* renew(), from its timer or by hand: refresh the pause view, extend the lease.
Renew(p, outcome) ==
  /\ state[p] = "owner"
  /\ OwnLease(p)
  /\ ReadPause(p)
  /\ WriteLease(p, epoch[p], outcome)
  /\ Ends(outcome)
  /\ UNCHANGED <<now, hwm, marker, mark, state, epoch, activatedEpoch, calls, grants, log>>

\* renew(), withOwnedLease(), pauseForRestore() and resumeAfterRestore() all
\* start with verifyOwnLease: an owner that lost the lease fences itself there.
DiscoverLoss(p) ==
  /\ state[p] = "owner"
  /\ ~ OwnLease(p)
  /\ MarkLost(p)
  /\ UNCHANGED <<now, files, mark, epoch, expiresAt, failed, activatedEpoch, paused,
                 pauseCheckedAt, calls, grants, log, spent>>

\* withOwnedLease(): a lapsed lease nobody took over is extended, then fn runs.
WithOwnedLease(p, outcome) ==
  /\ state[p] = "owner"
  /\ OwnLease(p)
  /\ now >= lease.expiresAt
  /\ WriteLease(p, epoch[p], outcome)
  /\ Ends(outcome)
  /\ UNCHANGED <<now, hwm, marker, mark, state, epoch, activatedEpoch, paused,
                 pauseCheckedAt, calls, grants, log>>

\* release(): final whatever happens; the lease file goes only if it is ours,
\* and stays behind when the control lock is busy or the file cannot be removed.
Release(p, removed) ==
  /\ state[p] \in {"idle", "owner", "fenced"}
  /\ state' = [state EXCEPT ![p] = "released"]
  /\ removed => state[p] = "owner" /\ lease # None /\ lease.owner = p
  /\ lease' = IF removed THEN None ELSE lease
  /\ IF state[p] = "owner" /\ lease # None /\ lease.owner = p /\ ~ removed
     THEN Spend("io") ELSE UNCHANGED spent
  /\ UNCHANGED <<now, hwm, marker, mark, epoch, expiresAt, failed, activatedEpoch, paused,
                 pauseCheckedAt, calls, grants, log>>

\* The process dies with its worker thread; nothing in memory survives.
Crash(p) ==
  /\ state[p] # "dead"
  /\ state' = [state EXCEPT ![p] = "dead"]
  /\ epoch' = [epoch EXCEPT ![p] = 0]
  /\ expiresAt' = [expiresAt EXCEPT ![p] = 0]
  /\ activatedEpoch' = [activatedEpoch EXCEPT ![p] = -1]
  /\ paused' = [paused EXCEPT ![p] = FALSE]
  /\ pauseCheckedAt' = [pauseCheckedAt EXCEPT ![p] = 0]
  /\ act' = [act EXCEPT ![p] = NoCall]
  /\ drain' = [drain EXCEPT ![p] = NoDrain]
  /\ inFlight' = [inFlight EXCEPT ![p] = {}]
  /\ orphaned' = [orphaned EXCEPT ![p] = {}]
  /\ failed' = [failed EXCEPT ![p] = FALSE]
  /\ Spend("crash")
  /\ UNCHANGED <<now, files, mark, grants, log>>

-----------------------------------------------------------------------------
(* activate(): three segments separated by two awaits on the worker *)

Activate(p) ==
  /\ state[p] = "owner"
  /\ act[p].at = "none"
  /\ act' = [act EXCEPT ![p] = [at |-> "reading", n |-> 0]]
  /\ UNCHANGED <<now, files, mark, memory, drain, inFlight, orphaned, grants, log, spent>>

\* A lost worker is replaced only after its thread has really exited.
WorkerUp(p) == orphaned[p] = {}

\* The worker answers control('fence') without an epoch.
StoreReadsMark(p) ==
  /\ act[p].at = "reading"
  /\ WorkerUp(p)
  /\ act' = [act EXCEPT ![p] = [at |-> "read", n |-> mark]]
  /\ UNCHANGED <<now, files, mark, memory, drain, inFlight, orphaned, grants, log, spent>>

\* Mutant: a store that already holds our epoch counts as behind.
StoreIsLevel(p) == act[p].n <= epoch[p]

StoreIsBehind(p) == act[p].n < epoch[p]

\* The store is behind our epoch: raise the control file to what it holds
\* (no ownership check) and ask the store to raise its mark to our epoch.
ActivateReconciles(p) ==
  /\ act[p].at = "read"
  /\ StoreIsBehind(p)
  /\ hwm' = Larger(hwm, act[p].n)
  /\ act' = [act EXCEPT ![p] = [at |-> "fencing", n |-> epoch[p]]]
  /\ UNCHANGED <<now, lease, marker, mark, memory, drain, inFlight, orphaned, grants, log, spent>>

\* The store is level with us or ahead: bumpEpochAbove under the lock.
ActivateBumps(p, outcome) ==
  LET granted == Larger(act[p].n, Larger(hwm, epoch[p])) + 1
  IN /\ act[p].at = "read"
     /\ ~ StoreIsBehind(p)
     /\ OwnLease(p)
     /\ granted <= MaxEpoch
     /\ hwm' = Larger(hwm, granted)
     /\ WriteLease(p, granted, outcome)
     /\ IF outcome = "ok"
        THEN /\ epoch' = [epoch EXCEPT ![p] = granted]
             /\ grants' = grants \cup {<<p, granted>>}
             /\ act' = [act EXCEPT ![p] = [at |-> "fencing", n |-> granted]]
        ELSE /\ act' = [act EXCEPT ![p] = NoCall]
             /\ UNCHANGED <<epoch, grants>>
     /\ Ends(outcome)
     /\ UNCHANGED <<now, marker, mark, state, activatedEpoch, paused, pauseCheckedAt,
                    drain, inFlight, orphaned, log>>

\* bumpEpochAbove finds the lease gone: fenced (if still owner), call rejected.
ActivateFindsLoss(p) ==
  /\ act[p].at = "read"
  /\ ~ StoreIsBehind(p)
  /\ ~ OwnLease(p)
  /\ act' = [act EXCEPT ![p] = NoCall]
  /\ IF state[p] = "owner" THEN MarkLost(p) ELSE UNCHANGED state
  /\ UNCHANGED <<now, files, mark, epoch, expiresAt, failed, activatedEpoch, paused,
                 pauseCheckedAt, drain, inFlight, orphaned, grants, log, spent>>

\* The worker runs control('fence', { fenceEpoch }): raise the mark, or refuse
\* an epoch below it, which rejects the activate() call.
StoreRaisesMark(p) ==
  /\ act[p].at = "fencing"
  /\ WorkerUp(p)
  /\ IF act[p].n < mark
     THEN /\ act' = [act EXCEPT ![p] = NoCall]
          /\ UNCHANGED mark
     ELSE /\ mark' = act[p].n
          /\ act' = [act EXCEPT ![p].at = "raised"]
  /\ UNCHANGED <<now, files, memory, drain, inFlight, orphaned, grants, log, spent>>

\* activate() is rejected on its way: the control lock is busy, a control file
\* cannot be written, or the worker is lost, before or after it raised the mark.
ActivateFails(p, raised) ==
  /\ act[p].at \in {"reading", "read", "fencing"}
  /\ raised => act[p].at = "fencing" /\ act[p].n >= mark
  /\ mark' = IF raised THEN act[p].n ELSE mark
  /\ act' = [act EXCEPT ![p] = NoCall]
  /\ Spend("io")
  /\ UNCHANGED <<now, files, memory, drain, inFlight, orphaned, grants, log>>

\* Back from the second await: the epoch read here is the current one, not the
\* one that was sent.
ActivateDone(p) ==
  /\ act[p].at = "raised"
  /\ act' = [act EXCEPT ![p] = NoCall]
  /\ IF state[p] = "owner"
     THEN activatedEpoch' = [activatedEpoch EXCEPT ![p] = epoch[p]]
     ELSE UNCHANGED activatedEpoch
  /\ UNCHANGED <<now, files, mark, state, epoch, expiresAt, failed, paused, pauseCheckedAt,
                 drain, inFlight, orphaned, grants, log, spent>>

-----------------------------------------------------------------------------
(* Guarded writes *)

\* Mutant: the cached view is believed one tick too long.
PauseViewLate(p) ==
  IF now - pauseCheckedAt[p] <= PauseCheck THEN paused[p] ELSE marker # None

\* The pause view after refreshPause(): cached inside the window.
PauseView(p) ==
  IF now - pauseCheckedAt[p] < PauseCheck THEN paused[p] ELSE marker # None

\* guardHost -> assertWritable passes: the write is queued with our epoch.
\* A lease past its expiry is renewed first, which re-reads the marker.
Dispatch(p) ==
  LET lapsed == now >= expiresAt[p]
      view   == IF lapsed THEN marker # None ELSE PauseView(p)
      reread == lapsed \/ now - pauseCheckedAt[p] >= PauseCheck
  IN /\ state[p] = "owner"
     /\ lapsed => OwnLease(p)
     /\ activatedEpoch[p] = epoch[p]
     /\ ~ view
     /\ epoch[p] \notin inFlight[p]
     /\ IF lapsed THEN WriteLease(p, epoch[p], "ok") ELSE UNCHANGED <<lease, expiresAt, failed>>
     /\ IF reread THEN ReadPause(p) ELSE UNCHANGED <<paused, pauseCheckedAt>>
     /\ inFlight' = [inFlight EXCEPT ![p] = @ \cup {epoch[p]}]
     /\ UNCHANGED <<now, hwm, marker, mark, state, epoch, activatedEpoch, act, drain,
                    orphaned, grants, log, spent>>

\* assertWritable refuses a write for the pause, after re-reading the marker.
\* (The refusals that change something else are Renew and DiscoverLoss.)
RefusePaused(p) ==
  /\ state[p] = "owner"
  /\ now < expiresAt[p]
  /\ activatedEpoch[p] = epoch[p]
  /\ now - pauseCheckedAt[p] >= PauseCheck
  /\ marker # None
  /\ ReadPause(p)
  /\ UNCHANGED <<now, files, mark, state, epoch, expiresAt, failed, activatedEpoch, calls,
                 grants, log, spent>>

\* Mutant: enforceFence is skipped.
CommitUnfenced(p, e) ==
  /\ Len(log) < MaxCommits
  /\ mark' = Larger(mark, e)
  /\ log' = Append(log, <<p, e>>)

\* The write transaction passed enforceFence and committed.
Commit(p, e) ==
  /\ e >= mark
  /\ Len(log) < MaxCommits
  /\ mark' = e
  /\ log' = Append(log, <<p, e>>)

Settle(p, e) ==
  /\ inFlight' = [inFlight EXCEPT ![p] = @ \ {e}]
  /\ drain' = [drain EXCEPT ![p].waiting = @ \ {e}]

WriteCommits(p, e) ==
  /\ e \in inFlight[p]
  /\ WorkerUp(p)
  /\ Commit(p, e)
  /\ Settle(p, e)
  /\ UNCHANGED <<now, files, memory, act, orphaned, grants, spent>>

\* Refused by the fence, or rolled back for a reason of its own.
WriteRejected(p, e) ==
  /\ e \in inFlight[p]
  /\ Settle(p, e)
  /\ UNCHANGED <<now, files, mark, memory, act, orphaned, grants, log, spent>>

\* Watchdog or close timeout: the host rejects the write as unknown_commit at
\* once, while the thread it terminates may still be inside COMMIT.
LoseWorker(p, e) ==
  /\ e \in inFlight[p]
  /\ WorkerUp(p)
  /\ Settle(p, e)
  /\ orphaned' = [orphaned EXCEPT ![p] = @ \cup {e}]
  /\ Spend("lost")
  /\ UNCHANGED <<now, files, mark, memory, act, grants, log>>

OrphanEnds(p, e, commits) ==
  /\ e \in orphaned[p]
  /\ orphaned' = [orphaned EXCEPT ![p] = @ \ {e}]
  /\ IF commits THEN Commit(p, e) ELSE UNCHANGED <<mark, log>>
  /\ UNCHANGED <<now, files, memory, act, drain, inFlight, grants, spent>>

-----------------------------------------------------------------------------
(* Restore pause *)

PauseForRestore(p, outcome) ==
  /\ state[p] = "owner"
  /\ OwnLease(p)
  /\ spent["pause"] < Max["pause"]
  /\ marker' = IF outcome = "failed" THEN marker ELSE now
  /\ IF outcome = "ok"
     THEN /\ paused' = [paused EXCEPT ![p] = TRUE]
          /\ pauseCheckedAt' = [pauseCheckedAt EXCEPT ![p] = now]
          /\ drain' = [drain EXCEPT ![p] =
               [at |-> IF inFlight[p] = {} THEN "drained" ELSE "draining", waiting |-> inFlight[p]]]
     ELSE UNCHANGED <<paused, pauseCheckedAt, drain>>
  /\ outcome # "ok" => spent["io"] < Max["io"]
  /\ spent' = [spent EXCEPT !["pause"] = @ + 1,
                           !["io"] = IF outcome = "ok" THEN @ ELSE @ + 1]
  /\ UNCHANGED <<now, hwm, lease, mark, state, epoch, expiresAt, failed, activatedEpoch, act,
                 inFlight, orphaned, grants, log>>

\* Every write tracked when the pause began has settled.
DrainDone(p) ==
  /\ drain[p].at = "draining"
  /\ drain[p].waiting = {}
  /\ drain' = [drain EXCEPT ![p].at = "drained"]
  /\ UNCHANGED <<now, files, mark, memory, act, inFlight, orphaned, grants, log, spent>>

\* The caller is told drain_timeout; the pause itself stays.
DrainTimeout(p) ==
  /\ drain[p].at = "draining"
  /\ drain' = [drain EXCEPT ![p] = NoDrain]
  /\ UNCHANGED <<now, files, mark, memory, act, inFlight, orphaned, grants, log, spent>>

\* resumeAfterRestore(): whoever removes the marker ends every earlier pause.
ResumeAfterRestore(p) ==
  /\ state[p] = "owner"
  /\ OwnLease(p)
  /\ marker' = None
  /\ paused' = [paused EXCEPT ![p] = FALSE]
  /\ pauseCheckedAt' = [pauseCheckedAt EXCEPT ![p] = now]
  /\ drain' = [q \in Proc |-> NoDrain]
  /\ UNCHANGED <<now, hwm, lease, mark, state, epoch, expiresAt, failed, activatedEpoch, act,
                 inFlight, orphaned, grants, log, spent>>

-----------------------------------------------------------------------------
(* The world around it *)

Tick ==
  /\ now < MaxTime
  /\ now' = now + 1
  /\ UNCHANGED <<files, mark, memory, calls, grants, log, spent>>

\* A restore tool in another process writes the marker.
ForeignPause ==
  /\ marker = None
  /\ marker' = now
  /\ Spend("foreign")
  /\ UNCHANGED <<now, hwm, lease, mark, memory, calls, grants, log>>

AllDown == \A p \in Proc : state[p] \in {"idle", "dead"}

\* The control directory is lost or rolled back while the server is down.
LoseControlDir ==
  /\ AllDown
  /\ hwm' = 0 /\ lease' = None /\ marker' = None
  /\ Spend("disaster")
  /\ UNCHANGED <<now, mark, memory, calls, grants, log>>

\* An offline restore puts an older store, with an older mark, in place.
RestoreStore(older) ==
  /\ AllDown
  /\ older < mark
  /\ mark' = older
  /\ Spend("disaster")
  /\ UNCHANGED <<now, files, memory, calls, grants, log>>

-----------------------------------------------------------------------------
LeaseStep(p) ==
  \/ \E dbHwm \in {0, mark}, outcome \in Outcome :
       AcquireRenews(p, dbHwm, outcome) \/ AcquireGrants(p, dbHwm, outcome)
  \/ \E dbHwm \in {0, mark} : AcquireSkips(p, dbHwm)
  \/ \E outcome \in Outcome : Renew(p, outcome) \/ WithOwnedLease(p, outcome)
  \/ DiscoverLoss(p)
  \/ \E removed \in BOOLEAN : Release(p, removed)
  \/ Crash(p)

ActivateStep(p) ==
  \/ Activate(p) \/ StoreReadsMark(p) \/ ActivateReconciles(p)
  \/ \E outcome \in Outcome : ActivateBumps(p, outcome)
  \/ ActivateFindsLoss(p) \/ StoreRaisesMark(p) \/ ActivateDone(p)
  \/ \E raised \in BOOLEAN : ActivateFails(p, raised)

WriteStep(p) ==
  \/ Dispatch(p) \/ RefusePaused(p)
  \/ \E e \in inFlight[p] : WriteCommits(p, e) \/ WriteRejected(p, e) \/ LoseWorker(p, e)
  \/ \E e \in orphaned[p], commits \in BOOLEAN : OrphanEnds(p, e, commits)

PauseStep(p) ==
  \/ \E outcome \in Outcome : PauseForRestore(p, outcome)
  \/ DrainDone(p) \/ DrainTimeout(p) \/ ResumeAfterRestore(p)

Next ==
  \/ \E p \in Proc : LeaseStep(p) \/ ActivateStep(p) \/ WriteStep(p) \/ PauseStep(p)
  \/ Tick \/ ForeignPause \/ LoseControlDir
  \/ \E older \in 0..MaxEpoch : RestoreStore(older)

Spec == Init /\ [][Next]_vars

-----------------------------------------------------------------------------
(* Properties *)

\* acquire(): "the granted epoch strictly exceeds every epoch ever granted in
\* this control dir", whatever crashes and failed file writes came before.
GrantExceedsAll ==
  [][\A p \in Proc : epoch'[p] \notin {0, epoch[p]} =>
        \A g \in grants : epoch'[p] > g[2]]_vars

\* An epoch names one coordinator: no two committed writes of different
\* coordinators carry the same epoch, even if the control directory was lost
\* or an older store restored in between. This is what fencing rests on.
EpochIdentifiesWriter ==
  \A i, j \in DOMAIN log : log[i][2] = log[j][2] => log[i][1] = log[j][1]

\* Once an owner's activate() has completed, nothing an earlier owner still has
\* queued or half executed can commit.
NoZombieCommit ==
  [][\A q \in Proc :
        /\ Len(log') > Len(log)
        /\ state[q] = "owner" /\ activatedEpoch[q] = epoch[q]
        => log'[Len(log')][2] >= epoch[q]]_vars

\* assertWritable(): "it must own a live lease". A coordinator that believes its
\* lease is live, so that it does not renew before it writes, is the one the
\* lease file names: nobody has taken over. One whose last write of a control
\* file has failed is not covered: writeLease has moved its expiry already.
LiveLeaseIsOurs ==
  \A p \in Proc : state[p] = "owner" /\ now < expiresAt[p] /\ ~ failed[p] => OwnLease(p)

\* pauseForRestore() by an activated owner resolved: until someone removes the
\* marker nothing commits, neither its own writes, nor a zombie's, nor those
\* of an owner that takes over during the restore.
QuietAfterDrain ==
  [][\A p \in Proc :
        drain[p].at = "drained" /\ activatedEpoch[p] = epoch[p] /\ epoch[p] # 0
        => log' = log]_vars

\* A marker written by anyone is noticed by every owner within pauseCheckMs:
\* no write is let through by a view of the marker older than that.
PauseNoticedInTime ==
  [][\A p \in Proc :
        inFlight'[p] \ inFlight[p] # {} => marker = None \/ now - marker < PauseCheck]_vars

\* activate(): the guard lets an owner write only after the store's mark was
\* raised to the epoch it writes with.
ActivatedIsFenced ==
  \A p \in Proc : state[p] = "owner" /\ activatedEpoch[p] = epoch[p] => mark >= epoch[p]

Abstract == INSTANCE EpochFencing WITH granted <- grants, floor <- mark

\* Files, leases, clocks, crashes and the activation handshake implement the
\* abstract epoch authority: unique growing epochs, a floor that only rises,
\* and no write below the floor or under a borrowed epoch.
ImplementsEpochFencing == Abstract!Spec
=============================================================================
