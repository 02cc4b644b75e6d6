------------------------------- MODULE JobQueue -------------------------------
(***************************************************************************)
(* The durable background job queue: lib/job-queue/job-queue.js. A server  *)
(* process owns the store through a coordinator lease, keeps the queued    *)
(* jobs in memory, claims up to Width of them at a time, and a successor   *)
(* re-queues what it left behind.                                          *)
(*                                                                         *)
(* One priority class (FairQueue has the classes) and no retention: a      *)
(* finished row is pruned after a week. The lease is kept to what the      *)
(* queue sees of it; StorageCoordinator is the real one.                   *)
(***************************************************************************)
EXTENDS Integers, Sequences, FiniteSets, SequencesExt, Filtering

CONSTANTS
  Proc,            \* createJobQueue() calls, each in a server process of its own
  Job, None,
  NonRecoverable,  \* jobs of kinds registered with recover: false
  Width,           \* concurrency
  MaxFail,         \* failing SQLite statements
  MaxStall         \* how often a live owner's lease runs out

ASSUME JobQueueAssumption ==
  /\ None \notin Proc
  /\ NonRecoverable \subseteq Job
  /\ Width \in Nat \ {0} /\ MaxFail \in Nat /\ MaxStall \in Nat

VARIABLES
  row,          \* job_queue_jobs: status of each row
  rowid,        \* rows in the order they were inserted
  lease,        \* owner-lease.json: its owner, None when released
  expired,      \* the lease has run out
  server,       \* new, open, closed or dead
  lost,         \* onLost was called
  fair, active, \* waiting jobs, jobs whose handler runs
  stale, started,
  idleWaiting,  \* somebody awaits onIdle()
  outcome,      \* the promise of enqueue()
  home,         \* history: the process that took the job
  runs,         \* history: how often its handler was started
  failed, stalls

memory == <<server, lost, fair, active, stale, started, idleWaiting>>
vars == <<row, rowid, lease, expired, memory, outcome, home, runs, failed, stalls>>

TypeOK ==
  /\ row \in [Job -> {"absent", "queued", "running", "done", "failed"}]
  /\ rowid \in Seq(Job)
  /\ lease \in Proc \cup {None} /\ expired \in BOOLEAN
  /\ server \in [Proc -> {"new", "open", "closed", "dead"}]
  /\ lost \in [Proc -> BOOLEAN] /\ started \in [Proc -> BOOLEAN]
  /\ fair \in [Proc -> Seq(Job)] /\ stale \in [Proc -> Seq(Job)]
  /\ active \in [Proc -> SUBSET Job]
  /\ \A p \in Proc : Cardinality(active[p]) <= Width
  /\ idleWaiting \in [Proc -> BOOLEAN]
  /\ outcome \in [Job -> {"none", "waiting", "resolved", "rejected", "gone"}]
  /\ home \in [Job -> Proc \cup {None}]
  /\ runs \in [Job -> Nat] /\ failed \in 0..MaxFail /\ stalls \in 0..MaxStall

Init ==
  /\ row = [j \in Job |-> "absent"] /\ rowid = <<>>
  /\ lease = None /\ expired = FALSE
  /\ server = [p \in Proc |-> "new"]
  /\ lost = [p \in Proc |-> FALSE] /\ started = [p \in Proc |-> FALSE]
  /\ fair = [p \in Proc |-> <<>>] /\ stale = [p \in Proc |-> <<>>]
  /\ active = [p \in Proc |-> {}]
  /\ idleWaiting = [p \in Proc |-> FALSE]
  /\ outcome = [j \in Job |-> "none"] /\ home = [j \in Job |-> None]
  /\ runs = [j \in Job |-> 0]
  /\ failed = 0 /\ stalls = 0

Fails == failed < MaxFail /\ failed' = failed + 1

-----------------------------------------------------------------------------
(* The lease *)

Free == expired \/ lease \in {None} \cup {q \in Proc : server[q] = "dead"}

\* A live owner does not renew in time: a suspended process, a blocked loop.
LeaseRunsOut ==
  /\ lease # None /\ ~ expired
  /\ \E p \in Proc : lease = p /\ server[p] = "open"
  /\ stalls < MaxStall
  /\ expired' = TRUE /\ stalls' = stalls + 1
  /\ UNCHANGED <<row, rowid, lease, memory, outcome, home, runs, failed>>

\* The renewal timer: a lapsed lease nobody took is extended, a taken one is lost.
RenewTimer(p) ==
  /\ server[p] = "open"
  /\ \/ lease = p /\ expired /\ expired' = FALSE /\ UNCHANGED lost
     \/ lease # p /\ ~ lost[p] /\ lost' = [lost EXCEPT ![p] = TRUE] /\ UNCHANGED expired
  /\ UNCHANGED <<row, rowid, lease, server, fair, active, stale, started, idleWaiting,
                 outcome, home, runs, failed, stalls>>

-----------------------------------------------------------------------------
(* createJobQueue() and start() *)

\* Mutant: only interrupted rows are remembered, not those still queued.
LeftRunning(j) == row[j] = "running"

\* Mutant: whatever has not succeeded is left behind.
LeftUndone(j) == row[j] \notin {"absent", "done"}

LeftBehind(j) == row[j] \in {"running", "queued"}

\* The constructor: take the lease, remember what the last owner left behind.
Open(p) ==
  /\ server[p] = "new"
  /\ Free
  /\ lease' = p /\ expired' = FALSE
  /\ server' = [server EXCEPT ![p] = "open"]
  /\ stale' = [stale EXCEPT ![p] = Filter(rowid, {j \in Job : LeftBehind(j)})]
  /\ row' = [j \in Job |-> IF row[j] = "running" THEN "queued" ELSE row[j]]
  /\ UNCHANGED <<rowid, lost, fair, active, started, idleWaiting, outcome, home, runs, failed, stalls>>

\* Mutant: the entry of a row that cannot be claimed is dropped.
DropEntry(q, n) == SubSeq(q, n + 2, Len(q))

\* The entry of a row that cannot be claimed goes back into the queue.
PutBack(q, n) == SubSeq(q, n + 2, Len(q)) \o <<q[n + 1]>>

Slots(busy) == Width - Cardinality(busy)

\* pump() on the queue q, the table rows and the running handlers busy, after
\* failing (0 or 1) statements of the same call: claims up to Width jobs, stops
\* at a row it cannot read or claim. Nothing is claimed once the queue is closed
\* or its lease lost.
Pump(p, q, rows, busy, failing) ==
  LET most == IF server[p] = "closed" \/ lost[p] THEN 0
              ELSE IF Len(q) < Slots(busy) THEN Len(q) ELSE Slots(busy)
      Claims(n) ==
        LET taken == {q[i] : i \in 1..n}
        IN /\ row' = [j \in Job |-> IF j \in taken THEN "running" ELSE rows[j]]
           /\ active' = [active EXCEPT ![p] = busy \cup taken]
           /\ runs' = [j \in Job |-> IF j \in taken THEN runs[j] + 1 ELSE runs[j]]
  IN \/ /\ failed + failing <= MaxFail
        /\ failed' = failed + failing
        /\ Claims(most)
        /\ fair' = [fair EXCEPT ![p] = SubSeq(q, most + 1, Len(q))]
     \/ \E n \in 0..(most - 1) :
          /\ failed + failing + 1 <= MaxFail
          /\ failed' = failed + failing + 1
          /\ Claims(n)
          /\ fair' = [fair EXCEPT ![p] = PutBack(q, n)]

\* Mutant: every row left behind is run again.
RecoversAll(j) == j \in Job

Recovers(j) == j \notin NonRecoverable

Leftovers(p) == IF started[p] THEN <<>> ELSE stale[p]

Start(p) ==
  LET left  == Leftovers(p)
      again == Filter(left, {j \in Job : Recovers(j)})
  IN /\ server[p] = "open"
     /\ left # <<>> \/ ~ started[p] \/ fair[p] # <<>>
     /\ started' = [started EXCEPT ![p] = TRUE]
     /\ stale' = [stale EXCEPT ![p] = IF started[p] THEN @ ELSE <<>>]
     /\ Pump(p, fair[p] \o again,
             [j \in Job |-> IF j \in ToSet(left) \ ToSet(again) THEN "failed" ELSE row[j]],
             active[p], 0)
     /\ UNCHANGED <<rowid, lease, expired, server, lost, idleWaiting, outcome, home, stalls>>

\* A leftover row cannot be marked as interrupted: start() throws there. It will
\* not look at the rest again, nor does it pump what it has pushed so far.
StartThrows(p, n) ==
  LET left == Leftovers(p)
      before == SubSeq(left, 1, n - 1)
  IN /\ server[p] = "open"
     /\ ~ Recovers(left[n])
     /\ Fails
     /\ started' = [started EXCEPT ![p] = TRUE]
     /\ stale' = [stale EXCEPT ![p] = SubSeq(left, n, Len(left))]
     /\ fair' = [fair EXCEPT ![p] = @ \o Filter(before, {j \in Job : Recovers(j)})]
     /\ row' = [j \in Job |-> IF j \in ToSet(before) /\ ~ Recovers(j) THEN "failed" ELSE row[j]]
     /\ UNCHANGED <<rowid, lease, expired, server, lost, active, idleWaiting, outcome, home,
                    runs, stalls>>

-----------------------------------------------------------------------------
(* enqueue(), handlers, onIdle(), close() *)

Enqueue(p, j) ==
  /\ server[p] = "open" /\ ~ lost[p]
  /\ row[j] = "absent" /\ home[j] = None
  /\ home' = [home EXCEPT ![j] = p]
  /\ outcome' = [outcome EXCEPT ![j] = "waiting"]
  /\ rowid' = Append(rowid, j)
  /\ Pump(p, Append(fair[p], j), [row EXCEPT ![j] = "queued"], active[p], 0)
  /\ UNCHANGED <<lease, expired, server, lost, stale, started, idleWaiting, stalls>>

RemoveEntry(q, j) == Filter(Append(q, j), Job \ {j})

\* The INSERT fails: the entry pushed just before is removed, the caller gets it.
EnqueueFails(p, j) ==
  /\ server[p] = "open" /\ ~ lost[p]
  /\ row[j] = "absent" /\ home[j] = None
  /\ fair' = [fair EXCEPT ![p] = RemoveEntry(@, j)]
  /\ Fails
  /\ UNCHANGED <<row, rowid, lease, expired, server, lost, active, stale, started,
                 idleWaiting, outcome, home, runs, stalls>>

\* markDone, skipped once the queue is closed.
Records(p, rows, j, result, written) ==
  IF server[p] = "closed" \/ ~ written THEN rows ELSE [rows EXCEPT ![j] = result]

\* Mutant: idleness is judged before the slot is released.
IdleEarly(p) == active[p] = {} /\ fair'[p] = <<>>

Idle(p) == active'[p] = {} /\ fair'[p] = <<>>

\* A handler settles: row, promise, slot, pump, idle waiters. A waiter is gone
\* once close() has rejected it or when another process took the job.
HandlerEnds(p, j, result, written) ==
  /\ server[p] \in {"open", "closed"}
  /\ j \in active[p]
  /\ ~ written => server[p] = "open"
  /\ outcome' = IF home[j] = p /\ outcome[j] = "waiting"
                THEN [outcome EXCEPT ![j] =
                       IF result = "done" /\ written THEN "resolved" ELSE "rejected"]
                ELSE outcome
  /\ Pump(p, fair[p], Records(p, row, j, result, written), active[p] \ {j},
          IF written THEN 0 ELSE 1)
  /\ idleWaiting' = [idleWaiting EXCEPT ![p] = @ /\ ~ Idle(p)]
  /\ UNCHANGED <<rowid, lease, expired, server, lost, stale, started, home, stalls>>

OnIdle(p) ==
  /\ server[p] = "open"
  /\ active[p] # {} \/ fair[p] # <<>>
  /\ ~ idleWaiting[p]
  /\ idleWaiting' = [idleWaiting EXCEPT ![p] = TRUE]
  /\ UNCHANGED <<row, rowid, lease, expired, server, lost, fair, active, stale, started,
                 outcome, home, runs, failed, stalls>>

Waiting(p) == {j \in Job : home[j] = p /\ outcome[j] = "waiting"}

\* close(): every promise is rejected, handlers go on, the lease is released.
Close(p) ==
  /\ server[p] = "open"
  /\ server' = [server EXCEPT ![p] = "closed"]
  /\ outcome' = [j \in Job |-> IF j \in Waiting(p) THEN "rejected" ELSE outcome[j]]
  /\ idleWaiting' = [idleWaiting EXCEPT ![p] = FALSE]
  /\ lease' = IF lease = p THEN None ELSE lease
  /\ expired' = (expired /\ lease # p)
  /\ UNCHANGED <<row, rowid, lost, fair, active, stale, started, home, runs, failed, stalls>>

\* The process exits or is killed; its handlers die with it.
Exit(p) ==
  /\ server[p] \in {"open", "closed"}
  /\ server' = [server EXCEPT ![p] = "dead"]
  /\ outcome' = [j \in Job |-> IF j \in Waiting(p) THEN "gone" ELSE outcome[j]]
  /\ fair' = [fair EXCEPT ![p] = <<>>] /\ stale' = [stale EXCEPT ![p] = <<>>]
  /\ active' = [active EXCEPT ![p] = {}]
  /\ idleWaiting' = [idleWaiting EXCEPT ![p] = FALSE]
  /\ lost' = [lost EXCEPT ![p] = FALSE] /\ started' = [started EXCEPT ![p] = FALSE]
  /\ UNCHANGED <<row, rowid, lease, expired, home, runs, failed, stalls>>

Ends(p, j) ==
  \E result \in {"done", "failed"}, written \in BOOLEAN : HandlerEnds(p, j, result, written)

Next ==
  \/ LeaseRunsOut
  \/ \E p \in Proc :
       \/ Open(p) \/ Start(p) \/ RenewTimer(p) \/ OnIdle(p) \/ Close(p) \/ Exit(p)
       \/ \E n \in DOMAIN Leftovers(p) : StartThrows(p, n)
       \/ \E j \in Job : Enqueue(p, j) \/ EnqueueFails(p, j) \/ Ends(p, j)

Spec == Init /\ [][Next]_vars

\* The server calls start() once its handlers are wired, and handlers settle.
FairSpec ==
  /\ Spec
  /\ \A p \in Proc : WF_vars(~ started[p] /\ Start(p))
  /\ \A p \in Proc, j \in Job : WF_vars(Ends(p, j))

-----------------------------------------------------------------------------
(* Properties *)

Sound(p) == server[p] = "open" /\ lease = p /\ stalls = 0

\* The type invariant; and "keep the job queued (still `queued` in SQLite)": memory
\* and table agree on what waits, through restarts, failed inserts, failed claims
\* and a start() that throws half way. A row only in the table is not run before the
\* next restart; an entry only in memory is nothing. A caller whose promise was
\* resolved finds the row recorded as done.
QueuedIsScheduled ==
  /\ TypeOK
  /\ \A p \in Proc : Sound(p) =>
       /\ \A j \in Job : row[j] = "queued" <=> j \in ToSet(fair[p]) \cup ToSet(stale[p])
       /\ Len(fair[p]) + Len(stale[p]) = Cardinality(ToSet(fair[p]) \cup ToSet(stale[p]))
  /\ \A j \in Job : outcome[j] = "resolved" /\ stalls = 0 => row[j] = "done"

\* A finished row stays finished, whoever starts, crashes or restarts around it,
\* as long as no owner has outlived its lease.
FinishedIsFinal ==
  [][\A j \in Job : stalls = 0 /\ row[j] \in {"done", "failed"} => row'[j] = row[j]]_vars

\* "they are failed as `interrupted`": a job of a kind with recover: false never
\* runs in another process than the one that took it.
NotRunAgain == \A j \in NonRecoverable : runs[j] <= 1

\* onIdle() has no lost wake-up.
IdleWakes ==
  \A p \in Proc : idleWaiting[p] => active[p] # {} \/ fair[p] # <<>>

\* "queued work survives a restart": a job in the table ends, in this process or
\* the next, unless no queue is open, a claim failed or an owner outlived its lease.
JobEnds ==
  \A j \in Job :
    row[j] \in {"queued", "running"} ~>
      \/ row[j] \in {"done", "failed"}
      \/ failed > 0 \/ stalls > 0
      \/ \A p \in Proc : server[p] # "open"

\* A job that cannot be claimed is kept queued "instead of stranding it until
\* restart": it is claimed or ended later by the same queue, while it is open.
NotStranded ==
  \A p \in Proc, j \in Job :
    server[p] = "open" /\ j \in ToSet(fair[p]) /\ stalls = 0 ~>
      j \notin ToSet(fair[p]) \/ server[p] # "open"
=============================================================================
