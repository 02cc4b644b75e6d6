----------------------------- MODULE WorkerHost -----------------------------
(* The main-thread host of the storage worker: lib/storage/worker-host.js.      *)
(* Requests wait in a queue, one at a time is with the worker thread, a lost    *)
(* worker is replaced once its thread has exited, and close() drains the queue. *)
(* A closed host may be followed by another one on the same database.           *)
(*                                                                              *)
(* Every handler of the host is synchronous, so it is one action. The handlers  *)
(* call each other: each is a function from the host's state, a record, to its  *)
(* next state. Which queued request shift() returns is the subject of FairQueue, *)
(* here it is any. Elapsed time is an input.                                    *)
EXTENDS Naturals, FiniteSets

CONSTANTS
  Request,
  Write,            \* requests of a kind that writes (command, batch)
  Protected,        \* requests of a class above normal
  Thread,           \* names of worker threads; an exited thread gives its name back
  None,
  MaxDepth, MaxExpiryRetries, MaxStartAttempts, MaxWorkerLosses,
  MaxHosts          \* bound on the hosts that follow each other

\* How a worker was lost decides what its exit leads to.
Losses == {"counted", "quiet", "early", "fatal"}

ASSUME WorkerHostConstants ==
  /\ Write \subseteq Request /\ Protected \subseteq Request
  /\ None \notin Request \cup Thread \cup Losses
  /\ {MaxDepth, MaxStartAttempts, MaxWorkerLosses, MaxHosts} \subseteq Nat \ {0}
  /\ MaxExpiryRetries \in Nat

VARIABLES
  host,      \* the closure of createStorageWorkerHost, with what its callers know
  thread,    \* "none", "starting", "ready", "stopping" (terminate() was called)
  job,       \* the request a thread was sent and has not answered
  orphans,   \* orphanWorkers: threads that outlived the close() of their host
  committed, \* writes that are durable
  absent,    \* history: unknown writes that a later read found missing
  hosts      \* hosts created so far

vars == <<host, thread, job, orphans, committed, absent, hosts>>

States == {"idle", "starting", "ready", "restarting", "closing", "closed", "failed"}
Outcomes == {"new", "pending", "ok", "not_committed", "unknown"}

\* queue holds the waiting requests, due those of them whose deadline has passed;
\* armed and timer are the expiry and the restart timer, start is the promise of
\* start(), close the place where runClose() waits.
NewHost(outcome) ==
  [state |-> "idle", worker |-> None, ready |-> FALSE, onExit |-> [t \in Thread |-> None],
   queue |-> {}, due |-> {}, retries |-> [r \in Request |-> 0], inFlight |-> None,
   armed |-> FALSE, timer |-> FALSE, attempts |-> 0, losses |-> 0,
   start |-> "none", close |-> "no", outcome |-> outcome]

Init ==
  /\ host = NewHost([r \in Request |-> "new"])
  /\ thread = [t \in Thread |-> "none"] /\ job = [t \in Thread |-> None]
  /\ orphans = {} /\ committed = {} /\ absent = {} /\ hosts = 1

Live == {t \in Thread : thread[t] # "none"}

-----------------------------------------------------------------------------
(* pump() *)

Settle(h, S, what) ==
  [h EXCEPT !.outcome = [r \in Request |-> IF r \in S THEN what ELSE @[r]]]

\* expireDue(): a protected request gets another window of a ready host.
Expire(h) ==
  LET again == {r \in h.due \cap Protected : h.state = "ready" /\ h.retries[r] < MaxExpiryRetries}
      over  == h.due \ again
  IN Settle([h EXCEPT !.queue = @ \ over, !.due = {},
                      !.retries = [r \in Request |-> IF r \in again THEN @[r] + 1 ELSE @[r]]],
            over, "not_committed")

CanDispatch(h) == h.inFlight = None /\ h.ready /\ h.state \in {"ready", "closing"}

Dispatch(h) ==
  IF CanDispatch(h) /\ h.queue # {}
  THEN {[h EXCEPT !.queue = @ \ {r}, !.inFlight = r] : r \in h.queue}
  ELSE {h}

\* Mutant: the expiry timer is armed for a ready worker only.
PumpArmsReady(h) == {[d EXCEPT !.armed = d.ready /\ d.queue # {}] : d \in Dispatch(Expire(h))}

Pump(h) == {[d EXCEPT !.armed = d.queue # {}] : d \in Dispatch(Expire(h))}

-----------------------------------------------------------------------------
(* Losing a worker *)

\* Mutants: a lost write is told not to have happened; a lost read is dropped.
LossIsRefusal(h) ==
  IF h.inFlight = None THEN h
  ELSE Settle([h EXCEPT !.inFlight = None], {h.inFlight}, "not_committed")
RejectsWrites(h) == Settle([h EXCEPT !.inFlight = None], {h.inFlight} \cap Write, "unknown")

RejectInFlight(h) ==
  IF h.inFlight = None THEN h
  ELSE Settle([h EXCEPT !.inFlight = None], {h.inFlight},
              IF h.inFlight \in Write THEN "unknown" ELSE "not_committed")

LossOf(h, fatal) ==
  CASE ~h.ready -> IF fatal THEN "fatal" ELSE "early"
    [] h.ready /\ (h.inFlight # None \/ h.state # "closing") -> "counted"
    [] OTHER -> "quiet"

\* loseWorker() up to the wait for the exit of the thread.
Lost(h, loss) ==
  [RejectInFlight(h) EXCEPT
     !.worker = None, !.ready = FALSE,
     !.state = IF @ = "closing" THEN @ ELSE "restarting",
     !.losses = IF loss = "counted" /\ @ < MaxWorkerLosses THEN @ + 1 ELSE @]

FailPermanently(h) ==
  Settle([h EXCEPT !.state = "failed", !.timer = FALSE, !.queue = {}, !.due = {},
                   !.start = IF @ = "pending" THEN "rejected" ELSE @],
         h.queue, "not_committed")

ScheduleRestart(h) ==
  [h EXCEPT !.state = IF @ = "closing" THEN @ ELSE "restarting",
            !.timer = TRUE, !.armed = h.queue # {}]

\* recordStartFailure(), and the restart when it was not the last one.
StartFailure(h, fatal) ==
  LET counted == [h EXCEPT !.attempts = @ + 1]
  IN IF fatal \/ counted.attempts >= MaxStartAttempts
     THEN FailPermanently(counted) ELSE ScheduleRestart(counted)

\* Mutant: no restart while nobody waits.
RestartsOnDemand(h, loss) == IF h.queue = {} THEN h ELSE ScheduleRestart(h)

AfterLoss(h, loss) ==
  CASE h.state \in {"closed", "failed"} -> h
    [] h.state = "closing" /\ h.queue = {} -> h
    [] OTHER ->
         IF loss \in {"early", "fatal"} THEN StartFailure(h, loss = "fatal")
         ELSE IF loss = "counted" /\ h.losses >= MaxWorkerLosses THEN FailPermanently(h)
         ELSE ScheduleRestart(h)

\* Mutant: the restart does not wait for the exit.
Replaced(h, fatal) == AfterLoss(Lost(h, LossOf(h, fatal)), LossOf(h, fatal))

\* A host whose worker is terminated: the rest happens when the thread exits.
Terminated(h, fatal) ==
  [Lost(h, LossOf(h, fatal)) EXCEPT !.onExit[h.worker] = LossOf(h, fatal)]

Stopping(t) == thread' = [thread EXCEPT ![t] = "stopping"]

\* A request that was dispatched by this step is with the worker.
Sent(jobs) ==
  job' = IF host'.inFlight = None THEN jobs ELSE [jobs EXCEPT ![host'.worker] = host'.inFlight]

-----------------------------------------------------------------------------
(* The callers *)

Submit(r) ==
  /\ host.outcome[r] = "new"
  /\ IF host.state \in {"failed", "closing", "closed"} \/ Cardinality(host.queue) >= MaxDepth
     THEN host' = Settle(host, {r}, "not_committed")
     ELSE host' \in Pump(Settle([host EXCEPT !.queue = @ \cup {r}], {r}, "pending"))
  /\ Sent(job)
  /\ UNCHANGED <<thread, orphans, committed, absent, hosts>>

\* The signal of the caller: only a request still in the queue can be cancelled.
Abort(r) ==
  /\ r \in host.queue
  /\ host' \in Pump(Settle([host EXCEPT !.queue = @ \ {r}, !.due = @ \ {r}], {r}, "not_committed"))
  /\ Sent(job)
  /\ UNCHANGED <<thread, orphans, committed, absent, hosts>>

DeadlinePasses(r) ==
  /\ r \in host.queue \ host.due
  /\ host' = [host EXCEPT !.due = @ \cup {r}]
  /\ UNCHANGED <<thread, job, orphans, committed, absent, hosts>>

ExpiryTimer ==
  /\ host.armed /\ host.due # {}
  /\ host' \in Pump(host)
  /\ Sent(job)
  /\ UNCHANGED <<thread, orphans, committed, absent, hosts>>

\* A loss leaves the window of the crash-loop breaker.
LossForgotten ==
  /\ host.losses > 0 /\ host' = [host EXCEPT !.losses = @ - 1]
  /\ UNCHANGED <<thread, job, orphans, committed, absent, hosts>>

-----------------------------------------------------------------------------
(* spawn() *)

\* The new thread takes a free name, whichever it is.
SpawnThread(h) ==
  /\ Thread \ Live # {}
  /\ LET t == CHOOSE t \in Thread \ Live : TRUE IN
     /\ host' = [h EXCEPT !.worker = t, !.ready = FALSE,
                          !.state = IF @ = "closing" THEN @ ELSE "starting"]
     /\ thread' = [thread EXCEPT ![t] = "starting"]
  /\ UNCHANGED <<job, orphans, committed, absent, hosts>>

SpawnThrows(h) ==
  /\ host' = h
  /\ UNCHANGED <<thread, job, orphans, committed, absent, hosts>>

\* start() of an idle host. It refuses while a thread of a closed host lives.
MayStart == host.state = "idle" /\ host.start = "none" /\ orphans = {}

Start ==
  /\ MayStart
  /\ LET h == [host EXCEPT !.start = "pending"] IN
     SpawnThread(h) \/ SpawnThrows(FailPermanently([h EXCEPT !.attempts = @ + 1]))

RestartTimer ==
  /\ host.timer
  /\ LET h == [host EXCEPT !.timer = FALSE] IN
     \/ SpawnThread(h)
     \/ SpawnThrows(IF h.state = "closing" /\ h.queue = {} THEN h ELSE StartFailure(h, FALSE))

-----------------------------------------------------------------------------
(* The worker thread and its events *)

Ready(t) ==
  /\ t = host.worker /\ thread[t] = "starting"
  /\ thread' = [thread EXCEPT ![t] = "ready"]
  /\ host' \in Pump([host EXCEPT !.ready = TRUE, !.attempts = 0,
                                 !.state = IF @ = "closing" THEN @ ELSE "ready",
                                 !.start = IF @ = "pending" THEN "resolved" ELSE @])
  /\ Sent(job)
  /\ UNCHANGED <<orphans, committed, absent, hosts>>

StartFailed(t, fatal) ==
  /\ t = host.worker /\ thread[t] = "starting"
  /\ host' = Terminated(host, fatal) /\ Stopping(t)
  /\ UNCHANGED <<job, orphans, committed, absent, hosts>>

\* The write of a request becomes durable. A thread that is being terminated may
\* be inside the native COMMIT.
Commit(t) ==
  /\ thread[t] \in {"ready", "stopping"} /\ job[t] \in Write \ committed
  /\ committed' = committed \cup {job[t]}
  /\ UNCHANGED <<host, thread, job, orphans, absent, hosts>>

\* The answers a worker can give for a request, whose effect is durable or not;
\* "unknown" is a reply that cannot be read or a COMMIT that failed.
Answers(r) ==
  IF r \in Write THEN {"unknown", IF r \in committed THEN "ok" ELSE "not_committed"}
  ELSE {"ok", "not_committed"}

Answered(what) == Settle([host EXCEPT !.inFlight = None], {host.inFlight}, what)

Respond(t, what) ==
  /\ t = host.worker /\ thread[t] = "ready" /\ job[t] # None
  /\ what \in Answers(job[t])
  /\ host' \in Pump(Answered(what))
  /\ Sent([job EXCEPT ![t] = None])
  /\ absent' = IF what = "ok" /\ job[t] \notin Write
               THEN absent \cup {r \in Write : host.outcome[r] = "unknown" /\ r \notin committed}
               ELSE absent
  /\ UNCHANGED <<thread, orphans, committed, hosts>>

\* COMMIT failed: the worker closes its connection and is replaced (recycle).
CommitFailed(t) ==
  /\ t = host.worker /\ thread[t] = "ready" /\ job[t] \in Write
  /\ host' \in Pump(Terminated(Answered("unknown"), FALSE))
  /\ Stopping(t) /\ Sent([job EXCEPT ![t] = None])
  /\ UNCHANGED <<orphans, committed, absent, hosts>>

\* An error event, a message that cannot be read, or the watchdog.
WorkerLost(t) ==
  /\ t = host.worker /\ thread[t] \in {"starting", "ready"}
  /\ host' = Terminated(host, FALSE) /\ Stopping(t)
  /\ UNCHANGED <<job, orphans, committed, absent, hosts>>

\* The exit event; of a thread nobody terminated it is the loss itself.
Exit(t) ==
  /\ t \in Live
  /\ thread' = [thread EXCEPT ![t] = "none"] /\ job' = [job EXCEPT ![t] = None]
  /\ orphans' = orphans \ {t}
  /\ host' = CASE t = host.worker -> AfterLoss(Lost(host, LossOf(host, FALSE)), LossOf(host, FALSE))
               [] t # host.worker /\ host.onExit[t] # None ->
                    AfterLoss([host EXCEPT !.onExit[t] = None], host.onExit[t])
               [] OTHER -> host
  /\ UNCHANGED <<committed, absent, hosts>>

-----------------------------------------------------------------------------
(* close() *)

TimerStays(h) == Settle([h EXCEPT !.queue = {}, !.due = {}], h.queue, "not_committed")  \* mutant
\* runClose() after the wait for an idle host, which ends by its time at the latest.
Drained(h) ==
  Settle([h EXCEPT !.timer = FALSE, !.queue = {}, !.due = {}], h.queue, "not_committed")

StopWorker(h) ==
  IF h.worker # None /\ (h.inFlight # None \/ ~h.ready)
  THEN /\ host' = [Terminated(h, FALSE) EXCEPT !.close = "threads"]
       /\ Stopping(h.worker)
  ELSE /\ host' = [h EXCEPT !.close = IF h.worker = None THEN "threads" ELSE "exit"]
       /\ UNCHANGED thread

Close ==
  /\ host.close = "no"
  /\ LET h == [host EXCEPT !.state = "closing"] IN
     IF host.state \in {"failed", "idle"} THEN StopWorker(Drained(h))
     ELSE host' = [h EXCEPT !.close = "idle"] /\ UNCHANGED thread
  /\ UNCHANGED <<job, orphans, committed, absent, hosts>>

CloseDrains ==
  /\ host.close = "idle"
  /\ StopWorker(Drained(host))
  /\ UNCHANGED <<job, orphans, committed, absent, hosts>>

\* The worker was asked to shut down and has exited, or is terminated.
CloseStops ==
  /\ host.close = "exit"
  /\ IF host.worker = None
     THEN host' = [host EXCEPT !.close = "threads"] /\ UNCHANGED thread
     ELSE /\ host' = [Terminated(host, FALSE) EXCEPT !.close = "threads"]
          /\ Stopping(host.worker)
  /\ UNCHANGED <<job, orphans, committed, absent, hosts>>

\* Every thread has exited, or the time is over.
CloseEnds ==
  /\ host.close = "threads"
  /\ host' = [host EXCEPT !.close = "done", !.state = "closed", !.armed = FALSE,
                          !.start = IF @ = "pending" THEN "rejected" ELSE @]
  /\ orphans' = orphans \cup Live
  /\ UNCHANGED <<thread, job, committed, absent, hosts>>

NextHost ==
  /\ host.state = "closed" /\ hosts < MaxHosts
  /\ host' = NewHost(host.outcome) /\ hosts' = hosts + 1
  /\ UNCHANGED <<thread, job, orphans, committed, absent>>

Next ==
  \/ \E r \in Request : Submit(r) \/ Abort(r) \/ DeadlinePasses(r)
  \/ ExpiryTimer \/ LossForgotten \/ Start \/ RestartTimer
  \/ \E t \in Thread : Ready(t) \/ Commit(t) \/ CommitFailed(t) \/ WorkerLost(t) \/ Exit(t)
  \/ \E t \in Thread, fatal \in BOOLEAN : StartFailed(t, fatal)
  \/ \E t \in Thread, what \in Outcomes : Respond(t, what)
  \/ Close \/ CloseDrains \/ CloseStops \/ CloseEnds \/ NextHost

Spec == Init /\ [][Next]_vars

\* Timers fire, deadlines pass, a worker that starts or executes answers or is
\* lost (the watchdog), and a thread that was terminated exits.
FairSpec ==
  /\ Spec
  /\ WF_vars(ExpiryTimer) /\ WF_vars(RestartTimer)
  /\ WF_vars(CloseDrains) /\ WF_vars(CloseStops) /\ WF_vars(CloseEnds)
  /\ \A r \in Request : WF_vars(DeadlinePasses(r))
  /\ \A t \in Thread :
       /\ WF_vars(thread[t] = "stopping" /\ Exit(t))
       /\ WF_vars(Ready(t) \/ StartFailed(t, TRUE) \/ StartFailed(t, FALSE))
       /\ WF_vars(job[t] # None /\ (WorkerLost(t) \/ \E what \in Outcomes : Respond(t, what)))

-----------------------------------------------------------------------------
TypeOK ==
  /\ host.state \in States
  /\ host.worker \in Thread \cup {None} /\ host.ready \in BOOLEAN
  /\ host.onExit \in [Thread -> Losses \cup {None}]
  /\ host.queue \subseteq Request /\ host.due \subseteq host.queue
  /\ Cardinality(host.queue) <= MaxDepth
  /\ host.retries \in [Request -> 0..MaxExpiryRetries]
  /\ host.inFlight \in Request \cup {None}
  /\ host.armed \in BOOLEAN /\ host.timer \in BOOLEAN
  /\ host.attempts \in 0..MaxStartAttempts /\ host.losses \in 0..MaxWorkerLosses
  /\ host.start \in {"none", "pending", "resolved", "rejected"}
  /\ host.close \in {"no", "idle", "exit", "threads", "done"}
  /\ host.outcome \in [Request -> Outcomes]
  /\ thread \in [Thread -> {"none", "starting", "ready", "stopping"}]
  /\ job \in [Thread -> Request \cup {None}]
  /\ orphans \subseteq Live /\ committed \subseteq Write /\ absent \subseteq Write
  /\ hosts \in 1..MaxHosts

\* The type invariant, and: a request waits for its answer exactly while it is
\* queued or with the worker. Expiry, abort, dispatch, loss, permanent failure and
\* close() settle what they drop, and never touch what is still to come.
NothingLost ==
  /\ TypeOK
  /\ \A r \in Request : host.outcome[r] = "pending" <=> r \in host.queue \cup {host.inFlight}

\* What a caller was told stays true, whatever a lost thread does afterwards: "ok"
\* is durable, "not_committed" never happened and never will, and what a read
\* found missing (resolveUnknown, asked by the next worker or the next host) is
\* not committed later by the thread that was given up.
Truthful ==
  /\ absent \cap committed = {}
  /\ \A r \in Write : host.outcome[r] = "ok" => r \in committed
  /\ \A r \in Request : host.outcome[r] = "not_committed" => r \notin committed

\* "two writers never run at once": a replacement waits for the exit of the lost
\* thread, and the next host on the database for the threads of the closed one.
OneThread == Cardinality(Live) <= 1

\* A closed host has settled everything, starts no thread any more, and every
\* thread it leaves behind is known to the next host.
ClosedIsQuiet ==
  host.state = "closed" =>
    /\ host.queue = {} /\ host.inFlight = None /\ host.worker = None /\ ~host.timer
    /\ Live \subseteq orphans

\* Every request is answered, also by a host that was never started, that restarts
\* over and over, that fails or that is closed in the middle of it.
EverySettles == \A r \in Request : host.outcome[r] = "pending" ~> host.outcome[r] # "pending"

\* start() is answered, and a lost worker is replaced or given up, with nobody
\* waiting in the queue as well.
ComesBack ==
  /\ host.start = "pending" ~> host.start # "pending"
  /\ host.state = "restarting" ~> host.state \notin {"restarting", "starting"}
=============================================================================
