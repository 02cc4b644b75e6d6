-------------------------- MODULE WorkerHostProofs --------------------------
(***************************************************************************)
(* What the worker host guarantees for every set of requests and threads,  *)
(* every limit and every order of answers, losses, restarts and closes:    *)
(* no request is lost, no two threads run at once, a closed host is quiet,  *)
(* and what a caller was told stays true.                                  *)
(***************************************************************************)
EXTENDS WorkerHost, FiniteSetTheorems, TLAPS

-----------------------------------------------------------------------------
(* The inductive invariant *)

HostRecord ==
  [state : States, worker : Thread \cup {None}, ready : BOOLEAN,
   onExit : [Thread -> Losses \cup {None}],
   queue : SUBSET Request, due : SUBSET Request,
   retries : [Request -> 0..MaxExpiryRetries], inFlight : Request \cup {None},
   armed : BOOLEAN, timer : BOOLEAN, attempts : 0..MaxStartAttempts,
   losses : 0..MaxWorkerLosses,
   start : {"none", "pending", "resolved", "rejected"},
   close : {"no", "idle", "exit", "threads", "done"},
   outcome : [Request -> Outcomes]]

\* The books of a host: who waits is queued or with the worker, and not both.
Books(h) ==
  /\ h \in HostRecord
  /\ h.due \subseteq h.queue
  /\ IsFiniteSet(h.queue) /\ Cardinality(h.queue) <= MaxDepth
  /\ h.inFlight \notin h.queue
  /\ \A r \in Request : h.outcome[r] = "pending" <=> r \in h.queue \cup {h.inFlight}

LiveIn(th) == {t \in Thread : th[t] # "none"}

Around(th, jb, orph, com, abs) ==
  /\ th \in [Thread -> {"none", "starting", "ready", "stopping"}]
  /\ jb \in [Thread -> Request \cup {None}]
  /\ orph \subseteq LiveIn(th) /\ com \subseteq Write /\ abs \subseteq Write

\* A live thread is the worker, a terminated one whose exit the host waits for,
\* or an orphan, and there is one of them at most.
Threads(h, th, orph) ==
  /\ \A t, u \in LiveIn(th) : t = u
  /\ h.worker # None => th[h.worker] = (IF h.ready THEN "ready" ELSE "starting")
  /\ h.worker = None => ~h.ready
  /\ \A t \in Thread : h.onExit[t] # None => th[t] = "stopping"
  /\ \A t \in LiveIn(th) : t = h.worker \/ h.onExit[t] # None \/ t \in orph
  /\ h.timer => LiveIn(th) = {}

\* A thread works on what its host waits for, or on what the host has given up.
Jobs(h, th, jb) ==
  /\ \A t \in Thread : jb[t] # None => t \in LiveIn(th)
  /\ h.worker = None => h.inFlight = None
  /\ h.worker # None => jb[h.worker] = h.inFlight
  /\ h.inFlight # None => h.ready

\* The life of a host from start() to close().
Life(h, th, orph) ==
  /\ orph # {} /\ h.state # "closed" => h.start = "none"
  /\ h.start = "none" =>
       /\ h.worker = None /\ ~h.timer /\ h.state \in {"idle", "closing", "closed"}
       /\ \A t \in Thread : h.onExit[t] = None
  /\ h.state = "idle" => h.start = "none" /\ h.attempts = 0
  /\ h.state = "failed" => LiveIn(th) = {} /\ ~h.timer
  /\ h.state \in {"closing", "closed"} => h.close # "no"
  /\ h.close # "no" => h.state \in {"closing", "failed", "closed"}
  /\ h.state = "closed" <=> h.close = "done"
  /\ h.close \in {"exit", "threads", "done"} =>
       h.queue = {} /\ h.inFlight = None /\ ~h.timer
  /\ h.close \in {"threads", "done"} => h.worker = None
  /\ h.state = "closed" => LiveIn(th) \subseteq orph
  /\ h.attempts = MaxStartAttempts =>
       h.state = "failed" \/ h.close \in {"threads", "done"}

\* Whose write may still become durable: that of the request with the worker, and
\* those whose callers were told that nobody knows.
Truth(h, jb, com, abs) ==
  /\ \A r \in com : h.outcome[r] \in {"ok", "unknown"} \/ r = h.inFlight
  /\ \A r \in Write : h.outcome[r] = "ok" => r \in com
  /\ \A t \in Thread : jb[t] \in Write =>
       jb[t] = h.inFlight \/ h.outcome[jb[t]] = "unknown"
  /\ \A r \in abs : /\ h.outcome[r] = "unknown" /\ r \notin com
                    /\ \A t \in Thread : jb[t] # r

\* Stated of any values of the variables, since a handler calls several of the
\* functions above and the invariant is kept by each.
Sound(h, th, jb, orph, com, abs) ==
  /\ Books(h) /\ Around(th, jb, orph, com, abs) /\ Threads(h, th, orph)
  /\ Jobs(h, th, jb) /\ Life(h, th, orph) /\ Truth(h, jb, com, abs)

HostInv == Sound(host, thread, job, orphans, committed, absent) /\ hosts \in 1..MaxHosts

-----------------------------------------------------------------------------
(* The state functions of the host *)

\* What pump(), and whatever else settles waiting requests, leaves alone.
SameBut(h, g) ==
  /\ g.worker = h.worker /\ g.ready = h.ready /\ g.onExit = h.onExit
  /\ g.state = h.state /\ g.timer = h.timer /\ g.attempts = h.attempts
  /\ g.start = h.start /\ g.close = h.close

\* No queued request becomes anything but refused or dispatched.
Dropped(h, g) ==
  /\ g.queue \subseteq h.queue
  /\ \A r \in Request : \/ g.outcome[r] = h.outcome[r]
                        \/ r \in h.queue /\ g.outcome[r] = "not_committed"

\* expireDue() keeps the books; what it drops was queued.
LEMMA ExpireFacts ==
  ASSUME NEW h, Books(h)
  PROVE  /\ Books(Expire(h)) /\ SameBut(h, Expire(h)) /\ Dropped(h, Expire(h))
         /\ Expire(h).inFlight = h.inFlight /\ Expire(h).due = {}
<1> DEFINE again == {r \in h.due \cap Protected : h.state = "ready" /\ h.retries[r] < MaxExpiryRetries}
           over  == h.due \ again
           more  == [r \in Request |-> IF r \in again THEN h.retries[r] + 1 ELSE h.retries[r]]
           told  == [r \in Request |-> IF r \in over THEN "not_committed" ELSE h.outcome[r]]
           g     == [h EXCEPT !.queue = h.queue \ over, !.due = {}, !.retries = more, !.outcome = told]
<1>1. Expire(h) = g
  BY DEF Expire, Settle, Books, HostRecord
<1>2. more \in [Request -> 0..MaxExpiryRetries]
  BY WorkerHostConstants DEF Books, HostRecord
<1>3. told \in [Request -> Outcomes]
  BY DEF Books, HostRecord, Outcomes
<1>4. g \in HostRecord
  BY <1>2, <1>3 DEF Books, HostRecord
<1>5. IsFiniteSet(g.queue) /\ Cardinality(g.queue) <= MaxDepth
  <2>1. g.queue \subseteq h.queue
    BY DEF Books, HostRecord
  <2>2. IsFiniteSet(g.queue) /\ Cardinality(g.queue) <= Cardinality(h.queue)
    BY <2>1, FS_Subset DEF Books
  <2> QED
    BY <2>2, FS_CardinalityType, WorkerHostConstants DEF Books
<1>6. \A r \in Request : g.outcome[r] = "pending" <=> r \in g.queue \cup {g.inFlight}
  BY DEF Books, HostRecord
<1>7. Books(g)
  BY <1>4, <1>5, <1>6 DEF Books, HostRecord
<1>8. g.inFlight = h.inFlight /\ g.due = {} /\ SameBut(h, g) /\ Dropped(h, g)
  BY DEF SameBut, Dropped, Books, HostRecord
<1> HIDE DEF g
<1> QED
  BY <1>1, <1>7, <1>8

\* pump() keeps the books. It drops what has expired, and hands a queued request
\* to a ready worker that has none.
LEMMA PumpFacts ==
  ASSUME NEW h, Books(h), NEW g \in Pump(h)
  PROVE  /\ Books(g) /\ SameBut(h, g) /\ Dropped(h, g)
         /\ \/ g.inFlight = h.inFlight
            \/ /\ h.inFlight = None /\ h.ready /\ h.state \in {"ready", "closing"}
               /\ g.inFlight \in h.queue /\ g.outcome[g.inFlight] = "pending"
<1> DEFINE e == Expire(h)
<1>0. Books(e) /\ SameBut(h, e) /\ Dropped(h, e)
      /\ e.inFlight = h.inFlight /\ e.due = {}
  BY ExpireFacts
<1> HIDE DEF e
<1>1. PICK d \in Dispatch(e) : g = [d EXCEPT !.armed = d.queue # {}]
  BY DEF Pump, e
<1>2. CASE d = e
  <2>1. g \in HostRecord /\ g.queue = e.queue /\ g.due = e.due /\ g.inFlight = e.inFlight
        /\ g.outcome = e.outcome /\ SameBut(e, g)
    BY <1>0, <1>1, <1>2 DEF Books, HostRecord, SameBut
  <2> QED
    BY <1>0, <2>1 DEF Books, SameBut, Dropped
<1>3. ASSUME CanDispatch(e), NEW r \in e.queue, d = [e EXCEPT !.queue = e.queue \ {r}, !.inFlight = r]
      PROVE  Books(g) /\ SameBut(h, g) /\ Dropped(h, g)
             /\ h.inFlight = None /\ h.ready /\ h.state \in {"ready", "closing"}
             /\ g.inFlight \in h.queue /\ g.outcome[g.inFlight] = "pending"
  <2>0. e \in HostRecord /\ r \in Request
    BY <1>0, <1>3 DEF Books, HostRecord
  <2>1. g \in HostRecord /\ g.queue = e.queue \ {r} /\ g.due = e.due /\ g.inFlight = r
        /\ g.outcome = e.outcome /\ SameBut(e, g)
    BY <2>0, <1>1, <1>3 DEF HostRecord, SameBut
  <2>2. IsFiniteSet(g.queue) /\ Cardinality(g.queue) <= MaxDepth
    <3>1. IsFiniteSet(g.queue) /\ Cardinality(g.queue) <= Cardinality(e.queue)
      BY <1>0, <2>1, FS_Subset DEF Books
    <3> QED
      BY <1>0, <3>1, FS_CardinalityType, WorkerHostConstants DEF Books
  <2>3. e.inFlight = None /\ e.ready /\ e.state \in {"ready", "closing"}
    BY <1>3 DEF CanDispatch
  <2>4. None \notin Request
    BY WorkerHostConstants
  <2>5. Books(g) /\ g.outcome[r] = "pending"
    BY <1>0, <2>0, <2>1, <2>2, <2>3, <2>4 DEF Books
  <2>6. SameBut(h, g) /\ Dropped(h, g)
    BY <1>0, <2>0, <2>1 DEF SameBut, Dropped
  <2> QED
    BY <1>0, <2>0, <2>1, <2>3, <2>5, <2>6 DEF SameBut, Dropped
<1> QED
  BY <1>1, <1>2, <1>3 DEF Dispatch

\* What the caller of a request is told whose worker is lost.
GivenUp(r) == IF r \in Write THEN "unknown" ELSE "not_committed"

\* loseWorker() settles the request with the worker and nothing else.
LEMMA LostFacts ==
  ASSUME NEW h, Books(h), NEW loss \in Losses
  PROVE  LET g == Lost(h, loss) IN
         /\ Books(g) /\ g.worker = None /\ ~g.ready /\ g.inFlight = None
         /\ g.queue = h.queue /\ g.onExit = h.onExit /\ g.timer = h.timer
         /\ g.attempts = h.attempts /\ g.start = h.start /\ g.close = h.close
         /\ g.state = IF h.state = "closing" THEN "closing" ELSE "restarting"
         /\ \A r \in Request :
              g.outcome[r] = IF r = h.inFlight THEN GivenUp(r) ELSE h.outcome[r]
<1> DEFINE told == [r \in Request |-> IF r = h.inFlight THEN GivenUp(r) ELSE h.outcome[r]]
           f == [h EXCEPT !.inFlight = None, !.outcome = told]
           state == IF f.state = "closing" THEN f.state ELSE "restarting"
           losses == IF loss = "counted" /\ f.losses < MaxWorkerLosses
                     THEN f.losses + 1 ELSE f.losses
           g == [f EXCEPT !.worker = None, !.ready = FALSE, !.state = state, !.losses = losses]
<1>0. h \in HostRecord /\ None \notin Request
  BY WorkerHostConstants DEF Books
<1>1. told \in [Request -> Outcomes]
  BY <1>0 DEF GivenUp, Outcomes, HostRecord
<1>2. RejectInFlight(h) = f
  <2>1. CASE h.inFlight = None
    <3>1. told = h.outcome
      BY <1>0, <2>1 DEF HostRecord
    <3> QED
      BY <1>0, <2>1, <3>1 DEF RejectInFlight, HostRecord
  <2>2. CASE h.inFlight # None
    <3>1. told = [r \in Request |-> IF r \in {h.inFlight}
                    THEN (IF h.inFlight \in Write THEN "unknown" ELSE "not_committed")
                    ELSE h.outcome[r]]
      BY DEF GivenUp
    <3> QED
      BY <1>0, <2>2, <3>1 DEF RejectInFlight, Settle, HostRecord
  <2> QED
    BY <2>1, <2>2
<1>3. f \in HostRecord /\ f.losses \in 0..MaxWorkerLosses
  BY <1>0, <1>1 DEF HostRecord
<1>4. Lost(h, loss) = g
  BY <1>2 DEF Lost
<1>5. losses \in 0..MaxWorkerLosses /\ state \in States
  <2>1. f.losses \in 0..MaxWorkerLosses /\ f.state \in States /\ MaxWorkerLosses \in Nat
    BY <1>3, WorkerHostConstants DEF HostRecord
  <2> HIDE DEF f
  <2> QED
    BY <2>1 DEF States
<1>6. g \in HostRecord
  <2> HIDE DEF losses, state, f
  <2> QED
    BY <1>3, <1>5 DEF HostRecord
<1>7. /\ g.worker = None /\ ~g.ready /\ g.inFlight = None
      /\ g.queue = h.queue /\ g.due = h.due /\ g.onExit = h.onExit /\ g.timer = h.timer
      /\ g.attempts = h.attempts /\ g.start = h.start /\ g.close = h.close
      /\ g.outcome = told
      /\ g.state = IF h.state = "closing" THEN "closing" ELSE "restarting"
  BY <1>0 DEF HostRecord
<1> HIDE DEF g
<1>8. Books(g)
  <2>1. h.inFlight \notin h.queue /\ h.queue \subseteq Request
    BY <1>0 DEF Books, HostRecord
  <2>2. \A r \in Request : g.outcome[r] = "pending" <=> r \in h.queue
    BY <1>0, <1>7, <2>1 DEF Books, GivenUp
  <2>3. \A r \in Request : g.outcome[r] = "pending" <=> r \in g.queue \cup {g.inFlight}
    BY <1>0, <1>7, <2>2
  <2> QED
    BY <1>0, <1>6, <1>7, <2>1, <2>3 DEF Books
<1> QED
  BY <1>0, <1>4, <1>7, <1>8

\* A terminated worker: its loss, and the exit the host waits for.
LEMMA TerminatedFacts ==
  ASSUME NEW h, Books(h), h.worker # None, NEW fatal \in BOOLEAN
  PROVE  LET g == Terminated(h, fatal) IN
         /\ Books(g) /\ g.worker = None /\ ~g.ready /\ g.inFlight = None
         /\ g.queue = h.queue /\ g.timer = h.timer
         /\ g.attempts = h.attempts /\ g.start = h.start /\ g.close = h.close
         /\ g.state = IF h.state = "closing" THEN "closing" ELSE "restarting"
         /\ \A r \in Request :
              g.outcome[r] = IF r = h.inFlight THEN GivenUp(r) ELSE h.outcome[r]
         /\ g.onExit[h.worker] # None
         /\ \A t \in Thread \ {h.worker} : g.onExit[t] = h.onExit[t]
<1> DEFINE loss == LossOf(h, fatal)
           f == Lost(h, loss)
           g == Terminated(h, fatal)
<1>1. loss \in Losses
  BY DEF LossOf, Losses
<1>2. /\ Books(f) /\ f.worker = None /\ ~f.ready /\ f.inFlight = None
      /\ f.queue = h.queue /\ f.onExit = h.onExit /\ f.timer = h.timer
      /\ f.attempts = h.attempts /\ f.start = h.start /\ f.close = h.close
      /\ f.state = IF h.state = "closing" THEN "closing" ELSE "restarting"
      /\ \A r \in Request :
           f.outcome[r] = IF r = h.inFlight THEN GivenUp(r) ELSE h.outcome[r]
  BY <1>1, LostFacts
<1>3. g = [f EXCEPT !.onExit = [f.onExit EXCEPT ![h.worker] = loss]]
  BY DEF Terminated
<1> HIDE DEF f, g, loss
<1>4. f \in HostRecord /\ h.worker \in Thread /\ loss # None
  BY <1>1, <1>2, WorkerHostConstants DEF Books, HostRecord, Losses
<1>5. PICK w : w = [f.onExit EXCEPT ![h.worker] = loss]
  OBVIOUS
<1>6. w \in [Thread -> Losses \cup {None}] /\ w[h.worker] = loss
      /\ \A t \in Thread \ {h.worker} : w[t] = h.onExit[t]
  BY <1>1, <1>2, <1>4, <1>5 DEF HostRecord
<1>7. g = [f EXCEPT !.onExit = w]
  BY <1>3, <1>5
<1>8. g \in HostRecord /\ g.onExit = w /\ g.worker = f.worker /\ g.ready = f.ready
      /\ g.inFlight = f.inFlight /\ g.queue = f.queue /\ g.due = f.due /\ g.timer = f.timer
      /\ g.attempts = f.attempts /\ g.start = f.start /\ g.close = f.close
      /\ g.state = f.state /\ g.outcome = f.outcome
  BY <1>4, <1>6, <1>7 DEF HostRecord
<1>9. Books(g)
  BY <1>2, <1>8 DEF Books
<1> QED
  BY <1>2, <1>4, <1>6, <1>8, <1>9 DEF g

\* A permanent failure, and close() when it drains the queue, refuse every request
\* in the queue.
LEMMA RefusedBooks ==
  ASSUME NEW h, Books(h), NEW g \in HostRecord,
         g.queue = {}, g.due = {}, g.inFlight = h.inFlight,
         \A r \in Request :
           g.outcome[r] = IF r \in h.queue THEN "not_committed" ELSE h.outcome[r]
  PROVE  Books(g) /\ Dropped(h, g)
<1>1. IsFiniteSet(g.queue) /\ Cardinality(g.queue) <= MaxDepth
  BY FS_EmptySet, WorkerHostConstants
<1>2. \A r \in Request : g.outcome[r] = "pending" <=> r \in g.queue \cup {g.inFlight}
  BY DEF Books
<1>3. Books(g)
  BY <1>1, <1>2 DEF Books
<1>4. Dropped(h, g)
  BY DEF Dropped
<1> QED
  BY <1>3, <1>4

LEMMA FailPermanentlyFacts ==
  ASSUME NEW h, Books(h)
  PROVE  LET g == FailPermanently(h) IN
         /\ Books(g) /\ Dropped(h, g)
         /\ g.queue = {} /\ ~g.timer /\ g.state = "failed"
         /\ g.start = IF h.start = "pending" THEN "rejected" ELSE h.start
         /\ g.worker = h.worker /\ g.ready = h.ready /\ g.onExit = h.onExit
         /\ g.attempts = h.attempts /\ g.close = h.close /\ g.inFlight = h.inFlight
<1> DEFINE start == IF h.start = "pending" THEN "rejected" ELSE h.start
           told == [r \in Request |-> IF r \in h.queue THEN "not_committed" ELSE h.outcome[r]]
           f == [h EXCEPT !.state = "failed", !.timer = FALSE, !.queue = {}, !.due = {},
                          !.start = start, !.outcome = told]
<1>1. h \in HostRecord
  BY DEF Books
<1>2. FailPermanently(h) = f
  BY <1>1 DEF FailPermanently, Settle, HostRecord
<1>3. told \in [Request -> Outcomes] /\ start \in {"none", "pending", "resolved", "rejected"}
  BY <1>1 DEF HostRecord, Outcomes
<1>4. start = IF h.start = "pending" THEN "rejected" ELSE h.start
  OBVIOUS
<1>5. \A r \in Request :
        told[r] = IF r \in h.queue THEN "not_committed" ELSE h.outcome[r]
  OBVIOUS
<1> HIDE DEF start, told
<1>6. /\ f \in HostRecord /\ f.queue = {} /\ f.due = {} /\ f.outcome = told /\ ~f.timer
      /\ f.state = "failed" /\ f.start = start
      /\ f.worker = h.worker /\ f.ready = h.ready /\ f.onExit = h.onExit
      /\ f.attempts = h.attempts /\ f.close = h.close /\ f.inFlight = h.inFlight
  BY <1>1, <1>3 DEF HostRecord, States
<1> HIDE DEF f
<1>7. Books(f) /\ Dropped(h, f)
  BY <1>5, <1>6, RefusedBooks
<1> QED
  BY <1>2, <1>4, <1>6, <1>7

LEMMA DrainedFacts ==
  ASSUME NEW h, Books(h)
  PROVE  LET g == Drained(h) IN
         /\ Books(g) /\ Dropped(h, g)
         /\ g.queue = {} /\ ~g.timer /\ g.state = h.state /\ g.start = h.start
         /\ g.worker = h.worker /\ g.ready = h.ready /\ g.onExit = h.onExit
         /\ g.attempts = h.attempts /\ g.close = h.close /\ g.inFlight = h.inFlight
<1> DEFINE told == [r \in Request |-> IF r \in h.queue THEN "not_committed" ELSE h.outcome[r]]
           f == [h EXCEPT !.timer = FALSE, !.queue = {}, !.due = {}, !.outcome = told]
<1>1. h \in HostRecord
  BY DEF Books
<1>2. Drained(h) = f
  BY <1>1 DEF Drained, Settle, HostRecord
<1>3. told \in [Request -> Outcomes]
  BY <1>1 DEF HostRecord, Outcomes
<1>4. \A r \in Request :
        told[r] = IF r \in h.queue THEN "not_committed" ELSE h.outcome[r]
  OBVIOUS
<1> HIDE DEF told
<1>5. /\ f \in HostRecord /\ f.queue = {} /\ f.due = {} /\ f.outcome = told /\ ~f.timer
      /\ f.state = h.state /\ f.start = h.start
      /\ f.worker = h.worker /\ f.ready = h.ready /\ f.onExit = h.onExit
      /\ f.attempts = h.attempts /\ f.close = h.close /\ f.inFlight = h.inFlight
  BY <1>1, <1>3 DEF HostRecord
<1> HIDE DEF f
<1>6. Books(f) /\ Dropped(h, f)
  BY <1>4, <1>5, RefusedBooks
<1> QED
  BY <1>2, <1>5, <1>6

\* The states in which the exit of a lost worker leads to another one.
Resumable(h) ==
  h.state \notin {"closed", "failed"} /\ ~(h.state = "closing" /\ h.queue = {})

\* What a loss, or a start that failed, leads to.
GivesUp(h, g) ==
  /\ g.state = "failed" /\ g.queue = {} /\ ~g.timer
  /\ g.start = IF h.start = "pending" THEN "rejected" ELSE h.start

Restarts(h, g) ==
  /\ g.state = (IF h.state = "closing" THEN "closing" ELSE "restarting") /\ g.timer
  /\ g.queue = h.queue /\ g.outcome = h.outcome /\ g.start = h.start
  /\ g.attempts < MaxStartAttempts

Recovered(h, g) ==
  /\ Books(g) /\ Dropped(h, g)
  /\ g.worker = h.worker /\ g.ready = h.ready /\ g.onExit = h.onExit
  /\ g.close = h.close /\ g.inFlight = h.inFlight
  /\ GivesUp(h, g) \/ Restarts(h, g)

LEMMA ScheduleRestartFacts ==
  ASSUME NEW h, Books(h), h.attempts < MaxStartAttempts
  PROVE  Recovered(h, ScheduleRestart(h)) /\ Restarts(h, ScheduleRestart(h))
<1> DEFINE g == ScheduleRestart(h)
           state == IF h.state = "closing" THEN h.state ELSE "restarting"
           armed == h.queue # {}
<1>1. h \in HostRecord
  BY DEF Books
<1>2. g = [h EXCEPT !.state = state, !.timer = TRUE, !.armed = armed]
  BY DEF ScheduleRestart
<1>3. state \in States /\ armed \in BOOLEAN
  BY <1>1 DEF HostRecord, States
<1>4. state = IF h.state = "closing" THEN "closing" ELSE "restarting"
  OBVIOUS
<1> HIDE DEF g, state, armed
<1>5. /\ g \in HostRecord /\ g.queue = h.queue /\ g.timer /\ g.state = state /\ g.start = h.start
      /\ g.worker = h.worker /\ g.ready = h.ready /\ g.onExit = h.onExit /\ g.due = h.due
      /\ g.attempts = h.attempts /\ g.close = h.close /\ g.inFlight = h.inFlight
      /\ g.outcome = h.outcome
  BY <1>1, <1>2, <1>3 DEF HostRecord
<1>6. Books(g)
  BY <1>5 DEF Books
<1> QED
  BY <1>4, <1>5, <1>6 DEF Recovered, Restarts, Dropped, g

LEMMA StartFailureFacts ==
  ASSUME NEW h, Books(h), h.attempts < MaxStartAttempts, NEW fatal \in BOOLEAN
  PROVE  Recovered(h, StartFailure(h, fatal))
<1> DEFINE f == [h EXCEPT !.attempts = h.attempts + 1]
<1>1. h \in HostRecord /\ h.attempts \in Nat /\ MaxStartAttempts \in Nat
  BY WorkerHostConstants DEF Books, HostRecord
<1>2. /\ f \in HostRecord /\ f.queue = h.queue /\ f.timer = h.timer /\ f.state = h.state
      /\ f.start = h.start /\ f.worker = h.worker /\ f.ready = h.ready /\ f.onExit = h.onExit
      /\ f.due = h.due /\ f.close = h.close /\ f.inFlight = h.inFlight
      /\ f.outcome = h.outcome /\ f.attempts \in Nat
  BY <1>1 DEF HostRecord
<1>3. StartFailure(h, fatal) = IF fatal \/ f.attempts >= MaxStartAttempts
                               THEN FailPermanently(f) ELSE ScheduleRestart(f)
  BY DEF StartFailure
<1> HIDE DEF f
<1>4. Books(f)
  BY <1>2 DEF Books
<1>5. CASE fatal \/ f.attempts >= MaxStartAttempts
  BY <1>2, <1>3, <1>4, <1>5, FailPermanentlyFacts DEF Recovered, GivesUp, Dropped
<1>6. CASE ~(fatal \/ f.attempts >= MaxStartAttempts)
  <2>1. f.attempts < MaxStartAttempts
    BY <1>1, <1>2, <1>6
  <2> QED
    BY <1>2, <1>3, <1>4, <1>6, <2>1, ScheduleRestartFacts DEF Recovered, Restarts, Dropped
<1> QED
  BY <1>5, <1>6

\* What follows the exit of a lost worker.
LEMMA AfterLossFacts ==
  ASSUME NEW h, Books(h), NEW loss \in Losses,
         Resumable(h) => h.attempts < MaxStartAttempts
  PROVE  /\ Resumable(h) => Recovered(h, AfterLoss(h, loss))
         /\ ~Resumable(h) => AfterLoss(h, loss) = h
<1>1. CASE ~Resumable(h)
  BY <1>1 DEF Resumable, AfterLoss
<1>2. CASE Resumable(h)
  <2>1. AfterLoss(h, loss) =
          IF loss \in {"early", "fatal"} THEN StartFailure(h, loss = "fatal")
          ELSE IF loss = "counted" /\ h.losses >= MaxWorkerLosses THEN FailPermanently(h)
          ELSE ScheduleRestart(h)
    BY <1>2 DEF Resumable, AfterLoss
  <2>2. Recovered(h, StartFailure(h, loss = "fatal")) /\ Recovered(h, ScheduleRestart(h))
    BY <1>2, StartFailureFacts, ScheduleRestartFacts
  <2>3. Recovered(h, FailPermanently(h))
    BY FailPermanentlyFacts DEF Recovered, GivesUp
  <2> QED
    BY <1>2, <2>1, <2>2, <2>3
<1> QED
  BY <1>1, <1>2

-----------------------------------------------------------------------------
(* Each function keeps the invariant *)

\* The jobs after a step that leaves the host as g.
SentTo(g, jb) == IF g.inFlight = None THEN jb ELSE [jb EXCEPT ![g.worker] = g.inFlight]

\* Refusing what is queued, or sending it, makes nothing untrue.
LEMMA DroppedTruth ==
  ASSUME NEW h, NEW g, NEW jb, NEW com, NEW abs, NEW sent,
         Books(h), Books(g), Dropped(h, g), Truth(h, jb, com, abs),
         com \subseteq Write, abs \subseteq Write,
         h.inFlight # None => g.inFlight = h.inFlight,
         \A t \in Thread : sent[t] = jb[t] \/ sent[t] = g.inFlight
  PROVE  Truth(g, sent, com, abs)
<1>1. None \notin Request /\ Write \subseteq Request /\ com \subseteq Request /\ abs \subseteq Request
  BY WorkerHostConstants
<1>2. \A r \in Request : h.outcome[r] = g.outcome[r] \/ h.outcome[r] = "pending"
  BY DEF Dropped, Books
<1>3. \A r \in Request : /\ g.outcome[r] = "ok" <=> h.outcome[r] = "ok"
                         /\ g.outcome[r] = "unknown" <=> h.outcome[r] = "unknown"
  <2> SUFFICES ASSUME NEW r \in Request
               PROVE  /\ g.outcome[r] = "ok" <=> h.outcome[r] = "ok"
                      /\ g.outcome[r] = "unknown" <=> h.outcome[r] = "unknown"
    OBVIOUS
  <2>1. CASE g.outcome[r] = h.outcome[r]
    BY <2>1
  <2>2. CASE g.outcome[r] # h.outcome[r]
    <3>1. g.outcome[r] = "not_committed" /\ h.outcome[r] = "pending"
      BY <1>2, <2>2 DEF Dropped
    <3> QED
      BY <3>1
  <2> QED
    BY <2>1, <2>2
<1>4. \A r \in Request : r = g.inFlight => g.outcome[r] = "pending"
  BY DEF Books
<1>5. \A r \in com : g.outcome[r] \in {"ok", "unknown"} \/ r = g.inFlight
  BY <1>1, <1>3 DEF Truth
<1>6. \A r \in Write : g.outcome[r] = "ok" => r \in com
  BY <1>1, <1>3 DEF Truth
<1>7. \A t \in Thread : sent[t] \in Write =>
        sent[t] = g.inFlight \/ g.outcome[sent[t]] = "unknown"
  BY <1>1, <1>3 DEF Truth
<1>8. \A r \in abs : /\ g.outcome[r] = "unknown" /\ r \notin com
                     /\ \A t \in Thread : sent[t] # r
  BY <1>1, <1>3, <1>4 DEF Truth
<1> QED
  BY <1>5, <1>6, <1>7, <1>8 DEF Truth

LEMMA PumpSound ==
  ASSUME NEW h, NEW th, NEW jb, NEW orph, NEW com, NEW abs, NEW g \in Pump(h),
         Sound(h, th, jb, orph, com, abs)
  PROVE  Sound(g, th, SentTo(g, jb), orph, com, abs)
<1> DEFINE sent == SentTo(g, jb)
<1>1. /\ Books(h) /\ Books(g) /\ SameBut(h, g) /\ Dropped(h, g)
      /\ \/ g.inFlight = h.inFlight
         \/ /\ h.inFlight = None /\ h.ready /\ h.state \in {"ready", "closing"}
            /\ g.inFlight \in h.queue /\ g.outcome[g.inFlight] = "pending"
  BY PumpFacts DEF Sound
<1>2. Around(th, jb, orph, com, abs) /\ Threads(h, th, orph) /\ Jobs(h, th, jb)
      /\ Life(h, th, orph) /\ Truth(h, jb, com, abs)
  BY DEF Sound
<1>3. None \notin Request /\ None \notin Thread
  BY WorkerHostConstants
<1>4. /\ g.inFlight \in Request \cup {None} /\ g.worker \in Thread \cup {None}
      /\ h.inFlight \in Request \cup {None} /\ h.queue \subseteq Request
  BY <1>1 DEF Books, HostRecord
<1>5. g.inFlight # None => g.worker \in Thread /\ g.worker \in LiveIn(th) /\ g.ready
  BY <1>1, <1>2, <1>3, <1>4 DEF SameBut, Jobs, Threads, LiveIn
<1>6. /\ sent \in [Thread -> Request \cup {None}]
      /\ \A t \in Thread : sent[t] = IF t = g.worker /\ g.inFlight # None THEN g.inFlight ELSE jb[t]
  BY <1>2, <1>3, <1>4, <1>5 DEF SentTo, Around
<1> HIDE DEF sent
<1>7. Around(th, sent, orph, com, abs)
  BY <1>2, <1>6 DEF Around
<1>8. Threads(g, th, orph)
  BY <1>1, <1>2 DEF Threads, SameBut
<1>9. Jobs(g, th, sent)
  BY <1>1, <1>2, <1>3, <1>4, <1>5, <1>6 DEF Jobs, SameBut
<1>10. Life(g, th, orph)
  BY <1>1, <1>2 DEF Life, SameBut, Dropped
<1>11. Truth(g, sent, com, abs)
  <2>1. com \subseteq Write /\ abs \subseteq Write
    BY <1>2 DEF Around
  <2> QED
    BY <1>1, <1>2, <1>6, <2>1, DroppedTruth
<1> QED
  BY <1>1, <1>7, <1>8, <1>9, <1>10, <1>11 DEF Sound, sent

\* close() drains the queue.
LEMMA DrainedSound ==
  ASSUME NEW h, NEW th, NEW jb, NEW orph, NEW com, NEW abs,
         Sound(h, th, jb, orph, com, abs)
  PROVE  Sound(Drained(h), th, jb, orph, com, abs)
<1> DEFINE g == Drained(h)
<1>1. Books(h) /\ Around(th, jb, orph, com, abs) /\ Threads(h, th, orph) /\ Jobs(h, th, jb)
      /\ Life(h, th, orph) /\ Truth(h, jb, com, abs)
  BY DEF Sound
<1>2. /\ Books(g) /\ Dropped(h, g)
      /\ g.queue = {} /\ ~g.timer /\ g.state = h.state /\ g.start = h.start
      /\ g.worker = h.worker /\ g.ready = h.ready /\ g.onExit = h.onExit
      /\ g.attempts = h.attempts /\ g.close = h.close /\ g.inFlight = h.inFlight
  BY <1>1, DrainedFacts
<1> HIDE DEF g
<1>3. Threads(g, th, orph)
  BY <1>1, <1>2 DEF Threads
<1>4. Jobs(g, th, jb)
  BY <1>1, <1>2 DEF Jobs
<1>5. Life(g, th, orph)
  BY <1>1, <1>2 DEF Life
<1>6. Truth(g, jb, com, abs)
  <2>1. com \subseteq Write /\ abs \subseteq Write
    BY <1>1 DEF Around
  <2> QED
    BY <1>1, <1>2, <2>1, DroppedTruth
<1> QED
  BY <1>1, <1>2, <1>3, <1>4, <1>5, <1>6 DEF Sound, g

\* A host with a worker has been started, and neither failed nor closed.
LEMMA WorkerIsOfLife ==
  ASSUME NEW h, NEW th, NEW jb, NEW orph, NEW com, NEW abs,
         Sound(h, th, jb, orph, com, abs), h.worker # None
  PROVE  /\ h.worker \in Thread /\ LiveIn(th) = {h.worker} /\ h.start # "none"
         /\ h.state \notin {"idle", "failed", "closed"} /\ ~h.timer
         /\ h.close \notin {"threads", "done"} /\ h.attempts # MaxStartAttempts
         /\ orph = {} /\ \A t \in Thread : h.onExit[t] = None
<1>1. Books(h) /\ Around(th, jb, orph, com, abs) /\ Threads(h, th, orph)
      /\ Life(h, th, orph)
  BY DEF Sound
<1>2. h.worker \in Thread
  BY <1>1 DEF Books, HostRecord
<1>3. th[h.worker] \in {"ready", "starting"}
  BY <1>1 DEF Threads
<1>4. h.worker \in LiveIn(th)
  BY <1>2, <1>3 DEF LiveIn
<1>5. LiveIn(th) = {h.worker}
  BY <1>1, <1>4 DEF Threads, LiveIn
<1>6. /\ h.start # "none" /\ h.state \notin {"idle", "failed", "closed"} /\ ~h.timer
      /\ h.close \notin {"threads", "done"} /\ h.attempts # MaxStartAttempts
  BY <1>1, <1>5 DEF Life, Threads
<1>7. orph = {}
  BY <1>1, <1>6 DEF Life
<1>8. \A t \in Thread : h.onExit[t] = None
  <2> SUFFICES ASSUME NEW t \in Thread, h.onExit[t] # None
               PROVE  FALSE
    OBVIOUS
  <2>1. th[t] = "stopping"
    BY <1>1 DEF Threads
  <2>2. t \in LiveIn(th)
    BY <2>1 DEF LiveIn
  <2> QED
    BY <1>3, <1>5, <2>1, <2>2
<1> QED
  BY <1>2, <1>5, <1>6, <1>7, <1>8

\* The worker is terminated; its thread lives on until it exits.
LEMMA TerminatedSound ==
  ASSUME NEW h, NEW th, NEW jb, NEW orph, NEW com, NEW abs, NEW fatal \in BOOLEAN,
         Sound(h, th, jb, orph, com, abs), h.worker # None
  PROVE  Sound(Terminated(h, fatal), [th EXCEPT ![h.worker] = "stopping"], jb, orph, com, abs)
<1> DEFINE g == Terminated(h, fatal)
           stop == [th EXCEPT ![h.worker] = "stopping"]
<1>1. Books(h) /\ Around(th, jb, orph, com, abs) /\ Threads(h, th, orph) /\ Jobs(h, th, jb)
      /\ Life(h, th, orph) /\ Truth(h, jb, com, abs)
  BY DEF Sound
<1>2. /\ h.worker \in Thread /\ LiveIn(th) = {h.worker} /\ h.start # "none"
      /\ h.state \notin {"idle", "failed", "closed"} /\ ~h.timer
      /\ h.close \notin {"threads", "done"} /\ h.attempts # MaxStartAttempts
      /\ orph = {} /\ \A t \in Thread : h.onExit[t] = None
  BY WorkerIsOfLife
<1>3. /\ Books(g) /\ g.worker = None /\ ~g.ready /\ g.inFlight = None
      /\ g.queue = h.queue /\ g.timer = h.timer
      /\ g.attempts = h.attempts /\ g.start = h.start /\ g.close = h.close
      /\ g.state = (IF h.state = "closing" THEN "closing" ELSE "restarting")
      /\ \A r \in Request :
           g.outcome[r] = IF r = h.inFlight THEN GivenUp(r) ELSE h.outcome[r]
      /\ g.onExit[h.worker] # None
      /\ \A t \in Thread \ {h.worker} : g.onExit[t] = h.onExit[t]
  BY <1>1, TerminatedFacts
<1> HIDE DEF g
<1>4. /\ stop \in [Thread -> {"none", "starting", "ready", "stopping"}]
      /\ \A t \in Thread : stop[t] = IF t = h.worker THEN "stopping" ELSE th[t]
  BY <1>1, <1>2 DEF Around
<1> HIDE DEF stop
<1>5. LiveIn(stop) = LiveIn(th)
  BY <1>2, <1>4 DEF LiveIn
<1>6. Around(stop, jb, orph, com, abs)
  BY <1>1, <1>4, <1>5 DEF Around
<1>7. Threads(g, stop, orph)
  BY <1>1, <1>2, <1>3, <1>4, <1>5 DEF Threads
<1>8. Jobs(g, stop, jb)
  BY <1>1, <1>3, <1>5 DEF Jobs
<1>9. Life(g, stop, orph)
  BY <1>1, <1>2, <1>3, <1>5 DEF Life
<1>10. Truth(g, jb, com, abs)
  <2>1. com \subseteq Write /\ abs \subseteq Write /\ Write \subseteq Request
    BY <1>1, WorkerHostConstants DEF Around
  <2>2. \A r \in Request : r = h.inFlight => h.outcome[r] = "pending"
    BY <1>1 DEF Books
  <2> QED
    BY <1>1, <1>3, <2>1, <2>2 DEF Truth, GivenUp
<1> QED
  BY <1>3, <1>6, <1>7, <1>8, <1>9, <1>10 DEF Sound, g, stop

\* What follows the exit of the last thread of a started host.
LEMMA AfterLossSound ==
  ASSUME NEW h, NEW th, NEW jb, NEW orph, NEW com, NEW abs, NEW loss \in Losses,
         Sound(h, th, jb, orph, com, abs),
         LiveIn(th) = {}, h.worker = None, h.start # "none"
  PROVE  Sound(AfterLoss(h, loss), th, jb, orph, com, abs)
<1> DEFINE g == AfterLoss(h, loss)
<1>1. Books(h) /\ Around(th, jb, orph, com, abs) /\ Threads(h, th, orph) /\ Jobs(h, th, jb)
      /\ Life(h, th, orph) /\ Truth(h, jb, com, abs)
  BY DEF Sound
<1>2. h.attempts \in 0..MaxStartAttempts /\ MaxStartAttempts \in Nat
  BY <1>1, WorkerHostConstants DEF Books, HostRecord
<1>3. Resumable(h) => /\ h.attempts # MaxStartAttempts
                      /\ h.close \notin {"exit", "threads", "done"}
                      /\ h.state \notin {"closed", "failed", "idle"}
  BY <1>1 DEF Life, Resumable
<1>4. Resumable(h) => h.attempts < MaxStartAttempts
  BY <1>2, <1>3
<1>5. CASE ~Resumable(h)
  BY <1>1, <1>4, <1>5, AfterLossFacts
<1>6. CASE Resumable(h)
  <2>1. Recovered(h, g)
    BY <1>1, <1>4, <1>6, AfterLossFacts
  <2> HIDE DEF g
  <2>2. /\ Books(g) /\ Dropped(h, g)
        /\ g.worker = h.worker /\ g.ready = h.ready /\ g.onExit = h.onExit
        /\ g.close = h.close /\ g.inFlight = h.inFlight
    BY <2>1 DEF Recovered
  <2>3. g.start # "none"
    BY <2>1 DEF Recovered, GivesUp, Restarts
  <2>4. Threads(g, th, orph)
    BY <1>1, <2>2 DEF Threads
  <2>5. Jobs(g, th, jb)
    BY <1>1, <2>2 DEF Jobs
  <2>6. Life(g, th, orph)
    <3>1. CASE GivesUp(h, g)
      BY <1>1, <1>3, <1>6, <2>2, <2>3, <3>1 DEF Life, GivesUp
    <3>2. CASE Restarts(h, g)
      BY <1>1, <1>2, <1>3, <1>6, <2>2, <2>3, <3>2 DEF Life, Restarts
    <3> QED
      BY <2>1, <3>1, <3>2 DEF Recovered
  <2>7. Truth(g, jb, com, abs)
    <3>1. com \subseteq Write /\ abs \subseteq Write
      BY <1>1 DEF Around
    <3> QED
      BY <1>1, <2>2, <3>1, DroppedTruth
  <2> QED
    BY <1>1, <2>2, <2>4, <2>5, <2>6, <2>7 DEF Sound, g
<1> QED
  BY <1>5, <1>6

-----------------------------------------------------------------------------
(* The actions *)

Now == Sound(host, thread, job, orphans, committed, absent)

LEMMA HostParts ==
  ASSUME Now
  PROVE  /\ Books(host) /\ Around(thread, job, orphans, committed, absent)
         /\ Threads(host, thread, orphans) /\ Jobs(host, thread, job)
         /\ Life(host, thread, orphans) /\ Truth(host, job, committed, absent)
         /\ host \in HostRecord
  BY DEF Now, Sound, Books

\* Pump is the last call of a handler.
LEMMA PumpStep ==
  ASSUME NEW h, NEW th, NEW jb, NEW orph, NEW com, NEW abs,
         Sound(h, th, jb, orph, com, abs),
         host' \in Pump(h), thread' = th, Sent(jb), orphans' = orph,
         committed' = com, absent' = abs
  PROVE  Now'
<1>1. job' = SentTo(host', jb)
  BY DEF Sent, SentTo
<1>2. Sound(host', th, SentTo(host', jb), orph, com, abs)
  BY PumpSound
<1> QED
  BY <1>1, <1>2 DEF Now

LEMMA NothingSent ==
  ASSUME NEW h, NEW g, NEW th, NEW jb, Jobs(h, th, jb), Books(h),
         jb \in [Thread -> Request \cup {None}],
         g.worker = h.worker, g.inFlight = h.inFlight
  PROVE  SentTo(g, jb) = jb
<1>1. CASE h.inFlight = None
  BY <1>1 DEF SentTo
<1>2. CASE h.inFlight # None
  <2>1. h.worker \in Thread /\ jb[h.worker] = h.inFlight
    BY <1>2 DEF Jobs, Books, HostRecord
  <2> QED
    BY <1>2, <2>1 DEF SentTo
<1> QED
  BY <1>1, <1>2

LEMMA SubmitStep ==
  ASSUME Now, NEW r \in Request, Submit(r)
  PROVE  Now'
<1>0. /\ Books(host) /\ Around(thread, job, orphans, committed, absent)
      /\ Threads(host, thread, orphans) /\ Jobs(host, thread, job)
      /\ Life(host, thread, orphans) /\ Truth(host, job, committed, absent)
      /\ host \in HostRecord
  BY HostParts
<1>1. host.outcome[r] = "new" /\ r \notin host.queue /\ r # host.inFlight /\ None \notin Request
  BY <1>0, WorkerHostConstants DEF Submit, Books
<1>2. r \notin committed /\ r \notin absent /\ \A t \in Thread : job[t] \in Write => job[t] # r
  BY <1>0, <1>1 DEF Truth
<1>3. committed \subseteq Request /\ absent \subseteq Request /\ Write \subseteq Request
  BY <1>0, WorkerHostConstants DEF Around
<1>4. CASE host.state \in {"failed", "closing", "closed"} \/ Cardinality(host.queue) >= MaxDepth
  <2> DEFINE told == [q \in Request |-> IF q \in {r} THEN "not_committed" ELSE host.outcome[q]]
  <2>1. host' = [host EXCEPT !.outcome = told]
    BY <1>4 DEF Submit, Settle
  <2>2. told \in [Request -> Outcomes]
    BY <1>0 DEF HostRecord, Outcomes
  <2>3. \A q \in Request : told[q] = IF q = r THEN "not_committed" ELSE host.outcome[q]
    OBVIOUS
  <2> HIDE DEF told
  <2>4. /\ host' \in HostRecord /\ host'.queue = host.queue /\ host'.due = host.due
        /\ host'.inFlight = host.inFlight /\ host'.outcome = told /\ SameBut(host, host')
    BY <1>0, <2>1, <2>2 DEF HostRecord, SameBut
  <2>5. Books(host')
    BY <1>0, <1>1, <2>3, <2>4 DEF Books
  <2>6. Threads(host', thread, orphans) /\ Jobs(host', thread, job) /\ Life(host', thread, orphans)
    BY <1>0, <2>4 DEF Threads, Jobs, Life, SameBut
  <2>7. Truth(host', job, committed, absent)
    BY <1>0, <1>1, <1>2, <1>3, <2>3, <2>4 DEF Truth
  <2>8. job' = job
    <3>1. job' = SentTo(host', job)
      BY DEF Submit, Sent, SentTo
    <3> QED
      BY <1>0, <2>4, <3>1, NothingSent DEF SameBut, Around
  <2> QED
    BY <1>0, <2>5, <2>6, <2>7, <2>8 DEF Submit, Now, Sound
<1>5. CASE ~(host.state \in {"failed", "closing", "closed"} \/ Cardinality(host.queue) >= MaxDepth)
  <2> DEFINE told == [q \in Request |-> IF q \in {r} THEN "pending" ELSE host.outcome[q]]
             queue == host.queue \cup {r}
             h == [host EXCEPT !.queue = queue, !.outcome = told]
  <2>1. host' \in Pump(h)
    BY <1>0, <1>5 DEF Submit, Settle, HostRecord
  <2>2. told \in [Request -> Outcomes]
    BY <1>0 DEF HostRecord, Outcomes
  <2>3. \A q \in Request : told[q] = IF q = r THEN "pending" ELSE host.outcome[q]
    OBVIOUS
  <2>4. queue \in SUBSET Request /\ host.queue \subseteq queue /\ r \in queue
        /\ \A q \in Request : q \in queue <=> q = r \/ q \in host.queue
    BY <1>0 DEF HostRecord
  <2>5. IsFiniteSet(queue) /\ Cardinality(queue) <= MaxDepth
    <3>1. IsFiniteSet(queue) /\ Cardinality(queue) = Cardinality(host.queue) + 1
      BY <1>0, <1>1, FS_AddElement DEF Books
    <3>2. Cardinality(host.queue) \in Nat /\ MaxDepth \in Nat
      BY <1>0, FS_CardinalityType, WorkerHostConstants DEF Books
    <3> QED
      BY <1>5, <3>1, <3>2
  <2> HIDE DEF told, queue
  <2>6. /\ h \in HostRecord /\ h.queue = queue /\ h.due = host.due
        /\ h.inFlight = host.inFlight /\ h.outcome = told /\ SameBut(host, h)
    BY <1>0, <2>2, <2>4 DEF HostRecord, SameBut
  <2> HIDE DEF h
  <2>7. Books(h)
    <3>1. \A q \in Request : h.outcome[q] = "pending" <=> q \in h.queue \cup {h.inFlight}
      BY <1>0, <2>3, <2>4, <2>6 DEF Books
    <3>2. h.inFlight \notin h.queue
      BY <1>0, <1>1, <2>4, <2>6 DEF Books, HostRecord
    <3> QED
      BY <1>0, <2>4, <2>5, <2>6, <3>1, <3>2 DEF Books
  <2>8. Threads(h, thread, orphans) /\ Jobs(h, thread, job)
    BY <1>0, <2>6 DEF Threads, Jobs, SameBut
  <2>9. Life(h, thread, orphans)
    <3>1. host.close = "no"
      BY <1>0, <1>5 DEF Life
    <3> QED
      BY <1>0, <2>6, <3>1 DEF Life, SameBut
  <2>10. Truth(h, job, committed, absent)
    BY <1>0, <1>1, <1>2, <1>3, <2>3, <2>6 DEF Truth
  <2>11. Sound(h, thread, job, orphans, committed, absent)
    BY <1>0, <2>7, <2>8, <2>9, <2>10 DEF Sound
  <2> QED
    BY <2>1, <2>11, PumpStep DEF Submit
<1> QED
  BY <1>4, <1>5

LEMMA AbortStep ==
  ASSUME Now, NEW r \in Request, Abort(r)
  PROVE  Now'
<1>0. /\ Books(host) /\ Around(thread, job, orphans, committed, absent)
      /\ Threads(host, thread, orphans) /\ Jobs(host, thread, job)
      /\ Life(host, thread, orphans) /\ Truth(host, job, committed, absent)
      /\ host \in HostRecord
  BY HostParts
<1> DEFINE told == [q \in Request |-> IF q \in {r} THEN "not_committed" ELSE host.outcome[q]]
           queue == host.queue \ {r}
           due == host.due \ {r}
           h == [host EXCEPT !.queue = queue, !.due = due, !.outcome = told]
<1>1. host' \in Pump(h) /\ r \in host.queue
  BY <1>0 DEF Abort, Settle, HostRecord
<1>2. told \in [Request -> Outcomes]
  BY <1>0 DEF HostRecord, Outcomes
<1>3. \A q \in Request : told[q] = IF q = r THEN "not_committed" ELSE host.outcome[q]
  OBVIOUS
<1>4. queue \in SUBSET Request /\ due \in SUBSET Request /\ due \subseteq queue
      /\ queue \subseteq host.queue
      /\ \A q \in Request : q \in queue <=> q # r /\ q \in host.queue
  BY <1>0 DEF HostRecord, Books
<1>5. IsFiniteSet(queue) /\ Cardinality(queue) <= MaxDepth
  <2>1. IsFiniteSet(queue) /\ Cardinality(queue) <= Cardinality(host.queue)
    BY <1>0, <1>4, FS_Subset DEF Books
  <2> QED
    BY <1>0, <2>1, FS_CardinalityType, WorkerHostConstants DEF Books
<1> HIDE DEF told, queue, due
<1>6. /\ h \in HostRecord /\ h.queue = queue /\ h.due = due
      /\ h.inFlight = host.inFlight /\ h.outcome = told /\ SameBut(host, h)
  BY <1>0, <1>2, <1>4 DEF HostRecord, SameBut
<1> HIDE DEF h
<1>7. Books(h)
  <2>1. h.inFlight \notin h.queue /\ r # h.inFlight
    BY <1>0, <1>1, <1>4, <1>6 DEF Books
  <2>2. \A q \in Request : h.outcome[q] = "pending" <=> q \in h.queue \cup {h.inFlight}
    BY <1>0, <1>3, <1>4, <1>6, <2>1 DEF Books
  <2> QED
    BY <1>4, <1>5, <1>6, <2>1, <2>2 DEF Books
<1>8. Dropped(host, h)
  BY <1>1, <1>3, <1>4, <1>6 DEF Dropped
<1>9. Threads(h, thread, orphans) /\ Jobs(h, thread, job) /\ Life(h, thread, orphans)
  BY <1>0, <1>4, <1>6 DEF Threads, Jobs, Life, SameBut
<1>10. Truth(h, job, committed, absent)
  <2>1. committed \subseteq Write /\ absent \subseteq Write
    BY <1>0 DEF Around
  <2> QED
    BY <1>0, <1>6, <1>7, <1>8, <2>1, DroppedTruth
<1>11. Sound(h, thread, job, orphans, committed, absent)
  BY <1>0, <1>7, <1>9, <1>10 DEF Sound
<1> QED
  BY <1>1, <1>11, PumpStep DEF Abort

\* A deadline that passes, or a loss that is forgotten, only changes its own field.
LEMMA TickStep ==
  ASSUME Now, NEW h, h \in HostRecord, host' = h,
         SameBut(host, h), h.queue = host.queue, h.inFlight = host.inFlight,
         h.outcome = host.outcome, h.due \subseteq h.queue,
         UNCHANGED <<thread, job, orphans, committed, absent>>
  PROVE  Now'
<1>0. /\ Books(host) /\ Around(thread, job, orphans, committed, absent)
      /\ Threads(host, thread, orphans) /\ Jobs(host, thread, job)
      /\ Life(host, thread, orphans) /\ Truth(host, job, committed, absent)
      /\ host \in HostRecord
  BY HostParts
<1>1. Books(h)
  BY <1>0 DEF Books
<1>2. Threads(h, thread, orphans) /\ Jobs(h, thread, job) /\ Life(h, thread, orphans)
      /\ Truth(h, job, committed, absent)
  BY <1>0 DEF Threads, Jobs, Life, Truth, SameBut
<1> QED
  BY <1>0, <1>1, <1>2 DEF Now, Sound

LEMMA TimeStep ==
  ASSUME Now, ExpiryTimer \/ LossForgotten \/ \E r \in Request : DeadlinePasses(r)
  PROVE  Now'
<1>0. Books(host) /\ host \in HostRecord /\ MaxWorkerLosses \in Nat
  BY HostParts, WorkerHostConstants
<1>1. CASE ExpiryTimer
  BY <1>1, PumpStep DEF ExpiryTimer, Now
<1>2. CASE LossForgotten
  <2> DEFINE h == [host EXCEPT !.losses = host.losses - 1]
  <2>1. host.losses - 1 \in 0..MaxWorkerLosses
    BY <1>0, <1>2 DEF LossForgotten, HostRecord
  <2>2. /\ h \in HostRecord /\ SameBut(host, h) /\ h.queue = host.queue /\ h.due = host.due
        /\ h.inFlight = host.inFlight /\ h.outcome = host.outcome
    BY <1>0, <2>1 DEF HostRecord, SameBut
  <2>3. host' = h /\ UNCHANGED <<thread, job, orphans, committed, absent>>
    BY <1>2 DEF LossForgotten
  <2>4. h.due \subseteq h.queue
    BY <1>0, <2>2 DEF Books
  <2> HIDE DEF h
  <2> QED
    BY <2>2, <2>3, <2>4, TickStep
<1>3. ASSUME NEW r \in Request, DeadlinePasses(r)
      PROVE  Now'
  <2> DEFINE due == host.due \cup {r}
             h == [host EXCEPT !.due = due]
  <2>1. due \in SUBSET Request /\ due \subseteq host.queue
    BY <1>0, <1>3 DEF DeadlinePasses, HostRecord, Books
  <2> HIDE DEF due
  <2>2. /\ h \in HostRecord /\ SameBut(host, h) /\ h.queue = host.queue /\ h.due = due
        /\ h.inFlight = host.inFlight /\ h.outcome = host.outcome
    BY <1>0, <2>1 DEF HostRecord, SameBut
  <2>3. host' = h /\ UNCHANGED <<thread, job, orphans, committed, absent>>
    BY <1>3 DEF DeadlinePasses, due
  <2>4. h.due \subseteq h.queue
    BY <2>1, <2>2
  <2> HIDE DEF h
  <2> QED
    BY <2>2, <2>3, <2>4, TickStep
<1> QED
  BY <1>1, <1>2, <1>3

\* A host without threads of its own takes a new one.
LEMMA SpawnStep ==
  ASSUME Now, Live = {}, NEW h \in HostRecord, SpawnThread(h),
         h.queue = host.queue, h.due = host.due, h.inFlight = host.inFlight,
         h.outcome = host.outcome, h.worker = host.worker, h.onExit = host.onExit,
         h.attempts = host.attempts, h.close = host.close, h.state = host.state,
         ~h.timer, h.start # "none", host.state # "failed",
         host.close \notin {"exit", "threads", "done"}
  PROVE  Now'
<1>0. /\ Books(host) /\ Around(thread, job, orphans, committed, absent)
      /\ Threads(host, thread, orphans) /\ Jobs(host, thread, job)
      /\ Life(host, thread, orphans) /\ Truth(host, job, committed, absent)
      /\ host \in HostRecord
  BY HostParts
<1>1. LiveIn(thread) = {} /\ None \notin Thread
  BY WorkerHostConstants DEF Live, LiveIn
<1>2. PICK t \in Thread : /\ host' = [h EXCEPT !.worker = t, !.ready = FALSE,
                                      !.state = IF h.state = "closing" THEN h.state ELSE "starting"]
                          /\ thread' = [thread EXCEPT ![t] = "starting"]
  BY DEF SpawnThread
<1>3. UNCHANGED <<job, orphans, committed, absent>>
  BY DEF SpawnThread
<1> DEFINE state == IF h.state = "closing" THEN h.state ELSE "starting"
           g == [h EXCEPT !.worker = t, !.ready = FALSE, !.state = state]
           th == [thread EXCEPT ![t] = "starting"]
<1>4. state \in States /\ state = (IF host.state = "closing" THEN "closing" ELSE "starting")
  BY <1>0 DEF States, HostRecord
<1> HIDE DEF state
<1>5. /\ g \in HostRecord /\ g.worker = t /\ ~g.ready /\ g.state = state
      /\ g.queue = host.queue /\ g.due = host.due /\ g.inFlight = host.inFlight
      /\ g.outcome = host.outcome /\ g.onExit = host.onExit /\ g.timer = h.timer
      /\ g.attempts = host.attempts /\ g.close = host.close /\ g.start = h.start
  BY <1>0, <1>4 DEF HostRecord
<1>6. host' = g /\ thread' = th
  BY <1>2 DEF state
<1> HIDE DEF g
<1>7. /\ th \in [Thread -> {"none", "starting", "ready", "stopping"}]
      /\ \A u \in Thread : th[u] = IF u = t THEN "starting" ELSE thread[u]
  BY <1>0 DEF Around
<1> HIDE DEF th
<1>8. LiveIn(th) = {t} /\ \A u \in Thread : thread[u] = "none"
  BY <1>1, <1>7 DEF LiveIn
<1>9. orphans = {} /\ host.worker = None /\ host.inFlight = None
      /\ \A u \in Thread : job[u] = None /\ host.onExit[u] = None
  <2>1. orphans = {} /\ \A u \in Thread : job[u] = None
    BY <1>0, <1>1 DEF Around, Jobs
  <2>2. host.worker \in Thread \cup {None}
    BY <1>0 DEF HostRecord
  <2>3. host.worker = None
    BY <1>0, <1>8, <2>2 DEF Threads
  <2> QED
    BY <1>0, <1>8, <2>1, <2>3 DEF Threads, Jobs
<1>10. Books(g)
  BY <1>0, <1>5 DEF Books
<1>11. Around(th, job, orphans, committed, absent)
  BY <1>0, <1>7, <1>9 DEF Around
<1>12. Threads(g, th, orphans)
  BY <1>1, <1>5, <1>7, <1>8, <1>9 DEF Threads
<1>13. Jobs(g, th, job)
  BY <1>5, <1>9 DEF Jobs
<1>14. Life(g, th, orphans)
  BY <1>0, <1>4, <1>5, <1>9 DEF Life
<1>15. Truth(g, job, committed, absent)
  BY <1>0, <1>5 DEF Truth
<1> QED
  BY <1>3, <1>6, <1>10, <1>11, <1>12, <1>13, <1>14, <1>15 DEF Now, Sound

\* The thread cannot be created: a failed start.
LEMMA ThrowsStep ==
  ASSUME Now, Live = {}, NEW h, NEW f, Books(h), Recovered(h, f), SpawnThrows(f),
         h.queue = host.queue, h.outcome = host.outcome, h.inFlight = host.inFlight,
         h.worker = host.worker, h.onExit = host.onExit, h.ready = host.ready,
         h.close = host.close, h.state = host.state, h.start # "none",
         host.state # "failed", host.close \notin {"exit", "threads", "done"}
  PROVE  Now'
<1>0. /\ Books(host) /\ Around(thread, job, orphans, committed, absent)
      /\ Threads(host, thread, orphans) /\ Jobs(host, thread, job)
      /\ Life(host, thread, orphans) /\ Truth(host, job, committed, absent)
      /\ host \in HostRecord
  BY HostParts
<1>1. LiveIn(thread) = {} /\ orphans = {}
  BY <1>0 DEF Live, LiveIn, Around
<1>2. host' = f /\ UNCHANGED <<thread, job, orphans, committed, absent>>
  BY DEF SpawnThrows
<1>3. /\ Books(f) /\ Dropped(host, f) /\ f.start # "none"
      /\ f.worker = host.worker /\ f.ready = host.ready /\ f.onExit = host.onExit
      /\ f.close = host.close /\ f.inFlight = host.inFlight
  BY DEF Recovered, GivesUp, Restarts, Dropped
<1>4. Threads(f, thread, orphans) /\ Jobs(f, thread, job)
  BY <1>0, <1>1, <1>3 DEF Threads, Jobs
<1>5. MaxStartAttempts \in Nat
  BY WorkerHostConstants
<1>6. Life(f, thread, orphans)
  <2>1. CASE GivesUp(h, f)
    BY <1>0, <1>1, <1>3, <2>1 DEF Life, GivesUp
  <2>2. CASE Restarts(h, f)
    BY <1>0, <1>1, <1>3, <1>5, <2>2 DEF Life, Restarts
  <2> QED
    BY <2>1, <2>2 DEF Recovered
<1>7. Truth(f, job, committed, absent)
  <2>1. committed \subseteq Write /\ absent \subseteq Write
    BY <1>0 DEF Around
  <2> QED
    BY <1>0, <1>3, <2>1, DroppedTruth
<1> QED
  BY <1>0, <1>2, <1>3, <1>4, <1>6, <1>7 DEF Now, Sound

LEMMA StartStep ==
  ASSUME Now, Start
  PROVE  Now'
<1>0. /\ Books(host) /\ Around(thread, job, orphans, committed, absent)
      /\ Threads(host, thread, orphans) /\ Jobs(host, thread, job)
      /\ Life(host, thread, orphans) /\ Truth(host, job, committed, absent)
      /\ host \in HostRecord
  BY HostParts
<1>1. host.state = "idle" /\ host.start = "none" /\ orphans = {}
  BY DEF Start, MayStart
<1>2. host.worker = None /\ ~host.timer /\ host.attempts = 0 /\ host.close = "no"
      /\ \A t \in Thread : host.onExit[t] = None
  BY <1>0, <1>1 DEF Life
<1>3. Live = {}
  <2>1. None \notin Thread
    BY WorkerHostConstants
  <2> QED
    BY <1>0, <1>1, <1>2, <2>1 DEF Threads, Live, LiveIn
<1> DEFINE h == [host EXCEPT !.start = "pending"]
           k == [h EXCEPT !.attempts = h.attempts + 1]
<1>4. SpawnThread(h) \/ SpawnThrows(FailPermanently(k))
  BY DEF Start
<1>5. /\ h \in HostRecord /\ h.start = "pending" /\ h.timer = host.timer
      /\ h.queue = host.queue /\ h.due = host.due /\ h.inFlight = host.inFlight
      /\ h.outcome = host.outcome /\ h.worker = host.worker /\ h.onExit = host.onExit
      /\ h.attempts = 0 /\ h.close = host.close /\ h.state = host.state /\ h.ready = host.ready
  BY <1>0, <1>2 DEF HostRecord
<1> HIDE DEF h
<1>6. CASE SpawnThread(h)
  BY <1>1, <1>2, <1>3, <1>5, <1>6, SpawnStep
<1>7. CASE SpawnThrows(FailPermanently(k))
  <2>1. 1 \in 0..MaxStartAttempts
    BY WorkerHostConstants
  <2>2. k = [h EXCEPT !.attempts = 1]
    BY <1>5
  <2>3. /\ k \in HostRecord /\ k.start = "pending"
        /\ k.queue = host.queue /\ k.due = host.due /\ k.inFlight = host.inFlight
        /\ k.outcome = host.outcome /\ k.worker = host.worker /\ k.onExit = host.onExit
        /\ k.close = host.close /\ k.state = host.state /\ k.ready = host.ready
    BY <1>5, <2>1, <2>2 DEF HostRecord
  <2> HIDE DEF k
  <2>4. Books(k)
    BY <1>0, <2>3 DEF Books
  <2>5. Recovered(k, FailPermanently(k))
    BY <2>4, FailPermanentlyFacts DEF Recovered, GivesUp
  <2> QED
    BY <1>1, <1>2, <1>3, <1>7, <2>3, <2>4, <2>5, ThrowsStep
<1> QED
  BY <1>4, <1>6, <1>7

LEMMA RestartStep ==
  ASSUME Now, RestartTimer
  PROVE  Now'
<1>0. /\ Books(host) /\ Around(thread, job, orphans, committed, absent)
      /\ Threads(host, thread, orphans) /\ Jobs(host, thread, job)
      /\ Life(host, thread, orphans) /\ Truth(host, job, committed, absent)
      /\ host \in HostRecord
  BY HostParts
<1>1. host.timer /\ Live = {}
  BY <1>0 DEF RestartTimer, Threads, Live, LiveIn
<1>2. host.start # "none" /\ host.state # "failed"
      /\ host.close \notin {"exit", "threads", "done"}
      /\ host.attempts # MaxStartAttempts
  BY <1>0, <1>1 DEF Life
<1>3. host.attempts \in 0..MaxStartAttempts /\ MaxStartAttempts \in Nat
  BY <1>0, WorkerHostConstants DEF HostRecord
<1> DEFINE h == [host EXCEPT !.timer = FALSE]
<1>4. \/ SpawnThread(h)
      \/ SpawnThrows(IF h.state = "closing" /\ h.queue = {} THEN h ELSE StartFailure(h, FALSE))
  BY DEF RestartTimer
<1>5. /\ h \in HostRecord /\ h.start = host.start /\ ~h.timer
      /\ h.queue = host.queue /\ h.due = host.due /\ h.inFlight = host.inFlight
      /\ h.outcome = host.outcome /\ h.worker = host.worker /\ h.onExit = host.onExit
      /\ h.attempts = host.attempts /\ h.close = host.close /\ h.state = host.state
      /\ h.ready = host.ready
  BY <1>0 DEF HostRecord
<1> HIDE DEF h
<1>6. Books(h)
  BY <1>0, <1>5 DEF Books
<1>7. CASE SpawnThread(h)
  BY <1>1, <1>2, <1>5, <1>7, SpawnStep
<1>8. CASE SpawnThrows(StartFailure(h, FALSE))
  <2>1. h.attempts < MaxStartAttempts
    BY <1>2, <1>3, <1>5
  <2>2. Recovered(h, StartFailure(h, FALSE))
    BY <1>6, <2>1, StartFailureFacts
  <2> QED
    BY <1>1, <1>2, <1>5, <1>6, <1>8, <2>2, ThrowsStep
<1>9. CASE SpawnThrows(h)
  <2>1. host' = h /\ UNCHANGED <<thread, job, orphans, committed, absent>>
    BY <1>9 DEF SpawnThrows
  <2>2. Threads(h, thread, orphans) /\ Jobs(h, thread, job)
        /\ Truth(h, job, committed, absent)
    BY <1>0, <1>5 DEF Threads, Jobs, Truth
  <2>3. Life(h, thread, orphans)
    BY <1>0, <1>5 DEF Life
  <2> QED
    BY <1>0, <1>6, <2>1, <2>2, <2>3 DEF Now, Sound
<1> QED
  BY <1>4, <1>7, <1>8, <1>9

LEMMA ReadyStep ==
  ASSUME Now, NEW t \in Thread, Ready(t)
  PROVE  Now'
<1>0. /\ Books(host) /\ Around(thread, job, orphans, committed, absent)
      /\ Threads(host, thread, orphans) /\ Jobs(host, thread, job)
      /\ Life(host, thread, orphans) /\ Truth(host, job, committed, absent)
      /\ host \in HostRecord
  BY HostParts
<1>1. t = host.worker /\ thread[t] = "starting" /\ host.worker # None
  BY WorkerHostConstants DEF Ready
<1>2. /\ LiveIn(thread) = {t} /\ host.start # "none"
      /\ host.state \notin {"idle", "failed", "closed"} /\ ~host.timer
      /\ host.close \notin {"threads", "done"} /\ host.attempts # MaxStartAttempts
      /\ orphans = {} /\ \A u \in Thread : host.onExit[u] = None
  BY <1>1, WorkerIsOfLife DEF Now
<1>3. host.inFlight = None /\ ~host.ready
  BY <1>0, <1>1 DEF Threads, Jobs
<1> DEFINE state == IF host.state = "closing" THEN host.state ELSE "ready"
           start == IF host.start = "pending" THEN "resolved" ELSE host.start
           h == [host EXCEPT !.ready = TRUE, !.attempts = 0, !.state = state, !.start = start]
           th == [thread EXCEPT ![t] = "ready"]
<1>4. /\ state \in States /\ state = (IF host.state = "closing" THEN "closing" ELSE "ready")
      /\ start \in {"none", "pending", "resolved", "rejected"} /\ start # "none"
  BY <1>0, <1>2 DEF States, HostRecord
<1>a. MaxStartAttempts \in Nat \ {0} /\ 0 \in 0..MaxStartAttempts
  BY WorkerHostConstants
<1>5. host' \in Pump(h) /\ thread' = th
  BY DEF Ready
<1> HIDE DEF state, start
<1>6. /\ h \in HostRecord /\ h.ready /\ h.attempts = 0 /\ h.state = state /\ h.start = start
      /\ h.queue = host.queue /\ h.due = host.due /\ h.inFlight = host.inFlight
      /\ h.outcome = host.outcome /\ h.worker = host.worker /\ h.onExit = host.onExit
      /\ h.close = host.close /\ h.timer = host.timer
  <2>1. h \in HostRecord
    <3> DEFINE g == [host EXCEPT !.ready = TRUE, !.attempts = 0]
    <3>1. g \in HostRecord
      BY <1>0, <1>a DEF HostRecord
    <3>2. h = [g EXCEPT !.state = state, !.start = start]
      OBVIOUS
    <3> HIDE DEF g
    <3> QED
      BY <1>4, <3>1, <3>2 DEF HostRecord
  <2> QED
    BY <1>0, <2>1 DEF HostRecord
<1> HIDE DEF h
<1>7. /\ th \in [Thread -> {"none", "starting", "ready", "stopping"}]
      /\ \A u \in Thread : th[u] = IF u = t THEN "ready" ELSE thread[u]
  BY <1>0 DEF Around
<1> HIDE DEF th
<1>8. LiveIn(th) = LiveIn(thread)
  BY <1>1, <1>7 DEF LiveIn
<1>9. Books(h)
  BY <1>0, <1>6 DEF Books
<1>10. Around(th, job, orphans, committed, absent)
  BY <1>0, <1>7, <1>8 DEF Around
<1>11. Threads(h, th, orphans)
  BY <1>1, <1>2, <1>6, <1>7, <1>8 DEF Threads
<1>12. Jobs(h, th, job)
  BY <1>0, <1>6, <1>8 DEF Jobs
<1>13. Life(h, th, orphans)
  BY <1>0, <1>2, <1>4, <1>a, <1>6, <1>8 DEF Life
<1>14. Truth(h, job, committed, absent)
  BY <1>0, <1>6 DEF Truth
<1>15. Sound(h, th, job, orphans, committed, absent)
  BY <1>9, <1>10, <1>11, <1>12, <1>13, <1>14 DEF Sound
<1> QED
  BY <1>5, <1>15, PumpStep DEF Ready

\* A worker whose start fails, that is lost, or that the watchdog gives up.
LEMMA LossStep ==
  ASSUME Now, NEW t \in Thread, NEW fatal \in BOOLEAN, StartFailed(t, fatal) \/ WorkerLost(t)
  PROVE  Now'
<1>1. host.worker # None /\ \E f \in BOOLEAN : host' = Terminated(host, f)
  BY WorkerHostConstants DEF StartFailed, WorkerLost
<1>2. /\ thread' = [thread EXCEPT ![host.worker] = "stopping"]
      /\ UNCHANGED <<job, orphans, committed, absent>>
  BY DEF StartFailed, WorkerLost, Stopping
<1> QED
  BY <1>1, <1>2, TerminatedSound DEF Now

LEMMA CommitStep ==
  ASSUME Now, NEW t \in Thread, Commit(t)
  PROVE  Now'
<1>0. /\ Books(host) /\ Around(thread, job, orphans, committed, absent)
      /\ Threads(host, thread, orphans) /\ Jobs(host, thread, job)
      /\ Life(host, thread, orphans) /\ Truth(host, job, committed, absent)
      /\ host \in HostRecord
  BY HostParts
<1>1. /\ job[t] \in Write /\ committed' = committed \cup {job[t]}
      /\ UNCHANGED <<host, thread, job, orphans, absent>>
  BY DEF Commit
<1>2. Around(thread, job, orphans, committed', absent)
  BY <1>0, <1>1 DEF Around
<1>3. Truth(host, job, committed', absent)
  BY <1>0, <1>1 DEF Truth
<1> QED
  BY <1>0, <1>1, <1>2, <1>3 DEF Now, Sound

\* The worker's answer settles the request it was sent, whatever it is.
LEMMA AnsweredSound ==
  ASSUME Now, NEW t \in Thread, t = host.worker, thread[t] = "ready", job[t] # None,
         NEW what \in Answers(job[t]), NEW abs,
         abs \subseteq absent \cup {r \in Write : host.outcome[r] = "unknown" /\ r \notin committed}
  PROVE  Sound(Answered(what), thread, [job EXCEPT ![t] = None], orphans, committed, abs)
<1>0. /\ Books(host) /\ Around(thread, job, orphans, committed, absent)
      /\ Threads(host, thread, orphans) /\ Jobs(host, thread, job)
      /\ Life(host, thread, orphans) /\ Truth(host, job, committed, absent)
      /\ host \in HostRecord
  BY HostParts
<1>1. None \notin Request /\ None \notin Thread /\ Write \subseteq Request
  BY WorkerHostConstants
<1>2. /\ LiveIn(thread) = {t}
      /\ host.close \notin {"threads", "done"} /\ orphans = {}
  BY <1>1, WorkerIsOfLife DEF Now
<1>3. job[t] = host.inFlight /\ host.inFlight \in Request /\ host.ready
      /\ host.outcome[host.inFlight] = "pending" /\ host.inFlight \notin host.queue
  BY <1>0, <1>1 DEF Jobs, HostRecord, Books
<1>4. \A u \in Thread : u # t => job[u] = None
  BY <1>0, <1>2 DEF Jobs
<1>5. /\ what \in {"unknown", "ok", "not_committed"}
      /\ host.inFlight \in Write /\ what = "ok" => host.inFlight \in committed
      /\ what = "not_committed" => host.inFlight \notin committed
  BY <1>0, <1>3 DEF Answers, Around
<1> DEFINE told == [r \in Request |-> IF r \in {host.inFlight} THEN what ELSE host.outcome[r]]
           h == [host EXCEPT !.inFlight = None, !.outcome = told]
           jb == [job EXCEPT ![t] = None]
<1>6. Answered(what) = h
  BY <1>0 DEF Answered, Settle, HostRecord
<1>7. told \in [Request -> Outcomes]
  BY <1>0, <1>5 DEF HostRecord, Outcomes
<1>8. \A r \in Request : told[r] = IF r = host.inFlight THEN what ELSE host.outcome[r]
  OBVIOUS
<1> HIDE DEF told
<1>9. /\ h \in HostRecord /\ h.inFlight = None /\ h.outcome = told /\ SameBut(host, h)
      /\ h.queue = host.queue /\ h.due = host.due
  BY <1>0, <1>7 DEF HostRecord, SameBut
<1> HIDE DEF h
<1>10. jb \in [Thread -> Request \cup {None}] /\ \A u \in Thread : jb[u] = None
  BY <1>0, <1>4 DEF Around
<1> HIDE DEF jb
<1>11. Books(h)
  <2>1. \A r \in Request : h.outcome[r] = "pending" <=> r \in h.queue
    BY <1>0, <1>3, <1>5, <1>8, <1>9 DEF Books
  <2>2. h.inFlight \notin h.queue
    BY <1>0, <1>1, <1>9 DEF HostRecord
  <2> QED
    BY <1>0, <1>1, <1>9, <2>1, <2>2 DEF Books
<1>12. Around(thread, jb, orphans, committed, abs)
  BY <1>0, <1>10 DEF Around
<1>13. Threads(h, thread, orphans)
  BY <1>0, <1>9 DEF Threads, SameBut
<1>14. Jobs(h, thread, jb)
  BY <1>9, <1>10 DEF Jobs, HostRecord
<1>15. Life(h, thread, orphans)
  BY <1>0, <1>9 DEF Life, SameBut
<1>16. Truth(h, jb, committed, abs)
  <2>1. \A r \in committed : r \in Request /\ h.outcome[r] \in {"ok", "unknown"}
    BY <1>0, <1>1, <1>5, <1>8, <1>9 DEF Truth, Around
  <2>2. \A r \in Write : h.outcome[r] = "ok" => r \in committed
    BY <1>0, <1>1, <1>5, <1>8, <1>9 DEF Truth
  <2>3. \A r \in abs : r \in Request /\ r # host.inFlight /\ host.outcome[r] = "unknown"
                       /\ r \notin committed
    BY <1>0, <1>1, <1>3 DEF Truth, Around
  <2>4. \A r \in abs : h.outcome[r] = "unknown" /\ r \notin committed /\ r # None
    BY <1>1, <1>8, <1>9, <2>3
  <2> QED
    BY <1>1, <1>10, <2>1, <2>2, <2>4 DEF Truth
<1> QED
  BY <1>6, <1>11, <1>12, <1>13, <1>14, <1>15, <1>16 DEF Sound, jb

LEMMA AnswerStep ==
  ASSUME Now, NEW t \in Thread,
         CommitFailed(t) \/ \E what \in Outcomes : Respond(t, what)
  PROVE  Now'
<1>1. None \notin Request /\ None \notin Thread /\ Write \subseteq Request
  BY WorkerHostConstants
<1>2. ASSUME NEW what \in Outcomes, Respond(t, what)
      PROVE  Now'
  <2>1. /\ t = host.worker /\ thread[t] = "ready" /\ job[t] # None
        /\ what \in Answers(job[t]) /\ host' \in Pump(Answered(what))
        /\ Sent([job EXCEPT ![t] = None])
        /\ UNCHANGED <<thread, orphans, committed>>
    BY <1>2 DEF Respond
  <2>2. absent' \subseteq absent \cup {r \in Write : host.outcome[r] = "unknown" /\ r \notin committed}
    BY <1>2 DEF Respond
  <2>3. Sound(Answered(what), thread, [job EXCEPT ![t] = None], orphans, committed, absent')
    BY <2>1, <2>2, AnsweredSound
  <2> QED
    BY <2>1, <2>3, PumpStep
<1>3. CASE CommitFailed(t)
  <2> DEFINE h == Answered("unknown")
  <2>1. /\ t = host.worker /\ thread[t] = "ready" /\ job[t] \in Write
        /\ host' \in Pump(Terminated(h, FALSE))
        /\ Sent([job EXCEPT ![t] = None])
        /\ thread' = [thread EXCEPT ![t] = "stopping"]
        /\ UNCHANGED <<orphans, committed, absent>>
    BY <1>3 DEF CommitFailed, Stopping
  <2>2. "unknown" \in Answers(job[t]) /\ job[t] # None
    BY <1>1, <2>1 DEF Answers
  <2>3. Sound(h, thread, [job EXCEPT ![t] = None], orphans, committed, absent)
    BY <2>1, <2>2, AnsweredSound
  <2>4. h.worker = t
    <3>1. host \in HostRecord
      BY HostParts
    <3> QED
      BY <2>1, <3>1 DEF Answered, Settle, HostRecord
  <2> HIDE DEF h
  <2>5. Sound(Terminated(h, FALSE), [thread EXCEPT ![t] = "stopping"],
              [job EXCEPT ![t] = None], orphans, committed, absent)
    BY <1>1, <2>3, <2>4, TerminatedSound
  <2> QED
    BY <2>1, <2>5, PumpStep
<1> QED
  BY <1>2, <1>3

LEMMA ExitStep ==
  ASSUME Now, NEW t \in Thread, Exit(t)
  PROVE  Now'
<1>0. /\ Books(host) /\ Around(thread, job, orphans, committed, absent)
      /\ Threads(host, thread, orphans) /\ Jobs(host, thread, job)
      /\ Life(host, thread, orphans) /\ Truth(host, job, committed, absent)
      /\ host \in HostRecord
  BY HostParts
<1>1. t \in Live /\ t \in LiveIn(thread) /\ LiveIn(thread) = {t} /\ None \notin Thread /\ None \notin Losses
  BY <1>0, WorkerHostConstants DEF Exit, Threads, Live, LiveIn
<1> DEFINE th == [thread EXCEPT ![t] = "none"]
           jb == [job EXCEPT ![t] = None]
<1>2. thread' = th /\ job' = jb /\ orphans' = orphans \ {t} /\ UNCHANGED <<committed, absent>>
  BY DEF Exit
<1>3. /\ th \in [Thread -> {"none", "starting", "ready", "stopping"}]
      /\ \A u \in Thread : th[u] = "none"
  BY <1>0, <1>1 DEF Around, LiveIn
<1>4. /\ jb \in [Thread -> Request \cup {None}]
      /\ \A u \in Thread : jb[u] = None
  BY <1>0, <1>1 DEF Around, Jobs
<1> HIDE DEF th, jb
<1>5. LiveIn(th) = {} /\ orphans \ {t} = {}
  BY <1>0, <1>1, <1>3 DEF Around, LiveIn
<1>6. Around(th, jb, {}, committed, absent)
  BY <1>0, <1>3, <1>4 DEF Around
\* The host without the thread, before what it does about it.
<1>7. ASSUME NEW h, Books(h), h.worker = None, ~h.ready, h.inFlight = None, ~h.timer,
             \A u \in Thread : h.onExit[u] = None,
             Life(h, th, {}), Truth(h, jb, committed, absent)
      PROVE  Sound(h, th, jb, {}, committed, absent)
  <2>1. Threads(h, th, {})
    BY <1>3, <1>5, <1>7 DEF Threads
  <2>2. Jobs(h, th, jb)
    BY <1>4, <1>7 DEF Jobs
  <2> QED
    BY <1>6, <1>7, <2>1, <2>2 DEF Sound
<1>8. ~host.timer
  BY <1>0, <1>1 DEF Threads
<1>9. CASE t = host.worker
  <2> DEFINE loss == LossOf(host, FALSE)
             h == Lost(host, loss)
  <2>1. host' = AfterLoss(h, loss)
    BY <1>9 DEF Exit
  <2>2. loss \in Losses
    BY DEF LossOf, Losses
  <2>3. /\ host.start # "none" /\ host.state \notin {"idle", "failed", "closed"}
        /\ host.close \notin {"threads", "done"} /\ host.attempts # MaxStartAttempts
        /\ orphans = {} /\ \A u \in Thread : host.onExit[u] = None
    BY <1>1, <1>9, WorkerIsOfLife DEF Now
  <2>4. /\ Books(h) /\ h.worker = None /\ ~h.ready /\ h.inFlight = None
        /\ h.queue = host.queue /\ h.onExit = host.onExit /\ h.timer = host.timer
        /\ h.attempts = host.attempts /\ h.start = host.start /\ h.close = host.close
        /\ h.state = (IF host.state = "closing" THEN "closing" ELSE "restarting")
        /\ \A r \in Request :
             h.outcome[r] = IF r = host.inFlight THEN GivenUp(r) ELSE host.outcome[r]
    BY <1>0, <2>2, LostFacts
  <2> HIDE DEF h, loss
  <2>5. Life(h, th, {})
    BY <1>0, <1>5, <2>3, <2>4 DEF Life
  <2>6. Truth(h, jb, committed, absent)
    <3>1. committed \subseteq Write /\ absent \subseteq Write /\ Write \subseteq Request
          /\ None \notin Request
      BY <1>0, WorkerHostConstants DEF Around
    <3>2. \A r \in Request : r = host.inFlight => host.outcome[r] = "pending"
      BY <1>0 DEF Books
    <3> QED
      BY <1>0, <1>4, <2>4, <3>1, <3>2 DEF Truth, GivenUp
  <2>7. Sound(h, th, jb, {}, committed, absent)
    BY <1>7, <1>8, <2>3, <2>4, <2>5, <2>6
  <2>8. Sound(AfterLoss(h, loss), th, jb, {}, committed, absent)
    BY <1>5, <2>2, <2>3, <2>4, <2>7, AfterLossSound
  <2> QED
    BY <1>2, <1>5, <2>1, <2>8 DEF Now
<1>10. ASSUME t # host.worker
       PROVE  host.worker = None /\ ~host.ready /\ host.inFlight = None
              /\ \A u \in Thread : u # t => host.onExit[u] = None
  <2>1. host.worker = None
    BY <1>0, <1>1, <1>10 DEF Threads, LiveIn, HostRecord
  <2> QED
    BY <1>0, <1>1, <2>1 DEF Threads, Jobs, LiveIn
<1>11. CASE t # host.worker /\ host.onExit[t] # None
  <2> DEFINE exits == [host.onExit EXCEPT ![t] = None]
             h == [host EXCEPT !.onExit = exits]
             loss == host.onExit[t]
  <2>1. host' = AfterLoss(h, loss)
    BY <1>11 DEF Exit
  <2>2. loss \in Losses /\ host.start # "none"
    BY <1>0, <1>11 DEF HostRecord, Life
  <2>3. exits \in [Thread -> Losses \cup {None}] /\ \A u \in Thread : exits[u] = None
    BY <1>0, <1>10, <1>11 DEF HostRecord
  <2> HIDE DEF exits
  <2>4. /\ h \in HostRecord /\ SameBut([host EXCEPT !.onExit = exits], h) /\ h.onExit = exits
        /\ h.worker = host.worker /\ h.ready = host.ready /\ h.state = host.state
        /\ h.timer = host.timer /\ h.attempts = host.attempts /\ h.start = host.start
        /\ h.close = host.close /\ h.queue = host.queue /\ h.due = host.due
        /\ h.inFlight = host.inFlight /\ h.outcome = host.outcome
    BY <1>0, <2>3 DEF HostRecord, SameBut
  <2> HIDE DEF h, loss
  <2>5. Books(h)
    BY <1>0, <2>4 DEF Books
  <2>6. Life(h, th, {})
    BY <1>0, <1>5, <2>2, <2>4 DEF Life
  <2>7. Truth(h, jb, committed, absent)
    <3>1. absent \subseteq Request /\ None \notin Request /\ Write \subseteq Request
      BY <1>0, WorkerHostConstants DEF Around
    <3> QED
      BY <1>0, <1>4, <2>4, <3>1 DEF Truth
  <2>8. Sound(h, th, jb, {}, committed, absent)
    BY <1>7, <1>8, <1>10, <1>11, <2>3, <2>4, <2>5, <2>6, <2>7
  <2>9. Sound(AfterLoss(h, loss), th, jb, {}, committed, absent)
    BY <1>5, <1>10, <1>11, <2>2, <2>4, <2>8, AfterLossSound
  <2> QED
    BY <1>2, <1>5, <2>1, <2>9 DEF Now
<1>12. CASE t # host.worker /\ host.onExit[t] = None
  <2>1. host' = host
    BY <1>12 DEF Exit
  <2>2. Life(host, th, {})
    BY <1>0, <1>5 DEF Life
  <2>3. Truth(host, jb, committed, absent)
    <3>1. absent \subseteq Request /\ None \notin Request /\ Write \subseteq Request
      BY <1>0, WorkerHostConstants DEF Around
    <3> QED
      BY <1>0, <1>4, <3>1 DEF Truth
  <2>4. Sound(host, th, jb, {}, committed, absent)
    BY <1>0, <1>7, <1>8, <1>10, <1>12, <2>2, <2>3
  <2> QED
    BY <1>2, <1>5, <2>1, <2>4 DEF Now
<1> QED
  BY <1>9, <1>11, <1>12

\* runClose() moves on: only the place where it waits changes.
LEMMA CloseMoves ==
  ASSUME NEW h, NEW th, NEW jb, NEW orph, NEW com, NEW abs,
         Sound(h, th, jb, orph, com, abs),
         NEW place \in {"idle", "exit", "threads"}, NEW state \in {"closing", "failed"},
         state = "failed" => h.state = "failed",
         h.state # "closed",
         h.attempts = MaxStartAttempts => state = "failed" \/ place = "threads",
         place \in {"exit", "threads"} => h.queue = {} /\ h.inFlight = None /\ ~h.timer,
         place = "threads" => h.worker = None
  PROVE  LET g == [h EXCEPT !.close = place, !.state = state]
         IN  Sound(g, th, jb, orph, com, abs)
<1> DEFINE g == [h EXCEPT !.close = place, !.state = state]
<1>1. Books(h) /\ Around(th, jb, orph, com, abs) /\ Threads(h, th, orph) /\ Jobs(h, th, jb)
      /\ Life(h, th, orph) /\ Truth(h, jb, com, abs) /\ h \in HostRecord
  BY DEF Sound, Books
<1>2. /\ g \in HostRecord /\ g.close = place /\ g.state = state
      /\ g.worker = h.worker /\ g.ready = h.ready /\ g.onExit = h.onExit
      /\ g.timer = h.timer /\ g.attempts = h.attempts /\ g.start = h.start
      /\ g.queue = h.queue /\ g.due = h.due /\ g.inFlight = h.inFlight /\ g.outcome = h.outcome
  BY <1>1 DEF HostRecord, States
<1> HIDE DEF g
<1>3. Books(g)
  BY <1>1, <1>2 DEF Books
<1>4. Threads(g, th, orph) /\ Jobs(g, th, jb) /\ Truth(g, jb, com, abs)
  BY <1>1, <1>2 DEF Threads, Jobs, Truth
<1>5. Life(g, th, orph)
  BY <1>1, <1>2 DEF Life
<1> QED
  BY <1>1, <1>3, <1>4, <1>5 DEF Sound, g

\* A drained host stops its worker, if it has one.
LEMMA StopStep ==
  ASSUME NEW h, Sound(h, thread, job, orphans, committed, absent),
         h.queue = {}, ~h.timer, h.close = "idle", h.state # "closed",
         StopWorker(h), UNCHANGED <<job, orphans, committed, absent>>
  PROVE  Now'
<1>0. h \in HostRecord /\ Life(h, thread, orphans) /\ Jobs(h, thread, job) /\ Threads(h, thread, orphans)
  BY DEF Sound, Books
<1>1. h.state \in {"closing", "failed"} /\ (h.attempts = MaxStartAttempts => h.state = "failed")
  BY <1>0 DEF Life
<1>2. CASE h.worker # None /\ (h.inFlight # None \/ ~h.ready)
  <2> DEFINE g == Terminated(h, FALSE)
             th == [thread EXCEPT ![h.worker] = "stopping"]
  <2>1. host' = [g EXCEPT !.close = "threads"] /\ thread' = th
    BY <1>2 DEF StopWorker, Stopping
  <2>2. Sound(g, th, job, orphans, committed, absent)
    BY <1>2, TerminatedSound
  <2>3. /\ Books(g) /\ g.worker = None /\ g.inFlight = None /\ g.queue = {} /\ ~g.timer
        /\ g.state = "closing"
    <3>1. Books(h)
      BY DEF Sound
    <3>2. h.state = "closing"
      BY <1>1, <1>2, WorkerIsOfLife
    <3> QED
      BY <1>2, <3>1, <3>2, TerminatedFacts
  <2> HIDE DEF g, th
  <2>4. [g EXCEPT !.close = "threads"] = [g EXCEPT !.close = "threads", !.state = "closing"]
    BY <2>3 DEF Books, HostRecord
  <2>5. Sound([g EXCEPT !.close = "threads", !.state = "closing"], th, job, orphans, committed, absent)
    BY <2>2, <2>3, CloseMoves
  <2> QED
    BY <2>1, <2>4, <2>5 DEF Now
<1>3. CASE ~(h.worker # None /\ (h.inFlight # None \/ ~h.ready))
  <2> DEFINE place == IF h.worker = None THEN "threads" ELSE "exit"
  <2>1. host' = [h EXCEPT !.close = place] /\ thread' = thread
    BY <1>3 DEF StopWorker
  <2>2. h.inFlight = None
    BY <1>0, <1>3 DEF Jobs
  <2>3. [h EXCEPT !.close = place] = [h EXCEPT !.close = place, !.state = h.state]
    BY <1>0 DEF HostRecord
  <2>4. place \in {"idle", "exit", "threads"} /\ (place = "threads" => h.worker = None)
    OBVIOUS
  <2>5. h.attempts = MaxStartAttempts => h.state = "failed" \/ place = "threads"
    BY <1>1
  <2> HIDE DEF place
  <2>6. Sound([h EXCEPT !.close = place, !.state = h.state], thread, job, orphans, committed, absent)
    BY <1>1, <2>2, <2>4, <2>5, CloseMoves
  <2> QED
    BY <2>1, <2>3, <2>6 DEF Now
<1> QED
  BY <1>2, <1>3

LEMMA CloseStep ==
  ASSUME Now, Close \/ CloseDrains \/ CloseStops
  PROVE  Now'
<1>0. /\ Books(host) /\ Around(thread, job, orphans, committed, absent)
      /\ Threads(host, thread, orphans) /\ Jobs(host, thread, job)
      /\ Life(host, thread, orphans) /\ Truth(host, job, committed, absent)
      /\ host \in HostRecord
  BY HostParts
<1>1. host.state # "closed"
  BY <1>0 DEF Close, CloseDrains, CloseStops, Life
<1> DEFINE h == [host EXCEPT !.state = "closing"]
<1>2. CASE Close
  <2>1. host.close = "no" /\ UNCHANGED <<job, orphans, committed, absent>>
    BY <1>2 DEF Close
  <2>2. CASE host.state \in {"failed", "idle"}
    <3>1. StopWorker(Drained(h))
      BY <1>2, <2>2 DEF Close
    <3>2. host.worker = None
      BY <1>0, <2>2 DEF Life, Threads, LiveIn, HostRecord
    <3>3. /\ h \in HostRecord /\ h.worker = None /\ h.ready = host.ready /\ h.state = "closing"
          /\ h.onExit = host.onExit
          /\ h.timer = host.timer /\ h.attempts = host.attempts /\ h.start = host.start
          /\ h.close = host.close /\ h.queue = host.queue /\ h.due = host.due
          /\ h.inFlight = host.inFlight /\ h.outcome = host.outcome
      BY <1>0, <3>2 DEF HostRecord, States
    <3> HIDE DEF h
    <3>4. Books(h)
      BY <1>0, <3>3 DEF Books
    <3> DEFINE d == Drained(h)
    <3>5. /\ Books(d) /\ Dropped(h, d)
          /\ d.queue = {} /\ ~d.timer /\ d.state = "closing" /\ d.start = host.start
          /\ d.worker = None /\ d.ready = host.ready /\ d.onExit = host.onExit
          /\ d.attempts = host.attempts /\ d.close = "no" /\ d.inFlight = host.inFlight
      BY <2>1, <3>3, <3>4, DrainedFacts
    <3>6. d.worker # None /\ (d.inFlight # None \/ ~d.ready) => FALSE
      BY <3>5
    <3>7. host' = [d EXCEPT !.close = "threads"] /\ thread' = thread
      BY <3>1, <3>5, <3>6 DEF StopWorker
    <3> HIDE DEF d
    <3> DEFINE g == [d EXCEPT !.close = "threads"]
    <3>8. /\ g \in HostRecord /\ g.close = "threads" /\ g.state = "closing"
          /\ g.worker = None /\ g.ready = d.ready /\ g.onExit = d.onExit
          /\ ~g.timer /\ g.attempts = d.attempts /\ g.start = d.start
          /\ g.queue = {} /\ g.due = d.due /\ g.inFlight = d.inFlight /\ g.outcome = d.outcome
      BY <3>5 DEF Books, HostRecord
    <3> HIDE DEF g
    <3>9. Books(g)
      BY <3>5, <3>8 DEF Books
    <3>10. Threads(g, thread, orphans) /\ Jobs(g, thread, job)
      BY <1>0, <3>2, <3>5, <3>8 DEF Threads, Jobs
    <3>11. host.inFlight = None
      BY <1>0, <3>2 DEF Jobs
    <3>12. Life(g, thread, orphans)
      BY <1>0, <1>1, <2>2, <3>2, <3>5, <3>8, <3>11 DEF Life
    <3>13. Truth(g, job, committed, absent)
      <4>1. committed \subseteq Write /\ absent \subseteq Write
        BY <1>0 DEF Around
      <4>2. Dropped(host, g)
        BY <3>3, <3>5, <3>8 DEF Dropped
      <4> QED
        BY <1>0, <3>5, <3>8, <3>9, <4>1, <4>2, DroppedTruth
    <3> QED
      BY <1>0, <2>1, <3>7, <3>9, <3>10, <3>12, <3>13 DEF Now, Sound, g
  <2>3. CASE host.state \notin {"failed", "idle"}
    <3>1. host' = [h EXCEPT !.close = "idle"] /\ thread' = thread
      BY <1>2, <2>3 DEF Close
    <3>2. [h EXCEPT !.close = "idle"] = [host EXCEPT !.close = "idle", !.state = "closing"]
      BY <1>0 DEF HostRecord
    <3>3. host.attempts # MaxStartAttempts
      BY <1>0, <2>1, <2>3 DEF Life
    <3>4. Sound([host EXCEPT !.close = "idle", !.state = "closing"], thread, job, orphans, committed, absent)
      BY <1>1, <3>3, CloseMoves DEF Now
    <3> QED
      BY <2>1, <3>1, <3>2, <3>4 DEF Now
  <2> QED
    BY <2>2, <2>3
<1>3. CASE CloseDrains
  <2> DEFINE d == Drained(host)
  <2>1. StopWorker(d) /\ host.close = "idle" /\ UNCHANGED <<job, orphans, committed, absent>>
    BY <1>3 DEF CloseDrains
  <2>2. Sound(d, thread, job, orphans, committed, absent)
    BY DrainedSound DEF Now
  <2>3. d.queue = {} /\ ~d.timer /\ d.close = "idle" /\ d.state # "closed"
    BY <1>0, <1>1, <2>1, DrainedFacts
  <2> HIDE DEF d
  <2> QED
    BY <2>1, <2>2, <2>3, StopStep
<1>4. CASE CloseStops
  <2>1. host.close = "exit" /\ UNCHANGED <<job, orphans, committed, absent>>
    BY <1>4 DEF CloseStops
  <2>2. host.queue = {} /\ host.inFlight = None /\ ~host.timer /\ host.state \in {"closing", "failed"}
        /\ (host.attempts = MaxStartAttempts => host.state = "failed")
    BY <1>0, <1>1, <2>1 DEF Life
  <2>3. CASE host.worker = None
    <3>1. host' = [host EXCEPT !.close = "threads"] /\ thread' = thread
      BY <1>4, <2>3 DEF CloseStops
    <3>2. [host EXCEPT !.close = "threads"] = [host EXCEPT !.close = "threads", !.state = host.state]
      BY <1>0 DEF HostRecord
    <3>3. Sound([host EXCEPT !.close = "threads", !.state = host.state],
                thread, job, orphans, committed, absent)
      BY <1>1, <2>2, <2>3, CloseMoves DEF Now
    <3> QED
      BY <2>1, <3>1, <3>2, <3>3 DEF Now
  <2>4. CASE host.worker # None
    <3> DEFINE g == Terminated(host, FALSE)
               th == [thread EXCEPT ![host.worker] = "stopping"]
    <3>1. host' = [g EXCEPT !.close = "threads"] /\ thread' = th
      BY <1>4, <2>4 DEF CloseStops, Stopping
    <3>2. Sound(g, th, job, orphans, committed, absent)
      BY <2>4, TerminatedSound DEF Now
    <3>3. host.state = "closing"
      BY <2>2, <2>4, WorkerIsOfLife DEF Now
    <3>4. /\ Books(g) /\ g.worker = None /\ g.inFlight = None /\ g.queue = {} /\ ~g.timer
          /\ g.state = "closing"
      BY <1>0, <2>2, <2>4, <3>3, TerminatedFacts
    <3> HIDE DEF g, th
    <3>5. [g EXCEPT !.close = "threads"] = [g EXCEPT !.close = "threads", !.state = "closing"]
      BY <3>4 DEF Books, HostRecord
    <3>6. Sound([g EXCEPT !.close = "threads", !.state = "closing"], th, job, orphans, committed, absent)
      BY <3>2, <3>4, CloseMoves
    <3> QED
      BY <2>1, <3>1, <3>5, <3>6 DEF Now
  <2> QED
    BY <2>3, <2>4
<1> QED
  BY <1>2, <1>3, <1>4

LEMMA CloseEndsStep ==
  ASSUME Now, CloseEnds
  PROVE  Now'
<1>0. /\ Books(host) /\ Around(thread, job, orphans, committed, absent)
      /\ Threads(host, thread, orphans) /\ Jobs(host, thread, job)
      /\ Life(host, thread, orphans) /\ Truth(host, job, committed, absent)
      /\ host \in HostRecord
  BY HostParts
<1> DEFINE start == IF host.start = "pending" THEN "rejected" ELSE host.start
           h == [host EXCEPT !.close = "done", !.state = "closed", !.armed = FALSE, !.start = start]
<1>1. /\ host.close = "threads" /\ host' = h /\ orphans' = orphans \cup Live
      /\ UNCHANGED <<thread, job, committed, absent>>
  BY DEF CloseEnds
<1>2. start \in {"none", "pending", "resolved", "rejected"} /\ (start = "none" => host.start = "none")
  BY <1>0 DEF HostRecord
<1> HIDE DEF start
<1>3. /\ h \in HostRecord /\ h.close = "done" /\ h.state = "closed" /\ h.start = start
      /\ h.worker = host.worker /\ h.ready = host.ready /\ h.onExit = host.onExit
      /\ h.timer = host.timer /\ h.attempts = host.attempts
      /\ h.queue = host.queue /\ h.due = host.due /\ h.inFlight = host.inFlight
      /\ h.outcome = host.outcome
  BY <1>0, <1>2 DEF HostRecord, States
<1> HIDE DEF h
<1>4. Books(h)
  BY <1>0, <1>3 DEF Books
<1>5. orphans' = LiveIn(thread)
  BY <1>0, <1>1 DEF Around, Live, LiveIn
<1>6. Around(thread, job, orphans', committed, absent)
  BY <1>0, <1>5 DEF Around
<1>7. Threads(h, thread, orphans')
  BY <1>0, <1>3, <1>5 DEF Threads
<1>8. Jobs(h, thread, job) /\ Truth(h, job, committed, absent)
  BY <1>0, <1>3 DEF Jobs, Truth
<1>9. Life(h, thread, orphans')
  BY <1>0, <1>1, <1>2, <1>3, <1>5 DEF Life
<1> QED
  BY <1>1, <1>4, <1>6, <1>7, <1>8, <1>9 DEF Now, Sound

LEMMA NextHostStep ==
  ASSUME Now, NextHost
  PROVE  Now'
<1>0. /\ Books(host) /\ Around(thread, job, orphans, committed, absent)
      /\ Threads(host, thread, orphans) /\ Jobs(host, thread, job)
      /\ Life(host, thread, orphans) /\ Truth(host, job, committed, absent)
      /\ host \in HostRecord
  BY HostParts
<1> DEFINE h == NewHost(host.outcome)
<1>1. host.state = "closed" /\ host' = h /\ UNCHANGED <<thread, job, orphans, committed, absent>>
  BY DEF NextHost
<1>2. host.queue = {} /\ host.inFlight = None /\ LiveIn(thread) \subseteq orphans
  BY <1>0, <1>1 DEF Life
<1>3. host.outcome \in [Request -> Outcomes]
  BY <1>0 DEF HostRecord
<1>4. /\ h \in HostRecord /\ h.close = "no" /\ h.state = "idle" /\ h.start = "none"
      /\ h.worker = None /\ ~h.ready /\ ~h.timer /\ h.attempts = 0
      /\ h.queue = {} /\ h.due = {} /\ h.inFlight = None /\ h.outcome = host.outcome
      /\ \A t \in Thread : h.onExit[t] = None
  BY <1>3, WorkerHostConstants DEF NewHost, HostRecord, States
<1> HIDE DEF h
<1>5. Books(h)
  BY <1>0, <1>2, <1>4, FS_EmptySet, WorkerHostConstants DEF Books
<1>6. Threads(h, thread, orphans)
  BY <1>0, <1>2, <1>4 DEF Threads
<1>7. Jobs(h, thread, job)
  BY <1>0, <1>4 DEF Jobs
<1>8. Life(h, thread, orphans)
  BY <1>4, WorkerHostConstants DEF Life
<1>9. Truth(h, job, committed, absent)
  BY <1>0, <1>2, <1>4 DEF Truth
<1> QED
  BY <1>0, <1>1, <1>5, <1>6, <1>7, <1>8, <1>9 DEF Now, Sound

-----------------------------------------------------------------------------
(* The theorems *)

LEMMA HostInvInit == Init => HostInv
<1> SUFFICES ASSUME Init
             PROVE  HostInv
  OBVIOUS
<1> DEFINE outcome == [r \in Request |-> "new"]
           h == NewHost(outcome)
<1>1. /\ host = h /\ thread = [t \in Thread |-> "none"] /\ job = [t \in Thread |-> None]
      /\ orphans = {} /\ committed = {} /\ absent = {} /\ hosts = 1
  BY DEF Init
<1>2. outcome \in [Request -> Outcomes] /\ \A r \in Request : outcome[r] = "new"
  BY DEF Outcomes
<1> HIDE DEF outcome
<1>3. /\ h \in HostRecord /\ h.close = "no" /\ h.state = "idle" /\ h.start = "none"
      /\ h.worker = None /\ ~h.ready /\ ~h.timer /\ h.attempts = 0
      /\ h.queue = {} /\ h.due = {} /\ h.inFlight = None /\ h.outcome = outcome
      /\ \A t \in Thread : h.onExit[t] = None
  BY <1>2, WorkerHostConstants DEF NewHost, HostRecord, States
<1> HIDE DEF h
<1>4. None \notin Request /\ Write \subseteq Request
  BY WorkerHostConstants
<1>5. Books(host)
  BY <1>1, <1>2, <1>3, <1>4, FS_EmptySet, WorkerHostConstants DEF Books
<1>6. LiveIn(thread) = {}
  BY <1>1 DEF LiveIn
<1>7. Around(thread, job, orphans, committed, absent)
  BY <1>1 DEF Around
<1>8. Threads(host, thread, orphans) /\ Jobs(host, thread, job)
  BY <1>1, <1>3, <1>6 DEF Threads, Jobs
<1>9. Life(host, thread, orphans)
  BY <1>1, <1>3, <1>6, WorkerHostConstants DEF Life
<1>10. Truth(host, job, committed, absent)
  BY <1>1, <1>2, <1>3, <1>4 DEF Truth
<1> QED
  BY <1>1, <1>5, <1>7, <1>8, <1>9, <1>10, WorkerHostConstants DEF HostInv, Sound

LEMMA HostInvStep == HostInv /\ [Next]_vars => HostInv'
<1> SUFFICES ASSUME HostInv, [Next]_vars
             PROVE  HostInv'
  OBVIOUS
<1>1. Now /\ hosts \in 1..MaxHosts /\ MaxHosts \in Nat
  BY WorkerHostConstants DEF HostInv, Now
<1>2. Now'
  <2>1. CASE UNCHANGED vars
    BY <1>1, <2>1 DEF vars, Now
  <2>2. CASE \E r \in Request : Submit(r) \/ Abort(r) \/ DeadlinePasses(r)
    BY <1>1, <2>2, SubmitStep, AbortStep, TimeStep
  <2>3. CASE ExpiryTimer \/ LossForgotten \/ Start \/ RestartTimer
    BY <1>1, <2>3, TimeStep, StartStep, RestartStep
  <2>4. CASE \E t \in Thread : Ready(t) \/ Commit(t) \/ CommitFailed(t) \/ WorkerLost(t) \/ Exit(t)
    BY <1>1, <2>4, ReadyStep, CommitStep, AnswerStep, LossStep, ExitStep
  <2>5. CASE \E t \in Thread, fatal \in BOOLEAN : StartFailed(t, fatal)
    BY <1>1, <2>5, LossStep
  <2>6. CASE \E t \in Thread, what \in Outcomes : Respond(t, what)
    BY <1>1, <2>6, AnswerStep
  <2>7. CASE Close \/ CloseDrains \/ CloseStops \/ CloseEnds \/ NextHost
    BY <1>1, <2>7, CloseStep, CloseEndsStep, NextHostStep
  <2> QED
    BY <2>1, <2>2, <2>3, <2>4, <2>5, <2>6, <2>7 DEF Next
<1>3. hosts' \in 1..MaxHosts
  <2>1. NextHost => hosts' \in 1..MaxHosts
    BY <1>1 DEF NextHost
  <2>2. ~NextHost => hosts' = hosts
    <3>1. \A r \in Request : Submit(r) \/ Abort(r) \/ DeadlinePasses(r) => hosts' = hosts
      BY DEF Submit, Abort, DeadlinePasses
    <3>2. ExpiryTimer \/ LossForgotten \/ Start \/ RestartTimer => hosts' = hosts
      BY Zenon DEF ExpiryTimer, LossForgotten, Start, RestartTimer, SpawnThread, SpawnThrows
    <3>3. \A t \in Thread : Ready(t) \/ Commit(t) \/ CommitFailed(t) \/ WorkerLost(t) \/ Exit(t)
            => hosts' = hosts
      BY Zenon DEF Ready, Commit, CommitFailed, WorkerLost, Exit
    <3>4. \A t \in Thread : /\ \A fatal \in BOOLEAN : StartFailed(t, fatal) => hosts' = hosts
                            /\ \A what \in Outcomes : Respond(t, what) => hosts' = hosts
      BY Zenon DEF StartFailed, Respond
    <3>5. Close \/ CloseDrains \/ CloseStops \/ CloseEnds => hosts' = hosts
      BY Zenon DEF Close, CloseDrains, CloseStops, CloseEnds
    <3> QED
      BY <3>1, <3>2, <3>3, <3>4, <3>5 DEF Next, vars
  <2> QED
    BY <1>1, <2>1, <2>2
<1> QED
  BY <1>2, <1>3 DEF HostInv, Now

LEMMA HostInvAlways == Spec => []HostInv
<1> QED
  BY HostInvInit, HostInvStep, PTL DEF Spec

\* Nothing a caller submits is lost or settled twice: a request waits for its
\* answer exactly while it is in the queue or with the worker, through expiry,
\* abort, loss of the worker, permanent failure, close() and the next host.
THEOREM RequestsAccounted == Spec => []NothingLost
<1>1. HostInv => NothingLost
  <2> SUFFICES ASSUME HostInv
               PROVE  NothingLost
    OBVIOUS
  <2>1. Books(host) /\ Around(thread, job, orphans, committed, absent) /\ hosts \in 1..MaxHosts
    BY DEF HostInv, Sound
  <2>2. orphans \subseteq Live
    BY <2>1 DEF Around, Live, LiveIn
  <2>3. TypeOK
    BY <2>1, <2>2 DEF TypeOK, Books, HostRecord, Around
  <2> QED
    BY <2>1, <2>3 DEF NothingLost, Books
<1> QED
  BY <1>1, HostInvAlways, PTL

\* "two writers never run at once": at most one thread lives, whatever is lost,
\* restarted or given up, and however many hosts follow each other.
THEOREM OneThreadAtATime == Spec => []OneThread
<1>1. HostInv => OneThread
  <2> SUFFICES ASSUME HostInv
               PROVE  OneThread
    OBVIOUS
  <2>1. \A t, u \in Live : t = u
    BY DEF HostInv, Sound, Threads, Live, LiveIn
  <2>2. CASE Live = {}
    BY <2>2, FS_EmptySet DEF OneThread
  <2>3. ASSUME NEW t \in Live
        PROVE  OneThread
    <3>1. Live = {t}
      BY <2>1
    <3> QED
      BY <3>1, FS_Singleton DEF OneThread
  <2> QED
    BY <2>2, <2>3
<1> QED
  BY <1>1, HostInvAlways, PTL

\* A closed host has answered everyone and starts nothing: a thread it leaves
\* behind is known to the next host, which does not start before its exit.
THEOREM ClosedStaysQuiet == Spec => []ClosedIsQuiet
<1>1. HostInv => ClosedIsQuiet
  BY DEF HostInv, Sound, Life, ClosedIsQuiet, Live, LiveIn
<1> QED
  BY <1>1, HostInvAlways, PTL

\* A caller was told "ok" of what is durable and "not committed" of what is not
\* and never will be, and what resolveUnknown found missing stays missing, though
\* a thread that is given up may still be inside the native COMMIT.
THEOREM AnswersStayTrue == Spec => []Truthful
<1>1. HostInv => Truthful
  <2> SUFFICES ASSUME HostInv
               PROVE  Truthful
    OBVIOUS
  <2>1. Books(host) /\ Truth(host, job, committed, absent)
    BY DEF HostInv, Sound
  <2>2. \A r \in Request : r = host.inFlight => host.outcome[r] = "pending"
    BY <2>1 DEF Books
  <2>3. \A r \in Request : host.outcome[r] = "not_committed" => r \notin committed
    BY <2>1, <2>2 DEF Truth
  <2> QED
    BY <2>1, <2>3 DEF Truth, Truthful
<1> QED
  BY <1>1, HostInvAlways, PTL
=============================================================================
