----------------------------- MODULE GroupCommit -----------------------------
(***************************************************************************)
(* Group commit of receipt commands: lib/storage/group-commit.js on top of *)
(* the batch transaction of lib/storage/sqlite-worker.js (runBatch) and of *)
(* the receipts of lib/storage/command-receipts.js.                        *)
(*                                                                         *)
(* A member is one submit() call; several members may carry the same       *)
(* command. schedule() ends every handler of the committer, so it is part  *)
(* of each action. Elapsed time is an input of schedule().                 *)
(***************************************************************************)
EXTENDS Integers, Sequences, FiniteSets, SequencesExt, Filtering

CONSTANTS
  Member, None,
  Priority,       \* members of the classes stop, claim, intent and final
  Command,        \* commandId of each member
  Digest,         \* request digest of each member
  MaxBatchCount, MaxBufferedCount, MaxFlushAttempts

Outcomes == {"new", "held", "ok", "not_committed", "unknown", "not_reconcilable"}
Kinds == {"ok", "failed", "ender", "notRun", "deferred"}
Reply == [batch : {"committed", "not_committed", "unknown"}, retryable : BOOLEAN, kinds : Seq(Kinds)]

ASSUME GroupCommitAssumption ==
  /\ Priority \subseteq Member
  /\ None \notin {Digest[m] : m \in Member} \cup Reply
  /\ {MaxBatchCount, MaxBufferedCount, MaxFlushAttempts} \subseteq Nat \ {0}

Lane == {"main", "priority"}
Commands == {Command[m] : m \in Member}

VARIABLES
  state,          \* open, closing or closed
  buffer,         \* members waiting for a batch
  lanes,          \* the batch in flight on each lane
  deferred,       \* members the reply budget put off
  attempts,       \* failed dispatches of each member
  heldCount,      \* backpressure counter
  forceFlush,
  backoff,        \* retryAt lies in the future
  outcome,        \* what the caller of each submit() knows
  stuck,          \* host memory of non-reconcilable commands
  \* the worker and the store
  reply,          \* the answer to each lane's batch, None while it has not come
  zombie,         \* batch of a lost worker whose thread may still commit
  receipts,       \* command_receipts: digest stored for each command
  \* history
  applied,        \* members whose handler's effect became durable, in order
  rogue,          \* commands whose handler ended the transaction itself
  order           \* normal members in the order they were submitted

committer == <<state, buffer, lanes, deferred, attempts, heldCount, forceFlush, backoff, outcome, stuck>>
store == <<reply, zombie, receipts, applied, rogue>>
vars  == <<committer, store, order>>

TypeOK ==
  /\ state \in {"open", "closing", "closed"}
  /\ buffer \in Seq(Member)
  /\ lanes \in [Lane -> Seq(Member)]
  /\ deferred \subseteq Member
  /\ attempts \in [Member -> 0..(MaxFlushAttempts - 1)]
  /\ heldCount \in Nat
  /\ forceFlush \in BOOLEAN /\ backoff \in BOOLEAN
  /\ outcome \in [Member -> Outcomes]
  /\ stuck \subseteq Commands /\ rogue \subseteq Commands
  /\ reply \in [Lane -> Reply \cup {None}]
  /\ zombie \in Seq(Member)
  /\ receipts \in [Commands -> {Digest[m] : m \in Member} \cup {None}]
  /\ applied \in Seq(Member) /\ order \in Seq(Member)

Init ==
  /\ state = "open"
  /\ buffer = <<>>
  /\ lanes = [l \in Lane |-> <<>>]
  /\ deferred = {}
  /\ attempts = [m \in Member |-> 0]
  /\ heldCount = 0
  /\ forceFlush = FALSE /\ backoff = FALSE
  /\ outcome = [m \in Member |-> "new"]
  /\ stuck = {}
  /\ reply = [l \in Lane |-> None]
  /\ zombie = <<>>
  /\ receipts = [c \in Commands |-> None]
  /\ applied = <<>> /\ rogue = {} /\ order = <<>>

-----------------------------------------------------------------------------
(* schedule() and takeBatch() *)

IsPriority(m) == m \in Priority
Has(s, S) == ToSet(s) \cap S # {}
Without(s, S) == Filter(s, Member \ S)
Only(s, S) == Filter(s, S)
Take(s, n) == SubSeq(s, 1, IF Len(s) < n THEN Len(s) ELSE n)

\* One of a, one of b, and so on, up to n of each.
Alternate(a, b, n) ==
  [i \in 1..(2 * n) |-> IF i % 2 = 1 THEN a[(i + 1) \div 2] ELSE b[i \div 2]]

\* Deferred members first, then priority members, then normal ones; once the
\* front normal member is aged the two classes alternate, starting with it.
BatchOf(buf, put, only, aged) ==
  LET eligible == IF only THEN Priority ELSE Member
      first == Only(buf, eligible \cap put)
      pri   == Only(buf, (eligible \cap Priority) \ put)
      nor   == Only(buf, (eligible \ Priority) \ put)
      both  == IF Len(pri) < Len(nor) THEN Len(pri) ELSE Len(nor)
  IN Take(first \o (IF aged /\ nor # <<>>
                    THEN Alternate(nor, pri, both)
                           \o SubSeq(nor, both + 1, Len(nor)) \o SubSeq(pri, both + 1, Len(pri))
                    ELSE pri \o nor),
          MaxBatchCount)

\* Which trigger makes the buffer due for the main lane.
Due(st, buf, put, force, elapsed) ==
  \/ Has(buf, Priority)
  \/ force \/ st # "open"
  \/ Has(buf, put)
  \/ Len(buf) >= MaxBatchCount
  \/ elapsed

\* schedule() with what its caller has just left: state, buffer, busy lanes,
\* deferred members, forced flush, backoff. aged implies elapsed.
Schedule(st, buf, busy, put, force, wait, elapsed, aged) ==
  LET sends  == buf # <<>> /\ ~ wait /\ busy["main"] = <<>> /\ Due(st, buf, put, force, elapsed)
      main   == IF sends THEN BatchOf(buf, put, FALSE, aged) ELSE busy["main"]
      left   == IF sends THEN Without(buf, ToSet(main)) ELSE buf
      second == /\ buf # <<>> /\ ~ wait
                /\ main # <<>> /\ busy["priority"] = <<>> /\ Has(left, Priority)
      pri    == IF second THEN BatchOf(left, put, TRUE, aged) ELSE busy["priority"]
      gone   == UNION {ToSet(lanes'[l]) : l \in {k \in Lane : busy[k] = <<>>}}
  IN /\ lanes' = [busy EXCEPT !["main"] = main, !["priority"] = pri]
     /\ buffer' = Without(buf, gone)
     /\ deferred' = put \ gone
     /\ backoff' = wait
     /\ forceFlush' = (force /\ ~ (buf = <<>> /\ \A l \in Lane : lanes'[l] = <<>>))

\* Elapsed time since the oldest submit in buf: little, the window, maxNormalWaitMs
\* (which makes a difference only where both classes wait).
Elapsed(buf) ==
  {<<FALSE, FALSE>>}
    \cup {<<TRUE, FALSE>> : m \in ToSet(buf)}
    \cup {<<TRUE, TRUE>> : m \in {n \in ToSet(buf) \ Priority : Has(buf, Priority)}}
Aged(buf) == {t[2] : t \in Elapsed(buf)}

-----------------------------------------------------------------------------
(* submit(), flush(), timers, close() *)

Submit(m, t) ==
  /\ state = "open"
  /\ outcome[m] = "new"
  /\ Command[m] \notin stuck
  /\ heldCount + 1 <= MaxBufferedCount
  /\ heldCount' = heldCount + 1
  /\ outcome' = [outcome EXCEPT ![m] = "held"]
  /\ order' = IF IsPriority(m) THEN order ELSE Append(order, m)
  /\ Schedule(state, Append(buffer, m), lanes, deferred, forceFlush, backoff, t[1], t[2])
  /\ UNCHANGED <<state, attempts, stuck, store>>

Flush(aged) ==
  /\ Schedule(state, buffer, lanes, deferred, TRUE, backoff, aged, aged)
  /\ UNCHANGED <<state, attempts, heldCount, outcome, stuck, store, order>>

\* The window timer; it is armed only while the main lane is free.
WindowTimer(aged) ==
  /\ buffer # <<>> /\ ~ backoff /\ lanes["main"] = <<>>
  /\ Schedule(state, buffer, lanes, deferred, forceFlush, FALSE, TRUE, aged)
  /\ UNCHANGED <<state, attempts, heldCount, outcome, stuck, store, order>>

RetryTimer(t) ==
  /\ backoff
  /\ Schedule(state, buffer, lanes, deferred, forceFlush, FALSE, t[1], t[2])
  /\ UNCHANGED <<state, attempts, heldCount, outcome, stuck, store, order>>

Close(aged) ==
  /\ state = "open"
  /\ state' = "closing"
  /\ Schedule("closing", buffer, lanes, deferred, forceFlush, FALSE, aged, aged)
  /\ UNCHANGED <<attempts, heldCount, outcome, stuck, store, order>>

\* Mutant: what is still buffered at the timeout is dropped, not rejected.
CloseForgets ==
  /\ state = "closing"
  /\ state' = "closed"
  /\ buffer' = <<>>
  /\ UNCHANGED <<lanes, deferred, attempts, heldCount, forceFlush, backoff, outcome,
                 stuck, store, order>>

\* Idle, or the timeout: what never left the buffer is rejected.
CloseEnds ==
  /\ state = "closing"
  /\ state' = "closed"
  /\ buffer' = <<>>
  /\ heldCount' = heldCount - Len(buffer)
  /\ outcome' = [m \in Member |-> IF m \in ToSet(buffer) THEN "not_committed" ELSE outcome[m]]
  /\ UNCHANGED <<lanes, deferred, attempts, forceFlush, backoff, stuck, store, order>>

-----------------------------------------------------------------------------
(* The worker: one batch in one transaction, one savepoint per member *)

Busy(l) == lanes[l] # <<>> /\ reply[l] = None

\* The receipt a member finds: a committed one, or one written before it in the
\* same transaction by a member of ok.
FindsReceipt(batch, ok, i) ==
  \/ receipts[Command[batch[i]]] # None
  \/ \E j \in ok : j < i /\ Command[batch[j]] = Command[batch[i]]

Stored(batch, ok, c) ==
  IF receipts[c] # None \/ \A j \in ok : Command[batch[j]] # c THEN receipts[c]
  ELSE Digest[batch[CHOOSE j \in ok : /\ Command[batch[j]] = c
                                      /\ \A k \in ok : Command[batch[k]] = c => j <= k]]

\* withReceipt refuses a member whose command has a receipt of another digest.
Conflicts(batch, ok, i) ==
  /\ FindsReceipt(batch, ok, i)
  /\ Stored(batch, {j \in ok : j < i}, Command[batch[i]]) # Digest[batch[i]]

\* Mutant: the receipt is looked up but a handler runs anyway.
RunAgain(batch, ok) == ok

\* Members of ok whose handler really runs, the others replay a receipt.
Runs(batch, ok) == {i \in ok : ~ FindsReceipt(batch, ok, i)}

\* What a transaction that ended at position stop leaves behind when it commits.
Durable(batch, ok, ender) ==
  LET ran == Runs(batch, ok) \cup ender
  IN /\ receipts' = [c \in Commands |-> Stored(batch, ok, c)]
     /\ applied' = applied \o Only(batch, {batch[i] : i \in ran})

Nothing == UNCHANGED <<receipts, applied>>

\* Answers by position: members before stop ran (ok) or failed in their own
\* savepoint; at is what happened to the one at stop, later what to the rest.
Answer(batch, stop, ok, at, later) ==
  [i \in DOMAIN batch |-> IF i < stop THEN IF i \in ok THEN "ok" ELSE "failed"
                          ELSE IF i = stop THEN at ELSE later]

\* All ways runBatch can end. A member is deferred only after an accepted result.
RunBatch(l, stop, ok) ==
  LET batch == lanes[l]
      Replies(batchState, at, later) ==
        \E retryable \in {batchState = "not_committed", FALSE} :
          reply' = [reply EXCEPT ![l] =
            [batch |-> batchState, retryable |-> retryable,
             kinds |-> Answer(batch, stop, ok, at, later)]]
  IN /\ Busy(l) /\ zombie = <<>>
     /\ \A i \in ok : ~ Conflicts(batch, ok, i)
     /\ \/ \* every member ran, or the reply budget is used up: then COMMIT
           /\ stop <= Len(batch) => ok # {}
           /\ \/ Durable(batch, ok, {}) /\ Replies("committed", "deferred", "deferred")
              \/ Nothing /\ Replies("not_committed", "deferred", "deferred")
              \/ (Durable(batch, ok, {}) \/ Nothing) /\ Replies("unknown", "deferred", "deferred")
           /\ UNCHANGED rogue
        \/ \* SQLite rolled back by itself, or a savepoint failed
           /\ stop <= Len(batch)
           /\ Nothing /\ Replies("not_committed", "failed", "notRun")
           /\ UNCHANGED rogue
        \/ \* a handler ended the transaction behind the worker's back
           /\ stop <= Len(batch)
           /\ ~ FindsReceipt(batch, ok, stop)
           /\ Durable(batch, ok, {stop}) \/ Nothing
           /\ Replies("unknown", "ender", "notRun")
           /\ rogue' = rogue \cup {Command[batch[stop]]}
     /\ UNCHANGED <<committer, zombie, order>>

\* BEGIN fails, or the host refuses the batch before it is dispatched.
BatchRefused(l, retryable) ==
  /\ Busy(l)
  /\ reply' = [reply EXCEPT ![l] =
       [batch |-> "not_committed", retryable |-> retryable,
        kinds |-> [i \in DOMAIN lanes[l] |-> "notRun"]]]
  /\ UNCHANGED <<committer, zombie, receipts, applied, rogue, order>>

\* The host loses the worker: the batch is unknown at once, its thread goes on.
WorkerLost(l) ==
  /\ Busy(l) /\ zombie = <<>>
  /\ zombie' = lanes[l]
  /\ reply' = [reply EXCEPT ![l] =
       [batch |-> "unknown", retryable |-> FALSE, kinds |-> [i \in DOMAIN lanes[l] |-> "ok"]]]
  /\ UNCHANGED <<committer, receipts, applied, rogue, order>>

\* The thread of a lost worker exits, having committed or not; only then does
\* the host start another one.
ZombieExits(ok) ==
  /\ zombie # <<>>
  /\ \A i \in ok : ~ Conflicts(zombie, ok, i)
  /\ Durable(zombie, ok, {})
  /\ zombie' = <<>>
  /\ UNCHANGED <<committer, reply, rogue, order>>

-----------------------------------------------------------------------------
(* Settling a batch *)

Retries(m, retryable) ==
  retryable /\ state = "open" /\ attempts[m] + 1 < MaxFlushAttempts

\* Mutant: members that ran before an unknown COMMIT are retried at once.
VerdictRetriesUnknown(r, m, kind) ==
  CASE kind = "failed" -> "not_committed"
    [] kind = "ender" -> "not_reconcilable"
    [] kind = "ok" /\ r.batch = "committed" -> "ok"
    [] kind = "deferred" /\ r.batch = "committed" ->
         IF state = "closed" THEN "not_committed" ELSE "defer"
    [] OTHER -> IF Retries(m, r.retryable \/ r.batch = "unknown") THEN "retry" ELSE "not_committed"

\* settleMember and failBatch: what becomes of one member.
Verdict(r, m, kind) ==
  CASE kind = "failed" -> "not_committed"
    [] kind = "ender" -> "not_reconcilable"
    [] kind = "ok" /\ r.batch = "committed" -> "ok"
    [] kind = "ok" /\ r.batch = "unknown" -> "unknown"
    [] kind = "deferred" /\ r.batch = "committed" ->
         IF state = "closed" THEN "not_committed" ELSE "defer"
    [] OTHER -> IF Retries(m, r.retryable \/ r.batch = "unknown") THEN "retry" ELSE "not_committed"

\* Mutant: requeued members go to the end of the buffer.
RequeueLast(again, buf) == buf \o again

Requeue(again, buf) == again \o buf

\* Settle every member, free the lane and put the requeued ones back in front.
Settle(l) ==
  LET batch == lanes[l]
      r     == reply[l]
      verdict == [i \in DOMAIN batch |-> Verdict(r, batch[i], r.kinds[i])]
      With(v) == {batch[i] : i \in {j \in DOMAIN batch : verdict[j] = v}}
      done  == ToSet(batch) \ (With("retry") \cup With("defer"))
      again == Only(batch, {m \in Member : outcome'[m] = "held"})
      put   == (deferred \ ToSet(batch)) \cup With("defer")
  IN /\ r # None
     /\ outcome' = [m \in Member |->
          IF m \in done THEN CHOOSE v \in Outcomes : m \in With(v) ELSE outcome[m]]
     /\ heldCount' = heldCount - Cardinality(done)
     /\ attempts' = [m \in Member |-> IF m \in With("retry") THEN attempts[m] + 1 ELSE attempts[m]]
     /\ stuck' = stuck \cup {Command[m] : m \in With("not_reconcilable")}
     /\ reply' = [reply EXCEPT ![l] = None]
     /\ UNCHANGED <<state, zombie, receipts, applied, rogue, order>>
     /\ \E t \in Elapsed(Requeue(again, buffer)) :
          Schedule(state, Requeue(again, buffer), [lanes EXCEPT ![l] = <<>>], put, forceFlush,
                   backoff \/ With("retry") # {}, t[1], t[2])

\* resolveUnknown(): the receipt decides. The query waits for the old thread.
ResolveUnknown(m) ==
  /\ outcome[m] = "unknown"
  /\ Command[m] \notin stuck
  /\ zombie = <<>>
  /\ outcome' = [outcome EXCEPT ![m] =
       IF receipts[Command[m]] = Digest[m] THEN "ok" ELSE "not_committed"]
  /\ UNCHANGED <<state, buffer, lanes, deferred, attempts, heldCount, forceFlush, backoff,
                 stuck, store, order>>

-----------------------------------------------------------------------------
Caller ==
  \/ \E m \in Member : \E t \in Elapsed(Append(buffer, m)) : Submit(m, t)
  \/ \E aged \in Aged(buffer) : Flush(aged) \/ Close(aged)
  \/ \E m \in Member : ResolveUnknown(m)

Timers ==
  \/ \E aged \in Aged(buffer) : WindowTimer(aged)
  \/ \E t \in Elapsed(buffer) : RetryTimer(t)
  \/ CloseEnds

Serve(l) ==
  \/ \E retryable \in BOOLEAN : BatchRefused(l, retryable)
  \/ \E stop \in 1..(Len(lanes[l]) + 1) :
       \E ok \in SUBSET (1..(stop - 1)) : RunBatch(l, stop, ok)
  \/ WorkerLost(l)

Exit == \E ok \in SUBSET (DOMAIN zombie) : ZombieExits(ok)

Next == Caller \/ Timers \/ Exit \/ \E l \in Lane : Serve(l) \/ Settle(l)

Spec == Init /\ [][Next]_vars

\* Timers fire, the worker answers or is lost, threads exit, promises run: as
\* long as one of these can happen, one of them does.
FairSpec == Spec /\ WF_vars((\E l \in Lane : Serve(l)) \/ Exit \/ Timers \/ \E l \in Lane : Settle(l))

-----------------------------------------------------------------------------
(* Properties *)

\* The type invariant; and backpressure counts exactly what is buffered or in
\* flight, on every path a member can take: a leak refuses all writes for good.
HeldIsExact ==
  TypeOK /\ heldCount = Len(buffer) + Len(lanes["main"]) + Len(lanes["priority"])

\* Durable ACK: a resolved member's command has a committed receipt of its digest.
\* A member reported not_committed (also by resolveUnknown) has left no effect,
\* and none of its earlier dispatches can still commit.
AnswersAreTrue ==
  \A m \in Member :
    /\ outcome[m] = "ok" => receipts[Command[m]] = Digest[m]
    /\ outcome[m] = "not_committed" => m \notin ToSet(applied) \cup ToSet(zombie)

\* A command takes effect at most once, through flush retries, lost replies,
\* lost workers and callers that submit it again. The exception is a handler
\* that ends the transaction without a receipt.
AppliedOnce ==
  \A i, j \in DOMAIN applied :
    i # j /\ Command[applied[i]] = Command[applied[j]] => Command[applied[i]] \in rogue

\* "Two normal members commit in submission order".
NormalOrder ==
  LET At(s, m) == CHOOSE i \in DOMAIN s : s[i] = m
  IN \A m, n \in ToSet(applied) \ Priority :
       At(order, m) < At(order, n) => At(applied, m) < At(applied, n)

\* "Settling can never leave a member hanging": every submit() settles. Submits
\* are finitely many, so it is enough that again and again none is pending.
EverySubmitSettles == []<>(\A m \in Member : outcome[m] # "held")
=============================================================================
