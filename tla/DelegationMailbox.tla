-------------------------- MODULE DelegationMailbox --------------------------
(* The mailbox through which the child chats of a delegated job report to the   *)
(* chat that controls it (lib/delegation-mailbox.js), with what moves its rows   *)
(* from the side: the runtime tick (delegation-runtime-worker.js), shutdown and  *)
(* boot (delegation-runtime-boot.js, reconcileMailboxOnBoot), and a takeover of  *)
(* the job by another chat (delegation-takeover.js).                             *)
(*                                                                              *)
(* A delivery is one turn started in the recipient chat. It runs under a lock    *)
(* per chat and awaits in the middle: the history card, the start lock of the    *)
(* chat, the adapter. One action is one stretch between two awaits. A request id  *)
(* kept in the row makes the start repeatable: the registry of turns (modelled   *)
(* in RunRecovery) answers for it.                                               *)
EXTENDS Naturals, Sequences, SequencesExt, Filtering

CONSTANTS
  Messages,    \* how many reports the job's attempts send
  Calls,       \* how many deliveries can be under way at once
  Old, New,    \* the chat that controls the job, and the one that takes it over
  Together,    \* bound: sets of rare events, each of which may happen once in a run
  None

VARIABLES
  row,         \* delegation-mailbox store: one record per message
  registry,    \* what the registry of turns knows of the message's request
  controller,  \* delegationController(job)
  journal,     \* phase of the takeover record
  seen,        \* messages whose attempt the parent has acknowledged
  fate,        \* the chats' state: "open", "closed" (cycle), "gone"
  call,        \* this process's deliveries
  lock,        \* chatLocks: who waits for a chat, the holder first
  taking,      \* where this process's takeover stands
  turn,        \* the turn that runs in each chat
  closing,     \* shutdown: "no", "asked" (isServerShuttingDown), "flushed"
  boot,        \* how far this process has come since it listens
  spent,       \* the rare events that have happened
  launched     \* history: turns started for each message, those the registry was
               \* asked to record and those of a process whose registry was closed

durable  == <<registry, controller, journal, seen, fate>>
volatile == <<call, lock, taking, turn, closing, boot>>
vars     == <<row, durable, volatile, spent, launched>>

Msg == 1..Messages  \* in the order of createdAt
Call == 1..Calls
Chat == {Old, New}
Taker == 0  \* the place of the takeover among the calls
Rare == {"crash", "slow", "user", "retry", "replay", "seen", "fate", "shut", "refused", "error",
         "takeover"}

ASSUME MailboxConstants ==
  /\ Messages \in Nat /\ Calls \in Nat
  /\ Old # New
  /\ Together \subseteq SUBSET Rare

NoCall == [at |-> "idle", m |-> None, chat |-> None, retry |-> FALSE, todo |-> <<>>,
           request |-> 0, lease |-> 0, blind |-> FALSE, run |-> 0]
NoTurn == <<>>
UserTurn == <<None, 0>>
Blank == [status |-> "absent", to |-> Old, how |-> "", request |-> 0, lease |-> 0,
          run |-> 0, failed |-> FALSE, passed |-> "no"]

Init ==
  /\ row = [m \in Msg |-> Blank]
  /\ registry = [m \in Msg |-> [request |-> 0, state |-> "none", run |-> 0]]
  /\ controller = Old /\ journal = "none"
  /\ seen = {} /\ fate = [c \in Chat |-> "open"]
  /\ call = [k \in Call |-> NoCall] /\ lock = [c \in Chat |-> <<>>]
  /\ taking = "no" /\ turn = [c \in Chat |-> NoTurn] /\ closing = "no" /\ boot = "up"
  /\ spent = {}
  /\ launched = [m \in Msg |-> [recorded |-> 0, unrecorded |-> 0]]

Spend(rare) ==
  /\ rare \notin spent
  /\ \E some \in Together : spent \cup {rare} \subseteq some
  /\ spent' = spent \cup {rare}

-----------------------------------------------------------------------------
(* Rows *)

\* The turns of a message, recorded or not. They are numbered in this order.
Turns(n) == n.recorded + n.unrecorded

\* What the registry knows of a request, whichever chat it was for: nothing as long
\* as it is closed.
Known(m, request) ==
  IF boot # "up" \/ request = 0 \/ registry[m].request # request
  THEN "none" ELSE registry[m].state

\* lookupChatRunRequest for the row's chat: null (also when that is deleted), not
\* accepted, or accepted.
Lookup(m, request) == IF fate[row[m].to] = "gone" THEN "none" ELSE Known(m, request)

\* Mutant: each attempt of a delivery asks for a new request.
RequestPerAttempt(r, k) == r.lease + 1

\* The request id is chosen at the first attempt and kept. The id a call would
\* choose is the call's number.
RequestOf(r, k) == IF r.request = 0 THEN k ELSE r.request

\* redirectMailboxToController: only what is still queued follows the job.
Redirected(r, to) == IF r.status = "queued" THEN [r EXCEPT !.to = to] ELSE r

Delivered(r, run) == [r EXCEPT !.status = "delivered", !.how = "started_run", !.run = run]
Skipped(r) == [r EXCEPT !.status = "delivered", !.how = "skipped"]
\* failed is history: a delivery of the message has failed. So is passed: where boot
\* let control pass a delivery of the message by.
Is(r, status) == [r EXCEPT !.status = status, !.failed = @ \/ status = "failed"]

-----------------------------------------------------------------------------
(* Deliveries *)

\* A delivery begins in the first free slot.
Free(k) == call[k].at = "idle" /\ \A other \in 1..(k - 1) : call[other].at # "idle"

\* Mutant: the chat the row names is not compared with the job's controller.
EnterAsNamed(k, m, r, retry, todo) ==
  /\ row' = [row EXCEPT ![m] = r]
  /\ call' = [call EXCEPT ![k] = [NoCall EXCEPT
                 !.at = "wait", !.m = m, !.chat = r.to, !.retry = retry, !.todo = todo]]
  /\ lock' = [lock EXCEPT ![r.to] = Append(@, k)]

\* deliverMailboxToCurrentRecipient: redirect, then queue for the recipient's lock.
Enter(k, m, r, retry, todo) ==
  LET now == Redirected(r, controller) IN
  /\ row' = [row EXCEPT ![m] = now]
  /\ call' = [call EXCEPT ![k] = [NoCall EXCEPT
                 !.at = "wait", !.m = m, !.chat = now.to, !.retry = retry, !.todo = todo]]
  /\ lock' = [lock EXCEPT ![now.to] = Append(@, k)]

\* The lock is released; what is left to do is taken up, or the call ends.
Leave(k, todo) ==
  /\ lock' = [lock EXCEPT ![call[k].chat] = Tail(@)]
  /\ call' = [call EXCEPT ![k] =
       IF todo = <<>> THEN NoCall
       ELSE [NoCall EXCEPT !.at = "next", !.retry = call[k].retry, !.todo = todo]]

\* The row is as r says, and a drain stops at the first message not delivered.
Done(k, r) ==
  /\ row' = [row EXCEPT ![call[k].m] = r]
  /\ Leave(k, IF r.status = "delivered" THEN call[k].todo ELSE <<>>)

\* currentLease: still the attempt this call began.
HasLease(k) ==
  LET r == row[call[k].m] IN r.status = "dispatching" /\ r.lease = call[k].lease

DoneIfLeased(k, r) == Done(k, IF HasLease(k) THEN r ELSE row[call[k].m])

\* enqueueMailboxMessage: a new row, delivered at once or left to a drain. The
\* recipient was read before the sender's text was looked up.
Post(m, to) ==
  /\ row[m].status = "absent" /\ \A before \in 1..(m - 1) : row[before].status # "absent"
  /\ to \in {Old, controller}
  /\ LET r == [Blank EXCEPT !.status = "queued", !.to = to] IN
     \/ /\ row' = [row EXCEPT ![m] = Redirected(r, controller)]
        /\ UNCHANGED <<call, lock>>
     \/ \E k \in Call : Free(k) /\ Enter(k, m, r, FALSE, <<>>)
  /\ UNCHANGED <<registry, controller, journal, seen, fate, taking, turn, closing, boot, spent,
                 launched>>

QueuedFor(c) ==
  Filter([m \in Msg |-> m], {m \in Msg : row[m].status = "queued" /\ row[m].to = c})

\* drainChatMailbox
StartDrain(k, c) ==
  /\ Free(k)
  /\ QueuedFor(c) # <<>>
  /\ LET m == Head(QueuedFor(c)) IN Enter(k, m, row[m], FALSE, Tail(QueuedFor(c)))

\* The tick drains every chat with queued messages, and so does boot's recovery, both
\* once the registry is open. An outbox flush, which any request for a retry begins
\* with, drains the controller at any time.
Drain(k, c) ==
  /\ boot = "up" \/ c = controller
  /\ closing = "no" /\ fate[c] # "gone"
  /\ StartDrain(k, c)
  /\ UNCHANGED <<durable, taking, turn, closing, boot, spent, launched>>

NextOfDrain(k) ==
  /\ call[k].at = "next"
  /\ LET m == Head(call[k].todo) IN Enter(k, m, row[m], call[k].retry, Tail(call[k].todo))
  /\ UNCHANGED <<durable, taking, turn, closing, boot, spent, launched>>

\* The sender repeats its reply; the row of a failed delivery is delivered again.
Replay(k, m) ==
  /\ Free(k)
  /\ row[m].status = "failed"
  /\ Spend("replay")
  /\ Enter(k, m, row[m], FALSE, <<>>)
  /\ UNCHANGED <<durable, taking, turn, closing, boot, launched>>

\* Mutant: a recorded intent to start counts as a start.
ProvenByIntent(m) == Lookup(m, row[m].request) \in {"accepted", "pending"}

\* The registry knows the turn of the row's request.
Proven(m) == Lookup(m, row[m].request) = "accepted"

\* retryMailboxMessage: one at a time for a message. A request that was accepted
\* confirms the delivery, otherwise it is tried again under the same request id.
Retry(k, m) ==
  /\ row[m].status \in {"failed", "uncertain"}
  /\ \A other \in Call : ~(call[other].m = m /\ call[other].retry)
  /\ Spend("retry")
  /\ \/ /\ Proven(m)
        /\ row' = [row EXCEPT ![m] = Delivered(@, registry[m].run)]
        /\ UNCHANGED <<call, lock>>
     \/ /\ ~Proven(m)
        /\ Free(k)
        /\ Enter(k, m, Is(row[m], "queued"), TRUE, <<>>)
  /\ UNCHANGED <<durable, taking, turn, closing, boot, launched>>

\* First stretch under the lock, up to the await of the history card. A moved
\* recipient gives the lock back and starts over.
TakeLock(k) ==
  LET m == call[k].m
      r == row[m] IN
  /\ call[k].at = "wait"
  /\ Head(lock[call[k].chat]) = k
  /\ \/ /\ r.to # call[k].chat
        /\ Leave(k, <<m>> \o call[k].todo)
        /\ UNCHANGED row
     \/ /\ r.to = call[k].chat
        /\ r.status \in {"delivered", "uncertain", "dispatching"}
        /\ Done(k, r)
     \/ /\ r.to = call[k].chat
        /\ r.status \in {"queued", "failed"}
        /\ IF m \in seen
           THEN Done(k, Skipped(r))
           ELSE /\ call' = [call EXCEPT ![k].at = "publish", ![k].lease = r.lease + 1,
                                        ![k].request = RequestOf(r, k)]
                /\ UNCHANGED <<row, lock>>
  /\ UNCHANGED <<durable, taking, turn, closing, boot, spent, launched>>

\* The card is in the history: the recipient's state decides. The lease and the
\* request id were read before. Nothing is started during shutdown.
Published(k) ==
  LET m == call[k].m
      c == call[k].chat
      sent == [row[m] EXCEPT !.status = "dispatching", !.request = call[k].request,
                             !.lease = call[k].lease] IN
  /\ call[k].at = "publish"
  /\ \/ turn[c] # NoTurn /\ Done(k, Is(row[m], "queued"))
     \/ turn[c] = NoTurn /\ fate[c] = "gone" /\ Done(k, Is(row[m], "failed"))
     \/ turn[c] = NoTurn /\ fate[c] = "closed" /\ Done(k, Skipped(row[m]))
     \/ /\ turn[c] = NoTurn /\ fate[c] = "open"
        /\ \/ closing # "no" /\ Done(k, Is(sent, "failed"))
           \/ /\ closing = "no"
              /\ row' = [row EXCEPT ![m] = sent]
              /\ call' = [call EXCEPT ![k].at = "asked"]
              /\ UNCHANGED lock
  /\ UNCHANGED <<durable, taking, turn, closing, boot, spent, launched>>

\* The history write is rejected: the error leaves the row as it is.
PublishFails(k) ==
  /\ call[k].at = "publish"
  /\ Spend("error")
  /\ Leave(k, <<>>)
  /\ UNCHANGED <<row, durable, taking, turn, closing, boot, launched>>

-----------------------------------------------------------------------------
(* The start of the recipient's turn *)

\* startChatRun has answered with run n. A call whose lease is gone (the row was
\* timed out, flushed or retried meanwhile) cancels the turn and leaves the row.
Answer(k, n) ==
  LET m == call[k].m
      c == call[k].chat IN
  \/ /\ HasLease(k)
     /\ Done(k, Delivered(row[m], n))
     /\ UNCHANGED turn
  \/ /\ ~HasLease(k)
     /\ Done(k, row[m])
     /\ \/ UNCHANGED turn  \* it is over, or the cancel fails
        \/ turn[c] = <<m, n>> /\ turn' = [turn EXCEPT ![c] = NoTurn]

Unanswered(k, status) ==
  /\ DoneIfLeased(k, Is(row[call[k].m], status))
  /\ UNCHANGED turn

\* beginChatRunRecord: the registry knows of the intent to start.
Intends(k) ==
  registry' = [registry EXCEPT ![call[k].m] =
                 [request |-> call[k].request, state |-> "pending", run |-> 0]]

\* A row proven refused may be superseded, any other stands in the way.
Taken(k) == Known(call[k].m, call[k].request) \in {"pending", "accepted"}

\* Under the chat's start lock: a request that was accepted is answered with its
\* run, an unproven one is refused, else the intent is recorded; a closed registry
\* records nothing, and the start goes on without.
Asked(k) ==
  LET m == call[k].m
      c == call[k].chat
      found == Known(m, call[k].request) IN
  /\ call[k].at = "asked"
  /\ \/ fate[c] = "gone" /\ Unanswered(k, "failed") /\ UNCHANGED registry
     \/ /\ fate[c] # "gone" /\ found = "accepted"
        /\ Answer(k, registry[m].run)
        /\ UNCHANGED registry
     \/ /\ fate[c] # "gone" /\ found # "accepted"
        /\ \/ closing # "no" /\ Unanswered(k, "failed") /\ UNCHANGED registry
           \/ /\ closing = "no" /\ turn[c] # NoTurn
              /\ Unanswered(k, "queued")
              /\ UNCHANGED registry
           \/ /\ closing = "no" /\ turn[c] = NoTurn /\ found = "pending"
              /\ Unanswered(k, "failed")
              /\ UNCHANGED registry
           \/ /\ closing = "no" /\ turn[c] = NoTurn /\ found # "pending"
              /\ call' = [call EXCEPT ![k].at = "start", ![k].blind = (boot # "up")]
              /\ IF boot = "up" THEN Intends(k) ELSE UNCHANGED registry
              /\ UNCHANGED <<row, lock, turn>>
  /\ UNCHANGED <<controller, journal, seen, fate, taking, closing, boot, spent, launched>>

\* Inside adapter.start: the turn runs, the answer is still to come. A start without
\* a record asks the registry once more, which may be open by now.
Launches(k) ==
  LET m == call[k].m
      shut == call[k].blind /\ boot # "up"
      n == Turns(launched[m]) + 1 IN
  /\ call[k].at = "start"
  /\ turn[call[k].chat] = NoTurn
  /\ turn' = [turn EXCEPT ![call[k].chat] = <<m, n>>]
  /\ call' = [call EXCEPT ![k].at = "launched", ![k].run = n, ![k].blind = shut]
  /\ \/ ~call[k].blind /\ UNCHANGED registry
     \/ shut /\ UNCHANGED registry
     \/ call[k].blind /\ boot = "up" /\ ~Taken(k) /\ Intends(k)
  /\ launched' = IF shut THEN [launched EXCEPT ![m].unrecorded = @ + 1]
                 ELSE [launched EXCEPT ![m].recorded = @ + 1]
  /\ UNCHANGED <<row, controller, journal, seen, fate, lock, taking, closing, boot, spent>>

\* launch_blocked: the registry has opened since, and stands in the way.
Blocked(k) ==
  /\ call[k].at = "start" /\ call[k].blind /\ boot = "up"
  /\ turn[call[k].chat] = NoTurn
  /\ Taken(k)
  /\ Unanswered(k, "failed")
  /\ UNCHANGED <<durable, taking, closing, boot, spent, launched>>

\* The state of the call's intent, if the registry holds one.
Marks(k, state, run) ==
  registry' = IF call[k].blind \/ registry[call[k].m].request # call[k].request THEN registry
              ELSE [registry EXCEPT ![call[k].m].state = state, ![call[k].m].run = run]

\* The adapter accepts, and its acceptance is recorded; a failed record is passed
\* over.
Accepts(k) ==
  /\ call[k].at = "launched"
  /\ Answer(k, call[k].run)
  /\ \/ Marks(k, "accepted", call[k].run) /\ UNCHANGED spent
     \/ Spend("error") /\ UNCHANGED registry
  /\ UNCHANGED <<controller, journal, seen, fate, taking, closing, boot, launched>>

\* recipient_busy, recorded as a refused start.
Refused(k) ==
  /\ call[k].at = "start"
  /\ \/ turn[call[k].chat] # NoTurn /\ UNCHANGED spent
     \/ Spend("refused")
  /\ Marks(k, "refused", 0)
  /\ Unanswered(k, "queued")
  /\ UNCHANGED <<controller, journal, seen, fate, taking, closing, boot, launched>>

\* Any other error of the start, before or after the turn is launched.
Breaks(k) ==
  /\ call[k].at \in {"start", "launched"}
  /\ Spend("error")
  /\ Unanswered(k, "failed")
  /\ UNCHANGED <<durable, taking, closing, boot, launched>>

-----------------------------------------------------------------------------
(* What happens beside the deliveries *)

\* The user's own turn.
UserStarts(c) ==
  /\ turn[c] = NoTurn /\ fate[c] # "gone" /\ closing = "no"
  /\ Spend("user")
  /\ turn' = [turn EXCEPT ![c] = UserTurn]
  /\ UNCHANGED <<row, durable, call, lock, taking, closing, boot, launched>>

\* sdkRunFinished: the turn is over, and the mailbox of its chat is drained, also
\* while the process shuts down.
TurnEnds(c) ==
  /\ turn[c] # NoTurn
  /\ turn' = [turn EXCEPT ![c] = NoTurn]
  /\ \/ \E k \in Call : StartDrain(k, c)
     \/ /\ QueuedFor(c) = <<>> \/ \A k \in Call : call[k].at # "idle"
        /\ UNCHANGED <<row, call, lock>>
  /\ UNCHANGED <<durable, taking, closing, boot, spent, launched>>

\* timeoutDispatchingMailbox. The tick, a takeover, boot and the flush share the
\* store's work queue.
TimesOut(m) ==
  /\ boot = "up"
  /\ row[m].status = "dispatching"
  /\ closing = "no" /\ taking = "no"
  /\ Spend("slow")
  /\ row' = [row EXCEPT ![m] = Is(@, "uncertain")]
  /\ UNCHANGED <<durable, volatile, launched>>

\* The parent acknowledges the attempt: it has read the report elsewhere.
Acknowledge(m) ==
  /\ row[m].status # "absent" /\ m \notin seen
  /\ Spend("seen")
  /\ seen' = seen \cup {m}
  /\ UNCHANGED <<row, registry, controller, journal, fate, volatile, launched>>

\* The chat's cycle is closed, or the chat is deleted (not during a takeover).
FateChanges(c) ==
  /\ fate[c] = "open"
  /\ Spend("fate")
  /\ \E new \in {"closed", "gone"} :
       /\ new = "gone" => journal \in {"none", "done"}
       /\ fate' = [fate EXCEPT ![c] = new]
  /\ UNCHANGED <<row, registry, controller, journal, seen, volatile, launched>>

-----------------------------------------------------------------------------
(* Takeover of the job by another chat *)

\* orchestrationTakeover takes the chats' locks in the order of their ids, here
\* Old first, and waits for each behind the deliveries of that chat. A former
\* controller that is busy can be overridden (forceUnavailable).
TakeoverAsks ==
  /\ taking = "no" /\ journal = "none" /\ fate[New] # "gone"
  /\ Spend("takeover")
  /\ taking' = "first"
  /\ lock' = [lock EXCEPT ![Old] = Append(@, Taker)]
  /\ UNCHANGED <<row, durable, call, turn, closing, boot, launched>>

TakeoverNext ==
  /\ taking = "first" /\ Head(lock[Old]) = Taker
  /\ taking' = "second"
  /\ lock' = [lock EXCEPT ![New] = Append(@, Taker)]
  /\ UNCHANGED <<row, durable, call, turn, closing, boot, spent, launched>>

\* Mutant: the takeover gives up and keeps its places in the lines.
TakeoverGivesUpInLine ==
  /\ taking \in {"first", "second"}
  /\ Spend("slow")
  /\ taking' = "no"
  /\ UNCHANGED <<row, durable, call, lock, turn, closing, boot, launched>>

\* takeover_busy: a place in a line is given up without blocking who stands behind.
TakeoverGivesUp ==
  /\ taking \in {"first", "second"}
  /\ Spend("slow")
  /\ taking' = "no"
  /\ lock' = [c \in Chat |-> Filter(lock[c], Call)]
  /\ UNCHANGED <<row, durable, call, turn, closing, boot, launched>>

\* The journal's checkpoints: what was done in each step is done again if the
\* process dies before the next one.
TakeoverStarts ==
  /\ taking = "second" /\ Head(lock[New]) = Taker
  /\ taking' = "holds" /\ journal' = "started"
  /\ UNCHANGED <<row, registry, controller, seen, fate, call, lock, turn, closing, boot,
                 spent, launched>>

TakeoverRows ==
  /\ taking = "holds" /\ journal = "started"
  /\ journal' = "rows" /\ controller' = New
  /\ UNCHANGED <<row, registry, seen, fate, volatile, spent, launched>>

TakeoverMail ==
  /\ taking = "holds" /\ journal = "rows"
  /\ journal' = "mail"
  /\ row' = [m \in Msg |-> Redirected(row[m], controller)]
  /\ UNCHANGED <<registry, controller, seen, fate, volatile, spent, launched>>

TakeoverEnds ==
  /\ taking = "holds" /\ journal = "mail"
  /\ journal' = "done" /\ taking' = "no"
  /\ lock' = [c \in Chat |-> Tail(lock[c])]
  /\ UNCHANGED <<row, registry, controller, seen, fate, call, turn, closing, boot,
                 spent, launched>>

TakeoverStep == TakeoverNext \/ TakeoverStarts \/ TakeoverRows \/ TakeoverMail \/ TakeoverEnds

-----------------------------------------------------------------------------
(* Shutdown, crash and boot *)

Shutdown ==
  /\ closing = "no"
  /\ Spend("shut")
  /\ closing' = "asked"
  /\ UNCHANGED <<row, durable, call, lock, taking, turn, boot, launched>>

\* What is being sent without proof of a turn is not known to be sent.
Unproven(r) == IF r.status = "dispatching" THEN Is(r, "uncertain") ELSE r

\* persistUncertainWorkOnShutdown, behind the store's other work.
Flush ==
  /\ closing = "asked" /\ taking = "no"
  /\ closing' = "flushed"
  /\ row' = [m \in Msg |-> Unproven(row[m])]
  /\ UNCHANGED <<durable, call, lock, taking, turn, boot, spent, launched>>

\* The process is gone; the next one listens and serves requests before boot begins.
Restarts ==
  /\ call' = [k \in Call |-> NoCall] /\ lock' = [c \in Chat |-> <<>>]
  /\ taking' = "no" /\ turn' = [c \in Chat |-> NoTurn] /\ closing' = "no"
  /\ boot' = "listening"
  /\ UNCHANGED <<row, durable, launched>>

Crash == Spend("crash") /\ Restarts

\* The flush may run into its deadline.
Exit == closing # "no" /\ Restarts /\ UNCHANGED spent

\* Where control passes a delivery of a report by: it has sent the row, or holds it
\* while the row, still queued, is moved from under it.
PassedBy(m) ==
  LET Has(stages) == \E k \in Call : call[k].m = m /\ call[k].chat = Old /\ call[k].at \in stages
  IN IF journal = "started" /\ row[m].status = "queued" /\ Has({"publish"}) THEN "held"
     ELSE IF journal = "started" /\ Has({"asked", "start"}) THEN "sent"
     ELSE row[m].passed

\* reconcileTakeoversOnBoot carries open takeovers through, without the chats' locks.
\* Its checkpoints wait for nothing but the store, and a delivery reads who controls
\* the job only to redirect a queued row, so one step stands for them.
BootTakeovers ==
  /\ boot = "listening" /\ taking = "no"
  /\ boot' = "redirected"
  /\ IF journal \in {"none", "done"} THEN UNCHANGED <<row, controller, journal>>
     ELSE /\ controller' = New /\ journal' = "done"
          /\ row' = [m \in Msg |->
                LET r == [row[m] EXCEPT !.passed = PassedBy(m)]
                IN IF journal = "mail" THEN r ELSE Redirected(r, New)]
  /\ UNCHANGED <<registry, seen, fate, call, lock, taking, turn, closing, spent, launched>>

\* reconcileMailboxOnBoot, before the registry opens: it would confirm or queue again
\* what the registry knows, and finds nothing there. A row that a delivery of this
\* process is sending is taken for one of the process before.
BootMail ==
  /\ boot = "redirected" /\ taking = "no"
  /\ boot' = "reconciled"
  /\ row' = [m \in Msg |-> Unproven(Redirected(row[m], controller))]
  /\ UNCHANGED <<durable, call, lock, taking, turn, closing, spent, launched>>

\* openRecoveryStore
BootOpens ==
  /\ boot = "reconciled"
  /\ boot' = "up"
  /\ UNCHANGED <<row, durable, call, lock, taking, turn, closing, spent, launched>>

BootStep == BootTakeovers \/ BootMail \/ BootOpens

-----------------------------------------------------------------------------

CallStep(k) ==
  \/ NextOfDrain(k) \/ TakeLock(k) \/ Published(k) \/ PublishFails(k)
  \/ Asked(k) \/ Launches(k) \/ Blocked(k) \/ Accepts(k) \/ Refused(k) \/ Breaks(k)

Next ==
  \/ \E m \in Msg, to \in Chat : Post(m, to)
  \/ \E k \in Call : CallStep(k)
  \/ \E k \in Call, c \in Chat : Drain(k, c)
  \/ \E k \in Call, m \in Msg : Replay(k, m) \/ Retry(k, m)
  \/ \E c \in Chat : UserStarts(c) \/ TurnEnds(c) \/ FateChanges(c)
  \/ \E m \in Msg : TimesOut(m) \/ Acknowledge(m)
  \/ TakeoverAsks \/ TakeoverGivesUp \/ TakeoverStep
  \/ Shutdown \/ Flush \/ Crash \/ Exit \/ BootStep

Spec == Init /\ [][Next]_vars

\* The store and the adapters answer, turns end, the tick comes round, a process
\* that shuts down exits and is started again, and boot comes to its end.
FairSpec ==
  /\ Spec
  /\ \A k \in Call : WF_vars(CallStep(k))
  /\ \A c \in Chat : /\ WF_vars(boot = "up" /\ \E k \in Call : Drain(k, c))
                    /\ WF_vars(TurnEnds(c))
  /\ WF_vars(TakeoverStep) /\ WF_vars(Exit) /\ WF_vars(BootStep)

-----------------------------------------------------------------------------
(* Properties *)

Status == {"absent", "queued", "dispatching", "delivered", "failed", "uncertain"}

TypeOK ==
  /\ row \in [Msg -> [status : Status, to : Chat, how : {"", "started_run", "skipped"},
                      request : Nat, lease : Nat, run : Nat, failed : BOOLEAN,
                      passed : {"no", "sent", "held"}]]
  /\ registry \in [Msg -> [request : Nat, run : Nat,
                           state : {"none", "pending", "accepted", "refused"}]]
  /\ controller \in Chat /\ seen \subseteq Msg
  /\ boot \in {"listening", "redirected", "reconciled", "up"}
  /\ \A k \in Call : call[k].at \in {"idle", "next", "wait", "publish", "asked", "start",
                                     "launched"}

\* ARCHITECTURE.md: "dispatching replies never start a second delivery". With the
\* registry open a report starts one turn at most, whatever is retried, replayed, timed
\* out, taken over or lost in a crash between the adapter's start and its answer. Two
\* exceptions are the code's: the turns a process starts before its registry is open,
\* which nobody records, count apart; and a delivery that boot has moved the row from
\* under and the row's next one send under two requests.
OneTurnPerMessage == \A m \in Msg : row[m].passed = "held" \/ launched[m].recorded <= 1

\* A report counts as delivered only if its turn was started, or if it needed
\* none: the parent has acknowledged the attempt, or the recipient's cycle is closed.
\* A report that has failed, or that boot passed by, may have been closed with the
\* cycle of the former controller.
DeliveredIsTrue ==
  /\ TypeOK
  /\ \A m \in Msg : row[m].status = "delivered" =>
       \/ row[m].how = "started_run" /\ row[m].run \in 1..Turns(launched[m])
       \/ /\ row[m].how = "skipped"
          /\ \/ m \in seen \/ fate[row[m].to] = "closed"
             \/ fate[Old] = "closed" /\ (row[m].failed \/ row[m].passed # "no")

\* A report wakes the chat that controls the job at that moment, also when the
\* delivery was under way to the former one. Only a report whose delivery has
\* failed keeps its recipient, and may wake the former controller; and so may one
\* whose delivery began before boot carried an open takeover through, which takes
\* no chat's lock.
WakesController ==
  [][\A k \in Call : call[k].at = "start" /\ call'[k].at = "launched" =>
       \/ call[k].chat = controller
       \/ row[call[k].m].failed \/ row[call[k].m].passed # "no"]_vars

\* A report does not stay queued or half sent, unless its recipient is deleted.
EveryMessageSettles ==
  \A m \in Msg : row[m].status \in {"queued", "dispatching"} ~>
    row[m].status \in {"delivered", "failed", "uncertain"} \/ fate[row[m].to] = "gone"

=============================================================================
