------------------------------ MODULE FairQueue ------------------------------
(***************************************************************************)
(* The bounded request queue of the storage worker host and of the job     *)
(* queue: lib/storage/fair-queue.js. Strict priority between classes, FIFO *)
(* inside a class, and a bypass for an aged head of a lower class.         *)
(*                                                                         *)
(* The queue is one sequence in arrival order (the code's seq numbers), a  *)
(* class list is its subsequence. Time is kept as the age of an entry and  *)
(* the time it has left, so neither needs a bound.                         *)
(***************************************************************************)
EXTENDS Integers, Sequences, FiniteSetsExt, SequencesExt, Filtering

CONSTANTS
  Classes,      \* number of priority classes, 1 is the highest
  MaxDepth, MaxBytes, MaxAge, Aging, BypassEvery,
  Sizes         \* payload sizes a caller may ask for

ASSUME FairQueueAssumption ==
  /\ {Classes, MaxDepth, MaxBytes, MaxAge, Aging, BypassEvery} \subseteq Nat \ {0}
  /\ Sizes \subseteq Nat

VARIABLES
  queue,        \* entries in arrival order
  bytes,        \* bytes of payload held
  passedOver    \* strict dispatches over an aged lower head since the last bypass

vars == <<queue, bytes, passedOver>>

\* The last four fields are history: dispatches of others since this one is aged;
\* the bound the module comment gives for them; bypasses that served a younger
\* request while the class of this one was the highest; and the bypasses suffered
\* at the head of its class. age saturates at Aging.
Entry == [class : 1..Classes, size : Nat, age : 0..Aging, left : 0..MaxAge,
          waited : Nat, limit : Nat, outrun : Nat, bypassed : Nat]

TypeOK ==
  /\ queue \in Seq(Entry)
  /\ bytes \in Nat
  /\ passedOver \in 0..BypassEvery

Init == queue = <<>> /\ bytes = 0 /\ passedOver = 0

-----------------------------------------------------------------------------
(* push *)

Room(size) == Len(queue) + 1 <= MaxDepth /\ bytes + size <= MaxBytes

\* A request with a deadline lives min(maxAgeMs, deadline); a refused one (busy,
\* payload_too_large) leaves no trace.
Push(class, size, ttl) ==
  /\ Room(size)
  /\ queue' = Append(queue, [class |-> class, size |-> size, age |-> 0, left |-> ttl,
                             waited |-> 0, limit |-> 0, outrun |-> 0, bypassed |-> 0])
  /\ bytes' = bytes + size
  /\ UNCHANGED passedOver

-----------------------------------------------------------------------------
(* shift *)

\* Heads of the class lists of q.
Heads(q) == {i \in DOMAIN q : \A j \in 1..(i - 1) : q[j].class # q[i].class}

\* The head of the highest class that has one.
Strict(q) == CHOOSE i \in Heads(q) : \A j \in Heads(q) : q[i].class <= q[j].class

\* Aged heads of lower classes.
AgedLower(q) == {i \in Heads(q) \ {Strict(q)} : q[i].age = Aging}

\* Mutant: the lowest aged class, not the oldest aged head, is served.
PickLowest(q) ==
  IF AgedLower(q) # {} /\ passedOver >= BypassEvery
  THEN CHOOSE i \in AgedLower(q) : \A j \in AgedLower(q) : q[i].class >= q[j].class
  ELSE Strict(q)

\* The strict pick, unless enough of them passed over an aged lower head: then
\* the oldest such head.
Pick(q) ==
  IF AgedLower(q) # {} /\ passedOver >= BypassEvery
  THEN Min(AgedLower(q)) ELSE Strict(q)

\* Mutant: the counter is not reset by a bypass.
NeverReset(q) ==
  IF AgedLower(q) # {} /\ passedOver < BypassEvery THEN passedOver + 1 ELSE passedOver

\* passedOver after a dispatch.
PassedOver(q) ==
  IF AgedLower(q) = {} THEN passedOver
  ELSE IF passedOver >= BypassEvery THEN 0 ELSE passedOver + 1

\* History: the entry at j sees the one at i dispatched.
Sees(q, j, i) ==
  [q[j] EXCEPT !.waited = IF q[j].age = Aging THEN @ + 1 ELSE @,
               !.outrun = IF q[j].age = Aging /\ q[j].class = q[Strict(q)].class /\ i > j
                          THEN @ + 1 ELSE @,
               !.bypassed = IF j \in Heads(q) /\ q[i].class > q[j].class THEN @ + 1 ELSE @]

\* Mutant: expired requests give no bytes back.
BytesStay(q) == bytes

Size(q) ==
  LET Upto[i \in 0..Len(q)] == IF i = 0 THEN 0 ELSE Upto[i - 1] + q[i].size
  IN Upto[Len(q)]

\* unlink() subtracts the size of every entry it drops.
BytesOf(q) == bytes - (Size(queue) - Size(q))

\* expireDue(): every request whose deadline or age limit has passed.
Alive(q) == Filter(q, {entry \in ToSet(q) : entry.left > 0})

Expire ==
  /\ Alive(queue) # queue
  /\ queue' = Alive(queue)
  /\ bytes' = BytesOf(Alive(queue))
  /\ UNCHANGED passedOver

\* The callers' pump: expireDue() and shift() in one synchronous step.
Dispatch ==
  LET q == Alive(queue)
      i == Pick(q)
      rest == RemoveAt([j \in DOMAIN q |-> Sees(q, j, i)], i)
  IN /\ q # <<>>
     /\ queue' = rest
     /\ bytes' = BytesOf(rest)
     /\ passedOver' = PassedOver(q)

-----------------------------------------------------------------------------
\* remove() of a queued request (abort), drainAll() at shutdown.
RemoveEntry(i) ==
  /\ queue' = RemoveAt(queue, i)
  /\ bytes' = BytesOf(RemoveAt(queue, i))
  /\ UNCHANGED passedOver

DrainAll ==
  /\ queue # <<>>
  /\ queue' = <<>>
  /\ bytes' = BytesOf(<<>>)
  /\ UNCHANGED passedOver

\* "A lower request that has n aged lower requests ahead of it": only the highest
\* class is never lower. With one slot each, and K strict ones around every slot.
Ahead(q, i) == Cardinality({j \in 1..(i - 1) : q[j].class > 1})
Limit(i) == (Ahead(queue, i) + 1) * (BypassEvery + 1)

\* Time passes for every queued request.
Tick ==
  /\ queue # <<>>
  /\ queue' = [i \in DOMAIN queue |->
       LET older == IF queue[i].age < Aging THEN queue[i].age + 1 ELSE Aging
       IN [queue[i] EXCEPT
             !.age = older,
             !.left = IF @ > 0 THEN @ - 1 ELSE 0,
             !.limit = IF older = Aging /\ queue[i].age < Aging THEN Limit(i) ELSE @]]
  /\ UNCHANGED <<bytes, passedOver>>

Next ==
  \/ \E class \in 1..Classes, size \in Sizes, ttl \in 1..MaxAge : Push(class, size, ttl)
  \/ Expire \/ Dispatch \/ DrainAll \/ Tick
  \/ \E i \in DOMAIN queue : RemoveEntry(i)

Spec == Init /\ [][Next]_vars

-----------------------------------------------------------------------------
\* The type invariant, the bounds hold, and the byte count is exactly what is queued, through every
\* way a request can leave: an error here refuses all requests for good.
Accounted ==
  /\ TypeOK
  /\ bytes = Size(queue)
  /\ bytes <= MaxBytes /\ Len(queue) <= MaxDepth

\* "waits at most agingMs + (n + 1) * (K + 1) * S": once aged, a request of a
\* lower class is served within that many dispatches, however many requests of
\* higher classes keep coming in between, if no bypass goes to a younger request
\* of a still lower class at a moment when nothing higher waits. The code allows
\* that, against the comment; each such bypass costs K + 1 dispatches more.
AgedServedInBound ==
  \A i \in DOMAIN queue :
    queue[i].class > 1 /\ queue[i].age = Aging =>
      queue[i].waited < queue[i].limit + queue[i].outrun * (BypassEvery + 1)

\* "Nothing a lower class does can delay" the stop class "by more than one
\* bypass" while a stop request is at the head.
StopDelayedOnce ==
  \A i \in DOMAIN queue : queue[i].class = 1 => queue[i].bypassed <= 1
=============================================================================
