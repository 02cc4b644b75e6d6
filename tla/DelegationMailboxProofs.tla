----------------------- MODULE DelegationMailboxProofs -----------------------
(* Proofs about DelegationMailbox: what a report's turns, its row and the chat   *)
(* that is woken for it come to, for any number of reports and of deliveries at  *)
(* a time, whatever rare events come together, and wherever boot stands.         *)
EXTENDS DelegationMailbox, FilteringProofs

(* The invariant speaks of rows, registry entries, calls and lines as           *)
(* parameters, so that the same words serve before and after a step.            *)

Holding == {"publish", "asked", "start", "launched"}
Starting == {"asked", "start", "launched"}
InLine == Holding \cup {"wait"}

Rows == [status : Status, to : Chat, how : {"", "started_run", "skipped"},
         request : Nat, lease : Nat, run : Nat, failed : BOOLEAN,
         passed : {"no", "sent", "held"}]
Entries == [request : Nat, run : Nat, state : {"none", "pending", "accepted", "refused"}]
Starts == [recorded : Nat, unrecorded : Nat]
Deliveries == [at : {"idle", "next"} \cup InLine, m : Msg \cup {None}, chat : Chat \cup {None},
               retry : BOOLEAN, todo : Seq(Msg), request : Nat, lease : Nat,
               blind : BOOLEAN, run : Nat]

\* A start whose intent the registry was asked to record.
Begun(d) == d.at \in {"start", "launched"} /\ ~d.blind

\* Why a row may be with the former controller, or a delivery of it under way there.
Failed(r, fa) == r.failed /\ (r.request = 0 => fa[Old] = "gone")
Left(r, fa) == r.passed = "sent" \/ Failed(r, fa)

\* One request goes with a row: the one the registry holds.
OneRequest(r, g, n) ==
  /\ n.recorded \in {0, 1}
  /\ g.request # 0 => g.request = r.request
  /\ g.request = 0 => g.state = "none"
  /\ n.recorded = 1 => g.request # 0 /\ g.state \in {"pending", "accepted"}
  /\ g.state = "accepted" => n.recorded = 1

\* A message: its row r, the registry's entry g, the turns started n. A row left with
\* the former controller has failed, and is without a request only if that chat is
\* gone, or boot has passed a delivery of it by. One that boot has moved from under a
\* delivery may go by two requests.
RowOK(m, r, g, n, fa, ctl, j, sn) ==
  /\ r \in Rows /\ g \in Entries /\ n \in Starts
  /\ r.status = "absent" => r.request = 0 /\ g.request = 0 /\ ~r.failed /\ r.passed = "no"
  /\ r.status \in {"dispatching", "uncertain"} => r.request # 0
  /\ r.to = New => ctl = New
  /\ r.status = "failed" => r.failed
  /\ g.state = "accepted" => g.run \in 1..Turns(n)
  /\ r.passed # "no" => ctl = New
  /\ r.passed = "sent" => r.request # 0
  /\ r.passed = "held" => r.to = New
  /\ r.passed # "held" => OneRequest(r, g, n)
  /\ r.status = "failed" /\ r.to = Old => Failed(r, fa)
  /\ r.status = "queued" /\ r.to = Old /\ ctl = New /\ j # "rows" => Left(r, fa)
  /\ r.status = "delivered" =>
       \/ r.how = "started_run" /\ r.run \in 1..Turns(n)
       \/ r.how = "skipped" /\ (m \in sn \/ fa[r.to] = "closed"
                                  \/ (fa[Old] = "closed" /\ (r.failed \/ r.passed # "no")))

\* The request of a delivery d is its row's, unless its recipient is gone, and the
\* registry holds the intent of a start that was recorded.
OwnRequest(d, r, g, n, fa) ==
  /\ d.at = "publish" /\ r.request # 0 => d.request = r.request \/ fa[d.chat] = "gone"
  /\ d.at \in Starting => d.request = r.request
  /\ d.at = "start" /\ ~d.blind => g.state = "pending" /\ n.recorded = 0
  /\ d.at = "launched" /\ ~d.blind => g.state = "pending" /\ n.recorded = 1

\* A delivery d among rows ro, registry rg and turns la. One that holds its chat's
\* lock carries the row's request, or has a recipient that is gone.
CallOK(d, ro, rg, la, fa, ctl) ==
  /\ d \in Deliveries
  /\ d.at = "next" => d.todo # <<>>
  /\ d.at \in InLine => d.m \in Msg /\ d.chat \in Chat /\ (d.chat = New => ctl = New)
  /\ d.at \in Holding =>
       /\ ro[d.m].status # "absent"
       /\ ro[d.m].to = Old => d.chat = Old
       /\ d.request # 0
       /\ ro[d.m].passed # "held" => OwnRequest(d, ro[d.m], rg[d.m], la[d.m], fa)
  /\ d.at = "launched" => d.run \in 1..Turns(la[d.m])
  /\ d.at = "publish" /\ d.chat = Old =>
       \/ ctl = Old /\ ro[d.m].status = "queued"
       \/ ro[d.m].passed # "no" \/ Failed(ro[d.m], fa)
  /\ d.at \in {"asked", "start"} /\ d.chat = Old /\ ctl = New =>
       ro[d.m].passed # "no" \/ Failed(ro[d.m], fa)

\* The lines of the chats: each call stands in the line of its own chat, once, and
\* holds it from the front; a takeover that has come to the second line holds the
\* first.
Lines(ca, lk, tk) ==
  /\ lk \in [Chat -> Seq(Call \cup {Taker})]
  /\ \A c \in Chat : Once(lk[c])
  /\ \A k \in Call, c \in Chat : k \in ToSet(lk[c]) <=> ca[k].at \in InLine /\ ca[k].chat = c
  /\ \A k \in Call : ca[k].at \in InLine => ca[k].chat \in Chat
  /\ \A k \in Call : ca[k].at \in Holding => Head(lk[ca[k].chat]) = k
  /\ Taker \in ToSet(lk[Old]) <=> tk # "no"
  /\ Taker \in ToSet(lk[New]) <=> tk \in {"second", "holds"}
  /\ tk \in {"second", "holds"} => Head(lk[Old]) = Taker
  /\ tk = "holds" => Head(lk[New]) = Taker

\* A dispatching row is leased to a delivery under way, or boot has not come to it yet.
Leased(ro, ca, b) ==
  b \in {"reconciled", "up"} =>
    \A m \in Msg : ro[m].status = "dispatching" =>
      \E k \in Call : ca[k].at \in Starting /\ ca[k].m = m /\ ca[k].lease = ro[m].lease

\* One delivery at a time is past the record of its intent to start.
Alone(ca, ro) ==
  \A k, o \in Call :
    Begun(ca[k]) /\ Begun(ca[o]) /\ ca[k].m = ca[o].m /\ ro[ca[k].m].passed # "held" => k = o

\* Where a takeover was cut off, no delivery waits for the former controller with a row
\* that boot is to move.
Early(ca, ro, fa, j, tk) ==
  j = "rows" /\ tk = "no" =>
    \A k \in Call :
      ca[k].at = "wait" /\ ca[k].chat = Old =>
        (ro[ca[k].m].status = "queued" /\ ro[ca[k].m].to = Old => Left(ro[ca[k].m], fa))

Open == {"started", "rows", "mail"}

\* The takeover's journal says who controls the job; an open one is this process's, or
\* boot is still to carry it through.
Journal ==
  /\ taking \in {"no", "first", "second", "holds"}
  /\ journal \in Open \cup {"none", "done"}
  /\ boot \in {"listening", "redirected", "reconciled", "up"}
  /\ controller = IF journal \in {"rows", "mail", "done"} THEN New ELSE Old
  /\ taking \in {"first", "second"} => journal = "none"
  /\ taking = "holds" => journal \in Open
  /\ journal \in Open => taking = "holds" \/ boot = "listening"
  /\ fate \in [Chat -> {"open", "closed", "gone"}] /\ seen \subseteq Msg

MailInv ==
  /\ Journal
  /\ row \in [Msg -> Rows] /\ registry \in [Msg -> Entries]
  /\ launched \in [Msg -> Starts] /\ call \in [Call -> Deliveries]
  /\ \A m \in Msg : RowOK(m, row[m], registry[m], launched[m], fate, controller, journal, seen)
  /\ \A k \in Call : CallOK(call[k], row, registry, launched, fate, controller)
  /\ Lines(call, lock, taking)
  /\ Leased(row, call, boot) /\ Alone(call, row)
  /\ Early(call, row, fate, journal, taking)


-----------------------------------------------------------------------------
(* Lines *)

LEMMA TailFacts ==
  ASSUME NEW A, NEW s \in Seq(A), Once(s), NEW a \in ToSet(s)
  PROVE  /\ s # <<>> /\ Head(s) \in ToSet(s)
         /\ Tail(s) \in Seq(A) /\ Once(Tail(s)) /\ ToSet(Tail(s)) = ToSet(s) \ {Head(s)}
<1> DEFINE t == Tail(s)
<1>1. DOMAIN s = 1..Len(s) /\ Len(s) \in Nat
  OBVIOUS
<1>2. ToSet(s) = {s[i] : i \in 1..Len(s)}
  BY <1>1 DEF ToSet
<1>3. Len(s) > 0 /\ s # <<>>
  BY <1>1, <1>2
<1>4. /\ Head(s) = s[1] /\ t \in Seq(A) /\ Len(t) = Len(s) - 1 /\ DOMAIN t = 1..Len(t)
      /\ \A i \in 1..Len(t) : t[i] = s[i + 1]
  BY <1>3
<1> HIDE DEF t
<1>5. ToSet(t) = {t[i] : i \in 1..Len(t)}
  BY <1>4 DEF ToSet
<1>6. \A i \in 1..Len(t) : i + 1 \in 1..Len(s) /\ i + 1 # 1
  BY <1>1, <1>4
<1>7. \A i \in 1..Len(s) : i # 1 => i - 1 \in 1..Len(t) /\ t[i - 1] = s[i]
  BY <1>1, <1>4
<1>8. 1 \in 1..Len(s)
  BY <1>1, <1>3
<1>9. Once(t)
  <2>1. SUFFICES ASSUME NEW i \in 1..Len(t), NEW j \in 1..Len(t), t[i] = t[j] PROVE i = j
    BY DEF Once
  <2>2. i + 1 = j + 1
    BY <2>1, <1>4, <1>6 DEF Once
  <2> QED BY <2>2
<1>10. ToSet(t) = ToSet(s) \ {Head(s)}
  <2>1. ASSUME NEW x \in ToSet(t) PROVE x \in ToSet(s) /\ x # Head(s)
    <3>1. PICK i \in 1..Len(t) : x = t[i]
      BY <1>5
    <3>2. x = s[i + 1] /\ i + 1 \in 1..Len(s) /\ i + 1 # 1
      BY <3>1, <1>4, <1>6
    <3> QED BY <3>2, <1>2, <1>4, <1>8 DEF Once
  <2>2. ASSUME NEW x \in ToSet(s), x # Head(s) PROVE x \in ToSet(t)
    <3>1. PICK i \in 1..Len(s) : x = s[i]
      BY <1>2
    <3>2. i # 1
      BY <3>1, <2>2, <1>4
    <3> QED BY <3>1, <3>2, <1>5, <1>7
  <2> QED BY <2>1, <2>2
<1> QED BY <1>2, <1>3, <1>4, <1>8, <1>9, <1>10 DEF t

LEMMA AppendHead ==
  ASSUME NEW A, NEW s \in Seq(A), NEW a \in A
  PROVE  Head(Append(s, a)) = IF s = <<>> THEN a ELSE Head(s)
  OBVIOUS

LEMMA FilterHead ==
  ASSUME NEW A, NEW s \in Seq(A), NEW S, Once(s), s # <<>>, Head(s) \in S
  PROVE  Head(Filter(s, S)) = Head(s)
<1> DEFINE g == Filter(s, S)
<1>1. PICK e \in [1..Len(g) -> 1..Len(s)] :
        /\ \A k \in 1..Len(g) : g[k] = s[e[k]]
        /\ \A k, l \in 1..Len(g) : k < l => e[k] < e[l]
  BY FilterFacts, Zenon
<1>2. g \in Seq(A) /\ ToSet(g) = ToSet(s) \cap S
  BY FilterFacts
<1>3. Head(s) = s[1] /\ 1 \in 1..Len(s)
  OBVIOUS
<1> HIDE DEF g
<1>4. Head(s) \in ToSet(g)
  BY <1>2, <1>3 DEF ToSet
<1>5. PICK k \in 1..Len(g) : g[k] = s[1]
  BY <1>2, <1>3, <1>4 DEF ToSet
<1>6. e[k] = 1
  BY <1>1, <1>3, <1>5 DEF Once
<1>7. 1 \in 1..Len(g) /\ e[1] \in 1..Len(s) /\ Len(g) \in Nat
  BY <1>1, <1>2, <1>5
<1>8. k = 1
  <2>1. SUFFICES ASSUME k # 1 PROVE FALSE
    OBVIOUS
  <2>2. 1 < k
    BY <2>1, <1>7
  <2>3. e[1] < e[k]
    BY <2>2, <1>1, <1>7
  <2> QED BY <2>3, <1>6, <1>7
<1> QED BY <1>2, <1>3, <1>5, <1>7, <1>8 DEF g


\* No call has the takeover's place, and the two chats are two.
LEMMA Places ==
  /\ Call \subseteq Call \cup {Taker} /\ Taker \notin Call
  /\ Old # New /\ Old \in Chat /\ New \in Chat /\ Chat = {Old, New}
  /\ \A k \in Call : k \in Nat /\ k # 0
BY MailboxConstants DEF Call, Taker, Chat

\* A call that joins a line.
LEMMA EnterLines ==
  ASSUME Lines(call, lock, taking), call \in [Call -> Deliveries],
         NEW k \in Call, call[k].at \notin InLine, NEW c \in Chat,
         NEW d, d.at = "wait", d.chat = c,
         call' = [call EXCEPT ![k] = d], lock' = [lock EXCEPT ![c] = Append(@, k)],
         taking' = taking
  PROVE  Lines(call', lock', taking')
<1> DEFINE P == Call \cup {Taker}
<1>1. /\ lock[c] \in Seq(P) /\ Once(lock[c]) /\ k \in P /\ k \notin ToSet(lock[c])
      /\ \A x \in Chat : Once(lock[x])
  BY Places DEF Lines
<1>2. /\ lock'[c] = Append(lock[c], k) /\ \A x \in Chat : x # c => lock'[x] = lock[x]
      /\ DOMAIN lock' = Chat /\ call'[k] = d /\ \A o \in Call : o # k => call'[o] = call[o]
  BY DEF Lines
<1>3. /\ lock'[c] \in Seq(P) /\ Once(lock'[c])
      /\ ToSet(lock'[c]) = ToSet(lock[c]) \cup {k}
      /\ Head(lock'[c]) = IF lock[c] = <<>> THEN k ELSE Head(lock[c])
  <2> DEFINE s == lock[c]
             A == P
  <2> s \in Seq(A) /\ k \in A /\ Once(s) /\ k \notin ToSet(s)
    BY <1>1
  <2> HIDE DEF s, A
  <2>1. /\ Append(s, k) \in Seq(A) /\ Once(Append(s, k))
        /\ ToSet(Append(s, k)) = ToSet(s) \cup {k}
    BY AppendFacts
  <2>2. Head(Append(s, k)) = IF s = <<>> THEN k ELSE Head(s)
    BY AppendHead
  <2> QED BY <2>1, <2>2, <1>2 DEF s, A
<1>4. lock' \in [Chat -> Seq(P)]
  BY <1>1, <1>2, <1>3 DEF Lines
<1>5. \A x \in Chat : Once(lock'[x])
  BY <1>1, <1>2, <1>3
<1>6. \A x \in P, y \in Chat : x \in ToSet(lock[y]) => lock[y] # <<>>
  BY DEF ToSet
<1>10. \A o \in Call : call'[o].at \in InLine => call'[o].chat \in Chat
  BY <1>2 DEF Lines
<1>7. \A o \in Call, x \in Chat :
        o \in ToSet(lock'[x]) <=> call'[o].at \in InLine /\ call'[o].chat = x
  BY <1>2, <1>3 DEF Lines, InLine
<1>8. \A o \in Call : call'[o].at \in Holding => Head(lock'[call'[o].chat]) = o
  <2>1. SUFFICES ASSUME NEW o \in Call, call'[o].at \in Holding
                 PROVE  Head(lock'[call'[o].chat]) = o
    OBVIOUS
  <2>2. o # k /\ call[o].at \in Holding /\ call'[o] = call[o]
    BY <2>1, <1>2 DEF Holding
  <2>3. o \in ToSet(lock[call[o].chat]) /\ Head(lock[call[o].chat]) = o /\ call[o].chat \in Chat
    BY <2>2 DEF Lines, InLine, Holding
  <2> QED BY <2>2, <2>3, <1>2, <1>3, <1>6
<1>9. /\ Taker # k
      /\ \A x \in Chat : Taker \in ToSet(lock'[x]) <=> Taker \in ToSet(lock[x])
      /\ \A x \in Chat : Head(lock[x]) = Taker /\ Taker \in ToSet(lock[x]) => Head(lock'[x]) = Taker
  BY <1>2, <1>3, <1>6, Places
<1> QED BY <1>4, <1>5, <1>7, <1>8, <1>9, <1>10, Places DEF Lines

\* The call that holds a chat leaves its line.
LEMMA LeaveLines ==
  ASSUME Lines(call, lock, taking), call \in [Call -> Deliveries],
         NEW k \in Call, call[k].at \in InLine, call[k].chat \in Chat,
         Head(lock[call[k].chat]) = k,
         NEW d, d.at \notin InLine,
         call' = [call EXCEPT ![k] = d], lock' = [lock EXCEPT ![call[k].chat] = Tail(@)],
         taking' = taking
  PROVE  Lines(call', lock', taking')
<1> DEFINE P == Call \cup {Taker}
           c == call[k].chat
<1>1. /\ lock[c] \in Seq(P) /\ Once(lock[c]) /\ k \in ToSet(lock[c])
      /\ \A x \in Chat : Once(lock[x])
  BY Places DEF Lines
<1>2. /\ lock'[c] = Tail(lock[c]) /\ \A x \in Chat : x # c => lock'[x] = lock[x]
      /\ DOMAIN lock' = Chat /\ call'[k] = d /\ \A o \in Call : o # k => call'[o] = call[o]
  BY DEF Lines
<1>3. /\ lock'[c] \in Seq(P) /\ Once(lock'[c])
      /\ ToSet(lock'[c]) = ToSet(lock[c]) \ {k}
  BY <1>1, <1>2, TailFacts, Zenon
<1>4. lock' \in [Chat -> Seq(P)]
  BY <1>1, <1>2, <1>3 DEF Lines
<1>5. \A x \in Chat : Once(lock'[x])
  BY <1>1, <1>2, <1>3
<1>9. \A o \in Call : call'[o].at \in InLine => call'[o].chat \in Chat
  BY <1>2 DEF Lines
<1>6. \A o \in Call, x \in Chat :
        o \in ToSet(lock'[x]) <=> call'[o].at \in InLine /\ call'[o].chat = x
  BY <1>2, <1>3 DEF Lines, InLine
<1>7. \A o \in Call : call'[o].at \in Holding => Head(lock'[call'[o].chat]) = o
  <2>1. SUFFICES ASSUME NEW o \in Call, call'[o].at \in Holding
                 PROVE  Head(lock'[call'[o].chat]) = o
    OBVIOUS
  <2>2. o # k /\ call[o].at \in Holding /\ call'[o] = call[o]
    BY <2>1, <1>2 DEF Holding, InLine
  <2>3. Head(lock[call[o].chat]) = o
    BY <2>2 DEF Lines
  <2>4. call[o].chat # c /\ o \in ToSet(lock[call[o].chat]) => lock'[call[o].chat] = lock[call[o].chat]
    BY <2>3, <2>2, <1>2 DEF Lines
  <2>5. call[o].chat \in Chat
    BY <2>2 DEF Lines, InLine, Holding
  <2> QED BY <2>2, <2>3, <2>4, <2>5, <1>2
<1>8. /\ Taker # k
      /\ \A x \in Chat : Taker \in ToSet(lock'[x]) <=> Taker \in ToSet(lock[x])
      /\ \A x \in Chat : Head(lock[x]) = Taker => lock'[x] = lock[x]
  BY <1>2, <1>3, Places
<1> QED BY <1>4, <1>5, <1>6, <1>7, <1>8, <1>9, Places DEF Lines


\* A call goes on under the lock of its chat.
LEMMA StayLines ==
  ASSUME Lines(call, lock, taking), call \in [Call -> Deliveries],
         NEW k \in Call, call[k].at \in InLine, Head(lock[call[k].chat]) = k,
         NEW d, d.at \in Holding, d.chat = call[k].chat,
         call' = [call EXCEPT ![k] = d], lock' = lock, taking' = taking
  PROVE  Lines(call', lock', taking')
<1>1. call'[k] = d /\ \A o \in Call : o # k => call'[o] = call[o]
  OBVIOUS
<1>2. /\ \A o \in Call, x \in Chat :
           o \in ToSet(lock[x]) <=> call'[o].at \in InLine /\ call'[o].chat = x
      /\ \A o \in Call : call'[o].at \in InLine => call'[o].chat \in Chat
      /\ \A o \in Call : call'[o].at \in Holding => Head(lock[call'[o].chat]) = o
  BY <1>1 DEF Lines, InLine
<1> QED BY <1>2 DEF Lines

\* Nobody holds a chat's lock while the takeover does.
LEMMA NobodyHolds ==
  ASSUME Lines(call, lock, taking), taking = "holds"
  PROVE  \A k \in Call : call[k].at \notin Holding
<1> SUFFICES ASSUME NEW k \in Call, call[k].at \in Holding PROVE FALSE
  OBVIOUS
<1>1. call[k].chat \in Chat /\ Head(lock[call[k].chat]) = k
  BY DEF Lines, InLine
<1>2. Head(lock[call[k].chat]) = Taker
  BY <1>1, Places DEF Lines
<1> QED BY <1>1, <1>2, Places

\* A function with another value at x. The lemmas name it, so that the provers match
\* a step with them.
Put(f, x, v) == [f EXCEPT ![x] = v]

\* What a step may make of a row that was o and is r: a failure, and a pass, are for
\* good, and it does not go back to the former controller.
Onward(o, r, fa, ctl) ==
  /\ r.to = Old => o.to = Old
  /\ o.failed => r.failed
  /\ r.passed = o.passed
  /\ o.status # "absent" => r.status # "absent"
  /\ r.status = "queued" /\ r.to = Old /\ ctl = New =>
       (o.status = "queued" /\ o.to = Old) \/ Left(r, fa)

LEMMA OnwardLeft ==
  ASSUME NEW o, NEW r, NEW fa, NEW ctl, Onward(o, r, fa, ctl), o.request # 0 => r.request # 0
  PROVE  /\ Failed(o, fa) => Failed(r, fa)
         /\ Left(o, fa) => Left(r, fa)
BY DEF Onward, Failed, Left

\* A step of one call that touches the row and the registry's entry of one message:
\* what has to be shown of it.
LEMMA OneStep ==
  ASSUME MailInv, NEW k \in Call, NEW m \in Msg, NEW r, NEW g, NEW n, NEW d,
         row' = Put(row, m, r), registry' = Put(registry, m, g),
         launched' = Put(launched, m, n), call' = Put(call, k, d),
         UNCHANGED <<controller, journal, seen, fate, taking, boot>>,
         RowOK(m, r, g, n, fate, controller, journal, seen),
         Onward(row[m], r, fate, controller), row[m].request # 0 => r.request # 0,
         d.at = "wait" => d.m = m /\ (r.status = "queued" => r.to = controller),
         CallOK(d, row', registry', launched', fate, controller),
         \A o \in Call : o # k /\ call[o].at \in Holding /\ call[o].m = m =>
           CallOK(call[o], row', registry', launched', fate, controller),
         Lines(call', lock', taking'), Leased(row', call', boot), Alone(call', row')
  PROVE  MailInv'
<1>1. r \in Rows /\ g \in Entries /\ n \in Starts /\ d \in Deliveries
  BY DEF RowOK, CallOK
<1>2. /\ row' \in [Msg -> Rows] /\ registry' \in [Msg -> Entries]
      /\ launched' \in [Msg -> Starts] /\ call' \in [Call -> Deliveries]
  BY <1>1 DEF MailInv, Put
<1>3. /\ row'[m] = r /\ registry'[m] = g /\ launched'[m] = n
      /\ \A x \in Msg : x # m => /\ row'[x] = row[x] /\ registry'[x] = registry[x]
                                 /\ launched'[x] = launched[x]
      /\ call'[k] = d /\ \A o \in Call : o # k => call'[o] = call[o]
  BY DEF MailInv, Put
<1>4. ASSUME NEW x \in Msg
      PROVE  RowOK(x, row'[x], registry'[x], launched'[x], fate', controller', journal', seen')
  <2>1. CASE x = m
    BY <2>1, <1>3
  <2>2. CASE x # m
    <3>1. RowOK(x, row[x], registry[x], launched[x], fate, controller, journal, seen)
      BY DEF MailInv
    <3> QED BY <3>1, <2>2, <1>3
  <2> QED BY <2>1, <2>2
<1>5. ASSUME NEW o \in Call
      PROVE  CallOK(call'[o], row', registry', launched', fate', controller')
  <2>1. CASE o = k
    BY <2>1, <1>3
  <2>2. CASE o # k /\ call[o].at \in Holding /\ call[o].m = m
    <3>1. CallOK(call[o], row', registry', launched', fate, controller)
      BY <2>2
    <3> QED BY <3>1, <2>2, <1>3
  <2>3. CASE o # k /\ call[o].at \in Holding /\ call[o].m # m
    <3>1. CallOK(call[o], row, registry, launched, fate, controller)
      BY DEF MailInv
    <3>2. call[o].m \in Msg
      BY <3>1, <2>3 DEF CallOK, InLine
    <3>3. /\ row'[call[o].m] = row[call[o].m] /\ registry'[call[o].m] = registry[call[o].m]
          /\ launched'[call[o].m] = launched[call[o].m] /\ call'[o] = call[o]
      BY <3>2, <2>3, <1>3
    <3> QED BY <3>1, <3>3 DEF CallOK
  <2>4. CASE o # k /\ call[o].at \notin Holding
    <3>1. CallOK(call[o], row, registry, launched, fate, controller)
      BY DEF MailInv
    <3>2. call'[o] = call[o]
      BY <2>4, <1>3
    <3>3. call[o].at \notin {"publish", "asked", "start", "launched"}
      BY <2>4 DEF Holding
    <3> QED BY <3>1, <3>2, <3>3, <2>4 DEF CallOK
  <2> QED BY <2>1, <2>2, <2>3, <2>4
<1>6. Journal'
  BY DEF MailInv, Journal
<1>7. Early(call', row', fate', journal', taking')
  <2>1. SUFFICES ASSUME journal = "rows", taking = "no", NEW o \in Call,
                        call'[o].at = "wait", call'[o].chat = Old,
                        row'[call'[o].m].status = "queued", row'[call'[o].m].to = Old
                 PROVE  Left(row'[call'[o].m], fate)
    BY DEF Early
  <2>2. controller = New
    BY <2>1 DEF MailInv, Journal
  <2>3. o # k
    BY <2>1, <2>2, <1>3, Places
  <2>4. call'[o] = call[o] /\ call[o].at = "wait" /\ call[o].chat = Old
    BY <2>1, <2>3, <1>3
  <2>5. row[call[o].m].status = "queued" /\ row[call[o].m].to = Old => Left(row[call[o].m], fate)
    BY <2>1, <2>4 DEF MailInv, Early
  <2>6. call[o].m \in Msg
    BY <2>4 DEF MailInv, CallOK, InLine
  <2>7. CASE call[o].m = m
    <3>1. r.status = "queued" /\ r.to = Old
      BY <2>1, <2>4, <2>7, <1>3
    <3>2. (row[m].status = "queued" /\ row[m].to = Old) \/ Left(r, fate)
      BY <3>1, <2>2 DEF Onward
    <3>3. Left(row[m], fate) => Left(r, fate)
      BY OnwardLeft
    <3> QED BY <3>2, <3>3, <2>4, <2>5, <2>7, <1>3
  <2>8. CASE call[o].m # m
    BY <2>1, <2>4, <2>5, <2>6, <2>8, <1>3
  <2> QED BY <2>7, <2>8
<1>8. Leased(row', call', boot')
  OBVIOUS
<1> QED BY <1>2, <1>4, <1>5, <1>6, <1>7, <1>8 DEF MailInv

\* Two deliveries that hold a chat each: the job has been taken over.
LEMMA TwoHold ==
  ASSUME MailInv, NEW k \in Call, NEW o \in Call, o # k,
         call[k].at \in InLine, Head(lock[call[k].chat]) = k, call[o].at \in Holding
  PROVE  call[o].chat # call[k].chat /\ controller = New
<1>1. /\ CallOK(call[k], row, registry, launched, fate, controller)
      /\ CallOK(call[o], row, registry, launched, fate, controller)
      /\ Lines(call, lock, taking)
  BY DEF MailInv
<1>2. call[o].at \in InLine
  BY DEF InLine
<1>3. /\ call[k].chat \in Chat /\ call[o].chat \in Chat
      /\ call[k].chat = New => controller = New
      /\ call[o].chat = New => controller = New
  BY <1>1, <1>2 DEF CallOK
<1>4. call[o].chat # call[k].chat
  BY <1>1 DEF Lines
<1> QED BY <1>3, <1>4, Places

\* The request a delivery writes to the row, after the await of the history card, is
\* the one a delivery in the other chat goes by, unless that chat is gone.
LEMMA SameRequest ==
  ASSUME MailInv, NEW k \in Call, NEW o \in Call, NEW m \in Msg, o # k,
         call[k].at = "publish", call[k].m = m, fate[call[k].chat] = "open",
         call[o].at \in Holding, call[o].m = m, row[m].passed # "held"
  PROVE  IF row[m].request = 0 THEN call[o].at = "publish" /\ fate[call[o].chat] = "gone"
         ELSE call[k].request = row[m].request
<1>1. /\ CallOK(call[k], row, registry, launched, fate, controller)
      /\ CallOK(call[o], row, registry, launched, fate, controller)
      /\ RowOK(m, row[m], registry[m], launched[m], fate, controller, journal, seen)
      /\ Lines(call, lock, taking)
  BY DEF MailInv
<1>2. call[k].at \in Holding /\ call[k].at \in InLine /\ call[o].at \in InLine
  BY DEF Holding, InLine
<1>3. /\ OwnRequest(call[k], row[m], registry[m], launched[m], fate)
      /\ OwnRequest(call[o], row[m], registry[m], launched[m], fate)
      /\ call[o].request # 0 /\ call[k].chat \in Chat /\ call[o].chat \in Chat
  BY <1>1, <1>2 DEF CallOK
<1>4. call[o].chat # call[k].chat /\ controller = New
  <2>1. Head(lock[call[k].chat]) = k
    BY <1>1, <1>2 DEF Lines
  <2> QED BY <2>1, <1>2, TwoHold
<1>5. CASE row[m].request # 0
  <2>1. call[k].request = row[m].request \/ fate[call[k].chat] = "gone"
    BY <1>3, <1>5 DEF OwnRequest
  <2> QED BY <2>1, <1>5
<1>6. CASE row[m].request = 0
  <2>1. call[o].at \notin Starting
    BY <1>3, <1>6 DEF OwnRequest
  <2>2. call[o].at = "publish"
    BY <2>1 DEF Starting, Holding
  <2>3. row[m].passed = "no"
    BY <1>1, <1>6 DEF RowOK, Rows
  <2>4. \A d \in {k, o} : call[d].chat = Old => fate[Old] = "gone"
    BY <1>1, <1>4, <1>6, <2>2, <2>3, Places DEF CallOK, Failed
  <2>5. call[k].chat # Old
    BY <2>4
  <2>6. call[o].chat = Old
    BY <2>5, <1>3, <1>4, Places
  <2> QED BY <2>2, <2>4, <2>6, <1>6
<1> QED BY <1>5, <1>6

\* What a step of one call may do to the row under the other deliveries of it.
LEMMA OthersKept ==
  ASSUME MailInv, NEW k \in Call, NEW o \in Call, NEW m \in Msg, o # k,
         call[o].at \in Holding, call[o].m = m,
         NEW r, NEW g, NEW n, Onward(row[m], r, fate, controller),
         \/ controller = New
         \/ row[m].status = "queued" => r.status = "queued",
         \/ r.request = row[m].request
         \/ /\ call[k].at = "publish" /\ call[k].m = m /\ fate[call[k].chat] = "open"
            /\ r.request = call[k].request,
         \A i \in 1..Turns(launched[m]) : i \in 1..Turns(n),
         row[m].passed # "held" /\ Begun(call[o]) =>
           g = registry[m] /\ n.recorded = launched[m].recorded,
         row' = Put(row, m, r), registry' = Put(registry, m, g),
         launched' = Put(launched, m, n)
  PROVE  CallOK(call[o], row', registry', launched', fate, controller)
<1>1. row'[m] = r /\ registry'[m] = g /\ launched'[m] = n
  BY DEF MailInv, Put
<1>2. CallOK(call[o], row, registry, launched, fate, controller)
  BY DEF MailInv
<1>3. call[o].at \in InLine
  BY DEF InLine
<1>4. call[k].at = "publish" => call[k].request # 0
  <2>1. CallOK(call[k], row, registry, launched, fate, controller)
    BY DEF MailInv
  <2> QED BY <2>1 DEF CallOK, Holding
<1>5. row[m].request # 0 => r.request # 0
  BY <1>4
<1>6. Failed(row[m], fate) => Failed(r, fate)
  BY <1>5, OnwardLeft
<1>7. r.passed # "held" => OwnRequest(call[o], r, g, n, fate)
  <2>1. SUFFICES ASSUME row[m].passed # "held" PROVE OwnRequest(call[o], r, g, n, fate)
    BY DEF Onward
  <2>2. OwnRequest(call[o], row[m], registry[m], launched[m], fate)
    BY <2>1, <1>2 DEF CallOK
  <2>3. CASE r.request = row[m].request
    BY <2>1, <2>2, <2>3 DEF OwnRequest, Begun
  <2>4. CASE /\ call[k].at = "publish" /\ call[k].m = m /\ fate[call[k].chat] = "open"
             /\ r.request = call[k].request
    <3>1. IF row[m].request = 0 THEN call[o].at = "publish" /\ fate[call[o].chat] = "gone"
          ELSE call[k].request = row[m].request
      BY <2>1, <2>4, SameRequest
    <3>2. CASE row[m].request # 0
      BY <3>1, <3>2, <2>3, <2>4
    <3>3. CASE row[m].request = 0
      BY <3>1, <3>3 DEF OwnRequest, Starting
    <3> QED BY <3>2, <3>3
  <2> QED BY <2>3, <2>4
<1>8. /\ call[o] \in Deliveries /\ call[o].at # "next"
      /\ call[o].m \in Msg /\ call[o].chat \in Chat /\ (call[o].chat = New => controller = New)
      /\ row[m].status # "absent" /\ (row[m].to = Old => call[o].chat = Old)
      /\ call[o].request # 0
  BY <1>2, <1>3 DEF CallOK, Holding
<1>9. r.status # "absent" /\ (r.to = Old => call[o].chat = Old)
  BY <1>8 DEF Onward
<1>10. call[o].at = "launched" => call[o].run \in 1..Turns(n)
  BY <1>2 DEF CallOK
<1>11. call[o].at = "publish" /\ call[o].chat = Old =>
         \/ controller = Old /\ r.status = "queued"
         \/ r.passed # "no" \/ Failed(r, fate)
  BY <1>2, <1>6, Places DEF CallOK, Onward
<1>12. call[o].at \in {"asked", "start"} /\ call[o].chat = Old /\ controller = New =>
         r.passed # "no" \/ Failed(r, fate)
  BY <1>2, <1>6 DEF CallOK, Onward
<1> QED BY <1>1, <1>7, <1>8, <1>9, <1>10, <1>11, <1>12 DEF CallOK

\* A call that leaves its chat's line, with what it has made of the row.
LEMMA Leaves ==
  ASSUME MailInv, NEW k \in Call, NEW m \in Msg, NEW r, NEW g, NEW n,
         NEW todo \in Seq(Msg),
         call[k].at \in InLine, call[k].m = m, Head(lock[call[k].chat]) = k, Leave(k, todo),
         row' = Put(row, m, r), registry' = Put(registry, m, g),
         n = launched[m], launched' = Put(launched, m, n),
         UNCHANGED <<controller, journal, seen, fate, taking, boot>>,
         RowOK(m, r, g, n, fate, controller, journal, seen),
         Onward(row[m], r, fate, controller),
         \/ r.request = row[m].request
         \/ /\ call[k].at = "publish" /\ fate[call[k].chat] = "open"
            /\ r.request = call[k].request,
         g = registry[m] \/ Begun(call[k]),
         r.status = "dispatching" =>
           /\ r = row[m]
           /\ call[k].at \in Starting => call[k].lease # row[m].lease
  PROVE  MailInv'
<1>1. PICK d : d = IF todo = <<>> THEN NoCall
                   ELSE [NoCall EXCEPT !.at = "next", !.retry = call[k].retry, !.todo = todo]
  OBVIOUS
<1>15. call' = Put(call, k, d) /\ lock' = [lock EXCEPT ![call[k].chat] = Tail(@)]
  BY <1>1 DEF Leave, Put
<1>2. d \in Deliveries /\ d.at \in {"idle", "next"} /\ (d.at = "next" => d.todo # <<>>)
  <2>1. call[k] \in Deliveries
    BY DEF MailInv
  <2>2. NoCall \in Deliveries /\ call[k].retry \in BOOLEAN
    BY <2>1 DEF NoCall, Deliveries
  <2> QED BY <1>1, <2>2 DEF NoCall, Deliveries
<1>3. Lines(call', lock', taking')
  <2>1. Lines(call, lock, taking) /\ call \in [Call -> Deliveries] /\ taking' = taking
    BY DEF MailInv
  <2>2. call[k].chat \in Chat
    BY <2>1 DEF Lines
  <2>3. d.at \notin InLine
    BY <1>2 DEF InLine, Holding
  <2> QED BY <2>1, <2>2, <2>3, <1>15, LeaveLines DEF Put
<1>4. row'[m] = r /\ \A x \in Msg : x # m => row'[x] = row[x]
  BY DEF MailInv, Put
<1>5. call'[k] = d /\ \A o \in Call : o # k => call'[o] = call[o]
  BY <1>15 DEF MailInv, Put
<1>6. CallOK(d, row', registry', launched', fate, controller)
  BY <1>2 DEF CallOK, InLine, Holding
<1>7. Leased(row', call', boot)
  <2>1. SUFFICES ASSUME boot \in {"reconciled", "up"}, NEW x \in Msg, row'[x].status = "dispatching"
                 PROVE  \E o \in Call : /\ call'[o].at \in Starting /\ call'[o].m = x
                                        /\ call'[o].lease = row'[x].lease
    BY DEF Leased
  <2>2. row'[x] = row[x]
    BY <2>1, <1>4
  <2>3. PICK o \in Call : call[o].at \in Starting /\ call[o].m = x /\ call[o].lease = row[x].lease
    BY <2>1, <2>2 DEF MailInv, Leased
  <2>4. o # k
    BY <2>1, <2>2, <2>3, <1>4
  <2> QED BY <2>2, <2>3, <2>4, <1>5
<1>8. Alone(call', row')
  <2>1. Alone(call, row)
    BY DEF MailInv
  <2>2. ~Begun(d)
    BY <1>2 DEF Begun
  <2>3. \A o \in Call : Begun(call[o]) => call[o].m \in Msg
    BY DEF MailInv, CallOK, Begun, InLine, Holding
  <2>4. \A x \in Msg : row'[x].passed = row[x].passed
    BY <1>4 DEF Onward
  <2> QED BY <2>1, <2>2, <2>3, <2>4, <1>5 DEF Alone
<1>9. ASSUME NEW o \in Call, o # k, call[o].at \in Holding, call[o].m = m
      PROVE  CallOK(call[o], row', registry', launched', fate, controller)
  <2>1. row[m].passed # "held" /\ Begun(call[o]) => g = registry[m]
    BY <1>9 DEF MailInv, Alone
  <2>2. row[m].passed # "held" /\ Begun(call[o]) =>
          g = registry[m] /\ n.recorded = launched[m].recorded
    BY <2>1
  <2>3. \/ r.request = row[m].request
        \/ /\ call[k].at = "publish" /\ call[k].m = m /\ fate[call[k].chat] = "open"
           /\ r.request = call[k].request
    OBVIOUS
  <2>4. controller = New
    BY <1>9, TwoHold
  <2>5. \A i \in 1..Turns(launched[m]) : i \in 1..Turns(n)
    OBVIOUS
  <2> QED BY <1>9, <2>2, <2>3, <2>4, <2>5, OthersKept
<1>11. call' = Put(call, k, d) /\ UNCHANGED <<controller, journal, seen, fate, taking, boot>>
  BY <1>15
<1>13. \A o \in Call : o # k /\ call[o].at \in Holding /\ call[o].m = m =>
          CallOK(call[o], row', registry', launched', fate, controller)
  BY <1>9
<1>14. row[m].request # 0 => r.request # 0
  <2>1. call[k].at = "publish" => call[k].request # 0
    <3>1. CallOK(call[k], row, registry, launched, fate, controller)
      BY DEF MailInv
    <3> QED BY <3>1 DEF CallOK, Holding
  <2> QED BY <2>1
<1>16. d.at # "wait"
  BY <1>2
<1> QED BY <1>3, <1>6, <1>7, <1>8, <1>11, <1>13, <1>14, <1>16, OneStep


LEMMA PutSame ==
  ASSUME NEW D, NEW S, NEW f \in [D -> S], NEW x \in D
  PROVE  f = Put(f, x, f[x])
BY DEF Put

\* A row that stays as it is.
LEMMA OnwardSame ==
  ASSUME NEW r, NEW fa, NEW ctl
  PROVE  Onward(r, r, fa, ctl)
BY DEF Onward

\* What the invariant says of a call in a line, and of its message.
LEMMA InLineFacts ==
  ASSUME MailInv, NEW k \in Call, call[k].at \in InLine
  PROVE  /\ call[k] \in Deliveries /\ call[k].m \in Msg /\ call[k].chat \in Chat
         /\ CallOK(call[k], row, registry, launched, fate, controller)
         /\ LET m == call[k].m IN
              /\ RowOK(m, row[m], registry[m], launched[m], fate, controller, journal, seen)
              /\ row = Put(row, m, row[m]) /\ registry = Put(registry, m, registry[m])
              /\ launched = Put(launched, m, launched[m])
         /\ call[k].at \in Holding => Head(lock[call[k].chat]) = k
<1>1. CallOK(call[k], row, registry, launched, fate, controller)
  BY DEF MailInv
<1>2. call[k] \in Deliveries /\ call[k].m \in Msg /\ call[k].chat \in Chat
  BY <1>1 DEF CallOK
<1>3. PICK m \in Msg : m = call[k].m
  BY <1>2
<1>4. row \in [Msg -> Rows] /\ registry \in [Msg -> Entries] /\ launched \in [Msg -> Starts]
  BY DEF MailInv
<1>5. row = Put(row, m, row[m]) /\ registry = Put(registry, m, registry[m])
  BY <1>4, PutSame
<1>6. launched = Put(launched, m, launched[m])
  BY <1>4, PutSame
<1>7. RowOK(m, row[m], registry[m], launched[m], fate, controller, journal, seen)
  BY DEF MailInv
<1>8. call[k].at \in Holding => Head(lock[call[k].chat]) = k
  BY DEF MailInv, Lines
<1> QED BY <1>1, <1>2, <1>3, <1>5, <1>6, <1>7, <1>8

\* A delivery ends its work on a row.
LEMMA DoneStep ==
  ASSUME MailInv, NEW k \in Call, NEW m \in Msg, NEW r, NEW g, NEW n,
         call[k].at \in InLine, call[k].m = m, Head(lock[call[k].chat]) = k, Done(k, r),
         registry' = Put(registry, m, g), n = launched[m], launched' = Put(launched, m, n),
         UNCHANGED <<controller, journal, seen, fate, taking, boot>>,
         RowOK(m, r, g, n, fate, controller, journal, seen),
         Onward(row[m], r, fate, controller),
         \/ r.request = row[m].request
         \/ /\ call[k].at = "publish" /\ fate[call[k].chat] = "open"
            /\ r.request = call[k].request,
         g = registry[m] \/ Begun(call[k]),
         r.status = "dispatching" =>
           /\ r = row[m]
           /\ call[k].at \in Starting => call[k].lease # row[m].lease
  PROVE  MailInv'
<1>1. PICK todo : todo = IF r.status = "delivered" THEN call[k].todo ELSE <<>>
  OBVIOUS
<1>2. call[k] \in Deliveries
  BY DEF MailInv
<1>3. todo \in Seq(Msg)
  BY <1>1, <1>2 DEF Deliveries
<1>4. Leave(k, todo) /\ row' = Put(row, m, r)
  BY <1>1 DEF Done, Put
<1> QED BY <1>3, <1>4, Leaves


\* A call that goes on under its chat's lock, while the row, the registry's entry and
\* the turns of its message may change.
LEMMA GoesOn ==
  ASSUME MailInv, NEW k \in Call, NEW m \in Msg, NEW r, NEW g, NEW n, NEW d,
         call[k].at \in InLine, call[k].m = m, Head(lock[call[k].chat]) = k, lock' = lock,
         row' = Put(row, m, r), registry' = Put(registry, m, g),
         launched' = Put(launched, m, n), call' = Put(call, k, d),
         UNCHANGED <<controller, journal, seen, fate, taking, boot>>,
         RowOK(m, r, g, n, fate, controller, journal, seen),
         CallOK(d, row', registry', launched', fate, controller),
         d.at \in Holding, d.m = m, d.chat = call[k].chat,
         Onward(row[m], r, fate, controller),
         \/ r.request = row[m].request
         \/ /\ call[k].at = "publish" /\ fate[call[k].chat] = "open"
            /\ r.request = call[k].request,
         \A i \in 1..Turns(launched[m]) : i \in 1..Turns(n),
         \/ g = registry[m] /\ n.recorded = launched[m].recorded
         \/ row[m].passed = "held"
         \/ \A o \in Call : o # k /\ call[o].m = m => ~Begun(call[o]),
         Begun(d) /\ row[m].passed # "held" =>
           \A o \in Call : o # k /\ call[o].m = m => ~Begun(call[o]),
         \/ r.status # "dispatching"
         \/ d.at \in Starting /\ d.lease = r.lease
         \/ r = row[m] /\ call[k].at \notin Starting
         \/ r = row[m] /\ d.at \in Starting /\ d.lease = call[k].lease
  PROVE  MailInv'
<1>1. Lines(call', lock', taking')
  <2>1. Lines(call, lock, taking) /\ call \in [Call -> Deliveries] /\ taking' = taking
    BY DEF MailInv
  <2> QED BY <2>1, StayLines DEF Put
<1>2. row'[m] = r /\ \A x \in Msg : x # m => row'[x] = row[x]
  BY DEF MailInv, Put
<1>3. call'[k] = d /\ \A o \in Call : o # k => call'[o] = call[o]
  BY DEF MailInv, Put
<1>4. Leased(row', call', boot)
  <2>1. SUFFICES ASSUME boot \in {"reconciled", "up"}, NEW x \in Msg, row'[x].status = "dispatching"
                 PROVE  \E o \in Call : /\ call'[o].at \in Starting /\ call'[o].m = x
                                        /\ call'[o].lease = row'[x].lease
    BY DEF Leased
  <2>2. CASE row[x].status = "dispatching" /\ row'[x] = row[x]
    <3>1. PICK o \in Call : call[o].at \in Starting /\ call[o].m = x /\ call[o].lease = row[x].lease
      BY <2>1, <2>2 DEF MailInv, Leased
    <3>2. CASE o # k
      BY <2>2, <3>1, <3>2, <1>3
    <3>3. CASE o = k
      BY <2>1, <2>2, <3>1, <3>3, <1>2, <1>3
    <3> QED BY <3>2, <3>3
  <2>3. CASE ~(row[x].status = "dispatching" /\ row'[x] = row[x])
    <3>1. x = m /\ d.at \in Starting /\ d.lease = r.lease
      BY <2>1, <2>3, <1>2
    <3> QED BY <3>1, <1>2, <1>3
  <2> QED BY <2>2, <2>3
<1>5. Alone(call', row')
  <2>1. Alone(call, row)
    BY DEF MailInv
  <2>2. \A o \in Call : Begun(call[o]) => call[o].m \in Msg
    BY DEF MailInv, CallOK, Begun, InLine, Holding
  <2>3. \A x \in Msg : row'[x].passed = row[x].passed
    BY <1>2 DEF Onward
  <2>4. SUFFICES ASSUME NEW a \in Call, NEW b \in Call, a # b, Begun(call'[a]), Begun(call'[b]),
                        call'[a].m = call'[b].m, row'[call'[a].m].passed # "held"
                 PROVE  FALSE
    BY DEF Alone
  <2>5. ASSUME NEW o \in Call, o # k, Begun(call[o]), Begun(d), call[o].m = m, row[m].passed # "held"
        PROVE  FALSE
    BY <2>5
  <2>6. CASE a = k
    BY <2>3, <2>4, <2>5, <2>6, <1>3
  <2>7. CASE b = k
    BY <2>3, <2>4, <2>5, <2>7, <1>3
  <2>8. CASE a # k /\ b # k
    BY <2>1, <2>2, <2>3, <2>4, <2>8, <1>3 DEF Alone
  <2> QED BY <2>6, <2>7, <2>8
<1>6. \A o \in Call : o # k /\ call[o].at \in Holding /\ call[o].m = m =>
         CallOK(call[o], row', registry', launched', fate, controller)
  <2>1. SUFFICES ASSUME NEW o \in Call, o # k, call[o].at \in Holding, call[o].m = m
                 PROVE  CallOK(call[o], row', registry', launched', fate, controller)
    OBVIOUS
  <2>2. \/ r.request = row[m].request
        \/ /\ call[k].at = "publish" /\ call[k].m = m /\ fate[call[k].chat] = "open"
           /\ r.request = call[k].request
    OBVIOUS
  <2>3. row[m].passed # "held" /\ Begun(call[o]) =>
          g = registry[m] /\ n.recorded = launched[m].recorded
    BY <2>1
  <2>4. controller = New
    BY <2>1, TwoHold
  <2> QED BY <2>1, <2>2, <2>3, <2>4, OthersKept
<1>7. row[m].request # 0 => r.request # 0
  <2>1. call[k].at = "publish" => call[k].request # 0
    <3>1. CallOK(call[k], row, registry, launched, fate, controller)
      BY DEF MailInv
    <3> QED BY <3>1 DEF CallOK, Holding
  <2> QED BY <2>1
<1>8. d.at # "wait"
  BY DEF Holding
<1> QED BY <1>1, <1>4, <1>5, <1>6, <1>7, <1>8, OneStep


-----------------------------------------------------------------------------
(* The steps of a delivery *)

LEMMA TakeLockKeeps ==
  ASSUME MailInv, NEW k \in Call, TakeLock(k)
  PROVE  MailInv'
<1>1. /\ call[k].at = "wait" /\ call[k].at \in InLine /\ Head(lock[call[k].chat]) = k
      /\ ~Begun(call[k])
  BY DEF TakeLock, InLine, Begun
<1>0. PICK m \in Msg : m = call[k].m
  BY <1>1, InLineFacts
<1>2. PICK r, g, n : m = call[k].m /\ r = row[m] /\ g = registry[m] /\ n = launched[m]
  BY <1>0
<1>3. /\ call[k] \in Deliveries /\ call[k].chat \in Chat
      /\ CallOK(call[k], row, registry, launched, fate, controller)
      /\ RowOK(m, r, g, n, fate, controller, journal, seen)
      /\ row = Put(row, m, r) /\ registry = Put(registry, m, g) /\ launched = Put(launched, m, n)
      /\ Onward(row[m], r, fate, controller)
  BY <1>1, <1>2, InLineFacts, OnwardSame
<1>4. UNCHANGED <<controller, journal, seen, fate, taking, boot>>
  BY DEF TakeLock, durable
<1>5. registry' = Put(registry, m, g) /\ launched' = Put(launched, m, n)
  BY <1>3 DEF TakeLock, durable
<1>6. CASE r.to # call[k].chat
  <2>1. row' = Put(row, m, r) /\ Leave(k, <<m>> \o call[k].todo)
    BY <1>2, <1>3, <1>6 DEF TakeLock
  <2>2. <<m>> \o call[k].todo \in Seq(Msg)
    BY <1>3 DEF Deliveries
  <2>3. call[k].at \notin Starting
    BY <1>1 DEF Starting
  <2> QED BY <1>1, <1>2, <1>3, <1>4, <1>5, <2>1, <2>2, <2>3, Leaves
<1>7. CASE r.to = call[k].chat /\ r.status \in {"delivered", "uncertain", "dispatching"}
  <2>1. Done(k, r)
    BY <1>2, <1>7 DEF TakeLock
  <2>2. call[k].at \notin Starting
    BY <1>1 DEF Starting
  <2> QED BY <1>1, <1>2, <1>3, <1>4, <1>5, <2>1, <2>2, DoneStep
<1>8. CASE r.to = call[k].chat /\ r.status \in {"queued", "failed"} /\ m \in seen
  <2>1. PICK s : s = Skipped(r)
    OBVIOUS
  <2>2. Done(k, s)
    BY <1>2, <1>8, <2>1 DEF TakeLock
  <2>3. /\ s.to = r.to /\ s.failed = r.failed /\ s.request = r.request /\ s.passed = r.passed
        /\ s.status = "delivered" /\ s.how = "skipped" /\ s \in Rows
    BY <1>3, <2>1 DEF Skipped, RowOK, Rows, Status
  <2>4. RowOK(m, s, g, n, fate, controller, journal, seen)
    <3>1. m \in seen
      BY <1>8
    <3> QED BY <1>3, <2>3, <3>1 DEF RowOK, OneRequest, Failed
  <2>5. Onward(row[m], s, fate, controller)
    BY <1>2, <2>3 DEF Onward
  <2> QED BY <1>1, <1>2, <1>4, <1>5, <2>2, <2>3, <2>4, <2>5, DoneStep
<1>9. CASE r.to = call[k].chat /\ r.status \in {"queued", "failed"} /\ m \notin seen
  <2>1. PICK d : d = [call[k] EXCEPT !.at = "publish", !.lease = r.lease + 1,
                                     !.request = RequestOf(r, k)]
    OBVIOUS
  <2>2. call' = Put(call, k, d) /\ lock' = lock /\ row' = Put(row, m, r)
    <3>1. /\ call' = [call EXCEPT ![k].at = "publish", ![k].lease = r.lease + 1,
                                  ![k].request = RequestOf(r, k)]
          /\ UNCHANGED <<row, lock>>
      BY <1>2, <1>9 DEF TakeLock
    <3>2. call \in [Call -> Deliveries]
      BY DEF MailInv
    <3>3. call' = Put(call, k, d)
      BY <3>1, <3>2, <2>1, <1>3 DEF Put, Deliveries
    <3> QED BY <3>1, <3>3, <1>3
  <2>3. RequestOf(r, k) \in Nat /\ RequestOf(r, k) # 0 /\ r.lease + 1 \in Nat
    <3>1. r.request \in Nat /\ r.lease \in Nat
      BY <1>3 DEF RowOK, Rows
    <3>2. k \in Nat /\ k # 0
      BY Places
    <3> QED BY <3>1, <3>2 DEF RequestOf
  <2>4. /\ d.at = "publish" /\ d.m = m /\ d.chat = call[k].chat /\ d.request = RequestOf(r, k)
        /\ d \in Deliveries
    BY <1>2, <1>3, <2>1, <2>3 DEF Deliveries, InLine, Holding
  <2>5. row' = row /\ registry' = registry /\ launched' = launched
    BY <2>2, <1>3, <1>5
  <2>6. d.at \in Holding /\ d.at \in InLine /\ d.at \notin Starting /\ ~Begun(d)
    BY <2>4 DEF Holding, InLine, Starting, Begun
  <2>7. d.chat = Old =>
          \/ controller = Old /\ r.status = "queued"
          \/ r.passed # "no" \/ Failed(r, fate)
    <3>1. SUFFICES ASSUME d.chat = Old, ~(controller = Old /\ r.status = "queued")
                   PROVE  r.passed # "no" \/ Failed(r, fate)
      OBVIOUS
    <3>2. r.to = Old
      BY <3>1, <2>4, <1>9
    <3>3. CASE r.status = "failed"
      BY <3>2, <3>3, <1>3 DEF RowOK
    <3>4. CASE r.status = "queued"
      <4>0. controller = New
        BY <3>1, <3>4 DEF MailInv, Journal
      <4>1. CASE journal # "rows"
        BY <4>0, <4>1, <3>2, <3>4, <1>3 DEF RowOK, Left
      <4>2. CASE journal = "rows" /\ taking = "no"
        BY <4>2, <3>1, <3>2, <3>4, <2>4, <1>1, <1>2 DEF MailInv, Early, Left
      <4>3. CASE journal = "rows" /\ taking # "no"
        <5>1. taking = "holds"
          BY <4>3 DEF MailInv, Journal
        <5>2. Head(lock[Old]) = Taker
          BY <5>1 DEF MailInv, Lines
        <5> QED BY <5>2, <3>1, <2>4, <1>1, Places
      <4> QED BY <4>1, <4>2, <4>3
    <3> QED BY <3>3, <3>4, <1>9
  <2>8. CallOK(d, row, registry, launched, fate, controller)
    <3>1. call[k].chat = New => controller = New
      BY <1>1, <1>3 DEF CallOK
    <3>2. OwnRequest(d, r, g, n, fate)
      BY <2>4, <2>6 DEF OwnRequest, RequestOf
    <3>3. d.at \notin {"next", "launched", "asked", "start"}
      BY <2>4
    <3> QED BY <1>2, <1>3, <1>9, <2>3, <2>4, <2>6, <2>7, <3>1, <3>2, <3>3 DEF CallOK
  <2>9. CallOK(d, row', registry', launched', fate, controller)
    BY <2>5, <2>8
  <2>10. call[k].at \notin Starting
    BY <1>1 DEF Starting
  <2> QED BY <1>1, <1>2, <1>3, <1>4, <1>5, <2>2, <2>4, <2>6, <2>9, <2>10, GoesOn
<1>10. \/ r.to # call[k].chat
       \/ r.to = call[k].chat /\ r.status \in {"delivered", "uncertain", "dispatching", "queued", "failed"}
  BY <1>2 DEF TakeLock
<1> QED BY <1>6, <1>7, <1>8, <1>9, <1>10


LEMMA IsFacts ==
  ASSUME NEW r \in Rows, NEW s \in Status
  PROVE  /\ Is(r, s) \in Rows /\ Is(r, s).status = s
         /\ Is(r, s).failed = (r.failed \/ s = "failed")
         /\ Is(r, s).to = r.to /\ Is(r, s).request = r.request /\ Is(r, s).lease = r.lease
         /\ Is(r, s).passed = r.passed
<1>1. Is(r, s) = [r EXCEPT !.status = s, !.failed = r.failed \/ s = "failed"]
  BY DEF Is
<1>2. (r.failed \/ s = "failed") \in BOOLEAN
  OBVIOUS
<1> QED BY <1>1 DEF Rows

\* A row with another status: what its status asks of it.
LEMMA IsOK ==
  ASSUME NEW m, NEW r, NEW g, NEW n, NEW s \in {"queued", "failed", "uncertain"},
         RowOK(m, r, g, n, fate, controller, journal, seen),
         s = "uncertain" => r.request # 0,
         s = "failed" /\ r.to = Old => (r.request = 0 => fate[Old] = "gone"),
         s = "queued" /\ r.to = Old /\ controller = New => Left(r, fate)
  PROVE  /\ RowOK(m, Is(r, s), g, n, fate, controller, journal, seen)
         /\ Is(r, s).to = r.to /\ (r.failed => Is(r, s).failed)
         /\ Is(r, s).status # "absent" /\ Is(r, s).status # "dispatching"
         /\ Is(r, s).request = r.request
         /\ Onward(r, Is(r, s), fate, controller)
<1>1. r \in Rows /\ s \in Status
  BY DEF RowOK, Status
<1>0. PICK q : q = Is(r, s)
  OBVIOUS
<1>2. /\ q \in Rows /\ q.status = s
      /\ q.failed = (r.failed \/ s = "failed")
      /\ q.to = r.to /\ q.request = r.request /\ q.passed = r.passed
  BY <1>0, <1>1, IsFacts
<1>3. RowOK(m, q, g, n, fate, controller, journal, seen)
  <2>1. r.passed # "held" => OneRequest(q, g, n)
    BY <1>2 DEF RowOK, OneRequest
  <2>2. s = "failed" /\ r.to = Old => Failed(q, fate)
    BY <1>2 DEF Failed
  <2>3. s = "queued" /\ r.to = Old /\ controller = New => Left(q, fate)
    BY <1>2 DEF Failed, Left
  <2> QED BY <1>2, <2>1, <2>2, <2>3 DEF RowOK
<1>4. Onward(r, q, fate, controller)
  BY <1>2 DEF Onward, Left, Failed
<1> QED BY <1>0, <1>2, <1>3, <1>4

LEMMA PublishedKeeps ==
  ASSUME MailInv, NEW k \in Call, Published(k)
  PROVE  MailInv'
<1>1. /\ call[k].at = "publish" /\ call[k].at \in InLine /\ call[k].at \in Holding
      /\ call[k].at \notin Starting /\ ~Begun(call[k])
  BY DEF Published, InLine, Holding, Starting, Begun
<1>0. PICK m \in Msg : m = call[k].m
  BY <1>1, InLineFacts
<1>14. PICK c \in Chat : c = call[k].chat
  BY <1>1, InLineFacts
<1>2. PICK r, g, n : /\ m = call[k].m /\ c = call[k].chat
                     /\ r = row[m] /\ g = registry[m] /\ n = launched[m]
  BY <1>0, <1>14
<1>3. /\ call[k] \in Deliveries /\ Head(lock[call[k].chat]) = k
      /\ CallOK(call[k], row, registry, launched, fate, controller)
      /\ RowOK(m, r, g, n, fate, controller, journal, seen)
      /\ row = Put(row, m, r) /\ registry = Put(registry, m, g) /\ launched = Put(launched, m, n)
  BY <1>1, <1>2, InLineFacts
<1>4. UNCHANGED <<controller, journal, seen, fate, taking, boot>>
  BY DEF Published, durable
<1>5. registry' = Put(registry, m, g) /\ launched' = Put(launched, m, n)
  BY <1>3 DEF Published, durable
<1>6. /\ r \in Rows /\ call[k].request # 0 /\ r.status # "absent"
      /\ call[k].request \in Nat /\ call[k].lease \in Nat
      /\ r.to = Old => c = Old
      /\ r.to = New => controller = New
      /\ c = New => controller = New
      /\ r.passed # "held" => OwnRequest(call[k], r, g, n, fate)
      /\ c = Old => \/ controller = Old /\ r.status = "queued"
                    \/ r.passed # "no" \/ Failed(r, fate)
  BY <1>1, <1>2, <1>3 DEF CallOK, RowOK, Deliveries
<1>16. r.to = Old /\ controller = New => Left(r, fate)
  <2>1. r.to = Old => r.passed # "held"
    BY <1>3, Places DEF RowOK
  <2>2. r.passed \in {"no", "sent", "held"}
    BY <1>6 DEF Rows
  <2> QED BY <2>1, <2>2, <1>6, Places DEF Left
<1>7. CASE Done(k, Is(r, "queued"))
  <2>1. PICK s : s = Is(r, "queued")
    OBVIOUS
  <2>2. /\ RowOK(m, s, g, n, fate, controller, journal, seen)
        /\ Onward(r, s, fate, controller)
        /\ s.status # "dispatching" /\ s.request = r.request
    BY <1>3, <1>16, <2>1, IsOK
  <2>3. Done(k, s)
    BY <1>7, <2>1
  <2> QED BY <1>1, <1>2, <1>3, <1>4, <1>5, <2>2, <2>3, DoneStep
<1>8. CASE fate[c] = "gone" /\ Done(k, Is(r, "failed"))
  <2>1. PICK s : s = Is(r, "failed")
    OBVIOUS
  <2>2. /\ RowOK(m, s, g, n, fate, controller, journal, seen)
        /\ Onward(r, s, fate, controller)
        /\ s.status # "dispatching" /\ s.request = r.request
    BY <1>3, <1>6, <1>8, <2>1, IsOK
  <2>3. Done(k, s)
    BY <1>8, <2>1
  <2> QED BY <1>1, <1>2, <1>3, <1>4, <1>5, <2>2, <2>3, DoneStep
<1>9. CASE fate[c] = "closed" /\ Done(k, Skipped(r))
  <2>1. PICK s : s = Skipped(r)
    OBVIOUS
  <2>2. /\ s.to = r.to /\ s.failed = r.failed /\ s.request = r.request /\ s.passed = r.passed
        /\ s.status = "delivered" /\ s.how = "skipped" /\ s \in Rows
    BY <1>6, <2>1 DEF Skipped, Rows, Status
  <2>3. RowOK(m, s, g, n, fate, controller, journal, seen)
    <3>1. c \in {Old, New} /\ r.to \in {Old, New} /\ Old # New
      BY <1>14, <1>6, Places DEF Rows, Chat
    <3>2. fate[s.to] = "closed" \/ (fate[Old] = "closed" /\ (s.failed \/ s.passed # "no"))
      <4>1. CASE r.to = c
        BY <4>1, <1>9, <2>2
      <4>2. CASE r.to # c
        <5>1. c = Old /\ r.to = New /\ controller = New
          BY <4>2, <1>6, <3>1
        <5>2. r.passed # "no" \/ Failed(r, fate)
          BY <5>1, <1>6, <3>1
        <5> QED BY <5>1, <5>2, <1>9, <2>2 DEF Failed
      <4> QED BY <4>1, <4>2
    <3> QED BY <1>3, <2>2, <3>2 DEF RowOK, OneRequest
  <2>4. Done(k, s)
    BY <1>9, <2>1
  <2>5. Onward(r, s, fate, controller)
    BY <2>2 DEF Onward
  <2> QED BY <1>1, <1>2, <1>3, <1>4, <1>5, <2>2, <2>3, <2>4, <2>5, DoneStep
<1>10. PICK sent : sent = [r EXCEPT !.status = "dispatching", !.request = call[k].request,
                                    !.lease = call[k].lease]
  OBVIOUS
<1>11. /\ sent.status = "dispatching" /\ sent.request = call[k].request /\ sent.passed = r.passed
       /\ sent.lease = call[k].lease /\ sent.to = r.to /\ sent.failed = r.failed /\ sent \in Rows
  <2>1. "dispatching" \in Status /\ call[k].request \in Nat /\ call[k].lease \in Nat /\ r \in Rows
    BY <1>6 DEF Status
  <2> QED BY <2>1, <1>10 DEF Rows
<1>15. Onward(r, sent, fate, controller)
  BY <1>11 DEF Onward
<1>12. CASE fate[c] = "open"
  <2>1. r.passed # "held" => OneRequest(sent, g, n)
    <3>1. SUFFICES ASSUME r.passed # "held" PROVE OneRequest(sent, g, n)
      OBVIOUS
    <3>2. OneRequest(r, g, n)
      BY <3>1, <1>3 DEF RowOK
    <3>3. r.request # 0 => call[k].request = r.request
      BY <3>1, <1>1, <1>2, <1>6, <1>12 DEF OwnRequest
    <3> QED BY <3>2, <3>3, <1>11 DEF OneRequest
  <2>3. RowOK(m, sent, g, n, fate, controller, journal, seen)
    BY <1>3, <1>6, <1>11, <2>1 DEF RowOK
  <2>4. CASE Done(k, Is(sent, "failed"))
    <3>1. PICK s : s = Is(sent, "failed")
      OBVIOUS
    <3>2. /\ RowOK(m, s, g, n, fate, controller, journal, seen)
          /\ s.to = sent.to /\ (sent.failed => s.failed) /\ s.status # "absent"
          /\ s.status # "dispatching" /\ s.request = sent.request
          /\ Onward(sent, s, fate, controller)
      BY <2>3, <1>6, <1>11, <3>1, IsOK
    <3>3. Done(k, s)
      BY <2>4, <3>1
    <3>4. s.request = call[k].request /\ s.status = "failed"
      <4>1. "failed" \in Status /\ sent \in Rows
        BY <1>11 DEF Status
      <4> QED BY <4>1, <3>1, <3>2, <1>11, IsFacts
    <3>5. Onward(r, s, fate, controller)
      BY <3>2, <3>4, <1>11, <1>15 DEF Onward
    <3> QED BY <1>1, <1>2, <1>3, <1>4, <1>5, <1>12, <3>2, <3>3, <3>4, <3>5, DoneStep
  <2>5. CASE /\ row' = [row EXCEPT ![m] = sent]
             /\ call' = [call EXCEPT ![k].at = "asked"]
             /\ UNCHANGED lock
    <3>1. PICK d : d = [call[k] EXCEPT !.at = "asked"]
      OBVIOUS
    <3>2. /\ d.at = "asked" /\ d.m = m /\ d.chat = c /\ d.request = call[k].request
          /\ d.lease = call[k].lease /\ d \in Deliveries
      BY <1>2, <1>3, <3>1 DEF Deliveries, InLine, Holding
    <3>3. call' = Put(call, k, d) /\ row' = Put(row, m, sent) /\ lock' = lock
      <4>1. call \in [Call -> Deliveries]
        BY DEF MailInv
      <4> QED BY <2>5, <4>1, <3>1, <1>3 DEF Put, Deliveries
    <3>4. row'[m] = sent /\ registry'[m] = g /\ launched'[m] = n
      BY <3>3, <1>2, <1>3, <1>5 DEF Put, MailInv
    <3>5. d.at \in Holding /\ d.at \in InLine /\ d.at \in Starting /\ ~Begun(d)
      BY <3>2 DEF Holding, InLine, Starting, Begun
    <3>6. CallOK(d, row', registry', launched', fate, controller)
      <4>2. OwnRequest(d, sent, g, n, fate)
        BY <1>11, <3>2 DEF OwnRequest
      <4>3. d.chat = Old /\ controller = New => sent.passed # "no" \/ Failed(sent, fate)
        BY <1>6, <1>11, <3>2, Places DEF Failed
      <4>4. sent.to = Old => d.chat = Old
        BY <1>6, <1>11, <3>2
      <4>5. d.at \notin {"next", "publish", "launched"}
        BY <3>2
      <4> QED BY <4>2, <4>3, <4>4, <4>5, <1>6, <1>11, <3>2, <3>4, <3>5 DEF CallOK
    <3>7. g = registry[m] /\ n = launched[m]
      BY <1>2
    <3>8. /\ \A i \in 1..Turns(launched[m]) : i \in 1..Turns(n)
          /\ g = registry[m] /\ n.recorded = launched[m].recorded
          /\ Onward(row[m], sent, fate, controller)
      BY <1>2, <1>15, <3>7
    <3> QED BY <1>1, <1>2, <1>3, <1>4, <1>5, <1>11, <1>12, <2>3, <3>2, <3>3, <3>5, <3>6, <3>8, GoesOn
  <2>6. \/ Done(k, Is(row[m], "queued"))
        \/ Done(k, Is(sent, "failed"))
        \/ /\ row' = [row EXCEPT ![m] = sent]
           /\ call' = [call EXCEPT ![k].at = "asked"]
           /\ UNCHANGED lock
    <3>1. sent = [row[m] EXCEPT !.status = "dispatching", !.request = call[k].request,
                                !.lease = call[k].lease]
      BY <1>2, <1>10
    <3> QED BY <3>1, <1>2, <1>12 DEF Published
  <2> QED BY <2>4, <2>5, <2>6, <1>2, <1>7
<1>13. fate[c] \in {"open", "closed", "gone"}
  BY DEF MailInv, Journal
<1> QED BY <1>2, <1>7, <1>8, <1>9, <1>12, <1>13 DEF Published

LEMMA PublishFailsKeeps ==
  ASSUME MailInv, NEW k \in Call, PublishFails(k)
  PROVE  MailInv'
<1>1. /\ call[k].at = "publish" /\ call[k].at \in InLine /\ call[k].at \in Holding
      /\ call[k].at \notin Starting
  BY DEF PublishFails, InLine, Holding, Starting
<1>0. PICK m \in Msg : m = call[k].m
  BY <1>1, InLineFacts
<1>2. PICK r, g, n : m = call[k].m /\ r = row[m] /\ g = registry[m] /\ n = launched[m]
  BY <1>0
<1>3. /\ Head(lock[call[k].chat]) = k
      /\ RowOK(m, r, g, n, fate, controller, journal, seen)
      /\ row = Put(row, m, r) /\ registry = Put(registry, m, g) /\ launched = Put(launched, m, n)
      /\ Onward(row[m], r, fate, controller)
  BY <1>1, <1>2, InLineFacts, OnwardSame
<1>4. UNCHANGED <<controller, journal, seen, fate, taking, boot>>
  BY DEF PublishFails, durable
<1>5. /\ row' = Put(row, m, r) /\ registry' = Put(registry, m, g)
      /\ launched' = Put(launched, m, n)
  BY <1>3 DEF PublishFails, durable
<1>6. Leave(k, <<>>) /\ <<>> \in Seq(Msg)
  BY DEF PublishFails
<1> QED BY <1>1, <1>2, <1>3, <1>4, <1>5, <1>6, Leaves


\* A delivery returns from the start of the turn.
LEMMA Returns ==
  ASSUME MailInv, NEW k \in Call, NEW m \in Msg, NEW g, NEW n, NEW s,
         call[k].at \in Starting, call[k].m = m, Done(k, s),
         \/ s = row[m] /\ ~HasLease(k)
         \/ s = Is(row[m], "queued") /\ call[k].at # "launched"
         \/ s = Is(row[m], "failed")
         \/ \E run \in 1..Turns(n) : s = Delivered(row[m], run),
         registry' = Put(registry, m, g), n = launched[m], launched' = Put(launched, m, n),
         UNCHANGED <<controller, journal, seen, fate, taking, boot>>,
         RowOK(m, row[m], g, n, fate, controller, journal, seen),
         g = registry[m] \/ Begun(call[k])
  PROVE  MailInv'
<1>1. call[k].at \in InLine /\ call[k].at \in Holding /\ call[k].at # "publish"
  BY DEF Starting, InLine, Holding
<1>2. PICK r : r = row[m]
  OBVIOUS
<1>3. /\ Head(lock[call[k].chat]) = k
      /\ CallOK(call[k], row, registry, launched, fate, controller)
  BY <1>1, InLineFacts
<1>4. /\ r \in Rows /\ r.status # "absent" /\ n \in Starts
      /\ RowOK(m, r, g, n, fate, controller, journal, seen)
      /\ r.passed = "held" => r.to = New
      /\ r.to = Old => call[k].chat = Old
      /\ call[k].request # 0
      /\ r.passed # "held" => OwnRequest(call[k], r, registry[m], n, fate)
  BY <1>1, <1>2, <1>3 DEF CallOK, RowOK
<1>5. CASE s = r /\ ~HasLease(k)
  <2>1. s.status = "dispatching" => s = row[m] /\ call[k].lease # row[m].lease
    BY <1>2, <1>5 DEF HasLease
  <2>2. RowOK(m, s, g, n, fate, controller, journal, seen)
    BY <1>4, <1>5
  <2>3. s.request = row[m].request /\ Onward(row[m], s, fate, controller)
    BY <1>2, <1>5, OnwardSame
  <2> QED BY <1>1, <1>3, <2>1, <2>2, <2>3, DoneStep
<1>6. ASSUME NEW status \in {"queued", "failed"}, s = Is(r, status),
             status = "queued" => call[k].at # "launched"
      PROVE  MailInv'
  <2>2. r.to = Old => r.request # 0
    BY <1>4, Places DEF OwnRequest
  <2>3. status = "queued" /\ r.to = Old /\ controller = New => Left(r, fate)
    <3>1. SUFFICES ASSUME status = "queued", r.to = Old, controller = New PROVE Left(r, fate)
      OBVIOUS
    <3>2. call[k].at \in {"asked", "start"}
      BY <3>1, <1>6 DEF Starting
    <3>3. r.passed # "no" \/ Failed(r, fate)
      BY <3>1, <3>2, <1>2, <1>3, <1>4 DEF CallOK
    <3>4. r.passed # "held" /\ r.passed \in {"no", "sent", "held"}
      BY <3>1, <1>4, Places DEF Rows
    <3> QED BY <3>3, <3>4 DEF Left
  <2>1. /\ RowOK(m, s, g, n, fate, controller, journal, seen)
        /\ s.status # "dispatching" /\ s.request = r.request
        /\ Onward(r, s, fate, controller)
    BY <1>4, <1>6, <2>2, <2>3, IsOK
  <2> QED BY <1>1, <1>2, <1>3, <2>1, DoneStep
<1>7. ASSUME NEW run \in 1..Turns(n), s = Delivered(r, run)
      PROVE  MailInv'
  <2>0. run \in Nat
    BY <1>4 DEF Turns, Starts
  <2>1. /\ s.to = r.to /\ s.failed = r.failed /\ s.request = r.request /\ s.passed = r.passed
        /\ s.status = "delivered" /\ s.how = "started_run" /\ s.run = run /\ s \in Rows
    BY <1>4, <1>7, <2>0 DEF Delivered, Rows, Status
  <2>2. RowOK(m, s, g, n, fate, controller, journal, seen)
    BY <1>4, <2>1 DEF RowOK, OneRequest
  <2>3. Onward(r, s, fate, controller)
    BY <2>1 DEF Onward
  <2> QED BY <1>1, <1>2, <1>3, <2>1, <2>2, <2>3, DoneStep
<1> QED BY <1>2, <1>5, <1>6, <1>7

LEMMA UnansweredReturns ==
  ASSUME MailInv, NEW k \in Call, NEW m \in Msg, NEW g, NEW n, NEW s \in {"queued", "failed"},
         call[k].at \in Starting, call[k].m = m, Unanswered(k, s),
         s = "queued" => call[k].at # "launched",
         registry' = Put(registry, m, g), n = launched[m], launched' = Put(launched, m, n),
         UNCHANGED <<controller, journal, seen, fate, taking, boot>>,
         RowOK(m, row[m], g, n, fate, controller, journal, seen),
         g = registry[m] \/ Begun(call[k])
  PROVE  MailInv'
<1>1. PICK t : t = IF HasLease(k) THEN Is(row[m], s) ELSE row[m]
  OBVIOUS
<1>2. Done(k, t)
  BY <1>1 DEF Unanswered, DoneIfLeased
<1>3. \/ t = row[m] /\ ~HasLease(k)
      \/ t = Is(row[m], "queued") /\ call[k].at # "launched"
      \/ t = Is(row[m], "failed")
      \/ \E run \in 1..Turns(n) : t = Delivered(row[m], run)
  BY <1>1
<1> QED BY <1>2, <1>3, Returns

LEMMA AnswerReturns ==
  ASSUME MailInv, NEW k \in Call, NEW m \in Msg, NEW g, NEW n, NEW run \in 1..Turns(n),
         call[k].at \in Starting, call[k].m = m, Answer(k, run),
         registry' = Put(registry, m, g), n = launched[m], launched' = Put(launched, m, n),
         UNCHANGED <<controller, journal, seen, fate, taking, boot>>,
         RowOK(m, row[m], g, n, fate, controller, journal, seen),
         g = registry[m] \/ Begun(call[k])
  PROVE  MailInv'
<1>1. PICK t : t = IF HasLease(k) THEN Delivered(row[m], run) ELSE row[m]
  OBVIOUS
<1>2. Done(k, t)
  BY <1>1 DEF Answer
<1>3. \/ t = row[m] /\ ~HasLease(k)
      \/ t = Is(row[m], "queued") /\ call[k].at # "launched"
      \/ t = Is(row[m], "failed")
      \/ \E i \in 1..Turns(n) : t = Delivered(row[m], i)
  BY <1>1
<1> QED BY <1>2, <1>3, Returns

\* What the invariant says of a delivery that starts a turn.
LEMMA StartingFacts ==
  ASSUME MailInv, NEW k \in Call, call[k].at \in Starting
  PROVE  /\ call[k].at \in InLine /\ call[k].at \in Holding
         /\ \E m, g, n :
              /\ m \in Msg /\ n \in Starts /\ m = call[k].m /\ g = registry[m] /\ n = launched[m]
              /\ RowOK(m, row[m], g, n, fate, controller, journal, seen)
              /\ registry = Put(registry, m, g) /\ launched = Put(launched, m, n)
              /\ row = Put(row, m, row[m])
              /\ call[k].request # 0 /\ row[m].status # "absent"
              /\ row[m].passed # "held" => OwnRequest(call[k], row[m], g, n, fate)
              /\ call[k].at = "launched" => call[k].run \in 1..Turns(n)
<1>1. call[k].at \in InLine /\ call[k].at \in Holding
  BY DEF Starting, InLine, Holding
<1>2. /\ call[k].m \in Msg
      /\ CallOK(call[k], row, registry, launched, fate, controller)
  BY <1>1, InLineFacts
<1>3. PICK m, g, n : m \in Msg /\ m = call[k].m /\ g = registry[m] /\ n = launched[m]
  BY <1>2
<1>4. /\ RowOK(m, row[m], g, n, fate, controller, journal, seen)
      /\ registry = Put(registry, m, g) /\ launched = Put(launched, m, n)
      /\ row = Put(row, m, row[m])
  BY <1>1, <1>3, InLineFacts
<1>5. n \in Starts
  BY <1>4 DEF RowOK
<1>6. /\ call[k].request # 0 /\ row[m].status # "absent"
      /\ row[m].passed # "held" => OwnRequest(call[k], row[m], g, n, fate)
      /\ call[k].at = "launched" => call[k].run \in 1..Turns(n)
  BY <1>1, <1>2, <1>3 DEF CallOK
<1> QED BY <1>1, <1>3, <1>4, <1>5, <1>6

\* Where the open registry knows of no start in the way, none is recorded.
LEMMA NoneBegun ==
  ASSUME MailInv, NEW k \in Call, NEW m \in Msg, call[k].at \in Starting, call[k].m = m,
         boot = "up", Known(m, call[k].request) \notin {"accepted", "pending"},
         row[m].passed # "held"
  PROVE  /\ launched[m].recorded = 0 /\ call[k].request = row[m].request
         /\ \A o \in Call : call[o].m = m => ~Begun(call[o])
<1>1. PICK r, g, n : r = row[m] /\ g = registry[m] /\ n = launched[m]
  OBVIOUS
<1>2. /\ OneRequest(r, g, n) /\ OwnRequest(call[k], r, g, n, fate) /\ call[k].request # 0
  BY <1>1, StartingFacts DEF RowOK
<1>3. call[k].request = r.request
  BY <1>2 DEF OwnRequest
<1>4. g.request = call[k].request => g.state \notin {"accepted", "pending"}
  BY <1>1, <1>2 DEF Known
<1>5. g.state \notin {"accepted", "pending"} /\ n.recorded = 0
  BY <1>2, <1>3, <1>4 DEF OneRequest
<1>6. ASSUME NEW o \in Call, call[o].m = m, Begun(call[o])
      PROVE  FALSE
  <2>1. CallOK(call[o], row, registry, launched, fate, controller) /\ call[o].at \in Holding
    BY <1>6 DEF MailInv, Begun, Holding
  <2>2. OwnRequest(call[o], r, g, n, fate)
    BY <2>1, <1>1, <1>6 DEF CallOK
  <2> QED BY <2>2, <1>5, <1>6 DEF OwnRequest, Begun
<1> QED BY <1>1, <1>3, <1>5, <1>6

\* The registry's entry when an intent is recorded.
LEMMA IntentOK ==
  ASSUME NEW m, NEW r, NEW g, NEW n, NEW h, NEW request \in Nat, request # 0,
         RowOK(m, r, g, n, fate, controller, journal, seen), r.status # "absent",
         h = [request |-> request, state |-> "pending", run |-> 0],
         r.passed # "held" => request = r.request
  PROVE  /\ h \in Entries /\ h.request = request /\ h.state = "pending"
         /\ RowOK(m, r, h, n, fate, controller, journal, seen)
<1>1. h \in Entries /\ h.request = request /\ h.state = "pending"
  BY DEF Entries
<1>2. r.passed # "held" => OneRequest(r, h, n)
  BY <1>1 DEF RowOK, OneRequest
<1> QED BY <1>1, <1>2 DEF RowOK

LEMMA AskedKeeps ==
  ASSUME MailInv, NEW k \in Call, Asked(k)
  PROVE  MailInv'
<1>1. call[k].at = "asked" /\ call[k].at \in Starting
  BY DEF Asked, Starting
<1>2. PICK m, g, n :
        /\ m \in Msg /\ n \in Starts /\ m = call[k].m /\ g = registry[m] /\ n = launched[m]
        /\ RowOK(m, row[m], g, n, fate, controller, journal, seen)
        /\ registry = Put(registry, m, g) /\ launched = Put(launched, m, n)
        /\ row = Put(row, m, row[m])
        /\ call[k].request # 0 /\ row[m].status # "absent"
        /\ row[m].passed # "held" => OwnRequest(call[k], row[m], g, n, fate)
  BY <1>1, StartingFacts
<1>3. /\ call[k].at \in InLine /\ call[k] \in Deliveries /\ Head(lock[call[k].chat]) = k
      /\ CallOK(call[k], row, registry, launched, fate, controller)
  BY <1>1, StartingFacts, InLineFacts
<1>4. UNCHANGED <<controller, journal, seen, fate, taking, boot>> /\ launched' = Put(launched, m, n)
  BY <1>2 DEF Asked
<1>5. CASE registry' = registry /\ \E s \in {"queued", "failed"} : Unanswered(k, s)
  <2>1. PICK s \in {"queued", "failed"} : Unanswered(k, s)
    BY <1>5
  <2>2. registry' = Put(registry, m, g) /\ call[k].at # "launched"
    BY <1>1, <1>2, <1>5
  <2> QED BY <1>1, <1>2, <1>4, <2>1, <2>2, UnansweredReturns
<1>6. CASE registry' = registry /\ Known(m, call[k].request) = "accepted" /\ Answer(k, g.run)
  <2>1. g.state = "accepted"
    BY <1>2, <1>6 DEF Known
  <2>3. g.run \in 1..Turns(n)
    BY <2>1, <1>2 DEF RowOK
  <2>4. registry' = Put(registry, m, g)
    BY <1>2, <1>6
  <2> QED BY <1>1, <1>2, <1>4, <1>6, <2>3, <2>4, AnswerReturns
<1>7. CASE /\ Known(m, call[k].request) \notin {"accepted", "pending"}
           /\ call' = [call EXCEPT ![k].at = "start", ![k].blind = (boot # "up")]
           /\ IF boot = "up" THEN Intends(k) ELSE UNCHANGED registry
           /\ UNCHANGED <<row, lock, turn>>
  <2>1. PICK intent : intent = [request |-> call[k].request, state |-> "pending", run |-> 0]
    OBVIOUS
  <2>17. PICK h : h = IF boot = "up" THEN intent ELSE g
    OBVIOUS
  <2>2. PICK d : d = [call[k] EXCEPT !.at = "start", !.blind = (boot # "up")]
    OBVIOUS
  <2>3. PICK r : r = row[m]
    OBVIOUS
  <2>4. /\ registry' = Put(registry, m, h) /\ row' = Put(row, m, r) /\ lock' = lock
        /\ registry'[m] = h /\ row'[m] = r
    BY <1>2, <1>7, <2>1, <2>3, <2>17 DEF Put, MailInv, Intends
  <2>5. call' = Put(call, k, d)
    <3>1. call \in [Call -> Deliveries]
      BY DEF MailInv
    <3> QED BY <3>1, <1>7, <2>2, <1>3 DEF Put, Deliveries
  <2>6. /\ d.at = "start" /\ d.m = m /\ d.chat = call[k].chat /\ d.request = call[k].request
        /\ d.lease = call[k].lease /\ d.blind = (boot # "up") /\ d \in Deliveries
    <3>1. (boot # "up") \in BOOLEAN
      OBVIOUS
    <3> QED BY <3>1, <1>2, <1>3, <2>2 DEF Deliveries, InLine, Holding
  <2>7. r.passed # "held" => call[k].request = r.request
    BY <1>1, <1>2, <2>3 DEF OwnRequest
  <2>8. boot = "up" /\ r.passed # "held" =>
          /\ n.recorded = 0
          /\ \A o \in Call : call[o].m = m => ~Begun(call[o])
    BY <1>1, <1>2, <1>7, <2>3, NoneBegun
  <2>9. call[k].request \in Nat
    BY <1>3 DEF Deliveries
  <2>10. RowOK(m, r, h, n, fate, controller, journal, seen) /\ (boot = "up" => h.state = "pending")
    <3>1. CASE boot = "up"
      BY <1>2, <2>1, <2>3, <2>7, <2>9, <2>17, <3>1, IntentOK
    <3>2. CASE boot # "up"
      BY <1>2, <2>3, <2>17, <3>2
    <3> QED BY <3>1, <3>2
  <2>12. launched'[m] = n
    BY <1>2, <1>4 DEF Put, MailInv
  <2>13. d.at \in Holding /\ d.at \in InLine /\ d.at \in Starting
    BY <2>6 DEF Holding, InLine, Starting
  <2>14. CallOK(d, row', registry', launched', fate, controller)
    <3>1. /\ r.status # "absent"
          /\ r.to = Old => call[k].chat = Old
          /\ call[k].chat \in Chat
          /\ call[k].chat = New => controller = New
          /\ call[k].chat = Old /\ controller = New => r.passed # "no" \/ Failed(r, fate)
      BY <1>1, <1>2, <1>3, <2>3 DEF CallOK, Holding, InLine
    <3>2. r.passed # "held" => OwnRequest(d, r, h, n, fate)
      BY <2>6, <2>7, <2>8, <2>10 DEF OwnRequest
    <3>3. d.at \notin {"next", "publish", "launched"}
      BY <2>6
    <3> QED BY <1>2, <3>1, <3>2, <3>3, <2>4, <2>6, <2>12, <2>13 DEF CallOK
  <2>15. /\ Onward(row[m], r, fate, controller) /\ r.request = row[m].request
         /\ \A i \in 1..Turns(launched[m]) : i \in 1..Turns(n)
    BY <1>2, <2>3, OnwardSame
  <2>16. r = row[m] /\ d.at \in Starting /\ d.lease = call[k].lease
    BY <2>3, <2>6, <2>13
  <2>18. \/ h = registry[m] /\ n.recorded = launched[m].recorded
         \/ row[m].passed = "held"
         \/ \A o \in Call : o # k /\ call[o].m = m => ~Begun(call[o])
    BY <1>2, <2>3, <2>8, <2>17
  <2>19. Begun(d) /\ row[m].passed # "held" =>
           \A o \in Call : o # k /\ call[o].m = m => ~Begun(call[o])
    BY <2>3, <2>6, <2>8 DEF Begun
  <2> QED BY <1>2, <1>3, <1>4, <2>4, <2>5, <2>6, <2>10, <2>13, <2>14, <2>15, <2>16, <2>18, <2>19,
             GoesOn
<1>8. QED
  <2>1. g.run = registry[call[k].m].run /\ Known(m, call[k].request) = Known(call[k].m, call[k].request)
    BY <1>2
  <2> QED BY <2>1, <1>2, <1>5, <1>6, <1>7 DEF Asked

LEMMA LaunchesKeeps ==
  ASSUME MailInv, NEW k \in Call, Launches(k)
  PROVE  MailInv'
<1>1. call[k].at = "start" /\ call[k].at \in Starting
  BY DEF Launches, Starting
<1>2. PICK m, g, n :
        /\ m \in Msg /\ n \in Starts /\ m = call[k].m /\ g = registry[m] /\ n = launched[m]
        /\ RowOK(m, row[m], g, n, fate, controller, journal, seen)
        /\ registry = Put(registry, m, g) /\ launched = Put(launched, m, n)
        /\ row = Put(row, m, row[m])
        /\ call[k].request # 0 /\ row[m].status # "absent"
        /\ row[m].passed # "held" => OwnRequest(call[k], row[m], g, n, fate)
  BY <1>1, StartingFacts
<1>3. /\ call[k].at \in InLine /\ call[k] \in Deliveries /\ Head(lock[call[k].chat]) = k
      /\ CallOK(call[k], row, registry, launched, fate, controller)
  BY <1>1, StartingFacts, InLineFacts
<1>4. UNCHANGED <<controller, journal, seen, fate, taking, boot>> /\ lock' = lock
  BY DEF Launches
<1>16. PICK shut \in BOOLEAN : shut = (call[k].blind /\ boot # "up")
  OBVIOUS
<1>5. PICK d : d = [call[k] EXCEPT !.at = "launched", !.run = Turns(n) + 1, !.blind = shut]
  OBVIOUS
<1>6. PICK r, t : /\ r = row[m]
                  /\ t = IF shut THEN [n EXCEPT !.unrecorded = @ + 1]
                         ELSE [n EXCEPT !.recorded = @ + 1]
  OBVIOUS
<1>17. /\ t \in Starts /\ Turns(n) \in Nat /\ Turns(t) = Turns(n) + 1
       /\ t.recorded = IF shut THEN n.recorded ELSE n.recorded + 1
  <2>1. n.recorded \in Nat /\ n.unrecorded \in Nat
    BY <1>2 DEF Starts
  <2>2. CASE shut
    BY <2>1, <2>2, <1>2, <1>6 DEF Starts, Turns
  <2>3. CASE ~shut
    BY <2>1, <2>3, <1>2, <1>6 DEF Starts, Turns
  <2> QED BY <2>2, <2>3
<1>18. PICK h : /\ registry' = Put(registry, m, h)
                /\ \/ ~call[k].blind /\ h = g
                   \/ shut /\ h = g
                   \/ /\ call[k].blind /\ boot = "up" /\ ~Taken(k)
                      /\ h = [request |-> call[k].request, state |-> "pending", run |-> 0]
  <2>1. CASE registry' = registry /\ (~call[k].blind \/ shut)
    BY <2>1, <1>2
  <2>2. CASE call[k].blind /\ boot = "up" /\ ~Taken(k) /\ Intends(k)
    BY <2>2, <1>2 DEF Intends, Put
  <2> QED BY <2>1, <2>2, <1>16 DEF Launches
<1>7. /\ row' = Put(row, m, r) /\ launched' = Put(launched, m, t)
      /\ registry'[m] = h /\ row'[m] = r /\ launched'[m] = t
  <2>1. launched' = Put(launched, m, t)
    <3>1. launched \in [Msg -> Starts]
      BY DEF MailInv
    <3>2. launched' = IF shut THEN [launched EXCEPT ![m].unrecorded = @ + 1]
                      ELSE [launched EXCEPT ![m].recorded = @ + 1]
      BY <1>2, <1>16 DEF Launches
    <3> QED BY <3>1, <3>2, <1>2, <1>6 DEF Put, Starts
  <2>2. row' = Put(row, m, r)
    BY <1>2, <1>6 DEF Launches
  <2> QED BY <2>1, <2>2, <1>2, <1>18 DEF Put, MailInv
<1>8. call' = Put(call, k, d)
  <2>1. call \in [Call -> Deliveries]
    BY DEF MailInv
  <2>2. call' = [call EXCEPT ![k].at = "launched", ![k].run = Turns(n) + 1, ![k].blind = shut]
    BY <1>2, <1>16 DEF Launches
  <2> QED BY <2>1, <2>2, <1>5, <1>3 DEF Put, Deliveries
<1>9. /\ d.at = "launched" /\ d.m = m /\ d.chat = call[k].chat /\ d.request = call[k].request
      /\ d.lease = call[k].lease /\ d.blind = shut /\ d.run = Turns(n) + 1 /\ d \in Deliveries
  <2>1. Turns(n) + 1 \in Nat
    BY <1>17
  <2> QED BY <2>1, <1>2, <1>3, <1>5 DEF Deliveries, InLine, Holding
<1>10. r.passed # "held" => call[k].request = r.request
  BY <1>1, <1>2, <1>6 DEF OwnRequest
<1>19. r.passed # "held" /\ ~call[k].blind => g.state = "pending" /\ n.recorded = 0
  BY <1>1, <1>2, <1>6 DEF OwnRequest
<1>20. r.passed # "held" /\ call[k].blind /\ ~shut =>
         /\ n.recorded = 0
         /\ \A o \in Call : call[o].m = m => ~Begun(call[o])
  <2>1. SUFFICES ASSUME r.passed # "held", call[k].blind, ~shut
                 PROVE  n.recorded = 0 /\ \A o \in Call : call[o].m = m => ~Begun(call[o])
    OBVIOUS
  <2>2. boot = "up" /\ ~Taken(k)
    BY <2>1, <1>16, <1>18
  <2>3. Known(m, call[k].request) \notin {"accepted", "pending"}
    BY <2>2, <1>2 DEF Taken
  <2> QED BY <2>1, <2>2, <2>3, <1>1, <1>2, <1>6, NoneBegun
<1>21. \A i \in 1..Turns(n) : i \in 1..Turns(t)
  BY <1>17
<1>11. RowOK(m, r, h, t, fate, controller, journal, seen)
  <2>1. RowOK(m, r, h, n, fate, controller, journal, seen) /\ (~shut /\ r.passed # "held" => h.state = "pending")
    <3>1. CASE h = g
      BY <3>1, <1>2, <1>6, <1>18, <1>19 DEF Taken
    <3>2. CASE h = [request |-> call[k].request, state |-> "pending", run |-> 0]
      <4>1. call[k].request \in Nat
        BY <1>3 DEF Deliveries
      <4> QED BY <3>2, <4>1, <1>2, <1>6, <1>10, IntentOK
    <3> QED BY <3>1, <3>2, <1>18
  <2>2. r.passed # "held" => OneRequest(r, h, t)
    <3>1. SUFFICES ASSUME r.passed # "held" PROVE OneRequest(r, h, t)
      OBVIOUS
    <3>2. OneRequest(r, h, n)
      BY <2>1, <3>1 DEF RowOK
    <3>3. CASE shut
      BY <3>2, <3>3, <1>17 DEF OneRequest
    <3>4. CASE ~shut
      <4>1. t.recorded = 1 /\ h.state = "pending"
        BY <3>1, <3>4, <2>1, <1>17, <1>19, <1>20
      <4> QED BY <4>1, <3>2 DEF OneRequest
    <3> QED BY <3>3, <3>4
  <2>3. /\ h.state = "accepted" => h.run \in 1..Turns(t)
        /\ r.status = "delivered" =>
             \/ r.how = "started_run" /\ r.run \in 1..Turns(t)
             \/ r.how = "skipped" /\ (m \in seen \/ fate[r.to] = "closed"
                                        \/ (fate[Old] = "closed" /\ (r.failed \/ r.passed # "no")))
    BY <2>1, <1>21 DEF RowOK
  <2> QED BY <2>1, <2>2, <2>3, <1>17 DEF RowOK
<1>13. d.at \in Holding /\ d.at \in InLine /\ d.at \in Starting
  BY <1>9 DEF Holding, InLine, Starting
<1>14. CallOK(d, row', registry', launched', fate, controller)
  <2>1. /\ r.status # "absent"
        /\ r.to = Old => call[k].chat = Old
        /\ call[k].chat \in Chat
        /\ call[k].chat = New => controller = New
    BY <1>1, <1>2, <1>3, <1>6 DEF CallOK, Holding, InLine
  <2>2. r.passed # "held" => OwnRequest(d, r, h, t, fate)
    <3>1. SUFFICES ASSUME r.passed # "held" PROVE OwnRequest(d, r, h, t, fate)
      OBVIOUS
    <3>2. ~shut => h.state = "pending" /\ t.recorded = 1
      <4>1. SUFFICES ASSUME ~shut PROVE h.state = "pending" /\ t.recorded = 1
        OBVIOUS
      <4>2. CASE ~call[k].blind
        BY <3>1, <4>1, <4>2, <1>17, <1>18, <1>19
      <4>3. CASE call[k].blind
        BY <3>1, <4>1, <4>3, <1>17, <1>18, <1>20
      <4> QED BY <4>2, <4>3
    <3> QED BY <3>1, <3>2, <1>9, <1>10 DEF OwnRequest
  <2>3. d.run \in 1..Turns(t)
    BY <1>9, <1>17
  <2>4. d.at \notin {"next", "publish", "asked", "start"}
    BY <1>9
  <2> QED BY <1>2, <1>7, <1>9, <1>13, <2>1, <2>2, <2>3, <2>4 DEF CallOK
<1>15. /\ Onward(row[m], r, fate, controller) /\ r.request = row[m].request
       /\ r = row[m] /\ d.at \in Starting /\ d.lease = call[k].lease
       /\ \A i \in 1..Turns(launched[m]) : i \in 1..Turns(t)
  BY <1>2, <1>6, <1>9, <1>13, <1>21, OnwardSame
<1>22. ~call[k].blind /\ row[m].passed # "held" =>
         \A o \in Call : o # k /\ call[o].m = m => ~Begun(call[o])
  <2>1. ~call[k].blind => Begun(call[k])
    BY <1>1 DEF Begun
  <2> QED BY <2>1, <1>2 DEF MailInv, Alone
<1>23. \/ h = registry[m] /\ t.recorded = launched[m].recorded
       \/ row[m].passed = "held"
       \/ \A o \in Call : o # k /\ call[o].m = m => ~Begun(call[o])
  BY <1>2, <1>6, <1>16, <1>17, <1>18, <1>20, <1>22
<1>24. Begun(d) /\ row[m].passed # "held" =>
         \A o \in Call : o # k /\ call[o].m = m => ~Begun(call[o])
  BY <1>6, <1>9, <1>20, <1>22 DEF Begun
<1> QED BY <1>2, <1>3, <1>4, <1>7, <1>8, <1>9, <1>11, <1>13, <1>14, <1>15, <1>18, <1>23, <1>24,
           GoesOn

LEMMA BlockedKeeps ==
  ASSUME MailInv, NEW k \in Call, Blocked(k)
  PROVE  MailInv'
<1>1. call[k].at = "start" /\ call[k].at \in Starting
  BY DEF Blocked, Starting
<1>2. PICK m, g, n :
        /\ m \in Msg /\ n \in Starts /\ m = call[k].m /\ g = registry[m] /\ n = launched[m]
        /\ RowOK(m, row[m], g, n, fate, controller, journal, seen)
        /\ registry = Put(registry, m, g) /\ launched = Put(launched, m, n)
  BY <1>1, StartingFacts
<1>3. /\ UNCHANGED <<controller, journal, seen, fate, taking, boot>>
      /\ launched' = Put(launched, m, n) /\ registry' = Put(registry, m, g)
  BY <1>2 DEF Blocked, durable
<1>4. Unanswered(k, "failed")
  BY DEF Blocked
<1> QED BY <1>1, <1>2, <1>3, <1>4, UnansweredReturns

\* What becomes of the registry's entry when an answer is recorded.
LEMMA MarksFacts ==
  ASSUME MailInv, NEW k \in Call, NEW m \in Msg, NEW g, NEW n, NEW s, NEW run \in Nat,
         call[k].at \in {"start", "launched"}, call[k].m = m, g = registry[m], n = launched[m],
         Marks(k, s, run),
         \/ s = "accepted" /\ call[k].at = "launched" /\ run \in 1..Turns(n)
         \/ s = "refused" /\ call[k].at = "start"
  PROVE  \E h : /\ registry' = Put(registry, m, h) /\ (h = registry[m] \/ Begun(call[k]))
                /\ RowOK(m, row[m], h, n, fate, controller, journal, seen)
<1>1. call[k].at \in Starting
  BY DEF Starting
<1>2. /\ RowOK(m, row[m], g, n, fate, controller, journal, seen)
      /\ registry = Put(registry, m, g) /\ call[k].request # 0 /\ row[m].status # "absent"
      /\ row[m].passed # "held" => OwnRequest(call[k], row[m], g, n, fate)
  BY <1>1, StartingFacts
<1>3. CASE registry' = registry
  BY <1>2, <1>3
<1>4. CASE /\ ~call[k].blind /\ g.request = call[k].request
           /\ registry' = [registry EXCEPT ![m].state = s, ![m].run = run]
  <2>1. PICK h : h = [g EXCEPT !.state = s, !.run = run]
    OBVIOUS
  <2>2. g \in Entries /\ g.request # 0
    BY <1>2, <1>4 DEF RowOK
  <2>3. h.state = s /\ h.run = run /\ h.request = g.request /\ h \in Entries
    BY <2>1, <2>2 DEF Entries
  <2>4. registry' = Put(registry, m, h)
    <3>1. registry \in [Msg -> Entries]
      BY DEF MailInv
    <3> QED BY <3>1, <1>4, <2>1, <2>2 DEF Put, Entries
  <2>5. row[m].passed # "held" => OneRequest(row[m], h, n)
    <3>1. SUFFICES ASSUME row[m].passed # "held" PROVE OneRequest(row[m], h, n)
      OBVIOUS
    <3>2. OneRequest(row[m], g, n) /\ OwnRequest(call[k], row[m], g, n, fate)
      BY <3>1, <1>2 DEF RowOK
    <3>3. n.recorded = IF call[k].at = "launched" THEN 1 ELSE 0
      BY <3>2, <1>4 DEF OwnRequest
    <3> QED BY <3>2, <3>3, <2>2, <2>3 DEF OneRequest
  <2>6. RowOK(m, row[m], h, n, fate, controller, journal, seen)
    BY <1>2, <2>3, <2>5 DEF RowOK
  <2>7. Begun(call[k])
    BY <1>4 DEF Begun
  <2> QED BY <2>4, <2>6, <2>7
<1> QED BY <1>3, <1>4 DEF Marks

LEMMA AcceptsKeeps ==
  ASSUME MailInv, NEW k \in Call, Accepts(k)
  PROVE  MailInv'
<1>1. call[k].at = "launched" /\ call[k].at \in Starting
  BY DEF Accepts, Starting
<1>2. PICK m, g, n :
        /\ m \in Msg /\ n \in Starts /\ m = call[k].m /\ g = registry[m] /\ n = launched[m]
        /\ RowOK(m, row[m], g, n, fate, controller, journal, seen)
        /\ registry = Put(registry, m, g) /\ launched = Put(launched, m, n)
        /\ call[k].run \in 1..Turns(n)
  BY <1>1, StartingFacts
<1>3. UNCHANGED <<controller, journal, seen, fate, taking, boot>> /\ launched' = Put(launched, m, n)
  BY <1>2 DEF Accepts
<1>4. PICK run \in 1..Turns(n) : run = call[k].run /\ Answer(k, run)
  BY <1>2 DEF Accepts
<1>5. CASE registry' = registry
  <2>1. registry' = Put(registry, m, g)
    BY <1>2, <1>5
  <2> QED BY <1>1, <1>2, <1>3, <1>4, <2>1, AnswerReturns
<1>6. CASE Marks(k, "accepted", run)
  <2>1. run \in Nat
    BY <1>2 DEF Turns, Starts
  <2>2. PICK h : /\ registry' = Put(registry, m, h) /\ (h = registry[m] \/ Begun(call[k]))
                 /\ RowOK(m, row[m], h, n, fate, controller, journal, seen)
    BY <1>1, <1>2, <1>6, <2>1, MarksFacts
  <2> QED BY <1>1, <1>2, <1>3, <1>4, <2>2, AnswerReturns
<1> QED BY <1>4, <1>5, <1>6 DEF Accepts

LEMMA RefusedKeeps ==
  ASSUME MailInv, NEW k \in Call, Refused(k)
  PROVE  MailInv'
<1>1. call[k].at = "start" /\ call[k].at \in Starting
  BY DEF Refused, Starting
<1>2. PICK m, g, n :
        /\ m \in Msg /\ n \in Starts /\ m = call[k].m /\ g = registry[m] /\ n = launched[m]
        /\ registry = Put(registry, m, g) /\ launched = Put(launched, m, n)
  BY <1>1, StartingFacts
<1>3. UNCHANGED <<controller, journal, seen, fate, taking, boot>> /\ launched' = Put(launched, m, n)
  BY <1>2 DEF Refused
<1>4. Unanswered(k, "queued") /\ Marks(k, "refused", 0)
  BY DEF Refused
<1>5. PICK h : /\ registry' = Put(registry, m, h) /\ (h = registry[m] \/ Begun(call[k]))
               /\ RowOK(m, row[m], h, n, fate, controller, journal, seen)
  BY <1>1, <1>2, <1>4, MarksFacts
<1> QED BY <1>1, <1>2, <1>3, <1>4, <1>5, UnansweredReturns

LEMMA BreaksKeeps ==
  ASSUME MailInv, NEW k \in Call, Breaks(k)
  PROVE  MailInv'
<1>1. call[k].at \in Starting
  BY DEF Breaks, Starting
<1>2. PICK m, g, n :
        /\ m \in Msg /\ n \in Starts /\ m = call[k].m /\ g = registry[m] /\ n = launched[m]
        /\ RowOK(m, row[m], g, n, fate, controller, journal, seen)
        /\ registry = Put(registry, m, g) /\ launched = Put(launched, m, n)
  BY <1>1, StartingFacts
<1>3. /\ UNCHANGED <<controller, journal, seen, fate, taking, boot>>
      /\ launched' = Put(launched, m, n) /\ registry' = Put(registry, m, g)
  BY <1>2 DEF Breaks, durable
<1>4. Unanswered(k, "failed")
  BY DEF Breaks
<1> QED BY <1>1, <1>2, <1>3, <1>4, UnansweredReturns


-----------------------------------------------------------------------------
(* A delivery begins *)

\* A queued row that names the job's controller.
LEMMA QueuedHere ==
  ASSUME NEW m, NEW old, NEW r \in Rows, NEW g, NEW n,
         RowOK(m, old, g, n, fate, controller, journal, seen),
         r.status = "queued", r.to = controller, r.request = old.request, r.passed = old.passed
  PROVE  RowOK(m, r, g, n, fate, controller, journal, seen)
BY Places DEF RowOK, OneRequest

LEMMA RedirectedFacts ==
  ASSUME NEW r \in Rows, NEW c \in Chat
  PROVE  /\ Redirected(r, c) \in Rows /\ Redirected(r, c).status = r.status
         /\ Redirected(r, c).failed = r.failed /\ Redirected(r, c).request = r.request
         /\ Redirected(r, c).passed = r.passed
         /\ Redirected(r, c).to = IF r.status = "queued" THEN c ELSE r.to
         /\ r.status # "queued" => Redirected(r, c) = r
<1>1. Redirected(r, c) = IF r.status = "queued" THEN [r EXCEPT !.to = c] ELSE r
  BY DEF Redirected
<1> QED BY <1>1 DEF Rows

\* What is written to the row of a message when a delivery of it begins.
LEMMA NowOK ==
  ASSUME MailInv, NEW m \in Msg, NEW r,
         r = row[m] \/ /\ r \in Rows /\ r.status = "queued" /\ r.request = row[m].request
                       /\ r.passed = row[m].passed
                       /\ row[m].failed => r.failed
  PROVE  LET now == Redirected(r, controller) IN
         /\ RowOK(m, now, registry[m], launched[m], fate, controller, journal, seen)
         /\ Onward(row[m], now, fate, controller)
         /\ now.request = row[m].request
         /\ now.status = "queued" => now.to = controller
         /\ row[m].status = "queued" => now.status = "queued"
         /\ now.status = "dispatching" => now = row[m]
<1>1. /\ RowOK(m, row[m], registry[m], launched[m], fate, controller, journal, seen)
      /\ controller \in Chat /\ row[m] \in Rows
  BY Places DEF MailInv, Journal, Chat
<1>2. r \in Rows
  BY <1>1
<1>3. PICK now : now = Redirected(r, controller)
  OBVIOUS
<1>4. /\ now \in Rows /\ now.status = r.status /\ now.failed = r.failed
      /\ now.request = r.request /\ now.to = IF r.status = "queued" THEN controller ELSE r.to
      /\ now.passed = r.passed
      /\ r.status # "queued" => now = r
  BY <1>1, <1>2, <1>3, RedirectedFacts
<1>5. CASE r.status = "queued"
  <2>1. RowOK(m, now, registry[m], launched[m], fate, controller, journal, seen)
    BY <1>1, <1>4, <1>5, QueuedHere
  <2>2. row[m].to = New => controller = New
    BY <1>1 DEF RowOK
  <2>3. row[m].to \in Chat
    BY <1>1 DEF Rows
  <2>4. now.to = Old => row[m].to = Old
    BY <2>2, <2>3, <1>4, <1>5, Places
  <2>5. Onward(row[m], now, fate, controller)
    BY <2>4, <1>4, <1>5, Places DEF Onward
  <2> QED BY <2>1, <2>5, <1>3, <1>4, <1>5
<1>6. CASE r.status # "queued"
  <2>1. now = row[m] /\ now.status # "queued"
    BY <1>4, <1>6
  <2> QED BY <2>1, <1>1, <1>3, OnwardSame
<1> QED BY <1>5, <1>6

LEMMA Enters ==
  ASSUME MailInv, NEW k \in Call, NEW m \in Msg, NEW r, NEW g, NEW n,
         NEW retry \in BOOLEAN, NEW todo \in Seq(Msg), call[k].at \in {"idle", "next"},
         r = row[m] \/ /\ r \in Rows /\ r.status = "queued" /\ r.request = row[m].request
                       /\ r.passed = row[m].passed
                       /\ row[m].failed => r.failed,
         Enter(k, m, r, retry, todo),
         g = registry[m], n = launched[m],
         registry' = Put(registry, m, g), launched' = Put(launched, m, n),
         UNCHANGED <<controller, journal, seen, fate, taking, boot>>
  PROVE  MailInv'
<1>1. PICK now : now = Redirected(r, controller)
  OBVIOUS
<1>2. /\ RowOK(m, now, g, n, fate, controller, journal, seen)
      /\ Onward(row[m], now, fate, controller)
      /\ now.request = row[m].request
      /\ now.status = "queued" => now.to = controller
      /\ row[m].status = "queued" => now.status = "queued"
      /\ now.status = "dispatching" => now = row[m]
  BY <1>1, NowOK
<1>3. PICK d : d = [NoCall EXCEPT !.at = "wait", !.m = m, !.chat = now.to, !.retry = retry,
                                  !.todo = todo]
  OBVIOUS
<1>4. /\ row' = Put(row, m, now) /\ call' = Put(call, k, d)
      /\ lock' = [lock EXCEPT ![now.to] = Append(@, k)]
  BY <1>1, <1>3 DEF Enter, Put
<1>5. now.to \in Chat
  BY <1>2 DEF RowOK, Rows
<1>6. /\ d.at = "wait" /\ d.m = m /\ d.chat = now.to /\ d \in Deliveries
      /\ d.at \notin Holding /\ d.at \notin Starting /\ ~Begun(d)
  BY <1>3, <1>5 DEF NoCall, Deliveries, InLine, Holding, Starting, Begun
<1>7. CallOK(d, row', registry', launched', fate, controller)
  <2>1. now.to = New => controller = New
    BY <1>2 DEF RowOK
  <2> QED BY <2>1, <1>5, <1>6 DEF CallOK, InLine
<1>8. call[k].at \notin InLine
  BY DEF InLine, Holding
<1>9. Lines(call', lock', taking')
  <2>1. Lines(call, lock, taking) /\ call \in [Call -> Deliveries] /\ taking' = taking
    BY DEF MailInv
  <2>2. call' = [call EXCEPT ![k] = d]
    BY <1>4 DEF Put
  <2> QED BY <2>1, <2>2, <1>4, <1>5, <1>6, <1>8, EnterLines
<1>10. row'[m] = now /\ \A x \in Msg : x # m => row'[x] = row[x]
  BY <1>4 DEF MailInv, Put
<1>11. call'[k] = d /\ \A o \in Call : o # k => call'[o] = call[o]
  BY <1>4 DEF MailInv, Put
<1>12. Leased(row', call', boot)
  <2>1. SUFFICES ASSUME boot \in {"reconciled", "up"}, NEW x \in Msg, row'[x].status = "dispatching"
                 PROVE  \E o \in Call : /\ call'[o].at \in Starting /\ call'[o].m = x
                                        /\ call'[o].lease = row'[x].lease
    BY DEF Leased
  <2>2. row'[x] = row[x]
    BY <2>1, <1>2, <1>10
  <2>3. PICK o \in Call : call[o].at \in Starting /\ call[o].m = x /\ call[o].lease = row[x].lease
    BY <2>1, <2>2 DEF MailInv, Leased
  <2>4. o # k
    BY <2>3 DEF Starting
  <2> QED BY <2>2, <2>3, <2>4, <1>11
<1>13. Alone(call', row')
  <2>1. Alone(call, row)
    BY DEF MailInv
  <2>2. \A o \in Call : Begun(call[o]) => call[o].m \in Msg
    BY DEF MailInv, CallOK, Begun, InLine, Holding
  <2>3. \A x \in Msg : row'[x].passed = row[x].passed
    BY <1>2, <1>10 DEF Onward
  <2> QED BY <2>1, <2>2, <2>3, <1>6, <1>11 DEF Alone
<1>14. \A o \in Call : o # k /\ call[o].at \in Holding /\ call[o].m = m =>
         CallOK(call[o], row', registry', launched', fate, controller)
  <2>1. SUFFICES ASSUME NEW o \in Call, o # k, call[o].at \in Holding, call[o].m = m
                 PROVE  CallOK(call[o], row', registry', launched', fate, controller)
    OBVIOUS
  <2>2. \/ now.request = row[m].request
        \/ /\ call[k].at = "publish" /\ call[k].m = m /\ fate[call[k].chat] = "open"
           /\ now.request = call[k].request
    BY <1>2
  <2>3. row[m].passed # "held" /\ Begun(call[o]) =>
          g = registry[m] /\ n.recorded = launched[m].recorded
    OBVIOUS
  <2>4. \A i \in 1..Turns(launched[m]) : i \in 1..Turns(n)
    OBVIOUS
  <2> QED BY <1>2, <1>4, <2>1, <2>2, <2>3, <2>4, OthersKept
<1>15. /\ row[m].request # 0 => now.request # 0
       /\ d.at = "wait" => d.m = m /\ (now.status = "queued" => now.to = controller)
  BY <1>2, <1>6
<1> QED BY <1>2, <1>4, <1>7, <1>9, <1>12, <1>13, <1>14, <1>15, OneStep


LEMMA QueuedForFacts ==
  ASSUME NEW c
  PROVE  QueuedFor(c) \in Seq(Msg)
<1>1. Messages \in Nat /\ [m \in Msg |-> m] \in Seq(Msg)
  BY MailboxConstants DEF Msg
<1> QED BY <1>1, FilterFacts DEF QueuedFor

\* The store or the takeover moves on, and no delivery does.
LEMMA SideStep ==
  ASSUME MailInv, registry' = registry, launched' = launched, call' = call,
         boot' \in {"reconciled", "up"} =>
           boot \in {"reconciled", "up"} \/ \A m \in Msg : row'[m].status # "dispatching",
         Journal', row' \in [Msg -> Rows], Lines(call, lock', taking'),
         journal' = "rows" /\ taking' = "no" => journal = "rows" /\ taking = "no",
         \A m \in Msg :
           /\ RowOK(m, row'[m], registry[m], launched[m], fate', controller', journal', seen')
           /\ Onward(row[m], row'[m], fate', controller')
           /\ row[m].status = "queued" => row'[m].status = "queued"
           /\ row'[m].request = row[m].request
           /\ row'[m].status = "dispatching" => row'[m] = row[m],
         \A c \in Chat : fate[c] = "gone" => fate'[c] = "gone",
         \/ controller' = controller
         \/ controller' = New /\ \A k \in Call : call[k].at \notin Holding
  PROVE  MailInv'
<1>1. \A m \in Msg :
        RowOK(m, row'[m], registry'[m], launched'[m], fate', controller', journal', seen')
  OBVIOUS
<1>2. /\ registry' \in [Msg -> Entries] /\ launched' \in [Msg -> Starts]
      /\ call' \in [Call -> Deliveries] /\ Lines(call', lock', taking')
  BY DEF MailInv
<1>3. Leased(row', call', boot')
  <2>1. Leased(row, call, boot)
    BY DEF MailInv
  <2> QED BY <2>1 DEF Leased
<1>4. Alone(call', row')
  <2>1. Alone(call, row)
    BY DEF MailInv
  <2>2. \A o \in Call : Begun(call[o]) => call[o].m \in Msg
    BY DEF MailInv, CallOK, Begun, InLine, Holding
  <2>3. \A x \in Msg : row'[x].passed = row[x].passed
    BY DEF Onward
  <2> QED BY <2>1, <2>2, <2>3 DEF Alone
<1>6. ASSUME NEW m \in Msg
      PROVE  /\ Failed(row[m], fate) => Failed(row'[m], fate')
             /\ Left(row[m], fate) => Left(row'[m], fate')
  <2>1. /\ Onward(row[m], row'[m], fate', controller')
        /\ row[m].request # 0 => row'[m].request # 0
    OBVIOUS
  <2>2. /\ Failed(row[m], fate') => Failed(row'[m], fate')
        /\ Left(row[m], fate') => Left(row'[m], fate')
    BY <2>1, OnwardLeft
  <2>3. fate[Old] = "gone" => fate'[Old] = "gone"
    BY Places
  <2> QED BY <2>2, <2>3 DEF Failed, Left
<1>5. ASSUME NEW k \in Call
      PROVE  CallOK(call'[k], row', registry', launched', fate', controller')
  <2>1. CallOK(call[k], row, registry, launched, fate, controller)
    BY DEF MailInv
  <2>2. PICK d : d = call[k]
    OBVIOUS
  <2>3. CASE d.at \notin Holding
    <3>1. d.at \notin {"publish", "asked", "start", "launched"}
      BY <2>3 DEF Holding
    <3> QED BY <2>1, <2>2, <2>3, <3>1 DEF CallOK
  <2>4. CASE d.at \in Holding
    <3>1. controller' = controller
      BY <2>2, <2>4
    <3>2. d.m \in Msg /\ d.chat \in Chat
      BY <2>1, <2>2, <2>4 DEF CallOK, InLine
    <3>3. PICK m \in Msg : m = d.m
      BY <3>2
    <3>4. /\ row'[m].to = Old => row[m].to = Old
          /\ row[m].status # "absent" => row'[m].status # "absent"
          /\ row'[m].passed = row[m].passed
          /\ row'[m].request = row[m].request
          /\ row[m].status = "queued" => row'[m].status = "queued"
          /\ Failed(row[m], fate) => Failed(row'[m], fate')
      BY <1>6 DEF Onward
    <3>5. fate[d.chat] = "gone" => fate'[d.chat] = "gone"
      BY <3>2
    <3>7. OwnRequest(d, row[m], registry[m], launched[m], fate) =>
            OwnRequest(d, row'[m], registry[m], launched[m], fate')
      BY <3>4, <3>5 DEF OwnRequest
    <3>6. CallOK(d, row', registry, launched, fate', controller)
      BY <2>1, <2>2, <3>3, <3>4, <3>7 DEF CallOK
    <3> QED BY <2>2, <3>1, <3>6
  <2> QED BY <2>3, <2>4
<1>7. Early(call', row', fate', journal', taking')
  <2>1. SUFFICES ASSUME journal' = "rows", taking' = "no", NEW o \in Call,
                        call[o].at = "wait", call[o].chat = Old,
                        row'[call[o].m].status = "queued", row'[call[o].m].to = Old
                 PROVE  Left(row'[call[o].m], fate')
    BY DEF Early
  <2>2. controller' = New
    BY <2>1 DEF Journal
  <2>3. call[o].m \in Msg
    BY <2>1 DEF MailInv, CallOK, InLine
  <2>4. PICK m \in Msg : m = call[o].m
    BY <2>3
  <2>5. (row[m].status = "queued" /\ row[m].to = Old) \/ Left(row'[m], fate')
    BY <2>1, <2>2, <2>4 DEF Onward
  <2>6. row[m].status = "queued" /\ row[m].to = Old => Left(row[m], fate)
    BY <2>1, <2>4 DEF MailInv, Early
  <2> QED BY <2>4, <2>5, <2>6, <1>6
<1> QED BY <1>1, <1>2, <1>3, <1>4, <1>5, <1>7 DEF MailInv

LEMMA StartDrainKeeps ==
  ASSUME MailInv, NEW k \in Call, NEW c \in Chat, StartDrain(k, c),
         UNCHANGED <<registry, launched, controller, journal, seen, fate, taking, boot>>
  PROVE  MailInv'
<1>1. QueuedFor(c) \in Seq(Msg) /\ QueuedFor(c) # <<>>
  BY QueuedForFacts DEF StartDrain
<1>2. PICK m \in Msg, todo \in Seq(Msg) : m = Head(QueuedFor(c)) /\ todo = Tail(QueuedFor(c))
  <2>1. PICK q \in Seq(Msg) : q = QueuedFor(c) /\ q # <<>>
    BY <1>1
  <2>2. Head(q) \in Msg /\ Tail(q) \in Seq(Msg)
    BY <2>1
  <2> QED BY <2>1, <2>2
<1>3. PICK r, g, n : r = row[m] /\ g = registry[m] /\ n = launched[m]
  OBVIOUS
<1>4. Enter(k, m, r, FALSE, todo) /\ call[k].at \in {"idle", "next"} /\ FALSE \in BOOLEAN
  BY <1>2, <1>3 DEF StartDrain, Free
<1>5. registry' = Put(registry, m, g) /\ launched' = Put(launched, m, n)
  BY <1>3 DEF MailInv, Put
<1>6. UNCHANGED <<controller, journal, seen, fate, taking, boot>>
  OBVIOUS
<1> QED BY <1>3, <1>4, <1>5, <1>6, Enters


LEMMA NextOfDrainKeeps ==
  ASSUME MailInv, NEW k \in Call, NextOfDrain(k)
  PROVE  MailInv'
<1>1. /\ call[k].at = "next" /\ call[k].todo \in Seq(Msg) /\ call[k].todo # <<>>
      /\ call[k].retry \in BOOLEAN
  <2>1. call[k].at = "next" /\ CallOK(call[k], row, registry, launched, fate, controller)
    BY DEF NextOfDrain, MailInv
  <2> QED BY <2>1 DEF CallOK, Deliveries
<1>2. PICK q \in Seq(Msg) : q = call[k].todo /\ q # <<>>
  BY <1>1
<1>3. PICK m \in Msg, todo \in Seq(Msg) : m = Head(q) /\ todo = Tail(q)
  <2>1. Head(q) \in Msg /\ Tail(q) \in Seq(Msg)
    BY <1>2
  <2> QED BY <2>1
<1>4. PICK r, g, n : r = row[m] /\ g = registry[m] /\ n = launched[m]
  OBVIOUS
<1>5. PICK retry \in BOOLEAN : retry = call[k].retry
  BY <1>1
<1>6. Enter(k, m, r, retry, todo)
  BY <1>2, <1>3, <1>4, <1>5 DEF NextOfDrain
<1>7. registry' = Put(registry, m, g) /\ launched' = Put(launched, m, n)
  BY <1>4 DEF MailInv, Put, NextOfDrain, durable
<1>8. UNCHANGED <<controller, journal, seen, fate, taking, boot>>
  BY DEF NextOfDrain, durable
<1>9. call[k].at \in {"idle", "next"}
  BY <1>1
<1> QED BY <1>4, <1>6, <1>7, <1>8, <1>9, Enters

LEMMA ReplayKeeps ==
  ASSUME MailInv, NEW k \in Call, NEW m \in Msg, Replay(k, m)
  PROVE  MailInv'
<1>1. PICK r, g, n, todo : r = row[m] /\ g = registry[m] /\ n = launched[m] /\ todo = <<>>
  OBVIOUS
<1>2. /\ Enter(k, m, r, FALSE, todo) /\ call[k].at \in {"idle", "next"}
      /\ FALSE \in BOOLEAN /\ todo \in Seq(Msg)
  <2>1. Enter(k, m, r, FALSE, todo)
    BY <1>1, Zenon DEF Replay
  <2>2. todo \in Seq(Msg)
    BY <1>1
  <2> QED BY <2>1, <2>2 DEF Replay, Free
<1>3. registry' = Put(registry, m, g) /\ launched' = Put(launched, m, n)
  BY <1>1 DEF MailInv, Put, Replay, durable
<1>4. UNCHANGED <<controller, journal, seen, fate, taking, boot>>
  BY DEF Replay, durable
<1> QED BY <1>1, <1>2, <1>3, <1>4, Enters

\* A step that does nothing but write the row of one message.
LEMMA RowStep ==
  ASSUME MailInv, NEW m \in Msg, NEW r,
         row' = Put(row, m, r), registry' = registry, launched' = launched,
         UNCHANGED <<call, lock, controller, journal, seen, fate, taking, boot>>,
         RowOK(m, r, registry[m], launched[m], fate, controller, journal, seen),
         Onward(row[m], r, fate, controller), row[m].status = "queued" => r.status = "queued",
         r.request = row[m].request, r.status # "dispatching"
  PROVE  MailInv'
<1>1. r \in Rows
  BY DEF RowOK
<1>2. row'[m] = r /\ (\A x \in Msg : x # m => row'[x] = row[x]) /\ row' \in [Msg -> Rows]
  BY <1>1 DEF MailInv, Put
<1>3. Journal' /\ Lines(call, lock', taking')
  BY DEF MailInv, Journal
<1>4. ASSUME NEW x \in Msg
      PROVE  /\ RowOK(x, row'[x], registry[x], launched[x], fate', controller', journal', seen')
             /\ Onward(row[x], row'[x], fate', controller')
             /\ row[x].status = "queued" => row'[x].status = "queued"
             /\ row'[x].request = row[x].request
             /\ row'[x].status = "dispatching" => row'[x] = row[x]
  <2>1. RowOK(x, row[x], registry[x], launched[x], fate, controller, journal, seen)
    BY DEF MailInv
  <2>2. CASE x = m
    BY <2>2, <1>2
  <2>3. CASE x # m
    BY <2>1, <2>3, <1>2, OnwardSame
  <2> QED BY <2>2, <2>3
<1>5. controller' = controller /\ \A c \in Chat : fate[c] = "gone" => fate'[c] = "gone"
  OBVIOUS
<1>6. call' = call /\ boot' = boot /\ journal' = journal /\ taking' = taking
  OBVIOUS
<1> QED BY <1>2, <1>3, <1>4, <1>5, <1>6, SideStep

LEMMA RetryKeeps ==
  ASSUME MailInv, NEW k \in Call, NEW m \in Msg, Retry(k, m)
  PROVE  MailInv'
<1>1. /\ RowOK(m, row[m], registry[m], launched[m], fate, controller, journal, seen)
      /\ row[m] \in Rows
  BY DEF MailInv
<1>2. UNCHANGED <<controller, journal, seen, fate, taking, boot>>
  BY DEF Retry, durable
<1>6. row[m].status \in {"failed", "uncertain"}
  BY DEF Retry
<1>3. CASE /\ Proven(m)
           /\ row' = [row EXCEPT ![m] = Delivered(@, registry[m].run)]
           /\ UNCHANGED <<call, lock>>
  <2>1. registry[m].state = "accepted"
    BY <1>3 DEF Proven, Lookup, Known
  <2>2. PICK run \in 1..Turns(launched[m]) : registry[m].run = run
    BY <2>1, <1>1 DEF RowOK
  <2>8. run \in Nat
    BY <1>1 DEF RowOK, Starts, Turns
  <2>3. PICK s : s = Delivered(row[m], registry[m].run)
    OBVIOUS
  <2>4. /\ s.to = row[m].to /\ s.failed = row[m].failed /\ s.request = row[m].request
        /\ s.status = "delivered" /\ s.how = "started_run" /\ s.run = run /\ s \in Rows
        /\ s.passed = row[m].passed
    <3>1. s = Delivered(row[m], run) /\ run \in Nat
      BY <2>2, <2>3, <2>8
    <3> QED BY <3>1, <1>1 DEF Delivered, Rows, Status
  <2>5. RowOK(m, s, registry[m], launched[m], fate, controller, journal, seen)
    <3>1. s.run \in 1..Turns(launched[m])
      BY <2>2, <2>4
    <3> QED BY <3>1, <1>1, <2>4 DEF RowOK, OneRequest
  <2>9. Onward(row[m], s, fate, controller) /\ row[m].status # "queued" /\ s.status # "dispatching"
    BY <2>4, <1>6 DEF Onward
  <2>6. row' = Put(row, m, s) /\ registry' = registry /\ launched' = launched
    BY <1>3, <2>3 DEF Put, Retry, durable
  <2>7. UNCHANGED <<call, lock, controller, journal, seen, fate, taking, boot>>
    BY <1>2, <1>3
  <2> QED BY <2>4, <2>5, <2>6, <2>7, <2>9, RowStep
<1>4. CASE Free(k) /\ Enter(k, m, Is(row[m], "queued"), TRUE, <<>>)
  <2>1. PICK r, g, n, todo : /\ r = Is(row[m], "queued") /\ todo = <<>>
                             /\ g = registry[m] /\ n = launched[m]
    OBVIOUS
  <2>2. "queued" \in Status
    BY DEF Status
  <2>3. /\ r \in Rows /\ r.status = "queued" /\ r.request = row[m].request
        /\ r.passed = row[m].passed
        /\ row[m].failed => r.failed
    BY <2>1, <2>2, <1>1, IsFacts
  <2>4. /\ Enter(k, m, r, TRUE, todo) /\ call[k].at \in {"idle", "next"}
        /\ TRUE \in BOOLEAN /\ todo \in Seq(Msg)
    <3>1. Enter(k, m, r, TRUE, todo)
      BY <1>4, <2>1, Zenon
    <3>2. todo \in Seq(Msg)
      BY <2>1
    <3> QED BY <3>1, <3>2, <1>4 DEF Free
  <2>5. registry' = Put(registry, m, g) /\ launched' = Put(launched, m, n)
    BY <2>1 DEF MailInv, Put, Retry, durable
  <2> QED BY <1>2, <2>1, <2>3, <2>4, <2>5, Enters
<1> QED BY <1>3, <1>4 DEF Retry

LEMMA PostKeeps ==
  ASSUME MailInv, NEW m \in Msg, NEW to \in Chat, Post(m, to)
  PROVE  MailInv'
<1>1. /\ RowOK(m, row[m], registry[m], launched[m], fate, controller, journal, seen)
      /\ row[m] \in Rows /\ row[m].status = "absent"
  BY DEF MailInv, Post
<1>2. UNCHANGED <<controller, journal, seen, fate, taking, boot>>
  BY DEF Post
<1>3. row[m].request = 0 /\ ~row[m].failed /\ row[m].passed = "no"
  BY <1>1 DEF RowOK
<1>4. PICK r : r = [Blank EXCEPT !.status = "queued", !.to = to]
  OBVIOUS
<1>5. r \in Rows /\ r.status = "queued" /\ r.request = 0 /\ r.passed = "no"
  BY <1>4 DEF Blank, Rows, Status
<1>6. CASE row' = [row EXCEPT ![m] = Redirected(r, controller)] /\ UNCHANGED <<call, lock>>
  <2>1. PICK now : now = Redirected(r, controller)
    OBVIOUS
  <2>2. /\ RowOK(m, now, registry[m], launched[m], fate, controller, journal, seen)
        /\ Onward(row[m], now, fate, controller)
        /\ now.request = row[m].request
        /\ row[m].status = "queued" => now.status = "queued"
        /\ now.status = "dispatching" => now = row[m]
    BY <2>1, <1>3, <1>5, NowOK
  <2>3. row' = Put(row, m, now) /\ registry' = registry /\ launched' = launched
    BY <1>6, <2>1 DEF Put, Post
  <2>4. now.status # "dispatching"
    BY <2>2, <1>1
  <2>5. UNCHANGED <<call, lock, controller, journal, seen, fate, taking, boot>>
    BY <1>2, <1>6
  <2> QED BY <2>2, <2>3, <2>4, <2>5, RowStep
<1>7. ASSUME NEW k \in Call, Free(k), Enter(k, m, r, FALSE, <<>>)
      PROVE  MailInv'
  <2>1. PICK g, n, todo : g = registry[m] /\ n = launched[m] /\ todo = <<>>
    OBVIOUS
  <2>2. /\ Enter(k, m, r, FALSE, todo) /\ call[k].at \in {"idle", "next"}
        /\ FALSE \in BOOLEAN /\ todo \in Seq(Msg)
    <3>1. Enter(k, m, r, FALSE, todo)
      BY <1>7, <2>1, Zenon
    <3>2. todo \in Seq(Msg)
      BY <2>1
    <3> QED BY <3>1, <3>2, <1>7 DEF Free
  <2>3. registry' = Put(registry, m, g) /\ launched' = Put(launched, m, n)
    BY <2>1 DEF MailInv, Put, Post
  <2> QED BY <1>2, <1>3, <1>5, <2>1, <2>2, <2>3, Enters
<1> QED BY <1>4, <1>6, <1>7 DEF Post


LEMMA DrainKeeps ==
  ASSUME MailInv, NEW k \in Call, NEW c \in Chat, Drain(k, c)
  PROVE  MailInv'
<1>1. StartDrain(k, c) /\ UNCHANGED <<registry, launched, controller, journal, seen, fate, taking, boot>>
  BY DEF Drain, durable
<1> QED BY <1>1, StartDrainKeeps

-----------------------------------------------------------------------------
(* Steps beside the deliveries *)

\* A step that writes no row.
LEMMA RowsStay ==
  ASSUME MailInv, UNCHANGED <<row, registry, launched, call>>,
         boot' \in {"reconciled", "up"} => boot \in {"reconciled", "up"},
         Journal', Lines(call, lock', taking'),
         journal' = "rows" /\ taking' = "no" => journal = "rows" /\ taking = "no",
         \A m \in Msg :
           RowOK(m, row[m], registry[m], launched[m], fate', controller', journal', seen'),
         \A c \in Chat : fate[c] = "gone" => fate'[c] = "gone",
         \/ controller' = controller
         \/ controller' = New /\ \A k \in Call : call[k].at \notin Holding
  PROVE  MailInv'
<1>1. row' \in [Msg -> Rows]
  BY DEF MailInv
<1>2. \A m \in Msg :
        /\ RowOK(m, row'[m], registry[m], launched[m], fate', controller', journal', seen')
        /\ Onward(row[m], row'[m], fate', controller')
        /\ row[m].status = "queued" => row'[m].status = "queued"
        /\ row'[m].request = row[m].request
        /\ row'[m].status = "dispatching" => row'[m] = row[m]
  BY OnwardSame
<1>3. registry' = registry /\ launched' = launched /\ call' = call
  OBVIOUS
<1> QED BY <1>1, <1>2, <1>3, SideStep

\* A step that touches nothing the invariant speaks of.
LEMMA NothingMoves ==
  ASSUME MailInv, UNCHANGED <<row, durable, call, lock, taking, boot, launched>>
  PROVE  MailInv'
BY DEF MailInv, Journal, durable

LEMMA TurnEndsKeeps ==
  ASSUME MailInv, NEW c \in Chat, TurnEnds(c)
  PROVE  MailInv'
<1>1. CASE \E k \in Call : StartDrain(k, c)
  <2>1. PICK k \in Call : StartDrain(k, c)
    BY <1>1
  <2>2. UNCHANGED <<registry, launched, controller, journal, seen, fate, taking, boot>>
    BY DEF TurnEnds, durable
  <2> QED BY <2>1, <2>2, StartDrainKeeps
<1>2. CASE UNCHANGED <<row, call, lock>>
  BY <1>2, NothingMoves DEF TurnEnds
<1> QED BY <1>1, <1>2 DEF TurnEnds

LEMMA TimesOutKeeps ==
  ASSUME MailInv, NEW m \in Msg, TimesOut(m)
  PROVE  MailInv'
<1>1. /\ RowOK(m, row[m], registry[m], launched[m], fate, controller, journal, seen)
      /\ row[m].status = "dispatching"
  BY DEF MailInv, TimesOut
<1>2. PICK r : r = Is(row[m], "uncertain")
  OBVIOUS
<1>3. row[m].request # 0
  BY <1>1 DEF RowOK
<1>4. /\ RowOK(m, r, registry[m], launched[m], fate, controller, journal, seen)
      /\ Onward(row[m], r, fate, controller)
      /\ r.status # "dispatching" /\ r.request = row[m].request
  BY <1>1, <1>2, <1>3, IsOK
<1>5. /\ row' = Put(row, m, r) /\ registry' = registry /\ launched' = launched
      /\ UNCHANGED <<call, lock, controller, journal, seen, fate, taking, boot>>
  BY <1>2 DEF TimesOut, Put, durable, volatile
<1> QED BY <1>1, <1>4, <1>5, RowStep

LEMMA AcknowledgeKeeps ==
  ASSUME MailInv, NEW m \in Msg, Acknowledge(m)
  PROVE  MailInv'
<1>1. /\ UNCHANGED <<row, registry, launched, call, lock, taking, boot, controller, journal,
                  fate>>
      /\ seen' = seen \cup {m}
  BY DEF Acknowledge, volatile
<1>2. Journal' /\ Lines(call, lock', taking')
  BY <1>1 DEF MailInv, Journal
<1>3. \A x \in Msg :
        RowOK(x, row[x], registry[x], launched[x], fate', controller', journal', seen')
  <2>1. SUFFICES ASSUME NEW x \in Msg
                 PROVE  RowOK(x, row[x], registry[x], launched[x], fate, controller, journal, seen')
    BY <1>1
  <2>2. RowOK(x, row[x], registry[x], launched[x], fate, controller, journal, seen)
    BY DEF MailInv
  <2> QED BY <2>2, <1>1 DEF RowOK
<1>4. controller' = controller /\ \A c \in Chat : fate[c] = "gone" => fate'[c] = "gone"
  BY <1>1
<1>5. UNCHANGED <<row, registry, launched, call, boot, journal, taking>>
  BY <1>1
<1> QED BY <1>2, <1>3, <1>4, <1>5, RowsStay

LEMMA FateChangesKeeps ==
  ASSUME MailInv, NEW c \in Chat, FateChanges(c)
  PROVE  MailInv'
<1>1. UNCHANGED <<row, registry, launched, call, lock, taking, boot, controller, journal, seen>>
  BY DEF FateChanges, volatile
<1>2. PICK new \in {"closed", "gone"} : fate' = [fate EXCEPT ![c] = new]
  BY DEF FateChanges
<1>3. fate \in [Chat -> {"open", "closed", "gone"}] /\ fate[c] = "open"
  BY DEF FateChanges, MailInv, Journal
<1>4. /\ fate' \in [Chat -> {"open", "closed", "gone"}]
      /\ \A x \in Chat : fate[x] \in {"closed", "gone"} => fate'[x] = fate[x]
  BY <1>2, <1>3
<1>5. Journal' /\ Lines(call, lock', taking')
  BY <1>1, <1>4 DEF MailInv, Journal
<1>6. \A x \in Msg :
        RowOK(x, row[x], registry[x], launched[x], fate', controller', journal', seen')
  <2>1. SUFFICES ASSUME NEW x \in Msg
                 PROVE  RowOK(x, row[x], registry[x], launched[x], fate', controller, journal, seen)
    BY <1>1
  <2>2. RowOK(x, row[x], registry[x], launched[x], fate, controller, journal, seen)
    BY DEF MailInv
  <2>3. fate[Old] = "gone" => fate'[Old] = "gone"
    BY <1>4, Places
  <2>4. \A y \in Chat : fate[y] = "closed" => fate'[y] = "closed"
    BY <1>4
  <2>5. row[x].to \in Chat /\ Old \in Chat
    BY <2>2, Places DEF RowOK, Rows, Chat
  <2> QED BY <2>2, <2>3, <2>4, <2>5 DEF RowOK, Failed, Left
<1>7. controller' = controller /\ \A x \in Chat : fate[x] = "gone" => fate'[x] = "gone"
  BY <1>1, <1>4
<1>8. UNCHANGED <<row, registry, launched, call, boot, journal, taking>>
  BY <1>1
<1> QED BY <1>5, <1>6, <1>7, <1>8, RowsStay


-----------------------------------------------------------------------------
(* The takeover *)

\* The takeover joins a line.
LEMMA JoinLine ==
  ASSUME Lines(call, lock, taking), NEW c \in Chat, Taker \notin ToSet(lock[c]),
         NEW q, q = [lock EXCEPT ![c] = Append(@, Taker)]
  PROVE  /\ q \in [Chat -> Seq(Call \cup {Taker})]
         /\ \A x \in Chat : Once(q[x])
         /\ \A k \in Call, x \in Chat : k \in ToSet(q[x]) <=> k \in ToSet(lock[x])
         /\ Taker \in ToSet(q[c]) /\ \A x \in Chat : x # c => q[x] = lock[x]
         /\ \A k \in Call : call[k].at \in Holding => Head(q[call[k].chat]) = k
<1> DEFINE P == Call \cup {Taker}
<1>1. /\ lock[c] \in Seq(P) /\ Once(lock[c]) /\ Taker \in P
      /\ lock \in [Chat -> Seq(P)] /\ \A x \in Chat : Once(lock[x])
  BY DEF Lines
<1>2. q[c] = Append(lock[c], Taker) /\ (\A x \in Chat : x # c => q[x] = lock[x]) /\ DOMAIN q = Chat
  BY <1>1
<1>3. /\ q[c] \in Seq(P) /\ Once(q[c]) /\ ToSet(q[c]) = ToSet(lock[c]) \cup {Taker}
      /\ lock[c] # <<>> => Head(q[c]) = Head(lock[c])
  <2> DEFINE s == lock[c]
             A == P
  <2> s \in Seq(A) /\ Taker \in A /\ Once(s) /\ Taker \notin ToSet(s)
    BY <1>1
  <2> HIDE DEF s, A
  <2>1. /\ Append(s, Taker) \in Seq(A) /\ Once(Append(s, Taker))
        /\ ToSet(Append(s, Taker)) = ToSet(s) \cup {Taker}
    BY AppendFacts
  <2>2. Head(Append(s, Taker)) = IF s = <<>> THEN Taker ELSE Head(s)
    BY AppendHead
  <2> QED BY <2>1, <2>2, <1>2 DEF s, A
<1>4. q \in [Chat -> Seq(P)] /\ \A x \in Chat : Once(q[x])
  BY <1>1, <1>2, <1>3
<1>5. \A k \in Call, x \in Chat : k \in ToSet(q[x]) <=> k \in ToSet(lock[x])
  BY <1>2, <1>3, Places
<1>6. \A k \in Call : call[k].at \in Holding => Head(q[call[k].chat]) = k
  <2>1. SUFFICES ASSUME NEW k \in Call, call[k].at \in Holding
                 PROVE  Head(q[call[k].chat]) = k
    OBVIOUS
  <2>2. /\ call[k].chat \in Chat /\ Head(lock[call[k].chat]) = k
        /\ k \in ToSet(lock[call[k].chat])
    BY <2>1 DEF Lines, InLine
  <2>3. lock[call[k].chat] # <<>>
    BY <2>2 DEF ToSet
  <2> QED BY <2>2, <2>3, <1>2, <1>3
<1> QED BY <1>2, <1>3, <1>4, <1>5, <1>6

\* A takeover that stands in the lines has nothing in the journal.
LEMMA NoneWhileAsking ==
  ASSUME MailInv, taking \in {"first", "second"}
  PROVE  journal = "none"
BY DEF MailInv, Journal

LEMMA TakeoverAsksKeeps ==
  ASSUME MailInv, TakeoverAsks
  PROVE  MailInv'
<1>1. /\ UNCHANGED <<row, registry, launched, call, boot, controller, journal, seen, fate>>
      /\ taking = "no" /\ journal = "none" /\ taking' = "first"
      /\ lock' = [lock EXCEPT ![Old] = Append(@, Taker)]
  BY DEF TakeoverAsks, durable
<1>2. Lines(call, lock, taking) /\ Taker \notin ToSet(lock[Old]) /\ Taker \notin ToSet(lock[New])
  BY <1>1 DEF MailInv, Lines
<1>3. PICK q : q = lock'
  OBVIOUS
<1>4. /\ q \in [Chat -> Seq(Call \cup {Taker})]
      /\ \A x \in Chat : Once(q[x])
      /\ \A k \in Call, x \in Chat : k \in ToSet(q[x]) <=> k \in ToSet(lock[x])
      /\ Taker \in ToSet(q[Old]) /\ \A x \in Chat : x # Old => q[x] = lock[x]
      /\ \A k \in Call : call[k].at \in Holding => Head(q[call[k].chat]) = k
  BY <1>1, <1>2, <1>3, Places, JoinLine
<1>5. Lines(call, q, "first")
  BY <1>2, <1>4, Places DEF Lines
<1>6. Lines(call, lock', taking')
  BY <1>1, <1>3, <1>5
<1>7. Journal'
  BY <1>1 DEF MailInv, Journal
<1>8. \A m \in Msg :
        RowOK(m, row[m], registry[m], launched[m], fate', controller', journal', seen')
  BY <1>1 DEF MailInv
<1>9. /\ UNCHANGED <<row, registry, launched, call, boot>> /\ controller' = controller
      /\ \A c \in Chat : fate[c] = "gone" => fate'[c] = "gone"
      /\ ~(journal' = "rows" /\ taking' = "no")
  BY <1>1, NoneWhileAsking
<1> QED BY <1>6, <1>7, <1>8, <1>9, RowsStay

LEMMA TakeoverNextKeeps ==
  ASSUME MailInv, TakeoverNext
  PROVE  MailInv'
<1>1. /\ UNCHANGED <<row, registry, launched, call, boot, controller, journal, seen, fate>>
      /\ taking = "first" /\ taking' = "second" /\ Head(lock[Old]) = Taker
      /\ lock' = [lock EXCEPT ![New] = Append(@, Taker)]
  BY DEF TakeoverNext, durable
<1>2. Lines(call, lock, taking) /\ Taker \in ToSet(lock[Old]) /\ Taker \notin ToSet(lock[New])
  BY <1>1 DEF MailInv, Lines
<1>3. PICK q : q = lock'
  OBVIOUS
<1>4. /\ q \in [Chat -> Seq(Call \cup {Taker})]
      /\ \A x \in Chat : Once(q[x])
      /\ \A k \in Call, x \in Chat : k \in ToSet(q[x]) <=> k \in ToSet(lock[x])
      /\ Taker \in ToSet(q[New]) /\ \A x \in Chat : x # New => q[x] = lock[x]
      /\ \A k \in Call : call[k].at \in Holding => Head(q[call[k].chat]) = k
  BY <1>1, <1>2, <1>3, Places, JoinLine
<1>5. Lines(call, q, "second")
  BY <1>1, <1>2, <1>4, Places DEF Lines
<1>6. Lines(call, lock', taking')
  BY <1>1, <1>3, <1>5
<1>7. Journal'
  BY <1>1 DEF MailInv, Journal
<1>8. \A m \in Msg :
        RowOK(m, row[m], registry[m], launched[m], fate', controller', journal', seen')
  BY <1>1 DEF MailInv
<1>9. /\ UNCHANGED <<row, registry, launched, call, boot>> /\ controller' = controller
      /\ \A c \in Chat : fate[c] = "gone" => fate'[c] = "gone"
      /\ ~(journal' = "rows" /\ taking' = "no")
  BY <1>1, NoneWhileAsking
<1> QED BY <1>6, <1>7, <1>8, <1>9, RowsStay

LEMMA TakeoverGivesUpKeeps ==
  ASSUME MailInv, TakeoverGivesUp
  PROVE  MailInv'
<1>1. /\ UNCHANGED <<row, registry, launched, call, boot, controller, journal, seen, fate>>
      /\ taking \in {"first", "second"} /\ taking' = "no"
      /\ lock' = [c \in Chat |-> Filter(lock[c], Call)]
  BY DEF TakeoverGivesUp, durable
<1>2. Lines(call, lock, taking)
  BY DEF MailInv
<1>3. ASSUME NEW c \in Chat
      PROVE  /\ lock'[c] \in Seq(Call \cup {Taker}) /\ Once(lock'[c])
             /\ ToSet(lock'[c]) = ToSet(lock[c]) \cap Call
             /\ lock[c] # <<>> /\ Head(lock[c]) \in Call => Head(lock'[c]) = Head(lock[c])
  <2>1. PICK s \in Seq(Call \cup {Taker}) : s = lock[c] /\ Once(s)
    BY <1>2 DEF Lines
  <2>2. lock'[c] = Filter(s, Call)
    BY <1>1, <2>1
  <2>3. Filter(s, Call) \in Seq(Call \cup {Taker}) /\ ToSet(Filter(s, Call)) = ToSet(s) \cap Call
    BY FilterFacts
  <2>4. Once(Filter(s, Call))
    BY <2>1, FilterOnce
  <2>5. s # <<>> /\ Head(s) \in Call => Head(Filter(s, Call)) = Head(s)
    BY <2>1, FilterHead
  <2> QED BY <2>1, <2>2, <2>3, <2>4, <2>5
<1>4. lock' \in [Chat -> Seq(Call \cup {Taker})]
  BY <1>1, <1>3
<1>5. \A k \in Call : call[k].at \in Holding => Head(lock'[call[k].chat]) = k
  <2>1. SUFFICES ASSUME NEW k \in Call, call[k].at \in Holding
                 PROVE  Head(lock'[call[k].chat]) = k
    OBVIOUS
  <2>2. /\ call[k].chat \in Chat /\ Head(lock[call[k].chat]) = k
        /\ k \in ToSet(lock[call[k].chat])
    BY <2>1, <1>2 DEF Lines, InLine
  <2>3. lock[call[k].chat] # <<>>
    BY <2>2 DEF ToSet
  <2> QED BY <2>2, <2>3, <1>3
<1>6. \A k \in Call, c \in Chat :
        k \in ToSet(lock'[c]) <=> call[k].at \in InLine /\ call[k].chat = c
  BY <1>2, <1>3 DEF Lines
<1>7. Lines(call, lock', "no")
  <2>1. \A c \in Chat : Taker \notin ToSet(lock'[c])
    BY <1>3, Places
  <2> QED BY <2>1, <1>2, <1>3, <1>4, <1>5, <1>6, Places DEF Lines
<1>8. Lines(call, lock', taking')
  BY <1>1, <1>7
<1>9. Journal'
  BY <1>1 DEF MailInv, Journal
<1>10. \A m \in Msg :
         RowOK(m, row[m], registry[m], launched[m], fate', controller', journal', seen')
  BY <1>1 DEF MailInv
<1>11. /\ UNCHANGED <<row, registry, launched, call, boot>> /\ controller' = controller
       /\ \A c \in Chat : fate[c] = "gone" => fate'[c] = "gone"
       /\ ~(journal' = "rows" /\ taking' = "no")
  BY <1>1, NoneWhileAsking
<1> QED BY <1>8, <1>9, <1>10, <1>11, RowsStay

LEMMA TakeoverStartsKeeps ==
  ASSUME MailInv, TakeoverStarts
  PROVE  MailInv'
<1>1. /\ UNCHANGED <<row, registry, launched, call, boot, lock, controller, seen, fate>>
      /\ taking = "second" /\ taking' = "holds" /\ Head(lock[New]) = Taker
      /\ journal' = "started"
  BY DEF TakeoverStarts
<1>2. Lines(call, lock, "second") /\ journal = "none" /\ controller = Old
  BY <1>1 DEF MailInv, Journal
<1>3. Lines(call, lock, "holds")
  BY <1>1, <1>2 DEF Lines
<1>4. Lines(call, lock', taking')
  BY <1>1, <1>3
<1>5. Journal'
  BY <1>1, <1>2 DEF MailInv, Journal, Open
<1>6. \A m \in Msg :
        RowOK(m, row[m], registry[m], launched[m], fate', controller', journal', seen')
  <2>1. SUFFICES ASSUME NEW m \in Msg
                 PROVE  RowOK(m, row[m], registry[m], launched[m], fate, controller, "started", seen)
    BY <1>1
  <2>2. RowOK(m, row[m], registry[m], launched[m], fate, controller, journal, seen)
    BY DEF MailInv
  <2> QED BY <2>2, <1>2, Places DEF RowOK
<1>7. /\ UNCHANGED <<row, registry, launched, call, boot>> /\ controller' = controller
      /\ \A c \in Chat : fate[c] = "gone" => fate'[c] = "gone"
      /\ ~(journal' = "rows" /\ taking' = "no")
  BY <1>1, NoneWhileAsking
<1> QED BY <1>4, <1>5, <1>6, <1>7, RowsStay

\* While the takeover holds both chats, no delivery is under way in them.
LEMMA NobodySends ==
  ASSUME MailInv, taking = "holds"
  PROVE  \A k \in Call : call[k].at \notin Holding
BY NobodyHolds DEF MailInv

LEMMA TakeoverRowsKeeps ==
  ASSUME MailInv, TakeoverRows
  PROVE  MailInv'
<1>1. /\ UNCHANGED <<row, registry, launched, call, boot, lock, taking, seen, fate>>
      /\ taking = "holds" /\ journal = "started" /\ journal' = "rows" /\ controller' = New
  BY DEF TakeoverRows, volatile
<1>2. \A k \in Call : call[k].at \notin Holding
  BY <1>1, NobodySends
<1>3. Journal' /\ Lines(call, lock', taking')
  BY <1>1 DEF MailInv, Journal, Open
<1>4. \A m \in Msg :
        RowOK(m, row[m], registry[m], launched[m], fate', controller', journal', seen')
  <2>1. SUFFICES ASSUME NEW m \in Msg
                 PROVE  RowOK(m, row[m], registry[m], launched[m], fate, New, "rows", seen)
    BY <1>1
  <2>2. RowOK(m, row[m], registry[m], launched[m], fate, controller, journal, seen)
    BY DEF MailInv
  <2> QED BY <2>2, <1>2 DEF RowOK
<1>5. /\ UNCHANGED <<row, registry, launched, call, boot>>
      /\ controller' = New /\ \A k \in Call : call[k].at \notin Holding
      /\ \A c \in Chat : fate[c] = "gone" => fate'[c] = "gone"
      /\ ~(journal' = "rows" /\ taking' = "no")
  BY <1>1, <1>2
<1> QED BY <1>3, <1>4, <1>5, RowsStay

LEMMA TakeoverMailKeeps ==
  ASSUME MailInv, TakeoverMail
  PROVE  MailInv'
<1>1. /\ UNCHANGED <<registry, launched, call, boot, lock, taking, seen, fate, controller>>
      /\ taking = "holds" /\ journal = "rows" /\ journal' = "mail"
      /\ row' = [m \in Msg |-> Redirected(row[m], controller)]
  BY DEF TakeoverMail, volatile
<1>3. controller = New
  BY <1>1 DEF MailInv, Journal
<1>4. Journal' /\ Lines(call, lock', taking')
  BY <1>1 DEF MailInv, Journal, Open
<1>5. ASSUME NEW m \in Msg
      PROVE  /\ row'[m] \in Rows
             /\ RowOK(m, row'[m], registry[m], launched[m], fate', controller', journal', seen')
             /\ Onward(row[m], row'[m], fate', controller')
             /\ row[m].status = "queued" => row'[m].status = "queued"
             /\ row'[m].request = row[m].request
             /\ row'[m].status = "dispatching" => row'[m] = row[m]
  <2>1. PICK r : r = Redirected(row[m], New)
    OBVIOUS
  <2>2. RowOK(m, row[m], registry[m], launched[m], fate, New, "rows", seen) /\ row[m] \in Rows
    BY <1>1, <1>3 DEF MailInv
  <2>3. /\ r \in Rows /\ r.status = row[m].status /\ r.failed = row[m].failed
        /\ r.request = row[m].request /\ r.passed = row[m].passed
        /\ r.to = IF row[m].status = "queued" THEN New ELSE row[m].to
        /\ row[m].status # "queued" => r = row[m]
    BY <2>1, <2>2, Places, RedirectedFacts
  <2>4. RowOK(m, r, registry[m], launched[m], fate, New, "mail", seen)
    <3>1. CASE row[m].status = "queued"
      BY <3>1, <2>2, <2>3, Places DEF RowOK, OneRequest
    <3>2. CASE row[m].status # "queued"
      BY <3>2, <2>2, <2>3 DEF RowOK
    <3> QED BY <3>1, <3>2
  <2>5. row'[m] = r
    BY <1>1, <1>3, <2>1
  <2>6. RowOK(m, r, registry[m], launched[m], fate', controller', journal', seen')
    BY <2>4, <1>1, <1>3
  <2>7. Onward(row[m], r, fate', controller')
    BY <2>3, Places DEF Onward
  <2> QED BY <2>3, <2>5, <2>6, <2>7
<1>6. row' \in [Msg -> Rows]
  BY <1>1, <1>5
<1>7. /\ registry' = registry /\ launched' = launched /\ call' = call /\ controller' = controller
      /\ boot' = boot
      /\ \A c \in Chat : fate[c] = "gone" => fate'[c] = "gone"
      /\ ~(journal' = "rows" /\ taking' = "no")
  BY <1>1, NoneWhileAsking
<1> QED BY <1>4, <1>5, <1>6, <1>7, SideStep

LEMMA TakeoverEndsKeeps ==
  ASSUME MailInv, TakeoverEnds
  PROVE  MailInv'
<1>1. /\ UNCHANGED <<row, registry, launched, call, boot, seen, fate, controller>>
      /\ taking = "holds" /\ taking' = "no" /\ journal = "mail" /\ journal' = "done"
      /\ lock' = [c \in Chat |-> Tail(lock[c])]
  BY DEF TakeoverEnds
<1>2. Lines(call, lock, "holds") /\ controller = New
  BY <1>1 DEF MailInv, Journal
<1>3. \A k \in Call : call[k].at \notin Holding
  BY <1>1, NobodySends
<1>4. ASSUME NEW c \in Chat
      PROVE  /\ lock'[c] \in Seq(Call \cup {Taker}) /\ Once(lock'[c])
             /\ ToSet(lock'[c]) = ToSet(lock[c]) \ {Taker}
  <2>1. PICK s \in Seq(Call \cup {Taker}) : s = lock[c] /\ Once(s)
    BY <1>2 DEF Lines
  <2>2. Taker \in ToSet(s) /\ Head(s) = Taker
    BY <1>2, <2>1 DEF Lines, Chat
  <2>3. Tail(s) \in Seq(Call \cup {Taker}) /\ Once(Tail(s)) /\ ToSet(Tail(s)) = ToSet(s) \ {Taker}
    BY <2>1, <2>2, TailFacts
  <2>4. lock'[c] = Tail(s)
    BY <1>1, <2>1
  <2> QED BY <2>1, <2>3, <2>4
<1>5. lock' \in [Chat -> Seq(Call \cup {Taker})]
  BY <1>1, <1>4
<1>6. \A k \in Call, c \in Chat :
        k \in ToSet(lock'[c]) <=> call[k].at \in InLine /\ call[k].chat = c
  <2>1. \A k \in Call, c \in Chat : k \in ToSet(lock'[c]) <=> k \in ToSet(lock[c])
    BY <1>4, Places
  <2> QED BY <2>1, <1>2 DEF Lines
<1>7. Lines(call, lock', "no")
  <2>1. \A c \in Chat : Taker \notin ToSet(lock'[c])
    BY <1>4
  <2>2. \A k \in Call : call[k].at \in InLine => call[k].chat \in Chat
    BY <1>2 DEF Lines
  <2> QED BY <2>1, <2>2, <1>3, <1>4, <1>5, <1>6, Places DEF Lines
<1>8. Lines(call, lock', taking')
  BY <1>1, <1>7
<1>9. Journal'
  BY <1>1, <1>2 DEF MailInv, Journal, Open
<1>10. \A m \in Msg :
         RowOK(m, row[m], registry[m], launched[m], fate', controller', journal', seen')
  <2>1. SUFFICES ASSUME NEW m \in Msg
                 PROVE  RowOK(m, row[m], registry[m], launched[m], fate, controller, "done", seen)
    BY <1>1
  <2>2. RowOK(m, row[m], registry[m], launched[m], fate, controller, "mail", seen)
    BY <1>1 DEF MailInv
  <2> QED BY <2>2 DEF RowOK
<1>11. /\ UNCHANGED <<row, registry, launched, call, boot>> /\ controller' = controller
       /\ \A c \in Chat : fate[c] = "gone" => fate'[c] = "gone"
       /\ ~(journal' = "rows" /\ taking' = "no")
  BY <1>1, NoneWhileAsking
<1> QED BY <1>8, <1>9, <1>10, <1>11, RowsStay


-----------------------------------------------------------------------------
(* Shutdown and boot *)

\* A row that was being sent is not known to be sent, any other stays.
LEMMA UnprovenOK ==
  ASSUME NEW m, NEW r, NEW g, NEW n,
         RowOK(m, r, g, n, fate, controller, journal, seen)
  PROVE  /\ RowOK(m, Unproven(r), g, n, fate, controller, journal, seen)
         /\ Onward(r, Unproven(r), fate, controller)
         /\ r.status = "queued" => Unproven(r).status = "queued"
         /\ Unproven(r).request = r.request /\ Unproven(r).status # "dispatching"
         /\ Unproven(r) \in Rows
<1>1. CASE r.status = "dispatching"
  <2>1. PICK s : s = Is(r, "uncertain")
    OBVIOUS
  <2>2. r.request # 0
    BY <1>1 DEF RowOK
  <2>3. /\ RowOK(m, s, g, n, fate, controller, journal, seen)
        /\ Onward(r, s, fate, controller)
        /\ s.status # "dispatching" /\ s.request = r.request
    BY <2>1, <2>2, IsOK
  <2>4. Unproven(r) = s /\ s \in Rows
    BY <1>1, <2>1, <2>3 DEF Unproven, RowOK
  <2> QED BY <1>1, <2>3, <2>4
<1>2. CASE r.status # "dispatching"
  <2>1. Unproven(r) = r /\ r \in Rows
    BY <1>2 DEF Unproven, RowOK
  <2> QED BY <1>2, <2>1, OnwardSame
<1> QED BY <1>1, <1>2

LEMMA FlushKeeps ==
  ASSUME MailInv, Flush
  PROVE  MailInv'
<1>1. /\ UNCHANGED <<registry, launched, call, lock, taking, boot, seen, fate, controller,
                     journal>>
      /\ row' = [m \in Msg |-> Unproven(row[m])]
  BY DEF Flush, durable
<1>2. Journal' /\ Lines(call, lock', taking')
  BY <1>1 DEF MailInv, Journal
<1>3. ASSUME NEW m \in Msg
      PROVE  /\ row'[m] \in Rows
             /\ RowOK(m, row'[m], registry[m], launched[m], fate', controller', journal', seen')
             /\ Onward(row[m], row'[m], fate', controller')
             /\ row[m].status = "queued" => row'[m].status = "queued"
             /\ row'[m].request = row[m].request
             /\ row'[m].status = "dispatching" => row'[m] = row[m]
  <2>1. RowOK(m, row[m], registry[m], launched[m], fate, controller, journal, seen)
    BY DEF MailInv
  <2>2. row'[m] = Unproven(row[m])
    BY <1>1
  <2> QED BY <2>1, <2>2, <1>1, UnprovenOK
<1>4. row' \in [Msg -> Rows]
  BY <1>1, <1>3
<1>5. /\ registry' = registry /\ launched' = launched /\ call' = call /\ controller' = controller
      /\ boot' = boot /\ journal' = journal /\ taking' = taking
      /\ \A c \in Chat : fate[c] = "gone" => fate'[c] = "gone"
  BY <1>1
<1> QED BY <1>2, <1>3, <1>4, <1>5, SideStep

LEMMA RestartsKeeps ==
  ASSUME MailInv, Restarts
  PROVE  MailInv'
<1>1. /\ UNCHANGED <<row, registry, controller, journal, seen, fate, launched>>
      /\ call' = [k \in Call |-> NoCall] /\ lock' = [c \in Chat |-> <<>>] /\ taking' = "no"
      /\ boot' = "listening"
  BY DEF Restarts, durable
<1>2. \A m \in Msg :
        RowOK(m, row'[m], registry'[m], launched'[m], fate', controller', journal', seen')
  BY <1>1 DEF MailInv
<1>3. NoCall \in Deliveries /\ NoCall.at = "idle"
  BY DEF NoCall, Deliveries
<1>4. /\ row' \in [Msg -> Rows] /\ registry' \in [Msg -> Entries] /\ launched' \in [Msg -> Starts]
      /\ call' \in [Call -> Deliveries] /\ \A k \in Call : call'[k] = NoCall
  BY <1>1, <1>3 DEF MailInv
<1>5. Journal'
  BY <1>1 DEF MailInv, Journal
<1>6. \A k \in Call : CallOK(call'[k], row', registry', launched', fate', controller')
  BY <1>3, <1>4 DEF CallOK, InLine, Holding, Starting
<1>7. Lines(call', lock', taking')
  <2>1. /\ lock' \in [Chat -> Seq(Call \cup {Taker})]
        /\ \A c \in Chat : lock'[c] = <<>> /\ Once(lock'[c]) /\ ToSet(lock'[c]) = {}
    BY <1>1 DEF Once, ToSet
  <2> QED BY <2>1, <1>1, <1>3, <1>4, Places DEF Lines, InLine, Holding
<1>8. Leased(row', call', boot')
  BY <1>1 DEF Leased
<1>9. Alone(call', row')
  BY <1>3, <1>4 DEF Alone, Begun
<1>10. Early(call', row', fate', journal', taking')
  BY <1>3, <1>4 DEF Early
<1> QED BY <1>2, <1>4, <1>5, <1>6, <1>7, <1>8, <1>9, <1>10 DEF MailInv

\* A row that boot carries an open takeover past.
LEMMA CarriedOK ==
  ASSUME MailInv, NEW m \in Msg, journal \in Open, taking = "no",
         NEW q, q = [row[m] EXCEPT !.passed = PassedBy(m)],
         NEW r, r = IF journal = "mail" THEN q ELSE Redirected(q, New)
  PROVE  /\ RowOK(m, r, registry[m], launched[m], fate, New, "done", seen)
         /\ r.to = Old => row[m].to = Old
         /\ r.request = row[m].request /\ r.failed = row[m].failed
         /\ r.status = row[m].status /\ r.passed = PassedBy(m)
         /\ row[m].passed # "no" => r.passed # "no"
         /\ r.passed # "held" => row[m].passed # "held"
<1>1. PICK o, g, n : o = row[m] /\ g = registry[m] /\ n = launched[m]
  OBVIOUS
<1>2. /\ RowOK(m, o, g, n, fate, controller, journal, seen) /\ o \in Rows
      /\ journal = "started" => controller = Old
      /\ journal # "started" => controller = New
  BY <1>1 DEF MailInv, Journal, Open
<1>3. PICK p : p = PassedBy(m)
  OBVIOUS
<1>4. \/ p = o.passed /\ (journal # "started" \/ o.passed = "no")
      \/ p = "held" /\ journal = "started" /\ o.status = "queued" /\ o.passed = "no"
      \/ p = "sent" /\ journal = "started" /\ o.passed = "no" /\ o.request # 0 /\ o.status # "absent"
  <2>1. journal = "started" => o.passed = "no"
    BY <1>2, Places DEF RowOK
  <2>2. ASSUME NEW k \in Call, call[k].m = m, call[k].at \in {"asked", "start"}, journal = "started"
        PROVE  o.request # 0 /\ o.status # "absent"
    <3>1. call[k].at \in Holding /\ call[k].at \in Starting
      BY <2>2 DEF Holding, Starting
    <3>2. /\ o.status # "absent" /\ call[k].request # 0
          /\ OwnRequest(call[k], o, g, n, fate)
      BY <2>1, <2>2, <3>1, <1>1 DEF MailInv, CallOK
    <3> QED BY <3>1, <3>2 DEF OwnRequest
  <2>3. \/ p = o.passed
        \/ p = "held" /\ journal = "started" /\ o.status = "queued"
        \/ /\ p = "sent" /\ journal = "started"
           /\ \E k \in Call : call[k].m = m /\ call[k].at \in {"asked", "start"}
    BY <1>1, <1>3 DEF PassedBy
  <2> QED BY <2>1, <2>2, <2>3
<1>5. /\ q \in Rows /\ q.status = o.status /\ q.to = o.to /\ q.how = o.how /\ q.run = o.run
      /\ q.request = o.request /\ q.failed = o.failed /\ q.passed = p
  <2>1. p \in {"no", "sent", "held"}
    BY <1>2, <1>4 DEF Rows
  <2> QED BY <2>1, <1>1, <1>2, <1>3 DEF Rows
<1>6. /\ r \in Rows /\ r.status = o.status /\ r.how = o.how /\ r.run = o.run
      /\ r.request = o.request /\ r.failed = o.failed /\ r.passed = p
      /\ r.to = IF journal # "mail" /\ o.status = "queued" THEN New ELSE o.to
  <2>1. CASE journal = "mail"
    BY <2>1, <1>5
  <2>2. CASE journal # "mail"
    BY <2>2, <1>5, Places DEF Redirected, Rows
  <2> QED BY <2>1, <2>2
<1>7. r.to = Old => o.to = Old
  BY <1>6, Places
<1>8. p # "held" => o.passed # "held"
  BY <1>4
<1>9. p # "held" => OneRequest(r, g, n)
  BY <1>2, <1>6, <1>8 DEF RowOK, OneRequest
<1>10. r.status = "queued" /\ r.to = Old => Left(r, fate)
  <2>1. SUFFICES ASSUME r.status = "queued", r.to = Old PROVE Left(r, fate)
    OBVIOUS
  <2>2. journal = "mail" /\ o.status = "queued" /\ o.to = Old
    BY <2>1, <1>6, Places
  <2>3. Left(o, fate) /\ p = o.passed
    BY <2>2, <1>2, <1>4 DEF RowOK
  <2> QED BY <2>3, <1>6 DEF Left, Failed
<1>11. p = "held" => r.to = New
  BY <1>2, <1>4, <1>6 DEF RowOK
<1>12. p = "sent" => r.request # 0
  BY <1>2, <1>4, <1>6 DEF RowOK
<1>13. r.status = "absent" => r.request = 0 /\ g.request = 0 /\ ~r.failed /\ r.passed = "no"
  BY <1>2, <1>4, <1>6 DEF RowOK
<1>14. r.status = "failed" /\ r.to = Old => Failed(r, fate)
  BY <1>2, <1>6, <1>7 DEF RowOK, Failed
<1>15. r.status = "delivered" =>
         \/ r.how = "started_run" /\ r.run \in 1..Turns(n)
         \/ r.how = "skipped" /\ (m \in seen \/ fate[r.to] = "closed"
                                    \/ (fate[Old] = "closed" /\ (r.failed \/ r.passed # "no")))
  BY <1>2, <1>4, <1>6 DEF RowOK
<1>16. RowOK(m, r, g, n, fate, New, "done", seen)
  BY <1>2, <1>6, <1>9, <1>10, <1>11, <1>12, <1>13, <1>14, <1>15 DEF RowOK
<1>17. o.passed # "no" => p # "no"
  BY <1>4
<1> QED BY <1>1, <1>3, <1>6, <1>7, <1>8, <1>16, <1>17

LEMMA BootTakeoversKeeps ==
  ASSUME MailInv, BootTakeovers
  PROVE  MailInv'
<1>1. /\ UNCHANGED <<registry, seen, fate, call, lock, taking, launched>>
      /\ boot = "listening" /\ taking = "no" /\ boot' = "redirected"
  BY DEF BootTakeovers
<1>2. CASE UNCHANGED <<row, controller, journal>> /\ journal \in {"none", "done"}
  <2>1. Journal' /\ Lines(call, lock', taking')
    BY <1>1, <1>2 DEF MailInv, Journal, Open
  <2>2. \A m \in Msg :
          RowOK(m, row[m], registry[m], launched[m], fate', controller', journal', seen')
    BY <1>1, <1>2 DEF MailInv
  <2>3. /\ UNCHANGED <<row, registry, launched, call>> /\ controller' = controller
        /\ boot' \notin {"reconciled", "up"} /\ ~(journal' = "rows" /\ taking' = "no")
        /\ \A c \in Chat : fate[c] = "gone" => fate'[c] = "gone"
    BY <1>1, <1>2
  <2> QED BY <2>1, <2>2, <2>3, RowsStay
<1>3. CASE /\ journal \in Open /\ controller' = New /\ journal' = "done"
           /\ row' = [m \in Msg |->
                 LET r == [row[m] EXCEPT !.passed = PassedBy(m)]
                 IN IF journal = "mail" THEN r ELSE Redirected(r, New)]
  <2>1. ASSUME NEW m \in Msg
        PROVE  /\ RowOK(m, row'[m], registry[m], launched[m], fate, New, "done", seen)
               /\ row'[m].to = Old => row[m].to = Old
               /\ row'[m].request = row[m].request /\ row'[m].failed = row[m].failed
               /\ row'[m].status = row[m].status /\ row'[m].passed = PassedBy(m)
               /\ row[m].passed # "no" => row'[m].passed # "no"
               /\ row'[m].passed # "held" => row[m].passed # "held"
    <3>1. PICK q : q = [row[m] EXCEPT !.passed = PassedBy(m)]
      OBVIOUS
    <3>2. PICK r : r = IF journal = "mail" THEN q ELSE Redirected(q, New)
      OBVIOUS
    <3>3. row'[m] = r
      BY <1>3, <3>1, <3>2
    <3> QED BY <1>1, <1>3, <3>1, <3>2, <3>3, CarriedOK
  <2>2. /\ row' \in [Msg -> Rows] /\ registry' \in [Msg -> Entries]
        /\ launched' \in [Msg -> Starts] /\ call' \in [Call -> Deliveries]
    BY <1>1, <1>3, <2>1 DEF MailInv, RowOK
  <2>3. \A m \in Msg :
          RowOK(m, row'[m], registry'[m], launched'[m], fate', controller', journal', seen')
    BY <1>1, <1>3, <2>1
  <2>4. Journal'
    BY <1>1, <1>3 DEF MailInv, Journal, Open
  <2>5. ASSUME NEW k \in Call
        PROVE  CallOK(call'[k], row', registry', launched', fate', controller')
    <3>1. PICK d : d = call[k]
      OBVIOUS
    <3>2. CallOK(d, row, registry, launched, fate, controller)
      BY <3>1 DEF MailInv
    <3>3. CASE d.at \notin Holding
      <4>1. d.at \notin {"publish", "asked", "start", "launched"}
        BY <3>3 DEF Holding
      <4> QED BY <1>1, <1>3, <3>1, <3>2, <3>3, <4>1 DEF CallOK
    <3>4. CASE d.at \in Holding
      <4>1. d.m \in Msg /\ d.chat \in Chat
        BY <3>2, <3>4 DEF CallOK, InLine
      <4>2. PICK m \in Msg : m = d.m
        BY <4>1
      <4>3. /\ row'[m].to = Old => row[m].to = Old
            /\ row'[m].request = row[m].request /\ row'[m].failed = row[m].failed
            /\ row'[m].status = row[m].status /\ row'[m].passed = PassedBy(m)
            /\ row[m].passed # "no" => row'[m].passed # "no"
            /\ row'[m].passed # "held" => row[m].passed # "held"
        BY <2>1
      <4>4. OwnRequest(d, row[m], registry[m], launched[m], fate) =>
              OwnRequest(d, row'[m], registry[m], launched[m], fate)
        BY <4>3 DEF OwnRequest
      <4>5. Failed(row[m], fate) => Failed(row'[m], fate)
        BY <4>3 DEF Failed
      <4>6. /\ journal = "started" => controller = Old
            /\ journal # "started" => controller = New
        BY <1>3 DEF MailInv, Journal, Open
      <4>7. d.at = "publish" /\ d.chat = Old => row'[m].passed # "no" \/ Failed(row'[m], fate)
        <5>1. SUFFICES ASSUME d.at = "publish", d.chat = Old
                       PROVE  row'[m].passed # "no" \/ Failed(row'[m], fate)
          OBVIOUS
        <5>2. \/ controller = Old /\ row[m].status = "queued"
              \/ row[m].passed # "no" \/ Failed(row[m], fate)
          BY <3>2, <4>2, <5>1 DEF CallOK
        <5>3. ASSUME controller = Old, row[m].status = "queued" PROVE PassedBy(m) = "held"
          <6>1. journal = "started"
            BY <4>6, <5>3, Places
          <6>2. call[k].m = m /\ call[k].chat = Old /\ call[k].at \in {"publish"}
            BY <3>1, <4>2, <5>1
          <6> QED BY <6>1, <6>2, <5>3 DEF PassedBy
        <5> QED BY <4>3, <4>5, <5>2, <5>3
      <4>8. d.at \in {"asked", "start"} /\ d.chat = Old =>
              row'[m].passed # "no" \/ Failed(row'[m], fate)
        <5>1. SUFFICES ASSUME d.at \in {"asked", "start"}, d.chat = Old
                       PROVE  row'[m].passed # "no" \/ Failed(row'[m], fate)
          OBVIOUS
        <5>2. ASSUME journal = "started" PROVE PassedBy(m) \in {"held", "sent"}
          BY <3>1, <4>2, <5>1, <5>2 DEF PassedBy
        <5>3. ASSUME journal # "started" PROVE row[m].passed # "no" \/ Failed(row[m], fate)
          BY <3>2, <4>2, <4>6, <5>1, <5>3 DEF CallOK
        <5> QED BY <4>3, <4>5, <5>2, <5>3
      <4>9. CallOK(d, row', registry, launched, fate, New)
        <5>1. /\ d \in Deliveries /\ d.at # "next" /\ row[m].status # "absent"
              /\ row[m].to = Old => d.chat = Old
              /\ d.request # 0
              /\ row[m].passed # "held" => OwnRequest(d, row[m], registry[m], launched[m], fate)
              /\ d.at = "launched" => d.run \in 1..Turns(launched[m])
          BY <3>2, <3>4, <4>2 DEF CallOK, Holding
        <5> QED BY <4>1, <4>2, <4>3, <4>4, <4>7, <4>8, <5>1 DEF CallOK
      <4> QED BY <1>1, <1>3, <3>1, <4>9
    <3> QED BY <3>3, <3>4
  <2>6. Lines(call', lock', taking')
    BY <1>1 DEF MailInv
  <2>7. Leased(row', call', boot')
    BY <1>1 DEF Leased
  <2>8. Alone(call', row')
    <3>1. Alone(call, row)
      BY DEF MailInv
    <3>2. \A o \in Call : Begun(call[o]) => call[o].m \in Msg
      BY DEF MailInv, CallOK, Begun, InLine, Holding
    <3>3. \A m \in Msg : row'[m].passed # "held" => row[m].passed # "held"
      BY <2>1
    <3> QED BY <1>1, <3>1, <3>2, <3>3 DEF Alone
  <2>9. Early(call', row', fate', journal', taking')
    BY <1>3 DEF Early
  <2> QED BY <2>2, <2>3, <2>4, <2>5, <2>6, <2>7, <2>8, <2>9 DEF MailInv
<1>4. journal \in {"none", "done"} \/ journal \in Open
  BY DEF MailInv, Journal
<1>5. journal \in Open => journal \notin {"none", "done"}
  BY DEF Open
<1> QED BY <1>2, <1>3, <1>4, <1>5 DEF BootTakeovers

LEMMA BootMailKeeps ==
  ASSUME MailInv, BootMail
  PROVE  MailInv'
<1>1. /\ UNCHANGED <<registry, launched, call, lock, taking, seen, fate, controller, journal>>
      /\ boot = "redirected" /\ boot' = "reconciled" /\ taking = "no"
      /\ row' = [m \in Msg |-> Unproven(Redirected(row[m], controller))]
  BY DEF BootMail, durable
<1>2. journal \notin Open
  BY <1>1 DEF MailInv, Journal
<1>3. Journal' /\ Lines(call, lock', taking')
  BY <1>1, <1>2 DEF MailInv, Journal
<1>4. ASSUME NEW m \in Msg
      PROVE  /\ row'[m] \in Rows
             /\ RowOK(m, row'[m], registry[m], launched[m], fate', controller', journal', seen')
             /\ Onward(row[m], row'[m], fate', controller')
             /\ row[m].status = "queued" => row'[m].status = "queued"
             /\ row'[m].request = row[m].request
             /\ row'[m].status # "dispatching"
  <2>1. PICK q : q = Redirected(row[m], controller)
    OBVIOUS
  <2>2. /\ RowOK(m, q, registry[m], launched[m], fate, controller, journal, seen)
        /\ Onward(row[m], q, fate, controller)
        /\ q.request = row[m].request
        /\ row[m].status = "queued" => q.status = "queued"
        /\ q.status = "queued" => q.to = controller
    BY <2>1, NowOK
  <2>3. PICK s : s = Unproven(q)
    OBVIOUS
  <2>4. /\ RowOK(m, s, registry[m], launched[m], fate, controller, journal, seen)
        /\ Onward(q, s, fate, controller)
        /\ q.status = "queued" => s.status = "queued"
        /\ s.request = q.request /\ s.status # "dispatching" /\ s \in Rows
    BY <2>2, <2>3, UnprovenOK
  <2>5. row'[m] = s
    BY <1>1, <2>1, <2>3
  <2>6. Onward(row[m], s, fate, controller)
    <3>1. s.status = "queued" => s = q
      BY <2>3, <2>4 DEF Unproven, Is, Status
    <3> QED BY <2>2, <2>4, <3>1 DEF Onward
  <2> QED BY <1>1, <2>2, <2>4, <2>5, <2>6
<1>5. row' \in [Msg -> Rows]
  BY <1>1, <1>4
<1>6. /\ registry' = registry /\ launched' = launched /\ call' = call /\ controller' = controller
      /\ journal' = journal /\ taking' = taking
      /\ \A m \in Msg : row'[m].status # "dispatching"
      /\ \A c \in Chat : fate[c] = "gone" => fate'[c] = "gone"
  BY <1>1, <1>4
<1> QED BY <1>3, <1>4, <1>5, <1>6, SideStep

LEMMA BootOpensKeeps ==
  ASSUME MailInv, BootOpens
  PROVE  MailInv'
<1>1. /\ UNCHANGED <<row, registry, launched, call, lock, taking, seen, fate, controller, journal>>
      /\ boot = "reconciled" /\ boot' = "up"
  BY DEF BootOpens, durable
<1>2. Journal' /\ Lines(call, lock', taking')
  BY <1>1 DEF MailInv, Journal
<1>3. \A m \in Msg :
        RowOK(m, row[m], registry[m], launched[m], fate', controller', journal', seen')
  BY <1>1 DEF MailInv
<1>4. /\ UNCHANGED <<row, registry, launched, call>> /\ controller' = controller
      /\ boot \in {"reconciled", "up"} /\ journal' = journal /\ taking' = taking
      /\ \A c \in Chat : fate[c] = "gone" => fate'[c] = "gone"
  BY <1>1
<1> QED BY <1>2, <1>3, <1>4, RowsStay

-----------------------------------------------------------------------------
(* Every step *)

LEMMA CallStepKeeps ==
  ASSUME MailInv, NEW k \in Call, CallStep(k)
  PROVE  MailInv'
<1>1. CASE NextOfDrain(k)
  BY <1>1, NextOfDrainKeeps
<1>2. CASE TakeLock(k)
  BY <1>2, TakeLockKeeps
<1>3. CASE Published(k)
  BY <1>3, PublishedKeeps
<1>4. CASE PublishFails(k)
  BY <1>4, PublishFailsKeeps
<1>5. CASE Asked(k)
  BY <1>5, AskedKeeps
<1>6. CASE Launches(k)
  BY <1>6, LaunchesKeeps
<1>7. CASE Accepts(k)
  BY <1>7, AcceptsKeeps
<1>8. CASE Refused(k)
  BY <1>8, RefusedKeeps
<1>9. CASE Breaks(k)
  BY <1>9, BreaksKeeps
<1>10. CASE Blocked(k)
  BY <1>10, BlockedKeeps
<1> QED BY <1>1, <1>2, <1>3, <1>4, <1>5, <1>6, <1>7, <1>8, <1>9, <1>10 DEF CallStep

LEMMA NextKeeps ==
  ASSUME MailInv, [Next]_vars
  PROVE  MailInv'
<1>1. ASSUME NEW m \in Msg, NEW to \in Chat, Post(m, to) PROVE MailInv'
  BY <1>1, PostKeeps
<1>2. ASSUME NEW k \in Call, CallStep(k) PROVE MailInv'
  BY <1>2, CallStepKeeps
<1>3. ASSUME NEW k \in Call, NEW c \in Chat, Drain(k, c) PROVE MailInv'
  BY <1>3, DrainKeeps
<1>4. ASSUME NEW k \in Call, NEW m \in Msg, Replay(k, m) PROVE MailInv'
  BY <1>4, ReplayKeeps
<1>5. ASSUME NEW k \in Call, NEW m \in Msg, Retry(k, m) PROVE MailInv'
  BY <1>5, RetryKeeps
<1>6. ASSUME NEW c \in Chat, UserStarts(c) PROVE MailInv'
  BY <1>6, NothingMoves DEF UserStarts
<1>7. ASSUME NEW c \in Chat, TurnEnds(c) PROVE MailInv'
  BY <1>7, TurnEndsKeeps
<1>8. ASSUME NEW c \in Chat, FateChanges(c) PROVE MailInv'
  BY <1>8, FateChangesKeeps
<1>9. ASSUME NEW m \in Msg, TimesOut(m) PROVE MailInv'
  BY <1>9, TimesOutKeeps
<1>10. ASSUME NEW m \in Msg, Acknowledge(m) PROVE MailInv'
  BY <1>10, AcknowledgeKeeps
<1>11. CASE TakeoverAsks
  BY <1>11, TakeoverAsksKeeps
<1>12. CASE TakeoverGivesUp
  BY <1>12, TakeoverGivesUpKeeps
<1>13. CASE TakeoverNext
  BY <1>13, TakeoverNextKeeps
<1>14. CASE TakeoverStarts
  BY <1>14, TakeoverStartsKeeps
<1>15. CASE TakeoverRows
  BY <1>15, TakeoverRowsKeeps
<1>16. CASE TakeoverMail
  BY <1>16, TakeoverMailKeeps
<1>17. CASE TakeoverEnds
  BY <1>17, TakeoverEndsKeeps
<1>18. CASE Shutdown
  BY <1>18, NothingMoves DEF Shutdown
<1>19. CASE Flush
  BY <1>19, FlushKeeps
<1>20. CASE Crash
  BY <1>20, RestartsKeeps DEF Crash
<1>21. CASE Exit
  BY <1>21, RestartsKeeps DEF Exit
<1>23. CASE BootTakeovers
  BY <1>23, BootTakeoversKeeps
<1>24. CASE BootMail
  BY <1>24, BootMailKeeps
<1>25. CASE BootOpens
  BY <1>25, BootOpensKeeps
<1>22. CASE UNCHANGED vars
  BY <1>22, NothingMoves DEF vars, volatile
<1> QED BY <1>1, <1>2, <1>3, <1>4, <1>5, <1>6, <1>7, <1>8, <1>9, <1>10, <1>11, <1>12, <1>13,
           <1>14, <1>15, <1>16, <1>17, <1>18, <1>19, <1>20, <1>21, <1>22, <1>23, <1>24, <1>25
        DEF Next, TakeoverStep, BootStep

LEMMA InitMail ==
  ASSUME Init
  PROVE  MailInv
<1>1. Blank \in Rows /\ NoCall \in Deliveries
  BY Places DEF Blank, Rows, Status, NoCall, Deliveries, Chat
<1>2. /\ row \in [Msg -> Rows] /\ \A m \in Msg : row[m] = Blank
      /\ call \in [Call -> Deliveries] /\ \A k \in Call : call[k] = NoCall
  BY <1>1 DEF Init
<1>3. /\ registry \in [Msg -> Entries] /\ launched \in [Msg -> Starts]
      /\ \A m \in Msg : /\ registry[m] = [request |-> 0, state |-> "none", run |-> 0]
                        /\ launched[m] = [recorded |-> 0, unrecorded |-> 0]
  BY DEF Init, Entries, Starts
<1>4. Journal
  BY DEF Init, Journal, Open
<1>5. ASSUME NEW m \in Msg
      PROVE  RowOK(m, row[m], registry[m], launched[m], fate, controller, journal, seen)
  <2>1. PICK r, g, n : r = row[m] /\ g = registry[m] /\ n = launched[m]
    OBVIOUS
  <2>2. /\ r \in Rows /\ r.status = "absent" /\ r.to = Old /\ r.request = 0 /\ r.failed = FALSE
        /\ r.passed = "no"
    <3>1. r = Blank /\ r \in Rows
      BY <1>1, <1>2, <2>1
    <3>2. /\ Blank.status = "absent" /\ Blank.to = Old /\ Blank.request = 0
          /\ Blank.failed = FALSE /\ Blank.passed = "no"
      BY DEF Blank
    <3> QED BY <3>1, <3>2
  <2>3. /\ g \in Entries /\ g.request = 0 /\ g.state = "none"
        /\ n \in Starts /\ n.recorded = 0
    BY <1>3, <2>1
  <2>4. OneRequest(r, g, n)
    BY <2>2, <2>3 DEF OneRequest
  <2> QED BY <2>1, <2>2, <2>3, <2>4, Places DEF RowOK
<1>6. \A k \in Call : CallOK(call[k], row, registry, launched, fate, controller)
  BY <1>1, <1>2 DEF CallOK, NoCall, InLine, Holding, Starting
<1>7. Lines(call, lock, taking)
  <2>1. /\ lock \in [Chat -> Seq(Call \cup {Taker})] /\ taking = "no"
        /\ \A c \in Chat : lock[c] = <<>> /\ Once(lock[c]) /\ ToSet(lock[c]) = {}
    BY DEF Init, Once, ToSet
  <2> QED BY <2>1, <1>2, Places DEF Lines, InLine, Holding, NoCall
<1>8. Leased(row, call, boot)
  <2>1. Blank.status # "dispatching"
    BY DEF Blank
  <2> QED BY <2>1, <1>2 DEF Leased
<1>9. Alone(call, row) /\ Early(call, row, fate, journal, taking)
  BY <1>2 DEF Alone, Begun, Early, NoCall
<1> QED BY <1>2, <1>3, <1>4, <1>5, <1>6, <1>7, <1>8, <1>9 DEF MailInv

\* The rows, the registry, the deliveries, the chats' lines and the takeover's journal
\* agree at every moment, whatever rare events come together, and also while requests
\* are served before boot has come to an end: a row's request is the one the registry
\* holds and a delivery under a chat's lock carries it, unless boot has moved the row
\* from under a delivery; a dispatching row is leased to a delivery under way once boot
\* has reconciled the mailbox; of the deliveries of a message that the registry was
\* asked to record, one at a time is past its intent.
THEOREM MailInvariant == Spec => []MailInv
<1>1. MailInv /\ [Next]_vars => MailInv'
  BY NextKeeps
<1> QED BY <1>1, InitMail, PTL DEF Spec


-----------------------------------------------------------------------------
(* The theorems *)

\* The rows, the registry and the deliveries keep the shape the store's checks give
\* them (createMailboxMessage, normalizeStatus).
THEOREM TypeCorrect == Spec => []TypeOK
<1>1. MailInv => TypeOK
  <2>1. SUFFICES ASSUME MailInv PROVE TypeOK
    OBVIOUS
  <2>2. row \in [Msg -> Rows] /\ registry \in [Msg -> Entries]
    BY <2>1 DEF MailInv
  <2>3. /\ controller \in Chat /\ seen \subseteq Msg
        /\ boot \in {"listening", "redirected", "reconciled", "up"}
    BY <2>1, Places DEF MailInv, Journal
  <2>4. \A k \in Call : call[k].at \in {"idle", "next", "wait", "publish", "asked", "start",
                                        "launched"}
    BY <2>1 DEF MailInv, Deliveries, InLine, Holding
  <2> QED BY <2>2, <2>3, <2>4 DEF TypeOK, Rows, Entries
<1> QED BY <1>1, MailInvariant, PTL

\* With the registry open a report starts one turn at most. The record of the intent
\* makes it so: a turn is launched only under a fresh one, the row keeps the request it
\* was made for, and whoever comes later finds it pending or accepted. What a process
\* starts before the registry is open is counted apart, and a row that boot has moved
\* from under a delivery goes by two requests.
THEOREM OneTurn == Spec => []OneTurnPerMessage
<1>1. MailInv => OneTurnPerMessage
  BY DEF MailInv, RowOK, OneRequest, OneTurnPerMessage
<1> QED BY <1>1, MailInvariant, PTL

\* A turn is started in the chat that controls the job at that moment. The takeover
\* waits for the deliveries of both chats and redirects what is queued before it lets
\* go; the former controller is woken only for a report whose delivery has failed
\* before, or that was under way when boot carried an open takeover through.
THEOREM WakesTheController == Spec => WakesController
<1>1. ASSUME MailInv, NEW k \in Call, call[k].at = "start"
      PROVE  \/ call[k].chat = controller
             \/ row[call[k].m].failed \/ row[call[k].m].passed # "no"
  <2>1. CallOK(call[k], row, registry, launched, fate, controller)
    BY <1>1 DEF MailInv
  <2>2. call[k].at \in InLine
    BY <1>1 DEF InLine, Holding
  <2>3. /\ call[k].chat \in Chat /\ (call[k].chat = New => controller = New)
        /\ call[k].chat = Old /\ controller = New =>
             row[call[k].m].passed # "no" \/ row[call[k].m].failed
    BY <1>1, <2>1, <2>2 DEF CallOK, Failed
  <2>4. controller \in {Old, New}
    BY <1>1 DEF MailInv, Journal
  <2> QED BY <2>3, <2>4, Places
<1>2. MailInv /\ [Next]_vars =>
        [\A k \in Call : call[k].at = "start" /\ call'[k].at = "launched" =>
           \/ call[k].chat = controller
           \/ row[call[k].m].failed \/ row[call[k].m].passed # "no"]_vars
  BY <1>1
<1> QED BY <1>2, MailInvariant, PTL DEF Spec, WakesController

\* No crash, timeout, retry, takeover or boot makes a report count as delivered whose
\* turn was never started: it names its turn, or was skipped for a cause that lasts.
THEOREM DeliveredTruly == Spec => []DeliveredIsTrue
<1>1. MailInv /\ TypeOK => DeliveredIsTrue
  BY DEF MailInv, RowOK, DeliveredIsTrue
<1> QED BY <1>1, MailInvariant, TypeCorrect, PTL

\* While a takeover holds the two chats no delivery is under way in either of them, and
\* once boot has reconciled the mailbox no row is dispatching: what the takeover
\* redirects is at rest.
TakeoverHoldsStill ==
  taking = "holds" =>
    /\ \A k \in Call : call[k].at \in {"idle", "next", "wait"}
    /\ boot \in {"reconciled", "up"} => \A m \in Msg : row[m].status # "dispatching"

\* orchestrationTakeover works on rows that no delivery is about to write; a row it
\* finds dispatching was left so by the process before.
THEOREM TakeoverIsAlone == Spec => []TakeoverHoldsStill
<1>1. MailInv => TakeoverHoldsStill
  <2>1. SUFFICES ASSUME MailInv, taking = "holds" PROVE TakeoverHoldsStill
    BY DEF TakeoverHoldsStill
  <2>2. \A k \in Call : call[k].at \notin Holding
    BY <2>1, NobodySends
  <2>3. \A k \in Call : call[k].at \in {"idle", "next", "wait"} \cup Holding
    BY <2>1 DEF MailInv, Deliveries, InLine, Holding
  <2>4. Leased(row, call, boot) /\ Starting \subseteq Holding
    BY <2>1 DEF MailInv, Starting, Holding
  <2> QED BY <2>2, <2>3, <2>4 DEF TakeoverHoldsStill, Leased
<1> QED BY <1>1, MailInvariant, PTL

====
