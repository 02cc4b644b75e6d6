---------------------------- MODULE EpochFencing ----------------------------
(***************************************************************************)
(* What the storage coordinator promises, without files, leases or time:   *)
(* a source of ever larger epochs, a store whose floor only rises, and a   *)
(* log in which every write carries an epoch its writer was granted.       *)
(***************************************************************************)
EXTENDS Integers, Sequences

CONSTANT Proc

VARIABLES granted,  \* every <<coordinator, epoch>> handed out
          floor,    \* writes below this epoch are fenced
          log       \* committed writes <<coordinator, epoch>>

Init == granted = {} /\ floor = 0 /\ log = <<>>

\* A new owner gets an epoch above all earlier ones.
Grant(p, e) ==
  /\ \A g \in granted : e > g[2]
  /\ granted' = granted \cup {<<p, e>>}
  /\ UNCHANGED <<floor, log>>

\* A new owner fences everyone before it, without writing.
Raise(e) ==
  /\ e >= floor
  /\ floor' = e
  /\ UNCHANGED <<granted, log>>

\* A write commits: its epoch is its writer's and has not been fenced.
Write(g) ==
  /\ g \in granted
  /\ g[2] >= floor
  /\ floor' = g[2]
  /\ log' = Append(log, g)
  /\ UNCHANGED granted

\* The epochs handed out so far, and one more: all a step can name.
Next ==
  \/ \E p \in Proc : \E e \in {g[2] : g \in granted'} : Grant(p, e)
  \/ \E g \in granted : Raise(g[2])
  \/ \E g \in granted : Write(g)

Spec == Init /\ [][Next]_<<granted, floor, log>>
=============================================================================
