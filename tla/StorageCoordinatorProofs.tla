---------------------- MODULE StorageCoordinatorProofs ----------------------
(***************************************************************************)
(* Theorems about StorageCoordinator, for every number of coordinators and *)
(* every value of the bounds, and about ControlLock below it, for every    *)
(* number of processes and of deaths.                                      *)
(***************************************************************************)
EXTENDS StorageCoordinator, ControlLock, TLAPS

LEMMA TypeInit == Init => TypeOK
  BY DEF Init, TypeOK, States, NoCall, NoDrain

\* What a failing or successful file write leaves in the lease file is a lease.
LEMMA WriteLeaseType ==
  ASSUME TypeOK, NEW p \in Proc, NEW granted \in Nat, NEW outcome \in Outcome,
         WriteLease(p, granted, outcome)
  PROVE  /\ lease' \in Lease \cup {None}
         /\ expiresAt' \in [Proc -> Nat]
         /\ failed' \in [Proc -> BOOLEAN]
<1>1. now + TTL \in Nat
  BY CoordinatorAssumption DEF TypeOK
<1>2. expiresAt' \in [Proc -> Nat]
  BY <1>1 DEF TypeOK, WriteLease
<1>3. lease' \in Lease \cup {None}
  BY <1>1 DEF TypeOK, WriteLease, Lease
<1>4. failed' \in [Proc -> BOOLEAN]
  BY DEF TypeOK, WriteLease
<1> QED
  BY <1>2, <1>3, <1>4

LEMMA SpendType ==
  ASSUME TypeOK, NEW rare \in Rare, Spend(rare)
  PROVE  spent' \in [Rare -> Nat]
  BY DEF TypeOK, Spend

LEMMA EndsType ==
  ASSUME TypeOK, NEW outcome \in Outcome, Ends(outcome)
  PROVE  spent' \in [Rare -> Nat]
<1>1. "io" \in Rare
  BY DEF Rare
<1> QED
  BY <1>1, SpendType DEF TypeOK, Ends

\* The pause view after a look at the marker.
LEMMA ReadPauseType ==
  ASSUME TypeOK, NEW p \in Proc, ReadPause(p)
  PROVE  /\ paused' \in [Proc -> BOOLEAN]
         /\ pauseCheckedAt' \in [Proc -> Nat]
  BY DEF TypeOK, ReadPause

LEMMA GrantedType ==
  ASSUME TypeOK, NEW dbHwm \in {0, mark}
  PROVE  Granted(dbHwm) \in Nat
<1>1. CASE lease = None
  BY <1>1 DEF TypeOK, Granted, Known, Larger
<1>2. CASE lease # None
  <2>1. lease.epoch \in Nat
    BY <1>2 DEF TypeOK, Lease
  <2> QED
    BY <1>2, <2>1 DEF TypeOK, Granted, Known, Larger
<1> QED
  BY <1>1, <1>2

LEMMA LeaseStepType ==
  ASSUME TypeOK, NEW p \in Proc, LeaseStep(p)
  PROVE  TypeOK'
<1>1. ASSUME NEW dbHwm \in {0, mark}, NEW outcome \in Outcome,
             AcquireRenews(p, dbHwm, outcome)
      PROVE  TypeOK'
  <2>1. epoch[p] \in Nat
    BY DEF TypeOK
  <2>2. lease' \in Lease \cup {None} /\ expiresAt' \in [Proc -> Nat] /\ failed' \in [Proc -> BOOLEAN]
    BY <1>1, <2>1, WriteLeaseType DEF AcquireRenews
  <2>3. spent' \in [Rare -> Nat]
    BY <1>1, EndsType DEF AcquireRenews
  <2>4. paused' \in [Proc -> BOOLEAN] /\ pauseCheckedAt' \in [Proc -> Nat]
    BY <1>1, ReadPauseType DEF AcquireRenews, TypeOK
  <2> QED
    BY <1>1, <2>2, <2>3, <2>4 DEF AcquireRenews, TypeOK, calls
<1>2. ASSUME NEW dbHwm \in {0, mark}, NEW outcome \in Outcome,
             AcquireGrants(p, dbHwm, outcome)
      PROVE  TypeOK'
  <2>1. Granted(dbHwm) \in Nat
    BY GrantedType
  <2>2. lease' \in Lease \cup {None} /\ expiresAt' \in [Proc -> Nat] /\ failed' \in [Proc -> BOOLEAN]
    BY <1>2, <2>1, WriteLeaseType DEF AcquireGrants
  <2>3. spent' \in [Rare -> Nat]
    BY <1>2, EndsType DEF AcquireGrants
  <2>4. paused' \in [Proc -> BOOLEAN] /\ pauseCheckedAt' \in [Proc -> Nat]
    BY <1>2, ReadPauseType DEF AcquireGrants, TypeOK
  <2>5. hwm' \in Nat
    BY <1>2, <2>1 DEF AcquireGrants, TypeOK, Larger
  <2>6. epoch' \in [Proc -> Nat]
    BY <1>2, <2>1 DEF AcquireGrants, TypeOK
  <2>7. state' \in [Proc -> States]
    BY <1>2 DEF AcquireGrants, TypeOK, States
  <2>8. grants' \in SUBSET (Proc \X Nat)
    BY <1>2, <2>1 DEF AcquireGrants, TypeOK
  <2> QED
    BY <1>2, <2>2, <2>3, <2>4, <2>5, <2>6, <2>7, <2>8 DEF AcquireGrants, TypeOK, calls
<1>3. ASSUME NEW dbHwm \in {0, mark}, AcquireSkips(p, dbHwm)
      PROVE  TypeOK'
  <2>1. hwm' \in Nat /\ spent' \in [Rare -> Nat]
    BY <1>3, GrantedType, SpendType DEF AcquireSkips, Rare
  <2> QED
    BY <1>3, <2>1 DEF AcquireSkips, TypeOK, memory, calls
<1>4. ASSUME NEW outcome \in Outcome, Renew(p, outcome)
      PROVE  TypeOK'
  <2>1. lease' \in Lease \cup {None} /\ expiresAt' \in [Proc -> Nat] /\ epoch[p] \in Nat
        /\ failed' \in [Proc -> BOOLEAN]
    BY <1>4, WriteLeaseType DEF Renew, TypeOK
  <2>2. spent' \in [Rare -> Nat]
    BY <1>4, EndsType DEF Renew
  <2> QED
    BY <1>4, <2>1, <2>2 DEF Renew, TypeOK, ReadPause, calls
<1>5. ASSUME NEW outcome \in Outcome, WithOwnedLease(p, outcome)
      PROVE  TypeOK'
  <2>1. lease' \in Lease \cup {None} /\ expiresAt' \in [Proc -> Nat] /\ epoch[p] \in Nat
        /\ failed' \in [Proc -> BOOLEAN]
    BY <1>5, WriteLeaseType DEF WithOwnedLease, TypeOK
  <2>2. spent' \in [Rare -> Nat]
    BY <1>5, EndsType DEF WithOwnedLease
  <2> QED
    BY <1>5, <2>1, <2>2 DEF WithOwnedLease, TypeOK, calls
<1>6. CASE DiscoverLoss(p)
  BY <1>6 DEF DiscoverLoss, MarkLost, TypeOK, files, calls, States
<1>7. ASSUME NEW removed \in BOOLEAN, Release(p, removed)
      PROVE  TypeOK'
  <2>1. spent' \in [Rare -> Nat]
    BY <1>7, SpendType DEF Release, TypeOK, Rare
  <2> QED
    BY <1>7, <2>1 DEF Release, TypeOK, calls, States
<1>8. CASE Crash(p)
  <2>1. spent' \in [Rare -> Nat]
    BY <1>8, SpendType DEF Crash, Rare
  <2> QED
    BY <1>8, <2>1 DEF Crash, TypeOK, files, States, NoCall, NoDrain
<1> QED
  BY <1>1, <1>2, <1>3, <1>4, <1>5, <1>6, <1>7, <1>8 DEF LeaseStep

LEMMA ActivateStepType ==
  ASSUME TypeOK, NEW p \in Proc, ActivateStep(p)
  PROVE  TypeOK'
<1> DEFINE Calls == [Proc -> [at : {"none", "reading", "read", "fencing", "raised"}, n : Nat]]
<1>0. epoch[p] \in Nat /\ act[p].n \in Nat /\ act \in Calls /\ mark \in Nat /\ hwm \in Nat
  BY DEF TypeOK
<1>1. CASE Activate(p)
  <2>1. act' \in Calls
    BY <1>0, <1>1 DEF Activate
  <2> QED
    BY <1>1, <2>1 DEF Activate, TypeOK, files, memory
<1>2. CASE StoreReadsMark(p)
  <2>1. act' \in Calls
    BY <1>0, <1>2 DEF StoreReadsMark
  <2> QED
    BY <1>2, <2>1 DEF StoreReadsMark, TypeOK, files, memory
<1>3. CASE ActivateReconciles(p)
  <2>1. act' \in Calls
    BY <1>0, <1>3 DEF ActivateReconciles
  <2>2. hwm' \in Nat
    BY <1>0, <1>3 DEF ActivateReconciles, Larger
  <2> QED
    BY <1>3, <2>1, <2>2 DEF ActivateReconciles, TypeOK, memory
<1>4. ASSUME NEW outcome \in Outcome, ActivateBumps(p, outcome)
      PROVE  TypeOK'
  <2> DEFINE granted == Larger(act[p].n, Larger(hwm, epoch[p])) + 1
  <2>1. granted \in Nat
    BY <1>0 DEF Larger
  <2>2. hwm' \in Nat
    BY <1>0, <1>4, <2>1 DEF ActivateBumps, Larger
  <2>3. lease' \in Lease \cup {None} /\ expiresAt' \in [Proc -> Nat] /\ failed' \in [Proc -> BOOLEAN]
    <3>1. WriteLease(p, granted, outcome)
      BY <1>4 DEF ActivateBumps
    <3> HIDE DEF granted
    <3> QED
      BY <2>1, <3>1, WriteLeaseType
  <2>4. spent' \in [Rare -> Nat]
    BY <1>4, EndsType DEF ActivateBumps
  <2>5. /\ epoch' = epoch \/ epoch' = [epoch EXCEPT ![p] = granted]
        /\ act' = [act EXCEPT ![p] = NoCall] \/ act' = [act EXCEPT ![p] = [at |-> "fencing", n |-> granted]]
        /\ grants' = grants \/ grants' = grants \cup {<<p, granted>>}
        /\ UNCHANGED <<now, marker, mark, state, activatedEpoch, paused, pauseCheckedAt,
                       drain, inFlight, orphaned, log>>
    BY <1>4 DEF ActivateBumps
  <2> HIDE DEF granted
  <2>6. epoch' \in [Proc -> Nat]
    BY <2>1, <2>5 DEF TypeOK
  <2>7. act' \in Calls
    BY <1>0, <2>1, <2>5 DEF NoCall
  <2>8. grants' \in SUBSET (Proc \X Nat)
    BY <2>1, <2>5 DEF TypeOK
  <2> QED
    BY <2>2, <2>3, <2>4, <2>5, <2>6, <2>7, <2>8 DEF TypeOK
<1>5. CASE ActivateFindsLoss(p)
  <2>1. act' \in Calls
    BY <1>0, <1>5 DEF ActivateFindsLoss, NoCall
  <2>2. state' \in [Proc -> States]
    <3>1. "fenced" \in States /\ state \in [Proc -> States]
      BY DEF TypeOK, States
    <3>2. state' = state \/ state' = [state EXCEPT ![p] = "fenced"]
      BY <1>5 DEF ActivateFindsLoss, MarkLost
    <3> QED
      BY <3>1, <3>2
  <2> QED
    BY <1>5, <2>1, <2>2 DEF ActivateFindsLoss, TypeOK, files
<1>6. CASE StoreRaisesMark(p)
  <2>1. act' \in Calls
    BY <1>0, <1>6 DEF StoreRaisesMark, NoCall
  <2>2. mark' \in Nat
    BY <1>0, <1>6 DEF StoreRaisesMark
  <2> QED
    BY <1>6, <2>1, <2>2 DEF StoreRaisesMark, TypeOK, files, memory
<1>7. CASE ActivateDone(p)
  <2>1. act' \in Calls
    BY <1>0, <1>7 DEF ActivateDone, NoCall
  <2>2. activatedEpoch' \in [Proc -> Nat \cup {-1}]
    BY <1>0, <1>7 DEF ActivateDone, TypeOK
  <2> QED
    BY <1>7, <2>1, <2>2 DEF ActivateDone, TypeOK, files
<1>8. ASSUME NEW raised \in BOOLEAN, ActivateFails(p, raised)
      PROVE  TypeOK'
  <2>1. act' \in Calls
    BY <1>0, <1>8 DEF ActivateFails, NoCall
  <2>2. mark' \in Nat /\ spent' \in [Rare -> Nat]
    BY <1>0, <1>8, SpendType DEF ActivateFails, Rare
  <2> QED
    BY <1>8, <2>1, <2>2 DEF ActivateFails, TypeOK, files, memory
<1> QED
  BY <1>1, <1>2, <1>3, <1>4, <1>5, <1>6, <1>7, <1>8 DEF ActivateStep

LEMMA SettleType ==
  ASSUME TypeOK, NEW p \in Proc, NEW e \in Nat, Settle(p, e)
  PROVE  /\ inFlight' \in [Proc -> SUBSET Nat]
         /\ drain' \in [Proc -> [at : {"none", "draining", "drained"}, waiting : SUBSET Nat]]
  BY DEF TypeOK, Settle

LEMMA CommitType ==
  ASSUME TypeOK, NEW p \in Proc, NEW e \in Nat, Commit(p, e)
  PROVE  mark' \in Nat /\ log' \in Seq(Proc \X Nat)
  BY DEF TypeOK, Commit

LEMMA WriteStepType ==
  ASSUME TypeOK, NEW p \in Proc, WriteStep(p)
  PROVE  TypeOK'
<1>0. /\ epoch[p] \in Nat /\ inFlight[p] \subseteq Nat /\ orphaned[p] \subseteq Nat
      /\ inFlight \in [Proc -> SUBSET Nat] /\ orphaned \in [Proc -> SUBSET Nat]
  BY DEF TypeOK
<1>1. CASE Dispatch(p)
  <2>1. lease' \in Lease \cup {None} /\ expiresAt' \in [Proc -> Nat] /\ failed' \in [Proc -> BOOLEAN]
    <3>1. CASE now >= expiresAt[p]
      <4>1. WriteLease(p, epoch[p], "ok") /\ "ok" \in Outcome
        BY <1>1, <3>1 DEF Dispatch, Outcome
      <4> QED
        BY <4>1, <1>0, WriteLeaseType
    <3>2. CASE ~ (now >= expiresAt[p])
      BY <1>1, <3>2 DEF Dispatch, TypeOK
    <3> QED
      BY <3>1, <3>2
  <2>2. paused' \in [Proc -> BOOLEAN] /\ pauseCheckedAt' \in [Proc -> Nat]
    <3>1. ReadPause(p) \/ UNCHANGED <<paused, pauseCheckedAt>>
      BY <1>1 DEF Dispatch
    <3> QED
      BY <3>1, ReadPauseType DEF TypeOK
  <2>3. inFlight' \in [Proc -> SUBSET Nat]
    BY <1>0, <1>1 DEF Dispatch
  <2> QED
    BY <1>1, <2>1, <2>2, <2>3 DEF Dispatch, TypeOK
<1>2. CASE RefusePaused(p)
  BY <1>2, ReadPauseType DEF RefusePaused, TypeOK, files, calls
<1>3. ASSUME NEW e \in inFlight[p], WriteCommits(p, e)
      PROVE  TypeOK'
  <2>1. e \in Nat
    BY <1>0
  <2> QED
    BY <1>3, <2>1, SettleType, CommitType DEF WriteCommits, TypeOK, files, memory
<1>4. ASSUME NEW e \in inFlight[p], WriteRejected(p, e)
      PROVE  TypeOK'
  <2>1. e \in Nat
    BY <1>0
  <2> QED
    BY <1>4, <2>1, SettleType DEF WriteRejected, TypeOK, files, memory
<1>5. ASSUME NEW e \in inFlight[p], LoseWorker(p, e)
      PROVE  TypeOK'
  <2>1. e \in Nat
    BY <1>0
  <2>2. orphaned' \in [Proc -> SUBSET Nat]
    BY <1>0, <1>5, <2>1 DEF LoseWorker
  <2>3. spent' \in [Rare -> Nat]
    BY <1>5, SpendType DEF LoseWorker, Rare
  <2> QED
    BY <1>5, <2>1, <2>2, <2>3, SettleType DEF LoseWorker, TypeOK, files, memory
<1>6. ASSUME NEW e \in orphaned[p], NEW commits \in BOOLEAN, OrphanEnds(p, e, commits)
      PROVE  TypeOK'
  <2>1. e \in Nat
    BY <1>0
  <2>2. orphaned' \in [Proc -> SUBSET Nat]
    BY <1>0, <1>6 DEF OrphanEnds
  <2>3. mark' \in Nat /\ log' \in Seq(Proc \X Nat)
    BY <1>6, <2>1, CommitType DEF OrphanEnds, TypeOK
  <2> QED
    BY <1>6, <2>2, <2>3 DEF OrphanEnds, TypeOK, files, memory
<1> QED
  BY <1>1, <1>2, <1>3, <1>4, <1>5, <1>6 DEF WriteStep

LEMMA PauseStepType ==
  ASSUME TypeOK, NEW p \in Proc, PauseStep(p)
  PROVE  TypeOK'
<1> DEFINE Drains == [Proc -> [at : {"none", "draining", "drained"}, waiting : SUBSET Nat]]
<1>0. drain \in Drains /\ inFlight[p] \in SUBSET Nat
  BY DEF TypeOK
<1>1. ASSUME NEW outcome \in Outcome, PauseForRestore(p, outcome)
      PROVE  TypeOK'
  <2>1. spent' \in [Rare -> Nat]
    <3>1. spent \in [Rare -> Nat] /\ {"pause", "io"} \subseteq Rare
      BY DEF TypeOK, Rare
    <3>2. \/ spent' = [spent EXCEPT !["pause"] = @ + 1, !["io"] = @]
          \/ spent' = [spent EXCEPT !["pause"] = @ + 1, !["io"] = @ + 1]
      BY <1>1 DEF PauseForRestore
    <3> QED
      BY <3>1, <3>2
  <2>2. drain' \in Drains
    BY <1>0, <1>1 DEF PauseForRestore
  <2>3. now \in Nat /\ marker \in Nat \cup {None} /\ paused \in [Proc -> BOOLEAN]
        /\ pauseCheckedAt \in [Proc -> Nat]
    BY DEF TypeOK
  <2>4. paused' \in [Proc -> BOOLEAN]
    BY <1>1, <2>3 DEF PauseForRestore
  <2>5. pauseCheckedAt' \in [Proc -> Nat]
    BY <1>1, <2>3 DEF PauseForRestore
  <2>6. marker' \in Nat \cup {None}
    BY <1>1, <2>3 DEF PauseForRestore
  <2> QED
    BY <1>1, <2>1, <2>2, <2>4, <2>5, <2>6 DEF PauseForRestore, TypeOK
<1>2. CASE DrainDone(p)
  <2>1. drain' \in Drains
    BY <1>0, <1>2 DEF DrainDone
  <2> QED
    BY <1>2, <2>1 DEF DrainDone, TypeOK, files, memory
<1>3. CASE DrainTimeout(p)
  <2>1. drain' \in Drains
    BY <1>0, <1>3 DEF DrainTimeout, NoDrain
  <2> QED
    BY <1>3, <2>1 DEF DrainTimeout, TypeOK, files, memory
<1>4. CASE ResumeAfterRestore(p)
  <2>1. drain' \in Drains
    BY <1>0, <1>4 DEF ResumeAfterRestore, NoDrain
  <2> QED
    BY <1>4, <2>1 DEF ResumeAfterRestore, TypeOK
<1> QED
  BY <1>1, <1>2, <1>3, <1>4 DEF PauseStep

LEMMA TypeStep ==
  ASSUME TypeOK, [Next]_vars
  PROVE  TypeOK'
<1>1. CASE Tick
  BY <1>1 DEF Tick, TypeOK, files, memory, calls
<1>2. CASE ForeignPause
  <2>1. spent' \in [Rare -> Nat]
    BY <1>2, SpendType DEF ForeignPause, Rare
  <2> QED
    BY <1>2, <2>1 DEF ForeignPause, TypeOK, memory, calls
<1>3. CASE LoseControlDir
  <2>1. spent' \in [Rare -> Nat]
    BY <1>3, SpendType DEF LoseControlDir, Rare
  <2> QED
    BY <1>3, <2>1 DEF LoseControlDir, TypeOK, memory, calls
<1>4. ASSUME NEW older \in 0..MaxEpoch, RestoreStore(older)
      PROVE  TypeOK'
  <2>1. spent' \in [Rare -> Nat]
    BY <1>4, SpendType DEF RestoreStore, Rare
  <2>2. older \in Nat
    OBVIOUS
  <2> QED
    BY <1>4, <2>1, <2>2 DEF RestoreStore, TypeOK, files, memory, calls
<1>5. CASE UNCHANGED vars
  BY <1>5 DEF vars, TypeOK, files, memory, calls
<1> QED
  BY <1>1, <1>2, <1>3, <1>4, <1>5, LeaseStepType, ActivateStepType, WriteStepType,
     PauseStepType DEF Next

\* The type invariant, for every number of coordinators.
THEOREM TypeCorrect == Spec => []TypeOK
<1>1. TypeOK /\ [Next]_vars => TypeOK'
  BY TypeStep
<1> QED
  BY TypeInit, <1>1, PTL DEF Spec

-----------------------------------------------------------------------------
(* Fencing: an owner that may write has raised the mark of the store *)

\* No epoch in memory is above the high-water mark, and what has not acquired
\* yet, or is dead, holds none: a lost control directory makes nobody wrong.
EpochsKnown ==
  \A p \in Proc :
    /\ epoch[p] <= hwm
    /\ activatedEpoch[p] <= hwm
    /\ state[p] \in {"idle", "dead"} =>
         epoch[p] = 0 /\ activatedEpoch[p] = -1 /\ act[p].at = "none"

\* The epoch does not change under an activate() call that sends or has sent it
\* to the store. This is what NoOverlap buys.
ActivateKeepsEpoch ==
  \A p \in Proc : state[p] = "owner" =>
    /\ act[p].at = "fencing" => act[p].n = epoch[p]
    /\ act[p].at = "raised" => mark >= epoch[p]

FenceInv == TypeOK /\ EpochsKnown /\ ActivateKeepsEpoch /\ ActivatedIsFenced

core == <<hwm, mark, state, epoch, activatedEpoch, act>>

LEMMA FenceInit == Init => FenceInv
  BY TypeInit DEF Init, FenceInv, EpochsKnown, ActivateKeepsEpoch, ActivatedIsFenced, NoCall

\* FenceInv reads nothing but core.
LEMMA FenceCore ==
  ASSUME FenceInv, UNCHANGED core
  PROVE  EpochsKnown' /\ ActivateKeepsEpoch' /\ ActivatedIsFenced'
  BY DEF FenceInv, core, EpochsKnown, ActivateKeepsEpoch, ActivatedIsFenced

LEMMA FenceLease ==
  ASSUME Overlap = FALSE, FenceInv, NEW p \in Proc, LeaseStep(p)
  PROVE  EpochsKnown' /\ ActivateKeepsEpoch' /\ ActivatedIsFenced'
<1> USE DEF FenceInv
<1>0. TypeOK
  OBVIOUS
<1>1. ASSUME NEW dbHwm \in {0, mark}, NEW outcome \in Outcome,
             AcquireRenews(p, dbHwm, outcome)
      PROVE  UNCHANGED core
  BY <1>1 DEF AcquireRenews, calls, core
<1>2. ASSUME NEW dbHwm \in {0, mark}, NEW outcome \in Outcome,
             AcquireGrants(p, dbHwm, outcome)
      PROVE  EpochsKnown' /\ ActivateKeepsEpoch' /\ ActivatedIsFenced'
  <2>1. Granted(dbHwm) \in Nat /\ Granted(dbHwm) > hwm /\ hwm \in Nat
    <3>1. CASE lease = None
      BY <3>1 DEF TypeOK, Granted, Known, Larger
    <3>2. CASE lease # None
      <4>1. lease.epoch \in Nat
        BY <3>2 DEF TypeOK, Lease
      <4> QED
        BY <3>2, <4>1 DEF TypeOK, Granted, Known, Larger
    <3> QED
      BY <3>1, <3>2
  <2>2. /\ hwm' = Granted(dbHwm)
        /\ act[p].at = "none"
        /\ UNCHANGED <<mark, activatedEpoch, act>>
        /\ \/ UNCHANGED <<epoch, state>>
           \/ /\ epoch' = [epoch EXCEPT ![p] = Granted(dbHwm)]
              /\ state' = [state EXCEPT ![p] = "owner"]
    BY <1>2, <2>1 DEF AcquireGrants, NoOverlap, calls, Larger
  <2>3. EpochsKnown'
    <3> SUFFICES ASSUME NEW q \in Proc
                 PROVE  /\ epoch'[q] <= hwm' /\ activatedEpoch'[q] <= hwm'
                        /\ state'[q] \in {"idle", "dead"} =>
                             epoch'[q] = 0 /\ activatedEpoch'[q] = -1 /\ act'[q].at = "none"
      BY DEF EpochsKnown
    <3>1. /\ epoch[q] <= hwm /\ activatedEpoch[q] <= hwm
          /\ epoch[q] \in Nat /\ activatedEpoch[q] \in Int
          /\ state[q] \in {"idle", "dead"} =>
               epoch[q] = 0 /\ activatedEpoch[q] = -1 /\ act[q].at = "none"
      BY DEF EpochsKnown, TypeOK
    <3>2. epoch'[q] = epoch[q] \/ epoch'[q] = Granted(dbHwm)
      BY <2>2 DEF TypeOK
    <3>3. (state'[q] = state[q] /\ epoch'[q] = epoch[q]) \/ state'[q] = "owner"
      BY <2>2 DEF TypeOK
    <3> HIDE DEF FenceInv
    <3> QED
      BY <2>1, <2>2, <3>1, <3>2, <3>3
  <2>4. ActivateKeepsEpoch'
    BY <2>1, <2>2 DEF ActivateKeepsEpoch, TypeOK
  <2>5. ActivatedIsFenced'
    BY <2>1, <2>2 DEF ActivatedIsFenced, EpochsKnown, TypeOK
  <2> QED
    BY <2>3, <2>4, <2>5
<1>3. ASSUME NEW dbHwm \in {0, mark}, AcquireSkips(p, dbHwm)
      PROVE  EpochsKnown' /\ ActivateKeepsEpoch' /\ ActivatedIsFenced'
  <2>1. hwm' > hwm /\ hwm' \in Nat /\ UNCHANGED <<mark, state, epoch, activatedEpoch, act>>
    BY <1>3, GrantedType DEF AcquireSkips, memory, calls, TypeOK
  <2> QED
    BY <2>1 DEF EpochsKnown, ActivateKeepsEpoch, ActivatedIsFenced, TypeOK
<1>4. ASSUME NEW outcome \in Outcome, Renew(p, outcome)
      PROVE  UNCHANGED core
  BY <1>4 DEF Renew, calls, core
<1>5. ASSUME NEW outcome \in Outcome, WithOwnedLease(p, outcome)
      PROVE  UNCHANGED core
  BY <1>5 DEF WithOwnedLease, calls, core
<1>6. CASE DiscoverLoss(p)
  BY <1>6 DEF DiscoverLoss, MarkLost, files, calls, EpochsKnown, ActivateKeepsEpoch,
              ActivatedIsFenced, TypeOK
<1>7. ASSUME NEW removed \in BOOLEAN, Release(p, removed)
      PROVE  EpochsKnown' /\ ActivateKeepsEpoch' /\ ActivatedIsFenced'
  <2>1. state' = [state EXCEPT ![p] = "released"] /\ UNCHANGED <<hwm, mark, epoch, activatedEpoch, act>>
    BY <1>7 DEF Release, calls
  <2> QED
    BY <2>1 DEF EpochsKnown, ActivateKeepsEpoch, ActivatedIsFenced, TypeOK
<1>8. CASE Crash(p)
  <2>1. /\ state' = [state EXCEPT ![p] = "dead"]
        /\ epoch' = [epoch EXCEPT ![p] = 0]
        /\ activatedEpoch' = [activatedEpoch EXCEPT ![p] = -1]
        /\ act' = [act EXCEPT ![p] = NoCall]
        /\ UNCHANGED <<hwm, mark>>
    BY <1>8 DEF Crash, files
  <2> QED
    BY <2>1 DEF NoCall, EpochsKnown, ActivateKeepsEpoch, ActivatedIsFenced, TypeOK
<1> QED
  BY <1>1, <1>2, <1>3, <1>4, <1>5, <1>6, <1>7, <1>8, FenceCore DEF LeaseStep

LEMMA FenceActivate ==
  ASSUME FenceInv, NEW p \in Proc, ActivateStep(p)
  PROVE  EpochsKnown' /\ ActivateKeepsEpoch' /\ ActivatedIsFenced'
<1> USE DEF FenceInv, NoCall
<1> DEFINE Goal == EpochsKnown' /\ ActivateKeepsEpoch' /\ ActivatedIsFenced'
<1>1. ASSUME NEW call, act' = [act EXCEPT ![p] = call],
             call.at \in {"none", "reading", "read"},
             state[p] \in {"idle", "dead"} => call.at = "none",
             UNCHANGED <<hwm, mark, state, epoch, activatedEpoch>>
      PROVE  Goal
  BY <1>1 DEF EpochsKnown, ActivateKeepsEpoch, ActivatedIsFenced, TypeOK
<1>2. CASE Activate(p)
  <2> DEFINE call == [at |-> "reading", n |-> 0]
  <2>1. act' = [act EXCEPT ![p] = call] /\ UNCHANGED <<hwm, mark, state, epoch, activatedEpoch>>
    BY <1>2 DEF Activate, files, memory
  <2>2. state[p] = "owner"
    BY <1>2 DEF Activate
  <2> QED
    BY <1>1, <2>1, <2>2
<1>3. CASE StoreReadsMark(p)
  <2> DEFINE call == [at |-> "read", n |-> mark]
  <2>1. act' = [act EXCEPT ![p] = call] /\ UNCHANGED <<hwm, mark, state, epoch, activatedEpoch>>
    BY <1>3 DEF StoreReadsMark, files, memory
  <2>2. state[p] \notin {"idle", "dead"}
    BY <1>3 DEF StoreReadsMark, EpochsKnown
  <2> QED
    BY <1>1, <2>1, <2>2
<1>4. CASE ActivateReconciles(p)
  <2>1. /\ act' = [act EXCEPT ![p] = [at |-> "fencing", n |-> epoch[p]]]
        /\ act[p].at = "read"
        /\ hwm' = hwm
        /\ UNCHANGED <<mark, state, epoch, activatedEpoch>>
    BY <1>4 DEF ActivateReconciles, StoreIsBehind, memory, Larger, EpochsKnown, TypeOK
  <2> QED
    BY <2>1 DEF EpochsKnown, ActivateKeepsEpoch, ActivatedIsFenced, TypeOK
<1>5. ASSUME NEW outcome \in Outcome, ActivateBumps(p, outcome)
      PROVE  Goal
  <2> DEFINE granted == Larger(act[p].n, Larger(hwm, epoch[p])) + 1
  <2>1. granted \in Nat /\ granted > hwm /\ hwm \in Nat
    BY DEF Larger, TypeOK
  <2>2. /\ hwm' = Larger(hwm, granted)
        /\ act[p].at = "read"
        /\ UNCHANGED <<mark, state, activatedEpoch>>
        /\ \/ /\ epoch' = [epoch EXCEPT ![p] = granted]
              /\ act' = [act EXCEPT ![p] = [at |-> "fencing", n |-> granted]]
           \/ /\ epoch' = epoch
              /\ act' = [act EXCEPT ![p] = NoCall]
    BY <1>5 DEF ActivateBumps
  <2> HIDE DEF granted
  <2>3. hwm' = granted
    BY <2>1, <2>2 DEF Larger
  <2>4. CASE /\ epoch' = [epoch EXCEPT ![p] = granted]
             /\ act' = [act EXCEPT ![p] = [at |-> "fencing", n |-> granted]]
    <3>1. EpochsKnown'
      BY <2>1, <2>2, <2>3, <2>4 DEF EpochsKnown, TypeOK
    <3>2. ActivateKeepsEpoch'
      BY <2>1, <2>2, <2>4 DEF ActivateKeepsEpoch, TypeOK
    <3>3. ActivatedIsFenced'
      BY <2>1, <2>2, <2>4 DEF ActivatedIsFenced, EpochsKnown, TypeOK
    <3> QED
      BY <3>1, <3>2, <3>3
  <2>5. CASE epoch' = epoch /\ act' = [act EXCEPT ![p] = NoCall]
    BY <2>1, <2>2, <2>3, <2>5 DEF EpochsKnown, ActivateKeepsEpoch, ActivatedIsFenced, TypeOK
  <2> QED
    BY <2>2, <2>4, <2>5
<1>6. CASE ActivateFindsLoss(p)
  <2>1. /\ act' = [act EXCEPT ![p] = NoCall]
        /\ state' = state \/ state' = [state EXCEPT ![p] = "fenced"]
        /\ UNCHANGED <<hwm, mark, epoch, activatedEpoch>>
        /\ state[p] # "owner" => state' = state
    BY <1>6 DEF ActivateFindsLoss, MarkLost, files
  <2> QED
    BY <2>1 DEF EpochsKnown, ActivateKeepsEpoch, ActivatedIsFenced, TypeOK
<1>7. CASE StoreRaisesMark(p)
  <2>1. CASE act[p].n < mark
    <3>1. act' = [act EXCEPT ![p] = NoCall] /\ UNCHANGED <<hwm, mark, state, epoch, activatedEpoch>>
      BY <1>7, <2>1 DEF StoreRaisesMark, files, memory
    <3> QED
      BY <1>1, <3>1
  <2>2. CASE ~ (act[p].n < mark)
    <3>1. /\ act[p].at = "fencing"
          /\ mark' = act[p].n
          /\ act' = [act EXCEPT ![p].at = "raised"]
          /\ UNCHANGED <<hwm, state, epoch, activatedEpoch>>
          /\ mark' >= mark /\ mark' \in Nat
      BY <1>7, <2>2 DEF StoreRaisesMark, files, memory, TypeOK
    <3> QED
      BY <3>1 DEF EpochsKnown, ActivateKeepsEpoch, ActivatedIsFenced, TypeOK
  <2> QED
    BY <2>1, <2>2
<1>8. CASE ActivateDone(p)
  <2>1. /\ act[p].at = "raised"
        /\ act' = [act EXCEPT ![p] = NoCall]
        /\ UNCHANGED <<hwm, mark, state, epoch>>
        /\ IF state[p] = "owner"
           THEN activatedEpoch' = [activatedEpoch EXCEPT ![p] = epoch[p]]
           ELSE UNCHANGED activatedEpoch
    BY <1>8 DEF ActivateDone, files
  <2> QED
    BY <2>1 DEF EpochsKnown, ActivateKeepsEpoch, ActivatedIsFenced, TypeOK
<1>9. ASSUME NEW raised \in BOOLEAN, ActivateFails(p, raised)
      PROVE  Goal
  <2>1. /\ act' = [act EXCEPT ![p] = NoCall]
        /\ mark' >= mark /\ mark' \in Nat
        /\ UNCHANGED <<hwm, state, epoch, activatedEpoch>>
    BY <1>9 DEF ActivateFails, files, memory, TypeOK
  <2> QED
    BY <2>1 DEF EpochsKnown, ActivateKeepsEpoch, ActivatedIsFenced, TypeOK
<1> QED
  BY <1>2, <1>3, <1>4, <1>5, <1>6, <1>7, <1>8, <1>9 DEF ActivateStep

LEMMA FenceWrite ==
  ASSUME FenceInv, NEW p \in Proc, WriteStep(p)
  PROVE  EpochsKnown' /\ ActivateKeepsEpoch' /\ ActivatedIsFenced'
<1> USE DEF FenceInv
<1>1. ASSUME mark' \in Nat, mark' >= mark, UNCHANGED <<hwm, state, epoch, activatedEpoch, act>>
      PROVE  EpochsKnown' /\ ActivateKeepsEpoch' /\ ActivatedIsFenced'
  BY <1>1 DEF EpochsKnown, ActivateKeepsEpoch, ActivatedIsFenced, TypeOK
<1>2. mark \in Nat /\ inFlight[p] \subseteq Nat /\ orphaned[p] \subseteq Nat
  BY DEF TypeOK
<1>3. CASE Dispatch(p) \/ RefusePaused(p)
  BY <1>1, <1>2, <1>3 DEF Dispatch, RefusePaused, files, calls
<1>4. ASSUME NEW e \in inFlight[p], WriteCommits(p, e)
      PROVE  mark' \in Nat /\ mark' >= mark /\ UNCHANGED <<hwm, state, epoch, activatedEpoch, act>>
  BY <1>2, <1>4 DEF WriteCommits, Commit, files, memory
<1>5. ASSUME NEW e \in inFlight[p], WriteRejected(p, e) \/ LoseWorker(p, e)
      PROVE  mark' \in Nat /\ mark' >= mark /\ UNCHANGED <<hwm, state, epoch, activatedEpoch, act>>
  BY <1>2, <1>5 DEF WriteRejected, LoseWorker, files, memory
<1>6. ASSUME NEW e \in orphaned[p], NEW commits \in BOOLEAN, OrphanEnds(p, e, commits)
      PROVE  mark' \in Nat /\ mark' >= mark /\ UNCHANGED <<hwm, state, epoch, activatedEpoch, act>>
  BY <1>2, <1>6 DEF OrphanEnds, Commit, files, memory
<1> QED
  BY <1>1, <1>3, <1>4, <1>5, <1>6 DEF WriteStep

LEMMA FencePause ==
  ASSUME NEW p \in Proc, PauseStep(p)
  PROVE  UNCHANGED core
  BY DEF PauseStep, PauseForRestore, DrainDone, DrainTimeout, ResumeAfterRestore, files, memory, core

LEMMA FenceStep ==
  ASSUME Overlap = FALSE, FenceInv, [Next]_vars
  PROVE  FenceInv'
<1>1. TypeOK'
  BY TypeStep DEF FenceInv
<1>2. CASE Tick \/ ForeignPause \/ UNCHANGED vars
  BY <1>1, <1>2, FenceCore DEF Tick, ForeignPause, vars, files, memory, calls, core, FenceInv
<1>3. CASE LoseControlDir
  BY <1>1, <1>3 DEF LoseControlDir, AllDown, memory, calls, FenceInv, EpochsKnown,
                    ActivateKeepsEpoch, ActivatedIsFenced
<1>4. ASSUME NEW older \in 0..MaxEpoch, RestoreStore(older)
      PROVE  FenceInv'
  BY <1>1, <1>4 DEF RestoreStore, AllDown, files, memory, calls, FenceInv, EpochsKnown,
                    ActivateKeepsEpoch, ActivatedIsFenced
<1> QED
  BY <1>1, <1>2, <1>3, <1>4, FenceLease, FenceActivate, FenceWrite, FencePause, FenceCore
     DEF Next, FenceInv

LEMMA FenceInvariant == Overlap = FALSE => (Spec => []FenceInv)
<1> SUFFICES ASSUME Overlap = FALSE
             PROVE  Spec => []FenceInv
  OBVIOUS
<1>1. FenceInv /\ [Next]_vars => FenceInv'
  BY FenceStep
<1> QED
  BY FenceInit, <1>1, PTL DEF Spec

\* As long as activate() is awaited before the next acquire(), the guard lets an
\* owner write only after the store was raised to its epoch: for any number of
\* processes, crashes, failed writes, lost control directories and old stores.
THEOREM OwnersAreFenced == Overlap = FALSE => (Spec => []ActivatedIsFenced)
<1> SUFFICES ASSUME Overlap = FALSE
             PROVE  Spec => []ActivatedIsFenced
  OBVIOUS
<1>1. FenceInv => ActivatedIsFenced
  BY DEF FenceInv
<1> QED
  BY FenceInvariant, <1>1, PTL

\* Whatever commits carries an epoch the fence has let through.
LEMMA CommitsAreFenced ==
  ASSUME TypeOK, [Next]_vars, log' # log
  PROVE  log'[Len(log')][2] >= mark
<1>1. log \in Seq(Proc \X Nat)
  BY DEF TypeOK
<1>2. ASSUME NEW p \in Proc, NEW e, Commit(p, e)
      PROVE  log'[Len(log')][2] >= mark
  <2>1. log' = Append(log, <<p, e>>) /\ e >= mark
    BY <1>2 DEF Commit
  <2>2. Len(log') = Len(log) + 1 /\ log'[Len(log) + 1] = <<p, e>>
    BY <1>1, <2>1
  <2> QED
    BY <2>1, <2>2
<1>3. ASSUME NEW p \in Proc, LeaseStep(p)
      PROVE  log' = log
  BY <1>3 DEF LeaseStep, AcquireRenews, AcquireGrants, AcquireSkips, Renew, WithOwnedLease,
              DiscoverLoss, Release, Crash
<1>4. ASSUME NEW p \in Proc, ActivateStep(p)
      PROVE  log' = log
  BY <1>4 DEF ActivateStep, Activate, StoreReadsMark, ActivateReconciles, ActivateBumps,
              ActivateFindsLoss, StoreRaisesMark, ActivateDone, ActivateFails
<1>5. ASSUME NEW p \in Proc, PauseStep(p)
      PROVE  log' = log
  BY <1>5 DEF PauseStep, PauseForRestore, DrainDone, DrainTimeout, ResumeAfterRestore
<1>6. ASSUME NEW p \in Proc, WriteStep(p)
      PROVE  log' = log \/ \E e \in Nat : Commit(p, e)
  <2>1. inFlight[p] \subseteq Nat /\ orphaned[p] \subseteq Nat
    BY DEF TypeOK
  <2> QED
    BY <1>6, <2>1 DEF WriteStep, Dispatch, RefusePaused, WriteCommits, WriteRejected, LoseWorker,
                      OrphanEnds
<1>7. Tick \/ ForeignPause \/ LoseControlDir \/ UNCHANGED vars => log' = log
  BY DEF Tick, ForeignPause, LoseControlDir, vars
<1>8. ASSUME NEW older \in 0..MaxEpoch, RestoreStore(older)
      PROVE  log' = log
  BY <1>8 DEF RestoreStore
<1> QED
  BY <1>2, <1>3, <1>4, <1>5, <1>6, <1>7, <1>8 DEF Next

\* No zombie commits: once an owner has activated, nothing below its epoch enters
\* the log, not from a queue, not from a thread somebody else has given up on.
THEOREM ZombiesAreFenced == Overlap = FALSE => (Spec => NoZombieCommit)
<1> SUFFICES ASSUME Overlap = FALSE
             PROVE  Spec => NoZombieCommit
  OBVIOUS
<1> DEFINE Fenced ==
      \A q \in Proc :
        /\ Len(log') > Len(log)
        /\ state[q] = "owner" /\ activatedEpoch[q] = epoch[q]
        => log'[Len(log')][2] >= epoch[q]
<1>1. ASSUME FenceInv, [Next]_vars
      PROVE  Fenced
  <2> SUFFICES ASSUME NEW q \in Proc, Len(log') > Len(log),
                      state[q] = "owner", activatedEpoch[q] = epoch[q]
               PROVE  log'[Len(log')][2] >= epoch[q]
    OBVIOUS
  <2>1. log' # log
    BY <1>1 DEF FenceInv, TypeOK
  <2>2. mark >= epoch[q] /\ mark \in Nat /\ epoch[q] \in Nat
    BY <1>1 DEF FenceInv, ActivatedIsFenced, TypeOK
  <2>3. log'[Len(log')][2] >= mark
    BY <1>1, <2>1, CommitsAreFenced DEF FenceInv
  <2>4. log'[Len(log')][2] \in Nat
    <3>1. log' \in Seq(Proc \X Nat)
      BY <1>1, TypeStep DEF FenceInv, TypeOK
    <3>2. Len(log) \in Nat
      BY <1>1 DEF FenceInv, TypeOK
    <3>3. Len(log') \in 1..Len(log')
      BY <3>1, <3>2
    <3>4. log'[Len(log')] \in Proc \X Nat
      BY <3>1, <3>3
    <3> QED
      BY <3>4
  <2> QED
    BY <2>2, <2>3, <2>4
<1>2. FenceInv /\ [Next]_vars => [Fenced]_vars
  BY <1>1
<1> QED
  BY FenceInvariant, <1>2, PTL DEF Spec, NoZombieCommit

-----------------------------------------------------------------------------
(***************************************************************************)
(* StorageCoordinator hands out ever larger epochs and implements          *)
(* EpochFencing, as long as its control directory is not lost and no older *)
(* store is put in place: for every number of coordinators, every crash,   *)
(* every failed or half-failed file write, every lost worker.              *)
(***************************************************************************)

NoDisaster == Max["disaster"] = 0

\* Nobody was ever granted an epoch above the high-water mark, and no epoch was
\* granted twice.
GrantsKnown ==
  /\ \A g \in grants : g[2] <= hwm
  /\ \A g, h \in grants : g[2] = h[2] => g = h

\* Every epoch a coordinator holds, sends to the store, or writes with was
\* granted to it.
EpochsGranted ==
  \A p \in Proc :
    /\ epoch[p] # 0 => <<p, epoch[p]>> \in grants
    /\ state[p] = "owner" \/ act[p].at # "none" => epoch[p] # 0
    /\ act[p].at = "fencing" => <<p, act[p].n>> \in grants
    /\ \A e \in inFlight[p] \cup orphaned[p] : <<p, e>> \in grants

LogGranted == \A i \in DOMAIN log : log[i] \in grants

GrantInv == TypeOK /\ GrantsKnown /\ EpochsGranted /\ LogGranted

\* The two ways a step can treat grants.
NewGrant(p) ==
  \E e \in Nat :
    /\ e > hwm /\ hwm' = e
    /\ epoch' = [epoch EXCEPT ![p] = e]
    /\ grants' = grants \cup {<<p, e>>}

NoGrant ==
  /\ grants' = grants
  /\ hwm' \in Nat /\ hwm' >= hwm
  /\ \A q \in Proc : epoch'[q] \in {0, epoch[q]}

LEMMA GrantInit == Init => GrantInv
  BY TypeInit DEF Init, GrantInv, GrantsKnown, EpochsGranted, LogGranted, NoCall

LEMMA GrantedAbove ==
  ASSUME TypeOK, NEW dbHwm \in {0, mark}
  PROVE  Granted(dbHwm) \in Nat /\ Granted(dbHwm) > hwm /\ hwm \in Nat
<1>1. CASE lease = None
  BY <1>1 DEF TypeOK, Granted, Known, Larger
<1>2. CASE lease # None
  <2>1. lease.epoch \in Nat
    BY <1>2 DEF TypeOK, Lease
  <2> QED
    BY <1>2, <2>1 DEF TypeOK, Granted, Known, Larger
<1> QED
  BY <1>1, <1>2

LEMMA GrantsOfLeaseStep ==
  ASSUME TypeOK, NEW p \in Proc, LeaseStep(p)
  PROVE  NewGrant(p) \/ NoGrant
<1>0. hwm \in Nat /\ epoch \in [Proc -> Nat]
  BY DEF TypeOK
<1>1. ASSUME NEW dbHwm \in {0, mark}, NEW outcome \in Outcome,
             AcquireRenews(p, dbHwm, outcome)
      PROVE  NoGrant
  BY <1>0, <1>1 DEF AcquireRenews, NoGrant
<1>2. ASSUME NEW dbHwm \in {0, mark}, NEW outcome \in Outcome,
             AcquireGrants(p, dbHwm, outcome)
      PROVE  NewGrant(p) \/ NoGrant
  <2>1. /\ hwm' = Granted(dbHwm)
        /\ \/ grants' = grants /\ epoch' = epoch
           \/ /\ epoch' = [epoch EXCEPT ![p] = Granted(dbHwm)]
              /\ grants' = grants \cup {<<p, Granted(dbHwm)>>}
    BY <1>2, GrantedAbove DEF AcquireGrants, Larger
  <2> QED
    BY <1>0, <2>1, GrantedAbove DEF NewGrant, NoGrant
<1>3. ASSUME NEW dbHwm \in {0, mark}, AcquireSkips(p, dbHwm)
      PROVE  NoGrant
  BY <1>0, <1>3, GrantedAbove DEF AcquireSkips, memory, NoGrant
<1>4. ASSUME NEW outcome \in Outcome, Renew(p, outcome) \/ WithOwnedLease(p, outcome)
      PROVE  NoGrant
  BY <1>0, <1>4 DEF Renew, WithOwnedLease, NoGrant
<1>5. CASE DiscoverLoss(p)
  BY <1>0, <1>5 DEF DiscoverLoss, files, NoGrant
<1>6. ASSUME NEW removed \in BOOLEAN, Release(p, removed)
      PROVE  NoGrant
  BY <1>0, <1>6 DEF Release, NoGrant
<1>7. CASE Crash(p)
  BY <1>0, <1>7 DEF Crash, files, NoGrant
<1> QED
  BY <1>1, <1>2, <1>3, <1>4, <1>5, <1>6, <1>7 DEF LeaseStep

LEMMA GrantsOfActivateStep ==
  ASSUME TypeOK, NEW p \in Proc, ActivateStep(p)
  PROVE  NewGrant(p) \/ NoGrant
<1>0. hwm \in Nat /\ epoch \in [Proc -> Nat] /\ act[p].n \in Nat
  BY DEF TypeOK
<1>1. ASSUME NEW outcome \in Outcome, ActivateBumps(p, outcome)
      PROVE  NewGrant(p) \/ NoGrant
  <2> DEFINE granted == Larger(act[p].n, Larger(hwm, epoch[p])) + 1
  <2>1. granted \in Nat /\ granted > hwm
    BY <1>0 DEF Larger
  <2>2. /\ hwm' = Larger(hwm, granted)
        /\ \/ grants' = grants /\ epoch' = epoch
           \/ /\ epoch' = [epoch EXCEPT ![p] = granted]
              /\ grants' = grants \cup {<<p, granted>>}
    BY <1>1 DEF ActivateBumps
  <2> HIDE DEF granted
  <2>3. hwm' = granted
    BY <1>0, <2>1, <2>2 DEF Larger
  <2> QED
    BY <1>0, <2>1, <2>2, <2>3 DEF NewGrant, NoGrant
<1>2. CASE ActivateReconciles(p)
  BY <1>0, <1>2 DEF ActivateReconciles, Larger, memory, NoGrant
<1>3. CASE Activate(p) \/ StoreReadsMark(p) \/ ActivateFindsLoss(p) \/ StoreRaisesMark(p) \/ ActivateDone(p)
  BY <1>0, <1>3 DEF Activate, StoreReadsMark, ActivateFindsLoss, StoreRaisesMark, ActivateDone,
                    files, memory, NoGrant
<1>4. ASSUME NEW raised \in BOOLEAN, ActivateFails(p, raised)
      PROVE  NoGrant
  BY <1>0, <1>4 DEF ActivateFails, files, memory, NoGrant
<1> QED
  BY <1>1, <1>2, <1>3, <1>4 DEF ActivateStep

\* Writes and pauses leave epochs alone.
LEMMA GrantsOfOtherSteps ==
  ASSUME TypeOK, NEW p \in Proc, WriteStep(p) \/ PauseStep(p)
  PROVE  NoGrant /\ UNCHANGED <<epoch, hwm, state, act>>
<1>0. hwm \in Nat /\ epoch \in [Proc -> Nat]
  BY DEF TypeOK
<1>1. UNCHANGED <<grants, epoch, hwm, state, act>>
  BY DEF WriteStep, Dispatch, RefusePaused, WriteCommits, WriteRejected, LoseWorker, OrphanEnds,
         PauseStep, PauseForRestore, DrainDone, DrainTimeout, ResumeAfterRestore,
         files, memory, calls
<1> QED
  BY <1>0, <1>1 DEF NoGrant

\* Without a disaster no step of the environment touches an epoch.
LEMMA GrantsOfEnvironment ==
  ASSUME TypeOK, NoDisaster,
         \/ Tick \/ ForeignPause \/ LoseControlDir \/ UNCHANGED vars
         \/ \E older \in 0..MaxEpoch : RestoreStore(older)
  PROVE  NoGrant /\ UNCHANGED <<hwm, mark, epoch, state, calls, log>>
<1>0. hwm \in Nat /\ epoch \in [Proc -> Nat]
  BY DEF TypeOK
<1>1. ~ Spend("disaster")
  BY DEF Spend, NoDisaster, TypeOK, Rare
<1>2. Tick \/ ForeignPause \/ UNCHANGED vars
  BY <1>1 DEF LoseControlDir, RestoreStore
<1> QED
  BY <1>0, <1>2 DEF Tick, ForeignPause, vars, files, memory, calls, NoGrant

-----------------------------------------------------------------------------
(* GrantInv is inductive *)

LEMMA NewGrantKnown ==
  ASSUME GrantInv, NEW p \in Proc, NewGrant(p)
  PROVE  GrantsKnown' /\ grants \subseteq grants'
<1>1. PICK e \in Nat : /\ e > hwm /\ hwm' = e
                       /\ grants' = grants \cup {<<p, e>>}
  BY DEF NewGrant
<1>2. \A g \in grants : g[2] \in Nat /\ g[2] < e
  BY <1>1 DEF GrantInv, GrantsKnown, TypeOK
<1>3. \A g \in grants' : g[2] <= e
  BY <1>1, <1>2
<1>4. \A g, h \in grants' : g[2] = h[2] => g = h
  BY <1>1, <1>2 DEF GrantInv, GrantsKnown
<1> QED
  BY <1>1, <1>3, <1>4 DEF GrantsKnown

LEMMA NoGrantKnown ==
  ASSUME GrantInv, NoGrant
  PROVE  GrantsKnown' /\ grants \subseteq grants'
  BY DEF GrantInv, GrantsKnown, NoGrant, TypeOK

\* The steps of the lease: an epoch in memory is a granted one, or none.
LEMMA LeaseKeepsGranted ==
  ASSUME GrantInv, NEW p \in Proc, LeaseStep(p), grants \subseteq grants'
  PROVE  EpochsGranted' /\ LogGranted'
<1>0. /\ epoch \in [Proc -> Nat] /\ state \in [Proc -> States] /\ hwm \in Nat
      /\ act \in [Proc -> [at : {"none", "reading", "read", "fencing", "raised"}, n : Nat]]
      /\ inFlight \in [Proc -> SUBSET Nat] /\ orphaned \in [Proc -> SUBSET Nat]
  BY DEF GrantInv, TypeOK
<1>1. log' = log
  BY DEF LeaseStep, AcquireRenews, AcquireGrants, AcquireSkips, Renew, WithOwnedLease,
         DiscoverLoss, Release, Crash
<1>2. LogGranted'
  BY <1>1 DEF LogGranted, GrantInv
<1> SUFFICES EpochsGranted'
  BY <1>2
<1>3. ASSUME UNCHANGED <<epoch, calls>>, \A q \in Proc : state'[q] = "owner" => state[q] = "owner"
      PROVE  EpochsGranted'
  BY <1>3 DEF EpochsGranted, GrantInv, calls
<1>4. ASSUME NEW dbHwm \in {0, mark}, NEW outcome \in Outcome,
             AcquireRenews(p, dbHwm, outcome) \/ Renew(p, outcome) \/ WithOwnedLease(p, outcome)
      PROVE  EpochsGranted'
  BY <1>3, <1>4 DEF AcquireRenews, Renew, WithOwnedLease
<1>5. ASSUME NEW dbHwm \in {0, mark}, NEW outcome \in Outcome,
             AcquireGrants(p, dbHwm, outcome)
      PROVE  EpochsGranted'
  <2>1. Granted(dbHwm) \in Nat /\ Granted(dbHwm) # 0
    BY GrantedAbove DEF GrantInv
  <2>2. CASE UNCHANGED <<epoch, state>>
    BY <1>3, <1>5, <2>2 DEF AcquireGrants
  <2>3. CASE ~ UNCHANGED <<epoch, state>>
    <3>1. /\ epoch' = [epoch EXCEPT ![p] = Granted(dbHwm)]
          /\ state' = [state EXCEPT ![p] = "owner"]
          /\ <<p, Granted(dbHwm)>> \in grants'
          /\ UNCHANGED <<act, inFlight, orphaned>>
      BY <1>5, <2>3 DEF AcquireGrants, calls
    <3> QED
      BY <1>0, <2>1, <3>1 DEF EpochsGranted, GrantInv
  <2> QED
    BY <2>2, <2>3
<1>6. ASSUME NEW dbHwm \in {0, mark}, AcquireSkips(p, dbHwm)
      PROVE  EpochsGranted'
  BY <1>3, <1>6 DEF AcquireSkips, memory
<1>7. CASE DiscoverLoss(p)
  BY <1>0, <1>3, <1>7 DEF DiscoverLoss, MarkLost
<1>8. ASSUME NEW removed \in BOOLEAN, Release(p, removed)
      PROVE  EpochsGranted'
  BY <1>0, <1>3, <1>8 DEF Release
<1>9. CASE Crash(p)
  <2>1. /\ state' = [state EXCEPT ![p] = "dead"]
        /\ epoch' = [epoch EXCEPT ![p] = 0]
        /\ act' = [act EXCEPT ![p] = NoCall]
        /\ inFlight' = [inFlight EXCEPT ![p] = {}]
        /\ orphaned' = [orphaned EXCEPT ![p] = {}]
    BY <1>9 DEF Crash
  <2> QED
    BY <1>0, <2>1 DEF EpochsGranted, GrantInv, NoCall
<1> QED
  BY <1>4, <1>5, <1>6, <1>7, <1>8, <1>9 DEF LeaseStep

\* The steps of activate(): what is sent to the store was granted.
LEMMA ActivateKeepsGranted ==
  ASSUME GrantInv, NEW p \in Proc, ActivateStep(p), grants \subseteq grants'
  PROVE  EpochsGranted' /\ LogGranted'
<1>0. /\ epoch \in [Proc -> Nat] /\ state \in [Proc -> States] /\ hwm \in Nat
      /\ act \in [Proc -> [at : {"none", "reading", "read", "fencing", "raised"}, n : Nat]]
      /\ inFlight \in [Proc -> SUBSET Nat] /\ orphaned \in [Proc -> SUBSET Nat]
  BY DEF GrantInv, TypeOK
<1>1. UNCHANGED <<log, inFlight, orphaned>>
  BY DEF ActivateStep, Activate, StoreReadsMark, ActivateReconciles, ActivateBumps,
         ActivateFindsLoss, StoreRaisesMark, ActivateDone, ActivateFails
<1>2. LogGranted'
  BY <1>1 DEF LogGranted, GrantInv
<1> SUFFICES EpochsGranted'
  BY <1>2
<1>3. ASSUME NEW call, act' = [act EXCEPT ![p] = call],
             call.at # "none" => epoch[p] # 0,
             call.at = "fencing" => <<p, call.n>> \in grants,
             \A q \in Proc : state'[q] = "owner" => state[q] = "owner",
             epoch' = epoch
      PROVE  EpochsGranted'
  BY <1>0, <1>1, <1>3 DEF EpochsGranted, GrantInv
<1>4. CASE Activate(p)
  <2> DEFINE call == [at |-> "reading", n |-> 0]
  <2>1. act' = [act EXCEPT ![p] = call] /\ UNCHANGED <<state, epoch>> /\ epoch[p] # 0
    BY <1>4 DEF Activate, memory, EpochsGranted, GrantInv
  <2> QED
    BY <1>3, <2>1
<1>5. CASE StoreReadsMark(p)
  <2> DEFINE call == [at |-> "read", n |-> mark]
  <2>1. act' = [act EXCEPT ![p] = call] /\ UNCHANGED <<state, epoch>> /\ epoch[p] # 0
    BY <1>5 DEF StoreReadsMark, memory, EpochsGranted, GrantInv
  <2> QED
    BY <1>3, <2>1
<1>6. CASE ActivateReconciles(p)
  <2> DEFINE call == [at |-> "fencing", n |-> epoch[p]]
  <2>1. act' = [act EXCEPT ![p] = call] /\ UNCHANGED <<state, epoch>> /\ epoch[p] # 0
    BY <1>6 DEF ActivateReconciles, memory, EpochsGranted, GrantInv
  <2>2. <<p, epoch[p]>> \in grants
    BY <2>1 DEF EpochsGranted, GrantInv
  <2> QED
    BY <1>3, <2>1, <2>2
<1>7. ASSUME NEW outcome \in Outcome, ActivateBumps(p, outcome)
      PROVE  EpochsGranted'
  <2> DEFINE granted == Larger(act[p].n, Larger(hwm, epoch[p])) + 1
  <2>1. granted \in Nat /\ granted # 0
    BY <1>0 DEF Larger
  <2>2. /\ act[p].at = "read" /\ state' = state
        /\ \/ /\ epoch' = [epoch EXCEPT ![p] = granted]
              /\ act' = [act EXCEPT ![p] = [at |-> "fencing", n |-> granted]]
              /\ <<p, granted>> \in grants'
           \/ /\ epoch' = epoch
              /\ act' = [act EXCEPT ![p] = NoCall]
    BY <1>7 DEF ActivateBumps
  <2> HIDE DEF granted
  <2>3. CASE /\ epoch' = [epoch EXCEPT ![p] = granted]
             /\ act' = [act EXCEPT ![p] = [at |-> "fencing", n |-> granted]]
             /\ <<p, granted>> \in grants'
    BY <1>0, <1>1, <2>1, <2>2, <2>3 DEF EpochsGranted, GrantInv
  <2>4. CASE epoch' = epoch /\ act' = [act EXCEPT ![p] = NoCall]
    BY <1>3, <2>2, <2>4 DEF NoCall
  <2> QED
    BY <2>2, <2>3, <2>4
<1>8. CASE ActivateFindsLoss(p)
  BY <1>0, <1>3, <1>8 DEF ActivateFindsLoss, MarkLost, NoCall
<1>9. CASE StoreRaisesMark(p)
  <2> DEFINE call == [at |-> "raised", n |-> act[p].n]
  <2>1. /\ epoch[p] # 0 /\ UNCHANGED <<state, epoch>>
        /\ act' = [act EXCEPT ![p] = NoCall] \/ act' = [act EXCEPT ![p] = call]
    BY <1>0, <1>9 DEF StoreRaisesMark, memory, EpochsGranted, GrantInv
  <2> QED
    BY <1>3, <2>1 DEF NoCall
<1>10. CASE ActivateDone(p)
  BY <1>3, <1>10 DEF ActivateDone, NoCall
<1>11. ASSUME NEW raised \in BOOLEAN, ActivateFails(p, raised)
       PROVE  EpochsGranted'
  BY <1>3, <1>11 DEF ActivateFails, memory, NoCall
<1> QED
  BY <1>4, <1>5, <1>6, <1>7, <1>8, <1>9, <1>10, <1>11 DEF ActivateStep

\* A guarded write carries the epoch of its coordinator, and keeps it.
LEMMA WriteKeepsGranted ==
  ASSUME GrantInv, NEW p \in Proc, WriteStep(p) \/ PauseStep(p)
  PROVE  EpochsGranted' /\ LogGranted'
<1>0. /\ inFlight \in [Proc -> SUBSET Nat] /\ orphaned \in [Proc -> SUBSET Nat]
      /\ log \in Seq(Proc \X Nat) /\ TypeOK
  BY DEF GrantInv, TypeOK
<1>1. UNCHANGED <<grants, epoch, state, act>>
  BY <1>0, GrantsOfOtherSteps DEF NoGrant
<1>2. ASSUME \A q \in Proc : \A e \in inFlight'[q] \cup orphaned'[q] : <<q, e>> \in grants,
             log' = log
      PROVE  EpochsGranted' /\ LogGranted'
  BY <1>1, <1>2 DEF EpochsGranted, LogGranted, GrantInv
<1>3. ASSUME NEW g \in grants, log' = Append(log, g),
             \A q \in Proc : \A e \in inFlight'[q] \cup orphaned'[q] : <<q, e>> \in grants
      PROVE  EpochsGranted' /\ LogGranted'
  <2>1. \A i \in DOMAIN log' : log'[i] \in grants
    <3>1. DOMAIN log' = 1..(Len(log) + 1) /\ DOMAIN log = 1..Len(log)
      BY <1>0, <1>3
    <3>2. \A i \in 1..Len(log) : log'[i] = log[i]
      BY <1>0, <1>3
    <3>3. log'[Len(log) + 1] = g
      BY <1>0, <1>3
    <3> QED
      BY <3>1, <3>2, <3>3 DEF GrantInv, LogGranted
  <2> QED
    BY <1>1, <1>3, <2>1 DEF EpochsGranted, LogGranted, GrantInv
<1>4. \A q \in Proc : \A e \in inFlight[q] \cup orphaned[q] : <<q, e>> \in grants
  BY DEF GrantInv, EpochsGranted
<1>5. CASE Dispatch(p)
  <2>1. /\ inFlight' = [inFlight EXCEPT ![p] = @ \cup {epoch[p]}]
        /\ state[p] = "owner" /\ UNCHANGED <<orphaned, log>>
    BY <1>5 DEF Dispatch
  <2>2. <<p, epoch[p]>> \in grants
    BY <2>1 DEF GrantInv, EpochsGranted
  <2> QED
    BY <1>0, <1>2, <1>4, <2>1, <2>2
<1>6. CASE RefusePaused(p)
  BY <1>2, <1>4, <1>6 DEF RefusePaused, calls
<1>7. ASSUME NEW e \in inFlight[p], WriteCommits(p, e)
      PROVE  EpochsGranted' /\ LogGranted'
  <2>1. /\ log' = Append(log, <<p, e>>) /\ orphaned' = orphaned
        /\ inFlight' = [inFlight EXCEPT ![p] = @ \ {e}]
    BY <1>7 DEF WriteCommits, Commit, Settle
  <2> QED
    BY <1>0, <1>3, <1>4, <2>1
<1>8. ASSUME NEW e \in inFlight[p], WriteRejected(p, e)
      PROVE  EpochsGranted' /\ LogGranted'
  <2>1. /\ log' = log /\ orphaned' = orphaned
        /\ inFlight' = [inFlight EXCEPT ![p] = @ \ {e}]
    BY <1>8 DEF WriteRejected, Settle
  <2> QED
    BY <1>0, <1>2, <1>4, <2>1
<1>9. ASSUME NEW e \in inFlight[p], LoseWorker(p, e)
      PROVE  EpochsGranted' /\ LogGranted'
  <2>1. /\ log' = log /\ orphaned' = [orphaned EXCEPT ![p] = @ \cup {e}]
        /\ inFlight' = [inFlight EXCEPT ![p] = @ \ {e}]
    BY <1>9 DEF LoseWorker, Settle
  <2> QED
    BY <1>0, <1>2, <1>4, <2>1
<1>10. ASSUME NEW e \in orphaned[p], NEW commits \in BOOLEAN, OrphanEnds(p, e, commits)
       PROVE  EpochsGranted' /\ LogGranted'
  <2>1. /\ inFlight' = inFlight
        /\ orphaned' = [orphaned EXCEPT ![p] = @ \ {e}]
        /\ log' = log \/ log' = Append(log, <<p, e>>)
    BY <1>10 DEF OrphanEnds, Commit
  <2> QED
    BY <1>0, <1>2, <1>3, <1>4, <2>1
<1>11. CASE PauseStep(p)
  <2>1. UNCHANGED <<inFlight, orphaned, log>>
    BY <1>11 DEF PauseStep, PauseForRestore, DrainDone, DrainTimeout, ResumeAfterRestore
  <2> QED
    BY <1>2, <1>4, <2>1
<1> QED
  BY <1>5, <1>6, <1>7, <1>8, <1>9, <1>10, <1>11 DEF WriteStep

LEMMA EnvironmentKeepsGranted ==
  ASSUME GrantInv, NoGrant, UNCHANGED <<epoch, state, calls, log>>
  PROVE  EpochsGranted' /\ LogGranted'
  BY DEF GrantInv, NoGrant, EpochsGranted, LogGranted, calls

\* What a step can do to epochs and grants, whoever takes it.
LEMMA GrantsOfStep ==
  ASSUME NoDisaster, TypeOK, [Next]_vars
  PROVE  (\E p \in Proc : NewGrant(p)) \/ NoGrant
  BY GrantsOfLeaseStep, GrantsOfActivateStep, GrantsOfOtherSteps, GrantsOfEnvironment DEF Next

LEMMA GrantStep ==
  ASSUME NoDisaster, GrantInv, [Next]_vars
  PROVE  GrantInv'
<1>1. TypeOK'
  BY TypeStep DEF GrantInv
<1>2. GrantsKnown' /\ grants \subseteq grants'
  BY GrantsOfStep, NewGrantKnown, NoGrantKnown DEF GrantInv
<1>3. EpochsGranted' /\ LogGranted'
  <2>1. ASSUME NEW p \in Proc, LeaseStep(p) \/ ActivateStep(p) \/ WriteStep(p) \/ PauseStep(p)
        PROVE  EpochsGranted' /\ LogGranted'
    BY <1>2, <2>1, LeaseKeepsGranted, ActivateKeepsGranted, WriteKeepsGranted
  <2>2. CASE \/ Tick \/ ForeignPause \/ LoseControlDir \/ UNCHANGED vars
             \/ \E older \in 0..MaxEpoch : RestoreStore(older)
    BY <2>2, GrantsOfEnvironment, EnvironmentKeepsGranted DEF GrantInv
  <2> QED
    BY <2>1, <2>2 DEF Next
<1> QED
  BY <1>1, <1>2, <1>3 DEF GrantInv

LEMMA GrantInvariant == NoDisaster => (Spec => []GrantInv)
<1> SUFFICES ASSUME NoDisaster
             PROVE  Spec => []GrantInv
  OBVIOUS
<1>1. GrantInv /\ [Next]_vars => GrantInv'
  BY GrantStep
<1> QED
  BY GrantInit, <1>1, PTL DEF Spec

-----------------------------------------------------------------------------
(* Theorems *)

\* acquire() and activate(): every granted epoch exceeds every one granted before,
\* through crashes and control-file writes that fail or fail halfway.
THEOREM EpochsGrow == NoDisaster => (Spec => GrantExceedsAll)
<1> SUFFICES ASSUME NoDisaster
             PROVE  Spec => GrantExceedsAll
  OBVIOUS
<1> DEFINE Exceeds ==
      \A p \in Proc : epoch'[p] \notin {0, epoch[p]} => \A g \in grants : epoch'[p] > g[2]
<1>1. ASSUME GrantInv, [Next]_vars
      PROVE  Exceeds
  <2>1. CASE NoGrant
    BY <2>1 DEF NoGrant
  <2>2. ASSUME NEW p \in Proc, NewGrant(p)
        PROVE  Exceeds
    <3>1. PICK e \in Nat : e > hwm /\ epoch' = [epoch EXCEPT ![p] = e]
      BY <2>2 DEF NewGrant
    <3>2. \A g \in grants : g[2] \in Nat /\ g[2] <= hwm
      BY <1>1 DEF GrantInv, GrantsKnown, TypeOK
    <3>3. epoch \in [Proc -> Nat] /\ hwm \in Nat
      BY <1>1 DEF GrantInv, TypeOK
    <3> QED
      BY <3>1, <3>2, <3>3
  <2> QED
    BY <1>1, <2>1, <2>2, GrantsOfStep DEF GrantInv
<1>2. GrantInv /\ [Next]_vars => [Exceeds]_vars
  BY <1>1
<1> QED
  BY GrantInvariant, <1>2, PTL DEF Spec, GrantExceedsAll

\* An epoch in the log names one coordinator.
THEOREM EpochsIdentify == NoDisaster => (Spec => []EpochIdentifiesWriter)
<1> SUFFICES ASSUME NoDisaster
             PROVE  Spec => []EpochIdentifiesWriter
  OBVIOUS
<1>1. GrantInv => EpochIdentifiesWriter
  BY DEF GrantInv, GrantsKnown, LogGranted, EpochIdentifiesWriter
<1> QED
  BY GrantInvariant, <1>1, PTL

abstractVars == <<grants, mark, log>>

LEMMA GrantRefines ==
  ASSUME GrantInv, NEW p \in Proc, NewGrant(p) \/ NoGrant, UNCHANGED <<mark, log>>
  PROVE  Abstract!Next \/ UNCHANGED abstractVars
<1>1. CASE NoGrant
  BY <1>1 DEF NoGrant, abstractVars
<1>2. CASE NewGrant(p)
  <2>1. PICK e \in Nat : e > hwm /\ grants' = grants \cup {<<p, e>>}
    BY <1>2 DEF NewGrant
  <2>2. \A g \in grants : e > g[2]
    BY <2>1 DEF GrantInv, GrantsKnown, TypeOK
  <2>3. Abstract!Grant(p, e)
    BY <2>1, <2>2 DEF Abstract!Grant
  <2>4. e \in {g[2] : g \in grants'}
    <3>1. <<p, e>> \in grants' /\ <<p, e>>[2] = e
      BY <2>1
    <3> QED
      BY <3>1, Zenon
  <2> QED
    BY <2>3, <2>4 DEF Abstract!Next
<1> QED
  BY <1>1, <1>2

LEMMA StepRefines ==
  ASSUME NoDisaster, GrantInv, [Next]_vars
  PROVE  [Abstract!Next]_abstractVars
<1> DEFINE Goal == Abstract!Next \/ UNCHANGED abstractVars
<1>0. TypeOK
  BY DEF GrantInv
<1>1. ASSUME NEW p \in Proc, LeaseStep(p)
      PROVE  Goal
  <2>1. UNCHANGED <<mark, log>>
    BY <1>1 DEF LeaseStep, AcquireRenews, AcquireGrants, AcquireSkips, Renew, WithOwnedLease,
                DiscoverLoss, Release, Crash
  <2> QED
    BY <1>0, <1>1, <2>1, GrantsOfLeaseStep, GrantRefines
<1>2. ASSUME NEW p \in Proc, ActivateStep(p)
      PROVE  Goal
  <2>1. CASE UNCHANGED <<mark, log>>
    BY <1>0, <1>2, <2>1, GrantsOfActivateStep, GrantRefines
  <2>2. CASE StoreRaisesMark(p) \/ \E raised \in BOOLEAN : ActivateFails(p, raised)
    <3>1. /\ UNCHANGED <<grants, log>>
          /\ \/ mark' = mark
             \/ act[p].at = "fencing" /\ act[p].n >= mark /\ mark' = act[p].n
      BY <1>0, <2>2 DEF StoreRaisesMark, ActivateFails, TypeOK
    <3>2. CASE mark' = mark
      BY <3>1, <3>2 DEF abstractVars
    <3>3. CASE act[p].at = "fencing" /\ act[p].n >= mark /\ mark' = act[p].n
      <4>1. <<p, act[p].n>> \in grants
        BY <3>3 DEF GrantInv, EpochsGranted
      <4>2. Abstract!Raise(<<p, act[p].n>>[2])
        BY <3>1, <3>3 DEF Abstract!Raise
      <4> QED
        BY <4>1, <4>2 DEF Abstract!Next
    <3> QED
      BY <3>1, <3>2, <3>3
  <2>3. \/ UNCHANGED <<mark, log>>
        \/ StoreRaisesMark(p) \/ \E raised \in BOOLEAN : ActivateFails(p, raised)
    BY <1>2 DEF ActivateStep, Activate, StoreReadsMark, ActivateReconciles, ActivateBumps,
                ActivateFindsLoss, ActivateDone
  <2> QED
    BY <2>1, <2>2, <2>3
<1>3. ASSUME NEW p \in Proc, WriteStep(p)
      PROVE  Goal
  <2>1. grants' = grants
    BY <1>0, <1>3, GrantsOfOtherSteps DEF NoGrant
  <2>2. ASSUME NEW e \in inFlight[p] \cup orphaned[p], Commit(p, e)
        PROVE  Goal
    <3>1. <<p, e>> \in grants
      BY DEF GrantInv, EpochsGranted
    <3>2. Abstract!Write(<<p, e>>)
      BY <2>1, <2>2, <3>1 DEF Abstract!Write, Commit
    <3> QED
      BY <3>1, <3>2 DEF Abstract!Next
  <2>3. CASE UNCHANGED <<mark, log>>
    BY <2>1, <2>3 DEF abstractVars
  <2>4. \/ UNCHANGED <<mark, log>>
        \/ \E e \in inFlight[p] \cup orphaned[p] : Commit(p, e)
    BY <1>3 DEF WriteStep, Dispatch, RefusePaused, WriteCommits, WriteRejected, LoseWorker,
                OrphanEnds, files, memory
  <2> QED
    BY <2>2, <2>3, <2>4
<1>4. ASSUME NEW p \in Proc, PauseStep(p)
      PROVE  Goal
  BY <1>4 DEF PauseStep, PauseForRestore, DrainDone, DrainTimeout, ResumeAfterRestore,
              files, abstractVars
<1>5. CASE \/ Tick \/ ForeignPause \/ LoseControlDir \/ UNCHANGED vars
           \/ \E older \in 0..MaxEpoch : RestoreStore(older)
  BY <1>0, <1>5, GrantsOfEnvironment DEF NoGrant, abstractVars
<1> QED
  BY <1>1, <1>2, <1>3, <1>4, <1>5 DEF Next

\* The coordinator implements the abstract epoch authority.
THEOREM Implements == NoDisaster => (Spec => ImplementsEpochFencing)
<1> SUFFICES ASSUME NoDisaster
             PROVE  Spec => ImplementsEpochFencing
  OBVIOUS
<1>1. Init => Abstract!Init
  BY DEF Init, Abstract!Init
<1>2. GrantInv /\ [Next]_vars => [Abstract!Next]_abstractVars
  BY StepRefines
<1>3. (Init => Abstract!Init) /\ (Spec => []GrantInv) => (Spec => Abstract!Spec)
  BY <1>2, PTL DEF Spec, Abstract!Spec, abstractVars
<1> QED
  BY <1>1, <1>3, GrantInvariant DEF ImplementsEpochFencing

-----------------------------------------------------------------------------
(***************************************************************************)
(* A coordinator that believes its lease is live owns the lease file,      *)
(* unless its own last write of a control file has failed: for every       *)
(* number of coordinators, whatever writes of the others fail, every       *)
(* crash, lost control directory and older store.                          *)
(***************************************************************************)

\* The lease in the file is p's, with the expiry p has in memory, and nobody has
\* been granted a higher epoch.
Holds(p) ==
  /\ lease # None
  /\ lease.owner = p
  /\ lease.epoch = epoch[p]
  /\ lease.expiresAt = expiresAt[p]
  /\ hwm <= epoch[p]

\* No epoch in memory is above the mark; what never acquired, or is dead, has
\* none and no call under way.
EpochsBelow ==
  \A p \in Proc :
    /\ epoch[p] <= hwm
    /\ state[p] \in {"idle", "dead"} => epoch[p] = 0 /\ act[p].at = "none"

Live(p) == state[p] = "owner" /\ now < expiresAt[p] /\ ~ failed[p]

LiveHolds == \A p \in Proc : Live(p) => Holds(p)

OwnerIs(p) == lease # None /\ lease.owner = p

LeaseInv == TypeOK /\ EpochsBelow /\ LiveHolds

LEMMA LeaseInit == Init => LeaseInv
  BY TypeInit DEF Init, LeaseInv, EpochsBelow, LiveHolds, Live, NoCall

\* Nobody but p writes the lease file or the mark while p's lease is live.
LEMMA KeepsFile ==
  ASSUME LeaseInv, UNCHANGED <<hwm, lease, state, epoch, expiresAt, failed, act>>, now' >= now, now' \in Nat
  PROVE  EpochsBelow' /\ LiveHolds'
  BY DEF LeaseInv, TypeOK, EpochsBelow, LiveHolds, Live, Holds

\* A step of p that leaves the lease file in p's own hand.
LEMMA Rewrites ==
  ASSUME LeaseInv, NEW p \in Proc, NEW granted \in Nat,
         WriteLease(p, granted, "ok"),
         epoch' = [epoch EXCEPT ![p] = granted],
         hwm' = granted, hwm' >= hwm,
         UNCHANGED now,
         \A q \in Proc : q # p => state'[q] = state[q] /\ act'[q] = act[q],
         state'[p] \notin {"idle", "dead"},
         \A q \in Proc \ {p} : ~ Live(q)
  PROVE  EpochsBelow' /\ LiveHolds'
<1>0. /\ epoch \in [Proc -> Nat] /\ expiresAt \in [Proc -> Nat] /\ hwm \in Nat /\ now \in Nat
      /\ failed \in [Proc -> BOOLEAN]
  BY DEF LeaseInv, TypeOK
<1>1. /\ lease' = [owner |-> p, epoch |-> granted, expiresAt |-> now + TTL]
      /\ expiresAt' = [expiresAt EXCEPT ![p] = now + TTL]
      /\ \A q \in Proc \ {p} : failed'[q] = failed[q]
  BY <1>0 DEF WriteLease
<1>2. EpochsBelow'
  BY <1>0 DEF LeaseInv, EpochsBelow
<1>3. lease' # None
  <2>1. now + TTL \in Nat
    BY <1>0, CoordinatorAssumption
  <2>2. lease' \in Lease
    BY <1>1, <2>1 DEF Lease
  <2> QED
    BY <2>2, CoordinatorAssumption
<1>4. Holds(p)'
  BY <1>0, <1>1, <1>3 DEF Holds
<1>5. \A q \in Proc \ {p} : ~ Live(q)'
  BY <1>0, <1>1 DEF Live
<1> QED
  BY <1>2, <1>4, <1>5 DEF LiveHolds

\* A step of p whose write of a control file is reported as failed: the mark may
\* have risen, the lease file may be p's or as before.
LEMMA Fails ==
  ASSUME LeaseInv, NEW p \in Proc, failed' = [failed EXCEPT ![p] = TRUE],
         hwm' \in Nat, hwm' >= hwm,
         UNCHANGED <<now, epoch, state>>,
         \A q \in Proc : q # p => expiresAt'[q] = expiresAt[q] /\ act'[q] = act[q],
         state[p] \in {"idle", "dead"} => act'[p] = act[p],
         \A q \in Proc \ {p} : ~ Live(q)
  PROVE  EpochsBelow' /\ LiveHolds'
<1>0. /\ epoch \in [Proc -> Nat] /\ hwm \in Nat /\ now \in Nat /\ failed \in [Proc -> BOOLEAN]
  BY DEF LeaseInv, TypeOK
<1>1. EpochsBelow'
  BY <1>0 DEF LeaseInv, EpochsBelow
<1>2. ~ Live(p)' /\ \A q \in Proc \ {p} : ~ Live(q)'
  BY <1>0 DEF Live
<1> QED
  BY <1>1, <1>2 DEF LiveHolds

\* A live lease of somebody else stops every writer of the lease file.
LEMMA OthersExcluded ==
  ASSUME LeaseInv, NEW p \in Proc, ~ Held(p) \/ OwnLease(p)
  PROVE  \A q \in Proc \ {p} : ~ Live(q)
<1> SUFFICES ASSUME NEW q \in Proc \ {p}, Live(q)
             PROVE  Held(p) /\ ~ OwnLease(p)
  OBVIOUS
<1>1. Holds(q)
  BY DEF LeaseInv, LiveHolds
<1> QED
  BY <1>1 DEF Holds, Held, OwnLease, Live

\* A coordinator that renews what it owns.
LEMMA Renews ==
  ASSUME LeaseInv, NEW p \in Proc, state[p] = "owner", hwm <= epoch[p],
         NEW outcome \in Outcome, WriteLease(p, epoch[p], outcome),
         \A q \in Proc \ {p} : ~ Live(q),
         UNCHANGED <<now, hwm, epoch, state, act>>
  PROVE  EpochsBelow' /\ LiveHolds'
<1>1. /\ epoch \in [Proc -> Nat] /\ hwm \in Nat /\ epoch[p] \in Nat
      /\ expiresAt \in [Proc -> Nat]
  BY DEF LeaseInv, TypeOK
<1>2. hwm = epoch[p]
  BY <1>1 DEF LeaseInv, EpochsBelow
<1>3. epoch' = [epoch EXCEPT ![p] = epoch[p]]
  BY <1>1
<1>4. CASE outcome = "ok"
  BY <1>1, <1>2, <1>3, <1>4, Rewrites
<1>5. CASE outcome # "ok"
  <2>1. /\ failed' = [failed EXCEPT ![p] = TRUE]
        /\ \A q \in Proc : q # p => expiresAt'[q] = expiresAt[q]
    BY <1>1, <1>5 DEF WriteLease
  <2>2. hwm' \in Nat /\ hwm' >= hwm
    BY <1>1
  <2>3. \A q \in Proc : q # p => expiresAt'[q] = expiresAt[q] /\ act'[q] = act[q]
    BY <2>1
  <2> QED
    BY <2>1, <2>2, <2>3, Fails
<1> QED
  BY <1>4, <1>5

\* A coordinator that ceases to be an owner, and takes at most its own file away.
LEMMA Leaves ==
  ASSUME LeaseInv, NEW p \in Proc, NEW s \in {"fenced", "released"},
         state[p] \notin {"idle", "dead"} \/ s = "released",
         state' = [state EXCEPT ![p] = s],
         lease' = lease \/ OwnerIs(p),
         UNCHANGED <<now, hwm, epoch, expiresAt, failed, act>>
  PROVE  EpochsBelow' /\ LiveHolds'
<1>0. state \in [Proc -> States]
  BY DEF LeaseInv, TypeOK
<1>1. EpochsBelow'
  BY <1>0 DEF LeaseInv, EpochsBelow
<1>2. ASSUME NEW q \in Proc, Live(q)'
      PROVE  Holds(q)'
  <2>1. q # p /\ Live(q)
    BY <1>0, <1>2 DEF Live
  <2>2. Holds(q)
    BY <2>1 DEF LeaseInv, LiveHolds
  <2>3. lease' = lease
    BY <2>1, <2>2 DEF Holds, OwnerIs
  <2> QED
    BY <2>2, <2>3 DEF Holds
<1> QED
  BY <1>1, <1>2 DEF LiveHolds

LEMMA GrantedAboveMark ==
  ASSUME TypeOK, NEW dbHwm \in {0, mark}
  PROVE  Granted(dbHwm) \in Nat /\ Granted(dbHwm) > hwm
<1>0. hwm \in Nat /\ mark \in Nat
  BY DEF TypeOK
<1>1. CASE lease = None
  BY <1>0, <1>1 DEF Granted, Known, Larger
<1>2. CASE lease # None
  <2>1. lease.epoch \in Nat
    BY <1>2 DEF TypeOK, Lease
  <2> QED
    BY <1>0, <1>2, <2>1 DEF Granted, Known, Larger
<1> QED
  BY <1>1, <1>2

LEMMA LeaseOfLeaseStep ==
  ASSUME LeaseInv, NEW p \in Proc, LeaseStep(p)
  PROVE  EpochsBelow' /\ LiveHolds'
<1>0. /\ epoch \in [Proc -> Nat] /\ hwm \in Nat /\ epoch[p] \in Nat /\ now \in Nat /\ mark \in Nat
      /\ state \in [Proc -> States] /\ TypeOK /\ epoch[p] <= hwm /\ expiresAt \in [Proc -> Nat]
  BY DEF LeaseInv, TypeOK, EpochsBelow
<1>1. ASSUME NEW dbHwm \in {0, mark}, NEW outcome \in Outcome,
             AcquireRenews(p, dbHwm, outcome)
      PROVE  EpochsBelow' /\ LiveHolds'
  <2>1. hwm <= epoch[p] /\ OwnLease(p)
    BY <1>0, <1>1 DEF AcquireRenews, Current, Known, Larger, OwnLease
  <2>2. /\ state[p] = "owner" /\ WriteLease(p, epoch[p], outcome)
        /\ UNCHANGED <<now, hwm, epoch, state, act>>
    BY <1>1 DEF AcquireRenews, Current, calls
  <2> QED
    BY <2>1, <2>2, OthersExcluded, Renews
<1>2. ASSUME NEW dbHwm \in {0, mark}, NEW outcome \in Outcome,
             AcquireGrants(p, dbHwm, outcome)
      PROVE  EpochsBelow' /\ LiveHolds'
  <2>1. Granted(dbHwm) \in Nat /\ Granted(dbHwm) > hwm
    BY <1>0, GrantedAboveMark
  <2>2. hwm' = Granted(dbHwm)
    BY <1>0, <1>2, <2>1 DEF AcquireGrants, Larger
  <2>3. \A q \in Proc \ {p} : ~ Live(q)
    BY <1>2, OthersExcluded DEF AcquireGrants
  <2>4. CASE outcome = "ok"
    <3>1. /\ WriteLease(p, Granted(dbHwm), "ok")
          /\ epoch' = [epoch EXCEPT ![p] = Granted(dbHwm)]
          /\ state' = [state EXCEPT ![p] = "owner"]
          /\ UNCHANGED <<now, act>>
      BY <1>2, <2>4 DEF AcquireGrants, calls
    <3>2. \A q \in Proc : q # p => state'[q] = state[q] /\ act'[q] = act[q]
      BY <1>0, <3>1
    <3>3. state'[p] \notin {"idle", "dead"} /\ hwm' >= hwm
      BY <1>0, <2>1, <2>2, <3>1
    <3> QED
      BY <2>1, <2>2, <2>3, <3>1, <3>2, <3>3, Rewrites
  <2>5. CASE outcome # "ok"
    <3>1. /\ failed' = [failed EXCEPT ![p] = TRUE]
          /\ \A q \in Proc : q # p => expiresAt'[q] = expiresAt[q]
          /\ UNCHANGED <<now, epoch, state, act>>
      BY <1>0, <1>2, <2>5 DEF AcquireGrants, WriteLease, calls
    <3>2. hwm' \in Nat /\ hwm' >= hwm
      BY <1>0, <2>1, <2>2
    <3>3. \A q \in Proc : q # p => expiresAt'[q] = expiresAt[q] /\ act'[q] = act[q]
      BY <3>1
    <3> QED
      BY <2>3, <3>1, <3>2, <3>3, Fails
  <2> QED
    BY <2>4, <2>5
<1>3. ASSUME NEW dbHwm \in {0, mark}, AcquireSkips(p, dbHwm)
      PROVE  EpochsBelow' /\ LiveHolds'
  <2>1. Granted(dbHwm) \in Nat /\ Granted(dbHwm) > hwm
    BY <1>0, GrantedAboveMark
  <2>2. /\ ~ Held(p) /\ hwm' = Granted(dbHwm)
        /\ failed' = [failed EXCEPT ![p] = TRUE]
        /\ UNCHANGED <<now, epoch, state, act, expiresAt>>
    BY <1>3 DEF AcquireSkips, calls
  <2>3. \A q \in Proc \ {p} : ~ Live(q)
    BY <2>2, OthersExcluded
  <2>4. hwm' \in Nat /\ hwm' >= hwm
    BY <1>0, <2>1, <2>2
  <2>5. \A q \in Proc : q # p => expiresAt'[q] = expiresAt[q] /\ act'[q] = act[q]
    BY <2>2
  <2> QED
    BY <2>2, <2>3, <2>4, <2>5, Fails
<1>4. ASSUME NEW outcome \in Outcome, Renew(p, outcome) \/ WithOwnedLease(p, outcome)
      PROVE  EpochsBelow' /\ LiveHolds'
  <2>1. /\ OwnLease(p) /\ state[p] = "owner" /\ WriteLease(p, epoch[p], outcome)
        /\ UNCHANGED <<now, hwm, epoch, state, act>>
    BY <1>4 DEF Renew, WithOwnedLease, calls
  <2> QED
    BY <2>1, OthersExcluded, Renews DEF OwnLease
<1>5. CASE DiscoverLoss(p)
  BY <1>5, Leaves DEF DiscoverLoss, MarkLost, files, calls
<1>6. ASSUME NEW removed \in BOOLEAN, Release(p, removed)
      PROVE  EpochsBelow' /\ LiveHolds'
  BY <1>6, Leaves DEF Release, OwnerIs, calls
<1>7. CASE Crash(p)
  <2>1. /\ state' = [state EXCEPT ![p] = "dead"]
        /\ epoch' = [epoch EXCEPT ![p] = 0]
        /\ act' = [act EXCEPT ![p] = NoCall]
        /\ \A q \in Proc : q # p => expiresAt'[q] = expiresAt[q] /\ failed'[q] = failed[q]
        /\ UNCHANGED <<hwm, lease, now>>
    BY <1>0, <1>7 DEF Crash, files, TypeOK
  <2>2. \A q \in Proc : Live(q)' => q # p /\ Live(q)
    BY <1>0, <2>1 DEF Live
  <2>3. \A q \in Proc : q # p /\ Holds(q) => Holds(q)'
    BY <1>0, <2>1 DEF Holds
  <2>4. EpochsBelow'
    BY <1>0, <2>1 DEF LeaseInv, TypeOK, EpochsBelow, NoCall
  <2> QED
    BY <2>2, <2>3, <2>4 DEF LeaseInv, LiveHolds
<1> QED
  BY <1>1, <1>2, <1>3, <1>4, <1>5, <1>6, <1>7 DEF LeaseStep

LEMMA LeaseOfActivateStep ==
  ASSUME LeaseInv, NEW p \in Proc, ActivateStep(p)
  PROVE  EpochsBelow' /\ LiveHolds'
<1>0. /\ epoch \in [Proc -> Nat] /\ hwm \in Nat /\ epoch[p] \in Nat /\ now \in Nat /\ mark \in Nat
      /\ state \in [Proc -> States] /\ TypeOK /\ epoch[p] <= hwm /\ act[p].n \in Nat
      /\ act \in [Proc -> [at : {"none", "reading", "read", "fencing", "raised"}, n : Nat]]
  BY DEF LeaseInv, TypeOK, EpochsBelow
<1>1. ASSUME UNCHANGED <<now, hwm, lease, state, epoch, expiresAt, failed>>,
             NEW call, act' = [act EXCEPT ![p] = call],
             call.at = "none" \/ state[p] \notin {"idle", "dead"}
      PROVE  EpochsBelow' /\ LiveHolds'
  BY <1>0, <1>1 DEF LeaseInv, EpochsBelow, LiveHolds, Live, Holds
<1>2. CASE Activate(p)
  <2> DEFINE call == [at |-> "reading", n |-> 0]
  <2>1. /\ act' = [act EXCEPT ![p] = call] /\ state[p] = "owner"
        /\ UNCHANGED <<now, hwm, lease, state, epoch, expiresAt, failed>>
    BY <1>2 DEF Activate, files, memory
  <2> QED
    BY <1>1, <2>1
<1>3. act[p].at # "none" => state[p] \notin {"idle", "dead"}
  BY DEF LeaseInv, EpochsBelow
<1>4. CASE StoreReadsMark(p)
  <2> DEFINE call == [at |-> "read", n |-> mark]
  <2>1. /\ act' = [act EXCEPT ![p] = call] /\ act[p].at # "none"
        /\ UNCHANGED <<now, hwm, lease, state, epoch, expiresAt, failed>>
    BY <1>4 DEF StoreReadsMark, files, memory
  <2> QED
    BY <1>1, <1>3, <2>1
<1>5. CASE ActivateReconciles(p)
  <2> DEFINE call == [at |-> "fencing", n |-> epoch[p]]
  <2>1. /\ act' = [act EXCEPT ![p] = call] /\ act[p].at # "none"
        /\ UNCHANGED <<now, lease, state, epoch, expiresAt, failed>>
        /\ hwm' = hwm
    BY <1>0, <1>5 DEF ActivateReconciles, StoreIsBehind, Larger, memory
  <2> QED
    BY <1>1, <1>3, <2>1
<1>6. ASSUME NEW outcome \in Outcome, ActivateBumps(p, outcome)
      PROVE  EpochsBelow' /\ LiveHolds'
  <2> DEFINE granted == Larger(act[p].n, Larger(hwm, epoch[p])) + 1
  <2>1. granted \in Nat /\ granted > hwm
    BY <1>0 DEF Larger
  <2>2. /\ WriteLease(p, granted, outcome) /\ OwnLease(p) /\ act[p].at # "none"
        /\ hwm' = Larger(hwm, granted)
        /\ UNCHANGED <<now, state>>
    BY <1>6 DEF ActivateBumps
  <2>3. CASE outcome = "ok"
    <3>1. /\ epoch' = [epoch EXCEPT ![p] = granted]
          /\ act' = [act EXCEPT ![p] = [at |-> "fencing", n |-> granted]]
      BY <1>6, <2>3 DEF ActivateBumps
    <3> HIDE DEF granted
    <3>2. hwm' = granted /\ hwm' >= hwm
      BY <1>0, <2>1, <2>2 DEF Larger
    <3>3. \A q \in Proc : q # p => state'[q] = state[q] /\ act'[q] = act[q]
      BY <1>0, <2>2, <3>1
    <3>4. state'[p] \notin {"idle", "dead"}
      BY <1>0, <1>3, <2>2
    <3>5. \A q \in Proc \ {p} : ~ Live(q)
      BY <2>2, OthersExcluded
    <3> QED
      BY <2>1, <2>2, <2>3, <3>1, <3>2, <3>3, <3>4, <3>5, Rewrites
  <2>4. CASE outcome # "ok"
    <3>1. /\ act' = [act EXCEPT ![p] = NoCall] /\ UNCHANGED epoch
      BY <1>6, <2>4 DEF ActivateBumps
    <3>2. /\ failed' = [failed EXCEPT ![p] = TRUE]
          /\ \A q \in Proc : q # p => expiresAt'[q] = expiresAt[q]
      BY <1>0, <2>2, <2>4 DEF WriteLease, LeaseInv, TypeOK
    <3> HIDE DEF granted
    <3>3. hwm' \in Nat /\ hwm' >= hwm
      BY <1>0, <2>1, <2>2 DEF Larger
    <3>4. \A q \in Proc \ {p} : ~ Live(q)
      BY <2>2, OthersExcluded
    <3>5. \A q \in Proc : q # p => act'[q] = act[q]
      BY <1>0, <3>1
    <3> QED
      BY <1>0, <1>3, <2>2, <3>1, <3>2, <3>3, <3>4, <3>5, Fails
  <2> QED
    BY <2>3, <2>4
<1>7. CASE ActivateFindsLoss(p)
  <2>1. CASE state[p] = "owner"
    <3>1. /\ state' = [state EXCEPT ![p] = "fenced"]
          /\ act' = [act EXCEPT ![p] = NoCall]
          /\ UNCHANGED <<now, hwm, lease, epoch, expiresAt, failed>>
      BY <1>7, <2>1 DEF ActivateFindsLoss, MarkLost, files
    <3> QED
      BY <1>0, <3>1 DEF LeaseInv, EpochsBelow, LiveHolds, Live, Holds, NoCall
  <2>2. CASE state[p] # "owner"
    BY <1>1, <1>7, <2>2 DEF ActivateFindsLoss, files, NoCall
  <2> QED
    BY <2>1, <2>2
<1>8. CASE StoreRaisesMark(p)
  <2> DEFINE call == [at |-> "raised", n |-> act[p].n]
  <2>1. /\ UNCHANGED <<now, hwm, lease, state, epoch, expiresAt, failed>> /\ act[p].at # "none"
        /\ act' = [act EXCEPT ![p] = NoCall] \/ act' = [act EXCEPT ![p] = call]
    BY <1>0, <1>8 DEF StoreRaisesMark, files, memory
  <2> QED
    BY <1>1, <1>3, <2>1
<1>9. CASE ActivateDone(p) \/ \E raised \in BOOLEAN : ActivateFails(p, raised)
  BY <1>1, <1>9 DEF ActivateDone, ActivateFails, files, memory, NoCall
<1> QED
  BY <1>2, <1>4, <1>5, <1>6, <1>7, <1>8, <1>9 DEF ActivateStep

LEMMA LeaseOfWriteStep ==
  ASSUME LeaseInv, NEW p \in Proc, WriteStep(p)
  PROVE  EpochsBelow' /\ LiveHolds'
<1>0. now \in Nat
  BY DEF LeaseInv, TypeOK
<1>1. CASE Dispatch(p)
  <2>1. CASE now >= expiresAt[p]
    <3>1. /\ OwnLease(p) /\ state[p] = "owner" /\ WriteLease(p, epoch[p], "ok")
          /\ UNCHANGED <<now, hwm, epoch, state, act>>
      BY <1>1, <2>1 DEF Dispatch
    <3> QED
      BY <3>1, OthersExcluded, Renews DEF OwnLease, Outcome
  <2>2. CASE ~ (now >= expiresAt[p])
    BY <1>0, <1>1, <2>2, KeepsFile DEF Dispatch
  <2> QED
    BY <2>1, <2>2
<1>2. CASE ~ Dispatch(p)
  <2>1. UNCHANGED <<hwm, lease, state, epoch, expiresAt, failed, act, now>>
    BY <1>2 DEF WriteStep, RefusePaused, WriteCommits, WriteRejected, LoseWorker, OrphanEnds,
                files, memory, calls
  <2> QED
    BY <1>0, <2>1, KeepsFile
<1> QED
  BY <1>1, <1>2

LEMMA LeaseStepPreserved ==
  ASSUME LeaseInv, [Next]_vars
  PROVE  LeaseInv'
<1>0. TypeOK' /\ now \in Nat
  BY TypeStep DEF LeaseInv, TypeOK
<1> SUFFICES EpochsBelow' /\ LiveHolds'
  BY <1>0 DEF LeaseInv
<1>1. ASSUME NEW p \in Proc, PauseStep(p)
      PROVE  EpochsBelow' /\ LiveHolds'
  <2>1. UNCHANGED <<hwm, lease, state, epoch, expiresAt, failed, act, now>>
    BY <1>1 DEF PauseStep, PauseForRestore, DrainDone, DrainTimeout, ResumeAfterRestore,
                files, memory
  <2> QED
    BY <1>0, <2>1, KeepsFile
<1>2. CASE Tick \/ ForeignPause \/ UNCHANGED vars
  <2>1. UNCHANGED <<hwm, lease, state, epoch, expiresAt, failed, act>> /\ now' >= now /\ now' \in Nat
    BY <1>0, <1>2 DEF Tick, ForeignPause, vars, files, memory, calls
  <2> QED
    BY <1>0, <2>1, KeepsFile
<1>3. CASE LoseControlDir
  BY <1>3 DEF LoseControlDir, AllDown, memory, calls, LeaseInv, EpochsBelow, LiveHolds, Live
<1>4. ASSUME NEW older \in 0..MaxEpoch, RestoreStore(older)
      PROVE  EpochsBelow' /\ LiveHolds'
  BY <1>0, <1>4, KeepsFile DEF RestoreStore, files, memory, calls
<1> QED
  BY <1>1, <1>2, <1>3, <1>4, LeaseOfLeaseStep, LeaseOfActivateStep, LeaseOfWriteStep DEF Next

\* The unchecked fast path of assertWritable() is safe for an owner whose last
\* write of a control file was durable: while the lease it remembers has not run
\* out it is the owner in the file, whoever else tries to acquire.
THEOREM LiveLeasesAreOurs == Spec => []LiveLeaseIsOurs
<1>1. LeaseInv /\ [Next]_vars => LeaseInv'
  BY LeaseStepPreserved
<1>2. LeaseInv => LiveLeaseIsOurs
  BY DEF LeaseInv, LiveHolds, Live, Holds, LiveLeaseIsOurs, OwnLease
<1> QED
  BY LeaseInit, <1>1, <1>2, PTL DEF Spec

-----------------------------------------------------------------------------
(***************************************************************************)
(* What a step does to the epochs, the activate() calls, the writes and    *)
(* the pauses of the coordinators, said coordinator by coordinator. The    *)
(* invariants of the rest of the module look at steps through these kinds. *)
(***************************************************************************)

Same(q) ==
  /\ state'[q] = state[q] /\ epoch'[q] = epoch[q]
  /\ activatedEpoch'[q] = activatedEpoch[q] /\ paused'[q] = paused[q]
  /\ act'[q] = act[q] /\ drain'[q] = drain[q]
  /\ inFlight'[q] = inFlight[q] /\ orphaned'[q] = orphaned[q]

\* Only p moves, and there is no disaster.
Alone(p) ==
  /\ \A q \in Proc \ {p} : Same(q)
  /\ spent'["disaster"] = spent["disaster"]

SameWrites(p) ==
  /\ drain'[p] = drain[p] /\ inFlight'[p] = inFlight[p] /\ orphaned'[p] = orphaned[p]
  /\ log' = log

\* acquire() or the bump of activate() succeeds.
Grants(p) ==
  /\ Alone(p) /\ SameWrites(p) /\ UNCHANGED <<marker, mark>>
  /\ hwm' > hwm /\ epoch'[p] = hwm' /\ activatedEpoch'[p] = activatedEpoch[p]
  /\ state[p] # "dead" /\ state'[p] \notin {"idle", "dead"}
  /\ \/ /\ act[p].at = "none" /\ act'[p] = act[p]
        /\ marker # None => paused'[p]
     \/ /\ act[p].at = "read" /\ act'[p] = [at |-> "fencing", n |-> hwm']
        /\ hwm' > act[p].n
        /\ hwm <= epoch[p] /\ paused'[p] = paused[p]

\* The other steps of a lease, of activate(), and a refused write.
Moves(p) ==
  /\ Alone(p) /\ SameWrites(p) /\ marker' = marker
  /\ hwm' >= hwm /\ mark' >= mark /\ epoch'[p] = epoch[p]
  /\ marker # None /\ paused[p] => paused'[p]
  /\ state'[p] = state[p] \/ (state[p] # "dead" /\ state'[p] \in {"fenced", "released"})
  /\ \/ activatedEpoch'[p] = activatedEpoch[p]
     \/ /\ activatedEpoch'[p] = epoch[p]
        /\ state[p] = "owner" /\ act[p].at = "raised"
  /\ \/ act'[p] = act[p]
     \/ act'[p].at \in {"none", "reading"}
     \/ act'[p] = [at |-> "read", n |-> mark]
     \/ act[p].at = "read" /\ act[p].n < epoch[p] /\ act'[p] = [at |-> "fencing", n |-> epoch[p]]
     \/ act[p].at = "fencing" /\ act'[p].at = "raised"

\* The guard lets a write through.
Sends(p) ==
  /\ Alone(p) /\ UNCHANGED <<marker, mark, hwm, log>>
  /\ state[p] = "owner" /\ activatedEpoch[p] = epoch[p]
  /\ marker = None \/ ~ paused[p]
  /\ state'[p] = state[p] /\ epoch'[p] = epoch[p] /\ activatedEpoch'[p] = activatedEpoch[p]
  /\ act'[p] = act[p] /\ drain'[p] = drain[p] /\ orphaned'[p] = orphaned[p]
  /\ marker # None /\ paused[p] => paused'[p]
  /\ inFlight'[p] = inFlight[p] \cup {epoch[p]}

\* A write ends, or a drain.
Settles(p) ==
  /\ Alone(p) /\ UNCHANGED <<marker, hwm>>
  /\ state'[p] = state[p] /\ epoch'[p] = epoch[p] /\ activatedEpoch'[p] = activatedEpoch[p]
  /\ paused'[p] = paused[p] /\ act'[p] = act[p]
  /\ inFlight'[p] \subseteq inFlight[p]
  /\ inFlight'[p] \cup orphaned'[p] \subseteq inFlight[p] \cup orphaned[p]
  /\ orphaned'[p] \subseteq orphaned[p] \/ spent["lost"] < Max["lost"]
  /\ drain'[p].at # "none" =>
       /\ drain[p].at # "none"
       /\ inFlight[p] \subseteq drain[p].waiting => inFlight'[p] \subseteq drain'[p].waiting
  /\ drain'[p].at = "drained" => drain[p].at = "drained" \/ drain[p].waiting = {}
  /\ \/ UNCHANGED <<mark, log>>
     \/ \E e \in inFlight[p] \cup orphaned[p] :
          e >= mark /\ mark' = e /\ log' = Append(log, <<p, e>>)

\* An owner's pause, or a resume, which ends all drains.
Pauses(p) ==
  /\ spent'["disaster"] = spent["disaster"] /\ UNCHANGED <<mark, hwm, log>>
  /\ state[p] = "owner" /\ hwm <= epoch[p]
  /\ \A q \in Proc :
       /\ state'[q] = state[q] /\ epoch'[q] = epoch[q]
       /\ activatedEpoch'[q] = activatedEpoch[q] /\ act'[q] = act[q]
       /\ inFlight'[q] = inFlight[q] /\ orphaned'[q] = orphaned[q]
  /\ \/ \A q \in Proc : drain'[q].at = "none"
     \/ /\ marker # None => marker' # None
        /\ \A q \in Proc \ {p} : paused'[q] = paused[q] /\ drain'[q] = drain[q]
        /\ paused[p] => paused'[p]
        /\ \/ drain'[p] = drain[p]
           \/ /\ marker' # None /\ paused'[p]
              /\ drain'[p].waiting = inFlight[p]
              /\ drain'[p].at = "drained" => inFlight[p] = {}

\* A process dies.
Dies(p) ==
  /\ Alone(p) /\ UNCHANGED <<marker, mark, hwm, log>>
  /\ state'[p] = "dead" /\ epoch'[p] = 0 /\ activatedEpoch'[p] = -1
  /\ act'[p] = NoCall /\ drain'[p] = NoDrain /\ inFlight'[p] = {} /\ orphaned'[p] = {}

\* Time passes, another tool pauses, or nothing happens.
World ==
  /\ UNCHANGED <<mark, hwm, log, memory, calls>> /\ spent'["disaster"] = spent["disaster"]
  /\ marker # None => marker' # None

Disaster ==
  /\ AllDown /\ UNCHANGED <<log, memory, calls>>
  /\ spent["disaster"] < Max["disaster"] /\ spent'["disaster"] = spent["disaster"] + 1
  /\ hwm' = hwm \/ mark' = mark

LEMMA KindsOfLease ==
  ASSUME Overlap = FALSE, FenceInv, TypeOK', NEW p \in Proc, LeaseStep(p)
  PROVE  Grants(p) \/ Moves(p) \/ Dies(p)
<1>0. TypeOK
  BY DEF FenceInv
<1>. USE DEF TypeOK
<1>1. ASSUME spent' = spent \/ Spend("io") \/ Spend("crash")
      PROVE  spent'["disaster"] = spent["disaster"]
  BY <1>0, <1>1 DEF Spend, Rare
<1>2. ASSUME ReadPause(p) \/ UNCHANGED <<paused, pauseCheckedAt>>
      PROVE  /\ \A q \in Proc \ {p} : paused'[q] = paused[q]
             /\ marker # None /\ paused[p] => paused'[p]
             /\ ReadPause(p) /\ marker # None => paused'[p]
  <2>1. CASE ReadPause(p)
    <3>1. paused \in [Proc -> BOOLEAN] /\ paused' = [paused EXCEPT ![p] = marker # None]
      BY <1>0, <2>1 DEF ReadPause
    <3>2. paused'[p] = (marker # None) /\ \A q \in Proc \ {p} : paused'[q] = paused[q]
      BY <3>1
    <3> QED
      BY <3>2
  <2>2. CASE ~ ReadPause(p)
    BY <1>2, <2>2
  <2> QED
    BY <2>1, <2>2
<1>3. ASSUME NEW dbHwm \in {0, mark}, NEW outcome \in Outcome,
             AcquireRenews(p, dbHwm, outcome) \/ Renew(p, outcome) \/ WithOwnedLease(p, outcome)
      PROVE  Moves(p)
  <2>1. /\ UNCHANGED <<hwm, marker, mark, state, epoch, activatedEpoch, calls, log>>
        /\ ReadPause(p) \/ UNCHANGED <<paused, pauseCheckedAt>>
        /\ spent' = spent \/ Spend("io")
    BY <1>3 DEF AcquireRenews, Renew, WithOwnedLease, Ends
  <2> QED
    BY <1>0, <1>1, <1>2, <2>1 DEF Moves, Alone, Same, SameWrites, calls
<1>4. ASSUME NEW dbHwm \in {0, mark}, NEW outcome \in Outcome, AcquireGrants(p, dbHwm, outcome)
      PROVE  Grants(p) \/ Moves(p)
  <2>1. /\ hwm' = Granted(dbHwm) /\ hwm' > hwm
        /\ act[p].at = "none" /\ state[p] # "dead"
        /\ UNCHANGED <<marker, mark, activatedEpoch, calls, log>>
        /\ spent' = spent \/ Spend("io")
        /\ \/ /\ epoch' = [epoch EXCEPT ![p] = Granted(dbHwm)]
              /\ state' = [state EXCEPT ![p] = "owner"]
              /\ ReadPause(p)
           \/ UNCHANGED <<epoch, state, paused, pauseCheckedAt>>
    <3>1. Granted(dbHwm) \in Nat /\ Granted(dbHwm) > hwm /\ hwm \in Nat
      BY <1>0, GrantedAbove
    <3>2. hwm' = Larger(hwm, Granted(dbHwm)) /\ act[p].at = "none" /\ state[p] # "dead"
      BY <1>4 DEF AcquireGrants, NoOverlap
    <3>3. hwm' = Granted(dbHwm)
      BY <3>1, <3>2 DEF Larger
    <3>4. spent' = spent \/ Spend("io")
      BY <1>4 DEF AcquireGrants, Ends
    <3>5. /\ UNCHANGED <<marker, mark, activatedEpoch, calls, log>>
          /\ \/ /\ epoch' = [epoch EXCEPT ![p] = Granted(dbHwm)]
                /\ state' = [state EXCEPT ![p] = "owner"]
                /\ ReadPause(p)
             \/ UNCHANGED <<epoch, state, paused, pauseCheckedAt>>
      BY <1>4 DEF AcquireGrants
    <3> QED
      BY <3>1, <3>2, <3>3, <3>4, <3>5
  <2>2. CASE UNCHANGED <<epoch, state, paused, pauseCheckedAt>>
    BY <1>0, <1>1, <2>1, <2>2 DEF Moves, Alone, Same, SameWrites, calls
  <2>3. CASE ~ UNCHANGED <<epoch, state, paused, pauseCheckedAt>>
    BY <1>0, <1>1, <1>2, <2>1, <2>3 DEF Grants, Alone, Same, SameWrites, calls
  <2> QED
    BY <2>2, <2>3
<1>5. ASSUME NEW dbHwm \in {0, mark}, AcquireSkips(p, dbHwm)
      PROVE  Moves(p)
  BY <1>0, <1>1, <1>5, GrantedAbove DEF AcquireSkips, memory, Moves, Alone, Same, SameWrites, calls
<1>6. CASE DiscoverLoss(p)
  BY <1>0, <1>1, <1>6 DEF DiscoverLoss, MarkLost, files, Moves, Alone, Same, SameWrites, calls
<1>7. ASSUME NEW removed \in BOOLEAN, Release(p, removed)
      PROVE  Moves(p)
  BY <1>0, <1>1, <1>7 DEF Release, Moves, Alone, Same, SameWrites, calls
<1>8. CASE Crash(p)
  BY <1>0, <1>1, <1>8 DEF Crash, files, Dies, Alone, Same, NoCall, NoDrain
<1> QED
  BY <1>3, <1>4, <1>5, <1>6, <1>7, <1>8 DEF LeaseStep

LEMMA LargestNext ==
  ASSUME NEW a \in Nat, NEW b \in Nat, NEW c \in Nat
  PROVE  LET e == Larger(a, Larger(b, c)) + 1 IN e \in Nat /\ e > a /\ e > b
  BY DEF Larger

LEMMA KindsOfActivate ==
  ASSUME FenceInv, TypeOK', NEW p \in Proc, ActivateStep(p)
  PROVE  Grants(p) \/ Moves(p)
<1>0. TypeOK
  BY DEF FenceInv
<1>. USE DEF TypeOK
<1>1. ASSUME spent' = spent \/ Spend("io")
      PROVE  spent'["disaster"] = spent["disaster"]
  BY <1>0, <1>1 DEF Spend, Rare
<1>2. CASE Activate(p) \/ StoreReadsMark(p) \/ ActivateReconciles(p)
  BY <1>0, <1>2 DEF Activate, StoreReadsMark, ActivateReconciles, StoreIsBehind, Larger, files, memory,
                    Moves, Alone, Same, SameWrites
<1>3. ASSUME NEW outcome \in Outcome, ActivateBumps(p, outcome)
      PROVE  Grants(p) \/ Moves(p)
  <2> DEFINE granted == Larger(act[p].n, Larger(hwm, epoch[p])) + 1
  <2>0. hwm \in Nat /\ epoch[p] \in Nat /\ act[p].n \in Nat
    BY <1>0
  <2>1. granted \in Nat /\ granted > hwm /\ granted > act[p].n
    BY <2>0, LargestNext
  <2>2. /\ hwm' = Larger(hwm, granted) /\ act[p].at = "read" /\ hwm <= epoch[p]
        /\ spent' = spent \/ Spend("io")
        /\ UNCHANGED <<marker, mark, state, activatedEpoch, paused, drain, inFlight, orphaned, log>>
        /\ \/ epoch' = epoch /\ act' = [act EXCEPT ![p] = NoCall]
           \/ /\ epoch' = [epoch EXCEPT ![p] = granted]
              /\ act' = [act EXCEPT ![p] = [at |-> "fencing", n |-> granted]]
    BY <1>3 DEF ActivateBumps, OwnLease, Ends
  <2> HIDE DEF granted
  <2>3. hwm' = granted
    BY <1>0, <2>1, <2>2 DEF Larger
  <2>4. state[p] \notin {"idle", "dead"}
    BY <2>2 DEF FenceInv, EpochsKnown
  <2> HIDE DEF FenceInv
  <2>5. CASE epoch' = epoch /\ act' = [act EXCEPT ![p] = NoCall]
    BY <1>0, <1>1, <2>1, <2>2, <2>3, <2>5 DEF Moves, Alone, Same, SameWrites, NoCall
  <2>6. CASE /\ epoch' = [epoch EXCEPT ![p] = granted]
             /\ act' = [act EXCEPT ![p] = [at |-> "fencing", n |-> granted]]
    BY <1>0, <1>1, <2>1, <2>2, <2>3, <2>4, <2>6 DEF Grants, Alone, Same, SameWrites
  <2> QED
    BY <2>2, <2>5, <2>6
<1>4. CASE ActivateFindsLoss(p)
  BY <1>0, <1>4 DEF ActivateFindsLoss, MarkLost, files, Moves, Alone, Same, SameWrites, NoCall
<1>5. CASE StoreRaisesMark(p)
  BY <1>0, <1>5 DEF StoreRaisesMark, files, memory, Moves, Alone, Same, SameWrites, NoCall
<1>6. ASSUME NEW raised \in BOOLEAN, ActivateFails(p, raised)
      PROVE  Moves(p)
  BY <1>0, <1>1, <1>6 DEF ActivateFails, files, memory, Moves, Alone, Same, SameWrites, NoCall
<1>7. CASE ActivateDone(p)
  BY <1>0, <1>7 DEF ActivateDone, files, Moves, Alone, Same, SameWrites, NoCall
<1> QED
  BY <1>2, <1>3, <1>4, <1>5, <1>6, <1>7 DEF ActivateStep

LEMMA KindsOfWrite ==
  ASSUME TypeOK, TypeOK', NEW p \in Proc, WriteStep(p)
  PROVE  Sends(p) \/ Moves(p) \/ Settles(p)
<1>. USE DEF TypeOK
<1>1. CASE Dispatch(p)
  <2>1. /\ state[p] = "owner" /\ activatedEpoch[p] = epoch[p]
        /\ inFlight' = [inFlight EXCEPT ![p] = @ \cup {epoch[p]}]
        /\ UNCHANGED <<marker, mark, hwm, log, state, epoch, activatedEpoch, act, drain, orphaned, spent>>
    BY <1>1 DEF Dispatch
  <2>2. marker = None \/ ~ paused[p]
    BY <1>1 DEF Dispatch, PauseView
  <2>3. ReadPause(p) \/ paused' = paused
    BY <1>1 DEF Dispatch
  <2> QED
    BY <2>1, <2>2, <2>3 DEF ReadPause, Sends, Alone, Same
<1>2. CASE RefusePaused(p)
  BY <1>2 DEF RefusePaused, ReadPause, files, calls, Moves, Alone, Same, SameWrites
<1>3. ASSUME NEW e \in inFlight[p], WriteCommits(p, e) \/ WriteRejected(p, e)
      PROVE  Settles(p)
  <2>1. /\ inFlight' = [inFlight EXCEPT ![p] = @ \ {e}]
        /\ drain' = [drain EXCEPT ![p].waiting = @ \ {e}]
        /\ UNCHANGED <<marker, hwm, state, epoch, activatedEpoch, paused, act, orphaned, spent>>
    BY <1>3 DEF WriteCommits, WriteRejected, Settle, files, memory
  <2>2. UNCHANGED <<mark, log>> \/ (e >= mark /\ mark' = e /\ log' = Append(log, <<p, e>>))
    BY <1>3 DEF WriteCommits, WriteRejected, Commit
  <2>3. /\ drain'[p].at = drain[p].at /\ drain'[p].waiting = drain[p].waiting \ {e}
        /\ \A q \in Proc \ {p} : drain'[q] = drain[q] /\ inFlight'[q] = inFlight[q]
        /\ inFlight'[p] = inFlight[p] \ {e}
    BY <2>1
  <2> QED
    BY <1>3, <2>1, <2>2, <2>3 DEF Settles, Alone, Same
<1>4. ASSUME NEW e \in inFlight[p], LoseWorker(p, e)
      PROVE  Settles(p)
  <2>1. spent["lost"] < Max["lost"] /\ spent'["disaster"] = spent["disaster"]
    BY <1>4 DEF LoseWorker, Spend, Rare
  <2> QED
    BY <1>4, <2>1 DEF LoseWorker, Settle, files, memory, Settles, Alone, Same
<1>5. ASSUME NEW e \in orphaned[p], NEW commits \in BOOLEAN, OrphanEnds(p, e, commits)
      PROVE  Settles(p)
  BY <1>5 DEF OrphanEnds, Commit, files, memory, Settles, Alone, Same
<1> QED
  BY <1>1, <1>2, <1>3, <1>4, <1>5 DEF WriteStep

LEMMA KindsOfPause ==
  ASSUME TypeOK, TypeOK', NEW p \in Proc, PauseStep(p)
  PROVE  Pauses(p) \/ Settles(p)
<1>. USE DEF TypeOK
<1>1. ASSUME NEW outcome \in Outcome, PauseForRestore(p, outcome)
      PROVE  Pauses(p)
  <2>1. spent'["disaster"] = spent["disaster"]
    BY <1>1 DEF PauseForRestore, Rare
  <2>2. marker' # None \/ (marker' = marker /\ outcome = "failed")
    BY <1>1, CoordinatorAssumption DEF PauseForRestore
  <2>3. state[p] = "owner" /\ hwm <= epoch[p]
    BY <1>1 DEF PauseForRestore, OwnLease
  <2>4. UNCHANGED <<mark, hwm, log, state, epoch, activatedEpoch, act, inFlight, orphaned>>
    BY <1>1 DEF PauseForRestore
  <2>5. CASE outcome = "ok"
    <3>1. /\ paused' = [paused EXCEPT ![p] = TRUE]
          /\ drain' = [drain EXCEPT ![p] =
               [at |-> IF inFlight[p] = {} THEN "drained" ELSE "draining", waiting |-> inFlight[p]]]
      BY <1>1, <2>5 DEF PauseForRestore
    <3> QED
      BY <2>1, <2>2, <2>3, <2>4, <2>5, <3>1 DEF Pauses
  <2>6. CASE outcome # "ok"
    <3>1. UNCHANGED <<paused, drain>>
      BY <1>1, <2>6 DEF PauseForRestore
    <3> QED
      BY <2>1, <2>2, <2>3, <2>4, <3>1 DEF Pauses
  <2> QED
    BY <2>5, <2>6
<1>2. CASE ResumeAfterRestore(p)
  BY <1>2 DEF ResumeAfterRestore, OwnLease, NoDrain, Pauses
<1>3. CASE DrainDone(p)
  BY <1>3 DEF DrainDone, files, memory, Settles, Alone, Same
<1>4. CASE DrainTimeout(p)
  BY <1>4 DEF DrainTimeout, NoDrain, files, memory, Settles, Alone, Same
<1> QED
  BY <1>1, <1>2, <1>3, <1>4 DEF PauseStep

LEMMA Kinds ==
  ASSUME Overlap = FALSE, FenceInv, [Next]_vars
  PROVE  \/ \E p \in Proc : \/ Grants(p) \/ Moves(p) \/ Sends(p) \/ Settles(p)
                            \/ Pauses(p) \/ Dies(p)
         \/ World \/ Disaster
<1>0. TypeOK /\ TypeOK'
  BY TypeStep DEF FenceInv
<1>1. CASE Tick \/ UNCHANGED vars
  BY <1>1 DEF Tick, vars, files, memory, calls, World
<1>2. CASE ForeignPause
  <2>1. marker' = now /\ spent'["disaster"] = spent["disaster"]
    BY <1>0, <1>2 DEF ForeignPause, Spend, TypeOK, Rare
  <2>2. marker' # None
    BY <1>0, <2>1, CoordinatorAssumption DEF TypeOK
  <2> QED
    BY <1>2, <2>1, <2>2 DEF ForeignPause, memory, calls, World
<1>3. ASSUME LoseControlDir \/ \E older \in 0..MaxEpoch : RestoreStore(older)
      PROVE  Disaster
  <2>1. Spend("disaster") => /\ spent["disaster"] < Max["disaster"]
                             /\ spent'["disaster"] = spent["disaster"] + 1
    BY <1>0 DEF Spend, TypeOK, Rare
  <2> QED
    BY <1>3, <2>1 DEF LoseControlDir, RestoreStore, files, memory, calls, Disaster
<1> QED
  BY <1>0, <1>1, <1>2, <1>3, KindsOfLease, KindsOfActivate, KindsOfWrite, KindsOfPause DEF Next

-----------------------------------------------------------------------------
(* No two coordinators hold an epoch in common *)

\* The epochs a coordinator holds and writes with.
Own(p) == ({epoch[p]} \cup inFlight[p] \cup orphaned[p]) \ {0}

OwnEpochs ==
  /\ \A p \in Proc :
       /\ \A e \in Own(p) : e <= hwm
       /\ 0 \notin inFlight[p] \cup orphaned[p]
       /\ state[p] \in {"idle", "dead"} => Own(p) = {} /\ drain[p].at = "none"
       /\ state[p] = "owner" => epoch[p] # 0
  /\ \A p, q \in Proc : p # q => Own(p) \cap Own(q) = {}

\* Also one that is not the owner any more, since the mark only rises while a
\* coordinator lives.
MarkReached ==
  \A p \in Proc : state[p] \notin {"idle", "dead"} /\ activatedEpoch[p] = epoch[p] => mark >= epoch[p]

OwnInv == FenceInv /\ OwnEpochs /\ MarkReached

LEMMA OwnTypes ==
  ASSUME TypeOK
  PROVE  /\ hwm \in Nat /\ mark \in Nat
         /\ \A p \in Proc : /\ epoch[p] \in Nat /\ inFlight[p] \subseteq Nat /\ orphaned[p] \subseteq Nat
                            /\ Own(p) \subseteq Nat
                            /\ activatedEpoch[p] \in Int /\ act[p].n \in Nat
  BY DEF TypeOK, Own

\* Whoever moves alone keeps what it owned, or adds what nobody has.
LEMMA OwnAlone ==
  ASSUME TypeOK, TypeOK', OwnEpochs, NEW p \in Proc, Alone(p), hwm' >= hwm,
         \/ Own(p)' \subseteq Own(p)
         \/ hwm' > hwm /\ Own(p)' \subseteq Own(p) \cup {hwm'},
         0 \notin (inFlight[p] \cup orphaned[p])',
         state'[p] \in {"idle", "dead"} => Own(p)' = {} /\ drain'[p].at = "none",
         state'[p] = "owner" => epoch'[p] # 0
  PROVE  OwnEpochs'
<1>0. hwm \in Nat /\ hwm' \in Nat /\ \A q \in Proc : Own(q) \subseteq Nat
  BY OwnTypes DEF TypeOK
<1>1. \A q \in Proc \ {p} : Own(q)' = Own(q)
  BY DEF Alone, Same, Own
<1>2. \A q \in Proc : \A e \in Own(q) : e <= hwm
  BY DEF OwnEpochs
<1>3. \A q, r \in Proc : q # r => Own(q) \cap Own(r) = {}
  BY DEF OwnEpochs
<1>4. ASSUME NEW q \in Proc, NEW e \in Own(q)'
      PROVE  e <= hwm'
  BY <1>0, <1>1, <1>2, <1>4
<1>5. ASSUME NEW q \in Proc, NEW r \in Proc, q # r
      PROVE  Own(q)' \cap Own(r)' = {}
  BY <1>0, <1>1, <1>2, <1>3, <1>5
<1>6. ASSUME NEW q \in Proc, q # p
      PROVE  /\ 0 \notin (inFlight[q] \cup orphaned[q])'
             /\ state'[q] \in {"idle", "dead"} => Own(q)' = {} /\ drain'[q].at = "none"
             /\ state'[q] = "owner" => epoch'[q] # 0
  BY <1>1, <1>6 DEF Alone, Same, OwnEpochs
<1> QED
  BY <1>4, <1>5, <1>6 DEF OwnEpochs

LEMMA OwnStep ==
  ASSUME Overlap = FALSE, OwnInv, [Next]_vars
  PROVE  OwnEpochs'
<1>0. TypeOK /\ TypeOK' /\ FenceInv /\ OwnEpochs
  BY TypeStep DEF OwnInv, FenceInv
<1>1. ASSUME NEW p \in Proc, Grants(p)
      PROVE  OwnEpochs'
  <2>1. Own(p)' \subseteq Own(p) \cup {hwm'}
    BY <1>1 DEF Grants, SameWrites, Own
  <2>2. /\ Alone(p) /\ hwm' > hwm /\ hwm' # 0 /\ hwm' >= hwm
        /\ state'[p] \notin {"idle", "dead"} /\ epoch'[p] = hwm'
    BY <1>0, <1>1 DEF Grants, TypeOK
  <2>3. 0 \notin (inFlight[p] \cup orphaned[p])'
    BY <1>0, <1>1 DEF Grants, SameWrites, OwnEpochs
  <2> QED
    BY <1>0, <2>1, <2>2, <2>3, OwnAlone
<1>2. ASSUME NEW p \in Proc, Moves(p)
      PROVE  OwnEpochs'
  <2>1. Own(p)' = Own(p)
    BY <1>2 DEF Moves, SameWrites, Own
  <2> QED
    BY <1>0, <1>2, <2>1, OwnAlone, OwnTypes DEF Moves, SameWrites, OwnEpochs
<1>3. ASSUME NEW p \in Proc, Sends(p)
      PROVE  OwnEpochs'
  <2>1. Own(p)' = Own(p)
    BY <1>3 DEF Sends, Own
  <2> QED
    BY <1>0, <1>3, <2>1, OwnAlone, OwnTypes DEF Sends, OwnEpochs
<1>4. ASSUME NEW p \in Proc, Settles(p)
      PROVE  OwnEpochs'
  <2>1. Own(p)' \subseteq Own(p)
    BY <1>4 DEF Settles, Own
  <2> QED
    BY <1>0, <1>4, <2>1, OwnAlone, OwnTypes DEF Settles, OwnEpochs
<1>5. ASSUME NEW p \in Proc, Pauses(p)
      PROVE  OwnEpochs'
  <2>1. \A q \in Proc : Own(q)' = Own(q) /\ state'[q] = state[q] /\ epoch'[q] = epoch[q]
    BY <1>5 DEF Pauses, Own
  <2>2. \A q \in Proc : drain'[q].at = "none" \/ drain'[q] = drain[q] \/ state[q] = "owner"
    BY <1>5 DEF Pauses
  <2> QED
    BY <1>0, <1>5, <2>1, <2>2 DEF Pauses, OwnEpochs
<1>6. ASSUME NEW p \in Proc, Dies(p)
      PROVE  OwnEpochs'
  <2>1. Own(p)' = {}
    BY <1>6 DEF Dies, Own
  <2> QED
    BY <1>0, <1>6, <2>1, OwnAlone, OwnTypes DEF Dies, NoDrain, OwnEpochs
<1>7. CASE World
  BY <1>0, <1>7 DEF World, memory, calls, Own, OwnEpochs
<1>8. CASE Disaster
  BY <1>0, <1>8 DEF Disaster, AllDown, memory, calls, Own, OwnEpochs
<1> QED
  BY <1>0, <1>1, <1>2, <1>3, <1>4, <1>5, <1>6, <1>7, <1>8, Kinds

LEMMA MarkStep ==
  ASSUME Overlap = FALSE, OwnInv, [Next]_vars
  PROVE  MarkReached'
<1>0. /\ TypeOK /\ TypeOK' /\ FenceInv /\ MarkReached
      /\ mark \in Nat /\ hwm \in Nat /\ mark' \in Nat
      /\ \A q \in Proc : epoch[q] \in Nat /\ activatedEpoch[q] \in Int /\ activatedEpoch[q] <= hwm
  BY TypeStep, OwnTypes DEF OwnInv, FenceInv, EpochsKnown, TypeOK
<1>1. ASSUME NEW p \in Proc, Alone(p), mark' >= mark,
             \/ state'[p] \in {"idle", "dead"}
             \/ activatedEpoch'[p] # epoch'[p]
             \/ mark >= epoch'[p]
      PROVE  MarkReached'
  <2>1. /\ \A q \in Proc \ {p} : Same(q)
        /\ epoch'[p] \in Nat
    BY <1>0, <1>1 DEF Alone, TypeOK
  <2>2. ASSUME NEW q \in Proc, q # p, state'[q] \notin {"idle", "dead"}, activatedEpoch'[q] = epoch'[q]
        PROVE  mark' >= epoch'[q]
    <3>1. state[q] \notin {"idle", "dead"} /\ activatedEpoch[q] = epoch[q] /\ epoch'[q] = epoch[q]
      BY <2>1, <2>2 DEF Same
    <3>2. mark >= epoch[q] /\ epoch[q] \in Nat
      BY <1>0, <3>1 DEF MarkReached
    <3> QED
      BY <1>0, <1>1, <3>1, <3>2
  <2>3. ASSUME state'[p] \notin {"idle", "dead"}, activatedEpoch'[p] = epoch'[p]
        PROVE  mark' >= epoch'[p]
    BY <1>0, <1>1, <2>1, <2>3
  <2> QED
    BY <2>2, <2>3 DEF MarkReached
<1>2. ASSUME NEW p \in Proc, Grants(p)
      PROVE  MarkReached'
  BY <1>0, <1>1, <1>2 DEF Grants
<1>3. ASSUME NEW p \in Proc, Moves(p)
      PROVE  MarkReached'
  <2>1. state[p] \in {"idle", "dead"} => activatedEpoch[p] = -1
    BY DEF OwnInv, FenceInv, EpochsKnown
  <2>2. state[p] = "owner" /\ act[p].at = "raised" => mark >= epoch[p]
    BY DEF OwnInv, FenceInv, ActivateKeepsEpoch
  <2> QED
    BY <1>0, <1>1, <1>3, <2>1, <2>2 DEF Moves, MarkReached
<1>4. ASSUME NEW p \in Proc, Sends(p) \/ Settles(p)
      PROVE  MarkReached'
  <2>1. mark' >= mark
    BY <1>0, <1>4 DEF Sends, Settles
  <2> QED
    BY <1>0, <1>1, <1>4, <2>1 DEF Sends, Settles, MarkReached
<1>5. ASSUME NEW p \in Proc, Pauses(p)
      PROVE  MarkReached'
  BY <1>0, <1>5 DEF Pauses, MarkReached
<1>6. ASSUME NEW p \in Proc, Dies(p)
      PROVE  MarkReached'
  BY <1>0, <1>1, <1>6 DEF Dies
<1>7. CASE World
  BY <1>0, <1>7 DEF World, memory, MarkReached
<1>8. CASE Disaster
  BY <1>8 DEF Disaster, AllDown, memory, MarkReached
<1> QED
  BY <1>0, <1>2, <1>3, <1>4, <1>5, <1>6, <1>7, <1>8, Kinds

LEMMA OwnKept ==
  ASSUME Overlap = FALSE, OwnInv, [Next]_vars
  PROVE  OwnInv'
<1>1. FenceInv'
  BY FenceStep DEF OwnInv
<1>2. OwnEpochs' /\ MarkReached'
  BY OwnStep, MarkStep
<1> QED
  BY <1>1, <1>2 DEF OwnInv

LEMMA OwnInit == Init => OwnInv
<1> SUFFICES ASSUME Init
             PROVE  OwnEpochs /\ MarkReached
  BY FenceInit DEF OwnInv
<1>1. ASSUME NEW p \in Proc
      PROVE  Own(p) = {}
  <2>1. epoch[p] = 0 /\ inFlight[p] = {} /\ orphaned[p] = {}
    BY DEF Init
  <2> QED
    BY <2>1 DEF Own
<1> QED
  BY <1>1 DEF Init, OwnEpochs, MarkReached, NoDrain

-----------------------------------------------------------------------------
(* The restore pause *)

\* A view that says "no pause" is not younger than the marker.
ViewsFresh ==
  /\ marker # None => marker <= now
  /\ \A p \in Proc :
       /\ pauseCheckedAt[p] <= now
       /\ marker # None /\ ~ paused[p] => pauseCheckedAt[p] <= marker

LEMMA MarkerIsTime ==
  ASSUME TypeOK
  PROVE  /\ now \in Nat /\ marker \in Nat \cup {None} /\ None \notin Nat
         /\ \A p \in Proc : pauseCheckedAt[p] \in Nat /\ paused[p] \in BOOLEAN
  BY CoordinatorAssumption DEF TypeOK

LEMMA ReadKeepsFresh ==
  ASSUME TypeOK, ViewsFresh, NEW p \in Proc, UNCHANGED <<now, marker>>,
         ReadPause(p) \/ UNCHANGED <<paused, pauseCheckedAt>>
  PROVE  ViewsFresh'
<1>1. CASE ReadPause(p)
  <2>1. /\ paused' = [paused EXCEPT ![p] = marker # None]
        /\ pauseCheckedAt' = [pauseCheckedAt EXCEPT ![p] = now]
    BY <1>1 DEF ReadPause
  <2>2. /\ marker # None => paused'[p]
        /\ pauseCheckedAt'[p] = now
        /\ \A q \in Proc \ {p} : paused'[q] = paused[q] /\ pauseCheckedAt'[q] = pauseCheckedAt[q]
    BY <2>1 DEF TypeOK
  <2>3. /\ marker # None => marker <= now
        /\ \A q \in Proc : pauseCheckedAt[q] <= now
        /\ \A q \in Proc : marker # None /\ ~ paused[q] => pauseCheckedAt[q] <= marker
    BY DEF ViewsFresh
  <2>4. ASSUME NEW q \in Proc
        PROVE  /\ pauseCheckedAt'[q] <= now
               /\ marker # None /\ ~ paused'[q] => pauseCheckedAt'[q] <= marker
    <3>1. CASE q = p
      BY <2>2, <2>3, <3>1, MarkerIsTime
    <3>2. CASE q # p
      <4>1. paused'[q] = paused[q] /\ pauseCheckedAt'[q] = pauseCheckedAt[q] /\ now' = now
        BY <2>2, <3>2
      <4> QED
        BY <2>3, <4>1
    <3> QED
      BY <3>1, <3>2
  <2>5. now' = now /\ marker' = marker
    OBVIOUS
  <2> QED
    BY <2>3, <2>4, <2>5 DEF ViewsFresh
<1>2. CASE UNCHANGED <<paused, pauseCheckedAt>>
  BY <1>2 DEF ViewsFresh
<1> QED
  BY <1>1, <1>2

LEMMA FreshStep ==
  ASSUME TypeOK, ViewsFresh, [Next]_vars
  PROVE  ViewsFresh'
<1>0. /\ now \in Nat /\ marker \in Nat \cup {None} /\ None \notin Nat
      /\ \A p \in Proc : pauseCheckedAt[p] \in Nat /\ paused[p] \in BOOLEAN
      /\ paused \in [Proc -> BOOLEAN] /\ pauseCheckedAt \in [Proc -> Nat]
  BY MarkerIsTime DEF TypeOK
<1>1. ASSUME NEW p \in Proc, LeaseStep(p), ~ Crash(p)
      PROVE  ViewsFresh'
  <2>1. /\ UNCHANGED <<now, marker>>
        /\ ReadPause(p) \/ UNCHANGED <<paused, pauseCheckedAt>>
    BY <1>1 DEF LeaseStep, AcquireRenews, AcquireGrants, AcquireSkips, Renew, WithOwnedLease,
                DiscoverLoss, Release, files, memory
  <2> QED
    BY <2>1, ReadKeepsFresh
<1>2. ASSUME NEW p \in Proc, Crash(p)
      PROVE  ViewsFresh'
  <2>1. /\ pauseCheckedAt' = [pauseCheckedAt EXCEPT ![p] = 0]
        /\ paused' = [paused EXCEPT ![p] = FALSE] /\ UNCHANGED <<now, marker>>
    BY <1>2 DEF Crash, files
  <2> QED
    BY <1>0, <2>1 DEF ViewsFresh
<1>3. ASSUME NEW p \in Proc, ActivateStep(p)
      PROVE  ViewsFresh'
  <2>1. UNCHANGED <<now, marker, paused, pauseCheckedAt>>
    BY <1>3 DEF ActivateStep, Activate, StoreReadsMark, ActivateReconciles, ActivateBumps,
                ActivateFindsLoss, StoreRaisesMark, ActivateFails, ActivateDone, files, memory
  <2> QED
    BY <2>1 DEF ViewsFresh
<1>4. ASSUME NEW p \in Proc, WriteStep(p)
      PROVE  ViewsFresh'
  <2>1. /\ UNCHANGED <<now, marker>>
        /\ ReadPause(p) \/ UNCHANGED <<paused, pauseCheckedAt>>
    BY <1>4 DEF WriteStep, Dispatch, RefusePaused, WriteCommits, WriteRejected, LoseWorker,
                OrphanEnds, files, memory
  <2> QED
    BY <2>1, ReadKeepsFresh
<1>5. ASSUME NEW p \in Proc, NEW outcome \in Outcome, PauseForRestore(p, outcome)
      PROVE  ViewsFresh'
  <2>1. /\ now' = now /\ marker' \in {marker, now}
        /\ \/ UNCHANGED <<paused, pauseCheckedAt>>
           \/ /\ paused' = [paused EXCEPT ![p] = TRUE]
              /\ pauseCheckedAt' = [pauseCheckedAt EXCEPT ![p] = now]
    BY <1>5 DEF PauseForRestore
  <2>2. marker' # None => marker' <= now /\ marker' \in Nat
    BY <1>0, <2>1 DEF ViewsFresh
  <2>3. ASSUME NEW q \in Proc
        PROVE  /\ pauseCheckedAt'[q] <= now /\ pauseCheckedAt'[q] \in Nat
               /\ paused'[q] \/ (pauseCheckedAt'[q] = pauseCheckedAt[q] /\ ~ paused[q])
    BY <1>0, <2>1 DEF ViewsFresh
  <2>4. ASSUME NEW q \in Proc, marker' # None, ~ paused'[q]
        PROVE  pauseCheckedAt'[q] <= marker'
    <3>1. pauseCheckedAt'[q] = pauseCheckedAt[q] /\ ~ paused[q] /\ pauseCheckedAt[q] <= now
      BY <2>3, <2>4 DEF ViewsFresh
    <3> QED
      BY <1>0, <2>1, <2>4, <3>1 DEF ViewsFresh
  <2> QED
    BY <2>1, <2>2, <2>3, <2>4 DEF ViewsFresh
<1>6. ASSUME NEW p \in Proc, ResumeAfterRestore(p)
      PROVE  ViewsFresh'
  <2>1. /\ pauseCheckedAt' = [pauseCheckedAt EXCEPT ![p] = now] /\ now' = now /\ marker' = None
    BY <1>6 DEF ResumeAfterRestore
  <2> QED
    BY <1>0, <2>1 DEF ViewsFresh
<1>7. ASSUME NEW p \in Proc, DrainDone(p) \/ DrainTimeout(p)
      PROVE  ViewsFresh'
  BY <1>7 DEF DrainDone, DrainTimeout, files, memory, ViewsFresh
<1>8. CASE Tick
  BY <1>0, <1>8 DEF Tick, files, memory, ViewsFresh
<1>9. CASE ForeignPause
  BY <1>0, <1>9 DEF ForeignPause, memory, ViewsFresh
<1>10. CASE LoseControlDir
  BY <1>0, <1>10 DEF LoseControlDir, memory, ViewsFresh
<1>11. ASSUME UNCHANGED vars \/ \E older \in 0..MaxEpoch : RestoreStore(older)
       PROVE  ViewsFresh'
  BY <1>11 DEF RestoreStore, vars, files, memory, ViewsFresh
<1> QED
  BY <1>1, <1>2, <1>3, <1>4, <1>5, <1>6, <1>7, <1>8, <1>9, <1>10, <1>11 DEF Next, PauseStep

\* A write is let through by a view of the marker that is not older than
\* pauseCheckMs, whatever pauses, renewals, failed writes and disasters came before.
THEOREM PausesAreNoticed == Spec => PauseNoticedInTime
<1> DEFINE Noticed ==
      \A p \in Proc :
        inFlight'[p] \ inFlight[p] # {} => marker = None \/ now - marker < PauseCheck
<1>1. Init => ViewsFresh
  BY DEF Init, ViewsFresh
<1>2. TypeOK /\ ViewsFresh /\ [Next]_vars => TypeOK' /\ ViewsFresh'
  BY TypeStep, FreshStep
<1>3. ASSUME TypeOK, ViewsFresh, Next
      PROVE  Noticed
  <2> SUFFICES ASSUME NEW q \in Proc, inFlight'[q] \ inFlight[q] # {}
               PROVE  marker = None \/ now - marker < PauseCheck
    OBVIOUS
  <2>0. inFlight \in [Proc -> SUBSET Nat] /\ PauseCheck \in Nat
    BY <1>3, CoordinatorAssumption DEF TypeOK
  <2>1. PICK p \in Proc : Dispatch(p)
    <3>1. ASSUME NEW p \in Proc, LeaseStep(p) \/ ActivateStep(p) \/ PauseStep(p)
          PROVE  inFlight' = inFlight \/ inFlight' = [inFlight EXCEPT ![p] = {}]
      BY <3>1 DEF LeaseStep, AcquireRenews, AcquireGrants, AcquireSkips, Renew, WithOwnedLease,
                  DiscoverLoss, Release, Crash, ActivateStep, Activate, StoreReadsMark,
                  ActivateReconciles, ActivateBumps, ActivateFindsLoss, StoreRaisesMark, ActivateFails,
                  ActivateDone, PauseStep, PauseForRestore, DrainDone, DrainTimeout,
                  ResumeAfterRestore, calls
    <3>2. ASSUME NEW p \in Proc, WriteStep(p), ~ Dispatch(p)
          PROVE  inFlight' = inFlight \/ \E e : inFlight' = [inFlight EXCEPT ![p] = @ \ {e}]
      BY <3>2 DEF WriteStep, RefusePaused, WriteCommits, WriteRejected, LoseWorker, OrphanEnds,
                  Settle, calls
    <3>3. ASSUME Tick \/ ForeignPause \/ LoseControlDir \/ \E older \in 0..MaxEpoch : RestoreStore(older)
          PROVE  inFlight' = inFlight
      BY <3>3 DEF Tick, ForeignPause, LoseControlDir, RestoreStore, calls
    <3> QED
      BY <1>3, <2>0, <3>1, <3>2, <3>3 DEF Next
  <2>2. marker = None \/ (~ paused[p] /\ now - pauseCheckedAt[p] < PauseCheck)
    BY <2>1 DEF Dispatch, PauseView
  <2>3. marker = None \/ (marker \in Nat /\ (~ paused[p] => pauseCheckedAt[p] <= marker))
    BY <1>3, MarkerIsTime DEF ViewsFresh
  <2> QED
    BY <1>3, <2>0, <2>2, <2>3, MarkerIsTime
<1>4. TypeOK /\ ViewsFresh /\ [Next]_vars => [Noticed]_vars
  BY <1>3
<1> QED
  BY TypeInit, <1>1, <1>2, <1>4, PTL DEF Spec, PauseNoticedInTime

-----------------------------------------------------------------------------
(* A pause that has drained is quiet *)

NoLostWorker == Max["lost"] = 0

\* p's pause goes on as long as the marker is there. What p sent before is waited
\* for, and everybody with a later epoch has seen the marker when it was granted.
DrainOf(p) ==
  drain[p].at # "none" =>
    /\ marker # None /\ paused[p] /\ epoch[p] # 0
    /\ inFlight[p] \subseteq drain[p].waiting
    /\ drain[p].at = "drained" => inFlight[p] = {}
    /\ \A q \in Proc \ {p} : /\ \A e \in inFlight[q] : e <= epoch[p]
                             /\ epoch[q] > epoch[p] => paused[q]

QuietInv ==
  /\ OwnInv
  /\ \A p \in Proc : orphaned[p] = {} /\ DrainOf(p)

LEMMA QuietInit == Init => QuietInv
  BY OwnInit DEF Init, QuietInv, DrainOf, NoDrain

\* Nobody else learns of a higher epoch but by a grant, and a grant, or the renewal
\* it rests on, reads the marker.
LEMMA DrainOfStep ==
  ASSUME Overlap = FALSE, NoLostWorker, QuietInv, [Next]_vars, NEW r \in Proc
  PROVE  orphaned'[r] = {} /\ DrainOf(r)'
<1>0. /\ TypeOK /\ TypeOK' /\ OwnInv /\ OwnEpochs /\ FenceInv
      /\ orphaned[r] = {} /\ DrainOf(r)
      /\ hwm \in Nat /\ hwm' \in Nat /\ Max["lost"] = 0
      /\ \A q \in Proc : epoch[q] \in Nat /\ inFlight[q] \subseteq Nat /\ epoch[q] <= hwm
      /\ \A q \in Proc : epoch'[q] \in Nat
      /\ \A q \in Proc : \A e \in inFlight[q] : e <= hwm
      /\ \A q \in Proc \ {r} : epoch[r] # 0 => epoch[q] # epoch[r]
  <2>1. /\ TypeOK /\ TypeOK' /\ OwnInv /\ OwnEpochs /\ FenceInv
        /\ orphaned[r] = {} /\ DrainOf(r) /\ Max["lost"] = 0
    BY TypeStep DEF QuietInv, OwnInv, FenceInv, NoLostWorker
  <2>2. \A q \in Proc : epoch[q] <= hwm
    BY <2>1 DEF FenceInv, EpochsKnown
  <2>3. \A q \in Proc : \A e \in inFlight[q] : e <= hwm
    BY <2>1 DEF OwnEpochs, Own
  <2>4. \A q \in Proc \ {r} : epoch[r] # 0 => epoch[q] # epoch[r]
    BY <2>1 DEF OwnEpochs, Own
  <2> QED
    BY <2>1, <2>2, <2>3, <2>4, OwnTypes DEF TypeOK
<1>1. ASSUME NEW p \in Proc, Alone(p), p # r, marker' = marker,
             \A e \in inFlight'[p] : e \in inFlight[p] \/ e <= epoch[r],
             drain[r].at # "none" /\ epoch'[p] > epoch[r] => paused'[p]
      PROVE  orphaned'[r] = {} /\ DrainOf(r)'
  BY <1>0, <1>1 DEF Alone, Same, DrainOf
<1>2. ASSUME NEW p \in Proc, Grants(p)
      PROVE  orphaned'[r] = {} /\ DrainOf(r)'
  <2>1. CASE p = r
    BY <1>0, <1>2, <2>1 DEF Grants, SameWrites, Alone, Same, DrainOf
  <2>2. CASE p # r
    <3>1. drain[r].at # "none" => paused'[p]
      BY <1>0, <1>2, <2>2 DEF Grants, DrainOf
    <3> QED
      BY <1>0, <1>1, <1>2, <2>2, <3>1 DEF Grants, SameWrites
  <2> QED
    BY <2>1, <2>2
<1>3. ASSUME NEW p \in Proc, Moves(p)
      PROVE  orphaned'[r] = {} /\ DrainOf(r)'
  <2>1. CASE p = r
    BY <1>0, <1>3, <2>1 DEF Moves, SameWrites, Alone, Same, DrainOf
  <2>2. CASE p # r
    <3>1. drain[r].at # "none" /\ epoch'[p] > epoch[r] => paused'[p]
      BY <1>0, <1>3, <2>2 DEF Moves, DrainOf
    <3> QED
      BY <1>0, <1>1, <1>3, <2>2, <3>1 DEF Moves, SameWrites
  <2> QED
    BY <2>1, <2>2
<1>4. ASSUME NEW p \in Proc, Sends(p)
      PROVE  orphaned'[r] = {} /\ DrainOf(r)'
  <2>1. CASE p = r
    BY <1>0, <1>4, <2>1 DEF Sends, Alone, Same, DrainOf
  <2>2. CASE p # r /\ drain[r].at = "none"
    BY <1>0, <1>4, <2>2 DEF Sends, Alone, Same, DrainOf
  <2>3. CASE p # r /\ drain[r].at # "none"
    <3>1. epoch[p] <= epoch[r] /\ marker # None
      BY <1>0, <1>4, <2>3 DEF Sends, DrainOf
    <3>2. \A e \in inFlight'[p] : e \in inFlight[p] \/ e <= epoch[r]
      BY <1>4, <3>1 DEF Sends
    <3>3. ~ (epoch'[p] > epoch[r])
      BY <1>0, <1>4, <3>1 DEF Sends
    <3> QED
      BY <1>0, <1>1, <1>4, <2>3, <3>2, <3>3 DEF Sends
  <2> QED
    BY <2>1, <2>2, <2>3
<1>5. ASSUME NEW p \in Proc, Settles(p)
      PROVE  orphaned'[r] = {} /\ DrainOf(r)'
  <2>1. CASE p = r
    <3>0. spent["lost"] \in Nat
      BY <1>0 DEF TypeOK, Rare
    <3>1. orphaned'[r] = {}
      BY <1>0, <1>5, <2>1, <3>0 DEF Settles
    <3> QED
      BY <1>0, <1>5, <2>1, <3>1 DEF Settles, Alone, Same, DrainOf
  <2>2. CASE p # r
    <3>1. drain[r].at # "none" /\ epoch'[p] > epoch[r] => paused'[p]
      BY <1>0, <1>5, <2>2 DEF Settles, DrainOf
    <3> QED
      BY <1>0, <1>1, <1>5, <2>2, <3>1 DEF Settles
  <2> QED
    BY <2>1, <2>2
<1>6. ASSUME NEW p \in Proc, Pauses(p)
      PROVE  orphaned'[r] = {} /\ DrainOf(r)'
  <2>0. orphaned'[r] = {} /\ epoch[p] # 0
    BY <1>0, <1>6 DEF Pauses, OwnEpochs
  <2>1. CASE drain'[r].at = "none"
    BY <2>0, <2>1 DEF DrainOf
  <2>2. CASE drain'[r] = drain[r] /\ drain[r].at # "none"
    <3>1. /\ marker' # None
          /\ \A q \in Proc : (paused[q] => paused'[q]) /\ inFlight'[q] = inFlight[q] /\ epoch'[q] = epoch[q]
      BY <1>0, <1>6, <2>2 DEF Pauses, DrainOf
    <3> QED
      BY <1>0, <2>0, <2>2, <3>1 DEF DrainOf
  <2>3. CASE p = r /\ drain'[r].at # "none" /\ drain'[r] # drain[r]
    <3>1. /\ marker' # None /\ paused'[r] /\ drain'[r].waiting = inFlight[r]
          /\ drain'[r].at = "drained" => inFlight[r] = {}
          /\ hwm <= epoch[r]
          /\ \A q \in Proc : inFlight'[q] = inFlight[q] /\ epoch'[q] = epoch[q]
      BY <1>6, <2>3 DEF Pauses
    <3>2. \A q \in Proc : epoch[q] <= epoch[r] /\ \A e \in inFlight[q] : e <= epoch[r]
      BY <1>0, <3>1
    <3> QED
      BY <1>0, <2>0, <2>3, <3>1, <3>2 DEF DrainOf
  <2> QED
    BY <1>6, <2>1, <2>2, <2>3 DEF Pauses
<1>7. ASSUME NEW p \in Proc, Dies(p)
      PROVE  orphaned'[r] = {} /\ DrainOf(r)'
  <2>1. CASE p = r
    BY <1>7, <2>1 DEF Dies, NoDrain, DrainOf
  <2>2. CASE p # r
    <3>1. ~ (epoch'[p] > epoch[r]) /\ \A e \in inFlight'[p] : e \in inFlight[p]
      BY <1>0, <1>7 DEF Dies
    <3> QED
      BY <1>0, <1>1, <1>7, <2>2, <3>1 DEF Dies
  <2> QED
    BY <2>1, <2>2
<1>8. CASE World
  BY <1>0, <1>8 DEF World, memory, calls, DrainOf
<1>9. CASE Disaster
  BY <1>0, <1>9 DEF Disaster, AllDown, memory, calls, OwnEpochs, DrainOf
<1> QED
  BY <1>0, <1>2, <1>3, <1>4, <1>5, <1>6, <1>7, <1>8, <1>9, Kinds

\* A write commits only where an epoch is held that the mark has not passed.
LEMMA QuietCommits ==
  ASSUME Overlap = FALSE, QuietInv, [Next]_vars, NEW r \in Proc,
         drain[r].at = "drained", activatedEpoch[r] = epoch[r], epoch[r] # 0
  PROVE  log' = log
<1>0. /\ FenceInv /\ OwnEpochs /\ MarkReached /\ TypeOK /\ DrainOf(r)
      /\ \A q \in Proc : orphaned[q] = {}
      /\ mark \in Nat
      /\ \A q \in Proc : epoch[q] \in Nat /\ inFlight[q] \subseteq Nat
  BY OwnTypes DEF QuietInv, OwnInv, FenceInv
<1>1. mark >= epoch[r]
  BY <1>0 DEF OwnEpochs, MarkReached
<1>2. ASSUME NEW p \in Proc, NEW e \in inFlight[p]
      PROVE  e < mark
  <2>1. p # r /\ e <= epoch[r]
    BY <1>0, <1>2 DEF DrainOf
  <2>2. e # epoch[r]
    BY <1>0, <1>2, <2>1 DEF OwnEpochs, Own
  <2> QED
    BY <1>0, <1>1, <1>2, <2>1, <2>2
<1>3. ASSUME NEW p \in Proc, Settles(p)
      PROVE  log' = log
  <2>1. \A e \in inFlight[p] \cup orphaned[p] : e < mark /\ e \in Nat
    BY <1>0, <1>2
  <2> QED
    BY <1>0, <1>3, <2>1 DEF Settles
<1> QED
  BY <1>0, <1>3, Kinds DEF Grants, Moves, SameWrites, Sends, Pauses, Dies, World, Disaster

\* pauseForRestore() of an activated owner that resolved means quiet: nothing of its
\* own, of an earlier owner or of one that takes over commits until the marker is
\* removed, through crashes, failed control-file writes and disasters. Without lost
\* workers: with them the run coord_lost finds a commit during the restore.
THEOREM DrainedIsQuiet == Overlap = FALSE /\ NoLostWorker => (Spec => QuietAfterDrain)
<1> SUFFICES ASSUME Overlap = FALSE, NoLostWorker
             PROVE  Spec => QuietAfterDrain
  OBVIOUS
<1> DEFINE Quiet ==
      \A p \in Proc :
        drain[p].at = "drained" /\ activatedEpoch[p] = epoch[p] /\ epoch[p] # 0 => log' = log
<1>1. ASSUME QuietInv, [Next]_vars
      PROVE  QuietInv'
  <2>1. OwnInv'
    BY <1>1, OwnKept DEF QuietInv
  <2> QED
    BY <1>1, <2>1, DrainOfStep DEF QuietInv
<1>2. QuietInv /\ [Next]_vars => [Quiet]_vars
  BY QuietCommits
<1> QED
  BY QuietInit, <1>1, <1>2, PTL DEF Spec, QuietAfterDrain

-----------------------------------------------------------------------------
(***************************************************************************)
(* An epoch names one writer through one disaster. A lost control          *)
(* directory starts the epochs again below those of the log, but not below *)
(* the mark, and activate() raises the owner above that; an older store    *)
(* has an older mark, but the control directory still knows the epochs.    *)
(***************************************************************************)

OneDisaster == Max["disaster"] <= 1

UpTo(b) == \A i \in DOMAIN log : log[i][2] <= b
\* No write of anybody but q carries e.
Clear(q, e) == \A i \in DOMAIN log : log[i][2] = e => log[i][1] = q

FilesKnowLog == UpTo(hwm) /\ \A q \in Proc : epoch[q] # 0 => Clear(q, epoch[q])
StoreKnowsLog == UpTo(mark)

\* What q writes with, may write with, or is about to, is nobody else's.
ClearFor(q) ==
  /\ \A e \in inFlight[q] \cup orphaned[q] : Clear(q, e)
  /\ state[q] \notin {"idle", "dead"} /\ activatedEpoch[q] = epoch[q] /\ epoch[q] # 0
       => Clear(q, epoch[q])
  /\ act[q].at = "read" => \A i \in DOMAIN log :
       \/ log[i][1] = q
       \/ log[i][2] <= act[q].n
       \/ log[i][2] <= hwm /\ log[i][2] # epoch[q]
  /\ state[q] = "owner" /\ act[q].at \in {"fencing", "raised"} => Clear(q, epoch[q])

LogInv ==
  /\ OwnInv /\ EpochIdentifiesWriter
  /\ \A i \in DOMAIN log : log[i][2] # 0
  /\ FilesKnowLog \/ StoreKnowsLog
  /\ spent["disaster"] = 0 => FilesKnowLog /\ StoreKnowsLog
  /\ \A q \in Proc : ClearFor(q)

LEMMA LogInit == Init => LogInv
  BY OwnInit DEF Init, LogInv, EpochIdentifiesWriter, FilesKnowLog, StoreKnowsLog, UpTo, Clear, ClearFor,
                 NoCall

LEMMA LogTypes ==
  ASSUME TypeOK
  PROVE  \A i \in DOMAIN log : log[i] \in Proc \X Nat /\ log[i][1] \in Proc /\ log[i][2] \in Nat
  BY DEF TypeOK

\* A step that adds nothing to the log.
LEMMA LogUnchanged ==
  ASSUME LogInv, log' = log, TypeOK',
         FilesKnowLog => FilesKnowLog', StoreKnowsLog => StoreKnowsLog',
         spent'["disaster"] = spent["disaster"], OwnInv',
         \A q \in Proc : ClearFor(q)'
  PROVE  LogInv'
  BY DEF LogInv, EpochIdentifiesWriter

\* p alone moves and the log stays: what concerns the others stays true.
LEMMA OthersClear ==
  ASSUME LogInv, TypeOK, TypeOK', NEW p \in Proc, Alone(p), log' = log, hwm' >= hwm
  PROVE  \A q \in Proc \ {p} : ClearFor(q)'
<1>1. hwm \in Nat /\ hwm' \in Nat /\ \A i \in DOMAIN log : log[i][2] \in Nat
  BY LogTypes DEF TypeOK
<1> SUFFICES ASSUME NEW q \in Proc, q # p
             PROVE  ClearFor(q)'
  OBVIOUS
<1>2. Same(q) /\ ClearFor(q)
  BY DEF Alone, LogInv
<1> QED
  BY <1>1, <1>2 DEF Same, ClearFor, Clear

LEMMA LogGrants ==
  ASSUME LogInv, TypeOK, TypeOK', OwnInv', NEW p \in Proc, Grants(p)
  PROVE  LogInv'
<1>1. /\ hwm \in Nat /\ hwm' \in Nat /\ hwm' > hwm /\ mark' = mark /\ log' = log
      /\ epoch'[p] = hwm' /\ activatedEpoch'[p] = activatedEpoch[p] /\ activatedEpoch[p] <= hwm
      /\ activatedEpoch[p] \in Int /\ act[p].n \in Nat
      /\ \A q \in Proc \ {p} : epoch'[q] = epoch[q]
      /\ \A i \in DOMAIN log : log[i][2] \in Nat
  <2>1. hwm' \in Nat
    BY DEF TypeOK
  <2>2. activatedEpoch[p] <= hwm
    BY DEF LogInv, OwnInv, FenceInv, EpochsKnown
  <2> QED
    BY <2>1, <2>2, OwnTypes, LogTypes DEF Grants, SameWrites, Alone, Same
<1>2. FilesKnowLog => FilesKnowLog'
  BY <1>1 DEF FilesKnowLog, UpTo, Clear
<1>3. StoreKnowsLog => StoreKnowsLog'
  BY <1>1 DEF StoreKnowsLog, UpTo
<1>4. \A q \in Proc \ {p} : ClearFor(q)'
  BY <1>1, OthersClear DEF Grants
<1>5. ClearFor(p)'
  <2>1. inFlight'[p] = inFlight[p] /\ orphaned'[p] = orphaned[p]
    BY DEF Grants, SameWrites
  <2>2. CASE act[p].at = "none" /\ act'[p] = act[p]
    BY <1>1, <2>1, <2>2 DEF LogInv, ClearFor, Clear
  <2>3. CASE act[p].at = "read" /\ act'[p] = [at |-> "fencing", n |-> hwm'] /\ hwm' > act[p].n
    <3>1. \A i \in DOMAIN log : log[i][1] = p \/ log[i][2] <= act[p].n \/ log[i][2] <= hwm
      BY <2>3 DEF LogInv, ClearFor
    <3>2. Clear(p, epoch[p])'
      BY <1>1, <2>3, <3>1 DEF Clear
    <3> QED
      BY <1>1, <2>1, <2>3, <3>2 DEF LogInv, ClearFor, Clear
  <2> QED
    BY <2>2, <2>3 DEF Grants
<1> QED
  BY <1>1, <1>2, <1>3, <1>4, <1>5, LogUnchanged DEF Grants, Alone

LEMMA LogMoves ==
  ASSUME LogInv, TypeOK, TypeOK', OwnInv', NEW p \in Proc, Moves(p)
  PROVE  LogInv'
<1>1. /\ hwm \in Nat /\ hwm' \in Nat /\ hwm' >= hwm /\ mark \in Nat /\ mark' \in Nat /\ mark' >= mark
      /\ log' = log
      /\ \A q \in Proc : epoch'[q] = epoch[q] /\ epoch[q] \in Nat
      /\ act[p].n \in Nat
      /\ \A i \in DOMAIN log : log[i][2] \in Nat
  BY LogTypes DEF Moves, SameWrites, Alone, Same, TypeOK
<1>2. FilesKnowLog => FilesKnowLog'
  BY <1>1 DEF FilesKnowLog, UpTo, Clear
<1>3. StoreKnowsLog => StoreKnowsLog'
  BY <1>1 DEF StoreKnowsLog, UpTo
<1>4. \A q \in Proc \ {p} : ClearFor(q)'
  BY <1>1, OthersClear DEF Moves
<1>5. ClearFor(p)'
  <2>0. ClearFor(p) /\ inFlight'[p] = inFlight[p] /\ orphaned'[p] = orphaned[p]
    BY DEF LogInv, Moves, SameWrites
  <2>1. \A e \in (inFlight[p] \cup orphaned[p])' : Clear(p, e)'
    BY <1>1, <2>0 DEF ClearFor, Clear
  <2>2. state'[p] \notin {"idle", "dead"} /\ activatedEpoch'[p] = epoch'[p] /\ epoch'[p] # 0
          => Clear(p, epoch[p])'
    <3>1. state[p] \in {"idle", "dead"} => activatedEpoch[p] = -1
      BY DEF LogInv, OwnInv, FenceInv, EpochsKnown
    <3> QED
      BY <1>1, <2>0, <3>1 DEF Moves, ClearFor, Clear
  <2>3. ASSUME act'[p].at = "read"
        PROVE  \A i \in DOMAIN log : \/ log[i][1] = p \/ log[i][2] <= act'[p].n
                                     \/ log[i][2] <= hwm' /\ log[i][2] # epoch[p]
    <3>1. CASE act'[p] = act[p]
      BY <1>1, <2>0, <2>3, <3>1 DEF ClearFor
    <3>2. CASE act'[p] = [at |-> "read", n |-> mark]
      <4>1. CASE StoreKnowsLog
        BY <3>2, <4>1 DEF StoreKnowsLog, UpTo
      <4>2. CASE FilesKnowLog
        <5>1. ASSUME NEW i \in DOMAIN log, log[i][1] # p
              PROVE  log[i][2] <= hwm' /\ log[i][2] # epoch[p]
          BY <1>1, <4>2, <5>1 DEF FilesKnowLog, UpTo, Clear, LogInv
        <5> QED
          BY <1>1, <5>1
      <4> QED
        BY <4>1, <4>2 DEF LogInv
    <3> QED
      BY <2>3, <3>1, <3>2 DEF Moves
  <2>4. ASSUME state'[p] = "owner", act'[p].at \in {"fencing", "raised"}
        PROVE  Clear(p, epoch[p])'
    <3>0. state[p] = "owner"
      BY <2>4 DEF Moves
    <3>1. CASE act'[p] = act[p] \/ (act[p].at = "fencing" /\ act'[p].at = "raised")
      BY <1>1, <2>0, <2>4, <3>0, <3>1 DEF ClearFor, Clear
    <3>2. CASE act[p].at = "read" /\ act[p].n < epoch[p]
      BY <1>1, <2>0, <3>2 DEF ClearFor, Clear
    <3> QED
      BY <2>4, <3>1, <3>2 DEF Moves
  <2> QED
    BY <1>1, <2>1, <2>2, <2>3, <2>4 DEF ClearFor
<1> QED
  BY <1>1, <1>2, <1>3, <1>4, <1>5, LogUnchanged DEF Moves, Alone

LEMMA LogSends ==
  ASSUME LogInv, TypeOK, TypeOK', OwnInv', NEW p \in Proc, Sends(p)
  PROVE  LogInv'
<1>1. /\ hwm \in Nat /\ hwm' = hwm /\ mark' = mark /\ log' = log
      /\ \A q \in Proc : epoch'[q] = epoch[q]
  BY DEF Sends, Alone, Same, TypeOK
<1>2. (FilesKnowLog => FilesKnowLog') /\ (StoreKnowsLog => StoreKnowsLog')
  BY <1>1 DEF FilesKnowLog, StoreKnowsLog, UpTo, Clear
<1>3. \A q \in Proc \ {p} : ClearFor(q)'
  BY <1>1, OthersClear DEF Sends
<1>4. ClearFor(p)'
  <2>1. ClearFor(p) /\ epoch[p] # 0 /\ state[p] = "owner" /\ activatedEpoch[p] = epoch[p]
    BY DEF Sends, LogInv, OwnInv, OwnEpochs
  <2>2. Clear(p, epoch[p])
    BY <2>1 DEF ClearFor
  <2> QED
    BY <1>1, <2>1, <2>2 DEF Sends, ClearFor, Clear
<1> QED
  BY <1>1, <1>2, <1>3, <1>4, LogUnchanged DEF Sends, Alone

\* The new entry carries an epoch its writer owns.
LEMMA LogCommits ==
  ASSUME LogInv, TypeOK, TypeOK', OwnInv', NEW p \in Proc, Settles(p),
         NEW e \in inFlight[p] \cup orphaned[p], e >= mark, mark' = e, log' = Append(log, <<p, e>>)
  PROVE  LogInv'
<1>0. OwnEpochs /\ EpochIdentifiesWriter /\ \A q \in Proc : ClearFor(q)
  BY DEF LogInv, OwnInv
<1>1. /\ hwm \in Nat /\ hwm' = hwm /\ mark \in Nat /\ e \in Nat
      /\ \A q \in Proc : /\ state'[q] = state[q] /\ epoch'[q] = epoch[q]
                         /\ activatedEpoch'[q] = activatedEpoch[q] /\ act'[q] = act[q]
                         /\ (inFlight[q] \cup orphaned[q])' \subseteq inFlight[q] \cup orphaned[q]
  BY OwnTypes DEF Settles, Alone, Same
<1>2. e \in Own(p) /\ e <= hwm /\ e # 0
  BY <1>0, <1>1 DEF OwnEpochs, Own
<1>3. \A q \in Proc \ {p} : e \notin inFlight[q] \cup orphaned[q] /\ epoch[q] # e
  BY <1>0, <1>2 DEF OwnEpochs, Own
<1>4. \A i \in DOMAIN log' : (i \in DOMAIN log /\ log'[i] = log[i]) \/ log'[i] = <<p, e>>
  <2>1. log \in Seq(Proc \X Nat)
    BY DEF TypeOK
  <2> QED
    BY <2>1
<1>5. \A i \in DOMAIN log : log[i][2] \in Nat
  BY LogTypes
<1>6. Clear(p, e)
  BY <1>0 DEF ClearFor
<1>7. ASSUME NEW q \in Proc, NEW f, Clear(q, f), q = p \/ f # e
      PROVE  Clear(q, f)'
  BY <1>4, <1>7 DEF Clear
<1>8. EpochIdentifiesWriter'
  BY <1>0, <1>4, <1>6 DEF EpochIdentifiesWriter, Clear
<1>9. FilesKnowLog => FilesKnowLog'
  <2> SUFFICES ASSUME FilesKnowLog
               PROVE  FilesKnowLog'
    OBVIOUS
  <2>1. UpTo(hwm)'
    BY <1>1, <1>2, <1>4 DEF FilesKnowLog, UpTo
  <2>2. ASSUME NEW q \in Proc, epoch[q] # 0
        PROVE  Clear(q, epoch[q])'
    <3>1. Clear(q, epoch[q]) /\ epoch'[q] = epoch[q]
      BY <1>1, <2>2 DEF FilesKnowLog
    <3> QED
      BY <1>3, <1>4, <3>1 DEF Clear
  <2> QED
    BY <1>1, <2>1, <2>2 DEF FilesKnowLog
<1>10. StoreKnowsLog => StoreKnowsLog'
  BY <1>1, <1>4, <1>5 DEF StoreKnowsLog, UpTo
<1>11. ASSUME NEW q \in Proc
       PROVE  ClearFor(q)'
  <2>1. \A d \in (inFlight[q] \cup orphaned[q])' : Clear(q, d)'
    <3> SUFFICES ASSUME NEW d \in (inFlight[q] \cup orphaned[q])'
                 PROVE  \A i \in DOMAIN log' : log'[i][2] = d => log'[i][1] = q
      BY DEF Clear
    <3>1. d \in inFlight[q] \cup orphaned[q] /\ Clear(q, d)
      BY <1>0, <1>1 DEF ClearFor
    <3>2. q = p \/ d # e
      BY <1>3, <3>1
    <3> QED
      BY <1>4, <3>1, <3>2 DEF Clear
  <2>2. ASSUME Clear(q, epoch[q])
        PROVE  Clear(q, epoch[q])'
    BY <1>1, <1>3, <1>4, <2>2 DEF Clear
  <2>3. ASSUME act'[q].at = "read"
        PROVE  \A i \in DOMAIN log' : \/ log'[i][1] = q \/ log'[i][2] <= act'[q].n
                                      \/ log'[i][2] <= hwm' /\ log'[i][2] # epoch'[q]
    BY <1>0, <1>1, <1>2, <1>3, <1>4, <2>3 DEF ClearFor
  <2> QED
    BY <1>0, <1>1, <2>1, <2>2, <2>3 DEF ClearFor
<1>12. \A i \in DOMAIN log' : log'[i][2] # 0
  BY <1>2, <1>4 DEF LogInv
<1>13. spent'["disaster"] = spent["disaster"]
  BY DEF Settles, Alone
<1> QED
  BY <1>8, <1>9, <1>10, <1>11, <1>12, <1>13 DEF LogInv

LEMMA LogSettles ==
  ASSUME LogInv, TypeOK, TypeOK', OwnInv', NEW p \in Proc, Settles(p)
  PROVE  LogInv'
<1>1. CASE UNCHANGED <<mark, log>>
  <2>1. /\ hwm' = hwm /\ mark' = mark /\ log' = log
        /\ \A q \in Proc : epoch'[q] = epoch[q]
    BY <1>1 DEF Settles, Alone, Same
  <2>2. (FilesKnowLog => FilesKnowLog') /\ (StoreKnowsLog => StoreKnowsLog')
    BY <2>1 DEF FilesKnowLog, StoreKnowsLog, UpTo, Clear
  <2>3. \A q \in Proc \ {p} : ClearFor(q)'
    BY <2>1, OthersClear, OwnTypes DEF Settles
  <2>4. ClearFor(p)'
    BY <2>1 DEF Settles, LogInv, ClearFor, Clear
  <2> QED
    BY <2>1, <2>2, <2>3, <2>4, LogUnchanged DEF Settles, Alone
<1>2. CASE ~ UNCHANGED <<mark, log>>
  <2>1. PICK e \in inFlight[p] \cup orphaned[p] : e >= mark /\ mark' = e /\ log' = Append(log, <<p, e>>)
    BY <1>2 DEF Settles
  <2> QED
    BY <2>1, LogCommits
<1> QED
  BY <1>1, <1>2

LEMMA LogRest ==
  ASSUME LogInv, TypeOK, TypeOK', OwnInv',
         World \/ \E p \in Proc : Pauses(p) \/ Dies(p)
  PROVE  LogInv'
<1>0. \A q \in Proc : ClearFor(q)
  BY DEF LogInv
<1>1. /\ hwm' = hwm /\ mark' = mark /\ log' = log /\ spent'["disaster"] = spent["disaster"]
      /\ \A q \in Proc : epoch'[q] = epoch[q] \/ epoch'[q] = 0
  BY DEF World, memory, Pauses, Dies, Alone, Same
<1>2. (FilesKnowLog => FilesKnowLog') /\ (StoreKnowsLog => StoreKnowsLog')
  BY <1>1 DEF FilesKnowLog, StoreKnowsLog, UpTo, Clear
<1>3. ASSUME NEW q \in Proc
      PROVE  ClearFor(q)'
  <2>1. \/ /\ state'[q] = state[q] /\ epoch'[q] = epoch[q] /\ activatedEpoch'[q] = activatedEpoch[q]
           /\ act'[q] = act[q] /\ inFlight'[q] = inFlight[q] /\ orphaned'[q] = orphaned[q]
        \/ state'[q] = "dead" /\ act'[q] = NoCall /\ inFlight'[q] = {} /\ orphaned'[q] = {}
    BY DEF World, memory, calls, Pauses, Dies, Alone, Same
  <2> QED
    BY <1>0, <1>1, <2>1 DEF ClearFor, Clear, NoCall
<1> QED
  BY <1>1, <1>2, <1>3, LogUnchanged

LEMMA LogDisaster ==
  ASSUME OneDisaster, LogInv, TypeOK, TypeOK', OwnInv', Disaster
  PROVE  LogInv'
<1>1. /\ FilesKnowLog /\ StoreKnowsLog /\ spent'["disaster"] # 0
  <2>1. spent["disaster"] \in Nat /\ Max["disaster"] \in Nat
    BY CoordinatorAssumption DEF TypeOK, Rare
  <2> QED
    BY <2>1 DEF Disaster, OneDisaster, LogInv
<1>2. log' = log /\ UNCHANGED <<memory, calls>> /\ (hwm' = hwm \/ mark' = mark)
  BY DEF Disaster
<1>3. FilesKnowLog' \/ StoreKnowsLog'
  BY <1>1, <1>2 DEF FilesKnowLog, StoreKnowsLog, UpTo, Clear, memory
<1>4. ASSUME NEW q \in Proc
      PROVE  ClearFor(q)'
  <2>1. /\ state'[q] \in {"idle", "dead"} /\ act'[q].at = "none"
        /\ (inFlight[q] \cup orphaned[q])' = {}
    <3>1. state[q] \in {"idle", "dead"} /\ act[q].at = "none"
      BY DEF Disaster, AllDown, LogInv, OwnInv, FenceInv, EpochsKnown
    <3>2. inFlight[q] \cup orphaned[q] = {}
      BY <3>1 DEF LogInv, OwnInv, OwnEpochs, Own
    <3> QED
      BY <1>2, <3>1, <3>2 DEF memory, calls
  <2> QED
    BY <2>1 DEF ClearFor
<1> QED
  BY <1>1, <1>2, <1>3, <1>4 DEF LogInv, EpochIdentifiesWriter

\* Two committed writes with one epoch come from one coordinator, also if the control
\* directory was lost or an older store put in place once.
THEOREM EpochsIdentifyThroughDisaster ==
  Overlap = FALSE /\ OneDisaster => (Spec => []EpochIdentifiesWriter)
<1> SUFFICES ASSUME Overlap = FALSE, OneDisaster
             PROVE  Spec => []EpochIdentifiesWriter
  OBVIOUS
<1>1. ASSUME LogInv, [Next]_vars
      PROVE  LogInv'
  <2>1. TypeOK /\ FenceInv /\ OwnInv
    BY <1>1 DEF LogInv, OwnInv, FenceInv
  <2>2. TypeOK' /\ OwnInv'
    BY <1>1, <2>1, TypeStep, OwnKept
  <2> QED
    BY <1>1, <2>1, <2>2, Kinds, LogGrants, LogMoves, LogSends, LogSettles, LogRest, LogDisaster
<1>2. LogInv => EpochIdentifiesWriter
  BY DEF LogInv
<1> QED
  BY LogInit, <1>1, <1>2, PTL DEF Spec

-----------------------------------------------------------------------------
(***************************************************************************)
(* The lock under which the sections above are one action. Until a process *)
(* dies inside it, one process at a time is in a section; and a written    *)
(* lock that is deleted as stale was that of a dead process, whatever died *)
(* before.                                                                 *)
(***************************************************************************)

LEMMA LockTypeInit == LockInit => LockTypeOK
  BY DEF LockInit, LockTypeOK, Steps

LEMMA LockType ==
  ASSUME LockTypeOK, NEW p \in Process, Lock(p)
  PROVE  LockTypeOK'
<1>1. CASE Start(p) \/ Leave(p) \/ OpenRefused(p) \/ UnlockReads(p)
  BY <1>1 DEF Start, Leave, OpenRefused, UnlockReads, Return, Goto, Files, LockTypeOK, Steps
<1>2. ASSUME NEW f \in File, OpenCreates(p, f)
      PROVE  LockTypeOK'
  BY <1>2 DEF OpenCreates, Goto, LockTypeOK, Steps
<1>3. CASE WriteToken(p)
  BY <1>3 DEF WriteToken, Goto, LockTypeOK, Steps
<1>4. CASE WriteTokenFails(p) \/ Unlink(p)
  BY <1>4 DEF WriteTokenFails, Unlink, Return, Goto, LockTypeOK, Steps
<1> QED
  BY <1>1, <1>2, <1>3, <1>4 DEF Lock

LEMMA BreakType ==
  ASSUME LockTypeOK, NEW p \in Process, Break(p)
  PROVE  LockTypeOK'
<1>1. CASE Judge(p)
  <2>1. Content(lock) \in File \cup {NoFile}
    BY DEF Content, LockTypeOK
  <2> QED
    BY <1>1, <2>1 DEF Judge, TryAgain, Return, Goto, Files, LockTypeOK, Steps
<1>2. CASE Stat(p)
  BY <1>2 DEF Stat, TryAgain, Return, Goto, Files, LockTypeOK, Steps
<1>3. CASE Rename(p)
  BY <1>3 DEF Rename, TryAgain, Goto, LockTypeOK, Steps
<1>4. CASE Verify(p) \/ LinkBack(p)
  BY <1>4 DEF Verify, LinkBack, TryAgain, Return, Goto, LockTypeOK, Steps
<1> QED
  BY <1>1, <1>2, <1>3, <1>4 DEF Break

LEMMA ProcessType ==
  ASSUME LockTypeOK, NEW p \in Process, ProcessDies(p) \/ ProcessStarts(p)
  PROVE  LockTypeOK'
<1>1. CASE ProcessDies(p)
  <2>1. InUse \ {NoFile} \subseteq File
    BY DEF InUse, LockTypeOK
  <2> QED
    BY <1>1, <2>1 DEF ProcessDies, Goto, LockTypeOK, Steps
<1>2. CASE ProcessStarts(p)
  BY <1>2 DEF ProcessStarts, Return, Goto, LockTypeOK, Steps
<1> QED
  BY <1>1, <1>2

LEMMA LockTypeStep == LockTypeOK /\ [LockNext]_lockVars => LockTypeOK'
<1> SUFFICES ASSUME LockTypeOK, [LockNext]_lockVars
             PROVE  LockTypeOK'
  OBVIOUS
<1>1. CASE Age
  BY <1>1 DEF Age, LockTypeOK
<1>2. CASE UNCHANGED lockVars
  BY <1>2 DEF lockVars, LockTypeOK
<1> QED
  BY <1>1, <1>2, LockType, BreakType, ProcessType DEF LockNext

\* The type invariant of the lock protocol, for every number of processes.
THEOREM LockTypeCorrect == LockSpec => []LockTypeOK
<1> QED
  BY LockTypeInit, LockTypeStep, PTL DEF LockSpec

-----------------------------------------------------------------------------
(* Exclusion until somebody dies *)

Holding == {"write", "critical", "unlocking", "unlink"}
Breaking == {"rename", "verify", "link", "dead"}

\* A process that is past open() has its own file at the path, torn exactly
\* while it writes the token.
HoldsLock(p) ==
  /\ lock = mine[p] /\ lock # NoFile /\ lock[1] = p
  /\ pc[p] = "write" <=> lock \in torn

\* Nobody breaks anything, and the file at the path is held by its creator.
Undisturbed ==
  /\ corpses = {} /\ aged = {}
  /\ \A p \in Process : pc[p] \notin Breaking
  /\ \A p \in Process : pc[p] \in Holding => HoldsLock(p)
  /\ lock # NoFile => pc[lock[1]] \in Holding

ExclusionInv == LockTypeOK /\ (crashes = 0 => Undisturbed)

LEMMA ExclusionInit == LockInit => ExclusionInv
  BY LockTypeInit DEF LockInit, ExclusionInv, Undisturbed, Holding, Breaking

LEMMA LockUndisturbed ==
  ASSUME LockTypeOK, Undisturbed, NEW p \in Process, Lock(p)
  PROVE  Undisturbed'
<1> USE DEF Holding, Breaking
<1>0. lock # NoFile => lock \in File /\ lock[1] \in Process
  BY DEF LockTypeOK, File
<1>1. CASE Start(p)
  BY <1>0, <1>1 DEF Start, Goto, Files, LockTypeOK, Undisturbed, HoldsLock
<1>2. ASSUME NEW f \in File, OpenCreates(p, f)
      PROVE  Undisturbed'
  <2>1. f # NoFile
    BY LockAssumption
  <2>2. \A q \in Process : pc[q] \notin Holding
    BY <1>2 DEF OpenCreates, Undisturbed, HoldsLock
  <2>3. pc' = [pc EXCEPT ![p] = "write"] /\ lock' = f /\ f[1] = p /\ f \in torn'
        /\ mine'[p] = f /\ corpses' = {} /\ aged' = {}
    BY <1>2 DEF OpenCreates, Goto, LockTypeOK, Undisturbed
  <2> QED
    BY <2>1, <2>2, <2>3 DEF Undisturbed, HoldsLock, LockTypeOK
<1>3. CASE OpenRefused(p)
  BY <1>0, <1>3 DEF OpenRefused, Return, Goto, Files, LockTypeOK, Undisturbed, HoldsLock
<1>4. CASE WriteToken(p)
  <2>1. HoldsLock(p) /\ lock \in torn /\ pc' = [pc EXCEPT ![p] = "critical"]
    BY <1>4 DEF WriteToken, Goto, Undisturbed, HoldsLock
  <2>2. torn' = torn \ {lock} /\ aged' = {} /\ corpses' = {} /\ lock' = lock /\ mine' = mine
    BY <1>4, <2>1 DEF WriteToken, Undisturbed, HoldsLock
  <2>3. \A q \in Process : pc[q] \in Holding => q = p
    BY <2>1 DEF Undisturbed, HoldsLock
  <2> QED
    BY <1>0, <2>1, <2>2, <2>3 DEF Undisturbed, HoldsLock, LockTypeOK
<1>5. CASE WriteTokenFails(p) \/ Unlink(p)
  <2>1. lock[1] = p
    BY <1>5 DEF WriteTokenFails, Unlink, Undisturbed, HoldsLock
  <2>2. \A q \in Process : pc[q] \in Holding => q = p
    BY <2>1 DEF Undisturbed, HoldsLock
  <2> QED
    BY <1>5, <2>2 DEF WriteTokenFails, Unlink, Return, Goto, LockTypeOK, Undisturbed, HoldsLock
<1>6. CASE Leave(p)
  BY <1>0, <1>6 DEF Leave, Goto, Files, LockTypeOK, Undisturbed, HoldsLock
<1>7. CASE UnlockReads(p)
  <2>1. lock = mine[p] /\ lock # NoFile
    BY <1>7 DEF UnlockReads, Undisturbed, HoldsLock
  <2> QED
    BY <1>0, <1>7, <2>1 DEF UnlockReads, Goto, Files, LockTypeOK, Undisturbed, HoldsLock
<1> QED
  BY <1>1, <1>2, <1>3, <1>4, <1>5, <1>6, <1>7 DEF Lock

LEMMA BreakUndisturbed ==
  ASSUME LockTypeOK, Undisturbed, NEW p \in Process, Break(p)
  PROVE  Undisturbed'
<1> USE DEF Holding, Breaking
<1>0. lock # NoFile => lock \in File /\ lock[1] \in Process
  BY DEF LockTypeOK, File
<1>1. pc[p] \in {"judge", "stat"}
  BY DEF Break, Judge, Stat, Rename, Verify, LinkBack, Undisturbed
<1>2. UNCHANGED <<lock, torn, aged, corpses>> /\ mine'[p] \in {mine[p], NoFile}
      /\ \A q \in Process \ {p} : mine'[q] = mine[q]
  BY <1>1 DEF Break, Judge, Stat, Rename, Verify, LinkBack, TryAgain, Return, Files, LockTypeOK
<1>3. pc' \in {[pc EXCEPT ![p] = step] : step \in {"open", "out", "stat"}}
  BY <1>1 DEF Break, Judge, Stat, Rename, Verify, LinkBack, TryAgain, Return, Goto, Dead,
              Undisturbed
<1> QED
  BY <1>0, <1>1, <1>2, <1>3 DEF LockTypeOK, Undisturbed, HoldsLock

\* Without a stall only a lock that nobody writes any more gets old.
LEMMA ExclusionStep ==
  ASSUME ~ Stalls, ExclusionInv, [LockNext]_lockVars
  PROVE  ExclusionInv'
<1>1. LockTypeOK'
  BY LockTypeStep DEF ExclusionInv
<1> SUFFICES ASSUME crashes' = 0
             PROVE  Undisturbed'
  BY <1>1 DEF ExclusionInv
<1>2. CASE UNCHANGED lockVars
  BY <1>2 DEF lockVars, ExclusionInv, Undisturbed, HoldsLock
<1>3. crashes = 0
  BY DEF LockNext, lockVars, Lock, Break, Age, Start, OpenCreates, OpenRefused, WriteToken,
         WriteTokenFails, Leave, UnlockReads, Unlink, Judge, Stat, Rename, Verify, LinkBack,
         ProcessDies, ProcessStarts, ExclusionInv, LockTypeOK
<1>4. Undisturbed /\ LockTypeOK
  BY <1>3 DEF ExclusionInv
<1>5. CASE Age
  <2>1. lock \in File /\ lock[1] \in Process /\ lock # NoFile
    BY <1>5, <1>4, LockAssumption DEF Age, LockTypeOK, File
  <2>2. BeingWritten(lock)
    BY <1>5, <2>1, <1>4 DEF Age, Undisturbed, HoldsLock, BeingWritten
  <2> QED
    BY <1>5, <2>2 DEF Age
<1>6. ASSUME NEW p \in Process, ProcessDies(p) \/ ProcessStarts(p)
      PROVE  Undisturbed'
  BY <1>6, <1>3, <1>4 DEF ProcessDies, ProcessStarts, Undisturbed, Breaking
<1> QED
  BY <1>2, <1>4, <1>5, <1>6, LockUndisturbed, BreakUndisturbed DEF LockNext

\* The invariant ExclusionUntilCrash of the run lock, for every number of
\* processes: if no process stalls for lockStaleMs between open() and write().
THEOREM ExclusionHolds ==
  ASSUME ~ Stalls
  PROVE  LockSpec => []ExclusionUntilCrash
<1>1. ExclusionInv /\ [LockNext]_lockVars => ExclusionInv'
  BY ExclusionStep
<1>2. ExclusionInv => ExclusionUntilCrash
  BY DEF ExclusionInv, ExclusionUntilCrash, MutualExclusion, InSection, Undisturbed, HoldsLock,
         Holding
<1> QED
  BY ExclusionInit, <1>1, <1>2, PTL DEF LockSpec

-----------------------------------------------------------------------------
(* Only the lock of a dead process is broken *)

\* What a breaker has read and found written is the lock of a dead process, and
\* it verifies a file it has moved aside.
JudgedDead ==
  \A p \in Process : /\ judged[p] # NoFile => judged[p] \in corpses
                     /\ pc[p] = "verify" => grave[p] # NoFile

BreakInv == LockTypeOK /\ JudgedDead

LEMMA BreakInit == LockInit => BreakInv
  BY LockTypeInit DEF LockInit, BreakInv, JudgedDead

\* The corpses that go are those of files nobody refers to, and what a process
\* judges is never more than it reads from a dead one's file.
LEMMA JudgedStep ==
  ASSUME BreakInv, [LockNext]_lockVars
  PROVE  JudgedDead'
<1>0. LockTypeOK /\ JudgedDead
  BY DEF BreakInv
<1>1. ASSUME NEW p \in Process, Lock(p)
      PROVE  JudgedDead'
  <2>1. CASE \E f \in File : OpenCreates(p, f)
    <3>1. PICK f \in File : OpenCreates(p, f)
      BY <2>1
    <3>2. \A q \in Process : judged[q] # f
      BY <3>1 DEF OpenCreates, InUse
    <3> QED
      BY <1>0, <3>1, <3>2 DEF OpenCreates, Goto, LockTypeOK, JudgedDead
  <2>2. CASE ~ \E f \in File : OpenCreates(p, f)
    BY <1>0, <1>1, <2>2 DEF Lock, Start, OpenRefused, WriteToken, WriteTokenFails, Leave, UnlockReads,
         Unlink, Return, Goto, Files, LockTypeOK, JudgedDead
  <2> QED
    BY <2>1, <2>2
<1>2. ASSUME NEW p \in Process, Judge(p)
      PROVE  JudgedDead'
  BY <1>0, <1>2 DEF Judge, TryAgain, Return, Goto, Files, Content, Dead, LockTypeOK, JudgedDead
<1>3. ASSUME NEW p \in Process, Stat(p) \/ LinkBack(p) \/ Verify(p)
      PROVE  JudgedDead'
  BY <1>0, <1>3 DEF Stat, LinkBack, Verify, TryAgain, Return, Goto, Files, LockTypeOK, JudgedDead
<1>4. ASSUME NEW p \in Process, Rename(p)
      PROVE  JudgedDead'
  BY <1>0, <1>4 DEF Rename, TryAgain, Goto, LockTypeOK, JudgedDead
<1>5. ASSUME NEW p \in Process, ProcessDies(p) \/ ProcessStarts(p)
      PROVE  JudgedDead'
  BY <1>0, <1>5 DEF ProcessDies, ProcessStarts, Return, Goto, LockTypeOK, JudgedDead
<1>6. CASE Age \/ UNCHANGED lockVars
  BY <1>0, <1>6 DEF Age, lockVars, JudgedDead
<1> QED
  BY <1>1, <1>2, <1>3, <1>4, <1>5, <1>6 DEF LockNext, Break

\* A file leaves the grave of a process that verifies it only when it is the one
\* that process has judged.
LEMMA DeletedIsJudged ==
  ASSUME BreakInv, [LockNext]_lockVars, NEW p \in Process, pc[p] = "verify", grave'[p] = NoFile
  PROVE  grave[p] \in torn \/ Dead(grave[p])
<1>0. LockTypeOK /\ JudgedDead
  BY DEF BreakInv
<1>1. grave[p] # NoFile
  BY <1>0 DEF JudgedDead
<1>2. Verify(p)
  <2>1. ASSUME NEW q \in Process, Lock(q)
        PROVE  grave' = grave
    BY <2>1 DEF Lock, Start, OpenCreates, OpenRefused, WriteToken, WriteTokenFails, Leave,
                UnlockReads, Unlink, Files
  <2>2. ASSUME NEW q \in Process, Judge(q) \/ Stat(q) \/ ProcessDies(q)
        PROVE  grave' = grave
    BY <2>2 DEF Judge, Stat, ProcessDies, Files
  <2>3. ASSUME NEW q \in Process, Rename(q) \/ LinkBack(q) \/ ProcessStarts(q)
        PROVE  grave'[p] = grave[p]
    BY <1>0, <2>3 DEF Rename, LinkBack, ProcessStarts, LockTypeOK
  <2>4. ASSUME NEW q \in Process, Verify(q), q # p
        PROVE  grave'[p] = grave[p]
    BY <1>0, <2>4 DEF Verify, LockTypeOK
  <2>5. CASE Age \/ UNCHANGED lockVars
    BY <1>1, <2>5 DEF Age, lockVars
  <2> QED
    BY <1>1, <2>1, <2>2, <2>3, <2>4, <2>5 DEF LockNext, Break
<1>3. Content(grave[p]) = judged[p]
  BY <1>1, <1>2 DEF Verify
<1> QED
  BY <1>0, <1>1, <1>3 DEF Content, Dead, JudgedDead

\* The action property WrittenLockBrokenOnlyIfDead of the run lock, for every
\* number of processes and deaths, also when processes stall.
THEOREM OnlyDeadLocksBroken == LockSpec => WrittenLockBrokenOnlyIfDead
<1>1. BreakInv /\ [LockNext]_lockVars => BreakInv'
  BY LockTypeStep, JudgedStep DEF BreakInv
<1>2. BreakInv /\ [LockNext]_lockVars =>
        [\A p \in Process :
           pc[p] = "verify" /\ grave'[p] = NoFile => grave[p] \in torn \/ Dead(grave[p])]_lockVars
  BY DeletedIsJudged
<1> QED
  BY BreakInit, <1>1, <1>2, PTL DEF LockSpec, WrittenLockBrokenOnlyIfDead
=============================================================================
