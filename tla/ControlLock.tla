----------------------------- MODULE ControlLock -----------------------------
(***************************************************************************)
(* control.lock, the exclusive-create lock file around every read-modify-  *)
(* write of the storage control files: withLock, breakStaleLock and        *)
(* unlockIfOwned of lib/storage/coordinator.js, one action per file-system *)
(* call, because other processes run between any two of them. A process    *)
(* may die at any call and a new one, with a new pid, take its place.      *)
(***************************************************************************)
EXTENDS Naturals

CONSTANTS Process,      \* places for processes that share the control directory
          NoFile,      \* no file
          MaxCrash,  \* deaths of processes
          Stalls     \* may a lock file outlive lockStaleMs before it is written?

\* One lock file ever created: its creator and which of its tries it was. A
\* try number is reused once nothing refers to the old file any more.
File == Process \X (0..2)

ASSUME LockAssumption == NoFile \notin File /\ MaxCrash \in Nat /\ Stalls \in BOOLEAN

VARIABLES
  lock,    \* the file at the path control.lock
  grave,   \* the file each process has moved aside
  mine,    \* the file each process created last
  torn,    \* files whose token is not written yet, or never will be
  aged,    \* torn files older than lockStaleMs
  corpses, \* files whose creator is dead
  judged,  \* what breakStaleLock read: a file's token, or None for a torn one
  retry,   \* second pass of withLock's loop
  pc,      \* where each process is
  crashes

lockVars == <<lock, grave, mine, torn, aged, corpses, judged, retry, pc, crashes>>

Steps == {"out", "open", "write", "critical", "unlocking", "unlink",
          "judge", "stat", "rename", "verify", "link", "dead"}

LockTypeOK ==
  /\ lock \in File \cup {NoFile}
  /\ grave \in [Process -> File \cup {NoFile}]
  /\ mine \in [Process -> File \cup {NoFile}]
  /\ torn \in SUBSET File /\ aged \in SUBSET File /\ corpses \in SUBSET File
  /\ judged \in [Process -> File \cup {NoFile}]
  /\ retry \in [Process -> BOOLEAN]
  /\ pc \in [Process -> Steps]
  /\ crashes \in Nat

LockInit ==
  /\ lock = NoFile
  /\ grave = [p \in Process |-> NoFile]
  /\ mine = [p \in Process |-> NoFile]
  /\ torn = {} /\ aged = {} /\ corpses = {}
  /\ judged = [p \in Process |-> NoFile]
  /\ retry = [p \in Process |-> FALSE]
  /\ pc = [p \in Process |-> "out"]
  /\ crashes = 0

Goto(p, step) == pc' = [pc EXCEPT ![p] = step]

\* Control files of this module a step of withLock leaves alone.
Files == <<lock, grave, torn, aged, corpses>>

\* withLock returns or throws: its local variables are gone.
Return(p) ==
  /\ Goto(p, "out")
  /\ mine' = [mine EXCEPT ![p] = NoFile]
  /\ judged' = [judged EXCEPT ![p] = NoFile]
  /\ retry' = [retry EXCEPT ![p] = FALSE]

\* The token inside a file: only its own, and only once it is written.
Content(f) == IF f \in torn THEN NoFile ELSE f

InUse == {lock} \cup {grave[p] : p \in Process} \cup {judged[p] : p \in Process}
                \cup {mine[p] : p \in Process}

-----------------------------------------------------------------------------
(* withLock *)

Start(p) ==
  /\ pc[p] = "out"
  /\ Goto(p, "open")
  /\ UNCHANGED <<Files, mine, judged, retry, crashes>>

\* Mutant: open(lock, 'w'), an existing file does not stop us.
OpenTruncates(p, f) ==
  /\ pc[p] = "open"
  /\ f[1] = p /\ f \notin InUse
  /\ lock' = f
  /\ mine' = [mine EXCEPT ![p] = f]
  /\ torn' = torn \cup {f}
  /\ aged' = aged \ {f}
  /\ corpses' = corpses \ {f}
  /\ Goto(p, "write")
  /\ UNCHANGED <<grave, judged, retry, crashes>>

\* open(lock, 'wx') succeeds: an empty file of ours is at the path.
OpenCreates(p, f) ==
  /\ pc[p] = "open"
  /\ lock = NoFile
  /\ f[1] = p /\ f \notin InUse
  /\ lock' = f
  /\ mine' = [mine EXCEPT ![p] = f]
  /\ torn' = torn \cup {f}
  /\ aged' = aged \ {f}
  /\ corpses' = corpses \ {f}
  /\ Goto(p, "write")
  /\ UNCHANGED <<grave, judged, retry, crashes>>

\* EEXIST: judge the file on the first pass, report control_locked on the second.
OpenRefused(p) ==
  /\ pc[p] = "open"
  /\ lock # NoFile
  /\ IF retry[p] THEN Return(p) ELSE Goto(p, "judge") /\ UNCHANGED <<mine, judged, retry>>
  /\ UNCHANGED <<Files, crashes>>

\* The token is written through the descriptor, wherever the file is by now.
WriteToken(p) ==
  /\ pc[p] = "write"
  /\ torn' = torn \ {mine[p]}
  /\ aged' = aged \ {mine[p]}
  /\ Goto(p, "critical")
  /\ UNCHANGED <<lock, grave, mine, corpses, judged, retry, crashes>>

\* The write fails: whatever is at the path is removed.
WriteTokenFails(p) ==
  /\ pc[p] = "write"
  /\ lock' = NoFile
  /\ Return(p)
  /\ UNCHANGED <<grave, torn, aged, corpses, crashes>>

\* fn() has run; unlockIfOwned follows.
Leave(p) ==
  /\ pc[p] = "critical"
  /\ Goto(p, "unlocking")
  /\ UNCHANGED <<Files, mine, judged, retry, crashes>>

\* unlockIfOwned reads the token at the path ...
UnlockReads(p) ==
  /\ pc[p] = "unlocking"
  /\ IF lock = mine[p]
     THEN Goto(p, "unlink") /\ UNCHANGED <<mine, judged, retry>>
     ELSE Return(p)
  /\ UNCHANGED <<Files, crashes>>

\* ... and then removes the path.
Unlink(p) ==
  /\ pc[p] = "unlink"
  /\ lock' = NoFile
  /\ Return(p)
  /\ UNCHANGED <<grave, torn, aged, corpses, crashes>>

-----------------------------------------------------------------------------
(* breakStaleLock *)

\* It returned true: the loop of withLock goes round once more.
TryAgain(p) ==
  /\ retry' = [retry EXCEPT ![p] = TRUE]
  /\ judged' = [judged EXCEPT ![p] = NoFile]
  /\ Goto(p, "open")
  /\ UNCHANGED mine

\* pidLooksDead of the pid in a written file.
Dead(f) == f \in corpses

\* Read the lock. Gone: try again. Holder alive: give up. Holder dead: break it.
\* Torn: look at its age first.
Judge(p) ==
  /\ pc[p] = "judge"
  /\ \/ lock = NoFile /\ TryAgain(p)
     \/ /\ lock # NoFile
        /\ lock \notin torn /\ ~ Dead(lock)
        /\ Return(p)
     \/ /\ lock # NoFile
        /\ lock \in torn \/ Dead(lock)
        /\ judged' = [judged EXCEPT ![p] = Content(lock)]
        /\ Goto(p, IF lock \in torn THEN "stat" ELSE "rename")
        /\ UNCHANGED <<mine, retry>>
  /\ UNCHANGED <<Files, crashes>>

\* Mutant: a torn lock is left alone however old it is.
StatGivesUp(p) ==
  /\ pc[p] = "stat"
  /\ \/ lock = NoFile /\ TryAgain(p)
     \/ lock # NoFile /\ Return(p)
  /\ UNCHANGED <<Files, crashes>>

\* The age is that of the file at the path now, not of the one that was read.
Stat(p) ==
  /\ pc[p] = "stat"
  /\ \/ lock = NoFile /\ TryAgain(p)
     \/ lock # NoFile /\ lock \notin aged /\ Return(p)
     \/ lock \in aged /\ Goto(p, "rename") /\ UNCHANGED <<mine, judged, retry>>
  /\ UNCHANGED <<Files, crashes>>

\* Move whatever is at the path aside.
Rename(p) ==
  /\ pc[p] = "rename"
  /\ IF lock = NoFile
     THEN TryAgain(p) /\ UNCHANGED <<lock, grave>>
     ELSE /\ grave' = [grave EXCEPT ![p] = lock]
          /\ lock' = NoFile
          /\ Goto(p, "verify")
          /\ UNCHANGED <<mine, judged, retry>>
  /\ UNCHANGED <<torn, aged, corpses, crashes>>

\* Mutant: whatever was moved aside is deleted.
VerifyNothing(p) ==
  /\ pc[p] = "verify"
  /\ TryAgain(p)
  /\ grave' = [grave EXCEPT ![p] = NoFile]
  /\ UNCHANGED <<lock, torn, aged, corpses, crashes>>

\* The file taken is the one judged: it is deleted, the lock is broken.
Verify(p) ==
  /\ pc[p] = "verify"
  /\ IF Content(grave[p]) = judged[p]
     THEN TryAgain(p) /\ grave' = [grave EXCEPT ![p] = NoFile]
     ELSE Goto(p, "link") /\ UNCHANGED <<grave, mine, judged, retry>>
  /\ UNCHANGED <<lock, torn, aged, corpses, crashes>>

\* It is another file: link() puts it back unless a newer lock is there.
LinkBack(p) ==
  /\ pc[p] = "link"
  /\ lock' = IF lock = NoFile THEN grave[p] ELSE lock
  /\ grave' = [grave EXCEPT ![p] = NoFile]
  /\ Return(p)
  /\ UNCHANGED <<torn, aged, corpses, crashes>>

-----------------------------------------------------------------------------
\* A process dies at any point; the files stay as they are.
ProcessDies(p) ==
  /\ pc[p] # "dead"
  /\ crashes < MaxCrash
  /\ crashes' = crashes + 1
  /\ corpses' = corpses \cup {f \in InUse \ {NoFile} : f[1] = p}
  /\ Goto(p, "dead")
  /\ UNCHANGED <<lock, grave, mine, torn, aged, judged, retry>>

\* Another process starts in its place. What the dead one had moved aside stays
\* on the disk under a name nobody looks up.
ProcessStarts(p) ==
  /\ pc[p] = "dead"
  /\ grave' = [grave EXCEPT ![p] = NoFile]
  /\ Return(p)
  /\ UNCHANGED <<lock, torn, aged, corpses, crashes>>

\* Its creator still runs between open() and write().
BeingWritten(f) == pc[f[1]] = "write" /\ mine[f[1]] = f

\* lockStaleMs pass. A torn file that nobody will write any more gets old; one
\* that is being written does only if its creator stalls that long.
Age ==
  /\ lock \in torn \ aged
  /\ Stalls \/ ~ BeingWritten(lock)
  /\ aged' = aged \cup {lock}
  /\ UNCHANGED <<lock, grave, mine, torn, corpses, judged, retry, pc, crashes>>

Lock(p) ==
  \/ Start(p) \/ (\E f \in File : OpenCreates(p, f)) \/ OpenRefused(p)
  \/ WriteToken(p) \/ WriteTokenFails(p) \/ Leave(p) \/ UnlockReads(p) \/ Unlink(p)

Break(p) == Judge(p) \/ Stat(p) \/ Rename(p) \/ Verify(p) \/ LinkBack(p)

LockNext == (\E p \in Process : Lock(p) \/ Break(p) \/ ProcessDies(p) \/ ProcessStarts(p)) \/ Age

LockSpec == LockInit /\ [][LockNext]_lockVars

\* A live process runs its synchronous section to the end, and retries forever;
\* the disk takes the token once in a while.
FairLockSpec ==
  /\ LockSpec
  /\ WF_lockVars(Age)
  /\ \A p \in Process : WF_lockVars(Lock(p) \/ Break(p)) /\ SF_lockVars(WriteToken(p))

-----------------------------------------------------------------------------
InSection(p) == pc[p] = "critical"

\* At most one process runs a section of the coordinator at a time. It is what
\* StorageCoordinator builds on when it makes such a section one action.
MutualExclusion == \A p, q \in Process : InSection(p) /\ InSection(q) => p = q

\* As long as nobody has died inside withLock, exclusion is never lost, whatever
\* the others judge, refuse or retry.
ExclusionUntilCrash == crashes = 0 => MutualExclusion

\* "The control lock is held only for a synchronous critical section": the
\* written lock of a live process is at the path only while that process is
\* inside withLock. Left behind, nobody could ever break it.
NoOrphanLock ==
  lock # NoFile /\ lock \notin torn /\ ~ Dead(lock) =>
    /\ pc[lock[1]] \in {"critical", "unlocking", "unlink"}
    /\ mine[lock[1]] = lock

\* "Live holders are never broken": once its token is written, a lock that a
\* breaker deletes as stale is that of a dead process, however many processes
\* judge, break and re-create the lock at the same time.
WrittenLockBrokenOnlyIfDead ==
  [][\A p \in Process :
        pc[p] = "verify" /\ grave'[p] = NoFile => grave[p] \in torn \/ Dead(grave[p])]_lockVars

\* The control directory is never blocked for good by a crash: as long as live
\* processes keep asking, somebody gets in again and again, unless the lock of a
\* live process was left behind (NoOrphanLock says how).
NeverBlocked ==
  []<>((\E p \in Process : InSection(p)) \/ (\A p \in Process : pc[p] = "dead") \/ ~ NoOrphanLock)
=============================================================================
