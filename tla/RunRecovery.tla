----------------------------- MODULE RunRecovery -----------------------------
(* The recovery registry of one chat: the durable rows that say which agent    *)
(* turns were started, accepted and ended (lib/chat-run/chat-run-recovery.ts,   *)
(* lib/recovery/recovery-lifecycle.ts), the manual and the automatic resume of  *)
(* an interrupted row (recovery-resume.ts, recovery-scheduler.ts), and what a   *)
(* new process concludes from the rows it finds (recovery-boot.ts).             *)
(*                                                                              *)
(* One Node process at a time serves the chat. Its code interleaves only where  *)
(* it awaits; a stretch without an await is still several SQLite transactions,  *)
(* and the process can die between any two of them: the variable sync holds     *)
(* such a stretch, and while it is set only its next step or a crash happens.   *)
EXTENDS Naturals, FiniteSets, SequencesExt

CONSTANTS
  MaxRow,       \* bound on the rows of the chat
  Request,      \* request ids a client chooses and may send again
  Fresh,        \* stands for a request id used once (prompts, continuations)
  ManualKey,    \* idempotency keys of manual resumes
  AutoKey,      \* the one idempotency key of automatic resumes of a row
  MaxKeys,      \* keys a row stores, the oldest is dropped (RESUME_MAX_STORED_KEYS)
  MaxReprobes,  \* re-probes before a row of unknown liveness is escalated
  MaxCrash,     \* bound on process deaths
  MaxBootCrash, \* bound on further deaths while a process boots
  Other,        \* a turn that was started while the registry was closed
  None

VARIABLES
  row,      \* table recovery_runs: one record per row
  phase,    \* "down", "listening" (registry still closed), "up"
  room,     \* the chat's room: is it open, its current turn, its last turn
  claim,    \* the key under which this process resumes a row and has not launched yet
  launch,   \* what holds the chat's start lock and waits for the room: the launch of a
            \* row, or a request that found the registry closed and has no row
  sync,     \* the stretch of code in progress that does not await
  crashes,
  cont,     \* history: the row and the key a turn continues
  later,    \* history: claims of that row since then, saturating at MaxKeys + 1
  served,   \* history: the last turn started on behalf of a row
  closed    \* history: rows whose last turn completed, or that the user stopped

vars == <<row, phase, room, claim, launch, sync, crashes, cont, later, served, closed>>
history == <<cont, later, served, closed>>

Row == 1..MaxRow
Turn == Row \cup {Other}
Key == ManualKey \cup {AutoKey}
Open == {"starting", "running"}
Launch == [row : Row, for : Row \cup {None}]
Stretches ==
  [row : Row, for : Row \cup {None}, stage : {"start", "own", "bind", "ack", "give back"}]

ASSUME RecoveryConstants ==
  /\ MaxRow \in Nat /\ MaxReprobes \in Nat /\ MaxCrash \in Nat /\ MaxBootCrash \in Nat
  /\ MaxKeys \in Nat \ {0}
  /\ AutoKey \notin ManualKey /\ Fresh \notin Request
  /\ Other \notin Row
  /\ None \notin Key \cup Turn \cup Stretches \cup (Row \X Key) \cup Request \cup Launch
  /\ Request \cap Launch = {}

Blank == [state |-> "absent", request |-> Fresh, refused |-> FALSE, accepted |-> None,
          resumeTurn |-> None, keys |-> <<>>, automatic |-> FALSE, recoverable |-> FALSE,
          attempts |-> 0]

NoRoom == [open |-> FALSE, current |-> None, last |-> None]

Init ==
  /\ row = [r \in Row |-> Blank]
  /\ phase = "listening" /\ room = NoRoom
  /\ claim = [r \in Row |-> None] /\ launch = None /\ sync = None /\ crashes = 0
  /\ closed = {}
  /\ cont = [r \in Row |-> None] /\ later = [r \in Row |-> 0] /\ served = [r \in Row |-> None]

-----------------------------------------------------------------------------
(* Helpers *)

Free == {r \in Row : row[r].state = "absent"}
IsNext(c) == c \in Free /\ \A r \in Free : c <= r
Idle == phase = "up" /\ sync = None

(* chat-run-service.js probeChatRunLiveness over the room's getState: the      *)
(* answer about the turn wanted, or about the chat when wanted is None.        *)
Probe(wanted) ==
  LET seen == IF room.current # None THEN room.current ELSE room.last
  IN  IF ~room.open \/ (wanted # None /\ room.current \notin {None, wanted}) THEN "state_missing"
      ELSE IF wanted # None /\ seen \notin {None, wanted} THEN "run_mismatch"
      ELSE IF room.current # None THEN "busy" ELSE "idle"

(* recovery-resume-routes.js: the liveness a resume goes by. *)
ResumeLiveness(r) ==
  CASE row[r].accepted = None -> "unknown"
    [] row[r].accepted # None /\ Probe(row[r].accepted) = "busy" -> "alive"
    [] row[r].accepted # None /\ Probe(row[r].accepted) \in {"idle", "state_missing"} -> "dead"
    [] OTHER -> "unknown"

(* Boot evidence of unknown class counts an attempt, any other resets them. *)
Escalated(r) == row[r].attempts > MaxReprobes
Doubtful(r) == row[r].attempts > 0 /\ ~Escalated(r)

(* recovery-resume.ts gate and selectPath *)
Resumable(r, confirmed) ==
  /\ row[r].state \in {"interrupted", "unknown"}
  /\ row[r].state = "unknown" \/ ResumeLiveness(r) = "unknown" => confirmed
  /\ ~(row[r].state = "unknown" /\ Doubtful(r))
  /\ ResumeLiveness(r) # "alive"

(* recovery-scheduler.ts isAutomaticActive *)
AutomaticActive(r) ==
  row[r].state \in Open \cup {"recovering"} /\ row[r].automatic /\ AutoKey \in ToSet(row[r].keys)

-----------------------------------------------------------------------------
(* Starting a turn *)

\* Mutant: the acceptance is written with the intent, before the turn starts.
AcceptedAtIntent(c, q) ==
  row' = [row EXCEPT ![c] = [Blank EXCEPT !.state = "starting", !.request = q, !.accepted = c]]

NewRow(c, q) == row' = [row EXCEPT ![c] = [Blank EXCEPT !.state = "starting", !.request = q]]

(* startChatRun: the start lock is taken, the room is idle, and the intent is   *)
(* written before the prompt goes to the adapter, which awaits the room.        *)
TakeLock(q, r) ==
  /\ Idle /\ launch = None /\ room.current = None
  /\ \E c \in Row : IsNext(c) /\ NewRow(c, q) /\ launch' = [row |-> c, for |-> r]
  /\ UNCHANGED <<phase, room, claim, sync, crashes, history>>

\* Mutant: a cancelled row counts as refused.
AgainIfCancelled(q) ==
  /\ \A r \in Row : row[r].request = q => row[r].state = "cancelled"
  /\ TakeLock(q, None)

(* A caller's request: sent again only when every earlier row of it is proven  *)
(* refused (beginChatRunRecord).                                               *)
Unsent(q) == \A r \in Row : row[r].request = q => row[r].refused

StartRequest(q) == Unsent(q) /\ TakeLock(q, None)

ResumeTakesLock(r) == claim[r] # None /\ TakeLock(Fresh, r)

(* The room is there and not busy: the prompt is handed over in the same        *)
(* stretch as the acknowledgements.                                             *)
StartTurn(c, r) ==
  /\ room' = [room EXCEPT !.open = TRUE, !.current = c]
  /\ sync' = [row |-> c, for |-> r, stage |-> "own"]
  /\ cont' = [cont EXCEPT ![c] = IF r = None THEN None ELSE <<r, claim[r]>>]
  /\ later' = [later EXCEPT ![c] = 0]
  /\ served' = [x \in Row |-> IF x \in {c, r} THEN c ELSE served[x]]

RoomReady ==
  /\ Idle /\ launch \in Launch /\ room.current = None
  /\ StartTurn(launch.row, launch.for)
  /\ launch' = None
  /\ UNCHANGED <<row, phase, claim, crashes, closed>>

(* The start fails: busy by now, or the room could not be opened. A known code  *)
(* proves that nothing was started (recordChatRunStartFailed); any other leaves *)
(* the row unproven. Either way a claim is given back.                          *)
StartFails(known) ==
  /\ Idle /\ launch \in Launch
  /\ known \/ room.current = None
  /\ row' = IF known /\ row[launch.row].state = "starting"
            THEN [row EXCEPT ![launch.row].state = "cancelled", ![launch.row].refused = TRUE]
            ELSE row
  /\ sync' = IF launch.for = None THEN None
             ELSE [row |-> launch.row, for |-> launch.for, stage |-> "give back"]
  /\ launch' = None
  /\ UNCHANGED <<phase, room, claim, crashes, history>>

(* While the registry is closed a request is not looked up and no intent is     *)
(* written, so nothing tells that it was accepted before.                       *)
StartBlind(q) ==
  /\ phase = "listening" /\ launch = None /\ room.current = None
  /\ launch' = q
  /\ UNCHANGED <<row, phase, room, claim, sync, crashes, history>>

(* The room is there: acceptRoomPrompt asks the registry again. Still closed,   *)
(* the turn is not recorded; open by now, it is, or the request is refused.     *)
BlindStarts ==
  /\ phase = "listening" /\ launch \in Request /\ room.current = None
  /\ room' = [room EXCEPT !.open = TRUE, !.current = Other]
  /\ launch' = None
  /\ UNCHANGED <<row, phase, claim, sync, crashes, history>>

BlindRecorded ==
  /\ Idle /\ launch \in Request /\ room.current = None /\ Unsent(launch)
  /\ \E c \in Row : /\ IsNext(c) /\ NewRow(c, launch)
                    /\ sync' = [row |-> c, for |-> None, stage |-> "start"]
  /\ launch' = None
  /\ UNCHANGED <<phase, room, claim, crashes, history>>

BlindFails ==
  /\ phase # "down" /\ sync = None /\ launch \in Request /\ launch' = None
  /\ UNCHANGED <<row, phase, room, claim, sync, crashes, history>>

(* A prompt typed by the user goes to the room directly: no lock, no request id. *)
UserPrompt ==
  /\ Idle /\ room.current = None
  /\ \E c \in Row : /\ IsNext(c) /\ NewRow(c, Fresh)
                    /\ sync' = [row |-> c, for |-> None, stage |-> "start"]
  /\ UNCHANGED <<phase, room, claim, launch, crashes, history>>

PromptStarts ==
  /\ sync # None /\ sync.stage = "start"
  /\ StartTurn(sync.row, None)
  /\ UNCHANGED <<row, phase, claim, launch, crashes, closed>>

(* Before the registry is open turns are not recorded (a closed store skips     *)
(* recording instead of blocking every chat).                                   *)
PromptUnrecorded ==
  /\ phase = "listening" /\ room.current = None
  /\ room' = [room EXCEPT !.open = TRUE, !.current = Other]
  /\ UNCHANGED <<row, phase, claim, launch, sync, crashes, history>>

(* recordExecutorAck on the turn's own row; a row stopped meanwhile stays so.   *)
AckOwn ==
  /\ sync # None /\ sync.stage = "own"
  /\ row' = IF row[sync.row].state = "starting"
            THEN [row EXCEPT ![sync.row].state = "running", ![sync.row].accepted = sync.row]
            ELSE row
  /\ sync' = IF sync.for = None THEN None ELSE [sync EXCEPT !.stage = "bind"]
  /\ UNCHANGED <<phase, room, claim, launch, crashes, history>>

(* finishClaim after an accepted launch: the resumed row learns its turn ...    *)
BindResumed ==
  /\ sync # None /\ sync.stage = "bind"
  /\ row' = [row EXCEPT ![sync.for].state = "starting", ![sync.for].resumeTurn = sync.row]
  /\ claim' = [claim EXCEPT ![sync.for] = None]
  /\ sync' = [sync EXCEPT !.stage = "ack"]
  /\ UNCHANGED <<phase, room, launch, crashes, history>>

(* ... and recordResumedAttemptAck moves it to running.                         *)
AckResumed ==
  /\ sync # None /\ sync.stage = "ack"
  /\ row' = [row EXCEPT ![sync.for].state = "running", ![sync.for].accepted = sync.row]
  /\ sync' = None
  /\ UNCHANGED <<phase, room, claim, launch, crashes, history>>

-----------------------------------------------------------------------------
(* Resuming *)

\* Mutant: one key less is stored.
OneLess(keys, k) ==
  LET all == Append(keys, k) IN IF Len(all) >= MaxKeys THEN Tail(all) ELSE all

(* withStoredResult: the newest key last, the oldest dropped. finishClaim stores *)
(* its key again, which is the last one already.                                *)
WithStored(keys, k) ==
  LET all == Append(keys, k) IN IF Len(all) > MaxKeys THEN Tail(all) ELSE all

Continues(c, r) == cont[c] # None /\ cont[c][1] = r

Claim(r, k) ==
  /\ row' = [row EXCEPT ![r].state = "recovering", ![r].keys = WithStored(@, k),
                        ![r].automatic = (k = AutoKey)]
  /\ claim' = [claim EXCEPT ![r] = k]
  /\ later' = [c \in Row |-> IF Continues(c, r) /\ later[c] <= MaxKeys THEN later[c] + 1
                             ELSE later[c]]
  /\ UNCHANGED <<phase, room, launch, sync, crashes, cont, served, closed>>

(* resumeRun: a key that is stored already only replays its stored result.      *)
Resume(r, k, confirmed) ==
  /\ Idle /\ k \notin ToSet(row[r].keys) /\ Resumable(r, confirmed)
  /\ Claim(r, k)

(* One scheduler pass: evaluateAutomaticResume, then the same claim.            *)
AutoResume(r) ==
  /\ Idle
  /\ row[r].state = "interrupted" /\ row[r].recoverable /\ row[r].accepted # None
  /\ Probe(row[r].accepted) = "idle"
  /\ AutoKey \notin ToSet(row[r].keys) /\ \A s \in Row : ~AutomaticActive(s)
  /\ Resumable(r, FALSE)
  /\ Claim(r, AutoKey)

(* finishClaim after a launch that was not accepted *)
GiveBackClaim(r) ==
  /\ row' = [row EXCEPT ![r].state = "interrupted"]
  /\ claim' = [claim EXCEPT ![r] = None]
  /\ UNCHANGED <<phase, room, crashes, history>>

(* Refused before an intent was written: recipient busy, update or shutdown.    *)
ResumeRefused(r) ==
  /\ Idle /\ claim[r] # None /\ (launch \in Launch => launch.for # r)
  /\ GiveBackClaim(r) /\ UNCHANGED <<launch, sync>>

ResumeFails ==
  /\ sync # None /\ sync.stage = "give back"
  /\ GiveBackClaim(sync.for) /\ sync' = None /\ UNCHANGED launch

(* recovery-ui.ts keepRunStopped *)
KeepStopped(r) ==
  /\ Idle /\ row[r].state \in {"interrupted", "unknown"}
  /\ row' = [row EXCEPT ![r].state = "cancelled"]
  /\ closed' = closed \cup {r}
  /\ UNCHANGED <<phase, room, claim, launch, sync, crashes, cont, later, served>>

-----------------------------------------------------------------------------
(* The end of a turn, and Stop *)

OwnRowOnly(t) == {r \in Row : row[r].state = "running" /\ t = r}              \* mutant
(* noteChatRunFinished: the rows a finished turn t ends *)
Ended(t) ==
  {r \in Row : \/ row[r].state = "running" /\ t \in {row[r].accepted, row[r].resumeTurn}
               \/ row[r].state = "starting" /\ t = row[r].resumeTurn}

Settled(S, to) ==
  [r \in Row |-> IF r \notin S THEN row[r]
                 ELSE [row[r] EXCEPT !.state = to, !.recoverable = @ /\ to # "interrupted"]]

TurnEnds(to) ==
  /\ phase # "down" /\ sync = None /\ room.current # None
  /\ row' = IF phase = "up" THEN Settled(Ended(room.current), to) ELSE row
  /\ room' = [room EXCEPT !.current = None, !.last = room.current]
  /\ closed' = IF to = "completed" THEN closed \cup {r \in Row : served[r] = room.current} ELSE closed
  /\ UNCHANGED <<phase, claim, launch, sync, crashes, cont, later, served>>

\* Mutant: only the turn's own row is stopped.
StopsOwnRow(t) == {r \in Row : row[r].state \in Open /\ (t # None => r = t)}

(* noteChatRunStopped, written before the adapter is told to cancel: the open   *)
(* rows of the turn in progress, or of the chat when no turn is named.          *)
Stoppable(t) == {r \in Row : row[r].state \in Open /\ (t # None => row[r].accepted = t)}

Stop(t) ==
  /\ Idle /\ t \in {None, room.current} /\ Stoppable(t) # {}
  /\ row' = [r \in Row |-> IF r \in Stoppable(t) THEN [row[r] EXCEPT !.state = "cancelled"] ELSE row[r]]
  /\ closed' = IF room.current = None THEN closed
               ELSE closed \cup {r \in Row : served[r] = room.current}
  /\ UNCHANGED <<phase, room, claim, launch, sync, crashes, cont, later, served>>

(* The room of a chat opens with a client and goes when nobody needs it.        *)
OpenRoom ==
  /\ phase # "down" /\ sync = None /\ ~room.open
  /\ room' = [room EXCEPT !.open = TRUE]
  /\ UNCHANGED <<row, phase, claim, launch, sync, crashes, history>>

CloseRoom ==
  /\ phase # "down" /\ sync = None /\ room.open /\ room.current = None
  /\ room' = NoRoom
  /\ UNCHANGED <<row, phase, claim, launch, sync, crashes, history>>

-----------------------------------------------------------------------------
(* Death of the process, and the next one *)

Dies(bound) ==
  /\ crashes < bound /\ crashes' = crashes + 1
  /\ phase' = "down" /\ room' = NoRoom /\ launch' = None /\ sync' = None
  /\ claim' = [r \in Row |-> None]
  /\ UNCHANGED history

Crash == phase # "down" /\ Dies(MaxCrash) /\ UNCHANGED row

(* Death between the transactions of one ended turn (newest row first) or of    *)
(* one Stop (the starting rows, then the running ones).                         *)
Newer(S, T) == \A x \in S, y \in T : y > x => y \in S

DiesFinishing(to) ==
  /\ Idle /\ room.current # None
  /\ \E S \in SUBSET Ended(room.current) \ {{}} :
       Newer(S, Ended(room.current)) /\ row' = Settled(S, to)
  /\ Dies(MaxCrash)

DiesStopping(t) ==
  /\ Idle /\ t \in {None, room.current}
  /\ \E S \in SUBSET Stoppable(t) \ {{}} :
       LET In(state) == {r \in Stoppable(t) : row[r].state = state} IN
       /\ Newer(S \cap In("starting"), In("starting")) /\ Newer(S \cap In("running"), In("running"))
       /\ S \cap In("running") # {} => In("starting") \subseteq S
       /\ row' = [r \in Row |-> IF r \in S THEN [row[r] EXCEPT !.state = "cancelled"] ELSE row[r]]
  /\ Dies(MaxCrash)

Listen ==
  /\ phase = "down" /\ phase' = "listening"
  /\ UNCHANGED <<row, room, claim, launch, sync, crashes, history>>

(* classifyBootEvidence and recordBootEvidence for one row *)
Classified(r) ==
  LET found == Probe(row[r].accepted) IN
  CASE found = "busy" -> [row[r] EXCEPT !.attempts = 0]
    [] found = "idle" -> [row[r] EXCEPT !.attempts = 0, !.state = "interrupted", !.recoverable = TRUE]
    [] OTHER -> [row[r] EXCEPT !.attempts = IF Escalated(r) THEN @ ELSE @ + 1,
                               !.state = IF @ = "recovering" THEN "unknown" ELSE @,
                               !.recoverable = @ \/ row[r].state = "recovering"]

ClassifyRows(S) == row' = [r \in Row |-> IF r \in S THEN Classified(r) ELSE row[r]]

WithoutClaims == {r \in Row : row[r].state \in Open}                       \* mutant
AtBoot == {r \in Row : row[r].state \in Open \cup {"recovering"}}

Boot ==
  /\ phase = "listening" /\ phase' = "up"
  /\ ClassifyRows(AtBoot)
  /\ UNCHANGED <<room, claim, launch, sync, crashes, history>>

DiesBooting ==
  /\ phase = "listening"
  /\ \E last \in AtBoot : ClassifyRows({r \in AtBoot : r <= last})
  /\ Dies(MaxCrash + MaxBootCrash)

(* runDueBootReprobes: only starting and running rows are listed.               *)
ReprobeDue(r) == row[r].state \in Open /\ Doubtful(r)

Reprobe(r) ==
  /\ Idle /\ ReprobeDue(r)
  /\ ClassifyRows({r})
  /\ UNCHANGED <<phase, room, claim, launch, sync, crashes, history>>

-----------------------------------------------------------------------------
Outcome == {"completed", "cancelled", "interrupted"}

Step == PromptStarts \/ AckOwn \/ BindResumed \/ AckResumed \/ ResumeFails

Next ==
  \/ \E q \in Request : StartRequest(q) \/ StartBlind(q)
  \/ BlindStarts \/ BlindRecorded \/ BlindFails
  \/ UserPrompt \/ PromptUnrecorded \/ RoomReady \/ Step
  \/ \E known \in BOOLEAN : StartFails(known)
  \/ \E r \in Row, k \in ManualKey, confirmed \in BOOLEAN : Resume(r, k, confirmed)
  \/ \E r \in Row : AutoResume(r) \/ ResumeTakesLock(r) \/ ResumeRefused(r) \/ KeepStopped(r) \/ Reprobe(r)
  \/ \E to \in Outcome : TurnEnds(to) \/ DiesFinishing(to)
  \/ \E t \in Turn \cup {None} : Stop(t) \/ DiesStopping(t)
  \/ OpenRoom \/ CloseRoom \/ Crash \/ Listen \/ Boot \/ DiesBooting

Spec == Init /\ [][Next]_vars

-----------------------------------------------------------------------------
(* The rows whose own turn was started *)
Launched == {c \in Row : served[c] # None}

TypeOK ==
  /\ row \in [Row -> [state : Open \cup Outcome \cup {"absent", "unknown", "recovering"},
                      request : Request \cup {Fresh}, refused : BOOLEAN, accepted : Row \cup {None},
                      resumeTurn : Row \cup {None}, keys : Seq(Key), automatic : BOOLEAN,
                      recoverable : BOOLEAN,
                      attempts : 0..(MaxReprobes + 1)]]
  /\ phase \in {"down", "listening", "up"}
  /\ room \in [open : BOOLEAN, current : Turn \cup {None}, last : Turn \cup {None}]
  /\ claim \in [Row -> Key \cup {None}]
  /\ launch \in Launch \cup Request \cup {None}
  /\ sync \in Stretches \cup {None}
  /\ crashes \in 0..(MaxCrash + MaxBootCrash)
  /\ closed \subseteq Row
  /\ cont \in [Row -> (Row \X Key) \cup {None}] /\ later \in [Row -> 0..(MaxKeys + 1)]
  /\ served \in [Row -> Row \cup {None}]

(* However often its caller sends a request and whatever the processes that      *)
(* served it died of, at most one of its turns is recorded (beginChatRunRecord:  *)
(* only a proven refusal may be sent again), so at most one is started while the *)
(* registry is open. "The same caller requestId never launches twice"            *)
(* (chat-run-recovery.ts) is more than the code does: a process that listens     *)
(* with its registry still closed starts a recorded request again (BlindStarts). *)
LaunchedOnce ==
  \A q \in Request : Cardinality({c \in Launched : row[c].request = q}) <= 1

(* A key starts a second turn for a row only after MaxKeys other keys have       *)
(* claimed the row and pushed it out, across restarts: a client that repeats its *)
(* resume and a scheduler that looks again start none.                           *)
KeyLaunchesOnce ==
  \A c, d \in Launched :
    c # d /\ cont[c] # None /\ cont[c] = cont[d] => later[c] > MaxKeys \/ later[d] > MaxKeys

(* The accepted turn of a row was really started for it: a row that names a turn *)
(* which never ran would be probed, stopped and resumed as that turn.            *)
AcceptedIsTrue ==
  \A r \in Row : row[r].accepted # None =>
    LET c == row[r].accepted IN
    c \in Launched /\ (c = r \/ (cont[c] # None /\ cont[c][1] = r))

(* Between two stretches rows and turns know each other. A running turn is known *)
(* to every row it works for (its own and the one it resumes), so Stop and the    *)
(* end of the turn find them all; and a running row without its turn is one an    *)
(* earlier process left behind and the boot could not tell the end of.            *)
RowsMatchTurn ==
  Idle => \A r \in Row :
    /\ room.current \in Row /\ served[r] = room.current =>
         row[r].state = "cancelled" \/ (row[r].state = "running" /\ row[r].accepted = room.current)
    /\ row[r].state = "running" => row[r].accepted = room.current \/ row[r].attempts > 0

(* A claim does not outlive the process that took it: once the registry is open, *)
(* an accepted row is "recovering" only under a claim of this process, which a   *)
(* launch or its refusal ends. Nothing else ever would (recovery-boot.ts).       *)
ClaimIsHeld ==
  Idle => \A r \in Row :
    row[r].state = "recovering" /\ row[r].accepted # None => claim[r] # None

(* Stated by docs/recovery-contract.md:768 and not by the code: a Stop that lands  *)
(* while a continuation starts makes the claim's last CAS fail. The Stop lists     *)
(* only starting and running rows, and the claimed one is recovering.              *)
StopTakesTheClaim ==
  sync # None /\ sync.stage = "ack" => row[sync.row].state # "cancelled"

(* A row whose turn completed, or was stopped by the user, gets no other turn:   *)
(* not from a client, not from the scheduler, not after a crash.                 *)
ClosedStaysClosed == [][\A r \in closed : served'[r] = served[r]]_served
=============================================================================
