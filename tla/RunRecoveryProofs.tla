-------------------------- MODULE RunRecoveryProofs --------------------------
(* What the recovery registry guarantees for every number of rows, requests,    *)
(* keys, re-probes and process deaths.                                          *)
EXTENDS RunRecovery, FiniteSetTheorems, TLAPS

States == Open \cup Outcome \cup {"absent", "unknown", "recovering"}
RowType ==
  [state : States, request : Request \cup {Fresh}, refused : BOOLEAN, accepted : Row \cup {None},
   resumeTurn : Row \cup {None}, keys : Seq(Key), automatic : BOOLEAN,
   recoverable : BOOLEAN, attempts : 0..(MaxReprobes + 1)]

LEMMA TypeRow == TypeOK => row \in [Row -> RowType]
  BY DEF TypeOK, RowType, States

LEMMA NoneIsNothing == None \notin Row /\ None \notin Key /\ Other \notin Row 
                      /\ None \notin Stretches /\ None \notin Row \X Key
                      /\ None \notin Launch /\ None \notin Request /\ Request \cap Launch = {}
  BY RecoveryConstants DEF Turn

RoomType == [open : BOOLEAN, current : Turn \cup {None}, last : Turn \cup {None}]

LEMMA TypeInit == Init => TypeOK
  BY RecoveryConstants DEF Init, TypeOK, Blank, NoRoom, Turn

\* The new row of a turn.
LEMMA NewRowType ==
  ASSUME TypeOK, NEW q \in Request \cup {Fresh}, NEW c \in Row, NewRow(c, q)
  PROVE  row' \in [Row -> RowType]
<1>0. Blank \in RowType
  BY RecoveryConstants DEF Blank, RowType, States, Open
<1>1. [Blank EXCEPT !.state = "starting", !.request = q] \in RowType
  BY <1>0 DEF RowType, States, Open
<1> QED
  BY <1>1, TypeRow DEF NewRow

LEMMA RoomTypes ==
  ASSUME NEW x \in RoomType
  PROVE  /\ \A t \in Turn : [x EXCEPT !.open = TRUE, !.current = t] \in RoomType
         /\ [x EXCEPT !.open = TRUE] \in RoomType
         /\ [x EXCEPT !.current = None, !.last = x.current] \in RoomType
         /\ NoRoom \in RoomType
  BY DEF RoomType, NoRoom

LEMMA StartTurnType ==
  ASSUME TypeOK, NEW c \in Row, NEW r \in Row \cup {None}, StartTurn(c, r),
         r # None => claim[r] # None
  PROVE  /\ room' \in RoomType /\ sync' \in Stretches
         /\ cont' \in [Row -> (Row \X Key) \cup {None}]
         /\ later' \in [Row -> 0..(MaxKeys + 1)]
         /\ served' \in [Row -> Row \cup {None}]
<1>1. r # None => <<r, claim[r]>> \in Row \X Key
  BY DEF TypeOK
<1>2. room \in RoomType /\ c \in Turn
  BY DEF TypeOK, RoomType, Turn
<1>3. room' \in RoomType
  BY <1>2, RoomTypes DEF StartTurn
<1>4. later' \in [Row -> 0..(MaxKeys + 1)]
  <2>1. 0 \in 0..(MaxKeys + 1)
    BY RecoveryConstants
  <2> QED
    BY <2>1 DEF StartTurn, TypeOK
<1> QED
  BY <1>1, <1>3, <1>4 DEF StartTurn, TypeOK, Stretches

\* What the steps that end, classify or settle rows have in common: the rows they
\* touch keep everything but their state, and none is opened.
Settles(r) ==
  /\ row'[r].request = row[r].request /\ row'[r].refused = row[r].refused
  /\ row'[r].accepted = row[r].accepted /\ row'[r].resumeTurn = row[r].resumeTurn
  /\ row'[r].keys = row[r].keys
  /\ \/ row'[r].state = row[r].state
     \/ /\ row[r].state \notin {"absent", "cancelled", "completed"}
        /\ row'[r].state \in Outcome \cup {"unknown"}

SettlesRows == row' \in [Row -> RowType] /\ \A r \in Row : Settles(r)

LEMMA SettledSettles ==
  ASSUME TypeOK, NEW S \in SUBSET Row, NEW to \in Outcome, row' = Settled(S, to),
         \A r \in S : row[r].state \in Open
  PROVE  SettlesRows
<1>1. ASSUME NEW r \in S
      PROVE  row'[r] \in RowType /\ Settles(r)
  <2>1. row[r] \in RowType /\ (row[r].recoverable /\ to # "interrupted") \in BOOLEAN
    BY TypeRow
  <2>2. row'[r] = [row[r] EXCEPT !.state = to,
                                 !.recoverable = row[r].recoverable /\ to # "interrupted"]
    BY DEF Settled
  <2>3. \A b \in BOOLEAN : [row[r] EXCEPT !.state = to, !.recoverable = b] \in RowType
    BY <2>1 DEF RowType, States
  <2>4. row'[r] \in RowType
    BY <2>1, <2>2, <2>3
  <2> QED
    BY <1>1, <2>1, <2>2, <2>4 DEF Settles, RowType, Outcome, Open
<1>2. \A r \in Row \ S : row'[r] \in RowType /\ Settles(r)
  BY TypeRow DEF Settled, Settles
<1> QED
  BY <1>1, <1>2 DEF SettlesRows, Settled

LEMMA CancelSettles ==
  ASSUME TypeOK, NEW S \in SUBSET Row,
         row' = [r \in Row |-> IF r \in S THEN [row[r] EXCEPT !.state = "cancelled"] ELSE row[r]],
         \A r \in S : row[r].state \in Open \cup {"interrupted", "unknown"}
  PROVE  SettlesRows
<1>1. ASSUME NEW r \in S
      PROVE  row'[r] \in RowType /\ Settles(r)
  <2>1. row[r] \in RowType /\ row'[r] = [row[r] EXCEPT !.state = "cancelled"]
    BY TypeRow
  <2>2. [row[r] EXCEPT !.state = "cancelled"] \in RowType
    BY <2>1 DEF RowType, States, Outcome
  <2> QED
    BY <1>1, <2>1, <2>2 DEF Settles, RowType, Outcome, Open
<1>2. \A r \in Row \ S : row'[r] \in RowType /\ Settles(r)
  BY TypeRow DEF Settles
<1> QED
  BY <1>1, <1>2 DEF SettlesRows

LEMMA SameSettles ==
  ASSUME TypeOK, row' = row
  PROVE  SettlesRows
  BY TypeRow DEF SettlesRows, Settles, RowType

LEMMA ClassifySettles ==
  ASSUME TypeOK, NEW S \in SUBSET Row, ClassifyRows(S),
         \A r \in S : row[r].state \in Open \cup {"recovering"}
  PROVE  SettlesRows
<1>1. ASSUME NEW r \in S
      PROVE  Classified(r) \in RowType /\ (row'[r] = Classified(r) => Settles(r))
  <2> DEFINE found == Probe(row[r].accepted)
  <2>1. row[r] \in RowType /\ MaxReprobes \in Nat
    BY TypeRow, RecoveryConstants
  <2>2. CASE found = "busy"
    BY <1>1, <2>1, <2>2 DEF Classified, Settles, RowType
  <2>3. CASE found = "idle"
    <3> DEFINE new == [row[r] EXCEPT !.attempts = 0, !.state = "interrupted", !.recoverable = TRUE]
    <3>1. Classified(r) = new
      BY <2>3 DEF Classified
    <3>2. \A b \in BOOLEAN, n \in 0..(MaxReprobes + 1) :
            [row[r] EXCEPT !.attempts = n, !.state = "interrupted", !.recoverable = b] \in RowType
      BY <2>1 DEF RowType, States, Outcome
    <3>4. 0 \in 0..(MaxReprobes + 1) /\ TRUE \in BOOLEAN
      BY <2>1
    <3>5. new \in RowType
      BY <3>2, <3>4, Zenon
    <3>3. row'[r] = new => Settles(r)
      BY <1>1, <2>1 DEF Settles, RowType, Outcome, Open
    <3> QED
      BY <3>1, <3>3, <3>5
  <2>4. CASE found \notin {"busy", "idle"}
    <3> DEFINE new == [row[r] EXCEPT
                         !.attempts = IF Escalated(r) THEN @ ELSE @ + 1,
                         !.state = IF @ = "recovering" THEN "unknown" ELSE @,
                         !.recoverable = @ \/ row[r].state = "recovering"]
    <3>1. Classified(r) = new
      BY <2>4 DEF Classified
    <3>2. (IF Escalated(r) THEN row[r].attempts ELSE row[r].attempts + 1) \in 0..(MaxReprobes + 1)
      BY <2>1 DEF RowType, Escalated
    <3>3. new \in RowType
      BY <2>1, <3>2 DEF RowType, States
    <3>4. row'[r] = new => Settles(r)
      BY <1>1, <2>1 DEF Settles, RowType, Outcome, Open
    <3> QED
      BY <3>1, <3>3, <3>4
  <2> QED
    BY <2>2, <2>3, <2>4
<1>2. \A r \in Row \ S : row[r] \in RowType /\ (row'[r] = row[r] => Settles(r))
  BY TypeRow DEF Settles, RowType
<1> QED
  BY <1>1, <1>2 DEF ClassifyRows, SettlesRows

-----------------------------------------------------------------------------
(* The steps by what they do: new rows, turns, claims, ends and deaths *)

Death ==
  \/ Crash \/ DiesBooting
  \/ \E to \in Outcome : DiesFinishing(to)
  \/ \E t \in Turn \cup {None} : DiesStopping(t)

\* Steps of a living process that only end or classify rows.
Ending ==
  \/ \E r \in Row : KeepStopped(r) \/ Reprobe(r)
  \/ \E to \in Outcome : TurnEnds(to)
  \/ \E t \in Turn \cup {None} : Stop(t)
  \/ Boot

RoomOnly == PromptUnrecorded \/ OpenRoom \/ CloseRoom \/ Listen

\* A request that found the registry closed.
Blind == (\E q \in Request : StartBlind(q)) \/ BlindStarts \/ BlindFails

NewRows ==
  \/ \E q \in Request : StartRequest(q)
  \/ \E r \in Row : ResumeTakesLock(r)
  \/ UserPrompt \/ BlindRecorded

Claims(r, k) == Idle /\ k \notin ToSet(row[r].keys) /\ Claim(r, k) /\ row[r].state \in {"interrupted", "unknown"}

LEMMA NextSteps ==
  ASSUME TypeOK, [Next]_vars
  PROVE  \/ Death \/ Ending \/ RoomOnly \/ Blind \/ NewRows \/ UNCHANGED vars
         \/ RoomReady \/ PromptStarts \/ AckOwn \/ BindResumed \/ AckResumed \/ ResumeFails
         \/ \E known \in BOOLEAN : StartFails(known)
         \/ \E r \in Row, k \in Key : Claims(r, k)
         \/ \E r \in Row : ResumeRefused(r)
<1>1. ASSUME NEW r \in Row, NEW k \in ManualKey, NEW confirmed \in BOOLEAN, Resume(r, k, confirmed)
      PROVE  Claims(r, k) /\ k \in Key
  BY <1>1 DEF Resume, Claims, Resumable, Key
<1>2. ASSUME NEW r \in Row, AutoResume(r)
      PROVE  Claims(r, AutoKey) /\ AutoKey \in Key
  <2>1. AutoKey \in Key
    BY DEF Key
  <2>2. Idle /\ row[r].state = "interrupted" /\ AutoKey \notin ToSet(row[r].keys) /\ Claim(r, AutoKey)
    BY <1>2, Zenon DEF AutoResume
  <2> QED
    BY <2>1, <2>2 DEF Claims
<1> QED
  BY <1>1, <1>2 DEF Next, Step, Death, Ending, RoomOnly, Blind, NewRows

LEMMA DeathEffect ==
  ASSUME TypeOK, Death
  PROVE  /\ SettlesRows
         /\ phase' = "down" /\ room' = NoRoom /\ launch' = None /\ sync' = None
         /\ claim' = [r \in Row |-> None] /\ UNCHANGED history
         /\ crashes' \in 0..(MaxCrash + MaxBootCrash)
<1>0. ASSUME NEW bound \in 0..(MaxCrash + MaxBootCrash), Dies(bound)
      PROVE  crashes' \in 0..(MaxCrash + MaxBootCrash)
  <2>1. crashes \in 0..(MaxCrash + MaxBootCrash)
    BY DEF TypeOK
  <2> QED
    BY <1>0, <2>1, RecoveryConstants DEF Dies
<1>5. MaxCrash \in 0..(MaxCrash + MaxBootCrash) /\ MaxCrash + MaxBootCrash \in 0..(MaxCrash + MaxBootCrash)
  BY RecoveryConstants
<1>1. CASE Crash
  <2>1. SettlesRows
    BY <1>1, SameSettles DEF Crash
  <2> QED
    BY <1>0, <1>1, <1>5, <2>1 DEF Crash, Dies
<1>2. CASE DiesBooting
  <2>1. PICK last \in AtBoot : ClassifyRows({r \in AtBoot : r <= last})
    BY <1>2 DEF DiesBooting
  <2>2. SettlesRows
    BY <2>1, ClassifySettles DEF AtBoot
  <2> QED
    BY <1>0, <1>2, <1>5, <2>2 DEF DiesBooting, Dies
<1>3. ASSUME NEW to \in Outcome, DiesFinishing(to)
      PROVE  SettlesRows /\ Dies(MaxCrash)
  <2>1. PICK S \in SUBSET Ended(room.current) : row' = Settled(S, to)
    BY <1>3 DEF DiesFinishing
  <2>2. S \in SUBSET Row /\ \A r \in S : row[r].state \in Open
    BY <2>1 DEF Ended, Open
  <2> QED
    BY <1>3, <2>1, <2>2, SettledSettles DEF DiesFinishing
<1>4. ASSUME NEW t \in Turn \cup {None}, DiesStopping(t)
      PROVE  SettlesRows /\ Dies(MaxCrash)
  <2>1. PICK S \in SUBSET Stoppable(t) :
          row' = [r \in Row |-> IF r \in S THEN [row[r] EXCEPT !.state = "cancelled"] ELSE row[r]]
    BY <1>4 DEF DiesStopping
  <2>2. S \in SUBSET Row /\ \A r \in S : row[r].state \in Open
    BY <2>1 DEF Stoppable
  <2> QED
    BY <1>4, <2>1, <2>2, CancelSettles DEF DiesStopping
<1> QED
  BY <1>0, <1>1, <1>2, <1>3, <1>4, <1>5 DEF Death, Dies

LEMMA EndingEffect ==
  ASSUME TypeOK, Ending
  PROVE  /\ SettlesRows /\ (sync = None \/ phase = "listening")
         /\ UNCHANGED <<claim, launch, sync, crashes, cont, later, served>>
<1>1. ASSUME NEW r \in Row, KeepStopped(r)
      PROVE  SettlesRows /\ sync = None /\ UNCHANGED <<claim, launch, sync, crashes, cont, later, served>>
  <2>1. row' = [x \in Row |-> IF x \in {r} THEN [row[x] EXCEPT !.state = "cancelled"] ELSE row[x]]
    BY <1>1, TypeRow DEF KeepStopped
  <2> QED
    BY <1>1, <2>1, CancelSettles DEF KeepStopped, Idle
<1>2. ASSUME NEW r \in Row, Reprobe(r)
      PROVE  SettlesRows /\ sync = None /\ UNCHANGED <<claim, launch, sync, crashes, cont, later, served>>
  BY <1>2, ClassifySettles DEF Reprobe, ReprobeDue, history, Idle
<1>3. ASSUME NEW to \in Outcome, TurnEnds(to)
      PROVE  SettlesRows /\ sync = None /\ UNCHANGED <<claim, launch, sync, crashes, cont, later, served>>
  <2>1. Ended(room.current) \in SUBSET Row /\ \A r \in Ended(room.current) : row[r].state \in Open
    BY DEF Ended, Open
  <2> QED
    BY <1>3, <2>1, SettledSettles, SameSettles DEF TurnEnds
<1>4. ASSUME NEW t \in Turn \cup {None}, Stop(t)
      PROVE  SettlesRows /\ sync = None /\ UNCHANGED <<claim, launch, sync, crashes, cont, later, served>>
  <2>1. Stoppable(t) \in SUBSET Row /\ \A r \in Stoppable(t) : row[r].state \in Open
    BY DEF Stoppable
  <2> QED
    BY <1>4, <2>1, CancelSettles DEF Stop, Idle
<1>5. CASE Boot
  BY <1>5, ClassifySettles DEF Boot, AtBoot, history
<1> QED
  BY <1>1, <1>2, <1>3, <1>4, <1>5 DEF Ending, Boot

\* A launch takes the lock for a request or for a resume; a prompt takes none.
Starts(c, q, r) ==
  /\ Idle /\ launch = None /\ room.current = None /\ row[c].state = "absent"
  /\ NewRow(c, q) /\ launch' = [row |-> c, for |-> r]
  /\ r # None => claim[r] # None
  /\ q \in Request => Unsent(q)
  /\ UNCHANGED <<phase, room, claim, sync, crashes, history>>

Prompts(c, q) ==
  /\ Idle /\ room.current = None /\ row[c].state = "absent"
  /\ NewRow(c, q) /\ sync' = [row |-> c, for |-> None, stage |-> "start"]
  /\ launch' \in {launch, None}
  /\ q \in Request => Unsent(q)
  /\ UNCHANGED <<phase, room, claim, crashes, history>>

LEMMA NewRowsEffect ==
  ASSUME NewRows
  PROVE  \/ \E c \in Row, q \in Request \cup {Fresh}, r \in Row \cup {None} : Starts(c, q, r)
         \/ \E c \in Row, q \in Request \cup {Fresh} : Prompts(c, q)
<1>1. ASSUME NEW q \in Request, StartRequest(q)
      PROVE  \E c \in Row : Starts(c, q, None)
  BY <1>1 DEF StartRequest, TakeLock, IsNext, Free, Starts
<1>2. ASSUME NEW r \in Row, ResumeTakesLock(r)
      PROVE  \E c \in Row : Starts(c, Fresh, r)
  BY <1>2, RecoveryConstants DEF ResumeTakesLock, TakeLock, IsNext, Free, Starts
<1>3. ASSUME UserPrompt PROVE \E c \in Row : Prompts(c, Fresh)
  BY <1>3, RecoveryConstants DEF UserPrompt, IsNext, Free, Prompts
<1>4. ASSUME BlindRecorded PROVE \E c \in Row, q \in Request : Prompts(c, q)
  BY <1>4 DEF BlindRecorded, IsNext, Free, Prompts
<1> QED
  BY <1>1, <1>2, <1>3, <1>4 DEF NewRows

-----------------------------------------------------------------------------
(* The type invariant *)

\* TypeOK with its record sets named.
Types ==
  /\ row \in [Row -> RowType]
  /\ phase \in {"down", "listening", "up"}
  /\ room \in RoomType
  /\ claim \in [Row -> Key \cup {None}]
  /\ launch \in Launch \cup Request \cup {None} /\ sync \in Stretches \cup {None}
  /\ crashes \in 0..(MaxCrash + MaxBootCrash)
  /\ closed \subseteq Row
  /\ cont \in [Row -> (Row \X Key) \cup {None}] /\ later \in [Row -> 0..(MaxKeys + 1)]
  /\ served \in [Row -> Row \cup {None}]

LEMMA TypesAreTypeOK == Types <=> TypeOK
  BY DEF Types, TypeOK, RoomType, RowType, States, Launch, Stretches

LEMMA ChangedRowType ==
  ASSUME NEW x \in RowType, NEW state \in States
  PROVE  /\ [x EXCEPT !.state = state] \in RowType
         /\ [x EXCEPT !.state = state, !.refused = TRUE] \in RowType
         /\ \A t \in Row : [x EXCEPT !.state = state, !.accepted = t] \in RowType
         /\ \A t \in Row : [x EXCEPT !.state = state, !.resumeTurn = t] \in RowType
         /\ \A k \in Key, b \in BOOLEAN :
              [x EXCEPT !.state = state, !.keys = WithStored(@, k), !.automatic = b] \in RowType
<1>1. \A k \in Key : WithStored(x.keys, k) \in Seq(Key)
  BY RecoveryConstants DEF RowType, WithStored
<1> QED
  BY <1>1 DEF RowType

\* A launch for a resumed row runs under a claim of it, and nothing else gives
\* claims back meanwhile.
ClaimedLaunch ==
  /\ launch \in Launch /\ launch.for # None => claim[launch.for] # None
  /\ sync # None /\ sync.for # None => launch = None

LEMMA TypeStep ==
  ASSUME TypeOK, ClaimedLaunch, [Next]_vars
  PROVE  TypeOK'
<1> SUFFICES Types'
  BY TypesAreTypeOK DEF Types, TypeOK, RoomType, RowType, States, Launch, Stretches
<1>0. Types
  BY TypesAreTypeOK
<1>1. CASE Death
  BY <1>0, <1>1, DeathEffect, RoomTypes DEF Types, SettlesRows, history
<1>2. CASE Ending
  <2>1. SettlesRows /\ UNCHANGED <<claim, launch, sync, crashes, cont, later, served>>
    BY <1>2, EndingEffect
  <2>2. phase' \in {"down", "listening", "up"} /\ closed' \subseteq Row
    BY <1>0, <1>2 DEF Ending, KeepStopped, Reprobe, TurnEnds, Stop, Boot, Types, history
  <2>3. room' \in RoomType
    BY <1>0, <1>2, RoomTypes DEF Ending, KeepStopped, Reprobe, TurnEnds, Stop, Boot, Types
  <2> QED
    BY <1>0, <2>1, <2>2, <2>3 DEF Types, SettlesRows
<1>3. CASE RoomOnly
  <2>1. UNCHANGED <<row, claim, launch, sync, crashes, cont, later, served, closed>>
    BY <1>3 DEF RoomOnly, PromptUnrecorded, OpenRoom, CloseRoom, Listen, history
  <2>2. phase' \in {"down", "listening", "up"}
    BY <1>0, <1>3 DEF RoomOnly, PromptUnrecorded, OpenRoom, CloseRoom, Listen, Types
  <2>3. room \in RoomType /\ Other \in Turn
    BY <1>0 DEF Types, Turn
  <2>4. ASSUME PromptUnrecorded PROVE room' \in RoomType
    BY <2>3, <2>4, RoomTypes DEF PromptUnrecorded
  <2>5. ASSUME OpenRoom \/ CloseRoom PROVE room' \in RoomType
    BY <2>3, <2>5, RoomTypes DEF OpenRoom, CloseRoom
  <2>6. ASSUME Listen PROVE room' \in RoomType
    BY <2>3, <2>6 DEF Listen
  <2>7. room' \in RoomType
    BY <1>3, <2>4, <2>5, <2>6 DEF RoomOnly
  <2> QED
    BY <1>0, <2>1, <2>2, <2>7 DEF Types
<1>13. CASE Blind
  <2>1. UNCHANGED <<row, claim, sync, crashes, cont, later, served, closed>> /\ phase' = phase
    BY <1>13 DEF Blind, StartBlind, BlindStarts, BlindFails, history
  <2>2. launch' \in Request \cup {None}
    BY <1>13 DEF Blind, StartBlind, BlindStarts, BlindFails
  <2>3. room' \in RoomType
    <3>1. room \in RoomType /\ Other \in Turn
      BY <1>0 DEF Types, Turn
    <3>2. room' = room \/ room' = [room EXCEPT !.open = TRUE, !.current = Other]
      BY <1>13 DEF Blind, StartBlind, BlindStarts, BlindFails
    <3> QED
      BY <3>1, <3>2, RoomTypes
  <2> QED
    BY <1>0, <2>1, <2>2, <2>3 DEF Types
<1>4. ASSUME NEW c \in Row, NEW q \in Request \cup {Fresh}, NEW r \in Row \cup {None},
             Starts(c, q, r)
      PROVE  Types'
  <2>1. row' \in [Row -> RowType]
    BY <1>4, NewRowType DEF Starts
  <2>2. launch' \in Launch
    BY <1>4 DEF Starts, Launch
  <2>3. UNCHANGED <<phase, room, claim, sync, crashes, cont, later, served, closed>>
    BY <1>4 DEF Starts, history
  <2> QED
    BY <1>0, <2>1, <2>2, <2>3 DEF Types
<1>5. ASSUME NEW c \in Row, NEW q \in Request \cup {Fresh}, Prompts(c, q)
      PROVE  Types'
  <2>1. row' \in [Row -> RowType]
    BY <1>5, NewRowType DEF Prompts
  <2>2. sync' \in Stretches
    BY <1>5 DEF Prompts, Stretches
  <2>3. launch' \in {launch, None} /\ UNCHANGED <<phase, room, claim, crashes, cont, later, served, closed>>
    BY <1>5 DEF Prompts, history
  <2> QED
    BY <1>0, <2>1, <2>2, <2>3 DEF Types
<1>6. CASE UNCHANGED vars
  BY <1>0, <1>6 DEF vars, Types
<1>7. CASE RoomReady
  <2>1. launch \in Launch
    BY <1>0, <1>7 DEF RoomReady, Types
  <2>2. StartTurn(launch.row, launch.for) /\ launch' = None
        /\ UNCHANGED <<row, phase, claim, crashes, closed>>
    BY <1>7 DEF RoomReady
  <2>3. launch.row \in Row /\ launch.for \in Row \cup {None}
        /\ (launch.for # None => claim[launch.for] # None)
    BY <1>7, <2>1 DEF RoomReady, Launch, ClaimedLaunch
  <2>4. /\ room' \in RoomType /\ sync' \in Stretches
        /\ cont' \in [Row -> (Row \X Key) \cup {None}] /\ later' \in [Row -> 0..(MaxKeys + 1)]
        /\ served' \in [Row -> Row \cup {None}]
    BY <2>2, <2>3, StartTurnType
  <2> QED
    BY <1>0, <2>2, <2>4 DEF Types
<1>8. CASE PromptStarts
  <2>1. sync \in Stretches /\ StartTurn(sync.row, None)
        /\ UNCHANGED <<row, phase, claim, launch, crashes, closed>>
    BY <1>0, <1>8 DEF PromptStarts, Types
  <2>2. sync.row \in Row
    BY <2>1 DEF Stretches
  <2>3. /\ room' \in RoomType /\ sync' \in Stretches
        /\ cont' \in [Row -> (Row \X Key) \cup {None}] /\ later' \in [Row -> 0..(MaxKeys + 1)]
        /\ served' \in [Row -> Row \cup {None}]
    BY <2>1, <2>2, StartTurnType
  <2> QED
    BY <1>0, <2>1, <2>3 DEF Types
<1>9. CASE AckOwn \/ BindResumed \/ AckResumed \/ ResumeFails
  <2>1. sync \in Stretches
    BY <1>0, <1>9 DEF AckOwn, BindResumed, AckResumed, ResumeFails, Types
  <2>6. sync.row \in Row /\ row \in [Row -> RowType]
    BY <1>0, <2>1 DEF Stretches, Types
  <2>7. {"starting", "running", "interrupted"} \subseteq States
    BY DEF States, Open, Outcome
  <2>8. ASSUME AckOwn PROVE row' \in [Row -> RowType]
    BY <2>6, <2>7, <2>8, ChangedRowType DEF AckOwn
  <2>9. ASSUME BindResumed PROVE row' \in [Row -> RowType]
    BY <2>6, <2>7, <2>9, ChangedRowType DEF BindResumed
  <2>10. ASSUME AckResumed PROVE row' \in [Row -> RowType]
    BY <2>6, <2>7, <2>10, ChangedRowType DEF AckResumed
  <2>11. ASSUME ResumeFails PROVE row' \in [Row -> RowType]
    BY <2>6, <2>7, <2>11, ChangedRowType DEF ResumeFails, GiveBackClaim
  <2>2. row' \in [Row -> RowType]
    BY <1>9, <2>8, <2>9, <2>10, <2>11
  <2>3. sync' \in Stretches \cup {None}
    BY <1>9, <2>1 DEF AckOwn, BindResumed, AckResumed, ResumeFails, Stretches
  <2>4. claim' \in [Row -> Key \cup {None}]
    BY <1>0, <1>9 DEF AckOwn, BindResumed, AckResumed, ResumeFails, GiveBackClaim, Types
  <2>5. UNCHANGED <<phase, room, launch, crashes, cont, later, served, closed>>
    BY <1>9 DEF AckOwn, BindResumed, AckResumed, ResumeFails, GiveBackClaim, history
  <2> QED
    BY <1>0, <2>2, <2>3, <2>4, <2>5 DEF Types
<1>10. ASSUME NEW known \in BOOLEAN, StartFails(known)
       PROVE  Types'
  <2>1. launch \in Launch
    BY <1>0, <1>10 DEF StartFails, Types
  <2>2. row' \in [Row -> RowType]
    BY <1>0, <1>10, <2>1, ChangedRowType DEF StartFails, Types, Launch, States, Outcome
  <2>3. sync' \in Stretches \cup {None}
    BY <1>10, <2>1 DEF StartFails, Stretches, Launch
  <2>4. launch' = None /\ UNCHANGED <<phase, room, claim, crashes, cont, later, served, closed>>
    BY <1>10 DEF StartFails, history
  <2> QED
    BY <1>0, <2>2, <2>3, <2>4 DEF Types
<1>11. ASSUME NEW r \in Row, NEW k \in Key, Claims(r, k)
       PROVE  Types'
  <2>1. (k = AutoKey) \in BOOLEAN
    OBVIOUS
  <2>2. row' \in [Row -> RowType]
    BY <1>0, <1>11, <2>1, ChangedRowType DEF Claims, Claim, Types, States
  <2>3. claim' \in [Row -> Key \cup {None}]
        /\ UNCHANGED <<phase, room, launch, sync, crashes, cont, served, closed>>
    BY <1>0, <1>11 DEF Claims, Claim, Types
  <2>4. later' \in [Row -> 0..(MaxKeys + 1)]
    BY <1>0, <1>11, RecoveryConstants DEF Claims, Claim, Types
  <2> QED
    BY <1>0, <2>2, <2>3, <2>4 DEF Types
<1>12. ASSUME NEW r \in Row, ResumeRefused(r)
       PROVE  Types'
  <2>1. row' \in [Row -> RowType]
    BY <1>0, <1>12, ChangedRowType DEF ResumeRefused, GiveBackClaim, Types, States, Outcome
  <2>2. claim' \in [Row -> Key \cup {None}]
        /\ UNCHANGED <<phase, room, launch, sync, crashes, cont, later, served, closed>>
    BY <1>0, <1>12 DEF ResumeRefused, GiveBackClaim, Types, history
  <2> QED
    BY <1>0, <2>1, <2>2 DEF Types
<1> QED
  BY <1>1, <1>2, <1>3, <1>4, <1>5, <1>6, <1>7, <1>8, <1>9, <1>10, <1>11, <1>12, <1>13, NewRowsEffect,
     NextSteps

-----------------------------------------------------------------------------
(* The inductive invariant *)

\* A process that is not up launches no row, and no recorded turn runs.
Down ==
  /\ phase # "up" => /\ launch \notin Launch /\ sync = None /\ room.current \notin Row
                     /\ \A r \in Row : claim[r] = None
  /\ room.current # None => room.open

\* A row that was not written yet has no turn; a turn that works for a row ran.
Unwritten ==
  \A r \in Row : /\ row[r].state = "absent" => row[r].keys = <<>> /\ served[r] = None
                 /\ served[r] # None => served[served[r]] # None

\* Key k was stored as the last one of row r but n.
KeyAt(r, n, k) ==
  LET keys == row[r].keys IN n < Len(keys) /\ keys[Len(keys) - n] = k

Pending == \A r \in Row : claim[r] # None => row[r].state = "recovering" /\ KeyAt(r, 0, claim[r])

\* The row of a launch or of a prompt, until its turn starts.
New(c) ==
  /\ row[c].state \in {"starting", "cancelled"} /\ ~row[c].refused
  /\ row[c].resumeTurn = None /\ row[c].attempts = 0
  /\ served[c] = None /\ c \notin closed

Launching == launch \in Launch => New(launch.row) /\ (launch.for # None => claim[launch.for] # None)

\* Where a stretch without an await stands. In "own", "bind" and "ack" the turn
\* runs, and the row it continues was claimed for exactly this turn.
Stretch ==
  sync # None =>
    LET c == sync.row
        r == sync.for
        stage == sync.stage
    IN  /\ r # None => launch = None
        /\ stage = "start" => /\ New(c) /\ r = None /\ room.current = None
                              /\ launch \in Launch => launch.row # c
        /\ stage \in {"own", "bind", "ack"} =>
             /\ served[c] = c /\ room.current = c
             /\ \A x \in Row : served[x] = c => x \in {c, r}
             /\ r # None => r # c /\ cont[c] # None /\ cont[c][1] = r
        /\ stage = "own" => row[c].state \in {"starting", "cancelled"} /\ c \notin closed
        /\ stage \in {"bind", "ack"} =>
             row[c].state = "cancelled" \/ (row[c].state = "running" /\ row[c].accepted = c)
        /\ stage \in {"bind", "ack", "give back"} => r # None
        /\ r # None /\ stage \in {"own", "bind", "give back"} => claim[r] # None
        /\ stage = "ack" => row[r].state = "starting" /\ ~row[r].refused /\ r \notin closed

\* A refused row is final and had no turn, and only such a row lets its request
\* be sent again.
Refusals ==
  /\ \A r \in Row : row[r].refused => row[r].state = "cancelled" /\ served[r] = None
  /\ \A r, s \in Row : r # s /\ row[r].request = row[s].request /\ row[r].request \in Request
       => row[r].refused \/ row[s].refused

\* The key a turn continues a row under is found in the row behind those that
\* claimed it later, until MaxKeys did; of two turns under the same key one is
\* older than that, and so is every turn under the key of a claim, but the one of
\* the stretch in progress.
Stored ==
  \A c \in Row : cont[c] # None /\ later[c] < MaxKeys => KeyAt(cont[c][1], later[c], cont[c][2])
Single ==
  \A c, d \in Row : c # d /\ cont[c] # None /\ cont[c] = cont[d]
    => later[c] > MaxKeys \/ later[d] > MaxKeys
Unspent ==
  \A c, r \in Row : claim[r] # None /\ cont[c] # None /\ cont[c] = <<r, claim[r]>> =>
    \/ later[c] > MaxKeys
    \/ sync # None /\ sync.row = c /\ sync.for = r /\ sync.stage \in {"own", "bind"}

\* What RowsMatchTurn says, at the points where it can be said inside a stretch.
RunningHasTurn == \A r \in Row : row[r].state = "running" => row[r].accepted # None
LeftBehind ==
  phase = "up" => \A r \in Row :
    row[r].state = "running" => row[r].accepted = room.current \/ row[r].attempts > 0
KnownToRows ==
  sync = None \/ sync.stage = "give back" => \A r \in Row :
    room.current \in Row /\ served[r] = room.current =>
      row[r].state = "cancelled" \/ (row[r].state = "running" /\ row[r].accepted = room.current)

ClaimsHeld ==
  phase = "up" => \A r \in Row :
    row[r].state = "recovering" /\ row[r].accepted # None => claim[r] # None

Final == \A r \in closed : row[r].state \in {"completed", "cancelled"}

\* What only rows, turns and their history say, and what the process in progress adds.
OfRows == Unwritten /\ Refusals /\ Stored /\ Single /\ AcceptedIsTrue /\ RunningHasTurn
OfProcess ==
  Down /\ Pending /\ Launching /\ Stretch /\ Unspent /\ LeftBehind /\ KnownToRows /\ ClaimsHeld

Inv == TypeOK /\ OfRows /\ OfProcess /\ Final

LEMMA InvInit == Init => Inv
<1> SUFFICES ASSUME Init PROVE Inv
  OBVIOUS
<1>1. /\ \A r \in Row : /\ row[r] = Blank /\ claim[r] = None /\ cont[r] = None
                        /\ served[r] = None
      /\ phase = "listening" /\ room = NoRoom /\ launch = None /\ sync = None /\ closed = {}
  BY DEF Init
<1>2. \A r \in Row : /\ row[r].state = "absent" /\ ~row[r].refused /\ row[r].keys = <<>>
                     /\ row[r].accepted = None /\ row[r].request = Fresh
  BY <1>1 DEF Blank
<1>3. OfRows
  BY <1>1, <1>2, RecoveryConstants
  DEF OfRows, Unwritten, Refusals, Stored, Single, KeyAt, AcceptedIsTrue, RunningHasTurn
<1>4. OfProcess
  BY <1>1, <1>2, NoneIsNothing
  DEF OfProcess, Down, Pending, KeyAt, Launching, Stretch, Unspent, LeftBehind, KnownToRows, ClaimsHeld, NoRoom
<1> QED
  BY <1>1, <1>3, <1>4, TypeInit DEF Inv, Final

-----------------------------------------------------------------------------
(* Deaths, ends of turns, and what a boot concludes *)

LEMMA SettlesKeepsRows ==
  ASSUME TypeOK, OfRows, SettlesRows, UNCHANGED <<cont, later, served>>
  PROVE  OfRows'
<1>1. \A r \in Row : Settles(r)
  BY DEF SettlesRows
<1>2. Unwritten'
  BY <1>1 DEF OfRows, Unwritten, Settles, Outcome
<1>3. Refusals'
  BY <1>1 DEF OfRows, Refusals, Settles, Outcome
<1>4. \A c \in Row : cont[c] # None => cont[c][1] \in Row
  BY DEF TypeOK
<1>5. Stored' /\ Single'
  BY <1>1, <1>4 DEF OfRows, Stored, Single, KeyAt, Settles
<1>6. \A r \in Row : row'[r].accepted = row[r].accepted
  BY <1>1 DEF Settles
<1>7. AcceptedIsTrue'
  BY <1>6 DEF OfRows, AcceptedIsTrue, Launched
<1>8. RunningHasTurn'
  BY <1>1 DEF OfRows, RunningHasTurn, Settles, Outcome
<1> QED
  BY <1>2, <1>3, <1>5, <1>7, <1>8 DEF OfRows

LEMMA SettlesKeepsFinal ==
  ASSUME TypeOK, Final, SettlesRows
  PROVE  \A r \in closed : row'[r].state \in {"completed", "cancelled"}
  BY DEF TypeOK, Final, SettlesRows, Settles

LEMMA DeathInv ==
  ASSUME Inv, Death
  PROVE  OfRows' /\ OfProcess' /\ Final'
<1>1. /\ SettlesRows /\ phase' = "down" /\ room' = NoRoom /\ launch' = None /\ sync' = None
      /\ claim' = [r \in Row |-> None] /\ UNCHANGED history
  BY DeathEffect DEF Inv
<1>2. OfRows'
  BY <1>1, SettlesKeepsRows DEF Inv, history
<1>3. Final'
  BY <1>1, SettlesKeepsFinal DEF Inv, history, Final
<1>4. OfProcess'
  BY <1>1, NoneIsNothing
  DEF OfProcess, Down, Pending, KeyAt, Launching, Stretch, Unspent, LeftBehind, KnownToRows, ClaimsHeld, NoRoom
<1> QED
  BY <1>2, <1>3, <1>4

\* Rows may end between stretches, when claimed ones and the one a launch is for
\* keep what they are.
LEMMA SettlesKeepsProcess ==
  ASSUME Inv, SettlesRows, Idle, phase' = "up", UNCHANGED <<claim, launch, sync, cont, later, served>>,
         Down', LeftBehind', KnownToRows',
         \A r \in Row : row[r].state = "recovering" => row'[r] = row[r],
         launch \in Launch => New(launch.row)'
  PROVE  OfProcess'
<1>1. \A r \in Row : Settles(r)
  BY DEF SettlesRows
<1>2. Pending'
  BY DEF Inv, OfProcess, Pending, KeyAt
<1>3. Launching'
  BY DEF Inv, OfProcess, Launching
<1>4. Stretch' /\ Unspent'
  BY DEF Inv, OfProcess, Stretch, Unspent, Idle
<1>5. ClaimsHeld'
  BY <1>1 DEF Inv, OfProcess, ClaimsHeld, Settles, Outcome, Idle
<1> QED
  BY <1>2, <1>3, <1>4, <1>5 DEF OfProcess

LEMMA KeepStoppedInv ==
  ASSUME Inv, NEW r \in Row, KeepStopped(r)
  PROVE  OfProcess' /\ Final'
<1>1. /\ SettlesRows /\ Idle /\ phase' = "up" /\ room' = room
      /\ UNCHANGED <<claim, launch, sync, cont, later, served>>
  BY EndingEffect DEF Inv, Ending, KeepStopped, Idle
<1>2. /\ \A x \in Row : x # r => row'[x] = row[x]
      /\ row[r].state \in {"interrupted", "unknown"} /\ row'[r].state = "cancelled"
      /\ closed' = closed \cup {r}
  BY DEF Inv, TypeOK, KeepStopped
<1>3. Down' /\ LeftBehind' /\ KnownToRows'
  BY <1>1, <1>2 DEF Inv, OfProcess, Down, LeftBehind, KnownToRows, Idle
<1>4. ASSUME launch \in Launch PROVE New(launch.row)'
  <2>1. launch.row \in Row /\ New(launch.row)
    BY <1>4 DEF Inv, OfProcess, Launching, Launch
  <2>2. launch.row # r
    BY <1>2, <2>1 DEF New
  <2> QED
    BY <1>1, <1>2, <2>1, <2>2 DEF New
<1>5. OfProcess'
  BY <1>1, <1>2, <1>3, <1>4, SettlesKeepsProcess
<1>6. Final'
  BY <1>1, <1>2, SettlesKeepsFinal DEF Inv, Final
<1> QED
  BY <1>5, <1>6

LEMMA StopInv ==
  ASSUME Inv, NEW t \in Turn \cup {None}, Stop(t)
  PROVE  OfProcess' /\ Final'
<1> DEFINE S == Stoppable(t)
<1>1. /\ SettlesRows /\ Idle /\ phase' = "up" /\ room' = room
      /\ UNCHANGED <<claim, launch, sync, cont, later, served>>
  BY EndingEffect DEF Inv, Ending, Stop, Idle
<1>2. /\ \A x \in Row \ S : row'[x] = row[x]
      /\ \A x \in S : /\ row'[x].state = "cancelled" /\ row'[x].attempts = row[x].attempts
                      /\ row'[x].refused = row[x].refused
                      /\ row'[x].resumeTurn = row[x].resumeTurn
      /\ S \subseteq Row /\ \A x \in S : row[x].state \in Open
  BY DEF Inv, TypeOK, Stop, Stoppable
<1>3. Down' /\ LeftBehind' /\ KnownToRows'
  BY <1>1, <1>2 DEF Inv, OfProcess, Down, LeftBehind, KnownToRows, Idle
<1>4. closed' \subseteq closed \cup {x \in Row : room.current # None /\ served[x] = room.current}
  BY DEF Stop
<1>5. ASSUME launch \in Launch PROVE New(launch.row)'
  <2>1. launch.row \in Row /\ New(launch.row)
    BY <1>5 DEF Inv, OfProcess, Launching, Launch
  <2>2. launch.row \notin closed'
    BY <1>4, <2>1 DEF New
  <2> QED
    BY <1>1, <1>2, <2>1, <2>2 DEF New
<1>6. OfProcess'
  BY <1>1, <1>2, <1>3, <1>5, SettlesKeepsProcess DEF Open
<1>7. ASSUME NEW x \in Row, room.current # None, served[x] = room.current
      PROVE  row'[x].state = "cancelled"
  <2>1. row[x].state = "cancelled" \/ (row[x].state = "running" /\ row[x].accepted = room.current)
    BY <1>1, <1>7, NoneIsNothing DEF Inv, TypeOK, OfProcess, KnownToRows, Idle
  <2>2. t \in {None, room.current}
    BY DEF Stop
  <2> QED
    BY <1>2, <2>1, <2>2 DEF Stoppable, Open
<1>8. Final'
  BY <1>1, <1>4, <1>7, SettlesKeepsFinal DEF Inv, Final, TypeOK
<1> QED
  BY <1>6, <1>8

LEMMA ReprobeInv ==
  ASSUME Inv, NEW r \in Row, Reprobe(r)
  PROVE  OfProcess' /\ Final'
<1>1. /\ SettlesRows /\ Idle /\ phase' = "up" /\ room' = room
      /\ UNCHANGED <<claim, launch, sync, cont, later, served, closed>>
  BY EndingEffect DEF Inv, Ending, Reprobe, Idle, history
<1>2. /\ \A x \in Row : x # r => row'[x] = row[x]
      /\ row'[r] = Classified(r) /\ row[r].state \in Open /\ row[r].attempts > 0
  BY DEF Reprobe, ClassifyRows, ReprobeDue, Doubtful
<1>3. row[r].attempts \in Nat /\ row[r] \in RowType
  BY TypeRow, RecoveryConstants DEF Inv, RowType
<1>4. Settles(r)
  BY <1>1 DEF SettlesRows
<1>5. ASSUME row'[r].state = "running"
      PROVE  row[r].state = "running" /\ (row'[r].attempts > 0 \/ row[r].accepted = room.current)
  <2>1. row[r].state = "running"
    BY <1>4, <1>5 DEF Settles, Outcome
  <2>2. row[r].accepted # None
    BY <2>1 DEF Inv, OfRows, RunningHasTurn
  <2>3. CASE Probe(row[r].accepted) = "busy"
    BY <2>1, <2>2, <2>3 DEF Probe
  <2>4. CASE Probe(row[r].accepted) = "idle"
    BY <1>2, <1>3, <1>5, <2>4 DEF Classified, RowType
  <2>5. CASE Probe(row[r].accepted) \notin {"busy", "idle"}
    <3>1. row'[r].attempts = IF Escalated(r) THEN row[r].attempts ELSE row[r].attempts + 1
      BY <1>2, <1>3, <2>5 DEF Classified, RowType
    <3> QED
      BY <1>2, <1>3, <2>1, <3>1
  <2> QED
    BY <2>1, <2>3, <2>4, <2>5
<1>6. Down' /\ LeftBehind'
  BY <1>1, <1>2, <1>4, <1>5 DEF Inv, OfProcess, Down, LeftBehind, Idle, Settles
<1>7. ASSUME row[r].state = "running", row[r].accepted = room.current, room.current \in Row
      PROVE  row'[r].state = "running"
  <2>1. Probe(row[r].accepted) = "busy"
    BY <1>7, NoneIsNothing DEF Probe, Inv, OfProcess, Down
  <2> QED
    BY <1>2, <1>3, <1>7, <2>1 DEF Classified, RowType
<1>8. KnownToRows'
  BY <1>1, <1>2, <1>4, <1>7 DEF Inv, OfProcess, KnownToRows, Idle, Settles, Open
<1>9. ASSUME launch \in Launch PROVE New(launch.row)'
  <2>1. launch.row \in Row /\ New(launch.row)
    BY <1>9 DEF Inv, OfProcess, Launching, Launch
  <2>2. launch.row # r
    BY <1>2, <2>1 DEF New
  <2> QED
    BY <1>1, <1>2, <2>1, <2>2 DEF New
<1>10. OfProcess'
  BY <1>1, <1>2, <1>6, <1>8, <1>9, SettlesKeepsProcess DEF Open
<1>11. Final'
  BY <1>1, SettlesKeepsFinal DEF Inv, Final
<1> QED
  BY <1>10, <1>11

\* The registry is closed and the room may change.
LEMMA NotUpKeepsProcess ==
  ASSUME Inv, phase # "up", phase' # "up", Down'
  PROVE  OfProcess'
<1>1. /\ launch' \notin Launch /\ sync' = None /\ room'.current \notin Row
      /\ \A r \in Row : claim'[r] = None
  BY DEF Down
<1> QED
  BY <1>1 DEF OfProcess, Pending, Launching, Stretch, Unspent, LeftBehind, KnownToRows, ClaimsHeld

LEMMA TurnEndsInv ==
  ASSUME Inv, NEW to \in Outcome, TurnEnds(to)
  PROVE  OfProcess' /\ Final'
<1> DEFINE t == room.current
           S == Ended(t)
<1>1. /\ SettlesRows /\ sync = None /\ phase' = phase /\ phase \in {"up", "listening"}
      /\ room'.current = None /\ t # None
      /\ closed' = IF to = "completed" THEN closed \cup {r \in Row : served[r] = t} ELSE closed
      /\ UNCHANGED <<claim, launch, sync, cont, later, served>>
  BY EndingEffect DEF Inv, TypeOK, Ending, TurnEnds
<1>2. Down'
  BY <1>1, NoneIsNothing DEF Inv, OfProcess, Down
<1>3. CASE phase = "listening"
  <2>1. row' = row
    BY <1>3 DEF TurnEnds
  <2>2. \A r \in Row : served[r] # t
    BY <1>1, <1>3 DEF Inv, TypeOK, OfProcess, Down
  <2> QED
    BY <1>1, <1>2, <1>3, <2>1, <2>2, NotUpKeepsProcess DEF Inv, Final
<1>4. CASE phase = "up"
  <2>1. row' = Settled(S, to)
    BY <1>4 DEF TurnEnds
  <2>2. /\ \A x \in Row \ S : row'[x] = row[x]
        /\ \A x \in S : /\ row'[x].state = to /\ row'[x].attempts = row[x].attempts
                        /\ row'[x].refused = row[x].refused
                        /\ row'[x].resumeTurn = row[x].resumeTurn
        /\ S \subseteq Row /\ \A x \in S : row[x].state \in Open
    BY <2>1, TypeRow DEF Inv, Settled, Ended, Open, RowType
  <2>3. LeftBehind'
    <3>1. \A x \in S : row'[x].state # "running"
      BY <2>2 DEF Outcome
    <3>2. ASSUME NEW x \in Row \ S, row[x].state = "running" PROVE row[x].attempts > 0
      BY <1>4, <3>2 DEF Inv, OfProcess, LeftBehind, Ended
    <3> QED
      BY <2>2, <3>1, <3>2 DEF LeftBehind
  <2>4. KnownToRows'
    BY <1>1, NoneIsNothing DEF KnownToRows
  <2>5. ASSUME launch \in Launch PROVE New(launch.row)'
    <3>1. launch.row \in Row /\ New(launch.row)
      BY <2>5 DEF Inv, OfProcess, Launching, Launch
    <3>2. launch.row \notin S
      BY <1>1, <3>1 DEF New, Ended
    <3>3. launch.row \notin closed'
      BY <1>1, <3>1 DEF New
    <3> QED
      BY <1>1, <2>2, <3>1, <3>2, <3>3 DEF New
  <2>6. \A x \in Row : row[x].state = "recovering" => row'[x] = row[x]
    BY <2>2 DEF Open
  <2>7. OfProcess'
    BY <1>1, <1>2, <1>4, <2>3, <2>4, <2>5, <2>6, SettlesKeepsProcess DEF Idle
  <2>8. ASSUME to = "completed", NEW x \in Row, served[x] = t
        PROVE  row'[x].state \in {"completed", "cancelled"}
    <3>1. row[x].state = "cancelled" \/ (row[x].state = "running" /\ row[x].accepted = t)
      BY <1>1, <2>8 DEF Inv, TypeOK, OfProcess, KnownToRows
    <3>2. x \in S \/ row'[x].state = "cancelled"
      BY <2>2, <3>1 DEF Ended
    <3> QED
      BY <2>2, <2>8, <3>2
  <2>9. Final'
    BY <1>1, <2>8, SettlesKeepsFinal DEF Inv, Final
  <2> QED
    BY <2>7, <2>9
<1> QED
  BY <1>1, <1>3, <1>4

LEMMA BootInv ==
  ASSUME Inv, Boot
  PROVE  OfProcess' /\ Final'
<1>1. /\ phase = "listening" /\ phase' = "up" /\ SettlesRows
      /\ UNCHANGED <<room, claim, launch, sync, cont, later, served, closed>>
  BY EndingEffect DEF Inv, Ending, Boot, history
<1>2. /\ launch \notin Launch /\ sync = None /\ room.current \notin Row
      /\ \A r \in Row : claim[r] = None
  BY <1>1 DEF Inv, OfProcess, Down
<1>3. Down' /\ Pending' /\ Launching' /\ Stretch' /\ Unspent' /\ KnownToRows'
  BY <1>1, <1>2 DEF Inv, OfProcess, Down, Pending, KeyAt, Launching, Stretch, Unspent, KnownToRows
<1>4. ASSUME NEW r \in AtBoot, row[r].accepted # None
      PROVE  /\ row'[r].state # "recovering"
             /\ row'[r].state = "running" => row'[r].attempts > 0
  <2>1. row'[r] = Classified(r) /\ row[r] \in RowType /\ MaxReprobes \in Nat
    BY TypeRow, RecoveryConstants DEF Inv, Boot, ClassifyRows, AtBoot
  <2>2. row[r].accepted \in Row
    BY <1>4, <2>1 DEF RowType
  <2>3. Probe(row[r].accepted) # "busy"
    BY <1>2, <2>2, NoneIsNothing DEF Probe
  <2>4. CASE Probe(row[r].accepted) = "idle"
    BY <2>1, <2>4 DEF Classified, RowType
  <2>5. CASE Probe(row[r].accepted) # "idle"
    <3>1. /\ row'[r].attempts = IF Escalated(r) THEN row[r].attempts ELSE row[r].attempts + 1
          /\ row'[r].state = IF row[r].state = "recovering" THEN "unknown" ELSE row[r].state
      BY <2>1, <2>3, <2>5 DEF Classified, RowType
    <3>2. row'[r].attempts > 0
      BY <2>1, <3>1 DEF Escalated, RowType
    <3> QED
      BY <3>1, <3>2
  <2> QED
    BY <2>4, <2>5
<1>5. \A r \in Row : Settles(r)
  BY <1>1 DEF SettlesRows
<1>6. LeftBehind'
  BY <1>4, <1>5 DEF LeftBehind, Settles, AtBoot, Open, Outcome, Inv, OfRows, RunningHasTurn
<1>7. ClaimsHeld'
  BY <1>4, <1>5 DEF ClaimsHeld, Settles, AtBoot, Open, Outcome
<1>8. Final'
  BY <1>1, SettlesKeepsFinal DEF Inv, Final
<1> QED
  BY <1>3, <1>6, <1>7, <1>8 DEF OfProcess

LEMMA EndingInv ==
  ASSUME Inv, Ending
  PROVE  OfRows' /\ OfProcess' /\ Final'
<1>1. OfRows'
  BY EndingEffect, SettlesKeepsRows DEF Inv
<1> QED
  BY <1>1, KeepStoppedInv, StopInv, ReprobeInv, TurnEndsInv, BootInv DEF Ending

LEMMA RoomOnlyInv ==
  ASSUME Inv, RoomOnly
  PROVE  OfRows' /\ OfProcess' /\ Final'
<1>1. UNCHANGED <<row, claim, launch, sync, cont, later, served, closed>>
  BY DEF RoomOnly, PromptUnrecorded, OpenRoom, CloseRoom, Listen, history
<1>2. OfRows' /\ Final'
  BY <1>1 DEF Inv, OfRows, Unwritten, Refusals, Stored, Single, KeyAt, AcceptedIsTrue, Launched,
              RunningHasTurn, Final
<1>3. CASE PromptUnrecorded \/ Listen
  <2>1. phase # "up" /\ phase' # "up"
    BY <1>3 DEF PromptUnrecorded, Listen
  <2>2. Down'
    BY <1>1, <1>3, NoneIsNothing DEF PromptUnrecorded, Listen, Inv, OfProcess, Down, TypeOK
  <2> QED
    BY <1>1, <1>2, <2>1, <2>2, NotUpKeepsProcess
<1>4. CASE OpenRoom \/ CloseRoom
  <2>1. room'.current = room.current /\ phase' = phase /\ (room'.current # None => room'.open)
    <3>1. room \in RoomType
      BY DEF Inv, TypeOK, RoomType
    <3>2. ASSUME OpenRoom
          PROVE  room'.current = room.current /\ phase' = phase /\ room'.open
      BY <3>1, <3>2 DEF OpenRoom, RoomType
    <3>3. ASSUME CloseRoom
          PROVE  room'.current = None /\ room.current = None /\ phase' = phase
      BY <3>3 DEF CloseRoom, NoRoom
    <3> QED
      BY <1>4, <3>2, <3>3
  <2>2. Down' /\ Pending' /\ Launching' /\ Stretch'
    BY <1>1, <2>1 DEF Inv, OfProcess, Down, Pending, KeyAt, Launching, New, Stretch
  <2>3. Unspent' /\ LeftBehind' /\ KnownToRows' /\ ClaimsHeld'
    BY <1>1, <2>1 DEF Inv, OfProcess, Unspent, LeftBehind, KnownToRows, ClaimsHeld
  <2> QED
    BY <1>2, <2>2, <2>3 DEF OfProcess
<1> QED
  BY <1>3, <1>4 DEF RoomOnly

LEMMA BlindInv ==
  ASSUME Inv, Blind
  PROVE  OfRows' /\ OfProcess' /\ Final'
<1>1. /\ UNCHANGED <<row, phase, claim, sync, cont, later, served, closed>>
      /\ sync = None /\ launch' \in Request \cup {None}
  <2>1. UNCHANGED <<row, phase, claim, sync, cont, later, served, closed>>
    BY DEF Blind, StartBlind, BlindStarts, BlindFails, history
  <2>2. sync = None
    BY DEF Blind, StartBlind, BlindStarts, BlindFails, Inv, OfProcess, Down
  <2> QED
    BY <2>1, <2>2 DEF Blind, StartBlind, BlindStarts, BlindFails
<1>2. OfRows' /\ Final'
  BY <1>1 DEF Inv, OfRows, Unwritten, Refusals, Stored, Single, KeyAt, AcceptedIsTrue, Launched,
              RunningHasTurn, Final
<1>3. launch' \notin Launch
  BY <1>1, NoneIsNothing
<1>4. CASE phase # "up"
  <2>1. room'.current \notin Row /\ (room'.current # None => room'.open)
    <3>1. room \in RoomType
      BY DEF Inv, TypeOK, RoomType
    <3>2. room' = room \/ room' = [room EXCEPT !.open = TRUE, !.current = Other]
      BY DEF Blind, StartBlind, BlindStarts, BlindFails
    <3>3. room.current \notin Row /\ (room.current # None => room.open)
      BY <1>4 DEF Inv, OfProcess, Down
    <3> QED
      BY <3>1, <3>2, <3>3, NoneIsNothing DEF RoomType
  <2>2. Down'
    BY <1>1, <1>3, <1>4, <2>1 DEF Inv, OfProcess, Down
  <2> QED
    BY <1>1, <1>2, <1>4, <2>2, NotUpKeepsProcess
<1>5. CASE phase = "up"
  <2>1. room' = room
    BY <1>5 DEF Blind, StartBlind, BlindStarts, BlindFails
  <2>2. Down' /\ Pending' /\ Launching' /\ Stretch'
    BY <1>1, <1>3, <2>1 DEF Inv, OfProcess, Down, Pending, KeyAt, Launching, Stretch
  <2>3. Unspent' /\ LeftBehind' /\ KnownToRows' /\ ClaimsHeld'
    BY <1>1, <2>1 DEF Inv, OfProcess, Unspent, LeftBehind, KnownToRows, ClaimsHeld
  <2> QED
    BY <1>2, <2>2, <2>3 DEF OfProcess
<1> QED
  BY <1>4, <1>5

-----------------------------------------------------------------------------
(* New rows and the start of a turn *)

\* What the invariant needs of a row that is written for the first time.
NewIs(c, q) ==
  /\ row[c].state = "absent" /\ \A x \in Row \ {c} : row'[x] = row[x]
  /\ row'[c].state = "starting" /\ row'[c].request = q /\ ~row'[c].refused
  /\ row'[c].accepted = None /\ row'[c].resumeTurn = None /\ row'[c].keys = <<>>
  /\ row'[c].attempts = 0

LEMMA NewRowIs ==
  ASSUME TypeOK, NEW c \in Row, NEW q \in Request \cup {Fresh}, NewRow(c, q),
         row[c].state = "absent"
  PROVE  NewIs(c, q)
<1>1. row' = [row EXCEPT ![c] = [Blank EXCEPT !.state = "starting", !.request = q]]
  BY DEF NewRow
<1>2. row'[c] = [Blank EXCEPT !.state = "starting", !.request = q]
      /\ \A x \in Row \ {c} : row'[x] = row[x]
  BY <1>1 DEF TypeOK
<1> QED
  BY <1>2 DEF NewIs, Blank

LEMMA NewRowKeepsRows ==
  ASSUME TypeOK, OfRows, NEW c \in Row, NEW q \in Request \cup {Fresh}, NewIs(c, q),
         q \in Request => Unsent(q),
         UNCHANGED <<cont, later, served>>
  PROVE  OfRows'
<1>1. row[c].keys = <<>> /\ served[c] = None
  BY DEF OfRows, Unwritten, NewIs
<1>2. Unwritten'
  BY DEF OfRows, Unwritten, NewIs
<1>3. Refusals'
  <2>1. ASSUME NEW r \in Row, NEW s \in Row, r # s, row'[r].request = row'[s].request,
               row'[r].request \in Request
        PROVE  row'[r].refused \/ row'[s].refused
    BY <2>1, RecoveryConstants DEF OfRows, Refusals, NewIs, Unsent
  <2>2. \A r \in Row : row'[r].refused => row'[r].state = "cancelled" /\ served[r] = None
    BY DEF OfRows, Refusals, NewIs
  <2> QED
    BY <2>1, <2>2 DEF Refusals
<1>4. Stored' /\ Single'
  <2>1. \A x \in Row : cont[x] # None => cont[x][1] \in Row
    BY DEF TypeOK
  <2> QED
    <3>1. ASSUME NEW x \in Row, cont[x] # None, later[x] < MaxKeys
          PROVE  KeyAt(cont[x][1], later[x], cont[x][2])'
      <4>1. KeyAt(cont[x][1], later[x], cont[x][2])
        BY <3>1 DEF OfRows, Stored
      <4>2. cont[x][1] # c
        <5>1. Len(row[c].keys) = 0 /\ later[x] \in 0..(MaxKeys + 1) /\ MaxKeys \in Nat
          BY <1>1, RecoveryConstants DEF TypeOK
        <5> QED
          BY <4>1, <5>1 DEF KeyAt
      <4> QED
        BY <2>1, <3>1, <4>1, <4>2 DEF KeyAt, NewIs
    <3>2. Stored'
      BY <3>1 DEF Stored
    <3>3. Single'
      BY DEF OfRows, Single
    <3> QED
      BY <3>2, <3>3
<1>5. AcceptedIsTrue'
  BY DEF OfRows, AcceptedIsTrue, Launched, NewIs
<1>6. RunningHasTurn'
  BY DEF OfRows, RunningHasTurn, NewIs
<1> QED
  BY <1>2, <1>3, <1>4, <1>5, <1>6 DEF OfRows

\* The parts that a new row leaves alone, whatever else its step does.
LEMMA NewRowKeepsProcess ==
  ASSUME Inv, Idle, NEW c \in Row, NEW q \in Request \cup {Fresh}, NewIs(c, q), room.current = None,
         UNCHANGED <<phase, room, claim, cont, later, served, closed>>
  PROVE  /\ Down' /\ Pending' /\ LeftBehind' /\ KnownToRows' /\ ClaimsHeld' /\ Final' /\ New(c)'
         /\ \A x \in Row \ {c} : New(x) => New(x)'
<1>1. Down'
  BY DEF Inv, OfProcess, Down, Idle
<1>2. Pending'
  BY DEF Inv, OfProcess, Pending, KeyAt, NewIs
<1>3. LeftBehind' /\ ClaimsHeld'
  BY DEF Inv, OfProcess, LeftBehind, ClaimsHeld, NewIs, Idle
<1>4. KnownToRows'
  BY NoneIsNothing DEF KnownToRows
<1>5. Final' /\ c \notin closed
  BY DEF Inv, Final, NewIs, TypeOK
<1>6. served[c] = None
  BY DEF Inv, OfRows, Unwritten, NewIs
<1>7. New(c)'
  BY <1>5, <1>6 DEF New, NewIs
<1>8. \A x \in Row \ {c} : New(x) => New(x)'
  BY DEF New, NewIs
<1> QED
  BY <1>1, <1>2, <1>3, <1>4, <1>5, <1>7, <1>8

LEMMA NewRowsInv ==
  ASSUME Inv, NewRows
  PROVE  OfRows' /\ OfProcess' /\ Final'
<1>1. ASSUME NEW c \in Row, NEW q \in Request \cup {Fresh}, NEW r \in Row \cup {None},
             Starts(c, q, r)
      PROVE  OfRows' /\ OfProcess' /\ Final'
  <2>1. NewIs(c, q) /\ Idle /\ room.current = None
        /\ UNCHANGED <<phase, room, claim, sync, cont, later, served, closed>>
    BY <1>1, NewRowIs DEF Inv, Starts, history
  <2>2. OfRows'
    BY <1>1, <2>1, NewRowKeepsRows DEF Inv, Starts
  <2>3. Down' /\ Pending' /\ LeftBehind' /\ KnownToRows' /\ ClaimsHeld' /\ Final' /\ New(c)'
    BY <2>1, NewRowKeepsProcess
  <2>4. launch' = [row |-> c, for |-> r] /\ (r # None => claim[r] # None)
    BY <1>1 DEF Starts
  <2>5. Launching'
    BY <2>1, <2>3, <2>4 DEF Launching
  <2>6. Stretch' /\ Unspent'
    BY <2>1 DEF Stretch, Unspent, Idle, Inv, OfProcess
  <2> QED
    BY <2>2, <2>3, <2>5, <2>6 DEF OfProcess
<1>2. ASSUME NEW c \in Row, NEW q \in Request \cup {Fresh}, Prompts(c, q)
      PROVE  OfRows' /\ OfProcess' /\ Final'
  <2>1. NewIs(c, q) /\ Idle /\ room.current = None /\ launch' \in {launch, None}
        /\ UNCHANGED <<phase, room, claim, cont, later, served, closed>>
    BY <1>2, NewRowIs DEF Inv, Prompts, history
  <2>2. OfRows'
    BY <1>2, <2>1, NewRowKeepsRows DEF Inv, Prompts
  <2>3. /\ Down' /\ Pending' /\ LeftBehind' /\ KnownToRows' /\ ClaimsHeld' /\ Final' /\ New(c)'
        /\ \A x \in Row \ {c} : New(x) => New(x)'
    BY <2>1, NewRowKeepsProcess
  <2>4. sync' = [row |-> c, for |-> None, stage |-> "start"]
    BY <1>2 DEF Prompts
  <2>5. launch \in Launch => launch.row \in Row /\ launch.row # c /\ New(launch.row)
    BY <2>1 DEF Inv, Launch, OfProcess, Launching, New, NewIs
  <2>6. Launching'
    BY <2>1, <2>3, <2>5, NoneIsNothing DEF Launching, Inv, OfProcess
  <2>7. Stretch'
    BY <2>1, <2>3, <2>4, <2>5, NoneIsNothing DEF Stretch
  <2>8. Unspent'
    BY <2>1 DEF Unspent, Idle, Inv, OfProcess
  <2> QED
    BY <2>2, <2>3, <2>6, <2>7, <2>8 DEF OfProcess
<1> QED
  BY <1>1, <1>2, NewRowsEffect

LEMMA StartTurnInv ==
  ASSUME Inv, NEW c \in Row, NEW r \in Row \cup {None}, StartTurn(c, r), New(c),
         r # None => claim[r] # None, phase = "up", room.current = None,
         sync = None \/ sync.stage = "start",
         launch' = None \/ (r = None /\ launch' = launch /\ (launch \in Launch => launch.row \in Row \ {c})),
         UNCHANGED <<row, phase, claim, closed>>
  PROVE  OfRows' /\ OfProcess' /\ Final'
<1>1. /\ room'.open /\ room'.current = c
      /\ sync' = [row |-> c, for |-> r, stage |-> "own"]
      /\ cont'[c] = IF r = None THEN None ELSE <<r, claim[r]>>
      /\ \A x \in Row \ {c} : cont'[x] = cont[x] /\ later'[x] = later[x]
      /\ later'[c] = 0
      /\ \A x \in Row : served'[x] = IF x = c \/ x = r THEN c ELSE served[x]
      /\ None \notin Row /\ sync' # None
  <2>1. room \in RoomType
    BY DEF Inv, TypeOK, RoomType
  <2>2. cont \in [Row -> (Row \X Key) \cup {None}] /\ served \in [Row -> Row \cup {None}]
        /\ later \in [Row -> 0..(MaxKeys + 1)]
    BY DEF Inv, TypeOK
  <2>3. [row |-> c, for |-> r, stage |-> "own"] \in Stretches
    BY DEF Stretches
  <2> QED
    BY <2>1, <2>2, <2>3, NoneIsNothing DEF StartTurn, RoomType
<1>2. r # None => /\ r \in Row \ {c} /\ row[r].state = "recovering"
                  /\ KeyAt(r, 0, claim[r])
  BY DEF Inv, OfProcess, Pending, New
<1>3. c # None /\ served[c] = None /\ row[c].state # "absent" /\ ~row[c].refused
  BY NoneIsNothing DEF New
<1>4. \A x \in Row : served[x] # c
  BY <1>3 DEF Inv, OfRows, Unwritten
<1>5. Unwritten'
  <2>1. \A x \in Row : served[x] # None => served[x] \in Row
    BY DEF Inv, TypeOK
  <2> QED
    BY <1>1, <1>2, <1>3, <2>1 DEF Inv, OfRows, Unwritten
<1>6. Refusals'
  BY <1>1, <1>2, <1>3 DEF Inv, OfRows, Refusals
<1>7. Stored'
  BY <1>1, <1>2 DEF Inv, OfRows, Stored, KeyAt
<1>8. \A d \in Row \ {c} : cont[d] # None /\ r # None /\ cont[d] = <<r, claim[r]>> => later[d] > MaxKeys
  BY <1>2 DEF Inv, OfProcess, Unspent
<1>9. Single'
  BY <1>1, <1>8 DEF Inv, OfRows, Single
<1>10. AcceptedIsTrue'
  <2>1. ASSUME NEW x \in Row, row[x].accepted # None
        PROVE  /\ row[x].accepted \in Row \ {c} /\ served[row[x].accepted] # None
               /\ row[x].accepted = x
                  \/ (cont[row[x].accepted] # None /\ cont[row[x].accepted][1] = x)
    BY <1>3, <2>1 DEF Inv, OfRows, AcceptedIsTrue, Launched
  <2> QED
    BY <1>1, <1>3, <2>1 DEF AcceptedIsTrue, Launched
<1>11. RunningHasTurn' /\ Final'
  BY DEF Inv, OfRows, RunningHasTurn, Final
<1>12. Down' /\ Pending' /\ ClaimsHeld'
  BY <1>1 DEF Inv, OfProcess, Down, Pending, KeyAt, ClaimsHeld
<1>13. Launching'
  BY <1>1, NoneIsNothing DEF Inv, OfProcess, Launching, New
<1>14. Stretch'
  <2>1. sync'.row = c /\ sync'.for = r /\ sync'.stage = "own"
    BY <1>1
  <2>2. served'[c] = c /\ room'.current = c /\ (\A x \in Row : served'[x] = c => x \in {c, r})
    BY <1>1, <1>4
  <2>3. r # None => r # c /\ cont'[c] # None /\ cont'[c][1] = r /\ claim'[r] # None /\ launch' = None
    <3>1. r # None => claim[r] \in Key /\ r \in Row
      BY DEF Inv, TypeOK
    <3>2. r # None => <<r, claim[r]>> # None
      BY <3>1, NoneIsNothing
    <3> QED
      BY <1>1, <1>2, <3>2
  <2>4. row'[c].state \in {"starting", "cancelled"} /\ c \notin closed'
    BY DEF New
  <2> QED
    BY <2>1, <2>2, <2>3, <2>4 DEF Stretch
<1>15. Unspent'
  BY <1>1 DEF Inv, OfProcess, Unspent
<1>16. LeftBehind'
  BY DEF Inv, OfRows, OfProcess, RunningHasTurn, LeftBehind
<1>17. KnownToRows'
  BY <1>1, NoneIsNothing DEF KnownToRows, Inv, TypeOK
<1> QED
  BY <1>5, <1>6, <1>7, <1>9, <1>10, <1>11, <1>12, <1>13, <1>14, <1>15, <1>16, <1>17
  DEF OfRows, OfProcess

LEMMA StartsInv ==
  ASSUME Inv, RoomReady \/ PromptStarts
  PROVE  OfRows' /\ OfProcess' /\ Final'
<1>1. CASE RoomReady
  <2>1. /\ launch \in Launch /\ New(launch.row)
        /\ launch.for # None => claim[launch.for] # None
    BY <1>1 DEF RoomReady, Inv, OfProcess, Launching
  <2>2. launch.row \in Row /\ launch.for \in Row \cup {None}
    BY <2>1 DEF Launch
  <2> QED
    BY <1>1, <2>1, <2>2, StartTurnInv DEF RoomReady, Idle
<1>2. CASE PromptStarts
  <2>1. sync \in Stretches /\ sync.stage = "start"
    BY <1>2 DEF PromptStarts, Inv, TypeOK, Stretches
  <2>2. sync.row \in Row
    BY <2>1 DEF Stretches
  <2>3. sync # None /\ StartTurn(sync.row, None) /\ UNCHANGED <<row, phase, claim, launch, closed>>
    BY <1>2 DEF PromptStarts
  <2>4. New(sync.row) /\ room.current = None /\ (launch \in Launch => launch.row # sync.row)
    BY <2>1, <2>3 DEF Inv, OfProcess, Stretch
  <2>5. phase = "up"
    BY <2>3 DEF Inv, OfProcess, Down
  <2>6. launch' = launch /\ (launch \in Launch => launch.row \in Row \ {sync.row})
    BY <2>3, <2>4 DEF Launch
  <2> QED
    BY <2>1, <2>2, <2>3, <2>4, <2>5, <2>6, StartTurnInv
<1> QED
  BY <1>1, <1>2

-----------------------------------------------------------------------------
(* Steps that change one written row *)

LEMMA ChangeKeepsRows ==
  ASSUME Inv, NEW r \in Row, \A x \in Row \ {r} : row'[x] = row[x],
         UNCHANGED <<cont, served, closed>>, r \notin closed,
         row'[r].request = row[r].request,
         (row'[r].keys = row[r].keys /\ later' = later) \/ (Stored' /\ Single'),
         row'[r].state # "absent", ~row[r].refused,
         row'[r].refused => row'[r].state = "cancelled" /\ served[r] = None,
         \/ row'[r].accepted = row[r].accepted
         \/ /\ row'[r].accepted \in Launched
            /\ \/ row'[r].accepted = r
               \/ cont[row'[r].accepted] # None /\ cont[row'[r].accepted][1] = r,
         row'[r].state = "running" => row'[r].accepted # None
  PROVE  OfRows' /\ Final'
<1>1. Unwritten'
  BY DEF Inv, OfRows, Unwritten
<1>2. Refusals'
  BY DEF Inv, OfRows, Refusals
<1>3. Stored' /\ Single'
  <2>1. \A x \in Row : cont[x] # None => cont[x][1] \in Row
    BY DEF Inv, TypeOK
  <2> QED
    BY <2>1 DEF Inv, OfRows, Stored, Single, KeyAt
<1>4. AcceptedIsTrue'
  <2> DEFINE IsTurnOf(x, c) == c \in Launched /\ (c = x \/ (cont[c] # None /\ cont[c][1] = x))
  <2>1. \A x \in Row : row[x].accepted # None => IsTurnOf(x, row[x].accepted)
    BY DEF Inv, OfRows, AcceptedIsTrue
  <2>2. \A x \in Row : row'[x].accepted = row[x].accepted \/ IsTurnOf(x, row'[x].accepted)
    OBVIOUS
  <2>3. \A x \in Row : row'[x].accepted # None => IsTurnOf(x, row'[x].accepted)
    BY <2>1, <2>2
  <2>4. Launched' = Launched /\ cont' = cont
    BY DEF Launched
  <2> QED
    BY <2>3, <2>4 DEF AcceptedIsTrue
<1>5. RunningHasTurn' /\ Final'
  BY DEF Inv, TypeOK, OfRows, RunningHasTurn, Final
<1> QED
  BY <1>1, <1>2, <1>3, <1>4, <1>5 DEF OfRows

LEMMA AckOwnInv ==
  ASSUME Inv, AckOwn
  PROVE  OfRows' /\ OfProcess' /\ Final'
<1> DEFINE c == sync.row
           r == sync.for
<1>1. sync # None /\ sync \in Stretches /\ sync.stage = "own" /\ c \in Row /\ r \in Row \cup {None}
  BY DEF Inv, TypeOK, AckOwn, Stretches
<1>2. /\ served[c] = c /\ room.current = c /\ c \notin closed /\ phase = "up"
      /\ \A x \in Row : served[x] = c => x \in {c, r}
      /\ row[c].state \in {"starting", "cancelled"}
      /\ r # None => /\ r # c /\ cont[c] # None /\ cont[c][1] = r /\ claim[r] # None
                     /\ launch = None
  BY <1>1 DEF Inv, OfProcess, Stretch, Down
<1>3. /\ UNCHANGED <<phase, room, claim, launch, crashes, cont, later, served, closed>>
      /\ \A x \in Row \ {c} : row'[x] = row[x]
      /\ row'[c].request = row[c].request /\ row'[c].refused = row[c].refused
      /\ row'[c].keys = row[c].keys
      /\ \/ row[c].state = "cancelled" /\ row'[c].state = "cancelled"
            /\ row'[c].accepted = row[c].accepted
         \/ row[c].state = "starting" /\ row'[c].state = "running" /\ row'[c].accepted = c
  BY <1>1, <1>2 DEF AckOwn, Inv, TypeOK, history
<1>4. /\ r = None => sync' = None
      /\ r # None => /\ sync'.row = c /\ sync'.for = r /\ sync'.stage = "bind" /\ sync' # None
  <2>1. [sync EXCEPT !.stage = "bind"] \in Stretches
    BY <1>1 DEF Stretches
  <2> QED
    BY <1>1, <2>1, NoneIsNothing DEF AckOwn, Stretches
<1>5. CASE row[c].state = "cancelled"
  <2>1. row' = row
    BY <1>5 DEF AckOwn
  <2>2. OfRows' /\ Final'
    BY <1>3, <2>1 DEF Inv, OfRows, Unwritten, Refusals, Stored, Single, KeyAt, AcceptedIsTrue, Launched,
                      RunningHasTurn, Final
  <2>3. Down' /\ Pending' /\ Launching' /\ LeftBehind' /\ ClaimsHeld'
    BY <1>2, <1>3, <2>1
    DEF Inv, OfProcess, Down, Pending, KeyAt, Launching, New, LeftBehind, ClaimsHeld
  <2>4. Stretch' /\ Unspent'
    <3>1. CASE r = None
      <4>1. sync' = None
        BY <3>1, <1>4
      <4>2. Stretch'
        BY <4>1 DEF Stretch
      <4>3. Unspent
        BY DEF Inv, OfProcess
      <4>4. Unspent'
        BY <4>3, <4>1, <3>1, <1>1, <1>2, <1>3, NoneIsNothing DEF Unspent
      <4> QED BY <4>2, <4>4
    <3>2. CASE r # None
      <4>1. sync' # None /\ sync'.row = c /\ sync'.for = r /\ sync'.stage = "bind"
        BY <3>2, <1>4
      <4>2. Stretch /\ Unspent
        BY DEF Inv, OfProcess
      <4>3. Stretch'
        BY <4>1, <4>2, <3>2, <1>1, <1>2, <1>3, <1>5, <2>1 DEF Stretch
      <4>4. Unspent'
        BY <4>1, <4>2, <1>1, <1>2, <1>3 DEF Unspent
      <4> QED BY <4>3, <4>4
    <3> QED BY <3>1, <3>2
  <2>5. KnownToRows'
    BY <1>2, <1>3, <1>4, <1>5, <2>1, NoneIsNothing DEF KnownToRows
  <2> QED
    BY <2>2, <2>3, <2>4, <2>5 DEF OfProcess
<1>6. CASE row[c].state = "starting"
  <2>1. row'[c].state = "running" /\ row'[c].accepted = c /\ c \in Launched /\ c # None
    BY <1>1, <1>2, <1>3, <1>6, NoneIsNothing DEF Launched
  <2>2. ~row[c].refused
    BY <1>1, <1>6 DEF Inv, OfRows, Refusals
  <2>3. OfRows' /\ Final'
    BY <1>1, <1>2, <1>3, <2>1, <2>2, ChangeKeepsRows
  <2>4. Down' /\ Pending' /\ LeftBehind' /\ ClaimsHeld'
    BY <1>1, <1>2, <1>3, <1>6, <2>1 DEF Inv, OfProcess, Down, Pending, KeyAt, LeftBehind, ClaimsHeld
  <2>5. Launching'
    <3>1. launch \in Launch => launch.row \in Row /\ launch.row # c /\ New(launch.row)
      BY <1>2, <2>1 DEF Inv, Launch, OfProcess, Launching, New
    <3> QED
      BY <1>3, <3>1 DEF Inv, OfProcess, Launching, New
  <2>6. Stretch' /\ Unspent'
    <3>1. CASE r = None
      <4>1. sync' = None
        BY <3>1, <1>4
      <4>2. Stretch'
        BY <4>1 DEF Stretch
      <4>3. Unspent
        BY DEF Inv, OfProcess
      <4>4. Unspent'
        BY <4>3, <4>1, <3>1, <1>1, <1>2, <1>3, NoneIsNothing DEF Unspent
      <4> QED BY <4>2, <4>4
    <3>2. CASE r # None
      <4>1. sync' # None /\ sync'.row = c /\ sync'.for = r /\ sync'.stage = "bind"
        BY <3>2, <1>4
      <4>2. Stretch /\ Unspent
        BY DEF Inv, OfProcess
      <4>3. Stretch'
        BY <4>1, <4>2, <3>2, <1>1, <1>2, <1>3, <2>1 DEF Stretch
      <4>4. Unspent'
        BY <4>1, <4>2, <1>1, <1>2, <1>3 DEF Unspent
      <4> QED BY <4>3, <4>4
    <3> QED BY <3>1, <3>2
  <2>7. KnownToRows'
    BY <1>2, <1>3, <1>4, <2>1, NoneIsNothing DEF KnownToRows
  <2> QED
    BY <2>3, <2>4, <2>5, <2>6, <2>7 DEF OfProcess
<1> QED
  BY <1>2, <1>5, <1>6

LEMMA BindResumedInv ==
  ASSUME Inv, BindResumed
  PROVE  OfRows' /\ OfProcess' /\ Final'
<1> DEFINE c == sync.row
           r == sync.for
<1>1. sync # None /\ sync \in Stretches /\ sync.stage = "bind" /\ c \in Row /\ r \in Row
  BY DEF Inv, TypeOK, OfProcess, Stretch, BindResumed, Stretches
<1>2. /\ served[c] = c /\ room.current = c /\ phase = "up"
      /\ \A x \in Row : served[x] = c => x \in {c, r}
      /\ row[c].state = "cancelled" \/ (row[c].state = "running" /\ row[c].accepted = c)
      /\ r # c /\ cont[c] # None /\ cont[c][1] = r /\ claim[r] # None /\ launch = None
  BY <1>1, NoneIsNothing DEF Inv, OfProcess, Stretch, Down
<1>3. row[r].state = "recovering" /\ ~row[r].refused /\ r \notin closed
  BY <1>1, <1>2 DEF Inv, OfRows, OfProcess, Pending, Refusals, Final
<1>4. /\ UNCHANGED <<phase, room, launch, crashes, cont, later, served, closed>>
      /\ \A x \in Row \ {r} : row'[x] = row[x] /\ claim'[x] = claim[x]
      /\ row'[r].request = row[r].request /\ row'[r].refused = row[r].refused
      /\ row'[r].keys = row[r].keys /\ row'[r].accepted = row[r].accepted
      /\ row'[r].state = "starting" /\ claim'[r] = None
  BY <1>1 DEF BindResumed, Inv, TypeOK, history
<1>5. sync'.row = c /\ sync'.for = r /\ sync'.stage = "ack" /\ sync' # None
  <2>1. [sync EXCEPT !.stage = "ack"] \in Stretches
    BY <1>1 DEF Stretches
  <2> QED
    BY <1>1, <2>1, NoneIsNothing DEF BindResumed, Stretches
<1>6. OfRows' /\ Final'
  BY <1>1, <1>3, <1>4, ChangeKeepsRows
<1>7 Down' /\ Pending' /\ Launching' /\ LeftBehind' /\ ClaimsHeld'
  <2>1. Down' /\ LeftBehind' /\ ClaimsHeld'
    BY <1>1, <1>2, <1>4 DEF Inv, OfProcess, Down, LeftBehind, ClaimsHeld
  <2>2. Pending'
    BY <1>1, <1>2, <1>4 DEF Inv, OfProcess, Pending, KeyAt
  <2>3. Launching'
    BY <1>2, <1>4, NoneIsNothing DEF Launching
  <2> QED
    BY <2>1, <2>2, <2>3
<1>8. Stretch'
  <2>1. row'[c].state = "cancelled" \/ (row'[c].state = "running" /\ row'[c].accepted = c)
    BY <1>1, <1>2, <1>4
  <2>2. \A x \in Row : served'[x] = c => x \in {c, r}
    BY <1>2, <1>4
  <2>3. row'[r].state = "starting" /\ ~row'[r].refused /\ r \notin closed'
    BY <1>3, <1>4
  <2>4. /\ served'[c] = c /\ room'.current = c /\ r # c /\ cont'[c] # None /\ cont'[c][1] = r
        /\ r # None /\ launch' = None
    BY <1>1, <1>2, <1>4, NoneIsNothing
  <2> HIDE DEF c, r
  <2> QED
    BY <1>5, <2>1, <2>2, <2>3, <2>4 DEF Stretch
<1>9. Unspent'
  <2>1. \A d \in Row, x \in Row : claim[x] # None /\ cont[d] # None /\ cont[d] = <<x, claim[x]>>
          => x = r \/ later[d] > MaxKeys
    BY DEF Inv, OfProcess, Unspent
  <2>2. \A x \in Row : claim'[x] # None => x # r /\ claim'[x] = claim[x]
    BY <1>4
  <2> HIDE DEF c, r
  <2> QED
    BY <1>4, <2>1, <2>2 DEF Unspent
<1>10. KnownToRows'
  BY <1>5 DEF KnownToRows
<1> QED
  BY <1>6, <1>7, <1>8, <1>9, <1>10 DEF OfProcess

LEMMA AckResumedInv ==
  ASSUME Inv, AckResumed
  PROVE  OfRows' /\ OfProcess' /\ Final'
<1> DEFINE c == sync.row
           r == sync.for
<1>1. sync # None /\ sync \in Stretches /\ sync.stage = "ack" /\ c \in Row /\ r \in Row
  BY DEF Inv, TypeOK, OfProcess, Stretch, AckResumed, Stretches
<1>2. /\ served[c] = c /\ room.current = c /\ phase = "up"
      /\ \A x \in Row : served[x] = c => x \in {c, r}
      /\ row[c].state = "cancelled" \/ (row[c].state = "running" /\ row[c].accepted = c)
      /\ r # c /\ cont[c] # None /\ cont[c][1] = r /\ launch = None
      /\ row[r].state = "starting" /\ ~row[r].refused /\ r \notin closed
  BY <1>1, NoneIsNothing DEF Inv, OfProcess, Stretch, Down
<1>3. /\ UNCHANGED <<phase, room, claim, launch, crashes, cont, later, served, closed>>
      /\ \A x \in Row \ {r} : row'[x] = row[x]
      /\ row'[r].request = row[r].request /\ row'[r].refused = row[r].refused
      /\ row'[r].keys = row[r].keys /\ row'[r].accepted = c
      /\ row'[r].state = "running" /\ sync' = None
  BY <1>1 DEF AckResumed, Inv, TypeOK, history
<1>4. c \in Launched /\ c # None
  BY <1>1, <1>2, NoneIsNothing DEF Launched
<1>5. OfRows' /\ Final'
  BY <1>1, <1>2, <1>3, <1>4, ChangeKeepsRows
<1>6 Down' /\ Pending' /\ Launching' /\ LeftBehind' /\ ClaimsHeld'
  <2>1. Down' /\ LeftBehind' /\ ClaimsHeld'
    BY <1>1, <1>2, <1>3 DEF Inv, OfProcess, Down, LeftBehind, ClaimsHeld
  <2>2. Pending'
    BY <1>1, <1>2, <1>3 DEF Inv, OfProcess, Pending, KeyAt
  <2>3. Launching'
    BY <1>2, <1>3, NoneIsNothing DEF Launching
  <2> QED
    BY <2>1, <2>2, <2>3
<1>7. Stretch' /\ Unspent'
  BY <1>1, <1>3 DEF Inv, OfProcess, Stretch, Unspent
<1>8. KnownToRows'
  BY <1>2, <1>3 DEF KnownToRows
<1> QED
  BY <1>5, <1>6, <1>7, <1>8 DEF OfProcess

LEMMA GiveBackInv ==
  ASSUME Inv, NEW r \in Row, claim[r] # None, GiveBackClaim(r), sync' = None, launch' = launch,
         sync = None \/ (sync.stage = "give back" /\ launch = None),
         phase = "up", launch \in Launch => launch.for # r
  PROVE  OfRows' /\ OfProcess' /\ Final'
<1>1. row[r].state = "recovering" /\ ~row[r].refused /\ r \notin closed
  BY DEF Inv, OfRows, OfProcess, Pending, Refusals, Final
<1>2. /\ UNCHANGED <<phase, room, launch, crashes, cont, later, served, closed>>
      /\ \A x \in Row \ {r} : row'[x] = row[x] /\ claim'[x] = claim[x]
      /\ row'[r].request = row[r].request /\ row'[r].refused = row[r].refused
      /\ row'[r].keys = row[r].keys /\ row'[r].accepted = row[r].accepted
      /\ row'[r].state = "interrupted" /\ claim'[r] = None
  <2>1. row = [x \in Row |-> row[x]] /\ claim = [x \in Row |-> claim[x]]
    BY DEF Inv, TypeOK
  <2>2. row' = [row EXCEPT ![r].state = "interrupted"] /\ claim' = [claim EXCEPT ![r] = None]
    BY DEF GiveBackClaim
  <2>3. UNCHANGED <<phase, room, launch, crashes, cont, later, served, closed>>
    BY DEF GiveBackClaim, history
  <2>4. \A x \in Row \ {r} : row'[x] = row[x] /\ claim'[x] = claim[x]
    BY <2>1, <2>2
  <2>5. claim'[r] = None /\ row'[r] = [row[r] EXCEPT !.state = "interrupted"]
    BY <2>1, <2>2
  <2>6. row[r] \in [state : Open \cup Outcome \cup {"absent", "unknown", "recovering"},
                    request : Request \cup {Fresh}, refused : BOOLEAN, accepted : Row \cup {None},
                    resumeTurn : Row \cup {None}, keys : Seq(Key), automatic : BOOLEAN,
                    recoverable : BOOLEAN, attempts : 0..(MaxReprobes + 1)]
    BY DEF Inv, TypeOK
  <2> QED BY <2>3, <2>4, <2>5, <2>6
<1>3. OfRows' /\ Final'
  BY <1>1, <1>2, ChangeKeepsRows
<1>4. Down' /\ Pending' /\ LeftBehind' /\ ClaimsHeld'
  BY <1>2 DEF Inv, OfProcess, Down, Pending, KeyAt, LeftBehind, ClaimsHeld
<1>5. Launching'
  <2>1. launch \in Launch => /\ launch.row \in Row /\ launch.row # r /\ New(launch.row)
                             /\ launch.for # None => /\ claim[launch.for] # None
                                                     /\ launch.for \in Row \ {r}
    BY <1>1 DEF Inv, Launch, OfProcess, Launching, New
  <2> QED
    BY <1>2, <2>1 DEF Launching, New
<1>6. Stretch'
  BY DEF Stretch
<1>7. Unspent'
  <2>1. \A d, x \in Row : claim[x] # None /\ cont[d] # None /\ cont[d] = <<x, claim[x]>>
          => later[d] > MaxKeys
    BY DEF Inv, OfProcess, Unspent
  <2> QED
    BY <1>2, <2>1 DEF Unspent
<1>8. KnownToRows'
  <2>1. room.current \in Row => served[r] # room.current
    BY <1>1 DEF Inv, OfProcess, KnownToRows
  <2>2. \A x \in Row : room.current \in Row /\ served[x] = room.current =>
          row[x].state = "cancelled" \/ (row[x].state = "running" /\ row[x].accepted = room.current)
    BY DEF Inv, OfProcess, KnownToRows
  <2> QED
    BY <1>2, <2>1, <2>2 DEF KnownToRows
<1> QED
  BY <1>3, <1>4, <1>5, <1>6, <1>7, <1>8 DEF OfProcess

LEMMA ResumeEndsInv ==
  ASSUME Inv, ResumeFails \/ \E r \in Row : ResumeRefused(r)
  PROVE  OfRows' /\ OfProcess' /\ Final'
<1>1. CASE ResumeFails
  <2>1. sync # None /\ sync.stage = "give back" /\ sync.for \in Row \cup {None}
    BY <1>1 DEF ResumeFails, Inv, TypeOK, Stretches
  <2>2. sync.for \in Row /\ claim[sync.for] # None /\ launch = None /\ phase = "up"
    BY <2>1 DEF Inv, OfProcess, Stretch, Down
  <2> QED
    BY <1>1, <2>1, <2>2, GiveBackInv, NoneIsNothing DEF ResumeFails
<1>2. ASSUME NEW r \in Row, ResumeRefused(r)
      PROVE  OfRows' /\ OfProcess' /\ Final'
  BY <1>2, GiveBackInv DEF ResumeRefused, Idle
<1> QED
  BY <1>1, <1>2

LEMMA StartFailsInv ==
  ASSUME Inv, NEW known \in BOOLEAN, StartFails(known)
  PROVE  OfRows' /\ OfProcess' /\ Final'
<1> DEFINE c == launch.row
           r == launch.for
<1>1. /\ Idle /\ launch \in Launch /\ c \in Row /\ r \in Row \cup {None} /\ New(c)
      /\ r # None => claim[r] # None
  BY DEF StartFails, Inv, Launch, OfProcess, Launching
<1>2. /\ UNCHANGED <<phase, room, claim, crashes, cont, later, served, closed>> /\ launch' = None
      /\ \A x \in Row \ {c} : row'[x] = row[x]
      /\ row'[c].request = row[c].request /\ row'[c].keys = row[c].keys
      /\ row'[c].accepted = row[c].accepted
      /\ \/ row' = row
         \/ row[c].state = "starting" /\ row'[c].state = "cancelled"
  BY <1>1 DEF StartFails, Inv, TypeOK, history
<1>3. /\ r = None => sync' = None
      /\ r # None => sync'.row = c /\ sync'.for = r /\ sync'.stage = "give back"
  BY DEF StartFails
<1>4. sync' = None \/ sync'.stage = "give back"
  BY <1>3, Zenon
<1>5. OfRows' /\ Final'
  <2>1. CASE row' = row
    BY <1>2, <2>1 DEF Inv, OfRows, Unwritten, Refusals, Stored, Single, KeyAt, AcceptedIsTrue, Launched,
                      RunningHasTurn, Final
  <2>2. CASE row'[c].state = "cancelled"
    BY <1>1, <1>2, <2>2, ChangeKeepsRows DEF New
  <2> QED
    BY <1>1, <1>2, <2>1, <2>2
<1>6. Down' /\ Pending' /\ LeftBehind' /\ ClaimsHeld'
  BY <1>1, <1>2 DEF Inv, OfProcess, Down, Pending, KeyAt, LeftBehind, ClaimsHeld, Idle
<1>7. Launching'
  BY <1>2, NoneIsNothing DEF Launching
<1>8. Stretch'
  <2>1. r # None => claim'[r] # None /\ launch' = None
    BY <1>1, <1>2
  <2> HIDE DEF c, r
  <2>2. CASE r = None
    BY <1>3, <2>2 DEF Stretch
  <2>3. CASE r # None
    BY <1>3, <2>1, <2>3 DEF Stretch
  <2> QED
    BY <2>2, <2>3
<1>9. Unspent'
  <2>1. \A d, x \in Row : claim[x] # None /\ cont[d] # None /\ cont[d] = <<x, claim[x]>>
          => later[d] > MaxKeys
    BY <1>1 DEF Inv, OfProcess, Unspent, Idle
  <2> HIDE DEF c, r
  <2> QED
    BY <1>2, <2>1 DEF Unspent
<1>10. KnownToRows'
  <2>1. \A x \in Row : room.current \in Row /\ served[x] = room.current =>
          row[x].state = "cancelled" \/ (row[x].state = "running" /\ row[x].accepted = room.current)
    BY <1>1 DEF Inv, OfProcess, KnownToRows, Idle
  <2>2. room.current \in Row => served[c] # room.current
    BY <1>1, NoneIsNothing DEF New
  <2> HIDE DEF c, r
  <2> QED
    BY <1>1, <1>2, <2>1, <2>2 DEF KnownToRows
<1> QED
  BY <1>5, <1>6, <1>7, <1>8, <1>9, <1>10 DEF OfProcess

\* A claim stores its key last, and the keys before it move one place back.
LEMMA KeyStored ==
  ASSUME NEW keys \in Seq(Key), NEW k \in Key
  PROVE  LET new == WithStored(keys, k) IN 0 < Len(new) /\ new[Len(new) - 0] = k
  BY RecoveryConstants DEF WithStored

LEMMA KeyShifts ==
  ASSUME NEW keys \in Seq(Key), NEW k \in Key, NEW n \in Nat, n < Len(keys), n + 1 < MaxKeys
  PROVE  LET new == WithStored(keys, k)
         IN  n + 1 < Len(new) /\ new[Len(new) - (n + 1)] = keys[Len(keys) - n]
<1> DEFINE all == Append(keys, k)
<1>1. /\ all \in Seq(Key) /\ Len(all) = Len(keys) + 1 /\ Len(keys) \in Nat
      /\ \A i \in 1..Len(keys) : all[i] = keys[i]
  OBVIOUS
<1>2. CASE Len(all) > MaxKeys
  <2>1. WithStored(keys, k) = Tail(all)
    BY <1>2 DEF WithStored
  <2>2. Len(Tail(all)) = Len(keys) /\ \A i \in 1..Len(keys) : Tail(all)[i] = all[i + 1]
    BY <1>1
  <2>3. Len(keys) - (n + 1) \in 1..Len(keys) /\ Len(keys) - n \in 1..Len(keys)
    BY <1>1, <1>2, RecoveryConstants
  <2>4. (Len(keys) - (n + 1)) + 1 = Len(keys) - n
    BY <1>1
  <2> HIDE DEF all
  <2> QED
    BY <1>1, <1>2, <2>1, <2>2, <2>3, <2>4, RecoveryConstants
<1>3. CASE ~ (Len(all) > MaxKeys)
  <2>1. WithStored(keys, k) = all
    BY <1>3 DEF WithStored
  <2>2. Len(all) - (n + 1) = Len(keys) - n /\ Len(keys) - n \in 1..Len(keys)
    BY <1>1
  <2> HIDE DEF all
  <2> QED
    BY <1>1, <2>1, <2>2
<1> QED
  BY <1>2, <1>3

LEMMA ClaimsInv ==
  ASSUME Inv, NEW r \in Row, NEW k \in Key, Claims(r, k)
  PROVE  OfRows' /\ OfProcess' /\ Final'
<1>1. Idle /\ k \notin ToSet(row[r].keys) /\ row[r].state \in {"interrupted", "unknown"} /\ k # None
  BY NoneIsNothing DEF Claims
<1>2. ~row[r].refused /\ r \notin closed
  BY <1>1 DEF Inv, OfRows, Refusals, Final
<1>3. /\ UNCHANGED <<phase, room, launch, sync, crashes, cont, served, closed>>
      /\ \A x \in Row \ {r} : row'[x] = row[x] /\ claim'[x] = claim[x]
      /\ row'[r].request = row[r].request /\ row'[r].refused = row[r].refused
      /\ row'[r].keys = WithStored(row[r].keys, k) /\ row'[r].accepted = row[r].accepted
      /\ row'[r].state = "recovering" /\ claim'[r] = k
  BY DEF Claims, Claim, Inv, TypeOK
<1>10. ASSUME NEW d \in Row
      PROVE  /\ later[d] \in Nat /\ later'[d] \in Nat /\ MaxKeys \in Nat /\ later'[d] >= later[d]
             /\ cont[d] # None /\ cont[d][1] = r /\ later[d] <= MaxKeys
                  => later'[d] = later[d] + 1
             /\ later'[d] = later[d]
                \/ (cont[d] # None /\ cont[d][1] = r /\ later'[d] = later[d] + 1)
  <2>1. later[d] \in Nat /\ MaxKeys \in Nat
    BY RecoveryConstants DEF Inv, TypeOK
  <2>2. later'[d] = IF Continues(d, r) /\ later[d] <= MaxKeys THEN later[d] + 1 ELSE later[d]
    BY DEF Claims, Claim
  <2> QED
    BY <2>1, <2>2 DEF Continues
<1>11. row[r].keys \in Seq(Key)
  BY TypeRow DEF Inv, RowType
<1>12. KeyAt(r, 0, k)'
  BY <1>3, <1>11, KeyStored DEF KeyAt
<1>13. Stored'
  <2>1. ASSUME NEW d \in Row, cont[d] # None, later'[d] < MaxKeys
        PROVE  KeyAt(cont[d][1], later[d], cont[d][2])'
    <3>1. cont[d][1] \in Row /\ later[d] < MaxKeys /\ KeyAt(cont[d][1], later[d], cont[d][2])
      BY <1>10, <2>1 DEF Inv, TypeOK, OfRows, Stored
    <3>2. ASSUME cont[d][1] # r PROVE KeyAt(cont[d][1], later[d], cont[d][2])'
      BY <1>3, <1>10, <2>1, <3>1, <3>2 DEF KeyAt
    <3>3. ASSUME cont[d][1] = r PROVE KeyAt(cont[d][1], later[d], cont[d][2])'
      <4>1. later'[d] = later[d] + 1 /\ later[d] \in Nat
        BY <1>10, <2>1, <3>1, <3>3
      <4>2. LET keys == WithStored(row[r].keys, k)
            IN  later[d] + 1 < Len(keys) /\ keys[Len(keys) - (later[d] + 1)] = cont[d][2]
        BY <1>11, <2>1, <3>1, <3>3, <4>1, KeyShifts DEF KeyAt
      <4> QED
        BY <1>3, <3>3, <4>1, <4>2 DEF KeyAt
    <3> QED
      BY <3>2, <3>3
  <2> QED
    BY <1>3, <2>1 DEF Stored
<1>14. Single'
  <2>1. \A d \in Row : later[d] > MaxKeys => later'[d] > MaxKeys
    BY <1>10
  <2> QED
    BY <1>3, <2>1 DEF Inv, OfRows, Single
<1>4. OfRows' /\ Final'
  BY <1>2, <1>3, <1>13, <1>14, ChangeKeepsRows
<1>5. Down' /\ Pending' /\ LeftBehind' /\ ClaimsHeld'
  BY <1>1, <1>3, <1>12 DEF Inv, OfProcess, Down, Pending, KeyAt, LeftBehind, ClaimsHeld, Idle
<1>6. Launching'
  <2>1. launch \in Launch => /\ launch.row \in Row /\ launch.row # r /\ New(launch.row)
                             /\ launch.for # None => claim[launch.for] # None /\ launch.for \in Row
    BY <1>1 DEF Inv, Launch, OfProcess, Launching, New
  <2> QED
    BY <1>1, <1>3, <2>1 DEF Launching, New
<1>7. Stretch'
  BY <1>1, <1>3 DEF Stretch, Idle
<1>8. Unspent'
  <2>1. \A d, x \in Row : claim[x] # None /\ cont[d] # None /\ cont[d] = <<x, claim[x]>>
          => later[d] > MaxKeys
    BY <1>1 DEF Inv, OfProcess, Unspent, Idle
  <2>2. ASSUME NEW d \in Row, cont[d] # None, cont[d] = <<r, k>> PROVE later'[d] > MaxKeys
    <3>1. ~ (later[d] < MaxKeys)
      <4>1. SUFFICES ASSUME later[d] < MaxKeys PROVE k \in ToSet(row[r].keys)
        BY <1>1
      <4>2. KeyAt(r, later[d], k)
        BY <2>2, <4>1 DEF Inv, OfRows, Stored
      <4> QED
        BY <1>10, <1>11, <4>2 DEF KeyAt, ToSet
    <3> QED
      <4>1. cont[d] # None /\ cont[d][1] = r
        BY <2>2
      <4>2. later[d] \in Nat /\ later'[d] \in Nat /\ MaxKeys \in Nat /\ later'[d] >= later[d]
            /\ (later[d] <= MaxKeys => later'[d] = later[d] + 1)
        BY <1>10, <4>1
      <4> QED
        BY <3>1, <4>2
  <2>3. \A d \in Row : later[d] > MaxKeys => later'[d] > MaxKeys
    BY <1>10
  <2> QED
    BY <1>3, <2>1, <2>2, <2>3 DEF Unspent
<1>9. KnownToRows'
  <2>1. \A x \in Row : room.current \in Row /\ served[x] = room.current =>
          row[x].state = "cancelled" \/ (row[x].state = "running" /\ row[x].accepted = room.current)
    BY <1>1 DEF Inv, OfProcess, KnownToRows, Idle
  <2> QED
    BY <1>1, <1>3, <2>1 DEF KnownToRows
<1> QED
  BY <1>4, <1>5, <1>6, <1>7, <1>8, <1>9 DEF OfProcess

-----------------------------------------------------------------------------
(* The theorems *)

LEMMA InvIsClaimedLaunch == Inv => ClaimedLaunch
  BY DEF Inv, OfProcess, Launching, Stretch, ClaimedLaunch

LEMMA InvStep == Inv /\ [Next]_vars => Inv'
<1> SUFFICES ASSUME Inv, [Next]_vars PROVE Inv'
  OBVIOUS
<1>1. TypeOK /\ TypeOK'
  BY TypeStep, InvIsClaimedLaunch DEF Inv
<1>2. CASE UNCHANGED vars
  <2>1. UNCHANGED <<row, phase, room, claim, launch, sync, crashes, cont, later, served, closed>>
    BY <1>2 DEF vars
  <2>2. OfRows' /\ Final'
    BY <2>1 DEF Inv, OfRows, Unwritten, Refusals, Stored, Single, KeyAt, AcceptedIsTrue, Launched,
                RunningHasTurn, Final
  <2>3. OfProcess'
    <3>1. Down' /\ Pending' /\ Unspent'
      BY <2>1 DEF Inv, OfProcess, Down, Pending, KeyAt, Unspent
    <3>2. Launching'
      BY <2>1 DEF Inv, OfProcess, Launching, New
    <3>3. Stretch'
      BY <2>1 DEF Inv, OfProcess, Stretch, New
    <3>4. LeftBehind' /\ KnownToRows' /\ ClaimsHeld'
      BY <2>1 DEF Inv, OfProcess, LeftBehind, KnownToRows, ClaimsHeld
    <3> QED
      BY <3>1, <3>2, <3>3, <3>4 DEF OfProcess
  <2> QED
    BY <1>1, <2>2, <2>3 DEF Inv
<1>3. OfRows' /\ OfProcess' /\ Final'
  BY <1>1, <1>2, NextSteps, DeathInv, EndingInv, RoomOnlyInv, BlindInv, NewRowsInv, StartsInv, AckOwnInv,
     BindResumedInv, AckResumedInv, ResumeEndsInv, StartFailsInv, ClaimsInv DEF Inv
<1> QED
  BY <1>1, <1>3 DEF Inv

LEMMA Invariance == Spec => []Inv
  BY InvInit, InvStep, PTL DEF Spec

\* Every variable of the registry keeps its type.
THEOREM TypeCorrect == Spec => []TypeOK
<1>1. Inv => TypeOK
  BY DEF Inv
<1> QED
  BY <1>1, Invariance, PTL

\* At most one turn of a request is recorded, whatever its callers repeat and
\* however often the processes that serve it die (beginChatRunRecord): while the
\* registry is open it starts no second one.
THEOREM RequestStartsOnce == Spec => []LaunchedOnce
<1>1. ASSUME Inv PROVE LaunchedOnce
  <2>1. ASSUME NEW q \in Request
        PROVE  Cardinality({c \in Launched : row[c].request = q}) <= 1
    <3> DEFINE S == {c \in Launched : row[c].request = q}
    <3> SUFFICES Cardinality(S) <= 1
      OBVIOUS
    <3>1. \A c, d \in S : c = d
      BY <1>1 DEF Inv, OfRows, Refusals, Launched
    <3>2. S = {} \/ \E c \in S : S = {c}
      BY <3>1
    <3>3. Cardinality({}) = 0 /\ \A c : Cardinality({c}) = 1
      BY FS_EmptySet, FS_Singleton
    <3> HIDE DEF S
    <3> QED
      BY <3>2, <3>3
  <2> QED
    BY <2>1 DEF LaunchedOnce
<1> QED
  BY <1>1, Invariance, PTL

\* A key resumes a row again only after MaxKeys others have claimed it since,
\* across restarts (recovery-resume.ts, which stores so many keys).
THEOREM KeyResumesOnce == Spec => []KeyLaunchesOnce
<1>1. Inv => KeyLaunchesOnce
  BY DEF Inv, OfRows, Single, KeyLaunchesOnce, Launched
<1> QED
  BY <1>1, Invariance, PTL

\* The accepted turn of a row was started for it (recordExecutorAck).
THEOREM AcceptedTurnRan == Spec => []AcceptedIsTrue
<1>1. Inv => AcceptedIsTrue
  BY DEF Inv, OfRows
<1> QED
  BY <1>1, Invariance, PTL

\* Between two stretches rows and turns know each other (chat-run-recovery.ts).
THEOREM RowsAndTurnsMatch == Spec => []RowsMatchTurn
<1>1. Inv => RowsMatchTurn
  BY DEF Inv, OfProcess, LeftBehind, KnownToRows, RowsMatchTurn, Idle
<1> QED
  BY <1>1, Invariance, PTL

\* No claim of a dead process outlives the boot of the next (recovery-boot.ts).
THEOREM ClaimsEnd == Spec => []ClaimIsHeld
<1>1. Inv => ClaimIsHeld
  BY DEF Inv, OfProcess, ClaimsHeld, ClaimIsHeld, Idle
<1> QED
  BY <1>1, Invariance, PTL

\* A row whose turn completed, or that the user stopped, gets no other turn.
THEOREM NoTurnAfterEnd == Spec => ClosedStaysClosed
<1>1. ASSUME Inv, [Next]_vars PROVE [\A r \in closed : served'[r] = served[r]]_served
  <2>1. TypeOK /\ closed \subseteq Row /\ Final
    BY <1>1 DEF Inv, TypeOK
  <2>2. ASSUME NEW c \in Row, NEW x \in Row \cup {None}, StartTurn(c, x), New(c),
               x # None => claim[x] # None
        PROVE  \A r \in closed : served'[r] = served[r]
    <3>1. c \notin closed /\ x \notin closed
      BY <1>1, <2>1, <2>2, NoneIsNothing DEF New, Inv, OfProcess, Pending, Final
    <3> QED
      BY <2>1, <2>2, <3>1 DEF StartTurn
  <2>3. CASE RoomReady
    <3>1. launch.row \in Row /\ launch.for \in Row \cup {None} /\ New(launch.row)
          /\ (launch.for # None => claim[launch.for] # None)
      BY <1>1, <2>3 DEF RoomReady, Inv, Launch, OfProcess, Launching
    <3> QED
      BY <2>2, <2>3, <3>1 DEF RoomReady
  <2>4. CASE PromptStarts
    <3>1. sync.row \in Row /\ New(sync.row)
      BY <1>1, <2>4 DEF PromptStarts, Inv, TypeOK, Stretches, OfProcess, Stretch
    <3> QED
      BY <2>2, <2>4, <3>1 DEF PromptStarts
  <2>5. CASE Death
    BY <2>1, <2>5, DeathEffect DEF history
  <2>6. CASE Ending
    BY <2>1, <2>6, EndingEffect
  <2>7. CASE NewRows
    BY <2>7, NewRowsEffect DEF Starts, Prompts, history
  <2>8. CASE RoomOnly \/ Blind \/ AckOwn \/ BindResumed \/ AckResumed \/ ResumeFails
    BY <2>8 DEF RoomOnly, Blind, StartBlind, BlindStarts, BlindFails, PromptUnrecorded, OpenRoom, CloseRoom, Listen, AckOwn, BindResumed,
                AckResumed, ResumeFails, GiveBackClaim, history
  <2>9. CASE \/ \E known \in BOOLEAN : StartFails(known)
             \/ \E r \in Row, k \in Key : Claims(r, k)
             \/ \E r \in Row : ResumeRefused(r)
    BY <2>9 DEF StartFails, Claims, Claim, ResumeRefused, GiveBackClaim, history
  <2>10. CASE UNCHANGED vars
    BY <2>10 DEF vars
  <2> QED
    BY <1>1, <2>1, <2>3, <2>4, <2>5, <2>6, <2>7, <2>8, <2>9, <2>10, NextSteps
<1> QED
  BY <1>1, Invariance, PTL DEF Spec, ClosedStaysClosed
=============================================================================
