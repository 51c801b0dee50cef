--------------------------- MODULE CameraLifecycle ---------------------------
(***************************************************************************)
(* What apps/visora/main.cpp makes of the parts: the camera service, its   *)
(* rows, the stream manager and the callbacks between them.                *)
(*                                                                         *)
(* A request runs in a thread of the HTTP server and calls one part after  *)
(* another: the store, then stream manager, recording manager and AI       *)
(* runtime through CameraEvents.  The stream manager's worker reports what *)
(* it found through a callback that calls the store, the websocket feed,   *)
(* the recording manager and the AI runtime.  Every call is a step, for    *)
(* each of them takes a lock of its own.                                   *)
(*                                                                         *)
(* The recording manager and the AI runtime are reduced to what they were  *)
(* told and what they build from it; Recorder and AiRuntime have the rest. *)
(***************************************************************************)
EXTENDS StreamManager, CameraRows, FiniteSets

CONSTANTS Http,        (* threads of the HTTP server                         *)
          Asks,        (* bound: the requests each of them may be given      *)
          Creations,   (* what a create request may carry                    *)
          Edits,       (* what an update request may carry                   *)
          MaxRequests, (* bound: requests                                    *)
          MaxCrashes   (* bound: times the process dies and is started again *)

Requests == {"create", "update", "remove", "start", "stop", "restart"}

ASSUME LifecycleAssumption ==
  /\ "worker" \notin Http /\ Asks \in [Http -> SUBSET Requests] /\ None \notin Urls
  /\ MaxRequests \in Nat /\ MaxCrashes \in Nat

VARIABLES rows,      (* the store                                            *)
          thread,    (* what each thread is doing, and the locals it carries *)
          recorder,  (* m_entries of the recording manager                   *)
          ai,        (* m_cameras of the AI runtime                          *)
          saving,    (* cameras whose motion events are stored               *)
          feed,      (* m_lastByCamera of the websocket feed                 *)
          phase,     (* restoring, up, or a step of the shutdown             *)
          toRestore, (* cameras main has still to apply                      *)
          contested, (* history: cameras two calls met on                    *)
          removed,   (* history: cameras remove() has torn down, and those   *)
                     (* of them a crash has come after                       *)
          spent      (* bound: requests and crashes                          *)

parts == <<recorder, ai, saving, feed>>
process == <<phase, toRestore, removed, spent>>
lifeVars == <<vars, rows, thread, parts, process, contested>>
Others == <<rows, parts, process, contested>>

Threads == Http \cup {"worker"}
Nothing == <<>>
Idle == [at |-> "idle", c |-> 0, op |-> "none", changes |-> Nothing, row |-> NoRow,
         live |-> FALSE, state |-> "Offline", desired |-> TRUE]

Goto(t, next) == thread' = [thread EXCEPT ![t].at = next]
Done(t) == thread' = [thread EXCEPT ![t] = Idle]

LifeInit ==
  /\ Init
  /\ rows \in [Cameras -> {NoRow} \cup
                 {Inserted(Created(changes)) : changes \in {x \in Creations : ValidForCreate(x)}}]
  /\ thread = [t \in Threads |-> Idle]
  /\ recorder = [c \in Cameras |-> Nothing] /\ ai = [c \in Cameras |-> Nothing]
  /\ saving = {} /\ feed = [c \in Cameras |-> Nothing]
  /\ phase = "restoring" /\ toRestore = {c \in Cameras : rows[c] # NoRow}
  /\ contested = {}
  /\ removed = [c \in Cameras |-> "no"]
  /\ spent = [requests |-> 0, crashes |-> 0]

-----------------------------------------------------------------------------
(* The parts, as a caller sees them.                                       *)

ShouldRecord(camera) == camera.recordingMode # "off" \/ camera.recordingEnabled
EffectiveMode(camera) ==
  IF camera.recordingMode = "off" THEN "continuous" ELSE camera.recordingMode

(* RecordingManager::apply(): a session waits for the codec, and one that  *)
(* records already goes on until there is a reason to rebuild it.          *)
Built(camera) == [source |-> camera.rtsp, mode |-> EffectiveMode(camera),
                  seconds |-> camera.segmentSeconds]
RecorderTold(entry, camera, live) ==
  LET session == IF entry = Nothing THEN Nothing ELSE entry.session
  IN  [told |-> camera,
       session |-> IF ~ ShouldRecord(camera) THEN Nothing
                   ELSE IF live THEN Built(camera) ELSE session]
ApplyRecording(camera, c, live) ==
  recorder' = [recorder EXCEPT ![c] = RecorderTold(@, camera, live)]

(* AiRuntime::applyCamera(): the detector is on the decoder of a camera    *)
(* whose codec is known.                                                   *)
ApplyAi(camera, c, live) ==
  ai' = [ai EXCEPT ![c] = [told |-> camera, live |-> live]]
SetSaving(camera, c) ==
  saving' = IF camera.motionSaveEvents THEN saving \cup {c} ELSE saving \ {c}

(* broadcast(): nothing is sent twice.                                     *)
Push(c, state, desired) == feed' = [feed EXCEPT ![c] = <<state, desired>>]

(* statusOf(): what the manager says of a camera, if it knows it.          *)
Live(c) == c \in Managed /\ sessions[c].state = "Online"

-----------------------------------------------------------------------------
(* Two calls meet on a camera when one begins while the other is under way *)
(* there; a camera the worker has taken up or owes a report for may be     *)
(* changed, but not moved, stopped, started or removed, without meeting it. *)
Busy(c) == {t \in Threads : thread[t].at # "idle" /\ thread[t].c = c}
InService(c) == Working(c) \/ \E i \in 1 .. Len(toReport) : toReport[i][1] = c
Reopens(op, changes) ==
  op \notin {"create", "update"} \/ DOMAIN changes \cap {"rtsp", "hardware"} # {}
Meets(c) == \E t \in Busy(c) : Reopens(thread[t].op, thread[t].changes)

(* A request begins.  list() and get() change nothing and are left out;    *)
(* a request whose body does not validate is answered at once.             *)
Begin(t, op, c, changes, first) ==
  /\ phase = "up" /\ thread[t].at = "idle" /\ op \in Asks[t] /\ spent.requests < MaxRequests
  /\ spent' = [spent EXCEPT !.requests = @ + 1]
  /\ thread' = [thread EXCEPT ![t] =
                  [Idle EXCEPT !.at = first, !.op = op, !.c = c, !.changes = changes]]
  /\ contested' = IF Busy(c) # {} \/ (Reopens(op, changes) /\ InService(c))
                   THEN contested \cup {c} ELSE contested
  /\ UNCHANGED <<vars, rows, parts, phase, toRestore, removed>>

(* CameraService::create(): an id is never given twice.                    *)
Create(t, c, changes) ==
  /\ ValidForCreate(changes) /\ rows[c] = NoRow /\ removed[c] = "no"
  /\ c \notin Managed /\ \A u \in Threads : thread[u].c # c
  /\ feed[c] = Nothing /\ recorder[c] = Nothing
  /\ Begin(t, "create", c, changes, "insert")
Insert(t) ==
  /\ thread[t].at = "insert"
  /\ LET c == thread[t].c
         camera == Created(thread[t].changes)
     IN  /\ rows' = [rows EXCEPT ![c] = Inserted(camera)]
         /\ thread' = [thread EXCEPT ![t].at = "streams", ![t].row = Inserted(camera)]
  /\ UNCHANGED <<vars, parts, process, contested>>

(* CameraService::update() and remove(), CameraRuntime::start(), stop()    *)
(* and restart(): the row first.                                           *)
Update(t, c, changes) ==
  /\ ValidForUpdate(changes)
  /\ Begin(t, "update", c, changes, "read")
Ask(t, op, c) ==
  /\ op \in Requests \ {"create", "update"} /\ Begin(t, op, c, Nothing, "read")

(* remove() deletes the row before anything that runs for it is torn down. *)
TearsDownFirst == <<"streams", "delete", "recorder", "runtime", "clients">>  \* mutant
RemovalOrder == <<"delete", "streams", "recorder", "runtime", "clients">>
AfterRead(op) == CASE op = "update" -> "store" [] op = "remove" -> RemovalOrder[1]
                   [] OTHER -> "streams"
NextRemoval(t) ==
  LET done == CHOOSE i \in 1 .. 5 : RemovalOrder[i] = thread[t].at
  IN  IF done = 5 THEN Done(t) ELSE Goto(t, RemovalOrder[done + 1])

Read(t) ==
  /\ thread[t].at = "read"
  /\ LET row == rows[thread[t].c]
     IN  IF row = NoRow THEN Done(t)
         ELSE thread' = [thread EXCEPT ![t].at = AfterRead(thread[t].op), ![t].row = row]
  /\ UNCHANGED <<vars, Others>>

(* The copy that was read is changed and stored; what has changed decides  *)
(* who is told.                                                            *)
DiffOf(t) == Diff(thread[t].changes, thread[t].row.camera)
TellsTheRest(t) == RecordingChanged(DiffOf(t)) \/ SourceChanged(DiffOf(t))
TellsTheAi(t)   == MotionChanged(DiffOf(t)) \/ SourceChanged(DiffOf(t))

Store(t) ==
  /\ thread[t].at = "store"
  /\ LET c == thread[t].c
         camera == Changed(thread[t].changes, thread[t].row.camera)
     IN  /\ rows' = [rows EXCEPT ![c] = Updated(@, camera, thread[t].row.state)]
         /\ IF rows[c] = NoRow \/ CosmeticOnly(DiffOf(t)) THEN Done(t) ELSE Goto(t, "status")
  /\ UNCHANGED <<vars, parts, process, contested>>

(* events.changed                                                          *)
NeverLive(t) == FALSE  \* mutant: the codec of a running camera is not handed on
StillLive(t) == ~ SourceChanged(DiffOf(t)) /\ Live(thread[t].c)
NewCamera(t) == Changed(thread[t].changes, thread[t].row.camera)

Status(t) ==
  /\ thread[t].at = "status" /\ worker # "scanning"
  /\ thread' = [thread EXCEPT ![t].at = "recording", ![t].live = StillLive(t)]
  /\ UNCHANGED <<vars, Others>>

TellRecording(t) ==
  /\ thread[t].at = "recording" /\ Goto(t, "ai")
  /\ IF TellsTheRest(t) THEN ApplyRecording(NewCamera(t), thread[t].c, thread[t].live)
                        ELSE UNCHANGED recorder
  /\ UNCHANGED <<vars, rows, ai, saving, feed, process, contested>>

TellAi(t) ==
  /\ thread[t].at = "ai" /\ Goto(t, "saving")
  /\ IF TellsTheAi(t) THEN ApplyAi(NewCamera(t), thread[t].c, thread[t].live)
                      ELSE UNCHANGED ai
  /\ UNCHANGED <<vars, rows, recorder, saving, feed, process, contested>>

TellSaving(t) ==
  /\ thread[t].at = "saving"
  /\ IF TellsTheAi(t) THEN SetSaving(NewCamera(t), thread[t].c) ELSE UNCHANGED saving
  /\ IF TellsTheRest(t) THEN Goto(t, "streams") ELSE Done(t)
  /\ UNCHANGED <<vars, rows, recorder, ai, feed, process, contested>>

(* The stream manager is told last of a change, first of a removal.        *)
ToldCamera(t) == IF thread[t].op = "create" THEN thread[t].row.camera ELSE NewCamera(t)

TellStreams(t) ==
  /\ thread[t].at = "streams" /\ thread[t].op \in {"create", "update"} /\ Done(t)
  /\ Apply(thread[t].c, ToldCamera(t).rtsp, ToldCamera(t).hardware)
  /\ UNCHANGED Others

(* start, stop and restart of a camera the manager does not have, and a    *)
(* start of one that is wanted already, do nothing.                        *)
Order(op, c) ==
  CASE op = "start" -> StartStream(c) [] op = "stop" -> StopStream(c)
    [] op = "restart" -> RestartStream(c)
DoesNothing(op, c) == c \notin Managed \/ (op = "start" /\ sessions[c].desired)

OrderStream(t) ==
  /\ thread[t].at = "streams" /\ thread[t].op \in {"start", "stop", "restart"}
  /\ LET c == thread[t].c
         op == thread[t].op
     IN  IF DoesNothing(op, c) THEN worker # "scanning" /\ Done(t) /\ UNCHANGED vars
         ELSE /\ Order(op, c)
              /\ IF op = "stop" /\ sessions[c].desired THEN Goto(t, "owes") ELSE Done(t)
  /\ UNCHANGED Others

(* remove(): an id the store does not know ends it, where the store says so. *)
Removing(t, step) == thread[t].at = step /\ thread[t].op = "remove"

DeleteRow(t) ==
  /\ Removing(t, "delete") /\ rows' = [rows EXCEPT ![thread[t].c] = NoRow]
  /\ IF rows[thread[t].c] = NoRow /\ ~ Postgres THEN Done(t) ELSE NextRemoval(t)
  /\ UNCHANGED <<vars, parts, process, contested>>
RemoveStream(t) ==
  /\ Removing(t, "streams") /\ NextRemoval(t)
  /\ IF thread[t].c \in Managed THEN Remove(thread[t].c)
                                ELSE worker # "scanning" /\ UNCHANGED vars
  /\ removed' = [removed EXCEPT ![thread[t].c] = "torn"]
  /\ UNCHANGED <<rows, parts, phase, toRestore, spent, contested>>
RemoveRecording(t) ==
  /\ Removing(t, "recorder") /\ NextRemoval(t)
  /\ recorder' = [recorder EXCEPT ![thread[t].c] = Nothing]
  /\ UNCHANGED <<vars, rows, ai, saving, feed, process, contested>>
RemoveAi(t) ==
  /\ Removing(t, "runtime") /\ NextRemoval(t)
  /\ ai' = [ai EXCEPT ![thread[t].c] = Nothing]
  /\ UNCHANGED <<vars, rows, recorder, saving, feed, process, contested>>
RemoveFeed(t) ==
  /\ Removing(t, "clients") /\ NextRemoval(t)
  /\ feed' = [feed EXCEPT ![thread[t].c] = Nothing]
  /\ UNCHANGED <<vars, rows, recorder, ai, saving, process, contested>>

-----------------------------------------------------------------------------
(* The status callback, in the worker or in the thread that stopped.       *)
PushesFirst   == <<"push", "write", "fetch">>  \* mutant: clients hear of it before the store
CallbackOrder == <<"write", "push", "fetch">>
NextOfCallback(t) == Goto(t, CallbackOrder[1 + CHOOSE i \in 1 .. 2 : CallbackOrder[i] = thread[t].at])

Called(c, state, desired, op) ==
  [Idle EXCEPT !.at = CallbackOrder[1], !.op = op, !.c = c, !.state = state, !.desired = desired]

WorkerReports ==
  /\ thread["worker"].at = "idle" /\ Report
  /\ thread' = IF toReport = <<>> THEN thread
               ELSE [thread EXCEPT !["worker"] =
                       Called(Head(toReport)[1], Head(toReport)[2], TRUE, "report")]
  /\ contested' = contested \cup
       {c \in Cameras : toReport # <<>> /\ c = Head(toReport)[1] /\ Busy(c) # {}}
  /\ UNCHANGED <<rows, parts, process>>
StopperReports(t) ==
  /\ thread[t].at = "owes" /\ ReportStop(thread[t].c)
  /\ thread' = [thread EXCEPT ![t] = Called(thread[t].c, "Offline", FALSE, "stop")]
  /\ UNCHANGED Others

WriteRow(t) ==
  /\ thread[t].at = "write" /\ NextOfCallback(t)
  /\ rows' = [rows EXCEPT ![thread[t].c] = RuntimeUpdated(@, thread[t].state)]
  /\ UNCHANGED <<vars, parts, process, contested>>
PushState(t) ==
  /\ thread[t].at = "push" /\ NextOfCallback(t)
  /\ Push(thread[t].c, thread[t].state, thread[t].desired)
  /\ UNCHANGED <<vars, rows, recorder, ai, saving, process, contested>>
Fetch(t) ==
  /\ thread[t].at = "fetch"
  /\ IF rows[thread[t].c] = NoRow THEN Done(t)
     ELSE thread' = [thread EXCEPT ![t].at = "report-recording",
                                   ![t].row = rows[thread[t].c],
                                   ![t].live = thread[t].state = "Online"]
  /\ UNCHANGED <<vars, Others>>
ReportRecording(t) ==
  /\ thread[t].at = "report-recording" /\ Goto(t, "report-ai")
  /\ ApplyRecording(thread[t].row.camera, thread[t].c, thread[t].live)
  /\ UNCHANGED <<vars, rows, ai, saving, feed, process, contested>>
ReportAi(t) ==
  /\ thread[t].at = "report-ai" /\ Goto(t, "report-saving")
  /\ ApplyAi(thread[t].row.camera, thread[t].c, thread[t].live)
  /\ UNCHANGED <<vars, rows, recorder, saving, feed, process, contested>>
ReportSaving(t) ==
  /\ thread[t].at = "report-saving" /\ Done(t)
  /\ SetSaving(thread[t].row.camera, thread[t].c)
  /\ UNCHANGED <<vars, rows, recorder, ai, feed, process, contested>>

(* The rest of the worker's pass, and time.                                *)
TakeUp(c) ==
  /\ Take(c) /\ contested' = IF Meets(c) THEN contested \cup {c} ELSE contested
  /\ UNCHANGED <<thread, rows, parts, process>>
WorkerStep ==
  /\ WakeUp \/ Advance \/ WriteBack \/ EndScan
  /\ thread["worker"].at = "idle" /\ UNCHANGED <<thread, Others>>
Tick(c) == Due(c) /\ UNCHANGED <<thread, Others>>

-----------------------------------------------------------------------------
(* The shutdown: the server lets its requests finish; the AI runtime, the  *)
(* recording manager and, last, the stream manager are stopped.            *)
ServerStops ==
  /\ phase = "up" /\ phase' = "server-stopped" /\ \A t \in Http : thread[t].at = "idle"
  /\ UNCHANGED <<vars, rows, thread, parts, toRestore, removed, spent, contested>>
AiStops ==
  /\ phase = "server-stopped" /\ phase' = "ai-stopped"
  /\ ai' = [c \in Cameras |-> Nothing]
  /\ UNCHANGED <<vars, rows, thread, recorder, saving, feed, toRestore, removed, spent,
                 contested>>
RecordingStops ==
  /\ phase = "ai-stopped" /\ phase' = "recording-stopped"
  /\ recorder' = [c \in Cameras |-> Nothing]
  /\ UNCHANGED <<vars, rows, thread, ai, saving, feed, toRestore, removed, spent, contested>>
StreamsStop ==
  /\ phase = "recording-stopped" /\ thread["worker"].at = "idle" /\ Stop /\ phase' = "down"
  /\ UNCHANGED <<rows, thread, parts, toRestore, removed, spent, contested>>

(* The process dies; what comes back is what the store kept.               *)
Crash ==
  /\ phase \in {"up", "restoring"} /\ spent.crashes < MaxCrashes
  /\ spent' = [spent EXCEPT !.crashes = @ + 1]
  /\ rows' = IF Postgres THEN rows ELSE [c \in Cameras |-> NoRow]
  /\ phase' = "restoring" /\ toRestore' = {c \in Cameras : rows'[c] # NoRow}
  /\ removed' = [c \in Cameras |-> IF removed[c] = "no" THEN "no" ELSE "buried"]
  /\ thread' = [t \in Threads |-> Idle] /\ saving' = {} /\ contested' = {}
  /\ recorder' = [c \in Cameras |-> Nothing] /\ ai' = [c \in Cameras |-> Nothing]
  /\ feed' = [c \in Cameras |-> Nothing]
  /\ sessions' = [c \in Cameras |-> NoSession] /\ mount' = [c \in Cameras |-> None]
  /\ worker' = "asleep" /\ at' = 0 /\ copy' = NoSession /\ dangling' = FALSE
  /\ toReport' = <<>> /\ owed' = {} /\ reported' = [c \in Cameras |-> "Offline"]
  /\ calls' = 0 /\ running' = TRUE

Restore(c) ==
  /\ phase = "restoring" /\ c \in toRestore /\ toRestore' = toRestore \ {c}
  /\ Apply(c, rows[c].camera.rtsp, rows[c].camera.hardware)
  /\ SetSaving(rows[c].camera, c)
  /\ UNCHANGED <<rows, thread, recorder, ai, feed, phase, removed, spent, contested>>
Restored ==
  /\ phase = "restoring" /\ toRestore = {} /\ phase' = "up"
  /\ UNCHANGED <<vars, rows, thread, parts, toRestore, removed, spent, contested>>

-----------------------------------------------------------------------------
CallbackStep(t) == \/ WriteRow(t) \/ PushState(t) \/ Fetch(t)
                   \/ ReportRecording(t) \/ ReportAi(t) \/ ReportSaving(t)
RequestStep(t) ==
  \/ Insert(t) \/ Read(t) \/ Store(t) \/ Status(t)
  \/ TellRecording(t) \/ TellAi(t) \/ TellSaving(t) \/ TellStreams(t) \/ OrderStream(t)
  \/ DeleteRow(t) \/ RemoveStream(t) \/ RemoveRecording(t) \/ RemoveAi(t) \/ RemoveFeed(t)
  \/ StopperReports(t)
WorkerPass == WorkerReports \/ WorkerStep \/ \E c \in Cameras : TakeUp(c)

LifeNext ==
  \/ \E t \in Http : RequestStep(t)
  \/ \E t \in Http, c \in Cameras :
       \/ \E changes \in Creations : Create(t, c, changes)
       \/ \E changes \in Edits : Update(t, c, changes)
       \/ \E op \in Requests : Ask(t, op, c)
  \/ \E t \in Threads : CallbackStep(t)
  \/ WorkerPass \/ \E c \in Cameras : Tick(c)
  \/ ServerStops \/ AiStops \/ RecordingStops \/ StreamsStop
  \/ Crash \/ Restored \/ \E c \in Cameras : Restore(c)

LifeSpec == LifeInit /\ [][LifeNext]_lifeVars
LifeFairSpec ==
  /\ LifeSpec /\ WF_lifeVars(WorkerPass)
  /\ \A t \in Threads : WF_lifeVars(CallbackStep(t))
  /\ \A c \in Cameras : WF_lifeVars(Tick(c))

-----------------------------------------------------------------------------
LifeTypeOK ==
  /\ TypeOK /\ phase \in {"up", "restoring", "server-stopped", "ai-stopped",
                         "recording-stopped", "down"}
  /\ \A c \in Cameras : rows[c] # NoRow => rows[c].state \in States
  /\ saving \subseteq Cameras /\ contested \subseteq Cameras /\ toRestore \subseteq Cameras
  /\ removed \in [Cameras -> {"no", "torn", "buried"}]

(* Nothing is under way and nothing is due.                                *)
AtRest ==
  /\ phase = "up" /\ worker = "asleep" /\ toReport = <<>>
  /\ \A t \in Threads : thread[t].at = "idle"
  /\ \A c \in Managed : sessions[c].due # "now"

(* Whoever called what, once it has settled and no two calls have met on a *)
(* camera, all parts have the row the store has: it is streamed from the   *)
(* address it has, its state is that of the session and was pushed; while  *)
(* online it is recorded as the row says and watched by the AI runtime     *)
(* with a known codec; switched off it is not recorded; and of a removed   *)
(* one nothing is left.                                                    *)
Agrees(c) ==
  IF rows[c] = NoRow
  THEN /\ c \notin Managed /\ mount[c] = None /\ recorder[c] = Nothing
       /\ ai[c] = Nothing /\ feed[c] = Nothing
  ELSE LET camera == rows[c].camera
           online == sessions[c].state = "Online"
       IN  /\ c \in Managed /\ sessions[c].source = camera.rtsp
           /\ sessions[c].hardware = camera.hardware
           /\ Postgres => rows[c].state = sessions[c].state
           /\ feed[c] # Nothing => feed[c] = <<sessions[c].state, sessions[c].desired>>
           /\ ~ ShouldRecord(camera) /\ recorder[c] # Nothing => recorder[c].session = Nothing
           /\ online => /\ mount[c] = camera.rtsp
                        /\ ShouldRecord(camera) => recorder[c].session = Built(camera)
                        /\ ai[c].live /\ ai[c].told.motionEnabled = camera.motionEnabled
                        /\ ai[c].told.motionZones = camera.motionZones
SettledPartsAgree == AtRest => \A c \in Cameras \ contested : Agrees(c)

(* A restart does not bring back a camera that was removed: the row goes   *)
(* first, so wherever the process dies, what was torn down has no row.     *)
BuriedStaysBuried ==
  \A c \in Cameras : removed[c] = "buried" => rows[c] = NoRow /\ c \notin Managed

(* The push comes after the write: a client that is told of a state and    *)
(* fetches the camera finds that state, unless it was changed or removed   *)
(* by somebody else since.                                                 *)
PushAfterWrite ==
  [][\A t \in Threads : LET c == thread[t].c IN
       PushState(t) /\ Busy(c) = {t} /\ c \notin contested /\ Postgres =>
         rows[c] = NoRow \/ rows[c].state = feed'[c][1]]_lifeVars

-----------------------------------------------------------------------------
(* What comments say and the wiring does not do.                           *)

(* "Recording hears about every change": what it keeps of the row, the     *)
(* retention and the pre-roll included, is what the row says.              *)
RecordingHearsEveryChange ==
  AtRest => \A c \in Cameras \ contested :
    rows[c] # NoRow /\ recorder[c] # Nothing => recorder[c].told = rows[c].camera

(* Whether motion events are stored is what the row says.                  *)
SavingFollowsTheRow ==
  AtRest => \A c \in Cameras \ contested :
    rows[c] # NoRow => (c \in saving) = rows[c].camera.motionSaveEvents

(* An edit does not collide with what the pipeline reported.               *)
EditKeepsTheState ==
  [][\A t \in Http : Store(t) /\ rows[thread[t].c] # NoRow =>
       rows'[thread[t].c].state = rows[thread[t].c].state]_lifeVars

(* Nothing records once the shutdown is over.                              *)
DownRecordsNothing == phase = "down" => \A c \in Cameras : recorder[c] = Nothing
=============================================================================
