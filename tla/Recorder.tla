------------------------------ MODULE Recorder ------------------------------
(***************************************************************************)
(* media/recording: RecordingManager, RecordingSession and gst/BusWatcher, *)
(* with the segment rows of the repository, for one camera.                *)
(*                                                                         *)
(* Threads: callers of apply() and remove() (HTTP handlers, the stream     *)
(* manager's reports), the main thread (stop()), the sweep worker, and one *)
(* bus watcher per session.  splitmuxsink is the environment: it writes    *)
(* files and posts messages.  m_mutex is a variable because stopping a     *)
(* session joins a thread that takes it; every other critical section is a *)
(* single step that needs it free.                                         *)
(*                                                                         *)
(* The gate is what MotionGate proves it to be: while it remembers an      *)
(* event it does not drop a segment the event surely covers, and it does   *)
(* not forget an event before such a segment is decided, provided closed   *)
(* segments reach it within the pre-roll.  Which of the others it drops    *)
(* depends on times left out here.                                         *)
(***************************************************************************)
EXTENDS Integers, FiniteSets, Sequences

CONSTANTS Callers,     (* threads that call apply() and remove()             *)
          Main,        (* the thread that calls stop()                       *)
          Nobody,      (* no thread                                          *)
          Cameras,     (* versions of the camera's row callers may pass      *)
          MaxSessions, (* sessions built                                     *)
          MaxFiles,    (* segment files written                              *)
          MaxCalls,    (* apply() and remove() calls                         *)
          Removes,     (* whether remove() is called                         *)
          Stops,       (* whether stop() is called                           *)
          Failures     (* whether pipelines, sources, rows and drains fail   *)

ASSUME RecorderAssumption ==
  /\ Main \notin Callers /\ Nobody \notin Callers \cup {Main}
  /\ MaxSessions \in Nat /\ MaxFiles \in Nat /\ MaxCalls \in Nat
  /\ {Removes, Stops, Failures} \subseteq BOOLEAN

Threads  == Callers \cup {Main}
Sessions == 1 .. MaxSessions
Files    == 1 .. MaxFiles
Modes    == {"off", "continuous", "motion"}

(* A camera's row, as far as recording reads it.  shape stands for the URL *)
(* and the segment length, which only matter by being changed or not.      *)
Camera == [shape : 0 .. 2, mode : Modes, enabled : BOOLEAN, expires : BOOLEAN]
NoCamera == [shape |-> 0, mode |-> "off", enabled |-> FALSE, expires |-> FALSE]

ASSUME CamerasAreRows == Cameras \subseteq Camera

VARIABLES
  entry,       (* m_entries[id]: {} or one record in a set                   *)
  applying,    (* the owner of m_applyMutex                                  *)
  mutex,       (* the owner of m_mutex across steps                          *)
  thread,      (* where each thread is, and the locals it carries            *)
  worker,      (* the sweep worker                                           *)
  running,     (* m_running                                                  *)
  session,     (* every RecordingSession ever built                          *)
  madeBy,      (* history: the session that wrote each file, 0 if unused     *)
  rows,        (* status of each file's row                                  *)
  disk,        (* files that exist                                           *)
  asked,       (* history: files a noted event surely covers, as long as it  *)
               (* does                                                       *)
  kept, dropped, (* history: the gates' decisions                            *)
  abandoned,   (* history: sessions whose last file nobody will report       *)
  removed,     (* history: remove() has taken the entry away                 *)
  calls        (* history: calls made                                        *)

vars == <<entry, applying, mutex, thread, worker, running, session, madeBy,
          rows, disk, asked, kept, dropped, abandoned, removed, calls>>

sessionVars == <<session, madeBy, rows, disk, abandoned>>
historyVars == <<asked, kept, dropped, removed, calls>>

-----------------------------------------------------------------------------
NoGate  == [held |-> {}, saves |-> {}, hot |-> FALSE, present |-> FALSE]
NewGate == [held |-> {}, saves |-> {}, hot |-> FALSE, present |-> TRUE]

NewEntry == [camera |-> NoCamera, session |-> 0, gate |-> NoGate,
             builtShape |-> 0, builtMode |-> "off"]

NewSession == [phase |-> "unused", mode |-> "off", writing |-> 0, open |-> {},
               bus |-> <<>>, storing |-> 0, drained |-> FALSE, broken |-> FALSE]

Idle == [at |-> "idle", camera |-> NoCamera, known |-> FALSE, victim |-> 0,
         build |-> FALSE, gate |-> NoGate]

Present == entry # {}
TheEntry == CHOOSE e \in entry : TRUE
EntryOrNew == IF Present THEN TheEntry ELSE NewEntry

Fresh == {f \in Files : madeBy[f] = 0}
NextFile == CHOOSE f \in Fresh : \A g \in Fresh : f <= g

-----------------------------------------------------------------------------
(* shouldRecord: enabled with the mode left at off means continuous.       *)
ShouldRecord(cam) == cam.shape # 0 /\ (cam.mode # "off" \/ cam.enabled)

EffectiveMode(cam) == IF cam.mode = "off" THEN "continuous" ELSE cam.mode

NeedsRestart(cam, e) == cam.shape # e.builtShape \/ cam.mode # e.builtMode

(* Phase 1 of apply(): what becomes of the entry, which session is taken   *)
(* out to be stopped, and whether a new one is to be built.                *)
Decision(e, cam, known) ==
  LET seen == [e EXCEPT !.camera = cam]
      asItIs == [entry |-> seen, victim |-> 0, build |-> FALSE]
  IN  IF ~ ShouldRecord(cam)
      THEN IF e.session = 0 THEN asItIs
           ELSE [entry |-> [seen EXCEPT !.session = 0, !.builtShape = 0],
                 victim |-> e.session, build |-> FALSE]
      ELSE IF ~ known \/ (e.session # 0 /\ ~ NeedsRestart(cam, e)) THEN asItIs
      ELSE [entry |-> [seen EXCEPT !.session = 0],
            victim |-> e.session, build |-> TRUE]

(* Which of the segments a gate resolves it throws away: those no event it *)
(* remembers covers (anyEventCovers); without an event, all of them.       *)
Droppable(gate, due) ==
  {D \in SUBSET (due \ gate.saves) : gate.hot \/ D = due \ gate.saves}

-----------------------------------------------------------------------------
Init ==
  /\ entry = {} /\ applying = Nobody /\ mutex = Nobody
  /\ thread = [t \in Threads |-> Idle]
  /\ worker = [at |-> "wait", batch |-> {}, expire |-> FALSE]
  /\ running = TRUE
  /\ session = [s \in Sessions |-> NewSession]
  /\ madeBy = [f \in Files |-> 0] /\ rows = [f \in Files |-> "none"] /\ disk = {}
  /\ asked = {} /\ kept = {} /\ dropped = {} /\ abandoned = {}
  /\ removed = FALSE /\ calls = 0

-----------------------------------------------------------------------------
(* apply(camera, codec) and remove(cameraId).                              *)

CallApply(t) ==
  /\ thread[t].at = "idle" /\ calls < MaxCalls
  /\ calls' = calls + 1
  /\ \E cam \in Cameras, known \in BOOLEAN :
       thread' = [thread EXCEPT ![t] =
                    [Idle EXCEPT !.at = "enter", !.camera = cam, !.known = known]]
  /\ UNCHANGED <<entry, applying, mutex, worker, running, sessionVars,
                 asked, kept, dropped, removed>>

(* Whether m_mutex is still held when the session is stopped.              *)
HeldWhileStopping(t, d) == IF d.victim # 0 THEN t ELSE Nobody  \* mutant
MutexWhileStopping(t, d) == Nobody

AnybodyMayApply(t) == TRUE  \* mutant: apply() without m_applyMutex
MayApply(t) == applying = Nobody

Decide(t) ==
  /\ thread[t].at = "enter" /\ MayApply(t) /\ mutex = Nobody
  /\ LET d == Decision(EntryOrNew, thread[t].camera, thread[t].known)
         at == IF d.victim # 0 THEN "stopping" ELSE IF d.build THEN "build" ELSE "idle"
     IN  /\ entry' = {d.entry}
         /\ applying' = IF at = "idle" THEN applying ELSE t
         /\ mutex' = MutexWhileStopping(t, d)
         /\ thread' = [thread EXCEPT ![t] =
              IF at = "idle" THEN Idle
              ELSE [@ EXCEPT !.at = at, !.victim = d.victim, !.build = d.build]]
  /\ UNCHANGED <<worker, running, sessionVars, historyVars>>

(* Phase 2 of apply(): the entry is looked up again, the source acquired,  *)
(* the gate replaced, the session started.                                 *)
GateAfterBuild(old) == NewGate

Build(t) ==
  /\ thread[t].at = "build" /\ mutex \in {Nobody, t}
  /\ LET cam == thread[t].camera
         e == EntryOrNew
         unused == {s \in Sessions : session[s].phase = "unused"}
     IN  \/ /\ unused # {}
            /\ LET s == CHOOSE s \in unused : \A r \in unused : s <= r
               IN  /\ session' = [session EXCEPT ![s].phase = "running",
                                                 ![s].mode = EffectiveMode(cam)]
                   /\ entry' = {[e EXCEPT !.session = s,
                                          !.gate = GateAfterBuild(e.gate),
                                          !.builtShape = cam.shape,
                                          !.builtMode = EffectiveMode(cam)]}
         \/ /\ Failures  \* no source
            /\ entry' = {e} /\ UNCHANGED session
         \/ /\ Failures  \* the pipeline does not start
            /\ entry' = {[e EXCEPT !.gate = GateAfterBuild(e.gate)]}
            /\ UNCHANGED session
  /\ thread' = [thread EXCEPT ![t] = Idle]
  /\ applying' = Nobody /\ mutex' = Nobody
  /\ UNCHANGED <<worker, running, madeBy, rows, disk, abandoned, historyVars>>

CallRemove(t) ==
  /\ Removes /\ thread[t].at = "idle" /\ calls < MaxCalls /\ mutex = Nobody
  /\ Present
  /\ calls' = calls + 1 /\ removed' = TRUE /\ entry' = {}
  /\ thread' = [thread EXCEPT ![t] =
       IF TheEntry.session = 0 THEN Idle
       ELSE [Idle EXCEPT !.at = "stopping", !.victim = TheEntry.session]]
  /\ UNCHANGED <<applying, mutex, worker, running, sessionVars, asked, kept, dropped>>

-----------------------------------------------------------------------------
(* RecordingSession::stop(), by whichever thread took the session out.     *)

(* No more frames, off the source, EOS into the pipeline.                  *)
BeginStop(t) ==
  /\ thread[t].at = "stopping"
  /\ thread' = [thread EXCEPT ![t].at = "draining"]
  /\ session' = [session EXCEPT ![thread[t].victim].phase = "draining"]
  /\ UNCHANGED <<entry, applying, mutex, worker, running, madeBy, rows, disk,
                 abandoned, historyVars>>

WaitNoLonger(s) == TRUE  \* mutant: no wait for the drain
Drained(s) == session[s].drained

(* The muxer has finished, or three seconds have passed.                   *)
StopWaiting(t) ==
  LET s == thread[t].victim
  IN  /\ thread[t].at = "draining"
      /\ \/ Drained(s) /\ UNCHANGED abandoned
         \/ Failures /\ abandoned' = abandoned \cup {s}
      /\ thread' = [thread EXCEPT ![t].at = "joining"]
      /\ session' = [session EXCEPT ![s].phase = "joining"]
      /\ UNCHANGED <<entry, applying, mutex, worker, running, madeBy, rows, disk,
                     historyVars>>

(* BusWatcher::stop joins the watcher once its handler has returned; the   *)
(* pipeline and the messages still on the bus go with it.                  *)
Join(t) ==
  LET s == thread[t].victim
      at == IF thread[t].build THEN "build" ELSE IF t = Main THEN "flush" ELSE "idle"
  IN  /\ thread[t].at = "joining" /\ session[s].storing = 0
      /\ session' = [session EXCEPT ![s] =
                       [@ EXCEPT !.phase = "gone", !.writing = 0, !.open = {},
                                 !.bus = <<>>]]
      /\ thread' = [thread EXCEPT ![t] = IF at = "idle" THEN Idle ELSE [@ EXCEPT !.at = at]]
      /\ applying' = IF at = "idle" /\ applying = t THEN Nobody ELSE applying
      /\ mutex' = IF at = "idle" /\ mutex = t THEN Nobody ELSE mutex
      /\ UNCHANGED <<entry, worker, running, madeBy, rows, disk, abandoned, historyVars>>

-----------------------------------------------------------------------------
(* splitmuxsink (external).                                                *)

Post(s, messages) == session[s].bus \o messages

OpenFirst(s) ==
  /\ session[s].phase = "running" /\ ~ session[s].broken /\ session[s].writing = 0
  /\ Fresh # {}
  /\ madeBy' = [madeBy EXCEPT ![NextFile] = s] /\ disk' = disk \cup {NextFile}
  /\ session' = [session EXCEPT ![s].writing = NextFile,
                                ![s].bus = Post(s, << <<"opened", NextFile>> >>)]
  /\ UNCHANGED <<entry, applying, mutex, thread, worker, running, rows, abandoned,
                 historyVars>>

(* async-finalize: the next file may be announced before the last is done. *)
Cut(s) ==
  /\ session[s].phase = "running" /\ ~ session[s].broken /\ session[s].writing # 0
  /\ Fresh # {}
  /\ madeBy' = [madeBy EXCEPT ![NextFile] = s] /\ disk' = disk \cup {NextFile}
  /\ LET opened == <<"opened", NextFile>>
         closed == <<"closed", session[s].writing>>
     IN  \E messages \in {<<opened, closed>>, <<closed, opened>>} :
           session' = [session EXCEPT ![s].writing = NextFile,
                                      ![s].bus = Post(s, messages)]
  /\ UNCHANGED <<entry, applying, mutex, thread, worker, running, rows, abandoned,
                 historyVars>>

(* EOS reaches the muxer: it closes the last file and posts EOS after it.  *)
Finish(s) ==
  /\ session[s].phase = "draining" /\ ~ session[s].broken
  /\ <<"eos", 0>> \notin {session[s].bus[i] : i \in DOMAIN session[s].bus}
  /\ ~ session[s].drained
  /\ LET last == IF session[s].writing = 0 THEN <<>>
                 ELSE << <<"closed", session[s].writing>> >>
     IN  session' = [session EXCEPT ![s].writing = 0,
                                    ![s].bus = Post(s, last \o << <<"eos", 0>> >>)]
  /\ UNCHANGED <<entry, applying, mutex, thread, worker, running, madeBy, rows, disk,
                 abandoned, historyVars>>

(* The pipeline reports an error (a full disk) and writes no more.         *)
Break(s) ==
  /\ Failures /\ session[s].phase \in {"running", "draining"} /\ ~ session[s].broken
  /\ session' = [session EXCEPT ![s].broken = TRUE,
                                ![s].bus = Post(s, << <<"error", 0>> >>)]
  /\ abandoned' = abandoned \cup {s}
  /\ UNCHANGED <<entry, applying, mutex, thread, worker, running, madeBy, rows, disk,
                 historyVars>>

-----------------------------------------------------------------------------
(* The bus watcher: handleBusMessage, onFragmentOpened, onFragmentClosed   *)
(* and the part of onSegment before the lock.  Once told to stop it may    *)
(* still handle the message its pop was waiting for.                       *)

Upsert(f, status, s) ==
  \/ /\ rows' = [rows EXCEPT ![f] = status]
     /\ UNCHANGED abandoned
  \/ /\ Failures /\ UNCHANGED rows  \* the row could not be written
     /\ abandoned' = abandoned \cup {s}

Popped(s) == [session[s] EXCEPT !.bus = Tail(@),
                                !.phase = IF @ = "joining" THEN "leaving" ELSE @]

CanPop(s, kind) ==
  /\ session[s].phase \in {"running", "draining", "joining"}
  /\ session[s].storing = 0
  /\ session[s].bus # <<>> /\ Head(session[s].bus)[1] = kind

watcherUnchanged == <<entry, applying, mutex, thread, worker, running, madeBy, disk>>

FragmentOpened(s) ==
  /\ CanPop(s, "opened")
  /\ LET f == Head(session[s].bus)[2]
     IN  /\ session' = [session EXCEPT ![s] = [Popped(s) EXCEPT !.open = @ \cup {f}]]
         /\ Upsert(f, "recording", s)
  /\ UNCHANGED <<watcherUnchanged, historyVars>>

FragmentClosed(s) ==
  /\ CanPop(s, "closed")
  /\ LET f == Head(session[s].bus)[2]
     IN  IF f \notin session[s].open
         THEN /\ session' = [session EXCEPT ![s] = Popped(s)]
              /\ UNCHANGED <<rows, abandoned>>
         ELSE /\ Upsert(f, "complete", s)
              /\ session' = [session EXCEPT ![s] =
                   [Popped(s) EXCEPT !.open = @ \ {f},
                                     !.storing = IF rows'[f] = "complete" THEN f ELSE 0]]
  /\ UNCHANGED <<watcherUnchanged, historyVars>>

PipelineDone(s) ==
  /\ CanPop(s, "eos") \/ CanPop(s, "error")
  /\ session' = [session EXCEPT ![s] = [Popped(s) EXCEPT !.drained = TRUE]]
  /\ UNCHANGED <<watcherUnchanged, rows, abandoned, historyVars>>

(* The rest of onSegment: a stored complete segment goes to the gate.      *)
OffersOpenToo(s) == session[s].open \cup {session[s].storing}  \* mutant: no status check
Offered(s) == {session[s].storing}

Offer(s) ==
  /\ session[s].storing # 0 /\ mutex = Nobody
  /\ session' = [session EXCEPT ![s].storing = 0]
  /\ entry' = {IF e.builtMode = "motion" /\ e.gate.present
               THEN [e EXCEPT !.gate.held = @ \cup Offered(s)] ELSE e : e \in entry}
  /\ UNCHANGED <<applying, mutex, thread, worker, running, madeBy, rows, disk,
                 abandoned, historyVars>>

-----------------------------------------------------------------------------
(* noteEvent.  The event covers the files on their way to the gate and the *)
(* held ones the next settle would still save; the files being written too *)
(* if they are closed before its post-roll has passed.                     *)

OnTheirWay(s) ==
  {session[s].writing, session[s].storing}
    \cup {session[s].bus[i][2] : i \in DOMAIN session[s].bus}
    \cup session[s].open

Coming == UNION {OnTheirWay(s) : s \in Sessions}

NoteEvent ==
  /\ mutex = Nobody /\ Present /\ TheEntry.gate.present
  /\ LET sure == Files \cap Coming
     IN  \E young \in SUBSET TheEntry.gate.held :
           /\ asked' = asked \cup sure \cup young
           /\ entry' = {[TheEntry EXCEPT !.gate.hot = TRUE,
                                         !.gate.saves = @ \cup sure \cup young]}
  /\ UNCHANGED <<applying, mutex, thread, worker, running, sessionVars,
                 kept, dropped, removed, calls>>

(* Time passes: the post-roll of the last event is over.  A file that is   *)
(* still being written closes too late to be sure of being kept: its event *)
(* is forgotten before it is decided, or is not (MotionGate).              *)
Written == {session[s].writing : s \in Sessions}

PostRollEnds ==
  /\ asked \cap Written # {}
  /\ asked' = asked \ Written
  /\ entry' = {[e EXCEPT !.gate.saves = @ \ Written] : e \in entry}
  /\ UNCHANGED <<applying, mutex, thread, worker, running, sessionVars,
                 kept, dropped, removed, calls>>

-----------------------------------------------------------------------------
(* The sweep worker.                                                       *)

workerUnchanged == <<applying, mutex, thread, running, session, madeBy, abandoned,
                     asked, removed, calls>>

(* Under the lock: settle the gate, note whether retention applies.        *)
StillHeld(gate, due) == gate.held \ due

(* settle() ends in forgetOldEvents.  An event is older than post-roll and *)
(* hold when it goes, so what closed within its post-roll has been decided *)
(* by then, unless it took longer than the pre-roll to reach the gate      *)
(* (MotionGate: GateAssumption, PreRollNeverLost).                         *)
MayForget(gate, due) == gate.saves \cap (StillHeld(gate, due) \cup Coming) = {}

AfterSettle(gate, due, forget) ==
  LET left == [gate EXCEPT !.held = StillHeld(gate, due)]
  IN  IF forget THEN [left EXCEPT !.hot = FALSE, !.saves = {}] ELSE left

Sweep ==
  /\ worker.at = "wait" /\ running /\ mutex = Nobody
  /\ LET e == EntryOrNew
     IN  \E due \in SUBSET e.gate.held : \E drop \in Droppable(e.gate, due) :
           \E forget \in {FALSE, MayForget(e.gate, due)} :
             /\ entry' = {[x EXCEPT !.gate = AfterSettle(@, due, forget)] : x \in entry}
             /\ kept' = kept \cup (due \ drop) /\ dropped' = dropped \cup drop
             /\ worker' = [at |-> IF drop # {} THEN "files" ELSE
                                  IF e.camera.expires THEN "expire" ELSE "wait",
                           batch |-> drop, expire |-> e.camera.expires]
  /\ UNCHANGED <<workerUnchanged, rows, disk>>

(* expiredSegments, without the lock.  A day of retention is longer than   *)
(* any pre-roll, so nothing a gate still holds has expired.                *)
ExpiredAnyStatus == {f \in Files : rows[f] # "none"}  \* mutant: open rows included
ExpiredRows == {f \in Files : rows[f] = "complete"}

Retire ==
  /\ worker.at = "expire"
  /\ \E old \in SUBSET (ExpiredRows \ ({session[s].storing : s \in Sessions}
                                        \cup UNION {e.gate.held : e \in entry})) :
       worker' = [at |-> IF old = {} THEN "wait" ELSE "files",
                  batch |-> old, expire |-> FALSE]
  /\ UNCHANGED <<workerUnchanged, entry, rows, disk, kept, dropped>>

(* deleteSegments: files first, then rows.                                 *)
DeleteFiles ==
  /\ worker.at = "files"
  /\ disk' = disk \ worker.batch
  /\ worker' = [worker EXCEPT !.at = "rows"]
  /\ UNCHANGED <<workerUnchanged, entry, rows, kept, dropped>>

UnlistedShrinks(batch) == [f \in Files \ batch |-> rows[f]]  \* mutant: the file's slot is lost
Unlisted(batch) == [f \in Files |-> IF f \in batch THEN "none" ELSE rows[f]]

DeleteRows ==
  /\ worker.at = "rows"
  /\ \/ rows' = Unlisted(worker.batch)
     \/ Failures /\ UNCHANGED rows  \* a warning, and nothing else
  /\ worker' = [worker EXCEPT !.at = IF worker.expire THEN "expire" ELSE "wait",
                              !.batch = {}]
  /\ UNCHANGED <<workerUnchanged, entry, disk, kept, dropped>>

-----------------------------------------------------------------------------
(* RecordingManager::stop().                                               *)

CallStop ==
  /\ Stops /\ running /\ thread[Main].at = "idle"
  /\ running' = FALSE
  /\ thread' = [thread EXCEPT ![Main].at = "joinWorker"]
  /\ UNCHANGED <<entry, applying, mutex, worker, sessionVars, historyVars>>

WorkerExits ==
  /\ worker.at = "wait" /\ ~ running
  /\ worker' = [worker EXCEPT !.at = "stopped"]
  /\ UNCHANGED <<entry, applying, mutex, thread, running, sessionVars, historyVars>>

(* The entries are moved out under the lock.                               *)
TakeEntries ==
  /\ thread[Main].at = "joinWorker" /\ worker.at = "stopped" /\ mutex = Nobody
  /\ entry' = {}
  /\ thread' = [thread EXCEPT ![Main] =
       [Idle EXCEPT !.at = IF EntryOrNew.session = 0 THEN "flush" ELSE "stopping",
                    !.victim = EntryOrNew.session, !.gate = EntryOrNew.gate]]
  /\ UNCHANGED <<applying, mutex, worker, running, sessionVars, historyVars>>

(* gate->flush() and deleteSegments, with nobody left to race.             *)
Flush ==
  /\ thread[Main].at = "flush"
  /\ LET gate == thread[Main].gate
     IN  \E drop \in Droppable(gate, gate.held) :
           /\ kept' = kept \cup (gate.held \ drop) /\ dropped' = dropped \cup drop
           /\ disk' = disk \ drop
           /\ \/ rows' = Unlisted(drop)
              \/ Failures /\ UNCHANGED rows
  /\ thread' = [thread EXCEPT ![Main] = [Idle EXCEPT !.at = "stopped"]]
  /\ UNCHANGED <<entry, applying, mutex, worker, running, session, madeBy, abandoned,
                 asked, removed, calls>>

-----------------------------------------------------------------------------
Caller(t)  == CallApply(t) \/ CallRemove(t)
Handling(t) == Decide(t) \/ Build(t) \/ BeginStop(t) \/ StopWaiting(t) \/ Join(t)
Watcher(s) == FragmentOpened(s) \/ FragmentClosed(s) \/ PipelineDone(s) \/ Offer(s)
Muxer(s)   == OpenFirst(s) \/ Cut(s) \/ Break(s)
Worker     == Sweep \/ Retire \/ DeleteFiles \/ DeleteRows \/ WorkerExits

Next ==
  \/ \E t \in Callers : Caller(t)
  \/ \E t \in Threads : Handling(t)
  \/ \E s \in Sessions : Watcher(s) \/ Muxer(s) \/ Finish(s)
  \/ NoteEvent \/ PostRollEnds \/ Worker \/ CallStop \/ TakeEntries \/ Flush

Spec == Init /\ [][Next]_vars

(* Threads that can run do run, and a muxer given EOS finishes.            *)
Fairness ==
  /\ \A t \in Threads : WF_vars(Handling(t))
  /\ \A s \in Sessions : WF_vars(Watcher(s)) /\ WF_vars(Finish(s))
  /\ WF_vars(DeleteFiles \/ DeleteRows \/ WorkerExits \/ Retire)
  /\ WF_vars(TakeEntries) /\ WF_vars(Flush)

FairSpec == Spec /\ Fairness

-----------------------------------------------------------------------------
TypeOK ==
  /\ Cardinality(entry) <= 1
  /\ \A e \in entry : /\ e.camera \in Cameras \cup {NoCamera}
                      /\ e.session \in Sessions \cup {0} /\ e.gate.held \subseteq Files
                      /\ e.builtMode \in Modes
  /\ {applying, mutex} \subseteq Threads \cup {Nobody}
  /\ \A t \in Threads : /\ thread[t].victim \in Sessions \cup {0}
                        /\ thread[t].at \in {"idle", "enter", "stopping", "draining",
                             "joining", "build", "joinWorker", "flush", "stopped"}
  /\ worker.at \in {"wait", "files", "rows", "expire", "stopped"}
  /\ \A s \in Sessions : session[s].phase \in
        {"unused", "running", "draining", "joining", "leaving", "gone"}
  /\ rows \in [Files -> {"none", "recording", "complete"}]
  /\ madeBy \in [Files -> Sessions \cup {0}]
  /\ disk \cup asked \cup kept \cup dropped \subseteq Files

(* apply() releases m_mutex in the middle, and still no second apply()     *)
(* "builds a rival session for the same camera": whatever the callers do,  *)
(* one session at a time exists, draining ones included.                   *)
Alive(s) == session[s].phase \notin {"unused", "gone"}
NoRivalSessions ==
  running /\ ~ removed => Cardinality({s \in Sessions : Alive(s)}) <= 1

(* Footage an event asked for (on its way to the gate or young when the    *)
(* event came, and closed within its post-roll) is dropped by no gate,     *)
(* however often the session and its gate were replaced between the event  *)
(* and the closing of the file, and whichever events were forgotten.       *)
AskedFootageSurvives == ~ removed => asked \cap dropped = {}

(* Neither the gate nor retention deletes the file the muxer is writing.   *)
OpenFileStays == \A s \in Sessions : session[s].writing # 0 => session[s].writing \in disk

(* What a gate still holds is a finished file, listed and undecided: no    *)
(* sweep, retention pass or late watcher deletes a file twice or offers it *)
(* again.                                                                  *)
HeldIsListedAndUndecided ==
  \A e \in entry : \A f \in e.gate.held :
    /\ rows[f] = "complete" /\ f \in disk
    /\ f \notin kept \cup dropped

(* stop() waits for the muxer to drain before it stops the watcher, so no  *)
(* stopped session leaves a row "recording" for ever (unless the pipeline, *)
(* the database or the three-second wait failed).                          *)
NoRowLeftOpen ==
  \A f \in Files : madeBy[f] # 0 =>
    LET s == madeBy[f]
    IN  session[s].phase = "gone" /\ s \notin abandoned => rows[f] # "recording"

(* No wait is circular: while anybody is inside apply(), remove() or       *)
(* stop(), a thread, a watcher, a muxer or the worker can go on, without   *)
(* another call having to come first.  A session stopped under the lock    *)
(* its watcher needs would leave all of them waiting.                      *)
NobodyIsStuck ==
  (\E t \in Threads : thread[t].at \notin {"idle", "stopped"}) =>
    \/ ENABLED \E t \in Threads : Handling(t)
    \/ ENABLED \E s \in Sessions : Watcher(s) \/ Finish(s)
    \/ ENABLED (Retire \/ DeleteFiles \/ DeleteRows \/ WorkerExits \/ TakeEntries \/ Flush)

(* Every caller gets back, and shutdown ends: a session is never stopped   *)
(* under the lock its watcher needs to finish, and stop() awaits the       *)
(* worker, the sessions and the flush in an order that lets each finish.   *)
EverybodyReturns ==
  /\ \A t \in Callers : thread[t].at # "idle" ~> thread[t].at = "idle"
  /\ thread[Main].at = "joinWorker" ~> thread[Main].at = "stopped"

-----------------------------------------------------------------------------
(* Statements of the code's own documentation that the code does not keep. *)

(* "A rename must not interrupt a recording" (RecordingManager.hpp): an    *)
(* apply() of the row the session was built for leaves it alone.           *)
UnchangedRowKeepsSession ==
  [][\A t \in Callers :
       Decide(t) /\ Present /\ thread[t].camera = TheEntry.camera
         => thread'[t].victim = 0]_vars

(* "a file nothing will ever decide about ... is a leak"                   *)
(* (RecordingManager::stop): a finished motion segment is decided, or some *)
(* gate or thread still has it.                                            *)
Undecided ==
  {f \in Files : /\ rows[f] = "complete" /\ session[madeBy[f]].mode = "motion"
                 /\ f \notin kept \cup dropped}
NothingIsLeaked ==
  \A f \in Undecided :
    \/ \E e \in entry : f \in e.gate.held
    \/ \E t \in Threads : f \in thread[t].gate.held
    \/ \E s \in Sessions : session[s].storing = f

(* "This order can leave a row whose file is already gone only if the      *)
(* delete below fails, and the next sweep retries it."                     *)
DanglingRowIsRetried ==
  worker.at = "wait" =>
    \A f \in Files : rows[f] = "complete" /\ f \notin disk =>
      \E e \in entry : f \in e.gate.held \/ e.camera.expires

(* "Keeps every camera that should be recording, recording": when apply()  *)
(* finds a camera that should record, with its codec, and neither starts   *)
(* nor fails anything, the session it leaves is one that works.            *)
SettledMeansRecording ==
  [][\A t \in Callers :
       /\ Decide(t) /\ thread'[t].at = "idle" /\ thread[t].known
       /\ ShouldRecord(thread[t].camera)
       => LET s == TheEntry.session IN ~ (session[s].broken /\ session[s].drained)]_vars
=============================================================================
