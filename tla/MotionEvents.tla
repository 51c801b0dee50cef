----------------------------- MODULE MotionEvents -----------------------------
(***************************************************************************)
(* From frames that move to rows with a picture: the motion callback of    *)
(* AiRuntime (one detector per camera), MotionEventRecorder (one row per   *)
(* event) and MotionSnapshotWriter (one thread, a short queue).            *)
(*                                                                         *)
(* A frame is handled on its decoder's thread from the detector down to    *)
(* the writer's queue, with the recorder's mutex held: one action.  The    *)
(* setting "store this camera's events" reaches the detector when it is    *)
(* built and the recorder after that, as two steps of whoever applies the  *)
(* camera.  An instant is kept as its age, up to PostMotion.  Cells, paths *)
(* and scores are left out.                                                *)
(***************************************************************************)
EXTENDS Integers, Sequences

CONSTANTS
  Cameras,
  PostMotion,  \* postMotionSeconds, in steps of the clock
  MaxPending,  \* kMaxPendingSnapshots
  MaxRows,
  MaxEdits,    \* changes of a camera's row, replaced decoders
  Fails        \* TRUE: rows, pictures and their index may fail to be written

ASSUME EventsAssumption ==
  {PostMotion, MaxRows, MaxEdits} \subseteq Nat /\ MaxPending \in Nat \ {0} /\ Fails \in BOOLEAN

VARIABLES
  setting,   \* the camera's row: [motion, saves]
  applying,  \* setSaving() is still to come, with this value
  detector,
  saving,    \* m_saving
  open,      \* m_open, 0 where there is none
  rows,
  queue,     \* m_queue, by the row a picture is for
  running, writer,
  phase,     \* of main()'s shutdown
  quiet,     \* time since a frame fired that belongs to a row
  calm,      \* nothing was rebuilt, switched or lost since the camera's edge
  edits

eventVars == <<setting, applying, detector, saving, open, rows, queue, running, writer, phase, quiet, calm, edits>>

(* since: the age of lastTriggerMs; saves is captured when built.          *)
Built(saves) == [on |-> TRUE, since |-> PostMotion, was |-> FALSE, saves |-> saves]
Off == [on |-> FALSE, since |-> PostMotion, was |-> FALSE, saves |-> FALSE]

EventsInit ==
  /\ edits = 0 /\ phase = "up"
  /\ setting \in [Cameras -> [motion : {TRUE}, saves : BOOLEAN]]
  /\ detector = [c \in Cameras |-> Built(setting[c].saves)]
  /\ saving = [c \in Cameras |-> setting[c].saves]
  /\ applying = [c \in Cameras |-> {}]
  /\ open = [c \in Cameras |-> 0] /\ rows = <<>> /\ calm = [c \in Cameras |-> TRUE]
  /\ quiet = [c \in Cameras |-> PostMotion]
  /\ queue = <<>> /\ running = TRUE /\ writer = [at |-> "top", item |-> 0]

Outcomes == IF Fails THEN BOOLEAN ELSE {TRUE}
Writer == <<running, writer>>
Wiring == <<setting, applying, saving, phase, edits>>

Older(age) == IF age < PostMotion THEN age + 1 ELSE age

Pass ==
  /\ detector' = [c \in Cameras |-> [detector[c] EXCEPT !.since = Older(@)]]
  /\ quiet' = [c \in Cameras |-> Older(quiet[c])]
  /\ UNCHANGED <<open, rows, queue, calm>> /\ UNCHANGED Writer /\ UNCHANGED Wiring

-----------------------------------------------------------------------------
(* The writer's queue, and its sleep on m_wake.                            *)

DropsNewest(q, row) == IF Len(q) >= MaxPending THEN q ELSE Append(q, row)  \* mutant
Queued(q, row) ==
  LET all == Append(q, row)
  IN  SubSeq(all, Len(all) - (IF Len(q) >= MaxPending THEN MaxPending ELSE Len(q) + 1) + 1, Len(all))

WokenNot(w) == w  \* mutant: nobody is notified
Woken(w) == IF w.at = "asleep" THEN [w EXCEPT !.at = "top"] ELSE w

(* The mutex is the writer's until it sleeps.                              *)
Capture(row) ==
  /\ writer.at # "dozing"
  /\ queue' = Queued(queue, row) /\ writer' = Woken(writer) /\ UNCHANGED running

-----------------------------------------------------------------------------
(* A frame.                                                                *)

HeldNot(since) == FALSE  \* mutant: only a frame that fires is part of an event
StillHeld(since) == since < PostMotion

(* Only the rising edge takes the picture along.                           *)
Sticks(d, triggered) == d.was \/ triggered  \* mutant: wasTriggered is set and never cleared
Previously(d, triggered) == triggered
Carries(d) == d.saves /\ ~ d.was

(* observe(): a row on the edge, closed on the other.                      *)
Insert(c, carried, stored) ==
  IF stored
  THEN /\ Len(rows) < MaxRows
       /\ rows' = Append(rows, [cam |-> c, state |-> "open", carried |-> carried, picture |-> FALSE])
       /\ open' = [open EXCEPT ![c] = Len(rows) + 1]
       /\ calm' = [calm EXCEPT ![c] = detector[c].saves]
       /\ IF carried /\ running THEN Capture(Len(rows) + 1) ELSE UNCHANGED queue /\ UNCHANGED Writer
  ELSE calm' = [calm EXCEPT ![c] = FALSE] /\ UNCHANGED <<open, rows, queue>> /\ UNCHANGED Writer

Close(c, stored) ==
  /\ rows' = [rows EXCEPT ![open[c]].state = IF stored THEN "closed" ELSE "lost"]
  /\ open' = [open EXCEPT ![c] = 0]
  /\ UNCHANGED <<queue, calm>> /\ UNCHANGED Writer

Observe(c, triggered, carried, stored) ==
  IF saving[c] /\ triggered /\ open[c] = 0 THEN Insert(c, carried, stored)
  ELSE IF saving[c] /\ ~ triggered /\ open[c] # 0 THEN Close(c, stored)
  ELSE UNCHANGED <<open, rows, queue, calm>> /\ UNCHANGED Writer

Frame(c, fires) ==
  LET since == IF fires THEN 0 ELSE detector[c].since
      triggered == fires \/ StillHeld(since)
  IN  /\ detector[c].on
      /\ detector' = [detector EXCEPT ![c] = [@ EXCEPT !.since = since, !.was = Previously(detector[c], triggered)]]
      /\ \E stored \in Outcomes : Observe(c, triggered, triggered /\ Carries(detector[c]), stored)
      /\ quiet' = [quiet EXCEPT ![c] = IF open'[c] # 0 THEN since ELSE @]
      /\ UNCHANGED Wiring

-----------------------------------------------------------------------------
(* The camera's row and who applies it.                                    *)

(* A change of motionSaveEvents alone tells nobody.                        *)
Edit(c, motion, saves) ==
  /\ phase = "up" /\ edits < MaxEdits /\ edits' = edits + 1
  /\ setting[c] # [motion |-> motion, saves |-> saves]
  /\ setting' = [setting EXCEPT ![c] = [motion |-> motion, saves |-> saves]]
  /\ UNCHANGED <<applying, detector, saving, open, rows, queue, phase, quiet, calm>> /\ UNCHANGED Writer

(* applyCamera(), for a changed row or a report of the stream: motion      *)
(* switched, or rebuilt with a decoder or a grid that is new.              *)
Apply(c, rebuilt) ==
  LET switched == detector[c].on # setting[c].motion
      next == IF ~ switched /\ ~ rebuilt THEN detector[c]
              ELSE IF setting[c].motion THEN Built(setting[c].saves) ELSE Off
  IN  /\ applying[c] = {} /\ (rebuilt => edits < MaxEdits) /\ edits' = edits + (IF rebuilt THEN 1 ELSE 0)
      /\ phase # "gone"
      /\ detector' = [detector EXCEPT ![c] = next]
      /\ applying' = [applying EXCEPT ![c] = {setting[c].saves}]
      /\ calm' = [calm EXCEPT ![c] = @ /\ next = detector[c]]
      /\ UNCHANGED <<setting, saving, open, rows, queue, phase, quiet>> /\ UNCHANGED Writer

SetSaving(c) ==
  /\ applying[c] # {}
  /\ \E saves \in applying[c] :
       /\ saving' = [saving EXCEPT ![c] = saves]
       /\ calm' = [calm EXCEPT ![c] = @ /\ saving[c] = saves /\ detector[c].saves = saves]
  /\ applying' = [applying EXCEPT ![c] = {}]
  /\ UNCHANGED <<setting, detector, open, rows, queue, phase, quiet, edits>> /\ UNCHANGED Writer

-----------------------------------------------------------------------------
(* The writer's thread.  The predicate is evaluated and the thread put to  *)
(* sleep under m_mutex, which capture() takes and stop() does not.         *)

Still == <<detector, open, quiet, calm>>

Look ==
  /\ writer.at = "top"
  /\ IF ~ running THEN writer' = [writer EXCEPT !.at = "ended"] /\ UNCHANGED queue
     ELSE IF queue # <<>> THEN writer' = [at |-> "encoding", item |-> Head(queue)] /\ queue' = Tail(queue)
     ELSE writer' = [writer EXCEPT !.at = "dozing"] /\ UNCHANGED queue
  /\ UNCHANGED <<rows, running>> /\ UNCHANGED Still /\ UNCHANGED Wiring

Doze ==
  /\ writer.at = "dozing" /\ writer' = [writer EXCEPT !.at = "asleep"]
  /\ UNCHANGED <<rows, queue, running>> /\ UNCHANGED Still /\ UNCHANGED Wiring

(* Encoded, written and indexed, or given up on the way.                   *)
Write ==
  /\ writer.at = "encoding" /\ writer' = [at |-> "top", item |-> 0]
  /\ \E ok \in Outcomes : rows' = [rows EXCEPT ![writer.item].picture = ok]
  /\ UNCHANGED <<queue, running>> /\ UNCHANGED Still /\ UNCHANGED Wiring

-----------------------------------------------------------------------------
(* main() from the AI runtime's stop on.                                   *)

StopDecoders ==
  /\ phase = "up" /\ phase' = "stopped"
  /\ detector' = [c \in Cameras |-> Off] /\ calm' = [c \in Cameras |-> FALSE]
  /\ UNCHANGED <<setting, applying, saving, open, rows, queue, running, writer, quiet, edits>>

CloseAll ==
  /\ phase = "stopped" /\ phase' = "closed"
  /\ rows' = [i \in DOMAIN rows |->
                IF \E c \in Cameras : open[c] = i THEN [rows[i] EXCEPT !.state = "closed"] ELSE rows[i]]
  /\ open' = [c \in Cameras |-> 0] /\ calm' = [c \in Cameras |-> FALSE]
  /\ UNCHANGED <<setting, applying, detector, saving, queue, running, writer, quiet, edits>>

(* streams->stop() joins the last thread that applies cameras; then the    *)
(* objects go, the recorder and its writer with them.                      *)
Destroy ==
  /\ phase = "closed" /\ \A c \in Cameras : applying[c] = {}
  /\ phase' = "gone" /\ running' = FALSE /\ writer' = Woken(writer)
  /\ detector' = [c \in Cameras |-> Off] /\ calm' = [c \in Cameras |-> FALSE]
  /\ UNCHANGED <<setting, applying, saving, open, rows, queue, quiet, edits>>

Work == Look \/ Doze \/ Write

EventsNext ==
  \/ Pass \/ Work \/ StopDecoders \/ CloseAll \/ Destroy
  \/ \E c \in Cameras :
       \/ \E fires \in BOOLEAN : Frame(c, fires)
       \/ \E motion, saves \in BOOLEAN : Edit(c, motion, saves)
       \/ \E rebuilt \in BOOLEAN : Apply(c, rebuilt)
       \/ SetSaving(c)

EventsSpec == EventsInit /\ [][EventsNext]_eventVars

(* The writer is a thread of its own that runs when it can.                *)
EventsFairSpec == EventsSpec /\ WF_eventVars(Work)

-----------------------------------------------------------------------------
EventsTypeOK ==
  /\ setting \in [Cameras -> [motion : BOOLEAN, saves : BOOLEAN]]
  /\ applying \in [Cameras -> SUBSET BOOLEAN]
  /\ detector \in [Cameras -> [on : BOOLEAN, since : 0 .. PostMotion, was : BOOLEAN, saves : BOOLEAN]]
  /\ saving \in [Cameras -> BOOLEAN] /\ open \in [Cameras -> 0 .. Len(rows)]
  /\ rows \in Seq([cam : Cameras, state : {"open", "closed", "lost"}, carried : BOOLEAN, picture : BOOLEAN])
  /\ queue \in Seq(1 .. Len(rows)) /\ Len(queue) <= MaxPending /\ running \in BOOLEAN
  /\ writer \in [at : {"top", "dozing", "asleep", "encoding", "ended"}, item : 0 .. Len(rows)]
  /\ writer.at = "encoding" => writer.item # 0
  /\ quiet \in [Cameras -> 0 .. PostMotion] /\ calm \in [Cameras -> BOOLEAN]

Opens(c) == open[c] = 0 /\ open'[c] # 0

(* "An operator means one event": movements less than the hold apart share *)
(* a row, unless detector or settings were changed between them.           *)
EventsAreApart == [][\A c \in Cameras : Opens(c) /\ calm[c] => quiet[c] = PostMotion]_eventVars

(* The recorder's edge and the detector's are the same one, if the camera  *)
(* was left alone: the frame that opens a row carries the row's picture.   *)
CalmEdgesAgree == [][\A c \in Cameras : Opens(c) /\ calm[c] => rows'[open'[c]].carried]_eventVars

(* A row is open for at most one event per camera, the one that m_open     *)
(* knows and will close.                                                   *)
OpenIsKnown == \A i \in DOMAIN rows : rows[i].state = "open" => open[rows[i].cam] = i

(* "Drop the OLDEST when the queue is full": a picture that waits is newer *)
(* than every one that was taken or dropped.                               *)
NewestIsKept ==
  \A i \in DOMAIN rows : rows[i].carried /\ running /\ queue # <<>> /\ i >= Head(queue) => \E k \in DOMAIN queue : queue[k] = i

(* While a picture waits the writer does not sleep for good.               *)
CapturesAreTaken == queue # <<>> ~> writer.at = "encoding" \/ ~ running

-----------------------------------------------------------------------------
(* What comments promise.                                                  *)

(* "the two agree because both read the one value" (AiRuntime.cpp:297).    *)
EdgesAgree == \A j \in DOMAIN rows : rows[j].carried

(* "opened when it starts and closed when it ends": no row stays open that *)
(* nothing is watching any more.                                           *)
OpenIsWatched ==
  \A c \in Cameras : open[c] # 0 /\ applying[c] = {} /\ phase = "up" => detector[c].on /\ saving[c]

(* "An event left open reads as one that never ended" (main.cpp:490).      *)
NothingLeftOpen == phase = "gone" => \A i \in DOMAIN rows : rows[i].state # "open"

(* The destructor joins the writer.                                        *)
WriterEnds == phase = "gone" ~> writer.at = "ended"
=============================================================================
