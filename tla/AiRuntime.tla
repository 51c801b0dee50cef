------------------------------ MODULE AiRuntime ------------------------------
(***************************************************************************)
(* AiRuntime: one decoder (FrameTap) per camera and one worker per job.    *)
(*                                                                         *)
(* Jobs are asked for by HTTP requests; the camera is applied by requests  *)
(* and by the stream manager's worker, so calls overlap.  m_mutex is held  *)
(* in sections only: starting a pipeline's reader, loading a model and     *)
(* joining a worker happen without it.  A section is one action here.      *)
(*                                                                         *)
(* One camera.  A stream stands for its address and codec, "none" for one  *)
(* whose codec is not known.  applyJob() of a disabled job is removeJob(). *)
(***************************************************************************)
EXTENDS Naturals, FiniteSets

CONSTANTS
  Callers, Jobs, Feeds,
  MaxWorkers, MaxTaps,  \* objects that are alive at one time
  MaxCalls,
  Fails  \* TRUE: models and decoders may fail to start

ASSUME AiAssumption ==
  {MaxWorkers, MaxTaps, MaxCalls} \subseteq Nat /\ Fails \in BOOLEAN /\ "none" \notin Feeds \cup Jobs

Workers == 1 .. MaxWorkers
Taps == 1 .. MaxTaps

VARIABLES
  running,
  camera,    \* m_cameras[...]
  jobs,      \* m_workers, 0 where there is none
  worker,
  decoding,  \* taps that run
  watchers,  \* motion sinks of each tap
  caller,    \* what each calling thread is about
  calls,
  contested, \* jobs that two threads were changing at the same time
  missed     \* a decoder did not start

aiVars == <<running, camera, jobs, worker, decoding, watchers, caller, calls, contested, missed>>

Absent == [here |-> FALSE, motion |-> FALSE, stream |-> "none", tap |-> 0, sink |-> FALSE]
NoWorker == [job |-> "none", tap |-> 0, attached |-> FALSE, loop |-> "none", run |-> FALSE, pending |-> FALSE]
Idle == [at |-> "idle", op |-> "none", job |-> "none", worker |-> 0, tap |-> 0,
         live |-> FALSE, todo |-> {}, orphans |-> {}]

AiInit ==
  /\ running = TRUE /\ camera = Absent
  /\ jobs = [j \in Jobs |-> 0] /\ worker = [w \in Workers |-> NoWorker]
  /\ decoding = {} /\ watchers = [t \in Taps |-> 0]
  /\ caller = [c \in Callers |-> Idle]
  /\ calls = 0 /\ contested = {} /\ missed = FALSE

Held == {jobs[j] : j \in Jobs} \ {0}

Live(w) == worker[w].loop \in {"waiting", "analysing"}

UsedWorkers ==
  Held \cup {w \in Workers : Live(w)} \cup UNION {caller[c].orphans \cup {caller[c].worker} : c \in Callers}
UsedTaps == decoding \cup {camera.tap} \cup {caller[c].tap : c \in Callers} \cup {worker[w].tap : w \in UsedWorkers \ {0}}

First(S) == {x \in S : \A y \in S : x <= y}

-----------------------------------------------------------------------------
(* The decoder, always under m_mutex.                                      *)

StopTap(t) == decoding' = decoding \ {t} /\ watchers' = [watchers EXCEPT ![t] = 0]

(* The tap found, or a new one.  ok: source and pipeline start.            *)
TapFor(e, ok) ==
  IF e.tap \in decoding THEN {e.tap}
  ELSE IF e.stream = "none" \/ ~ e.here \/ ~ ok THEN {0}
  ELSE First(Taps \ UsedTaps)

(* removeSink() of the motion detector's.                                   *)
Detach(e, watching) == IF e.tap # 0 /\ e.sink THEN [watching EXCEPT ![e.tap] = @ - 1] ELSE watching

Used(e, js) == e.motion \/ \E j \in Jobs : js[j] # 0

RetireTapIfUnused(e) ==
  IF e.tap # 0 /\ ~ Used(e, jobs)
  THEN StopTap(e.tap) /\ camera' = [e EXCEPT !.tap = 0]
  ELSE camera' = e /\ UNCHANGED <<decoding, watchers>>

(* Detach what is attached; attach one if motion is wanted and there is a  *)
(* decoder to attach it to.                                                *)
UpdateMotion(e, running1, watchers1) ==
  IF ~ (e.motion /\ e.tap \in running1)
  THEN LET gone == [e EXCEPT !.sink = FALSE]
           left == Detach(e, watchers1)
       IN  IF e.tap # 0 /\ ~ Used(e, jobs)
           THEN /\ camera' = [gone EXCEPT !.tap = 0]
                /\ decoding' = running1 \ {e.tap} /\ watchers' = [left EXCEPT ![e.tap] = 0]
           ELSE camera' = gone /\ decoding' = running1 /\ watchers' = left
  ELSE IF e.sink
  THEN camera' = e /\ decoding' = running1 /\ watchers' = watchers1
  ELSE camera' = [e EXCEPT !.sink = TRUE] /\ decoding' = running1 /\ watchers' = [watchers1 EXCEPT ![e.tap] = @ + 1]

(* A decoder for motion, which may be the only one to need it.             *)
WatchMotion(e, watchers1, ok) ==
  \E t \in TapFor(e, ok) :
    IF t = 0
    THEN camera' = e /\ UNCHANGED decoding /\ watchers' = watchers1 /\ missed' = (missed \/ e.stream # "none")
    ELSE UpdateMotion([e EXCEPT !.tap = t], decoding \cup {t}, watchers1) /\ UNCHANGED missed

Outcomes == IF Fails THEN BOOLEAN ELSE {TRUE}

-----------------------------------------------------------------------------
(* Calls.                                                                  *)

Become(c, r) == caller' = [caller EXCEPT ![c] = r]
Go(c, at) == Become(c, [caller[c] EXCEPT !.at = at])

(* What a thread does when it is through with one job.                     *)
After(c) ==
  LET r == caller[c]
  IN  IF r.op # "camera" THEN Idle
      ELSE [Idle EXCEPT !.op = "camera", !.live = r.live, !.todo = r.todo,
                        !.at = IF r.todo = {} THEN "motion" ELSE "look"]

About(j) ==
  {c \in Callers : \/ caller[c].at \notin {"idle", "look", "motion"} /\ caller[c].job = j
                   \/ \E w \in caller[c].orphans : worker[w].job = j}
Contest(c, js) == contested' = contested \cup {j \in js : About(j) \ {c} # {}}

May(c) == caller[c].at = "idle" /\ calls < MaxCalls /\ calls' = calls + 1

AskJob(c, j, op) ==
  /\ May(c) /\ op \in {"apply", "remove"}
  /\ Become(c, [Idle EXCEPT !.at = "take", !.op = op, !.job = j]) /\ Contest(c, {j})
  /\ UNCHANGED <<running, camera, jobs, worker, decoding, watchers, missed>>

(* removeJob(), with which applyJob() begins.                              *)
Take(c) ==
  LET r == caller[c]
  IN  /\ r.at = "take"
      /\ jobs' = [jobs EXCEPT ![r.job] = 0]
      /\ IF jobs[r.job] # 0
         THEN Become(c, [r EXCEPT !.at = "shut", !.orphans = {jobs[r.job]}])
         ELSE IF r.op = "remove" THEN Become(c, After(c)) ELSE Go(c, "build")
      /\ UNCHANGED <<running, camera, worker, decoding, watchers, calls, contested, missed>>

(* shutDown(): told to stop, detached, joined.                             *)
ShutDown(c) ==
  /\ caller[c].at = "shut"
  /\ \E w \in caller[c].orphans :
       /\ worker' = [worker EXCEPT ![w] = IF Live(w) THEN [@ EXCEPT !.run = FALSE, !.attached = FALSE] ELSE NoWorker]
       /\ Become(c, [caller[c] EXCEPT !.at = "join", !.worker = w])
  /\ UNCHANGED <<running, camera, jobs, decoding, watchers, calls, contested, missed>>

JoinedNot(w) == TRUE  \* mutant: the worker is not waited for
Joined(w) == ~ Live(w)

Join(c) ==
  LET r == caller[c]
      left == r.orphans \ {r.worker}
  IN  /\ r.at = "join" /\ Joined(r.worker)
      /\ Become(c, [r EXCEPT !.orphans = left, !.worker = 0,
                             !.at = IF left # {} THEN "shut" ELSE IF r.op = "all" THEN "stopTap" ELSE "retire"])
      /\ UNCHANGED <<running, camera, jobs, worker, decoding, watchers, calls, contested, missed>>

Retire(c) ==
  /\ caller[c].at = "retire"
  /\ RetireTapIfUnused(camera)
  /\ IF caller[c].op = "remove" THEN Become(c, After(c)) ELSE Go(c, "build")
  /\ UNCHANGED <<running, jobs, worker, calls, contested, missed>>

(* A worker that cannot load its models is kept, to say why.               *)
Build(c) ==
  /\ caller[c].at = "build"
  /\ IF running
     THEN \E w \in First(Workers \ UsedWorkers), loads \in Outcomes :
            /\ worker' = [worker EXCEPT ![w] = [NoWorker EXCEPT !.job = caller[c].job]]
            /\ Become(c, [caller[c] EXCEPT !.worker = w, !.at = IF loads THEN "tap" ELSE "insert"])
     ELSE Become(c, After(c)) /\ UNCHANGED worker
  /\ UNCHANGED <<running, camera, jobs, decoding, watchers, calls, contested, missed>>

GetTap(c) ==
  /\ caller[c].at = "tap"
  /\ \E ok \in Outcomes : \E t \in TapFor(camera, ok) :
       /\ Become(c, [caller[c] EXCEPT !.tap = t, !.at = IF t = 0 THEN "insert" ELSE "launch"])
       /\ IF t = 0 THEN UNCHANGED <<camera, decoding>>
          ELSE camera' = [camera EXCEPT !.tap = t] /\ decoding' = decoding \cup {t}
       /\ missed' = (missed \/ (t = 0 /\ camera.stream # "none"))
  /\ UNCHANGED <<running, jobs, worker, watchers, calls, contested>>

Launch(c) ==
  /\ caller[c].at = "launch"
  /\ worker' = [worker EXCEPT ![caller[c].worker] =
                  [@ EXCEPT !.tap = caller[c].tap, !.run = TRUE, !.loop = "waiting", !.attached = TRUE]]
  /\ Become(c, [caller[c] EXCEPT !.tap = 0, !.at = "insert"])
  /\ UNCHANGED <<running, camera, jobs, decoding, watchers, calls, contested, missed>>

Insert(c) ==
  /\ caller[c].at = "insert"
  /\ jobs' = [jobs EXCEPT ![caller[c].job] = caller[c].worker]
  /\ Become(c, After(c))
  /\ UNCHANGED <<running, camera, worker, decoding, watchers, calls, contested, missed>>

-----------------------------------------------------------------------------
(* applyCamera().  What is new differs from every row.                     *)

DroppedOnly(t) == UNCHANGED decoding /\ watchers' = watchers  \* mutant: let go of, not stopped
Dropped(t) == decoding' = decoding \ {t} /\ watchers' = [u \in Taps |-> IF u = t THEN 0 ELSE watchers[u]]

FreshKeepsSink(row) == [row EXCEPT !.sink = camera.sink]  \* mutant: the old sink is thought to be there
Fresh(row) == row

(* regrid: other zones or another grid, so another detector.               *)
Unchanged(row, regrid, ok) ==
  LET e == [camera EXCEPT !.motion = row.motion]
      detached == [e EXCEPT !.sink = FALSE]
      left == Detach(e, watchers)
  IN  IF row.motion = camera.motion /\ ~ regrid
      THEN IF row.motion /\ e.tap = 0 /\ row.stream # "none" THEN WatchMotion(e, watchers, ok)
           ELSE camera' = e /\ UNCHANGED <<decoding, watchers, missed>>
      ELSE IF row.motion /\ e.tap = 0 /\ row.stream # "none" THEN WatchMotion(detached, left, ok)
      ELSE UpdateMotion(detached, decoding, left) /\ UNCHANGED missed

ApplyCamera(c, motion, stream, regrid) ==
  LET row == [here |-> TRUE, motion |-> motion, stream |-> stream, tap |-> 0, sink |-> FALSE]
      affected == {j \in Jobs : jobs[j] # 0}
  IN  /\ May(c)
      /\ IF camera.here /\ camera.stream = stream
         THEN (\E ok \in Outcomes : Unchanged(row, regrid, ok)) /\ UNCHANGED caller
         ELSE /\ camera' = Fresh(row) /\ Dropped(camera.tap) /\ UNCHANGED missed
              /\ Become(c, [Idle EXCEPT !.op = "camera", !.live = stream # "none", !.todo = affected,
                                        !.at = IF affected = {} THEN "motion" ELSE "look"])
      /\ UNCHANGED <<running, jobs, worker, contested>>

(* restartJob(): the job as it is now, if it still is.                     *)
Look(c) ==
  /\ caller[c].at = "look"
  /\ \E j \in caller[c].todo :
       LET left == [caller[c] EXCEPT !.todo = @ \ {j}]
       IN  IF jobs[j] # 0
           THEN Become(c, [left EXCEPT !.at = "take", !.job = j]) /\ Contest(c, {j})
           ELSE Become(c, [left EXCEPT !.at = IF left.todo = {} THEN "motion" ELSE "look"]) /\ UNCHANGED contested
  /\ UNCHANGED <<running, camera, jobs, worker, decoding, watchers, calls, missed>>

(* Motion may need a decoder even with no jobs at all.                     *)
Motion(c) ==
  /\ caller[c].at = "motion" /\ Become(c, Idle)
  /\ IF caller[c].live /\ camera.here /\ camera.motion
     THEN \E ok \in Outcomes : WatchMotion(camera, watchers, ok)
     ELSE UNCHANGED <<camera, decoding, watchers, missed>>
  /\ UNCHANGED <<running, jobs, worker, calls, contested>>

-----------------------------------------------------------------------------
(* removeCamera() and stop() take everything under the lock and stop it    *)
(* without.                                                                *)

TakeAll(c) ==
  /\ jobs' = [j \in Jobs |-> 0] /\ camera' = Absent
  /\ Become(c, [Idle EXCEPT !.op = "all", !.orphans = Held, !.tap = camera.tap,
                            !.at = IF Held = {} THEN "stopTap" ELSE "shut"])
  /\ Contest(c, Jobs)
  /\ UNCHANGED <<worker, decoding, missed>>

RemoveCamera(c) == May(c) /\ TakeAll(c) /\ watchers' = Detach(camera, watchers) /\ UNCHANGED running
Stop(c) == May(c) /\ running /\ running' = FALSE /\ TakeAll(c) /\ UNCHANGED watchers

StopTaken(c) ==
  /\ caller[c].at = "stopTap" /\ Dropped(caller[c].tap) /\ Become(c, Idle)
  /\ UNCHANGED <<running, camera, jobs, worker, calls, contested, missed>>

-----------------------------------------------------------------------------
(* A worker: the latest frame replaces the one that waits.                 *)

Rest == <<running, camera, jobs, decoding, watchers, caller, calls, contested, missed>>

Offer(w) ==
  /\ worker[w].attached /\ worker[w].tap \in decoding /\ ~ worker[w].pending
  /\ worker' = [worker EXCEPT ![w].pending = TRUE] /\ UNCHANGED Rest

Analyse(w) ==
  /\ worker[w].loop = "waiting" /\ worker[w].run /\ worker[w].pending
  /\ worker' = [worker EXCEPT ![w].loop = "analysing", ![w].pending = FALSE] /\ UNCHANGED Rest

Analysed(w) ==
  /\ worker[w].loop = "analysing"
  /\ worker' = [worker EXCEPT ![w].loop = "waiting"] /\ UNCHANGED Rest

End(w) ==
  /\ worker[w].loop = "waiting" /\ ~ worker[w].run
  /\ worker' = [worker EXCEPT ![w] = NoWorker] /\ UNCHANGED Rest

Step(c) ==
  \/ Take(c) \/ ShutDown(c) \/ Join(c) \/ Retire(c) \/ Build(c) \/ GetTap(c) \/ Launch(c) \/ Insert(c)
  \/ Look(c) \/ Motion(c) \/ StopTaken(c)

AiNext ==
  \/ \E c \in Callers :
       \/ \E j \in Jobs : AskJob(c, j, "apply") \/ AskJob(c, j, "remove")
       \/ \E motion, regrid \in BOOLEAN, stream \in Feeds \cup {"none"} : ApplyCamera(c, motion, stream, regrid)
       \/ RemoveCamera(c) \/ Stop(c) \/ Step(c)
  \/ \E w \in Workers : Offer(w) \/ Analyse(w) \/ Analysed(w) \/ End(w)

AiSpec == AiInit /\ [][AiNext]_aiVars

-----------------------------------------------------------------------------
AiTypeOK ==
  /\ camera \in [here : BOOLEAN, motion : BOOLEAN, stream : Feeds \cup {"none"}, tap : Taps \cup {0}, sink : BOOLEAN]
  /\ jobs \in [Jobs -> Workers \cup {0}] /\ contested \subseteq Jobs /\ {running, missed} \subseteq BOOLEAN
  /\ decoding \subseteq Taps /\ watchers \in [Taps -> 0 .. 1]
  /\ worker \in [Workers -> [job : Jobs \cup {"none"}, tap : Taps \cup {0}, attached : BOOLEAN,
                             loop : {"none", "waiting", "analysing"}, run : BOOLEAN, pending : BOOLEAN]]
  /\ \A c \in Callers :
       /\ caller[c].worker \in Workers \cup {0} /\ caller[c].tap \in Taps \cup {0}
       /\ caller[c].orphans \subseteq Workers /\ caller[c].todo \subseteq Jobs

Quiet == \A c \in Callers : caller[c].at = "idle"

(* "One decoder per CAMERA": a second one runs only while the call that    *)
(* took the first away has yet to stop it.                                 *)
OneDecoder == Cardinality(decoding \ {caller[c].tap : c \in {d \in Callers : caller[d].op = "all"}}) <= 1

(* When every call has returned, a decoder that runs is read by motion     *)
(* detection or kept for a job, whatever calls crossed.                    *)
NoDecoderForNobody ==
  Quiet => \A t \in decoding : camera.tap = t /\ (camera.motion \/ \E j \in Jobs : jobs[j] # 0)

(* A camera is decoded once, and for somebody.                             *)
DecodedOnceForSomebody == OneDecoder /\ NoDecoderForNobody

(* ... and a camera that streams and has motion detection on is watched by *)
(* exactly one detector, unless its decoder would not start.               *)
MotionIsWatched ==
  Quiet /\ camera.motion /\ camera.stream # "none" /\ ~ missed =>
    camera.tap \in decoding /\ watchers[camera.tap] = 1

Running(j) == {w \in Workers : worker[w].job = j /\ Live(w)}

(* A job that is not changed by two threads at once is run once: the old   *)
(* worker has been waited for before the new one starts.                   *)
UncontestedRunsOnce == \A j \in Jobs \ contested : Cardinality(Running(j)) <= 1

-----------------------------------------------------------------------------
(* "... one worker per JOB" (AiRuntime.hpp), whoever changes it.           *)
OneWorkerPerJob == \A j \in Jobs : Cardinality(Running(j)) <= 1

(* A job that counts as running has a decoder that feeds it.               *)
RunningIsFed ==
  Quiet => \A j \in Jobs : jobs[j] # 0 /\ Live(jobs[j]) => worker[jobs[j]].tap \in decoding

(* When the runtime has been stopped nothing runs.                         *)
StopIsFinal == Quiet /\ ~ running => decoding = {} /\ \A w \in Workers : ~ Live(w)
=============================================================================
