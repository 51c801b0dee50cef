---------------------------- MODULE StreamManager ----------------------------
(***************************************************************************)
(* media/stream/StreamManager: one worker probes, publishes and retries    *)
(* every camera; the API and the camera events call apply, remove,         *)
(* startStream, stopStream and restartStream from other threads.           *)
(*                                                                         *)
(* The worker copies a session, lets go of the lock for the seconds a      *)
(* probe takes, publishes the mount, and writes the copy back.             *)
(***************************************************************************)
EXTENDS Integers, Sequences

CONSTANTS Cameras,   (* camera ids, in the order of the map                   *)
          Sources,   (* RTSP addresses a camera may have                     *)
          Hardwares, (* hardware settings                                    *)
          MaxCalls,  (* bound: calls from other threads                      *)
          None

ASSUME StreamAssumption ==
  Cameras \subseteq Nat \ {0} /\ MaxCalls \in Nat /\ None \notin Sources \cup Hardwares

VARIABLES sessions, (* m_sessions                                            *)
          mount,    (* the source the RTSP server has mounted per camera     *)
          worker,   (* asleep, scanning (lock held), probing, returning,     *)
                    (* reporting or lost                                     *)
          at,       (* the camera the worker is at in this pass, or 0        *)
          copy,     (* its copy of that session, and whether to report it    *)
          dangling, (* the node the worker's iterator is at was erased       *)
          toReport, (* status reports the worker owes                        *)
          owed,     (* cameras whose report stopStream() owes                *)
          reported, (* the state last reported for each camera               *)
          calls,    (* bound: calls made                                     *)
          running   (* m_running                                             *)

vars == <<sessions, mount, worker, at, copy, dangling, toReport, owed,
          reported, calls, running>>

(* due: when nextAttempt is, of a past moment, a later one, or never.      *)
Session == [source : Sources \cup {None}, hardware : Hardwares, desired : BOOLEAN,
            due : {"now", "later", "never"}, published : BOOLEAN,
            publishedSource : Sources \cup {None},
            publishedHardware : Hardwares \cup {None},
            state : {"Offline", "Error", "Online"}]
NoSession == <<>>
Managed == {c \in Cameras : sessions[c] # NoSession}
Working(c) == at = c /\ worker \in {"probing", "returning"}

Init ==
  /\ sessions = [c \in Cameras |-> NoSession] /\ mount = [c \in Cameras |-> None]
  /\ worker = "asleep" /\ at = 0 /\ copy = NoSession /\ dangling = FALSE
  /\ toReport = <<>> /\ owed = {}
  /\ reported = [c \in Cameras |-> "Offline"] /\ calls = 0 /\ running = TRUE

-----------------------------------------------------------------------------
Fresh(source, hardware) ==
  [source |-> source, hardware |-> hardware, desired |-> TRUE, due |-> "now",
   published |-> FALSE, publishedSource |-> None, publishedHardware |-> None,
   state |-> "Offline"]

HalfTornDown(s) ==  \* mutant: published stays set
  [s EXCEPT !.publishedSource = None, !.publishedHardware = None, !.state = "Offline"]
TornDown(s) == [s EXCEPT !.published = FALSE, !.publishedSource = None,
                         !.publishedHardware = None, !.state = "Offline"]
Unmounted(c) ==
  mount' = [mount EXCEPT ![c] = IF sessions[c].published THEN None ELSE @]

Call(c) ==
  /\ worker # "scanning" /\ running /\ calls < MaxCalls /\ calls' = calls + 1
  /\ UNCHANGED <<worker, at, copy, toReport, reported, running>>

(* apply(): a new session, or the camera's new row.                        *)
AlwaysMoved(s, source, hardware) == TRUE  \* mutant: every row is republished
SourceMoved(s, source, hardware) ==
  s.publishedSource # source \/ s.publishedHardware # hardware

Apply(c, source, hardware) ==
  /\ Call(c)
  /\ IF c \notin Managed
     THEN /\ sessions' = [sessions EXCEPT ![c] = Fresh(source, hardware)]
          /\ UNCHANGED mount
     ELSE LET s == [sessions[c] EXCEPT !.source = source, !.hardware = hardware]
          IN  IF SourceMoved(s, source, hardware)
              THEN /\ sessions' = [sessions EXCEPT ![c] =
                        [TornDown(s) EXCEPT !.desired = TRUE, !.due = "now"]]
                   /\ Unmounted(c)
              ELSE /\ sessions' = [sessions EXCEPT ![c] = s]
                   /\ UNCHANGED mount
  /\ UNCHANGED <<dangling, owed>>

Remove(c) ==
  /\ Call(c) /\ c \in Managed
  /\ sessions' = [sessions EXCEPT ![c] = NoSession] /\ Unmounted(c)
  /\ dangling' = (dangling \/ Working(c))
  /\ UNCHANGED owed

StartStream(c) ==
  /\ Call(c) /\ c \in Managed /\ ~ sessions[c].desired
  /\ sessions' = [sessions EXCEPT ![c] =
       [@ EXCEPT !.desired = TRUE, !.due = "now", !.state = "Offline"]]
  /\ UNCHANGED <<mount, dangling, owed>>

(* It reports what it did after it has released the lock.                  *)
StopStream(c) ==
  /\ Call(c) /\ c \in Managed
  /\ sessions' = [sessions EXCEPT ![c] =
       [TornDown(@) EXCEPT !.desired = FALSE, !.due = "never"]]
  /\ Unmounted(c)
  /\ owed' = IF sessions[c].desired THEN owed \cup {c} ELSE owed
  /\ UNCHANGED dangling

ReportStop(c) ==
  /\ c \in owed /\ owed' = owed \ {c}
  /\ reported' = [reported EXCEPT ![c] = "Offline"]
  /\ UNCHANGED <<sessions, mount, worker, at, copy, dangling, toReport,
                 calls, running>>

RestartStream(c) ==
  /\ Call(c) /\ c \in Managed
  /\ sessions' = [sessions EXCEPT ![c] =
       [TornDown(@) EXCEPT !.desired = TRUE, !.due = "now"]]
  /\ Unmounted(c)
  /\ UNCHANGED <<dangling, owed>>

-----------------------------------------------------------------------------
(* nextAttempt comes.                                                      *)
Due(c) ==
  /\ c \in Managed /\ sessions[c].due = "later"
  /\ sessions' = [sessions EXCEPT ![c].due = "now"]
  /\ UNCHANGED <<mount, worker, at, copy, dangling, toReport, owed, reported,
                 calls, running>>

WakeUp ==
  /\ worker = "asleep" /\ running /\ worker' = "scanning"
  /\ UNCHANGED <<sessions, mount, at, copy, dangling, toReport, owed, reported, calls, running>>

(* The rest of the pass, in the order of the map.                          *)
Left == {c \in Managed : c > at /\ sessions[c].due = "now"}

Take(c) ==
  /\ worker = "scanning" /\ c \in Left /\ \A d \in Left : c <= d
  /\ worker' = "probing" /\ at' = c
  /\ copy' = [session |-> sessions[c], changed |-> FALSE]
  /\ UNCHANGED <<sessions, mount, dangling, toReport, owed, reported, calls, running>>

(* advance() and publishSession(), on the copy and without the lock: what  *)
(* becomes of the copy, whether its mount is published, and whether there  *)
(* is something to report.                                                 *)
FailedPermanently(s) ==  \* mutant: a codec that cannot be carried is never retried
  [s EXCEPT !.state = "Error", !.due = "never"]
Failed(s) == [s EXCEPT !.state = "Error", !.due = "later"]
Published(s) == [s EXCEPT !.state = "Online", !.due = "later", !.published = TRUE,
                          !.publishedSource = s.source, !.publishedHardware = s.hardware]

Outcomes(s) ==
  IF ~ s.desired \/ s.source = None
  THEN {[session |-> [s EXCEPT !.state = "Offline"], mounts |-> FALSE,
         changed |-> s.state # "Offline"]}
  ELSE IF s.published /\ s.state = "Online"
  THEN {[session |-> [s EXCEPT !.due = "later"], mounts |-> FALSE, changed |-> FALSE]}
  ELSE {[session |-> Failed(s), mounts |-> FALSE, changed |-> TRUE],
        [session |-> Published(s), mounts |-> TRUE, changed |-> TRUE]}

Advance ==
  /\ worker = "probing" /\ worker' = "returning"
  /\ \E o \in Outcomes(copy.session) :
       /\ copy' = [session |-> o.session, changed |-> o.changed]
       /\ mount' = IF o.mounts THEN [mount EXCEPT ![at] = o.session.source] ELSE mount
  /\ UNCHANGED <<sessions, at, dangling, toReport, owed, reported, calls, running>>

(* The write-back is given up when the camera is gone or was re-applied.   *)
(* When the node was erased meanwhile the loop goes on from an erased      *)
(* iterator: it may get away with it, or not.                              *)
KeepsCopyAnyway(c) == c \in Managed  \* mutant: a re-applied camera is overwritten
KeepsCopy(c) == c \in Managed /\ sessions[c].source = copy.session.source

Written(old, new) ==
  [old EXCEPT !.due = new.due, !.state = new.state, !.published = new.published,
              !.publishedSource = new.publishedSource,
              !.publishedHardware = new.publishedHardware]

WriteBack ==
  /\ worker = "returning"
  /\ worker' \in IF dangling THEN {"scanning", "lost"} ELSE {"scanning"}
  /\ IF KeepsCopy(at)
     THEN /\ sessions' = [sessions EXCEPT ![at] = Written(@, copy.session)]
          /\ toReport' = IF copy.changed THEN Append(toReport, <<at, copy.session.state>>)
                         ELSE toReport
     ELSE UNCHANGED <<sessions, toReport>>
  /\ copy' = NoSession /\ dangling' = FALSE
  /\ UNCHANGED <<mount, at, owed, reported, calls, running>>

EndScan ==
  /\ worker = "scanning" /\ Left = {} /\ worker' = "reporting" /\ at' = 0
  /\ UNCHANGED <<sessions, mount, copy, dangling, toReport, owed, reported,
                 calls, running>>

Report ==
  /\ worker = "reporting"
  /\ IF toReport = <<>>
     THEN worker' = "asleep" /\ UNCHANGED <<toReport, reported>>
     ELSE /\ reported' = [reported EXCEPT ![Head(toReport)[1]] = Head(toReport)[2]]
          /\ toReport' = Tail(toReport)
          /\ UNCHANGED worker
  /\ UNCHANGED <<sessions, mount, at, copy, dangling, owed, calls, running>>

(* stop(): the worker is joined, what is published is taken down.          *)
Stop ==
  /\ running /\ worker = "asleep" /\ running' = FALSE
  /\ mount' = [c \in Cameras |-> IF c \in Managed /\ sessions[c].published THEN None
                                 ELSE mount[c]]
  /\ sessions' = [c \in Cameras |-> NoSession]
  /\ UNCHANGED <<worker, at, copy, dangling, toReport, owed, reported, calls>>

Work == \/ WakeUp \/ Advance \/ WriteBack \/ EndScan \/ Report
        \/ \E c \in Cameras : Take(c)

Next ==
  \/ Work \/ Stop
  \/ \E c \in Cameras :
       \/ \E source \in Sources \cup {None}, hardware \in Hardwares :
            Apply(c, source, hardware)
       \/ Remove(c) \/ StartStream(c) \/ StopStream(c) \/ RestartStream(c)
       \/ ReportStop(c) \/ Due(c)

Spec == Init /\ [][Next]_vars
FairSpec == /\ Spec /\ WF_vars(Work)
            /\ \A c \in Cameras : WF_vars(Due(c)) /\ WF_vars(ReportStop(c))

-----------------------------------------------------------------------------
TypeOK ==
  /\ sessions \in [Cameras -> Session \cup {NoSession}]
  /\ mount \in [Cameras -> Sources \cup {None}]
  /\ worker \in {"asleep", "scanning", "probing", "returning", "reporting", "lost"}
  /\ \A c \in Managed : sessions[c].published = (sessions[c].publishedSource # None)
  /\ at \in Cameras \cup {0}
  /\ copy \in [session : Session, changed : BOOLEAN] \cup {NoSession}
  /\ dangling \in BOOLEAN /\ owed \subseteq Cameras
  /\ toReport \in Seq(Cameras \X {"Offline", "Error", "Online"})
  /\ reported \in [Cameras -> {"Offline", "Error", "Online"}]
  /\ calls \in 0 .. MaxCalls /\ running \in BOOLEAN

(* Whatever was re-applied while the worker probed, a camera that counts   *)
(* as published counts as published from the source it has now, and what   *)
(* viewers of it get is never the source it had before.                    *)
PublishedIsCurrent ==
  \A c \in Managed : sessions[c].published =>
    /\ sessions[c].publishedSource = sessions[c].source
    /\ mount[c] \in {sessions[c].source, None}

(* A rename drops the viewers in one case only: applying a camera whose    *)
(* source and hardware are what it has already leaves a published mount    *)
(* alone unless the hardware was edited since, or during, the probe that   *)
(* published it (see README: an edit during the probe is not looked at).   *)
Rename(c) == Apply(c, sessions[c].source, sessions[c].hardware)
RenameKeepsViewers ==
  [][\A c \in Managed :
       sessions[c].published /\ Rename(c) /\ mount' # mount
         => sessions[c].publishedHardware # sessions[c].hardware]_vars

(* Every camera is kept streaming: one that is wanted and not published is   *)
(* probed again, however many probes failed.                               *)
Wanted(c) == c \in Managed /\ sessions[c].desired /\ sessions[c].source # None
WantedIsProbed ==
  \A c \in Cameras : Wanted(c) /\ ~ sessions[c].published ~>
    \/ Working(c) \/ ~ Wanted(c) \/ sessions[c].published \/ worker = "lost"

-----------------------------------------------------------------------------
(* What the comments promise and the copy undoes.                          *)

(* The worker must not bring back a stream an operator stopped.            *)
StoppedStaysStopped ==
  \A c \in Managed : ~ sessions[c].desired /\ ~ Working(c) => mount[c] = None

(* A camera removed while the worker probes it leaves no mount behind.     *)
RemovedLeavesNothing ==
  \A c \in Cameras \ Managed : ~ Working(c) => mount[c] = None

(* ... and the worker survives it.                                         *)
WorkerSurvives == worker # "lost"

(* A restart rebuilds the mount: a camera that shows as online has one.    *)
OnlineHasMount ==
  \A c \in Managed : Wanted(c) /\ sessions[c].published /\ ~ Working(c) =>
    mount[c] # None

(* Applying a camera that has not changed changes nothing: a camera        *)
(* stopped by hand stays stopped.                                          *)
RenameDoesNotStart ==
  [][\A c \in Managed : ~ sessions[c].desired /\ Rename(c) =>
       ~ sessions'[c].desired]_vars

(* Reports reflect reality: once everything has been reported, a camera    *)
(* that was stopped is not reported as anything but offline.               *)
StoppedIsReported ==
  \A c \in Managed : sessions[c].due = "never" /\ worker = "asleep" /\ c \notin owed =>
    reported[c] = "Offline"
=============================================================================
