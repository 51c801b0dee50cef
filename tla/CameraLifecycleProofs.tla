----------------------- MODULE CameraLifecycleProofs -----------------------
(***************************************************************************)
(* What holds of the camera service and its stream manager for any number  *)
(* of cameras, addresses, requests, threads and crashes:                   *)
(*                                                                         *)
(*   - what counts as published is published from the address the camera   *)
(*     has now (PublishedIsCurrent), although the worker probes a copy of  *)
(*     the session without the lock;                                       *)
(*   - a camera that was removed does not come back, wherever the process  *)
(*     dies (BuriedStaysBuried);                                           *)
(*   - clients are told of a state after the store has it (PushAfterWrite);*)
(*   - applying a camera as it is drops no viewers, unless its hardware    *)
(*     was edited since it was looked at (RenameKeepsViewers);             *)
(*   - once nothing is under way for a camera, row, stream manager,        *)
(*     recorder, AI runtime and feed agree on it (SettledPartsAgree), and  *)
(*     what the comments promise of its stream holds on the way, if no two *)
(*     calls met on it (PromisesKept, EditKeepsViewers).                   *)
(*                                                                         *)
(* The first half depends on nothing of what an address or a row looks     *)
(* like: of a session or a row only the fields are known. The last item,   *)
(* the second half, needs rows to have the fields the parts read.          *)
(***************************************************************************)
EXTENDS CameraLifecycle, SequenceTheorems, TLAPS

SessionFields == {"source", "hardware", "desired", "due", "published", "publishedSource",
                  "publishedHardware", "state"}
ThreadFields == {"at", "c", "op", "changes", "row", "live", "state", "desired"}
Looking == worker \in {"probing", "returning"}

-----------------------------------------------------------------------------
(* The stream manager.                                                     *)

StreamShape ==
  /\ DOMAIN sessions = Cameras /\ DOMAIN mount = Cameras
  /\ \A c \in Managed : DOMAIN sessions[c] = SessionFields /\ sessions[c].state \in States
  /\ Looking => /\ at \in Cameras /\ DOMAIN copy.session = SessionFields
                /\ copy.session.state \in States
  /\ toReport \in Seq(Cameras \X States)

(* What the worker has in hand: if the copy counts as published it is      *)
(* mounted from the copy's address or not at all, and if the session does, *)
(* nobody has moved it since the copy was taken.                           *)
CopyIsCurrent ==
  Looking =>
    /\ copy.session.published =>
         /\ copy.session.publishedSource = copy.session.source
         /\ mount[at] \in {copy.session.source, None}
    /\ at \in Managed /\ sessions[at].published => sessions[at].source = copy.session.source

StreamInv == StreamShape /\ CopyIsCurrent /\ PublishedIsCurrent

(* Whatever takes the mounts down, or leaves them, keeps what the worker   *)
(* has in hand current; and a session that is taken down counts as nothing. *)
LEMMA TornDownFields ==
  ASSUME NEW s, DOMAIN s = SessionFields
  PROVE  /\ DOMAIN TornDown(s) = SessionFields
         /\ TornDown(s).published = FALSE /\ TornDown(s).state = "Offline"
         /\ TornDown(s).source = s.source
BY DEF TornDown, SessionFields

(* One camera's session is replaced by another, in a call from outside the *)
(* worker, and its mount left or taken down.                               *)
LEMMA SessionReplaced ==
  ASSUME StreamInv, NEW c \in Cameras, NEW s,
         sessions' = [sessions EXCEPT ![c] = s],
         s # NoSession => DOMAIN s = SessionFields /\ s.state \in States,
         DOMAIN mount' = Cameras,
         \A d \in Cameras : mount'[d] = mount[d] \/ (d = c /\ mount'[d] = None),
         s # NoSession /\ s.published => c \in Managed /\ sessions[c].published
                                         /\ s.source = sessions[c].source
                                         /\ s.publishedSource = sessions[c].publishedSource,
         UNCHANGED <<worker, at, copy, toReport>>
  PROVE  StreamInv'
<1> USE DEF StreamInv
<1>1. StreamShape'
  BY DEF StreamShape, Looking, Managed
<1>2. CopyIsCurrent'
  BY DEF StreamShape, CopyIsCurrent, Looking, Managed
<1>3. PublishedIsCurrent'
  BY DEF StreamShape, PublishedIsCurrent, Looking, Managed
<1> QED BY <1>1, <1>2, <1>3

LEMMA ApplyKeeps ==
  ASSUME StreamInv, NEW c \in Cameras, NEW source, NEW hardware, Apply(c, source, hardware)
  PROVE  StreamInv' /\ \A d \in Cameras \ {c} : sessions'[d] = sessions[d]
<1> DEFINE s == [sessions[c] EXCEPT !.source = source, !.hardware = hardware]
           u == [TornDown(s) EXCEPT !.desired = TRUE, !.due = "now"]
           f == Fresh(source, hardware)
<1>0. DOMAIN sessions = Cameras /\ UNCHANGED <<worker, at, copy, toReport>>
  BY DEF Apply, Call, StreamInv, StreamShape
<1>1. CASE c \notin Managed
  <2>1. sessions' = [sessions EXCEPT ![c] = f] /\ mount' = mount /\ DOMAIN mount = Cameras
    BY <1>1 DEF Apply, StreamInv, StreamShape
  <2>2. DOMAIN f = SessionFields /\ f.state \in States /\ ~ f.published
    BY DEF Fresh, SessionFields, States
  <2> HIDE DEF f
  <2>3. StreamInv'
    BY <1>0, <2>1, <2>2, SessionReplaced
  <2> QED BY <1>0, <2>1, <2>3
<1>2. CASE c \in Managed /\ SourceMoved(s, source, hardware)
  <2>1. sessions' = [sessions EXCEPT ![c] = u] /\ Unmounted(c)
    BY <1>2 DEF Apply
  <2>2. DOMAIN s = SessionFields
    BY <1>2 DEF StreamInv, StreamShape, SessionFields
  <2>3. DOMAIN u = SessionFields /\ u.state \in States /\ u.published = FALSE
    <3> HIDE DEF s
    <3> QED BY <2>2, TornDownFields DEF SessionFields, States
  <2>4. /\ DOMAIN mount' = Cameras
        /\ \A d \in Cameras : mount'[d] = mount[d] \/ (d = c /\ mount'[d] = None)
    BY <2>1 DEF Unmounted, StreamInv, StreamShape
  <2> HIDE DEF u
  <2>5. StreamInv'
    BY <1>0, <2>1, <2>3, <2>4, SessionReplaced
  <2> QED BY <1>0, <2>1, <2>5
<1>3. CASE c \in Managed /\ ~ SourceMoved(s, source, hardware)
  <2>1. sessions' = [sessions EXCEPT ![c] = s] /\ mount' = mount /\ DOMAIN mount = Cameras
    BY <1>3 DEF Apply, StreamInv, StreamShape
  <2>2. /\ DOMAIN s = SessionFields /\ s.state \in States /\ s.source = source
        /\ s.published = sessions[c].published
        /\ s.publishedSource = sessions[c].publishedSource
    BY <1>3 DEF StreamInv, StreamShape, SessionFields
  <2>3. s.publishedSource = source
    BY <1>3 DEF SourceMoved
  <2>4. s.published => s.source = sessions[c].source
    BY <1>3, <2>2, <2>3 DEF StreamInv, PublishedIsCurrent
  <2> HIDE DEF s
  <2>5. StreamInv'
    BY <1>0, <1>3, <2>1, <2>2, <2>4, SessionReplaced
  <2> QED BY <1>0, <2>1, <2>5
<1> QED BY <1>1, <1>2, <1>3

LEMMA RemoveKeeps ==
  ASSUME StreamInv, NEW c \in Cameras, Remove(c)
  PROVE  StreamInv' /\ \A d \in Cameras : d \notin Managed => sessions'[d] = NoSession
<1>1. /\ sessions' = [sessions EXCEPT ![c] = NoSession] /\ DOMAIN sessions = Cameras
      /\ UNCHANGED <<worker, at, copy, toReport>>
  BY DEF Remove, Call, StreamInv, StreamShape
<1>2. /\ DOMAIN mount' = Cameras
      /\ \A d \in Cameras : mount'[d] = mount[d] \/ (d = c /\ mount'[d] = None)
  BY DEF Remove, Unmounted, StreamInv, StreamShape
<1>3. StreamInv'
  BY <1>1, <1>2, SessionReplaced
<1> QED BY <1>1, <1>3 DEF Managed

LEMMA StartKeeps ==
  ASSUME StreamInv, NEW c \in Cameras, StartStream(c)
  PROVE  StreamInv' /\ \A d \in Cameras : d \notin Managed => sessions'[d] = NoSession
<1> DEFINE s == [sessions[c] EXCEPT !.desired = TRUE, !.due = "now", !.state = "Offline"]
<1>1. /\ sessions' = [sessions EXCEPT ![c] = s] /\ mount' = mount /\ c \in Managed
      /\ UNCHANGED <<worker, at, copy, toReport>>
      /\ DOMAIN sessions = Cameras /\ DOMAIN mount = Cameras
  BY DEF StartStream, Call, StreamInv, StreamShape
<1>2. /\ DOMAIN s = SessionFields /\ s.state \in States /\ s.source = sessions[c].source
      /\ s.published = sessions[c].published /\ s.publishedSource = sessions[c].publishedSource
  BY <1>1 DEF StreamInv, StreamShape, SessionFields, States
<1> HIDE DEF s
<1>3. StreamInv'
  BY <1>1, <1>2, SessionReplaced
<1> QED BY <1>1, <1>3 DEF Managed

LEMMA StopKeeps ==
  ASSUME StreamInv, NEW c \in Cameras, StopStream(c)
  PROVE  StreamInv' /\ \A d \in Cameras : d \notin Managed => sessions'[d] = NoSession
<1> DEFINE s == [TornDown(sessions[c]) EXCEPT !.desired = FALSE, !.due = "never"]
<1>1. /\ sessions' = [sessions EXCEPT ![c] = s] /\ c \in Managed
      /\ UNCHANGED <<worker, at, copy, toReport>>
      /\ DOMAIN sessions = Cameras /\ DOMAIN mount = Cameras
  BY DEF StopStream, Call, StreamInv, StreamShape
<1>2. /\ DOMAIN mount' = Cameras
      /\ \A d \in Cameras : mount'[d] = mount[d] \/ (d = c /\ mount'[d] = None)
  BY DEF StopStream, Unmounted, StreamInv, StreamShape
<1>3. DOMAIN sessions[c] = SessionFields
  BY <1>1 DEF StreamInv, StreamShape
<1>4. DOMAIN s = SessionFields /\ s.state \in States /\ s.published = FALSE
  BY <1>3, TornDownFields DEF SessionFields, States
<1> HIDE DEF s
<1>5. StreamInv'
  BY <1>1, <1>2, <1>4, SessionReplaced
<1> QED BY <1>1, <1>5 DEF Managed

LEMMA RestartKeeps ==
  ASSUME StreamInv, NEW c \in Cameras, RestartStream(c)
  PROVE  StreamInv' /\ \A d \in Cameras : d \notin Managed => sessions'[d] = NoSession
<1> DEFINE s == [TornDown(sessions[c]) EXCEPT !.desired = TRUE, !.due = "now"]
<1>1. /\ sessions' = [sessions EXCEPT ![c] = s] /\ c \in Managed
      /\ UNCHANGED <<worker, at, copy, toReport>>
      /\ DOMAIN sessions = Cameras /\ DOMAIN mount = Cameras
  BY DEF RestartStream, Call, StreamInv, StreamShape
<1>2. /\ DOMAIN mount' = Cameras
      /\ \A d \in Cameras : mount'[d] = mount[d] \/ (d = c /\ mount'[d] = None)
  BY DEF RestartStream, Unmounted, StreamInv, StreamShape
<1>3. DOMAIN sessions[c] = SessionFields
  BY <1>1 DEF StreamInv, StreamShape
<1>4. DOMAIN s = SessionFields /\ s.state \in States /\ s.published = FALSE
  BY <1>3, TornDownFields DEF SessionFields, States
<1> HIDE DEF s
<1>5. StreamInv'
  BY <1>1, <1>2, <1>4, SessionReplaced
<1> QED BY <1>1, <1>5 DEF Managed

LEMMA DueKeeps ==
  ASSUME StreamInv, NEW c \in Cameras, Due(c)
  PROVE  StreamInv' /\ \A d \in Cameras : d \notin Managed => sessions'[d] = NoSession
<1> DEFINE s == [sessions[c] EXCEPT !.due = "now"]
<1>1. /\ sessions' = [sessions EXCEPT ![c] = s] /\ c \in Managed /\ mount' = mount
      /\ UNCHANGED <<worker, at, copy, toReport>>
      /\ DOMAIN sessions = Cameras /\ DOMAIN mount = Cameras
  BY DEF Due, StreamInv, StreamShape
<1>2. /\ DOMAIN s = SessionFields /\ s.state \in States /\ s.source = sessions[c].source
      /\ s.published = sessions[c].published /\ s.publishedSource = sessions[c].publishedSource
  BY <1>1 DEF StreamInv, StreamShape, SessionFields
<1> HIDE DEF s
<1>3. StreamInv'
  BY <1>1, <1>2, SessionReplaced
<1> QED BY <1>1, <1>3 DEF Managed

LEMMA WakeUpKeeps ==
  ASSUME StreamInv, WakeUp PROVE StreamInv' /\ sessions' = sessions
BY DEF WakeUp, StreamInv, StreamShape, CopyIsCurrent, PublishedIsCurrent, Looking, Managed

LEMMA TakeKeeps ==
  ASSUME StreamInv, NEW c \in Cameras, Take(c) PROVE StreamInv' /\ sessions' = sessions
<1>1. /\ c \in Managed /\ at' = c /\ copy'.session = sessions[c]
      /\ UNCHANGED <<sessions, mount, toReport>>
  BY DEF Take, Left
<1> QED BY <1>1 DEF StreamInv, StreamShape, CopyIsCurrent, PublishedIsCurrent, Looking, Managed

(* advance(): a failure leaves the copy as published as it was, a success  *)
(* mounts it from its own address.                                         *)
LEMMA OutcomeFields ==
  ASSUME NEW s, DOMAIN s = SessionFields, s.state \in States, NEW o \in Outcomes(s)
  PROVE  /\ DOMAIN o.session = SessionFields /\ o.session.state \in States
         /\ o.session.source = s.source
         /\ ~ o.mounts => /\ o.session.published = s.published
                          /\ o.session.publishedSource = s.publishedSource
         /\ o.mounts => o.session.publishedSource = s.source
<1> DEFINE a == [s EXCEPT !.state = "Offline"]
           b == [s EXCEPT !.due = "later"]
           f == Failed(s)
           p == Published(s)
<1>1. \/ o = [session |-> a, mounts |-> FALSE, changed |-> s.state # "Offline"]
      \/ o = [session |-> b, mounts |-> FALSE, changed |-> FALSE]
      \/ o = [session |-> f, mounts |-> FALSE, changed |-> TRUE]
      \/ o = [session |-> p, mounts |-> TRUE, changed |-> TRUE]
  <2> HIDE DEF f, p
  <2> QED BY DEF Outcomes, f, p
<1>2. /\ DOMAIN a = SessionFields /\ a.state \in States /\ a.source = s.source
      /\ a.published = s.published /\ a.publishedSource = s.publishedSource
  BY DEF SessionFields, States
<1>3. /\ DOMAIN b = SessionFields /\ b.state \in States /\ b.source = s.source
      /\ b.published = s.published /\ b.publishedSource = s.publishedSource
  BY DEF SessionFields, States
<1>4. /\ DOMAIN f = SessionFields /\ f.state \in States /\ f.source = s.source
      /\ f.published = s.published /\ f.publishedSource = s.publishedSource
  BY DEF Failed, SessionFields, States
<1>5. /\ DOMAIN p = SessionFields /\ p.state \in States /\ p.source = s.source
      /\ p.publishedSource = s.source
  BY DEF Published, SessionFields, States
<1> HIDE DEF a, b, f, p
<1> QED BY <1>1, <1>2, <1>3, <1>4, <1>5

LEMMA AdvanceKeeps ==
  ASSUME StreamInv, Advance PROVE StreamInv' /\ sessions' = sessions
<1>1. PICK o \in Outcomes(copy.session) :
        /\ copy' = [session |-> o.session, changed |-> o.changed]
        /\ mount' = IF o.mounts THEN [mount EXCEPT ![at] = o.session.source] ELSE mount
  BY DEF Advance
<1>2. /\ Looking /\ Looking' /\ UNCHANGED <<sessions, at, toReport>> /\ copy'.session = o.session
      /\ at \in Cameras /\ DOMAIN copy.session = SessionFields /\ copy.session.state \in States
      /\ DOMAIN mount = Cameras
  BY <1>1 DEF Advance, Looking, StreamInv, StreamShape
<1>3. /\ DOMAIN o.session = SessionFields /\ o.session.state \in States
      /\ o.session.source = copy.session.source
      /\ ~ o.mounts => /\ o.session.published = copy.session.published
                       /\ o.session.publishedSource = copy.session.publishedSource
      /\ o.mounts => o.session.publishedSource = copy.session.source
  BY <1>2, OutcomeFields
<1>4. StreamShape'
  BY <1>1, <1>2, <1>3 DEF StreamInv, StreamShape, Managed
<1>5. CASE o.mounts
  <2>1. mount' = [mount EXCEPT ![at] = copy.session.source]
    BY <1>1, <1>3, <1>5
  <2>2. CopyIsCurrent'
    BY <1>2, <1>3, <1>5, <2>1 DEF StreamInv, CopyIsCurrent, Managed
  <2>3. PublishedIsCurrent'
    BY <1>2, <2>1 DEF StreamInv, CopyIsCurrent, PublishedIsCurrent, Managed
  <2> QED BY <1>2, <1>4, <2>2, <2>3 DEF StreamInv
<1>6. CASE ~ o.mounts
  <2>1. mount' = mount
    BY <1>1, <1>6
  <2>2. CopyIsCurrent'
    BY <1>2, <1>3, <1>6, <2>1 DEF StreamInv, CopyIsCurrent, Managed
  <2>3. PublishedIsCurrent'
    BY <1>2, <2>1 DEF StreamInv, PublishedIsCurrent, Managed
  <2> QED BY <1>2, <1>4, <2>2, <2>3 DEF StreamInv
<1> QED BY <1>5, <1>6

LEMMA WriteBackKeeps ==
  ASSUME StreamInv, WriteBack
  PROVE  StreamInv' /\ \A d \in Cameras : d \notin Managed => sessions'[d] = NoSession
<1>1. /\ Looking /\ ~ Looking' /\ mount' = mount /\ at \in Cameras
      /\ DOMAIN copy.session = SessionFields /\ copy.session.state \in States
      /\ DOMAIN sessions = Cameras
  BY DEF WriteBack, Looking, StreamInv, StreamShape
<1>2. CopyIsCurrent'
  BY <1>1 DEF CopyIsCurrent
<1>3. CASE KeepsCopy(at)
  <2> DEFINE w == Written(sessions[at], copy.session)
  <2>1. sessions' = [sessions EXCEPT ![at] = w]
    BY <1>3 DEF WriteBack
  <2>2. at \in Managed /\ sessions[at].source = copy.session.source
    BY <1>3 DEF KeepsCopy
  <2>3. DOMAIN sessions[at] = SessionFields
    BY <2>2 DEF StreamInv, StreamShape
  <2>4. /\ DOMAIN w = SessionFields /\ w.state = copy.session.state
        /\ w.published = copy.session.published
        /\ w.publishedSource = copy.session.publishedSource /\ w.source = sessions[at].source
    BY <2>3 DEF Written, SessionFields
  <2> HIDE DEF w
  <2>5. PublishedIsCurrent'
    BY <1>1, <2>1, <2>2, <2>4 DEF StreamInv, PublishedIsCurrent, CopyIsCurrent, Managed
  <2>6. toReport' \in Seq(Cameras \X States)
    <3>1. <<at, copy.session.state>> \in Cameras \X States
      BY <1>1
    <3> DEFINE e == <<at, copy.session.state>>
    <3>2. toReport' = Append(toReport, e) \/ toReport' = toReport
      BY <1>3 DEF WriteBack
    <3> HIDE DEF e
    <3>3. e \in Cameras \X States /\ toReport \in Seq(Cameras \X States)
      BY <3>1 DEF StreamInv, StreamShape, e
    <3> QED BY <3>2, <3>3, AppendProperties
  <2>7. StreamShape'
    BY <1>1, <2>1, <2>4, <2>6 DEF StreamInv, StreamShape, Managed
  <2> QED BY <1>1, <1>2, <2>1, <2>2, <2>5, <2>7 DEF StreamInv, Managed
<1>4. CASE ~ KeepsCopy(at)
  <2>1. sessions' = sessions /\ toReport' = toReport
    BY <1>4 DEF WriteBack
  <2> QED BY <1>1, <1>2, <2>1 DEF StreamInv, StreamShape, PublishedIsCurrent, Managed
<1> QED BY <1>3, <1>4

LEMMA EndScanKeeps ==
  ASSUME StreamInv, EndScan PROVE StreamInv' /\ sessions' = sessions
BY DEF EndScan, StreamInv, StreamShape, CopyIsCurrent, PublishedIsCurrent, Looking, Managed

LEMMA ReportKeeps ==
  ASSUME StreamInv, Report
  PROVE  /\ StreamInv' /\ sessions' = sessions
         /\ toReport # <<>> => Head(toReport)[1] \in Cameras /\ Head(toReport)[2] \in States
<1>1. toReport' \in Seq(Cameras \X States)
  <2>1. toReport \in Seq(Cameras \X States)
    BY DEF StreamInv, StreamShape
  <2>2. toReport' = toReport \/ (toReport # <<>> /\ toReport' = Tail(toReport))
    BY DEF Report
  <2> QED BY <2>1, <2>2, HeadTailProperties
<1>2. toReport # <<>> => Head(toReport) \in Cameras \X States
  BY HeadTailProperties DEF StreamInv, StreamShape
<1>3. ~ Looking' /\ UNCHANGED <<sessions, mount>>
  BY DEF Report, Looking
<1> QED BY <1>1, <1>2, <1>3
        DEF StreamInv, StreamShape, CopyIsCurrent, PublishedIsCurrent, Managed

LEMMA ReportStopKeeps ==
  ASSUME StreamInv, NEW c \in Cameras, ReportStop(c) PROVE StreamInv' /\ sessions' = sessions
BY DEF ReportStop, StreamInv, StreamShape, CopyIsCurrent, PublishedIsCurrent, Looking, Managed

(* Nothing is managed, nothing is probed.                                  *)
LEMMA EmptyIsSound ==
  ASSUME DOMAIN sessions' = Cameras, \A c \in Cameras : sessions'[c] = NoSession,
         DOMAIN mount' = Cameras, ~ Looking', toReport' \in Seq(Cameras \X States)
  PROVE  StreamInv'
BY DEF StreamInv, StreamShape, CopyIsCurrent, PublishedIsCurrent, Managed

LEMMA StopAllKeeps ==
  ASSUME StreamInv, Stop
  PROVE  StreamInv' /\ \A d \in Cameras : sessions'[d] = NoSession
<1>1. /\ DOMAIN sessions' = Cameras /\ \A c \in Cameras : sessions'[c] = NoSession
      /\ DOMAIN mount' = Cameras /\ ~ Looking' /\ toReport' \in Seq(Cameras \X States)
  BY DEF Stop, Looking, StreamInv, StreamShape
<1> QED BY <1>1, EmptyIsSound

LEMMA StreamInitSound ==
  ASSUME Init PROVE StreamInv
<1>1. toReport \in Seq(Cameras \X States)
  BY EmptySeq DEF Init
<1> QED BY <1>1 DEF Init, StreamInv, StreamShape, CopyIsCurrent, PublishedIsCurrent, Managed, Looking

LEMMA StreamStutter ==
  ASSUME StreamInv, UNCHANGED vars PROVE StreamInv' /\ sessions' = sessions
BY DEF vars, StreamInv, StreamShape, CopyIsCurrent, PublishedIsCurrent, Looking, Managed

LEMMA StreamNextKeeps ==
  ASSUME StreamInv, [Next]_vars PROVE StreamInv'
<1>1. CASE Work
  BY <1>1, WakeUpKeeps, AdvanceKeeps, WriteBackKeeps, EndScanKeeps, ReportKeeps, TakeKeeps
     DEF Work
<1>2. CASE Stop
  BY <1>2, StopAllKeeps
<1>3. ASSUME NEW c \in Cameras,
             \/ \E source \in Sources \cup {None}, hardware \in Hardwares :
                  Apply(c, source, hardware)
             \/ Remove(c) \/ StartStream(c) \/ StopStream(c) \/ RestartStream(c)
             \/ ReportStop(c) \/ Due(c)
      PROVE  StreamInv'
  BY <1>3, ApplyKeeps, RemoveKeeps, StartKeeps, StopKeeps, RestartKeeps, ReportStopKeeps, DueKeeps
<1>4. CASE UNCHANGED vars
  BY <1>4, StreamStutter
<1> QED BY <1>1, <1>2, <1>3, <1>4 DEF Next

(* The stream manager on its own: whatever calls come from other threads   *)
(* while the worker probes, what counts as published is published from     *)
(* the address the camera has now.                                         *)
THEOREM StreamsPublishedIsCurrent == Spec => []PublishedIsCurrent
<1>1. Init => StreamInv
  BY StreamInitSound
<1>2. StreamInv /\ [Next]_vars => StreamInv'
  BY StreamNextKeeps
<1>3. StreamInv => PublishedIsCurrent
  BY DEF StreamInv
<1> QED BY <1>1, <1>2, <1>3, PTL DEF Spec

-----------------------------------------------------------------------------
(* Viewers.                                                                *)

(* A camera that is published from the address and on the hardware it has  *)
(* keeps its mount when it is applied once more.                           *)
LEMMA SameSourceStays ==
  ASSUME StreamInv, NEW c \in Managed, NEW source, NEW hardware, Apply(c, source, hardware),
         sessions[c].publishedSource = source, sessions[c].publishedHardware = hardware
  PROVE  mount' = mount
<1> DEFINE s == [sessions[c] EXCEPT !.source = source, !.hardware = hardware]
<1>1. DOMAIN sessions[c] = SessionFields
  BY DEF StreamInv, StreamShape, Managed
<1>2. s.publishedSource = source /\ s.publishedHardware = hardware
  BY <1>1 DEF SessionFields
<1>3. ~ SourceMoved(s, source, hardware)
  BY <1>2 DEF SourceMoved
<1> QED BY <1>3 DEF Apply

(* The address is the one the camera was published from, as far as the     *)
(* session knows, whatever was called while the worker probed: a camera    *)
(* applied as it is loses its viewers only if it was put on other hardware *)
(* since it was looked at.                                                 *)
THEOREM StreamsRenameKeepsViewers == Spec => RenameKeepsViewers
<1>1. Init => StreamInv
  BY StreamInitSound
<1>2. StreamInv /\ [Next]_vars => StreamInv'
  BY StreamNextKeeps
<1>3. StreamInv /\ [Next]_vars =>
        [\A c \in Managed :
           sessions[c].published /\ Rename(c) /\ mount' # mount
             => sessions[c].publishedHardware # sessions[c].hardware]_vars
  <2> SUFFICES ASSUME StreamInv, NEW c \in Managed, sessions[c].published, Rename(c),
                      sessions[c].publishedHardware = sessions[c].hardware
               PROVE  mount' = mount
    OBVIOUS
  <2>1. sessions[c].publishedSource = sessions[c].source
    BY DEF StreamInv, PublishedIsCurrent
  <2> QED BY <2>1, SameSourceStays DEF Rename
<1> QED BY <1>1, <1>2, <1>3, PTL DEF Spec, RenameKeepsViewers

-----------------------------------------------------------------------------
(* The threads and the store.                                              *)

RemovalStages == {"read", "delete", "streams", "recorder", "runtime", "clients"}

LifeShape ==
  /\ DOMAIN thread = Threads /\ DOMAIN rows = Cameras /\ DOMAIN feed = Cameras
  /\ DOMAIN removed = Cameras
  /\ \A t \in Threads : DOMAIN thread[t] = ThreadFields
  /\ \A t \in Threads : thread[t].at # "idle" =>
       /\ thread[t].c \in Cameras
       /\ thread[t].op = "remove" => thread[t].at \in RemovalStages
  /\ \A c \in Cameras : rows[c] # NoRow => DOMAIN rows[c] = {"camera", "state"}

(* Two threads at work on one camera have met there.                       *)
MeetingsAreSeen ==
  \A t, u \in Threads :
    t # u /\ thread[t].at # "idle" /\ thread[u].at # "idle" /\ thread[t].c = thread[u].c =>
      thread[t].c \in contested

(* Between the write and the push of a callback the row stays as written.  *)
WrittenFirst ==
  Postgres => \A t \in Threads : thread[t].at = "push" /\ thread[t].c \notin contested =>
    rows[thread[t].c] = NoRow \/ rows[thread[t].c].state = thread[t].state

(* While main restores, no request runs and nothing to restore was ever    *)
(* removed.                                                                *)
RestoresTheLiving ==
  phase = "restoring" =>
    /\ \A t \in Http : thread[t].at = "idle"
    /\ \A c \in toRestore : c \in Cameras /\ removed[c] = "no"

(* While a new camera's row is still to be inserted there is none, and     *)
(* nobody inserts or removes another of the same id.                       *)
InsertedOnce ==
  \A t \in Threads : thread[t].at = "insert" =>
    /\ rows[thread[t].c] = NoRow /\ removed[thread[t].c] = "no"
    /\ \A u \in Threads \ {t} : thread[u].c = thread[t].c =>
         /\ thread[u].at # "insert"
         /\ thread[u].op = "remove" => thread[u].at \in {"idle", "read"}

(* The row goes first, and what has none is not created or changed.        *)
RowGoesFirst ==
  /\ \A t \in Threads : thread[t].at = "streams" /\ thread[t].op = "remove" =>
       rows[thread[t].c] = NoRow
  /\ \A c \in Cameras : removed[c] # "no" => rows[c] = NoRow
  /\ \A c \in Cameras : removed[c] = "buried" =>
       /\ sessions[c] = NoSession
       /\ \A t \in Threads : thread[t].c = c /\ thread[t].op \in {"create", "update"} =>
            thread[t].at \in {"idle", "read"}

LifeInv == /\ LifeShape /\ MeetingsAreSeen /\ WrittenFirst /\ RestoresTheLiving
           /\ InsertedOnce /\ RowGoesFirst

(* What a step of a thread on its camera may do: it goes on to a place     *)
(* that fits what it has done so far, or ends; it changes no other row and *)
(* puts back none that is gone, and starts no stream that is buried.       *)
LEMMA ThreadStep ==
  ASSUME LifeInv, NEW t \in Threads, thread[t].at # "idle", NEW n,
         thread' = [thread EXCEPT ![t] = n], DOMAIN n = ThreadFields,
         n.at # "idle" => /\ n.c = thread[t].c
                          /\ n.op = thread[t].op \/ n.op \notin {"create", "update", "remove"},
         n.at \notin {"insert", "read"},
         n.at # "idle" /\ n.op = "remove" => n.at \in RemovalStages,
         n.at = "push" => rows'[n.c] = NoRow \/ rows'[n.c].state = n.state,
         thread[t].at = "read" /\ rows[thread[t].c] = NoRow => n.at = "idle",
         n.at = "streams" /\ n.op = "remove" => rows'[n.c] = NoRow,
         DOMAIN rows' = Cameras,
         \A c \in Cameras : /\ c # thread[t].c => rows'[c] = rows[c]
                            /\ rows[c] = NoRow => rows'[c] = NoRow
                            /\ rows'[c] # NoRow => DOMAIN rows'[c] = {"camera", "state"},
         DOMAIN feed' = Cameras, DOMAIN removed' = Cameras,
         \A c \in Cameras :
           removed'[c] = removed[c] \/ (c = thread[t].c /\ removed'[c] = "torn" /\ t \in Http
                                        /\ thread[t].at \notin {"idle", "read"}
                                        /\ thread[t].op = "remove" /\ rows[c] = NoRow),
         \A c \in Cameras : removed[c] = "buried" => sessions'[c] = NoSession,
         UNCHANGED <<contested, phase, toRestore>>
  PROVE  LifeInv'
<1> USE DEF LifeInv
<1>0. thread[t].c \in Cameras
  BY DEF LifeShape
<1>1. LifeShape'
  BY <1>0 DEF LifeShape
<1>2. MeetingsAreSeen'
  BY <1>0 DEF LifeShape, MeetingsAreSeen
<1>3. WrittenFirst'
  BY <1>0 DEF LifeShape, MeetingsAreSeen, WrittenFirst
<1>4. RestoresTheLiving'
  BY <1>0 DEF LifeShape, RestoresTheLiving, Threads
<1>5. InsertedOnce'
  BY <1>0 DEF LifeShape, InsertedOnce
<1>6. RowGoesFirst'
  BY <1>0 DEF LifeShape, InsertedOnce, RowGoesFirst
<1> QED BY <1>1, <1>2, <1>3, <1>4, <1>5, <1>6

(* The locals of a thread that ends, or goes to the next step.             *)
LEMMA IdleFields == DOMAIN Idle = ThreadFields /\ Idle.at = "idle" /\ Idle.op = "none"
BY DEF Idle, ThreadFields

LEMMA GotoFields ==
  ASSUME LifeInv, NEW t \in Threads, NEW next, Goto(t, next)
  PROVE  \E n : /\ thread' = [thread EXCEPT ![t] = n]
                /\ DOMAIN n = ThreadFields /\ n.at = next /\ n.c = thread[t].c
                /\ n.op = thread[t].op /\ n.state = thread[t].state
<1> DEFINE n == [thread[t] EXCEPT !.at = next]
<1>1. thread' = [thread EXCEPT ![t] = n]
  BY DEF Goto
<1>2. DOMAIN n = ThreadFields /\ n.at = next /\ n.c = thread[t].c /\ n.op = thread[t].op
      /\ n.state = thread[t].state
  BY DEF LifeInv, LifeShape, ThreadFields
<1> HIDE DEF n
<1> QED BY <1>1, <1>2

LEMMA CallbackGoesOn ==
  ASSUME NEW t \in Threads, NextOfCallback(t)
  PROVE  /\ thread[t].at = "write" => Goto(t, "push")
         /\ thread[t].at = "push" => Goto(t, "fetch")
<1> DEFINE i == CHOOSE k \in 1 .. 2 : CallbackOrder[k] = thread[t].at
<1>1. CallbackOrder[1] = "write" /\ CallbackOrder[2] = "push" /\ CallbackOrder[3] = "fetch"
  BY DEF CallbackOrder
<1>2. \A k \in 1 .. 2 : k = 1 \/ k = 2
  OBVIOUS
<1>3. thread[t].at = "write" => i = 1
  BY <1>1, <1>2
<1>4. thread[t].at = "push" => i = 2
  BY <1>1, <1>2
<1>5. Goto(t, CallbackOrder[1 + i])
  BY DEF NextOfCallback
<1> HIDE DEF i
<1>6. 1 + 1 = 2 /\ 1 + 2 = 3
  OBVIOUS
<1> QED BY <1>1, <1>3, <1>4, <1>5, <1>6

LEMMA RemovalGoesOn ==
  ASSUME NEW t \in Threads, NextRemoval(t)
  PROVE  /\ thread[t].at = "delete" => Goto(t, "streams")
         /\ thread[t].at = "streams" => Goto(t, "recorder")
         /\ thread[t].at = "recorder" => Goto(t, "runtime")
         /\ thread[t].at = "runtime" => Goto(t, "clients")
         /\ thread[t].at = "clients" => Done(t)
<1> DEFINE i == CHOOSE k \in 1 .. 5 : RemovalOrder[k] = thread[t].at
<1>1. /\ RemovalOrder[1] = "delete" /\ RemovalOrder[2] = "streams"
      /\ RemovalOrder[3] = "recorder" /\ RemovalOrder[4] = "runtime"
      /\ RemovalOrder[5] = "clients"
  BY DEF RemovalOrder
<1>2. \A k \in 1 .. 5 : k = 1 \/ k = 2 \/ k = 3 \/ k = 4 \/ k = 5
  OBVIOUS
<1>3. /\ thread[t].at = "delete" => i = 1
      /\ thread[t].at = "streams" => i = 2
      /\ thread[t].at = "recorder" => i = 3
      /\ thread[t].at = "runtime" => i = 4
      /\ thread[t].at = "clients" => i = 5
  BY <1>1, <1>2
<1>4. IF i = 5 THEN Done(t) ELSE Goto(t, RemovalOrder[i + 1])
  BY DEF NextRemoval
<1> HIDE DEF i
<1>5. 1 + 1 = 2 /\ 2 + 1 = 3 /\ 3 + 1 = 4 /\ 4 + 1 = 5
  OBVIOUS
<1> QED BY <1>1, <1>3, <1>4, <1>5

-----------------------------------------------------------------------------
(* The steps of a request.                                                 *)
LifeRest == <<contested, phase, toRestore>>

(* The steps that only change who runs for the camera: the thread ends or  *)
(* goes on to a step after the row, and the store is not touched.          *)
LEMMA TellingStep ==
  ASSUME LifeInv, NEW t \in Threads, NEW next, Goto(t, next) \/ Done(t),
         thread[t].at \notin {"idle", "read"},
         next \notin {"idle", "insert", "read", "push"},
         next = "streams" => thread[t].op # "remove",
         thread[t].op = "remove" => next \in RemovalStages,
         \A c \in Cameras : removed[c] = "buried" => sessions'[c] = NoSession,
         DOMAIN feed' = Cameras, UNCHANGED <<rows, removed, contested, phase, toRestore>>
  PROVE  LifeInv'
<1>0. DOMAIN rows = Cameras /\ DOMAIN removed = Cameras
      /\ \A c \in Cameras : rows[c] # NoRow => DOMAIN rows[c] = {"camera", "state"}
  BY DEF LifeInv, LifeShape
<1>1. CASE Goto(t, next)
  <2>1. PICK n : /\ thread' = [thread EXCEPT ![t] = n]
                 /\ DOMAIN n = ThreadFields /\ n.at = next /\ n.c = thread[t].c
                 /\ n.op = thread[t].op /\ n.state = thread[t].state
    BY <1>1, GotoFields
  <2> QED BY <1>0, <2>1, ThreadStep
<1>2. CASE Done(t)
  <2>1. thread' = [thread EXCEPT ![t] = Idle]
    BY <1>2 DEF Done
  <2> QED BY <1>0, <2>1, IdleFields, ThreadStep
<1> QED BY <1>1, <1>2

LEMMA StatusKeeps ==
  ASSUME LifeInv, StreamInv, NEW t \in Threads, Status(t) PROVE LifeInv' /\ StreamInv'
<1> DEFINE n == [thread[t] EXCEPT !.at = "recording", !.live = StillLive(t)]
<1>1. /\ thread' = [thread EXCEPT ![t] = n] /\ thread[t].at = "status"
      /\ UNCHANGED <<vars, rows, feed, removed, contested, phase, toRestore>>
  BY DEF Status, Others, parts, process
<1>2. DOMAIN n = ThreadFields /\ n.at = "recording" /\ n.c = thread[t].c /\ n.op = thread[t].op
  BY DEF LifeInv, LifeShape, ThreadFields
<1> HIDE DEF n
<1>3. /\ DOMAIN rows = Cameras /\ DOMAIN removed = Cameras /\ DOMAIN feed = Cameras
      /\ \A c \in Cameras : rows[c] # NoRow => DOMAIN rows[c] = {"camera", "state"}
  BY DEF LifeInv, LifeShape
<1>4. StreamInv' /\ sessions' = sessions
  BY <1>1, StreamStutter
<1>5. \A c \in Cameras : removed[c] = "buried" => sessions'[c] = NoSession
  BY <1>4 DEF LifeInv, RowGoesFirst
<1>6. n.op # "remove"
  BY <1>1, <1>2 DEF LifeInv, LifeShape, RemovalStages
<1> QED BY <1>1, <1>2, <1>3, <1>4, <1>5, <1>6, ThreadStep

LEMMA TellingKeeps ==
  ASSUME LifeInv, StreamInv, NEW t \in Threads,
         \/ TellRecording(t) \/ TellAi(t) \/ TellSaving(t)
         \/ RemoveRecording(t) \/ RemoveAi(t) \/ RemoveFeed(t)
         \/ ReportRecording(t) \/ ReportAi(t) \/ ReportSaving(t)
  PROVE  LifeInv' /\ StreamInv'
<1>1. /\ UNCHANGED <<vars, rows, removed, contested, phase, toRestore>>
      /\ DOMAIN feed' = Cameras /\ thread[t].at \notin {"idle", "read"}
  BY DEF TellRecording, TellAi, TellSaving, RemoveRecording, RemoveAi, RemoveFeed, Removing,
         ReportRecording, ReportAi, ReportSaving, process, LifeInv, LifeShape
<1>2. StreamInv' /\ sessions' = sessions
  BY <1>1, StreamStutter
<1>3. \A c \in Cameras : removed[c] = "buried" => sessions'[c] = NoSession
  BY <1>2 DEF LifeInv, RowGoesFirst
<1>4. \/ thread[t].at \in {"recording", "ai", "saving", "report-recording", "report-ai",
                          "report-saving"} /\ thread[t].op # "remove"
      \/ thread[t].at \in {"recorder", "runtime", "clients"}
  BY DEF TellRecording, TellAi, TellSaving, RemoveRecording, RemoveAi, RemoveFeed, Removing,
         ReportRecording, ReportAi, ReportSaving, LifeInv, LifeShape, RemovalStages
<1>5. CASE thread[t].at \in {"recording", "ai", "saving", "report-recording", "report-ai",
                             "report-saving"} /\ thread[t].op # "remove"
  <2>1. PICK next \in {"ai", "saving", "streams", "report-ai", "report-saving"} :
          Goto(t, next) \/ Done(t)
    BY <1>5 DEF TellRecording, TellAi, TellSaving, RemoveRecording, RemoveAi, RemoveFeed, Removing,
                ReportRecording, ReportAi, ReportSaving
  <2> QED BY <1>1, <1>2, <1>3, <1>5, <2>1, TellingStep
<1>6. CASE thread[t].at \in {"recorder", "runtime", "clients"}
  <2>1. NextRemoval(t)
    BY <1>6 DEF TellRecording, TellAi, TellSaving, RemoveRecording, RemoveAi, RemoveFeed, Removing,
                ReportRecording, ReportAi, ReportSaving
  <2>2. PICK next \in {"runtime", "clients"} : Goto(t, next) \/ Done(t)
    BY <1>6, <2>1, RemovalGoesOn
  <2> QED BY <1>1, <1>2, <1>3, <1>6, <2>2, TellingStep DEF RemovalStages
<1> QED BY <1>4, <1>5, <1>6

(* What every step below needs to know of the state it starts from.        *)
LEMMA Known ==
  ASSUME LifeInv
  PROVE  /\ DOMAIN thread = Threads /\ DOMAIN rows = Cameras /\ DOMAIN removed = Cameras
         /\ DOMAIN feed = Cameras
         /\ \A c \in Cameras : rows[c] # NoRow => DOMAIN rows[c] = {"camera", "state"}
         /\ \A c \in Cameras : removed[c] = "buried" => sessions[c] = NoSession
         /\ \A t \in Threads : thread[t].at # "idle" => thread[t].c \in Cameras
BY DEF LifeInv, LifeShape, RowGoesFirst

(* One that goes on, and at most changes its camera's row.                 *)
LEMMA ThreadGoesOn ==
  ASSUME LifeInv, NEW t \in Threads, thread[t].at \notin {"idle", "read"}, NEW n,
         thread' = [thread EXCEPT ![t] = n], DOMAIN n = ThreadFields,
         n.at \notin {"idle", "insert", "read"}, n.c = thread[t].c, n.op = thread[t].op,
         n.op = "remove" => n.at \in RemovalStages,
         n.at = "push" => rows'[n.c] = NoRow \/ rows'[n.c].state = n.state,
         n.at = "streams" /\ n.op = "remove" => rows'[n.c] = NoRow,
         DOMAIN rows' = Cameras,
         \A d \in Cameras : /\ d # thread[t].c => rows'[d] = rows[d]
                            /\ rows[d] = NoRow => rows'[d] = NoRow
                            /\ rows'[d] # NoRow => DOMAIN rows'[d] = {"camera", "state"},
         sessions' = sessions, UNCHANGED <<feed, removed, contested, phase, toRestore>>
  PROVE  LifeInv'
<1>1. DOMAIN feed' = Cameras /\ DOMAIN removed' = Cameras
  BY Known
<1>2. \A d \in Cameras : /\ removed'[d] = removed[d]
                         /\ removed[d] = "buried" => sessions'[d] = NoSession
  BY Known
<1> QED BY <1>1, <1>2, ThreadStep

LEMMA ReadKeeps ==
  ASSUME LifeInv, StreamInv, NEW t \in Threads, Read(t) PROVE LifeInv' /\ StreamInv'
<1>1. /\ thread[t].at = "read" /\ thread[t].c \in Cameras
      /\ UNCHANGED <<vars, rows, feed, removed, contested, phase, toRestore>>
  BY Known DEF Read, Others, parts, process
<1>2. StreamInv' /\ sessions' = sessions
  BY <1>1, StreamStutter
<1>3. CASE rows[thread[t].c] = NoRow
  <2>1. thread' = [thread EXCEPT ![t] = Idle]
    BY <1>3 DEF Read, Done
  <2> QED BY <1>1, <1>2, <2>1, Known, IdleFields, ThreadStep
<1>4. CASE rows[thread[t].c] # NoRow
  <2> DEFINE n == [thread[t] EXCEPT !.at = AfterRead(thread[t].op), !.row = rows[thread[t].c]]
  <2>1. thread' = [thread EXCEPT ![t] = n]
    BY <1>4 DEF Read
  <2>2. /\ DOMAIN n = ThreadFields /\ n.at = AfterRead(thread[t].op)
        /\ n.c = thread[t].c /\ n.op = thread[t].op
    BY DEF LifeInv, LifeShape, ThreadFields
  <2> HIDE DEF n
  <2>3. /\ AfterRead(thread[t].op) \in {"store", "delete", "streams"}
        /\ thread[t].op = "remove" => AfterRead(thread[t].op) = "delete"
    BY DEF AfterRead, RemovalOrder
  <2> QED BY <1>1, <1>2, <1>4, <2>1, <2>2, <2>3, Known, ThreadStep DEF RemovalStages
<1> QED BY <1>3, <1>4

LEMMA StoreKeeps ==
  ASSUME LifeInv, StreamInv, NEW t \in Threads, Store(t) PROVE LifeInv' /\ StreamInv'
<1> DEFINE c == thread[t].c
           camera == Changed(thread[t].changes, thread[t].row.camera)
           r == Updated(rows[c], camera, thread[t].row.state)
<1>1. /\ thread[t].at = "store" /\ c \in Cameras /\ rows' = [rows EXCEPT ![c] = r]
      /\ UNCHANGED <<vars, feed, removed, contested, phase, toRestore>>
  BY Known DEF Store, parts, process
<1>2. StreamInv' /\ sessions' = sessions
  BY <1>1, StreamStutter
<1>3. IF rows[c] = NoRow THEN r = NoRow ELSE DOMAIN r = {"camera", "state"}
  BY <1>1, Known DEF Updated
<1>4. thread[t].op # "remove"
  BY <1>1 DEF LifeInv, LifeShape, RemovalStages
<1>5. Done(t) \/ Goto(t, "status")
  BY DEF Store
<1> HIDE DEF r, c
<1>6. /\ DOMAIN rows' = Cameras
      /\ \A d \in Cameras : /\ d # c => rows'[d] = rows[d]
                            /\ rows[d] = NoRow => rows'[d] = NoRow
                            /\ rows'[d] # NoRow => DOMAIN rows'[d] = {"camera", "state"}
  BY <1>1, <1>3, Known
<1>7. CASE Done(t)
  <2>1. PICK n : /\ thread' = [thread EXCEPT ![t] = n]
                 /\ DOMAIN n = ThreadFields /\ n.at = "idle" /\ n.op = "none"
    BY <1>7, IdleFields DEF Done
  <2>2. /\ n.at \notin {"insert", "read", "push", "streams"}
        /\ thread[t].at \notin {"idle", "read"}
        /\ \A d \in Cameras : removed[d] = "buried" => sessions'[d] = NoSession
        /\ \A d \in Cameras : removed'[d] = removed[d]
    BY <1>1, <1>2, <2>1, Known
  <2>3. /\ n.at = "push" => rows'[n.c] = NoRow \/ rows'[n.c].state = n.state
        /\ n.at = "streams" /\ n.op = "remove" => rows'[n.c] = NoRow
    BY <2>1
  <2> QED BY <1>1, <1>2, <1>6, <2>1, <2>2, <2>3, Known, ThreadStep DEF c
<1>8. CASE Goto(t, "status")
  <2>1. PICK n : /\ thread' = [thread EXCEPT ![t] = n]
                 /\ DOMAIN n = ThreadFields /\ n.at = "status" /\ n.c = thread[t].c
                 /\ n.op = thread[t].op
    BY <1>8, GotoFields
  <2> QED BY <1>1, <1>2, <1>4, <1>6, <2>1, Known, ThreadStep DEF c
<1> QED BY <1>5, <1>7, <1>8

LEMMA TellStreamsKeeps ==
  ASSUME LifeInv, StreamInv, NEW t \in Threads, TellStreams(t) PROVE LifeInv' /\ StreamInv'
<1> DEFINE source == ToldCamera(t).rtsp
           hardware == ToldCamera(t).hardware
<1>1. /\ thread[t].at = "streams" /\ thread[t].op \in {"create", "update"} /\ Done(t)
      /\ thread[t].c \in Cameras
      /\ Apply(thread[t].c, source, hardware)
      /\ UNCHANGED <<rows, feed, removed, contested, phase, toRestore>>
  BY Known DEF TellStreams, Others, parts, process
<1> HIDE DEF source, hardware
<1>2. StreamInv' /\ \A d \in Cameras \ {thread[t].c} : sessions'[d] = sessions[d]
  BY <1>1, ApplyKeeps
<1>3. removed[thread[t].c] # "buried"
  BY <1>1 DEF LifeInv, RowGoesFirst
<1>4. thread' = [thread EXCEPT ![t] = Idle]
  BY <1>1 DEF Done
<1> QED BY <1>1, <1>2, <1>3, <1>4, Known, IdleFields, ThreadStep

LEMMA OrderStreamKeeps ==
  ASSUME LifeInv, StreamInv, NEW t \in Threads, OrderStream(t) PROVE LifeInv' /\ StreamInv'
<1> DEFINE c == thread[t].c
           op == thread[t].op
<1>1. /\ thread[t].at = "streams" /\ op \in {"start", "stop", "restart"} /\ c \in Cameras
      /\ UNCHANGED <<rows, feed, removed, contested, phase, toRestore>>
  BY Known DEF OrderStream, Others, parts, process
<1>2. /\ Done(t) \/ Goto(t, "owes")
      /\ UNCHANGED vars \/ StartStream(c) \/ StopStream(c) \/ RestartStream(c)
  BY <1>1 DEF OrderStream, Order
<1>3. StreamInv' /\ \A d \in Cameras : d \notin Managed => sessions'[d] = NoSession
  BY <1>1, <1>2, StreamStutter, StartKeeps, StopKeeps, RestartKeeps DEF Managed
<1>4. \A d \in Cameras : removed[d] = "buried" => sessions'[d] = NoSession
  BY <1>3, Known DEF Managed
<1> QED BY <1>1, <1>2, <1>3, <1>4, Known, TellingStep

LEMMA DeleteRowKeeps ==
  ASSUME LifeInv, StreamInv, NEW t \in Threads, DeleteRow(t) PROVE LifeInv' /\ StreamInv'
<1>1. /\ thread[t].at = "delete" /\ thread[t].op = "remove" /\ thread[t].c \in Cameras
      /\ rows' = [rows EXCEPT ![thread[t].c] = NoRow]
      /\ UNCHANGED <<vars, feed, removed, contested, phase, toRestore>>
  BY Known DEF DeleteRow, Removing, parts, process
<1>2. StreamInv' /\ sessions' = sessions
  BY <1>1, StreamStutter
<1>3. Done(t) \/ Goto(t, "streams")
  BY <1>1, RemovalGoesOn DEF DeleteRow
<1>4. /\ DOMAIN rows' = Cameras /\ rows'[thread[t].c] = NoRow
      /\ \A d \in Cameras : /\ d # thread[t].c => rows'[d] = rows[d]
                            /\ rows[d] = NoRow => rows'[d] = NoRow
                            /\ rows'[d] # NoRow => DOMAIN rows'[d] = {"camera", "state"}
  BY <1>1, Known
<1>5. CASE Done(t)
  <2>1. PICK n : /\ thread' = [thread EXCEPT ![t] = n]
                 /\ DOMAIN n = ThreadFields /\ n.at = "idle" /\ n.op = "none"
    BY <1>5, IdleFields DEF Done
  <2>2. /\ n.at \notin {"insert", "read", "push", "streams"}
        /\ thread[t].at \notin {"idle", "read"}
        /\ \A d \in Cameras : removed[d] = "buried" => sessions'[d] = NoSession
        /\ \A d \in Cameras : removed'[d] = removed[d]
    BY <1>1, <1>2, <2>1, Known
  <2>3. /\ n.at = "push" => rows'[n.c] = NoRow \/ rows'[n.c].state = n.state
        /\ n.at = "streams" /\ n.op = "remove" => rows'[n.c] = NoRow
    BY <2>1
  <2> QED BY <1>1, <1>2, <1>4, <2>1, <2>2, <2>3, Known, ThreadStep
<1>6. CASE Goto(t, "streams")
  <2>1. PICK n : /\ thread' = [thread EXCEPT ![t] = n]
                 /\ DOMAIN n = ThreadFields /\ n.at = "streams" /\ n.c = thread[t].c
                 /\ n.op = thread[t].op
    BY <1>6, GotoFields
  <2>2. /\ n.at \notin {"idle", "insert", "read", "push"} /\ n.at \in RemovalStages
        /\ thread[t].at \notin {"idle", "read"} /\ rows'[n.c] = NoRow
    BY <1>1, <1>4, <2>1 DEF RemovalStages
  <2>3. LifeInv'
    BY <1>1, <1>2, <1>4, <2>1, <2>2, ThreadGoesOn
  <2> QED BY <1>2, <2>3
<1> QED BY <1>3, <1>5, <1>6

LEMMA RemoveStreamKeeps ==
  ASSUME LifeInv, StreamInv, NEW t \in Http, RemoveStream(t) PROVE LifeInv' /\ StreamInv'
<1>1. /\ t \in Threads /\ thread[t].at = "streams" /\ thread[t].op = "remove"
      /\ thread[t].c \in Cameras
      /\ removed' = [removed EXCEPT ![thread[t].c] = "torn"]
      /\ UNCHANGED <<rows, feed, contested, phase, toRestore>>
  BY Known DEF RemoveStream, Removing, Threads, parts
<1>2. Goto(t, "recorder")
  BY <1>1, RemovalGoesOn DEF RemoveStream
<1>3. StreamInv' /\ \A d \in Cameras : d \notin Managed => sessions'[d] = NoSession
  BY <1>1, StreamStutter, RemoveKeeps DEF Managed, RemoveStream
<1>4. \A d \in Cameras : removed[d] = "buried" => sessions'[d] = NoSession
  BY <1>3, Known DEF Managed
<1>5. rows[thread[t].c] = NoRow
  BY <1>1 DEF LifeInv, RowGoesFirst
<1>6. PICK n : /\ thread' = [thread EXCEPT ![t] = n]
               /\ DOMAIN n = ThreadFields /\ n.at = "recorder" /\ n.c = thread[t].c
               /\ n.op = thread[t].op
  BY <1>1, <1>2, GotoFields
<1> QED BY <1>1, <1>3, <1>4, <1>5, <1>6, Known, ThreadStep DEF RemovalStages

(* A request begins: it meets whoever is at work on the camera.            *)
LEMMA BeginKeeps ==
  ASSUME LifeInv, StreamInv, NEW t \in Http, NEW op, NEW c \in Cameras, NEW changes,
         NEW first, Begin(t, op, c, changes, first),
         \/ first = "read"
         \/ /\ first = "insert" /\ op = "create" /\ rows[c] = NoRow /\ removed[c] = "no"
            /\ \A u \in Threads : thread[u].c # c
  PROVE  LifeInv' /\ StreamInv'
<1> USE DEF LifeInv
<1> DEFINE n == [Idle EXCEPT !.at = first, !.op = op, !.c = c, !.changes = changes]
<1>1. /\ t \in Threads /\ thread[t].at = "idle" /\ phase = "up"
      /\ thread' = [thread EXCEPT ![t] = n]
      /\ UNCHANGED <<vars, rows, feed, removed, phase, toRestore>>
      /\ contested \subseteq contested'
      /\ (\E u \in Threads : thread[u].at # "idle" /\ thread[u].c = c) => c \in contested'
  BY DEF Begin, Busy, Threads, parts
<1>2. DOMAIN n = ThreadFields /\ n.at = first /\ n.op = op /\ n.c = c
  BY DEF Idle, ThreadFields
<1> HIDE DEF n
<1>3. StreamInv' /\ sessions' = sessions
  BY <1>1, StreamStutter
<1>4. LifeShape'
  BY <1>1, <1>2 DEF LifeShape, RemovalStages
<1>5. MeetingsAreSeen'
  BY <1>1, <1>2 DEF LifeShape, MeetingsAreSeen
<1>6. WrittenFirst'
  BY <1>1, <1>2 DEF LifeShape, WrittenFirst
<1>7. RestoresTheLiving'
  BY <1>1 DEF RestoresTheLiving
<1>8. InsertedOnce'
  BY <1>1, <1>2 DEF LifeShape, InsertedOnce
<1>9. RowGoesFirst'
  <2>1. \A u \in Threads : thread'[u].at = "streams" => u # t /\ thread'[u] = thread[u]
    BY <1>1, <1>2 DEF LifeShape
  <2>2. \A u \in Threads : thread'[u] = thread[u] \/ (u = t /\ thread'[u] = n)
    BY <1>1 DEF LifeShape
  <2>3. removed[c] = "buried" => first = "read"
    OBVIOUS
  <2> QED BY <1>1, <1>2, <1>3, <2>1, <2>2, <2>3 DEF LifeShape, RowGoesFirst
<1> QED BY <1>3, <1>4, <1>5, <1>6, <1>7, <1>8, <1>9

LEMMA InsertKeeps ==
  ASSUME LifeInv, StreamInv, NEW t \in Http, Insert(t) PROVE LifeInv' /\ StreamInv'
<1> USE DEF LifeInv
<1> DEFINE c == thread[t].c
           r == Inserted(Created(thread[t].changes))
           n == [thread[t] EXCEPT !.at = "streams", !.row = r]
<1>1. /\ t \in Threads /\ thread[t].at = "insert" /\ c \in Cameras
      /\ thread' = [thread EXCEPT ![t] = n] /\ rows' = [rows EXCEPT ![c] = r]
      /\ UNCHANGED <<vars, feed, removed, contested, phase, toRestore>>
  BY Known DEF Insert, Threads, parts, process
<1>2. DOMAIN r = {"camera", "state"}
  BY DEF Inserted
<1>3. DOMAIN n = ThreadFields /\ n.at = "streams" /\ n.op = thread[t].op /\ n.c = c
  BY <1>1 DEF LifeShape, ThreadFields
<1>4. thread[t].op # "remove"
  BY <1>1 DEF LifeShape, RemovalStages
<1>5. removed[c] = "no" /\ \A u \in Threads \ {t} : thread[u].c = c =>
        /\ thread[u].at # "insert"
        /\ thread[u].op = "remove" => thread[u].at \in {"idle", "read"}
  BY <1>1 DEF InsertedOnce
<1> HIDE DEF n, r, c
<1>6. StreamInv' /\ sessions' = sessions
  BY <1>1, StreamStutter
<1>7. \A u \in Threads : thread'[u] = thread[u] \/ (u = t /\ thread'[u] = n)
  BY <1>1 DEF LifeShape
<1>8. LifeShape'
  BY <1>1, <1>2, <1>3, <1>4 DEF LifeShape
<1>9. MeetingsAreSeen'
  BY <1>1, <1>3, <1>7 DEF LifeShape, MeetingsAreSeen, c
<1>10. WrittenFirst'
  BY <1>1, <1>3, <1>7 DEF LifeShape, WrittenFirst, MeetingsAreSeen, c
<1>11. RestoresTheLiving'
  BY <1>1, <1>7 DEF RestoresTheLiving
<1>12. InsertedOnce'
  BY <1>1, <1>3, <1>5, <1>7 DEF LifeShape, InsertedOnce, c
<1>13. RowGoesFirst'
  BY <1>1, <1>3, <1>4, <1>5, <1>6, <1>7 DEF LifeShape, RowGoesFirst, c
<1> QED BY <1>6, <1>8, <1>9, <1>10, <1>11, <1>12, <1>13

-----------------------------------------------------------------------------
(* The callback.                                                           *)

LEMMA WriteRowKeeps ==
  ASSUME LifeInv, StreamInv, NEW t \in Threads, WriteRow(t) PROVE LifeInv' /\ StreamInv'
<1> DEFINE c == thread[t].c
           r == RuntimeUpdated(rows[c], thread[t].state)
<1>1. /\ thread[t].at = "write" /\ c \in Cameras /\ rows' = [rows EXCEPT ![c] = r]
      /\ UNCHANGED <<vars, feed, removed, contested, phase, toRestore>>
  BY Known DEF WriteRow, parts, process
<1>2. StreamInv' /\ sessions' = sessions
  BY <1>1, StreamStutter
<1>3. IF rows[c] = NoRow THEN r = NoRow
      ELSE DOMAIN r = {"camera", "state"} /\ r.state = thread[t].state
  BY <1>1, Known DEF RuntimeUpdated
<1>4. thread[t].op # "remove"
  BY <1>1 DEF LifeInv, LifeShape, RemovalStages
<1>5. Goto(t, "push")
  BY <1>1, CallbackGoesOn DEF WriteRow
<1>6. PICK n : /\ thread' = [thread EXCEPT ![t] = n]
               /\ DOMAIN n = ThreadFields /\ n.at = "push" /\ n.c = thread[t].c
               /\ n.op = thread[t].op /\ n.state = thread[t].state
  BY <1>5, GotoFields
<1> HIDE DEF r, c
<1>7. /\ DOMAIN rows' = Cameras /\ rows'[c] = r
      /\ \A d \in Cameras : /\ d # c => rows'[d] = rows[d]
                            /\ rows[d] = NoRow => rows'[d] = NoRow
                            /\ rows'[d] # NoRow => DOMAIN rows'[d] = {"camera", "state"}
  BY <1>1, <1>3, Known
<1>8. rows'[n.c] = NoRow \/ rows'[n.c].state = n.state
  BY <1>3, <1>6, <1>7 DEF c
<1>9. /\ n.at \notin {"idle", "insert", "read", "streams"} /\ n.op # "remove"
      /\ thread[t].at \notin {"idle", "read"}
  BY <1>1, <1>4, <1>6
<1>10. LifeInv'
  BY <1>1, <1>2, <1>6, <1>7, <1>8, <1>9, ThreadGoesOn DEF c
<1> QED BY <1>2, <1>10

LEMMA PushStateKeeps ==
  ASSUME LifeInv, StreamInv, NEW t \in Threads, PushState(t) PROVE LifeInv' /\ StreamInv'
<1>1. /\ thread[t].at = "push" /\ DOMAIN feed' = Cameras
      /\ UNCHANGED <<vars, rows, removed, contested, phase, toRestore>>
  BY Known DEF PushState, Push, process
<1>2. StreamInv' /\ sessions' = sessions
  BY <1>1, StreamStutter
<1>3. Goto(t, "fetch")
  BY <1>1, CallbackGoesOn DEF PushState
<1>4. thread[t].op # "remove"
  BY <1>1 DEF LifeInv, LifeShape, RemovalStages
<1> QED BY <1>1, <1>2, <1>3, <1>4, Known, TellingStep

LEMMA FetchKeeps ==
  ASSUME LifeInv, StreamInv, NEW t \in Threads, Fetch(t) PROVE LifeInv' /\ StreamInv'
<1> DEFINE m == [thread[t] EXCEPT !.at = "report-recording", !.row = rows[thread[t].c],
                                  !.live = thread[t].state = "Online"]
<1>1. /\ thread[t].at = "fetch"
      /\ UNCHANGED <<vars, rows, feed, removed, contested, phase, toRestore>>
  BY DEF Fetch, Others, parts, process
<1>2. StreamInv' /\ sessions' = sessions
  BY <1>1, StreamStutter
<1>3. thread[t].op # "remove"
  BY <1>1 DEF LifeInv, LifeShape, RemovalStages
<1>4. /\ DOMAIN m = ThreadFields /\ m.at = "report-recording" /\ m.c = thread[t].c
      /\ m.op = thread[t].op
  BY DEF LifeInv, LifeShape, ThreadFields
<1>5. thread' = [thread EXCEPT ![t] = Idle] \/ thread' = [thread EXCEPT ![t] = m]
  BY DEF Fetch, Done
<1> HIDE DEF m
<1>6. PICK n : /\ thread' = [thread EXCEPT ![t] = n] /\ DOMAIN n = ThreadFields
               /\ n.at \in {"idle", "report-recording"}
               /\ n.at # "idle" => n.c = thread[t].c /\ n.op = thread[t].op
  BY <1>4, <1>5, IdleFields
<1> QED BY <1>1, <1>2, <1>3, <1>6, Known, ThreadStep

LEMMA StopperReportsKeeps ==
  ASSUME LifeInv, StreamInv, NEW t \in Threads, StopperReports(t) PROVE LifeInv' /\ StreamInv'
<1> DEFINE n == Called(thread[t].c, "Offline", FALSE, "stop")
<1>1. /\ thread[t].at = "owes" /\ thread[t].c \in Cameras /\ ReportStop(thread[t].c)
      /\ thread' = [thread EXCEPT ![t] = n]
      /\ UNCHANGED <<rows, feed, removed, contested, phase, toRestore>>
  BY Known DEF StopperReports, Others, parts, process
<1>2. StreamInv' /\ sessions' = sessions
  BY <1>1, ReportStopKeeps
<1>3. DOMAIN n = ThreadFields /\ n.at = "write" /\ n.c = thread[t].c /\ n.op = "stop"
  BY IdleFields DEF Called, CallbackOrder, ThreadFields
<1> HIDE DEF n
<1> QED BY <1>1, <1>2, <1>3, Known, ThreadStep

(* The worker takes the next report: its thread begins, as a request does. *)
LEMMA WorkerReportsKeeps ==
  ASSUME LifeInv, StreamInv, WorkerReports PROVE LifeInv' /\ StreamInv'
<1> USE DEF LifeInv
<1> DEFINE t == "worker"
           c == Head(toReport)[1]
           n == Called(c, Head(toReport)[2], TRUE, "report")
<1>1. /\ t \in Threads /\ thread[t].at = "idle" /\ Report
      /\ UNCHANGED <<rows, feed, removed, phase, toRestore>>
      /\ contested \subseteq contested'
  BY DEF WorkerReports, Threads, parts, process
<1>2. /\ StreamInv' /\ sessions' = sessions
      /\ toReport # <<>> => c \in Cameras
  BY <1>1, ReportKeeps
<1>3. DOMAIN n = ThreadFields /\ n.at = "write" /\ n.c = c /\ n.op = "report"
  BY IdleFields DEF Called, CallbackOrder, ThreadFields
<1>4. CASE toReport = <<>>
  <2>1. thread' = thread
    BY <1>4 DEF WorkerReports
  <2> QED BY <1>1, <1>2, <2>1 DEF LifeShape, MeetingsAreSeen, WrittenFirst, RestoresTheLiving,
                                InsertedOnce, RowGoesFirst
<1>5. CASE toReport # <<>>
  <2>1. thread' = [thread EXCEPT ![t] = n]
    BY <1>5 DEF WorkerReports
  <2>2. (\E u \in Threads : thread[u].at # "idle" /\ thread[u].c = c) => c \in contested'
    BY <1>2, <1>5 DEF WorkerReports, Busy
  <2>3. c \in Cameras
    BY <1>2, <1>5
  <2> HIDE DEF n, c
  <2>4. LifeShape'
    BY <1>1, <1>3, <2>1, <2>3 DEF LifeShape
  <2>5. MeetingsAreSeen'
    BY <1>1, <1>3, <2>1, <2>2 DEF LifeShape, MeetingsAreSeen
  <2>6. WrittenFirst'
    BY <1>1, <1>3, <2>1 DEF LifeShape, WrittenFirst
  <2>7. RestoresTheLiving'
    <3>1. \A u \in Http : thread'[u] = thread[u]
      BY <2>1, LifecycleAssumption DEF LifeShape, Threads
    <3> QED BY <1>1, <3>1 DEF RestoresTheLiving
  <2>8. InsertedOnce'
    BY <1>1, <1>3, <2>1 DEF LifeShape, InsertedOnce
  <2>9. RowGoesFirst'
    <3>1. \A u \in Threads : thread'[u] = thread[u] \/ (u = t /\ thread'[u] = n)
      BY <2>1 DEF LifeShape
    <3> QED BY <1>1, <1>2, <1>3, <3>1 DEF LifeShape, RowGoesFirst
  <2> QED BY <1>2, <2>4, <2>5, <2>6, <2>7, <2>8, <2>9
<1> QED BY <1>4, <1>5

-----------------------------------------------------------------------------
(* The worker, the shutdown, a crash and what main restores after it.      *)

LEMMA QuietKeeps ==
  ASSUME LifeInv, UNCHANGED <<thread, rows, feed, removed>>, contested \subseteq contested',
         phase' = "restoring" => phase = "restoring" /\ toRestore' \subseteq toRestore,
         \A d \in Cameras : removed[d] = "buried" => sessions'[d] = NoSession
  PROVE  LifeInv'
BY DEF LifeInv, LifeShape, MeetingsAreSeen, WrittenFirst, RestoresTheLiving, InsertedOnce,
       RowGoesFirst

LEMMA WorkerKeeps ==
  ASSUME LifeInv, StreamInv, WorkerStep \/ \E c \in Cameras : TakeUp(c) \/ Tick(c)
  PROVE  LifeInv' /\ StreamInv'
<1>1. /\ StreamInv' /\ \A d \in Cameras : d \notin Managed => sessions'[d] = NoSession
  BY WakeUpKeeps, AdvanceKeeps, WriteBackKeeps, EndScanKeeps, TakeKeeps, DueKeeps
     DEF WorkerStep, TakeUp, Tick, Managed
<1>2. /\ UNCHANGED <<thread, rows, feed, removed, phase, toRestore>>
      /\ contested \subseteq contested'
  BY DEF WorkerStep, TakeUp, Tick, Others, parts, process
<1>3. \A d \in Cameras : removed[d] = "buried" => sessions'[d] = NoSession
  BY <1>1, Known DEF Managed
<1> QED BY <1>1, <1>2, <1>3, QuietKeeps

LEMMA ShutdownKeeps ==
  ASSUME LifeInv, StreamInv, ServerStops \/ AiStops \/ RecordingStops \/ StreamsStop \/ Restored
  PROVE  LifeInv' /\ StreamInv'
<1>1. /\ StreamInv' /\ \A d \in Cameras : d \notin Managed => sessions'[d] = NoSession
  <2>1. UNCHANGED vars \/ Stop
    BY DEF ServerStops, AiStops, RecordingStops, StreamsStop, Restored
  <2> QED BY <2>1, StreamStutter, StopAllKeeps DEF Managed
<1>2. /\ UNCHANGED <<thread, rows, feed, removed, contested>> /\ phase' # "restoring"
  <2>1. CASE ServerStops  BY <2>1 DEF ServerStops, parts
  <2>2. CASE AiStops  BY <2>2 DEF AiStops
  <2>3. CASE RecordingStops  BY <2>3 DEF RecordingStops
  <2>4. CASE StreamsStop  BY <2>4 DEF StreamsStop, parts
  <2>5. CASE Restored  BY <2>5 DEF Restored, parts
  <2> QED BY <2>1, <2>2, <2>3, <2>4, <2>5
<1>3. \A d \in Cameras : removed[d] = "buried" => sessions'[d] = NoSession
  BY <1>1, Known DEF Managed
<1> QED BY <1>1, <1>2, <1>3, QuietKeeps

LEMMA RestoreKeeps ==
  ASSUME LifeInv, StreamInv, NEW c \in Cameras, Restore(c) PROVE LifeInv' /\ StreamInv'
<1> DEFINE source == rows[c].camera.rtsp
           hardware == rows[c].camera.hardware
<1>1. /\ Apply(c, source, hardware) /\ phase = "restoring" /\ c \in toRestore
      /\ toRestore' \subseteq toRestore
      /\ UNCHANGED <<thread, rows, feed, removed, phase, contested>>
  BY DEF Restore
<1> HIDE DEF source, hardware
<1>2. StreamInv' /\ \A d \in Cameras \ {c} : sessions'[d] = sessions[d]
  BY <1>1, ApplyKeeps
<1>3. removed[c] = "no"
  BY <1>1 DEF LifeInv, RestoresTheLiving
<1>4. \A d \in Cameras : removed[d] = "buried" => sessions'[d] = NoSession
  BY <1>2, <1>3, Known
<1> QED BY <1>1, <1>2, <1>4, QuietKeeps

LEMMA CrashKeeps ==
  ASSUME LifeInv, StreamInv, Crash PROVE LifeInv' /\ StreamInv'
<1> USE DEF LifeInv
<1>1. /\ DOMAIN sessions' = Cameras /\ \A c \in Cameras : sessions'[c] = NoSession
      /\ DOMAIN mount' = Cameras /\ ~ Looking' /\ toReport' \in Seq(Cameras \X States)
  BY EmptySeq DEF Crash, Looking
<1>2. /\ thread' = [t \in Threads |-> Idle] /\ phase' = "restoring"
      /\ toRestore' = {c \in Cameras : rows'[c] # NoRow}
      /\ removed' = [c \in Cameras |-> IF removed[c] = "no" THEN "no" ELSE "buried"]
      /\ feed' = [c \in Cameras |-> Nothing]
      /\ rows' = rows \/ rows' = [c \in Cameras |-> NoRow]
  BY DEF Crash
<1>3. \A t \in Threads : thread'[t].at = "idle" /\ DOMAIN thread'[t] = ThreadFields
  BY <1>2, IdleFields
<1>4. /\ DOMAIN thread' = Threads /\ DOMAIN feed' = Cameras /\ DOMAIN removed' = Cameras
      /\ Http \subseteq Threads
  BY <1>2 DEF Threads
<1>5. /\ DOMAIN rows' = Cameras
      /\ \A c \in Cameras : rows'[c] # NoRow => rows'[c] = rows[c]
  BY <1>2, Known
<1>6. LifeShape'
  BY <1>3, <1>4, <1>5 DEF LifeShape
<1>7. MeetingsAreSeen' /\ WrittenFirst' /\ InsertedOnce'
  BY <1>3 DEF MeetingsAreSeen, WrittenFirst, InsertedOnce
<1>8. RestoresTheLiving'
  BY <1>2, <1>3, <1>4, <1>5 DEF RestoresTheLiving, RowGoesFirst
<1>9. RowGoesFirst'
  BY <1>1, <1>2, <1>3, <1>5 DEF RowGoesFirst
<1> QED BY <1>1, <1>6, <1>7, <1>8, <1>9, EmptyIsSound

LEMMA LifeInitSound == LifeInit => LifeInv /\ StreamInv
<1> SUFFICES ASSUME LifeInit PROVE LifeInv /\ StreamInv
  OBVIOUS
<1>1. StreamInv
  BY StreamInitSound DEF LifeInit
<1>2. \A t \in Threads : thread[t].at = "idle" /\ DOMAIN thread[t] = ThreadFields
  BY IdleFields DEF LifeInit
<1>3. /\ DOMAIN thread = Threads /\ DOMAIN feed = Cameras /\ DOMAIN removed = Cameras
      /\ Http \subseteq Threads /\ toRestore \subseteq Cameras
      /\ \A c \in Cameras : removed[c] = "no"
  BY DEF LifeInit, Threads
<1>4. \A c \in Cameras : rows[c] # NoRow => DOMAIN rows[c] = {"camera", "state"}
  <2>1. \A camera : DOMAIN Inserted(camera) = {"camera", "state"}
    BY DEF Inserted
  <2> QED BY <2>1 DEF LifeInit
<1>5. DOMAIN rows = Cameras
  BY DEF LifeInit
<1>6. LifeShape
  BY <1>2, <1>3, <1>4, <1>5 DEF LifeShape
<1>7. MeetingsAreSeen /\ WrittenFirst /\ InsertedOnce /\ RestoresTheLiving /\ RowGoesFirst
  BY <1>2, <1>3 DEF MeetingsAreSeen, WrittenFirst, InsertedOnce, RestoresTheLiving, RowGoesFirst
<1> QED BY <1>1, <1>6, <1>7 DEF LifeInv

LEMMA LifeStutter ==
  ASSUME LifeInv, StreamInv, UNCHANGED lifeVars PROVE LifeInv' /\ StreamInv'
<1>1. /\ UNCHANGED <<thread, rows, feed, removed, phase, toRestore>> /\ UNCHANGED vars
      /\ contested \subseteq contested'
  BY DEF lifeVars, parts, process
<1>2. StreamInv' /\ sessions' = sessions
  BY <1>1, StreamStutter
<1> QED BY <1>1, <1>2, Known, QuietKeeps

LEMMA LifeNextKeeps == LifeInv /\ StreamInv /\ [LifeNext]_lifeVars => LifeInv' /\ StreamInv'
<1> SUFFICES ASSUME LifeInv, StreamInv, [LifeNext]_lifeVars PROVE LifeInv' /\ StreamInv'
  OBVIOUS
<1>0. Http \subseteq Threads
  BY DEF Threads
<1>1. ASSUME NEW t \in Http, RequestStep(t) PROVE LifeInv' /\ StreamInv'
  BY <1>0, <1>1, InsertKeeps, ReadKeeps, StoreKeeps, StatusKeeps, TellingKeeps, TellStreamsKeeps,
     OrderStreamKeeps, DeleteRowKeeps, RemoveStreamKeeps, StopperReportsKeeps DEF RequestStep
<1>2. ASSUME NEW t \in Threads, CallbackStep(t) PROVE LifeInv' /\ StreamInv'
  BY <1>2, WriteRowKeeps, PushStateKeeps, FetchKeeps, TellingKeeps DEF CallbackStep
<1>3. ASSUME NEW t \in Http, NEW c \in Cameras, NEW changes, Create(t, c, changes)
      PROVE  LifeInv' /\ StreamInv'
  BY <1>3, BeginKeeps DEF Create
<1>4. ASSUME NEW t \in Http, NEW c \in Cameras, NEW changes, Update(t, c, changes)
      PROVE  LifeInv' /\ StreamInv'
  BY <1>4, BeginKeeps DEF Update
<1>5. ASSUME NEW t \in Http, NEW c \in Cameras, NEW op \in Requests, Ask(t, op, c)
      PROVE  LifeInv' /\ StreamInv'
  BY <1>5, BeginKeeps DEF Ask
<1>6. CASE WorkerPass
  BY <1>6, WorkerReportsKeeps, WorkerKeeps DEF WorkerPass
<1>7. ASSUME NEW c \in Cameras, Tick(c) \/ Restore(c) PROVE LifeInv' /\ StreamInv'
  BY <1>7, WorkerKeeps, RestoreKeeps
<1>8. CASE ServerStops \/ AiStops \/ RecordingStops \/ StreamsStop \/ Restored
  BY <1>8, ShutdownKeeps
<1>9. CASE Crash
  BY <1>9, CrashKeeps
<1>10. CASE UNCHANGED lifeVars
  BY <1>10, LifeStutter
<1> QED BY <1>1, <1>2, <1>3, <1>4, <1>5, <1>6, <1>7, <1>8, <1>9, <1>10 DEF LifeNext

-----------------------------------------------------------------------------
(* The same of the whole camera service: requests of any number of threads *)
(* on the same camera, the worker's reports, the shutdown and crashes      *)
(* included.                                                               *)
THEOREM LifePublishedIsCurrent == LifeSpec => []PublishedIsCurrent
<1>1. LifeInv /\ StreamInv => PublishedIsCurrent
  BY DEF StreamInv
<1> QED BY <1>1, LifeInitSound, LifeNextKeeps, PTL DEF LifeSpec

(* A restart does not bring back a camera that was removed: its row is     *)
(* gone before anything of it is torn down, wherever the process died, and *)
(* no request still under way, nor main restoring the rows, streams it.    *)
THEOREM LifeBuriedStaysBuried == LifeSpec => []BuriedStaysBuried
<1>1. LifeInv /\ StreamInv => BuriedStaysBuried
  BY DEF LifeInv, RowGoesFirst, BuriedStaysBuried, Managed
<1> QED BY <1>1, LifeInitSound, LifeNextKeeps, PTL DEF LifeSpec

(* A client that is told of a state and fetches the camera finds it: of    *)
(* what PostgreSQL keeps the state is written before it is pushed, and     *)
(* nobody comes in between unnoticed.                                      *)
THEOREM LifePushAfterWrite == LifeSpec => PushAfterWrite
<1>1. ASSUME LifeInv, StreamInv, NEW t \in Threads, PushState(t), Busy(thread[t].c) = {t},
             thread[t].c \notin contested, Postgres
      PROVE  \/ rows[thread[t].c] = NoRow
             \/ rows[thread[t].c].state = feed'[thread[t].c][1]
  <2>1. thread[t].at = "push" /\ thread[t].c \in Cameras
    BY <1>1, Known DEF PushState
  <2>2. feed'[thread[t].c][1] = thread[t].state
    BY <1>1, <2>1, Known DEF PushState, Push
  <2> QED BY <1>1, <2>1, <2>2 DEF LifeInv, WrittenFirst
<1>2. LifeInv /\ StreamInv =>
        [(\A t \in Threads : LET c == thread[t].c IN
            PushState(t) /\ Busy(c) = {t} /\ c \notin contested /\ Postgres =>
              rows[c] = NoRow \/ rows[c].state = feed'[c][1])]_lifeVars
  BY <1>1
<1> QED BY <1>2, LifeInitSound, LifeNextKeeps, PTL DEF LifeSpec, PushAfterWrite

-----------------------------------------------------------------------------
(* The parts agree.                                                        *)

(* What the parts look at in a row.                                        *)
CameraFields == {"rtsp", "hardware", "recordingMode", "recordingEnabled", "segmentSeconds",
                 "motionEnabled", "motionZones"}
Whole(k) == CameraFields \subseteq DOMAIN k /\ k.rtsp # None

(* Every row has what the parts look at, and so has what is stored next.   *)
RowsAreWhole ==
  /\ DOMAIN recorder = Cameras /\ DOMAIN ai = Cameras
  /\ \A c \in Cameras : rows[c] # NoRow => Whole(rows[c].camera)
  /\ \A t \in Threads :
       /\ thread[t].at = "insert" => ValidForCreate(thread[t].changes)
       /\ thread[t].at \in {"read", "store"} /\ thread[t].op = "update" =>
            ValidForUpdate(thread[t].changes)
       /\ thread[t].at = "store" => thread[t].op = "update" /\ Whole(thread[t].row.camera)

(* A report of the camera is still to be made; it was not reached yet and  *)
(* a probe is due; and so what the parts were told of it will be renewed.  *)
Pending(c) == \E i \in 1 .. Len(toReport) : toReport[i][1] = c
Latest(c, state) ==
  \E i \in 1 .. Len(toReport) :
    /\ toReport[i] = <<c, state>>
    /\ \A j \in 1 .. Len(toReport) : j > i => toReport[j][1] # c
Untried(c) == ~ sessions[c].published /\ sessions[c].due = "now"
Owing(c) == Untried(c) \/ Pending(c)
Online(c) == sessions[c].state = "Online"

(* A session counts as published while it is online.                       *)
Consistent(s) ==
  /\ s.published <=> s.state = "Online"
  /\ s.published => s.publishedSource = s.source /\ s.publishedHardware = s.hardware
  /\ ~ s.published => s.publishedSource = None

(* What the worker has in hand is the camera as it still is, and it will   *)
(* report it unless it was published before.                               *)
InHand(c) ==
  Working(c) =>
    /\ sessions[c].due = "now" /\ copy.session.desired /\ Consistent(copy.session)
    /\ copy.session.source = sessions[c].source
    /\ copy.session.hardware = sessions[c].hardware
    /\ worker = "probing" => (copy.session.published <=> sessions[c].published)
    /\ worker = "returning" => /\ copy.changed <=> ~ sessions[c].published
                               /\ sessions[c].published => copy.session.published
                               /\ copy.session.due = "later"
Mounted(c) ==
  mount[c] = IF sessions[c].published \/ (Working(c) /\ copy.session.published)
             THEN sessions[c].source ELSE None
Reported(c) ==
  /\ Pending(c) => sessions[c].desired
  /\ \A state \in States : Latest(c, state) => state = sessions[c].state \/ Untried(c)
Sound(c) ==
  /\ Consistent(sessions[c])
  /\ sessions[c].desired \in BOOLEAN /\ (sessions[c].due # "never" => sessions[c].desired)
  /\ ~ sessions[c].desired => sessions[c].state = "Offline"
  /\ sessions[c].source # None
  /\ InHand(c) /\ Mounted(c) /\ Reported(c)

(* The camera k is streamed; is not recorded when it should not be, is     *)
(* recorded when it should; is watched; and its state is in the store and  *)
(* with the clients.                                                       *)
Streamed(c, k) ==
  c \in Managed /\ sessions[c].source = k.rtsp /\ sessions[c].hardware = k.hardware /\ Sound(c)
Unrecorded(c, k) == ~ ShouldRecord(k) /\ recorder[c] # Nothing => recorder[c].session = Nothing
Records(c, k) == ShouldRecord(k) => recorder[c].session = Built(k)
Watches(c, k) ==
  ai[c].live /\ ai[c].told.motionEnabled = k.motionEnabled /\ ai[c].told.motionZones = k.motionZones
Kept(c) == Postgres => rows[c].state = sessions[c].state
Pushed(c) == feed[c] # Nothing => feed[c] = <<sessions[c].state, sessions[c].desired>>

Gone(c) ==
  /\ c \notin Managed /\ mount[c] = None /\ recorder[c] = Nothing /\ ai[c] = Nothing
  /\ feed[c] = Nothing /\ ~ InService(c)
Served(c, k) ==
  /\ Streamed(c, k) /\ Unrecorded(c, k)
  /\ Owing(c) \/ (Kept(c) /\ Pushed(c) /\ (Online(c) => Records(c, k) /\ Watches(c, k)))
Resting(c) == IF rows[c] = NoRow THEN Gone(c) ELSE Served(c, rows[c].camera)

(* What holds on the way, by the step a thread takes next.  An edit has    *)
(* changed the row and tells one part after another; a callback brings     *)
(* what was reported.                                                      *)
Undisturbed(t, c) == Reopens(thread[t].op, thread[t].changes) => ~ InService(c)

Edit(t, when) == IF when = "before" THEN thread[t].row.camera ELSE NewCamera(t)
Telling(t, c, recorded, watched) ==
  /\ thread[t].op = "update" /\ rows[c] # NoRow /\ rows[c].camera = NewCamera(t)
  /\ Whole(thread[t].row.camera) /\ ValidForUpdate(thread[t].changes)
  /\ Streamed(c, thread[t].row.camera) /\ Undisturbed(t, c)
  /\ Unrecorded(c, Edit(t, recorded))
  /\ ~ SourceChanged(DiffOf(t)) =>
       /\ thread[t].at # "status" /\ Online(c) /\ ~ Pending(c) => thread[t].live
       /\ Owing(c) \/ (Kept(c) /\ Pushed(c) /\ (Online(c) => Records(c, Edit(t, recorded))
                                                       /\ Watches(c, Edit(t, watched))))

Calling(t, c) ==
  /\ thread[t].op \in {"report", "stop"} /\ rows[c] # NoRow /\ ~ Working(c)
  /\ Streamed(c, rows[c].camera) /\ Unrecorded(c, rows[c].camera)
  /\ thread[t].at \in {"report-recording", "report-ai", "report-saving"} =>
       thread[t].row.camera = rows[c].camera /\ thread[t].live = (thread[t].state = "Online")
  /\ Owing(c) \/
       /\ thread[t].state = sessions[c].state /\ thread[t].desired = sessions[c].desired
       /\ thread[t].at # "write" => Kept(c)
       /\ thread[t].at \notin {"write", "push"} => Pushed(c)
       /\ thread[t].at \in {"report-ai", "report-saving"} /\ Online(c) => Records(c, rows[c].camera)
       /\ thread[t].at = "report-saving" /\ Online(c) => Watches(c, rows[c].camera)

Ordered(t, c) ==
  CASE thread[t].op = "create" -> rows[c] # NoRow /\ rows[c] = thread[t].row /\ Gone(c)
    [] thread[t].op = "update" -> Telling(t, c, "after", "after")
    [] thread[t].op = "remove" ->
         /\ rows[c] = NoRow /\ ~ InService(c)
         /\ c \notin Managed \/ ~ sessions[c].published => mount[c] = None
    [] OTHER -> rows[c] # NoRow /\ Resting(c) /\ ~ InService(c)

Cleared(t, c) ==
  /\ thread[t].op = "remove" /\ rows[c] = NoRow /\ c \notin Managed /\ mount[c] = None
  /\ ~ InService(c)
  /\ thread[t].at # "recorder" => recorder[c] = Nothing
  /\ thread[t].at = "clients" => ai[c] = Nothing

Midway(t, c) ==
  CASE thread[t].at = "insert" -> thread[t].op = "create" /\ rows[c] = NoRow /\ Gone(c)
    [] thread[t].at = "read" ->
         thread[t].op \in Requests \ {"create"} /\ Resting(c) /\ Undisturbed(t, c)
    [] thread[t].at = "store" ->
         rows[c] # NoRow /\ rows[c] = thread[t].row /\ Resting(c) /\ Undisturbed(t, c)
    [] thread[t].at \in {"status", "recording"} ->
         Telling(t, c, "before", "before")
    [] thread[t].at = "ai" -> Telling(t, c, "after", "before")
    [] thread[t].at = "saving" -> Telling(t, c, "after", "after")
    [] thread[t].at = "streams" -> Ordered(t, c)
    [] thread[t].at = "owes" ->
         /\ thread[t].op = "stop" /\ rows[c] # NoRow /\ Streamed(c, rows[c].camera)
         /\ Unrecorded(c, rows[c].camera) /\ ~ InService(c) /\ ~ sessions[c].desired
    [] thread[t].at = "delete" ->
         thread[t].op = "remove" /\ rows[c] # NoRow /\ Resting(c) /\ ~ InService(c)
    [] thread[t].at \in {"recorder", "runtime", "clients"} -> Cleared(t, c)
    [] OTHER -> Calling(t, c)

(* A camera main has still to restore has nothing but its row; else it is  *)
(* as the threads at work on it say.                                       *)
On(t, c) == thread[t].at # "idle" /\ thread[t].c = c
Unrestored(c) == phase = "restoring" /\ c \in toRestore
Accord(c) ==
  IF Unrestored(c) THEN rows[c] # NoRow /\ Gone(c) /\ \A t \in Threads : ~ On(t, c)
  ELSE /\ (\A t \in Threads : ~ On(t, c)) => Resting(c)
       /\ \A t \in Threads : On(t, c) => Midway(t, c)
AccordInv == phase \in {"up", "restoring"} => \A c \in Cameras \ contested : Accord(c)

-----------------------------------------------------------------------------
(* What is said of a camera depends on nothing but what the parts have for *)
(* it.                                                                     *)
SameStreams(d) ==
  /\ sessions'[d] = sessions[d] /\ mount'[d] = mount[d]
  /\ Working(d)' <=> Working(d)
  /\ Working(d) => worker' = worker /\ copy' = copy
  /\ Pending(d)' <=> Pending(d)
  /\ \A state \in States : Latest(d, state)' => Latest(d, state)
Quiet(d) ==
  SameStreams(d) /\ rows'[d] = rows[d] /\ recorder'[d] = recorder[d] /\ ai'[d] = ai[d]
  /\ feed'[d] = feed[d]

LEMMA ServiceIs ==
  ASSUME NEW d
  PROVE  /\ InService(d) <=> Working(d) \/ Pending(d)
         /\ InService(d)' <=> Working(d)' \/ Pending(d)'
BY DEF InService, Pending

LEMMA StreamsSame ==
  ASSUME NEW d \in Cameras, SameStreams(d)
  PROVE  /\ Sound(d) => Sound(d)'
         /\ (d \in Managed)' <=> d \in Managed
         /\ InService(d)' <=> InService(d)
         /\ Owing(d)' <=> Owing(d)
         /\ Online(d)' <=> Online(d)
<1>1. Untried(d)' <=> Untried(d)
  BY DEF SameStreams, Untried
<1>2. InHand(d) => InHand(d)'
  BY DEF SameStreams, InHand
<1>3. Mounted(d) => Mounted(d)'
  BY DEF SameStreams, Mounted
<1>4. Reported(d) => Reported(d)'
  BY <1>1 DEF SameStreams, Reported
<1>5. Sound(d) => Sound(d)'
  BY <1>2, <1>3, <1>4 DEF SameStreams, Sound
<1>6. (d \in Managed)' <=> d \in Managed
  BY DEF SameStreams, Managed
<1>7. InService(d)' <=> InService(d)
  BY ServiceIs DEF SameStreams
<1>8. Owing(d)' <=> Owing(d)
  BY <1>1 DEF SameStreams, Owing
<1>9. Online(d)' <=> Online(d)
  BY DEF SameStreams, Online
<1> QED BY <1>5, <1>6, <1>7, <1>8, <1>9

(* What a step of the worker, or time, may do to a camera: what is owed    *)
(* stays owed, and what is not owed is as it was.                          *)
Eases(d) ==
  /\ rows'[d] = rows[d] /\ recorder'[d] = recorder[d] /\ ai'[d] = ai[d] /\ feed'[d] = feed[d]
  /\ (d \in Managed)' <=> d \in Managed
  /\ sessions'[d].source = sessions[d].source /\ sessions'[d].hardware = sessions[d].hardware
  /\ sessions'[d].desired = sessions[d].desired
  /\ Sound(d) => Sound(d)'
  /\ InService(d)' => InService(d)
  /\ Working(d)' => Working(d)
  /\ ~ Owing(d)' => ~ Owing(d) /\ sessions'[d].state = sessions[d].state
  /\ Online(d)' /\ ~ Pending(d)' => Online(d) /\ ~ Pending(d)
  /\ ~ InService(d) => mount'[d] = mount[d] /\ sessions'[d].published = sessions[d].published

LEMMA QuietEases == ASSUME NEW d \in Cameras, Quiet(d) PROVE Eases(d)
BY StreamsSame DEF Quiet, SameStreams, Eases

LEMMA RestingEases ==
  ASSUME NEW d \in Cameras, Eases(d), Resting(d) PROVE Resting(d)'
<1>1. CASE rows[d] = NoRow
  BY <1>1 DEF Eases, Resting, Gone
<1>2. CASE rows[d] # NoRow
  <2>1. Served(d, rows[d].camera) /\ rows'[d] = rows[d]
    BY <1>2 DEF Resting, Eases
  <2>2. Streamed(d, rows[d].camera)' /\ Unrecorded(d, rows[d].camera)'
    BY <2>1 DEF Eases, Served, Streamed, Unrecorded
  <2>3. \/ Owing(d)'
        \/ Kept(d)' /\ Pushed(d)' /\ (Online(d)' => Records(d, rows[d].camera)'
                                                   /\ Watches(d, rows[d].camera)')
    BY <2>1 DEF Eases, Served, Kept, Pushed, Online, Records, Watches
  <2>4. Served(d, rows[d].camera)'
    BY <2>2, <2>3 DEF Served
  <2> QED BY <1>2, <2>1, <2>4 DEF Resting
<1> QED BY <1>1, <1>2

LEMMA SameEdit ==
  ASSUME NEW t, thread'[t].changes = thread[t].changes, thread'[t].row = thread[t].row
  PROVE  NewCamera(t)' = NewCamera(t) /\ DiffOf(t)' = DiffOf(t)
BY DEF NewCamera, DiffOf

LEMMA MidwayEases ==
  ASSUME NEW t, NEW d \in Cameras, Eases(d), thread'[t] = thread[t], Midway(t, d)
  PROVE  Midway(t, d)'
<1>1. NewCamera(t)' = NewCamera(t) /\ DiffOf(t)' = DiffOf(t)
  BY SameEdit
<1>2. Undisturbed(t, d) => Undisturbed(t, d)'
  BY DEF Undisturbed, Eases
<1>3. Resting(d) => Resting(d)'
  BY RestingEases
<1>4. Gone(d) => Gone(d)'
  BY DEF Eases, Gone
<1>5. ASSUME NEW recorded, NEW watched, Telling(t, d, recorded, watched)
      PROVE  Telling(t, d, recorded, watched)'
  <2>1. Edit(t, recorded)' = Edit(t, recorded) /\ Edit(t, watched)' = Edit(t, watched)
    BY <1>1 DEF Edit
  <2>2. Streamed(d, thread[t].row.camera)' /\ Unrecorded(d, Edit(t, recorded))'
    BY <1>5, <2>1 DEF Telling, Eases, Streamed, Unrecorded
  <2>3. ~ SourceChanged(DiffOf(t)) =>
          (thread[t].at # "status" /\ Online(d)' /\ ~ Pending(d)' => thread[t].live)
    BY <1>5 DEF Telling, Eases
  <2>4. ASSUME ~ SourceChanged(DiffOf(t)), ~ Owing(d)'
        PROVE  /\ Kept(d)' /\ Pushed(d)'
               /\ Online(d)' => Records(d, Edit(t, recorded)) /\ Watches(d, Edit(t, watched))
    BY <1>5, <2>4 DEF Telling, Eases, Kept, Pushed, Online
  <2>5. /\ Records(d, Edit(t, recorded)) => Records(d, Edit(t, recorded))'
        /\ Watches(d, Edit(t, watched)) => Watches(d, Edit(t, watched))'
    BY <2>1 DEF Eases, Records, Watches
  <2>6. /\ thread'[t].op = "update" /\ rows'[d] # NoRow /\ rows'[d].camera = NewCamera(t)
        /\ Whole(thread'[t].row.camera) /\ ValidForUpdate(thread'[t].changes)
        /\ Undisturbed(t, d)'
    BY <1>2, <1>5 DEF Telling, Eases
  <2> QED BY <1>1, <2>2, <2>3, <2>4, <2>5, <2>6 DEF Telling
<1>6. Calling(t, d) => Calling(t, d)'
  <2> SUFFICES ASSUME Calling(t, d) PROVE Calling(t, d)'
    OBVIOUS
  <2>1. Streamed(d, rows[d].camera)' /\ Unrecorded(d, rows[d].camera)'
    BY DEF Calling, Eases, Streamed, Unrecorded
  <2>2. /\ Kept(d) /\ ~ Owing(d)' => Kept(d)'
        /\ Pushed(d) /\ ~ Owing(d)' => Pushed(d)'
        /\ Online(d)' /\ ~ Owing(d)' => Online(d)
        /\ Records(d, rows[d].camera) => Records(d, rows[d].camera)'
        /\ Watches(d, rows[d].camera) => Watches(d, rows[d].camera)'
    BY DEF Eases, Kept, Pushed, Online, Records, Watches
  <2>3. /\ rows'[d] = rows[d] /\ (~ Working(d) => ~ Working(d)')
        /\ ~ Owing(d)' => ~ Owing(d) /\ sessions'[d].state = sessions[d].state
        /\ sessions'[d].desired = sessions[d].desired
    BY DEF Eases
  <2>4. ASSUME ~ Owing(d)'
        PROVE  /\ thread'[t].state = sessions'[d].state /\ thread'[t].desired = sessions'[d].desired
               /\ thread'[t].at # "write" => Kept(d)'
               /\ thread'[t].at \notin {"write", "push"} => Pushed(d)'
               /\ thread'[t].at \in {"report-ai", "report-saving"} /\ Online(d)' =>
                    Records(d, rows[d].camera)'
               /\ thread'[t].at = "report-saving" /\ Online(d)' => Watches(d, rows[d].camera)'
    BY <2>2, <2>3, <2>4 DEF Calling
  <2> QED BY <2>1, <2>3, <2>4 DEF Calling
<1>7. Ordered(t, d) => Ordered(t, d)'
  BY <1>3, <1>4, <1>5 DEF Ordered, Eases
<1>8. Cleared(t, d) => Cleared(t, d)'
  BY DEF Cleared, Eases
<1>9. ASSUME Streamed(d, rows[d].camera), Unrecorded(d, rows[d].camera)
      PROVE  Streamed(d, rows[d].camera)' /\ Unrecorded(d, rows[d].camera)'
  BY <1>9 DEF Eases, Streamed, Unrecorded
<1>10. /\ rows'[d] = rows[d] /\ (~ InService(d) => ~ InService(d)')
       /\ sessions'[d].desired = sessions[d].desired
  BY DEF Eases
<1> QED BY <1>2, <1>3, <1>4, <1>5, <1>6, <1>7, <1>8, <1>9, <1>10 DEF Midway

LEMMA AccordEases ==
  ASSUME NEW d \in Cameras, Eases(d), Unrestored(d)' <=> Unrestored(d),
         \A t \in Threads : thread'[t] = thread[t] \/ ~ (On(t, d) \/ On(t, d)'),
         Accord(d)
  PROVE  Accord(d)'
<1>1. \A t \in Threads : On(t, d)' <=> On(t, d)
  BY DEF On
<1>2. \A t \in Threads : On(t, d) => thread'[t] = thread[t]
  OBVIOUS
<1>3. CASE Unrestored(d)
  BY <1>1, <1>3 DEF Accord, Eases, Gone
<1>4. CASE ~ Unrestored(d)
  BY <1>1, <1>2, <1>4, RestingEases, MidwayEases DEF Accord
<1> QED BY <1>3, <1>4

-----------------------------------------------------------------------------
(* The reports: one is added behind the others, the first is taken.        *)
LEMMA ReportAdded ==
  ASSUME toReport \in Seq(Cameras \X States), NEW c \in Cameras, NEW state \in States,
         toReport' = Append(toReport, <<c, state>>)
  PROVE  /\ Pending(c)' /\ \A x \in States : Latest(c, x)' => x = state
         /\ \A d \in Cameras \ {c} : /\ Pending(d)' <=> Pending(d)
                                     /\ \A x \in States : Latest(d, x)' => Latest(d, x)
<1> DEFINE n == Len(toReport)
           e == <<c, state>>
<1>1. /\ n \in Nat /\ Len(toReport') = n + 1 /\ toReport'[n + 1] = e
      /\ \A i \in 1 .. n : toReport'[i] = toReport[i]
  <2>1. e \in Cameras \X States
    OBVIOUS
  <2> HIDE DEF e
  <2> QED BY <2>1, AppendProperties, LenProperties DEF e
<1>2. e[1] = c /\ e[2] = state
  OBVIOUS
<1> HIDE DEF n, e
<1>3. Pending(c)'
  BY <1>1, <1>2 DEF Pending
<1>4. ASSUME NEW x \in States, Latest(c, x)' PROVE x = state
  <2>1. PICK i \in 1 .. n + 1 : /\ toReport'[i] = <<c, x>>
                                /\ \A j \in 1 .. n + 1 : j > i => toReport'[j][1] # c
    BY <1>1, <1>4 DEF Latest
  <2>2. i = n + 1
    BY <1>1, <1>2, <2>1
  <2> QED BY <1>1, <1>2, <2>1, <2>2
<1>5. ASSUME NEW d \in Cameras \ {c} PROVE Pending(d)' <=> Pending(d)
  BY <1>1, <1>2, <1>5 DEF Pending, n
<1>6. ASSUME NEW d \in Cameras \ {c}, NEW x \in States, Latest(d, x)' PROVE Latest(d, x)
  <2>1. PICK i \in 1 .. n + 1 : /\ toReport'[i] = <<d, x>>
                                /\ \A j \in 1 .. n + 1 : j > i => toReport'[j][1] # d
    BY <1>1, <1>6 DEF Latest
  <2>2. i \in 1 .. n
    BY <1>1, <1>2, <1>6, <2>1
  <2> QED BY <1>1, <2>1, <2>2 DEF Latest, n
<1> QED BY <1>3, <1>4, <1>5, <1>6

LEMMA ReportTaken ==
  ASSUME toReport \in Seq(Cameras \X States), toReport # <<>>, toReport' = Tail(toReport),
         NEW c, NEW state, Head(toReport) = <<c, state>>
  PROVE  /\ Pending(c) /\ (~ Pending(c)' => Latest(c, state))
         /\ \A d \in Cameras : /\ Pending(d)' => Pending(d)
                               /\ d # c => (Pending(d)' <=> Pending(d))
                               /\ \A x \in States : Latest(d, x)' => Latest(d, x)
<1> DEFINE n == Len(toReport)
<1>1. /\ n \in Nat /\ n >= 1 /\ Len(toReport') = n - 1 /\ toReport[1] = <<c, state>>
      /\ \A i \in 1 .. n - 1 : toReport'[i] = toReport[i + 1]
  BY HeadTailProperties, LenProperties
<1> HIDE DEF n
<1>2. \A i \in 2 .. n : i - 1 \in 1 .. n - 1 /\ toReport'[i - 1] = toReport[i]
  BY <1>1
<1>3. Pending(c)
  BY <1>1 DEF Pending, n
<1>4. ASSUME ~ Pending(c)' PROVE Latest(c, state)
  <2>1. \A i \in 1 .. n - 1 : toReport'[i][1] # c
    BY <1>1, <1>4 DEF Pending
  <2>2. \A j \in 1 .. n : j > 1 => j \in 2 .. n
    BY <1>1
  <2>3. \A j \in 1 .. n : j > 1 => toReport[j][1] # c
    BY <1>2, <2>1, <2>2
  <2>4. 1 \in 1 .. n /\ toReport[1] = <<c, state>>
    BY <1>1
  <2> QED BY <2>3, <2>4 DEF Latest, n
<1>5. ASSUME NEW d \in Cameras
      PROVE  (Pending(d)' => Pending(d)) /\ (d # c => (Pending(d) => Pending(d)'))
  <2>1. ASSUME Pending(d)' PROVE Pending(d)
    <3>1. PICK i \in 1 .. n - 1 : toReport'[i][1] = d
      BY <1>1, <2>1 DEF Pending
    <3>2. i + 1 \in 1 .. n /\ toReport[i + 1][1] = d
      BY <1>1, <3>1
    <3> QED BY <3>2 DEF Pending, n
  <2>2. ASSUME Pending(d), d # c PROVE Pending(d)'
    <3>1. PICK i \in 1 .. n : toReport[i][1] = d
      BY <2>2 DEF Pending, n
    <3>2. i \in 2 .. n
      BY <1>1, <2>2, <3>1
    <3>3. i - 1 \in 1 .. Len(toReport') /\ toReport'[i - 1][1] = d
      BY <1>1, <1>2, <3>1, <3>2
    <3> QED BY <3>3 DEF Pending
  <2> QED BY <2>1, <2>2
<1>6. ASSUME NEW d \in Cameras, NEW x \in States, Latest(d, x)' PROVE Latest(d, x)
  <2>1. PICK i \in 1 .. n - 1 : /\ toReport'[i] = <<d, x>>
                                /\ \A j \in 1 .. n - 1 : j > i => toReport'[j][1] # d
    BY <1>1, <1>6 DEF Latest
  <2>2. i + 1 \in 1 .. n /\ toReport[i + 1] = <<d, x>>
    BY <1>1, <2>1
  <2>3. ASSUME NEW j \in 1 .. n, j > i + 1 PROVE toReport[j][1] # d
    <3>1. j \in 2 .. n /\ j - 1 \in 1 .. n - 1 /\ j - 1 > i
      BY <1>1, <2>1, <2>3
    <3> QED BY <1>2, <2>1, <3>1
  <2> QED BY <2>2, <2>3 DEF Latest, n
<1> QED BY <1>3, <1>4, <1>5, <1>6

-----------------------------------------------------------------------------
(* The worker's pass, and time.                                            *)
LEMMA EveryoneEases ==
  ASSUME AccordInv, UNCHANGED <<thread, phase, toRestore>>, contested \subseteq contested',
         \A d \in Cameras : Accord(d) => Eases(d)
  PROVE  AccordInv'
<1> SUFFICES ASSUME phase' \in {"up", "restoring"}, NEW d \in Cameras \ contested'
             PROVE  Accord(d)'
  BY DEF AccordInv
<1>1. Accord(d) /\ Eases(d)
  BY DEF AccordInv
<1>2. Unrestored(d)' <=> Unrestored(d)
  BY DEF Unrestored
<1> QED BY <1>1, <1>2, AccordEases

(* A camera the worker has in hand is streamed.                            *)
LEMMA InHandIsSound ==
  ASSUME NEW c \in Cameras, Accord(c), Working(c) PROVE c \in Managed /\ Sound(c)
<1>1. InService(c)
  BY ServiceIs
<1>2. ~ Unrestored(c)
  BY <1>1 DEF Accord, Gone
<1>3. Resting(c) => c \in Managed /\ Sound(c)
  BY <1>1 DEF Resting, Gone, Served, Streamed
<1>4. ASSUME NEW t \in Threads, Midway(t, c) PROVE c \in Managed /\ Sound(c)
  <2>1. ~ Cleared(t, c) /\ ~ Gone(c) /\ ~ Calling(t, c)
    BY <1>1 DEF Cleared, Gone, Calling
  <2>2. \A r, w : Telling(t, c, r, w) => c \in Managed /\ Sound(c)
    BY DEF Telling, Streamed
  <2>3. Ordered(t, c) => c \in Managed /\ Sound(c)
    BY <1>1, <1>3, <2>1, <2>2 DEF Ordered
  <2> QED BY <1>1, <1>3, <1>4, <2>1, <2>2, <2>3 DEF Midway
<1> QED BY <1>2, <1>3, <1>4 DEF Accord

LEMMA AdvanceEases ==
  ASSUME StreamInv, NEW c \in Cameras, at = c, c \in Managed, Sound(c), Advance
  PROVE  /\ Sound(c)' /\ UNCHANGED <<sessions, toReport>> /\ at' = at
         /\ Working(c) /\ Working(c)' /\ \A d \in Cameras \ {c} : mount'[d] = mount[d]
<1> DEFINE s == copy.session
<1>1. PICK o \in Outcomes(s) :
        /\ copy' = [session |-> o.session, changed |-> o.changed]
        /\ mount' = IF o.mounts THEN [mount EXCEPT ![at] = o.session.source] ELSE mount
  BY DEF Advance
<1>2. /\ worker = "probing" /\ worker' = "returning" /\ at' = at
      /\ UNCHANGED <<sessions, toReport>> /\ DOMAIN mount = Cameras
      /\ DOMAIN s = SessionFields
  BY DEF Advance, StreamInv, StreamShape, Looking
<1>3. /\ Working(c) /\ Working(c)'
      /\ copy'.session = o.session /\ copy'.changed = o.changed
  BY <1>1, <1>2 DEF Working
<1>4. /\ sessions[c].due = "now" /\ s.desired /\ Consistent(s) /\ s.source = sessions[c].source
      /\ s.hardware = sessions[c].hardware /\ s.source # None
      /\ s.published <=> sessions[c].published
  BY <1>2, <1>3 DEF Sound, InHand
<1>5. CASE s.published
  <2>1. o = [session |-> [s EXCEPT !.due = "later"], mounts |-> FALSE, changed |-> FALSE]
    BY <1>4, <1>5 DEF Outcomes, Consistent
  <2>2. /\ o.session.due = "later" /\ o.session.desired = s.desired
        /\ o.session.source = s.source /\ o.session.hardware = s.hardware
        /\ o.session.published = s.published /\ o.session.state = s.state
        /\ o.session.publishedSource = s.publishedSource
        /\ o.session.publishedHardware = s.publishedHardware
    BY <1>2, <2>1 DEF SessionFields
  <2>3. InHand(c)'
    <3>1. Consistent(o.session)
      BY <1>4, <2>2 DEF Consistent
    <3>2. o.changed = FALSE
      BY <2>1
    <3> HIDE DEF s
    <3> QED BY <1>2, <1>3, <1>4, <1>5, <2>2, <3>1, <3>2 DEF InHand
  <2>4. mount' = mount
    BY <1>1, <2>1
  <2>5. Mounted(c)' /\ Reported(c)'
    BY <1>2, <1>3, <1>4, <1>5, <2>2, <2>4
       DEF Sound, Mounted, Reported, Pending, Latest, Untried
  <2> QED BY <1>2, <1>3, <2>3, <2>4, <2>5 DEF Sound
<1>6. CASE ~ s.published
  <2>1. \/ o = [session |-> Failed(s), mounts |-> FALSE, changed |-> TRUE]
        \/ o = [session |-> Published(s), mounts |-> TRUE, changed |-> TRUE]
    BY <1>4, <1>6 DEF Outcomes
  <2> DEFINE f == Failed(s)
             p == Published(s)
  <2>7. /\ f.due = "later" /\ f.desired = s.desired /\ f.source = s.source
        /\ f.hardware = s.hardware /\ f.published = s.published /\ f.state = "Error"
        /\ f.publishedSource = s.publishedSource
    BY <1>2 DEF Failed, SessionFields
  <2>8. /\ p.due = "later" /\ p.desired = s.desired /\ p.source = s.source
        /\ p.hardware = s.hardware /\ p.published = TRUE /\ p.state = "Online"
        /\ p.publishedSource = s.source /\ p.publishedHardware = s.hardware
    BY <1>2 DEF Published, SessionFields
  <2> HIDE DEF f, p
  <2>2. /\ o.session.due = "later" /\ o.session.desired = s.desired /\ o.changed = TRUE
        /\ o.session.source = s.source /\ o.session.hardware = s.hardware
        /\ \/ /\ o.mounts = FALSE /\ o.session.published = s.published
              /\ o.session.state = "Error" /\ o.session.publishedSource = s.publishedSource
           \/ /\ o.mounts = TRUE /\ o.session.published = TRUE /\ o.session.state = "Online"
              /\ o.session.publishedSource = s.source
              /\ o.session.publishedHardware = s.hardware
    BY <2>1, <2>7, <2>8 DEF f, p
  <2>3. InHand(c)'
    BY <1>2, <1>3, <1>4, <1>6, <2>2 DEF InHand, Consistent
  <2>4. mount'[c] = IF o.session.published THEN s.source ELSE mount[c]
    BY <1>1, <1>2, <1>6, <2>2
  <2>5. Mounted(c)'
    BY <1>2, <1>3, <1>4, <1>6, <2>4 DEF Sound, Mounted
  <2>6. Reported(c)'
    BY <1>2, <1>3, <1>4, <1>6 DEF Sound, Reported, Pending, Latest, Untried
  <2> QED BY <1>1, <1>2, <1>3, <2>3, <2>5, <2>6 DEF Sound
<1> QED BY <1>5, <1>6

LEMMA AdvanceAccords ==
  ASSUME StreamInv, AccordInv, Advance, UNCHANGED <<thread, Others>> PROVE AccordInv'
<1>1. /\ UNCHANGED <<thread, rows, recorder, ai, feed, phase, toRestore>>
      /\ contested \subseteq contested'
  BY DEF Others, parts, process
<1>2. UNCHANGED <<sessions, at, toReport>> /\ DOMAIN mount = Cameras
      /\ worker = "probing" /\ worker' = "returning" /\ at \in Cameras
  BY DEF Advance, StreamInv, StreamShape, Looking
<1>3. ASSUME NEW d \in Cameras, Accord(d) PROVE Eases(d)
  <2>1. CASE d # at
    <3>1. ~ Working(d) /\ ~ Working(d)'
      BY <1>2, <2>1 DEF Working
    <3>2. mount'[d] = mount[d]
      BY <1>2, <2>1 DEF Advance
    <3>3. Quiet(d)
      BY <1>1, <1>2, <3>1, <3>2 DEF Quiet, SameStreams, Pending, Latest
    <3> QED BY <3>3, QuietEases
  <2>2. CASE d = at
    <3>1. Working(d)
      BY <1>2, <2>2 DEF Working
    <3>2. d \in Managed /\ Sound(d)
      BY <1>3, <3>1, InHandIsSound
    <3>3. Sound(d)' /\ Working(d)'
      BY <2>2, <3>2, AdvanceEases
    <3>4. /\ (Untried(d)' <=> Untried(d)) /\ (Pending(d)' <=> Pending(d))
          /\ (Online(d)' <=> Online(d)) /\ ((d \in Managed)' <=> d \in Managed)
      BY <1>2 DEF Untried, Pending, Online, Managed
    <3>5. InService(d) /\ InService(d)' /\ (Owing(d)' <=> Owing(d))
      BY <3>1, <3>3, <3>4, ServiceIs DEF Owing
    <3> QED BY <1>1, <1>2, <3>1, <3>3, <3>4, <3>5 DEF Eases
  <2> QED BY <2>1, <2>2
<1> QED BY <1>1, <1>3, EveryoneEases

LEMMA WriteBackEases ==
  ASSUME StreamInv, NEW c \in Cameras, at = c, c \in Managed, Sound(c), WriteBack,
         rows'[c] = rows[c], recorder'[c] = recorder[c], ai'[c] = ai[c], feed'[c] = feed[c]
  PROVE  /\ Eases(c) /\ KeepsCopy(c)
<1> DEFINE s == copy.session
           w == Written(sessions[c], s)
<1>1. /\ worker = "returning" /\ worker' \in {"scanning", "lost"} /\ mount' = mount
      /\ DOMAIN s = SessionFields /\ s.state \in States
      /\ DOMAIN sessions = Cameras /\ DOMAIN sessions[c] = SessionFields
      /\ toReport \in Seq(Cameras \X States)
  BY DEF WriteBack, StreamInv, StreamShape, Looking
<1>2. Working(c) /\ ~ Working(c)'
  BY <1>1 DEF Working
<1>3. /\ sessions[c].due = "now" /\ s.desired /\ Consistent(s) /\ s.source = sessions[c].source
      /\ s.hardware = sessions[c].hardware /\ s.due = "later"
      /\ copy.changed <=> ~ sessions[c].published
      /\ sessions[c].published => s.published
  BY <1>1, <1>2 DEF Sound, InHand
<1>4. KeepsCopy(c)
  BY <1>3 DEF KeepsCopy
<1>5. sessions' = [sessions EXCEPT ![c] = w]
  BY <1>4 DEF WriteBack
<1>6. /\ DOMAIN w = SessionFields /\ w.due = "later" /\ w.state = s.state
      /\ w.published = s.published /\ w.publishedSource = s.publishedSource
      /\ w.publishedHardware = s.publishedHardware
      /\ w.source = sessions[c].source /\ w.hardware = sessions[c].hardware
      /\ w.desired = sessions[c].desired
  BY <1>1, <1>3 DEF Written, SessionFields
<1>7. w # NoSession
  BY <1>6 DEF SessionFields, NoSession
<1> HIDE DEF w, s
<1>8. sessions'[c] = w /\ (c \in Managed)'
  BY <1>1, <1>5, <1>7 DEF Managed
<1>9. sessions[c].desired \in BOOLEAN /\ sessions[c].desired /\ sessions[c].source # None
      /\ Consistent(sessions[c])
  BY <1>3 DEF Sound
<1>10. Consistent(w)
  BY <1>3, <1>6 DEF Consistent
<1>11. Mounted(c)'
  BY <1>1, <1>2, <1>3, <1>6, <1>8 DEF Sound, Mounted, s
<1>12. CASE ~ sessions[c].published
  <2>1. toReport' = Append(toReport, <<c, s.state>>)
    BY <1>3, <1>4, <1>12 DEF WriteBack, s
  <2>2. Pending(c)' /\ \A x \in States : Latest(c, x)' => x = s.state
    BY <1>1, <2>1, ReportAdded
  <2>3. Reported(c)'
    BY <1>6, <1>8, <1>9, <2>2 DEF Reported
  <2>4. Sound(c)'
    BY <1>2, <1>6, <1>8, <1>9, <1>10, <1>11, <2>3 DEF Sound, InHand
  <2>5. InService(c) /\ Owing(c)'
    BY <1>2, <2>2, ServiceIs DEF Owing
  <2> QED BY <1>2, <1>4, <1>6, <1>8, <2>2, <2>4, <2>5 DEF Eases
<1>13. CASE sessions[c].published
  <2>1. toReport' = toReport
    BY <1>3, <1>4, <1>13 DEF WriteBack
  <2>2. (Pending(c)' <=> Pending(c)) /\ \A x \in States : Latest(c, x)' <=> Latest(c, x)
    BY <2>1 DEF Pending, Latest
  <2>3. sessions[c].state = "Online" /\ w.state = "Online" /\ ~ Untried(c)
    BY <1>3, <1>6, <1>9, <1>13 DEF Consistent, Untried
  <2>4. Reported(c)'
    BY <1>6, <1>8, <2>2, <2>3 DEF Sound, Reported
  <2>5. Sound(c)'
    BY <1>2, <1>6, <1>8, <1>9, <1>10, <1>11, <2>4 DEF Sound, InHand
  <2>6. InService(c) /\ (Owing(c) => Owing(c)')
    BY <1>2, <2>2, <2>3, ServiceIs DEF Owing
  <2>7. Online(c)
    BY <2>3 DEF Online
  <2> QED BY <1>2, <1>4, <1>6, <1>8, <2>2, <2>3, <2>5, <2>6, <2>7 DEF Eases
<1> QED BY <1>12, <1>13

LEMMA WriteBackAccords ==
  ASSUME StreamInv, AccordInv, WriteBack, UNCHANGED <<thread, Others>> PROVE AccordInv'
<1>1. /\ UNCHANGED <<thread, rows, recorder, ai, feed, phase, toRestore>>
      /\ contested \subseteq contested'
  BY DEF Others, parts, process
<1>2. /\ worker = "returning" /\ worker' \in {"scanning", "lost"} /\ mount' = mount
      /\ at' = at /\ at \in Cameras /\ copy.session.state \in States
      /\ DOMAIN sessions = Cameras /\ toReport \in Seq(Cameras \X States)
  BY DEF WriteBack, StreamInv, StreamShape, Looking
<1>3. ASSUME NEW d \in Cameras, Accord(d) PROVE Eases(d)
  <2>1. CASE d # at
    <3>1. ~ Working(d) /\ ~ Working(d)'
      BY <1>2, <2>1 DEF Working
    <3>2. sessions'[d] = sessions[d]
      BY <1>2, <2>1 DEF WriteBack
    <3>3. /\ (Pending(d)' <=> Pending(d)) /\ \A x \in States : Latest(d, x)' => Latest(d, x)
      <4>1. CASE toReport' = toReport
        BY <4>1 DEF Pending, Latest
      <4>2. CASE toReport' = Append(toReport, <<at, copy.session.state>>)
        <5>1. PICK e \in Cameras, x \in States : e = at /\ x = copy.session.state
          BY <1>2
        <5> QED BY <1>2, <2>1, <4>2, <5>1, ReportAdded
      <4> QED BY <4>1, <4>2 DEF WriteBack
    <3>4. Quiet(d)
      BY <1>1, <1>2, <3>1, <3>2, <3>3 DEF Quiet, SameStreams
    <3> QED BY <3>4, QuietEases
  <2>2. CASE d = at
    <3>1. Working(d)
      BY <1>2, <2>2 DEF Working
    <3>2. d \in Managed /\ Sound(d)
      BY <1>3, <3>1, InHandIsSound
    <3> QED BY <1>1, <2>2, <3>2, WriteBackEases
  <2> QED BY <2>1, <2>2
<1> QED BY <1>1, <1>3, EveryoneEases

LEMMA DueAccords ==
  ASSUME StreamInv, AccordInv, NEW c \in Cameras, Tick(c) PROVE AccordInv'
<1> DEFINE s == [sessions[c] EXCEPT !.due = "now"]
<1>1. /\ UNCHANGED <<thread, rows, recorder, ai, feed, phase, toRestore>>
      /\ contested \subseteq contested' /\ Due(c)
  BY DEF Tick, Others, parts, process
<1>2. /\ c \in Managed /\ sessions[c].due = "later" /\ sessions' = [sessions EXCEPT ![c] = s]
      /\ UNCHANGED <<mount, worker, at, copy, toReport>>
      /\ DOMAIN sessions = Cameras /\ DOMAIN sessions[c] = SessionFields
  BY <1>1 DEF Due, StreamInv, StreamShape
<1>3. /\ DOMAIN s = SessionFields /\ s.due = "now" /\ s.state = sessions[c].state
      /\ s.published = sessions[c].published /\ s.publishedSource = sessions[c].publishedSource
      /\ s.publishedHardware = sessions[c].publishedHardware
      /\ s.source = sessions[c].source /\ s.hardware = sessions[c].hardware
      /\ s.desired = sessions[c].desired
  BY <1>2 DEF SessionFields
<1>4. s # NoSession
  BY <1>3 DEF SessionFields, NoSession
<1> HIDE DEF s
<1>5. ASSUME NEW d \in Cameras
      PROVE  /\ (Working(d)' <=> Working(d)) /\ (Pending(d)' <=> Pending(d))
             /\ \A x \in States : Latest(d, x)' => Latest(d, x)
  BY <1>2 DEF Working, Pending, Latest
<1>6. ASSUME NEW d \in Cameras, Accord(d) PROVE Eases(d)
  <2>1. CASE d # c
    <3>1. Quiet(d)
      BY <1>1, <1>2, <1>5, <2>1 DEF Quiet, SameStreams
    <3> QED BY <3>1, QuietEases
  <2>2. CASE d = c
    <3>1. sessions'[c] = s /\ (c \in Managed)'
      BY <1>2, <1>4 DEF Managed
    <3>2. ~ Working(c)
      BY <1>2, <1>6, <2>2, InHandIsSound DEF Sound, InHand
    <3>3. ~ Untried(c) /\ (Online(c)' <=> Online(c)) /\ (InService(c)' <=> InService(c))
      BY <1>2, <1>3, <1>5, <3>1, ServiceIs DEF Untried, Online
    <3>4. Sound(c) => Sound(c)'
      <4> SUFFICES ASSUME Sound(c) PROVE Sound(c)'
        OBVIOUS
      <4>1. Consistent(s)
        BY <1>3 DEF Sound, Consistent
      <4>2. InHand(c)' /\ Mounted(c)'
        BY <1>2, <1>3, <1>5, <3>1, <3>2 DEF Sound, InHand, Mounted
      <4>3. Reported(c)'
        BY <1>3, <1>5, <3>1, <3>3 DEF Sound, Reported
      <4> QED BY <1>2, <1>3, <3>1, <4>1, <4>2, <4>3 DEF Sound
    <3>5. Owing(c) => Owing(c)'
      BY <1>5, <3>3 DEF Owing
    <3> QED BY <1>1, <1>2, <1>3, <1>5, <2>2, <3>1, <3>3, <3>4, <3>5 DEF Eases
  <2> QED BY <2>1, <2>2
<1> QED BY <1>1, <1>6, EveryoneEases

(* A pass begins or ends: nobody's camera changes.                         *)
LEMMA PassAccords ==
  ASSUME AccordInv, WakeUp \/ EndScan, UNCHANGED <<thread, Others>> PROVE AccordInv'
<1>1. /\ UNCHANGED <<thread, rows, recorder, ai, feed, phase, toRestore>>
      /\ contested \subseteq contested'
  BY DEF Others, parts, process
<1>2. /\ UNCHANGED <<sessions, mount, copy, toReport>>
      /\ worker \in {"asleep", "scanning"} /\ worker' \in {"scanning", "reporting"}
  BY DEF WakeUp, EndScan
<1>3. ASSUME NEW d \in Cameras PROVE Eases(d)
  <2>1. Quiet(d)
    BY <1>1, <1>2 DEF Quiet, SameStreams, Working, Pending, Latest
  <2> QED BY <2>1, QuietEases
<1> QED BY <1>1, <1>3, EveryoneEases

(* The worker takes a camera in hand.  Whoever is at work on it without    *)
(* having met the worker neither moves, stops, starts nor removes it.      *)
LEMMA TakenIsSound ==
  ASSUME NEW c \in Cameras, Take(c), Sound(c)
  PROVE  Sound(c)'
<1>1. /\ worker = "scanning" /\ worker' = "probing" /\ at' = c /\ copy'.session = sessions[c]
      /\ sessions[c].due = "now" /\ UNCHANGED <<sessions, mount, toReport>>
  BY DEF Take, Left
<1>2. ~ Working(c) /\ (Pending(c)' <=> Pending(c)) /\ (Untried(c)' <=> Untried(c))
      /\ \A x \in States : Latest(c, x)' => Latest(c, x)
  BY <1>1 DEF Working, Pending, Latest, Untried
<1>3. InHand(c)'
  BY <1>1 DEF Sound, InHand
<1>4. Mounted(c)'
  BY <1>1, <1>2 DEF Sound, Mounted
<1>5. Reported(c)'
  BY <1>1, <1>2 DEF Sound, Reported
<1> QED BY <1>1, <1>3, <1>4, <1>5 DEF Sound

LEMMA TakeUpAccords ==
  ASSUME LifeInv, StreamInv, AccordInv, NEW c \in Cameras, TakeUp(c) PROVE AccordInv'
<1>1. /\ UNCHANGED <<thread, rows, recorder, ai, feed, phase, toRestore>> /\ Take(c)
      /\ contested' = IF Meets(c) THEN contested \cup {c} ELSE contested
  BY DEF TakeUp, parts, process
<1>2. /\ worker = "scanning" /\ worker' = "probing" /\ at' = c
      /\ c \in Managed /\ UNCHANGED <<sessions, mount, toReport>>
  BY <1>1 DEF Take, Left
<1> SUFFICES ASSUME phase' \in {"up", "restoring"}, NEW d \in Cameras \ contested'
             PROVE  Accord(d)'
  BY DEF AccordInv
<1>3. Accord(d)
  BY <1>1 DEF AccordInv
<1>4. Unrestored(d)' <=> Unrestored(d)
  BY <1>1 DEF Unrestored
<1>5. CASE d # c
  <2>1. Quiet(d)
    BY <1>1, <1>2, <1>5 DEF Quiet, SameStreams, Working, Pending, Latest
  <2> QED BY <1>1, <1>3, <1>4, <2>1, QuietEases, AccordEases
<1>6. CASE d = c
  <2>1. ~ Unrestored(c)
    BY <1>2, <1>3, <1>6 DEF Accord, Gone
  <2>2. ~ Gone(c) /\ (Sound(c) => Sound(c)')
    BY <1>1, <1>2, TakenIsSound DEF Gone
  <2>3. /\ Owing(c)' <=> Owing(c)
        /\ Online(c)' <=> Online(c)
        /\ Pending(c)' <=> Pending(c)
        /\ (c \in Managed)'
    BY <1>2 DEF Owing, Untried, Pending, Online, Managed
  <2>4. /\ \A k : (Streamed(c, k) => c \in Managed' /\ sessions'[c].source = k.rtsp
                                    /\ sessions'[c].hardware = k.hardware /\ Sound(c)')
        /\ Kept(c) => Kept(c)'
        /\ Pushed(c) => Pushed(c)'
    BY <1>1, <1>2, <2>2, <2>3 DEF Streamed, Kept, Pushed
  <2>5. Resting(c) => Resting(c)'
    <3> SUFFICES ASSUME Resting(c) PROVE Resting(c)'
      OBVIOUS
    <3>1. rows[c] # NoRow /\ Served(c, rows[c].camera) /\ rows'[c] = rows[c]
      BY <1>1, <2>2 DEF Resting
    <3>2. Streamed(c, rows[c].camera)' /\ Unrecorded(c, rows[c].camera)'
      BY <1>1, <2>4, <3>1 DEF Served, Streamed, Unrecorded
    <3>3. /\ Records(c, rows[c].camera) => Records(c, rows[c].camera)'
          /\ Watches(c, rows[c].camera) => Watches(c, rows[c].camera)'
      BY <1>1, <3>1 DEF Records, Watches
    <3>4. Served(c, rows[c].camera)'
      BY <2>3, <2>4, <3>1, <3>2, <3>3 DEF Served
    <3> QED BY <3>1, <3>4 DEF Resting
  <2>6. ASSUME NEW t \in Threads, On(t, c), Midway(t, c) PROVE Midway(t, c)'
    <3>1. thread'[t] = thread[t] /\ rows'[c] = rows[c]
      BY <1>1
    <3>2. ~ Reopens(thread[t].op, thread[t].changes)
      BY <1>1, <1>6, <2>6 DEF On, Meets, Busy
    <3>3. thread[t].op \in {"create", "update"} /\ Undisturbed(t, c)'
      BY <3>1, <3>2 DEF Reopens, Undisturbed
    <3>4. NewCamera(t)' = NewCamera(t) /\ DiffOf(t)' = DiffOf(t)
      BY <3>1, SameEdit
    <3>5. ASSUME NEW r, NEW w, Telling(t, c, r, w) PROVE Telling(t, c, r, w)'
      <4>1. Edit(t, r)' = Edit(t, r) /\ Edit(t, w)' = Edit(t, w)
        BY <3>1, <3>4 DEF Edit
      <4>2. Streamed(c, thread[t].row.camera)' /\ Unrecorded(c, Edit(t, r))'
        BY <1>1, <2>4, <3>1, <3>5, <4>1 DEF Telling, Streamed, Unrecorded
      <4>3. /\ Records(c, Edit(t, r)) => Records(c, Edit(t, r))'
            /\ Watches(c, Edit(t, w)) => Watches(c, Edit(t, w))'
        BY <1>1, <4>1 DEF Records, Watches
      <4> QED BY <2>3, <2>4, <3>1, <3>3, <3>4, <3>5, <4>2, <4>3 DEF Telling
    <3>6. thread[t].at \in {"read", "store", "status", "recording", "ai", "saving", "streams"}
      BY <2>2, <2>6, <3>3 DEF Midway, Cleared, Calling
    <3>7. thread[t].at = "streams" => thread[t].op = "update" /\ Telling(t, c, "after", "after")
      BY <2>2, <2>6, <3>3 DEF Midway, Ordered
    <3> QED BY <2>5, <2>6, <3>1, <3>3, <3>5, <3>6, <3>7 DEF Midway, Ordered
  <2>7. \A t \in Threads : On(t, c)' <=> On(t, c)
    BY <1>1 DEF On
  <2> QED BY <1>3, <1>4, <1>6, <2>1, <2>5, <2>6, <2>7 DEF Accord
<1> QED BY <1>5, <1>6

(* The worker makes the next report: its thread begins, on a camera nobody *)
(* else is at work on, with what the latest report says or one that        *)
(* another is still to follow.                                             *)
LEMMA WorkerReportsAccords ==
  ASSUME LifeInv, StreamInv, AccordInv, WorkerReports PROVE AccordInv'
<1>1. /\ UNCHANGED <<rows, recorder, ai, feed, phase, toRestore>> /\ Report
      /\ thread["worker"].at = "idle" /\ "worker" \in Threads
  BY DEF WorkerReports, parts, process, Threads
<1>2. /\ worker = "reporting" /\ worker' \in {"reporting", "asleep"}
      /\ UNCHANGED <<sessions, mount, copy>> /\ toReport \in Seq(Cameras \X States)
  BY <1>1 DEF Report, StreamInv, StreamShape
<1>3. \A d \in Cameras : ~ Working(d) /\ ~ Working(d)'
  BY <1>2 DEF Working
<1>4. CASE toReport = <<>>
  <2>1. thread' = thread /\ toReport' = toReport /\ contested \subseteq contested'
    BY <1>1, <1>4 DEF WorkerReports, Report
  <2>2. ASSUME NEW d \in Cameras PROVE Eases(d)
    <3>1. Quiet(d)
      BY <1>1, <1>2, <1>3, <2>1 DEF Quiet, SameStreams, Pending, Latest
    <3> QED BY <3>1, QuietEases
  <2> QED BY <1>1, <2>1, <2>2, EveryoneEases
<1>5. CASE toReport # <<>>
  <2>1. PICK c \in Cameras, state \in States : Head(toReport) = <<c, state>>
    BY <1>2, <1>5, HeadTailProperties
  <2>0. Head(toReport)[1] = c /\ Head(toReport)[2] = state
    BY <2>1
  <2> DEFINE n == Called(c, state, TRUE, "report")
  <2>2. /\ toReport' = Tail(toReport) /\ thread' = [thread EXCEPT !["worker"] = n]
        /\ contested \subseteq contested' /\ (Busy(c) # {} => c \in contested')
    <3> HIDE DEF n
    <3>1. thread' = [thread EXCEPT !["worker"] = n]
      BY <1>5, <2>0 DEF WorkerReports, n
    <3> QED BY <1>1, <1>5, <2>0, <3>1 DEF WorkerReports, Report
  <2>3. /\ n.at = "write" /\ n.op = "report" /\ n.c = c /\ n.state = state
        /\ n.desired = TRUE
    BY DEF Called, CallbackOrder, Idle
  <2> HIDE DEF n
  <2>4. /\ thread'["worker"] = n
        /\ \A t \in Threads : t # "worker" => thread'[t] = thread[t]
    BY <1>1, <2>2 DEF LifeInv, LifeShape
  <2>5. /\ Pending(c) /\ (~ Pending(c)' => Latest(c, state))
        /\ \A d \in Cameras : /\ Pending(d)' => Pending(d)
                              /\ d # c => (Pending(d)' <=> Pending(d))
                              /\ \A x \in States : Latest(d, x)' => Latest(d, x)
    BY <1>2, <1>5, <2>1, <2>2, ReportTaken
  <2> SUFFICES ASSUME phase' \in {"up", "restoring"}, NEW d \in Cameras \ contested'
               PROVE  Accord(d)'
    BY DEF AccordInv
  <2>6. Accord(d) /\ (Unrestored(d)' <=> Unrestored(d))
    BY <1>1, <2>2 DEF AccordInv, Unrestored
  <2>7. CASE d # c
    <3>1. Quiet(d)
      BY <1>1, <1>2, <1>3, <2>5, <2>7 DEF Quiet, SameStreams
    <3>2. \A t \in Threads : thread'[t] = thread[t] \/ ~ (On(t, d) \/ On(t, d)')
      BY <1>1, <2>3, <2>4, <2>7 DEF On
    <3> QED BY <2>6, <3>1, <3>2, QuietEases, AccordEases
  <2>8. CASE d = c
    <3>1. \A t \in Threads : ~ On(t, c)
      BY <2>2, <2>8 DEF Busy, On
    <3>2. InService(c)
      BY <2>5, ServiceIs
    <3>3. /\ Resting(c) /\ ~ Unrestored(c)
      BY <2>6, <2>8, <3>1, <3>2 DEF Accord, Gone
    <3>4. rows[c] # NoRow /\ Served(c, rows[c].camera) /\ rows'[c] = rows[c]
      BY <1>1, <3>2, <3>3 DEF Resting, Gone
    <3>5. Sound(c) /\ c \in Managed
      BY <3>4 DEF Served, Streamed
    <3>6. InHand(c)' /\ Mounted(c)'
      BY <1>2, <1>3, <3>5 DEF Sound, InHand, Mounted
    <3>7. Reported(c)' /\ (Untried(c)' <=> Untried(c))
      BY <1>2, <2>5, <3>5 DEF Sound, Reported, Untried
    <3>8. Sound(c)' /\ c \in Managed'
      BY <1>2, <3>5, <3>6, <3>7 DEF Sound, Managed
    <3>9. Streamed(c, rows[c].camera)' /\ Unrecorded(c, rows[c].camera)'
      BY <1>1, <1>2, <3>4, <3>8 DEF Served, Streamed, Unrecorded
    <3>10. Owing(c)' \/ (state = sessions[c].state /\ sessions[c].desired = TRUE)
      BY <2>5, <3>5, <3>7 DEF Sound, Reported, Owing
    <3>11. Calling("worker", c)'
      BY <1>2, <1>3, <2>3, <2>4, <3>4, <3>9, <3>10 DEF Calling
    <3>12. Midway("worker", c)' /\ On("worker", c)'
      BY <2>3, <2>4, <3>11 DEF Midway, On
    <3>13. \A t \in Threads : On(t, c)' => t = "worker"
      BY <2>4, <3>1 DEF On
    <3> QED BY <1>1, <2>6, <2>8, <3>3, <3>12, <3>13 DEF Accord
  <2> QED BY <2>7, <2>8
<1> QED BY <1>4, <1>5

-----------------------------------------------------------------------------
(* A thread's steps.  On a camera nobody met another on it is alone.       *)

LEMMA ThreadAccords ==
  ASSUME AccordInv, LifeInv, NEW t \in Threads, NEW c \in Cameras, On(t, c),
         \A u \in Threads \ {t} : thread'[u] = thread[u],
         thread'[t].at = "idle" \/ thread'[t].c = c,
         \A d \in Cameras \ {c} : Quiet(d),
         UNCHANGED <<contested, phase, toRestore>>,
         Midway(t, c) =>
           IF thread'[t].at = "idle" THEN Resting(c)' ELSE Midway(t, c)'
  PROVE  AccordInv'
<1> SUFFICES ASSUME phase' \in {"up", "restoring"}, NEW d \in Cameras \ contested'
             PROVE  Accord(d)'
  BY DEF AccordInv
<1>1. Accord(d) /\ (Unrestored(d)' <=> Unrestored(d))
  BY DEF AccordInv, Unrestored
<1>2. CASE d # c
  <2>1. \A u \in Threads : thread'[u] = thread[u] \/ ~ (On(u, d) \/ On(u, d)')
    BY <1>2 DEF On
  <2> QED BY <1>1, <1>2, <2>1, QuietEases, AccordEases
<1>3. CASE d = c
  <2>1. Midway(t, c) /\ ~ Unrestored(c)
    BY <1>1, <1>3 DEF Accord
  <2>2. \A u \in Threads : u # t => ~ On(u, c)
    BY <1>3 DEF LifeInv, MeetingsAreSeen, On
  <2>3. \A u \in Threads : u # t => ~ On(u, c)'
    BY <2>2 DEF On
  <2>4. On(t, c)' <=> thread'[t].at # "idle"
    BY DEF On
  <2> QED BY <1>1, <1>3, <2>1, <2>3, <2>4 DEF Accord
<1> QED BY <1>2, <1>3

(* The locals of a thread that ends or goes to the next step.              *)
LEMMA Locals ==
  ASSUME LifeInv, NEW t \in Threads, NEW next
  PROVE  /\ Done(t) => /\ thread'[t] = Idle /\ thread'[t].at = "idle"
                       /\ \A u \in Threads \ {t} : thread'[u] = thread[u]
         /\ Goto(t, next) =>
              /\ thread'[t].at = next
              /\ thread'[t].c = thread[t].c /\ thread'[t].op = thread[t].op
              /\ thread'[t].changes = thread[t].changes /\ thread'[t].row = thread[t].row
              /\ thread'[t].live = thread[t].live /\ thread'[t].state = thread[t].state
              /\ thread'[t].desired = thread[t].desired
              /\ \A u \in Threads \ {t} : thread'[u] = thread[u]
BY IdleFields DEF Done, Goto, LifeInv, LifeShape, ThreadFields

(* The manager is left alone.                                              *)
LEMMA StreamsStay ==
  ASSUME UNCHANGED vars, NEW c \in Cameras
  PROVE  /\ SameStreams(c) /\ sessions'[c] = sessions[c] /\ mount'[c] = mount[c]
         /\ Sound(c) => Sound(c)'
         /\ (c \in Managed)' <=> c \in Managed
         /\ InService(c)' <=> InService(c)
         /\ Working(c)' <=> Working(c)
         /\ Pending(c)' <=> Pending(c)
         /\ Owing(c)' <=> Owing(c)
         /\ Online(c)' <=> Online(c)
<1>1. SameStreams(c)
  BY DEF vars, SameStreams, Working, Pending, Latest
<1> QED BY <1>1, StreamsSame DEF SameStreams

LEMMA OthersAreQuiet ==
  ASSUME UNCHANGED vars, NEW c \in Cameras,
         \A d \in Cameras \ {c} : /\ rows'[d] = rows[d] /\ recorder'[d] = recorder[d]
                                  /\ ai'[d] = ai[d] /\ feed'[d] = feed[d]
  PROVE  \A d \in Cameras \ {c} : Quiet(d)
BY StreamsStay DEF Quiet

(* A callback: the row, the clients, the recording manager, the AI runtime. *)
LEMMA WriteRowAccords ==
  ASSUME LifeInv, AccordInv, NEW t \in Threads, WriteRow(t) PROVE AccordInv'
<1> PICK c \in Cameras : c = thread[t].c
  BY Known DEF WriteRow
<1> DEFINE r == RuntimeUpdated(rows[c], thread[t].state)
<1>1. /\ thread[t].at = "write" /\ On(t, c) /\ Goto(t, "push")
      /\ rows' = [rows EXCEPT ![c] = r]
      /\ UNCHANGED <<recorder, ai, feed, contested, phase, toRestore>> /\ UNCHANGED vars
  BY CallbackGoesOn DEF WriteRow, parts, process, On
<1>2. rows[c] # NoRow => r # NoRow /\ r.camera = rows[c].camera /\ r.state = thread[t].state
  <2> SUFFICES ASSUME rows[c] # NoRow
               PROVE  r # NoRow /\ r.camera = rows[c].camera /\ r.state = thread[t].state
    OBVIOUS
  <2>1. r = [rows[c] EXCEPT !.state = thread[t].state] /\ DOMAIN rows[c] = {"camera", "state"}
    BY Known DEF RuntimeUpdated
  <2>2. DOMAIN r = {"camera", "state"} /\ DOMAIN NoRow = {}
    BY <2>1 DEF NoRow
  <2> QED BY <2>1, <2>2
<1> HIDE DEF r
<1>3. rows'[c] = r /\ \A d \in Cameras \ {c} : rows'[d] = rows[d]
  BY <1>1, Known
<1>4. \A d \in Cameras \ {c} : Quiet(d)
  BY <1>1, <1>3, OthersAreQuiet
<1>5. ASSUME Midway(t, c) PROVE Calling(t, c)'
  <2>1. Calling(t, c)
    BY <1>1, <1>5 DEF Midway
  <2>2. rows[c] # NoRow /\ rows'[c] # NoRow /\ rows'[c].camera = rows[c].camera
        /\ rows'[c].state = thread[t].state
    BY <1>2, <1>3, <2>1 DEF Calling
  <2>3. Streamed(c, rows[c].camera)' /\ Unrecorded(c, rows[c].camera)'
    BY <1>1, <2>1, <2>2, StreamsStay DEF Calling, Streamed, Unrecorded
  <2>4. thread[t].state = sessions[c].state => Kept(c)'
    BY <1>1, <2>2, StreamsStay DEF Kept
  <2>5. /\ thread'[t].at = "push" /\ thread'[t].op = thread[t].op
        /\ thread'[t].row = thread[t].row /\ thread'[t].live = thread[t].live
        /\ thread'[t].state = thread[t].state /\ thread'[t].desired = thread[t].desired
    BY <1>1, Locals
  <2>6. /\ (Working(c)' <=> Working(c)) /\ (Owing(c)' <=> Owing(c))
        /\ (Online(c)' <=> Online(c)) /\ sessions'[c] = sessions[c]
    BY <1>1, StreamsStay
  <2> QED BY <1>1, <2>1, <2>2, <2>3, <2>4, <2>5, <2>6 DEF Calling
<1> QED BY <1>1, <1>4, <1>5, Locals, ThreadAccords DEF Midway, On

LEMMA PushStateAccords ==
  ASSUME LifeInv, AccordInv, NEW t \in Threads, PushState(t) PROVE AccordInv'
<1> PICK c \in Cameras : c = thread[t].c
  BY Known DEF PushState
<1>1. /\ thread[t].at = "push" /\ On(t, c) /\ Goto(t, "fetch")
      /\ feed' = [feed EXCEPT ![c] = <<thread[t].state, thread[t].desired>>]
      /\ UNCHANGED <<rows, recorder, ai, contested, phase, toRestore>> /\ UNCHANGED vars
  BY CallbackGoesOn DEF PushState, Push, process, On
<1>2. /\ feed'[c] = <<thread[t].state, thread[t].desired>>
      /\ \A d \in Cameras \ {c} : feed'[d] = feed[d]
  BY <1>1, Known
<1>3. \A d \in Cameras \ {c} : Quiet(d)
  BY <1>1, <1>2, OthersAreQuiet
<1>4. ASSUME Midway(t, c) PROVE Calling(t, c)'
  <2>1. Calling(t, c) /\ rows'[c] = rows[c]
    BY <1>1, <1>4 DEF Midway
  <2>2. Streamed(c, rows[c].camera)' /\ Unrecorded(c, rows[c].camera)'
    BY <1>1, <2>1, StreamsStay DEF Calling, Streamed, Unrecorded
  <2>3. /\ Kept(c) => Kept(c)'
        /\ thread[t].state = sessions[c].state /\ thread[t].desired = sessions[c].desired =>
             Pushed(c)'
    BY <1>1, <1>2, StreamsStay DEF Kept, Pushed
  <2>4. /\ thread'[t].at = "fetch" /\ thread'[t].op = thread[t].op
        /\ thread'[t].row = thread[t].row /\ thread'[t].live = thread[t].live
        /\ thread'[t].state = thread[t].state /\ thread'[t].desired = thread[t].desired
    BY <1>1, Locals
  <2>5. /\ (Working(c)' <=> Working(c)) /\ (Owing(c)' <=> Owing(c))
        /\ (Online(c)' <=> Online(c)) /\ sessions'[c] = sessions[c]
    BY <1>1, StreamsStay
  <2> QED BY <1>1, <2>1, <2>2, <2>3, <2>4, <2>5 DEF Calling
<1> QED BY <1>1, <1>3, <1>4, Locals, ThreadAccords DEF Midway, On

LEMMA FetchAccords ==
  ASSUME LifeInv, AccordInv, NEW t \in Threads, Fetch(t) PROVE AccordInv'
<1> PICK c \in Cameras : c = thread[t].c
  BY Known DEF Fetch
<1>1. /\ thread[t].at = "fetch" /\ On(t, c)
      /\ UNCHANGED <<rows, recorder, ai, feed, contested, phase, toRestore>> /\ UNCHANGED vars
  BY DEF Fetch, Others, parts, process, On
<1>2. \A d \in Cameras \ {c} : Quiet(d)
  BY <1>1, OthersAreQuiet
<1>3. CASE rows[c] = NoRow
  <2>1. Done(t)
    BY <1>3 DEF Fetch
  <2>2. ~ Midway(t, c)
    BY <1>1, <1>3 DEF Midway, Calling
  <2> QED BY <1>1, <1>2, <2>1, <2>2, Locals, ThreadAccords
<1>4. CASE rows[c] # NoRow
  <2> DEFINE n == [thread[t] EXCEPT !.at = "report-recording", !.row = rows[c],
                                    !.live = thread[t].state = "Online"]
  <2>1. /\ thread'[t] = n /\ \A u \in Threads \ {t} : thread'[u] = thread[u]
    BY <1>4 DEF Fetch, LifeInv, LifeShape
  <2>2. /\ n.at = "report-recording" /\ n.c = c /\ n.op = thread[t].op /\ n.row = rows[c]
        /\ n.live = (thread[t].state = "Online") /\ n.state = thread[t].state
        /\ n.desired = thread[t].desired
    BY DEF LifeInv, LifeShape, ThreadFields
  <2> HIDE DEF n
  <2>3. ASSUME Midway(t, c) PROVE Calling(t, c)'
    <3>1. Calling(t, c) /\ rows'[c] = rows[c]
      BY <1>1, <2>3 DEF Midway
    <3>2. Streamed(c, rows[c].camera)' /\ Unrecorded(c, rows[c].camera)'
      BY <1>1, <3>1, StreamsStay DEF Calling, Streamed, Unrecorded
    <3>3. (Kept(c) => Kept(c)') /\ (Pushed(c) => Pushed(c)')
      BY <1>1, StreamsStay DEF Kept, Pushed
    <3> QED BY <1>1, <2>1, <2>2, <3>1, <3>2, <3>3, StreamsStay DEF Calling
  <2> QED BY <1>1, <1>2, <2>1, <2>2, <2>3, ThreadAccords DEF Midway
<1> QED BY <1>3, <1>4

(* What the recording manager keeps of a row it is told.                   *)
LEMMA RecorderToldOf ==
  ASSUME NEW entry, NEW k, NEW live
  PROVE  /\ ~ ShouldRecord(k) => RecorderTold(entry, k, live).session = Nothing
         /\ ShouldRecord(k) /\ live => RecorderTold(entry, k, live).session = Built(k)
BY DEF RecorderTold

LEMMA ReportRecordingAccords ==
  ASSUME LifeInv, RowsAreWhole, AccordInv, NEW t \in Threads, ReportRecording(t)
  PROVE  AccordInv'
<1> PICK c \in Cameras : c = thread[t].c
  BY Known DEF ReportRecording
<1> DEFINE k == thread[t].row.camera
           e == RecorderTold(recorder[c], k, thread[t].live)
<1>1. /\ thread[t].at = "report-recording" /\ On(t, c) /\ Goto(t, "report-ai")
      /\ recorder' = [recorder EXCEPT ![c] = e]
      /\ UNCHANGED <<rows, ai, feed, contested, phase, toRestore>> /\ UNCHANGED vars
  BY DEF ReportRecording, ApplyRecording, process, On
<1>2. /\ ~ ShouldRecord(k) => e.session = Nothing
      /\ ShouldRecord(k) /\ thread[t].live => e.session = Built(k)
  BY RecorderToldOf
<1> HIDE DEF e
<1>3. recorder'[c] = e /\ \A d \in Cameras \ {c} : recorder'[d] = recorder[d]
  BY <1>1 DEF RowsAreWhole
<1>4. \A d \in Cameras \ {c} : Quiet(d)
  BY <1>1, <1>3, OthersAreQuiet
<1>5. ASSUME Midway(t, c) PROVE Calling(t, c)'
  <2>1. Calling(t, c) /\ rows'[c] = rows[c]
    BY <1>1, <1>5 DEF Midway
  <2>2. k = rows[c].camera /\ thread[t].live = (thread[t].state = "Online")
    BY <1>1, <2>1 DEF Calling
  <2>3. Streamed(c, rows[c].camera)' /\ Unrecorded(c, rows[c].camera)'
    BY <1>1, <1>2, <1>3, <2>1, <2>2, StreamsStay DEF Calling, Streamed, Unrecorded
  <2>4. (Kept(c) => Kept(c)') /\ (Pushed(c) => Pushed(c)')
    BY <1>1, StreamsStay DEF Kept, Pushed
  <2>5. thread[t].state = sessions[c].state /\ Online(c) => Records(c, rows[c].camera)'
    BY <1>1, <1>2, <1>3, <2>1, <2>2 DEF Records, Online
  <2>6. /\ thread'[t].at = "report-ai" /\ thread'[t].op = thread[t].op
        /\ thread'[t].row = thread[t].row /\ thread'[t].live = thread[t].live
        /\ thread'[t].state = thread[t].state /\ thread'[t].desired = thread[t].desired
    BY <1>1, Locals
  <2>7. /\ (Working(c)' <=> Working(c)) /\ (Owing(c)' <=> Owing(c))
        /\ (Online(c)' <=> Online(c)) /\ sessions'[c] = sessions[c]
    BY <1>1, StreamsStay
  <2> QED BY <1>1, <2>1, <2>2, <2>3, <2>4, <2>5, <2>6, <2>7 DEF Calling
<1> QED BY <1>1, <1>4, <1>5, Locals, ThreadAccords DEF Midway, On

LEMMA ReportAiAccords ==
  ASSUME LifeInv, RowsAreWhole, AccordInv, NEW t \in Threads, ReportAi(t)
  PROVE  AccordInv'
<1> PICK c \in Cameras : c = thread[t].c
  BY Known DEF ReportAi
<1> DEFINE e == [told |-> thread[t].row.camera, live |-> thread[t].live]
<1>1. /\ thread[t].at = "report-ai" /\ On(t, c) /\ Goto(t, "report-saving")
      /\ ai' = [ai EXCEPT ![c] = e]
      /\ UNCHANGED <<rows, recorder, feed, contested, phase, toRestore>> /\ UNCHANGED vars
  BY DEF ReportAi, ApplyAi, process, On
<1>2. /\ ai'[c].told = thread[t].row.camera /\ ai'[c].live = thread[t].live
      /\ \A d \in Cameras \ {c} : ai'[d] = ai[d]
  BY <1>1 DEF RowsAreWhole
<1>3. \A d \in Cameras \ {c} : Quiet(d)
  BY <1>1, <1>2, OthersAreQuiet
<1>4. ASSUME Midway(t, c) PROVE Calling(t, c)'
  <2>1. Calling(t, c) /\ rows'[c] = rows[c]
    BY <1>1, <1>4 DEF Midway
  <2>2. /\ thread[t].row.camera = rows[c].camera
        /\ thread[t].live = (thread[t].state = "Online")
    BY <1>1, <2>1 DEF Calling
  <2>3. Streamed(c, rows[c].camera)' /\ Unrecorded(c, rows[c].camera)'
    BY <1>1, <2>1, StreamsStay DEF Calling, Streamed, Unrecorded
  <2>4. /\ Kept(c) => Kept(c)'
        /\ Pushed(c) => Pushed(c)'
        /\ Records(c, rows[c].camera) => Records(c, rows[c].camera)'
    BY <1>1, <2>1, StreamsStay DEF Kept, Pushed, Records
  <2>5. thread[t].state = sessions[c].state /\ Online(c) => Watches(c, rows[c].camera)'
    <3>1. thread[t].state = "Online" => ai'[c].live
      BY <1>2, <2>2
    <3> QED BY <1>2, <2>1, <2>2, <3>1 DEF Watches, Online
  <2>6. /\ thread'[t].at = "report-saving" /\ thread'[t].op = thread[t].op
        /\ thread'[t].row = thread[t].row /\ thread'[t].live = thread[t].live
        /\ thread'[t].state = thread[t].state /\ thread'[t].desired = thread[t].desired
    BY <1>1, Locals
  <2>7. /\ (Working(c)' <=> Working(c)) /\ (Owing(c)' <=> Owing(c))
        /\ (Online(c)' <=> Online(c)) /\ sessions'[c] = sessions[c]
    BY <1>1, StreamsStay
  <2> QED BY <1>1, <2>1, <2>2, <2>3, <2>4, <2>5, <2>6, <2>7 DEF Calling
<1> QED BY <1>1, <1>3, <1>4, Locals, ThreadAccords DEF Midway, On

LEMMA ReportSavingAccords ==
  ASSUME LifeInv, AccordInv, NEW t \in Threads, ReportSaving(t) PROVE AccordInv'
<1> PICK c \in Cameras : c = thread[t].c
  BY Known DEF ReportSaving
<1>1. /\ thread[t].at = "report-saving" /\ On(t, c) /\ Done(t)
      /\ UNCHANGED <<rows, recorder, ai, feed, contested, phase, toRestore>> /\ UNCHANGED vars
  BY DEF ReportSaving, process, On
<1>2. \A d \in Cameras : Quiet(d)
  BY <1>1, StreamsStay DEF Quiet
<1>3. ASSUME Midway(t, c) PROVE Resting(c)'
  <2>1. Calling(t, c)
    BY <1>1, <1>3 DEF Midway
  <2>2. Resting(c)
    BY <1>1, <2>1 DEF Calling, Resting, Served
  <2> QED BY <1>2, <2>2, QuietEases, RestingEases
<1> QED BY <1>1, <1>2, <1>3, Locals, ThreadAccords

-----------------------------------------------------------------------------
(* What an edit makes of a row: the fields it does not differ in stay.     *)
LEMMA ChangedField ==
  ASSUME NEW changes, NEW row, NEW f \in DOMAIN changes \cup DOMAIN row
  PROVE  /\ f \in DOMAIN Changed(changes, row)
         /\ f # "recordingEnabled" \/ "recordingMode" \notin Diff(changes, row) =>
              /\ f \in DOMAIN changes => Changed(changes, row)[f] = changes[f]
              /\ f \notin DOMAIN changes => Changed(changes, row)[f] = row[f]
<1> DEFINE m == Assigned(changes, row)
           v == changes.recordingMode # "off"
<1>1. /\ f \in DOMAIN m
      /\ f \in DOMAIN changes => m[f] = changes[f]
      /\ f \notin DOMAIN changes => m[f] = row[f]
  BY DEF Assigned
<1>2. \/ Changed(changes, row) = m
      \/ /\ Changed(changes, row) = [m EXCEPT !.recordingEnabled = v]
         /\ "recordingMode" \in Diff(changes, row)
  BY DEF Changed
<1> HIDE DEF m, v
<1> QED BY <1>1, <1>2

LEMMA ChangedIsWhole ==
  ASSUME NEW changes, NEW row, CameraFields \subseteq DOMAIN row, ValidForUpdate(changes),
         "rtsp" \in DOMAIN changes \/ row.rtsp # None
  PROVE  Whole(Changed(changes, row))
<1>1. "rtsp" \in DOMAIN changes \cup DOMAIN row
  BY DEF CameraFields
<1>2. /\ "rtsp" \in DOMAIN changes => Changed(changes, row).rtsp = changes.rtsp
      /\ "rtsp" \notin DOMAIN changes => Changed(changes, row).rtsp = row.rtsp
  BY <1>1, ChangedField
<1>3. "rtsp" \in DOMAIN Allowed /\ Allowed.rtsp = Urls
  BY DEF Allowed
<1>4. "rtsp" \in DOMAIN changes => changes.rtsp \in Urls
  BY <1>3 DEF ValidForUpdate
<1>5. Changed(changes, row).rtsp # None
  BY <1>2, <1>4, LifecycleAssumption
<1>6. CameraFields \subseteq DOMAIN Changed(changes, row)
  BY ChangedField
<1> QED BY <1>5, <1>6 DEF Whole

-----------------------------------------------------------------------------
(* A request.                                                              *)
LEMMA EditOf ==
  ASSUME NEW t, Whole(thread[t].row.camera),
         NEW row, row = thread[t].row.camera, NEW new, new = NewCamera(t)
  PROVE  /\ ~ SourceChanged(DiffOf(t)) => new.rtsp = row.rtsp /\ new.hardware = row.hardware
         /\ SourceChanged(DiffOf(t)) =>
              /\ DOMAIN thread[t].changes \cap {"rtsp", "hardware"} # {}
              /\ new.rtsp # row.rtsp \/ new.hardware # row.hardware
         /\ ~ RecordingChanged(DiffOf(t)) => (ShouldRecord(new) <=> ShouldRecord(row))
         /\ ~ RecordingChanged(DiffOf(t)) /\ ~ SourceChanged(DiffOf(t)) => Built(new) = Built(row)
         /\ ~ MotionChanged(DiffOf(t)) => /\ new.motionEnabled = row.motionEnabled
                                          /\ new.motionZones = row.motionZones
         /\ ValidForUpdate(thread[t].changes) => Whole(new)
<1> DEFINE changes == thread[t].changes
           diff == DiffOf(t)
<1>0. /\ new = Changed(changes, row) /\ diff = Diff(changes, row)
      /\ CameraFields \subseteq DOMAIN row /\ row.rtsp # None
  BY DEF NewCamera, DiffOf, Whole
<1> HIDE DEF changes, diff
<1>1. ASSUME NEW f \in CameraFields, f # "recordingEnabled" \/ "recordingMode" \notin diff
      PROVE  /\ f \notin diff => new[f] = row[f]
             /\ f \in diff => f \in DOMAIN changes /\ new[f] # row[f]
  <2>1. /\ f \in DOMAIN changes => new[f] = changes[f]
        /\ f \notin DOMAIN changes => new[f] = row[f]
    BY <1>0, <1>1, ChangedField
  <2>2. f \in diff <=> f \in DOMAIN changes /\ changes[f] # row[f]
    BY <1>0 DEF Diff
  <2> QED BY <2>1, <2>2
<1>2. CameraFields = {"rtsp", "hardware", "recordingMode", "recordingEnabled", "segmentSeconds",
                      "motionEnabled", "motionZones"}
  BY DEF CameraFields
<1>3. ~ SourceChanged(diff) => new.rtsp = row.rtsp /\ new.hardware = row.hardware
  BY <1>1, <1>2 DEF SourceChanged
<1>4. SourceChanged(diff) => /\ DOMAIN changes \cap {"rtsp", "hardware"} # {}
                             /\ new.rtsp # row.rtsp \/ new.hardware # row.hardware
  BY <1>1, <1>2 DEF SourceChanged
<1>5. ~ RecordingChanged(diff) => /\ new.recordingMode = row.recordingMode
                                  /\ new.recordingEnabled = row.recordingEnabled
                                  /\ new.segmentSeconds = row.segmentSeconds
  BY <1>1, <1>2 DEF RecordingChanged
<1>6. ~ MotionChanged(diff) => /\ new.motionEnabled = row.motionEnabled
                               /\ new.motionZones = row.motionZones
  BY <1>1, <1>2 DEF MotionChanged
<1>7. ValidForUpdate(changes) => Whole(new)
  BY <1>0, ChangedIsWhole
<1> QED BY <1>3, <1>4, <1>5, <1>6, <1>7 DEF ShouldRecord, Built, EffectiveMode, changes, diff

LEMMA InsertAccords ==
  ASSUME LifeInv, RowsAreWhole, AccordInv, NEW t \in Threads, Insert(t) PROVE AccordInv'
<1> PICK c \in Cameras : c = thread[t].c
  BY Known DEF Insert
<1> DEFINE r == Inserted(Created(thread[t].changes))
           n == [thread[t] EXCEPT !.at = "streams", !.row = r]
<1>1. /\ thread[t].at = "insert" /\ On(t, c)
      /\ rows' = [rows EXCEPT ![c] = r] /\ thread' = [thread EXCEPT ![t] = n]
      /\ UNCHANGED <<recorder, ai, feed, contested, phase, toRestore>> /\ UNCHANGED vars
  BY DEF Insert, parts, process, On
<1>2. r # NoRow
  BY DEF Inserted, NoRow
<1>3. n.at = "streams" /\ n.c = c /\ n.op = thread[t].op /\ n.row = r
  BY DEF LifeInv, LifeShape, ThreadFields
<1> HIDE DEF r, n
<1>4. rows'[c] = r /\ \A d \in Cameras \ {c} : rows'[d] = rows[d]
  BY <1>1, Known
<1>5. thread'[t] = n /\ \A u \in Threads \ {t} : thread'[u] = thread[u]
  BY <1>1 DEF LifeInv, LifeShape
<1>6. \A d \in Cameras \ {c} : Quiet(d)
  BY <1>1, <1>4, OthersAreQuiet
<1>7. ASSUME Midway(t, c) PROVE Ordered(t, c)'
  <2>1. thread[t].op = "create" /\ Gone(c)
    BY <1>1, <1>7 DEF Midway
  <2>2. Gone(c)'
    BY <1>1, <2>1, StreamsStay DEF Gone
  <2> QED BY <1>2, <1>3, <1>4, <1>5, <2>1, <2>2 DEF Ordered
<1> QED BY <1>1, <1>3, <1>5, <1>6, <1>7, ThreadAccords DEF Midway

LEMMA ReadAccords ==
  ASSUME LifeInv, AccordInv, NEW t \in Threads, Read(t) PROVE AccordInv'
<1> PICK c \in Cameras : c = thread[t].c
  BY Known DEF Read
<1>1. /\ thread[t].at = "read" /\ On(t, c)
      /\ UNCHANGED <<rows, recorder, ai, feed, contested, phase, toRestore>> /\ UNCHANGED vars
  BY DEF Read, Others, parts, process, On
<1>2. \A d \in Cameras : Quiet(d)
  BY <1>1, StreamsStay DEF Quiet
<1>3. ASSUME Midway(t, c)
      PROVE  /\ thread[t].op \in Requests \ {"create"} /\ Resting(c)' /\ Undisturbed(t, c)
             /\ InService(c)' <=> InService(c)
  <2>1. thread[t].op \in Requests \ {"create"} /\ Resting(c) /\ Undisturbed(t, c)
    BY <1>1, <1>3 DEF Midway
  <2> QED BY <1>1, <1>2, <2>1, QuietEases, RestingEases, StreamsStay
<1>4. CASE rows[c] = NoRow
  <2>1. Done(t)
    BY <1>4 DEF Read
  <2> QED BY <1>1, <1>2, <1>3, <2>1, Locals, ThreadAccords
<1>5. CASE rows[c] # NoRow
  <2> DEFINE n == [thread[t] EXCEPT !.at = AfterRead(thread[t].op), !.row = rows[c]]
  <2>1. /\ thread'[t] = n /\ \A u \in Threads \ {t} : thread'[u] = thread[u]
    BY <1>5 DEF Read, LifeInv, LifeShape
  <2>2. /\ n.at = AfterRead(thread[t].op) /\ n.c = c /\ n.op = thread[t].op
        /\ n.row = rows[c] /\ n.changes = thread[t].changes
    BY DEF LifeInv, LifeShape, ThreadFields
  <2> HIDE DEF n
  <2>3. AfterRead(thread[t].op) \in {"store", "delete", "streams"}
    BY DEF AfterRead, RemovalOrder
  <2>4. ASSUME Midway(t, c) PROVE Midway(t, c)'
    <3>1. Undisturbed(t, c)' /\ rows'[c] # NoRow /\ rows'[c] = thread'[t].row
      BY <1>1, <1>3, <1>5, <2>1, <2>2, <2>4 DEF Undisturbed
    <3>2. CASE thread[t].op = "update"
      BY <1>3, <2>1, <2>2, <2>4, <3>1, <3>2 DEF Midway, AfterRead
    <3>3. CASE thread[t].op = "remove"
      <4>1. ~ InService(c)'
        BY <1>3, <2>4, <3>3 DEF Undisturbed, Reopens
      <4>2. n.at = "delete"
        BY <2>2, <3>3 DEF AfterRead, RemovalOrder
      <4> QED BY <1>3, <2>1, <2>2, <2>4, <3>1, <3>3, <4>1, <4>2 DEF Midway
    <3>4. CASE thread[t].op \in {"start", "stop", "restart"}
      <4>1. ~ InService(c)'
        BY <1>3, <2>4, <3>4 DEF Undisturbed, Reopens
      <4>2. n.at = "streams"
        BY <2>2, <3>4 DEF AfterRead
      <4> QED BY <1>3, <2>1, <2>2, <2>4, <3>1, <3>4, <4>1, <4>2 DEF Midway, Ordered
    <3> QED BY <1>3, <2>4, <3>2, <3>3, <3>4 DEF Requests
  <2> QED BY <1>1, <1>2, <2>1, <2>2, <2>3, <2>4, ThreadAccords
<1> QED BY <1>4, <1>5

(* The row is replaced by an edit of itself, which the thread goes on to   *)
(* tell the parts of unless none of them looks at what was changed.        *)
LEMMA StoreAccords ==
  ASSUME LifeInv, RowsAreWhole, AccordInv, NEW t \in Threads, Store(t) PROVE AccordInv'
<1> PICK c \in Cameras : c = thread[t].c
  BY Known DEF Store
<1> PICK k : k = thread[t].row.camera
  OBVIOUS
<1> PICK new : new = NewCamera(t)
  OBVIOUS
<1> DEFINE r == Updated(rows[c], new, thread[t].row.state)
<1>1. /\ thread[t].at = "store" /\ On(t, c)
      /\ rows' = [rows EXCEPT ![c] = r]
      /\ IF rows[c] = NoRow \/ CosmeticOnly(DiffOf(t)) THEN Done(t) ELSE Goto(t, "status")
      /\ UNCHANGED <<recorder, ai, feed, contested, phase, toRestore>> /\ UNCHANGED vars
  BY DEF Store, NewCamera, parts, process, On
<1>2. thread[t].op = "update" /\ Whole(k) /\ ValidForUpdate(thread[t].changes)
  BY <1>1 DEF RowsAreWhole
<1>3. rows[c] # NoRow => r # NoRow /\ r.camera = new /\ (Postgres => r.state = rows[c].state)
  <2> SUFFICES ASSUME rows[c] # NoRow
               PROVE  r # NoRow /\ r.camera = new /\ (Postgres => r.state = rows[c].state)
    OBVIOUS
  <2>1. DOMAIN r = {"camera", "state"} /\ DOMAIN rows[c] = {"camera", "state"}
    BY Known DEF Updated
  <2>2. r # NoRow
    BY <2>1 DEF NoRow
  <2>3. r.camera = new /\ (Postgres => r.state = rows[c].state)
    BY <2>1 DEF Updated
  <2> QED BY <2>2, <2>3
<1> HIDE DEF r
<1>4. rows'[c] = r /\ \A d \in Cameras \ {c} : rows'[d] = rows[d]
  BY <1>1, Known
<1>5. \A d \in Cameras \ {c} : Quiet(d)
  BY <1>1, <1>4, OthersAreQuiet
<1>6. ASSUME Midway(t, c)
      PROVE  /\ rows'[c] # NoRow /\ rows'[c].camera = new /\ Undisturbed(t, c)
             /\ Served(c, k) /\ Streamed(c, k)' /\ Unrecorded(c, k)'
             /\ Kept(c) => Kept(c)'
             /\ Pushed(c) => Pushed(c)'
             /\ Records(c, k) => Records(c, k)'
             /\ Watches(c, k) => Watches(c, k)'
  <2>1. rows[c] # NoRow /\ k = rows[c].camera /\ Resting(c) /\ Undisturbed(t, c)
    BY <1>1, <1>6 DEF Midway
  <2>2. Served(c, k)
    BY <2>1 DEF Resting
  <2>3. Streamed(c, k)' /\ Unrecorded(c, k)'
    BY <1>1, <2>2, StreamsStay DEF Served, Streamed, Unrecorded
  <2>4. /\ Kept(c) => Kept(c)'
        /\ Pushed(c) => Pushed(c)'
        /\ Records(c, k) => Records(c, k)'
        /\ Watches(c, k) => Watches(c, k)'
    BY <1>1, <1>3, <1>4, <2>1, StreamsStay DEF Kept, Pushed, Records, Watches
  <2> QED BY <1>3, <1>4, <2>1, <2>2, <2>3, <2>4
<1>7. CASE rows[c] = NoRow
  <2>1. ~ Midway(t, c)
    BY <1>1, <1>7 DEF Midway
  <2> QED BY <1>1, <1>5, <1>7, <2>1, Locals, ThreadAccords
<1>8. CASE rows[c] # NoRow /\ CosmeticOnly(DiffOf(t))
  <2>1. /\ new.rtsp = k.rtsp /\ new.hardware = k.hardware
        /\ ShouldRecord(new) <=> ShouldRecord(k)
        /\ Built(new) = Built(k)
        /\ new.motionEnabled = k.motionEnabled /\ new.motionZones = k.motionZones
    BY <1>2, <1>8, EditOf DEF CosmeticOnly
  <2>2. ASSUME Midway(t, c) PROVE Resting(c)'
    <3>1. Streamed(c, new)' /\ Unrecorded(c, new)'
      BY <1>6, <2>1, <2>2 DEF Streamed, Unrecorded
    <3>2. /\ Records(c, k) => Records(c, new)'
          /\ Watches(c, k) => Watches(c, new)'
      BY <1>6, <2>1, <2>2 DEF Records, Watches
    <3>3. Served(c, new)'
      BY <1>1, <1>6, <2>2, <3>1, <3>2, StreamsStay DEF Served
    <3> QED BY <1>6, <2>2, <3>3 DEF Resting
  <2> QED BY <1>1, <1>5, <1>8, <2>2, Locals, ThreadAccords
<1>9. CASE rows[c] # NoRow /\ ~ CosmeticOnly(DiffOf(t))
  <2>1. Goto(t, "status")
    BY <1>1, <1>9
  <2>2. /\ thread'[t].at = "status" /\ thread'[t].c = c /\ thread'[t].op = "update"
        /\ thread'[t].changes = thread[t].changes /\ thread'[t].row = thread[t].row
    BY <1>2, <2>1, Locals
  <2>3. ASSUME Midway(t, c) PROVE Telling(t, c, "before", "before")'
    <3>1. NewCamera(t)' = new /\ Edit(t, "before")' = k
      BY <2>2, SameEdit DEF Edit
    <3>2. Undisturbed(t, c)'
      BY <1>1, <1>6, <2>2, <2>3, <1>2, StreamsStay DEF Undisturbed
    <3>3. \/ Owing(c)'
          \/ Kept(c)' /\ Pushed(c)' /\ (Online(c)' => Records(c, k)' /\ Watches(c, k)')
      BY <1>1, <1>6, <2>3, StreamsStay DEF Served
    <3> QED BY <1>2, <1>6, <2>2, <2>3, <3>1, <3>2, <3>3 DEF Telling
  <2> QED BY <1>1, <1>5, <2>1, <2>2, <2>3, Locals, ThreadAccords DEF Midway
<1> QED BY <1>7, <1>8, <1>9

(* Telling one part after another: only the part that is told changes.     *)
LEMMA TellingGoesOn ==
  ASSUME NEW t, NEW c \in Cameras, NEW r, NEW w, Telling(t, c, r, w), UNCHANGED vars,
         rows'[c] = rows[c], feed'[c] = feed[c],
         thread'[t].op = thread[t].op, thread'[t].changes = thread[t].changes,
         thread'[t].row = thread[t].row,
         thread'[t].at # "status",
         ~ SourceChanged(DiffOf(t)) /\ Online(c) /\ ~ Pending(c) => thread'[t].live,
         NEW r2, NEW w2, Unrecorded(c, Edit(t, r2))',
         ~ SourceChanged(DiffOf(t)) /\ ~ Pending(c) /\ Online(c) /\ Records(c, Edit(t, r))
           /\ Watches(c, Edit(t, w)) => Records(c, Edit(t, r2))' /\ Watches(c, Edit(t, w2))'
  PROVE  Telling(t, c, r2, w2)'
<1>1. NewCamera(t)' = NewCamera(t) /\ DiffOf(t)' = DiffOf(t)
  BY SameEdit
<1>2. Streamed(c, thread[t].row.camera)' /\ Undisturbed(t, c)'
  BY StreamsStay DEF Telling, Streamed, Undisturbed
<1>3. /\ Kept(c) => Kept(c)'
      /\ Pushed(c) => Pushed(c)'
  BY StreamsStay DEF Kept, Pushed
<1>4. /\ (Owing(c)' <=> Owing(c)) /\ (Online(c)' <=> Online(c)) /\ (Pending(c)' <=> Pending(c))
  BY StreamsStay
<1>5. ASSUME ~ SourceChanged(DiffOf(t)), ~ Owing(c)
      PROVE  /\ Kept(c)' /\ Pushed(c)'
             /\ Online(c) => Records(c, Edit(t, r2))' /\ Watches(c, Edit(t, w2))'
  <2>1. /\ Kept(c) /\ Pushed(c) /\ ~ Pending(c)
        /\ Online(c) => Records(c, Edit(t, r)) /\ Watches(c, Edit(t, w))
    BY <1>5 DEF Telling, Owing
  <2> QED BY <1>3, <1>5, <2>1
<1>6. /\ thread'[t].op = "update" /\ rows'[c] # NoRow /\ rows'[c].camera = NewCamera(t)
      /\ Whole(thread'[t].row.camera) /\ ValidForUpdate(thread'[t].changes)
  BY DEF Telling
<1> QED BY <1>1, <1>2, <1>4, <1>5, <1>6 DEF Telling

LEMMA StatusAccords ==
  ASSUME LifeInv, AccordInv, NEW t \in Threads, Status(t) PROVE AccordInv'
<1> PICK c \in Cameras : c = thread[t].c
  BY Known DEF Status
<1> PICK live : live = StillLive(t)
  OBVIOUS
<1> DEFINE n == [thread[t] EXCEPT !.at = "recording", !.live = live]
<1>1. /\ thread[t].at = "status" /\ On(t, c) /\ thread' = [thread EXCEPT ![t] = n]
      /\ UNCHANGED <<rows, recorder, ai, feed, contested, phase, toRestore>> /\ UNCHANGED vars
  BY DEF Status, Others, parts, process, On
<1>2. /\ n.at = "recording" /\ n.c = c /\ n.op = thread[t].op /\ n.row = thread[t].row
      /\ n.changes = thread[t].changes /\ n.live = live
  BY DEF LifeInv, LifeShape, ThreadFields
<1> HIDE DEF n
<1>3. thread'[t] = n /\ \A u \in Threads \ {t} : thread'[u] = thread[u]
  BY <1>1 DEF LifeInv, LifeShape
<1>4. \A d \in Cameras : Quiet(d)
  BY <1>1, StreamsStay DEF Quiet
<1>5. ASSUME Midway(t, c) PROVE Telling(t, c, "before", "before")'
  <2>1. Telling(t, c, "before", "before")
    BY <1>1, <1>5 DEF Midway
  <2>2. Edit(t, "before")' = Edit(t, "before")
    BY <1>2, <1>3 DEF Edit
  <2>3. /\ Unrecorded(c, Edit(t, "before"))'
        /\ Records(c, Edit(t, "before")) => Records(c, Edit(t, "before"))'
        /\ Watches(c, Edit(t, "before")) => Watches(c, Edit(t, "before"))'
    BY <1>1, <2>1, <2>2 DEF Telling, Unrecorded, Records, Watches
  <2>4. c \in Managed
    BY <2>1 DEF Telling, Streamed
  <2>5. ~ SourceChanged(DiffOf(t)) /\ Online(c) => live = TRUE
    BY <2>4 DEF StillLive, Live, Online
  <2>6. ~ SourceChanged(DiffOf(t)) /\ Online(c) => thread'[t].live
    BY <1>2, <1>3, <2>5
  <2> QED BY <1>1, <1>2, <1>3, <2>1, <2>3, <2>6, TellingGoesOn
<1> QED BY <1>1, <1>2, <1>3, <1>4, <1>5, ThreadAccords DEF Midway

LEMMA TellRecordingAccords ==
  ASSUME LifeInv, RowsAreWhole, AccordInv, NEW t \in Threads, TellRecording(t)
  PROVE  AccordInv'
<1> PICK c \in Cameras : c = thread[t].c
  BY Known DEF TellRecording
<1> PICK k : k = thread[t].row.camera
  OBVIOUS
<1> PICK new : new = NewCamera(t)
  OBVIOUS
<1> DEFINE e == RecorderTold(recorder[c], new, thread[t].live)
<1>1. /\ thread[t].at = "recording" /\ On(t, c) /\ Goto(t, "ai")
      /\ IF TellsTheRest(t) THEN recorder' = [recorder EXCEPT ![c] = e] ELSE recorder' = recorder
      /\ UNCHANGED <<rows, ai, feed, contested, phase, toRestore>> /\ UNCHANGED vars
  BY DEF TellRecording, ApplyRecording, process, On
<1>2. /\ ~ ShouldRecord(new) => e.session = Nothing
      /\ ShouldRecord(new) /\ thread[t].live => e.session = Built(new)
  BY RecorderToldOf
<1> HIDE DEF e
<1>3. /\ recorder'[c] = IF TellsTheRest(t) THEN e ELSE recorder[c]
      /\ \A d \in Cameras \ {c} : recorder'[d] = recorder[d]
  BY <1>1 DEF RowsAreWhole
<1>4. \A d \in Cameras \ {c} : Quiet(d)
  BY <1>1, <1>3, OthersAreQuiet
<1>5. ASSUME Midway(t, c) PROVE Telling(t, c, "after", "before")'
  <2>1. Telling(t, c, "before", "before")
    BY <1>1, <1>5 DEF Midway
  <2>2. /\ thread'[t].at = "ai" /\ thread'[t].op = thread[t].op
        /\ thread'[t].changes = thread[t].changes /\ thread'[t].row = thread[t].row
        /\ thread'[t].live = thread[t].live
    BY <1>1, Locals
  <2>3. /\ Edit(t, "before") = k /\ Edit(t, "before")' = k /\ Edit(t, "after")' = new
    BY <2>2, SameEdit DEF Edit
  <2>4. Whole(k) /\ Unrecorded(c, k)
    BY <2>1, <2>3 DEF Telling
  <2>5. ~ TellsTheRest(t) => (ShouldRecord(new) <=> ShouldRecord(k)) /\ Built(new) = Built(k)
    BY <2>4, EditOf DEF TellsTheRest
  <2>6. Unrecorded(c, new)'
    BY <1>2, <1>3, <2>4, <2>5 DEF Unrecorded
  <2>7. ~ SourceChanged(DiffOf(t)) /\ Online(c) /\ ~ Pending(c) => thread[t].live
    BY <1>1, <2>1 DEF Telling
  <2>8. (TellsTheRest(t) => thread[t].live) /\ Records(c, k) => Records(c, new)'
    BY <1>2, <1>3, <2>5 DEF Records
  <2>9. Watches(c, k) => Watches(c, k)'
    BY <1>1 DEF Watches
  <2> QED BY <1>1, <2>1, <2>2, <2>3, <2>6, <2>7, <2>8, <2>9, TellingGoesOn
<1> QED BY <1>1, <1>4, <1>5, Locals, ThreadAccords DEF Midway, On

LEMMA TellAiAccords ==
  ASSUME LifeInv, RowsAreWhole, AccordInv, NEW t \in Threads, TellAi(t) PROVE AccordInv'
<1> PICK c \in Cameras : c = thread[t].c
  BY Known DEF TellAi
<1> PICK k : k = thread[t].row.camera
  OBVIOUS
<1> PICK new : new = NewCamera(t)
  OBVIOUS
<1> DEFINE e == [told |-> new, live |-> thread[t].live]
<1>1. /\ thread[t].at = "ai" /\ On(t, c) /\ Goto(t, "saving")
      /\ IF TellsTheAi(t) THEN ai' = [ai EXCEPT ![c] = e] ELSE ai' = ai
      /\ UNCHANGED <<rows, recorder, feed, contested, phase, toRestore>> /\ UNCHANGED vars
  BY DEF TellAi, ApplyAi, process, On
<1>2. /\ IF TellsTheAi(t) THEN ai'[c].told = new /\ ai'[c].live = thread[t].live
                          ELSE ai'[c] = ai[c]
      /\ \A d \in Cameras \ {c} : ai'[d] = ai[d]
  BY <1>1 DEF RowsAreWhole
<1>3. \A d \in Cameras \ {c} : Quiet(d)
  BY <1>1, <1>2, OthersAreQuiet
<1>4. ASSUME Midway(t, c) PROVE Telling(t, c, "after", "after")'
  <2>1. Telling(t, c, "after", "before")
    BY <1>1, <1>4 DEF Midway
  <2>2. /\ thread'[t].at = "saving" /\ thread'[t].op = thread[t].op
        /\ thread'[t].changes = thread[t].changes /\ thread'[t].row = thread[t].row
        /\ thread'[t].live = thread[t].live
    BY <1>1, Locals
  <2>3. /\ Edit(t, "before") = k /\ Edit(t, "after") = new /\ Edit(t, "after")' = new
    BY <2>2, SameEdit DEF Edit
  <2>4. Whole(k) /\ Unrecorded(c, new)
    BY <2>1, <2>3 DEF Telling
  <2>5. ~ TellsTheAi(t) => /\ new.motionEnabled = k.motionEnabled
                           /\ new.motionZones = k.motionZones
    BY <2>4, EditOf DEF TellsTheAi
  <2>6. Unrecorded(c, new)' /\ (Records(c, new) => Records(c, new)')
    BY <1>1, <2>4 DEF Unrecorded, Records
  <2>7. ~ SourceChanged(DiffOf(t)) /\ Online(c) /\ ~ Pending(c) => thread[t].live
    BY <1>1, <2>1 DEF Telling
  <2>8. thread[t].live /\ TellsTheAi(t) => ai'[c].live
    BY <1>2
  <2>9. thread[t].live /\ Watches(c, k) => Watches(c, new)'
    BY <1>2, <2>5, <2>8 DEF Watches
  <2> QED BY <1>1, <2>1, <2>2, <2>3, <2>6, <2>7, <2>9, TellingGoesOn
<1> QED BY <1>1, <1>3, <1>4, Locals, ThreadAccords DEF Midway, On

LEMMA TellSavingAccords ==
  ASSUME LifeInv, AccordInv, NEW t \in Threads, TellSaving(t) PROVE AccordInv'
<1> PICK c \in Cameras : c = thread[t].c
  BY Known DEF TellSaving
<1> PICK k : k = thread[t].row.camera
  OBVIOUS
<1> PICK new : new = NewCamera(t)
  OBVIOUS
<1>1. /\ thread[t].at = "saving" /\ On(t, c)
      /\ IF TellsTheRest(t) THEN Goto(t, "streams") ELSE Done(t)
      /\ UNCHANGED <<rows, recorder, ai, feed, contested, phase, toRestore>> /\ UNCHANGED vars
  BY DEF TellSaving, process, On
<1>2. \A d \in Cameras : Quiet(d)
  BY <1>1, StreamsStay DEF Quiet
<1>3. Midway(t, c) => Telling(t, c, "after", "after")
  BY <1>1 DEF Midway
<1>4. Edit(t, "after") = new
  BY DEF Edit
<1>5. CASE TellsTheRest(t)
  <2>1. Goto(t, "streams")
    BY <1>1, <1>5
  <2>2. /\ thread'[t].at = "streams" /\ thread'[t].op = thread[t].op
        /\ thread'[t].changes = thread[t].changes /\ thread'[t].row = thread[t].row
        /\ thread'[t].live = thread[t].live
    BY <2>1, Locals
  <2>3. Edit(t, "after")' = new
    BY <2>2, SameEdit DEF Edit
  <2>4. ASSUME Midway(t, c) PROVE Ordered(t, c)'
    <3>1. Telling(t, c, "after", "after")
      BY <1>3, <2>4
    <3>2. /\ Unrecorded(c, new)'
          /\ Records(c, new) => Records(c, new)'
          /\ Watches(c, new) => Watches(c, new)'
      BY <1>1, <1>4, <3>1 DEF Telling, Unrecorded, Records, Watches
    <3>3. ~ SourceChanged(DiffOf(t)) /\ Online(c) /\ ~ Pending(c) => thread'[t].live
      BY <1>1, <2>2, <3>1 DEF Telling
    <3>4. Telling(t, c, "after", "after")'
      BY <1>1, <1>4, <2>2, <2>3, <3>1, <3>2, <3>3, TellingGoesOn
    <3> QED BY <3>4 DEF Ordered, Telling
  <2> QED BY <1>1, <1>2, <2>1, <2>4, Locals, ThreadAccords DEF Midway, On
<1>6. CASE ~ TellsTheRest(t)
  <2>1. ASSUME Midway(t, c) PROVE Resting(c)'
    <3>1. Telling(t, c, "after", "after") /\ ~ SourceChanged(DiffOf(t)) /\ Whole(k)
      BY <1>3, <1>6, <2>1 DEF TellsTheRest, Telling
    <3>2. new.rtsp = k.rtsp /\ new.hardware = k.hardware
      BY <3>1, EditOf
    <3>3. Served(c, new) /\ rows[c] # NoRow /\ rows[c].camera = new
      BY <1>4, <3>1, <3>2 DEF Telling, Served, Streamed
    <3>4. Resting(c)
      BY <3>3 DEF Resting
    <3> QED BY <1>2, <3>4, QuietEases, RestingEases
  <2> QED BY <1>1, <1>2, <1>6, <2>1, Locals, ThreadAccords
<1> QED BY <1>5, <1>6

-----------------------------------------------------------------------------
(* The calls to the manager: one camera's session is replaced.             *)
LEMMA CalledOf ==
  ASSUME StreamInv, NEW c \in Cameras, NEW s,
         sessions' = [sessions EXCEPT ![c] = s],
         mount' = mount \/ Unmounted(c), UNCHANGED <<worker, at, copy, toReport>>
  PROVE  /\ sessions'[c] = s
         /\ mount'[c] = mount[c] \/ (sessions[c].published /\ mount'[c] = None)
         /\ Unmounted(c) /\ sessions[c].published => mount'[c] = None
         /\ Working(c)' <=> Working(c)
         /\ Pending(c)' <=> Pending(c)
         /\ \A x \in States : Latest(c, x)' <=> Latest(c, x)
         /\ InService(c)' <=> InService(c)
         /\ \A d \in Cameras \ {c} : SameStreams(d)
<1>1. \A d \in Cameras : /\ Working(d)' <=> Working(d)
                         /\ Pending(d)' <=> Pending(d)
                         /\ \A x \in States : Latest(d, x)' <=> Latest(d, x)
  BY DEF Working, Pending, Latest
<1>2. DOMAIN sessions = Cameras /\ DOMAIN mount = Cameras
  BY DEF StreamInv, StreamShape
<1>3. /\ mount'[c] = mount[c] \/ (sessions[c].published /\ mount'[c] = None)
      /\ Unmounted(c) /\ sessions[c].published => mount'[c] = None
      /\ \A d \in Cameras \ {c} : mount'[d] = mount[d]
  BY <1>2 DEF Unmounted
<1>4. \A d \in Cameras \ {c} : SameStreams(d)
  BY <1>1, <1>2, <1>3 DEF SameStreams
<1>5. InService(c)' <=> InService(c)
  BY <1>1, ServiceIs
<1> QED BY <1>1, <1>2, <1>3, <1>4, <1>5

LEMMA IsSession == ASSUME NEW s, DOMAIN s = SessionFields PROVE s # NoSession
<1>1. "source" \in DOMAIN s /\ DOMAIN NoSession = {}
  BY DEF SessionFields, NoSession
<1> QED BY <1>1

(* A session nobody has in hand and nothing is mounted of is sound however *)
(* it is opened or taken down.                                             *)
LEMMA ReopenedIsSound ==
  ASSUME NEW c \in Cameras, ~ InService(c)', mount'[c] = None,
         sessions'[c].published = FALSE, sessions'[c].publishedSource = None,
         sessions'[c].state = "Offline", sessions'[c].source # None,
         sessions'[c].desired \in BOOLEAN,
         sessions'[c].due # "never" => sessions'[c].desired
  PROVE  Sound(c)'
<1>1. ~ Working(c)' /\ ~ Pending(c)'
  BY ServiceIs
<1>2. \A x \in States : ~ Latest(c, x)'
  BY <1>1 DEF Pending, Latest
<1>3. Consistent(sessions'[c])
  BY DEF Consistent
<1> QED BY <1>1, <1>2, <1>3 DEF Sound, InHand, Mounted, Reported

LEMMA ApplyOpens ==
  ASSUME StreamInv, NEW c \in Cameras, NEW source, NEW hardware, Apply(c, source, hardware),
         source # None, ~ InService(c),
         \/ c \notin Managed /\ mount[c] = None
         \/ /\ c \in Managed /\ Sound(c)
            /\ source # sessions[c].source \/ hardware # sessions[c].hardware
  PROVE  /\ Sound(c)' /\ (c \in Managed)' /\ Untried(c)'
         /\ sessions'[c].source = source /\ sessions'[c].hardware = hardware
<1>1. UNCHANGED <<worker, at, copy, toReport>>
  BY DEF Apply, Call
<1>2. CASE c \notin Managed
  <2> DEFINE f == Fresh(source, hardware)
  <2>1. sessions' = [sessions EXCEPT ![c] = f] /\ mount' = mount
    BY <1>2 DEF Apply
  <2>2. /\ f.source = source /\ f.hardware = hardware /\ f.desired = TRUE /\ f.due = "now"
        /\ f.published = FALSE /\ f.publishedSource = None /\ f.state = "Offline"
        /\ DOMAIN f = SessionFields
    BY DEF Fresh, SessionFields
  <2>3. f # NoSession
    BY <2>2, IsSession
  <2> HIDE DEF f
  <2>4. sessions'[c] = f /\ mount'[c] = None /\ ~ InService(c)'
    BY <1>1, <1>2, <2>1, CalledOf
  <2> QED BY <2>2, <2>3, <2>4, ReopenedIsSound DEF Managed, Untried
<1>3. CASE c \in Managed
  <2> PICK s : s = [sessions[c] EXCEPT !.source = source, !.hardware = hardware]
    OBVIOUS
  <2> PICK n : n = [TornDown(s) EXCEPT !.desired = TRUE, !.due = "now"]
    OBVIOUS
  <2>1. DOMAIN sessions[c] = SessionFields /\ Sound(c)
    BY <1>2, <1>3 DEF StreamInv, StreamShape
  <2>2. /\ DOMAIN s = SessionFields /\ s.source = source /\ s.hardware = hardware
        /\ s.publishedSource = sessions[c].publishedSource
        /\ s.publishedHardware = sessions[c].publishedHardware
    BY <2>1 DEF SessionFields
  <2>3. SourceMoved(s, source, hardware)
    BY <1>3, <2>1, <2>2 DEF Sound, Consistent, SourceMoved
  <2>4. sessions' = [sessions EXCEPT ![c] = n] /\ Unmounted(c)
    BY <1>3, <2>3 DEF Apply
  <2>5. /\ n.source = source /\ n.hardware = hardware /\ n.desired = TRUE
        /\ n.due = "now" /\ n.state = "Offline" /\ n.published = FALSE
        /\ n.publishedSource = None /\ DOMAIN n = SessionFields
    BY <2>2 DEF TornDown, SessionFields
  <2>6. /\ sessions'[c] = n /\ ~ InService(c)'
        /\ mount'[c] = mount[c] \/ mount'[c] = None
        /\ sessions[c].published => mount'[c] = None
    BY <1>1, <2>4, CalledOf
  <2>7. ~ Working(c)
    BY ServiceIs
  <2>8. mount'[c] = None
    BY <2>1, <2>6, <2>7 DEF Sound, Mounted
  <2> QED BY <2>5, <2>6, <2>8, IsSession, ReopenedIsSound DEF Managed, Untried
<1> QED BY <1>2, <1>3

(* Applied again with what it has, a camera that is not published is tried *)
(* again and another is left alone.                                        *)
LEMMA ApplyRetries ==
  ASSUME StreamInv, NEW c \in Cameras, NEW source, NEW hardware, Apply(c, source, hardware),
         c \in Managed, Sound(c), source = sessions[c].source, hardware = sessions[c].hardware
  PROVE  /\ Sound(c)' /\ (c \in Managed)'
         /\ sessions'[c].source = source /\ sessions'[c].hardware = hardware
         /\ \/ Untried(c)'
            \/ /\ Owing(c)' <=> Owing(c)
               /\ sessions'[c].state = sessions[c].state
               /\ sessions'[c].desired = sessions[c].desired
<1> PICK s : s = [sessions[c] EXCEPT !.source = source, !.hardware = hardware]
  OBVIOUS
<1> PICK n : n = [TornDown(s) EXCEPT !.desired = TRUE, !.due = "now"]
  OBVIOUS
<1>1. UNCHANGED <<worker, at, copy, toReport>>
  BY DEF Apply, Call
<1>2. DOMAIN sessions[c] = SessionFields
  BY DEF StreamInv, StreamShape
<1>3. /\ DOMAIN s = SessionFields /\ s.source = source /\ s.hardware = hardware
      /\ s.publishedSource = sessions[c].publishedSource
      /\ s.publishedHardware = sessions[c].publishedHardware
      /\ s.published = sessions[c].published /\ s.state = sessions[c].state
      /\ s.desired = sessions[c].desired /\ s.due = sessions[c].due
  BY <1>2 DEF SessionFields
<1>4. s # NoSession
  BY <1>3, IsSession
<1>5. CASE SourceMoved(s, source, hardware)
  <2>1. ~ sessions[c].published
    BY <1>3, <1>5 DEF Sound, Consistent, SourceMoved
  <2>2. sessions' = [sessions EXCEPT ![c] = n] /\ Unmounted(c)
    BY <1>5 DEF Apply
  <2>3. /\ n.source = source /\ n.hardware = hardware /\ n.desired = TRUE
        /\ n.due = "now" /\ n.state = "Offline" /\ n.published = FALSE
        /\ n.publishedSource = None /\ DOMAIN n = SessionFields
    BY <1>3 DEF TornDown, SessionFields
  <2>4. /\ sessions'[c] = n /\ mount'[c] = mount[c]
        /\ Working(c)' <=> Working(c)
    BY <1>1, <2>1, <2>2, CalledOf
  <2>5. (c \in Managed)' /\ Untried(c)' /\ Consistent(sessions'[c])
    BY <2>3, <2>4, IsSession DEF Managed, Untried, Consistent
  <2>6. InHand(c)'
    BY <1>1, <2>1, <2>3, <2>4 DEF Sound, InHand
  <2>7. Mounted(c)'
    BY <1>1, <2>1, <2>3, <2>4 DEF Sound, Mounted
  <2>8. Reported(c)'
    BY <2>3, <2>4, <2>5 DEF Reported
  <2>9. Sound(c)'
    BY <2>3, <2>4, <2>5, <2>6, <2>7, <2>8 DEF Sound
  <2> QED BY <2>3, <2>4, <2>5, <2>9
<1>6. CASE ~ SourceMoved(s, source, hardware)
  <2>1. sessions' = [sessions EXCEPT ![c] = s] /\ mount' = mount
    BY <1>6 DEF Apply
  <2>2. /\ sessions'[c] = s /\ mount'[c] = mount[c]
        /\ Working(c)' <=> Working(c)
        /\ Pending(c)' <=> Pending(c)
        /\ \A x \in States : Latest(c, x)' <=> Latest(c, x)
    BY <1>1, <2>1, CalledOf
  <2>3. (c \in Managed)' /\ (Untried(c)' <=> Untried(c)) /\ (Owing(c)' <=> Owing(c))
    BY <1>3, <1>4, <2>2 DEF Managed, Untried, Owing
  <2>4. Consistent(sessions'[c])
    BY <1>3, <2>2 DEF Sound, Consistent
  <2>5. InHand(c)'
    BY <1>1, <1>3, <2>2 DEF Sound, InHand
  <2>6. Mounted(c)'
    BY <1>1, <1>3, <2>2 DEF Sound, Mounted
  <2>7. Reported(c)'
    BY <1>3, <2>2, <2>3 DEF Sound, Reported
  <2>8. Sound(c)'
    BY <1>3, <2>2, <2>4, <2>5, <2>6, <2>7 DEF Sound
  <2> QED BY <1>3, <2>2, <2>3, <2>8
<1> QED BY <1>5, <1>6

LEMMA ApplyLeavesOthers ==
  ASSUME StreamInv, NEW c \in Cameras, NEW source, NEW hardware, Apply(c, source, hardware)
  PROVE  /\ \A d \in Cameras \ {c} : SameStreams(d)
         /\ InService(c)' <=> InService(c)
         /\ Pending(c)' <=> Pending(c)
<1>1. UNCHANGED <<worker, at, copy, toReport>> /\ (mount' = mount \/ Unmounted(c))
  BY DEF Apply, Call
<1>2. PICK s : sessions' = [sessions EXCEPT ![c] = s]
  BY DEF Apply
<1> QED BY <1>1, <1>2, CalledOf

(* The manager is told of a new camera, or of a change.                    *)
LEMMA TellStreamsAccords ==
  ASSUME LifeInv, StreamInv, RowsAreWhole, AccordInv, NEW t \in Threads, TellStreams(t)
  PROVE  AccordInv'
<1> PICK c \in Cameras : c = thread[t].c
  BY Known DEF TellStreams
<1> PICK told : told = ToldCamera(t)
  OBVIOUS
<1>1. /\ thread[t].at = "streams" /\ thread[t].op \in {"create", "update"} /\ On(t, c)
      /\ Done(t) /\ Apply(c, told.rtsp, told.hardware)
      /\ UNCHANGED <<rows, recorder, ai, feed, contested, phase, toRestore>>
  BY DEF TellStreams, Others, parts, process, On
<1>2. \A d \in Cameras \ {c} : Quiet(d)
  BY <1>1, ApplyLeavesOthers DEF Quiet
<1>3. ASSUME rows[c] # NoRow, rows[c].camera = told, Unrecorded(c, told),
             ~ InService(c),
             \/ c \notin Managed /\ mount[c] = None
             \/ /\ c \in Managed /\ Sound(c)
                /\ told.rtsp # sessions[c].source \/ told.hardware # sessions[c].hardware
      PROVE  Resting(c)'
  <2>1. told.rtsp # None
    BY <1>3 DEF RowsAreWhole, Whole
  <2>2. Streamed(c, told)' /\ Owing(c)'
    BY <1>1, <1>3, <2>1, ApplyOpens DEF Streamed, Owing
  <2>3. Served(c, told)'
    BY <1>1, <1>3, <2>2 DEF Unrecorded, Served
  <2> QED BY <1>1, <1>3, <2>3 DEF Resting
<1>4. CASE thread[t].op = "create"
  <2>1. ASSUME Midway(t, c) PROVE Resting(c)'
    <3>1. rows[c] # NoRow /\ rows[c] = thread[t].row /\ Gone(c)
      BY <1>1, <1>4, <2>1 DEF Midway, Ordered
    <3>2. told = rows[c].camera
      BY <1>4, <3>1 DEF ToldCamera
    <3> QED BY <1>3, <3>1, <3>2 DEF Gone, Unrecorded
  <2> QED BY <1>1, <1>2, <2>1, Locals, ThreadAccords
<1>5. CASE thread[t].op = "update"
  <2> PICK k : k = thread[t].row.camera
    OBVIOUS
  <2>1. told = NewCamera(t)
    BY <1>5 DEF ToldCamera
  <2>2. ASSUME Midway(t, c) PROVE Resting(c)'
    <3>1. Telling(t, c, "after", "after")
      BY <1>1, <1>5, <2>2 DEF Midway, Ordered
    <3>2. /\ rows[c] # NoRow /\ rows[c].camera = told /\ Whole(k) /\ Undisturbed(t, c)
          /\ Streamed(c, k) /\ Unrecorded(c, told)
      BY <2>1, <3>1 DEF Telling, Edit
    <3>3. c \in Managed /\ Sound(c) /\ sessions[c].source = k.rtsp
          /\ sessions[c].hardware = k.hardware
      BY <3>2 DEF Streamed
    <3>4. CASE SourceChanged(DiffOf(t))
      <4>1. /\ DOMAIN thread[t].changes \cap {"rtsp", "hardware"} # {}
            /\ told.rtsp # k.rtsp \/ told.hardware # k.hardware
        BY <2>1, <3>2, <3>4, EditOf
      <4>2. ~ InService(c)
        BY <3>2, <4>1 DEF Undisturbed, Reopens
      <4> QED BY <1>3, <3>2, <3>3, <4>1, <4>2
    <3>5. CASE ~ SourceChanged(DiffOf(t))
      <4>1. told.rtsp = k.rtsp /\ told.hardware = k.hardware
        BY <2>1, <3>2, <3>5, EditOf
      <4>2. /\ Sound(c)' /\ (c \in Managed)'
            /\ sessions'[c].source = told.rtsp /\ sessions'[c].hardware = told.hardware
            /\ \/ Untried(c)'
               \/ /\ Owing(c)' <=> Owing(c)
                  /\ sessions'[c].state = sessions[c].state
                  /\ sessions'[c].desired = sessions[c].desired
        BY <1>1, <3>3, <4>1, ApplyRetries
      <4>3. Streamed(c, told)' /\ Unrecorded(c, told)'
        BY <1>1, <3>2, <4>2 DEF Streamed, Unrecorded
      <4>4. \/ Owing(c)
            \/ Kept(c) /\ Pushed(c) /\ (Online(c) => Records(c, told) /\ Watches(c, told))
        BY <2>1, <3>1, <3>5 DEF Telling, Edit
      <4>5. Served(c, told)'
        <5>1. CASE Owing(c)'
          BY <4>3, <5>1 DEF Served
        <5>2. CASE ~ Owing(c)'
          <6>1. /\ ~ Owing(c) /\ sessions'[c].state = sessions[c].state
                /\ sessions'[c].desired = sessions[c].desired
            BY <4>2, <5>2 DEF Owing
          <6>2. Kept(c)' /\ Pushed(c)'
            BY <1>1, <4>4, <6>1 DEF Kept, Pushed
          <6>3. Online(c)' => Records(c, told)' /\ Watches(c, told)'
            BY <1>1, <4>4, <6>1 DEF Online, Records, Watches
          <6> QED BY <4>3, <6>2, <6>3 DEF Served
        <5> QED BY <5>1, <5>2
      <4> QED BY <1>1, <3>2, <4>5 DEF Resting
    <3> QED BY <3>4, <3>5
  <2> QED BY <1>1, <1>2, <2>2, Locals, ThreadAccords
<1> QED BY <1>1, <1>4, <1>5

LEMMA OrderStreamAccords ==
  ASSUME LifeInv, StreamInv, RowsAreWhole, AccordInv, NEW t \in Threads, OrderStream(t)
  PROVE  AccordInv'
<1> PICK c \in Cameras : c = thread[t].c
  BY Known DEF OrderStream
<1> PICK op : op = thread[t].op
  OBVIOUS
<1>1. /\ thread[t].at = "streams" /\ op \in {"start", "stop", "restart"} /\ On(t, c)
      /\ UNCHANGED <<rows, recorder, ai, feed, contested, phase, toRestore>>
  BY DEF OrderStream, Others, parts, process, On
<1>2. Midway(t, c) => rows[c] # NoRow /\ Resting(c) /\ ~ InService(c)
  BY <1>1 DEF Midway, Ordered
<1>3. CASE DoesNothing(op, c)
  <2>1. Done(t) /\ UNCHANGED vars
    BY <1>3 DEF OrderStream
  <2>2. \A d \in Cameras : Quiet(d)
    BY <1>1, <2>1, StreamsStay DEF Quiet
  <2>3. Midway(t, c) => Resting(c)'
    BY <1>2, <2>2, QuietEases, RestingEases
  <2> QED BY <1>1, <2>1, <2>2, <2>3, Locals, ThreadAccords
<1>4. CASE ~ DoesNothing(op, c)
  <2>1. /\ Order(op, c) /\ c \in Managed
        /\ IF op = "stop" /\ sessions[c].desired THEN Goto(t, "owes") ELSE Done(t)
    BY <1>4 DEF OrderStream, DoesNothing
  <2>2. /\ op = "start" => StartStream(c)
        /\ op = "stop" => StopStream(c)
        /\ op = "restart" => RestartStream(c)
    BY <2>1 DEF Order
  <2>3. DOMAIN sessions[c] = SessionFields
    BY <2>1 DEF StreamInv, StreamShape
  <2>4. PICK n : /\ sessions' = [sessions EXCEPT ![c] = n]
                 /\ DOMAIN n = SessionFields
                 /\ n.source = sessions[c].source /\ n.hardware = sessions[c].hardware
                 /\ n.desired = (op # "stop") /\ n.due = IF op = "stop" THEN "never" ELSE "now"
                 /\ n.state = "Offline"
                 /\ op # "start" => n.published = FALSE /\ n.publishedSource = None
                 /\ op = "start" => /\ n.published = sessions[c].published
                                    /\ n.publishedSource = sessions[c].publishedSource
    <3>1. CASE op = "start"
      <4> DEFINE n == [sessions[c] EXCEPT !.desired = TRUE, !.due = "now", !.state = "Offline"]
      <4>1. sessions' = [sessions EXCEPT ![c] = n]
        BY <2>2, <3>1 DEF StartStream, StreamInv, StreamShape
      <4>2. /\ n.source = sessions[c].source /\ n.hardware = sessions[c].hardware
            /\ n.desired = TRUE /\ n.due = "now" /\ n.state = "Offline"
            /\ n.published = sessions[c].published
            /\ n.publishedSource = sessions[c].publishedSource /\ DOMAIN n = SessionFields
        BY <2>3 DEF SessionFields
      <4> HIDE DEF n
      <4> QED BY <3>1, <4>1, <4>2
    <3>2. CASE op = "stop"
      <4> DEFINE n == [TornDown(sessions[c]) EXCEPT !.desired = FALSE, !.due = "never"]
      <4>1. sessions' = [sessions EXCEPT ![c] = n]
        BY <2>2, <3>2 DEF StopStream, StreamInv, StreamShape
      <4>2. /\ n.source = sessions[c].source /\ n.hardware = sessions[c].hardware
            /\ n.desired = FALSE /\ n.due = "never" /\ n.state = "Offline"
            /\ n.published = FALSE /\ n.publishedSource = None /\ DOMAIN n = SessionFields
        BY <2>3 DEF TornDown, SessionFields
      <4> HIDE DEF n
      <4> QED BY <3>2, <4>1, <4>2
    <3>3. CASE op = "restart"
      <4> DEFINE n == [TornDown(sessions[c]) EXCEPT !.desired = TRUE, !.due = "now"]
      <4>1. sessions' = [sessions EXCEPT ![c] = n]
        BY <2>2, <3>3 DEF RestartStream, StreamInv, StreamShape
      <4>2. /\ n.source = sessions[c].source /\ n.hardware = sessions[c].hardware
            /\ n.desired = TRUE /\ n.due = "now" /\ n.state = "Offline"
            /\ n.published = FALSE /\ n.publishedSource = None /\ DOMAIN n = SessionFields
        BY <2>3 DEF TornDown, SessionFields
      <4> HIDE DEF n
      <4> QED BY <3>3, <4>1, <4>2
    <3> QED BY <1>1, <3>1, <3>2, <3>3
  <2>5. /\ UNCHANGED <<worker, at, copy, toReport>>
        /\ IF op = "start" THEN mount' = mount /\ ~ sessions[c].desired ELSE Unmounted(c)
    BY <1>1, <2>2 DEF StartStream, StopStream, RestartStream, Call
  <2>6. /\ sessions'[c] = n /\ (InService(c)' <=> InService(c))
        /\ mount'[c] = mount[c] \/ mount'[c] = None
        /\ op # "start" /\ sessions[c].published => mount'[c] = None
        /\ \A d \in Cameras \ {c} : SameStreams(d)
    BY <2>4, <2>5, CalledOf
  <2>7. \A d \in Cameras \ {c} : Quiet(d)
    BY <1>1, <2>6 DEF Quiet
  <2> PICK k : k = rows[c].camera
    OBVIOUS
  <2>8. ASSUME Midway(t, c)
        PROVE  /\ rows'[c] # NoRow /\ rows'[c].camera = k
               /\ Streamed(c, k)' /\ Unrecorded(c, k)' /\ ~ InService(c)'
               /\ sessions'[c].desired <=> op # "stop"
               /\ op # "stop" => Untried(c)'
               /\ op = "stop" /\ ~ sessions[c].desired => ~ Owing(c) /\ Served(c, k)
    <3>1. rows[c] # NoRow /\ Served(c, k) /\ ~ InService(c)
      BY <1>2, <2>8 DEF Resting
    <3>2. Sound(c) /\ sessions[c].source = k.rtsp /\ sessions[c].hardware = k.hardware
          /\ Unrecorded(c, k)
      BY <3>1 DEF Served, Streamed
    <3>3. ~ Working(c) /\ ~ Pending(c)
      BY <3>1, ServiceIs
    <3>4. sessions[c].published <=> sessions[c].state = "Online"
      BY <3>2 DEF Sound, Consistent
    <3>5. ~ sessions[c].desired => ~ sessions[c].published
      BY <3>2, <3>4 DEF Sound
    <3>6. ~ sessions[c].published => sessions[c].publishedSource = None /\ mount[c] = None
      BY <3>2, <3>3 DEF Sound, Consistent, Mounted
    <3>7. mount'[c] = None /\ ~ n.published /\ n.publishedSource = None
      BY <2>4, <2>5, <2>6, <3>5, <3>6
    <3>8. n.published = FALSE
      BY <2>4, <2>5, <3>4, <3>5
    <3>9. n.desired \in BOOLEAN /\ (n.due # "never" => n.desired) /\ n.source # None
      BY <2>4, <3>2 DEF Sound
    <3>10. Sound(c)' /\ ~ InService(c)'
      BY <2>4, <2>6, <3>1, <3>7, <3>8, <3>9, ReopenedIsSound
    <3>11. Streamed(c, k)' /\ Unrecorded(c, k)'
      BY <1>1, <2>4, <2>6, <3>2, <3>10, IsSession DEF Streamed, Unrecorded, Managed
    <3>12. op # "stop" => Untried(c)'
      BY <2>4, <2>6, <3>7 DEF Untried
    <3>13. ~ sessions[c].desired => ~ Owing(c)
      BY <3>2, <3>3 DEF Sound, Owing, Untried
    <3> QED BY <1>1, <2>4, <2>6, <3>1, <3>10, <3>11, <3>12, <3>13
  <2>9. CASE op # "stop"
    <3>1. Done(t)
      BY <2>1, <2>9
    <3>2. ASSUME Midway(t, c) PROVE Resting(c)'
      BY <2>8, <2>9, <3>2 DEF Owing, Served, Resting
    <3> QED BY <1>1, <2>7, <3>1, <3>2, Locals, ThreadAccords
  <2>10. CASE op = "stop" /\ sessions[c].desired
    <3>1. Goto(t, "owes")
      BY <2>1, <2>10
    <3>2. ASSUME Midway(t, c) PROVE Midway(t, c)'
      <4>1. thread'[t].at = "owes" /\ thread'[t].op = "stop"
        BY <2>10, <3>1, Locals
      <4> QED BY <2>8, <2>10, <3>2, <4>1 DEF Midway
    <3> QED BY <1>1, <2>7, <3>1, <3>2, Locals, ThreadAccords DEF On
  <2>11. CASE op = "stop" /\ ~ sessions[c].desired
    <3>1. Done(t)
      BY <2>1, <2>11
    <3>2. ASSUME Midway(t, c) PROVE Resting(c)'
      <4>1. Served(c, k) /\ ~ Owing(c) /\ rows[c] # NoRow
        BY <1>2, <2>8, <2>11, <3>2
      <4>2. Kept(c) /\ Pushed(c) /\ Sound(c)
        BY <4>1 DEF Served, Streamed
      <4>3. /\ sessions[c].state = "Offline" /\ sessions'[c].state = "Offline"
            /\ sessions[c].desired = FALSE /\ sessions'[c].desired = FALSE
        BY <2>4, <2>6, <2>11, <4>2 DEF Sound
      <4>4. Kept(c)' /\ Pushed(c)' /\ ~ Online(c)'
        BY <1>1, <4>2, <4>3 DEF Kept, Pushed, Online
      <4> QED BY <2>8, <3>2, <4>4 DEF Served, Resting
    <3> QED BY <1>1, <2>7, <3>1, <3>2, Locals, ThreadAccords
  <2> QED BY <2>9, <2>10, <2>11
<1> QED BY <1>3, <1>4

(* A removal: the row, then the stream, then what runs for the camera.     *)
LEMMA DeleteRowAccords ==
  ASSUME LifeInv, AccordInv, NEW t \in Threads, DeleteRow(t) PROVE AccordInv'
<1> PICK c \in Cameras : c = thread[t].c
  BY Known DEF DeleteRow, Removing
<1>1. /\ thread[t].at = "delete" /\ thread[t].op = "remove" /\ On(t, c)
      /\ rows' = [rows EXCEPT ![c] = NoRow]
      /\ UNCHANGED <<recorder, ai, feed, contested, phase, toRestore>> /\ UNCHANGED vars
  BY DEF DeleteRow, Removing, parts, process, On
<1>2. rows'[c] = NoRow /\ \A d \in Cameras \ {c} : rows'[d] = rows[d]
  BY <1>1, Known
<1>3. \A d \in Cameras \ {c} : Quiet(d)
  BY <1>1, <1>2, OthersAreQuiet
<1>4. CASE rows[c] = NoRow
  <2>1. ~ Midway(t, c)
    BY <1>1, <1>4 DEF Midway
  <2>2. Done(t) \/ Goto(t, "streams")
    BY <1>1, RemovalGoesOn DEF DeleteRow
  <2> QED BY <1>1, <1>3, <2>1, <2>2, Locals, ThreadAccords DEF On
<1>5. CASE rows[c] # NoRow
  <2>1. Goto(t, "streams")
    BY <1>1, <1>5, RemovalGoesOn DEF DeleteRow
  <2>2. thread'[t].at = "streams" /\ thread'[t].op = "remove"
    BY <1>1, <2>1, Locals
  <2>3. ASSUME Midway(t, c) PROVE Midway(t, c)'
    <3>1. Resting(c) /\ ~ InService(c)
      BY <1>1, <2>3 DEF Midway
    <3>2. c \in Managed /\ Mounted(c) /\ ~ Working(c)
      BY <1>5, <3>1, ServiceIs DEF Resting, Served, Streamed, Sound
    <3>3. ~ sessions[c].published => mount[c] = None
      BY <3>2 DEF Mounted
    <3>4. /\ (c \in Managed)' /\ sessions'[c] = sessions[c] /\ mount'[c] = mount[c]
          /\ ~ InService(c)'
      BY <1>1, <3>1, <3>2, StreamsStay
    <3>5. Ordered(t, c)'
      BY <1>2, <2>2, <3>3, <3>4 DEF Ordered
    <3> QED BY <2>2, <3>5 DEF Midway
  <2> QED BY <1>1, <1>3, <2>1, <2>2, <2>3, Locals, ThreadAccords DEF On
<1> QED BY <1>4, <1>5

LEMMA RemoveStreamAccords ==
  ASSUME LifeInv, StreamInv, AccordInv, NEW t \in Threads, RemoveStream(t) PROVE AccordInv'
<1> PICK c \in Cameras : c = thread[t].c
  BY Known DEF RemoveStream, Removing
<1>1. /\ thread[t].at = "streams" /\ thread[t].op = "remove" /\ On(t, c)
      /\ IF c \in Managed THEN Remove(c) ELSE UNCHANGED vars
      /\ UNCHANGED <<rows, recorder, ai, feed, contested, phase, toRestore>>
  BY DEF RemoveStream, Removing, parts, On
<1>2. Goto(t, "recorder")
  BY <1>1, RemovalGoesOn DEF RemoveStream
<1>3. thread'[t].at = "recorder" /\ thread'[t].op = "remove"
  BY <1>1, <1>2, Locals
<1>4. /\ c \notin Managed' /\ (InService(c)' <=> InService(c))
      /\ \A d \in Cameras \ {c} : SameStreams(d)
      /\ (c \notin Managed \/ ~ sessions[c].published => mount[c] = None) => mount'[c] = None
  <2>1. CASE c \in Managed
    <3>1. /\ sessions' = [sessions EXCEPT ![c] = NoSession] /\ Unmounted(c)
          /\ UNCHANGED <<worker, at, copy, toReport>>
      BY <1>1, <2>1 DEF Remove, Call
    <3>2. /\ sessions'[c] = NoSession /\ (InService(c)' <=> InService(c))
          /\ mount'[c] = mount[c] \/ mount'[c] = None
          /\ sessions[c].published => mount'[c] = None
          /\ \A d \in Cameras \ {c} : SameStreams(d)
      BY <3>1, CalledOf
    <3> QED BY <3>2 DEF Managed
  <2>2. CASE c \notin Managed
    BY <1>1, <2>2, StreamsStay
  <2> QED BY <2>1, <2>2
<1>5. \A d \in Cameras \ {c} : Quiet(d)
  BY <1>1, <1>4 DEF Quiet
<1>6. ASSUME Midway(t, c) PROVE Midway(t, c)'
  <2>1. /\ rows[c] = NoRow /\ ~ InService(c)
        /\ c \notin Managed \/ ~ sessions[c].published => mount[c] = None
    BY <1>1, <1>6 DEF Midway, Ordered
  <2>2. Cleared(t, c)'
    BY <1>1, <1>3, <1>4, <2>1 DEF Cleared
  <2> QED BY <1>3, <2>2 DEF Midway
<1> QED BY <1>1, <1>2, <1>3, <1>5, <1>6, Locals, ThreadAccords DEF On

LEMMA RemoveRecordingAccords ==
  ASSUME LifeInv, RowsAreWhole, AccordInv, NEW t \in Threads, RemoveRecording(t)
  PROVE  AccordInv'
<1> PICK c \in Cameras : c = thread[t].c
  BY Known DEF RemoveRecording, Removing
<1>1. /\ thread[t].at = "recorder" /\ thread[t].op = "remove" /\ On(t, c)
      /\ recorder' = [recorder EXCEPT ![c] = Nothing]
      /\ UNCHANGED <<rows, ai, feed, contested, phase, toRestore>> /\ UNCHANGED vars
  BY DEF RemoveRecording, Removing, process, On
<1>2. Goto(t, "runtime")
  BY <1>1, RemovalGoesOn DEF RemoveRecording
<1>3. recorder'[c] = Nothing /\ \A d \in Cameras \ {c} : recorder'[d] = recorder[d]
  BY <1>1 DEF RowsAreWhole
<1>4. \A d \in Cameras \ {c} : Quiet(d)
  BY <1>1, <1>3, OthersAreQuiet
<1>5. thread'[t].at = "runtime" /\ thread'[t].op = "remove"
  BY <1>1, <1>2, Locals
<1>6. ASSUME Midway(t, c) PROVE Midway(t, c)'
  <2>1. Cleared(t, c)
    BY <1>1, <1>6 DEF Midway
  <2>2. Cleared(t, c)'
    BY <1>1, <1>3, <1>5, <2>1, StreamsStay DEF Cleared
  <2> QED BY <1>5, <2>2 DEF Midway
<1> QED BY <1>1, <1>2, <1>4, <1>5, <1>6, Locals, ThreadAccords DEF On

LEMMA RemoveAiAccords ==
  ASSUME LifeInv, RowsAreWhole, AccordInv, NEW t \in Threads, RemoveAi(t) PROVE AccordInv'
<1> PICK c \in Cameras : c = thread[t].c
  BY Known DEF RemoveAi, Removing
<1>1. /\ thread[t].at = "runtime" /\ thread[t].op = "remove" /\ On(t, c)
      /\ ai' = [ai EXCEPT ![c] = Nothing]
      /\ UNCHANGED <<rows, recorder, feed, contested, phase, toRestore>> /\ UNCHANGED vars
  BY DEF RemoveAi, Removing, process, On
<1>2. Goto(t, "clients")
  BY <1>1, RemovalGoesOn DEF RemoveAi
<1>3. ai'[c] = Nothing /\ \A d \in Cameras \ {c} : ai'[d] = ai[d]
  BY <1>1 DEF RowsAreWhole
<1>4. \A d \in Cameras \ {c} : Quiet(d)
  BY <1>1, <1>3, OthersAreQuiet
<1>5. thread'[t].at = "clients" /\ thread'[t].op = "remove"
  BY <1>1, <1>2, Locals
<1>6. ASSUME Midway(t, c) PROVE Midway(t, c)'
  <2>1. Cleared(t, c)
    BY <1>1, <1>6 DEF Midway
  <2>2. Cleared(t, c)'
    BY <1>1, <1>3, <1>5, <2>1, StreamsStay DEF Cleared
  <2> QED BY <1>5, <2>2 DEF Midway
<1> QED BY <1>1, <1>2, <1>4, <1>5, <1>6, Locals, ThreadAccords DEF On

LEMMA RemoveFeedAccords ==
  ASSUME LifeInv, AccordInv, NEW t \in Threads, RemoveFeed(t) PROVE AccordInv'
<1> PICK c \in Cameras : c = thread[t].c
  BY Known DEF RemoveFeed, Removing
<1>1. /\ thread[t].at = "clients" /\ thread[t].op = "remove" /\ On(t, c)
      /\ feed' = [feed EXCEPT ![c] = Nothing]
      /\ UNCHANGED <<rows, recorder, ai, contested, phase, toRestore>> /\ UNCHANGED vars
  BY DEF RemoveFeed, Removing, process, On
<1>2. Done(t)
  BY <1>1, RemovalGoesOn DEF RemoveFeed
<1>3. feed'[c] = Nothing /\ \A d \in Cameras \ {c} : feed'[d] = feed[d]
  BY <1>1, Known
<1>4. \A d \in Cameras \ {c} : Quiet(d)
  BY <1>1, <1>3, OthersAreQuiet
<1>5. ASSUME Midway(t, c) PROVE Resting(c)'
  <2>1. Cleared(t, c)
    BY <1>1, <1>5 DEF Midway
  <2>2. Gone(c)' /\ rows'[c] = NoRow
    BY <1>1, <1>3, <2>1, StreamsStay DEF Cleared, Gone
  <2> QED BY <2>2 DEF Resting
<1> QED BY <1>1, <1>2, <1>4, <1>5, Locals, ThreadAccords

(* Who has stopped a camera reports it: with what it was left with.        *)
LEMMA StopperReportsAccords ==
  ASSUME LifeInv, AccordInv, NEW t \in Threads, StopperReports(t) PROVE AccordInv'
<1> PICK c \in Cameras : c = thread[t].c
  BY Known DEF StopperReports
<1> DEFINE n == Called(c, "Offline", FALSE, "stop")
<1>1. /\ thread[t].at = "owes" /\ On(t, c) /\ ReportStop(c)
      /\ thread' = [thread EXCEPT ![t] = n]
      /\ UNCHANGED <<rows, recorder, ai, feed, contested, phase, toRestore>>
  BY DEF StopperReports, Others, parts, process, On
<1>2. n.at = "write" /\ n.op = "stop" /\ n.c = c /\ n.state = "Offline" /\ n.desired = FALSE
  BY DEF Called, CallbackOrder, Idle
<1> HIDE DEF n
<1>3. thread'[t] = n /\ \A u \in Threads \ {t} : thread'[u] = thread[u]
  BY <1>1 DEF LifeInv, LifeShape
<1>4. \A d \in Cameras : Quiet(d)
  BY <1>1 DEF ReportStop, Quiet, SameStreams, Working, Pending, Latest
<1>5. ASSUME Midway(t, c) PROVE Midway(t, c)'
  <2>1. /\ rows[c] # NoRow /\ Streamed(c, rows[c].camera) /\ Unrecorded(c, rows[c].camera)
        /\ ~ InService(c) /\ ~ sessions[c].desired
    BY <1>1, <1>5 DEF Midway
  <2>2. /\ (Sound(c) => Sound(c)') /\ ((c \in Managed)' <=> c \in Managed)
        /\ InService(c)' <=> InService(c)
        /\ sessions'[c] = sessions[c] /\ rows'[c] = rows[c] /\ recorder'[c] = recorder[c]
    BY <1>4, StreamsSame DEF Quiet, SameStreams
  <2>3. Streamed(c, rows[c].camera)' /\ Unrecorded(c, rows[c].camera)'
    BY <2>1, <2>2 DEF Streamed, Unrecorded
  <2>4. sessions[c].state = "Offline" /\ sessions[c].desired = FALSE
    BY <2>1 DEF Streamed, Sound
  <2>5. ~ Working(c)'
    BY <2>1, <2>2, ServiceIs
  <2>6. Calling(t, c)'
    BY <1>2, <1>3, <2>1, <2>2, <2>3, <2>4, <2>5 DEF Calling
  <2> QED BY <1>2, <1>3, <2>6 DEF Midway
<1> QED BY <1>1, <1>2, <1>3, <1>4, <1>5, ThreadAccords

-----------------------------------------------------------------------------
(* A request begins: on a camera nobody else is at work on, or they meet.  *)
LEMMA BeginAccords ==
  ASSUME LifeInv, AccordInv, NEW t \in Threads, NEW op, NEW c \in Cameras, NEW changes,
         NEW first, Begin(t, op, c, changes, first),
         \/ first = "insert" /\ op = "create" /\ rows[c] = NoRow
         \/ first = "read" /\ op \in Requests \ {"create"}
  PROVE  AccordInv'
<1> DEFINE n == [Idle EXCEPT !.at = first, !.op = op, !.c = c, !.changes = changes]
<1>1. /\ thread[t].at = "idle" /\ phase = "up" /\ thread' = [thread EXCEPT ![t] = n]
      /\ UNCHANGED <<rows, recorder, ai, feed, phase, toRestore>> /\ UNCHANGED vars
      /\ contested \subseteq contested'
      /\ Busy(c) # {} \/ (Reopens(op, changes) /\ InService(c)) => c \in contested'
  BY DEF Begin, parts
<1>2. n.at = first /\ n.op = op /\ n.c = c /\ n.changes = changes
  BY DEF Idle
<1> HIDE DEF n
<1>3. thread'[t] = n /\ \A u \in Threads \ {t} : thread'[u] = thread[u]
  BY <1>1 DEF LifeInv, LifeShape
<1>4. \A d \in Cameras : Quiet(d)
  BY <1>1, StreamsStay DEF Quiet
<1> SUFFICES ASSUME NEW d \in Cameras \ contested' PROVE Accord(d)'
  BY DEF AccordInv
<1>5. Accord(d) /\ ~ Unrestored(d) /\ ~ Unrestored(d)'
  BY <1>1 DEF AccordInv, Unrestored
<1>6. CASE d # c
  <2>1. \A u \in Threads : thread'[u] = thread[u] \/ ~ (On(u, d) \/ On(u, d)')
    BY <1>1, <1>2, <1>3, <1>6 DEF On
  <2> QED BY <1>4, <1>5, <2>1, QuietEases, AccordEases
<1>7. CASE d = c
  <2>1. /\ \A u \in Threads : ~ On(u, c)
        /\ Reopens(op, changes) => ~ InService(c)
    BY <1>1, <1>7 DEF Busy, On
  <2>2. Resting(c) /\ Resting(c)'
    BY <1>4, <1>5, <1>7, <2>1, QuietEases, RestingEases DEF Accord
  <2>3. Undisturbed(t, c)'
    BY <1>1, <1>2, <1>3, <2>1, StreamsStay DEF Undisturbed
  <2>4. Midway(t, c)'
    <3>1. CASE first = "insert" /\ op = "create" /\ rows[c] = NoRow
      <4>1. rows'[c] = NoRow /\ Gone(c)'
        BY <1>1, <2>2, <3>1 DEF Resting
      <4> QED BY <1>2, <1>3, <3>1, <4>1 DEF Midway
    <3>2. CASE first = "read" /\ op \in Requests \ {"create"}
      BY <1>2, <1>3, <2>2, <2>3, <3>2 DEF Midway
    <3> QED BY <3>1, <3>2
  <2>5. \A u \in Threads \ {t} : ~ On(u, c)'
    BY <1>3, <2>1 DEF On
  <2>6. On(t, c)'
    BY <1>2, <1>3 DEF On
  <2> QED BY <1>5, <1>7, <2>4, <2>5, <2>6 DEF Accord
<1> QED BY <1>6, <1>7

(* main restores a camera, and has restored the last.                      *)
LEMMA RestoreAccords ==
  ASSUME LifeInv, StreamInv, RowsAreWhole, AccordInv, NEW c \in Cameras, Restore(c)
  PROVE  AccordInv'
<1> PICK k : k = rows[c].camera
  OBVIOUS
<1>1. /\ phase = "restoring" /\ c \in toRestore /\ toRestore' = toRestore \ {c}
      /\ Apply(c, k.rtsp, k.hardware)
      /\ UNCHANGED <<rows, thread, recorder, ai, feed, phase, contested>>
  BY DEF Restore
<1> SUFFICES ASSUME NEW d \in Cameras \ contested' PROVE Accord(d)'
  BY DEF AccordInv
<1>2. Accord(d)
  BY <1>1 DEF AccordInv
<1>3. CASE d # c
  <2>1. Unrestored(d)' <=> Unrestored(d)
    BY <1>1, <1>3 DEF Unrestored
  <2>2. Quiet(d)
    BY <1>1, <1>3, ApplyLeavesOthers DEF Quiet
  <2> QED BY <1>1, <1>2, <2>1, <2>2, QuietEases, AccordEases
<1>4. CASE d = c
  <2>1. Unrestored(c) /\ ~ Unrestored(c)'
    BY <1>1 DEF Unrestored
  <2>2. rows[c] # NoRow /\ Gone(c) /\ \A t \in Threads : ~ On(t, c)
    BY <1>2, <1>4, <2>1 DEF Accord
  <2>3. k.rtsp # None
    BY <2>2 DEF RowsAreWhole, Whole
  <2>4. Streamed(c, k)' /\ Owing(c)'
    BY <1>1, <2>2, <2>3, ApplyOpens DEF Gone, Streamed, Owing
  <2>5. Unrecorded(c, k)'
    BY <1>1, <2>2 DEF Gone, Unrecorded
  <2>6. Resting(c)'
    BY <1>1, <2>2, <2>4, <2>5 DEF Served, Resting
  <2>7. \A t \in Threads : ~ On(t, c)'
    BY <1>1, <2>2 DEF On
  <2> QED BY <1>4, <2>1, <2>6, <2>7 DEF Accord
<1> QED BY <1>3, <1>4

LEMMA RestoredAccords == ASSUME AccordInv, Restored PROVE AccordInv'
<1>1. /\ phase = "restoring" /\ phase' = "up" /\ toRestore = {}
      /\ UNCHANGED <<thread, rows, recorder, ai, feed, contested>> /\ UNCHANGED vars
  BY DEF Restored, parts
<1> SUFFICES ASSUME NEW d \in Cameras \ contested' PROVE Accord(d)'
  BY DEF AccordInv
<1>2. Accord(d) /\ ~ Unrestored(d) /\ ~ Unrestored(d)'
  BY <1>1 DEF AccordInv, Unrestored
<1>3. Quiet(d)
  BY <1>1, StreamsStay DEF Quiet
<1> QED BY <1>1, <1>2, <1>3, QuietEases, AccordEases

LEMMA ShutdownAccords ==
  ASSUME ServerStops \/ AiStops \/ RecordingStops \/ StreamsStop PROVE AccordInv'
<1>1. phase' \notin {"up", "restoring"}
  BY DEF ServerStops, AiStops, RecordingStops, StreamsStop
<1> QED BY <1>1 DEF AccordInv

(* Of a process that has just begun there is nothing but the rows.         *)
LEMMA BegunAccords ==
  ASSUME phase = "restoring", toRestore = {c \in Cameras : rows[c] # NoRow},
         \A t \in Threads : thread[t].at = "idle",
         \A c \in Cameras : /\ sessions[c] = NoSession /\ mount[c] = None
                            /\ recorder[c] = Nothing /\ ai[c] = Nothing /\ feed[c] = Nothing,
         worker = "asleep", toReport = <<>>
  PROVE  AccordInv
<1> SUFFICES ASSUME NEW c \in Cameras PROVE Accord(c)
  BY DEF AccordInv
<1>1. \A t \in Threads : ~ On(t, c)
  BY DEF On
<1>2. ~ InService(c)
  BY DEF InService, Working
<1>3. Gone(c)
  BY <1>2 DEF Gone, Managed
<1> QED BY <1>1, <1>3 DEF Accord, Unrestored, Resting

LEMMA CrashAccords == ASSUME Crash PROVE AccordInv'
<1>1. /\ phase' = "restoring" /\ toRestore' = {c \in Cameras : rows'[c] # NoRow}
      /\ \A t \in Threads : thread'[t].at = "idle"
      /\ \A c \in Cameras : /\ sessions'[c] = NoSession /\ mount'[c] = None
                            /\ recorder'[c] = Nothing /\ ai'[c] = Nothing /\ feed'[c] = Nothing
      /\ worker' = "asleep" /\ toReport' = <<>>
  BY IdleFields DEF Crash
<1> SUFFICES ASSUME NEW c \in Cameras PROVE Accord(c)'
  BY DEF AccordInv
<1>2. \A t \in Threads : ~ On(t, c)'
  BY <1>1 DEF On
<1>3. ~ InService(c)'
  BY <1>1 DEF InService, Working
<1>4. Gone(c)'
  BY <1>1, <1>3 DEF Gone, Managed
<1> QED BY <1>1, <1>2, <1>4 DEF Accord, Unrestored, Resting

LEMMA StutterAccords == ASSUME AccordInv, UNCHANGED lifeVars PROVE AccordInv'
<1>1. /\ UNCHANGED <<thread, rows, recorder, ai, feed, phase, toRestore>> /\ UNCHANGED vars
      /\ contested \subseteq contested'
  BY DEF lifeVars, parts, process
<1>2. ASSUME NEW d \in Cameras PROVE Eases(d)
  <2>1. Quiet(d)
    BY <1>1, StreamsStay DEF Quiet
  <2> QED BY <2>1, QuietEases
<1> QED BY <1>1, <1>2, EveryoneEases

-----------------------------------------------------------------------------
(* Rows have what the parts look at, from the request that made them.      *)
LEMMA WholeStays ==
  ASSUME RowsAreWhole, DOMAIN recorder' = Cameras, DOMAIN ai' = Cameras,
         \A c \in Cameras : rows'[c] # NoRow => Whole(rows'[c].camera),
         \A t \in Threads : \/ thread'[t] = thread[t]
                            \/ thread'[t].at \notin {"insert", "read", "store"}
  PROVE  RowsAreWhole'
BY DEF RowsAreWhole

LEMMA DomainsStay ==
  ASSUME RowsAreWhole
  PROVE  /\ recorder' = recorder => DOMAIN recorder' = Cameras
         /\ \A c, e : recorder' = [recorder EXCEPT ![c] = e] => DOMAIN recorder' = Cameras
         /\ ai' = ai => DOMAIN ai' = Cameras
         /\ \A c, e : ai' = [ai EXCEPT ![c] = e] => DOMAIN ai' = Cameras
         /\ rows' = rows => \A c \in Cameras : rows'[c] # NoRow => Whole(rows'[c].camera)
BY DEF RowsAreWhole

(* A thread that goes on with the rows as they are.                        *)
LEMMA GoesOnWhole ==
  ASSUME LifeInv, RowsAreWhole, NEW t \in Threads, NEW next, Goto(t, next) \/ Done(t),
         next \notin {"insert", "read", "store"},
         DOMAIN recorder' = Cameras, DOMAIN ai' = Cameras,
         \A c \in Cameras : rows'[c] # NoRow => Whole(rows'[c].camera)
  PROVE  RowsAreWhole'
<1>1. /\ thread'[t].at \notin {"insert", "read", "store"}
      /\ \A u \in Threads \ {t} : thread'[u] = thread[u]
  BY Locals
<1> QED BY <1>1, WholeStays

LEMMA CreatedIsWhole ==
  ASSUME NEW changes, ValidForCreate(changes) PROVE Whole(Created(changes))
<1> DEFINE named == [name |-> "", rtsp |-> "", hardware |-> "auto"]
           base == Assigned(named, Defaults)
<1>1. /\ {"rtsp", "hardware"} \subseteq DOMAIN named
      /\ CameraFields \ {"rtsp", "hardware"} \subseteq DOMAIN Defaults
  BY DEF CameraFields, Defaults
<1>2. DOMAIN base = DOMAIN named \cup DOMAIN Defaults
  BY DEF Assigned
<1>3. CameraFields \subseteq DOMAIN base
  BY <1>1, <1>2
<1>4. Created(changes) = Changed(changes, base)
  BY DEF Created
<1> HIDE DEF base
<1>5. "rtsp" \in DOMAIN changes /\ ValidForUpdate(changes)
  BY DEF ValidForCreate
<1> QED BY <1>3, <1>4, <1>5, ChangedIsWhole

LEMMA InsertWhole ==
  ASSUME LifeInv, RowsAreWhole, NEW t \in Threads, Insert(t) PROVE RowsAreWhole'
<1> PICK k : k = Created(thread[t].changes)
  OBVIOUS
<1> PICK r : r = Inserted(k)
  OBVIOUS
<1>1. /\ thread[t].at = "insert" /\ rows' = [rows EXCEPT ![thread[t].c] = r]
      /\ thread' = [thread EXCEPT ![t].at = "streams", ![t].row = r]
      /\ recorder' = recorder /\ ai' = ai
  BY DEF Insert, parts
<1>2. Whole(k)
  BY <1>1, CreatedIsWhole DEF RowsAreWhole
<1>3. Whole(r.camera)
  BY <1>2 DEF Inserted
<1>4. \A c \in Cameras : rows'[c] # NoRow => Whole(rows'[c].camera)
  BY <1>1, <1>3, Known DEF RowsAreWhole
<1>5. \A u \in Threads : thread'[u] = thread[u] \/ thread'[u].at = "streams"
  BY <1>1 DEF LifeInv, LifeShape, ThreadFields
<1>6. DOMAIN recorder' = Cameras /\ DOMAIN ai' = Cameras
  BY <1>1, DomainsStay
<1> QED BY <1>4, <1>5, <1>6, WholeStays

LEMMA ReadWhole ==
  ASSUME LifeInv, RowsAreWhole, NEW t \in Threads, Read(t) PROVE RowsAreWhole'
<1> PICK c \in Cameras : c = thread[t].c
  BY Known DEF Read
<1> DEFINE n == [thread[t] EXCEPT !.at = AfterRead(thread[t].op), !.row = rows[c]]
<1>1. thread[t].at = "read" /\ UNCHANGED <<rows, recorder, ai>>
  BY DEF Read, Others, parts
<1>2. DOMAIN recorder' = Cameras /\ DOMAIN ai' = Cameras
      /\ \A d \in Cameras : rows'[d] # NoRow => Whole(rows'[d].camera)
  BY <1>1, DomainsStay
<1>3. CASE rows[c] = NoRow
  BY <1>2, <1>3, GoesOnWhole DEF Read
<1>4. CASE rows[c] # NoRow
  <2>1. thread'[t] = n /\ \A u \in Threads \ {t} : thread'[u] = thread[u]
    BY <1>4 DEF Read, LifeInv, LifeShape
  <2>2. /\ n.at = AfterRead(thread[t].op) /\ n.op = thread[t].op
        /\ n.row = rows[c] /\ n.changes = thread[t].changes
    BY DEF LifeInv, LifeShape, ThreadFields
  <2> HIDE DEF n
  <2>3. /\ n.at \in {"store", "delete", "streams"}
        /\ n.at = "store" => n.op = "update"
    BY <2>2 DEF AfterRead, RemovalOrder
  <2>4. Whole(n.row.camera) /\ (n.op = "update" => ValidForUpdate(n.changes))
    BY <1>1, <1>4, <2>2 DEF RowsAreWhole
  <2> QED BY <1>2, <2>1, <2>3, <2>4 DEF RowsAreWhole
<1> QED BY <1>3, <1>4

LEMMA StoreWhole ==
  ASSUME LifeInv, RowsAreWhole, NEW t \in Threads, Store(t) PROVE RowsAreWhole'
<1> PICK c \in Cameras : c = thread[t].c
  BY Known DEF Store
<1> PICK new : new = NewCamera(t)
  OBVIOUS
<1> DEFINE r == Updated(rows[c], new, thread[t].row.state)
<1>1. /\ thread[t].at = "store" /\ rows' = [rows EXCEPT ![c] = r]
      /\ Done(t) \/ Goto(t, "status")
      /\ recorder' = recorder /\ ai' = ai
  BY DEF Store, NewCamera, parts
<1>2. Whole(thread[t].row.camera) /\ ValidForUpdate(thread[t].changes)
  BY <1>1 DEF RowsAreWhole
<1>3. Whole(new)
  BY <1>2, EditOf
<1>4. r # NoRow => r.camera = new
  <2>1. rows[c] # NoRow => DOMAIN rows[c] = {"camera", "state"}
    BY Known
  <2> QED BY <2>1 DEF Updated
<1> HIDE DEF r
<1>5. \A d \in Cameras : rows'[d] # NoRow => Whole(rows'[d].camera)
  BY <1>1, <1>3, <1>4, Known DEF RowsAreWhole
<1>6. DOMAIN recorder' = Cameras /\ DOMAIN ai' = Cameras
  BY <1>1, DomainsStay
<1> QED BY <1>1, <1>5, <1>6, GoesOnWhole

LEMMA WriteRowWhole ==
  ASSUME LifeInv, RowsAreWhole, NEW t \in Threads, WriteRow(t) PROVE RowsAreWhole'
<1> PICK c \in Cameras : c = thread[t].c
  BY Known DEF WriteRow
<1> DEFINE r == RuntimeUpdated(rows[c], thread[t].state)
<1>1. /\ thread[t].at = "write" /\ rows' = [rows EXCEPT ![c] = r]
      /\ Goto(t, "push") /\ recorder' = recorder /\ ai' = ai
  BY CallbackGoesOn DEF WriteRow, parts
<1>2. \/ rows[c] = NoRow /\ r = NoRow
      \/ rows[c] # NoRow /\ r.camera = rows[c].camera
  BY DEF RuntimeUpdated
<1> HIDE DEF r
<1>3. \A d \in Cameras : rows'[d] # NoRow => Whole(rows'[d].camera)
  BY <1>1, <1>2, Known DEF RowsAreWhole
<1>4. DOMAIN recorder' = Cameras /\ DOMAIN ai' = Cameras
  BY <1>1, DomainsStay
<1> QED BY <1>1, <1>3, <1>4, GoesOnWhole

LEMMA DeleteRowWhole ==
  ASSUME LifeInv, RowsAreWhole, NEW t \in Threads, DeleteRow(t) PROVE RowsAreWhole'
<1>1. /\ thread[t].at = "delete" /\ rows' = [rows EXCEPT ![thread[t].c] = NoRow]
      /\ recorder' = recorder /\ ai' = ai
  BY DEF DeleteRow, Removing, parts
<1>2. Done(t) \/ Goto(t, "streams")
  BY <1>1, RemovalGoesOn DEF DeleteRow
<1>3. \A d \in Cameras : rows'[d] # NoRow => Whole(rows'[d].camera)
  BY <1>1, Known DEF RowsAreWhole
<1>4. DOMAIN recorder' = Cameras /\ DOMAIN ai' = Cameras
  BY <1>1, DomainsStay
<1> QED BY <1>2, <1>3, <1>4, GoesOnWhole

LEMMA PartsToldWhole ==
  ASSUME LifeInv, RowsAreWhole, NEW t \in Threads,
         \/ TellRecording(t) \/ TellAi(t) \/ TellSaving(t) \/ TellStreams(t) \/ OrderStream(t)
         \/ RemoveStream(t) \/ RemoveRecording(t) \/ RemoveAi(t) \/ RemoveFeed(t)
         \/ PushState(t) \/ ReportRecording(t) \/ ReportAi(t) \/ ReportSaving(t)
  PROVE  RowsAreWhole'
<1>1. rows' = rows
  BY DEF TellRecording, TellAi, TellSaving, TellStreams, OrderStream, RemoveStream,
         RemoveRecording, RemoveAi, RemoveFeed, PushState, ReportRecording, ReportAi,
         ReportSaving, Others
<1>2. recorder' = recorder \/ \E e : recorder' = [recorder EXCEPT ![thread[t].c] = e]
  BY DEF TellRecording, TellAi, TellSaving, TellStreams, OrderStream, RemoveStream,
         RemoveRecording, RemoveAi, RemoveFeed, PushState, ReportRecording, ReportAi,
         ReportSaving, ApplyRecording, Others, parts
<1>3. ai' = ai \/ \E e : ai' = [ai EXCEPT ![thread[t].c] = e]
  BY DEF TellRecording, TellAi, TellSaving, TellStreams, OrderStream, RemoveStream,
         RemoveRecording, RemoveAi, RemoveFeed, PushState, ReportRecording, ReportAi,
         ReportSaving, ApplyAi, Others, parts
<1>4. /\ DOMAIN recorder' = Cameras /\ DOMAIN ai' = Cameras
      /\ \A c \in Cameras : rows'[c] # NoRow => Whole(rows'[c].camera)
  BY <1>1, <1>2, <1>3, DomainsStay
<1>5. CASE TellRecording(t) \/ TellAi(t) \/ TellSaving(t) \/ TellStreams(t) \/ OrderStream(t)
  <2>1. PICK next \in {"ai", "saving", "streams", "owes"} : Goto(t, next) \/ Done(t)
    BY <1>5 DEF TellRecording, TellAi, TellSaving, TellStreams, OrderStream
  <2> QED BY <1>4, <2>1, GoesOnWhole
<1>6. CASE RemoveStream(t) \/ RemoveRecording(t) \/ RemoveAi(t) \/ RemoveFeed(t)
  <2>1. /\ thread[t].at \in {"streams", "recorder", "runtime", "clients"} /\ NextRemoval(t)
    BY <1>6 DEF RemoveStream, RemoveRecording, RemoveAi, RemoveFeed, Removing
  <2>2. PICK next \in {"recorder", "runtime", "clients"} : Goto(t, next) \/ Done(t)
    BY <2>1, RemovalGoesOn
  <2> QED BY <1>4, <2>2, GoesOnWhole
<1>7. CASE PushState(t)
  <2>1. Goto(t, "fetch")
    BY <1>7, CallbackGoesOn DEF PushState
  <2> QED BY <1>4, <2>1, GoesOnWhole
<1>8. CASE ReportRecording(t) \/ ReportAi(t) \/ ReportSaving(t)
  <2>1. PICK next \in {"report-ai", "report-saving"} : Goto(t, next) \/ Done(t)
    BY <1>8 DEF ReportRecording, ReportAi, ReportSaving
  <2> QED BY <1>4, <2>1, GoesOnWhole
<1> QED BY <1>5, <1>6, <1>7, <1>8

LEMMA LocalsSetWhole ==
  ASSUME LifeInv, RowsAreWhole, NEW t \in Threads,
         Status(t) \/ Fetch(t) \/ StopperReports(t)
  PROVE  RowsAreWhole'
<1>1. UNCHANGED <<rows, recorder, ai>>
  BY DEF Status, Fetch, StopperReports, Others, parts
<1>2. /\ DOMAIN recorder' = Cameras /\ DOMAIN ai' = Cameras
      /\ \A c \in Cameras : rows'[c] # NoRow => Whole(rows'[c].camera)
  BY <1>1, DomainsStay
<1>3. \A u \in Threads : \/ thread'[u] = thread[u]
                         \/ thread'[u].at \notin {"insert", "read", "store"}
  <2>1. CASE Status(t)
    BY <2>1 DEF Status, LifeInv, LifeShape, ThreadFields
  <2>2. CASE Fetch(t)
    BY <2>2, Locals DEF Fetch, LifeInv, LifeShape, ThreadFields
  <2>3. CASE StopperReports(t)
    <3>1. Called(thread[t].c, "Offline", FALSE, "stop").at = "write"
      BY DEF Called, CallbackOrder, Idle
    <3> QED BY <2>3, <3>1 DEF StopperReports, LifeInv, LifeShape
  <2> QED BY <2>1, <2>2, <2>3
<1> QED BY <1>2, <1>3, WholeStays

LEMMA WorkerReportsWhole ==
  ASSUME LifeInv, RowsAreWhole, WorkerReports PROVE RowsAreWhole'
<1> PICK n : n = Called(Head(toReport)[1], Head(toReport)[2], TRUE, "report")
  OBVIOUS
<1>1. /\ UNCHANGED <<rows, recorder, ai>> /\ "worker" \in Threads
      /\ thread' = thread \/ thread' = [thread EXCEPT !["worker"] = n]
  BY DEF WorkerReports, parts, Threads
<1>2. n.at = "write"
  BY DEF Called, CallbackOrder, Idle
<1>3. \A u \in Threads : thread'[u] = thread[u] \/ thread'[u].at = "write"
  BY <1>1, <1>2 DEF LifeInv, LifeShape
<1>4. /\ DOMAIN recorder' = Cameras /\ DOMAIN ai' = Cameras
      /\ \A c \in Cameras : rows'[c] # NoRow => Whole(rows'[c].camera)
  BY <1>1, DomainsStay
<1> QED BY <1>3, <1>4, WholeStays

LEMMA BeginWhole ==
  ASSUME LifeInv, RowsAreWhole, NEW t \in Threads, NEW op, NEW c, NEW changes, NEW first,
         Begin(t, op, c, changes, first),
         \/ first = "insert" /\ op = "create" /\ ValidForCreate(changes)
         \/ first = "read" /\ (op = "update" => ValidForUpdate(changes))
  PROVE  RowsAreWhole'
<1> PICK n : n = [Idle EXCEPT !.at = first, !.op = op, !.c = c, !.changes = changes]
  OBVIOUS
<1>1. thread' = [thread EXCEPT ![t] = n] /\ UNCHANGED <<rows, recorder, ai>>
  BY DEF Begin, parts
<1>2. n.at = first /\ n.op = op /\ n.changes = changes
  BY DEF Idle
<1>3. thread'[t] = n /\ \A u \in Threads \ {t} : thread'[u] = thread[u]
  BY <1>1 DEF LifeInv, LifeShape
<1>4. /\ DOMAIN recorder' = Cameras /\ DOMAIN ai' = Cameras
      /\ \A d \in Cameras : rows'[d] # NoRow => Whole(rows'[d].camera)
  BY <1>1, DomainsStay
<1>5. /\ n.at = "insert" => ValidForCreate(n.changes)
      /\ n.at \in {"read", "store"} /\ n.op = "update" => ValidForUpdate(n.changes)
      /\ n.at # "store"
  BY <1>2
<1> QED BY <1>3, <1>4, <1>5 DEF RowsAreWhole

LEMMA CrashWhole == ASSUME LifeInv, RowsAreWhole, Crash PROVE RowsAreWhole'
<1>1. /\ rows' = rows \/ rows' = [c \in Cameras |-> NoRow]
      /\ \A t \in Threads : thread'[t].at = "idle"
      /\ DOMAIN recorder' = Cameras /\ DOMAIN ai' = Cameras
  BY IdleFields DEF Crash
<1>2. \A c \in Cameras : rows'[c] # NoRow => Whole(rows'[c].camera)
  BY <1>1 DEF RowsAreWhole
<1> QED BY <1>1, <1>2, WholeStays

(* The rest leaves the rows and the threads alone.                         *)
LEMMA OtherStepsWhole ==
  ASSUME RowsAreWhole, UNCHANGED <<thread, rows>>,
         recorder' = recorder \/ recorder' = [c \in Cameras |-> Nothing],
         ai' = ai \/ ai' = [c \in Cameras |-> Nothing]
  PROVE  RowsAreWhole'
<1>1. DOMAIN recorder' = Cameras /\ DOMAIN ai' = Cameras
  BY DEF RowsAreWhole
<1> QED BY <1>1, DomainsStay, WholeStays

-----------------------------------------------------------------------------
LEMMA LifeInitAccords == LifeInit => RowsAreWhole /\ AccordInv
<1> SUFFICES ASSUME LifeInit PROVE RowsAreWhole /\ AccordInv
  OBVIOUS
<1>1. \A t \in Threads : thread[t].at = "idle"
  BY IdleFields DEF LifeInit
<1>2. /\ phase = "restoring" /\ toRestore = {c \in Cameras : rows[c] # NoRow}
      /\ \A c \in Cameras : /\ sessions[c] = NoSession /\ mount[c] = None
                            /\ recorder[c] = Nothing /\ ai[c] = Nothing /\ feed[c] = Nothing
      /\ worker = "asleep" /\ toReport = <<>>
      /\ DOMAIN recorder = Cameras /\ DOMAIN ai = Cameras
  BY DEF LifeInit, Init
<1>3. ASSUME NEW c \in Cameras, rows[c] # NoRow PROVE Whole(rows[c].camera)
  <2>1. rows[c] \in {Inserted(Created(changes)) : changes \in {x \in Creations : ValidForCreate(x)}}
    BY <1>3 DEF LifeInit
  <2>2. PICK changes \in Creations : /\ ValidForCreate(changes)
                                     /\ rows[c] = Inserted(Created(changes))
    BY <2>1
  <2>3. Whole(Created(changes))
    BY <2>2, CreatedIsWhole
  <2> QED BY <2>2, <2>3 DEF Inserted
<1>4. RowsAreWhole
  BY <1>1, <1>2, <1>3 DEF RowsAreWhole
<1>5. AccordInv
  BY <1>1, <1>2, BegunAccords
<1> QED BY <1>4, <1>5

LEMMA LifeNextAccords ==
  LifeInv /\ StreamInv /\ RowsAreWhole /\ AccordInv /\ [LifeNext]_lifeVars =>
    RowsAreWhole' /\ AccordInv'
<1> SUFFICES ASSUME LifeInv, StreamInv, RowsAreWhole, AccordInv, [LifeNext]_lifeVars
             PROVE  RowsAreWhole' /\ AccordInv'
  OBVIOUS
<1>0. Http \subseteq Threads
  BY DEF Threads
<1>1. ASSUME NEW t \in Http, RequestStep(t) PROVE RowsAreWhole' /\ AccordInv'
  <2>1. RowsAreWhole'
    BY <1>0, <1>1, InsertWhole, ReadWhole, StoreWhole, DeleteRowWhole, PartsToldWhole,
       LocalsSetWhole DEF RequestStep
  <2>2. AccordInv'
    BY <1>0, <1>1, InsertAccords, ReadAccords, StoreAccords, StatusAccords,
       TellRecordingAccords, TellAiAccords, TellSavingAccords, TellStreamsAccords,
       OrderStreamAccords, DeleteRowAccords, RemoveStreamAccords, RemoveRecordingAccords,
       RemoveAiAccords, RemoveFeedAccords, StopperReportsAccords DEF RequestStep
  <2> QED BY <2>1, <2>2
<1>2. ASSUME NEW t \in Threads, CallbackStep(t) PROVE RowsAreWhole' /\ AccordInv'
  BY <1>2, WriteRowWhole, PartsToldWhole, LocalsSetWhole, WriteRowAccords, PushStateAccords,
     FetchAccords, ReportRecordingAccords, ReportAiAccords, ReportSavingAccords
     DEF CallbackStep
<1>3. ASSUME NEW t \in Http, NEW c \in Cameras, NEW changes, Create(t, c, changes)
      PROVE  RowsAreWhole' /\ AccordInv'
  BY <1>0, <1>3, BeginWhole, BeginAccords DEF Create
<1>4. ASSUME NEW t \in Http, NEW c \in Cameras, NEW changes, Update(t, c, changes)
      PROVE  RowsAreWhole' /\ AccordInv'
  <2>1. "update" \in Requests \ {"create"}
    BY DEF Requests
  <2> QED BY <1>0, <1>4, <2>1, BeginWhole, BeginAccords DEF Update
<1>5. ASSUME NEW t \in Http, NEW c \in Cameras, NEW op \in Requests, Ask(t, op, c)
      PROVE  RowsAreWhole' /\ AccordInv'
  <2>1. op \in Requests \ {"create"} /\ op # "update" /\ Begin(t, op, c, Nothing, "read")
    BY <1>5 DEF Ask
  <2> QED BY <1>0, <2>1, BeginWhole, BeginAccords
<1>6. CASE WorkerReports
  BY <1>6, WorkerReportsWhole, WorkerReportsAccords
<1>7. CASE WorkerStep
  <2>1. RowsAreWhole'
    BY <1>7, OtherStepsWhole DEF WorkerStep, Others, parts
  <2>2. AccordInv'
    BY <1>7, PassAccords, AdvanceAccords, WriteBackAccords DEF WorkerStep
  <2> QED BY <2>1, <2>2
<1>8. ASSUME NEW c \in Cameras, TakeUp(c) \/ Tick(c) \/ Restore(c)
      PROVE  RowsAreWhole' /\ AccordInv'
  <2>1. UNCHANGED <<thread, rows, recorder, ai>>
    BY <1>8 DEF TakeUp, Tick, Restore, Others, parts
  <2>2. AccordInv'
    BY <1>8, TakeUpAccords, DueAccords, RestoreAccords
  <2> QED BY <2>1, <2>2, OtherStepsWhole
<1>9. CASE ServerStops \/ AiStops \/ RecordingStops \/ StreamsStop \/ Restored
  <2>1. /\ UNCHANGED <<thread, rows>>
        /\ recorder' = recorder \/ recorder' = [c \in Cameras |-> Nothing]
        /\ ai' = ai \/ ai' = [c \in Cameras |-> Nothing]
    BY <1>9 DEF ServerStops, AiStops, RecordingStops, StreamsStop, Restored, parts
  <2>2. AccordInv'
    BY <1>9, ShutdownAccords, RestoredAccords
  <2> QED BY <2>1, <2>2, OtherStepsWhole
<1>10. CASE Crash
  BY <1>10, CrashWhole, CrashAccords
<1>11. CASE UNCHANGED lifeVars
  BY <1>11, OtherStepsWhole, StutterAccords DEF lifeVars, parts
<1> QED BY <1>1, <1>2, <1>3, <1>4, <1>5, <1>6, <1>7, <1>8, <1>9, <1>10, <1>11
        DEF LifeNext, WorkerPass

(* The invariant of the second half.                                       *)
LEMMA LifeInvariant ==
  LifeSpec => [](LifeInv /\ StreamInv /\ RowsAreWhole /\ AccordInv)
<1>1. LifeInit => LifeInv /\ StreamInv /\ RowsAreWhole /\ AccordInv
  BY LifeInitSound, LifeInitAccords
<1>2. LifeInv /\ StreamInv /\ RowsAreWhole /\ AccordInv /\ [LifeNext]_lifeVars =>
        (LifeInv /\ StreamInv /\ RowsAreWhole /\ AccordInv)'
  BY LifeNextKeeps, LifeNextAccords
<1> QED BY <1>1, <1>2, PTL DEF LifeSpec

(* Whoever called what, and wherever the process died: once it has         *)
(* settled, all parts have of every camera on which no two calls have met  *)
(* what its row says, and of a removed one nothing is left.                *)
THEOREM LifeSettledPartsAgree == LifeSpec => []SettledPartsAgree
<1>1. ASSUME AccordInv, AtRest, NEW c \in Cameras \ contested PROVE Agrees(c)
  <2>1. /\ ~ Unrestored(c) /\ (\A t \in Threads : ~ On(t, c)) /\ ~ Pending(c) /\ ~ Working(c)
        /\ c \in Managed => sessions[c].due # "now"
    BY <1>1 DEF AtRest, Unrestored, On, Pending, Working
  <2>2. Resting(c)
    BY <1>1, <2>1 DEF AtRest, AccordInv, Accord
  <2>3. CASE rows[c] = NoRow
    BY <2>2, <2>3 DEF Resting, Gone, Agrees
  <2>4. CASE rows[c] # NoRow
    <3> PICK k : k = rows[c].camera
      OBVIOUS
    <3>1. Streamed(c, k) /\ Unrecorded(c, k) /\ c \in Managed /\ Sound(c)
      BY <2>2, <2>4 DEF Resting, Served, Streamed
    <3>2. ~ Owing(c)
      BY <2>1, <3>1 DEF Owing, Untried
    <3>3. Kept(c) /\ Pushed(c) /\ (Online(c) => Records(c, k) /\ Watches(c, k))
      BY <2>2, <2>4, <3>2 DEF Resting, Served
    <3>4. Online(c) => mount[c] = k.rtsp
      BY <2>1, <3>1 DEF Streamed, Sound, Consistent, Mounted, Online
    <3> QED BY <2>4, <3>1, <3>3, <3>4
            DEF Agrees, Streamed, Unrecorded, Kept, Pushed, Records, Watches, Online
  <2> QED BY <2>3, <2>4
<1>2. AccordInv => SettledPartsAgree
  BY <1>1 DEF SettledPartsAgree
<1> QED BY <1>2, LifeInvariant, PTL

-----------------------------------------------------------------------------
(* Promises of the comments, where no two calls have met.                  *)

(* An edit that changes neither address nor hardware keeps the viewers of  *)
(* its camera, and of every other one, whatever hardware there is, unless  *)
(* two calls have met on the camera: events.changed hands a changed        *)
(* recording to the stream manager too, which leaves the mount alone.      *)
EditKeepsViewers ==
  [][\A t \in Threads :
       /\ TellStreams(t) /\ thread[t].op = "update" /\ ~ SourceChanged(DiffOf(t))
       /\ phase = "up" /\ thread[t].c \notin contested
       => \A d \in Cameras : mount'[d] = mount[d]]_lifeVars

(* What the comments of the stream manager promise holds of every camera   *)
(* no two calls have met on, at any moment nobody is at work on it, be it  *)
(* in the middle of a probe: what was removed or stopped has no mount, and *)
(* what shows as online is mounted from its address.                       *)
PromisesKept ==
  phase = "up" => \A c \in Cameras \ contested : Busy(c) = {} =>
    /\ c \notin Managed \/ ~ sessions[c].desired => mount[c] = None
    /\ c \in Managed /\ sessions[c].state = "Online" =>
         sessions[c].desired /\ mount[c] = sessions[c].source

(* A camera whose session is sound loses nothing when it is applied as it  *)
(* is: published, it is left alone; unpublished, it counted for no mount.  *)
LEMMA SameApplied ==
  ASSUME StreamInv, NEW c \in Managed, Sound(c),
         Apply(c, sessions[c].source, sessions[c].hardware)
  PROVE  \A d \in Cameras : mount'[d] = mount[d]
<1> PICK source : source = sessions[c].source
  OBVIOUS
<1> PICK hardware : hardware = sessions[c].hardware
  OBVIOUS
<1> DEFINE s == [sessions[c] EXCEPT !.source = source, !.hardware = hardware]
<1>0. c \in Cameras /\ DOMAIN mount = Cameras /\ DOMAIN sessions[c] = SessionFields
  BY DEF StreamInv, StreamShape, Managed
<1>1. CASE sessions[c].published
  <2>1. sessions[c].publishedSource = source /\ sessions[c].publishedHardware = hardware
    BY <1>1 DEF Sound, Consistent
  <2>2. s.publishedSource = source /\ s.publishedHardware = hardware
    BY <1>0, <2>1 DEF SessionFields
  <2>3. ~ SourceMoved(s, source, hardware)
    BY <2>2 DEF SourceMoved
  <2> QED BY <2>3 DEF Apply
<1>2. CASE ~ sessions[c].published
  BY <1>0, <1>2 DEF Apply, Unmounted
<1> QED BY <1>1, <1>2

THEOREM LifeEditKeepsViewers == LifeSpec => EditKeepsViewers
<1>1. ASSUME LifeInv, StreamInv, AccordInv, NEW t \in Threads, TellStreams(t),
             thread[t].op = "update", ~ SourceChanged(DiffOf(t)), phase = "up",
             thread[t].c \notin contested
      PROVE  \A d \in Cameras : mount'[d] = mount[d]
  <2> PICK c \in Cameras : c = thread[t].c
    BY <1>1, Known DEF TellStreams
  <2> PICK k : k = thread[t].row.camera
    OBVIOUS
  <2>1. Telling(t, c, "after", "after")
    <3>1. thread[t].at = "streams" /\ On(t, c)
      BY <1>1 DEF TellStreams, On
    <3>2. Midway(t, c)
      BY <1>1, <3>1 DEF AccordInv, Accord, Unrestored
    <3> QED BY <1>1, <3>1, <3>2 DEF Midway, Ordered
  <2>2. /\ Whole(k) /\ c \in Managed /\ Sound(c)
        /\ sessions[c].source = k.rtsp /\ sessions[c].hardware = k.hardware
    BY <2>1 DEF Telling, Streamed
  <2> PICK new : new = NewCamera(t)
    OBVIOUS
  <2>3. new.rtsp = k.rtsp /\ new.hardware = k.hardware
    BY <1>1, <2>2, EditOf
  <2>4. Apply(c, new.rtsp, new.hardware)
    BY <1>1 DEF TellStreams, ToldCamera
  <2> QED BY <1>1, <2>2, <2>3, <2>4, SameApplied
<1>2. LifeInv /\ StreamInv /\ RowsAreWhole /\ AccordInv =>
        [(\A t \in Threads :
            /\ TellStreams(t) /\ thread[t].op = "update" /\ ~ SourceChanged(DiffOf(t))
            /\ phase = "up" /\ thread[t].c \notin contested
            => \A d \in Cameras : mount'[d] = mount[d])]_lifeVars
  BY <1>1
<1> QED BY <1>2, LifeInvariant, PTL DEF EditKeepsViewers

THEOREM LifePromisesKept == LifeSpec => []PromisesKept
<1>1. ASSUME AccordInv, phase = "up", NEW c \in Cameras \ contested, Busy(c) = {}
      PROVE  /\ c \notin Managed \/ ~ sessions[c].desired => mount[c] = None
             /\ c \in Managed /\ sessions[c].state = "Online" =>
                  sessions[c].desired /\ mount[c] = sessions[c].source
  <2>1. Resting(c)
    BY <1>1 DEF AccordInv, Accord, Unrestored, On, Busy
  <2>2. CASE rows[c] = NoRow
    BY <2>1, <2>2 DEF Resting, Gone
  <2>3. CASE rows[c] # NoRow
    <3>1. c \in Managed /\ Sound(c)
      BY <2>1, <2>3 DEF Resting, Served, Streamed
    <3>2. Working(c) => sessions[c].desired
      BY <3>1 DEF Sound, InHand
    <3>3. sessions[c].published <=> sessions[c].state = "Online"
      BY <3>1 DEF Sound, Consistent
    <3>4. ~ sessions[c].desired => sessions[c].state = "Offline"
      BY <3>1 DEF Sound
    <3>5. Mounted(c) /\ sessions[c].desired \in BOOLEAN
      BY <3>1 DEF Sound
    <3> QED BY <3>1, <3>2, <3>3, <3>4, <3>5 DEF Mounted
  <2> QED BY <2>2, <2>3
<1>2. AccordInv => PromisesKept
  BY <1>1 DEF PromisesKept
<1> QED BY <1>2, LifeInvariant, PTL
=============================================================================
