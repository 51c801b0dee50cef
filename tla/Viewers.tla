------------------------------- MODULE Viewers -------------------------------
(***************************************************************************)
(* Viewers and their lifetimes: WebRtcService with its WhepSessions, and   *)
(* MoqService with its feeds, which are built alike.                       *)
(*                                                                         *)
(* A session is a chain of parts, the last of which is what the viewer     *)
(* sees: a WhepSession or MoqFeed ("end"), perhaps a private transcode,    *)
(* and for a recording its own PlaybackSource; a live one reads the        *)
(* camera's shared source.  A request builds it and lists it; a request,   *)
(* the sweeper or stop() unlists it under m_mutex and stops it without.    *)
(***************************************************************************)
EXTENDS Integers, Sequences, FiniteSets, SequencesExt

CONSTANTS
  Kinds,
  MaxSessions,  \* bound on the sessions asked for
  MaxInCall  \* bound on the sinks being called at one time

Whep == {"whepLive", "whepPlayback"}
Moq == {"moqLive", "moqPlayback"}
ASSUME ViewersAssumption == Kinds \subseteq Whep \cup Moq /\ {MaxSessions, MaxInCall} \subseteq Nat

Sessions == 1 .. MaxSessions  \* m_nextSessionId

VARIABLES
  kind,     \* what each session is, "none" before it is asked for
  opening,  \* how far the request that builds it has come
  up,       \* its parts that run
  reading,  \* its parts whose sink is attached to the part before them
  alive,    \* Impl::alive, Wire::alive
  sound,    \* the transcode's alive
  peer,     \* what webrtcbin says of the browser
  late,     \* connectTimeoutMs has passed
  early,    \* its pipeline failed while it was still negotiating
  listed,   \* m_sessions
  hands,    \* sessions that closer, sweeper and stopper have yet to stop
  calls,    \* sinks being called by the source they read
  running, camera  \* the service; the camera's shared source

vars == <<kind, opening, up, reading, alive, sound, peer, late, early, listed, hands, calls, running, camera>>

Actors == {"closer", "sweeper", "stopper"}

(* Session s from the viewer's end.                                        *)
Chain(k) == CASE k = "whepPlayback" -> <<"end", "playback">>
              [] k = "moqPlayback" -> <<"end", "transcode", "playback">>
              [] OTHER -> <<"end">>

Upstream(s, p) ==
  LET chain == Append(Chain(kind[s]), "camera")
  IN  chain[1 + CHOOSE i \in DOMAIN chain : chain[i] = p]

Init ==
  /\ kind = [s \in Sessions |-> "none"] /\ opening = [s \in Sessions |-> "no"]
  /\ up = [s \in Sessions |-> {}] /\ reading = [s \in Sessions |-> {}]
  /\ alive = [s \in Sessions |-> FALSE] /\ sound = [s \in Sessions |-> FALSE]
  /\ peer = [s \in Sessions |-> "new"] /\ late = [s \in Sessions |-> FALSE]
  /\ early = [s \in Sessions |-> FALSE]
  /\ listed = {} /\ hands = [a \in Actors |-> {}] /\ calls = {}
  /\ running = TRUE /\ camera = TRUE

-----------------------------------------------------------------------------
(* offer(), offerPlayback(), open(), step by step.                         *)

others == <<peer, late, early, hands, calls, running, camera>>

(* A private source is started before the session that reads it; its       *)
(* transcode, if there is one, after it.                                   *)
Ask(s, k) ==
  /\ kind[s] = "none" /\ (s > 1 => kind[s - 1] # "none") /\ running
  /\ k \in {"whepLive", "moqLive"} => camera
  /\ kind' = [kind EXCEPT ![s] = k]
  /\ up' = [up EXCEPT ![s] = IF k \in {"whepPlayback", "moqPlayback"} THEN {"playback"} ELSE {}]
  /\ opening' = [opening EXCEPT ![s] = IF k = "moqPlayback" THEN "transcode" ELSE "build"]
  /\ UNCHANGED <<reading, alive, sound, listed, others>>

Transcode(s) ==
  /\ opening[s] = "transcode"
  /\ \/ /\ up' = [up EXCEPT ![s] = @ \cup {"transcode"}]
        /\ reading' = [reading EXCEPT ![s] = @ \cup {"transcode"}]
        /\ sound' = [sound EXCEPT ![s] = TRUE]
        /\ opening' = [opening EXCEPT ![s] = "build"]
     \/ opening' = [opening EXCEPT ![s] = "undo"] /\ UNCHANGED <<up, reading, sound>>
  /\ UNCHANGED <<kind, alive, listed, others>>

(* The pipeline plays and its bus is watched, or the socket is connected.  *)
Build(s) ==
  /\ opening[s] = "build"
  /\ \/ up' = [up EXCEPT ![s] = @ \cup {"end"}] /\ opening' = [opening EXCEPT ![s] = "negotiate"]
     \/ UNCHANGED up /\ opening' = [opening EXCEPT ![s] = "undo"]
  /\ UNCHANGED <<kind, reading, alive, sound, listed, others>>

(* Negotiation takes seconds.  What follows it overwrites alive.           *)
Negotiate(s) ==
  /\ opening[s] = "negotiate"
  /\ \/ alive' = [alive EXCEPT ![s] = TRUE] /\ opening' = [opening EXCEPT ![s] = "attach"]
     \/ UNCHANGED alive /\ opening' = [opening EXCEPT ![s] = "undo"]
  /\ UNCHANGED <<kind, up, reading, sound, listed, others>>

Attach(s) ==
  /\ opening[s] = "attach"
  /\ reading' = [reading EXCEPT ![s] = @ \cup {"end"}]
  /\ opening' = [opening EXCEPT ![s] = "list"]
  /\ UNCHANGED <<kind, up, alive, sound, listed, others>>

List(s) ==
  /\ opening[s] = "list"
  /\ listed' = listed \cup {s} /\ opening' = [opening EXCEPT ![s] = "no"]
  /\ UNCHANGED <<kind, up, reading, alive, sound, others>>

-----------------------------------------------------------------------------
(* Stopping, a part at a time: a reader before what it reads.              *)

StopOrderSourceFirst(k) == Reverse(Chain(k))  \* mutant: the source is stopped first
StopOrder(k) == Chain(k)

NextToStop(s) ==
  LET order == StopOrder(kind[s])
  IN  order[CHOOSE i \in DOMAIN order :
              order[i] \in up[s] /\ \A j \in 1 .. i - 1 : order[j] \notin up[s]]

(* A private source joins its thread, so its last call has returned.       *)
JoinedNot(s, p) == TRUE  \* mutant: the source's thread is not joined
Joined(s, p) == \A c \in calls : c.session = s => Upstream(s, c.part) # p

Detached(sinks, p) == sinks \ {p}

StopPart(s) ==
  LET p == NextToStop(s)
  IN  /\ up[s] # {} /\ Joined(s, p)
      /\ up' = [up EXCEPT ![s] = @ \ {p}]
      /\ reading' = [reading EXCEPT ![s] = Detached(@, p)]
      /\ alive' = IF p = "end" THEN [alive EXCEPT ![s] = FALSE] ELSE alive
      /\ sound' = IF p = "transcode" THEN [sound EXCEPT ![s] = FALSE] ELSE sound

(* A request that failed stops what it had started.                        *)
UndoneEnd(s) == "end" \notin up[s]  \* mutant: the playback source is forgotten
Undone(s) == up[s] = {}

Undo(s) ==
  /\ opening[s] = "undo"
  /\ IF Undone(s)
     THEN opening' = [opening EXCEPT ![s] = "no"] /\ UNCHANGED <<up, reading, alive, sound>>
     ELSE StopPart(s) /\ UNCHANGED opening
  /\ UNCHANGED <<kind, listed, others>>

TakeLeaves(a, S) == UNCHANGED listed /\ hands' = [hands EXCEPT ![a] = @ \cup S]  \* mutant: erased after it is stopped
Take(a, S) == listed' = listed \ S /\ hands' = [hands EXCEPT ![a] = @ \cup S]

Rest == <<kind, opening, peer, late, early, calls, camera>>
Parts == <<up, reading, alive, sound>>

Close(s) ==
  /\ s \in listed /\ hands["closer"] = {} /\ running
  /\ Take("closer", {s}) /\ UNCHANGED <<Rest, Parts, running>>

(* The last reference goes, and what the session knew with it.             *)
Destroy(s) ==
  /\ peer' = [peer EXCEPT ![s] = "new"]
  /\ late' = [late EXCEPT ![s] = FALSE] /\ early' = [early EXCEPT ![s] = FALSE]

HandOn(a) ==
  \E s \in hands[a] :
    /\ IF up[s] = {}
       THEN hands' = [hands EXCEPT ![a] = @ \ {s}] /\ Destroy(s) /\ UNCHANGED Parts
       ELSE StopPart(s) /\ UNCHANGED <<hands, peer, late, early>>
    /\ UNCHANGED <<kind, opening, calls, camera, listed, running>>

SourceAlive(s) ==
  CASE kind[s] = "moqPlayback" -> sound[s] /\ "playback" \in up[s]
    [] kind[s] = "whepPlayback" -> "playback" \in up[s]
    [] OTHER -> camera

AliveNotPeer(s) == alive[s] /\ SourceAlive(s)  \* mutant: silence is taken for life
Alive(s) ==
  /\ alive[s] /\ SourceAlive(s)
  /\ kind[s] \in Whep => peer[s] = "connected" \/ (peer[s] = "new" /\ ~ late[s])

Dead == {s \in listed : ~ Alive(s)}

Sweep ==
  /\ running /\ hands["sweeper"] = {} /\ Dead # {}
  /\ Take("sweeper", Dead) /\ UNCHANGED <<Rest, Parts, running>>

(* The requests have ended: main() stops the HTTP server first.            *)
Stop ==
  /\ running /\ running' = FALSE
  /\ hands["closer"] = {} /\ \A s \in Sessions : opening[s] = "no"
  /\ UNCHANGED <<Rest, Parts, listed, hands>>

(* ... and once the sweeper is joined, stop() takes all there is.          *)
TakeAll ==
  /\ ~ running /\ hands["sweeper"] = {} /\ listed # {}
  /\ Take("stopper", listed) /\ UNCHANGED <<Rest, Parts, running>>

-----------------------------------------------------------------------------
(* Threads of GStreamer, the network and the sources.                      *)

life == <<kind, opening, up, reading, listed, hands, running>>

Break(s) ==
  /\ alive[s] \/ (opening[s] = "negotiate" /\ kind[s] \in Whep)
  /\ early' = [early EXCEPT ![s] = @ \/ ~ alive[s]] /\ alive' = [alive EXCEPT ![s] = FALSE]
  /\ UNCHANGED <<life, sound, peer, late, calls, camera>>

BreakTranscode(s) ==
  /\ "transcode" \in up[s] /\ sound[s] /\ sound' = [sound EXCEPT ![s] = FALSE]
  /\ UNCHANGED <<life, alive, peer, late, early, calls, camera>>

(* A browser connects once it has its answer, or never; it may go.         *)
Connect(s) ==
  /\ kind[s] \in Whep /\ s \in listed /\ peer[s] = "new" /\ peer' = [peer EXCEPT ![s] = "connected"]
  /\ UNCHANGED <<life, alive, sound, late, early, calls, camera>>

Leave(s) ==
  /\ kind[s] \in Whep /\ s \in listed /\ peer[s] # "gone" /\ peer' = [peer EXCEPT ![s] = "gone"]
  /\ UNCHANGED <<life, alive, sound, late, early, calls, camera>>

ConnectTimeout(s) ==
  /\ kind[s] \in Whep /\ s \in listed /\ peer[s] = "new" /\ ~ late[s] /\ late' = [late EXCEPT ![s] = TRUE]
  /\ UNCHANGED <<life, alive, sound, peer, early, calls, camera>>

CameraFails ==
  /\ camera /\ camera' = FALSE
  /\ UNCHANGED <<life, alive, sound, peer, late, early, calls>>

(* A source copies its sinks under its lock and calls them without.        *)
Call(s, p) ==
  /\ Cardinality(calls) < MaxInCall
  /\ p \in reading[s] /\ Upstream(s, p) \in up[s] \cup {"camera"}
  /\ calls' = calls \cup {[session |-> s, part |-> p]}
  /\ UNCHANGED <<life, alive, sound, peer, late, early, camera>>

Return(s) ==
  /\ \E c \in calls : c.session = s /\ calls' = calls \ {c}
  /\ UNCHANGED <<life, alive, sound, peer, late, early, camera>>

Opening(s) == Transcode(s) \/ Build(s) \/ Negotiate(s) \/ Attach(s) \/ List(s) \/ Undo(s)
Handing == \E a \in Actors : HandOn(a)

Next ==
  \/ \E s \in Sessions :
       \/ \E k \in Kinds : Ask(s, k)
       \/ Opening(s) \/ Close(s) \/ Break(s) \/ BreakTranscode(s)
       \/ Connect(s) \/ Leave(s) \/ ConnectTimeout(s)
       \/ \E p \in {"end", "transcode"} : Call(s, p)
       \/ Return(s)
  \/ Handing \/ Sweep \/ Stop \/ TakeAll \/ CameraFails

Spec == Init /\ [][Next]_vars

(* The sweeper looks every few seconds, whoever stops a session goes on,   *)
(* a sink returns, and the time to connect passes.                         *)
FairSpec ==
  /\ Spec /\ WF_vars(Sweep) /\ WF_vars(TakeAll)
  /\ \A a \in Actors : WF_vars(HandOn(a))
  /\ \A s \in Sessions : WF_vars(ConnectTimeout(s)) /\ WF_vars(Opening(s)) /\ WF_vars(Return(s))

-----------------------------------------------------------------------------
TypeOK ==
  /\ \A s \in Sessions : kind[s] \in Kinds \cup {"none"} /\ up[s] \subseteq ToSet(Chain(kind[s])) /\ reading[s] \subseteq up[s]
  /\ opening \in [Sessions -> {"no", "transcode", "build", "negotiate", "attach", "list", "undo"}]
  /\ peer \in [Sessions -> {"new", "connected", "gone"}]
  /\ listed \subseteq Sessions /\ hands \in [Actors -> SUBSET Sessions]

(* A session nobody can reach any more has been destroyed.                 *)
Freed(s) ==
  /\ kind[s] # "none" /\ opening[s] = "no" /\ s \notin listed
  /\ \A a \in Actors : s \notin hands[a]

(* stop() of a session is not safe from two threads, and is not called     *)
(* from two: close(), the sweeper, stop() and a request exclude each other.*)
OneStops ==
  /\ \A a, b \in Actors : a # b => hands[a] \cap hands[b] = {}
  /\ \A a \in Actors : hands[a] \cap listed = {}
  /\ \A s \in Sessions : opening[s] # "no" => s \notin listed \cup UNION {hands[a] : a \in Actors}

(* "The transcode reads the playback source, so it goes first": whatever   *)
(* still reads a private source finds it running, at every step of every   *)
(* teardown.                                                               *)
ReadersGoFirst == \A s \in Sessions : \A p \in reading[s] : Upstream(s, p) \in up[s] \cup {"camera"}

(* Nothing outlives its session, whichever step of opening it failed.      *)
FreedIsStopped == \A s \in Sessions : Freed(s) => up[s] = {} /\ reading[s] = {}

(* The thread of a private source never calls into a session that has been *)
(* destroyed: stopping the source waits for it.                            *)
PrivateCallsEnd ==
  \A c \in calls : Upstream(c.session, c.part) # "camera" => ~ Freed(c.session)

(* Nothing outlives its session: no part of it, and no call into it.       *)
NothingOutlives == FreedIsStopped /\ PrivateCallsEnd

(* The same for every sink that holds a bare pointer: WhepSession's, over  *)
(* the shared source.  (A MoqFeed's sink shares ownership of its Wire.)    *)
BareCallsEnd == \A c \in calls : kind[c.session] \in Whep => ~ Freed(c.session)

(* A browser that leaves, or never comes, sends nothing, and a source that *)
(* failed says nothing: the session is found out, and its pipeline freed.  *)
LostIsReaped ==
  \A s \in Sessions :
    LET watched == SourceAlive(s) /\ (kind[s] \in Whep => peer[s] = "connected")
    IN  (s \in listed /\ ~ watched) ~> (s \notin listed \/ watched)

(* A session whose own pipeline has failed does not keep it either.        *)
BrokenIsReaped == \A s \in Sessions : (s \in listed /\ early[s]) ~> s \notin listed

(* After stop() nothing is left running.                                   *)
StopLeavesNothing == ~ running ~> \A s \in Sessions : up[s] = {}
=============================================================================
