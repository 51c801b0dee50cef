---------------------------- MODULE RtspRestream ----------------------------
(***************************************************************************)
(* One camera's shared source and the RTSP mount that restreams it:        *)
(* media/source/RtspEncodedSource (start, the bus thread, the appsink      *)
(* thread's deliver(), stop) and media/stream/RtspServer (the loop thread, *)
(* invoke(), publish and unpublish, one SourceFeed for each media), over   *)
(* Timeline, which deliver() runs every frame through.  The bitrate deliver()  *)
(* measures is left out.                                                   *)
(*                                                                         *)
(* Kept: who holds the source (the registry's entry, a feed's sink, the    *)
(* sinks deliver() copied), because the last to let go destroys it; the    *)
(* times of deliver()'s callbacks, which run outside the fan-out's lock;   *)
(* and every media's own clock.  Abstracted: payloads and caps; a          *)
(* successor of the source is only the fact that a media reads another.    *)
(***************************************************************************)
EXTENDS Timeline, FiniteSets, Sequences

CONSTANTS Inputs,     (* stamps a camera's frame may carry                   *)
          KeyEvery,   (* the stream's keyframe interval, in frames           *)
          Feeds,      (* medias, numbered in the order they are built        *)
          MaxViewers, (* clients one media has at once                       *)
          Callers,    (* threads that publish and unpublish the mount        *)
          MaxCalls    (* their calls                                         *)

ASSUME RestreamAssumption ==
  /\ Inputs \subseteq [pts : Stamps \cup {None}, dts : Stamps \cup {None}]
  /\ KeyEvery \in Nat \ {0} /\ MaxViewers \in Nat \ {0} /\ MaxCalls \in Nat
  /\ Feeds \subseteq Nat \ {0}

VARIABLES
  pipeline, (* none, wired, playing, stopping, down or stuck                  *)
  opener,   (* where start() is: idle, wired, played or done                 *)
  alive,    (* Impl::alive                                                   *)
  fault,    (* an error or the stream's end: none, posted on the bus, handled *)
  held,     (* the registry has an entry for this source                     *)
  moved,    (* the camera has been pointed at another stream                 *)
  gop,      (* the fan-out's cached frames                                   *)
  targets, copies,  (* sinks deliver() has yet to call; the ones it holds    *)
  mount,    (* the factory clients find at the path: 0 for none              *)
  factories,(* how many were made                                            *)
  feed,     (* the medias and their SourceFeeds                              *)
  caller,   (* where each caller of invoke() is                              *)
  queue,    (* work attached to the loop's context                           *)
  calls,    (* how many were made                                            *)
  loop      (* off, running, or quit                                         *)

sourceVars == <<pipeline, opener, alive, fault, held, moved>>
sendVars   == <<gop, targets, copies>>
serverVars == <<caller, queue, calls, loop>>
mountVars  == <<mount, factories>>
restVars   == <<vars, sourceVars, sendVars, serverVars, mountVars, feed>>

NoStamps == [pts |-> None, dts |-> None]
NoFeed == [state |-> "unused", mount |-> 0, viewers |-> 0, waits |-> FALSE,
           base |-> None, first |-> None, plain |-> TRUE,
           given |-> NoStamps, last |-> NoStamps]

RestInit ==
  /\ Init
  /\ pipeline = "none" /\ opener = "idle" /\ alive = FALSE /\ fault = "none"
  /\ held = FALSE /\ moved = FALSE
  /\ gop = <<>> /\ targets = {} /\ copies = {}
  /\ mount = 0 /\ factories = 0 /\ feed = [f \in Feeds |-> NoFeed]
  /\ caller = [c \in Callers |-> "idle"] /\ queue = <<>> /\ calls = 0 /\ loop = "off"

-----------------------------------------------------------------------------
(* Who holds the source: a feed's sink captures the feed, and the feed the *)
(* source, so a registered or a copied sink keeps it.                      *)
Registered == {f \in Feeds : feed[f].state \in {"attached", "detached"}}
UnheldByRegistry(entry, sinks, inCall) == FALSE  \* mutant: only the sweep stops a source
Unheld(entry, sinks, inCall) == ~ entry /\ sinks \cup inCall = {}

(* The last holder runs ~RtspEncodedSource: stop() on its own thread.  On  *)
(* the appsink thread that is a pipeline waiting for itself.               *)
Destroyed(unheld, byItself) ==
  pipeline' = IF unheld /\ pipeline \in {"playing", "stuck"}
              THEN IF byItself THEN "stuck" ELSE "stopping"
              ELSE pipeline

-----------------------------------------------------------------------------
(* start(), under the registry's lock: the bus is watched, and the         *)
(* pipeline set playing, before the source is marked alive.                *)
Wire ==
  /\ opener = "idle"
  /\ \/ opener' = "wired" /\ pipeline' = "wired"
     \/ opener' = "done" /\ pipeline' = "down"     \* no launch line, no parse, no appsink
  /\ UNCHANGED <<vars, alive, fault, held, moved, sendVars, serverVars, mountVars, feed>>

Play ==
  /\ opener = "wired"
  /\ \/ opener' = "played" /\ pipeline' = "playing"
     \/ opener' = "done" /\ pipeline' = "down"     \* the state change fails: stop()
  /\ UNCHANGED <<vars, alive, fault, held, moved, sendVars, serverVars, mountVars, feed>>

Opened ==
  /\ opener = "played" /\ opener' = "done"
  /\ alive' = TRUE /\ held' = TRUE
  /\ UNCHANGED <<vars, pipeline, fault, moved, sendVars, serverVars, mountVars, feed>>

(* The pipeline fails or ends, and the bus thread says so.                 *)
Fail ==
  /\ pipeline = "playing" /\ fault = "none" /\ fault' = "posted"
  /\ UNCHANGED <<vars, pipeline, opener, alive, held, moved, sendVars, serverVars,
                 mountVars, feed>>

HandleBusMessage ==
  /\ fault = "posted" /\ pipeline = "playing"
  /\ fault' = "handled" /\ alive' = FALSE
  /\ UNCHANGED <<vars, pipeline, opener, held, moved, sendVars, serverVars, mountVars,
                 feed>>

(* The registry's sweep stops a source that is dead or unwatched; an       *)
(* acquire() for another stream drops it, and whoever holds it keeps it.   *)
Retire ==
  /\ held /\ (~ alive \/ Registered = {})
  /\ held' = FALSE /\ alive' = FALSE /\ pipeline' = "stopping"
  /\ UNCHANGED <<vars, opener, fault, moved, sendVars, serverVars, mountVars, feed>>

Repoint ==
  /\ opener = "done" /\ ~ moved /\ moved' = TRUE
  /\ held' = FALSE /\ Destroyed(Unheld(FALSE, Registered, copies), FALSE)
  /\ UNCHANGED <<vars, opener, alive, fault, sendVars, serverVars, mountVars, feed>>

(* set_state(NULL) returns when the appsink's callback has.                *)
Stopped ==
  /\ pipeline = "stopping" /\ copies = {}
  /\ pipeline' = "down" /\ alive' = FALSE
  /\ UNCHANGED <<vars, opener, fault, held, moved, sendVars, serverVars, mountVars, feed>>

-----------------------------------------------------------------------------
(* deliver(): the camera's clock is corrected, then the fan-out serves.    *)
IsKey(n) == n % KeyEvery = 0

Deliver ==
  /\ pipeline = "playing" /\ copies = {}
  /\ \E stamps \in Inputs : Correct(stamps)
  /\ gop' = IF IsKey(frames) THEN <<out'>> ELSE IF gop = <<>> THEN gop ELSE Append(gop, out')
  /\ copies' = {f \in Registered : ~ feed[f].waits \/ IsKey(frames)}
  /\ targets' = copies'
  /\ feed' = [f \in Feeds |-> IF f \in copies' THEN [feed[f] EXCEPT !.waits = FALSE] ELSE feed[f]]
  /\ UNCHANGED <<sourceVars, serverVars, mountVars>>

-----------------------------------------------------------------------------
(* SourceFeed::push(), under the feed's lock: the first stamp the media    *)
(* saw, or a lower one, is its zero.  given, first and plain are history.  *)
FirstStamp(base, pts) == IF base = None THEN pts ELSE base  \* mutant: the first one only
Lowest(base, pts) == IF base = None \/ pts < base THEN pts ELSE base

Rebased(stamps, base) ==
  [pts |-> stamps.pts - base,
   dts |-> IF stamps.dts # None /\ stamps.dts >= base THEN stamps.dts - base ELSE stamps.pts - base]

IsPlain(stamps) == stamps.pts # None /\ stamps.dts \in {None, stamps.pts}

Push(media, stamps) ==
  LET base == IF stamps.pts = None THEN media.base ELSE Lowest(media.base, stamps.pts)
  IN  IF media.state # "attached" THEN media
      ELSE [media EXCEPT
             !.base  = base,
             !.given = stamps,
             !.first = IF @ = None THEN stamps.pts ELSE @,
             !.plain = @ /\ IsPlain(stamps),
             !.last  = IF stamps.pts = None THEN NoStamps ELSE Rebased(stamps, base)]

CallSink(f) ==
  /\ f \in targets /\ targets' = targets \ {f}
  /\ feed' = [feed EXCEPT ![f] = Push(@, out)]
  /\ UNCHANGED <<vars, sourceVars, gop, copies, serverVars, mountVars>>

(* deliver() returns and drops its copies of the sinks.                    *)
EndDelivery ==
  /\ copies # {} /\ targets = {} /\ copies' = {}
  /\ Destroyed(Unheld(held, Registered, {}), TRUE)
  /\ UNCHANGED <<vars, opener, alive, fault, held, moved, gop, targets, serverVars,
                 mountVars, feed>>

-----------------------------------------------------------------------------
(* A client asks for the mount.  The factory is shared: the first builds a *)
(* media, and onMediaConfigure attaches it to what the provider returns.   *)
NoMedia(f) == FALSE  \* mutant: the factory is not shared
Media(f) == feed[f].mount = mount /\ feed[f].viewers > 0

Join(f) ==
  /\ loop = "running" /\ mount # 0
  /\ Media(f) /\ feed[f].viewers < MaxViewers
  /\ feed' = [feed EXCEPT ![f].viewers = @ + 1]
  /\ UNCHANGED <<vars, sourceVars, sendVars, serverVars, mountVars>>

(* addSink(): a media that can be is primed with the cached frames.        *)
Primed(media, cached) ==
  LET primed[n \in 0 .. Len(cached)] == IF n = 0 THEN media ELSE Push(primed[n - 1], cached[n])
  IN  primed[Len(cached)]

Attached(media) ==
  Primed([media EXCEPT !.state = "attached", !.waits = gop = <<>>], gop)

Configure(f) ==
  /\ loop = "running" /\ mount # 0 /\ opener = "done"
  /\ \A g \in Feeds : ~ Media(g) /\ (feed[g].state = "unused" => f <= g)
  /\ feed[f].state = "unused"
  /\ LET media == [NoFeed EXCEPT !.mount = mount, !.viewers = 1]
     IN  IF held /\ alive
         THEN /\ feed' = [feed EXCEPT ![f] = Attached(media)]
              /\ UNCHANGED <<pipeline, held>>
         ELSE \* a dead source is replaced, by another or by none
              /\ held' = FALSE /\ Destroyed(Unheld(FALSE, Registered, copies), FALSE)
              /\ \E state \in {"elsewhere", "blank"} :
                   feed' = [feed EXCEPT ![f] = [media EXCEPT !.state = state]]
  /\ UNCHANGED <<vars, opener, alive, fault, moved, sendVars, serverVars, mountVars>>

(* A client goes; the media goes with the last, and takes its feed along:  *)
(* detach() disables it and drops the appsrc, then removes the sink.       *)
Leave(f) ==
  /\ feed[f].viewers > 0
  /\ LET media == feed[f]
         left == IF media.viewers > 1 THEN [media EXCEPT !.viewers = media.viewers - 1]
                 ELSE [NoFeed EXCEPT !.mount = media.mount,
                                     !.state = IF media.state = "attached" THEN "detached"
                                               ELSE "gone"]
     IN  feed' = [feed EXCEPT ![f] = left]
  /\ UNCHANGED <<vars, sourceVars, sendVars, serverVars, mountVars>>

RemoveSink(f) ==
  /\ feed[f].state = "detached"
  /\ feed' = [feed EXCEPT ![f].state = "gone"]
  /\ Destroyed(Unheld(held, Registered \ {f}, copies), FALSE)
  /\ UNCHANGED <<vars, opener, alive, fault, held, moved, sendVars, serverVars, mountVars>>

-----------------------------------------------------------------------------
(* publish and unpublish run on the loop thread; their caller waits.       *)
StartServer == /\ loop = "off" /\ loop' = "running"
               /\ UNCHANGED <<vars, sourceVars, sendVars, caller, queue, calls, mountVars, feed>>

Invoke(c, work) ==
  /\ loop = "running" /\ caller[c] = "idle" /\ calls < MaxCalls /\ calls' = calls + 1
  /\ caller' = [caller EXCEPT ![c] = work] /\ queue' = Append(queue, c)
  /\ UNCHANGED <<vars, sourceVars, sendVars, loop, mountVars, feed>>

RunWork ==
  /\ loop = "running" /\ queue # <<>>
  /\ IF caller[Head(queue)] = "publish"
     THEN factories' = factories + 1 /\ mount' = factories'
     ELSE mount' = 0 /\ UNCHANGED factories
  /\ caller' = [caller EXCEPT ![Head(queue)] = "idle"] /\ queue' = Tail(queue)
  /\ UNCHANGED <<vars, sourceVars, sendVars, calls, loop, feed>>

(* stop(), which the application calls once the HTTP server and the stream *)
(* manager, its only callers, have stopped.                                *)
AnyTime == TRUE  \* mutant: the server stops before its callers
Quiet == \A c \in Callers : caller[c] = "idle"

StopServer == /\ loop = "running" /\ Quiet /\ loop' = "quit" /\ mount' = 0 /\ queue' = <<>>
              /\ UNCHANGED <<vars, sourceVars, sendVars, caller, calls, factories, feed>>

SourceNext == \/ Wire \/ Play \/ Opened \/ Fail \/ HandleBusMessage \/ Retire \/ Repoint
              \/ Stopped \/ Deliver \/ EndDelivery
FeedNext(f) == CallSink(f) \/ Join(f) \/ Configure(f) \/ Leave(f) \/ RemoveSink(f)
ServerNext == \/ StartServer \/ RunWork \/ StopServer
              \/ \E c \in Callers, work \in {"publish", "unpublish"} : Invoke(c, work)

RestNext == SourceNext \/ ServerNext \/ \E f \in Feeds : FeedNext(f)

RestSpec == RestInit /\ [][RestNext]_restVars

(* Threads that have something to do go on: the appsink's, the registry's  *)
(* sweep, start(), the loop and the thread that tears a media down.                 *)
RestFairSpec ==
  /\ RestSpec /\ WF_restVars(Play) /\ WF_restVars(Opened) /\ WF_restVars(EndDelivery) /\ WF_restVars(Retire) /\ WF_restVars(Stopped)
  /\ WF_restVars(RunWork)
  /\ \A f \in Feeds : WF_restVars(CallSink(f)) /\ WF_restVars(RemoveSink(f))

-----------------------------------------------------------------------------
RestTypeOK ==
  /\ TypeOK
  /\ pipeline \in {"none", "wired", "playing", "stopping", "down", "stuck"}
  /\ opener \in {"idle", "wired", "played", "done"} /\ fault \in {"none", "posted", "handled"}
  /\ {alive, held, moved} \subseteq BOOLEAN
  /\ gop \in Seq([pts : Stamp, dts : Stamp]) /\ targets \subseteq copies /\ copies \subseteq Feeds
  /\ mount \in 0 .. factories /\ loop \in {"off", "running", "quit"}
  /\ caller \in [Callers -> {"idle", "publish", "unpublish"}] /\ queue \in Seq(Callers)
  /\ \A f \in Feeds :
       /\ feed[f].state \in {"unused", "attached", "elsewhere", "blank", "detached", "gone"}
       /\ feed[f].mount \in 0 .. factories /\ feed[f].viewers \in 0 .. MaxViewers

(* A media's stamps start at zero and never wrap below it, whenever it     *)
(* joined, whatever order the camera shows its frames in; and of a stream  *)
(* that decodes in display order every media keeps the source's spacing:   *)
(* its zero is the first frame's, because Timeline never goes back.        *)
OwnClock ==
  \A f \in Feeds : LET media == feed[f] IN media.given.pts # None =>
    /\ media.last.pts >= 0 /\ media.last.dts >= 0
    /\ media.plain => /\ media.last.pts = media.given.pts - media.first
                      /\ media.last.dts = media.last.pts

(* One camera watched by many clients is attached to its source once for   *)
(* each mount that was published.                                          *)
OneAttachment ==
  \A f, g \in Feeds :
    feed[f].state = "attached" /\ feed[g].state = "attached" /\ feed[f].mount = feed[g].mount
      => f = g

(* A source nobody watches comes down, whoever was the last to hold it:    *)
(* the registry's sweep, an edit of the camera, or a client that left.     *)
NobodyWatches == \A f \in Feeds : feed[f].viewers = 0
UnwatchedComesDown ==
  NobodyWatches /\ opener = "done" ~> ~ NobodyWatches \/ pipeline \in {"down", "stuck"}

(* A caller of invoke() gets its answer, because the application stops the *)
(* server after everybody who calls it.                                    *)
InvokeReturns == \A c \in Callers : caller[c] # "idle" ~> caller[c] = "idle"

-----------------------------------------------------------------------------
(* What comments of the code promise and it does not keep.                 *)

(* RtspEncodedSource.cpp:97-99: "Whoever holds the source notices it is    *)
(* dead and replaces it."  An error handled between PLAYING and the last   *)
(* line of start() is overwritten by alive = true ...                      *)
FailureIsNoticed == fault = "handled" /\ opener = "done" => ~ alive

(* ... and a media that is attached never asks again.                      *)
DeadIsReplaced ==
  \A f \in Feeds : feed[f].state = "attached" /\ opener = "done" /\ ~ alive
                     ~> feed[f].state # "attached"

(* RtspEncodedSource.cpp:96-97: a pipeline is not stopped from one of its  *)
(* own threads.  A feed whose media goes while deliver() holds its sink is *)
(* let go by the appsink thread, and the source with it.                   *)
StoppedFromOutside == pipeline # "stuck"
=============================================================================
