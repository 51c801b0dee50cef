----------------------------- MODULE FramePath -----------------------------
(***************************************************************************)
(* From a camera's stream to what is stored and what is watched: the       *)
(* fan-out of a source, the recorder's push into its muxer and a MoQ       *)
(* viewer's socket, composed.                                              *)
(*                                                                         *)
(* A sink runs inside the fan-out's call: a frame, or the primed cache one *)
(* frame after another, goes through the consumer's gate before the source *)
(* goes on.  Meanwhile the muxer drains its queue.                         *)
(***************************************************************************)
EXTENDS SinkFanout, PushFeed, MoqFeed

CONSTANTS Recorder, Viewer

ASSUME PathAssumption ==
  /\ {Recorder, Viewer} = Consumers /\ Recorder # Viewer
  /\ Sizes \subseteq 1 .. MaxSize /\ MaxSize < MaxParts

pathVars == <<vars, pushVars, moqVars>>

PathInit == Init /\ PushInit /\ MoqInit

(* What the fan-out handed each consumer is what its sink has been given.  *)
Settled == Len(offered) = Len(heard[Recorder]) /\ Len(given) = Len(heard[Viewer])

(* The recorder refuses frames before it leaves the source; MoqFeed::stop  *)
(* leaves the source, then closes its socket.                              *)
MayLeave(c) == c = Recorder => ~ enabled

FanOut ==
  /\ Settled /\ UNCHANGED <<pushVars, moqVars>>
  /\ \/ Deliver \/ Clear
     \/ \E c \in Consumers : Add(c) \/ CallSink(c) \/ (MayLeave(c) /\ Remove(c))

Record ==
  /\ Len(offered) < Len(heard[Recorder])
  /\ LET frame == stream[heard[Recorder][Len(offered) + 1]] IN Offer(frame.key, frame.size)
  /\ UNCHANGED <<vars, moqVars>>

(* A frame of n bytes is cut into its header and n units.                  *)
View ==
  /\ Len(given) < Len(heard[Viewer])
  /\ LET frame == stream[heard[Viewer][Len(given) + 1]] IN Push(frame.key, frame.size + 1)
  /\ UNCHANGED <<vars, pushVars>>

Muxer == (Drain \/ StopPush) /\ UNCHANGED <<vars, moqVars>>

Hangup == state[Viewer] = "removed" /\ StopMoq /\ UNCHANGED <<vars, pushVars>>

PathNext == FanOut \/ Record \/ View \/ Muxer \/ Hangup

PathSpec == PathInit /\ [][PathNext]_pathVars

-----------------------------------------------------------------------------
PathTypeOK == TypeOK /\ PushTypeOK /\ MoqTypeOK

(* From end to end: whatever was dropped on the way, and across the seam   *)
(* between the cache and the live stream, a frame of the camera that is    *)
(* recorded is a keyframe, or the frame before it in the camera's stream   *)
(* is recorded too, or it is the first the camera sent.                    *)
FootageDecodes ==
  LET recorded == {heard[Recorder][i] : i \in sent}
  IN  \A n \in recorded : stream[n].key \/ n - 1 \in recorded \/ n = 1
=============================================================================
