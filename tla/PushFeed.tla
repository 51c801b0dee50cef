------------------------------ MODULE PushFeed ------------------------------
(***************************************************************************)
(* The push of one consumer (RecordingSession::Impl::push, and             *)
(* WhepSession::Impl::push, which is the same code with a smaller bound)   *)
(* behind the back-pressure rule of media/source/BackPressure              *)
(* (DropUntilKeyframe).                                                    *)
(*                                                                         *)
(* The source hands the consumer a run of frames, whatever their kinds     *)
(* (SinkFanout: NoGapNoRepeat, StartsAtGop); the consumer's appsrc empties *)
(* at the pace of its disk or its network.                                 *)
(***************************************************************************)
EXTENDS Integers, Sequences

CONSTANTS MaxQueued, (* kMaxQueuedBytes or kMaxRecordingQueuedBytes          *)
          MaxSize    (* bytes of the largest frame                           *)

ASSUME FeedAssumption == {MaxQueued, MaxSize} \subseteq Nat

VARIABLES offered, (* history: whether each frame handed over is a keyframe  *)
          sent,    (* history: the frames pushed into the consumer           *)
          waiting, (* DropUntilKeyframe.m_waiting                            *)
          queued,  (* gst_app_src_get_current_level_bytes                    *)
          enabled  (* until stop()                                           *)

pushVars == <<offered, sent, waiting, queued, enabled>>

PushInit == /\ offered = <<>> /\ sent = {} /\ waiting = FALSE /\ queued = 0
            /\ enabled = TRUE

Overflowing == queued > MaxQueued

(* DropUntilKeyframe.admit(), and what it leaves in m_waiting.             *)
AdmitsBig(key) == key \/ (~ waiting /\ ~ Overflowing)  \* mutant: keyframes pass
Admits(key) == ~ Overflowing /\ (key \/ ~ waiting)

Offer(key, size) ==
  /\ offered' = Append(offered, key)
  /\ IF enabled /\ Admits(key)
     THEN /\ sent' = sent \cup {Len(offered) + 1}
          /\ queued' = queued + size
          /\ waiting' = FALSE
     ELSE /\ UNCHANGED <<sent, queued>>
          /\ waiting' = (enabled \/ waiting)
  /\ UNCHANGED enabled

(* The consumer's pipeline takes bytes out of the queue.                   *)
Drain ==
  /\ \E left \in 0 .. queued : left < queued /\ queued' = left
  /\ UNCHANGED <<offered, sent, waiting, enabled>>

StopPush == enabled /\ enabled' = FALSE /\ UNCHANGED <<offered, sent, waiting, queued>>

PushNext ==
  \/ \E key \in BOOLEAN, size \in 1 .. MaxSize : Offer(key, size)
  \/ Drain \/ StopPush

PushSpec == PushInit /\ [][PushNext]_pushVars

-----------------------------------------------------------------------------
PushTypeOK == /\ offered \in Seq(BOOLEAN) /\ sent \subseteq 1 .. Len(offered)
              /\ waiting \in BOOLEAN /\ queued \in Nat /\ enabled \in BOOLEAN

(* Encoded video is a chain: whenever the consumer fell behind and caught  *)
(* up, no frame reaches it unless it is a keyframe, the frame before it    *)
(* did, or it is the first the source handed over.                         *)
Decodable == \A n \in sent : offered[n] \/ n - 1 \in sent \/ n = 1

(* A consumer that is behind costs bounded memory: not even a keyframe     *)
(* enters a queue over its bound.                                          *)
QueueIsBounded == queued <= MaxQueued + MaxSize
=============================================================================
