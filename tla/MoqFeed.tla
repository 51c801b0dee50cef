------------------------------ MODULE MoqFeed ------------------------------
(***************************************************************************)
(* One MoQ viewer's socket: MoqFeed::Wire of media/moq/MoqFeed.cpp.        *)
(*                                                                         *)
(* The sink runs on the camera's streaming thread, so the socket does not  *)
(* block: a send takes any prefix of what it is given, nothing at all      *)
(* (EAGAIN), or fails.  What is left of the one frame that was begun is    *)
(* `pending`, and it is pushed before anything else.  push and close hold  *)
(* the wire's mutex from end to end, so each is one step.                  *)
(*                                                                         *)
(* A unit stands for a stretch of a frame's bytes (its header is the first *)
(* part): <<frame, part>>.                                                 *)
(***************************************************************************)
EXTENDS Integers, Sequences

CONSTANTS MaxParts     (* the most units a frame is cut into                 *)

ASSUME MoqAssumption == MaxParts \in Nat

VARIABLES given,    (* history: [key, parts] of each frame delivered         *)
          wire,     (* history: the units the reader gets, in order          *)
          pending,  (* Wire.pending                                          *)
          lagging,  (* Wire.gate.m_waiting                                   *)
          open,     (* Wire.fd >= 0                                          *)
          alive,    (* Wire.alive                                            *)
          unmapped  (* history: frames admitted that could not be mapped     *)

moqVars == <<given, wire, pending, lagging, open, alive, unmapped>>

(* start(): connected, session header sent, sink added.                    *)
MoqInit == /\ given = <<>> /\ wire = <<>> /\ pending = <<>> /\ lagging = FALSE
           /\ open = TRUE /\ alive = TRUE /\ unmapped = {}

Front(s, k) == SubSeq(s, 1, k)
Back(s, k) == SubSeq(s, k + 1, Len(s))

BehindLong(tail) == Len(tail) > 1  \* mutant: a short tail is not waited for
Behind(tail) == tail # <<>>

(* What a sent prefix leaves to be sent later.                             *)
Rest(frame, k) == Back(frame, k)

(* DropUntilKeyframe.admit()                                               *)
WireAdmitsLoose(key, behind) == ~ behind  \* mutant: resumes at the next frame
WireAdmits(key, behind) == ~ behind /\ (key \/ ~ lagging)

(* The frame is refused: the tail has not gone, or no keyframe came yet.   *)
Refuse(key, tail) ==
  /\ ~ WireAdmits(key, Behind(tail))
  /\ lagging' = TRUE /\ UNCHANGED <<alive, unmapped>>

(* The frame is sent, all of it, a prefix or nothing yet; or the send      *)
(* fails and the feed is dead; or the buffer cannot be mapped.             *)
Send(key, frame, out, tail) ==
  /\ WireAdmits(key, Behind(tail))
  /\ lagging' = FALSE
  /\ \/ /\ \E k \in 0 .. Len(frame) : /\ wire' = out \o Front(frame, k)
                                      /\ pending' = Rest(frame, k)
        /\ UNCHANGED <<alive, unmapped>>
     \/ /\ wire' = out /\ pending' = tail
        /\ alive' = FALSE /\ UNCHANGED unmapped
     \/ /\ wire' = out /\ pending' = tail
        /\ unmapped' = unmapped \cup {Len(given) + 1} /\ UNCHANGED alive

(* Wire::push                                                              *)
Push(key, parts) ==
  /\ given' = Append(given, [key |-> key, parts |-> parts])
  /\ UNCHANGED open
  /\ IF ~ open \/ ~ alive
     THEN UNCHANGED <<wire, pending, lagging, alive, unmapped>>
     ELSE \E flushed \in 0 .. Len(pending) :
            LET out   == wire \o Front(pending, flushed)
                tail  == Back(pending, flushed)
                frame == [p \in 1 .. parts |-> <<Len(given) + 1, p>>]
            IN  \/ /\ wire' = out /\ pending' = tail   \* flushPending() failed
                   /\ tail # <<>> /\ alive' = FALSE
                   /\ UNCHANGED <<lagging, unmapped>>
                \/ /\ wire' = out /\ pending' = tail
                   /\ Refuse(key, tail)
                \/ Send(key, frame, out, tail)

(* stop(): the sink is removed and Wire::close() runs.                     *)
StopMoq ==
  /\ open
  /\ open' = FALSE /\ alive' = FALSE /\ pending' = <<>>
  /\ UNCHANGED <<given, wire, lagging, unmapped>>

(* On its own: any stream.                                                 *)
MoqNext ==
  \/ StopMoq
  \/ \E key \in BOOLEAN, parts \in 2 .. MaxParts : Push(key, parts)

MoqSpec == MoqInit /\ [][MoqNext]_moqVars

-----------------------------------------------------------------------------
Units == (1 .. Len(given)) \X (1 .. MaxParts)

(* Types; a closed wire is dead and holds no tail.                         *)
MoqTypeOK == /\ given \in Seq([key : BOOLEAN, parts : 2 .. MaxParts])
             /\ wire \in Seq(Units) /\ pending \in Seq(Units)
             /\ {lagging, open, alive} \subseteq BOOLEAN /\ unmapped \subseteq 1 .. Len(given)
             /\ ~ open => pending = <<>> /\ ~ alive

IsLast(unit) == unit[2] = given[unit[1]].parts

(* A frame sent partly and abandoned would lose the reader its alignment   *)
(* for the rest of the session: what it reads is whole frames one after    *)
(* another, the last one perhaps cut by the end of the connection, and     *)
(* what waits to be sent completes it.                                     *)
FramesAreWhole ==
  LET s == wire \o pending
  IN  /\ s # <<>> => s[1][2] = 1
      /\ \A i \in 1 .. Len(s) - 1 :
            IF IsLast(s[i]) THEN s[i + 1][2] = 1
                            ELSE s[i + 1] = <<s[i][1], s[i][2] + 1>>
      /\ s # <<>> /\ alive => IsLast(s[Len(s)])

(* After a drop nothing is sent until a keyframe: a frame the reader gets  *)
(* is a keyframe or follows the frame it was predicted from, unless it is  *)
(* the first of all or that frame could not be mapped (the gate had        *)
(* admitted it, and nothing tells the gate).                               *)
WireDecodable ==
  LET got == {wire[i][1] : i \in 1 .. Len(wire)}
  IN  \A n \in got : given[n].key \/ n - 1 \in got \/ n - 1 \in unmapped \/ n = 1

(* However full the socket is, a reader never loses its alignment, and it  *)
(* loses a reference in no other way than these two.                       *)
ReaderIsServed == FramesAreWhole /\ WireDecodable
=============================================================================
