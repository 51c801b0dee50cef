------------------------------ MODULE Timeline ------------------------------
(***************************************************************************)
(* Timeline::correct of media/source/Timeline.hpp: what each camera's      *)
(* timestamps go through before any consumer sees them                     *)
(* (RtspEncodedSource::Impl::deliver).  A camera's clock may restart, jump *)
(* or be missing from a frame; stamps are corrected by an offset.          *)
(***************************************************************************)
EXTENDS Integers

CONSTANTS MaxForwardJump, (* kMaxForwardJumpNs                               *)
          NominalStep,    (* kNominalStepNs                                  *)
          Stamps,         (* the values a valid stamp may have               *)
          MaxFrames       (* frames delivered                                *)

ASSUME TimelineAssumption ==
  /\ MaxForwardJump \in Nat /\ NominalStep \in 1 .. MaxForwardJump
  /\ Stamps \subseteq Nat /\ MaxFrames \in Nat

None == -1

VARIABLES started, offset, lastClock, lastGoodDelta,  (* the members         *)
          frames,  (* how many were delivered                                *)
          in, out, (* the last frame's stamps, as given and as corrected     *)
          at       (* history: the corrected clock of the last stamped frame *)

members == <<started, offset, lastClock, lastGoodDelta>>
vars == <<members, frames, in, out, at>>

Init == /\ started = FALSE /\ offset = 0 /\ lastClock = 0 /\ lastGoodDelta = 0
        /\ frames = 0 /\ at = 0
        /\ in = [pts |-> None, dts |-> None] /\ out = in

PtsClock(stamps) ==  \* mutant: watches display order
  IF stamps.pts # None THEN stamps.pts ELSE stamps.dts
Clock(stamps) == IF stamps.dts # None THEN stamps.dts ELSE stamps.pts

ClampToZero(t) == IF t < 0 THEN 0 ELSE t
Shift(stamp, by) == IF stamp = None THEN None ELSE ClampToZero(stamp + by)

IsJump(delta) == delta < 0 \/ delta > MaxForwardJump

Step == IF lastGoodDelta > 0 THEN lastGoodDelta ELSE NominalStep

StartUnshifted(clock) ==  \* mutant: the first stamp is kept
  started' = TRUE /\ offset' = 0 /\ UNCHANGED lastGoodDelta
Start(clock) == started' = TRUE /\ offset' = - clock /\ UNCHANGED lastGoodDelta

Advance(clock) ==
  LET delta == clock - lastClock
  IN  /\ UNCHANGED started
      /\ IF IsJump(delta)
         THEN offset' = offset + Step - delta /\ UNCHANGED lastGoodDelta
         ELSE lastGoodDelta' = delta /\ UNCHANGED offset

(* correct(): one frame's stamps in, the corrected pair out.               *)
Correct(stamps) ==
  /\ frames < MaxFrames /\ frames' = frames + 1
  /\ in' = stamps
  /\ IF Clock(stamps) = None
     THEN out' = stamps /\ UNCHANGED <<members, at>>
     ELSE /\ IF started THEN Advance(Clock(stamps)) ELSE Start(Clock(stamps))
          /\ lastClock' = Clock(stamps)
          /\ out' = [pts |-> Shift(stamps.pts, offset'), dts |-> Shift(stamps.dts, offset')]
          /\ at' = Clock(stamps) + offset'

Next == \E pts, dts \in Stamps \cup {None} : Correct([pts |-> pts, dts |-> dts])

Spec == Init /\ [][Next]_vars

-----------------------------------------------------------------------------
Stamp == Nat \cup {None}

TypeOK == /\ started \in BOOLEAN /\ offset \in Int /\ frames \in Nat /\ at \in Int
          /\ lastClock \in Nat /\ lastGoodDelta \in 0 .. MaxForwardJump
          /\ in \in [pts : Stamp, dts : Stamp] /\ out \in [pts : Stamp, dts : Stamp]

(* Whatever the camera's clock does, what consumers are given never goes   *)
(* backward and never jumps: it starts at zero, and from one stamped frame *)
(* to the next it moves on by no more than what still counts as a gap.     *)
NeverJumps == [][IF started THEN at' - at \in 0 .. MaxForwardJump ELSE at' = 0]_vars

(* A frame's decode stamp is the corrected clock itself, which is never    *)
(* negative: the clamp does not touch it.                                  *)
OnTheTimeline == at >= 0 /\ (out.dts # None => out.dts = at)

(* The gap that carries display order survives every correction.           *)
GapSurvives ==
  in.dts # None /\ in.pts # None /\ in.pts >= in.dts =>
    out.pts - out.dts = in.pts - in.dts
=============================================================================
