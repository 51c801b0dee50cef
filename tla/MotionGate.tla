---------------------------- MODULE MotionGate ----------------------------
(***************************************************************************)
(* media/recording/MotionGate: which closed segments of a motion-triggered *)
(* camera are kept.  A closed segment is held for the pre-roll, then kept  *)
(* if an event's window overlaps it and deleted if none does; events are   *)
(* pruned after every sweep.  Instants are whole seconds.                  *)
(*                                                                         *)
(* RecordingManager calls the gate with its mutex held and with the time   *)
(* it reads there, so each call is one step at the current instant.  The   *)
(* muxer and the delivery of "fragment closed" (bus watcher, database      *)
(* write) stand between a cut and the offer.                               *)
(***************************************************************************)
EXTENDS Integers, FiniteSets

CONSTANTS Pre,      (* MotionGateOptions.preSeconds                          *)
          Post,     (* MotionGateOptions.postSeconds                         *)
          MaxLag,   (* longest time from a cut to the offer of the segment   *)
          MaxTime,  (* the clock stops here                                  *)
          MaxEvents (* events the environment reports at most                *)

(* A "closed" message that takes longer than the pre-roll to reach the     *)
(* gate finds the events around it already pruned.                         *)
ASSUME GateAssumption ==
  /\ Pre \in Nat /\ Post \in Nat /\ MaxLag \in 0 .. Pre
  /\ MaxTime \in Nat /\ MaxEvents \in Nat

VARIABLES now,        (* core::nowEpochMs()                                  *)
          openedAt,   (* start of the file the muxer is writing              *)
          inFlight,   (* closed segments not offered yet                     *)
          held,       (* m_held                                              *)
          events,     (* m_events, sorted                                    *)
          alive,      (* FALSE once flush() has run at shutdown              *)
          seen,       (* history: every event ever noted                     *)
          kept,       (* history: decisions with keep = true                 *)
          dropped     (* history: decisions with keep = false                *)

vars == <<now, openedAt, inFlight, held, events, alive, seen, kept, dropped>>

Segment == [start : Nat, end : Nat]

-----------------------------------------------------------------------------
(* A segment is held exactly as long as the pre-roll could still save it.  *)
HoldTooShort == IF Pre = 0 THEN 0 ELSE Pre - 1  \* mutant: one second less
Hold == Pre

(* segmentIsWorthKeeping with the window of one event: half-open overlap.  *)
Covers(e, s) == s.start < e + Post /\ e - Pre < s.end

AnyEventCovers(s) == \E e \in events : Covers(e, s)

(* The held segments whose fate settle() decides at the current instant.   *)
Due == {s \in held : s.end + Hold <= now}

(* forgetOldEvents: the events left after the prefix below the horizon is  *)
(* erased.                                                                 *)
Remembered == {e \in events : e >= now - Post - Hold}

-----------------------------------------------------------------------------
Init ==
  /\ now = 0 /\ openedAt = 0 /\ alive = TRUE
  /\ inFlight = {} /\ held = {} /\ events = {}
  /\ seen = {} /\ kept = {} /\ dropped = {}

(* Time passes, but not past the latest offer of a closed segment.         *)
Tick ==
  /\ now < MaxTime
  /\ \A s \in inFlight : now < s.end + MaxLag
  /\ now' = now + 1
  /\ UNCHANGED <<openedAt, inFlight, held, events, alive, seen, kept, dropped>>

(* splitmuxsink closes the file it writes and opens the next.              *)
Cut ==
  /\ alive
  /\ openedAt < now
  /\ inFlight' = inFlight \cup {[start |-> openedAt, end |-> now]}
  /\ openedAt' = now
  /\ UNCHANGED <<now, held, events, alive, seen, kept, dropped>>

(* noteEvent(nowEpochMs()).                                                *)
NoteEvent ==
  /\ alive
  /\ Cardinality(seen) < MaxEvents
  /\ events' = events \cup {now}
  /\ seen' = seen \cup {now}
  /\ UNCHANGED <<now, openedAt, inFlight, held, alive, kept, dropped>>

Offer(s) ==
  /\ alive
  /\ s \in inFlight
  /\ inFlight' = inFlight \ {s}
  /\ held' = held \cup {s}
  /\ UNCHANGED <<now, openedAt, events, alive, seen, kept, dropped>>

SettleMovesOut ==  \* mutant: the segments too young to decide are lost
  /\ alive
  /\ held' = {}
  /\ kept' = kept \cup {s \in Due : AnyEventCovers(s)}
  /\ dropped' = dropped \cup {s \in Due : ~ AnyEventCovers(s)}
  /\ events' = Remembered
  /\ UNCHANGED <<now, openedAt, inFlight, alive, seen>>

Settle ==
  /\ alive
  /\ held' = held \ Due
  /\ kept' = kept \cup {s \in Due : AnyEventCovers(s)}
  /\ dropped' = dropped \cup {s \in Due : ~ AnyEventCovers(s)}
  /\ events' = Remembered
  /\ UNCHANGED <<now, openedAt, inFlight, alive, seen>>

(* flush(): everything still held is decided whatever its age; the gate is *)
(* destroyed right after.                                                  *)
Flush ==
  /\ alive
  /\ alive' = FALSE
  /\ held' = {}
  /\ kept' = kept \cup {s \in held : AnyEventCovers(s)}
  /\ dropped' = dropped \cup {s \in held : ~ AnyEventCovers(s)}
  /\ UNCHANGED <<now, openedAt, inFlight, events, seen>>

Next == \/ Tick \/ Cut \/ NoteEvent \/ Settle \/ Flush
        \/ \E s \in inFlight : Offer(s)

Spec == Init /\ [][Next]_vars

-----------------------------------------------------------------------------
TypeOK ==
  /\ now \in 0 .. MaxTime /\ openedAt \in 0 .. now /\ alive \in BOOLEAN
  /\ inFlight \subseteq Segment /\ held \subseteq Segment
  /\ kept \subseteq Segment /\ dropped \subseteq Segment
  /\ seen \subseteq 0 .. now /\ events \subseteq seen

(* An event between the last Post seconds of a segment and Pre seconds     *)
(* after its end saves it: neither the hold (too short) nor forgetOldEvents*)
(* (too eager) nor a late "closed" message may lose that footage.          *)
PreRollNeverLost ==
  \A d \in dropped : \A e \in seen : ~ (d.end <= e + Post /\ e < d.end + Pre)

(* Disk is only spent on footage some event asked for.                     *)
KeptForAReason == \A k \in kept : \E e \in seen : Covers(e, k)

(* Every second that was cut belongs to exactly one segment, and that      *)
(* segment to exactly one stage: nothing leaks, nothing is decided twice.  *)
EverySecondAccounted ==
  LET holding(S, t) == Cardinality({s \in S : s.start <= t /\ t < s.end})
  IN  \A t \in 0 .. openedAt - 1 :
        holding(inFlight, t) + holding(held, t) + holding(kept, t)
          + holding(dropped, t) = 1

(* The reason pruning is harmless there: a forgotten event can no longer   *)
(* reach the end of a segment that is still undecided or being written.    *)
ForgottenIsHarmless ==
  \A e \in seen \ events :
    /\ e + Post < now
    /\ \A s \in held \cup inFlight : e + Post < s.end

(* "kept if any event's window overlaps it, deleted if none does"          *)
(* (MotionGate.hpp).  forgetOldEvents breaks it: the oldest unresolved     *)
(* segment ENDS after the hold horizon, it may start well before.          *)
VerdictIsExact == \A d \in dropped : ~ \E e \in seen : Covers(e, d)

(* The gate implements the promise of SegmentFate.                         *)
Fate == INSTANCE SegmentFate
          WITH undecided <- held \cup inFlight, Instants <- 0 .. MaxTime
ImplementsFate == Fate!Spec
=============================================================================
