---------------------------- MODULE SegmentFate ----------------------------
(***************************************************************************)
(* What a camera that records only around events promises about its        *)
(* footage, with no mention of holding, pruning or sweeping: a segment is  *)
(* undecided, then decided once, and for ever.  MotionGate implements it.  *)
(***************************************************************************)
EXTENDS Integers

CONSTANTS Pre,    (* seconds kept before an event: preMotionSeconds  *)
          Post,   (* seconds kept after an event: postMotionSeconds  *)
          Instants  (* the instants there are, in seconds              *)

VARIABLES seen,       (* instants of the events reported so far    *)
          undecided,  (* closed segments whose fate is open        *)
          kept,       (* segments left on disk                     *)
          dropped     (* segments handed over for deletion         *)

fateVars == <<seen, undecided, kept, dropped>>

(* The half-open overlap of a segment with the window of an event.         *)
Covers(e, s) == s.start < e + Post /\ e - Pre < s.end

(* The events a verdict must never miss: those whose post-roll reaches the *)
(* end of the segment, the ones after its end included.                    *)
MustKeep(e, s) == s.end <= e + Post /\ e < s.end + Pre

Init == seen = {} /\ undecided = {} /\ kept = {} /\ dropped = {}

Event(e) ==
  /\ \A d \in dropped : ~ MustKeep(e, d)
  /\ seen' = seen \cup {e}
  /\ UNCHANGED <<undecided, kept, dropped>>

Appear(s) ==
  /\ s \notin undecided \cup kept \cup dropped
  /\ undecided' = undecided \cup {s}
  /\ UNCHANGED <<seen, kept, dropped>>

Decide(keep, drop) ==
  /\ keep \cap drop = {}
  /\ \A s \in keep : \E e \in seen : Covers(e, s)
  /\ \A s \in drop : \A e \in seen : ~ MustKeep(e, s)
  /\ undecided' = undecided \ (keep \cup drop)
  /\ kept' = kept \cup keep
  /\ dropped' = dropped \cup drop
  /\ UNCHANGED seen

Next == \/ \E e \in Instants : Event(e)
        \/ \E a, b \in Instants : Appear([start |-> a, end |-> b])
        \/ \E keep, drop \in SUBSET undecided : Decide(keep, drop)

Spec == Init /\ [][Next]_fateVars
=============================================================================
