---------------------------- MODULE MCMotionGate ----------------------------
(* A pre-roll of 2 s, a post-roll of 1 s and segments of any length.        *)
EXTENDS MotionGate
=============================================================================
