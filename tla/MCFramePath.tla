---------------------------- MODULE MCFramePath ----------------------------
(* Frames of one or two units, a cache of two frames and three units, and a *)
(* queue that overflows on its second unit.                                 *)
EXTENDS FramePath
CONSTANTS recorder, viewer
MCConsumers == {recorder, viewer}
=============================================================================
