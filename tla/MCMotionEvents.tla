---------------------------- MODULE MCMotionEvents ----------------------------
(* One camera: another one shares no more than the writer's queue, which    *)
(* one camera's movements fill as well.                                     *)
EXTENDS MotionEvents
MCCameras == {"gate"}
=============================================================================
