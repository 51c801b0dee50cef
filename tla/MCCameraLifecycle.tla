-------------------------- MODULE MCCameraLifecycle --------------------------
EXTENDS CameraLifecycle, TLC
CONSTANTS t1, t2, s1, s2, h1, h2, n1
MCOneCamera == {1}
MCTwoCameras == {1, 2}
MCHttp == {t1, t2}
MCAsks == t1 :> (Requests \ {"remove"}) @@ t2 :> {"remove"}
MCSources == {s1, s2}
MCHardwares == {h1, h2}
MCNames == {n1}
MCCreations ==
  {[name |-> n1, rtsp |-> s1, hardware |-> h1, recordingMode |-> "continuous"]}
MCEdits ==
  {[motionSaveEvents |-> FALSE], [rtsp |-> s2], [hardware |-> h2],
   [recordingMode |-> "off", motionEnabled |-> TRUE], [segmentSeconds |-> 0]}

(* The stores and the words a row is written with.                         *)
ASSUME StatesSurviveTheStore == \A s \in States : StateFromText(StateText(s)) = s
ASSUME ModesSurviveTheStore == \A m \in Modes : ModeFromText(m) = m
=============================================================================
