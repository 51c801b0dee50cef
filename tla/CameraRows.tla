----------------------------- MODULE CameraRows -----------------------------
(***************************************************************************)
(* media/camera/Camera and the validation of CameraService, with the two   *)
(* stores a camera's row may be kept in.                                   *)
(*                                                                         *)
(* A row is what the operator set and the state the pipeline reported; a   *)
(* change is a record of the fields that were supplied, so that an absent  *)
(* field is one that is not in its domain.  Sensitivity and threshold are  *)
(* in percent, and an address or a name is one of a few values.            *)
(***************************************************************************)
EXTENDS Integers

CONSTANTS Urls,      (* addresses that look like RTSP                        *)
          Accelerations, (* acceleration settings                            *)
          Names,     (* names of up to 128 characters, the empty one not in  *)
          Postgres   (* which store the rows are kept in                     *)

ASSUME RowsAssumption == Postgres \in BOOLEAN

States == {"Offline", "Online", "Error"}
Modes  == {"off", "continuous", "motion"}

(* What a camera has that nobody has set.                                  *)
Defaults ==
  [recordingEnabled |-> FALSE, recordingMode |-> "off", motionEnabled |-> FALSE,
   motionSensitivity |-> 50, motionThreshold |-> 1, preMotionSeconds |-> 10,
   postMotionSeconds |-> 20, segmentSeconds |-> 10, streamBitrateKbps |-> 0,
   motionKeyframeOnly |-> FALSE, motionGridX |-> 32, motionGridY |-> 32,
   motionCellLevels |-> "", motionZones |-> "", motionSaveEvents |-> TRUE,
   retentionDays |-> 0]

(* The values validateForUpdate() lets through.                            *)
Allowed ==
  [name |-> Names, rtsp |-> Urls, hardware |-> Accelerations,
   motionSensitivity |-> 0 .. 100, motionThreshold |-> 0 .. 100,
   segmentSeconds |-> 1 .. 3600, streamBitrateKbps |-> {0} \cup 64 .. 20000,
   preMotionSeconds |-> 0 .. 300, postMotionSeconds |-> 0 .. 300,
   motionGridX |-> 8 .. 32, motionGridY |-> 8 .. 32, retentionDays |-> 0 .. 3650,
   recordingMode |-> Modes]

ValidForUpdate(changes) ==
  \A f \in DOMAIN changes \cap DOMAIN Allowed : changes[f] \in Allowed[f]
ValidForCreate(changes) ==
  {"name", "rtsp"} \subseteq DOMAIN changes /\ ValidForUpdate(changes)

Diff(changes, row) == {f \in DOMAIN changes : changes[f] # row[f]}

SourceChanged(diff)    == diff \cap {"rtsp", "hardware"} # {}
RecordingChanged(diff) ==
  diff \cap {"recordingEnabled", "recordingMode", "segmentSeconds"} # {}
MotionChanged(diff) ==
  diff \cap {"motionEnabled", "motionSensitivity", "motionThreshold", "preMotionSeconds",
             "postMotionSeconds", "motionKeyframeOnly", "motionGridX", "motionGridY",
             "motionCellLevels", "motionZones"} # {}
CosmeticOnly(diff) ==
  ~ SourceChanged(diff) /\ ~ RecordingChanged(diff) /\ ~ MotionChanged(diff)

(* assign(), field by field: what was supplied replaces what was there.    *)
Assigned(changes, row) ==
  [f \in DOMAIN changes \cup DOMAIN row |-> IF f \in DOMAIN changes THEN changes[f] ELSE row[f]]

(* apply(): choosing a mode sets the older switch to match, unless that    *)
(* was supplied as well.                                                   *)
Changed(changes, row) ==
  LET merged == Assigned(changes, row)
  IN  IF "recordingMode" \in Diff(changes, row) /\ "recordingEnabled" \notin DOMAIN changes
      THEN [merged EXCEPT !.recordingEnabled = changes.recordingMode # "off"]
      ELSE merged

Created(changes) ==
  Changed(changes, Assigned([name |-> "", rtsp |-> "", hardware |-> "auto"], Defaults))

-----------------------------------------------------------------------------
(* The stores.  A row is [camera, state]; NoRow is the answer NotFound.    *)
NoRow == <<>>
Inserted(camera) == [camera |-> camera, state |-> "Offline"]

(* update(): PostgreSQL leaves the runtime columns alone; the map of the   *)
(* other store takes the caller's copy whole.                              *)
Updated(row, camera, state) ==
  IF row = NoRow THEN NoRow
  ELSE IF Postgres THEN [row EXCEPT !.camera = camera]
  ELSE [camera |-> camera, state |-> state]

RuntimeUpdated(row, state) == IF row = NoRow THEN NoRow ELSE [row EXCEPT !.state = state]

(* Rows written before the states were collapsed.                          *)
StateFromText(text) ==
  CASE text \in {"online", "running"} -> "Online"
    [] text \in {"error", "auth_error", "unsupported_codec"} -> "Error"
    [] OTHER -> "Offline"
ModeFromText(text) ==
  CASE text \in {"continuous", "always"} -> "continuous"
    [] text = "motion" -> "motion"
    [] OTHER -> "off"
StateText(state) == CASE state = "Online" -> "online" [] state = "Error" -> "error"
                      [] OTHER -> "offline"
=============================================================================
