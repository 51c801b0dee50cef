------------------------------ MODULE StageTree ------------------------------
(***************************************************************************)
(* vision/AiJob, AiJobService and its stores, StageRunner and the          *)
(* transforms: what a job is, which jobs are accepted, and how its tree of *)
(* stages is run over a frame.                                             *)
(*                                                                         *)
(* Stages are numbered from 1, so the parent -1 of the code is 0 here.  A  *)
(* detection is its class, its box in the frame, the stage that made it    *)
(* and its children; what a network finds in a crop is a constant.         *)
(***************************************************************************)
EXTENDS Geometry, Sequences, FiniteSets, TLC
LOCAL INSTANCE SequencesExt

CONSTANTS ModelTypes, Transforms,  \* the registered ids
          Finds(_, _)  \* what a stage's network finds: the stage, the class it looks at

MaxStages == 8
MaxDepth  == 6

-----------------------------------------------------------------------------
(* Jobs.                                                                   *)

PassesFilter(filter, class) == filter = {} \/ class \in filter

(* validateStages(): parents point backward, so the tree has no cycle and  *)
(* can be run in the order of the list.                                    *)
Depth(stages) ==
  LET D[i \in DOMAIN stages] == IF i = 1 THEN 0 ELSE D[stages[i].parent] + 1 IN D
ValidStages(stages) ==
  /\ stages # <<>> /\ Len(stages) <= MaxStages
  /\ \A i \in DOMAIN stages :
       /\ stages[i].path # "" /\ stages[i].type \in ModelTypes
       /\ stages[i].transform \in Transforms \cup {""}
       /\ IF i = 1 THEN stages[i].parent = 0 ELSE stages[i].parent \in 1 .. i - 1
  /\ \A i \in DOMAIN stages : Depth(stages)[i] < MaxDepth

NewJob == [id |-> 0, name |-> "", camera |-> "", enabled |-> TRUE, maxFps |-> 0, stages |-> <<>>]

ValidJobChanges(changes) ==
  /\ "name" \in DOMAIN changes   => changes.name \notin {"", "longer than 128"}
  /\ "maxFps" \in DOMAIN changes => changes.maxFps \in 0 .. 120
  /\ "stages" \in DOMAIN changes => ValidStages(changes.stages)
  /\ "camera" \in DOMAIN changes => changes.camera # ""
ValidForCreate(changes) ==
  {"name", "camera", "stages"} \subseteq DOMAIN changes /\ ValidJobChanges(changes)

Changed(changes, job) == changes @@ job
(* A ceiling on the frame rate does not touch the pipeline: a reload would *)
(* take a model off the accelerator and put it back.                       *)
PipelineChanged(changes, job) ==
  \E f \in DOMAIN changes \cap {"camera", "stages"} : changes[f] # job[f]
EnabledChanged(changes, job) == "enabled" \in DOMAIN changes /\ changes.enabled # job.enabled
CosmeticOnly(changes, job) == ~ PipelineChanged(changes, job) /\ ~ EnabledChanged(changes, job)

(* The service over either store: [jobs, next, told].  jobs is a function  *)
(* from ids, told the calls of AiJobEvents in their order.                 *)
CreateJob(store, changes) ==
  LET job == [Changed(changes, NewJob) EXCEPT !.id = store.next]
  IN  IF ~ ValidForCreate(changes) THEN store
      ELSE [jobs |-> store.jobs @@ (job.id :> job), next |-> store.next + 1,
            told |-> Append(store.told, <<"added", job>>)]
UpdateJob(store, id, changes) ==
  LET job == Changed(changes, store.jobs[id])
  IN  IF ~ ValidJobChanges(changes) \/ id \notin DOMAIN store.jobs THEN store
      ELSE [store EXCEPT !.jobs[id] = job,
                         !.told = IF CosmeticOnly(changes, store.jobs[id]) THEN @
                                  ELSE Append(@, <<"changed", job>>)]
RemoveJob(store, id) ==
  IF id \notin DOMAIN store.jobs THEN store
  ELSE [store EXCEPT !.jobs = [j \in DOMAIN @ \ {id} |-> @[j]],
                     !.told = Append(@, <<"removed", id>>)]
SetEnabled(store, id, enabled) == UpdateJob(store, id, [enabled |-> enabled])
ListForCamera(store, camera) == {job \in {store.jobs[j] : j \in DOMAIN store.jobs} : job.camera = camera}

-----------------------------------------------------------------------------
(* The column: a list of stored stages, each a record of the fields that   *)
(* were written, or null.  A class list is a list of tokens.               *)
ParseClassList(tokens) ==
  IF tokens = <<"all">> THEN <<>> ELSE SelectSeq(tokens, LAMBDA t : t \in Int)

Null == [null |-> TRUE]
StagesToJson(stages) == stages
(* A stage without a parent hangs on the one before it in the LIST; a null *)
(* counts in the list and makes no stage.                                  *)
StagesFromJson(stored) ==
  LET Read(s, i) == s @@ [parent |-> i - 1, confidence |-> 25, path |-> "", type |-> "",
                          transform |-> "", inputClasses |-> {}, classFilter |-> {}]
  IN  FoldLeft(LAMBDA out, i : IF stored[i] = Null THEN out ELSE Append(out, Read(stored[i], i)),
               <<>>, [i \in DOMAIN stored |-> i])

-----------------------------------------------------------------------------
(* The transforms: [status, covered], where covered is the part of the     *)
(* frame the crop shows and NoRect one that is no rectangle of it.         *)
DefaultTransform == "crop"
TransformOf(id) == IF id = "" THEN DefaultTransform ELSE id

(* Grown by a fraction of its own size, per cent.                          *)
GrownBy(box, percent) ==
  LET dx == (box.w * percent) \div 200  dy == (box.h * percent) \div 200
  IN  [x |-> box.x - dx, y |-> box.y - dy, w |-> box.w + 2 * dx, h |-> box.h + 2 * dy]

Skipped == [status |-> "Unsupported", covered |-> NoRect]
Crop(box, frame, tight) ==
  LET cut == ClampRect(IF tight THEN box ELSE GrownBy(box, 25), frame)
  IN  IF box.w <= 0 \/ box.h <= 0 \/ cut.w <= 0 \/ cut.h <= 0 THEN Skipped
      ELSE [status |-> "ok", covered |-> cut]
AlignPlate(box, frame) == Crop(box, frame, TRUE)

(* Five landmarks, in general position; what is cut for the warp is at     *)
(* least 128 a side, and "covered" stays empty.                            *)
MinCropSide == 128
FaceRegion(box, frame) == ExpandToMin(ClampRect(GrownBy(box, 35), frame), frame, MinCropSide)
AlignFace(box, frame, landmarks, degenerate) ==
  LET region == ClampRect(GrownBy(box, 35), frame)
  IN  IF landmarks < 5 \/ region.w <= 1 \/ region.h <= 1 \/ degenerate THEN Skipped
      ELSE [status |-> "ok", covered |-> NoRect]

Applied(stage, parent, frame) ==
  CASE TransformOf(stage.transform) = "crop" -> Crop(parent.box, frame, stage.tight)
    [] TransformOf(stage.transform) = "align_plate" -> AlignPlate(parent.box, frame)
    [] TransformOf(stage.transform) = "align_face" ->
         AlignFace(parent.box, frame, parent.landmarks, FALSE)

-----------------------------------------------------------------------------
(* StageRunner.  A network finds a list of [class, box], the box in what   *)
(* the crop covers, or fails; the runner puts it into the frame.  Its      *)
(* answers are [ok, list].                                                 *)
Children(stages, i) == SelectSeq([n \in DOMAIN stages |-> n], LAMBDA n : stages[n].parent = i)

Done(list) == [ok |-> TRUE, list |-> list]
Lost       == [ok |-> FALSE, list |-> <<>>]
Placed(found, covered, stage) ==
  [class |-> found.class, stage |-> stage, landmarks |-> found.landmarks, kids |-> <<>>,
   box |-> [found.box EXCEPT !.x = @ + covered.x, !.y = @ + covered.y]]
Kept(stages, i, found) == SelectSeq(found, LAMBDA d : PassesFilter(stages[i].classFilter, d.class))

(* runChildStage(): over every parent its input filter takes and its       *)
(* transform can cut, and then its own children over ALL of the parent's.  *)
(* Whatever else fails loses the frame.                                    *)
RECURSIVE RunStage(_, _, _, _)
RunStage(stages, i, parents, frame) ==
  LET Over(parent) ==
        LET cut     == Applied(stages[i], parent, frame)
            covered == IF cut.covered.w > 0 THEN cut.covered ELSE parent.box
            found   == Finds(i, parent.class)
            fit     == Kept(stages, i, found.list)
            own     == [n \in DOMAIN fit |-> Placed(fit[n], covered, i)]
            kids    == FoldLeft(LAMBDA got, g : IF got.ok THEN RunStage(stages, g, got.list, frame) ELSE got,
                                Done(parent.kids \o own), Children(stages, i))
        IN  IF ~ PassesFilter(stages[i].inputClasses, parent.class) \/ cut = Skipped THEN Done(<<parent>>)
            ELSE IF cut.status # "ok" \/ ~ found.ok THEN Lost
            ELSE [kids EXCEPT !.list = <<[parent EXCEPT !.kids = kids.list]>>]
  IN  FoldLeft(LAMBDA got, parent :
                 IF ~ got.ok THEN got
                 ELSE LET over == Over(parent) IN [over EXCEPT !.list = got.list \o @],
               Done(<<>>), parents)

Run(stages, frame) ==
  LET found == Finds(1, "frame")
      fit   == Kept(stages, 1, found.list)
      roots == [n \in DOMAIN fit |-> Placed(fit[n], NoRect, 1)]
  IN  IF ~ found.ok THEN Lost
      ELSE FoldLeft(LAMBDA got, c : IF got.ok THEN RunStage(stages, c, got.list, frame) ELSE got,
                    Done(roots), Children(stages, 1))

(* The pairs <<stage, stage of the detection it was run over>>.            *)
RECURSIVE Lineage(_)
Lineage(detections) ==
  UNION {{<<k.stage, detections[n].stage>> : k \in ToSet(detections[n].kids)}
           \cup Lineage(detections[n].kids) : n \in DOMAIN detections}
RECURSIVE Everything(_)
Everything(detections) ==
  UNION {{detections[n]} \cup Everything(detections[n].kids) : n \in DOMAIN detections}
=============================================================================
