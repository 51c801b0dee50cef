----------------------------- MODULE VisionLaws -----------------------------
(***************************************************************************)
(* What the pure parts of the vision pipeline promise, each stated against *)
(* a definition that does not follow the code's way of computing it, over  *)
(* all small inputs.  TLC evaluates these assumptions before it explores   *)
(* the run whose module extends this one.                                  *)
(***************************************************************************)
LOCAL INSTANCE Integers
LOCAL INSTANCE Sequences
LOCAL INSTANCE FiniteSets
LOCAL INSTANCE SequencesExt
LOCAL INSTANCE FiniteSetsExt
LOCAL INSTANCE TLC
D == INSTANCE Decoders
G == INSTANCE Geometry
I == INSTANCE Imaging
B == INSTANCE Backends
M == INSTANCE MotionDetector WITH SampleWidth <- 4, SampleHeight <- 3, PixelDelta <- 1, CellPercent <- 50

SizesTo(n) == [w : 1 .. n, h : 1 .. n]
Inside(rect, size) ==
  rect.x >= 0 /\ rect.y >= 0 /\ G!Right(rect) <= size.w /\ G!Bottom(rect) <= size.h
PixelsOf(rect) == (rect.x .. G!Right(rect) - 1) \X (rect.y .. G!Bottom(rect) - 1)

-----------------------------------------------------------------------------
(* Geometry.                                                               *)

(* The picture a network is fed never leaves its buffer, starts and ends   *)
(* on even pixels (the chroma of NV12 is shared by two), and its corners   *)
(* are the frame's: what the network finds there is found at the edge.     *)
ASSUME ContentFits ==
  \A mode \in {"Stretch", "Letterbox", "FitHeight"}, src \in SizesTo(7) :
    \A dst \in {s \in SizesTo(7) : s.w > 1 /\ s.h > 1} :
      LET c == G!FitContentRect(mode, src, dst)
      IN  /\ Inside(c, dst)
          /\ \A v \in {c.x, c.y, c.w, c.h} : v % 2 = 0
          /\ G!MapX(c, src, dst, c.x) = 0
          /\ G!MapY(c, src, dst, c.y) = 0
          /\ G!MapX(c, src, dst, G!Right(c)) = src.w * G!Across(c, dst)
          /\ G!MapY(c, src, dst, G!Bottom(c)) = src.h * G!Down(c, dst)

(* A box is mapped into the frame wherever the network has put it.         *)
ASSUME BoxesStayInTheFrame ==
  \A src \in SizesTo(4), box \in [x : -2 .. 5, y : {-2, 1, 5}, w : 0 .. 7, h : {0, 7}] :
    LET dst == [w |-> 4, h |-> 6]
        c   == G!FitContentRect("Letterbox", src, dst)
    IN  Inside(G!MapRect(c, src, dst, box), src)

(* clamp() is the intersection with the picture.                           *)
ASSUME ClampIntersects ==
  \A rect \in [x : -3 .. 4, y : -3 .. 4, w : 0 .. 5, h : 0 .. 5] :
    PixelsOf(G!ClampRect(rect, [w |-> 3, h |-> 2])) =
      PixelsOf(rect) \cap PixelsOf([x |-> 0, y |-> 0, w |-> 3, h |-> 2])

(* A crop too small for the scaler is grown inside the frame, to the side  *)
(* that is wanted or the frame's, and keeps its middle.                    *)
ASSUME GrownCropIsUsable ==
  \A at \in 0 .. 11, len \in 1 .. 6, frame \in 2 .. 12 :
    at + len <= frame =>
      LET g == G!Grown(at, len, 4, frame)
      IN  /\ g.at >= 0 /\ g.at + g.len <= frame
          /\ g.len >= G!AlignDown2(G!Least(frame, G!Greatest(len, 4)))
          /\ g.at <= at + len \div 2 /\ at + len \div 2 <= g.at + g.len + 1

(* A copy fills its buffer without leaving it, byte by byte once, whatever *)
(* the padding of the rows it is made from.                                *)
ASSUME CopyFillsTheBuffer ==
  \A format \in {"NV12", "BGR888", "GRAY8"}, half \in SizesTo(2), pad \in 0 .. 2 :
    LET size   == [w |-> 2 * half.w, h |-> 2 * half.h]
        stride == IF pad = 0 THEN 0 ELSE G!PackedStride(format, size.w, 0) + pad
        planes == [p \in 0 .. 1 |-> [stride |-> stride,
                                     offset |-> p * size.h * G!Greatest(stride, size.w)]]
        copied == G!CopyOf(format, size, planes)
    IN  /\ {b.to : b \in copied} = 0 .. G!PackedSize(format, size) - 1
        /\ Cardinality({b.from : b \in copied}) = Cardinality(copied)
        /\ Cardinality(copied) = G!PackedSize(format, size)
        /\ pad > 0 => \A b \in copied : b.from % stride < G!PackedStride(format, size.w, 0)

-----------------------------------------------------------------------------
(* Decoders.                                                               *)

Boxes1D == {[x1 |-> a, x2 |-> b, y1 |-> 0, y2 |-> 4, score |-> s, class |-> k] :
              <<a, b, s, k>> \in {t \in (0 .. 4) \X {4, 8} \X (1 .. 2) \X (1 .. 2) : t[1] < t[2]}}

(* What is kept does not conflict, and whatever is dropped is covered by   *)
(* one of its class that is kept and is no weaker.                         *)
ASSUME SuppressionIsAMaximalChoice ==
  \A a, b, c \in {box \in Boxes1D : box.x1 \in {0, 2, 4}} :
    LET all == <<a, b, c>>
        out == D!Suppressed(all, 40)
        Conflict(p, q) == p.class = q.class /\ D!Overlaps(p, q, 40)
    IN  /\ \A i, j \in DOMAIN out : i # j => ~ Conflict(out[i], out[j])
        /\ \A i \in 1 .. 3 : \/ all[i] \in ToSet(out)
                             \/ \E j \in DOMAIN out : /\ Conflict(out[j], all[i])
                                                      /\ out[j].score >= all[i].score
        /\ \A i \in 1 .. Len(out) - 1 : out[i].score >= out[i + 1].score

(* "The gate can only save work, never change the answer": with the byte   *)
(* in front of a pose head and without it the same cells are taken.  So it *)
(* is unless the threshold lies in the last step above -128: a step below  *)
(* that is no byte, and what the conversion makes of it takes nothing.     *)
Thresholds == [zero : {-128, -1, 0, 3, 127}, scale : 1 .. 3]
LastStep(logit, quant) ==
  logit + quant.zero * quant.scale \in -128 * quant.scale + 1 .. -127 * quant.scale - 1
SameCells(raw, logit, quant) == D!PosePasses(raw, logit, quant) <=> D!Dequantise(raw, quant) >= logit
ASSUME GateSavesWorkOnly ==
  \A raw \in {-128, -127, -3, -1, 0, 1, 2, 126, 127}, logit \in -7 .. 7, quant \in Thresholds :
    ~ LastStep(logit, quant) => SameCells(raw, logit, quant)
ASSUME GateIsNoByte ==
  \E raw \in 0 .. 9, logit \in -7 .. 7, quant \in Thresholds :
    LastStep(logit, quant) /\ ~ SameCells(raw, logit, quant)

(* A cell is a candidate once at most, of its best class, and no class the *)
(* filter leaves out.  A quantised head is stricter than a float one: it   *)
(* wants more than the threshold's byte.                                   *)
ASSUME BestClassOnly ==
  \A scores \in [1 .. 2 -> [0 .. 2 -> {1, 4, 5}]], filter \in {{}, {0}, {1, 2}}, int8 \in BOOLEAN :
    LET head == [scores |-> scores, int8 |-> int8, quant |-> [zero |-> 0, scale |-> 1],
                 boxes |-> [n \in 1 .. 2 |-> [cell |-> n]]]
        got  == D!Collect(head, [confidence |-> 4, filter |-> filter])
    IN  /\ Len(got) <= 2 /\ (Len(got) = 2 => got[1].cell # got[2].cell)
        /\ \A c \in ToSet(got) :
             /\ c.score = scores[c.cell][c.class] /\ D!PassesClass(filter, c.class)
             /\ \A k \in 0 .. 2 : scores[c.cell][k] <= c.score
             /\ IF int8 THEN c.score > 4 ELSE c.score >= 4

(* Every text pixel is in one blob, but for those of the blobs too small;  *)
(* a blob is connected: pixels that touch are never in two.                *)
Pictures == [(0 .. 2) \X (0 .. 2) -> {0, 60}]
ASSUME BlobsPartitionTheText ==
  \A p \in Pictures :
    LET text  == {q \in DOMAIN p : p[q] >= 30}
        blobs == D!CollectBlobs(p, 3, 3, 1)
    IN  /\ FoldLeft(LAMBDA n, b : n + b.area, 0, blobs) = Cardinality(text)
        /\ Len(blobs) = Cardinality({D!Walk(text, q) : q \in text})
        /\ \A b \in ToSet(blobs) : b.sum = 60 * b.area /\ b.area <= D!Width(b) * D!Height(b)

Blob(l, t, w, h) == [left |-> l, right |-> l + w - 1, top |-> t, bottom |-> t + h - 1,
                     area |-> w * h, sum |-> 50 * w * h]
SmallBlobs == {Blob(l, t, w, h) : l \in {0, 3, 8}, t \in {0, 2}, w \in {2, 4}, h \in {2, 4}}

(* Lines: nothing that belongs together is left apart, and no pixel of     *)
(* text is lost or counted twice.                                          *)
ASSUME LinesAreFinished ==
  \A a, b, c \in SmallBlobs :
    LET lines == D!MergeIntoLines(<<a, b, c>>)
    IN  /\ \A i, j \in DOMAIN lines : i # j => ~ D!SameLine(lines[i], lines[j])
        /\ FoldLeft(LAMBDA n, l : n + l.area, 0, lines) = a.area + b.area + c.area

(* The characters of a line are its steps' best classes with repeats taken *)
(* once and blanks taken out, whoever is confident.                        *)
Step(class) == [k \in 0 .. 2 |-> IF k = class THEN 9 ELSE 1]
ASSUME RepeatsAreOneCharacter ==
  \A n \in 0 .. 5 : \A best \in [1 .. n -> 0 .. 2] :
    LET starts == SelectSeq([i \in 1 .. n |-> i],
                            LAMBDA i : best[i] # 0 /\ (i = 1 \/ best[i - 1] # best[i]))
    IN  D!Characters([i \in 1 .. n |-> Step(best[i])], 5, {}) =
          [i \in DOMAIN starts |-> best[starts[i]] - 1]

(* A mask's cells lie in its object when the object fills the box.         *)
ASSUME FullMaskIsFull ==
  D!Mask([x1 |-> 2, x2 |-> 10, y1 |-> 1, y2 |-> 9], [w |-> 16, h |-> 16], [w |-> 4, h |-> 4],
         (0 .. 3) \X (0 .. 3)) = 0 .. D!MaskGrid * D!MaskGrid - 1

-----------------------------------------------------------------------------
(* The backends that scale.                                                *)

Views == {[format |-> f, size |-> s, stride |-> st, uv |-> 0, cpu |-> cpu, handle |-> h] :
            f \in {"NV12", "BGR888", "GRAY8"}, s \in {[w |-> 64, h |-> 64], [w |-> 640, h |-> 360],
                                                      [w |-> 2560, h |-> 130]},
            st \in {0}, cpu \in BOOLEAN, h \in BOOLEAN}
Targets == {[format |-> f, size |-> s, stride |-> 0, uv |-> 0, cpu |-> TRUE, handle |-> FALSE] :
              f \in {"NV12", "BGR888"}, s \in {[w |-> 320, h |-> 320], [w |-> 150, h |-> 200]}}

(* No job of two addressing modes and none with a source under the size    *)
(* the engine locks up on is ever handed to it.                            *)
ASSUME TheEngineIsSpared ==
  \A src \in Views, dst \in Targets, mode \in {"Stretch", "Letterbox"},
     roi \in [x : {0, 301}, y : {0, 31}, w : {100, 301}, h : {100, 201}] :
    \A job \in {I!ScaleInto(src, I!Whole(src), dst, G!FitContentRect(mode, src.size, dst.size)),
                I!ScaleInto(src, I!RgaCropRect(roi, src.size), dst, I!Whole(dst))} :
      job # I!NoJob => /\ job.src = job.dst
                       /\ job.from.w >= 128 /\ job.from.h >= 128
                       /\ Inside(job.from, src.size)

(* Where the picture comes to lie does not depend on who has drawn it, so  *)
(* the boxes of a network map back the same on every machine; and a frame  *)
(* that OpenCV can read is drawn, whatever becomes of the engine.          *)
ASSUME WhoeverDrawsIt ==
  \A src \in Views, dst \in Targets, mode \in {"Stretch", "Letterbox", "FitHeight"},
     works \in BOOLEAN :
    LET answer == I!Fit(src, dst, mode, works)
    IN  /\ answer.code = "ok" => answer.content = G!FitContentRect(mode, src.size, dst.size)
        /\ I!CpuFit(src, dst, mode).code = "ok" => answer.code = "ok"

(* copyOut() writes in the picture's planes only.                          *)
ASSUME CopiesOutInside ==
  \A format \in {"NV12", "BGR888"}, to \in [x : {0, 2}, y : {0, 2}, w : {2, 4}, h : {2, 4}] :
    LET dst == [format |-> format, size |-> [w |-> 6, h |-> 6], stride |-> 0, uv |-> 0,
                cpu |-> TRUE, handle |-> FALSE]
    IN  /\ I!CopyOut(to, dst) \subseteq 0 .. G!PackedSize(format, dst.size) - 1
        /\ Cardinality(I!CopyOut(to, dst)) = G!PackedSize(format, I!SizeOf(to))

(* Whatever a network's input held before, the bars cover it: each byte of *)
(* a packed buffer is painted, and no sample of luma is taken for chroma.  *)
ASSUME BarsCoverEverything ==
  \A format \in {"NV12", "BGR888", "GRAY8"}, half \in SizesTo(3) :
    LET view == [format |-> format, size |-> [w |-> 2 * half.w, h |-> 2 * half.h], stride |-> 0, uv |-> 0]
        bars == I!Painted(view)
    IN  /\ bars.value \cup bars.neutral = 0 .. G!PackedSize(format, view.size) - 1
        /\ bars.value \cap bars.neutral = {}
        /\ Cardinality(bars.neutral) = IF format = "NV12" THEN 2 * half.w * half.h ELSE 0

(* A buffer is whole or not there, and keeps what it has while it fits.    *)
ASSUME BuffersAreWhole ==
  \A got \in SUBSET {"fd", "ptr", "handle"}, before \in {"a", "b"} :
    LET buffer == I!Ensure([shape |-> before, fd |-> TRUE, ptr |-> TRUE, handle |-> TRUE], "b", got)
    IN  buffer = I!NoBuffer \/ (buffer.shape = "b" /\ buffer.fd /\ buffer.ptr /\ buffer.handle)

-----------------------------------------------------------------------------
(* Jobs and their stages.                                                  *)

(* A toy zoo: the first stage finds two cars side by side, the fifth fails *)
(* on what the third has found, and every other one finds a plate in the   *)
(* middle of what it is shown.                                             *)
ToyFinds(stage, class) ==
  IF stage = 1 THEN [ok |-> TRUE, list |->
    <<[class |-> 7, landmarks |-> 0, box |-> [x |-> 10, y |-> 10, w |-> 30, h |-> 20]],
      [class |-> 8, landmarks |-> 0, box |-> [x |-> 60, y |-> 10, w |-> 30, h |-> 20]]>>]
  ELSE [ok |-> ~ (stage = 5 /\ class = 13), list |->
    <<[class |-> 10 + stage, landmarks |-> 0, box |-> [x |-> 4, y |-> 4, w |-> 8, h |-> 6]]>>]
S == INSTANCE StageTree WITH ModelTypes <- {"yolo", "text"}, Transforms <- {"crop", "align_face"},
                             Finds <- ToyFinds

Stage(parent) == [parent |-> parent, path |-> "m", type |-> "yolo", transform |-> "", tight |-> FALSE,
                  confidence |-> 25, inputClasses |-> {}, classFilter |-> {}]
Lists(n) == {[i \in 1 .. n |-> Stage(p[i])] : p \in [1 .. n -> 0 .. n]}
Frame100 == [w |-> 100, h |-> 50]

(* What validateStages() lets pass is a tree: its first stage alone has no *)
(* parent, and every stage is reached from it.                             *)
ASSUME AcceptedStagesAreATree ==
  \A n \in 1 .. 4 : \A stages \in Lists(n) :
    LET Reached[k \in 0 .. n] ==
          IF k = 0 THEN {1} ELSE UNION {{i} \cup ToSet(S!Children(stages, i)) : i \in Reached[k - 1]}
    IN  S!ValidStages(stages) =>
          Reached[n] = 1 .. n /\ {i \in 1 .. n : stages[i].parent = 0} = {1}

(* What is stored comes back; so does a list that never names a parent, as *)
(* the chain it was before there were trees.                               *)
ASSUME StagesSurviveTheColumn ==
  \A n \in 1 .. 3 : \A stages \in Lists(n) :
    /\ S!StagesFromJson(S!StagesToJson(stages)) = stages
    /\ LET bare == [i \in 1 .. n |-> [path |-> "m", type |-> "yolo"]]
       IN  \A i \in 1 .. n : S!StagesFromJson(bare)[i].parent = i - 1

(* "Which stage this one crops from": a detection hangs under one of its   *)
(* stage's parent.  This is so where no stage that has children comes      *)
(* after a sibling; where one does, its children are run over what that    *)
(* sibling has found as well (see the README).                             *)
FirstsOnly(stages) ==
  \A i \in DOMAIN stages : S!Children(stages, i) # <<>> =>
    \A j \in 1 .. i - 1 : stages[j].parent # stages[i].parent
ASSUME FoundUnderItsParent ==
  \A stages \in {l \in Lists(4) : S!ValidStages(l) /\ FirstsOnly(l)} :
    S!Lineage(S!Run(stages, Frame100).list) = {<<i, stages[i].parent>> : i \in 2 .. 4}
ASSUME SiblingsAreRunOverToo ==
  LET stages == <<Stage(0), Stage(1), Stage(1), Stage(3)>>
  IN  S!ValidStages(stages) /\ <<4, 2>> \in S!Lineage(S!Run(stages, Frame100).list)

(* A frame is lost when a network fails that is run over something in it,  *)
(* and only then.                                                          *)
ASSUME OneFailureLosesTheFrame ==
  \A stages \in {[i \in 1 .. 5 |-> Stage(IF i = 1 THEN 0 ELSE IF i = 5 THEN k ELSE i - 1)] : k \in 1 .. 4} :
    S!Run(stages, Frame100).ok <=> stages[5].parent # 3

(* A crop lies in the frame, and so does what is found in it.              *)
ASSUME CropsStayInTheFrame ==
  /\ \A box \in [x : {-5, 0, 40, 95}, y : {-5, 0, 45}, w : {0, 9, 200}, h : {1, 60}], tight \in BOOLEAN :
       LET cut == S!Crop(box, Frame100, tight)
       IN  cut.status = "ok" => /\ Inside(cut.covered, Frame100)
                                /\ PixelsOf(box) \cap PixelsOf([x |-> 0, y |-> 0] @@ Frame100) \subseteq
                                     PixelsOf(cut.covered)
  /\ \A d \in S!Everything(S!Run(<<Stage(0), Stage(1), Stage(2)>>, Frame100).list) : Inside(d.box, Frame100)

(* Whoever follows the events knows of every job the camera it runs on,    *)
(* its stages and whether it runs; only what touches neither is not told.  *)
Edits == {[name |-> "b"], [enabled |-> FALSE], [enabled |-> TRUE], [camera |-> "c2"], [maxFps |-> 5],
          [stages |-> <<Stage(0), Stage(1)>>], [name |-> ""], [enabled |-> FALSE, camera |-> "c2"]}
ASSUME FollowersKnowTheJobs ==
  LET Empty == [jobs |-> <<>>, next |-> 1, told |-> <<>>]
      new   == [name |-> "a", camera |-> "c1", stages |-> <<Stage(0)>>]
      two   == S!CreateJob(S!CreateJob(Empty, new), new)
      LastOf(told, id) == SelectLastInSeq(told, LAMBDA e : e[1] # "removed" /\ e[2].id = id)
      Runs(job) == <<job.camera, job.stages, job.enabled>>
  IN  \A e1, e2, e3 \in Edits :
        LET store == S!RemoveJob(S!UpdateJob(S!UpdateJob(S!UpdateJob(two, 1, e1), 1, e2), 1, e3), 2)
        IN  /\ DOMAIN store.jobs = {1}
            /\ Runs(store.told[LastOf(store.told, 1)][2]) = Runs(store.jobs[1])
            /\ store.told[Len(store.told)] = <<"removed", 2>>

-----------------------------------------------------------------------------
(* Backends.                                                               *)

Entries == {<<[id |-> "cpu", priority |-> 0, available |-> a], [id |-> "rga", priority |-> 100, available |-> b],
              [id |-> "gpu", priority |-> p, available |-> c]>> : a, b, c \in BOOLEAN, p \in {0, 50, 100}}

(* The backend that is chosen can run here and none that can is preferred; *)
(* forcing one never gets another.  Once it was given, the answer stays:   *)
(* also a failure, whatever becomes available later.                       *)
ASSUME TheBestThatRuns ==
  \A entries \in Entries, forced \in {"", "rga", "npu"} :
    LET got == B!Select(entries, forced)
        Of(id) == CHOOSE e \in ToSet(entries) : e.id = id
    IN  /\ got.code = "ok" => /\ Of(got.value).available
                              /\ IF forced # "" THEN got.value = forced
                                 ELSE \A e \in ToSet(entries) : e.available => e.priority <= Of(got.value).priority
        /\ got.code # "ok" /\ forced = "" => \A e \in ToSet(entries) : ~ e.available
        /\ forced = "" => (got.code = "ok") = (B!SelectAll(entries) # <<>>)
ASSUME TheAnswerStays ==
  \A before, after \in Entries, forced \in {"", "rga"} :
    LET first  == B!ImageOps(B!NotChosen, before, forced # "", forced)
        second == B!Inference(B!NotChosen, before, forced)
    IN  /\ B!Settled(first) /\ B!ImageOps(first, after, FALSE, "") = first
        /\ B!Settled(second) /\ B!Inference(second, after, "") = second
        /\ B!Answer(first).code = "ok" <=> first.failure = "none"

(* The report marks what was chosen, but for a chain.                      *)
ASSUME ReportMarksTheChosen ==
  \A entries \in Entries :
    LET image == B!ImageOps(B!NotChosen, entries, FALSE, "")
        caps  == B!Capabilities(image, B!NotChosen, [image |-> entries, inference |-> <<>>])
        marked == {r.id : r \in {r \in ToSet(caps.rows) : r.selected}}
    IN  marked = IF Len(image.cached) = 1 THEN {image.cached[1]} ELSE {}

(* What cannot be loaded by the backend it is for is not tried on another, *)
(* and the two codes that mean nobody was tried are not those of a load.   *)
ASSUME NobodyGuesses ==
  \A backends \in {<<>>, <<"rknn">>, <<"onnxruntime">>, <<"onnxruntime", "rknn">>},
     suffix \in {"rknn", "onnx", "engine"}, code \in {"ok", "Internal", "HardwareFailure"} :
    LET load == [b \in {"rknn", "onnxruntime"} |-> [code |-> code, value |-> b]]
        got  == B!LoadModel(backends, [suffix |-> suffix], load)
    IN  /\ got.code = code <=> \E b \in ToSet(backends) : B!Handles(b, [suffix |-> suffix])
        /\ got.code = code => B!Handles(got.value, [suffix |-> suffix])

(* A context of the NPU is with its model or destroyed, never forgotten.   *)
Steps == {"init", "counts", "input attributes", "output attributes", "nothing"}
ASSUME NoContextIsForgotten ==
  \A fails \in Steps, inputs \in 0 .. 1, size \in 0 .. 1, whole \in BOOLEAN :
    LET out == B!RknnLoad([size |-> size, whole |-> whole], fails, [inputs |-> inputs])
    IN  /\ out.code = "ok" <=> out.context = "owned"
        /\ out.context = "none" => size = 0 \/ ~ whole \/ fails = "init"

(* What ONNX Runtime is fed is a rearrangement of the picture, each sample *)
(* in a place of its own; and a model that loads can be run on a picture   *)
(* of its size if it takes one picture of three channels.                  *)
Shapes == {<<n, a, b, c>> : n \in 1 .. 2, a, b, c \in {-1, 1, 2, 3}}
ASSUME FedWhole ==
  \A shape \in Shapes :
    LET size == B!OnnxSize(shape)
    IN  B!OnnxLoad(shape, FALSE).code = "ok" =>
          /\ {B!At(shape, x, y, c) : x \in 0 .. size.w - 1, y \in 0 .. size.h - 1, c \in 0 .. 2} =
               0 .. size.w * size.h * 3 - 1
          /\ B!OnnxRun([cpu |-> TRUE, size |-> size], shape).code = "ok" <=>
               shape[1] = 1 /\ (IF B!Nchw(shape) THEN shape[2] ELSE shape[4]) = 3
-----------------------------------------------------------------------------
(* Motion.                                                                 *)

Scene(size, At(_)) ==
  [format |-> "luma", cpu |-> TRUE, size |-> size,
   at |-> [p \in (0 .. size.w - 1) \X (0 .. size.h - 1) |-> At(p)]]
Scenes == {Scene([w |-> 2, h |-> 2], LAMBDA p : f[p]) : f \in [(0 .. 1) \X (0 .. 1) -> {0, 1, 2}]}
Enlarged(frame) ==
  Scene([w |-> 4, h |-> 4], LAMBDA p : frame.at[<<p[1] \div 2, p[2] \div 2>>])
Whole == [x |-> 0, y |-> 0, w |-> 0, h |-> 0]
Seen(grid, frame) == M!Analysed(M!Fresh(grid), frame, Whole).detector
Grids == [columns : 1 .. 5, rows : 1 .. 4]

(* Every sample belongs to one cell of the grid, however coarse or fine.   *)
ASSUME CellsShareTheSamples ==
  \A grid \in Grids : \A p \in M!Samples : M!CellOf(grid, p) \in M!Cells(grid)

(* What does not change does not move, nor does a camera that changes its  *)
(* resolution in the middle of the run; the order of two frames does not   *)
(* matter; and noise below the threshold is no movement.                   *)
ASSUME StillPicturesAreQuiet ==
  \A grid \in Grids, frame \in Scenes :
    /\ M!Analysed(M!Fresh(grid), frame, Whole).cells = {}
    /\ M!Analysed(Seen(grid, frame), frame, Whole).cells = {}
    /\ M!Analysed(Seen(grid, frame), Enlarged(frame), Whole).cells = {}
ASSUME MovementHasNoDirection ==
  \A grid \in [columns : {1, 2, 5}, rows : {1, 2}], a, b \in Scenes :
    LET moved == M!Analysed(Seen(grid, a), b, Whole).cells
    IN  /\ moved = M!Analysed(Seen(grid, b), a, Whole).cells
        /\ (\A p \in DOMAIN a.at : a.at[p] - b.at[p] \in -1 .. 1) => moved = {}

(* A zone that fires has a moved cell inside: the notice of a frame that   *)
(* triggers shows the operator where.  Movement elsewhere never fires, a   *)
(* higher level never fires more often, and a corner is one whichever way  *)
(* the operator dragged.                                                   *)
Corners == [row1 : -1 .. 1, col1 : 0 .. 2, row2 : 0 .. 2, col2 : 0 .. 2, level : {1, 5, 10}]
Zones   == {z \in Corners : z.row1 <= z.row2 /\ z.col1 <= z.col2}
Small   == [columns |-> 2, rows |-> 2]
ASSUME FiringShowsWhere ==
  \A zone, other \in Zones : \A moved \in SUBSET M!Cells(Small) :
    LET zones == <<zone, other>>
        fired == M!ZonesTriggered(moved, zones, Small)
        inside == M!Split(moved, zones).inside
    IN  /\ fired => inside # {}
        /\ fired = M!ZonesTriggered(inside, zones, Small)
        /\ fired => M!ZonesTriggered(moved, [i \in 1 .. 2 |-> [zones[i] EXCEPT !.level = 1]], Small)
        /\ ~ M!ZonesTriggered(moved, <<>>, Small)
Dragged(r1, c1, r2, c2) == <<<<"{">>, <<"r1", r1>>, <<"c1", c1>>, <<"r2", r2>>, <<"c2", c2>>, <<"}">>>>
ASSUME CornersInAnyOrder ==
  \A r1, c1, r2, c2 \in 0 .. 2 :
    LET zone == M!ParseZones(Dragged(r1, c1, r2, c2))
    IN  zone = M!ParseZones(Dragged(r2, c1, r1, c2)) /\ zone = M!ParseZones(Dragged(r1, c2, r2, c1))

(* "Anything it cannot read yields no zones" holds of a text without a     *)
(* whole object only: an object it does not understand is the corner cell  *)
(* at the most sensitive level.                                            *)
Tokens == {<<"{">>, <<"}">>, <<"r1", 1>>, <<"row", 1>>}
Texts  == UNION {[1 .. n -> Tokens] : n \in 0 .. 4}
ASSUME UnreadableIsTheCorner ==
  /\ \A text \in Texts : (M!ParseZones(text) = <<>>)
       = ~ \E i, j \in DOMAIN text : i < j /\ text[i] = <<"{">> /\ text[j] = <<"}">>
  /\ M!Zone(<<>>) = [row1 |-> 0, row2 |-> 0, col1 |-> 0, col2 |-> 0, level |-> 1]
  /\ \A text \in Texts : \A i \in DOMAIN M!ParseZones(text) :
       (\A k \in DOMAIN text : text[k] # <<"r1", 1>>) => M!ParseZones(text)[i] = M!Zone(<<>>)

(* One event for an operator: between two pictures that are taken along,   *)
(* nothing fired for at least the time motion is held; and the gate hears  *)
(* of firing frames alone.                                                 *)
Sink(hold) == [detector |-> M!Fresh(Small), zones |-> <<[row1 |-> 0, row2 |-> 1, col1 |-> 0, col2 |-> 1, level |-> 3]>>,
               grid |-> Small, last |-> 0, hold |-> hold, saves |-> TRUE, was |-> FALSE]
Blank == Scene([w |-> 2, h |-> 2], LAMBDA p : 0)
Ball  == Scene([w |-> 2, h |-> 2], LAMBDA p : IF p[1] = 0 THEN 9 ELSE 0)
ASSUME PicturesAreEventsApart ==
  \A hold \in 0 .. 3, shown \in [1 .. 6 -> {Blank, Ball}] :
    LET notices[n \in 1 .. 6] == M!Notice(IF n = 1 THEN Sink(hold) ELSE notices[n - 1].sink, shown[n], n)
    IN  \A m, n \in 1 .. 6 :
          m < n /\ notices[n].carries /\ notices[m].gate => n - m >= G!Greatest(hold, 1)

=============================================================================
