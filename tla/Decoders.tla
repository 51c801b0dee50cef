------------------------------ MODULE Decoders ------------------------------
(***************************************************************************)
(* vision/models: what the decoders make of the tensors a network returns. *)
(*                                                                         *)
(* A score is an integer, a quantised value its raw byte; a box is four    *)
(* integers.  The arithmetic of a single box (the softmax, the mask's      *)
(* weighted sum) is left out: a candidate's box is an input.               *)
(***************************************************************************)
EXTENDS Geometry, Sequences, FiniteSets, TLC
LOCAL INSTANCE SequencesExt
LOCAL INSTANCE FiniteSetsExt

(* Indices filter: an empty filter takes every class.                      *)
PassesClass(filter, class) == filter = {} \/ class \in filter

-----------------------------------------------------------------------------
(* YoloCommon.                                                             *)

(* A fraction n/d to the nearest integer, halves away from zero (lround).  *)
Lround(n, d) == IF n >= 0 THEN (2 * n + d) \div (2 * d) ELSE - ((d - 2 * n) \div (2 * d))

(* quantise(): value/scale + zero in a signed byte; the value and the      *)
(* scale are in the same unit.                                             *)
Quantise(value, quant)  ==
  IF quant.scale = 0 THEN 0 ELSE Clamp(Lround(value + quant.zero * quant.scale, quant.scale), -128, 127)
Dequantise(raw, quant)  == (raw - quant.zero) * quant.scale

Overlap(a, b) ==
  Greatest(0, Least(a.x2, b.x2) - Greatest(a.x1, b.x1)) *
  Greatest(0, Least(a.y2, b.y2) - Greatest(a.y1, b.y1))
Area(a) == (a.x2 - a.x1) * (a.y2 - a.y1)

(* intersectionOverUnion() > percent.                                      *)
Overlaps(a, b, percent) ==
  LET sum == Area(a) + Area(b) - Overlap(a, b)
  IN  Overlap(a, b) > 0 /\ sum > 0 /\ Overlap(a, b) * 100 > percent * sum

(* suppress(): best first, one that overlaps a kept one of its class goes. *)
Suppressed(candidates, percent) ==
  FoldLeft(LAMBDA kept, c :
             IF \E i \in DOMAIN kept : /\ kept[i].class = c.class
                                       /\ Overlaps(kept[i], c, percent)
             THEN kept ELSE Append(kept, c),
           <<>>, SortSeq(candidates, LAMBDA a, b : a.score > b.score))

(* The class a cell is given, -1 for none: the first of the largest score. *)
(* An int8 head starts from the threshold's own byte, a float one from 0   *)
(* and is compared with the threshold afterwards.                          *)
FirstLargest(scores, floor) ==
  LET over == {c \in DOMAIN scores : scores[c] > floor}
      best == {c \in over : \A d \in over : scores[d] <= scores[c]}
  IN  IF over = {} THEN -1 ELSE Min(best)
ClassOfInt8(raws, quant, confidence)   == FirstLargest(raws, Quantise(confidence, quant))
ClassOfFloat(scores, confidence) ==
  LET c == FirstLargest(scores, 0)
  IN  IF c = -1 \/ scores[c] < confidence THEN -1 ELSE c

(* collect(): the candidates of a scale, cell by cell.  A head is its rows *)
(* of scores, the boxes of its cells and whether it is quantised.          *)
Collect(head, context) ==
  LET ClassOf(cell) == IF head.int8 THEN ClassOfInt8(head.scores[cell], head.quant, context.confidence)
                       ELSE ClassOfFloat(head.scores[cell], context.confidence)
      Score(cell)   == IF head.int8 THEN Dequantise(head.scores[cell][ClassOf(cell)], head.quant)
                       ELSE head.scores[cell][ClassOf(cell)]
      kept == SelectSeq([n \in DOMAIN head.scores |-> n],
                        LAMBDA n : ClassOf(n) # -1 /\ PassesClass(context.filter, ClassOf(n)))
  IN  [n \in DOMAIN kept |-> head.boxes[kept[n]] @@ [class |-> ClassOf(kept[n]), score |-> Score(kept[n])]]

-----------------------------------------------------------------------------
(* Yolov8Detect.  A tensor is [dims, shape]; two successive outputs are a  *)
(* scale's box and score.                                                  *)
IsBox(tensor) == tensor.shape[2] % 4 = 0 /\ tensor.shape[2] >= 32
PairHeads(outputs) ==
  LET Pair(i) == [box   |-> IF IsBox(outputs[i]) THEN i ELSE i + 1,
                  score |-> IF IsBox(outputs[i]) THEN i + 1 ELSE i]
  IN  {Pair(i) : i \in {n \in 1 .. Len(outputs) - 1 :
                          /\ n % 2 = 1
                          /\ Len(outputs[n].shape) >= 4
                          /\ Len(outputs[n + 1].shape) >= 4}}

(* The boxes, back in the frame the operator is looking at.                *)
ToDetections(kept, context) ==
  [i \in DOMAIN kept |->
     [x1 |-> MapX(context.content, context.source, context.input, kept[i].x1),
      y1 |-> MapY(context.content, context.source, context.input, kept[i].y1),
      x2 |-> MapX(context.content, context.source, context.input, kept[i].x2),
      y2 |-> MapY(context.content, context.source, context.input, kept[i].y2),
      score |-> kept[i].score, class |-> kept[i].class]]

Detections(outputs, candidates, context) ==
  IF PairHeads(outputs) = {} THEN "InvalidArgument"
  ELSE ToDetections(Suppressed(candidates, context.nms), context)

(* Yolov8Seg: three scales of three or four tensors and the proto.         *)
SegBranches(count) ==
  IF count < 10 \/ (count - 1) % 3 # 0 THEN {}
  ELSE LET per == (count - 1) \div 3
       IN  {[box |-> s * per + 1, score |-> s * per + 2, coefficients |-> s * per + per] :
              s \in 0 .. 2}

(* paint(): the cells of the grid whose sample belongs to the object, none *)
(* when the box lies outside the input or no sample does.                  *)
MaskGrid == 32
SampleAt(from, to, g, model, proto) ==
  Clamp(((2 * MaskGrid * from + (to - from) * (2 * g + 1)) * proto) \div (2 * MaskGrid * model),
        0, proto - 1)
Mask(box, input, proto, inside) ==
  LET x1 == Clamp(box.x1, 0, input.w)   x2 == Clamp(box.x2, 0, input.w)
      y1 == Clamp(box.y1, 0, input.h)   y2 == Clamp(box.y2, 0, input.h)
      Cell(gx, gy) == <<SampleAt(x1, x2, gx, input.w, proto.w),
                        SampleAt(y1, y2, gy, input.h, proto.h)>>
  IN  IF x2 <= x1 \/ y2 <= y1 THEN {}
      ELSE {gy * MaskGrid + gx : <<gx, gy>> \in
              {g \in (0 .. MaskGrid - 1) \X (0 .. MaskGrid - 1) : Cell(g[1], g[2]) \in inside}}

(* Yolov8Pose.  An output of 65 channels is a branch, and its anchors come *)
(* after those of the branches before it.  The joints are read by anchor   *)
(* number, so an unaccounted anchor spoils every one after it.             *)
Keypoints(outputs) ==
  LET byShape == {i \in DOMAIN outputs :
                    Len(outputs[i].shape) = 4 /\ outputs[i].shape[3] = 3}
  IN  IF byShape # {} THEN Min(byShape) ELSE Len(outputs)
IsBranch(outputs, i) ==
  /\ i # Keypoints(outputs)
  /\ Len(outputs[i].shape) = 4
  /\ outputs[i].shape[2] >= 5 /\ (outputs[i].shape[2] - 1) % 4 = 0
  /\ outputs[i].shape[3] * outputs[i].shape[4] > 0
Cells(outputs, i) == IF IsBranch(outputs, i) THEN outputs[i].shape[3] * outputs[i].shape[4] ELSE 0
AnchorBase(outputs, i) == FoldLeft(LAMBDA sum, n : sum + Cells(outputs, n), 0,
                                   [n \in 1 .. i - 1 |-> n])
PoseAccepted(outputs) ==
  /\ outputs # <<>>
  /\ LET joints == outputs[Keypoints(outputs)]
     IN  /\ Len(joints.shape) = 4 /\ joints.shape[2] > 0 /\ joints.shape[4] > 0
         /\ \E i \in DOMAIN outputs : IsBranch(outputs, i)
         /\ AnchorBase(outputs, Len(outputs) + 1) = joints.shape[4]

(* The gate of an int8 pose head: one step under the threshold's own byte, *)
(* in the byte the build makes of it.  logit is the threshold's, in the    *)
(* unit of the scale; 128 stands for a head that cannot reach it.          *)
InByte(n) == ((n + 128) % 256) - 128
Gate(logit, quant) ==
  LET q == logit + quant.zero * quant.scale    \* in units of the scale
  IN  IF q > 127 * quant.scale THEN 128
      ELSE IF q > -128 * quant.scale THEN InByte((q \div quant.scale) - 1) ELSE -128
PosePasses(raw, logit, quant) == raw >= Gate(logit, quant) /\ Dequantise(raw, quant) >= logit
Joint(joints, anchorCount, j, part, anchor) == j * 3 * anchorCount + part * anchorCount + anchor

-----------------------------------------------------------------------------
(* PpOcrDetect.  A map is the set of its text pixels <<x, y>>; a blob is a *)
(* box, its area and the sum of its probabilities.                         *)
Near(p, q)   == p[1] - q[1] \in -1 .. 1 /\ p[2] - q[2] \in -1 .. 1
Walk(text, from) ==
  FoldLeft(LAMBDA reach, n : {q \in text : \E p \in reach : Near(p, q)},
           {from}, [n \in 1 .. Cardinality(text) |-> n])
BlobOf(pixels, p) ==
  [left  |-> Min({q[1] : q \in pixels}), right  |-> Max({q[1] : q \in pixels}),
   top   |-> Min({q[2] : q \in pixels}), bottom |-> Max({q[2] : q \in pixels}),
   area  |-> Cardinality(pixels), sum |-> MapThenSumSet(LAMBDA q : p[q], pixels)]
(* Raster order, skipping what an earlier walk has seen.                   *)
CollectBlobs(p, width, height, minArea) ==
  LET text == {q \in DOMAIN p : p[q] >= 30}
      Scan == FoldLeft(LAMBDA got, i :
                LET q == <<i % width, i \div width>>
                    walk == Walk(text, q)
                IN  IF q \notin text \/ q \in got.seen THEN got
                    ELSE [seen  |-> got.seen \cup walk,
                          blobs |-> IF Cardinality(walk) < minArea THEN got.blobs
                                    ELSE Append(got.blobs, BlobOf(walk, p))],
                [seen |-> {}, blobs |-> <<>>], [i \in 1 .. width * height |-> i - 1])
  IN  Scan.blobs

Height(b) == b.bottom - b.top + 1
Width(b)  == b.right - b.left + 1
SameLine(a, b) ==
  LET shorter == Least(Height(a), Height(b))
      taller  == Greatest(Height(a), Height(b))
  IN  /\ shorter * 2 >= taller
      /\ Least(a.bottom, b.bottom) - Greatest(a.top, b.top) + 1 > shorter \div 2
      /\ Greatest(a.left, b.left) - Least(a.right, b.right) - 1 <= (6 * taller) \div 10
Joined(a, b) ==
  [left |-> Least(a.left, b.left), right  |-> Greatest(a.right, b.right),
   top  |-> Least(a.top, b.top),   bottom |-> Greatest(a.bottom, b.bottom),
   area |-> a.area + b.area, sum |-> a.sum + b.sum]

(* One round of mergeIntoLines(): each blob in turn takes in those after   *)
(* it that belong to it as it grows.  Rounds go on until one changes       *)
(* nothing; each takes a blob away at least.                               *)
Round(blobs) ==
  FoldLeft(LAMBDA list, i :
             IF i > Len(list) THEN list
             ELSE LET tail == FoldLeft(LAMBDA got, b :
                                IF SameLine(got[1], b) THEN <<Joined(got[1], b), got[2]>>
                                ELSE <<got[1], Append(got[2], b)>>,
                              <<list[i], <<>>>>, SubSeq(list, i + 1, Len(list)))
                  IN  SubSeq(list, 1, i - 1) \o <<tail[1]>> \o tail[2],
           blobs, [i \in 1 .. Len(blobs) |-> i])
MergeIntoLines(blobs) == FoldLeft(LAMBDA list, i : Round(list), blobs, blobs)

(* decode(): the strongest lines, grown back by area * 1.6 / perimeter.    *)
MaxBoxes == 64
TextBoxes(blobs, confidence) ==
  LET Stronger(a, b) == a.sum * b.area > b.sum * a.area
      Fits(b) == /\ b.sum >= confidence * b.area
                 /\ Width(b) >= 3 /\ Height(b) >= 3
      Grow(b) == (16 * Width(b) * Height(b)) \div (20 * (Width(b) + Height(b)))
      boxes == SelectSeq(SortSeq(MergeIntoLines(blobs), Stronger), Fits)
  IN  [i \in 1 .. Least(MaxBoxes, Len(boxes)) |->
         [x1 |-> boxes[i].left - Grow(boxes[i]), x2 |-> boxes[i].right + Grow(boxes[i]) + 1,
          y1 |-> boxes[i].top - Grow(boxes[i]),  y2 |-> boxes[i].bottom + Grow(boxes[i]) + 1]]

-----------------------------------------------------------------------------
(* PpOcrRecognise: class 0 is the blank, a repeat is the character before; *)
(* what the step before was is noted whether or not it was confident.      *)
MaxCharacters == 64
Characters(steps, confidence, filter) ==
  LET Best(s) == FirstLargest(s, Min({s[c] : c \in DOMAIN s}) - 1)
      Read == FoldLeft(LAMBDA got, s :
                LET best == Best(s)
                IN  IF Len(got.out) >= MaxCharacters THEN got
                    ELSE [previous |-> best,
                          out |-> IF \/ best \in {0, got.previous}
                                     \/ s[best] < confidence
                                     \/ ~ PassesClass(filter, best - 1)
                                  THEN got.out ELSE Append(got.out, best - 1)],
                [previous |-> -1, out |-> <<>>], steps)
  IN  Read.out

(* dictionaryFor(): the file beside the model, else the zoo's; a space is  *)
(* added to what was read, and the answer is kept for the model's path.    *)
Dictionary(cache, model, sidecar, zoo) ==
  LET read == IF sidecar # <<>> THEN sidecar ELSE zoo
  IN  IF model \in DOMAIN cache THEN cache
      ELSE (model :> IF read = <<>> THEN <<>> ELSE Append(read, "space")) @@ cache
TextOf(dictionary, class) == IF class < Len(dictionary) THEN dictionary[class + 1] ELSE ""

(* FaceEmbedding: as much of the vector as a result may carry.             *)
MaxDimensions == 4096
Embedding(elements) == Least(elements, MaxDimensions)
=============================================================================
