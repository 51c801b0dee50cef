------------------------------ MODULE Geometry ------------------------------
(***************************************************************************)
(* core/ImageMath and core/Image: how a frame is fitted into the input of  *)
(* a network, how a point is taken back, and where the planes of a picture *)
(* lie in its buffer.                                                      *)
(*                                                                         *)
(* The code's floating point is exact rational arithmetic here: a scaled   *)
(* coordinate is the numerator of a fraction whose denominator is known.   *)
(***************************************************************************)
EXTENDS Integers

Least(a, b)        == IF a <= b THEN a ELSE b
Greatest(a, b)     == IF a >= b THEN a ELSE b
Clamp(v, low, top) == Least(Greatest(v, low), top)
AlignDown2(n)      == n - (n % 2)

ValidSize(size) == size.w > 0 /\ size.h > 0
NoRect          == [x |-> 0, y |-> 0, w |-> 0, h |-> 0]
Right(rect)     == rect.x + rect.w
Bottom(rect)    == rect.y + rect.h

(* clamp(): what of a rectangle lies in the picture.                       *)
ClampRect(rect, size) ==
  LET left  == Greatest(0, rect.x)
      top   == Greatest(0, rect.y)
      w     == Least(size.w, Right(rect)) - left
      h     == Least(size.h, Bottom(rect)) - top
      empty == w <= 0 \/ h <= 0
  IN  [x |-> left, y |-> top, w |-> IF empty THEN 0 ELSE w, h |-> IF empty THEN 0 ELSE h]

(* fitContentRect(): where in dst the picture src goes.                    *)
FitContentRect(mode, src, dst) ==
  LET ByHeight == (src.w * dst.h) \div src.h
      ByWidth  == (src.h * dst.w) \div src.w
      wide     == dst.w * src.h <= dst.h * src.w    \* the width is what limits
      w == AlignDown2(Greatest(2, IF wide THEN dst.w ELSE ByHeight))
      h == AlignDown2(Greatest(2, IF wide THEN ByWidth ELSE dst.h))
  IN  IF ~ ValidSize(src) \/ ~ ValidSize(dst) THEN NoRect
      ELSE CASE mode = "Stretch" ->
                  [x |-> 0, y |-> 0, w |-> AlignDown2(dst.w), h |-> AlignDown2(dst.h)]
             [] mode = "FitHeight" ->
                  [x |-> 0, y |-> 0, h |-> AlignDown2(dst.h),
                   w |-> AlignDown2(Greatest(2, Least(dst.w, ByHeight)))]
             [] mode = "Letterbox" ->
                  [x |-> AlignDown2(Greatest(0, dst.w - w) \div 2),
                   y |-> AlignDown2(Greatest(0, dst.h - h) \div 2), w |-> w, h |-> h]

(* mapToSource(): the code's answer times Across (Down).                   *)
Across(content, dst) == IF content.w > 0 THEN content.w ELSE dst.w
Down(content, dst)   == IF content.h > 0 THEN content.h ELSE dst.h
MapX(content, src, dst, x) ==
  Clamp((x - content.x) * src.w, 0, src.w * Across(content, dst))
MapY(content, src, dst, y) ==
  Clamp((y - content.y) * src.h, 0, src.h * Down(content, dst))

MapRect(content, src, dst, box) ==
  LET l == MapX(content, src, dst, box.x)
      t == MapY(content, src, dst, box.y)
  IN  [x |-> l \div Across(content, dst), y |-> t \div Down(content, dst),
       w |-> (MapX(content, src, dst, Right(box)) - l) \div Across(content, dst),
       h |-> (MapY(content, src, dst, Bottom(box)) - t) \div Down(content, dst)]

(* expandToMin(): the crop grown about its centre and pushed back inside.  *)
Grown(at, len, side, frame) ==
  LET wide == Least(Greatest(len, side), frame)
      from == Greatest(0, at + len \div 2 - wide \div 2)
  IN  [at  |-> AlignDown2(Greatest(0, Least(from, frame - wide))),
       len |-> AlignDown2(wide)]
ExpandToMin(crop, frame, side) ==
  IF ~ ValidSize(frame) THEN NoRect
  ELSE LET x == Grown(crop.x, crop.w, side, frame.w)
           y == Grown(crop.y, crop.h, side, frame.h)
       IN  [x |-> x.at, y |-> y.at, w |-> x.len, h |-> y.len]

-----------------------------------------------------------------------------
(* Pictures.                                                               *)
PlaneCount(format) == CASE format = "NV12" -> 2
                        [] format \in {"RGB888", "BGR888", "GRAY8"} -> 1
                        [] OTHER -> 0
PackedStride(format, width, plane) ==
  IF width <= 0 \/ plane >= PlaneCount(format) THEN 0
  ELSE IF format \in {"RGB888", "BGR888"} THEN width * 3 ELSE width
PackedSize(format, size) ==
  CASE ~ ValidSize(size) \/ PlaneCount(format) = 0 -> 0
    [] format = "NV12" -> (size.w * size.h * 3) \div 2
    [] format \in {"RGB888", "BGR888"} -> size.w * size.h * 3
    [] OTHER -> size.w * size.h
PackedPlanes(format, size) ==
  [plane \in 0 .. PlaneCount(format) - 1 |->
     [stride |-> PackedStride(format, size.w, plane),
      offset |-> IF plane = 0 THEN 0 ELSE PackedStride(format, size.w, 0) * size.h]]

(* copyOf(): the bytes of the copy, each with the byte it is taken from; a *)
(* plane without a stride is taken to be packed.                           *)
Rows(format, size, plane) ==
  IF format = "NV12" /\ plane = 1 THEN size.h \div 2 ELSE size.h
CopyOf(format, size, planes) ==
  LET packed   == PackedPlanes(format, size)
      Stride(p) == IF planes[p].stride > 0 THEN planes[p].stride ELSE packed[p].stride
  IN  UNION {{[to   |-> packed[p].offset + row * packed[p].stride + i,
               from |-> planes[p].offset + row * Stride(p) + i] :
                row \in 0 .. Rows(format, size, p) - 1, i \in 0 .. packed[p].stride - 1} :
             p \in DOMAIN packed}
=============================================================================
