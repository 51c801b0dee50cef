------------------------------- MODULE Imaging -------------------------------
(***************************************************************************)
(* hal/ImageOps and its two backends: the 2D engine of a Rockchip board    *)
(* (RgaImageOps, with the dma-heap buffer it needs) and OpenCV             *)
(* (CpuImageOps), behind the chain that asks one after the other.          *)
(*                                                                         *)
(* A view is [format, size, stride, uv, cpu, handle]: the strides of its   *)
(* planes in bytes (0 for packed), where its chroma begins (0: after the   *)
(* luma), whether it is mapped and whether an engine has imported it.      *)
(* Pixels are left out; an operation is the answer and the job handed to   *)
(* the hardware.                                                           *)
(***************************************************************************)
EXTENDS Geometry, Sequences, FiniteSets

Valid(view) == PlaneCount(view.format) > 0 /\ ValidSize(view.size)
Ok(content) == [code |-> "ok", content |-> content]
Failed(code) == [code |-> code, content |-> NoRect]
Whole(view) == [x |-> 0, y |-> 0, w |-> view.size.w, h |-> view.size.h]
NoJob == [src |-> "none", dst |-> "none", from |-> NoRect, to |-> NoRect]

AlignUp2(n)       == AlignDown2(n + 1)
AlignUp(n, to)    == ((n + to - 1) \div to) * to
EvenRect(rect)    == [x |-> AlignDown2(rect.x), y |-> AlignDown2(rect.y),
                      w |-> AlignDown2(rect.w), h |-> AlignDown2(rect.h)]
SizeOf(rect)      == [w |-> rect.w, h |-> rect.h]
EmptyRect(rect)   == rect.w <= 0 \/ rect.h <= 0

-----------------------------------------------------------------------------
(* RGA.  A view's strides in pixels, and its height as the distance from   *)
(* the luma to the chroma.                                                 *)
RgaFormats == {"NV12", "RGB888", "BGR888"}
PixelStride(view) ==
  IF view.stride <= 0 THEN view.size.w
  ELSE IF view.format \in {"RGB888", "BGR888"} THEN view.stride \div 3 ELSE view.stride
HStride(view) ==
  IF view.format = "NV12" /\ view.uv > 0 THEN view.uv \div PixelStride(view) ELSE view.size.h

MinSourceExtent == 128
RgbStrideAlign  == 16
(* Wider than 15.5 to 1, either way.                                       *)
TooSteep(a, b) == 2 * Greatest(a, b) > 31 * Least(a, b)

Mode(view) == IF view.handle THEN "Handle" ELSE "VirtualAddress"

(* scaleInto(): declined, or done as one job.  The scratch it may go       *)
(* through is of the source's mode, a dma-heap one for an imported source: *)
(* a job of two modes wedges the driver.                                   *)
ScaleInto(src, from, dst, to) ==
  LET direct  == /\ ~ src.handle /\ to = Whole(dst)
                 /\ dst.format = "NV12" \/ PixelStride(dst) % RgbStrideAlign = 0
  IN  IF \/ src.format \notin RgaFormats \/ dst.format \notin RgaFormats
         \/ ~ dst.cpu \/ ~ (src.handle \/ src.cpu)
         \/ from.w < MinSourceExtent \/ from.h < MinSourceExtent
         \/ TooSteep(from.w, to.w) \/ TooSteep(from.h, to.h)
      THEN NoJob
      ELSE [src |-> Mode(src), from |-> from,
            dst |-> IF src.handle THEN "Handle" ELSE "VirtualAddress",
            to  |-> IF direct THEN to ELSE [to EXCEPT !.x = 0, !.y = 0]]

(* The scratch: packed for NV12, 16 pixels aligned for the RGB formats.    *)
ScratchStride(format, w) == IF format = "NV12" THEN w ELSE AlignUp(w, RgbStrideAlign)
ScratchBytes(format, size) ==
  IF format = "NV12" THEN (ScratchStride(format, size.w) * size.h * 3) \div 2
  ELSE ScratchStride(format, size.w) * size.h * 3

(* copyOut(): the bytes of the destination that are written, by plane.     *)
ByteStride(view) == IF view.stride > 0 THEN view.stride
                    ELSE PackedStride(view.format, view.size.w, 0)
Chroma(view) == IF view.uv > 0 THEN view.uv ELSE ByteStride(view) * view.size.h
CopyOut(to, dst) ==
  LET Span(base, x, bytes, y, rows) ==
        {base + (y + r) * ByteStride(dst) + x + b : r \in 0 .. rows - 1, b \in 0 .. bytes - 1}
  IN  IF dst.format = "NV12"
      THEN Span(0, to.x, to.w, to.y, to.h)
             \cup Span(Chroma(dst), to.x, to.w, to.y \div 2, to.h \div 2)
      ELSE Span(0, to.x * 3, to.w * 3, to.y, to.h)

(* The bars around the picture: the buffer is painted before it is drawn   *)
(* into, luma with the padding's value and chroma with a neutral grey.     *)
Painted(view) ==
  LET bytes == PackedSize(view.format, view.size)
      luma  == IF view.format = "NV12" THEN Chroma(view) ELSE bytes
  IN  [value |-> 0 .. luma - 1, neutral |-> luma .. bytes - 1]

(* runBlit(): improcess() may fail, and so may the heap under an imported source.     *)
Blitted(job, content, works) ==
  IF job = NoJob THEN Failed("Unsupported")
  ELSE IF job.src # job.dst \/ ~ works THEN Failed("HardwareFailure")
  ELSE Ok(content)

RgaCropRect(roi, size) ==
  LET x == Greatest(0, AlignDown2(roi.x))  y == Greatest(0, AlignDown2(roi.y))
      cut == ClampRect([x |-> x, y |-> y, w |-> AlignUp2(Least(roi.w, size.w - x)),
                     h |-> AlignUp2(Least(roi.h, size.h - y))], size)
  IN  [cut EXCEPT !.w = AlignDown2(@), !.h = AlignDown2(@)]
RgaFit(src, dst, mode, works) ==
  LET content == FitContentRect(mode, src.size, dst.size)
  IN  IF ~ Valid(src) \/ ~ Valid(dst) \/ EmptyRect(content) THEN Failed("InvalidArgument")
      ELSE Blitted(ScaleInto(src, Whole(src), dst, content), content, works)
RgaCrop(src, roi, dst, works) ==
  LET even == RgaCropRect(roi, src.size)
  IN  IF ~ Valid(src) \/ ~ Valid(dst) \/ EmptyRect(even) THEN Failed("InvalidArgument")
      ELSE Blitted(ScaleInto(src, even, dst, Whole(dst)), Whole(dst), works)
Import(view, dmabuf, works) ==
  IF ~ dmabuf \/ view.format \notin RgaFormats THEN "Unsupported"
  ELSE IF works THEN "handle" ELSE "HardwareFailure"

(* DmaHeapBuffer: [shape, fd, ptr, handle].  ensure() keeps a buffer that  *)
(* fits, else replaces it; got says which of the allocation, the mapping   *)
(* and the import succeed.                                                 *)
NoBuffer == [shape |-> <<>>, fd |-> FALSE, ptr |-> FALSE, handle |-> FALSE]
Ensure(buffer, shape, got) ==
  IF buffer.ptr /\ buffer.handle /\ buffer.shape = shape THEN buffer
  ELSE IF got = {"fd", "ptr", "handle"}
       THEN [shape |-> shape, fd |-> TRUE, ptr |-> TRUE, handle |-> TRUE]
       ELSE NoBuffer

-----------------------------------------------------------------------------
(* OpenCV, which reads every format through BGR.                           *)
CpuReads(src, roi) ==
  CASE ~ src.cpu -> "Unsupported"
    [] src.format = "NV12" ->
         IF EmptyRect(EvenRect(ClampRect(EvenRect(roi), src.size))) THEN "InvalidArgument" ELSE "ok"
    [] src.format \in {"RGB888", "BGR888", "GRAY8"} ->
         IF EmptyRect(ClampRect(roi, src.size)) THEN "InvalidArgument" ELSE "ok"
    [] OTHER -> "Unsupported"
CpuWrites(dst, where) ==
  CASE ~ dst.cpu -> "Unsupported"
    [] dst.format = "NV12" -> IF where # EvenRect(where) THEN "InvalidArgument" ELSE "ok"
    [] dst.format \in {"RGB888", "BGR888", "GRAY8"} -> "ok"
    [] OTHER -> "Unsupported"
Drawn(src, from, dst, to) ==
  IF CpuReads(src, from) # "ok" THEN Failed(CpuReads(src, from))
  ELSE IF CpuWrites(dst, to) # "ok" THEN Failed(CpuWrites(dst, to)) ELSE Ok(to)

CpuFit(src, dst, mode) ==
  LET content == FitContentRect(mode, src.size, dst.size)
  IN  IF ~ Valid(src) \/ ~ Valid(dst) \/ EmptyRect(content) THEN Failed("InvalidArgument")
      ELSE Drawn(src, Whole(src), dst, content)
CpuCrop(src, roi, dst) ==
  IF ~ Valid(src) \/ ~ Valid(dst) THEN Failed("InvalidArgument")
  ELSE Drawn(src, roi, dst, Whole(dst))

-----------------------------------------------------------------------------
(* The chain: what a backend cannot do, the next one is asked; what the    *)
(* caller got wrong comes back as it is.                                   *)
FallsThrough(answer) == answer.code \in {"Unsupported", "HardwareFailure"}
RECURSIVE Chain(_)
Chain(answers) ==
  IF answers = <<>> THEN Failed("NotFound")
  ELSE IF FallsThrough(Head(answers)) /\ Len(answers) > 1 THEN Chain(Tail(answers))
  ELSE Head(answers)

Fit(src, dst, mode, works)  == Chain(<<RgaFit(src, dst, mode, works), CpuFit(src, dst, mode)>>)
CropTo(src, roi, dst, works) == Chain(<<RgaCrop(src, roi, dst, works), CpuCrop(src, roi, dst)>>)
=============================================================================
