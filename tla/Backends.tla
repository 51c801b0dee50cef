------------------------------ MODULE Backends ------------------------------
(***************************************************************************)
(* core/Registry and what is chosen through it: the image operations, the  *)
(* inference backends and the models they load (RknnBackend,               *)
(* OnnxRuntimeBackend), the capability report.                             *)
(*                                                                         *)
(* An entry is [id, priority, available]; what a vendor's library answers  *)
(* is an input.  An answer is "ok", with a value, or an error code.        *)
(***************************************************************************)
EXTENDS Geometry, Sequences, FiniteSets
LOCAL INSTANCE SequencesExt

Ok(value)    == [code |-> "ok", value |-> value]
Failed(code) == [code |-> code, value |-> "none"]

-----------------------------------------------------------------------------
(* The registry.  Entries are kept as they were registered; a stable sort  *)
(* puts the preferred first.                                               *)
Add(entries, entry) == Append(entries, entry)
Ordered(entries) ==
  LET Before(i, j) == \/ entries[i].priority > entries[j].priority
                      \/ entries[i].priority = entries[j].priority /\ i < j
  IN  [n \in DOMAIN entries |->
         entries[CHOOSE i \in DOMAIN entries :
                   Cardinality({j \in DOMAIN entries : Before(j, i)}) = n - 1]]
Available(entries) == SelectSeq(Ordered(entries), LAMBDA e : e.available)

Status(entries, selected) ==
  LET rows == Ordered(entries)
  IN  [n \in DOMAIN rows |-> [id |-> rows[n].id, available |-> rows[n].available,
                              selected |-> rows[n].id = selected]]
Select(entries, forced) ==
  LET named == SelectSeq(Ordered(entries), LAMBDA e : e.id = forced)
  IN  IF forced # ""
      THEN IF named = <<>> THEN Failed("NotFound")
           ELSE IF ~ named[1].available THEN Failed("Unsupported") ELSE Ok(named[1].id)
      ELSE IF Available(entries) = <<>> THEN Failed("NotFound") ELSE Ok(Available(entries)[1].id)
SelectAll(entries) == [n \in DOMAIN Available(entries) |-> Available(entries)[n].id]

-----------------------------------------------------------------------------
(* What was chosen is kept, and so is the failure to choose.  A variable   *)
(* that is set, even to nothing, asks for that backend and no chain.       *)
NotChosen == [cached |-> <<>>, failure |-> "none"]
Answer(kept) == IF kept.cached # <<>> THEN Ok(kept.cached) ELSE Failed("NotFound")
Settled(kept) == kept.cached # <<>> \/ kept.failure # "none"

ImageOps(kept, entries, isForced, forced) ==
  IF Settled(kept) THEN kept
  ELSE IF isForced
       THEN LET one == Select(entries, forced)
            IN  IF one.code = "ok" THEN [kept EXCEPT !.cached = <<one.value>>]
                ELSE [kept EXCEPT !.failure = one.code]
       ELSE IF SelectAll(entries) = <<>> THEN [kept EXCEPT !.failure = "NotFound"]
            ELSE [kept EXCEPT !.cached = SelectAll(entries)]
Inference(kept, entries, forced) ==
  LET one == Select(entries, forced)
  IN  IF Settled(kept) THEN kept
      ELSE IF one.code = "ok" THEN [kept EXCEPT !.cached = <<one.value>>]
      ELSE [kept EXCEPT !.failure = one.code]
AvailableInference(built, entries) == IF built # <<>> THEN built ELSE <<SelectAll(entries)>>

(* detectCapabilities(): AI is enabled when an inference was chosen.  A    *)
(* chain has a name of its own, which is the id of no entry.               *)
Name(kept) == IF Len(kept.cached) = 1 THEN kept.cached[1] ELSE IF kept.cached = <<>> THEN "" ELSE "chain"
Capabilities(image, inference, entries) ==
  [imageOps |-> Name(image), inference |-> Name(inference), ai |-> Name(inference) # "",
   rows |-> Status(entries.image, Name(image)) \o Status(entries.inference, Name(inference))]

-----------------------------------------------------------------------------
(* loadModel(): the first backend that claims the artefact has the last    *)
(* word about it; load holds what each would answer.                       *)
Handles(backend, path) ==
  CASE backend = "rknn" -> path.suffix = "rknn" [] backend = "onnxruntime" -> path.suffix = "onnx"
Claimants(backends, path) == SelectSeq(backends, LAMBDA b : Handles(b, path))
LoadModel(backends, path, load) ==
  IF backends = <<>> THEN Failed("NotFound")
  ELSE IF Claimants(backends, path) = <<>> THEN Failed("Unsupported")
  ELSE load[Claimants(backends, path)[1]]

(* RknnBackend::load().  A context that was made is destroyed on every way *)
(* out but the one that hands it to a model.                               *)
ReadFile(file) == IF file.size = 0 \/ ~ file.whole THEN Failed("NotFound") ELSE Ok(file)
RknnLoad(file, fails, model) ==
  LET Out(code, context) == [code |-> code, context |-> context]
  IN  IF ReadFile(file).code # "ok" THEN Out("NotFound", "none")
      ELSE IF fails = "init" THEN Out("HardwareFailure", "none")
      ELSE IF fails = "counts" THEN Out("HardwareFailure", "destroyed")
      ELSE IF model.inputs < 1 THEN Out("InvalidArgument", "destroyed")
      ELSE IF fails \in {"input attributes", "output attributes"} THEN Out("HardwareFailure", "destroyed")
      ELSE Out("ok", "owned")
InputSize(model) ==
  IF model.layout = "NCHW" THEN [w |-> model.dims[4], h |-> model.dims[3]]
  ELSE [w |-> model.dims[3], h |-> model.dims[2]]
Quantised(model) == model.outputs # <<>> /\ model.outputs[1] = "int8"

(* run(), one inference at a time.  The tensors are copied before the      *)
(* driver's are released; only a quantised model's carry a scale.          *)
RknnRun(input, model, fails) ==
  IF ~ input.cpu THEN Failed("Unsupported")
  ELSE IF input.size # InputSize(model) THEN Failed("InvalidArgument")
  ELSE IF fails \in {"set", "run", "get"} THEN Failed("HardwareFailure")
  ELSE Ok([n \in DOMAIN model.outputs |->
             [type |-> IF Quantised(model) THEN model.outputs[n] ELSE "float",
              scaled |-> Quantised(model) /\ model.affine[n]]])

(* OnnxRuntimeBackend: the providers of the build, best first; one that    *)
(* cannot be appended is passed over.                                      *)
ProviderOrder == <<"TensorRT", "CUDA", "OpenVINO", "ROCM", "CoreML", "Dml">>
Providers(build) == SelectSeq(ProviderOrder, LAMBDA p : p \in build)
Appended(build, broken) == SelectSeq(Providers(build), LAMBDA p : p \notin broken)

(* load(): the layout is read off the shape, a dynamic dimension is -1.    *)
Nchw(shape) == shape[2] \in {1, 3}
OnnxSize(shape) == IF Nchw(shape) THEN [w |-> shape[4], h |-> shape[3]] ELSE [w |-> shape[3], h |-> shape[2]]
OnnxLoad(shape, throws) ==
  IF throws THEN Failed("Internal")
  ELSE IF Len(shape) # 4 \/ ~ ValidSize(OnnxSize(shape)) THEN Failed("InvalidArgument")
  ELSE Ok(OnnxSize(shape))

(* run(): three channels whatever the model has, and where each goes.      *)
FedShape(shape) == LET s == OnnxSize(shape) IN IF Nchw(shape) THEN <<1, 3, s.h, s.w>> ELSE <<1, s.h, s.w, 3>>
At(shape, x, y, c) ==
  LET s == OnnxSize(shape)
  IN  IF Nchw(shape) THEN c * s.w * s.h + y * s.w + x ELSE (y * s.w + x) * 3 + c
OnnxRun(input, shape) ==
  IF ~ input.cpu \/ input.size # OnnxSize(shape) THEN Failed("InvalidArgument")
  ELSE IF FedShape(shape) # shape THEN Failed("Internal")    \* the session throws
  ELSE Ok("float")
=============================================================================
