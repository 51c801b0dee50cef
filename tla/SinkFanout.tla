----------------------------- MODULE SinkFanout -----------------------------
(***************************************************************************)
(* media/source/SinkFanout: the consumers of one live source and the GOP   *)
(* cache that starts a new one at once.                                    *)
(*                                                                         *)
(* The source's one streaming thread calls deliver(): the cache and the    *)
(* list of targets are settled under the lock, the sinks are called after  *)
(* it is released, one at a time, while other threads add and remove       *)
(* consumers.  Frames are numbered in the order the source sends them.     *)
(***************************************************************************)
EXTENDS Integers, Sequences

CONSTANTS Consumers,  (* consumers, each added at most once                  *)
          CacheOn,    (* GopCacheLimits.enabled                              *)
          MaxFrames,  (* GopCacheLimits.maxFrames                            *)
          MaxBytes,   (* GopCacheLimits.maxBytes                             *)
          Sizes,      (* sizes a frame may have                              *)
          MaxStream   (* frames sent                                         *)

ASSUME FanoutAssumption ==
  /\ CacheOn \in BOOLEAN
  /\ MaxFrames \in Nat /\ MaxBytes \in Nat /\ MaxStream \in Nat /\ Sizes \subseteq Nat

VARIABLES stream,     (* history: every frame delivered so far               *)
          gop,        (* m_gop, by frame number                              *)
          gopBytes,   (* m_gopBytes                                          *)
          overflowed, (* m_gopOverflowed                                     *)
          state,      (* absent, waiting (for a keyframe), live or removed   *)
          targets,    (* consumers deliver() has yet to call                 *)
          heard       (* history: frames each consumer was handed, in order  *)

vars == <<stream, gop, gopBytes, overflowed, state, targets, heard>>

Frame == [key : BOOLEAN, size : Sizes]
Now == Len(stream)

Init ==
  /\ stream = <<>> /\ gop = <<>> /\ gopBytes = 0 /\ overflowed = FALSE
  /\ state = [c \in Consumers |-> "absent"] /\ targets = {}
  /\ heard = [c \in Consumers |-> <<>>]

-----------------------------------------------------------------------------
(* add(): a primed consumer is handed the cache under the lock.            *)
CanPrimeUnlocked(primes) == primes /\ CacheOn  \* mutant: an empty cache primes too
CanPrime(primes) == primes /\ CacheOn /\ gop # <<>>

Add(c) ==
  /\ state[c] = "absent"
  /\ \E primes \in BOOLEAN :
       IF CanPrime(primes)
       THEN /\ state' = [state EXCEPT ![c] = "live"]
            /\ heard' = [heard EXCEPT ![c] = gop]
       ELSE /\ state' = [state EXCEPT ![c] = "waiting"]
            /\ UNCHANGED heard
  /\ UNCHANGED <<stream, gop, gopBytes, overflowed, targets>>

Remove(c) ==
  /\ state[c] \in {"waiting", "live"}
  /\ state' = [state EXCEPT ![c] = "removed"]
  /\ UNCHANGED <<stream, gop, gopBytes, overflowed, targets, heard>>

(* deliver(), under the lock.                                              *)
Fits(frame, frames, bytes) ==
  Len(frames) + 1 <= MaxFrames /\ bytes + frame.size <= MaxBytes

CacheSkips(frame, n) ==  \* mutant: a frame that does not fit is left out
  LET old   == IF frame.key THEN <<>> ELSE gop
      bytes == IF frame.key THEN 0 ELSE gopBytes
  IN  IF CacheOn /\ Fits(frame, old, bytes)
      THEN [gop |-> Append(old, n), bytes |-> bytes + frame.size, full |-> FALSE]
      ELSE [gop |-> old, bytes |-> bytes, full |-> FALSE]

CacheKeepsBytes(frame, n) ==  \* mutant: a keyframe does not reset m_gopBytes
  LET old  == IF frame.key THEN <<>> ELSE gop
      full == ~ frame.key /\ overflowed
  IN  IF ~ CacheOn \/ full THEN [gop |-> old, bytes |-> gopBytes, full |-> full]
      ELSE IF Fits(frame, old, gopBytes)
      THEN [gop |-> Append(old, n), bytes |-> gopBytes + frame.size, full |-> FALSE]
      ELSE [gop |-> <<>>, bytes |-> 0, full |-> TRUE]


(* A keyframe starts the cache anew; a frame that does not fit drops it    *)
(* until the next keyframe.                                                *)
Cached(frame, n) ==
  LET old   == IF frame.key THEN <<>> ELSE gop
      bytes == IF frame.key THEN 0 ELSE gopBytes
      full  == ~ frame.key /\ overflowed
  IN  IF ~ CacheOn THEN [gop |-> gop, bytes |-> gopBytes, full |-> overflowed]
      ELSE IF full THEN [gop |-> old, bytes |-> bytes, full |-> TRUE]
      ELSE IF Fits(frame, old, bytes)
      THEN [gop |-> Append(old, n), bytes |-> bytes + frame.size, full |-> FALSE]
      ELSE [gop |-> <<>>, bytes |-> 0, full |-> TRUE]

Ready(frame) == {c \in Consumers : \/ state[c] = "live"
                                   \/ state[c] = "waiting" /\ frame.key}

Deliver ==
  /\ targets = {} /\ Now < MaxStream
  /\ \E frame \in Frame :
       /\ stream' = Append(stream, frame)
       /\ LET cache == Cached(frame, Now + 1)
          IN  gop' = cache.gop /\ gopBytes' = cache.bytes /\ overflowed' = cache.full
       /\ targets' = Ready(frame)
       /\ state' = [c \in Consumers |-> IF c \in Ready(frame) THEN "live" ELSE state[c]]
  /\ UNCHANGED heard

(* The rest of deliver(): a copied sink is called whether or not its       *)
(* consumer is still there.                                                *)
CallSink(c) ==
  /\ c \in targets
  /\ targets' = targets \ {c}
  /\ heard' = [heard EXCEPT ![c] = Append(@, Now)]
  /\ UNCHANGED <<stream, gop, gopBytes, overflowed, state>>

(* clear() by the destructor, after the last frame.                        *)
Clear ==
  /\ targets = {} /\ Now = MaxStream
  /\ gop' = <<>> /\ gopBytes' = 0 /\ overflowed' = FALSE
  /\ state' = [c \in Consumers |-> "removed"]
  /\ UNCHANGED <<stream, targets, heard>>

Next == Deliver \/ Clear \/ \E c \in Consumers : Add(c) \/ Remove(c) \/ CallSink(c)

Spec == Init /\ [][Next]_vars

-----------------------------------------------------------------------------
TypeOK ==
  /\ stream \in Seq(Frame) /\ gop \in Seq(Nat) /\ gopBytes \in Nat
  /\ overflowed \in BOOLEAN /\ targets \subseteq Consumers
  /\ state \in [Consumers -> {"absent", "waiting", "live", "removed"}]
  /\ heard \in [Consumers -> Seq(Nat)]

(* Priming and live delivery are two paths into one sink: what a consumer  *)
(* hears is a run of the stream, every frame once and in order, whatever   *)
(* was added or removed while frames were flowing.                         *)
NoGapNoRepeat ==
  \A c \in Consumers : \A i \in 1 .. Len(heard[c]) : heard[c][i] = heard[c][1] + i - 1

(* A live consumer is never behind: it has heard everything up to the      *)
(* newest frame, but for the one deliver() is about to hand it.            *)
LiveIsCurrent ==
  \A c \in Consumers : state[c] = "live" =>
    LET n == IF c \in targets THEN Now - 1 ELSE Now
    IN  heard[c] # <<>> => heard[c][Len(heard[c])] = n

(* A decoder handed a P-frame first shows garbage.  A source sends deltas  *)
(* before its first keyframe, and the cache keeps them, so a consumer is   *)
(* started at a keyframe or at the very first frame of the source, never   *)
(* in the middle of a GOP whose beginning the cache has lost.              *)
StartsAtGop ==
  \A c \in Consumers : heard[c] # <<>> => heard[c][1] = 1 \/ stream[heard[c][1]].key

(* What EncodedSource.hpp and the fan-out's tests ask for: every consumer  *)
(* starts at a keyframe, primed or not.  The code does not keep it: one    *)
(* primed before the source's first keyframe is handed deltas.             *)
StartsAtKeyframe ==
  \A c \in Consumers : heard[c] # <<>> => stream[heard[c][1]].key

(* The cache is the whole of the current GOP or nothing: the frames up to  *)
(* the newest one, and only their bytes, within both limits.               *)
CacheIsWithinLimits ==
  LET total[n \in 0 .. Len(gop)] ==
        IF n = 0 THEN 0 ELSE total[n - 1] + stream[gop[n]].size
  IN  /\ Len(gop) <= MaxFrames /\ gopBytes <= MaxBytes
      /\ gopBytes = total[Len(gop)]

(* remove() is the end of it: no sink is called for a consumer that has    *)
(* gone (EncodedSource.removeSink, and the hazard add() was rewritten to   *)
(* remove).                                                                *)
RemovedHearsNothing ==
  [][\A c \in Consumers : state[c] = "removed" => heard'[c] = heard[c]]_vars
=============================================================================
