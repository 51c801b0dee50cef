-------------------------- MODULE FramePathProofs --------------------------
(***************************************************************************)
(* A camera's frames from end to end: the three promises the path is made  *)
(* of, proved each of its own component, and then together.  Last, the     *)
(* frames of a recording on their way to a viewer.                         *)
(***************************************************************************)
EXTENDS FramePath, Playback, SequenceTheorems, WellFoundedInduction, TLAPS

-----------------------------------------------------------------------------
(***************************************************************************)
(* What SinkFanout promises its consumers, for any number of them, any     *)
(* limits and a stream of any length.  The invariant says that the cache   *)
(* is a run of frames ending at the newest, that it opens at a keyframe or *)
(* at the source's first frame, and how far each consumer has been served while deliver() is between    *)
(* releasing the lock and calling the last sink.                           *)
(***************************************************************************)

CacheIsARun ==
  /\ \A i \in 1 .. Len(gop) : gop[i] = Now - Len(gop) + i
  /\ Len(gop) <= Now
  /\ ~ CacheOn \/ overflowed => gop = <<>>

(* Only before the first frame, and after the last, is the cache empty     *)
(* without having overflowed.                                              *)
CacheOpensAGop ==
  /\ gop # <<>> => gop[1] = 1 \/ stream[gop[1]].key
  /\ CacheOn /\ gop = <<>> /\ ~ overflowed => Now = 0 \/ Now = MaxStream

HeardIsARun ==
  \A c \in Consumers : \A i \in 1 .. Len(heard[c]) :
    /\ heard[c][i] = heard[c][1] + i - 1
    /\ heard[c][i] \in 1 .. Now

HeardOpensAGop ==
  /\ StartsAtGop
  /\ \A c \in targets : heard[c] = <<>> => stream[Now].key

ServedUpTo ==
  /\ targets # {} => Now >= 1
  /\ \A c \in Consumers :
       /\ state[c] \in {"absent", "waiting"} => heard[c] = <<>> /\ c \notin targets
       /\ c \in targets /\ heard[c] # <<>> => heard[c][Len(heard[c])] = Now - 1
       /\ state[c] = "live" /\ c \notin targets =>
            heard[c] # <<>> /\ heard[c][Len(heard[c])] = Now

IInv == /\ TypeOK /\ CacheIsARun /\ CacheOpensAGop
        /\ HeardIsARun /\ HeardOpensAGop /\ ServedUpTo

-----------------------------------------------------------------------------
LEMMA FrameFields ==
  ASSUME NEW frame \in Frame
  PROVE  frame.key \in BOOLEAN /\ frame.size \in Nat
BY FanoutAssumption DEF Frame

(* What the cache is after a frame has been offered to it.                 *)
Shape(frame, frames) ==
  /\ frames \in Seq(Nat)
  /\ Len(frames) <= Now + 1 /\ (~ CacheOn => frames = <<>>)
  /\ \A i \in 1 .. Len(frames) : frames[i] = Now + 1 - Len(frames) + i
  /\ frames # <<>> => \/ frames[1] = Now + 1 /\ frame.key
                      \/ gop # <<>> /\ frames[1] = gop[1]
                      \/ gop = <<>> /\ CacheOn /\ ~ overflowed /\ ~ frame.key

LEMMA CachedShape ==
  ASSUME gop \in Seq(Nat), gopBytes \in Nat, overflowed \in BOOLEAN, Now \in Nat,
         CacheIsARun, NEW frame \in Frame, NEW cache, cache = Cached(frame, Now + 1)
  PROVE  /\ cache.bytes \in Nat /\ cache.full \in BOOLEAN
         /\ cache.full => cache.gop = <<>>
         /\ CacheOn /\ cache.gop = <<>> => cache.full
         /\ Shape(frame, cache.gop)
<1>1. frame.key \in BOOLEAN /\ frame.size \in Nat
  BY FrameFields
<1>2. ASSUME NEW old \in Seq(Nat), Len(old) <= Now,
             \A i \in 1 .. Len(old) : old[i] = Now - Len(old) + i,
             \/ old = <<>> /\ (frame.key \/ (gop = <<>> /\ CacheOn /\ ~ overflowed))
             \/ old = gop /\ gop # <<>>,
             CacheOn
      PROVE  Shape(frame, Append(old, Now + 1))
  <2> DEFINE new == Append(old, Now + 1)
  <2>1. /\ new \in Seq(Nat) /\ Len(new) = Len(old) + 1
        /\ \A i \in 1 .. Len(old) : new[i] = old[i]
        /\ new[Len(old) + 1] = Now + 1
    BY <1>2
  <2>2. \A i \in 1 .. Len(new) : new[i] = Now + 1 - Len(new) + i
    BY <1>2, <2>1
  <2>3. \/ new[1] = Now + 1 /\ frame.key
        \/ gop # <<>> /\ new[1] = gop[1]
        \/ gop = <<>> /\ CacheOn /\ ~ overflowed /\ ~ frame.key
    BY <1>1, <1>2, <2>1
  <2>4. new # <<>> /\ Len(new) <= Now + 1
    BY <1>2, <2>1
  <2> HIDE DEF new
  <2>5. Shape(frame, new)
    BY <1>2, <2>1, <2>2, <2>3, <2>4 DEF Shape
  <2> QED
    BY <2>5 DEF new
<1>3. CASE ~ CacheOn
  <2>1. gop = <<>>
    BY <1>3 DEF CacheIsARun
  <2> QED
    BY <1>3, <2>1 DEF Cached, Shape
<1>4. CASE CacheOn /\ frame.key
  <2>1. Shape(frame, Append(<<>>, Now + 1))
    <3> DEFINE new == Append(<<>>, Now + 1)
    <3>1. new \in Seq(Nat) /\ Len(new) = 1 /\ new[1] = Now + 1
      OBVIOUS
    <3> HIDE DEF new
    <3>2. Shape(frame, new)
      BY <1>4, <3>1 DEF Shape
    <3> QED
      BY <3>2 DEF new
  <2>2. Shape(frame, <<>>)
    BY DEF Shape
  <2>3. CASE Fits(frame, <<>>, 0)
    <3>1. cache =
            [gop |-> Append(<<>>, Now + 1), bytes |-> 0 + frame.size, full |-> FALSE]
      BY <1>1, <1>4, <2>3 DEF Cached
    <3>2. /\ cache.gop = Append(<<>>, Now + 1)
          /\ cache.bytes \in Nat /\ cache.full = FALSE
      BY <1>1, <3>1
    <3>3. Append(<<>>, Now + 1) # <<>>
      OBVIOUS
    <3> QED
      BY <2>1, <3>2, <3>3
  <2>4. CASE ~ Fits(frame, <<>>, 0)
    <3>1. cache = [gop |-> <<>>, bytes |-> 0, full |-> TRUE]
      BY <1>1, <1>4, <2>4 DEF Cached
    <3>2. cache.gop = <<>> /\ cache.bytes \in Nat /\ cache.full = TRUE
      BY <3>1
    <3> QED
      BY <2>2, <3>2
  <2> QED
    BY <2>3, <2>4
<1>5. CASE CacheOn /\ ~ frame.key /\ overflowed
  <2>1. gop = <<>>
    BY <1>5 DEF CacheIsARun
  <2>2. Shape(frame, <<>>)
    BY DEF Shape
  <2> QED
    BY <1>1, <1>5, <2>1, <2>2 DEF Cached
<1>6. CASE CacheOn /\ ~ frame.key /\ ~ overflowed
  <2>0. gop \in Seq(Nat) /\ Now + 1 \in Nat
    BY <1>1
  <2>1. Shape(frame, Append(gop, Now + 1))
    BY <1>1, <1>2, <1>6 DEF CacheIsARun
  <2>2. Shape(frame, <<>>)
    BY DEF Shape
  <2>3. CASE Fits(frame, gop, gopBytes)
    <3>1. cache =
            [gop |-> Append(gop, Now + 1), bytes |-> gopBytes + frame.size, full |-> FALSE]
      BY <1>1, <1>6, <2>3 DEF Cached
    <3>2. /\ cache.gop = Append(gop, Now + 1)
          /\ cache.bytes \in Nat /\ cache.full = FALSE
      BY <1>1, <3>1
    <3>3. Append(gop, Now + 1) # <<>>
      BY <2>0
    <3> QED
      BY <2>1, <3>2, <3>3
  <2>4. CASE ~ Fits(frame, gop, gopBytes)
    <3>1. cache = [gop |-> <<>>, bytes |-> 0, full |-> TRUE]
      BY <1>1, <1>6, <2>4 DEF Cached
    <3>2. cache.gop = <<>> /\ cache.bytes \in Nat /\ cache.full = TRUE
      BY <3>1
    <3> QED
      BY <2>2, <3>2
  <2> QED
    BY <2>3, <2>4
<1> QED
  BY <1>1, <1>3, <1>4, <1>5, <1>6

-----------------------------------------------------------------------------
LEMMA InitOK == Init => IInv
<1> SUFFICES ASSUME Init PROVE IInv
  OBVIOUS
<1>1. /\ stream = <<>> /\ gop = <<>> /\ gopBytes = 0 /\ overflowed = FALSE
      /\ targets = {} /\ Now = 0 /\ Len(gop) = 0
      /\ \A c \in Consumers : state[c] = "absent" /\ heard[c] = <<>> /\ Len(heard[c]) = 0
  BY DEF Init, Now
<1>2. TypeOK
  <2>1. <<>> \in Seq(Frame) /\ <<>> \in Seq(Nat)
    OBVIOUS
  <2>2. state \in [Consumers -> {"absent", "waiting", "live", "removed"}]
    BY DEF Init
  <2>3. heard \in [Consumers -> Seq(Nat)]
    BY <2>1 DEF Init
  <2> QED
    BY <1>1, <2>1, <2>2, <2>3 DEF TypeOK
<1>3. CacheIsARun /\ CacheOpensAGop
  BY <1>1 DEF CacheIsARun, CacheOpensAGop
<1>4. HeardIsARun /\ HeardOpensAGop /\ ServedUpTo
  BY <1>1 DEF HeardIsARun, HeardOpensAGop, StartsAtGop, ServedUpTo
<1> QED
  BY <1>2, <1>3, <1>4 DEF IInv

LEMMA AddOK ==
  ASSUME IInv, NEW c \in Consumers, Add(c)
  PROVE  IInv'
<1> USE DEF IInv
<1>1. /\ state[c] = "absent" /\ heard[c] = <<>> /\ c \notin targets
      /\ UNCHANGED <<stream, gop, gopBytes, overflowed, targets>>
      /\ Now' = Now /\ Now \in Nat
  BY DEF Add, ServedUpTo, Now, TypeOK
<1>2. CASE /\ gop # <<>> /\ state' = [state EXCEPT ![c] = "live"]
           /\ heard' = [heard EXCEPT ![c] = gop]
  <2>1. /\ state'[c] = "live" /\ heard'[c] = gop
        /\ \A d \in Consumers \ {c} : state'[d] = state[d] /\ heard'[d] = heard[d]
    BY <1>2 DEF TypeOK
  <2>2. TypeOK'
    BY <1>1, <1>2 DEF TypeOK, Frame
  <2>3. Len(gop) >= 1 /\ gop[1] = Now - Len(gop) + 1 /\ gop[Len(gop)] = Now
    BY <1>1, <1>2 DEF TypeOK, CacheIsARun
  <2>4. \A i \in 1 .. Len(gop) : gop[i] = gop[1] + i - 1 /\ gop[i] \in 1 .. Now
    <3>1. Len(gop) \in Nat /\ Len(gop) <= Now
      BY DEF CacheIsARun, TypeOK
    <3>2. ASSUME NEW i \in 1 .. Len(gop)
          PROVE  gop[i] = Now - Len(gop) + i
      BY <3>2 DEF CacheIsARun
    <3>3. gop[1] = Now - Len(gop) + 1
      BY <2>3
    <3> QED
      <4> SUFFICES ASSUME NEW i \in 1 .. Len(gop)
                   PROVE  gop[i] = gop[1] + i - 1 /\ gop[i] \in 1 .. Now
        OBVIOUS
      <4>1. i \in Nat /\ i >= 1 /\ i <= Len(gop) /\ gop[i] = Now - Len(gop) + i
        BY <3>1, <3>2
      <4> QED
        BY <1>1, <3>1, <3>3, <4>1
  <2>5. HeardIsARun'
    BY <1>1, <2>1, <2>4 DEF HeardIsARun
  <2>6. HeardOpensAGop'
    BY <1>1, <1>2, <2>1 DEF HeardOpensAGop, StartsAtGop, CacheOpensAGop
  <2>7. ServedUpTo'
    BY <1>1, <1>2, <2>1, <2>3 DEF ServedUpTo
  <2> QED
    BY <1>1, <2>2, <2>5, <2>6, <2>7 DEF CacheIsARun, CacheOpensAGop
<1>3. CASE state' = [state EXCEPT ![c] = "waiting"] /\ UNCHANGED heard
  <2>1. state'[c] = "waiting" /\ \A d \in Consumers \ {c} : state'[d] = state[d]
    BY <1>3 DEF TypeOK
  <2>2. TypeOK'
    BY <1>1, <1>3 DEF TypeOK, Frame
  <2>3. ServedUpTo'
    BY <1>1, <1>3, <2>1 DEF ServedUpTo
  <2> QED
    BY <1>1, <1>3, <2>2, <2>3 DEF CacheIsARun, CacheOpensAGop, HeardIsARun,
       HeardOpensAGop, StartsAtGop
<1> QED
  BY <1>2, <1>3 DEF Add, CanPrime

LEMMA RemoveOK ==
  ASSUME IInv, NEW c \in Consumers, Remove(c)
  PROVE  IInv'
<1> USE DEF IInv
<1>1. /\ UNCHANGED <<stream, gop, gopBytes, overflowed, targets, heard>>
      /\ state' = [state EXCEPT ![c] = "removed"] /\ Now' = Now
  BY DEF Remove, Now
<1>2. state'[c] = "removed" /\ \A d \in Consumers \ {c} : state'[d] = state[d]
  BY <1>1 DEF TypeOK
<1>3. TypeOK'
  BY <1>1 DEF TypeOK, Frame
<1>4. ServedUpTo'
  BY <1>1, <1>2 DEF ServedUpTo
<1> QED
  BY <1>1, <1>3, <1>4 DEF CacheIsARun, CacheOpensAGop, HeardIsARun, HeardOpensAGop,
     StartsAtGop

LEMMA CallSinkOK ==
  ASSUME IInv, NEW c \in Consumers, CallSink(c)
  PROVE  IInv'
<1> USE DEF IInv
<1>1. /\ c \in targets /\ targets' = targets \ {c}
      /\ heard' = [heard EXCEPT ![c] = Append(@, Now)]
      /\ UNCHANGED <<stream, gop, gopBytes, overflowed, state>>
      /\ Now' = Now /\ Now \in Nat /\ Now >= 1
  BY DEF CallSink, Now, TypeOK, ServedUpTo
<1>2. /\ heard'[c] = Append(heard[c], Now) /\ heard[c] \in Seq(Nat)
      /\ \A d \in Consumers \ {c} : heard'[d] = heard[d]
  BY <1>1 DEF TypeOK
<1>3. /\ Len(heard'[c]) = Len(heard[c]) + 1 /\ heard'[c][Len(heard[c]) + 1] = Now
      /\ \A i \in 1 .. Len(heard[c]) : heard'[c][i] = heard[c][i]
      /\ heard'[c] # <<>>
  BY <1>1, <1>2
<1>4. TypeOK'
  BY <1>1, <1>2 DEF TypeOK, Frame
<1>5. heard[c] # <<>> => /\ Len(heard[c]) >= 1
                        /\ heard[c][Len(heard[c])] = Now - 1
                        /\ heard[c][Len(heard[c])] = heard[c][1] + Len(heard[c]) - 1
  <2> SUFFICES ASSUME heard[c] # <<>>
               PROVE  /\ Len(heard[c]) >= 1
                      /\ heard[c][Len(heard[c])] = Now - 1
                      /\ heard[c][Len(heard[c])] = heard[c][1] + Len(heard[c]) - 1
    OBVIOUS
  <2>1. Len(heard[c]) \in Nat /\ Len(heard[c]) >= 1
    BY <1>2
  <2>2. heard[c][Len(heard[c])] = Now - 1
    BY <1>1 DEF ServedUpTo
  <2>3. Len(heard[c]) \in 1 .. Len(heard[c])
    BY <2>1
  <2>4. heard[c][Len(heard[c])] = heard[c][1] + Len(heard[c]) - 1
    BY <2>3 DEF HeardIsARun
  <2> QED
    BY <2>1, <2>2, <2>4
<1>6. HeardIsARun'
  <2>1. \A i \in 1 .. Len(heard'[c]) :
          heard'[c][i] = heard'[c][1] + i - 1 /\ heard'[c][i] \in 1 .. Now
    <3>1. CASE heard[c] = <<>>
      BY <1>1, <1>3, <3>1
    <3>2. CASE heard[c] # <<>>
      <4>1. /\ Len(heard[c]) \in Nat /\ Len(heard[c]) >= 1
            /\ heard'[c][1] = heard[c][1] /\ heard[c][1] \in 1 .. Now
            /\ Now = heard[c][1] + Len(heard[c])
        <5>1. Len(heard[c]) \in Nat /\ Len(heard[c]) >= 1
          BY <1>2, <1>5, <3>2
        <5>2. 1 \in 1 .. Len(heard[c])
          BY <5>1
        <5>3. heard[c][1] \in 1 .. Now
          BY <5>2 DEF HeardIsARun
        <5>4. Now - 1 = heard[c][1] + Len(heard[c]) - 1
          BY <1>5, <3>2
        <5>5. heard'[c][1] = heard[c][1]
          BY <1>3, <5>2
        <5>6. Now = heard[c][1] + Len(heard[c])
          BY <1>1, <5>1, <5>3, <5>4
        <5> QED
          BY <5>1, <5>3, <5>5, <5>6
      <4>2. ASSUME NEW i \in 1 .. Len(heard[c])
            PROVE  heard'[c][i] = heard'[c][1] + i - 1 /\ heard'[c][i] \in 1 .. Now
        BY <1>3, <4>1, <4>2 DEF HeardIsARun
      <4> QED
        BY <1>1, <1>3, <4>1, <4>2
    <3> QED
      BY <3>1, <3>2
  <2> QED
    BY <1>1, <1>2, <2>1 DEF HeardIsARun
<1>7. HeardOpensAGop'
  <2>1. heard'[c][1] = 1 \/ stream[heard'[c][1]].key
    <3>1. CASE heard[c] = <<>>
      BY <1>1, <1>3, <3>1 DEF HeardOpensAGop
    <3>2. CASE heard[c] # <<>>
      <4>1. heard'[c][1] = heard[c][1]
        BY <1>2, <1>3, <1>5, <3>2
      <4> QED
        BY <3>2, <4>1 DEF HeardOpensAGop, StartsAtGop
    <3> QED
      BY <3>1, <3>2
  <2> QED
    BY <1>1, <1>2, <1>3, <2>1 DEF HeardOpensAGop, StartsAtGop
<1>8. ServedUpTo'
  BY <1>1, <1>2, <1>3 DEF ServedUpTo
<1> QED
  BY <1>1, <1>4, <1>6, <1>7, <1>8 DEF CacheIsARun, CacheOpensAGop

LEMMA DeliverOK ==
  ASSUME IInv, Deliver
  PROVE  IInv'
<1> USE DEF IInv
<1>1. PICK frame \in Frame :
        /\ targets = {} /\ Now < MaxStream
        /\ stream' = Append(stream, frame)
        /\ gop' = Cached(frame, Now + 1).gop
        /\ gopBytes' = Cached(frame, Now + 1).bytes
        /\ overflowed' = Cached(frame, Now + 1).full
        /\ targets' = Ready(frame)
        /\ state' = [c \in Consumers |-> IF c \in Ready(frame) THEN "live" ELSE state[c]]
        /\ heard' = heard
  BY DEF Deliver
<1>2. Now \in Nat
  BY DEF Now, TypeOK
<1>3. /\ Now' = Now + 1 /\ stream' \in Seq(Frame) /\ stream'[Now + 1] = frame
      /\ \A i \in 1 .. Now : stream'[i] = stream[i]
  BY <1>1 DEF Now, TypeOK
<1>4. /\ gopBytes' \in Nat /\ overflowed' \in BOOLEAN
      /\ (overflowed' => gop' = <<>>) /\ (CacheOn /\ gop' = <<>> => overflowed')
      /\ Shape(frame, gop')
  BY <1>1, <1>2, CachedShape DEF TypeOK
<1>5. TypeOK'
  <2>1. state' \in [Consumers -> {"absent", "waiting", "live", "removed"}]
    BY <1>1 DEF TypeOK
  <2>2. targets' \subseteq Consumers
    BY <1>1 DEF Ready
  <2>3. gop' \in Seq(Nat)
    BY <1>4 DEF Shape
  <2> QED
    BY <1>1, <1>3, <1>4, <2>1, <2>2, <2>3 DEF TypeOK, Frame
<1>6. CacheIsARun'
  <2>1. \A i \in 1 .. Len(gop') : gop'[i] = Now' - Len(gop') + i
    <3>1. \A i \in 1 .. Len(gop') : gop'[i] = Now + 1 - Len(gop') + i
      BY <1>4 DEF Shape
    <3>2. Now' = Now + 1 /\ Len(gop') \in Nat
      BY <1>3, <1>4 DEF Shape
    <3>3. ASSUME NEW i \in 1 .. Len(gop')
          PROVE  gop'[i] = Now' - Len(gop') + i
      <4>1. gop'[i] = Now + 1 - Len(gop') + i
        BY <3>1, <3>3
      <4>2. i \in Int
        BY <3>2, <3>3
      <4> QED
        BY <1>2, <3>2, <4>1, <4>2
    <3> QED
      BY <3>3
  <2>2. Len(gop') <= Now'
    BY <1>3, <1>4 DEF Shape
  <2>3. ~ CacheOn \/ overflowed' => gop' = <<>>
    BY <1>4 DEF Shape
  <2> QED
    BY <2>1, <2>2, <2>3 DEF CacheIsARun
<1>7. CacheOpensAGop'
  <2>1. ASSUME gop' # <<>> PROVE gop'[1] = 1 \/ stream'[gop'[1]].key
    <3>1. CASE gop'[1] = Now + 1 /\ frame.key
      BY <1>3, <3>1
    <3>2. CASE gop # <<>> /\ gop'[1] = gop[1]
      <4>1. Len(gop) \in Nat /\ Len(gop) >= 1 /\ Len(gop) <= Now
        BY <3>2 DEF TypeOK, CacheIsARun
      <4>2. gop[1] \in 1 .. Now
        BY <1>2, <4>1 DEF CacheIsARun
      <4> QED
        BY <1>3, <3>2, <4>2 DEF CacheOpensAGop
    <3>3. CASE gop = <<>> /\ CacheOn /\ ~ overflowed /\ ~ frame.key
      <4>1. Now = 0
        BY <1>1, <1>2, <3>3, FanoutAssumption DEF CacheOpensAGop
      <4>2. /\ gop' \in Seq(Nat) /\ Len(gop') <= 1
            /\ \A i \in 1 .. Len(gop') : gop'[i] = 1 - Len(gop') + i
        BY <1>4, <4>1 DEF Shape
      <4>3. PICK g \in Seq(Nat) : g = gop'
        BY <4>2
      <4>4. g # <<>> /\ Len(g) <= 1 /\ \A i \in 1 .. Len(g) : g[i] = 1 - Len(g) + i
        BY <2>1, <4>2, <4>3
      <4>5. Len(g) \in Nat /\ Len(g) # 0
        BY <4>4, EmptySeq, LenProperties
      <4>6. g[1] = 1
        BY <4>4, <4>5
      <4> QED
        BY <4>3, <4>6
    <3> QED
      BY <1>4, <2>1, <3>1, <3>2, <3>3 DEF Shape
  <2> QED
    BY <1>4, <2>1 DEF CacheOpensAGop
<1>8. HeardIsARun'
  BY <1>1, <1>2, <1>3 DEF HeardIsARun, TypeOK
<1>9. \A c \in Consumers :
        /\ c \in targets' <=> state[c] = "live" \/ (state[c] = "waiting" /\ frame.key)
        /\ c \in targets' => state'[c] = "live"
        /\ c \notin targets' => state'[c] = state[c]
        /\ heard'[c] = heard[c]
        /\ state[c] = "live" => heard[c] # <<>> /\ heard[c][Len(heard[c])] = Now
        /\ state[c] \in {"absent", "waiting"} => heard[c] = <<>>
  BY <1>1 DEF Ready, ServedUpTo
<1>10. HeardOpensAGop'
  <2>1. ASSUME NEW c \in Consumers, heard'[c] # <<>>
        PROVE  heard'[c][1] = 1 \/ stream'[heard'[c][1]].key
    <3>1. Len(heard[c]) >= 1 /\ heard[c][1] \in 1 .. Now
      BY <1>1, <2>1 DEF TypeOK, HeardIsARun
    <3> QED
      BY <1>1, <1>3, <2>1, <3>1 DEF HeardOpensAGop, StartsAtGop
  <2>2. ASSUME NEW c \in targets', heard'[c] = <<>>
        PROVE  stream'[Now'].key
    <3>1. c \in Consumers
      BY <1>1 DEF Ready
    <3> QED
      BY <1>3, <1>9, <2>2, <3>1
  <2> QED
    BY <2>1, <2>2 DEF HeardOpensAGop, StartsAtGop
<1>11. ServedUpTo'
  <2>1. Now' >= 1 /\ Now' - 1 = Now
    BY <1>2, <1>3
  <2> QED
    BY <1>9, <2>1 DEF ServedUpTo
<1> QED
  BY <1>5, <1>6, <1>7, <1>8, <1>10, <1>11

LEMMA ClearOK ==
  ASSUME IInv, Clear
  PROVE  IInv'
<1> USE DEF IInv
<1>1. /\ targets = {} /\ Now = MaxStream /\ Now' = Now /\ Now \in Nat
      /\ gop' = <<>> /\ gopBytes' = 0 /\ overflowed' = FALSE
      /\ state' = [c \in Consumers |-> "removed"]
      /\ UNCHANGED <<stream, targets, heard>>
  BY DEF Clear, Now, TypeOK
<1>2. TypeOK'
  <2>1. <<>> \in Seq(Nat) /\ FALSE \in BOOLEAN /\ 0 \in Nat
    OBVIOUS
  <2>2. state' \in [Consumers -> {"absent", "waiting", "live", "removed"}]
    BY <1>1
  <2>3. gop' \in Seq(Nat) /\ gopBytes' \in Nat /\ overflowed' \in BOOLEAN
    BY <1>1, <2>1
  <2> QED
    BY <1>1, <2>2, <2>3 DEF TypeOK, Frame
<1>3. CacheIsARun' /\ CacheOpensAGop'
  BY <1>1 DEF CacheIsARun, CacheOpensAGop
<1>4. HeardIsARun' /\ HeardOpensAGop' /\ ServedUpTo'
  BY <1>1 DEF HeardIsARun, HeardOpensAGop, StartsAtGop, ServedUpTo
<1> QED
  BY <1>2, <1>3, <1>4

-----------------------------------------------------------------------------
LEMMA Inductive == Spec => []IInv
<1>1. IInv /\ [Next]_vars => IInv'
  <2> SUFFICES ASSUME IInv, [Next]_vars PROVE IInv'
    OBVIOUS
  <2>1. CASE UNCHANGED vars
    BY <2>1 DEF vars, IInv, TypeOK, Frame, CacheIsARun, CacheOpensAGop, HeardIsARun,
       HeardOpensAGop, StartsAtGop, ServedUpTo, Now
  <2> QED
    BY <2>1, AddOK, RemoveOK, CallSinkOK, DeliverOK, ClearOK DEF Next
<1> QED
  BY <1>1, InitOK, PTL DEF Spec

(* Every consumer starts at a keyframe or at the source's first frame,     *)
(* however it was added, whatever the cache dropped and whatever kinds of  *)
(* frames the source sends first.                                          *)
THEOREM FanoutStartsAtGop == Spec => []StartsAtGop
<1>1. IInv => StartsAtGop
  BY DEF IInv, HeardOpensAGop
<1> QED
  BY <1>1, Inductive, PTL

(* Priming from the cache and joining the live stream leave no gap and     *)
(* repeat no frame.                                                        *)
THEOREM FanoutNoGapNoRepeat == Spec => []NoGapNoRepeat
<1>1. IInv => NoGapNoRepeat
  BY DEF IInv, HeardIsARun, NoGapNoRepeat
<1> QED
  BY <1>1, Inductive, PTL

(* A live consumer is at most the frame deliver() is handing out behind.   *)
THEOREM FanoutLiveIsCurrent == Spec => []LiveIsCurrent
<1>1. IInv => LiveIsCurrent
  BY DEF IInv, ServedUpTo, LiveIsCurrent
<1> QED
  BY <1>1, Inductive, PTL

-----------------------------------------------------------------------------
(***************************************************************************)
(* The back-pressure rule keeps what a consumer gets decodable, for every  *)
(* stream, every bound and every pace of the consumer.  m_waiting is what  *)
(* makes it inductive: while it is clear and the consumer is enabled, the  *)
(* last frame handed over was sent.                                        *)
(***************************************************************************)

LastWasSent == enabled /\ ~ waiting /\ offered # <<>> => Len(offered) \in sent

PushIInv == PushTypeOK /\ Decodable /\ LastWasSent

LEMMA PushInitOK == PushInit => PushIInv
<1> SUFFICES ASSUME PushInit PROVE PushIInv
  OBVIOUS
<1>1. offered = <<>> /\ sent = {} /\ waiting = FALSE /\ queued = 0 /\ enabled = TRUE
  BY DEF PushInit
<1>2. offered \in Seq(BOOLEAN) /\ sent \subseteq 1 .. Len(offered) /\ queued \in Nat
  BY <1>1
<1>3. waiting \in BOOLEAN /\ enabled \in BOOLEAN
  BY <1>1
<1>4. PushTypeOK
  BY <1>2, <1>3 DEF PushTypeOK
<1> QED
  BY <1>1, <1>4 DEF PushIInv, Decodable, LastWasSent

LEMMA OfferOK ==
  ASSUME PushIInv, NEW key \in BOOLEAN, NEW size \in 1 .. MaxSize,
         Offer(key, size)
  PROVE  PushIInv'
<1> DEFINE n == Len(offered) + 1
<1>1. /\ offered \in Seq(BOOLEAN) /\ Len(offered) \in Nat /\ sent \subseteq 1 .. Len(offered)
      /\ size \in Nat /\ queued \in Nat
  BY FeedAssumption DEF PushIInv, PushTypeOK
<1>2. /\ offered' \in Seq(BOOLEAN) /\ Len(offered') = n /\ offered'[n] = key
      /\ offered' # <<>> /\ \A m \in 1 .. Len(offered) : offered'[m] = offered[m]
  BY <1>1 DEF Offer
<1>3. CASE enabled /\ Admits(key)
  <2>1. /\ sent' = sent \cup {n} /\ queued' = queued + size /\ waiting' = FALSE
        /\ enabled' = enabled
    BY <1>3 DEF Offer
  <2>2. PushTypeOK'
    <3>1. waiting' \in BOOLEAN /\ enabled' \in BOOLEAN
      BY <2>1 DEF PushIInv, PushTypeOK
    <3>2. queued' \in Nat
      BY <1>1, <2>1
    <3>3. ASSUME NEW m \in sent' PROVE m \in 1 .. Len(offered')
      <4>1. m \in 1 .. Len(offered) \/ m = n
        BY <1>1, <2>1
      <4> QED
        BY <1>1, <1>2, <4>1
    <3> QED
      BY <1>2, <3>1, <3>2, <3>3 DEF PushTypeOK
  <2>3. ASSUME NEW m \in sent' PROVE offered'[m] \/ m - 1 \in sent' \/ m = 1
    <3>1. CASE m \in sent
      BY <1>1, <1>2, <2>1, <3>1 DEF PushIInv, Decodable
    <3>2. CASE m = n /\ key
      BY <1>2, <3>2
    <3>3. CASE m = n /\ ~ key
      <4>1. m - 1 = Len(offered) /\ ~ waiting
        BY <1>1, <1>3, <3>3 DEF Admits
      <4>2. CASE offered = <<>>
        <5>1. Len(offered) = 0
          BY <4>2
        <5> QED
          BY <3>3, <5>1
      <4>3. CASE offered # <<>>
        BY <1>3, <2>1, <4>1, <4>3 DEF PushIInv, LastWasSent
      <4> QED
        BY <4>2, <4>3
    <3> QED
      BY <2>1, <2>3, <3>1, <3>2, <3>3
  <2>4. LastWasSent'
    BY <1>2, <2>1 DEF LastWasSent
  <2> QED
    BY <2>2, <2>3, <2>4 DEF PushIInv, Decodable
<1>4. CASE ~ (enabled /\ Admits(key))
  <2>1. /\ sent' = sent /\ queued' = queued /\ waiting' = (enabled \/ waiting)
        /\ enabled' = enabled
    BY <1>4 DEF Offer
  <2>2. PushTypeOK'
    <3>1. waiting' \in BOOLEAN /\ enabled' \in BOOLEAN
      BY <2>1 DEF PushIInv, PushTypeOK
    <3> QED
      BY <1>1, <1>2, <2>1, <3>1 DEF PushTypeOK
  <2>3. Decodable'
    BY <1>1, <1>2, <2>1 DEF PushIInv, Decodable
  <2>4. LastWasSent'
    BY <2>1 DEF LastWasSent
  <2> QED
    BY <2>2, <2>3, <2>4 DEF PushIInv
<1> QED
  BY <1>3, <1>4

LEMMA PushInductive == PushSpec => []PushIInv
<1>1. PushIInv /\ [PushNext]_pushVars => PushIInv'
  <2> SUFFICES ASSUME PushIInv, [PushNext]_pushVars PROVE PushIInv'
    OBVIOUS
  <2>1. CASE Drain
    <3>1. queued' \in Nat /\ UNCHANGED <<offered, sent, waiting, enabled>>
      BY <2>1 DEF Drain, PushIInv, PushTypeOK
    <3> QED
      BY <3>1 DEF PushIInv, PushTypeOK, Decodable, LastWasSent
  <2>2. CASE StopPush
    BY <2>2 DEF StopPush, PushIInv, PushTypeOK, Decodable, LastWasSent
  <2>3. CASE UNCHANGED pushVars
    BY <2>3 DEF pushVars, PushIInv, PushTypeOK, Decodable, LastWasSent
  <2> QED
    BY <2>1, <2>2, <2>3, OfferOK DEF PushNext
<1> QED
  BY <1>1, PushInitOK, PTL DEF PushSpec

(* Whatever the consumer's pace and whatever kinds of frames come, every   *)
(* frame it gets is a keyframe, or follows the frame it was predicted      *)
(* from, or is the first it was offered.                                   *)
THEOREM FeedDecodable == PushSpec => []Decodable
<1>1. PushIInv => Decodable
  BY DEF PushIInv
<1> QED
  BY <1>1, PushInductive, PTL

(* The queue of a consumer never exceeds its bound by more than one frame. *)
THEOREM FeedQueueBounded == PushSpec => []QueueIsBounded
<1>1. PushInit => QueueIsBounded
  BY FeedAssumption DEF PushInit, QueueIsBounded
<1>2. PushIInv /\ QueueIsBounded /\ [PushNext]_pushVars => QueueIsBounded'
  <2> SUFFICES ASSUME PushIInv, QueueIsBounded, [PushNext]_pushVars PROVE QueueIsBounded'
    OBVIOUS
  <2>1. queued \in Nat /\ MaxQueued \in Nat /\ MaxSize \in Nat
    BY FeedAssumption DEF PushIInv, PushTypeOK
  <2>2. ASSUME NEW key \in BOOLEAN, NEW size \in 1 .. MaxSize, Offer(key, size)
        PROVE  QueueIsBounded'
    <3>1. CASE enabled /\ Admits(key)
      <4>1. queued' = queued + size /\ ~ (queued > MaxQueued)
        BY <2>2, <3>1 DEF Offer, Admits, Overflowing
      <4> QED
        BY <2>1, <4>1 DEF QueueIsBounded
    <3>2. CASE ~ (enabled /\ Admits(key))
      <4>1. queued' = queued
        BY <2>2, <3>2 DEF Offer
      <4> QED
        BY <4>1 DEF QueueIsBounded
    <3> QED
      BY <3>1, <3>2
  <2>3. CASE Drain
    BY <2>1, <2>3 DEF Drain, QueueIsBounded
  <2>4. CASE StopPush \/ UNCHANGED pushVars
    BY <2>4 DEF StopPush, pushVars, QueueIsBounded
  <2> QED
    BY <2>2, <2>3, <2>4 DEF PushNext
<1> QED
  BY <1>1, <1>2, PushInductive, PTL DEF PushSpec

(* Type correctness, from the same invariant.                              *)
THEOREM FeedTypeCorrect == PushSpec => []PushTypeOK
<1>1. PushIInv => PushTypeOK
  BY DEF PushIInv
<1> QED
  BY <1>1, PushInductive, PTL

-----------------------------------------------------------------------------
(***************************************************************************)
(* However the socket takes what it is given, a MoQ viewer loses neither   *)
(* its alignment nor a reference: for frames of any number of parts, and   *)
(* any prefixes taken.  The invariant is about what was sent followed by   *)
(* what waits to be sent, which a flush does not change: only a new frame  *)
(* adds to it, and only a close cuts it.                                   *)
(***************************************************************************)

Stream == wire \o pending

Part == Nat \X Nat

(* One part follows another in the stream.                                 *)
Continues(a, b) == IF IsLast(a) THEN b[2] = 1 ELSE b = <<a[1], a[2] + 1>>

WholeFrames(s) ==
  /\ s # <<>> => s[1][2] = 1
  /\ \A i \in 1 .. Len(s) - 1 : Continues(s[i], s[i + 1])

(* The frames whose reference the feed never had, or could not read.       *)
Excused(n) == n = 1 \/ n - 1 \in unmapped

(* A frame is a keyframe or excused, or the one before it came earlier.    *)
Referenced(s) ==
  \A i \in 1 .. Len(s) : \/ given[s[i][1]].key \/ Excused(s[i][1])
                         \/ \E j \in 1 .. i : s[j][1] = s[i][1] - 1

Known(s) == \A i \in 1 .. Len(s) : s[i][1] \in 1 .. Len(given)

(* While the feed lives the stream ends where a frame does, and unless     *)
(* frames are being dropped this is the newest frame, if it could be read. *)
UpToDate(s) ==
  alive => /\ s # <<>> => IsLast(s[Len(s)])
           /\ ~ lagging /\ given # <<>> =>
                \/ Len(given) \in unmapped
                \/ s # <<>> /\ s[Len(s)][1] = Len(given)

FrameRec == [key : BOOLEAN, parts : 2 .. MaxParts]

Sequenced ==
  /\ given \in Seq(FrameRec) /\ wire \in Seq(Part) /\ pending \in Seq(Part)
  /\ lagging \in BOOLEAN /\ open \in BOOLEAN /\ alive \in BOOLEAN
  /\ ~ open => ~ alive

Told(s) == WholeFrames(s) /\ Referenced(s) /\ Known(s) /\ UpToDate(s)

MoqIInv == Sequenced /\ Told(Stream)

-----------------------------------------------------------------------------
(* A sequence is its front and its back.                                   *)
LEMMA CutAndJoin ==
  ASSUME NEW w \in Seq(Part), NEW p \in Seq(Part), NEW k \in 0 .. Len(p)
  PROVE  /\ Front(p, k) \in Seq(Part) /\ Back(p, k) \in Seq(Part)
         /\ Front(p, k) \o Back(p, k) = p
         /\ w \o Front(p, k) \in Seq(Part)
         /\ (w \o Front(p, k)) \o Back(p, k) = w \o p
<1>1. Len(p) \in Nat /\ k \in Int /\ k + 1 \in Int /\ Len(p) \in Int /\ 1 \in Int
  BY LenProperties
<1>2. \A i \in 1 .. k : p[i] \in Part
  BY <1>1, ElementOfSeq
<1>3. \A i \in k + 1 .. Len(p) : p[i] \in Part
  BY <1>1, ElementOfSeq
<1>4. SubSeq(p, 1, k) \in Seq(Part)
  BY <1>1, <1>2, SubSeqProperties
<1>5. SubSeq(p, k + 1, Len(p)) \in Seq(Part)
  BY <1>1, <1>3, SubSeqProperties
<1>6. SubSeq(p, 1, k) \o SubSeq(p, k + 1, Len(p)) = SubSeq(p, 1, Len(p))
  <2>1. 1 \in 1 .. Len(p) + 1 /\ k \in 1 - 1 .. Len(p) /\ Len(p) \in k .. Len(p)
    BY <1>1
  <2> QED
    BY <2>1, ConcatAdjacentSubSeq
<1>7. Front(p, k) \o Back(p, k) = p
  BY <1>6, SubSeqFull DEF Front, Back
<1>8. Front(p, k) \in Seq(Part) /\ Back(p, k) \in Seq(Part)
  BY <1>4, <1>5 DEF Front, Back
<1>9. w \o Front(p, k) \in Seq(Part)
  BY <1>8, ConcatProperties
<1>10. (w \o Front(p, k)) \o Back(p, k) = w \o (Front(p, k) \o Back(p, k))
  BY <1>8, ConcatAssociative
<1> QED
  BY <1>7, <1>8, <1>9, <1>10

(* Delivering a frame changes nothing of those before it.                  *)
LEMMA Delivered ==
  ASSUME Sequenced, NEW key \in BOOLEAN, NEW parts \in 2 .. MaxParts,
         given' = Append(given, [key |-> key, parts |-> parts])
  PROVE  /\ given' \in Seq(FrameRec) /\ Len(given) \in Nat
         /\ Len(given') = Len(given) + 1 /\ given' # <<>>
         /\ given'[Len(given) + 1] = [key |-> key, parts |-> parts]
         /\ \A n \in 1 .. Len(given) : given'[n] = given[n]
<1>1. [key |-> key, parts |-> parts] \in FrameRec
  BY DEF FrameRec
<1> QED
  BY <1>1, AppendProperties, LenProperties DEF Sequenced

(* A frame delivered and not sent: true still, if the feed drops from here *)
(* on, could not map the frame or is dead.                                 *)
LEMMA UnsentKeeps ==
  ASSUME Sequenced, NEW s \in Seq(Part), Told(s),
         NEW key \in BOOLEAN, NEW parts \in 2 .. MaxParts,
         given' = Append(given, [key |-> key, parts |-> parts]),
         unmapped \subseteq unmapped',
         alive' => alive /\ (lagging' \/ Len(given) + 1 \in unmapped')
  PROVE  Told(s)'
<1>1. /\ Len(given) \in Nat /\ Len(given') = Len(given) + 1
      /\ \A n \in 1 .. Len(given) : given'[n] = given[n]
  BY Delivered
<1>2. Len(s) \in Nat
  BY LenProperties
<1>3. \A i \in 1 .. Len(s) : s[i][1] \in 1 .. Len(given)
  BY DEF Told, Known
<1>4. \A i \in 1 .. Len(s) : given'[s[i][1]] = given[s[i][1]]
  BY <1>1, <1>3
<1>5. \A i \in 1 .. Len(s) : IsLast(s[i])' <=> IsLast(s[i])
  BY <1>4 DEF IsLast
<1>6. WholeFrames(s)'
  <2>1. \A i \in 1 .. Len(s) - 1 : Continues(s[i], s[i + 1])' <=> Continues(s[i], s[i + 1])
    BY <1>2, <1>5 DEF Continues
  <2> QED
    BY <2>1 DEF Told, WholeFrames
<1>7. Referenced(s)'
  BY <1>4 DEF Told, Referenced, Excused
<1>8. Known(s)'
  BY <1>1, <1>3 DEF Known
<1>9. UpToDate(s)'
  <2>1. alive' => (s # <<>> => IsLast(s[Len(s)])')
    <3> SUFFICES ASSUME alive', s # <<>> PROVE IsLast(s[Len(s)])'
      OBVIOUS
    <3>1. Len(s) \in 1 .. Len(s)
      BY <1>2, EmptySeq
    <3>2. IsLast(s[Len(s)])
      BY DEF Told, UpToDate
    <3> QED
      BY <1>5, <3>1, <3>2
  <2> QED
    BY <1>1, <2>1 DEF UpToDate
<1> QED
  BY <1>6, <1>7, <1>8, <1>9 DEF Told

(* A frame that is admitted is added whole to the end of the stream.       *)
LEMMA SentKeeps ==
  ASSUME Sequenced, NEW s \in Seq(Part), Told(s), alive,
         NEW key \in BOOLEAN, NEW parts \in 2 .. MaxParts,
         given' = Append(given, [key |-> key, parts |-> parts]),
         key \/ ~ lagging, unmapped' = unmapped,
         NEW n, n = Len(given) + 1,
         NEW f \in Seq(Part), f = [p \in 1 .. parts |-> <<n, p>>],
         NEW t \in Seq(Part), t = s \o f
  PROVE  Told(t)'
<1> DEFINE l == Len(s)
<1>1. /\ Len(given) \in Nat /\ Len(given') = n /\ n \in Nat
      /\ given'[n] = [key |-> key, parts |-> parts]
      /\ \A m \in 1 .. Len(given) : given'[m] = given[m]
  BY Delivered
<1>2. l \in Nat /\ parts \in Nat /\ parts >= 2
  BY LenProperties, MoqAssumption
<1>3. Len(f) = parts
  BY <1>2
<1>4. /\ Len(t) = l + parts
      /\ \A i \in 1 .. l : t[i] = s[i]
      /\ \A i \in 1 .. parts : t[l + i] = <<n, i>>
  <2>1. /\ Len(t) = l + parts
        /\ \A i \in 1 .. l + parts : t[i] = IF i <= l THEN s[i] ELSE f[i - l]
    BY <1>3, ConcatProperties
  <2>2. ASSUME NEW i \in 1 .. parts PROVE t[l + i] = <<n, i>>
    <3>1. l + i \in 1 .. l + parts /\ ~ (l + i <= l) /\ (l + i) - l = i
      BY <1>2
    <3>2. t[l + i] = f[i]
      BY <2>1, <3>1
    <3> QED
      BY <3>2
  <2> QED
    BY <1>2, <2>1, <2>2
<1>5. \A i \in 1 .. l : s[i][1] \in 1 .. Len(given)
  BY DEF Told, Known
<1>6. \A i \in 1 .. l : given'[t[i][1]] = given[s[i][1]] /\ t[i][1] = s[i][1]
  BY <1>1, <1>4, <1>5
<1>7. \A i \in 1 .. l : IsLast(t[i])' <=> IsLast(s[i])
  BY <1>4, <1>6 DEF IsLast
<1>8. \A i \in 1 .. parts : IsLast(t[l + i])' <=> i = parts
  BY <1>1, <1>4 DEF IsLast
<1>9. t # <<>>
  <2>1. Len(t) # 0
    BY <1>2, <1>4
  <2> QED
    BY <2>1
<1>10. WholeFrames(t)'
  <2>1. t[1][2] = 1
    <3>1. CASE l = 0
      BY <1>2, <1>4, <3>1
    <3>2. CASE l # 0
      <4>1. s # <<>> /\ 1 \in 1 .. l
        BY <1>2, <3>2, EmptySeq
      <4> QED
        BY <1>4, <4>1 DEF Told, WholeFrames
    <3> QED
      BY <3>1, <3>2
  <2>2. ASSUME NEW i \in 1 .. Len(t) - 1 PROVE Continues(t[i], t[i + 1])'
    <3>1. CASE i < l
      <4>1. i \in 1 .. l - 1 /\ i \in 1 .. l /\ i + 1 \in 1 .. l
        BY <1>2, <3>1
      <4>2. Continues(s[i], s[i + 1])
        BY <4>1 DEF Told, WholeFrames
      <4>3. t[i] = s[i] /\ t[i + 1] = s[i + 1] /\ (IsLast(t[i])' <=> IsLast(s[i]))
        BY <1>4, <1>7, <4>1
      <4> QED
        BY <4>2, <4>3 DEF Continues
    <3>2. CASE i = l
      <4>1. l \in 1 .. l /\ s # <<>>
        BY <1>2, <3>2, EmptySeq
      <4>2. IsLast(s[l])
        BY <4>1 DEF Told, UpToDate
      <4>3. t[l + 1] = <<n, 1>> /\ IsLast(t[l])'
        BY <1>2, <1>4, <1>7, <4>1, <4>2
      <4>4. t[l + 1][2] = 1
        BY <4>3
      <4> QED
        BY <3>2, <4>3, <4>4 DEF Continues
    <3>3. CASE i > l
      <4>1. PICK k \in 1 .. parts - 1 : i = l + k
        <5>1. i - l \in 1 .. parts - 1 /\ i = l + (i - l)
          BY <1>2, <1>4, <3>3
        <5> QED
          BY <5>1
      <4>2. k \in 1 .. parts /\ k + 1 \in 1 .. parts /\ k # parts /\ i + 1 = l + (k + 1)
        BY <1>2, <4>1
      <4>3. t[i] = <<n, k>> /\ t[i + 1] = <<n, k + 1>> /\ ~ IsLast(t[i])'
        BY <1>4, <1>8, <4>1, <4>2
      <4>4. t[i][1] = n /\ t[i][2] = k /\ t[i + 1] = <<t[i][1], t[i][2] + 1>>
        <5>1. <<n, k>>[1] = n /\ <<n, k>>[2] = k
          OBVIOUS
        <5> QED
          BY <4>3, <5>1
      <4> QED
        BY <4>3, <4>4 DEF Continues
    <3> QED
      BY <1>2, <3>1, <3>2, <3>3
  <2> QED
    BY <2>1, <2>2 DEF WholeFrames
<1>11. Referenced(t)'
  <2>1. ASSUME NEW i \in 1 .. Len(t)
        PROVE  \/ given'[t[i][1]].key \/ Excused(t[i][1])'
               \/ \E j \in 1 .. i : t[j][1] = t[i][1] - 1
    <3>1. CASE i \in 1 .. l
      <4>1. \/ given[s[i][1]].key \/ Excused(s[i][1])
            \/ \E j \in 1 .. i : s[j][1] = s[i][1] - 1
        BY <3>1 DEF Told, Referenced
      <4>2. \A j \in 1 .. i : j \in 1 .. l
        BY <1>2, <3>1
      <4> QED
        BY <1>6, <3>1, <4>1, <4>2 DEF Excused
    <3>2. CASE i \notin 1 .. l
      <4>1. PICK k \in 1 .. parts : i = l + k
        <5>1. i - l \in 1 .. parts /\ i = l + (i - l)
          BY <1>2, <1>4, <3>2
        <5> QED
          BY <5>1
      <4>2. t[i] = <<n, k>>
        BY <1>4, <4>1
      <4>3. t[i][1] = n /\ given'[n].key = key
        <5>1. <<n, k>>[1] = n /\ [key |-> key, parts |-> parts].key = key
          OBVIOUS
        <5> QED
          BY <1>1, <4>2, <5>1
      <4>4. CASE key
        BY <4>3, <4>4
      <4>5. CASE ~ key
        <5>1. n - 1 = Len(given)
          BY <1>1
        <5>2. CASE given = <<>>
          <6>1. n = 1
            BY <5>1, <5>2, EmptySeq
          <6> QED
            BY <4>3, <6>1 DEF Excused
        <5>3. CASE Len(given) \in unmapped
          BY <4>3, <5>1, <5>3 DEF Excused
        <5>4. CASE given # <<>> /\ Len(given) \notin unmapped
          <6>1. s # <<>> /\ s[l][1] = Len(given)
            BY <4>5, <5>4 DEF Told, UpToDate
          <6>2. l \in 1 .. l /\ l \in 1 .. i
            BY <1>1, <1>2, <4>1, <6>1, EmptySeq
          <6> QED
            BY <1>6, <4>3, <5>1, <6>1, <6>2
        <5> QED
          BY <5>2, <5>3, <5>4
      <4> QED
        BY <4>4, <4>5
    <3> QED
      BY <3>1, <3>2
  <2> QED
    BY <2>1 DEF Referenced
<1>12. Known(t)'
  <2>1. ASSUME NEW i \in 1 .. Len(t) PROVE t[i][1] \in 1 .. n
    <3>1. CASE i \in 1 .. l
      BY <1>1, <1>5, <1>6, <3>1
    <3>2. CASE i \notin 1 .. l
      <4>1. PICK k \in 1 .. parts : i = l + k
        <5>1. i - l \in 1 .. parts /\ i = l + (i - l)
          BY <1>2, <1>4, <3>2
        <5> QED
          BY <5>1
      <4>2. t[i] = <<n, k>>
        BY <1>4, <4>1
      <4>3. <<n, k>>[1] = n
        OBVIOUS
      <4>4. t[i][1] = n
        BY <4>2, <4>3
      <4>5. n \in 1 .. n
        BY <1>1
      <4> QED
        BY <4>4, <4>5
    <3> QED
      BY <3>1, <3>2
  <2> QED
    BY <1>1, <2>1 DEF Known
<1>13. UpToDate(t)'
  <2>1. parts \in 1 .. parts
    BY <1>2
  <2>2. IsLast(t[Len(t)])' /\ t[Len(t)][1] = n
    BY <1>4, <1>8, <2>1
  <2> QED
    BY <1>1, <1>9, <2>2 DEF UpToDate
<1> QED
  BY <1>10, <1>11, <1>12, <1>13 DEF Told

(* What was sent of the stream was told of already.                        *)
LEMMA PrefixKeeps ==
  ASSUME MoqIInv
  PROVE  WholeFrames(wire) /\ Referenced(wire) /\ Known(wire)
<1> DEFINE s == Stream
<1>1. /\ wire \in Seq(Part) /\ Len(wire) \in Nat /\ Len(pending) \in Nat
      /\ Len(s) = Len(wire) + Len(pending)
      /\ \A i \in 1 .. Len(wire) : s[i] = wire[i] /\ i \in 1 .. Len(s)
  <2>1. wire \in Seq(Part) /\ pending \in Seq(Part)
    BY DEF MoqIInv, Sequenced
  <2> QED
    BY <2>1, ConcatProperties, LenProperties DEF Stream
<1> HIDE DEF s
<1>2. WholeFrames(s) /\ Referenced(s) /\ Known(s)
  BY DEF MoqIInv, Told, s
<1>3. WholeFrames(wire)
  <2>1. ASSUME wire # <<>> PROVE wire[1][2] = 1
    <3>1. 1 \in 1 .. Len(wire)
      BY <1>1, <2>1, EmptySeq
    <3>2. s # <<>>
      <4>1. Len(s) # 0
        BY <1>1, <3>1
      <4> QED
        BY <4>1
    <3> QED
      BY <1>1, <1>2, <3>1, <3>2 DEF WholeFrames
  <2>2. ASSUME NEW i \in 1 .. Len(wire) - 1 PROVE Continues(wire[i], wire[i + 1])
    <3>1. i \in 1 .. Len(wire) /\ i + 1 \in 1 .. Len(wire) /\ i \in 1 .. Len(s) - 1
      BY <1>1
    <3>2. Continues(s[i], s[i + 1])
      BY <1>2, <3>1 DEF WholeFrames
    <3> QED
      BY <1>1, <3>1, <3>2
  <2> QED
    BY <2>1, <2>2 DEF WholeFrames
<1>4. Referenced(wire)
  <2> SUFFICES ASSUME NEW i \in 1 .. Len(wire)
               PROVE  \/ given[wire[i][1]].key \/ Excused(wire[i][1])
                      \/ \E j \in 1 .. i : wire[j][1] = wire[i][1] - 1
    BY DEF Referenced
  <2>1. \/ given[s[i][1]].key \/ Excused(s[i][1])
        \/ \E j \in 1 .. i : s[j][1] = s[i][1] - 1
    BY <1>1, <1>2 DEF Referenced
  <2>2. \A j \in 1 .. i : s[j] = wire[j]
    BY <1>1
  <2>3. s[i] = wire[i]
    BY <1>1
  <2> QED
    BY <2>1, <2>2, <2>3
<1>5. Known(wire)
  BY <1>1, <1>2 DEF Known
<1> QED
  BY <1>3, <1>4, <1>5

-----------------------------------------------------------------------------
LEMMA MoqInitOK == MoqInit => MoqIInv
<1> SUFFICES ASSUME MoqInit PROVE MoqIInv
  OBVIOUS
<1>1. given = <<>> /\ wire = <<>> /\ pending = <<>> /\ ~ lagging /\ open /\ alive
  BY DEF MoqInit
<1>2. given \in Seq(FrameRec) /\ wire \in Seq(Part) /\ pending \in Seq(Part)
  BY <1>1, EmptySeq
<1>3. Sequenced
  <2>1. lagging \in BOOLEAN /\ open \in BOOLEAN /\ alive \in BOOLEAN
    BY DEF MoqInit
  <2> QED
    BY <1>1, <1>2, <2>1 DEF Sequenced
<1>4. Stream = <<>> /\ Len(<<>>) = 0
  BY <1>1, <1>2, ConcatEmptySeq DEF Stream
<1>5. Told(<<>>)
  BY <1>1, <1>4 DEF Told, WholeFrames, Referenced, Known, UpToDate
<1> QED
  BY <1>3, <1>4, <1>5 DEF MoqIInv

LEMMA Retold ==
  ASSUME NEW s, Told(s)', Stream' = s
  PROVE  Told(Stream)'
BY DEF Told, WholeFrames, Continues, IsLast, Referenced, Excused, Known, UpToDate

(* A frame comes: first what waits is sent, as far as it goes, which       *)
(* changes nothing of the stream.                                          *)
LEMMA PushKeeps ==
  ASSUME MoqIInv, NEW key \in BOOLEAN, NEW parts \in 2 .. MaxParts, Push(key, parts)
  PROVE  MoqIInv'
<1>1. given' = Append(given, [key |-> key, parts |-> parts]) /\ open' = open
  BY DEF Push
<1>2. Sequenced /\ wire \in Seq(Part) /\ pending \in Seq(Part) /\ Told(Stream)
  BY DEF MoqIInv, Sequenced
<1>3. given' \in Seq(FrameRec) /\ Len(given) \in Nat
  BY <1>1, <1>2, Delivered
<1>4. PICK s \in Seq(Part) : s = Stream
  BY <1>2, ConcatProperties DEF Stream
<1>5. Told(s)
  BY <1>2, <1>4
<1>6. CASE ~ open \/ ~ alive
  <2>1. ~ alive
    BY <1>2, <1>6 DEF Sequenced
  <2>2. /\ wire' = wire /\ pending' = pending /\ lagging' = lagging /\ alive' = alive
        /\ unmapped' = unmapped
    BY <1>6 DEF Push
  <2>3. Told(s)'
    BY <1>1, <1>2, <1>5, <2>1, <2>2, UnsentKeeps
  <2>4. Stream' = s
    BY <1>4, <2>2 DEF Stream
  <2>5. Sequenced'
    BY <1>1, <1>2, <1>3, <2>2 DEF Sequenced
  <2> QED
    BY <2>3, <2>4, <2>5, Retold DEF MoqIInv
<1>7. CASE open /\ alive
  <2> DEFINE frame == [p \in 1 .. parts |-> <<Len(given) + 1, p>>]
  <2>1. PICK flushed \in 0 .. Len(pending) :
          LET out  == wire \o Front(pending, flushed)
              tail == Back(pending, flushed)
          IN  \/ /\ wire' = out /\ pending' = tail
                 /\ tail # <<>> /\ alive' = FALSE
                 /\ UNCHANGED <<lagging, unmapped>>
              \/ /\ wire' = out /\ pending' = tail
                 /\ Refuse(key, tail)
              \/ Send(key, frame, out, tail)
    BY <1>7 DEF Push
  <2> DEFINE out  == wire \o Front(pending, flushed)
             tail == Back(pending, flushed)
  <2>2. out \in Seq(Part) /\ tail \in Seq(Part) /\ out \o tail = s
    BY <1>2, <1>4, CutAndJoin DEF Stream
  <2> HIDE DEF frame, out, tail
  <2>3. \/ /\ wire' = out /\ pending' = tail
           /\ tail # <<>> /\ alive' = FALSE
           /\ UNCHANGED <<lagging, unmapped>>
        \/ /\ wire' = out /\ pending' = tail
           /\ Refuse(key, tail)
        \/ Send(key, frame, out, tail)
    BY <2>1 DEF frame, out, tail
  <2>4. CASE /\ wire' = out /\ pending' = tail
             /\ alive' \in BOOLEAN /\ lagging' \in BOOLEAN /\ unmapped \subseteq unmapped'
             /\ alive' => lagging' \/ Len(given) + 1 \in unmapped'
    <3>1. Told(s)'
      BY <1>1, <1>2, <1>5, <1>7, <2>4, UnsentKeeps
    <3>2. Stream' = s
      BY <2>2, <2>4 DEF Stream
    <3>3. Sequenced'
      BY <1>1, <1>2, <1>3, <1>7, <2>2, <2>4 DEF Sequenced
    <3> QED
      BY <3>1, <3>2, <3>3, Retold DEF MoqIInv
  <2>5. CASE /\ WireAdmits(key, Behind(tail)) /\ lagging' = FALSE /\ alive' = alive
             /\ unmapped' = unmapped
             /\ \E k \in 0 .. Len(frame) : /\ wire' = out \o Front(frame, k)
                                           /\ pending' = Rest(frame, k)
    <3>1. tail = <<>> /\ (key \/ ~ lagging)
      BY <2>5 DEF WireAdmits, Behind
    <3>3. out = s
      BY <2>2, <3>1, ConcatEmptySeq
    <3>4. PICK n \in Nat : n = Len(given) + 1
      BY <1>3
    <3>5. frame \in Seq(Part) /\ frame = [p \in 1 .. parts |-> <<n, p>>]
      <4>1. \A p \in 1 .. parts : <<n, p>> \in Part
        BY MoqAssumption DEF Part
      <4>2. parts \in Nat
        BY MoqAssumption
      <4>3. frame = [p \in 1 .. parts |-> <<n, p>>]
        BY <3>4 DEF frame
      <4> QED
        BY <4>1, <4>2, <4>3
    <3>6. PICK f \in Seq(Part) : f = frame
      BY <3>5
    <3>7. PICK t \in Seq(Part) : t = s \o f
      BY ConcatProperties
    <3>8. Told(t)'
      BY <1>1, <1>2, <1>5, <1>7, <2>5, <3>1, <3>4, <3>5, <3>6, <3>7, SentKeeps
    <3>9. PICK k \in 0 .. Len(f) : wire' = s \o Front(f, k) /\ pending' = Back(f, k)
      BY <2>5, <3>3, <3>6 DEF Rest
    <3>10. wire' \in Seq(Part) /\ pending' \in Seq(Part) /\ Stream' = t
      BY <3>7, <3>9, CutAndJoin DEF Stream
    <3>11. Sequenced'
      BY <1>1, <1>2, <1>3, <1>7, <2>5, <3>10 DEF Sequenced
    <3> QED
      BY <3>8, <3>10, <3>11, Retold DEF MoqIInv
  <2>6. lagging \in BOOLEAN
    BY <1>2 DEF Sequenced
  <2>7. CASE Refuse(key, tail) /\ wire' = out /\ pending' = tail
    BY <1>7, <2>4, <2>7 DEF Refuse
  <2>8. CASE Send(key, frame, out, tail)
    <3>1. CASE /\ wire' = out /\ pending' = tail /\ lagging' = FALSE
               /\ unmapped' = unmapped \cup {Len(given) + 1} /\ alive' = alive
      BY <1>7, <2>4, <3>1
    <3> QED
      BY <1>7, <2>4, <2>5, <2>8, <3>1 DEF Send
  <2> QED
    BY <2>3, <2>4, <2>6, <2>7, <2>8
<1> QED
  BY <1>6, <1>7

LEMMA StopKeeps ==
  ASSUME MoqIInv, StopMoq
  PROVE  MoqIInv'
<1>1. /\ open' = FALSE /\ alive' = FALSE /\ pending' = <<>>
      /\ given' = given /\ wire' = wire /\ lagging' = lagging /\ unmapped' = unmapped
  BY DEF StopMoq
<1>2. Sequenced /\ wire \in Seq(Part)
  BY DEF MoqIInv, Sequenced
<1>3. Sequenced'
  BY <1>1, <1>2, EmptySeq DEF Sequenced
<1>4. Stream' = wire
  BY <1>1, <1>2, ConcatEmptySeq DEF Stream
<1>5. PICK s \in Seq(Part) : s = wire
  BY <1>2
<1>6. WholeFrames(s) /\ Referenced(s) /\ Known(s)
  BY <1>5, PrefixKeeps
<1>7. Told(s)'
  BY <1>1, <1>6 DEF Told, WholeFrames, Continues, IsLast, Referenced, Excused, Known, UpToDate
<1> QED
  BY <1>3, <1>4, <1>5, <1>7, Retold DEF MoqIInv

LEMMA MoqInvariant == MoqSpec => []MoqIInv
<1>1. MoqIInv /\ [MoqNext]_moqVars => MoqIInv'
  <2> SUFFICES ASSUME MoqIInv, [MoqNext]_moqVars PROVE MoqIInv'
    OBVIOUS
  <2>1. CASE StopMoq
    BY <2>1, StopKeeps
  <2>2. ASSUME NEW key \in BOOLEAN, NEW parts \in 2 .. MaxParts, Push(key, parts)
        PROVE  MoqIInv'
    BY <2>2, PushKeeps
  <2>3. CASE UNCHANGED moqVars
    BY <2>3 DEF moqVars, MoqIInv, Sequenced, Stream, Told, WholeFrames, Continues, IsLast,
                Referenced, Excused, Known, UpToDate
  <2> QED
    BY <2>1, <2>2, <2>3 DEF MoqNext
<1> QED
  BY <1>1, MoqInitOK, PTL DEF MoqSpec

-----------------------------------------------------------------------------
(* However full the socket is, and whatever part of a frame it takes each  *)
(* time, what a MoQ reader gets is whole frames, the last perhaps cut by   *)
(* the end of the connection; each is a keyframe or comes after the frame  *)
(* it was predicted from, unless it is the first of all or that frame      *)
(* could not be mapped.                                                    *)
THEOREM MoqReaderIsServed == MoqSpec => []ReaderIsServed
<1>1. MoqIInv => ReaderIsServed
  <2> SUFFICES ASSUME MoqIInv PROVE ReaderIsServed
    OBVIOUS
  <2>1. FramesAreWhole
    BY DEF FramesAreWhole, MoqIInv, Told, WholeFrames, Continues, UpToDate, Stream
  <2>2. WireDecodable
    <3> DEFINE got == {wire[i][1] : i \in 1 .. Len(wire)}
    <3>1. Referenced(wire) /\ Len(wire) \in Nat
      BY PrefixKeeps, LenProperties DEF MoqIInv, Sequenced
    <3>2. ASSUME NEW n \in got PROVE given[n].key \/ n - 1 \in got \/ Excused(n)
      <4>1. PICK i \in 1 .. Len(wire) : n = wire[i][1]
        OBVIOUS
      <4>2. \/ given[wire[i][1]].key \/ Excused(wire[i][1])
            \/ \E j \in 1 .. i : wire[j][1] = wire[i][1] - 1
        BY <3>1 DEF Referenced
      <4>3. \A j \in 1 .. i : j \in 1 .. Len(wire)
        BY <3>1
      <4> QED
        BY <4>1, <4>2, <4>3
    <3> QED
      BY <3>2 DEF WireDecodable, Excused
  <2> QED
    BY <2>1, <2>2 DEF ReaderIsServed
<1> QED
  BY <1>1, MoqInvariant, PTL

-----------------------------------------------------------------------------
(***************************************************************************)
(* From end to end: the fan-out gives the recorder the stream its push     *)
(* expects, and a MoQ viewer too, so what PushFeed, MoqFeed and SinkFanout *)
(* prove apart holds of the camera's own frames.  `Handed` ties them       *)
(* together: what the push was offered is the beginning of what the        *)
(* fan-out has handed it.                                                  *)
(***************************************************************************)

Handed ==
  /\ offered \in Seq(BOOLEAN) /\ Len(offered) <= Len(heard[Recorder])
  /\ \A i \in 1 .. Len(offered) : offered[i] = stream[heard[Recorder][i]].key

-----------------------------------------------------------------------------
(* Every step of the path is a step of the fan-out, or leaves it alone.    *)
LEMMA PathFansOut == PathSpec => Spec
<1>1. PathInit => Init
  BY DEF PathInit
<1>2. [PathNext]_pathVars => [Next]_vars
  <2> SUFFICES ASSUME [PathNext]_pathVars PROVE [Next]_vars
    OBVIOUS
  <2>1. CASE FanOut
    BY <2>1 DEF FanOut, Next
  <2>2. CASE Record \/ View \/ Muxer \/ Hangup \/ UNCHANGED pathVars
    BY <2>2 DEF Record, View, Muxer, Hangup, pathVars
  <2> QED
    BY <2>1, <2>2 DEF PathNext
<1> QED
  BY <1>1, <1>2, PTL DEF PathSpec, Spec

(* Nothing a consumer heard, and no frame of the stream, is ever revised.  *)
LEMMA HistoryGrows ==
  ASSUME IInv, FanOut, NEW c \in Consumers
  PROVE  /\ Len(heard[c]) <= Len(heard'[c])
         /\ \A i \in 1 .. Len(heard[c]) : heard'[c][i] = heard[c][i]
         /\ \A n \in 1 .. Now : stream'[n] = stream[n]
<1>1. /\ stream \in Seq(Frame) /\ heard \in [Consumers -> Seq(Nat)]
      /\ gop \in Seq(Nat) /\ Now \in Nat
  BY DEF IInv, TypeOK, Now
<1>2. Len(heard[c]) \in Nat /\ heard[c] \in Seq(Nat)
  BY <1>1
<1>3. CASE Deliver
  <2>1. PICK frame \in Frame : stream' = Append(stream, frame)
    BY <1>3 DEF Deliver
  <2>2. heard' = heard
    BY <1>3 DEF Deliver
  <2> QED
    BY <1>1, <1>2, <2>1, <2>2 DEF Now
<1>4. CASE Clear
  BY <1>1, <1>2, <1>4 DEF Clear
<1>5. ASSUME NEW d \in Consumers, Add(d)
      PROVE  /\ Len(heard[c]) <= Len(heard'[c])
             /\ \A i \in 1 .. Len(heard[c]) : heard'[c][i] = heard[c][i]
             /\ stream' = stream
  <2>1. /\ stream' = stream
        /\ heard' = [heard EXCEPT ![d] = gop] \/ heard' = heard
        /\ state[d] = "absent"
    BY <1>5 DEF Add
  <2>2. heard[d] = <<>>
    BY <2>1 DEF IInv, ServedUpTo
  <2>3. CASE c = d
    <3>1. Len(heard[c]) = 0
      BY <2>2, <2>3
    <3>2. heard'[c] = gop \/ heard'[c] = heard[c]
      BY <1>1, <2>1, <2>3
    <3> QED
      BY <1>1, <1>2, <2>1, <3>1, <3>2
  <2>4. CASE c # d
    <3>1. heard'[c] = heard[c]
      BY <1>1, <2>1, <2>4
    <3> QED
      BY <1>2, <2>1, <3>1
  <2> QED
    BY <2>3, <2>4
<1>6. ASSUME NEW d \in Consumers, CallSink(d)
      PROVE  /\ Len(heard[c]) <= Len(heard'[c])
             /\ \A i \in 1 .. Len(heard[c]) : heard'[c][i] = heard[c][i]
             /\ stream' = stream
  <2>1. stream' = stream /\ heard' = [heard EXCEPT ![d] = Append(@, Now)]
    BY <1>6 DEF CallSink
  <2>2. heard'[c] = heard[c] \/ heard'[c] = Append(heard[c], Now)
    BY <1>1, <2>1
  <2> QED
    BY <1>1, <1>2, <2>1, <2>2
<1>7. ASSUME NEW d \in Consumers, Remove(d)
      PROVE  heard' = heard /\ stream' = stream
  BY <1>7 DEF Remove
<1> QED
  BY <1>2, <1>3, <1>4, <1>5, <1>6, <1>7 DEF FanOut

-----------------------------------------------------------------------------
LEMMA RecordIsOffer ==
  ASSUME IInv, Handed, Record
  PROVE  /\ Handed'
         /\ \E key \in BOOLEAN, size \in 1 .. MaxSize : Offer(key, size)
<1> DEFINE n == Len(offered) + 1
           frame == stream[heard[Recorder][n]]
<1>1. /\ Recorder \in Consumers /\ heard \in [Consumers -> Seq(Nat)]
      /\ stream \in Seq(Frame) /\ Len(heard[Recorder]) \in Nat
      /\ Len(offered) \in Nat /\ offered \in Seq(BOOLEAN)
  BY PathAssumption DEF IInv, TypeOK, Handed
<1>2. n \in 1 .. Len(heard[Recorder])
  BY <1>1 DEF Record
<1>3. heard[Recorder][n] \in 1 .. Len(stream)
  BY <1>1, <1>2 DEF IInv, HeardIsARun, Now
<1>4. frame \in Frame
  BY <1>1, <1>3
<1>5. frame.key \in BOOLEAN /\ frame.size \in 1 .. MaxSize
  BY <1>4, PathAssumption DEF Frame
<1>6. Offer(frame.key, frame.size) /\ stream' = stream /\ heard' = heard
  BY DEF Record, vars
<1>7. /\ offered' \in Seq(BOOLEAN) /\ Len(offered') = n /\ offered'[n] = frame.key
      /\ \A i \in 1 .. Len(offered) : offered'[i] = offered[i]
  BY <1>1, <1>5, <1>6 DEF Offer
<1>8. Handed'
  <2>1. ASSUME NEW i \in 1 .. n PROVE offered'[i] = stream[heard[Recorder][i]].key
    <3>1. i = n \/ i \in 1 .. Len(offered)
      BY <1>1
    <3> QED
      BY <1>7, <3>1 DEF Handed
  <2> QED
    BY <1>1, <1>2, <1>6, <1>7, <2>1 DEF Handed
<1> QED
  BY <1>5, <1>6, <1>8

LEMMA OthersKeepHanded ==
  ASSUME IInv, Handed, FanOut \/ View \/ Muxer \/ Hangup \/ UNCHANGED pathVars
  PROVE  Handed'
<1>1. Recorder \in Consumers
  BY PathAssumption
<1>2. CASE FanOut
  <2>1. offered' = offered /\ Len(offered) = Len(heard[Recorder])
    BY <1>2 DEF FanOut, Settled, pushVars
  <2>2. /\ Len(heard[Recorder]) <= Len(heard'[Recorder])
        /\ \A i \in 1 .. Len(heard[Recorder]) : heard'[Recorder][i] = heard[Recorder][i]
        /\ \A n \in 1 .. Now : stream'[n] = stream[n]
    BY <1>1, <1>2, HistoryGrows
  <2>3. \A i \in 1 .. Len(heard[Recorder]) : heard[Recorder][i] \in 1 .. Now
    BY <1>1 DEF IInv, HeardIsARun
  <2> QED
    BY <2>1, <2>2, <2>3 DEF Handed
<1>3. CASE View \/ Muxer \/ Hangup \/ UNCHANGED pathVars
  <2>1. offered' = offered /\ heard' = heard /\ stream' = stream
    BY <1>3 DEF View, Muxer, Drain, StopPush, Hangup, pathVars, pushVars, vars
  <2> QED
    BY <2>1 DEF Handed
<1> QED
  BY <1>2, <1>3

LEMMA AlwaysHanded == PathSpec => [](IInv /\ Handed)
<1>1. PathInit => Handed
  <2> SUFFICES ASSUME PathInit PROVE Handed
    OBVIOUS
  <2>1. offered = <<>> /\ heard = [c \in Consumers |-> <<>>] /\ Recorder \in Consumers
    BY PathAssumption DEF PathInit, Init, PushInit
  <2>2. heard[Recorder] = <<>>
    BY <2>1
  <2> QED
    BY <2>1, <2>2 DEF Handed
<1>2. IInv /\ Handed /\ [PathNext]_pathVars => Handed'
  BY RecordIsOffer, OthersKeepHanded DEF PathNext
<1>3. PathSpec => []IInv
  BY PathFansOut, Inductive, PTL
<1> QED
  BY <1>1, <1>2, <1>3, PTL DEF PathSpec

(* The recorder's half of the path is PushFeed: it is offered frames of    *)
(* the camera of a size PushFeed allows for, one after another, and        *)
(* nothing else of the path touches its queue or its gate.                 *)
THEOREM PathImplementsPush == PathSpec => PushSpec
<1>1. PathInit => PushInit
  BY DEF PathInit
<1>2. IInv /\ Handed /\ [PathNext]_pathVars => [PushNext]_pushVars
  <2> SUFFICES ASSUME IInv, Handed, [PathNext]_pathVars PROVE [PushNext]_pushVars
    OBVIOUS
  <2>1. CASE Record
    BY <2>1, RecordIsOffer DEF PushNext
  <2>2. CASE Muxer
    BY <2>2 DEF Muxer, PushNext
  <2>3. CASE FanOut \/ View \/ Hangup \/ UNCHANGED pathVars
    BY <2>3 DEF FanOut, View, Hangup, pathVars
  <2> QED
    BY <2>1, <2>2, <2>3 DEF PathNext
<1> QED
  BY <1>1, <1>2, AlwaysHanded, PTL DEF PathSpec, PushSpec

(* Whatever was dropped, wherever the consumer was primed: a frame of the  *)
(* camera that is recorded is a keyframe, or follows a recorded one, or is *)
(* the first the camera sent.                                              *)
THEOREM PathFootageDecodes == PathSpec => []FootageDecodes
<1>1. IInv /\ Handed /\ PushIInv => FootageDecodes
  <2> SUFFICES ASSUME IInv, Handed, PushIInv,
                      NEW i \in sent,
                      ~ stream[heard[Recorder][i]].key, heard[Recorder][i] # 1
               PROVE  \E j \in sent : heard[Recorder][j] = heard[Recorder][i] - 1
    BY DEF FootageDecodes
  <2>1. i \in 1 .. Len(offered) /\ sent \subseteq 1 .. Len(offered) /\ Len(offered) \in Nat
    BY DEF PushIInv, PushTypeOK
  <2>2. ~ offered[i]
    BY <2>1 DEF Handed
  <2>3. i - 1 \in sent
    <3>1. Recorder \in Consumers /\ heard[Recorder] \in Seq(Nat)
      BY PathAssumption DEF IInv, TypeOK
    <3>2. i # 1
      <4>1. i = 1 => heard[Recorder] # <<>>
        BY <2>1, <3>1 DEF Handed
      <4> QED
        BY <3>1, <4>1 DEF IInv, HeardOpensAGop, StartsAtGop
    <3> QED
      BY <2>2, <3>2 DEF PushIInv, Decodable
  <2>4. /\ Recorder \in Consumers /\ Len(heard[Recorder]) \in Nat
        /\ Len(offered) <= Len(heard[Recorder])
    BY PathAssumption DEF IInv, TypeOK, Handed
  <2>5. \A k \in 1 .. Len(heard[Recorder]) :
          /\ heard[Recorder][k] = heard[Recorder][1] + k - 1
          /\ heard[Recorder][k] \in 1 .. Now
    BY <2>4 DEF IInv, HeardIsARun
  <2>6. heard[Recorder][i - 1] = heard[Recorder][i] - 1
    <3>1. {1, i, i - 1} \subseteq 1 .. Len(heard[Recorder])
      BY <2>1, <2>3, <2>4
    <3> DEFINE h == heard[Recorder]
    <3>2. i \in Int /\ h[1] \in 1 .. Now /\ Now \in Int
      BY <2>1, <2>5, <3>1 DEF IInv, TypeOK, Now
    <3>3. h[i] = h[1] + i - 1 /\ h[i - 1] = h[1] + (i - 1) - 1
      BY <2>5, <3>1
    <3> HIDE DEF h
    <3>4. h[i - 1] = h[i] - 1
      BY <3>2, <3>3
    <3> QED
      BY <3>4 DEF h
  <2> QED
    BY <2>3, <2>6
<1> QED
  BY <1>1, AlwaysHanded, PathImplementsPush, PushInductive, PTL

-----------------------------------------------------------------------------
(* The viewer's half of the path.                                          *)
Given == given \in Seq(FrameRec)

LEMMA ViewIsPush ==
  ASSUME IInv, Given, View
  PROVE  /\ Given'
         /\ \E key \in BOOLEAN, parts \in 2 .. MaxParts : Push(key, parts)
<1> DEFINE n == Len(given) + 1
           frame == stream[heard[Viewer][n]]
<1>1. /\ Viewer \in Consumers /\ heard \in [Consumers -> Seq(Nat)]
      /\ stream \in Seq(Frame) /\ Len(heard[Viewer]) \in Nat
      /\ given \in Seq(FrameRec) /\ Len(given) \in Nat
  BY PathAssumption DEF IInv, TypeOK, Given
<1>2. n \in 1 .. Len(heard[Viewer])
  BY <1>1 DEF View
<1>3. heard[Viewer][n] \in 1 .. Len(stream)
  BY <1>1, <1>2 DEF IInv, HeardIsARun, Now
<1>4. frame \in Frame
  BY <1>1, <1>3
<1>5. frame.key \in BOOLEAN /\ frame.size + 1 \in 2 .. MaxParts
  <2>1. frame.key \in BOOLEAN /\ frame.size \in 1 .. MaxSize
    BY <1>4, PathAssumption DEF Frame
  <2>2. MaxSize \in Nat /\ MaxParts \in Nat /\ MaxSize < MaxParts
    BY PathAssumption, FeedAssumption, MoqAssumption
  <2>3. \A size \in 1 .. MaxSize : size + 1 \in 2 .. MaxParts
    BY <2>2
  <2> QED
    BY <2>1, <2>3
<1>6. Push(frame.key, frame.size + 1)
  BY DEF View
<1> HIDE DEF frame
<1>7. [key |-> frame.key, parts |-> frame.size + 1] \in FrameRec
  BY <1>5 DEF FrameRec
<1>8. Given'
  BY <1>1, <1>6, <1>7, AppendProperties DEF Given, Push
<1> QED
  BY <1>5, <1>6, <1>8

LEMMA OthersKeepGiven ==
  FanOut \/ Record \/ Muxer \/ Hangup \/ UNCHANGED pathVars
    => UNCHANGED moqVars \/ (StopMoq /\ given' = given)
BY DEF FanOut, Record, Muxer, Hangup, StopMoq, pathVars, moqVars

(* The viewer's half of the path is MoqFeed: frames of the camera, cut     *)
(* into as many parts as MoqFeed allows for, are pushed one after another, *)
(* and the socket is closed once, after the source was left.               *)
THEOREM PathImplementsMoq == PathSpec => MoqSpec
<1>1. PathInit => MoqInit /\ Given
  BY EmptySeq DEF PathInit, MoqInit, Given
<1>2. IInv /\ Given /\ [PathNext]_pathVars => Given' /\ [MoqNext]_moqVars
  <2> SUFFICES ASSUME IInv, Given, [PathNext]_pathVars
               PROVE  Given' /\ [MoqNext]_moqVars
    OBVIOUS
  <2>1. CASE View
    BY <2>1, ViewIsPush DEF MoqNext
  <2>2. CASE FanOut \/ Record \/ Muxer \/ Hangup \/ UNCHANGED pathVars
    BY <2>2, OthersKeepGiven DEF Given, MoqNext, moqVars
  <2> QED
    BY <2>1, <2>2 DEF PathNext
<1>3. PathSpec => []IInv
  BY PathFansOut, Inductive, PTL
<1> QED
  BY <1>1, <1>2, <1>3, PTL DEF PathSpec, MoqSpec

(* From the camera to the browser: a reader that joins at any moment, over *)
(* a socket of any size, gets whole frames, and each but the first has its *)
(* reference unless that could not be mapped.                              *)
THEOREM PathReaderIsServed == PathSpec => []ReaderIsServed
BY PathImplementsMoq, MoqReaderIsServed, PTL


-----------------------------------------------------------------------------
(***************************************************************************)
(* A recording played.  The invariant says where the feeder stands in the  *)
(* file that is open: what was shown is older than all it has yet to show  *)
(* from it, and no newer than the file's end, beyond which the next one is *)
(* looked for.                                                             *)
(***************************************************************************)
Shots == {x \in [file : Files, n : Nat] : x.n \in DOMAIN x.file.frames}

PlayTypes ==
  /\ complete \subseteq Files /\ rate \in Rates \cup {1} /\ seekTo \in Instants \cup {None}
  /\ paused \in BOOLEAN /\ running \in BOOLEAN /\ ended \in BOOLEAN
  /\ asked \in Instants \cup {None} /\ taken \in Instants \cup {None} /\ shown \in Seq(Shots)
  /\ feeder \in [at : At, rate : Rates \cup {1}, target : Instants \cup {None}, frame : Shots \cup {None}]

(* An open file, and how far it was read.                                  *)
Reading(f) ==
  /\ f \in [file : Files, next : Nat, catchUp : Nat] /\ f # Closed
  /\ f.next \in 1 .. Len(f.file.frames) + 1 /\ f.catchUp <= f.file.end

Upcoming(f) == {x \in Shots : x.file = f.file /\ x.n >= f.next /\ Wall(x) >= f.catchUp}

(* All that s shows is older than all that f has still to show.            *)
Precedes(s, f) ==
  \A i \in DOMAIN s : Wall(s[i]) <= f.file.end /\ \A x \in Upcoming(f) : Wall(s[i]) < Wall(x)

FileIsAhead ==
  file # Closed => Reading(file) /\ (feeder.at # "open" => taken <= file.catchUp /\ Precedes(shown, file))

FrameIsAhead ==
  feeder.at = "due" =>
    /\ feeder.frame \in Shots /\ feeder.frame.file = file.file /\ feeder.frame.n = file.next - 1
    /\ Wall(feeder.frame) >= file.catchUp /\ \A i \in DOMAIN shown : Wall(shown[i]) < Wall(feeder.frame)

SeekIsFresh ==
  /\ feeder.at = "open" <=> feeder.target # None
  /\ feeder.at = "open" => shown = <<>> /\ taken = feeder.target
  /\ feeder.at \in {"pull", "due"} => file # Closed

PlayInv == PlayTypes /\ SeekIsFresh /\ FileIsAhead /\ FrameIsAhead /\ ShownInOrder

LEMMA FileFacts ==
  ASSUME NEW f \in Files
  PROVE  /\ f.start \in Nat /\ f.end \in Nat /\ f.start < f.end
         /\ Len(f.frames) \in Nat \ {0} /\ DOMAIN f.frames = 1 .. Len(f.frames)
         /\ \A n \in 1 .. Len(f.frames) : f.frames[n].at \in Nat
<1>1. f \in [start : Nat, end : Nat, frames : Seq([at : Nat, key : BOOLEAN])] /\ f.end > f.start /\ f.frames # <<>>
  BY PlaybackAssumption
<1>2. f.frames \in Seq([at : Nat, key : BOOLEAN]) /\ f.start \in Nat /\ f.end \in Nat
  BY <1>1
<1> DEFINE s == f.frames
           R == [at : Nat, key : BOOLEAN]
<1>3. s \in Seq(R) /\ s # <<>> /\ \A r \in R : r.at \in Nat
  BY <1>1, <1>2
<1> HIDE DEF s, R
<1>4. Len(s) \in Nat \ {0} /\ DOMAIN s = 1 .. Len(s) /\ \A n \in 1 .. Len(s) : s[n].at \in Nat
  BY <1>3, EmptySeq, LenProperties, ElementOfSeq
<1> QED BY <1>1, <1>2, <1>4 DEF s

(* What FramesAssumption says of instants.                                 *)
LEMMA WallFacts ==
  /\ \A x \in Shots : Wall(x) \in Nat /\ Wall(x) <= x.file.end /\ x.file \in Files /\ x.n \in Nat
  /\ \A x, y \in Shots : x.file = y.file /\ x.n < y.n => Wall(x) < Wall(y)
<1>1. ASSUME NEW x \in Shots
      PROVE  /\ x.file \in Files /\ x.n \in DOMAIN x.file.frames /\ x.n \in Nat
             /\ x.file.start \in Nat /\ x.file.frames[x.n].at \in Nat
  BY <1>1, FileFacts DEF Shots
<1>2. ASSUME NEW x \in Shots PROVE Wall(x) \in Nat /\ Wall(x) <= x.file.end
  BY <1>1, FramesAssumption DEF Wall
<1>3. ASSUME NEW x \in Shots, NEW y \in Shots, x.file = y.file, x.n < y.n PROVE Wall(x) < Wall(y)
  <2>1. x.file.frames[x.n].at < x.file.frames[y.n].at
    BY <1>1, <1>3, FramesAssumption
  <2> QED BY <1>1, <1>3, <2>1 DEF Wall
<1> QED BY <1>1, <1>2, <1>3

LEMMA Least ==
  ASSUME NEW T \in SUBSET Nat, T # {}
  PROVE  \E x \in T : \A y \in T : x <= y
<1> DEFINE R == {p \in Nat \X Nat : p[1] < p[2]}
<1>1. IsWellFoundedOn(OpToRel(<, Nat), Nat)
  BY NatLessThanWellFounded
<1>2. R = OpToRel(<, Nat)
  BY DEF OpToRel
<1>3. IsWellFoundedOn(R, Nat)
  BY <1>1, <1>2
<1> HIDE DEF R
<1>4. PICK x \in T : \A y \in T : ~ (<<y, x>> \in R)
  BY <1>3, WFMin
<1>5. \A y \in T : ~ (y < x)
  BY <1>4 DEF R
<1> QED BY <1>5

LEMMA EarliestIsThere ==
  ASSUME NEW S \in SUBSET Files, S # {} PROVE Earliest(S) \in S
<1> DEFINE T == {f.start : f \in S}
<1>1. T \in SUBSET Nat /\ T # {}
  BY FileFacts
<1>2. \A t \in T : \E f \in S : f.start = t
  OBVIOUS
<1>3. \A f \in S : f.start \in T
  OBVIOUS
<1> HIDE DEF T
<1>4. PICK t \in T : \A u \in T : t <= u
  BY <1>1, Least
<1>5. PICK f \in S : f.start = t
  BY <1>2
<1>6. \A g \in S : f.start <= g.start
  BY <1>3, <1>4, <1>5
<1> QED BY <1>6 DEF Earliest

(* A file is opened at the instant looked for, or at a later one.          *)
LEMMA OpenedIsAhead ==
  ASSUME complete \subseteq Files, NEW at \in Nat, SeekPoint(at) # Closed,
         NEW f \in Opened(SeekPoint(at))
  PROVE  Reading(f) /\ at <= f.catchUp
<1> DEFINE S == {g \in complete : InWindow(g, at) /\ (Covers(g, at) \/ at <= g.start)}
           g == Earliest(S)
           offset == IF Covers(g, at) THEN at - g.start ELSE 0
           point == SeekPoint(at)
<1>1. S # {} /\ point = [file |-> g, offset |-> offset]
  BY DEF SeekPoint
<1>2. g \in S /\ g \in Files
  BY <1>1, EarliestIsThere
<1>3. g \in Files /\ (Covers(g, at) \/ at <= g.start)
  BY <1>2
<1> HIDE DEF g, S
<1>4. /\ g.start \in Nat /\ g.end \in Nat /\ g.start < g.end
      /\ Len(g.frames) \in Nat \ {0} /\ DOMAIN g.frames = 1 .. Len(g.frames)
  BY <1>3, FileFacts
<1>5. /\ offset \in Nat /\ g.start + offset \in Nat /\ at <= g.start + offset
      /\ g.start + offset <= g.end
  BY <1>3, <1>4 DEF Covers
<1> HIDE DEF offset
<1>6. point.file = g /\ point.offset = offset
  BY <1>1
<1> HIDE DEF point
<1>7. PICK n \in DOMAIN g.frames \cup {1} : f = [file |-> g, next |-> n, catchUp |-> g.start + offset]
  BY <1>6 DEF Opened, Landings, point
<1>8. n \in 1 .. Len(g.frames) + 1 /\ n \in Nat
  BY <1>4, <1>7
<1>9. f # Closed
  <2>1. DOMAIN f = {"file", "next", "catchUp"} /\ DOMAIN Closed = {"start"}
    BY <1>7 DEF Closed
  <2> QED BY <2>1
<1> QED BY <1>3, <1>5, <1>7, <1>8, <1>9 DEF Reading


(* A control, or a row that comes or goes: the feeder is where it was.     *)
LEMMA ControlKeeps ==
  ASSUME PlayInv, PlayTypes', UNCHANGED <<feeder, shown, taken>>, file' \in {file, Closed},
         file' = Closed => feeder.at = "done" \/ file = Closed
  PROVE  PlayInv'
<1>1. SeekIsFresh'
  BY DEF PlayInv, SeekIsFresh
<1>2. FileIsAhead'
  BY DEF PlayInv, FileIsAhead, Precedes, Upcoming
<1>3. FrameIsAhead'
  BY DEF PlayInv, SeekIsFresh, FrameIsAhead
<1>4. ShownInOrder'
  BY DEF PlayInv, ShownInOrder, RunbackIsHidden, NothingTwice
<1> QED BY <1>1, <1>2, <1>3, <1>4 DEF PlayInv

(* The next file is opened, or there is none.                              *)
LEMMA NextKeeps ==
  ASSUME PlayInv, PlayTypes', UNCHANGED <<shown, taken>>, feeder'.at \in {"top", "pull"},
         feeder'.target = None, NEW at \in Nat, taken <= at,
         \A i \in DOMAIN shown : Wall(shown[i]) < at,
         \/ file' = Closed /\ feeder'.at = "top"
         \/ SeekPoint(at) # Closed /\ file' \in Opened(SeekPoint(at))
  PROVE  PlayInv'
<1>1. file' # Closed => Reading(file') /\ at <= file'.catchUp
  BY OpenedIsAhead DEF PlayInv, PlayTypes
<1>2. SeekIsFresh'
  <2>1. feeder'.at = "pull" => file' # Closed
    BY OpenedIsAhead DEF PlayInv, PlayTypes, Reading
  <2> QED BY <2>1 DEF SeekIsFresh
<1>3. FileIsAhead'
  <2> SUFFICES ASSUME file' # Closed
               PROVE  Reading(file') /\ taken <= file'.catchUp /\ Precedes(shown, file')
    BY DEF FileIsAhead
  <2>1. /\ Reading(file') /\ at <= file'.catchUp /\ file'.catchUp \in Nat /\ file'.file.end \in Nat
        /\ file'.catchUp <= file'.file.end
    BY <1>1, FileFacts DEF Reading
  <2>2. taken \in Int
    BY PlaybackAssumption DEF PlayInv, PlayTypes, None
  <2>3. \A i \in DOMAIN shown : Wall(shown[i]) \in Nat
    BY WallFacts, LenProperties, ElementOfSeq DEF PlayInv, PlayTypes
  <2>4. \A x \in Upcoming(file') : Wall(x) \in Nat /\ file'.catchUp <= Wall(x)
    BY <2>1, WallFacts DEF Upcoming
  <2> QED BY <2>1, <2>2, <2>3, <2>4 DEF Precedes
<1>4. FrameIsAhead' /\ ShownInOrder'
  BY DEF PlayInv, FrameIsAhead, ShownInOrder, RunbackIsHidden, NothingTwice
<1> QED BY <1>2, <1>3, <1>4 DEF PlayInv


LEMMA PlayInitOK == PlayInit => PlayInv
<1> SUFFICES ASSUME PlayInit PROVE PlayInv
  OBVIOUS
<1>1. PlayTypes
  <2>1. feeder \in [at : At, rate : Rates \cup {1}, target : Instants \cup {None}, frame : Shots \cup {None}]
    BY DEF PlayInit, At
  <2>2. seekTo \in Instants /\ complete \subseteq Files /\ shown \in Seq(Shots)
    BY EmptySeq DEF PlayInit
  <2> QED BY <2>1, <2>2 DEF PlayInit, PlayTypes
<1>2. SeekIsFresh /\ FileIsAhead /\ FrameIsAhead
  BY DEF PlayInit, SeekIsFresh, FileIsAhead, FrameIsAhead
<1>3. ShownInOrder
  BY DEF PlayInit, ShownInOrder, RunbackIsHidden, NothingTwice
<1> QED BY <1>1, <1>2, <1>3 DEF PlayInv

LEMMA TopKeeps == ASSUME PlayInv, Top PROVE PlayInv'
<1>1. PlayTypes'
  <2>1. feeder' \in [at : At, rate : Rates \cup {1}, target : Instants \cup {None}, frame : Shots \cup {None}]
    <3>1. CASE seekTo = None
      BY <3>1 DEF Top, PlayInv, PlayTypes, At
    <3>2. CASE seekTo # None
      BY <3>2 DEF Top, PlayInv, PlayTypes, At
    <3> QED BY <3>1, <3>2
  <2>2. shown' \in Seq(Shots) /\ seekTo' \in Instants \cup {None} /\ taken' \in Instants \cup {None}
    <3>1. CASE seekTo = None
      BY <3>1 DEF Top, PlayInv, PlayTypes
    <3>2. CASE seekTo # None
      BY <3>2, EmptySeq DEF Top, TakeSeek, PlayInv, PlayTypes
    <3> QED BY <3>1, <3>2
  <2> QED BY <2>1, <2>2 DEF Top, PlayInv, PlayTypes
<1>2. CASE seekTo = None
  <2>1. /\ file # Closed /\ UNCHANGED <<file, shown, taken>> /\ feeder.at = "top"
        /\ feeder'.at = "pull" /\ feeder'.target = feeder.target
    BY <1>2 DEF Top, PlayInv, PlayTypes
  <2>2. SeekIsFresh' /\ FrameIsAhead'
    BY <2>1 DEF PlayInv, SeekIsFresh, FrameIsAhead
  <2>3. FileIsAhead'
    BY <2>1 DEF PlayInv, FileIsAhead, Precedes, Upcoming
  <2>4. ShownInOrder'
    BY <2>1 DEF PlayInv, ShownInOrder, RunbackIsHidden, NothingTwice
  <2> QED BY <1>1, <2>2, <2>3, <2>4 DEF PlayInv
<1>3. CASE seekTo # None
  <2>1. /\ shown' = <<>> /\ taken' = seekTo /\ file' = file
        /\ feeder' = [at |-> "open", rate |-> rate, target |-> seekTo, frame |-> None]
    BY <1>3 DEF Top, TakeSeek
  <2>2. SeekIsFresh' /\ FrameIsAhead'
    BY <1>3, <2>1 DEF SeekIsFresh, FrameIsAhead
  <2>3. FileIsAhead'
    BY <2>1 DEF PlayInv, FileIsAhead
  <2>4. ShownInOrder'
    BY <2>1 DEF ShownInOrder, RunbackIsHidden, NothingTwice
  <2> QED BY <1>1, <2>2, <2>3, <2>4 DEF PlayInv
<1> QED BY <1>2, <1>3

LEMMA OpenKeeps == ASSUME PlayInv, Open PROVE PlayInv'
<1>1. PlayTypes'
  BY DEF Open, Fails, controls, history, PlayInv, PlayTypes, At
<1>2. /\ UNCHANGED <<shown, taken>> /\ feeder'.at \in {"top", "pull"} /\ feeder'.target = None
      /\ \/ file' = Closed /\ feeder'.at = "top"
         \/ SeekPoint(feeder.target) # Closed /\ file' \in Opened(SeekPoint(feeder.target))
  BY DEF Open, Fails, history, PlayInv, PlayTypes
<1>3. feeder.target \in Nat /\ taken <= feeder.target /\ \A i \in DOMAIN shown : Wall(shown[i]) < feeder.target
  BY PlaybackAssumption DEF Open, PlayInv, PlayTypes, SeekIsFresh
<1> QED BY <1>1, <1>2, <1>3, NextKeeps

LEMMA EndOfFileKeeps == ASSUME PlayInv, EndOfFile PROVE PlayInv'
<1>1. PlayTypes'
  BY DEF EndOfFile, Fails, controls, history, PlayInv, PlayTypes, At
<1> DEFINE at == After(file.file)
<1>2. /\ UNCHANGED <<shown, taken>> /\ feeder'.at = "top" /\ feeder'.target = None
      /\ \/ file' = Closed
         \/ SeekPoint(at) # Closed /\ file' \in Opened(SeekPoint(at))
  BY DEF EndOfFile, Fails, history, PlayInv, PlayTypes, SeekIsFresh
<1>3. /\ Reading(file) /\ taken <= file.catchUp /\ Precedes(shown, file) /\ taken \in Int
      /\ file.file \in Files /\ file.catchUp \in Nat /\ file.catchUp <= file.file.end
      /\ file.file.end \in Nat
  <2>1. Reading(file) /\ taken <= file.catchUp /\ Precedes(shown, file)
    BY DEF EndOfFile, PlayInv, SeekIsFresh, FileIsAhead
  <2>2. taken \in Int
    BY PlaybackAssumption DEF PlayInv, PlayTypes, None
  <2> QED BY <2>1, <2>2, FileFacts DEF Reading
<1>4. at \in Nat /\ taken <= at
  BY <1>3 DEF After
<1>5. \A i \in DOMAIN shown : Wall(shown[i]) < at
  <2>1. \A i \in DOMAIN shown : Wall(shown[i]) \in Nat /\ Wall(shown[i]) <= file.file.end
    BY <1>3, WallFacts, LenProperties, ElementOfSeq DEF PlayInv, PlayTypes, Precedes
  <2> QED BY <1>3, <2>1 DEF After
<1> HIDE DEF at
<1> QED BY <1>1, <1>2, <1>4, <1>5, NextKeeps

(* The next frame of the file, shown or not.                               *)
LEMMA PullKeeps == ASSUME PlayInv, Pull PROVE PlayInv'
<1> DEFINE x == [file |-> file.file, n |-> file.next]
<1>1. /\ Reading(file) /\ taken <= file.catchUp /\ Precedes(shown, file) /\ file # Closed
      /\ file \in [file : Files, next : Nat, catchUp : Nat] /\ file.next \in 1 .. Len(file.file.frames)
  <2>1. Reading(file) /\ taken <= file.catchUp /\ Precedes(shown, file) /\ file # Closed
    BY DEF Pull, PlayInv, SeekIsFresh, FileIsAhead
  <2>2. Len(file.file.frames) \in Nat
    BY <2>1, FileFacts DEF Reading
  <2> QED BY <2>1, <2>2 DEF Pull, Reading
<1>2. x \in Shots /\ x.file = file.file /\ x.n = file.next
  BY <1>1, FileFacts DEF Shots
<1>3. /\ file' = [file EXCEPT !.next = @ + 1] /\ UNCHANGED <<shown, taken>>
      /\ feeder' = IF Skipped(x) THEN [feeder EXCEPT !.at = "top"]
                   ELSE [feeder EXCEPT !.at = "due", !.frame = x]
  BY DEF Pull, history
<1> HIDE DEF x
<1>4. PlayTypes'
  <2>1. PlayTypes
    BY DEF PlayInv
  <2>2. /\ UNCHANGED <<complete, rate, seekTo, paused, running, ended, asked, taken, shown>>
    BY DEF Pull, controls, history
  <2>3. feeder' \in [at : At, rate : Rates \cup {1}, target : Instants \cup {None}, frame : Shots \cup {None}]
    BY <1>2, <1>3, <2>1 DEF PlayTypes, At
  <2> QED BY <2>1, <2>2, <2>3 DEF PlayTypes
<1>5. /\ file'.file = file.file /\ file'.catchUp = file.catchUp /\ file'.next = file.next + 1
      /\ file' \in [file : Files, next : Nat, catchUp : Nat]
  BY <1>1, <1>3
<1>6. Reading(file')
  <2>1. file' # Closed
    <3>1. DOMAIN file' = {"file", "next", "catchUp"} /\ DOMAIN Closed = {"start"}
      BY <1>5 DEF Closed
    <3> QED BY <3>1
  <2>2. file'.next \in 1 .. Len(file'.file.frames) + 1
    BY <1>1, <1>5, FileFacts
  <2> QED BY <1>1, <1>5, <2>1, <2>2 DEF Reading
<1>7. FileIsAhead'
  <2>1. Upcoming(file') \subseteq Upcoming(file)
    BY <1>1, <1>5, WallFacts DEF Upcoming
  <2>2. Precedes(shown, file')
    BY <1>1, <1>5, <2>1 DEF Precedes
  <2> QED BY <1>1, <1>3, <1>5, <1>6, <2>2 DEF FileIsAhead
<1>8. feeder'.target = feeder.target /\ feeder'.at \in {"top", "due"}
  BY <1>3 DEF PlayInv, PlayTypes
<1>9. SeekIsFresh'
  BY <1>3, <1>6, <1>8 DEF Pull, PlayInv, SeekIsFresh, Reading
<1>10. FrameIsAhead'
  <2> SUFFICES ASSUME feeder'.at = "due"
               PROVE  /\ feeder'.frame \in Shots /\ feeder'.frame.file = file'.file
                      /\ feeder'.frame.n = file'.next - 1 /\ Wall(feeder'.frame) >= file'.catchUp
                      /\ \A i \in DOMAIN shown : Wall(shown[i]) < Wall(feeder'.frame)
    BY <1>3 DEF FrameIsAhead
  <2>1. ~ Skipped(x) /\ feeder'.frame = x
    BY <1>3 DEF PlayInv, PlayTypes
  <2>2. Wall(x) >= file.catchUp
    BY <1>1, <1>2, <2>1, WallFacts DEF Skipped
  <2>3. x \in Upcoming(file)
    BY <1>1, <1>2, <2>2 DEF Upcoming
  <2> QED BY <1>1, <1>2, <1>5, <2>1, <2>2, <2>3 DEF Precedes
<1>11. ShownInOrder'
  BY <1>3 DEF PlayInv, ShownInOrder, RunbackIsHidden, NothingTwice
<1> QED BY <1>4, <1>7, <1>9, <1>10, <1>11 DEF PlayInv

LEMMA ShowKeeps == ASSUME PlayInv, Show PROVE PlayInv'
<1> DEFINE x == feeder.frame
<1>1. /\ x \in Shots /\ x.file = file.file /\ x.n = file.next - 1 /\ Wall(x) >= file.catchUp
      /\ \A i \in DOMAIN shown : Wall(shown[i]) < Wall(x)
      /\ Reading(file) /\ taken <= file.catchUp /\ Precedes(shown, file) /\ file # Closed
      /\ taken \in Int
  BY PlaybackAssumption DEF Show, PlayInv, PlayTypes, None, FrameIsAhead, FileIsAhead, SeekIsFresh
<1>2. /\ shown' = Append(shown, x) /\ UNCHANGED <<file, taken>>
      /\ feeder' = [feeder EXCEPT !.at = "top", !.frame = None]
  BY DEF Show
<1> HIDE DEF x
<1>3. /\ shown \in Seq(Shots) /\ Len(shown) \in Nat /\ DOMAIN shown = 1 .. Len(shown)
      /\ \A i \in 1 .. Len(shown) : shown[i] \in Shots
  BY LenProperties, ElementOfSeq DEF PlayInv, PlayTypes
<1>4. /\ shown' \in Seq(Shots) /\ DOMAIN shown' = 1 .. Len(shown) + 1
      /\ \A i \in 1 .. Len(shown) : shown'[i] = shown[i]
      /\ shown'[Len(shown) + 1] = x
  BY <1>1, <1>2, <1>3, AppendProperties, LenProperties
<1>5. PlayTypes'
  BY <1>2, <1>4 DEF Show, controls, PlayInv, PlayTypes, At
<1>6. feeder'.target = feeder.target /\ feeder'.at = "top"
  BY <1>2 DEF PlayInv, PlayTypes
<1>7. SeekIsFresh' /\ FrameIsAhead'
  BY <1>6 DEF Show, PlayInv, SeekIsFresh, FrameIsAhead
<1>8. /\ Wall(x) \in Nat /\ Wall(x) <= file.file.end /\ x.n < file.next
      /\ file.next \in Int /\ x.n \in Nat /\ file.catchUp \in Nat
  BY <1>1, WallFacts DEF Reading
<1>9. FileIsAhead'
  <2>1. ASSUME NEW y \in Upcoming(file) PROVE Wall(x) < Wall(y)
    <3>1. y \in Shots /\ y.file = x.file /\ y.n \in Nat /\ x.n < y.n
      BY <1>1, <1>8, <2>1, WallFacts DEF Upcoming
    <3> QED BY <1>1, <3>1, WallFacts
  <2>2. Precedes(shown', file)
    <3> SUFFICES ASSUME NEW i \in 1 .. Len(shown) + 1
                 PROVE  /\ Wall(shown'[i]) <= file.file.end
                        /\ \A y \in Upcoming(file) : Wall(shown'[i]) < Wall(y)
      BY <1>4 DEF Precedes
    <3>1. CASE i = Len(shown) + 1
      BY <1>4, <1>8, <2>1, <3>1
    <3>2. CASE i # Len(shown) + 1
      <4>1. i \in 1 .. Len(shown)
        BY <1>3, <3>2
      <4> QED BY <1>1, <1>3, <1>4, <4>1 DEF Precedes
    <3> QED BY <3>1, <3>2
  <2> QED BY <1>1, <1>2, <2>2 DEF FileIsAhead
<1>10. RunbackIsHidden'
  <2> SUFFICES ASSUME NEW i \in 1 .. Len(shown) + 1 PROVE Wall(shown'[i]) >= taken
    BY <1>2, <1>4 DEF RunbackIsHidden
  <2>1. CASE i = Len(shown) + 1
    BY <1>1, <1>4, <1>8, <2>1
  <2>2. CASE i # Len(shown) + 1
    <3>1. i \in 1 .. Len(shown)
      BY <1>3, <2>2
    <3> QED BY <1>3, <1>4, <3>1 DEF PlayInv, ShownInOrder, RunbackIsHidden
  <2> QED BY <2>1, <2>2
<1>11. NothingTwice'
  <2> SUFFICES ASSUME NEW i \in 1 .. Len(shown) + 1, NEW j \in 1 .. Len(shown) + 1, i < j
               PROVE  Wall(shown'[i]) < Wall(shown'[j])
    BY <1>4 DEF NothingTwice
  <2>1. i \in 1 .. Len(shown)
    BY <1>3
  <2>2. CASE j = Len(shown) + 1
    BY <1>1, <1>3, <1>4, <2>1, <2>2
  <2>3. CASE j # Len(shown) + 1
    <3>1. j \in 1 .. Len(shown)
      BY <1>3, <2>3
    <3> QED BY <1>3, <1>4, <2>1, <3>1 DEF PlayInv, ShownInOrder, NothingTwice
  <2> QED BY <2>2, <2>3
<1> QED BY <1>5, <1>7, <1>9, <1>10, <1>11 DEF PlayInv, ShownInOrder


LEMMA PlayStepKeeps == PlayInv /\ [PlayNext]_playVars => PlayInv'
<1> SUFFICES ASSUME PlayInv, [PlayNext]_playVars PROVE PlayInv'
  OBVIOUS
<1>1. ASSUME PlayTypes', UNCHANGED <<feeder, shown, taken, file>> PROVE PlayInv'
  BY <1>1, ControlKeeps
<1>2. CASE Feed
  <2>1. CASE Exit
    <3>1. PlayTypes' /\ UNCHANGED <<shown, taken, file>>
      BY <2>1 DEF Exit, controls, history, PlayInv, PlayTypes, At
    <3>2. feeder.at = "top" /\ feeder'.at = "done" /\ feeder'.target = feeder.target
      BY <2>1 DEF Exit, PlayInv, PlayTypes
    <3>3. SeekIsFresh' /\ FrameIsAhead' /\ ShownInOrder'
      BY <3>1, <3>2
         DEF PlayInv, SeekIsFresh, FrameIsAhead, ShownInOrder, RunbackIsHidden, NothingTwice
    <3>4. FileIsAhead'
      BY <3>1, <3>2 DEF PlayInv, FileIsAhead, Precedes, Upcoming
    <3> QED BY <3>1, <3>3, <3>4 DEF PlayInv
  <2>2. CASE PullTimesOut
    <3>1. PlayTypes' /\ UNCHANGED <<shown, taken, file>>
      BY <2>2 DEF PullTimesOut, controls, history, PlayInv, PlayTypes, At
    <3>2. feeder.at = "pull" /\ feeder'.at = "top" /\ feeder'.target = feeder.target
      BY <2>2 DEF PullTimesOut, PlayInv, PlayTypes
    <3>3. SeekIsFresh' /\ FrameIsAhead' /\ ShownInOrder'
      BY <3>1, <3>2
         DEF PlayInv, SeekIsFresh, FrameIsAhead, ShownInOrder, RunbackIsHidden, NothingTwice
    <3>4. FileIsAhead'
      BY <3>1, <3>2 DEF PlayInv, FileIsAhead, Precedes, Upcoming
    <3> QED BY <3>1, <3>3, <3>4 DEF PlayInv
  <2> QED BY <1>2, <2>1, <2>2, TopKeeps, OpenKeeps, EndOfFileKeeps, PullKeeps, ShowKeeps DEF Feed
<1>3. CASE ClearEnded \/ Stop
  BY <1>1, <1>3 DEF ClearEnded, Stop, controls, history, PlayInv, PlayTypes
<1>4. CASE CloseFile
  <2>1. PlayTypes' /\ UNCHANGED <<feeder, shown, taken>> /\ file' = Closed /\ feeder.at = "done"
    BY <1>4 DEF CloseFile, controls, history, PlayInv, PlayTypes
  <2> QED BY <2>1, ControlKeeps
<1>5. CASE Rows
  BY <1>1, <1>5 DEF Rows, controls, history, PlayInv, PlayTypes
<1>6. ASSUME NEW at \in Instants, Seek(at) PROVE PlayInv'
  BY <1>1, <1>6 DEF Seek, PlayInv, PlayTypes
<1>7. ASSUME NEW r \in Rates, SetRate(r) PROVE PlayInv'
  BY <1>1, <1>7 DEF SetRate, history, PlayInv, PlayTypes
<1>8. ASSUME NEW p \in BOOLEAN, SetPaused(p) PROVE PlayInv'
  BY <1>1, <1>8 DEF SetPaused, PlayInv, PlayTypes
<1>9. CASE UNCHANGED playVars
  BY <1>1, <1>9 DEF playVars, controls, history, PlayInv, PlayTypes
<1> QED BY <1>2, <1>3, <1>4, <1>5, <1>6, <1>7, <1>8, <1>9 DEF PlayNext

LEMMA PlayInductive == PlaySpec => []PlayInv
BY PlayInitOK, PlayStepKeeps, PTL DEF PlaySpec

(* The feeder reads only from files there are and inside them, and what it *)
(* holds back is a frame of the open one (PlaybackSource::feederLoop).     *)
THEOREM PlayTypeCorrect == PlaySpec => []PlayTypeOK
<1>1. ASSUME PlayInv PROVE PlayTypeOK
  <2>1. feeder.at = "due" => feeder.frame \in Frames(file.file)
    <3> SUFFICES ASSUME feeder.at = "due" PROVE feeder.frame \in Frames(file.file)
      OBVIOUS
    <3>1. feeder.frame \in Shots /\ feeder.frame.file = file.file
      BY <1>1 DEF PlayInv, FrameIsAhead
    <3>2. /\ feeder.frame = [file |-> file.file, n |-> feeder.frame.n]
          /\ feeder.frame.n \in DOMAIN file.file.frames
      BY <3>1 DEF Shots
    <3> QED BY <3>2 DEF Frames
  <2>2. /\ feeder.at \in At /\ feeder.rate \in Rates \cup {1} /\ feeder.target \in Instants \cup {None}
        /\ feeder.at = "open" <=> feeder.target # None
    BY <1>1 DEF PlayInv, PlayTypes, SeekIsFresh
  <2>3. /\ feeder.at \in {"pull", "due"} => file # Closed
        /\ file # Closed => file.file \in Files /\ file.next \in 1 .. Len(file.file.frames) + 1
    BY <1>1 DEF PlayInv, SeekIsFresh, FileIsAhead, Reading
  <2> QED BY <1>1, <2>1, <2>2, <2>3 DEF PlayInv, PlayTypes, PlayTypeOK
<1> QED BY <1>1, PlayInductive, PTL

(* From the instant asked for onwards every frame in its place, whatever   *)
(* is asked for in between and whichever rows come and go.                 *)
THEOREM PlaybackShownInOrder == PlaySpec => []ShownInOrder
<1>1. PlayInv => ShownInOrder
  BY DEF PlayInv
<1> QED BY <1>1, PlayInductive, PTL


(* What may still come after a pause: a picture for a seek that is not yet *)
(* taken, and one for the step the feeder is in the middle of.             *)
Coming == (IF seekTo # None THEN 1 ELSE 0) + (IF feeder.at \in {"open", "pull", "due"} THEN 1 ELSE 0)

PauseInv == still \in Int /\ (paused => still + Coming <= 1)

LEMMA PauseKeeps == PlayInv /\ PauseInv /\ [PlayNext]_playVars => PauseInv'
<1> SUFFICES ASSUME PlayInv, PauseInv, [PlayNext]_playVars PROVE PauseInv'
  OBVIOUS
<1>1. ASSUME UNCHANGED <<paused, seekTo, feeder, still>> PROVE PauseInv'
  BY <1>1 DEF PauseInv, Coming
<1>2. feeder \in [at : At, rate : Rates \cup {1}, target : Instants \cup {None}, frame : Shots \cup {None}]
  BY DEF PlayInv, PlayTypes
<1>3. CASE Top
  <2>1. CASE seekTo = None
    BY <1>2, <1>3, <2>1 DEF Top, Held, PauseInv
  <2>2. CASE seekTo # None
    BY <1>2, <1>3, <2>2 DEF Top, TakeSeek, PauseInv, Coming
  <2> QED BY <2>1, <2>2
<1>4. CASE Open \/ EndOfFile \/ Pull \/ PullTimesOut \/ Exit
  <2>1. UNCHANGED <<paused, seekTo, still>>
    BY <1>4 DEF Open, EndOfFile, Pull, PullTimesOut, Exit, controls, history
  <2>2. feeder'.at \in {"open", "pull", "due"} => feeder.at \in {"open", "pull", "due"}
    BY <1>2, <1>4 DEF Open, EndOfFile, Pull, PullTimesOut, Exit, Fails
  <2> QED BY <2>1, <2>2 DEF PauseInv, Coming
<1>5. CASE Show
  BY <1>2, <1>5 DEF Show, controls, PauseInv, Coming
<1>6. CASE ClearEnded \/ Stop \/ CloseFile \/ Rows \/ UNCHANGED playVars
  BY <1>1, <1>6 DEF ClearEnded, Stop, CloseFile, Rows, playVars, controls, history
<1>7. ASSUME NEW at \in Instants, Seek(at) PROVE PauseInv'
  BY <1>7 DEF Seek, PauseInv
<1>8. ASSUME NEW r \in Rates, SetRate(r) PROVE PauseInv'
  BY <1>1, <1>8 DEF SetRate, history
<1>9. ASSUME NEW p \in BOOLEAN, SetPaused(p) PROVE PauseInv'
  <2>1. /\ paused' = p /\ still' = (IF p /\ ~ paused THEN Owed ELSE still)
        /\ UNCHANGED <<seekTo, feeder>>
    BY <1>9 DEF SetPaused
  <2>2. feeder.at = "open" <=> feeder.target # None
    BY DEF PlayInv, SeekIsFresh
  <2>3. Owed \in Int /\ Owed + Coming <= 1
    BY <2>2 DEF Owed, Coming
  <2> QED BY <2>1, <2>3 DEF PauseInv, Coming
<1> QED BY <1>3, <1>4, <1>5, <1>6, <1>7, <1>8, <1>9 DEF PlayNext, Feed

(* After a pause at most one frame more is shown, that of the step the     *)
(* feeder was in, besides the picture of a seek asked for before it.       *)
THEOREM PlaybackPauseHolds == PlaySpec => []PauseHolds
<1>1. PlayInit => PauseInv
  BY DEF PlayInit, PauseInv
<1>2. PauseInv => PauseHolds
  BY DEF PauseInv, PauseHolds, Coming
<1> QED BY <1>1, <1>2, PlayInductive, PauseKeeps, PTL DEF PlaySpec
=============================================================================
