--------------------------- MODULE SharingProofs ---------------------------
(***************************************************************************)
(* What is shared among callers: the connections and transcodes of the     *)
(* registry, and the decoder and the workers of the AI runtime.            *)
(*                                                                         *)
(* Whatever consumers come and go while the sweeper decides under the lock *)
(* and stops without it: nobody who watches is cut off, and a camera is    *)
(* not connected to twice, for any number of consumers, streams, rates,    *)
(* any grace period and any number of sources built.                       *)
(*                                                                         *)
(* The argument is in what the sweeper has decided but not done.  A source *)
(* it is about to stop is out of everybody's reach: nobody points to it,   *)
(* and it is not the entry, so nobody can come to.  That a consumer who    *)
(* has acquired a source and not yet attached to it is not overtaken is    *)
(* a matter of counting: the timer was reset when it acquired, and so it   *)
(* shows fewer sweeps than the consumer has waited.                        *)
(***************************************************************************)
EXTENDS SourceRegistry, AiRuntime, SequenceTheorems, FiniteSetTheorems, TLAPS

(* What each consumer points to at each point of acquire().                *)
Holding ==
  \A c \in Consumers :
    /\ pc[c] = "idle" => got[c] = Nothing
    /\ pc[c] = "half" => /\ got[c].raw # None /\ got[c].tr = None
                         /\ want[c] \in Ask /\ want[c].rate \in Rates
    /\ got[c].raw \in 0 .. Len(raws) /\ got[c].tr \in 0 .. Len(trs)

(* What the sweeper holds is what was built, and only while it is at it.   *)
Retirement ==
  /\ retiring.raw \in 0 .. Len(raws) /\ retiring.tr \in 0 .. Len(trs)
  /\ sweeper \in {"asleep", "done"} => retiring = Nothing
  /\ sweeper = "sources" => retiring.raw = None

(* The entries are the newest objects.                                     *)
Newest == /\ entry.raw # None => entry.raw = Len(raws)
          /\ held.tr # None => held.tr = Len(trs)

(* Who has yet to attach has waited longer than the timer shows; while the *)
(* sweep is between the transcodes and the sources, by one sweep more.     *)
InTime ==
  \A c \in Pending :
    /\ got[c].raw # None /\ got[c].raw = entry.raw =>
         entry.idle + 1 <= waited[c] /\ (sweeper = "sources" => entry.idle + 2 <= waited[c])
    /\ got[c].tr # None /\ got[c].tr = held.tr => held.idle + 1 <= waited[c]

Condemned(object, n, retired) ==
  object.status = "stopped" \/ (n = retired /\ object.status = "playing")

(* A source that is stopped, or plays and is about to be, is out of reach. *)
SourcesOutOfReach ==
  \A i \in 1 .. Len(raws) : Condemned(raws[i], i, retiring.raw) =>
    /\ i # entry.raw /\ \A c \in Consumers : got[c].raw # i
    /\ \A j \in 1 .. Len(trs) : trs[j].up = i => ~ Attached(j)

(* So is a transcode, unless it was given up for its upstream's sake.      *)
TranscodesOutOfReach ==
  \A j \in 1 .. Len(trs) : Condemned(trs[j], j, retiring.tr) /\ RawAlive(trs[j].up) =>
    j # held.tr /\ \A c \in Consumers : got[c].tr # j

(* What plays is the entry, about to be stopped, or was replaced by one of *)
(* another stream; a transcode, by one of another rate.                    *)
SourcesReplaced ==
  \A i \in 1 .. Len(raws) : RawAlive(i) =>
    \/ i \in {entry.raw, retiring.raw}
    \/ i < Len(raws) /\ raws[i + 1].stream # raws[i].stream

TranscodesReplaced ==
  \A j \in 1 .. Len(trs) : TrAlive(j) =>
    \/ j \in {held.tr, retiring.tr} \/ j = MaxTr
    \/ j < Len(trs) /\ trs[j + 1].rate # trs[j].rate

IInv == /\ TypeOK /\ Holding /\ Retirement /\ Newest /\ InTime /\ SourcesOutOfReach
        /\ TranscodesOutOfReach /\ SourcesReplaced /\ TranscodesReplaced

-----------------------------------------------------------------------------
Source == [stream : Streams, status : Status]
Transcode == [up : Raws, rate : Rates, status : Status]

LEMMA Types ==
  ASSUME TypeOK
  PROVE  /\ raws \in Seq(Source) /\ Len(raws) \in 0 .. MaxRaw /\ DOMAIN raws = 1 .. Len(raws)
         /\ trs \in Seq(Transcode) /\ Len(trs) \in 0 .. MaxTr /\ DOMAIN trs = 1 .. Len(trs)
         /\ \A i \in 1 .. Len(raws) : raws[i] \in Source
         /\ \A j \in 1 .. Len(trs) : trs[j] \in Transcode /\ trs[j].up \in 1 .. Len(raws)
         /\ entry.raw \in 0 .. Len(raws) /\ entry.idle \in NoIdle .. Linger - 1
         /\ held.tr \in 0 .. Len(trs) /\ held.idle \in NoIdle .. Linger - 1
         /\ {Linger, Patience, MaxRaw, MaxTr} \subseteq Nat
<1>1. /\ raws \in Seq(Source) /\ Len(raws) \in Nat /\ DOMAIN raws = 1 .. Len(raws)
      /\ trs \in Seq(Transcode) /\ Len(trs) \in Nat /\ DOMAIN trs = 1 .. Len(trs)
  BY DEF TypeOK, Source, Transcode
<1>2. /\ Len(raws) \in 0 .. MaxRaw /\ Len(trs) \in 0 .. MaxTr
  BY <1>1, RegistryAssumption DEF TypeOK
<1>3. \A j \in 1 .. Len(trs) : trs[j].up \in 1 .. Len(raws)
  BY <1>1 DEF TypeOK
<1>4. /\ entry.raw \in 0 .. Len(raws) /\ entry.idle \in NoIdle .. Linger - 1
      /\ held.tr \in 0 .. Len(trs) /\ held.idle \in NoIdle .. Linger - 1
  BY <1>1 DEF TypeOK, None
<1> QED
  BY <1>1, <1>2, <1>3, <1>4, RegistryAssumption

(* What stop() of one object does to all of them.                          *)
Ended(status) ==
  IF status = "playing" THEN "stopped" ELSE IF status = "failed" THEN "cleared" ELSE status

LEMMA StoppedSource ==
  ASSUME raws \in Seq(Source), NEW n \in 0 .. Len(raws), NEW r, r = Stopped(raws, n)
  PROVE  /\ r \in Seq(Source) /\ Len(r) = Len(raws)
         /\ \A i \in 1 .. Len(raws) :
              /\ r[i].stream = raws[i].stream
              /\ r[i].status = IF i = n THEN Ended(raws[i].status) ELSE raws[i].status
<1>1. Len(raws) \in Nat /\ \A i \in 1 .. Len(raws) : raws[i] \in Source
  OBVIOUS
<1>2. CASE n = None
  BY <1>1, <1>2 DEF Stopped, None
<1>3. CASE n # None
  <2>1. n \in 1 .. Len(raws)
    BY <1>1, <1>3 DEF None
  <2> DEFINE new == [raws[n] EXCEPT !.status = Ended(@)]
  <2>2. r = [raws EXCEPT ![n] = new]
    BY <1>3, <2>1 DEF Stopped, Ended
  <2>3. /\ new \in Source /\ new.stream = raws[n].stream
        /\ new.status = Ended(raws[n].status)
    BY <1>1, <2>1 DEF Source, Ended, Status
  <2> HIDE DEF new
  <2>4. /\ r \in Seq(Source) /\ Len(r) = Len(raws) /\ r[n] = new
        /\ \A i \in 1 .. Len(raws) : i # n => r[i] = raws[i]
    BY <2>1, <2>2, <2>3
  <2> QED
    BY <2>1, <2>3, <2>4
<1> QED
  BY <1>2, <1>3

LEMMA StoppedTranscode ==
  ASSUME trs \in Seq(Transcode), NEW n \in 0 .. Len(trs), NEW r, r = Stopped(trs, n)
  PROVE  /\ r \in Seq(Transcode) /\ Len(r) = Len(trs)
         /\ \A i \in 1 .. Len(trs) :
              /\ r[i].up = trs[i].up /\ r[i].rate = trs[i].rate
              /\ r[i].status = IF i = n THEN Ended(trs[i].status) ELSE trs[i].status
<1>1. Len(trs) \in Nat /\ \A i \in 1 .. Len(trs) : trs[i] \in Transcode
  OBVIOUS
<1>2. CASE n = None
  BY <1>1, <1>2 DEF Stopped, None
<1>3. CASE n # None
  <2>1. n \in 1 .. Len(trs)
    BY <1>1, <1>3 DEF None
  <2> DEFINE new == [trs[n] EXCEPT !.status = Ended(@)]
  <2>2. r = [trs EXCEPT ![n] = new]
    BY <1>3, <2>1 DEF Stopped, Ended
  <2>3. /\ new \in Transcode /\ new.up = trs[n].up /\ new.rate = trs[n].rate
        /\ new.status = Ended(trs[n].status)
    BY <1>1, <2>1 DEF Transcode, Ended, Status
  <2> HIDE DEF new
  <2>4. /\ r \in Seq(Transcode) /\ Len(r) = Len(trs) /\ r[n] = new
        /\ \A i \in 1 .. Len(trs) : i # n => r[i] = trs[i]
    BY <2>1, <2>2, <2>3
  <2> QED
    BY <2>1, <2>3, <2>4
<1> QED
  BY <1>2, <1>3

LEMMA InitOK == Init => IInv
<1> SUFFICES ASSUME Init PROVE IInv
  OBVIOUS
<1>1. /\ raws = <<>> /\ trs = <<>> /\ Len(raws) = 0 /\ Len(trs) = 0
      /\ entry = [raw |-> None, idle |-> NoIdle] /\ held = [tr |-> None, idle |-> NoIdle]
      /\ sweeper = "asleep" /\ retiring = Nothing
      /\ \A c \in Consumers : pc[c] = "idle" /\ got[c] = Nothing
      /\ Nothing.raw = 0 /\ Nothing.tr = 0
  BY DEF Init, Nothing, None
<1>2. TypeOK
  <2>1. /\ pc \in [Consumers -> {"idle", "half", "have", "watching"}]
        /\ want \in [Consumers -> Ask \cup {NoAsk}] /\ waited \in [Consumers -> 0 .. Patience]
    BY RegistryAssumption DEF Init
  <2>2. got \in [Consumers -> [raw : {None} \cup Raws, tr : {None} \cup Trs]]
    BY DEF Init, Nothing
  <2>3. NoIdle \in NoIdle .. Linger - 1
    BY RegistryAssumption DEF NoIdle
  <2>4. raws \in Seq([stream : Streams, status : Status])
        /\ trs \in Seq([up : Raws, rate : Rates, status : Status])
    BY <1>1
  <2>5. retiring \in [raw : {None} \cup Raws, tr : {None} \cup Trs]
    BY <1>1 DEF Nothing
  <2>6. /\ entry \in [raw : {None} \cup DOMAIN raws, idle : NoIdle .. Linger - 1]
        /\ held \in [tr : {None} \cup DOMAIN trs, idle : NoIdle .. Linger - 1]
    BY <1>1, <2>3
  <2> QED
    BY <1>1, <2>1, <2>2, <2>4, <2>5, <2>6, RegistryAssumption DEF TypeOK
<1>3. Holding /\ Retirement /\ Newest
  BY <1>1 DEF Holding, Retirement, Newest, None
<1>4. InTime
  BY <1>1 DEF InTime, Pending
<1>5. SourcesOutOfReach /\ TranscodesOutOfReach /\ SourcesReplaced /\ TranscodesReplaced
  BY <1>1 DEF SourcesOutOfReach, TranscodesOutOfReach, SourcesReplaced, TranscodesReplaced
<1> QED
  BY <1>2, <1>3, <1>4, <1>5 DEF IInv
-----------------------------------------------------------------------------
(* Nobody comes to point to what nobody could reach: an object is pointed  *)
(* to by who did before, or is an entry, or is new.                        *)
LEMMA SourcesStayOut ==
  ASSUME IInv,
         \A i \in 1 .. Len(raws)' : Condemned(raws'[i], i, retiring'.raw) =>
           i \in 1 .. Len(raws) /\ Condemned(raws[i], i, retiring.raw),
         entry'.raw \in {None, entry.raw} \/ entry'.raw > Len(raws),
         \A c \in Consumers :
           got'[c].raw \in {None, got[c].raw, entry.raw} \/ got'[c].raw > Len(raws),
         \A j \in 1 .. Len(trs)' : Attached(j)' =>
           \/ j \in 1 .. Len(trs) /\ Attached(j) /\ trs'[j].up = trs[j].up
           \/ \E c \in Consumers : got[c].raw = trs'[j].up
  PROVE  SourcesOutOfReach'
<1> SUFFICES ASSUME NEW i \in 1 .. Len(raws)', Condemned(raws'[i], i, retiring'.raw)
             PROVE  /\ i # entry'.raw /\ \A c \in Consumers : got'[c].raw # i
                    /\ \A j \in 1 .. Len(trs)' : trs'[j].up = i => ~ Attached(j)'
  BY DEF SourcesOutOfReach
<1>1. i \in 1 .. Len(raws) /\ Condemned(raws[i], i, retiring.raw)
  OBVIOUS
<1>2. /\ i # entry.raw /\ \A c \in Consumers : got[c].raw # i
      /\ \A j \in 1 .. Len(trs) : trs[j].up = i => ~ Attached(j)
  BY <1>1 DEF IInv, SourcesOutOfReach
<1>3. i # None /\ Len(raws) \in Nat /\ ~ (i > Len(raws))
  BY <1>1, Types DEF IInv, None
<1> QED
  BY <1>2, <1>3

LEMMA TranscodesStayOut ==
  ASSUME IInv,
         \A j \in 1 .. Len(trs)' :
           Condemned(trs'[j], j, retiring'.tr) /\ raws'[trs'[j].up].status = "playing" =>
             j \in 1 .. Len(trs) /\ Condemned(trs[j], j, retiring.tr) /\ RawAlive(trs[j].up),
         held'.tr \in {None, held.tr} \/ held'.tr > Len(trs),
         \A c \in Consumers :
           got'[c].tr \in {None, got[c].tr, held.tr} \/ got'[c].tr > Len(trs)
  PROVE  TranscodesOutOfReach'
<1> SUFFICES ASSUME NEW j \in 1 .. Len(trs)', Condemned(trs'[j], j, retiring'.tr),
                    raws'[trs'[j].up].status = "playing"
             PROVE  j # held'.tr /\ \A c \in Consumers : got'[c].tr # j
  BY DEF TranscodesOutOfReach, RawAlive
<1>1. j \in 1 .. Len(trs) /\ Condemned(trs[j], j, retiring.tr) /\ RawAlive(trs[j].up)
  OBVIOUS
<1>2. j # held.tr /\ \A c \in Consumers : got[c].tr # j
  BY <1>1 DEF IInv, TranscodesOutOfReach
<1>3. j # None /\ Len(trs) \in Nat /\ ~ (j > Len(trs))
  BY <1>1, Types DEF IInv, None
<1> QED
  BY <1>2, <1>3

(* A consumer that moves leaves the others' business alone.                *)
LEMMA HoldingKept ==
  ASSUME IInv, NEW c \in Consumers,
         Len(raws)' \in Nat, Len(trs)' \in Nat, Len(raws) <= Len(raws)', Len(trs) <= Len(trs)',
         \A d \in Consumers \ {c} : pc'[d] = pc[d] /\ got'[d] = got[d] /\ want'[d] = want[d],
         pc'[c] = "idle" => got'[c] = Nothing,
         pc'[c] = "half" => /\ got'[c].raw # None /\ got'[c].tr = None
                            /\ want'[c] \in Ask /\ want'[c].rate \in Rates,
         got'[c].raw \in 0 .. Len(raws)', got'[c].tr \in 0 .. Len(trs)'
  PROVE  Holding'
<1> SUFFICES ASSUME NEW d \in Consumers
             PROVE  /\ pc'[d] = "idle" => got'[d] = Nothing
                    /\ pc'[d] = "half" => /\ got'[d].raw # None /\ got'[d].tr = None
                                          /\ want'[d] \in Ask /\ want'[d].rate \in Rates
                    /\ got'[d].raw \in 0 .. Len(raws)' /\ got'[d].tr \in 0 .. Len(trs)'
  BY DEF Holding, Nothing
<1>1. CASE d = c
  BY <1>1
<1>2. CASE d # c
  <2>1. /\ pc[d] = "idle" => got[d] = Nothing
        /\ pc[d] = "half" => /\ got[d].raw # None /\ got[d].tr = None
                             /\ want[d] \in Ask /\ want[d].rate \in Rates
        /\ got[d].raw \in 0 .. Len(raws) /\ got[d].tr \in 0 .. Len(trs)
    BY DEF IInv, Holding
  <2>2. Len(raws) \in Nat /\ Len(trs) \in Nat
    BY Types DEF IInv
  <2> QED
    BY <1>2, <2>1, <2>2
<1> QED
  BY <1>1, <1>2

-----------------------------------------------------------------------------
(* The consumers.                                                          *)
LEMMA AttachOK ==
  ASSUME IInv, NEW c \in Consumers, Attach(c)
  PROVE  IInv'
<1> USE DEF IInv
<1>1. /\ pc[c] = "have" /\ pc' = [pc EXCEPT ![c] = "watching"]
      /\ want' = [want EXCEPT ![c] = NoAsk] /\ waited' = [waited EXCEPT ![c] = 0]
      /\ raws' = raws /\ trs' = trs /\ entry' = entry /\ held' = held /\ got' = got
      /\ sweeper' = sweeper /\ retiring' = retiring
  BY DEF Attach, Settles
<1>2. /\ pc'[c] = "watching" /\ Pending' = Pending \ {c}
      /\ \A d \in Consumers \ {c} : /\ pc'[d] = pc[d] /\ want'[d] = want[d]
                                    /\ waited'[d] = waited[d]
  BY <1>1 DEF TypeOK, Pending
<1>3. \A j : Attached(j)' = Attached(j)
  BY <1>1 DEF Attached, TrPointed
<1>4. TypeOK'
  BY <1>1, RegistryAssumption DEF TypeOK
<1>5. Holding' /\ Retirement' /\ Newest'
  BY <1>1, <1>2 DEF Holding, Retirement, Newest
<1>6. InTime'
  BY <1>1, <1>2 DEF InTime
<1>7. SourcesOutOfReach'
  BY <1>1, <1>3 DEF SourcesOutOfReach
<1>8. TranscodesOutOfReach' /\ SourcesReplaced' /\ TranscodesReplaced'
  BY <1>1 DEF TranscodesOutOfReach, SourcesReplaced, TranscodesReplaced, RawAlive, TrAlive
<1> QED
  BY <1>4, <1>5, <1>6, <1>7, <1>8

(* What leaving does to the consumer, and to nobody else.                  *)
LEMMA Left ==
  ASSUME TypeOK, NEW c \in Consumers, Leaves(c)
  PROVE  /\ pc'[c] = "idle" /\ got'[c] = Nothing /\ Pending' = Pending \ {c}
         /\ got'[c].raw = None /\ got'[c].tr = None
         /\ \A d \in Consumers \ {c} : /\ pc'[d] = pc[d] /\ got'[d] = got[d]
                                       /\ want'[d] = want[d] /\ waited'[d] = waited[d]
         /\ pc' \in [Consumers -> {"idle", "half", "have", "watching"}]
         /\ want' \in [Consumers -> Ask \cup {NoAsk}]
         /\ waited' \in [Consumers -> 0 .. Patience]
         /\ got' \in [Consumers -> [raw : {None} \cup Raws, tr : {None} \cup Trs]]
<1>1. /\ pc' = [pc EXCEPT ![c] = "idle"] /\ got' = [got EXCEPT ![c] = Nothing]
      /\ want' = [want EXCEPT ![c] = NoAsk] /\ waited' = [waited EXCEPT ![c] = 0]
  BY DEF Leaves, Settles
<1>2. Nothing \in [raw : {None} \cup Raws, tr : {None} \cup Trs] /\ Nothing.raw = None /\ Nothing.tr = None
  BY DEF Nothing
<1>3. 0 \in 0 .. Patience
  BY RegistryAssumption
<1>4. /\ pc'[c] = "idle" /\ got'[c] = Nothing
      /\ \A d \in Consumers \ {c} : /\ pc'[d] = pc[d] /\ got'[d] = got[d]
                                    /\ want'[d] = want[d] /\ waited'[d] = waited[d]
  BY <1>1 DEF TypeOK
<1>5. Pending' = Pending \ {c}
  BY <1>4 DEF Pending
<1>6. /\ pc' \in [Consumers -> {"idle", "half", "have", "watching"}]
      /\ want' \in [Consumers -> Ask \cup {NoAsk}]
      /\ waited' \in [Consumers -> 0 .. Patience]
  BY <1>1, <1>3 DEF TypeOK
<1>7. got' \in [Consumers -> [raw : {None} \cup Raws, tr : {None} \cup Trs]]
  BY <1>1, <1>2 DEF TypeOK
<1> QED
  BY <1>2, <1>4, <1>5, <1>6, <1>7

LEMMA LetGoOK ==
  ASSUME IInv, NEW c \in Consumers, LetGo(c)
  PROVE  IInv'
<1> USE DEF IInv
<1>1. /\ Leaves(c)
      /\ raws' = raws /\ trs' = trs /\ entry' = entry /\ held' = held
      /\ sweeper' = sweeper /\ retiring' = retiring
  BY DEF LetGo
<1>2. /\ pc'[c] = "idle" /\ got'[c] = Nothing /\ Pending' = Pending \ {c}
      /\ got'[c].raw = None /\ got'[c].tr = None
      /\ \A d \in Consumers \ {c} : /\ pc'[d] = pc[d] /\ got'[d] = got[d]
                                    /\ want'[d] = want[d] /\ waited'[d] = waited[d]
  BY <1>1, Left
<1>3. \A j \in 1 .. Len(trs) : Attached(j)' => Attached(j)
  <2> SUFFICES ASSUME NEW j \in 1 .. Len(trs), Attached(j)' PROVE TrPointed(j)
    BY <1>1 DEF Attached
  <2>1. TrPointed(j)' /\ j # None
    BY DEF Attached, None
  <2> QED
    BY <1>1, <1>2, <2>1 DEF TrPointed
<1>4. TypeOK'
  BY <1>1, Left DEF TypeOK
<1>5. Holding' /\ Retirement' /\ Newest'
  <2>1. Len(raws)' \in Nat /\ Len(trs)' \in Nat /\ Len(raws) <= Len(raws)' /\ Len(trs) <= Len(trs)'
    BY <1>1, Types
  <2>2. Holding'
    BY <1>2, <2>1, HoldingKept DEF None
  <2> QED
    BY <1>1, <2>2 DEF Retirement, Newest
<1>6. InTime'
  <2>1. \A d \in Pending' : d \in Pending /\ d \in Consumers \ {c}
    BY <1>2 DEF Pending
  <2> QED
    BY <1>1, <1>2, <2>1 DEF InTime
<1>7. SourcesOutOfReach'
  BY <1>1, <1>2, <1>3, SourcesStayOut
<1>8. TranscodesOutOfReach'
  BY <1>1, <1>2, TranscodesStayOut DEF RawAlive
<1>9. SourcesReplaced' /\ TranscodesReplaced'
  BY <1>1 DEF SourcesReplaced, TranscodesReplaced, RawAlive, TrAlive
<1> QED
  BY <1>4, <1>5, <1>6, <1>7, <1>8, <1>9
(* The new source is appended, and differs from an entry that plays.       *)
LEMMA AppendedSource ==
  ASSUME TypeOK, NEW ask \in Ask, NEW status \in Status, Len(raws) < MaxRaw,
         raws' = Append(raws, [stream |-> ask.stream, status |-> status])
  PROVE  /\ raws' \in Seq(Source) /\ Len(raws)' = Len(raws) + 1 /\ Len(raws)' <= MaxRaw
         /\ \A i \in 1 .. Len(raws) : raws'[i] = raws[i]
         /\ raws'[Len(raws) + 1].stream = ask.stream
         /\ raws'[Len(raws) + 1].status = status
         /\ DOMAIN raws' = 1 .. Len(raws) + 1
<1> DEFINE new == [stream |-> ask.stream, status |-> status]
<1>1. new \in Source /\ new.stream = ask.stream /\ new.status = status
  BY DEF Source, Ask
<1> HIDE DEF new
<1>2. raws' = Append(raws, new) /\ raws \in Seq(Source) /\ Len(raws) \in Nat /\ MaxRaw \in Nat
  BY Types, RegistryAssumption DEF new
<1> QED
  BY <1>1, <1>2, AppendProperties

LEMMA AcquireOK ==
  ASSUME IInv, NEW c \in Consumers, Acquire(c)
  PROVE  IInv'
<1> USE DEF IInv
<1>1. PICK ask \in Ask, i \in {entry.raw, Len(raws) + 1} :
        /\ want' = [want EXCEPT ![c] = IF NeedsTranscode(ask) THEN ask ELSE NoAsk]
        /\ IF Reuses(ask)
           THEN i = entry.raw /\ entry' = Revived(ask) /\ raws' = raws
           ELSE /\ i = Len(raws) + 1 /\ i <= MaxRaw
                /\ raws' = Append(raws, [stream |-> ask.stream, status |-> "playing"])
                /\ entry' = [raw |-> i, idle |-> NoIdle]
        /\ got' = [got EXCEPT ![c] = [raw |-> i, tr |-> None]]
        /\ pc' = [pc EXCEPT ![c] = IF NeedsTranscode(ask) THEN "half" ELSE "have"]
  BY DEF Acquire
<1>2. /\ pc[c] = "idle" /\ sweeper \in {"asleep", "stopping"} /\ waited' = [waited EXCEPT ![c] = 0]
      /\ trs' = trs /\ held' = held /\ sweeper' = sweeper /\ retiring' = retiring
  BY DEF Acquire, Unlocked
<1>3. /\ pc'[c] \in {"half", "have"} /\ got'[c] = [raw |-> i, tr |-> None] /\ waited'[c] = 0
      /\ got'[c].raw = i /\ got'[c].tr = None
      /\ pc'[c] = "half" => want'[c] = ask /\ ask.rate \in Rates
      /\ \A d \in Consumers \ {c} : /\ pc'[d] = pc[d] /\ got'[d] = got[d]
                                    /\ want'[d] = want[d] /\ waited'[d] = waited[d]
  BY <1>1, <1>2 DEF TypeOK, NeedsTranscode, Ask
<1>4. /\ Len(raws) \in Nat /\ Len(raws)' \in Nat /\ Len(raws) <= Len(raws)'
      /\ i \in 1 .. Len(raws)' /\ entry'.raw = i /\ entry'.idle = NoIdle
      /\ raws' \in Seq(Source) /\ Len(raws)' <= MaxRaw /\ DOMAIN raws' = 1 .. Len(raws)'
      /\ \A k \in 1 .. Len(raws) : raws'[k] = raws[k]
  <2>1. CASE Reuses(ask)
    BY <1>1, <2>1, Types DEF Reuses, Revived, TypeOK, None
  <2>2. CASE ~ Reuses(ask)
    <3>1. Len(raws) \in Nat /\ Len(raws) < MaxRaw /\ "playing" \in Status
      BY <1>1, <2>2, Types, RegistryAssumption DEF Status
    <3> QED
      BY <1>1, <2>2, <3>1, AppendedSource
  <2> QED
    BY <2>1, <2>2
<1>5. \/ Reuses(ask) /\ i = entry.raw /\ raws' = raws
      \/ /\ ~ Reuses(ask) /\ i = Len(raws) + 1 /\ Len(raws)' = Len(raws) + 1
         /\ raws'[i].stream = ask.stream /\ raws'[i].status = "playing"
  <2>1. CASE ~ Reuses(ask)
    <3>1. Len(raws) \in Nat /\ Len(raws) < MaxRaw /\ "playing" \in Status
      BY <1>1, <2>1, Types, RegistryAssumption DEF Status
    <3> QED
      BY <1>1, <2>1, <3>1, AppendedSource
  <2> QED
    BY <1>1, <2>1
<1>5a. /\ i = entry.raw \/ i > Len(raws)
       /\ \A k \in 1 .. Len(raws)' :
            k \in 1 .. Len(raws) \/ (k = i /\ i > Len(raws) /\ raws'[k].status = "playing")
  <2>1. CASE i = entry.raw /\ raws' = raws
    BY <2>1
  <2>2. CASE /\ i = Len(raws) + 1 /\ Len(raws)' = Len(raws) + 1
             /\ raws'[i].stream = ask.stream /\ raws'[i].status = "playing"
    <3>1. \A n, k \in Nat : k \in 1 .. n + 1 => k \in 1 .. n \/ k = n + 1
      OBVIOUS
    <3>2. i > Len(raws)
      BY <1>4, <2>2
    <3> QED
      BY <1>4, <2>2, <3>1, <3>2
  <2> QED
    BY <1>5, <2>1, <2>2
<1>6. \A j \in 1 .. Len(trs) : Attached(j)' => Attached(j)
  <2> SUFFICES ASSUME NEW j \in 1 .. Len(trs), Attached(j)' PROVE TrPointed(j)
    BY <1>2 DEF Attached
  <2>1. TrPointed(j)' /\ j # None
    BY DEF Attached, None
  <2> QED
    BY <1>2, <1>3, <2>1 DEF TrPointed
<1>7. TypeOK'
  <2>1. /\ pc' \in [Consumers -> {"idle", "half", "have", "watching"}]
        /\ want' \in [Consumers -> Ask \cup {NoAsk}]
    BY <1>1 DEF TypeOK
  <2>2. waited' \in [Consumers -> 0 .. Patience]
    BY <1>2, RegistryAssumption DEF TypeOK
  <2>3. got' \in [Consumers -> [raw : {None} \cup Raws, tr : {None} \cup Trs]]
    <3>1. i \in Raws
      BY <1>4, RegistryAssumption DEF Raws
    <3>2. [raw |-> i, tr |-> None] \in [raw : {None} \cup Raws, tr : {None} \cup Trs]
      BY <3>1
    <3> QED
      BY <1>1, <3>2 DEF TypeOK
  <2>4. entry' \in [raw : {None} \cup DOMAIN raws', idle : NoIdle .. Linger - 1]
    <3>1. NoIdle \in NoIdle .. Linger - 1
      BY RegistryAssumption DEF NoIdle
    <3>2. entry' = [raw |-> i, idle |-> NoIdle]
      BY <1>1 DEF Revived, TypeOK
    <3> QED
      BY <1>4, <3>1, <3>2
  <2>5. \A j \in DOMAIN trs : trs[j].up \in DOMAIN raws'
    BY <1>4, Types
  <2> QED
    BY <1>2, <1>4, <2>1, <2>2, <2>3, <2>4, <2>5 DEF TypeOK, Source
<1>8. Holding' /\ Retirement' /\ Newest'
  <2>1. Len(trs)' \in Nat /\ Len(trs) <= Len(trs)'
    BY <1>2, Types
  <2>2. Holding'
    BY <1>3, <1>4, <2>1, HoldingKept DEF None
  <2>3. Retirement'
    BY <1>2, <1>4 DEF Retirement
  <2>4. Newest'
    BY <1>2, <1>4, <1>5 DEF Newest, Reuses
  <2> QED
    BY <2>2, <2>3, <2>4
<1>9. InTime'
  <2> SUFFICES ASSUME NEW d \in Pending'
               PROVE  /\ got'[d].raw # None /\ got'[d].raw = entry'.raw =>
                           /\ entry'.idle + 1 <= waited'[d]
                           /\ sweeper' = "sources" => entry'.idle + 2 <= waited'[d]
                      /\ got'[d].tr # None /\ got'[d].tr = held'.tr => held'.idle + 1 <= waited'[d]
    BY DEF InTime
  <2>1. d \in Consumers /\ pc'[d] \in {"half", "have"}
    BY DEF Pending
  <2>2. sweeper' # "sources" /\ entry'.idle + 1 = 0 /\ waited'[d] >= 0
    BY <1>2, <1>4, <1>7, <2>1 DEF NoIdle, TypeOK
  <2>3. CASE d = c
    BY <1>3, <2>2, <2>3
  <2>4. CASE d # c
    <3>1. d \in Pending
      BY <1>3, <2>1, <2>4 DEF Pending
    <3> QED
      BY <1>2, <1>3, <2>1, <2>2, <2>4, <3>1 DEF InTime
  <2> QED
    BY <2>3, <2>4
<1>10. SourcesOutOfReach'
  <2>1. \A k \in 1 .. Len(raws)' : Condemned(raws'[k], k, retiring'.raw) =>
          k \in 1 .. Len(raws) /\ Condemned(raws[k], k, retiring.raw)
    <3> SUFFICES ASSUME NEW k \in 1 .. Len(raws)', Condemned(raws'[k], k, retiring.raw)
                 PROVE  k \in 1 .. Len(raws) /\ Condemned(raws[k], k, retiring.raw)
      BY <1>2
    <3>1. CASE k \in 1 .. Len(raws)
      BY <1>4, <3>1
    <3>2. CASE k \notin 1 .. Len(raws)
      <4>1. k = i /\ raws'[k].status = "playing" /\ k # retiring.raw
        BY <1>4, <1>5a, <3>2 DEF Retirement
      <4> QED
        BY <4>1 DEF Condemned
    <3> QED
      BY <3>1, <3>2
  <2>2. entry'.raw \in {None, entry.raw} \/ entry'.raw > Len(raws)
    BY <1>4, <1>5a
  <2>3. \A d \in Consumers :
          got'[d].raw \in {None, got[d].raw, entry.raw} \/ got'[d].raw > Len(raws)
    BY <1>3, <1>5a
  <2> QED
    BY <1>2, <1>6, <2>1, <2>2, <2>3, SourcesStayOut
<1>11. TranscodesOutOfReach'
  <2>1. \A j \in 1 .. Len(trs) : raws'[trs[j].up] = raws[trs[j].up]
    BY <1>4, Types
  <2> QED
    BY <1>2, <1>3, <2>1, TranscodesStayOut DEF RawAlive
<1>12. SourcesReplaced'
  <2> SUFFICES ASSUME NEW k \in 1 .. Len(raws)', raws'[k].status = "playing"
               PROVE  \/ k \in {entry'.raw, retiring'.raw}
                      \/ k < Len(raws)' /\ raws'[k + 1].stream # raws'[k].stream
    BY DEF SourcesReplaced, RawAlive
  <2>1. CASE k = i
    BY <1>4, <2>1
  <2>2. CASE k # i
    <3>1. k \in 1 .. Len(raws) /\ raws[k].status = "playing" /\ raws'[k] = raws[k]
      BY <1>4, <1>5a, <2>2
    <3>2. CASE k = entry.raw
      <4>1. k = Len(raws) /\ i = Len(raws) + 1 /\ raws'[i].stream = ask.stream
        BY <1>5, <2>2, <3>1, <3>2 DEF Newest, None
      <4>2. raws[k].stream # ask.stream
        BY <1>5, <2>2, <3>1, <3>2 DEF Reuses, RawAlive, None
      <4> QED
        BY <1>4, <3>1, <4>1, <4>2
    <3>3. CASE k # entry.raw
      <4>1. k = retiring.raw \/ (k + 1 \in 1 .. Len(raws) /\ raws[k + 1].stream # raws[k].stream)
        BY <1>4, <3>1, <3>3 DEF SourcesReplaced, RawAlive
      <4> QED
        BY <1>2, <1>4, <3>1, <4>1
    <3> QED
      BY <3>2, <3>3
  <2> QED
    BY <2>1, <2>2
<1>13. TranscodesReplaced'
  <2>1. \A j \in 1 .. Len(trs) : raws'[trs[j].up] = raws[trs[j].up]
    BY <1>4, Types
  <2> QED
    BY <1>2, <2>1 DEF TranscodesReplaced, TrAlive, RawAlive
<1> QED
  BY <1>7, <1>8, <1>9, <1>10, <1>11, <1>12, <1>13
LEMMA AcquireFailsOK ==
  ASSUME IInv, NEW c \in Consumers, AcquireFails(c)
  PROVE  IInv'
<1> USE DEF IInv
<1>1. PICK ask \in Ask :
        /\ ~ Reuses(ask) /\ Len(raws) < MaxRaw
        /\ raws' = Append(raws, [stream |-> ask.stream, status |-> "cleared"])
        /\ entry' = [raw |-> None, idle |-> NoIdle]
  BY DEF AcquireFails
<1>2. /\ sweeper \in {"asleep", "stopping"}
      /\ trs' = trs /\ held' = held /\ sweeper' = sweeper /\ retiring' = retiring
      /\ pc' = pc /\ want' = want /\ got' = got /\ waited' = waited
  BY DEF AcquireFails, Unlocked
<1>3. "cleared" \in Status
  BY DEF Status
<1>4. /\ raws' \in Seq(Source) /\ Len(raws)' = Len(raws) + 1 /\ Len(raws)' <= MaxRaw
      /\ \A i \in 1 .. Len(raws) : raws'[i] = raws[i]
      /\ raws'[Len(raws) + 1].stream = ask.stream /\ raws'[Len(raws) + 1].status = "cleared"
      /\ DOMAIN raws' = 1 .. Len(raws) + 1 /\ Len(raws) \in Nat
      /\ entry'.raw = None /\ entry'.idle = NoIdle
  <2>1. Len(raws) \in Nat
    BY Types
  <2>2. /\ raws' \in Seq(Source) /\ Len(raws)' = Len(raws) + 1 /\ Len(raws)' <= MaxRaw
        /\ \A i \in 1 .. Len(raws) : raws'[i] = raws[i]
        /\ raws'[Len(raws) + 1].stream = ask.stream
        /\ raws'[Len(raws) + 1].status = "cleared"
        /\ DOMAIN raws' = 1 .. Len(raws) + 1
    BY <1>1, <1>3, AppendedSource
  <2>3. entry'.raw = None /\ entry'.idle = NoIdle
    BY <1>1
  <2> QED
    BY <2>1, <2>2, <2>3
<1>5. \A k \in 1 .. Len(raws)' : \/ k \in 1 .. Len(raws) /\ raws'[k] = raws[k]
                                 \/ k = Len(raws) + 1 /\ raws'[k].status = "cleared"
  <2>1. \A n, k \in Nat : k \in 1 .. n + 1 => k \in 1 .. n \/ k = n + 1
    OBVIOUS
  <2> QED
    BY <1>4, <2>1
<1>6. \A j : Attached(j)' = Attached(j)
  BY <1>2 DEF Attached, TrPointed
<1>7. TypeOK'
  <2>1. entry' \in [raw : {None} \cup DOMAIN raws', idle : NoIdle .. Linger - 1]
    <3>1. NoIdle \in NoIdle .. Linger - 1
      BY RegistryAssumption DEF NoIdle
    <3> QED
      BY <1>1, <3>1
  <2>2. \A j \in DOMAIN trs : trs[j].up \in DOMAIN raws'
    BY <1>4, Types
  <2> QED
    BY <1>2, <1>4, <2>1, <2>2 DEF TypeOK, Source
<1>8. Holding' /\ Retirement' /\ Newest'
  <2>1. Holding'
    <3>1. \A d \in Consumers : got[d].raw \in 0 .. Len(raws)'
      BY <1>4 DEF Holding
    <3> QED
      BY <1>2, <3>1 DEF Holding, Nothing
  <2> QED
    BY <1>2, <1>4, <2>1 DEF Retirement, Newest
<1>9. InTime'
  BY <1>2, <1>4 DEF InTime, Pending
<1>10. SourcesOutOfReach'
  <2>1. \A k \in 1 .. Len(raws)' : Condemned(raws'[k], k, retiring'.raw) =>
          k \in 1 .. Len(raws) /\ Condemned(raws[k], k, retiring.raw)
    BY <1>2, <1>5 DEF Condemned
  <2> QED
    BY <1>2, <1>4, <1>6, <2>1, SourcesStayOut
<1>11. TranscodesOutOfReach' /\ TranscodesReplaced'
  <2>1. \A j \in 1 .. Len(trs) : raws'[trs[j].up] = raws[trs[j].up]
    BY <1>4, Types
  <2>2. TranscodesOutOfReach'
    BY <1>2, <2>1, TranscodesStayOut DEF RawAlive
  <2> QED
    BY <1>2, <2>1, <2>2 DEF TranscodesReplaced, TrAlive, RawAlive
<1>12. SourcesReplaced'
  <2> SUFFICES ASSUME NEW k \in 1 .. Len(raws)', raws'[k].status = "playing"
               PROVE  \/ k = retiring.raw
                      \/ k < Len(raws)' /\ raws'[k + 1].stream # raws'[k].stream
    BY <1>2 DEF SourcesReplaced, RawAlive
  <2>1. k \in 1 .. Len(raws) /\ raws[k].status = "playing" /\ raws'[k] = raws[k]
    BY <1>5
  <2>2. CASE k = entry.raw
    <3>1. k = Len(raws) /\ raws[k].stream # ask.stream
      BY <1>1, <2>1, <2>2 DEF Newest, Reuses, RawAlive, None
    <3> QED
      BY <1>4, <2>1, <3>1
  <2>3. CASE k # entry.raw
    <3>1. k = retiring.raw \/ (k + 1 \in 1 .. Len(raws) /\ raws[k + 1].stream # raws[k].stream)
      BY <1>4, <2>1, <2>3 DEF SourcesReplaced, RawAlive
    <3> QED
      BY <1>4, <2>1, <3>1
  <2> QED
    BY <2>2, <2>3
<1> QED
  BY <1>7, <1>8, <1>9, <1>10, <1>11, <1>12

LEMMA AppendedTranscode ==
  ASSUME IInv, NEW c \in Consumers, pc[c] = "half", NEW status \in Status, Len(trs) < MaxTr,
         trs' = Append(trs, Built(c, status))
  PROVE  /\ trs' \in Seq(Transcode) /\ Len(trs)' = Len(trs) + 1 /\ Len(trs)' <= MaxTr
         /\ \A j \in 1 .. Len(trs) : trs'[j] = trs[j]
         /\ trs'[Len(trs) + 1] = Built(c, status)
         /\ Built(c, status).up = got[c].raw /\ got[c].raw \in 1 .. Len(raws)
         /\ Built(c, status).rate = want[c].rate /\ Built(c, status).status = status
         /\ DOMAIN trs' = 1 .. Len(trs) + 1
<1>1. /\ got[c].raw \in 0 .. Len(raws) /\ got[c].raw # None /\ want[c].rate \in Rates
  BY DEF IInv, Holding
<1>2. got[c].raw \in 1 .. Len(raws) /\ got[c].raw \in Raws
  BY <1>1, Types DEF IInv, None, Raws
<1>3. /\ Built(c, status) \in Transcode /\ Built(c, status).up = got[c].raw
      /\ Built(c, status).rate = want[c].rate /\ Built(c, status).status = status
  BY <1>1, <1>2 DEF Built, Transcode
<1>4. trs \in Seq(Transcode) /\ Len(trs) \in Nat /\ MaxTr \in Nat
  BY Types, RegistryAssumption DEF IInv
<1> HIDE DEF Built
<1> QED
  BY <1>2, <1>3, <1>4, AppendProperties

LEMMA EncodeOK ==
  ASSUME IInv, NEW c \in Consumers, Encode(c)
  PROVE  IInv'
<1> USE DEF IInv
<1>1. PICK i \in {held.tr, Len(trs) + 1} :
        /\ IF TakesHeld(c)
           THEN i = held.tr /\ held' = [held EXCEPT !.idle = NoIdle] /\ trs' = trs
           ELSE /\ i = Len(trs) + 1 /\ i <= MaxTr
                /\ trs' = Append(trs, Built(c, "playing"))
                /\ held' = [tr |-> i, idle |-> NoIdle]
        /\ got' = [got EXCEPT ![c] = [raw |-> None, tr |-> i]]
  BY DEF Encode
<1>2. /\ pc[c] = "half" /\ sweeper \in {"asleep", "stopping"} /\ pc' = [pc EXCEPT ![c] = "have"]
      /\ raws' = raws /\ entry' = entry /\ sweeper' = sweeper /\ retiring' = retiring
      /\ want' = want /\ waited' = waited
  BY DEF Encode, Unlocked
<1>3. /\ pc'[c] = "have" /\ got'[c] = [raw |-> None, tr |-> i]
      /\ got'[c].raw = None /\ got'[c].tr = i
      /\ \A d \in Consumers \ {c} : pc'[d] = pc[d] /\ got'[d] = got[d]
  BY <1>1, <1>2 DEF TypeOK
<1>4. Pending' = Pending
  BY <1>2, <1>3 DEF Pending, TypeOK
<1>5. \/ TakesHeld(c) /\ i = held.tr /\ trs' = trs
      \/ /\ ~ TakesHeld(c) /\ i = Len(trs) + 1 /\ Len(trs)' = Len(trs) + 1 /\ Len(trs) < MaxTr
         /\ trs'[i].up = got[c].raw /\ trs'[i].rate = want[c].rate /\ trs'[i].status = "playing"
         /\ got[c].raw \in 1 .. Len(raws)
  <2>1. CASE ~ TakesHeld(c)
    <3>1. Len(trs) \in Nat /\ Len(trs) < MaxTr /\ "playing" \in Status
      BY <1>1, <2>1, Types, RegistryAssumption DEF Status
    <3> QED
      BY <1>1, <1>2, <2>1, <3>1, AppendedTranscode
  <2> QED
    BY <1>1, <2>1
<1>6. /\ Len(trs) \in Nat /\ Len(trs)' \in Nat /\ Len(trs) <= Len(trs)'
      /\ i \in 1 .. Len(trs)' /\ held'.tr = i /\ held'.idle = NoIdle
      /\ trs' \in Seq(Transcode) /\ Len(trs)' <= MaxTr /\ DOMAIN trs' = 1 .. Len(trs)'
      /\ \A k \in 1 .. Len(trs) : trs'[k] = trs[k]
  <2>1. CASE TakesHeld(c)
    BY <1>1, <2>1, Types DEF TakesHeld, TypeOK, None
  <2>2. CASE ~ TakesHeld(c)
    <3>1. Len(trs) \in Nat /\ Len(trs) < MaxTr /\ "playing" \in Status
      BY <1>1, <2>2, Types, RegistryAssumption DEF Status
    <3> QED
      BY <1>1, <1>2, <2>2, <3>1, AppendedTranscode
  <2> QED
    BY <2>1, <2>2
<1>7. /\ i = held.tr \/ i > Len(trs)
      /\ \A k \in 1 .. Len(trs)' :
           k \in 1 .. Len(trs) \/ (k = i /\ i > Len(trs) /\ trs'[k].status = "playing")
  <2>1. CASE i = held.tr /\ trs' = trs
    BY <2>1
  <2>2. CASE i = Len(trs) + 1 /\ Len(trs)' = Len(trs) + 1 /\ trs'[i].status = "playing"
    <3>1. \A n, k \in Nat : k \in 1 .. n + 1 => k \in 1 .. n \/ k = n + 1
      OBVIOUS
    <3>2. i > Len(trs)
      BY <1>6, <2>2
    <3> QED
      BY <1>6, <2>2, <3>1, <3>2
  <2> QED
    BY <1>5, <2>1, <2>2
<1>8. \A j \in 1 .. Len(trs)' : Attached(j)' =>
        \/ j \in 1 .. Len(trs) /\ Attached(j) /\ trs'[j].up = trs[j].up
        \/ \E d \in Consumers : got[d].raw = trs'[j].up
  <2> SUFFICES ASSUME NEW j \in 1 .. Len(trs), Attached(j)' PROVE Attached(j)
    <3>1. ASSUME NEW j \in 1 .. Len(trs)', j \notin 1 .. Len(trs)
          PROVE  got[c].raw = trs'[j].up
      <4>1. j = i /\ i > Len(trs)
        BY <1>7, <3>1
      <4>2. i # held.tr
        BY <1>6, <4>1, Types
      <4> QED
        BY <1>5, <4>1, <4>2
    <3>2. \A j \in 1 .. Len(trs) : trs'[j].up = trs[j].up
      BY <1>6
    <3> QED
      BY <3>1, <3>2
  <2>1. TrPointed(j)' /\ j # None /\ trs'[j] = trs[j] /\ ~ (j > Len(trs))
    BY <1>6 DEF Attached, None
  <2>2. TrPointed(j)
    <3>1. CASE j = i
      BY <1>7, <2>1, <3>1 DEF TrPointed
    <3>2. CASE j # i
      BY <1>2, <1>3, <1>6, <2>1, <3>2 DEF TrPointed
    <3> QED
      BY <3>1, <3>2
  <2> QED
    BY <2>1, <2>2 DEF Attached
<1>9. TypeOK'
  <2>1. /\ pc' \in [Consumers -> {"idle", "half", "have", "watching"}]
    BY <1>2 DEF TypeOK
  <2>2. got' \in [Consumers -> [raw : {None} \cup Raws, tr : {None} \cup Trs]]
    <3>1. i \in Trs
      BY <1>6, RegistryAssumption DEF Trs
    <3>2. [raw |-> None, tr |-> i] \in [raw : {None} \cup Raws, tr : {None} \cup Trs]
      BY <3>1
    <3> QED
      BY <1>1, <3>2 DEF TypeOK
  <2>3. held' \in [tr : {None} \cup DOMAIN trs', idle : NoIdle .. Linger - 1]
    <3>1. NoIdle \in NoIdle .. Linger - 1
      BY RegistryAssumption DEF NoIdle
    <3>2. held' = [tr |-> i, idle |-> NoIdle]
      BY <1>1 DEF TypeOK
    <3> QED
      BY <1>6, <3>1, <3>2
  <2>4. \A j \in DOMAIN trs' : trs'[j].up \in DOMAIN raws
    BY <1>5, <1>6, <1>7, Types
  <2> QED
    BY <1>2, <1>6, <2>1, <2>2, <2>3, <2>4 DEF TypeOK, Transcode
<1>10. Holding' /\ Retirement' /\ Newest'
  <2>1. Len(raws)' \in Nat /\ Len(raws) <= Len(raws)' /\ None \in 0 .. Len(raws)'
    BY <1>2, Types DEF None
  <2>2. i \in 0 .. Len(trs)'
    BY <1>6
  <2>3. Holding'
    BY <1>2, <1>3, <1>6, <2>1, <2>2, HoldingKept
  <2>4. Retirement'
    BY <1>2, <1>6 DEF Retirement
  <2>5. Newest'
    BY <1>2, <1>5, <1>6 DEF Newest, TakesHeld
  <2> QED
    BY <2>3, <2>4, <2>5
<1>11. InTime'
  <2> SUFFICES ASSUME NEW d \in Pending
               PROVE  /\ got'[d].raw # None /\ got'[d].raw = entry.raw =>
                           /\ entry.idle + 1 <= waited[d]
                           /\ sweeper = "sources" => entry.idle + 2 <= waited[d]
                      /\ got'[d].tr # None /\ got'[d].tr = held'.tr => held'.idle + 1 <= waited[d]
    BY <1>2, <1>4 DEF InTime
  <2>1. d \in Consumers
    BY DEF Pending
  <2>2. held'.idle + 1 = 0 /\ waited[d] >= 0
    BY <1>6, <2>1 DEF NoIdle, TypeOK
  <2>3. CASE d = c
    BY <1>3, <2>2, <2>3
  <2>4. CASE d # c
    BY <1>3, <2>1, <2>2, <2>4 DEF InTime
  <2> QED
    BY <2>3, <2>4
<1>12. SourcesOutOfReach'
  <2>1. \A d \in Consumers : got'[d].raw \in {None, got[d].raw}
    BY <1>3
  <2> QED
    BY <1>2, <1>8, <2>1, SourcesStayOut
<1>13. TranscodesOutOfReach'
  <2>1. \A j \in 1 .. Len(trs)' :
          Condemned(trs'[j], j, retiring'.tr) /\ raws'[trs'[j].up].status = "playing" =>
             j \in 1 .. Len(trs) /\ Condemned(trs[j], j, retiring.tr) /\ RawAlive(trs[j].up)
    <3> SUFFICES ASSUME NEW j \in 1 .. Len(trs)', Condemned(trs'[j], j, retiring.tr)
                 PROVE  j \in 1 .. Len(trs) /\ trs'[j] = trs[j]
      BY <1>2 DEF RawAlive
    <3>1. CASE j \notin 1 .. Len(trs)
      <4>1. trs'[j].status = "playing" /\ j # retiring.tr
        BY <1>6, <1>7, <3>1 DEF Retirement
      <4> QED
        BY <4>1 DEF Condemned
    <3> QED
      BY <1>6, <3>1
  <2>2. \A d \in Consumers : got'[d].tr \in {None, got[d].tr, held.tr} \/ got'[d].tr > Len(trs)
    BY <1>3, <1>7
  <2> QED
    BY <1>6, <1>7, <2>1, <2>2, TranscodesStayOut
<1>14. SourcesReplaced'
  BY <1>2 DEF SourcesReplaced, RawAlive
<1>15. TranscodesReplaced'
  <2> SUFFICES ASSUME NEW k \in 1 .. Len(trs)', TrAlive(k)'
               PROVE  \/ k \in {i, retiring.tr} \/ k = MaxTr
                      \/ k < Len(trs)' /\ trs'[k + 1].rate # trs'[k].rate
    BY <1>2, <1>6 DEF TranscodesReplaced
  <2>1. CASE k # i
    <3>1. k \in 1 .. Len(trs) /\ trs'[k] = trs[k] /\ TrAlive(k)
      BY <1>2, <1>6, <1>7, <2>1 DEF TrAlive, RawAlive
    <3>2. CASE k = held.tr
      <4>1. k = Len(trs) /\ i = Len(trs) + 1 /\ trs'[i].rate = want[c].rate
        BY <1>5, <2>1, <3>1, <3>2 DEF Newest, None
      <4>2. trs[k].rate # want[c].rate
        BY <1>5, <2>1, <3>1, <3>2 DEF TakesHeld, None
      <4> QED
        BY <1>6, <3>1, <4>1, <4>2
    <3>3. CASE k # held.tr
      <4>1. \/ k = retiring.tr \/ k = MaxTr
            \/ k + 1 \in 1 .. Len(trs) /\ trs[k + 1].rate # trs[k].rate
        BY <1>6, <3>1, <3>3 DEF TranscodesReplaced
      <4> QED
        BY <1>6, <3>1, <4>1
    <3> QED
      BY <3>2, <3>3
  <2> QED
    BY <2>1
<1> QED
  BY <1>9, <1>10, <1>11, <1>12, <1>13, <1>14, <1>15
LEMMA EncodeFailsOK ==
  ASSUME IInv, NEW c \in Consumers, EncodeFails(c)
  PROVE  IInv'
<1> USE DEF IInv
<1>1. /\ pc[c] = "half" /\ sweeper \in {"asleep", "stopping"} /\ ~ TakesHeld(c)
      /\ held' = [tr |-> None, idle |-> NoIdle] /\ held'.tr = None /\ held'.idle = NoIdle
      /\ trs' = (IF Len(trs) < MaxTr THEN Append(trs, Built(c, "cleared")) ELSE trs)
      /\ Leaves(c)
      /\ raws' = raws /\ entry' = entry /\ sweeper' = sweeper /\ retiring' = retiring
  BY DEF EncodeFails, Unlocked
<1>2. /\ pc'[c] = "idle" /\ got'[c] = Nothing /\ Pending' = Pending \ {c}
      /\ got'[c].raw = None /\ got'[c].tr = None
      /\ \A d \in Consumers \ {c} : /\ pc'[d] = pc[d] /\ got'[d] = got[d]
                                    /\ want'[d] = want[d] /\ waited'[d] = waited[d]
  BY <1>1, Left
<1>3. \/ Len(trs) = MaxTr /\ trs' = trs
      \/ /\ Len(trs)' = Len(trs) + 1 /\ trs'[Len(trs) + 1].rate = want[c].rate
         /\ trs'[Len(trs) + 1].status = "cleared" /\ trs'[Len(trs) + 1].up \in 1 .. Len(raws)
  <2>1. CASE Len(trs) < MaxTr
    <3>1. "cleared" \in Status
      BY DEF Status
    <3> QED
      BY <1>1, <2>1, <3>1, AppendedTranscode
  <2>2. CASE ~ (Len(trs) < MaxTr)
    <3>1. Len(trs) \in 0 .. MaxTr /\ MaxTr \in Nat
      BY Types, RegistryAssumption
    <3>2. Len(trs) = MaxTr
      BY <2>2, <3>1
    <3> QED
      BY <1>1, <2>2, <3>2
  <2> QED
    BY <2>1, <2>2
<1>4. /\ trs' \in Seq(Transcode) /\ Len(trs) \in Nat /\ Len(trs)' \in Nat
      /\ Len(trs)' <= MaxTr /\ Len(trs) <= Len(trs)' /\ DOMAIN trs' = 1 .. Len(trs)'
      /\ \A j \in 1 .. Len(trs) : trs'[j] = trs[j]
  <2>1. CASE Len(trs) < MaxTr
    <3>1. "cleared" \in Status /\ Len(trs) \in Nat
      BY Types DEF Status
    <3> QED
      BY <1>1, <2>1, <3>1, AppendedTranscode
  <2> QED
    BY <1>1, <2>1, Types
<1>5. \A k \in 1 .. Len(trs)' : \/ k \in 1 .. Len(trs) /\ trs'[k] = trs[k]
                                \/ k = Len(trs) + 1 /\ trs'[k].status = "cleared"
  <2>1. \A n, k \in Nat : k \in 1 .. n + 1 => k \in 1 .. n \/ k = n + 1
    OBVIOUS
  <2>2. CASE trs' = trs
    BY <2>2
  <2>3. CASE Len(trs)' = Len(trs) + 1 /\ trs'[Len(trs) + 1].status = "cleared"
    BY <1>4, <2>1, <2>3
  <2> QED
    BY <1>3, <2>2, <2>3
<1>6. \A j \in 1 .. Len(trs)' : Attached(j)' =>
        j \in 1 .. Len(trs) /\ Attached(j) /\ trs'[j].up = trs[j].up
  <2> SUFFICES ASSUME NEW j \in 1 .. Len(trs)', Attached(j)'
               PROVE  j \in 1 .. Len(trs) /\ Attached(j) /\ trs'[j].up = trs[j].up
    OBVIOUS
  <2>1. TrPointed(j)' /\ j # None /\ trs'[j].status # "cleared"
    BY <1>4 DEF Attached, None
  <2>2. TrPointed(j)
    BY <1>1, <1>2, <2>1 DEF TrPointed
  <2> QED
    BY <1>5, <2>1, <2>2 DEF Attached
<1>7. TypeOK'
  <2>1. held' \in [tr : {None} \cup DOMAIN trs', idle : NoIdle .. Linger - 1]
    <3>1. NoIdle \in NoIdle .. Linger - 1
      BY RegistryAssumption DEF NoIdle
    <3> QED
      BY <1>1, <3>1
  <2>2. \A j \in DOMAIN trs' : trs'[j].up \in DOMAIN raws
    BY <1>3, <1>4, <1>5, Types
  <2> QED
    BY <1>1, <1>4, <2>1, <2>2, Left DEF TypeOK, Transcode
<1>8. Holding' /\ Retirement' /\ Newest'
  <2>1. /\ Len(raws)' \in Nat /\ Len(raws) <= Len(raws)' /\ None \in 0 .. Len(raws)'
        /\ None \in 0 .. Len(trs)'
    BY <1>1, <1>4, Types DEF None
  <2>2. Holding'
    BY <1>2, <1>4, <2>1, HoldingKept
  <2> QED
    BY <1>1, <1>4, <2>2 DEF Retirement, Newest
<1>9. InTime'
  <2>1. \A d \in Pending' : d \in Pending /\ d \in Consumers \ {c}
    BY <1>2 DEF Pending
  <2> QED
    BY <1>1, <1>2, <2>1 DEF InTime
<1>10. SourcesOutOfReach'
  BY <1>1, <1>2, <1>6, SourcesStayOut
<1>11. TranscodesOutOfReach'
  <2>1. \A j \in 1 .. Len(trs)' :
          Condemned(trs'[j], j, retiring'.tr) /\ raws'[trs'[j].up].status = "playing" =>
             j \in 1 .. Len(trs) /\ Condemned(trs[j], j, retiring.tr) /\ RawAlive(trs[j].up)
    BY <1>1, <1>5 DEF Condemned, RawAlive
  <2> QED
    BY <1>1, <1>2, <2>1, TranscodesStayOut
<1>12. SourcesReplaced'
  BY <1>1 DEF SourcesReplaced, RawAlive
<1>13. TranscodesReplaced'
  <2> SUFFICES ASSUME NEW k \in 1 .. Len(trs)', TrAlive(k)'
               PROVE  \/ k = retiring.tr \/ k = MaxTr
                      \/ k < Len(trs)' /\ trs'[k + 1].rate # trs'[k].rate
    BY <1>1 DEF TranscodesReplaced
  <2>1. k \in 1 .. Len(trs) /\ trs'[k] = trs[k] /\ TrAlive(k)
    BY <1>1, <1>5 DEF TrAlive, RawAlive
  <2>2. CASE k = held.tr
    <3>1. k = Len(trs) /\ trs[k].rate # want[c].rate
      BY <1>1, <2>1, <2>2 DEF Newest, TakesHeld, None
    <3>2. CASE Len(trs) = MaxTr
      BY <3>1, <3>2
    <3>3. CASE Len(trs)' = Len(trs) + 1 /\ trs'[Len(trs) + 1].rate = want[c].rate
      <4>1. k < Len(trs)' /\ trs'[k + 1].rate = want[c].rate
        BY <1>4, <3>1, <3>3
      <4> QED
        BY <2>1, <3>1, <4>1
    <3> QED
      BY <1>3, <3>2, <3>3
  <2>3. CASE k # held.tr
    <3>1. \/ k = retiring.tr \/ k = MaxTr
          \/ k + 1 \in 1 .. Len(trs) /\ trs[k + 1].rate # trs[k].rate
      BY <1>4, <2>1, <2>3 DEF TranscodesReplaced
    <3> QED
      BY <1>4, <2>1, <3>1
  <2> QED
    BY <2>2, <2>3
<1> QED
  BY <1>7, <1>8, <1>9, <1>10, <1>11, <1>12, <1>13

-----------------------------------------------------------------------------
(* A failure, at any time, only takes objects out of play.                 *)
LEMMA FailOK ==
  ASSUME IInv, Fail
  PROVE  IInv'
<1> USE DEF IInv
<1>1. /\ entry' = entry /\ held' = held /\ sweeper' = sweeper /\ retiring' = retiring
      /\ pc' = pc /\ want' = want /\ got' = got /\ waited' = waited
  BY DEF Fail
<1>2. /\ raws' \in Seq(Source) /\ Len(raws)' = Len(raws) /\ DOMAIN raws' = DOMAIN raws
      /\ \A i \in 1 .. Len(raws) :
           /\ raws'[i].stream = raws[i].stream
           /\ raws'[i].status = raws[i].status \/ raws'[i].status = "failed"
  <2>1. CASE raws' = raws
    BY <2>1, Types
  <2>2. ASSUME NEW i \in DOMAIN raws, raws' = [raws EXCEPT ![i].status = "failed"]
        PROVE  /\ raws' \in Seq(Source) /\ Len(raws)' = Len(raws) /\ DOMAIN raws' = DOMAIN raws
               /\ \A k \in 1 .. Len(raws) :
                    /\ raws'[k].stream = raws[k].stream
                    /\ raws'[k].status = raws[k].status \/ raws'[k].status = "failed"
    <3> DEFINE new == [raws[i] EXCEPT !.status = "failed"]
    <3>1. i \in 1 .. Len(raws) /\ raws[i] \in Source /\ raws \in Seq(Source)
      BY <2>2, Types
    <3>2. raws' = [raws EXCEPT ![i] = new]
      BY <2>2
    <3>3. new \in Source /\ new.stream = raws[i].stream /\ new.status = "failed"
      BY <3>1 DEF Source, Status
    <3> HIDE DEF new
    <3>4. /\ raws' \in Seq(Source) /\ Len(raws)' = Len(raws) /\ DOMAIN raws' = DOMAIN raws
          /\ raws'[i] = new /\ \A k \in 1 .. Len(raws) : k # i => raws'[k] = raws[k]
      BY <3>1, <3>2, <3>3
    <3> QED
      BY <3>3, <3>4
  <2> QED
    BY <2>1, <2>2 DEF Fail
<1>3. /\ trs' \in Seq(Transcode) /\ Len(trs)' = Len(trs) /\ DOMAIN trs' = DOMAIN trs
      /\ \A j \in 1 .. Len(trs) :
           /\ trs'[j].up = trs[j].up /\ trs'[j].rate = trs[j].rate
           /\ trs'[j].status = trs[j].status \/ (trs'[j].status = "failed" /\ Attached(j))
  <2>1. CASE trs' = trs
    BY <2>1, Types
  <2>2. ASSUME NEW i \in DOMAIN trs, Attached(i), trs' = [trs EXCEPT ![i].status = "failed"]
        PROVE  /\ trs' \in Seq(Transcode) /\ Len(trs)' = Len(trs) /\ DOMAIN trs' = DOMAIN trs
               /\ \A j \in 1 .. Len(trs) :
                    /\ trs'[j].up = trs[j].up /\ trs'[j].rate = trs[j].rate
                    /\ trs'[j].status = trs[j].status \/ (trs'[j].status = "failed" /\ Attached(j))
    <3> DEFINE new == [trs[i] EXCEPT !.status = "failed"]
    <3>1. i \in 1 .. Len(trs) /\ trs[i] \in Transcode /\ trs \in Seq(Transcode)
      BY <2>2, Types
    <3>2. trs' = [trs EXCEPT ![i] = new]
      BY <2>2
    <3>3. new \in Transcode /\ new.up = trs[i].up /\ new.rate = trs[i].rate /\ new.status = "failed"
      BY <3>1 DEF Transcode, Status
    <3> HIDE DEF new
    <3>4. /\ trs' \in Seq(Transcode) /\ Len(trs)' = Len(trs) /\ DOMAIN trs' = DOMAIN trs
          /\ trs'[i] = new /\ \A k \in 1 .. Len(trs) : k # i => trs'[k] = trs[k]
      BY <3>1, <3>2, <3>3
    <3> QED
      BY <2>2, <3>3, <3>4
  <2> QED
    BY <2>1, <2>2 DEF Fail
<1>4. \A j \in 1 .. Len(trs) : Attached(j)' => Attached(j)
  BY <1>1, <1>3 DEF Attached, TrPointed
<1>5. TypeOK'
  <2>1. \A j \in DOMAIN trs' : trs'[j].up \in DOMAIN raws'
    BY <1>2, <1>3, Types
  <2>2. Len(raws)' <= MaxRaw /\ Len(trs)' <= MaxTr
    BY <1>2, <1>3 DEF TypeOK
  <2> QED
    BY <1>1, <1>2, <1>3, <2>1, <2>2 DEF TypeOK, Source, Transcode
<1>6. Holding' /\ Retirement' /\ Newest'
  BY <1>1, <1>2, <1>3 DEF Holding, Retirement, Newest, Nothing
<1>7. InTime'
  BY <1>1 DEF InTime, Pending
<1>8. SourcesOutOfReach'
  <2>1. \A i \in 1 .. Len(raws)' : Condemned(raws'[i], i, retiring'.raw) =>
           i \in 1 .. Len(raws) /\ Condemned(raws[i], i, retiring.raw)
    BY <1>1, <1>2 DEF Condemned
  <2> QED
    BY <1>1, <1>3, <1>4, <2>1, SourcesStayOut
<1>9. \A j \in 1 .. Len(trs) : trs'[j].up \in 1 .. Len(raws)
  BY <1>3, Types
<1>10. TranscodesOutOfReach'
  <2>1. \A j \in 1 .. Len(trs)' :
          Condemned(trs'[j], j, retiring'.tr) /\ raws'[trs'[j].up].status = "playing" =>
             j \in 1 .. Len(trs) /\ Condemned(trs[j], j, retiring.tr) /\ RawAlive(trs[j].up)
    BY <1>1, <1>2, <1>3, <1>9 DEF Condemned, RawAlive
  <2> QED
    BY <1>1, <2>1, TranscodesStayOut
<1>11. SourcesReplaced'
  <2> SUFFICES ASSUME NEW k \in 1 .. Len(raws), raws'[k].status = "playing"
               PROVE  \/ k \in {entry.raw, retiring.raw}
                      \/ k < Len(raws) /\ raws'[k + 1].stream # raws'[k].stream
    BY <1>1, <1>2 DEF SourcesReplaced, RawAlive
  <2>1. \/ k \in {entry.raw, retiring.raw}
        \/ k < Len(raws) /\ raws[k + 1].stream # raws[k].stream
    BY <1>2 DEF SourcesReplaced, RawAlive
  <2>2. k < Len(raws) => k + 1 \in 1 .. Len(raws)
    BY Types
  <2> QED
    BY <1>2, <2>1, <2>2
<1>12. TranscodesReplaced'
  <2> SUFFICES ASSUME NEW k \in 1 .. Len(trs), TrAlive(k)'
               PROVE  \/ k \in {held.tr, retiring.tr} \/ k = MaxTr
                      \/ k < Len(trs) /\ trs'[k + 1].rate # trs'[k].rate
    BY <1>1, <1>3 DEF TranscodesReplaced
  <2>1. TrAlive(k)
    BY <1>2, <1>3, <1>9 DEF TrAlive, RawAlive
  <2>2. k < Len(trs) => k + 1 \in 1 .. Len(trs)
    BY Types
  <2> QED
    BY <1>3, <2>1, <2>2 DEF TranscodesReplaced
<1> QED
  BY <1>5, <1>6, <1>7, <1>8, <1>10, <1>11, <1>12
-----------------------------------------------------------------------------
(* The sweeper.                                                            *)
LEMMA TimerBounded ==
  ASSUME NEW idle \in NoIdle .. Linger - 1, NEW used \in BOOLEAN, ~ Expired(idle, used)
  PROVE  /\ Counted(idle, used) \in NoIdle .. Linger - 1
         /\ Counted(idle, used) = NoIdle \/ Counted(idle, used) = idle + 1
BY RegistryAssumption DEF Expired, Counted, NoIdle

LEMMA SweepTranscodesOK ==
  ASSUME IInv, SweepTranscodes
  PROVE  IInv'
<1> USE DEF IInv
<1> DEFINE j == held.tr
           used == TrUsed(j)
           retires == j # None /\ (~ TrAlive(j) \/ Expired(held.idle, used))
<1>1. /\ sweeper = "asleep" /\ sweeper' = "sources" /\ \A c \in Pending : waited[c] < Patience
      /\ waited' = [c \in Consumers |-> IF c \in Pending THEN waited[c] + 1 ELSE waited[c]]
      /\ IF retires
         THEN held' = [tr |-> None, idle |-> NoIdle] /\ retiring' = [retiring EXCEPT !.tr = j]
         ELSE /\ held' = IF j = None THEN held ELSE [held EXCEPT !.idle = Counted(@, used)]
              /\ retiring' = retiring
      /\ raws' = raws /\ trs' = trs /\ entry' = entry /\ pc' = pc /\ want' = want /\ got' = got
  BY DEF SweepTranscodes
<1>2. /\ retiring = Nothing /\ retiring.raw = None /\ retiring.tr = None
      /\ used \in BOOLEAN /\ Pending' = Pending /\ Pending \subseteq Consumers
  BY <1>1 DEF Retirement, Nothing, TrUsed, Pending
<1>3. /\ held.tr \in 0 .. Len(trs) /\ held.idle \in NoIdle .. Linger - 1
      /\ held \in [tr : {None} \cup DOMAIN trs, idle : NoIdle .. Linger - 1]
      /\ \A c \in Consumers : waited[c] \in 0 .. Patience
      /\ Linger \in Nat /\ Patience \in Nat /\ Patience <= Linger
  BY Types, RegistryAssumption, AttachesInTime DEF TypeOK
<1>4. /\ retires => held'.tr = None /\ held'.idle = NoIdle /\ retiring'.tr = j /\ retiring'.raw = None
      /\ ~ retires => /\ held'.tr = j /\ retiring' = retiring
                      /\ j # None => held'.idle \in {NoIdle, held.idle + 1}
                      /\ held' \in [tr : {None} \cup DOMAIN trs, idle : NoIdle .. Linger - 1]
  <2>1. CASE retires
    BY <1>1, <1>2, <2>1 DEF Nothing
  <2>2. CASE ~ retires /\ j = None
    BY <1>1, <1>3, <2>2
  <2>3. CASE ~ retires /\ j # None
    <3>1. ~ Expired(held.idle, used)
      BY <2>3
    <3> DEFINE n == Counted(held.idle, used)
    <3>2. n \in NoIdle .. Linger - 1 /\ n \in {NoIdle, held.idle + 1}
      BY <1>2, <1>3, <3>1, TimerBounded
    <3>3. held' = [held EXCEPT !.idle = n] /\ retiring' = retiring
      BY <1>1, <2>3
    <3> HIDE DEF n
    <3>4. held'.tr = held.tr /\ held'.idle = n
          /\ held' \in [tr : {None} \cup DOMAIN trs, idle : NoIdle .. Linger - 1]
      BY <1>3, <3>2, <3>3
    <3> QED
      BY <2>3, <3>2, <3>3, <3>4
  <2> QED
    BY <2>1, <2>2, <2>3
<1>5. ASSUME retires, TrAlive(j), NEW c \in Consumers PROVE got[c].tr # j
  <2>1. ~ used /\ held.idle + 1 >= Linger /\ j # None
    BY <1>5 DEF Expired, Counted
  <2>2. pc[c] \in {"idle", "half", "have", "watching"}
    BY DEF TypeOK
  <2>3. CASE pc[c] = "idle" \/ pc[c] = "half"
    BY <2>1, <2>3 DEF Holding, Nothing
  <2>4. CASE pc[c] = "have"
    <3>1. c \in Pending
      BY <2>4 DEF Pending
    <3>2. got[c].tr = j => held.idle + 1 <= waited[c]
      BY <2>1, <3>1 DEF InTime
    <3>3. waited[c] < Patience
      BY <1>1, <3>1
    <3> QED
      BY <1>3, <2>1, <3>2, <3>3 DEF NoIdle
  <2>5. CASE pc[c] = "watching"
    BY <2>1, <2>5 DEF TrUsed
  <2> QED
    BY <2>2, <2>3, <2>4, <2>5
<1>6. \A k \in 1 .. Len(trs) : Attached(k)' => Attached(k)
  <2> SUFFICES ASSUME NEW k \in 1 .. Len(trs), Attached(k)' PROVE TrPointed(k)
    BY <1>1 DEF Attached
  <2>1. TrPointed(k)' /\ k # None
    BY DEF Attached, None
  <2>2. held'.tr \in {None, held.tr} /\ retiring'.tr \in {retiring.tr, held.tr}
    BY <1>4
  <2> QED
    BY <1>1, <2>1, <2>2 DEF TrPointed
<1>7. TypeOK'
  <2>1. waited' \in [Consumers -> 0 .. Patience]
    BY <1>1, <1>3
  <2>2. held' \in [tr : {None} \cup DOMAIN trs, idle : NoIdle .. Linger - 1]
    <3>1. NoIdle \in NoIdle .. Linger - 1
      BY RegistryAssumption DEF NoIdle
    <3> QED
      BY <1>1, <1>4, <3>1
  <2>3. retiring' \in [raw : {None} \cup Raws, tr : {None} \cup Trs]
    <3>1. held.tr \in {None} \cup Trs
      BY <1>3, Types, RegistryAssumption DEF Trs, None
    <3> QED
      BY <1>1, <1>2, <3>1 DEF TypeOK
  <2> QED
    BY <1>1, <2>1, <2>2, <2>3 DEF TypeOK
<1>8. Holding' /\ Retirement' /\ Newest'
  <2>1. Holding'
    BY <1>1 DEF Holding, Nothing
  <2>2. Retirement'
    BY <1>1, <1>2, <1>3, <1>4 DEF Retirement
  <2>3. Newest'
    BY <1>1, <1>4 DEF Newest
  <2> QED
    BY <2>1, <2>2, <2>3
<1>9. InTime'
  <2> SUFFICES ASSUME NEW c \in Pending
               PROVE  /\ got[c].raw # None /\ got[c].raw = entry.raw =>
                           entry.idle + 1 <= waited'[c] /\ entry.idle + 2 <= waited'[c]
                      /\ got[c].tr # None /\ got[c].tr = held'.tr => held'.idle + 1 <= waited'[c]
    BY <1>1, <1>2 DEF InTime
  <2>1. /\ waited'[c] = waited[c] + 1 /\ waited[c] \in Nat /\ entry.idle \in Int /\ held.idle \in Int
    BY <1>1, <1>2, <1>3, Types DEF NoIdle
  <2>2. /\ got[c].raw # None /\ got[c].raw = entry.raw => entry.idle + 1 <= waited[c]
        /\ got[c].tr # None /\ got[c].tr = held.tr => held.idle + 1 <= waited[c]
    BY DEF InTime
  <2>3. got[c].tr # None /\ got[c].tr = held'.tr =>
          got[c].tr = held.tr /\ held'.idle \in {NoIdle, held.idle + 1}
    BY <1>4
  <2> QED
    BY <2>1, <2>2, <2>3 DEF NoIdle
<1>10. SourcesOutOfReach'
  <2>1. retiring'.raw = retiring.raw
    BY <1>2, <1>4
  <2> QED
    BY <1>1, <1>6, <2>1, SourcesStayOut
<1>11. TranscodesOutOfReach'
  <2> SUFFICES ASSUME NEW k \in 1 .. Len(trs), Condemned(trs[k], k, retiring'.tr),
                      RawAlive(trs[k].up)
               PROVE  k # held'.tr /\ \A c \in Consumers : got[c].tr # k
    BY <1>1 DEF TranscodesOutOfReach, RawAlive
  <2>1. CASE retires /\ k = j /\ trs[k].status = "playing"
    <3>1. TrAlive(j)
      BY <2>1 DEF TrAlive
    <3> QED
      BY <1>4, <1>5, <2>1, <3>1
  <2>2. CASE ~ (retires /\ k = j /\ trs[k].status = "playing")
    <3>1. Condemned(trs[k], k, retiring.tr)
      BY <1>4, <2>2 DEF Condemned
    <3>2. k # held.tr /\ \A c \in Consumers : got[c].tr # k
      BY <3>1 DEF TranscodesOutOfReach
    <3> QED
      BY <1>4, <3>2 DEF None
  <2> QED
    BY <2>1, <2>2
<1>12. SourcesReplaced'
  <2>1. retiring'.raw = retiring.raw
    BY <1>2, <1>4
  <2> QED
    BY <1>1, <2>1 DEF SourcesReplaced, RawAlive
<1>13. TranscodesReplaced'
  <2>1. \A k \in 1 .. Len(trs) : k \in {held.tr, retiring.tr} => k \in {held'.tr, retiring'.tr}
    BY <1>2, <1>4 DEF None
  <2> QED
    BY <1>1, <2>1 DEF TranscodesReplaced, TrAlive, RawAlive
<1> QED
  BY <1>7, <1>8, <1>9, <1>10, <1>11, <1>12, <1>13

LEMMA SweepSourcesOK ==
  ASSUME IInv, SweepSources
  PROVE  IInv'
<1> USE DEF IInv
<1> DEFINE i == entry.raw
           used == RawUsed(i)
           retires == i # None /\ (~ RawAlive(i) \/ Expired(entry.idle, used))
<1>1. /\ sweeper = "sources" /\ sweeper' = "stopping"
      /\ IF retires
         THEN entry' = [raw |-> None, idle |-> NoIdle] /\ retiring' = [retiring EXCEPT !.raw = i]
         ELSE /\ entry' = IF i = None THEN entry ELSE [entry EXCEPT !.idle = Counted(@, used)]
              /\ retiring' = retiring
      /\ raws' = raws /\ trs' = trs /\ held' = held /\ pc' = pc /\ want' = want /\ got' = got
      /\ waited' = waited
  BY DEF SweepSources
<1>2. /\ retiring.raw = None /\ retiring \in [raw : {None} \cup Raws, tr : {None} \cup Trs]
      /\ used \in BOOLEAN /\ Pending' = Pending /\ Pending \subseteq Consumers
  BY <1>1 DEF Retirement, RawUsed, Pending, TypeOK
<1>3. /\ entry.raw \in 0 .. Len(raws) /\ entry.idle \in NoIdle .. Linger - 1
      /\ entry \in [raw : {None} \cup DOMAIN raws, idle : NoIdle .. Linger - 1]
      /\ \A c \in Consumers : waited[c] \in 0 .. Patience
      /\ Linger \in Nat /\ Patience \in Nat /\ Patience <= Linger
  BY Types, RegistryAssumption, AttachesInTime DEF TypeOK
<1>4. /\ retiring'.tr = retiring.tr
      /\ retires => entry'.raw = None /\ entry'.idle = NoIdle /\ retiring'.raw = i
      /\ ~ retires => /\ entry'.raw = i /\ retiring' = retiring
                      /\ i # None => entry'.idle \in {NoIdle, entry.idle + 1}
                      /\ entry' \in [raw : {None} \cup DOMAIN raws, idle : NoIdle .. Linger - 1]
  <2>1. CASE retires
    BY <1>1, <1>2, <2>1
  <2>2. CASE ~ retires /\ i = None
    BY <1>1, <1>3, <2>2
  <2>3. CASE ~ retires /\ i # None
    <3>1. ~ Expired(entry.idle, used)
      BY <2>3
    <3> DEFINE n == Counted(entry.idle, used)
    <3>2. n \in NoIdle .. Linger - 1 /\ n \in {NoIdle, entry.idle + 1}
      BY <1>2, <1>3, <3>1, TimerBounded
    <3>3. entry' = [entry EXCEPT !.idle = n] /\ retiring' = retiring
      BY <1>1, <2>3
    <3> HIDE DEF n
    <3>4. entry'.raw = entry.raw /\ entry'.idle = n
          /\ entry' \in [raw : {None} \cup DOMAIN raws, idle : NoIdle .. Linger - 1]
      BY <1>3, <3>2, <3>3
    <3> QED
      BY <2>3, <3>2, <3>3, <3>4
  <2> QED
    BY <2>1, <2>2, <2>3
<1>5. ASSUME retires, RawAlive(i)
      PROVE  /\ \A c \in Consumers : got[c].raw # i
             /\ \A j \in 1 .. Len(trs) : trs[j].up = i => ~ Attached(j)
  <2>1. ~ used /\ entry.idle + 1 >= Linger /\ i # None
    BY <1>5 DEF Expired, Counted
  <2>2. \A j \in 1 .. Len(trs) : trs[j].up = i => ~ Attached(j)
    BY <2>1, Types DEF RawUsed
  <2>3. ASSUME NEW c \in Consumers PROVE got[c].raw # i
    <3>1. pc[c] \in {"idle", "half", "have", "watching"}
      BY DEF TypeOK
    <3>2. CASE pc[c] = "idle"
      BY <2>1, <3>2 DEF Holding, Nothing
    <3>3. CASE pc[c] \in {"half", "have"}
      <4>1. c \in Pending
        BY <3>3 DEF Pending
      <4>2. got[c].raw = i => entry.idle + 2 <= waited[c]
        BY <1>1, <2>1, <4>1 DEF InTime
      <4> QED
        BY <1>3, <2>1, <4>2 DEF NoIdle
    <3>4. CASE pc[c] = "watching"
      BY <2>1, <3>4 DEF RawUsed
    <3> QED
      BY <3>1, <3>2, <3>3, <3>4
  <2> QED
    BY <2>2, <2>3
<1>6. \A k \in 1 .. Len(trs) : Attached(k)' => Attached(k)
  BY <1>1, <1>4 DEF Attached, TrPointed
<1>7. TypeOK'
  <2>1. entry' \in [raw : {None} \cup DOMAIN raws, idle : NoIdle .. Linger - 1]
    <3>1. NoIdle \in NoIdle .. Linger - 1
      BY RegistryAssumption DEF NoIdle
    <3> QED
      BY <1>1, <1>4, <3>1
  <2>2. retiring' \in [raw : {None} \cup Raws, tr : {None} \cup Trs]
    <3>1. entry.raw \in {None} \cup Raws
      BY <1>3, Types, RegistryAssumption DEF Raws, None
    <3> QED
      BY <1>1, <1>2, <3>1
  <2> QED
    BY <1>1, <2>1, <2>2 DEF TypeOK
<1>8. Holding' /\ Retirement' /\ Newest'
  <2>1. Holding'
    BY <1>1 DEF Holding, Nothing
  <2>2. Retirement'
    BY <1>1, <1>2, <1>3, <1>4 DEF Retirement
  <2>3. Newest'
    BY <1>1, <1>4 DEF Newest
  <2> QED
    BY <2>1, <2>2, <2>3
<1>9. InTime'
  <2> SUFFICES ASSUME NEW c \in Pending
               PROVE  /\ got[c].raw # None /\ got[c].raw = entry'.raw => entry'.idle + 1 <= waited[c]
                      /\ got[c].tr # None /\ got[c].tr = held.tr => held.idle + 1 <= waited[c]
    BY <1>1, <1>2 DEF InTime
  <2>1. waited[c] \in Nat /\ entry.idle \in Int
    BY <1>2, <1>3 DEF NoIdle
  <2>2. /\ got[c].raw # None /\ got[c].raw = entry.raw => entry.idle + 2 <= waited[c]
        /\ got[c].tr # None /\ got[c].tr = held.tr => held.idle + 1 <= waited[c]
    BY <1>1 DEF InTime
  <2>3. got[c].raw # None /\ got[c].raw = entry'.raw =>
          got[c].raw = entry.raw /\ entry'.idle \in {NoIdle, entry.idle + 1}
    BY <1>4
  <2> QED
    BY <2>1, <2>2, <2>3 DEF NoIdle
<1>10. SourcesOutOfReach'
  <2> SUFFICES ASSUME NEW k \in 1 .. Len(raws), Condemned(raws[k], k, retiring'.raw)
               PROVE  /\ k # entry'.raw /\ \A c \in Consumers : got[c].raw # k
                      /\ \A j \in 1 .. Len(trs) : trs[j].up = k => ~ Attached(j)'
    BY <1>1 DEF SourcesOutOfReach
  <2>1. CASE retires /\ k = i /\ raws[k].status = "playing"
    <3>1. RawAlive(i)
      BY <2>1 DEF RawAlive
    <3> QED
      BY <1>4, <1>5, <1>6, <2>1, <3>1
  <2>2. CASE ~ (retires /\ k = i /\ raws[k].status = "playing")
    <3>1. Condemned(raws[k], k, retiring.raw)
      BY <1>4, <2>2 DEF Condemned
    <3>2. /\ k # entry.raw /\ \A c \in Consumers : got[c].raw # k
          /\ \A j \in 1 .. Len(trs) : trs[j].up = k => ~ Attached(j)
      BY <3>1 DEF SourcesOutOfReach
    <3> QED
      BY <1>4, <1>6, <3>2 DEF None
  <2> QED
    BY <2>1, <2>2
<1>11. TranscodesOutOfReach'
  BY <1>1, <1>4 DEF TranscodesOutOfReach, RawAlive
<1>12. SourcesReplaced'
  <2>1. \A k \in 1 .. Len(raws) : k \in {entry.raw, retiring.raw} => k \in {entry'.raw, retiring'.raw}
    BY <1>2, <1>4 DEF None
  <2> QED
    BY <1>1, <2>1 DEF SourcesReplaced, RawAlive
<1>13. TranscodesReplaced'
  BY <1>1, <1>4 DEF TranscodesReplaced, TrAlive, RawAlive
<1> QED
  BY <1>7, <1>8, <1>9, <1>10, <1>11, <1>12, <1>13
LEMMA EndedIsOver ==
  ASSUME NEW status \in Status
  PROVE  /\ Ended(status) \notin {"playing", "failed"}
         /\ Ended(status) = "stopped" => status \in {"playing", "stopped"}
BY DEF Ended, Status

LEMMA StopTranscodeOK ==
  ASSUME IInv, StopTranscode
  PROVE  IInv'
<1> USE DEF IInv
<1> DEFINE r == retiring.tr
<1>1. /\ sweeper = "stopping" /\ r # None /\ trs' = Stopped(trs, r)
      /\ retiring' = [retiring EXCEPT !.tr = None]
      /\ raws' = raws /\ entry' = entry /\ held' = held /\ sweeper' = sweeper /\ pc' = pc
      /\ want' = want /\ got' = got /\ waited' = waited
  BY DEF StopTranscode
<1>2. /\ r \in 0 .. Len(trs) /\ retiring'.tr = None /\ retiring'.raw = retiring.raw
      /\ retiring' \in [raw : {None} \cup Raws, tr : {None} \cup Trs]
  BY <1>1 DEF Retirement, TypeOK
<1>3. /\ trs' \in Seq(Transcode) /\ Len(trs') = Len(trs) /\ DOMAIN trs' = DOMAIN trs
      /\ \A k \in 1 .. Len(trs) :
           /\ trs'[k].up = trs[k].up /\ trs'[k].rate = trs[k].rate
           /\ trs'[k].status = IF k = r THEN Ended(trs[k].status) ELSE trs[k].status
  <2>1. trs \in Seq(Transcode) /\ Len(trs) \in Nat /\ DOMAIN trs = 1 .. Len(trs)
    BY Types
  <2> QED
    BY <1>1, <1>2, <2>1, StoppedTranscode
<1>4. \A k \in 1 .. Len(trs) : trs[k].status \in Status
  BY Types DEF Transcode
<1>5. \A k \in 1 .. Len(trs) :
        /\ trs'[k].status \in {"playing", "failed"} => k # r /\ trs'[k].status = trs[k].status
        /\ Condemned(trs'[k], k, retiring'.tr) => Condemned(trs[k], k, retiring.tr)
  BY <1>2, <1>3, <1>4, EndedIsOver DEF Condemned, None
<1>6. \A k \in 1 .. Len(trs) : Attached(k)' => Attached(k)
  <2> SUFFICES ASSUME NEW k \in 1 .. Len(trs), Attached(k)' PROVE Attached(k)
    OBVIOUS
  <2>1. TrPointed(k)' /\ k # None
    BY DEF Attached, None
  <2> QED
    BY <1>1, <1>2, <1>5, <2>1 DEF Attached, TrPointed
<1>7. TypeOK'
  <2>1. \A j \in DOMAIN trs' : trs'[j].up \in DOMAIN raws
    BY <1>3, Types
  <2> QED
    BY <1>1, <1>2, <1>3, <2>1 DEF TypeOK, Transcode
<1>8. Holding' /\ Retirement' /\ Newest'
  <2>1. Holding'
    BY <1>1, <1>3 DEF Holding, Nothing
  <2>2. Retirement'
    BY <1>1, <1>2, <1>3, Types DEF Retirement, None
  <2>3. Newest'
    BY <1>1, <1>3 DEF Newest
  <2> QED
    BY <2>1, <2>2, <2>3
<1>9. InTime'
  BY <1>1 DEF InTime, Pending
<1>10. SourcesOutOfReach'
  BY <1>1, <1>2, <1>3, <1>6, SourcesStayOut
<1>11. TranscodesOutOfReach'
  <2>1. \A j \in 1 .. Len(trs)' :
          Condemned(trs'[j], j, retiring'.tr) /\ raws'[trs'[j].up].status = "playing" =>
             j \in 1 .. Len(trs) /\ Condemned(trs[j], j, retiring.tr) /\ RawAlive(trs[j].up)
    BY <1>1, <1>3, <1>5 DEF RawAlive
  <2> QED
    BY <1>1, <2>1, TranscodesStayOut
<1>12. SourcesReplaced'
  BY <1>1, <1>2 DEF SourcesReplaced, RawAlive
<1>13. TranscodesReplaced'
  <2> SUFFICES ASSUME NEW k \in 1 .. Len(trs), TrAlive(k)'
               PROVE  \/ k \in {held.tr, retiring'.tr} \/ k = MaxTr
                      \/ k < Len(trs) /\ trs'[k + 1].rate # trs'[k].rate
    BY <1>1, <1>3 DEF TranscodesReplaced
  <2>1. TrAlive(k) /\ k # retiring.tr
    BY <1>1, <1>3, <1>5 DEF TrAlive, RawAlive
  <2>2. k < Len(trs) => k + 1 \in 1 .. Len(trs)
    BY Types
  <2> QED
    BY <1>3, <2>1, <2>2 DEF TranscodesReplaced
<1> QED
  BY <1>7, <1>8, <1>9, <1>10, <1>11, <1>12, <1>13

LEMMA StopSourceOK ==
  ASSUME IInv, StopSource
  PROVE  IInv'
<1> USE DEF IInv
<1> DEFINE r == retiring.raw
<1>1. /\ sweeper = "stopping" /\ retiring.tr = None /\ raws' = Stopped(raws, r)
      /\ retiring' = Nothing /\ sweeper' = "asleep"
      /\ trs' = trs /\ entry' = entry /\ held' = held /\ pc' = pc
      /\ want' = want /\ got' = got /\ waited' = waited
  BY DEF StopSource
<1>2. /\ r \in 0 .. Len(raws) /\ retiring'.tr = None /\ retiring'.raw = None
      /\ retiring' \in [raw : {None} \cup Raws, tr : {None} \cup Trs]
  BY <1>1 DEF Retirement, Nothing
<1>3. /\ raws' \in Seq(Source) /\ Len(raws') = Len(raws) /\ DOMAIN raws' = DOMAIN raws
      /\ \A k \in 1 .. Len(raws) :
           /\ raws'[k].stream = raws[k].stream
           /\ raws'[k].status = IF k = r THEN Ended(raws[k].status) ELSE raws[k].status
  <2>1. raws \in Seq(Source) /\ Len(raws) \in Nat /\ DOMAIN raws = 1 .. Len(raws)
    BY Types
  <2> QED
    BY <1>1, <1>2, <2>1, StoppedSource
<1>4. \A k \in 1 .. Len(raws) : raws[k].status \in Status
  BY Types DEF Source
<1>5. \A k \in 1 .. Len(raws) :
        /\ raws'[k].status \in {"playing", "failed"} => k # r /\ raws'[k].status = raws[k].status
        /\ Condemned(raws'[k], k, retiring'.raw) => Condemned(raws[k], k, retiring.raw)
  BY <1>2, <1>3, <1>4, EndedIsOver DEF Condemned, None
<1>6. \A k \in 1 .. Len(trs) : Attached(k)' => Attached(k)
  BY <1>1, <1>2 DEF Attached, TrPointed
<1>7. TypeOK'
  <2>1. \A j \in DOMAIN trs : trs[j].up \in DOMAIN raws'
    BY <1>3, Types
  <2> QED
    BY <1>1, <1>2, <1>3, <2>1 DEF TypeOK, Source
<1>8. Holding' /\ Retirement' /\ Newest'
  <2>1. Holding'
    BY <1>1, <1>3 DEF Holding, Nothing
  <2>2. Retirement'
    BY <1>1, <1>2, <1>3, Types DEF Retirement, None
  <2>3. Newest'
    BY <1>1, <1>3 DEF Newest
  <2> QED
    BY <2>1, <2>2, <2>3
<1>9. InTime'
  BY <1>1 DEF InTime, Pending
<1>10. SourcesOutOfReach'
  BY <1>1, <1>3, <1>5, <1>6, SourcesStayOut
<1>11. \A j \in 1 .. Len(trs) : trs[j].up \in 1 .. Len(raws)
  BY Types
<1>12. TranscodesOutOfReach'
  <2>1. \A j \in 1 .. Len(trs)' :
          Condemned(trs'[j], j, retiring'.tr) /\ raws'[trs'[j].up].status = "playing" =>
             j \in 1 .. Len(trs) /\ Condemned(trs[j], j, retiring.tr) /\ RawAlive(trs[j].up)
    BY <1>1, <1>2, <1>5, <1>11 DEF RawAlive, Condemned, None
  <2> QED
    BY <1>1, <2>1, TranscodesStayOut
<1>13. SourcesReplaced'
  <2> SUFFICES ASSUME NEW k \in 1 .. Len(raws), raws'[k].status = "playing"
               PROVE  \/ k \in {entry.raw, retiring'.raw}
                      \/ k < Len(raws) /\ raws'[k + 1].stream # raws'[k].stream
    BY <1>1, <1>3 DEF SourcesReplaced, RawAlive
  <2>1. RawAlive(k) /\ k # retiring.raw
    BY <1>3, <1>5 DEF RawAlive
  <2>2. k < Len(raws) => k + 1 \in 1 .. Len(raws)
    BY Types
  <2> QED
    BY <1>3, <2>1, <2>2 DEF SourcesReplaced
<1>14. TranscodesReplaced'
  <2>1. \A k \in 1 .. Len(trs) : TrAlive(k)' => TrAlive(k)
    BY <1>1, <1>5, <1>11 DEF TrAlive, RawAlive
  <2> QED
    BY <1>1, <1>2, <2>1 DEF TranscodesReplaced
<1> QED
  BY <1>7, <1>8, <1>9, <1>10, <1>12, <1>13, <1>14

LEMMA DestroyOK ==
  ASSUME IInv, Destroy
  PROVE  IInv'
<1> USE DEF IInv
<1>1. /\ sweeper = "asleep" /\ \A c \in Consumers : pc[c] = "idle"
      /\ sweeper' = "done"
      /\ trs' = Stopped(trs, held.tr) /\ raws' = Stopped(raws, entry.raw)
      /\ entry' = [raw |-> None, idle |-> NoIdle] /\ held' = [tr |-> None, idle |-> NoIdle]
      /\ retiring' = retiring /\ pc' = pc /\ want' = want /\ got' = got /\ waited' = waited
  BY DEF Destroy
<1>2. /\ \A c \in Consumers : got[c].raw = None /\ got[c].tr = None
      /\ retiring = Nothing /\ retiring.raw = None /\ retiring.tr = None
      /\ entry'.raw = None /\ entry'.idle = NoIdle /\ held'.tr = None /\ held'.idle = NoIdle
  BY <1>1 DEF Holding, Retirement, Nothing
<1>3. /\ raws' \in Seq(Source) /\ Len(raws') = Len(raws) /\ DOMAIN raws' = DOMAIN raws
      /\ \A k \in 1 .. Len(raws) :
           /\ raws'[k].stream = raws[k].stream
           /\ raws'[k].status = IF k = entry.raw THEN Ended(raws[k].status) ELSE raws[k].status
  <2>1. /\ raws \in Seq(Source) /\ Len(raws) \in Nat /\ DOMAIN raws = 1 .. Len(raws)
        /\ entry.raw \in 0 .. Len(raws)
    BY Types
  <2> QED
    BY <1>1, <2>1, StoppedSource
<1>4. /\ trs' \in Seq(Transcode) /\ Len(trs') = Len(trs) /\ DOMAIN trs' = DOMAIN trs
      /\ \A k \in 1 .. Len(trs) :
           /\ trs'[k].up = trs[k].up /\ trs'[k].rate = trs[k].rate
           /\ trs'[k].status = IF k = held.tr THEN Ended(trs[k].status) ELSE trs[k].status
  <2>1. /\ trs \in Seq(Transcode) /\ Len(trs) \in Nat /\ DOMAIN trs = 1 .. Len(trs)
        /\ held.tr \in 0 .. Len(trs)
    BY Types
  <2> QED
    BY <1>1, <2>1, StoppedTranscode
<1>5. \A k \in 1 .. Len(trs) : ~ Attached(k)'
  <2>1. \A k \in 1 .. Len(trs) : k # None
    BY DEF None
  <2> QED
    BY <1>1, <1>2, <2>1 DEF Attached, TrPointed
<1>6. /\ \A k \in 1 .. Len(raws) : k # None /\ raws[k].status \in Status
      /\ \A k \in 1 .. Len(trs) : k # None /\ trs[k].status \in Status /\ trs[k].up \in 1 .. Len(raws)
  BY Types DEF Source, Transcode, None
<1>7. TypeOK'
  <2>1. \A j \in DOMAIN trs' : trs'[j].up \in DOMAIN raws'
    <3>1. DOMAIN trs = 1 .. Len(trs) /\ DOMAIN raws = 1 .. Len(raws)
      BY Types
    <3> QED
      BY <1>3, <1>4, <1>6, <3>1
  <2>2. NoIdle \in NoIdle .. Linger - 1
    BY RegistryAssumption DEF NoIdle
  <2>3. /\ entry' \in [raw : {None} \cup DOMAIN raws', idle : NoIdle .. Linger - 1]
        /\ held' \in [tr : {None} \cup DOMAIN trs', idle : NoIdle .. Linger - 1]
    BY <1>1, <2>2
  <2> QED
    BY <1>1, <1>3, <1>4, <2>1, <2>3 DEF TypeOK, Source, Transcode
<1>8. Holding' /\ Retirement' /\ Newest'
  BY <1>1, <1>2, <1>3, <1>4 DEF Holding, Retirement, Newest, Nothing
<1>9. InTime'
  BY <1>1 DEF InTime, Pending
<1>10. SourcesOutOfReach'
  BY <1>1, <1>2, <1>3, <1>4, <1>5, <1>6 DEF SourcesOutOfReach
<1>11. TranscodesOutOfReach'
  BY <1>1, <1>2, <1>4, <1>6 DEF TranscodesOutOfReach
<1>12. SourcesReplaced'
  <2> SUFFICES ASSUME NEW k \in 1 .. Len(raws), raws'[k].status = "playing"
               PROVE  k < Len(raws) /\ raws'[k + 1].stream # raws'[k].stream
    BY <1>3 DEF SourcesReplaced, RawAlive
  <2>1. k # entry.raw /\ raws[k].status = "playing"
    BY <1>3, <1>6, EndedIsOver
  <2>2. k < Len(raws) /\ raws[k + 1].stream # raws[k].stream
    BY <1>2, <1>6, <2>1 DEF SourcesReplaced, RawAlive
  <2>3. k + 1 \in 1 .. Len(raws)
    BY <2>2, Types
  <2> QED
    BY <1>3, <2>2, <2>3
<1>13. TranscodesReplaced'
  <2> SUFFICES ASSUME NEW k \in 1 .. Len(trs), TrAlive(k)'
               PROVE  k = MaxTr \/ (k < Len(trs) /\ trs'[k + 1].rate # trs'[k].rate)
    BY <1>4 DEF TranscodesReplaced
  <2>1. k # held.tr /\ TrAlive(k)
    BY <1>3, <1>4, <1>6, EndedIsOver DEF TrAlive, RawAlive
  <2>2. k = MaxTr \/ (k < Len(trs) /\ trs[k + 1].rate # trs[k].rate)
    BY <1>2, <1>6, <2>1 DEF TranscodesReplaced
  <2>3. k < Len(trs) => k + 1 \in 1 .. Len(trs)
    BY Types
  <2> QED
    BY <1>4, <2>2, <2>3
<1> QED
  BY <1>7, <1>8, <1>9, <1>10, <1>11, <1>12, <1>13

-----------------------------------------------------------------------------
LEMMA Inductive == Spec => []IInv
<1>1. IInv /\ [Next]_vars => IInv'
  <2> SUFFICES ASSUME IInv, [Next]_vars PROVE IInv'
    OBVIOUS
  <2>1. CASE Fail
    BY <2>1, FailOK
  <2>2. CASE Sweep
    BY <2>2, SweepTranscodesOK, SweepSourcesOK, StopTranscodeOK, StopSourceOK DEF Sweep
  <2>3. CASE Destroy
    BY <2>3, DestroyOK
  <2>4. ASSUME NEW c \in Consumers,
               \/ Acquire(c) \/ AcquireFails(c) \/ Encode(c)
               \/ EncodeFails(c) \/ Attach(c) \/ LetGo(c)
        PROVE  IInv'
    BY <2>4, AcquireOK, AcquireFailsOK, EncodeOK, EncodeFailsOK, AttachOK, LetGoOK
  <2>5. CASE UNCHANGED vars
    BY <2>5 DEF vars, IInv, TypeOK, Holding, Retirement, Newest, InTime, Pending, Nothing,
       SourcesOutOfReach, TranscodesOutOfReach, SourcesReplaced, TranscodesReplaced,
       Attached, TrPointed, RawAlive, TrAlive
  <2> QED
    BY <2>1, <2>2, <2>3, <2>4, <2>5 DEF Next
<1> QED
  BY <1>1, InitOK, PTL DEF Spec

(* Types, with the bounds on what was built and on the timers.             *)
THEOREM RegistryTypeCorrect == Spec => []TypeOK
<1>1. IInv => TypeOK
  BY DEF IInv
<1> QED
  BY <1>1, Inductive, PTL

(* Nobody who watches is cut off: what the sweeper stops is out of reach   *)
(* from the moment it decides, and whoever is attached can reach what he   *)
(* watches.                                                                *)
THEOREM RegistryWatchedKeepsRunning == Spec => []WatchedKeepsRunning
<1>1. IInv => WatchedKeepsRunning
  <2> SUFFICES ASSUME IInv, NEW c \in Consumers, pc[c] = "watching"
               PROVE  LET i == got[c].raw
                          j == got[c].tr
                      IN  /\ i # None => raws[i].status # "stopped"
                          /\ j # None /\ trs[j].status = "playing" => raws[trs[j].up].status # "stopped"
                          /\ j # None /\ trs[j].status = "stopped" => ~ RawAlive(trs[j].up)
    BY DEF WatchedKeepsRunning
  <2> DEFINE i == got[c].raw
             j == got[c].tr
  <2>1. i \in 0 .. Len(raws) /\ j \in 0 .. Len(trs) /\ Len(raws) \in Nat /\ Len(trs) \in Nat
    BY Types DEF IInv, Holding
  <2>2. i # None => raws[i].status # "stopped"
    BY <2>1 DEF IInv, SourcesOutOfReach, Condemned, None
  <2>3. ASSUME j # None, trs[j].status = "playing" PROVE raws[trs[j].up].status # "stopped"
    <3>1. j \in 1 .. Len(trs) /\ trs[j].up \in 1 .. Len(raws)
      BY <2>1, <2>3, Types DEF IInv, None
    <3>2. Attached(j)
      BY <2>3 DEF Attached, TrPointed
    <3> QED
      BY <3>1, <3>2 DEF IInv, SourcesOutOfReach, Condemned
  <2>4. ASSUME j # None, trs[j].status = "stopped" PROVE ~ RawAlive(trs[j].up)
    <3>1. j \in 1 .. Len(trs)
      BY <2>1, <2>4 DEF None
    <3> QED
      BY <2>4, <3>1 DEF IInv, TranscodesOutOfReach, Condemned
  <2> QED
    BY <2>2, <2>3, <2>4
<1> QED
  BY <1>1, Inductive, PTL

(* A camera that keeps its stream is connected to once.                    *)
THEOREM RegistryOneConnection == Spec => []OneConnection
<1>1. IInv => OneConnection
  <2> SUFFICES ASSUME IInv, NEW i \in DOMAIN raws, NEW k \in DOMAIN raws,
                      i < k, RawAlive(i), i # retiring.raw
               PROVE  \E m \in i .. k : raws[m].stream # raws[i].stream
    BY DEF OneConnection, RawRuns
  <2>1. i \in 1 .. Len(raws) /\ k \in 1 .. Len(raws) /\ Len(raws) \in Nat
    BY Types DEF IInv
  <2>2. i # entry.raw
    BY <2>1 DEF IInv, Newest, None
  <2>3. raws[i + 1].stream # raws[i].stream
    BY <2>1, <2>2 DEF IInv, SourcesReplaced
  <2>4. i + 1 \in i .. k
    BY <2>1
  <2> QED
    BY <2>3, <2>4
<1> QED
  BY <1>1, Inductive, PTL

(* ... and its stream is encoded once for each rate.                       *)
THEOREM RegistryOneTranscode == Spec => []OneTranscode
<1>1. IInv => OneTranscode
  <2> SUFFICES ASSUME IInv, NEW j \in DOMAIN trs, NEW k \in DOMAIN trs,
                      j < k, TrAlive(j), j # retiring.tr
               PROVE  \E m \in j .. k : trs[m].rate # trs[j].rate
    BY DEF OneTranscode, TrRuns
  <2>1. j \in 1 .. Len(trs) /\ k \in 1 .. Len(trs) /\ Len(trs) \in 0 .. MaxTr /\ MaxTr \in Nat
    BY Types, RegistryAssumption DEF IInv
  <2>2. j # held.tr /\ j # MaxTr
    BY <2>1 DEF IInv, Newest, None
  <2>3. trs[j + 1].rate # trs[j].rate
    BY <2>1, <2>2 DEF IInv, TranscodesReplaced
  <2>4. j + 1 \in j .. k
    BY <2>1
  <2> QED
    BY <2>3, <2>4
<1> QED
  BY <1>1, Inductive, PTL

-----------------------------------------------------------------------------
(***************************************************************************)
(* The AI runtime.  First the jobs and their workers, whoever changes      *)
(* them: what a thread has taken out of the table it alone shuts down, and *)
(* what it builds it alone puts in.  While one thread is about a job the   *)
(* job is not in the table, from the moment the thread took it out to the  *)
(* moment it puts the new worker in.                                       *)
(***************************************************************************)
Own == {"take", "retire", "build", "tap", "launch", "insert"}  \* about one job
Shutting == {"shut", "join"}

CallerRec ==
  [at : {"idle", "look", "motion", "stopTap"} \cup Own \cup Shutting,
   op : {"none", "apply", "remove", "camera", "all"}, job : Jobs \cup {"none"},
   worker : Workers \cup {0}, tap : Taps \cup {0}, live : BOOLEAN,
   todo : SUBSET Jobs, orphans : SUBSET Workers]

WorkerRec ==
  [job : Jobs \cup {"none"}, tap : Taps \cup {0}, attached : BOOLEAN,
   loop : {"none", "waiting", "analysing"}, run : BOOLEAN, pending : BOOLEAN]

(* What a thread does, by where it is.                                     *)
Flows(r) ==
  /\ r.at = "idle" => r.op = "none"
  /\ r.at \in {"look", "motion"} => r.op = "camera"
  /\ r.at = "stopTap" => r.op = "all"
  /\ r.at \in Own => r.op \in {"apply", "remove", "camera"} /\ r.job \in Jobs
  /\ r.at \in Shutting => r.op = "all" \/ (r.op \in {"apply", "remove", "camera"} /\ r.job \in Jobs)
  /\ r.at \notin Shutting => r.orphans = {}
  /\ r.at \in {"tap", "launch", "insert"} => r.worker # 0

Busy(r) == r.at \notin {"idle", "look", "motion"}

JobTypes ==
  /\ caller \in [Callers -> CallerRec] /\ jobs \in [Jobs -> Workers \cup {0}]
  /\ worker \in [Workers -> WorkerRec] /\ contested \subseteq Jobs

(* A worker in the table, built or taken out belongs to its job, or is     *)
(* cleared already.                                                        *)
WorkerOf(w, j) == worker[w].job \in {j, "none"}

InPlace ==
  /\ \A c \in Callers : Flows(caller[c])
  /\ \A j \in Jobs : jobs[j] # 0 => WorkerOf(jobs[j], j)
  /\ \A c \in Callers :
       /\ caller[c].at \in {"tap", "launch", "insert"} => WorkerOf(caller[c].worker, caller[c].job)
       /\ \A v, w \in caller[c].orphans : worker[v].job = worker[w].job /\ worker[v].job \in Jobs => v = w

(* Of a job that is not contested.                                         *)
ByOne(j) == \A c, d \in About(j) : c = d
OutOfTable(j) == \A c \in About(j) : caller[c].at # "take" => jobs[j] = 0
Accounted(j) ==
  \A w \in Workers : worker[w].job = j /\ Live(w) =>
    \/ jobs[j] = w
    \/ \E c \in Callers : w \in caller[c].orphans \/ (caller[c].at = "insert" /\ caller[c].worker = w)

Uncontested == \A j \in Jobs \ contested : ByOne(j) /\ OutOfTable(j) /\ Accounted(j)

JobsInv == JobTypes /\ InPlace /\ Uncontested

LEMMA AiInitJobs == AiInit => JobsInv
<1> SUFFICES ASSUME AiInit PROVE JobsInv
  OBVIOUS
<1>1. Idle \in CallerRec /\ Flows(Idle) /\ Idle.at = "idle" /\ Idle.orphans = {}
  BY DEF Idle, CallerRec, Flows, Own, Shutting
<1>2. NoWorker \in WorkerRec /\ NoWorker.loop = "none"
  BY DEF NoWorker, WorkerRec
<1>3. JobTypes
  BY <1>1, <1>2 DEF AiInit, JobTypes
<1>4. InPlace
  BY <1>1 DEF AiInit, InPlace
<1>5. Uncontested
  BY <1>1, <1>2 DEF AiInit, Uncontested, ByOne, OutOfTable, Accounted, About, Live
<1> QED BY <1>3, <1>4, <1>5 DEF JobsInv

(* A step that takes nobody on: threads and workers only let go.           *)
LetsGo(r, s) ==
  /\ s \in CallerRec /\ Flows(s) /\ s.orphans \subseteq r.orphans /\ s.at # "take"
  /\ Busy(s) => Busy(r) /\ s.job = r.job /\ r.at # "take"
  /\ r.at # "insert"
  /\ s.at \in {"tap", "launch", "insert"} => r.at \in {"tap", "launch"} /\ s.worker = r.worker

LEMMA LettingGo ==
  ASSUME JobsInv, UNCHANGED <<jobs, contested>>, caller' \in [Callers -> CallerRec],
         worker' \in [Workers -> WorkerRec],
         \A c \in Callers : caller'[c] = caller[c] \/ LetsGo(caller[c], caller'[c]),
         \A c \in Callers : \A w \in caller[c].orphans \ caller'[c].orphans : ~ Live(w),
         \A w \in Workers : worker'[w].job \in {worker[w].job, "none"},
         \A w \in Workers : Live(w)' => Live(w)
  PROVE  JobsInv'
<1>1. "none" \notin Jobs
  BY AiAssumption
<1>2. JobTypes'
  BY DEF JobsInv, JobTypes
<1>3. \A c \in Callers : caller'[c].orphans \subseteq caller[c].orphans /\ caller[c].orphans \subseteq Workers
  BY DEF LetsGo, JobsInv, JobTypes, CallerRec
<1>4. InPlace'
  <2>1. \A c \in Callers : Flows(caller'[c])
    BY DEF LetsGo, JobsInv, InPlace
  <2>2. \A w \in Workers, j \in Jobs : WorkerOf(w, j) => WorkerOf(w, j)'
    BY DEF WorkerOf
  <2>3. \A j \in Jobs : jobs'[j] # 0 => WorkerOf(jobs[j], j)'
    BY <2>2 DEF JobsInv, JobTypes, InPlace
  <2>4. ASSUME NEW c \in Callers, caller'[c].at \in {"tap", "launch", "insert"}
        PROVE  WorkerOf(caller[c].worker, caller[c].job)'
    <3>1. /\ caller[c].at \in {"tap", "launch", "insert"} /\ caller'[c].worker = caller[c].worker
          /\ caller'[c].job = caller[c].job
      BY <2>4 DEF LetsGo, Busy
    <3>2. caller[c].worker \in Workers /\ caller[c].job \in Jobs
      BY <3>1 DEF JobsInv, JobTypes, InPlace, Flows, CallerRec, Own
    <3> QED BY <2>2, <3>1, <3>2 DEF JobsInv, InPlace
  <2>5. ASSUME NEW c \in Callers, NEW v \in caller'[c].orphans, NEW w \in caller'[c].orphans,
               worker'[v].job = worker'[w].job, worker'[v].job \in Jobs
        PROVE  v = w
    <3>1. v \in Workers /\ w \in Workers /\ v \in caller[c].orphans /\ w \in caller[c].orphans
      BY <1>3
    <3>2. worker'[v].job = worker[v].job /\ worker'[w].job = worker[w].job
      BY <1>1, <2>5, <3>1
    <3> QED BY <2>5, <3>1, <3>2 DEF JobsInv, InPlace
  <2> QED BY <2>1, <2>3, <2>4, <2>5 DEF InPlace
<1>5. ASSUME NEW j \in Jobs, NEW c \in About(j)'
      PROVE  c \in About(j) /\ (caller'[c].at # "take" => caller[c].at # "take")
  <2>1. c \in Callers
    BY <1>5 DEF About
  <2>2. ASSUME Busy(caller'[c]), caller'[c].job = j
        PROVE  Busy(caller[c]) /\ caller[c].job = j /\ (caller'[c].at # "take" => caller[c].at # "take")
    BY <2>1, <2>2 DEF LetsGo
  <2>3. ASSUME NEW w \in caller'[c].orphans, worker'[w].job = j
        PROVE  w \in caller[c].orphans /\ worker[w].job = j /\ caller[c].at # "take"
    <3>1. w \in caller[c].orphans /\ w \in Workers
      BY <1>3, <2>1
    <3>2. caller[c].at # "take"
      BY <2>1, <3>1 DEF JobsInv, InPlace, Flows, Shutting
    <3> QED BY <1>1, <2>3, <3>1, <3>2
  <2> QED BY <1>5, <2>1, <2>2, <2>3 DEF About, Busy
<1>6. ASSUME NEW j \in Jobs, Accounted(j) PROVE Accounted(j)'
  <2> SUFFICES ASSUME NEW w \in Workers, worker'[w].job = j, Live(w)'
               PROVE  \/ jobs'[j] = w
                      \/ \E c \in Callers : \/ w \in caller'[c].orphans
                                            \/ caller'[c].at = "insert" /\ caller'[c].worker = w
    BY DEF Accounted
  <2>1. worker[w].job = j /\ Live(w)
    BY <1>1
  <2>2. CASE jobs[j] = w
    BY <2>2
  <2>3. ASSUME NEW c \in Callers, w \in caller[c].orphans PROVE w \in caller'[c].orphans
    BY <2>1, <2>3
  <2>4. ASSUME NEW c \in Callers, caller[c].at = "insert" PROVE caller'[c] = caller[c]
    BY <2>4 DEF LetsGo
  <2> QED BY <1>6, <2>1, <2>2, <2>3, <2>4 DEF Accounted
<1>7. Uncontested'
  BY <1>5, <1>6 DEF JobsInv, Uncontested, ByOne, OutOfTable
<1> QED BY <1>2, <1>4, <1>7 DEF JobsInv

(* A thread takes on a job: from here on two of them may be about it.      *)
LEMMA TakingOn ==
  ASSUME JobsInv, NEW c \in Callers, NEW j \in Jobs, NEW s \in CallerRec, Flows(s), s.at = "take",
         s.job = j, ~ Busy(caller[c]), caller' = [caller EXCEPT ![c] = s], Contest(c, {j}),
         UNCHANGED <<jobs, worker>>
  PROVE  JobsInv'
<1>1. /\ caller \in [Callers -> CallerRec] /\ caller'[c] = s /\ s.orphans = {}
      /\ \A d \in Callers : d # c => caller'[d] = caller[d]
      /\ caller[c].orphans = {} /\ caller[c].at \notin {"insert", "tap", "launch"}
  BY DEF JobsInv, JobTypes, InPlace, Flows, Shutting, Busy
<1>2. JobTypes'
  BY <1>1 DEF JobsInv, JobTypes, Contest
<1>3. InPlace'
  BY <1>1 DEF JobsInv, InPlace, WorkerOf
<1>4. /\ \A k \in Jobs \ {j} : About(k)' \subseteq About(k) \ {c}
      /\ About(j)' \subseteq About(j) \cup {c}
  BY <1>1 DEF About
<1>5. ASSUME NEW k \in Jobs \ contested' PROVE ByOne(k)' /\ OutOfTable(k)' /\ Accounted(k)'
  <2>1. k \notin contested /\ (k = j => About(j) \subseteq {c})
    BY <1>5 DEF Contest
  <2>2. ByOne(k) /\ OutOfTable(k) /\ Accounted(k)
    BY <2>1 DEF JobsInv, Uncontested
  <2>3. ByOne(k)'
    BY <1>4, <2>1, <2>2 DEF ByOne
  <2>4. OutOfTable(k)'
    <3>1. CASE k = j
      BY <1>1, <1>4, <2>1, <3>1 DEF OutOfTable
    <3>2. CASE k # j
      <4>1. \A d \in About(k)' : d \in About(k) /\ d # c /\ d \in Callers
        BY <1>4, <3>2 DEF About
      <4> QED BY <1>1, <2>2, <4>1 DEF OutOfTable
    <3> QED BY <3>1, <3>2
  <2>5. Accounted(k)'
    BY <1>1, <2>2 DEF Accounted, Live
  <2> QED BY <2>3, <2>4, <2>5
<1> QED BY <1>2, <1>3, <1>5 DEF JobsInv, Uncontested

LEMMA AfterIsFree ==
  ASSUME JobTypes, NEW c \in Callers, caller[c].op # "all"
  PROVE  /\ After(c) \in CallerRec /\ Flows(After(c)) /\ ~ Busy(After(c)) /\ After(c).orphans = {}
         /\ After(c).at \in {"idle", "look", "motion"} /\ After(c).tap = 0 /\ After(c).op \in {"none", "camera"}
         /\ caller[c].op = "camera" => After(c).op = "camera" /\ After(c).live = caller[c].live
<1>1. Idle \in CallerRec /\ Flows(Idle) /\ Idle.at = "idle" /\ Idle.orphans = {} /\ Idle.tap = 0 /\ Idle.op = "none"
  BY DEF Idle, CallerRec, Flows, Own, Shutting
<1>2. CASE caller[c].op # "camera"
  <2>1. After(c) = Idle
    BY <1>2 DEF After
  <2> QED BY <1>1, <1>2, <2>1 DEF Busy
<1>3. CASE caller[c].op = "camera"
  <2> DEFINE place == IF caller[c].todo = {} THEN "motion" ELSE "look"
             s == [at |-> place, op |-> "camera", job |-> "none", worker |-> 0, tap |-> 0,
                   live |-> caller[c].live, todo |-> caller[c].todo, orphans |-> {}]
  <2>1. After(c) = s
    BY <1>3 DEF After, Idle
  <2>2. caller[c] \in CallerRec
    BY DEF JobTypes
  <2>3. s \in CallerRec /\ Flows(s) /\ ~ Busy(s)
    BY <2>2 DEF CallerRec, Flows, Own, Shutting, Busy
  <2>4. /\ s.orphans = {} /\ s.at \in {"idle", "look", "motion"} /\ s.tap = 0 /\ s.op = "camera"
        /\ s.live = caller[c].live
    OBVIOUS
  <2> HIDE DEF s
  <2> QED BY <2>1, <2>3, <2>4
<1> QED BY <1>2, <1>3

LEMMA TakeKeepsJobs == ASSUME JobsInv, NEW c \in Callers, Take(c) PROVE JobsInv'
<1> DEFINE r == caller[c]
           j == r.job
           s == caller'[c]
<1>1. /\ r \in CallerRec /\ r.at = "take" /\ r.op \in {"apply", "remove", "camera"} /\ j \in Jobs
      /\ r.orphans = {} /\ jobs \in [Jobs -> Workers \cup {0}] /\ "none" \notin Jobs
      /\ caller \in [Callers -> CallerRec]
  BY AiAssumption DEF Take, JobsInv, JobTypes, InPlace, Flows, Own, Shutting
<1>2. /\ jobs' = [jobs EXCEPT ![j] = 0] /\ UNCHANGED <<worker, contested>>
      /\ \A d \in Callers : d # c => caller'[d] = caller[d]
  BY <1>1 DEF Take, Become, Go
<1>3. /\ s \in CallerRec /\ Flows(s) /\ caller' \in [Callers -> CallerRec]
      /\ s.at \notin {"take", "tap", "launch", "insert"}
      /\ (Busy(s) => s.job = j)
      /\ s.orphans = IF jobs[j] # 0 THEN {jobs[j]} ELSE {}
  <2>1. CASE jobs[j] # 0
    <3> DEFINE t == [r EXCEPT !.at = "shut", !.orphans = {jobs[j]}]
    <3>1. caller' = [caller EXCEPT ![c] = t]
      BY <2>1 DEF Take, Become
    <3>2. /\ t \in CallerRec /\ t.at = "shut" /\ t.job = j /\ t.op = r.op /\ t.orphans = {jobs[j]}
          /\ Flows(t)
      BY <1>1, <2>1 DEF CallerRec, Flows, Own, Shutting
    <3> HIDE DEF t
    <3> QED BY <1>1, <2>1, <3>1, <3>2
  <2>2. CASE jobs[j] = 0 /\ r.op = "remove"
    <3>1. caller' = [caller EXCEPT ![c] = After(c)]
      BY <2>2 DEF Take, Become
    <3> QED BY <1>1, <2>2, <3>1, AfterIsFree DEF JobsInv
  <2>3. CASE jobs[j] = 0 /\ r.op # "remove"
    <3> DEFINE t == [r EXCEPT !.at = "build"]
    <3>1. caller' = [caller EXCEPT ![c] = t]
      BY <2>3 DEF Take, Become, Go
    <3>2. /\ t \in CallerRec /\ t.at = "build" /\ t.job = j /\ t.op = r.op /\ t.orphans = {}
          /\ Flows(t)
      BY <1>1 DEF CallerRec, Flows, Own, Shutting
    <3> HIDE DEF t
    <3> QED BY <1>1, <2>3, <3>1, <3>2
  <2> QED BY <2>1, <2>2, <2>3
<1> HIDE DEF s
<1>4. JobTypes'
  BY <1>1, <1>2, <1>3 DEF JobsInv, JobTypes
<1>5. InPlace'
  <2>1. \A d \in Callers : Flows(caller[d])'
    BY <1>2, <1>3 DEF JobsInv, InPlace, s
  <2>2. \A k \in Jobs : jobs'[k] # 0 => WorkerOf(jobs[k], k)'
    BY <1>1, <1>2 DEF JobsInv, InPlace, WorkerOf
  <2>3. \A d \in Callers : caller'[d].at \in {"tap", "launch", "insert"} => WorkerOf(caller[d].worker, caller[d].job)'
    BY <1>2, <1>3 DEF JobsInv, InPlace, WorkerOf, s
  <2>4. \A d \in Callers : \A v, w \in caller'[d].orphans :
          worker'[v].job = worker'[w].job /\ worker'[v].job \in Jobs => v = w
    BY <1>2, <1>3 DEF JobsInv, InPlace, s
  <2> QED BY <2>1, <2>2, <2>3, <2>4 DEF InPlace
<1>6. ASSUME NEW k \in Jobs, NEW d \in About(k)' PROVE d \in About(k) /\ d \in Callers /\ (k # j => d # c)
  <2>1. d \in Callers
    BY <1>6 DEF About
  <2>2. CASE d # c
    BY <1>2, <1>6, <2>1, <2>2 DEF About
  <2>3. CASE d = c
    <3>1. jobs[j] # 0 => worker[jobs[j]].job \in {j, "none"}
      BY <1>1 DEF JobsInv, InPlace, WorkerOf
    <3>2. k = j
      <4>1. CASE Busy(s) /\ s.job = k
        BY <1>3, <4>1
      <4>2. CASE \E w \in s.orphans : worker[w].job = k
        BY <1>1, <1>3, <3>1, <4>2
      <4> QED BY <1>2, <1>6, <2>3, <4>1, <4>2 DEF About, Busy, s
    <3> QED BY <1>1, <2>3, <3>2 DEF About
  <2> QED BY <2>2, <2>3
<1>7. ASSUME NEW k \in Jobs \ contested' PROVE ByOne(k)' /\ OutOfTable(k)' /\ Accounted(k)'
  <2>1. ByOne(k) /\ OutOfTable(k) /\ Accounted(k)
    BY <1>2, <1>7 DEF JobsInv, Uncontested
  <2>2. ByOne(k)'
    BY <1>6, <2>1 DEF ByOne
  <2>3. OutOfTable(k)'
    <3>1. CASE k = j
      BY <1>1, <1>2, <3>1 DEF OutOfTable
    <3>2. CASE k # j
      <4>1. jobs'[k] = jobs[k]
        BY <1>1, <1>2, <3>2
      <4>2. \A d \in About(k)' : d \in About(k) /\ caller'[d] = caller[d]
        BY <1>2, <1>6, <3>2
      <4> QED BY <2>1, <4>1, <4>2 DEF OutOfTable
    <3> QED BY <3>1, <3>2
  <2>4. Accounted(k)'
    <3> SUFFICES ASSUME NEW w \in Workers, worker[w].job = k, Live(w)
                 PROVE  \/ jobs'[k] = w
                        \/ \E d \in Callers : \/ w \in caller'[d].orphans
                                              \/ caller'[d].at = "insert" /\ caller'[d].worker = w
      BY <1>2 DEF Accounted, Live
    <3>1. CASE jobs[k] = w /\ k # j
      BY <1>1, <1>2, <3>1
    <3>2. CASE jobs[k] = w /\ k = j
      <4>1. w \in s.orphans
        BY <1>3, <3>2 DEF Workers
      <4> QED BY <4>1 DEF s
    <3>3. ASSUME NEW d \in Callers, w \in caller[d].orphans \/ (caller[d].at = "insert" /\ caller[d].worker = w)
          PROVE  \E e \in Callers : \/ w \in caller'[e].orphans
                                    \/ caller'[e].at = "insert" /\ caller'[e].worker = w
      BY <1>1, <1>2, <3>3
    <3> QED BY <2>1, <3>1, <3>2, <3>3 DEF Accounted
  <2> QED BY <2>2, <2>3, <2>4
<1> QED BY <1>4, <1>5, <1>7 DEF JobsInv, Uncontested

(* A worker is built in a slot that is nobody's.                           *)
LEMMA BuildKeepsJobs == ASSUME JobsInv, NEW c \in Callers, Build(c), running PROVE JobsInv'
<1> DEFINE r == caller[c]
           s == caller'[c]
<1>1. /\ r \in CallerRec /\ r.at = "build" /\ r.op \in {"apply", "remove", "camera"} /\ r.job \in Jobs
      /\ r.orphans = {} /\ "none" \notin Jobs /\ caller \in [Callers -> CallerRec]
      /\ worker \in [Workers -> WorkerRec]
  BY AiAssumption DEF Build, JobsInv, JobTypes, InPlace, Flows, Own, Shutting
<1>2. PICK w \in First(Workers \ UsedWorkers), loads \in Outcomes :
        /\ worker' = [worker EXCEPT ![w] = [NoWorker EXCEPT !.job = caller[c].job]]
        /\ Become(c, [caller[c] EXCEPT !.worker = w, !.at = IF loads THEN "tap" ELSE "insert"])
  BY DEF Build
<1>3. /\ w \in Workers /\ w # 0 /\ w \notin Held /\ ~ Live(w)
      /\ \A d \in Callers : w \notin caller[d].orphans /\ w # caller[d].worker
  BY <1>2 DEF First, UsedWorkers, Workers
<1> DEFINE b == [NoWorker EXCEPT !.job = r.job]
           place == IF loads THEN "tap" ELSE "insert"
           t == [r EXCEPT !.worker = w, !.at = place]
<1>4. b \in WorkerRec /\ b.job = r.job /\ b.loop = "none"
  BY <1>1 DEF NoWorker, WorkerRec
<1>5. t \in CallerRec /\ t.at \in {"tap", "insert"} /\ t.job = r.job /\ t.worker = w /\ t.orphans = {} /\ Flows(t)
  BY <1>1, <1>3 DEF CallerRec, Flows, Own, Shutting
<1>6. /\ worker' = [worker EXCEPT ![w] = b] /\ caller' = [caller EXCEPT ![c] = t]
      /\ UNCHANGED <<jobs, contested>>
  BY <1>2 DEF Build, Become
<1> HIDE DEF b, t, s
<1>7. /\ s = t /\ caller' \in [Callers -> CallerRec] /\ worker' \in [Workers -> WorkerRec] /\ worker'[w] = b
      /\ \A d \in Callers : d # c => caller'[d] = caller[d]
      /\ \A v \in Workers : v # w => worker'[v] = worker[v]
  BY <1>1, <1>3, <1>4, <1>5, <1>6 DEF s
<1>8. JobTypes'
  BY <1>6, <1>7 DEF JobsInv, JobTypes
<1>9. \A d \in Callers : caller[d].orphans \subseteq Workers /\ caller[d].worker \in Workers \cup {0}
  BY <1>1 DEF CallerRec
<1>10. InPlace'
  <2>1. \A d \in Callers : Flows(caller[d])'
    BY <1>5, <1>7 DEF JobsInv, InPlace, s
  <2>2. ASSUME NEW k \in Jobs, jobs[k] # 0 PROVE WorkerOf(jobs[k], k)'
    <3>1. jobs[k] \in Workers /\ jobs[k] # w
      BY <1>3, <2>2 DEF JobsInv, JobTypes, Held
    <3> QED BY <1>6, <1>7, <2>2, <3>1 DEF JobsInv, InPlace, WorkerOf
  <2>3. ASSUME NEW d \in Callers, caller'[d].at \in {"tap", "launch", "insert"}
        PROVE  WorkerOf(caller[d].worker, caller[d].job)'
    <3>1. CASE d = c
      BY <1>4, <1>5, <1>7, <3>1 DEF WorkerOf, s
    <3>2. CASE d # c
      <4>1. caller[d].worker \in Workers /\ caller[d].worker # w
        BY <1>3, <1>7, <1>9, <2>3, <3>2 DEF JobsInv, InPlace, Flows
      <4> QED BY <1>7, <2>3, <3>2, <4>1 DEF JobsInv, InPlace, WorkerOf
    <3> QED BY <3>1, <3>2
  <2>4. ASSUME NEW d \in Callers, NEW v \in caller'[d].orphans, NEW u \in caller'[d].orphans,
               worker'[v].job = worker'[u].job, worker'[v].job \in Jobs
        PROVE  v = u
    <3>1. d # c /\ caller'[d] = caller[d]
      BY <1>5, <1>7 DEF s
    <3>2. v \in Workers /\ v # w /\ u \in Workers /\ u # w
      BY <1>3, <1>9, <3>1
    <3> QED BY <1>7, <2>4, <3>1, <3>2 DEF JobsInv, InPlace
  <2> QED BY <1>6, <2>1, <2>2, <2>3, <2>4 DEF InPlace
<1>11. ASSUME NEW k \in Jobs, NEW d \in About(k)'
       PROVE  d \in About(k) /\ d \in Callers /\ (caller'[d].at # "take" => caller[d].at # "take")
  <2>1. d \in Callers
    BY <1>11 DEF About
  <2>2. CASE d = c
    BY <1>1, <1>5, <1>7, <1>11, <2>2 DEF About, s
  <2>3. CASE d # c
    <3>1. \A v \in caller[d].orphans : worker'[v] = worker[v]
      BY <1>3, <1>7, <1>9, <2>1
    <3> QED BY <1>7, <1>11, <2>1, <2>3, <3>1 DEF About
  <2> QED BY <2>2, <2>3
<1>12. ASSUME NEW k \in Jobs \ contested' PROVE ByOne(k)' /\ OutOfTable(k)' /\ Accounted(k)'
  <2>1. ByOne(k) /\ OutOfTable(k) /\ Accounted(k)
    BY <1>6, <1>12 DEF JobsInv, Uncontested
  <2>2. ByOne(k)' /\ OutOfTable(k)'
    BY <1>6, <1>11, <2>1 DEF ByOne, OutOfTable
  <2>3. Accounted(k)'
    <3> SUFFICES ASSUME NEW v \in Workers, worker'[v].job = k, Live(v)'
                 PROVE  \/ jobs[k] = v
                        \/ \E d \in Callers : \/ v \in caller'[d].orphans
                                              \/ caller'[d].at = "insert" /\ caller'[d].worker = v
      BY <1>6 DEF Accounted
    <3>1. v # w /\ worker[v].job = k /\ Live(v)
      BY <1>4, <1>7 DEF Live
    <3>2. \A d \in Callers : v \in caller[d].orphans \/ (caller[d].at = "insert" /\ caller[d].worker = v) => d # c
      BY <1>1
    <3> QED BY <1>7, <2>1, <3>1, <3>2 DEF Accounted
  <2> QED BY <2>2, <2>3
<1> QED BY <1>8, <1>10, <1>12 DEF JobsInv, Uncontested

LEMMA LaunchKeepsJobs == ASSUME JobsInv, NEW c \in Callers, Launch(c) PROVE JobsInv'
<1> DEFINE r == caller[c]
           w == r.worker
           b == [worker[w] EXCEPT !.tap = r.tap, !.run = TRUE, !.loop = "waiting", !.attached = TRUE]
           t == [r EXCEPT !.tap = 0, !.at = "insert"]
<1>1. /\ r \in CallerRec /\ r.at = "launch" /\ r.op \in {"apply", "remove", "camera"} /\ r.job \in Jobs
      /\ r.orphans = {} /\ "none" \notin Jobs /\ caller \in [Callers -> CallerRec]
      /\ worker \in [Workers -> WorkerRec] /\ r.worker # 0
  BY AiAssumption DEF Launch, JobsInv, JobTypes, InPlace, Flows, Own, Shutting
<1>2. w \in Workers /\ worker[w] \in WorkerRec /\ r.tap \in Taps \cup {0} /\ w = caller[c].worker
  BY <1>1 DEF CallerRec
<1>3. /\ worker' = [worker EXCEPT ![w] = b] /\ caller' = [caller EXCEPT ![c] = t]
      /\ UNCHANGED <<jobs, contested>>
  BY DEF Launch, Become
<1> HIDE DEF w
<1>4. b \in WorkerRec /\ b.job = worker[w].job
  BY <1>2 DEF WorkerRec
<1>5. t \in CallerRec /\ t.at = "insert" /\ t.job = r.job /\ t.worker = w /\ t.orphans = {} /\ Flows(t)
  BY <1>1, <1>2 DEF CallerRec, Flows, Own, Shutting
<1> HIDE DEF b, t
<1>6. /\ caller'[c] = t /\ caller' \in [Callers -> CallerRec] /\ worker' \in [Workers -> WorkerRec]
      /\ \A d \in Callers : d # c => caller'[d] = caller[d]
      /\ \A v \in Workers : v # w => worker'[v] = worker[v]
      /\ \A v \in Workers : worker'[v].job = worker[v].job
  BY <1>1, <1>2, <1>3, <1>4, <1>5
<1>7. JobTypes'
  BY <1>3, <1>6 DEF JobsInv, JobTypes
<1>8. \A d \in Callers : caller[d].orphans \subseteq Workers /\ caller[d].worker \in Workers \cup {0}
  BY <1>1 DEF CallerRec
<1>9. InPlace'
  <2>1. \A d \in Callers : Flows(caller[d])'
    BY <1>5, <1>6 DEF JobsInv, InPlace
  <2>2. ASSUME NEW k \in Jobs, jobs[k] # 0 PROVE WorkerOf(jobs[k], k)'
    <3>1. jobs[k] \in Workers
      BY <2>2 DEF JobsInv, JobTypes
    <3> QED BY <1>3, <1>6, <2>2, <3>1 DEF JobsInv, InPlace, WorkerOf
  <2>3. ASSUME NEW d \in Callers, caller'[d].at \in {"tap", "launch", "insert"}
        PROVE  WorkerOf(caller[d].worker, caller[d].job)'
    <3>1. /\ caller[d].at \in {"tap", "launch", "insert"} /\ caller'[d].worker = caller[d].worker
          /\ caller'[d].job = caller[d].job
      BY <1>1, <1>2, <1>5, <1>6, <2>3
    <3>2. caller[d].worker \in Workers
      BY <1>8, <3>1 DEF JobsInv, InPlace, Flows
    <3> QED BY <1>6, <3>1, <3>2 DEF JobsInv, InPlace, WorkerOf
  <2>4. ASSUME NEW d \in Callers, NEW v \in caller'[d].orphans, NEW u \in caller'[d].orphans,
               worker'[v].job = worker'[u].job, worker'[v].job \in Jobs
        PROVE  v = u
    <3>1. d # c /\ caller'[d] = caller[d]
      BY <1>5, <1>6
    <3>2. v \in Workers /\ u \in Workers
      BY <1>8, <3>1
    <3> QED BY <1>6, <2>4, <3>1, <3>2 DEF JobsInv, InPlace
  <2> QED BY <1>3, <2>1, <2>2, <2>3, <2>4 DEF InPlace
<1>10. ASSUME NEW k \in Jobs, NEW d \in About(k)'
       PROVE  d \in About(k) /\ d \in Callers /\ (caller'[d].at # "take" => caller[d].at # "take")
  <2>1. d \in Callers
    BY <1>10 DEF About
  <2>2. CASE d = c
    BY <1>1, <1>5, <1>6, <1>10, <2>2 DEF About
  <2>3. CASE d # c
    BY <1>6, <1>8, <1>10, <2>1, <2>3 DEF About
  <2> QED BY <2>2, <2>3
<1>11. ASSUME NEW k \in Jobs \ contested' PROVE ByOne(k)' /\ OutOfTable(k)' /\ Accounted(k)'
  <2>1. ByOne(k) /\ OutOfTable(k) /\ Accounted(k)
    BY <1>3, <1>11 DEF JobsInv, Uncontested
  <2>2. ByOne(k)' /\ OutOfTable(k)'
    BY <1>3, <1>10, <2>1 DEF ByOne, OutOfTable
  <2>3. Accounted(k)'
    <3> SUFFICES ASSUME NEW v \in Workers, worker'[v].job = k, Live(v)'
                 PROVE  \/ jobs[k] = v
                        \/ \E d \in Callers : \/ v \in caller'[d].orphans
                                              \/ caller'[d].at = "insert" /\ caller'[d].worker = v
      BY <1>3 DEF Accounted
    <3>1. CASE v = w
      BY <1>5, <1>6, <3>1
    <3>2. CASE v # w
      <4>1. worker[v].job = k /\ Live(v)
        BY <1>6, <3>2 DEF Live
      <4>2. \A d \in Callers : v \in caller[d].orphans \/ (caller[d].at = "insert" /\ caller[d].worker = v) => d # c
        BY <1>1
      <4> QED BY <1>6, <2>1, <4>1, <4>2 DEF Accounted
    <3> QED BY <3>1, <3>2
  <2> QED BY <2>2, <2>3
<1> QED BY <1>7, <1>9, <1>11 DEF JobsInv, Uncontested

LEMMA InsertKeepsJobs == ASSUME JobsInv, NEW c \in Callers, Insert(c) PROVE JobsInv'
<1> DEFINE r == caller[c]
           j == r.job
           s == After(c)
<1>1. /\ r \in CallerRec /\ r.at = "insert" /\ r.op \in {"apply", "remove", "camera"} /\ j \in Jobs
      /\ r.orphans = {} /\ "none" \notin Jobs /\ caller \in [Callers -> CallerRec]
      /\ jobs \in [Jobs -> Workers \cup {0}] /\ r.worker # 0 /\ WorkerOf(r.worker, j)
  BY AiAssumption DEF Insert, JobsInv, JobTypes, InPlace, Flows, Own, Shutting
<1>2. r.worker \in Workers
  BY <1>1 DEF CallerRec
<1>3. /\ jobs' = [jobs EXCEPT ![j] = r.worker] /\ caller' = [caller EXCEPT ![c] = s]
      /\ UNCHANGED <<worker, contested>>
  BY DEF Insert, Become
<1>4. s \in CallerRec /\ Flows(s) /\ ~ Busy(s) /\ s.orphans = {} /\ s.at \in {"idle", "look", "motion"}
  BY <1>1, AfterIsFree DEF JobsInv
<1> HIDE DEF s
<1>5. /\ caller'[c] = s /\ caller' \in [Callers -> CallerRec] /\ jobs' \in [Jobs -> Workers \cup {0}]
      /\ \A d \in Callers : d # c => caller'[d] = caller[d]
      /\ jobs'[j] = r.worker /\ \A k \in Jobs : k # j => jobs'[k] = jobs[k]
  BY <1>1, <1>2, <1>3, <1>4
<1>6. JobTypes'
  BY <1>3, <1>5 DEF JobsInv, JobTypes
<1>7. InPlace'
  <2>1. \A d \in Callers : Flows(caller[d])'
    BY <1>4, <1>5 DEF JobsInv, InPlace
  <2>2. \A k \in Jobs : jobs'[k] # 0 => WorkerOf(jobs[k], k)'
    BY <1>1, <1>3, <1>5 DEF JobsInv, InPlace, WorkerOf
  <2>3. \A d \in Callers : caller'[d].at \in {"tap", "launch", "insert"} => WorkerOf(caller[d].worker, caller[d].job)'
    BY <1>3, <1>4, <1>5 DEF JobsInv, InPlace, WorkerOf
  <2>4. \A d \in Callers : \A v, u \in caller'[d].orphans :
          worker'[v].job = worker'[u].job /\ worker'[v].job \in Jobs => v = u
    BY <1>3, <1>4, <1>5 DEF JobsInv, InPlace
  <2> QED BY <2>1, <2>2, <2>3, <2>4 DEF InPlace
<1>8. ASSUME NEW k \in Jobs, NEW d \in About(k)'
      PROVE  d \in About(k) /\ d \in Callers /\ d # c /\ caller'[d] = caller[d]
  <2>1. d \in Callers
    BY <1>8 DEF About
  <2>2. d # c
    BY <1>4, <1>5, <1>8 DEF About
  <2> QED BY <1>3, <1>5, <1>8, <2>1, <2>2 DEF About
<1>9. c \in About(j)
  BY <1>1 DEF About
<1>10. ASSUME NEW k \in Jobs \ contested' PROVE ByOne(k)' /\ OutOfTable(k)' /\ Accounted(k)'
  <2>1. ByOne(k) /\ OutOfTable(k) /\ Accounted(k)
    BY <1>3, <1>10 DEF JobsInv, Uncontested
  <2>2. ByOne(k)'
    BY <1>8, <2>1 DEF ByOne
  <2>3. OutOfTable(k)'
    <3> SUFFICES ASSUME NEW d \in About(k)', caller'[d].at # "take" PROVE jobs'[k] = 0
      BY DEF OutOfTable
    <3>1. d \in About(k) /\ d # c /\ caller[d].at # "take"
      BY <1>8
    <3>2. k # j
      BY <1>9, <2>1, <3>1 DEF ByOne
    <3> QED BY <1>5, <2>1, <3>1, <3>2 DEF OutOfTable
  <2>4. Accounted(k)'
    <3> SUFFICES ASSUME NEW v \in Workers, worker[v].job = k, Live(v)
                 PROVE  \/ jobs'[k] = v
                        \/ \E d \in Callers : \/ v \in caller'[d].orphans
                                              \/ caller'[d].at = "insert" /\ caller'[d].worker = v
      BY <1>3 DEF Accounted, Live
    <3>1. CASE jobs[k] = v
      <4>1. k # j
        <5>1. k = j => jobs[k] = 0
          BY <1>1, <1>9, <2>1 DEF OutOfTable
        <5> QED BY <3>1, <5>1 DEF Workers
      <4> QED BY <1>5, <3>1, <4>1
    <3>2. ASSUME NEW d \in Callers, v \in caller[d].orphans PROVE v \in caller'[d].orphans
      BY <1>1, <1>5, <3>2
    <3>3. ASSUME NEW d \in Callers, caller[d].at = "insert", caller[d].worker = v
          PROVE  jobs'[k] = v \/ (caller'[d].at = "insert" /\ caller'[d].worker = v)
      <4>1. CASE d = c
        <5>1. k = j
          BY <1>1, <3>3, <4>1 DEF WorkerOf
        <5> QED BY <1>5, <3>3, <4>1, <5>1
      <4>2. CASE d # c
        BY <1>5, <3>3, <4>2
      <4> QED BY <4>1, <4>2
    <3> QED BY <2>1, <3>1, <3>2, <3>3 DEF Accounted
  <2> QED BY <2>2, <2>3, <2>4
<1> QED BY <1>6, <1>7, <1>10 DEF JobsInv, Uncontested

(* removeCamera() and stop() take every worker at once.                    *)
LEMMA TakeAllKeepsJobs == ASSUME JobsInv, NEW c \in Callers, caller[c].at = "idle", TakeAll(c),
                                 camera.tap \in Taps \cup {0}
                          PROVE  JobsInv'
<1> DEFINE place == IF Held = {} THEN "stopTap" ELSE "shut"
           s == [Idle EXCEPT !.op = "all", !.orphans = Held, !.tap = camera.tap, !.at = place]
<1>1. /\ "none" \notin Jobs /\ caller \in [Callers -> CallerRec] /\ jobs \in [Jobs -> Workers \cup {0}]
      /\ caller[c].orphans = {}
  BY AiAssumption DEF JobsInv, JobTypes, InPlace, Flows, Shutting
<1>2. caller' = [caller EXCEPT ![c] = s] /\ jobs' = [j \in Jobs |-> 0] /\ worker' = worker
  BY DEF TakeAll, Become
<1>3. /\ Held \subseteq Workers
      /\ \A w \in Held : \E j \in Jobs : w = jobs[j] /\ worker[w].job \in {j, "none"}
  BY <1>1 DEF Held, JobsInv, InPlace, WorkerOf
<1>4. /\ s \in CallerRec /\ Flows(s) /\ s.at \in {"stopTap", "shut"} /\ s.job = "none" /\ s.orphans = Held
  BY <1>3 DEF Idle, CallerRec, Flows, Own, Shutting
<1> HIDE DEF s
<1>5. /\ caller'[c] = s /\ caller' \in [Callers -> CallerRec]
      /\ \A d \in Callers : d # c => caller'[d] = caller[d]
  BY <1>1, <1>2, <1>4
<1>6. JobTypes'
  BY <1>2, <1>5 DEF JobsInv, JobTypes, TakeAll, Contest
<1>7. InPlace'
  <2>1. \A d \in Callers : Flows(caller[d])'
    BY <1>4, <1>5 DEF JobsInv, InPlace
  <2>2. \A d \in Callers : caller'[d].at \in {"tap", "launch", "insert"} => WorkerOf(caller[d].worker, caller[d].job)'
    BY <1>2, <1>4, <1>5 DEF JobsInv, InPlace, WorkerOf
  <2>3. ASSUME NEW d \in Callers, NEW v \in caller'[d].orphans, NEW u \in caller'[d].orphans,
               worker[v].job = worker[u].job, worker[v].job \in Jobs
        PROVE  v = u
    <3>1. CASE d = c
      <4>1. v \in Held /\ u \in Held
        BY <1>4, <1>5, <3>1
      <4>2. PICK j \in Jobs : v = jobs[j] /\ worker[v].job \in {j, "none"}
        BY <1>3, <4>1
      <4>3. PICK k \in Jobs : u = jobs[k] /\ worker[u].job \in {k, "none"}
        BY <1>3, <4>1
      <4> QED BY <1>1, <2>3, <4>2, <4>3
    <3>2. CASE d # c
      BY <1>5, <2>3, <3>2 DEF JobsInv, InPlace
    <3> QED BY <3>1, <3>2
  <2> QED BY <1>2, <2>1, <2>2, <2>3 DEF InPlace
<1>8. \A k \in Jobs : About(k)' \subseteq About(k) \cup {c}
  BY <1>2, <1>5 DEF About
<1>9. ASSUME NEW k \in Jobs \ contested' PROVE ByOne(k)' /\ OutOfTable(k)' /\ Accounted(k)'
  <2>1. k \notin contested /\ About(k) \subseteq {c}
    BY <1>9 DEF TakeAll, Contest
  <2>2. Accounted(k)
    BY <2>1 DEF JobsInv, Uncontested
  <2>3. ByOne(k)' /\ OutOfTable(k)'
    BY <1>2, <1>8, <2>1 DEF ByOne, OutOfTable
  <2>4. Accounted(k)'
    <3> SUFFICES ASSUME NEW v \in Workers, worker[v].job = k, Live(v)
                 PROVE  \E d \in Callers : \/ v \in caller'[d].orphans
                                           \/ caller'[d].at = "insert" /\ caller'[d].worker = v
      BY <1>2 DEF Accounted, Live
    <3>1. CASE jobs[k] = v
      <4>1. v \in Held
        BY <3>1 DEF Held, Workers
      <4> QED BY <1>4, <1>5, <4>1
    <3>2. ASSUME NEW d \in Callers, v \in caller[d].orphans \/ (caller[d].at = "insert" /\ caller[d].worker = v)
          PROVE  v \in caller'[d].orphans \/ (caller'[d].at = "insert" /\ caller'[d].worker = v)
      BY <1>1, <1>5, <3>2
    <3> QED BY <2>2, <3>1, <3>2 DEF Accounted
  <2> QED BY <2>3, <2>4
<1> QED BY <1>6, <1>7, <1>9 DEF JobsInv, Uncontested

(* One thread lets go, or begins what is about no job yet.                 *)
LEMMA OneLetsGo ==
  ASSUME JobsInv, NEW c \in Callers, NEW s, LetsGo(caller[c], s), caller' = [caller EXCEPT ![c] = s],
         \A w \in caller[c].orphans \ s.orphans : ~ Live(w), UNCHANGED <<jobs, worker, contested>>
  PROVE  JobsInv'
<1>1. s \in CallerRec /\ caller \in [Callers -> CallerRec] /\ worker \in [Workers -> WorkerRec]
  BY DEF LetsGo, JobsInv, JobTypes
<1>2. /\ caller'[c] = s /\ caller' \in [Callers -> CallerRec]
      /\ \A d \in Callers : d # c => caller'[d] = caller[d]
  BY <1>1
<1>3. /\ \A d \in Callers : caller'[d] = caller[d] \/ LetsGo(caller[d], caller'[d])
      /\ \A d \in Callers : \A w \in caller[d].orphans \ caller'[d].orphans : ~ Live(w)
  BY <1>2
<1>4. /\ worker' \in [Workers -> WorkerRec] /\ \A w \in Workers : worker'[w].job \in {worker[w].job, "none"}
      /\ \A w \in Workers : Live(w)' => Live(w)
  BY <1>1 DEF Live
<1> QED BY <1>2, <1>3, <1>4, LettingGo

(* A worker changes, and is still of its job or of none.                   *)
LEMMA OneWorkerSteps ==
  ASSUME JobsInv, NEW w \in Workers, NEW b \in WorkerRec, worker' = [worker EXCEPT ![w] = b],
         b.job \in {worker[w].job, "none"}, b.loop # "none" => Live(w), UNCHANGED <<jobs, caller, contested>>
  PROVE  JobsInv'
<1>1. caller \in [Callers -> CallerRec] /\ worker \in [Workers -> WorkerRec]
  BY DEF JobsInv, JobTypes
<1>2. /\ worker'[w] = b /\ worker' \in [Workers -> WorkerRec]
      /\ \A v \in Workers : v # w => worker'[v] = worker[v]
  BY <1>1
<1>3. /\ \A d \in Callers : caller'[d] = caller[d] \/ LetsGo(caller[d], caller'[d])
      /\ \A d \in Callers : \A v \in caller[d].orphans \ caller'[d].orphans : ~ Live(v)
      /\ caller' \in [Callers -> CallerRec]
  BY <1>1
<1>4. /\ \A v \in Workers : worker'[v].job \in {worker[v].job, "none"}
      /\ \A v \in Workers : Live(v)' => Live(v)
  BY <1>2 DEF Live
<1> QED BY <1>2, <1>3, <1>4, LettingGo

LEMMA ShutDownKeepsJobs == ASSUME JobsInv, NEW c \in Callers, ShutDown(c) PROVE JobsInv'
<1> DEFINE r == caller[c]
<1>1. /\ r \in CallerRec /\ r.at = "shut" /\ Flows(r) /\ caller \in [Callers -> CallerRec]
      /\ worker \in [Workers -> WorkerRec] /\ r.orphans \subseteq Workers
  BY DEF ShutDown, JobsInv, JobTypes, InPlace, CallerRec
<1>2. PICK w \in r.orphans :
        /\ worker' = [worker EXCEPT ![w] = IF Live(w) THEN [@ EXCEPT !.run = FALSE, !.attached = FALSE] ELSE NoWorker]
        /\ Become(c, [caller[c] EXCEPT !.at = "join", !.worker = w])
  BY DEF ShutDown
<1>3. w \in Workers /\ worker[w] \in WorkerRec
  BY <1>1
<1> DEFINE b == IF Live(w) THEN [worker[w] EXCEPT !.run = FALSE, !.attached = FALSE] ELSE NoWorker
           s == [r EXCEPT !.at = "join", !.worker = w]
<1>4. b \in WorkerRec /\ b.job \in {worker[w].job, "none"} /\ (b.loop \in {"waiting", "analysing"} => Live(w))
  BY <1>3 DEF WorkerRec, NoWorker, Live
<1>5. worker' = [worker EXCEPT ![w] = b] /\ caller' = [caller EXCEPT ![c] = s] /\ UNCHANGED <<jobs, contested>>
  BY <1>2 DEF ShutDown, Become
<1>6. s \in CallerRec /\ Flows(s) /\ LetsGo(r, s) /\ s.orphans = r.orphans
  BY <1>1, <1>3 DEF CallerRec, Flows, Own, Shutting, LetsGo, Busy
<1> HIDE DEF b, s
<1>7. /\ caller'[c] = s /\ caller' \in [Callers -> CallerRec]
      /\ \A d \in Callers : d # c => caller'[d] = caller[d]
  BY <1>1, <1>5, <1>6
<1>8. /\ worker'[w] = b /\ worker' \in [Workers -> WorkerRec]
      /\ \A v \in Workers : v # w => worker'[v] = worker[v]
  BY <1>1, <1>3, <1>4, <1>5
<1>9. /\ \A d \in Callers : caller'[d] = caller[d] \/ LetsGo(caller[d], caller'[d])
      /\ \A d \in Callers : \A v \in caller[d].orphans \ caller'[d].orphans : ~ Live(v)
  BY <1>6, <1>7
<1>10. /\ \A v \in Workers : worker'[v].job \in {worker[v].job, "none"}
       /\ \A v \in Workers : Live(v)' => Live(v)
  BY <1>4, <1>8 DEF Live
<1> QED BY <1>5, <1>7, <1>8, <1>9, <1>10, LettingGo

LEMMA JoinKeepsJobs == ASSUME JobsInv, NEW c \in Callers, Join(c) PROVE JobsInv'
<1> DEFINE r == caller[c]
           left == r.orphans \ {r.worker}
           place == IF left # {} THEN "shut" ELSE IF r.op = "all" THEN "stopTap" ELSE "retire"
           s == [r EXCEPT !.orphans = left, !.worker = 0, !.at = place]
<1>1. /\ r \in CallerRec /\ r.at = "join" /\ Flows(r) /\ ~ Live(r.worker)
      /\ caller' = [caller EXCEPT ![c] = s] /\ UNCHANGED <<jobs, worker, contested>>
  BY DEF Join, Joined, Become, JobsInv, JobTypes, InPlace
<1>2. s \in CallerRec /\ Flows(s) /\ LetsGo(r, s) /\ s.orphans = left
  <2>1. /\ s \in CallerRec /\ s.orphans = left /\ s.at = place /\ s.op = r.op /\ s.job = r.job
        /\ place \in {"shut", "stopTap", "retire"} /\ left \subseteq r.orphans
    BY <1>1 DEF CallerRec, Own, Shutting
  <2> HIDE DEF s
  <2>2. Flows(s)
    BY <1>1, <2>1 DEF Flows, Own, Shutting
  <2>3. Busy(r)
    BY <1>1 DEF Busy
  <2> QED BY <1>1, <2>1, <2>2, <2>3 DEF LetsGo
<1> HIDE DEF s
<1>3. \A w \in caller[c].orphans \ s.orphans : ~ Live(w)
  BY <1>1, <1>2
<1> QED BY <1>1, <1>2, <1>3, OneLetsGo

(* Through with a job.                                                     *)
LEMMA ThroughWithJob ==
  ASSUME JobsInv, NEW c \in Callers, caller[c].at \in Own \ {"take", "insert"}
  PROVE  LetsGo(caller[c], After(c)) /\ After(c).orphans = caller[c].orphans
<1>1. caller[c] \in CallerRec /\ Flows(caller[c]) /\ caller[c].op # "all" /\ caller[c].orphans = {}
  BY DEF JobsInv, JobTypes, InPlace, Flows, Own, Shutting
<1>2. /\ After(c) \in CallerRec /\ Flows(After(c)) /\ ~ Busy(After(c)) /\ After(c).orphans = {}
      /\ After(c).at \in {"idle", "look", "motion"}
  BY <1>1, AfterIsFree DEF JobsInv
<1> QED BY <1>1, <1>2 DEF LetsGo, Own

(* What TapFor() finds: nothing, the decoder that runs, or a free slot.    *)
LEMMA Found ==
  ASSUME decoding \subseteq Taps, NEW e, NEW ok, NEW t \in TapFor(e, ok)
  PROVE  /\ t \in Taps \cup {0}
         /\ \/ t = 0 /\ e.tap \notin decoding
            \/ t = e.tap /\ t \in decoding
            \/ t \in Taps \ UsedTaps /\ e.tap \notin decoding /\ e.here
BY DEF TapFor, First, Taps

LEMMA GetTapKeepsJobs ==
  ASSUME JobsInv, decoding \subseteq Taps, NEW c \in Callers, GetTap(c) PROVE JobsInv'
<1>1. PICK ok \in Outcomes : \E t \in TapFor(camera, ok) :
        /\ Become(c, [caller[c] EXCEPT !.tap = t, !.at = IF t = 0 THEN "insert" ELSE "launch"])
        /\ IF t = 0 THEN UNCHANGED <<camera, decoding>>
           ELSE camera' = [camera EXCEPT !.tap = t] /\ decoding' = decoding \cup {t}
        /\ missed' = (missed \/ (t = 0 /\ camera.stream # "none"))
  BY DEF GetTap
<1>2. PICK t \in TapFor(camera, ok) :
        /\ Become(c, [caller[c] EXCEPT !.tap = t, !.at = IF t = 0 THEN "insert" ELSE "launch"])
        /\ IF t = 0 THEN UNCHANGED <<camera, decoding>>
           ELSE camera' = [camera EXCEPT !.tap = t] /\ decoding' = decoding \cup {t}
        /\ missed' = (missed \/ (t = 0 /\ camera.stream # "none"))
  BY <1>1
<1> DEFINE place == IF t = 0 THEN "insert" ELSE "launch"
           s == [caller[c] EXCEPT !.tap = t, !.at = place]
<1>3. t \in Taps \cup {0}
  BY Found
<1>4. caller[c].at = "tap" /\ UNCHANGED <<jobs, worker, contested>> /\ caller' = [caller EXCEPT ![c] = s]
  BY <1>2 DEF GetTap, Become
<1>5. LetsGo(caller[c], s) /\ s.orphans = caller[c].orphans
  <2>1. caller[c] \in CallerRec /\ Flows(caller[c])
    BY DEF JobsInv, JobTypes, InPlace
  <2>2. place \in {"launch", "insert"}
    OBVIOUS
  <2> HIDE DEF place
  <2> QED BY <1>3, <1>4, <2>1, <2>2 DEF CallerRec, Flows, Own, Shutting, LetsGo, Busy
<1> QED BY <1>4, <1>5, OneLetsGo

LEMMA RetireKeepsJobs == ASSUME JobsInv, NEW c \in Callers, Retire(c) PROVE JobsInv'
<1>1. caller[c].at = "retire" /\ UNCHANGED <<jobs, worker, contested>> /\ caller[c].at \in Own \ {"take", "insert"}
  BY DEF Retire, Own
<1>2. CASE caller[c].op = "remove"
  BY <1>1, <1>2, ThroughWithJob, OneLetsGo DEF Retire, Become
<1>3. CASE caller[c].op # "remove"
  <2> DEFINE s == [caller[c] EXCEPT !.at = "build"]
  <2>1. caller[c] \in CallerRec /\ Flows(caller[c])
    BY DEF JobsInv, JobTypes, InPlace
  <2>2. LetsGo(caller[c], s) /\ s.orphans = caller[c].orphans
    BY <1>1, <2>1 DEF CallerRec, Flows, Own, Shutting, LetsGo, Busy
  <2>3. caller' = [caller EXCEPT ![c] = s]
    BY <1>3 DEF Retire, Go, Become
  <2> QED BY <1>1, <2>2, <2>3, OneLetsGo
<1> QED BY <1>2, <1>3

LEMMA LookKeepsJobs == ASSUME JobsInv, NEW c \in Callers, Look(c) PROVE JobsInv'
<1>1. /\ caller[c] \in CallerRec /\ Flows(caller[c]) /\ caller[c].at = "look" /\ caller[c].orphans = {}
      /\ UNCHANGED <<jobs, worker>> /\ ~ Busy(caller[c])
  BY DEF Look, JobsInv, JobTypes, InPlace, Flows, Shutting, Busy
<1>2. PICK j \in caller[c].todo :
        LET left == [caller[c] EXCEPT !.todo = @ \ {j}]
        IN  IF jobs[j] # 0
            THEN Become(c, [left EXCEPT !.at = "take", !.job = j]) /\ Contest(c, {j})
            ELSE Become(c, [left EXCEPT !.at = IF left.todo = {} THEN "motion" ELSE "look"]) /\ UNCHANGED contested
  BY DEF Look
<1> DEFINE left == [caller[c] EXCEPT !.todo = @ \ {j}]
           place == IF left.todo = {} THEN "motion" ELSE "look"
           s == [left EXCEPT !.at = "take", !.job = j]
           u == [left EXCEPT !.at = place]
<1>3. j \in Jobs
  BY <1>1 DEF CallerRec
<1>4. left \in CallerRec /\ left.op = "camera" /\ left.orphans = {}
  BY <1>1 DEF CallerRec, Flows
<1>5. CASE jobs[j] # 0
  <2>1. s \in CallerRec /\ Flows(s) /\ s.at = "take" /\ s.job = j
    BY <1>3, <1>4 DEF CallerRec, Flows, Own, Shutting
  <2>2. caller' = [caller EXCEPT ![c] = s] /\ Contest(c, {j})
    BY <1>2, <1>5 DEF Become
  <2> HIDE DEF s
  <2> QED BY <1>1, <1>3, <2>1, <2>2, TakingOn
<1>6. CASE jobs[j] = 0
  <2>1. LetsGo(caller[c], u) /\ u.orphans = {}
    <3>1. place \in {"motion", "look"}
      OBVIOUS
    <3> HIDE DEF left, place
    <3>2. u \in CallerRec /\ u.at = place /\ u.op = "camera" /\ u.orphans = {}
      BY <1>4, <3>1 DEF CallerRec
    <3> HIDE DEF u
    <3> QED BY <1>1, <3>1, <3>2 DEF Flows, Own, Shutting, LetsGo, Busy
  <2>2. caller' = [caller EXCEPT ![c] = u] /\ UNCHANGED contested
    BY <1>2, <1>6 DEF Become
  <2> HIDE DEF u
  <2> QED BY <1>1, <2>1, <2>2, OneLetsGo
<1> QED BY <1>5, <1>6

LEMMA AskKeepsJobs ==
  ASSUME JobsInv, NEW c \in Callers, NEW j \in Jobs, NEW op, AskJob(c, j, op) PROVE JobsInv'
<1> DEFINE s == [Idle EXCEPT !.at = "take", !.op = op, !.job = j]
<1>1. /\ caller[c].at = "idle" /\ op \in {"apply", "remove"} /\ caller' = [caller EXCEPT ![c] = s]
      /\ Contest(c, {j}) /\ UNCHANGED <<jobs, worker>>
  BY DEF AskJob, May, Become
<1>2. s \in CallerRec /\ Flows(s) /\ s.at = "take" /\ s.job = j /\ ~ Busy(caller[c])
  BY <1>1 DEF Idle, CallerRec, Flows, Own, Shutting, Busy
<1> HIDE DEF s
<1> QED BY <1>1, <1>2, TakingOn

(* A thread that ends its call, or begins applyCamera().                   *)
LEMMA Standing ==
  ASSUME JobsInv, NEW c \in Callers, caller[c].at \in {"idle", "motion", "stopTap"}, NEW s \in CallerRec,
         Flows(s), s.at \in {"idle", "look", "motion"}, caller' = [caller EXCEPT ![c] = s],
         UNCHANGED <<jobs, worker, contested>>
  PROVE  JobsInv'
<1>1. caller[c].orphans = {} /\ s.orphans = {}
  BY DEF JobsInv, InPlace, Flows, Shutting
<1>2. LetsGo(caller[c], s)
  BY <1>1 DEF LetsGo, Busy
<1> QED BY <1>1, <1>2, OneLetsGo

LEMMA IdleStands == Idle \in CallerRec /\ Flows(Idle) /\ Idle.at = "idle" /\ Idle.op = "none"
BY DEF Idle, CallerRec, Flows, Own, Shutting

LEMMA ApplyKeepsJobs ==
  ASSUME JobsInv, NEW c \in Callers, NEW motion, NEW stream, NEW regrid, ApplyCamera(c, motion, stream, regrid)
  PROVE  JobsInv'
<1>1. caller[c].at = "idle" /\ UNCHANGED <<jobs, worker, contested>>
  BY DEF ApplyCamera, May
<1>2. CASE camera.here /\ camera.stream = stream
  <2>1. UNCHANGED caller
    BY <1>2 DEF ApplyCamera
  <2> QED BY <1>1, <2>1 DEF JobsInv, JobTypes, InPlace, Uncontested, WorkerOf, ByOne, OutOfTable, Accounted, About, Live
<1>3. CASE ~ (camera.here /\ camera.stream = stream)
  <2> DEFINE affected == {j \in Jobs : jobs[j] # 0}
             place == IF affected = {} THEN "motion" ELSE "look"
             live == stream # "none"
             s == [Idle EXCEPT !.op = "camera", !.live = live, !.todo = affected, !.at = place]
  <2>1. caller' = [caller EXCEPT ![c] = s]
    BY <1>3 DEF ApplyCamera, Become
  <2>2. live \in BOOLEAN
    OBVIOUS
  <2> HIDE DEF live
  <2>3. s \in CallerRec /\ Flows(s) /\ s.at \in {"look", "motion"}
    BY <2>2 DEF Idle, CallerRec, Flows, Own, Shutting
  <2> HIDE DEF s
  <2> QED BY <1>1, <2>1, <2>3, Standing
<1> QED BY <1>2, <1>3

LEMMA WorkersKeepJobs ==
  ASSUME JobsInv, NEW w \in Workers, Offer(w) \/ Analyse(w) \/ Analysed(w) \/ End(w) PROVE JobsInv'
<1>1. worker \in [Workers -> WorkerRec] /\ worker[w] \in WorkerRec /\ UNCHANGED <<jobs, caller, contested>>
  BY DEF JobsInv, JobTypes, Offer, Analyse, Analysed, End, Rest
<1>2. CASE Offer(w)
  <2> DEFINE b == [worker[w] EXCEPT !.pending = TRUE]
  <2>1. b \in WorkerRec /\ b.job = worker[w].job /\ b.loop = worker[w].loop
    BY <1>1 DEF WorkerRec
  <2>2. worker' = [worker EXCEPT ![w] = b]
    BY <1>2 DEF Offer
  <2>3. b.loop # "none" => Live(w)
    BY <1>1, <2>1 DEF WorkerRec, Live
  <2> HIDE DEF b
  <2> QED BY <1>1, <2>1, <2>2, <2>3, OneWorkerSteps
<1>3. CASE Analyse(w)
  <2> DEFINE b == [worker[w] EXCEPT !.loop = "analysing", !.pending = FALSE]
  <2>1. b \in WorkerRec /\ b.job = worker[w].job /\ Live(w)
    BY <1>1, <1>3 DEF WorkerRec, Live, Analyse
  <2>2. worker' = [worker EXCEPT ![w] = b]
    BY <1>1, <1>3 DEF Analyse
  <2> HIDE DEF b
  <2> QED BY <1>1, <2>1, <2>2, OneWorkerSteps
<1>4. CASE Analysed(w)
  <2> DEFINE b == [worker[w] EXCEPT !.loop = "waiting"]
  <2>1. b \in WorkerRec /\ b.job = worker[w].job /\ Live(w)
    BY <1>1, <1>4 DEF WorkerRec, Live, Analysed
  <2>2. worker' = [worker EXCEPT ![w] = b]
    BY <1>4 DEF Analysed
  <2> HIDE DEF b
  <2> QED BY <1>1, <2>1, <2>2, OneWorkerSteps
<1>5. CASE End(w)
  <2>1. NoWorker \in WorkerRec /\ NoWorker.job = "none" /\ NoWorker.loop = "none"
    BY DEF WorkerRec, NoWorker
  <2>2. worker' = [worker EXCEPT ![w] = NoWorker]
    BY <1>5 DEF End
  <2> QED BY <1>1, <2>1, <2>2, OneWorkerSteps
<1> QED BY <1>2, <1>3, <1>4, <1>5

LEMMA JobsKept ==
  ASSUME JobsInv, camera.tap \in Taps \cup {0}, decoding \subseteq Taps, [AiNext]_aiVars PROVE JobsInv'
<1>1. ASSUME NEW c \in Callers, NEW j \in Jobs, AskJob(c, j, "apply") \/ AskJob(c, j, "remove") PROVE JobsInv'
  BY <1>1, AskKeepsJobs
<1>2. ASSUME NEW c \in Callers, NEW motion, NEW regrid, NEW stream, ApplyCamera(c, motion, stream, regrid)
      PROVE  JobsInv'
  BY <1>2, ApplyKeepsJobs
<1>3. ASSUME NEW c \in Callers, RemoveCamera(c) \/ Stop(c) PROVE JobsInv'
  BY <1>3, TakeAllKeepsJobs DEF RemoveCamera, Stop, May
<1>4. ASSUME NEW c \in Callers, Step(c) PROVE JobsInv'
  <2>1. CASE Build(c) /\ ~ running
    <3>1. /\ caller[c].at \in Own \ {"take", "insert"} /\ caller' = [caller EXCEPT ![c] = After(c)]
          /\ UNCHANGED <<jobs, worker, contested>>
      BY <2>1 DEF Build, Own, Become
    <3>2. LetsGo(caller[c], After(c)) /\ After(c).orphans = caller[c].orphans
      BY <3>1, ThroughWithJob
    <3> QED BY <3>1, <3>2, OneLetsGo
  <2>2. CASE Motion(c) \/ StopTaken(c)
    <3>1. /\ caller[c].at \in {"motion", "stopTap"} /\ caller' = [caller EXCEPT ![c] = Idle]
          /\ UNCHANGED <<jobs, worker, contested>>
      BY <2>2 DEF Motion, StopTaken, Become
    <3> QED BY <3>1, IdleStands, Standing
  <2> QED BY <1>4, <2>1, <2>2, TakeKeepsJobs, ShutDownKeepsJobs, JoinKeepsJobs, RetireKeepsJobs, BuildKeepsJobs,
             GetTapKeepsJobs, LaunchKeepsJobs, InsertKeepsJobs, LookKeepsJobs DEF Step
<1>5. ASSUME NEW w \in Workers, Offer(w) \/ Analyse(w) \/ Analysed(w) \/ End(w) PROVE JobsInv'
  BY <1>5, WorkersKeepJobs
<1>6. CASE UNCHANGED aiVars
  BY <1>6 DEF aiVars, JobsInv, JobTypes, InPlace, Uncontested, WorkerOf, ByOne, OutOfTable, Accounted, About, Live
<1> QED BY <1>1, <1>2, <1>3, <1>4, <1>5, <1>6 DEF AiNext

-----------------------------------------------------------------------------
(***************************************************************************)
(* Then the camera and its decoder.  A decoder that runs is the camera's,  *)
(* or is in the hands of the one call that took the camera away; and the   *)
(* camera's is used, or there is a thread that will see to it: a job that  *)
(* was taken out is looked after by the thread that took it.               *)
(***************************************************************************)
CameraRec ==
  [here : BOOLEAN, motion : BOOLEAN, stream : Feeds \cup {"none"}, tap : Taps \cup {0}, sink : BOOLEAN]

(* A camera, the decoders that run and the sinks they have: motion's sink  *)
(* is attached to the camera's own decoder, once, and nowhere else.        *)
Wired(e, dec, wat) ==
  /\ e \in CameraRec /\ dec \subseteq Taps /\ wat \in [Taps -> 0 .. 1]
  /\ e.tap # 0 => e.tap \in dec /\ (e.sink => wat[e.tap] = 1) /\ (~ e.sink => wat[e.tap] = 0)
  /\ \A t \in Taps \ dec : wat[t] = 0
  /\ e.sink => e.tap # 0 /\ e.motion
  /\ ~ e.here => ~ e.motion /\ e.tap = 0

Taken(r) == r.op = "all"
Seeing(r) == r.op # "all" /\ r.at \in {"shut", "join", "retire", "launch", "insert"}
Restoring(r) == r.op = "camera" /\ r.live

TakenTaps == {caller[c].tap : c \in {d \in Callers : Taken(caller[d])}}

DecodersAreKnown ==
  /\ decoding \subseteq {camera.tap} \cup TakenTaps
  /\ \A c \in Callers : Taken(caller[c]) /\ caller[c].tap # 0 => caller[c].tap # camera.tap
DecoderIsUsed == camera.tap # 0 => Used(camera, jobs) \/ \E c \in Callers : Seeing(caller[c])
MotionReturns ==
  camera.motion /\ camera.stream # "none" /\ ~ missed =>
    camera.sink \/ \E c \in Callers : Restoring(caller[c])

CameraInv ==
  /\ missed \in BOOLEAN /\ Wired(camera, decoding, watchers)
  /\ DecodersAreKnown /\ DecoderIsUsed /\ MotionReturns

LEMMA AiInitCamera == AiInit => CameraInv
<1> SUFFICES ASSUME AiInit PROVE CameraInv
  OBVIOUS
<1>1. Absent \in CameraRec /\ Absent.tap = 0 /\ ~ Absent.here /\ ~ Absent.motion /\ ~ Absent.sink
  BY DEF Absent, CameraRec
<1>2. Wired(camera, decoding, watchers)
  BY <1>1 DEF AiInit, Wired
<1>3. \A c \in Callers : ~ Taken(caller[c])
  BY DEF AiInit, Taken, Idle
<1> QED BY <1>1, <1>2, <1>3 DEF AiInit, CameraInv, DecodersAreKnown, DecoderIsUsed, MotionReturns

(* What the threads have in hand, while the camera stays as it is.         *)
SameTaken(r, s) == (Taken(r) => Taken(s)) /\ (Taken(s) => Taken(r)) /\ (Taken(r) => s.tap = r.tap)

LEMMA CallersMove ==
  ASSUME CameraInv, UNCHANGED <<camera, decoding, watchers, missed>>,
         \A d \in Callers : SameTaken(caller[d], caller'[d]),
         \A d \in Callers : Restoring(caller[d]) => Restoring(caller'[d]),
         camera.tap # 0 /\ (Used(camera, jobs) \/ \E d \in Callers : Seeing(caller[d])) =>
            Used(camera, jobs') \/ \E d \in Callers : Seeing(caller'[d])
  PROVE  CameraInv'
<1>1. TakenTaps \subseteq TakenTaps'
  BY DEF TakenTaps, SameTaken
<1>2. DecodersAreKnown'
  <2>1. \A c \in Callers : Taken(caller[c])' => Taken(caller[c]) /\ caller'[c].tap = caller[c].tap
    BY DEF SameTaken, Taken
  <2> QED BY <1>1, <2>1 DEF CameraInv, DecodersAreKnown
<1>3. DecoderIsUsed'
  <2>1. Used(camera, jobs') => Used(camera, jobs)'
    BY DEF Used
  <2>2. (\E d \in Callers : Seeing(caller'[d])) => \E d \in Callers : Seeing(caller[d])'
    BY DEF Seeing
  <2> QED BY <2>1, <2>2 DEF CameraInv, DecoderIsUsed
<1>4. MotionReturns'
  BY DEF CameraInv, MotionReturns, Restoring
<1> QED BY <1>2, <1>3, <1>4 DEF CameraInv, Wired

(* One thread moves on, and the jobs of the table stay there.              *)
LEMMA OneMoves ==
  ASSUME CameraInv, UNCHANGED <<camera, decoding, watchers, missed>>,
         NEW c \in Callers, NEW s, caller \in [Callers -> CallerRec], caller' = [caller EXCEPT ![c] = s],
         SameTaken(caller[c], s), Restoring(caller[c]) => Restoring(s), Seeing(caller[c]) => Seeing(s),
         Used(camera, jobs) => Used(camera, jobs')  \/ Seeing(s)
  PROVE  CameraInv'
<1>1. caller'[c] = s /\ \A d \in Callers : d # c => caller'[d] = caller[d]
  OBVIOUS
<1>2. \A d \in Callers : SameTaken(caller[d], caller'[d])
  BY <1>1 DEF SameTaken
<1>3. \A d \in Callers : Restoring(caller[d]) => Restoring(caller'[d])
  BY <1>1
<1>4. \A d \in Callers : Seeing(caller[d]) => Seeing(caller'[d])
  BY <1>1
<1>5. Used(camera, jobs) \/ (\E d \in Callers : Seeing(caller[d])) =>
        Used(camera, jobs') \/ \E d \in Callers : Seeing(caller'[d])
  BY <1>1, <1>4
<1> QED BY <1>2, <1>3, <1>5, CallersMove

LEMMA TakeKeepsCamera == ASSUME JobsInv, CameraInv, NEW c \in Callers, Take(c) PROVE CameraInv'
<1> DEFINE r == caller[c]
<1>1. /\ r \in CallerRec /\ r.at = "take" /\ r.op \in {"apply", "remove", "camera"} /\ r.job \in Jobs
      /\ caller \in [Callers -> CallerRec] /\ jobs \in [Jobs -> Workers \cup {0}]
      /\ jobs' = [jobs EXCEPT ![r.job] = 0] /\ UNCHANGED <<camera, decoding, watchers, missed>>
  BY DEF Take, JobsInv, JobTypes, InPlace, Flows, Own
<1>2. CASE jobs[r.job] # 0
  <2> DEFINE s == [r EXCEPT !.at = "shut", !.orphans = {jobs[r.job]}]
  <2>1. caller' = [caller EXCEPT ![c] = s]
    BY <1>2 DEF Take, Become
  <2>2. SameTaken(r, s) /\ (Restoring(r) => Restoring(s)) /\ Seeing(s)
    BY <1>1 DEF CallerRec, SameTaken, Taken, Restoring, Seeing
  <2> HIDE DEF s
  <2> QED BY <1>1, <2>1, <2>2, OneMoves
<1>3. CASE jobs[r.job] = 0
  <2>1. \A k \in Jobs : jobs'[k] = jobs[k]
    BY <1>1, <1>3
  <2>2. Used(camera, jobs) => Used(camera, jobs')
    BY <2>1 DEF Used
  <2>3. ~ Seeing(r)
    BY <1>1 DEF Seeing
  <2>4. CASE r.op = "remove"
    <3>1. caller' = [caller EXCEPT ![c] = After(c)]
      BY <1>3, <2>4 DEF Take, Become
    <3>2. After(c).op \in {"none", "camera"}
      BY <1>1, AfterIsFree DEF JobsInv
    <3>3. SameTaken(r, After(c)) /\ (Restoring(r) => Restoring(After(c)))
      BY <2>4, <3>2 DEF SameTaken, Taken, Restoring
    <3> QED BY <1>1, <2>2, <2>3, <3>1, <3>3, OneMoves
  <2>5. CASE r.op # "remove"
    <3> DEFINE s == [r EXCEPT !.at = "build"]
    <3>1. caller' = [caller EXCEPT ![c] = s]
      BY <1>3, <2>5 DEF Take, Go, Become
    <3>2. SameTaken(r, s) /\ (Restoring(r) => Restoring(s))
      BY <1>1 DEF CallerRec, SameTaken, Taken, Restoring
    <3> HIDE DEF s
    <3> QED BY <1>1, <2>2, <2>3, <3>1, <3>2, OneMoves
  <2> QED BY <2>4, <2>5
<1> QED BY <1>2, <1>3

(* A thread that changes neither the table nor what it has in hand.        *)
LEMMA MovesOn ==
  ASSUME CameraInv, UNCHANGED <<camera, decoding, watchers, missed, jobs>>,
         NEW c \in Callers, NEW s, caller \in [Callers -> CallerRec], caller' = [caller EXCEPT ![c] = s],
         SameTaken(caller[c], s), Restoring(caller[c]) => Restoring(s), Seeing(caller[c]) => Seeing(s)
  PROVE  CameraInv'
<1>1. Used(camera, jobs) => Used(camera, jobs')
  OBVIOUS
<1> QED BY <1>1, OneMoves

LEMMA ShutDownKeepsCamera == ASSUME JobsInv, CameraInv, NEW c \in Callers, ShutDown(c) PROVE CameraInv'
<1> DEFINE r == caller[c]
<1>1. PICK w \in r.orphans : Become(c, [caller[c] EXCEPT !.at = "join", !.worker = w])
  BY DEF ShutDown
<1> DEFINE s == [r EXCEPT !.at = "join", !.worker = w]
<1>2. /\ r \in CallerRec /\ caller \in [Callers -> CallerRec] /\ caller' = [caller EXCEPT ![c] = s]
      /\ UNCHANGED <<camera, decoding, watchers, missed, jobs>> /\ r.at = "shut"
  BY <1>1 DEF ShutDown, Become, JobsInv, JobTypes
<1>3. SameTaken(r, s) /\ (Restoring(r) => Restoring(s)) /\ (Seeing(r) => Seeing(s))
  BY <1>2 DEF CallerRec, SameTaken, Taken, Restoring, Seeing
<1> HIDE DEF s
<1> QED BY <1>2, <1>3, MovesOn

LEMMA JoinKeepsCamera == ASSUME JobsInv, CameraInv, NEW c \in Callers, Join(c) PROVE CameraInv'
<1> DEFINE r == caller[c]
           left == r.orphans \ {r.worker}
           place == IF left # {} THEN "shut" ELSE IF r.op = "all" THEN "stopTap" ELSE "retire"
           s == [r EXCEPT !.orphans = left, !.worker = 0, !.at = place]
<1>1. /\ r \in CallerRec /\ caller \in [Callers -> CallerRec] /\ caller' = [caller EXCEPT ![c] = s]
      /\ UNCHANGED <<camera, decoding, watchers, missed, jobs>>
  BY DEF Join, Become, JobsInv, JobTypes
<1>2. place \in {"shut", "stopTap", "retire"} /\ (r.op # "all" => place # "stopTap")
  OBVIOUS
<1> HIDE DEF place, left
<1>3. SameTaken(r, s) /\ (Restoring(r) => Restoring(s)) /\ (Seeing(r) => Seeing(s))
  BY <1>1, <1>2 DEF CallerRec, SameTaken, Taken, Restoring, Seeing
<1> HIDE DEF s
<1> QED BY <1>1, <1>3, MovesOn

LEMMA BuildKeepsCamera == ASSUME JobsInv, CameraInv, NEW c \in Callers, Build(c) PROVE CameraInv'
<1> DEFINE r == caller[c]
<1>1. /\ r \in CallerRec /\ r.at = "build" /\ r.op \in {"apply", "remove", "camera"} /\ ~ Seeing(r)
      /\ caller \in [Callers -> CallerRec] /\ UNCHANGED <<camera, decoding, watchers, missed, jobs>>
  BY DEF Build, JobsInv, JobTypes, InPlace, Flows, Own, Seeing
<1>2. CASE running
  <2>1. PICK w \in First(Workers \ UsedWorkers), loads \in Outcomes :
          Become(c, [caller[c] EXCEPT !.worker = w, !.at = IF loads THEN "tap" ELSE "insert"])
    BY <1>2 DEF Build
  <2> DEFINE place == IF loads THEN "tap" ELSE "insert"
             s == [r EXCEPT !.worker = w, !.at = place]
  <2>2. caller' = [caller EXCEPT ![c] = s]
    BY <2>1 DEF Become
  <2> HIDE DEF place
  <2>3. SameTaken(r, s) /\ (Restoring(r) => Restoring(s))
    BY <1>1 DEF CallerRec, SameTaken, Taken, Restoring
  <2> HIDE DEF s
  <2> QED BY <1>1, <2>2, <2>3, MovesOn
<1>3. CASE ~ running
  <2>1. caller' = [caller EXCEPT ![c] = After(c)]
    BY <1>3 DEF Build, Become
  <2>2. After(c).op \in {"none", "camera"} /\ (r.op = "camera" => After(c).op = "camera" /\ After(c).live = r.live)
    BY <1>1, AfterIsFree DEF JobsInv
  <2>3. SameTaken(r, After(c)) /\ (Restoring(r) => Restoring(After(c)))
    BY <1>1, <2>2 DEF SameTaken, Taken, Restoring
  <2> QED BY <1>1, <2>1, <2>3, MovesOn
<1> QED BY <1>2, <1>3

LEMMA LaunchKeepsCamera == ASSUME JobsInv, CameraInv, NEW c \in Callers, Launch(c) PROVE CameraInv'
<1> DEFINE r == caller[c]
           s == [r EXCEPT !.tap = 0, !.at = "insert"]
<1>1. /\ r \in CallerRec /\ r.at = "launch" /\ r.op \in {"apply", "remove", "camera"}
      /\ caller \in [Callers -> CallerRec] /\ UNCHANGED <<camera, decoding, watchers, missed, jobs>>
      /\ caller' = [caller EXCEPT ![c] = s]
  BY DEF Launch, Become, JobsInv, JobTypes, InPlace, Flows, Own
<1>2. SameTaken(r, s) /\ (Restoring(r) => Restoring(s)) /\ (Seeing(r) => Seeing(s))
  BY <1>1 DEF CallerRec, SameTaken, Taken, Restoring, Seeing
<1> HIDE DEF s
<1> QED BY <1>1, <1>2, MovesOn

LEMMA InsertKeepsCamera == ASSUME JobsInv, CameraInv, NEW c \in Callers, Insert(c) PROVE CameraInv'
<1> DEFINE r == caller[c]
           s == After(c)
<1>1. /\ r \in CallerRec /\ r.at = "insert" /\ r.op \in {"apply", "remove", "camera"} /\ r.job \in Jobs
      /\ caller \in [Callers -> CallerRec] /\ UNCHANGED <<camera, decoding, watchers, missed>>
      /\ jobs \in [Jobs -> Workers \cup {0}] /\ jobs' = [jobs EXCEPT ![r.job] = r.worker] /\ r.worker # 0
      /\ caller' = [caller EXCEPT ![c] = s]
  BY DEF Insert, Become, JobsInv, JobTypes, InPlace, Flows, Own
<1>2. Used(camera, jobs')
  BY <1>1 DEF Used
<1>3. s.op \in {"none", "camera"} /\ (r.op = "camera" => s.op = "camera" /\ s.live = r.live)
  BY <1>1, AfterIsFree DEF JobsInv
<1> HIDE DEF s
<1>4. SameTaken(r, s) /\ (Restoring(r) => Restoring(s))
  BY <1>1, <1>3 DEF SameTaken, Taken, Restoring
<1>5. caller'[c] = s /\ \A d \in Callers : d # c => caller'[d] = caller[d]
  BY <1>1
<1>6. \A d \in Callers : SameTaken(caller[d], caller'[d])
  BY <1>4, <1>5 DEF SameTaken
<1>7. \A d \in Callers : Restoring(caller[d]) => Restoring(caller'[d])
  BY <1>4, <1>5
<1> QED BY <1>1, <1>2, <1>6, <1>7, CallersMove

LEMMA LookKeepsCamera == ASSUME JobsInv, CameraInv, NEW c \in Callers, Look(c) PROVE CameraInv'
<1> DEFINE r == caller[c]
<1>1. /\ r \in CallerRec /\ r.at = "look" /\ r.op = "camera" /\ ~ Seeing(r)
      /\ caller \in [Callers -> CallerRec] /\ UNCHANGED <<camera, decoding, watchers, missed, jobs>>
  BY DEF Look, JobsInv, JobTypes, InPlace, Flows, Own, Seeing
<1>2. PICK j \in caller[c].todo :
        LET left == [caller[c] EXCEPT !.todo = @ \ {j}]
        IN  IF jobs[j] # 0
            THEN Become(c, [left EXCEPT !.at = "take", !.job = j]) /\ Contest(c, {j})
            ELSE Become(c, [left EXCEPT !.at = IF left.todo = {} THEN "motion" ELSE "look"]) /\ UNCHANGED contested
  BY DEF Look
<1> DEFINE left == [caller[c] EXCEPT !.todo = @ \ {j}]
           place == IF left.todo = {} THEN "motion" ELSE "look"
           s == [left EXCEPT !.at = "take", !.job = j]
           u == [left EXCEPT !.at = place]
<1>3. left \in CallerRec /\ left.op = "camera" /\ left.live = r.live
  BY <1>1 DEF CallerRec
<1>4. caller' = [caller EXCEPT ![c] = s] \/ caller' = [caller EXCEPT ![c] = u]
  BY <1>2 DEF Become
<1> HIDE DEF left, place
<1>5. s.op = "camera" /\ s.live = r.live /\ u.op = "camera" /\ u.live = r.live
  BY <1>3 DEF CallerRec
<1> HIDE DEF s, u
<1>6. /\ SameTaken(r, s) /\ (Restoring(r) => Restoring(s))
      /\ SameTaken(r, u) /\ (Restoring(r) => Restoring(u))
  BY <1>1, <1>5 DEF SameTaken, Taken, Restoring
<1>7. CASE caller' = [caller EXCEPT ![c] = s]
  BY <1>1, <1>6, <1>7, MovesOn
<1>8. CASE caller' = [caller EXCEPT ![c] = u]
  BY <1>1, <1>6, <1>8, MovesOn
<1> QED BY <1>4, <1>7, <1>8

LEMMA AskKeepsCamera ==
  ASSUME JobsInv, CameraInv, NEW c \in Callers, NEW j \in Jobs, NEW op, AskJob(c, j, op) PROVE CameraInv'
<1> DEFINE s == [Idle EXCEPT !.at = "take", !.op = op, !.job = j]
<1>1. /\ caller[c].at = "idle" /\ caller[c].op = "none" /\ op \in {"apply", "remove"}
      /\ caller' = [caller EXCEPT ![c] = s] /\ caller \in [Callers -> CallerRec]
      /\ UNCHANGED <<camera, decoding, watchers, missed, jobs>>
  BY DEF AskJob, May, Become, JobsInv, JobTypes, InPlace, Flows
<1>2. s.op = op
  BY DEF Idle
<1> HIDE DEF s
<1>3. SameTaken(caller[c], s) /\ ~ Restoring(caller[c]) /\ ~ Seeing(caller[c])
  BY <1>1, <1>2 DEF SameTaken, Taken, Restoring, Seeing
<1> QED BY <1>1, <1>3, MovesOn

(* updateMotion(): afterwards the camera's decoder is used, and watched if *)
(* motion is wanted.                                                       *)
LEMMA Updating ==
  ASSUME NEW e, NEW dec, NEW wat, Wired(e, dec, wat), UpdateMotion(e, dec, wat)
  PROVE  /\ Wired(camera', decoding', watchers')
         /\ camera'.motion = e.motion /\ camera'.stream = e.stream /\ camera'.tap \in {e.tap, 0}
         /\ decoding' \subseteq dec /\ (camera'.tap = 0 => decoding' \subseteq dec \ {e.tap})
         /\ camera'.tap # 0 => Used(camera', jobs)
         /\ e.motion /\ e.tap # 0 => camera'.sink
<1>1. /\ e \in CameraRec /\ dec \subseteq Taps /\ wat \in [Taps -> 0 .. 1] /\ 0 \notin Taps
      /\ e.tap # 0 => e.tap \in dec /\ e.tap \in Taps
  <2>1. 0 \notin Taps
    BY DEF Taps
  <2> QED BY <2>1 DEF Wired
<1>2. CASE ~ (e.motion /\ e.tap \in dec)
  <2> DEFINE gone == [e EXCEPT !.sink = FALSE]
             left == Detach(e, wat)
  <2>1. ~ e.sink /\ (e.tap # 0 => ~ e.motion)
    BY <1>1, <1>2 DEF Wired
  <2>2. left = wat
    BY <2>1 DEF Detach
  <2>3. /\ gone \in CameraRec /\ gone.tap = e.tap /\ ~ gone.sink /\ gone.motion = e.motion /\ gone.here = e.here
        /\ gone.stream = e.stream
    BY <1>1 DEF CameraRec
  <2>4. CASE e.tap # 0 /\ ~ Used(e, jobs)
    <3> DEFINE f == [gone EXCEPT !.tap = 0]
    <3>1. camera' = f /\ decoding' = dec \ {e.tap} /\ watchers' = [left EXCEPT ![e.tap] = 0]
      BY <1>2, <2>4 DEF UpdateMotion
    <3> HIDE DEF gone, left
    <3>2. /\ f \in CameraRec /\ f.tap = 0 /\ ~ f.sink /\ f.motion = e.motion /\ f.here = e.here
          /\ f.stream = e.stream
      BY <2>3 DEF CameraRec
    <3> HIDE DEF f
    <3>3. watchers' \in [Taps -> 0 .. 1] /\ \A t \in Taps : watchers'[t] = IF t = e.tap THEN 0 ELSE wat[t]
      BY <1>1, <2>2, <2>4, <3>1
    <3>4. Wired(camera', decoding', watchers')
      BY <1>1, <3>1, <3>2, <3>3 DEF Wired
    <3> QED BY <2>1, <3>1, <3>2, <3>4
  <2>5. CASE ~ (e.tap # 0 /\ ~ Used(e, jobs))
    <3>1. camera' = gone /\ decoding' = dec /\ watchers' = left
      BY <1>2, <2>5 DEF UpdateMotion
    <3> HIDE DEF gone, left
    <3>2. Wired(camera', decoding', watchers')
      BY <1>1, <2>1, <2>2, <2>3, <3>1 DEF Wired
    <3>3. camera'.tap # 0 => Used(camera', jobs)
      BY <2>3, <2>5, <3>1 DEF Used
    <3> QED BY <1>1, <2>1, <2>3, <3>1, <3>2, <3>3
  <2> QED BY <2>4, <2>5
<1>3. CASE e.motion /\ e.tap \in dec /\ e.sink
  <2>1. camera' = e /\ decoding' = dec /\ watchers' = wat
    BY <1>3 DEF UpdateMotion
  <2> QED BY <1>1, <1>3, <2>1 DEF Used, Wired
<1>4. CASE e.motion /\ e.tap \in dec /\ ~ e.sink
  <2> DEFINE f == [e EXCEPT !.sink = TRUE]
  <2>1. camera' = f /\ decoding' = dec /\ watchers' = [wat EXCEPT ![e.tap] = @ + 1]
    BY <1>4 DEF UpdateMotion
  <2>2. /\ f \in CameraRec /\ f.tap = e.tap /\ f.sink /\ f.motion = e.motion /\ f.here = e.here
        /\ f.stream = e.stream
    BY <1>1 DEF CameraRec
  <2> HIDE DEF f
  <2>3. e.tap \in Taps /\ e.tap # 0 /\ wat[e.tap] = 0
    BY <1>1, <1>4 DEF Wired
  <2>4. watchers' \in [Taps -> 0 .. 1] /\ \A t \in Taps : watchers'[t] = IF t = e.tap THEN 1 ELSE wat[t]
    BY <1>1, <2>1, <2>3
  <2>5. Wired(camera', decoding', watchers')
    BY <1>1, <1>4, <2>1, <2>2, <2>3, <2>4 DEF Wired
  <2> QED BY <1>1, <1>4, <2>1, <2>2, <2>3, <2>5 DEF Used
<1> QED BY <1>2, <1>3, <1>4

(* A decoder from TapFor() is the camera's from then on.                   *)
LEMMA Given ==
  ASSUME NEW e, NEW wat, Wired(e, decoding, wat), NEW ok, NEW t \in TapFor(e, ok), t # 0
  PROVE  /\ Wired([e EXCEPT !.tap = t], decoding \cup {t}, wat)
         /\ t = e.tap \/ (t \notin UsedTaps /\ e.tap = 0)
<1>1. e \in CameraRec /\ decoding \subseteq Taps /\ wat \in [Taps -> 0 .. 1] /\ 0 \notin Taps
  BY DEF Wired, Taps
<1>2. /\ t \in Taps
      /\ \/ t = e.tap /\ t \in decoding
         \/ t \in Taps \ UsedTaps /\ e.tap \notin decoding /\ e.here
  BY <1>1, Found
<1> DEFINE f == [e EXCEPT !.tap = t]
<1>3. f \in CameraRec /\ f.tap = t /\ f.sink = e.sink /\ f.motion = e.motion /\ f.here = e.here
  BY <1>1, <1>2 DEF CameraRec
<1> HIDE DEF f
<1>4. CASE t = e.tap /\ t \in decoding
  <2>1. Wired(f, decoding \cup {t}, wat)
    BY <1>1, <1>2, <1>3, <1>4 DEF Wired
  <2> QED BY <1>4, <2>1 DEF f
<1>5. CASE t \in Taps \ UsedTaps /\ e.tap \notin decoding /\ e.here
  <2>1. t \notin decoding /\ e.tap = 0 /\ ~ e.sink /\ wat[t] = 0
    BY <1>5 DEF UsedTaps, Wired
  <2>2. Wired(f, decoding \cup {t}, wat)
    BY <1>1, <1>2, <1>3, <1>5, <2>1 DEF Wired
  <2> QED BY <1>5, <2>1, <2>2 DEF f
<1> QED BY <1>2, <1>4, <1>5

(* The motion detector's sink is taken off.                                *)
LEMMA Detaching ==
  ASSUME NEW e, NEW dec, NEW wat, Wired(e, dec, wat), NEW f \in CameraRec, f.here, f.tap = e.tap, ~ f.sink,
         NEW g, g.tap = e.tap, g.sink = e.sink
  PROVE  Wired(f, dec, Detach(g, wat))
<1>1. /\ e \in CameraRec /\ dec \subseteq Taps /\ wat \in [Taps -> 0 .. 1] /\ 0 \notin Taps
      /\ e.tap # 0 => e.tap \in dec /\ e.tap \in Taps
  <2>1. 0 \notin Taps
    BY DEF Taps
  <2> QED BY <2>1 DEF Wired
<1> DEFINE left == Detach(g, wat)
<1>2. CASE e.sink
  <2>1. e.tap # 0 /\ wat[e.tap] = 1
    BY <1>2 DEF Wired
  <2>2. left = [wat EXCEPT ![e.tap] = @ - 1]
    BY <1>2, <2>1 DEF Detach
  <2>3. left \in [Taps -> 0 .. 1] /\ \A t \in Taps : left[t] = IF t = e.tap THEN 0 ELSE wat[t]
    BY <1>1, <2>1, <2>2
  <2> HIDE DEF left
  <2>4. Wired(f, dec, left)
    BY <1>1, <2>1, <2>3 DEF Wired
  <2> QED BY <2>4 DEF left
<1>3. CASE ~ e.sink
  <2>1. left = wat
    BY <1>3 DEF Detach
  <2> HIDE DEF left
  <2>2. Wired(f, dec, left)
    BY <1>1, <1>3, <2>1 DEF Wired
  <2> QED BY <2>2 DEF left
<1> QED BY <1>2, <1>3

LEMMA Watching ==
  ASSUME missed \in BOOLEAN, NEW e, NEW wat, Wired(e, decoding, wat), e.motion, e.tap = camera.tap, NEW ok,
         WatchMotion(e, wat, ok)
  PROVE  /\ Wired(camera', decoding', watchers') /\ missed' \in BOOLEAN /\ camera'.stream = e.stream
         /\ decoding' \subseteq {camera'.tap} \cup (decoding \ {camera.tap})
         /\ camera'.tap \in {camera.tap, 0} \/ camera'.tap \notin UsedTaps
         /\ camera'.tap # 0 => Used(camera', jobs)
         /\ camera'.sink \/ missed' \/ camera'.stream = "none"
<1>1. PICK t \in TapFor(e, ok) :
        IF t = 0
        THEN camera' = e /\ UNCHANGED decoding /\ watchers' = wat /\ missed' = (missed \/ e.stream # "none")
        ELSE UpdateMotion([e EXCEPT !.tap = t], decoding \cup {t}, wat) /\ UNCHANGED missed
  BY DEF WatchMotion
<1>2. decoding \subseteq Taps /\ e \in CameraRec
  BY DEF Wired
<1>3. 0 \notin Taps
  BY DEF Taps
<1>4. CASE t = 0
  <2>1. e.tap \notin decoding
    BY <1>2, <1>3, <1>4, Found
  <2>2. camera' = e /\ decoding' = decoding /\ watchers' = wat
    BY <1>1, <1>4
  <2>3. missed' = (missed \/ e.stream # "none")
    BY <1>1, <1>4
  <2>4. missed' \in BOOLEAN /\ (missed' \/ e.stream = "none")
    BY <2>3
  <2>5. e.tap = 0
    BY <2>1 DEF Wired
  <2> QED BY <1>2, <1>3, <2>2, <2>4, <2>5 DEF Used
<1>5. CASE t # 0
  <2> DEFINE f == [e EXCEPT !.tap = t]
             dec == decoding \cup {t}
  <2>1. UpdateMotion(f, dec, wat) /\ UNCHANGED missed
    BY <1>1, <1>5
  <2>2. Wired(f, dec, wat) /\ (t = e.tap \/ (t \notin UsedTaps /\ e.tap = 0))
    BY <1>5, Given
  <2>3. f.tap = t /\ f.motion = e.motion /\ f.stream = e.stream
    BY <1>2 DEF CameraRec
  <2> HIDE DEF f
  <2>4. /\ Wired(camera', decoding', watchers')
        /\ camera'.motion = f.motion /\ camera'.stream = f.stream /\ camera'.tap \in {f.tap, 0}
        /\ decoding' \subseteq dec /\ (camera'.tap = 0 => decoding' \subseteq dec \ {f.tap})
        /\ camera'.tap # 0 => Used(camera', jobs)
        /\ f.motion /\ f.tap # 0 => camera'.sink
    <3> HIDE DEF dec
    <3> QED BY <2>1, <2>2, Updating
  <2>5. decoding' \subseteq {camera'.tap} \cup (decoding \ {camera.tap})
    BY <1>2, <1>3, <2>2, <2>3, <2>4
  <2>6. camera'.tap \in {camera.tap, 0} \/ camera'.tap \notin UsedTaps
    BY <2>2, <2>3, <2>4
  <2> QED BY <1>5, <2>1, <2>3, <2>4, <2>5, <2>6
<1> QED BY <1>4, <1>5

LEMMA CameraChanges ==
  ASSUME CameraInv, Wired(camera', decoding', watchers'), missed' \in BOOLEAN, UNCHANGED jobs,
         decoding' \subseteq {camera'.tap} \cup (decoding \ {camera.tap}),
         camera'.tap \in {camera.tap, 0} \/ camera'.tap \notin UsedTaps,
         \A d \in Callers : SameTaken(caller[d], caller'[d]),
         camera'.tap # 0 => Used(camera', jobs) \/ \E d \in Callers : Seeing(caller'[d]),
         MotionReturns'
  PROVE  CameraInv'
<1>1. \A c \in Callers : caller[c].tap \in UsedTaps
  BY DEF UsedTaps
<1>2. /\ \A c \in Callers : Taken(caller[c])' => Taken(caller[c]) /\ caller'[c].tap = caller[c].tap
      /\ TakenTaps \subseteq TakenTaps'
  <2>1. \A c \in Callers : Taken(caller[c])' => Taken(caller[c]) /\ caller'[c].tap = caller[c].tap
    BY DEF SameTaken, Taken
  <2>2. TakenTaps \subseteq TakenTaps'
    BY DEF TakenTaps, SameTaken
  <2> QED BY <2>1, <2>2
<1>3. DecodersAreKnown'
  <2>1. decoding' \subseteq {camera'.tap} \cup TakenTaps'
    BY <1>2 DEF CameraInv, DecodersAreKnown
  <2>2. ASSUME NEW c \in Callers, Taken(caller[c])', caller'[c].tap # 0 PROVE caller'[c].tap # camera'.tap
    <3>1. Taken(caller[c]) /\ caller'[c].tap = caller[c].tap
      BY <1>2, <2>2
    <3> QED BY <1>1, <2>2, <3>1 DEF CameraInv, DecodersAreKnown
  <2> QED BY <2>1, <2>2 DEF DecodersAreKnown
<1>4. DecoderIsUsed'
  <2>1. Used(camera', jobs) => Used(camera, jobs)'
    BY DEF Used
  <2>2. (\E d \in Callers : Seeing(caller'[d])) => \E d \in Callers : Seeing(caller[d])'
    BY DEF Seeing
  <2> QED BY <2>1, <2>2 DEF DecoderIsUsed
<1>5. Wired(camera, decoding, watchers)'
  BY DEF Wired
<1> QED BY <1>3, <1>4, <1>5 DEF CameraInv

LEMMA MotionKeepsCamera == ASSUME JobsInv, CameraInv, NEW c \in Callers, Motion(c) PROVE CameraInv'
<1> DEFINE r == caller[c]
<1>1. /\ r.at = "motion" /\ r.op = "camera" /\ caller' = [caller EXCEPT ![c] = Idle]
      /\ caller \in [Callers -> CallerRec] /\ UNCHANGED jobs
  BY DEF Motion, Become, JobsInv, JobTypes, InPlace, Flows
<1>2. /\ caller'[c] = Idle /\ \A d \in Callers : d # c => caller'[d] = caller[d]
  BY <1>1
<1>3. \A d \in Callers : SameTaken(caller[d], caller'[d])
  BY <1>1, <1>2, IdleStands DEF SameTaken, Taken
<1>4. CASE r.live /\ camera.here /\ camera.motion
  <2>1. PICK ok \in Outcomes : WatchMotion(camera, watchers, ok)
    BY <1>4 DEF Motion
  <2>2. missed \in BOOLEAN /\ Wired(camera, decoding, watchers)
    BY DEF CameraInv
  <2>3. /\ Wired(camera', decoding', watchers') /\ missed' \in BOOLEAN /\ camera'.stream = camera.stream
        /\ decoding' \subseteq {camera'.tap} \cup (decoding \ {camera.tap})
        /\ camera'.tap \in {camera.tap, 0} \/ camera'.tap \notin UsedTaps
        /\ camera'.tap # 0 => Used(camera', jobs)
        /\ camera'.sink \/ missed' \/ camera'.stream = "none"
    BY <1>4, <2>1, <2>2, Watching
  <2>4. MotionReturns'
    BY <2>3 DEF MotionReturns
  <2> QED BY <1>1, <1>3, <2>3, <2>4, CameraChanges
<1>5. CASE ~ (r.live /\ camera.here /\ camera.motion)
  <2>1. UNCHANGED <<camera, decoding, watchers, missed>>
    BY <1>5 DEF Motion
  <2>2. camera.motion => camera.here
    BY DEF CameraInv, Wired
  <2>3. MotionReturns'
    <3> SUFFICES ASSUME camera.motion, camera.stream # "none", ~ missed, ~ camera.sink
                 PROVE  \E d \in Callers : Restoring(caller'[d])
      BY <2>1 DEF MotionReturns, Restoring
    <3>1. PICK d \in Callers : Restoring(caller[d])
      BY DEF CameraInv, MotionReturns
    <3>2. d # c
      BY <1>5, <2>2, <3>1 DEF Restoring
    <3> QED BY <1>2, <3>1, <3>2
  <2>4. \A d \in Callers : Seeing(caller[d]) => Seeing(caller'[d])
    BY <1>1, <1>2 DEF Seeing
  <2>5. camera.tap # 0 => Used(camera, jobs) \/ \E d \in Callers : Seeing(caller'[d])
    BY <2>4 DEF CameraInv, DecoderIsUsed
  <2>6. Wired(camera', decoding', watchers') /\ missed' \in BOOLEAN
    BY <2>1 DEF CameraInv
  <2>7. decoding' \subseteq {camera'.tap} \cup (decoding \ {camera.tap})
    BY <2>1
  <2> QED BY <1>1, <1>3, <2>1, <2>3, <2>5, <2>6, <2>7, CameraChanges
<1> QED BY <1>4, <1>5

LEMMA ApplyKeepsCamera ==
  ASSUME JobsInv, CameraInv, NEW c \in Callers, NEW motion \in BOOLEAN, NEW regrid \in BOOLEAN,
         NEW stream \in Feeds \cup {"none"}, ApplyCamera(c, motion, stream, regrid)
  PROVE  CameraInv'
<1> DEFINE row == [here |-> TRUE, motion |-> motion, stream |-> stream, tap |-> 0, sink |-> FALSE]
<1>1. /\ caller[c].at = "idle" /\ caller[c].op = "none" /\ caller \in [Callers -> CallerRec] /\ UNCHANGED jobs
      /\ missed \in BOOLEAN /\ Wired(camera, decoding, watchers)
  BY DEF ApplyCamera, May, JobsInv, JobTypes, InPlace, Flows, CameraInv
<1>2. camera \in CameraRec /\ decoding \subseteq Taps /\ watchers \in [Taps -> 0 .. 1]
  BY <1>1 DEF Wired
<1>3. row \in CameraRec /\ row.motion = motion /\ row.stream = stream /\ row.here /\ row.tap = 0 /\ ~ row.sink
  BY DEF CameraRec
<1>4. 0 \notin Taps
  BY DEF Taps
<1>5. CASE camera.here /\ camera.stream = stream
  <2>1. PICK ok \in Outcomes : Unchanged(row, regrid, ok)
    BY <1>5 DEF ApplyCamera
  <2> HIDE DEF row
  <2>2. UNCHANGED caller
    BY <1>5 DEF ApplyCamera
  <2>3. \A d \in Callers : SameTaken(caller[d], caller'[d])
    BY <2>2 DEF SameTaken
  <2> DEFINE e == [camera EXCEPT !.motion = row.motion]
             detached == [e EXCEPT !.sink = FALSE]
             left == Detach(e, watchers)
  <2>4. /\ e \in CameraRec /\ e.motion = motion /\ e.tap = camera.tap /\ e.sink = camera.sink
        /\ e.stream = stream /\ e.here
    BY <1>2, <1>3, <1>5 DEF CameraRec
  <2>5. /\ detached \in CameraRec /\ detached.motion = motion /\ detached.tap = camera.tap /\ ~ detached.sink
        /\ detached.stream = stream /\ detached.here
    <3> HIDE DEF e
    <3> QED BY <2>4 DEF CameraRec
  <2>6. \/ /\ row.motion = camera.motion
           /\ \/ row.motion /\ WatchMotion(e, watchers, ok)
              \/ camera' = e /\ UNCHANGED <<decoding, watchers, missed>>
                 /\ ~ (row.motion /\ e.tap = 0 /\ row.stream # "none")
        \/ row.motion /\ WatchMotion(detached, left, ok)
        \/ /\ UpdateMotion(detached, decoding, left) /\ UNCHANGED missed
           /\ ~ (row.motion /\ e.tap = 0 /\ row.stream # "none")
    BY <2>1 DEF Unchanged
  <2> HIDE DEF e, detached, left
  <2>7. Wired(detached, decoding, left)
    BY <1>1, <2>4, <2>5, Detaching DEF left
  <2>8. ASSUME row.motion, WatchMotion(e, watchers, ok), row.motion = camera.motion PROVE CameraInv'
    <3>1. Wired(e, decoding, watchers)
      BY <1>1, <1>3, <2>4, <2>8 DEF Wired
    <3>2. /\ Wired(camera', decoding', watchers') /\ missed' \in BOOLEAN /\ camera'.stream = e.stream
          /\ decoding' \subseteq {camera'.tap} \cup (decoding \ {camera.tap})
          /\ camera'.tap \in {camera.tap, 0} \/ camera'.tap \notin UsedTaps
          /\ camera'.tap # 0 => Used(camera', jobs)
          /\ camera'.sink \/ missed' \/ camera'.stream = "none"
      BY <1>1, <1>3, <2>4, <2>8, <3>1, Watching
    <3>3. MotionReturns'
      BY <3>2 DEF MotionReturns
    <3> QED BY <1>1, <2>3, <3>2, <3>3, CameraChanges
  <2>9. ASSUME camera' = e, UNCHANGED <<decoding, watchers, missed>>, row.motion = camera.motion
        PROVE  CameraInv'
    <3>1. Wired(camera', decoding', watchers') /\ missed' \in BOOLEAN
      BY <1>1, <1>3, <2>4, <2>9 DEF Wired
    <3>2. MotionReturns'
      BY <1>3, <1>5, <2>2, <2>4, <2>9 DEF CameraInv, MotionReturns, Restoring
    <3>3. camera'.tap # 0 => Used(camera', jobs) \/ \E d \in Callers : Seeing(caller'[d])
      BY <1>3, <2>2, <2>4, <2>9 DEF CameraInv, DecoderIsUsed, Used
    <3>4. decoding' \subseteq {camera'.tap} \cup (decoding \ {camera.tap}) /\ camera'.tap = camera.tap
      BY <2>4, <2>9
    <3> QED BY <1>1, <2>3, <3>1, <3>2, <3>3, <3>4, CameraChanges
  <2>10. ASSUME row.motion, WatchMotion(detached, left, ok) PROVE CameraInv'
    <3>1. /\ Wired(camera', decoding', watchers') /\ missed' \in BOOLEAN /\ camera'.stream = detached.stream
          /\ decoding' \subseteq {camera'.tap} \cup (decoding \ {camera.tap})
          /\ camera'.tap \in {camera.tap, 0} \/ camera'.tap \notin UsedTaps
          /\ camera'.tap # 0 => Used(camera', jobs)
          /\ camera'.sink \/ missed' \/ camera'.stream = "none"
      BY <1>1, <1>3, <2>5, <2>7, <2>10, Watching
    <3>2. MotionReturns'
      BY <3>1 DEF MotionReturns
    <3> QED BY <1>1, <2>3, <3>1, <3>2, CameraChanges
  <2>11. ASSUME UpdateMotion(detached, decoding, left), UNCHANGED missed,
                ~ (row.motion /\ e.tap = 0 /\ row.stream # "none")
         PROVE  CameraInv'
    <3>1. /\ Wired(camera', decoding', watchers')
          /\ camera'.motion = detached.motion /\ camera'.stream = detached.stream
          /\ camera'.tap \in {detached.tap, 0} /\ decoding' \subseteq decoding
          /\ camera'.tap = 0 => decoding' \subseteq decoding \ {detached.tap}
          /\ camera'.tap # 0 => Used(camera', jobs)
          /\ detached.motion /\ detached.tap # 0 => camera'.sink
      BY <2>7, <2>11, Updating
    <3>2. MotionReturns'
      BY <1>3, <2>4, <2>5, <2>11, <3>1 DEF MotionReturns
    <3>3. /\ decoding' \subseteq {camera'.tap} \cup (decoding \ {camera.tap}) /\ camera'.tap \in {camera.tap, 0}
          /\ missed' \in BOOLEAN
      BY <1>1, <2>5, <2>11, <3>1
    <3> QED BY <1>1, <2>3, <3>1, <3>2, <3>3, CameraChanges
  <2> QED BY <2>6, <2>8, <2>9, <2>10, <2>11
<1>6. CASE ~ (camera.here /\ camera.stream = stream)
  <2> DEFINE affected == {j \in Jobs : jobs[j] # 0}
             place == IF affected = {} THEN "motion" ELSE "look"
             live == stream # "none"
             s == [Idle EXCEPT !.op = "camera", !.live = live, !.todo = affected, !.at = place]
  <2>1. /\ camera' = row /\ decoding' = decoding \ {camera.tap} /\ UNCHANGED missed
        /\ watchers' = [u \in Taps |-> IF u = camera.tap THEN 0 ELSE watchers[u]]
        /\ caller' = [caller EXCEPT ![c] = s]
    BY <1>6 DEF ApplyCamera, Fresh, Dropped, Become
  <2> HIDE DEF row, affected, place
  <2>2. s.op = "camera" /\ (s.live <=> stream # "none")
    BY DEF Idle
  <2> HIDE DEF s
  <2>3. /\ caller'[c] = s /\ \A d \in Callers : d # c => caller'[d] = caller[d]
    BY <1>1, <2>1
  <2>4. \A d \in Callers : SameTaken(caller[d], caller'[d])
    BY <1>1, <2>2, <2>3 DEF SameTaken, Taken
  <2>5. Wired(camera', decoding', watchers')
    <3>1. watchers' \in [Taps -> 0 .. 1] /\ \A t \in Taps \ decoding' : watchers'[t] = 0
      BY <1>1, <1>2, <2>1 DEF Wired
    <3> QED BY <1>2, <1>3, <2>1, <3>1 DEF Wired
  <2>6. MotionReturns'
    <3>1. camera'.stream # "none" => Restoring(caller'[c])
      BY <1>3, <2>1, <2>2, <2>3 DEF Restoring
    <3> QED BY <3>1 DEF MotionReturns, Restoring
  <2>7. /\ camera'.tap = 0 /\ decoding' \subseteq {camera'.tap} \cup (decoding \ {camera.tap})
        /\ missed' \in BOOLEAN
    BY <1>1, <1>3, <2>1
  <2> QED BY <1>1, <2>4, <2>5, <2>6, <2>7, CameraChanges
<1> QED BY <1>5, <1>6

LEMMA RetireKeepsCamera == ASSUME JobsInv, CameraInv, NEW c \in Callers, Retire(c) PROVE CameraInv'
<1> DEFINE r == caller[c]
           s == caller'[c]
<1>1. /\ r \in CallerRec /\ r.at = "retire" /\ r.op \in {"apply", "remove", "camera"}
      /\ caller \in [Callers -> CallerRec] /\ UNCHANGED <<jobs, missed>> /\ RetireTapIfUnused(camera)
      /\ missed \in BOOLEAN /\ Wired(camera, decoding, watchers)
  BY DEF Retire, JobsInv, JobTypes, InPlace, Flows, Own, CameraInv
<1>2. /\ camera \in CameraRec /\ decoding \subseteq Taps /\ watchers \in [Taps -> 0 .. 1]
      /\ camera.tap # 0 => camera.tap \in Taps
  BY <1>1 DEF Wired
<1>3. 0 \notin Taps
  BY DEF Taps
<1>4. /\ SameTaken(r, s) /\ (Restoring(r) => Restoring(s))
      /\ \A d \in Callers : d # c => caller'[d] = caller[d]
  <2>1. CASE r.op = "remove"
    <3>1. caller' = [caller EXCEPT ![c] = After(c)]
      BY <2>1 DEF Retire, Become
    <3>2. After(c).op \in {"none", "camera"}
      BY <1>1, AfterIsFree DEF JobsInv
    <3> QED BY <1>1, <2>1, <3>1, <3>2 DEF SameTaken, Taken, Restoring
  <2>2. CASE r.op # "remove"
    <3> DEFINE u == [r EXCEPT !.at = "build"]
    <3>1. caller' = [caller EXCEPT ![c] = u]
      BY <2>2 DEF Retire, Go, Become
    <3>2. u.op = r.op /\ u.live = r.live
      BY <1>1 DEF CallerRec
    <3> HIDE DEF u
    <3> QED BY <1>1, <3>1, <3>2 DEF SameTaken, Taken, Restoring
  <2> QED BY <2>1, <2>2
<1> HIDE DEF s
<1>5. \A d \in Callers : SameTaken(caller[d], caller'[d])
  BY <1>4 DEF SameTaken, s
<1>6. \A d \in Callers : Restoring(caller[d]) => Restoring(caller'[d])
  BY <1>4 DEF s
<1>7. CASE camera.tap # 0 /\ ~ Used(camera, jobs)
  <2> DEFINE e == [camera EXCEPT !.tap = 0]
  <2>1. camera' = e /\ decoding' = decoding \ {camera.tap} /\ watchers' = [watchers EXCEPT ![camera.tap] = 0]
    BY <1>1, <1>7 DEF RetireTapIfUnused, StopTap
  <2>2. /\ e \in CameraRec /\ e.tap = 0 /\ e.motion = camera.motion /\ e.sink = camera.sink /\ e.here = camera.here
        /\ e.stream = camera.stream
    BY <1>2 DEF CameraRec
  <2> HIDE DEF e
  <2>3. ~ camera.motion /\ ~ camera.sink
    BY <1>1, <1>7 DEF Used, Wired
  <2>4. watchers' \in [Taps -> 0 .. 1] /\ \A t \in Taps : watchers'[t] = IF t = camera.tap THEN 0 ELSE watchers[t]
    BY <1>2, <1>7, <2>1
  <2>5. Wired(camera', decoding', watchers')
    BY <1>1, <1>2, <2>1, <2>2, <2>3, <2>4 DEF Wired
  <2>6. MotionReturns'
    BY <2>1, <2>2, <2>3 DEF MotionReturns
  <2>7. camera'.tap = 0 /\ decoding' \subseteq {camera'.tap} \cup (decoding \ {camera.tap}) /\ missed' \in BOOLEAN
    BY <1>1, <2>1, <2>2
  <2> QED BY <1>1, <1>5, <2>5, <2>6, <2>7, CameraChanges
<1>8. CASE ~ (camera.tap # 0 /\ ~ Used(camera, jobs))
  <2>1. camera' = camera /\ UNCHANGED <<decoding, watchers>>
    BY <1>1, <1>8 DEF RetireTapIfUnused
  <2>2. MotionReturns'
    BY <1>1, <1>6, <2>1 DEF CameraInv, MotionReturns, Restoring
  <2>3. camera'.tap # 0 => Used(camera', jobs)
    BY <1>8, <2>1
  <2>4. /\ Wired(camera', decoding', watchers') /\ missed' \in BOOLEAN
        /\ decoding' \subseteq {camera'.tap} \cup (decoding \ {camera.tap})
        /\ camera'.tap = camera.tap
    BY <1>1, <2>1
  <2> QED BY <1>1, <1>5, <2>2, <2>3, <2>4, CameraChanges
<1> QED BY <1>7, <1>8

LEMMA GetTapKeepsCamera == ASSUME JobsInv, CameraInv, NEW c \in Callers, GetTap(c) PROVE CameraInv'
<1> DEFINE r == caller[c]
<1>1. /\ r \in CallerRec /\ r.at = "tap" /\ r.op \in {"apply", "remove", "camera"} /\ ~ Seeing(r)
      /\ caller \in [Callers -> CallerRec] /\ UNCHANGED <<jobs, watchers>>
      /\ missed \in BOOLEAN /\ Wired(camera, decoding, watchers)
  BY DEF GetTap, JobsInv, JobTypes, InPlace, Flows, Own, CameraInv, Seeing
<1>2. PICK ok \in Outcomes : \E t \in TapFor(camera, ok) :
        /\ Become(c, [caller[c] EXCEPT !.tap = t, !.at = IF t = 0 THEN "insert" ELSE "launch"])
        /\ IF t = 0 THEN UNCHANGED <<camera, decoding>>
           ELSE camera' = [camera EXCEPT !.tap = t] /\ decoding' = decoding \cup {t}
        /\ missed' = (missed \/ (t = 0 /\ camera.stream # "none"))
  BY DEF GetTap
<1>3. PICK t \in TapFor(camera, ok) :
        /\ Become(c, [caller[c] EXCEPT !.tap = t, !.at = IF t = 0 THEN "insert" ELSE "launch"])
        /\ IF t = 0 THEN UNCHANGED <<camera, decoding>>
           ELSE camera' = [camera EXCEPT !.tap = t] /\ decoding' = decoding \cup {t}
        /\ missed' = (missed \/ (t = 0 /\ camera.stream # "none"))
  BY <1>2
<1> DEFINE place == IF t = 0 THEN "insert" ELSE "launch"
           s == [caller[c] EXCEPT !.tap = t, !.at = place]
<1>4. caller' = [caller EXCEPT ![c] = s]
  BY <1>3 DEF Become
<1>5. place \in {"insert", "launch"}
  OBVIOUS
<1> HIDE DEF place
<1>6. s.op = r.op /\ s.live = r.live /\ s.at = place
  BY <1>1 DEF CallerRec
<1> HIDE DEF s
<1>7. caller'[c] = s /\ \A d \in Callers : d # c => caller'[d] = caller[d]
  BY <1>1, <1>4
<1>8. \A d \in Callers : SameTaken(caller[d], caller'[d])
  BY <1>1, <1>6, <1>7 DEF SameTaken, Taken
<1>9. \A d \in Callers : Restoring(caller[d]) => Restoring(caller'[d])
  BY <1>6, <1>7 DEF Restoring
<1>10. Seeing(s)
  BY <1>1, <1>5, <1>6 DEF Seeing
<1>11. missed' \in BOOLEAN /\ (missed => missed')
  BY <1>1, <1>3
<1>12. CASE t = 0
  <2>1. UNCHANGED <<camera, decoding>>
    BY <1>3, <1>12
  <2>2. MotionReturns'
    BY <1>9, <1>11, <2>1 DEF CameraInv, MotionReturns, Restoring
  <2>3. /\ Wired(camera', decoding', watchers')
        /\ decoding' \subseteq {camera'.tap} \cup (decoding \ {camera.tap})
        /\ camera'.tap = camera.tap
    BY <1>1, <2>1
  <2>4. \E d \in Callers : Seeing(caller'[d])
    BY <1>7, <1>10
  <2> QED BY <1>1, <1>8, <1>11, <2>2, <2>3, <2>4, CameraChanges
<1>13. CASE t # 0
  <2> DEFINE e == [camera EXCEPT !.tap = t]
  <2>1. camera' = e /\ decoding' = decoding \cup {t}
    BY <1>3, <1>13
  <2>2. Wired(e, decoding \cup {t}, watchers) /\ (t = camera.tap \/ (t \notin UsedTaps /\ camera.tap = 0))
    BY <1>1, <1>13, Given
  <2>3. e.tap = t /\ e.motion = camera.motion /\ e.stream = camera.stream /\ e.sink = camera.sink
    BY <1>1 DEF Wired, CameraRec
  <2> HIDE DEF e
  <2>4. MotionReturns'
    BY <1>9, <1>11, <2>1, <2>3 DEF CameraInv, MotionReturns, Restoring
  <2>5. \E d \in Callers : Seeing(caller'[d])
    BY <1>7, <1>10
  <2>6. 0 \notin Taps /\ decoding \subseteq Taps
    <3>1. 0 \notin Taps
      BY DEF Taps
    <3> QED BY <1>1, <3>1 DEF Wired
  <2>7. decoding' \subseteq {camera'.tap} \cup (decoding \ {camera.tap})
    BY <2>1, <2>2, <2>3, <2>6
  <2>8. Wired(camera', decoding', watchers') /\ (camera'.tap \in {camera.tap, 0} \/ camera'.tap \notin UsedTaps)
    BY <1>1, <2>1, <2>2, <2>3
  <2> QED BY <1>1, <1>8, <1>11, <2>4, <2>5, <2>7, <2>8, CameraChanges
<1> QED BY <1>12, <1>13

(* The camera is taken with its decoder, by one thread.                    *)
LEMMA TakeAllKeepsCamera ==
  ASSUME JobsInv, CameraInv, NEW c \in Callers, caller[c].at = "idle", TakeAll(c), Wired(Absent, decoding, watchers')
  PROVE  CameraInv'
<1> DEFINE place == IF Held = {} THEN "stopTap" ELSE "shut"
           s == [Idle EXCEPT !.op = "all", !.orphans = Held, !.tap = camera.tap, !.at = place]
<1>1. /\ caller' = [caller EXCEPT ![c] = s] /\ caller \in [Callers -> CallerRec] /\ camera' = Absent
      /\ UNCHANGED <<decoding, missed>> /\ caller[c].op = "none"
  BY DEF TakeAll, Become, JobsInv, JobTypes, InPlace, Flows
<1>2. s.op = "all" /\ s.tap = camera.tap
  BY DEF Idle
<1> HIDE DEF s
<1>3. caller'[c] = s /\ \A d \in Callers : d # c => caller'[d] = caller[d]
  BY <1>1
<1>4. Absent.tap = 0 /\ ~ Absent.motion
  BY DEF Absent
<1>5. 0 \notin Taps /\ decoding \subseteq Taps
  <2>1. 0 \notin Taps
    BY DEF Taps
  <2> QED BY <2>1 DEF CameraInv, Wired
<1>6. {camera.tap} \cup TakenTaps \subseteq TakenTaps'
  BY <1>1, <1>2, <1>3 DEF TakenTaps, Taken
<1>7. DecodersAreKnown'
  BY <1>1, <1>4, <1>6 DEF CameraInv, DecodersAreKnown
<1>8. DecoderIsUsed' /\ MotionReturns'
  BY <1>1, <1>4 DEF DecoderIsUsed, MotionReturns
<1> QED BY <1>1, <1>7, <1>8 DEF CameraInv, Wired

LEMMA RemoveKeepsCamera ==
  ASSUME JobsInv, CameraInv, NEW c \in Callers, RemoveCamera(c) \/ Stop(c) PROVE CameraInv'
<1>1. caller[c].at = "idle" /\ TakeAll(c) /\ (watchers' = Detach(camera, watchers) \/ watchers' = watchers)
  BY DEF RemoveCamera, Stop, May
<1>2. Wired(camera, decoding, watchers)
  BY DEF CameraInv
<1>3. camera \in CameraRec
  BY <1>2 DEF Wired
<1> DEFINE f == [camera EXCEPT !.here = TRUE, !.sink = FALSE]
<1>4. f \in CameraRec /\ f.here /\ f.tap = camera.tap /\ ~ f.sink
  BY <1>3 DEF CameraRec
<1> HIDE DEF f
<1>5. Wired(f, decoding, Detach(camera, watchers))
  BY <1>2, <1>4, Detaching
<1>6. Absent \in CameraRec /\ Absent.tap = 0 /\ ~ Absent.motion /\ ~ Absent.sink
  BY DEF Absent, CameraRec
<1>7. Wired(Absent, decoding, watchers')
  <2> HIDE DEF Detach, Absent
  <2>1. CASE watchers' = Detach(camera, watchers)
    BY <1>5, <1>6, <2>1 DEF Wired
  <2>2. CASE watchers' = watchers
    BY <1>2, <1>6, <2>2 DEF Wired
  <2> QED BY <1>1, <2>1, <2>2
<1> QED BY <1>1, <1>7, TakeAllKeepsCamera

LEMMA StopTakenKeepsCamera == ASSUME JobsInv, CameraInv, NEW c \in Callers, StopTaken(c) PROVE CameraInv'
<1> DEFINE t == caller[c].tap
<1>1. /\ caller[c].at = "stopTap" /\ caller[c].op = "all" /\ caller \in [Callers -> CallerRec]
      /\ caller' = [caller EXCEPT ![c] = Idle] /\ UNCHANGED <<camera, jobs, missed>>
      /\ decoding' = decoding \ {t} /\ watchers' = [u \in Taps |-> IF u = t THEN 0 ELSE watchers[u]]
  BY DEF StopTaken, Dropped, Become, JobsInv, JobTypes, InPlace, Flows
<1>2. caller'[c] = Idle /\ \A d \in Callers : d # c => caller'[d] = caller[d]
  BY <1>1
<1>3. t # 0 => t # camera.tap
  BY <1>1 DEF CameraInv, DecodersAreKnown, Taken
<1>4. /\ camera \in CameraRec /\ decoding \subseteq Taps /\ watchers \in [Taps -> 0 .. 1]
      /\ Wired(camera, decoding, watchers)
  BY DEF CameraInv, Wired
<1>5. Wired(camera, decoding, watchers)'
  <2>1. watchers' \in [Taps -> 0 .. 1] /\ \A u \in Taps : watchers'[u] = IF u = t THEN 0 ELSE watchers[u]
    BY <1>1, <1>4
  <2> HIDE DEF t
  <2> QED BY <1>1, <1>3, <1>4, <2>1 DEF Wired
<1>6. TakenTaps \subseteq TakenTaps' \cup {t}
  BY <1>2 DEF TakenTaps
<1>7. \A d \in Callers : Taken(caller[d])' => d # c /\ Taken(caller[d]) /\ caller'[d] = caller[d]
  BY <1>2, IdleStands DEF Taken
<1>8. DecodersAreKnown'
  BY <1>1, <1>6, <1>7 DEF CameraInv, DecodersAreKnown
<1>9. DecoderIsUsed'
  BY <1>1, <1>2 DEF CameraInv, DecoderIsUsed, Used, Seeing
<1>10. MotionReturns'
  BY <1>1, <1>2 DEF CameraInv, MotionReturns, Restoring
<1> QED BY <1>1, <1>5, <1>8, <1>9, <1>10 DEF CameraInv

LEMMA CameraKept == ASSUME JobsInv, CameraInv, [AiNext]_aiVars PROVE CameraInv'
<1>1. ASSUME NEW c \in Callers, NEW j \in Jobs, AskJob(c, j, "apply") \/ AskJob(c, j, "remove") PROVE CameraInv'
  BY <1>1, AskKeepsCamera
<1>2. ASSUME NEW c \in Callers, NEW motion \in BOOLEAN, NEW regrid \in BOOLEAN, NEW stream \in Feeds \cup {"none"},
             ApplyCamera(c, motion, stream, regrid)
      PROVE  CameraInv'
  BY <1>2, ApplyKeepsCamera
<1>3. ASSUME NEW c \in Callers, RemoveCamera(c) \/ Stop(c) PROVE CameraInv'
  BY <1>3, RemoveKeepsCamera
<1>4. ASSUME NEW c \in Callers, Step(c) PROVE CameraInv'
  BY <1>4, TakeKeepsCamera, ShutDownKeepsCamera, JoinKeepsCamera, RetireKeepsCamera, BuildKeepsCamera,
     GetTapKeepsCamera, LaunchKeepsCamera, InsertKeepsCamera, LookKeepsCamera, MotionKeepsCamera,
     StopTakenKeepsCamera DEF Step
<1>5. ASSUME UNCHANGED <<camera, decoding, watchers, missed, caller, jobs>> PROVE CameraInv'
  BY <1>5 DEF CameraInv, Wired, DecodersAreKnown, TakenTaps, Taken, DecoderIsUsed, Used, Seeing, MotionReturns, Restoring
<1>6. ASSUME NEW w \in Workers, Offer(w) \/ Analyse(w) \/ Analysed(w) \/ End(w) PROVE CameraInv'
  <2>1. UNCHANGED <<camera, decoding, watchers, missed, caller, jobs>>
    BY <1>6 DEF Offer, Analyse, Analysed, End, Rest
  <2> QED BY <1>5, <2>1
<1>7. CASE UNCHANGED aiVars
  <2>1. UNCHANGED <<camera, decoding, watchers, missed, caller, jobs>>
    BY <1>7 DEF aiVars
  <2> QED BY <1>5, <2>1
<1> QED BY <1>1, <1>2, <1>3, <1>4, <1>6, <1>7 DEF AiNext

AiInv == JobsInv /\ CameraInv /\ running \in BOOLEAN

LEMMA AiInductive == AiSpec => []AiInv
<1>1. AiInit => AiInv
  <2>1. AiInit => running \in BOOLEAN
    BY DEF AiInit
  <2> QED BY <2>1, AiInitJobs, AiInitCamera DEF AiInv
<1>2. AiInv /\ [AiNext]_aiVars => AiInv'
  <2> SUFFICES ASSUME AiInv, [AiNext]_aiVars PROVE AiInv'
    OBVIOUS
  <2>1. JobsInv /\ CameraInv /\ running \in BOOLEAN
    BY DEF AiInv
  <2>2. camera.tap \in Taps \cup {0} /\ decoding \subseteq Taps
    BY <2>1 DEF CameraInv, Wired, CameraRec
  <2>3. JobsInv'
    BY <2>1, <2>2, JobsKept
  <2>4. CameraInv'
    BY <2>1, CameraKept
  <2>5. running' \in BOOLEAN
    <3>1. ASSUME NEW c \in Callers, Step(c) PROVE running' = running
      BY <3>1 DEF Step, Take, ShutDown, Join, Retire, Build, GetTap, Launch, Insert, Look, Motion, StopTaken
    <3>2. ASSUME NEW w \in Workers, Offer(w) \/ Analyse(w) \/ Analysed(w) \/ End(w) PROVE running' = running
      BY <3>2 DEF Offer, Analyse, Analysed, End, Rest
    <3>3. ASSUME NEW c \in Callers, NEW j \in Jobs, AskJob(c, j, "apply") \/ AskJob(c, j, "remove")
          PROVE  running' = running
      BY <3>3 DEF AskJob
    <3>4. ASSUME NEW c \in Callers, NEW motion, NEW regrid, NEW stream,
                 ApplyCamera(c, motion, stream, regrid)
          PROVE  running' = running
      BY <3>4 DEF ApplyCamera
    <3>5. ASSUME NEW c \in Callers, RemoveCamera(c) \/ Stop(c) PROVE running' \in {running, FALSE}
      BY <3>5 DEF RemoveCamera, Stop
    <3> QED BY <2>1, <3>1, <3>2, <3>3, <3>4, <3>5 DEF AiNext, aiVars
  <2> QED BY <2>3, <2>4, <2>5 DEF AiInv
<1> QED BY <1>1, <1>2, PTL DEF AiSpec

(* Types, of what AiRuntime keeps and of what each call has in hand; with  *)
(* them, a decoder has at most one motion sink, whatever calls cross.      *)
THEOREM RuntimeTypeCorrect == AiSpec => []AiTypeOK
<1>1. AiInv => AiTypeOK
  <2> SUFFICES ASSUME AiInv PROVE AiTypeOK
    OBVIOUS
  <2>1. /\ camera \in CameraRec /\ decoding \subseteq Taps /\ watchers \in [Taps -> 0 .. 1]
        /\ missed \in BOOLEAN /\ running \in BOOLEAN
    BY DEF AiInv, CameraInv, Wired
  <2>2. /\ caller \in [Callers -> CallerRec] /\ jobs \in [Jobs -> Workers \cup {0}]
        /\ worker \in [Workers -> WorkerRec] /\ contested \subseteq Jobs
    BY DEF AiInv, JobsInv, JobTypes
  <2>3. \A c \in Callers : /\ caller[c].worker \in Workers \cup {0} /\ caller[c].tap \in Taps \cup {0}
                           /\ caller[c].orphans \subseteq Workers /\ caller[c].todo \subseteq Jobs
    <3>1. \A c \in Callers : caller[c] \in CallerRec
      BY <2>2
    <3> QED BY <3>1 DEF CallerRec
  <2> QED BY <2>1, <2>2, <2>3 DEF AiTypeOK, CameraRec, WorkerRec
<1> QED BY <1>1, AiInductive, PTL

LEMMA AtMostOne == ASSUME NEW S, \A x, y \in S : x = y PROVE Cardinality(S) <= 1
<1>1. CASE S = {}
  <2>1. Cardinality(S) = 0
    BY <1>1, FS_EmptySet
  <2> QED BY <2>1
<1>2. CASE S # {}
  <2>1. PICK x : S = {x}
    BY <1>2
  <2>2. Cardinality(S) = 1
    BY <2>1, FS_Singleton
  <2> QED BY <2>2
<1> QED BY <1>1, <1>2

(* One decoder for the camera beside those that a call is about to stop;   *)
(* and none is left running for nobody.                                    *)
THEOREM RuntimeDecodesOnceForSomebody == AiSpec => []DecodedOnceForSomebody
<1>1. AiInv => DecodedOnceForSomebody
  <2> SUFFICES ASSUME AiInv PROVE DecodedOnceForSomebody
    OBVIOUS
  <2> DEFINE taken == {caller[c].tap : c \in {d \in Callers : caller[d].op = "all"}}
  <2>1. TakenTaps = taken
    BY DEF TakenTaps, Taken
  <2>2. decoding \ taken \subseteq {camera.tap}
    BY <2>1 DEF AiInv, CameraInv, DecodersAreKnown
  <2>3. Cardinality(decoding \ taken) <= 1
    <3> HIDE DEF taken
    <3>1. \A x, y \in decoding \ taken : x = y
      BY <2>2
    <3> QED BY <3>1, AtMostOne
  <2>4. NoDecoderForNobody
    <3> SUFFICES ASSUME Quiet, NEW t \in decoding
                 PROVE  camera.tap = t /\ (camera.motion \/ \E j \in Jobs : jobs[j] # 0)
      BY DEF NoDecoderForNobody
    <3>1. \A c \in Callers : caller[c].at = "idle" /\ caller[c].op = "none"
      BY DEF Quiet, AiInv, JobsInv, InPlace, Flows
    <3>2. TakenTaps = {} /\ \A c \in Callers : ~ Seeing(caller[c])
      BY <3>1 DEF TakenTaps, Taken, Seeing
    <3>3. t = camera.tap
      BY <3>2 DEF AiInv, CameraInv, DecodersAreKnown
    <3>4. t \in Taps /\ t # 0
      BY DEF AiInv, CameraInv, Wired, Taps
    <3> QED BY <3>2, <3>3, <3>4 DEF AiInv, CameraInv, DecoderIsUsed, Used
  <2> QED BY <2>3, <2>4 DEF DecodedOnceForSomebody, OneDecoder
<1> QED BY <1>1, AiInductive, PTL

(* When the calls have returned, a streaming camera with motion detection  *)
(* on is watched by exactly one detector, unless its decoder would not     *)
(* start.                                                                  *)
THEOREM RuntimeMotionIsWatched == AiSpec => []MotionIsWatched
<1>1. AiInv => MotionIsWatched
  <2> SUFFICES ASSUME AiInv, Quiet, camera.motion, camera.stream # "none", ~ missed
               PROVE  camera.tap \in decoding /\ watchers[camera.tap] = 1
    BY DEF MotionIsWatched
  <2>1. \A c \in Callers : caller[c].op = "none"
    BY DEF Quiet, AiInv, JobsInv, InPlace, Flows
  <2>2. camera.sink
    BY <2>1 DEF AiInv, CameraInv, MotionReturns, Restoring
  <2> QED BY <2>2 DEF AiInv, CameraInv, Wired
<1> QED BY <1>1, AiInductive, PTL

(* A job that no two threads were changing at once runs once: what still   *)
(* runs of it is in the table, or in the hands of the one thread that is   *)
(* about it.                                                               *)
THEOREM RuntimeRunsOnce == AiSpec => []UncontestedRunsOnce
<1>1. AiInv => UncontestedRunsOnce
  <2> SUFFICES ASSUME AiInv, NEW j \in Jobs \ contested PROVE Cardinality(Running(j)) <= 1
    BY DEF UncontestedRunsOnce
  <2>1. ByOne(j) /\ OutOfTable(j) /\ Accounted(j) /\ "none" \notin Jobs
    BY AiAssumption DEF AiInv, JobsInv, Uncontested
  <2> DEFINE By(c, w) == w \in caller[c].orphans \/ (caller[c].at = "insert" /\ caller[c].worker = w)
  <2>2. ASSUME NEW w \in Running(j), NEW c \in Callers, By(c, w) PROVE c \in About(j) /\ caller[c].at # "take"
    <3>1. w \in Workers /\ worker[w].job = j
      BY DEF Running
    <3>2. CASE w \in caller[c].orphans
      BY <3>1, <3>2 DEF AiInv, JobsInv, InPlace, Flows, Shutting, About
    <3>3. CASE caller[c].at = "insert" /\ caller[c].worker = w
      BY <2>1, <3>1, <3>3 DEF AiInv, JobsInv, InPlace, WorkerOf, About
    <3> QED BY <2>2, <3>2, <3>3
  <2>3. ASSUME NEW v \in Running(j), NEW w \in Running(j) PROVE v = w
    <3>1. v \in Workers /\ worker[v].job = j /\ Live(v) /\ w \in Workers /\ worker[w].job = j /\ Live(w)
      BY DEF Running
    <3>2. /\ jobs[j] = v \/ \E c \in Callers : By(c, v)
          /\ jobs[j] = w \/ \E c \in Callers : By(c, w)
      BY <2>1, <3>1 DEF Accounted
    <3>3. ASSUME NEW u \in Running(j), NEW c \in Callers, By(c, u) PROVE jobs[j] = 0
      BY <2>1, <2>2, <3>3 DEF OutOfTable
    <3>4. v # 0 /\ w # 0
      BY <3>1 DEF Workers
    <3>5. ASSUME NEW c \in Callers, By(c, v), NEW d \in Callers, By(d, w) PROVE v = w
      <4>1. c = d
        BY <2>1, <2>2, <3>5 DEF ByOne
      <4>2. caller[c].at = "insert" => caller[c].orphans = {}
        BY DEF AiInv, JobsInv, InPlace, Flows, Shutting
      <4> QED BY <3>1, <3>5, <4>1, <4>2 DEF AiInv, JobsInv, InPlace
    <3> HIDE DEF By
    <3> QED BY <3>2, <3>3, <3>4, <3>5
  <2> QED BY <2>3, AtMostOne
<1> QED BY <1>1, AiInductive, PTL
=============================================================================
