------------------------- MODULE RtspRestreamProofs -------------------------
(***************************************************************************)
(* Timeline for every stream of stamps and every pair of thresholds, and   *)
(* the clocks of the medias that restream it, for any number of them.      *)
(*                                                                         *)
(* Of the timeline the inductive fact is Anchored: the offset is what      *)
(* takes the camera's last clock to the corrected one, so a jump absorbed  *)
(* by the offset leaves the corrected clock exactly one step on.  The      *)
(* medias' clocks rest on that: of frames shown in the order they are      *)
(* decoded the cached ones are in order and none is ahead of the timeline, *)
(* so the first a media is given stays the lowest.                         *)
(***************************************************************************)
EXTENDS RtspRestream, SequenceTheorems, WellFoundedInduction, TLAPS

Anchored == at = IF started THEN lastClock + offset ELSE 0

(* A stamp that comes without the other is the corrected clock as well.    *)
AloneOnTime == out.dts = None /\ out.pts # None => out.pts = at

IInv == TypeOK /\ Anchored /\ OnTheTimeline /\ AloneOnTime /\ GapSurvives

LEMMA ShiftType ==
  ASSUME NEW s \in Stamp, NEW by \in Int
  PROVE  /\ Shift(s, by) \in Stamp
         /\ s = None => Shift(s, by) = None
         /\ s # None => Shift(s, by) # None
         /\ s # None /\ s + by >= 0 => Shift(s, by) = s + by
BY DEF Shift, ClampToZero, Stamp, None

LEMMA InitOK == Init => IInv
<1> SUFFICES ASSUME Init PROVE IInv
  OBVIOUS
<1>1. in = [pts |-> None, dts |-> None] /\ out = in
  BY DEF Init
<1>2. in \in [pts : Stamp, dts : Stamp] /\ in.dts = None
  BY <1>1 DEF Stamp
<1>3. TypeOK
  <2>1. started \in BOOLEAN /\ out \in [pts : Stamp, dts : Stamp]
    BY <1>1, <1>2 DEF Init
  <2>2. /\ offset \in Int /\ frames \in Nat /\ at \in Int /\ lastClock \in Nat
        /\ lastGoodDelta \in 0 .. MaxForwardJump
    BY TimelineAssumption DEF Init
  <2> QED
    BY <1>2, <2>1, <2>2 DEF TypeOK
<1>4. Anchored /\ OnTheTimeline /\ AloneOnTime /\ GapSurvives
  BY <1>1, <1>2 DEF Init, Anchored, OnTheTimeline, AloneOnTime, GapSurvives
<1> QED
  BY <1>3, <1>4 DEF IInv

(* What correct() does to the members when the frame has a clock.          *)
LEMMA Moves ==
  ASSUME IInv, NEW clock \in Nat,
         IF started THEN Advance(clock) ELSE Start(clock)
  PROVE  /\ started' = TRUE /\ offset' \in Int
         /\ lastGoodDelta' \in 0 .. MaxForwardJump
         /\ clock + offset' >= 0
         /\ IF started THEN clock + offset' - at \in 0 .. MaxForwardJump
                       ELSE clock + offset' = 0
<1>1. /\ offset \in Int /\ lastClock \in Nat /\ lastGoodDelta \in 0 .. MaxForwardJump
      /\ started \in BOOLEAN /\ at \in Int /\ at >= 0
      /\ started => at = lastClock + offset
      /\ MaxForwardJump \in Nat /\ NominalStep \in 1 .. MaxForwardJump
  BY TimelineAssumption DEF IInv, TypeOK, Anchored, OnTheTimeline
<1>2. CASE ~ started
  BY <1>1, <1>2 DEF Start
<1>3. CASE started /\ IsJump(clock - lastClock)
  <2>1. /\ offset' = offset + Step - (clock - lastClock)
        /\ lastGoodDelta' = lastGoodDelta /\ started' = started
    BY <1>3 DEF Advance
  <2>2. Step \in 1 .. MaxForwardJump
    BY <1>1 DEF Step
  <2> QED
    BY <1>1, <1>3, <2>1, <2>2
<1>4. CASE started /\ ~ IsJump(clock - lastClock)
  <2>1. lastGoodDelta' = clock - lastClock /\ offset' = offset /\ started' = started
    BY <1>4 DEF Advance
  <2>2. clock - lastClock \in 0 .. MaxForwardJump
    BY <1>1, <1>4 DEF IsJump
  <2> QED
    BY <1>1, <1>4, <2>1, <2>2
<1> QED
  BY <1>1, <1>2, <1>3, <1>4

LEMMA CorrectOK ==
  ASSUME IInv, NEW stamps \in [pts : Stamps \cup {None}, dts : Stamps \cup {None}],
         Correct(stamps)
  PROVE  /\ IInv'
         /\ IF started THEN at' - at \in 0 .. MaxForwardJump ELSE at' = 0
<1>1. /\ stamps.pts \in Stamp /\ stamps.dts \in Stamp
      /\ stamps \in [pts : Stamp, dts : Stamp]
  BY TimelineAssumption DEF Stamp
<1>2. in' = stamps /\ frames' \in Nat
  BY DEF Correct, IInv, TypeOK
<1>3. CASE Clock(stamps) = None
  <2>1. stamps.dts = None /\ stamps.pts = None
    BY <1>1, <1>3 DEF Clock
  <2>2. out' = stamps /\ UNCHANGED <<members, at>>
    BY <1>3 DEF Correct
  <2>3. TypeOK'
    BY <1>1, <1>2, <2>2 DEF IInv, TypeOK, members
  <2>4. Anchored' /\ OnTheTimeline' /\ AloneOnTime' /\ GapSurvives'
    BY <1>2, <2>1, <2>2 DEF IInv, Anchored, OnTheTimeline, AloneOnTime, GapSurvives, members
  <2>5. IF started THEN at' - at \in 0 .. MaxForwardJump ELSE at' = 0
    <3>1. at' = at /\ at \in Int /\ MaxForwardJump \in Nat /\ (~ started => at = 0)
      BY <2>2, TimelineAssumption DEF IInv, TypeOK, Anchored
    <3> QED
      BY <3>1
  <2> QED
    BY <2>3, <2>4, <2>5 DEF IInv
<1>4. CASE Clock(stamps) # None
  <2> DEFINE clock == Clock(stamps)
  <2>1. /\ lastClock' = clock /\ at' = clock + offset'
        /\ out' = [pts |-> Shift(stamps.pts, offset'), dts |-> Shift(stamps.dts, offset')]
        /\ IF started THEN Advance(clock) ELSE Start(clock)
    BY <1>4 DEF Correct
  <2>2. clock \in Nat
    BY <1>1, <1>4 DEF Clock, Stamp
  <2>3. /\ started' = TRUE /\ offset' \in Int
        /\ lastGoodDelta' \in 0 .. MaxForwardJump
        /\ clock + offset' >= 0
        /\ IF started THEN clock + offset' - at \in 0 .. MaxForwardJump
                      ELSE clock + offset' = 0
    BY <2>1, <2>2, Moves
  <2>4. out' \in [pts : Stamp, dts : Stamp]
    BY <1>1, <2>1, <2>3, ShiftType
  <2>5. TypeOK'
    BY <1>1, <1>2, <2>1, <2>2, <2>3, <2>4 DEF TypeOK
  <2>6. Anchored'
    BY <2>1, <2>3 DEF Anchored
  <2>7. stamps.dts # None => out'.dts = at'
    BY <1>1, <2>1, <2>3, ShiftType DEF Clock
  <2>8. stamps.dts = None => out'.dts = None
    BY <2>1 DEF Shift
  <2>9. OnTheTimeline'
    BY <1>1, <2>1, <2>3, <2>7, <2>8 DEF OnTheTimeline
  <2>10. GapSurvives'
    <3> SUFFICES ASSUME stamps.dts # None, stamps.pts # None, stamps.pts >= stamps.dts
                 PROVE  out'.pts - out'.dts = stamps.pts - stamps.dts
      BY <1>2 DEF GapSurvives
    <3>1. /\ stamps.pts \in Nat /\ stamps.dts \in Nat /\ clock = stamps.dts
      BY <1>1 DEF Stamp, Clock
    <3>2. stamps.pts + offset' >= 0
      BY <2>3, <3>1
    <3>3. out'.pts = stamps.pts + offset' /\ out'.dts = stamps.dts + offset'
      BY <1>1, <2>1, <2>3, <3>1, <3>2, ShiftType
    <3> QED
      BY <2>3, <3>1, <3>3
  <2>11. AloneOnTime'
    <3>1. stamps.dts # None => out'.dts # None
      BY <1>1, <2>1, <2>3, ShiftType
    <3>2. ASSUME stamps.dts = None, out'.pts # None
          PROVE  out'.pts = at'
      <4>1. stamps.pts = clock /\ clock \in Nat
        BY <2>2, <3>2 DEF Clock
      <4> HIDE DEF clock
      <4>2. stamps.pts \in Stamp /\ stamps.pts # None
        BY <1>1, <4>1 DEF None
      <4>3. stamps.pts + offset' >= 0 /\ offset' \in Int
        BY <2>3, <4>1 DEF clock
      <4>4. Shift(stamps.pts, offset') = stamps.pts + offset'
        BY <4>2, <4>3, ShiftType
      <4> QED BY <2>1, <4>1, <4>4
    <3> QED BY <3>1, <3>2 DEF AloneOnTime
  <2>13. IInv'
    BY <2>5, <2>6, <2>9, <2>10, <2>11 DEF IInv
  <2>12. IF started THEN at' - at \in 0 .. MaxForwardJump ELSE at' = 0
    <3>1. at \in Int /\ started \in BOOLEAN
      BY DEF IInv, TypeOK
    <3> QED
      BY <2>1, <2>2, <2>3, <3>1
  <2> QED
    BY <2>12, <2>13
<1> QED
  BY <1>3, <1>4

LEMMA Inductive == Spec => []IInv
<1>1. IInv /\ [Next]_vars => IInv'
  <2> SUFFICES ASSUME IInv, [Next]_vars PROVE IInv'
    OBVIOUS
  <2>1. CASE Next
    BY <2>1, CorrectOK DEF Next
  <2>2. CASE UNCHANGED vars
    BY <2>2 DEF vars, members, IInv, TypeOK, Anchored, OnTheTimeline, AloneOnTime, GapSurvives
  <2> QED
    BY <2>1, <2>2
<1> QED
  BY <1>1, InitOK, PTL DEF Spec

(* Types, with the bound on the last believed delta that bounds a step.    *)
THEOREM TimelineTypeCorrect == Spec => []TypeOK
<1>1. IInv => TypeOK
  BY DEF IInv
<1> QED
  BY <1>1, Inductive, PTL

(* The decode stamp handed out is always the corrected clock.              *)
THEOREM TimelineOnTime == Spec => []OnTheTimeline
<1>1. IInv => OnTheTimeline
  BY DEF IInv
<1> QED
  BY <1>1, Inductive, PTL

(* Display order survives every correction.                                *)
THEOREM TimelineGapSurvives == Spec => []GapSurvives
<1>1. IInv => GapSurvives
  BY DEF IInv
<1> QED
  BY <1>1, Inductive, PTL

(* No camera can make the timeline go backward, or jump.                   *)
THEOREM TimelineNeverJumps == Spec => NeverJumps
<1> DEFINE Moved == IF started THEN at' - at \in 0 .. MaxForwardJump ELSE at' = 0
<1>1. IInv /\ [Next]_vars => [Moved]_vars
  <2> SUFFICES ASSUME IInv, Next PROVE Moved
    OBVIOUS
  <2> QED
    BY CorrectOK DEF Next
<1> QED
  BY <1>1, Inductive, PTL DEF Spec, NeverJumps

-----------------------------------------------------------------------------
(* RtspRestream.  What a media has been given and what it made of it.      *)
Pair == [pts : Stamp, dts : Stamp]
SourceFeed ==
  [state : {"unused", "attached", "elsewhere", "blank", "detached", "gone"},
   mount : Nat, viewers : Nat, waits : BOOLEAN, base : Stamp, first : Stamp,
   plain : BOOLEAN, given : Pair, last : [pts : Int, dts : Int]]

(* Its zero is not above what it was given; while all it was given was in  *)
(* decoding order, its zero is the first stamp ...                         *)
Sound(media) ==
  /\ media.base = None <=> media.first = None
  /\ media.plain => media.base = media.first
  /\ media.given.pts # None =>
       /\ media.last.pts >= 0 /\ media.last.dts >= 0
       /\ media.plain => /\ media.last.pts = media.given.pts - media.first
                         /\ media.last.dts = media.last.pts

(* ... and that not above now.                                             *)
By(media, now) == media.plain /\ media.base # None => media.base <= now

LEMMA PushKeeps ==
  ASSUME NEW media \in SourceFeed, NEW stamps \in Pair, Sound(media),
         IsPlain(stamps) => By(media, stamps.pts)
  PROVE  /\ Push(media, stamps) \in SourceFeed /\ Sound(Push(media, stamps))
         /\ Push(media, stamps).state = media.state
         /\ Push(media, stamps).plain /\ media.state = "attached" =>
              /\ media.plain /\ IsPlain(stamps)
              /\ Push(media, stamps).base = IF media.base = None THEN stamps.pts ELSE media.base
<1> DEFINE base == IF stamps.pts = None THEN media.base ELSE Lowest(media.base, stamps.pts)
           first == IF media.first = None THEN stamps.pts ELSE media.first
           plain == media.plain /\ IsPlain(stamps)
           last == IF stamps.pts = None THEN NoStamps ELSE Rebased(stamps, base)
           p == [media EXCEPT !.base = base, !.given = stamps, !.first = first,
                              !.plain = plain, !.last = last]
<1>1. /\ media.base \in Stamp /\ media.first \in Stamp /\ media.plain \in BOOLEAN
      /\ stamps.pts \in Stamp /\ stamps.dts \in Stamp
  BY DEF SourceFeed, Pair
<1>2. \A x \in Stamp : x \in Int /\ (x # None => x >= 0) /\ x >= None
  BY DEF Stamp, None
<1>3. /\ base \in Stamp /\ first \in Stamp /\ plain \in BOOLEAN
      /\ base = None <=> first = None
      /\ stamps.pts # None => base # None /\ base <= stamps.pts
  BY <1>1, <1>2 DEF Lowest, Sound
<1>4. plain => /\ stamps.pts # None /\ stamps.dts \in {None, stamps.pts} /\ base = first
               /\ base = IF media.base = None THEN stamps.pts ELSE media.base
  BY <1>1, <1>2 DEF IsPlain, By, Lowest, Sound
<1> HIDE DEF base, first, plain
<1>5. /\ last \in [pts : Int, dts : Int]
      /\ stamps.pts # None => /\ last.pts = stamps.pts - base /\ last.pts >= 0 /\ last.dts >= 0
                              /\ stamps.dts \in {None, stamps.pts} => last.dts = last.pts
  <2>1. CASE stamps.pts = None
    BY <2>1 DEF NoStamps, None
  <2>2. CASE stamps.pts # None
    <3>1. last = [pts |-> stamps.pts - base,
                  dts |-> IF stamps.dts # None /\ stamps.dts >= base THEN stamps.dts - base
                          ELSE stamps.pts - base]
      BY <2>2 DEF Rebased
    <3> HIDE DEF last
    <3>2. stamps.pts - base \in Int /\ stamps.pts - base >= 0 /\ stamps.dts \in Int /\ base \in Int
      BY <1>1, <1>2, <1>3, <2>2
    <3> QED BY <1>1, <2>2, <3>1, <3>2
  <2> QED BY <2>1, <2>2
<1> HIDE DEF last
<1>6. /\ p \in SourceFeed /\ p.state = media.state /\ p.base = base /\ p.first = first
      /\ p.given = stamps /\ p.plain = plain /\ p.last = last
  <2> DEFINE a == [media EXCEPT !.base = base]
             b == [a EXCEPT !.given = stamps]
             c == [b EXCEPT !.first = first]
             d == [c EXCEPT !.plain = plain]
             e == [d EXCEPT !.last = last]
  <2>1. p = e
    OBVIOUS
  <2>2. a \in SourceFeed /\ a.state = media.state /\ a.base = base
    BY <1>3 DEF SourceFeed
  <2> HIDE DEF a
  <2>3. b \in SourceFeed /\ b.state = media.state /\ b.base = base /\ b.given = stamps
    BY <2>2 DEF SourceFeed
  <2> HIDE DEF b
  <2>4. c \in SourceFeed /\ c.state = media.state /\ c.base = base /\ c.given = stamps
        /\ c.first = first
    BY <1>3, <2>3 DEF SourceFeed
  <2> HIDE DEF c
  <2>5. d \in SourceFeed /\ d.state = media.state /\ d.base = base /\ d.given = stamps
        /\ d.first = first /\ d.plain = plain
    BY <1>3, <2>4 DEF SourceFeed
  <2> HIDE DEF d
  <2>6. e \in SourceFeed /\ e.state = media.state /\ e.base = base /\ e.given = stamps
        /\ e.first = first /\ e.plain = plain /\ e.last = last
    BY <1>5, <2>5 DEF SourceFeed
  <2> HIDE DEF e, p
  <2> QED BY <2>1, <2>6
<1>7. Push(media, stamps) = IF media.state # "attached" THEN media ELSE p
  BY DEF Push, base, first, plain, last
<1> HIDE DEF p
<1>8. Sound(p)
  BY <1>3, <1>4, <1>5, <1>6 DEF Sound
<1>9. plain => media.plain /\ IsPlain(stamps)
  BY DEF plain
<1> QED BY <1>4, <1>6, <1>7, <1>8, <1>9

-----------------------------------------------------------------------------
(* Priming goes through the cached frames one after another.               *)
LEMMA Least ==
  ASSUME NEW T \in SUBSET Nat, T # {}
  PROVE  \E x \in T : \A y \in T : x <= y
<1> DEFINE R == {p \in Nat \X Nat : p[1] < p[2]}
<1>1. IsWellFoundedOn(OpToRel(<, Nat), Nat)
  BY NatLessThanWellFounded
<1>2. R = OpToRel(<, Nat)
  BY DEF OpToRel
<1>3. IsWellFoundedOn(R, Nat)
  BY <1>1, <1>2
<1> HIDE DEF R
<1>4. PICK x \in T : \A y \in T : ~ (<<y, x>> \in R)
  BY <1>3, WFMin
<1>5. \A y \in T : ~ (y < x)
  BY <1>4 DEF R
<1> QED BY <1>5

(* A set of numbers that has 0, and with each number the next, has all.    *)
LEMMA UpTo ==
  ASSUME NEW k \in Nat, NEW T \in SUBSET Nat, 0 \in T,
         \A n \in 0 .. k : n \in T /\ n < k => n + 1 \in T
  PROVE  0 .. k \subseteq T
<1> DEFINE B == (0 .. k) \ T
<1> SUFFICES ASSUME B # {} PROVE FALSE
  OBVIOUS
<1>1. B \in SUBSET Nat
  OBVIOUS
<1> HIDE DEF B
<1>2. PICK x \in B : \A y \in B : x <= y
  BY <1>1, Least
<1>3. x # 0 /\ x \in 0 .. k /\ x - 1 \in 0 .. k /\ x - 1 < k /\ ~ (x <= x - 1)
  BY <1>1, <1>2 DEF B
<1>4. x - 1 \in T
  BY <1>2, <1>3 DEF B
<1> QED BY <1>2, <1>3, <1>4 DEF B

LEMMA PrimedIs ==
  ASSUME NEW media, NEW cached, Len(cached) \in Nat
  PROVE  \E f : /\ f[0] = media
                /\ \A n \in 1 .. Len(cached) : f[n] = Push(f[n - 1], cached[n])
                /\ Primed(media, cached) = f[Len(cached)]
<1> DEFINE Is(f, k) == f = [n \in 0 .. k |-> IF n = 0 THEN media ELSE Push(f[n - 1], cached[n])]
           T == {k \in Nat : \E f : Is(f, k)}
<1>1. 0 \in T
  <2> DEFINE f == [n \in 0 .. 0 |-> media]
  <2>1. Is(f, 0)
    OBVIOUS
  <2> QED BY <2>1
<1>2. ASSUME NEW k \in Nat, k \in T
      PROVE  k + 1 \in T
  <2>1. PICK g : Is(g, k)
    BY <1>2
  <2> DEFINE f == [n \in 0 .. k + 1 |-> IF n = 0 THEN media ELSE Push(g[n - 1], cached[n])]
  <2>2. ASSUME NEW n \in 0 .. k
        PROVE  f[n] = g[n]
    <3>1. g[n] = IF n = 0 THEN media ELSE Push(g[n - 1], cached[n])
      BY <2>1
    <3>2. n \in 0 .. k + 1
      OBVIOUS
    <3> QED BY <3>1, <3>2
  <2>3. \A n \in 0 .. k + 1 : n # 0 => n - 1 \in 0 .. k
    OBVIOUS
  <2>4. f = [n \in 0 .. k + 1 |-> IF n = 0 THEN media ELSE Push(f[n - 1], cached[n])]
    BY <2>2, <2>3
  <2>5. Is(f, k + 1)
    BY <2>4
  <2> HIDE DEF f, Is
  <2> QED BY <2>5
<1>3. Len(cached) \in T
  <2> HIDE DEF T
  <2>1. T \in SUBSET Nat
    BY DEF T
  <2>2. 0 .. Len(cached) \subseteq T
    BY <1>1, <1>2, <2>1, UpTo
  <2> QED BY <2>2
<1>4. PICK g : Is(g, Len(cached))
  BY <1>3
<1> DEFINE F == CHOOSE f : f = [n \in 0 .. Len(cached) |->
                                  IF n = 0 THEN media ELSE Push(f[n - 1], cached[n])]
<1>5. F = [n \in 0 .. Len(cached) |-> IF n = 0 THEN media ELSE Push(F[n - 1], cached[n])]
  BY <1>4
<1>6. Primed(media, cached) = F[Len(cached)]
  BY DEF Primed
<1> HIDE DEF F
<1>7. F[0] = media /\ \A n \in 1 .. Len(cached) : F[n] = Push(F[n - 1], cached[n])
  BY <1>5
<1> QED BY <1>6, <1>7

(* Cached frames that are shown in the order they are decoded are in order,*)
(* and none is ahead of now.                                               *)
InOrder(cached, now) ==
  \A j \in DOMAIN cached : IsPlain(cached[j]) =>
    /\ cached[j].pts <= now
    /\ \A i \in DOMAIN cached : i < j /\ IsPlain(cached[i]) => cached[i].pts <= cached[j].pts

LEMMA PrimedKeeps ==
  ASSUME NEW media \in SourceFeed, media.state = "attached", media.base = None, Sound(media),
         NEW cached \in Seq(Pair), NEW now \in Int, InOrder(cached, now)
  PROVE  /\ Primed(media, cached) \in SourceFeed /\ Sound(Primed(media, cached))
         /\ By(Primed(media, cached), now)
<1> DEFINE L == Len(cached)
<1>1. L \in Nat /\ DOMAIN cached = 1 .. L /\ \A j \in 1 .. L : cached[j] \in Pair
  BY LenProperties, ElementOfSeq
<1>2. PICK f : /\ f[0] = media
               /\ \A n \in 1 .. L : f[n] = Push(f[n - 1], cached[n])
               /\ Primed(media, cached) = f[L]
  BY <1>1, PrimedIs
<1> HIDE DEF L
<1> DEFINE Good(m, n) ==
             /\ m \in SourceFeed /\ m.state = "attached" /\ Sound(m) /\ By(m, now)
             /\ \A j \in 1 .. L : j > n /\ IsPlain(cached[j]) => By(m, cached[j].pts)
           T == {n \in Nat : n <= L => Good(f[n], n)}
<1>3. 0 \in T
  <2>1. \A x : By(media, x)
    BY DEF By
  <2>2. Good(media, 0)
    BY <2>1
  <2> QED BY <1>2, <2>2
<1>4. ASSUME NEW n \in 0 .. L, n \in T, n < L
      PROVE  n + 1 \in T
  <2>1. Good(f[n], n) /\ n + 1 \in 1 .. L /\ n + 1 > n /\ n + 1 \in Nat
    BY <1>1, <1>4
  <2> DEFINE m == f[n]
             s == cached[n + 1]
             p == Push(m, s)
  <2>2. f[n + 1] = p
    <3>1. (n + 1) - 1 = n
      BY <1>1
    <3> QED BY <1>2, <2>1, <3>1
  <2>3. s \in Pair /\ m \in SourceFeed /\ Sound(m) /\ (IsPlain(s) => By(m, s.pts))
        /\ m.state = "attached"
    BY <1>1, <2>1
  <2> HIDE DEF m, s
  <2>4. /\ p \in SourceFeed /\ Sound(p) /\ p.state = "attached"
        /\ p.plain => /\ m.plain /\ IsPlain(s)
                      /\ p.base = IF m.base = None THEN s.pts ELSE m.base
    BY <2>3, PushKeeps
  <2> HIDE DEF p
  <2>5. ASSUME NEW x \in Int, By(m, x), IsPlain(s) => s.pts <= x
        PROVE  By(p, x)
    BY <2>4, <2>5 DEF By
  <2>6. By(p, now)
    <3>1. IsPlain(s) => s.pts <= now
      BY <1>1, <2>1 DEF InOrder, s
    <3>2. By(m, now)
      BY <2>1 DEF m
    <3> QED BY <2>5, <3>1, <3>2
  <2>7. ASSUME NEW j \in 1 .. L, j > n + 1, IsPlain(cached[j])
        PROVE  By(p, cached[j].pts)
    <3>1. j > n /\ n + 1 < j
      BY <2>7
    <3>2. By(m, cached[j].pts)
      BY <2>1, <2>7, <3>1 DEF m
    <3>3. IsPlain(s) => s.pts <= cached[j].pts
      BY <1>1, <2>1, <2>7, <3>1 DEF InOrder, s
    <3>4. cached[j].pts \in Int
      BY <1>1 DEF Pair, Stamp, None
    <3> QED BY <2>5, <3>2, <3>3, <3>4
  <2>8. Good(p, n + 1)
    BY <2>4, <2>6, <2>7
  <2> QED BY <2>1, <2>2, <2>8
<1>5. L \in T
  <2> HIDE DEF T
  <2>1. T \in SUBSET Nat
    BY DEF T
  <2>2. 0 .. L \subseteq T
    BY <1>1, <1>3, <1>4, <2>1, UpTo
  <2> QED BY <1>1, <2>2
<1> QED BY <1>1, <1>2, <1>5

-----------------------------------------------------------------------------
RestInv ==
  /\ IInv
  /\ feed \in [Feeds -> SourceFeed] /\ gop \in Seq(Pair) /\ mount \in Nat /\ factories \in Nat
  /\ InOrder(gop, at)
  /\ \A f \in Feeds : Sound(feed[f]) /\ By(feed[f], at)

LEMMA TimelineRests == ASSUME IInv, UNCHANGED vars PROVE IInv' /\ at' = at /\ out' = out
BY DEF vars, members, IInv, TypeOK, Anchored, OnTheTimeline, AloneOnTime, GapSurvives

LEMMA OutIsNow ==
  ASSUME IInv
  PROVE  out \in Pair /\ at \in Int /\ (IsPlain(out) => out.pts = at)
BY DEF IInv, TypeOK, Pair, OnTheTimeline, AloneOnTime, IsPlain

LEMMA NoFeedIsSound ==
  ASSUME NEW m \in SourceFeed, m.base = None, m.first = None, m.given = NoStamps
  PROVE  Sound(m) /\ \A x : By(m, x)
BY DEF Sound, By, NoStamps

LEMMA NoFeedIsMedia ==
  /\ NoFeed \in SourceFeed /\ NoFeed.base = None /\ NoFeed.first = None /\ NoFeed.given = NoStamps
  /\ NoStamps \in Pair
BY DEF NoFeed, SourceFeed, NoStamps, Stamp, None, Pair

(* All that changes is one media.                                          *)
LEMMA MediaChanges ==
  ASSUME RestInv, NEW f \in Feeds, NEW m \in SourceFeed, Sound(m), By(m, at),
         feed' = [feed EXCEPT ![f] = m], UNCHANGED <<vars, gop, mountVars>>
  PROVE  RestInv'
<1>1. IInv' /\ at' = at
  BY TimelineRests DEF RestInv
<1>2. feed' \in [Feeds -> SourceFeed] /\ \A g \in Feeds : feed'[g] = IF g = f THEN m ELSE feed[g]
  BY DEF RestInv
<1>3. \A g \in Feeds : Sound(feed'[g]) /\ By(feed'[g], at')
  BY <1>1, <1>2 DEF RestInv
<1>4. InOrder(gop', at')
  BY <1>1 DEF RestInv
<1> QED BY <1>1, <1>2, <1>3, <1>4 DEF RestInv, mountVars

(* Neither step a frame may take leads back.                               *)
LEMMA Onward ==
  ASSUME NEW before \in Int, NEW after \in Int, NEW most \in Nat, NEW any,
         ~ any => before = 0, IF any THEN after - before \in 0 .. most ELSE after = 0
  PROVE  before <= after
OBVIOUS

(* A frame is delivered: the timeline moves on, and the frame is cached.   *)
LEMMA DeliverKeeps == ASSUME RestInv, Deliver PROVE RestInv'
<1>1. PICK stamps \in Inputs : Correct(stamps)
  BY DEF Deliver
<1>2. IInv' /\ IF started THEN at' - at \in 0 .. MaxForwardJump ELSE at' = 0
  BY <1>1, CorrectOK, RestreamAssumption DEF RestInv
<1>3. at \in Int /\ at' \in Int /\ at <= at'
  <2>1. at \in Int /\ at' \in Int /\ (~ started => at = 0)
    BY <1>2 DEF RestInv, IInv, TypeOK, Anchored
  <2> QED BY <1>2, <2>1, Onward, TimelineAssumption
<1>4. out' \in Pair /\ (IsPlain(out') => out'.pts = at')
  BY <1>2 DEF IInv, TypeOK, Pair, OnTheTimeline, AloneOnTime, IsPlain
<1>5. gop' \in {gop, <<out'>>, Append(gop, out')}
  BY DEF Deliver
<1>6. /\ gop \in Seq(Pair) /\ Len(gop) \in Nat /\ DOMAIN gop = 1 .. Len(gop)
      /\ \A j \in 1 .. Len(gop) : gop[j] \in Pair
  BY LenProperties, ElementOfSeq DEF RestInv
<1>7. \A x \in Pair : x.pts \in Int
  BY DEF Pair, Stamp, None
<1>8. InOrder(gop, at')
  BY <1>3, <1>6, <1>7 DEF RestInv, InOrder
<1>9. gop' \in Seq(Pair) /\ InOrder(gop', at')
  <2>1. CASE gop' = gop
    BY <1>6, <1>8, <2>1
  <2>2. CASE gop' = <<out'>>
    <3>1. /\ gop' \in Seq(Pair) /\ DOMAIN gop' = {1} /\ gop'[1] = out'
      BY <1>4, <2>2
    <3>2. \A j \in DOMAIN gop' : j = 1 /\ ~ (j < 1)
      BY <3>1
    <3> QED BY <1>3, <1>4, <1>7, <3>1, <3>2 DEF InOrder
  <2>3. CASE gop' = Append(gop, out')
    <3>1. /\ gop' \in Seq(Pair) /\ DOMAIN gop' = 1 .. Len(gop) + 1
          /\ gop'[Len(gop) + 1] = out' /\ \A j \in 1 .. Len(gop) : gop'[j] = gop[j]
      BY <1>4, <1>6, <2>3, AppendProperties
    <3>2. ASSUME NEW j \in DOMAIN gop', IsPlain(gop'[j])
          PROVE  /\ gop'[j].pts <= at'
                 /\ \A i \in DOMAIN gop' : i < j /\ IsPlain(gop'[i]) => gop'[i].pts <= gop'[j].pts
      <4>1. CASE j \in 1 .. Len(gop)
        <5>1. gop'[j].pts <= at'
          BY <1>6, <1>8, <3>1, <3>2, <4>1 DEF InOrder
        <5>2. ASSUME NEW i \in DOMAIN gop', i < j, IsPlain(gop'[i])
              PROVE  gop'[i].pts <= gop'[j].pts
          <6>1. i \in 1 .. Len(gop)
            BY <1>6, <3>1, <4>1, <5>2
          <6> QED BY <1>6, <1>8, <3>1, <3>2, <4>1, <5>2, <6>1 DEF InOrder
        <5> QED BY <5>1, <5>2
      <4>2. CASE j = Len(gop) + 1
        <5>1. gop'[j].pts = at'
          BY <1>4, <3>1, <3>2, <4>2
        <5>2. ASSUME NEW i \in DOMAIN gop', i < j, IsPlain(gop'[i])
              PROVE  gop'[i].pts <= at'
          <6>1. i \in 1 .. Len(gop)
            BY <1>6, <3>1, <4>2, <5>2
          <6> QED BY <1>6, <1>8, <3>1, <5>2, <6>1 DEF InOrder
        <5> QED BY <1>3, <5>1, <5>2
      <4> QED BY <1>6, <3>1, <4>1, <4>2
    <3> QED BY <3>1, <3>2 DEF InOrder
  <2> QED BY <1>5, <2>1, <2>2, <2>3
<1>10. /\ feed' \in [Feeds -> SourceFeed]
       /\ \A f \in Feeds : Sound(feed'[f]) /\ By(feed'[f], at')
  <2>1. \A f \in Feeds : feed'[f] = IF f \in copies' THEN [feed[f] EXCEPT !.waits = FALSE]
                                    ELSE feed[f]
    BY DEF Deliver
  <2>2. ASSUME NEW f \in Feeds
        PROVE  feed'[f] \in SourceFeed /\ Sound(feed'[f]) /\ By(feed'[f], at')
    <3>1. feed[f] \in SourceFeed /\ Sound(feed[f]) /\ By(feed[f], at)
      BY DEF RestInv
    <3>2. By(feed[f], at')
      <4>1. feed[f].base \in Int
        BY <3>1 DEF SourceFeed, Stamp, None
      <4> QED BY <1>3, <3>1, <4>1 DEF By
    <3> DEFINE w == [feed[f] EXCEPT !.waits = FALSE]
    <3>3. w \in SourceFeed /\ Sound(w) /\ By(w, at')
      <4>1. /\ w \in SourceFeed /\ w.base = feed[f].base /\ w.first = feed[f].first
            /\ w.plain = feed[f].plain /\ w.given = feed[f].given /\ w.last = feed[f].last
        BY <3>1 DEF SourceFeed
      <4> HIDE DEF w
      <4> QED BY <3>1, <3>2, <4>1 DEF Sound, By
    <3> QED BY <2>1, <3>1, <3>2, <3>3
  <2>3. feed' = [f \in Feeds |-> feed'[f]]
    BY DEF Deliver
  <2> QED BY <2>2, <2>3
<1> QED BY <1>2, <1>9, <1>10 DEF RestInv, Deliver, mountVars

LEMMA RestInitOK == RestInit => RestInv
<1> SUFFICES ASSUME RestInit PROVE RestInv
  OBVIOUS
<1>1. IInv /\ mount \in Nat /\ factories \in Nat
  BY InitOK DEF RestInit
<1>2. gop \in Seq(Pair) /\ InOrder(gop, at)
  BY DEF RestInit, InOrder
<1>3. /\ feed \in [Feeds -> SourceFeed]
      /\ \A f \in Feeds : Sound(feed[f]) /\ By(feed[f], at)
  BY NoFeedIsMedia, NoFeedIsSound DEF RestInit
<1> QED BY <1>1, <1>2, <1>3 DEF RestInv

(* Neither the frames nor the medias change.                               *)
LEMMA FramesRest ==
  ASSUME RestInv, UNCHANGED <<vars, gop, feed>>, mount' \in Nat, factories' \in Nat
  PROVE  RestInv'
BY TimelineRests DEF RestInv

LEMMA SourceKeeps == ASSUME RestInv, SourceNext PROVE RestInv'
<1>1. CASE Deliver
  BY <1>1, DeliverKeeps
<1>2. CASE ~ Deliver
  <2>1. UNCHANGED <<vars, gop, feed, mountVars>>
    BY <1>2 DEF SourceNext, Wire, Play, Opened, Fail, HandleBusMessage, Retire, Repoint,
                Stopped, EndDelivery, sendVars
  <2> QED BY <2>1, FramesRest DEF RestInv, mountVars
<1> QED BY <1>1, <1>2

LEMMA ServerKeeps == ASSUME RestInv, ServerNext PROVE RestInv'
<1>1. UNCHANGED <<vars, gop, feed>>
  BY DEF ServerNext, StartServer, RunWork, StopServer, Invoke, sendVars
<1>2. mount' \in Nat /\ factories' \in Nat
  <2>1. mount \in Nat /\ factories \in Nat
    BY DEF RestInv
  <2>2. CASE RunWork
    BY <2>1, <2>2 DEF RunWork
  <2>3. CASE ~ RunWork
    BY <2>1, <2>3 DEF ServerNext, StartServer, StopServer, Invoke, mountVars
  <2> QED BY <2>2, <2>3
<1> QED BY <1>1, <1>2, FramesRest

(* A feed whose client count or state is all that changes stays sound.     *)
LEMMA TouchedKeeps ==
  ASSUME NEW media \in SourceFeed, NEW m \in SourceFeed, NEW now, Sound(media), By(media, now),
         m.base = media.base, m.first = media.first, m.plain = media.plain,
         m.given = media.given, m.last = media.last
  PROVE  Sound(m) /\ By(m, now)
BY DEF Sound, By

(* A feed that was given nothing, wherever it stands.                      *)
Fresh(path, n, w, where) ==
  [state |-> where, mount |-> path, viewers |-> n, waits |-> w, base |-> None, first |-> None,
   plain |-> TRUE, given |-> NoStamps, last |-> NoStamps]

LEMMA FreshIs ==
  ASSUME NEW path \in Nat, NEW n \in Nat, NEW w \in BOOLEAN,
         NEW where \in {"unused", "attached", "elsewhere", "blank", "detached", "gone"},
         NEW m, m = Fresh(path, n, w, where)
  PROVE  m \in SourceFeed /\ m.state = where /\ m.base = None /\ Sound(m) /\ \A x : By(m, x)
<1>1. NoStamps \in Pair /\ NoStamps \in [pts : Int, dts : Int] /\ None \in Stamp
  BY DEF NoStamps, Pair, Stamp, None
<1>2. m \in SourceFeed
  BY <1>1 DEF SourceFeed, Fresh
<1>3. m.state = where /\ m.base = None /\ m.first = None /\ m.given = NoStamps
  BY DEF Fresh
<1> QED BY <1>2, <1>3, NoFeedIsSound

LEMMA FreshFromUnwaiting ==
  ASSUME NEW path, NEW n, NEW where,
         NEW m, m = [NoFeed EXCEPT !.mount = path, !.viewers = n, !.state = where]
  PROVE  m = Fresh(path, n, FALSE, where)
BY DEF NoFeed, Fresh

LEMMA FreshFromUnwatched ==
  ASSUME NEW path, NEW where, NEW m, m = [NoFeed EXCEPT !.mount = path, !.state = where]
  PROVE  m = Fresh(path, 0, FALSE, where)
BY DEF NoFeed, Fresh

LEMMA CallSinkKeeps == ASSUME RestInv, NEW f \in Feeds, CallSink(f) PROVE RestInv'
<1>1. /\ out \in Pair /\ at \in Int /\ (IsPlain(out) => out.pts = at)
      /\ feed[f] \in SourceFeed /\ Sound(feed[f]) /\ By(feed[f], at)
  BY OutIsNow DEF RestInv
<1> DEFINE m == Push(feed[f], out)
<1>2. /\ m \in SourceFeed /\ Sound(m) /\ m.state = feed[f].state
      /\ m.plain /\ feed[f].state = "attached" =>
           /\ feed[f].plain /\ IsPlain(out)
           /\ m.base = IF feed[f].base = None THEN out.pts ELSE feed[f].base
  BY <1>1, PushKeeps DEF By
<1>3. By(m, at)
  <2>1. CASE feed[f].state = "attached"
    <3> HIDE DEF m
    <3> QED BY <1>1, <1>2, <2>1 DEF By
  <2>2. CASE feed[f].state # "attached"
    BY <1>1, <2>2 DEF Push
  <2> QED BY <2>1, <2>2
<1>4. feed' = [feed EXCEPT ![f] = m] /\ UNCHANGED <<vars, gop, mountVars>>
  BY DEF CallSink
<1> HIDE DEF m
<1> QED BY <1>2, <1>3, <1>4, MediaChanges

LEMMA JoinKeeps == ASSUME RestInv, NEW f \in Feeds, Join(f) PROVE RestInv'
<1>1. feed[f] \in SourceFeed /\ Sound(feed[f]) /\ By(feed[f], at)
  BY DEF RestInv
<1> DEFINE m == [feed[f] EXCEPT !.viewers = @ + 1]
<1>2. /\ m \in SourceFeed /\ m.base = feed[f].base /\ m.first = feed[f].first
      /\ m.plain = feed[f].plain /\ m.given = feed[f].given /\ m.last = feed[f].last
  BY <1>1 DEF SourceFeed
<1>3. feed' = [feed EXCEPT ![f] = m] /\ UNCHANGED <<vars, gop, mountVars>>
  BY DEF Join, sendVars
<1> HIDE DEF m
<1>4. Sound(m) /\ By(m, at)
  BY <1>1, <1>2, TouchedKeeps
<1> QED BY <1>2, <1>3, <1>4, MediaChanges

LEMMA RemoveSinkKeeps == ASSUME RestInv, NEW f \in Feeds, RemoveSink(f) PROVE RestInv'
<1>1. feed[f] \in SourceFeed /\ Sound(feed[f]) /\ By(feed[f], at)
  BY DEF RestInv
<1> DEFINE m == [feed[f] EXCEPT !.state = "gone"]
<1>2. /\ m \in SourceFeed /\ m.base = feed[f].base /\ m.first = feed[f].first
      /\ m.plain = feed[f].plain /\ m.given = feed[f].given /\ m.last = feed[f].last
  BY <1>1 DEF SourceFeed
<1>3. feed' = [feed EXCEPT ![f] = m] /\ UNCHANGED <<vars, gop, mountVars>>
  BY DEF RemoveSink, sendVars
<1> HIDE DEF m
<1>4. Sound(m) /\ By(m, at)
  BY <1>1, <1>2, TouchedKeeps
<1> QED BY <1>2, <1>3, <1>4, MediaChanges

LEMMA LeaveKeeps == ASSUME RestInv, NEW f \in Feeds, Leave(f) PROVE RestInv'
<1>1. feed[f] \in SourceFeed /\ Sound(feed[f]) /\ By(feed[f], at) /\ feed[f].viewers \in Nat
      /\ feed[f].mount \in Nat
  BY DEF RestInv, SourceFeed
<1>2. UNCHANGED <<vars, gop, mountVars>>
  BY DEF Leave, sendVars
<1>3. CASE feed[f].viewers > 1
  <2> DEFINE m == [feed[f] EXCEPT !.viewers = feed[f].viewers - 1]
  <2>1. feed[f].viewers - 1 \in Nat
    BY <1>1, <1>3
  <2>2. /\ m \in SourceFeed /\ m.base = feed[f].base /\ m.first = feed[f].first
        /\ m.plain = feed[f].plain /\ m.given = feed[f].given /\ m.last = feed[f].last
    BY <1>1, <2>1 DEF SourceFeed
  <2>3. feed' = [feed EXCEPT ![f] = m]
    <3> DEFINE last == [NoFeed EXCEPT !.mount = feed[f].mount,
                          !.state = IF feed[f].state = "attached" THEN "detached" ELSE "gone"]
               left == IF feed[f].viewers > 1 THEN m ELSE last
    <3>1. feed' = [feed EXCEPT ![f] = left]
      BY DEF Leave
    <3>2. left = m
      BY <1>3
    <3> HIDE DEF left, m
    <3> QED BY <3>1, <3>2
  <2> HIDE DEF m
  <2>4. Sound(m) /\ By(m, at)
    BY <1>1, <2>2, TouchedKeeps
  <2> QED BY <1>2, <2>2, <2>3, <2>4, MediaChanges
<1>4. CASE ~ (feed[f].viewers > 1)
  <2> DEFINE where == IF feed[f].state = "attached" THEN "detached" ELSE "gone"
             path == feed[f].mount
             w == FALSE
             m == [NoFeed EXCEPT !.mount = path, !.state = where]
  <2>1. feed' = [feed EXCEPT ![f] = m]
    BY <1>4 DEF Leave
  <2>2. path \in Nat /\ w \in BOOLEAN /\ w = FALSE /\ 0 \in Nat
        /\ where \in {"unused", "attached", "elsewhere", "blank", "detached", "gone"}
    BY <1>1
  <2> HIDE DEF where, path
  <2>3. m = [NoFeed EXCEPT !.mount = path, !.state = where]
    OBVIOUS
  <2> HIDE DEF m, w
  <2>4. m = Fresh(path, 0, w, where)
    BY <2>2, <2>3, FreshFromUnwatched
  <2>5. m \in SourceFeed /\ Sound(m) /\ By(m, at)
    BY <2>2, <2>4, FreshIs
  <2> QED BY <1>2, <2>1, <2>5, MediaChanges
<1> QED BY <1>3, <1>4

LEMMA ConfigureKeeps == ASSUME RestInv, NEW f \in Feeds, Configure(f) PROVE RestInv'
<1> DEFINE media == [NoFeed EXCEPT !.mount = mount, !.viewers = 1]
<1>1. UNCHANGED <<vars, gop, mountVars>>
  BY DEF Configure, sendVars
<1>2. gop \in Seq(Pair) /\ InOrder(gop, at) /\ at \in Int
  BY OutIsNow DEF RestInv
<1>5. mount \in Nat /\ 1 \in Nat
  BY DEF RestInv
<1>3. CASE held /\ alive
  <2> DEFINE w == gop = <<>>
             fresh == [media EXCEPT !.state = "attached", !.waits = w]
             m == Primed(fresh, gop)
  <2>1. feed' = [feed EXCEPT ![f] = m]
    BY <1>3 DEF Configure, Attached
  <2>2. fresh = [NoFeed EXCEPT !.mount = mount, !.viewers = 1, !.state = "attached", !.waits = w]
    OBVIOUS
  <2>3. w \in BOOLEAN
    OBVIOUS
  <2> HIDE DEF media, fresh, w
  <2>4. fresh = Fresh(mount, 1, w, "attached")
    BY <2>2, <2>3 DEF NoFeed, Fresh
  <2>5. fresh \in SourceFeed /\ fresh.state = "attached" /\ fresh.base = None /\ Sound(fresh)
    BY <1>5, <2>3, <2>4, FreshIs
  <2>6. m \in SourceFeed /\ Sound(m) /\ By(m, at)
    BY <1>2, <2>5, PrimedKeeps
  <2> HIDE DEF m
  <2> QED BY <1>1, <2>1, <2>6, MediaChanges
<1>4. CASE ~ (held /\ alive)
  <2>1. PICK where \in {"elsewhere", "blank"} :
              feed' = [feed EXCEPT ![f] = [media EXCEPT !.state = where]]
    BY <1>4 DEF Configure
  <2> DEFINE w == FALSE
             m == [media EXCEPT !.state = where]
  <2>2. feed' = [feed EXCEPT ![f] = m]
    BY <2>1
  <2>3. m = [NoFeed EXCEPT !.mount = mount, !.viewers = 1, !.state = where]
    OBVIOUS
  <2>4. w \in BOOLEAN /\ w = FALSE
    OBVIOUS
  <2> HIDE DEF media, m, w
  <2>5. m = Fresh(mount, 1, w, where)
    BY <2>3, <2>4, FreshFromUnwaiting
  <2>6. m \in SourceFeed /\ Sound(m) /\ By(m, at)
    BY <1>5, <2>4, <2>5, FreshIs
  <2> QED BY <1>1, <2>2, <2>6, MediaChanges
<1> QED BY <1>3, <1>4

LEMMA RestNextKeeps == RestInv /\ [RestNext]_restVars => RestInv'
<1> SUFFICES ASSUME RestInv, [RestNext]_restVars PROVE RestInv'
  OBVIOUS
<1>1. CASE SourceNext
  BY <1>1, SourceKeeps
<1>2. CASE ServerNext
  BY <1>2, ServerKeeps
<1>3. ASSUME NEW f \in Feeds, FeedNext(f) PROVE RestInv'
  BY <1>3, CallSinkKeeps, JoinKeeps, ConfigureKeeps, LeaveKeeps, RemoveSinkKeeps DEF FeedNext
<1>4. CASE UNCHANGED restVars
  BY <1>4, FramesRest DEF RestInv, restVars, sendVars, mountVars
<1> QED BY <1>1, <1>2, <1>3, <1>4 DEF RestNext

LEMMA RestInductive == RestSpec => []RestInv
BY RestInitOK, RestNextKeeps, PTL DEF RestSpec

(* However many clients restream a camera, and whenever each joins, its    *)
(* media's stamps start at zero, never wrap below it, and keep the source's*)
(* spacing for a stream that is shown in the order it is decoded.          *)
THEOREM RestreamOwnClock == RestSpec => []OwnClock
<1>1. RestInv => OwnClock
  BY DEF RestInv, Sound, OwnClock
<1> QED BY <1>1, RestInductive, PTL

(* The source runs its frames through the timeline and touches it nowhere  *)
(* else: whatever its start, its end and its medias do is a stutter.       *)
THEOREM RestreamIsTimeline == RestSpec => Spec
<1>1. RestInit => Init
  BY DEF RestInit
<1>2. [RestNext]_restVars => [Next]_vars
  <2> SUFFICES ASSUME [RestNext]_restVars PROVE Next \/ UNCHANGED vars
    OBVIOUS
  <2>1. CASE Deliver
    <3>1. PICK stamps \in Inputs : Correct(stamps)
      BY <2>1 DEF Deliver
    <3>2. /\ stamps.pts \in Stamps \cup {None} /\ stamps.dts \in Stamps \cup {None}
          /\ stamps = [pts |-> stamps.pts, dts |-> stamps.dts]
      BY RestreamAssumption
    <3>3. Correct([pts |-> stamps.pts, dts |-> stamps.dts])
      BY <3>1, <3>2
    <3> QED BY <3>2, <3>3 DEF Next
  <2>2. CASE ~ Deliver
    <3>1. ServerNext => UNCHANGED vars
      BY DEF ServerNext, StartServer, RunWork, StopServer, Invoke
    <3>2. SourceNext => UNCHANGED vars
      BY <2>2 DEF SourceNext, Wire, Play, Opened, Fail, HandleBusMessage, Retire, Repoint,
                  Stopped, EndDelivery
    <3>3. ASSUME NEW f \in Feeds, FeedNext(f) PROVE UNCHANGED vars
      BY <3>3 DEF FeedNext, CallSink, Join, Configure, Leave, RemoveSink
    <3>4. UNCHANGED restVars => UNCHANGED vars
      BY DEF restVars
    <3> QED BY <3>1, <3>2, <3>3, <3>4 DEF RestNext
  <2> QED BY <2>1, <2>2
<1> QED BY <1>1, <1>2, PTL DEF RestSpec, Spec

(* So no client is ever given a frame that goes back or jumps.             *)
THEOREM RestreamNeverJumps == RestSpec => NeverJumps
BY RestreamIsTimeline, TimelineNeverJumps, PTL
=============================================================================
